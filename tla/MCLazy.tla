------------------------------- MODULE MCLazy -------------------------------
(* The keys of up to two characters that mean something in a path, with one   *)
(* that looks like an escape and one that looks like a step.                  *)
EXTENDS Lazy

Char == {"/", "~", "1"}

MCKey == UNION {[1 .. n -> Char] : n \in 0 .. 2} \cup {<<"~", "0">>, <<".", "1">>}

\* an ordinary key and the empty one, and one that has to be escaped
MCLazyKeys == {{<<"1">>, <<>>}, {<<"1">>, <<"/">>}}

\* plain names, among them the empty one, and some a path would not lead to
MCProperty == {<<"1">>, <<>>, <<"/">>, <<"~", "1">>, <<"~", "0">>}
=============================================================================
