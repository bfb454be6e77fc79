-------------------------------- MODULE Paths --------------------------------
(***************************************************************************)
(* Paths of nodes: JSON pointers, and the relative paths that lead from    *)
(* one node of a tree to another.  Reading a path back has to end up at    *)
(* the node it was made for, whatever characters the keys on the way have; *)
(* recorded actions and patches are replayed along such paths.             *)
(*                                                                         *)
(* A string is the sequence of its characters.  A node is known by the     *)
(* keys on the way from the root to it.                                    *)
(***************************************************************************)
EXTENDS Naturals, SequencesExt

CONSTANTS
  Key,    \* the keys there can be
  Depth,  \* bound on the depth of the tree
  Lost    \* where a path that cannot be resolved leads

Slash == <<"/">>
Dot == <<".">>
DotDot == <<".", ".">>

\* A key "." or ".." cannot be told from a step of a relative path.
ASSUME PathsAssumption == Dot \notin Key /\ DotDot \notin Key /\ Depth \in Nat

VARIABLES
  keys,   \* the keys of every map in the tree
  sought, \* the node that the last path was made for
  cursor  \* the node that it led to

vars == <<keys, sought, cursor>>

Tree == UNION {[1 .. d -> keys] : d \in 0 .. Depth}

-----------------------------------------------------------------------------
(* JSON pointers *)

\* text.replace(/from/g, to)
Rewritten(text, from, to) ==
  LET matches == {i \in 1 .. Len(text) - Len(from) + 1 : SubSeq(text, i, i + Len(from) - 1) = from}
      inside == {i \in DOMAIN text : \E j \in matches : i \in j + 1 .. j + Len(from) - 1}
  IN FlattenSeq([i \in DOMAIN text |->
       IF i \in matches THEN to ELSE IF i \in inside THEN <<>> ELSE <<text[i]>>])

\* escapeJsonPath
Escaped(key) == Rewritten(Rewritten(key, <<"~">>, <<"~", "0">>), Slash, <<"~", "1">>)

\* mutant: the escapes are undone in the order in which they were made
UndoneInOrder(piece) == Rewritten(Rewritten(piece, <<"~", "0">>, <<"~">>), <<"~", "1">>, Slash)

\* unescapeJsonPath
Unescaped(piece) == Rewritten(Rewritten(piece, <<"~", "1">>, Slash), <<"~", "0">>, <<"~">>)

JoinedWith(pieces, between) ==
  FlattenSeq([i \in DOMAIN pieces |-> IF i = 1 THEN pieces[i] ELSE between \o pieces[i]])

\* joinJsonPath
JoinJsonPath(parts) ==
  LET text == JoinedWith([i \in DOMAIN parts |-> Escaped(parts[i])], Slash) IN
  IF parts = <<>> \/ parts[1] \in {Dot, DotDot} THEN text ELSE Slash \o text

\* path.split("/")
Pieces(path) ==
  LET put(pieces, char) == IF char = "/" THEN Append(pieces, <<>>)
                           ELSE [pieces EXCEPT ![Len(pieces)] = Append(@, char)]
  IN FoldLeft(put, << <<>> >>, path)

\* splitJsonPath, of a path that is rooted, empty or relative
SplitJsonPath(path) ==
  LET parts == [i \in DOMAIN Pieces(path) |-> Unescaped(Pieces(path)[i])] IN
  IF parts[1] = <<>> THEN Tail(parts) ELSE parts

Valid(path) == Pieces(path)[1] \in {<<>>, Dot, DotDot}

-----------------------------------------------------------------------------
(* Nodes *)

\* getEscapedPath
PathOf(node) == FlattenSeq([i \in DOMAIN node |-> Slash \o Escaped(node[i])])

\* resolveNodeByPathParts, one part
Step(current, part) ==
  IF current = Lost \/ (part = DotDot /\ current = <<>>) THEN Lost
  ELSE IF part = DotDot THEN Front(current)
  ELSE IF part = Dot THEN current
  ELSE IF Append(current, part) \in Tree THEN Append(current, part)
  ELSE Lost

\* resolveNodeByPath
Resolved(base, path) == IF Valid(path) THEN FoldLeft(Step, base, SplitJsonPath(path)) ELSE Lost

\* getRelativePathBetweenNodes
RelativePath(base, target) ==
  LET from == SplitJsonPath(PathOf(base))
      to == SplitJsonPath(PathOf(target))
      common == Len(LongestCommonPrefix({from, to}))
  IN JoinedWith([i \in 1 .. Len(from) - common |-> DotDot], Slash)
       \o JoinJsonPath(SubSeq(to, common + 1, Len(to)))

-----------------------------------------------------------------------------
Init ==
  /\ keys \in {{k, l} : k, l \in Key}
  /\ sought = <<>> /\ cursor = <<>>

\* resolvePath(node, getRelativePath(node, target)), and the path of a recorded
\* action
Follow(target) ==
  /\ cursor' = Resolved(cursor, RelativePath(cursor, target))
  /\ sought' = target
  /\ UNCHANGED keys

\* resolvePath(root, getPath(target)), and the path of a patch
Visit(target) ==
  /\ cursor' = Resolved(<<>>, PathOf(target))
  /\ sought' = target
  /\ UNCHANGED keys

Next == \E target \in Tree : Follow(target) \/ Visit(target)

Spec == Init /\ [][Next]_vars

-----------------------------------------------------------------------------
\* A path that was made for a node leads to it, from the root and from any other
\* node of the tree.
PathsLeadBack == cursor = sought
=============================================================================
