------------------------------ MODULE MCUnions ------------------------------
(* Unions of two or three members out of fourteen types. *)
EXTENDS Unions, TLC

Tags == {"A", "B", "C", "F"}

Fields == {"num", "str"}

Literal(tag) == [takes |-> {tag}, literal |-> TRUE, optional |-> FALSE]

Required(values) == [takes |-> values, literal |-> FALSE, optional |-> FALSE]

Optional(values) == [takes |-> values \cup {"absent"}, literal |-> FALSE, optional |-> TRUE]

ModelWith(type, x, breaks) == [kind |-> "model", type |-> type, x |-> x, breaks |-> breaks]

\* a migration of x: text becomes a number
Migrate[v \in Data] ==
  IF v.is # "object" THEN Thrown ELSE IF v.x = "str" THEN [v EXCEPT !.x = "num"] ELSE v

\* a migration of type: records without one are A
Tagged[v \in Data] ==
  IF v.is # "object" THEN Thrown ELSE IF v.type = "absent" THEN [v EXCEPT !.type = "A"] ELSE v

Defs == [
  A      |-> ModelWith(Literal("A"), Required({"num"}), {}),
  A2     |-> ModelWith(Literal("A"), Required({"str"}), {}),
  B      |-> ModelWith(Literal("B"), Optional(Fields), {}),
  C      |-> ModelWith(Literal("C"), Required({"num"}), {"str"}),
  F      |-> ModelWith(Literal("F"), Optional({}), {}),
  Loose  |-> ModelWith(Required(Tags), Required(Fields), {}),
  Any    |-> [kind |-> "frozen"],
  String |-> [kind |-> "string"],
  OptB   |-> [kind |-> "optional", sub |-> "B", default |-> [is |-> "object", type |-> "B", x |-> "absent"]],
  OldA   |-> [kind |-> "processed", sub |-> "A", pre |-> Migrate],
  BareA  |-> [kind |-> "processed", sub |-> "A", pre |-> Tagged],
  LateC  |-> [kind |-> "late", sub |-> "C"],
  LateA  |-> [kind |-> "late", sub |-> "A2"],
  SafeC  |-> [kind |-> "resilient", sub |-> "C", fallback |-> "F", rescue |-> [is |-> "object", type |-> "F", x |-> "absent"]]]

Types == DOMAIN Defs

\* members with and without a literal, wrapped or not; a late one that has its
\* literal to itself, and one that shares it
Lists == {
  <<"A", "BareA">>, <<"B", "OptB">>, <<"A", "Loose">>, <<"Loose", "A">>, <<"A", "Any">>,
  <<"Any", "B">>, <<"String", "OptB">>, <<"A", "SafeC">>, <<"SafeC", "Loose">>,
  <<"SafeC", "F">>, <<"C", "B">>, <<"OldA", "A">>, <<"B", "LateC">>,
  <<"LateC", "Loose">>, <<"LateC", "Any">>, <<"OldA", "LateC", "String">>,
  <<"A", "LateA">>}

CatchAll == {<<"A", "Any">>}
=============================================================================
