----------------------------- MODULE TypeAlgebra -----------------------------
(***************************************************************************)
(* What the types a union is made of do with a value: validate it, build a *)
(* node from it, reconcile a node with it.  The types are                  *)
(*                                                                         *)
(*   model      types.model({ type: ..., x: ... }), each property with the *)
(*              values it takes and the flags it carries; breaks has the   *)
(*              values of x that no node can be built from                 *)
(*   string     types.string          frozen     types.frozen()            *)
(*   optional   types.optional(sub, default)                               *)
(*   processed  types.snapshotProcessor(sub, { preProcessor: pre })        *)
(*   late       types.late(() => sub)                                      *)
(*   resilient  types.resilient(sub, fallback, () => rescue)               *)
(*                                                                         *)
(* "made" is the set of late types whose definition can be evaluated.      *)
(***************************************************************************)
CONSTANTS
  Type,   \* names of the types
  Def,    \* the record that describes each of them
  Tag,    \* values of the property type
  Field   \* values of the property x

Absent == "absent"   \* the property is missing or undefined

NoType == "none"

Snapshot == [is : {"object"}, type : Tag \cup {Absent}, x : Field \cup {Absent}]

Undefined == [is |-> "undefined", type |-> Absent, x |-> Absent]

Text == [is |-> "text", type |-> Absent, x |-> Absent]

\* what a preprocessor that throws leaves
Thrown == [is |-> "thrown", type |-> Absent, x |-> Absent]

Data == Snapshot \cup {Undefined, Text}

Model == {t \in Type : Def[t].kind = "model"}

Late == {t \in Type : Def[t].kind = "late"}

\* every property takes its value
Takes(m, o) == o.type \in Def[m].type.takes /\ o.x \in Def[m].x.takes

\* what a type may be given
Given == Data \cup {Thrown}

\* the types of the nodes a type can hold
Holds[made \in SUBSET Late, t \in Type] ==
  LET d == Def[t] IN
  CASE d.kind \in {"optional", "processed"} -> Holds[made, d.sub]
    [] d.kind = "late" -> IF t \in made THEN Holds[made, d.sub] ELSE {}
    [] d.kind = "resilient" -> Holds[made, d.sub] \cup Holds[made, d.fallback]
    [] OTHER -> {t}

\* isAssignableFrom
Assignable(made, t, m) == m \in Holds[made, t]

\* validate, without errors
Validates[made \in SUBSET Late, t \in Type, v \in Given] ==
  LET d == Def[t] IN
  CASE v.is = "thrown"      -> FALSE
    [] d.kind = "model"     -> v.is = "object" /\ Takes(t, v)
    [] d.kind = "string"    -> v = Text
    [] d.kind = "optional"  -> v = Undefined \/ Validates[made, d.sub, v]
    [] d.kind = "processed" -> Validates[made, d.sub, d.pre[v]]
    [] d.kind = "late"      -> t \in made => Validates[made, d.sub, v]
    [] OTHER                -> TRUE

\* tabulated: <<made, type, value>>
ValidValues == {c \in (SUBSET Late) \X Type \X Data : Validates[c]}

Valid(made, t, v) == <<made, t, v>> \in ValidValues

\* is(): a resilient type takes what either of its types takes
Fits[made \in SUBSET Late, t \in Type, v \in Data] ==
  LET d == Def[t] IN
  IF d.kind = "resilient" THEN Fits[made, d.sub, v] \/ Fits[made, d.fallback, v]
  ELSE Valid(made, t, v)

FittingValues == {c \in (SUBSET Late) \X Type \X Data : Fits[c]}

Is(made, t, v) == <<made, t, v>> \in FittingValues

\* the model a member is meant for, or NoType while there is none
IntendedModel[made \in SUBSET Late, t \in Type] ==
  LET d == Def[t] IN
  CASE d.kind = "model" -> t
    [] d.kind \in {"optional", "processed", "resilient"} -> IntendedModel[made, d.sub]
    [] d.kind = "late" /\ t \in made -> IntendedModel[made, d.sub]
    [] OTHER -> NoType

\* some wrapper is late: TypeFlags.Late, which a resolved late type keeps
HoldsLate[t \in Type] ==
  LET d == Def[t] IN
  \/ d.kind = "late"
  \/ d.kind \in {"optional", "processed", "resilient"} /\ HoldsLate[d.sub]

\* TypeFlags.String
HoldsString[made \in SUBSET Late, t \in Type] ==
  LET d == Def[t] IN
  \/ d.kind = "string"
  \/ d.kind \in {"optional", "processed", "resilient"} /\ HoldsString[made, d.sub]
  \/ d.kind = "late" /\ t \in made /\ HoldsString[made, d.sub]

-----------------------------------------------------------------------------
(* A node is known by its type and by its reconciliation type, which is the *)
(* outermost processed type around it if there is one.                      *)

NoNode == [type |-> NoType, via |-> NoType]

Failed == [type |-> "failed", via |-> "failed"]   \* an exception

Node == [type : Type, via : Type]

\* instantiate: a model builds whatever it is given, valid or not, unless a
\* property cannot be built
Built[made \in SUBSET Late, t \in Type, v \in Given] ==
  LET d == Def[t] IN
  CASE v = Thrown -> Failed
    [] d.kind = "model" /\ v.x \in d.breaks -> Failed
    [] d.kind = "optional" -> Built[made, d.sub, IF v = Undefined THEN d.default ELSE v]
    [] d.kind = "processed" ->
         LET n == Built[made, d.sub, d.pre[v]] IN
         IF n = Failed THEN Failed ELSE [n EXCEPT !.via = t]
    [] d.kind = "late" -> IF t \in made THEN Built[made, d.sub, v] ELSE Failed
    [] d.kind = "resilient" ->
         LET n == Built[made, d.sub, v] IN
         IF n = Failed THEN Built[made, d.fallback, d.rescue] ELSE n
    [] OTHER -> [type |-> t, via |-> t]

\* reconcile: the node that takes the place of "node"
Reconciled[made \in SUBSET Late, checking \in BOOLEAN, t \in Type, node \in Node, v \in Given] ==
  LET d == Def[t] IN
  CASE v = Thrown -> Failed
    [] d.kind = "model" /\ node.type = t /\ v.is = "object" ->
         IF (checking /\ ~Valid(made, t, v)) \/ v.x \in d.breaks THEN Failed ELSE node
    [] d.kind = "optional" ->
         LET w == IF v # Undefined /\ Is(made, d.sub, v) THEN v ELSE d.default IN
         Reconciled[made, checking, d.sub, node, w]
    [] d.kind = "processed" ->
         LET n == Reconciled[made, checking, d.sub, node, d.pre[v]] IN
         IF n \in {Failed, node} THEN n ELSE [n EXCEPT !.via = t]
    [] d.kind = "late" ->
         IF t \in made THEN Reconciled[made, checking, d.sub, node, v] ELSE Failed
    [] d.kind = "resilient" /\ Assignable(made, d.fallback, node.type) ->
         LET n == Built[made, d.sub, v] IN
         IF n = Failed THEN Reconciled[made, checking, d.fallback, node, d.rescue] ELSE n
    [] d.kind = "resilient" ->
         LET n == Reconciled[made, checking, d.sub, node, v] IN
         IF n = Failed THEN Built[made, d.fallback, d.rescue] ELSE n
    [] OTHER -> Built[made, t, v]
=============================================================================
