------------------------------- MODULE Unions -------------------------------
(***************************************************************************)
(* A union picks a member for each snapshot.  To say which branch of a     *)
(* wide union a snapshot was meant for, and to skip the full check of      *)
(* every member in production, it does not simply ask each member in turn: *)
(* validation is scoped to the member named by the literal `type` of the   *)
(* snapshot, or to those whose required and literal properties it has, and *)
(* several of these answers are memoized while late members have still to  *)
(* be defined and registries still grow.                                   *)
(*                                                                         *)
(* One union without a dispatcher, and one property that holds its value.  *)
(***************************************************************************)
EXTENDS TypeAlgebra, Naturals, Sequences, FiniteSets, SequencesExt

CONSTANTS
  Unions         \* the member lists a union is made from, or its registry grows to

ASSUME UnionsAssumption == Unions \subseteq Seq(Type)

VARIABLES
  members,        \* members()
  dynamic,        \* built from { members: () => ... }
  eager,
  defined,        \* the late types whose definition can be evaluated
  checking,       \* isTypeCheckingEnabled()
  intended,       \* intendedModelTypes, shared by all unions
  candidates,     \* _discriminatorCache
  discriminated,  \* _allMembersDiscriminated
  node            \* the node the property holds

memos == <<intended, candidates, discriminated>>

world == <<members, dynamic, eager, defined, checking>>

vars == <<world, memos, node>>

Members == Range(members)

Unread == "unread"

TypeOK ==
  /\ members \in Seq(Type)
  /\ dynamic \in BOOLEAN /\ eager \in BOOLEAN /\ checking \in BOOLEAN
  /\ defined \subseteq Late
  /\ intended \in [Type -> Model \cup {NoType, Unread}]
  /\ candidates \in [Tag -> Type \cup {NoType, Unread}]
  /\ discriminated \in {"yes", "no", Unread}
  /\ node = NoNode \/ (node.type \in Type /\ node.via \in Type)

-----------------------------------------------------------------------------
(* Finding the member a snapshot is meant for *)

\* mutant: a miss is memoized although a late type may still be defined
RememberMisses(seen) ==
  intended' = [t \in Type |->
                 IF t \in seen /\ intended[t] = Unread THEN IntendedModel[defined, t]
                                                      ELSE intended[t]]

\* the models of these types are looked up; a miss of a late type is not kept
Remember(seen) ==
  intended' = [t \in Type |->
                 IF /\ t \in seen /\ intended[t] = Unread
                    /\ IntendedModel[defined, t] # NoType \/ ~HoldsLate[t]
                 THEN IntendedModel[defined, t] ELSE intended[t]]

ModelOf(t) == IF intended[t] = Unread THEN IntendedModel[defined, t] ELSE intended[t]

\* the literal `type` of the model a member is meant for
Discriminated(t) == ModelOf(t) # NoType /\ Def[ModelOf(t)].type.literal

\* the one member whose literal it is; NoType when there is none or several
ScanForDiscriminator(tag) ==
  LET named == {i \in DOMAIN members : /\ Discriminated(members[i])
                                       /\ tag \in Def[ModelOf(members[i])].type.takes}
  IN  IF \E i \in named : named = {i} THEN members[CHOOSE i \in named : TRUE] ELSE NoType

Candidate(tag) ==
  IF ~dynamic /\ candidates[tag] # Unread THEN candidates[tag] ELSE ScanForDiscriminator(tag)

AllDiscriminated ==
  IF ~dynamic /\ discriminated # Unread THEN discriminated = "yes"
  ELSE \A t \in Members : Discriminated(t)

\* every required property is there and every literal one has its value
HasShape(v, m) ==
  LET fits(prop, value) == /\ prop.optional \/ value # Absent
                           /\ prop.literal => value \in prop.takes
  IN  fits(Def[m].type, v.type) /\ fits(Def[m].x, v.x)

\* snapshotLooksLikeType
LooksLike(v, t) == ModelOf(t) # NoType /\ HasShape(v, ModelOf(t))

-----------------------------------------------------------------------------
(* Validation *)

\* the member the discriminator names settles the matter
Settled(v) ==
  LET t == Candidate(v.type) IN
  /\ v.is = "object" /\ v.type # Absent /\ t # NoType
  /\ (eager /\ Valid(defined, t, v)) \/ AllDiscriminated

\* mutant: a clean match is enough in any union
CleanIsEnough(v) ==
  IF v.is = "object" /\ v.type # Absent /\ Candidate(v.type) # NoType
     /\ Valid(defined, Candidate(v.type), v)
  THEN TRUE
  ELSE LET taking == {i \in DOMAIN members : Valid(defined, members[i], v)}
       IN  IF eager THEN taking # {} ELSE Cardinality(taking) = 1

\* isValidSnapshot, without errors
Accepts(v) ==
  LET alike == {i \in DOMAIN members : v.is = "object" /\ LooksLike(v, members[i])}
      tried == IF alike = {} THEN DOMAIN members ELSE alike
      taking == {i \in tried : Valid(defined, members[i], v)}
  IN
  IF Settled(v) THEN Valid(defined, Candidate(v.type), v)
  ELSE IF eager THEN taking # {} ELSE Cardinality(taking) = 1

-----------------------------------------------------------------------------
(* Dispatch *)

First(s) == IF s = <<>> THEN NoType ELSE Head(s)

\* tryQuickMatch
QuickMatch(v, current) ==
  CASE v.is = "text" -> First(SelectSeq(members, LAMBDA t : HoldsString[defined, t]))
    [] v.is = "object" /\ current # NoType /\ LooksLike(v, current) -> current
    [] v.is = "object" -> First(SelectSeq(members, LAMBDA t : LooksLike(v, t)))
    [] OTHER -> NoType

\* the member that passes a test, the current type first
Preferring(current, passes) ==
  IF current \in passes THEN current ELSE First(SelectSeq(members, LAMBDA t : t \in passes))

\* mutant: members in their order, whatever the current one is
MembersInOrder(v, current) ==
  First(SelectSeq(members, LAMBDA t : Is(defined, t, v)))

\* mutant: the quick match comes first in development too
QuickFirst(v, current) ==
  IF QuickMatch(v, current) # NoType THEN QuickMatch(v, current)
  ELSE First(SelectSeq(members, LAMBDA t : Is(defined, t, v)))

\* determineType
DetermineType(v, current) ==
  LET quick == IF checking THEN NoType ELSE QuickMatch(v, current)
      fitting == {t \in Members \cup {current} : t # NoType /\ Is(defined, t, v)}
  IN  IF quick # NoType THEN quick ELSE Preferring(current, fitting)

\* what a create builds, and what an assignment makes of the node, from the
\* member t
BuiltBy(t, v) == IF t = NoType THEN Failed ELSE Built[defined, t, v]

AssignedBy(t, v) == IF t = NoType THEN Failed ELSE Reconciled[defined, checking, t, node, v]

-----------------------------------------------------------------------------
(* What a validation and a dispatch leave in the memos *)

\* the discriminator is looked up by a validation, and for the message of a
\* dispatch that found no member
LooksUp(v) == v.is = "object" /\ v.type # Absent

CandidatesAfter(v) ==
  IF dynamic \/ ~LooksUp(v) THEN candidates ELSE [candidates EXCEPT ![v.type] = Candidate(v.type)]

DiscriminatedAfter(v) ==
  IF /\ ~dynamic /\ LooksUp(v) /\ Candidate(v.type) # NoType
     /\ ~(eager /\ Valid(defined, Candidate(v.type), v))
  THEN IF AllDiscriminated THEN "yes" ELSE "no"
  ELSE discriminated

Validated(v) ==
  /\ IF v.is = "object" THEN Remember(Members) ELSE UNCHANGED intended
  /\ candidates' = CandidatesAfter(v)
  /\ discriminated' = DiscriminatedAfter(v)

\* in production: the members up to t, the one that matched
Tried(t) == {members[j] : j \in {k \in DOMAIN members : \A h \in 1 .. k - 1 : members[h] # t}}

Matched(v, current, t) ==
  /\ IF v.is # "object" THEN UNCHANGED intended
     ELSE IF t # NoType /\ t = current THEN Remember({t})
     ELSE Remember({current} \cup Tried(t))
  /\ candidates' = IF t = NoType THEN CandidatesAfter(v) ELSE candidates
  /\ UNCHANGED discriminated

Init ==
  /\ dynamic \in BOOLEAN /\ eager \in BOOLEAN /\ checking \in BOOLEAN
  /\ IF dynamic THEN members = <<>> ELSE members \in Unions
  /\ defined = {}
  /\ intended = [t \in Type |-> Unread]
  /\ candidates = [tag \in Tag |-> Unread]
  /\ discriminated = Unread
  /\ node = NoNode

\* union.is(v) and typecheck(union, v)
Check(v) == Validated(v) /\ UNCHANGED <<world, node>>

\* a write that throws leaves the property as it was
Store(n) == node' = IF n = Failed THEN node ELSE n

\* the typecheck of a create or an assignment, and the dispatch to t
Dispatched(v, current, t) ==
  /\ IF checking THEN Validated(v) ELSE Matched(v, current, t)
  /\ UNCHANGED world

Refused(v) == checking /\ ~Accepts(v)

\* the parent is created with v
Create(v) ==
  /\ node = NoNode
  /\ \E t \in {DetermineType(v, NoType)} :
       /\ Dispatched(v, NoType, t)
       /\ IF Refused(v) THEN UNCHANGED node ELSE Store(BuiltBy(t, v))

\* parent.prop = v
Assign(v) ==
  /\ node # NoNode
  /\ \E t \in {DetermineType(v, node.via)} :
       /\ Dispatched(v, node.via, t)
       /\ IF Refused(v) THEN UNCHANGED node ELSE Store(AssignedBy(t, v))

\* the module that a late definition reads has loaded
Define(t) ==
  /\ t \in Late \ defined
  /\ defined' = defined \cup {t}
  /\ UNCHANGED <<members, dynamic, eager, checking, memos, node>>

\* the registry behind members: () => ... grows
Register(t) ==
  /\ dynamic /\ \E list \in Unions : IsPrefix(Append(members, t), list)
  /\ members' = Append(members, t)
  /\ UNCHANGED <<dynamic, eager, defined, checking, memos, node>>

\* setTypeChecking
SetTypeChecking ==
  /\ checking' = ~checking
  /\ UNCHANGED <<members, dynamic, eager, defined, memos, node>>

Next ==
  \/ \E v \in Data : Check(v) \/ Create(v) \/ Assign(v)
  \/ \E t \in Late : Define(t)
  \/ \E t \in Type : Register(t)
  \/ SetTypeChecking

Spec == Init /\ [][Next]_vars

-----------------------------------------------------------------------------
(* Properties *)

\* every late member can be evaluated
Complete == Late \cap Members \subseteq defined

\* what a snapshot has to be for the union: taken by some member, and by no
\* other when the union is not eager
Defined(v) ==
  LET taking == {i \in DOMAIN members : Valid(defined, members[i], v)}
  IN  IF eager THEN taking # {} ELSE Cardinality(taking) = 1

\* every snapshot a member takes looks like one of its model; no resilient
\* member does, as it takes everything
Recognizable(t) ==
  LET m == IntendedModel[defined, t] IN
  \A v \in Snapshot : Valid(defined, t, v) => m # NoType /\ HasShape(v, m)

\* The discriminator of v was looked up while a late member that has it too was
\* not defined: the memo names one member, a scan finds several.
Outrun(v) ==
  /\ ~dynamic /\ LooksUp(v)
  /\ candidates[v.type] \notin {Unread, NoType, ScanForDiscriminator(v.type)}

\* Scoping and memos save work and improve messages; they do not change which
\* snapshots pass, but for those whose discriminator has outrun its memo.
ValidatesAsDefined ==
  Complete /\ (\A t \in Members : Recognizable(t))
    => \A v \in Data : ~Outrun(v) => (Accepts(v) <=> Defined(v))

\* What the memo of discriminators rests on (union.ts:238: "Union membership is
\* fixed at construction, so the result for a given `type` string never
\* changes").  It fails with two members of one literal, of which one is late.
MembershipIsFixed == \A v \in Snapshot : ~Outrun(v)

\* The same of any members, of an eager union: an untagged catch-all takes
\* what no other member does.  It fails for a tagged model beside a frozen
\* (CatchAll of MCUnions), which isValidSnapshot drops from the candidates.
ScopingKeepsVerdict ==
  Complete /\ eager => \A v \in Data : Accepts(v) <=> Defined(v)

\* is(): the type that takes the value is the one the member is meant for
Proper(t, v) ==
  IF Def[t].kind = "resilient" THEN Is(defined, Def[t].sub, v) ELSE Is(defined, t, v)

Fresh(v) == BuiltBy(DetermineType(v, NoType), v)

Assigned(v) == AssignedBy(DetermineType(v, node.via), v)

\* What passes validation gets built, from a snapshot that some member takes
\* itself and not by its fallback, and the node belongs to the union.  The
\* member that builds it need not be one that accepts it: an earlier resilient
\* one is asked first, and its is() takes what its fallback takes.
BuildsWhatItAccepts ==
  Complete /\ checking =>
    \A v \in Data :
      Accepts(v) /\ (\E t \in Members : Proper(t, v))
        => \E n \in {Fresh(v)} : n # Failed /\ \E t \in Members : Assignable(defined, t, n.type)

\* every snapshot that a member takes itself looks like one of its model
Shaped(t) ==
  LET m == IntendedModel[defined, t] IN
  \A v \in Snapshot : Proper(t, v) => m # NoType /\ HasShape(v, m)

\* Production skips the full check, and still picks the member development
\* picks for a snapshot that is right for the member it picks, when no member
\* takes that snapshot by its fallback only.  (Of SafeC and F in MCUnions,
\* development gives what F takes to SafeC, whose fallback it is.)
QuickMatchAgrees ==
  Complete /\ (\A t \in Members : Shaped(t)) =>
    \A v \in Data, current \in {NoType, node.via} :
      LET quick == QuickMatch(v, current)
          fitting == {t \in Members \cup {current} : t # NoType /\ Is(defined, t, v)}
      IN  quick \in fitting /\ (\A t \in fitting : Proper(t, v))
            => quick = Preferring(current, fitting)

\* An assignment keeps the node while its type takes the value, and otherwise
\* ends up with the type that a new node would have: in particular a fallback
\* recovers.  (A node is its record here, two equal ones are not told apart.)
AssignsWhatItWouldBuild ==
  node # NoNode /\ checking /\ Complete =>
    \A v \in {w \in Data : Accepts(w)} :
      \A t \in Members, n \in {Assigned(v)} :
        Proper(t, v) /\ t = DetermineType(v, NoType)
          => IF Is(defined, node.via, v) THEN n = node ELSE n.type = BuiltBy(t, v).type
=============================================================================
