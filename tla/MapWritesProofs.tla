--------------------------- MODULE MapWritesProofs ---------------------------
(***************************************************************************)
(* Proofs about MapWrites: for any keys and nodes and any writes of hooks  *)
(* inside writes, the map and its nodes agree, a write that throws changes *)
(* nothing, and applySnapshot works in place.  A write that waits for a    *)
(* hook has a claim on the nodes it took note of, which the invariant      *)
(* spells out: the old node is where it was, and the new one is still      *)
(* nobody's.                                                               *)
(***************************************************************************)
EXTENDS MapWrites, FiniteSetTheorems, TLAPS

Frame == Replacing \cup Removing \cup Applying

Typed ==
  /\ defined \in BOOLEAN /\ mode \in {"unknown", "yes"}
  /\ items \in [Key -> Node \cup {NoNode}]
  /\ place \in [Node -> {"absent", "free", "here", "there", "dead"}]
  /\ subpath \in [Node -> Key \cup {NoKey}]
  /\ refused \in BOOLEAN

\* An applySnapshot starts outside of any write, with snapshots it may assign.
ApplyIsFirst(s) ==
  \A i \in 1 .. Len(s) : s[i].op = "apply" =>
    /\ i = 1
    /\ \A j \in DOMAIN s[i].todo : Settled(s[i].todo[j][1], s[i].todo[j][2])

\* What is replaced is in the map still, and what replaces it nowhere yet.
ReplaceClaims(s, its, pl) ==
  \A i \in 1 .. Len(s) : s[i].op = "replace" =>
    /\ its[s[i].key] = s[i].old
    /\ IdOf[s[i].new] = s[i].key
    /\ pl[s[i].new] \in {"absent", "free"}

\* What is removed is out of the map, and alive.
RemoveClaims(s, its, pl) ==
  \A i \in 1 .. Len(s) : s[i].op = "remove" =>
    /\ pl[s[i].old] = "here"
    /\ \A k \in Key : its[k] # s[i].old

\* No two writes have the same claim.
OneEach(s) ==
  \A i, j \in 1 .. Len(s) : i # j /\ s[i].op = s[j].op =>
    /\ s[i].op = "replace" => s[i].key # s[j].key
    /\ s[i].op = "remove" => s[i].old # s[j].old

\* Until the type knows that its items have identifiers there is no item.
NothingYet(s, m) ==
  m = "unknown" =>
    \A i \in 1 .. Len(s) : /\ s[i].op # "replace"
                           /\ s[i].op = "apply" => DOMAIN s[i].todo = {}

Claims(s, m, its, pl) ==
  /\ s \in Seq(Frame)
  /\ ApplyIsFirst(s)
  /\ ReplaceClaims(s, its, pl)
  /\ RemoveClaims(s, its, pl)
  /\ OneEach(s)
  /\ NothingYet(s, m)

Held(m, its, pl, sp) ==
  \A k \in Key : its[k] # NoNode =>
    /\ pl[its[k]] = "here" /\ sp[its[k]] = k /\ IdOf[its[k]] = k
    /\ m = "yes"

\* A node of the map is in it, or about to die.
Accounted(s, its, pl) ==
  \A n \in Node : pl[n] = "here" =>
    \/ \E k \in Key : its[k] = n
    \/ \E i \in 1 .. Len(s) : s[i].op = "remove" /\ s[i].old = n

Agreed(s, m, its, pl, sp) ==
  Claims(s, m, its, pl) /\ Held(m, its, pl, sp) /\ Accounted(s, its, pl)

Core == Typed /\ Agreed(frames, mode, items, place, subpath)

IInv == Core /\ hookWrites \in 0 .. MaxHookWrites

-----------------------------------------------------------------------------
(* Stacks *)

LEMMA FrontOf ==
  ASSUME NEW S, NEW s \in Seq(S), s # <<>>
  PROVE  /\ Len(s) \in Nat \ {0} /\ Last(s) = s[Len(s)] /\ Last(s) \in S
         /\ Front(s) \in Seq(S) /\ Len(Front(s)) = Len(s) - 1
         /\ \A i \in 1 .. Len(s) - 1 : Front(s)[i] = s[i]
<1> DEFINE n == Len(s)
<1>1. n \in Nat \ {0} /\ Last(s) = s[n] /\ s[n] \in S
  BY DEF Last
<1>2. Front(s) = SubSeq(s, 1, n - 1)
  BY DEF Front
<1>3. n = Len(s)
  OBVIOUS
<1> HIDE DEF n
<1>4. /\ SubSeq(s, 1, n - 1) \in Seq(S) /\ Len(SubSeq(s, 1, n - 1)) = n - 1
      /\ \A i \in 1 .. n - 1 : SubSeq(s, 1, n - 1)[i] = s[i]
  BY <1>1, <1>3
<1> QED
  BY <1>1, <1>2, <1>4 DEF n

LEMMA TopOf ==
  ASSUME NEW S, NEW s \in Seq(S), s # <<>>, NEW x \in S
  PROVE  LET t == Front(s) \o <<x>> IN
         /\ t \in Seq(S) /\ Len(t) = Len(s)
         /\ \A i \in 1 .. Len(s) : t[i] = IF i = Len(s) THEN x ELSE s[i]
<1> DEFINE u == Front(s)
<1>1. /\ Len(s) \in Nat \ {0} /\ u \in Seq(S) /\ Len(u) = Len(s) - 1
      /\ \A i \in 1 .. Len(s) - 1 : u[i] = s[i]
  BY FrontOf
<1> HIDE DEF u
<1>2. <<x>> \in Seq(S) /\ Len(<<x>>) = 1 /\ <<x>>[1] = x
  OBVIOUS
<1>3. u \o <<x>> \in Seq(S) /\ Len(u \o <<x>>) = Len(s)
  BY <1>1, <1>2
<1>4. \A i \in 1 .. Len(s) : (u \o <<x>>)[i] = IF i = Len(s) THEN x ELSE s[i]
  BY <1>1, <1>2
<1> QED
  BY <1>3, <1>4 DEF u

LEMMA AppendOf ==
  ASSUME NEW S, NEW s \in Seq(S), NEW x \in S
  PROVE  /\ Append(s, x) \in Seq(S) /\ Len(Append(s, x)) = Len(s) + 1
         /\ \A i \in 1 .. Len(s) + 1 :
              Append(s, x)[i] = IF i = Len(s) + 1 THEN x ELSE s[i]
OBVIOUS

LEMMA NotANode == NoNode \notin Node
BY MapWritesAssumption

LEMMA FrameParts ==
  ASSUME NEW f \in Frame
  PROVE  /\ f.op = "replace" => f.key \in Key /\ f.old \in Node /\ f.new \in Node
         /\ f.op = "remove" => f.old \in Node
         /\ f.op = "apply" => f \in Applying
<1>1. CASE f \in Replacing
  BY <1>1 DEF Replacing
<1>2. CASE f \in Removing
  BY <1>2 DEF Removing
<1>3. CASE f \in Applying
  BY <1>3 DEF Applying
<1> QED
  BY <1>1, <1>2, <1>3 DEF Frame

LEMMA FramesParts ==
  ASSUME NEW s \in Seq(Frame)
  PROVE  \A i \in 1 .. Len(s) :
           /\ s[i] \in Frame
           /\ s[i].op = "replace" =>
                s[i].key \in Key /\ s[i].old \in Node /\ s[i].new \in Node
           /\ s[i].op = "remove" => s[i].old \in Node
           /\ s[i].op = "apply" => s[i] \in Applying
<1>1. \A i \in 1 .. Len(s) : s[i] \in Frame
  OBVIOUS
<1> QED
  BY <1>1, FrameParts

\* The frames of t are those of s, but for what a frame does not claim; only
\* an applySnapshot may be missing.
Weaker(t, s) ==
  /\ t \in Seq(Frame) /\ Len(t) <= Len(s)
  /\ \A i \in 1 .. Len(t) :
       /\ t[i].op = s[i].op
       /\ s[i].op = "replace" => /\ t[i].key = s[i].key /\ t[i].old = s[i].old
                                 /\ t[i].new = s[i].new
       /\ s[i].op = "remove" => t[i].old = s[i].old
       /\ s[i].op = "apply" =>
            \A j \in DOMAIN t[i].todo : \E h \in DOMAIN s[i].todo : t[i].todo[j] = s[i].todo[h]
  /\ \A i \in 1 .. Len(s) : s[i].op # "apply" => i \in 1 .. Len(t)

LEMMA Weakened ==
  ASSUME NEW s, NEW t, NEW m, NEW its, NEW pl, NEW sp,
         Agreed(s, m, its, pl, sp), Weaker(t, s)
  PROVE  Agreed(t, m, its, pl, sp)
<1>1. s \in Seq(Frame) /\ t \in Seq(Frame) /\ \A i \in 1 .. Len(t) : i \in 1 .. Len(s)
  BY DEF Agreed, Claims, Weaker
<1>2. ApplyIsFirst(t)
  <2> SUFFICES ASSUME NEW i \in 1 .. Len(t), t[i].op = "apply"
               PROVE  /\ i = 1
                      /\ \A j \in DOMAIN t[i].todo : Settled(t[i].todo[j][1], t[i].todo[j][2])
    BY DEF ApplyIsFirst
  <2>1. /\ i = 1
        /\ \A j \in DOMAIN s[i].todo : Settled(s[i].todo[j][1], s[i].todo[j][2])
    BY <1>1 DEF Weaker, Agreed, Claims, ApplyIsFirst
  <2>2. \A j \in DOMAIN t[i].todo : \E h \in DOMAIN s[i].todo : t[i].todo[j] = s[i].todo[h]
    BY <1>1 DEF Weaker
  <2> QED
    BY <2>1, <2>2
<1>3. ReplaceClaims(t, its, pl)
  BY <1>1 DEF Weaker, Agreed, Claims, ReplaceClaims
<1>4. RemoveClaims(t, its, pl)
  BY <1>1 DEF Weaker, Agreed, Claims, RemoveClaims
<1>5. OneEach(t)
  BY <1>1 DEF Weaker, Agreed, Claims, OneEach
<1>6. NothingYet(t, m)
  <2> SUFFICES ASSUME m = "unknown", NEW i \in 1 .. Len(t)
               PROVE  t[i].op # "replace" /\ (t[i].op = "apply" => DOMAIN t[i].todo = {})
    BY DEF NothingYet
  <2>1. s[i].op # "replace" /\ (s[i].op = "apply" => DOMAIN s[i].todo = {}) /\ t[i].op = s[i].op
    BY <1>1 DEF Weaker, Agreed, Claims, NothingYet
  <2>2. t[i].op = "apply" =>
          \A j \in DOMAIN t[i].todo : \E h \in DOMAIN s[i].todo : t[i].todo[j] = s[i].todo[h]
    BY <2>1 DEF Weaker
  <2> QED
    BY <2>1, <2>2
<1>7. Accounted(t, its, pl)
  BY <1>1 DEF Weaker, Agreed, Accounted
<1> QED
  BY <1>1, <1>2, <1>3, <1>4, <1>5, <1>6, <1>7 DEF Agreed, Claims

-----------------------------------------------------------------------------
(* What writes do to the map *)

\* An addition: the node is nobody's yet.
LEMMA Added ==
  ASSUME NEW s, NEW m, NEW its \in [Key -> Node \cup {NoNode}], NEW pl, NEW sp,
         Agreed(s, m, its, pl, sp), DOMAIN pl = Node, DOMAIN sp = Node,
         NEW k \in Key, NEW n \in Node, its[k] = NoNode, IdOf[n] = k, m = "yes",
         pl[n] \in {"absent", "free"}
  PROVE  Agreed(s, m, [its EXCEPT ![k] = n], [pl EXCEPT ![n] = "here"], [sp EXCEPT ![n] = k])
<1> DEFINE its2 == [its EXCEPT ![k] = n]
           pl2 == [pl EXCEPT ![n] = "here"]
           sp2 == [sp EXCEPT ![n] = k]
<1>1. /\ s \in Seq(Frame) /\ ApplyIsFirst(s) /\ OneEach(s) /\ NothingYet(s, m)
      /\ ReplaceClaims(s, its, pl) /\ RemoveClaims(s, its, pl)
  BY DEF Agreed, Claims
<1>2. /\ \A l \in Key : its2[l] = IF l = k THEN n ELSE its[l]
      /\ \A x \in Node : pl2[x] = IF x = n THEN "here" ELSE pl[x]
      /\ \A x \in Node : sp2[x] = IF x = n THEN k ELSE sp[x]
  OBVIOUS
<1> HIDE DEF its2, pl2, sp2
<1>3. \A i \in 1 .. Len(s) :
        /\ s[i].op = "replace" => s[i].key \in Key /\ s[i].old \in Node /\ s[i].new \in Node
        /\ s[i].op = "remove" => s[i].old \in Node
  BY <1>1, FramesParts
<1>4. ReplaceClaims(s, its2, pl2)
  <2> SUFFICES ASSUME NEW i \in 1 .. Len(s), s[i].op = "replace"
               PROVE  /\ its2[s[i].key] = s[i].old
                      /\ IdOf[s[i].new] = s[i].key
                      /\ pl2[s[i].new] \in {"absent", "free"}
    BY DEF ReplaceClaims
  <2>1. /\ its[s[i].key] = s[i].old /\ IdOf[s[i].new] = s[i].key
        /\ pl[s[i].new] \in {"absent", "free"}
    BY <1>1 DEF ReplaceClaims
  <2>2. s[i].key # k /\ s[i].new # n
    BY <1>3, <2>1, NotANode
  <2> QED
    BY <1>2, <1>3, <2>1, <2>2
<1>5. RemoveClaims(s, its2, pl2)
  BY <1>1, <1>2, <1>3 DEF RemoveClaims
<1>6. Held(m, its2, pl2, sp2)
  <2> SUFFICES ASSUME NEW l \in Key, its2[l] # NoNode
               PROVE  /\ pl2[its2[l]] = "here" /\ sp2[its2[l]] = l /\ IdOf[its2[l]] = l
                      /\ m = "yes"
    BY DEF Held
  <2>1. CASE l = k
    BY <1>2, <2>1
  <2>2. CASE l # k
    <3>1. its2[l] = its[l] /\ its[l] \in Node
      BY <1>2, <2>2
    <3>2. pl[its[l]] = "here" /\ sp[its[l]] = l /\ IdOf[its[l]] = l
      BY <3>1 DEF Agreed, Held
    <3>3. its[l] # n
      BY <3>2
    <3> QED
      BY <1>2, <3>1, <3>2, <3>3
  <2> QED
    BY <2>1, <2>2
<1>7. Accounted(s, its2, pl2)
  <2> SUFFICES ASSUME NEW x \in Node, pl2[x] = "here"
               PROVE  \/ \E l \in Key : its2[l] = x
                      \/ \E i \in 1 .. Len(s) : s[i].op = "remove" /\ s[i].old = x
    BY DEF Accounted
  <2>1. CASE x = n
    BY <1>2, <2>1
  <2>2. CASE x # n
    <3>1. \/ \E l \in Key : its[l] = x
          \/ \E i \in 1 .. Len(s) : s[i].op = "remove" /\ s[i].old = x
      BY <1>2, <2>2 DEF Agreed, Accounted
    <3>2. CASE \E l \in Key : its[l] = x
      <4>1. PICK l \in Key : its[l] = x
        BY <3>2
      <4>2. l # k
        BY <4>1, NotANode
      <4> QED
        BY <1>2, <4>1, <4>2
    <3> QED
      BY <3>1, <3>2
  <2> QED
    BY <2>1, <2>2
<1> QED
  BY <1>1, <1>4, <1>5, <1>6, <1>7 DEF Agreed, Claims, its2, pl2, sp2

\* The node built for a refused addition dies.
LEMMA DiscardedNode ==
  ASSUME NEW s, NEW m, NEW its \in [Key -> Node \cup {NoNode}], NEW pl, NEW sp,
         Agreed(s, m, its, pl, sp), DOMAIN pl = Node,
         NEW n \in Node, pl[n] = "absent",
         \A i \in 1 .. Len(s) : s[i].op = "replace" => s[i].new # n
  PROVE  Agreed(s, m, its, [pl EXCEPT ![n] = "dead"], sp)
<1> DEFINE pl2 == [pl EXCEPT ![n] = "dead"]
<1>1. /\ s \in Seq(Frame) /\ ApplyIsFirst(s) /\ OneEach(s) /\ NothingYet(s, m)
      /\ ReplaceClaims(s, its, pl) /\ RemoveClaims(s, its, pl)
  BY DEF Agreed, Claims
<1>2. \A x \in Node : pl2[x] = IF x = n THEN "dead" ELSE pl[x]
  OBVIOUS
<1> HIDE DEF pl2
<1>3. \A i \in 1 .. Len(s) :
        /\ s[i].op = "replace" => s[i].new \in Node
        /\ s[i].op = "remove" => s[i].old \in Node
  BY <1>1, FramesParts
<1>4. ReplaceClaims(s, its, pl2)
  BY <1>1, <1>2, <1>3 DEF ReplaceClaims
<1>5. RemoveClaims(s, its, pl2)
  BY <1>1, <1>2, <1>3 DEF RemoveClaims
<1>6. Held(m, its, pl2, sp)
  BY <1>2 DEF Agreed, Held
<1>7. Accounted(s, its, pl2)
  BY <1>2 DEF Agreed, Accounted
<1> QED
  BY <1>1, <1>4, <1>5, <1>6, <1>7 DEF Agreed, Claims, pl2

\* A replacement begins: it notes the item, and the node that will follow.
LEMMA ReplaceBegins ==
  ASSUME NEW s, NEW m, NEW its \in [Key -> Node \cup {NoNode}], NEW pl, NEW sp,
         Agreed(s, m, its, pl, sp),
         NEW f \in Replacing, its[f.key] = f.old, IdOf[f.new] = f.key,
         pl[f.new] \in {"absent", "free"}, m = "yes",
         \A i \in 1 .. Len(s) : s[i].op = "replace" => s[i].key # f.key
  PROVE  Agreed(Append(s, f), m, its, pl, sp)
<1> DEFINE t == Append(s, f)
           n == Len(s)
<1>1. /\ s \in Seq(Frame) /\ ApplyIsFirst(s) /\ OneEach(s) /\ NothingYet(s, m)
      /\ ReplaceClaims(s, its, pl) /\ RemoveClaims(s, its, pl)
  BY DEF Agreed, Claims
<1>2. f \in Frame /\ f.op = "replace"
  BY DEF Frame, Replacing
<1>3. /\ n \in Nat /\ t \in Seq(Frame) /\ Len(t) = n + 1
      /\ \A i \in 1 .. n + 1 : t[i] = IF i = n + 1 THEN f ELSE s[i]
  BY <1>1, <1>2, AppendOf
<1> HIDE DEF t
<1>4. \A i \in 1 .. n + 1 : i = n + 1 \/ (i \in 1 .. n /\ t[i] = s[i])
  BY <1>3
<1>5. t[n + 1] = f
  BY <1>3
<1> HIDE DEF n
<1>6. ApplyIsFirst(t)
  BY <1>1, <1>2, <1>3, <1>4, <1>5 DEF ApplyIsFirst, n
<1>7. ReplaceClaims(t, its, pl)
  BY <1>1, <1>3, <1>4, <1>5 DEF ReplaceClaims, n
<1>8. RemoveClaims(t, its, pl)
  BY <1>1, <1>2, <1>3, <1>4, <1>5 DEF RemoveClaims, n
<1>9. OneEach(t)
  BY <1>1, <1>2, <1>3, <1>4, <1>5 DEF OneEach, n
<1>10. NothingYet(t, m)
  BY DEF NothingYet
<1>11. Accounted(t, its, pl)
  <2>1. \A i \in 1 .. n : i \in 1 .. n + 1 /\ t[i] = s[i]
    BY <1>3
  <2> QED
    BY <2>1, <1>3 DEF Agreed, Accounted, n
<1> QED
  BY <1>3, <1>6, <1>7, <1>8, <1>9, <1>10, <1>11 DEF Agreed, Claims, t

\* A removal begins: the map has dropped the key, and the node is to die.
LEMMA RemoveBegins ==
  ASSUME NEW s, NEW m, NEW its \in [Key -> Node \cup {NoNode}], NEW pl, NEW sp,
         Agreed(s, m, its, pl, sp),
         NEW f \in Removing, its[f.key] = f.old,
         \A i \in 1 .. Len(s) : s[i].op = "replace" => s[i].key # f.key
  PROVE  Agreed(Append(s, f), m, [its EXCEPT ![f.key] = NoNode], pl, sp)
<1> DEFINE t == Append(s, f)
           n == Len(s)
           its2 == [its EXCEPT ![f.key] = NoNode]
<1>1. /\ s \in Seq(Frame) /\ ApplyIsFirst(s) /\ OneEach(s) /\ NothingYet(s, m)
      /\ ReplaceClaims(s, its, pl) /\ RemoveClaims(s, its, pl)
  BY DEF Agreed, Claims
<1>2. f \in Frame /\ f.op = "remove" /\ f.key \in Key /\ f.old \in Node
  BY DEF Frame, Removing
<1>3. /\ n \in Nat /\ t \in Seq(Frame) /\ Len(t) = n + 1
      /\ \A i \in 1 .. n + 1 : t[i] = IF i = n + 1 THEN f ELSE s[i]
  BY <1>1, <1>2, AppendOf
<1>4. \A l \in Key : its2[l] = IF l = f.key THEN NoNode ELSE its[l]
  OBVIOUS
<1> HIDE DEF t, its2
<1>5. /\ \A i \in 1 .. n + 1 : i = n + 1 \/ (i \in 1 .. n /\ t[i] = s[i])
      /\ \A i \in 1 .. n : i \in 1 .. n + 1 /\ t[i] = s[i]
      /\ t[n + 1] = f
  BY <1>3
<1>6. n = Len(s)
  OBVIOUS
<1> HIDE DEF n
<1>7. /\ pl[f.old] = "here" /\ sp[f.old] = f.key /\ m = "yes"
      /\ \A l \in Key : its[l] = f.old => l = f.key
  BY <1>2, NotANode DEF Agreed, Held
<1>8. \A i \in 1 .. n :
        /\ s[i].op = "replace" => s[i].key \in Key
        /\ s[i].op = "remove" => s[i].old \in Node
  BY <1>1, <1>6, FramesParts
<1>9. ApplyIsFirst(t)
  BY <1>1, <1>2, <1>3, <1>5, <1>6 DEF ApplyIsFirst
<1>10. ReplaceClaims(t, its2, pl)
  <2> SUFFICES ASSUME NEW i \in 1 .. n + 1, t[i].op = "replace"
               PROVE  /\ its2[t[i].key] = t[i].old
                      /\ IdOf[t[i].new] = t[i].key
                      /\ pl[t[i].new] \in {"absent", "free"}
    BY <1>3 DEF ReplaceClaims
  <2>1. i \in 1 .. n /\ t[i] = s[i]
    BY <1>2, <1>5
  <2>2. s[i].key # f.key /\ s[i].key \in Key
    BY <2>1, <1>6, <1>8
  <2> QED
    BY <1>1, <1>4, <1>6, <2>1, <2>2 DEF ReplaceClaims
<1>11. RemoveClaims(t, its2, pl)
  <2> SUFFICES ASSUME NEW i \in 1 .. n + 1, t[i].op = "remove"
               PROVE  /\ pl[t[i].old] = "here"
                      /\ \A l \in Key : its2[l] # t[i].old
    BY <1>3 DEF RemoveClaims
  <2>1. CASE i = n + 1
    BY <2>1, <1>2, <1>4, <1>5, <1>7, NotANode
  <2>2. CASE i \in 1 .. n /\ t[i] = s[i]
    <3>1. /\ s[i].old \in Node /\ pl[s[i].old] = "here"
          /\ \A l \in Key : its[l] # s[i].old
      BY <2>2, <1>1, <1>6, <1>8 DEF RemoveClaims
    <3> QED
      BY <2>2, <3>1, <1>4, NotANode
  <2> QED
    BY <1>5, <2>1, <2>2
<1>12. OneEach(t)
  <2>1. \A i \in 1 .. n : s[i].op = "remove" => s[i].old # f.old
    BY <1>1, <1>2, <1>6 DEF RemoveClaims
  <2> QED
    BY <2>1, <1>1, <1>2, <1>3, <1>5, <1>6 DEF OneEach
<1>13. NothingYet(t, m)
  BY <1>7 DEF NothingYet
<1>14. Held(m, its2, pl, sp)
  BY <1>4 DEF Agreed, Held
<1>15. Accounted(t, its2, pl)
  <2> SUFFICES ASSUME NEW x \in Node, pl[x] = "here"
               PROVE  \/ \E l \in Key : its2[l] = x
                      \/ \E i \in 1 .. n + 1 : t[i].op = "remove" /\ t[i].old = x
    BY <1>3 DEF Accounted
  <2>1. CASE \E l \in Key : its[l] = x
    BY <2>1, <1>2, <1>3, <1>4, <1>5
  <2>2. CASE \E i \in 1 .. n : s[i].op = "remove" /\ s[i].old = x
    BY <2>2, <1>5
  <2> QED
    BY <2>1, <2>2, <1>6 DEF Agreed, Accounted
<1> QED
  BY <1>3, <1>9, <1>10, <1>11, <1>12, <1>13, <1>14, <1>15 DEF Agreed, Claims, t, its2

\* A frame ends; what the others claim does not depend on it.
LEMMA Ended ==
  ASSUME NEW s \in Seq(Frame), s # <<>>, ApplyIsFirst(s), OneEach(s), NEW m, NothingYet(s, m)
  PROVE  /\ Front(s) \in Seq(Frame) /\ ApplyIsFirst(Front(s)) /\ OneEach(Front(s))
         /\ NothingYet(Front(s), m)
<1> DEFINE t == Front(s)
           n == Len(s)
<1>1. /\ n \in Nat \ {0} /\ t \in Seq(Frame) /\ Len(t) = n - 1
      /\ \A i \in 1 .. n - 1 : t[i] = s[i]
  BY FrontOf
<1> HIDE DEF t
<1>2. n = Len(s)
  OBVIOUS
<1> HIDE DEF n
<1>3. \A i \in 1 .. n - 1 : i \in 1 .. n /\ t[i] = s[i]
  BY <1>1
<1>4. ApplyIsFirst(t)
  BY <1>1, <1>2, <1>3 DEF ApplyIsFirst
<1>5. OneEach(t)
  BY <1>1, <1>2, <1>3 DEF OneEach
<1>6. NothingYet(t, m)
  BY <1>1, <1>2, <1>3 DEF NothingYet
<1> QED
  BY <1>1, <1>4, <1>5, <1>6 DEF t

\* A replacement ends: the old node dies, and the new one takes its key.
LEMMA ReplaceEnds ==
  ASSUME NEW s, NEW m, NEW its \in [Key -> Node \cup {NoNode}], NEW pl, NEW sp,
         Agreed(s, m, its, pl, sp), DOMAIN pl = Node, DOMAIN sp = Node,
         s # <<>>, NEW f, f = Last(s), f.op = "replace"
  PROVE  Agreed(Front(s), m, [its EXCEPT ![f.key] = f.new],
                [pl EXCEPT ![f.old] = "dead", ![f.new] = "here"],
                [sp EXCEPT ![f.old] = NoKey, ![f.new] = f.key])
<1> DEFINE t == Front(s)
           n == Len(s)
           its2 == [its EXCEPT ![f.key] = f.new]
           pl2 == [pl EXCEPT ![f.old] = "dead", ![f.new] = "here"]
           sp2 == [sp EXCEPT ![f.old] = NoKey, ![f.new] = f.key]
<1>1. /\ s \in Seq(Frame) /\ ApplyIsFirst(s) /\ OneEach(s) /\ NothingYet(s, m)
      /\ ReplaceClaims(s, its, pl) /\ RemoveClaims(s, its, pl)
  BY DEF Agreed, Claims
<1>2. /\ n \in Nat \ {0} /\ f = s[n] /\ Len(t) = n - 1
      /\ \A i \in 1 .. n - 1 : t[i] = s[i]
  BY <1>1, FrontOf
<1>3. t \in Seq(Frame) /\ ApplyIsFirst(t) /\ OneEach(t) /\ NothingYet(t, m)
  BY <1>1, Ended
<1>4. n = Len(s)
  OBVIOUS
<1> HIDE DEF t, n
<1>5. n \in 1 .. n /\ \A i \in 1 .. n - 1 : i \in 1 .. n /\ i # n /\ t[i] = s[i]
  BY <1>2
<1>6. \A i \in 1 .. n :
        /\ s[i].op = "replace" =>
             s[i].key \in Key /\ s[i].old \in Node /\ s[i].new \in Node
        /\ s[i].op = "remove" => s[i].old \in Node
  BY <1>1, <1>4, FramesParts
<1>7. f.key \in Key /\ f.old \in Node /\ f.new \in Node
  BY <1>2, <1>5, <1>6
<1>8. /\ its[f.key] = f.old /\ IdOf[f.new] = f.key /\ pl[f.new] \in {"absent", "free"}
  BY <1>1, <1>2, <1>4, <1>5 DEF ReplaceClaims
<1>9. /\ pl[f.old] = "here" /\ sp[f.old] = f.key /\ m = "yes"
      /\ \A l \in Key : its[l] = f.old => l = f.key
  BY <1>7, <1>8, NotANode DEF Agreed, Held
<1>10. f.old # f.new
  BY <1>8, <1>9
<1>11. /\ \A l \in Key : its2[l] = IF l = f.key THEN f.new ELSE its[l]
       /\ \A x \in Node : pl2[x] = IF x = f.new THEN "here" ELSE IF x = f.old THEN "dead" ELSE pl[x]
       /\ \A x \in Node : sp2[x] = IF x = f.new THEN f.key ELSE IF x = f.old THEN NoKey ELSE sp[x]
  BY <1>7, <1>10
<1> HIDE DEF its2, pl2, sp2
<1>12. ReplaceClaims(t, its2, pl2)
  <2> SUFFICES ASSUME NEW i \in 1 .. n - 1, s[i].op = "replace"
               PROVE  /\ its2[s[i].key] = s[i].old
                      /\ IdOf[s[i].new] = s[i].key
                      /\ pl2[s[i].new] \in {"absent", "free"}
    BY <1>2, <1>5 DEF ReplaceClaims
  <2>1. /\ its[s[i].key] = s[i].old /\ IdOf[s[i].new] = s[i].key
        /\ pl[s[i].new] \in {"absent", "free"}
    BY <1>1, <1>4, <1>5 DEF ReplaceClaims
  <2>2. s[i].key # f.key
    BY <1>1, <1>2, <1>4, <1>5 DEF OneEach
  <2>3. s[i].new # f.new /\ s[i].new # f.old
    BY <1>8, <1>9, <2>1, <2>2
  <2> QED
    BY <1>5, <1>6, <1>11, <2>1, <2>2, <2>3
<1>13. RemoveClaims(t, its2, pl2)
  <2> SUFFICES ASSUME NEW i \in 1 .. n - 1, s[i].op = "remove"
               PROVE  /\ pl2[s[i].old] = "here"
                      /\ \A l \in Key : its2[l] # s[i].old
    BY <1>2, <1>5 DEF RemoveClaims
  <2>1. pl[s[i].old] = "here" /\ \A l \in Key : its[l] # s[i].old
    BY <1>1, <1>4, <1>5 DEF RemoveClaims
  <2>2. s[i].old # f.new /\ s[i].old # f.old
    BY <1>7, <1>8, <2>1
  <2> QED
    BY <1>5, <1>6, <1>11, <2>1, <2>2
<1>14. Held(m, its2, pl2, sp2)
  <2> SUFFICES ASSUME NEW l \in Key, its2[l] # NoNode
               PROVE  /\ pl2[its2[l]] = "here" /\ sp2[its2[l]] = l /\ IdOf[its2[l]] = l
                      /\ m = "yes"
    BY DEF Held
  <2>1. CASE l = f.key
    BY <1>7, <1>8, <1>9, <1>11, <2>1
  <2>2. CASE l # f.key
    <3>1. its2[l] = its[l] /\ its[l] \in Node
      BY <1>11, <2>2
    <3>2. pl[its[l]] = "here" /\ sp[its[l]] = l /\ IdOf[its[l]] = l
      BY <3>1, NotANode DEF Agreed, Held
    <3>3. its[l] # f.new /\ its[l] # f.old
      BY <1>8, <1>9, <2>2, <3>2
    <3> QED
      BY <1>9, <1>11, <3>1, <3>2, <3>3
  <2> QED
    BY <2>1, <2>2
<1>15. Accounted(t, its2, pl2)
  <2> SUFFICES ASSUME NEW x \in Node, pl2[x] = "here"
               PROVE  \/ \E l \in Key : its2[l] = x
                      \/ \E i \in 1 .. n - 1 : t[i].op = "remove" /\ t[i].old = x
    BY <1>2 DEF Accounted
  <2>1. CASE x = f.new
    BY <1>7, <1>11, <2>1
  <2>2. CASE x # f.new
    <3>1. x # f.old /\ pl[x] = "here"
      BY <1>11, <2>2
    <3>2. CASE \E l \in Key : its[l] = x
      <4>1. PICK l \in Key : its[l] = x
        BY <3>2
      <4>2. l # f.key
        BY <4>1, <3>1, <1>8
      <4> QED
        BY <1>11, <4>1, <4>2
    <3>3. CASE \E i \in 1 .. n : s[i].op = "remove" /\ s[i].old = x
      <4>1. PICK i \in 1 .. n : s[i].op = "remove" /\ s[i].old = x
        BY <3>3
      <4>2. i # n
        BY <4>1, <1>2
      <4>3. i \in 1 .. n - 1
        BY <4>2, <1>2
      <4> QED
        BY <4>1, <4>3, <1>5
    <3> QED
      BY <3>1, <3>2, <3>3, <1>4 DEF Agreed, Accounted
  <2> QED
    BY <2>1, <2>2
<1> QED
  BY <1>3, <1>12, <1>13, <1>14, <1>15 DEF Agreed, Claims, t, its2, pl2, sp2

\* A removal ends: the node dies.
LEMMA RemoveEnds ==
  ASSUME NEW s, NEW m, NEW its \in [Key -> Node \cup {NoNode}], NEW pl, NEW sp,
         Agreed(s, m, its, pl, sp), DOMAIN pl = Node, DOMAIN sp = Node,
         s # <<>>, NEW f, f = Last(s), f.op = "remove"
  PROVE  Agreed(Front(s), m, its, [pl EXCEPT ![f.old] = "dead"], [sp EXCEPT ![f.old] = NoKey])
<1> DEFINE t == Front(s)
           n == Len(s)
           pl2 == [pl EXCEPT ![f.old] = "dead"]
           sp2 == [sp EXCEPT ![f.old] = NoKey]
<1>1. /\ s \in Seq(Frame) /\ ApplyIsFirst(s) /\ OneEach(s) /\ NothingYet(s, m)
      /\ ReplaceClaims(s, its, pl) /\ RemoveClaims(s, its, pl)
  BY DEF Agreed, Claims
<1>2. /\ n \in Nat \ {0} /\ f = s[n] /\ Len(t) = n - 1
      /\ \A i \in 1 .. n - 1 : t[i] = s[i]
  BY <1>1, FrontOf
<1>3. t \in Seq(Frame) /\ ApplyIsFirst(t) /\ OneEach(t) /\ NothingYet(t, m)
  BY <1>1, Ended
<1>4. n = Len(s)
  OBVIOUS
<1> HIDE DEF t, n
<1>5. n \in 1 .. n /\ \A i \in 1 .. n - 1 : i \in 1 .. n /\ i # n /\ t[i] = s[i]
  BY <1>2
<1>6. \A i \in 1 .. n :
        /\ s[i].op = "replace" => s[i].key \in Key /\ s[i].new \in Node
        /\ s[i].op = "remove" => s[i].old \in Node
  BY <1>1, <1>4, FramesParts
<1>7. f.old \in Node /\ pl[f.old] = "here" /\ \A l \in Key : its[l] # f.old
  BY <1>1, <1>2, <1>4, <1>5, <1>6 DEF RemoveClaims
<1>8. /\ \A x \in Node : pl2[x] = IF x = f.old THEN "dead" ELSE pl[x]
      /\ \A x \in Node : sp2[x] = IF x = f.old THEN NoKey ELSE sp[x]
  BY <1>7
<1> HIDE DEF pl2, sp2
<1>9. ReplaceClaims(t, its, pl2)
  <2> SUFFICES ASSUME NEW i \in 1 .. n - 1, s[i].op = "replace"
               PROVE  /\ its[s[i].key] = s[i].old
                      /\ IdOf[s[i].new] = s[i].key
                      /\ pl2[s[i].new] \in {"absent", "free"}
    BY <1>2, <1>5 DEF ReplaceClaims
  <2>1. /\ its[s[i].key] = s[i].old /\ IdOf[s[i].new] = s[i].key
        /\ pl[s[i].new] \in {"absent", "free"}
    BY <1>1, <1>4, <1>5 DEF ReplaceClaims
  <2> QED
    BY <1>5, <1>6, <1>7, <1>8, <2>1
<1>10. RemoveClaims(t, its, pl2)
  <2> SUFFICES ASSUME NEW i \in 1 .. n - 1, s[i].op = "remove"
               PROVE  /\ pl2[s[i].old] = "here"
                      /\ \A l \in Key : its[l] # s[i].old
    BY <1>2, <1>5 DEF RemoveClaims
  <2>1. pl[s[i].old] = "here" /\ \A l \in Key : its[l] # s[i].old
    BY <1>1, <1>4, <1>5 DEF RemoveClaims
  <2>2. s[i].old # f.old
    BY <1>1, <1>2, <1>4, <1>5 DEF OneEach
  <2> QED
    BY <1>5, <1>6, <1>8, <2>1, <2>2
<1>11. Held(m, its, pl2, sp2)
  BY <1>7, <1>8 DEF Agreed, Held
<1>12. Accounted(t, its, pl2)
  <2> SUFFICES ASSUME NEW x \in Node, pl2[x] = "here"
               PROVE  \/ \E l \in Key : its[l] = x
                      \/ \E i \in 1 .. n - 1 : t[i].op = "remove" /\ t[i].old = x
    BY <1>2 DEF Accounted
  <2>1. x # f.old /\ pl[x] = "here"
    BY <1>8
  <2>2. CASE \E i \in 1 .. n : s[i].op = "remove" /\ s[i].old = x
    <3>1. PICK i \in 1 .. n : s[i].op = "remove" /\ s[i].old = x
      BY <2>2
    <3>2. i # n
      BY <3>1, <2>1, <1>2
    <3>3. i \in 1 .. n - 1
      BY <3>2, <1>2
    <3> QED
      BY <3>1, <3>3, <1>5
  <2> QED
    BY <2>1, <2>2, <1>4 DEF Agreed, Accounted
<1> QED
  BY <1>3, <1>9, <1>10, <1>11, <1>12 DEF Agreed, Claims, t, pl2, sp2

-----------------------------------------------------------------------------
(* The stack a write returns to *)

LEMMA WeakerTop ==
  ASSUME NEW s \in Seq(Frame), s # <<>>, NEW x \in Frame, NEW top, top = Last(s),
         x.op = top.op,
         top.op = "replace" => x.key = top.key /\ x.old = top.old /\ x.new = top.new,
         top.op = "remove" => x.old = top.old,
         top.op = "apply" =>
           \A j \in DOMAIN x.todo : \E h \in DOMAIN top.todo : x.todo[j] = top.todo[h]
  PROVE  Weaker(Front(s) \o <<x>>, s)
<1> DEFINE t == Front(s) \o <<x>>
<1>1. /\ t \in Seq(Frame) /\ Len(t) = Len(s)
      /\ \A i \in 1 .. Len(s) : t[i] = IF i = Len(s) THEN x ELSE s[i]
  BY TopOf
<1>2. top = s[Len(s)] /\ Len(s) \in Nat
  BY FrontOf
<1> HIDE DEF t
<1> SUFFICES Weaker(t, s)
  BY DEF t
<1>3. ASSUME NEW i \in 1 .. Len(s)
      PROVE  /\ t[i].op = s[i].op
             /\ s[i].op = "replace" => /\ t[i].key = s[i].key /\ t[i].old = s[i].old
                                       /\ t[i].new = s[i].new
             /\ s[i].op = "remove" => t[i].old = s[i].old
             /\ s[i].op = "apply" =>
                  \A j \in DOMAIN t[i].todo : \E h \in DOMAIN s[i].todo : t[i].todo[j] = s[i].todo[h]
  <2>1. CASE i = Len(s)
    <3>1. t[i] = x /\ s[i] = top
      BY <2>1, <1>1, <1>2
    <3> QED
      BY <3>1
  <2>2. CASE i # Len(s)
    BY <2>2, <1>1
  <2> QED
    BY <2>1, <2>2
<1> QED
  BY <1>1, <1>2, <1>3 DEF Weaker

LEMMA WeakerSame ==
  ASSUME NEW s \in Seq(Frame)
  PROVE  Weaker(s, s)
BY DEF Weaker

LEMMA WeakerFront ==
  ASSUME NEW s \in Seq(Frame), NEW t, Weaker(t, s), t # <<>>, Last(t).op = "apply"
  PROVE  Weaker(Front(t), s)
<1>1. /\ t \in Seq(Frame) /\ Len(t) <= Len(s) /\ Len(s) \in Nat
      /\ \A i \in 1 .. Len(t) : t[i].op = s[i].op
      /\ \A i \in 1 .. Len(s) : s[i].op # "apply" => i \in 1 .. Len(t)
  BY DEF Weaker
<1> DEFINE u == Front(t)
<1>2. /\ Len(t) \in Nat \ {0} /\ u \in Seq(Frame) /\ Len(u) = Len(t) - 1
      /\ \A i \in 1 .. Len(t) - 1 : u[i] = t[i]
      /\ Last(t) = t[Len(t)]
  BY <1>1, FrontOf
<1> HIDE DEF u
<1>3. s[Len(t)].op = "apply" /\ \A i \in 1 .. Len(u) : i \in 1 .. Len(t) /\ u[i] = t[i]
  BY <1>1, <1>2
<1>4. \A i \in 1 .. Len(s) : s[i].op # "apply" => i \in 1 .. Len(u)
  BY <1>1, <1>2, <1>3
<1>5. ASSUME NEW i \in 1 .. Len(u)
      PROVE  /\ u[i].op = s[i].op
             /\ s[i].op = "replace" => /\ u[i].key = s[i].key /\ u[i].old = s[i].old
                                       /\ u[i].new = s[i].new
             /\ s[i].op = "remove" => u[i].old = s[i].old
             /\ s[i].op = "apply" =>
                  \A j \in DOMAIN u[i].todo : \E h \in DOMAIN s[i].todo : u[i].todo[j] = s[i].todo[h]
  <2>1. i \in 1 .. Len(t) /\ u[i] = t[i]
    BY <1>3
  <2> QED
    BY <2>1 DEF Weaker
<1>6. u \in Seq(Frame) /\ Len(u) <= Len(s)
  BY <1>1, <1>2
<1> QED
  BY <1>4, <1>5, <1>6 DEF Weaker, u

LEMMA WeakerUnwound ==
  ASSUME NEW s \in Seq(Frame), NEW t, Weaker(t, s)
  PROVE  Weaker(Unwound(t), s)
BY WeakerFront DEF Unwound

LEMMA FramesTyped ==
  ASSUME Core
  PROVE  frames \in Seq(Frame)
BY DEF Core, Agreed, Claims

\* The top frame of a write that is inside another one.
LEMMA TopTyped ==
  ASSUME Core, ~Idle
  PROVE  Top \in Frame /\ Top = Last(frames) /\ frames # <<>>
BY FramesTyped, FrontOf DEF Idle, Top

LEMMA CallerWeaker ==
  ASSUME Core, Doomed = {}, NEW k, MayWrite(k)
  PROVE  Weaker(Caller, frames) /\ k \notin Busy
<1>1. frames \in Seq(Frame)
  BY FramesTyped
<1>2. CASE Idle
  <2>1. Busy = {}
    BY <1>2 DEF Idle, Busy, Replacements
  <2> QED
    BY <2>1, <1>1, <1>2, WeakerSame DEF Caller
<1>3. CASE ~Idle
  <2>1. k \notin Busy /\ Top.op # "apply"
    BY <1>3 DEF MayWrite
  <2> DEFINE x == [Top EXCEPT !.hooked = TRUE]
  <2>2. Top \in Frame /\ Top = Last(frames) /\ frames # <<>>
    BY <1>3, TopTyped
  <2>3. Top \in Replacing \/ Top \in Removing
    BY <2>1, <2>2 DEF Frame, Applying
  <2>4. /\ x \in Frame /\ x.op = Top.op
        /\ Top.op = "replace" => x.key = Top.key /\ x.old = Top.old /\ x.new = Top.new
        /\ Top.op = "remove" => x.old = Top.old
    <3>1. CASE Top \in Replacing
      BY <3>1 DEF Frame, Replacing
    <3>2. CASE Top \in Removing
      BY <3>2 DEF Frame, Removing
    <3> QED
      BY <2>3, <3>1, <3>2
  <2> HIDE DEF x
  <2>5. Weaker(Front(frames) \o <<x>>, frames)
    BY <1>1, <2>1, <2>2, <2>4, WeakerTop
  <2> QED
    BY <2>1, <2>5, <1>3 DEF Caller, Hooked, x
<1> QED
  BY <1>2, <1>3

LEMMA NotBusy ==
  ASSUME NEW rest, Weaker(rest, frames), NEW k, k \notin Busy, frames \in Seq(Frame)
  PROVE  \A i \in 1 .. Len(rest) : rest[i].op = "replace" => rest[i].key # k
<1> SUFFICES ASSUME NEW i \in 1 .. Len(rest), rest[i].op = "replace"
             PROVE  rest[i].key # k
  OBVIOUS
<1>1. /\ i \in 1 .. Len(frames) /\ DOMAIN frames = 1 .. Len(frames)
      /\ frames[i].op = "replace" /\ rest[i].key = frames[i].key
  BY DEF Weaker
<1>2. frames[i].key \in Busy
  BY <1>1 DEF Busy, Replacements
<1> QED
  BY <1>1, <1>2

\* The rest of an applySnapshot, when a key is set or deleted.
LEMMA ApplyWeaker ==
  ASSUME Core, ~Idle, Top.op = "apply"
  PROVE  /\ Busy = {}
         /\ Weaker(Front(frames), frames)
         /\ Top \in Applying
         /\ \A j \in DOMAIN Top.todo : Settled(Top.todo[j][1], Top.todo[j][2])
         /\ DOMAIN Top.todo # {} => mode = "yes"
         /\ \A k : Weaker(Front(frames) \o <<[Top EXCEPT !.stale = @ \ {k}]>>, frames)
         /\ Top.todo # <<>> =>
              Weaker(Front(frames) \o <<[Top EXCEPT !.todo = Tail(@)]>>, frames)
<1>1. frames \in Seq(Frame) /\ Top \in Frame /\ Top = Last(frames) /\ frames # <<>>
  BY FramesTyped, TopTyped
<1>2. Len(frames) \in Nat \ {0} /\ Top = frames[Len(frames)] /\ DOMAIN frames = 1 .. Len(frames)
  BY <1>1, FrontOf
<1>3. Len(frames) \in 1 .. Len(frames)
  BY <1>2
<1>4. /\ Len(frames) = 1
      /\ \A j \in DOMAIN Top.todo : Settled(Top.todo[j][1], Top.todo[j][2])
  BY <1>2, <1>3 DEF Core, Agreed, Claims, ApplyIsFirst
<1>5. Busy = {}
  <2>1. \A i \in DOMAIN frames : i = Len(frames)
    BY <1>2, <1>4
  <2>2. \A i \in DOMAIN frames : frames[i].op # "replace"
    BY <1>2, <2>1
  <2> QED
    BY <2>2 DEF Busy, Replacements
<1>6. Weaker(Front(frames), frames)
  BY <1>1, WeakerSame, WeakerFront
<1>7. Top \in Applying
  BY <1>1, FrameParts
<1>8. ASSUME DOMAIN Top.todo # {}
      PROVE  mode = "yes"
  BY <1>2, <1>3, <1>8 DEF Core, Typed, Agreed, Claims, NothingYet
<1>9. ASSUME NEW k
      PROVE  Weaker(Front(frames) \o <<[Top EXCEPT !.stale = @ \ {k}]>>, frames)
  <2> DEFINE x == [Top EXCEPT !.stale = @ \ {k}]
  <2>1. x \in Frame /\ x.op = "apply" /\ x.todo = Top.todo
    BY <1>7 DEF Applying, Frame
  <2> HIDE DEF x
  <2>2. Weaker(Front(frames) \o <<x>>, frames)
    BY <1>1, <2>1, WeakerTop
  <2> QED
    BY <2>2 DEF x
<1>10. ASSUME Top.todo # <<>>
       PROVE  Weaker(Front(frames) \o <<[Top EXCEPT !.todo = Tail(@)]>>, frames)
  <2> DEFINE x == [Top EXCEPT !.todo = Tail(@)]
  <2>1. Top.todo \in Seq(Key \X Snapshot)
    BY <1>7 DEF Applying
  <2>2. Tail(Top.todo) \in Seq(Key \X Snapshot)
    BY <2>1, <1>10
  <2>3. x \in Frame /\ x.op = "apply" /\ x.todo = Tail(Top.todo)
    BY <1>7, <2>2 DEF Applying, Frame
  <2>4. \A j \in DOMAIN Tail(Top.todo) :
          j + 1 \in DOMAIN Top.todo /\ Tail(Top.todo)[j] = Top.todo[j + 1]
    BY <2>1, <1>10
  <2> HIDE DEF x
  <2>5. Weaker(Front(frames) \o <<x>>, frames)
    BY <1>1, <2>3, <2>4, WeakerTop
  <2> QED
    BY <2>5 DEF x
<1> QED
  BY <1>4, <1>5, <1>6, <1>7, <1>8, <1>9, <1>10

-----------------------------------------------------------------------------
(* Steps *)

\* A write that throws leaves everything where it was.
Undone ==
  refused' =>
    /\ UNCHANGED <<items, subpath>>
    /\ \A n \in Node : place[n] # "absent" => place'[n] = place[n]

LEMMA Returns ==
  ASSUME Core, NEW rest, Weaker(rest, frames), frames' = rest, Unchanged, refused' \in BOOLEAN
  PROVE  Core' /\ Undone
<1>1. Agreed(rest, mode, items, place, subpath)
  BY Weakened DEF Core
<1>2. UNCHANGED <<defined, mode, items, place, subpath>>
  BY DEF Unchanged
<1>3. Typed'
  BY <1>2 DEF Core, Typed
<1>4. Undone
  BY <1>2 DEF Undone
<1> QED
  BY <1>1, <1>2, <1>3, <1>4 DEF Core

LEMMA Throws ==
  ASSUME Core, NEW rest, Weaker(rest, frames), Throw(rest) \/ Ignore(rest)
  PROVE  Core' /\ Undone
<1>1. CASE Throw(rest)
  <2>1. Weaker(Unwound(rest), frames)
    BY FramesTyped, WeakerUnwound
  <2>2. frames' = Unwound(rest) /\ Unchanged /\ refused' \in BOOLEAN
    BY <1>1 DEF Throw
  <2> QED
    BY <2>1, <2>2, Returns
<1>2. CASE Ignore(rest)
  <2>1. frames' = rest /\ Unchanged /\ refused' \in BOOLEAN
    BY <1>2 DEF Ignore
  <2> QED
    BY <2>1, Returns
<1> QED
  BY <1>1, <1>2

LEMMA Adds ==
  ASSUME Core, NEW rest, Weaker(rest, frames), NEW k \in Key, NEW v, NEW n \in Node,
         items[k] = NoNode, mode = "yes", place[n] \in {"absent", "free"},
         IF IsSnapshot(v) THEN place[n] = "absent" /\ n \notin Reserved ELSE IdOf[n] = k,
         Add(k, v, n, rest)
  PROVE  Core' /\ Undone
<1>1. Typed /\ Agreed(rest, mode, items, place, subpath) /\ frames \in Seq(Frame)
  BY Weakened, FramesTyped DEF Core
<1>2. CASE Accepted(k, n)
  <2>1. IdOf[n] = k
    BY <1>2 DEF Accepted
  <2>2. /\ UNCHANGED <<defined, mode>> /\ refused' = FALSE
        /\ items' = [items EXCEPT ![k] = n]
        /\ subpath' = [subpath EXCEPT ![n] = k]
        /\ place' = [place EXCEPT ![n] = "here"]
        /\ frames' = rest
    BY <1>2 DEF Add, Store
  <2>3. /\ items \in [Key -> Node \cup {NoNode}]
        /\ DOMAIN place = Node /\ DOMAIN subpath = Node
    BY <1>1 DEF Typed
  <2>4. Agreed(rest, mode, [items EXCEPT ![k] = n], [place EXCEPT ![n] = "here"],
               [subpath EXCEPT ![n] = k])
    BY <1>1, <2>1, <2>3, Added
  <2>5. Typed'
    BY <1>1, <2>2 DEF Typed
  <2> QED
    BY <2>2, <2>4, <2>5 DEF Core, Undone
<1>3. CASE ~Accepted(k, n)
  <2>1. IsSnapshot(v) /\ place[n] = "absent" /\ n \notin Reserved
    BY <1>3 DEF Accepted
  <2>2. /\ UNCHANGED <<defined, mode, items, subpath>> /\ refused' = TRUE
        /\ place' = [place EXCEPT ![n] = "dead"]
        /\ frames' = Unwound(rest)
    BY <1>3, <2>1 DEF Add, Discarded
  <2>3. Weaker(Unwound(rest), frames)
    BY <1>1, WeakerUnwound
  <2>4. Agreed(Unwound(rest), mode, items, place, subpath)
    BY <2>3, Weakened DEF Core
  <2>5. \A i \in 1 .. Len(Unwound(rest)) :
          Unwound(rest)[i].op = "replace" => Unwound(rest)[i].new # n
    <3> SUFFICES ASSUME NEW i \in 1 .. Len(Unwound(rest)), Unwound(rest)[i].op = "replace"
                 PROVE  Unwound(rest)[i].new # n
      OBVIOUS
    <3> DEFINE t == Unwound(rest)
    <3>0. Weaker(t, frames) /\ i \in 1 .. Len(t) /\ t[i].op = "replace"
      BY <2>3
    <3> HIDE DEF t
    <3>1. /\ i \in 1 .. Len(frames) /\ DOMAIN frames = 1 .. Len(frames)
          /\ frames[i].op = "replace" /\ t[i].new = frames[i].new
      BY <1>1, <3>0 DEF Weaker
    <3>2. frames[i].new \in Reserved
      BY <3>1 DEF Reserved, Replacements
    <3> QED
      BY <2>1, <3>1, <3>2 DEF t
  <2>6. items \in [Key -> Node \cup {NoNode}] /\ DOMAIN place = Node
    BY <1>1 DEF Typed
  <2>7. Agreed(Unwound(rest), mode, items, [place EXCEPT ![n] = "dead"], subpath)
    BY <2>1, <2>4, <2>5, <2>6, DiscardedNode
  <2>8. Typed'
    BY <1>1, <2>2 DEF Typed
  <2>9. Undone
    BY <2>1, <2>2, <2>6 DEF Undone
  <2> QED
    BY <2>2, <2>7, <2>8, <2>9 DEF Core
<1> QED
  BY <1>2, <1>3

LEMMA Replaces ==
  ASSUME Core, NEW rest, Weaker(rest, frames), NEW k \in Key, NEW n \in Node,
         items[k] # NoNode, mode = "yes", place[n] \in {"absent", "free"}, IdOf[n] = k,
         k \notin Busy, Replace(k, n, rest)
  PROVE  Core' /\ Undone
<1> DEFINE f == [op |-> "replace", key |-> k, old |-> items[k], new |-> n, hooked |-> FALSE]
<1>1. Typed /\ Agreed(rest, mode, items, place, subpath) /\ frames \in Seq(Frame)
  BY Weakened, FramesTyped DEF Core
<1>2. items \in [Key -> Node \cup {NoNode}]
  BY <1>1 DEF Typed
<1>3. f \in Replacing /\ f.key = k /\ f.old = items[k] /\ f.new = n
  BY <1>2 DEF Replacing
<1>4. \A i \in 1 .. Len(rest) : rest[i].op = "replace" => rest[i].key # k
  BY <1>1, NotBusy
<1>5. frames' = Append(rest, f) /\ Unchanged /\ refused' = FALSE
  BY DEF Replace
<1> HIDE DEF f
<1>6. Agreed(Append(rest, f), mode, items, place, subpath)
  BY <1>1, <1>2, <1>3, <1>4, ReplaceBegins
<1>7. Typed'
  BY <1>1, <1>5 DEF Typed, Unchanged
<1> QED
  BY <1>5, <1>6, <1>7 DEF Core, Undone, Unchanged

\* A key that is dropped, by the program or by a hook.
LEMMA Drops ==
  ASSUME Core, NEW rest, Weaker(rest, frames), NEW k \in Key, k \notin Busy, Drop(k, rest)
  PROVE  Core' /\ Undone
<1> DEFINE f == [op |-> "remove", key |-> k, old |-> items[k], hooked |-> FALSE]
<1>1. Typed /\ Agreed(rest, mode, items, place, subpath) /\ frames \in Seq(Frame)
  BY Weakened, FramesTyped DEF Core
<1>2. items \in [Key -> Node \cup {NoNode}]
  BY <1>1 DEF Typed
<1>3. /\ items' = [items EXCEPT ![k] = NoNode] /\ refused' = FALSE
      /\ frames' = IF items[k] = NoNode THEN rest ELSE Append(rest, f)
      /\ UNCHANGED <<defined, mode, place, subpath>>
  BY DEF Drop
<1>4. Typed'
  BY <1>1, <1>3 DEF Typed
<1>5. CASE items[k] = NoNode
  <2>1. items' = items
    BY <1>2, <1>3, <1>5
  <2> QED
    BY <1>1, <1>3, <1>4, <1>5, <2>1 DEF Core, Undone
<1>6. CASE items[k] # NoNode
  <2>1. f \in Removing /\ f.key = k /\ f.old = items[k]
    BY <1>2, <1>6 DEF Removing
  <2>2. \A i \in 1 .. Len(rest) : rest[i].op = "replace" => rest[i].key # k
    BY <1>1, NotBusy
  <2> HIDE DEF f
  <2>3. Agreed(Append(rest, f), mode, [items EXCEPT ![k] = NoNode], place, subpath)
    BY <1>1, <1>2, <2>1, <2>2, RemoveBegins
  <2> QED
    BY <1>3, <1>4, <1>6, <2>3 DEF Core, Undone
<1> QED
  BY <1>5, <1>6

\* What a value becomes is nobody's yet, and is refused before anything is
\* written or has the key for identifier.
LEMMA Sets ==
  ASSUME Core, Doomed = {}, NEW rest, Weaker(rest, frames), NEW k \in Key, NEW v \in Value,
         k \notin Busy, mode = "yes", items[k] # NoNode => Settled(k, v), Set(k, v, rest)
  PROVE  Core' /\ Undone
<1>1. CASE Throw(rest) \/ Ignore(rest)
  BY <1>1, Throws
<1>2. CASE Keep(k, rest)
  BY <1>2, Throws DEF Keep
<1>3. ASSUME Storable(k, v), Attachable(v), NEW n \in Nodes(v),
             IF items[k] = NoNode THEN Add(k, v, n, rest) ELSE Replace(k, n, rest)
      PROVE  Core' /\ Undone
  <2>1. /\ n \in Node /\ place[n] \in {"absent", "free"}
        /\ IF IsSnapshot(v) THEN place[n] = "absent" /\ n \notin Reserved ELSE IdOf[n] = k
    BY <1>3 DEF Nodes, IsSnapshot, Attachable, Storable, Identifier
  <2>2. items[k] # NoNode => IdOf[n] = k
    <3>1. CASE ~IsSnapshot(v)
      BY <2>1, <3>1
    <3>2. CASE IsSnapshot(v) /\ items[k] # NoNode
      <4>1. v.kind = "fixed" => v.id = k
        BY <1>3, <3>2 DEF Storable, Identifier
      <4>2. v.kind # "fixed" => v.id = k
        BY <3>2 DEF Settled
      <4>3. IdOf[n] = v.id
        BY <1>3, <3>2 DEF Nodes
      <4> QED
        BY <4>1, <4>2, <4>3
    <3> QED
      BY <3>1, <3>2
  <2>3. CASE items[k] = NoNode
    BY <1>3, <2>1, <2>3, Adds
  <2>4. CASE items[k] # NoNode
    BY <1>3, <2>1, <2>2, <2>4, Replaces
  <2> QED
    BY <2>3, <2>4
<1> QED
  BY <1>1, <1>2, <1>3 DEF Set

-----------------------------------------------------------------------------
LEMMA Mode ==
  ASSUME Core, Doomed = {}, NEW k, NEW v, Permitted(k, v)
  PROVE  mode = "yes" /\ (items[k] # NoNode => Settled(k, v))
BY DEF Core, Typed, Permitted

LEMMA SetItemStep ==
  ASSUME Core, Doomed = {}, NEW k \in Key, NEW v \in Value, SetItem(k, v)
  PROVE  Core' /\ Undone
<1>1. MayWrite(k) /\ Permitted(k, v) /\ Set(k, v, Caller)
  BY DEF SetItem
<1> QED
  BY <1>1, CallerWeaker, Mode, Sets

LEMMA PutStep ==
  ASSUME Core, Doomed = {}, NEW v \in Value, Put(v)
  PROVE  Core' /\ Undone
<1> DEFINE k == Identifier(v)
<1>1. k \in Key
  BY MapWritesAssumption DEF Identifier, Value, IsSnapshot, Snapshot
<1>2. MayWrite(k)
  BY DEF Put
<1>3. Weaker(Caller, frames) /\ k \notin Busy
  BY <1>2, CallerWeaker
<1>4. \/ Throw(Caller)
      \/ /\ Permitted(k, v) /\ IsSnapshot(v)
         /\ \E n \in Nodes(v) :
              IF items[k] = NoNode THEN Add(k, n, n, Caller) ELSE Replace(k, n, Caller)
      \/ Permitted(k, v) /\ Set(k, v, Caller)
  BY DEF Put
<1>5. CASE Throw(Caller)
  BY <1>3, <1>5, Throws
<1>6. CASE Permitted(k, v) /\ Set(k, v, Caller)
  <2> HIDE DEF k
  <2> QED
    BY <1>1, <1>3, <1>6, Mode, Sets
<1>7. ASSUME Permitted(k, v), IsSnapshot(v), NEW n \in Nodes(v),
             IF items[k] = NoNode THEN Add(k, n, n, Caller) ELSE Replace(k, n, Caller)
      PROVE  Core' /\ Undone
  <2>1. n \in Node /\ place[n] = "absent" /\ IdOf[n] = v.id /\ v.id = k /\ ~IsSnapshot(n)
    BY <1>7 DEF Nodes, IsSnapshot, Identifier
  <2>2. mode = "yes"
    BY <1>7, Mode
  <2> HIDE DEF k
  <2>3. CASE items[k] = NoNode
    BY <1>1, <1>3, <1>7, <2>1, <2>2, <2>3, Adds
  <2>4. CASE items[k] # NoNode
    BY <1>1, <1>3, <1>7, <2>1, <2>2, <2>4, Replaces
  <2> QED
    BY <2>3, <2>4
<1> QED
  BY <1>4, <1>5, <1>6, <1>7

LEMMA DeleteItemStep ==
  ASSUME Core, Doomed = {}, NEW k \in Key, DeleteItem(k)
  PROVE  Core' /\ Undone
BY CallerWeaker, Drops DEF DeleteItem

LEMMA ApplyKeyStep ==
  ASSUME Core, Doomed = {}, ApplyKey
  PROVE  Core' /\ Undone
<1> DEFINE rest == Front(frames) \o <<[Top EXCEPT !.todo = Tail(@)]>>
           k == Head(Top.todo)[1]
           v == Head(Top.todo)[2]
<1>1. ~Idle /\ Top.op = "apply" /\ Top.todo # <<>> /\ Set(k, v, rest)
  BY DEF ApplyKey
<1>2. /\ Busy = {} /\ Top \in Applying
      /\ \A j \in DOMAIN Top.todo : Settled(Top.todo[j][1], Top.todo[j][2])
      /\ DOMAIN Top.todo # {} => mode = "yes"
      /\ Weaker(rest, frames)
  BY <1>1, ApplyWeaker
<1>3. Top.todo \in Seq(Key \X Snapshot)
  BY <1>2 DEF Applying
<1>4. 1 \in DOMAIN Top.todo /\ Head(Top.todo) = Top.todo[1] /\ Top.todo[1] \in Key \X Snapshot
  BY <1>1, <1>3
<1>5. k \in Key /\ v \in Value /\ Settled(k, v) /\ mode = "yes" /\ k \notin Busy
  BY <1>2, <1>4 DEF Value
<1> HIDE DEF rest, k, v
<1> QED
  BY <1>1, <1>2, <1>5, Sets

LEMMA ApplyDeleteStep ==
  ASSUME Core, NEW k \in Key, ApplyDelete(k)
  PROVE  Core' /\ Undone
<1>1. /\ ~Idle /\ Top.op = "apply"
      /\ Drop(k, Front(frames) \o <<[Top EXCEPT !.stale = @ \ {k}]>>)
  BY DEF ApplyDelete
<1>2. Busy = {} /\ Weaker(Front(frames) \o <<[Top EXCEPT !.stale = @ \ {k}]>>, frames)
  BY <1>1, ApplyWeaker
<1> QED
  BY <1>1, <1>2, Drops

LEMMA EndApplyStep ==
  ASSUME Core, EndApply
  PROVE  Core' /\ Undone
<1>1. /\ ~Idle /\ Top.op = "apply" /\ frames' = Front(frames) /\ Unchanged /\ refused' = FALSE
  BY DEF EndApply
<1>2. Weaker(Front(frames), frames)
  BY <1>1, ApplyWeaker
<1> QED
  BY <1>1, <1>2, Returns

LEMMA EndReplaceStep ==
  ASSUME Core, EndReplace
  PROVE  Core' /\ Undone
<1> DEFINE k == Top.key
           n == Top.new
<1>1. Typed /\ Agreed(frames, mode, items, place, subpath) /\ frames \in Seq(Frame)
  BY FramesTyped DEF Core
<1>2. ~Idle /\ Top.op = "replace" /\ Top = Last(frames) /\ frames # <<>> /\ Top \in Frame
  BY TopTyped DEF EndReplace
<1>3. k \in Key /\ n \in Node /\ Top.old \in Node
  BY <1>2, FrameParts
<1>4. IdOf[n] = k /\ mode = "yes"
  <2>1. Len(frames) \in 1 .. Len(frames) /\ Top = frames[Len(frames)]
    BY <1>1, <1>2, FrontOf
  <2> QED
    BY <1>1, <1>2, <2>1 DEF Agreed, Claims, ReplaceClaims, NothingYet, Typed
<1>5. Accepted(k, n)
  BY <1>4 DEF Accepted
<1>6. /\ place' = [place EXCEPT ![Top.old] = "dead", ![n] = "here"]
      /\ subpath' = [subpath EXCEPT ![Top.old] = NoKey, ![n] = k]
      /\ items' = [items EXCEPT ![k] = n]
      /\ frames' = Front(frames) /\ refused' = FALSE
      /\ UNCHANGED <<defined, mode>>
  BY <1>5 DEF EndReplace
<1>7. /\ items \in [Key -> Node \cup {NoNode}]
      /\ DOMAIN place = Node /\ DOMAIN subpath = Node
  BY <1>1 DEF Typed
<1>8. Agreed(Front(frames), mode, [items EXCEPT ![k] = n],
             [place EXCEPT ![Top.old] = "dead", ![n] = "here"],
             [subpath EXCEPT ![Top.old] = NoKey, ![n] = k])
  BY <1>1, <1>2, <1>7, ReplaceEnds
<1> HIDE DEF k, n
<1>9. Typed'
  BY <1>1, <1>3, <1>6 DEF Typed
<1> QED
  BY <1>6, <1>8, <1>9 DEF Core, Undone

LEMMA EndRemoveStep ==
  ASSUME Core, EndRemove
  PROVE  Core' /\ Undone
<1>1. Typed /\ Agreed(frames, mode, items, place, subpath) /\ frames \in Seq(Frame)
  BY FramesTyped DEF Core
<1>2. ~Idle /\ Top.op = "remove" /\ Top = Last(frames) /\ frames # <<>> /\ Top \in Frame
  BY TopTyped DEF EndRemove
<1>3. Top.old \in Node
  BY <1>2, FrameParts
<1>4. /\ place' = [place EXCEPT ![Top.old] = "dead"]
      /\ subpath' = [subpath EXCEPT ![Top.old] = NoKey]
      /\ frames' = Front(frames) /\ refused' = FALSE
      /\ UNCHANGED <<defined, mode, items>>
  BY DEF EndRemove
<1>5. /\ items \in [Key -> Node \cup {NoNode}]
      /\ DOMAIN place = Node /\ DOMAIN subpath = Node
  BY <1>1 DEF Typed
<1>6. Agreed(Front(frames), mode, items, [place EXCEPT ![Top.old] = "dead"],
             [subpath EXCEPT ![Top.old] = NoKey])
  BY <1>1, <1>2, <1>5, RemoveEnds
<1>7. Typed'
  BY <1>1, <1>3, <1>4 DEF Typed
<1> QED
  BY <1>4, <1>6, <1>7 DEF Core, Undone

-----------------------------------------------------------------------------
(* Between writes *)

LEMMA NoFrames ==
  ASSUME NEW m, NEW its, NEW pl, NEW sp, Held(m, its, pl, sp),
         \A n \in Node : pl[n] = "here" => \E k \in Key : its[k] = n
  PROVE  Agreed(<<>>, m, its, pl, sp)
<1>1. <<>> \in Seq(Frame) /\ Len(<<>>) = 0 /\ 1 .. 0 = {}
  OBVIOUS
<1>2. Claims(<<>>, m, its, pl)
  BY <1>1 DEF Claims, ApplyIsFirst, ReplaceClaims, RemoveClaims, OneEach, NothingYet
<1>3. Accounted(<<>>, its, pl)
  BY DEF Accounted
<1> QED
  BY <1>2, <1>3 DEF Agreed

LEMMA WhenIdle ==
  ASSUME Core, Idle
  PROVE  /\ Typed /\ Held(mode, items, place, subpath)
         /\ \A n \in Node : place[n] = "here" => \E k \in Key : items[k] = n
<1>1. Len(frames) = 0 /\ 1 .. 0 = {}
  BY DEF Idle
<1> QED
  BY <1>1 DEF Core, Agreed, Accounted

LEMMA DetachStep ==
  ASSUME Core, NEW n \in Node, Detach(n)
  PROVE  Core' /\ Undone
<1>1. /\ Typed /\ Held(mode, items, place, subpath) /\ frames = <<>>
      /\ \A x \in Node : place[x] = "here" => \E k \in Key : items[k] = x
  BY WhenIdle DEF Detach, Idle
<1>2. PICK k \in Key : items[k] = n
  BY <1>1 DEF Detach
<1>3. subpath[n] = k /\ \A l \in Key : items[l] = n => l = k
  BY <1>1, <1>2, NotANode DEF Held
<1>4. /\ items' = [items EXCEPT ![k] = NoNode] /\ place' = [place EXCEPT ![n] = "free"]
      /\ subpath' = [subpath EXCEPT ![n] = NoKey] /\ refused' = FALSE
      /\ UNCHANGED <<defined, mode, frames>>
  BY <1>3 DEF Detach
<1>5. Typed'
  BY <1>1, <1>4 DEF Typed
<1>6. /\ \A l \in Key : items'[l] = IF l = k THEN NoNode ELSE items[l]
      /\ \A x \in Node : place'[x] = IF x = n THEN "free" ELSE place[x]
      /\ \A x \in Node : subpath'[x] = IF x = n THEN NoKey ELSE subpath[x]
  BY <1>1, <1>4 DEF Typed
<1>7. \A l \in Key : items[l] \in Node \cup {NoNode}
  BY <1>1 DEF Typed
<1>8. Held(mode, items', place', subpath')
  BY <1>1, <1>3, <1>6, <1>7 DEF Held
<1>9. \A x \in Node : place'[x] = "here" => \E l \in Key : items'[l] = x
  <2> SUFFICES ASSUME NEW x \in Node, place'[x] = "here"
               PROVE  \E l \in Key : items'[l] = x
    OBVIOUS
  <2>1. x # n /\ place[x] = "here"
    BY <1>6
  <2>2. PICK l \in Key : items[l] = x
    BY <1>1, <2>1
  <2>3. l # k
    BY <1>2, <2>1, <2>2
  <2> QED
    BY <1>6, <2>2, <2>3
<1>10. Agreed(<<>>, mode, items', place', subpath')
  BY <1>8, <1>9, NoFrames
<1> QED
  BY <1>1, <1>4, <1>5, <1>10 DEF Core, Undone

LEMMA ElsewhereStep ==
  ASSUME Core, NEW n \in Node, Elsewhere(n)
  PROVE  Core' /\ Undone
<1>1. /\ Typed /\ Held(mode, items, place, subpath) /\ frames = <<>>
      /\ \A x \in Node : place[x] = "here" => \E k \in Key : items[k] = x
  BY WhenIdle DEF Elsewhere, Idle
<1>2. PICK p \in {"free", "there"} : place' = [place EXCEPT ![n] = p]
  BY DEF Elsewhere
<1>3. /\ place[n] # "here" /\ refused' = FALSE
      /\ UNCHANGED <<defined, mode, items, subpath, frames>>
  BY DEF Elsewhere
<1>4. Typed'
  BY <1>1, <1>2, <1>3 DEF Typed
<1>5. \A x \in Node : place'[x] = IF x = n THEN p ELSE place[x]
  BY <1>1, <1>2 DEF Typed
<1>6. \A l \in Key : items[l] \in Node \cup {NoNode}
  BY <1>1 DEF Typed
<1>7. Held(mode, items, place', subpath)
  BY <1>1, <1>3, <1>5, <1>6 DEF Held
<1>8. \A x \in Node : place'[x] = "here" => \E l \in Key : items[l] = x
  BY <1>1, <1>5
<1>9. Agreed(<<>>, mode, items, place', subpath)
  BY <1>7, <1>8, NoFrames
<1> QED
  BY <1>1, <1>3, <1>4, <1>9 DEF Core, Undone

LEMMA TypeStep ==
  ASSUME Core, Define \/ InstantiateAnother
  PROVE  Core' /\ Undone
<1>1. /\ Typed /\ Held(mode, items, place, subpath) /\ frames = <<>>
      /\ \A x \in Node : place[x] = "here" => \E k \in Key : items[k] = x
  BY WhenIdle DEF Define, InstantiateAnother, Idle
<1>2. /\ UNCHANGED <<items, place, subpath, frames>> /\ refused' = FALSE
      /\ defined' \in BOOLEAN /\ mode' \in {"yes", mode}
  BY <1>1 DEF Define, InstantiateAnother, Determined, Typed
<1>3. Typed'
  BY <1>1, <1>2 DEF Typed
<1>4. Held(mode', items, place, subpath)
  BY <1>1, <1>2 DEF Held
<1>5. Agreed(<<>>, mode', items, place, subpath)
  BY <1>1, <1>4, NoFrames
<1> QED
  BY <1>1, <1>2, <1>3, <1>5 DEF Core, Undone

\* A sequence that lists a finite set.
LEMMA Listed ==
  ASSUME NEW keys \in SUBSET Key, NEW order \in SetToSeqs(keys)
  PROVE  order \in Seq(Key) /\ Range(order) \subseteq keys
<1>1. IsFiniteSet(keys)
  BY MapWritesAssumption, FS_Subset
<1>2. Cardinality(keys) \in Nat
  BY <1>1, FS_CardinalityType
<1>3. order \in [1 .. Cardinality(keys) -> keys]
  BY DEF SetToSeqs
<1>4. order \in Seq(Key)
  BY <1>2, <1>3
<1>5. Range(order) \subseteq keys
  BY <1>3 DEF Range
<1> QED
  BY <1>4, <1>5

LEMMA ApplySnapshotStep ==
  ASSUME Core, Doomed = {}, hookWrites \in Nat, NEW keys \in SUBSET Key,
         NEW order \in SetToSeqs(keys), NEW snapshots \in [keys -> Snapshot],
         ApplySnapshot(order, snapshots)
  PROVE  Core' /\ Undone
<1> DEFINE set == Range(order)
           todo == [i \in DOMAIN order |-> <<order[i], snapshots[order[i]]>>]
           kept == [k \in Key |-> IF k \in set /\ snapshots[k].kind # "hidden"
                                  THEN items[k] ELSE NoNode]
           f == [op |-> "apply", keys |-> set, stale |-> Stale(set), since |-> hookWrites,
                 todo |-> todo, kept |-> kept]
<1>1. /\ Typed /\ Held(mode, items, place, subpath) /\ frames = <<>>
      /\ \A x \in Node : place[x] = "here" => \E k \in Key : items[k] = x
  BY WhenIdle DEF ApplySnapshot, Idle
<1>2. order \in Seq(Key) /\ set \subseteq keys
  BY Listed
<1>3. /\ frames' = <<f>> /\ refused' = FALSE /\ UNCHANGED <<defined, mode, items, place, subpath>>
      /\ \A k \in set : Permitted(k, snapshots[k]) /\ Settled(k, snapshots[k])
  BY DEF ApplySnapshot, Unchanged
<1>4. \A i \in DOMAIN order : order[i] \in set
  BY DEF Range
<1> HIDE DEF set
<1>5. \A i \in DOMAIN order : order[i] \in Key /\ snapshots[order[i]] \in Snapshot
  BY <1>2, <1>4
<1>6. todo \in Seq(Key \X Snapshot)
  <2>1. Len(order) \in Nat /\ DOMAIN order = 1 .. Len(order)
    BY <1>2
  <2>2. todo \in [1 .. Len(order) -> Key \X Snapshot]
    BY <1>5, <2>1
  <2> QED
    BY <2>1, <2>2
<1>7. kept \in [Key -> Node \cup {NoNode}]
  BY <1>1 DEF Typed
<1>8. set \in SUBSET Key /\ Stale(set) \in SUBSET Key
  BY <1>2 DEF Stale, Stored
<1>9. /\ DOMAIN todo = DOMAIN order
      /\ \A i \in DOMAIN order : todo[i][1] = order[i] /\ todo[i][2] = snapshots[order[i]]
  OBVIOUS
<1> HIDE DEF todo, kept
<1>10. f \in Applying
  BY <1>6, <1>7, <1>8 DEF Applying
<1>11. f \in Frame /\ f.op = "apply" /\ f.todo = todo
  BY <1>10 DEF Frame
<1> HIDE DEF f
<1>12. /\ <<f>> \in Seq(Frame) /\ Len(<<f>>) = 1 /\ 1 .. 1 = {1} /\ <<f>>[1] = f
  BY <1>11
<1>13. ApplyIsFirst(<<f>>)
  <2>1. \A j \in DOMAIN todo : Settled(todo[j][1], todo[j][2])
    BY <1>3, <1>4, <1>9
  <2> QED
    BY <2>1, <1>11, <1>12 DEF ApplyIsFirst
<1>14. /\ ReplaceClaims(<<f>>, items, place) /\ RemoveClaims(<<f>>, items, place)
       /\ OneEach(<<f>>)
  BY <1>11, <1>12 DEF ReplaceClaims, RemoveClaims, OneEach
<1>15. NothingYet(<<f>>, mode)
  <2>1. mode = "unknown" => DOMAIN todo = {}
    <3>1. ASSUME NEW i \in DOMAIN order
          PROVE  mode = "yes"
      BY <1>3, <1>4, Mode
    <3> QED
      BY <3>1, <1>9
  <2> QED
    BY <2>1, <1>11, <1>12 DEF NothingYet
<1>16. Accounted(<<f>>, items, place)
  BY <1>1 DEF Accounted
<1>17. Typed'
  BY <1>1, <1>3 DEF Typed
<1>18. Agreed(<<f>>, mode, items, place, subpath)
  BY <1>1, <1>12, <1>13, <1>14, <1>15, <1>16 DEF Agreed, Claims
<1> QED
  BY <1>3, <1>17, <1>18 DEF Core, Undone

-----------------------------------------------------------------------------
(* The specification *)

LEMMA Started ==
  ASSUME Init, Doomed = {}
  PROVE  IInv
<1>1. /\ defined \in BOOLEAN /\ mode = (IF defined THEN "yes" ELSE "unknown")
      /\ items \in [Key -> Node \cup {NoNode}] /\ frames = <<>> /\ refused = FALSE
      /\ hookWrites = 0
      /\ \A k, l \in Key : items[k] # NoNode =>
           /\ defined /\ (k # l => items[k] # items[l]) /\ IdOf[items[k]] = k
  BY DEF Init, Determined
<1>2. place = [n \in Node |-> IF \E k \in Key : items[k] = n THEN "here" ELSE "absent"]
  BY DEF Init
<1>3. subpath = [n \in Node |-> IF \E k \in Key : items[k] = n
                                THEN CHOOSE k \in Key : items[k] = n ELSE NoKey]
  BY DEF Init
<1>4. \A n \in Node, k \in Key : items[k] = n => subpath[n] = k
  <2> SUFFICES ASSUME NEW n \in Node, NEW k \in Key, items[k] = n
               PROVE  subpath[n] = k
    OBVIOUS
  <2>1. subpath[n] = CHOOSE l \in Key : items[l] = n
    BY <1>3
  <2>2. subpath[n] \in Key /\ items[subpath[n]] = n
    BY <2>1
  <2> QED
    BY <1>1, <2>2, NotANode
<1>5. subpath \in [Node -> Key \cup {NoKey}]
  <2> SUFFICES ASSUME NEW n \in Node
               PROVE  (IF \E k \in Key : items[k] = n
                       THEN CHOOSE k \in Key : items[k] = n ELSE NoKey) \in Key \cup {NoKey}
    BY <1>3
  <2> QED
    OBVIOUS
<1>6. place \in [Node -> {"absent", "free", "here", "there", "dead"}]
  BY <1>2
<1>7. Typed
  BY <1>1, <1>5, <1>6 DEF Typed
<1>8. Held(mode, items, place, subpath)
  <2> SUFFICES ASSUME NEW k \in Key, items[k] # NoNode
               PROVE  /\ place[items[k]] = "here" /\ subpath[items[k]] = k
                      /\ IdOf[items[k]] = k /\ mode = "yes"
    BY DEF Held
  <2>1. items[k] \in Node
    BY <1>1
  <2> QED
    BY <2>1, <1>1, <1>2, <1>4
<1>9. \A n \in Node : place[n] = "here" => \E k \in Key : items[k] = n
  BY <1>2
<1>10. Agreed(<<>>, mode, items, place, subpath)
  BY <1>8, <1>9, NoFrames
<1> QED
  BY <1>1, <1>7, <1>10, MapWritesAssumption DEF IInv, Core

LEMMA Counts ==
  ASSUME hookWrites \in 0 .. MaxHookWrites, [Next]_vars
  PROVE  hookWrites' \in 0 .. MaxHookWrites
<1>1. ASSUME NEW k, MayWrite(k), Counted
      PROVE  hookWrites' \in 0 .. MaxHookWrites
  <2>1. MaxHookWrites \in Nat
    BY MapWritesAssumption
  <2>2. CASE Idle
    BY <1>1, <2>2 DEF Counted
  <2>3. CASE ~Idle
    <3>1. hookWrites < MaxHookWrites /\ hookWrites' = hookWrites + 1
      BY <1>1, <2>3 DEF MayWrite, Counted
    <3> QED
      BY <2>1, <3>1
  <2> QED
    BY <2>2, <2>3
<1>2. ASSUME NEW k, NEW v, SetItem(k, v)
      PROVE  hookWrites' \in 0 .. MaxHookWrites
  BY <1>1, <1>2 DEF SetItem
<1>3. ASSUME NEW v, Put(v)
      PROVE  hookWrites' \in 0 .. MaxHookWrites
  BY <1>1, <1>3 DEF Put
<1>4. ASSUME NEW k, DeleteItem(k)
      PROVE  hookWrites' \in 0 .. MaxHookWrites
  BY <1>1, <1>4 DEF DeleteItem
<1>5. ASSUME NEW k, ApplyDelete(k)
      PROVE  hookWrites' = hookWrites
  BY <1>5 DEF ApplyDelete
<1>6. ASSUME NEW order, NEW snapshots, ApplySnapshot(order, snapshots)
      PROVE  hookWrites' = hookWrites
  BY <1>6 DEF ApplySnapshot
<1>7. EndReplace \/ EndRemove \/ ApplyKey \/ EndApply \/ Define \/ InstantiateAnother
        \/ UNCHANGED vars => hookWrites' = hookWrites
  BY DEF EndReplace, EndRemove, ApplyKey, EndApply, Define, InstantiateAnother, vars
<1>8. ASSUME NEW n, Detach(n) \/ Elsewhere(n)
      PROVE  hookWrites' = hookWrites
  BY <1>8 DEF Detach, Elsewhere
<1> QED
  BY <1>2, <1>3, <1>4, <1>5, <1>6, <1>7, <1>8 DEF Next

LEMMA CoreStep ==
  ASSUME IInv, Doomed = {}, Next
  PROVE  Core' /\ Undone
<1>1. Core /\ hookWrites \in Nat
  BY MapWritesAssumption DEF IInv
<1>2. CASE \E k \in Key, v \in Value : SetItem(k, v)
  BY <1>1, <1>2, SetItemStep
<1>3. CASE \E v \in Value : Put(v)
  BY <1>1, <1>3, PutStep
<1>4. CASE \E k \in Key : DeleteItem(k) \/ ApplyDelete(k)
  BY <1>1, <1>4, DeleteItemStep, ApplyDeleteStep
<1>5. CASE \E keys \in SUBSET Key : \E order \in SetToSeqs(keys), snapshots \in [keys -> Snapshot] :
             ApplySnapshot(order, snapshots)
  BY <1>1, <1>5, ApplySnapshotStep
<1>6. CASE EndReplace \/ EndRemove \/ ApplyKey \/ EndApply
  BY <1>1, <1>6, EndReplaceStep, EndRemoveStep, ApplyKeyStep, EndApplyStep
<1>7. CASE \E n \in Node : Detach(n) \/ Elsewhere(n)
  BY <1>1, <1>7, DetachStep, ElsewhereStep
<1>8. CASE Define \/ InstantiateAnother
  BY <1>1, <1>8, TypeStep
<1> QED
  BY <1>2, <1>3, <1>4, <1>5, <1>6, <1>7, <1>8 DEF Next

LEMMA Preserved ==
  ASSUME IInv, Doomed = {}, [Next]_vars
  PROVE  IInv'
<1>1. CASE Next
  BY <1>1, CoreStep, Counts DEF IInv
<1>2. CASE UNCHANGED vars
  BY <1>2 DEF vars, IInv, Core, Typed
<1> QED
  BY <1>1, <1>2

LEMMA Invariant ==
  ASSUME Doomed = {}
  PROVE  Spec => []IInv
<1>1. Init => IInv
  BY Started
<1>2. IInv /\ [Next]_vars => IInv'
  BY Preserved
<1> QED
  BY <1>1, <1>2, PTL DEF Spec

\* What the map holds is alive, under its key and under its own identifier, in
\* the middle of a write too and however deep hooks write inside of writes; and
\* between writes every node of the map is in it (willChange and processIdentifier).
THEOREM HeldUnderItsKey ==
  ASSUME Doomed = {}
  PROVE  Spec => []Placed
<1>1. IInv => Placed
  <2> SUFFICES ASSUME IInv
               PROVE  Placed
    OBVIOUS
  <2>1. Core /\ Held(mode, items, place, subpath)
    BY DEF IInv, Core, Agreed
  <2>2. \A k \in Stored : place[items[k]] = "here" /\ subpath[items[k]] = k /\ IdOf[items[k]] = k
    BY <2>1 DEF Stored, Held
  <2>3. Idle => \A n \in Node : place[n] = "here" => \E k \in Stored : items[k] = n
    BY <2>1, WhenIdle, NotANode DEF Stored
  <2> QED
    BY <2>2, <2>3 DEF Placed
<1>2. Spec => []IInv
  BY Invariant
<1> QED
  BY <1>1, <1>2, PTL

\* A write that throws takes nothing out, puts nothing in and moves or kills no
\* node that was there (assertStorableUnder, and the catch of willChange).
THEOREM RefusalsChangeNothing ==
  ASSUME Doomed = {}
  PROVE  Spec => RefusedChangesNothing
<1>1. IInv /\ [Next]_vars =>
        [refused' => /\ UNCHANGED <<items, subpath>>
                     /\ \A n \in Node : place[n] # "absent" => place'[n] = place[n]]_vars
  BY CoreStep DEF Undone
<1>2. Spec => []IInv
  BY Invariant
<1> QED
  BY <1>1, <1>2, PTL DEF Spec, RefusedChangesNothing

-----------------------------------------------------------------------------
(* applySnapshot *)

\* What is left to do, and what was to be kept, when nobody has interfered:
\* what is stored is in the snapshot or will be deleted, and what is in the
\* snapshot is stored or will be set.
Progress(f, its) ==
  /\ f.keys \cap f.stale = {}
  /\ \A k \in Key : its[k] # NoNode => k \in f.keys \cup f.stale
  /\ \A k \in f.keys : its[k] # NoNode \/ \E j \in DOMAIN f.todo : f.todo[j][1] = k
  /\ \A j \in DOMAIN f.todo :
       /\ f.todo[j][1] \in f.keys
       /\ f.kept[f.todo[j][1]] # NoNode => f.todo[j][2].kind # "hidden"
  /\ \A k \in Key : f.kept[k] # NoNode => k \in f.keys /\ its[k] = f.kept[k]

\* A write that an applySnapshot waits for is one of its own: it replaces no item
\* that was to be kept.
Undisturbed(s, its, hw) ==
  s # <<>> /\ s[1].op = "apply" =>
    /\ s[1].since <= hw
    /\ s[1].since = hw =>
         /\ Len(s) <= 2
         /\ Progress(s[1], its)
         /\ Len(s) = 2 /\ s[2].op = "replace" =>
              s[2].key \in s[1].keys /\ s[1].kept[s[2].key] = NoNode

InOrder == IInv /\ Undisturbed(frames, items, hookWrites)

\* The first frame stays the first when the last one is replaced or another comes.
LEMMA FirstOf ==
  ASSUME NEW S, NEW s \in Seq(S), s # <<>>
  PROVE  /\ Len(s) \in Nat \ {0} /\ s[1] \in S
         /\ Len(s) = 1 => Front(s) = <<>> /\ Last(s) = s[1]
         /\ Len(s) > 1 => /\ Front(s) # <<>> /\ Front(s)[1] = s[1]
                          /\ Len(Front(s)) = Len(s) - 1
<1>1. /\ Len(s) \in Nat \ {0} /\ Last(s) = s[Len(s)]
      /\ Front(s) \in Seq(S) /\ Len(Front(s)) = Len(s) - 1
      /\ \A i \in 1 .. Len(s) - 1 : Front(s)[i] = s[i]
  BY FrontOf
<1>2. s[1] \in S
  BY <1>1
<1>3. Len(s) = 1 => Front(s) = <<>> /\ Last(s) = s[1]
  BY <1>1
<1>4. Len(s) > 1 => Front(s) # <<>> /\ Front(s)[1] = s[1]
  BY <1>1
<1> QED
  BY <1>1, <1>2, <1>3, <1>4

LEMMA NothingUnderWay ==
  ASSUME NEW its, NEW hw
  PROVE  Undisturbed(<<>>, its, hw)
BY DEF Undisturbed

LEMMA FirstIsNoApply ==
  ASSUME NEW s, NEW its, NEW hw, s[1].op # "apply"
  PROVE  Undisturbed(s, its, hw)
BY DEF Undisturbed

\* Somebody has interfered.
LEMMA Disturbed ==
  ASSUME NEW s, NEW its, NEW hw, s[1].op = "apply" => s[1].since < hw /\ s[1].since \in Nat,
         hw \in Nat
  PROVE  Undisturbed(s, its, hw)
BY DEF Undisturbed

\* A hook that writes is noted on the frame that waits for it.
LEMMA HookedCaller ==
  ASSUME Core, ~Idle, Top.op # "apply"
  PROVE  \E x \in Frame :
           /\ x.op = Top.op
           /\ Caller \in Seq(Frame) /\ Len(Caller) = Len(frames) /\ Len(frames) \in Nat \ {0}
           /\ \A i \in 1 .. Len(frames) : Caller[i] = IF i = Len(frames) THEN x ELSE frames[i]
<1> DEFINE x == [Top EXCEPT !.hooked = TRUE]
<1>1. frames \in Seq(Frame) /\ frames # <<>> /\ Top = Last(frames) /\ Top \in Frame
  BY FramesTyped, TopTyped
<1>2. x \in Frame /\ x.op = Top.op
  BY <1>1 DEF Frame, Replacing, Removing, Applying
<1>3. Caller = Front(frames) \o <<x>>
  BY DEF Caller, Hooked
<1> HIDE DEF x
<1>4. /\ Caller \in Seq(Frame) /\ Len(Caller) = Len(frames) /\ Len(frames) \in Nat \ {0}
      /\ \A i \in 1 .. Len(frames) : Caller[i] = IF i = Len(frames) THEN x ELSE frames[i]
  BY <1>1, <1>2, <1>3, TopOf, FrontOf
<1> QED
  BY <1>2, <1>4

\* A write of the program or of a hook adds at most one frame.
LEMMA WriteFrames ==
  ASSUME NEW k, NEW v, SetItem(k, v) \/ Put(v) \/ DeleteItem(k), Core
  PROVE  /\ ~Idle => Top.op # "apply" /\ hookWrites' = hookWrites + 1
         /\ \/ frames' = Caller
            \/ \E f : f.op # "apply" /\ frames' = Append(Caller, f)
<1> DEFINE Grown == \/ frames' = Caller
                    \/ \E f : f.op # "apply" /\ frames' = Append(Caller, f)
<1>1. ~Idle => Top.op # "apply" /\ hookWrites' = hookWrites + 1
  BY DEF SetItem, Put, DeleteItem, MayWrite, Counted
<1>2. Unwound(Caller) = Caller
  <2>1. CASE Idle
    BY <2>1 DEF Unwound, Caller, Idle
  <2>2. CASE ~Idle
    <3>1. PICK x \in Frame :
            /\ x.op = Top.op
            /\ Caller \in Seq(Frame) /\ Len(Caller) = Len(frames) /\ Len(frames) \in Nat \ {0}
            /\ \A i \in 1 .. Len(frames) : Caller[i] = IF i = Len(frames) THEN x ELSE frames[i]
      BY <1>1, <2>2, HookedCaller
    <3>2. Last(Caller) = Caller[Len(Caller)]
      BY DEF Last
    <3>3. Caller[Len(Caller)] = x
      BY <3>1
    <3> QED
      BY <1>1, <2>2, <3>1, <3>2, <3>3 DEF Unwound
  <2> QED
    BY <2>1, <2>2
<1>3. Throw(Caller) \/ Ignore(Caller) => Grown
  BY <1>2 DEF Throw, Ignore
<1>4. ASSUME NEW l, NEW n, Replace(l, n, Caller)
      PROVE  Grown
  BY <1>4 DEF Replace
<1>5. ASSUME NEW l, NEW w, NEW n, Add(l, w, n, Caller)
      PROVE  Grown
  BY <1>2, <1>5 DEF Add
<1>6. ASSUME NEW l, NEW w, Set(l, w, Caller)
      PROVE  Grown
  <2> HIDE DEF Grown
  <2> QED
    BY <1>3, <1>4, <1>5, <1>6 DEF Set, Keep
<1>7. ASSUME NEW l, Drop(l, Caller)
      PROVE  Grown
  BY <1>7 DEF Drop
<1>8. Grown
  <2> HIDE DEF Grown
  <2>1. CASE SetItem(k, v)
    BY <1>6, <2>1 DEF SetItem
  <2>2. CASE Put(v)
    BY <1>3, <1>4, <1>5, <1>6, <2>2 DEF Put
  <2>3. CASE DeleteItem(k)
    BY <1>7, <2>3 DEF DeleteItem
  <2> QED
    BY <2>1, <2>2, <2>3
<1> QED
  BY <1>1, <1>8

\* A hook that writes has interfered with the applySnapshot around it.
LEMMA WritesDisturb ==
  ASSUME InOrder, NEW k, NEW v, SetItem(k, v) \/ Put(v) \/ DeleteItem(k)
  PROVE  Undisturbed(frames', items', hookWrites')
<1>1. /\ frames \in Seq(Frame) /\ hookWrites \in Nat
      /\ Core /\ Undisturbed(frames, items, hookWrites)
  <2>1. Core /\ Undisturbed(frames, items, hookWrites) /\ hookWrites \in 0 .. MaxHookWrites
    BY DEF InOrder, IInv
  <2>2. MaxHookWrites \in Nat
    BY MapWritesAssumption
  <2>3. hookWrites \in Nat
    BY <2>1, <2>2
  <2> QED
    BY <2>1, <2>3, FramesTyped
<1>2. /\ ~Idle => Top.op # "apply" /\ hookWrites' = hookWrites + 1
      /\ \/ frames' = Caller
         \/ \E f : f.op # "apply" /\ frames' = Append(Caller, f)
  BY <1>1, WriteFrames
<1>3. CASE Idle
  <2>1. Caller = <<>>
    BY <1>3 DEF Caller, Idle
  <2>2. CASE frames' = Caller
    BY <2>1, <2>2, NothingUnderWay
  <2>3. CASE \E f : f.op # "apply" /\ frames' = Append(Caller, f)
    <3>1. PICK f : f.op # "apply" /\ frames' = Append(Caller, f)
      BY <2>3
    <3>2. frames'[1].op # "apply"
      BY <2>1, <3>1
    <3> QED
      BY <3>2, FirstIsNoApply
  <2> QED
    BY <1>2, <2>2, <2>3
<1>4. CASE ~Idle
  <2>1. frames # <<>> /\ Top = Last(frames) /\ Top \in Frame /\ Top.op # "apply"
    BY <1>1, <1>2, <1>4, TopTyped
  <2>2. PICK x \in Frame :
          /\ x.op = Top.op
          /\ Caller \in Seq(Frame) /\ Len(Caller) = Len(frames) /\ Len(frames) \in Nat \ {0}
          /\ \A i \in 1 .. Len(frames) : Caller[i] = IF i = Len(frames) THEN x ELSE frames[i]
    BY <1>1, <1>4, <2>1, HookedCaller
  <2>3. Caller[1].op = frames[1].op /\ (frames[1].op = "apply" => Caller[1] = frames[1])
    <3>1. CASE Len(frames) = 1
      <4>1. Top = frames[1]
        BY <1>1, <2>1, <3>1, FrontOf
      <4>2. Caller[1] = x
        BY <2>2, <3>1
      <4> QED
        BY <2>1, <2>2, <4>1, <4>2
    <3>2. CASE Len(frames) > 1
      BY <2>2, <3>2
    <3> QED
      BY <2>2, <3>1, <3>2
  <2>4. frames'[1] = Caller[1]
    <3>1. CASE frames' = Caller
      BY <3>1
    <3>2. CASE \E f : f.op # "apply" /\ frames' = Append(Caller, f)
      <4>1. PICK f : frames' = Append(Caller, f)
        BY <3>2
      <4>2. Len(Caller) \in Nat \ {0} /\ Caller \in Seq(Frame)
        BY <2>2
      <4>3. Append(Caller, f)[1] = Caller[1]
        BY <4>2
      <4> QED
        BY <4>1, <4>3
    <3> QED
      BY <1>2, <3>1, <3>2
  <2>5. frames[1].op = "apply" => frames[1].since \in Nat /\ frames[1].since <= hookWrites
    <3>1. frames[1] \in Frame
      BY <1>1, <2>1, FirstOf
    <3>2. frames[1].op = "apply" => frames[1] \in Applying
      BY <3>1, FrameParts
    <3> QED
      BY <1>1, <2>1, <3>2 DEF Undisturbed, Applying
  <2>6. hookWrites' = hookWrites + 1
    BY <1>2, <1>4
  <2>7. frames'[1].op = "apply" => frames'[1].since < hookWrites' /\ frames'[1].since \in Nat
    BY <1>1, <2>3, <2>4, <2>5, <2>6
  <2> QED
    BY <1>1, <2>6, <2>7, Disturbed
<1> QED
  BY <1>3, <1>4

\* An applySnapshot that is on the top of the stack is all of it.
LEMMA ApplyAlone ==
  ASSUME InOrder, ~Idle, Top.op = "apply"
  PROVE  /\ frames = <<Top>> /\ Top = frames[1] /\ Top \in Applying /\ Len(frames) = 1
         /\ Front(frames) = <<>>
         /\ Top.since \in Nat /\ Top.since <= hookWrites
         /\ Top.since = hookWrites => Progress(Top, items)
<1>1. /\ frames \in Seq(Frame) /\ frames # <<>> /\ Top = Last(frames) /\ Top \in Frame
      /\ ApplyIsFirst(frames) /\ Undisturbed(frames, items, hookWrites)
  BY FramesTyped, TopTyped DEF InOrder, IInv, Core, Agreed, Claims
<1>2. Len(frames) \in Nat \ {0} /\ Top = frames[Len(frames)]
  BY <1>1, FrontOf
<1>3. Len(frames) = 1
  <2>1. Len(frames) \in 1 .. Len(frames) /\ frames[Len(frames)].op = "apply"
    BY <1>2
  <2>2. \A i \in 1 .. Len(frames) : frames[i].op = "apply" => i = 1
    BY <1>1 DEF ApplyIsFirst
  <2> QED
    BY <2>1, <2>2
<1>4. Top \in Applying
  BY <1>1, FrameParts
<1>5. Front(frames) = <<>> /\ Top = frames[1]
  BY <1>1, <1>3, FirstOf
<1>6. frames = <<Top>>
  BY <1>1, <1>3, <1>5
<1> QED
  BY <1>1, <1>3, <1>4, <1>5, <1>6 DEF Undisturbed, Applying

\* A key less to set ...
SetBut(f, x, k) ==
  /\ x.keys = f.keys /\ x.stale = f.stale /\ x.kept = f.kept
  /\ f.stale \in SUBSET Key /\ f.keys \in SUBSET Key
  /\ \A j \in DOMAIN f.todo :
       f.todo[j][1] = k \/ \E i \in DOMAIN x.todo : x.todo[i] = f.todo[j]
  /\ \A i \in DOMAIN x.todo : \E j \in DOMAIN f.todo : x.todo[i] = f.todo[j]

\* ... and an item under it.
Filled(its, its2, k) ==
  /\ its2[k] # NoNode
  /\ its[k] # NoNode => its2[k] = its[k]
  /\ \A l \in Key : l # k => its2[l] = its[l]

LEMMA KeyDone ==
  ASSUME NEW f, NEW x, NEW its, NEW its2, NEW k \in Key,
         Progress(f, its), k \in f.keys, SetBut(f, x, k), Filled(its, its2, k)
  PROVE  Progress(x, its2)
<1> USE DEF SetBut, Filled
<1>1. x.keys \cap x.stale = {}
  BY DEF Progress
<1>2. \A l \in Key : its2[l] # NoNode => l \in x.keys \cup x.stale
  <2> SUFFICES ASSUME NEW l \in Key, its2[l] # NoNode, l # k
               PROVE  l \in x.keys \cup x.stale
    OBVIOUS
  <2>1. its[l] # NoNode
    OBVIOUS
  <2> QED
    BY <2>1 DEF Progress
<1>3. ASSUME NEW l \in x.keys
      PROVE  its2[l] # NoNode \/ \E i \in DOMAIN x.todo : x.todo[i][1] = l
  <2>1. CASE l = k
    BY <2>1
  <2>2. CASE l # k /\ its[l] # NoNode
    <3>1. l \in Key
      BY <1>3
    <3> QED
      BY <2>2, <3>1
  <2>3. CASE l # k /\ its[l] = NoNode
    <3>1. PICK j \in DOMAIN f.todo : f.todo[j][1] = l
      BY <1>3, <2>3 DEF Progress
    <3>2. PICK i \in DOMAIN x.todo : x.todo[i] = f.todo[j]
      BY <2>3, <3>1
    <3> QED
      BY <3>1, <3>2
  <2> QED
    BY <2>1, <2>2, <2>3
<1>4. ASSUME NEW i \in DOMAIN x.todo
      PROVE  /\ x.todo[i][1] \in x.keys
             /\ x.kept[x.todo[i][1]] # NoNode => x.todo[i][2].kind # "hidden"
  <2>1. PICK j \in DOMAIN f.todo : x.todo[i] = f.todo[j]
    OBVIOUS
  <2> QED
    BY <2>1 DEF Progress
<1>5. ASSUME NEW l \in Key, x.kept[l] # NoNode
      PROVE  l \in x.keys /\ its2[l] = x.kept[l]
  <2>1. l \in f.keys /\ its[l] = x.kept[l]
    BY <1>5 DEF Progress
  <2> QED
    BY <1>5, <2>1
<1> QED
  BY <1>1, <1>2, <1>3, <1>4, <1>5 DEF Progress

LEMMA ApplyGoesOn ==
  ASSUME NEW x, NEW its, NEW hw, x.since <= hw, x.since = hw => Progress(x, its)
  PROVE  Undisturbed(<<x>>, its, hw)
<1>1. Len(<<x>>) = 1 /\ <<x>>[1] = x
  OBVIOUS
<1> DEFINE s == <<x>>
<1> HIDE DEF s
<1>2. Len(s) = 1 /\ s[1] = x
  BY <1>1 DEF s
<1>3. Undisturbed(s, its, hw)
  BY <1>2 DEF Undisturbed
<1> QED
  BY <1>3 DEF s

LEMMA ApplyWaits ==
  ASSUME NEW x, NEW f, NEW its, NEW hw, x.since <= hw, x.since = hw => Progress(x, its),
         x.since = hw /\ f.op = "replace" => f.key \in x.keys /\ x.kept[f.key] = NoNode
  PROVE  Undisturbed(Append(<<x>>, f), its, hw)
<1> DEFINE s == Append(<<x>>, f)
<1>1. <<x>> \in Seq({x, f}) /\ Len(<<x>>) = 1 /\ <<x>>[1] = x /\ f \in {x, f}
  OBVIOUS
<1>2. Len(s) = 2 /\ s[1] = x /\ s[2] = f
  BY <1>1, AppendOf
<1> HIDE DEF s
<1>3. Undisturbed(s, its, hw)
  BY <1>2 DEF Undisturbed
<1> QED
  BY <1>3 DEF s

\* An exception ends it.
LEMMA ApplyUnwound ==
  ASSUME NEW x, x.op = "apply"
  PROVE  Unwound(<<x>>) = <<>>
<1>1. Len(<<x>>) = 1 /\ <<x>>[1] = x /\ <<x>> # <<>>
  OBVIOUS
<1>2. Last(<<x>>) = x
  BY <1>1 DEF Last
<1>3. Front(<<x>>) = <<>>
  BY <1>1 DEF Front
<1> QED
  BY <1>1, <1>2, <1>3 DEF Unwound

\* The next key of the snapshot: an item to keep stays, and any other write
\* leaves an item under the key or throws.
LEMMA KeyApplied ==
  ASSUME InOrder, Doomed = {}, ApplyKey
  PROVE  Undisturbed(frames', items', hookWrites')
<1> DEFINE k == Head(Top.todo)[1]
           v == Head(Top.todo)[2]
           x == [Top EXCEPT !.todo = Tail(@)]
           h == hookWrites
<1>1. /\ ~Idle /\ Top.op = "apply" /\ Top.todo # <<>> /\ hookWrites' = hookWrites
      /\ Set(k, v, Front(frames) \o <<x>>)
  BY DEF ApplyKey
<1>2. /\ Top \in Applying /\ Front(frames) = <<>>
      /\ Top.since \in Nat /\ Top.since <= h
      /\ Top.since = h => Progress(Top, items)
  BY <1>1, ApplyAlone
<1>3. /\ Core /\ mode = "yes" /\ Typed /\ Held(mode, items, place, subpath)
      /\ \A j \in DOMAIN Top.todo : Settled(Top.todo[j][1], Top.todo[j][2])
  <2>1. DOMAIN Top.todo # {}
    BY <1>1, <1>2 DEF Applying
  <2> QED
    BY <1>1, <2>1, ApplyWeaker DEF InOrder, IInv, Core, Agreed
<1>4. /\ 1 \in DOMAIN Top.todo /\ Top.todo[1] = <<k, v>> /\ k \in Key /\ v \in Snapshot
      /\ Tail(Top.todo) \in Seq(Key \X Snapshot)
      /\ \A j \in DOMAIN Top.todo : j = 1 \/ \E i \in DOMAIN Tail(Top.todo) : Tail(Top.todo)[i] = Top.todo[j]
      /\ \A i \in DOMAIN Tail(Top.todo) : \E j \in DOMAIN Top.todo : Tail(Top.todo)[i] = Top.todo[j]
  <2>1. Top.todo \in Seq(Key \X Snapshot)
    BY <1>2 DEF Applying
  <2>2. Head(Top.todo) \in Key \X Snapshot /\ Head(Top.todo) = Top.todo[1] /\ 1 \in DOMAIN Top.todo
    BY <1>1, <2>1
  <2>3. Top.todo[1] = <<k, v>> /\ k \in Key /\ v \in Snapshot
    BY <2>2
  <2>4. /\ Tail(Top.todo) \in Seq(Key \X Snapshot)
        /\ Len(Tail(Top.todo)) = Len(Top.todo) - 1
        /\ \A i \in 1 .. Len(Top.todo) - 1 : Tail(Top.todo)[i] = Top.todo[i + 1]
    BY <1>1, <2>1
  <2>5. \A j \in DOMAIN Top.todo : j = 1 \/ \E i \in DOMAIN Tail(Top.todo) : Tail(Top.todo)[i] = Top.todo[j]
    <3> SUFFICES ASSUME NEW j \in DOMAIN Top.todo, j # 1
                 PROVE  \E i \in DOMAIN Tail(Top.todo) : Tail(Top.todo)[i] = Top.todo[j]
      OBVIOUS
    <3>1. j \in 1 .. Len(Top.todo) /\ j - 1 \in 1 .. Len(Top.todo) - 1 /\ j - 1 + 1 = j
      BY <2>1
    <3>2. j - 1 \in DOMAIN Tail(Top.todo) /\ Tail(Top.todo)[j - 1] = Top.todo[j]
      BY <2>4, <3>1
    <3> QED
      BY <3>2
  <2>6. \A i \in DOMAIN Tail(Top.todo) : \E j \in DOMAIN Top.todo : Tail(Top.todo)[i] = Top.todo[j]
    <3> SUFFICES ASSUME NEW i \in DOMAIN Tail(Top.todo)
                 PROVE  \E j \in DOMAIN Top.todo : Tail(Top.todo)[i] = Top.todo[j]
      OBVIOUS
    <3>1. i \in 1 .. Len(Top.todo) - 1 /\ i + 1 \in DOMAIN Top.todo
      BY <2>1, <2>4
    <3> QED
      BY <2>4, <3>1
  <2> QED
    BY <2>2, <2>3, <2>4, <2>5, <2>6
<1> HIDE DEF k, v, h
<1>5. /\ x = [Top EXCEPT !.todo = Tail(Top.todo)] /\ x \in Applying
      /\ x.op = "apply" /\ x.todo = Tail(Top.todo) /\ x.keys = Top.keys /\ x.stale = Top.stale
      /\ x.kept = Top.kept /\ x.since = Top.since
  BY <1>2, <1>4 DEF Applying
<1>6. Set(k, v, <<x>>)
  BY <1>1, <1>2
<1> HIDE DEF x
<1>7. ASSUME frames' = <<>>
      PROVE  Undisturbed(frames', items', hookWrites')
  BY <1>7, NothingUnderWay
<1>8. Unwound(<<x>>) = <<>>
  BY <1>5, ApplyUnwound
<1>9. CASE Throw(<<x>>)
  BY <1>7, <1>8, <1>9 DEF Throw
<1>10. items \in [Key -> Node \cup {NoNode}]
  BY <1>3 DEF Typed
<1>11. Top.since = h => (items[k] = NoNode => Top.kept[k] = NoNode) /\ k \in Top.keys
                        /\ (Top.kept[k] # NoNode => v.kind # "hidden")
  <2>1. Top.todo[1][1] = k /\ Top.todo[1][2] = v
    BY <1>4
  <2> QED
    BY <1>2, <1>4, <2>1 DEF Progress
<1>12. ASSUME NEW its, its[k] # NoNode, items[k] # NoNode => its[k] = items[k],
              \A l \in Key : l # k => its[l] = items[l]
       PROVE  x.since <= h /\ (x.since = h => Progress(x, its))
  <2>1. Top.todo[1][1] = k /\ Top.stale \in SUBSET Key /\ Top.keys \in SUBSET Key
    BY <1>2, <1>4 DEF Applying
  <2>2. \A j \in DOMAIN Top.todo :
          Top.todo[j][1] = k \/ \E i \in DOMAIN x.todo : x.todo[i] = Top.todo[j]
    <3> SUFFICES ASSUME NEW j \in DOMAIN Top.todo, Top.todo[j][1] # k
                 PROVE  \E i \in DOMAIN x.todo : x.todo[i] = Top.todo[j]
      OBVIOUS
    <3>1. j # 1
      BY <2>1
    <3>2. PICK i \in DOMAIN Tail(Top.todo) : Tail(Top.todo)[i] = Top.todo[j]
      BY <1>4, <3>1
    <3> QED
      BY <1>5, <3>2
  <2>3. \A i \in DOMAIN x.todo : \E j \in DOMAIN Top.todo : x.todo[i] = Top.todo[j]
    BY <1>4, <1>5
  <2>4. SetBut(Top, x, k) /\ Filled(items, its, k)
    BY <1>5, <1>12, <2>1, <2>2, <2>3 DEF SetBut, Filled
  <2>5. x.since = h => Progress(x, its)
    BY <1>2, <1>4, <1>5, <1>11, <2>4, KeyDone
  <2> QED
    BY <1>2, <1>5, <2>5
<1>13. v \notin Node /\ v # NoNode /\ v # items[k] /\ IsSnapshot(v)
  BY <1>4, <1>10, MapWritesAssumption DEF IsSnapshot
<1>14. ASSUME NEW n \in Node, items[k] = NoNode, Add(k, v, n, <<x>>)
       PROVE  Undisturbed(frames', items', hookWrites')
  <2>1. CASE ~Accepted(k, n)
    BY <1>7, <1>8, <1>14, <2>1 DEF Add
  <2>2. CASE Accepted(k, n)
    <3>1. frames' = <<x>> /\ items' = [items EXCEPT ![k] = n]
      BY <1>14, <2>2 DEF Add, Store
    <3>2. /\ items'[k] # NoNode
          /\ \A l \in Key : l # k => items'[l] = items[l]
      BY <1>4, <1>10, <3>1, NotANode
    <3> QED
      BY <1>1, <1>12, <1>14, <3>1, <3>2, ApplyGoesOn DEF h
  <2> QED
    BY <2>1, <2>2
<1>15. ASSUME NEW n, items[k] # NoNode, Replace(k, n, <<x>>), Top.since = h => Top.kept[k] = NoNode
       PROVE  Undisturbed(frames', items', hookWrites')
  <2>1. PICK f : f.op = "replace" /\ f.key = k /\ frames' = Append(<<x>>, f) /\ items' = items
    BY <1>15 DEF Replace, Unchanged
  <2>2. x.since = h => f.key \in x.keys /\ x.kept[f.key] = NoNode
    BY <1>5, <1>11, <1>15, <2>1
  <2> QED
    BY <1>1, <1>12, <1>15, <2>1, <2>2, ApplyWaits DEF h
<1>16. Storable(k, v) /\ ~Keeps(k, v) /\ items[k] # NoNode =>
         (Top.since = h => Top.kept[k] = NoNode)
  <2> SUFFICES ASSUME Storable(k, v), items[k] # NoNode, Top.since = h, Top.kept[k] # NoNode
               PROVE  Keeps(k, v)
    OBVIOUS
  <2>1. v.kind # "hidden"
    BY <1>11
  <2>2. IdOf[items[k]] = k
    BY <1>3, <1>4 DEF Held
  <2>3. v.id = k
    <3>1. Settled(k, v)
      <4>1. Top.todo[1][1] = k /\ Top.todo[1][2] = v
        BY <1>4
      <4> QED
        BY <1>3, <1>4, <4>1
    <3>2. CASE v.kind = "fixed"
      BY <1>3, <1>13, <3>2 DEF Storable, Identifier
    <3>3. CASE v.kind # "fixed"
      BY <1>13, <3>1, <3>3 DEF Settled
    <3> QED
      BY <3>2, <3>3
  <2> QED
    BY <1>13, <2>1, <2>2, <2>3 DEF Keeps
<1>17. CASE Keeps(k, v) /\ Keep(k, <<x>>)
  <2>1. CASE Throw(<<x>>)
    BY <1>9, <2>1
  <2>2. CASE Ignore(<<x>>)
    <3>1. frames' = <<x>> /\ items' = items /\ items[k] # NoNode
      BY <1>17, <2>2 DEF Keeps, Ignore, Unchanged
    <3> QED
      BY <1>1, <1>12, <3>1, ApplyGoesOn DEF h
  <2> QED
    BY <1>17, <2>1, <2>2 DEF Keep
<1>18. ASSUME NEW n \in Nodes(v), Storable(k, v), ~Keeps(k, v),
              IF items[k] = NoNode THEN Add(k, v, n, <<x>>) ELSE Replace(k, n, <<x>>)
       PROVE  Undisturbed(frames', items', hookWrites')
  <2>1. n \in Node
    BY <1>13, <1>18 DEF Nodes
  <2> QED
    BY <1>14, <1>15, <1>16, <1>18, <2>1
<1> QED
  BY <1>6, <1>9, <1>13, <1>17, <1>18 DEF Set

\* A key that is deleted was neither in the snapshot nor kept.
LEMMA KeyDeleted ==
  ASSUME InOrder, NEW k \in Key, ApplyDelete(k)
  PROVE  Undisturbed(frames', items', hookWrites')
<1> DEFINE x == [Top EXCEPT !.stale = @ \ {k}]
           h == hookWrites
<1>1. /\ ~Idle /\ Top.op = "apply" /\ k \in Top.stale /\ hookWrites' = hookWrites
      /\ Drop(k, Front(frames) \o <<x>>)
  BY DEF ApplyDelete
<1>2. /\ Top \in Applying /\ Front(frames) = <<>>
      /\ Top.since \in Nat /\ Top.since <= h
      /\ Top.since = h => Progress(Top, items)
  BY <1>1, ApplyAlone
<1>3. /\ x.op = "apply" /\ x.todo = Top.todo /\ x.keys = Top.keys /\ x.stale = Top.stale \ {k}
      /\ x.kept = Top.kept /\ x.since = Top.since
  BY <1>2 DEF Applying
<1>4. Drop(k, <<x>>)
  BY <1>1, <1>2
<1> HIDE DEF x, h
<1>5. items \in [Key -> Node \cup {NoNode}]
  BY DEF InOrder, IInv, Core, Typed
<1>6. \A l \in Key : items'[l] = IF l = k THEN NoNode ELSE items[l]
  BY <1>4, <1>5 DEF Drop
<1>7. x.since = h => Progress(x, items')
  <2> SUFFICES ASSUME x.since = h
               PROVE  Progress(x, items')
    OBVIOUS
  <2>1. Progress(Top, items) /\ Top.keys \in SUBSET Key
    BY <1>2, <1>3 DEF Applying
  <2>2. k \notin Top.keys
    BY <1>1, <2>1 DEF Progress
  <2>3. x.keys \cap x.stale = {}
    BY <1>3, <2>1 DEF Progress
  <2>4. \A l \in Key : items'[l] # NoNode => l \in x.keys \cup x.stale
    BY <1>3, <1>6, <2>1 DEF Progress
  <2>5. \A l \in x.keys : items'[l] # NoNode \/ \E j \in DOMAIN x.todo : x.todo[j][1] = l
    BY <1>3, <1>6, <2>1, <2>2 DEF Progress
  <2>6. \A j \in DOMAIN x.todo :
          /\ x.todo[j][1] \in x.keys
          /\ x.kept[x.todo[j][1]] # NoNode => x.todo[j][2].kind # "hidden"
    BY <1>3, <2>1 DEF Progress
  <2>7. \A l \in Key : x.kept[l] # NoNode => l \in x.keys /\ items'[l] = x.kept[l]
    BY <1>3, <1>6, <2>1, <2>2 DEF Progress
  <2> QED
    BY <2>3, <2>4, <2>5, <2>6, <2>7 DEF Progress
<1>8. x.since <= h
  BY <1>2, <1>3
<1>9. CASE frames' = <<x>>
  BY <1>1, <1>7, <1>8, <1>9, ApplyGoesOn DEF h
<1>10. CASE frames' # <<x>>
  <2>1. PICK f : f.op = "remove" /\ frames' = Append(<<x>>, f)
    BY <1>4, <1>10 DEF Drop
  <2> QED
    BY <1>1, <1>7, <1>8, <2>1, ApplyWaits DEF h
<1> QED
  BY <1>9, <1>10

\* A write that ends returns to the applySnapshot it is a step of.
LEMMA WriteEnds ==
  ASSUME NEW s \in Seq(Frame), s # <<>>, NEW its, NEW its2, NEW hw,
         Undisturbed(s, its, hw),
         Len(s) = 2 /\ s[1].op = "apply" /\ s[1].since = hw => Progress(s[1], its2)
  PROVE  Undisturbed(Front(s), its2, hw)
<1> DEFINE t == Front(s)
           n == Len(s)
<1>1. /\ n \in Nat \ {0}
      /\ n = 1 => t = <<>>
      /\ n > 1 => t # <<>> /\ t[1] = s[1] /\ Len(t) = n - 1
  BY FirstOf
<1>2. s[1].op = "apply" => s[1].since <= hw /\ (s[1].since = hw => n <= 2)
  BY DEF Undisturbed
<1>3. n = 2 /\ s[1].op = "apply" /\ s[1].since = hw => Progress(s[1], its2)
  OBVIOUS
<1> HIDE DEF t, n
<1>4. CASE n = 1
  BY <1>1, <1>4, NothingUnderWay DEF t
<1>5. CASE n > 1
  <2>1. t # <<>> /\ t[1] = s[1] /\ Len(t) = n - 1
    BY <1>1, <1>5
  <2>2. n <= 2 => n = 2 /\ n - 1 <= 2 /\ n - 1 # 2
    BY <1>1, <1>5
  <2>3. Undisturbed(t, its2, hw)
    BY <1>2, <1>3, <2>1, <2>2 DEF Undisturbed
  <2> QED
    BY <2>3 DEF t
<1> QED
  BY <1>1, <1>4, <1>5

LEMMA RemoveReturns ==
  ASSUME InOrder, EndRemove
  PROVE  Undisturbed(frames', items', hookWrites')
<1>1. /\ frames \in Seq(Frame) /\ frames # <<>> /\ Undisturbed(frames, items, hookWrites)
  BY FramesTyped DEF InOrder, IInv, EndRemove, Idle
<1>2. frames' = Front(frames) /\ items' = items /\ hookWrites' = hookWrites
  BY DEF EndRemove
<1>3. Len(frames) = 2 /\ frames[1].op = "apply" /\ frames[1].since = hookWrites
        => Progress(frames[1], items)
  BY <1>1 DEF Undisturbed
<1>4. Undisturbed(Front(frames), items, hookWrites)
  BY <1>1, <1>3, WriteEnds
<1> QED
  BY <1>2, <1>4

\* What is replaced was not to be kept.
LEMMA ReplaceReturns ==
  ASSUME InOrder, EndReplace
  PROVE  Undisturbed(frames', items', hookWrites')
<1>1. /\ frames \in Seq(Frame) /\ frames # <<>> /\ Undisturbed(frames, items, hookWrites)
      /\ Top = Last(frames) /\ Top.op = "replace" /\ Top \in Frame
      /\ Typed /\ ReplaceClaims(frames, items, place)
  BY FramesTyped, TopTyped DEF InOrder, IInv, EndReplace, Idle, Core, Agreed, Claims
<1>2. Top = frames[Len(frames)] /\ Len(frames) \in 1 .. Len(frames) /\ Len(frames) \in Nat \ {0}
  BY <1>1, FrontOf
<1>3. Top.key \in Key /\ Top.new \in Node /\ IdOf[Top.new] = Top.key
  BY <1>1, <1>2, FrameParts DEF ReplaceClaims
<1>4. /\ frames' = Front(frames) /\ hookWrites' = hookWrites
      /\ items' = [items EXCEPT ![Top.key] = Top.new]
  BY <1>3 DEF EndReplace, Accepted
<1>5. \A l \in Key : items'[l] = IF l = Top.key THEN Top.new ELSE items[l]
  BY <1>1, <1>4 DEF Typed
<1>6. ASSUME Len(frames) = 2, frames[1].op = "apply", frames[1].since = hookWrites
      PROVE  Progress(frames[1], items')
  <2> DEFINE f == frames[1]
  <2>1. /\ Progress(f, items)
        /\ Top.key \in f.keys /\ f.kept[Top.key] = NoNode
    BY <1>1, <1>2, <1>6 DEF Undisturbed
  <2>2. f.keys \in SUBSET Key
    <3>1. f \in Frame
      BY <1>1, FirstOf
    <3> QED
      BY <3>1, <1>6, FrameParts DEF Applying
  <2> HIDE DEF f
  <2>3. \A l \in Key : items'[l] # NoNode => l \in f.keys \cup f.stale
    BY <1>5, <2>1 DEF Progress
  <2>4. \A l \in f.keys : items'[l] # NoNode \/ \E j \in DOMAIN f.todo : f.todo[j][1] = l
    BY <1>3, <1>5, <2>1, <2>2, NotANode DEF Progress
  <2>5. \A l \in Key : f.kept[l] # NoNode => l \in f.keys /\ items'[l] = f.kept[l]
    BY <1>5, <2>1 DEF Progress
  <2>6. Progress(f, items')
    BY <2>1, <2>3, <2>4, <2>5 DEF Progress
  <2> QED
    BY <2>6 DEF f
<1>7. Undisturbed(Front(frames), items', hookWrites)
  BY <1>1, <1>6, WriteEnds
<1> QED
  BY <1>4, <1>7

\* What applySnapshot sets out to do.
LEMMA SnapshotTaken ==
  ASSUME InOrder, NEW keys \in SUBSET Key, NEW order \in SetToSeqs(keys),
         NEW snapshots \in [keys -> Snapshot], ApplySnapshot(order, snapshots)
  PROVE  Undisturbed(frames', items', hookWrites')
<1> DEFINE set == Range(order)
           todo == [i \in DOMAIN order |-> <<order[i], snapshots[order[i]]>>]
           kept == [k \in Key |-> IF k \in set /\ snapshots[k].kind # "hidden"
                                  THEN items[k] ELSE NoNode]
           f == [op |-> "apply", keys |-> set, stale |-> Stale(set), since |-> hookWrites,
                 todo |-> todo, kept |-> kept]
<1>1. order \in Seq(Key) /\ set \subseteq keys
  BY Listed
<1>2. frames' = <<f>> /\ items' = items /\ hookWrites' = hookWrites /\ hookWrites \in Nat
  <2>1. hookWrites \in 0 .. MaxHookWrites /\ MaxHookWrites \in Nat
    BY MapWritesAssumption DEF InOrder, IInv
  <2>2. hookWrites \in Nat
    BY <2>1
  <2> QED
    BY <2>2 DEF ApplySnapshot, Unchanged
<1>3. \A k \in set : \E i \in DOMAIN order : order[i] = k
  BY DEF Range
<1>4. \A i \in DOMAIN order : order[i] \in set
  BY DEF Range
<1> HIDE DEF set
<1>5. /\ DOMAIN todo = DOMAIN order
      /\ \A i \in DOMAIN order : todo[i][1] = order[i] /\ todo[i][2] = snapshots[order[i]]
  OBVIOUS
<1>6. \A k \in Key : kept[k] # NoNode => k \in set /\ kept[k] = items[k] /\ snapshots[k].kind # "hidden"
  OBVIOUS
<1> HIDE DEF todo, kept
<1>7. /\ f.op = "apply" /\ f.keys = set /\ f.stale = Stale(set) /\ f.since = hookWrites
      /\ f.todo = todo /\ f.kept = kept
  OBVIOUS
<1> HIDE DEF f
<1>8. f.keys \cap f.stale = {} /\ \A k \in Key : items[k] # NoNode => k \in f.keys \cup f.stale
  BY <1>7 DEF Stale, Stored
<1>9. \A k \in f.keys : \E j \in DOMAIN f.todo : f.todo[j][1] = k
  BY <1>3, <1>5, <1>7
<1>10. \A j \in DOMAIN f.todo :
         /\ f.todo[j][1] \in f.keys
         /\ f.kept[f.todo[j][1]] # NoNode => f.todo[j][2].kind # "hidden"
  BY <1>1, <1>4, <1>5, <1>6, <1>7
<1>11. Progress(f, items)
  BY <1>6, <1>7, <1>8, <1>9, <1>10 DEF Progress
<1>12. Undisturbed(<<f>>, items, hookWrites)
  BY <1>2, <1>7, <1>11, ApplyGoesOn
<1> QED
  BY <1>2, <1>12

LEMMA StaysInOrder ==
  ASSUME Doomed = {}, InOrder, [Next]_vars
  PROVE  Undisturbed(frames', items', hookWrites')
<1>1. CASE \E k \in Key, v \in Value : SetItem(k, v)
  BY <1>1, WritesDisturb
<1>2. CASE \E v \in Value : Put(v)
  BY <1>2, WritesDisturb
<1>3. CASE \E k \in Key : DeleteItem(k)
  BY <1>3, WritesDisturb
<1>4. CASE \E k \in Key : ApplyDelete(k)
  BY <1>4, KeyDeleted
<1>5. CASE \E keys \in SUBSET Key : \E order \in SetToSeqs(keys), snapshots \in [keys -> Snapshot] :
             ApplySnapshot(order, snapshots)
  BY <1>5, SnapshotTaken
<1>6. CASE EndReplace \/ EndRemove \/ ApplyKey
  BY <1>6, ReplaceReturns, RemoveReturns, KeyApplied
<1>7. CASE EndApply
  <2>1. frames' = <<>>
    BY <1>7, ApplyAlone DEF EndApply
  <2> QED
    BY <2>1, NothingUnderWay
<1>8. CASE \/ \E n \in Node : Detach(n) \/ Elsewhere(n)
           \/ Define \/ InstantiateAnother
  <2>1. frames' = <<>>
    BY <1>8 DEF Detach, Elsewhere, Define, InstantiateAnother, Idle
  <2> QED
    BY <2>1, NothingUnderWay
<1>9. CASE UNCHANGED vars
  BY <1>9 DEF vars, InOrder
<1> QED
  BY <1>1, <1>2, <1>3, <1>4, <1>5, <1>6, <1>7, <1>8, <1>9 DEF Next

\* An applySnapshot that no hook interferes with leaves exactly the keys of the
\* snapshot, and keeps every item whose identifier the snapshot shows ("Don't use
\* target.replace, as it will throw away all existing items first").
THEOREM SnapshotsApplyInPlace ==
  ASSUME Doomed = {}
  PROVE  Spec => AppliedInPlace
<1>1. Init => InOrder
  <2>1. Init => frames = <<>>
    BY DEF Init
  <2> QED
    BY <2>1, Started, NothingUnderWay DEF InOrder
<1>2. InOrder /\ [Next]_vars => InOrder'
  BY Preserved, StaysInOrder DEF InOrder
<1>3. ASSUME InOrder, EndApply, Top.since = hookWrites
      PROVE  /\ Stored = Top.keys
             /\ \A k \in Top.keys : Top.kept[k] # NoNode => items[k] = Top.kept[k]
  <2>1. ~Idle /\ Top.op = "apply" /\ Top.todo = <<>> /\ Top.stale = {}
    BY <1>3 DEF EndApply
  <2>2. Progress(Top, items) /\ Top.keys \in SUBSET Key
    BY <1>3, <2>1, ApplyAlone DEF Applying
  <2>3. DOMAIN Top.todo = {}
    BY <2>1
  <2> QED
    BY <2>1, <2>2, <2>3 DEF Progress, Stored
<1>4. InOrder /\ [Next]_vars =>
        [EndApply /\ Top.since = hookWrites =>
           /\ Stored = Top.keys
           /\ \A k \in Top.keys : Top.kept[k] # NoNode => items[k] = Top.kept[k]]_vars
  BY <1>3
<1> QED
  BY <1>1, <1>2, <1>4, PTL DEF Spec, AppliedInPlace
=============================================================================
