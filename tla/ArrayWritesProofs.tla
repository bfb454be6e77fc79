-------------------------- MODULE ArrayWritesProofs --------------------------
(***************************************************************************)
(* Proofs about ArrayWrites: for any nodes, any length and any values, the *)
(* array and its nodes agree between writes, a value keeps the node it     *)
(* names, and the array implements AtomicList.  While a write is under way *)
(* the array is what it was, and the invariant says what has become of the *)
(* values so far.                                                          *)
(***************************************************************************)
EXTENDS ArrayWrites, SequenceTheorems, TLAPS

\* The array and its nodes agree.
PlacedIn(its, own, idx) ==
  /\ \A i \in 1 .. Len(its) : own[its[i]] = "here" /\ idx[its[i]] = i
  /\ \A n \in Node : own[n] = "here" => \E i \in 1 .. Len(its) : its[i] = n

\* What a write replaces are items, one behind the other, and there is room.
Slice(w, its) ==
  /\ w.from + Len(w.old) <= Len(its) + 1
  /\ \A j \in 1 .. Len(w.old) : w.old[j] = its[w.from + j - 1]
  /\ Len(w.result) <= Len(w.vals)
  /\ Len(its) + Len(w.vals) - Len(w.old) <= MaxLen

\* The values a write was given, without the doomed kinds.
Sane(w) ==
  \A k \in 1 .. Len(w.vals) :
    /\ w.vals[k] \in Node => w.owner[w.vals[k]] \in {"free", "here", "there"}
    /\ w.vals[k] \in Node /\ w.owner[w.vals[k]] = "here" =>
         \E j \in 1 .. Len(w.old) : w.old[j] = w.vals[k]
    /\ w.vals[k] \in Node /\ w.owner[w.vals[k]] \in {"free", "here"} =>
         \A h \in 1 .. k - 1 : w.vals[h] # w.vals[k]
    /\ Len(w.old) > 0 =>
         /\ w.vals[k] # Bad
         /\ w.vals[k] \in Node =>
              /\ w.owner[w.vals[k]] # "there"
              /\ \A h \in 1 .. k - 1 : w.vals[h] # IdOf[w.vals[k]]

\* What came in since the write began.
New(w) == w.built \cup w.adopted

Taken(w) == {w.result[k] : k \in 1 .. Len(w.result)}

\* What has become of the values so far.
Results(w) ==
  /\ \A k \in 1 .. Len(w.result) :
       /\ Same(w.result[k], w.vals[k])
       /\ \/ w.result[k] \in New(w)
          \/ \E j \in w.claimed : w.result[k] = w.old[j]
  /\ \A k, h \in 1 .. Len(w.result) : w.result[k] = w.result[h] => k = h
  /\ New(w) \subseteq Taken(w)
  /\ \A j \in w.claimed : j \in 1 .. Len(w.old) /\ w.old[j] \in Taken(w)
  /\ \A n \in w.built : w.owner[n] = "absent"
  /\ \A n \in w.adopted : w.owner[n] = "free"

\* How the nodes differ from what they were when the write began.
Moved(w, own, idx) ==
  /\ \A n \in Node : own[n] = IF n \in New(w) THEN "here" ELSE w.owner[n]
  /\ \A k \in 1 .. Len(w.result) : idx[w.result[k]] = w.from + k - 1
  /\ \A n \in Node : n \notin Taken(w) => idx[n] = w.index[n]

UnderWay(w, its, own, idx) ==
  /\ w \in Write
  /\ PlacedIn(its, w.owner, w.index)
  /\ Slice(w, its)
  /\ Sane(w)
  /\ Results(w)
  /\ Moved(w, own, idx)

\* Each value so far has kept the node it names.
KeptSoFar(w) ==
  \A k \in 1 .. Len(w.result), j \in 1 .. Len(w.old) :
    Kept(w.old, w.vals, k, j) => w.result[k] = w.old[j]

Typed ==
  /\ items \in Seq(Node) /\ Len(items) <= MaxLen
  /\ owner \in [Node -> Place]
  /\ index \in [Node -> 0 .. MaxLen]

IInv ==
  /\ Typed
  /\ IF Idle THEN PlacedIn(items, owner, index)
     ELSE UnderWay(write, items, owner, index) /\ KeptSoFar(write)

-----------------------------------------------------------------------------
(* Sequences *)

LEMMA SubSeqOf ==
  ASSUME NEW S, NEW s \in Seq(S), NEW a \in Nat \ {0}, NEW b \in Nat, b <= Len(s), a <= b + 1
  PROVE  /\ SubSeq(s, a, b) \in Seq(S) /\ Len(SubSeq(s, a, b)) = b - a + 1
         /\ \A i \in 1 .. b - a + 1 : SubSeq(s, a, b)[i] = s[a + i - 1]
<1>1. \A i \in a .. b : s[i] \in S
  OBVIOUS
<1>2. /\ SubSeq(s, a, b) \in Seq(S)
      /\ Len(SubSeq(s, a, b)) = IF a <= b THEN b - a + 1 ELSE 0
      /\ \A i \in 1 .. b - a + 1 : SubSeq(s, a, b)[i] = s[a + i - 1]
  BY <1>1, SubSeqProperties
<1> QED
  BY <1>2

\* Where the elements of a splice are.
IsSplice(t, s, r, from, removed) ==
  /\ t \in Seq(Node) /\ Len(t) = Len(s) + Len(r) - removed
  /\ \A i \in 1 .. from - 1 : t[i] = s[i]
  /\ \A k \in 1 .. Len(r) : t[from + k - 1] = r[k]
  /\ \A k \in from + removed .. Len(s) : t[k + Len(r) - removed] = s[k]
  /\ \A i \in 1 .. Len(t) :
       \/ i \in 1 .. from - 1
       \/ i - from + 1 \in 1 .. Len(r)
       \/ i - Len(r) + removed \in from + removed .. Len(s)

LEMMA Spliced ==
  ASSUME NEW s \in Seq(Node), NEW r \in Seq(Node), NEW from \in Nat \ {0}, NEW removed \in Nat,
         from + removed <= Len(s) + 1, NEW t,
         t = SubSeq(s, 1, from - 1) \o r \o SubSeq(s, from + removed, Len(s))
  PROVE  IsSplice(t, s, r, from, removed)
<1> DEFINE a == SubSeq(s, 1, from - 1)
           c == SubSeq(s, from + removed, Len(s))
           ab == a \o r
<1>1. /\ Len(s) \in Nat /\ Len(r) \in Nat /\ from \in Nat /\ removed \in Nat
      /\ from >= 1 /\ from + removed <= Len(s) + 1
  OBVIOUS
<1>2. /\ a \in Seq(Node) /\ Len(a) = from - 1
      /\ \A i \in 1 .. from - 1 : a[i] = s[i]
  <2>1. from - 1 \in Nat /\ from - 1 <= Len(s)
    BY <1>1
  <2>2. /\ a \in Seq(Node) /\ Len(a) = (from - 1) - 1 + 1
        /\ \A i \in 1 .. (from - 1) - 1 + 1 : a[i] = s[1 + i - 1]
    BY <2>1, SubSeqOf
  <2> QED
    BY <2>1, <2>2
<1>3. /\ c \in Seq(Node) /\ Len(c) = Len(s) - (from + removed) + 1
      /\ \A i \in 1 .. Len(s) - (from + removed) + 1 : c[i] = s[from + removed + i - 1]
  BY <1>1, SubSeqOf
<1> HIDE DEF a, c
<1>4. /\ ab \in Seq(Node) /\ Len(ab) = from - 1 + Len(r)
      /\ \A i \in 1 .. from - 1 + Len(r) : ab[i] = IF i <= from - 1 THEN a[i] ELSE r[i - (from - 1)]
  <2>1. /\ ab \in Seq(Node) /\ Len(ab) = Len(a) + Len(r)
        /\ \A i \in 1 .. Len(a) + Len(r) : ab[i] = IF i <= Len(a) THEN a[i] ELSE r[i - Len(a)]
    BY <1>2, ConcatProperties
  <2> QED
    BY <2>1, <1>2
<1> HIDE DEF ab
<1> DEFINE u == ab \o c
<1>11. t = u
  BY DEF u, ab, a, c
<1>5. /\ u \in Seq(Node) /\ Len(u) = Len(ab) + Len(c)
      /\ \A i \in 1 .. Len(ab) + Len(c) : u[i] = IF i <= Len(ab) THEN ab[i] ELSE c[i - Len(ab)]
  BY <1>3, <1>4, ConcatProperties
<1> HIDE DEF u
<1>6. Len(u) = Len(s) + Len(r) - removed
  <2>1. /\ Len(u) = Len(ab) + Len(c) /\ Len(ab) = from - 1 + Len(r)
        /\ Len(c) = Len(s) - (from + removed) + 1
    BY <1>3, <1>4, <1>5
  <2> QED
    BY <2>1, <1>1
<1>7. ASSUME NEW i \in 1 .. from - 1
      PROVE  u[i] = s[i]
  <2>1. i \in 1 .. Len(ab) + Len(c) /\ i <= Len(ab) /\ i \in 1 .. from - 1 + Len(r) /\ i <= from - 1
    BY <1>1, <1>3, <1>4
  <2> QED
    BY <2>1, <1>2, <1>4, <1>5
<1>8. ASSUME NEW k \in 1 .. Len(r)
      PROVE  u[from + k - 1] = r[k]
  <2> DEFINE i == from + k - 1
  <2>1. /\ i \in 1 .. Len(ab) + Len(c) /\ i <= Len(ab) /\ i \in 1 .. from - 1 + Len(r)
        /\ ~(i <= from - 1) /\ i - (from - 1) = k
    BY <1>1, <1>3, <1>4
  <2> HIDE DEF i
  <2>2. u[i] = r[k]
    BY <2>1, <1>4, <1>5
  <2> QED
    BY <2>2 DEF i
<1>9. ASSUME NEW k \in from + removed .. Len(s)
      PROVE  u[k + Len(r) - removed] = s[k]
  <2> DEFINE i == k + Len(r) - removed
             h == i - Len(ab)
  <2>1. i \in 1 .. Len(ab) + Len(c) /\ ~(i <= Len(ab))
    BY <1>1, <1>3, <1>4
  <2>2. h \in 1 .. Len(s) - (from + removed) + 1 /\ from + removed + h - 1 = k
    BY <1>1, <1>4
  <2>3. u[i] = c[h]
    <3> HIDE DEF i
    <3> QED
      BY <2>1, <1>5
  <2> HIDE DEF h
  <2>4. c[h] = s[k]
    BY <2>2, <1>3
  <2> QED
    BY <2>3, <2>4
<1>10. ASSUME NEW i \in 1 .. Len(u)
       PROVE  \/ i \in 1 .. from - 1
              \/ i - from + 1 \in 1 .. Len(r)
              \/ i - Len(r) + removed \in from + removed .. Len(s)
  <2>1. i \in 1 .. Len(s) + Len(r) - removed
    BY <1>6
  <2>2. CASE i <= from - 1
    BY <1>1, <2>1, <2>2
  <2>3. CASE i > from - 1 /\ i <= from - 1 + Len(r)
    BY <1>1, <2>1, <2>3
  <2>4. CASE i > from - 1 + Len(r)
    BY <1>1, <2>1, <2>4
  <2> QED
    BY <1>1, <2>1, <2>2, <2>3, <2>4
<1> QED
  BY <1>5, <1>6, <1>7, <1>8, <1>9, <1>10, <1>11 DEF IsSplice

\* Where the elements are when the one at k is gone.
IsRemoval(t, s, k) ==
  /\ t \in Seq(Node) /\ Len(t) = Len(s) - 1
  /\ \A i \in 1 .. k - 1 : t[i] = s[i]
  /\ \A i \in k + 1 .. Len(s) : t[i - 1] = s[i]
  /\ \A i \in 1 .. Len(s) - 1 : i \in 1 .. k - 1 \/ i + 1 \in k + 1 .. Len(s)

LEMMA Removed ==
  ASSUME NEW s \in Seq(Node), NEW k \in 1 .. Len(s), NEW t,
         t = SubSeq(s, 1, k - 1) \o SubSeq(s, k + 1, Len(s))
  PROVE  IsRemoval(t, s, k)
<1> DEFINE a == SubSeq(s, 1, k - 1)
           e == SubSeq(s, 1, 0)
           u == a \o e \o SubSeq(s, k + 1, Len(s))
<1>1. /\ k \in Nat /\ k \in Nat \ {0} /\ k - 1 \in Nat /\ Len(s) \in Nat /\ k <= Len(s)
      /\ 1 \in Nat /\ 1 \in Nat \ {0} /\ 0 \in Nat
  OBVIOUS
<1>2. a \in Seq(Node)
  BY <1>1, SubSeqOf
<1>3. e \in Seq(Node) /\ Len(e) = 0
  BY <1>1, SubSeqOf
<1>4. a \o e = a
  <2> HIDE DEF a, e
  <2>1. /\ a \o e \in Seq(Node) /\ Len(a \o e) = Len(a)
        /\ \A i \in 1 .. Len(a) : (a \o e)[i] = a[i]
    BY <1>2, <1>3
  <2> QED
    BY <1>2, <2>1, SeqEqual
<1>5. t = u
  BY <1>4
<1> HIDE DEF e
<1>6. u = SubSeq(s, 1, k - 1) \o e \o SubSeq(s, k + 1, Len(s))
  OBVIOUS
<1> HIDE DEF u, a
<1>7. /\ u \in Seq(Node) /\ Len(u) = Len(s) + Len(e) - 1
      /\ \A i \in 1 .. k - 1 : u[i] = s[i]
      /\ \A i \in k + 1 .. Len(s) : u[i + Len(e) - 1] = s[i]
  <2>1. k + 1 <= Len(s) + 1
    BY <1>1
  <2>2. IsSplice(u, s, e, k, 1)
    BY <1>1, <1>3, <1>6, <2>1, Spliced
  <2> QED
    BY <2>2 DEF IsSplice
<1>8. /\ Len(u) = Len(s) - 1
      /\ \A i \in k + 1 .. Len(s) : u[i - 1] = s[i]
  <2>1. \A i \in k + 1 .. Len(s) : i + Len(e) - 1 = i - 1
    BY <1>1, <1>3
  <2> QED
    BY <1>1, <1>3, <1>7, <2>1
<1>9. \A i \in 1 .. Len(s) - 1 : i \in 1 .. k - 1 \/ i + 1 \in k + 1 .. Len(s)
  BY <1>1
<1> QED
  BY <1>5, <1>7, <1>8, <1>9 DEF IsRemoval

LEMMA AppendOf ==
  ASSUME NEW S, NEW s \in Seq(S), NEW x \in S
  PROVE  /\ Append(s, x) \in Seq(S) /\ Len(Append(s, x)) = Len(s) + 1
         /\ \A i \in 1 .. Len(s) + 1 :
              Append(s, x)[i] = IF i = Len(s) + 1 THEN x ELSE s[i]
OBVIOUS

-----------------------------------------------------------------------------
(* A write begins *)

LEMMA Apart ==
  /\ \A n \in Node : n \notin Id /\ n # Bad /\ IdOf[n] \in Id /\ IdOf[n] \notin Node
  /\ MaxLen \in Nat /\ NoWrite \notin Write
BY ArrayWritesAssumption

LEMMA PlacedIsInjective ==
  ASSUME NEW its, NEW own, NEW idx, PlacedIn(its, own, idx)
  PROVE  \A i, j \in 1 .. Len(its) : its[i] = its[j] => i = j
<1>1. \A i \in 1 .. Len(its) : idx[its[i]] = i
  BY DEF PlacedIn
<1> QED
  BY <1>1

\* A splice of vals at from.
Begins(from, removed, vals) ==
  LET old == SubSeq(items, from, from + removed - 1) IN
  /\ \A k \in DOMAIN vals : vals[k] \in Node => owner[vals[k]] \in {"free", "here", "there"}
  /\ Permitted(old, vals)
  /\ ~(old = <<>> /\ NotInsertable(vals))
  /\ write' = [from |-> from, old |-> old, vals |-> vals, result |-> <<>>,
               claimed |-> {}, built |-> {}, adopted |-> {},
               owner |-> owner, index |-> index]

LEMMA SpliceStep ==
  ASSUME IInv, Doomed = {}, Splice
  PROVE  IInv' /\ write'.owner = owner /\ ~Idle'
<1>1. Idle /\ Typed /\ PlacedIn(items, owner, index)
  BY DEF Splice, IInv
<1>a. PICK from \in 1 .. Len(items) + 1 :
         \E removed \in 0 .. Len(items) + 1 - from :
         \E vals \in BoundedSeq(Value, MaxLen - Len(items) + removed) :
           Begins(from, removed, vals)
  BY DEF Splice, Begins
<1>b. PICK removed \in 0 .. Len(items) + 1 - from :
         \E vals \in BoundedSeq(Value, MaxLen - Len(items) + removed) :
           Begins(from, removed, vals)
  BY <1>a
<1>2. PICK vals \in BoundedSeq(Value, MaxLen - Len(items) + removed) :
         Begins(from, removed, vals)
  BY <1>b
<1> DEFINE old == SubSeq(items, from, from + removed - 1)
           w == [from |-> from, old |-> old, vals |-> vals, result |-> <<>>,
                 claimed |-> {}, built |-> {}, adopted |-> {}, owner |-> owner, index |-> index]
<1>3. /\ items \in Seq(Node) /\ Len(items) \in Nat /\ Len(items) <= MaxLen /\ MaxLen \in Nat
      /\ owner \in [Node -> Place] /\ index \in [Node -> 0 .. MaxLen]
  BY <1>1, Apart DEF Typed
<1>4. /\ old \in Seq(Node) /\ Len(old) = removed
      /\ \A j \in 1 .. removed : old[j] = items[from + j - 1]
  <2> DEFINE last == from + removed - 1
  <2>1. last \in Nat /\ from \in Nat \ {0} /\ last <= Len(items)
        /\ from <= last + 1 /\ last - from + 1 = removed
    BY <1>3
  <2>2. old = SubSeq(items, from, last)
    OBVIOUS
  <2> HIDE DEF last, old
  <2>3. /\ SubSeq(items, from, last) \in Seq(Node)
        /\ Len(SubSeq(items, from, last)) = last - from + 1
        /\ \A i \in 1 .. last - from + 1 : SubSeq(items, from, last)[i] = items[from + i - 1]
    BY <1>3, <2>1, SubSeqOf
  <2> QED
    BY <2>1, <2>2, <2>3
<1>5. PICK m \in 0 .. MaxLen - Len(items) + removed : vals \in [1 .. m -> Value]
  BY DEF BoundedSeq, SeqOf
<1>6. vals \in Seq(Value) /\ Len(vals) = m /\ DOMAIN vals = 1 .. m
  BY <1>5, <1>3
<1>7. write' = w /\ UNCHANGED <<items, owner, index>>
  BY <1>2 DEF Splice, Begins
<1>8. /\ \A k \in 1 .. m : vals[k] \in Node => owner[vals[k]] \in {"free", "here", "there"}
      /\ Permitted(old, vals)
      /\ ~(old = <<>> /\ NotInsertable(vals))
  BY <1>2, <1>6 DEF Begins
<1>9. old # <<>> <=> removed > 0
  BY <1>4
<1>10. removed > 0 =>
         /\ ~Doubles(old, vals)
         /\ \A k \in 1 .. m : ~Refusable(vals[k])
  BY <1>6, <1>8, <1>9 DEF Permitted
<1>11. removed = 0 => ~NotInsertable(vals)
  BY <1>8, <1>9
<1>12. /\ w.from = from /\ w.old = old /\ w.vals = vals /\ w.result = <<>>
       /\ w.claimed = {} /\ w.built = {} /\ w.adopted = {} /\ w.owner = owner /\ w.index = index
  OBVIOUS
<1>13. w \in Write
  <2>1. from \in 1 .. MaxLen + 1 /\ <<>> \in Seq(Node)
    BY <1>3
  <2> QED
    BY <1>3, <1>4, <1>6, <2>1 DEF Write
<1>14. DOMAIN old = 1 .. removed
  BY <1>4
<1> HIDE DEF w, old
<1>15. Slice(w, items)
  <2>1. from \in Nat /\ removed \in Nat /\ m \in Nat /\ from + removed <= Len(items) + 1
        /\ Len(items) + m - removed <= MaxLen
    BY <1>3, <1>5
  <2>2. Len(w.result) = 0 /\ Len(w.vals) = m /\ Len(w.old) = removed
    BY <1>4, <1>6, <1>12
  <2>3. \A j \in 1 .. Len(w.old) : w.old[j] = items[w.from + j - 1]
    BY <1>4, <1>12
  <2> QED
    BY <1>12, <2>1, <2>2, <2>3 DEF Slice
<1>16. Sane(w)
  <2> SUFFICES ASSUME NEW k \in 1 .. m
      PROVE  /\ vals[k] \in Node => owner[vals[k]] \in {"free", "here", "there"}
             /\ vals[k] \in Node /\ owner[vals[k]] = "here" =>
                  \E j \in 1 .. removed : old[j] = vals[k]
             /\ vals[k] \in Node /\ owner[vals[k]] \in {"free", "here"} =>
                  \A h \in 1 .. k - 1 : vals[h] # vals[k]
             /\ removed > 0 =>
                  /\ vals[k] # Bad
                  /\ vals[k] \in Node =>
                       /\ owner[vals[k]] # "there"
                       /\ \A h \in 1 .. k - 1 : vals[h] # IdOf[vals[k]]
    <3>1. /\ w.vals = vals /\ w.owner = owner /\ w.old = old
          /\ Len(w.vals) = m /\ Len(w.old) = removed
      BY <1>4, <1>6, <1>12
    <3> QED
      BY <3>1 DEF Sane
  <2>1. vals[k] \in Node => owner[vals[k]] \in {"free", "here", "there"}
    BY <1>8
  <2>2. CASE removed > 0
    <3>1. ~Refusable(vals[k])
      BY <1>10, <2>2
    <3>2. vals[k] \in Node =>
            /\ owner[vals[k]] = "here" => vals[k] \in Range(old)
            /\ \A h \in 1 .. k - 1 : vals[h] \notin {vals[k], IdOf[vals[k]]}
      BY <1>6, <1>10, <2>2 DEF Doubles
    <3>3. Range(old) = {old[j] : j \in 1 .. removed}
      BY <1>14 DEF Range
    <3> QED
      BY <2>1, <3>1, <3>2, <3>3 DEF Refusable
  <2>3. CASE removed = 0
    <3>1. vals[k] \in Node =>
            /\ owner[vals[k]] # "here"
            /\ owner[vals[k]] = "free" => \A h \in 1 .. k - 1 : vals[h] # vals[k]
      BY <1>6, <1>11, <2>3 DEF NotInsertable
    <3> QED
      BY <2>1, <2>3, <3>1
  <2> QED
    BY <1>3, <2>2, <2>3
<1>17. Results(w) /\ Moved(w, owner, index) /\ KeptSoFar(w)
  <2>1. Len(w.result) = 0 /\ 1 .. 0 = {} /\ New(w) = {} /\ Taken(w) = {}
    BY <1>12 DEF New, Taken
  <2> QED
    BY <1>3, <1>12, <2>1 DEF Results, Moved, KeptSoFar
<1>18. UnderWay(w, items, owner, index)
  BY <1>1, <1>12, <1>13, <1>15, <1>16, <1>17 DEF UnderWay
<1>19. write' # NoWrite
  BY <1>7, <1>13, Apart
<1> QED
  BY <1>1, <1>7, <1>12, <1>17, <1>18, <1>19 DEF IInv, Idle, Typed

-----------------------------------------------------------------------------
(* A value at a time *)

LEMMA WriteParts ==
  ASSUME NEW w, w \in Write
  PROVE  /\ w.from \in 1 .. MaxLen + 1 /\ w.from \in Nat
         /\ w.old \in Seq(Node) /\ w.vals \in Seq(Value) /\ w.result \in Seq(Node)
         /\ w.claimed \in SUBSET (1 .. MaxLen) /\ w.built \in SUBSET Node
         /\ w.adopted \in SUBSET Node
         /\ w.owner \in [Node -> Place] /\ w.index \in [Node -> 0 .. MaxLen]
         /\ Len(w.old) \in Nat /\ Len(w.vals) \in Nat /\ Len(w.result) \in Nat
         /\ DOMAIN w.old = 1 .. Len(w.old)
<1>1. MaxLen \in Nat
  BY Apart
<1> QED
  BY <1>1 DEF Write

\* What a write replaces lives in the array, and no node is replaced twice.
LEMMA OldLivesHere ==
  ASSUME NEW w, NEW its \in Seq(Node), NEW own, NEW idx, UnderWay(w, its, own, idx)
  PROVE  /\ \A j \in 1 .. Len(w.old) : w.old[j] \in Node /\ w.owner[w.old[j]] = "here"
         /\ \A i, j \in 1 .. Len(w.old) : w.old[i] = w.old[j] => i = j
<1> DEFINE n == Len(w.old)
           f == w.from
           old == w.old
           pl == w.owner
           sp == w.index
<1>1. /\ f \in Nat /\ f >= 1 /\ n \in Nat /\ old \in Seq(Node)
  BY WriteParts DEF UnderWay
<1>2. /\ f + n <= Len(its) + 1 /\ \A j \in 1 .. n : old[j] = its[f + j - 1]
  BY DEF UnderWay, Slice
<1>3. \A i \in 1 .. Len(its) : pl[its[i]] = "here" /\ sp[its[i]] = i
  BY DEF UnderWay, PlacedIn
<1>4. \A j \in 1 .. n : old[j] \in Node
  BY <1>1
<1>5. \A j \in 1 .. n : f + j - 1 \in 1 .. Len(its)
  BY <1>1, <1>2
<1>6. ASSUME NEW j \in 1 .. n
      PROVE  pl[old[j]] = "here" /\ sp[old[j]] = f + j - 1
  <2> DEFINE i == f + j - 1
  <2>1. i \in 1 .. Len(its) /\ old[j] = its[i]
    BY <1>2, <1>5
  <2> HIDE DEF i
  <2>2. pl[old[j]] = "here" /\ sp[old[j]] = i
    BY <2>1, <1>3
  <2> QED
    BY <2>2 DEF i
<1>7. ASSUME NEW i \in 1 .. n, NEW j \in 1 .. n, old[i] = old[j]
      PROVE  i = j
  <2>1. f + i - 1 = f + j - 1
    BY <1>6, <1>7
  <2> QED
    BY <2>1, <1>1
<1> QED
  BY <1>4, <1>6, <1>7

LEMMA OldPositions ==
  ASSUME write \in Write
  PROVE  /\ DOMAIN write.old = 1 .. Len(write.old) /\ Len(write.old) \in Nat
         /\ Unclaimed = {j \in 1 .. Len(write.old) : j \notin write.claimed}
BY WriteParts DEF Unclaimed

\* The old node to reuse is one nobody has claimed that is the same.
LEMMA ReusedIsSame ==
  ASSUME write \in Write, NEW v, NEW j \in Reused(v)
  PROVE  /\ j \in Unclaimed /\ Same(write.old[j], v)
         /\ \A i \in DOMAIN write.old :
              (\A k \in DOMAIN write.old : Same(write.old[k], v) => k = i) => j = i
<1> DEFINE next == {h \in Unclaimed : \A k \in Unclaimed : h <= k}
           same == {h \in DOMAIN write.old : Same(write.old[h], v)}
           last == {h \in DOMAIN write.old :
                      \A k \in DOMAIN write.old : Same(write.old[k], v) => k <= h}
<1>1. j \in IF next \cap same # {} THEN next ELSE Unclaimed \cap same \cap last
  BY DEF Reused
<1>2. Unclaimed \subseteq DOMAIN write.old
  BY DEF Unclaimed
<1>3. j \in Unclaimed /\ j \in same
  <2>1. CASE next \cap same # {}
    <3>1. j \in next
      BY <1>1, <2>1
    <3>2. PICK h \in next : h \in same
      BY <2>1
    <3>3. h <= j /\ j <= h /\ j \in Unclaimed
      BY <3>1, <3>2
    <3>4. j \in Nat /\ h \in Nat
      BY <3>1, <3>2, OldPositions
    <3>5. j = h
      BY <3>3, <3>4
    <3> QED
      BY <3>2, <3>3, <3>5
  <2>2. CASE ~(next \cap same # {})
    BY <1>1, <2>2
  <2> QED
    BY <2>1, <2>2
<1> QED
  BY <1>2, <1>3

\* The only old node that is the same is reused, unless it is claimed.
LEMMA SoleIsReused ==
  ASSUME write \in Write, NEW v, NEW j \in Unclaimed, Same(write.old[j], v),
         \A i \in DOMAIN write.old : Same(write.old[i], v) => i = j
  PROVE  Reused(v) # {}
<1> DEFINE next == {h \in Unclaimed : \A k \in Unclaimed : h <= k}
           same == {h \in DOMAIN write.old : Same(write.old[h], v)}
           last == {h \in DOMAIN write.old :
                      \A k \in DOMAIN write.old : Same(write.old[k], v) => k <= h}
<1>1. j \in DOMAIN write.old /\ j \in Nat /\ j <= j
  BY OldPositions
<1>2. j \in same /\ j \in last
  BY <1>1
<1>3. Reused(v) = IF next \cap same # {} THEN next ELSE Unclaimed \cap same \cap last
  BY DEF Reused
<1> HIDE DEF next, same, last
<1> QED
  BY <1>2, <1>3

\* What is known of the next value.
LEMMA NextValue ==
  ASSUME Typed, UnderWay(write, items, owner, index), Pending
  PROVE  /\ Len(write.result) + 1 \in 1 .. Len(write.vals)
         /\ 1 .. Len(write.result) = 1 .. (Len(write.result) + 1) - 1
         /\ Value1 \in Value
         /\ Value1 \in Node =>
              /\ write.owner[Value1] \in {"free", "here", "there"}
              /\ write.owner[Value1] = "here" =>
                   \E j \in 1 .. Len(write.old) : write.old[j] = Value1
              /\ write.owner[Value1] \in {"free", "here"} =>
                   \A h \in 1 .. Len(write.result) : write.vals[h] # Value1
         /\ Len(write.old) > 0 =>
              /\ Value1 # Bad
              /\ Value1 \in Node =>
                   /\ write.owner[Value1] # "there"
                   /\ \A h \in 1 .. Len(write.result) : write.vals[h] # IdOf[Value1]
<1> DEFINE k == Len(write.result) + 1
<1>1. write.vals \in Seq(Value) /\ Len(write.vals) \in Nat /\ Len(write.result) \in Nat
  BY WriteParts DEF UnderWay
<1>2. Len(write.result) < Len(write.vals)
  BY DEF Pending
<1>3. k \in 1 .. Len(write.vals) /\ 1 .. k - 1 = 1 .. Len(write.result)
  BY <1>1, <1>2
<1>4. Value1 = write.vals[k] /\ Value1 \in Value
  BY <1>1, <1>3 DEF Value1
<1>5. /\ Value1 \in Node =>
           /\ write.owner[Value1] \in {"free", "here", "there"}
           /\ write.owner[Value1] = "here" =>
                \E j \in 1 .. Len(write.old) : write.old[j] = Value1
           /\ write.owner[Value1] \in {"free", "here"} =>
                \A h \in 1 .. k - 1 : write.vals[h] # Value1
      /\ Len(write.old) > 0 =>
           /\ Value1 # Bad
           /\ Value1 \in Node =>
                /\ write.owner[Value1] # "there"
                /\ \A h \in 1 .. k - 1 : write.vals[h] # IdOf[Value1]
  <2> HIDE DEF k
  <2> QED
    BY <1>3, <1>4 DEF UnderWay, Sane
<1> QED
  BY <1>3, <1>4, <1>5

\* The node of a result is a new one, or the old one the result claimed.
LEMMA TakenIs ==
  ASSUME Typed, UnderWay(write, items, owner, index), NEW n \in Taken(write)
  PROVE  /\ n \in Node /\ owner[n] = "here"
         /\ \E h \in 1 .. Len(write.result) :
              write.result[h] = n /\ Same(n, write.vals[h])
         /\ \/ n \in New(write) /\ write.owner[n] \in {"absent", "free"}
            \/ /\ write.owner[n] = "here"
               /\ \E j \in write.claimed : j \in 1 .. Len(write.old) /\ write.old[j] = n
<1>1. PICK h \in 1 .. Len(write.result) : write.result[h] = n
  BY DEF Taken
<1>2. n \in Node
  BY <1>1, WriteParts DEF UnderWay
<1>3. /\ Same(n, write.vals[h])
      /\ n \in New(write) \/ \E j \in write.claimed : n = write.old[j]
  BY <1>1 DEF UnderWay, Results
<1>4. n \in New(write) => write.owner[n] \in {"absent", "free"}
  BY DEF UnderWay, Results, New
<1>5. \A j \in write.claimed : j \in 1 .. Len(write.old)
  BY DEF UnderWay, Results
<1>6. \A j \in 1 .. Len(write.old) : write.owner[write.old[j]] = "here"
  BY OldLivesHere DEF Typed
<1>7. owner[n] = IF n \in New(write) THEN "here" ELSE write.owner[n]
  BY <1>2 DEF UnderWay, Moved
<1> QED
  BY <1>1, <1>2, <1>3, <1>4, <1>5, <1>6, <1>7

\* In an overwrite, an instance that is in the array is an old node, not
\* claimed yet: it is reused.
LEMMA HereIsReused ==
  ASSUME Typed, UnderWay(write, items, owner, index), Pending, Len(write.old) > 0,
         Value1 \in Node, owner[Value1] = "here"
  PROVE  Reused(Value1) # {}
<1> DEFINE v == Value1
<1>1. write \in Write /\ v \in Node
  BY DEF UnderWay
<1>2. /\ write.owner[v] \in {"free", "here", "there"}
      /\ write.owner[v] = "here" => \E j \in 1 .. Len(write.old) : write.old[j] = v
      /\ write.owner[v] \in {"free", "here"} =>
           \A h \in 1 .. Len(write.result) : write.vals[h] # v
      /\ write.owner[v] # "there"
      /\ \A h \in 1 .. Len(write.result) : write.vals[h] # IdOf[v]
  BY NextValue
<1> HIDE DEF v
<1>3. v \notin Taken(write)
  <2>1. \A h \in 1 .. Len(write.result) : ~Same(v, write.vals[h])
    BY <1>2 DEF Same
  <2> QED
    BY <2>1, TakenIs
<1>4. v \notin New(write)
  BY <1>3 DEF UnderWay, Results
<1>5. owner[v] = write.owner[v]
  BY <1>1, <1>4 DEF UnderWay, Moved
<1>6. PICK j \in 1 .. Len(write.old) : write.old[j] = v
  BY <1>2, <1>5 DEF v
<1>7. j \in Unclaimed /\ DOMAIN write.old = 1 .. Len(write.old)
  BY <1>1, <1>3, <1>6, OldPositions DEF UnderWay, Results
<1>8. \A n \in Node : Same(n, v) <=> v = n
  BY <1>1, Apart DEF Same
<1>9. /\ \A i \in 1 .. Len(write.old) : write.old[i] \in Node
      /\ \A i, h \in 1 .. Len(write.old) : write.old[i] = write.old[h] => i = h
  BY OldLivesHere DEF Typed
<1>10. /\ Same(write.old[j], v)
       /\ \A i \in DOMAIN write.old : Same(write.old[i], v) => i = j
  BY <1>6, <1>7, <1>8, <1>9
<1> QED
  BY <1>1, <1>7, <1>10, SoleIsReused DEF v

LEMMA OnlyInsertionsThrow ==
  ASSUME Typed, UnderWay(write, items, owner, index), Pending
  PROVE  /\ Restored(Value1) = {}
         /\ Throws => Len(write.old) = 0
<1>1. write \in Write /\ Len(write.old) \in Nat /\ (Unclaimed # {} => Len(write.old) > 0)
  BY WriteParts, OldPositions DEF UnderWay
<1>2. Restored(Value1) = {}
  <2> SUFFICES ASSUME NEW n \in Restored(Value1)
               PROVE  FALSE
    OBVIOUS
  <2>1. n = Value1 /\ Value1 \in Node /\ owner[Value1] = "here"
        /\ Reused(Value1) = {} /\ Unclaimed # {}
    BY DEF Restored
  <2> QED
    BY <1>1, <2>1, HereIsReused
<1>3. ASSUME Throws, Len(write.old) > 0
      PROVE  FALSE
  <2>1. CASE Refusable(Value1)
    <3>1. Value1 \in Node /\ owner[Value1] = "there" /\ write.owner[Value1] # "there"
      BY <1>3, <2>1, NextValue DEF Refusable
    <3>2. owner[Value1] = IF Value1 \in New(write) THEN "here" ELSE write.owner[Value1]
      BY <3>1 DEF UnderWay, Moved
    <3> QED
      BY <3>1, <3>2
  <2>2. CASE Value1 \in Node /\ owner[Value1] = "here" /\ Reused(Value1) = {}
    BY <1>3, <2>2, HereIsReused
  <2> QED
    BY <1>3, <2>1, <2>2 DEF Throws
<1> QED
  BY <1>1, <1>2, <1>3

LEMMA Arithmetic ==
  ASSUME NEW f \in Nat, NEW o \in Nat, NEW v \in Nat, NEW l \in Nat, NEW r \in Nat,
         NEW m \in Nat, f + o <= l + 1, l + v - o <= m, r < v
  PROVE  r + 1 <= v /\ f + r <= m
OBVIOUS

LEMMA RoomLeft ==
  ASSUME Typed, UnderWay(write, items, owner, index), Pending
  PROVE  /\ write.from + Len(write.old) <= Len(items) + 1
         /\ Len(items) + Len(write.vals) - Len(write.old) <= MaxLen
         /\ Len(write.result) + 1 <= Len(write.vals)
         /\ write.from + Len(write.result) <= MaxLen
<1>1. /\ write.from + Len(write.old) <= Len(items) + 1
      /\ Len(items) + Len(write.vals) - Len(write.old) <= MaxLen
  BY DEF UnderWay, Slice
<1>2. Len(write.result) < Len(write.vals)
  BY DEF Pending
<1>3. /\ write.from \in Nat /\ Len(write.old) \in Nat /\ Len(write.vals) \in Nat
      /\ Len(write.result) \in Nat /\ MaxLen \in Nat /\ Len(items) \in Nat
  BY WriteParts, Apart DEF UnderWay, Typed
<1> QED
  BY <1>1, <1>2, <1>3, Arithmetic

\* The next value becomes n, which is not the node of another one: an old node
\* nobody had claimed, or one that comes in.
LEMMA TakeStep ==
  ASSUME Typed, UnderWay(write, items, owner, index), KeptSoFar(write), Pending,
         NEW n \in Node, NEW claims, NEW builds, NEW adopts, Take(n, claims, builds, adopts),
         Same(n, Value1), n \notin Taken(write),
         \/ /\ claims = {} /\ builds \cup adopts = {n}
            /\ n \in builds => write.owner[n] = "absent"
            /\ n \in adopts => write.owner[n] = "free"
         \/ /\ builds = {} /\ adopts = {}
            /\ \E j \in Unclaimed : claims = {j} /\ n = write.old[j],
         \A j \in 1 .. Len(write.old) :
           Kept(write.old, write.vals, Len(write.result) + 1, j) => n = write.old[j]
  PROVE  IInv' /\ write'.owner = write.owner /\ ~Idle'
<1> DEFINE m == Len(write.result)
           u == [write EXCEPT !.result = Append(@, n), !.claimed = @ \cup claims,
                              !.built = @ \cup builds, !.adopted = @ \cup adopts]
<1>1. write' = u /\ index' = [index EXCEPT ![n] = Position]
      /\ owner' = [owner EXCEPT ![n] = "here"] /\ items' = items
  BY DEF Take
<1>2. /\ write \in Write /\ write.result \in Seq(Node) /\ m \in Nat
      /\ Len(write.old) \in Nat /\ Len(write.vals) \in Nat /\ write.from \in Nat
      /\ write.from >= 1 /\ write.claimed \in SUBSET (1 .. MaxLen)
      /\ write.built \in SUBSET Node /\ write.adopted \in SUBSET Node
      /\ write.owner \in [Node -> Place]
  BY WriteParts DEF UnderWay
<1>3. /\ u.from = write.from /\ u.old = write.old /\ u.vals = write.vals
      /\ u.owner = write.owner /\ u.index = write.index
      /\ u.result = Append(write.result, n) /\ u.claimed = write.claimed \cup claims
      /\ u.built = write.built \cup builds /\ u.adopted = write.adopted \cup adopts
  BY <1>2 DEF Write
<1>4. /\ u.result \in Seq(Node) /\ Len(u.result) = m + 1
      /\ \A i \in 1 .. m : u.result[i] = write.result[i]
      /\ u.result[m + 1] = n
      /\ 1 .. m + 1 = 1 .. m \cup {m + 1}
  BY <1>2, <1>3, AppendOf
<1>5. /\ MaxLen \in Nat /\ items \in Seq(Node) /\ Len(items) \in Nat
      /\ owner \in [Node -> Place] /\ index \in [Node -> 0 .. MaxLen]
  BY Apart DEF Typed
<1>6. /\ write.from + Len(write.old) <= Len(items) + 1
      /\ Len(items) + Len(write.vals) - Len(write.old) <= MaxLen
      /\ m + 1 <= Len(write.vals) /\ write.from + m <= MaxLen
  BY RoomLeft
<1>7. Position = write.from + m /\ Position \in 0 .. MaxLen
  <2>1. Position = write.from + m
    BY DEF Position
  <2>2. write.from + m \in Nat
    BY <1>2
  <2> QED
    BY <1>5, <1>6, <2>1, <2>2
<1>8. Unclaimed = {j \in 1 .. Len(write.old) : j \notin write.claimed}
  BY <1>2, OldPositions
<1>9. claims \subseteq 1 .. Len(write.old) /\ \A j \in claims : write.old[j] = n
  BY <1>8
<1>10. Len(write.old) <= MaxLen
  <2>1. Len(items) <= MaxLen
    BY DEF Typed
  <2> QED
    BY <2>1, <1>2, <1>5, <1>6
<1>11. u.claimed \in SUBSET (1 .. MaxLen) /\ builds \subseteq Node /\ adopts \subseteq Node
  BY <1>2, <1>3, <1>5, <1>9, <1>10
<1>12. u \in Write
  <2>1. builds \subseteq Node /\ adopts \subseteq Node /\ u.result \in Seq(Node)
        /\ u.claimed \in SUBSET (1 .. MaxLen)
    BY <1>4, <1>11
  <2> QED
    BY <1>2, <1>3, <2>1 DEF Write
<1> HIDE DEF u
<1>13. Taken(u) = Taken(write) \cup {n}
  BY <1>4 DEF Taken, m
<1>14. New(u) = New(write) \cup builds \cup adopts
  BY <1>3 DEF New
<1> HIDE DEF m
<1>15. Typed'
  <2>1. owner' \in [Node -> Place]
    BY <1>1, <1>5 DEF Place
  <2>2. index' \in [Node -> 0 .. MaxLen]
    BY <1>1, <1>5, <1>7
  <2> QED
    BY <1>1, <2>1, <2>2 DEF Typed
<1>16. PlacedIn(items, u.owner, u.index) /\ Slice(u, items) /\ Sane(u)
  <2>1. Len(u.result) <= Len(u.vals)
    BY <1>2, <1>3, <1>4, <1>6
  <2>2. PlacedIn(items, u.owner, u.index)
    BY <1>3 DEF UnderWay
  <2>3. Slice(write, items) /\ Sane(write)
    BY DEF UnderWay
  <2>4. Slice(u, items)
    BY <1>3, <2>1, <2>3 DEF Slice
  <2>5. Sane(u)
    BY <1>3, <2>3 DEF Sane
  <2> QED
    BY <2>2, <2>4, <2>5
<1>17. Results(u)
  <2>1. ASSUME NEW k \in 1 .. m + 1
        PROVE  /\ Same(u.result[k], u.vals[k])
               /\ \/ u.result[k] \in New(u)
                  \/ \E j \in u.claimed : u.result[k] = u.old[j]
    <3>1. CASE k \in 1 .. m
      <4>1. /\ Same(write.result[k], write.vals[k])
            /\ \/ write.result[k] \in New(write)
               \/ \E j \in write.claimed : write.result[k] = write.old[j]
        BY <3>1 DEF UnderWay, Results, m
      <4> QED
        BY <1>3, <1>4, <1>14, <3>1, <4>1
    <3>2. CASE k = m + 1
      <4>1. u.result[k] = n /\ Same(n, u.vals[k])
        BY <1>3, <1>4, <3>2 DEF Value1, m
      <4>2. n \in New(u) \/ \E j \in u.claimed : n = u.old[j]
        BY <1>3, <1>14
      <4> QED
        BY <4>1, <4>2
    <3> QED
      BY <1>4, <3>1, <3>2
  <2>2. ASSUME NEW k \in 1 .. m + 1, NEW h \in 1 .. m + 1, u.result[k] = u.result[h]
        PROVE  k = h
    <3>1. \A i \in 1 .. m : write.result[i] # n
      BY DEF Taken, m
    <3>2. \A i, j \in 1 .. m : write.result[i] = write.result[j] => i = j
      BY DEF UnderWay, Results, m
    <3> QED
      BY <1>4, <2>2, <3>1, <3>2
  <2>3. New(u) \subseteq Taken(u)
    BY <1>13, <1>14 DEF UnderWay, Results
  <2>4. \A j \in u.claimed : j \in 1 .. Len(u.old) /\ u.old[j] \in Taken(u)
    BY <1>3, <1>9, <1>13 DEF UnderWay, Results
  <2>5. \A i \in u.built : u.owner[i] = "absent"
    BY <1>3 DEF UnderWay, Results
  <2>6. \A i \in u.adopted : u.owner[i] = "free"
    BY <1>3 DEF UnderWay, Results
  <2> QED
    BY <1>4, <2>1, <2>2, <2>3, <2>4, <2>5, <2>6 DEF Results
<1>18. Moved(u, owner', index')
  <2>1. ASSUME NEW i \in Node
        PROVE  owner'[i] = IF i \in New(u) THEN "here" ELSE u.owner[i]
    <3>1. owner[i] = IF i \in New(write) THEN "here" ELSE write.owner[i]
      BY DEF UnderWay, Moved
    <3>2. CASE i # n
      BY <1>1, <1>3, <1>5, <1>14, <3>1, <3>2
    <3>3. CASE i = n
      <4>1. owner'[i] = "here"
        BY <1>1, <1>5, <3>3
      <4>2. CASE n \in New(u)
        BY <3>3, <4>1, <4>2
      <4>3. CASE n \notin New(u)
        <5>1. PICK j \in Unclaimed : n = write.old[j]
          BY <1>14, <4>3
        <5>2. write.owner[n] = "here"
          BY <5>1, <1>5, <1>8, OldLivesHere
        <5> QED
          BY <1>3, <3>3, <4>1, <4>3, <5>2
      <4> QED
        BY <4>2, <4>3
    <3> QED
      BY <3>2, <3>3
  <2>2. ASSUME NEW k \in 1 .. m + 1
        PROVE  index'[u.result[k]] = u.from + k - 1
    <3>1. CASE k \in 1 .. m
      <4>1. index[write.result[k]] = write.from + k - 1 /\ write.result[k] # n
            /\ write.result[k] \in Node
        <5>1. Moved(write, owner, index) /\ k \in 1 .. Len(write.result)
          BY <3>1 DEF UnderWay, m
        <5>2. index[write.result[k]] = write.from + k - 1
          BY <5>1 DEF Moved
        <5>3. write.result[k] # n
          BY <5>1 DEF Taken
        <5> QED
          BY <1>2, <5>1, <5>2, <5>3
      <4> QED
        BY <1>1, <1>3, <1>4, <1>5, <3>1, <4>1
    <3>2. CASE k = m + 1
      <4>1. index'[n] = write.from + m
        BY <1>1, <1>5, <1>7
      <4>2. u.from + k - 1 = write.from + m
        BY <1>2, <1>3, <3>2 DEF m
      <4> QED
        BY <1>4, <3>2, <4>1, <4>2
    <3> QED
      BY <1>4, <3>1, <3>2
  <2>3. ASSUME NEW i \in Node, i \notin Taken(u)
        PROVE  index'[i] = u.index[i]
    <3>1. i # n /\ i \notin Taken(write)
      BY <1>13, <2>3
    <3> QED
      BY <1>1, <1>3, <1>5, <3>1 DEF UnderWay, Moved
  <2> QED
    BY <1>4, <2>1, <2>2, <2>3 DEF Moved
<1>19. KeptSoFar(u)
  <2> SUFFICES ASSUME NEW k \in 1 .. m + 1, NEW j \in 1 .. Len(write.old),
                      Kept(write.old, write.vals, k, j)
               PROVE  u.result[k] = write.old[j]
    BY <1>3, <1>4 DEF KeptSoFar
  <2>1. CASE k \in 1 .. m
    BY <1>4, <2>1 DEF KeptSoFar, m
  <2>2. CASE k = m + 1
    BY <1>4, <2>2 DEF m
  <2> QED
    BY <1>4, <2>1, <2>2
<1>20. u # NoWrite
  BY <1>12, Apart
<1> QED
  BY <1>1, <1>3, <1>12, <1>15, <1>16, <1>17, <1>18, <1>19, <1>20 DEF IInv, Idle, UnderWay

Between == Typed /\ UnderWay(write, items, owner, index) /\ KeptSoFar(write)

LEMMA PendingIsBetween == IInv /\ Pending => Between
BY DEF IInv, Between, Pending

LEMMA ReuseStep ==
  ASSUME IInv, Reuse
  PROVE  IInv' /\ write'.owner = write.owner /\ ~Idle'
<1>1. Pending /\ Between /\ write \in Write
  BY PendingIsBetween DEF Reuse, Between, UnderWay
<1>2. Restored(Value1) = {}
  BY <1>1, OnlyInsertionsThrow DEF Between
<1>3. PICK j \in Reused(Value1) : Take(write.old[j], {j}, {}, {})
  <2>1. PICK found \in {<<write.old[j], {j}>> : j \in Reused(Value1)} :
          Take(found[1], found[2], {}, {})
    BY <1>2 DEF Reuse
  <2>2. PICK j \in Reused(Value1) : found = <<write.old[j], {j}>>
    BY <2>1
  <2>3. found[1] = write.old[j] /\ found[2] = {j}
    BY <2>2
  <2> QED
    BY <2>1, <2>3
<1> DEFINE n == write.old[j]
<1>4. /\ j \in Unclaimed /\ Same(n, Value1)
      /\ \A i \in DOMAIN write.old :
           (\A k \in DOMAIN write.old : Same(write.old[k], Value1) => k = i) => j = i
  BY <1>1, ReusedIsSame
<1>5. j \in 1 .. Len(write.old) /\ j \notin write.claimed
      /\ DOMAIN write.old = 1 .. Len(write.old)
  BY <1>1, <1>4, OldPositions
<1>6. /\ \A i \in 1 .. Len(write.old) : write.old[i] \in Node /\ write.owner[write.old[i]] = "here"
      /\ \A i, h \in 1 .. Len(write.old) : write.old[i] = write.old[h] => i = h
  BY <1>1, OldLivesHere DEF Between, Typed
<1>7. n \in Node /\ n \notin Taken(write)
  <2>1. ASSUME n \in Taken(write)
        PROVE  FALSE
    <3>1. PICK i \in write.claimed : i \in 1 .. Len(write.old) /\ write.old[i] = n
      BY <1>1, <1>5, <1>6, <2>1, TakenIs DEF Between
    <3> QED
      BY <1>5, <1>6, <3>1
  <2> QED
    BY <1>5, <1>6, <2>1
<1>8. ASSUME NEW i \in 1 .. Len(write.old),
             Kept(write.old, write.vals, Len(write.result) + 1, i)
      PROVE  n = write.old[i]
  <2>1. \A k \in DOMAIN write.old : Same(write.old[k], Value1) => k = i
    BY <1>8 DEF Kept, Value1
  <2> QED
    BY <1>4, <1>5, <2>1
<1>9. \E i \in Unclaimed : {j} = {i} /\ n = write.old[i]
  BY <1>4
<1> HIDE DEF n
<1>10. Take(n, {j}, {}, {})
  BY <1>3 DEF n
<1> QED
  BY <1>1, <1>4, <1>7, <1>8, <1>9, <1>10, TakeStep DEF Between

LEMMA AdoptStep ==
  ASSUME IInv, Adopt
  PROVE  IInv' /\ write'.owner = write.owner /\ ~Idle'
<1> DEFINE n == Value1
<1>1. Pending /\ Between
  BY PendingIsBetween DEF Adopt
<1>2. n \in Node /\ owner[n] = "free" /\ Take(n, {}, {}, {n})
  BY DEF Adopt
<1>3. n \notin Taken(write)
  BY <1>1, <1>2, TakenIs DEF Between
<1>4. write.owner[n] = "free"
  <2>1. owner[n] = IF n \in New(write) THEN "here" ELSE write.owner[n]
    BY <1>1, <1>2 DEF Between, UnderWay, Moved
  <2> QED
    BY <1>2, <2>1
<1>5. ASSUME NEW j \in 1 .. Len(write.old),
             Kept(write.old, write.vals, Len(write.result) + 1, j)
      PROVE  n = write.old[j]
  <2>1. Same(write.old[j], n) /\ write.old[j] \in Node
    BY <1>1, <1>5, OldLivesHere DEF Kept, Value1, Between, Typed
  <2> QED
    BY <1>2, <2>1, Apart DEF Same
<1>6. Same(n, Value1)
  BY DEF Same
<1> HIDE DEF n
<1>7. {} \cup {n} = {n} /\ n \notin {}
  OBVIOUS
<1> QED
  BY <1>1, <1>2, <1>3, <1>4, <1>5, <1>6, <1>7, TakeStep DEF Between

LEMMA BuildStep ==
  ASSUME IInv, NEW n \in Node, Build(n)
  PROVE  IInv' /\ write'.owner = write.owner /\ ~Idle'
<1>1. Pending /\ Between /\ write \in Write
  BY PendingIsBetween DEF Build, Between, UnderWay
<1>2. /\ Same(n, Value1) /\ Reused(Value1) = {} /\ owner[n] = "absent"
      /\ Take(n, {}, {n}, {})
  BY DEF Build, Same
<1>3. n \notin Taken(write)
  BY <1>1, <1>2, TakenIs DEF Between
<1>4. write.owner[n] = "absent"
  <2>1. owner[n] = IF n \in New(write) THEN "here" ELSE write.owner[n]
    BY <1>1 DEF Between, UnderWay, Moved
  <2> QED
    BY <1>2, <2>1
<1>5. ASSUME NEW j \in 1 .. Len(write.old),
             Kept(write.old, write.vals, Len(write.result) + 1, j)
      PROVE  FALSE
  <2>1. /\ Same(write.old[j], Value1)
        /\ \A i \in DOMAIN write.old : Same(write.old[i], Value1) => i = j
        /\ \A i \in DOMAIN write.vals :
             Same(write.old[j], write.vals[i]) => i = Len(write.result) + 1
    BY <1>5 DEF Kept, Value1
  <2>2. j \notin Unclaimed
    BY <1>1, <1>2, <2>1, SoleIsReused
  <2>3. j \in write.claimed
    BY <1>1, <2>2, OldPositions
  <2>4. write.old[j] \in Taken(write)
    BY <1>1, <2>3 DEF Between, UnderWay, Results
  <2>5. PICK h \in 1 .. Len(write.result) : Same(write.old[j], write.vals[h])
    BY <1>1, <2>4, TakenIs DEF Between
  <2>6. /\ DOMAIN write.vals = 1 .. Len(write.vals)
        /\ Len(write.result) \in Nat /\ Len(write.vals) \in Nat
        /\ Len(write.result) + 1 <= Len(write.vals)
    BY <1>1, WriteParts, RoomLeft DEF Between
  <2>7. h \in 1 .. Len(write.vals) /\ h # Len(write.result) + 1
    BY <2>6
  <2> QED
    BY <2>1, <2>5, <2>6, <2>7
<1>6. {n} \cup {} = {n} /\ n \notin {}
  OBVIOUS
<1> QED
  BY <1>1, <1>2, <1>3, <1>4, <1>5, <1>6, TakeStep DEF Between

-----------------------------------------------------------------------------
(* A write ends *)

\* An item is in front of the write, behind it, or one of those it replaces.
LEMMA Parts ==
  ASSUME Typed, UnderWay(write, items, owner, index)
  PROVE  LET f == write.from
             rest == write.from + Len(write.old)
         IN /\ \A i \in 1 .. Len(items) :
                 \/ i \in 1 .. f - 1
                 \/ \E j \in 1 .. Len(write.old) : i = f + j - 1 /\ items[i] = write.old[j]
                 \/ i \in rest .. Len(items)
            /\ \A i \in (1 .. f - 1) \cup (rest .. Len(items)) :
                 /\ i \in 1 .. Len(items) /\ items[i] \in Node
                 /\ write.owner[items[i]] = "here" /\ write.index[items[i]] = i
                 /\ \A j \in 1 .. Len(write.old) : items[i] # write.old[j]
<1> DEFINE f == write.from
           d == Len(write.old)
           l == Len(items)
<1>1. f \in Nat /\ f >= 1 /\ d \in Nat /\ l \in Nat /\ items \in Seq(Node)
  BY WriteParts DEF Typed, UnderWay
<1>2. f + d <= l + 1 /\ \A j \in 1 .. d : write.old[j] = items[f + j - 1]
  BY DEF UnderWay, Slice
<1>3. \A i \in 1 .. l : write.owner[items[i]] = "here" /\ write.index[items[i]] = i
  BY DEF UnderWay, PlacedIn
<1>4. \A i \in 1 .. l : items[i] \in Node
  BY <1>1
<1> HIDE DEF f, d, l
<1>5. ASSUME NEW i \in 1 .. l
      PROVE  \/ i \in 1 .. f - 1
             \/ \E j \in 1 .. d : i = f + j - 1 /\ items[i] = write.old[j]
             \/ i \in f + d .. l
  <2>1. CASE i <= f - 1
    BY <1>1, <2>1
  <2>2. CASE i >= f + d
    BY <1>1, <2>2
  <2>3. CASE i > f - 1 /\ i < f + d
    <3> DEFINE j == i - f + 1
    <3>1. j \in 1 .. d /\ f + j - 1 = i
      BY <1>1, <2>3
    <3> HIDE DEF j
    <3>2. items[i] = write.old[j]
      BY <1>2, <3>1
    <3> QED
      BY <3>1, <3>2
  <2> QED
    BY <1>1, <2>1, <2>2, <2>3
<1>6. ASSUME NEW i \in (1 .. f - 1) \cup (f + d .. l)
      PROVE  /\ i \in 1 .. l /\ items[i] \in Node
             /\ write.owner[items[i]] = "here" /\ write.index[items[i]] = i
             /\ \A j \in 1 .. d : items[i] # write.old[j]
  <2>1. i \in 1 .. l
    BY <1>1, <1>2
  <2>2. ASSUME NEW j \in 1 .. d, items[i] = write.old[j]
        PROVE  FALSE
    <3> DEFINE h == f + j - 1
    <3>1. h \in 1 .. l /\ h # i
      BY <1>1, <1>2
    <3>2. items[i] = items[h]
      BY <1>2, <2>2
    <3> HIDE DEF h
    <3> QED
      BY <1>3, <2>1, <3>1, <3>2
  <2> QED
    BY <1>3, <1>4, <2>1, <2>2
<1> QED
  BY <1>5, <1>6 DEF f, d, l

\* What a write finishes with: what comes in, what is dropped, and who stays.
LEMMA WhoIsWhere ==
  ASSUME Typed, UnderWay(write, items, owner, index)
  PROVE  /\ Dropped \subseteq Node
         /\ \A n \in Dropped :
              /\ write.owner[n] = "here" /\ n \notin Taken(write)
              /\ \E j \in 1 .. Len(write.old) : n = write.old[j]
         /\ \A j \in 1 .. Len(write.old) :
              write.old[j] \in Dropped \/ write.old[j] \in Taken(write)
         /\ \A n \in Node :
              /\ write.owner[n] \in {"absent", "free"} /\ owner[n] = "here"
              \/ owner[n] = write.owner[n]
         /\ \A n \in Node : write.owner[n] # "here" /\ owner[n] = "here" => n \in Taken(write)
         /\ \A n \in Node : n \notin Taken(write) => index[n] = write.index[n]
<1>1. write \in Write
  BY DEF UnderWay
<1>2. Dropped = {write.old[j] : j \in {i \in 1 .. Len(write.old) : i \notin write.claimed}}
  BY <1>1, OldPositions DEF Dropped
<1>3. /\ \A j \in 1 .. Len(write.old) : write.old[j] \in Node /\ write.owner[write.old[j]] = "here"
      /\ \A i, j \in 1 .. Len(write.old) : write.old[i] = write.old[j] => i = j
  BY OldLivesHere DEF Typed
<1>4. ASSUME NEW n \in Dropped
      PROVE  n \notin Taken(write)
  <2>1. PICK j \in 1 .. Len(write.old) : j \notin write.claimed /\ n = write.old[j]
    BY <1>2
  <2>2. ASSUME n \in Taken(write)
        PROVE  FALSE
    <3>1. PICK i \in write.claimed : i \in 1 .. Len(write.old) /\ write.old[i] = n
      BY <1>3, <2>1, <2>2, TakenIs
    <3> QED
      BY <1>3, <2>1, <3>1
  <2> QED
    BY <2>2
<1>5. \A j \in write.claimed : write.old[j] \in Taken(write)
  BY DEF UnderWay, Results
<1>6. \A n \in Node : owner[n] = IF n \in New(write) THEN "here" ELSE write.owner[n]
  BY DEF UnderWay, Moved
<1>7. \A n \in New(write) : write.owner[n] \in {"absent", "free"} /\ n \in Taken(write)
  BY DEF UnderWay, Results, New
<1>8. \A n \in Node : n \notin Taken(write) => index[n] = write.index[n]
  BY DEF UnderWay, Moved
<1> QED
  BY <1>2, <1>3, <1>4, <1>5, <1>6, <1>7, <1>8

LEMMA FinishStep ==
  ASSUME IInv, Finish
  PROVE  /\ IInv' /\ Idle'
         /\ \A n \in Node :
              \/ owner'[n] = write.owner[n]
              \/ write.owner[n] \in {"absent", "free"} /\ owner'[n] = "here"
              \/ write.owner[n] = "here" /\ owner'[n] = "dead"
<1> DEFINE f == write.from
           d == Len(write.old)
           r == write.result
           l == Len(items)
           tail == {items[k] : k \in f + d .. l}
<1>1. Between /\ ~Idle /\ ~Pending
  BY DEF Finish, IInv, Between
<1>2. /\ owner' = [n \in Node |-> IF n \in Dropped THEN "dead" ELSE owner[n]]
      /\ index' = [n \in Node |->
           CASE n \in tail -> Behind(CHOOSE k \in f + d .. l : items[k] = n, d, Len(r))
             [] n \in Dropped -> 0
             [] OTHER -> index[n]]
      /\ items' = SubSeq(items, 1, f - 1) \o r \o SubSeq(items, f + d, l)
      /\ write' = NoWrite
  BY DEF Finish
<1>3. /\ items \in Seq(Node) /\ owner \in [Node -> Place] /\ index \in [Node -> 0 .. MaxLen]
      /\ write \in Write /\ l \in Nat
  BY <1>1 DEF Between, Typed, UnderWay
<1>4. /\ f \in Nat /\ f >= 1 /\ d \in Nat /\ r \in Seq(Node) /\ Len(r) \in Nat /\ MaxLen \in Nat
      /\ Len(write.vals) \in Nat
  BY <1>3, WriteParts, Apart
<1>5. f + d <= l + 1 /\ l + Len(write.vals) - d <= MaxLen /\ Len(r) <= Len(write.vals)
  BY <1>1 DEF Between, UnderWay, Slice
<1>6. l + Len(r) - d <= MaxLen
  <2> HIDE DEF f, d, r, l, tail
  <2> QED
    BY <1>3, <1>4, <1>5
<1>7. /\ items' \in Seq(Node) /\ Len(items') = l + Len(r) - d
      /\ \A i \in 1 .. f - 1 : items'[i] = items[i]
      /\ \A k \in 1 .. Len(r) : items'[f + k - 1] = r[k]
      /\ \A k \in f + d .. l : items'[k + Len(r) - d] = items[k]
      /\ \A i \in 1 .. Len(items') :
           \/ i \in 1 .. f - 1
           \/ i - f + 1 \in 1 .. Len(r)
           \/ i - Len(r) + d \in f + d .. l
  <2> DEFINE t == SubSeq(items, 1, f - 1) \o r \o SubSeq(items, f + d, l)
  <2>1. f \in Nat \ {0}
    BY <1>4
  <2>2. IsSplice(t, items, r, f, d)
    BY <1>3, <1>4, <1>5, <2>1, Spliced
  <2>3. items' = t
    BY <1>2
  <2> HIDE DEF t
  <2> QED
    BY <2>2, <2>3 DEF IsSplice
<1>8. /\ \A i \in 1 .. l :
           \/ i \in 1 .. f - 1
           \/ \E j \in 1 .. d : i = f + j - 1 /\ items[i] = write.old[j]
           \/ i \in f + d .. l
      /\ \A i \in (1 .. f - 1) \cup (f + d .. l) :
           /\ i \in 1 .. l /\ items[i] \in Node
           /\ write.owner[items[i]] = "here" /\ write.index[items[i]] = i
           /\ \A j \in 1 .. d : items[i] # write.old[j]
  BY <1>1, Parts DEF Between
<1>9. /\ Dropped \subseteq Node
      /\ \A n \in Dropped :
           /\ write.owner[n] = "here" /\ n \notin Taken(write)
           /\ \E j \in 1 .. d : n = write.old[j]
      /\ \A j \in 1 .. d : write.old[j] \in Dropped \/ write.old[j] \in Taken(write)
      /\ \A n \in Node :
           /\ write.owner[n] \in {"absent", "free"} /\ owner[n] = "here"
           \/ owner[n] = write.owner[n]
      /\ \A n \in Node : write.owner[n] # "here" /\ owner[n] = "here" => n \in Taken(write)
      /\ \A n \in Node : n \notin Taken(write) => index[n] = write.index[n]
  BY <1>1, WhoIsWhere DEF Between
<1>10. \A n \in Taken(write) :
         /\ n \in Node /\ owner[n] = "here"
         /\ write.owner[n] = "here" => \E j \in 1 .. d : n = write.old[j]
  BY <1>1, TakenIs DEF Between
<1>11. Taken(write) = {r[k] : k \in 1 .. Len(r)}
  BY DEF Taken
<1>12. \A k \in 1 .. Len(r) : index[r[k]] = f + k - 1
  BY <1>1 DEF Between, UnderWay, Moved
<1>13. \A i, j \in f + d .. l : items[i] = items[j] => i = j
  BY <1>8
<1> HIDE DEF f, d, r, l
<1>14. ASSUME NEW i \in (1 .. f - 1) \cup (f + d .. l)
       PROVE  /\ items[i] \notin Dropped /\ items[i] \notin Taken(write)
              /\ owner'[items[i]] = "here"
  BY <1>2, <1>8, <1>9, <1>10
<1>15. ASSUME NEW i \in 1 .. Len(items')
       PROVE  items'[i] \in Node /\ owner'[items'[i]] = "here" /\ index'[items'[i]] = i
  <2>1. CASE i \in 1 .. f - 1
    <3> DEFINE n == items[i]
    <3>1. items'[i] = n /\ n \in Node /\ n \notin Dropped /\ n \notin Taken(write)
          /\ owner'[n] = "here" /\ write.index[n] = i
      BY <1>7, <1>8, <1>14, <2>1
    <3>2. n \notin tail
      <4>1. ASSUME NEW k \in f + d .. l, n = items[k]
            PROVE  FALSE
        <5>1. write.index[items[k]] = k /\ k # i
          BY <1>3, <1>4, <1>8, <2>1
        <5> QED
          BY <3>1, <4>1, <5>1
      <4> QED
        BY <4>1
    <3>3. index[n] = i
      BY <1>9, <3>1
    <3> HIDE DEF n, tail
    <3>4. index'[n] = i
      BY <1>2, <3>1, <3>2, <3>3
    <3> QED
      BY <3>1, <3>4
  <2>2. CASE i - f + 1 \in 1 .. Len(r)
    <3> DEFINE k == i - f + 1
               n == r[k]
    <3>1. k \in 1 .. Len(r) /\ f + k - 1 = i
      BY <1>3, <1>4, <1>7, <2>2
    <3> HIDE DEF k
    <3>2. items'[i] = n /\ n \in Taken(write) /\ index[n] = i
      BY <1>7, <1>11, <1>12, <3>1
    <3>3. n \in Node /\ n \notin Dropped /\ owner[n] = "here"
      BY <1>9, <1>10, <3>2
    <3>4. n \notin tail
      BY <1>14, <3>2
    <3> HIDE DEF n, tail
    <3>5. index'[n] = i /\ owner'[n] = "here"
      BY <1>2, <3>2, <3>3, <3>4
    <3> QED
      BY <3>2, <3>3, <3>5
  <2>3. CASE i - Len(r) + d \in f + d .. l
    <3> DEFINE k == i - Len(r) + d
               n == items[k]
    <3>1. k \in f + d .. l /\ k + Len(r) - d = i
      BY <1>3, <1>4, <1>7, <2>3
    <3> HIDE DEF k
    <3>2. items'[i] = n /\ n \in Node /\ owner'[n] = "here"
      BY <1>7, <1>8, <1>14, <3>1
    <3>3. (CHOOSE h \in f + d .. l : items[h] = n) = k
      BY <1>13, <3>1
    <3>4. n \in tail
      BY <3>1
    <3> HIDE DEF n, tail
    <3>5. index'[n] = Behind(k, d, Len(r))
      BY <1>2, <3>2, <3>3, <3>4
    <3>6. index'[n] = i
      BY <3>1, <3>5 DEF Behind
    <3> QED
      BY <3>2, <3>6
  <2> QED
    BY <1>7, <2>1, <2>2, <2>3
<1>16. ASSUME NEW n \in Node, owner'[n] = "here"
       PROVE  \E i \in 1 .. Len(items') : items'[i] = n
  <2>1. n \notin Dropped /\ owner[n] = "here"
    BY <1>2, <1>16
  <2>2. CASE n \in Taken(write)
    <3>1. PICK k \in 1 .. Len(r) : r[k] = n
      BY <1>11, <2>2
    <3>2. f + k - 1 \in 1 .. Len(items')
      <4>1. Len(items') = l + Len(r) - d
        BY <1>7
      <4>2. f + k - 1 \in Nat /\ f + k - 1 >= 1 /\ f + k - 1 <= l + Len(r) - d
        BY <1>3, <1>4, <1>5
      <4> QED
        BY <1>3, <1>4, <4>1, <4>2
    <3> QED
      BY <1>7, <3>1, <3>2
  <2>3. CASE n \notin Taken(write)
    <3>1. write.owner[n] = "here"
      BY <1>9, <2>1, <2>3
    <3>2. PICK i \in 1 .. l : items[i] = n
      BY <1>1, <3>1 DEF Between, UnderWay, PlacedIn, l
    <3>3. ~ \E j \in 1 .. d : n = write.old[j]
      BY <1>9, <2>1, <2>3
    <3>4. CASE i \in 1 .. f - 1
      <4>1. i \in 1 .. Len(items')
        BY <1>3, <1>4, <1>5, <1>7, <3>4
      <4> QED
        BY <1>7, <3>2, <3>4, <4>1
    <3>5. CASE i \in f + d .. l
      <4>1. i + Len(r) - d \in 1 .. Len(items')
        BY <1>3, <1>4, <1>5, <1>7, <3>5
      <4> QED
        BY <1>7, <3>2, <3>5, <4>1
    <3> QED
      BY <1>8, <3>2, <3>3, <3>4, <3>5
  <2> QED
    BY <2>2, <2>3
<1>17. PlacedIn(items', owner', index')
  BY <1>15, <1>16 DEF PlacedIn
<1>18. Typed'
  <2>1. Len(items') <= MaxLen
    BY <1>6, <1>7
  <2>2. owner' \in [Node -> Place]
    BY <1>2, <1>3 DEF Place
  <2>3. ASSUME NEW n \in Node
        PROVE  index'[n] \in 0 .. MaxLen
    <3>1. CASE n \in tail
      <4>1. PICK k \in f + d .. l : n = items[k]
        BY <3>1
      <4>2. owner'[n] = "here"
        BY <1>14, <4>1
      <4>3. PICK i \in 1 .. Len(items') : items'[i] = n
        BY <1>16, <4>2
      <4>4. index'[n] = i
        BY <1>15, <4>3
      <4> QED
        BY <1>3, <1>4, <1>7, <2>1, <4>4
    <3>2. CASE n \notin tail
      <4> HIDE DEF tail
      <4>1. index'[n] = IF n \in Dropped THEN 0 ELSE index[n]
        BY <1>2, <3>2
      <4> QED
        BY <1>3, <1>4, <4>1
    <3> QED
      BY <3>1, <3>2
  <2>4. index' \in [Node -> 0 .. MaxLen]
    <3> HIDE DEF tail
    <3> QED
      BY <1>2, <2>3
  <2> QED
    BY <1>7, <2>1, <2>2, <2>4 DEF Typed
<1>19. Idle' /\ IInv'
  BY <1>2, <1>17, <1>18 DEF IInv, Idle
<1>20. ASSUME NEW n \in Node
       PROVE  \/ owner'[n] = write.owner[n]
              \/ write.owner[n] \in {"absent", "free"} /\ owner'[n] = "here"
              \/ write.owner[n] = "here" /\ owner'[n] = "dead"
  BY <1>2, <1>9
<1> QED
  BY <1>19, <1>20

LEMMA RefuseStep ==
  ASSUME IInv, Refuse
  PROVE  /\ IInv' /\ Idle' /\ items' = items
         /\ \A n \in Node :
              \/ owner'[n] = write.owner[n]
              \/ write.owner[n] = "absent" /\ owner'[n] = "dead"
<1>1. Between /\ Pending /\ Throws
  BY PendingIsBetween DEF Refuse
<1>2. /\ owner' = [n \in Node |-> CASE n \in write.built -> "dead"
                                     [] n \in Released(write.adopted) -> "free"
                                     [] OTHER -> owner[n]]
      /\ index' = [n \in Node |-> IF n \in write.built \cup Released(write.adopted) THEN 0 ELSE index[n]]
      /\ write' = NoWrite /\ items' = items
  BY DEF Refuse
<1>3. Len(write.old) = 0 /\ 1 .. 0 = {}
  BY <1>1, OnlyInsertionsThrow DEF Between
<1>4. /\ \A n \in write.built : write.owner[n] = "absent"
      /\ \A n \in write.adopted : write.owner[n] = "free"
      /\ \A n \in Taken(write) : n \in New(write)
      /\ \A n \in Node : owner[n] = IF n \in New(write) THEN "here" ELSE write.owner[n]
      /\ \A n \in Node : n \notin Taken(write) => index[n] = write.index[n]
      /\ New(write) = write.built \cup write.adopted
  <2>1. \A n \in Taken(write) : n \in New(write)
    BY <1>1, <1>3 DEF Between, UnderWay, Results, Taken
  <2> QED
    BY <1>1, <2>1 DEF Between, UnderWay, Results, Moved, New
<1>5. PlacedIn(items, write.owner, write.index) /\ items \in Seq(Node)
      /\ \A i \in 1 .. Len(items) : items[i] \in Node
  BY <1>1 DEF Between, UnderWay, Typed
<1>6. \A i \in 1 .. Len(items) : write.owner[items[i]] = "here"
  BY <1>5 DEF PlacedIn
<1>7. DOMAIN items = 1 .. Len(items) /\ Range(items) = {items[i] : i \in 1 .. Len(items)}
  BY <1>5 DEF Range
<1>8. Released(write.adopted) = write.adopted \ write.built
      \/ \A n \in Node : n \in Released(write.adopted) <=> n \in write.adopted
  <2>1. \A n \in write.adopted : n \notin Range(items)
    BY <1>4, <1>6, <1>7
  <2>2. \A n \in Node : n \in write.adopted => owner[n] = "here"
    BY <1>4
  <2> QED
    BY <2>1, <2>2 DEF Released
<1>9. \A n \in Node :
        owner'[n] = IF n \in write.built THEN "dead" ELSE write.owner[n]
  BY <1>2, <1>4, <1>8
<1>10. \A n \in Node : write.owner[n] = "here" => index'[n] = write.index[n]
  BY <1>2, <1>4, <1>8
<1>11. PlacedIn(items, owner', index')
  <2>1. \A i \in 1 .. Len(items) : owner'[items[i]] = "here" /\ index'[items[i]] = i
    BY <1>4, <1>5, <1>9, <1>10 DEF PlacedIn
  <2>2. \A n \in Node : owner'[n] = "here" => \E i \in 1 .. Len(items) : items[i] = n
    BY <1>5, <1>9 DEF PlacedIn
  <2> QED
    BY <2>1, <2>2 DEF PlacedIn
<1>12. Typed'
  <2>1. Typed /\ MaxLen \in Nat
    BY <1>1, Apart DEF Between
  <2>2. owner' \in [Node -> Place]
    BY <1>2, <2>1 DEF Typed, Place
  <2>3. index' \in [Node -> 0 .. MaxLen]
    BY <1>2, <2>1 DEF Typed
  <2> QED
    BY <1>2, <2>1, <2>2, <2>3 DEF Typed
<1>13. Idle' /\ IInv'
  BY <1>2, <1>11, <1>12 DEF IInv, Idle
<1> QED
  BY <1>2, <1>4, <1>9, <1>13

-----------------------------------------------------------------------------
(* Between writes *)

LEMMA IdlePlaced == IInv /\ Idle => Typed /\ PlacedIn(items, owner, index)
BY DEF IInv

LEMMA DetachStep ==
  ASSUME IInv, NEW n \in Node, Detach(n)
  PROVE  /\ IInv' /\ Idle' /\ Idle
         /\ owner[n] = "here" /\ owner'[n] = "free" /\ \A m \in Node : m # n => owner'[m] = owner[m]
         /\ \E k \in 1 .. Len(items) :
              /\ items[k] = n
              /\ items' = SubSeq(items, 1, k - 1) \o SubSeq(items, k + 1, Len(items))
<1> DEFINE k == index[n]
           l == Len(items)
           hit == {items[j] : j \in {k} \cap DOMAIN items}
           tail == {items[j] : j \in k + 1 .. l}
<1>1. Idle /\ owner[n] = "here" /\ Typed /\ PlacedIn(items, owner, index)
  BY IdlePlaced DEF Detach
<1>2. /\ owner' = [m \in Node |-> CASE m = n -> "free"
                                     [] m \in hit \ {n} -> "dead"
                                     [] OTHER -> owner[m]]
      /\ index' = [m \in Node |-> CASE m \in hit \cup {n} -> 0
                                     [] m \in tail \ {n} -> index[m] - 1
                                     [] OTHER -> index[m]]
      /\ items' = IF hit = {} THEN items ELSE RemoveAt(items, k)
      /\ write' = write
  BY DEF Detach
<1>3. /\ items \in Seq(Node) /\ l \in Nat /\ l <= MaxLen /\ MaxLen \in Nat
      /\ owner \in [Node -> Place] /\ index \in [Node -> 0 .. MaxLen]
      /\ DOMAIN items = 1 .. l /\ \A i \in 1 .. l : items[i] \in Node
  BY <1>1, Apart DEF Typed
<1>4. /\ \A i \in 1 .. l : owner[items[i]] = "here" /\ index[items[i]] = i
      /\ \A m \in Node : owner[m] = "here" => \E i \in 1 .. l : items[i] = m
  BY <1>1 DEF PlacedIn
<1>5. k \in 1 .. l /\ items[k] = n
  BY <1>1, <1>4
<1>6. hit = {n}
  BY <1>3, <1>5
<1>7. items' = SubSeq(items, 1, k - 1) \o SubSeq(items, k + 1, l)
  BY <1>2, <1>6 DEF RemoveAt
<1> HIDE DEF hit
<1>8. /\ \A m \in Node : owner'[m] = IF m = n THEN "free" ELSE owner[m]
      /\ \A m \in Node : index'[m] = IF m = n THEN 0
                                    ELSE IF m \in tail THEN index[m] - 1 ELSE index[m]
  <2> HIDE DEF tail, k
  <2> QED
    BY <1>2, <1>6
<1>9. ASSUME NEW m \in tail
      PROVE  index[m] \in k + 1 .. l /\ items[index[m]] = m
  <2>1. PICK j \in k + 1 .. l : items[j] = m
    OBVIOUS
  <2>2. j \in 1 .. l
    BY <1>3, <1>5
  <2> QED
    BY <1>4, <2>1, <2>2
<1>10. \A i \in k + 1 .. l : items[i] \in tail
  OBVIOUS
<1> HIDE DEF tail, k, l
<1>11. /\ items' \in Seq(Node) /\ Len(items') = l - 1
       /\ \A i \in 1 .. k - 1 : items'[i] = items[i]
       /\ \A i \in k + 1 .. l : items'[i - 1] = items[i]
       /\ \A i \in 1 .. l - 1 : i \in 1 .. k - 1 \/ i + 1 \in k + 1 .. l
  <2>1. IsRemoval(items', items, k)
    BY <1>3, <1>5, <1>7, Removed DEF l
  <2> QED
    BY <2>1 DEF IsRemoval, l
<1>12. ASSUME NEW i \in 1 .. l - 1
       PROVE  owner'[items'[i]] = "here" /\ index'[items'[i]] = i
  <2>1. CASE i \in 1 .. k - 1
    <3>1. i \in 1 .. l /\ items'[i] = items[i] /\ i # k /\ i \notin k + 1 .. l
      BY <1>3, <1>5, <1>11, <2>1
    <3>2. items[i] \in Node /\ items[i] # n /\ items[i] \notin tail
      BY <1>3, <1>4, <1>5, <1>9, <3>1
    <3> QED
      BY <1>4, <1>8, <3>1, <3>2
  <2>2. CASE i + 1 \in k + 1 .. l
    <3> DEFINE h == i + 1
    <3>1. h \in 1 .. l /\ h # k /\ h \in k + 1 .. l /\ h - 1 = i
      BY <1>3, <1>5, <2>2
    <3> HIDE DEF h
    <3>2. items'[i] = items[h] /\ items[h] \in Node /\ items[h] # n /\ items[h] \in tail
      BY <1>3, <1>4, <1>5, <1>10, <1>11, <3>1
    <3> QED
      BY <1>4, <1>8, <3>1, <3>2
  <2> QED
    BY <1>11, <2>1, <2>2
<1>13. ASSUME NEW m \in Node, owner'[m] = "here"
       PROVE  \E i \in 1 .. l - 1 : items'[i] = m
  <2>1. m # n /\ owner[m] = "here"
    BY <1>8, <1>13
  <2>2. PICK i \in 1 .. l : items[i] = m
    BY <1>4, <2>1
  <2>3. CASE i \in 1 .. k - 1
    <3>1. i \in 1 .. l - 1
      BY <1>3, <1>5, <2>3
    <3> QED
      BY <1>11, <2>2, <2>3, <3>1
  <2>4. CASE i \in k + 1 .. l
    <3>1. i - 1 \in 1 .. l - 1
      BY <1>3, <1>5, <2>4
    <3> QED
      BY <1>11, <2>2, <2>4, <3>1
  <2> QED
    BY <1>3, <1>5, <2>1, <2>2, <2>3, <2>4
<1>14. PlacedIn(items', owner', index')
  BY <1>11, <1>12, <1>13 DEF PlacedIn
<1>15. Typed'
  <2>1. owner' \in [Node -> Place]
    BY <1>2, <1>3 DEF Place
  <2>2. \A m \in Node : index'[m] \in 0 .. MaxLen
    BY <1>3, <1>5, <1>8, <1>9
  <2>3. index' \in [Node -> 0 .. MaxLen]
    BY <1>2, <2>2
  <2>4. Len(items') <= MaxLen
    BY <1>3, <1>11
  <2> QED
    BY <1>11, <2>1, <2>3, <2>4 DEF Typed
<1>16. Idle' /\ IInv'
  BY <1>1, <1>2, <1>14, <1>15 DEF IInv, Idle
<1> QED
  BY <1>1, <1>5, <1>7, <1>8, <1>16 DEF l

LEMMA ElsewhereStep ==
  ASSUME IInv, NEW n \in Node, Elsewhere(n)
  PROVE  /\ IInv' /\ Idle' /\ Idle /\ items' = items
         /\ owner[n] \in {"absent", "free", "there"} /\ owner'[n] \in {"free", "there"}
         /\ owner'[n] # owner[n]
         /\ \A m \in Node : m # n => owner'[m] = owner[m]
<1>1. Idle /\ Typed /\ PlacedIn(items, owner, index) /\ UNCHANGED <<items, index, write>>
  BY IdlePlaced DEF Elsewhere
<1>2. owner \in [Node -> Place] /\ items \in Seq(Node)
  BY <1>1 DEF Typed
<1>3. /\ owner[n] \in {"absent", "free", "there"} /\ owner'[n] \in {"free", "there"}
      /\ owner'[n] # owner[n]
      /\ \A m \in Node : m # n => owner'[m] = owner[m]
      /\ owner' \in [Node -> Place]
  BY <1>2 DEF Elsewhere, Place
<1>4. \A i \in 1 .. Len(items) : items[i] \in Node /\ items[i] # n
  BY <1>1, <1>2, <1>3 DEF PlacedIn
<1>5. PlacedIn(items', owner', index')
  BY <1>1, <1>3, <1>4 DEF PlacedIn
<1> QED
  BY <1>1, <1>3, <1>5 DEF IInv, Typed, Idle

-----------------------------------------------------------------------------
(* The invariant *)

LEMMA InitHolds == Init => IInv
<1> SUFFICES ASSUME Init PROVE IInv
  OBVIOUS
<1>1. /\ items = <<>> /\ owner = [n \in Node |-> "absent"] /\ index = [n \in Node |-> 0]
      /\ write = NoWrite /\ MaxLen \in Nat
  BY Apart DEF Init
<1>2. Len(items) = 0 /\ items \in Seq(Node) /\ 1 .. 0 = {}
  BY <1>1
<1>3. Typed
  BY <1>1, <1>2 DEF Typed, Place
<1>4. PlacedIn(items, owner, index)
  BY <1>1, <1>2 DEF PlacedIn
<1> QED
  BY <1>1, <1>3, <1>4 DEF IInv, Idle

LEMMA NextHolds ==
  ASSUME IInv, Doomed = {}, [Next]_vars
  PROVE  IInv'
<1>1. CASE Splice
  BY <1>1, SpliceStep
<1>2. CASE Reuse
  BY <1>2, ReuseStep
<1>3. CASE Adopt
  BY <1>3, AdoptStep
<1>4. CASE \E n \in Node : Build(n)
  BY <1>4, BuildStep
<1>5. CASE Refuse
  BY <1>5, RefuseStep
<1>6. CASE Finish
  BY <1>6, FinishStep
<1>7. CASE \E n \in Node : Detach(n)
  BY <1>7, DetachStep
<1>8. CASE \E n \in Node : Elsewhere(n)
  BY <1>8, ElsewhereStep
<1>9. CASE UNCHANGED vars
  BY <1>9 DEF vars, IInv, Typed, Idle
<1> QED
  BY <1>1, <1>2, <1>3, <1>4, <1>5, <1>6, <1>7, <1>8, <1>9 DEF Next

LEMMA Invariant ==
  ASSUME Doomed = {}
  PROVE  Spec => []IInv
<1>1. Init => IInv
  BY InitHolds
<1>2. IInv /\ [Next]_vars => IInv'
  BY NextHolds
<1> QED
  BY <1>1, <1>2, PTL DEF Spec

\* Between writes the nodes that have the array for parent are its items, each
\* under the subpath of its position: whatever a write kept, reordered, built,
\* adopted or dropped (ArrayType.willChange), and whatever it had to undo.
THEOREM ItemsAndNodesAgree ==
  ASSUME Doomed = {}
  PROVE  Spec => []Placed
<1>1. IInv => Placed
  <2> SUFFICES ASSUME IInv, Idle
               PROVE  /\ \A i \in DOMAIN items : owner[items[i]] = "here" /\ index[items[i]] = i
                      /\ \A n \in Node : owner[n] = "here" => n \in Range(items)
    BY DEF Placed
  <2>1. Typed /\ PlacedIn(items, owner, index)
    BY IdlePlaced
  <2>2. DOMAIN items = 1 .. Len(items) /\ Range(items) = {items[i] : i \in 1 .. Len(items)}
    BY <2>1 DEF Typed, Range
  <2> QED
    BY <2>1, <2>2 DEF PlacedIn
<1> QED
  BY <1>1, Invariant, PTL

\* A value that names one old node, which no other value names, keeps that node,
\* wherever it stands among the values (reconcileArrayChildren).
THEOREM NamedNodesAreKept ==
  ASSUME Doomed = {}
  PROVE  Spec => []IdentityKept
<1>1. IInv => IdentityKept
  <2> SUFFICES ASSUME IInv, ~Idle
               PROVE  \A k \in DOMAIN write.result, j \in DOMAIN write.old :
                        Kept(write.old, write.vals, k, j) => write.result[k] = write.old[j]
    BY DEF IdentityKept
  <2>1. KeptSoFar(write) /\ write \in Write
    BY DEF IInv, UnderWay
  <2>2. /\ DOMAIN write.result = 1 .. Len(write.result)
        /\ DOMAIN write.old = 1 .. Len(write.old)
    BY <2>1, WriteParts
  <2> QED
    BY <2>1, <2>2 DEF KeptSoFar
<1> QED
  BY <1>1, Invariant, PTL

-----------------------------------------------------------------------------
(* The refinement *)

\* Where the nodes are, seen between writes.
Seen == IF Idle THEN owner ELSE write.owner

LEMMA ListSteps ==
  ASSUME IInv, Doomed = {}, [Next]_vars
  PROVE  [List!Next]_<<items, Seen>>
<1>1. CASE Splice
  <2>1. Seen' = Seen /\ items' = items
    BY <1>1, SpliceStep DEF Seen, Splice
  <2> QED
    BY <2>1
<1>2. ASSUME IInv', write'.owner = write.owner, ~Idle', ~Idle, items' = items
      PROVE  Seen' = Seen /\ items' = items
  BY <1>2 DEF Seen
<1>3. CASE Reuse
  <2>1. ~Idle /\ items' = items
    BY <1>3 DEF Reuse, Pending, Take
  <2> QED
    BY <1>2, <1>3, <2>1, ReuseStep
<1>4. CASE Adopt
  <2>1. ~Idle /\ items' = items
    BY <1>4 DEF Adopt, Pending, Take
  <2> QED
    BY <1>2, <1>4, <2>1, AdoptStep
<1>5. CASE \E n \in Node : Build(n)
  <2>1. ~Idle /\ items' = items
    BY <1>5 DEF Build, Pending, Take
  <2> QED
    BY <1>2, <1>5, <2>1, BuildStep
<1>6. CASE Refuse
  <2>1. ~Idle
    BY <1>6 DEF Refuse, Pending
  <2>2. /\ Idle' /\ items' = items
        /\ \A n \in Node :
             \/ owner'[n] = write.owner[n]
             \/ write.owner[n] = "absent" /\ owner'[n] = "dead"
    BY <1>6, RefuseStep
  <2>3. Seen = write.owner /\ Seen' = owner'
    BY <2>1, <2>2 DEF Seen
  <2>4. List!Refuse
    BY <2>2, <2>3 DEF List!Refuse, List!Moved, List!Changes, Seen
  <2> QED
    BY <2>4 DEF List!Next
<1>7. CASE Finish
  <2>1. ~Idle
    BY <1>7 DEF Finish
  <2>2. /\ Idle' /\ IInv'
        /\ \A n \in Node :
             \/ owner'[n] = write.owner[n]
             \/ write.owner[n] \in {"absent", "free"} /\ owner'[n] = "here"
             \/ write.owner[n] = "here" /\ owner'[n] = "dead"
    BY <1>7, FinishStep
  <2>3. Seen = write.owner /\ Seen' = owner'
    BY <2>1, <2>2 DEF Seen
  <2>4. PlacedIn(items', owner', index') /\ items' \in Seq(Node)
    BY <2>2 DEF IInv, Typed, Idle
  <2>5. \A i, j \in 1 .. Len(items') : items'[i] = items'[j] => i = j
    BY <2>4, PlacedIsInjective
  <2>6. DOMAIN items' = 1 .. Len(items') /\ \A i \in 1 .. Len(items') : items'[i] \in Node
    BY <2>4
  <2>7. List!IsInjective(items')
    BY <2>5, <2>6 DEF List!IsInjective
  <2>8. {n \in Node : Seen'[n] = "here"} = List!Range(items')
    BY <2>3, <2>4, <2>6 DEF PlacedIn, List!Range
  <2>9. List!Moved \subseteq List!Changes({"absent", "free"}, "here") \cup List!Changes({"here"}, "dead")
    BY <2>2, <2>3 DEF List!Moved, List!Changes, Seen
  <2>10. List!Write
    BY <2>7, <2>8, <2>9 DEF List!Write, Seen
  <2> QED
    BY <2>10 DEF List!Next
<1>8. CASE \E n \in Node : Detach(n)
  <2>1. PICK n \in Node : Detach(n)
    BY <1>8
  <2>2. /\ Idle' /\ Idle
        /\ owner[n] = "here" /\ owner'[n] = "free"
        /\ \A m \in Node : m # n => owner'[m] = owner[m]
        /\ \E k \in 1 .. Len(items) :
             /\ items[k] = n
             /\ items' = SubSeq(items, 1, k - 1) \o SubSeq(items, k + 1, Len(items))
    BY <2>1, DetachStep
  <2>3. Seen = owner /\ Seen' = owner' /\ DOMAIN items = 1 .. Len(items)
    BY <2>2 DEF Seen, IInv, Typed
  <2>4. List!Moved = {n}
    BY <2>2, <2>3 DEF List!Moved, Seen
  <2>5. List!Detach
    BY <2>2, <2>3, <2>4 DEF List!Detach
  <2> QED
    BY <2>5 DEF List!Next
<1>9. CASE \E n \in Node : Elsewhere(n)
  <2>1. PICK n \in Node : Elsewhere(n)
    BY <1>9
  <2>2. /\ Idle' /\ Idle /\ items' = items
        /\ owner[n] \in {"absent", "free", "there"} /\ owner'[n] \in {"free", "there"}
        /\ owner'[n] # owner[n]
        /\ \A m \in Node : m # n => owner'[m] = owner[m]
    BY <2>1, ElsewhereStep
  <2>3. List!Moved = {n}
    BY <2>2 DEF List!Moved
  <2>4. List!Others
    BY <2>2, <2>3 DEF List!Others
  <2> QED
    BY <2>4 DEF List!Next
<1>10. CASE UNCHANGED vars
  BY <1>10 DEF vars, Seen, Idle
<1> QED
  BY <1>1, <1>3, <1>4, <1>5, <1>6, <1>7, <1>8, <1>9, <1>10 DEF Next

\* Seen between writes, an array is an AtomicList: each node is in it once, a
\* write takes effect as a whole or not at all, and what it drops dies.
THEOREM ArrayIsAtomic ==
  ASSUME Doomed = {}
  PROVE  Spec => ImplementsList
<1>1. Init => List!Init
  BY DEF Init, List!Init, Idle
<1>2. IInv /\ [Next]_vars => [List!Next]_<<items, IF Idle THEN owner ELSE write.owner>>
  BY ListSteps DEF Seen
<1> QED
  BY <1>1, <1>2, Invariant, PTL DEF Spec, ImplementsList, List!Spec
=============================================================================
