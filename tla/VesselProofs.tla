----------------------------- MODULE VesselProofs -----------------------------
(***************************************************************************)
(* Proofs about Vessel.tla.  The engine keeps its invariant inside a run,  *)
(* whatever the Scheduler, the policies and the caller do to it; and with  *)
(* it a run keeps its types, attempts a leaf only after what it has to     *)
(* wait for, and accounts for every attempt.                               *)
(***************************************************************************)
EXTENDS Vessel, CarouselProofs, FiniteSetTheorems, SequenceTheorems

USE DEF OccurrenceTypes, RegisteredOnce, LeadUp, Composed, InSeries, Dependent

-----------------------------------------------------------------------------
(* The timeline.                                                           *)

\* What the timeline holds.
Item == [at : Nat, kind : {"completion", "backoff", "timer"}, occ : Occ, no : 0..MaxAttempts,
         status : Statuses \cup {"none"}, out : {"value", "NoOutput", "unresolved"}]

\* Insert puts the item somewhere between the others, which keep their order.
LEMMA InsertFacts ==
  ASSUME NEW tl \in Seq(Item), NEW item \in Item
  PROVE  /\ Insert(tl, item) \in Seq(Item)
         /\ \E n \in 0..Len(tl) :
              /\ Len(Insert(tl, item)) = Len(tl) + 1
              /\ \A i \in 1..n : Insert(tl, item)[i] = tl[i]
              /\ Insert(tl, item)[n + 1] = item
              /\ \A i \in (n + 2)..(Len(tl) + 1) : Insert(tl, item)[i] = tl[i - 1]
<1> DEFINE S == {i \in DOMAIN tl : tl[i].at <= item.at}
           n == Cardinality(S)
           ins == SubSeq(tl, 1, n) \o <<item>> \o SubSeq(tl, n + 1, Len(tl))
<1>1. n \in 0..Len(tl)
  <2>0. DOMAIN tl = 1..Len(tl) /\ Len(tl) \in Nat
    BY LenProperties
  <2>1. S \in SUBSET (1..Len(tl))
    <3>1. S \subseteq DOMAIN tl
      OBVIOUS
    <3> HIDE DEF S
    <3>2. QED
      BY <2>0, <3>1
  <2> HIDE DEF S
  <2>2. IsFiniteSet(1..Len(tl)) /\ Cardinality(1..Len(tl)) = Len(tl)
    <3>1. PICK k \in Nat : k = Len(tl)
      BY <2>0
    <3>2. /\ IsFiniteSet(1..k)
          /\ Cardinality(1..k) = IF 1 > k THEN 0 ELSE k - 1 + 1
      BY FS_Interval
    <3>3. Cardinality(1..k) = k
      BY <3>2
    <3>4. QED
      BY <3>1, <3>2, <3>3
  <2>3. IsFiniteSet(S) /\ Cardinality(S) <= Cardinality(1..Len(tl))
    BY <2>1, <2>2, FS_Subset
  <2>4. Cardinality(S) \in Nat
    BY <2>3, FS_CardinalityType
  <2>5. QED
    BY <2>0, <2>2, <2>3, <2>4
<1>2. Insert(tl, item) = ins
  BY DEF Insert
<1> HIDE DEF n
<1>3. /\ ins \in Seq(Item) /\ Len(ins) = Len(tl) + 1
      /\ \A i \in 1..n : ins[i] = tl[i]
      /\ ins[n + 1] = item
      /\ \A i \in (n + 2)..(Len(tl) + 1) : ins[i] = tl[i - 1]
  <2> DEFINE a == SubSeq(tl, 1, n)
             b == SubSeq(tl, n + 1, Len(tl))
  <2>1. /\ a \in Seq(Item) /\ Len(a) = n
        /\ \A i \in 1..n : a[i] = tl[i]
    BY <1>1
  <2>2. /\ b \in Seq(Item) /\ Len(b) = Len(tl) - n
        /\ \A i \in 1..(Len(tl) - n) : b[i] = tl[n + i]
    BY <1>1
  <2> HIDE DEF a, b
  <2>3. /\ a \o <<item>> \in Seq(Item) /\ Len(a \o <<item>>) = n + 1
        /\ \A i \in 1..n : (a \o <<item>>)[i] = a[i]
        /\ (a \o <<item>>)[n + 1] = item
    BY <1>1, <2>1
  <2>4. /\ (a \o <<item>>) \o b \in Seq(Item)
        /\ Len((a \o <<item>>) \o b) = Len(tl) + 1
        /\ \A i \in 1..(n + 1) : ((a \o <<item>>) \o b)[i] = (a \o <<item>>)[i]
        /\ \A i \in (n + 2)..(Len(tl) + 1) : ((a \o <<item>>) \o b)[i] = b[i - (n + 1)]
    <3> DEFINE c == a \o <<item>>
    <3> HIDE DEF c
    <3>1. c \in Seq(Item) /\ Len(c) = n + 1
      BY <2>3 DEF c
    <3>2. /\ c \o b \in Seq(Item) /\ Len(c \o b) = Len(tl) + 1
          /\ \A i \in 1..(n + 1) : (c \o b)[i] = c[i]
          /\ \A i \in (n + 2)..(Len(tl) + 1) : (c \o b)[i] = b[i - (n + 1)]
      BY <1>1, <2>2, <3>1
    <3>3. QED
      BY <3>2 DEF c
  <2>5. ins = (a \o <<item>>) \o b
    BY DEF a, b
  <2>6. \A i \in (n + 2)..(Len(tl) + 1) : b[i - (n + 1)] = tl[i - 1]
    BY <1>1, <2>2
  <2>7. \A i \in 1..n : i \in 1..(n + 1)
    BY <1>1
  <2> HIDE DEF ins
  <2>8. n + 1 \in 1..(n + 1)
    BY <1>1
  <2>9. ins \in Seq(Item) /\ Len(ins) = Len(tl) + 1
    BY <2>4, <2>5
  <2>10. \A i \in 1..n : ins[i] = tl[i]
    BY <2>1, <2>3, <2>4, <2>5, <2>7
  <2>11. ins[n + 1] = item
    BY <2>3, <2>4, <2>5, <2>8
  <2>12. \A i \in (n + 2)..(Len(tl) + 1) : ins[i] = tl[i - 1]
    BY <2>4, <2>5, <2>6
  <2>13. QED
    BY <2>9, <2>10, <2>11, <2>12
<1>4. QED
  BY <1>1, <1>2, <1>3

\* Where an item was before another took the place p, and where it is then.
Old(p, i) == IF i < p THEN i ELSE i - 1
New(p, k) == IF k < p THEN k ELSE k + 1

\* The same, seen from the new sequence: it is the item at one place p, and
\* the items of tl, one each, at the others.
LEMMA InsertPlaces ==
  ASSUME NEW tl \in Seq(Item), NEW item \in Item
  PROVE  /\ Insert(tl, item) \in Seq(Item)
         /\ \E p \in DOMAIN Insert(tl, item) :
              /\ Insert(tl, item)[p] = item
              /\ \A i \in DOMAIN Insert(tl, item) \ {p} :
                   Old(p, i) \in DOMAIN tl /\ Insert(tl, item)[i] = tl[Old(p, i)]
              /\ \A k \in DOMAIN tl :
                   /\ New(p, k) \in DOMAIN Insert(tl, item) \ {p}
                   /\ Insert(tl, item)[New(p, k)] = tl[k]
<1> DEFINE ins == Insert(tl, item)
<1>1. PICK n \in 0..Len(tl) :
        /\ ins \in Seq(Item) /\ Len(ins) = Len(tl) + 1
        /\ \A i \in 1..n : ins[i] = tl[i]
        /\ ins[n + 1] = item
        /\ \A i \in (n + 2)..(Len(tl) + 1) : ins[i] = tl[i - 1]
  BY InsertFacts
<1> HIDE DEF ins
<1>2. DOMAIN ins = 1..(Len(tl) + 1) /\ DOMAIN tl = 1..Len(tl) /\ Len(tl) \in Nat
  BY <1>1
<1>3. n + 1 \in DOMAIN ins
  BY <1>2
<1>4. \A i \in DOMAIN ins \ {n + 1} :
        Old(n + 1, i) \in DOMAIN tl /\ ins[i] = tl[Old(n + 1, i)]
  BY <1>1, <1>2 DEF Old
<1>5. \A k \in DOMAIN tl :
        New(n + 1, k) \in DOMAIN ins \ {n + 1} /\ ins[New(n + 1, k)] = tl[k]
  <2> SUFFICES ASSUME NEW k \in DOMAIN tl
               PROVE  New(n + 1, k) \in DOMAIN ins \ {n + 1} /\ ins[New(n + 1, k)] = tl[k]
    OBVIOUS
  <2>1. CASE k < n + 1
    BY <1>1, <1>2, <2>1 DEF New
  <2>2. CASE ~(k < n + 1)
    <3>1. k + 1 \in (n + 2)..(Len(tl) + 1) /\ (k + 1) - 1 = k
      BY <1>1, <1>2, <2>2
    <3>2. ins[k + 1] = tl[k]
      BY <1>1, <3>1
    <3>3. QED
      BY <1>2, <2>2, <3>1, <3>2 DEF New
  <2>3. QED
    BY <2>1, <2>2
<1>6. QED
  BY <1>1, <1>3, <1>4, <1>5 DEF ins

\* The completions ahead and the attempts in flight are the same ones: every
\* attempt has exactly one completion coming, and no completion comes twice.
Completes(e, a) == e.kind = "completion" /\ e.occ = a.leaf /\ e.no = a.no

Matches(tl, fl) ==
  /\ \A i \in DOMAIN tl : tl[i].kind = "completion" => \E a \in fl : Completes(tl[i], a)
  /\ \A i, j \in DOMAIN tl :
       tl[i].kind = "completion" /\ tl[j].kind = "completion" /\ tl[i].occ = tl[j].occ => i = j
  /\ \A a \in fl : \E i \in DOMAIN tl : Completes(tl[i], a)

\* A wakeup or a timer leaves the completions alone.
LEMMA InsertWakeup ==
  ASSUME NEW tl \in Seq(Item), NEW item \in Item, NEW fl, Matches(tl, fl), item.kind # "completion"
  PROVE  Insert(tl, item) \in Seq(Item) /\ Matches(Insert(tl, item), fl)
<1> DEFINE ins == Insert(tl, item)
<1>1. PICK p \in DOMAIN ins :
        /\ ins[p] = item
        /\ \A i \in DOMAIN ins \ {p} : Old(p, i) \in DOMAIN tl /\ ins[i] = tl[Old(p, i)]
        /\ \A k \in DOMAIN tl : New(p, k) \in DOMAIN ins \ {p} /\ ins[New(p, k)] = tl[k]
  BY InsertPlaces
<1>2. ins \in Seq(Item)
  BY InsertPlaces
<1> HIDE DEF ins
<1>3. DOMAIN ins \subseteq Nat
  <2>1. DOMAIN ins = 1..Len(ins) /\ Len(ins) \in Nat
    BY <1>2, LenProperties
  <2>2. QED
    BY <2>1
<1>4. \A i, j \in DOMAIN ins \ {p} : Old(p, i) = Old(p, j) => i = j
  BY <1>3 DEF Old
<1>5. \A i \in DOMAIN ins : ins[i].kind = "completion" => i # p
  BY <1>1
<1>6. \A i \in DOMAIN ins : ins[i].kind = "completion" => \E a \in fl : Completes(ins[i], a)
  BY <1>1, <1>5 DEF Matches
<1>7. \A i, j \in DOMAIN ins :
        ins[i].kind = "completion" /\ ins[j].kind = "completion" /\ ins[i].occ = ins[j].occ => i = j
  <2> SUFFICES ASSUME NEW i \in DOMAIN ins, NEW j \in DOMAIN ins, ins[i].kind = "completion",
                      ins[j].kind = "completion", ins[i].occ = ins[j].occ
               PROVE  i = j
    OBVIOUS
  <2>0. i \in DOMAIN ins \ {p} /\ j \in DOMAIN ins \ {p}
    BY <1>5
  <2>1. Old(p, i) = Old(p, j)
    BY <1>1, <2>0 DEF Matches
  <2>2. QED
    BY <1>4, <2>0, <2>1
<1>8. \A a \in fl : \E i \in DOMAIN ins : Completes(ins[i], a)
  BY <1>1 DEF Matches
<1>9. QED
  BY <1>2, <1>6, <1>7, <1>8 DEF Matches, ins

\* A new attempt brings its completion.
LEMMA InsertCompletion ==
  ASSUME NEW tl \in Seq(Item), NEW item \in Item, NEW fl, NEW b, Matches(tl, fl),
         Completes(item, b), \A a \in fl : a.leaf # b.leaf
  PROVE  Insert(tl, item) \in Seq(Item) /\ Matches(Insert(tl, item), fl \cup {b})
<1> DEFINE ins == Insert(tl, item)
<1>1. PICK p \in DOMAIN ins :
        /\ ins[p] = item
        /\ \A i \in DOMAIN ins \ {p} : Old(p, i) \in DOMAIN tl /\ ins[i] = tl[Old(p, i)]
        /\ \A k \in DOMAIN tl : New(p, k) \in DOMAIN ins \ {p} /\ ins[New(p, k)] = tl[k]
  BY InsertPlaces
<1>2. ins \in Seq(Item)
  BY InsertPlaces
<1> HIDE DEF ins
<1>3. DOMAIN ins \subseteq Nat
  <2>1. DOMAIN ins = 1..Len(ins) /\ Len(ins) \in Nat
    BY <1>2, LenProperties
  <2>2. QED
    BY <2>1
<1>4. \A i, j \in DOMAIN ins \ {p} : Old(p, i) = Old(p, j) => i = j
  BY <1>3 DEF Old
<1>5. \A i \in DOMAIN ins : ins[i].kind = "completion" /\ i # p => ins[i].occ # item.occ
  BY <1>1 DEF Matches, Completes
<1>6. \A i \in DOMAIN ins : ins[i].kind = "completion" => \E a \in fl \cup {b} : Completes(ins[i], a)
  BY <1>1 DEF Matches
<1>7. \A i, j \in DOMAIN ins :
        ins[i].kind = "completion" /\ ins[j].kind = "completion" /\ ins[i].occ = ins[j].occ => i = j
  <2> SUFFICES ASSUME NEW i \in DOMAIN ins, NEW j \in DOMAIN ins, ins[i].kind = "completion",
                      ins[j].kind = "completion", ins[i].occ = ins[j].occ
               PROVE  i = j
    OBVIOUS
  <2>1. CASE i = p \/ j = p
    BY <1>1, <1>5, <2>1
  <2>2. CASE i # p /\ j # p
    <3>1. /\ Old(p, i) \in DOMAIN tl /\ ins[i] = tl[Old(p, i)]
          /\ Old(p, j) \in DOMAIN tl /\ ins[j] = tl[Old(p, j)]
      BY <1>1, <2>2
    <3>2. Old(p, i) = Old(p, j)
      BY <3>1 DEF Matches
    <3>3. QED
      BY <1>4, <2>2, <3>2
  <2>3. QED
    BY <2>1, <2>2
<1>8. \A a \in fl \cup {b} : \E i \in DOMAIN ins : Completes(ins[i], a)
  BY <1>1 DEF Matches
<1>9. QED
  BY <1>2, <1>6, <1>7, <1>8 DEF Matches, ins

\* Taking the head of the timeline.
LEMMA TailFacts ==
  ASSUME NEW tl \in Seq(Item), tl # <<>>
  PROVE  /\ Head(tl) \in Item /\ Tail(tl) \in Seq(Item)
         /\ 1 \in DOMAIN tl /\ Head(tl) = tl[1]
         /\ \A i \in DOMAIN Tail(tl) : i + 1 \in DOMAIN tl /\ i \in Nat \ {0} /\ Tail(tl)[i] = tl[i + 1]
         /\ \A k \in DOMAIN tl : k # 1 => k - 1 \in DOMAIN Tail(tl) /\ Tail(tl)[k - 1] = tl[k]
<1>1. Head(tl) \in Item /\ Tail(tl) \in Seq(Item) /\ Head(tl) = tl[1]
  OBVIOUS
<1>2. /\ Len(tl) \in Nat /\ Len(tl) > 0 /\ DOMAIN tl = 1..Len(tl)
      /\ DOMAIN Tail(tl) = 1..(Len(tl) - 1)
      /\ \A i \in 1..(Len(tl) - 1) : Tail(tl)[i] = tl[i + 1]
  OBVIOUS
<1>3. \A k \in DOMAIN tl : k # 1 => k - 1 \in DOMAIN Tail(tl) /\ Tail(tl)[k - 1] = tl[k]
  <2> SUFFICES ASSUME NEW k \in DOMAIN tl, k # 1
               PROVE  k - 1 \in DOMAIN Tail(tl) /\ Tail(tl)[k - 1] = tl[k]
    OBVIOUS
  <2>1. k - 1 \in 1..(Len(tl) - 1) /\ (k - 1) + 1 = k
    BY <1>2
  <2>2. QED
    BY <1>2, <2>1
<1>4. QED
  BY <1>1, <1>2, <1>3

\* A delivered wakeup or timer leaves the completions that are due alone.
LEMMA TailWakeup ==
  ASSUME NEW tl \in Seq(Item), tl # <<>>, NEW fl, Matches(tl, fl), Head(tl).kind # "completion"
  PROVE  Matches(Tail(tl), fl)
<1>1. \A k \in DOMAIN tl : tl[k].kind = "completion" => k - 1 \in DOMAIN Tail(tl) /\ Tail(tl)[k - 1] = tl[k]
  BY TailFacts
<1>2. \A i, j \in DOMAIN Tail(tl) : i + 1 = j + 1 => i = j
  BY TailFacts
<1>3. \A a \in fl : \E i \in DOMAIN Tail(tl) : Completes(Tail(tl)[i], a)
  BY <1>1 DEF Matches, Completes
<1>4. QED
  BY <1>2, <1>3, TailFacts DEF Matches

\* A delivered completion takes its attempt, and no other, out of flight.
LEMMA TailCompletion ==
  ASSUME NEW tl \in Seq(Item), tl # <<>>, NEW fl, NEW b \in fl, Matches(tl, fl),
         Completes(Head(tl), b), \A a, c \in fl : a.leaf = c.leaf => a = c
  PROVE  Matches(Tail(tl), fl \ {b})
<1>1. \A i, j \in DOMAIN Tail(tl) : i + 1 = j + 1 => i = j
  BY TailFacts
<1>2. \A i \in DOMAIN Tail(tl) : i + 1 # 1
  BY TailFacts
<1>3. \A i \in DOMAIN Tail(tl) : Tail(tl)[i].kind = "completion" =>
        \E a \in fl \ {b} : Completes(Tail(tl)[i], a)
  <2> SUFFICES ASSUME NEW i \in DOMAIN Tail(tl), Tail(tl)[i].kind = "completion"
               PROVE  \E a \in fl \ {b} : Completes(Tail(tl)[i], a)
    OBVIOUS
  <2>1. Tail(tl)[i] = tl[i + 1] /\ i + 1 \in DOMAIN tl /\ 1 \in DOMAIN tl /\ Head(tl) = tl[1]
    BY TailFacts
  <2>2. tl[i + 1].occ # tl[1].occ
    BY <1>2, <2>1 DEF Matches, Completes
  <2>3. QED
    BY <2>1, <2>2 DEF Matches, Completes
<1>4. \A a \in fl \ {b} : \E i \in DOMAIN Tail(tl) : Completes(Tail(tl)[i], a)
  <2> SUFFICES ASSUME NEW a \in fl \ {b}
               PROVE  \E i \in DOMAIN Tail(tl) : Completes(Tail(tl)[i], a)
    OBVIOUS
  <2>1. PICK k \in DOMAIN tl : Completes(tl[k], a)
    BY DEF Matches
  <2>2. k # 1
    BY <2>1, TailFacts DEF Completes
  <2>3. k - 1 \in DOMAIN Tail(tl) /\ Tail(tl)[k - 1] = tl[k]
    BY <2>2, TailFacts
  <2>4. QED
    BY <2>1, <2>3
<1>5. \A i, j \in DOMAIN Tail(tl) :
        Tail(tl)[i].kind = "completion" /\ Tail(tl)[j].kind = "completion"
        /\ Tail(tl)[i].occ = Tail(tl)[j].occ => i = j
  BY <1>1, TailFacts DEF Matches
<1>6. QED
  BY <1>3, <1>4, <1>5 DEF Matches

-----------------------------------------------------------------------------
(* Structure.                                                              *)

\* Induction along parents.
LEMMA AlongParents ==
  ASSUME NEW T, T \subseteq Occ,
         \A o \in Occ : (Parent[o] # NoOcc => Parent[o] \in T) => o \in T
  PROVE  T = Occ
<1>1. SUFFICES ASSUME Occ \ T # {} PROVE FALSE
  OBVIOUS
<1>2. PICK o \in Occ \ T : Parent[o] \notin Occ \ T
  BY <1>1, ParentsLeadUp
<1>3. QED
  BY <1>2, ProgramTypes

\* Ancestors is defined by recursion along the parents; some function obeys the
\* recursion, so Ancestors does: the occurrences in every set that holds the
\* parent of o and the parents of its members.
LEMMA AncestorsRecursion ==
  Ancestors = [o \in Occ |-> IF Parent[o] = NoOcc THEN {} ELSE {Parent[o]} \cup Ancestors[Parent[o]]]
<1> DEFINE Closed(S, o) == /\ Parent[o] # NoOcc => Parent[o] \in S
                           /\ \A x \in S : Parent[x] # NoOcc => Parent[x] \in S
           above == [o \in Occ |-> {q \in Occ : \A S \in SUBSET Occ : Closed(S, o) => q \in S}]
<1>1. ASSUME NEW o \in Occ
      PROVE  above[o] = IF Parent[o] = NoOcc THEN {} ELSE {Parent[o]} \cup above[Parent[o]]
  <2>1. CASE Parent[o] = NoOcc
    <3>1. Closed({}, o)
      BY <2>1
    <3>2. QED
      BY <2>1, <3>1
  <2>2. CASE Parent[o] # NoOcc
    <3> DEFINE p == Parent[o]
    <3>1. p \in Occ
      BY <2>2, ProgramTypes
    <3>2. ASSUME NEW S \in SUBSET Occ, Closed(S, o)
          PROVE  p \in S /\ Closed(S, p)
      BY <2>2, <3>2
    <3>3. {p} \cup above[p] \subseteq above[o]
      <4>1. p \in above[o]
        BY <3>1, <3>2
      <4>2. ASSUME NEW q \in above[p] PROVE q \in above[o]
        <5>1. q \in Occ /\ \A S \in SUBSET Occ : Closed(S, p) => q \in S
          BY <3>1
        <5>2. \A S \in SUBSET Occ : Closed(S, o) => q \in S
          BY <3>2, <5>1
        <5>3. QED
          BY <5>1, <5>2
      <4>3. QED
        BY <4>1, <4>2
    <3>4. Closed({p} \cup above[p], o)
      <4>1. Parent[p] # NoOcc => Parent[p] \in above[p]
        BY <3>1, ProgramTypes
      <4>2. ASSUME NEW x \in above[p], Parent[x] # NoOcc PROVE Parent[x] \in above[p]
        <5>1. x \in Occ /\ \A S \in SUBSET Occ : Closed(S, p) => x \in S
          BY <3>1
        <5>2. Parent[x] \in Occ /\ \A S \in SUBSET Occ : Closed(S, p) => Parent[x] \in S
          BY <4>2, <5>1, ProgramTypes
        <5>3. QED
          BY <3>1, <5>2
      <4>3. QED
        BY <4>1, <4>2
    <3>5. above[o] \subseteq {p} \cup above[p]
      <4>1. {p} \cup above[p] \in SUBSET Occ
        BY <3>1
      <4> HIDE DEF p
      <4>2. ASSUME NEW q \in above[o] PROVE q \in {p} \cup above[p]
        <5>1. \A S \in SUBSET Occ : Closed(S, o) => q \in S
          OBVIOUS
        <5> HIDE DEF above, Closed
        <5>2. QED
          BY <3>4, <4>1, <5>1
      <4>3. QED
        BY <4>2
    <3>6. p = Parent[o]
      OBVIOUS
    <3> HIDE DEF above, p
    <3>7. above[o] = {p} \cup above[p]
      BY <3>3, <3>5
    <3>8. QED
      BY <2>2, <3>6, <3>7
  <2>3. QED
    BY <2>1, <2>2
<1>2. above = [o \in Occ |-> IF Parent[o] = NoOcc THEN {} ELSE {Parent[o]} \cup above[Parent[o]]]
  <2> DEFINE rec == [o \in Occ |-> IF Parent[o] = NoOcc THEN {} ELSE {Parent[o]} \cup above[Parent[o]]]
  <2>1. \A o \in Occ : above[o] = rec[o]
    BY <1>1
  <2>2. above = [o \in Occ |-> above[o]]
    OBVIOUS
  <2> HIDE DEF above
  <2>3. QED
    BY <2>1, <2>2
<1> HIDE DEF above
<1>3. QED
  BY <1>2 DEF Ancestors

\* Ancestors are occurrences, finitely many, none its own.
LEMMA Structure ==
  /\ Ancestors \in [Occ -> SUBSET Occ]
  /\ \A o \in Occ :
       /\ Ancestors[o] = IF Parent[o] = NoOcc THEN {} ELSE {Parent[o]} \cup Ancestors[Parent[o]]
       /\ o \notin Ancestors[o] /\ IsFiniteSet(Ancestors[o])
       /\ Parent[o] = NoOcc <=> o = Root
<1> DEFINE typed == {o \in Occ : Ancestors[o] \subseteq Occ /\ IsFiniteSet(Ancestors[o])}
           onward == {o \in Occ : \A x \in Ancestors[o] : Parent[x] # NoOcc => Parent[x] \in Ancestors[o]}
           proper == {o \in Occ : o \notin Ancestors[o]}
<1>1. \A o \in Occ :
        Ancestors[o] = IF Parent[o] = NoOcc THEN {} ELSE {Parent[o]} \cup Ancestors[Parent[o]]
  BY AncestorsRecursion
<1>2. typed = Occ
  <2>1. ASSUME NEW o \in Occ, Parent[o] # NoOcc => Parent[o] \in typed PROVE o \in typed
    <3>1. CASE Parent[o] = NoOcc
      BY <1>1, <3>1, FS_EmptySet
    <3>2. CASE Parent[o] # NoOcc
      <4>1. Ancestors[o] = Ancestors[Parent[o]] \cup {Parent[o]}
        BY <1>1, <3>2
      <4>2. Ancestors[Parent[o]] \subseteq Occ /\ IsFiniteSet(Ancestors[Parent[o]]) /\ Parent[o] \in Occ
        BY <2>1, <3>2
      <4>3. IsFiniteSet(Ancestors[Parent[o]] \cup {Parent[o]})
        BY <4>2, FS_AddElement
      <4>4. QED
        BY <4>1, <4>2, <4>3
    <3>3. QED
      BY <3>1, <3>2
  <2> HIDE DEF typed
  <2>2. typed \subseteq Occ
    BY DEF typed
  <2>3. QED
    BY <2>1, <2>2, AlongParents
<1>3. onward = Occ
  <2>1. ASSUME NEW o \in Occ, Parent[o] # NoOcc => Parent[o] \in onward PROVE o \in onward
    <3>1. CASE Parent[o] = NoOcc
      BY <1>1, <3>1
    <3>2. CASE Parent[o] # NoOcc
      <4>1. Parent[o] \in Occ
        BY <3>2, ProgramTypes
      <4>2. Parent[Parent[o]] # NoOcc => Parent[Parent[o]] \in Ancestors[Parent[o]]
        BY <1>1, <4>1
      <4>3. QED
        BY <1>1, <2>1, <3>2, <4>2
    <3>3. QED
      BY <3>1, <3>2
  <2> HIDE DEF onward
  <2>2. onward \subseteq Occ
    BY DEF onward
  <2>3. QED
    BY <2>1, <2>2, AlongParents
<1>4. proper = Occ
  <2>1. ASSUME NEW o \in Occ, Parent[o] # NoOcc => Parent[o] \in proper PROVE o \in proper
    <3>1. CASE Parent[o] = NoOcc
      BY <1>1, <3>1
    <3>2. CASE Parent[o] # NoOcc
      <4>1. Parent[o] \in Occ /\ Parent[o] \notin Ancestors[Parent[o]]
        BY <2>1, <3>2
      <4>2. o \notin Ancestors[Parent[o]]
        BY <1>3, <3>2, <4>1
      <4>3. o # Parent[o]
        <5>1. PICK q \in {o} : Parent[q] \notin {o}
          BY ParentsLeadUp
        <5>2. QED
          BY <5>1
      <4>4. QED
        BY <1>1, <3>2, <4>2, <4>3
    <3>3. QED
      BY <3>1, <3>2
  <2> HIDE DEF proper
  <2>2. proper \subseteq Occ
    BY DEF proper
  <2>3. QED
    BY <2>1, <2>2, AlongParents
<1>5. Ancestors = [o \in Occ |-> Ancestors[o]]
  BY AncestorsRecursion
<1>6. QED
  BY <1>1, <1>2, <1>4, <1>5, ParentsLeadUp

\* The elements of a serial composition are numbered, each waits for the one
\* before it, and the one no other waits for is the last.
LEMMA LastElement ==
  ASSUME NEW p \in Occ, Kind[p] = "serial", ChildrenOf(p) # {}
  PROVE  \E n \in Nat \ {0} : \E element \in [1..n -> ChildrenOf(p)] :
           /\ ChildrenOf(p) = {element[i] : i \in 1..n}
           /\ \A i \in 1..n : Deps[element[i]] = IF i = 1 THEN {} ELSE {element[i - 1]}
           /\ LastChild(p) = element[n]
<1> DEFINE n == Cardinality(ChildrenOf(p))
<1>1. PICK element \in [1..n -> ChildrenOf(p)] :
        /\ ChildrenOf(p) = {element[i] : i \in DOMAIN element}
        /\ \A i, j \in DOMAIN element : element[i] = element[j] => i = j
        /\ \A i \in DOMAIN element : Deps[element[i]] = IF i = 1 THEN {} ELSE {element[i - 1]}
  BY Composition
<1>2. n \in Nat \ {0}
  BY FS_CardinalityType, FS_EmptySet, Composition
<1> HIDE DEF n
<1>3. DOMAIN element = 1..n
  OBVIOUS
<1>4. element[n] \in ChildrenOf(p) /\ \A c \in ChildrenOf(p) : element[n] \notin Deps[c]
  <2>1. n \in 1..n
    BY <1>2
  <2>2. \A i \in 1..n : element[n] \notin Deps[element[i]]
    <3> SUFFICES ASSUME NEW i \in 1..n, element[n] \in Deps[element[i]]
                 PROVE  FALSE
      OBVIOUS
    <3>1. Deps[element[i]] = IF i = 1 THEN {} ELSE {element[i - 1]}
      BY <1>1, <1>3
    <3>2. i # 1 /\ element[n] = element[i - 1]
      BY <3>1
    <3>3. i - 1 \in 1..n /\ i - 1 # n
      BY <1>2, <3>2
    <3>4. QED
      BY <1>1, <1>3, <2>1, <3>2, <3>3
  <2>3. QED
    BY <1>1, <1>3, <2>1, <2>2
<1>5. ASSUME NEW q \in ChildrenOf(p), \A c \in ChildrenOf(p) : q \notin Deps[c]
      PROVE  q = element[n]
  <2>1. PICK i \in 1..n : q = element[i]
    BY <1>1, <1>3
  <2>2. CASE i # n
    <3>1. i + 1 \in 1..n /\ i + 1 # 1 /\ (i + 1) - 1 = i
      BY <1>2, <2>2
    <3>2. Deps[element[i + 1]] = {element[i]} /\ element[i + 1] \in ChildrenOf(p)
      BY <1>1, <1>3, <3>1
    <3>3. QED
      BY <1>5, <2>1, <3>2
  <2>3. QED
    BY <2>1, <2>2
<1>6. LastChild(p) = element[n]
  BY <1>4, <1>5 DEF LastChild
<1>7. QED
  BY <1>1, <1>2, <1>3, <1>6

-----------------------------------------------------------------------------
(* The inductive invariant.                                                *)

\* A leaf whose policies are asked before an attempt may still start it.
MayStart(l) ==
  /\ l \in Leaf /\ attempts[l] < MaxAttempts
  /\ ~InFlight(l) /\ Cardinality(inflight) < Concurrency
  /\ \A q \in {l} \cup Ancestors[l] : \A d \in Deps[q] : scope[d] = "Satisfied"

\* What the calls of settle and apply in progress rely on: there is one of
\* them at most, a call of settle meets an open scope, and what apply goes on
\* with is still allowed.
CallsInProgress ==
  /\ settling = NotSettling \/ answering = NotAnswering
  /\ settling # NotSettling =>
       settling.occ \in Occ /\ ~Settled(settling.occ) /\ settling.st \in Terminal
  /\ answering # NotAnswering => answering.occ \in Occ /\ answering.event \in PolicyEvent
  /\ answering.event = "BeforeAttempt" => MayStart(answering.occ)
  /\ answering.event = "ChildScopeOutcome" =>
       ~Settled(answering.occ) /\ ChildrenOf(answering.occ) # {}
  /\ answering.event \in {"AttemptOutcome", "ScopeOutcomeProposed"} => answering.st \in Terminal

\* Outputs belong to satisfied scopes, so none is ever overwritten.
OutputsAreFinal == \A o \in Occ : values[o] # "unresolved" => scope[o] = "Satisfied"

\* A leaf that has had its last attempt is done for, or will be by a call in
\* progress or the completion that is due.
Exhausted(l) ==
  \/ attempts[l] < MaxAttempts \/ Settled(l) \/ InFlight(l) \/ settling.occ = l
  \/ answering.occ = l /\ answering.event = "AttemptOutcome"

\* No leaf is left with its attempts spent and nothing to come of it, and only
\* attempts of settled scopes were told to stop.
AttemptsEnd ==
  /\ \A l \in Leaf : Exhausted(l)
  /\ \A a \in inflight : a.cancelled => Settled(a.leaf)

\* The types of what the reactor keeps about itself.
Bookkeeping ==
  /\ refused \subseteq Occ /\ deferred \subseteq Occ /\ withheld \subseteq Leaf
  /\ steps \in 0..(MaxSteps + 1) /\ (steps > MaxSteps => result # "none")
  /\ result \in Statuses \cup {"none"} /\ ending \in {"none", "settled", "stuck", "budget"}
  /\ pc \in {"idle", "sched", "pump", "dispatch", "deliver"} /\ after \in {"idle", "deliver"}
  /\ moved \in BOOLEAN

\* The types of scopes, attempts and the timeline.
WorkTypes ==
  /\ scope \in [Occ -> ScopeStates]
  /\ attempts \in [Leaf -> 0..MaxAttempts] /\ notBefore \in [Leaf -> Nat]
  /\ \A a \in inflight : a \in [leaf : Leaf, no : 1..MaxAttempts, cancelled : BOOLEAN]
  /\ IsFiniteSet(inflight)
  /\ timeline \in Seq(Item) /\ now \in Nat

\* The types of the calls in progress.
CallTypes ==
  /\ settling \in [occ : Occ \cup {NoOcc}, st : Terminal \cup {"none"},
                   out : {"value", "NoOutput", "unresolved"}]
  /\ answering \in [occ : Occ \cup {NoOcc}, event : PolicyEvent \cup {"none"}, acts : Seq(Action),
                    st : Terminal \cup {"none"}, out : {"value", "NoOutput", "unresolved"}]

\* The inductive invariant: the engine's own, the types, and what relates the
\* attempts to scopes, Touchdowns and the timeline.
VesselInv ==
  /\ Inv
  /\ Bookkeeping /\ WorkTypes /\ CallTypes
  /\ Precedence
  /\ AttemptAccounting
  /\ Matches(timeline, inflight)
  /\ CallsInProgress
  /\ OutputsAreFinal
  /\ AttemptsEnd

\* Start leaves the run with the Root exposed and demanded, and nothing else.
LEMMA VesselInitInv == VesselInit => VesselInv
<1> SUFFICES ASSUME VesselInit
             PROVE  VesselInv
  OBVIOUS
<1> USE DEF VesselInit
<1>1. order = <<Root>> /\ events = <<>> /\ ledger = <<>> /\ timeline = <<>> /\ inflight = {}
  OBVIOUS
<1>2. DOMAIN order = 1..1 /\ order[1] = Root /\ Exposed = {Root}
  <2>1. DOMAIN order = 1..1 /\ order[1] = Root
    BY <1>1
  <2>2. QED
    BY <2>1 DEF Exposed
<1>3. DOMAIN ledger = {} /\ DOMAIN timeline = {}
  <2>1. DOMAIN ledger = 1..0 /\ DOMAIN timeline = 1..0
    BY <1>1
  <2>2. QED
    BY <2>1
<1>4. CarouselTypeOK
  <2>1. order \in Seq(Occ) /\ events \in Seq(Events)
        /\ ledger \in Seq([occ : Occ, cause : {"demand", "prefetch"}])
    BY <1>1, ProgramTypes
  <2>2. QED
    BY <2>1, ProgramTypes DEF CarouselTypeOK
<1>5. Inv
  <2>1. ExposureIsAtomic
    <3>1. \A o \in Deducible : state[o] # "committed" /\ Root \notin StagedSet(o)
      BY ProgramTree DEF Deducible
    <3>2. \A i, j \in DOMAIN order : i = j
      BY <1>2
    <3>3. \A o \in Occ : o \in Exposed <=> state[o] # "unexposed"
      BY <1>2
    <3>4. QED
      BY <1>2, <1>3, <3>1, <3>2, <3>3 DEF ExposureIsAtomic
  <2>2. WindowCountsUnacknowledged
    BY <1>2, ProgramTypes DEF WindowCountsUnacknowledged, Leaf
  <2>3. DemandIsPending
    BY ProgramTypes DEF DemandIsPending, Deducible
  <2>4. OneAuthorizedAttempt
    BY DEF OneAuthorizedAttempt
  <2>5. BarrierHolds
    BY DEF BarrierHolds, Deducible
  <2>6. QED
    BY <1>4, <2>1, <2>2, <2>3, <2>4, <2>5 DEF Inv
<1>6. Bookkeeping /\ WorkTypes /\ CallTypes
  <2>1. MaxAttempts \in Nat /\ MaxSteps \in Nat
    BY RunTypes
  <2>2. settling \in [occ : Occ \cup {NoOcc}, st : Terminal \cup {"none"},
                     out : {"value", "NoOutput", "unresolved"}]
    BY DEF NotSettling
  <2>3. answering \in [occ : Occ \cup {NoOcc}, event : PolicyEvent \cup {"none"}, acts : Seq(Action),
                      st : Terminal \cup {"none"}, out : {"value", "NoOutput", "unresolved"}]
    BY DEF NotAnswering
  <2>4. scope \in [Occ -> ScopeStates]
    BY DEF ScopeStates
  <2>5. /\ refused \subseteq Occ /\ deferred \subseteq Occ /\ withheld \subseteq Leaf
        /\ attempts \in [Leaf -> 0..MaxAttempts] /\ notBefore \in [Leaf -> Nat]
        /\ now \in Nat /\ steps \in 0..(MaxSteps + 1) /\ ~(steps > MaxSteps)
    BY <2>1
  <2>6. timeline \in Seq(Item)
    BY <1>1
  <2>7. /\ result \in Statuses \cup {"none"} /\ ending \in {"none", "settled", "stuck", "budget"}
        /\ pc \in {"idle", "sched", "pump", "dispatch", "deliver"} /\ after \in {"idle", "deliver"}
        /\ moved \in BOOLEAN
    OBVIOUS
  <2>8. \A a \in inflight : a \in [leaf : Leaf, no : 1..MaxAttempts, cancelled : BOOLEAN]
    BY <1>1
  <2>9. IsFiniteSet(inflight)
    BY <1>1, FS_EmptySet
  <2> HIDE DEF VesselInit
  <2>10. QED
    BY <2>2, <2>3, <2>4, <2>5, <2>6, <2>7, <2>8, <2>9 DEF Bookkeeping, WorkTypes, CallTypes
<1>7. Cardinality(inflight) = 0
  BY <1>1, FS_EmptySet
<1>9. Precedence /\ OutputsAreFinal
  BY DEF Precedence, OutputsAreFinal
<1>10. AttemptAccounting
  BY <1>7, RunTypes DEF AttemptAccounting
<1>11. Matches(timeline, inflight)
  BY <1>3 DEF Matches
<1>12. CallsInProgress
  BY DEF CallsInProgress, NotSettling, NotAnswering
<1>13. AttemptsEnd
  BY RunTypes DEF AttemptsEnd, Exhausted
<1>14. QED
  BY <1>5, <1>6, <1>9, <1>10, <1>11, <1>12, <1>13 DEF VesselInv

-----------------------------------------------------------------------------
(* The engine inside a run.                                                *)

\* The engine keeps its invariant while the run does something else.
LEMMA InvStutters ==
  ASSUME Inv, UNCHANGED vars
  PROVE  Inv'
BY NextInv

\* The Runtime takes the events of a pass one by one.
LEMMA EventsInv ==
  ASSUME Inv, events # <<>>, events' = Tail(events),
         UNCHANGED <<order, state, demanded, touchdownVars, prefetch, pass, ledger, values>>
  PROVE  Inv'
<1>1. events' \in Seq(Events)
  BY DEF Inv, CarouselTypeOK
<1>2. QED
  BY <1>1 DEF Inv, CarouselTypeOK, touchdownVars, ExposureIsAtomic, Exposed,
              WindowCountsUnacknowledged, DemandIsPending, OneAuthorizedAttempt, BarrierHolds

\* Any number of occurrences may be demanded at once.
LEMMA DemandsInv ==
  ASSUME Inv, NEW S, \A o \in S : Accepts(o), demanded' = demanded \cup S,
         prefetch' \in Nat, pass' \in {"idle", "demand", "prefetch"},
         UNCHANGED <<order, state, touchdownVars, events, ledger, values>>
  PROVE  Inv'
BY DEF Accepts, Deducible, Inv, CarouselTypeOK, touchdownVars, ExposureIsAtomic, Exposed,
       WindowCountsUnacknowledged, DemandIsPending, OneAuthorizedAttempt, BarrierHolds

\* A settled scope withdraws, discards and resolves in one step.
LEMMA SettleInv ==
  ASSUME Inv, NEW os, Withdraw(os), DiscardTouchdowns(os),
         values' \in [Occ -> {"unresolved", "value", "NoOutput"}],
         \A o \in Occ : values[o] # "unresolved" => values'[o] = values[o],
         UNCHANGED <<order, prefetch, pass, events, ledger>>
  PROVE  Inv'
<1> USE DEF Withdraw, DiscardTouchdowns
<1>1. Exposed' = Exposed
  BY DEF Exposed
<1>2. \A o \in Occ : /\ o \in Undeduced(os) => state[o] = "undeduced" /\ state'[o] = "withdrawn"
                     /\ o \notin Undeduced(os) => state'[o] = state[o]
  BY DEF Undeduced
<1>3. \A l \in Leaf : l \in Buffered(os) => td[l] = "buffered"
  BY DEF Buffered
<1>4. CarouselTypeOK'
  BY DEF Inv, CarouselTypeOK
<1>5. ExposureIsAtomic'
  BY <1>1, <1>2 DEF Inv, ExposureIsAtomic, Deducible
<1>6. WindowCountsUnacknowledged'
  BY <1>1, <1>3 DEF Inv, CarouselTypeOK, WindowCountsUnacknowledged
<1>7. DemandIsPending'
  BY <1>2 DEF Inv, DemandIsPending, Deducible
<1>8. OneAuthorizedAttempt'
  BY <1>3 DEF Inv, OneAuthorizedAttempt
<1>9. BarrierHolds'
  <2>1. \A o \in Deducible : state'[o] = "committed" => state[o] = "committed"
    BY <1>2 DEF Deducible
  <2>2. \A o \in Occ : values[o] = "value" => values'[o] = "value"
    OBVIOUS
  <2>3. \A o \in Deducible : Input[o] # NoOcc => Input[o] \in Occ
    BY ProgramTypes DEF Deducible
  <2>4. QED
    BY <2>1, <2>2, <2>3 DEF Inv, BarrierHolds
<1>10. QED
  BY <1>4, <1>5, <1>6, <1>7, <1>8, <1>9 DEF Inv

\* A consumed Touchdown stays with its consumer.
AcknowledgementsStand ==
  \A l \in Leaf : td[l] = "consumed" => td'[l] = "consumed" /\ consumedBy'[l] = consumedBy[l]

-----------------------------------------------------------------------------
(* What keeps the invariant in general.                                    *)

\* An outcome is final.
ScopesStand == \A o \in Occ : Settled(o) => scope'[o] = scope[o]

\* A step that neither starts nor completes an attempt nor sets an outcome
\* keeps the invariant when the calls in progress and the timeline keep theirs.
LEMMA OtherStepsInv ==
  ASSUME VesselInv, Inv', AcknowledgementsStand, Bookkeeping', WorkTypes', ScopesStand,
         CallTypes', CallsInProgress', Matches(timeline, inflight)', \A l \in Leaf : Exhausted(l)',
         UNCHANGED <<values, attempts, inflight>>
  PROVE  VesselInv'
<1>1. \A o \in Occ : scope[o] = "Satisfied" => scope'[o] = "Satisfied"
  BY DEF ScopesStand, Settled, Terminal
<1>2. Leaf \subseteq Occ
  BY DEF Leaf
<1>3. Precedence'
  <2>1. \A l \in Leaf : \A q \in {l} \cup Ancestors[l] : Deps[q] \subseteq Occ
    BY <1>2, RunTypes, ProgramTypes, Structure
  <2>2. QED
    BY <1>1, <2>1 DEF VesselInv, Precedence
<1>4. AttemptAccounting'
  BY DEF VesselInv, AttemptAccounting, AcknowledgementsStand, Matches, Completes
<1>5. OutputsAreFinal'
  BY <1>1 DEF VesselInv, OutputsAreFinal
<1>6. AttemptsEnd'
  <2>1. \A a \in inflight : a.leaf \in Occ
    BY <1>2 DEF VesselInv, WorkTypes
  <2>2. \A o \in Occ : Settled(o) => Settled(o)'
    BY DEF ScopesStand, Settled
  <2>3. QED
    BY <2>1, <2>2 DEF VesselInv, AttemptsEnd
<1>7. QED
  BY <1>3, <1>4, <1>5, <1>6 DEF VesselInv

\* No call is in progress after the step.
LEMMA NoCall ==
  ASSUME settling' = NotSettling, answering' = NotAnswering
  PROVE  CallTypes' /\ CallsInProgress'
<1>1. CallTypes'
  BY DEF CallTypes, NotSettling, NotAnswering
<1>2. CallsInProgress'
  BY DEF CallsInProgress, NotSettling, NotAnswering
<1>3. QED
  BY <1>1, <1>2

\* The step calls settle, which may find the scope settled already.
LEMMA CallSettle ==
  ASSUME NEW o \in Occ, NEW st \in Terminal, NEW out \in {"value", "NoOutput", "unresolved"},
         Settle(o, st, out), answering' = NotAnswering, Settled(o) \/ ~Settled(o)'
  PROVE  CallTypes' /\ CallsInProgress'
<1>1. CASE settling' = NotSettling
  BY <1>1, NoCall
<1>2. CASE settling' = [occ |-> o, st |-> st, out |-> out] /\ ~Settled(o)'
  <2>1. CallTypes'
    BY <1>2 DEF CallTypes, NotAnswering
  <2>2. CallsInProgress'
    BY <1>2 DEF CallsInProgress, NotAnswering
  <2>3. QED
    BY <2>1, <2>2
<1>3. QED
  BY <1>1, <1>2 DEF Settle

\* The step asks the policies of o, which answer with some actions.
LEMMA CallConsult ==
  ASSUME NEW o \in Occ, NEW event \in PolicyEvent, NEW st \in Terminal \cup {"none"},
         NEW out \in {"value", "NoOutput", "unresolved"},
         Consult(o, event, st, out), settling' = NotSettling,
         event = "BeforeAttempt" => MayStart(o)',
         event = "ChildScopeOutcome" => ~Settled(o)' /\ ChildrenOf(o) # {},
         event \in {"AttemptOutcome", "ScopeOutcomeProposed"} => st \in Terminal
  PROVE  CallTypes' /\ CallsInProgress'
<1>1. PICK acts \in Seq(Action) :
        answering' = [occ |-> o, event |-> event, acts |-> acts, st |-> st, out |-> out]
  <2>1. Interp[o][event] \subseteq Seq(Action)
    BY RunTypes
  <2>2. QED
    BY <2>1 DEF Consult
<1>2. CallTypes'
  BY <1>1 DEF CallTypes, NotSettling
<1>3. CallsInProgress'
  BY <1>1 DEF CallsInProgress
<1>4. QED
  BY <1>2, <1>3

\* An event that only informs the policies.
LEMMA CallNotify ==
  ASSUME Quiet, NEW o \in Occ, NEW event \in {"ScopeOpened", "TimerFired"}, Notify(o, event),
         settling' = settling
  PROVE  CallTypes' /\ CallsInProgress'
<1>1. settling' = NotSettling
  BY DEF Quiet
<1>2. CASE Silent(o, event)
  BY <1>1, <1>2, NoCall DEF Silent
<1>3. CASE Consult(o, event, "none", "unresolved")
  BY <1>1, <1>3, CallConsult DEF PolicyEvent
<1>4. QED
  BY <1>2, <1>3 DEF Notify

\* Between calls, what is left of an exhausted leaf is its outcome or its
\* last attempt.
LEMMA QuietExhausted ==
  ASSUME VesselInv, Quiet, UNCHANGED <<attempts, inflight>>, ScopesStand
  PROVE  \A l \in Leaf : Exhausted(l)'
<1>1. \A l \in Leaf : attempts[l] < MaxAttempts \/ Settled(l) \/ InFlight(l)
  <2>1. NoOcc \notin Leaf
    BY ProgramTypes DEF Leaf
  <2>2. settling.occ \notin Leaf /\ answering.occ \notin Leaf
    BY <2>1 DEF Quiet, NotSettling, NotAnswering
  <2>3. QED
    BY <2>2 DEF VesselInv, AttemptsEnd, Exhausted
<1>2. \A l \in Leaf : Settled(l) => Settled(l)'
  BY DEF ScopesStand, Settled, Leaf
<1>3. QED
  BY <1>1, <1>2 DEF Exhausted, InFlight

\* A step of the engine, or of the reactor's control.
LEMMA EngineStepsInv ==
  ASSUME VesselInv, Quiet, Inv', AcknowledgementsStand, Bookkeeping',
         UNCHANGED <<values, scope, attempts, notBefore, inflight, timeline, now, settling, answering>>
  PROVE  VesselInv'
<1>1. WorkTypes' /\ CallTypes' /\ Matches(timeline, inflight)'
  BY DEF VesselInv, WorkTypes, CallTypes, Matches
<1>2. CallsInProgress'
  BY NoCall DEF Quiet
<1>3. ScopesStand
  BY DEF ScopesStand
<1>4. \A l \in Leaf : Exhausted(l)'
  BY <1>3, QuietExhausted
<1>5. QED
  BY <1>1, <1>2, <1>3, <1>4, OtherStepsInv

\* A step that only calls settle.
LEMMA SettleStepsInv ==
  ASSUME VesselInv, Quiet, Bookkeeping',
         NEW o \in Occ, NEW st \in Terminal, Settle(o, st, "unresolved"),
         UNCHANGED <<vars, scope, attempts, notBefore, inflight, timeline, now, answering>>
  PROVE  VesselInv'
<1>1. WorkTypes' /\ Matches(timeline, inflight)'
  BY DEF VesselInv, WorkTypes, Matches
<1>2. CallTypes' /\ CallsInProgress'
  BY CallSettle DEF Quiet, Settled
<1>3. ScopesStand
  BY DEF ScopesStand
<1>4. \A l \in Leaf : Exhausted(l)'
  BY <1>3, QuietExhausted
<1>5. Inv' /\ AcknowledgementsStand /\ values' = values
  BY InvStutters DEF vars, carouselVars, touchdownVars, AcknowledgementsStand, VesselInv
<1>6. QED
  BY <1>1, <1>2, <1>3, <1>4, <1>5, OtherStepsInv

-----------------------------------------------------------------------------
(* The Scheduler's demand, deduction and control.                          *)

\* schedulerDemand, a surfaced failure, and the passes of Replenish.
LEMMA DemandSteps ==
  ASSUME VesselInv, Quiet, SurfaceFailure \/ SchedulerDemand \/ Deduction
  PROVE  VesselInv'
<1>1. CASE SurfaceFailure
  <2>1. First(ReadyFailures) \in Occ
    <3>1. order \in Seq(Occ) /\ ReadyFailures \subseteq Exposed /\ ReadyFailures # {}
      BY <1>1 DEF VesselInv, Inv, CarouselTypeOK, ReadyFailures, SurfaceFailure
    <3>2. First(ReadyFailures) \in Exposed
      BY <3>1, FirstInSet
    <3>3. QED
      BY <3>1, <3>2 DEF Exposed
  <2>2. Bookkeeping'
    BY <1>1 DEF SurfaceFailure, VesselInv, Bookkeeping, schedulerVars
  <2>3. QED
    BY <1>1, <2>1, <2>2, SettleStepsInv DEF SurfaceFailure, schedulerVars, hostVars, Terminal
<1>2. CASE SchedulerDemand
  <2>1. Inv'
    <3>1. \A o \in ReadyWork : Accepts(o)
      BY DEF ReadyWork
    <3>2. prefetch \in Nat
      BY DEF VesselInv, Inv, CarouselTypeOK
    <3>3. QED
      BY <1>2, <3>1, <3>2, DemandsInv DEF SchedulerDemand, VesselInv
  <2>2. AcknowledgementsStand
    BY <1>2 DEF SchedulerDemand, touchdownVars, AcknowledgementsStand
  <2>3. Bookkeeping'
    BY <1>2 DEF SchedulerDemand, VesselInv, Bookkeeping, schedulerVars, outcomeVars
  <2>4. QED
    BY <1>2, <2>1, <2>2, <2>3, EngineStepsInv
       DEF SchedulerDemand, schedulerVars, hostVars, outcomeVars
<1>3. CASE Deduction
  <2>1. Inv'
    BY <1>3, ReplenishInv DEF Deduction, VesselInv
  <2>2. AcknowledgementsStand
    BY <1>3, ReplenishStands DEF Deduction, VesselInv, Stands, AcknowledgementsStand
  <2>3. Bookkeeping'
    BY <1>3 DEF Deduction, VesselInv, Bookkeeping, schedulerVars, controlVars, outcomeVars
  <2>4. values' = values
    BY <1>3 DEF Deduction, Replenish, ServeDemand, DemandServed, Speculate, EndReplenish, Deduce
  <2>5. QED
    BY <1>3, <2>1, <2>2, <2>3, <2>4, EngineStepsInv
       DEF Deduction, schedulerVars, hostVars, outcomeVars
<1>4. QED
  BY <1>1, <1>2, <1>3

\* The steps that only move the reactor from one routine to the next.
LEMMA ControlSteps ==
  ASSUME VesselInv, Quiet, Pumped \/ Dispatched \/ Stuck \/ Step \/ Advance
  PROVE  VesselInv'
<1>1. UNCHANGED <<vars, scope, schedulerVars, settling, answering>>
  BY DEF Pumped, Dispatched, Stuck, Step, Advance, Stabilize, outcomeVars
<1>2. UNCHANGED hostVars
  BY DEF Pumped, Dispatched, Stuck, Step, Advance, Stabilize
<1>3. Inv' /\ AcknowledgementsStand /\ values' = values
  BY <1>1, InvStutters DEF vars, carouselVars, touchdownVars, AcknowledgementsStand, VesselInv
<1>4. Bookkeeping'
  <2>1. MaxSteps \in Nat
    BY RunTypes
  <2>2. CASE Pumped
    BY <2>2 DEF Pumped, VesselInv, Bookkeeping, schedulerVars, outcomeVars
  <2>3. CASE Dispatched
    BY <2>3 DEF Dispatched, VesselInv, Bookkeeping, schedulerVars, outcomeVars
  <2>4. CASE Stuck
    BY <2>4 DEF Stuck, VesselInv, Bookkeeping, schedulerVars, Statuses
  <2>5. CASE Step
    <3>1. steps \in Nat /\ steps <= MaxSteps /\ result = "none"
      BY <2>1, <2>5 DEF Step, VesselInv, Bookkeeping
    <3>2. CASE steps' > MaxSteps
      <4>1. /\ steps' = steps + 1 /\ result' = "Failed" /\ ending' = "budget"
            /\ UNCHANGED <<pc, moved, after, schedulerVars>>
        BY <2>5, <3>2 DEF Step
      <4>2. QED
        BY <2>1, <3>1, <4>1 DEF VesselInv, Bookkeeping, schedulerVars, Statuses
    <3>3. CASE ~(steps' > MaxSteps)
      <4>1. /\ steps' = steps + 1 /\ result' = result /\ ending' = ending
            /\ pc' = "sched" /\ moved' = FALSE /\ after' = "deliver" /\ UNCHANGED schedulerVars
        BY <2>5, <3>3 DEF Step, Stabilize
      <4>2. steps' \in 0..(MaxSteps + 1) /\ ~(steps' > MaxSteps)
        BY <2>1, <3>1, <3>3, <4>1
      <4>3. QED
        BY <4>1, <4>2 DEF VesselInv, Bookkeeping, schedulerVars
    <3>4. QED
      BY <3>2, <3>3
  <2>6. CASE Advance
    BY <2>6 DEF Advance, Stabilize, VesselInv, Bookkeeping, schedulerVars, outcomeVars
  <2>7. QED
    BY <2>2, <2>3, <2>4, <2>5, <2>6
<1>5. QED
  BY <1>1, <1>2, <1>3, <1>4, EngineStepsInv DEF schedulerVars, hostVars

-----------------------------------------------------------------------------
(* Calls between steps.                                                    *)

\* Whatever the caller does between steps: Demand, CancelScope, SetPrefetch,
\* Advance, or a rival's acknowledgement.
LEMMA CallSteps ==
  ASSUME VesselInv, Quiet, CallIn
  PROVE  VesselInv'
<1>1. ASSUME NEW o \in Occ, RunDemand(o)
      PROVE  VesselInv'
  <2>1. Bookkeeping' /\ UNCHANGED <<hostVars, schedulerVars, scope, answering>>
    BY <1>1 DEF RunDemand, VesselInv, Bookkeeping, schedulerVars, controlVars
  <2>2. CASE Demand(o) /\ UNCHANGED <<values, settling>>
    <3>1. Inv'
      <4> DEFINE S == {o}
      <4>1. /\ \A q \in S : Accepts(q)
            /\ demanded' = demanded \cup S
            /\ UNCHANGED <<order, state, touchdownVars, prefetch, pass, events, ledger, values>>
        BY <2>2 DEF Demand
      <4>2. prefetch' \in Nat /\ pass' \in {"idle", "demand", "prefetch"}
        BY <4>1 DEF VesselInv, Inv, CarouselTypeOK
      <4> HIDE DEF S
      <4>3. QED
        BY <4>1, <4>2, DemandsInv DEF VesselInv
    <3>2. AcknowledgementsStand
      BY <2>2 DEF Demand, touchdownVars, AcknowledgementsStand
    <3>3. QED
      BY <2>1, <2>2, <3>1, <3>2, EngineStepsInv DEF hostVars, schedulerVars
  <2>3. CASE Settle(o, "Failed", "unresolved") /\ UNCHANGED vars
    BY <2>1, <2>3, SettleStepsInv DEF hostVars, schedulerVars, Terminal
  <2>4. QED
    BY <1>1, <2>2, <2>3 DEF RunDemand
<1>2. ASSUME NEW o \in Occ, CancelScope(o)
      PROVE  VesselInv'
  <2>1. Bookkeeping'
    BY <1>2 DEF CancelScope, VesselInv, Bookkeeping, schedulerVars, controlVars
  <2>2. QED
    BY <1>2, <2>1, SettleStepsInv DEF CancelScope, hostVars, schedulerVars, Terminal
<1>3. ASSUME NEW n \in Target, RunSetPrefetch(n)
      PROVE  VesselInv'
  <2>1. SetPrefetch(n) /\ UNCHANGED <<values, schedulerVars, hostVars, controlVars, outcomeVars>>
    BY <1>3 DEF RunSetPrefetch
  <2>2. Inv'
    <3> DEFINE S == {}
    <3>1. /\ \A q \in S : Accepts(q)
          /\ demanded' = demanded \cup S
          /\ prefetch' = n
          /\ UNCHANGED <<order, state, touchdownVars, pass, events, ledger, values>>
      BY <2>1 DEF SetPrefetch
    <3>2. prefetch' \in Nat /\ pass' \in {"idle", "demand", "prefetch"}
      BY <3>1, ProgramTypes DEF VesselInv, Inv, CarouselTypeOK
    <3> HIDE DEF S
    <3>3. QED
      BY <3>1, <3>2, DemandsInv DEF VesselInv
  <2>3. Bookkeeping' /\ AcknowledgementsStand
    BY <2>1 DEF SetPrefetch, VesselInv, Bookkeeping, schedulerVars, controlVars, outcomeVars,
                touchdownVars, AcknowledgementsStand
  <2>4. QED
    BY <2>1, <2>2, <2>3, EngineStepsInv DEF hostVars, schedulerVars, outcomeVars
<1>4. ASSUME NEW l \in Leaf, NEW a \in Attempt, RivalConsume(l, a)
      PROVE  VesselInv'
  <2>1. /\ ConsumeTouchdown(l, TRUE, a)
        /\ UNCHANGED <<order, state, demanded, prefetch, pass, events, ledger, values>>
        /\ UNCHANGED <<schedulerVars, hostVars, controlVars, outcomeVars>>
    BY <1>4 DEF RivalConsume
  <2>2. Inv'
    BY <2>1, ConsumeInv DEF VesselInv
  <2>3. AcknowledgementsStand
    BY <2>1, ConsumeFacts DEF VesselInv, Inv, CarouselTypeOK, touchdownVars, AcknowledgementsStand
  <2>4. Bookkeeping'
    BY <2>1 DEF VesselInv, Bookkeeping, schedulerVars, controlVars, outcomeVars
  <2>5. QED
    BY <2>1, <2>2, <2>3, <2>4, EngineStepsInv DEF hostVars, schedulerVars, outcomeVars
<1>5. QED
  BY <1>1, <1>2, <1>3, <1>4, ControlSteps DEF CallIn

-----------------------------------------------------------------------------
(* Events.                                                                 *)

\* The policies may be refused, which fails a scope that has just opened.
LEMMA HandleSteps ==
  ASSUME VesselInv, Quiet, Handle
  PROVE  VesselInv'
<1>1. PICK e \in Events : e = Head(events)
  <2>1. events \in Seq(Events) /\ events # <<>>
    BY DEF Handle, VesselInv, Inv, CarouselTypeOK
  <2>2. QED
    BY <2>1
<1>2. Inv' /\ AcknowledgementsStand
  <2>1. /\ events # <<>> /\ events' = Tail(events)
        /\ UNCHANGED <<order, state, demanded, touchdownVars, prefetch, pass, ledger, values>>
    BY DEF Handle
  <2>2. QED
    BY <2>1, EventsInv DEF VesselInv, touchdownVars, AcknowledgementsStand
<1>3. \/ e.kind = "exposed" /\ HandleExposed(e.occ)
      \/ e.kind = "committed" /\ HandleCommitted(e.occ)
      \/ e.kind = "failed" /\ HandleFailed(e.occ, e.cause)
  BY <1>1 DEF Handle, Events
<1>4. PICK o \in Occ : o = e.occ
  BY DEF Events
<1>5. ScopesStand /\ scope' \in [Occ -> ScopeStates]
  BY <1>3, <1>4 DEF HandleExposed, HandleCommitted, HandleFailed, ScopesStand, Settled, VesselInv,
                    WorkTypes, ScopeStates
<1>6. CallTypes' /\ CallsInProgress'
  <2>1. settling = NotSettling /\ answering = NotAnswering
    BY DEF Quiet
  <2>2. CASE UNCHANGED <<settling, answering>>
    BY <2>1, <2>2, NoCall
  <2>3. CASE Notify(o, "ScopeOpened") /\ UNCHANGED settling
    BY <2>3, CallNotify
  <2>4. CASE /\ Settle(o, "Failed", "unresolved") /\ UNCHANGED answering
             /\ Settled(o) \/ ~Settled(o)'
    BY <2>1, <2>4, CallSettle DEF Terminal
  <2>5. CASE HandleExposed(o) /\ ~Settled(o)
    <3>1. ~Settled(o)'
      BY <2>5 DEF HandleExposed, Settled, Terminal, VesselInv, WorkTypes
    <3>2. QED
      BY <2>2, <2>3, <2>4, <2>5, <3>1 DEF HandleExposed, Refuse, Attach
  <2>6. CASE HandleFailed(o, e.cause)
    <3>1. Settled(o) <=> Settled(o)'
      BY <2>6 DEF HandleFailed, Settled
    <3>2. QED
      BY <2>2, <2>4, <2>6, <3>1 DEF HandleFailed
  <2>7. QED
    BY <1>3, <1>4, <2>2, <2>3, <2>5, <2>6 DEF HandleExposed, HandleCommitted
<1>7. /\ UNCHANGED <<attempts, notBefore, withheld, inflight, timeline, now>>
      /\ UNCHANGED <<steps, pc, after, result, ending>> /\ moved' = TRUE /\ values' = values
      /\ refused' \subseteq Occ /\ deferred' \subseteq Occ
  <2>1. refused' \subseteq Occ /\ deferred' \subseteq Occ
    BY <1>3, <1>4 DEF HandleExposed, HandleCommitted, HandleFailed, Refuse, Attach, VesselInv,
                      Bookkeeping
  <2>2. QED
    BY <2>1 DEF Handle, hostVars
<1>8. WorkTypes' /\ Bookkeeping' /\ Matches(timeline, inflight)'
  BY <1>5, <1>7 DEF VesselInv, WorkTypes, Bookkeeping, Matches
<1>9. \A l \in Leaf : Exhausted(l)'
  BY <1>5, <1>7, QuietExhausted
<1>10. QED
  BY <1>2, <1>5, <1>6, <1>7, <1>8, <1>9, OtherStepsInv

-----------------------------------------------------------------------------
(* Attempts.                                                               *)

\* A wakeup is a well-typed item.
LEMMA WakeupIsItem ==
  ASSUME NEW o \in Occ, NEW kind \in {"backoff", "timer"}, NEW at \in Nat
  PROVE  Wakeup(o, kind, at) \in Item /\ Wakeup(o, kind, at).kind # "completion"
BY RunTypes DEF Wakeup, Item

\* The first attempt is made only with the Touchdown consumed by this run.
LEMMA StartIsAuthorized ==
  ASSUME VesselInv, NEW l \in Leaf, attempts[l] = 0, ConsumeTouchdown(l, TRUE, Own),
         Authorizes(ConsumeResult(l, TRUE, Own))
  PROVE  td'[l] = "consumed" /\ consumedBy'[l] = Own
<1>1. ConsumeResult(l, TRUE, Own) \in {"consumed", "consumed-replayed"}
  BY DEF Authorizes
<1>2. CASE ConsumeResult(l, TRUE, Own) = "consumed"
  BY <1>2 DEF ConsumeTouchdown, VesselInv, Inv, CarouselTypeOK
<1>3. CASE ConsumeResult(l, TRUE, Own) = "consumed-replayed"
  <2>1. UNCHANGED <<td, consumedBy>>
    BY <1>3 DEF ConsumeTouchdown
  <2>2. td[l] = "consumed" /\ consumedBy[l] = Own
    BY <1>3 DEF ConsumeResult, VesselInv, Inv, CarouselTypeOK
  <2>3. QED
    BY <2>1, <2>2
<1>4. QED
  BY <1>1, <1>2, <1>3

\* The answer of the Host to an attempt is a well-typed item.
LEMMA AnswerIsItem ==
  ASSUME VesselInv, NEW l \in Leaf, attempts[l] < MaxAttempts, NEW outcome \in Outcomes[l]
  PROVE  [at |-> now + outcome.ticks, kind |-> "completion", occ |-> l, no |-> attempts[l] + 1,
          status |-> outcome.status, out |-> outcome.out] \in Item
<1>1. attempts[l] + 1 \in 1..MaxAttempts /\ l \in Occ
  BY RunTypes DEF VesselInv, WorkTypes, Leaf
<1>2. outcome.ticks \in Nat /\ outcome.status \in Statuses /\ outcome.out \in {"value", "NoOutput"}
  BY RunTypes DEF Statuses
<1>3. QED
  BY <1>1, <1>2 DEF Item, VesselInv, WorkTypes

\* The Host is called for a leaf that may start.
LEMMA InvokeInv ==
  ASSUME VesselInv, Inv', AcknowledgementsStand, Bookkeeping', NEW l \in Leaf, MayStart(l),
         td'[l] = "consumed" /\ consumedBy'[l] = Own, NEW outcome \in Outcomes[l], Invoke(l, outcome),
         settling = NotSettling, answering.event # "AttemptOutcome",
         settling' = NotSettling, answering' = NotAnswering,
         UNCHANGED <<values, scope, notBefore, now>>
  PROVE  VesselInv'
<1> DEFINE no == attempts[l] + 1
           b == [leaf |-> l, no |-> no, cancelled |-> FALSE]
           item == [at |-> now + outcome.ticks, kind |-> "completion", occ |-> l,
                    no |-> no, status |-> outcome.status, out |-> outcome.out]
<1>1. /\ attempts' = [attempts EXCEPT ![l] = no]
      /\ inflight' = inflight \cup {b}
      /\ timeline' = Insert(timeline, item)
  BY DEF Invoke
<1>2. no \in 1..MaxAttempts /\ attempts[l] \in Nat /\ l \in Occ
  BY RunTypes DEF MayStart, VesselInv, WorkTypes, Leaf
<1>3. item \in Item
  BY AnswerIsItem DEF MayStart
<1>5. \A a \in inflight : a.leaf # l
  BY DEF MayStart, InFlight
<1>6. timeline' \in Seq(Item) /\ Matches(timeline, inflight)'
  <2>1. Completes(item, b) /\ b.leaf = l
    BY DEF Completes
  <2>2. timeline \in Seq(Item) /\ Matches(timeline, inflight)
    BY DEF VesselInv, WorkTypes
  <2> HIDE DEF item, b
  <2>3. Insert(timeline, item) \in Seq(Item) /\ Matches(Insert(timeline, item), inflight \cup {b})
    BY <1>3, <1>5, <2>1, <2>2, InsertCompletion
  <2>4. QED
    BY <1>1, <2>3 DEF Matches
<1>7. IsFiniteSet(inflight') /\ Cardinality(inflight') <= Concurrency
  <2>1. IsFiniteSet(inflight) /\ Cardinality(inflight) < Concurrency
    BY DEF VesselInv, WorkTypes, MayStart
  <2>2. Cardinality(inflight) \in Nat /\ Concurrency \in Nat
    BY <2>1, FS_CardinalityType, RunTypes
  <2>3. /\ IsFiniteSet(inflight \cup {b})
        /\ Cardinality(inflight \cup {b}) = IF b \in inflight THEN Cardinality(inflight)
                                            ELSE Cardinality(inflight) + 1
    BY <2>1, FS_AddElement
  <2>4. QED
    BY <1>1, <2>1, <2>2, <2>3
<1>8. \A k \in Leaf : attempts'[k] = IF k = l THEN no ELSE attempts[k]
  BY <1>1 DEF VesselInv, WorkTypes
<1>9. WorkTypes'
  <2>1. attempts' \in [Leaf -> 0..MaxAttempts]
    BY <1>1, <1>2 DEF VesselInv, WorkTypes
  <2>2. \A a \in inflight' : a \in [leaf : Leaf, no : 1..MaxAttempts, cancelled : BOOLEAN]
    <3>1. b \in [leaf : Leaf, no : 1..MaxAttempts, cancelled : BOOLEAN]
      BY <1>2
    <3>2. QED
      BY <1>1, <3>1 DEF VesselInv, WorkTypes
  <2>3. QED
    BY <1>6, <1>7, <2>1, <2>2 DEF VesselInv, WorkTypes
<1>10. CallTypes' /\ CallsInProgress'
  BY NoCall
<1>11. Precedence'
  BY <1>8 DEF Precedence, MayStart, VesselInv
<1>12. AttemptAccounting'
  <2>1. \A k \in Leaf : attempts'[k] > 0 => td'[k] = "consumed" /\ consumedBy'[k] = Own
    BY <1>8 DEF VesselInv, AttemptAccounting, AcknowledgementsStand
  <2>2. \A a \in inflight' : a.no = attempts'[a.leaf]
    <3>1. \A a \in inflight : a.leaf \in Leaf /\ a.no = attempts[a.leaf]
      BY DEF VesselInv, AttemptAccounting, WorkTypes
    <3>2. QED
      BY <1>1, <1>5, <1>8, <3>1
  <2>3. \A a, c \in inflight' : a.leaf = c.leaf => a = c
    <3>1. \A a, c \in inflight : a.leaf = c.leaf => a = c
      BY DEF VesselInv, AttemptAccounting
    <3>2. b.leaf = l
      OBVIOUS
    <3> HIDE DEF b
    <3>3. QED
      BY <1>1, <1>5, <3>1, <3>2
  <2>4. \A a \in inflight' : \E i \in DOMAIN timeline' : Completes(timeline'[i], a)
    BY <1>6 DEF Matches
  <2>5. QED
    BY <1>7, <2>1, <2>2, <2>3, <2>4 DEF AttemptAccounting, Completes
<1>13. OutputsAreFinal'
  BY DEF VesselInv, OutputsAreFinal
<1>14. AttemptsEnd'
  <2>1. \A k \in Leaf : k # l => attempts[k] < MaxAttempts \/ Settled(k) \/ InFlight(k)
    BY ProgramTypes DEF VesselInv, AttemptsEnd, Exhausted, NotSettling, Leaf
  <2>2. \A k \in Leaf : InFlight(k) \/ k = l => InFlight(k)'
    <3>1. b.leaf = l
      OBVIOUS
    <3> HIDE DEF b
    <3>2. QED
      BY <1>1, <3>1 DEF InFlight
  <2>3. \A k \in Leaf : Exhausted(k)'
    BY <1>8, <2>1, <2>2 DEF Exhausted, Settled
  <2>4. \A a \in inflight' : a.cancelled => Settled(a.leaf)'
    BY <1>1 DEF VesselInv, AttemptsEnd, Settled
  <2>5. QED
    BY <2>3, <2>4 DEF AttemptsEnd
<1>15. QED
  BY <1>6, <1>9, <1>10, <1>11, <1>12, <1>13, <1>14 DEF VesselInv

\* An attempt starts, or its leaf fails without authorization.
LEMMA StartInv ==
  ASSUME VesselInv, Bookkeeping', NEW l \in Leaf, MayStart(l), StartAttempt(l),
         settling = NotSettling, answering.event # "AttemptOutcome",
         answering' = NotAnswering, UNCHANGED <<scope, now>>
  PROVE  VesselInv'
<1>1. UNCHANGED <<order, state, demanded, prefetch, pass, events, ledger, values, notBefore>>
  BY DEF StartAttempt
<1>2. Inv' /\ AcknowledgementsStand
  <2>1. CASE attempts[l] = 0
    <3>1. ConsumeTouchdown(l, TRUE, Own) /\ Own \in Attempt
      BY <2>1, RunTypes DEF StartAttempt
    <3>2. Inv'
      BY <1>1, <3>1, ConsumeInv DEF VesselInv
    <3>3. \/ /\ td[l] = "buffered"
             /\ td' = [td EXCEPT ![l] = "consumed"]
             /\ consumedBy' = [consumedBy EXCEPT ![l] = Own]
          \/ td' = td /\ consumedBy' = consumedBy
      BY <3>1, ConsumeFacts DEF VesselInv, touchdownVars
    <3>4. AcknowledgementsStand
      BY <3>3 DEF VesselInv, Inv, CarouselTypeOK, AcknowledgementsStand
    <3>5. QED
      BY <3>2, <3>4
  <2>2. CASE attempts[l] # 0
    <3>1. UNCHANGED touchdownVars
      BY <2>2 DEF StartAttempt
    <3>2. QED
      BY <1>1, <3>1, InvStutters
         DEF VesselInv, vars, carouselVars, touchdownVars, AcknowledgementsStand
  <2>3. QED
    BY <2>1, <2>2
<1>3. CASE attempts[l] > 0 \/ Authorizes(ConsumeResult(l, TRUE, Own))
  <2>1. PICK outcome \in Outcomes[l] : Invoke(l, outcome)
    BY <1>3 DEF StartAttempt
  <2>2. td'[l] = "consumed" /\ consumedBy'[l] = Own
    <3>1. CASE attempts[l] > 0
      BY <1>2, <3>1 DEF VesselInv, AttemptAccounting, AcknowledgementsStand
    <3>2. CASE ~(attempts[l] > 0)
      <4>1. attempts[l] = 0
        BY <3>2 DEF VesselInv, WorkTypes
      <4>2. QED
        BY <1>3, <3>2, <4>1, StartIsAuthorized DEF StartAttempt
    <3>3. QED
      BY <3>1, <3>2
  <2>3. settling' = NotSettling
    BY <2>1 DEF Invoke
  <2>4. QED
    BY <1>1, <1>2, <2>1, <2>2, <2>3, InvokeInv
<1>4. CASE ~(attempts[l] > 0 \/ Authorizes(ConsumeResult(l, TRUE, Own)))
  <2>1. Settle(l, "Failed", "unresolved") /\ UNCHANGED <<attempts, inflight, timeline>>
    BY <1>4 DEF StartAttempt
  <2>2. WorkTypes' /\ Matches(timeline, inflight)' /\ ScopesStand
    BY <1>1, <2>1 DEF VesselInv, WorkTypes, Matches, ScopesStand
  <2>3. CallTypes' /\ CallsInProgress'
    BY <2>1, CallSettle DEF Settled, Leaf, Terminal
  <2>4. \A k \in Leaf : Exhausted(k)'
    <3>1. \A k \in Leaf : attempts[k] < MaxAttempts \/ Settled(k) \/ InFlight(k)
      BY ProgramTypes DEF VesselInv, AttemptsEnd, Exhausted, NotSettling, Leaf
    <3>2. QED
      BY <2>1, <3>1 DEF Exhausted, Settled, InFlight
  <2>5. QED
    BY <1>1, <1>2, <2>1, <2>2, <2>3, <2>4, OtherStepsInv
<1>5. QED
  BY <1>3, <1>4

\* dispatch takes the first leaf that may start.
LEMMA DispatchPicks ==
  ASSUME VesselInv, Quiet, Dispatch
  PROVE  \E l \in Leaf \cap Exposed :
           /\ MayStart(l) /\ scope[l] = "Open" /\ StructurallyReady(l)
           /\ BeforeAttempt(l) \/ \E ticks \in Withhold : WithholdDispatch(l, ticks)
<1>1. PICK l \in Leaf \cap Exposed : l = First(Dispatchable) /\ l \in Dispatchable
  <2>1. Dispatchable \subseteq Exposed /\ Dispatchable \subseteq Leaf /\ Dispatchable # {}
    BY DEF Dispatch, Dispatchable, Eligible
  <2>2. order \in Seq(Occ)
    BY DEF VesselInv, Inv, CarouselTypeOK
  <2>3. First(Dispatchable) \in Dispatchable
    BY <2>1, <2>2, FirstInSet
  <2>4. QED
    BY <2>1, <2>3
<1>2. scope[l] = "Open" /\ ~InFlight(l) /\ StructurallyReady(l) /\ Cardinality(inflight) < Concurrency
  BY <1>1 DEF Dispatchable, Eligible
<1>3. ~Settled(l)
  BY <1>2 DEF Settled, Terminal
<1>4. settling.occ # l /\ answering.occ # l
  BY ProgramTypes DEF Quiet, NotSettling, NotAnswering, Leaf
<1>5. attempts[l] < MaxAttempts
  BY <1>2, <1>3, <1>4 DEF VesselInv, AttemptsEnd, Exhausted
<1>6. MayStart(l)
  BY <1>2, <1>5 DEF MayStart, StructurallyReady
<1>7. BeforeAttempt(l) \/ \E ticks \in Withhold : WithholdDispatch(l, ticks)
  BY <1>1 DEF Dispatch
<1>8. QED
  BY <1>2, <1>6, <1>7

\* The next leaf that is ready is withheld, or its policies are asked first.
LEMMA DispatchSteps ==
  ASSUME VesselInv, Quiet, Dispatch
  PROVE  VesselInv'
<1>1. PICK l \in Leaf : /\ MayStart(l)
                        /\ BeforeAttempt(l) \/ \E ticks \in Withhold : WithholdDispatch(l, ticks)
  BY DispatchPicks
<1>2. MayStart(l)
  BY <1>1
<1>3. /\ BeforeAttempt(l) \/ \E ticks \in Withhold : WithholdDispatch(l, ticks)
      /\ moved' = TRUE
      /\ UNCHANGED <<refused, deferred, now, steps, pc, after, scope, result, ending>>
  BY <1>1 DEF Dispatch
<1>4. settling = NotSettling /\ answering = NotAnswering /\ l \in Occ /\ ScopesStand
  BY <1>3 DEF Quiet, Leaf, ScopesStand
<1>5. Bookkeeping'
  <2>1. withheld' \subseteq Leaf
    BY <1>3 DEF BeforeAttempt, WithholdDispatch, VesselInv, Bookkeeping
  <2>2. QED
    BY <1>3, <2>1 DEF VesselInv, Bookkeeping
<1>6. ASSUME NEW ticks \in Withhold, WithholdDispatch(l, ticks)
      PROVE  VesselInv'
  <2>1. ticks \in Nat /\ now + ticks \in Nat
    BY RunTypes DEF VesselInv, WorkTypes
  <2>2. timeline' \in Seq(Item) /\ Matches(timeline', inflight)
    <3>1. timeline \in Seq(Item) /\ Matches(timeline, inflight)
      BY DEF VesselInv, WorkTypes
    <3>2. QED
      BY <1>4, <1>6, <2>1, <3>1, WakeupIsItem, InsertWakeup DEF WithholdDispatch
  <2>3. WorkTypes' /\ Matches(timeline, inflight)'
    BY <1>3, <1>6, <2>1, <2>2 DEF WithholdDispatch, VesselInv, WorkTypes, Matches
  <2>4. CallTypes' /\ CallsInProgress'
    BY <1>4, <1>6, NoCall DEF WithholdDispatch
  <2>5. Inv' /\ AcknowledgementsStand /\ UNCHANGED <<values, attempts, inflight>>
    BY <1>6, InvStutters
       DEF WithholdDispatch, vars, carouselVars, touchdownVars, AcknowledgementsStand, VesselInv
  <2>6. QED
    BY <1>4, <1>5, <2>3, <2>4, <2>5, QuietExhausted, OtherStepsInv
<1>7. CASE Silent(l, "BeforeAttempt") /\ StartAttempt(l)
  BY <1>2, <1>3, <1>4, <1>5, <1>7, StartInv DEF Silent, NotAnswering
<1>8. CASE /\ Consult(l, "BeforeAttempt", "none", "unresolved")
           /\ UNCHANGED <<vars, attempts, notBefore, inflight, timeline, settling>>
  <2>1. WorkTypes' /\ Matches(timeline, inflight)'
    BY <1>3, <1>8 DEF VesselInv, WorkTypes, Matches
  <2>2. MayStart(l)'
    BY <1>2, <1>3, <1>8 DEF MayStart, InFlight
  <2>3. CallTypes' /\ CallsInProgress'
    BY <1>4, <1>8, <2>2, CallConsult DEF PolicyEvent
  <2>4. Inv' /\ AcknowledgementsStand /\ UNCHANGED <<values, attempts, inflight>>
    BY <1>8, InvStutters DEF vars, carouselVars, touchdownVars, AcknowledgementsStand, VesselInv
  <2>5. QED
    BY <1>4, <1>5, <2>1, <2>3, <2>4, QuietExhausted, OtherStepsInv
<1>9. QED
  BY <1>3, <1>6, <1>7, <1>8 DEF BeforeAttempt

-----------------------------------------------------------------------------
(* Policies.                                                               *)

\* One action of an answer is applied, or ends the scope.
LEMMA ApplyActionInv ==
  ASSUME VesselInv, settling = NotSettling, ApplyAction
  PROVE  VesselInv'
<1>1. PICK o \in Occ : o = answering.occ
  <2>1. answering # NotAnswering
    BY DEF ApplyAction, NotAnswering
  <2>2. QED
    BY <2>1 DEF VesselInv, CallsInProgress
<1>2. PICK act \in Action : act = Head(answering.acts)
  <2>1. answering.acts \in Seq(Action) /\ answering.acts # <<>>
    BY DEF ApplyAction, VesselInv, CallTypes
  <2>2. QED
    BY <2>1
<1>3. UNCHANGED <<vars, refused, deferred, attempts, withheld, inflight, now, controlVars, scope, result, ending>>
  BY DEF ApplyAction
<1>4. Inv' /\ AcknowledgementsStand /\ values' = values
  BY <1>3, InvStutters DEF vars, carouselVars, touchdownVars, AcknowledgementsStand, VesselInv
<1>5. Bookkeeping' /\ ScopesStand
  BY <1>3 DEF VesselInv, Bookkeeping, controlVars, ScopesStand
<1>6. \A l \in Leaf : \/ attempts[l] < MaxAttempts \/ Settled(l) \/ InFlight(l)
                      \/ l = o /\ answering.event = "AttemptOutcome"
  BY <1>1, ProgramTypes DEF VesselInv, AttemptsEnd, Exhausted, NotSettling, Leaf
<1>7. CASE Settled(o) \/ Ends(o, act)
  <2>1. PICK st \in {"Cancelled", "Failed"} : Settle(o, st, "unresolved")
    BY <1>1, <1>2, <1>7 DEF ApplyAction
  <2>2. answering' = NotAnswering /\ UNCHANGED <<notBefore, timeline>>
    BY <1>1, <1>2, <1>7 DEF ApplyAction
  <2>3. WorkTypes' /\ Matches(timeline, inflight)'
    BY <1>3, <2>2 DEF VesselInv, WorkTypes, Matches
  <2>4. CallTypes' /\ CallsInProgress'
    BY <1>3, <2>1, <2>2, CallSettle DEF Settled, Terminal
  <2>5. \A l \in Leaf : Exhausted(l)'
    BY <1>3, <1>6, <2>1 DEF Exhausted, Settled, InFlight, Settle
  <2>6. QED
    BY <1>3, <1>4, <1>5, <2>3, <2>4, <2>5, OtherStepsInv
<1>8. CASE ~(Settled(o) \/ Ends(o, act))
  <2>1. /\ Perform(o, act) /\ UNCHANGED settling
        /\ answering' = [answering EXCEPT !.acts = Tail(@)]
    BY <1>1, <1>2, <1>8 DEF ApplyAction
  <2>2. o \in Leaf \/ act.kind # "Hold"
    BY <1>8 DEF Ends
  <2>3. now + act.ticks \in Nat
    BY DEF VesselInv, WorkTypes, Action
  <2>4. timeline' \in Seq(Item) /\ Matches(timeline', inflight) /\ notBefore' \in [Leaf -> Nat]
    <3>1. timeline \in Seq(Item) /\ Matches(timeline, inflight) /\ notBefore \in [Leaf -> Nat]
      BY DEF VesselInv, WorkTypes
    <3>2. CASE UNCHANGED <<notBefore, timeline>>
      BY <3>1, <3>2
    <3>3. ASSUME NEW kind \in {"backoff", "timer"},
                 timeline' = Insert(timeline, Wakeup(o, kind, now + act.ticks))
          PROVE  timeline' \in Seq(Item) /\ Matches(timeline', inflight)
      BY <2>3, <3>1, <3>3, WakeupIsItem, InsertWakeup
    <3>4. CASE act.kind = "Hold" /\ now + act.ticks > notBefore[o]
      <4>1. /\ notBefore' = [notBefore EXCEPT ![o] = now + act.ticks]
            /\ timeline' = Insert(timeline, Wakeup(o, "backoff", now + act.ticks))
        BY <2>1, <3>4 DEF Perform
      <4>2. QED
        BY <2>3, <3>1, <3>3, <4>1
    <3>5. CASE act.kind = "StartTimer"
      <4>1. /\ timeline' = Insert(timeline, Wakeup(o, "timer", now + act.ticks))
            /\ UNCHANGED notBefore
        BY <2>1, <3>5 DEF Perform
      <4>2. QED
        BY <3>1, <3>3, <4>1
    <3>6. QED
      BY <2>1, <3>2, <3>4, <3>5 DEF Perform
  <2>5. WorkTypes' /\ Matches(timeline, inflight)'
    BY <1>3, <2>4 DEF VesselInv, WorkTypes, Matches
  <2>6. CallTypes'
    <3>1. answering.acts \in Seq(Action) /\ answering.acts # <<>>
      BY DEF ApplyAction, VesselInv, CallTypes
    <3>2. Tail(answering.acts) \in Seq(Action)
      BY <3>1
    <3>3. QED
      BY <2>1, <3>2 DEF VesselInv, CallTypes
  <2>7. CallsInProgress'
    <3>1. /\ answering'.occ = answering.occ /\ answering'.event = answering.event
          /\ answering'.st = answering.st
      BY <2>1 DEF VesselInv, CallTypes
    <3>2. answering # NotAnswering /\ settling' = NotSettling
      BY <2>1 DEF ApplyAction, NotAnswering
    <3>3. MayStart(o) => MayStart(o)'
      BY <1>3 DEF MayStart, InFlight
    <3>4. Settled(o)' <=> Settled(o)
      BY <1>3 DEF Settled
    <3>5. ChildrenOf(o)' = ChildrenOf(o)
      BY DEF ChildrenOf
    <3>6. QED
      BY <1>1, <3>1, <3>2, <3>3, <3>4, <3>5 DEF VesselInv, CallsInProgress
  <2>8. \A l \in Leaf : Exhausted(l)'
    <3>1. answering'.occ = o /\ answering'.event = answering.event
      BY <1>1, <2>1 DEF VesselInv, CallTypes
    <3>2. QED
      BY <1>3, <1>6, <3>1 DEF Exhausted, Settled, InFlight
  <2>9. QED
    BY <1>3, <1>4, <1>5, <2>5, <2>6, <2>7, <2>8, OtherStepsInv
<1>9. QED
  BY <1>7, <1>8

\* A parent with children proposes nothing, or an outcome of its own.
LEMMA ParentProposes ==
  ASSUME NEW p \in Occ, ChildrenOf(p) # {}, NEW s \in [Occ -> ScopeStates],
         NEW v \in [Occ -> {"unresolved", "value", "NoOutput"}]
  PROVE  \/ EvaluateParent(p, s, v) = NotSettling
         \/ \E st \in Terminal, out \in {"unresolved", "value", "NoOutput"} :
              EvaluateParent(p, s, v) = Proposal(p, st, out)
<1> DEFINE e == EvaluateParent(p, s, v)
           body == CHOOSE c \in ChildrenOf(p) : TRUE
<1>1. body \in Occ
  BY DEF ChildrenOf
<1>2. CASE Kind[p] \in {"Goal", "arrow"}
  <2>1. CASE s[body] \notin Terminal
    BY <1>2, <2>1 DEF EvaluateParent
  <2>2. CASE s[body] \in Terminal
    <3>1. e = Proposal(p, IF s[body] = "Withdrawn" THEN "Failed" ELSE s[body], v[body])
      BY <1>2, <2>2 DEF EvaluateParent
    <3>2. (IF s[body] = "Withdrawn" THEN "Failed" ELSE s[body]) \in Terminal
      BY <2>2 DEF Terminal
    <3>3. v[body] \in {"unresolved", "value", "NoOutput"}
      BY <1>1
    <3>4. QED
      BY <3>1, <3>2, <3>3
  <2>3. QED
    BY <2>1, <2>2
<1>3. CASE Kind[p] \notin {"Goal", "arrow"} /\ \E c \in ChildrenOf(p) : s[c] \in {"Failed", "Cancelled", "Withdrawn"}
  <2>1. e = Proposal(p, "Failed", "unresolved")
    BY <1>3 DEF EvaluateParent
  <2>2. QED
    BY <2>1 DEF Terminal
<1>4. CASE Kind[p] \notin {"Goal", "arrow"} /\ ~\E c \in ChildrenOf(p) : s[c] \in {"Failed", "Cancelled", "Withdrawn"}
  <2>1. CASE Kind[p] = "serial"
    <3>1. LastChild(p) \in ChildrenOf(p)
      BY <2>1, LastElement
    <3>2. v[LastChild(p)] \in {"unresolved", "value", "NoOutput"}
      BY <3>1 DEF ChildrenOf
    <3>3. CASE s[LastChild(p)] = "Satisfied"
      <4>1. e = Proposal(p, "Satisfied", v[LastChild(p)])
        BY <1>4, <2>1, <3>3 DEF EvaluateParent
      <4>2. QED
        BY <3>2, <4>1 DEF Terminal
    <3>4. CASE s[LastChild(p)] # "Satisfied"
      BY <1>4, <2>1, <3>4 DEF EvaluateParent
    <3>5. QED
      BY <3>3, <3>4
  <2>2. CASE Kind[p] # "serial"
    <3>1. \/ e = NotSettling
          \/ e = Proposal(p, "Satisfied", "NoOutput")
          \/ e = Proposal(p, "Failed", "unresolved")
          \/ e = Proposal(p, "Satisfied", "value")
      BY <1>4, <2>2 DEF EvaluateParent
    <3>2. QED
      BY <3>1 DEF Terminal
  <2>3. QED
    BY <2>1, <2>2
<1>5. QED
  BY <1>2, <1>3, <1>4

\* An outcome is proposed for an open scope.
LEMMA CallPropose ==
  ASSUME NEW p \in Occ, ~Settled(p)', NEW proposal, Propose(proposal),
         \/ proposal = NotSettling
         \/ \E st \in Terminal, out \in {"unresolved", "value", "NoOutput"} :
              proposal = Proposal(p, st, out)
  PROVE  CallTypes' /\ CallsInProgress'
<1>1. CASE proposal = NotSettling
  <2>1. settling' = NotSettling
    BY <1>1 DEF Propose
  <2>2. answering' = NotAnswering
    BY <1>1 DEF Propose
  <2>3. QED
    BY <2>1, <2>2, NoCall
<1>2. CASE proposal # NotSettling
  <2>1. PICK st \in Terminal, out \in {"unresolved", "value", "NoOutput"} : proposal = Proposal(p, st, out)
    BY <1>2
  <2>2. proposal.occ = p /\ proposal.st = st /\ proposal.out = out
    BY <2>1 DEF Proposal
  <2>3. CASE Consult(proposal.occ, "ScopeOutcomeProposed", proposal.st, proposal.out) /\ settling' = NotSettling
    BY <2>2, <2>3, CallConsult DEF PolicyEvent
  <2>4. CASE answering' = NotAnswering /\ settling' = proposal
    <3>1. CallTypes'
      BY <2>1, <2>4 DEF CallTypes, Proposal, NotAnswering
    <3>2. CallsInProgress'
      BY <2>2, <2>4 DEF CallsInProgress, NotAnswering
    <3>3. QED
      BY <3>1, <3>2
  <2>5. QED
    BY <1>2, <2>3, <2>4 DEF Propose, Silent
<1>3. QED
  BY <1>1, <1>2

\* No action of an answer ended the scope.
LEMMA AnsweredInv ==
  ASSUME VesselInv, settling = NotSettling, Answered
  PROVE  VesselInv'
<1>1. PICK o \in Occ : o = answering.occ
  <2>1. answering # NotAnswering
    BY DEF Answered, NotAnswering
  <2>2. QED
    BY <2>1 DEF VesselInv, CallsInProgress
<1>2. UNCHANGED <<refused, deferred, withheld, now, controlVars, scope, result, ending>>
  BY DEF Answered
<1>3. Bookkeeping' /\ ScopesStand
  BY <1>2 DEF VesselInv, Bookkeeping, controlVars, ScopesStand
<1>4. \A l \in Leaf : \/ attempts[l] < MaxAttempts \/ Settled(l) \/ InFlight(l)
                      \/ l = o /\ answering.event = "AttemptOutcome"
  BY <1>1, ProgramTypes DEF VesselInv, AttemptsEnd, Exhausted, NotSettling, Leaf
<1>5. CASE answering.event = "BeforeAttempt" /\ ~Held(o)
  <2>1. StartAttempt(o) /\ answering' = NotAnswering
    BY <1>1, <1>5 DEF Answered
  <2>2. MayStart(o) /\ o \in Leaf
    BY <1>1, <1>5 DEF VesselInv, CallsInProgress, MayStart
  <2>3. QED
    BY <1>2, <1>3, <1>5, <2>1, <2>2, StartInv
<1>6. ASSUME UNCHANGED <<vars, attempts, notBefore, inflight, timeline>>,
             CallTypes' /\ CallsInProgress', \A l \in Leaf : Exhausted(l)'
      PROVE  VesselInv'
  <2>1. Inv' /\ AcknowledgementsStand /\ values' = values
    BY <1>6, InvStutters DEF vars, carouselVars, touchdownVars, AcknowledgementsStand, VesselInv
  <2>2. WorkTypes' /\ Matches(timeline, inflight)'
    BY <1>2, <1>6 DEF VesselInv, WorkTypes, Matches
  <2>3. QED
    BY <1>3, <1>6, <2>1, <2>2, OtherStepsInv
<1>7. CASE answering.event = "ChildScopeOutcome"
  <2>1. /\ Propose(EvaluateParent(o, scope, values))
        /\ UNCHANGED <<vars, attempts, notBefore, inflight, timeline>>
    BY <1>1, <1>7 DEF Answered
  <2>2. ~Settled(o)' /\ ChildrenOf(o) # {}
    BY <1>1, <1>2, <1>7 DEF VesselInv, CallsInProgress, Settled
  <2>3. scope \in [Occ -> ScopeStates] /\ values \in [Occ -> {"unresolved", "value", "NoOutput"}]
    BY DEF VesselInv, WorkTypes, Inv, CarouselTypeOK
  <2>4. PICK proposal : proposal = EvaluateParent(o, scope, values)
    OBVIOUS
  <2>5. CallTypes' /\ CallsInProgress'
    BY <2>1, <2>2, <2>3, <2>4, ParentProposes, CallPropose
  <2>6. \A l \in Leaf : Exhausted(l)'
    BY <1>2, <1>4, <1>7, <2>1 DEF Exhausted, Settled, InFlight
  <2>7. QED
    BY <1>6, <2>1, <2>5, <2>6
<1>8. CASE answering.event \in {"AttemptOutcome", "ScopeOutcomeProposed"}
  <2>1. /\ Settle(o, answering.st, answering.out) /\ answering' = NotAnswering
        /\ UNCHANGED <<vars, attempts, notBefore, inflight, timeline>>
    BY <1>1, <1>8 DEF Answered
  <2>2. PICK st \in Terminal, out \in {"value", "NoOutput", "unresolved"} : st = answering.st /\ out = answering.out
    BY <1>8 DEF VesselInv, CallsInProgress, CallTypes
  <2>3. CallTypes' /\ CallsInProgress'
    BY <1>2, <2>1, <2>2, CallSettle DEF Settled
  <2>4. \A l \in Leaf : Exhausted(l)'
    BY <1>2, <1>4, <2>1 DEF Exhausted, Settled, InFlight, Settle
  <2>5. QED
    BY <1>6, <2>1, <2>3, <2>4
<1>9. CASE /\ ~(answering.event = "BeforeAttempt" /\ ~Held(o))
           /\ answering.event \notin {"ChildScopeOutcome", "AttemptOutcome", "ScopeOutcomeProposed"}
  <2>1. /\ answering' = NotAnswering /\ UNCHANGED settling
        /\ UNCHANGED <<vars, attempts, notBefore, inflight, timeline>>
    BY <1>1, <1>9 DEF Answered
  <2>2. CallTypes' /\ CallsInProgress'
    BY <2>1, NoCall
  <2>3. \A l \in Leaf : Exhausted(l)'
    BY <1>2, <1>4, <1>9, <2>1 DEF Exhausted, Settled, InFlight
  <2>4. QED
    BY <1>6, <2>1, <2>2, <2>3
<1>10. QED
  BY <1>5, <1>7, <1>8, <1>9

-----------------------------------------------------------------------------
(* Time.                                                                   *)

\* A completion is that of one attempt, the last one of its leaf.
LEMMA DeliveredAttempt ==
  ASSUME VesselInv, timeline # <<>>, NEW item, item = Head(timeline), item.kind = "completion",
         DeliverCompletion(item)
  PROVE  \E b \in inflight :
           /\ Completes(item, b) /\ Attempted(item) = b /\ inflight' = inflight \ {b}
           /\ b.leaf \in Leaf /\ b.no = attempts[b.leaf]
<1>1. timeline \in Seq(Item) /\ Matches(timeline, inflight)
  BY DEF VesselInv, WorkTypes
<1>2. PICK b \in inflight : Completes(item, b)
  <2>1. 1 \in DOMAIN timeline /\ timeline[1] = item
    BY <1>1, TailFacts
  <2>2. QED
    BY <1>1, <2>1 DEF Matches
<1>3. /\ \A a, c \in inflight : a.leaf = c.leaf => a = c
      /\ b.leaf = item.occ /\ b.no = item.no /\ b.leaf \in Leaf /\ b.no = attempts[b.leaf]
  BY <1>2 DEF VesselInv, AttemptAccounting, WorkTypes, Completes
<1>4. Attempted(item) = b
  <2>1. \A a \in inflight : a.leaf = item.occ /\ a.no = item.no <=> a = b
    BY <1>3
  <2>2. QED
    BY <2>1 DEF Attempted
<1>5. inflight' = inflight \ {b}
  BY <1>4 DEF DeliverCompletion
<1>6. QED
  BY <1>2, <1>3, <1>4, <1>5

\* A completion takes its attempt out of flight; its leaf is tried again, or
\* gets its outcome, or its policies are asked.
LEMMA CompletionInv ==
  ASSUME VesselInv, Quiet, Bookkeeping', now' \in Nat, timeline # <<>>,
         NEW item \in Item, item = Head(timeline), item.kind = "completion",
         DeliverCompletion(item), UNCHANGED <<vars, attempts, scope>>
  PROVE  VesselInv'
<1>1. timeline \in Seq(Item) /\ Matches(timeline, inflight)
  BY DEF VesselInv, WorkTypes
<1>2. PICK b \in inflight :
        /\ Completes(item, b) /\ Attempted(item) = b /\ inflight' = inflight \ {b}
        /\ b.leaf \in Leaf /\ b.no = attempts[b.leaf]
  BY DeliveredAttempt
<1>3. /\ \A a, c \in inflight : a.leaf = c.leaf => a = c
      /\ b.leaf = item.occ /\ b.no = item.no /\ b.leaf \in Leaf /\ b.no = attempts[b.leaf]
  BY <1>2 DEF VesselInv, AttemptAccounting, Completes
<1>4. Attempted(item) = b
  BY <1>2
<1>5. PICK l \in Leaf : l = item.occ
  BY <1>3
<1>6. inflight' = inflight \ {b}
  BY <1>2
<1>7. Tail(timeline) \in Seq(Item) /\ Matches(Tail(timeline), inflight')
  <2>1. Matches(Tail(timeline), inflight \ {b})
    BY <1>1, <1>2, <1>3, TailCompletion
  <2>2. Tail(timeline) \in Seq(Item)
    BY <1>1, TailFacts
  <2>3. QED
    BY <1>6, <2>1, <2>2
<1>8. ASSUME timeline' \in Seq(Item), notBefore' \in [Leaf -> Nat], Matches(timeline', inflight'),
             CallTypes' /\ CallsInProgress', Exhausted(l)'
      PROVE  VesselInv'
  <2>1. Inv' /\ td' = td /\ consumedBy' = consumedBy /\ values' = values
    BY InvStutters DEF VesselInv, vars, carouselVars, touchdownVars
  <2>2. IsFiniteSet(inflight') /\ Cardinality(inflight') <= Concurrency
    <3>1. IsFiniteSet(inflight) /\ Cardinality(inflight) <= Concurrency /\ inflight' \in SUBSET inflight
      BY <1>6 DEF VesselInv, WorkTypes, AttemptAccounting
    <3>2. IsFiniteSet(inflight') /\ Cardinality(inflight') <= Cardinality(inflight)
      BY <3>1, FS_Subset
    <3>3. Cardinality(inflight) \in Nat /\ Cardinality(inflight') \in Nat /\ Concurrency \in Nat
      BY <3>1, <3>2, FS_CardinalityType, RunTypes
    <3>4. QED
      BY <3>1, <3>2, <3>3
  <2>3. WorkTypes'
    BY <1>6, <1>8, <2>2 DEF VesselInv, WorkTypes
  <2>4. Precedence' /\ OutputsAreFinal'
    BY <2>1 DEF VesselInv, Precedence, OutputsAreFinal
  <2>5. AttemptAccounting'
    <3>1. \A a \in inflight' : \E i \in DOMAIN timeline' : Completes(timeline'[i], a)
      BY <1>8 DEF Matches
    <3>2. QED
      BY <1>6, <2>1, <2>2, <3>1 DEF VesselInv, AttemptAccounting, Completes
  <2>6. AttemptsEnd'
    <3>1. \A k \in Leaf : attempts[k] < MaxAttempts \/ Settled(k) \/ InFlight(k)
      BY ProgramTypes DEF VesselInv, AttemptsEnd, Exhausted, Quiet, NotSettling, NotAnswering, Leaf
    <3>2. \A k \in Leaf : k # l /\ InFlight(k) => InFlight(k)'
      BY <1>3, <1>5, <1>6 DEF InFlight
    <3>3. \A k \in Leaf : Exhausted(k)'
      BY <1>8, <3>1, <3>2 DEF Exhausted, Settled
    <3>4. QED
      BY <1>6, <3>3 DEF VesselInv, AttemptsEnd, Settled
  <2>7. QED
    BY <1>8, <2>1, <2>3, <2>4, <2>5, <2>6 DEF VesselInv, Matches
<1>9. settling = NotSettling /\ answering = NotAnswering
  BY DEF Quiet
<1>10. notBefore \in [Leaf -> Nat] /\ item.no = attempts[l] /\ l \in Occ
  BY <1>3, <1>5 DEF VesselInv, WorkTypes, Leaf
<1>11. CASE b.cancelled
  <2>1. timeline' = Tail(timeline) /\ UNCHANGED <<notBefore, settling, answering>>
    BY <1>4, <1>11 DEF DeliverCompletion
  <2>2. Settled(l)'
    BY <1>3, <1>5, <1>11 DEF VesselInv, AttemptsEnd, Settled
  <2>3. Exhausted(l)'
    BY <2>2 DEF Exhausted
  <2>4. QED
    BY <1>7, <1>8, <1>9, <1>10, <2>1, <2>3, NoCall
<1>12. CASE ~b.cancelled
  <2>1. PICK acts \in Interp[l]["AttemptOutcome"] : AttemptOutcome(item, acts)
    BY <1>4, <1>5, <1>12 DEF DeliverCompletion
  <2>2. acts \in Seq(Action)
    BY <1>10, RunTypes DEF PolicyEvent
  <2>3. PICK st \in Terminal, out \in {"value", "NoOutput", "unresolved"} :
          /\ st = ScopeOf(item.status)
          /\ out = IF item.status = "Succeeded" THEN item.out ELSE "unresolved"
    BY DEF ScopeOf, Terminal, Item
  <2>4. ASSUME item.no < MaxAttempts, UNCHANGED <<settling, answering>>,
               timeline' \in Seq(Item), notBefore' \in [Leaf -> Nat], Matches(timeline', inflight')
        PROVE  VesselInv'
    <3>1. Exhausted(l)'
      BY <1>10, <2>4 DEF Exhausted
    <3>2. QED
      BY <1>8, <1>9, <2>4, <3>1, NoCall
  <2>5. CASE /\ item.no < MaxAttempts /\ UNCHANGED <<settling, answering>>
             /\ \E i \in DOMAIN acts : Reattempt(item.occ, acts[i].ticks)
    <3>1. PICK i \in DOMAIN acts : Reattempt(l, acts[i].ticks)
      BY <1>5, <2>5
    <3>2. PICK ticks \in Nat : ticks = acts[i].ticks
      <4>1. acts[i] \in Action
        BY <2>2
      <4>2. acts[i].ticks \in Nat
        BY <4>1 DEF Action
      <4>3. QED
        BY <4>2
    <3>3. notBefore' \in [Leaf -> Nat] /\ now' + ticks \in Nat
      BY <1>10, <3>1, <3>2 DEF Reattempt
    <3>4. timeline' \in Seq(Item) /\ Matches(timeline', inflight')
      <4>1. CASE ticks = 0
        BY <1>7, <3>1, <3>2, <4>1 DEF Reattempt
      <4>2. CASE ticks # 0
        <5>1. timeline' = Insert(Tail(timeline), Wakeup(l, "backoff", now' + ticks))
          BY <3>1, <3>2, <4>2 DEF Reattempt
        <5>2. PICK w \in Item : w = Wakeup(l, "backoff", now' + ticks) /\ w.kind # "completion"
          BY <1>10, <3>3, WakeupIsItem
        <5>3. QED
          BY <1>7, <5>1, <5>2, InsertWakeup
      <4>3. QED
        BY <4>1, <4>2
    <3>5. QED
      BY <2>4, <2>5, <3>3, <3>4
  <2>6. CASE /\ item.no < MaxAttempts /\ timeline' = Tail(timeline)
             /\ UNCHANGED <<notBefore, settling, answering>>
    BY <1>7, <1>10, <2>4, <2>6
  <2>7. CASE /\ timeline' = Tail(timeline) /\ UNCHANGED notBefore
             /\ \/ Settle(item.occ, st, out) /\ UNCHANGED answering
                \/ /\ answering' = [occ |-> item.occ, event |-> "AttemptOutcome", acts |-> acts,
                                    st |-> st, out |-> out]
                   /\ UNCHANGED settling
    <3>1. CASE Settle(l, st, out) /\ UNCHANGED answering
      <4>1. CallTypes' /\ CallsInProgress'
        BY <1>9, <1>10, <3>1, CallSettle DEF Settled
      <4>2. Exhausted(l)'
        BY <3>1 DEF Exhausted, Settle, Settled
      <4>3. QED
        BY <1>7, <1>8, <1>10, <2>7, <4>1, <4>2
    <3>2. CASE /\ answering' = [occ |-> l, event |-> "AttemptOutcome", acts |-> acts,
                                st |-> st, out |-> out]
               /\ UNCHANGED settling
      <4>1. CallTypes'
        BY <1>9, <1>10, <2>2, <3>2 DEF CallTypes, NotSettling, PolicyEvent
      <4>2. CallsInProgress'
        BY <1>9, <1>10, <3>2 DEF CallsInProgress, PolicyEvent
      <4>3. Exhausted(l)'
        BY <3>2 DEF Exhausted
      <4>4. QED
        BY <1>7, <1>8, <1>10, <2>7, <4>1, <4>2, <4>3
    <3>3. QED
      BY <1>5, <2>7, <3>1, <3>2
  <2>8. QED
    BY <2>1, <2>3, <2>5, <2>6, <2>7 DEF AttemptOutcome
<1>13. QED
  BY <1>11, <1>12

\* Step delivers one item of the timeline: a completion, a timer or a wakeup.
LEMMA DeliverSteps ==
  ASSUME VesselInv, Quiet, Deliver
  PROVE  VesselInv'
<1>1. timeline \in Seq(Item) /\ timeline # <<>> /\ now \in Nat /\ Matches(timeline, inflight)
  BY DEF Deliver, VesselInv, WorkTypes
<1>2. PICK item \in Item : item = Head(timeline)
  BY <1>1
<1>3. now' \in Nat /\ UNCHANGED <<vars, refused, deferred, attempts, withheld, steps, after, moved, scope, result, ending>>
  BY <1>1, <1>2 DEF Deliver, Item
<1>4. Bookkeeping' /\ ScopesStand
  BY <1>3 DEF Deliver, VesselInv, Bookkeeping, ScopesStand
<1>5. CASE item.kind = "completion"
  <2>1. DeliverCompletion(item)
    BY <1>2, <1>5 DEF Deliver
  <2>2. QED
    BY <1>1, <1>2, <1>3, <1>4, <1>5, <2>1, CompletionInv
<1>6. CASE item.kind # "completion"
  <2>1. /\ timeline' = Tail(timeline) /\ UNCHANGED <<notBefore, inflight, settling>>
        /\ UNCHANGED answering \/ Notify(item.occ, "TimerFired")
    BY <1>2, <1>6 DEF Deliver, DeliverTimer
  <2>2. timeline' \in Seq(Item) /\ Matches(timeline', inflight)
    BY <1>1, <1>2, <1>6, <2>1, TailFacts, TailWakeup
  <2>3. WorkTypes' /\ Matches(timeline, inflight)'
    BY <1>3, <2>1, <2>2 DEF VesselInv, WorkTypes, Matches
  <2>4. PICK o \in Occ : o = item.occ
    BY DEF Item
  <2>5. CallTypes' /\ CallsInProgress'
    <3>1. CASE UNCHANGED answering
      BY <2>1, <3>1, NoCall DEF Quiet
    <3>2. CASE Notify(o, "TimerFired")
      BY <2>1, <3>2, CallNotify
    <3>3. QED
      BY <2>1, <2>4, <3>1, <3>2
  <2>6. Inv' /\ AcknowledgementsStand /\ values' = values
    BY <1>3, InvStutters DEF vars, carouselVars, touchdownVars, AcknowledgementsStand, VesselInv
  <2>7. QED
    BY <1>3, <1>4, <2>1, <2>3, <2>5, <2>6, QuietExhausted, OtherStepsInv
<1>7. QED
  BY <1>5, <1>6

-----------------------------------------------------------------------------
(* settle.                                                                 *)

\* settle, cancelSubtree and evaluateParent in one step: the scopes under an
\* unsatisfied one get their outcomes, their attempts are told to stop but
\* keep their places, and the parent, which is still open, is asked.
LEMMA SettleScopeInv ==
  ASSUME VesselInv, SettleScope
  PROVE  VesselInv'
<1>1. PICK x \in Occ, st \in Terminal, out \in {"value", "NoOutput", "unresolved"} :
        settling = [occ |-> x, st |-> st, out |-> out]
  BY DEF SettleScope, VesselInv, CallsInProgress, CallTypes
<1>2. settling.occ = x /\ settling.st = st /\ settling.out = out
  BY <1>1
<1>3. ~Settled(x) /\ answering = NotAnswering
  BY <1>2 DEF SettleScope, VesselInv, CallsInProgress
<1>4. PICK D : D = IF st = "Satisfied" THEN {} ELSE Dropped(x)
  OBVIOUS
<1>5. PICK parent : parent = Parent[x]
  OBVIOUS
<1>6. /\ scope' = [q \in Occ |->
                     IF q = x THEN st
                     ELSE IF q \notin D THEN scope[q]
                     ELSE IF q \in Undeduced(D) THEN "Withdrawn" ELSE "Cancelled"]
      /\ values' = IF st = "Satisfied" THEN [values EXCEPT ![x] = out] ELSE values
      /\ Withdraw(D \cup {x}) /\ DiscardTouchdowns(D \cup {x})
      /\ CancelAttempts(D)
      /\ IF parent = NoOcc \/ scope[parent] \in Terminal
         THEN settling' = NotSettling /\ UNCHANGED answering
         ELSE ChildOutcome(parent, scope', values')
      /\ IF parent = NoOcc /\ result = "none"
         THEN result' = Status(st) /\ ending' = "settled"
         ELSE UNCHANGED <<result, ending>>
      /\ UNCHANGED <<order, prefetch, pass, events, ledger, schedulerVars, timeline, now, controlVars>>
  BY <1>2, <1>4, <1>5 DEF SettleScope
<1>7. \A q \in D : q \in Occ /\ ~Settled(q) /\ x \in Ancestors[q]
  BY <1>4 DEF Dropped, Under, Exposed, VesselInv, Inv, CarouselTypeOK
<1>8. ScopesStand /\ scope'[x] = st /\ \A q \in D : Settled(q)'
  BY <1>3, <1>6, <1>7 DEF ScopesStand, Settled, Terminal
<1>9. scope' \in [Occ -> ScopeStates]
  BY <1>6 DEF VesselInv, WorkTypes, ScopeStates, Terminal
<1>10. /\ values' \in [Occ -> {"unresolved", "value", "NoOutput"}]
       /\ \A o \in Occ : values[o] # "unresolved" => values'[o] = values[o]
       /\ OutputsAreFinal'
  <2>1. values \in [Occ -> {"unresolved", "value", "NoOutput"}]
    BY DEF VesselInv, Inv, CarouselTypeOK
  <2>2. values[x] = "unresolved" /\ \A q \in D : values[q] = "unresolved"
    BY <1>3, <1>7 DEF VesselInv, OutputsAreFinal, Settled, Terminal
  <2>3. \A o \in Occ : o # x /\ o \notin D => scope'[o] = scope[o]
    BY <1>6
  <2>4. CASE st = "Satisfied"
    BY <1>4, <1>6, <1>8, <2>1, <2>2, <2>3, <2>4 DEF VesselInv, OutputsAreFinal
  <2>5. CASE st # "Satisfied"
    BY <1>6, <2>1, <2>2, <2>3, <2>5 DEF VesselInv, OutputsAreFinal
  <2>6. QED
    BY <2>4, <2>5
<1>11. Inv'
  BY <1>6, <1>10, SettleInv DEF VesselInv
<1>12. AcknowledgementsStand
  BY <1>6 DEF AcknowledgementsStand, DiscardTouchdowns, Buffered
<1>13. Bookkeeping'
  <2>1. Status(st) \in Statuses
    BY DEF Status, Statuses
  <2>2. result' \in Statuses \cup {"none"} /\ (result # "none" => result' # "none")
        /\ ending' \in {"none", "settled", "stuck", "budget"}
    BY <1>6, <2>1 DEF VesselInv, Bookkeeping
  <2>3. QED
    BY <1>6, <2>2 DEF VesselInv, Bookkeeping, schedulerVars, controlVars
<1>14. /\ UNCHANGED <<attempts, notBefore, timeline, now>>
       /\ inflight' = {[a EXCEPT !.cancelled = @ \/ a.leaf \in D] : a \in inflight}
  BY <1>6 DEF schedulerVars, CancelAttempts
<1> DEFINE Told(a) == [a EXCEPT !.cancelled = @ \/ a.leaf \in D]
<1>15. \A a \in inflight : a \in [leaf : Leaf, no : 1..MaxAttempts, cancelled : BOOLEAN]
  BY DEF VesselInv, WorkTypes
<1>16. \A a \in inflight :
         /\ Told(a) \in [leaf : Leaf, no : 1..MaxAttempts, cancelled : BOOLEAN]
         /\ Told(a).leaf = a.leaf /\ Told(a).no = a.no
         /\ Told(a).cancelled => a.cancelled \/ a.leaf \in D
  BY <1>15
<1>17. IsFiniteSet(inflight') /\ Cardinality(inflight') <= Concurrency
  <2>1. IsFiniteSet(inflight) /\ Cardinality(inflight) <= Concurrency
    BY DEF VesselInv, WorkTypes, AttemptAccounting
  <2>2. IsFiniteSet(inflight') /\ Cardinality(inflight') <= Cardinality(inflight)
    <3> DEFINE f == [a \in inflight |-> Told(a)]
    <3>1. f \in Surjection(inflight, inflight')
      BY <1>14 DEF Surjection
    <3>2. QED
      BY <2>1, <3>1, FS_Surjection
  <2>3. Cardinality(inflight) \in Nat /\ Cardinality(inflight') \in Nat /\ Concurrency \in Nat
    BY <2>1, <2>2, FS_CardinalityType, RunTypes
  <2>4. QED
    BY <2>1, <2>2, <2>3
<1>18. \A b \in inflight' : \E a \in inflight : b = Told(a)
  BY <1>14
<1>19. \A a \in inflight : Told(a) \in inflight'
  BY <1>14
<1> HIDE DEF Told
<1>20. WorkTypes'
  <2>1. \A b \in inflight' : b \in [leaf : Leaf, no : 1..MaxAttempts, cancelled : BOOLEAN]
    BY <1>16, <1>18
  <2>2. QED
    BY <1>9, <1>14, <1>17, <2>1 DEF VesselInv, WorkTypes
<1>21. Matches(timeline, inflight)'
  <2>1. Matches(timeline, inflight)
    BY DEF VesselInv
  <2>2. \A i \in DOMAIN timeline : timeline[i].kind = "completion" =>
          \E a \in inflight' : Completes(timeline[i], a)
    <3> SUFFICES ASSUME NEW i \in DOMAIN timeline, timeline[i].kind = "completion"
                 PROVE  \E a \in inflight' : Completes(timeline[i], a)
      OBVIOUS
    <3>1. PICK a \in inflight : Completes(timeline[i], a)
      BY <2>1 DEF Matches
    <3>2. Told(a) \in inflight' /\ Completes(timeline[i], Told(a))
      BY <1>16, <1>19, <3>1 DEF Completes
    <3>3. QED
      BY <3>2
  <2>3. \A a \in inflight' : \E i \in DOMAIN timeline : Completes(timeline[i], a)
    <3> SUFFICES ASSUME NEW a \in inflight
                 PROVE  \E i \in DOMAIN timeline : Completes(timeline[i], Told(a))
      BY <1>18
    <3>1. PICK i \in DOMAIN timeline : Completes(timeline[i], a)
      BY <2>1 DEF Matches
    <3>2. Completes(timeline[i], Told(a))
      BY <1>16, <3>1 DEF Completes
    <3>3. QED
      BY <3>2
  <2>4. Matches(timeline, inflight')
    BY <2>1, <2>2, <2>3 DEF Matches
  <2>5. QED
    BY <1>14, <2>4
<1>22. Precedence'
  <2>1. \A l \in Leaf : l \in Occ /\ \A q \in {l} \cup Ancestors[l] : Deps[q] \subseteq Occ
    BY RunTypes, ProgramTypes, Structure DEF Leaf
  <2>2. \A o \in Occ : scope[o] = "Satisfied" => scope'[o] = "Satisfied"
    BY <1>8 DEF ScopesStand, Settled, Terminal
  <2>3. QED
    BY <1>14, <2>1, <2>2 DEF VesselInv, Precedence
<1>23. AttemptAccounting'
  <2>1. \A l \in Leaf : attempts'[l] > 0 => td'[l] = "consumed" /\ consumedBy'[l] = Own
    BY <1>12, <1>14 DEF VesselInv, AttemptAccounting, AcknowledgementsStand
  <2>2. \A a \in inflight : a.no = attempts[a.leaf] /\ \A b \in inflight : a.leaf = b.leaf => a = b
    BY DEF VesselInv, AttemptAccounting
  <2>3. \A a \in inflight' :
          /\ a.no = attempts'[a.leaf]
          /\ \A b \in inflight' : a.leaf = b.leaf => a = b
    BY <1>14, <1>16, <1>18, <2>2
  <2>4. QED
    BY <1>17, <1>21, <2>1, <2>3 DEF AttemptAccounting, Matches, Completes
<1>24. AttemptsEnd'
  <2>1. \A l \in Leaf : Exhausted(l)'
    <3> SUFFICES ASSUME NEW l \in Leaf
                 PROVE  Exhausted(l)'
      OBVIOUS
    <3>1. l \in Occ /\ l # NoOcc
      BY ProgramTypes DEF Leaf
    <3>2. attempts[l] < MaxAttempts \/ Settled(l) \/ InFlight(l) \/ l = x
      BY <1>2, <1>3, <3>1 DEF VesselInv, AttemptsEnd, Exhausted, NotAnswering
    <3>3. Settled(l) \/ l = x => Settled(l)'
      BY <1>8, <3>1 DEF ScopesStand, Settled
    <3>4. InFlight(l) => InFlight(l)'
      BY <1>16, <1>19 DEF InFlight
    <3>5. QED
      BY <1>14, <3>2, <3>3, <3>4 DEF Exhausted
  <2>2. \A b \in inflight' : b.cancelled => Settled(b.leaf)'
    <3> SUFFICES ASSUME NEW a \in inflight, Told(a).cancelled
                 PROVE  Settled(Told(a).leaf)'
      BY <1>18
    <3>1. a.cancelled \/ a.leaf \in D
      BY <1>16
    <3>2. a.leaf \in Occ /\ (a.cancelled => Settled(a.leaf))
      BY <1>15 DEF VesselInv, AttemptsEnd, Leaf
    <3>3. Settled(a.leaf)'
      BY <1>8, <3>1, <3>2 DEF ScopesStand, Settled
    <3>4. QED
      BY <1>16, <3>3
  <2>3. QED
    BY <2>1, <2>2 DEF AttemptsEnd
<1>25. CallTypes' /\ CallsInProgress'
  <2>1. CASE parent = NoOcc \/ scope[parent] \in Terminal
    BY <1>3, <1>6, <2>1, NoCall
  <2>2. CASE ~(parent = NoOcc \/ scope[parent] \in Terminal)
    <3>1. parent \in Occ /\ x \in ChildrenOf(parent)
      BY <1>5, <2>2, ProgramTypes DEF ChildrenOf
    <3>2. parent # x /\ parent \notin D
      BY <1>5, <1>7, <2>2, Structure
    <3>3. ~Settled(parent)'
      BY <1>6, <2>2, <3>1, <3>2 DEF Settled
    <3>4. PICK s \in [Occ -> ScopeStates] : s = scope'
      BY <1>9
    <3>5. PICK v \in [Occ -> {"unresolved", "value", "NoOutput"}] : v = values'
      BY <1>10
    <3>6. ChildOutcome(parent, s, v)
      BY <1>6, <2>2, <3>4, <3>5
    <3>7. CASE Consult(parent, "ChildScopeOutcome", "none", "unresolved") /\ settling' = NotSettling
      BY <3>1, <3>3, <3>7, CallConsult DEF PolicyEvent
    <3>8. CASE Propose(EvaluateParent(parent, s, v))
      <4>1. PICK proposal : proposal = EvaluateParent(parent, s, v)
        OBVIOUS
      <4>2. QED
        BY <3>1, <3>3, <3>8, <4>1, ParentProposes, CallPropose
    <3>9. QED
      BY <3>6, <3>7, <3>8 DEF ChildOutcome
  <2>3. QED
    BY <2>1, <2>2
<1>26. QED
  BY <1>10, <1>11, <1>13, <1>20, <1>21, <1>22, <1>23, <1>24, <1>25 DEF VesselInv

-----------------------------------------------------------------------------
(* Every step of a run.                                                    *)

\* The invariant survives every step: settle, apply, the routines of the
\* reactor, and the calls between them.
LEMMA VesselNextInv == VesselInv /\ [VesselNext]_vesselVars => VesselInv'
<1> SUFFICES ASSUME VesselInv, [VesselNext]_vesselVars
             PROVE  VesselInv'
  OBVIOUS
<1>1. CASE SettleScope
  BY <1>1, SettleScopeInv
<1>2. CASE settling = NotSettling /\ (ApplyAction \/ Answered)
  BY <1>2, ApplyActionInv, AnsweredInv
<1>3. CASE Quiet /\ Routine
  BY <1>3, DemandSteps, ControlSteps, HandleSteps, DispatchSteps, DeliverSteps DEF Routine
<1>4. CASE Quiet /\ Step
  BY <1>4, ControlSteps
<1>5. CASE Quiet /\ CallIn
  BY <1>5, CallSteps
<1>6. CASE UNCHANGED vesselVars
  <2>1. UNCHANGED <<vars, schedulerVars, hostVars, controlVars, outcomeVars>>
    BY <1>6 DEF vesselVars
  <2>2. Inv'
    BY <2>1, InvStutters DEF VesselInv
  <2>3. Bookkeeping' /\ WorkTypes' /\ CallTypes'
    BY <2>1 DEF schedulerVars, hostVars, controlVars, outcomeVars, VesselInv,
                Bookkeeping, WorkTypes, CallTypes
  <2>4. Precedence' /\ AttemptAccounting' /\ OutputsAreFinal' /\ Matches(timeline, inflight)'
    BY <2>1 DEF vars, carouselVars, touchdownVars, schedulerVars, hostVars, outcomeVars, VesselInv,
                Precedence, AttemptAccounting, OutputsAreFinal, Matches
  <2>5. CallsInProgress' /\ AttemptsEnd'
    BY <2>1 DEF schedulerVars, hostVars, outcomeVars, VesselInv, CallsInProgress, MayStart, InFlight,
                Settled, ChildrenOf, AttemptsEnd, Exhausted
  <2>6. QED
    BY <2>2, <2>3, <2>4, <2>5 DEF VesselInv
<1>7. QED
  BY <1>1, <1>2, <1>3, <1>4, <1>5, <1>6 DEF VesselNext, Inner

\* VesselInv holds in every state of every run.
LEMMA VesselInvariance == VesselSpec => []VesselInv
<1>1. VesselInit => VesselInv
  BY VesselInitInv
<1>2. VesselInv /\ [VesselNext]_vesselVars => VesselInv'
  BY VesselNextInv
<1>3. QED
  BY <1>1, <1>2, PTL DEF VesselSpec

\* A run keeps its types: no counter leaves its bound, no item of the
\* timeline and no call in progress is ever malformed.
THEOREM RunTypeCorrect == VesselSpec => []VesselTypeOK
<1>1. VesselInv => VesselTypeOK
  <2> SUFFICES ASSUME VesselInv
               PROVE  VesselTypeOK
    OBVIOUS
  <2>1. timeline \in Seq([at : Nat, kind : {"completion", "backoff", "timer"}, occ : Occ, no : 0..MaxAttempts,
                          status : Statuses \cup {"none"}, out : {"value", "NoOutput", "unresolved"}])
    BY DEF VesselInv, WorkTypes, Item
  <2>2. QED
    BY <2>1 DEF VesselInv, Inv, Bookkeeping, WorkTypes, CallTypes, VesselTypeOK
<1>2. QED
  BY <1>1, VesselInvariance, PTL

\* Whatever is deduced ahead of need, and whatever the policies answer, a leaf
\* is attempted only after its serial predecessors and those of the scopes
\* around it were satisfied (runtime.go's structurallyReady).
THEOREM LeavesWaitForPredecessors == VesselSpec => []Precedence
<1>1. VesselInv => Precedence
  BY DEF VesselInv
<1>2. QED
  BY <1>1, VesselInvariance, PTL

\* Every attempt is made under this Scheduler's acknowledgement, one at a time
\* for each leaf, within the concurrency, and its answer is due.
THEOREM AttemptsAreAccountedFor == VesselSpec => []AttemptAccounting
<1>1. VesselInv => AttemptAccounting
  BY DEF VesselInv
<1>2. QED
  BY <1>1, VesselInvariance, PTL

\* Inside a run, under the Scheduler, the policies and rival callers, only the
\* recorded consumer of a Touchdown is ever told to invoke the Host.
THEOREM OneAttemptIsAuthorizedInARun == VesselSpec => []OneAuthorizedAttempt
<1>1. VesselInv => OneAuthorizedAttempt
  BY DEF VesselInv, Inv
<1>2. QED
  BY <1>1, VesselInvariance, PTL

\* Inside a run, where settle resolves the values, no deduction commits before
\* the value routed into it is there.
THEOREM ValuesAreAwaitedInARun == VesselSpec => []BarrierHolds
<1>1. VesselInv => BarrierHolds
  BY DEF VesselInv, Inv
<1>2. QED
  BY <1>1, VesselInvariance, PTL

\* Inside a run, where every pass is interleaved with settling and dispatch, a
\* deduction still exposes and records all it staged or nothing.
THEOREM DeductionIsAtomicInARun == VesselSpec => []ExposureIsAtomic
<1>1. VesselInv => ExposureIsAtomic
  BY DEF VesselInv, Inv
<1>2. QED
  BY <1>1, VesselInvariance, PTL

\* In a run dispatch consumes Touchdowns, settlement discards them and passes
\* publish more, and still the window is what it is compared with the target
\* as: the published leaves nobody has acknowledged.
THEOREM WindowIsExactInARun == VesselSpec => []WindowCountsUnacknowledged
<1>1. VesselInv => WindowCountsUnacknowledged
  BY DEF VesselInv, Inv
<1>2. QED
  BY <1>1, VesselInvariance, PTL

\* Outputs of satisfied scopes stay as they are.
OutputsStand == \A o \in Occ : values[o] # "unresolved" => values'[o] = values[o]

\* Only settle, which meets open scopes, and the exposure of an occurrence
\* without an outcome change a scope, and only settle stores an output.
LEMMA OutcomesStandStep == VesselInv /\ [VesselNext]_vesselVars => ScopesStand /\ OutputsStand
<1> SUFFICES ASSUME VesselInv, [VesselNext]_vesselVars
             PROVE  ScopesStand /\ OutputsStand
  OBVIOUS
<1>1. ASSUME UNCHANGED <<scope, values>>
      PROVE  ScopesStand /\ OutputsStand
  BY <1>1 DEF ScopesStand, OutputsStand
<1>2. CASE SettleScope
  <2>1. PICK x \in Occ, st \in Terminal, out \in {"value", "NoOutput", "unresolved"} :
          settling = [occ |-> x, st |-> st, out |-> out]
    BY <1>2 DEF SettleScope, VesselInv, CallsInProgress, CallTypes
  <2>2. settling.occ = x /\ settling.st = st /\ settling.out = out
    BY <2>1
  <2>3. ~Settled(x)
    BY <1>2, <2>2 DEF SettleScope, VesselInv, CallsInProgress
  <2>4. PICK D : D = IF st = "Satisfied" THEN {} ELSE Dropped(x)
    OBVIOUS
  <2>5. /\ scope' = [q \in Occ |->
                       IF q = x THEN st
                       ELSE IF q \notin D THEN scope[q]
                       ELSE IF q \in Undeduced(D) THEN "Withdrawn" ELSE "Cancelled"]
        /\ values' = IF st = "Satisfied" THEN [values EXCEPT ![x] = out] ELSE values
    BY <1>2, <2>2, <2>4 DEF SettleScope
  <2>6. \A q \in D : ~Settled(q)
    BY <2>4 DEF Dropped
  <2>7. values[x] = "unresolved"
    BY <2>3 DEF VesselInv, OutputsAreFinal, Settled, Terminal
  <2>8. QED
    BY <2>3, <2>5, <2>6, <2>7 DEF ScopesStand, OutputsStand, Settled, VesselInv, Inv, CarouselTypeOK
<1>3. CASE ApplyAction \/ Answered
  BY <1>1, <1>3 DEF ApplyAction, Answered, StartAttempt, vars
<1>4. CASE Handle
  <2>1. values' = values
    BY <1>4 DEF Handle
  <2>2. ASSUME NEW o, NEW s, ~Settled(o), scope' = [scope EXCEPT ![o] = s]
        PROVE  ScopesStand
    BY <2>2 DEF ScopesStand, Settled, VesselInv, WorkTypes
  <2>3. ScopesStand
    <3>1. PICK e : e = Head(events)
      OBVIOUS
    <3>2. \/ HandleExposed(e.occ) \/ HandleCommitted(e.occ) \/ HandleFailed(e.occ, e.cause)
      BY <1>4, <3>1 DEF Handle
    <3>3. CASE scope' = scope
      BY <3>3 DEF ScopesStand
    <3>4. QED
      BY <2>2, <3>2, <3>3 DEF HandleExposed, HandleCommitted, HandleFailed
  <2>4. QED
    BY <2>1, <2>3 DEF OutputsStand
<1>5. CASE SurfaceFailure \/ SchedulerDemand \/ Pumped \/ Dispatched \/ Deliver \/ Stuck \/ Step
  BY <1>1, <1>5 DEF SurfaceFailure, SchedulerDemand, Pumped, Dispatched, Deliver, Stuck, Step,
                    outcomeVars, vars
<1>6. CASE Deduction
  BY <1>1, <1>6 DEF Deduction, Replenish, ServeDemand, DemandServed, Speculate, EndReplenish,
                    Deduce, DeduceCommits, DeduceFails, outcomeVars
<1>7. CASE Dispatch
  BY <1>1, <1>7 DEF Dispatch, BeforeAttempt, WithholdDispatch, StartAttempt, vars
<1>8. CASE CallIn
  BY <1>1, <1>8 DEF CallIn, RunDemand, CancelScope, RunSetPrefetch, RivalConsume, Advance,
                    outcomeVars, vars
<1>9. CASE UNCHANGED vesselVars
  BY <1>1, <1>9 DEF vesselVars, outcomeVars, vars
<1>10. QED
  BY <1>2, <1>3, <1>4, <1>5, <1>6, <1>7, <1>8, <1>9 DEF VesselNext, Inner, Routine

\* An outcome is decided once: no later settle, policy answer, completion,
\* cancellation or speculative failure revises it, or the output it came with.
THEOREM OutcomesAreFinal == VesselSpec => [][ScopesStand /\ OutputsStand]_vesselVars
<1>1. VesselInv /\ [VesselNext]_vesselVars => [ScopesStand /\ OutputsStand]_vesselVars
  BY OutcomesStandStep
<1>2. QED
  BY <1>1, VesselInvariance, PTL DEF VesselSpec

-----------------------------------------------------------------------------
(* What the engine promises, kept inside a run.                            *)

\* A call that acknowledges one leaf and decides nothing else.
Acknowledged ==
  \E l \in Leaf, a \in Attempt : ConsumeTouchdown(l, TRUE, a) /\ UNCHANGED <<order, state, ledger>>

\* A settle: what is undeduced is withdrawn and what is buffered discarded.
Cleared == \E os : Withdraw(os) /\ DiscardTouchdowns(os) /\ UNCHANGED <<order, ledger>>

\* What any step of a run comes to for the engine.
LEMMA EngineSteps ==
  ASSUME VesselInv, [VesselNext]_vesselVars
  PROVE  Replenish \/ Acknowledged \/ Cleared \/ UNCHANGED <<order, state, touchdownVars, ledger>>
<1>1. ASSUME UNCHANGED vars
      PROVE  UNCHANGED <<order, state, touchdownVars, ledger>>
  BY <1>1 DEF vars, carouselVars
<1>2. ASSUME NEW l \in Leaf, StartAttempt(l)
      PROVE  Acknowledged \/ UNCHANGED <<order, state, touchdownVars, ledger>>
  <2>1. Own \in Attempt
    BY RunTypes
  <2>2. QED
    BY <1>2, <2>1 DEF StartAttempt, Acknowledged
<1>3. CASE SettleScope
  <2>1. PICK os : os = (IF settling.st = "Satisfied" THEN {} ELSE Dropped(settling.occ)) \cup {settling.occ}
    OBVIOUS
  <2>2. Withdraw(os) /\ DiscardTouchdowns(os) /\ UNCHANGED <<order, ledger>>
    BY <1>3, <2>1 DEF SettleScope
  <2>3. QED
    BY <2>2 DEF Cleared
<1>4. CASE ApplyAction
  BY <1>1, <1>4 DEF ApplyAction
<1>5. CASE Answered
  <2>1. CASE answering.event = "BeforeAttempt" /\ ~Held(answering.occ)
    <3>1. answering.occ \in Leaf /\ StartAttempt(answering.occ)
      BY <1>5, <2>1 DEF Answered, VesselInv, CallsInProgress, MayStart
    <3>2. QED
      BY <1>2, <3>1
  <2>2. CASE ~(answering.event = "BeforeAttempt" /\ ~Held(answering.occ))
    BY <1>1, <1>5, <2>2 DEF Answered
  <2>3. QED
    BY <2>1, <2>2
<1>6. CASE Quiet /\ Dispatch
  <2>1. PICK l \in Leaf : BeforeAttempt(l) \/ \E ticks \in Withhold : WithholdDispatch(l, ticks)
    BY <1>6, DispatchPicks
  <2>2. CASE BeforeAttempt(l)
    BY <1>1, <1>2, <2>2 DEF BeforeAttempt
  <2>3. CASE \E ticks \in Withhold : WithholdDispatch(l, ticks)
    BY <1>1, <2>3 DEF WithholdDispatch
  <2>4. QED
    BY <2>1, <2>2, <2>3
<1>7. CASE Deduction
  BY <1>7 DEF Deduction
<1>8. CASE SurfaceFailure \/ Pumped \/ Dispatched \/ Deliver \/ Stuck \/ Step
  BY <1>1, <1>8 DEF SurfaceFailure, Pumped, Dispatched, Deliver, Stuck, Step
<1>9. CASE SchedulerDemand \/ Handle
  BY <1>9 DEF SchedulerDemand, Handle
<1>10. CASE CallIn
  <2>1. ASSUME NEW l \in Leaf, NEW a \in Attempt, RivalConsume(l, a)
        PROVE  Acknowledged
    BY <2>1 DEF RivalConsume, Acknowledged
  <2>2. ASSUME NEW o \in Occ, RunDemand(o) \/ CancelScope(o)
        PROVE  UNCHANGED <<order, state, touchdownVars, ledger>>
    BY <1>1, <2>2 DEF RunDemand, Demand, CancelScope
  <2>3. ASSUME NEW n \in Target, RunSetPrefetch(n)
        PROVE  UNCHANGED <<order, state, touchdownVars, ledger>>
    BY <2>3 DEF RunSetPrefetch, SetPrefetch
  <2>4. QED
    BY <1>1, <1>10, <2>1, <2>2, <2>3 DEF CallIn, Advance
<1>11. CASE UNCHANGED vesselVars
  BY <1>1, <1>11 DEF vesselVars
<1>12. QED
  BY <1>3, <1>4, <1>5, <1>6, <1>7, <1>8, <1>9, <1>10, <1>11 DEF VesselNext, Inner, Routine

\* Settling, dispatch, policies, rivals and callers between the passes revise
\* nothing the engine has decided: no deduction is retargeted or retried, no
\* acknowledged Touchdown comes back, exposure order and ledger only grow.
THEOREM DecisionsAreFinalInARun == VesselSpec => DecisionsStand
<1>1. VesselInv /\ [VesselNext]_vesselVars => [Stands]_vars
  <2> SUFFICES ASSUME VesselInv, [VesselNext]_vesselVars
               PROVE  Stands
    OBVIOUS
  <2>1. CASE Replenish
    BY <2>1, ReplenishStands DEF VesselInv
  <2>2. CASE Acknowledged
    <3>1. PICK l \in Leaf, a \in Attempt : ConsumeTouchdown(l, TRUE, a) /\ UNCHANGED <<order, state, ledger>>
      BY <2>2 DEF Acknowledged
    <3>2. QED
      BY <3>1, ConsumeFacts DEF touchdownVars, Stands, VesselInv, Inv, CarouselTypeOK
  <2>3. CASE Cleared
    BY <2>3 DEF Cleared, Withdraw, Undeduced, DiscardTouchdowns, Buffered, Stands
  <2>4. CASE UNCHANGED <<order, state, touchdownVars, ledger>>
    BY <2>4 DEF touchdownVars, Stands
  <2>5. QED
    BY <2>1, <2>2, <2>3, <2>4, EngineSteps
<1>2. VesselSpec => [][Stands]_vars
  BY <1>1, VesselInvariance, PTL DEF VesselSpec
<1>3. QED
  BY <1>2 DEF DecisionsStand, Stands

\* The acknowledgement protocol is kept by the engine as the Scheduler uses it:
\* every step of a run publishes, consumes for one attempt, discards, or does
\* nothing to the Touchdowns.
THEOREM AcknowledgementsAreKeptInARun == VesselSpec => KeepsAcknowledgements
<1>1. VesselInit => Acknowledgements!Init
  BY DEF VesselInit, Acknowledgements!Init
<1>2. VesselInv /\ [VesselNext]_vesselVars => [Acknowledgements!Next]_(Acknowledgements!vars)
  <2> SUFFICES ASSUME VesselInv, [VesselNext]_vesselVars
               PROVE  Acknowledgements!Next \/ UNCHANGED Acknowledgements!vars
    OBVIOUS
  <2>1. CASE Replenish
    BY <2>1, ReplenishPublishes DEF VesselInv
  <2>2. CASE Acknowledged
    <3>1. PICK l \in Leaf, a \in Attempt : ConsumeTouchdown(l, TRUE, a)
      BY <2>2 DEF Acknowledged
    <3>2. QED
      BY <3>1, ConsumeFacts
         DEF VesselInv, touchdownVars, Acknowledgements!vars, Acknowledgements!Next,
             Acknowledgements!Consume
  <2>3. CASE Cleared
    <3>1. PICK os : DiscardTouchdowns(os)
      BY <2>3 DEF Cleared
    <3>2. Buffered(os) \in SUBSET Leaf /\ \A l \in Buffered(os) : td[l] = "buffered"
      BY DEF Buffered
    <3>3. Acknowledgements!Discard(Buffered(os))
      BY <3>1, <3>2 DEF DiscardTouchdowns, Acknowledgements!Discard
    <3>4. QED
      BY <3>2, <3>3 DEF Acknowledgements!Next
  <2>4. CASE UNCHANGED <<order, state, touchdownVars, ledger>>
    BY <2>4 DEF touchdownVars, Acknowledgements!vars
  <2>5. QED
    BY <2>1, <2>2, <2>3, <2>4, EngineSteps
<1>3. QED
  BY <1>1, <1>2, VesselInvariance, PTL
     DEF VesselSpec, KeepsAcknowledgements, Acknowledgements!Spec
=============================================================================
