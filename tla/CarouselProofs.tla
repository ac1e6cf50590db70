--------------------------- MODULE CarouselProofs ---------------------------
(***************************************************************************)
(* Proofs about Carousel.tla: the engine's invariants are inductive        *)
(* together, and it implements the acknowledgement protocol of Touchdowns. *)
(***************************************************************************)
EXTENDS Carousel, TLAPS, WellFoundedInduction, FiniteSetTheorems

USE DEF OccurrenceTypes, RegisteredOnce

\* The sweep of Replenish finds something to deduce whenever there is
\* something, and what it finds is what it looked for.
LEMMA FirstInSet ==
  ASSUME order \in Seq(Occ), NEW S, S \subseteq Exposed, S # {}
  PROVE  First(S) \in S
<1> DEFINE R == {ss \in Nat \X Nat : ss[1] < ss[2]}
           T == {i \in DOMAIN order : order[i] \in S}
<1>1. T # {} /\ T \subseteq Nat
  BY DEF Exposed
<1>2. PICK i \in T : \A j \in T : <<j, i>> \notin R
  <2>1. IsWellFoundedOn(R, Nat)
    BY NatLessThanWellFounded DEF OpToRel
  <2> HIDE DEF R, T
  <2>2. QED
    BY <1>1, <2>1, WFMin
<1>3. \A j \in 1..(i - 1) : order[j] \notin S
  <2> SUFFICES ASSUME NEW j \in 1..(i - 1), order[j] \in S
               PROVE  FALSE
    OBVIOUS
  <2>1. j \in T /\ j < i
    BY <1>1
  <2>2. QED
    BY <1>1, <1>2, <2>1
<1>4. \E o \in S : \E k \in DOMAIN order :
        order[k] = o /\ \A j \in 1..(k - 1) : order[j] \notin S
  BY <1>3
<1>5. QED
  BY <1>4 DEF First

-----------------------------------------------------------------------------
(* The inductive invariant.                                                *)

Inv ==
  /\ CarouselTypeOK
  /\ ExposureIsAtomic
  /\ WindowCountsUnacknowledged
  /\ DemandIsPending
  /\ OneAuthorizedAttempt
  /\ BarrierHolds

\* A new engine has exposed its Root and nothing else.
LEMMA InitInv == Init => Inv
<1> SUFFICES ASSUME NEW n \in Target, InitCarousel(n)
             PROVE  Inv
  BY DEF Init
<1>1. Exposed = {Root}
  <2>1. order = <<Root>>
    BY DEF InitCarousel
  <2>2. DOMAIN order = 1..1 /\ order[1] = Root
    BY <2>1
  <2>3. QED
    BY <2>2 DEF Exposed
<1>2. CarouselTypeOK
  <2> DEFINE e == [kind |-> "exposed", occ |-> Root, cause |-> ""]
  <2>1. order = <<Root>> /\ events = <<e>> /\ ledger = <<>>
    BY DEF InitCarousel
  <2>2. e \in Events /\ Root \in Occ /\ n \in Nat
    BY ProgramTypes DEF Events
  <2>3. order \in Seq(Occ) /\ events \in Seq(Events)
        /\ ledger \in Seq([occ : Occ, cause : {"demand", "prefetch"}])
    <3> HIDE DEF e
    <3>1. QED
      BY <2>1, <2>2
  <2>4. QED
    BY <2>2, <2>3, ProgramTypes DEF InitCarousel, CarouselTypeOK
<1>3. ExposureIsAtomic
  <2>1. \A o \in Deducible : state[o] # "committed" /\ Root \notin StagedSet(o)
    BY ProgramTree DEF InitCarousel, Deducible
  <2>2. DOMAIN ledger = {}
    <3>1. ledger = <<>>
      BY DEF InitCarousel
    <3>2. DOMAIN ledger = 1..0
      BY <3>1
    <3>3. QED
      BY <3>2
  <2>3. \A i, j \in DOMAIN order : i = j
    <3>1. order = <<Root>>
      BY DEF InitCarousel
    <3>2. DOMAIN order = 1..1
      BY <3>1
    <3>3. QED
      BY <3>2
  <2>4. \A o \in Occ : o \in Exposed <=> state[o] # "unexposed"
    BY <1>1 DEF InitCarousel
  <2>5. QED
    BY <1>1, <2>1, <2>2, <2>3, <2>4 DEF ExposureIsAtomic
<1>4. WindowCountsUnacknowledged
  BY <1>1, ProgramTypes DEF InitCarousel, WindowCountsUnacknowledged, Leaf
<1>5. DemandIsPending /\ OneAuthorizedAttempt /\ BarrierHolds
  <2>1. DemandIsPending /\ OneAuthorizedAttempt
    BY DEF InitCarousel, DemandIsPending, OneAuthorizedAttempt
  <2>2. BarrierHolds
    BY DEF InitCarousel, BarrierHolds, Deducible
  <2>3. QED
    BY <2>1, <2>2
<1>6. QED
  BY <1>2, <1>3, <1>4, <1>5 DEF Inv

-----------------------------------------------------------------------------
(* Deduction.                                                              *)

\* What a reduction stages was never exposed before, because only this
\* deduction stages it and it has not committed yet.
LEMMA StagedIsNew ==
  ASSUME Inv, NEW o \in Deducible, state[o] = "undeduced"
  PROVE  /\ StagedSet(o) \subseteq Occ
         /\ StagedSet(o) \cap Exposed = {}
         /\ o \notin StagedSet(o)
         /\ \A q \in StagedSet(o) : state[q] = "unexposed"
<1>1. StagedSet(o) \subseteq Occ
  BY ProgramTypes DEF StagedSet, Deducible
<1>2. StagedSet(o) \cap Exposed = {}
  BY DEF Inv, ExposureIsAtomic
<1>3. QED
  BY <1>1, <1>2, ProgramTree DEF Inv, ExposureIsAtomic, Deducible

\* Committing appends exactly what was staged to the exposure order.
LEMMA CommitExposes ==
  ASSUME Inv, NEW o \in Deducible, NEW cause, DeduceCommits(o, cause)
  PROVE  /\ order' \in Seq(Occ)
         /\ Exposed' = Exposed \cup StagedSet(o)
         /\ Len(order') = Len(order) + Len(Staged[o])
         /\ \A i \in DOMAIN order : order'[i] = order[i]
         /\ \A i \in DOMAIN Staged[o] : order'[Len(order) + i] = Staged[o][i]
<1>1. order \in Seq(Occ) /\ Staged[o] \in Seq(Occ) /\ order' = order \o Staged[o]
  BY ProgramTypes DEF Inv, CarouselTypeOK, DeduceCommits, Deducible
<1>2. /\ order' \in Seq(Occ)
      /\ Len(order') = Len(order) + Len(Staged[o])
      /\ \A i \in DOMAIN order : order'[i] = order[i]
      /\ \A i \in DOMAIN Staged[o] : order'[Len(order) + i] = Staged[o][i]
  BY <1>1
<1>3. \A i \in DOMAIN order' : \/ i \in DOMAIN order
                               \/ i - Len(order) \in DOMAIN Staged[o]
  BY <1>1, <1>2
<1>4. Exposed' \subseteq Exposed \cup StagedSet(o)
  BY <1>1, <1>2, <1>3 DEF Exposed, StagedSet
<1>5. Exposed \cup StagedSet(o) \subseteq Exposed'
  <2>1. \A i \in DOMAIN order : i \in DOMAIN order'
    BY <1>1, <1>2
  <2>2. \A i \in DOMAIN Staged[o] : Len(order) + i \in DOMAIN order'
    BY <1>1, <1>2
  <2>3. QED
    BY <1>2, <2>1, <2>2 DEF Exposed, StagedSet
<1>6. QED
  BY <1>2, <1>4, <1>5

\* The exposures a deduction announces are well typed.
LEMMA ExposureEvents ==
  ASSUME NEW o \in Occ
  PROVE  Exposure(o) \in Seq(Events)
<1>1. Staged[o] \in Seq(Occ)
  BY ProgramTypes
<1>2. \A i \in DOMAIN Staged[o] : Event("exposed", Staged[o][i], "") \in Events
  <2>1. \A i \in DOMAIN Staged[o] : Staged[o][i] \in Occ
    BY <1>1
  <2>2. \A q \in Occ : Event("exposed", q, "") \in Events
    BY DEF Event, Events
  <2>3. QED
    BY <2>1, <2>2
<1>3. DOMAIN Staged[o] = 1..Len(Staged[o]) /\ Len(Staged[o]) \in Nat
  BY <1>1
<1>4. Exposure(o) \in [1..Len(Staged[o]) -> Events]
  BY <1>2, <1>3 DEF Exposure
<1>5. QED
  BY <1>3, <1>4

\* The events of a deduction are well typed, and there is at least one.
LEMMA CommitEvents ==
  ASSUME Inv, NEW o \in Deducible, NEW cause \in {"demand", "prefetch"}
  PROVE  /\ Append(events, Event("committed", o, cause)) \o Exposure(o) \in Seq(Events)
         /\ Append(events, Event("committed", o, cause)) \o Exposure(o) # <<>>
<1>1. o \in Occ /\ events \in Seq(Events)
  BY DEF Inv, CarouselTypeOK, Deducible
<1>2. Exposure(o) \in Seq(Events)
  BY <1>1, ExposureEvents
<1>3. Event("committed", o, cause) \in Events
  BY <1>1 DEF Event, Events
<1>4. /\ Append(events, Event("committed", o, cause)) \in Seq(Events)
      /\ Append(events, Event("committed", o, cause)) # <<>>
  BY <1>1, <1>3
<1>5. QED
  BY <1>2, <1>4

\* A committed deduction keeps the invariant.
LEMMA CommitInv ==
  ASSUME Inv, NEW o \in Deducible, NEW cause \in {"demand", "prefetch"},
         state[o] = "undeduced", ~Blocked(o),
         DeduceCommits(o, cause), UNCHANGED <<prefetch, pass, values>>
  PROVE  Inv'
<1> USE DEF DeduceCommits
<1>1. /\ StagedSet(o) \subseteq Occ
      /\ StagedSet(o) \cap Exposed = {}
      /\ o \notin StagedSet(o)
      /\ \A q \in StagedSet(o) : state[q] = "unexposed"
  BY StagedIsNew
<1>2. /\ order' \in Seq(Occ)
      /\ Exposed' = Exposed \cup StagedSet(o)
      /\ Len(order') = Len(order) + Len(Staged[o])
      /\ \A i \in DOMAIN order : order'[i] = order[i]
      /\ \A i \in DOMAIN Staged[o] : order'[Len(order) + i] = Staged[o][i]
  BY CommitExposes
<1>3. CarouselTypeOK'
  <2>1. events' \in Seq(Events)
    BY CommitEvents
  <2>2. demanded' \subseteq Occ /\ window' \subseteq Leaf
    BY <1>1 DEF Inv, CarouselTypeOK
  <2>3. ledger' \in Seq([occ : Occ, cause : {"demand", "prefetch"}])
    BY DEF Inv, CarouselTypeOK, Deducible
  <2>4. QED
    BY <1>2, <2>1, <2>2, <2>3 DEF Inv, CarouselTypeOK
<1>4. ExposureIsAtomic'
  <2>1. \A p \in Deducible : \A q \in StagedSet(p) : q \in Exposed' <=> state'[p] = "committed"
    BY <1>1, <1>2, ProgramTree DEF Inv, ExposureIsAtomic, Deducible
  <2>2. \A i, j \in DOMAIN order' : order'[i] = order'[j] => i = j
    <3> SUFFICES ASSUME NEW i \in DOMAIN order', NEW j \in DOMAIN order', order'[i] = order'[j]
                 PROVE  i = j
      OBVIOUS
    <3>1. order \in Seq(Occ) /\ Staged[o] \in Seq(Occ)
      BY ProgramTypes DEF Inv, CarouselTypeOK, Deducible
    <3> DEFINE Old(k) == k \in DOMAIN order /\ order'[k] = order[k] /\ order'[k] \in Exposed
               New(k) == /\ k - Len(order) \in DOMAIN Staged[o]
                         /\ order'[k] = Staged[o][k - Len(order)]
                         /\ order'[k] \in StagedSet(o)
    <3>2. \A k \in DOMAIN order' : Old(k) \/ New(k)
      <4> SUFFICES ASSUME NEW k \in DOMAIN order', k \notin DOMAIN order
                   PROVE  New(k)
        BY <1>2 DEF Exposed
      <4>1. k - Len(order) \in DOMAIN Staged[o] /\ k = Len(order) + (k - Len(order))
        BY <1>2, <3>1
      <4>2. QED
        BY <1>2, <4>1 DEF StagedSet
    <3>3. CASE Old(i) /\ Old(j)
      BY <3>3 DEF Inv, ExposureIsAtomic
    <3>4. CASE New(i) /\ New(j)
      <4>1. i - Len(order) = j - Len(order)
        BY <3>4, ProgramTree DEF Deducible
      <4>2. QED
        BY <1>2, <3>1, <4>1
    <3>5. QED
      BY <1>1, <3>2, <3>3, <3>4
  <2>3. \A q \in Occ : q \in Exposed' <=> state'[q] # "unexposed"
    BY <1>1, <1>2 DEF Inv, ExposureIsAtomic
  <2>4. /\ \A p \in Deducible : state'[p] = "committed" <=> \E n \in DOMAIN ledger' : ledger'[n].occ = p
        /\ \A m, n \in DOMAIN ledger' : ledger'[m].occ = ledger'[n].occ => m = n
    <3>1. /\ Len(ledger') = Len(ledger) + 1 /\ DOMAIN ledger' = 1..(Len(ledger) + 1)
          /\ DOMAIN ledger = 1..Len(ledger) /\ Len(ledger) \in Nat
          /\ ledger'[Len(ledger) + 1].occ = o
          /\ \A n \in DOMAIN ledger : ledger'[n] = ledger[n]
      BY DEF Inv, CarouselTypeOK
    <3>2. \A n \in DOMAIN ledger : ledger[n].occ # o
      BY DEF Inv, ExposureIsAtomic
    <3>3. \A m, n \in DOMAIN ledger' : ledger'[m].occ = ledger'[n].occ => m = n
      BY <3>1, <3>2 DEF Inv, ExposureIsAtomic
    <3>4. \A p \in Deducible :
            (\E n \in DOMAIN ledger' : ledger'[n].occ = p)
              <=> p = o \/ \E n \in DOMAIN ledger : ledger[n].occ = p
      <4> SUFFICES ASSUME NEW p \in Deducible
                   PROVE  (\E n \in DOMAIN ledger' : ledger'[n].occ = p)
                            <=> p = o \/ \E n \in DOMAIN ledger : ledger[n].occ = p
        OBVIOUS
      <4>1. \A n \in DOMAIN ledger' : n = Len(ledger) + 1 \/ n \in DOMAIN ledger
        BY <3>1
      <4>2. Len(ledger) + 1 \in DOMAIN ledger' /\ DOMAIN ledger \subseteq DOMAIN ledger'
        BY <3>1
      <4>3. QED
        BY <3>1, <4>1, <4>2
    <3>5. \A p \in Deducible : state'[p] = "committed" <=> p = o \/ state[p] = "committed"
      BY <1>1 DEF Deducible, Inv, CarouselTypeOK
    <3>6. QED
      BY <3>3, <3>4, <3>5 DEF Inv, ExposureIsAtomic
  <2>5. QED
    BY <2>1, <2>2, <2>3, <2>4 DEF ExposureIsAtomic
<1>5. WindowCountsUnacknowledged'
  BY <1>1, <1>2 DEF Inv, WindowCountsUnacknowledged, Leaf
<1>6. DemandIsPending'
  BY <1>1, ProgramTypes DEF Inv, DemandIsPending, Deducible
<1>7. OneAuthorizedAttempt'
  BY <1>1 DEF Inv, OneAuthorizedAttempt, WindowCountsUnacknowledged
<1>8. BarrierHolds'
  <2>1. Input[o] # NoOcc => values[Input[o]] = "value"
    BY ProgramTypes DEF Blocked, NothingRouted, Inv, CarouselTypeOK, Deducible
  <2>2. \A p \in Deducible : state'[p] = "committed" => p = o \/ state[p] = "committed"
    BY <1>1 DEF Deducible, Inv, CarouselTypeOK
  <2>3. QED
    BY <2>1, <2>2 DEF Inv, BarrierHolds
<1>9. QED
  BY <1>3, <1>4, <1>5, <1>6, <1>7, <1>8 DEF Inv

\* A failed deduction leaves no trace but its event and its state.
LEMMA FailInv ==
  ASSUME Inv, NEW o \in Deducible, NEW cause \in {"demand", "prefetch"},
         state[o] = "undeduced",
         DeduceFails(o, cause), UNCHANGED <<prefetch, pass, values>>
  PROVE  Inv'
<1> USE DEF DeduceFails, touchdownVars
<1>1. Exposed' = Exposed
  BY DEF Exposed
<1>2. \A p \in Occ : p # o => state'[p] = state[p]
  BY DEF Inv, CarouselTypeOK
<1>3. o \in Occ /\ state'[o] = "failed"
  BY DEF Inv, CarouselTypeOK, Deducible
<1>4. CarouselTypeOK'
  <2>1. Event("failed", o, cause) \in Events
    BY <1>3 DEF Event, Events
  <2>2. events' \in Seq(Events)
    BY <2>1 DEF Inv, CarouselTypeOK
  <2>3. QED
    BY <1>3, <2>2 DEF Inv, CarouselTypeOK
<1>5. ExposureIsAtomic'
  BY <1>1, <1>2, <1>3 DEF Inv, ExposureIsAtomic, Deducible
<1>6. WindowCountsUnacknowledged'
  BY <1>1 DEF Inv, WindowCountsUnacknowledged
<1>7. DemandIsPending'
  BY <1>2 DEF Inv, DemandIsPending, Deducible
<1>8. OneAuthorizedAttempt' /\ BarrierHolds'
  BY <1>2, <1>3 DEF Inv, OneAuthorizedAttempt, BarrierHolds, Deducible
<1>9. QED
  BY <1>4, <1>5, <1>6, <1>7, <1>8 DEF Inv

\* What a pass of Replenish picks can be deduced: by demand, or by speculation.
LEMMA Picks ==
  ASSUME Inv
  PROVE  /\ Servable # {} => /\ First(Servable) \in Deducible
                             /\ state[First(Servable)] = "undeduced"
                             /\ ~Blocked(First(Servable))
         /\ Candidates # {} => /\ First(Candidates) \in Deducible
                               /\ state[First(Candidates)] = "undeduced"
                               /\ ~Blocked(First(Candidates))
<1>1. order \in Seq(Occ)
  BY DEF Inv, CarouselTypeOK
<1>2. Servable \subseteq Exposed
  BY DEF Inv, Servable, DemandIsPending, ExposureIsAtomic, Deducible
<1>3. Candidates \subseteq Exposed
  BY DEF Candidates
<1>4. Servable # {} => First(Servable) \in Servable
  BY <1>1, <1>2, FirstInSet
<1>5. Candidates # {} => First(Candidates) \in Candidates
  BY <1>1, <1>3, FirstInSet
<1>6. QED
  BY <1>4, <1>5 DEF Servable, Candidates, Inv, DemandIsPending

\* Every step of a pass keeps the invariant.
LEMMA ReplenishInv == Inv /\ Replenish => Inv'
<1> SUFFICES ASSUME Inv, Replenish
             PROVE  Inv'
  OBVIOUS
<1>1. ASSUME NEW o \in Deducible, NEW cause \in {"demand", "prefetch"},
             state[o] = "undeduced", ~Blocked(o), Deduce(o, cause)
      PROVE  Inv'
  BY <1>1, CommitInv, FailInv DEF Deduce
<1>2. CASE ServeDemand
  BY <1>1, <1>2, Picks DEF ServeDemand
<1>3. CASE Speculate
  BY <1>1, <1>3, Picks DEF Speculate
<1>4. CASE DemandServed \/ EndReplenish
  <2>1. /\ UNCHANGED <<order, state, demanded, touchdownVars, prefetch, events, ledger, values>>
        /\ pass' \in {"prefetch", "idle"}
    BY <1>4 DEF DemandServed, EndReplenish
  <2>2. QED
    BY <2>1 DEF Inv, CarouselTypeOK, touchdownVars, ExposureIsAtomic, Exposed,
                WindowCountsUnacknowledged, DemandIsPending, OneAuthorizedAttempt, BarrierHolds
<1>5. QED
  BY <1>2, <1>3, <1>4 DEF Replenish

-----------------------------------------------------------------------------
(* Calls.                                                                  *)

\* Withdrawing occurrences takes their demand away with them.
LEMMA WithdrawInv ==
  ASSUME Inv, NEW os, Withdraw(os),
         UNCHANGED <<order, touchdownVars, prefetch, pass, events, ledger, values>>
  PROVE  Inv'
<1> USE DEF Withdraw, touchdownVars
<1>1. Exposed' = Exposed
  BY DEF Exposed
<1>2. \A o \in Occ : /\ o \in Undeduced(os) => state[o] = "undeduced" /\ state'[o] = "withdrawn"
                     /\ o \notin Undeduced(os) => state'[o] = state[o]
  BY DEF Undeduced
<1>3. CarouselTypeOK'
  BY DEF Inv, CarouselTypeOK
<1>4. ExposureIsAtomic'
  BY <1>1, <1>2 DEF Inv, ExposureIsAtomic, Deducible
<1>5. WindowCountsUnacknowledged'
  BY <1>1 DEF Inv, WindowCountsUnacknowledged
<1>6. DemandIsPending'
  BY <1>2 DEF Inv, DemandIsPending, Deducible
<1>7. OneAuthorizedAttempt' /\ BarrierHolds'
  BY <1>2 DEF Inv, OneAuthorizedAttempt, BarrierHolds, Deducible
<1>8. QED
  BY <1>3, <1>4, <1>5, <1>6, <1>7 DEF Inv

\* What an acknowledgement does to the Touchdown it names, for each answer.
LEMMA ConsumeFacts ==
  ASSUME Inv, NEW o \in Leaf, NEW ok \in BOOLEAN, NEW a \in Attempt \cup {NoAttempt},
         ConsumeTouchdown(o, ok, a)
  PROVE  \/ /\ a \in Attempt /\ td[o] = "buffered"
            /\ td' = [td EXCEPT ![o] = "consumed"]
            /\ consumedBy' = [consumedBy EXCEPT ![o] = a]
            /\ window' = window \ {o}
            /\ authorized' = authorized \cup {<<o, a>>}
         \/ UNCHANGED touchdownVars
<1> DEFINE result == ConsumeResult(o, ok, a)
<1>1. CASE result = "consumed"
  BY <1>1 DEF ConsumeTouchdown, ConsumeResult, Authorizes
<1>2. CASE result = "consumed-replayed"
  <2>1. a \in Attempt /\ td[o] = "consumed" /\ consumedBy[o] = a
    BY <1>2 DEF ConsumeResult, Inv, CarouselTypeOK
  <2>2. <<o, a>> \in authorized
    BY <2>1 DEF Inv, OneAuthorizedAttempt
  <2>3. QED
    BY <1>2, <2>2 DEF ConsumeTouchdown, touchdownVars
<1>3. CASE result \notin {"consumed", "consumed-replayed"}
  BY <1>3 DEF ConsumeTouchdown, Authorizes, touchdownVars
<1>4. QED
  BY <1>1, <1>2, <1>3

\* An acknowledgement keeps the invariant, whoever sends it and how often.
LEMMA ConsumeInv ==
  ASSUME Inv, NEW o \in Leaf, NEW ok \in BOOLEAN, NEW a \in Attempt \cup {NoAttempt},
         ConsumeTouchdown(o, ok, a),
         UNCHANGED <<order, state, demanded, prefetch, pass, events, ledger, values>>
  PROVE  Inv'
<1>1. Exposed' = Exposed
  BY DEF Exposed
<1>2. ExposureIsAtomic' /\ DemandIsPending' /\ BarrierHolds'
  BY <1>1 DEF Inv, ExposureIsAtomic, DemandIsPending, BarrierHolds
<1>3. CASE UNCHANGED touchdownVars
  BY <1>1, <1>2, <1>3 DEF Inv, touchdownVars, CarouselTypeOK, WindowCountsUnacknowledged,
                          OneAuthorizedAttempt
<1>4. CASE /\ a \in Attempt /\ td[o] = "buffered"
           /\ td' = [td EXCEPT ![o] = "consumed"]
           /\ consumedBy' = [consumedBy EXCEPT ![o] = a]
           /\ window' = window \ {o}
           /\ authorized' = authorized \cup {<<o, a>>}
  <2>1. CarouselTypeOK'
    BY <1>4 DEF Inv, CarouselTypeOK
  <2>2. WindowCountsUnacknowledged'
    BY <1>1, <1>4 DEF Inv, CarouselTypeOK, WindowCountsUnacknowledged
  <2>3. OneAuthorizedAttempt'
    BY <1>4 DEF Inv, CarouselTypeOK, OneAuthorizedAttempt
  <2>4. QED
    BY <1>2, <2>1, <2>2, <2>3 DEF Inv
<1>5. QED
  BY <1>3, <1>4, ConsumeFacts

\* A discard takes leaves nobody was authorized for out of the window.
LEMMA DiscardInv ==
  ASSUME Inv, NEW os, DiscardTouchdowns(os),
         UNCHANGED <<order, state, demanded, prefetch, pass, events, ledger, values>>
  PROVE  Inv'
<1> USE DEF DiscardTouchdowns
<1>1. Exposed' = Exposed
  BY DEF Exposed
<1>2. \A l \in Leaf : l \in Buffered(os) => td[l] = "buffered"
  BY DEF Buffered
<1>3. CarouselTypeOK'
  BY DEF Inv, CarouselTypeOK
<1>4. WindowCountsUnacknowledged'
  BY <1>1, <1>2 DEF Inv, CarouselTypeOK, WindowCountsUnacknowledged
<1>5. OneAuthorizedAttempt'
  BY <1>2 DEF Inv, OneAuthorizedAttempt
<1>6. ExposureIsAtomic' /\ DemandIsPending' /\ BarrierHolds'
  BY <1>1 DEF Inv, ExposureIsAtomic, DemandIsPending, BarrierHolds
<1>7. QED
  BY <1>3, <1>4, <1>5, <1>6 DEF Inv

\* No call breaks the invariant.
LEMMA CallInv == Inv /\ Call => Inv'
<1> SUFFICES ASSUME Inv, Call
             PROVE  Inv'
  OBVIOUS
<1>1. ASSUME NEW o \in Occ, Demand(o), UNCHANGED values
      PROVE  Inv'
  BY <1>1 DEF Demand, Accepts, Inv, CarouselTypeOK, touchdownVars, ExposureIsAtomic, Exposed,
              WindowCountsUnacknowledged, DemandIsPending, OneAuthorizedAttempt, BarrierHolds
<1>2. ASSUME NEW n \in Target, SetPrefetch(n), UNCHANGED values
      PROVE  Inv'
  BY <1>2, ProgramTypes
     DEF SetPrefetch, Inv, CarouselTypeOK, touchdownVars, ExposureIsAtomic, Exposed,
         WindowCountsUnacknowledged, DemandIsPending, OneAuthorizedAttempt, BarrierHolds
<1>3. ASSUME NEW o \in Exposed, Withdraw({o}),
             UNCHANGED <<order, touchdownVars, prefetch, pass, events, ledger, values>>
      PROVE  Inv'
  BY <1>3, WithdrawInv
<1>4. ASSUME NEW o \in Leaf, NEW ok \in BOOLEAN, NEW a \in Attempt \cup {NoAttempt},
             ConsumeTouchdown(o, ok, a),
             UNCHANGED <<order, state, demanded, prefetch, pass, events, ledger, values>>
      PROVE  Inv'
  BY <1>4, ConsumeInv
<1>5. ASSUME NEW o \in Exposed, DiscardTouchdowns({o}),
             UNCHANGED <<order, state, demanded, prefetch, pass, events, ledger, values>>
      PROVE  Inv'
  BY <1>5, DiscardInv
<1>6. QED
  BY <1>1, <1>2, <1>3, <1>4, <1>5 DEF Call

\* Every step of the engine preserves the invariant.
LEMMA NextInv == Inv /\ [Next]_vars => Inv'
<1> SUFFICES ASSUME Inv, [Next]_vars
             PROVE  Inv'
  OBVIOUS
<1> USE DEF Inv, CarouselTypeOK, touchdownVars, ExposureIsAtomic, Exposed,
            WindowCountsUnacknowledged, DemandIsPending, OneAuthorizedAttempt, BarrierHolds
<1>1. CASE Drain
  <2>1. events' \in Seq(Events)
    BY <1>1 DEF Drain
  <2>2. QED
    BY <1>1, <2>1 DEF Drain
<1>2. CASE StartReplenish
  BY <1>2 DEF StartReplenish
<1>3. ASSUME NEW o \in Occ, NEW out \in {"value", "NoOutput"}, Resolve(o, out)
      PROVE  Inv'
  <2>1. values' \in [Occ -> {"unresolved", "value", "NoOutput"}]
    BY <1>3 DEF Resolve
  <2>2. \A p \in Occ : values[p] = "value" => values'[p] = "value"
    BY <1>3 DEF Resolve
  <2>3. UNCHANGED carouselVars
    BY <1>3 DEF Resolve
  <2>4. BarrierHolds'
    BY <2>2, <2>3, ProgramTypes DEF carouselVars, Deducible
  <2>5. QED
    BY <2>1, <2>3, <2>4 DEF carouselVars
<1>4. CASE UNCHANGED vars
  BY <1>4 DEF vars, carouselVars
<1> HIDE DEF Inv
<1>5. CASE Call \/ Replenish
  BY <1>5, CallInv, ReplenishInv
<1>6. QED
  BY <1>1, <1>2, <1>3, <1>4, <1>5 DEF Next

\* The invariant holds in every reachable state of the engine.
LEMMA Invariance == Spec => []Inv
<1>1. Init => Inv
  BY InitInv
<1>2. Inv /\ [Next]_vars => Inv'
  BY NextInv
<1>3. QED
  BY <1>1, <1>2, PTL DEF Spec

-----------------------------------------------------------------------------
(* The properties.                                                         *)

\* Whatever is called, the engine's state keeps its types.
THEOREM TypeCorrect == Spec => []CarouselTypeOK
<1>1. Inv => CarouselTypeOK
  BY DEF Inv
<1>2. QED
  BY <1>1, Invariance, PTL

\* A deduction exposes and records all or nothing, in programs of any shape.
THEOREM DeductionIsAtomic == Spec => []ExposureIsAtomic
<1>1. Inv => ExposureIsAtomic
  BY DEF Inv
<1>2. QED
  BY <1>1, Invariance, PTL

\* The window is the set of published leaves without an acknowledgement.
THEOREM WindowIsExact == Spec => []WindowCountsUnacknowledged
<1>1. Inv => WindowCountsUnacknowledged
  BY DEF Inv
<1>2. QED
  BY <1>1, Invariance, PTL

\* Demand is pending only for occurrences that can still be deduced.
THEOREM DemandCanBeServed == Spec => []DemandIsPending
<1>1. Inv => DemandIsPending
  BY DEF Inv
<1>2. QED
  BY <1>1, Invariance, PTL

\* However many attempts compete, only the recorded consumer of a Touchdown
\* was ever told to invoke the Host.
THEOREM OneAttemptIsAuthorized == Spec => []OneAuthorizedAttempt
<1>1. Inv => OneAuthorizedAttempt
  BY DEF Inv
<1>2. QED
  BY <1>1, Invariance, PTL

\* No deduction commits before the value routed into it has been resolved.
THEOREM ValuesAreAwaited == Spec => []BarrierHolds
<1>1. Inv => BarrierHolds
  BY DEF Inv
<1>2. QED
  BY <1>1, Invariance, PTL

-----------------------------------------------------------------------------
(* Decisions are final.                                                    *)

Stands ==
  /\ \A o \in Occ : state[o] \in {"committed", "failed", "withdrawn"} => state'[o] = state[o]
  /\ \A l \in Leaf : td[l] \in {"consumed", "discarded"} =>
        td'[l] = td[l] /\ consumedBy'[l] = consumedBy[l]
  /\ \A i \in DOMAIN order : i \in DOMAIN order' /\ order'[i] = order[i]
  /\ \A n \in DOMAIN ledger : n \in DOMAIN ledger' /\ ledger'[n] = ledger[n]

\* A deduction decides about undeduced and unpublished occurrences only.
LEMMA ReplenishStands ==
  ASSUME Inv, Replenish
  PROVE  Stands
<1>1. ASSUME NEW o \in Deducible, NEW cause, state[o] = "undeduced", Deduce(o, cause)
      PROVE  Stands
  <2>1. CASE DeduceCommits(o, cause)
    <3> USE DEF DeduceCommits
    <3>1. /\ \A q \in StagedSet(o) : state[q] = "unexposed"
          /\ StagedSet(o) \cap Exposed = {}
      BY <1>1, StagedIsNew
    <3>2. \A p \in Occ : state[p] \in {"committed", "failed", "withdrawn"} => state'[p] = state[p]
      BY <1>1, <2>1, <3>1
    <3>3. \A l \in Leaf : td[l] \in {"consumed", "discarded"} =>
            td'[l] = td[l] /\ consumedBy'[l] = consumedBy[l]
      BY <2>1, <3>1 DEF Inv, WindowCountsUnacknowledged
    <3>4. \A i \in DOMAIN order : i \in DOMAIN order' /\ order'[i] = order[i]
      <4>1. order \in Seq(Occ) /\ order' \in Seq(Occ) /\ Staged[o] \in Seq(Occ)
        BY <2>1, CommitExposes, ProgramTypes DEF Inv, CarouselTypeOK, Deducible
      <4>2. /\ Len(order') = Len(order) + Len(Staged[o])
            /\ \A i \in DOMAIN order : order'[i] = order[i]
        BY <2>1, CommitExposes
      <4>3. DOMAIN order = 1..Len(order) /\ DOMAIN order' = 1..Len(order')
        BY <4>1
      <4>4. Len(order) \in Nat /\ Len(Staged[o]) \in Nat
        BY <4>1
      <4>5. DOMAIN order \subseteq DOMAIN order'
        BY <4>2, <4>3, <4>4
      <4>6. QED
        BY <4>2, <4>5
    <3>5. \A n \in DOMAIN ledger : n \in DOMAIN ledger' /\ ledger'[n] = ledger[n]
      BY <2>1 DEF Inv, CarouselTypeOK
    <3>6. QED
      BY <3>2, <3>3, <3>4, <3>5 DEF Stands
  <2>2. CASE DeduceFails(o, cause)
    BY <1>1, <2>2 DEF DeduceFails, touchdownVars, Stands, Inv, CarouselTypeOK
  <2>3. QED
    BY <1>1, <2>1, <2>2 DEF Deduce
<1>2. CASE ServeDemand \/ Speculate
  BY <1>1, <1>2, Picks DEF ServeDemand, Speculate
<1>3. CASE DemandServed \/ EndReplenish
  BY <1>3 DEF DemandServed, EndReplenish, touchdownVars, Stands
<1>4. QED
  BY <1>2, <1>3 DEF Replenish

\* A call withdraws what is undeduced and acknowledges what is buffered.
LEMMA CallStands ==
  ASSUME Inv, Call
  PROVE  Stands
<1>1. ASSUME NEW o \in Leaf, NEW ok \in BOOLEAN, NEW a \in Attempt \cup {NoAttempt},
             ConsumeTouchdown(o, ok, a), UNCHANGED <<order, state, ledger>>
      PROVE  Stands
  BY <1>1, ConsumeFacts DEF touchdownVars, Stands, Inv, CarouselTypeOK
<1>2. ASSUME NEW os, DiscardTouchdowns(os), UNCHANGED <<order, state, ledger>>
      PROVE  Stands
  BY <1>2 DEF DiscardTouchdowns, Buffered, Stands
<1>3. ASSUME NEW os, Withdraw(os), UNCHANGED <<order, touchdownVars, ledger>>
      PROVE  Stands
  BY <1>3 DEF Withdraw, Undeduced, touchdownVars, Stands
<1>4. ASSUME UNCHANGED <<order, state, touchdownVars, ledger>>
      PROVE  Stands
  BY <1>4 DEF touchdownVars, Stands
<1>5. QED
  BY <1>1, <1>2, <1>3, <1>4 DEF Call, Demand, SetPrefetch

\* What the engine decided about an occurrence, a Touchdown, the exposure
\* order or the ledger is never revised.
THEOREM DecisionsAreFinal == Spec => DecisionsStand
<1>1. Inv /\ [Next]_vars => [Stands]_vars
  <2> SUFFICES ASSUME Inv, [Next]_vars
               PROVE  Stands \/ UNCHANGED vars
    OBVIOUS
  <2>1. CASE Replenish \/ Call
    BY <2>1, ReplenishStands, CallStands
  <2>2. CASE Drain \/ StartReplenish
    BY <2>2 DEF Drain, StartReplenish, touchdownVars, Stands
  <2>3. ASSUME NEW o \in Occ, NEW out \in {"value", "NoOutput"}, Resolve(o, out)
        PROVE  Stands
    BY <2>3 DEF Resolve, carouselVars, touchdownVars, Stands
  <2>4. QED
    BY <2>1, <2>2, <2>3 DEF Next
<1>2. Spec => [][Stands]_vars
  BY <1>1, Invariance, PTL DEF Spec
<1>3. QED
  BY <1>2 DEF DecisionsStand, Stands

-----------------------------------------------------------------------------
(* What a pass leaves behind.                                              *)

\* Once demand was swept to the end, what can still be served are the eager
\* calls which the pass's own speculation exposed.
SweepDone == pass = "prefetch" => Servable \subseteq Eager

\* A deduction makes nothing servable but the eager calls it exposes.
LEMMA DeduceServes ==
  ASSUME Inv, NEW o \in Deducible, NEW cause, state[o] = "undeduced", Deduce(o, cause)
  PROVE  Servable' \subseteq Servable \cup Eager
<1>1. \A q \in Occ : Blocked(q)' = Blocked(q)
  BY DEF Deduce, Blocked
<1>2. \A q \in Servable' : q \in demanded \/ q \in Eager
  BY DEF Deduce, DeduceCommits, DeduceFails, Servable
<1>3. \A q \in demanded : state'[q] = "undeduced" => state[q] = "undeduced"
  BY DEF Inv, DemandIsPending
<1>4. \A q \in Servable' : q \in Occ /\ state'[q] = "undeduced" /\ ~Blocked(q)'
  <2>1. demanded' \subseteq Occ
    BY ProgramTypes DEF Deduce, DeduceCommits, DeduceFails, Inv, CarouselTypeOK, Deducible
  <2>2. QED
    BY <2>1 DEF Servable
<1>5. QED
  BY <1>1, <1>2, <1>3, <1>4 DEF Servable

\* No call and no resolved value comes between the sweep and the end of a pass.
LEMMA SweepDoneStep == Inv /\ SweepDone /\ [Next]_vars => SweepDone'
<1> SUFFICES ASSUME Inv, SweepDone, [Next]_vars, pass' = "prefetch"
             PROVE  Servable' \subseteq Eager
  BY DEF SweepDone
<1>1. CASE UNCHANGED vars
  BY <1>1 DEF vars, carouselVars, SweepDone, Servable, Blocked
<1>2. CASE ServeDemand
  BY <1>2 DEF ServeDemand, Deduce
<1>3. CASE DemandServed
  BY <1>3 DEF DemandServed, Servable, Blocked
<1>4. CASE Speculate
  <2>1. Servable \subseteq Eager
    BY <1>4 DEF Speculate, SweepDone
  <2>2. QED
    BY <1>4, <2>1, Picks, DeduceServes DEF Speculate
<1>5. CASE EndReplenish \/ StartReplenish
  BY <1>5 DEF EndReplenish, StartReplenish
<1>6. CASE Drain \/ Call
  BY <1>6 DEF Drain, Call, Demand, SetPrefetch
<1>7. ASSUME NEW o \in Occ, NEW out \in {"value", "NoOutput"}, Resolve(o, out)
      PROVE  FALSE
  BY <1>7 DEF Resolve, carouselVars
<1>8. QED
  BY <1>1, <1>2, <1>3, <1>4, <1>5, <1>6, <1>7 DEF Next, Replenish

\* Whatever is demanded, failing, blocked or eager, a pass returns only with
\* the window filled or speculation exhausted, and with no demand left that
\* was there to be served (the loops of carousel.go's Replenish).
THEOREM PassesDoTheirWork == Spec => PassDoesItsWork
<1> DEFINE Done == pass = "prefetch" /\ pass' = "idle" =>
                     /\ Cardinality(window) >= prefetch \/ Candidates = {}
                     /\ Servable \subseteq Eager
<1>1. Init => SweepDone
  BY DEF Init, InitCarousel, SweepDone
<1>2. Spec => []SweepDone
  BY <1>1, SweepDoneStep, Invariance, PTL DEF Spec
<1>3. SweepDone /\ [Next]_vars => [Done]_vars
  <2> SUFFICES ASSUME SweepDone, [Next]_vars, pass = "prefetch", pass' = "idle"
               PROVE  /\ Cardinality(window) >= prefetch \/ Candidates = {}
                      /\ Servable \subseteq Eager
    OBVIOUS
  <2>1. EndReplenish
    BY DEF Next, Replenish, ServeDemand, DemandServed, Speculate, Deduce, StartReplenish, Drain,
           Call, Resolve, vars, carouselVars
  <2>2. QED
    BY <2>1 DEF EndReplenish, SweepDone
<1>4. Spec => [][Done]_vars
  BY <1>2, <1>3, PTL DEF Spec
<1>5. QED
  BY <1>4 DEF PassDoesItsWork

-----------------------------------------------------------------------------
(* Refinement: the engine keeps the acknowledgement protocol.              *)

\* A pass publishes the leaves of one deduction, or touches no Touchdown.
LEMMA ReplenishPublishes ==
  ASSUME Inv, Replenish
  PROVE  Acknowledgements!Next \/ UNCHANGED Acknowledgements!vars
<1>1. ASSUME NEW o \in Deducible, NEW cause, state[o] = "undeduced", Deduce(o, cause)
      PROVE  Acknowledgements!Next \/ UNCHANGED Acknowledgements!vars
  <2>1. CASE DeduceCommits(o, cause)
    <3> DEFINE ls == StagedSet(o) \cap Leaf
    <3>1. \A l \in ls : td[l] = "unpublished"
      BY <1>1, StagedIsNew DEF Inv, WindowCountsUnacknowledged
    <3>2. td' = [l \in Leaf |-> IF l \in ls THEN "buffered" ELSE td[l]]
      BY <2>1 DEF DeduceCommits
    <3>3. Acknowledgements!Publish(ls)
      BY <2>1, <3>1, <3>2 DEF DeduceCommits, Acknowledgements!Publish
    <3>4. ls \in SUBSET Leaf
      OBVIOUS
    <3>5. QED
      BY <3>3, <3>4 DEF Acknowledgements!Next
  <2>2. CASE DeduceFails(o, cause)
    BY <2>2 DEF DeduceFails, touchdownVars, Acknowledgements!vars
  <2>3. QED
    BY <1>1, <2>1, <2>2 DEF Deduce
<1>2. CASE ServeDemand \/ Speculate
  BY <1>1, <1>2, Picks DEF ServeDemand, Speculate
<1>3. CASE DemandServed \/ EndReplenish
  BY <1>3 DEF DemandServed, EndReplenish, touchdownVars, Acknowledgements!vars
<1>4. QED
  BY <1>2, <1>3 DEF Replenish

\* An acknowledgement consumes one Touchdown for one attempt, or changes nothing;
\* a discard takes buffered ones only.
LEMMA CallAcknowledges ==
  ASSUME Inv, Call
  PROVE  Acknowledgements!Next \/ UNCHANGED Acknowledgements!vars
<1>1. ASSUME NEW o \in Leaf, NEW ok \in BOOLEAN, NEW a \in Attempt \cup {NoAttempt},
             ConsumeTouchdown(o, ok, a)
      PROVE  Acknowledgements!Next \/ UNCHANGED Acknowledgements!vars
  BY <1>1, ConsumeFacts
     DEF touchdownVars, Acknowledgements!vars, Acknowledgements!Next, Acknowledgements!Consume
<1>2. ASSUME NEW os, DiscardTouchdowns(os)
      PROVE  Acknowledgements!Next
  <2>1. Buffered(os) \in SUBSET Leaf /\ \A l \in Buffered(os) : td[l] = "buffered"
    BY DEF Buffered
  <2>2. Acknowledgements!Discard(Buffered(os))
    BY <1>2, <2>1 DEF DiscardTouchdowns, Acknowledgements!Discard
  <2>3. QED
    BY <2>1, <2>2 DEF Acknowledgements!Next
<1>3. ASSUME UNCHANGED touchdownVars
      PROVE  UNCHANGED Acknowledgements!vars
  BY <1>3 DEF touchdownVars, Acknowledgements!vars
<1>4. QED
  BY <1>1, <1>2, <1>3 DEF Call, Demand, SetPrefetch

\* Every behaviour of the engine is one of the acknowledgement protocol: the
\* initial states agree and every step publishes, consumes, discards or does
\* nothing the Scheduler could observe of a Touchdown.
THEOREM AcknowledgementsAreKept == Spec => KeepsAcknowledgements
<1>1. Init => Acknowledgements!Init
  BY DEF Init, InitCarousel, Acknowledgements!Init
<1>2. Inv /\ [Next]_vars => [Acknowledgements!Next]_(Acknowledgements!vars)
  <2> SUFFICES ASSUME Inv, [Next]_vars
               PROVE  Acknowledgements!Next \/ UNCHANGED Acknowledgements!vars
    OBVIOUS
  <2>1. CASE Replenish \/ Call
    BY <2>1, ReplenishPublishes, CallAcknowledges
  <2>2. CASE Drain \/ StartReplenish \/ UNCHANGED vars
    BY <2>2 DEF Drain, StartReplenish, vars, carouselVars, touchdownVars, Acknowledgements!vars
  <2>3. ASSUME NEW o \in Occ, NEW out \in {"value", "NoOutput"}, Resolve(o, out)
        PROVE  UNCHANGED Acknowledgements!vars
    BY <2>3 DEF Resolve, carouselVars, touchdownVars, Acknowledgements!vars
  <2>4. QED
    BY <2>1, <2>2, <2>3 DEF Next
<1>3. QED
  BY <1>1, <1>2, Invariance, PTL DEF Spec, KeepsAcknowledgements, Acknowledgements!Spec

-----------------------------------------------------------------------------
(* How long a pass takes.                                                  *)

\* The occurrences that can still be deduced, now or once they are exposed.
Undecided == {o \in Deducible : state[o] \in {"unexposed", "undeduced"}}

\* The steps a pass has left: a deduction each, and the end of its two halves.
PassLeft ==
  Cardinality(Undecided) + CASE pass = "demand" -> 2 [] pass = "prefetch" -> 1 [] OTHER -> 0

\* A deduction, committed or failed, decides its occurrence and reopens none:
\* what it exposes was there to be decided before.
LEMMA DeduceDecides ==
  ASSUME Inv, NEW o \in Deducible, NEW cause, state[o] = "undeduced", Deduce(o, cause)
  PROVE  Undecided' = Undecided \ {o} /\ o \in Undecided /\ pass' = pass
<1>1. o \in Undecided /\ o \in Occ /\ state \in [Occ -> {"unexposed", "undeduced", "committed", "failed", "withdrawn"}]
  BY DEF Undecided, Deducible, Inv, CarouselTypeOK
<1>2. pass' = pass
  BY DEF Deduce
<1>3. CASE DeduceFails(o, cause)
  <2>1. state' = [state EXCEPT ![o] = "failed"]
    BY <1>3 DEF DeduceFails
  <2>2. QED
    BY <1>1, <1>2, <2>1 DEF Undecided, Deducible
<1>4. CASE DeduceCommits(o, cause)
  <2>1. state' = [q \in Occ |-> IF q = o THEN "committed"
                               ELSE IF q \in StagedSet(o)
                                    THEN IF q \in Deducible THEN "undeduced" ELSE "committed"
                                    ELSE state[q]]
    BY <1>4 DEF DeduceCommits
  <2>2. \A q \in StagedSet(o) : state[q] = "unexposed"
    BY StagedIsNew
  <2>3. \A q \in Deducible : q # o =>
          (state'[q] \in {"unexposed", "undeduced"} <=> state[q] \in {"unexposed", "undeduced"})
    BY <2>1, <2>2 DEF Deducible
  <2>4. state'[o] = "committed"
    BY <1>1, <2>1
  <2>5. QED
    BY <1>1, <1>2, <2>3, <2>4 DEF Undecided
<1>5. QED
  BY <1>3, <1>4 DEF Deduce

\* In a finite program each step of a pass leaves it less to do, whatever is
\* demanded, fails or is exposed on the way: Replenish returns after at most
\* one deduction for every occurrence that can be deduced.
THEOREM PassesAreShort ==
  ASSUME IsFiniteSet(Occ)
  PROVE  Spec => [][Replenish => /\ PassLeft \in Nat
                                 /\ PassLeft' \in Nat
                                 /\ PassLeft' < PassLeft]_vars
<1> DEFINE Shrinks == PassLeft \in Nat /\ PassLeft' \in Nat /\ PassLeft' < PassLeft
<1>1. Inv => IsFiniteSet(Undecided) /\ Cardinality(Undecided) \in Nat
  BY FS_Subset, FS_CardinalityType DEF Undecided, Deducible
<1>2. ASSUME Inv, NEW o \in Deducible, NEW cause, state[o] = "undeduced", Deduce(o, cause),
             pass \in {"demand", "prefetch"}
      PROVE  Shrinks
  <2>1. Undecided' = Undecided \ {o} /\ o \in Undecided /\ pass' = pass
    BY <1>2, DeduceDecides
  <2>2. Cardinality(Undecided \ {o}) = Cardinality(Undecided) - 1
    BY <1>1, <1>2, <2>1, FS_RemoveElement
  <2>3. IsFiniteSet(Undecided \ {o})
    BY <1>1, <1>2, FS_Subset
  <2>4. Cardinality(Undecided \ {o}) \in Nat /\ Cardinality(Undecided) \in Nat
    BY <1>1, <1>2, <2>3, FS_CardinalityType
  <2>5. CASE pass = "demand"
    <3>1. PassLeft = Cardinality(Undecided) + 2 /\ PassLeft' = Cardinality(Undecided \ {o}) + 2
      BY <2>1, <2>5 DEF PassLeft
    <3>2. QED
      BY <2>2, <2>4, <3>1
  <2>6. CASE pass = "prefetch"
    <3>1. PassLeft = Cardinality(Undecided) + 1 /\ PassLeft' = Cardinality(Undecided \ {o}) + 1
      BY <2>1, <2>6 DEF PassLeft
    <3>2. QED
      BY <2>2, <2>4, <3>1
  <2>7. QED
    BY <1>2, <2>5, <2>6
<1>3. ASSUME Inv, DemandServed \/ EndReplenish
      PROVE  Shrinks
  <2>1. Undecided' = Undecided
    BY <1>3 DEF DemandServed, EndReplenish, Undecided
  <2>2. Cardinality(Undecided) \in Nat
    BY <1>1, <1>3
  <2>3. CASE DemandServed
    <3>1. PassLeft = Cardinality(Undecided) + 2 /\ PassLeft' = Cardinality(Undecided) + 1
      BY <2>1, <2>3 DEF PassLeft, DemandServed
    <3>2. QED
      BY <2>2, <3>1
  <2>4. CASE EndReplenish
    <3>1. PassLeft = Cardinality(Undecided) + 1 /\ PassLeft' = Cardinality(Undecided) + 0
      BY <2>1, <2>4 DEF PassLeft, EndReplenish
    <3>2. QED
      BY <2>2, <3>1
  <2>5. QED
    BY <1>3, <2>3, <2>4
<1>4. ASSUME Inv, Replenish
      PROVE  Shrinks
  <2>1. CASE ServeDemand
    <3>1. pass = "demand" /\ Servable # {} /\ Deduce(First(Servable), "demand")
      BY <2>1 DEF ServeDemand
    <3>2. First(Servable) \in Deducible /\ state[First(Servable)] = "undeduced"
      BY <1>4, <3>1, Picks
    <3>3. QED
      BY <1>2, <1>4, <3>1, <3>2
  <2>2. CASE Speculate
    <3>1. pass = "prefetch" /\ Candidates # {} /\ Deduce(First(Candidates), "prefetch")
      BY <2>2 DEF Speculate
    <3>2. First(Candidates) \in Deducible /\ state[First(Candidates)] = "undeduced"
      BY <1>4, <3>1, Picks
    <3>3. QED
      BY <1>2, <1>4, <3>1, <3>2
  <2>3. QED
    BY <1>3, <1>4, <2>1, <2>2 DEF Replenish
<1>5. QED
  BY <1>4, Invariance, PTL DEF Spec
=============================================================================
