------------------------ MODULE VesselProgressProofs ------------------------
(***************************************************************************)
(* Proofs about Vessel.tla: a run that the Scheduler demands by itself     *)
(* always has something to do or to wait for.  Whatever waits for a time   *)
(* has its wakeup ahead, outputs arrive where they are routed to, and the  *)
(* scopes of what was exposed follow its deduction; so when the timeline   *)
(* is empty, some scope that could go on is found by going down the tree.  *)
(* From the same invariant: when failures found by speculation surface,    *)
(* and which attempts of settled scopes are told to stop.  First, that     *)
(* nothing a refused policy targets is attempted.                          *)
(***************************************************************************)
EXTENDS VesselOutcomeProofs

USE DEF OccurrenceTypes, RegisteredOnce, LeadUp, Composed, InSeries, Dependent

-----------------------------------------------------------------------------
(* A refused policy keeps its scope from executing.                        *)

ExposurePending(o) == \E i \in DOMAIN events : events[i].kind = "exposed" /\ events[i].occ = o

\* Every exposed occurrence is handled once: until then its event is queued,
\* before the one that says what became of it.
EventsInOrder ==
  /\ \A o \in Exposed : scope[o] = "none" => ExposurePending(o)
  /\ \A i \in DOMAIN events : events[i].kind = "exposed" => scope[events[i].occ] \in {"none"} \cup Terminal
  /\ \A i, j \in DOMAIN events :
       events[j].kind = "exposed" /\ events[i].occ = events[j].occ =>
         /\ events[i].kind = "exposed" => i = j
         /\ events[i].kind # "exposed" => j < i

\* Attempts begin, and time advances, when everything exposed has been handled.
HandledBeforeDispatch ==
  pc \in {"dispatch", "deliver"} \/ answering.event = "BeforeAttempt" => events = <<>>

\* Attempts belong to scopes that were handled, and a refused one is settled,
\* or about to be, with nothing attempted under it.
RefusalsHold ==
  /\ \A l \in Leaf : attempts[l] > 0 => \A q \in {l} \cup Ancestors[l] : scope[q] # "none"
  /\ \A o \in refused : Settled(o) \/ settling.occ = o
  /\ RejectedNeverRuns

RefuseInv == EventsInOrder /\ HandledBeforeDispatch /\ RefusalsHold

\* Scopes change when an event is handled or a scope is settled.
LEMMA ScopeSteps ==
  ASSUME VesselInv, NothingMoved, RunInv, [VesselNext]_vesselVars
  PROVE  \/ UNCHANGED scope
         \/ Opens
         \/ SettleScope /\ \A o \in Occ : scope'[o] = scope[o] \/ Settled(o)'
<1>1. CASE SettleScope
  <2>1. \A o \in Occ : scope'[o] = scope[o] \/ Settled(o)'
    BY <1>1 DEF SettleScope, VesselInv, CallsInProgress, Settled, Terminal
  <2>2. QED
    BY <1>1, <2>1
<1>2. CASE ~SettleScope
  BY <1>2, RunSteps DEF watchedVars, Discloses, Begins, GivesUp
<1>3. QED
  BY <1>1, <1>2

\* A step that leaves the queue alone.
LEMMA SameEventsInOrder ==
  ASSUME EventsInOrder, RunInv, UNCHANGED <<events, order>>, Exposed \subseteq Occ,
         \A o \in Occ : scope'[o] = scope[o] \/ Settled(o)'
  PROVE  EventsInOrder'
<1>1. UNCHANGED Exposed /\ \A o \in Exposed : o \in Occ /\ (scope'[o] = scope[o] \/ Settled(o)')
  BY DEF Exposed
<1>2. \A o \in Exposed : scope'[o] = "none" => scope[o] = "none"
  BY <1>1 DEF Settled, Terminal
<1>3. \A i \in DOMAIN events : events[i].occ \in Exposed
  BY DEF RunInv, EventsAreExposed
<1>4. \A o \in Exposed : scope[o] \in {"none"} \cup Terminal => scope'[o] \in {"none"} \cup Terminal
  BY <1>1 DEF Settled
<1>5. QED
  BY <1>1, <1>2, <1>3, <1>4 DEF EventsInOrder, ExposurePending

\* A deduction adds its commitment and the exposures of what it discloses.
LEMMA CommitInOrder ==
  ASSUME VesselInv, RunInv, EventsInOrder, Discloses
  PROVE  EventsInOrder'
<1>1. PICK o \in Deducible, cause \in {"demand", "prefetch"} :
        state[o] = "undeduced" /\ DeduceCommits(o, cause)
  BY DEF Discloses
<1>2. PICK n \in Nat :
        /\ DOMAIN events = 1..n
        /\ DOMAIN events' = 1..(n + 1 + Len(Staged[o])) /\ Len(Staged[o]) \in Nat
        /\ \A i \in 1..n : events'[i] = events[i]
        /\ events'[n + 1] = Event("committed", o, cause)
        /\ \A j \in 1..Len(Staged[o]) : events'[n + 1 + j] = Event("exposed", Staged[o][j], "")
  BY <1>1, EventPlaces
<1>3. PICK m \in Nat : m = Len(Staged[o])
  BY <1>2
<1>4. /\ Exposed' = Exposed \cup StagedSet(o) /\ StagedSet(o) \subseteq Occ /\ StagedSet(o) \cap Exposed = {}
      /\ o \in Occ /\ o \in Exposed /\ scope' = scope
  BY <1>1, CommitExposes, StagedIsNew DEF VesselInv, Deducible, Inv, ExposureIsAtomic, Discloses
<1>5. /\ DOMAIN Staged[o] = 1..m
      /\ \A i, j \in 1..m : Staged[o][i] = Staged[o][j] => i = j
      /\ StagedSet(o) = {Staged[o][j] : j \in 1..m}
  <2>1. DOMAIN Staged[o] = 1..m
    BY <1>3, <1>4, ProgramTypes
  <2>2. QED
    BY <1>4, <2>1, ProgramTree DEF StagedSet
<1>6. \A q \in StagedSet(o) : scope[q] = "none"
  BY <1>4 DEF RunInv, OutcomeInv, NotBeforeExposure
<1>7. \A i \in 1..(n + 1 + m) : i \in 1..n \/ i = n + 1 \/ \E j \in 1..m : i = n + 1 + j
  BY SplitPlaces
<1>8. /\ \A i \in 1..n : i \in 1..(n + 1 + m) /\ i < n + 1
      /\ n + 1 \in 1..(n + 1 + m)
      /\ \A j \in 1..m : n + 1 + j \in 1..(n + 1 + m)
  OBVIOUS
<1>9. /\ \A i \in 1..n : events'[i] = events[i] /\ events[i].occ \in Exposed
      /\ events'[n + 1].kind = "committed" /\ events'[n + 1].occ = o
      /\ \A j \in 1..m : events'[n + 1 + j].kind = "exposed" /\ events'[n + 1 + j].occ = Staged[o][j]
  <2>1. \A i \in 1..n : events'[i] = events[i] /\ events[i].occ \in Exposed
    BY <1>2 DEF RunInv, EventsAreExposed
  <2>2. events'[n + 1].kind = "committed" /\ events'[n + 1].occ = o
    <3>1. events'[n + 1] = Event("committed", o, cause)
      BY <1>2
    <3>2. QED
      BY <3>1 DEF Event
  <2>3. ASSUME NEW j \in 1..m
        PROVE  events'[n + 1 + j].kind = "exposed" /\ events'[n + 1 + j].occ = Staged[o][j]
    <3>1. PICK e, q : e = events'[n + 1 + j] /\ q = Staged[o][j]
      OBVIOUS
    <3>2. e = Event("exposed", q, "")
      BY <1>2, <1>3, <3>1
    <3>3. e.kind = "exposed" /\ e.occ = q
      BY <3>2 DEF Event
    <3>4. QED
      BY <3>1, <3>3
  <2>4. QED
    BY <2>1, <2>2, <2>3
<1>10. \A q \in Exposed' : scope'[q] = "none" => ExposurePending(q)'
  <2> SUFFICES ASSUME NEW q \in Exposed', scope'[q] = "none"
               PROVE  \E i \in 1..(n + 1 + m) : events'[i].kind = "exposed" /\ events'[i].occ = q
    BY <1>2, <1>3 DEF ExposurePending
  <2>1. CASE q \in Exposed
    <3>1. PICK i \in 1..n : events[i].kind = "exposed" /\ events[i].occ = q
      BY <1>2, <1>4, <2>1 DEF EventsInOrder, ExposurePending
    <3>2. QED
      BY <1>8, <1>9, <3>1
  <2>2. CASE q \in StagedSet(o)
    <3>1. PICK j \in 1..m : q = Staged[o][j]
      BY <1>5, <2>2
    <3>2. QED
      BY <1>8, <1>9, <3>1
  <2>3. QED
    BY <1>4, <2>1, <2>2
<1>11. \A i \in 1..(n + 1 + m) : events'[i].kind = "exposed" => scope'[events'[i].occ] \in {"none"} \cup Terminal
  <2> SUFFICES ASSUME NEW i \in 1..(n + 1 + m), events'[i].kind = "exposed"
               PROVE  scope'[events'[i].occ] \in {"none"} \cup Terminal
    OBVIOUS
  <2>1. CASE i \in 1..n
    BY <1>2, <1>4, <1>9, <2>1 DEF EventsInOrder
  <2>2. CASE \E j \in 1..m : i = n + 1 + j
    BY <1>4, <1>5, <1>6, <1>9, <2>2
  <2>3. QED
    BY <1>7, <1>9, <2>1, <2>2
<1>12. \A i, j \in 1..(n + 1 + m) :
         events'[j].kind = "exposed" /\ events'[i].occ = events'[j].occ =>
           /\ events'[i].kind = "exposed" => i = j
           /\ events'[i].kind # "exposed" => j < i
  <2> SUFFICES ASSUME NEW i \in 1..(n + 1 + m), NEW j \in 1..(n + 1 + m),
                      events'[j].kind = "exposed", events'[i].occ = events'[j].occ
               PROVE  /\ events'[i].kind = "exposed" => i = j
                      /\ events'[i].kind # "exposed" => j < i
    OBVIOUS
  <2>1. CASE j \in 1..n
    <3>1. CASE i \in 1..n
      <4>1. events'[i] = events[i] /\ events'[j] = events[j]
        BY <1>9, <2>1, <3>1
      <4>2. i \in DOMAIN events /\ j \in DOMAIN events
        BY <1>2, <2>1, <3>1
      <4>3. QED
        BY <4>1, <4>2 DEF EventsInOrder
    <3>2. CASE i = n + 1
      BY <1>8, <1>9, <2>1, <3>2
    <3>3. CASE \E k \in 1..m : i = n + 1 + k
      <4>1. events'[j].occ \in Exposed
        BY <1>9, <2>1
      <4>2. PICK k \in 1..m : i = n + 1 + k
        BY <3>3
      <4>3. events'[i].occ = Staged[o][k] /\ Staged[o][k] \in StagedSet(o)
        BY <1>5, <1>9, <4>2
      <4>4. QED
        BY <1>4, <4>1, <4>3
    <3>4. QED
      BY <1>7, <3>1, <3>2, <3>3
  <2>2. CASE \E k \in 1..m : j = n + 1 + k
    <3>1. PICK k \in 1..m : j = n + 1 + k
      BY <2>2
    <3>2. events'[j].occ \in StagedSet(o) /\ events'[j].occ = Staged[o][k]
      BY <1>5, <1>9, <3>1
    <3>3. CASE i \in 1..n \/ i = n + 1
      BY <1>4, <1>9, <3>2, <3>3
    <3>4. CASE \E h \in 1..m : i = n + 1 + h
      <4>1. PICK h \in 1..m : i = n + 1 + h
        BY <3>4
      <4>2. h = k
        BY <1>5, <1>9, <3>2, <4>1
      <4>3. QED
        BY <1>9, <3>1, <4>1, <4>2
    <3>5. QED
      BY <1>7, <3>3, <3>4
  <2>3. QED
    BY <1>7, <1>9, <2>1, <2>2
<1>13. QED
  BY <1>2, <1>3, <1>10, <1>11, <1>12 DEF EventsInOrder

\* A deduction that fails adds one event, about neither.
LEMMA FailureInOrder ==
  ASSUME VesselInv, RunInv, EventsInOrder, NEW o \in Deducible, NEW cause \in {"demand", "prefetch"},
         DeduceFails(o, cause), UNCHANGED scope
  PROVE  EventsInOrder'
<1>1. PICK n \in Nat :
        /\ DOMAIN events = 1..n /\ DOMAIN events' = 1..(n + 1)
        /\ \A i \in 1..n : events'[i] = events[i]
        /\ events'[n + 1] = Event("failed", o, cause)
  BY FailurePlaces
<1>2. \A i \in 1..(n + 1) : i \in 1..n \/ i = n + 1
  OBVIOUS
<1>3. \A i \in 1..n : i \in 1..(n + 1)
  OBVIOUS
<1>4. events'[n + 1].kind = "failed" /\ Exposed' = Exposed
  BY <1>1 DEF Event, DeduceFails, Exposed
<1>5. \A q \in Exposed' : scope'[q] = "none" => ExposurePending(q)'
  BY <1>1, <1>3, <1>4 DEF EventsInOrder, ExposurePending
<1>6. \A i \in 1..(n + 1) : events'[i].kind = "exposed" =>
        /\ scope'[events'[i].occ] \in {"none"} \cup Terminal
        /\ i \in 1..n
  BY <1>1, <1>2, <1>4 DEF EventsInOrder
<1>7. \A i, j \in 1..(n + 1) :
        events'[j].kind = "exposed" /\ events'[i].occ = events'[j].occ =>
          /\ events'[i].kind = "exposed" => i = j
          /\ events'[i].kind # "exposed" => j < i
  BY <1>1, <1>2, <1>4 DEF EventsInOrder
<1>8. QED
  BY <1>1, <1>5, <1>6, <1>7 DEF EventsInOrder

\* handle opens the scope of the first event's occurrence at most, and no
\* exposure of it is queued after that.
LEMMA HandleInOrder ==
  ASSUME VesselInv, RunInv, EventsInOrder, Handle
  PROVE  EventsInOrder'
<1>1. PICK e \in Events :
        /\ 1 \in DOMAIN events /\ e = events[1] /\ e.occ \in Exposed
        /\ \/ e.kind = "exposed" /\ HandleExposed(e.occ)
           \/ e.kind = "committed" /\ HandleCommitted(e.occ)
           \/ e.kind = "failed" /\ HandleFailed(e.occ, e.cause)
        /\ ScopesOpen
  BY HandlesHead DEF RunInv
<1>2. events # <<>> /\ events' = Tail(events) /\ UNCHANGED Exposed /\ Exposed \subseteq Occ
  BY ExposureFollowsTree DEF Handle, Exposed, VesselInv
<1>3. /\ \A i \in DOMAIN events' : i \in Nat \ {0} /\ i + 1 \in DOMAIN events /\ events'[i] = events[i + 1]
      /\ \A i \in DOMAIN events : i # 1 => i - 1 \in DOMAIN events' /\ events'[i - 1] = events[i]
      /\ DOMAIN events \subseteq Nat \ {0}
  BY <1>2, TailPlaces
<1>4. /\ e.kind = "exposed" => scope'[e.occ] # "none"
      /\ e.kind = "failed" => scope' = scope
      /\ \A q \in Occ : q # e.occ => scope'[q] = scope[q]
  BY <1>1, <1>2 DEF HandleExposed, HandleCommitted, HandleFailed, Settled, Terminal, VesselInv, WorkTypes
<1>5. \A q \in Exposed : scope'[q] = "none" => scope[q] = "none"
  BY <1>1, <1>2, <1>4 DEF HandleExposed, HandleCommitted, HandleFailed, VesselInv, WorkTypes
<1>6. \A q \in Exposed' : scope'[q] = "none" => ExposurePending(q)'
  <2> SUFFICES ASSUME NEW q \in Exposed, scope'[q] = "none"
               PROVE  ExposurePending(q)'
    BY <1>2
  <2>1. PICK i \in DOMAIN events : events[i].kind = "exposed" /\ events[i].occ = q
    BY <1>5 DEF EventsInOrder, ExposurePending
  <2>2. i # 1
    BY <1>1, <1>4, <2>1
  <2>3. QED
    BY <1>3, <2>1, <2>2 DEF ExposurePending
<1>7. \A i \in DOMAIN events' : events'[i].kind = "exposed" => scope'[events'[i].occ] \in {"none"} \cup Terminal
  <2> SUFFICES ASSUME NEW i \in DOMAIN events', events'[i].kind = "exposed"
               PROVE  scope'[events'[i].occ] \in {"none"} \cup Terminal
    OBVIOUS
  <2>1. /\ i \in Nat \ {0} /\ i + 1 \in DOMAIN events /\ events'[i] = events[i + 1]
        /\ i + 1 # 1 /\ ~(i + 1 < 1)
    BY <1>3
  <2>2. events'[i].occ \in Occ
    BY <1>2, <2>1 DEF RunInv, EventsAreExposed
  <2>3. CASE events'[i].occ # e.occ
    BY <1>4, <2>1, <2>2, <2>3 DEF EventsInOrder
  <2>4. CASE events'[i].occ = e.occ
    BY <1>1, <2>1, <2>4 DEF EventsInOrder
  <2>5. QED
    BY <2>3, <2>4
<1>8. \A i, j \in DOMAIN events' :
        events'[j].kind = "exposed" /\ events'[i].occ = events'[j].occ =>
          /\ events'[i].kind = "exposed" => i = j
          /\ events'[i].kind # "exposed" => j < i
  <2> SUFFICES ASSUME NEW i \in DOMAIN events', NEW j \in DOMAIN events',
                      events'[j].kind = "exposed", events'[i].occ = events'[j].occ
               PROVE  /\ events'[i].kind = "exposed" => i = j
                      /\ events'[i].kind # "exposed" => j < i
    OBVIOUS
  <2>1. /\ i \in Nat /\ i + 1 \in DOMAIN events /\ events'[i] = events[i + 1]
        /\ j \in Nat /\ j + 1 \in DOMAIN events /\ events'[j] = events[j + 1]
    BY <1>3
  <2>2. /\ events[i + 1].kind = "exposed" => i + 1 = j + 1
        /\ events[i + 1].kind # "exposed" => j + 1 < i + 1
    BY <2>1 DEF EventsInOrder
  <2>3. QED
    BY <2>1, <2>2
<1>9. QED
  BY <1>6, <1>7, <1>8 DEF EventsInOrder

\* The queue stays in order.
LEMMA EventsInOrderStep ==
  ASSUME VesselInv, NothingMoved, RunInv, EventsInOrder, [VesselNext]_vesselVars
  PROVE  EventsInOrder'
<1>1. Exposed \subseteq Occ
  BY ExposureFollowsTree DEF VesselInv
<1>2. CASE Quiet /\ Handle
  BY <1>2, HandleInOrder
<1>3. CASE Quiet /\ Deduction
  <2>1. pc = "pump" /\ UNCHANGED <<scope, attempts, result, values>>
    BY <1>3 DEF Deduction, schedulerVars, outcomeVars, Replenish, ServeDemand, Speculate, Deduce,
                DemandServed, EndReplenish
  <2>2. CASE UNCHANGED <<events, order>>
    BY <1>1, <2>1, <2>2, SameEventsInOrder
  <2>3. ASSUME NEW o \in Deducible, NEW cause \in {"demand", "prefetch"}, state[o] = "undeduced",
               DeduceCommits(o, cause) \/ DeduceFails(o, cause)
        PROVE  EventsInOrder'
    <3>1. CASE DeduceCommits(o, cause)
      <4>1. Discloses
        BY <1>3, <2>1, <2>3, <3>1 DEF Discloses
      <4>2. QED
        BY <4>1, CommitInOrder
    <3>2. CASE DeduceFails(o, cause)
      BY <2>1, <3>2, FailureInOrder
    <3>3. QED
      BY <2>3, <3>1, <3>2
  <2>4. QED
    BY <1>2, <2>2, <2>3, EventSteps
<1>4. CASE UNCHANGED <<events, order>>
  <2>1. CASE Opens
    BY <1>2, <2>1 DEF Opens
  <2>2. CASE UNCHANGED scope
    BY <1>1, <1>4, <2>2, SameEventsInOrder
  <2>3. CASE \A o \in Occ : scope'[o] = scope[o] \/ Settled(o)'
    BY <1>1, <1>4, <2>3, SameEventsInOrder
  <2>4. QED
    BY <2>1, <2>2, <2>3, ScopeSteps
<1>5. QED
  BY <1>2, <1>3, <1>4, EventSteps

\* BeforeAttempt is asked by dispatch only, once no event is left.
LEMMA HandledBeforeDispatchStep ==
  ASSUME VesselInv, HandledBeforeDispatch, [VesselNext]_vesselVars
  PROVE  HandledBeforeDispatch'
<1>1. ASSUME NEW o, NEW event, NEW st, NEW out, event # "BeforeAttempt",
             Consult(o, event, st, out) \/ Silent(o, event)
      PROVE  answering'.event # "BeforeAttempt"
  BY <1>1 DEF Consult, Silent, NotAnswering
<1>2. CASE Inner
  <2>1. pc' = pc /\ events' = events
    BY <1>2 DEF Inner, SettleScope, ApplyAction, Answered, StartAttempt, controlVars, vars, carouselVars
  <2>2. \A p, s, v : ChildOutcome(p, s, v) => answering'.event # "BeforeAttempt"
    BY <1>1 DEF ChildOutcome, Propose, NotAnswering
  <2>3. answering'.event = "BeforeAttempt" => answering.event = "BeforeAttempt"
    <3>1. CASE SettleScope
      BY <2>2, <3>1 DEF SettleScope
    <3>2. CASE ApplyAction
      <4>1. CASE answering' = NotAnswering
        BY <4>1 DEF NotAnswering
      <4>2. CASE answering' = [answering EXCEPT !.acts = Tail(@)]
        BY <4>2 DEF VesselInv, CallTypes
      <4>3. QED
        BY <3>2, <4>1, <4>2 DEF ApplyAction
    <3>3. CASE Answered
      <4>1. \A proposal : Propose(proposal) => answering'.event # "BeforeAttempt"
        <5> SUFFICES ASSUME NEW proposal, Propose(proposal)
                     PROVE  answering'.event # "BeforeAttempt"
          OBVIOUS
        <5>1. CASE answering' = NotAnswering
          BY <5>1 DEF NotAnswering
        <5>2. CASE \/ Consult(proposal.occ, "ScopeOutcomeProposed", proposal.st, proposal.out)
                   \/ Silent(proposal.occ, "ScopeOutcomeProposed")
          BY <1>1, <5>2
        <5>3. QED
          BY <5>1, <5>2 DEF Propose
      <4>2. CASE answering' = NotAnswering
        BY <4>2 DEF NotAnswering
      <4>3. CASE Propose(EvaluateParent(answering.occ, scope, values))
        BY <4>1, <4>3
      <4>4. QED
        BY <3>3, <4>2, <4>3 DEF Answered
    <3>4. QED
      BY <1>2, <3>1, <3>2, <3>3 DEF Inner
  <2>4. QED
    BY <2>1, <2>3 DEF HandledBeforeDispatch
<1>3. CASE Quiet /\ (Deduction \/ Handle)
  <2>1. answering.event # "BeforeAttempt"
    BY <1>3 DEF Quiet, NotAnswering
  <2>2. pc' = "pump"
    BY <1>3 DEF Deduction, Handle, controlVars
  <2>3. answering'.event # "BeforeAttempt"
    BY <1>1, <1>3, <2>1
       DEF Deduction, Handle, HandleExposed, HandleCommitted, HandleFailed, Refuse, Attach, Notify, outcomeVars
  <2>4. QED
    BY <2>2, <2>3 DEF HandledBeforeDispatch
<1>4. CASE Quiet /\ Dispatch
  <2>1. pc = "dispatch" /\ UNCHANGED events
    BY <1>4 DEF Dispatch, BeforeAttempt, WithholdDispatch, StartAttempt, vars, carouselVars
  <2>2. QED
    BY <2>1 DEF HandledBeforeDispatch
<1>5. CASE Quiet /\ (SurfaceFailure \/ SchedulerDemand \/ Pumped \/ Dispatched \/ Deliver \/ Stuck \/ Step \/ CallIn)
  <2>1. answering.event # "BeforeAttempt"
    BY <1>5 DEF Quiet, NotAnswering
  <2>2. UNCHANGED events /\ (pc' \in {"dispatch", "deliver"} => events = <<>> \/ pc \in {"dispatch", "deliver"})
    BY <1>5 DEF SurfaceFailure, SchedulerDemand, Pumped, Dispatched, Deliver, Stuck, Step, Stabilize, CallIn,
                RunDemand, Demand, CancelScope, RunSetPrefetch, SetPrefetch, RivalConsume, Advance,
                vars, carouselVars, controlVars
  <2>3. answering'.event # "BeforeAttempt"
    <3>1. CASE Deliver
      <4>1. \A item : AttemptOutcome(item, <<>>) => UNCHANGED answering
        BY <2>1 DEF AttemptOutcome
      <4>2. \A item, acts : AttemptOutcome(item, acts) => answering'.event # "BeforeAttempt"
        BY <2>1 DEF AttemptOutcome
      <4>3. QED
        BY <1>1, <2>1, <3>1, <4>2 DEF Deliver, DeliverCompletion, DeliverTimer, Notify
    <3>2. CASE ~Deliver
      BY <1>5, <2>1, <3>2
         DEF SurfaceFailure, SchedulerDemand, Pumped, Dispatched, Stuck, Step, CallIn, RunDemand, CancelScope,
             RunSetPrefetch, RivalConsume, Advance, outcomeVars
    <3>3. QED
      BY <3>1, <3>2
  <2>4. QED
    BY <2>2, <2>3 DEF HandledBeforeDispatch
<1>6. CASE UNCHANGED vesselVars
  BY <1>6 DEF vesselVars, vars, carouselVars, controlVars, outcomeVars, HandledBeforeDispatch
<1>7. QED
  BY <1>2, <1>3, <1>4, <1>5, <1>6 DEF VesselNext, Routine

\* A policy is refused when the exposure of its scope is handled, and the call
\* of settle that follows is not interrupted.
LEMMA RefusalSteps ==
  ASSUME VesselInv, RunInv, EventsInOrder, [VesselNext]_vesselVars
  PROVE  \/ UNCHANGED refused /\ (settling = NotSettling \/ SettleScope \/ UNCHANGED settling)
         \/ Quiet /\ Handle /\ \E o \in Exposed : /\ refused' = refused \cup {o}
                                                  /\ scope[o] = "none" /\ settling'.occ = o
<1>1. CASE Inner
  <2>1. UNCHANGED refused
    BY <1>1 DEF Inner, SettleScope, ApplyAction, Answered, schedulerVars
  <2>2. QED
    BY <1>1, <2>1 DEF Inner
<1>2. CASE Quiet /\ Handle
  <2>1. PICK e \in Events :
          /\ 1 \in DOMAIN events /\ e = events[1] /\ e.occ \in Exposed
          /\ \/ e.kind = "exposed" /\ HandleExposed(e.occ)
             \/ e.kind = "committed" /\ HandleCommitted(e.occ)
             \/ e.kind = "failed" /\ HandleFailed(e.occ, e.cause)
    BY <1>2, HandlesHead DEF RunInv
  <2>2. PICK o \in Exposed : o = e.occ
    BY <2>1
  <2>3. CASE e.kind = "exposed" /\ ~Settled(o) /\ Refuse(o)
    <3>1. scope[o] = "none"
      BY <2>1, <2>2, <2>3 DEF EventsInOrder, Settled
    <3>2. settling'.occ = o /\ refused' = refused \cup {o}
      BY <2>3 DEF Refuse, Settle
    <3>3. QED
      BY <1>2, <3>1, <3>2
  <2>4. CASE UNCHANGED refused
    BY <1>2, <2>4 DEF Quiet
  <2>5. QED
    BY <2>1, <2>2, <2>3, <2>4 DEF HandleExposed, HandleCommitted, HandleFailed, Attach
<1>3. CASE Quiet /\ ~Handle /\ (Routine \/ Step \/ CallIn)
  <2>1. UNCHANGED refused
    BY <1>3 DEF Routine, SurfaceFailure, SchedulerDemand, Deduction, Pumped, Dispatch, Dispatched, Deliver, Stuck,
                Step, CallIn, RunDemand, CancelScope, RunSetPrefetch, RivalConsume, Advance, schedulerVars
  <2>2. QED
    BY <1>3, <2>1 DEF Quiet
<1>4. CASE UNCHANGED vesselVars
  BY <1>4 DEF vesselVars, schedulerVars, outcomeVars
<1>5. QED
  BY <1>1, <1>2, <1>3, <1>4 DEF VesselNext

\* Nothing is attempted under a refused policy: not before the refusal, since
\* nothing under it was disclosed and handled, nor after it.
LEMMA RefusalsHoldStep ==
  ASSUME VesselInv, NothingMoved, RunInv, RefuseInv, [VesselNext]_vesselVars
  PROVE  RefusalsHold'
<1>1. /\ Exposed \subseteq Occ /\ refused \subseteq Occ
      /\ \A l \in Leaf : l \in Occ /\ {l} \cup Ancestors[l] \subseteq Occ
  BY ExposureFollowsTree, AncestorsUnfold DEF VesselInv, Bookkeeping, Leaf
<1>2. \A o \in Occ : /\ scope[o] # "none" => scope'[o] # "none"
                     /\ Settled(o) => Settled(o)'
  <2>1. CASE UNCHANGED scope
    BY <2>1 DEF Settled
  <2>2. CASE SettleScope
    <3>1. ~Opens
      BY <2>2 DEF SettleScope, Opens, Quiet, NotSettling
    <3>2. \A o \in Occ : scope'[o] = scope[o] \/ Settled(o)'
      BY <3>1, ScopeSteps DEF RefuseInv
    <3>3. \A o \in Occ : Settled(o) => scope'[o] = scope[o]
      BY OutcomesStandStep DEF ScopesStand
    <3>4. QED
      BY <3>2, <3>3 DEF Settled, Terminal
  <2>3. CASE Opens
    <3>1. PICK e \in Events :
            /\ e.occ \in Exposed
            /\ HandleExposed(e.occ) \/ HandleCommitted(e.occ) \/ HandleFailed(e.occ, e.cause)
      BY <2>3, HandlesHead DEF Opens, RunInv
    <3>2. QED
      BY <1>1, <2>3, <3>1 DEF HandleExposed, HandleCommitted, HandleFailed, Opens, ScopesOpen, Settled,
                              VesselInv, WorkTypes
  <2>4. QED
    BY <2>1, <2>2, <2>3, ScopeSteps
<1>3. CASE \E l \in Leaf \cap Exposed : Begins(l)
  <2>1. PICK l \in Leaf \cap Exposed : Begins(l)
    BY <1>3
  <2>2. /\ \A q \in {l} \cup Ancestors[l] : ~Settled(q) /\ q \in Exposed
        /\ scope' = scope /\ settling = NotSettling /\ events = <<>>
        /\ attempts' = [attempts EXCEPT ![l] = @ + 1]
    BY <2>1, ExposureFollowsTree DEF Begins, RefuseInv, HandledBeforeDispatch, VesselInv
  <2>3. \A q \in {l} \cup Ancestors[l] : scope[q] # "none" /\ q \notin refused
    <3>1. DOMAIN events = {}
      <4>1. DOMAIN << >> = 1..0
        OBVIOUS
      <4>2. QED
        BY <2>2, <4>1
    <3>2. NoOcc \notin Exposed
      BY <1>1, ProgramTypes
    <3>3. QED
      BY <2>2, <3>1, <3>2 DEF RefuseInv, EventsInOrder, ExposurePending, RefusalsHold, NotSettling
  <2>4. UNCHANGED refused
    <3>1. ~(Quiet /\ Handle)
      BY <2>1 DEF Begins, Handle, Quiet, NotAnswering
    <3>2. QED
      BY <3>1, RefusalSteps DEF RefuseInv
  <2>5. \A k \in Leaf : k # l => attempts'[k] = attempts[k]
    BY <2>2
  <2>6. \A o \in refused : Settled(o)'
    BY <1>1, <2>2, <2>4, ProgramTypes DEF RefuseInv, RefusalsHold, NotSettling, Settled
  <2>7. QED
    BY <2>2, <2>3, <2>4, <2>5, <2>6 DEF RefuseInv, RefusalsHold, RejectedNeverRuns
<1>4. CASE UNCHANGED attempts
  <2>1. \A l \in Leaf : attempts'[l] > 0 => \A q \in {l} \cup Ancestors[l] : scope'[q] # "none"
    BY <1>1, <1>2, <1>4 DEF RefuseInv, RefusalsHold
  <2>2. CASE UNCHANGED refused /\ (settling = NotSettling \/ SettleScope \/ UNCHANGED settling)
    <3>1. \A o \in refused : Settled(o)' \/ settling'.occ = o
      <4> SUFFICES ASSUME NEW o \in refused, ~Settled(o)'
                   PROVE  settling'.occ = o
        OBVIOUS
      <4>1. o \in Occ /\ settling.occ = o
        BY <1>1, <1>2 DEF RefuseInv, RefusalsHold
      <4>2. settling # NotSettling
        BY <4>1, ProgramTypes DEF NotSettling
      <4>3. ~SettleScope
        BY <4>1 DEF SettleScope, VesselInv, CallsInProgress, Settled
      <4>4. QED
        BY <2>2, <4>1, <4>2, <4>3
    <3>2. QED
      BY <1>4, <2>1, <2>2, <3>1 DEF RefuseInv, RefusalsHold, RejectedNeverRuns
  <2>3. CASE Quiet /\ Handle /\ \E o \in Exposed : /\ refused' = refused \cup {o}
                                                   /\ scope[o] = "none" /\ settling'.occ = o
    <3>1. PICK o \in Exposed : refused' = refused \cup {o} /\ scope[o] = "none" /\ settling'.occ = o
      BY <2>3
    <3>2. \A q \in refused : Settled(q)'
      BY <1>1, <1>2, <2>3, ProgramTypes DEF RefuseInv, RefusalsHold, Quiet, NotSettling
    <3>3. ASSUME NEW l \in Leaf, o \in {l} \cup Ancestors[l] PROVE attempts[l] = 0
      <4>1. ~(attempts[l] > 0)
        BY <3>1, <3>3 DEF RefuseInv, RefusalsHold
      <4>2. attempts[l] \in Nat
        BY <3>3 DEF VesselInv, WorkTypes
      <4>3. QED
        BY <4>1, <4>2
    <3>4. QED
      BY <1>4, <2>1, <3>1, <3>2, <3>3 DEF RefuseInv, RefusalsHold, RejectedNeverRuns
  <2>4. QED
    BY <2>2, <2>3, RefusalSteps DEF RefuseInv
<1>5. QED
  BY <1>3, <1>4, RunSteps DEF watchedVars, Discloses, Opens, GivesUp, SettleScope, schedulerVars

\* In every state of a run events are in order and refusals hold.
LEMMA RefuseInvariance == VesselSpec => []RefuseInv
<1>1. VesselInit => RefuseInv
  <2> SUFFICES ASSUME VesselInit
               PROVE  RefuseInv
    OBVIOUS
  <2>1. DOMAIN order = 1..1 /\ order[1] = Root /\ DOMAIN events = {}
    <3>1. DOMAIN << >> = 1..0
      OBVIOUS
    <3>2. QED
      BY <3>1 DEF VesselInit
  <2>2. \A o \in Exposed : scope[o] # "none"
    BY <2>1, ProgramTypes DEF Exposed, VesselInit
  <2>3. EventsInOrder
    BY <2>1, <2>2 DEF EventsInOrder
  <2>4. HandledBeforeDispatch /\ RefusalsHold
    BY DEF VesselInit, HandledBeforeDispatch, RefusalsHold, RejectedNeverRuns, NotAnswering
  <2>5. QED
    BY <2>3, <2>4 DEF RefuseInv
<1>2. VesselInv /\ NothingMoved /\ RunInv /\ RefuseInv /\ [VesselNext]_vesselVars => RefuseInv'
  BY EventsInOrderStep, HandledBeforeDispatchStep, RefusalsHoldStep DEF RefuseInv
<1>3. QED
  BY <1>1, <1>2, OutcomeInvariance, NothingMovedInvariance, VesselInvariance, PTL DEF VesselSpec

\* bind's promise (README.md, policies): a policy that is unknown or does not
\* fit fails its own scope when it is disclosed, and nothing in that scope is
\* ever executed.
THEOREM RefusedScopesNeverRun == VesselSpec => []RejectedNeverRuns
<1>1. RefuseInv => RejectedNeverRuns
  BY DEF RefuseInv, RefusalsHold
<1>2. QED
  BY <1>1, RefuseInvariance, PTL

-----------------------------------------------------------------------------
(* The timeline: what is put on it and taken from it.                      *)

\* A wakeup of l at time t is ahead.
Ahead(tl, l, t) == \E i \in DOMAIN tl : tl[i].kind = "backoff" /\ tl[i].occ = l /\ tl[i].at = t

\* Every completion that is due brings an output.
Answers(tl) == \A i \in DOMAIN tl : tl[i].kind = "completion" => tl[i].out # "unresolved"

\* A new item leaves the others on the timeline.
LEMMA InsertKeeps ==
  ASSUME NEW tl \in Seq(Item), NEW item \in Item
  PROVE  /\ \A l, t : Ahead(tl, l, t) => Ahead(Insert(tl, item), l, t)
         /\ item.kind = "backoff" => Ahead(Insert(tl, item), item.occ, item.at)
         /\ Answers(tl) /\ (item.kind = "completion" => item.out # "unresolved")
              => Answers(Insert(tl, item))
<1> DEFINE ins == Insert(tl, item)
<1>1. PICK p \in DOMAIN ins :
        /\ ins[p] = item
        /\ \A i \in DOMAIN ins \ {p} : Old(p, i) \in DOMAIN tl /\ ins[i] = tl[Old(p, i)]
        /\ \A k \in DOMAIN tl : New(p, k) \in DOMAIN ins \ {p} /\ ins[New(p, k)] = tl[k]
  BY InsertPlaces
<1> HIDE DEF ins
<1>2. \A l, t : Ahead(tl, l, t) => Ahead(ins, l, t)
  BY <1>1 DEF Ahead
<1>3. item.kind = "backoff" => Ahead(ins, item.occ, item.at)
  BY <1>1 DEF Ahead
<1>4. Answers(tl) /\ (item.kind = "completion" => item.out # "unresolved") => Answers(ins)
  BY <1>1 DEF Answers
<1>5. QED
  BY <1>2, <1>3, <1>4 DEF ins

\* Only the head of the timeline is ever taken from it.
LEMMA TailKeeps ==
  ASSUME NEW tl \in Seq(Item), tl # <<>>
  PROVE  /\ \A l, t : Ahead(tl, l, t) => Ahead(Tail(tl), l, t) \/ t = Head(tl).at
         /\ Answers(tl) => Answers(Tail(tl)) /\ (Head(tl).kind = "completion" => Head(tl).out # "unresolved")
<1>1. \A l, t : Ahead(tl, l, t) => Ahead(Tail(tl), l, t) \/ t = Head(tl).at
  BY TailFacts DEF Ahead
<1>2. Answers(tl) => Answers(Tail(tl)) /\ (Head(tl).kind = "completion" => Head(tl).out # "unresolved")
  BY TailFacts DEF Answers
<1>3. QED
  BY <1>1, <1>2

\* Something is put on the timeline while no wait changes; timers are started
\* by the policies that are asked.
Schedules ==
  /\ UNCHANGED <<notBefore, now>>
  /\ \E item \in Item : /\ timeline' = Insert(timeline, item)
                        /\ item.kind = "completion" => item.out # "unresolved"
                        /\ item.kind = "timer" => answering.occ = item.occ

\* A leaf waits from now on, and its wakeup is put on the timeline.
Postpones ==
  /\ now' = now
  /\ \E l \in Leaf, t \in Nat : /\ notBefore' = [notBefore EXCEPT ![l] = t]
                                /\ timeline' = Insert(timeline, Wakeup(l, "backoff", t))

\* The head of the timeline is taken, and its leaf may wait for another attempt.
Delivers ==
  /\ timeline # <<>>
  /\ now' = IF Head(timeline).at > now THEN Head(timeline).at ELSE now
  /\ \/ timeline' = Tail(timeline) /\ UNCHANGED notBefore
     \/ \E l \in Leaf, t \in Nat :
          /\ notBefore' = [notBefore EXCEPT ![l] = t]
          /\ \/ t <= now' /\ timeline' = Tail(timeline)
             \/ timeline' = Insert(Tail(timeline), Wakeup(l, "backoff", t))

\* Beginning an attempt puts its completion on the timeline.
LEMMA StartSchedules ==
  ASSUME VesselInv, NEW l \in Leaf, attempts[l] < MaxAttempts, StartAttempt(l), UNCHANGED now
  PROVE  UNCHANGED <<timeline, notBefore, now>> \/ Schedules
<1>1. CASE \E outcome \in Outcomes[l] : Invoke(l, outcome)
  <2>1. PICK outcome \in Outcomes[l] : Invoke(l, outcome)
    BY <1>1
  <2>2. outcome.out # "unresolved"
    BY RunTypes
  <2>3. QED
    BY <2>1, <2>2, AnswerIsItem DEF Invoke, StartAttempt, Schedules
<1>2. QED
  BY <1>1 DEF StartAttempt

\* Every step does one of these, or leaves the timeline and the waits alone.
LEMMA TimelineSteps ==
  ASSUME VesselInv, [VesselNext]_vesselVars
  PROVE  UNCHANGED <<timeline, notBefore, now>> \/ Schedules \/ Postpones \/ Delivers
<1>1. timeline \in Seq(Item) /\ now \in Nat
  BY DEF VesselInv, WorkTypes
<1>2. CASE settling = NotSettling /\ ApplyAction
  <2>1. PICK o \in Occ, act \in Action : o = answering.occ /\ act = Head(answering.acts)
    <3>1. answering # NotAnswering
      BY <1>2 DEF ApplyAction, NotAnswering
    <3>2. answering.occ \in Occ
      BY <3>1 DEF VesselInv, CallsInProgress
    <3>3. answering.acts \in Seq(Action) /\ answering.acts # <<>>
      BY <1>2 DEF ApplyAction, VesselInv, CallTypes
    <3>4. Head(answering.acts) \in Action
      BY <3>3
    <3>5. QED
      BY <3>2, <3>4
  <2>2. now' = now
    BY <1>2 DEF ApplyAction
  <2>3. PICK due \in Nat : due = now + act.ticks
    BY <1>1 DEF Action
  <2>4. CASE UNCHANGED <<notBefore, timeline>>
    BY <2>2, <2>4
  <2>5. CASE ~Ends(o, act) /\ Perform(o, act)
    <3>1. CASE act.kind = "Hold" /\ due > notBefore[o]
      <4>1. o \in Leaf
        BY <2>5, <3>1 DEF Ends
      <4>2. /\ notBefore' = [notBefore EXCEPT ![o] = due]
            /\ timeline' = Insert(timeline, Wakeup(o, "backoff", due))
        BY <2>3, <2>5, <3>1 DEF Perform
      <4>3. QED
        BY <2>2, <4>1, <4>2 DEF Postpones
    <3>2. CASE act.kind = "StartTimer"
      <4>1. timeline' = Insert(timeline, Wakeup(o, "timer", due)) /\ UNCHANGED notBefore
        BY <2>3, <2>5, <3>2 DEF Perform
      <4>2. PICK item \in Item : item = Wakeup(o, "timer", due) /\ item.kind # "completion"
        BY WakeupIsItem
      <4>3. answering.occ = item.occ
        BY <2>1, <4>2 DEF Wakeup
      <4>4. QED
        BY <2>2, <4>1, <4>2, <4>3 DEF Schedules
    <3>3. CASE ~(act.kind = "Hold" /\ due > notBefore[o]) /\ act.kind # "StartTimer"
      BY <2>2, <2>3, <2>5, <3>3 DEF Perform
    <3>4. QED
      BY <3>1, <3>2, <3>3
  <2>6. QED
    BY <1>2, <2>1, <2>4, <2>5 DEF ApplyAction
<1>3. CASE settling = NotSettling /\ Answered
  <2>1. UNCHANGED now
    BY <1>3 DEF Answered
  <2>2. CASE answering.event = "BeforeAttempt" /\ StartAttempt(answering.occ)
    <3>1. answering.occ \in Leaf /\ attempts[answering.occ] < MaxAttempts
      BY <2>2 DEF VesselInv, CallsInProgress, MayStart
    <3>2. QED
      BY <2>1, <2>2, <3>1, StartSchedules
  <2>3. QED
    BY <1>3, <2>1, <2>2 DEF Answered
<1>4. CASE Quiet /\ Dispatch
  <2>1. PICK l \in Leaf \cap Exposed :
          /\ MayStart(l)
          /\ BeforeAttempt(l) \/ \E ticks \in Withhold : WithholdDispatch(l, ticks)
    BY <1>4, DispatchPicks
  <2>2. UNCHANGED now
    BY <1>4 DEF Dispatch
  <2>3. ASSUME NEW ticks \in Withhold, WithholdDispatch(l, ticks)
        PROVE  Postpones
    <3>1. now + ticks \in Nat
      BY <1>1, RunTypes
    <3>2. QED
      BY <2>2, <2>3, <3>1 DEF WithholdDispatch, Postpones
  <2>4. CASE StartAttempt(l)
    BY <2>1, <2>2, <2>4, StartSchedules DEF MayStart
  <2>5. QED
    BY <2>1, <2>2, <2>3, <2>4 DEF BeforeAttempt
<1>5. CASE Quiet /\ Deliver
  <2>1. PICK item \in Item : item = Head(timeline)
    BY <1>1, <1>5 DEF Deliver
  <2>2. timeline # <<>> /\ now' = IF item.at > now THEN item.at ELSE now
    BY <1>5, <2>1 DEF Deliver
  <2>3. CASE timeline' = Tail(timeline) /\ UNCHANGED notBefore
    BY <2>1, <2>2, <2>3 DEF Delivers
  <2>4. ASSUME item.kind = "completion", NEW acts \in Interp[item.occ]["AttemptOutcome"],
               NEW i \in DOMAIN acts, Reattempt(item.occ, acts[i].ticks), DeliverCompletion(item)
        PROVE  Delivers
    <3>1. item.occ \in Leaf
      BY <2>1, <2>2, <2>4, DeliveredAttempt DEF Completes
    <3>2. acts \in Seq(Action)
      BY <2>4, <3>1, RunTypes DEF Leaf, PolicyEvent
    <3>3. acts[i].ticks \in Nat
      <4>1. acts \in [1..Len(acts) -> Action]
        BY <3>2
      <4>2. acts[i] \in Action
        BY <4>1
      <4>3. QED
        BY <4>2 DEF Action
    <3>4. now' \in Nat
      BY <1>1, <2>1, <2>2 DEF Item
    <3>5. now' + acts[i].ticks \in Nat /\ (acts[i].ticks = 0 => now' + acts[i].ticks <= now')
      BY <3>3, <3>4
    <3>6. QED
      BY <2>1, <2>2, <2>4, <3>1, <3>5 DEF Reattempt, Delivers
  <2>5. CASE item.kind = "completion"
    <3>1. DeliverCompletion(item)
      BY <1>5, <2>1, <2>5 DEF Deliver
    <3>2. QED
      BY <2>3, <2>4, <2>5, <3>1 DEF DeliverCompletion, AttemptOutcome
  <2>6. CASE item.kind # "completion"
    BY <1>5, <2>1, <2>3, <2>6 DEF Deliver, DeliverTimer
  <2>7. QED
    BY <2>5, <2>6
<1>6. CASE SettleScope
  BY <1>6 DEF SettleScope, schedulerVars
<1>7. CASE Quiet /\ (SurfaceFailure \/ SchedulerDemand \/ Deduction \/ Handle \/ Pumped \/ Dispatched
                     \/ Stuck \/ Step \/ CallIn)
  BY <1>7 DEF SurfaceFailure, SchedulerDemand, Deduction, Handle, Pumped, Dispatched, Stuck, Step, CallIn,
              RunDemand, CancelScope, RunSetPrefetch, RivalConsume, Advance, schedulerVars, hostVars
<1>8. CASE UNCHANGED vesselVars
  BY <1>8 DEF vesselVars, schedulerVars, hostVars
<1>9. QED
  BY <1>2, <1>3, <1>4, <1>5, <1>6, <1>7, <1>8 DEF VesselNext, Inner, Routine

\* Whatever waits for a time to come has the wakeup for that time ahead.
WaitsAreAhead == \A l \in Leaf : notBefore[l] > now => Ahead(timeline, l, notBefore[l])

\* Waits are set together with their wakeups, and a wakeup that is delivered
\* ends the wait for it.
LEMMA WaitsAreAheadStep ==
  ASSUME VesselInv, WaitsAreAhead, [VesselNext]_vesselVars
  PROVE  WaitsAreAhead'
<1>1. timeline \in Seq(Item) /\ now \in Nat /\ notBefore \in [Leaf -> Nat] /\ Leaf \subseteq Occ
  BY DEF VesselInv, WorkTypes, Leaf
<1>2. CASE UNCHANGED <<timeline, notBefore, now>>
  BY <1>2 DEF WaitsAreAhead
<1>3. CASE Schedules
  BY <1>1, <1>3, InsertKeeps DEF Schedules, WaitsAreAhead
<1>4. ASSUME NEW tl \in Seq(Item), NEW l \in Leaf, NEW t \in Nat,
             notBefore' = [notBefore EXCEPT ![l] = t], timeline' = Insert(tl, Wakeup(l, "backoff", t)),
             \A k \in Leaf : k # l /\ notBefore[k] > now' => Ahead(tl, k, notBefore[k])
      PROVE  WaitsAreAhead'
  <2>1. PICK item \in Item : item = Wakeup(l, "backoff", t)
    BY <1>1, WakeupIsItem
  <2>2. item.kind = "backoff" /\ item.occ = l /\ item.at = t
    BY <2>1 DEF Wakeup
  <2>3. Ahead(timeline', l, t) /\ \A k \in Leaf : Ahead(tl, k, notBefore[k]) => Ahead(timeline', k, notBefore[k])
    BY <1>4, <2>1, <2>2, InsertKeeps
  <2>4. QED
    BY <1>1, <1>4, <2>3 DEF WaitsAreAhead
<1>5. CASE Postpones
  BY <1>1, <1>4, <1>5 DEF Postpones, WaitsAreAhead
<1>6. CASE Delivers
  <2>1. PICK item \in Item : item = Head(timeline)
    BY <1>1, <1>6 DEF Delivers
  <2>2. now' \in Nat /\ now <= now' /\ item.at <= now'
    BY <1>1, <1>6, <2>1 DEF Delivers, Item
  <2>3. Tail(timeline) \in Seq(Item)
    BY <1>1, <1>6 DEF Delivers
  <2>4. \A k \in Leaf : notBefore[k] > now' => Ahead(Tail(timeline), k, notBefore[k])
    <3> SUFFICES ASSUME NEW k \in Leaf, notBefore[k] > now'
                 PROVE  Ahead(Tail(timeline), k, notBefore[k])
      OBVIOUS
    <3>1. notBefore[k] \in Nat /\ notBefore[k] > now /\ notBefore[k] # item.at
      BY <1>1, <2>1, <2>2 DEF Item
    <3>2. Ahead(timeline, k, notBefore[k])
      BY <3>1 DEF WaitsAreAhead
    <3>3. QED
      BY <1>1, <1>6, <2>1, <3>1, <3>2, TailKeeps DEF Delivers
  <2>5. CASE timeline' = Tail(timeline) /\ UNCHANGED notBefore
    BY <2>4, <2>5 DEF WaitsAreAhead
  <2>6. ASSUME NEW l \in Leaf, NEW t \in Nat, notBefore' = [notBefore EXCEPT ![l] = t],
               t <= now', timeline' = Tail(timeline)
        PROVE  WaitsAreAhead'
    BY <1>1, <2>2, <2>4, <2>6 DEF WaitsAreAhead
  <2>7. QED
    BY <1>4, <1>6, <2>3, <2>4, <2>5, <2>6 DEF Delivers
<1>7. QED
  BY <1>2, <1>3, <1>5, <1>6, TimelineSteps

-----------------------------------------------------------------------------
(* Outputs arrive where they are routed to.                                *)

\* A call in progress that satisfies its scope has an output for it.
Exports(call) == call.st = "Satisfied" => call.out # "unresolved"

OutputsArrive ==
  /\ \A o \in Occ : scope[o] = "Satisfied" => values[o] # "unresolved"
  /\ Exports(settling) /\ Exports(answering)
  /\ Answers(timeline)

\* What a parent proposes is exported when it satisfies it: by its body, by
\* the last element, or by the composition itself.
LEMMA ParentExports ==
  ASSUME NEW p \in Occ \ Leaf, NEW s, NEW v,
         \A c \in ChildrenOf(p) : s[c] = "Satisfied" => v[c] # "unresolved"
  PROVE  Exports(EvaluateParent(p, s, v))
<1> DEFINE body == CHOOSE c \in ChildrenOf(p) : TRUE
<1>1. body \in ChildrenOf(p)
  BY Dependence
<1>2. CASE Kind[p] \in {"Goal", "arrow"}
  <2>1. CASE s[body] \notin Terminal
    BY <1>2, <2>1 DEF EvaluateParent, Exports, NotSettling
  <2>2. CASE s[body] \in Terminal
    <3>1. EvaluateParent(p, s, v) = Proposal(p, IF s[body] = "Withdrawn" THEN "Failed" ELSE s[body], v[body])
      BY <1>2, <2>2 DEF EvaluateParent
    <3>2. QED
      BY <1>1, <3>1 DEF Exports, Proposal
  <2>3. QED
    BY <2>1, <2>2
<1>3. CASE Kind[p] = "serial"
  <2>1. LastChild(p) \in ChildrenOf(p)
    <3>1. PICK n \in Nat \ {0} : \E element \in [1..n -> ChildrenOf(p)] : LastChild(p) = element[n]
      BY <1>3, Dependence, LastElement
    <3>2. n \in 1..n
      BY <3>1
    <3>3. QED
      BY <3>1, <3>2
  <2>2. EvaluateParent(p, s, v) \in {NotSettling, Proposal(p, "Failed", "unresolved"),
                                     Proposal(p, "Satisfied", v[LastChild(p)])}
    BY <1>3 DEF EvaluateParent
  <2>3. EvaluateParent(p, s, v).st = "Satisfied" =>
          s[LastChild(p)] = "Satisfied" /\ EvaluateParent(p, s, v) = Proposal(p, "Satisfied", v[LastChild(p)])
    BY <1>3 DEF EvaluateParent, Proposal, NotSettling
  <2>4. QED
    BY <2>1, <2>3 DEF Exports, Proposal
<1>4. CASE Kind[p] \notin {"Goal", "arrow", "serial"}
  <2>1. EvaluateParent(p, s, v) \in {NotSettling, Proposal(p, "Failed", "unresolved"),
                                     Proposal(p, "Satisfied", "NoOutput"), Proposal(p, "Satisfied", "value")}
    BY <1>4 DEF EvaluateParent
  <2>2. QED
    BY <2>1 DEF Exports, Proposal, NotSettling
<1>5. QED
  BY <1>2, <1>3, <1>4

\* Calls of settle that do not satisfy, questions about anything but an
\* outcome, and no call at all export nothing.
LEMMA CallsExport ==
  /\ Exports(NotSettling) /\ Exports(NotAnswering)
  /\ \A o, st, out : Settle(o, st, out) /\ (st = "Satisfied" => out # "unresolved") => Exports(settling')
  /\ \A o, e, st, out : (Consult(o, e, st, out) \/ Silent(o, e)) /\ (st = "Satisfied" => out # "unresolved")
       => Exports(answering')
  /\ \A o, e : Notify(o, e) => Exports(answering')
<1>1. Exports(NotSettling) /\ Exports(NotAnswering)
  BY DEF Exports, NotSettling, NotAnswering
<1>2. \A o, st, out : Settle(o, st, out) /\ (st = "Satisfied" => out # "unresolved") => Exports(settling')
  BY DEF Settle, Exports, NotSettling
<1>3. \A o, e, st, out : (Consult(o, e, st, out) \/ Silent(o, e)) /\ (st = "Satisfied" => out # "unresolved")
       => Exports(answering')
  BY DEF Consult, Silent, Exports, NotAnswering
<1>4. \A o, e : Notify(o, e) => Exports(answering')
  <2> SUFFICES ASSUME NEW o, NEW e, Notify(o, e)
               PROVE  Exports(answering')
    OBVIOUS
  <2>1. Consult(o, e, "none", "unresolved") \/ Silent(o, e)
    BY DEF Notify
  <2>2. "none" = "Satisfied" => "unresolved" # "unresolved"
    OBVIOUS
  <2>3. QED
    BY <1>3, <2>1, <2>2
<1>5. QED
  BY <1>1, <1>2, <1>3, <1>4

\* What a parent concludes, directly or after its policies were asked.
LEMMA ProposeExports ==
  ASSUME NEW proposal, Exports(proposal), Propose(proposal)
  PROVE  Exports(settling') /\ Exports(answering')
<1>1. CASE settling' = NotSettling /\ answering' = NotAnswering
  BY <1>1, CallsExport
<1>2. CASE Consult(proposal.occ, "ScopeOutcomeProposed", proposal.st, proposal.out) /\ settling' = NotSettling
  BY <1>2, CallsExport DEF Exports
<1>3. CASE Silent(proposal.occ, "ScopeOutcomeProposed") /\ settling' = proposal
  BY <1>3, CallsExport DEF Silent
<1>4. QED
  BY <1>1, <1>2, <1>3 DEF Propose

\* The calls a step leaves in progress export what they satisfy.
LEMMA CallsExportStep ==
  ASSUME VesselInv, OutputsArrive, [VesselNext]_vesselVars,
         \A o \in Occ : scope'[o] = "Satisfied" => values'[o] # "unresolved"
  PROVE  Exports(settling') /\ Exports(answering')
<1>1. Exports(settling) /\ Exports(answering)
  BY DEF OutputsArrive
<1>2. CASE SettleScope
  <2>1. CASE settling' = NotSettling /\ UNCHANGED answering
    BY <1>1, <2>1, CallsExport
  <2>2. CASE ChildOutcome(Parent[settling.occ], scope', values') /\ Parent[settling.occ] # NoOcc
    <3>1. PICK p \in Occ \ Leaf : p = Parent[settling.occ]
      <4>1. settling.occ \in Occ
        BY <1>2 DEF SettleScope, VesselInv, CallsInProgress
      <4>2. Parent[settling.occ] \in Occ /\ settling.occ \in ChildrenOf(Parent[settling.occ])
        BY <2>2, <4>1, ProgramTypes DEF ChildrenOf
      <4>3. Parent[settling.occ] \notin Leaf
        BY <4>2, Composition
      <4>4. QED
        BY <4>2, <4>3
    <3>2. CASE Consult(p, "ChildScopeOutcome", "none", "unresolved") /\ settling' = NotSettling
      BY <3>2, CallsExport
    <3>3. CASE Propose(EvaluateParent(p, scope', values'))
      <4>1. Exports(EvaluateParent(p, scope', values'))
        BY <3>1, ParentExports DEF ChildrenOf
      <4>2. QED
        BY <3>3, <4>1, ProposeExports
    <3>4. QED
      BY <2>2, <3>1, <3>2, <3>3 DEF ChildOutcome
  <2>3. QED
    BY <1>2, <2>1, <2>2 DEF SettleScope
<1>3. ASSUME NEW l, StartAttempt(l)
      PROVE  Exports(settling')
  BY <1>1, <1>3, CallsExport DEF StartAttempt, Invoke
<1>4. CASE settling = NotSettling /\ ApplyAction
  <2>1. CASE Settle(answering.occ, IF Head(answering.acts).kind = "CancelScope" THEN "Cancelled" ELSE "Failed",
                    "unresolved") /\ answering' = NotAnswering
    <3>1. PICK st \in {"Cancelled", "Failed"} : Settle(answering.occ, st, "unresolved")
      BY <2>1
    <3>2. QED
      BY <2>1, <3>1, CallsExport
  <2>2. CASE answering' = [answering EXCEPT !.acts = Tail(@)] /\ UNCHANGED settling
    BY <1>1, <2>2 DEF Exports, VesselInv, CallTypes
  <2>3. QED
    BY <1>4, <2>1, <2>2 DEF ApplyAction
<1>5. CASE settling = NotSettling /\ Answered
  <2>1. CASE StartAttempt(answering.occ) /\ answering' = NotAnswering
    BY <1>3, <2>1, CallsExport
  <2>2. CASE answering.event = "ChildScopeOutcome" /\ Propose(EvaluateParent(answering.occ, scope, values))
    <3>1. answering.occ \in Occ \ Leaf
      BY <2>2, Composition DEF VesselInv, CallsInProgress, NotAnswering
    <3>2. Exports(EvaluateParent(answering.occ, scope, values))
      BY <3>1, ParentExports DEF OutputsArrive, ChildrenOf
    <3>3. QED
      BY <2>2, <3>2, ProposeExports
  <2>3. CASE Settle(answering.occ, answering.st, answering.out) /\ answering' = NotAnswering
    BY <1>1, <2>3, CallsExport DEF Exports
  <2>4. CASE answering' = NotAnswering /\ UNCHANGED settling
    BY <1>1, <2>4, CallsExport
  <2>5. QED
    BY <1>5, <2>1, <2>2, <2>3, <2>4 DEF Answered
<1>6. CASE Quiet /\ Handle
  <2>1. ASSUME NEW o
        PROVE  /\ HandleExposed(o) => Exports(settling') /\ Exports(answering')
               /\ HandleCommitted(o) => Exports(settling') /\ Exports(answering')
               /\ \A cause : HandleFailed(o, cause) => Exports(settling') /\ Exports(answering')
    <3>1. Refuse(o) => Exports(settling') /\ Exports(answering')
      BY <1>1, CallsExport DEF Refuse
    <3>2. Attach(o) => Exports(settling') /\ Exports(answering')
      BY <1>1, CallsExport DEF Attach
    <3>3. QED
      BY <1>1, <3>1, <3>2, CallsExport DEF HandleExposed, HandleCommitted, HandleFailed
  <2>2. QED
    BY <1>6, <2>1 DEF Handle
<1>7. CASE Quiet /\ Dispatch
  <2>1. PICK l : BeforeAttempt(l) \/ \E ticks \in Withhold : WithholdDispatch(l, ticks)
    BY <1>7 DEF Dispatch
  <2>2. CASE Silent(l, "BeforeAttempt") /\ StartAttempt(l)
    BY <1>3, <2>2, CallsExport DEF Silent
  <2>3. CASE Consult(l, "BeforeAttempt", "none", "unresolved") /\ UNCHANGED settling
    BY <1>1, <2>3, CallsExport
  <2>4. QED
    BY <1>1, <2>1, <2>2, <2>3 DEF BeforeAttempt, WithholdDispatch
<1>8. CASE Quiet /\ Deliver
  <2>1. PICK item \in Item : item = Head(timeline) /\ (item.kind = "completion" => item.out # "unresolved")
    <3>1. timeline \in Seq(Item) /\ timeline # <<>>
      BY <1>8 DEF Deliver, VesselInv, WorkTypes
    <3>2. Head(timeline) \in Item
      BY <3>1
    <3>3. QED
      BY <3>1, <3>2, TailKeeps DEF OutputsArrive
  <2>2. ASSUME NEW acts, AttemptOutcome(item, acts), item.kind = "completion"
        PROVE  Exports(settling') /\ Exports(answering')
    <3>1. ScopeOf(item.status) = "Satisfied" => item.status = "Succeeded"
      BY DEF ScopeOf
    <3>2. PICK st, out : /\ st = ScopeOf(item.status)
                         /\ out = IF item.status = "Succeeded" THEN item.out ELSE "unresolved"
      OBVIOUS
    <3>3. st = "Satisfied" => out # "unresolved"
      BY <2>1, <2>2, <3>1, <3>2
    <3>4. CASE UNCHANGED <<settling, answering>>
      BY <1>1, <3>4
    <3>5. CASE Settle(item.occ, st, out) /\ UNCHANGED answering
      BY <1>1, <3>3, <3>5, CallsExport
    <3>6. CASE /\ answering' = [occ |-> item.occ, event |-> "AttemptOutcome", acts |-> acts,
                                st |-> st, out |-> out]
               /\ UNCHANGED settling
      BY <1>1, <3>3, <3>6 DEF Exports
    <3>7. QED
      BY <2>2, <3>2, <3>4, <3>5, <3>6 DEF AttemptOutcome
  <2>3. QED
    BY <1>1, <1>8, <2>1, <2>2, CallsExport DEF Deliver, DeliverCompletion, DeliverTimer
<1>9. CASE Quiet /\ (SurfaceFailure \/ CallIn)
  BY <1>1, <1>9, CallsExport
     DEF SurfaceFailure, CallIn, RunDemand, CancelScope, RunSetPrefetch, RivalConsume, Advance, outcomeVars
<1>10. CASE Quiet /\ (SchedulerDemand \/ Deduction \/ Pumped \/ Dispatched \/ Stuck \/ Step)
  BY <1>1, <1>10 DEF SchedulerDemand, Deduction, Pumped, Dispatched, Stuck, Step, outcomeVars
<1>11. CASE UNCHANGED vesselVars
  BY <1>1, <1>11 DEF vesselVars, outcomeVars
<1>12. QED
  BY <1>2, <1>4, <1>5, <1>6, <1>7, <1>8, <1>9, <1>10, <1>11 DEF VesselNext, Inner, Routine

\* Scopes are satisfied by settle only, and their outputs stored with it.
LEMMA OutputsArriveStep ==
  ASSUME VesselInv, NothingMoved, RunInv, OutputsArrive, [VesselNext]_vesselVars
  PROVE  OutputsArrive'
<1>1. \A o \in Occ : scope'[o] = "Satisfied" => values'[o] # "unresolved"
  <2>1. CASE SettleScope
    <3>1. PICK x \in Occ : x = settling.occ
      BY <2>1 DEF SettleScope, VesselInv, CallsInProgress
    <3>2. \A q \in Occ : scope'[q] = "Satisfied" =>
            (q = x /\ settling.st = "Satisfied") \/ (q # x /\ scope[q] = "Satisfied")
      BY <2>1, <3>1 DEF SettleScope
    <3>3. /\ settling.st = "Satisfied" => values' = [values EXCEPT ![x] = settling.out]
          /\ settling.st # "Satisfied" => values' = values
      BY <2>1, <3>1 DEF SettleScope
    <3>4. values \in [Occ -> {"unresolved", "value", "NoOutput"}]
      BY DEF VesselInv, Inv, CarouselTypeOK
    <3>5. QED
      BY <3>1, <3>2, <3>3, <3>4 DEF OutputsArrive, Exports
  <2>2. CASE Opens
    <3>1. \A o \in Occ : scope'[o] = "Satisfied" => scope[o] = "Satisfied"
      BY <2>2 DEF Opens, ScopesOpen, Terminal
    <3>2. QED
      BY <2>2, <3>1 DEF Opens, OutputsArrive
  <2>3. CASE UNCHANGED scope
    <3>1. \A o \in Occ : values[o] # "unresolved" => values'[o] = values[o]
      BY OutcomesStandStep DEF OutputsStand
    <3>2. QED
      BY <2>3, <3>1 DEF OutputsArrive
  <2>4. QED
    BY <2>1, <2>2, <2>3, ScopeSteps
<1>2. Answers(timeline')
  <2>1. timeline \in Seq(Item) /\ Answers(timeline)
    BY DEF VesselInv, WorkTypes, OutputsArrive
  <2>2. \A l \in Leaf, t \in Nat : Wakeup(l, "backoff", t) \in Item /\ Wakeup(l, "backoff", t).kind # "completion"
    BY WakeupIsItem DEF Leaf
  <2>3. CASE Schedules
    BY <2>1, <2>3, InsertKeeps DEF Schedules
  <2>4. CASE Postpones
    BY <2>1, <2>2, <2>4, InsertKeeps DEF Postpones
  <2>5. CASE Delivers
    <3>1. Tail(timeline) \in Seq(Item) /\ Answers(Tail(timeline))
      BY <2>1, <2>5, TailFacts, TailKeeps DEF Delivers
    <3>2. QED
      BY <2>2, <2>5, <3>1, InsertKeeps DEF Delivers
  <2>6. QED
    BY <2>1, <2>3, <2>4, <2>5, TimelineSteps
<1>3. QED
  BY <1>1, <1>2, CallsExportStep DEF OutputsArrive, Exports, Answers

-----------------------------------------------------------------------------
(* Scopes follow the deduction of what was exposed.                        *)

\* What became of the deduction of o has not been handled yet.
Pending(o) == \E i \in DOMAIN events : events[i].occ = o /\ events[i].kind \in {"committed", "failed"}

\* The Runtime has still to deduce o, to hear what became of that, to fail it,
\* or to surface its failure.
Known(o) ==
  \/ state[o] = "undeduced"
  \/ settling.occ = o
  \/ o \in deferred /\ state[o] = "failed"
  \/ Pending(o)

EventsTellStates ==
  \A i \in DOMAIN events :
    /\ events[i].kind = "committed" => events[i].occ \in Deducible /\ state[events[i].occ] = "committed"
    /\ events[i].kind = "failed" => events[i].occ \in Deducible /\ state[events[i].occ] = "failed"

\* A scope that was not opened is one of those; an open one was deduced.
ScopesFollowDeduction ==
  /\ \A o \in Exposed \cap Deducible : scope[o] \in {"none", "Undeduced"} => Known(o)
  /\ \A o \in Occ : scope[o] = "Undeduced" => o \in Deducible
  /\ \A o \in Deducible : scope[o] = "Open" => state[o] = "committed"
  /\ EventsTellStates

\* States change when something is deduced or settled.
LEMMA StateSteps ==
  ASSUME VesselInv, [VesselNext]_vesselVars
  PROVE  \/ UNCHANGED <<state, deferred, events, order>> /\ (settling # NotSettling => UNCHANGED settling)
         \/ SettleScope
         \/ Quiet /\ Handle
         \/ Quiet /\ Deduction
<1>1. CASE settling = NotSettling /\ (ApplyAction \/ Answered)
  BY <1>1 DEF ApplyAction, Answered, StartAttempt, vars, carouselVars
<1>2. CASE Quiet /\ Dispatch
  BY <1>2 DEF Quiet, Dispatch, BeforeAttempt, WithholdDispatch, StartAttempt, vars, carouselVars
<1>3. CASE Quiet /\ (SurfaceFailure \/ SchedulerDemand \/ Pumped \/ Dispatched \/ Deliver \/ Stuck \/ Step)
  BY <1>3 DEF Quiet, SurfaceFailure, SchedulerDemand, Pumped, Dispatched, Deliver, Stuck, Step, vars, carouselVars,
              schedulerVars
<1>4. CASE Quiet /\ CallIn
  BY <1>4 DEF Quiet, CallIn, RunDemand, Demand, CancelScope, RunSetPrefetch, SetPrefetch, RivalConsume, Advance,
              vars, carouselVars, schedulerVars
<1>5. CASE UNCHANGED vesselVars
  BY <1>5 DEF vesselVars, vars, carouselVars, schedulerVars, outcomeVars
<1>6. QED
  BY <1>1, <1>2, <1>3, <1>4, <1>5 DEF VesselNext, Inner, Routine

\* settle takes what is undeduced under a scope along with it.
LEMMA SettleFollows ==
  ASSUME VesselInv, RunInv, ScopesFollowDeduction, SettleScope
  PROVE  ScopesFollowDeduction'
<1>1. PICK x \in Occ : x = settling.occ
  BY DEF SettleScope, VesselInv, CallsInProgress
<1>2. PICK D : D = IF settling.st = "Satisfied" THEN {} ELSE Dropped(x)
  OBVIOUS
<1>3. settling.st \in Terminal
  BY DEF SettleScope, VesselInv, CallsInProgress
<1>4. /\ scope' = [q \in Occ |-> IF q = x THEN settling.st
                                 ELSE IF q \notin D THEN scope[q]
                                 ELSE IF q \in Undeduced(D) THEN "Withdrawn" ELSE "Cancelled"]
      /\ state' = [o \in Occ |-> IF o \in Undeduced(D \cup {x}) THEN "withdrawn" ELSE state[o]]
      /\ UNCHANGED <<order, events, deferred>>
  BY <1>1, <1>2 DEF SettleScope, Withdraw, schedulerVars
<1>5. \A q \in Occ : scope'[q] \notin Terminal => q # x /\ scope'[q] = scope[q] /\ state'[q] = state[q]
  BY <1>3, <1>4 DEF Undeduced, Terminal
<1>6. \A q \in Occ : state[q] # "undeduced" => state'[q] = state[q]
  BY <1>4 DEF Undeduced
<1>7. Exposed' = Exposed /\ Exposed \subseteq Occ /\ Deducible \subseteq Occ
  BY <1>4, ExposureFollowsTree DEF Exposed, Deducible, VesselInv
<1>8. \A q \in Occ : Known(q) /\ q # x /\ state'[q] = state[q] => Known(q)'
  BY <1>1, <1>4 DEF Known, Pending
<1>9. \A o \in Exposed' \cap Deducible : scope'[o] \in {"none", "Undeduced"} => Known(o)'
  BY <1>5, <1>7, <1>8 DEF ScopesFollowDeduction, Terminal
<1>10. /\ \A o \in Occ : scope'[o] = "Undeduced" => o \in Deducible
       /\ \A o \in Deducible : scope'[o] = "Open" => state'[o] = "committed"
  BY <1>5, <1>7 DEF ScopesFollowDeduction, Terminal
<1>11. EventsTellStates'
  BY <1>4, <1>6, <1>7 DEF ScopesFollowDeduction, EventsTellStates
<1>12. QED
  BY <1>9, <1>10, <1>11 DEF ScopesFollowDeduction

\* handle opens the scope of what was committed, and keeps a failure in mind
\* or fails the scope.
LEMMA HandleFollows ==
  ASSUME VesselInv, RunInv, EventsInOrder, ScopesFollowDeduction, Quiet, Handle
  PROVE  ScopesFollowDeduction'
<1>1. PICK e \in Events :
        /\ 1 \in DOMAIN events /\ e = events[1] /\ e.occ \in Exposed
        /\ \/ e.kind = "exposed" /\ HandleExposed(e.occ)
           \/ e.kind = "committed" /\ HandleCommitted(e.occ)
           \/ e.kind = "failed" /\ HandleFailed(e.occ, e.cause)
  BY HandlesHead DEF RunInv
<1>2. events # <<>> /\ events' = Tail(events) /\ UNCHANGED <<order, state>> /\ Exposed' = Exposed
  BY DEF Handle, Exposed
<1>3. PICK o \in Occ \cap Exposed : o = e.occ
  BY <1>1, ExposureFollowsTree DEF VesselInv
<1>4. settling.occ \notin Occ
  BY ProgramTypes DEF Quiet, NotSettling
<1>5. scope \in [Occ -> ScopeStates]
  BY DEF VesselInv, WorkTypes
<1>6. EventsTellStates'
  BY <1>2, TailPlaces DEF ScopesFollowDeduction, EventsTellStates
<1>7. \A q \in Exposed \cap Deducible : /\ Pending(q) => Pending(q)' \/ (q = o /\ e.kind \in {"committed", "failed"})
                                        /\ deferred \subseteq deferred'
  <2>1. deferred \subseteq deferred'
    BY <1>1 DEF HandleExposed, HandleCommitted, HandleFailed
  <2>2. \A q : Pending(q) => Pending(q)' \/ (q = o /\ e.kind \in {"committed", "failed"})
    BY <1>1, <1>2, <1>3, TailPlaces DEF Pending
  <2>3. QED
    BY <2>1, <2>2
<1>8. \A q \in Exposed \cap Deducible :
        Known(q) => Known(q)' \/ (q = o /\ e.kind \in {"committed", "failed"})
  BY <1>2, <1>4, <1>7, ExposureFollowsTree DEF Known, VesselInv
<1>9. CASE UNCHANGED scope /\ (Known(o)' \/ e.kind = "exposed" \/ Settled(o))
  <2>1. \A q \in Exposed \cap Deducible : scope[q] \in {"none", "Undeduced"} => Known(q)'
    BY <1>8, <1>9 DEF ScopesFollowDeduction, Settled, Terminal
  <2>2. QED
    BY <1>2, <1>6, <1>9, <2>1 DEF ScopesFollowDeduction
<1>10. CASE e.kind = "exposed"
  <2>1. scope[o] \in {"none"} \cup Terminal
    BY <1>1, <1>3, <1>10 DEF EventsInOrder
  <2>2. CASE Settled(o)
    BY <1>1, <1>3, <1>9, <1>10, <2>2 DEF HandleExposed
  <2>3. CASE ~Settled(o)
    <3>1. scope' = [scope EXCEPT ![o] = IF o \in Deducible THEN "Undeduced" ELSE "Open"] /\ scope[o] = "none"
      BY <1>1, <1>3, <1>10, <2>1, <2>3 DEF HandleExposed, Settled
    <3>2. \A q \in Exposed \cap Deducible : scope'[q] \in {"none", "Undeduced"} => Known(q)'
      BY <1>3, <1>5, <1>8, <1>10, <3>1 DEF ScopesFollowDeduction
    <3>3. /\ \A q \in Occ : scope'[q] = "Undeduced" => q \in Deducible
          /\ \A q \in Deducible : scope'[q] = "Open" => state'[q] = "committed"
      BY <1>2, <1>5, <3>1 DEF ScopesFollowDeduction, Deducible
    <3>4. QED
      BY <1>2, <1>6, <3>2, <3>3 DEF ScopesFollowDeduction
  <2>4. QED
    BY <2>2, <2>3
<1>11. CASE e.kind = "committed"
  <2>1. state[o] = "committed" /\ o \in Deducible
    BY <1>1, <1>3, <1>11 DEF ScopesFollowDeduction, EventsTellStates
  <2>2. CASE Settled(o)
    BY <1>1, <1>3, <1>9, <1>11, <2>2 DEF HandleCommitted
  <2>3. CASE ~Settled(o)
    <3>1. scope' = [scope EXCEPT ![o] = "Open"]
      BY <1>1, <1>3, <1>11, <2>3 DEF HandleCommitted
    <3>2. \A q \in Exposed \cap Deducible : scope'[q] \in {"none", "Undeduced"} => Known(q)'
      BY <1>3, <1>5, <1>8, <3>1 DEF ScopesFollowDeduction
    <3>3. /\ \A q \in Occ : scope'[q] = "Undeduced" => q \in Deducible
          /\ \A q \in Deducible : scope'[q] = "Open" => state'[q] = "committed"
      BY <1>2, <1>5, <2>1, <3>1 DEF ScopesFollowDeduction, Deducible
    <3>4. QED
      BY <1>2, <1>6, <3>2, <3>3 DEF ScopesFollowDeduction
  <2>4. QED
    BY <2>2, <2>3
<1>12. CASE e.kind = "failed"
  <2>1. state[o] = "failed"
    BY <1>1, <1>3, <1>12 DEF ScopesFollowDeduction, EventsTellStates
  <2>2. HandleFailed(o, e.cause)
    BY <1>1, <1>3, <1>12
  <2>3. CASE e.cause = "prefetch"
    BY <1>2, <1>9, <2>1, <2>2, <2>3 DEF HandleFailed, Known
  <2>4. CASE e.cause # "prefetch"
    <3>1. Settle(o, "Failed", "unresolved") /\ UNCHANGED scope
      BY <2>2, <2>4 DEF HandleFailed
    <3>2. Settled(o) \/ settling'.occ = o
      BY <3>1 DEF Settle
    <3>3. QED
      BY <1>9, <3>1, <3>2 DEF Known
  <2>5. QED
    BY <2>3, <2>4
<1>13. QED
  BY <1>1, <1>10, <1>11, <1>12

\* A deduction that commits leaves its event behind, and what it discloses is
\* to be deduced in turn.
LEMMA CommitFollows ==
  ASSUME VesselInv, ScopesFollowDeduction, settling = NotSettling,
         NEW o \in Deducible, NEW cause \in {"demand", "prefetch"}, state[o] = "undeduced",
         DeduceCommits(o, cause), UNCHANGED <<scope, deferred, settling>>
  PROVE  ScopesFollowDeduction'
<1>1. PICK n \in Nat, m \in Nat :
        /\ DOMAIN events = 1..n /\ DOMAIN events' = 1..(n + 1 + m)
        /\ \A i \in 1..n : events'[i] = events[i]
        /\ events'[n + 1] = Event("committed", o, cause)
        /\ \A j \in 1..m : events'[n + 1 + j].kind = "exposed"
  <2>1. PICK n \in Nat :
          /\ DOMAIN events = 1..n
          /\ DOMAIN events' = 1..(n + 1 + Len(Staged[o])) /\ Len(Staged[o]) \in Nat
          /\ \A i \in 1..n : events'[i] = events[i]
          /\ events'[n + 1] = Event("committed", o, cause)
          /\ \A j \in 1..Len(Staged[o]) : events'[n + 1 + j] = Event("exposed", Staged[o][j], "")
    BY EventPlaces
  <2>2. PICK m \in Nat : m = Len(Staged[o])
    BY <2>1
  <2>3. \A q : Event("exposed", q, "").kind = "exposed"
    BY DEF Event
  <2>4. \A j \in 1..m : events'[n + 1 + j].kind = "exposed"
    BY <2>1, <2>2, <2>3
  <2>5. QED
    BY <2>1, <2>2, <2>4
<1>2. Exposed' = Exposed \cup StagedSet(o)
  BY CommitExposes DEF VesselInv
<1>3. /\ StagedSet(o) \subseteq Occ /\ o \notin StagedSet(o)
      /\ \A q \in StagedSet(o) : state[q] = "unexposed"
  BY StagedIsNew DEF VesselInv
<1>4. /\ state'[o] = "committed"
      /\ \A q \in StagedSet(o) \cap Deducible : state'[q] = "undeduced"
      /\ \A q \in Occ : q # o /\ q \notin StagedSet(o) => state'[q] = state[q]
  BY <1>3 DEF DeduceCommits, Deducible
<1>5. \A q \in Occ : state[q] \in {"committed", "failed"} => state'[q] = state[q]
  BY <1>3, <1>4
<1>6. \A q : Pending(q) => Pending(q)'
  <2>1. \A i \in 1..n : i \in 1..(n + 1 + m)
    OBVIOUS
  <2>2. QED
    BY <1>1, <2>1 DEF Pending
<1>7. Pending(o)'
  <2>1. n + 1 \in 1..(n + 1 + m)
    OBVIOUS
  <2>2. QED
    BY <1>1, <2>1 DEF Pending, Event
<1>8. \A q \in Exposed' \cap Deducible : scope'[q] \in {"none", "Undeduced"} => Known(q)'
  <2> SUFFICES ASSUME NEW q \in Exposed' \cap Deducible, scope[q] \in {"none", "Undeduced"}
               PROVE  Known(q)'
    OBVIOUS
  <2>1. CASE q = o
    BY <1>7, <2>1 DEF Known
  <2>2. CASE q \in StagedSet(o)
    BY <1>4, <2>2 DEF Known
  <2>3. CASE q # o /\ q \notin StagedSet(o)
    <3>1. Known(q) /\ state'[q] = state[q]
      BY <1>2, <1>4, <2>3 DEF ScopesFollowDeduction, Deducible
    <3>2. QED
      BY <1>6, <3>1 DEF Known
  <2>4. QED
    BY <2>1, <2>2, <2>3
<1>9. EventsTellStates'
  <2> SUFFICES ASSUME NEW i \in DOMAIN events', events'[i].kind # "exposed"
               PROVE  /\ events'[i].kind = "committed" =>
                           events'[i].occ \in Deducible /\ state'[events'[i].occ] = "committed"
                      /\ events'[i].kind = "failed" =>
                           events'[i].occ \in Deducible /\ state'[events'[i].occ] = "failed"
    BY DEF EventsTellStates
  <2>1. i \in 1..n \/ i = n + 1
    <3>1. i \in 1..(n + 1 + m)
      BY <1>1
    <3>2. i \in 1..n \/ i = n + 1 \/ \E j \in 1..m : i = n + 1 + j
      BY <3>1, SplitPlaces
    <3>3. QED
      BY <1>1, <3>2
  <2>2. CASE i \in 1..n
    BY <1>1, <1>5, <2>2 DEF ScopesFollowDeduction, EventsTellStates, Deducible
  <2>3. CASE i = n + 1
    BY <1>1, <1>4, <2>3 DEF Event
  <2>4. QED
    BY <2>1, <2>2, <2>3
<1>10. \A q \in Deducible : scope'[q] = "Open" => state'[q] = "committed"
  BY <1>5 DEF ScopesFollowDeduction, Deducible
<1>11. QED
  BY <1>8, <1>9, <1>10 DEF ScopesFollowDeduction

\* One that fails leaves its event behind.
LEMMA FailureFollows ==
  ASSUME VesselInv, ScopesFollowDeduction, settling = NotSettling,
         NEW o \in Deducible, NEW cause \in {"demand", "prefetch"}, state[o] = "undeduced",
         DeduceFails(o, cause), UNCHANGED <<scope, deferred, settling>>
  PROVE  ScopesFollowDeduction'
<1>1. PICK n \in Nat :
        /\ DOMAIN events = 1..n /\ DOMAIN events' = 1..(n + 1)
        /\ \A i \in 1..n : events'[i] = events[i]
        /\ events'[n + 1] = Event("failed", o, cause)
  BY FailurePlaces
<1>2. Exposed' = Exposed /\ state'[o] = "failed" /\ \A q \in Occ : q # o => state'[q] = state[q]
  BY DEF DeduceFails, Exposed, VesselInv, Inv, CarouselTypeOK, Deducible
<1>3. (\A q : Pending(q) => Pending(q)') /\ Pending(o)'
  <2>1. n + 1 \in 1..(n + 1) /\ \A i \in 1..n : i \in 1..(n + 1)
    OBVIOUS
  <2>2. QED
    BY <1>1, <2>1 DEF Pending, Event
<1>4. \A q \in Exposed' \cap Deducible : scope'[q] \in {"none", "Undeduced"} => Known(q)'
  BY <1>2, <1>3 DEF ScopesFollowDeduction, Known, Deducible
<1>5. EventsTellStates'
  <2> SUFFICES ASSUME NEW i \in DOMAIN events'
               PROVE  /\ events'[i].kind = "committed" =>
                           events'[i].occ \in Deducible /\ state'[events'[i].occ] = "committed"
                      /\ events'[i].kind = "failed" =>
                           events'[i].occ \in Deducible /\ state'[events'[i].occ] = "failed"
    BY DEF EventsTellStates
  <2>1. i \in 1..n \/ i = n + 1
    BY <1>1
  <2>2. CASE i \in 1..n
    BY <1>1, <1>2, <2>2 DEF ScopesFollowDeduction, EventsTellStates, Deducible
  <2>3. CASE i = n + 1
    BY <1>1, <1>2, <2>3 DEF Event
  <2>4. QED
    BY <2>1, <2>2, <2>3
<1>6. \A q \in Deducible : scope'[q] = "Open" => state'[q] = "committed"
  BY <1>2 DEF ScopesFollowDeduction, Deducible
<1>7. QED
  BY <1>4, <1>5, <1>6 DEF ScopesFollowDeduction

\* No step leaves an exposed occurrence without anything to become of it.
LEMMA ScopesFollowDeductionStep ==
  ASSUME VesselInv, NothingMoved, RunInv, EventsInOrder, ScopesFollowDeduction, [VesselNext]_vesselVars
  PROVE  ScopesFollowDeduction'
<1>1. CASE SettleScope
  BY <1>1, SettleFollows
<1>2. CASE Quiet /\ Handle
  BY <1>2, HandleFollows
<1>3. CASE Quiet /\ Deduction
  <2>1. settling = NotSettling /\ UNCHANGED <<scope, deferred, settling>>
    BY <1>3 DEF Quiet, Deduction, schedulerVars, outcomeVars
  <2>2. CASE ServeDemand \/ Speculate
    <3>1. PICK o \in Deducible, cause \in {"demand", "prefetch"} :
            state[o] = "undeduced" /\ (DeduceCommits(o, cause) \/ DeduceFails(o, cause))
      BY <2>2, Picks DEF ServeDemand, Speculate, VesselInv, Deduce
    <3>2. QED
      BY <2>1, <3>1, CommitFollows, FailureFollows
  <2>3. CASE DemandServed \/ EndReplenish
    BY <2>1, <2>3 DEF DemandServed, EndReplenish, ScopesFollowDeduction, EventsTellStates, Known, Pending, Exposed
  <2>4. QED
    BY <1>3, <2>2, <2>3 DEF Deduction, Replenish
<1>4. CASE ~SettleScope /\ UNCHANGED <<state, deferred, events, order>> /\ (settling # NotSettling => UNCHANGED settling)
  <2>1. CASE Opens
    BY <1>2, <2>1 DEF Opens
  <2>2. CASE UNCHANGED scope
    <3>1. Exposed' = Exposed /\ Exposed \subseteq Occ
      BY <1>4, ExposureFollowsTree DEF Exposed, VesselInv
    <3>2. \A o \in Occ : Known(o) => Known(o)'
      BY <1>4, ProgramTypes DEF Known, Pending, NotSettling
    <3>3. QED
      BY <1>4, <2>2, <3>1, <3>2 DEF ScopesFollowDeduction, EventsTellStates
  <2>3. QED
    BY <1>4, <2>1, <2>2, ScopeSteps
<1>5. QED
  BY <1>1, <1>2, <1>3, <1>4, StateSteps

\* The Root stays exposed, as everything does.
LEMMA RootStaysExposed ==
  ASSUME VesselInv, Root \in Exposed, [VesselNext]_vesselVars
  PROVE  Root \in Exposed'
<1>1. CASE UNCHANGED order
  BY <1>1 DEF Exposed
<1>2. CASE Quiet /\ Deduction /\ order' # order
  <2>1. PICK o \in Deducible, cause \in {"demand", "prefetch"} :
          state[o] = "undeduced" /\ (DeduceCommits(o, cause) \/ DeduceFails(o, cause))
    BY <1>2, Picks DEF Deduction, Replenish, ServeDemand, Speculate, DemandServed, EndReplenish, VesselInv, Deduce
  <2>2. DeduceCommits(o, cause)
    BY <1>2, <2>1 DEF DeduceFails
  <2>3. QED
    BY <2>1, <2>2, CommitExposes DEF VesselInv
<1>3. QED
  BY <1>1, <1>2, StateSteps DEF SettleScope, Handle

-----------------------------------------------------------------------------
(* The inductive invariant.                                                *)

ProgressInv == WaitsAreAhead /\ OutputsArrive /\ ScopesFollowDeduction /\ Root \in Exposed

\* At Start nothing waits, nothing is satisfied, and the Root is to be deduced.
LEMMA ProgressInit == VesselInit => ProgressInv
<1> SUFFICES ASSUME VesselInit
             PROVE  ProgressInv
  OBVIOUS
<1>1. DOMAIN order = 1..1 /\ order[1] = Root /\ DOMAIN events = {} /\ DOMAIN timeline = {}
  <2>1. DOMAIN << >> = 1..0
    OBVIOUS
  <2>2. QED
    BY <2>1 DEF VesselInit
<1>2. Exposed = {Root} /\ Root \in Deducible /\ state[Root] = "undeduced"
  BY <1>1, ProgramTypes DEF Exposed, VesselInit, Deducible
<1>3. WaitsAreAhead
  BY DEF VesselInit, WaitsAreAhead
<1>4. OutputsArrive
  BY <1>1 DEF VesselInit, OutputsArrive, Exports, NotSettling, NotAnswering, Answers
<1>5. ScopesFollowDeduction
  BY <1>1, <1>2 DEF VesselInit, ScopesFollowDeduction, Known, EventsTellStates, Deducible
<1>6. QED
  BY <1>2, <1>3, <1>4, <1>5 DEF ProgressInv

\* In every state of a run.
LEMMA ProgressInvariance == VesselSpec => []ProgressInv
<1>1. VesselInv /\ NothingMoved /\ RunInv /\ RefuseInv /\ ProgressInv /\ [VesselNext]_vesselVars => ProgressInv'
  BY WaitsAreAheadStep, OutputsArriveStep, ScopesFollowDeductionStep, RootStaysExposed DEF ProgressInv, RefuseInv
<1>2. QED
  BY <1>1, ProgressInit, RefuseInvariance, OutcomeInvariance, NothingMovedInvariance, VesselInvariance, PTL
     DEF VesselSpec

-----------------------------------------------------------------------------
(* Something to do, or to wait for.                                        *)

\* Of the exposed occurrences of any kind, one has no child of that kind.
LEMMA LowestOccurrence ==
  ASSUME Inv, NEW T, T \subseteq Exposed, T # {}
  PROVE  \E q \in T : \A c \in T : Parent[c] # q
<1> DEFINE F == {Under(q) : q \in T}
           R == StrictSubsetOrdering(Exposed)
<1>1. Exposed \subseteq Occ
  BY ExposureFollowsTree
<1>2. IsFiniteSet(Exposed)
  <2>1. order \in Seq(Occ)
    BY DEF Inv, CarouselTypeOK
  <2>2. PICK n \in Nat : DOMAIN order = 1..n
    BY <2>1
  <2>3. IsFiniteSet(1..n)
    BY <2>2, FS_Interval
  <2>4. order \in Surjection(1..n, Exposed)
    BY <2>1, <2>2 DEF Exposed, Surjection
  <2>5. QED
    BY <2>3, <2>4, FS_Surjection
<1>3. F \subseteq FiniteSubsetsOf(Exposed)
  <2>1. \A q \in T : Under(q) \in SUBSET Exposed /\ IsFiniteSet(Under(q))
    BY <1>2, FS_Subset DEF Under
  <2>2. QED
    BY <2>1 DEF FiniteSubsetsOf
<1>4. F # {}
  OBVIOUS
<1>5. IsWellFoundedOn(R, FiniteSubsetsOf(Exposed))
  BY FS_StrictSubsetOrderingWellFounded
<1> HIDE DEF F, R
<1>6. PICK A \in F : \A B \in F : ~(<<B, A>> \in R)
  BY <1>3, <1>4, <1>5, WFMin
<1>7. PICK q \in T : A = Under(q)
  BY DEF F
<1>8. ASSUME NEW c \in T, Parent[c] = q
      PROVE  FALSE
  <2>1. q \in Occ /\ c \in Occ /\ Parent[c] # NoOcc
    BY <1>1, <1>8, ProgramTypes
  <2>2. Ancestors[c] = {q} \cup Ancestors[q] /\ c \notin Ancestors[c]
    BY <1>8, <2>1, AncestorsUnfold, Structure
  <2>3. \A r \in Exposed : c \in Ancestors[r] => q \in Ancestors[r]
    BY <1>1, <2>2, AncestorsTransitive
  <2>4. Under(c) \subseteq Under(q) /\ c \in Under(q) /\ c \notin Under(c)
    BY <2>2, <2>3 DEF Under
  <2>5. Under(c) \in SUBSET Exposed /\ Under(q) \in SUBSET Exposed
    BY DEF Under
  <2>6. <<Under(c), Under(q)>> \in R
    BY <2>4, <2>5 DEF R, StrictSubsetOrdering
  <2>7. Under(c) \in F
    BY DEF F
  <2>8. QED
    BY <1>6, <1>7, <2>6, <2>7
<1>9. QED
  BY <1>8

\* While some child of p is not satisfied there is one that waits for none of
\* the others.
LEMMA NextChild ==
  ASSUME NEW p \in Occ, NEW s, \E c \in ChildrenOf(p) : s[c] # "Satisfied"
  PROVE  \E c \in ChildrenOf(p) : s[c] # "Satisfied" /\ \A d \in Deps[c] : s[d] = "Satisfied"
<1>1. CASE Kind[p] # "serial"
  BY <1>1, Dependence DEF ChildrenOf
<1>2. CASE Kind[p] = "serial"
  <2>1. PICK n \in Nat \ {0} : \E element \in [1..n -> ChildrenOf(p)] :
          /\ ChildrenOf(p) = {element[i] : i \in 1..n}
          /\ \A i \in 1..n : Deps[element[i]] = IF i = 1 THEN {} ELSE {element[i - 1]}
    <3>1. ChildrenOf(p) # {}
      OBVIOUS
    <3>2. PICK n \in Nat \ {0} : \E element \in [1..n -> ChildrenOf(p)] :
            /\ ChildrenOf(p) = {element[i] : i \in 1..n}
            /\ \A i \in 1..n : Deps[element[i]] = IF i = 1 THEN {} ELSE {element[i - 1]}
            /\ LastChild(p) = element[n]
      BY <1>2, <3>1, LastElement
    <3>3. PICK element \in [1..n -> ChildrenOf(p)] :
            /\ ChildrenOf(p) = {element[i] : i \in 1..n}
            /\ \A i \in 1..n : Deps[element[i]] = IF i = 1 THEN {} ELSE {element[i - 1]}
      BY <3>2
    <3>4. QED
      BY <3>3
  <2>2. PICK element \in [1..n -> ChildrenOf(p)] :
          /\ ChildrenOf(p) = {element[i] : i \in 1..n}
          /\ \A i \in 1..n : Deps[element[i]] = IF i = 1 THEN {} ELSE {element[i - 1]}
    BY <2>1
  <2> DEFINE R == {ss \in Nat \X Nat : ss[1] < ss[2]}
             T == {i \in 1..n : s[element[i]] # "Satisfied"}
  <2>3. T # {} /\ T \subseteq Nat
    BY <2>2
  <2>4. PICK i \in T : \A j \in T : <<j, i>> \notin R
    <3>1. IsWellFoundedOn(R, Nat)
      BY NatLessThanWellFounded DEF OpToRel
    <3> HIDE DEF R, T
    <3>2. QED
      BY <2>3, <3>1, WFMin
  <2>5. i \in 1..n /\ s[element[i]] # "Satisfied" /\ element[i] \in ChildrenOf(p)
    BY <2>2
  <2>6. i # 1 => s[element[i - 1]] = "Satisfied"
    <3> SUFFICES ASSUME i # 1
                 PROVE  s[element[i - 1]] = "Satisfied"
      OBVIOUS
    <3>1. i - 1 \in 1..n /\ <<i - 1, i>> \in R
      BY <2>5
    <3>2. i - 1 \notin T
      BY <2>4, <3>1
    <3>3. QED
      BY <3>1, <3>2
  <2>7. \A d \in Deps[element[i]] : s[d] = "Satisfied"
    <3>1. Deps[element[i]] = IF i = 1 THEN {} ELSE {element[i - 1]}
      BY <2>2, <2>5
    <3>2. QED
      BY <2>6, <3>1
  <2>8. QED
    BY <2>5, <2>7
<1>3. QED
  BY <1>1, <1>2

\* What is exposed, unsettled and waits for nothing outside of itself.
Going == {o \in Exposed : ~Settled(o) /\ StructurallyReady(o)}

\* When a run is stable and nothing is ahead, a deduction that waits for
\* nothing has been demanded and served, so its scope is not undeduced ...
LEMMA GoingIsDeduced ==
  ASSUME VesselInv, ProgressInv, Quiet, Stable, ReadyMode, events = <<>>, NEW o \in Going
  PROVE  scope[o] # "Undeduced"
<1> SUFFICES ASSUME scope[o] = "Undeduced"
             PROVE  FALSE
  OBVIOUS
<1>1. o \in Occ /\ o \in Exposed /\ ~Settled(o) /\ StructurallyReady(o)
  BY ExposureFollowsTree DEF Going, VesselInv
<1>2. o \in Deducible /\ Known(o)
  BY <1>1 DEF ProgressInv, ScopesFollowDeduction
<1>3. settling.occ # o /\ ~Pending(o)
  <2>1. DOMAIN events = {}
    OBVIOUS
  <2>2. QED
    BY <1>1, <2>1, ProgramTypes DEF Quiet, NotSettling, Pending
<1>4. ~(o \in deferred /\ state[o] = "failed")
  BY <1>1 DEF Stable, ReadyFailures, Surfaceable
<1>5. state[o] = "undeduced"
  BY <1>2, <1>3, <1>4 DEF Known
<1>6. o \in demanded
  BY <1>1, <1>2, <1>5 DEF Stable, ReadyWork, Accepts, Terminal
<1>7. Blocked(o)
  BY <1>5, <1>6 DEF Stable, Servable
<1>8. Input[o] \in Occ /\ values[Input[o]] = "unresolved"
  BY <1>1, <1>7, ProgramTypes DEF Blocked
<1>9. PICK q \in {o} \cup Ancestors[o] : Input[o] \in Deps[q]
  <2>1. PICK q \in {o, Parent[o]} \ {NoOcc} : Input[o] \in Deps[q]
    BY <1>1, <1>7, Dependence DEF Blocked
  <2>2. q \in {o} \cup Ancestors[o]
    BY <1>1, <2>1, AncestorsUnfold
  <2>3. QED
    BY <2>1, <2>2
<1>10. scope[Input[o]] = "Satisfied"
  BY <1>1, <1>9 DEF StructurallyReady
<1>11. QED
  BY <1>8, <1>10 DEF ProgressInv, OutputsArrive

\* ... a leaf that waits for nothing has been dispatched ...
LEMMA GoingIsNoLeaf ==
  ASSUME VesselInv, ProgressInv, Dispatchable = {}, timeline = <<>>, NEW o \in Going
  PROVE  ~(o \in Leaf /\ scope[o] = "Open")
<1> SUFFICES ASSUME o \in Leaf, scope[o] = "Open"
             PROVE  FALSE
  OBVIOUS
<1>1. DOMAIN timeline = {}
  OBVIOUS
<1>2. inflight = {}
  BY <1>1 DEF VesselInv, Matches
<1>3. Cardinality(inflight) < Concurrency
  BY <1>2, FS_EmptySet, RunTypes
<1>4. notBefore[o] <= now
  <2>1. ~(notBefore[o] > now)
    BY <1>1 DEF ProgressInv, WaitsAreAhead, Ahead
  <2>2. notBefore[o] \in Nat /\ now \in Nat
    BY DEF VesselInv, WorkTypes
  <2>3. QED
    BY <2>1, <2>2
<1>5. o \in Eligible
  BY <1>2, <1>4 DEF Going, Eligible, InFlight
<1>6. QED
  BY <1>3, <1>5 DEF Dispatchable

\* ... and what has children waits for one that waits for nothing either.
LEMMA GoingGoesOn ==
  ASSUME VesselInv, RunInv, ProgressInv, Quiet, NEW o \in Going \ Leaf, scope[o] = "Open"
  PROVE  \E c \in Going : Parent[c] = o
<1>1. o \in Occ /\ o \in Exposed /\ ~Settled(o) /\ StructurallyReady(o) /\ Inv
  BY ExposureFollowsTree DEF Going, VesselInv
<1>2. Children(o) = ChildrenOf(o)
  <2>1. CASE o \in Deducible
    BY <1>1, <2>1, ExposureFollowsTree DEF ProgressInv, ScopesFollowDeduction
  <2>2. CASE o \notin Deducible
    BY <1>1, <2>2, ExposureFollowsTree
  <2>3. QED
    BY <2>1, <2>2
<1>3. Children(o) # {}
  BY <1>1, <1>2, Dependence
<1>4. /\ \A c \in ChildrenOf(o) : scope[c] \notin Terminal \ {"Satisfied"}
      /\ \E c \in ChildrenOf(o) : scope[c] # "Satisfied"
  <2>1. Waits(o)
    BY <1>1, QuietScopesWait DEF RunInv
  <2>2. QED
    BY <1>2, <1>3, <2>1 DEF Waits
<1>5. PICK c \in ChildrenOf(o) : scope[c] # "Satisfied" /\ \A d \in Deps[c] : scope[d] = "Satisfied"
  BY <1>1, <1>4, NextChild
<1>6. c \in Exposed /\ c \in Occ /\ Parent[c] = o
  BY <1>2, <1>5 DEF Children, ChildrenOf
<1>7. ~Settled(c)
  BY <1>4, <1>5 DEF Settled
<1>8. Ancestors[c] = {o} \cup Ancestors[o]
  BY <1>1, <1>6, AncestorsUnfold, ProgramTypes
<1>9. StructurallyReady(c)
  BY <1>1, <1>5, <1>8 DEF StructurallyReady
<1>10. QED
  BY <1>6, <1>7, <1>9 DEF Going

\* A stable run in Ready mode with nothing ahead cannot be: from the Root down
\* there is always a scope that goes on.
LEMMA AlwaysSomethingAhead ==
  ASSUME VesselInv, NothingMoved, RunInv, RefuseInv, ProgressInv, ReadyMode, pc = "deliver"
  PROVE  timeline # <<>>
<1> SUFFICES ASSUME timeline = <<>>
             PROVE  FALSE
  OBVIOUS
<1>1. Quiet /\ Stable /\ Dispatchable = {}
  BY DEF NothingMoved
<1>2. events = <<>>
  BY DEF RefuseInv, HandledBeforeDispatch
<1>3. Root \in Going
  <2>1. Root \in Occ /\ Parent[Root] = NoOcc /\ Ancestors[Root] = {} /\ Root \in Exposed
    BY AncestorsUnfold, ProgramTypes DEF ProgressInv
  <2>2. ~Settled(Root)
    BY DEF RunInv, OutcomeInv, ResultFollowsRoot
  <2>3. Deps[Root] = {}
    BY <2>1, Dependence
  <2>4. StructurallyReady(Root)
    BY <2>1, <2>3 DEF StructurallyReady
  <2>5. QED
    BY <2>1, <2>2, <2>4 DEF Going
<1>4. PICK o \in Going : \A c \in Going : Parent[c] # o
  <2>1. Going \subseteq Exposed /\ Going # {} /\ Inv
    BY <1>3 DEF Going, VesselInv
  <2> HIDE DEF Going
  <2>2. QED
    BY <2>1, LowestOccurrence
<1>5. scope[o] = "Open"
  <2>1. o \in Occ /\ o \in Exposed /\ ~Settled(o)
    BY ExposureFollowsTree DEF Going, VesselInv
  <2>2. scope[o] \in ScopeStates
    BY <2>1 DEF VesselInv, WorkTypes
  <2>3. DOMAIN events = {}
    BY <1>2
  <2>4. scope[o] # "none"
    BY <2>1, <2>3 DEF RefuseInv, EventsInOrder, ExposurePending
  <2>5. scope[o] # "Undeduced"
    BY <1>1, <1>2, GoingIsDeduced
  <2>6. QED
    BY <2>1, <2>2, <2>4, <2>5 DEF ScopeStates, Settled
<1>6. o \notin Leaf
  BY <1>1, <1>5, GoingIsNoLeaf
<1>7. QED
  BY <1>1, <1>4, <1>5, <1>6, GoingGoesOn

\* Only the Stuck step reports a run stuck.
LEMMA OnlyStuckSticks ==
  ASSUME [VesselNext]_vesselVars, ~(pc = "deliver" /\ timeline = <<>>), ending # "stuck"
  PROVE  ending' # "stuck"
<1>1. CASE SettleScope
  BY <1>1 DEF SettleScope
<1>2. CASE settling = NotSettling /\ (ApplyAction \/ Answered)
  BY <1>2 DEF ApplyAction, Answered
<1>3. CASE Quiet /\ (SurfaceFailure \/ SchedulerDemand \/ Deduction \/ Handle \/ Pumped)
  BY <1>3 DEF SurfaceFailure, SchedulerDemand, Deduction, Handle, Pumped, outcomeVars
<1>4. CASE Quiet /\ (Dispatch \/ Dispatched \/ Deliver \/ Stuck)
  BY <1>4 DEF Dispatch, Dispatched, Deliver, Stuck, outcomeVars
<1>5. CASE Quiet /\ Step
  BY <1>5 DEF Step
<1>6. CASE Quiet /\ CallIn
  BY <1>6 DEF CallIn, RunDemand, CancelScope, RunSetPrefetch, RivalConsume, Advance, outcomeVars
<1>7. CASE UNCHANGED vesselVars
  BY <1>7 DEF vesselVars, outcomeVars
<1>8. QED
  BY <1>1, <1>2, <1>3, <1>4, <1>5, <1>6, <1>7 DEF VesselNext, Inner, Routine

\* Whatever waits for a time has its wakeup ahead, however its waits were set
\* and replaced, and a run in Ready mode is never reported stuck.
THEOREM WaitsAreWoken == VesselSpec => []WaitsHaveWakeups
<1> DEFINE NeverStuck == ReadyMode => ending # "stuck"
<1>1. VesselInit => NeverStuck
  BY DEF VesselInit
<1>2. /\ VesselInv /\ NothingMoved /\ RunInv /\ RefuseInv /\ ProgressInv /\ NeverStuck /\ [VesselNext]_vesselVars
      => NeverStuck'
  BY AlwaysSomethingAhead, OnlyStuckSticks
<1>3. ProgressInv /\ NeverStuck => WaitsHaveWakeups
  BY DEF ProgressInv, WaitsAreAhead, Ahead, WaitsHaveWakeups
<1> HIDE DEF NeverStuck
<1>4. QED
  BY <1>1, <1>2, <1>3, ProgressInvariance, RefuseInvariance, OutcomeInvariance, NothingMovedInvariance,
     VesselInvariance, PTL DEF VesselSpec

-----------------------------------------------------------------------------
(* Failures found by speculation wait until they are needed.               *)

\* The scopes whose policies are attached: a deducible one's, when its
\* deduction was committed.
Attached == {o \in Occ : o \in Deducible => state[o] = "committed"}

\* Only deductions that failed are deferred, after their exposure was handled,
\* and each failure is handled once.
DeferredHaveFailed ==
  /\ \A o \in deferred : o \in Deducible /\ state[o] = "failed" /\ scope[o] # "none"
  /\ \A i \in DOMAIN events : events[i].kind = "failed" =>
       /\ events[i].occ \notin deferred
       /\ \A j \in DOMAIN events : events[j].kind = "failed" /\ events[j].occ = events[i].occ => i = j

\* Policies are asked, and set timers, in attached scopes only.
AttachedAreAsked ==
  /\ answering.occ \in Attached \cup {NoOcc}
  /\ \A i \in DOMAIN timeline : timeline[i].kind = "timer" => timeline[i].occ \in Attached

\* A call that fails a deferred occurrence surfaces it because it is ready.
Surfaces(call) == call.occ \in deferred /\ call.st = "Failed" => StructurallyReady(call.occ)

DeferralInv == DeferredHaveFailed /\ AttachedAreAsked /\ Surfaces(settling)

\* What was decided about a deduction stands.
LEMMA DecidedStays ==
  ASSUME VesselInv, [VesselNext]_vesselVars
  PROVE  \A q \in Occ : state[q] \in {"committed", "failed"} => state'[q] = state[q]
<1>1. CASE SettleScope
  BY <1>1 DEF SettleScope, Withdraw, Undeduced
<1>2. CASE Quiet /\ Deduction
  <2>1. CASE UNCHANGED state
    BY <2>1
  <2>2. ASSUME NEW o \in Deducible, state[o] = "undeduced", NEW cause \in {"demand", "prefetch"},
               DeduceCommits(o, cause) \/ DeduceFails(o, cause)
        PROVE  \A q \in Occ : state[q] \in {"committed", "failed"} => state'[q] = state[q]
    <3>1. CASE DeduceCommits(o, cause)
      <4>1. \A q \in StagedSet(o) : state[q] = "unexposed"
        BY <2>2, StagedIsNew DEF VesselInv
      <4>2. QED
        BY <2>2, <3>1, <4>1 DEF DeduceCommits
    <3>2. CASE DeduceFails(o, cause)
      BY <2>2, <3>2 DEF DeduceFails, VesselInv, Inv, CarouselTypeOK
    <3>3. QED
      BY <2>2, <3>1, <3>2
  <2>3. QED
    BY <1>2, <2>1, <2>2, Picks
       DEF Deduction, Replenish, ServeDemand, Speculate, DemandServed, EndReplenish, VesselInv, Deduce
<1>3. QED
  BY <1>1, <1>2, StateSteps DEF Handle

\* Whom the calls of settle and of apply are about.
LEMMA CallsName ==
  /\ NotSettling.occ = NoOcc /\ NotAnswering.occ = NoOcc
  /\ \A o, st, out : Settle(o, st, out) =>
       settling'.occ \in {o, NoOcc} /\ (settling'.st = st \/ settling'.occ = NoOcc)
  /\ \A o, e, st, out : Consult(o, e, st, out) \/ Silent(o, e) => answering'.occ \in {o, NoOcc}
  /\ \A o, e : Notify(o, e) => answering'.occ \in {o, NoOcc}
  /\ \A proposal : Propose(proposal) =>
       settling'.occ \in {proposal.occ, NoOcc} /\ answering'.occ \in {proposal.occ, NoOcc}
  /\ \A p, s, v : EvaluateParent(p, s, v).occ \in {p, NoOcc}
<1>1. NotSettling.occ = NoOcc /\ NotAnswering.occ = NoOcc
  BY DEF NotSettling, NotAnswering
<1>2. \A o, st, out : Settle(o, st, out) =>
       settling'.occ \in {o, NoOcc} /\ (settling'.st = st \/ settling'.occ = NoOcc)
  BY <1>1 DEF Settle
<1>3. \A o, e, st, out : Consult(o, e, st, out) \/ Silent(o, e) => answering'.occ \in {o, NoOcc}
  BY <1>1 DEF Consult, Silent
<1>4. \A o, e : Notify(o, e) => answering'.occ \in {o, NoOcc}
  BY <1>3 DEF Notify
<1>5. \A proposal : Propose(proposal) =>
       settling'.occ \in {proposal.occ, NoOcc} /\ answering'.occ \in {proposal.occ, NoOcc}
  BY <1>1, <1>3 DEF Propose
<1>6. \A p, s, v : EvaluateParent(p, s, v).occ \in {p, NoOcc}
  BY DEF EvaluateParent, Proposal, NotSettling
<1>7. QED
  BY <1>1, <1>2, <1>3, <1>4, <1>5, <1>6

\* Only failures that are not needed yet are deferred.
LEMMA DeferredHaveFailedStep ==
  ASSUME VesselInv, NothingMoved, RunInv, EventsInOrder, ScopesFollowDeduction, DeferredHaveFailed,
         [VesselNext]_vesselVars
  PROVE  DeferredHaveFailed'
<1>1. \A q \in Occ : scope[q] # "none" => scope'[q] # "none"
  <2>1. CASE Quiet /\ Handle
    <3>1. PICK e : /\ e.occ \in Exposed
                   /\ HandleExposed(e.occ) \/ HandleCommitted(e.occ) \/ HandleFailed(e.occ, e.cause)
      BY <2>1, HandlesHead DEF RunInv
    <3>2. scope \in [Occ -> ScopeStates] /\ e.occ \in Occ
      BY <3>1, ExposureFollowsTree DEF VesselInv, WorkTypes
    <3>3. QED
      BY <3>1, <3>2 DEF HandleExposed, HandleCommitted, HandleFailed
  <2>2. QED
    BY <2>1, ScopeSteps DEF Opens, Settled, Terminal
<1>2. deferred \subseteq Occ /\ \A o \in deferred : state'[o] = "failed" /\ scope'[o] # "none"
  BY <1>1, DecidedStays DEF DeferredHaveFailed, Deducible
<1>3. CASE UNCHANGED <<deferred, events>>
  BY <1>2, <1>3 DEF DeferredHaveFailed
<1>4. CASE Quiet /\ Handle
  <2>1. PICK e \in Events :
          /\ 1 \in DOMAIN events /\ e = events[1] /\ e.occ \in Exposed
          /\ \/ e.kind = "exposed" /\ HandleExposed(e.occ)
             \/ e.kind = "committed" /\ HandleCommitted(e.occ)
             \/ e.kind = "failed" /\ HandleFailed(e.occ, e.cause)
    BY <1>4, HandlesHead DEF RunInv
  <2>2. events # <<>> /\ events' = Tail(events) /\ state' = state
    BY <1>4 DEF Handle
  <2>3. deferred' = deferred \/ (e.kind = "failed" /\ deferred' = deferred \cup {e.occ})
    BY <2>1 DEF HandleExposed, HandleCommitted, HandleFailed
  <2>4. \A i \in DOMAIN events' : i \in Nat \ {0} /\ i + 1 \in DOMAIN events /\ events'[i] = events[i + 1] /\ i + 1 # 1
    BY <2>2, TailPlaces
  <2>5. \A i \in DOMAIN events' : events'[i].kind = "failed" =>
          /\ events'[i].occ \notin deferred'
          /\ \A j \in DOMAIN events' : events'[j].kind = "failed" /\ events'[j].occ = events'[i].occ => i = j
    <3> SUFFICES ASSUME NEW i \in DOMAIN events', events'[i].kind = "failed"
                 PROVE  /\ events'[i].occ \notin deferred'
                        /\ \A j \in DOMAIN events' :
                             events'[j].kind = "failed" /\ events'[j].occ = events'[i].occ => i = j
      OBVIOUS
    <3>1. events[i + 1].kind = "failed" /\ i + 1 \in DOMAIN events /\ i + 1 # 1
      BY <2>4
    <3>2. events'[i].occ \notin deferred'
      BY <2>1, <2>3, <2>4, <3>1 DEF DeferredHaveFailed
    <3>3. ASSUME NEW j \in DOMAIN events', events'[j].kind = "failed", events'[j].occ = events'[i].occ
          PROVE  i = j
      <4>1. i + 1 = j + 1
        BY <2>4, <3>1, <3>3 DEF DeferredHaveFailed
      <4>2. QED
        BY <2>4, <4>1
    <3>4. QED
      BY <3>2, <3>3
  <2>6. e.kind = "failed" => e.occ \in Deducible /\ state[e.occ] = "failed" /\ scope[e.occ] # "none"
    <3> SUFFICES ASSUME e.kind = "failed"
                 PROVE  e.occ \in Deducible /\ state[e.occ] = "failed" /\ scope[e.occ] # "none"
      OBVIOUS
    <3>1. e.occ \in Deducible /\ state[e.occ] = "failed"
      BY <2>1 DEF ScopesFollowDeduction, EventsTellStates
    <3>2. ASSUME scope[e.occ] = "none"
          PROVE  FALSE
      <4>1. PICK j \in DOMAIN events : events[j].kind = "exposed" /\ events[j].occ = e.occ
        BY <2>1, <3>2 DEF EventsInOrder, ExposurePending
      <4>2. j < 1 /\ j \in Nat \ {0}
        BY <2>1, <2>2, <4>1, TailPlaces DEF EventsInOrder
      <4>3. QED
        BY <4>2
    <3>3. QED
      BY <3>1, <3>2
  <2>7. \A o \in deferred' : o \in Deducible /\ state'[o] = "failed" /\ scope'[o] # "none"
    BY <1>1, <1>2, <2>2, <2>3, <2>6 DEF DeferredHaveFailed, Deducible
  <2>8. QED
    BY <2>5, <2>7 DEF DeferredHaveFailed
<1>5. CASE Quiet /\ Deduction
  <2>1. deferred' = deferred
    BY <1>5 DEF Deduction, schedulerVars
  <2>2. ASSUME NEW o \in Deducible, state[o] = "undeduced", NEW cause \in {"demand", "prefetch"},
               DeduceCommits(o, cause)
        PROVE  DeferredHaveFailed'
    <3>1. PICK n \in Nat :
            /\ DOMAIN events = 1..n
            /\ DOMAIN events' = 1..(n + 1 + Len(Staged[o])) /\ Len(Staged[o]) \in Nat
            /\ \A i \in 1..n : events'[i] = events[i]
            /\ events'[n + 1] = Event("committed", o, cause)
            /\ \A j \in 1..Len(Staged[o]) : events'[n + 1 + j] = Event("exposed", Staged[o][j], "")
      BY <2>2, EventPlaces
    <3>2. PICK m \in Nat : m = Len(Staged[o])
      BY <3>1
    <3>3. \A q : Event("exposed", q, "").kind = "exposed" /\ Event("committed", q, cause).kind = "committed"
      BY DEF Event
    <3>4. /\ events'[n + 1].kind = "committed"
          /\ \A j \in 1..m : events'[n + 1 + j].kind = "exposed"
      BY <3>1, <3>2, <3>3
    <3>5. \A i \in DOMAIN events' : i \in 1..n \/ i = n + 1 \/ \E j \in 1..m : i = n + 1 + j
      <4>1. DOMAIN events' = 1..(n + 1 + m)
        BY <3>1, <3>2
      <4>2. \A i \in 1..(n + 1 + m) : i \in 1..n \/ i = n + 1 \/ \E j \in 1..m : i = n + 1 + j
        BY SplitPlaces
      <4>3. QED
        BY <4>1, <4>2
    <3>6. \A i \in DOMAIN events' : events'[i].kind = "failed" => i \in DOMAIN events /\ events'[i] = events[i]
      BY <3>1, <3>4, <3>5
    <3>7. QED
      BY <1>2, <2>1, <3>6 DEF DeferredHaveFailed
  <2>3. ASSUME NEW o \in Deducible, state[o] = "undeduced", NEW cause \in {"demand", "prefetch"},
               DeduceFails(o, cause)
        PROVE  DeferredHaveFailed'
    <3>1. PICK n \in Nat :
            /\ DOMAIN events = 1..n /\ DOMAIN events' = 1..(n + 1)
            /\ \A i \in 1..n : events'[i] = events[i]
            /\ events'[n + 1] = Event("failed", o, cause)
      BY <2>3, FailurePlaces
    <3>2. events'[n + 1].occ = o /\ o \notin deferred
      BY <2>3, <3>1 DEF Event, DeferredHaveFailed
    <3>3. \A i \in 1..n : events[i].kind = "failed" => events[i].occ # o
      BY <2>3, <3>1 DEF ScopesFollowDeduction, EventsTellStates
    <3>4. \A i \in DOMAIN events' : (i \in 1..n /\ events'[i] = events[i]) \/ i = n + 1
      BY <3>1
    <3>5. QED
      BY <1>2, <2>1, <3>1, <3>2, <3>3, <3>4 DEF DeferredHaveFailed
  <2>4. QED
    BY <1>3, <1>4, <1>5, <2>1, <2>2, <2>3, EventSteps
<1>6. QED
  BY <1>3, <1>4, <1>5, StateSteps DEF SettleScope, schedulerVars

\* What has children is attached, so a parent can draw its conclusion.
LEMMA ParentsAreAttached ==
  ASSUME VesselInv, NEW p \in Exposed, Children(p) # {}
  PROVE  p \in Attached
BY ExposureFollowsTree DEF Attached, VesselInv

\* Calls are about attached scopes, except those of settle that surface a
\* failure, and those that end a scope before it executes.
LEMMA CallsAttachedStep ==
  ASSUME "Demand" \notin Calls, VesselInv, RunInv, EventsInOrder, ScopesFollowDeduction, DeferralInv,
         [VesselNext]_vesselVars
  PROVE  /\ answering'.occ \in Attached \cup {NoOcc}
         /\ settling'.occ \in deferred /\ settling'.st = "Failed" =>
              StructurallyReady(settling'.occ) /\ scope' = scope
<1> DEFINE Fine == settling'.occ \in Attached \cup {NoOcc}
           Asks == answering'.occ \in Attached \cup {NoOcc}
           Ready == StructurallyReady(settling'.occ) /\ scope' = scope
<1>1. Fine => settling'.occ \notin deferred
  BY ProgramTypes DEF DeferralInv, DeferredHaveFailed, Attached, Deducible
<1>2. answering.occ \in Attached \cup {NoOcc}
  BY DEF DeferralInv, AttachedAreAsked
<1>3. Leaf \subseteq Attached
  BY DEF Leaf, Deducible, Attached
<1>4. CASE SettleScope
  <2>1. CASE settling' = NotSettling /\ UNCHANGED answering
    BY <1>1, <1>2, <2>1, CallsName
  <2>2. CASE ChildOutcome(Parent[settling.occ], scope', values') /\ Parent[settling.occ] # NoOcc
    <3>1. PICK p \in Attached : p = Parent[settling.occ]
      <4>1. settling.occ \in Exposed
        BY <1>4 DEF SettleScope, RunInv, OutcomeInv, NotBeforeExposure
      <4>2. Parent[settling.occ] \in Exposed /\ settling.occ \in Children(Parent[settling.occ])
        BY <2>2, <4>1, ExposureFollowsTree DEF Children, VesselInv
      <4>3. QED
        BY <4>2, ParentsAreAttached
    <3>2. Fine /\ Asks
      BY <2>2, <3>1, CallsName DEF ChildOutcome
    <3>3. QED
      BY <1>1, <3>2
  <2>3. QED
    BY <1>4, <2>1, <2>2 DEF SettleScope
<1>5. ASSUME NEW l \in Leaf, StartAttempt(l), settling = NotSettling
      PROVE  Fine
  BY <1>3, <1>5, CallsName DEF StartAttempt, Invoke
<1>6. CASE settling = NotSettling /\ ApplyAction
  <2>1. Fine /\ Asks
    BY <1>2, <1>6, CallsName DEF ApplyAction, VesselInv, CallTypes
  <2>2. QED
    BY <1>1, <2>1
<1>7. CASE settling = NotSettling /\ Answered
  <2>1. CASE answering.event = "BeforeAttempt" /\ StartAttempt(answering.occ) /\ answering' = NotAnswering
    <3>1. answering.occ \in Leaf
      BY <2>1 DEF VesselInv, CallsInProgress, MayStart
    <3>2. Fine /\ Asks
      BY <1>5, <1>7, <2>1, <3>1, CallsName
    <3>3. QED
      BY <1>1, <3>2
  <2>2. CASE Propose(EvaluateParent(answering.occ, scope, values))
    <3>1. Fine /\ Asks
      BY <1>2, <2>2, CallsName
    <3>2. QED
      BY <1>1, <3>1
  <2>3. CASE Settle(answering.occ, answering.st, answering.out) /\ answering' = NotAnswering
    <3>1. Fine /\ Asks
      BY <1>2, <2>3, CallsName
    <3>2. QED
      BY <1>1, <3>1
  <2>4. CASE answering' = NotAnswering /\ UNCHANGED settling
    <3>1. Fine /\ Asks
      BY <1>7, <2>4, CallsName
    <3>2. QED
      BY <1>1, <3>1
  <2>5. QED
    BY <1>7, <2>1, <2>2, <2>3, <2>4 DEF Answered
<1>8. CASE Quiet /\ Handle
  <2>1. PICK e \in Events :
          /\ 1 \in DOMAIN events /\ e = events[1] /\ e.occ \in Exposed
          /\ \/ e.kind = "exposed" /\ HandleExposed(e.occ)
             \/ e.kind = "committed" /\ HandleCommitted(e.occ)
             \/ e.kind = "failed" /\ HandleFailed(e.occ, e.cause)
    BY <1>8, HandlesHead DEF RunInv
  <2>2. e.occ \in Occ
    BY <2>1, ExposureFollowsTree DEF VesselInv
  <2>3. CASE UNCHANGED <<settling, answering>>
    BY <1>1, <1>2, <1>8, <2>3, CallsName DEF Quiet
  <2>4. CASE e.kind = "exposed" /\ HandleExposed(e.occ) /\ ~Settled(e.occ)
    <3>1. e.occ \notin deferred
      <4>1. scope[e.occ] = "none"
        BY <2>1, <2>4 DEF EventsInOrder, Settled
      <4>2. QED
        BY <4>1 DEF DeferralInv, DeferredHaveFailed
    <3>2. CASE Refuse(e.occ)
      BY <1>1, <1>2, <3>1, <3>2, CallsName DEF Refuse
    <3>3. CASE Attach(e.occ)
      <4>1. UNCHANGED settling
        BY <3>3 DEF Attach
      <4>2. CASE e.occ \in Deducible
        BY <2>3, <3>3, <4>1, <4>2 DEF Attach
      <4>3. CASE e.occ \notin Deducible
        <5>1. e.occ \in Attached
          BY <2>2, <4>3 DEF Attached
        <5>2. Fine /\ Asks
          BY <1>8, <3>3, <4>1, <4>3, <5>1, CallsName DEF Attach, Quiet
        <5>3. QED
          BY <1>1, <5>2
      <4>4. QED
        BY <4>2, <4>3
    <3>4. QED
      BY <2>4, <3>2, <3>3 DEF HandleExposed
  <2>5. CASE e.kind = "committed" /\ HandleCommitted(e.occ) /\ ~Settled(e.occ)
    <3>1. e.occ \in Attached
      BY <2>1, <2>2, <2>5 DEF ScopesFollowDeduction, EventsTellStates, Attached
    <3>2. Fine /\ Asks
      BY <1>8, <2>5, <3>1, CallsName DEF HandleCommitted, Quiet
    <3>3. QED
      BY <1>1, <3>2
  <2>6. CASE e.kind = "failed" /\ HandleFailed(e.occ, e.cause)
    <3>1. e.occ \notin deferred
      BY <2>1, <2>6 DEF DeferralInv, DeferredHaveFailed
    <3>2. settling'.occ \in {e.occ, NoOcc} /\ Asks
      BY <1>2, <1>8, <2>6, CallsName DEF HandleFailed, Quiet
    <3>3. QED
      BY <1>1, <3>1, <3>2
  <2>7. QED
    BY <2>1, <2>3, <2>4, <2>5, <2>6 DEF HandleExposed, HandleCommitted
<1>9. CASE Quiet /\ Dispatch
  <2>1. PICK l \in Leaf : BeforeAttempt(l) \/ \E ticks \in Withhold : WithholdDispatch(l, ticks)
    BY <1>9, DispatchPicks
  <2>2. Fine /\ Asks
    <3>1. CASE Silent(l, "BeforeAttempt") /\ StartAttempt(l)
      BY <1>3, <1>5, <1>9, <3>1, CallsName DEF Quiet
    <3>2. CASE Consult(l, "BeforeAttempt", "none", "unresolved") /\ UNCHANGED settling
      BY <1>3, <1>9, <3>2, CallsName DEF Quiet
    <3>3. CASE UNCHANGED <<settling, answering>>
      BY <1>2, <1>9, <3>3, CallsName DEF Quiet
    <3>4. QED
      BY <2>1, <3>1, <3>2, <3>3 DEF BeforeAttempt, WithholdDispatch
  <2>3. QED
    BY <1>1, <2>2
<1>10. CASE Quiet /\ Deliver
  <2>1. PICK item \in Item : item = Head(timeline) /\ (item.kind = "timer" => item.occ \in Attached)
    <3>1. timeline \in Seq(Item) /\ timeline # <<>>
      BY <1>10 DEF Deliver, VesselInv, WorkTypes
    <3>2. Head(timeline) \in Item /\ 1 \in DOMAIN timeline /\ Head(timeline) = timeline[1]
      BY <3>1
    <3>3. QED
      BY <3>2 DEF DeferralInv, AttachedAreAsked
  <2>2. CASE item.kind = "completion"
    <3>1. item.occ \in Leaf /\ DeliverCompletion(item)
      BY <1>10, <2>1, <2>2, DeliveredAttempt DEF Completes, Deliver
    <3>2. CASE UNCHANGED <<settling, answering>>
      BY <1>1, <1>2, <1>10, <3>2, CallsName DEF Quiet
    <3>3. ASSUME NEW st, NEW out, Settle(item.occ, st, out), UNCHANGED answering
          PROVE  Fine /\ Asks
      BY <1>2, <1>3, <3>1, <3>3, CallsName
    <3>4. CASE answering'.occ = item.occ /\ UNCHANGED settling
      BY <1>1, <1>3, <1>10, <3>1, <3>4, CallsName DEF Quiet
    <3>5. QED
      BY <1>1, <3>1, <3>2, <3>3, <3>4 DEF DeliverCompletion, AttemptOutcome
  <2>3. CASE item.kind # "completion"
    <3>1. settling' = NotSettling /\ Asks
      BY <1>2, <1>10, <2>1, <2>3, CallsName DEF Deliver, DeliverTimer, Quiet
    <3>2. QED
      BY <1>1, <3>1, CallsName
  <2>4. QED
    BY <2>2, <2>3
<1>11. CASE Quiet /\ SurfaceFailure
  <2>1. First(ReadyFailures) \in ReadyFailures
    BY <1>11, FirstInSet DEF VesselInv, Inv, CarouselTypeOK, ReadyFailures, SurfaceFailure
  <2>2. StructurallyReady(First(ReadyFailures)) /\ UNCHANGED <<scope, answering>>
    BY <1>11, <2>1 DEF ReadyFailures, SurfaceFailure
  <2>3. settling'.occ \in {First(ReadyFailures), NoOcc}
    BY <1>11, CallsName DEF SurfaceFailure
  <2>4. QED
    BY <1>1, <1>2, <2>2, <2>3
<1>12. CASE Quiet /\ CallIn
  <2>1. UNCHANGED answering
    BY <1>12 DEF CallIn, RunDemand, CancelScope, RunSetPrefetch, RivalConsume, Advance, outcomeVars
  <2>2. CASE UNCHANGED settling
    BY <1>1, <1>2, <1>12, <2>1, <2>2, CallsName DEF Quiet
  <2>3. ASSUME NEW o, Settle(o, "Cancelled", "unresolved")
        PROVE  settling'.occ = NoOcc \/ settling'.st # "Failed"
    BY <2>3, CallsName
  <2>4. QED
    BY <1>1, <1>2, <1>12, <2>1, <2>2, <2>3
       DEF CallIn, RunDemand, CancelScope, RunSetPrefetch, RivalConsume, Advance, outcomeVars
<1>13. CASE Quiet /\ (SchedulerDemand \/ Deduction \/ Pumped \/ Dispatched \/ Stuck \/ Step)
  <2>1. settling' = NotSettling /\ UNCHANGED answering
    BY <1>13 DEF Quiet, SchedulerDemand, Deduction, Pumped, Dispatched, Stuck, Step, outcomeVars
  <2>2. QED
    BY <1>1, <1>2, <2>1, CallsName
<1>14. CASE UNCHANGED vesselVars
  BY <1>2, <1>14 DEF vesselVars, outcomeVars, DeferralInv, Surfaces
<1>15. QED
  BY <1>4, <1>6, <1>7, <1>8, <1>9, <1>10, <1>11, <1>12, <1>13, <1>14 DEF VesselNext, Inner, Routine

\* Timers belong to attached scopes: only their policies start one.
LEMMA TimersAttachedStep ==
  ASSUME VesselInv, AttachedAreAsked, [VesselNext]_vesselVars
  PROVE  \A i \in DOMAIN timeline' : timeline'[i].kind = "timer" => timeline'[i].occ \in Attached
<1> DEFINE Kept(tl) == \A i \in DOMAIN tl : tl[i].kind = "timer" => tl[i].occ \in Attached
<1>1. timeline \in Seq(Item) /\ Kept(timeline)
  BY DEF VesselInv, WorkTypes, AttachedAreAsked
<1>2. ASSUME NEW tl \in Seq(Item), NEW item \in Item, Kept(tl), item.kind = "timer" => item.occ \in Attached
      PROVE  Kept(Insert(tl, item))
  <2> DEFINE ins == Insert(tl, item)
  <2>1. PICK p \in DOMAIN ins :
          /\ ins[p] = item
          /\ \A i \in DOMAIN ins \ {p} : Old(p, i) \in DOMAIN tl /\ ins[i] = tl[Old(p, i)]
    BY InsertPlaces
  <2> HIDE DEF ins
  <2>2. Kept(ins)
    BY <1>2, <2>1
  <2>3. QED
    BY <2>2 DEF ins
<1>3. \A l \in Leaf, t \in Nat : Wakeup(l, "backoff", t) \in Item /\ Wakeup(l, "backoff", t).kind = "backoff"
  BY WakeupIsItem DEF Leaf, Wakeup
<1>4. CASE Schedules
  <2>1. PICK item \in Item : timeline' = Insert(timeline, item) /\ (item.kind = "timer" => answering.occ = item.occ)
    BY <1>4 DEF Schedules
  <2>2. item.occ \in Occ
    BY DEF Item
  <2>3. item.kind = "timer" => item.occ \in Attached
    BY <2>1, <2>2, ProgramTypes DEF AttachedAreAsked
  <2>4. QED
    BY <1>1, <1>2, <2>1, <2>3
<1>5. CASE Postpones
  BY <1>1, <1>2, <1>3, <1>5 DEF Postpones
<1>6. CASE Delivers
  <2>1. Tail(timeline) \in Seq(Item) /\ Kept(Tail(timeline))
    BY <1>1, <1>6, TailFacts DEF Delivers
  <2>2. QED
    BY <1>2, <1>3, <1>6, <2>1 DEF Delivers
<1>7. QED
  BY <1>1, <1>4, <1>5, <1>6, TimelineSteps

\* The invariant holds where nobody but the Scheduler demands.
LEMMA DeferralInvStep ==
  ASSUME "Demand" \notin Calls, VesselInv, NothingMoved, RunInv, EventsInOrder, ScopesFollowDeduction,
         DeferralInv, [VesselNext]_vesselVars
  PROVE  DeferralInv'
<1>1. Attached \subseteq Attached'
  BY DecidedStays DEF Attached, Deducible
<1>2. AttachedAreAsked'
  BY <1>1, CallsAttachedStep, TimersAttachedStep DEF DeferralInv, AttachedAreAsked
<1>3. DeferredHaveFailed'
  BY DeferredHaveFailedStep DEF DeferralInv
<1>4. Surfaces(settling)'
  <2>1. CASE settling'.occ \in deferred
    BY <2>1, CallsAttachedStep DEF Surfaces, StructurallyReady, Settled
  <2>2. CASE settling'.occ \in deferred' \ deferred
    <3>1. Quiet /\ Handle
      BY <2>2, StateSteps DEF SettleScope, Deduction, schedulerVars
    <3>2. settling' = settling
      BY <2>2, <3>1, HandlesHead DEF RunInv, HandleExposed, HandleCommitted, HandleFailed
    <3>3. deferred' \subseteq Occ
      BY <1>3 DEF DeferredHaveFailed, Deducible
    <3>4. QED
      BY <2>2, <3>1, <3>2, <3>3, ProgramTypes DEF Quiet, NotSettling
  <2>3. QED
    BY <2>1, <2>2 DEF Surfaces
<1>5. QED
  BY <1>2, <1>3, <1>4 DEF DeferralInv

\* schedulerDemand: a failure found by speculation fails its scope only when
\* the Scheduler has come to need that occurrence, in runs nobody else demands
\* in; a caller's own demand may surface it at any time.
THEOREM FailuresWaitForNeed ==
  ASSUME "Demand" \notin Calls
  PROVE  VesselSpec => DeferredUntilReady
<1>1. VesselInit => DeferralInv
  <2> SUFFICES ASSUME VesselInit
               PROVE  DeferralInv
    OBVIOUS
  <2>1. DOMAIN events = {} /\ DOMAIN timeline = {} /\ deferred = {}
    BY DEF VesselInit
  <2>2. answering.occ = NoOcc
    BY DEF VesselInit, NotAnswering
  <2>3. QED
    BY <2>1, <2>2 DEF DeferralInv, DeferredHaveFailed, AttachedAreAsked, Surfaces
<1>2. /\ VesselInv /\ NothingMoved /\ RunInv /\ RefuseInv /\ ProgressInv /\ DeferralInv
      /\ [VesselNext]_vesselVars
      => DeferralInv'
  BY DeferralInvStep DEF RefuseInv, ProgressInv
<1>3. /\ VesselInv /\ NothingMoved /\ RunInv /\ DeferralInv /\ [VesselNext]_vesselVars
      => [\A o \in deferred : scope'[o] = "Failed" /\ scope[o] # "Failed" => StructurallyReady(o)]_vesselVars
  <2> SUFFICES ASSUME VesselInv, NothingMoved, RunInv, DeferralInv, [VesselNext]_vesselVars,
                      NEW o \in deferred, scope'[o] = "Failed", scope[o] # "Failed"
               PROVE  StructurallyReady(o)
    OBVIOUS
  <2>1. o \in Occ
    BY DEF DeferralInv, DeferredHaveFailed, Deducible
  <2>2. SettleScope
    BY <2>1, ScopeSteps DEF Opens, ScopesOpen, Terminal
  <2>3. settling.occ = o /\ settling.st = "Failed"
    BY <2>1, <2>2 DEF SettleScope
  <2>4. QED
    BY <2>3 DEF DeferralInv, Surfaces
<1>4. QED
  BY <1>1, <1>2, <1>3, ProgressInvariance, RefuseInvariance, OutcomeInvariance, NothingMovedInvariance,
     VesselInvariance, PTL DEF VesselSpec, DeferredUntilReady

-----------------------------------------------------------------------------
(* Attempts in scopes that were settled.                                   *)

\* Leaves are settled by what happens in them only: no caller cancels one, and
\* no policy ends one when its timer fires.
LeavesRunOn ==
  /\ "CancelScope" \notin Calls
  /\ \A l \in Leaf : \A acts \in Interp[l]["TimerFired"] : \A i \in DOMAIN acts :
       acts[i].kind \notin {"CancelScope", "FailScope", "unknown"}

\* A leaf is settled between two attempts, or from above, and while one is in
\* flight its policies are asked when a timer fires only.
SettledBetweenAttempts ==
  /\ \A a \in inflight : Settled(a.leaf) => a.cancelled
  /\ settling.occ \in Leaf => ~InFlight(settling.occ)
  /\ answering.occ \in Leaf /\ InFlight(answering.occ) =>
       /\ answering.event = "TimerFired"
       /\ \A i \in DOMAIN answering.acts : answering.acts[i].kind \notin {"CancelScope", "FailScope", "unknown"}

\* What was deferred has failed, in every state of a run.
LEMMA DeferredInvariance == VesselSpec => []DeferredHaveFailed
<1>1. VesselInit => DeferredHaveFailed
  <2> SUFFICES ASSUME VesselInit
               PROVE  DeferredHaveFailed
    OBVIOUS
  <2>1. DOMAIN events = {} /\ deferred = {}
    BY DEF VesselInit
  <2>2. QED
    BY <2>1 DEF DeferredHaveFailed
<1>2. /\ VesselInv /\ NothingMoved /\ RunInv /\ RefuseInv /\ ProgressInv /\ DeferredHaveFailed
      /\ [VesselNext]_vesselVars
      => DeferredHaveFailed'
  BY DeferredHaveFailedStep DEF RefuseInv, ProgressInv
<1>3. QED
  BY <1>1, <1>2, ProgressInvariance, RefuseInvariance, OutcomeInvariance, NothingMovedInvariance,
     VesselInvariance, PTL DEF VesselSpec

\* A call about a scope that has no attempt in flight, or about no scope.
Idle(call) == call.occ \in Leaf => ~InFlight(call.occ)

\* A step that leaves the attempts and the outcomes alone.
LEMMA IdleCalls ==
  ASSUME VesselInv, SettledBetweenAttempts, UNCHANGED inflight,
         \A l \in Leaf : Settled(l)' => Settled(l), Idle(settling'), Idle(answering') \/ UNCHANGED answering
  PROVE  SettledBetweenAttempts'
<1>1. \A l : InFlight(l)' <=> InFlight(l)
  BY DEF InFlight
<1>2. \A a \in inflight : a.leaf \in Leaf
  BY DEF VesselInv, WorkTypes
<1>3. QED
  BY <1>1, <1>2 DEF SettledBetweenAttempts, Idle

\* settle tells the attempts below to stop, and the scope itself has none.
LEMMA SettleCancels ==
  ASSUME VesselInv, SettledBetweenAttempts, SettleScope
  PROVE  SettledBetweenAttempts'
<1>1. PICK x \in Occ : x = settling.occ /\ (x \in Leaf => ~InFlight(x))
  BY DEF SettleScope, VesselInv, CallsInProgress, SettledBetweenAttempts
<1>2. PICK D : /\ D = IF settling.st = "Satisfied" THEN {} ELSE Dropped(x)
               /\ scope' = [q \in Occ |-> IF q = x THEN settling.st
                                          ELSE IF q \notin D THEN scope[q]
                                          ELSE IF q \in Undeduced(D) THEN "Withdrawn" ELSE "Cancelled"]
               /\ inflight' = {[a EXCEPT !.cancelled = @ \/ a.leaf \in D] : a \in inflight}
  BY <1>1 DEF SettleScope, CancelAttempts
<1>3. \A a \in inflight : a \in [leaf : Leaf, no : 1..MaxAttempts, cancelled : BOOLEAN]
  BY DEF VesselInv, WorkTypes
<1>4. \A b \in inflight' : Settled(b.leaf)' => b.cancelled
  <2> SUFFICES ASSUME NEW a \in inflight, NEW b, b = [a EXCEPT !.cancelled = @ \/ a.leaf \in D],
                      scope'[b.leaf] \in Terminal
               PROVE  b.cancelled
    BY <1>2 DEF Settled
  <2>1. b.leaf = a.leaf /\ a.leaf \in Leaf /\ a.leaf \in Occ /\ (b.cancelled <=> a.cancelled \/ a.leaf \in D)
    BY <1>3 DEF Leaf
  <2>2. a.leaf # x
    BY <1>1, <2>1 DEF InFlight
  <2>3. a.leaf \notin D => Settled(a.leaf)
    BY <1>2, <2>1, <2>2 DEF Settled
  <2>4. QED
    BY <2>1, <2>3 DEF SettledBetweenAttempts
<1>5. settling'.occ \notin Leaf /\ answering'.occ \notin Leaf
  <2>1. answering.occ = NoOcc
    BY DEF SettleScope, VesselInv, CallsInProgress, NotAnswering
  <2>2. CASE settling' = NotSettling /\ UNCHANGED answering
    BY <2>1, <2>2, CallsName, ProgramTypes DEF Leaf
  <2>3. CASE ChildOutcome(Parent[x], scope', values') /\ Parent[x] # NoOcc
    <3>1. Parent[x] \in Occ /\ x \in ChildrenOf(Parent[x])
      BY <2>3, ProgramTypes DEF ChildrenOf
    <3>2. Parent[x] \notin Leaf /\ NoOcc \notin Leaf
      BY <3>1, Composition, ProgramTypes DEF Leaf
    <3>3. settling'.occ \in {Parent[x], NoOcc} /\ answering'.occ \in {Parent[x], NoOcc}
      BY <2>3, CallsName DEF ChildOutcome
    <3>4. QED
      BY <3>2, <3>3
  <2>4. QED
    BY <1>1, <2>2, <2>3 DEF SettleScope
<1>6. QED
  BY <1>4, <1>5 DEF SettledBetweenAttempts

\* An attempt begins in a leaf that has none in flight and is not settled.
LEMMA StartCancels ==
  ASSUME VesselInv, SettledBetweenAttempts, NEW l \in Leaf, ~InFlight(l), ~Settled(l), StartAttempt(l),
         settling = NotSettling, answering' = NotAnswering, scope' = scope
  PROVE  SettledBetweenAttempts'
<1>1. NoOcc \notin Leaf /\ NotAnswering.occ = NoOcc /\ NotSettling.occ = NoOcc
  BY CallsName, ProgramTypes DEF Leaf
<1>2. CASE \E outcome \in Outcomes[l] : Invoke(l, outcome)
  <2>1. /\ inflight' = inflight \cup {[leaf |-> l, no |-> attempts[l] + 1, cancelled |-> FALSE]}
        /\ settling' = settling
    BY <1>2 DEF Invoke
  <2>2. \A a \in inflight' : Settled(a.leaf)' => a.cancelled
    BY <2>1 DEF SettledBetweenAttempts, Settled
  <2>3. QED
    BY <1>1, <2>1, <2>2 DEF SettledBetweenAttempts
<1>3. CASE Settle(l, "Failed", "unresolved") /\ UNCHANGED inflight
  <2>1. Idle(settling') /\ Idle(answering')
    BY <1>1, <1>3, CallsName DEF Idle
  <2>2. QED
    BY <1>3, <2>1, IdleCalls DEF Settled
<1>4. QED
  BY <1>2, <1>3 DEF StartAttempt

\* What comes of an attempt is settled when it is no longer in flight, and a
\* timer that fires does not end its leaf.
LEMMA DeliverCancels ==
  ASSUME LeavesRunOn, VesselInv, SettledBetweenAttempts, Quiet, Deliver
  PROVE  SettledBetweenAttempts'
<1>1. timeline \in Seq(Item) /\ timeline # <<>>
  BY DEF Deliver, VesselInv, WorkTypes
<1>2. PICK item \in Item : item = Head(timeline)
  BY <1>1
<1>3. scope' = scope /\ settling.occ \notin Leaf /\ answering.occ \notin Leaf /\ NoOcc \notin Leaf
  BY CallsName, ProgramTypes DEF Deliver, Quiet, Leaf
<1>4. CASE item.kind = "completion"
  <2>1. DeliverCompletion(item)
    BY <1>2, <1>4 DEF Deliver
  <2>2. PICK b \in inflight : Completes(item, b) /\ inflight' = inflight \ {b}
    BY <1>1, <1>2, <1>4, <2>1, DeliveredAttempt
  <2>3. ~InFlight(item.occ)'
    BY <2>2 DEF InFlight, Completes, VesselInv, AttemptAccounting
  <2>4. settling'.occ \in {item.occ, NoOcc, settling.occ} /\ answering'.occ \in {item.occ, NoOcc, answering.occ}
    BY <2>1, CallsName DEF DeliverCompletion, AttemptOutcome
  <2>5. \A a \in inflight' : Settled(a.leaf)' => a.cancelled
    BY <1>3, <2>2 DEF SettledBetweenAttempts, Settled
  <2>6. QED
    BY <1>3, <2>3, <2>4, <2>5 DEF SettledBetweenAttempts
<1>5. CASE item.kind # "completion"
  <2>1. UNCHANGED <<settling, inflight>>
    BY <1>2, <1>5 DEF Deliver, DeliverTimer
  <2>2. CASE UNCHANGED answering
    BY <1>3, <2>1, <2>2, IdleCalls DEF Idle, Settled
  <2>3. CASE Silent(item.occ, "TimerFired")
    BY <1>3, <2>1, <2>3, IdleCalls, CallsName DEF Idle, Settled, Silent
  <2>4. CASE Consult(item.occ, "TimerFired", "none", "unresolved")
    <3>1. PICK acts \in Interp[item.occ]["TimerFired"] :
            answering' = [occ |-> item.occ, event |-> "TimerFired", acts |-> acts, st |-> "none", out |-> "unresolved"]
      BY <2>4 DEF Consult
    <3>2. /\ answering'.occ = item.occ /\ answering'.event = "TimerFired" /\ answering'.acts = acts
          /\ item.occ \in Leaf => \A i \in DOMAIN acts : acts[i].kind \notin {"CancelScope", "FailScope", "unknown"}
      BY <3>1 DEF LeavesRunOn
    <3>3. QED
      BY <1>3, <2>1, <3>2 DEF SettledBetweenAttempts, Settled
  <2>5. QED
    BY <1>2, <1>5, <2>2, <2>3, <2>4 DEF Deliver, DeliverTimer, Notify
<1>6. QED
  BY <1>4, <1>5

\* Whatever else a step does, it settles no leaf that is being attempted.
LEMMA SettledBetweenAttemptsStep ==
  ASSUME LeavesRunOn, VesselInv, RunInv, RefuseInv, ProgressInv, DeferredHaveFailed, SettledBetweenAttempts,
         [VesselNext]_vesselVars
  PROVE  SettledBetweenAttempts'
<1>1. NoOcc \notin Leaf /\ Leaf \subseteq Occ /\ Leaf \cap Deducible = {} /\ deferred \cap Leaf = {}
  BY ProgramTypes DEF Leaf, Deducible, DeferredHaveFailed
<1>2. Quiet => settling.occ = NoOcc /\ answering.occ = NoOcc
  BY CallsName DEF Quiet
<1>3. settling = NotSettling => settling.occ = NoOcc
  BY CallsName
<1>4. CASE settling = NotSettling /\ ApplyAction
  <2>1. UNCHANGED <<scope, inflight>>
    BY <1>4 DEF ApplyAction
  <2>2. PICK act : act = Head(answering.acts)
    OBVIOUS
  <2>3. answering.acts \in Seq(Action) /\ answering.acts # <<>>
    BY <1>4 DEF ApplyAction, VesselInv, CallTypes
  <2>4. 1 \in DOMAIN answering.acts /\ act = answering.acts[1]
    BY <2>2, <2>3
  <2>5. CASE /\ Settled(answering.occ) \/ Ends(answering.occ, act)
             /\ Settle(answering.occ, IF act.kind = "CancelScope" THEN "Cancelled" ELSE "Failed", "unresolved")
             /\ answering' = NotAnswering
    <3>1. Idle(answering')
      BY <1>1, <2>5, CallsName DEF Idle
    <3>2. CASE Settled(answering.occ)
      <4>1. settling' = NotSettling
        BY <2>5, <3>2 DEF Settle
      <4>2. QED
        BY <1>1, <2>1, <3>1, <4>1, IdleCalls, CallsName DEF Idle, Settled
    <3>3. CASE Ends(answering.occ, act)
      <4>1. answering.occ \in Leaf => ~InFlight(answering.occ)
        BY <2>4, <3>3 DEF Ends, SettledBetweenAttempts
      <4>2. Idle(settling')
        BY <1>1, <2>5, <4>1, CallsName DEF Idle
      <4>3. QED
        BY <2>1, <3>1, <4>2, IdleCalls DEF Settled
    <3>4. QED
      BY <2>5, <3>2, <3>3
  <2>6. CASE answering' = [answering EXCEPT !.acts = Tail(@)] /\ UNCHANGED settling
    <3>1. answering'.occ = answering.occ /\ answering'.event = answering.event /\ answering'.acts = Tail(answering.acts)
      BY <2>6 DEF VesselInv, CallTypes
    <3>2. \A i \in DOMAIN Tail(answering.acts) :
            i + 1 \in DOMAIN answering.acts /\ Tail(answering.acts)[i] = answering.acts[i + 1]
      BY <2>3
    <3>3. QED
      BY <1>1, <1>3, <1>4, <2>1, <2>6, <3>1, <3>2 DEF SettledBetweenAttempts, Settled, InFlight
  <2>7. QED
    BY <1>4, <2>2, <2>5, <2>6 DEF ApplyAction
<1>5. CASE settling = NotSettling /\ Answered
  <2>1. scope' = scope
    BY <1>5 DEF Answered
  <2>2. CASE answering.event = "BeforeAttempt" /\ StartAttempt(answering.occ) /\ answering' = NotAnswering
    <3>1. answering.occ \in Leaf /\ ~InFlight(answering.occ) /\ ~Settled(answering.occ)
      BY <2>2 DEF VesselInv, CallsInProgress, MayStart, RunInv, OutcomeInv, CallsAreEarned
    <3>2. QED
      BY <1>5, <2>1, <2>2, <3>1, StartCancels
  <2>3. CASE /\ answering.event = "ChildScopeOutcome" /\ UNCHANGED inflight
             /\ Propose(EvaluateParent(answering.occ, scope, values))
    <3>1. answering.occ \notin Leaf
      BY <2>3, Composition DEF VesselInv, CallsInProgress
    <3>2. Idle(settling') /\ Idle(answering')
      BY <1>1, <2>3, <3>1, CallsName DEF Idle
    <3>3. QED
      BY <2>1, <2>3, <3>2, IdleCalls DEF Settled
  <2>4. CASE /\ answering.event \in {"AttemptOutcome", "ScopeOutcomeProposed"} /\ UNCHANGED inflight
             /\ Settle(answering.occ, answering.st, answering.out) /\ answering' = NotAnswering
    <3>1. Idle(settling') /\ Idle(answering')
      BY <1>1, <2>4, CallsName DEF Idle, SettledBetweenAttempts
    <3>2. QED
      BY <2>1, <2>4, <3>1, IdleCalls DEF Settled
  <2>5. CASE answering' = NotAnswering /\ UNCHANGED <<settling, inflight>>
    <3>1. Idle(settling') /\ Idle(answering')
      BY <1>1, <1>3, <1>5, <2>5, CallsName DEF Idle
    <3>2. QED
      BY <2>1, <2>5, <3>1, IdleCalls DEF Settled
  <2>6. QED
    BY <1>5, <2>2, <2>3, <2>4, <2>5 DEF Answered
<1>6. CASE Quiet /\ Handle
  <2>1. PICK e \in Events :
          /\ 1 \in DOMAIN events /\ e = events[1] /\ e.occ \in Exposed
          /\ \/ e.kind = "exposed" /\ HandleExposed(e.occ)
             \/ e.kind = "committed" /\ HandleCommitted(e.occ)
             \/ e.kind = "failed" /\ HandleFailed(e.occ, e.cause)
          /\ ScopesOpen
    BY <1>6, HandlesHead DEF RunInv
  <2>2. \A l \in Leaf : Settled(l)' => Settled(l)
    BY <1>1, <2>1 DEF ScopesOpen, Settled
  <2>3. e.occ \in Leaf => Settled(e.occ) \/ ~InFlight(e.occ)
    <3>1. e.occ \in Leaf => e.kind = "exposed"
      BY <1>1, <2>1 DEF ProgressInv, ScopesFollowDeduction, EventsTellStates
    <3>2. e.kind = "exposed" => scope[e.occ] = "none" \/ Settled(e.occ)
      BY <2>1 DEF RefuseInv, EventsInOrder, Settled
    <3>3. e.occ \in Leaf /\ scope[e.occ] = "none" => ~(attempts[e.occ] > 0)
      BY DEF RefuseInv, RefusalsHold
    <3>4. e.occ \in Leaf /\ InFlight(e.occ) => attempts[e.occ] > 0
      BY RunTypes DEF InFlight, VesselInv, AttemptAccounting, WorkTypes
    <3>5. QED
      BY <3>1, <3>2, <3>3, <3>4
  <2>4. settling'.occ \in {e.occ, NoOcc} /\ answering'.occ \in {e.occ, NoOcc}
    BY <1>2, <1>6, <2>1, CallsName DEF HandleExposed, HandleCommitted, HandleFailed, Refuse, Attach
  <2>5. Settled(e.occ) => settling'.occ = NoOcc /\ answering'.occ = NoOcc
    BY <1>2, <1>6, <2>1, CallsName DEF HandleExposed, HandleCommitted, HandleFailed, Settle
  <2>6. Idle(settling') /\ Idle(answering')
    BY <1>1, <2>3, <2>4, <2>5 DEF Idle
  <2>7. QED
    BY <1>6, <2>2, <2>6, IdleCalls DEF Handle, hostVars
<1>7. CASE Quiet /\ Dispatch
  <2>1. PICK l \in Leaf :
          /\ MayStart(l) /\ scope[l] = "Open"
          /\ BeforeAttempt(l) \/ \E ticks \in Withhold : WithholdDispatch(l, ticks)
    BY <1>7, DispatchPicks
  <2>2. scope' = scope /\ ~InFlight(l) /\ ~Settled(l)
    BY <1>7, <2>1 DEF Dispatch, MayStart, Settled, Terminal
  <2>3. CASE Silent(l, "BeforeAttempt") /\ StartAttempt(l)
    BY <1>7, <2>2, <2>3, StartCancels DEF Silent, Quiet
  <2>4. CASE Consult(l, "BeforeAttempt", "none", "unresolved") /\ UNCHANGED <<inflight, settling>>
    <3>1. Idle(settling') /\ Idle(answering')
      BY <1>1, <1>2, <1>7, <2>2, <2>4, CallsName DEF Idle
    <3>2. QED
      BY <2>2, <2>4, <3>1, IdleCalls DEF Settled
  <2>5. CASE UNCHANGED <<inflight, settling, answering>>
    <3>1. Idle(settling')
      BY <1>1, <1>2, <1>7, <2>5 DEF Idle
    <3>2. QED
      BY <2>2, <2>5, <3>1, IdleCalls DEF Settled
  <2>6. QED
    BY <2>1, <2>3, <2>4, <2>5 DEF BeforeAttempt, WithholdDispatch
<1>8. CASE Quiet /\ SurfaceFailure
  <2>1. First(ReadyFailures) \in ReadyFailures
    BY <1>8, FirstInSet DEF VesselInv, Inv, CarouselTypeOK, ReadyFailures, SurfaceFailure
  <2>2. First(ReadyFailures) \notin Leaf
    BY <1>1, <2>1 DEF ReadyFailures, Surfaceable
  <2>3. Idle(settling') /\ UNCHANGED <<scope, inflight, answering>>
    BY <1>1, <1>8, <2>2, CallsName DEF SurfaceFailure, Idle, hostVars
  <2>4. QED
    BY <2>3, IdleCalls DEF Settled
<1>9. CASE Quiet /\ CallIn
  <2>1. UNCHANGED <<scope, inflight, answering>>
    BY <1>9 DEF CallIn, RunDemand, CancelScope, RunSetPrefetch, RivalConsume, Advance, outcomeVars, hostVars
  <2>2. CASE UNCHANGED settling
    BY <1>1, <1>2, <1>9, <2>1, <2>2, IdleCalls DEF Idle, Settled
  <2>3. ASSUME NEW o, NEW st, Settle(o, st, "unresolved"), o \notin Leaf
        PROVE  Idle(settling')
    BY <1>1, <2>3, CallsName DEF Idle
  <2>4. \A o : Surfaceable(o) => o \notin Leaf
    BY <1>1 DEF Surfaceable
  <2>5. Root \notin Leaf
    BY ProgramTypes DEF Leaf
  <2>6. UNCHANGED settling \/ Idle(settling')
    BY <1>9, <2>3, <2>4, <2>5
       DEF CallIn, RunDemand, CancelScope, RunSetPrefetch, RivalConsume, Advance, outcomeVars, LeavesRunOn
  <2>7. QED
    BY <2>1, <2>2, <2>6, IdleCalls DEF Settled
<1>10. CASE Quiet /\ (SchedulerDemand \/ Deduction \/ Pumped \/ Dispatched \/ Stuck \/ Step)
  <2>1. UNCHANGED <<scope, inflight, settling, answering>>
    BY <1>10 DEF SchedulerDemand, Deduction, Pumped, Dispatched, Stuck, Step, outcomeVars, hostVars
  <2>2. Idle(settling')
    BY <1>1, <1>2, <1>10, <2>1 DEF Idle
  <2>3. QED
    BY <2>1, <2>2, IdleCalls DEF Settled
<1>11. CASE UNCHANGED vesselVars
  BY <1>11 DEF vesselVars, outcomeVars, hostVars, SettledBetweenAttempts, Settled, InFlight
<1>12. QED
  BY <1>4, <1>5, <1>6, <1>7, <1>8, <1>9, <1>10, <1>11, SettleCancels, DeliverCancels DEF VesselNext, Inner, Routine

\* runtime.go:282, that the attempts of a settled scope are cancelled, is true
\* of every run in which leaves are not settled from outside; a caller's
\* CancelScope, or a policy that ends the scope of its timer, is what breaks it.
THEOREM SettledAttemptsStop ==
  ASSUME LeavesRunOn
  PROVE  VesselSpec => []SettledAttemptsAreCancelled
<1>1. VesselInit => SettledBetweenAttempts
  <2> SUFFICES ASSUME VesselInit
               PROVE  SettledBetweenAttempts
    OBVIOUS
  <2>1. inflight = {}
    BY DEF VesselInit
  <2>2. QED
    BY <2>1 DEF SettledBetweenAttempts, InFlight
<1>2. /\ VesselInv /\ RunInv /\ RefuseInv /\ ProgressInv /\ DeferredHaveFailed /\ SettledBetweenAttempts
      /\ [VesselNext]_vesselVars
      => SettledBetweenAttempts'
  BY SettledBetweenAttemptsStep
<1>3. SettledBetweenAttempts => SettledAttemptsAreCancelled
  BY DEF SettledBetweenAttempts, SettledAttemptsAreCancelled
<1>4. QED
  BY <1>1, <1>2, <1>3, DeferredInvariance, ProgressInvariance, RefuseInvariance, OutcomeInvariance,
     VesselInvariance, PTL DEF VesselSpec
=============================================================================
