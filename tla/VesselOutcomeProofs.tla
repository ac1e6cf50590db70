------------------------- MODULE VesselOutcomeProofs -------------------------
(***************************************************************************)
(* Further proofs about Vessel.tla: that time advances only when nothing   *)
(* else can be done, that nothing goes on under a scope that has its       *)
(* outcome, and that outcomes follow the tree of scopes up to the result   *)
(* of the run; from the steps that disclose, begin and settle, that a run  *)
(* implements Voyage.tla.                                                  *)
(***************************************************************************)
EXTENDS VesselProofs

USE DEF OccurrenceTypes, RegisteredOnce, LeadUp, Composed, InSeries, Dependent

-----------------------------------------------------------------------------
(* The reactor is stable before time advances.                             *)

\* What stabilize leaves behind, dispatch apart.
Stable ==
  /\ ReadyWork = {} /\ ReadyFailures = {} /\ Servable = {}
  /\ Cardinality(window) >= prefetch \/ Candidates = {}

\* What a pass in which nothing has moved yet has established so far.
NothingMoved ==
  /\ pc = "pump" /\ ~moved /\ events = <<>> =>
       /\ Quiet /\ ReadyWork = {} /\ ReadyFailures = {}
       /\ pass = "prefetch" => Servable = {}
       /\ pass = "idle" => Stable
  /\ pc = "dispatch" /\ ~moved => Quiet /\ Stable
  /\ pc = "deliver" => Quiet /\ Stable /\ Dispatchable = {}

\* What the Scheduler and the engine could do next depends on these only.
LEMMA SameWork ==
  ASSUME UNCHANGED <<order, state, demanded, values, deferred, scope>>
  PROVE  /\ UNCHANGED <<ReadyWork, ReadyFailures, Servable, Candidates>>
         /\ UNCHANGED Exposed
         /\ \A o \in Occ : StructurallyReady(o)' = StructurallyReady(o)
<1>1. Exposed' = Exposed
  BY DEF Exposed
<1>2. \A o : StructurallyReady(o)' = StructurallyReady(o)
  BY DEF StructurallyReady, Settled
<1>3. \A o : Blocked(o)' = Blocked(o)
  BY DEF Blocked
<1>4. ReadyWork' = ReadyWork /\ ReadyFailures' = ReadyFailures
  BY <1>1, <1>2 DEF ReadyWork, ReadyFailures, Accepts, Surfaceable, Settled
<1>5. Servable' = Servable /\ Candidates' = Candidates
  BY <1>1, <1>3 DEF Servable, Candidates
<1>6. QED
  BY <1>1, <1>2, <1>4, <1>5

\* A pass in which something moved, a deduction, an event, an attempt or a
\* surfaced failure, is followed by another one.
LEMMA NothingMovedStep == VesselInv /\ NothingMoved /\ [VesselNext]_vesselVars => NothingMoved'
<1> SUFFICES ASSUME VesselInv, NothingMoved, [VesselNext]_vesselVars
             PROVE  NothingMoved'
  OBVIOUS
<1>1. CASE Inner
  <2>1. UNCHANGED <<events, controlVars>>
    BY <1>1 DEF Inner, SettleScope, ApplyAction, Answered, StartAttempt, vars, carouselVars
  <2>2. ~Quiet
    BY <1>1 DEF Inner, SettleScope, ApplyAction, Answered, Quiet, NotAnswering
  <2>3. QED
    BY <2>1, <2>2 DEF NothingMoved, controlVars
<1>2. CASE Quiet /\ SchedulerDemand
  <2>1. pc' = "pump" /\ pass' = "demand" /\ ReadyFailures = {} /\ UNCHANGED <<settling, answering>>
        /\ UNCHANGED <<order, state, values, deferred, scope>>
    BY <1>2 DEF SchedulerDemand, schedulerVars, outcomeVars
  <2>2. CASE moved'
    BY <2>1, <2>2 DEF NothingMoved
  <2>3. CASE ~moved'
    <3>1. ReadyWork = {} /\ demanded' = demanded
      BY <1>2, <2>3 DEF SchedulerDemand
    <3>2. ReadyWork' = {} /\ ReadyFailures' = {}
      BY <2>1, <3>1, SameWork
    <3>3. QED
      BY <1>2, <2>1, <3>2 DEF NothingMoved, Quiet
  <2>4. QED
    BY <2>2, <2>3
<1>3. CASE Quiet /\ Deduction
  <2>1. /\ pc = "pump" /\ pc' = "pump" /\ moved' = moved
        /\ UNCHANGED <<deferred, scope, settling, answering>>
    BY <1>3 DEF Deduction, controlVars, schedulerVars, outcomeVars
  <2>2. CASE ServeDemand \/ Speculate
    <3>1. PICK o \in Deducible, cause \in {"demand", "prefetch"} : Deduce(o, cause)
      BY <2>2, Picks DEF ServeDemand, Speculate, VesselInv
    <3>2. events' # <<>>
      <4>1. CASE DeduceFails(o, cause)
        <5>1. events \in Seq(Events) /\ Event("failed", o, cause) \in Events
          BY DEF VesselInv, Inv, CarouselTypeOK, Event, Events, Deducible
        <5>2. QED
          BY <4>1, <5>1 DEF DeduceFails
      <4>2. CASE DeduceCommits(o, cause)
        BY <4>2, CommitEvents DEF DeduceCommits, VesselInv
      <4>3. QED
        BY <3>1, <4>1, <4>2 DEF Deduce
    <3>3. QED
      BY <2>1, <3>2 DEF NothingMoved
  <2>3. CASE DemandServed
    <3>1. /\ pass' = "prefetch" /\ Servable = {}
          /\ UNCHANGED <<order, state, demanded, values, events>>
      BY <2>3 DEF DemandServed
    <3>2. UNCHANGED <<ReadyWork, ReadyFailures, Servable>>
      BY <2>1, <3>1, SameWork
    <3>3. QED
      BY <2>1, <3>1, <3>2 DEF NothingMoved, Quiet
  <2>4. CASE EndReplenish
    <3>1. /\ pass = "prefetch" /\ pass' = "idle"
          /\ Cardinality(window) >= prefetch \/ Candidates = {}
          /\ UNCHANGED <<order, state, demanded, values, events, window, prefetch>>
      BY <2>4 DEF EndReplenish, touchdownVars
    <3>2. UNCHANGED <<ReadyWork, ReadyFailures, Servable, Candidates>>
      BY <2>1, <3>1, SameWork
    <3>3. QED
      BY <2>1, <3>1, <3>2 DEF NothingMoved, Quiet, Stable
  <2>5. QED
    BY <1>3, <2>2, <2>3, <2>4 DEF Deduction, Replenish
<1>4. CASE Quiet /\ (Pumped \/ Dispatched)
  <2>1. /\ UNCHANGED <<order, state, demanded, values, deferred, scope, window, prefetch>>
        /\ UNCHANGED <<settling, answering, inflight, notBefore, now>>
    BY <1>4 DEF Pumped, Dispatched, vars, carouselVars, touchdownVars, schedulerVars, hostVars, outcomeVars
  <2>2. /\ UNCHANGED <<ReadyWork, ReadyFailures, Servable, Candidates>>
        /\ UNCHANGED Exposed
        /\ \A o \in Occ : StructurallyReady(o)' = StructurallyReady(o)
    BY <2>1, SameWork
  <2>3. Quiet' = Quiet /\ Stable' = Stable
    BY <2>1, <2>2 DEF Quiet, Stable
  <2>4. Dispatchable' = Dispatchable
    <3>1. Eligible' = Eligible
      <4>1. \A l \in Leaf : l \in Occ /\ InFlight(l)' = InFlight(l)
        BY <2>1 DEF InFlight, Leaf
      <4>2. QED
        BY <2>1, <2>2, <4>1 DEF Eligible
    <3>2. QED
      BY <2>1, <3>1 DEF Dispatchable
  <2>5. CASE Pumped
    <3>1. pc' \in {"idle", "sched", "dispatch"} /\ (pc' = "dispatch" => ~moved)
      BY <2>5 DEF Pumped
    <3>2. ~moved => Stable
      BY <2>5 DEF Pumped, NothingMoved
    <3>3. QED
      BY <1>4, <2>3, <3>1, <3>2 DEF NothingMoved
  <2>6. CASE Dispatched
    <3>1. /\ pc = "dispatch" /\ pc' \in {"idle", "sched", "deliver"}
          /\ pc' = "deliver" => ~moved /\ Dispatchable = {}
      BY <2>6 DEF Dispatched, VesselInv, Bookkeeping
    <3>2. QED
      BY <1>4, <2>3, <2>4, <3>1 DEF NothingMoved
  <2>7. QED
    BY <1>4, <2>5, <2>6
<1>5. CASE Quiet /\ (Handle \/ Dispatch)
  <2>1. moved' = TRUE /\ pc' \in {"pump", "dispatch"}
    BY <1>5 DEF Handle, Dispatch
  <2>2. QED
    BY <2>1 DEF NothingMoved
<1>6. CASE Quiet /\ (SurfaceFailure \/ Deliver \/ Stuck \/ Step \/ CallIn)
  <2>1. pc' \in {"idle", "sched"}
    BY <1>6 DEF SurfaceFailure, Deliver, Stuck, Step, Stabilize, CallIn, RunDemand, CancelScope,
                RunSetPrefetch, RivalConsume, Advance, controlVars
  <2>2. QED
    BY <2>1 DEF NothingMoved
<1>7. CASE UNCHANGED vesselVars
  <2>1. UNCHANGED <<vars, schedulerVars, hostVars, controlVars, outcomeVars>>
    BY <1>7 DEF vesselVars
  <2>2. /\ UNCHANGED <<order, state, demanded, values, deferred, scope, window, prefetch>>
        /\ UNCHANGED <<settling, answering, inflight, notBefore, now, pc, moved, events, pass>>
    BY <2>1 DEF vars, carouselVars, touchdownVars, schedulerVars, hostVars, outcomeVars, controlVars
  <2>3. UNCHANGED <<ReadyWork, ReadyFailures, Servable, Candidates, Exposed>>
        /\ \A o \in Occ : StructurallyReady(o)' = StructurallyReady(o)
    BY <2>2, SameWork
  <2>4. Dispatchable' = Dispatchable
    <3>1. Eligible' = Eligible
      <4>1. \A l \in Leaf : l \in Occ /\ InFlight(l)' = InFlight(l)
        BY <2>2 DEF InFlight, Leaf
      <4>2. QED
        BY <2>2, <2>3, <4>1 DEF Eligible
    <3>2. QED
      BY <2>2, <3>1 DEF Dispatchable
  <2>5. QED
    BY <2>2, <2>3, <2>4 DEF NothingMoved, Quiet, Stable
<1>8. QED
  BY <1>1, <1>2, <1>3, <1>4, <1>5, <1>6, <1>7 DEF VesselNext, Routine

\* NothingMoved holds in every state of every run.
LEMMA NothingMovedInvariance == VesselSpec => []NothingMoved
<1>1. VesselInit => NothingMoved
  BY DEF VesselInit, NothingMoved
<1>2. QED
  BY <1>1, NothingMovedStep, VesselInvariance, PTL DEF VesselSpec

\* Before an item of the timeline is delivered there is no demand left to
\* issue or serve, no failure to surface, no leaf to dispatch, and the window
\* is filled or speculation exhausted (runtime.go's stabilize).
THEOREM TimeWaitsForWork == VesselSpec => []StableBeforeTime
<1>1. NothingMoved => StableBeforeTime
  BY DEF NothingMoved, Stable, StableBeforeTime
<1>2. QED
  BY <1>1, NothingMovedInvariance, PTL

-----------------------------------------------------------------------------
(* The tree of occurrences.                                                *)

\* Parents are occurrences, and ancestors are the parent and its ancestors.
LEMMA AncestorsUnfold ==
  /\ Parent[Root] = NoOcc /\ Ancestors[Root] = {}
  /\ \A o \in Occ : Parent[o] # NoOcc =>
       /\ Parent[o] \in Occ /\ o # Root
       /\ Ancestors[o] = {Parent[o]} \cup Ancestors[Parent[o]]
       /\ Parent[o] \notin Ancestors[Parent[o]]
  /\ \A o \in Occ : o # Root => Parent[o] # NoOcc
  /\ \A o \in Occ : Ancestors[o] \subseteq Occ
BY ProgramTypes, Structure

\* A set of occurrences, however defined, has one whose parent is not in it:
\* the principle of induction along the tree.
LEMMA TopOccurrence ==
  ASSUME NEW T, T \subseteq Occ, T # {}
  PROVE  \E q \in T : Parent[q] \notin T
BY ParentsLeadUp

\* An ancestor's ancestors are ancestors.
LEMMA AncestorsTransitive ==
  \A q \in Occ : \A r \in Ancestors[q] : Ancestors[r] \subseteq Ancestors[q]
<1> DEFINE T == {q \in Occ : \E r \in Ancestors[q] : ~(Ancestors[r] \subseteq Ancestors[q])}
<1>1. ASSUME T # {}
      PROVE  FALSE
  <2>1. PICK q \in T : Parent[q] \notin T
    BY <1>1, TopOccurrence
  <2>2. PICK r \in Ancestors[q] : ~(Ancestors[r] \subseteq Ancestors[q])
    OBVIOUS
  <2>3. q \in Occ /\ Parent[q] \in Occ /\ Ancestors[q] = {Parent[q]} \cup Ancestors[Parent[q]]
    BY <2>2, AncestorsUnfold
  <2>4. CASE r = Parent[q]
    BY <2>2, <2>3, <2>4
  <2>5. CASE r \in Ancestors[Parent[q]]
    BY <2>1, <2>2, <2>3, <2>5
  <2>6. QED
    BY <2>3, <2>4, <2>5
<1>2. QED
  BY <1>1

\* Whatever is under x is a child of x or under one.
LEMMA ThroughAChild ==
  ASSUME NEW x \in Occ, NEW q \in Occ, x \in Ancestors[q]
  PROVE  \E c \in ChildrenOf(x) : c = q \/ c \in Ancestors[q]
<1> DEFINE P(r) == x \in Ancestors[r] /\ ~\E c \in ChildrenOf(x) : c = r \/ c \in Ancestors[r]
           T == {r \in Occ : P(r)}
<1>1. ASSUME T # {}
      PROVE  FALSE
  <2>1. PICK r \in T : Parent[r] \notin T
    BY <1>1, TopOccurrence
  <2>2. r \in Occ /\ Parent[r] \in Occ /\ Ancestors[r] = {Parent[r]} \cup Ancestors[Parent[r]]
    BY AncestorsUnfold
  <2>3. CASE x = Parent[r]
    BY <2>2, <2>3 DEF ChildrenOf
  <2>4. CASE x \in Ancestors[Parent[r]]
    <3>1. PICK c \in ChildrenOf(x) : c = Parent[r] \/ c \in Ancestors[Parent[r]]
      BY <2>1, <2>2, <2>4
    <3>2. QED
      BY <2>2, <3>1
  <2>5. QED
    BY <2>2, <2>3, <2>4
<1>2. QED
  BY <1>1

\* Every occurrence but the Root is staged by one deduction.
LEMMA StagedBySomeone ==
  \A q \in Occ : q # Root => \E o \in Deducible : q \in StagedSet(o)
<1> DEFINE T == {q \in Occ : q # Root /\ ~\E o \in Deducible : q \in StagedSet(o)}
<1>1. ASSUME T # {}
      PROVE  FALSE
  <2>1. PICK q \in T : Parent[q] \notin T
    BY <1>1, TopOccurrence
  <2>2. q \in Occ /\ Parent[q] \in Occ
    BY AncestorsUnfold
  <2>3. CASE Parent[q] \in Deducible
    BY <2>2, <2>3, Composition
  <2>4. CASE Parent[q] \notin Deducible
    <3>1. Parent[q] # Root
      BY <2>4, ProgramTypes DEF Deducible
    <3>2. PICK o \in Deducible : Parent[q] \in StagedSet(o)
      BY <2>1, <2>2, <3>1
    <3>3. q \in StagedSet(o)
      BY <2>2, <2>4, <3>2, Composition
    <3>4. QED
      BY <3>3
  <2>5. QED
    BY <2>3, <2>4
<1>2. QED
  BY <1>1

\* What a deduction stages is under its occurrence, with nothing in between
\* that another deduction stages.
LEMMA StagedBelow ==
  ASSUME NEW o \in Deducible
  PROVE  \A q \in StagedSet(o) :
           /\ q \in Occ /\ Parent[q] \in {o} \cup (StagedSet(o) \ Deducible)
           /\ o \in Ancestors[q]
           /\ Ancestors[q] \subseteq {o} \cup StagedSet(o) \cup Ancestors[o]
<1>1. o \in Occ /\ NoOcc \notin Occ
  BY ProgramTypes DEF Deducible
<1>2. \A q \in StagedSet(o) : q \in Occ /\ Parent[q] \in {o} \cup (StagedSet(o) \ Deducible)
  BY Composition
<1> DEFINE P(q) == o \in Ancestors[q] /\ Ancestors[q] \subseteq {o} \cup StagedSet(o) \cup Ancestors[o]
           T == {q \in StagedSet(o) : ~P(q)}
<1>3. ASSUME T # {}
      PROVE  FALSE
  <2>1. T \subseteq Occ
    BY <1>2
  <2>2. PICK q \in T : Parent[q] \notin T
    BY <1>3, <2>1, TopOccurrence
  <2>3. Parent[q] \in Occ /\ Ancestors[q] = {Parent[q]} \cup Ancestors[Parent[q]]
    BY <1>1, <1>2, AncestorsUnfold
  <2>4. CASE Parent[q] = o
    BY <2>3, <2>4
  <2>5. CASE Parent[q] \in StagedSet(o)
    <3>1. P(Parent[q])
      BY <2>2, <2>5
    <3>2. QED
      BY <2>3, <2>5, <3>1
  <2>6. QED
    BY <1>2, <2>4, <2>5
<1>4. QED
  BY <1>2, <1>3

\* Exposure follows the tree: with an occurrence its parent is exposed, and
\* the parts of a composite, and the body of what was deduced.
LEMMA ExposureFollowsTree ==
  ASSUME Inv
  PROVE  /\ \A q \in Exposed : Parent[q] # NoOcc => Parent[q] \in Exposed
         /\ \A q \in Exposed : Ancestors[q] \subseteq Exposed
         /\ \A p \in Exposed \ Deducible : Children(p) = ChildrenOf(p)
         /\ \A p \in Deducible : state[p] = "committed" => Children(p) = ChildrenOf(p)
         /\ \A p \in Deducible : state[p] # "committed" => Children(p) = {}
         /\ Exposed \subseteq Occ
<1>1. Exposed \subseteq Occ
  BY DEF Inv, CarouselTypeOK, Exposed
<1>2. \A o \in Deducible : \A q \in StagedSet(o) : q \in Exposed <=> state[o] = "committed"
  BY DEF Inv, ExposureIsAtomic
<1>3. \A o \in Occ : o \in Exposed <=> state[o] # "unexposed"
  BY DEF Inv, ExposureIsAtomic
<1>4. \A q \in Exposed : q # Root => \E o \in Deducible : q \in StagedSet(o) /\ state[o] = "committed"
  BY <1>1, <1>2, StagedBySomeone
<1>5. \A q \in Exposed : Parent[q] # NoOcc => Parent[q] \in Exposed
  <2> SUFFICES ASSUME NEW q \in Exposed, Parent[q] # NoOcc
               PROVE  Parent[q] \in Exposed
    OBVIOUS
  <2>1. PICK o \in Deducible : q \in StagedSet(o) /\ state[o] = "committed"
    BY <1>1, <1>4, AncestorsUnfold
  <2>2. Parent[q] \in {o} \cup StagedSet(o)
    BY <2>1, StagedBelow
  <2>3. o \in Exposed
    BY <1>3, <2>1 DEF Deducible
  <2>4. QED
    BY <1>2, <2>1, <2>2, <2>3
<1>6. \A q \in Exposed : Ancestors[q] \subseteq Exposed
  <2> DEFINE T == {q \in Exposed : ~(Ancestors[q] \subseteq Exposed)}
  <2>1. ASSUME T # {}
        PROVE  FALSE
    <3>1. PICK q \in T : Parent[q] \notin T
      BY <1>1, <2>1, TopOccurrence
    <3>2. q \in Occ /\ q # Root
      BY <1>1, AncestorsUnfold
    <3>3. Parent[q] \in Exposed /\ Ancestors[q] = {Parent[q]} \cup Ancestors[Parent[q]]
      BY <1>5, <3>2, AncestorsUnfold
    <3>4. QED
      BY <3>1, <3>3
  <2>2. QED
    BY <2>1
<1>7. \A p \in Exposed \ Deducible : Children(p) = ChildrenOf(p)
  <2> SUFFICES ASSUME NEW p \in Exposed \ Deducible, NEW c \in ChildrenOf(p)
               PROVE  c \in Exposed
    BY <1>1 DEF Children, ChildrenOf
  <2>1. p # Root
    BY ProgramTypes DEF Deducible
  <2>2. PICK o \in Deducible : p \in StagedSet(o) /\ state[o] = "committed"
    BY <1>4, <2>1
  <2>3. c \in StagedSet(o)
    BY <2>2, Composition DEF ChildrenOf
  <2>4. QED
    BY <1>2, <2>2, <2>3
<1>8. \A p \in Deducible : \A c \in ChildrenOf(p) : c \in StagedSet(p)
  BY Composition DEF ChildrenOf
<1>9. /\ \A p \in Deducible : state[p] = "committed" => Children(p) = ChildrenOf(p)
      /\ \A p \in Deducible : state[p] # "committed" => Children(p) = {}
  BY <1>1, <1>2, <1>8 DEF Children, ChildrenOf
<1>10. QED
  BY <1>1, <1>5, <1>6, <1>7, <1>9

-----------------------------------------------------------------------------
(* Outcomes follow the tree: the inductive invariant.                      *)

\* Satisfaction is earned: a leaf's by an attempt that came back, a
\* composite's by all its children.
Earned(x) ==
  IF x \in Leaf THEN attempts[x] > 0 /\ ~InFlight(x)
  ELSE Children(x) # {} /\ \A c \in Children(x) : scope[c] = "Satisfied"

\* Nothing has an outcome, a call in progress or a timer before it is exposed.
NotBeforeExposure ==
  /\ \A o \in Occ \ Exposed : scope[o] = "none"
  /\ settling # NotSettling => settling.occ \in Exposed
  /\ answering # NotAnswering => answering.occ \in Exposed
  /\ \A i \in DOMAIN timeline : timeline[i].kind = "timer" => timeline[i].occ \in Exposed

\* What there is to deduce: Goals and inline arrows, never a leaf or a
\* composite.
OnlyDeducible == \A o \in Occ : state[o] = "undeduced" => o \in Deducible

\* SettledIsQuiet, but in the middle of a settle as well.
QuietUnderSettled ==
  \A o \in Exposed : Settled(o) =>
     /\ state[o] # "undeduced"
     /\ o \in Leaf => td[o] # "buffered"
     /\ \A q \in Under(o) : Settled(q)

\* What it takes to be satisfied stays so, and predecessors came first.
SatisfactionIsEarned ==
  \A o \in Occ : scope[o] = "Satisfied" =>
     /\ Earned(o)
     /\ \A q \in {o} \cup Ancestors[o] : \A d \in Deps[q] : scope[d] = "Satisfied"

\* What the call in progress will make of its scope: none withdraws it, and
\* none satisfies it unless it has earned that; nor is an attempt begun in a
\* scope that was settled meanwhile.
CallsAreEarned ==
  /\ settling.st \in {"none", "Satisfied", "Failed", "Cancelled"}
  /\ settling.st = "Satisfied" => Earned(settling.occ)
  /\ answering.event \in {"AttemptOutcome", "ScopeOutcomeProposed"} =>
       /\ answering.st \in {"Satisfied", "Failed", "Cancelled"}
       /\ answering.st = "Satisfied" => Earned(answering.occ)
  /\ answering.event = "BeforeAttempt" =>
       /\ result = "none"
       /\ \A q \in {answering.occ} \cup Ancestors[answering.occ] : ~Settled(q)

\* A scope waits for one of its children, and none of them went wrong.
Waits(p) ==
  Children(p) # {} =>
     /\ \A c \in Children(p) : scope[c] \notin Terminal \ {"Satisfied"}
     /\ \E c \in Children(p) : scope[c] # "Satisfied"

\* A call in progress decides about p.
Concluding(p) ==
  \/ settling.occ = p
  \/ answering.occ = p /\ answering.event \in {"ChildScopeOutcome", "ScopeOutcomeProposed"}

OpenScopesWait == \A p \in Exposed : Settled(p) \/ Concluding(p) \/ Waits(p)

\* The result is the Root's outcome, or that of a run that gave up.
ResultFollowsRoot ==
  /\ Settled(Root) => result # "none"
  /\ ending = "settled" =>
       <<scope[Root], result>> \in {<<"Satisfied", "Succeeded">>, <<"Failed", "Failed">>,
                                    <<"Cancelled", "Cancelled">>}
  /\ result = "Succeeded" => ending = "settled"
  /\ pc = "deliver" => result = "none"

OutcomeInv ==
  /\ NotBeforeExposure /\ OnlyDeducible
  /\ QuietUnderSettled
  /\ SatisfactionIsEarned
  /\ CallsAreEarned
  /\ OpenScopesWait
  /\ ResultFollowsRoot

\* Nothing but the exposed Root is there at Start.
LEMMA OutcomeInitInv == VesselInit => OutcomeInv
<1> SUFFICES ASSUME VesselInit
             PROVE  OutcomeInv
  OBVIOUS
<1> USE DEF VesselInit
<1>1. Exposed = {Root}
  <2>1. DOMAIN order = 1..1 /\ order[1] = Root
    OBVIOUS
  <2>2. QED
    BY <2>1 DEF Exposed
<1>2. DOMAIN timeline = {}
  <2>1. DOMAIN timeline = 1..0
    OBVIOUS
  <2>2. QED
    BY <2>1
<1>3. Root \in Occ /\ \A o \in Occ : scope[o] \in {"none", "Undeduced"}
  BY ProgramTypes
<1>4. \A o \in Occ : ~Settled(o) /\ scope[o] # "Satisfied"
  BY <1>3 DEF Settled, Terminal
<1>5. NotBeforeExposure /\ OnlyDeducible
  BY <1>1, <1>2, ProgramTypes DEF NotBeforeExposure, OnlyDeducible, Deducible
<1>6. QuietUnderSettled /\ SatisfactionIsEarned
  BY <1>1, <1>3, <1>4 DEF QuietUnderSettled, SatisfactionIsEarned
<1>7. CallsAreEarned
  BY DEF CallsAreEarned, NotSettling, NotAnswering
<1>8. OpenScopesWait
  <2>1. Children(Root) = {}
    BY <1>1, <1>3, AncestorsUnfold, ProgramTypes DEF Children
  <2>2. QED
    BY <1>1, <2>1 DEF OpenScopesWait, Waits
<1>9. ResultFollowsRoot
  BY <1>3, <1>4 DEF ResultFollowsRoot
<1>10. QED
  BY <1>5, <1>6, <1>7, <1>8, <1>9 DEF OutcomeInv

\* A scope is opened, or none changes.
ScopesOpen ==
  \A o \in Occ : scope'[o] = scope[o] \/ (o \in Exposed /\ ~Settled(o) /\ scope'[o] \notin Terminal)

\* No work appears: nothing becomes deducible, no Touchdown is published, and
\* no attempt is forgotten or begun for a satisfied leaf.
NoWorkAppears ==
  /\ \A o \in Occ : state'[o] = "undeduced" => state[o] = "undeduced"
  /\ \A l \in Leaf : td'[l] = "buffered" => td[l] = "buffered"
  /\ \A l \in Leaf : attempts[l] > 0 => attempts'[l] > 0
  /\ \A l \in Leaf : scope[l] = "Satisfied" /\ InFlight(l)' => InFlight(l)

\* Everything but settle and deduction: no outcome is set, nothing is exposed,
\* and the call in progress goes on with what it may go on with.
LEMMA OtherOutcomes ==
  ASSUME VesselInv, OutcomeInv, UNCHANGED order, ScopesOpen, NoWorkAppears,
         settling' # NotSettling => settling'.occ \in Exposed,
         answering' # NotAnswering => answering'.occ \in Exposed,
         \A i \in DOMAIN timeline' : timeline'[i].kind = "timer" => timeline'[i].occ \in Exposed,
         CallsAreEarned',
         \A p \in Exposed : Concluding(p) => Settled(p) \/ Concluding(p)' \/ Waits(p),
         ResultFollowsRoot'
  PROVE  OutcomeInv'
<1>1. Exposed' = Exposed /\ Exposed \subseteq Occ
  BY DEF Exposed, VesselInv, Inv, CarouselTypeOK
<1>2. \A o \in Occ : Settled(o)' <=> Settled(o)
  BY DEF ScopesOpen, Settled
<1>3. \A o \in Occ : /\ scope'[o] = "Satisfied" <=> scope[o] = "Satisfied"
                     /\ scope'[o] \in Terminal \/ scope[o] \in Terminal => scope'[o] = scope[o]
  BY DEF ScopesOpen, Settled, Terminal
<1>4. \A p : Under(p)' = Under(p) /\ Children(p)' = Children(p) /\ Children(p) \subseteq Occ
             /\ Under(p) \subseteq Occ
  BY <1>1 DEF Under, Children
<1>5. NotBeforeExposure' /\ OnlyDeducible'
  BY <1>1 DEF ScopesOpen, NoWorkAppears, OutcomeInv, NotBeforeExposure, OnlyDeducible
<1>6. QuietUnderSettled'
  BY <1>1, <1>2, <1>4 DEF NoWorkAppears, OutcomeInv, QuietUnderSettled
<1>7. \A o \in Occ : scope[o] = "Satisfied" /\ Earned(o) => Earned(o)'
  <2>1. ASSUME NEW l \in Leaf, scope[l] = "Satisfied", Earned(l)
        PROVE  Earned(l)'
    BY <2>1 DEF NoWorkAppears, Earned
  <2>2. ASSUME NEW p \in Occ \ Leaf, Earned(p)
        PROVE  Earned(p)'
    BY <1>3, <1>4, <2>2 DEF Earned
  <2>3. QED
    BY <2>1, <2>2
<1>8. SatisfactionIsEarned'
  <2>1. \A o \in Occ : \A q \in {o} \cup Ancestors[o] : Deps[q] \subseteq Occ
    BY RunTypes, ProgramTypes, AncestorsUnfold
  <2>2. QED
    BY <1>3, <1>7, <2>1 DEF OutcomeInv, SatisfactionIsEarned
<1>9. \A p \in Occ : Waits(p) => Waits(p)'
  BY <1>3, <1>4 DEF Waits, Terminal
<1>10. OpenScopesWait'
  BY <1>1, <1>2, <1>9 DEF OutcomeInv, OpenScopesWait
<1>11. QED
  BY <1>5, <1>6, <1>8, <1>10 DEF OutcomeInv

\* Between calls every open scope waits for its children.
LEMMA QuietScopesWait ==
  ASSUME OutcomeInv, Inv, Quiet
  PROVE  /\ \A p \in Exposed : Settled(p) \/ Waits(p)
         /\ \A p \in Exposed : ~Concluding(p)
<1>1. Exposed \subseteq Occ /\ NoOcc \notin Occ
  BY ProgramTypes DEF Inv, CarouselTypeOK, Exposed
<1>2. settling.occ = NoOcc /\ answering.occ = NoOcc
  BY DEF Quiet, NotSettling, NotAnswering
<1>3. \A p \in Exposed : ~Concluding(p)
  BY <1>1, <1>2 DEF Concluding
<1>4. QED
  BY <1>3 DEF OutcomeInv, OpenScopesWait

\* What the call in progress after a step is, for each way of making one.
LEMMA NoCallEarned ==
  ASSUME settling' = NotSettling, answering' = NotAnswering
  PROVE  CallsAreEarned'
BY DEF CallsAreEarned, NotSettling, NotAnswering

\* A call of settle that fails or cancels a scope, or satisfies one that has
\* earned it.
LEMMA SettleEarned ==
  ASSUME NEW o \in Exposed, NEW st \in {"Satisfied", "Failed", "Cancelled"}, NEW out,
         Settle(o, st, out), answering' = NotAnswering, st = "Satisfied" => Earned(o)'
  PROVE  CallsAreEarned' /\ (settling' # NotSettling => settling'.occ \in Exposed)
<1>1. CASE settling' = NotSettling
  BY <1>1, NoCallEarned
<1>2. CASE settling' = [occ |-> o, st |-> st, out |-> out]
  BY <1>2 DEF CallsAreEarned, NotAnswering
<1>3. QED
  BY <1>1, <1>2 DEF Settle

\* The policies of o are asked.
LEMMA ConsultEarned ==
  ASSUME NEW o \in Exposed, NEW event, NEW st, NEW out, Consult(o, event, st, out),
         settling' = NotSettling,
         event \in {"AttemptOutcome", "ScopeOutcomeProposed"} =>
           st \in {"Satisfied", "Failed", "Cancelled"} /\ (st = "Satisfied" => Earned(o)'),
         event = "BeforeAttempt" =>
           result' = "none" /\ \A q \in {o} \cup Ancestors[o] : ~Settled(q)'
  PROVE  CallsAreEarned' /\ answering'.occ = o /\ answering'.event = event
<1>1. PICK acts : answering' = [occ |-> o, event |-> event, acts |-> acts, st |-> st, out |-> out]
  BY DEF Consult
<1>2. QED
  BY <1>1 DEF CallsAreEarned, NotSettling

\* A step that neither sets an outcome nor the result keeps the two together.
LEMMA ResultStays ==
  ASSUME ResultFollowsRoot, ScopesOpen, UNCHANGED <<result, ending>>,
         pc' = "deliver" => result = "none"
  PROVE  ResultFollowsRoot'
<1>1. Root \in Occ
  BY ProgramTypes
<1>2. scope'[Root] \in Terminal \/ scope[Root] \in Terminal => scope'[Root] = scope[Root]
  BY <1>1 DEF ScopesOpen, Settled
<1>3. ending = "settled" => scope[Root] \in Terminal
  BY DEF ResultFollowsRoot, Terminal
<1>4. QED
  BY <1>2, <1>3 DEF ResultFollowsRoot, Settled

\* A step of the reactor's control, or of the engine, that exposes nothing.
LEMMA ControlOutcomes ==
  ASSUME VesselInv, OutcomeInv, Quiet, ResultFollowsRoot',
         UNCHANGED <<order, scope, settling, answering, timeline>>, NoWorkAppears
  PROVE  OutcomeInv'
<1>1. settling' = NotSettling /\ answering' = NotAnswering
  BY DEF Quiet
<1>2. CallsAreEarned'
  BY <1>1, NoCallEarned
<1>3. \A p \in Exposed : ~Concluding(p)
  BY QuietScopesWait DEF VesselInv
<1>4. ScopesOpen
  BY DEF ScopesOpen
<1>5. QED
  BY <1>1, <1>2, <1>3, <1>4, OtherOutcomes DEF OutcomeInv, NotBeforeExposure

\* Settle is called on an exposed scope, and nothing else happens.
LEMMA SettleCallOutcomes ==
  ASSUME VesselInv, OutcomeInv, Quiet, NEW o \in Exposed, NEW st \in {"Failed", "Cancelled"},
         Settle(o, st, "unresolved"), pc' = pc \/ pc' = "idle" \/ pc' = "sched",
         UNCHANGED <<order, scope, answering, timeline, attempts, inflight, state, td, result, ending>>
  PROVE  OutcomeInv'
<1>1. answering' = NotAnswering
  BY DEF Quiet
<1>2. CallsAreEarned' /\ (settling' # NotSettling => settling'.occ \in Exposed)
  BY <1>1, SettleEarned
<1>3. \A p \in Exposed : ~Concluding(p)
  BY QuietScopesWait DEF VesselInv
<1>4. ScopesOpen /\ NoWorkAppears
  BY DEF ScopesOpen, NoWorkAppears, InFlight
<1>5. ResultFollowsRoot'
  BY <1>4, ResultStays DEF OutcomeInv, ResultFollowsRoot
<1>6. QED
  BY <1>1, <1>2, <1>3, <1>4, <1>5, OtherOutcomes DEF OutcomeInv, NotBeforeExposure

-----------------------------------------------------------------------------
(* Outcomes: the engine, the reactor's control and the caller.             *)

\* A deduction exposes a body under an open scope.
LEMMA CommitOutcomes ==
  ASSUME VesselInv, OutcomeInv, Quiet, NEW o \in Deducible, NEW cause, state[o] = "undeduced",
         DeduceCommits(o, cause),
         UNCHANGED <<scope, settling, answering, timeline, attempts, inflight, result, ending, pc>>
  PROVE  OutcomeInv'
<1>1. /\ Exposed' = Exposed \cup StagedSet(o)
      /\ StagedSet(o) \subseteq Occ /\ StagedSet(o) \cap Exposed = {}
      /\ o \in Exposed /\ o \in Occ /\ Exposed \subseteq Occ
  <2>1. Inv
    BY DEF VesselInv
  <2>2. Exposed' = Exposed \cup StagedSet(o) /\ StagedSet(o) \subseteq Occ /\ StagedSet(o) \cap Exposed = {}
    BY <2>1, CommitExposes, StagedIsNew
  <2>3. o \in Occ
    BY DEF Deducible
  <2>4. o \in Exposed
    BY <2>1, <2>3 DEF Inv, ExposureIsAtomic
  <2>5. Exposed \subseteq Occ
    BY <2>1, ExposureFollowsTree
  <2>6. QED
    BY <2>2, <2>3, <2>4, <2>5
<1>2. ~Settled(o)
  BY <1>1 DEF OutcomeInv, QuietUnderSettled
<1>3. \A q \in StagedSet(o) : scope[q] = "none" /\ ~Settled(q) /\ scope[q] # "Satisfied"
  BY <1>1 DEF OutcomeInv, NotBeforeExposure, Settled, Terminal
<1>4. \A q : Settled(q)' = Settled(q)
  BY DEF Settled
<1>5. \A p : Children(p) \subseteq Children(p)' /\ Children(p)' \subseteq Children(p) \cup StagedSet(o)
  BY <1>1 DEF Children
<1>6. \A p \in Occ : p # o /\ p \notin StagedSet(o) => Children(p)' = Children(p)
  BY <1>5, StagedBelow DEF Children
<1>7. \A p \in {o} \cup StagedSet(o) : Children(p) = {}
  <2>1. Children(o) = {}
    BY ExposureFollowsTree DEF VesselInv
  <2>2. \A p \in StagedSet(o) : Children(p) = {}
    BY <1>1, ExposureFollowsTree, ProgramTypes DEF VesselInv, Children
  <2>3. QED
    BY <2>1, <2>2
<1>8. NotBeforeExposure' /\ OnlyDeducible'
  BY <1>1 DEF OutcomeInv, NotBeforeExposure, OnlyDeducible, DeduceCommits
<1>9. QuietUnderSettled'
  <2> SUFFICES ASSUME NEW p \in Exposed', Settled(p)
               PROVE  /\ state'[p] # "undeduced"
                      /\ p \in Leaf => td'[p] # "buffered"
                      /\ \A q \in Under(p)' : Settled(q)
    BY <1>4 DEF QuietUnderSettled
  <2>1. p \in Exposed /\ p # o /\ p \notin StagedSet(o) /\ p \in Occ
    BY <1>1, <1>2, <1>3
  <2>2. state'[p] # "undeduced" /\ (p \in Leaf => td'[p] # "buffered")
    BY <2>1 DEF DeduceCommits, OutcomeInv, QuietUnderSettled
  <2>3. \A q \in Under(p) : Settled(q)
    BY <2>1 DEF OutcomeInv, QuietUnderSettled
  <2>4. \A q \in StagedSet(o) : p \notin Ancestors[q]
    <3>1. p \notin Ancestors[o]
      BY <1>1, <1>2, <2>3 DEF Under
    <3>2. QED
      BY <2>1, <3>1, StagedBelow
  <2>5. Under(p)' = Under(p)
    BY <1>1, <2>4 DEF Under
  <2>6. QED
    BY <2>2, <2>3, <2>5
<1>10. SatisfactionIsEarned'
  <2>1. \A p \in Occ : scope[p] = "Satisfied" => p # o /\ p \notin StagedSet(o)
    BY <1>2, <1>3 DEF Settled, Terminal
  <2>2. \A p \in Occ : scope[p] = "Satisfied" /\ Earned(p) => Earned(p)'
    BY <1>6, <2>1 DEF Earned, InFlight
  <2>3. QED
    BY <2>2 DEF OutcomeInv, SatisfactionIsEarned
<1>11. CallsAreEarned'
  BY NoCallEarned DEF Quiet
<1>12. OpenScopesWait'
  <2> SUFFICES ASSUME NEW p \in Exposed', ~Settled(p)
               PROVE  Waits(p)'
    BY <1>4 DEF OpenScopesWait
  <2>1. CASE p = o \/ p \in StagedSet(o)
    <3>1. \A c \in Children(p)' : scope'[c] = "none"
      BY <1>3, <1>5, <1>7, <2>1
    <3>2. QED
      BY <3>1 DEF Waits, Terminal
  <2>2. CASE ~(p = o \/ p \in StagedSet(o))
    <3>1. p \in Exposed /\ Children(p)' = Children(p)
      BY <1>1, <1>6, <2>2
    <3>2. Waits(p)
      BY <3>1, QuietScopesWait DEF VesselInv
    <3>3. QED
      BY <3>1, <3>2 DEF Waits
  <2>3. QED
    BY <2>1, <2>2
<1>13. ResultFollowsRoot'
  BY <1>4 DEF OutcomeInv, ResultFollowsRoot
<1>14. QED
  BY <1>8, <1>9, <1>10, <1>11, <1>12, <1>13 DEF OutcomeInv

\* The passes of Replenish, the Scheduler's demand and what it surfaces.
LEMMA DemandOutcomes ==
  ASSUME VesselInv, OutcomeInv, Quiet, SurfaceFailure \/ SchedulerDemand \/ Deduction
  PROVE  OutcomeInv'
<1>1. CASE SurfaceFailure
  <2>1. First(ReadyFailures) \in Exposed
    BY <1>1, FirstInSet DEF VesselInv, Inv, CarouselTypeOK, ReadyFailures, SurfaceFailure
  <2>2. UNCHANGED <<order, scope, answering, timeline, attempts, inflight, state, td, result, ending, pc>>
    BY <1>1 DEF SurfaceFailure, vars, carouselVars, touchdownVars, schedulerVars, hostVars
  <2>3. QED
    BY <1>1, <2>1, <2>2, SettleCallOutcomes DEF SurfaceFailure
<1>2. CASE SchedulerDemand
  <2>1. /\ UNCHANGED <<order, scope, settling, answering, timeline, result, ending>>
        /\ UNCHANGED <<state, td, attempts, inflight>> /\ pc' = "pump"
    BY <1>2 DEF SchedulerDemand, touchdownVars, schedulerVars, hostVars, outcomeVars
  <2>2. ScopesOpen /\ NoWorkAppears
    BY <2>1 DEF ScopesOpen, NoWorkAppears, InFlight
  <2>3. ResultFollowsRoot'
    BY <2>1, <2>2, ResultStays DEF OutcomeInv
  <2>4. QED
    BY <2>1, <2>2, <2>3, ControlOutcomes
<1>3. CASE Deduction
  <2>1. UNCHANGED <<scope, settling, answering, timeline, attempts, inflight, result, ending, pc>>
    BY <1>3 DEF Deduction, controlVars, schedulerVars, hostVars, outcomeVars
  <2>2. CASE order' = order /\ td' = td /\ \A o \in Occ : state'[o] = "undeduced" => state[o] = "undeduced"
    <3>1. ScopesOpen /\ NoWorkAppears
      BY <2>1, <2>2 DEF ScopesOpen, NoWorkAppears, InFlight
    <3>2. ResultFollowsRoot'
      BY <2>1, <3>1, ResultStays DEF OutcomeInv, ResultFollowsRoot
    <3>3. QED
      BY <2>1, <2>2, <3>1, <3>2, ControlOutcomes
  <2>3. CASE ServeDemand \/ Speculate
    <3>1. PICK o \in Deducible, cause \in {"demand", "prefetch"} : state[o] = "undeduced" /\ Deduce(o, cause)
      BY <2>3, Picks DEF ServeDemand, Speculate, VesselInv
    <3>2. CASE DeduceFails(o, cause)
      <4>1. order' = order /\ td' = td /\ state' = [state EXCEPT ![o] = "failed"]
        BY <3>2 DEF DeduceFails, touchdownVars
      <4>2. QED
        BY <2>2, <4>1 DEF VesselInv, Inv, CarouselTypeOK
    <3>3. CASE DeduceCommits(o, cause)
      BY <2>1, <3>1, <3>3, CommitOutcomes
    <3>4. QED
      BY <3>1, <3>2, <3>3 DEF Deduce
  <2>4. CASE DemandServed \/ EndReplenish
    BY <2>2, <2>4 DEF DemandServed, EndReplenish, touchdownVars
  <2>5. QED
    BY <1>3, <2>3, <2>4 DEF Deduction, Replenish
<1>4. QED
  BY <1>1, <1>2, <1>3

\* The steps that move the reactor from one routine to the next, and those
\* that end a run without its Root.
LEMMA ReactorOutcomes ==
  ASSUME VesselInv, OutcomeInv, Quiet, Pumped \/ Dispatched \/ Stuck \/ Step \/ Advance
  PROVE  OutcomeInv'
<1>1. UNCHANGED <<order, scope, settling, answering, timeline, state, td, attempts, inflight>>
  BY DEF Pumped, Dispatched, Stuck, Step, Advance, Stabilize, vars, carouselVars, touchdownVars,
         schedulerVars, hostVars, outcomeVars
<1>2. ScopesOpen /\ NoWorkAppears
  BY <1>1 DEF ScopesOpen, NoWorkAppears, InFlight
<1>3. ResultFollowsRoot'
  <2>1. CASE UNCHANGED <<result, ending>> /\ (pc' = "deliver" => result = "none")
    BY <1>2, <2>1, ResultStays DEF OutcomeInv
  <2>2. CASE result' = "Failed" /\ ending' \in {"stuck", "budget"} /\ pc' = "idle"
    BY <2>2 DEF ResultFollowsRoot
  <2>3. CASE Pumped \/ Dispatched \/ Advance
    <3>1. UNCHANGED <<result, ending>>
      BY <2>3 DEF Pumped, Dispatched, Advance, outcomeVars
    <3>2. pc' = "deliver" => result = "none"
      BY <2>3 DEF Pumped, Dispatched, Advance, Stabilize
    <3>3. QED
      BY <2>1, <3>1, <3>2
  <2>4. CASE Stuck
    BY <2>2, <2>4 DEF Stuck
  <2>5. CASE Step
    BY <2>1, <2>2, <2>5 DEF Step, Stabilize
  <2>6. QED
    BY <2>3, <2>4, <2>5
<1>4. QED
  BY <1>1, <1>2, <1>3, ControlOutcomes

\* What the caller does between steps.
LEMMA CallOutcomes ==
  ASSUME VesselInv, OutcomeInv, Quiet, CallIn
  PROVE  OutcomeInv'
<1>1. ASSUME UNCHANGED <<order, state, scope, settling, answering, timeline, attempts, inflight>>,
             UNCHANGED <<result, ending, pc>>,
             \A l \in Leaf : td'[l] = "buffered" => td[l] = "buffered"
      PROVE  OutcomeInv'
  <2>1. ScopesOpen /\ NoWorkAppears
    BY <1>1 DEF ScopesOpen, NoWorkAppears, InFlight
  <2>2. ResultFollowsRoot'
    BY <1>1, <2>1, ResultStays DEF OutcomeInv, ResultFollowsRoot
  <2>3. QED
    BY <1>1, <2>1, <2>2, ControlOutcomes
<1>2. ASSUME NEW o \in Occ, RunDemand(o)
      PROVE  OutcomeInv'
  <2>1. UNCHANGED <<scope, result, ending, answering, attempts, inflight, timeline, pc>>
    BY <1>2 DEF RunDemand, schedulerVars, hostVars, controlVars
  <2>2. CASE Demand(o) /\ UNCHANGED <<values, settling>>
    BY <1>1, <2>1, <2>2 DEF Demand, touchdownVars
  <2>3. CASE Surfaceable(o) /\ Settle(o, "Failed", "unresolved") /\ UNCHANGED vars
    <3>1. o \in Exposed
      BY <2>3 DEF Surfaceable, OutcomeInv, NotBeforeExposure
    <3>2. QED
      BY <2>1, <2>3, <3>1, SettleCallOutcomes DEF vars, carouselVars, touchdownVars
  <2>4. QED
    BY <1>2, <2>2, <2>3 DEF RunDemand
<1>3. ASSUME NEW o \in Occ, CancelScope(o)
      PROVE  OutcomeInv'
  <2>1. o \in Exposed
    BY <1>3 DEF CancelScope, OutcomeInv, NotBeforeExposure
  <2>2. QED
    BY <1>3, <2>1, SettleCallOutcomes
       DEF CancelScope, vars, carouselVars, touchdownVars, schedulerVars, hostVars, controlVars
<1>4. ASSUME NEW n \in Target, RunSetPrefetch(n)
      PROVE  OutcomeInv'
  BY <1>1, <1>4 DEF RunSetPrefetch, SetPrefetch, touchdownVars, schedulerVars, hostVars, controlVars,
                    outcomeVars
<1>5. ASSUME NEW l \in Leaf, NEW a \in Attempt, RivalConsume(l, a)
      PROVE  OutcomeInv'
  <2>1. /\ ConsumeTouchdown(l, TRUE, a)
        /\ UNCHANGED <<order, state, scope, settling, answering, timeline, attempts, inflight>>
        /\ UNCHANGED <<result, ending, pc>>
    BY <1>5 DEF RivalConsume, schedulerVars, hostVars, controlVars, outcomeVars
  <2>2. \A k \in Leaf : td'[k] = "buffered" => td[k] = "buffered"
    BY <2>1 DEF ConsumeTouchdown, VesselInv, Inv, CarouselTypeOK
  <2>3. QED
    BY <1>1, <2>1, <2>2
<1>6. QED
  BY <1>2, <1>3, <1>4, <1>5, ReactorOutcomes DEF CallIn

-----------------------------------------------------------------------------
(* The events the Runtime has not handled yet.                             *)

\* The places of a sequence in three parts, the middle one of length 1.
LEMMA SplitPlaces ==
  ASSUME NEW n \in Nat, NEW m \in Nat, NEW i \in 1..(n + 1 + m)
  PROVE  i \in 1..n \/ i = n + 1 \/ \E j \in 1..m : i = n + 1 + j
<1>1. CASE i > n + 1
  <2>1. i - (n + 1) \in 1..m /\ i = n + 1 + (i - (n + 1))
    BY <1>1
  <2>2. QED
    BY <2>1
<1>2. QED
  BY <1>1

\* Where the events of a deduction are: behind the others the commitment, and
\* behind it the exposures.
LEMMA EventPlaces ==
  ASSUME VesselInv, NEW o \in Deducible, NEW cause \in {"demand", "prefetch"}, DeduceCommits(o, cause)
  PROVE  \E n \in Nat :
           /\ DOMAIN events = 1..n
           /\ DOMAIN events' = 1..(n + 1 + Len(Staged[o])) /\ Len(Staged[o]) \in Nat
           /\ \A i \in 1..n : events'[i] = events[i]
           /\ events'[n + 1] = Event("committed", o, cause)
           /\ \A j \in 1..Len(Staged[o]) : events'[n + 1 + j] = Event("exposed", Staged[o][j], "")
<1>1. o \in Occ /\ events \in Seq(Events) /\ Event("committed", o, cause) \in Events
  BY DEF VesselInv, Inv, CarouselTypeOK, Deducible, Event, Events
<1>2. Staged[o] \in Seq(Occ) /\ Len(Staged[o]) \in Nat /\ DOMAIN Staged[o] = 1..Len(Staged[o])
  BY <1>1, ProgramTypes
<1>3. PICK e \in Events : e = Event("committed", o, cause)
  BY <1>1
<1>4. PICK s \in Seq(Events) : s = Append(events, e)
  <2>1. Append(events, e) \in Seq(Events)
    BY <1>1
  <2>2. QED
    BY <2>1
<1>5. PICK t \in Seq(Events) : t = Exposure(o)
  BY <1>1, ExposureEvents
<1>6. events' = s \o t
  BY <1>3, <1>4, <1>5 DEF DeduceCommits
<1>7. PICK n \in Nat, m \in Nat : n = Len(events) /\ m = Len(Staged[o])
  <2>1. Len(events) \in Nat
    BY <1>1, LenProperties
  <2>2. QED
    BY <1>2, <2>1
<1>8. /\ Len(s) = n + 1 /\ DOMAIN events = 1..n
      /\ \A i \in 1..n : s[i] = events[i]
      /\ s[n + 1] = e
  BY <1>1, <1>4, <1>7
<1>9. Len(t) = m /\ \A j \in 1..m : t[j] = Event("exposed", Staged[o][j], "")
  <2>1. DOMAIN t = 1..m
    BY <1>2, <1>5, <1>7 DEF Exposure
  <2>2. Len(t) = m
    BY <2>1
  <2>3. QED
    BY <1>2, <1>5, <1>7 , <2>2 DEF Exposure
<1>10. /\ s \o t \in Seq(Events) /\ Len(s \o t) = n + 1 + m
       /\ \A i \in 1..(n + 1) : (s \o t)[i] = s[i]
       /\ \A j \in 1..m : (s \o t)[n + 1 + j] = t[j]
  <2>1. \A j \in 1..m : n + 1 + j \in (Len(s) + 1)..(Len(s) + Len(t)) /\ (n + 1 + j) - Len(s) = j
    <3>1. Len(s) = n + 1 /\ Len(t) = m
      BY <1>8, <1>9
    <3>2. \A j \in 1..m : n + 1 + j \in (n + 2)..(n + 1 + m) /\ (n + 1 + j) - (n + 1) = j
      OBVIOUS
    <3>3. QED
      BY <3>1, <3>2
  <2>2. /\ s \o t \in Seq(Events) /\ Len(s \o t) = Len(s) + Len(t)
        /\ \A i \in 1..Len(s) : (s \o t)[i] = s[i]
        /\ \A i \in (Len(s) + 1)..(Len(s) + Len(t)) : (s \o t)[i] = t[i - Len(s)]
    OBVIOUS
  <2>3. QED
    BY <1>8, <1>9, <2>1, <2>2
<1>11. DOMAIN events' = 1..(n + 1 + m)
  <2>1. DOMAIN (s \o t) = 1..Len(s \o t)
    BY <1>10
  <2>2. QED
    BY <1>6, <1>10, <2>1
<1>12. /\ \A i \in 1..n : events'[i] = events[i]
       /\ events'[n + 1] = Event("committed", o, cause)
  <2>1. n + 1 \in 1..(n + 1) /\ \A i \in 1..n : i \in 1..(n + 1)
    OBVIOUS
  <2>2. QED
    BY <1>3, <1>6, <1>8, <1>10, <2>1
<1>13. \A j \in 1..m : events'[n + 1 + j] = Event("exposed", Staged[o][j], "")
  BY <1>6, <1>9, <1>10
<1>14. QED
  BY <1>2, <1>7, <1>8, <1>11, <1>12, <1>13

\* A deduction that fails leaves one event, behind the others.
LEMMA FailurePlaces ==
  ASSUME VesselInv, NEW o \in Deducible, NEW cause \in {"demand", "prefetch"}, DeduceFails(o, cause)
  PROVE  \E n \in Nat :
           /\ DOMAIN events = 1..n /\ DOMAIN events' = 1..(n + 1)
           /\ \A i \in 1..n : events'[i] = events[i]
           /\ events'[n + 1] = Event("failed", o, cause)
<1>1. events \in Seq(Events) /\ Event("failed", o, cause) \in Events
  BY DEF VesselInv, Inv, CarouselTypeOK, Deducible, Event, Events
<1>2. events' = Append(events, Event("failed", o, cause))
  BY DEF DeduceFails
<1>3. QED
  BY <1>1, <1>2

\* The first event is taken, and the others move up.
LEMMA TailPlaces ==
  ASSUME VesselInv, events # <<>>, events' = Tail(events)
  PROVE  /\ 1 \in DOMAIN events /\ Head(events) = events[1] /\ DOMAIN events \subseteq Nat \ {0}
         /\ \A i \in DOMAIN events' : i \in Nat \ {0} /\ i + 1 \in DOMAIN events /\ events'[i] = events[i + 1]
         /\ \A i \in DOMAIN events : i # 1 => i - 1 \in DOMAIN events' /\ events'[i - 1] = events[i]
<1>1. events \in Seq(Events)
  BY DEF VesselInv, Inv, CarouselTypeOK
<1>2. /\ Len(events) \in Nat /\ Len(events) > 0 /\ DOMAIN events = 1..Len(events)
      /\ DOMAIN Tail(events) = 1..(Len(events) - 1) /\ Head(events) = events[1]
      /\ \A i \in 1..(Len(events) - 1) : Tail(events)[i] = events[i + 1]
  BY <1>1
<1>3. \A i \in DOMAIN events : i # 1 => i - 1 \in DOMAIN Tail(events) /\ Tail(events)[i - 1] = events[i]
  <2> SUFFICES ASSUME NEW i \in DOMAIN events, i # 1
               PROVE  i - 1 \in DOMAIN Tail(events) /\ Tail(events)[i - 1] = events[i]
    OBVIOUS
  <2>1. i - 1 \in 1..(Len(events) - 1) /\ (i - 1) + 1 = i
    BY <1>2
  <2>2. QED
    BY <1>2, <2>1
<1>4. QED
  BY <1>2, <1>3

\* The steps that touch the queue of events: a deduction adds to it, handle
\* takes from it.
LEMMA EventSteps ==
  ASSUME VesselInv, [VesselNext]_vesselVars
  PROVE  \/ UNCHANGED <<events, order>>
         \/ Quiet /\ Handle
         \/ /\ Quiet /\ Deduction
            /\ \E o \in Deducible, cause \in {"demand", "prefetch"} :
                 /\ state[o] = "undeduced"
                 /\ DeduceCommits(o, cause) \/ DeduceFails(o, cause)
<1>1. CASE Inner
  BY <1>1 DEF Inner, SettleScope, ApplyAction, Answered, StartAttempt, vars, carouselVars
<1>2. CASE Quiet /\ Deduction
  <2>1. CASE ServeDemand \/ Speculate
    BY <1>2, <2>1, Picks DEF ServeDemand, Speculate, VesselInv, Deduce
  <2>2. CASE DemandServed \/ EndReplenish
    BY <2>2 DEF DemandServed, EndReplenish
  <2>3. QED
    BY <1>2, <2>1, <2>2 DEF Deduction, Replenish
<1>3. CASE Quiet /\ (SurfaceFailure \/ SchedulerDemand \/ Pumped \/ Dispatched \/ Deliver \/ Stuck \/ Step)
  BY <1>3 DEF SurfaceFailure, SchedulerDemand, Pumped, Dispatched, Deliver, Stuck, Step, vars, carouselVars
<1>4. CASE Quiet /\ Dispatch
  BY <1>4 DEF Dispatch, BeforeAttempt, WithholdDispatch, StartAttempt, vars, carouselVars
<1>5. CASE Quiet /\ CallIn
  BY <1>5 DEF CallIn, RunDemand, Demand, CancelScope, RunSetPrefetch, SetPrefetch, RivalConsume, Advance,
              vars, carouselVars
<1>6. CASE UNCHANGED vesselVars
  BY <1>6 DEF vesselVars, vars, carouselVars
<1>7. QED
  BY <1>1, <1>2, <1>3, <1>4, <1>5, <1>6 DEF VesselNext, Routine

\* An event is about an exposed occurrence.
EventsAreExposed == \A i \in DOMAIN events : events[i].occ \in Exposed

\* It stays so: a deduction exposes what its events are about, and nothing is
\* ever hidden again.
LEMMA EventsAreExposedStep == VesselInv /\ EventsAreExposed /\ [VesselNext]_vesselVars => EventsAreExposed'
<1> SUFFICES ASSUME VesselInv, EventsAreExposed, [VesselNext]_vesselVars
             PROVE  EventsAreExposed'
  OBVIOUS
<1>1. CASE UNCHANGED <<events, order>>
  BY <1>1 DEF EventsAreExposed, Exposed
<1>2. CASE Handle
  <2>1. events # <<>> /\ events' = Tail(events) /\ order' = order
    BY <1>2 DEF Handle
  <2>2. QED
    BY <2>1, TailPlaces DEF EventsAreExposed, Exposed
<1>3. ASSUME NEW o \in Deducible, NEW cause \in {"demand", "prefetch"}, state[o] = "undeduced",
             DeduceCommits(o, cause) \/ DeduceFails(o, cause)
      PROVE  EventsAreExposed'
  <2>1. o \in Exposed
    BY <1>3 DEF VesselInv, Inv, ExposureIsAtomic, Deducible
  <2>2. CASE DeduceCommits(o, cause)
    <3>1. Exposed' = Exposed \cup StagedSet(o)
      BY <2>2, CommitExposes DEF VesselInv
    <3>2. PICK n \in Nat, m \in Nat :
            /\ m = Len(Staged[o]) /\ DOMAIN events = 1..n /\ DOMAIN events' = 1..(n + 1 + m)
            /\ \A i \in 1..n : events'[i] = events[i]
            /\ events'[n + 1] = Event("committed", o, cause)
            /\ \A j \in 1..m : events'[n + 1 + j] = Event("exposed", Staged[o][j], "")
      BY <2>2, EventPlaces
    <3>3. \A j \in 1..m : Staged[o][j] \in StagedSet(o)
      <4>1. DOMAIN Staged[o] = 1..m
        <5>1. Staged[o] \in Seq(Occ)
          BY ProgramTypes DEF Deducible
        <5>2. DOMAIN Staged[o] = 1..Len(Staged[o])
          BY <5>1
        <5>3. m = Len(Staged[o])
          BY <3>2
        <5>4. QED
          BY <5>2, <5>3
      <4>2. QED
        BY <4>1 DEF StagedSet
    <3>4. \A i \in 1..n : events'[i].occ \in Exposed
      BY <3>2 DEF EventsAreExposed
    <3>5. events'[n + 1].occ \in Exposed
      <4>1. events'[n + 1] = Event("committed", o, cause)
        BY <3>2
      <4>2. QED
        BY <2>1, <4>1 DEF Event
    <3>6. \A j \in 1..m : events'[n + 1 + j].occ \in StagedSet(o)
      <4> SUFFICES ASSUME NEW j \in 1..m
                   PROVE  events'[n + 1 + j].occ \in StagedSet(o)
        OBVIOUS
      <4>1. events'[n + 1 + j] = Event("exposed", Staged[o][j], "")
        BY <3>2
      <4>2. Event("exposed", Staged[o][j], "").occ = Staged[o][j]
        BY DEF Event
      <4>3. QED
        BY <3>3, <4>1, <4>2
    <3>7. \A i \in 1..(n + 1 + m) : i \in 1..n \/ i = n + 1 \/ \E j \in 1..m : i = n + 1 + j
      BY SplitPlaces
    <3>8. QED
      BY <3>1, <3>2, <3>4, <3>5, <3>6, <3>7 DEF EventsAreExposed
  <2>3. CASE DeduceFails(o, cause)
    <3>1. Exposed' = Exposed
      BY <2>3 DEF DeduceFails, Exposed
    <3>2. PICK n \in Nat :
            /\ DOMAIN events = 1..n /\ DOMAIN events' = 1..(n + 1)
            /\ \A i \in 1..n : events'[i] = events[i]
            /\ events'[n + 1] = Event("failed", o, cause)
      BY <2>3, FailurePlaces
    <3>3. \A i \in 1..(n + 1) : i \in 1..n \/ i = n + 1
      OBVIOUS
    <3>4. QED
      BY <2>1, <3>1, <3>2, <3>3 DEF EventsAreExposed, Event
  <2>4. QED
    BY <1>3, <2>2, <2>3
<1>4. QED
  BY <1>1, <1>2, <1>3, EventSteps

-----------------------------------------------------------------------------
(* Outcomes: the reactor at work.                                          *)

\* A call that only informs the policies of an exposed occurrence, or none.
LEMMA NotifyEarned ==
  ASSUME Quiet, NEW o \in Exposed, NEW event \in {"ScopeOpened", "TimerFired"},
         UNCHANGED settling, UNCHANGED answering \/ Notify(o, event)
  PROVE  /\ CallsAreEarned' /\ settling' = NotSettling
         /\ answering' # NotAnswering => answering'.occ \in Exposed
<1>1. settling' = NotSettling /\ answering = NotAnswering
  BY DEF Quiet
<1>2. CASE answering' = NotAnswering
  BY <1>1, <1>2, NoCallEarned
<1>3. CASE Consult(o, event, "none", "unresolved")
  BY <1>1, <1>3, ConsultEarned
<1>4. QED
  BY <1>1, <1>2, <1>3 DEF Notify, Silent

\* handle takes the first event, and opens a scope at most.
LEMMA HandlesHead ==
  ASSUME VesselInv, EventsAreExposed, Handle
  PROVE  \E e \in Events :
           /\ 1 \in DOMAIN events /\ e = events[1] /\ e.occ \in Exposed
           /\ \/ e.kind = "exposed" /\ HandleExposed(e.occ)
              \/ e.kind = "committed" /\ HandleCommitted(e.occ)
              \/ e.kind = "failed" /\ HandleFailed(e.occ, e.cause)
           /\ ScopesOpen
<1>1. events \in Seq(Events) /\ events # <<>>
  BY DEF Handle, VesselInv, Inv, CarouselTypeOK
<1>2. 1 \in DOMAIN events /\ Head(events) = events[1] /\ Head(events) \in Events
  BY <1>1
<1>3. PICK e \in Events : e = Head(events) /\ e = events[1] /\ e.occ \in Exposed
  BY <1>2 DEF EventsAreExposed
<1>4. e.kind \in {"exposed", "committed", "failed"}
  BY DEF Events
<1>5. \/ e.kind = "exposed" /\ HandleExposed(e.occ)
      \/ e.kind = "committed" /\ HandleCommitted(e.occ)
      \/ e.kind = "failed" /\ HandleFailed(e.occ, e.cause)
  BY <1>3, <1>4 DEF Handle
<1>6. ScopesOpen
  BY <1>3, <1>5 DEF HandleExposed, HandleCommitted, HandleFailed, ScopesOpen, VesselInv, WorkTypes, Terminal
<1>7. QED
  BY <1>2, <1>3, <1>5, <1>6

\* handle opens scopes, fails refused ones, and surfaces failures.
LEMMA HandleOutcomes ==
  ASSUME VesselInv, OutcomeInv, EventsAreExposed, Quiet, Handle
  PROVE  OutcomeInv'
<1>1. PICK e \in Events :
        /\ e.occ \in Exposed /\ ScopesOpen
        /\ HandleExposed(e.occ) \/ HandleCommitted(e.occ) \/ HandleFailed(e.occ, e.cause)
  BY HandlesHead
<1>2. PICK o \in Exposed : o = e.occ
  BY <1>1
<1>3. HandleExposed(o) \/ HandleCommitted(o) \/ HandleFailed(o, e.cause)
  BY <1>1, <1>2
<1>4. /\ UNCHANGED <<order, state, td, attempts, inflight, timeline, result, ending, pc>>
      /\ o \in Occ
  BY <1>2 DEF Handle, touchdownVars, hostVars, VesselInv, Inv, CarouselTypeOK, Exposed
<1>5. settling = NotSettling /\ answering = NotAnswering
  BY DEF Quiet
<1>6. ScopesOpen
  BY <1>1
<1>7. NoWorkAppears
  BY <1>4 DEF NoWorkAppears, InFlight
<1>8. ResultFollowsRoot'
  BY <1>4, <1>6, ResultStays DEF OutcomeInv, ResultFollowsRoot
<1>9. /\ CallsAreEarned'
      /\ settling' # NotSettling => settling'.occ \in Exposed
      /\ answering' # NotAnswering => answering'.occ \in Exposed
  <2>1. CASE UNCHANGED settling /\ (UNCHANGED answering \/ Notify(o, "ScopeOpened"))
    BY <2>1, NotifyEarned
  <2>2. CASE Settle(o, "Failed", "unresolved") /\ UNCHANGED answering
    BY <1>5, <2>2, SettleEarned
  <2>3. QED
    BY <1>3, <2>1, <2>2 DEF HandleExposed, HandleCommitted, HandleFailed, Refuse, Attach
<1>10. \A p \in Exposed : ~Concluding(p)
  BY QuietScopesWait DEF VesselInv
<1>11. QED
  BY <1>4, <1>6, <1>7, <1>8, <1>9, <1>10, OtherOutcomes DEF OutcomeInv, NotBeforeExposure

\* The timers of the timeline are those of exposed occurrences.
TimersExposed(tl) == \A i \in DOMAIN tl : tl[i].kind = "timer" => tl[i].occ \in Exposed

\* Another item joins the timeline.
LEMMA InsertTimers ==
  ASSUME NEW tl \in Seq(Item), NEW item \in Item, TimersExposed(tl),
         item.kind = "timer" => item.occ \in Exposed
  PROVE  TimersExposed(Insert(tl, item))
<1> DEFINE ins == Insert(tl, item)
<1>1. PICK p \in DOMAIN ins :
        /\ ins[p] = item
        /\ \A i \in DOMAIN ins \ {p} : Old(p, i) \in DOMAIN tl /\ ins[i] = tl[Old(p, i)]
  BY InsertPlaces
<1> HIDE DEF ins
<1>2. TimersExposed(ins)
  BY <1>1 DEF TimersExposed
<1>3. QED
  BY <1>2 DEF ins

\* One is delivered.
LEMMA TailTimers ==
  ASSUME NEW tl \in Seq(Item), tl # <<>>, TimersExposed(tl)
  PROVE  TimersExposed(Tail(tl)) /\ (Head(tl).kind = "timer" => Head(tl).occ \in Exposed)
BY TailFacts DEF TimersExposed

\* An attempt begins in a scope that was not settled, or fails it.
LEMMA StartOutcomes ==
  ASSUME VesselInv, OutcomeInv, NEW l \in Leaf \cap Exposed, MayStart(l), ~Settled(l), StartAttempt(l),
         settling = NotSettling, answering' = NotAnswering, \A p \in Exposed : ~Concluding(p),
         UNCHANGED <<scope, now, result, ending, pc>>
  PROVE  OutcomeInv'
<1>1. UNCHANGED <<order, state>>
  BY DEF StartAttempt
<1>2. \A k \in Leaf : td'[k] = "buffered" => td[k] = "buffered"
  <2>1. CASE ConsumeTouchdown(l, TRUE, Own)
    BY <2>1 DEF ConsumeTouchdown, VesselInv, Inv, CarouselTypeOK
  <2>2. CASE UNCHANGED touchdownVars
    BY <2>2 DEF touchdownVars
  <2>3. QED
    BY <2>1, <2>2 DEF StartAttempt
<1>3. ScopesOpen
  BY DEF ScopesOpen
<1>4. ResultFollowsRoot'
  BY <1>3, ResultStays DEF OutcomeInv, ResultFollowsRoot
<1>5. CASE \E outcome \in Outcomes[l] : Invoke(l, outcome)
  <2>1. PICK outcome \in Outcomes[l] : Invoke(l, outcome)
    BY <1>5
  <2>2. settling' = NotSettling
    BY <2>1 DEF Invoke
  <2>3. NoWorkAppears
    <3>1. \A k \in Leaf : attempts[k] > 0 => attempts'[k] > 0
      <4>1. attempts[l] \in Nat /\ attempts' = [attempts EXCEPT ![l] = attempts[l] + 1]
        BY <2>1 DEF Invoke, VesselInv, WorkTypes
      <4>2. QED
        BY <4>1 DEF VesselInv, WorkTypes
    <3>2. \A k \in Leaf : scope[k] = "Satisfied" /\ InFlight(k)' => InFlight(k)
      <4>1. inflight' = inflight \cup {[leaf |-> l, no |-> attempts[l] + 1, cancelled |-> FALSE]}
        BY <2>1 DEF Invoke
      <4>2. scope[l] # "Satisfied"
        BY DEF Settled, Terminal
      <4>3. QED
        BY <4>1, <4>2 DEF InFlight
    <3>3. QED
      BY <1>1, <1>2, <3>1, <3>2 DEF NoWorkAppears
  <2>4. TimersExposed(timeline')
    <3>1. PICK item \in Item :
            item.kind = "completion" /\ timeline' = Insert(timeline, item)
      BY <2>1, AnswerIsItem DEF Invoke, MayStart
    <3>2. timeline \in Seq(Item) /\ TimersExposed(timeline)
      BY DEF VesselInv, WorkTypes, OutcomeInv, NotBeforeExposure, TimersExposed
    <3>3. QED
      BY <3>1, <3>2, InsertTimers
  <2>5. CallsAreEarned'
    BY <2>2, NoCallEarned
  <2>6. QED
    BY <1>1, <1>3, <1>4, <2>2, <2>3, <2>4, <2>5, OtherOutcomes DEF TimersExposed
<1>6. CASE Settle(l, "Failed", "unresolved") /\ UNCHANGED <<attempts, inflight, timeline>>
  <2>1. CallsAreEarned' /\ (settling' # NotSettling => settling'.occ \in Exposed)
    BY <1>6, SettleEarned
  <2>2. NoWorkAppears
    BY <1>1, <1>2, <1>6 DEF NoWorkAppears, InFlight
  <2>3. QED
    BY <1>1, <1>3, <1>4, <1>6, <2>1, <2>2, OtherOutcomes DEF OutcomeInv, NotBeforeExposure
<1>7. QED
  BY <1>5, <1>6 DEF StartAttempt

\* dispatch begins an attempt, or asks, or withholds it.
LEMMA DispatchOutcomes ==
  ASSUME VesselInv, OutcomeInv, Quiet, Dispatch
  PROVE  OutcomeInv'
<1>1. PICK l \in Leaf \cap Exposed :
        /\ MayStart(l) /\ scope[l] = "Open" /\ StructurallyReady(l)
        /\ BeforeAttempt(l) \/ \E ticks \in Withhold : WithholdDispatch(l, ticks)
  BY DispatchPicks
<1>2. ~Settled(l) /\ \A q \in Ancestors[l] : ~Settled(q)
  BY <1>1 DEF Settled, Terminal, StructurallyReady
<1>3. result = "none" /\ UNCHANGED <<now, pc, scope, result, ending>>
  BY DEF Dispatch
<1>4. settling = NotSettling /\ answering = NotAnswering
  BY DEF Quiet
<1>5. \A p \in Exposed : ~Concluding(p)
  BY QuietScopesWait DEF VesselInv
<1>6. ScopesOpen
  BY <1>3 DEF ScopesOpen
<1>7. ResultFollowsRoot'
  BY <1>3, <1>6, ResultStays DEF OutcomeInv
<1>8. CASE Silent(l, "BeforeAttempt") /\ StartAttempt(l)
  BY <1>1, <1>2, <1>3, <1>4, <1>5, <1>8, StartOutcomes DEF Silent
<1>9. CASE /\ Consult(l, "BeforeAttempt", "none", "unresolved")
           /\ UNCHANGED <<vars, attempts, notBefore, inflight, timeline, settling>>
  <2>1. \A q \in {l} \cup Ancestors[l] : ~Settled(q)'
    BY <1>2, <1>3 DEF Settled
  <2>2. CallsAreEarned' /\ answering'.occ = l
    BY <1>3, <1>4, <1>9, <2>1, ConsultEarned
  <2>3. UNCHANGED <<order, state, td>> /\ NoWorkAppears
    BY <1>9 DEF vars, carouselVars, touchdownVars, NoWorkAppears, InFlight
  <2>4. QED
    BY <1>4, <1>5, <1>6, <1>7, <1>9, <2>2, <2>3, OtherOutcomes DEF OutcomeInv, NotBeforeExposure
<1>10. ASSUME NEW ticks \in Withhold, WithholdDispatch(l, ticks)
       PROVE  OutcomeInv'
  <2>1. /\ UNCHANGED <<order, state, td, attempts, inflight, settling, answering>>
        /\ timeline' = Insert(timeline, Wakeup(l, "backoff", now + ticks))
    BY <1>10 DEF WithholdDispatch, vars, carouselVars, touchdownVars
  <2>2. Wakeup(l, "backoff", now + ticks) \in Item
    <3>1. now + ticks \in Nat /\ l \in Occ
      BY RunTypes DEF VesselInv, WorkTypes, Leaf
    <3>2. QED
      BY <3>1, WakeupIsItem
  <2>3. timeline \in Seq(Item) /\ TimersExposed(timeline)
    BY DEF VesselInv, WorkTypes, OutcomeInv, NotBeforeExposure, TimersExposed
  <2>4. TimersExposed(timeline')
    BY <2>1, <2>2, <2>3, InsertTimers DEF Wakeup
  <2>5. NoWorkAppears /\ CallsAreEarned'
    BY <1>4, <2>1, NoCallEarned DEF NoWorkAppears, InFlight
  <2>6. QED
    BY <1>4, <1>5, <1>6, <1>7, <2>1, <2>4, <2>5, OtherOutcomes DEF TimersExposed
<1>11. QED
  BY <1>1, <1>8, <1>9, <1>10 DEF BeforeAttempt

-----------------------------------------------------------------------------
(* Outcomes: what a parent concludes, and what the policies answer.        *)

\* When the last element of a serial composition is satisfied, all are.
LEMMA SerialComplete ==
  ASSUME NEW p \in Occ, Kind[p] = "serial", ChildrenOf(p) # {}, NEW s,
         \A c \in ChildrenOf(p) : s[c] = "Satisfied" => \A d \in Deps[c] : s[d] = "Satisfied",
         s[LastChild(p)] = "Satisfied"
  PROVE  \A c \in ChildrenOf(p) : s[c] = "Satisfied"
<1>1. PICK n \in Nat \ {0} : \E element \in [1..n -> ChildrenOf(p)] :
        /\ ChildrenOf(p) = {element[i] : i \in 1..n}
        /\ \A i \in 1..n : Deps[element[i]] = IF i = 1 THEN {} ELSE {element[i - 1]}
        /\ LastChild(p) = element[n]
  BY LastElement
<1>2. PICK element \in [1..n -> ChildrenOf(p)] :
        /\ ChildrenOf(p) = {element[i] : i \in 1..n}
        /\ \A i \in 1..n : Deps[element[i]] = IF i = 1 THEN {} ELSE {element[i - 1]}
        /\ LastChild(p) = element[n]
  BY <1>1
<1> DEFINE R == {ss \in Nat \X Nat : ss[1] < ss[2]}
           T == {k \in Nat : k < n /\ s[element[n - k]] # "Satisfied"}
<1>3. ASSUME T # {}
      PROVE  FALSE
  <2>1. PICK k \in T : \A j \in T : <<j, k>> \notin R
    <3>1. IsWellFoundedOn(R, Nat)
      BY NatLessThanWellFounded DEF OpToRel
    <3>2. T \subseteq Nat
      OBVIOUS
    <3> HIDE DEF R, T
    <3>3. QED
      BY <1>3, <3>1, <3>2, WFMin
  <2>2. k \in Nat /\ k < n /\ s[element[n - k]] # "Satisfied"
    OBVIOUS
  <2>3. k # 0
    <3>1. ASSUME k = 0 PROVE FALSE
      <4>1. n - k = n
        BY <2>2, <3>1
      <4>2. element[n - k] = LastChild(p)
        BY <1>2, <4>1
      <4>3. QED
        BY <2>2, <4>2
    <3>2. QED
      BY <3>1
  <2>4. PICK i \in 1..n : i = n - (k - 1) /\ i # 1 /\ i - 1 = n - k
    <3>1. n - (k - 1) \in 1..n /\ n - (k - 1) # 1 /\ (n - (k - 1)) - 1 = n - k
      BY <2>2, <2>3
    <3>2. QED
      BY <3>1
  <2>5. s[element[i]] = "Satisfied"
    <3>1. k - 1 \in Nat /\ k - 1 < n /\ <<k - 1, k>> \in R
      BY <2>2, <2>3
    <3>2. k - 1 \notin T
      BY <2>1, <3>1
    <3>3. QED
      BY <2>4, <3>1, <3>2
  <2>6. element[i] \in ChildrenOf(p) /\ Deps[element[i]] = {element[n - k]}
    BY <1>2, <2>4
  <2>7. QED
    BY <2>2, <2>5, <2>6
<1>4. \A i \in 1..n : s[element[i]] = "Satisfied"
  <2> SUFFICES ASSUME NEW i \in 1..n, s[element[i]] # "Satisfied"
               PROVE  FALSE
    OBVIOUS
  <2>1. n - i \in Nat /\ n - i < n /\ n - (n - i) = i
    OBVIOUS
  <2>2. n - i \in T
    BY <2>1
  <2>3. QED
    BY <1>3, <2>2
<1>5. \A c \in ChildrenOf(p) : \E i \in 1..n : c = element[i]
  BY <1>2
<1>6. QED
  BY <1>4, <1>5

\* evaluateParent: a scope keeps waiting, or its children have earned it what
\* it proposes.
LEMMA ParentDraws ==
  ASSUME Inv, NEW p \in Exposed, ChildrenOf(p) # {}, NEW s, NEW v,
         \A q \in Occ \ Exposed : s[q] = "none",
         \A c \in ChildrenOf(p) : s[c] \in ScopeStates,
         \A c \in ChildrenOf(p) : s[c] = "Satisfied" => \A d \in Deps[c] : s[d] = "Satisfied"
  PROVE  \/ /\ EvaluateParent(p, s, v) = NotSettling
            /\ Children(p) # {} => /\ \A c \in Children(p) : s[c] \notin Terminal \ {"Satisfied"}
                                   /\ \E c \in Children(p) : s[c] # "Satisfied"
         \/ \E st \in {"Satisfied", "Failed", "Cancelled"} : \E out :
              /\ EvaluateParent(p, s, v) = Proposal(p, st, out)
              /\ st = "Satisfied" => Children(p) # {} /\ \A c \in Children(p) : s[c] = "Satisfied"
<1> DEFINE e == EvaluateParent(p, s, v)
           body == CHOOSE c \in ChildrenOf(p) : TRUE
           bad == \E c \in ChildrenOf(p) : s[c] \in {"Failed", "Cancelled", "Withdrawn"}
<1>1. p \in Occ /\ Children(p) \subseteq ChildrenOf(p) /\ ChildrenOf(p) \subseteq Occ
  BY ExposureFollowsTree DEF Children, ChildrenOf
<1>2. p \notin Leaf
  BY Composition
<1>3. CASE p \in Deducible
  <2>1. ChildrenOf(p) = {body} /\ Kind[p] \in {"Goal", "arrow"}
    BY <1>3, Composition DEF Deducible
  <2>2. CASE s[body] \notin Terminal
    <3>1. e = NotSettling
      BY <2>1, <2>2 DEF EvaluateParent
    <3>2. \A c \in Children(p) : c = body
      BY <1>1, <2>1
    <3>3. QED
      BY <2>2, <3>1, <3>2 DEF Terminal
  <2>3. CASE s[body] \in Terminal
    <3>1. e = Proposal(p, IF s[body] = "Withdrawn" THEN "Failed" ELSE s[body], v[body])
      BY <2>1, <2>3 DEF EvaluateParent
    <3>2. (IF s[body] = "Withdrawn" THEN "Failed" ELSE s[body]) \in {"Satisfied", "Failed", "Cancelled"}
      BY <2>3 DEF Terminal
    <3>3. body \in Exposed
      BY <1>1, <2>1, <2>3 DEF Terminal
    <3>4. Children(p) = {body}
      BY <1>1, <2>1, <3>3 DEF Children, ChildrenOf
    <3>5. (IF s[body] = "Withdrawn" THEN "Failed" ELSE s[body]) = "Satisfied" => s[body] = "Satisfied"
      OBVIOUS
    <3>6. QED
      BY <3>1, <3>2, <3>4, <3>5
  <2>4. QED
    BY <2>2, <2>3
<1>4. CASE p \notin Deducible
  <2>1. Children(p) = ChildrenOf(p) /\ Kind[p] \notin {"Goal", "arrow"}
    BY <1>1, <1>4, ExposureFollowsTree DEF Deducible
  <2>2. Kind[p] \in {"serial", "parallel", "map"}
    BY <1>1, <1>2, <2>1, ProgramTypes DEF Leaf
  <2>3. CASE bad
    <3>1. e = Proposal(p, "Failed", "unresolved")
      BY <2>1, <2>3 DEF EvaluateParent
    <3>2. QED
      BY <3>1
  <2>4. CASE ~bad
    <3>1. \A c \in Children(p) : s[c] \notin Terminal \ {"Satisfied"}
      BY <2>1, <2>4 DEF Terminal
    <3>2. CASE Kind[p] = "serial" /\ s[LastChild(p)] = "Satisfied"
      <4>1. e = Proposal(p, "Satisfied", v[LastChild(p)])
        BY <2>1, <2>4, <3>2 DEF EvaluateParent
      <4>2. \A c \in Children(p) : s[c] = "Satisfied"
        BY <1>1, <2>1, <3>2, SerialComplete
      <4>3. QED
        BY <2>1, <4>1, <4>2
    <3>3. CASE Kind[p] = "serial" /\ s[LastChild(p)] # "Satisfied"
      <4>1. e = NotSettling
        BY <2>1, <2>4, <3>3 DEF EvaluateParent
      <4>2. LastChild(p) \in Children(p)
        BY <1>1, <2>1, <3>3, LastElement
      <4>3. QED
        BY <3>1, <3>3, <4>1, <4>2
    <3>4. CASE Kind[p] \in {"parallel", "map"} /\ \A c \in ChildrenOf(p) : s[c] = "Satisfied"
      <4>1. \/ e = Proposal(p, "Satisfied", "NoOutput")
            \/ e = Proposal(p, "Failed", "unresolved")
            \/ e = Proposal(p, "Satisfied", "value")
        BY <2>1, <2>4, <3>4 DEF EvaluateParent
      <4>2. QED
        BY <2>1, <3>4, <4>1
    <3>5. CASE Kind[p] \in {"parallel", "map"} /\ ~\A c \in ChildrenOf(p) : s[c] = "Satisfied"
      <4>1. e = NotSettling
        BY <2>1, <2>4, <3>5 DEF EvaluateParent
      <4>2. QED
        BY <2>1, <3>1, <3>5, <4>1
    <3>6. QED
      BY <2>2, <3>2, <3>3, <3>4, <3>5
  <2>5. QED
    BY <2>3, <2>4
<1>5. QED
  BY <1>3, <1>4

\* What becomes of a proposal.
LEMMA ProposeEarned ==
  ASSUME NEW p \in Exposed, NEW proposal, Propose(proposal),
         \/ proposal = NotSettling
         \/ \E st \in {"Satisfied", "Failed", "Cancelled"} : \E out :
              proposal = Proposal(p, st, out) /\ (st = "Satisfied" => Earned(p)')
  PROVE  /\ CallsAreEarned'
         /\ settling' # NotSettling => settling'.occ \in Exposed
         /\ answering' # NotAnswering => answering'.occ \in Exposed
         /\ proposal = NotSettling \/ Concluding(p)'
<1>1. CASE proposal = NotSettling
  <2>1. settling' = NotSettling
    BY <1>1 DEF Propose
  <2>2. answering' = NotAnswering
    BY <1>1 DEF Propose
  <2>3. QED
    BY <1>1, <2>1, <2>2, NoCallEarned
<1>2. CASE proposal # NotSettling
  <2>1. PICK st, out :
          /\ st \in {"Satisfied", "Failed", "Cancelled"}
          /\ proposal = Proposal(p, st, out) /\ (st = "Satisfied" => Earned(p)')
    BY <1>2
  <2>2. proposal.occ = p /\ proposal.st = st /\ proposal.out = out
    BY <2>1 DEF Proposal
  <2>3. CASE Consult(p, "ScopeOutcomeProposed", st, out) /\ settling' = NotSettling
    <3>1. CallsAreEarned' /\ answering'.occ = p /\ answering'.event = "ScopeOutcomeProposed"
      BY <2>1, <2>3, ConsultEarned
    <3>2. QED
      BY <2>3, <3>1 DEF Concluding
  <2>4. CASE answering' = NotAnswering /\ settling' = proposal
    BY <2>1, <2>2, <2>4 DEF CallsAreEarned, NotAnswering, Concluding
  <2>5. QED
    BY <1>2, <2>2, <2>3, <2>4 DEF Propose, Silent
<1>3. QED
  BY <1>1, <1>2

\* One action of an answer is applied, or ends the scope.
LEMMA ApplyOutcomes ==
  ASSUME VesselInv, OutcomeInv, settling = NotSettling, ApplyAction
  PROVE  OutcomeInv'
<1>1. PICK o \in Exposed : o = answering.occ
  <2>1. answering # NotAnswering
    BY DEF ApplyAction, NotAnswering
  <2>2. QED
    BY <2>1 DEF OutcomeInv, NotBeforeExposure
<1>2. PICK act \in Action : act = Head(answering.acts)
  <2>1. answering.acts \in Seq(Action) /\ answering.acts # <<>>
    BY DEF ApplyAction, VesselInv, CallTypes
  <2>2. QED
    BY <2>1
<1>3. UNCHANGED <<order, state, td, attempts, inflight, now, scope, result, ending, pc>>
  BY DEF ApplyAction, vars, carouselVars, touchdownVars, controlVars
<1>4. ScopesOpen /\ NoWorkAppears
  BY <1>3 DEF ScopesOpen, NoWorkAppears, InFlight
<1>5. ResultFollowsRoot'
  BY <1>3, <1>4, ResultStays DEF OutcomeInv, ResultFollowsRoot
<1>6. \A p \in Exposed : Concluding(p) => p = o
  <2>1. NoOcc \notin Exposed
    BY ProgramTypes DEF VesselInv, Inv, CarouselTypeOK, Exposed
  <2>2. QED
    BY <1>1, <2>1 DEF Concluding, NotSettling
<1>7. CASE Settled(o) \/ Ends(o, act)
  <2>1. PICK st \in {"Cancelled", "Failed"} : Settle(o, st, "unresolved")
    BY <1>1, <1>2, <1>7 DEF ApplyAction
  <2>2. answering' = NotAnswering /\ UNCHANGED <<notBefore, timeline>>
    BY <1>1, <1>2, <1>7 DEF ApplyAction
  <2>3. CallsAreEarned' /\ (settling' # NotSettling => settling'.occ \in Exposed)
    BY <2>1, <2>2, SettleEarned
  <2>4. Settled(o) \/ Concluding(o)'
    BY <2>1 DEF Settle, Concluding
  <2>5. QED
    BY <1>3, <1>4, <1>5, <1>6, <2>2, <2>3, <2>4, OtherOutcomes DEF OutcomeInv, NotBeforeExposure
<1>8. CASE ~(Settled(o) \/ Ends(o, act))
  <2>1. /\ Perform(o, act) /\ settling' = NotSettling
        /\ answering' = [answering EXCEPT !.acts = Tail(@)]
    BY <1>1, <1>2, <1>8 DEF ApplyAction
  <2>2. /\ answering'.occ = answering.occ /\ answering'.event = answering.event
        /\ answering'.st = answering.st
    BY <2>1 DEF VesselInv, CallTypes
  <2>3. Earned(o)' <=> Earned(o)
    BY <1>3 DEF Earned, InFlight, Children, Exposed
  <2>4. CallsAreEarned'
    <3>1. settling'.st = "none"
      BY <2>1 DEF NotSettling
    <3>2. \A q : Settled(q)' <=> Settled(q)
      BY <1>3 DEF Settled
    <3>3. QED
      BY <1>1, <1>3, <2>2, <2>3, <3>1, <3>2 DEF OutcomeInv, CallsAreEarned
  <2>5. TimersExposed(timeline')
    <3>1. timeline \in Seq(Item) /\ TimersExposed(timeline) /\ now + act.ticks \in Nat /\ o \in Occ
      BY DEF VesselInv, WorkTypes, OutcomeInv, NotBeforeExposure, TimersExposed, Action, Inv, CarouselTypeOK, Exposed
    <3>2. ASSUME NEW kind \in {"backoff", "timer"},
                 timeline' = Insert(timeline, Wakeup(o, kind, now + act.ticks))
          PROVE  TimersExposed(timeline')
      <4>1. Wakeup(o, kind, now + act.ticks) \in Item
        BY <3>1, WakeupIsItem
      <4>2. Wakeup(o, kind, now + act.ticks).occ = o
        BY DEF Wakeup
      <4>3. QED
        BY <3>1, <3>2, <4>1, <4>2, InsertTimers
    <3>3. CASE timeline' = timeline
      BY <3>1, <3>3 DEF TimersExposed
    <3>4. QED
      BY <2>1, <3>2, <3>3 DEF Perform
  <2>6. \A p \in Exposed : Concluding(p) => Concluding(p)'
    BY <2>2, ProgramTypes DEF Concluding, NotSettling, VesselInv, Inv, CarouselTypeOK, Exposed
  <2>7. QED
    BY <1>1, <1>3, <1>4, <1>5, <2>1, <2>2, <2>4, <2>5, <2>6, OtherOutcomes DEF TimersExposed
<1>9. QED
  BY <1>7, <1>8

\* No action of an answer ended the scope: the routine that asked goes on.
LEMMA AnsweredOutcomes ==
  ASSUME VesselInv, OutcomeInv, settling = NotSettling, Answered
  PROVE  OutcomeInv'
<1>1. PICK o \in Exposed : o = answering.occ /\ answering # NotAnswering /\ o \in Occ
  <2>1. answering # NotAnswering
    BY DEF Answered, NotAnswering
  <2>2. QED
    BY <2>1 DEF OutcomeInv, NotBeforeExposure, VesselInv, Inv, CarouselTypeOK, Exposed
<1>2. UNCHANGED <<now, scope, result, ending, pc>>
  BY DEF Answered, controlVars
<1>3. \A p \in Exposed : Concluding(p) =>
        p = o /\ answering.event \in {"ChildScopeOutcome", "ScopeOutcomeProposed"}
  <2>1. NoOcc \notin Exposed
    BY ProgramTypes DEF VesselInv, Inv, CarouselTypeOK, Exposed
  <2>2. QED
    BY <1>1, <2>1 DEF Concluding, NotSettling
<1>4. CASE answering.event = "BeforeAttempt" /\ ~Held(o)
  <2>1. StartAttempt(o) /\ answering' = NotAnswering
    BY <1>1, <1>4 DEF Answered
  <2>2. MayStart(o) /\ o \in Leaf
    BY <1>1, <1>4 DEF VesselInv, CallsInProgress, MayStart
  <2>3. ~Settled(o)
    BY <1>1, <1>4 DEF OutcomeInv, CallsAreEarned
  <2>4. \A p \in Exposed : ~Concluding(p)
    BY <1>3, <1>4
  <2>5. QED
    BY <1>2, <2>1, <2>2, <2>3, <2>4, StartOutcomes
<1>5. ASSUME UNCHANGED <<vars, attempts, notBefore, inflight, timeline>>, CallsAreEarned',
             settling' # NotSettling => settling'.occ \in Exposed,
             answering' # NotAnswering => answering'.occ \in Exposed,
             Concluding(o) => Settled(o) \/ Concluding(o)' \/ Waits(o)
      PROVE  OutcomeInv'
  <2>1. UNCHANGED <<order, state, td, attempts, inflight, timeline>>
    BY <1>5 DEF vars, carouselVars, touchdownVars
  <2>2. ScopesOpen /\ NoWorkAppears
    BY <1>2, <2>1 DEF ScopesOpen, NoWorkAppears, InFlight
  <2>3. ResultFollowsRoot'
    BY <1>2, <2>2, ResultStays DEF OutcomeInv, ResultFollowsRoot
  <2>4. QED
    BY <1>3, <1>5, <2>1, <2>2, <2>3, OtherOutcomes DEF OutcomeInv, NotBeforeExposure
<1>6. ASSUME UNCHANGED <<vars, attempts, notBefore, inflight, timeline>>
      PROVE  Earned(o)' <=> Earned(o)
  BY <1>2, <1>6 DEF Earned, InFlight, Children, Exposed, vars, carouselVars
<1>7. CASE answering.event = "ChildScopeOutcome"
  <2>1. /\ Propose(EvaluateParent(o, scope, values))
        /\ UNCHANGED <<vars, attempts, notBefore, inflight, timeline>>
    BY <1>1, <1>7 DEF Answered
  <2>2. ChildrenOf(o) # {} /\ o \notin Leaf
    BY <1>1, <1>7, Composition DEF VesselInv, CallsInProgress
  <2>3. PICK proposal : proposal = EvaluateParent(o, scope, values)
    OBVIOUS
  <2>4. \/ proposal = NotSettling /\ Waits(o)
        \/ \E st \in {"Satisfied", "Failed", "Cancelled"} : \E out :
             proposal = Proposal(o, st, out) /\ (st = "Satisfied" => Earned(o)')
    <3>1. \A q \in Occ \ Exposed : scope[q] = "none"
      BY DEF OutcomeInv, NotBeforeExposure
    <3>2. \A c \in ChildrenOf(o) : /\ scope[c] \in ScopeStates
                                   /\ scope[c] = "Satisfied" => \A d \in Deps[c] : scope[d] = "Satisfied"
      BY DEF ChildrenOf, VesselInv, WorkTypes, OutcomeInv, SatisfactionIsEarned
    <3>3. \/ proposal = NotSettling /\ Waits(o)
          \/ \E st \in {"Satisfied", "Failed", "Cancelled"} : \E out :
               proposal = Proposal(o, st, out) /\ (st = "Satisfied" => Earned(o))
      BY <2>2, <2>3, <3>1, <3>2, ParentDraws DEF VesselInv, Waits, Earned
    <3>4. QED
      BY <1>6, <2>1, <3>3
  <2>5. /\ CallsAreEarned' /\ (settling' # NotSettling => settling'.occ \in Exposed)
        /\ answering' # NotAnswering => answering'.occ \in Exposed
        /\ proposal = NotSettling \/ Concluding(o)'
    BY <2>1, <2>3, <2>4, ProposeEarned
  <2>6. Waits(o) \/ Concluding(o)'
    BY <2>4, <2>5 DEF Proposal, NotSettling
  <2>7. QED
    BY <1>5, <2>1, <2>5, <2>6
<1>8. CASE answering.event \in {"AttemptOutcome", "ScopeOutcomeProposed"}
  <2>1. /\ Settle(o, answering.st, answering.out) /\ answering' = NotAnswering
        /\ UNCHANGED <<vars, attempts, notBefore, inflight, timeline>>
    BY <1>1, <1>8 DEF Answered
  <2>2. PICK st \in {"Satisfied", "Failed", "Cancelled"} : st = answering.st /\ (st = "Satisfied" => Earned(o))
    BY <1>1, <1>8 DEF OutcomeInv, CallsAreEarned
  <2>3. CallsAreEarned' /\ (settling' # NotSettling => settling'.occ \in Exposed)
    BY <1>6, <2>1, <2>2, SettleEarned
  <2>4. Settled(o) \/ Concluding(o)'
    BY <2>1 DEF Settle, Concluding
  <2>5. QED
    BY <1>5, <2>1, <2>3, <2>4
<1>9. CASE /\ ~(answering.event = "BeforeAttempt" /\ ~Held(o))
           /\ answering.event \notin {"ChildScopeOutcome", "AttemptOutcome", "ScopeOutcomeProposed"}
  <2>1. /\ answering' = NotAnswering /\ settling' = NotSettling
        /\ UNCHANGED <<vars, attempts, notBefore, inflight, timeline>>
    BY <1>1, <1>9 DEF Answered
  <2>2. CallsAreEarned' /\ ~Concluding(o)
    BY <1>3, <1>9, <2>1, NoCallEarned
  <2>3. QED
    BY <1>5, <2>1, <2>2
<1>10. QED
  BY <1>4, <1>7, <1>8, <1>9

\* The outcome of an attempt: its leaf is tried again, or earns its own.
LEMMA CompletionOutcomes ==
  ASSUME VesselInv, OutcomeInv, Quiet, now' \in Nat, timeline # <<>>,
         NEW item \in Item, item = Head(timeline), item.kind = "completion", DeliverCompletion(item),
         pc' = "idle", UNCHANGED <<vars, attempts, scope, result, ending>>
  PROVE  OutcomeInv'
<1>1. PICK b \in inflight :
        /\ Completes(item, b) /\ Attempted(item) = b /\ inflight' = inflight \ {b}
        /\ b.leaf \in Leaf /\ b.no = attempts[b.leaf]
  BY DeliveredAttempt
<1>2. PICK l \in Leaf : l = item.occ /\ l = b.leaf
  BY <1>1 DEF Completes
<1>3. attempts[l] > 0
  <2>1. b.no \in 1..MaxAttempts
    BY DEF VesselInv, WorkTypes
  <2>2. QED
    BY <1>1, <1>2, <2>1
<1>4. l \in Exposed /\ l \in Occ
  BY <1>3 DEF VesselInv, AttemptAccounting, Inv, WindowCountsUnacknowledged, Leaf
<1>5. Earned(l)'
  <2>1. \A a \in inflight : a.leaf = l => a = b
    BY <1>2 DEF VesselInv, AttemptAccounting
  <2>2. QED
    BY <1>1, <1>3, <2>1 DEF Earned, InFlight
<1>6. UNCHANGED <<order, state, td>> /\ settling = NotSettling /\ answering = NotAnswering
  BY DEF vars, carouselVars, touchdownVars, Quiet
<1>7. ScopesOpen /\ NoWorkAppears
  BY <1>1, <1>6 DEF ScopesOpen, NoWorkAppears, InFlight
<1>8. ResultFollowsRoot'
  BY <1>7, ResultStays DEF OutcomeInv
<1>9. \A p \in Exposed : ~Concluding(p)
  BY QuietScopesWait DEF VesselInv
<1>10. Tail(timeline) \in Seq(Item) /\ TimersExposed(Tail(timeline))
  <2>1. timeline \in Seq(Item) /\ TimersExposed(timeline)
    BY DEF VesselInv, WorkTypes, OutcomeInv, NotBeforeExposure, TimersExposed
  <2>2. QED
    BY <2>1, TailFacts, TailTimers
<1>11. ASSUME TimersExposed(timeline'), CallsAreEarned',
              settling' # NotSettling => settling'.occ \in Exposed,
              answering' # NotAnswering => answering'.occ \in Exposed
       PROVE  OutcomeInv'
  BY <1>6, <1>7, <1>8, <1>9, <1>11, OtherOutcomes DEF TimersExposed
<1>12. CASE timeline' = Tail(timeline) /\ UNCHANGED <<settling, answering>>
  BY <1>6, <1>10, <1>11, <1>12, NoCallEarned
<1>13. ASSUME NEW acts, AttemptOutcome(item, acts), acts \in Seq(Action)
       PROVE  OutcomeInv'
  <2>1. PICK st, out :
          /\ st \in {"Satisfied", "Failed", "Cancelled"}
          /\ st = ScopeOf(item.status)
          /\ out = IF item.status = "Succeeded" THEN item.out ELSE "unresolved"
    BY DEF ScopeOf
  <2>2. CASE UNCHANGED <<settling, answering>> /\ \E i \in DOMAIN acts : Reattempt(l, acts[i].ticks)
    <3>1. PICK i \in DOMAIN acts : Reattempt(l, acts[i].ticks)
      BY <2>2
    <3>2. PICK ticks \in Nat : ticks = acts[i].ticks
      <4>1. acts[i] \in Action
        BY <1>13
      <4>2. acts[i].ticks \in Nat
        BY <4>1 DEF Action
      <4>3. QED
        BY <4>2
    <3>3. CASE ticks = 0
      BY <1>12, <2>2, <3>1, <3>2, <3>3 DEF Reattempt
    <3>4. CASE ticks # 0
      <4>1. timeline' = Insert(Tail(timeline), Wakeup(l, "backoff", now' + ticks))
        BY <3>1, <3>2, <3>4 DEF Reattempt
      <4>2. now' + ticks \in Nat
        <5>1. \A t \in Nat : t + ticks \in Nat
          OBVIOUS
        <5>2. QED
          BY <5>1
      <4>3. Wakeup(l, "backoff", now' + ticks) \in Item /\ Wakeup(l, "backoff", now' + ticks).kind # "timer"
        BY <1>4, <4>2, WakeupIsItem DEF Wakeup
      <4>4. TimersExposed(timeline')
        BY <1>10, <4>1, <4>3, InsertTimers
      <4>5. QED
        BY <1>6, <1>11, <2>2, <4>4, NoCallEarned
    <3>5. QED
      BY <3>3, <3>4
  <2>3. CASE timeline' = Tail(timeline) /\ UNCHANGED answering /\ Settle(l, st, out)
    <3>1. CallsAreEarned' /\ (settling' # NotSettling => settling'.occ \in Exposed)
      BY <1>4, <1>5, <1>6, <2>1, <2>3, SettleEarned
    <3>2. QED
      BY <1>6, <1>10, <1>11, <2>3, <3>1
  <2>4. CASE /\ timeline' = Tail(timeline) /\ UNCHANGED settling
             /\ answering' = [occ |-> l, event |-> "AttemptOutcome", acts |-> acts, st |-> st, out |-> out]
    <3>1. CallsAreEarned'
      BY <1>5, <1>6, <2>1, <2>4 DEF CallsAreEarned, NotSettling
    <3>2. QED
      BY <1>4, <1>6, <1>10, <1>11, <2>4, <3>1
  <2>5. QED
    BY <1>2, <1>12, <1>13, <2>1, <2>2, <2>3, <2>4 DEF AttemptOutcome
<1>14. \A acts \in Interp[item.occ]["AttemptOutcome"] : acts \in Seq(Action)
  BY <1>2, <1>4, RunTypes DEF PolicyEvent
<1>15. QED
  BY <1>12, <1>13, <1>14 DEF DeliverCompletion

\* Step delivers one item of the timeline.
LEMMA DeliverOutcomes ==
  ASSUME VesselInv, OutcomeInv, Quiet, Deliver
  PROVE  OutcomeInv'
<1>1. timeline \in Seq(Item) /\ timeline # <<>> /\ now \in Nat
  BY DEF Deliver, VesselInv, WorkTypes
<1>2. PICK item \in Item : item = Head(timeline)
  BY <1>1
<1>3. /\ now' \in Nat /\ pc' = "idle"
      /\ UNCHANGED <<vars, attempts, scope, result, ending>>
  BY <1>1, <1>2 DEF Deliver, Item
<1>4. CASE item.kind = "completion"
  <2>1. DeliverCompletion(item)
    BY <1>2, <1>4 DEF Deliver
  <2>2. QED
    BY <1>1, <1>2, <1>3, <1>4, <2>1, CompletionOutcomes
<1>5. CASE item.kind # "completion"
  <2>1. /\ timeline' = Tail(timeline) /\ UNCHANGED <<notBefore, inflight, settling>>
        /\ UNCHANGED answering \/ (item.kind = "timer" /\ Notify(item.occ, "TimerFired"))
    BY <1>2, <1>5 DEF Deliver, DeliverTimer
  <2>2. TimersExposed(timeline)
    BY DEF OutcomeInv, NotBeforeExposure, TimersExposed
  <2>3. TimersExposed(timeline') /\ (item.kind = "timer" => item.occ \in Exposed)
    BY <1>1, <1>2, <2>1, <2>2, TailTimers
  <2>4. /\ CallsAreEarned' /\ settling' = NotSettling
        /\ answering' # NotAnswering => answering'.occ \in Exposed
    <3>1. CASE UNCHANGED answering
      BY <2>1, <3>1, NoCallEarned DEF Quiet
    <3>2. CASE item.kind = "timer" /\ Notify(item.occ, "TimerFired")
      BY <2>1, <2>3, <3>2, NotifyEarned
    <3>3. QED
      BY <2>1, <3>1, <3>2
  <2>5. UNCHANGED <<order, state, td>>
    BY <1>3 DEF vars, carouselVars, touchdownVars
  <2>6. ScopesOpen /\ NoWorkAppears
    BY <1>3, <2>1, <2>5 DEF ScopesOpen, NoWorkAppears, InFlight
  <2>7. ResultFollowsRoot'
    BY <1>3, <2>6, ResultStays DEF OutcomeInv
  <2>8. \A p \in Exposed : ~Concluding(p)
    BY QuietScopesWait DEF VesselInv
  <2>9. QED
    BY <2>3, <2>4, <2>5, <2>6, <2>7, <2>8, OtherOutcomes DEF TimersExposed
<1>6. QED
  BY <1>4, <1>5

-----------------------------------------------------------------------------
(* Outcomes: settle.                                                       *)

\* settle gives a scope its outcome, takes everything open under it along when
\* it went wrong, and its parent concludes, or the run.
LEMMA SettleScopeOutcomes ==
  ASSUME VesselInv, OutcomeInv, NothingMoved, SettleScope
  PROVE  OutcomeInv'
<1>1. PICK x \in Exposed, st \in {"Satisfied", "Failed", "Cancelled"} :
        settling.occ = x /\ settling.st = st /\ (st = "Satisfied" => Earned(x))
  <2>1. settling # NotSettling
    BY DEF SettleScope
  <2>2. settling.occ \in Exposed /\ settling.st \in Terminal
    BY <2>1 DEF OutcomeInv, NotBeforeExposure, VesselInv, CallsInProgress
  <2>3. settling.st \in {"Satisfied", "Failed", "Cancelled"}
    BY <2>2 DEF OutcomeInv, CallsAreEarned, Terminal
  <2>4. QED
    BY <2>2, <2>3 DEF OutcomeInv, CallsAreEarned
<1>2. settling.occ = x /\ settling.st = st
  BY <1>1
<1>3. /\ x \in Occ /\ Exposed \subseteq Occ /\ ~Settled(x) /\ answering = NotAnswering
      /\ Parent[x] # x
  BY <1>2, ExposureFollowsTree, Structure, ProgramTypes
     DEF SettleScope, VesselInv, CallsInProgress
<1>4. PICK D : D = IF st = "Satisfied" THEN {} ELSE Dropped(x)
  OBVIOUS
<1>5. PICK parent : parent = Parent[x]
  OBVIOUS
<1>6. /\ scope' = [q \in Occ |->
                     IF q = x THEN st
                     ELSE IF q \notin D THEN scope[q]
                     ELSE IF q \in Undeduced(D) THEN "Withdrawn" ELSE "Cancelled"]
      /\ Withdraw(D \cup {x}) /\ DiscardTouchdowns(D \cup {x})
      /\ CancelAttempts(D)
      /\ IF parent = NoOcc \/ scope[parent] \in Terminal
         THEN settling' = NotSettling /\ UNCHANGED answering
         ELSE ChildOutcome(parent, scope', values')
      /\ IF parent = NoOcc /\ result = "none"
         THEN result' = Status(st) /\ ending' = "settled"
         ELSE UNCHANGED <<result, ending>>
      /\ UNCHANGED <<order, attempts, timeline, pc>>
  BY <1>2, <1>4, <1>5 DEF SettleScope, schedulerVars, controlVars
<1>7. \A q \in D : q \in Exposed /\ q \in Occ /\ ~Settled(q) /\ x \in Ancestors[q]
  BY <1>3, <1>4 DEF Dropped, Under
<1>8. /\ scope'[x] = st /\ Settled(x)'
      /\ \A q \in D : Settled(q)' /\ scope'[q] # "Satisfied"
      /\ \A q \in Occ : q # x /\ q \notin D => scope'[q] = scope[q]
  <2>1. x \notin D
    BY <1>3, <1>7, Structure
  <2>2. \A q \in D : q # x
    BY <2>1
  <2>3. QED
    BY <1>3, <1>6, <1>7, <2>2 DEF Settled, Terminal
<1>9. \A q \in Occ : Settled(q) => Settled(q)' /\ scope'[q] = scope[q]
  BY <1>3, <1>7, <1>8 DEF Settled
<1>10. \A q \in Occ : scope[q] = "Satisfied" => scope'[q] = "Satisfied"
  BY <1>9 DEF Settled, Terminal
<1>11. /\ Exposed' = Exposed /\ \A p : Children(p)' = Children(p) /\ Under(p)' = Under(p)
       /\ \A p : Children(p) \subseteq Occ /\ Under(p) \subseteq Occ
  BY <1>3, <1>6 DEF Exposed, Children, Under
<1>12. \A l \in Leaf : InFlight(l)' <=> InFlight(l)
  <2>1. \A a \in inflight : [a EXCEPT !.cancelled = @ \/ a.leaf \in D].leaf = a.leaf
    <3>1. \A a \in inflight : a \in [leaf : Leaf, no : 1..MaxAttempts, cancelled : BOOLEAN]
      BY DEF VesselInv, WorkTypes
    <3>2. QED
      BY <3>1
  <2>2. QED
    BY <1>6, <2>1 DEF CancelAttempts, InFlight
<1>13. \A p \in Occ : scope[p] = "Satisfied" /\ Earned(p) => Earned(p)'
  BY <1>6, <1>10, <1>11, <1>12 DEF Earned
<1>14. st = "Satisfied" => Earned(x)'
  BY <1>1, <1>6, <1>10, <1>11, <1>12 DEF Earned
<1>15. QuietUnderSettled'
  <2> SUFFICES ASSUME NEW p \in Exposed, Settled(p)'
               PROVE  /\ state'[p] # "undeduced"
                      /\ p \in Leaf => td'[p] # "buffered"
                      /\ \A q \in Under(p) : Settled(q)'
    BY <1>11 DEF QuietUnderSettled
  <2>1. p \in Occ
    BY <1>3
  <2>2. /\ state[p] # "undeduced" => state'[p] # "undeduced"
        /\ p \in D \cup {x} => state'[p] # "undeduced"
    <3>1. state' = [o \in Occ |-> IF o \in Undeduced(D \cup {x}) THEN "withdrawn" ELSE state[o]]
      BY <1>6 DEF Withdraw
    <3>2. state[p] = "undeduced" => p \in Deducible
      BY <2>1 DEF OutcomeInv, OnlyDeducible
    <3>3. QED
      BY <2>1, <3>1, <3>2 DEF Undeduced
  <2>3. p \in Leaf => /\ td[p] # "buffered" => td'[p] # "buffered"
                      /\ p \in D \cup {x} => td'[p] # "buffered"
    BY <1>6 DEF DiscardTouchdowns, Buffered
  <2>4. CASE Settled(p)
    BY <1>9, <1>11, <2>2, <2>3, <2>4 DEF OutcomeInv, QuietUnderSettled
  <2>5. CASE p \in D
    <3>1. \A q \in Under(p) : q \in Under(x)
      BY <1>7, <2>5, AncestorsTransitive, <1>11 DEF Under
    <3>2. st # "Satisfied" /\ D = Dropped(x)
      BY <1>4, <2>5
    <3>3. \A q \in Under(x) : Settled(q)'
      BY <1>8, <1>9, <1>11, <3>2 DEF Dropped
    <3>4. QED
      BY <2>2, <2>3, <2>5, <3>1, <3>3
  <2>6. CASE p = x
    <3>1. CASE st # "Satisfied"
      <4>1. \A q \in Under(x) : Settled(q)'
        BY <1>4, <1>8, <1>9, <1>11, <3>1 DEF Dropped
      <4>2. QED
        BY <2>2, <2>3, <2>6, <4>1
    <3>2. CASE st = "Satisfied"
      <4> SUFFICES ASSUME NEW q \in Under(x)
                   PROVE  Settled(q)
        BY <1>9, <1>11, <2>2, <2>3, <2>6
      <4>1. q \in Exposed /\ q \in Occ /\ x \in Ancestors[q]
        BY <1>3 DEF Under
      <4>2. PICK c \in ChildrenOf(x) : c = q \/ c \in Ancestors[q]
        BY <1>3, <4>1, ThroughAChild
      <4>3. c \in Exposed
        BY <4>1, <4>2, ExposureFollowsTree DEF VesselInv
      <4>4. c \in Children(x) /\ x \notin Leaf
        BY <4>2, <4>3, Composition DEF Children, ChildrenOf
      <4>5. scope[c] = "Satisfied"
        BY <1>1, <3>2, <4>4 DEF Earned
      <4>6. Settled(c)
        BY <4>5 DEF Settled, Terminal
      <4>7. QED
        BY <4>1, <4>2, <4>3, <4>6 DEF OutcomeInv, QuietUnderSettled, Under
    <3>3. QED
      BY <3>1, <3>2
  <2>7. QED
    BY <1>8, <2>1, <2>4, <2>5, <2>6 DEF Settled
<1>16. SatisfactionIsEarned'
  <2>1. \A o \in Occ : \A q \in {o} \cup Ancestors[o] : Deps[q] \subseteq Occ
    BY RunTypes, ProgramTypes, AncestorsUnfold
  <2>2. ASSUME st = "Satisfied"
        PROVE  \A q \in {x} \cup Ancestors[x] : \A d \in Deps[q] : scope[d] = "Satisfied"
    <3>1. CASE x \in Leaf
      BY <1>1, <2>2, <3>1 DEF Earned, VesselInv, Precedence
    <3>2. CASE x \notin Leaf
      <4>1. PICK c \in Children(x) : scope[c] = "Satisfied"
        BY <1>1, <2>2, <3>2 DEF Earned
      <4>2. c \in Occ /\ Parent[c] = x
        BY <1>11 DEF Children
      <4>3. Ancestors[c] = {x} \cup Ancestors[x]
        BY <1>3, <4>2, AncestorsUnfold, ProgramTypes
      <4>4. QED
        BY <4>1, <4>2, <4>3 DEF OutcomeInv, SatisfactionIsEarned
    <3>3. QED
      BY <3>1, <3>2
  <2>3. \A o \in Occ : scope'[o] = "Satisfied" => scope[o] = "Satisfied" \/ (o = x /\ st = "Satisfied")
    BY <1>8
  <2>4. QED
    BY <1>10, <1>13, <1>14, <2>1, <2>2, <2>3 DEF OutcomeInv, SatisfactionIsEarned
<1>17. /\ \A q \in Occ \ Exposed : scope'[q] = "none"
       /\ scope' \in [Occ -> ScopeStates]
  <2>1. \A q \in Occ \ Exposed : scope'[q] = "none"
    BY <1>7, <1>8 DEF OutcomeInv, NotBeforeExposure
  <2>2. scope' \in [Occ -> ScopeStates]
    BY <1>6 DEF VesselInv, WorkTypes, ScopeStates, Terminal
  <2>3. QED
    BY <2>1, <2>2
<1>18. \A p \in Exposed : p # parent => Settled(p)' \/ Waits(p)'
  <2> SUFFICES ASSUME NEW p \in Exposed, p # parent, ~Settled(p)'
               PROVE  Waits(p)'
    OBVIOUS
  <2>1. p \in Occ /\ p # x /\ p \notin D /\ ~Settled(p)
    BY <1>3, <1>8, <1>9
  <2>2. Waits(p)
    BY <1>2, <1>3, <2>1, ProgramTypes DEF OutcomeInv, OpenScopesWait, Concluding, NotAnswering
  <2>3. \A c \in Children(p) : scope'[c] = scope[c]
    <3> SUFFICES ASSUME NEW c \in Children(p), c = x \/ c \in D
                 PROVE  FALSE
      BY <1>8, <1>11
    <3>1. c \in D /\ Parent[c] = p
      BY <1>5 DEF Children
    <3>2. x \in {p} \cup Ancestors[p]
      <4>1. c \in Occ /\ x \in Ancestors[c]
        BY <1>7, <3>1
      <4>2. Parent[c] # NoOcc
        BY <2>1, <3>1, ProgramTypes
      <4>3. Ancestors[c] = {Parent[c]} \cup Ancestors[Parent[c]]
        BY <4>1, <4>2, AncestorsUnfold
      <4>4. QED
        BY <3>1, <4>1, <4>3
    <3>3. p \in Under(x)
      BY <2>1, <3>2 DEF Under
    <3>4. D = Dropped(x)
      BY <1>4, <3>1
    <3>5. QED
      BY <2>1, <3>3, <3>4 DEF Dropped
  <2>4. QED
    BY <1>11, <2>2, <2>3 DEF Waits
<1>19. /\ CallsAreEarned'
       /\ settling' # NotSettling => settling'.occ \in Exposed
       /\ answering' # NotAnswering => answering'.occ \in Exposed
       /\ parent \in Exposed => Settled(parent)' \/ Concluding(parent)' \/ Waits(parent)'
  <2>1. CASE parent = NoOcc \/ scope[parent] \in Terminal
    <3>1. settling' = NotSettling /\ answering' = NotAnswering
      BY <1>3, <1>6, <2>1
    <3>2. parent \in Exposed => Settled(parent)'
      BY <1>3, <1>9, <2>1, ProgramTypes DEF Settled
    <3>3. QED
      BY <3>1, <3>2, NoCallEarned
  <2>2. CASE ~(parent = NoOcc \/ scope[parent] \in Terminal)
    <3>1. parent \in Exposed /\ parent \in Occ /\ x \in ChildrenOf(parent) /\ parent \notin Leaf
      BY <1>3, <1>5, <2>2, ExposureFollowsTree, Composition DEF VesselInv, ChildrenOf
    <3>2. PICK s : s = scope'
      OBVIOUS
    <3>3. PICK v : v = values'
      OBVIOUS
    <3>4. ChildOutcome(parent, s, v)
      BY <1>6, <2>2, <3>2, <3>3
    <3>5. CASE Consult(parent, "ChildScopeOutcome", "none", "unresolved") /\ settling' = NotSettling
      BY <3>1, <3>5, ConsultEarned DEF Concluding
    <3>6. CASE Propose(EvaluateParent(parent, s, v))
      <4>1. PICK proposal : proposal = EvaluateParent(parent, s, v)
        OBVIOUS
      <4>2. /\ \A q \in Occ \ Exposed : s[q] = "none"
            /\ \A c \in ChildrenOf(parent) : s[c] \in ScopeStates
        BY <1>17, <3>2 DEF ChildrenOf
      <4>3. \A c \in ChildrenOf(parent) : s[c] = "Satisfied" => \A d \in Deps[c] : s[d] = "Satisfied"
        BY <1>16, <3>2 DEF SatisfactionIsEarned, ChildrenOf
      <4>4. \/ proposal = NotSettling /\ Waits(parent)'
            \/ \E ps \in {"Satisfied", "Failed", "Cancelled"} : \E po :
                 proposal = Proposal(parent, ps, po) /\ (ps = "Satisfied" => Earned(parent)')
        <5>1. \/ /\ proposal = NotSettling
                 /\ Children(parent) # {} =>
                      /\ \A c \in Children(parent) : s[c] \notin Terminal \ {"Satisfied"}
                      /\ \E c \in Children(parent) : s[c] # "Satisfied"
              \/ \E ps \in {"Satisfied", "Failed", "Cancelled"} : \E po :
                   /\ proposal = Proposal(parent, ps, po)
                   /\ ps = "Satisfied" =>
                        Children(parent) # {} /\ \A c \in Children(parent) : s[c] = "Satisfied"
          BY <3>1, <4>1, <4>2, <4>3, ParentDraws DEF VesselInv
        <5>2. QED
          BY <1>11, <3>1, <3>2, <5>1 DEF Waits, Earned
      <4>5. /\ CallsAreEarned'
            /\ settling' # NotSettling => settling'.occ \in Exposed
            /\ answering' # NotAnswering => answering'.occ \in Exposed
            /\ proposal = NotSettling \/ Concluding(parent)'
        BY <3>1, <3>6, <4>1, <4>4, ProposeEarned
      <4>6. Waits(parent)' \/ Concluding(parent)'
        BY <3>1, <4>4, <4>5, ProgramTypes, <1>3 DEF Proposal, NotSettling
      <4>7. QED
        BY <4>5, <4>6
    <3>7. QED
      BY <3>4, <3>5, <3>6 DEF ChildOutcome
  <2>3. QED
    BY <2>1, <2>2
<1>20. NotBeforeExposure' /\ OnlyDeducible'
  <2>1. \A o \in Occ : state'[o] = "undeduced" => state[o] = "undeduced"
    BY <1>6 DEF Withdraw
  <2>2. QED
    BY <1>6, <1>11, <1>17, <1>19, <2>1 DEF OutcomeInv, NotBeforeExposure, OnlyDeducible
<1>21. OpenScopesWait'
  BY <1>11, <1>18, <1>19 DEF OpenScopesWait
<1>22. ResultFollowsRoot'
  <2>1. ~Quiet
    BY DEF SettleScope, Quiet
  <2>2. pc' # "deliver"
    BY <1>6, <2>1 DEF NothingMoved
  <2>3. CASE x = Root
    <3>1. parent = NoOcc
      BY <1>5, <2>3, AncestorsUnfold
    <3>2. ~Settled(Root) /\ scope'[Root] = st
      BY <1>3, <1>8, <2>3
    <3>3. CASE result = "none"
      <4>1. result' = Status(st) /\ ending' = "settled"
        BY <1>6, <3>1, <3>3
      <4>2. <<st, Status(st)>> \in {<<"Satisfied", "Succeeded">>, <<"Failed", "Failed">>,
                                    <<"Cancelled", "Cancelled">>}
            /\ Status(st) # "none"
        BY DEF Status
      <4>3. QED
        BY <2>2, <3>2, <4>1, <4>2 DEF ResultFollowsRoot
    <3>4. CASE result # "none"
      <4>1. UNCHANGED <<result, ending>>
        BY <1>6, <3>4
      <4>2. ending # "settled"
        BY <3>2 DEF OutcomeInv, ResultFollowsRoot, Settled, Terminal
      <4>3. QED
        BY <2>2, <3>4, <4>1, <4>2 DEF OutcomeInv, ResultFollowsRoot
    <3>5. QED
      BY <3>3, <3>4
  <2>4. CASE x # Root
    <3>1. parent # NoOcc
      BY <1>3, <1>5, <2>4, AncestorsUnfold
    <3>2. UNCHANGED <<result, ending>>
      BY <1>6, <3>1
    <3>3. Root \in Occ /\ scope'[Root] = scope[Root]
      BY <1>7, <1>8, <2>4, AncestorsUnfold, ProgramTypes
    <3>4. QED
      BY <2>2, <3>2, <3>3 DEF OutcomeInv, ResultFollowsRoot, Settled
  <2>5. QED
    BY <2>3, <2>4
<1>23. QED
  BY <1>15, <1>16, <1>19, <1>20, <1>21, <1>22 DEF OutcomeInv

-----------------------------------------------------------------------------
(* Outcomes follow the tree: the theorems.                                 *)

\* What holds throughout a run: the outcomes, and what their steps rely on.
RunInv == OutcomeInv /\ EventsAreExposed

\* Every step keeps it.
LEMMA RunInvStep == VesselInv /\ NothingMoved /\ RunInv /\ [VesselNext]_vesselVars => RunInv'
<1> SUFFICES ASSUME VesselInv, NothingMoved, RunInv, [VesselNext]_vesselVars
             PROVE  RunInv'
  OBVIOUS
<1>1. OutcomeInv /\ EventsAreExposed
  BY DEF RunInv
<1>2. SUFFICES OutcomeInv'
  BY <1>1, EventsAreExposedStep DEF RunInv
<1>3. CASE Inner
  <2>1. CASE SettleScope
    BY <1>1, <2>1, SettleScopeOutcomes
  <2>2. CASE settling = NotSettling /\ ApplyAction
    BY <1>1, <2>2, ApplyOutcomes
  <2>3. CASE settling = NotSettling /\ Answered
    BY <1>1, <2>3, AnsweredOutcomes
  <2>4. QED
    BY <1>3, <2>1, <2>2, <2>3 DEF Inner
<1>4. CASE Quiet /\ (Routine \/ Step \/ CallIn)
  <2>1. CASE SurfaceFailure \/ SchedulerDemand \/ Deduction
    BY <1>1, <1>4, <2>1, DemandOutcomes
  <2>2. CASE Pumped \/ Dispatched \/ Stuck \/ Step
    BY <1>1, <1>4, <2>2, ReactorOutcomes
  <2>3. CASE Handle
    BY <1>1, <1>4, <2>3, HandleOutcomes
  <2>4. CASE Dispatch
    BY <1>1, <1>4, <2>4, DispatchOutcomes
  <2>5. CASE Deliver
    BY <1>1, <1>4, <2>5, DeliverOutcomes
  <2>6. CASE CallIn
    BY <1>1, <1>4, <2>6, CallOutcomes
  <2>7. QED
    BY <1>4, <2>1, <2>2, <2>3, <2>4, <2>5, <2>6 DEF Routine
<1>5. CASE UNCHANGED vesselVars
  <2>1. UNCHANGED <<vars, schedulerVars, hostVars, controlVars, outcomeVars>>
    BY <1>5 DEF vesselVars
  <2>2. UNCHANGED <<order, scope, settling, answering, timeline, state, td, attempts, inflight, result, ending, pc>>
    BY <2>1 DEF vars, carouselVars, touchdownVars, schedulerVars, hostVars, controlVars, outcomeVars
  <2>3. ScopesOpen /\ NoWorkAppears
    BY <2>2 DEF ScopesOpen, NoWorkAppears, InFlight
  <2>4. CallsAreEarned'
    <3>1. \A o \in Occ : Earned(o)' = Earned(o) /\ Settled(o)' = Settled(o)
      BY <2>2 DEF Earned, InFlight, Children, Exposed, Settled
    <3>2. settling # NotSettling => settling.occ \in Occ
      BY <1>1 DEF VesselInv, CallsInProgress
    <3>3. answering # NotAnswering => answering.occ \in Occ /\ Ancestors[answering.occ] \subseteq Occ
      BY AncestorsUnfold DEF VesselInv, CallsInProgress
    <3>4. /\ settling = NotSettling => settling.st = "none"
          /\ answering = NotAnswering => answering.event = "none"
      BY DEF NotSettling, NotAnswering
    <3>5. QED
      BY <1>1, <2>2, <3>1, <3>2, <3>3, <3>4 DEF OutcomeInv, CallsAreEarned
  <2>5. ResultFollowsRoot' /\ \A p \in Exposed : Concluding(p) => Concluding(p)'
    BY <1>1, <2>2 DEF OutcomeInv, ResultFollowsRoot, Settled, Concluding
  <2>6. QED
    BY <1>1, <2>2, <2>3, <2>4, <2>5, OtherOutcomes DEF OutcomeInv, NotBeforeExposure
<1>6. QED
  BY <1>3, <1>4, <1>5 DEF VesselNext

\* RunInv holds in every state of every run.
LEMMA OutcomeInvariance == VesselSpec => []RunInv
<1>1. VesselInit => RunInv
  <2>1. VesselInit => DOMAIN events = {}
    <3>1. DOMAIN << >> = 1..0
      OBVIOUS
    <3>2. QED
      BY <3>1 DEF VesselInit
  <2>2. QED
    BY <2>1, OutcomeInitInv DEF RunInv, EventsAreExposed
<1>2. QED
  BY <1>1, RunInvStep, NothingMovedInvariance, VesselInvariance, PTL DEF VesselSpec

\* settle and cancelSubtree leave nothing behind: no demand, deduction,
\* Touchdown or open scope is left under a scope that has its outcome.
THEOREM SettledScopesAreQuiet == VesselSpec => []SettledIsQuiet
<1>1. RunInv => SettledIsQuiet
  BY DEF RunInv, OutcomeInv, QuietUnderSettled, SettledIsQuiet
<1>2. QED
  BY <1>1, OutcomeInvariance, PTL

\* The outcome table of poc-baseline/0, as evaluateParent and settle keep it
\* together: a satisfied composite has only satisfied children, an open one
\* waits for a child and has lost none.
THEOREM OutcomesFollowRules == VesselSpec => []OutcomeRules
<1>1. VesselInv /\ RunInv => OutcomeRules
  <2> SUFFICES ASSUME VesselInv, RunInv, Quiet, NEW p \in Exposed, Children(p) # {}
               PROVE  /\ scope[p] = "Satisfied" => \A c \in Children(p) : scope[c] = "Satisfied"
                      /\ ~Settled(p) => /\ \A c \in Children(p) : scope[c] \notin Terminal \ {"Satisfied"}
                                        /\ \E c \in Children(p) : scope[c] # "Satisfied"
    BY DEF OutcomeRules
  <2>1. p \in Occ /\ p \notin Leaf
    BY ExposureFollowsTree, Composition DEF VesselInv, Children, ChildrenOf
  <2>2. Settled(p) \/ Waits(p)
    BY QuietScopesWait DEF RunInv, VesselInv
  <2>3. QED
    BY <2>1, <2>2 DEF RunInv, OutcomeInv, SatisfactionIsEarned, Earned, Waits
<1>2. QED
  BY <1>1, OutcomeInvariance, VesselInvariance, PTL

\* When the Root is satisfied everything exposed is, and nothing is under way.
LEMMA RootTakesAll ==
  ASSUME VesselInv, RunInv, scope[Root] = "Satisfied"
  PROVE  /\ \A o \in Exposed : scope[o] = "Satisfied"
         /\ window = {} /\ inflight = {}
<1>1. Exposed \subseteq Occ /\ Leaf \subseteq Occ
  BY ExposureFollowsTree DEF VesselInv, Leaf
<1>2. \A o \in Exposed : scope[o] = "Satisfied"
  <2> DEFINE T == {q \in Exposed : scope[q] # "Satisfied"}
  <2>1. ASSUME T # {}
        PROVE  FALSE
    <3>1. PICK q \in T : Parent[q] \notin T
      BY <1>1, <2>1, TopOccurrence
    <3>2. q # Root /\ q \in Occ
      BY <1>1
    <3>3. Parent[q] \in Exposed /\ Parent[q] \in Occ
      BY <1>1, <3>2, AncestorsUnfold, ExposureFollowsTree DEF VesselInv
    <3>4. scope[Parent[q]] = "Satisfied"
      BY <3>1, <3>3
    <3>5. q \in Children(Parent[q]) /\ q \in ChildrenOf(Parent[q])
      BY <3>2 DEF Children, ChildrenOf
    <3>6. Parent[q] \notin Leaf /\ Earned(Parent[q])
      BY <3>3, <3>4, <3>5, Composition DEF RunInv, OutcomeInv, SatisfactionIsEarned
    <3>7. scope[q] = "Satisfied"
      BY <3>5, <3>6 DEF Earned
    <3>8. QED
      BY <3>7
  <2>2. QED
    BY <2>1
<1>3. window = {}
  <2>1. \A l \in window : l \in Leaf /\ l \in Exposed /\ td[l] = "buffered"
    BY DEF VesselInv, Inv, CarouselTypeOK, WindowCountsUnacknowledged
  <2>2. \A l \in window : Settled(l)
    BY <1>2, <2>1 DEF Settled, Terminal
  <2>3. QED
    BY <2>1, <2>2 DEF RunInv, OutcomeInv, QuietUnderSettled
<1>4. inflight = {}
  <2> SUFFICES ASSUME NEW a \in inflight
               PROVE  FALSE
    OBVIOUS
  <2>1. a.leaf \in Leaf /\ attempts[a.leaf] > 0
    BY DEF VesselInv, WorkTypes, AttemptAccounting
  <2>2. a.leaf \in Exposed
    BY <2>1 DEF VesselInv, AttemptAccounting, Inv, WindowCountsUnacknowledged
  <2>3. Earned(a.leaf)
    BY <1>1, <1>2, <2>2 DEF RunInv, OutcomeInv, SatisfactionIsEarned
  <2>4. QED
    BY <2>1, <2>3 DEF Earned, InFlight
<1>5. QED
  BY <1>2, <1>3, <1>4

\* finish: a run ends with its Root's outcome unless it gave up, and a run
\* that succeeds has satisfied everything it ever exposed, speculation
\* included, with no Touchdown and no attempt left over.
THEOREM ResultIsEarned == VesselSpec => []ResultIsRootOutcome
<1>1. VesselInv /\ RunInv => ResultIsRootOutcome
  <2> SUFFICES ASSUME VesselInv, RunInv
               PROVE  ResultIsRootOutcome
    OBVIOUS
  <2>1. ResultFollowsRoot
    BY DEF RunInv, OutcomeInv
  <2>2. result = "Succeeded" => scope[Root] = "Satisfied"
    BY <2>1 DEF ResultFollowsRoot
  <2>3. QED
    BY <2>1, <2>2, RootTakesAll DEF ResultFollowsRoot, ResultIsRootOutcome
<1>2. QED
  BY <1>1, OutcomeInvariance, VesselInvariance, PTL

-----------------------------------------------------------------------------
(* The steps a watcher tells apart.                                        *)

\* What disclosures, outcomes, outputs and attempts consist of.
watchedVars == <<order, scope, values, attempts, result>>

\* A deduction commits.
Discloses ==
  /\ pc = "pump" /\ Quiet
  /\ \E o \in Deducible, cause \in {"demand", "prefetch"} : state[o] = "undeduced" /\ DeduceCommits(o, cause)
  /\ UNCHANGED <<scope, values, attempts, result>>

\* An attempt begins in an open run, for a leaf that is ready.
Begins(l) ==
  /\ settling = NotSettling /\ result = "none"
  /\ pc = "dispatch" \/ answering.event = "BeforeAttempt"
  /\ \A q \in {l} \cup Ancestors[l] : ~Settled(q) /\ \A d \in Deps[q] : scope[d] = "Satisfied"
  /\ attempts' = [attempts EXCEPT ![l] = @ + 1]
  /\ UNCHANGED <<order, scope, values, result>>

\* handle opens a scope.
Opens == Quiet /\ Handle /\ ScopesOpen /\ UNCHANGED <<order, values, attempts, result>>

\* The run gives up.
GivesUp == result = "none" /\ result' = "Failed" /\ UNCHANGED <<order, scope, values, attempts>>

\* StartAttempt begins an attempt or calls settle.
LEMMA StartBegins ==
  ASSUME NEW l \in Leaf, StartAttempt(l)
  PROVE  /\ UNCHANGED <<order, values>>
         /\ \/ attempts' = [attempts EXCEPT ![l] = @ + 1] /\ UNCHANGED settling
            \/ UNCHANGED attempts
<1>1. CASE \E outcome \in Outcomes[l] : Invoke(l, outcome)
  BY <1>1 DEF Invoke, StartAttempt
<1>2. QED
  BY <1>1 DEF StartAttempt

\* Every step is one of these, or nothing a watcher sees.
LEMMA RunSteps ==
  ASSUME VesselInv, NothingMoved, RunInv, [VesselNext]_vesselVars
  PROVE  \/ UNCHANGED watchedVars
         \/ Discloses
         \/ \E l \in Leaf \cap Exposed : Begins(l)
         \/ Opens
         \/ SettleScope
         \/ GivesUp
<1>1. CASE settling = NotSettling /\ ApplyAction
  BY <1>1 DEF ApplyAction, vars, carouselVars, watchedVars
<1>2. CASE settling = NotSettling /\ Answered
  <2>1. UNCHANGED <<scope, result>>
    BY <1>2 DEF Answered
  <2>2. CASE answering.event = "BeforeAttempt" /\ ~Held(answering.occ)
    <3>1. PICK l \in Leaf \cap Exposed : l = answering.occ
      <4>1. answering # NotAnswering
        BY <2>2 DEF NotAnswering
      <4>2. QED
        BY <2>2, <4>1 DEF VesselInv, CallsInProgress, MayStart, RunInv, OutcomeInv, NotBeforeExposure
    <3>2. StartAttempt(l)
      BY <1>2, <2>2, <3>1 DEF Answered
    <3>3. /\ result = "none"
          /\ \A q \in {l} \cup Ancestors[l] : ~Settled(q) /\ \A d \in Deps[q] : scope[d] = "Satisfied"
      BY <2>2, <3>1 DEF RunInv, OutcomeInv, CallsAreEarned, VesselInv, CallsInProgress, MayStart
    <3>4. Begins(l) \/ UNCHANGED watchedVars
      BY <1>2, <2>1, <2>2, <3>2, <3>3, StartBegins DEF Begins, watchedVars
    <3>5. QED
      BY <3>4
  <2>3. CASE ~(answering.event = "BeforeAttempt" /\ ~Held(answering.occ))
    <3>1. UNCHANGED <<vars, attempts>>
      BY <1>2, <2>3 DEF Answered
    <3>2. QED
      BY <2>1, <3>1 DEF vars, carouselVars, watchedVars
  <2>4. QED
    BY <2>2, <2>3
<1>3. CASE Quiet /\ Deduction
  <2>1. UNCHANGED <<scope, attempts, result>> /\ pc = "pump" /\ UNCHANGED values
    BY <1>3 DEF Deduction, schedulerVars, outcomeVars, Replenish, ServeDemand, Speculate, Deduce,
                DemandServed, EndReplenish
  <2>2. CASE UNCHANGED order
    BY <2>1, <2>2 DEF watchedVars
  <2>3. CASE \E o \in Deducible, cause \in {"demand", "prefetch"} :
               /\ state[o] = "undeduced"
               /\ DeduceCommits(o, cause) \/ DeduceFails(o, cause)
    BY <1>3, <2>1, <2>2, <2>3 DEF Discloses, DeduceFails
  <2>4. CASE Handle
    BY <2>1, <2>2, <2>4 DEF Handle
  <2>5. QED
    BY <2>2, <2>3, <2>4, EventSteps
<1>4. CASE Quiet /\ Handle
  <2>1. ScopesOpen
    BY <1>4, HandlesHead DEF RunInv
  <2>2. QED
    BY <1>4, <2>1 DEF Handle, Opens
<1>5. CASE Quiet /\ Dispatch
  <2>1. UNCHANGED <<scope, result>> /\ pc = "dispatch" /\ result = "none" /\ settling = NotSettling
    BY <1>5 DEF Dispatch, Quiet
  <2>2. PICK l \in Leaf \cap Exposed :
          /\ MayStart(l) /\ scope[l] = "Open" /\ StructurallyReady(l)
          /\ BeforeAttempt(l) \/ \E ticks \in Withhold : WithholdDispatch(l, ticks)
    BY <1>5, DispatchPicks
  <2>3. CASE StartAttempt(l)
    <3>1. \A q \in {l} \cup Ancestors[l] : ~Settled(q) /\ \A d \in Deps[q] : scope[d] = "Satisfied"
      BY <2>2 DEF StructurallyReady, Settled, Terminal
    <3>2. Begins(l) \/ UNCHANGED watchedVars
      BY <2>1, <2>3, <3>1, StartBegins DEF Begins, watchedVars
    <3>3. QED
      BY <3>2
  <2>4. CASE ~StartAttempt(l)
    BY <2>1, <2>2, <2>4 DEF BeforeAttempt, WithholdDispatch, vars, carouselVars, watchedVars
  <2>5. QED
    BY <2>3, <2>4
<1>6. CASE Quiet /\ (SurfaceFailure \/ SchedulerDemand \/ Pumped \/ Dispatched \/ Deliver \/ CallIn)
  BY <1>6 DEF SurfaceFailure, SchedulerDemand, Pumped, Dispatched, Deliver, CallIn, RunDemand, Demand, CancelScope,
              RunSetPrefetch, SetPrefetch, RivalConsume, Advance, vars, carouselVars, schedulerVars,
              outcomeVars, watchedVars
<1>7. CASE Quiet /\ (Stuck \/ Step)
  <2>1. UNCHANGED <<order, scope, values, attempts>>
    BY <1>7 DEF Stuck, Step, vars, carouselVars, schedulerVars
  <2>2. result = "none"
    BY <1>7 DEF Stuck, Step, RunInv, OutcomeInv, ResultFollowsRoot
  <2>3. result' = "Failed" \/ UNCHANGED result
    BY <1>7 DEF Stuck, Step
  <2>4. QED
    BY <2>1, <2>2, <2>3 DEF GivesUp, watchedVars
<1>8. CASE UNCHANGED vesselVars
  BY <1>8 DEF vesselVars, vars, carouselVars, schedulerVars, outcomeVars, watchedVars
<1>9. QED
  BY <1>1, <1>2, <1>3, <1>4, <1>5, <1>6, <1>7, <1>8 DEF VesselNext, Inner, Routine

-----------------------------------------------------------------------------
(* A run implements Voyage.tla.                                            *)

\* The Root is all a watcher sees at Start.
LEMMA VoyageStarts == VesselInit => Watched!Init
<1> SUFFICES ASSUME VesselInit
             PROVE  Watched!Init
  OBVIOUS
<1> USE DEF VesselInit
<1>1. Exposed = {Root}
  <2>1. DOMAIN order = 1..1 /\ order[1] = Root
    OBVIOUS
  <2>2. QED
    BY <2>1 DEF Exposed
<1>2. \A o \in Occ : scope[o] \notin Terminal
  BY ProgramTypes DEF Terminal
<1>3. Outcome = [o \in Occ |-> "none"]
  BY <1>2 DEF Outcome
<1>4. QED
  BY <1>1, <1>3 DEF Watched!Init

\* What Voyage.tla calls an unsettled occurrence, its parts and what is open
\* below it.
LEMMA WatchedScopes ==
  /\ \A o \in Occ : Outcome[o] = IF Settled(o) THEN scope[o] ELSE "none"
  /\ \A o \in Occ : Outcome[o] = "none" <=> ~Settled(o)
  /\ \A o \in Occ : Outcome[o] = "Satisfied" <=> scope[o] = "Satisfied"
  /\ \A o : Watched!Kids(o) = Children(o)
BY DEF Outcome, Settled, Terminal, Watched!Kids, Children

\* A deduction that commits discloses one body, whole.
LEMMA VoyageDiscloses ==
  ASSUME VesselInv, RunInv, Discloses
  PROVE  Watched!Next
<1>1. PICK o \in Deducible, cause \in {"demand", "prefetch"} :
        state[o] = "undeduced" /\ DeduceCommits(o, cause)
  BY DEF Discloses
<1>2. /\ Exposed' = Exposed \cup StagedSet(o)
      /\ StagedSet(o) \subseteq Occ /\ StagedSet(o) \cap Exposed = {}
  BY <1>1, CommitExposes, StagedIsNew DEF VesselInv
<1>3. o \in Occ /\ o \in Exposed
  BY <1>1 DEF Deducible, VesselInv, Inv, ExposureIsAtomic
<1>4. ~Settled(o)
  BY <1>1, <1>3 DEF RunInv, OutcomeInv, QuietUnderSettled
<1>5. Children(o) = {}
  BY <1>1, ExposureFollowsTree DEF VesselInv
<1>6. \A q \in StagedSet(o) : q \in Occ \ Exposed /\ o \in Ancestors[q] /\ Parent[q] \in {o} \cup StagedSet(o)
  BY <1>2, StagedBelow
<1>7. UNCHANGED <<Outcome, values, attempts, result>>
  BY DEF Discloses, Outcome
<1>8. Watched!Disclose(o)
  <2>1. Watched!Unsettled(o) /\ Watched!Kids(o) = {}
    BY <1>3, <1>4, <1>5, WatchedScopes DEF Watched!Unsettled
  <2>2. StagedSet(o) \in SUBSET {q \in Occ \ Exposed : o \in Ancestors[q]}
    BY <1>6
  <2>3. QED
    BY <1>2, <1>6, <1>7, <2>1, <2>2 DEF Watched!Disclose
<1>9. QED
  BY <1>3, <1>8 DEF Watched!Next

\* An attempt begins where the watcher allows it.
LEMMA VoyageBegins ==
  ASSUME VesselInv, NEW l \in Leaf \cap Exposed, Begins(l)
  PROVE  Watched!Next
<1>1. l \in Occ /\ \A q \in {l} \cup Ancestors[l] : q \in Occ /\ Deps[q] \subseteq Occ
  BY RunTypes, ProgramTypes, AncestorsUnfold DEF Leaf
<1>2. UNCHANGED <<Exposed, Outcome, values, result>>
  BY DEF Begins, Exposed, Outcome
<1>3. Watched!Begin(l)
  BY <1>1, <1>2, WatchedScopes DEF Begins, Watched!Begin, Watched!Unsettled
<1>4. QED
  BY <1>3 DEF Watched!Next

\* settle satisfies a scope that has earned it, or breaks it and everything
\* open below it.
LEMMA VoyageSettles ==
  ASSUME VesselInv, RunInv, SettleScope
  PROVE  Watched!Next
<1>1. PICK x \in Exposed, st \in {"Satisfied", "Failed", "Cancelled"}, out \in {"value", "NoOutput", "unresolved"} :
        settling = [occ |-> x, st |-> st, out |-> out] /\ (st = "Satisfied" => Earned(x))
  <2>1. settling # NotSettling
    BY DEF SettleScope
  <2>2. /\ settling = [occ |-> settling.occ, st |-> settling.st, out |-> settling.out]
        /\ settling.out \in {"value", "NoOutput", "unresolved"}
    BY DEF VesselInv, CallTypes
  <2>3. settling.occ \in Exposed /\ settling.st \in Terminal
    BY <2>1 DEF RunInv, OutcomeInv, NotBeforeExposure, VesselInv, CallsInProgress
  <2>4. settling.st \in {"Satisfied", "Failed", "Cancelled"}
    BY <2>3 DEF RunInv, OutcomeInv, CallsAreEarned, Terminal
  <2>5. QED
    BY <2>2, <2>3, <2>4 DEF RunInv, OutcomeInv, CallsAreEarned
<1>2. settling.occ = x /\ settling.st = st /\ settling.out = out
  BY <1>1
<1>3. x \in Occ /\ Exposed \subseteq Occ /\ ~Settled(x)
  BY <1>2, ExposureFollowsTree DEF SettleScope, VesselInv, CallsInProgress
<1>4. PICK D : D = IF st = "Satisfied" THEN {} ELSE Dropped(x)
  OBVIOUS
<1>5. /\ scope' = [q \in Occ |->
                     IF q = x THEN st
                     ELSE IF q \notin D THEN scope[q]
                     ELSE IF q \in Undeduced(D) THEN "Withdrawn" ELSE "Cancelled"]
      /\ values' = IF st = "Satisfied" THEN [values EXCEPT ![x] = out] ELSE values
      /\ IF Parent[x] = NoOcc /\ result = "none" THEN result' = Status(st) ELSE UNCHANGED result
      /\ UNCHANGED <<order, attempts>>
  BY <1>2, <1>4 DEF SettleScope, schedulerVars
<1>6. UNCHANGED Exposed /\ Watched!Unsettled(x)
  BY <1>3, <1>5, WatchedScopes DEF Exposed, Watched!Unsettled
<1>7. Watched!Decide(x, st)
  BY <1>3, <1>5, AncestorsUnfold DEF Watched!Decide, Status
<1>8. Outcome' = [q \in Occ |->
                    IF q = x THEN st
                    ELSE IF q \in D THEN IF q \in Undeduced(D) THEN "Withdrawn" ELSE "Cancelled"
                    ELSE Outcome[q]]
  BY <1>5 DEF Outcome, Terminal
<1>9. CASE st = "Satisfied"
  <2>1. Outcome' = [Outcome EXCEPT ![x] = "Satisfied"]
    BY <1>4, <1>8, <1>9 DEF Outcome
  <2>2. IF x \in Leaf THEN attempts[x] > 0
        ELSE Watched!Kids(x) # {} /\ \A q \in Watched!Kids(x) : Outcome[q] = "Satisfied"
    <3>1. Children(x) \subseteq Occ
      BY <1>3 DEF Children
    <3>2. QED
      BY <1>1, <1>9, <3>1, WatchedScopes DEF Earned
  <2>3. Watched!Satisfy(x, out)
    BY <1>5, <1>6, <1>7, <1>9, <2>1, <2>2 DEF Watched!Satisfy
  <2>4. QED
    BY <1>3, <2>3 DEF Watched!Next
<1>10. CASE st # "Satisfied"
  <2>1. D = Watched!OpenBelow(x)
    BY <1>3, <1>4, <1>10, WatchedScopes DEF Dropped, Under, Watched!OpenBelow
  <2>2. Undeduced(D) \in SUBSET {q \in Watched!OpenBelow(x) \ Leaf : Watched!Kids(q) = {}}
    <3>1. \A q \in Undeduced(D) : q \in D /\ q \notin Leaf /\ Children(q) = {}
      BY ExposureFollowsTree DEF VesselInv, Undeduced, Deducible, Leaf
    <3>2. QED
      BY <2>1, <3>1, WatchedScopes
  <2>3. Outcome' = [q \in Occ |->
                      IF q = x THEN st
                      ELSE IF q \in Undeduced(D) THEN "Withdrawn"
                      ELSE IF q \in Watched!OpenBelow(x) THEN "Cancelled" ELSE Outcome[q]]
    BY <1>8, <2>1 DEF Undeduced
  <2>4. Watched!Break(x, st)
    BY <1>5, <1>6, <1>7, <1>10, <2>2, <2>3 DEF Watched!Break
  <2>5. QED
    BY <1>1, <1>3, <1>10, <2>4 DEF Watched!Next
<1>11. QED
  BY <1>9, <1>10

\* Every run keeps the promise of Voyage.tla: what the code does in many
\* routines discloses, begins, satisfies, breaks or gives up as a watcher may
\* expect, or changes nothing a watcher sees.
THEOREM RunsKeepThePromise == VesselSpec => KeepsVoyage
<1>1. VesselInv /\ NothingMoved /\ RunInv /\ [VesselNext]_vesselVars => [Watched!Next]_(Watched!voyageVars)
  <2> SUFFICES ASSUME VesselInv, NothingMoved, RunInv, [VesselNext]_vesselVars
               PROVE  Watched!Next \/ UNCHANGED Watched!voyageVars
    OBVIOUS
  <2>1. CASE UNCHANGED watchedVars
    BY <2>1 DEF watchedVars, Exposed, Outcome, Watched!voyageVars
  <2>2. CASE Opens
    <3>1. \A o \in Occ : scope'[o] = scope[o] \/ (scope[o] \notin Terminal /\ scope'[o] \notin Terminal)
      BY <2>2 DEF Opens, ScopesOpen, Settled
    <3>2. UNCHANGED Outcome
      BY <3>1 DEF Outcome
    <3>3. QED
      BY <2>2, <3>2 DEF Opens, Exposed, Watched!voyageVars
  <2>3. CASE GivesUp
    <3>1. Watched!GiveUp
      BY <2>3 DEF GivesUp, Exposed, Outcome, Watched!GiveUp
    <3>2. QED
      BY <3>1 DEF Watched!Next
  <2>4. QED
    BY <2>1, <2>2, <2>3, RunSteps, VoyageDiscloses, VoyageBegins, VoyageSettles
<1>2. QED
  BY <1>1, VoyageStarts, OutcomeInvariance, NothingMovedInvariance, VesselInvariance, PTL
     DEF VesselSpec, KeepsVoyage, Watched!Spec
=============================================================================
