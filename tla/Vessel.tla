-------------------------------- MODULE Vessel --------------------------------
(***************************************************************************)
(* One Program execution: runtime/runtime.go's Run around the deduction    *)
(* engine of Carousel.tla.  Run.Step stabilizes (schedulerDemand,          *)
(* Replenish and handle until nothing changes, then dispatch, and again),  *)
(* then delivers one item of the virtual timeline.  Every routine is a     *)
(* step of its own here; nothing else runs meanwhile, because the Go Run   *)
(* is single-threaded and a caller gets in only between calls (pc "idle"). *)
(*                                                                         *)
(* A policy is what its interpreter may answer to each event (Interp): the *)
(* answers are applied one action at a time, and then the routine that     *)
(* asked goes on.  Diagnostics, trace records and the loop guards of 10000 *)
(* iterations are left out: further passes after one that changed nothing  *)
(* repeat it.                                                              *)
(***************************************************************************)
EXTENDS Carousel

CONSTANTS
  Rejected,       \* occurrences with a @policy that bind may refuse
  Interp,         \* [Occ -> [PolicyEvent -> sets of answers]]: {<<>>} without a policy
  Own,            \* \in Attempt: a leaf's attempt number 1; others are rivals
  Concurrency,    \* attempts in flight at once
  Outcomes,       \* [Leaf -> SUBSET [status, out, ticks]]: what its Host may answer
  Withhold,       \* ticks WithholdFirstDispatch may return, 0: dispatch normally
  MaxAttempts,    \* bound: nobody asks for a reattempt after this many attempts
  MaxSteps,       \* Config.MaxSteps
  ReadyMode,      \* DemandReady, or DemandManual
  Calls           \* what the caller does between steps, besides Step

PolicyEvent == {"ScopeOpened", "ChildScopeOutcome", "BeforeAttempt", "AttemptOutcome",
                "TimerFired", "ScopeOutcomeProposed"}

\* Emit, which only traces, is an Admit here.
ActionKind == {"Admit", "Hold", "StartTimer", "Reattempt", "CancelScope", "FailScope", "unknown"}

Action == [kind : ActionKind, ticks : Nat]

ASSUME RunTypes ==
  /\ Rejected \subseteq Occ \ {Root}
  /\ Interp \in [Occ -> [PolicyEvent -> SUBSET Seq(Action)]]
  /\ \A e \in PolicyEvent : Interp[Root][e] = {<<>>}
  /\ Own \in Attempt
  /\ Concurrency \in Nat \ {0} /\ MaxAttempts \in Nat \ {0} /\ MaxSteps \in Nat \ {0}
  /\ Outcomes \in [Leaf -> SUBSET [status : {"Succeeded", "Failed", "Cancelled"},
                                   out : {"value", "NoOutput"}, ticks : Nat]]
  /\ Withhold \subseteq Nat
  /\ ReadyMode \in BOOLEAN
  /\ Calls \subseteq {"Demand", "SetPrefetch", "CancelScope", "Cancel", "Advance", "Rival"}

VARIABLES
  scope,        \* [Occ -> ScopeState, "none" before the exposure is handled]
  refused,      \* occurrences whose policies could not be bound
  deferred,     \* occurrences with a failure found by speculative prefetch
  attempts,     \* [Leaf -> number of attempts started]
  notBefore,    \* [Leaf -> earliest time of the next attempt]
  withheld,     \* leaves WithholdFirstDispatch was asked about
  inflight,     \* attempts whose completion was not delivered yet
  timeline,     \* items in delivery order: by time, then by insertion
  now,          \* the virtual clock
  steps,        \* reactor iterations
  result,       \* the run's Status, or "none"
  ending,       \* auxiliary: what finished the run
  pc,           \* which routine runs: "idle", "sched", "pump", "dispatch", "deliver"
  after,        \* where stabilize returns to: "deliver" (Step) or "idle" (Advance)
  moved,        \* this stabilization pass changed something
  settling,     \* the settle call in progress, or NotSettling
  answering     \* the policy answers being applied, or NotAnswering

schedulerVars == <<refused, deferred, attempts, notBefore, withheld>>
hostVars == <<inflight, timeline, now>>
controlVars == <<steps, pc, after, moved>>
outcomeVars == <<scope, result, ending, settling, answering>>
vesselVars == <<vars, schedulerVars, hostVars, controlVars, outcomeVars>>

NotSettling == [occ |-> NoOcc, st |-> "none", out |-> "unresolved"]
NotAnswering == [occ |-> NoOcc, event |-> "none", acts |-> <<>>, st |-> "none", out |-> "unresolved"]

-----------------------------------------------------------------------------
(* Structure.                                                              *)

Ancestors[o \in Occ] ==
  IF Parent[o] = NoOcc THEN {} ELSE {Parent[o]} \cup Ancestors[Parent[o]]

\* The children disclosed so far.
Children(p) == {q \in Exposed : Parent[q] = p}

ASSUME ParentsLeadUp == LeadUp
ASSUME Composition == Composed
ASSUME Dependence == Dependent

\* Mutant: only the direct children are under a scope.
DirectlyUnder(p) == {q \in Exposed : Parent[q] = p}

Under(p) == {q \in Exposed : p \in Ancestors[q]}

\* Mutant: the first element of a serial composition, which waits for none.
FirstChild(p) == CHOOSE q \in ChildrenOf(p) : Deps[q] = {}

\* The element of a serial composition no other element waits for.
LastChild(p) == CHOOSE q \in ChildrenOf(p) : \A c \in ChildrenOf(p) : q \notin Deps[c]

Terminal == {"Satisfied", "Failed", "Cancelled", "Withdrawn"}
Settled(o) == scope[o] \in Terminal

\* Mutant: serial predecessors of the scopes around an occurrence are ignored.
ReadyAlone(o) ==
  /\ \A d \in Deps[o] : scope[d] = "Satisfied"
  /\ \A q \in Ancestors[o] : ~Settled(q)

StructurallyReady(o) ==
  /\ \A q \in {o} \cup Ancestors[o] : \A d \in Deps[q] : scope[d] = "Satisfied"
  /\ \A q \in Ancestors[o] : ~Settled(q)

\* Mutant: an attempt is forgotten as soon as it was started.
NeverInFlight(l) == l \notin Leaf

InFlight(l) == \E a \in inflight : a.leaf = l

-----------------------------------------------------------------------------
(* Policies: notify and the order in which what it returns is applied.     *)

\* notify returns actions; st and out are what the routine that asked does
\* when none of them ends the scope.
Consult(o, event, st, out) ==
  \E acts \in Interp[o][event] \ {<<>>} :
     answering' = [occ |-> o, event |-> event, acts |-> acts, st |-> st, out |-> out]

\* notify returns nothing: no policy, or one without an opinion.
Silent(o, event) == <<>> \in Interp[o][event] /\ answering' = NotAnswering

\* An event nothing depends on.
Notify(o, event) == Consult(o, event, "none", "unresolved") \/ Silent(o, event)

-----------------------------------------------------------------------------
(* Outcomes: settle, cancelSubtree, evaluateParent, finish.                *)

\* A call of settle: a settled scope ignores it.
Settle(o, st, out) ==
  settling' = IF Settled(o) THEN NotSettling ELSE [occ |-> o, st |-> st, out |-> out]

\* Mutant: the scope state is taken for the status.
StatusIsState(st) == st

\* Mutant: a failed Root reads as a cancelled run.
StatusOrCancelled(st) == IF st = "Satisfied" THEN "Succeeded" ELSE "Cancelled"

Status(st) == CASE st = "Satisfied" -> "Succeeded"
                [] st = "Cancelled" -> "Cancelled"
                [] OTHER -> "Failed"

Proposal(p, st, out) == [occ |-> p, st |-> st, out |-> out]

\* What evaluateParent proposes for p, given the scopes s and outputs v.  A
\* scope with a child that has an outcome has all its children exposed.
EvaluateParent(p, s, v) ==
  LET kids == ChildrenOf(p)
      body == CHOOSE c \in kids : TRUE
      all == \A c \in kids : s[c] = "Satisfied"
  IN  IF Kind[p] \in {"Goal", "arrow"}
      THEN IF s[body] \notin Terminal THEN NotSettling
           ELSE Proposal(p, IF s[body] = "Withdrawn" THEN "Failed" ELSE s[body], v[body])
      ELSE IF \E c \in kids : s[c] \in {"Failed", "Cancelled", "Withdrawn"}
      THEN Proposal(p, "Failed", "unresolved")
      ELSE CASE Kind[p] = "serial" /\ s[LastChild(p)] = "Satisfied" ->
                  Proposal(p, "Satisfied", v[LastChild(p)])
             [] Kind[p] = "parallel" /\ all -> Proposal(p, "Satisfied", "NoOutput")
             [] Kind[p] = "map" /\ all ->
                  IF \E c \in kids : v[c] = "NoOutput" THEN Proposal(p, "Failed", "unresolved")
                  ELSE Proposal(p, "Satisfied", "value")
             [] OTHER -> NotSettling

\* The baseline outcome is shown to the policies of the scope before it stands.
Propose(proposal) ==
  \/ proposal = NotSettling /\ settling' = NotSettling /\ answering' = NotAnswering
  \/ /\ proposal # NotSettling
     /\ \/ /\ Consult(proposal.occ, "ScopeOutcomeProposed", proposal.st, proposal.out)
           /\ settling' = NotSettling
        \/ Silent(proposal.occ, "ScopeOutcomeProposed") /\ settling' = proposal

\* A child of p has its outcome: the policies of p first, then the baseline.
ChildOutcome(p, s, v) ==
  \/ Consult(p, "ChildScopeOutcome", "none", "unresolved") /\ settling' = NotSettling
  \/ <<>> \in Interp[p]["ChildScopeOutcome"] /\ Propose(EvaluateParent(p, s, v))

\* Mutant: outcomes under a failed scope are overwritten.
DroppedAll(x) == Under(x)

\* cancelSubtree reaches everything exposed below that has no outcome yet.
Dropped(x) == {q \in Under(x) : ~Settled(q)}

\* Mutant: the Host is left to finish what it started.
CancelNoAttempts(os) == UNCHANGED inflight

\* Host.Cancel; a cancelled attempt stays in flight until it completes.
CancelAttempts(os) ==
  inflight' = {[a EXCEPT !.cancelled = @ \/ a.leaf \in os] : a \in inflight}

\* settle on one scope: the outcome and its value are stored, everything open
\* under an unsatisfied scope is withdrawn or cancelled, the attempts in
\* flight under it are cancelled, Touchdowns nobody attempted are discarded,
\* and the parent (or the run) draws its conclusion.
SettleScope ==
  LET x == settling.occ
      st == settling.st
      dropped == IF st = "Satisfied" THEN {} ELSE Dropped(x)
      parent == Parent[x]
  IN  /\ settling # NotSettling
      /\ scope' = [q \in Occ |->
                     IF q = x THEN st
                     ELSE IF q \notin dropped THEN scope[q]
                     ELSE IF q \in Undeduced(dropped) THEN "Withdrawn" ELSE "Cancelled"]
      /\ values' = IF st = "Satisfied" THEN [values EXCEPT ![x] = settling.out] ELSE values
      /\ Withdraw(dropped \cup {x})
      /\ DiscardTouchdowns(dropped \cup {x})
      /\ CancelAttempts(dropped)
      /\ IF parent = NoOcc \/ scope[parent] \in Terminal
         THEN settling' = NotSettling /\ UNCHANGED answering
         ELSE ChildOutcome(parent, scope', values')
      /\ IF parent = NoOcc /\ result = "none"
         THEN result' = Status(st) /\ ending' = "settled"
         ELSE UNCHANGED <<result, ending>>
      /\ UNCHANGED <<order, prefetch, pass, events, ledger, schedulerVars, timeline, now, controlVars>>

-----------------------------------------------------------------------------
(* schedulerDemand and pump.                                               *)

\* Demanding an occurrence whose deduction failed speculatively surfaces it.
Surfaceable(o) == o \in deferred /\ state[o] = "failed" /\ ~Settled(o) /\ scope[o] # "none"

\* In Ready mode every structurally ready occurrence is demanded.  A failure
\* surfaced on the way settles the whole tree above it, after which nothing
\* demanded before it in the same loop is left: it is taken first.
\* Mutant: a deferred failure is surfaced at once.
FailuresAtOnce == {o \in Exposed : ReadyMode /\ Surfaceable(o)}

ReadyFailures == {o \in Exposed : ReadyMode /\ Surfaceable(o) /\ StructurallyReady(o)}
ReadyWork ==
  {o \in Exposed : ReadyMode /\ Accepts(o) /\ scope[o] \notin Terminal \cup {"none"}
                   /\ StructurallyReady(o)}

SurfaceFailure ==
  /\ pc = "sched" /\ ReadyFailures # {}
  /\ Settle(First(ReadyFailures), "Failed", "unresolved")
  /\ moved' = TRUE
  /\ UNCHANGED <<vars, schedulerVars, hostVars, steps, pc, after, scope, result, ending, answering>>

SchedulerDemand ==
  /\ pc = "sched" /\ ReadyFailures = {}
  /\ demanded' = demanded \cup ReadyWork
  /\ moved' = (moved \/ ReadyWork # {})
  /\ pass' = "demand"
  /\ pc' = "pump"
  /\ UNCHANGED <<order, state, touchdownVars, prefetch, events, ledger, values,
                 schedulerVars, hostVars, steps, after, outcomeVars>>

Deduction ==
  /\ pc = "pump" /\ pass # "idle" /\ Replenish
  /\ UNCHANGED <<schedulerVars, hostVars, controlVars, outcomeVars>>

\* Mutant: the refusal is reported, and the scope goes on without a policy.
RefuseLightly(o) ==
  /\ o \in Rejected
  /\ refused' = refused \cup {o}
  /\ UNCHANGED <<settling, answering>>

\* bind: a policy that is unknown, does not support the kind of occurrence or
\* its arguments, or conflicts with another, fails the scope before it executes.
Refuse(o) ==
  /\ o \in Rejected
  /\ refused' = refused \cup {o}
  /\ Settle(o, "Failed", "unresolved")
  /\ UNCHANGED answering

Attach(o) ==
  /\ IF o \in Deducible THEN UNCHANGED answering ELSE Notify(o, "ScopeOpened")
  /\ UNCHANGED <<refused, settling>>

HandleExposed(o) ==
  /\ IF Settled(o) THEN UNCHANGED <<scope, refused, settling, answering>>
     ELSE /\ scope' = [scope EXCEPT ![o] = IF o \in Deducible THEN "Undeduced" ELSE "Open"]
          /\ Refuse(o) \/ Attach(o)
  /\ UNCHANGED deferred

HandleCommitted(o) ==
  /\ IF Settled(o) THEN UNCHANGED <<scope, answering>>
     ELSE scope' = [scope EXCEPT ![o] = "Open"] /\ Notify(o, "ScopeOpened")
  /\ UNCHANGED <<refused, deferred, settling>>

\* A speculative failure waits for the Scheduler's demand.
HandleFailed(o, cause) ==
  /\ UNCHANGED <<scope, refused, answering>>
  /\ IF cause = "prefetch" THEN deferred' = deferred \cup {o} /\ UNCHANGED settling
     ELSE Settle(o, "Failed", "unresolved") /\ UNCHANGED deferred

\* handle: the events of the pass in order.
Handle ==
  /\ pc = "pump" /\ pass = "idle" /\ events # <<>>
  /\ LET e == Head(events)
     IN  CASE e.kind = "exposed" -> HandleExposed(e.occ)
           [] e.kind = "committed" -> HandleCommitted(e.occ)
           [] OTHER -> HandleFailed(e.occ, e.cause)
  /\ events' = Tail(events)
  /\ moved' = TRUE
  /\ UNCHANGED <<order, state, demanded, touchdownVars, prefetch, pass, ledger, values,
                 attempts, notBefore, withheld, hostVars, steps, pc, after, result, ending>>

\* Mutant: the flag of the previous iteration is read again.
PumpedStale ==
  /\ pc = "pump" /\ pass = "idle" /\ events = <<>>
  /\ pc' = IF result # "none" THEN "idle" ELSE IF moved THEN "sched" ELSE "dispatch"
  /\ UNCHANGED <<vars, schedulerVars, hostVars, steps, after, moved, outcomeVars>>

Pumped ==
  /\ pc = "pump" /\ pass = "idle" /\ events = <<>>
  /\ pc' = IF result # "none" THEN "idle" ELSE IF moved THEN "sched" ELSE "dispatch"
  /\ moved' = FALSE
  /\ UNCHANGED <<vars, schedulerVars, hostVars, steps, after, outcomeVars>>

-----------------------------------------------------------------------------
(* dispatch and start.                                                     *)

\* heap.Push on the timeline tl: behind everything due no later than item.
Insert(tl, item) ==
  LET n == Cardinality({i \in DOMAIN tl : tl[i].at <= item.at})
  IN  SubSeq(tl, 1, n) \o <<item>> \o SubSeq(tl, n + 1, Len(tl))

\* An item that only makes time pass ("backoff") or tells the policies ("timer").
Wakeup(o, kind, at) ==
  [at |-> at, kind |-> kind, occ |-> o, no |-> 0, status |-> "none", out |-> "unresolved"]

Eligible ==
  {l \in Exposed \cap Leaf : /\ scope[l] = "Open" /\ ~InFlight(l)
                             /\ StructurallyReady(l) /\ notBefore[l] <= now}
Dispatchable == IF Cardinality(inflight) < Concurrency THEN Eligible ELSE {}

\* WithholdFirstDispatch, asked once per leaf, answers ticks > 0.
WithholdDispatch(l, ticks) ==
  /\ attempts[l] = 0 /\ l \notin withheld /\ ticks > 0
  /\ withheld' = withheld \cup {l}
  /\ notBefore' = [notBefore EXCEPT ![l] = now + ticks]
  /\ timeline' = Insert(timeline, Wakeup(l, "backoff", now + ticks))
  /\ UNCHANGED <<vars, attempts, inflight, settling, answering>>

\* The Host is called, and its answer is due later.
Invoke(l, outcome) ==
  LET no == attempts[l] + 1
  IN  /\ attempts' = [attempts EXCEPT ![l] = no]
      /\ inflight' = inflight \cup {[leaf |-> l, no |-> no, cancelled |-> FALSE]}
      /\ timeline' = Insert(timeline, [at |-> now + outcome.ticks, kind |-> "completion", occ |-> l,
                                       no |-> no, status |-> outcome.status, out |-> outcome.out])
      /\ UNCHANGED settling

\* The first attempt consumes the Touchdown, and without authorization it is
\* aborted and its scope fails; later attempts do not consume again.
StartAttempt(l) ==
  /\ IF attempts[l] = 0 THEN ConsumeTouchdown(l, TRUE, Own) ELSE UNCHANGED touchdownVars
  /\ IF attempts[l] > 0 \/ Authorizes(ConsumeResult(l, TRUE, Own))
     THEN \E outcome \in Outcomes[l] : Invoke(l, outcome)
     ELSE /\ Settle(l, "Failed", "unresolved")
          /\ UNCHANGED <<attempts, inflight, timeline>>
  /\ UNCHANGED <<order, state, demanded, prefetch, pass, events, ledger, values, notBefore>>

\* The hook let the leaf pass; its policies are asked next.
BeforeAttempt(l) ==
  /\ attempts[l] > 0 \/ l \in withheld \/ 0 \in Withhold
  /\ withheld' = IF attempts[l] = 0 THEN withheld \cup {l} ELSE withheld
  /\ \/ Silent(l, "BeforeAttempt") /\ StartAttempt(l)
     \/ /\ Consult(l, "BeforeAttempt", "none", "unresolved")
        /\ UNCHANGED <<vars, attempts, notBefore, inflight, timeline, settling>>

Dispatch ==
  /\ pc = "dispatch" /\ result = "none" /\ Dispatchable # {}
  /\ LET l == First(Dispatchable)
     IN  BeforeAttempt(l) \/ \E ticks \in Withhold : WithholdDispatch(l, ticks)
  /\ moved' = TRUE
  /\ UNCHANGED <<refused, deferred, now, steps, pc, after, scope, result, ending>>

\* Mutant: time advances after one pass of dispatch.
DispatchedOnce ==
  /\ pc = "dispatch" /\ (result # "none" \/ Dispatchable = {})
  /\ pc' = IF result # "none" THEN "idle" ELSE after
  /\ moved' = FALSE
  /\ UNCHANGED <<vars, schedulerVars, hostVars, steps, after, outcomeVars>>

Dispatched ==
  /\ pc = "dispatch" /\ (result # "none" \/ Dispatchable = {})
  /\ pc' = IF result # "none" THEN "idle" ELSE IF moved THEN "sched" ELSE after
  /\ moved' = FALSE
  /\ UNCHANGED <<vars, schedulerVars, hostVars, steps, after, outcomeVars>>

-----------------------------------------------------------------------------
(* apply: the actions of an answer in order, up to the first that ends the *)
(* scope, and then what the routine that asked does next.                  *)

\* The actions that settle the scope; some only because it is no leaf.
Ends(o, act) ==
  \/ act.kind \in {"CancelScope", "FailScope", "unknown"}
  \/ act.kind \in {"Hold", "Reattempt"} /\ o \notin Leaf

\* Hold of a leaf never shortens the wait; Admit and a Reattempt out of place
\* do nothing.
Perform(o, act) ==
  LET due == now + act.ticks
  IN  CASE act.kind = "Hold" /\ due > notBefore[o] ->
             /\ notBefore' = [notBefore EXCEPT ![o] = due]
             /\ timeline' = Insert(timeline, Wakeup(o, "backoff", due))
        [] act.kind = "StartTimer" ->
             timeline' = Insert(timeline, Wakeup(o, "timer", due)) /\ UNCHANGED notBefore
        [] OTHER -> UNCHANGED <<notBefore, timeline>>

ApplyAction ==
  /\ answering.acts # <<>>
  /\ LET o == answering.occ
         act == Head(answering.acts)
     IN  IF Settled(o) \/ Ends(o, act)
         THEN /\ Settle(o, IF act.kind = "CancelScope" THEN "Cancelled" ELSE "Failed", "unresolved")
              /\ answering' = NotAnswering
              /\ UNCHANGED <<notBefore, timeline>>
         ELSE /\ Perform(o, act)
              /\ answering' = [answering EXCEPT !.acts = Tail(@)]
              /\ UNCHANGED settling
  /\ UNCHANGED <<vars, refused, deferred, attempts, withheld, inflight, now, controlVars, scope, result, ending>>

\* Held by a policy: dispatch goes on with the next leaf.
Held(o) == notBefore[o] > now

\* No action ended the scope.
Answered ==
  /\ answering.occ # NoOcc /\ answering.acts = <<>>
  /\ LET o == answering.occ
     IN  CASE answering.event = "BeforeAttempt" /\ ~Held(o) ->
                StartAttempt(o) /\ answering' = NotAnswering
           [] answering.event = "ChildScopeOutcome" ->
                /\ Propose(EvaluateParent(o, scope, values))
                /\ UNCHANGED <<vars, attempts, notBefore, inflight, timeline>>
           [] answering.event \in {"AttemptOutcome", "ScopeOutcomeProposed"} ->
                /\ Settle(o, answering.st, answering.out) /\ answering' = NotAnswering
                /\ UNCHANGED <<vars, attempts, notBefore, inflight, timeline>>
           [] OTHER ->
                /\ answering' = NotAnswering
                /\ UNCHANGED <<vars, attempts, notBefore, inflight, timeline, settling>>
  /\ UNCHANGED <<refused, deferred, withheld, now, controlVars, scope, result, ending>>

-----------------------------------------------------------------------------
(* Step: one item of the timeline, or the end of a run with nothing to do. *)

Attempted(item) == CHOOSE a \in inflight : a.leaf = item.occ /\ a.no = item.no

ScopeOf(status) == CASE status = "Succeeded" -> "Satisfied"
                     [] status = "Cancelled" -> "Cancelled"
                     [] OTHER -> "Failed"

\* Mutant: the wakeup of a delayed reattempt is forgotten.
ReattemptUnannounced(l, ticks) ==
  /\ notBefore' = [notBefore EXCEPT ![l] = now' + ticks]
  /\ timeline' = Tail(timeline)

\* A policy's reattempt replaces whatever wait was set before.
Reattempt(l, ticks) ==
  /\ notBefore' = [notBefore EXCEPT ![l] = now' + ticks]
  /\ timeline' = IF ticks = 0 THEN Tail(timeline)
                 ELSE Insert(Tail(timeline), Wakeup(l, "backoff", now' + ticks))

\* The policies answer acts to the outcome of an attempt.  A failed attempt
\* is tried again for the first Reattempt among them, or for the Scheduler's
\* hook, and the other actions are dropped then.
AttemptOutcome(item, acts) ==
  LET asks(i) == acts[i].kind = "Reattempt"
      again == \E i \in DOMAIN acts : asks(i)
      st == ScopeOf(item.status)
      out == IF item.status = "Succeeded" THEN item.out ELSE "unresolved"
  IN  \/ /\ item.status = "Failed" /\ item.no < MaxAttempts
         /\ \E i \in DOMAIN acts : /\ asks(i) /\ \A j \in 1..(i - 1) : ~asks(j)
                                  /\ Reattempt(item.occ, acts[i].ticks)
         /\ UNCHANGED <<settling, answering>>
      \/ /\ item.status = "Failed" /\ ~again /\ item.no < MaxAttempts  \* ReattemptAfterFailure
         /\ timeline' = Tail(timeline)
         /\ UNCHANGED <<notBefore, settling, answering>>
      \/ /\ item.status = "Failed" => ~again
         /\ timeline' = Tail(timeline)
         /\ IF acts = <<>> THEN Settle(item.occ, st, out) /\ UNCHANGED answering
            ELSE /\ answering' = [occ |-> item.occ, event |-> "AttemptOutcome", acts |-> acts,
                                  st |-> st, out |-> out]
                 /\ UNCHANGED settling
         /\ UNCHANGED notBefore

\* The completion of a cancelled attempt is ignored.
DeliverCompletion(item) ==
  /\ inflight' = inflight \ {Attempted(item)}
  /\ IF Attempted(item).cancelled
     THEN timeline' = Tail(timeline) /\ UNCHANGED <<notBefore, settling, answering>>
     ELSE \E acts \in Interp[item.occ]["AttemptOutcome"] : AttemptOutcome(item, acts)

\* A timer of a scope that has its outcome is ignored.
DeliverTimer(item) ==
  /\ timeline' = Tail(timeline)
  /\ IF Settled(item.occ) THEN UNCHANGED answering ELSE Notify(item.occ, "TimerFired")
  /\ UNCHANGED <<notBefore, inflight, settling>>

Deliver ==
  /\ pc = "deliver" /\ timeline # <<>>
  /\ LET item == Head(timeline)
     IN  /\ now' = IF item.at > now THEN item.at ELSE now
         /\ CASE item.kind = "completion" -> DeliverCompletion(item)
              [] item.kind = "timer" -> DeliverTimer(item)
              [] OTHER -> timeline' = Tail(timeline) /\ UNCHANGED <<notBefore, inflight, settling, answering>>
  /\ pc' = "idle"
  /\ UNCHANGED <<vars, refused, deferred, attempts, withheld, steps, after, moved, scope, result, ending>>

\* No item is left, so nothing can ever change again.
Stuck ==
  /\ pc = "deliver" /\ timeline = <<>>
  /\ result' = "Failed" /\ ending' = "stuck"
  /\ pc' = "idle"
  /\ UNCHANGED <<vars, schedulerVars, hostVars, steps, after, moved, scope, settling, answering>>

Stabilize(return) == pc' = "sched" /\ moved' = FALSE /\ after' = return

Step ==
  /\ pc = "idle" /\ result = "none"
  /\ steps' = steps + 1
  /\ IF steps' > MaxSteps
     THEN result' = "Failed" /\ ending' = "budget" /\ UNCHANGED <<pc, moved, after>>
     ELSE Stabilize("deliver") /\ UNCHANGED <<result, ending>>
  /\ UNCHANGED <<vars, schedulerVars, hostVars, scope, settling, answering>>

-----------------------------------------------------------------------------
(* Calls between steps.                                                    *)

RunDemand(o) ==
  /\ "Demand" \in Calls
  /\ \/ Demand(o) /\ UNCHANGED <<values, settling>>
     \/ Surfaceable(o) /\ Settle(o, "Failed", "unresolved") /\ UNCHANGED vars
  /\ UNCHANGED <<schedulerVars, hostVars, controlVars, scope, result, ending, answering>>

RunSetPrefetch(n) ==
  /\ "SetPrefetch" \in Calls /\ n # prefetch
  /\ SetPrefetch(n)
  /\ UNCHANGED <<values, schedulerVars, hostVars, controlVars, outcomeVars>>

\* Cancel is CancelScope of the Root.
CancelScope(o) ==
  /\ "CancelScope" \in Calls \/ ("Cancel" \in Calls /\ o = Root)
  /\ result = "none" /\ scope[o] # "none" /\ ~Settled(o)
  /\ Settle(o, "Cancelled", "unresolved")
  /\ UNCHANGED <<vars, schedulerVars, hostVars, controlVars, scope, result, ending, answering>>

Advance ==
  /\ "Advance" \in Calls /\ result = "none"
  /\ Stabilize("idle")
  /\ UNCHANGED <<vars, schedulerVars, hostVars, steps, outcomeVars>>

\* Another user of the engine (Run.Carousel) acknowledges a leaf first.
RivalConsume(l, a) ==
  /\ "Rival" \in Calls /\ a # Own /\ td[l] = "buffered"
  /\ ConsumeTouchdown(l, TRUE, a)
  /\ UNCHANGED <<order, state, demanded, prefetch, pass, events, ledger, values,
                 schedulerVars, hostVars, controlVars, outcomeVars>>

CallIn ==
  /\ pc = "idle"
  /\ \/ \E o \in Occ : RunDemand(o) \/ CancelScope(o)
     \/ \E n \in Target : RunSetPrefetch(n)
     \/ \E l \in Leaf, a \in Attempt : RivalConsume(l, a)
     \/ Advance

-----------------------------------------------------------------------------
(* Start exposes and demands the Root before anything else runs.           *)

VesselInit ==
  /\ \E n \in Target : prefetch = n
  /\ order = <<Root>> /\ events = <<>> /\ ledger = <<>> /\ pass = "idle"
  /\ state = [o \in Occ |-> IF o = Root THEN "undeduced" ELSE "unexposed"]
  /\ demanded = {Root}
  /\ window = {} /\ authorized = {}
  /\ td = [l \in Leaf |-> "unpublished"]
  /\ consumedBy = [l \in Leaf |-> NoAttempt]
  /\ values = [o \in Occ |-> "unresolved"]
  /\ scope = [o \in Occ |-> IF o = Root THEN "Undeduced" ELSE "none"]
  /\ refused = {} /\ deferred = {} /\ withheld = {} /\ inflight = {}
  /\ attempts = [l \in Leaf |-> 0] /\ notBefore = [l \in Leaf |-> 0]
  /\ timeline = <<>> /\ now = 0 /\ steps = 0
  /\ result = "none" /\ ending = "none"
  /\ pc = "idle" /\ after = "idle" /\ moved = FALSE
  /\ settling = NotSettling /\ answering = NotAnswering

Routine ==
  \/ SurfaceFailure \/ SchedulerDemand \/ Deduction \/ Handle \/ Pumped
  \/ Dispatch \/ Dispatched \/ Deliver \/ Stuck

\* No settle or apply call is in progress.
Quiet == settling = NotSettling /\ answering = NotAnswering

Inner == SettleScope \/ (settling = NotSettling /\ (ApplyAction \/ Answered))

VesselNext == Inner \/ (Quiet /\ (Routine \/ Step \/ CallIn))

\* A routine that was entered runs on, and RunToCompletion keeps stepping.
Reactor == Inner \/ (Quiet /\ (Routine \/ Step))
VesselSpec == VesselInit /\ [][VesselNext]_vesselVars /\ WF_vesselVars(Reactor)
-----------------------------------------------------------------------------
(* Properties.                                                             *)

ScopeStates == {"none", "Undeduced", "Open"} \cup Terminal
Statuses == {"Succeeded", "Failed", "Cancelled"}

VesselTypeOK ==
  /\ CarouselTypeOK
  /\ scope \in [Occ -> ScopeStates]
  /\ refused \subseteq Occ /\ deferred \subseteq Occ /\ withheld \subseteq Leaf
  /\ attempts \in [Leaf -> 0..MaxAttempts] /\ notBefore \in [Leaf -> Nat]
  /\ \A a \in inflight : a \in [leaf : Leaf, no : 1..MaxAttempts, cancelled : BOOLEAN]
  /\ timeline \in Seq([at : Nat, kind : {"completion", "backoff", "timer"}, occ : Occ, no : 0..MaxAttempts,
                       status : Statuses \cup {"none"}, out : {"value", "NoOutput", "unresolved"}])
  /\ now \in Nat /\ steps \in 0..(MaxSteps + 1)
  /\ result \in Statuses \cup {"none"} /\ ending \in {"none", "settled", "stuck", "budget"}
  /\ pc \in {"idle", "sched", "pump", "dispatch", "deliver"} /\ after \in {"idle", "deliver"}
  /\ moved \in BOOLEAN
  /\ settling \in [occ : Occ \cup {NoOcc}, st : Terminal \cup {"none"},
                   out : {"value", "NoOutput", "unresolved"}]
  /\ answering \in [occ : Occ \cup {NoOcc}, event : PolicyEvent \cup {"none"}, acts : Seq(Action),
                    st : Terminal \cup {"none"}, out : {"value", "NoOutput", "unresolved"}]

\* A leaf is attempted only after every serial predecessor of it and of the
\* scopes around it was satisfied, whatever was deduced ahead of need.
Precedence ==
  \A l \in Leaf : attempts[l] > 0 =>
     \A q \in {l} \cup Ancestors[l] : \A d \in Deps[q] : scope[d] = "Satisfied"

\* The Host works for a leaf only under this Scheduler's own acknowledgement,
\* on one attempt at a time whose answer is still due, and never on more
\* attempts than Concurrency allows; cancelled ones hold their place.
AttemptAccounting ==
  /\ \A l \in Leaf : attempts[l] > 0 => td[l] = "consumed" /\ consumedBy[l] = Own
  /\ Cardinality(inflight) <= Concurrency
  /\ \A a \in inflight :
       /\ a.no = attempts[a.leaf]
       /\ \A b \in inflight : a.leaf = b.leaf => a = b
       /\ \E i \in DOMAIN timeline :
            /\ timeline[i].kind = "completion" /\ timeline[i].occ = a.leaf
            /\ timeline[i].no = a.no

\* Once a scope has its outcome nothing happens in it any more: no demand,
\* deduction or Touchdown is left for it, and all scopes under it have
\* outcomes too, the ones exposed but not yet handled included.
SettledIsQuiet ==
  Quiet => \A o \in Exposed : Settled(o) =>
             /\ state[o] # "undeduced"
             /\ o \in Leaf => td[o] # "buffered"
             /\ \A q \in Under(o) : Settled(q)

\* No attempt works on for a scope that has its outcome without having been
\* asked to stop (runtime.go:282: "its in-flight attempts are cancelled").
SettledAttemptsAreCancelled ==
  Quiet => \A a \in inflight : Settled(a.leaf) => a.cancelled

\* The outcome rules of poc-baseline/0: a satisfied composite has only
\* satisfied children, and one without an outcome has none that went wrong
\* and still waits for at least one.
OutcomeRules ==
  Quiet => \A p \in Exposed : Children(p) # {} =>
     /\ scope[p] = "Satisfied" => \A c \in Children(p) : scope[c] = "Satisfied"
     /\ ~Settled(p) => /\ \A c \in Children(p) : scope[c] \notin Terminal \ {"Satisfied"}
                       /\ \E c \in Children(p) : scope[c] # "Satisfied"

\* The run ends with its Root's outcome, unless it got stuck or ran out of
\* steps; and when it succeeds, everything ever exposed, speculatively or not,
\* is satisfied, no Touchdown is left and no attempt is out.
ResultIsRootOutcome ==
  Quiet => /\ Settled(Root) => result # "none"
           /\ ending = "settled" =>
                <<scope[Root], result>> \in {<<"Satisfied", "Succeeded">>, <<"Failed", "Failed">>,
                                             <<"Cancelled", "Cancelled">>}
           /\ result = "Succeeded" => /\ \A o \in Exposed : scope[o] = "Satisfied"
                                      /\ window = {} /\ inflight = {}

\* A leaf that waits for a time, because of a withheld dispatch, a Hold or a
\* delayed reattempt that replaced an earlier wait, has the wakeup for exactly
\* that time ahead of it; so a run in Ready mode is never reported stuck.
WaitsHaveWakeups ==
  /\ Quiet => \A l \in Leaf : scope[l] = "Open" /\ ~InFlight(l) /\ notBefore[l] > now =>
       \E i \in DOMAIN timeline : /\ timeline[i].kind = "backoff" /\ timeline[i].occ = l
                                  /\ timeline[i].at = notBefore[l]
  /\ ReadyMode => ending # "stuck"

\* Nothing a refused policy targets is ever attempted (README.md:152: "every
\* policy fails its own scope with UnknownPolicy when disclosed, before it
\* executes").
RejectedNeverRuns ==
  \A o \in refused, l \in Leaf : o \in {l} \cup Ancestors[l] => attempts[l] = 0

\* Before time advances there is no demand left to issue or serve, no leaf
\* that could be dispatched, and the window is refilled behind the work in
\* flight as far as any candidate allows (runtime.go:332).
StableBeforeTime ==
  pc = "deliver" =>
    /\ ReadyWork = {} /\ ReadyFailures = {} /\ Servable = {}
    /\ Dispatchable = {}
    /\ Cardinality(window) >= prefetch \/ Candidates = {}

\* A failure found by speculation fails its scope only when the Scheduler has
\* come to need that occurrence.
DeferredUntilReady ==
  [][\A o \in deferred : scope'[o] = "Failed" /\ scope[o] # "Failed" => StructurallyReady(o)]_vesselVars

\* The run keeps the promise of Voyage.tla: every step discloses, begins,
\* satisfies, breaks or gives up as it may, or changes nothing a watcher sees.
Outcome == [o \in Occ |-> IF scope[o] \in Terminal THEN scope[o] ELSE "none"]
Watched == INSTANCE Voyage WITH shown <- Exposed, outcome <- Outcome, exported <- values, begun <- attempts
KeepsVoyage == Watched!Spec

\* With nobody interfering, RunToCompletion returns, and it returns the
\* Root's outcome: a run in Ready mode is never stuck and, every deduction
\* tree being finite, never works on forever.
RunEnds == <>(ending = "settled")
-----------------------------------------------------------------------------
(* What the documents say and the code does not do.                        *)

\* docs/POC_PROFILE.md, outcome table: a Goal or inline arrow "Fails when"
\* its "body fails, is cancelled, or is withdrawn".
GoalFailsWithItsBody ==
  [][\A c \in Occ : LET p == Parent[c]
                    IN  settling.occ = p /\ p # NoOcc /\ Kind[p] \in {"Goal", "arrow"}
                        /\ scope[c] \in {"Failed", "Cancelled", "Withdrawn"}
                        => scope'[p] = "Failed"]_vesselVars

\* README.md:169: "A failure found by speculative prefetch never ends a run by
\* itself; it surfaces only when the Scheduler demands that occurrence".  An
\* occurrence that only speculation has disclosed fails no sooner than the
\* Scheduler has a reason to demand it.
Speculative(o) ==
  \E n \in DOMAIN ledger : ledger[n].occ \in Ancestors[o] /\ ledger[n].cause = "prefetch"
SpeculationEndsNoRun ==
  [][\A o \in Occ : state[o] = "failed" /\ scope[o] # "Failed" /\ scope'[o] = "Failed"
                    /\ Speculative(o) => StructurallyReady(o)]_vesselVars
=============================================================================
