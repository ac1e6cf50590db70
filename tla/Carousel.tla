------------------------------ MODULE Carousel ------------------------------
(***************************************************************************)
(* The deduction engine of carousel/carousel.go: exposed occurrences in    *)
(* exposure order, explicit demand, the prefetch window and the Touchdown  *)
(* acknowledgements.  The Go type is single-threaded.  Replenish deduces   *)
(* many occurrences in one call; here each deduction is one step, and no   *)
(* other call starts before the pass returns (pass = "idle").              *)
(*                                                                         *)
(* The program is given unrolled (Unrolled.tla); Expand.tla computes it.   *)
(* Whether the deduction of an occurrence succeeds depends on arguments    *)
(* and on the Codebase (SharedRuns.tla); here it is a free choice for the  *)
(* members of MayFail.  Events nobody reacts to are left out: only         *)
(* exposure, commitment and failure change what the Runtime does.          *)
(***************************************************************************)
EXTENDS Unrolled

CONSTANTS
  MayFail,      \* occurrences whose deduction may fail
  Attempt,      \* attempt identities
  NoAttempt,    \* the empty attempt identity
  Target        \* prefetch targets a caller may set

ASSUME ProgramTypes ==
  /\ OccurrenceTypes
  /\ NoAttempt \notin Attempt
  /\ MayFail \subseteq Deducible
  /\ Target \subseteq Nat

ASSUME ProgramTree == RegisteredOnce

VARIABLES
  order,        \* exposed occurrences in exposure order
  state,        \* [Occ -> deduction state, or "unexposed"]
  demanded,     \* occurrences carrying demand that is not yet served
  window,       \* buffered Touchdowns
  td,           \* [Leaf -> acknowledgement state of its Touchdown]
  consumedBy,   \* [Leaf -> Attempt \cup {NoAttempt}]
  authorized,   \* auxiliary: acknowledgements answered with an authorizing result
  prefetch,     \* requested number of buffered Touchdowns
  pass,         \* where Replenish is
  events,       \* events of the current pass, oldest first
  ledger,       \* this run's deduction records: [occ, cause]
  values        \* the Runtime's outputs, read through carousel.ValueSource

touchdownVars == <<window, td, consumedBy, authorized>>
carouselVars == <<order, state, demanded, touchdownVars, prefetch, pass, events, ledger>>

Exposed == {order[i] : i \in DOMAIN order}

InitCarousel(target) ==
  /\ order = <<Root>>
  /\ state = [o \in Occ |-> IF o = Root THEN "undeduced" ELSE "unexposed"]
  /\ demanded = {}
  /\ window = {}
  /\ td = [l \in Leaf |-> "unpublished"]
  /\ consumedBy = [l \in Leaf |-> NoAttempt]
  /\ authorized = {}
  /\ prefetch = target
  /\ pass = "idle"
  /\ events = <<[kind |-> "exposed", occ |-> Root, cause |-> ""]>>
  /\ ledger = <<>>
  /\ values = [o \in Occ |-> "unresolved"]

-----------------------------------------------------------------------------
(* Deduction.                                                              *)

\* The value barrier: the routed input has no output yet.
Blocked(o) == Input[o] # NoOcc /\ values[Input[o]] = "unresolved"

\* A deduction that cannot succeed: NoOutput is never routed.
NothingRouted(o) == Input[o] # NoOcc /\ values[Input[o]] = "NoOutput"

Event(kind, o, cause) == [kind |-> kind, occ |-> o, cause |-> cause]

Exposure(o) == [i \in DOMAIN Staged[o] |-> Event("exposed", Staged[o][i], "")]

\* The record is appended and everything the reduction staged is exposed, in
\* one step: eager calls are demanded and leaves published on registration.
DeduceCommits(o, cause) ==
  /\ ~NothingRouted(o)
  /\ state' = [q \in Occ |->
                 IF q = o THEN "committed"
                 ELSE IF q \in StagedSet(o)
                      THEN IF q \in Deducible THEN "undeduced" ELSE "committed"
                      ELSE state[q]]
  /\ order' = order \o Staged[o]
  /\ demanded' = (demanded \ {o}) \cup (StagedSet(o) \cap Eager)
  /\ window' = window \cup (StagedSet(o) \cap Leaf)
  /\ td' = [l \in Leaf |-> IF l \in StagedSet(o) THEN "buffered" ELSE td[l]]
  /\ ledger' = Append(ledger, [occ |-> o, cause |-> cause])
  /\ events' = Append(events, Event("committed", o, cause)) \o Exposure(o)
  /\ UNCHANGED <<consumedBy, authorized>>

\* Mutant: what was staged before the failure stays exposed.
DeduceFailsHalfway(o, cause) ==
  /\ NothingRouted(o) \/ o \in MayFail
  /\ state' = [q \in Occ |-> IF q = o THEN "failed"
                            ELSE IF q \in StagedSet(o) THEN "undeduced" ELSE state[q]]
  /\ order' = order \o Staged[o]
  /\ demanded' = demanded \ {o}
  /\ events' = Append(events, Event("failed", o, cause))
  /\ UNCHANGED <<touchdownVars, ledger>>

\* Nothing is recorded or exposed; the occurrence is done for.
DeduceFails(o, cause) ==
  /\ NothingRouted(o) \/ o \in MayFail
  /\ state' = [state EXCEPT ![o] = "failed"]
  /\ demanded' = demanded \ {o}
  /\ events' = Append(events, Event("failed", o, cause))
  /\ UNCHANGED <<order, touchdownVars, ledger>>

Deduce(o, cause) ==
  /\ DeduceCommits(o, cause) \/ DeduceFails(o, cause)
  /\ UNCHANGED <<prefetch, pass, values>>

First(S) == CHOOSE o \in S : \E i \in DOMAIN order :
              order[i] = o /\ \A j \in 1..(i - 1) : order[j] \notin S

Servable == {o \in demanded : state[o] = "undeduced" /\ ~Blocked(o)}
\* Mutant: speculation does not wait for routed values.
CandidatesUnblocked ==
  {o \in Exposed : o \in Deducible /\ state[o] = "undeduced" /\ o \notin demanded}

Candidates ==
  {o \in Exposed : o \in Deducible /\ state[o] = "undeduced" /\ o \notin demanded /\ ~Blocked(o)}

\* The caller has read the events of the previous pass.
StartReplenish ==
  /\ pass = "idle" /\ events = <<>>
  /\ pass' = "demand"
  /\ UNCHANGED <<order, state, demanded, touchdownVars, prefetch, events, ledger, values>>

\* Repeated sweeps over the exposure order until no demand can be served.
ServeDemand ==
  /\ pass = "demand" /\ Servable # {}
  /\ Deduce(First(Servable), "demand")

\* Mutant: one sweep over the exposure order serves all demand.
DemandSweptOnce ==
  /\ pass = "demand"
  /\ pass' = "prefetch"
  /\ UNCHANGED <<order, state, demanded, touchdownVars, prefetch, events, ledger, values>>

\* Mutant: the sweeps go on until no demand is pending, blocked or not.
DemandExhausted ==
  /\ pass = "demand" /\ demanded = {}
  /\ pass' = "prefetch"
  /\ UNCHANGED <<order, state, demanded, touchdownVars, prefetch, events, ledger, values>>

DemandServed ==
  /\ pass = "demand" /\ Servable = {}
  /\ pass' = "prefetch"
  /\ UNCHANGED <<order, state, demanded, touchdownVars, prefetch, events, ledger, values>>

\* Speculation: one candidate at a time, while the window is below the target.
Speculate ==
  /\ pass = "prefetch" /\ Cardinality(window) < prefetch /\ Candidates # {}
  /\ Deduce(First(Candidates), "prefetch")

EndReplenish ==
  /\ pass = "prefetch" /\ (Cardinality(window) >= prefetch \/ Candidates = {})
  /\ pass' = "idle"
  /\ UNCHANGED <<order, state, demanded, touchdownVars, prefetch, events, ledger, values>>

Replenish == ServeDemand \/ DemandServed \/ Speculate \/ EndReplenish

-----------------------------------------------------------------------------
(* Calls.                                                                  *)

Accepts(o) == o \in Exposed \cap Deducible /\ state[o] = "undeduced" /\ o \notin demanded

Demand(o) ==
  /\ Accepts(o)
  /\ demanded' = demanded \cup {o}
  /\ UNCHANGED <<order, state, touchdownVars, prefetch, pass, events, ledger>>

SetPrefetch(n) ==
  /\ prefetch' = n
  /\ UNCHANGED <<order, state, demanded, touchdownVars, pass, events, ledger>>

\* Mutant: an empty attempt identity is an identity like others.
ConsumeResultAnonymous(o, instanceOK, a) ==
  IF o \notin Leaf \/ td[o] = "unpublished" THEN "unknown"
  ELSE IF ~instanceOK THEN "mismatch"
  ELSE IF td[o] = "discarded" THEN "discarded"
  ELSE IF td[o] = "buffered" THEN "consumed"
  ELSE IF consumedBy[o] = a THEN "consumed-replayed"
  ELSE "already-consumed"

\* Mutant: any acknowledgement of a consumed Touchdown counts as a replay.
ConsumeResultReplay(o, instanceOK, a) ==
  IF a = NoAttempt THEN "invalid-attempt"
  ELSE IF o \notin Leaf \/ td[o] = "unpublished" THEN "unknown"
  ELSE IF ~instanceOK THEN "mismatch"
  ELSE IF td[o] = "discarded" THEN "discarded"
  ELSE IF td[o] = "buffered" THEN "consumed"
  ELSE "consumed-replayed"

\* The answer of ConsumeTouchdown; instanceOK: the evaluation instance the
\* caller names is the leaf's own.
ConsumeResult(o, instanceOK, a) ==
  IF a = NoAttempt THEN "invalid-attempt"
  ELSE IF o \notin Leaf \/ td[o] = "unpublished" THEN "unknown"
  ELSE IF ~instanceOK THEN "mismatch"
  ELSE IF td[o] = "discarded" THEN "discarded"
  ELSE IF td[o] = "buffered" THEN "consumed"
  ELSE IF consumedBy[o] = a THEN "consumed-replayed"
  ELSE "already-consumed"

\* Mutant: whoever consumed it, a consumed Touchdown may be evaluated.
AuthorizesConsumed(result) == result \in {"consumed", "consumed-replayed", "already-consumed"}

Authorizes(result) == result \in {"consumed", "consumed-replayed"}

ConsumeTouchdown(o, instanceOK, a) ==
  LET result == ConsumeResult(o, instanceOK, a)
  IN  /\ IF result = "consumed"
         THEN /\ td' = [td EXCEPT ![o] = "consumed"]
              /\ consumedBy' = [consumedBy EXCEPT ![o] = a]
              /\ window' = window \ {o}
         ELSE UNCHANGED <<td, consumedBy, window>>
      /\ authorized' = IF Authorizes(result) THEN authorized \cup {<<o, a>>} ELSE authorized

\* Mutant: a consumed Touchdown can be discarded.
BufferedOrConsumed(os) == {o \in os \cap Leaf : td[o] \in {"buffered", "consumed"}}

Buffered(os) == {o \in os \cap Leaf : td[o] = "buffered"}
\* Mutant: whatever can be deduced can be withdrawn.
DeducibleOf(os) == os \cap Deducible

Undeduced(os) == {o \in os \cap Deducible : state[o] = "undeduced"}

\* Mutant: the window keeps what was discarded.
DiscardInWindow(os) ==
  /\ td' = [l \in Leaf |-> IF l \in Buffered(os) THEN "discarded" ELSE td[l]]
  /\ UNCHANGED <<window, consumedBy, authorized>>

\* DiscardTouchdown of every leaf in os; consumed ones stay consumed.
DiscardTouchdowns(os) ==
  /\ td' = [l \in Leaf |-> IF l \in Buffered(os) THEN "discarded" ELSE td[l]]
  /\ window' = window \ Buffered(os)
  /\ UNCHANGED <<consumedBy, authorized>>

\* Withdraw every undeduced occurrence in os; others are never affected.
Withdraw(os) ==
  /\ state' = [o \in Occ |-> IF o \in Undeduced(os) THEN "withdrawn" ELSE state[o]]
  /\ demanded' = demanded \ Undeduced(os)

-----------------------------------------------------------------------------
(* The engine on its own, under any sequence of calls.                     *)

Drain ==
  /\ pass = "idle" /\ events # <<>>
  /\ events' = <<>>
  /\ UNCHANGED <<order, state, demanded, touchdownVars, prefetch, pass, ledger, values>>

Call ==
  /\ pass = "idle" /\ events = <<>>
  /\ \/ \E o \in Occ : Demand(o) /\ UNCHANGED values
     \/ \E n \in Target : SetPrefetch(n) /\ UNCHANGED values
     \/ \E o \in Exposed : /\ Undeduced({o}) # {} /\ Withdraw({o})
                           /\ UNCHANGED <<order, touchdownVars, prefetch, pass, events, ledger, values>>
     \/ \E o \in Exposed \cap Leaf, ok \in BOOLEAN, a \in Attempt \cup {NoAttempt} :
          /\ ConsumeTouchdown(o, ok, a)
          /\ UNCHANGED <<order, state, demanded, prefetch, pass, events, ledger, values>>
     \/ \E o \in Exposed : /\ Buffered({o}) # {} /\ DiscardTouchdowns({o})
                           /\ UNCHANGED <<order, state, demanded, prefetch, pass, events, ledger, values>>

\* The Runtime resolves the output of an exposed, committed occurrence, once;
\* only outputs that are routed somewhere are read here.
Resolve(o, out) ==
  /\ pass = "idle" /\ events = <<>>
  /\ \E q \in Occ : Input[q] = o
  /\ o \in Exposed /\ state[o] = "committed" /\ values[o] = "unresolved"
  /\ values' = [values EXCEPT ![o] = out]
  /\ UNCHANGED carouselVars

Next ==
  \/ Drain
  \/ Call
  \/ \E o \in Occ, out \in {"value", "NoOutput"} : Resolve(o, out)
  \/ StartReplenish
  \/ Replenish

Init == \E n \in Target : InitCarousel(n)
vars == <<carouselVars, values>>
Spec == Init /\ [][Next]_vars /\ WF_vars(Replenish)

-----------------------------------------------------------------------------
(* Properties.                                                             *)

Events == [kind : {"exposed", "committed", "failed"}, occ : Occ, cause : {"", "demand", "prefetch"}]

CarouselTypeOK ==
  /\ order \in Seq(Occ)
  /\ state \in [Occ -> {"unexposed", "undeduced", "committed", "failed", "withdrawn"}]
  /\ demanded \subseteq Occ
  /\ window \subseteq Leaf
  /\ td \in [Leaf -> {"unpublished", "buffered", "consumed", "discarded"}]
  /\ consumedBy \in [Leaf -> Attempt \cup {NoAttempt}]
  /\ authorized \subseteq Leaf \X Attempt
  /\ prefetch \in Nat
  /\ pass \in {"idle", "demand", "prefetch"}
  /\ events \in Seq(Events)
  /\ ledger \in Seq([occ : Occ, cause : {"demand", "prefetch"}])
  /\ values \in [Occ -> {"unresolved", "value", "NoOutput"}]

\* The window counts every published leaf without an applied acknowledgement,
\* and nothing else: the map the count is taken from and the acknowledgement
\* states never disagree, and a leaf is published exactly when it is exposed.
WindowCountsUnacknowledged ==
  /\ window = {l \in Leaf : td[l] = "buffered"}
  /\ \A l \in Leaf : td[l] = "unpublished" <=> l \notin Exposed

\* Of all attempts that ever ask for a leaf, in any order with discards and
\* replays, at most one is told to invoke the Host: the recorded consumer.
OneAuthorizedAttempt ==
  \A l \in Leaf, a \in Attempt :
     <<l, a>> \in authorized <=> td[l] = "consumed" /\ consumedBy[l] = a

\* Demand is pending only for occurrences that can still be deduced: whatever
\* serves, fails or withdraws an occurrence also takes its demand away.
DemandIsPending == \A o \in demanded : o \in Deducible /\ state[o] = "undeduced"

\* A deduction exposes all it staged and is recorded, or neither: children
\* are exposed exactly when their deduction committed, nothing is exposed or
\* recorded twice, and a failed or withdrawn occurrence has no record.
ExposureIsAtomic ==
  /\ \A o \in Deducible : \A q \in StagedSet(o) : q \in Exposed <=> state[o] = "committed"
  /\ \A i, j \in DOMAIN order : order[i] = order[j] => i = j
  /\ \A o \in Occ : o \in Exposed <=> state[o] # "unexposed"
  /\ \A o \in Deducible : state[o] = "committed" <=> \E n \in DOMAIN ledger : ledger[n].occ = o
  /\ \A m, n \in DOMAIN ledger : ledger[m].occ = ledger[n].occ => m = n

\* The value barrier: an occurrence with a routed input is committed only
\* after that input resolved to a value, however it was demanded.
BarrierHolds ==
  \A o \in Deducible : state[o] = "committed" /\ Input[o] # NoOcc => values[Input[o]] = "value"

\* When a pass returns, the window is at its target or nothing speculative can
\* progress, and no demand that could be served is left behind, except for
\* eager calls which the pass's own speculation exposed.
PassDoesItsWork ==
  [][pass = "prefetch" /\ pass' = "idle" =>
       /\ Cardinality(window) >= prefetch \/ Candidates = {}
       /\ Servable \subseteq Eager]_vars

\* What is decided about an occurrence is never revised: a committed
\* deduction never retargets, a failed or withdrawn one is never retried, an
\* acknowledged Touchdown never returns to the window, and exposure order and
\* ledger only grow.
DecisionsStand ==
  [][/\ \A o \in Occ : state[o] \in {"committed", "failed", "withdrawn"} => state'[o] = state[o]
     /\ \A l \in Leaf : td[l] \in {"consumed", "discarded"} =>
           td'[l] = td[l] /\ consumedBy'[l] = consumedBy[l]
     /\ \A i \in DOMAIN order : i \in DOMAIN order' /\ order'[i] = order[i]
     /\ \A n \in DOMAIN ledger : n \in DOMAIN ledger' /\ ledger'[n] = ledger[n]]_vars

\* A pass always returns: every deduction it tries, committed or failed, takes
\* its occurrence out of the sweep.
EveryPassReturns == (pass = "demand") ~> (pass = "idle")

\* The engine keeps the acknowledgement promise of SCP-0001.
Acknowledgements == INSTANCE Touchdowns
KeepsAcknowledgements == Acknowledgements!Spec
=============================================================================
