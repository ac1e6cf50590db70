# TLA+ models and proofs of subsea_cable_runtime

The repository runs programs of the Subsea Cable language: Goals are deduced
step by step into structures of serial and parallel work whose leaves are
handed to a Host. This directory models the parts of it that keep state, checks
them with TLC on small instances and proves some of their invariants for every
value of the constants with TLAPS. Every definition follows the Go source;
`PROJECT.json` maps it to its lines.

## 1. The system

| part | state it keeps | operations | correctness |
|---|---|---|---|
| **Codebase** (`codebase/codebase.go`) | immutable artifacts, alias index, revision, run registry, deduction ledger; one mutex | `CommitUnit`, `Rebind`, `RegisterRun`, `AppendDeduction`, lookups | aliases and pins always resolve, a revision number identifies a binding, nothing committed is rewritten, one record per occurrence of a run |
| **Carousel** (`carousel/carousel.go`) | exposed occurrences in order, demand, prefetch window, Touchdowns, pending events | `OpenRoot`, `Demand`, `Replenish`, `SetPrefetch`, `Withdraw`, `ConsumeTouchdown`, `DiscardTouchdown`, `Drain` | a deduction is atomic and final, the window counts what is unacknowledged, only one attempt is authorized per leaf, values are waited for |
| **Structure expansion** (`expand`, `expandBody` there) | none | body expression to occurrences | routes the values that validation assumed |
| **Runtime / Vessel** (`runtime/runtime.go`) | scopes, attempts in flight, virtual timeline, result | `Start`, `Step`, `RunToCompletion`, `Advance`, `Demand`, `CancelScope`, `Cancel`, `SetPrefetch` | precedence, attempt accounting, outcome rules, a run ends with its Root's outcome |
| **Policies** (`runtime/policy.go`) | interpreter registry, per-scope policy state | `bind`, `notify`, `apply`, timers | a refused policy's scope never executes; timers of ended scopes are ignored; a wait always ends |
| **Static checker** (`sema/sema.go`) | the colours of the cycle search | `Validate` | what it accepts can be deduced and evaluated: references, routed values, names, no cycle; what it reports is real |
| **Expressions, values** (`expr`, `value`) | none | evaluation, exact rationals, structural keys | sequential, short-circuiting; equal values are one key |
| **Host** (`host`) | the outside world | `Start`, `Cancel` | may answer anything, later |
| **Syntax, diagnostics, trace, command line** | none read back | text in, text out | |

How they interact. `Validate` reads the Codebase; `runtime.Start` registers a
run identity, commits the unit and opens the Root in a fresh Carousel, in that
order and in separate Codebase calls. From then on `Run.Step` alternates:
`schedulerDemand` turns structural readiness into demand, `Replenish` deduces
(each deduction reads the Codebase and appends a ledger record), `handle` turns
the Carousel's events into scopes, `dispatch` acknowledges Touchdowns and calls
the Host, and one item of the virtual timeline is delivered. A settled scope
reaches down (withdraw, discard, cancel) and up (the parent's outcome). The
Carousel reads outputs back through `ValueSource`, its value barrier.

Where it is hard. Several vessels and operators share one Codebase, so every
pair of Codebase calls is a window for others. A vessel itself is
single-threaded, but its routines act on state that earlier routines computed:
events are handled after a whole pass, dispatch consumes what the window was
filled for, completions arrive after their scope was cancelled, failures found
by speculation wait for demand, and callers come in between two steps.
`PROJECT.json` lists each such hazard at its line, with the properties that
would catch it.

## 2. Modules

    Codebase <- SharedRuns             Expand <- Validation <- Routing, Notation
    Unrolled <- Carousel <- Vessel     Notation <- MC modules
                   |          |        CycleCheck
                   v          v        Expressions       (v: implements)
               Touchdowns  Voyage

    CodebaseProofs <- SharedRunsProofs        RoutingProofs        CycleProofs
    CarouselProofs <- VesselProofs <- VesselOutcomeProofs <- VesselProgressProofs

(`<-` points from a module to what it extends or instantiates; each proof module
also extends the module it is about)

- **Codebase.tla**: the Go type, one action per mutating method; each holds the
  mutex and so is atomic. A Goal term is identified by its hash: `Digest` maps a
  definition and its resolved pins to an `Artifact`; a `Pin` is an authored
  hash prefix, and `Addressed[p]` what it could match, so a lookup can find
  nothing, one artifact, or several. `history` is an auxiliary variable that
  remembers what each past revision bound.
  `TypesWith(E)` is the type invariant for records with entries `E`, so that
  `SharedRuns` can say which ones `deduce` writes.
- **CodebaseProofs.tla**: the theorems about it (section 5).
- **SharedRuns.tla** composes several vessels with the Codebase at the
  granularity of Codebase calls: `Validate`, `Register`, `Publish`, `OpenRoot`,
  then per deduction `ResolveAlias` (one call) or `GetPinned` and `ReadRevision`
  (two calls), then `Commit`. Anybody else may publish or rebind in between. Others
  publish units that are valid, as `CommitUnit`'s callers must; their validation is
  not a step of its own, because a unit once valid, whose pins still resolve, is
  valid now (`ValidityLasts`).
- **SharedRunsProofs.tla**: the theorems about it (section 5).
- **Expand.tla**: `expand`/`expandBody`. A program is a tree: to every path (the
  occurrence identities of the engine, `r.d.0` is `<<0, 1>>`) it gives the expression
  found there, with the body of its definition under each Goal. What `expand` passes
  from call to call is an attribute of the path: the output offered to it, its routed
  input, its serial predecessor; `StagedBy` is what one deduction registers, in order.
- **Validation.tla**: `sema.checkBody`/`checkStructure` as attributes of the same
  paths: what is exported, what is routed where, and what is accepted.
- **Routing.tla** opens an accepted program and deduces it to the end: two pieces of
  code, written apart, that must agree. **RoutingProofs.tla**: the theorems.
- **Notation.tla** lets the MC modules write programs as nested expressions and
  definitions by name. It unrolls them by recursion and is used by TLC only.
- **Unrolled.tla**: what `Carousel` and `Vessel` know of a program, as constants on its
  occurrences, with the facts they assume of it as named definitions. The MC modules
  take these constants from a tree in `Notation`, and `RoutingProofs` shows the facts
  for every accepted tree.
- **Touchdowns.tla**: the abstract promise about acknowledgements. **Carousel.tla**
  is the engine; the property `KeepsAcknowledgements` says that it implements
  `Touchdowns` (same variables, the rest hidden by stuttering). `Replenish` is
  split into one step per deduction, because each one changes what the sweep
  looks at next; no other call starts while `pass # "idle"`.
- **CarouselProofs.tla**: the theorems about the engine (section 5).
- **Vessel.tla** extends `Carousel` with the whole `Run`. `pc` names the routine
  that runs (`sched`, `pump`, `dispatch`, `deliver`), `settling` is the recursive
  `settle` call in progress, one scope at a time from the failed leaf to the
  Root; callers act only at `pc = "idle"`. Policies are part of it: `Interp[o][e]`
  is the set of action lists the policies of `o` may answer to event `e`, and
  `answering` the `apply` call in progress, with what its caller does afterwards
  (start the attempt, evaluate the parent, let the outcome stand). Since `settle`
  asks the parent's policies, `settling` and `answering` alternate up the tree.
  `Rejected` holds the occurrences whose policies `bind` may refuse.
- **VesselProofs.tla** (types, precedence, attempts), **VesselOutcomeProofs.tla**
  (time, outcomes, result, `Voyage`) and **VesselProgressProofs.tla** (refused
  policies, wakeups, deferred failures, attempts of settled scopes): the theorems
  about a run (section 5).
- **Voyage.tla**: what a run promises a watcher who sees only disclosed
  occurrences, outcomes, outputs, attempts begun and the result. `KeepsVoyage`
  maps `scope` to final outcomes and says that `Vessel` implements it, in Ready
  mode with speculation, deferred failures and reattempts.
- **CycleCheck.tla**: `detectCycles`, one step per loop iteration of `visit`, the
  recursion as a stack; **CycleProofs.tla** proves it (section 5).
- **Expressions.tla**: value expressions as the checker sees them (`CheckValue`,
  `StaticLookup`, `StaticDestructure`), as the evaluator runs them (`Eval`,
  `LookupEntry`, `BindParams`), the keys of numbers written (`NormalizeNumberText`)
  and computed (`RatKey`), and the operators of the Host profile. Validation,
  deduction of one reference and each statement of the leaf's body are steps.
- **MC\*.tla** give programs, definitions or bodies to the constants, one `.cfg`
  per question.

A definition headed `Mutant:` is not part of the model: it is a plausible bug in
the definition that follows it, kept to show that some property notices it.

### Correspondence of state

| model | code |
|---|---|
| `order`, `state`, `demanded`, `window`, `td`, `consumedBy`, `prefetch` | `Carousel.order`, `Occurrence.State`, `.demanded`, `.window`, `touchdown.state`, `.consumedBy`, `.prefetch` |
| `events`, `pass` | the slice `Replenish` returns and `pump` ranges over; the position inside `Replenish` |
| `values` | `Scope.Output` as seen by `ValueSource`: unresolved, a value, or NoOutput |
| `scope`, `deferred`, `attempts`, `notBefore`, `withheld` | `Scope.State`, `.deferred`, `.Attempts`, `.notBefore`, `.withheld` |
| `inflight`, `timeline`, `now`, `steps`, `result` | the fields of `Run` and `timeline` of the same names |
| `settling`, `answering` | the calls of `settle` and `apply` on the Go stack, with the arguments they will use |
| `color`, `stack`, `todo`, `roots` | the colours, the calls of `visit`, and the ranges of its loops |
| `authorized`, `refused`, `ending`, `history` | auxiliary: they record, and no action reads them |

## 3. Runs

| run | instance | what it shows |
|---|---|---|
| `codebase` | 3 definitions, a pin two versions share, 3 identities, 3 revisions | the store's invariants under any sequence of calls |
| `shared_runs` | 2 vessels, 4 programs, an operator; one vessel names the identity allocation would pick | records are true, trees replay and are finite although aliases move and prefixes become ambiguous; every start ends |
| `routing` | about 18,500 programs: a body of two-element compositions nested two deep or a three-element serial one, deduced to the end | validation and engine agree on routing, and that a value is only routed from a serial predecessor |
| `carousel` | serial composition with a routed bare Goal, an eager call, a two-leaf body; 2 attempts per leaf; targets 0..2 | the engine under any call sequence, and that it implements `Touchdowns` |
| `vessel` | `[A[], B[]]` with a parallel body and an eager call, Ready mode, failures, reattempts, withheld dispatches | precedence, accounting, outcomes, stabilization; the run implements `Voyage` and ends settled |
| `vessel_manual` | a resolving map with a barrier behind it, Manual mode, every caller operation and a rival acknowledger | the same rules when callers interfere, including stuck and out-of-budget runs |
| `vessel_policies` | the program of `vessel`; policies on the leaf `$a`, the Goal `A` and the body of `B`; the policy of `$b` may be refused; callers change the target, advance and cancel; a rival | waits end, refused scopes never execute, attempts are accounted for although policies hold, reattempt, fail and cancel at every point |
| `cycles` | all 65,536 reference graphs of four bindings | the cycle search is exact and ends |
| `expressions` | 99 units, 14 leaves, 31 references: keys written and computed in several ways, names shadowed and not, Anchors and missing keys in operands, calls of what cannot be called | validation, evaluation and lookups agree |
| `cancelled_scope_attempts`, `cancelled_body`, `speculative_eager_failure` | variants of `vessel` | the three divergences of section 6 |

Deadlock is not checked: a run that has its result, a finished vessel and a full
bounded store really stop.

### Bounds

- `MaxRevision` caps the revisions of `codebase`. In `shared_runs`, `MaxPublish` and
  `MaxRebind` cap the publications and rebindings by *others* (runs may always
  publish): others publish first and then move aliases. That suffices to bind a name,
  move it away and back between a read and an append, and to close a cycle mid-run.
- `MaxRun` caps allocated numbers; two vessels need two, one skipped.
- `Occurrence` holds paths of up to five segments in `shared_runs`, as many as there
  are Goal nodes. It is not a bound on behaviour: a recorded path is shorter
  (`TreesAreFinite`), so no deduction is cut off (`OccurrenceOK`).
- `Target` holds 0, a target that one deduction overshoots, and one above.
- `MaxAttempts` bounds `ReattemptAfterFailure`, an arbitrary hook in the code.
- `MaxSteps` is the code's own budget; small in `vessel_manual` so that it is
  exhausted, large in `vessel`, where `RunEnds` shows it is never reached.
- `MaxSteps` 6 in `vessel_policies` ends runs whose policies hold and restart
  timers again and again; it is long enough for two attempts, two timers and a
  reattempt that replaces a hold.
- `Nodes` 4 and `MaxRefs` 4 in `cycles` are every graph on four nodes: a shared
  target, a cycle reached from outside, two roots. The proof has no bound.
- `MCUnits` and `MCReferences` of `expressions` choose the texts that could be
  confused: `1.5` and `1.50`, `-0.0` and `0`, `1/20`, `1/3`, `"_"` and the wildcard.
- In `vessel` nobody rivals and no policy acts (`vessel_policies` has both), and no
  value routed to an arrow resolves to NoOutput late: that is in `carousel`, where
  `Resolve` may give either to any occurrence.
- `Concurrency` 2 makes two leaves compete with a third for places.
- Left out: the guards of 10000 iterations in `stabilize` and `pump`. Without
  them the model could loop forever; `RunEnds` shows it does not.

### Fairness

- `Carousel`: weak fairness of `Replenish`: a Go call that was entered runs on.
  Nothing forces a caller to call.
- `SharedRuns`: weak fairness of each vessel's `Step`: a client that started a
  program keeps driving it. Operators and validations are not fair.
- `Vessel`: weak fairness of `Reactor`, the routines and `Step`: this is
  `RunToCompletion`. Callers get none. `RunEnds` is checked where nobody
  interferes (`Calls = {}`), because a caller in Manual mode may simply not demand.

## 4. Properties worth naming

`RecordMatchesRevision`: a ledger record cites a revision at which its name
really was bound to its artifact, however aliases moved between the read and the
append, and the artifact keeps the arity validation saw. `NoReentry` and
`EveryStartEnds`: rebinding during a run cannot make a deduction tree infinite.
`RoutingAgrees`: the arity the checker looked a bare Goal up with is the one the
engine will use. `ExposureIsAtomic`: a failed deduction leaves nothing behind.
`PassDoesItsWork`: `Replenish` returns with no servable demand, except eager
calls that its own speculation exposed. `Precedence`: no leaf is attempted before
every serial predecessor of it and of everything around it is satisfied, although
it may be deduced and buffered long before. `AttemptAccounting`: the Host works
for a leaf once at a time, only under this Scheduler's acknowledgement, never on
more attempts than places; cancelled ones keep their place until they complete.
`StableBeforeTime`: time moves only when demand, deduction and dispatch are at
rest. `DeferredUntilReady`: a failure found by speculation surfaces when, and not
before, the Scheduler needs it. `RunEnds`: in Ready mode every run ends settled,
never stuck. `KeepsVoyage`: nothing is disclosed or begun in a scope that has its
outcome, success is earned from below, failure spreads down at once, and no
outcome, output or result changes. `WaitsHaveWakeups`: a `Reattempt` overwrites
`notBefore` without regard to an earlier Hold, yet every leaf that waits has the
wakeup for exactly its time ahead. `RejectedNeverRuns`: a refused policy stops
everything it targets, even leaves that were published in the same pass.
`DetectsCycles`: no false alarm and no missed cycle. `AcceptedFailsOnValues`: an
accepted program has no unbound name, no malformed string, no call but an Anchor's
and no misplaced Anchor left, and a leaf calls no Anchor after one failed. (The
code says NotCallable both of such a call and of a lookup in what is no map, which
depends on the values; the model tells them apart.) `LookupsAgree`: the entry a
lookup evaluates alone is the one that equality of values selects and that the
whole map would give. `ReportsAreReal`: a lookup
reported as a missing key misses its key whenever it is evaluated, in whatever
scope, a program that is sure to evaluate one fails, and a reported argument fails
by itself or does not fit the parameters. Not that every refused program would
have failed: `false && m["x"]` is refused for an operand that evaluation skips
(`sema.go:546`, `expr.go:156`), and the property is stated so as to except that.

## 5. Proofs

`RoutingProofs.tla`, from `TreesAreTrees` only: the programs are finite trees whose
serial and parallel compositions have two elements, as the parser makes them.

- `RoutingIsAgreed` (`RoutingAgrees`): for programs of any size and shape. Both sides
  hand their argument down by recursion. `FanIsShallow`: neither passes anything down
  more than one level, for a parallel composition fans out only to bare Goals, which
  are no compositions. So some function obeys the recursion, two levels deep, and
  `Offered` and `Routed` are it (`OfferedRecursion`, `RoutedRecursion`); they are
  compared on two consecutive levels (`RoutedWhereOffered`), where an element of a serial
  composition is offered an output on both sides, and validation refuses whoever would
  take one that has no value. `Inv` adds that what is staged are `Node`s of the tree
  and that what encloses an occurrence is staged with it.
- `AcceptedIsAssumed`: the constants of `Unrolled`, taken from any accepted tree,
  satisfy `OccurrenceTypes`, `RegisteredOnce`, `LeadUp`, `Composed` and `Dependent`, which
  are all that the theorems about `Carousel` and `Vessel` assume of a program. So these
  hold of everything that validation accepts and `expand` builds. `Before` is shown to
  be a strict total order on paths (`BeforeIsTransitive`, `BeforeIsTotal`), so ranks
  number what a deduction stages (`RanksAreNumbers`) and each occurrence is registered
  once; `ExpandedByParent` turns "nothing but composites in between" into the parents
  that `Composed` speaks of.

`CodebaseProofs.tla`, from the assumptions of `Codebase.tla` alone
(`ConstantTypes`; `DigestOK`: the hash identifies definition and pins; `UnitOK`:
a validated unit defines a name once):

- `TypeCorrect`, `StoreIsSound`, `LedgerIsIndexed`, `RevisionsIdentify` are
  invariants of every Codebase, for any number of definitions, pins, artifacts,
  identities and records; `NothingIsRewritten` is the action property.
- Argument: `Inv`, the conjunction of the type invariant with
  `RevisionIdentifies`, `IndexSound`, `PinsClosed` and `LedgerIndexed`, is
  inductive; none of them is by itself. That past revisions stay sound needs that
  history is only appended to and that its last entry is what is bound now; that
  an alias keeps naming a stored artifact needs that `Staged` artifacts carry the
  key they are stored under (`StagedFacts`); that an append does not disturb older
  records needs that every record's index entry is its own position.
  `NothingIsRewritten` follows from `Inv` step by step (`StepKeeps`).

`SharedRunsProofs.tla`, from the assumptions above, `ProgramTypes`, `RequestTypes`
(what programs, bodies and requested identities are), `OccurrenceOK` (every path has
an identity) and `NoReadOK`:

- `RecordsAreTrue`, `LedgerReplays`, `NothingIsReentered`, `ValidatedProgramsDeduce`,
  `IdentitiesAreUnique`, `SharedTypeCorrect` and `NothingIsRewrittenInRuns`: for any
  number of vessels and others, any programs, and every interleaving of the calls.
  `TreesAreFinite`: with finitely many Goal nodes, recorded paths are shorter than
  their number, so a run never deduces for ever, however aliases move meanwhile.
- Argument: `RunsInv` is inductive. It carries what validation saw through
  everything that happens until it is used: `ProgramLinks` (every reference of a
  validated program is bound, about to be published with it, or addresses a stored
  artifact of that name), `StoreLinks` (the same for the bodies of stored artifacts),
  `FrontierLinks` and `ReadingLinks` (for what was exposed and read). They last because the
  store only grows (`Grows`), and a pin that could become ambiguous is no longer
  looked up: a deduction uses the artifact its parent resolved. `RecordMatchesRevision`
  is then a property of what was read, moved into a record; it stays, since later
  revisions do not touch `history`. `FrontierTree` says that an exposed occurrence has
  no record, its parent's record has exposed it, and no path is exposed twice; that
  makes the ledger replayable (`LedgerReplaysTree`) and appends a record with an unused
  index. `PrefixesRecorded` turns `NoReentry` into an injection from the prefixes of
  a path to Goal nodes, hence `TreeDepth`.

`CarouselProofs.tla`, from `ProgramTypes` and `ProgramTree` (occurrence identities
are structural paths, so every occurrence is staged by at most one deduction, once;
`AcceptedIsAssumed`):

- `TypeCorrect`, `DeductionIsAtomic`, `WindowIsExact`, `DemandCanBeServed`,
  `OneAttemptIsAuthorized` and `ValuesAreAwaited`: the invariants of the engine, for
  programs of any size and shape and any number of attempts. `DecisionsAreFinal` is
  the action property, `AcknowledgementsAreKept` the refinement of `Touchdowns`.
  `PassesDoTheirWork`: a pass returns with its work done. Its invariant, `SweepDone`,
  is that once the demand loop is over, whatever demand can be served is for eager
  calls: a deduction changes no output, so it unblocks no earlier demand, and the
  demand it adds itself is for the eager calls it exposes.
- Argument: the six invariants are inductive only together. The central fact is
  `StagedIsNew`: what an undeduced occurrence will stage is not exposed yet, because
  by `ExposureIsAtomic` it is exposed exactly when that one deduction has committed.
  Hence a commit publishes unpublished leaves only (the window), demands undeduced
  occurrences only (demand), touches no authorized Touchdown, and appends a fresh
  record. `FirstInSet`, a least-index argument from the well-founded order of the
  natural numbers, says that the sweep deduces what it was looking for.
  `ConsumeFacts` reduces every answer of `ConsumeTouchdown` to consuming a buffered
  Touchdown or changing nothing: a replayed acknowledgement adds no authorization
  because of `OneAuthorizedAttempt`.
- `PassesAreShort`: in a finite program every step of a pass lowers `PassLeft`, the
  occurrences not decided yet and the ends of its two loops, whatever is demanded,
  fails or is exposed on the way. It is the safety half of `EveryPassReturns`: under
  the fairness of `Replenish` a pass cannot go on for ever.
- `DemandCanBeServed` (pending demand is always for an occurrence that can still
  be deduced) is the one of the six that no run checks on its own.
- These theorems are about the engine under any callers. The scheduler in `Vessel`
  takes the same engine actions in larger steps (a settled scope withdraws and
  discards at once); the next module carries the invariants over to it.

`VesselProofs.tla`, from the assumptions above, `RunTypes`, and `ParentsLeadUp`: every
set of occurrences has one whose parent is outside it, and only the Root has none
(`AcceptedIsAssumed` again). `AncestorsRecursion` shows that the recursive function
`Ancestors` is what its equation says, by giving a function that obeys it and comparing
at a highest difference; from it `Structure`: parents lead to the Root, nothing is
below itself.

- `RunTypeCorrect`, `LeavesWaitForPredecessors` (`Precedence`) and
  `AttemptsAreAccountedFor` (`AttemptAccounting`): for every program tree, every set
  of policy answers, every Host, any concurrency and any callers and rivals.
  `OneAttemptIsAuthorizedInARun`, `ValuesAreAwaitedInARun`, `DeductionIsAtomicInARun`
  and `WindowIsExactInARun` are the engine's invariants inside a run,
  `DecisionsAreFinalInARun` its action property and `AcknowledgementsAreKeptInARun` its
  refinement of `Touchdowns`: by `EngineSteps` every step of a run is one of the engine,
  a call on it, a settlement that withdraws and discards below a scope, or leaves it alone.
  `OutcomesAreFinal` says that no step revises an outcome or an output.
- Argument: `VesselInv` is inductive. `Precedence` and `AttemptAccounting` are not,
  because between the guard of an action and its effect lie calls of `apply` and
  `settle`. `CallsInProgress` says what those calls still rely on: the leaf whose
  policies are asked before an attempt may still start (nothing settles, starts or
  takes a place meanwhile), `settle` meets an open scope, and a parent is asked about
  its children while it is open, which after a subtree was dropped needs that the
  parent is not in it (`Structure`). `Matches` says that the completions ahead and the
  attempts in flight are the same ones, so that a delivered completion takes out
  exactly one attempt; it rests on `InsertFacts` and `TailFacts`, what `Insert` and a
  delivery do to the timeline. `OutputsAreFinal` (only satisfied scopes have outputs)
  is what makes the value barrier survive `settle`: a resolved value is never
  overwritten. `AttemptsEnd` bounds the attempts: one that was told to stop belongs
  to a settled scope, so it never leads to another, and a leaf with its last attempt
  behind it is settled, in flight, or about to be settled by the call in progress.
- `FS_Surjection` gives that telling attempts to stop frees no place and takes none:
  the attempts after `CancelAttempts` are an image of those before.

`VesselOutcomeProofs.tla`, from the same assumptions and `Composition`: a deduction
stages one whole body, down to the Goals and inline arrows in it; leaves have no
parts; and each element of a serial composition waits for the one before it
(`Composed` in `AcceptedIsAssumed`).

- `TimeWaitsForWork` (`StableBeforeTime`). `NothingMoved` is what a pass of
  `stabilize` has established while nothing in it has moved: first no work is ready,
  then no demand can be served, then speculation is done, then nothing can be
  dispatched. It is lost by whatever moves, and time advances only where it is whole.
- `SettledScopesAreQuiet`, `OutcomesFollowRules`, `ResultIsEarned`. None of the three
  is inductive, since a settled leaf becomes an outcome of the Root in many steps, with
  policies asked in between. `OutcomeInv` holds in each of these: `CallsAreEarned` (a
  call in progress satisfies its scope only if that has earned it),
  `SatisfactionIsEarned`, `OpenScopesWait` (an open scope waits for a child, or the call
  in progress is about to decide on it), `QuietUnderSettled`, `ResultFollowsRoot`, and
  that nothing has an outcome, call or timer before it is exposed.

- `RunsKeepThePromise`: a run implements `Voyage`. `RunSteps` sorts every step of the
  routines into those a watcher tells apart (a deduction discloses, an attempt begins,
  a scope opens, is satisfied, breaks or is dropped, the run gives up) and the rest; each is a
  step of `Voyage` because of the invariants above.

`VesselProgressProofs.tla`, from the same and `Dependence`: compositions and bodies
are not empty (the parser wants two elements in a composition, `parser.go:371`; the
checker an entry in a map, `sema.go:363`), only elements of a serial composition wait
for others, and an output is routed in from something that the occurrence, or a scope
around it, waits for (`expand` hands on the output of the previous element): `Dependent`
in `AcceptedIsAssumed`.

- `RefusedScopesNeverRun`: `EventsInOrder` says that every exposed occurrence is
  handled once, before what became of its deduction, and `HandledBeforeDispatch` that
  the queue is empty when attempts begin. So a refusal, which comes with the handling,
  comes before any attempt under it, though leaves of the same pass are published.
- `WaitsAreWoken`: a leaf that waits has its wakeup ahead, and *a run in Ready mode
  is never reported stuck*. `ProgressInv` says that waits have wakeups
  (`WaitsAreAhead`: time never passes the head of the timeline, and an item leaves it
  only when its time has come), outputs are resolved when what they wait for is
  satisfied (`OutputsArrive`), and a scope that was not opened has still something to
  come (`ScopesFollowDeduction`: its deduction, the event that tells of it, a deferred
  failure). Then `AlwaysSomethingAhead`: if nothing is ready and the timeline is empty, go down from
  the Root. An open scope has an unsettled child, by `OpenScopesWait`, and one that
  waits for nothing, by `NextChild`: the first of a serial composition that is not
  satisfied. It is deduced, for else it would be demanded or blocked on an output that
  has arrived. So there is no lowest scope, and no leaf, where this ends; but what is
  exposed is a finite set (`LowestOccurrence`).
- `FailuresWaitForNeed` (`DeferredUntilReady`), where no caller may `Demand`: a demand
  by hand of a failed occurrence surfaces its failure at once, whatever the Scheduler
  needs. `DeferralInv`: only failures are deferred, policies are asked in attached
  scopes only (so none of them can fail a deferred one), and a call that fails a
  deferred occurrence found it ready.
- `SettledAttemptsStop` (`SettledAttemptsAreCancelled`), under `LeavesRunOn`: no caller
  cancels a scope, and no policy of a leaf ends it when its timer fires. These are
  the two ways to settle a leaf while its attempt is in flight, and the run
  `cancelled_scope_attempts` takes the first (section 6); where neither happens a leaf
  is settled between two attempts (`SettledBetweenAttempts`) or from above.

`CycleProofs.tla`, from `NodesAreOrdered` and `GraphTypes` only:

- `CyclesAreDetected`: for every set of nodes and every graph, a reported cycle
  exists and an accepted graph has none. *Cyclic* is stated without paths: some
  non-empty set of nodes in which each refers to one of the set.
- Argument: `ColoursAreSound` (grey nodes are the stack, each referring to the
  next; what a black node refers to is black) makes a report real: from the grey
  node that was found up to the top of the stack every node refers to the next,
  and the last one back. For acceptance, `BlackIsEnding` says that no endless set
  is black throughout; colouring one more node black keeps it, because by
  `LookedAt` everything that node refers to was black already. `RootsAreKept`
  finally says that on acceptance every node with a reference is black.
- `ChecksAreShort`: on a finite unit every step lowers `CheckLeft`, the roots, the
  references not looked at and the bindings not finished. It is the safety half of
  `EveryCheckEnds`, and says that what many references share is searched once.

Only model-checked: liveness (`EveryStartEnds`, `EveryPassReturns`, `RunEnds`,
`EveryCheckEnds`), which is out of the prover's reach (what `RunEnds` says beyond
`WaitsAreWoken` is that reattempts and timers come to an end); and the three
invariants of `Expressions` (`AcceptedFailsOnValues`, `LookupsAgree`, `ReportsAreReal`):
they say what `RECURSIVE` operators, the checker's and the evaluator's, compute for
expressions of any depth, which takes an induction over data the provers cannot do. Every other
property of the passing runs is a theorem.

## 6. Where code and documents differ

- `CancelScope` of a leaf in flight: the comment at `runtime.go:282` says its
  in-flight attempts are cancelled, but `settle` cancels only below the scope, so
  the attempt of the leaf itself goes on and `Host.Cancel` is not called.
- A Goal whose body is cancelled ends Cancelled; `docs/POC_PROFILE.md:47` says
  that it fails.
- An eager call disclosed by speculation is deduced with cause *demand*, and its
  failure ends the run at once; `README.md:169` says that a failure found by
  speculation never does so by itself.

Three more, read from the code and not shown by a violated run:

- `docs/POC_PROFILE.md:51` lets a leaf be satisfied when "an attempt succeeds and no
  policy asks to reattempt"; `runtime.go:804` honours a Reattempt only after a
  failed attempt, and a successful one settles the leaf whatever is asked.
- `expr.go:93` says that the evaluator's refusal of a value-position Anchor guards
  "artifacts that bypassed validation". An entry of a top-level map may be an
  Anchor or a Goal reference and is accepted there; a lookup of it in value
  position, or a use of the whole map as a value, is accepted too and meets that
  refusal (`HoldsStructure` in `Expressions`).
- `sema.go:625` says that `staticLookup` reports a "statically provable KeyNotFound".
  `checkValue` visits both operands of `&&` and `||`, so the lookup is provably one
  that misses its key, but `false && m["x"]` would never evaluate it. The third
  conjunct of `ReportsAreReal` fails if `Reached` does not leave those operands out.

## 7. Not modelled, and why

Parsing, diagnostics, trace, command line (text only), the scripting of the test
Host, canonical hashing (the constant `Digest`; digests of arguments are not
compared anywhere). Of the Host: it is the environment, with any answer after any
listed delay, except for its primitive operators and function leaves. Of the
checker: structural lookup maps (`checkLookupStructure`), policy arguments and
the classification of top-level bindings. Of the policies: `CancelRequested`,
whose answer the code drops, `Emit`, which only traces, and the private state of
an interpreter, which its free choice of answers covers. In `SharedRuns` the order
in which occurrences are picked and the composites between a Goal and its
references are abstracted. In `Carousel` whether a deduction fails is a free
choice for `MayFail`; `Expressions` says when its arguments do.

## 8. Plan

Done: every component of section 1 that keeps state is modelled, with `Expand`,
`Validation` and `Expressions` for the pure parts; every safety property of
`Codebase`, `SharedRuns`, `Routing`, `Carousel`, `Vessel` and `CycleCheck` is proved,
with the refinements, and so is what they assume of a program. What could follow:

1. **Structural lookups**: `checkLookupStructure` beside `expand` of a selected
   entry, in `Validation` and `Expand`.
2. **Expressions** as trees with attributes, as `Expand` has structure, so that what
   checker and evaluator agree on can be proved along paths and not by induction.
