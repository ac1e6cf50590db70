----------------------------- MODULE SharedRuns -----------------------------
(***************************************************************************)
(* Vessels that share one Codebase.  Each validates a program, starts a    *)
(* run (runtime.Start: register the identity, commit the unit, open the    *)
(* Root) and then deduces its occurrences (carousel.deduce).  A Codebase   *)
(* operation is atomic; between two of them any other vessel or an         *)
(* operator rebinding an alias may act.                                    *)
(*                                                                         *)
(* Abstracted: the order in which demand and prefetch pick occurrences     *)
(* (any exposed undeduced one may be next; Carousel.tla has the order),    *)
(* arguments, inline arrows, and the composite nodes between a Goal and    *)
(* the references of its body.                                             *)
(***************************************************************************)
EXTENDS Codebase, FiniteSets

CONSTANTS
  Vessel,
  Program,        \* [unit : Unit, root : reference]
  BodyRefs,       \* [Definition -> Seq(reference)]; a reference is [key, pin]
  NoPin,          \* the pin of an unqualified reference
  NodeOf,         \* [Artifact -> GoalNodeID]: name-erased structure hash and arity
  RequestedId,    \* [Vessel -> RunId \cup {NoId}]: Config.RunID
  NoId, NoProgram, NoRead,
  MaxPublish,     \* bound: others publish units before this revision only
  MaxRebind       \* bound: others move aliases before this revision only

Ref == [key : Key, pin : Pin \cup {NoPin}]

ASSUME ProgramTypes ==
  /\ NoPin \notin Pin
  /\ \A p \in Program : p.unit \in Unit /\ p.root \in Ref
  /\ DOMAIN BodyRefs = Definition
  /\ \A d \in Definition :
        /\ BodyRefs[d] \in Seq(Ref)
        /\ \A i \in DOMAIN BodyRefs[d] :
              BodyRefs[d][i].pin # NoPin => BodyRefs[d][i].pin \in PinsOf[d]

ASSUME RequestTypes ==
  /\ DOMAIN RequestedId = Vessel
  /\ \A v \in Vessel : RequestedId[v] \in RunId \cup {NoId}
  /\ NoId \notin RunId
  /\ NoProgram \notin Program

\* The path segments a deduction can append, and the Goal nodes there are.
Position == UNION {DOMAIN BodyRefs[d] : d \in Definition}
Nodes == {NodeOf[a] : a \in Artifact}

\* Every path has an identity.  Where there are finitely many Goal nodes only
\* the paths up to their number have to be listed; TreesAreFinite
\* (SharedRunsProofs) shows that a run records no longer one.
ASSUME OccurrenceOK ==
  /\ <<>> \in Occurrence
  /\ \A p \in Occurrence : p \in Seq(Nat)
  /\ \A p \in Occurrence, i \in Position :
        Len(p) < Cardinality(Nodes) \/ ~IsFiniteSet(Nodes) => Append(p, i) \in Occurrence

VARIABLES
  phase,          \* [Vessel -> where the start protocol is]
  program,        \* [Vessel -> Program \cup {NoProgram}]
  id,             \* [Vessel -> RunId \cup {NoId}]
  frontier,       \* [Vessel -> exposed, undeduced occurrences]
  failed,         \* [Vessel -> {[path, why]}]
  reading         \* [Vessel -> what deduce has read from the Codebase so far]

vesselVars == <<phase, program, id, frontier, failed, reading>>
vars == <<codebaseVars, vesselVars>>

Init ==
  /\ InitCodebase
  /\ phase = [v \in Vessel |-> "idle"]
  /\ program = [v \in Vessel |-> NoProgram]
  /\ id = [v \in Vessel |-> NoId]
  /\ frontier = [v \in Vessel |-> {}]
  /\ failed = [v \in Vessel |-> {}]
  /\ reading = [v \in Vessel |-> NoRead]

Goto(v, next) == phase' = [phase EXCEPT ![v] = next]

\* An occurrence is exposed with its path, the name and arity referred to and,
\* for a hash-qualified reference, the artifact its parent pinned; deduce then
\* reads an artifact and a revision for it.  Unread stands for no revision yet.
Unread == -1
Exposure == [path : Occurrence, key : Key, pinned : Artifact \cup {NoArtifact}]
Reading == [occ : Exposure, artifact : Artifact, revision : Nat \cup {Unread}]

ASSUME NoReadOK == NoRead \notin Reading

-----------------------------------------------------------------------------
(* Validation and start.                                                   *)

Definitions(u) == {u[i] : i \in DOMAIN u}

BodyReferences(u) ==
  UNION {{BodyRefs[d][i] : i \in DOMAIN BodyRefs[d]} : d \in Definitions(u)}

References(p) == {p.root} \cup BodyReferences(p.unit)

\* Mutant: an unqualified reference may be defined by a later unit.
ValidRefUnbound(u, r) ==
  r.pin # NoPin => Unique(r.pin) /\ \A a \in ResolvePrefix(r.pin) : KeyOf(a) = r.key

\* A pinned reference must match exactly one stored artifact, of the right
\* arity; an unqualified one is defined by the unit or bound in the index.
ValidRef(u, r) ==
  IF r.pin = NoPin
  THEN r.key \in {DefKey[d] : d \in Definitions(u)} \/ index[r.key] # NoArtifact
  ELSE Unique(r.pin) /\ \A a \in ResolvePrefix(r.pin) : KeyOf(a) = r.key

Validate(v, p) ==
  /\ phase[v] = "idle"
  /\ \A r \in References(p) : ValidRef(p.unit, r)
  /\ Goto(v, "validated")
  /\ program' = [program EXCEPT ![v] = p]
  /\ UNCHANGED <<codebaseVars, id, frontier, failed, reading>>

Register(v, name) ==
  /\ phase[v] = "validated"
  /\ IF RequestedId[v] = NoId THEN \E n \in 1..MaxRun : RegisterFreshRun(n) /\ name = Fresh(n)
                              ELSE RegisterRun(RequestedId[v]) /\ name = RequestedId[v]
  /\ id' = [id EXCEPT ![v] = name]
  /\ Goto(v, "registered")
  /\ UNCHANGED <<program, frontier, failed, reading>>

\* The identity the caller asked for is taken.
RefuseIdentity(v) ==
  /\ phase[v] = "validated"
  /\ RequestedId[v] \in runs
  /\ Goto(v, "refused")
  /\ UNCHANGED <<codebaseVars, program, id, frontier, failed, reading>>

\* Mutant: a unit that does not resolve is tried again until it does.
PublishRetries(v) ==
  /\ phase[v] = "registered"
  /\ CommitUnit(program[v].unit) /\ Goto(v, "published")
  /\ UNCHANGED <<program, id, frontier, failed, reading>>

Publish(v) ==
  /\ phase[v] = "registered"
  /\ \/ CommitUnit(program[v].unit) /\ Goto(v, "published")
     \/ RefuseUnit(program[v].unit) /\ Goto(v, "refused")
  /\ UNCHANGED <<program, id, frontier, failed, reading>>

\* The Root's prefix is resolved again, after the unit was committed.
OpenRoot(v) ==
  /\ phase[v] = "published"
  /\ LET root == program[v].root
         open(a) == /\ frontier' = [frontier EXCEPT ![v] =
                                      {[path |-> <<>>, key |-> root.key, pinned |-> a]}]
                    /\ Goto(v, "running")
     IN  \/ root.pin = NoPin /\ open(NoArtifact)
         \/ root.pin # NoPin /\ \E a \in Artifact : ResolvePrefix(root.pin) = {a} /\ open(a)
         \/ /\ root.pin # NoPin /\ ~Unique(root.pin)
            /\ Goto(v, "refused")
            /\ UNCHANGED frontier
  /\ UNCHANGED <<codebaseVars, program, id, failed, reading>>

-----------------------------------------------------------------------------
(* One deduction: read the Codebase, check for a cycle, append, expose.    *)

Fail(v, o, why) ==
  /\ failed' = [failed EXCEPT ![v] = @ \cup {[path |-> o.path, why |-> why]}]
  /\ frontier' = [frontier EXCEPT ![v] = @ \ {o}]
  /\ reading' = [reading EXCEPT ![v] = NoRead]
  /\ UNCHANGED <<codebaseVars, phase, program, id>>

Read(v, o, a, rev) ==
  /\ reading' = [reading EXCEPT ![v] = [occ |-> o, artifact |-> a, revision |-> rev]]
  /\ UNCHANGED <<codebaseVars, phase, program, id, frontier, failed>>

\* Mutant: the revision is read by a second call.
ResolveAliasTwice(v, o) ==
  /\ o.pinned = NoArtifact
  /\ IF index[o.key] = NoArtifact THEN Fail(v, o, "GoalNotFound")
                                  ELSE Read(v, o, index[o.key], Unread)

\* ResolveCurrent reads the alias and the revision under one lock.
ResolveAlias(v, o) ==
  /\ o.pinned = NoArtifact
  /\ IF index[o.key] = NoArtifact THEN Fail(v, o, "GoalNotFound")
                                  ELSE Read(v, o, index[o.key], revision)

\* Mutant: a pinned reference goes through the alias index.
GetCurrent(v, o) ==
  /\ o.pinned # NoArtifact
  /\ Read(v, o, index[o.key], Unread)

\* A pinned reference takes two calls: Get, then Revision.
GetPinned(v, o) ==
  /\ o.pinned # NoArtifact
  /\ IF o.pinned \notin artifacts THEN Fail(v, o, "HashNotFound")
                                  ELSE Read(v, o, o.pinned, Unread)

Resolve(v) ==
  /\ phase[v] = "running" /\ reading[v] = NoRead
  /\ \E o \in frontier[v] : ResolveAlias(v, o) \/ GetPinned(v, o)

ReadRevision(v) ==
  /\ reading[v] # NoRead /\ reading[v].revision = Unread
  /\ Read(v, reading[v].occ, reading[v].artifact, revision)

\* Mutant: only the nearest Goal above is looked at.
JustAbove(v, path) ==
  {n \in DOMAIN ledger : /\ ledger[n].run = id[v] /\ path # <<>>
                         /\ ledger[n].occ = SubSeq(path, 1, Len(path) - 1)}

\* The committed Goal deductions of this run strictly above path.
Above(v, path) ==
  {n \in DOMAIN ledger : /\ ledger[n].run = id[v]
                         /\ \E k \in 0..(Len(path) - 1) : ledger[n].occ = SubSeq(path, 1, k)}

Cyclic(v, path, a) == \E n \in Above(v, path) : NodeOf[ledger[n].entry.artifact] = NodeOf[a]

Exposed(path, a) ==
  LET refs == BodyRefs[DefOf[a]]
  IN  {[path |-> Append(path, i), key |-> refs[i].key,
        pinned |-> IF refs[i].pin = NoPin THEN NoArtifact ELSE pinned[a][refs[i].pin]] :
       i \in DOMAIN refs}

EntryFor(got) ==
  [ref |-> IF got.occ.pinned = NoArtifact THEN "unqualified" ELSE "hash-qualified",
   key |-> got.occ.key, artifact |-> got.artifact, revision |-> got.revision]

Commit(v) ==
  /\ reading[v] # NoRead /\ reading[v].revision # Unread
  /\ LET got == reading[v]
         path == got.occ.path
     IN  \/ Cyclic(v, path, got.artifact) /\ Fail(v, got.occ, "CycleDetected")
         \/ /\ ~Cyclic(v, path, got.artifact) /\ Recorded(id[v], path)
            /\ Fail(v, got.occ, "AlreadyCommitted")
         \/ /\ ~Cyclic(v, path, got.artifact)
            /\ AppendDeduction(id[v], path, EntryFor(got))
            /\ frontier' = [frontier EXCEPT ![v] =
                              (@ \ {got.occ}) \cup Exposed(path, got.artifact)]
            /\ reading' = [reading EXCEPT ![v] = NoRead]
            /\ UNCHANGED <<phase, program, id, failed>>

-----------------------------------------------------------------------------
Step(v) ==
  \/ \E name \in RunId : Register(v, name)
  \/ RefuseIdentity(v)
  \/ Publish(v)
  \/ OpenRoot(v)
  \/ Resolve(v)
  \/ ReadRevision(v)
  \/ Commit(v)

\* Anyone else holding the Codebase publishes a validated unit or moves an
\* alias.  A unit valid when it was checked and resolvable now is valid now
\* (ValidityLasts in SharedRunsProofs), so its validation is not a step here.
Operator ==
  /\ \/ \E u \in Unit : /\ revision < MaxPublish
                        /\ \A r \in BodyReferences(u) : ValidRef(u, r)
                        /\ CommitUnit(u)
     \/ \E k \in Key, a \in Artifact : revision < MaxRebind /\ Rebind(k, a)
  /\ UNCHANGED vesselVars

RunsNext ==
  \/ \E v \in Vessel, p \in Program : Validate(v, p)
  \/ \E v \in Vessel : Step(v)
  \/ Operator

\* A caller that started a program keeps driving it; nobody has to start one.
RunsSpec == Init /\ [][RunsNext]_vars /\ \A v \in Vessel : WF_vars(Step(v))

-----------------------------------------------------------------------------
(* Properties.                                                             *)

\* A record tells the truth about the past: the artifact was stored at the
\* cited revision, and an unqualified reference was bound to it at exactly
\* that revision, however aliases moved between the read and the append.  And
\* it has the name and arity validation saw, although validation, CommitUnit
\* and OpenRoot resolve a hash prefix separately while other vessels publish
\* artifacts the same prefix addresses.
RecordMatchesRevision ==
  \A n \in DOMAIN ledger :
     LET e == ledger[n].entry
         then == history[e.revision + 1]
     IN  /\ e.artifact \in then.artifacts
         /\ e.ref = "unqualified" => then.index[e.key] = e.artifact
         /\ KeyOf(e.artifact) = e.key

\* The record of a deduction's parent: the same run, one path segment up.
IsParent(m, n) ==
  /\ ledger[m].run = ledger[n].run
  /\ ledger[n].occ # <<>>
  /\ ledger[m].occ = SubSeq(ledger[n].occ, 1, Len(ledger[n].occ) - 1)

\* The ledger of a run is its deduction tree in an order that can be replayed:
\* a record comes after the record that exposed it and cites no older revision,
\* and a hash-qualified child is what the parent artifact pinned.
LedgerReplaysTree ==
  \A n \in DOMAIN ledger :
     ledger[n].occ # <<>> =>
       \E m \in 1..(n - 1) :
          /\ IsParent(m, n)
          /\ ledger[m].entry.revision <= ledger[n].entry.revision
          /\ ledger[n].entry.ref = "hash-qualified" =>
               LET parent == ledger[m].entry.artifact
                   seg == ledger[n].occ[Len(ledger[n].occ)]
               IN  ledger[n].entry.artifact = pinned[parent][BodyRefs[DefOf[parent]][seg].pin]

\* No committed deduction re-enters a Goal node open above it, whatever was
\* rebound in between, so every deduction tree is finite.
NoReentry ==
  \A m, n \in DOMAIN ledger :
     /\ ledger[m].run = ledger[n].run
     /\ Len(ledger[m].occ) < Len(ledger[n].occ)
     /\ ledger[m].occ = SubSeq(ledger[n].occ, 1, Len(ledger[m].occ))
     => NodeOf[ledger[m].entry.artifact] # NodeOf[ledger[n].entry.artifact]

\* What validation established once still holds at every later deduction: no
\* alias or pinned hash is missing and no occurrence is committed twice; of the
\* lookups that deduce performs only the cycle check can fail.
OnlyCyclesFail == \A v \in Vessel : \A f \in failed[v] : f.why = "CycleDetected"

\* Two runs never share an identity, allocated or chosen, so their records
\* never mix in RunLedger; and an identity nobody asked for is never refused.
OneRunPerIdentity ==
  /\ \A v, w \in Vessel : id[v] = id[w] /\ id[v] # NoId => v = w
  /\ \A v \in Vessel : phase[v] = "refused" /\ id[v] = NoId => RequestedId[v] # NoId

Finished(v) ==
  \/ phase[v] = "refused"
  \/ phase[v] = "running" /\ frontier[v] = {} /\ reading[v] = NoRead

\* A validated program is refused or deduced to the end: the protocol waits on
\* nobody and rebinding cannot keep a run deducing forever.
EveryStartEnds == \A v \in Vessel : (phase[v] = "validated") ~> Finished(v)
=============================================================================
