------------------------------ MODULE Codebase ------------------------------
(***************************************************************************)
(* The shared store of codebase/codebase.go: immutable artifacts, the      *)
(* mutable alias index, the revision counter, the run registry and the     *)
(* deduction ledger.  Every operation of the Go type holds one mutex, so   *)
(* each is one atomic action here.  This module lets any client call any   *)
(* operation with any arguments; SharedRuns composes it with the protocol  *)
(* real clients follow.                                                    *)
(***************************************************************************)
EXTENDS Integers, Sequences

CONSTANTS
  Definition,     \* Goal definitions that validated units may contain
  Key,            \* name/arity pairs, the domain of the alias index
  Pin,            \* authored hash-qualified references (a name and a hash prefix)
  Artifact,       \* full hashes; a stored Goal term is identified by its hash
  NoArtifact,
  DefKey,         \* [Definition -> Key]: name and arity of a definition
  PinsOf,         \* [Definition -> SUBSET Pin]: the pins a definition mentions
  Addressed,      \* [Pin -> SUBSET Artifact]: artifacts with that name and hash prefix
  DefOf,          \* [Artifact -> Definition]: what an artifact was hashed from
  Digest(_, _),   \* the hash of a definition together with its resolved pins
  Unit,           \* validated units: sequences of definitions
  RunId,          \* every run identity a client can name or be given
  Occurrence,     \* occurrence identities (structural paths, unique within a run)
  Entry,          \* the payload of a deduction record, beyond run and occurrence
  MaxRevision,    \* bound: publications and rebindings stop here
  MaxRun          \* bound: numbers an empty identity request may allocate

\* The identities "run-1", "run-2", ... that an empty request allocates from.
Fresh(n) == <<"run", n>>

KeyOf(a) == DefKey[DefOf[a]]

\* What the pins of d may resolve to; a pin d does not mention resolves to nothing.
Resolutions(d) ==
  {pins \in [Pin -> Artifact \cup {NoArtifact}] :
     \A p \in Pin : IF p \in PinsOf[d] THEN pins[p] \in Addressed[p]
                                       ELSE pins[p] = NoArtifact}

ASSUME ConstantTypes ==
  /\ NoArtifact \notin Artifact
  /\ DefKey \in [Definition -> Key]
  /\ PinsOf \in [Definition -> SUBSET Pin]
  /\ Addressed \in [Pin -> SUBSET Artifact]
  /\ DefOf \in [Artifact -> Definition]
  /\ MaxRevision \in Nat
  /\ MaxRun \in Nat
  /\ \A n \in 1..MaxRun : Fresh(n) \in RunId

\* The hash covers the definition and every resolved pin (codebase.go:302).
ASSUME DigestOK ==
  \A d \in Definition : \A pins \in Resolutions(d) :
     /\ Digest(d, pins) \in Artifact
     /\ DefOf[Digest(d, pins)] = d

\* Validation refuses two definitions of one name/arity (sema.go:138).
ASSUME UnitOK ==
  \A u \in Unit : /\ u \in Seq(Definition)
                  /\ \A i, j \in DOMAIN u : DefKey[u[i]] = DefKey[u[j]] => i = j

VARIABLES
  artifacts,      \* stored hashes
  pinned,         \* the Pinned map stored with each artifact
  index,          \* alias index: Key -> Artifact, NoArtifact where unbound
  revision,
  runs,           \* reserved run identities
  runSeq,
  ledger,
  byOcc,          \* <<run, occurrence>> -> ledger position, 0 where absent
  history         \* auxiliary: what every past revision bound and stored

store == <<artifacts, pinned, index, revision, history>>
registry == <<runs, runSeq>>
records == <<ledger, byOcc>>
codebaseVars == <<store, registry, records>>

NoPins == [p \in Pin |-> NoArtifact]

InitCodebase ==
  /\ artifacts = {}
  /\ pinned = [a \in Artifact |-> NoPins]
  /\ index = [k \in Key |-> NoArtifact]
  /\ revision = 0
  /\ runs = {}
  /\ runSeq = 0
  /\ ledger = <<>>
  /\ byOcc = [ro \in RunId \X Occurrence |-> 0]
  /\ history = <<[index |-> index, artifacts |-> artifacts]>>

-----------------------------------------------------------------------------
(* Publication.                                                            *)

\* The stored artifacts a pin addresses now.
ResolvePrefix(p) == Addressed[p] \cap artifacts

Unique(p) == \E a \in Artifact : ResolvePrefix(p) = {a}

Resolvable(u) == \A i \in DOMAIN u : \A p \in PinsOf[u[i]] : Unique(p)

\* Mutant: an ambiguous authored prefix is completed without looking at the store.
PinsForAddressed(d) ==
  [p \in Pin |-> IF p \in PinsOf[d] THEN CHOOSE a \in Addressed[p] : TRUE ELSE NoArtifact]

PinsFor(d) ==
  [p \in Pin |-> IF p \in PinsOf[d] THEN CHOOSE a \in ResolvePrefix(p) : TRUE
                                    ELSE NoArtifact]

Staged(u) == {Digest(u[i], PinsFor(u[i])) : i \in DOMAIN u}

Remember == history' = Append(history, [index |-> index', artifacts |-> artifacts'])

\* Mutant: artifacts whose alias moves on are dropped from the store.
CommitUnitEvicts(u) ==
  /\ Resolvable(u)
  /\ revision' = revision + 1
  /\ index' = [k \in Key |->
                 IF \E a \in Staged(u) : KeyOf(a) = k
                 THEN CHOOSE a \in Staged(u) : KeyOf(a) = k
                 ELSE index[k]]
  /\ artifacts' = {a \in artifacts : index'[KeyOf(a)] = index[KeyOf(a)]} \cup Staged(u)
  /\ pinned' = [a \in Artifact |-> IF a \in Staged(u) THEN PinsFor(DefOf[a]) ELSE pinned[a]]
  /\ Remember
  /\ UNCHANGED <<registry, records>>

\* All pins are resolved against what was stored before the unit; then one
\* revision stores the new artifacts and moves every alias of the unit.
CommitUnit(u) ==
  /\ Resolvable(u)
  /\ revision' = revision + 1
  /\ artifacts' = artifacts \cup Staged(u)
  /\ pinned' = [a \in Artifact |->
                  IF a \in Staged(u) \ artifacts THEN PinsFor(DefOf[a]) ELSE pinned[a]]
  /\ index' = [k \in Key |->
                 IF \E a \in Staged(u) : KeyOf(a) = k
                 THEN CHOOSE a \in Staged(u) : KeyOf(a) = k
                 ELSE index[k]]
  /\ Remember
  /\ UNCHANGED <<registry, records>>

\* An unresolvable or ambiguous pin refuses the whole unit, before the revision moves.
RefuseUnit(u) == ~Resolvable(u) /\ UNCHANGED codebaseVars

\* Mutant: a rebinding leaves the revision where it was.
RebindSilently(k, a) ==
  /\ a \in artifacts /\ KeyOf(a) = k
  /\ index' = [index EXCEPT ![k] = a]
  /\ UNCHANGED <<artifacts, pinned, revision, history, registry, records>>

\* Only an artifact of exactly that name and arity can be bound to an alias.
Rebind(k, a) ==
  /\ a \in artifacts /\ KeyOf(a) = k
  /\ revision' = revision + 1
  /\ index' = [index EXCEPT ![k] = a]
  /\ UNCHANGED <<artifacts, pinned>>
  /\ Remember
  /\ UNCHANGED <<registry, records>>

-----------------------------------------------------------------------------
(* Run identities.                                                         *)

RegisterRun(id) ==
  /\ id \notin runs
  /\ runs' = runs \cup {id}
  /\ UNCHANGED <<runSeq, store, records>>

\* Mutant: allocation only counts, and does not look at chosen identities.
NextInSequence(n) == n = runSeq + 1

\* An empty request takes the next unused number, skipping identities that
\* clients chose by name.
NextFree(n) ==
  /\ n > runSeq /\ Fresh(n) \notin runs
  /\ \A m \in (runSeq + 1)..(n - 1) : Fresh(m) \in runs

RegisterFreshRun(n) ==
  /\ NextFree(n)
  /\ runSeq' = n
  /\ runs' = runs \cup {Fresh(n)}
  /\ UNCHANGED <<store, records>>

-----------------------------------------------------------------------------
(* The ledger.                                                             *)

\* Mutant: only the newest record is compared.
RecordedLast(run, occ) ==
  ledger # <<>> /\ ledger[Len(ledger)].run = run /\ ledger[Len(ledger)].occ = occ

Recorded(run, occ) == byOcc[<<run, occ>>] # 0

\* Mutant: sequence numbers start at zero.
AppendFromZero(run, occ, e) ==
  /\ ~Recorded(run, occ)
  /\ ledger' = Append(ledger, [seq |-> Len(ledger), run |-> run, occ |-> occ, entry |-> e])
  /\ byOcc' = [byOcc EXCEPT ![<<run, occ>>] = Len(ledger) + 1]
  /\ UNCHANGED <<store, registry>>

\* A record needs a run identity, and an occurrence commits once per run.
AppendDeduction(run, occ, e) ==
  /\ ~Recorded(run, occ)
  /\ ledger' = Append(ledger, [seq |-> Len(ledger) + 1, run |-> run, occ |-> occ, entry |-> e])
  /\ byOcc' = [byOcc EXCEPT ![<<run, occ>>] = Len(ledger) + 1]
  /\ UNCHANGED <<store, registry>>

-----------------------------------------------------------------------------
Next ==
  \/ \E u \in Unit : revision < MaxRevision /\ CommitUnit(u)
  \/ \E u \in Unit : RefuseUnit(u)
  \/ \E k \in Key, a \in Artifact : revision < MaxRevision /\ Rebind(k, a)
  \/ \E id \in RunId : RegisterRun(id)
  \/ \E n \in 1..MaxRun : RegisterFreshRun(n)
  \/ \E run \in RunId, occ \in Occurrence, e \in Entry : AppendDeduction(run, occ, e)

Spec == InitCodebase /\ [][Next]_codebaseVars

-----------------------------------------------------------------------------
(* Properties.                                                             *)

\* A client says what its records carry: E is the set of their payloads.
Record(E) == [seq : Nat \ {0}, run : RunId, occ : Occurrence, entry : E]

TypesWith(E) ==
  /\ artifacts \subseteq Artifact
  /\ pinned \in [Artifact -> [Pin -> Artifact \cup {NoArtifact}]]
  /\ index \in [Key -> Artifact \cup {NoArtifact}]
  /\ revision \in Nat
  /\ runs \subseteq RunId
  /\ runSeq \in Nat
  /\ ledger \in Seq(Record(E))
  /\ byOcc \in [RunId \X Occurrence -> Nat]
  /\ history \in Seq([index : [Key -> Artifact \cup {NoArtifact}],
                      artifacts : SUBSET Artifact])

TypeOK == TypesWith(Entry)

\* A bound alias names a stored artifact of exactly that name and arity, now
\* and in every revision a record may cite (Rebind's check, CommitUnit's keys).
IndexSound ==
  \A n \in DOMAIN history : \A k \in Key :
     LET a == history[n].index[k]
     IN  a # NoArtifact => a \in history[n].artifacts /\ KeyOf(a) = k

\* The store is closed under pins: whatever hash-qualified reference a stored
\* artifact contains can be fetched by Codebase.Get, and is one of the
\* artifacts the authored prefix addressed.
PinsClosed ==
  \A a \in artifacts : \A p \in PinsOf[DefOf[a]] :
     pinned[a][p] \in artifacts \cap Addressed[p]

\* Every reference the store holds leads to a stored artifact: the bindings of
\* every revision, and the pins inside artifacts.
StoreSound == IndexSound /\ PinsClosed

\* The ledger and its index by (run, occurrence) are inverse to each other:
\* sequence numbers are positions and no occurrence of a run has two records.
LedgerIndexed ==
  /\ \A n \in DOMAIN ledger : /\ ledger[n].seq = n
                              /\ byOcc[<<ledger[n].run, ledger[n].occ>>] = n
  /\ \A run \in RunId, occ \in Occurrence :
        Recorded(run, occ) => /\ byOcc[<<run, occ>>] \in DOMAIN ledger
                              /\ ledger[byOcc[<<run, occ>>]].run = run
                              /\ ledger[byOcc[<<run, occ>>]].occ = occ

\* A revision number identifies one binding: no operation changes what is
\* bound or stored without moving the revision.
RevisionIdentifies ==
  /\ Len(history) = revision + 1
  /\ history[revision + 1] = [index |-> index, artifacts |-> artifacts]

\* Whatever a client may later read by hash or by ledger position stays as it
\* was: artifacts and their pins are immutable, records are never rewritten,
\* identities are never released.
Immutable ==
  [][/\ artifacts \subseteq artifacts'
     /\ \A a \in artifacts : pinned'[a] = pinned[a]
     /\ \A n \in DOMAIN ledger : n \in DOMAIN ledger' /\ ledger'[n] = ledger[n]
     /\ \A n \in DOMAIN history : n \in DOMAIN history' /\ history'[n] = history[n]
     /\ runs \subseteq runs']_codebaseVars
=============================================================================
