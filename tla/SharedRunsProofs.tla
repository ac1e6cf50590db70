-------------------------- MODULE SharedRunsProofs --------------------------
(***************************************************************************)
(* What holds between Vessels that share a Codebase, for every set of      *)
(* programs, vessels, definitions and identities.                          *)
(***************************************************************************)
EXTENDS SharedRuns, CodebaseProofs, FiniteSetTheorems

(* The inductive invariant, part by part.                                  *)

\* What deduce writes into a record.
RunEntry == [ref : {"unqualified", "hash-qualified"}, key : Key,
             artifact : Artifact, revision : Nat]

Failure == [path : Occurrence,
            why : {"GoalNotFound", "HashNotFound", "CycleDetected", "AlreadyCommitted"}]

\* The variables of the vessels have their types.
VesselTypes ==
  /\ phase \in [Vessel -> {"idle", "validated", "registered", "published", "running", "refused"}]
  /\ program \in [Vessel -> Program \cup {NoProgram}]
  /\ id \in [Vessel -> RunId \cup {NoId}]
  /\ frontier \in [Vessel -> SUBSET Exposure]
  /\ failed \in [Vessel -> SUBSET Failure]
  /\ reading \in [Vessel -> Reading \cup {NoRead}]

\* A vessel has a program from validation on and an identity of its own from
\* registration on; it exposes, reads and records nothing before it runs.
Protocol ==
  /\ \A n \in DOMAIN ledger : ledger[n].run \in runs
  /\ \A v \in Vessel :
        /\ phase[v] \in {"validated", "registered", "published", "running"} => program[v] \in Program
        /\ phase[v] \in {"registered", "published", "running"} => id[v] # NoId
        /\ phase[v] \in {"idle", "validated"} => id[v] = NoId
        /\ id[v] # NoId => id[v] \in runs
        /\ phase[v] # "running" =>
             /\ frontier[v] = {} /\ reading[v] = NoRead
             /\ phase[v] # "refused" => \A n \in DOMAIN ledger : ledger[n].run # id[v]

\* What stays of a reference found valid: its name is bound or about to be, or
\* some stored artifact its pin addresses has its name and arity.
Bound(r) == IF r.pin = NoPin THEN index[r.key] # NoArtifact
                             ELSE \E a \in ResolvePrefix(r.pin) : KeyOf(a) = r.key

Available(u, r) ==
  \/ Bound(r)
  \/ r.pin = NoPin /\ r.key \in {DefKey[d] : d \in Definitions(u)}

ProgramLinks ==
  \A v \in Vessel :
     /\ phase[v] \in {"validated", "registered"} =>
          \A r \in References(program[v]) : Available(program[v].unit, r)
     /\ phase[v] = "published" => Bound(program[v].root)

\* Every reference in the body of a stored artifact can be resolved, and a
\* pinned one leads to the name and arity it is written with.
StoreLinks ==
  \A a \in artifacts : \A i \in DOMAIN BodyRefs[DefOf[a]] :
     LET r == BodyRefs[DefOf[a]][i]
     IN  IF r.pin = NoPin THEN index[r.key] # NoArtifact ELSE KeyOf(pinned[a][r.pin]) = r.key

\* So can every exposed occurrence.
FrontierLinks ==
  \A v \in Vessel : \A o \in frontier[v] :
     IF o.pinned = NoArtifact THEN index[o.key] # NoArtifact
                              ELSE o.pinned \in artifacts /\ KeyOf(o.pinned) = o.key

\* What artifact a says of revision rev, for a reference to k pinned to p.
TrueAt(rev, k, p, a) ==
  /\ rev \in 0..revision
  /\ a \in history[rev + 1].artifacts
  /\ p = NoArtifact => history[rev + 1].index[k] = a

\* What deduce has read is true of the revision it was read at, which is none
\* older than the parent's record.
ReadingLinks ==
  \A v \in Vessel : reading[v] # NoRead =>
     LET got == reading[v]
         o == got.occ
     IN  /\ o \in frontier[v]
         /\ got.artifact \in artifacts
         /\ KeyOf(got.artifact) = o.key
         /\ o.pinned # NoArtifact => got.artifact = o.pinned
         /\ got.revision = Unread => o.pinned # NoArtifact
         /\ got.revision # Unread =>
              /\ TrueAt(got.revision, o.key, o.pinned, got.artifact)
              /\ \A m \in DOMAIN ledger :
                    /\ ledger[m].run = id[v] /\ o.path # <<>>
                    /\ ledger[m].occ = SubSeq(o.path, 1, Len(o.path) - 1)
                    => ledger[m].entry.revision <= got.revision

\* Records cite no future revision and name stored artifacts.
RecordLinks ==
  \A n \in DOMAIN ledger : /\ ledger[n].entry.revision <= revision
                           /\ ledger[n].entry.artifact \in artifacts

\* The record of every occurrence above a record is there.
PrefixesRecorded ==
  \A n \in DOMAIN ledger : \A k \in 0..(Len(ledger[n].occ) - 1) :
     \E m \in DOMAIN ledger : /\ ledger[m].run = ledger[n].run
                              /\ ledger[m].occ = SubSeq(ledger[n].occ, 1, k)

\* The record m that exposed o in run r: o is one of its body's references.
ExposedBy(m, r, o) ==
  LET parent == ledger[m].entry.artifact
      refs == BodyRefs[DefOf[parent]]
      seg == o.path[Len(o.path)]
  IN  /\ ledger[m].run = r
      /\ ledger[m].occ = SubSeq(o.path, 1, Len(o.path) - 1)
      /\ seg \in DOMAIN refs
      /\ o.pinned # NoArtifact => o.pinned = pinned[parent][refs[seg].pin]

\* An exposed occurrence has no record yet, its parent has one, and no path is
\* exposed twice.
FrontierTree ==
  \A v \in Vessel : \A o \in frontier[v] :
     /\ ~Recorded(id[v], o.path)
     /\ o.path # <<>> => \E m \in DOMAIN ledger : ExposedBy(m, id[v], o)
     /\ \A q \in frontier[v] : q.path = o.path => q = o

LedgerTree == LedgerReplaysTree /\ PrefixesRecorded /\ NoReentry

RunsInv ==
  /\ Inv(RunEntry) /\ VesselTypes /\ Protocol
  /\ ProgramLinks /\ StoreLinks /\ FrontierLinks /\ ReadingLinks
  /\ RecordLinks /\ RecordMatchesRevision /\ LedgerTree /\ FrontierTree
  /\ OnlyCyclesFail /\ OneRunPerIdentity

-----------------------------------------------------------------------------
(* Paths.                                                                  *)

\* A prefix of a path is a path of that length, and a prefix of a prefix is one
\* of the whole path.
LEMMA PrefixFacts ==
  ASSUME NEW p \in Seq(Nat), NEW k \in 0..Len(p)
  PROVE  /\ SubSeq(p, 1, k) \in Seq(Nat)
         /\ Len(SubSeq(p, 1, k)) = k
         /\ \A i \in 1..k : SubSeq(p, 1, k)[i] = p[i]
         /\ \A j \in 0..k : SubSeq(SubSeq(p, 1, k), 1, j) = SubSeq(p, 1, j)
<1>1. \A j \in 0..Len(p) : /\ SubSeq(p, 1, j) \in Seq(Nat)
                           /\ Len(SubSeq(p, 1, j)) = j
                           /\ \A i \in 1..j : SubSeq(p, 1, j)[i] = p[i]
  OBVIOUS
<1>2. ASSUME NEW j \in 0..k
      PROVE  SubSeq(SubSeq(p, 1, k), 1, j) = SubSeq(p, 1, j)
  <2>1. /\ SubSeq(SubSeq(p, 1, k), 1, j) \in Seq(Nat)
        /\ Len(SubSeq(SubSeq(p, 1, k), 1, j)) = j
        /\ \A i \in 1..j : SubSeq(SubSeq(p, 1, k), 1, j)[i] = SubSeq(p, 1, k)[i]
    BY <1>1
  <2>2. QED
    BY <1>1, <2>1
<1>3. QED
  BY <1>1, <1>2

\* A path one segment longer keeps the prefixes of the shorter one, which is
\* the prefix just above it.
LEMMA AppendFacts ==
  ASSUME NEW p \in Seq(Nat), NEW i \in Nat
  PROVE  /\ Append(p, i) \in Seq(Nat) /\ Append(p, i) # <<>>
         /\ Len(Append(p, i)) = Len(p) + 1
         /\ Append(p, i)[Len(p) + 1] = i
         /\ SubSeq(Append(p, i), 1, Len(p)) = p
         /\ \A k \in 0..Len(p) : SubSeq(Append(p, i), 1, k) = SubSeq(p, 1, k)
<1>1. /\ Append(p, i) \in Seq(Nat) /\ Append(p, i) # <<>>
      /\ Len(Append(p, i)) = Len(p) + 1
      /\ Append(p, i)[Len(p) + 1] = i
      /\ \A j \in 1..Len(p) : Append(p, i)[j] = p[j]
  OBVIOUS
<1>2. \A k \in 0..Len(p) : /\ SubSeq(Append(p, i), 1, k) \in Seq(Nat)
                           /\ Len(SubSeq(Append(p, i), 1, k)) = k
                           /\ \A j \in 1..k : SubSeq(Append(p, i), 1, k)[j] = p[j]
  BY <1>1, PrefixFacts
<1>3. SubSeq(Append(p, i), 1, Len(p)) = p
  BY <1>2
<1>4. \A k \in 0..Len(p) : SubSeq(Append(p, i), 1, k) = SubSeq(p, 1, k)
  BY <1>2, PrefixFacts
<1>5. QED
  BY <1>1, <1>3, <1>4

-----------------------------------------------------------------------------
(* The store only grows.                                                   *)

Grows ==
  /\ artifacts \subseteq artifacts'
  /\ \A a \in artifacts : pinned'[a] = pinned[a]
  /\ \A k \in Key : index[k] # NoArtifact => index'[k] # NoArtifact
  /\ revision <= revision'
  /\ \A n \in DOMAIN history : n \in DOMAIN history' /\ history'[n] = history[n]

\* A publication drops no artifact, pin, binding or past revision.
LEMMA CommitUnitGrows ==
  ASSUME NEW E, Inv(E), NEW u \in Unit, CommitUnit(u)
  PROVE  Grows
<1>1. \A n \in DOMAIN history : n \in DOMAIN history' /\ history'[n] = history[n]
  BY RememberFacts DEF Inv, CommitUnit
<1>2. ASSUME NEW k \in Key, index[k] # NoArtifact
      PROVE  index'[k] # NoArtifact
  <2>1. CASE \E a \in Staged(u) : KeyOf(a) = k
    <3>1. index'[k] \in Staged(u)
      BY <2>1 DEF CommitUnit
    <3>2. QED
      BY <3>1, StagedFacts, ConstantTypes DEF Inv, CommitUnit
  <2>2. CASE ~ \E a \in Staged(u) : KeyOf(a) = k
    BY <1>2, <2>2 DEF CommitUnit
  <2>3. QED
    BY <2>1, <2>2
<1>3. QED
  BY <1>1, <1>2 DEF Grows, CommitUnit, Inv, TypesWith

\* Nor does a rebinding.
LEMMA RebindGrows ==
  ASSUME NEW E, Inv(E), NEW k \in Key, NEW a \in Artifact, Rebind(k, a)
  PROVE  Grows
<1>1. \A n \in DOMAIN history : n \in DOMAIN history' /\ history'[n] = history[n]
  BY RememberFacts DEF Inv, Rebind
<1>2. QED
  BY <1>1, ConstantTypes DEF Grows, Rebind, Inv, TypesWith

\* Nor does anything that leaves the store alone.
LEMMA UnchangedGrows ==
  ASSUME NEW E, Inv(E), UNCHANGED store
  PROVE  Grows
  BY DEF Grows, store, Inv, TypesWith

\* What a reference resolves to stays there.
LEMMA BoundLasts ==
  ASSUME Grows, NEW r \in Ref, Bound(r)
  PROVE  Bound(r)'
  BY DEF Grows, Ref, Bound, ResolvePrefix

\* A reference valid when its unit was checked is still valid at any later time
\* its pin resolves at all, so a client need not hold the Codebase between
\* Validate and CommitUnit.
LEMMA ValidityLasts ==
  ASSUME NEW E, Inv(E), Grows, NEW u \in Unit, NEW r \in Ref, ValidRef(u, r),
         r.pin # NoPin => Unique(r.pin)'
  PROVE  ValidRef(u, r)'
  BY DEF Grows, Ref, ValidRef, ResolvePrefix, Unique

\* The body of a definition refers to typed references, by positions that may
\* be path segments.
LEMMA BodyFacts ==
  ASSUME NEW d \in Definition, NEW i \in DOMAIN BodyRefs[d]
  PROVE  /\ BodyRefs[d][i] \in Ref
         /\ BodyRefs[d][i].pin # NoPin => BodyRefs[d][i].pin \in PinsOf[d]
         /\ i \in Nat /\ i \in Position
<1>1. BodyRefs[d] \in Seq(Ref)
  BY ProgramTypes
<1>2. i \in Nat /\ BodyRefs[d][i] \in Ref
  BY <1>1
<1>3. i \in Position
  BY DEF Position
<1>4. QED
  BY <1>2, <1>3, ProgramTypes

\* What a unit defines or could refer to before is bound once it is committed.
LEMMA CommitUnitBinds ==
  ASSUME NEW E, Inv(E), NEW u \in Unit, CommitUnit(u), NEW r \in Ref, Available(u, r)
  PROVE  Bound(r)'
<1>1. CASE Bound(r)
  BY <1>1, CommitUnitGrows, BoundLasts
<1>2. CASE r.pin = NoPin /\ r.key \in {DefKey[d] : d \in Definitions(u)}
  <2>1. PICK i \in DOMAIN u : r.key = DefKey[u[i]]
    BY <1>2 DEF Definitions
  <2> DEFINE a == Digest(u[i], PinsFor(u[i]))
  <2>2. a \in Staged(u)
    BY DEF Staged
  <2>3. u[i] \in Definition
    BY UnitOK
  <2>4. PinsFor(u[i]) \in Resolutions(u[i])
    <3>1. ASSUME NEW p \in PinsOf[u[i]]
          PROVE  p \in Pin /\ PinsFor(u[i])[p] \in Artifact \cap Addressed[p]
      <4>1. PICK b \in Artifact : ResolvePrefix(p) = {b}
        BY DEF Resolvable, Unique, CommitUnit
      <4>2. p \in Pin
        BY <2>3, ConstantTypes
      <4>3. QED
        BY <4>1, <4>2 DEF PinsFor, ResolvePrefix
    <3>2. QED
      BY <3>1, <2>3, ConstantTypes DEF PinsFor, Resolutions
  <2>5. KeyOf(a) = r.key /\ r.key \in Key
    BY <2>1, <2>3, <2>4, DigestOK DEF KeyOf, Ref
  <2>6. index'[r.key] \in Staged(u)
    BY <2>2, <2>5 DEF CommitUnit
  <2>7. index'[r.key] # NoArtifact
    BY <2>6, StagedFacts, ConstantTypes DEF Inv, CommitUnit
  <2>8. QED
    BY <1>2, <2>7 DEF Bound
<1>3. QED
  BY <1>1, <1>2 DEF Available

\* A unit whose references are available is stored with bodies all of whose
\* references resolve.
LEMMA CommitUnitLinks ==
  ASSUME NEW E, Inv(E), StoreLinks, NEW u \in Unit, CommitUnit(u),
         \A r \in BodyReferences(u) : Available(u, r)
  PROVE  StoreLinks'
<1> SUFFICES ASSUME NEW a \in artifacts', NEW i \in DOMAIN BodyRefs[DefOf[a]]
             PROVE  LET r == BodyRefs[DefOf[a]][i]
                    IN  IF r.pin = NoPin THEN index'[r.key] # NoArtifact
                                         ELSE KeyOf(pinned'[a][r.pin]) = r.key
  BY DEF StoreLinks, KeyOf
<1> DEFINE r == BodyRefs[DefOf[a]][i]
<1>0. a \in Artifact /\ DefOf[a] \in Definition
  BY StagedFacts, ConstantTypes DEF CommitUnit, Inv, TypesWith
<1>1. /\ r \in Ref
      /\ r.pin # NoPin => r.pin \in PinsOf[DefOf[a]]
  BY <1>0, BodyFacts
<1>2. CASE a \in artifacts
  <2>1. IF r.pin = NoPin THEN index[r.key] # NoArtifact ELSE KeyOf(pinned[a][r.pin]) = r.key
    BY <1>2 DEF StoreLinks
  <2>2. QED
    BY <1>1, <1>2, <2>1, CommitUnitGrows DEF Grows, Ref
<1>3. CASE a \in Staged(u) \ artifacts
  <2>1. /\ pinned'[a] = PinsFor(DefOf[a])
        /\ \E j \in DOMAIN u : u[j] = DefOf[a]
        /\ \A p \in PinsOf[DefOf[a]] : PinsFor(DefOf[a])[p] \in artifacts \cap Addressed[p]
    BY <1>0, <1>3, StagedFacts DEF CommitUnit, Inv
  <2>2. r \in BodyReferences(u)
    BY <2>1 DEF BodyReferences, Definitions
  <2>3. Available(u, r)
    BY <2>2
  <2>4. CASE r.pin = NoPin
    BY <1>1, <2>3, <2>4, CommitUnitBinds DEF Bound
  <2>5. CASE r.pin # NoPin
    <3>1. PICK b \in ResolvePrefix(r.pin) : KeyOf(b) = r.key
      BY <2>3, <2>5 DEF Available, Bound
    <3>2. PICK j \in DOMAIN u : u[j] = DefOf[a]
      BY <2>1
    <3>3. Unique(r.pin)
      BY <1>1, <2>5, <3>2 DEF CommitUnit, Resolvable
    <3>4. PinsFor(DefOf[a])[r.pin] \in ResolvePrefix(r.pin)
      BY <1>1, <2>1, <2>5 DEF ResolvePrefix
    <3>5. PinsFor(DefOf[a])[r.pin] = b
      BY <3>1, <3>3, <3>4 DEF Unique
    <3>6. QED
      BY <2>1, <2>5, <3>1, <3>5
  <2>6. QED
    BY <2>4, <2>5
<1>4. QED
  BY <1>2, <1>3 DEF CommitUnit

\* Moving an alias leaves every stored reference resolvable.
LEMMA RebindLinks ==
  ASSUME NEW E, Inv(E), StoreLinks, NEW k \in Key, NEW a \in Artifact, Rebind(k, a)
  PROVE  StoreLinks'
<1> SUFFICES ASSUME NEW b \in artifacts, NEW i \in DOMAIN BodyRefs[DefOf[b]]
             PROVE  LET r == BodyRefs[DefOf[b]][i]
                    IN  IF r.pin = NoPin THEN index'[r.key] # NoArtifact
                                         ELSE KeyOf(pinned[b][r.pin]) = r.key
  BY DEF StoreLinks, KeyOf, Rebind
<1>1. BodyRefs[DefOf[b]][i].key \in Key
  BY BodyFacts, ConstantTypes DEF Inv, TypesWith, Ref
<1>2. QED
  BY <1>1, RebindGrows DEF StoreLinks, Grows

-----------------------------------------------------------------------------
(* Steps of others: what a run has exposed, read and recorded stays true     *)
(* while the store grows.                                                    *)

\* What was true of a revision remains so.
LEMMA TrueLasts ==
  ASSUME Inv(RunEntry), Grows, TypesWith(RunEntry)',
         NEW rev, NEW k, NEW p, NEW a, TrueAt(rev, k, p, a)
  PROVE  TrueAt(rev, k, p, a)'
<1>1. rev \in 0..revision' /\ rev + 1 \in DOMAIN history
  BY DEF TrueAt, Grows, Inv, TypesWith, RevisionIdentifies
<1>2. history'[rev + 1] = history[rev + 1]
  BY <1>1 DEF Grows
<1>3. QED
  BY <1>1, <1>2 DEF TrueAt

\* A record has an artifact, a revision and a path.
LEMMA RecordFacts ==
  ASSUME TypesWith(RunEntry), NEW n \in DOMAIN ledger
  PROVE  /\ n \in Nat \ {0} /\ n <= Len(ledger)
         /\ ledger[n].run \in RunId
         /\ ledger[n].occ \in Occurrence /\ ledger[n].occ \in Seq(Nat)
         /\ ledger[n].entry \in RunEntry
         /\ ledger[n].entry.artifact \in Artifact
         /\ ledger[n].entry.revision \in Nat
<1>1. ledger[n] \in Record(RunEntry) /\ n \in Nat \ {0} /\ n <= Len(ledger)
  BY DEF TypesWith
<1>2. ledger[n].run \in RunId /\ ledger[n].occ \in Occurrence /\ ledger[n].entry \in RunEntry
  BY <1>1 DEF Record
<1>3. ledger[n].entry.artifact \in Artifact /\ ledger[n].entry.revision \in Nat
  BY <1>2 DEF RunEntry
<1>4. ledger[n].occ \in Seq(Nat)
  BY <1>2, OccurrenceOK
<1>5. QED
  BY <1>1, <1>2, <1>3, <1>4

\* An occurrence that counts as committed has a record.
LEMMA RecordedHasRecord ==
  ASSUME LedgerIndexed, NEW r \in RunId, NEW p \in Occurrence, Recorded(r, p)
  PROVE  \E n \in DOMAIN ledger : ledger[n].run = r /\ ledger[n].occ = p
<1> DEFINE n == byOcc[<<r, p>>]
<1>1. n \in DOMAIN ledger /\ ledger[n].run = r /\ ledger[n].occ = p
  BY DEF LedgerIndexed
<1> HIDE DEF n
<1>2. QED
  BY <1>1

\* Records stay true, and their tree stays a tree.
LEMMA RecordsKept ==
  ASSUME Inv(RunEntry), Grows, TypesWith(RunEntry)', UNCHANGED records,
         RecordLinks, RecordMatchesRevision, LedgerTree
  PROVE  RecordLinks' /\ RecordMatchesRevision' /\ LedgerTree'
<1> USE DEF records
<1>1. RecordLinks'
  <2>1. revision \in Nat /\ revision' \in Nat /\ revision <= revision' /\ artifacts \subseteq artifacts'
    BY DEF Grows, Inv, TypesWith
  <2>2. \A n \in DOMAIN ledger : ledger[n].entry.revision \in Nat
    BY RecordFacts DEF Inv
  <2>3. QED
    BY <2>1, <2>2 DEF RecordLinks
<1>2. RecordMatchesRevision'
  <2>1. ASSUME NEW n \in DOMAIN ledger
        PROVE  history'[ledger[n].entry.revision + 1] = history[ledger[n].entry.revision + 1]
    <3>1. ledger[n].entry.revision \in Nat /\ ledger[n].entry.revision <= revision
      BY RecordFacts DEF RecordLinks, Inv
    <3>2. ledger[n].entry.revision + 1 \in DOMAIN history
      <4>1. DOMAIN history = 1..Len(history) /\ Len(history) = revision + 1 /\ revision \in Nat
        BY DEF Inv, TypesWith, RevisionIdentifies
      <4>2. QED
        BY <3>1, <4>1
    <3>3. QED
      BY <3>2 DEF Grows
  <2>2. ledger' = ledger
    OBVIOUS
  <2>3. QED
    BY <2>1, <2>2 DEF RecordMatchesRevision, KeyOf
<1>3. LedgerReplaysTree'
  <2> SUFFICES ASSUME NEW n \in DOMAIN ledger, ledger[n].occ # <<>>
               PROVE  \E m \in 1..(n - 1) :
                        /\ IsParent(m, n)
                        /\ ledger[m].entry.revision <= ledger[n].entry.revision
                        /\ ledger[n].entry.ref = "hash-qualified" =>
                             LET parent == ledger[m].entry.artifact
                                 seg == ledger[n].occ[Len(ledger[n].occ)]
                             IN  ledger[n].entry.artifact
                                   = pinned'[parent][BodyRefs[DefOf[parent]][seg].pin]
    BY DEF LedgerReplaysTree, IsParent
  <2>1. PICK m \in 1..(n - 1) :
          /\ IsParent(m, n)
          /\ ledger[m].entry.revision <= ledger[n].entry.revision
          /\ ledger[n].entry.ref = "hash-qualified" =>
               LET parent == ledger[m].entry.artifact
                   seg == ledger[n].occ[Len(ledger[n].occ)]
               IN  ledger[n].entry.artifact
                     = pinned[parent][BodyRefs[DefOf[parent]][seg].pin]
    BY DEF LedgerTree, LedgerReplaysTree
  <2>2. m \in DOMAIN ledger
    BY RecordFacts DEF Inv, TypesWith
  <2>3. pinned'[ledger[m].entry.artifact] = pinned[ledger[m].entry.artifact]
    BY <2>2 DEF RecordLinks, Grows
  <2>4. QED
    BY <2>1, <2>3
<1>4. PrefixesRecorded' /\ NoReentry'
  <2>1. ledger' = ledger
    OBVIOUS
  <2>2. PrefixesRecorded'
    BY <2>1 DEF LedgerTree, PrefixesRecorded
  <2>3. NoReentry'
    BY <2>1 DEF LedgerTree, NoReentry
  <2>4. QED
    BY <2>2, <2>3
<1>5. QED
  BY <1>1, <1>2, <1>3, <1>4 DEF LedgerTree

\* What the vessels have exposed and read stays resolvable, true and part of
\* the tree, as long as no run that has exposed anything changes its identity.
LEMMA LinksKept ==
  ASSUME Inv(RunEntry), VesselTypes, Grows, TypesWith(RunEntry)', UNCHANGED records,
         UNCHANGED <<frontier, reading>>,
         \A v \in Vessel : frontier[v] # {} => id'[v] = id[v],
         RecordLinks, FrontierLinks, ReadingLinks, FrontierTree
  PROVE  FrontierLinks' /\ ReadingLinks' /\ FrontierTree'
<1> USE DEF records
<1>1. FrontierLinks'
  <2> SUFFICES ASSUME NEW v \in Vessel, NEW o \in frontier[v]
               PROVE  IF o.pinned = NoArtifact THEN index'[o.key] # NoArtifact
                      ELSE o.pinned \in artifacts' /\ KeyOf(o.pinned) = o.key
    BY DEF FrontierLinks, KeyOf
  <2>1. o \in Exposure
    BY DEF VesselTypes
  <2>2. QED
    BY <2>1 DEF FrontierLinks, Grows, Exposure
<1>2. ReadingLinks'
  <2> SUFFICES ASSUME NEW v \in Vessel, reading[v] # NoRead
               PROVE  /\ reading[v].occ \in frontier[v] => id'[v] = id[v]
                      /\ reading[v].artifact \in artifacts => reading[v].artifact \in artifacts'
                      /\ TrueAt(reading[v].revision, reading[v].occ.key, reading[v].occ.pinned,
                                reading[v].artifact)
                         => TrueAt(reading[v].revision, reading[v].occ.key,
                                   reading[v].occ.pinned, reading[v].artifact)'
    BY DEF ReadingLinks, KeyOf
  <2>1. reading[v].occ \in frontier[v] => id'[v] = id[v]
    OBVIOUS
  <2>2. reading[v].artifact \in artifacts => reading[v].artifact \in artifacts'
    BY DEF Grows
  <2>3. ASSUME TrueAt(reading[v].revision, reading[v].occ.key, reading[v].occ.pinned,
                      reading[v].artifact)
        PROVE  TrueAt(reading[v].revision, reading[v].occ.key, reading[v].occ.pinned,
                      reading[v].artifact)'
    BY <2>3, TrueLasts
  <2>4. QED
    BY <2>1, <2>2, <2>3
<1>3. FrontierTree'
  <2> SUFFICES ASSUME NEW v \in Vessel, NEW o \in frontier[v]
               PROVE  /\ ~Recorded(id'[v], o.path)
                      /\ o.path # <<>> => \E m \in DOMAIN ledger : ExposedBy(m, id[v], o)'
                      /\ \A q \in frontier[v] : q.path = o.path => q = o
    BY DEF FrontierTree, Recorded
  <2>1. /\ ~Recorded(id[v], o.path)
        /\ \A q \in frontier[v] : q.path = o.path => q = o
    BY DEF FrontierTree
  <2>2. ASSUME NEW m \in DOMAIN ledger, ExposedBy(m, id[v], o)
        PROVE  ExposedBy(m, id[v], o)'
    <3>1. pinned'[ledger[m].entry.artifact] = pinned[ledger[m].entry.artifact]
      BY DEF RecordLinks, Grows
    <3>2. id'[v] = id[v]
      OBVIOUS
    <3>3. QED
      BY <2>2, <3>1, <3>2 DEF ExposedBy
  <2>3. id'[v] = id[v]
    OBVIOUS
  <2>4. QED
    BY <2>1, <2>2, <2>3 DEF FrontierTree
<1>4. QED
  BY <1>1, <1>2, <1>3

\* A step that exposes, reads and records nothing has only the protocol and
\* the links of programs and of stored bodies to keep.
LEMMA QuietStep ==
  ASSUME RunsInv, Inv(RunEntry)', VesselTypes', Grows,
         UNCHANGED records, UNCHANGED <<frontier, reading, failed>>,
         \A v \in Vessel : frontier[v] # {} => id'[v] = id[v],
         Protocol', ProgramLinks', StoreLinks', OneRunPerIdentity'
  PROVE  RunsInv'
<1>1. TypesWith(RunEntry)'
  BY DEF Inv
<1>2. RecordLinks' /\ RecordMatchesRevision' /\ LedgerTree'
  BY <1>1, RecordsKept DEF RunsInv
<1>3. FrontierLinks' /\ ReadingLinks' /\ FrontierTree'
  BY <1>1, LinksKept DEF RunsInv
<1>4. OnlyCyclesFail'
  BY DEF RunsInv, OnlyCyclesFail
<1>5. QED
  BY <1>2, <1>3, <1>4 DEF RunsInv

\* A step of a vessel that calls no Codebase operation that writes.
LEMMA StoreStill ==
  ASSUME RunsInv, UNCHANGED codebaseVars
  PROVE  /\ Grows /\ Inv(RunEntry)' /\ StoreLinks'
         /\ RecordLinks' /\ RecordMatchesRevision' /\ LedgerTree'
         /\ UNCHANGED <<store, registry, records>>
         /\ \A r, p : Recorded(r, p)' <=> Recorded(r, p)
         /\ \A m, r, o : ExposedBy(m, r, o)' <=> ExposedBy(m, r, o)
         /\ \A rev, k, p, a : TrueAt(rev, k, p, a)' <=> TrueAt(rev, k, p, a)
<1> USE DEF codebaseVars
<1>1. Grows
  BY UnchangedGrows DEF RunsInv
<1>2. TypesWith(RunEntry)'
  BY DEF RunsInv, Inv, TypesWith, store, registry, records
<1>3. Inv(RunEntry)' /\ StoreLinks'
  BY <1>2, RegistryInv DEF RunsInv, store, StoreLinks, KeyOf
<1>4. RecordLinks' /\ RecordMatchesRevision' /\ LedgerTree'
  BY <1>1, <1>2, RecordsKept DEF RunsInv
<1>5. /\ \A r, p : Recorded(r, p)' <=> Recorded(r, p)
      /\ \A m, r, o : ExposedBy(m, r, o)' <=> ExposedBy(m, r, o)
      /\ \A rev, k, p, a : TrueAt(rev, k, p, a)' <=> TrueAt(rev, k, p, a)
  BY DEF Recorded, ExposedBy, TrueAt, store, records
<1>6. QED
  BY <1>1, <1>3, <1>4, <1>5

-----------------------------------------------------------------------------
(* The start protocol.                                                     *)

\* Programs refer to typed references.
LEMMA ProgramFacts ==
  ASSUME NEW p \in Program
  PROVE  /\ p.unit \in Unit
         /\ p.root \in References(p)
         /\ BodyReferences(p.unit) \subseteq References(p)
         /\ References(p) \subseteq Ref
<1>1. \A d \in Definitions(p.unit) : d \in Definition
  <2>1. p.unit \in Seq(Definition)
    BY ProgramTypes, UnitOK
  <2>2. QED
    BY <2>1 DEF Definitions
<1>2. BodyReferences(p.unit) \subseteq Ref
  BY <1>1, BodyFacts DEF BodyReferences
<1>3. QED
  BY <1>2, ProgramTypes DEF References

\* A valid reference is available.
LEMMA ValidIsAvailable ==
  ASSUME NEW u, NEW r \in Ref, ValidRef(u, r)
  PROVE  Available(u, r)
  BY DEF ValidRef, Available, Bound, Unique

\* Validation establishes the links of the program.
LEMMA ValidateInv ==
  ASSUME RunsInv, NEW v \in Vessel, NEW p \in Program, Validate(v, p)
  PROVE  RunsInv'
<1> USE DEF Validate, Goto, codebaseVars
<1>1. Grows /\ Inv(RunEntry)' /\ StoreLinks'
  BY StoreStill
<1>2. VesselTypes'
  BY DEF RunsInv, VesselTypes
<1>3. Protocol'
  BY DEF RunsInv, VesselTypes, Protocol, registry, records
<1>4. ProgramLinks'
  <2>1. \A r \in References(p) : Available(p.unit, r)'
    BY ProgramFacts, ValidIsAvailable DEF Available, Bound, ResolvePrefix, KeyOf, store
  <2>2. QED
    BY <2>1 DEF RunsInv, VesselTypes, ProgramLinks, Available, Bound, ResolvePrefix, KeyOf, store
<1>5. OneRunPerIdentity'
  BY DEF RunsInv, VesselTypes, OneRunPerIdentity
<1>6. QED
  BY <1>1, <1>2, <1>3, <1>4, <1>5, QuietStep

\* The identity a vessel registers was nobody's, so no run shares it and no
\* record carries it yet.
LEMMA RegisterInv ==
  ASSUME RunsInv, NEW v \in Vessel, NEW name \in RunId, Register(v, name)
  PROVE  RunsInv'
<1> USE DEF Register, Goto
<1>1. /\ name \notin runs /\ runs' = runs \cup {name}
      /\ UNCHANGED <<store, records>>
      /\ runSeq' \in Nat
  <2>1. CASE RequestedId[v] = NoId
    <3>1. PICK n \in 1..MaxRun : RegisterFreshRun(n) /\ name = Fresh(n)
      BY <2>1
    <3>2. QED
      BY <3>1, ConstantTypes DEF RegisterFreshRun, NextFree
  <2>2. CASE RequestedId[v] # NoId
    BY <2>2 DEF RegisterRun, RunsInv, Inv, TypesWith
  <2>3. QED
    BY <2>1, <2>2
<1>2. Grows
  BY <1>1, UnchangedGrows DEF RunsInv
<1>3. Inv(RunEntry)' /\ StoreLinks'
  <2>1. TypesWith(RunEntry)'
    BY <1>1 DEF RunsInv, Inv, TypesWith, store, records
  <2>2. QED
    BY <1>1, <2>1, RegistryInv DEF RunsInv, store, StoreLinks, KeyOf
<1>4. VesselTypes'
  BY DEF RunsInv, VesselTypes
<1>5. id[v] = NoId /\ frontier[v] = {} /\ name # NoId
  BY RequestTypes DEF RunsInv, Protocol
<1>6. id' = [id EXCEPT ![v] = name] /\ phase' = [phase EXCEPT ![v] = "registered"]
  OBVIOUS
<1>7. Protocol'
  <2>1. \A n \in DOMAIN ledger : ledger[n].run # name
    BY <1>1 DEF RunsInv, Protocol
  <2>2. QED
    BY <1>1, <1>5, <1>6, <2>1 DEF RunsInv, VesselTypes, Protocol, records
<1>8. ProgramLinks'
  BY <1>1 DEF RunsInv, VesselTypes, ProgramLinks, Available, Bound, ResolvePrefix, KeyOf, store
<1>9. OneRunPerIdentity'
  <2>1. \A w \in Vessel : id[w] # name
    BY <1>1, <1>5 DEF RunsInv, Protocol
  <2>2. QED
    BY <1>5, <1>6, <2>1 DEF RunsInv, VesselTypes, OneRunPerIdentity
<1>10. QED
  <2>1. \A w \in Vessel : frontier[w] # {} => id'[w] = id[w]
    BY <1>5, <1>6 DEF RunsInv, VesselTypes
  <2>2. QED
    BY <1>1, <1>2, <1>3, <1>4, <1>7, <1>8, <1>9, <2>1, QuietStep

\* Only an identity somebody asked for is refused.
LEMMA RefuseIdentityInv ==
  ASSUME RunsInv, NEW v \in Vessel, RefuseIdentity(v)
  PROVE  RunsInv'
<1> USE DEF RefuseIdentity, Goto, codebaseVars
<1>1. Grows /\ Inv(RunEntry)' /\ StoreLinks'
  BY StoreStill
<1>2. VesselTypes'
  BY DEF RunsInv, VesselTypes
<1>3. Protocol'
  BY DEF RunsInv, VesselTypes, Protocol, registry, records
<1>4. ProgramLinks'
  BY DEF RunsInv, VesselTypes, ProgramLinks, Available, Bound, ResolvePrefix, KeyOf, store
<1>5. OneRunPerIdentity'
  <2>1. RequestedId[v] # NoId
    BY RequestTypes DEF RunsInv, Inv, TypesWith
  <2>2. QED
    BY <2>1 DEF RunsInv, VesselTypes, OneRunPerIdentity
<1>6. QED
  BY <1>1, <1>2, <1>3, <1>4, <1>5, QuietStep

\* Committing a unit with available references keeps every vessel's links; in
\* the committing vessel the Root becomes bound.
LEMMA CommitUnitKeepsLinks ==
  ASSUME RunsInv, NEW u \in Unit, CommitUnit(u),
         \A r \in BodyReferences(u) : Available(u, r)
  PROVE  /\ Grows /\ Inv(RunEntry)' /\ StoreLinks' /\ UNCHANGED <<registry, records>>
         /\ \A r \in Ref : Available(u, r) => Bound(r)'
         /\ \A w : \A r \in Ref : Available(w, r) => Available(w, r)'
<1>1. Grows /\ Inv(RunEntry)' /\ StoreLinks'
  BY CommitUnitGrows, CommitUnitInv, CommitUnitLinks DEF RunsInv
<1>2. \A r \in Ref : Available(u, r) => Bound(r)'
  BY CommitUnitBinds DEF RunsInv
<1>3. ASSUME NEW w, NEW r \in Ref, Available(w, r)
      PROVE  Available(w, r)'
  BY <1>1, <1>3, BoundLasts DEF Available
<1>4. QED
  BY <1>1, <1>2, <1>3 DEF CommitUnit

\* The program of a vessel stays available while the store grows.
LEMMA ProgramLinksKept ==
  ASSUME RunsInv, Grows, NEW w \in Vessel, program'[w] = program[w]
  PROVE  /\ phase[w] \in {"validated", "registered"} =>
              \A r \in References(program[w]) : Available(program[w].unit, r)'
         /\ phase[w] = "published" => Bound(program[w].root)'
<1>1. ASSUME phase[w] \in {"validated", "registered"}, NEW r \in References(program[w])
      PROVE  Available(program[w].unit, r)'
  <2>1. program[w] \in Program
    BY <1>1 DEF RunsInv, Protocol
  <2>2. r \in Ref /\ Available(program[w].unit, r)
    BY <1>1, <2>1, ProgramFacts DEF RunsInv, ProgramLinks
  <2>3. QED
    BY <2>2, BoundLasts DEF Available
<1>2. ASSUME phase[w] = "published"
      PROVE  Bound(program[w].root)'
  <2>1. program[w].root \in Ref /\ Bound(program[w].root)
    BY <1>2, ProgramFacts DEF RunsInv, Protocol, ProgramLinks
  <2>2. QED
    BY <2>1, BoundLasts
<1>3. QED
  BY <1>1, <1>2

\* A publication binds the Root; what else the unit needs was found valid and
\* has stayed available since, and a unit that does not resolve changes nothing.
LEMMA PublishInv ==
  ASSUME RunsInv, NEW v \in Vessel, Publish(v)
  PROVE  RunsInv'
<1> USE DEF Publish, Goto
<1>1. program[v] \in Program
  BY DEF RunsInv, Protocol
<1>2. \A r \in References(program[v]) : Available(program[v].unit, r)
  BY DEF RunsInv, ProgramLinks
<1>3. CASE CommitUnit(program[v].unit) /\ phase' = [phase EXCEPT ![v] = "published"]
  <2>1. /\ Grows /\ Inv(RunEntry)' /\ StoreLinks' /\ UNCHANGED <<registry, records>>
        /\ Bound(program[v].root)'
    BY <1>1, <1>2, <1>3, ProgramFacts, CommitUnitKeepsLinks
  <2>2. VesselTypes'
    BY <1>3 DEF RunsInv, VesselTypes
  <2>3. Protocol'
    BY <1>3, <2>1 DEF RunsInv, VesselTypes, Protocol, registry, records
  <2>4. ProgramLinks'
    BY <1>3, <2>1, ProgramLinksKept DEF RunsInv, VesselTypes, ProgramLinks
  <2>5. OneRunPerIdentity'
    BY <1>3 DEF RunsInv, VesselTypes, OneRunPerIdentity
  <2>6. QED
    BY <2>1, <2>2, <2>3, <2>4, <2>5, QuietStep
<1>4. CASE RefuseUnit(program[v].unit) /\ phase' = [phase EXCEPT ![v] = "refused"]
  <2> USE DEF RefuseUnit, codebaseVars
  <2>1. Grows /\ Inv(RunEntry)' /\ StoreLinks'
    BY <1>4, StoreStill
  <2>2. VesselTypes'
    BY <1>4 DEF RunsInv, VesselTypes
  <2>3. Protocol'
    BY <1>4 DEF RunsInv, VesselTypes, Protocol, registry, records
  <2>4. ProgramLinks'
    BY <1>4, <2>1, ProgramLinksKept DEF RunsInv, VesselTypes, ProgramLinks
  <2>5. OneRunPerIdentity'
    BY <1>4 DEF RunsInv, VesselTypes, Protocol, OneRunPerIdentity
  <2>6. QED
    BY <1>4, <2>1, <2>2, <2>3, <2>4, <2>5, QuietStep
<1>5. QED
  BY <1>3, <1>4

\* Another client of the Codebase disturbs no run.
LEMMA OperatorInv ==
  ASSUME RunsInv, Operator
  PROVE  RunsInv'
<1>1. /\ Grows /\ Inv(RunEntry)' /\ StoreLinks' /\ UNCHANGED <<registry, records>>
  <2>1. ASSUME NEW u \in Unit, CommitUnit(u), \A r \in BodyReferences(u) : ValidRef(u, r)
        PROVE  /\ Grows /\ Inv(RunEntry)' /\ StoreLinks' /\ UNCHANGED <<registry, records>>
    <3>1. \A d \in Definitions(u) : d \in Definition
      BY UnitOK DEF Definitions
    <3>2. \A r \in BodyReferences(u) : r \in Ref
      BY <3>1, BodyFacts DEF BodyReferences
    <3>3. QED
      BY <2>1, <3>2, ValidIsAvailable, CommitUnitKeepsLinks
  <2>2. ASSUME NEW k \in Key, NEW a \in Artifact, Rebind(k, a)
        PROVE  /\ Grows /\ Inv(RunEntry)' /\ StoreLinks' /\ UNCHANGED <<registry, records>>
    BY <2>2, RebindGrows, RebindInv, RebindLinks DEF RunsInv, Rebind
  <2>3. QED
    BY <2>1, <2>2 DEF Operator
<1>2. UNCHANGED vesselVars
  BY DEF Operator
<1>3. VesselTypes' /\ Protocol' /\ OneRunPerIdentity'
  BY <1>1, <1>2 DEF vesselVars, registry, records, RunsInv, VesselTypes, Protocol,
     OneRunPerIdentity
<1>4. ProgramLinks'
  BY <1>1, <1>2, ProgramLinksKept DEF vesselVars, ProgramLinks
<1>5. QED
  BY <1>1, <1>2, <1>3, <1>4, QuietStep DEF vesselVars

\* The Root is exposed at the empty path of a run that has no records.
LEMMA OpenRootInv ==
  ASSUME RunsInv, NEW v \in Vessel, OpenRoot(v)
  PROVE  RunsInv'
<1> DEFINE root == program[v].root
           exposed(a) == [path |-> <<>>, key |-> root.key, pinned |-> a]
<1>1. /\ phase[v] = "published" /\ UNCHANGED <<codebaseVars, program, id, failed, reading>>
      /\ program[v] \in Program /\ root \in Ref /\ Bound(root)
  BY ProgramFacts DEF OpenRoot, RunsInv, Protocol, ProgramLinks
<1>2. Grows
  BY <1>1, StoreStill
<1>3. Inv(RunEntry)' /\ StoreLinks' /\ RecordLinks' /\ RecordMatchesRevision' /\ LedgerTree'
  BY <1>1, StoreStill
<1>4. OnlyCyclesFail'
  BY <1>1 DEF RunsInv, OnlyCyclesFail
<1>5. ASSUME NEW a \in Artifact \cup {NoArtifact},
             frontier' = [frontier EXCEPT ![v] = {exposed(a)}],
             phase' = [phase EXCEPT ![v] = "running"],
             IF a = NoArtifact THEN index[root.key] # NoArtifact
                               ELSE a \in artifacts /\ KeyOf(a) = root.key
      PROVE  RunsInv'
  <2>1. exposed(a) \in Exposure
    BY <1>1, OccurrenceOK DEF Ref, Exposure
  <2>2. VesselTypes'
    BY <1>1, <1>5, <2>1 DEF RunsInv, VesselTypes
  <2>3. Protocol'
    BY <1>1, <1>5 DEF RunsInv, VesselTypes, Protocol, codebaseVars, registry, records
  <2>4. ProgramLinks'
    BY <1>1, <1>2, <1>5, ProgramLinksKept DEF RunsInv, VesselTypes, ProgramLinks
  <2>5. FrontierLinks'
    BY <1>1, <1>5 DEF RunsInv, VesselTypes, FrontierLinks, codebaseVars, store, KeyOf
  <2>6. reading[v] = NoRead /\ id[v] \in RunId
    BY <1>1 DEF RunsInv, Protocol, VesselTypes
  <2>7. ReadingLinks'
    BY <1>1, <1>5, <2>6 DEF RunsInv, VesselTypes, ReadingLinks, TrueAt, codebaseVars, store,
       records, KeyOf
  <2>8. ~Recorded(id[v], <<>>)
    <3>1. \A n \in DOMAIN ledger : ledger[n].run # id[v]
      BY <1>1 DEF RunsInv, Protocol
    <3>2. <<>> \in Occurrence
      BY OccurrenceOK
    <3>3. Recorded(id[v], <<>>) => \E n \in DOMAIN ledger : ledger[n].run = id[v]
      BY <2>6, <3>2, RecordedHasRecord DEF RunsInv, Inv
    <3>4. QED
      BY <3>1, <3>3
  <2>9. FrontierTree'
    <3> SUFFICES ASSUME NEW w \in Vessel, NEW o \in frontier'[w]
                 PROVE  /\ ~Recorded(id[w], o.path)
                        /\ o.path # <<>> => \E m \in DOMAIN ledger : ExposedBy(m, id[w], o)
                        /\ \A q \in frontier'[w] : q.path = o.path => q = o
      <4>1. DOMAIN ledger' = DOMAIN ledger /\ id' = id
        BY <1>1 DEF codebaseVars, records
      <4>2. QED
        BY <1>1, <4>1, StoreStill DEF FrontierTree
    <3>1. CASE w = v
      BY <1>5, <2>8, <3>1 DEF RunsInv, VesselTypes
    <3>2. CASE w # v
      BY <1>5, <3>2 DEF RunsInv, VesselTypes, FrontierTree
    <3>3. QED
      BY <3>1, <3>2
  <2>10. OneRunPerIdentity'
    BY <1>1, <1>5 DEF RunsInv, VesselTypes, OneRunPerIdentity
  <2>11. QED
    BY <1>3, <1>4, <2>2, <2>3, <2>4, <2>5, <2>7, <2>9, <2>10 DEF RunsInv
<1>6. CASE root.pin = NoPin
  BY <1>1, <1>5, <1>6 DEF OpenRoot, Goto, Bound
<1>7. CASE root.pin # NoPin /\ \E a \in Artifact : ResolvePrefix(root.pin) = {a}
  <2>1. PICK a \in Artifact : ResolvePrefix(root.pin) = {a}
    BY <1>7
  <2>2. a \in artifacts /\ KeyOf(a) = root.key /\ a # NoArtifact
    BY <1>1, <1>7, <2>1, ConstantTypes DEF Bound, ResolvePrefix
  <2>3. /\ frontier' = [frontier EXCEPT ![v] = {exposed(a)}]
        /\ phase' = [phase EXCEPT ![v] = "running"]
    BY <1>7, <2>1 DEF OpenRoot, Goto, Unique
  <2>4. QED
    BY <1>5, <2>2, <2>3
<1>8. CASE root.pin # NoPin /\ ~Unique(root.pin)
  <2>1. UNCHANGED frontier /\ phase' = [phase EXCEPT ![v] = "refused"]
    BY <1>8 DEF OpenRoot, Goto, Unique
  <2>2. VesselTypes'
    BY <1>1, <2>1 DEF RunsInv, VesselTypes
  <2>3. Protocol'
    BY <1>1, <2>1 DEF RunsInv, VesselTypes, Protocol, codebaseVars, registry, records
  <2>4. ProgramLinks'
    BY <1>1, <1>2, <2>1, ProgramLinksKept DEF RunsInv, VesselTypes, ProgramLinks
  <2>5. OneRunPerIdentity'
    BY <1>1, <2>1 DEF RunsInv, VesselTypes, Protocol, OneRunPerIdentity
  <2>6. QED
    BY <1>1, <1>2, <1>3, <2>1, <2>2, <2>3, <2>4, <2>5, QuietStep DEF codebaseVars
<1>9. QED
  BY <1>6, <1>7, <1>8 DEF Unique

-----------------------------------------------------------------------------
(* Deduction.                                                              *)

\* What an artifact and a revision read for an exposed occurrence must satisfy.
Readable(o, a, rev) ==
  /\ a \in artifacts /\ KeyOf(a) = o.key
  /\ o.pinned # NoArtifact => a = o.pinned
  /\ \/ rev = Unread /\ o.pinned # NoArtifact
     \/ rev = revision /\ TrueAt(rev, o.key, o.pinned, a)

\* The current revision is a true one, and no record cites a later one.
LEMMA ReadKeeps ==
  ASSUME RunsInv, NEW v \in Vessel, phase[v] = "running",
         NEW o \in frontier[v], NEW a, NEW rev, Readable(o, a, rev), Read(v, o, a, rev)
  PROVE  RunsInv'
<1> USE DEF Read
<1>1. /\ UNCHANGED codebaseVars /\ UNCHANGED <<phase, program, id, frontier, failed>>
      /\ reading' = [reading EXCEPT ![v] = [occ |-> o, artifact |-> a, revision |-> rev]]
  OBVIOUS
<1>2. /\ Grows /\ Inv(RunEntry)' /\ StoreLinks'
      /\ RecordLinks' /\ RecordMatchesRevision' /\ LedgerTree'
      /\ UNCHANGED <<store, registry, records>>
  BY <1>1, StoreStill
<1>3. VesselTypes'
  <2>1. [occ |-> o, artifact |-> a, revision |-> rev] \in Reading
    BY DEF RunsInv, VesselTypes, Readable, Inv, TypesWith, Reading
  <2>2. QED
    BY <1>1, <2>1 DEF RunsInv, VesselTypes
<1>4. Protocol'
  BY <1>1, <1>2 DEF RunsInv, VesselTypes, Protocol, registry, records
<1>5. ProgramLinks'
  BY <1>1, <1>2, ProgramLinksKept DEF ProgramLinks
<1>6. FrontierLinks'
  BY <1>1, <1>2 DEF RunsInv, FrontierLinks, store, KeyOf
<1>7. FrontierTree'
  BY <1>1, <1>2, StoreStill DEF RunsInv, FrontierTree, records
<1>8. ReadingLinks'
  <2> SUFFICES ASSUME NEW w \in Vessel, reading'[w] # NoRead
               PROVE  LET got == reading'[w]
                          q == got.occ
                      IN  /\ q \in frontier[w]
                          /\ got.artifact \in artifacts
                          /\ KeyOf(got.artifact) = q.key
                          /\ q.pinned # NoArtifact => got.artifact = q.pinned
                          /\ got.revision = Unread => q.pinned # NoArtifact
                          /\ got.revision # Unread =>
                               /\ TrueAt(got.revision, q.key, q.pinned, got.artifact)
                               /\ \A m \in DOMAIN ledger :
                                     /\ ledger[m].run = id[w] /\ q.path # <<>>
                                     /\ ledger[m].occ = SubSeq(q.path, 1, Len(q.path) - 1)
                                     => ledger[m].entry.revision <= got.revision
    <3>1. \A b : KeyOf(b)' = KeyOf(b)
      BY DEF KeyOf
    <3>2. QED
      BY <1>1, <1>2, <3>1, StoreStill DEF ReadingLinks, store, records
  <2>1. CASE w = v
    <3>1. reading'[w] = [occ |-> o, artifact |-> a, revision |-> rev]
      BY <1>1, <2>1 DEF RunsInv, VesselTypes
    <3>2. Unread # revision
      BY DEF RunsInv, Inv, TypesWith, Unread
    <3>3. \A m \in DOMAIN ledger : ledger[m].entry.revision <= revision
      BY DEF RunsInv, RecordLinks
    <3>4. QED
      BY <2>1, <3>1, <3>2, <3>3 DEF Readable
  <2>2. CASE w # v
    <3>1. reading'[w] = reading[w]
      BY <1>1, <2>2 DEF RunsInv, VesselTypes
    <3>2. QED
      BY <3>1 DEF RunsInv, ReadingLinks
  <2>3. QED
    BY <2>1, <2>2
<1>9. OnlyCyclesFail' /\ OneRunPerIdentity'
  BY <1>1 DEF RunsInv, OnlyCyclesFail, OneRunPerIdentity
<1>10. QED
  BY <1>2, <1>3, <1>4, <1>5, <1>6, <1>7, <1>8, <1>9 DEF RunsInv

\* What is bound and stored now is what this revision bound and stored.
LEMMA TrueNow ==
  ASSUME Inv(RunEntry), NEW k, NEW p, NEW a \in artifacts, p = NoArtifact => index[k] = a
  PROVE  TrueAt(revision, k, p, a)
  BY DEF Inv, TypesWith, RevisionIdentifies, TrueAt

\* An exposed alias is bound and an exposed hash is stored, so the first lookup
\* of a deduction finds an artifact of the right name and arity.
LEMMA ResolveInv ==
  ASSUME RunsInv, NEW v \in Vessel, Resolve(v)
  PROVE  RunsInv'
<1>1. PICK o \in frontier[v] : ResolveAlias(v, o) \/ GetPinned(v, o)
  BY DEF Resolve
<1>2. phase[v] = "running" /\ o \in Exposure
  BY DEF Resolve, RunsInv, VesselTypes
<1>3. IF o.pinned = NoArtifact THEN index[o.key] # NoArtifact
                               ELSE o.pinned \in artifacts /\ KeyOf(o.pinned) = o.key
  BY DEF RunsInv, FrontierLinks
<1>4. CASE ResolveAlias(v, o)
  <2>1. o.pinned = NoArtifact /\ Read(v, o, index[o.key], revision)
    BY <1>3, <1>4 DEF ResolveAlias
  <2>2. index[o.key] \in artifacts /\ KeyOf(index[o.key]) = o.key
    <3>1. /\ revision + 1 \in DOMAIN history
          /\ history[revision + 1] = [index |-> index, artifacts |-> artifacts]
      BY DEF RunsInv, Inv, TypesWith, RevisionIdentifies
    <3>2. o.key \in Key
      BY <1>2 DEF Exposure
    <3>3. QED
      BY <1>3, <2>1, <3>1, <3>2 DEF RunsInv, Inv, IndexSound
  <2>3. Readable(o, index[o.key], revision)
    BY <2>1, <2>2, TrueNow DEF Readable, RunsInv
  <2>4. QED
    BY <1>2, <2>1, <2>3, ReadKeeps
<1>5. CASE GetPinned(v, o)
  <2>1. o.pinned # NoArtifact /\ Read(v, o, o.pinned, Unread)
    BY <1>3, <1>5 DEF GetPinned
  <2>2. Readable(o, o.pinned, Unread)
    BY <1>3, <2>1 DEF Readable
  <2>3. QED
    BY <1>2, <2>1, <2>2, ReadKeeps
<1>6. QED
  BY <1>1, <1>4, <1>5

\* A pinned artifact is still stored when its revision is read.
LEMMA ReadRevisionInv ==
  ASSUME RunsInv, NEW v \in Vessel, ReadRevision(v)
  PROVE  RunsInv'
<1> DEFINE o == reading[v].occ
           a == reading[v].artifact
<1>1. phase[v] = "running" /\ reading[v] # NoRead /\ Read(v, o, a, revision)
  BY DEF ReadRevision, RunsInv, Protocol
<1>2. /\ o \in frontier[v] /\ a \in artifacts /\ KeyOf(a) = o.key
      /\ o.pinned # NoArtifact /\ a = o.pinned
  BY DEF ReadRevision, RunsInv, ReadingLinks
<1>3. Readable(o, a, revision)
  BY <1>2, TrueNow DEF Readable, RunsInv
<1>4. QED
  BY <1>1, <1>2, <1>3, ReadKeeps

\* A cycle takes its occurrence out of the frontier and records nothing.
LEMMA CycleInv ==
  ASSUME RunsInv, NEW v \in Vessel, NEW o \in frontier[v], phase[v] = "running",
         Fail(v, o, "CycleDetected")
  PROVE  RunsInv'
<1> USE DEF Fail
<1>1. /\ UNCHANGED codebaseVars /\ UNCHANGED <<phase, program, id>>
      /\ failed' = [failed EXCEPT ![v] = @ \cup {[path |-> o.path, why |-> "CycleDetected"]}]
      /\ frontier' = [frontier EXCEPT ![v] = @ \ {o}]
      /\ reading' = [reading EXCEPT ![v] = NoRead]
  OBVIOUS
<1>2. /\ Grows /\ Inv(RunEntry)' /\ StoreLinks'
      /\ RecordLinks' /\ RecordMatchesRevision' /\ LedgerTree'
      /\ UNCHANGED <<store, registry, records>>
  BY <1>1, StoreStill
<1>3. VesselTypes'
  <2>1. [path |-> o.path, why |-> "CycleDetected"] \in Failure
    BY DEF RunsInv, VesselTypes, Exposure, Failure
  <2>2. QED
    BY <1>1, <2>1 DEF RunsInv, VesselTypes
<1>4. Protocol'
  BY <1>1, <1>2 DEF RunsInv, VesselTypes, Protocol, registry, records
<1>5. ProgramLinks'
  BY <1>1, <1>2, ProgramLinksKept DEF ProgramLinks
<1>6. \A w \in Vessel : /\ frontier'[w] \subseteq frontier[w]
                        /\ reading'[w] # NoRead => w # v /\ reading'[w] = reading[w]
                        /\ w # v => frontier'[w] = frontier[w]
  BY <1>1 DEF RunsInv, VesselTypes
<1>7. FrontierLinks'
  BY <1>2, <1>6 DEF RunsInv, FrontierLinks, store, KeyOf
<1>8. FrontierTree'
  BY <1>1, <1>2, <1>6, StoreStill DEF RunsInv, FrontierTree, records
<1>9. ReadingLinks'
  <2>1. \A rev, k, p, a : TrueAt(rev, k, p, a)' <=> TrueAt(rev, k, p, a)
    BY <1>1, StoreStill
  <2>2. artifacts' = artifacts /\ ledger' = ledger /\ id' = id
    BY <1>1, <1>2 DEF store, records
  <2>3. ASSUME NEW w \in Vessel, reading'[w] # NoRead
        PROVE  reading[w] # NoRead /\ frontier'[w] = frontier[w] /\ reading'[w] = reading[w]
    BY <1>6, <2>3
  <2> HIDE DEF Fail
  <2>4. QED
    BY <2>1, <2>2, <2>3 DEF RunsInv, ReadingLinks, KeyOf
<1>10. OnlyCyclesFail' /\ OneRunPerIdentity'
  BY <1>1 DEF RunsInv, VesselTypes, OnlyCyclesFail, OneRunPerIdentity
<1>11. QED
  BY <1>2, <1>3, <1>4, <1>5, <1>7, <1>8, <1>9, <1>10 DEF RunsInv

\* Where there are finitely many Goal nodes, no recorded path is as long as
\* their number.
TreeDepth ==
  IsFiniteSet(Nodes) => \A n \in DOMAIN ledger : Len(ledger[n].occ) < Cardinality(Nodes)

\* The records above a record, and itself, are of different Goal nodes, so there
\* are at most as many of them as nodes.
LEMMA DepthIsBounded ==
  TypesWith(RunEntry) /\ PrefixesRecorded /\ NoReentry => TreeDepth
<1> SUFFICES ASSUME TypesWith(RunEntry), PrefixesRecorded, NoReentry, IsFiniteSet(Nodes),
                    NEW n \in DOMAIN ledger
             PROVE  Len(ledger[n].occ) < Cardinality(Nodes)
  BY DEF TreeDepth
<1> DEFINE p == ledger[n].occ
           at(k) == CHOOSE m \in DOMAIN ledger : /\ ledger[m].run = ledger[n].run
                                                 /\ ledger[m].occ = SubSeq(p, 1, k)
           f == [k \in 0..Len(p) |-> NodeOf[ledger[at(k)].entry.artifact]]
<1>1. p \in Seq(Nat) /\ Len(p) \in Nat
  BY RecordFacts
<1>2. ASSUME NEW k \in 0..Len(p)
      PROVE  /\ at(k) \in DOMAIN ledger
             /\ ledger[at(k)].run = ledger[n].run
             /\ ledger[at(k)].occ = SubSeq(p, 1, k)
             /\ Len(ledger[at(k)].occ) = k
  <2>1. \E m \in DOMAIN ledger : /\ ledger[m].run = ledger[n].run
                                 /\ ledger[m].occ = SubSeq(p, 1, k)
    <3>1. CASE k = Len(p)
      <4>1. SubSeq(p, 1, Len(p)) = p
        BY <1>1
      <4>2. QED
        BY <3>1, <4>1
    <3>2. CASE k \in 0..(Len(p) - 1)
      BY <3>2 DEF PrefixesRecorded
    <3>3. QED
      BY <1>1, <3>1, <3>2
  <2>2. Len(SubSeq(p, 1, k)) = k
    BY <1>1, PrefixFacts
  <2>3. QED
    BY <2>1, <2>2
<1>3. ASSUME NEW j \in 0..Len(p), NEW k \in 0..Len(p), j < k
      PROVE  f[j] # f[k]
  <2>1. SubSeq(SubSeq(p, 1, k), 1, j) = SubSeq(p, 1, j)
    BY <1>1, <1>3, PrefixFacts
  <2>2. /\ ledger[at(j)].run = ledger[at(k)].run
        /\ Len(ledger[at(j)].occ) < Len(ledger[at(k)].occ)
        /\ ledger[at(j)].occ = SubSeq(ledger[at(k)].occ, 1, Len(ledger[at(j)].occ))
        /\ at(j) \in DOMAIN ledger /\ at(k) \in DOMAIN ledger
    BY <1>2, <1>3, <2>1
  <2>3. NodeOf[ledger[at(j)].entry.artifact] # NodeOf[ledger[at(k)].entry.artifact]
    BY <2>2 DEF NoReentry
  <2>4. QED
    BY <2>3
<1>4. f \in [0..Len(p) -> Nodes]
  BY <1>2, RecordFacts DEF Nodes
<1>5. f \in Injection(0..Len(p), Nodes)
  <2>1. ASSUME NEW j \in 0..Len(p), NEW k \in 0..Len(p), f[j] = f[k]
        PROVE  j = k
    <3>1. j < k \/ k < j \/ j = k
      BY <1>1
    <3>2. QED
      BY <1>3, <2>1, <3>1
  <2>2. QED
    BY <1>4, <2>1 DEF Injection, IsInjective
<1>6. Cardinality(0..Len(p)) <= Cardinality(Nodes)
  BY <1>5, FS_Injection
<1>7. Cardinality(0..Len(p)) = Len(p) + 1
  <2>1. Cardinality(0..Len(p)) = IF 0 > Len(p) THEN 0 ELSE Len(p) - 0 + 1
    BY <1>1, FS_Interval
  <2>2. QED
    BY <1>1, <2>1
<1>8. Cardinality(Nodes) \in Nat
  BY FS_CardinalityType
<1>9. QED
  BY <1>1, <1>6, <1>7, <1>8

\* A deduction that is about to be recorded: what is read is true, its paths
\* above are recorded, no record is at or below it.
LEMMA CommitFacts ==
  ASSUME RunsInv, NEW v \in Vessel, reading[v] # NoRead, reading[v].revision # Unread
  PROVE  LET got == reading[v]
             o == got.occ
         IN  /\ phase[v] = "running" /\ id[v] \in RunId /\ id[v] \in runs
             /\ o \in frontier[v] /\ o \in Exposure /\ o.path \in Seq(Nat)
             /\ EntryFor(got) \in RunEntry
             /\ got.artifact \in artifacts /\ got.artifact \in Artifact
             /\ DefOf[got.artifact] \in Definition
             /\ ~Recorded(id[v], o.path)
             /\ \A n \in DOMAIN ledger :
                   ledger[n].run = id[v] =>
                     /\ ledger[n].occ # o.path
                     /\ ~(/\ Len(o.path) < Len(ledger[n].occ)
                          /\ SubSeq(ledger[n].occ, 1, Len(o.path)) = o.path)
             /\ \A k \in 0..(Len(o.path) - 1) :
                  \E m \in DOMAIN ledger : /\ ledger[m].run = id[v]
                                           /\ ledger[m].occ = SubSeq(o.path, 1, k)
<1> DEFINE got == reading[v]
           o == got.occ
           path == o.path
<1>1. /\ phase[v] = "running" /\ id[v] \in RunId /\ id[v] \in runs
      /\ got \in Reading
  BY DEF RunsInv, Protocol, VesselTypes
<1>2. /\ o \in frontier[v] /\ o \in Exposure
      /\ got.artifact \in artifacts /\ got.artifact \in Artifact
      /\ got.revision \in Nat
  BY <1>1 DEF RunsInv, ReadingLinks, Reading
<1>3. path \in Occurrence /\ path \in Seq(Nat) /\ Len(path) \in Nat
  BY <1>2, OccurrenceOK DEF Exposure
<1>4. EntryFor(got) \in RunEntry
  BY <1>2 DEF EntryFor, RunEntry, Exposure
<1>5. DefOf[got.artifact] \in Definition
  BY <1>2, ConstantTypes
<1>6. ~Recorded(id[v], path)
  BY <1>2 DEF RunsInv, FrontierTree
<1>7. \A n \in DOMAIN ledger : ledger[n].run = id[v] => ledger[n].occ # path
  <2> SUFFICES ASSUME NEW n \in DOMAIN ledger, ledger[n].run = id[v], ledger[n].occ = path
               PROVE  FALSE
    OBVIOUS
  <2>1. n # 0
    BY RecordFacts DEF RunsInv, Inv
  <2>2. QED
    BY <1>6, <2>1 DEF RunsInv, Inv, LedgerIndexed, Recorded
<1>8. ASSUME NEW n \in DOMAIN ledger, ledger[n].run = id[v], Len(path) < Len(ledger[n].occ)
      PROVE  SubSeq(ledger[n].occ, 1, Len(path)) # path
  <2>1. Len(path) \in 0..(Len(ledger[n].occ) - 1)
    BY <1>3, <1>8, RecordFacts DEF RunsInv, Inv
  <2>2. \E m \in DOMAIN ledger : /\ ledger[m].run = id[v]
                                 /\ ledger[m].occ = SubSeq(ledger[n].occ, 1, Len(path))
    BY <1>8, <2>1 DEF RunsInv, LedgerTree, PrefixesRecorded
  <2>3. QED
    BY <1>7, <2>2
<1>9. ASSUME NEW k \in 0..(Len(path) - 1)
      PROVE  \E m \in DOMAIN ledger : ledger[m].run = id[v] /\ ledger[m].occ = SubSeq(path, 1, k)
  <2>1. path # <<>>
    BY <1>3, <1>9
  <2>2. PICK m \in DOMAIN ledger : ExposedBy(m, id[v], o)
    BY <1>2, <2>1 DEF RunsInv, FrontierTree
  <2>3. ledger[m].run = id[v] /\ ledger[m].occ = SubSeq(path, 1, Len(path) - 1)
    BY <2>2 DEF ExposedBy
  <2>4. /\ Len(path) - 1 \in 0..Len(path)
        /\ k \in 0..(Len(path) - 1)
    <3> HIDE DEF path
    <3>1. Len(path) \in Nat /\ k \in 0..(Len(path) - 1)
      BY <1>3
    <3>2. QED
      BY <3>1
  <2>5. /\ Len(ledger[m].occ) = Len(path) - 1
        /\ SubSeq(ledger[m].occ, 1, k) = SubSeq(path, 1, k)
    BY <1>3, <2>3, <2>4, PrefixFacts
  <2>6. CASE k = Len(path) - 1
    BY <2>3, <2>6
  <2>7. CASE k # Len(path) - 1
    <3>1. k \in 0..(Len(ledger[m].occ) - 1)
      BY <1>3, <2>4, <2>5, <2>7
    <3>2. QED
      BY <2>3, <2>5, <3>1 DEF RunsInv, LedgerTree, PrefixesRecorded
  <2>8. QED
    BY <2>6, <2>7
<1>10. QED
  BY <1>1, <1>2, <1>3, <1>4, <1>5, <1>6, <1>7, <1>8, <1>9

\* The step that records what v has read and exposes its references.
Deduced(v) ==
  LET got == reading[v]
  IN  /\ got # NoRead /\ got.revision # Unread
      /\ ~Cyclic(v, got.occ.path, got.artifact)
      /\ AppendDeduction(id[v], got.occ.path, EntryFor(got))
      /\ frontier' = [frontier EXCEPT ![v] =
                         (@ \ {got.occ}) \cup Exposed(got.occ.path, got.artifact)]
      /\ reading' = [reading EXCEPT ![v] = NoRead]
      /\ UNCHANGED <<phase, program, id, failed>>

\* The ledger with the new record at its end.
LEMMA DeducedLedger ==
  ASSUME RunsInv, NEW v \in Vessel, Deduced(v)
  PROVE  LET last == Len(ledger) + 1
             path == reading[v].occ.path
         IN  /\ Inv(RunEntry)' /\ Grows /\ StoreLinks'
             /\ UNCHANGED <<store, registry>>
             /\ DOMAIN ledger' = DOMAIN ledger \cup {last}
             /\ last \notin DOMAIN ledger /\ last \in Nat
             /\ \A n \in DOMAIN ledger : ledger'[n] = ledger[n] /\ n < last
             /\ ledger'[last].run = id[v]
             /\ ledger'[last].occ = path
             /\ ledger'[last].entry = EntryFor(reading[v])
             /\ \A r \in RunId, p \in Occurrence :
                  Recorded(r, p)' <=> (Recorded(r, p) \/ (r = id[v] /\ p = path))
<1> DEFINE path == reading[v].occ.path
<1>1. /\ reading[v] # NoRead /\ reading[v].revision # Unread
      /\ AppendDeduction(id[v], path, EntryFor(reading[v]))
  BY DEF Deduced
<1>2. id[v] \in RunId /\ path \in Occurrence /\ EntryFor(reading[v]) \in RunEntry
  BY <1>1, CommitFacts DEF Exposure
<1>3. Inv(RunEntry)'
  BY <1>1, <1>2, AppendInv DEF RunsInv
<1>4. UNCHANGED <<store, registry>>
  BY <1>1 DEF AppendDeduction
<1>5. Grows /\ StoreLinks'
  BY <1>4, UnchangedGrows DEF RunsInv, StoreLinks, store, KeyOf
<1>6. Len(ledger) \in Nat /\ DOMAIN ledger = 1..Len(ledger) /\ ledger \in Seq(Record(RunEntry))
  BY DEF RunsInv, Inv, TypesWith
<1>7. ledger' = Append(ledger, [seq |-> Len(ledger) + 1, run |-> id[v], occ |-> path,
                                entry |-> EntryFor(reading[v])])
  BY <1>1 DEF AppendDeduction
<1>8. /\ DOMAIN ledger' = DOMAIN ledger \cup {Len(ledger) + 1}
      /\ \A n \in DOMAIN ledger : ledger'[n] = ledger[n] /\ n < Len(ledger) + 1
      /\ ledger'[Len(ledger) + 1] = [seq |-> Len(ledger) + 1, run |-> id[v], occ |-> path,
                                     entry |-> EntryFor(reading[v])]
  BY <1>6, <1>7
<1>9. \A r \in RunId, p \in Occurrence :
        Recorded(r, p)' <=> (Recorded(r, p) \/ (r = id[v] /\ p = path))
  BY <1>1, <1>2, <1>6 DEF AppendDeduction, Recorded, RunsInv, Inv, TypesWith
<1>10. QED
  BY <1>3, <1>4, <1>5, <1>6, <1>8, <1>9

\* The new record is true, comes after its parent's and repeats no Goal node
\* that is open above it; nothing is recorded below it yet.
LEMMA DeducedTree ==
  ASSUME RunsInv, NEW v \in Vessel, Deduced(v)
  PROVE  RecordLinks' /\ RecordMatchesRevision' /\ LedgerTree'
<1> DEFINE got == reading[v]
           o == got.occ
           path == o.path
           last == Len(ledger) + 1
<1>1. /\ got # NoRead /\ got.revision # Unread
      /\ ~Cyclic(v, path, got.artifact)
  BY DEF Deduced
<1>2. /\ DOMAIN ledger' = DOMAIN ledger \cup {last}
      /\ last \notin DOMAIN ledger /\ last \in Nat
      /\ \A n \in DOMAIN ledger : ledger'[n] = ledger[n] /\ n < last
      /\ ledger'[last].run = id[v]
      /\ ledger'[last].occ = path
      /\ ledger'[last].entry = EntryFor(got)
      /\ UNCHANGED <<store, registry>>
  BY DeducedLedger
<1>3. /\ EntryFor(got).artifact = got.artifact
      /\ EntryFor(got).revision = got.revision
      /\ EntryFor(got).key = o.key
      /\ EntryFor(got).ref = "unqualified" <=> o.pinned = NoArtifact
      /\ EntryFor(got).ref = "hash-qualified" <=> o.pinned # NoArtifact
  BY DEF EntryFor
<1>4. /\ o \in frontier[v] /\ o \in Exposure /\ path \in Seq(Nat)
      /\ \A n \in DOMAIN ledger :
            ledger[n].run = id[v] =>
              /\ ledger[n].occ # path
              /\ ~(/\ Len(path) < Len(ledger[n].occ)
                   /\ SubSeq(ledger[n].occ, 1, Len(path)) = path)
      /\ \A k \in 0..(Len(path) - 1) :
           \E m \in DOMAIN ledger : ledger[m].run = id[v] /\ ledger[m].occ = SubSeq(path, 1, k)
  BY <1>1, CommitFacts
<1>5. /\ got.artifact \in artifacts /\ KeyOf(got.artifact) = o.key
      /\ o.pinned # NoArtifact => got.artifact = o.pinned
      /\ TrueAt(got.revision, o.key, o.pinned, got.artifact)
      /\ \A m \in DOMAIN ledger :
            /\ ledger[m].run = id[v] /\ path # <<>>
            /\ ledger[m].occ = SubSeq(path, 1, Len(path) - 1)
            => ledger[m].entry.revision <= got.revision
  BY <1>1 DEF RunsInv, ReadingLinks
<1>6. RecordLinks'
  <2>1. revision' = revision /\ artifacts' = artifacts
    BY <1>2 DEF store
  <2>2. ASSUME NEW n \in DOMAIN ledger
        PROVE  ledger'[n].entry.revision <= revision /\ ledger'[n].entry.artifact \in artifacts
    BY <1>2 DEF RunsInv, RecordLinks
  <2>3. ledger'[last].entry.revision <= revision /\ ledger'[last].entry.artifact \in artifacts
    <3>1. got.revision \in 0..revision /\ revision \in Nat
      BY <1>5 DEF TrueAt, RunsInv, Inv, TypesWith
    <3>2. ledger'[last].entry.revision = got.revision /\ ledger'[last].entry.artifact = got.artifact
      BY <1>2, <1>3
    <3> HIDE DEF got, last
    <3>3. QED
      BY <1>5, <3>1, <3>2
  <2> HIDE DEF got, last
  <2>4. QED
    BY <1>2, <2>1, <2>2, <2>3 DEF RecordLinks
<1>7. RecordMatchesRevision'
  <2> SUFFICES ASSUME NEW n \in DOMAIN ledger'
               PROVE  LET e == ledger'[n].entry
                          then == history[e.revision + 1]
                      IN  /\ e.artifact \in then.artifacts
                          /\ e.ref = "unqualified" => then.index[e.key] = e.artifact
                          /\ KeyOf(e.artifact) = e.key
    BY <1>2 DEF RecordMatchesRevision, store, KeyOf
  <2>1. CASE n \in DOMAIN ledger
    BY <1>2, <2>1 DEF RunsInv, RecordMatchesRevision
  <2>2. CASE n = last
    BY <1>2, <1>3, <1>5, <2>2 DEF TrueAt
  <2>3. QED
    BY <1>2, <2>1, <2>2
<1>8. PrefixesRecorded'
  <2>1. ASSUME NEW n \in DOMAIN ledger, NEW k \in 0..(Len(ledger[n].occ) - 1)
        PROVE  \E m \in DOMAIN ledger' : /\ ledger'[m].run = ledger[n].run
                                         /\ ledger'[m].occ = SubSeq(ledger[n].occ, 1, k)
    <3>1. PICK m \in DOMAIN ledger : /\ ledger[m].run = ledger[n].run
                                     /\ ledger[m].occ = SubSeq(ledger[n].occ, 1, k)
      BY DEF RunsInv, LedgerTree, PrefixesRecorded
    <3>2. QED
      BY <1>2, <3>1
  <2>2. ASSUME NEW k \in 0..(Len(path) - 1)
        PROVE  \E m \in DOMAIN ledger' : /\ ledger'[m].run = id[v]
                                         /\ ledger'[m].occ = SubSeq(path, 1, k)
    <3>1. PICK m \in DOMAIN ledger : ledger[m].run = id[v] /\ ledger[m].occ = SubSeq(path, 1, k)
      BY <1>4
    <3>2. QED
      BY <1>2, <3>1
  <2>3. QED
    <3> SUFFICES ASSUME NEW n \in DOMAIN ledger', NEW k \in 0..(Len(ledger'[n].occ) - 1)
                 PROVE  \E m \in DOMAIN ledger' :
                           /\ ledger'[m].run = ledger'[n].run
                           /\ ledger'[m].occ = SubSeq(ledger'[n].occ, 1, k)
      BY DEF PrefixesRecorded
    <3>1. n \in DOMAIN ledger \/ n = last
      BY <1>2
    <3>2. CASE n \in DOMAIN ledger
      <4>1. ledger'[n] = ledger[n]
        BY <1>2, <3>2
      <4>2. QED
        BY <2>1, <3>2, <4>1
    <3>3. CASE n = last
      <4>1. ledger'[n].occ = path /\ ledger'[n].run = id[v]
        BY <1>2, <3>3
      <4>2. QED
        BY <2>2, <4>1
    <3>4. QED
      BY <3>1, <3>2, <3>3
<1>9. NoReentry'
  <2> SUFFICES ASSUME NEW m \in DOMAIN ledger', NEW n \in DOMAIN ledger',
                      ledger'[m].run = ledger'[n].run,
                      Len(ledger'[m].occ) < Len(ledger'[n].occ),
                      ledger'[m].occ = SubSeq(ledger'[n].occ, 1, Len(ledger'[m].occ))
               PROVE  NodeOf[ledger'[m].entry.artifact] # NodeOf[ledger'[n].entry.artifact]
    BY DEF NoReentry
  <2>1. CASE m \in DOMAIN ledger /\ n \in DOMAIN ledger
    BY <1>2, <2>1 DEF RunsInv, LedgerTree, NoReentry
  <2>2. CASE m \in DOMAIN ledger /\ n = last
    <3>1. Len(ledger[m].occ) \in Nat
      BY <2>2, RecordFacts DEF RunsInv, Inv
    <3>2. Len(ledger[m].occ) \in 0..(Len(path) - 1)
      BY <1>2, <1>4, <2>2, <3>1
    <3>3. m \in Above(v, path)
      BY <1>2, <2>2, <3>2 DEF Above
    <3>4. QED
      BY <1>1, <1>2, <1>3, <2>2, <3>3 DEF Cyclic
  <2>3. CASE m = last /\ n \in DOMAIN ledger
    BY <1>2, <1>4, <2>3
  <2>4. CASE m = last /\ n = last
    BY <1>2, <1>4, <2>4
  <2>5. QED
    BY <1>2, <2>1, <2>2, <2>3, <2>4
<1>10. LedgerReplaysTree'
  <2> DEFINE after(m, n, s) ==
               /\ ledger'[m].run = ledger'[n].run
               /\ ledger'[m].occ = SubSeq(ledger'[n].occ, 1, Len(ledger'[n].occ) - 1)
               /\ ledger'[m].entry.revision <= ledger'[n].entry.revision
               /\ ledger'[n].entry.ref = "hash-qualified" =>
                    LET parent == ledger'[m].entry.artifact
                    IN  ledger'[n].entry.artifact = pinned[parent][BodyRefs[DefOf[parent]][s].pin]
  <2> SUFFICES ASSUME NEW n \in DOMAIN ledger', ledger'[n].occ # <<>>
               PROVE  \E m \in 1..(n - 1) : after(m, n, ledger'[n].occ[Len(ledger'[n].occ)])
    BY <1>2 DEF LedgerReplaysTree, IsParent, store
  <2>1. CASE n \in DOMAIN ledger
    <3>1. PICK m \in 1..(n - 1) :
            /\ IsParent(m, n)
            /\ ledger[m].entry.revision <= ledger[n].entry.revision
            /\ ledger[n].entry.ref = "hash-qualified" =>
                 LET parent == ledger[m].entry.artifact
                     seg == ledger[n].occ[Len(ledger[n].occ)]
                 IN  ledger[n].entry.artifact
                       = pinned[parent][BodyRefs[DefOf[parent]][seg].pin]
      BY <1>2, <2>1 DEF RunsInv, LedgerTree, LedgerReplaysTree
    <3>2. m \in DOMAIN ledger
      BY <2>1, RecordFacts DEF RunsInv, Inv, TypesWith
    <3>3. QED
      BY <1>2, <2>1, <3>1, <3>2 DEF IsParent
  <2>2. CASE n = last
    <3>1. path # <<>>
      BY <1>2, <2>2
    <3>2. PICK m \in DOMAIN ledger : ExposedBy(m, id[v], o)
      BY <1>4, <3>1 DEF RunsInv, FrontierTree
    <3>3. m \in 1..(n - 1)
      BY <1>2, <2>2, <3>2, RecordFacts DEF RunsInv, Inv
    <3>4. ledger[m].run = id[v] /\ ledger[m].occ = SubSeq(path, 1, Len(path) - 1)
      BY <3>2 DEF ExposedBy
    <3>5. ledger[m].entry.revision <= got.revision
      BY <1>5, <3>1, <3>4
    <3>6. o.pinned # NoArtifact =>
            got.artifact = pinned[ledger[m].entry.artifact]
                             [BodyRefs[DefOf[ledger[m].entry.artifact]][path[Len(path)]].pin]
      BY <1>5, <3>2 DEF ExposedBy
    <3>7. after(m, n, path[Len(path)])
      BY <1>2, <1>3, <2>2, <3>4, <3>5, <3>6
    <3>8. QED
      BY <1>2, <2>2, <3>3, <3>7
  <2>3. QED
    BY <1>2, <2>1, <2>2
<1>11. QED
  BY <1>6, <1>7, <1>8, <1>9, <1>10 DEF LedgerTree

\* What a deduction exposes: one occurrence per reference of the stored body,
\* one path segment below, resolvable, and with no record.
LEMMA ExposedFacts ==
  ASSUME RunsInv, NEW v \in Vessel, Deduced(v),
         NEW q \in Exposed(reading[v].occ.path, reading[v].artifact)
  PROVE  LET path == reading[v].occ.path
         IN  /\ q \in Exposure
             /\ q.path # <<>> /\ q.path # path
             /\ SubSeq(q.path, 1, Len(q.path) - 1) = path
             /\ ~Recorded(id[v], q.path)
             /\ \E m \in DOMAIN ledger' : ExposedBy(m, id[v], q)'
             /\ IF q.pinned = NoArtifact THEN index[q.key] # NoArtifact
                ELSE q.pinned \in artifacts /\ KeyOf(q.pinned) = q.key
             /\ \A r \in Exposed(path, reading[v].artifact) : r.path = q.path => r = q
<1> DEFINE a == reading[v].artifact
           path == reading[v].occ.path
           refs == BodyRefs[DefOf[a]]
           last == Len(ledger) + 1
           at(i) == [path |-> Append(path, i), key |-> refs[i].key,
                     pinned |-> IF refs[i].pin = NoPin THEN NoArtifact
                                                       ELSE pinned[a][refs[i].pin]]
<1>1. /\ reading[v].occ \in Exposure /\ path \in Seq(Nat) /\ path \in Occurrence
      /\ a \in artifacts /\ a \in Artifact /\ DefOf[a] \in Definition
      /\ id[v] \in RunId
      /\ \A n \in DOMAIN ledger :
            ledger[n].run = id[v] =>
              ~(/\ Len(path) < Len(ledger[n].occ)
                /\ SubSeq(ledger[n].occ, 1, Len(path)) = path)
  BY CommitFacts DEF Deduced, Exposure
<1>2. PICK i \in DOMAIN refs : q = at(i)
  BY DEF Exposed
<1>3. /\ refs[i] \in Ref /\ i \in Nat /\ i \in Position
      /\ refs[i].pin # NoPin => refs[i].pin \in PinsOf[DefOf[a]]
  BY <1>1, BodyFacts
<1>4. /\ q.path = Append(path, i) /\ q.key = refs[i].key
      /\ q.pinned = IF refs[i].pin = NoPin THEN NoArtifact ELSE pinned[a][refs[i].pin]
  BY <1>2
<1>5. /\ q.path \in Seq(Nat) /\ q.path # <<>>
      /\ Len(q.path) = Len(path) + 1 /\ Len(path) \in Nat
      /\ q.path[Len(q.path)] = i
      /\ SubSeq(q.path, 1, Len(path)) = path
  <2>1. /\ Append(path, i) \in Seq(Nat) /\ Append(path, i) # <<>>
        /\ Len(Append(path, i)) = Len(path) + 1
        /\ Append(path, i)[Len(path) + 1] = i
        /\ SubSeq(Append(path, i), 1, Len(path)) = path
    BY <1>1, <1>3, AppendFacts
  <2>2. Len(path) \in Nat
    BY <1>1
  <2>3. QED
    BY <1>4, <2>1, <2>2
<1>6. SubSeq(q.path, 1, Len(q.path) - 1) = path /\ q.path # path
  BY <1>5
<1>7. /\ DOMAIN ledger' = DOMAIN ledger \cup {last}
      /\ Inv(RunEntry)'
      /\ ledger'[last].run = id[v] /\ ledger'[last].occ = path
      /\ ledger'[last].entry = EntryFor(reading[v])
      /\ UNCHANGED <<store, registry>>
  BY DeducedLedger
<1>8. q.path \in Occurrence
  <2>1. LedgerTree' /\ TypesWith(RunEntry)'
    BY <1>7, DeducedTree DEF Inv
  <2>2. TypesWith(RunEntry)' /\ PrefixesRecorded' /\ NoReentry' => TreeDepth'
    BY DepthIsBounded, PTL
  <2>3. TreeDepth'
    BY <2>1, <2>2 DEF LedgerTree
  <2>4. IsFiniteSet(Nodes) => Len(path) < Cardinality(Nodes)
    BY <1>7, <2>3 DEF TreeDepth
  <2>5. QED
    BY <1>1, <1>3, <1>4, <2>4, OccurrenceOK
<1>9. ~Recorded(id[v], q.path)
  <2> SUFFICES ASSUME Recorded(id[v], q.path)
               PROVE  FALSE
    OBVIOUS
  <2>1. PICK n \in DOMAIN ledger : ledger[n].run = id[v] /\ ledger[n].occ = q.path
    <3>1. LedgerIndexed
      BY DEF RunsInv, Inv
    <3>2. QED
      BY <1>1, <1>8, <3>1, RecordedHasRecord
  <2>2. Len(path) < Len(ledger[n].occ) /\ SubSeq(ledger[n].occ, 1, Len(path)) = path
    BY <1>5, <2>1
  <2>3. QED
    BY <1>1, <2>1, <2>2
<1>10. IF q.pinned = NoArtifact THEN index[q.key] # NoArtifact
       ELSE q.pinned \in artifacts /\ KeyOf(q.pinned) = q.key
  <2>1. CASE refs[i].pin = NoPin
    BY <1>1, <1>4, <2>1 DEF RunsInv, StoreLinks
  <2>2. CASE refs[i].pin # NoPin
    <3>1. pinned[a][refs[i].pin] \in artifacts
      BY <1>1, <1>3, <2>2 DEF RunsInv, Inv, PinsClosed
    <3>2. KeyOf(pinned[a][refs[i].pin]) = refs[i].key
      BY <1>1, <2>2 DEF RunsInv, StoreLinks
    <3>3. pinned[a][refs[i].pin] # NoArtifact
      BY <3>1, ConstantTypes DEF RunsInv, Inv, TypesWith
    <3>4. QED
      BY <1>4, <2>2, <3>1, <3>2, <3>3
  <2>3. QED
    BY <2>1, <2>2
<1>11. q \in Exposure
  <2>1. q.pinned \in Artifact \cup {NoArtifact}
    BY <1>10 DEF RunsInv, Inv, TypesWith
  <2>2. QED
    BY <1>2, <1>3, <1>4, <1>8, <2>1 DEF Exposure, Ref
<1>12. \E m \in DOMAIN ledger' : ExposedBy(m, id[v], q)'
  <2>1. id'[v] = id[v] /\ pinned' = pinned
    BY <1>7 DEF Deduced, store
  <2>2. ledger'[last].entry.artifact = a
    BY <1>7 DEF EntryFor
  <2>3. q.pinned # NoArtifact => q.pinned = pinned'[a][refs[i].pin]
    BY <1>4, <2>1
  <2>4. /\ last \in DOMAIN ledger'
        /\ ledger'[last].run = id'[v]
        /\ ledger'[last].occ = SubSeq(q.path, 1, Len(q.path) - 1)
        /\ q.path[Len(q.path)] \in DOMAIN BodyRefs[DefOf[ledger'[last].entry.artifact]]
        /\ q.pinned # NoArtifact =>
             q.pinned = pinned'[ledger'[last].entry.artifact]
                          [BodyRefs[DefOf[ledger'[last].entry.artifact]]
                             [q.path[Len(q.path)]].pin]
    BY <1>5, <1>6, <1>7, <2>1, <2>2, <2>3
  <2>5. QED
    BY <2>4 DEF ExposedBy
<1>13. ASSUME NEW r \in Exposed(path, a), r.path = q.path
       PROVE  r = q
  <2>1. PICK j \in DOMAIN refs : r = at(j)
    BY DEF Exposed
  <2>2. j \in Nat /\ r.path = Append(path, j)
    BY <1>1, <2>1, BodyFacts
  <2>3. Append(path, j)[Len(path) + 1] = j
    BY <1>1, <2>2, AppendFacts
  <2>4. j = i
    BY <1>4, <1>5, <1>13, <2>2, <2>3
  <2>5. QED
    BY <1>2, <2>1, <2>4
<1>14. QED
  BY <1>5, <1>6, <1>7, <1>9, <1>10, <1>11, <1>12, <1>13

\* A deduction is recorded once, truly and in its place; what it exposes is what
\* its own run deduces next, and nothing of another run.
LEMMA DeducedInv ==
  ASSUME RunsInv, NEW v \in Vessel, Deduced(v)
  PROVE  RunsInv'
<1> DEFINE got == reading[v]
           path == got.occ.path
           below == Exposed(path, got.artifact)
           last == Len(ledger) + 1
<1>1. /\ phase[v] = "running" /\ id[v] \in RunId /\ id[v] \in runs
      /\ got.occ \in frontier[v] /\ path \in Occurrence
      /\ \A n \in DOMAIN ledger : ledger[n].run = id[v] => ledger[n].occ # path
  BY CommitFacts DEF Deduced, Exposure
<1>2. /\ UNCHANGED <<phase, program, id, failed>>
      /\ \A w \in Vessel :
            /\ reading'[w] = IF w = v THEN NoRead ELSE reading[w]
            /\ frontier'[w] = IF w = v THEN (frontier[v] \ {got.occ}) \cup below ELSE frontier[w]
  BY DEF Deduced, RunsInv, VesselTypes
<1>3. /\ Inv(RunEntry)' /\ Grows /\ StoreLinks' /\ UNCHANGED <<store, registry>>
      /\ DOMAIN ledger' = DOMAIN ledger \cup {last}
      /\ \A n \in DOMAIN ledger : ledger'[n] = ledger[n]
      /\ ledger'[last].run = id[v] /\ ledger'[last].occ = path
      /\ \A r \in RunId, p \in Occurrence :
           Recorded(r, p)' <=> (Recorded(r, p) \/ (r = id[v] /\ p = path))
  BY DeducedLedger
<1>4. \A q \in below :
        /\ q \in Exposure
        /\ q.path # <<>> /\ q.path # path
        /\ SubSeq(q.path, 1, Len(q.path) - 1) = path
        /\ ~Recorded(id[v], q.path)
        /\ \E m \in DOMAIN ledger' : ExposedBy(m, id[v], q)'
        /\ IF q.pinned = NoArtifact THEN index[q.key] # NoArtifact
           ELSE q.pinned \in artifacts /\ KeyOf(q.pinned) = q.key
        /\ \A r \in below : r.path = q.path => r = q
  BY ExposedFacts
<1>5. \A w \in Vessel : w # v => id[w] # id[v]
  BY <1>1, RequestTypes DEF RunsInv, OneRunPerIdentity
<1>6. RecordLinks' /\ RecordMatchesRevision' /\ LedgerTree'
  BY DeducedTree
<1>7. VesselTypes'
  <2>1. reading' \in [Vessel -> Reading \cup {NoRead}]
    BY DEF Deduced, RunsInv, VesselTypes
  <2>2. frontier' \in [Vessel -> SUBSET Exposure]
    BY <1>4 DEF Deduced, RunsInv, VesselTypes
  <2>3. QED
    BY <1>2, <2>1, <2>2 DEF RunsInv, VesselTypes
<1>8. Protocol'
  <2>1. \A n \in DOMAIN ledger' : ledger'[n].run \in runs'
    BY <1>1, <1>3 DEF RunsInv, Protocol, registry
  <2>2. ASSUME NEW w \in Vessel, phase[w] # "running", phase[w] # "refused",
               NEW n \in DOMAIN ledger'
        PROVE  ledger'[n].run # id[w]
    BY <1>1, <1>3, <1>5, <2>2 DEF RunsInv, Protocol
  <2>3. QED
    BY <1>1, <1>2, <1>3, <2>1, <2>2 DEF RunsInv, Protocol, registry
<1>9. ProgramLinks'
  BY <1>2, <1>3, ProgramLinksKept DEF ProgramLinks
<1>10. FrontierLinks'
  <2>1. \A b : KeyOf(b)' = KeyOf(b)
    BY DEF KeyOf
  <2>2. QED
    BY <1>2, <1>3, <1>4, <2>1 DEF RunsInv, FrontierLinks, store
<1>11. ReadingLinks'
  <2> SUFFICES ASSUME NEW w \in Vessel, reading'[w] # NoRead
               PROVE  LET r == reading[w]
                          o == r.occ
                      IN  /\ o \in frontier'[w]
                          /\ r.artifact \in artifacts
                          /\ KeyOf(r.artifact) = o.key
                          /\ o.pinned # NoArtifact => r.artifact = o.pinned
                          /\ r.revision = Unread => o.pinned # NoArtifact
                          /\ r.revision # Unread =>
                               /\ TrueAt(r.revision, o.key, o.pinned, r.artifact)
                               /\ \A m \in DOMAIN ledger' :
                                     /\ ledger'[m].run = id[w] /\ o.path # <<>>
                                     /\ ledger'[m].occ = SubSeq(o.path, 1, Len(o.path) - 1)
                                     => ledger'[m].entry.revision <= r.revision
    <3>1. \A b : KeyOf(b)' = KeyOf(b)
      BY DEF KeyOf
    <3>2. \A rev, k, p, b : TrueAt(rev, k, p, b)' <=> TrueAt(rev, k, p, b)
      BY <1>3 DEF TrueAt, store
    <3>3. \A w \in Vessel : reading'[w] # NoRead => reading'[w] = reading[w]
      BY <1>2
    <3>4. artifacts' = artifacts /\ id' = id
      BY <1>2, <1>3 DEF store
    <3>5. QED
      BY <3>1, <3>2, <3>3, <3>4 DEF ReadingLinks
  <2>1. w # v /\ reading[w] # NoRead /\ frontier'[w] = frontier[w]
    BY <1>2
  <2>2. ledger'[last].run # id[w]
    BY <1>3, <1>5, <2>1
  <2>3. QED
    BY <1>3, <2>1, <2>2 DEF RunsInv, ReadingLinks
<1>12. FrontierTree'
  <2>1. \A m \in DOMAIN ledger : \A r, o : ExposedBy(m, r, o) => ExposedBy(m, r, o)'
    BY <1>3 DEF ExposedBy, store
  <2>2. ASSUME NEW w \in Vessel, NEW o \in frontier[w], w # v \/ o # got.occ
        PROVE  /\ ~Recorded(id[w], o.path)'
               /\ o.path # <<>> => \E m \in DOMAIN ledger' : ExposedBy(m, id[w], o)'
    <3>1. o \in Exposure /\ o.path \in Occurrence
      BY DEF RunsInv, VesselTypes, Exposure
    <3>2. id[w] \in RunId /\ id'[w] = id[w]
      BY <1>2 DEF RunsInv, VesselTypes, Protocol
    <3>3. ~Recorded(id[w], o.path)
      BY DEF RunsInv, FrontierTree
    <3>4. id[w] # id[v] \/ o.path # path
      BY <1>1, <1>5, <2>2 DEF RunsInv, FrontierTree
    <3>5. ~Recorded(id[w], o.path)'
      BY <1>3, <3>1, <3>2, <3>3, <3>4
    <3>6. ASSUME o.path # <<>>
          PROVE  \E m \in DOMAIN ledger' : ExposedBy(m, id[w], o)'
      <4>1. PICK m \in DOMAIN ledger : ExposedBy(m, id[w], o)
        BY <3>6 DEF RunsInv, FrontierTree
      <4>2. ExposedBy(m, id[w], o)'
        BY <2>1, <3>2, <4>1
      <4>3. QED
        BY <1>3, <4>1, <4>2
    <3>7. QED
      BY <3>5, <3>6
  <2>3. ASSUME NEW q \in below
        PROVE  /\ ~Recorded(id[v], q.path)'
               /\ \A o \in frontier[v] : o.path # q.path
    <3>1. q.path \in Occurrence /\ id'[v] = id[v]
      BY <1>2, <1>4 DEF Exposure
    <3>2. ~Recorded(id[v], q.path)'
      BY <1>1, <1>3, <1>4, <3>1
    <3>3. ASSUME NEW o \in frontier[v], o.path = q.path
          PROVE  FALSE
      <4>1. PICK m \in DOMAIN ledger : ExposedBy(m, id[v], o)
        BY <1>4, <3>3 DEF RunsInv, FrontierTree
      <4>2. ledger[m].run = id[v] /\ ledger[m].occ = path
        BY <1>4, <3>3, <4>1 DEF ExposedBy
      <4>3. QED
        BY <1>1, <4>2
    <3>4. QED
      BY <3>2, <3>3
  <2>4. \A w \in Vessel : \A o, q \in frontier[w] : q.path = o.path => q = o
    BY DEF RunsInv, FrontierTree
  <2>5. QED
    <3> SUFFICES ASSUME NEW w \in Vessel, NEW o \in frontier'[w]
                 PROVE  /\ ~Recorded(id[w], o.path)'
                        /\ o.path # <<>> => \E m \in DOMAIN ledger' : ExposedBy(m, id[w], o)'
                        /\ \A q \in frontier'[w] : q.path = o.path => q = o
      BY DEF FrontierTree
    <3>1. CASE w # v
      BY <1>2, <2>2, <2>4, <3>1
    <3>2. CASE w = v /\ o \in below
      BY <1>2, <1>4, <2>3, <3>2
    <3>3. CASE w = v /\ o \in frontier[v] /\ o # got.occ
      BY <1>2, <2>2, <2>3, <2>4, <3>3
    <3>4. QED
      BY <1>2, <3>1, <3>2, <3>3
<1>13. OnlyCyclesFail' /\ OneRunPerIdentity'
  BY <1>2 DEF RunsInv, OnlyCyclesFail, OneRunPerIdentity
<1>14. QED
  BY <1>3, <1>6, <1>7, <1>8, <1>9, <1>10, <1>11, <1>12, <1>13 DEF RunsInv

\* The commit of a deduction ends in a record or in a detected cycle: its
\* occurrence cannot have been committed already.
LEMMA CommitInv ==
  ASSUME RunsInv, NEW v \in Vessel, Commit(v)
  PROVE  RunsInv'
<1> DEFINE got == reading[v]
           o == got.occ
<1>1. /\ got # NoRead /\ got.revision # Unread
      /\ phase[v] = "running" /\ o \in frontier[v] /\ ~Recorded(id[v], o.path)
  BY CommitFacts DEF Commit
<1>2. Fail(v, o, "CycleDetected") \/ Deduced(v)
  BY <1>1 DEF Commit, Deduced
<1>3. QED
  BY <1>1, <1>2, CycleInv, DeducedInv

-----------------------------------------------------------------------------
(* The invariant holds, and with it what the runs check.                   *)

\* Before anybody calls, nothing is started, exposed, read or recorded.
LEMMA RunsInitInv == Init => RunsInv
<1> SUFFICES ASSUME Init
             PROVE  RunsInv
  OBVIOUS
<1> USE DEF Init
<1>1. ledger = <<>> /\ artifacts = {} /\ runs = {}
  BY DEF InitCodebase
<1>2. TypesWith(RunEntry)
  BY ConstantTypes DEF InitCodebase, TypesWith, NoPins
<1>3. Inv(RunEntry)
  BY <1>2, InitInv DEF Inv
<1>4. VesselTypes /\ Protocol
  BY <1>1 DEF VesselTypes, Protocol
<1>5. ProgramLinks /\ StoreLinks /\ FrontierLinks /\ ReadingLinks /\ RecordLinks
  BY <1>1 DEF ProgramLinks, StoreLinks, FrontierLinks, ReadingLinks, RecordLinks
<1>6. RecordMatchesRevision /\ LedgerTree /\ FrontierTree
  BY <1>1 DEF RecordMatchesRevision, LedgerTree, LedgerReplaysTree, PrefixesRecorded,
     NoReentry, FrontierTree
<1>7. OnlyCyclesFail /\ OneRunPerIdentity
  BY DEF OnlyCyclesFail, OneRunPerIdentity
<1>8. QED
  BY <1>3, <1>4, <1>5, <1>6, <1>7 DEF RunsInv

\* Every step of every vessel and of everyone else preserves the invariant.
LEMMA RunsNextInv == RunsInv /\ [RunsNext]_vars => RunsInv'
<1> SUFFICES ASSUME RunsInv, [RunsNext]_vars
             PROVE  RunsInv'
  OBVIOUS
<1>1. ASSUME NEW v \in Vessel, NEW p \in Program, Validate(v, p) PROVE RunsInv'
  BY <1>1, ValidateInv
<1>2. ASSUME NEW v \in Vessel, Step(v) PROVE RunsInv'
  BY <1>2, RegisterInv, RefuseIdentityInv, PublishInv, OpenRootInv, ResolveInv,
     ReadRevisionInv, CommitInv DEF Step
<1>3. CASE Operator
  BY <1>3, OperatorInv
<1>4. CASE UNCHANGED vars
  <2>1. UNCHANGED codebaseVars /\ UNCHANGED vesselVars
    BY <1>4 DEF vars
  <2>2. Grows /\ Inv(RunEntry)' /\ StoreLinks' /\ UNCHANGED <<registry, records>>
    BY <2>1, StoreStill
  <2>3. VesselTypes' /\ Protocol' /\ OneRunPerIdentity'
    BY <2>1, <2>2 DEF vesselVars, registry, records, RunsInv, VesselTypes, Protocol,
       OneRunPerIdentity
  <2>4. ProgramLinks'
    BY <2>1, <2>2, ProgramLinksKept DEF vesselVars, ProgramLinks
  <2>5. QED
    BY <2>1, <2>2, <2>3, <2>4, QuietStep DEF vesselVars
<1>5. QED
  BY <1>1, <1>2, <1>3, <1>4 DEF RunsNext

\* The inductive invariant holds whatever the vessels and the others do.
LEMMA RunsInvariance == RunsSpec => []RunsInv
<1>1. Init => RunsInv
  BY RunsInitInv
<1>2. RunsInv /\ [RunsNext]_vars => RunsInv'
  BY RunsNextInv
<1>3. QED
  BY <1>1, <1>2, PTL DEF RunsSpec

\* The Codebase and every vessel keep their types, and with them everything the
\* Codebase promises on its own: sound bindings, closed pins, an indexed ledger.
THEOREM SharedTypeCorrect == RunsSpec => [](Inv(RunEntry) /\ VesselTypes)
<1>1. RunsInv => Inv(RunEntry) /\ VesselTypes
  BY DEF RunsInv
<1>2. QED
  BY <1>1, RunsInvariance, PTL

\* Whatever is rebound or published between the read and the append of a
\* deduction, and between validation, CommitUnit and OpenRoot, a record names an
\* artifact that was stored, and bound if the reference was unqualified, at the
\* revision it cites, with the name and arity that was validated.
THEOREM RecordsAreTrue == RunsSpec => []RecordMatchesRevision
<1>1. RunsInv => RecordMatchesRevision
  BY DEF RunsInv
<1>2. QED
  BY <1>1, RunsInvariance, PTL

\* The ledger of a run can be replayed in order: a record follows its parent's,
\* cites no older revision, and is what the parent's artifact pinned.
THEOREM LedgerReplays == RunsSpec => []LedgerReplaysTree
<1>1. RunsInv => LedgerReplaysTree
  BY DEF RunsInv, LedgerTree
<1>2. QED
  BY <1>1, RunsInvariance, PTL

\* No recorded deduction is of a Goal node that is open above it.
THEOREM NothingIsReentered == RunsSpec => []NoReentry
<1>1. RunsInv => NoReentry
  BY DEF RunsInv, LedgerTree
<1>2. QED
  BY <1>1, RunsInvariance, PTL

\* Deduction trees are finite: with finitely many Goal nodes, no recorded path
\* is as long as their number, however aliases are moved while a run deduces.
THEOREM TreesAreFinite == RunsSpec => []TreeDepth
<1>1. RunsInv => TypesWith(RunEntry) /\ PrefixesRecorded /\ NoReentry
  BY DEF RunsInv, Inv, LedgerTree
<1>2. RunsInv => TreeDepth
  BY <1>1, DepthIsBounded
<1>3. QED
  BY <1>2, RunsInvariance, PTL

\* Validation is enough: no later deduction of a validated program misses an
\* alias or a hash, or commits an occurrence twice.
THEOREM ValidatedProgramsDeduce == RunsSpec => []OnlyCyclesFail
<1>1. RunsInv => OnlyCyclesFail
  BY DEF RunsInv
<1>2. QED
  BY <1>1, RunsInvariance, PTL

\* No two runs share an identity, and one nobody asked for is never refused.
THEOREM IdentitiesAreUnique == RunsSpec => []OneRunPerIdentity
<1>1. RunsInv => OneRunPerIdentity
  BY DEF RunsInv
<1>2. QED
  BY <1>1, RunsInvariance, PTL

\* A step of a vessel or of anyone else adds to the Codebase and rewrites nothing.
LEMMA RunsStepKeeps == RunsInv /\ [RunsNext]_vars => Kept \/ UNCHANGED codebaseVars
<1> SUFFICES ASSUME RunsInv, RunsNext
             PROVE  Kept \/ UNCHANGED codebaseVars
  BY DEF vars
<1>1. ASSUME Grows, UNCHANGED <<registry, records>>
      PROVE  Kept
  BY <1>1 DEF Grows, Kept, registry, records
<1>2. ASSUME NEW v \in Vessel, NEW p \in Program, Validate(v, p)
      PROVE  UNCHANGED codebaseVars
  BY <1>2 DEF Validate
<1>3. ASSUME NEW v \in Vessel, NEW name \in RunId, Register(v, name)
      PROVE  Kept
  BY <1>3 DEF Register, RegisterFreshRun, RegisterRun, Kept, store, records
<1>4. ASSUME NEW v \in Vessel, Publish(v)
      PROVE  Kept \/ UNCHANGED codebaseVars
  <2>1. program[v].unit \in Unit
    BY <1>4, ProgramFacts DEF Publish, RunsInv, Protocol
  <2>2. ASSUME CommitUnit(program[v].unit)
        PROVE  Kept
    BY <1>1, <2>1, <2>2, CommitUnitGrows DEF RunsInv, CommitUnit
  <2>3. QED
    BY <1>4, <2>2 DEF Publish, RefuseUnit
<1>5. ASSUME NEW v \in Vessel, Commit(v)
      PROVE  Kept \/ UNCHANGED codebaseVars
  <2>1. Fail(v, reading[v].occ, "CycleDetected") \/ Deduced(v)
    BY <1>5, CommitFacts DEF Commit, Deduced
  <2>2. ASSUME Deduced(v)
        PROVE  Kept
    BY <2>2, DeducedLedger DEF Kept, Grows, registry
  <2>3. QED
    BY <2>1, <2>2 DEF Fail
<1>6. ASSUME NEW v \in Vessel, RefuseIdentity(v) \/ OpenRoot(v) \/ Resolve(v) \/ ReadRevision(v)
      PROVE  UNCHANGED codebaseVars
  BY <1>6 DEF RefuseIdentity, OpenRoot, Resolve, ResolveAlias, GetPinned, ReadRevision, Read, Fail
<1>7. CASE Operator
  <2>1. ASSUME NEW u \in Unit, CommitUnit(u)
        PROVE  Kept
    BY <1>1, <2>1, CommitUnitGrows DEF RunsInv, CommitUnit
  <2>2. ASSUME NEW k \in Key, NEW a \in Artifact, Rebind(k, a)
        PROVE  Kept
    BY <1>1, <2>2, RebindGrows DEF RunsInv, Rebind
  <2>3. QED
    BY <1>7, <2>1, <2>2 DEF Operator
<1>8. QED
  BY <1>2, <1>3, <1>4, <1>5, <1>6, <1>7 DEF RunsNext, Step

\* What any vessel may have read stays: artifacts, pins, records, revisions and
\* identities are never rewritten while others start, publish and rebind.
THEOREM NothingIsRewrittenInRuns == RunsSpec => Immutable
<1>1. RunsInv /\ [RunsNext]_vars => [Kept]_codebaseVars
  BY RunsStepKeeps
<1>2. RunsSpec => [][Kept]_codebaseVars
  BY <1>1, RunsInvariance, PTL DEF RunsSpec
<1>3. QED
  BY <1>2 DEF Immutable, Kept
=============================================================================
