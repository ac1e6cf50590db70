--------------------------- MODULE CodebaseProofs ---------------------------
(***************************************************************************)
(* What the Codebase promises to every client, for every set of            *)
(* definitions, pins, identities and occurrences.                          *)
(***************************************************************************)
EXTENDS Codebase, TLAPS

(* Helper facts about the operators publication is built from.             *)

\* Resolvable pins resolve to a stored artifact that the prefix addresses, so
\* what a definition hashes to is an artifact of that definition.
LEMMA StagedFacts ==
  ASSUME NEW E, TypesWith(E), NEW u \in Unit, Resolvable(u), NEW a \in Staged(u)
  PROVE  /\ a \in Artifact
         /\ DefOf[a] \in Definition
         /\ \E i \in DOMAIN u : u[i] = DefOf[a]
         /\ PinsFor(DefOf[a]) \in Resolutions(DefOf[a])
         /\ \A p \in PinsOf[DefOf[a]] : PinsFor(DefOf[a])[p] \in artifacts \cap Addressed[p]
<1>1. PICK i \in DOMAIN u : a = Digest(u[i], PinsFor(u[i]))
  BY DEF Staged
<1>2. u[i] \in Definition
  BY UnitOK
<1>3. \A p \in PinsOf[u[i]] : p \in Pin /\ PinsFor(u[i])[p] \in artifacts \cap Addressed[p]
  <2> SUFFICES ASSUME NEW p \in PinsOf[u[i]]
               PROVE  p \in Pin /\ PinsFor(u[i])[p] \in artifacts \cap Addressed[p]
    OBVIOUS
  <2>1. p \in Pin
    BY <1>2, ConstantTypes
  <2>2. PICK b \in Artifact : ResolvePrefix(p) = {b}
    BY DEF Resolvable, Unique
  <2>3. (CHOOSE c \in ResolvePrefix(p) : TRUE) \in ResolvePrefix(p)
    BY <2>2
  <2>4. QED
    BY <2>1, <2>3 DEF PinsFor, ResolvePrefix
<1>4. PinsFor(u[i]) \in Resolutions(u[i])
  BY <1>2, <1>3, ConstantTypes DEF PinsFor, Resolutions, TypesWith
<1>5. a \in Artifact /\ DefOf[a] = u[i]
  BY <1>1, <1>2, <1>4, DigestOK
<1>6. QED
  BY <1>2, <1>3, <1>4, <1>5

\* A publication or a rebinding appends its own snapshot and rewrites none.
LEMMA RememberFacts ==
  ASSUME NEW E, TypesWith(E), Remember, RevisionIdentifies, revision' = revision + 1
  PROVE  /\ RevisionIdentifies'
         /\ Len(history') = Len(history) + 1
         /\ \A n \in DOMAIN history : n \in DOMAIN history' /\ history'[n] = history[n]
         /\ history'[Len(history')] = [index |-> index', artifacts |-> artifacts']
  BY DEF TypesWith, Remember, RevisionIdentifies

-----------------------------------------------------------------------------
(* Type correctness.                                                       *)

\* A new Codebase (New) is well typed.
LEMMA InitType == InitCodebase => TypeOK
  BY ConstantTypes DEF InitCodebase, TypeOK, TypesWith, NoPins

\* Publishing a unit stores artifacts, pins and a revision of their types.
LEMMA CommitUnitType ==
  ASSUME NEW E, TypesWith(E), NEW u \in Unit, CommitUnit(u)
  PROVE  TypesWith(E)'
<1> USE DEF TypesWith, CommitUnit, registry, records
<1>1. artifacts' \subseteq Artifact
  BY StagedFacts
<1>2. pinned' \in [Artifact -> [Pin -> Artifact \cup {NoArtifact}]]
  <2>1. \A a \in Staged(u) : PinsFor(DefOf[a]) \in [Pin -> Artifact \cup {NoArtifact}]
    BY StagedFacts DEF Resolutions
  <2>2. QED
    BY <2>1
<1>3. index' \in [Key -> Artifact \cup {NoArtifact}]
  <2>1. \A k \in Key : (\E a \in Staged(u) : KeyOf(a) = k)
                         => (CHOOSE a \in Staged(u) : KeyOf(a) = k) \in Artifact
    BY StagedFacts
  <2>2. QED
    BY <2>1
<1>4. history' \in Seq([index : [Key -> Artifact \cup {NoArtifact}], artifacts : SUBSET Artifact])
  BY <1>1, <1>3 DEF Remember
<1>5. QED
  BY <1>1, <1>2, <1>3, <1>4

\* Moving an alias keeps every type: it is bound to a stored artifact.
LEMMA RebindType ==
  ASSUME NEW E, TypesWith(E), NEW k \in Key, NEW a \in Artifact, Rebind(k, a)
  PROVE  TypesWith(E)'
  BY DEF TypesWith, Rebind, Remember, registry, records

\* A deduction record goes to the next ledger position, which its index names.
LEMMA AppendType ==
  ASSUME NEW E, TypesWith(E), NEW run \in RunId, NEW occ \in Occurrence, NEW e \in E,
         AppendDeduction(run, occ, e)
  PROVE  TypesWith(E)'
<1>1. [seq |-> Len(ledger) + 1, run |-> run, occ |-> occ, entry |-> e] \in Record(E)
  BY DEF Record, TypesWith
<1>2. ledger' \in Seq(Record(E))
  BY <1>1 DEF AppendDeduction, TypesWith
<1>3. byOcc' \in [RunId \X Occurrence -> Nat]
  BY DEF AppendDeduction, TypesWith
<1>4. QED
  BY <1>2, <1>3 DEF AppendDeduction, TypesWith, store, registry

\* No operation of the Codebase leaves the types.
LEMMA NextType == TypeOK /\ [Next]_codebaseVars => TypeOK'
<1> SUFFICES ASSUME TypeOK, [Next]_codebaseVars
             PROVE  TypeOK'
  OBVIOUS
<1>1. ASSUME NEW u \in Unit, CommitUnit(u) PROVE TypeOK'
  BY <1>1, CommitUnitType DEF TypeOK
<1>2. ASSUME NEW u \in Unit, RefuseUnit(u) PROVE TypeOK'
  BY <1>2 DEF RefuseUnit, codebaseVars, store, registry, records, TypeOK, TypesWith
<1>3. ASSUME NEW k \in Key, NEW a \in Artifact, Rebind(k, a) PROVE TypeOK'
  BY <1>3, RebindType DEF TypeOK
<1>4. ASSUME NEW i \in RunId, RegisterRun(i) PROVE TypeOK'
  BY <1>4 DEF RegisterRun, store, records, TypeOK, TypesWith
<1>5. ASSUME NEW n \in 1..MaxRun, RegisterFreshRun(n) PROVE TypeOK'
  BY <1>5, ConstantTypes DEF RegisterFreshRun, store, records, TypeOK, TypesWith
<1>6. ASSUME NEW run \in RunId, NEW occ \in Occurrence, NEW e \in Entry,
             AppendDeduction(run, occ, e)
      PROVE  TypeOK'
  BY <1>6, AppendType DEF TypeOK
<1>7. CASE UNCHANGED codebaseVars
  BY <1>7 DEF codebaseVars, store, registry, records, TypeOK, TypesWith
<1>8. QED
  BY <1>1, <1>2, <1>3, <1>4, <1>5, <1>6, <1>7 DEF Next

\* Every value the Codebase keeps has its type, whatever its clients call.
THEOREM TypeCorrect == Spec => []TypeOK
<1>1. InitCodebase => TypeOK
  BY InitType
<1>2. TypeOK /\ [Next]_codebaseVars => TypeOK'
  BY NextType
<1>3. QED
  BY <1>1, <1>2, PTL DEF Spec

-----------------------------------------------------------------------------
(* The safety invariants, which are inductive together.                    *)

Inv(E) == TypesWith(E) /\ RevisionIdentifies /\ IndexSound /\ PinsClosed /\ LedgerIndexed

\* The empty Codebase satisfies the inductive invariant: nothing is bound,
\* stored or recorded.
LEMMA InitInv == InitCodebase => Inv(Entry)
<1> SUFFICES ASSUME InitCodebase
             PROVE  Inv(Entry)
  OBVIOUS
<1>1. TypeOK
  BY InitType
<1>2. RevisionIdentifies
  BY DEF InitCodebase, RevisionIdentifies
<1>3. IndexSound
  BY DEF InitCodebase, IndexSound
<1>4. PinsClosed
  BY DEF InitCodebase, PinsClosed
<1>5. LedgerIndexed
  BY DEF InitCodebase, LedgerIndexed, Recorded
<1>6. QED
  BY <1>1, <1>2, <1>3, <1>4, <1>5 DEF Inv, TypeOK

\* Publishing keeps the bindings of every revision sound: an alias that moves
\* goes to an artifact stored by the same step, one that stays was stored.
LEMMA CommitUnitInv ==
  ASSUME NEW E, Inv(E), NEW u \in Unit, CommitUnit(u)
  PROVE  Inv(E)'
<1>1. TypesWith(E)'
  BY CommitUnitType DEF Inv
<1>2. /\ RevisionIdentifies'
      /\ Len(history') = Len(history) + 1
      /\ \A n \in DOMAIN history : n \in DOMAIN history' /\ history'[n] = history[n]
      /\ history'[Len(history')] = [index |-> index', artifacts |-> artifacts']
  BY RememberFacts DEF Inv, CommitUnit
<1>3. IndexSound'
  <2>1. ASSUME NEW k \in Key, index'[k] # NoArtifact
        PROVE  index'[k] \in artifacts' /\ KeyOf(index'[k]) = k
    <3>1. CASE \E a \in Staged(u) : KeyOf(a) = k
      BY <3>1, <2>1 DEF CommitUnit
    <3>2. CASE ~ \E a \in Staged(u) : KeyOf(a) = k
      <4>1. index'[k] = index[k]
        BY <3>2, <2>1 DEF CommitUnit
      <4>2. /\ revision + 1 \in DOMAIN history
            /\ history[revision + 1].index = index
            /\ history[revision + 1].artifacts = artifacts
        BY DEF Inv, TypesWith, RevisionIdentifies
      <4>3. index[k] \in artifacts /\ KeyOf(index[k]) = k
        BY <4>1, <4>2, <2>1 DEF Inv, IndexSound
      <4>4. QED
        BY <4>1, <4>3 DEF CommitUnit
    <3>3. QED
      BY <3>1, <3>2
  <2>2. ASSUME NEW n \in DOMAIN history'
        PROVE  n \in DOMAIN history \/ n = Len(history')
    BY <1>2 DEF Inv, TypesWith, CommitUnit, Remember
  <2>3. QED
    BY <1>2, <2>1, <2>2 DEF Inv, IndexSound, KeyOf
<1>4. PinsClosed'
  <2> SUFFICES ASSUME NEW a \in artifacts', NEW p \in PinsOf[DefOf[a]]
               PROVE  pinned'[a][p] \in artifacts' \cap Addressed[p]
    BY DEF PinsClosed
  <2>1. CASE a \in artifacts
    BY <2>1 DEF Inv, PinsClosed, CommitUnit, TypesWith
  <2>2. CASE a \in Staged(u) \ artifacts
    <3>1. pinned'[a] = PinsFor(DefOf[a])
      BY <2>2, StagedFacts DEF CommitUnit, Inv
    <3>2. PinsFor(DefOf[a])[p] \in artifacts \cap Addressed[p]
      BY <2>2, StagedFacts DEF CommitUnit, Inv
    <3>3. QED
      BY <3>1, <3>2 DEF CommitUnit
  <2>3. QED
    BY <2>1, <2>2 DEF CommitUnit
<1>5. LedgerIndexed'
  BY DEF Inv, CommitUnit, LedgerIndexed, Recorded, records
<1>6. QED
  BY <1>1, <1>2, <1>3, <1>4, <1>5 DEF Inv

\* Rebinding to a stored artifact of the same name and arity keeps the bindings
\* of the current and of every past revision sound.
LEMMA RebindInv ==
  ASSUME NEW E, Inv(E), NEW k \in Key, NEW a \in Artifact, Rebind(k, a)
  PROVE  Inv(E)'
<1>1. TypesWith(E)'
  BY RebindType DEF Inv
<1>2. /\ RevisionIdentifies'
      /\ Len(history') = Len(history) + 1
      /\ \A n \in DOMAIN history : n \in DOMAIN history' /\ history'[n] = history[n]
      /\ history'[Len(history')] = [index |-> index', artifacts |-> artifacts']
  BY RememberFacts DEF Inv, Rebind
<1>3. IndexSound'
  <2>1. /\ revision + 1 \in DOMAIN history
        /\ history[revision + 1].index = index
        /\ history[revision + 1].artifacts = artifacts
    BY DEF Inv, TypesWith, RevisionIdentifies
  <2>2. ASSUME NEW j \in Key, index'[j] # NoArtifact
        PROVE  index'[j] \in artifacts' /\ KeyOf(index'[j]) = j
    BY <2>1, <2>2 DEF Inv, TypesWith, IndexSound, Rebind
  <2>3. ASSUME NEW n \in DOMAIN history'
        PROVE  n \in DOMAIN history \/ n = Len(history')
    BY <1>2 DEF Inv, TypesWith, Rebind, Remember
  <2>4. QED
    BY <1>2, <2>2, <2>3 DEF Inv, IndexSound, KeyOf
<1>4. PinsClosed' /\ LedgerIndexed'
  BY DEF Inv, Rebind, PinsClosed, LedgerIndexed, Recorded, records
<1>5. QED
  BY <1>1, <1>2, <1>3, <1>4 DEF Inv

\* The new record is the only one of its occurrence, because the index had no
\* position for it and every earlier record has its own.
LEMMA AppendInv ==
  ASSUME NEW E, Inv(E), NEW run \in RunId, NEW occ \in Occurrence, NEW e \in E,
         AppendDeduction(run, occ, e)
  PROVE  Inv(E)'
<1>1. TypesWith(E)'
  BY AppendType DEF Inv
<1>2. /\ Len(ledger) \in Nat
      /\ Len(ledger') = Len(ledger) + 1
      /\ \A n \in DOMAIN ledger : n \in DOMAIN ledger' /\ ledger'[n] = ledger[n]
      /\ ledger'[Len(ledger) + 1] =
           [seq |-> Len(ledger) + 1, run |-> run, occ |-> occ, entry |-> e]
      /\ DOMAIN ledger' = DOMAIN ledger \cup {Len(ledger) + 1}
      /\ Len(ledger) + 1 \notin DOMAIN ledger
  BY DEF Inv, TypesWith, AppendDeduction
<1>3. \A r \in RunId, o \in Occurrence :
        byOcc'[<<r, o>>] = IF r = run /\ o = occ THEN Len(ledger) + 1 ELSE byOcc[<<r, o>>]
  BY DEF Inv, TypesWith, AppendDeduction
<1>4. byOcc[<<run, occ>>] = 0
  BY DEF AppendDeduction, Recorded
<1>5. LedgerIndexed'
  <2>1. ASSUME NEW n \in DOMAIN ledger'
        PROVE  /\ ledger'[n].seq = n
               /\ byOcc'[<<ledger'[n].run, ledger'[n].occ>>] = n
    <3>1. CASE n = Len(ledger) + 1
      BY <3>1, <1>2, <1>3
    <3>2. CASE n \in DOMAIN ledger
      <4>1. /\ ledger[n] \in Record(E) /\ n # 0
            /\ ledger[n].seq = n
            /\ byOcc[<<ledger[n].run, ledger[n].occ>>] = n
        BY <3>2 DEF Inv, TypesWith, LedgerIndexed
      <4>2. ledger[n].run \in RunId /\ ledger[n].occ \in Occurrence
        BY <4>1 DEF Record
      <4>3. ~(ledger[n].run = run /\ ledger[n].occ = occ)
        BY <4>1, <1>4
      <4>4. QED
        BY <4>1, <4>2, <4>3, <3>2, <1>2, <1>3
    <3>3. QED
      BY <3>1, <3>2, <1>2
  <2>2. ASSUME NEW r \in RunId, NEW o \in Occurrence, byOcc'[<<r, o>>] # 0
        PROVE  /\ byOcc'[<<r, o>>] \in DOMAIN ledger'
               /\ ledger'[byOcc'[<<r, o>>]].run = r
               /\ ledger'[byOcc'[<<r, o>>]].occ = o
    <3>1. CASE r = run /\ o = occ
      BY <3>1, <1>2, <1>3
    <3>2. CASE ~(r = run /\ o = occ)
      BY <3>2, <2>2, <1>2, <1>3 DEF Inv, LedgerIndexed, Recorded
    <3>3. QED
      BY <3>1, <3>2
  <2>3. QED
    BY <2>1, <2>2 DEF LedgerIndexed, Recorded
<1>6. RevisionIdentifies' /\ IndexSound' /\ PinsClosed'
  BY DEF Inv, AppendDeduction, store, RevisionIdentifies, IndexSound, PinsClosed, KeyOf
<1>7. QED
  BY <1>1, <1>5, <1>6 DEF Inv

\* Registering a run touches neither the store nor the ledger.
LEMMA RegistryInv ==
  ASSUME NEW E, Inv(E), UNCHANGED <<store, records>>, TypesWith(E)'
  PROVE  Inv(E)'
  BY DEF Inv, store, records, RevisionIdentifies, IndexSound, PinsClosed,
         LedgerIndexed, Recorded, KeyOf

\* Every operation preserves the inductive invariant.
LEMMA NextInv == Inv(Entry) /\ [Next]_codebaseVars => Inv(Entry)'
<1> SUFFICES ASSUME Inv(Entry), [Next]_codebaseVars
             PROVE  Inv(Entry)'
  OBVIOUS
<1>0. TypesWith(Entry)'
  BY NextType DEF Inv, TypeOK
<1>1. ASSUME NEW u \in Unit, CommitUnit(u) PROVE Inv(Entry)'
  BY <1>1, CommitUnitInv
<1>2. ASSUME NEW u \in Unit, RefuseUnit(u) PROVE Inv(Entry)'
  BY <1>2, <1>0, RegistryInv DEF RefuseUnit, codebaseVars
<1>3. ASSUME NEW k \in Key, NEW a \in Artifact, Rebind(k, a) PROVE Inv(Entry)'
  BY <1>3, RebindInv
<1>4. ASSUME NEW i \in RunId, RegisterRun(i) PROVE Inv(Entry)'
  BY <1>4, <1>0, RegistryInv DEF RegisterRun
<1>5. ASSUME NEW n \in 1..MaxRun, RegisterFreshRun(n) PROVE Inv(Entry)'
  BY <1>5, <1>0, RegistryInv DEF RegisterFreshRun
<1>6. ASSUME NEW run \in RunId, NEW occ \in Occurrence, NEW e \in Entry,
             AppendDeduction(run, occ, e)
      PROVE  Inv(Entry)'
  BY <1>6, AppendInv
<1>7. CASE UNCHANGED codebaseVars
  BY <1>7, <1>0, RegistryInv DEF codebaseVars
<1>8. QED
  BY <1>1, <1>2, <1>3, <1>4, <1>5, <1>6, <1>7 DEF Next

\* The inductive invariant holds in every reachable state of the Codebase.
LEMMA Invariance == Spec => []Inv(Entry)
<1>1. InitCodebase => Inv(Entry)
  BY InitInv
<1>2. Inv(Entry) /\ [Next]_codebaseVars => Inv(Entry)'
  BY NextInv
<1>3. QED
  BY <1>1, <1>2, PTL DEF Spec

\* Every alias binding of every revision and every pin of a stored artifact
\* leads to a stored artifact of the right name, arity or hash prefix, so
\* ResolveCurrent and Get never miss what they are asked for.
THEOREM StoreIsSound == Spec => []StoreSound
<1>1. Inv(Entry) => StoreSound
  BY DEF Inv, StoreSound
<1>2. QED
  BY <1>1, Invariance, PTL

\* The ledger and its index agree: one record per occurrence of a run, at its
\* own sequence number.
THEOREM LedgerIsIndexed == Spec => []LedgerIndexed
<1>1. Inv(Entry) => LedgerIndexed
  BY DEF Inv
<1>2. QED
  BY <1>1, Invariance, PTL

\* A revision number determines what was bound and stored under it.
THEOREM RevisionsIdentify == Spec => []RevisionIdentifies
<1>1. Inv(Entry) => RevisionIdentifies
  BY DEF Inv
<1>2. QED
  BY <1>1, Invariance, PTL

-----------------------------------------------------------------------------
(* Immutability, as an action property.                                    *)

Kept ==
  /\ artifacts \subseteq artifacts'
  /\ \A a \in artifacts : pinned'[a] = pinned[a]
  /\ \A n \in DOMAIN ledger : n \in DOMAIN ledger' /\ ledger'[n] = ledger[n]
  /\ \A n \in DOMAIN history : n \in DOMAIN history' /\ history'[n] = history[n]
  /\ runs \subseteq runs'

\* A step from a state of the invariant keeps everything a client may have seen.
LEMMA StepKeeps == Inv(Entry) /\ [Next]_codebaseVars => Kept \/ UNCHANGED codebaseVars
<1> SUFFICES ASSUME Inv(Entry), Next
             PROVE  Kept
  OBVIOUS
<1> USE DEF Inv, Kept
<1>1. ASSUME NEW u \in Unit, CommitUnit(u) PROVE Kept
  BY <1>1, RememberFacts DEF CommitUnit, TypesWith, registry, records
<1>2. ASSUME NEW u \in Unit, RefuseUnit(u) PROVE Kept
  BY <1>2 DEF RefuseUnit, codebaseVars, store, registry, records
<1>3. ASSUME NEW k \in Key, NEW a \in Artifact, Rebind(k, a) PROVE Kept
  BY <1>3, RememberFacts DEF Rebind, registry, records
<1>4. ASSUME NEW i \in RunId, RegisterRun(i) PROVE Kept
  BY <1>4 DEF RegisterRun, store, records
<1>5. ASSUME NEW n \in 1..MaxRun, RegisterFreshRun(n) PROVE Kept
  BY <1>5 DEF RegisterFreshRun, store, records
<1>6. ASSUME NEW run \in RunId, NEW occ \in Occurrence, NEW e \in Entry,
             AppendDeduction(run, occ, e)
      PROVE  Kept
  BY <1>6 DEF AppendDeduction, TypesWith, store, registry
<1>7. QED
  BY <1>1, <1>2, <1>3, <1>4, <1>5, <1>6 DEF Next

\* Artifacts, their pins, ledger records, past revisions and run identities
\* are never changed or released once a client may have seen them.
THEOREM NothingIsRewritten == Spec => Immutable
<1>1. Inv(Entry) /\ [Next]_codebaseVars => [Kept]_codebaseVars
  BY StepKeeps
<1>2. Spec => [][Kept]_codebaseVars
  BY <1>1, Invariance, PTL DEF Spec
<1>3. QED
  BY <1>2 DEF Immutable, Kept
=============================================================================
