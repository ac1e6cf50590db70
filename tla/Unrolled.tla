------------------------------ MODULE Unrolled ------------------------------
(***************************************************************************)
(* A program unrolled: every occurrence it may ever expose, with what the  *)
(* engine and the Runtime know of each before anything runs.  Expand says  *)
(* how these come out of the source; here is what the rest relies on.      *)
(***************************************************************************)
EXTENDS Integers, Sequences, FiniteSets

CONSTANTS
  Occ,          \* every occurrence the program may expose
  NoOcc,
  Root,
  Kind,         \* [Occ -> "Goal" | "arrow" | "anchor" | "function" | "serial" | ...]
  Parent,       \* [Occ -> Occ \cup {NoOcc}]
  Staged,       \* [Occ -> Seq(Occ)]: what deducing an occurrence registers, in order
  Input,        \* [Occ -> Occ \cup {NoOcc}]: whose output is routed in
  Deps,         \* [Occ -> SUBSET Occ]: serial predecessors
  Eager         \* occurrences written as a direct call, demanded when exposed

Deducible == {o \in Occ : Kind[o] \in {"Goal", "arrow"}}
Leaf == {o \in Occ : Kind[o] \in {"anchor", "function"}}
StagedSet(o) == {Staged[o][i] : i \in DOMAIN Staged[o]}

\* The list an occurrence keeps of its children.
ChildrenOf(p) == {q \in Occ : Parent[q] = p}

OccurrenceTypes ==
  /\ NoOcc \notin Occ /\ Root \in Occ
  /\ Kind \in [Occ -> {"Goal", "arrow", "anchor", "function", "serial", "parallel", "map"}]
  /\ Parent \in [Occ -> Occ \cup {NoOcc}]
  /\ Staged \in [Occ -> Seq(Occ)]
  /\ Input \in [Occ -> Occ \cup {NoOcc}]
  /\ Deps \in [Occ -> SUBSET Occ]
  /\ Eager \subseteq Deducible
  /\ Kind[Root] = "Goal"

\* Occurrence identities are structural paths, so a deduction registers each
\* of its occurrences once and no two deductions register the same one.
RegisteredOnce ==
  /\ \A o \in Occ : Root \notin StagedSet(o)
  /\ \A o, q \in Occ : o # q => StagedSet(o) \cap StagedSet(q) = {}
  /\ \A o \in Occ : o \notin StagedSet(o)
  /\ \A o \in Occ : \A i, j \in DOMAIN Staged[o] : Staged[o][i] = Staged[o][j] => i = j

\* Every parent leads up to the Root: no occurrences can keep to each other as
\* their parents.
LeadUp ==
  /\ \A o \in Occ : Parent[o] = NoOcc <=> o = Root
  /\ \A S \in SUBSET Occ : S # {} => \E o \in S : Parent[o] \notin S

\* The children of a serial composition, each waiting for the one before it.
InSeries(p) ==
  /\ IsFiniteSet(ChildrenOf(p))
  /\ \E element \in [1..Cardinality(ChildrenOf(p)) -> ChildrenOf(p)] :
       /\ ChildrenOf(p) = {element[i] : i \in DOMAIN element}
       /\ \A i, j \in DOMAIN element : element[i] = element[j] => i = j
       /\ \A i \in DOMAIN element : Deps[element[i]] = IF i = 1 THEN {} ELSE {element[i - 1]}

\* A deduction stages one body, whole, down to the Goals and inline arrows in
\* it; leaves have no parts.
Composed ==
  /\ \A o \in Deducible :
       /\ StagedSet(o) = {q \in Occ : Parent[q] \in {o} \cup (StagedSet(o) \ Deducible)}
       /\ \A c, d \in ChildrenOf(o) : c = d
  /\ \A l \in Leaf : ChildrenOf(l) = {}
  /\ \A p \in Occ : Kind[p] = "serial" => InSeries(p)

\* Nothing that has to be expanded is empty: a body has a scope, the parser
\* wants two elements in a composition and the checker an entry in a map.  Only
\* elements of a serial composition wait, and an output is routed in only from
\* what an occurrence, or the composition it is an element of, waits for.
Dependent ==
  /\ \A p \in Occ \ Leaf : ChildrenOf(p) # {}
  /\ \A o \in Occ : Parent[o] = NoOcc \/ Kind[Parent[o]] # "serial" => Deps[o] = {}
  /\ \A o \in Occ : Input[o] # NoOcc =>
       \E q \in {o, Parent[o]} \ {NoOcc} : Input[o] \in Deps[q]
=============================================================================
