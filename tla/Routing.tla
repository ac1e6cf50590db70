------------------------------- MODULE Routing -------------------------------
(***************************************************************************)
(* A program goes through validation (Validation) and is then materialized *)
(* by the engine (Expand).  Two pieces of code, written apart, have to     *)
(* agree on which Goal a bare name refers to: G/0 or G/1.                  *)
(***************************************************************************)
EXTENDS Validation

CONSTANT Trees       \* the programs that are put to the check

ASSUME TreesAreTrees == NoOcc \notin Seq(Nat) /\ \A T \in Trees : IsTree(T)

VARIABLES
  tree,              \* the program
  staged,            \* the occurrences registered so far, in order
  deduced            \* those of them that were deduced

Init == tree \in Trees /\ staged = <<>> /\ deduced = {}

\* Only an accepted program is opened.
OpenRoot ==
  /\ staged = <<>> /\ Accepted(tree)
  /\ staged' = <<Node(tree, <<>>)>>
  /\ UNCHANGED <<tree, deduced>>

\* Deductions go in registration order, as Replenish goes when it prefetches;
\* what they stage does not depend on the order.
Due(i) == staged[i].kind \in {"Goal", "arrow"} /\ staged[i].id \notin deduced

Deduce(i) ==
  LET o == staged[i].id
  IN  /\ Due(i) /\ \A j \in 1..(i - 1) : ~Due(j)
      /\ staged' = staged \o [n \in DOMAIN StagedBy(tree, o) |-> Node(tree, StagedBy(tree, o)[n])]
      /\ deduced' = deduced \cup {o}
      /\ UNCHANGED tree

Next == OpenRoot \/ \E i \in DOMAIN staged : Deduce(i)

Spec == Init /\ [][Next]_<<tree, staged, deduced>>

-----------------------------------------------------------------------------
(* Properties.                                                             *)

Occurrences == {staged[i] : i \in DOMAIN staged}
Enclosing(o) == {q \in Occurrences : IsPrefix(q.id, o.id)}

\* The arity validation resolved a bare Goal with is the arity the engine will
\* look it up with (0 or 1, by a routed input), and a one-parameter arrow that
\* was accepted as an element gets its value.  A value is only ever routed
\* from a serial predecessor of the occurrence or of a composition around it,
\* so whatever the Scheduler finds structurally ready is never held back by
\* the value barrier.
RoutingAgrees ==
  \A o \in Occurrences :
     /\ IsBareGoal(tree[o.id]) => ArityOf(tree, o.id) = IF o.input = NoOcc THEN 0 ELSE 1
     /\ o.kind = "arrow" /\ IsStage(tree, o.id) /\ tree[o.id].arity = 1 => o.input # NoOcc
     /\ o.input # NoOcc => \E q \in Enclosing(o) : o.input \in q.deps
=============================================================================
