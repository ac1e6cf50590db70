----------------------------- MODULE CycleCheck -----------------------------
(***************************************************************************)
(* detectCycles of sema/sema.go: the depth-first search over the           *)
(* references between the local Goals, the top-level values and the Root   *)
(* of one unit.  Each iteration of a loop of visit is a step here, and the *)
(* recursion is the stack.  It is the only thing that keeps deduction and  *)
(* evaluation of a unit finite: a white node it forgets, or one coloured   *)
(* black too early, hides a cycle, and a grey node left behind reports one *)
(* that does not exist.                                                    *)
(*                                                                         *)
(* The source sorts the node names before each loop; Node is a set of      *)
(* numbers, in that order.                                                 *)
(***************************************************************************)
EXTENDS Naturals, Sequences

CONSTANTS Node, Graphs

ASSUME NodesAreOrdered == Node \subseteq Nat
ASSUME GraphTypes == Graphs \subseteq [Node -> SUBSET Node]

VARIABLES
  edges,        \* [Node -> SUBSET Node]: which binding refers to which
  color,        \* [Node -> "white" | "grey" | "black"]
  stack,        \* the calls of visit in progress, innermost last
  todo,         \* [Node -> references of a visited node not looked at yet]
  roots,        \* nodes the outermost loop has not come to
  verdict       \* "none", "cycle" (CycleDetected) or "accepted"

vars == <<edges, color, stack, todo, roots, verdict>>

Init ==
  /\ edges \in Graphs
  /\ color = [n \in Node |-> "white"]
  /\ stack = <<>>
  /\ todo = [n \in Node |-> {}]
  /\ roots = {n \in Node : edges[n] # {}}
  /\ verdict = "none"

Least(n, S) == n \in S /\ \A m \in S : n <= m

\* A call of visit.
Visit(n) ==
  /\ color' = [color EXCEPT ![n] = "grey"]
  /\ todo' = [todo EXCEPT ![n] = edges[n]]
  /\ stack' = Append(stack, n)

\* Mutant: a node that was reached before is not taken off the list.
NextRootAgain ==
  /\ stack = <<>>
  /\ \E n \in roots :
       /\ Least(n, roots)
       /\ roots' = IF color[n] = "white" THEN roots \ {n} ELSE roots
       /\ IF color[n] = "white" THEN Visit(n) ELSE UNCHANGED <<color, todo, stack>>
  /\ UNCHANGED <<edges, verdict>>

NextRoot ==
  /\ stack = <<>>
  /\ \E n \in roots :
       /\ Least(n, roots)
       /\ roots' = roots \ {n}
       /\ IF color[n] = "white" THEN Visit(n) ELSE UNCHANGED <<color, todo, stack>>
  /\ UNCHANGED <<edges, verdict>>

Accept ==
  /\ stack = <<>> /\ roots = {}
  /\ verdict' = "accepted"
  /\ UNCHANGED <<edges, color, stack, todo, roots>>

Top == stack[Len(stack)]

\* Mutant: any node seen before counts as a cycle.
ClosesSeen(t) == color[t] # "white"

\* t is visited further out: the references from there to here close a cycle.
Closes(t) == color[t] = "grey"

\* The least reference not looked at yet, seen from the innermost call.
Follow ==
  /\ stack # <<>>
  /\ \E t \in todo[Top] :
       /\ Least(t, todo[Top])
       /\ \/ /\ Closes(t)
             /\ verdict' = "cycle"
             /\ UNCHANGED <<color, todo, stack>>
          \/ /\ ~Closes(t) /\ color[t] = "white"
             /\ color' = [color EXCEPT ![t] = "grey"]
             /\ todo' = [todo EXCEPT ![Top] = @ \ {t}, ![t] = edges[t]]
             /\ stack' = Append(stack, t)
             /\ UNCHANGED verdict
          \/ /\ ~Closes(t) /\ color[t] # "white"
             /\ todo' = [todo EXCEPT ![Top] = @ \ {t}]
             /\ UNCHANGED <<color, stack, verdict>>
  /\ UNCHANGED <<edges, roots>>

Return ==
  /\ stack # <<>> /\ todo[Top] = {}
  /\ color' = [color EXCEPT ![Top] = "black"]
  /\ stack' = SubSeq(stack, 1, Len(stack) - 1)
  /\ UNCHANGED <<edges, todo, roots, verdict>>

Next == verdict = "none" /\ (NextRoot \/ Accept \/ Follow \/ Return)

Spec == Init /\ [][Next]_vars /\ WF_vars(Next)
-----------------------------------------------------------------------------
(* Properties.                                                             *)

\* Some of S's members refer on and on within S.
Endless(S) == S # {} /\ \A n \in S : edges[n] \cap S # {}
Cyclic == \E S \in SUBSET Node : Endless(S)

\* The search reports a cycle exactly when there is one, wherever it starts
\* and however the references share their targets.
DetectsCycles ==
  /\ verdict = "cycle" => Cyclic
  /\ verdict = "accepted" => ~Cyclic

\* Every validation ends with a verdict.
EveryCheckEnds == <>(verdict # "none")
=============================================================================
