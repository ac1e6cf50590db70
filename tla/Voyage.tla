------------------------------- MODULE Voyage -------------------------------
(***************************************************************************)
(* What a run promises whoever watches it: which occurrences it has        *)
(* disclosed, how often each leaf was begun, and every outcome and output, *)
(* all of them final.  Nothing is said of demand, speculation, the window, *)
(* time, policies, or of how an outcome was reached; only that             *)
(*   - nothing is disclosed or begun in a scope that has its outcome,      *)
(*   - a leaf begins only after its serial predecessors and those of the   *)
(*     scopes around it were satisfied, and never after the run ended,     *)
(*   - success is earned: a satisfied leaf was begun, and a satisfied      *)
(*     composite has only satisfied children,                              *)
(*   - an outcome other than success ends everything open below it at      *)
(*     once, and withdraws only what had disclosed nothing,                *)
(*   - the run's result is decided once, by its Root or by giving up.      *)
(***************************************************************************)
EXTENDS Naturals

CONSTANTS Occ, NoOcc, Root, Parent, Ancestors, Deps, Leaf

VARIABLES
  shown,        \* occurrences disclosed so far
  outcome,      \* [Occ -> "none" or the outcome of its scope]
  exported,     \* [Occ -> "unresolved" or its output]
  begun,        \* [Leaf -> number of attempts begun]
  result        \* "none" or the run's result

voyageVars == <<shown, outcome, exported, begun, result>>

Init ==
  /\ shown = {Root}
  /\ outcome = [o \in Occ |-> "none"]
  /\ exported = [o \in Occ |-> "unresolved"]
  /\ begun = [l \in Leaf |-> 0]
  /\ result = "none"

Unsettled(o) == o \in shown /\ outcome[o] = "none"
Kids(o) == {q \in shown : Parent[q] = o}
OpenBelow(x) == {q \in shown : x \in Ancestors[q] /\ outcome[q] = "none"}

\* The body of an occurrence is disclosed once and whole.
Disclose(o) ==
  /\ Unsettled(o) /\ Kids(o) = {}
  /\ \E os \in SUBSET {q \in Occ \ shown : o \in Ancestors[q]} :
       /\ \A q \in os : Parent[q] \in {o} \cup os
       /\ shown' = shown \cup os
  /\ UNCHANGED <<outcome, exported, begun, result>>

Begin(l) ==
  /\ Unsettled(l) /\ result = "none"
  /\ \A q \in {l} \cup Ancestors[l] : \A d \in Deps[q] : outcome[d] = "Satisfied"
  /\ \A q \in Ancestors[l] : outcome[q] = "none"
  /\ begun' = [begun EXCEPT ![l] = @ + 1]
  /\ UNCHANGED <<shown, outcome, exported, result>>

\* The Root's outcome is the run's, unless the run has given up before.
Decide(x, st) ==
  result' = IF x # Root \/ result # "none" THEN result
            ELSE CASE st = "Satisfied" -> "Succeeded"
                   [] st = "Cancelled" -> "Cancelled"
                   [] OTHER -> "Failed"

Satisfy(x, out) ==
  /\ Unsettled(x)
  /\ IF x \in Leaf THEN begun[x] > 0
     ELSE Kids(x) # {} /\ \A q \in Kids(x) : outcome[q] = "Satisfied"
  /\ outcome' = [outcome EXCEPT ![x] = "Satisfied"]
  /\ exported' = [exported EXCEPT ![x] = out]
  /\ Decide(x, "Satisfied")
  /\ UNCHANGED <<shown, begun>>

Break(x, st) ==
  /\ Unsettled(x)
  /\ \E withdrawn \in SUBSET {q \in OpenBelow(x) \ Leaf : Kids(q) = {}} :
       outcome' = [q \in Occ |-> IF q = x THEN st
                                 ELSE IF q \in withdrawn THEN "Withdrawn"
                                 ELSE IF q \in OpenBelow(x) THEN "Cancelled" ELSE outcome[q]]
  /\ Decide(x, st)
  /\ UNCHANGED <<shown, exported, begun>>

GiveUp ==
  /\ result = "none" /\ result' = "Failed"
  /\ UNCHANGED <<shown, outcome, exported, begun>>

Next ==
  \/ \E o \in Occ : Disclose(o)
  \/ \E l \in Leaf : Begin(l)
  \/ \E x \in Occ : \/ \E out \in {"value", "NoOutput", "unresolved"} : Satisfy(x, out)
                    \/ \E st \in {"Failed", "Cancelled"} : Break(x, st)
  \/ GiveUp

Spec == Init /\ [][Next]_voyageVars
=============================================================================
