----------------------------- MODULE Touchdowns -----------------------------
(***************************************************************************)
(* What the Carousel promises the Scheduler about a Touchdown (SCP-0001):  *)
(* a published leaf leaves the window exactly once, consumed by the one    *)
(* attempt whose acknowledgement is applied first, or discarded; and only  *)
(* that attempt is ever authorized to invoke the Host.                     *)
(***************************************************************************)
CONSTANTS Leaf, Attempt, NoAttempt

VARIABLES
  td,           \* [Leaf -> "unpublished" | "buffered" | "consumed" | "discarded"]
  consumedBy,   \* [Leaf -> Attempt \cup {NoAttempt}]
  authorized    \* pairs <<leaf, attempt>> that were told to go ahead

vars == <<td, consumedBy, authorized>>

Init ==
  /\ td = [l \in Leaf |-> "unpublished"]
  /\ consumedBy = [l \in Leaf |-> NoAttempt]
  /\ authorized = {}

\* One deduction publishes all its leaves at once.
Publish(ls) ==
  /\ \A l \in ls : td[l] = "unpublished"
  /\ td' = [l \in Leaf |-> IF l \in ls THEN "buffered" ELSE td[l]]
  /\ UNCHANGED <<consumedBy, authorized>>

Consume(l, a) ==
  /\ td[l] = "buffered"
  /\ td' = [td EXCEPT ![l] = "consumed"]
  /\ consumedBy' = [consumedBy EXCEPT ![l] = a]
  /\ authorized' = authorized \cup {<<l, a>>}

\* A settled scope discards every leaf under it that nobody attempted.
Discard(ls) ==
  /\ \A l \in ls : td[l] = "buffered"
  /\ td' = [l \in Leaf |-> IF l \in ls THEN "discarded" ELSE td[l]]
  /\ UNCHANGED <<consumedBy, authorized>>

Next ==
  \/ \E ls \in SUBSET Leaf : Publish(ls) \/ Discard(ls)
  \/ \E l \in Leaf, a \in Attempt : Consume(l, a)

Spec == Init /\ [][Next]_vars
=============================================================================
