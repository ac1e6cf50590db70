----------------------------- MODULE Validation -----------------------------
(***************************************************************************)
(* What the static checker concludes about the structure of a program      *)
(* (sema.checkBody and checkStructure), as attributes of the paths of the  *)
(* tree that Expand unrolls.  A definition is checked once, here once for  *)
(* each occurrence of its Goal: nothing is passed into a body, so it comes *)
(* to the same.  Names, arguments and map keys are checked elsewhere.      *)
(***************************************************************************)
EXTENDS Expand

\* An element of a composition, rather than a whole body.
IsStage(T, p) == p # <<>> /\ T[Front(p)].op \in Composite

\* Whether the expression at a path exports a value, or NoOutput.
Exports(T) ==
  LET exports[p \in DOMAIN T] ==
        CASE T[p].op = "arrow" -> exports[Append(p, 0)]
          [] T[p].op = "serial" -> exports[Append(p, T[p].width)]
          [] T[p].op = "parallel" -> FALSE
          [] OTHER -> TRUE
  IN  exports

\* "none", "value" or "NoOutput" is routed to p, when in is routed to what is
\* around it.
RoutedTo(T, p, in) ==
  CASE T[Front(p)].op = "serial" /\ Last(p) > 1 ->
         IF Exports(T)[Predecessor(p)] THEN "value" ELSE "NoOutput"
    [] T[Front(p)].op = "parallel" /\ AllBare(T, Front(p)) /\ in = "value" -> "value"
    [] OTHER -> "none"

\* The argument in of checkStructure, at every path.
Routed(T) ==
  LET routed[p \in DOMAIN T] ==
        IF p = <<>> THEN "none" ELSE RoutedTo(T, p, routed[Front(p)])
  IN  routed

\* A bare Goal is looked up with the arity that the routed value gives it.
ArityOf(T, p) == IF Routed(T)[p] = "value" THEN 1 ELSE 0

BareGoalOK(T, p) ==
  IsBareGoal(T[p]) => IsStage(T, p) /\ Routed(T)[p] # "NoOutput"

ArrowOK(T, p) ==
  T[p].op = "arrow" /\ IsStage(T, p) =>
    T[p].arity = 0 \/ (T[p].arity = 1 /\ Routed(T)[p] = "value")

\* Elements that take the routed value are not mixed with others.
ParallelOK(T, p) ==
  T[p].op = "parallel" =>
    LET someBare == \E i \in 1..T[p].width : IsBareGoal(T[Append(p, i)])
    IN  CASE Routed(T)[p] = "value" -> someBare => AllBare(T, p)
          [] Routed(T)[p] = "NoOutput" -> ~someBare
          [] OTHER -> TRUE

\* A map is structure as a whole body, when each of its entries has a value; a
\* function arrow is the definition of a Goal and nothing else.
MapOK(T, p) ==
  T[p].op = "map" => ~IsStage(T, p) /\ T[p].width > 0
                     /\ \A i \in 1..T[p].width : Exports(T)[Append(p, i)]

FunctionOK(T, p) == T[p].op = "function" => T[Front(p)].op = "goal"

Accepted(T) ==
  \A p \in DOMAIN T : /\ BareGoalOK(T, p) /\ ArrowOK(T, p) /\ ParallelOK(T, p)
                      /\ MapOK(T, p) /\ FunctionOK(T, p)
=============================================================================
