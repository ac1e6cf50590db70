------------------------------ MODULE Notation ------------------------------
(***************************************************************************)
(* Programs as the authors of the model instances write them: expressions  *)
(* nested as in syntax/ast.go and definitions by name, unrolled into the   *)
(* trees that Expand and Validation are about.                             *)
(***************************************************************************)
EXTENDS Validation

Of(op, suffix, arity, width) == [op |-> op, suffix |-> suffix, arity |-> arity, width |-> width]

(* x is the expression at a path, parts what it has under it; a Goal has   *)
(* the name of its definition instead.                                     *)
Goal(g, suffix) == [x |-> Of("goal", suffix, 0, 0), goal |-> g]
Bare(g) == Goal(g, "bare")
Anchor == [x |-> Of("anchor", "none", 0, 0), parts |-> <<>>]
Function == [x |-> Of("function", "none", 0, 0), parts |-> <<>>]
Arrow(arity, body) == [x |-> Of("arrow", "none", arity, 0), parts |-> [s \in {0} |-> body]]
Serial(stages) == [x |-> Of("serial", "none", 0, Len(stages)), parts |-> stages]
Parallel(stages) == [x |-> Of("parallel", "none", 0, Len(stages)), parts |-> stages]
MapOf(entries) == [x |-> Of("map", "none", 0, Len(entries)), parts |-> entries]

\* Every path of the program from e at p on; definition maps Goals to bodies,
\* and no Goal reaches itself.
RECURSIVE Unroll(_, _, _)
Unroll(e, p, definition) ==
  LET parts == IF e.x.op = "goal" THEN [s \in {0} |-> definition[e.goal]] ELSE e.parts
      under == [s \in DOMAIN parts |-> Unroll(parts[s], Append(p, s), definition)]
  IN  FoldFunction(LAMBDA f, g : f @@ g, p :> e.x, under)

TreeOf(root, definition) == Unroll(Goal(root, "deferred"), <<>>, definition)
=============================================================================
