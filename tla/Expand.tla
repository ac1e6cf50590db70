------------------------------- MODULE Expand -------------------------------
(***************************************************************************)
(* How a reduction materializes structure: Carousel.expand and expandBody  *)
(* (carousel.go:713-841) as operators on a program unrolled into a tree.   *)
(*                                                                         *)
(* An occurrence identity is a path: <<>> is "r", segment 0 is the ".d" of *)
(* a body, segment i is the ".<i-1>" of the i-th element of a composite.   *)
(* A tree gives every path of the program the expression found there: a    *)
(* Goal has its definition's body under it and an inline arrow its own.    *)
(* What the engine passes from call to call is an attribute of the path.   *)
(* Only validated structure is expanded (Validation), and the evaluation   *)
(* of arguments is left to Carousel's deduction outcome.                   *)
(***************************************************************************)
EXTENDS Integers, Sequences, FiniteSets, SequencesExt

CONSTANT NoOcc    \* no parent, no routed input

Composite == {"serial", "parallel", "map"}

(* Expressions. suffix: "bare" G, "deferred" G[...], "eager" G(...), or    *)
(* "none" of what is no Goal; arity: an inline arrow's; width: elements.   *)
Expression == [op : {"goal", "arrow", "anchor", "function"} \cup Composite,
               suffix : {"bare", "deferred", "eager", "none"}, arity : Nat, width : Nat]

IsBareGoal(x) == x.op = "goal" /\ x.suffix = "bare"

\* What an expression has under it: a body, or its elements.
Segments(x) == IF x.op \in {"goal", "arrow"} THEN {0} ELSE 1..x.width

\* T is a program unrolled from its Root.  The parser wants two elements in a
\* composition.
IsTree(T) ==
  /\ IsFiniteSet(DOMAIN T) /\ DOMAIN T \subseteq Seq(Nat)
  /\ T \in [DOMAIN T -> Expression]
  /\ <<>> \in DOMAIN T /\ T[<<>>].op = "goal" /\ T[<<>>].suffix = "deferred"
  /\ \A p \in DOMAIN T \ {<<>>} : Front(p) \in DOMAIN T /\ Last(p) \in Segments(T[Front(p)])
  /\ \A p \in DOMAIN T :
       /\ \A s \in Segments(T[p]) : Append(p, s) \in DOMAIN T
       /\ T[p].suffix = "none" <=> T[p].op # "goal"
       /\ T[p].op \in {"anchor", "function"} => T[p].width = 0
       /\ T[p].op \in {"serial", "parallel"} => T[p].width >= 2

KindOf(x) == IF x.op = "goal" THEN "Goal" ELSE x.op

ParentOf(p) == IF p = <<>> THEN NoOcc ELSE Front(p)

AllBare(T, p) == \A i \in 1..T[p].width : IsBareGoal(T[Append(p, i)])

\* The element before this one.
Predecessor(p) == Append(Front(p), Last(p) - 1)

\* Mutant: the first element of a serial composition is offered its input.
OfferedToFirst(T, p, in) ==
  CASE T[Front(p)].op = "serial" -> IF Last(p) = 1 THEN in ELSE Predecessor(p)
    [] T[Front(p)].op = "parallel" /\ AllBare(T, Front(p)) -> in
    [] OTHER -> NoOcc

\* What is offered to the expression at p, when what is around it was offered
\* in.  An element of a serial composition is offered its predecessor's output;
\* a parallel composition fans its own input out to its elements only when all
\* of them are bare Goals; a map branch and a body are offered nothing.
OfferedTo(T, p, in) ==
  CASE T[Front(p)].op = "serial" -> IF Last(p) = 1 THEN NoOcc ELSE Predecessor(p)
    [] T[Front(p)].op = "parallel" /\ AllBare(T, Front(p)) -> in
    [] OTHER -> NoOcc

\* The argument in of expand, at every path.
Offered(T) ==
  LET offered[p \in DOMAIN T] ==
        IF p = <<>> THEN NoOcc ELSE OfferedTo(T, p, offered[Front(p)])
  IN  offered

\* Only a bare Goal and an arrow with one parameter take the offered output as
\* their argument.
InputOf(T, p) ==
  IF IsBareGoal(T[p]) \/ (T[p].op = "arrow" /\ T[p].arity = 1) THEN Offered(T)[p] ELSE NoOcc

\* An element of a serial composition depends on its predecessor.
DepsOf(T, p) ==
  IF p # <<>> /\ T[Front(p)].op = "serial" /\ Last(p) > 1 THEN {Predecessor(p)} ELSE {}

Node(T, p) ==
  [id |-> p, kind |-> KindOf(T[p]), parent |-> ParentOf(p), input |-> InputOf(T, p),
   deps |-> DepsOf(T, p), eager |-> T[p].suffix = "eager"]

\* What is under o with nothing but composites in between: the deduction of o
\* expands its body that far.
ExpandedBy(T, o) ==
  {q \in DOMAIN T : /\ T[o].op \in {"goal", "arrow"} /\ IsStrictPrefix(o, q)
                    /\ \A k \in (Len(o) + 1)..(Len(q) - 1) : T[SubSeq(q, 1, k)].op \in Composite}

\* A composite is registered before its elements, an element and all in it
\* before the next: at the first difference p ends or has the smaller segment.
Before(p, q) ==
  \E k \in DOMAIN q :
     /\ k <= Len(p) + 1 /\ \A i \in 1..(k - 1) : p[i] = q[i]
     /\ k > Len(p) \/ p[k] < q[k]

\* What the deduction of o stages, in registration order.
StagedBy(T, o) ==
  LET S == ExpandedBy(T, o)
      rank(q) == Cardinality({p \in S : Before(p, q)})
  IN  [n \in 1..Cardinality(S) |-> CHOOSE q \in S : rank(q) = n - 1]

(* The same for a whole program: the constants of Unrolled.                *)
KindIn(T) == [p \in DOMAIN T |-> KindOf(T[p])]
ParentIn(T) == [p \in DOMAIN T |-> ParentOf(p)]
InputIn(T) == [p \in DOMAIN T |-> InputOf(T, p)]
DepsIn(T) == [p \in DOMAIN T |-> DepsOf(T, p)]
StagedIn(T) == [p \in DOMAIN T |-> StagedBy(T, p)]
EagerIn(T) == {p \in DOMAIN T : T[p].suffix = "eager"}
=============================================================================
