---------------------------- MODULE RoutingProofs ----------------------------
(***************************************************************************)
(* Proofs about Routing.tla and the trees of Expand.tla and                *)
(* Validation.tla: that validation and the engine agree on what is routed  *)
(* where, for every program, and that every program validation accepts is  *)
(* unrolled into what Carousel.tla and Vessel.tla assume of a program.     *)
(***************************************************************************)
EXTENDS Routing, TLAPS, WellFoundedInduction, FiniteSetTheorems, SequenceTheorems, FunctionTheorems

-----------------------------------------------------------------------------
(* Paths.                                                                  *)

\* A path that is not empty is the path before it and its last segment.
LEMMA PathFacts ==
  ASSUME NEW p \in Seq(Nat), p # <<>>
  PROVE  /\ Front(p) \in Seq(Nat) /\ Last(p) \in Nat
         /\ Len(p) \in Nat \ {0} /\ Len(Front(p)) = Len(p) - 1
         /\ \A i \in 1..(Len(p) - 1) : Front(p)[i] = p[i]
         /\ p = Append(Front(p), Last(p))
<1> DEFINE n == Len(p) - 1
<1>1. n \in Nat /\ Len(p) = n + 1 /\ \A i \in 1..(n + 1) : p[i] \in Nat
  BY EmptySeq, LenProperties
<1>2. /\ SubSeq(p, 1, n) \in Seq(Nat) /\ Len(SubSeq(p, 1, n)) = n
      /\ \A i \in 1..n : SubSeq(p, 1, n)[i] = p[i]
  <2>1. \A i \in 1..n : p[i] \in Nat
    BY <1>1
  <2>2. /\ SubSeq(p, 1, n) \in Seq(Nat)
        /\ Len(SubSeq(p, 1, n)) = IF 1 <= n THEN n - 1 + 1 ELSE 0
        /\ \A i \in 1..(n - 1 + 1) : SubSeq(p, 1, n)[i] = p[1 + i - 1]
    BY <1>1, <2>1, SubSeqProperties
  <2>3. QED
    BY <1>1, <2>2
<1>3. Front(p) = SubSeq(p, 1, n) /\ Last(p) = p[n + 1]
  BY <1>1 DEF Front, Last
<1>4. Front(p) \in Seq(Nat) /\ Last(p) \in Nat
  BY <1>1, <1>2, <1>3
<1>5. p = Append(Front(p), Last(p))
  <2> DEFINE a == Append(Front(p), Last(p))
  <2>1. /\ a \in Seq(Nat) /\ Len(a) = n + 1
        /\ \A i \in 1..n : a[i] = Front(p)[i]
        /\ a[n + 1] = p[n + 1]
    BY <1>2, <1>3, <1>4, AppendProperties
  <2> HIDE DEF a, n
  <2>2. \A i \in 1..(n + 1) : p[i] = a[i]
    BY <1>1, <1>2, <1>3, <2>1
  <2>3. p = a
    BY <1>1, <2>1, <2>2, SeqEqual
  <2>4. QED
    BY <2>3 DEF a
<1> HIDE DEF n
<1>6. n = Len(p) - 1
  BY DEF n
<1>7. QED
  BY <1>1, <1>2, <1>3, <1>4, <1>5, <1>6

\* A path and a segment make a path.
LEMMA AppendFacts ==
  ASSUME NEW p \in Seq(Nat), NEW s \in Nat
  PROVE  /\ Append(p, s) \in Seq(Nat) /\ Append(p, s) # <<>>
         /\ Len(Append(p, s)) = Len(p) + 1
         /\ Front(Append(p, s)) = p /\ Last(Append(p, s)) = s
<1> DEFINE a == Append(p, s)
<1>1. /\ a \in Seq(Nat) /\ Len(a) = Len(p) + 1 /\ a # <<>> /\ Len(p) \in Nat
      /\ a[Len(p) + 1] = s /\ \A i \in 1..Len(p) : a[i] = p[i]
  BY AppendProperties, LenProperties
<1> HIDE DEF a
<1>2. /\ Front(a) \in Seq(Nat) /\ Last(a) \in Nat /\ a = Append(Front(a), Last(a))
  BY <1>1, PathFacts
<1>3. Front(a) = p /\ Last(a) = s
  BY <1>2, AppendInjective DEF a
<1>4. QED
  BY <1>1, <1>3 DEF a

\* A set of paths has a shortest one.
LEMMA ShortestPath ==
  ASSUME NEW S, S \subseteq Seq(Nat), S # {}
  PROVE  \E p \in S : \A q \in S : Len(p) <= Len(q)
<1> DEFINE R == {ss \in Nat \X Nat : ss[1] < ss[2]}
           L == {Len(p) : p \in S}
<1>1. PICK n \in L : \A m \in L : <<m, n>> \notin R
  <2>1. IsWellFoundedOn(R, Nat)
    BY NatLessThanWellFounded DEF OpToRel
  <2>2. L \subseteq Nat /\ L # {}
    <3>1. \A q \in Seq(Nat) : Len(q) \in Nat
      BY LenProperties
    <3>2. QED
      BY <3>1
  <2> HIDE DEF R, L
  <2>3. QED
    BY <2>1, <2>2, WFMin
<1>2. PICK p \in S : n = Len(p)
  OBVIOUS
<1>3. ASSUME NEW q \in S PROVE Len(p) <= Len(q)
  <2>1. <<Len(q), Len(p)>> \notin R
    BY <1>1, <1>2
  <2>2. Len(q) \in Nat /\ Len(p) \in Nat
    BY LenProperties
  <2>3. QED
    BY <2>1, <2>2
<1>4. QED
  BY <1>3

\* What a tree says of the path before a path of it.
LEMMA TreeFacts ==
  ASSUME NEW T, IsTree(T), NEW p \in DOMAIN T
  PROVE  /\ p \in Seq(Nat) /\ T[p] \in Expression
         /\ p # <<>> =>
              /\ Front(p) \in DOMAIN T /\ Front(p) \in Seq(Nat) /\ Front(p) # p
              /\ Last(p) \in Nat /\ p = Append(Front(p), Last(p))
              /\ T[Front(p)].op \in {"goal", "arrow"} => Last(p) = 0
              /\ T[Front(p)].op \in Composite => Last(p) \in 1..T[Front(p)].width
              /\ T[Front(p)].op \notin {"anchor", "function"}
<1>1. p \in Seq(Nat) /\ T[p] \in Expression
  BY DEF IsTree
<1>2. ASSUME p # <<>>
      PROVE  /\ Front(p) \in DOMAIN T /\ Last(p) \in Segments(T[Front(p)])
             /\ Front(p) \in Seq(Nat) /\ Front(p) # p
             /\ Last(p) \in Nat /\ p = Append(Front(p), Last(p))
  <2>1. Front(p) \in DOMAIN T /\ Last(p) \in Segments(T[Front(p)])
    BY <1>2 DEF IsTree
  <2>2. QED
    BY <1>1, <1>2, <2>1, PathFacts
<1>3. ASSUME p # <<>>, T[Front(p)].op \in {"anchor", "function"}
      PROVE  FALSE
  <2>1. T[Front(p)].width = 0
    BY <1>2, <1>3 DEF IsTree
  <2>2. Last(p) \in 1..0
    BY <1>2, <1>3, <2>1 DEF Segments
  <2>3. QED
    BY <2>2
<1>4. QED
  BY <1>1, <1>2, <1>3 DEF Segments, Composite

-----------------------------------------------------------------------------
(* What is offered and routed: the recursions have a solution.             *)

\* Fanning out stops after one level: the elements are bare Goals, and a
\* parallel composition is none.
LEMMA FanIsShallow ==
  ASSUME NEW T, IsTree(T), NEW p \in DOMAIN T, p # <<>>,
         T[Front(p)].op = "parallel", Front(p) # <<>>
  PROVE  ~(T[Front(Front(p))].op = "parallel" /\ AllBare(T, Front(Front(p))))
<1>1. SUFFICES ASSUME T[Front(Front(p))].op = "parallel", AllBare(T, Front(Front(p)))
               PROVE  FALSE
  OBVIOUS
<1>2. Front(p) \in DOMAIN T
  BY TreeFacts
<1>3. /\ Last(Front(p)) \in 1..T[Front(Front(p))].width
      /\ Front(p) = Append(Front(Front(p)), Last(Front(p)))
  BY <1>1, <1>2, TreeFacts DEF Composite
<1>4. QED
  BY <1>1, <1>3 DEF AllBare, IsBareGoal

\* The engine's in.
LEMMA OfferedRecursion ==
  ASSUME NEW T, IsTree(T)
  PROVE  Offered(T) = [p \in DOMAIN T |->
                         IF p = <<>> THEN NoOcc ELSE OfferedTo(T, p, Offered(T)[Front(p)])]
<1> DEFINE near(p) == IF p = <<>> THEN NoOcc ELSE OfferedTo(T, p, NoOcc)
           far == [p \in DOMAIN T |-> IF p = <<>> THEN NoOcc ELSE OfferedTo(T, p, near(Front(p)))]
<1>1. ASSUME NEW p \in DOMAIN T, p # <<>>
      PROVE  OfferedTo(T, p, near(Front(p))) = OfferedTo(T, p, far[Front(p)])
  <2>1. CASE T[Front(p)].op # "parallel"
    BY <2>1 DEF OfferedTo
  <2>2. CASE T[Front(p)].op = "parallel"
    <3>1. Front(p) \in DOMAIN T
      BY <1>1, TreeFacts
    <3>2. Front(p) # <<>> => ~(T[Front(Front(p))].op = "parallel" /\ AllBare(T, Front(Front(p))))
      BY <1>1, <2>2, FanIsShallow
    <3>3. far[Front(p)] = near(Front(p))
      BY <3>1, <3>2 DEF OfferedTo
    <3>4. QED
      BY <3>3
  <2>3. QED
    BY <2>1, <2>2
<1>2. far = [p \in DOMAIN T |-> IF p = <<>> THEN NoOcc ELSE OfferedTo(T, p, far[Front(p)])]
  <2> DEFINE rec == [p \in DOMAIN T |-> IF p = <<>> THEN NoOcc ELSE OfferedTo(T, p, far[Front(p)])]
  <2>1. \A p \in DOMAIN T : far[p] = rec[p]
    BY <1>1
  <2>2. far = [p \in DOMAIN T |-> far[p]]
    OBVIOUS
  <2> HIDE DEF far
  <2>3. QED
    BY <2>1, <2>2
<1> HIDE DEF far
<1>3. QED
  BY <1>2 DEF Offered

\* The checker's in.
LEMMA RoutedRecursion ==
  ASSUME NEW T, IsTree(T)
  PROVE  Routed(T) = [p \in DOMAIN T |->
                        IF p = <<>> THEN "none" ELSE RoutedTo(T, p, Routed(T)[Front(p)])]
<1> DEFINE near(p) == IF p = <<>> THEN "none" ELSE RoutedTo(T, p, "none")
           far == [p \in DOMAIN T |-> IF p = <<>> THEN "none" ELSE RoutedTo(T, p, near(Front(p)))]
<1>1. ASSUME NEW p \in DOMAIN T, p # <<>>
      PROVE  RoutedTo(T, p, near(Front(p))) = RoutedTo(T, p, far[Front(p)])
  <2>1. CASE T[Front(p)].op # "parallel"
    BY <2>1 DEF RoutedTo
  <2>2. CASE T[Front(p)].op = "parallel"
    <3>1. Front(p) \in DOMAIN T
      BY <1>1, TreeFacts
    <3>2. Front(p) # <<>> => ~(T[Front(Front(p))].op = "parallel" /\ AllBare(T, Front(Front(p))))
      BY <1>1, <2>2, FanIsShallow
    <3>3. far[Front(p)] = near(Front(p))
      BY <3>1, <3>2 DEF RoutedTo
    <3>4. QED
      BY <3>3
  <2>3. QED
    BY <2>1, <2>2
<1>2. far = [p \in DOMAIN T |-> IF p = <<>> THEN "none" ELSE RoutedTo(T, p, far[Front(p)])]
  <2> DEFINE rec == [p \in DOMAIN T |-> IF p = <<>> THEN "none" ELSE RoutedTo(T, p, far[Front(p)])]
  <2>1. \A p \in DOMAIN T : far[p] = rec[p]
    BY <1>1
  <2>2. far = [p \in DOMAIN T |-> far[p]]
    OBVIOUS
  <2> HIDE DEF far
  <2>3. QED
    BY <2>1, <2>2
<1> HIDE DEF far
<1>3. QED
  BY <1>2 DEF Routed

-----------------------------------------------------------------------------
(* Validation and the engine agree.                                        *)

\* What the engine offers comes from the element before this one, or from the
\* one before the parallel composition around it.
LEMMA OfferedFromBefore ==
  ASSUME NEW T, IsTree(T), NEW p \in DOMAIN T, Offered(T)[p] # NoOcc
  PROVE  /\ p # <<>>
         /\ \/ Offered(T)[p] \in DepsOf(T, p)
            \/ T[Front(p)].op = "parallel" /\ Offered(T)[p] \in DepsOf(T, Front(p))
<1>1. p # <<>> /\ Front(p) \in DOMAIN T /\ Offered(T)[p] = OfferedTo(T, p, Offered(T)[Front(p)])
  <2>1. Offered(T)[p] = IF p = <<>> THEN NoOcc ELSE OfferedTo(T, p, Offered(T)[Front(p)])
    BY OfferedRecursion
  <2>2. p # <<>>
    BY <2>1
  <2>3. QED
    BY <2>1, <2>2, TreeFacts
<1>2. ASSUME NEW q \in DOMAIN T, q # <<>>, T[Front(q)].op = "serial",
             OfferedTo(T, q, Offered(T)[Front(q)]) # NoOcc
      PROVE  OfferedTo(T, q, Offered(T)[Front(q)]) \in DepsOf(T, q)
  <2>1. Last(q) \in 1..T[Front(q)].width /\ T[Front(q)].width \in Nat
    <3>1. Front(q) \in DOMAIN T /\ Last(q) \in 1..T[Front(q)].width
      BY <1>2, TreeFacts DEF Composite
    <3>2. QED
      BY <3>1, TreeFacts DEF Expression
  <2>2. Last(q) # 1 /\ OfferedTo(T, q, Offered(T)[Front(q)]) = Predecessor(q)
    BY <1>2 DEF OfferedTo
  <2>3. Last(q) > 1
    BY <2>1, <2>2
  <2>4. QED
    BY <1>2, <2>2, <2>3 DEF DepsOf
<1>3. CASE T[Front(p)].op = "serial"
  BY <1>1, <1>2, <1>3
<1>4. CASE T[Front(p)].op = "parallel"
  <2>1. Offered(T)[p] = Offered(T)[Front(p)]
    BY <1>1, <1>4 DEF OfferedTo
  <2>2. /\ Front(p) # <<>> /\ Front(Front(p)) \in DOMAIN T
        /\ Offered(T)[Front(p)] = OfferedTo(T, Front(p), Offered(T)[Front(Front(p))])
    <3>1. Front(p) # <<>>
      BY <1>4 DEF IsTree
    <3>2. QED
      BY <1>1, <3>1, OfferedRecursion, TreeFacts
  <2>3. T[Front(Front(p))].op = "serial"
    BY <1>1, <1>4, <2>1, <2>2, FanIsShallow DEF OfferedTo
  <2>4. QED
    BY <1>1, <1>2, <1>4, <2>1, <2>2, <2>3
<1>5. QED
  BY <1>1, <1>3, <1>4 DEF OfferedTo

\* The checker's in says that something is routed exactly where the engine
\* offers something: in a program it accepts, NoOutput is not fanned out.
LEMMA RoutedWhereOffered ==
  ASSUME NEW T, IsTree(T), Accepted(T), NEW p \in DOMAIN T, NoOcc \notin Seq(Nat)
  PROVE  /\ Routed(T)[p] \in {"none", "value", "NoOutput"}
         /\ Routed(T)[p] = "none" <=> Offered(T)[p] = NoOcc
<1> DEFINE Agree(q) == /\ Routed(T)[q] \in {"none", "value", "NoOutput"}
                       /\ Routed(T)[q] = "none" <=> Offered(T)[q] = NoOcc
<1>1. ASSUME NEW q \in DOMAIN T, q # <<>>
      PROVE  /\ Routed(T)[q] = RoutedTo(T, q, Routed(T)[Front(q)])
             /\ Offered(T)[q] = OfferedTo(T, q, Offered(T)[Front(q)])
             /\ Front(q) \in DOMAIN T
  <2>1. Routed(T)[q] = IF q = <<>> THEN "none" ELSE RoutedTo(T, q, Routed(T)[Front(q)])
    BY RoutedRecursion
  <2>2. Offered(T)[q] = IF q = <<>> THEN NoOcc ELSE OfferedTo(T, q, Offered(T)[Front(q)])
    BY OfferedRecursion
  <2>3. QED
    BY <1>1, <2>1, <2>2, TreeFacts
<1>2. ASSUME NEW q \in DOMAIN T, q = <<>> PROVE Agree(q)
  <2>1. Routed(T)[q] = "none"
    BY <1>2, RoutedRecursion
  <2>2. Offered(T)[q] = NoOcc
    BY <1>2, OfferedRecursion
  <2>3. QED
    BY <2>1, <2>2
<1>3. ASSUME NEW q \in DOMAIN T, q # <<>>, T[Front(q)].op = "serial" PROVE Agree(q)
  <2>1. Last(q) \in 1..T[Front(q)].width /\ T[Front(q)].width \in Nat
    <3>1. Front(q) \in DOMAIN T /\ Last(q) \in 1..T[Front(q)].width
      BY <1>3, TreeFacts DEF Composite
    <3>2. QED
      BY <3>1, TreeFacts DEF Expression
  <2>2. Last(q) > 1 => Predecessor(q) # NoOcc
    <3>1. ASSUME Last(q) > 1 PROVE Predecessor(q) \in Seq(Nat)
      <4>1. Front(q) \in Seq(Nat) /\ Last(q) - 1 \in Nat
        BY <1>3, <2>1, <3>1, TreeFacts
      <4>2. QED
        BY <4>1, AppendFacts DEF Predecessor
    <3>2. QED
      BY <3>1
  <2>3. CASE Last(q) = 1
    BY <1>1, <1>3, <2>3 DEF RoutedTo, OfferedTo
  <2>4. CASE Last(q) > 1
    BY <1>1, <1>3, <2>2, <2>4 DEF RoutedTo, OfferedTo
  <2>5. QED
    BY <2>1, <2>3, <2>4
<1>4. ASSUME NEW q \in DOMAIN T, q # <<>>, T[Front(q)].op \notin {"serial", "parallel"} PROVE Agree(q)
  BY <1>1, <1>4 DEF RoutedTo, OfferedTo
<1>5. ASSUME NEW q \in DOMAIN T, q # <<>>, T[Front(q)].op = "parallel", Agree(Front(q)) PROVE Agree(q)
  <2>1. Front(q) \in DOMAIN T /\ Last(q) \in 1..T[Front(q)].width
    BY <1>5, TreeFacts DEF Composite
  <2>2. AllBare(T, Front(q)) => Routed(T)[Front(q)] # "NoOutput"
    <3>1. ParallelOK(T, Front(q))
      BY <2>1 DEF Accepted
    <3>2. QED
      BY <1>5, <2>1, <3>1 DEF ParallelOK, AllBare
  <2>3. QED
    BY <1>1, <1>5, <2>2 DEF RoutedTo, OfferedTo
<1>6. ASSUME NEW q \in DOMAIN T, q # <<>> => ~(T[Front(q)].op = "parallel" /\ AllBare(T, Front(q)))
      PROVE  Agree(q)
  <2>1. CASE q = <<>>
    BY <1>2, <2>1
  <2>2. CASE q # <<>> /\ T[Front(q)].op = "serial"
    BY <1>3, <2>2
  <2>3. CASE q # <<>> /\ T[Front(q)].op # "serial"
    BY <1>1, <1>6, <2>3 DEF RoutedTo, OfferedTo
  <2>4. QED
    BY <2>1, <2>2, <2>3
<1>7. CASE p # <<>> /\ T[Front(p)].op = "parallel"
  <2>1. Front(p) \in DOMAIN T
    BY <1>1, <1>7
  <2>2. Front(p) # <<>> => ~(T[Front(Front(p))].op = "parallel" /\ AllBare(T, Front(Front(p))))
    BY <1>7, FanIsShallow
  <2>3. Agree(Front(p))
    BY <1>6, <2>1, <2>2
  <2>4. QED
    BY <1>5, <1>7, <2>3
<1>8. QED
  BY <1>6, <1>7

\* The arity under which a bare Goal of an accepted program was looked up is
\* that of the input it gets, and an arrow with a parameter gets one.
LEMMA InputAgrees ==
  ASSUME NEW T, IsTree(T), Accepted(T), NEW p \in DOMAIN T, NoOcc \notin Seq(Nat)
  PROVE  /\ IsBareGoal(T[p]) => ArityOf(T, p) = IF InputOf(T, p) = NoOcc THEN 0 ELSE 1
         /\ T[p].op = "arrow" /\ IsStage(T, p) /\ T[p].arity = 1 => InputOf(T, p) # NoOcc
<1>1. BareGoalOK(T, p) /\ ArrowOK(T, p)
  BY DEF Accepted
<1>2. QED
  BY <1>1, RoutedWhereOffered DEF BareGoalOK, ArrowOK, ArityOf, InputOf

-----------------------------------------------------------------------------
(* What a deduction stages, and in which order.                            *)

\* Registration order is a strict total order on paths.
LEMMA BeforeIsTransitive ==
  ASSUME NEW p \in Seq(Nat), NEW q \in Seq(Nat), NEW r \in Seq(Nat), Before(p, q), Before(q, r)
  PROVE  Before(p, r)
<1>1. /\ Len(p) \in Nat /\ Len(q) \in Nat /\ Len(r) \in Nat
      /\ DOMAIN p = 1..Len(p) /\ DOMAIN q = 1..Len(q) /\ DOMAIN r = 1..Len(r)
      /\ \A i \in 1..Len(p) : p[i] \in Nat
      /\ \A i \in 1..Len(q) : q[i] \in Nat
      /\ \A i \in 1..Len(r) : r[i] \in Nat
  BY LenProperties
<1>2. PICK k \in 1..Len(q) : /\ k <= Len(p) + 1 /\ \A i \in 1..(k - 1) : p[i] = q[i]
                             /\ k > Len(p) \/ p[k] < q[k]
  BY <1>1 DEF Before
<1>3. PICK j \in 1..Len(r) : /\ j <= Len(q) + 1 /\ \A i \in 1..(j - 1) : q[i] = r[i]
                             /\ j > Len(q) \/ q[j] < r[j]
  BY <1>1 DEF Before
<1>4. CASE k < j
  <2>0. j \in Nat \ {0} /\ k \in Nat \ {0} /\ k \in 1..(j - 1)
    BY <1>1, <1>4
  <2>1. k \in DOMAIN r /\ \A i \in 1..(k - 1) : p[i] = r[i]
    <3>1. k \in DOMAIN r
      BY <1>1, <1>4
    <3>2. ASSUME NEW i \in 1..(k - 1) PROVE p[i] = r[i]
      <4>1. i \in 1..(j - 1)
        BY <1>4, <2>0
      <4>2. p[i] = q[i] /\ q[i] = r[i]
        BY <1>2, <1>3, <4>1
      <4>3. QED
        BY <4>2
    <3>3. QED
      BY <3>1, <3>2
  <2>2. k > Len(p) \/ p[k] < r[k]
    BY <1>2, <1>3, <2>0
  <2>3. QED
    BY <1>2, <2>1, <2>2 DEF Before
<1>5. CASE j <= k
  <2>0. j \in Nat \ {0} /\ k \in Nat \ {0} /\ k <= Len(q)
    BY <1>1
  <2>1. j <= Len(p) + 1 /\ \A i \in 1..(j - 1) : p[i] = r[i]
    <3>1. j <= Len(p) + 1
      BY <1>1, <1>2, <1>5, <2>0
    <3>2. ASSUME NEW i \in 1..(j - 1) PROVE p[i] = r[i]
      <4>1. i \in 1..(k - 1)
        BY <1>5, <2>0
      <4>2. p[i] = q[i] /\ q[i] = r[i]
        BY <1>2, <1>3, <4>1
      <4>3. QED
        BY <4>2
    <3>3. QED
      BY <3>1, <3>2
  <2>2. q[j] < r[j] /\ j \in 1..Len(q)
    <3>1. j \in 1..Len(q) /\ ~(j > Len(q))
      BY <1>1, <1>5, <2>0
    <3>2. QED
      BY <1>3, <3>1
  <2>3. CASE j > Len(p)
    <3>1. j \in DOMAIN r
      BY <1>1
    <3>2. QED
      BY <2>1, <2>3, <3>1 DEF Before
  <2>4. CASE j <= Len(p)
    <3>1. p[j] <= q[j] /\ p[j] \in Nat /\ q[j] \in Nat /\ r[j] \in Nat
      <4>1. j \in 1..Len(p) /\ j \in 1..Len(r)
        BY <1>1, <2>4
      <4>2. p[j] \in Nat /\ q[j] \in Nat /\ r[j] \in Nat
        BY <1>1, <2>2, <4>1
      <4>3. CASE j = k
        <5>1. ~(k > Len(p))
          BY <1>1, <2>4, <4>3
        <5>2. p[k] < q[k]
          BY <1>2, <5>1
        <5>3. QED
          BY <4>2, <4>3, <5>2
      <4>4. CASE j # k
        <5>1. j \in 1..(k - 1)
          BY <1>1, <1>5, <4>4
        <5>2. p[j] = q[j]
          BY <1>2, <5>1
        <5>3. QED
          BY <4>2, <5>2
      <4>5. QED
        BY <4>3, <4>4
    <3>2. p[j] < r[j]
      <4>1. q[j] < r[j]
        BY <2>2
      <4>2. QED
        BY <3>1, <4>1
    <3>3. j \in DOMAIN r
      BY <1>1
    <3>4. QED
      BY <2>1, <3>2, <3>3 DEF Before
  <2>5. QED
    BY <1>1, <2>0, <2>3, <2>4
<1>6. QED
  BY <1>1, <1>4, <1>5

\* No path comes before itself.
LEMMA BeforeIsStrict ==
  ASSUME NEW p \in Seq(Nat)
  PROVE  ~Before(p, p)
<1>1. Len(p) \in Nat /\ DOMAIN p = 1..Len(p) /\ \A i \in 1..Len(p) : p[i] \in Nat
  BY LenProperties
<1>2. SUFFICES ASSUME NEW k \in 1..Len(p), k > Len(p) \/ p[k] < p[k]
               PROVE  FALSE
  BY <1>1 DEF Before
<1>3. QED
  BY <1>1, <1>2

\* Of two paths one comes first.
LEMMA BeforeIsTotal ==
  ASSUME NEW p \in Seq(Nat), NEW q \in Seq(Nat), p # q
  PROVE  Before(p, q) \/ Before(q, p)
<1> DEFINE D == {k \in Nat \ {0} : k > Len(p) \/ k > Len(q) \/ p[k] # q[k]}
           R == {ss \in Nat \X Nat : ss[1] < ss[2]}
<1>1. /\ Len(p) \in Nat /\ Len(q) \in Nat
      /\ DOMAIN p = 1..Len(p) /\ DOMAIN q = 1..Len(q)
      /\ \A i \in 1..Len(p) : p[i] \in Nat
      /\ \A i \in 1..Len(q) : q[i] \in Nat
  BY LenProperties
<1>2. PICK k \in D : \A j \in D : <<j, k>> \notin R
  <2>1. IsWellFoundedOn(R, Nat)
    BY NatLessThanWellFounded DEF OpToRel
  <2>2. D \subseteq Nat /\ Len(p) + 1 \in D
    BY <1>1
  <2> HIDE DEF R, D
  <2>3. QED
    BY <2>1, <2>2, WFMin
<1>3. /\ k \in Nat \ {0} /\ (k > Len(p) \/ k > Len(q) \/ p[k] # q[k])
      /\ \A i \in 1..(k - 1) : i <= Len(p) /\ i <= Len(q) /\ p[i] = q[i]
  <2>1. k \in Nat \ {0} /\ (k > Len(p) \/ k > Len(q) \/ p[k] # q[k])
    OBVIOUS
  <2>2. ASSUME NEW i \in 1..(k - 1) PROVE i \notin D
    <3>1. i \in Nat /\ i < k
      BY <2>1
    <3>2. QED
      BY <1>2, <2>1, <3>1
  <2>3. QED
    BY <1>1, <2>1, <2>2
<1> HIDE DEF D, R
<1>4. k <= Len(p) + 1 /\ k <= Len(q) + 1
  <2>1. CASE k = 1
    BY <1>1, <2>1
  <2>2. CASE k # 1
    <3>1. k - 1 \in 1..(k - 1)
      BY <1>3, <2>2
    <3>2. k - 1 <= Len(p) /\ k - 1 <= Len(q)
      BY <1>3, <3>1
    <3>3. QED
      BY <1>1, <1>3, <3>2
  <2>3. QED
    BY <2>1, <2>2
<1>5. CASE k > Len(p) /\ k > Len(q)
  <2>1. Len(p) = k - 1 /\ Len(q) = k - 1
    BY <1>1, <1>3, <1>4, <1>5
  <2>2. p = q
    BY <1>3, <2>1, SeqEqual
  <2>3. QED
    BY <2>2
<1>6. CASE k > Len(p) /\ k <= Len(q)
  <2>1. k \in DOMAIN q /\ \A i \in 1..(k - 1) : p[i] = q[i]
    BY <1>1, <1>3, <1>6
  <2>2. QED
    BY <1>4, <1>6, <2>1 DEF Before
<1>7. CASE k <= Len(p) /\ k > Len(q)
  <2>1. k \in DOMAIN p /\ \A i \in 1..(k - 1) : q[i] = p[i]
    BY <1>1, <1>3, <1>7
  <2>2. QED
    BY <1>4, <1>7, <2>1 DEF Before
<1>8. CASE k <= Len(p) /\ k <= Len(q)
  <2>1. p[k] # q[k] /\ p[k] \in Nat /\ q[k] \in Nat
    BY <1>1, <1>3, <1>8
  <2>2. k \in DOMAIN p /\ k \in DOMAIN q /\ \A i \in 1..(k - 1) : q[i] = p[i] /\ p[i] = q[i]
    BY <1>1, <1>3, <1>8
  <2>3. CASE p[k] < q[k]
    BY <1>4, <2>2, <2>3 DEF Before
  <2>4. CASE q[k] < p[k]
    BY <1>4, <2>2, <2>4 DEF Before
  <2>5. QED
    BY <2>1, <2>3, <2>4
<1>9. QED
  BY <1>1, <1>3, <1>5, <1>6, <1>7, <1>8

\* Counting what comes before numbers a finite set of paths without gaps.
LEMMA RanksAreNumbers ==
  ASSUME NEW S, S \subseteq Seq(Nat), IsFiniteSet(S)
  PROVE  LET rank(q) == Cardinality({p \in S : Before(p, q)})
         IN  /\ Cardinality(S) \in Nat
             /\ \A q \in S : rank(q) \in 0..(Cardinality(S) - 1)
             /\ \A p, q \in S : rank(p) = rank(q) => p = q
             /\ \A n \in 0..(Cardinality(S) - 1) : \E q \in S : rank(q) = n
<1> DEFINE ahead(q) == {p \in S : Before(p, q)}
           rank(q) == Cardinality(ahead(q))
           size == Cardinality(S)
<1>1. size \in Nat
  BY FS_CardinalityType
<1>2. ASSUME NEW q \in S
      PROVE  /\ ahead(q) \in SUBSET S /\ q \notin ahead(q) /\ IsFiniteSet(ahead(q))
             /\ rank(q) \in Nat /\ rank(q) \in 0..(size - 1)
  <2>1. ahead(q) \in SUBSET S /\ q \notin ahead(q)
    BY BeforeIsStrict
  <2>2. /\ IsFiniteSet(ahead(q)) /\ Cardinality(ahead(q)) <= Cardinality(S)
        /\ Cardinality(S) = Cardinality(ahead(q)) => S = ahead(q)
    <3> HIDE DEF ahead
    <3>1. QED
      BY <2>1, FS_Subset
  <2>3. rank(q) \in Nat
    BY <2>2, FS_CardinalityType
  <2>4. QED
    BY <1>1, <2>1, <2>2, <2>3
<1>3. ASSUME NEW p \in S, NEW q \in S, Before(p, q)
      PROVE  rank(p) < rank(q)
  <2>1. ahead(p) \in SUBSET ahead(q)
    BY <1>3, BeforeIsTransitive
  <2>2. p \in ahead(q) /\ p \notin ahead(p)
    BY <1>2, <1>3
  <2>3. /\ Cardinality(ahead(p)) <= Cardinality(ahead(q))
        /\ Cardinality(ahead(q)) = Cardinality(ahead(p)) => ahead(q) = ahead(p)
    <3>1. IsFiniteSet(ahead(q))
      BY <1>2
    <3> HIDE DEF ahead
    <3>2. QED
      BY <2>1, <3>1, FS_Subset
  <2>4. rank(p) \in Nat /\ rank(q) \in Nat
    BY <1>2
  <2>5. QED
    BY <2>2, <2>3, <2>4
<1>4. ASSUME NEW p \in S, NEW q \in S, rank(p) = rank(q)
      PROVE  p = q
  <2>1. rank(p) \in Nat /\ rank(q) \in Nat
    BY <1>2
  <2> HIDE DEF rank
  <2>2. QED
    BY <1>3, <1>4, <2>1, BeforeIsTotal
<1>5. \A n \in 0..(size - 1) : \E q \in S : rank(q) = n
  <2> DEFINE f == [q \in S |-> rank(q)]
  <2>1. IsFiniteSet(0..(size - 1)) /\ Cardinality(0..(size - 1)) = size
    <3> HIDE DEF size
    <3>1. PICK b \in Int : b = size - 1
      BY <1>1
    <3>2. IsFiniteSet(0..b) /\ Cardinality(0..b) = IF 0 > b THEN 0 ELSE b - 0 + 1
      BY FS_Interval
    <3>3. Cardinality(0..b) = size
      BY <1>1, <3>1, <3>2
    <3>4. QED
      BY <3>1, <3>2, <3>3
  <2>2. f \in Injection(S, 0..(size - 1))
    <3>1. f \in [S -> 0..(size - 1)]
      BY <1>2
    <3>2. ASSUME NEW p \in S, NEW q \in S, f[p] = f[q] PROVE p = q
      <4>1. f[p] = rank(p) /\ f[q] = rank(q)
        BY DEF f
      <4> HIDE DEF f, rank
      <4>2. QED
        BY <1>4, <3>2, <4>1
    <3> HIDE DEF f
    <3>3. QED
      BY <3>1, <3>2 DEF Injection, IsInjective
  <2>3. f \in Surjection(S, 0..(size - 1))
    <3> HIDE DEF f
    <3>1. QED
      BY <2>1, <2>2, FS_Injection
  <2>4. \A n \in 0..(size - 1) : \E q \in S : f[q] = n
    <3> HIDE DEF f
    <3>1. QED
      BY <2>3 DEF Surjection
  <2>5. QED
    BY <2>4
<1>6. QED
  BY <1>1, <1>2, <1>4, <1>5

\* A deduction registers exactly what it expands, each occurrence once.
LEMMA StagedIsExpanded ==
  ASSUME NEW T, IsTree(T), NEW o \in DOMAIN T
  PROVE  /\ StagedBy(T, o) \in Seq(DOMAIN T)
         /\ {StagedBy(T, o)[n] : n \in DOMAIN StagedBy(T, o)} = ExpandedBy(T, o)
         /\ \A i, j \in DOMAIN StagedBy(T, o) : StagedBy(T, o)[i] = StagedBy(T, o)[j] => i = j
<1> DEFINE S == ExpandedBy(T, o)
           rank(q) == Cardinality({p \in S : Before(p, q)})
           st == [n \in 1..Cardinality(S) |-> CHOOSE q \in S : rank(q) = n - 1]
<1>1. S \in SUBSET DOMAIN T /\ S \subseteq Seq(Nat) /\ IsFiniteSet(S)
  <2>1. S \in SUBSET DOMAIN T
    BY DEF ExpandedBy
  <2>2. DOMAIN T \subseteq Seq(Nat) /\ IsFiniteSet(DOMAIN T)
    BY DEF IsTree
  <2> HIDE DEF S
  <2>3. QED
    BY <2>1, <2>2, FS_Subset
<1>2. StagedBy(T, o) = st
  BY DEF StagedBy
<1> HIDE DEF S
<1>3. /\ Cardinality(S) \in Nat
      /\ \A q \in S : rank(q) \in 0..(Cardinality(S) - 1)
      /\ \A p, q \in S : rank(p) = rank(q) => p = q
      /\ \A n \in 0..(Cardinality(S) - 1) : \E q \in S : rank(q) = n
  BY <1>1, RanksAreNumbers
<1> HIDE DEF rank
<1>4. ASSUME NEW n \in 1..Cardinality(S)
      PROVE  st[n] \in S /\ rank(st[n]) = n - 1
  <2>1. n - 1 \in 0..(Cardinality(S) - 1)
    BY <1>3
  <2>2. \E q \in S : rank(q) = n - 1
    BY <1>3, <2>1
  <2>3. QED
    BY <2>2
<1>5. DOMAIN st = 1..Cardinality(S)
  OBVIOUS
<1>6. st \in Seq(DOMAIN T)
  <2>1. st \in [1..Cardinality(S) -> DOMAIN T]
    BY <1>1, <1>4
  <2> HIDE DEF st
  <2>2. QED
    BY <1>3, <2>1, SeqDef
<1>7. ASSUME NEW q \in S PROVE \E n \in 1..Cardinality(S) : st[n] = q
  <2>1. rank(q) + 1 \in 1..Cardinality(S) /\ (rank(q) + 1) - 1 = rank(q)
    BY <1>3
  <2>2. rank(st[rank(q) + 1]) = rank(q) /\ st[rank(q) + 1] \in S
    BY <1>4, <2>1
  <2> HIDE DEF st
  <2>3. st[rank(q) + 1] = q
    BY <1>3, <2>2
  <2>4. QED
    BY <2>1, <2>3
<1> HIDE DEF st
<1>8. \A i, j \in 1..Cardinality(S) : st[i] = st[j] => i = j
  <2> SUFFICES ASSUME NEW i \in 1..Cardinality(S), NEW j \in 1..Cardinality(S), st[i] = st[j]
               PROVE  i = j
    OBVIOUS
  <2>1. i - 1 = j - 1
    BY <1>4
  <2>2. QED
    BY <1>3, <2>1
<1>9. {st[n] : n \in DOMAIN st} = S
  BY <1>4, <1>5, <1>7
<1>10. QED
  BY <1>2, <1>5, <1>6, <1>8, <1>9 DEF S

\* The beginnings of a path are those of the path before it, and that path.
LEMMA Beginnings ==
  ASSUME NEW q \in Seq(Nat), q # <<>>
  PROVE  /\ SubSeq(q, 1, Len(q) - 1) = Front(q)
         /\ \A k \in 0..(Len(q) - 1) : SubSeq(Front(q), 1, k) = SubSeq(q, 1, k)
<1>1. /\ Len(q) \in Nat \ {0} /\ Front(q) \in Seq(Nat) /\ Len(Front(q)) = Len(q) - 1
      /\ \A i \in 1..(Len(q) - 1) : Front(q)[i] = q[i]
      /\ \A i \in 1..Len(q) : q[i] \in Nat
  BY PathFacts, LenProperties
<1>2. ASSUME NEW k \in 0..(Len(q) - 1)
      PROVE  SubSeq(Front(q), 1, k) = SubSeq(q, 1, k)
  <2> DEFINE a == SubSeq(Front(q), 1, k)
             b == SubSeq(q, 1, k)
  <2>0. k \in Nat /\ k <= Len(q) - 1
    BY <1>1
  <2>1. k \in Nat /\ \A i \in 1..k : q[i] \in Nat /\ Front(q)[i] \in Nat /\ Front(q)[i] = q[i]
    <3>1. ASSUME NEW i \in 1..k PROVE i \in 1..(Len(q) - 1) /\ i \in 1..Len(q)
      BY <1>1, <2>0
    <3>2. QED
      BY <1>1, <2>0, <3>1
  <2>2. a \in Seq(Nat) /\ Len(a) = k /\ \A i \in 1..k : a[i] = q[i]
    <3>1. /\ a \in Seq(Nat) /\ Len(a) = IF 1 <= k THEN k - 1 + 1 ELSE 0
          /\ \A i \in 1..(k - 1 + 1) : a[i] = Front(q)[1 + i - 1]
      BY <2>1, SubSeqProperties
    <3>2. QED
      BY <2>1, <3>1
  <2>3. b \in Seq(Nat) /\ Len(b) = k /\ \A i \in 1..k : b[i] = q[i]
    <3>1. /\ b \in Seq(Nat) /\ Len(b) = IF 1 <= k THEN k - 1 + 1 ELSE 0
          /\ \A i \in 1..(k - 1 + 1) : b[i] = q[1 + i - 1]
      BY <2>1, SubSeqProperties
    <3>2. QED
      BY <2>1, <3>1
  <2> HIDE DEF a, b
  <2>4. a = b
    BY <2>2, <2>3, SeqEqual
  <2>5. QED
    BY <2>4 DEF a, b
<1>3. QED
  BY <1>2 DEF Front

\* A strict prefix is shorter, and what the longer path begins with.
LEMMA StrictPrefixes ==
  ASSUME NEW o \in Seq(Nat), NEW q \in Seq(Nat)
  PROVE  IsStrictPrefix(o, q) <=> Len(o) < Len(q) /\ SubSeq(q, 1, Len(o)) = o
<1>1. SubSeq(o, 1, Len(o)) = o /\ SubSeq(q, 1, Len(q)) = q
  BY SubSeqFull
<1>2. Len(o) \in Nat /\ Len(q) \in Nat
  BY LenProperties
<1>3. IsStrictPrefix(o, q) <=> o # q /\ Len(o) <= Len(q) /\ SubSeq(o, 1, Len(o)) = SubSeq(q, 1, Len(o))
  BY DEF IsStrictPrefix, IsPrefix
<1>4. ASSUME Len(o) = Len(q), SubSeq(q, 1, Len(o)) = o PROVE o = q
  BY <1>1, <1>4
<1>5. Len(o) < Len(q) <=> Len(o) <= Len(q) /\ Len(o) # Len(q)
  BY <1>2
<1>6. o = q => Len(o) = Len(q)
  OBVIOUS
<1>7. QED
  BY <1>1, <1>3, <1>4, <1>5, <1>6

\* What is strictly under o is what is directly under o and what is strictly
\* under something that is.
LEMMA PrefixByParent ==
  ASSUME NEW o \in Seq(Nat), NEW q \in Seq(Nat)
  PROVE  IsStrictPrefix(o, q) <=> q # <<>> /\ (Front(q) = o \/ IsStrictPrefix(o, Front(q)))
<1>1. Len(o) \in Nat /\ Len(q) \in Nat /\ Len(<<>>) = 0
  BY LenProperties
<1>2. CASE q = <<>>
  <2>1. ~(Len(o) < Len(q))
    BY <1>1, <1>2
  <2>2. ~IsStrictPrefix(o, q)
    BY <2>1, StrictPrefixes
  <2>3. QED
    BY <1>2, <2>2
<1>3. CASE q # <<>>
  <2>1. /\ Front(q) \in Seq(Nat) /\ Len(Front(q)) = Len(q) - 1
        /\ SubSeq(q, 1, Len(q) - 1) = Front(q)
        /\ \A k \in 0..(Len(q) - 1) : SubSeq(Front(q), 1, k) = SubSeq(q, 1, k)
    BY <1>3, PathFacts, Beginnings
  <2>2. SubSeq(Front(q), 1, Len(Front(q))) = Front(q)
    BY <2>1, SubSeqFull
  <2>3. ASSUME IsStrictPrefix(o, q), Front(q) # o PROVE IsStrictPrefix(o, Front(q))
    <3>1. Len(o) < Len(q) /\ SubSeq(q, 1, Len(o)) = o
      BY <2>3, StrictPrefixes
    <3>2. Len(o) # Len(q) - 1
      BY <2>1, <2>3, <3>1
    <3>3. Len(o) \in 0..(Len(q) - 1) /\ Len(o) < Len(Front(q))
      <4>1. Len(o) < Len(q) - 1
        BY <1>1, <3>1, <3>2
      <4>2. Len(Front(q)) = Len(q) - 1
        BY <2>1
      <4>3. QED
        BY <1>1, <4>1, <4>2
    <3>4. SubSeq(Front(q), 1, Len(o)) = o
      BY <2>1, <3>1, <3>3
    <3>5. QED
      BY <2>1, <3>3, <3>4, StrictPrefixes
  <2>4. ASSUME Front(q) = o PROVE IsStrictPrefix(o, q)
    <3>1. Len(o) = Len(q) - 1 /\ Len(o) < Len(q)
      BY <1>1, <2>1, <2>4
    <3>2. QED
      BY <2>1, <2>4, <3>1, StrictPrefixes
  <2>5. ASSUME IsStrictPrefix(o, Front(q)) PROVE IsStrictPrefix(o, q)
    <3>1. Len(o) < Len(Front(q)) /\ SubSeq(Front(q), 1, Len(o)) = o
      BY <2>1, <2>5, StrictPrefixes
    <3>2. Len(o) \in 0..(Len(q) - 1) /\ Len(o) < Len(q)
      BY <1>1, <2>1, <3>1
    <3>3. SubSeq(q, 1, Len(o)) = o
      BY <2>1, <3>1, <3>2
    <3>4. QED
      BY <3>2, <3>3, StrictPrefixes
  <2>6. QED
    BY <1>3, <2>3, <2>4, <2>5
<1>4. QED
  BY <1>2, <1>3

\* A deduction expands what is directly under it, and what is directly under a
\* composite it expands.
LEMMA ExpandedByParent ==
  ASSUME NEW T, IsTree(T), NEW o \in DOMAIN T, NEW q \in DOMAIN T
  PROVE  q \in ExpandedBy(T, o) <=>
           /\ T[o].op \in {"goal", "arrow"} /\ q # <<>>
           /\ Front(q) = o \/ (Front(q) \in ExpandedBy(T, o) /\ T[Front(q)].op \in Composite)
<1>1. o \in Seq(Nat) /\ q \in Seq(Nat) /\ Len(o) \in Nat /\ Len(q) \in Nat
  BY TreeFacts, LenProperties
<1>2. CASE q = <<>>
  BY <1>1, <1>2, PrefixByParent DEF ExpandedBy
<1>3. CASE q # <<>>
  <2>1. /\ Front(q) \in DOMAIN T /\ Front(q) \in Seq(Nat)
        /\ Len(q) \in Nat \ {0} /\ Len(Front(q)) = Len(q) - 1
        /\ SubSeq(q, 1, Len(q) - 1) = Front(q)
        /\ \A k \in 0..(Len(q) - 1) : SubSeq(Front(q), 1, k) = SubSeq(q, 1, k)
    BY <1>1, <1>3, TreeFacts, PathFacts, Beginnings
  <2> DEFINE inside(p) == \A k \in (Len(o) + 1)..(Len(p) - 1) : T[SubSeq(p, 1, k)].op \in Composite
  <2>2. IsStrictPrefix(o, q) <=> Front(q) = o \/ IsStrictPrefix(o, Front(q))
    BY <1>1, <1>3, PrefixByParent
  <2>3. CASE Front(q) = o
    <3>1. Len(q) - 1 < Len(o) + 1
      BY <1>1, <2>1, <2>3
    <3>2. (Len(o) + 1)..(Len(q) - 1) = {}
      BY <1>1, <3>1
    <3>3. QED
      BY <1>3, <2>2, <2>3, <3>2 DEF ExpandedBy
  <2>4. CASE Front(q) # o
    <3>1. ASSUME IsStrictPrefix(o, Front(q))
          PROVE  inside(q) <=> inside(Front(q)) /\ T[Front(q)].op \in Composite
      <4>1. Len(o) < Len(q) - 1
        BY <1>1, <2>1, <3>1, StrictPrefixes
      <4>2. (Len(o) + 1)..(Len(q) - 1) = (Len(o) + 1)..((Len(q) - 1) - 1) \cup {Len(q) - 1}
        <5>1. Len(q) - 1 \in (Len(o) + 1)..(Len(q) - 1)
          BY <1>1, <2>1, <4>1
        <5>2. ASSUME NEW k \in (Len(o) + 1)..(Len(q) - 1), k # Len(q) - 1
              PROVE  k \in (Len(o) + 1)..((Len(q) - 1) - 1)
          <6>1. k \in Nat /\ Len(o) + 1 <= k /\ k <= Len(q) - 1
            BY <1>1
          <6>2. k <= (Len(q) - 1) - 1
            BY <1>1, <5>2, <6>1
          <6>3. QED
            BY <1>1, <6>1, <6>2
        <5>3. (Len(o) + 1)..((Len(q) - 1) - 1) \subseteq (Len(o) + 1)..(Len(q) - 1)
          BY <1>1, <2>1
        <5>4. QED
          BY <5>1, <5>2, <5>3
      <4>3. \A k \in (Len(o) + 1)..((Len(q) - 1) - 1) : SubSeq(Front(q), 1, k) = SubSeq(q, 1, k)
        BY <1>1, <2>1
      <4>4. QED
        BY <2>1, <4>2, <4>3
    <3> HIDE DEF inside
    <3>2. q \in ExpandedBy(T, o) <=>
            T[o].op \in {"goal", "arrow"} /\ IsStrictPrefix(o, Front(q)) /\ inside(q)
      BY <2>2, <2>4 DEF ExpandedBy, inside
    <3>3. Front(q) \in ExpandedBy(T, o) <=>
            T[o].op \in {"goal", "arrow"} /\ IsStrictPrefix(o, Front(q)) /\ inside(Front(q))
      BY <2>1 DEF ExpandedBy, inside
    <3>4. QED
      BY <1>3, <2>4, <3>1, <3>2, <3>3
  <2>5. QED
    BY <2>3, <2>4
<1>4. QED
  BY <1>2, <1>3

-----------------------------------------------------------------------------
(* What is registered agrees with what was validated.                      *)

Nodes(T) == {Node(T, p) : p \in DOMAIN T}

\* The inductive invariant: only an accepted program is opened, and whatever is
\* registered is a node of it that has the one around it registered too.
Inv ==
  /\ tree \in Trees /\ staged \in Seq(Nodes(tree))
  /\ staged # <<>> => Accepted(tree)
  /\ \A o \in Occurrences : o.id = <<>> \/ \E q \in Occurrences : q.id = Front(o.id)

\* A node is known by its path.
LEMMA NodeFields ==
  ASSUME NEW T, NEW p
  PROVE  /\ Node(T, p).id = p /\ Node(T, p).kind = KindOf(T[p])
         /\ Node(T, p).input = InputOf(T, p) /\ Node(T, p).deps = DepsOf(T, p)
  BY DEF Node

\* The elements of two lists, one after the other.
LEMMA ConcatElements ==
  ASSUME NEW S, NEW s \in Seq(S), NEW t \in Seq(S)
  PROVE  s \o t \in Seq(S) /\ ToSet(s \o t) = ToSet(s) \cup ToSet(t)
<1> DEFINE u == s \o t
<1>1. /\ Len(s) \in Nat /\ Len(t) \in Nat
      /\ DOMAIN s = 1..Len(s) /\ DOMAIN t = 1..Len(t)
  BY LenProperties
<1>2. /\ u \in Seq(S) /\ Len(u) = Len(s) + Len(t)
      /\ \A i \in 1..(Len(s) + Len(t)) : u[i] = IF i <= Len(s) THEN s[i] ELSE t[i - Len(s)]
  BY ConcatProperties
<1>3. DOMAIN u = 1..(Len(s) + Len(t))
  BY <1>2, LenProperties
<1> HIDE DEF u
<1>4. ASSUME NEW i \in DOMAIN u
      PROVE  (\E j \in DOMAIN s : u[i] = s[j]) \/ (\E j \in DOMAIN t : u[i] = t[j])
  <2>1. CASE i <= Len(s)
    BY <1>1, <1>2, <1>3, <2>1
  <2>2. CASE ~(i <= Len(s))
    <3>1. i - Len(s) \in DOMAIN t /\ u[i] = t[i - Len(s)]
      BY <1>1, <1>2, <1>3, <2>2
    <3>2. QED
      BY <3>1
  <2>3. QED
    BY <2>1, <2>2
<1>5. ASSUME NEW j \in DOMAIN s PROVE j \in DOMAIN u /\ u[j] = s[j]
  BY <1>1, <1>2, <1>3
<1>6. ASSUME NEW j \in DOMAIN t PROVE j + Len(s) \in DOMAIN u /\ u[j + Len(s)] = t[j]
  <2>1. j + Len(s) \in 1..(Len(s) + Len(t)) /\ ~(j + Len(s) <= Len(s)) /\ (j + Len(s)) - Len(s) = j
    BY <1>1
  <2>2. QED
    BY <1>2, <1>3, <2>1
<1>7. ToSet(u) = ToSet(s) \cup ToSet(t)
  BY <1>4, <1>5, <1>6 DEF ToSet
<1>8. QED
  BY <1>2, <1>7 DEF u

LEMMA InvInit == Init => Inv
<1> SUFFICES ASSUME Init PROVE Inv
  OBVIOUS
<1>1. tree \in Trees /\ staged = <<>> /\ DOMAIN staged = {}
  BY DEF Init
<1>2. QED
  BY <1>1, EmptySeq DEF Inv, Occurrences

\* Registering keeps the invariant: the root has nothing around it, and a
\* deduction stages what is directly under its occurrence or under what it
\* stages itself.
LEMMA InvStep == Inv /\ [Next]_<<tree, staged, deduced>> => Inv'
<1> SUFFICES ASSUME Inv, [Next]_<<tree, staged, deduced>> PROVE Inv'
  OBVIOUS
<1>1. IsTree(tree) /\ tree \in Trees
  BY TreesAreTrees DEF Inv
<1>2. CASE OpenRoot
  <2>1. tree' = tree /\ staged' = <<Node(tree, <<>>)>> /\ Accepted(tree) /\ <<>> \in DOMAIN tree
    BY <1>1, <1>2 DEF OpenRoot, IsTree
  <2>2. staged' \in Seq(Nodes(tree)) /\ \A i \in DOMAIN staged' : staged'[i] = Node(tree, <<>>)
    BY <2>1 DEF Nodes
  <2>3. \A o \in Occurrences' : o.id = <<>>
    BY <2>2, NodeFields DEF Occurrences
  <2>4. QED
    BY <1>1, <2>1, <2>2, <2>3 DEF Inv
<1>3. ASSUME NEW i \in DOMAIN staged, Deduce(i) PROVE Inv'
  <2> DEFINE o == staged[i].id
             st == StagedBy(tree, o)
             new == [n \in DOMAIN st |-> Node(tree, st[n])]
  <2>1. staged \in Seq(Nodes(tree)) /\ staged # <<>>
    BY <1>3 DEF Inv
  <2>2. staged[i] \in Nodes(tree) /\ staged[i] \in Occurrences
    BY <2>1, LenProperties, ElementOfSeq DEF Occurrences
  <2>3. o \in DOMAIN tree
    BY <2>2, NodeFields DEF Nodes
  <2>4. /\ st \in Seq(DOMAIN tree) /\ {st[n] : n \in DOMAIN st} = ExpandedBy(tree, o)
    BY <1>1, <2>3, StagedIsExpanded
  <2>5. tree' = tree /\ staged' = staged \o new
    BY <1>3 DEF Deduce
  <2> HIDE DEF o, st
  <2>6. Len(st) \in Nat /\ DOMAIN st = 1..Len(st) /\ \A n \in DOMAIN st : st[n] \in DOMAIN tree
    BY <2>4, LenProperties
  <2>7. new \in Seq(Nodes(tree))
    BY <2>6 DEF Nodes
  <2>8. {new[n] : n \in DOMAIN new} = {Node(tree, q) : q \in ExpandedBy(tree, o)}
    <3>1. \A q \in ExpandedBy(tree, o) : \E n \in DOMAIN st : q = st[n]
      BY <2>4
    <3>2. \A n \in DOMAIN st : st[n] \in ExpandedBy(tree, o)
      BY <2>4
    <3>3. QED
      BY <3>1, <3>2
  <2> HIDE DEF new
  <2>9. /\ staged' \in Seq(Nodes(tree'))
        /\ Occurrences' = Occurrences \cup {Node(tree, q) : q \in ExpandedBy(tree, o)}
    <3>1. staged \o new \in Seq(Nodes(tree)) /\ ToSet(staged \o new) = ToSet(staged) \cup ToSet(new)
      BY <2>1, <2>7, ConcatElements
    <3>2. staged' \in Seq(Nodes(tree))
      BY <2>5, <3>1
    <3>3. Occurrences' = Occurrences \cup {new[n] : n \in DOMAIN new}
      BY <2>5, <3>1 DEF Occurrences, ToSet
    <3>4. QED
      BY <2>5, <2>8, <3>2, <3>3
  <2>10. ASSUME NEW q \in ExpandedBy(tree, o)
         PROVE  \E r \in Occurrences' : r.id = Front(q)
    <3>1. q \in DOMAIN tree
      BY DEF ExpandedBy
    <3>2. Front(q) = o \/ Front(q) \in ExpandedBy(tree, o)
      BY <1>1, <2>3, <3>1, ExpandedByParent
    <3>3. CASE Front(q) = o
      BY <2>2, <2>9, <3>3 DEF o
    <3>4. CASE Front(q) \in ExpandedBy(tree, o)
      BY <2>9, <3>4, NodeFields
    <3>5. QED
      BY <3>2, <3>3, <3>4
  <2>11. ASSUME NEW r \in Occurrences'
         PROVE  r.id = <<>> \/ \E q \in Occurrences' : q.id = Front(r.id)
    <3>1. CASE r \in Occurrences
      BY <2>9, <3>1 DEF Inv
    <3>2. CASE r \notin Occurrences
      <4>1. PICK q \in ExpandedBy(tree, o) : r = Node(tree, q)
        BY <2>9, <3>2
      <4>2. r.id = q
        BY <4>1, NodeFields
      <4>3. QED
        BY <2>10, <4>2
    <3>3. QED
      BY <3>1, <3>2
  <2>12. tree' \in Trees /\ Accepted(tree')
    BY <1>1, <2>1, <2>5 DEF Inv
  <2>13. QED
    BY <2>9, <2>11, <2>12 DEF Inv
<1>4. CASE UNCHANGED <<tree, staged, deduced>>
  BY <1>4 DEF Inv, Occurrences
<1>5. QED
  BY <1>2, <1>3, <1>4 DEF Next

\* The invariant is enough: an input comes from what its occurrence, or the
\* composition it is an element of, depends on, and both are registered.
LEMMA InvAgrees == Inv => RoutingAgrees
<1> SUFFICES ASSUME Inv, NEW o \in Occurrences
             PROVE  /\ IsBareGoal(tree[o.id]) =>
                         ArityOf(tree, o.id) = IF o.input = NoOcc THEN 0 ELSE 1
                    /\ o.kind = "arrow" /\ IsStage(tree, o.id) /\ tree[o.id].arity = 1 =>
                         o.input # NoOcc
                    /\ o.input # NoOcc => \E q \in Enclosing(o) : o.input \in q.deps
  BY DEF RoutingAgrees
<1>1. IsTree(tree) /\ NoOcc \notin Seq(Nat)
  BY TreesAreTrees DEF Inv
<1>2. Accepted(tree)
  <2>1. staged # <<>>
    BY DEF Occurrences
  <2>2. QED
    BY <2>1 DEF Inv
<1>3. \A q \in Occurrences : q \in Nodes(tree)
  BY LenProperties, ElementOfSeq DEF Inv, Occurrences
<1>4. PICK p \in DOMAIN tree : o = Node(tree, p)
  BY <1>3 DEF Nodes
<1>5. o.id = p /\ o.kind = KindOf(tree[p]) /\ o.input = InputOf(tree, p) /\ o.deps = DepsOf(tree, p)
  BY <1>4, NodeFields
<1>6. p \in Seq(Nat) /\ IsPrefix(p, p)
  BY <1>1, TreeFacts DEF IsPrefix
<1>7. o.kind = "arrow" => tree[p].op = "arrow"
  BY <1>5 DEF KindOf
<1>8. ASSUME o.input # NoOcc PROVE \E q \in Enclosing(o) : o.input \in q.deps
  <2>1. o.input = Offered(tree)[p] /\ Offered(tree)[p] # NoOcc
    BY <1>5, <1>8 DEF InputOf
  <2>2. /\ p # <<>>
        /\ \/ Offered(tree)[p] \in DepsOf(tree, p)
           \/ Offered(tree)[p] \in DepsOf(tree, Front(p))
    BY <1>1, <2>1, OfferedFromBefore
  <2>3. CASE Offered(tree)[p] \in DepsOf(tree, p)
    BY <1>5, <1>6, <2>1, <2>3 DEF Enclosing
  <2>4. CASE Offered(tree)[p] \in DepsOf(tree, Front(p))
    <3>1. PICK q \in Occurrences : q.id = Front(p)
      BY <1>5, <2>2 DEF Inv
    <3>2. q.deps = DepsOf(tree, Front(p))
      BY <1>3, <3>1, NodeFields DEF Nodes
    <3>3. IsPrefix(Front(p), p)
      <4>1. /\ Front(p) \in Seq(Nat) /\ Len(Front(p)) = Len(p) - 1 /\ Len(p) \in Nat
            /\ SubSeq(p, 1, Len(p) - 1) = Front(p)
        BY <1>6, <2>2, PathFacts, Beginnings
      <4>2. SubSeq(Front(p), 1, Len(Front(p))) = Front(p)
        BY <4>1, SubSeqFull
      <4>3. QED
        BY <4>1, <4>2 DEF IsPrefix
    <3>4. QED
      BY <1>5, <2>1, <2>4, <3>1, <3>2, <3>3 DEF Enclosing
  <2>5. QED
    BY <2>2, <2>3, <2>4
<1>9. QED
  BY <1>1, <1>2, <1>5, <1>7, <1>8, InputAgrees

\* For every program that validation accepts, whatever its shape and size: a
\* bare name is looked up by the engine with the arity validation resolved it
\* with, and a value is only ever routed from what the occurrence waits for.
THEOREM RoutingIsAgreed == Spec => []RoutingAgrees
<1>1. Spec => []Inv
  BY InvInit, InvStep, PTL DEF Spec
<1>2. QED
  BY <1>1, InvAgrees, PTL

-----------------------------------------------------------------------------
(* What Carousel and Vessel assume of a program (Unrolled) is so for every *)
(* tree that validation accepts.                                           *)

Opened(T) ==
  INSTANCE Unrolled WITH
    Occ <- DOMAIN T, Root <- <<>>, Kind <- KindIn(T), Parent <- ParentIn(T), Staged <- StagedIn(T),
    Input <- InputIn(T), Deps <- DepsIn(T), Eager <- EagerIn(T)

\* The elements of an expression, by their segments.
LEMMA Elements ==
  ASSUME NEW T, IsTree(T), NEW p \in DOMAIN T
  PROVE  /\ \A q \in DOMAIN T : q # <<>> /\ Front(q) = p => \E s \in Segments(T[p]) : q = Append(p, s)
         /\ \A s \in Segments(T[p]) :
              /\ s \in Nat /\ Append(p, s) \in DOMAIN T /\ Append(p, s) # <<>>
              /\ Front(Append(p, s)) = p /\ Last(Append(p, s)) = s
<1>1. ASSUME NEW q \in DOMAIN T, q # <<>>, Front(q) = p
      PROVE  q = Append(p, Last(q)) /\ Last(q) \in Segments(T[p])
  <2>1. Last(q) \in Segments(T[Front(q)])
    BY <1>1 DEF IsTree
  <2>2. QED
    BY <1>1, <2>1, TreeFacts
<1>2. ASSUME NEW s \in Segments(T[p])
      PROVE  s \in Nat /\ Append(p, s) \in DOMAIN T
  <2>1. Append(p, s) \in DOMAIN T
    BY <1>2 DEF IsTree
  <2>2. T[p].width \in Nat
    BY TreeFacts DEF Expression
  <2>3. QED
    BY <2>1, <2>2 DEF Segments
<1>3. p \in Seq(Nat)
  BY TreeFacts
<1>4. QED
  BY <1>1, <1>2, <1>3, AppendFacts

\* The constants of Unrolled, path by path.
LEMMA OpenedOf ==
  ASSUME NEW T, IsTree(T), NEW p \in DOMAIN T, NoOcc \notin Seq(Nat)
  PROVE  /\ KindIn(T)[p] = KindOf(T[p]) /\ InputIn(T)[p] = InputOf(T, p) /\ DepsIn(T)[p] = DepsOf(T, p)
         /\ ParentIn(T)[p] = IF p = <<>> THEN NoOcc ELSE Front(p)
         /\ Opened(T)!StagedSet(p) = ExpandedBy(T, p)
         /\ Opened(T)!ChildrenOf(p) = {q \in DOMAIN T : q # <<>> /\ Front(q) = p}
         /\ p \in Opened(T)!Deducible <=> T[p].op \in {"goal", "arrow"}
         /\ p \in Opened(T)!Leaf <=> T[p].op \in {"anchor", "function"}
         /\ NoOcc \notin DOMAIN T
<1>1. /\ KindIn(T)[p] = KindOf(T[p]) /\ InputIn(T)[p] = InputOf(T, p) /\ DepsIn(T)[p] = DepsOf(T, p)
      /\ \A q \in DOMAIN T : ParentIn(T)[q] = IF q = <<>> THEN NoOcc ELSE Front(q)
  BY DEF KindIn, InputIn, DepsIn, ParentIn, ParentOf
<1>2. Opened(T)!StagedSet(p) = ExpandedBy(T, p)
  BY StagedIsExpanded DEF Opened!StagedSet, StagedIn
<1>3. NoOcc \notin DOMAIN T
  BY DEF IsTree
<1>4. Opened(T)!ChildrenOf(p) = {q \in DOMAIN T : q # <<>> /\ Front(q) = p}
  BY <1>1, <1>3 DEF Opened!ChildrenOf
<1>5. /\ p \in Opened(T)!Deducible <=> T[p].op \in {"goal", "arrow"}
      /\ p \in Opened(T)!Leaf <=> T[p].op \in {"anchor", "function"}
  <2>1. T[p].op \in {"goal", "arrow", "anchor", "function", "serial", "parallel", "map"}
    BY TreeFacts DEF Expression, Composite
  <2>2. QED
    BY <1>1, <2>1 DEF Opened!Deducible, Opened!Leaf, KindOf
<1>6. QED
  BY <1>1, <1>2, <1>3, <1>4, <1>5

\* What an expression waits for is an element of the same composition.
LEMMA DepsAreOccurrences ==
  ASSUME NEW T, IsTree(T), NEW p \in DOMAIN T
  PROVE  DepsOf(T, p) \subseteq DOMAIN T
<1> SUFFICES ASSUME p # <<>>, T[Front(p)].op = "serial", Last(p) > 1
             PROVE  Predecessor(p) \in DOMAIN T
  BY DEF DepsOf
<1>1. Front(p) \in DOMAIN T /\ Last(p) \in 1..T[Front(p)].width /\ T[Front(p)].width \in Nat
  BY TreeFacts DEF Composite, Expression
<1>2. Last(p) - 1 \in Segments(T[Front(p)])
  BY <1>1 DEF Segments
<1>3. QED
  BY <1>1, <1>2, Elements DEF Predecessor

LEMMA OpenedTypes ==
  ASSUME NEW T, IsTree(T), NoOcc \notin Seq(Nat)
  PROVE  Opened(T)!OccurrenceTypes
<1>1. <<>> \in DOMAIN T /\ T[<<>>].op = "goal" /\ NoOcc \notin DOMAIN T
  BY DEF IsTree
<1>2. KindIn(T) \in [DOMAIN T -> {"Goal", "arrow", "anchor", "function", "serial", "parallel", "map"}]
  <2>1. \A p \in DOMAIN T : T[p].op \in {"goal", "arrow", "anchor", "function", "serial", "parallel", "map"}
    BY TreeFacts DEF Expression, Composite
  <2>2. \A p \in DOMAIN T :
          KindOf(T[p]) \in {"Goal", "arrow", "anchor", "function", "serial", "parallel", "map"}
    BY <2>1 DEF KindOf
  <2>3. QED
    BY <2>2 DEF KindIn
<1>3. ParentIn(T) \in [DOMAIN T -> DOMAIN T \cup {NoOcc}]
  BY TreeFacts DEF ParentIn, ParentOf
<1>4. StagedIn(T) \in [DOMAIN T -> Seq(DOMAIN T)]
  BY StagedIsExpanded DEF StagedIn
<1>5. InputIn(T) \in [DOMAIN T -> DOMAIN T \cup {NoOcc}]
  <2>1. ASSUME NEW p \in DOMAIN T, Offered(T)[p] # NoOcc PROVE Offered(T)[p] \in DOMAIN T
    <3>1. p # <<>> /\ (Offered(T)[p] \in DepsOf(T, p) \/ Offered(T)[p] \in DepsOf(T, Front(p)))
      BY <2>1, OfferedFromBefore
    <3>2. Front(p) \in DOMAIN T
      BY <3>1, TreeFacts
    <3>3. QED
      BY <3>1, <3>2, DepsAreOccurrences
  <2>2. \A p \in DOMAIN T : InputOf(T, p) \in DOMAIN T \cup {NoOcc}
    BY <2>1 DEF InputOf
  <2>3. QED
    BY <2>2 DEF InputIn
<1>6. DepsIn(T) \in [DOMAIN T -> SUBSET DOMAIN T]
  BY DepsAreOccurrences DEF DepsIn
<1>7. EagerIn(T) \subseteq Opened(T)!Deducible
  <2>1. ASSUME NEW p \in DOMAIN T, T[p].suffix = "eager" PROVE p \in Opened(T)!Deducible
    <3>1. T[p].op = "goal"
      BY <2>1 DEF IsTree
    <3>2. QED
      BY <3>1, OpenedOf
  <2>2. QED
    BY <2>1 DEF EagerIn
<1>8. KindIn(T)[<<>>] = "Goal"
  BY <1>1 DEF KindIn, KindOf
<1>9. QED
  BY <1>1, <1>2, <1>3, <1>4, <1>5, <1>6, <1>7, <1>8 DEF Opened!OccurrenceTypes

\* Under two deductions at once would be under the farther one with the nearer
\* one, a body of its own, in between.
LEMMA OpenedOnce ==
  ASSUME NEW T, IsTree(T), NoOcc \notin Seq(Nat)
  PROVE  Opened(T)!RegisteredOnce
<1>1. \A o \in DOMAIN T : Opened(T)!StagedSet(o) = ExpandedBy(T, o)
  BY OpenedOf
<1>2. \A o \in DOMAIN T : <<>> \notin ExpandedBy(T, o) /\ o \notin ExpandedBy(T, o)
  <2>1. <<>> \in DOMAIN T
    BY DEF IsTree
  <2>2. \A o \in DOMAIN T : <<>> \notin ExpandedBy(T, o)
    BY <2>1, ExpandedByParent
  <2>3. QED
    BY <2>2 DEF ExpandedBy, IsStrictPrefix
<1>3. ASSUME NEW o \in DOMAIN T, NEW q \in DOMAIN T, NEW r \in DOMAIN T,
             r \in ExpandedBy(T, o), r \in ExpandedBy(T, q)
      PROVE  ~(Len(o) < Len(q))
  <2> SUFFICES ASSUME Len(o) < Len(q) PROVE FALSE
    OBVIOUS
  <2>1. /\ o \in Seq(Nat) /\ q \in Seq(Nat) /\ r \in Seq(Nat)
        /\ Len(o) \in Nat /\ Len(q) \in Nat /\ Len(r) \in Nat
    BY TreeFacts, LenProperties
  <2>2. IsStrictPrefix(q, r) /\ T[q].op \in {"goal", "arrow"}
    BY <1>3 DEF ExpandedBy
  <2>3. Len(q) < Len(r) /\ SubSeq(r, 1, Len(q)) = q
    BY <2>1, <2>2, StrictPrefixes
  <2>4. Len(q) \in (Len(o) + 1)..(Len(r) - 1)
    BY <2>1, <2>3
  <2>5. T[SubSeq(r, 1, Len(q))].op \in Composite
    BY <1>3, <2>4 DEF ExpandedBy
  <2>6. QED
    BY <2>2, <2>3, <2>5 DEF Composite
<1>4. ASSUME NEW o \in DOMAIN T, NEW q \in DOMAIN T, NEW r \in DOMAIN T,
             r \in ExpandedBy(T, o), r \in ExpandedBy(T, q)
      PROVE  o = q
  <2>1. /\ o \in Seq(Nat) /\ q \in Seq(Nat) /\ r \in Seq(Nat)
        /\ Len(o) \in Nat /\ Len(q) \in Nat
    BY TreeFacts, LenProperties
  <2>2. ~(Len(o) < Len(q)) /\ ~(Len(q) < Len(o))
    BY <1>3, <1>4
  <2>3. Len(o) = Len(q)
    BY <2>1, <2>2
  <2>4. IsStrictPrefix(o, r) /\ IsStrictPrefix(q, r)
    BY <1>4 DEF ExpandedBy
  <2>5. SubSeq(r, 1, Len(o)) = o /\ SubSeq(r, 1, Len(q)) = q
    BY <2>1, <2>4, StrictPrefixes
  <2>6. QED
    BY <2>3, <2>5
<1>5. \A o, q \in DOMAIN T : o # q => ExpandedBy(T, o) \cap ExpandedBy(T, q) = {}
  <2>1. \A o \in DOMAIN T : ExpandedBy(T, o) \subseteq DOMAIN T
    BY DEF ExpandedBy
  <2>2. QED
    BY <1>4, <2>1
<1>6. \A o \in DOMAIN T : \A i, j \in DOMAIN StagedIn(T)[o] :
        StagedIn(T)[o][i] = StagedIn(T)[o][j] => i = j
  <2>1. \A o \in DOMAIN T : StagedIn(T)[o] = StagedBy(T, o)
    BY DEF StagedIn
  <2>2. QED
    BY <2>1, StagedIsExpanded
<1>7. QED
  BY <1>1, <1>2, <1>5, <1>6 DEF Opened!RegisteredOnce

\* Of any paths the shortest has its parent outside.
LEMMA OpenedLeadUp ==
  ASSUME NEW T, IsTree(T), NoOcc \notin Seq(Nat)
  PROVE  Opened(T)!LeadUp
<1>1. \A o \in DOMAIN T : ParentIn(T)[o] = NoOcc <=> o = <<>>
  <2>1. \A o \in DOMAIN T : o # <<>> => Front(o) \in Seq(Nat)
    BY TreeFacts
  <2>2. QED
    BY <2>1, OpenedOf
<1>2. ASSUME NEW S \in SUBSET DOMAIN T, S # {}
      PROVE  \E o \in S : ParentIn(T)[o] \notin S
  <2>1. S \subseteq Seq(Nat)
    BY DEF IsTree
  <2>2. PICK p \in S : \A q \in S : Len(p) <= Len(q)
    BY <1>2, <2>1, ShortestPath
  <2>3. CASE p = <<>>
    BY <2>1, <2>2, <2>3, OpenedOf
  <2>4. CASE p # <<>>
    <3>1. ParentIn(T)[p] = Front(p)
      BY <2>4, OpenedOf
    <3>2. Len(p) \in Nat \ {0} /\ Len(Front(p)) = Len(p) - 1
      BY <2>1, <2>4, PathFacts
    <3>3. Front(p) \notin S
      BY <2>2, <3>2
    <3>4. QED
      BY <3>1, <3>3
  <2>5. QED
    BY <2>3, <2>4
<1>3. QED
  BY <1>1, <1>2 DEF Opened!LeadUp

\* A deduction stages its one body as far as composites go: what is under what
\* it stages is staged with it, unless that is a body of its own.
LEMMA OpenedBodies ==
  ASSUME NEW T, IsTree(T), NEW o \in DOMAIN T, NoOcc \notin Seq(Nat), T[o].op \in {"goal", "arrow"}
  PROVE  /\ Opened(T)!StagedSet(o) =
              {q \in DOMAIN T :
                 ParentIn(T)[q] \in {o} \cup (Opened(T)!StagedSet(o) \ Opened(T)!Deducible)}
         /\ \A c, d \in Opened(T)!ChildrenOf(o) : c = d
<1>1. Opened(T)!StagedSet(o) = ExpandedBy(T, o) /\ ExpandedBy(T, o) \subseteq DOMAIN T
  BY OpenedOf DEF ExpandedBy
<1>2. ASSUME NEW q \in DOMAIN T
      PROVE  q \in ExpandedBy(T, o) <=>
               ParentIn(T)[q] \in {o} \cup (ExpandedBy(T, o) \ Opened(T)!Deducible)
  <2>1. CASE q = <<>>
    <3>1. ParentIn(T)[q] \notin DOMAIN T
      BY <2>1, OpenedOf
    <3>2. QED
      BY <1>1, <2>1, <3>1, ExpandedByParent
  <2>2. CASE q # <<>>
    <3>1. /\ Front(q) \in DOMAIN T /\ T[Front(q)].op \notin {"anchor", "function"}
          /\ T[Front(q)] \in Expression
      BY <2>2, TreeFacts
    <3>2. T[Front(q)].op \in Composite <=> Front(q) \notin Opened(T)!Deducible
      BY <3>1, OpenedOf DEF Expression, Composite
    <3>3. ParentIn(T)[q] = Front(q)
      BY <2>2, OpenedOf
    <3>4. QED
      BY <2>2, <3>2, <3>3, ExpandedByParent
  <2>3. QED
    BY <2>1, <2>2
<1>3. \A c, d \in Opened(T)!ChildrenOf(o) : c = d
  <2>1. \A s \in Segments(T[o]) : s = 0
    BY DEF Segments
  <2>2. \A c \in Opened(T)!ChildrenOf(o) : c = Append(o, 0)
    BY <2>1, OpenedOf, Elements
  <2>3. QED
    BY <2>2
<1>4. QED
  BY <1>1, <1>2, <1>3

\* Unrolled counts as the rest does.
LEMMA OpenedCounts ==
  ASSUME NEW T, NEW S
  PROVE  /\ Opened(T)!IsFiniteSet(S) <=> IsFiniteSet(S)
         /\ Opened(T)!Cardinality(S) = Cardinality(S)
  BY DEF Opened!IsFiniteSet, IsFiniteSet, Opened!Cardinality, Cardinality

\* The elements of a serial composition, and what each waits for.
LEMMA OpenedSerial ==
  ASSUME NEW T, IsTree(T), NEW p \in DOMAIN T, NoOcc \notin Seq(Nat), T[p].op = "serial"
  PROVE  Opened(T)!InSeries(p)
<1> DEFINE C == Opened(T)!ChildrenOf(p)
           w == T[p].width
           element == [i \in 1..w |-> Append(p, i)]
<1>1. w \in Nat /\ Segments(T[p]) = 1..w
  BY TreeFacts DEF Expression, Segments
<1>2. C = {q \in DOMAIN T : q # <<>> /\ Front(q) = p}
  BY OpenedOf
<1>3. /\ \A i \in 1..w : Append(p, i) \in C /\ Last(Append(p, i)) = i /\ Append(p, i) \in DOMAIN T
                         /\ Append(p, i) # <<>> /\ Front(Append(p, i)) = p
      /\ \A q \in C : \E i \in 1..w : q = Append(p, i)
  BY <1>1, <1>2, Elements
<1> HIDE DEF C, w
<1>4. /\ element \in [1..w -> C] /\ \A i, j \in 1..w : element[i] = element[j] => i = j
      /\ \A q \in C : \E i \in 1..w : element[i] = q
  BY <1>3
<1>5. Opened(T)!IsFiniteSet(C) /\ Opened(T)!Cardinality(C) = w
  <2>1. element \in Bijection(1..w, C)
    BY <1>4, Fun_IsBij
  <2>2. ExistsBijection(1..w, C)
    BY <2>1 DEF ExistsBijection
  <2>3. IsFiniteSet(1..w) /\ Cardinality(1..w) = w
    BY <1>1, FS_Interval
  <2>4. QED
    BY <2>2, <2>3, FS_Bijection, OpenedCounts
<1>6. ASSUME NEW i \in 1..w
      PROVE  DepsIn(T)[element[i]] = IF i = 1 THEN {} ELSE {element[i - 1]}
  <2>1. DepsIn(T)[element[i]] = DepsOf(T, Append(p, i))
    BY <1>3, OpenedOf
  <2>2. DepsOf(T, Append(p, i)) = IF i > 1 THEN {Append(p, i - 1)} ELSE {}
    BY <1>3 DEF DepsOf, Predecessor
  <2>3. i > 1 <=> i # 1
    BY <1>1
  <2>4. i # 1 => i - 1 \in 1..w
    BY <1>1
  <2>5. QED
    BY <2>1, <2>2, <2>3, <2>4
<1>7. DOMAIN element = 1..w
  OBVIOUS
<1> HIDE DEF element
<1>8. C = {element[i] : i \in DOMAIN element}
  <2>1. \A i \in 1..w : element[i] \in C
    BY <1>4
  <2>2. QED
    BY <1>4, <1>7, <2>1
<1>9. element \in [1..Opened(T)!Cardinality(C) -> C]
  BY <1>4, <1>5
<1>10. /\ Opened(T)!IsFiniteSet(C)
       /\ \E f \in [1..Opened(T)!Cardinality(C) -> C] :
            /\ C = {f[i] : i \in DOMAIN f}
            /\ \A i, j \in DOMAIN f : f[i] = f[j] => i = j
            /\ \A i \in DOMAIN f : DepsIn(T)[f[i]] = IF i = 1 THEN {} ELSE {f[i - 1]}
  <2>1. \A i, j \in DOMAIN element : element[i] = element[j] => i = j
    BY <1>4, <1>7
  <2>2. \A i \in DOMAIN element : DepsIn(T)[element[i]] = IF i = 1 THEN {} ELSE {element[i - 1]}
    BY <1>6, <1>7
  <2>3. QED
    BY <1>5, <1>8, <1>9, <2>1, <2>2
<1>11. QED
  BY <1>10 DEF C, Opened!InSeries

LEMMA OpenedComposed ==
  ASSUME NEW T, IsTree(T), NoOcc \notin Seq(Nat)
  PROVE  Opened(T)!Composed
<1>1. \A o \in Opened(T)!Deducible :
        /\ Opened(T)!StagedSet(o) =
             {q \in DOMAIN T :
                ParentIn(T)[q] \in {o} \cup (Opened(T)!StagedSet(o) \ Opened(T)!Deducible)}
        /\ \A c, d \in Opened(T)!ChildrenOf(o) : c = d
  <2>1. \A o \in Opened(T)!Deducible : o \in DOMAIN T /\ T[o].op \in {"goal", "arrow"}
    BY OpenedOf DEF Opened!Deducible
  <2>2. QED
    BY <2>1, OpenedBodies
<1>2. \A l \in Opened(T)!Leaf : Opened(T)!ChildrenOf(l) = {}
  <2>1. \A l \in Opened(T)!Leaf : l \in DOMAIN T /\ T[l].op \in {"anchor", "function"}
    BY OpenedOf DEF Opened!Leaf
  <2>2. \A q \in DOMAIN T : q # <<>> => T[Front(q)].op \notin {"anchor", "function"}
    BY TreeFacts
  <2>3. QED
    BY <2>1, <2>2, OpenedOf
<1>3. ASSUME NEW p \in DOMAIN T, KindIn(T)[p] = "serial" PROVE T[p].op = "serial"
  BY <1>3 DEF KindIn, KindOf
<1>4. QED
  BY <1>1, <1>2, <1>3, OpenedSerial DEF Opened!Composed

\* Validation leaves no map empty, and what is routed is waited for.
LEMMA OpenedDependent ==
  ASSUME NEW T, IsTree(T), Accepted(T), NoOcc \notin Seq(Nat)
  PROVE  Opened(T)!Dependent
<1>1. ASSUME NEW p \in DOMAIN T, p \notin Opened(T)!Leaf PROVE Opened(T)!ChildrenOf(p) # {}
  <2>1. T[p].op \notin {"anchor", "function"} /\ T[p] \in Expression /\ T[p].width \in Nat
    BY <1>1, OpenedOf, TreeFacts DEF Expression
  <2>2. T[p].op \in {"serial", "parallel"} => T[p].width >= 2
    BY DEF IsTree
  <2>3. T[p].op = "map" => T[p].width > 0
    BY DEF Accepted, MapOK
  <2>4. \E s \in Segments(T[p]) : TRUE
    <3>1. CASE T[p].op \in {"goal", "arrow"}
      BY <3>1 DEF Segments
    <3>2. CASE T[p].op \in Composite
      <4>1. 1 \in 1..T[p].width
        BY <2>1, <2>2, <2>3, <3>2 DEF Composite
      <4>2. QED
        BY <3>2, <4>1 DEF Segments, Composite
    <3>3. QED
      BY <2>1, <3>1, <3>2 DEF Expression
  <2>5. PICK s \in Segments(T[p]) : TRUE
    BY <2>4
  <2>6. Append(p, s) \in DOMAIN T /\ Append(p, s) # <<>> /\ Front(Append(p, s)) = p
    BY <2>5, Elements
  <2>7. Append(p, s) \in {q \in DOMAIN T : q # <<>> /\ Front(q) = p}
    BY <2>6
  <2>8. QED
    BY <2>7, OpenedOf
<1>2. ASSUME NEW o \in DOMAIN T, ParentIn(T)[o] = NoOcc \/ KindIn(T)[ParentIn(T)[o]] # "serial"
      PROVE  DepsIn(T)[o] = {}
  <2>1. CASE o = <<>>
    BY <2>1, OpenedOf DEF DepsOf
  <2>2. CASE o # <<>>
    <3>1. ParentIn(T)[o] = Front(o) /\ Front(o) \in DOMAIN T /\ Front(o) # NoOcc
      BY <2>2, OpenedOf, TreeFacts
    <3>2. T[Front(o)].op # "serial"
      BY <1>2, <3>1 DEF KindIn, KindOf
    <3>3. QED
      BY <3>2, OpenedOf DEF DepsOf
  <2>3. QED
    BY <2>1, <2>2
<1>3. ASSUME NEW o \in DOMAIN T, InputIn(T)[o] # NoOcc
      PROVE  \E q \in {o, ParentIn(T)[o]} \ {NoOcc} : InputIn(T)[o] \in DepsIn(T)[q]
  <2>1. InputIn(T)[o] = Offered(T)[o] /\ Offered(T)[o] # NoOcc
    BY <1>3, OpenedOf DEF InputOf
  <2>2. o # <<>> /\ (Offered(T)[o] \in DepsOf(T, o) \/ Offered(T)[o] \in DepsOf(T, Front(o)))
    BY <2>1, OfferedFromBefore
  <2>3. /\ ParentIn(T)[o] = Front(o) /\ Front(o) \in DOMAIN T /\ Front(o) # NoOcc /\ o # NoOcc
        /\ DepsIn(T)[o] = DepsOf(T, o) /\ DepsIn(T)[Front(o)] = DepsOf(T, Front(o))
    BY <2>2, OpenedOf, TreeFacts
  <2>4. QED
    BY <2>1, <2>2, <2>3
<1>4. QED
  BY <1>1, <1>2, <1>3 DEF Opened!Dependent

\* Every tree that validation accepts, of any shape and size, is unrolled into
\* a program as Carousel and Vessel assume it: their theorems are about all of
\* them.
THEOREM AcceptedIsAssumed ==
  ASSUME NEW T \in Trees, Accepted(T)
  PROVE  /\ Opened(T)!OccurrenceTypes /\ Opened(T)!RegisteredOnce
         /\ Opened(T)!LeadUp /\ Opened(T)!Composed /\ Opened(T)!Dependent
<1>1. IsTree(T) /\ NoOcc \notin Seq(Nat)
  BY TreesAreTrees
<1>2. QED
  BY <1>1, OpenedTypes, OpenedOnce, OpenedLeadUp, OpenedComposed, OpenedDependent
=============================================================================
