---------------------------- MODULE CycleProofs -----------------------------
(***************************************************************************)
(* Proofs about CycleCheck.tla: for every set of nodes, finite or not, and *)
(* every graph, the search reports a cycle only when there is one and      *)
(* accepts only when there is none.                                        *)
(***************************************************************************)
EXTENDS CycleCheck, TLAPS, FiniteSets, FiniteSetTheorems

CycleTypeOK ==
  /\ edges \in [Node -> SUBSET Node]
  /\ color \in [Node -> {"white", "grey", "black"}]
  /\ stack \in Seq(Node)
  /\ todo \in [Node -> SUBSET Node]
  /\ roots \subseteq Node
  /\ verdict \in {"none", "cycle", "accepted"}

\* visit keeps its colours: the grey nodes are the calls in progress, each
\* referring to the next, and whatever a black node refers to is black, so
\* that no cycle goes through black nodes and none of them is visited twice.
ColoursAreSound ==
  /\ \A n \in Node : color[n] = "grey" <=> \E i \in DOMAIN stack : stack[i] = n
  /\ \A i, j \in DOMAIN stack : stack[i] = stack[j] => i = j
  /\ \A i \in DOMAIN stack : i > 1 => stack[i] \in edges[stack[i - 1]]
  /\ \A n \in Node : color[n] = "black" => \A t \in edges[n] : color[t] = "black"

\* No cycle runs through black nodes only.
BlackIsEnding ==
  \A S \in SUBSET Node : (\A n \in S : color[n] = "black") => ~Endless(S)

\* What a call of visit has looked at is black, except for the next call.
LookedAt ==
  \A i \in DOMAIN stack : \A t \in edges[stack[i]] :
     t \in todo[stack[i]] \/ color[t] = "black" \/ (i < Len(stack) /\ stack[i + 1] = t)

\* Only references are looked at.
TodoAreReferences == \A n \in Node : todo[n] \subseteq edges[n]

\* A node that refers to others is still to come, or was visited.
RootsAreKept == \A n \in Node : edges[n] # {} => n \in roots \/ color[n] # "white"

Reported == verdict = "cycle" => Cyclic
Accepted == verdict = "accepted" => stack = <<>> /\ roots = {}

Inv ==
  /\ CycleTypeOK /\ ColoursAreSound
  /\ BlackIsEnding /\ LookedAt /\ TodoAreReferences /\ RootsAreKept /\ Reported /\ Accepted

-----------------------------------------------------------------------------

\* No node is visited before the search starts.
LEMMA InitInv == Init => Inv
<1> SUFFICES ASSUME Init PROVE Inv
  OBVIOUS
<1>1. stack = <<>> /\ DOMAIN stack = {} /\ stack \in Seq(Node)
  BY DEF Init
<1>2. CycleTypeOK
  BY <1>1, GraphTypes DEF Init, CycleTypeOK
<1>3. ColoursAreSound
  BY <1>1 DEF Init, ColoursAreSound
<1>4. BlackIsEnding
  BY DEF Init, BlackIsEnding, Endless
<1>5. LookedAt /\ TodoAreReferences /\ RootsAreKept /\ Reported /\ Accepted
  BY <1>1 DEF Init, LookedAt, TodoAreReferences, RootsAreKept, Reported, Accepted
<1>6. QED
  BY <1>2, <1>3, <1>4, <1>5 DEF Inv

\* Entering a white node that the innermost call refers to, or any white node
\* when no call is in progress.
LEMMA EnterInv ==
  ASSUME Inv, verdict = "none", NEW t \in Node, color[t] = "white",
         stack # <<>> => t \in edges[Top],
         color' = [color EXCEPT ![t] = "grey"],
         stack' = Append(stack, t),
         todo' \in [Node -> SUBSET Node],
         todo'[t] = edges[t],
         \A n \in Node \ {t} : todo'[n] = IF stack # <<>> /\ n = Top THEN todo[n] \ {t} ELSE todo[n],
         roots' \subseteq roots, \A n \in roots \ roots' : n = t,
         UNCHANGED <<edges, verdict>>
  PROVE  Inv'
<1> DEFINE k == Len(stack)
<1>1. k \in Nat /\ stack \in Seq(Node) /\ DOMAIN stack = 1..k
  BY DEF Inv, CycleTypeOK
<1>2. stack' \in Seq(Node) /\ Len(stack') = k + 1 /\ DOMAIN stack' = 1..(k + 1)
      /\ stack'[k + 1] = t /\ \A i \in 1..k : stack'[i] = stack[i]
  BY <1>1
<1>3. \A i \in 1..k : stack[i] # t /\ stack[i] \in Node /\ color[stack[i]] = "grey"
  BY <1>1 DEF Inv, ColoursAreSound, CycleTypeOK
<1>4. CycleTypeOK'
  BY <1>2 DEF Inv, CycleTypeOK
<1>5. ColoursAreSound'
  <2>1. \A n \in Node : color'[n] = "grey" <=> \E i \in DOMAIN stack' : stack'[i] = n
    BY <1>1, <1>2 DEF Inv, ColoursAreSound, CycleTypeOK
  <2>2. \A i, j \in DOMAIN stack' : stack'[i] = stack'[j] => i = j
    BY <1>1, <1>2, <1>3 DEF Inv, ColoursAreSound
  <2>3. \A i \in DOMAIN stack' : i > 1 => stack'[i] \in edges'[stack'[i - 1]]
    <3> SUFFICES ASSUME NEW i \in 1..(k + 1), i > 1
                 PROVE  stack'[i] \in edges[stack'[i - 1]]
      BY <1>2
    <3>1. CASE i \in 1..k
      <4>1. i - 1 \in 1..k /\ i \in 1..k
        BY <1>1, <3>1
      <4>2. stack'[i] = stack[i] /\ stack'[i - 1] = stack[i - 1]
        BY <1>2, <4>1
      <4>3. stack[i] \in edges[stack[i - 1]]
        BY <1>1, <4>1 DEF Inv, ColoursAreSound
      <4>4. QED
        BY <4>2, <4>3
    <3>2. CASE i = k + 1
      <4>1. k # 0 /\ i - 1 = k /\ k \in 1..k
        BY <1>1, <3>2
      <4>2. stack # <<>>
        BY <4>1
      <4>3. stack'[i] = t /\ stack'[i - 1] = Top
        BY <1>2, <3>2, <4>1 DEF Top
      <4>4. QED
        BY <4>2, <4>3
    <3>3. QED
      BY <3>1, <3>2, <1>1
  <2>4. \A n \in Node : color'[n] = "black" => \A u \in edges'[n] : color'[u] = "black"
    BY DEF Inv, ColoursAreSound, CycleTypeOK
  <2>5. QED
    BY <2>1, <2>2, <2>3, <2>4 DEF ColoursAreSound
<1>6. BlackIsEnding'
  BY DEF Inv, BlackIsEnding, Endless, CycleTypeOK
<1>7. LookedAt'
  <2> SUFFICES ASSUME NEW i \in 1..(k + 1), NEW u \in edges[stack'[i]]
               PROVE  \/ u \in todo'[stack'[i]] \/ color'[u] = "black"
                      \/ i < k + 1 /\ stack'[i + 1] = u
    BY <1>2 DEF LookedAt
  <2>1. CASE i = k + 1
    BY <1>2, <2>1
  <2>2. CASE i \in 1..k
    <3>1. u \in todo[stack[i]] \/ color[u] = "black" \/ (i < k /\ stack[i + 1] = u)
      BY <1>1, <1>2, <2>2 DEF Inv, LookedAt
    <3>2. stack[i] \in Node /\ stack[i] # t /\ u \in Node
      BY <1>2, <1>3, <2>2 DEF Inv, CycleTypeOK
    <3>3. CASE color[u] = "black"
      BY <3>2, <3>3 DEF Inv, CycleTypeOK
    <3>4. CASE i < k /\ stack[i + 1] = u
      BY <1>1, <1>2, <3>4
    <3>5. CASE u \in todo[stack[i]]
      <4>1. CASE u \in todo'[stack[i]]
        BY <1>2, <2>2, <4>1
      <4>2. CASE u \notin todo'[stack[i]]
        <5>1. stack # <<>> /\ stack[i] = Top /\ u = t
          BY <3>2, <3>5, <4>2
        <5>2. i = k
          <6>1. k \in 1..k /\ stack[k] = Top
            BY <1>1, <2>2 DEF Top
          <6>2. \A a, b \in 1..k : stack[a] = stack[b] => a = b
            BY <1>1 DEF Inv, ColoursAreSound
          <6>3. QED
            BY <5>1, <6>1, <6>2, <2>2
        <5>3. QED
          BY <5>1, <5>2, <1>1, <1>2
      <4>3. QED
        BY <4>1, <4>2
    <3>6. QED
      BY <3>1, <3>3, <3>4, <3>5
  <2>3. QED
    BY <2>1, <2>2, <1>1
<1>8. RootsAreKept'
  BY DEF Inv, RootsAreKept, CycleTypeOK
<1>9. TodoAreReferences'
  BY DEF Inv, TodoAreReferences, CycleTypeOK
<1>10. Reported' /\ Accepted'
  BY DEF Inv, Reported, Accepted, Cyclic, Endless
<1>11. QED
  BY <1>4, <1>5, <1>6, <1>7, <1>8, <1>9, <1>10 DEF Inv

\* The outermost loop enters a white node or passes over one.
LEMMA RootInv == Inv /\ verdict = "none" /\ NextRoot => Inv'
<1> SUFFICES ASSUME Inv, verdict = "none", stack = <<>>, NEW n \in roots,
                    roots' = roots \ {n},
                    IF color[n] = "white" THEN Visit(n) ELSE UNCHANGED <<color, todo, stack>>,
                    UNCHANGED <<edges, verdict>>
             PROVE  Inv'
  BY DEF NextRoot
<1>1. n \in Node
  BY DEF Inv, CycleTypeOK
<1>2. CASE color[n] = "white"
  <2>1. /\ todo' \in [Node -> SUBSET Node] /\ todo'[n] = edges[n]
        /\ \A m \in Node \ {n} : todo'[m] = todo[m]
        /\ color' = [color EXCEPT ![n] = "grey"] /\ stack' = Append(stack, n)
    BY <1>1, <1>2 DEF Visit, Inv, CycleTypeOK
  <2>2. QED
    BY <1>1, <1>2, <2>1, EnterInv
<1>3. CASE color[n] # "white"
  <2>1. UNCHANGED <<color, todo, stack>>
    BY <1>3
  <2>2. RootsAreKept'
    BY <2>1, <1>3 DEF Inv, RootsAreKept
  <2>3. CycleTypeOK'
    BY <2>1 DEF Inv, CycleTypeOK
  <2>4. QED
    BY <2>1, <2>2, <2>3 DEF Inv, ColoursAreSound, BlackIsEnding, Endless, LookedAt,
                            TodoAreReferences, Reported, Accepted, Cyclic
<1>4. QED
  BY <1>2, <1>3

\* The innermost call follows a reference.
LEMMA FollowInv == Inv /\ verdict = "none" /\ Follow => Inv'
<1> SUFFICES ASSUME Inv, verdict = "none", stack # <<>>, NEW t \in todo[Top],
                    UNCHANGED <<edges, roots>>,
                    \/ Closes(t) /\ verdict' = "cycle" /\ UNCHANGED <<color, todo, stack>>
                    \/ /\ ~Closes(t) /\ color[t] = "white"
                       /\ color' = [color EXCEPT ![t] = "grey"]
                       /\ todo' = [todo EXCEPT ![Top] = @ \ {t}, ![t] = edges[t]]
                       /\ stack' = Append(stack, t)
                       /\ UNCHANGED verdict
                    \/ /\ ~Closes(t) /\ color[t] # "white"
                       /\ todo' = [todo EXCEPT ![Top] = @ \ {t}]
                       /\ UNCHANGED <<color, stack, verdict>>
             PROVE  Inv'
  BY DEF Follow
<1> DEFINE k == Len(stack)
<1>1. k \in Nat \ {0} /\ DOMAIN stack = 1..k /\ Top = stack[k] /\ Top \in Node
  BY DEF Inv, CycleTypeOK, Top
<1>2. t \in Node
  BY <1>1 DEF Inv, CycleTypeOK
<1>3. color[Top] = "grey"
  BY <1>1 DEF Inv, ColoursAreSound
<1>4. t \in edges[Top]
  BY <1>1 DEF Inv, TodoAreReferences
<1>5. CASE Closes(t) /\ verdict' = "cycle" /\ UNCHANGED <<color, todo, stack>>
  <2>1. PICK i \in 1..k : stack[i] = t
    BY <1>1, <1>2, <1>5 DEF Closes, Inv, ColoursAreSound
  <2> DEFINE S == {stack[j] : j \in i..k}
  <2>2. S \subseteq Node /\ t \in S
    BY <1>1, <2>1 DEF Inv, CycleTypeOK
  <2>3. \A n \in S : edges[n] \cap S # {}
    <3> SUFFICES ASSUME NEW j \in i..k
                 PROVE  edges[stack[j]] \cap S # {}
      OBVIOUS
    <3>1. CASE j = k
      BY <1>1, <1>4, <2>2, <3>1
    <3>2. CASE j # k
      <4>1. j + 1 \in i..k /\ j + 1 \in DOMAIN stack /\ j + 1 > 1 /\ (j + 1) - 1 = j
        <5>1. i \in Nat /\ i >= 1 /\ j \in Nat /\ i <= j /\ j <= k /\ k \in Nat
          BY <1>1, <2>1
        <5>2. j + 1 \in Nat /\ j + 1 <= k /\ j + 1 > 1 /\ (j + 1) - 1 = j /\ i <= j + 1 /\ 1 <= j + 1
          BY <5>1, <3>2
        <5>3. QED
          BY <5>1, <5>2, <1>1
      <4>2. stack[j + 1] \in edges[stack[j]]
        BY <4>1 DEF Inv, ColoursAreSound
      <4>3. stack[j + 1] \in S
        BY <4>1
      <4>4. QED
        BY <4>2, <4>3
    <3>3. QED
      BY <3>1, <3>2
  <2>4. Cyclic
    <3> HIDE DEF S
    <3>1. QED
      BY <2>2, <2>3 DEF Cyclic, Endless
  <2>5. Cyclic'
    BY <2>4 DEF Cyclic, Endless
  <2>6. QED
    BY <1>5, <2>5 DEF Inv, CycleTypeOK, ColoursAreSound, BlackIsEnding, Endless, LookedAt,
                      TodoAreReferences, RootsAreKept, Reported, Accepted
<1>6. CASE /\ ~Closes(t) /\ color[t] = "white"
           /\ color' = [color EXCEPT ![t] = "grey"]
           /\ todo' = [todo EXCEPT ![Top] = @ \ {t}, ![t] = edges[t]]
           /\ stack' = Append(stack, t)
           /\ UNCHANGED verdict
  <2>1. t # Top
    BY <1>3, <1>6
  <2>2. /\ todo' \in [Node -> SUBSET Node] /\ todo'[t] = edges[t]
        /\ \A n \in Node \ {t} : todo'[n] = IF n = Top THEN todo[n] \ {t} ELSE todo[n]
    BY <1>1, <1>2, <1>6, <2>1 DEF Inv, CycleTypeOK
  <2>3. QED
    BY <1>2, <1>4, <1>6, <2>2, EnterInv
<1>7. CASE /\ ~Closes(t) /\ color[t] # "white"
           /\ todo' = [todo EXCEPT ![Top] = @ \ {t}]
           /\ UNCHANGED <<color, stack, verdict>>
  <2>1. color[t] = "black"
    BY <1>2, <1>7 DEF Closes, Inv, CycleTypeOK
  <2>2. CycleTypeOK' /\ TodoAreReferences'
    BY <1>1, <1>7 DEF Inv, CycleTypeOK, TodoAreReferences
  <2>3. LookedAt'
    <3> SUFFICES ASSUME NEW i \in 1..k, NEW u \in edges[stack[i]]
                 PROVE  u \in todo'[stack[i]] \/ color[u] = "black" \/ (i < k /\ stack[i + 1] = u)
      BY <1>1, <1>7 DEF LookedAt
    <3>1. stack[i] \in Node
      BY <1>1 DEF Inv, CycleTypeOK
    <3>2. u \in todo[stack[i]] \/ color[u] = "black" \/ (i < k /\ stack[i + 1] = u)
      BY <1>1 DEF Inv, LookedAt
    <3>3. u \in todo[stack[i]] => u \in todo'[stack[i]] \/ u = t
      BY <1>1, <1>7, <3>1 DEF Inv, CycleTypeOK
    <3>4. QED
      BY <2>1, <3>2, <3>3
  <2>4. QED
    BY <1>7, <2>2, <2>3 DEF Inv, ColoursAreSound, BlackIsEnding, Endless, RootsAreKept, Reported,
                            Accepted, Cyclic
<1>8. QED
  BY <1>5, <1>6, <1>7

\* A call returns: all its node refers to is black, and so is the node now.
LEMMA ReturnInv == Inv /\ verdict = "none" /\ Return => Inv'
<1> SUFFICES ASSUME Inv, verdict = "none", Return
             PROVE  Inv'
  OBVIOUS
<1> DEFINE k == Len(stack)
           x == stack[k]
<1>1. /\ k \in Nat \ {0} /\ DOMAIN stack = 1..k /\ x \in Node /\ todo[x] = {}
      /\ color' = [color EXCEPT ![x] = "black"]
      /\ UNCHANGED <<edges, todo, roots, verdict>>
  BY DEF Inv, CycleTypeOK, Return, Top
<1>2. /\ stack' \in Seq(Node) /\ Len(stack') = k - 1 /\ DOMAIN stack' = 1..(k - 1)
      /\ \A i \in 1..(k - 1) : stack'[i] = stack[i] /\ stack[i] # x /\ stack[i] \in Node
  <2>1. stack' = SubSeq(stack, 1, k - 1) /\ stack \in Seq(Node)
    BY DEF Inv, CycleTypeOK, Return
  <2>2. stack' \in Seq(Node) /\ Len(stack') = k - 1 /\ DOMAIN stack' = 1..(k - 1)
        /\ \A i \in 1..(k - 1) : stack'[i] = stack[i]
    BY <1>1, <2>1
  <2>3. \A i \in 1..(k - 1) : stack[i] # x /\ stack[i] \in Node
    BY <1>1 DEF Inv, ColoursAreSound, CycleTypeOK
  <2>4. QED
    BY <2>2, <2>3
<1>3. color[x] = "grey"
  BY <1>1 DEF Inv, ColoursAreSound
<1>4. \A u \in edges[x] : color[u] = "black"
  BY <1>1 DEF Inv, LookedAt
<1>5. CycleTypeOK' /\ TodoAreReferences' /\ RootsAreKept'
  BY <1>1, <1>2, <1>3 DEF Inv, CycleTypeOK, TodoAreReferences, RootsAreKept
<1>6. ColoursAreSound'
  <2>1. \A n \in Node : color'[n] = "grey" <=> \E i \in DOMAIN stack' : stack'[i] = n
    <3> SUFFICES ASSUME NEW n \in Node
                 PROVE  color'[n] = "grey" <=> \E i \in DOMAIN stack' : stack'[i] = n
      OBVIOUS
    <3>a. (\E i \in DOMAIN stack' : stack'[i] = n) <=> \E i \in 1..(k - 1) : stack[i] = n
      <4> HIDE DEF k
      <4>1. DOMAIN stack' = 1..(k - 1) /\ \A i \in 1..(k - 1) : stack'[i] = stack[i]
        BY <1>2
      <4>2. QED
        BY <4>1
    <3>1. color[n] = "grey" <=> \E i \in 1..k : stack[i] = n
      BY <1>1 DEF Inv, ColoursAreSound
    <3>2. CASE n = x
      <4>1. color'[n] = "black"
        BY <1>1, <3>2 DEF Inv, CycleTypeOK
      <4>2. \A i \in 1..(k - 1) : stack[i] # n
        BY <1>2, <3>2
      <4>3. QED
        BY <3>a, <4>1, <4>2
    <3>3. CASE n # x
      <4>1. color'[n] = color[n]
        BY <1>1, <3>3 DEF Inv, CycleTypeOK
      <4>2. (\E i \in 1..k : stack[i] = n) <=> \E i \in 1..(k - 1) : stack[i] = n
        <5>1. \A i \in 1..k : i = k \/ i \in 1..(k - 1)
          <6> HIDE DEF k
          <6>1. k \in Nat /\ k # 0
            BY <1>1
          <6>2. QED
            BY <6>1
        <5>2. \A i \in 1..(k - 1) : i \in 1..k
          <6> HIDE DEF k
          <6>1. k \in Nat /\ k # 0
            BY <1>1
          <6>2. QED
            BY <6>1
        <5>3. QED
          BY <5>1, <5>2, <3>3
      <4>3. QED
        BY <3>a, <3>1, <4>1, <4>2
    <3>4. QED
      BY <3>2, <3>3
  <2>2. \A i, j \in DOMAIN stack' : stack'[i] = stack'[j] => i = j
    BY <1>1, <1>2 DEF Inv, ColoursAreSound
  <2>3. \A i \in DOMAIN stack' : i > 1 => stack'[i] \in edges'[stack'[i - 1]]
    <3> SUFFICES ASSUME NEW i \in 1..(k - 1), i > 1
                 PROVE  stack'[i] \in edges[stack'[i - 1]]
      BY <1>1, <1>2
    <3>1. i - 1 \in 1..(k - 1) /\ i \in 1..k
      BY <1>1
    <3>2. stack'[i] = stack[i] /\ stack'[i - 1] = stack[i - 1]
      BY <1>2, <3>1
    <3>3. QED
      BY <1>1, <3>1, <3>2 DEF Inv, ColoursAreSound
  <2>4. \A n \in Node : color'[n] = "black" => \A u \in edges'[n] : color'[u] = "black"
    BY <1>1, <1>4 DEF Inv, ColoursAreSound, CycleTypeOK
  <2>5. QED
    BY <2>1, <2>2, <2>3, <2>4 DEF ColoursAreSound
<1>7. BlackIsEnding'
  <2> SUFFICES ASSUME NEW S \in SUBSET Node, \A n \in S : color'[n] = "black",
                      S # {}, \A n \in S : edges[n] \cap S # {}
               PROVE  FALSE
    BY <1>1 DEF BlackIsEnding, Endless
  <2> DEFINE R == S \ {x}
  <2>1. \A n \in R : color[n] = "black"
    BY <1>1 DEF Inv, CycleTypeOK
  <2>2. \A n \in R : x \notin edges[n]
    BY <1>3, <2>1 DEF Inv, ColoursAreSound
  <2>3. \A n \in R : edges[n] \cap R # {}
    BY <2>2
  <2>4. R # {}
    <3>1. x \notin edges[x]
      BY <1>3, <1>4
    <3>2. QED
      BY <3>1
  <2>5. QED
    <3> HIDE DEF R
    <3>1. R \in SUBSET Node
      BY DEF R
    <3>2. QED
      BY <2>1, <2>3, <2>4, <3>1 DEF Inv, BlackIsEnding, Endless
<1>8. LookedAt'
  <2> SUFFICES ASSUME NEW i \in 1..(k - 1), NEW u \in edges[stack[i]]
               PROVE  \/ u \in todo[stack[i]] \/ color'[u] = "black"
                      \/ i < k - 1 /\ stack[i + 1] = u
    <3>1. \A i \in 1..(k - 1) : i < k - 1 => stack'[i + 1] = stack[i + 1]
      BY <1>1, <1>2
    <3>2. QED
      BY <1>1, <1>2, <3>1 DEF LookedAt
  <2>1. i \in 1..k /\ (i < k => i = k - 1 \/ i < k - 1) /\ u \in Node
    <3>1. i \in 1..k /\ (i < k => i = k - 1 \/ i < k - 1)
      <4> HIDE DEF k
      <4>1. k \in Nat /\ k # 0
        BY <1>1
      <4>2. QED
        BY <4>1
    <3>2. stack[i] \in Node /\ edges[stack[i]] \subseteq Node
      BY <1>2 DEF Inv, CycleTypeOK
    <3>3. QED
      BY <3>1, <3>2
  <2>2. u \in todo[stack[i]] \/ color[u] = "black" \/ (i < k /\ stack[i + 1] = u)
    BY <1>1, <2>1 DEF Inv, LookedAt
  <2>3. i = k - 1 /\ stack[i + 1] = u => u = x
    BY <1>1
  <2>4. color'[x] = "black" /\ (color[u] = "black" => color'[u] = "black")
    BY <1>1, <2>1 DEF Inv, CycleTypeOK
  <2>5. QED
    BY <2>1, <2>2, <2>3, <2>4
<1>9. Reported' /\ Accepted'
  BY <1>1 DEF Inv, Reported, Accepted
<1>10. QED
  BY <1>5, <1>6, <1>7, <1>8, <1>9 DEF Inv

\* Acceptance changes nothing else.
LEMMA AcceptInv == Inv /\ verdict = "none" /\ Accept => Inv'
  BY DEF Accept, Inv, CycleTypeOK, ColoursAreSound, BlackIsEnding, Endless, LookedAt,
         TodoAreReferences, RootsAreKept, Reported, Accepted

\* The invariant is inductive.
LEMMA NextInv == Inv /\ [Next]_vars => Inv'
<1>1. Inv /\ UNCHANGED vars => Inv'
  BY DEF vars, Inv, CycleTypeOK, ColoursAreSound, BlackIsEnding, Endless, LookedAt,
         TodoAreReferences, RootsAreKept, Reported, Accepted, Cyclic
<1>2. QED
  BY <1>1, RootInv, FollowInv, ReturnInv, AcceptInv DEF Next

\* The invariant holds of every reachable state.
LEMMA Invariance == Spec => []Inv
  BY InitInv, NextInv, PTL DEF Spec

\* detectCycles reports a cycle exactly when the references have one.
THEOREM CyclesAreDetected == Spec => []DetectsCycles
<1>1. Inv => DetectsCycles
  <2> SUFFICES ASSUME Inv, verdict = "accepted", NEW S \in SUBSET Node, Endless(S)
               PROVE  FALSE
    BY DEF Inv, Reported, DetectsCycles, Cyclic
  <2>1. \A n \in S : edges[n] # {}
    BY DEF Endless
  <2>2. \A n \in S : color[n] \in {"grey", "black"}
    BY <2>1 DEF Inv, Accepted, RootsAreKept, CycleTypeOK
  <2>3. \A n \in Node : color[n] # "grey"
    <3>1. stack = <<>> /\ DOMAIN stack = {}
      BY DEF Inv, Accepted
    <3>2. QED
      BY <3>1 DEF Inv, ColoursAreSound
  <2>4. QED
    BY <2>2, <2>3 DEF Inv, BlackIsEnding
<1>2. QED
  BY <1>1, Invariance, PTL

-----------------------------------------------------------------------------
(* How long a check takes.                                                 *)

\* The references from a binding to another that visit has not looked at.
Unlooked ==
  {e \in Node \X Node : (color[e[1]] = "white" /\ e[2] \in edges[e[1]]) \/ e[2] \in todo[e[1]]}

Unfinished == {n \in Node : color[n] # "black"}

\* The steps left: each takes a name off the outermost loop, looks at a
\* reference, finishes a binding or gives the verdict.
CheckLeft ==
  Cardinality(roots) + Cardinality(Unlooked) + Cardinality(Unfinished)
  + IF verdict = "none" THEN 1 ELSE 0

\* A set that only loses members does not grow, and is smaller once it lost one.
LEMMA FewerElements ==
  ASSUME NEW S, NEW R, IsFiniteSet(S), R \subseteq S
  PROVE  /\ Cardinality(R) \in Nat /\ Cardinality(R) <= Cardinality(S)
         /\ R # S => Cardinality(R) < Cardinality(S)
<1>1. /\ IsFiniteSet(R) /\ Cardinality(R) <= Cardinality(S)
      /\ R # S => Cardinality(R) # Cardinality(S)
  BY FS_Subset
<1>2. Cardinality(R) \in Nat /\ Cardinality(S) \in Nat
  BY <1>1, FS_CardinalityType
<1>3. QED
  BY <1>1, <1>2

\* What a check has left to do on a finite unit is finite.
LEMMA CheckSetsAreFinite ==
  ASSUME Inv, IsFiniteSet(Node)
  PROVE  /\ IsFiniteSet(roots) /\ IsFiniteSet(Unlooked) /\ IsFiniteSet(Unfinished)
         /\ Cardinality(roots) \in Nat /\ Cardinality(Unlooked) \in Nat /\ Cardinality(Unfinished) \in Nat
<1>1. IsFiniteSet(Node \X Node)
  BY FS_Product
<1>2. Unlooked \in SUBSET (Node \X Node) /\ Unfinished \in SUBSET Node /\ roots \in SUBSET Node
  BY DEF Unlooked, Unfinished, Inv, CycleTypeOK
<1>3. IsFiniteSet(roots) /\ IsFiniteSet(Unlooked) /\ IsFiniteSet(Unfinished)
  BY <1>1, <1>2, FS_Subset
<1>4. QED
  BY <1>3, FS_CardinalityType

\* Each step of the search takes something away and puts nothing back: a
\* binding's references are looked at once, however often it is reached.
LEMMA StepsShrink ==
  ASSUME Inv, IsFiniteSet(Node), Next
  PROVE  /\ roots' \subseteq roots /\ Unlooked' \subseteq Unlooked /\ Unfinished' \subseteq Unfinished
         /\ \/ roots' # roots \/ Unlooked' # Unlooked \/ Unfinished' # Unfinished
            \/ verdict' # "none"
<1> USE DEF Inv, CycleTypeOK
<1>1. CASE NextRoot
  <2>1. PICK n \in roots : /\ roots' = roots \ {n}
                           /\ IF color[n] = "white" THEN Visit(n) ELSE UNCHANGED <<color, todo, stack>>
    BY <1>1 DEF NextRoot
  <2>2. roots' \subseteq roots /\ roots' # roots /\ edges' = edges /\ n \in Node
    BY <1>1, <2>1 DEF NextRoot
  <2>3. Unlooked' \subseteq Unlooked /\ Unfinished' \subseteq Unfinished
    BY <2>1, <2>2 DEF Visit, Unlooked, Unfinished
  <2>4. QED
    BY <2>2, <2>3
<1>2. CASE Follow
  <2>1. Top \in Node /\ color[Top] = "grey"
    <3>1. Len(stack) \in DOMAIN stack /\ stack[Len(stack)] \in Node
      BY <1>2 DEF Follow
    <3>2. QED
      BY <3>1 DEF Top, ColoursAreSound
  <2>2. PICK t \in todo[Top] :
          \/ verdict' = "cycle" /\ UNCHANGED <<color, todo, stack>>
          \/ /\ color[t] = "white" /\ color' = [color EXCEPT ![t] = "grey"]
             /\ todo' = [todo EXCEPT ![Top] = @ \ {t}, ![t] = edges[t]]
          \/ /\ color[t] # "white" /\ todo' = [todo EXCEPT ![Top] = @ \ {t}] /\ color' = color
    BY <1>2 DEF Follow
  <2>3. t \in Node /\ edges' = edges /\ roots' = roots
    BY <1>2, <2>1 DEF Follow
  <2>4. CASE verdict' = "cycle" /\ UNCHANGED <<color, todo, stack>>
    BY <2>3, <2>4 DEF Unlooked, Unfinished
  <2>5. CASE \/ /\ color[t] = "white" /\ color' = [color EXCEPT ![t] = "grey"]
                /\ todo' = [todo EXCEPT ![Top] = @ \ {t}, ![t] = edges[t]]
             \/ /\ color[t] # "white" /\ todo' = [todo EXCEPT ![Top] = @ \ {t}] /\ color' = color
    <3>1. t # Top \/ color[t] # "white"
      BY <2>1
    <3>2. \A n \in Node : (color[n] = "white") => color'[n] = "white" \/ n = t
      BY <2>3, <2>5
    <3>3. /\ \A n \in Node : color'[n] = "white" => color[n] = "white"
          /\ \A n \in Node : color'[n] # "black" => color[n] # "black"
      BY <2>3, <2>5
    <3>4. \A n \in Node : todo'[n] \subseteq todo[n] \/ (n = t /\ color[n] = "white" /\ todo'[n] = edges[n])
      BY <2>1, <2>3, <2>5
    <3>5. t \notin todo'[Top] /\ color'[Top] = "grey"
      BY <2>1, <2>3, <2>5, <3>1
    <3>6. <<Top, t>> \in Unlooked /\ <<Top, t>> \notin Unlooked'
      BY <2>1, <2>2, <2>3, <3>5 DEF Unlooked
    <3>7. Unlooked' \subseteq Unlooked
      BY <2>3, <3>3, <3>4 DEF Unlooked
    <3>8. Unfinished' \subseteq Unfinished
      BY <3>3 DEF Unfinished
    <3>9. QED
      BY <2>3, <3>6, <3>7, <3>8
  <2>6. QED
    BY <2>2, <2>4, <2>5
<1>3. CASE Return
  <2>1. Top \in Node /\ color[Top] = "grey"
    <3>1. Len(stack) \in DOMAIN stack /\ stack[Len(stack)] \in Node
      BY <1>3 DEF Return
    <3>2. QED
      BY <3>1 DEF Top, ColoursAreSound
  <2>2. color' = [color EXCEPT ![Top] = "black"] /\ edges' = edges /\ roots' = roots /\ todo' = todo
    BY <1>3 DEF Return
  <2>3. Unlooked' \subseteq Unlooked /\ Unfinished' \subseteq Unfinished
    BY <2>1, <2>2 DEF Unlooked, Unfinished
  <2>4. Top \in Unfinished /\ Top \notin Unfinished'
    BY <2>1, <2>2 DEF Unfinished
  <2>5. QED
    BY <2>2, <2>3, <2>4
<1>4. CASE Accept
  BY <1>4 DEF Accept, Unlooked, Unfinished
<1>5. QED
  BY <1>1, <1>2, <1>3, <1>4 DEF Next

\* On a finite unit the search is over after at most as many steps as there are
\* bindings with references, references and bindings, and one for the verdict:
\* what is shared by many references is looked at once.
THEOREM ChecksAreShort ==
  ASSUME IsFiniteSet(Node)
  PROVE  Spec => [][CheckLeft' < CheckLeft /\ CheckLeft' \in Nat /\ CheckLeft \in Nat]_vars
<1>1. Inv /\ Inv' /\ [Next]_vars =>
        [CheckLeft' < CheckLeft /\ CheckLeft' \in Nat /\ CheckLeft \in Nat]_vars
  <2> SUFFICES ASSUME Inv, Inv', Next
               PROVE  CheckLeft \in Nat /\ CheckLeft' \in Nat /\ CheckLeft' < CheckLeft
    OBVIOUS
  <2>1. /\ Cardinality(roots) \in Nat /\ Cardinality(Unlooked) \in Nat /\ Cardinality(Unfinished) \in Nat
        /\ IsFiniteSet(roots) /\ IsFiniteSet(Unlooked) /\ IsFiniteSet(Unfinished)
    BY CheckSetsAreFinite
  <2>2. /\ Cardinality(roots') \in Nat /\ Cardinality(roots') <= Cardinality(roots)
        /\ roots' # roots => Cardinality(roots') < Cardinality(roots)
    BY <2>1, StepsShrink, FewerElements
  <2>3. /\ Cardinality(Unlooked') \in Nat /\ Cardinality(Unlooked') <= Cardinality(Unlooked)
        /\ Unlooked' # Unlooked => Cardinality(Unlooked') < Cardinality(Unlooked)
    BY <2>1, StepsShrink, FewerElements
  <2>4. /\ Cardinality(Unfinished') \in Nat /\ Cardinality(Unfinished') <= Cardinality(Unfinished)
        /\ Unfinished' # Unfinished => Cardinality(Unfinished') < Cardinality(Unfinished)
    BY <2>1, StepsShrink, FewerElements
  <2>5. \/ roots' # roots \/ Unlooked' # Unlooked \/ Unfinished' # Unfinished
        \/ verdict' # "none"
    BY StepsShrink
  <2>6. verdict = "none"
    BY DEF Next
  <2>7. \A r, u, f, s, v, g, e \in Nat :
          /\ s <= r /\ v <= u /\ g <= f /\ e <= 1
          /\ s < r \/ v < u \/ g < f \/ e = 0
          => s + v + g + e < r + u + f + 1
    OBVIOUS
  <2>8. CASE verdict' = "none"
    <3>1. CheckLeft = Cardinality(roots) + Cardinality(Unlooked) + Cardinality(Unfinished) + 1
      BY <2>6 DEF CheckLeft
    <3>2. CheckLeft' = Cardinality(roots') + Cardinality(Unlooked') + Cardinality(Unfinished') + 1
      BY <2>8 DEF CheckLeft
    <3>3. CheckLeft' < CheckLeft
      BY <3>1, <3>2, <2>1, <2>2, <2>3, <2>4, <2>5, <2>7, <2>8
    <3>4. QED
      BY <3>1, <3>2, <3>3, <2>1, <2>2, <2>3, <2>4
  <2>9. CASE verdict' # "none"
    <3>1. CheckLeft = Cardinality(roots) + Cardinality(Unlooked) + Cardinality(Unfinished) + 1
      BY <2>6 DEF CheckLeft
    <3>2. CheckLeft' = Cardinality(roots') + Cardinality(Unlooked') + Cardinality(Unfinished') + 0
      BY <2>9 DEF CheckLeft
    <3>3. CheckLeft' < CheckLeft
      BY <3>1, <3>2, <2>1, <2>2, <2>3, <2>4, <2>7
    <3>4. QED
      BY <3>1, <3>2, <3>3, <2>1, <2>2, <2>3, <2>4
  <2>10. QED
    BY <2>8, <2>9
<1>2. QED
  BY <1>1, Invariance, PTL DEF Spec
=============================================================================
