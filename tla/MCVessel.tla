------------------------------ MODULE MCVessel ------------------------------
(***************************************************************************)
(* Whole runs of                                                           *)
(*     Root = [] -> [A[], B[]]                                             *)
(*     A = [] -> $a            B = [] -> {$b @p, C()}     C = () -> ...    *)
(* A Goal that may be deduced long before its serial predecessor is done,  *)
(* a parallel body, and an eager call disclosed with it.  In one of the    *)
(* runs $a, A and the body of B have policies, and the policy @p of $b may *)
(* be refused when $b is disclosed.                                        *)
(***************************************************************************)
EXTENDS Vessel

CONSTANTS Ticks, Answers

N == INSTANCE Notation

Bodies == [g \in {"Root", "A", "B", "C"} |->
  CASE g = "Root" -> N!Serial(<<N!Goal("A", "deferred"), N!Goal("B", "deferred")>>)
    [] g = "A" -> N!Anchor
    [] g = "B" -> N!Parallel(<<N!Anchor, N!Goal("C", "eager")>>)
    [] g = "C" -> N!Function]

Tree == N!TreeOf("Root", Bodies)

MCRoot == <<>>
\* Written out so that it is computed once.
MCOcc == {<<>>, <<0>>, <<0, 1>>, <<0, 2>>, <<0, 1, 0>>, <<0, 2, 0>>, <<0, 2, 0, 1>>, <<0, 2, 0, 2>>,
          <<0, 2, 0, 2, 0>>}
ASSUME ProgramIsAccepted == MCOcc = DOMAIN Tree /\ N!IsTree(Tree) /\ N!Accepted(Tree)

MCKind == N!KindIn(Tree)
MCParent == N!ParentIn(Tree)
MCInput == N!InputIn(Tree)
MCDeps == N!DepsIn(Tree)
MCStaged == N!StagedIn(Tree)
MCEager == N!EagerIn(Tree)
MCOutcomes == [l \in {i \in MCOcc : MCKind[i] \in {"anchor", "function"}} |->
  {[status |-> s, out |-> "value", ticks |-> t] : s \in Answers, t \in Ticks}]

MCNoPolicies == [i \in MCOcc |-> [e \in PolicyEvent |-> {<<>>}]]
MCMayFail == {<<0, 2>>, <<0, 2, 0, 2>>}      \* B and C
MCRejected == {<<0, 2, 0, 1>>}               \* $b

\* Policies on $a, on the Goal A around it and on the body of B.
Act(k, t) == [kind |-> k, ticks |-> t]
LeafAnswers == [e \in PolicyEvent |->
  CASE e = "ScopeOpened" -> {<<Act("StartTimer", 1), Act("Hold", 2)>>, <<Act("Hold", 1), Act("Admit", 0)>>}
    [] e = "BeforeAttempt" -> {<<>>, <<Act("Hold", 1)>>, <<Act("FailScope", 0)>>}
    [] e = "AttemptOutcome" -> {<<>>, <<Act("Admit", 0), Act("Reattempt", 0)>>,
                                <<Act("Reattempt", 2), Act("FailScope", 0)>>}
    [] e = "TimerFired" -> {<<>>, <<Act("Hold", 0)>>, <<Act("CancelScope", 0)>>}
    [] OTHER -> {<<>>}]
CompositeAnswers == [e \in PolicyEvent |->
  CASE e = "ScopeOpened" -> {<<Act("StartTimer", 1)>>}
    [] e = "TimerFired" -> {<<>>, <<Act("StartTimer", 2), Act("FailScope", 0)>>}
    [] e = "ChildScopeOutcome" -> {<<>>, <<Act("Admit", 0)>>, <<Act("Reattempt", 0)>>}
    [] e = "ScopeOutcomeProposed" -> {<<Act("Admit", 0)>>, <<Act("unknown", 0)>>}
    [] OTHER -> {<<>>}]
MCPolicies == [i \in MCOcc |->
  CASE i = <<0, 1, 0>> -> LeafAnswers
    [] i \in {<<0, 1>>, <<0, 2, 0>>} -> CompositeAnswers
    [] OTHER -> MCNoPolicies[i]]
=============================================================================
