--------------------------- MODULE MCVesselManual ---------------------------
(***************************************************************************)
(* Runs driven by hand (DemandManual, Advance, CancelScope, SetPrefetch, a *)
(* rival acknowledging Touchdowns) of                                      *)
(*     Root = [] -> {x: A[], y: B[]}                                       *)
(*     A = () -> ...          B = [] -> [$b, C]          C = [v] -> $c     *)
(* A resolving map whose branches may yield NoOutput, and a bare Goal      *)
(* behind the value barrier.                                               *)
(***************************************************************************)
EXTENDS Vessel

CONSTANTS Ticks, Answers

N == INSTANCE Notation

Bodies == [g \in {"Root", "A", "B", "C"} |->
  CASE g = "Root" -> N!MapOf(<<N!Goal("A", "deferred"), N!Goal("B", "deferred")>>)
    [] g = "A" -> N!Function
    [] g = "B" -> N!Serial(<<N!Anchor, N!Bare("C")>>)
    [] g = "C" -> N!Anchor]

Tree == N!TreeOf("Root", Bodies)

MCRoot == <<>>
\* Written out so that it is computed once.
MCOcc == {<<>>, <<0>>, <<0, 1>>, <<0, 2>>, <<0, 1, 0>>, <<0, 2, 0>>, <<0, 2, 0, 1>>, <<0, 2, 0, 2>>,
          <<0, 2, 0, 2, 0>>}
ASSUME ProgramIsAccepted == MCOcc = DOMAIN Tree /\ N!IsTree(Tree) /\ N!Accepted(Tree)

MCKind == N!KindIn(Tree)
MCParent == N!ParentIn(Tree)
MCInput == N!InputIn(Tree)
MCDeps == N!DepsIn(Tree)
MCStaged == N!StagedIn(Tree)
MCEager == N!EagerIn(Tree)
MCOutcomes == [l \in {i \in MCOcc : MCKind[i] \in {"anchor", "function"}} |->
  {[status |-> s, out |-> "value", ticks |-> t] : s \in Answers, t \in Ticks}
  \cup {[status |-> "Succeeded", out |-> "NoOutput", ticks |-> 0]}]

MCNoPolicies == [i \in MCOcc |-> [e \in PolicyEvent |-> {<<>>}]]
MCMayFail == {<<0, 2>>}                \* B
=============================================================================
