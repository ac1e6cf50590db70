----------------------------- MODULE MCCarousel -----------------------------
(***************************************************************************)
(* The engine on its own, called in any order, on                          *)
(*     Root = [] -> [A[], B, C()]      A = [] -> $a                        *)
(*     B = [v] -> {$b1, $b2}           C = () -> ...                       *)
(* A serial composition with a routed bare Goal (value barrier), an eager  *)
(* call, and a body that overshoots a target by publishing two leaves.     *)
(***************************************************************************)
EXTENDS Carousel

N == INSTANCE Notation

Bodies == [g \in {"Root", "A", "B", "C"} |->
  CASE g = "Root" -> N!Serial(<<N!Goal("A", "deferred"), N!Bare("B"), N!Goal("C", "eager")>>)
    [] g = "A" -> N!Anchor
    [] g = "B" -> N!Parallel(<<N!Anchor, N!Anchor>>)
    [] g = "C" -> N!Function]

Tree == N!TreeOf("Root", Bodies)

MCRoot == <<>>
\* Written out so that it is computed once.
MCOcc == {<<>>, <<0>>, <<0, 1>>, <<0, 2>>, <<0, 3>>, <<0, 1, 0>>, <<0, 2, 0>>, <<0, 3, 0>>,
          <<0, 2, 0, 1>>, <<0, 2, 0, 2>>}
ASSUME ProgramIsAccepted == MCOcc = DOMAIN Tree /\ N!IsTree(Tree) /\ N!Accepted(Tree)

MCKind == N!KindIn(Tree)
MCParent == N!ParentIn(Tree)
MCInput == N!InputIn(Tree)
MCDeps == N!DepsIn(Tree)
MCStaged == N!StagedIn(Tree)
MCEager == N!EagerIn(Tree)
MCMayFail == {<<0, 2>>, <<0, 3>>}      \* B and C
=============================================================================
