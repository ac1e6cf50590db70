------------------------------ MODULE MCRouting ------------------------------
(***************************************************************************)
(* Every body of two-element compositions nested two deep, over Anchors,   *)
(* Goals with and without arguments, inline arrows with and without a      *)
(* parameter or an output; and three-element serial compositions.          *)
(***************************************************************************)
EXTENDS Routing

N == INSTANCE Notation

Plain == {N!Anchor, N!Bare("G"), N!Goal("G", "deferred"),
          N!Arrow(0, N!Anchor), N!Arrow(1, N!Anchor), N!Arrow(0, N!Parallel(<<N!Anchor, N!Anchor>>))}
Pairs(S) == {<<a, b>> : a \in S, b \in S}
Nested == Plain \cup {N!Serial(p) : p \in Pairs(Plain)} \cup {N!Parallel(p) : p \in Pairs(Plain)}

Bodies ==
  Nested \cup {N!Serial(p) : p \in Pairs(Nested)} \cup {N!Parallel(p) : p \in Pairs(Nested)}
         \cup {N!MapOf(p) : p \in Pairs(Nested)}
         \cup {N!Serial(<<a>> \o p) : a \in Plain, p \in Pairs(Plain)}

MCTrees == {N!TreeOf("Root", [g \in {"Root", "G"} |-> IF g = "G" THEN N!Anchor ELSE b]) : b \in Bodies}
=============================================================================
