---------------------------- MODULE MCSharedRuns ----------------------------
(***************************************************************************)
(* Two vessels share a Codebase.  The programs redefine B/0 (as a leaf,    *)
(* or as a Goal that reaches back to A), publish B/1 under a hash that     *)
(* shares the prefix "B#x", and pin that prefix in a body and in a Root,   *)
(* so aliases move, prefixes become ambiguous and cycles close at run time.*)
(* One vessel asks for the identity "run-1" that allocation would pick.    *)
(***************************************************************************)
EXTENDS SharedRuns

Key_ == {"A/0", "B/0", "B/1", "C/0"}
Definition_ == {"a", "b", "bb", "b1", "c"}
Pin_ == {"B#x"}

Unqualified(k) == [key |-> k, pin |-> NoPin]
Pinned(k) == [key |-> k, pin |-> "B#x"]

MCDefKey == [d \in Definition_ |->
  CASE d = "a" -> "A/0" [] d \in {"b", "bb"} -> "B/0" [] d = "b1" -> "B/1" [] d = "c" -> "C/0"]
MCBodyRefs == [d \in Definition_ |->
  CASE d = "a" -> <<Unqualified("B/0")>>
    [] d = "bb" -> <<Unqualified("A/0")>>
    [] d = "c" -> <<Pinned("B/0"), Unqualified("B/0")>>
    [] OTHER -> <<>>]
MCPinsOf == [d \in Definition_ |-> IF d = "c" THEN Pin_ ELSE {}]

MCDigest(d, pins) == <<d, pins>>
Plain(d) == <<d, [p \in Pin_ |-> NoArtifact]>>
MCAddressed == [p \in Pin_ |-> {Plain("b"), Plain("b1")}]
MCArtifact == {Plain(d) : d \in {"a", "b", "bb", "b1"}}
                \cup {<<"c", [p \in Pin_ |-> a]>> : a \in {Plain("b"), Plain("b1")}}
MCDefOf == [a \in MCArtifact |-> a[1]]
MCNodeOf == MCDefOf

MCProgram == {
  [unit |-> <<"a", "b">>, root |-> Unqualified("A/0")],
  [unit |-> <<"bb">>, root |-> Unqualified("B/0")],
  [unit |-> <<"c">>, root |-> Unqualified("C/0")],
  [unit |-> <<"b1">>, root |-> Pinned("B/0")]}
MCUnit == {p.unit : p \in MCProgram}

MCRunId == {<<"run", n>> : n \in 1..2}
MCRequestedId == [v \in Vessel |-> IF v = "v1" THEN <<"run", 1>> ELSE NoId]
MCOccurrence == UNION {[1..n -> 1..2] : n \in 0..5}
=============================================================================
