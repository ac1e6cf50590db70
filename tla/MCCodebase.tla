----------------------------- MODULE MCCodebase -----------------------------
(***************************************************************************)
(* A small Codebase: two versions of G/0, and H/0 whose body pins G by a   *)
(* prefix both versions share, so a pin can be missing, unique or          *)
(* ambiguous; identities "run-1", "run-2" and one chosen by a client,      *)
(* which may also ask for "run-1" by name.                                 *)
(***************************************************************************)
EXTENDS Codebase

Definition_ == {"g1", "g2", "h"}
Key_ == {<<"G", 0>>, <<"H", 0>>}
Pin_ == {"G#a"}

MCDefKey == [d \in Definition_ |-> IF d = "h" THEN <<"H", 0>> ELSE <<"G", 0>>]
MCPinsOf == [d \in Definition_ |-> IF d = "h" THEN Pin_ ELSE {}]
MCDigest(d, pins) == <<d, pins>>
Plain == {<<d, [p \in Pin_ |-> NoArtifact]>> : d \in {"g1", "g2"}}
MCArtifact == Plain \cup {<<"h", [p \in Pin_ |-> a]>> : a \in Plain}
MCAddressed == [p \in Pin_ |-> Plain]
MCDefOf == [a \in MCArtifact |-> a[1]]
MCUnit == {<<"g1">>, <<"g2">>, <<"h">>, <<"h", "g1">>}
MCRunId == {<<"run", 1>>, <<"run", 2>>, <<"named", 1>>}
=============================================================================
