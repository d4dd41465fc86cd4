----------------------------- MODULE MCSubRuns -----------------------------
(* Two small apps, the first with two entries. *)
EXTENDS SubRuns

At(a, n) == [app |-> a, node |-> n]

TwoApps == {At("A", "run"), At("A", "again"), At("B", "run")}
OneRoot == [r \in {1} |-> At("A", "run")]
RemovableEntries == {At("B", "run")}
=============================================================================
