--------------------------- MODULE MCSelfManaged ---------------------------
(* Model values for SelfManaged. *)
EXTENDS SelfManaged

(* One run sends the merge more inputs than it has sources, the other none. *)
ThreeInputs == [r \in Runs |-> IF r = "r1" THEN 3 ELSE 0]
=============================================================================
