--------------------------- MODULE MCFactoryLine ---------------------------
(* Small lines for TLC. *)
EXTENDS FactoryLine

Step(a, n) == [app |-> a, max |-> n]

(* Two steps with one slot each. *)
TwoSteps == <<Step("x", 1), Step("y", 1)>>

(* The line as it is ... *)
Fixed == {TwoSteps}
(* ... or edited back and forth to one that is wider and shorter. *)
Edited == {TwoSteps, <<Step("x", 2)>>}
=============================================================================
