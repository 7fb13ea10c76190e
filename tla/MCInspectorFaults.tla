------------------------- MODULE MCInspectorFaults -------------------------
(* Instances of InspectorFaults.tla for TLC.                                *)
EXTENDS InspectorFaults

CONSTANTS h1, w1, w2          \* model values

OneRule  == [r \in {1} |-> h1]
TwoRules == [r \in {1, 2} |-> h1]
=============================================================================
