---------------------------- MODULE MCInspector ----------------------------
(* Instances of Inspector.tla for TLC.                                      *)
EXTENDS InspectorClaims

CONSTANTS h1, h2, w1, w2      \* model values

OneRule == [r \in {1} |-> h1]

TargetsOfOne == {h1, 1}
=============================================================================
