-------------------------- MODULE MCEphemeralKeys ---------------------------
(* Instances of EphemeralKeys.tla for TLC.                                *)
EXTENDS EphemeralKeys

CONSTANTS k1, k2, own

\* Both keys are requested for the first row, or for one row each.
SameRow == [k \in Keys |-> 1]
TwoRows == [k \in Keys |-> IF k = k1 THEN 1 ELSE 2]

\* Requests are counted in the order they come in.
InOrder == pc[<<k2, "inject">>] # "off" => pc[<<k1, "inject">>] # "off"
=============================================================================
