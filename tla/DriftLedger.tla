---------------------------- MODULE DriftLedger ----------------------------
(***************************************************************************)
(* What the drift history of a host promises its reader, with no mention   *)
(* of inspections, guards or databases: for every desired rule the journal *)
(* alternates between "drift_detected" and "drift_resolved", starting with *)
(* a detection.  A journal is only ever extended, or forgotten as a whole  *)
(* when its host is removed.                                               *)
(*                                                                         *)
(* Inspector.tla implements this specification (InspectorProofs.tla).      *)
(***************************************************************************)
EXTENDS Integers, Sequences

CONSTANT Rules            \* the (host, kind, target) keys of desired rules

VARIABLE log              \* log[r]: the incidents recorded for rule r

Event == {"drift_detected", "drift_resolved"}

TypeOK == log \in [Rules -> Seq(Event)]

\* The journal s ends in a drift that has not been resolved yet.
Drifting(s) == s # <<>> /\ s[Len(s)] = "drift_detected"

Init == log = [r \in Rules |-> <<>>]

Detect(r) ==
    /\ ~Drifting(log[r])
    /\ log' = [log EXCEPT ![r] = Append(@, "drift_detected")]

Resolve(r) ==
    /\ Drifting(log[r])
    /\ log' = [log EXCEPT ![r] = Append(@, "drift_resolved")]

\* The host that owns the rules S is deleted with its whole history.
Forget(S) == log' = [r \in Rules |-> IF r \in S THEN <<>> ELSE log[r]]

Next ==
    \/ \E r \in Rules : Detect(r) \/ Resolve(r)
    \/ \E S \in SUBSET Rules : Forget(S)

Spec == Init /\ [][Next]_log
=============================================================================
