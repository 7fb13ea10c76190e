-------------------------- MODULE InspectorFaults --------------------------
(***************************************************************************)
(* Inspections that meet a fault: the process dies between two database    *)
(* calls and starts again, a snapshot is restored over the rows an         *)
(* inspection is working on, or a read whose error the code drops fails.   *)
(***************************************************************************)
EXTENDS Inspector

\* The process dies: goroutines and the in-flight map go, the database stays.
Crash ==
    /\ inFlight # {}
    /\ inFlight' = {}
    /\ pc' = [w \in Workers |-> "idle"]
    /\ job' = [w \in Workers |-> NewJob(job[w].host)]
    /\ UNCHANGED <<world, db>>

\* ImportSnapshot, one transaction: hosts and rules come back under the ids they
\* had, with the status they had; items, incidents, alerts, runs and status-page
\* targets are not in the snapshot.
Restore ==
    /\ row' \in [Hosts -> Status \cup {"absent"}]
    /\ rule' \in [Rules -> {"absent", "disabled", "enabled"}]
    /\ \A r \in Rules : row'[HostOf[r]] = "absent" => rule'[r] = "absent"
    /\ item' = [r \in Rules |-> "none"]
    /\ log' = [r \in Rules |-> <<>>]
    /\ open' = [r \in Rules |-> 0]
    /\ runs' = [h \in Hosts |-> <<>>]
    /\ published' = [t \in Targets |-> "none"]
    /\ UNCHANGED <<world, inFlight, pc, job>>

\* ListActualItems fails: its error is dropped and prevStatus stays "".
BlindRead(w) ==
    /\ pc[w] = "prev"
    /\ Become(w, [job[w] EXCEPT !.prev = "none"])
    /\ Goto(w, "upsert")
    /\ UNCHANGED <<world, db, inFlight>>

Fault == Crash \/ Restore \/ \E w \in Workers : BlindRead(w)

FaultNext == Next \/ Fault

FaultSpec == Init /\ [][FaultNext]_vars

-----------------------------------------------------------------------------
\* Whatever was left behind by a crash or a restore, an inspection that reaches its
\* end leaves no open alert under a host it has written healthy.
VerdictRepairsAlerts ==
    \A w \in Workers : pc[w] = "rollup" /\ row[job[w].host] = "healthy" =>
        \A r \in RulesOf(job[w].host) : open[r] = 0

\* "Transition into drift -> record incident + alert + root cause excerpt" (the
\* comment above the incident in evaluateDesiredRules): a rule whose item has gone
\* to drift and that no goroutine is still reporting has an unresolved incident.
TransitionIsRecorded ==
    \A r \in Rules : item[r] = "drift" =>
        \/ Drifting(r)
        \/ \E w \in Workers : pc[w] = "incident" /\ job[w].rule = r
=============================================================================
