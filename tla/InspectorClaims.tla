-------------------------- MODULE InspectorClaims --------------------------
(* What the documents of the repository say of inspections, stated over the *)
(* model of what the code does.                                             *)
EXTENDS Inspector

\* "Drift: a mismatch between the Actual State and the Desired State of a Host"
\* (CONTEXT.md): what evaluateRule returns is what the rule's command finds.
DriftIsReal ==
    [][\A w \in Workers : pc[w] = "eval" /\ pc'[w] = "prev" =>
            job'[w].seen = world[job'[w].rule]]_vars

\* "Stalled or hung SSH connections are terminated on timeout and marked down"
\* (docs/user-guide.md): a host whose budget has run out by the end of the SSH
\* work of its inspection, the metric probes included, is written down.
OverrunIsDown ==
    [][\A w \in Workers : pc[w] = "sample" /\ pc'[w] = "host" /\ job[w].expired =>
            job'[w].status = "down"]_vars

\* "A target is only classified as outage after at least 2 consecutive failures"
\* (ADR 0038): no outage is published for a host on fewer than two down runs.
OutageNeedsTwoFailures ==
    \A h \in Hosts \cap Targets : h \notin inFlight /\ published[h] = "outage" =>
        \E i \in 1..Len(runs[h]) : i > 1 /\ runs[h][i] = "down" /\ runs[h][i - 1] = "down"

\* "Daily Uptime Rollup ... records the number of successful inspections"
\* (CONTEXT.md): a published rule that an inspection found met counts as operational.
MetRuleIsOperational ==
    \A r \in Rules \cap Targets :
        row[HostOf[r]] = "healthy" /\ HostOf[r] \notin inFlight /\ item[r] = "ok"
            => published[r] \in {"none", "operational"}
=============================================================================
