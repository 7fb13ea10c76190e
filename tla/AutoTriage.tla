----------------------------- MODULE AutoTriage -----------------------------
(***************************************************************************)
(* internal/netdiag: the scheduler that runs the triage matrix against the *)
(* saved targets from one source host, the verdict it reaches, and the     *)
(* messages it sends about incidents, reminders and recoveries, beside     *)
(* diagnoses that operators start on the same host.                        *)
(*                                                                         *)
(* A command on the source host is heard while "link" holds; otherwise the *)
(* host row says down, the dial fails, or the command returns nothing: its *)
(* error is dropped by execRunnerCmd.  Time is the age of the last message *)
(* about a target, which stops growing when a reminder is due.             *)
(***************************************************************************)
EXTENDS Integers, FiniteSets

CONSTANTS
    Presets,        \* the saved probe targets
    Requests,       \* the operators' diagnoses on the source host
    Explicit,       \* the targets with an application endpoint of their own
    Private,        \* the targets with a private address
    Conditions,     \* what may be wrong with the way to a target
    Interval,       \* the age at which a healthy target is due again
    Reminder,       \* the age at which a reminder is due
    MaxRestarts     \* bound on the restarts of the process

ASSUME TriageAssumption ==
    /\ Explicit \subseteq Presets
    /\ Private \subseteq Presets
    /\ Conditions \subseteq
        {"clear", "slow", "narrow", "filtered", "dead", "unroutable"}
    /\ "clear" \in Conditions
    /\ Interval \in Nat /\ Reminder \in Nat /\ Interval <= Reminder
    /\ MaxRestarts \in Nat

VARIABLES
    network,        \* network[p]: the way from the source host to p
    host,           \* what the source host suffers from
    link,           \* the source host can be reached over SSH
    enabled,        \* the presets with auto-triage on, while the setting is on
    memory,         \* targetStates, lost with the process
    sent,           \* sent[p]: the last message about p
    inFlight,       \* the source host is in the in-flight map
    inside,         \* the requests that run a diagnosis
    pc,             \* where the scheduler is
    run,            \* the scheduler's local variables
    restarts        \* restarts so far

world == <<network, host, link>>
vars  == <<world, enabled, memory, sent, inFlight, inside, pc, run, restarts>>

\* "saturated" is what the row of the host says; the rest is about the web application
\* on it, which answers with an error, late, or does not listen.
Health == {"fine", "saturated", "failing", "late", "absent"}

Verdict == {"HEALTHY", "HOST_SATURATED", "APPLICATION_DEGRADED",
            "MTU_BLACKHOLE_DETECTED", "ICMP_FILTERED_TCP_HEALTHY",
            "BRANCH_GATEWAY_DOWN", "TRANSIT_PATH_DEGRADED"}
Message == {"none", "incident", "reminder", "recovery"}

\* The steps at which the scheduler holds the in-flight entry.
Section == {"dial", "l7", "small", "large", "ping", "tcp", "verdict"}

\* The last verdict matters only in so far as it is HEALTHY, another one, or none.
TargetState ==
    [verdict : {"", "HEALTHY", "DEGRADED"}, age : 0..Reminder, started : BOOLEAN]

\* A target that this process has not triaged yet: the zero time is long ago.
Unknown == [verdict |-> "", age |-> Reminder, started |-> FALSE]

\* The local variables of a cycle, and of the triage it runs.  The verdict engine goes
\* through its cases in the order of the probes, so that "verdict" is known as soon as
\* a probe decides it, and later probes do not change it.
Idle == [todo |-> {}, at |-> "none", since |-> 0, verdict |-> "", late |-> FALSE,
         small |-> FALSE, ping |-> "none"]

TypeOK ==
    /\ network \in [Presets -> Conditions]
    /\ host \in Health
    /\ link \in BOOLEAN
    /\ enabled \subseteq Presets
    /\ memory \in [Presets -> TargetState]
    /\ sent \in [Presets -> Message]
    /\ inFlight \in BOOLEAN
    /\ inside \subseteq Requests
    /\ pc \in Section \cup {"wait", "pick", "resolve", "guard", "report"}
    /\ run \in [todo : SUBSET Presets, at : Presets \cup {"none"}, since : 0..Reminder,
                verdict : Verdict \cup {""}, late : BOOLEAN, small : BOOLEAN,
                ping : {"none", "fine", "slow", "lost", "unparsed"}]
    /\ restarts \in 0..MaxRestarts

Init ==
    /\ network = [p \in Presets |-> "clear"]
    /\ host = "fine" /\ link = TRUE
    /\ enabled = Presets
    /\ memory = [p \in Presets |-> Unknown]
    /\ sent = [p \in Presets |-> "none"]
    /\ inFlight = FALSE
    /\ inside = {}
    /\ pc = "wait"
    /\ run = Idle
    /\ restarts = 0

\* The incident of p has been announced by this process, and is not over.
Open(p) == memory[p].verdict = "DEGRADED"

-----------------------------------------------------------------------------
(* runAutoTriageCycle, up to the triage of a target.                        *)

\* The ticker: the presets are listed once for the whole cycle.
StartCycle ==
    /\ pc = "wait"
    /\ run' = [Idle EXCEPT !.todo = enabled]
    /\ pc' = "pick"
    /\ UNCHANGED <<world, enabled, memory, sent, inFlight, inside, restarts>>

EndCycle ==
    /\ pc = "pick" /\ run.todo = {}
    /\ run' = Idle
    /\ pc' = "wait"
    /\ UNCHANGED <<world, enabled, memory, sent, inFlight, inside, restarts>>

NotDue(p) == memory[p].verdict = "HEALTHY" /\ memory[p].age < Interval

\* A target that was healthy a short while ago is left out.
Skip ==
    /\ pc = "pick"
    /\ \E p \in run.todo :
        /\ NotDue(p)
        /\ run' = [run EXCEPT !.todo = @ \ {p}]
    /\ UNCHANGED <<world, enabled, memory, sent, inFlight, inside, pc, restarts>>

\* timeSinceAlert is taken here, ahead of the triage.
Pick ==
    /\ pc = "pick"
    /\ \E p \in run.todo :
        /\ ~NotDue(p)
        /\ run' = [Idle EXCEPT !.todo = run.todo \ {p}, !.at = p, !.since = memory[p].age]
    /\ pc' = "resolve"
    /\ UNCHANGED <<world, enabled, memory, sent, inFlight, inside, restarts>>

\* ExecuteTriage returned an error: the target keeps its state, and nothing is sent.
GiveUp ==
    /\ run' = [Idle EXCEPT !.todo = run.todo]
    /\ pc' = "pick"

-----------------------------------------------------------------------------
(* ExecuteTriage.                                                           *)

\* A case of the verdict engine: v, unless an earlier case has applied.
Decide(case, v) == IF run.verdict = "" /\ case THEN v ELSE run.verdict

\* The row of the source host is read; if it says down there is no triage.
Resolve ==
    /\ pc = "resolve"
    /\ \/ /\ run' = [run EXCEPT !.verdict = Decide(host = "saturated", "HOST_SATURATED")]
          /\ pc' = "guard"
       \/ ~link /\ GiveUp
    /\ UNCHANGED <<world, enabled, memory, sent, inFlight, inside, restarts>>

\* Mutant of Guard: the deferred Delete is in place before the entry is taken.
GuardDeferredEarly ==
    /\ pc = "guard"
    /\ inFlight' = ~inFlight
    /\ IF inFlight THEN GiveUp ELSE pc' = "dial" /\ UNCHANGED run
    /\ UNCHANGED <<world, enabled, memory, sent, inside, restarts>>

\* LoadOrStore on the in-flight map: ErrBusy, or the entry is ours.
Guard ==
    /\ pc = "guard"
    /\ inFlight' = TRUE
    /\ IF inFlight THEN GiveUp ELSE pc' = "dial" /\ UNCHANGED run
    /\ UNCHANGED <<world, enabled, memory, sent, inside, restarts>>

\* Mutant of Dial: an early return that keeps the entry.
DialForgetsGuard ==
    /\ pc = "dial"
    /\ IF link THEN pc' = "l7" /\ UNCHANGED run ELSE GiveUp
    /\ UNCHANGED <<world, enabled, memory, sent, inFlight, inside, restarts>>

Dial ==
    /\ pc = "dial"
    /\ IF link THEN pc' = "l7" /\ UNCHANGED <<run, inFlight>>
       ELSE GiveUp /\ inFlight' = FALSE
    /\ UNCHANGED <<world, enabled, memory, sent, inside, restarts>>

\* curl on the loopback answers with an error, or with nothing where an endpoint is
\* configured; without an endpoint a port that is not open is passed over.
AppFails(p) ==
    \/ link /\ host = "failing"
    \/ (~link \/ host = "absent") /\ p \in Explicit

ProbeApp ==
    /\ pc = "l7"
    /\ run' = [run EXCEPT !.verdict = Decide(AppFails(run.at), "APPLICATION_DEGRADED"),
                          !.late = link /\ host = "late"]
    /\ pc' = IF run.at \in Private THEN "small" ELSE "ping"
    /\ UNCHANGED <<world, enabled, memory, sent, inFlight, inside, restarts>>

\* The MTU sweep: a packet of 1200 bytes, and one of the baseline.
SmallPing ==
    /\ pc = "small"
    /\ run' = [run EXCEPT !.small = link /\ network[run.at] \in {"clear", "slow", "narrow"}]
    /\ pc' = "large"
    /\ UNCHANGED <<world, enabled, memory, sent, inFlight, inside, restarts>>

LargePing ==
    /\ pc = "large"
    /\ LET passed == link /\ network[run.at] \in {"clear", "slow"}
       IN run' = [run EXCEPT !.small = FALSE,
                    !.verdict = Decide(run.small /\ ~passed, "MTU_BLACKHOLE_DETECTED")]
    /\ pc' = "ping"
    /\ UNCHANGED <<world, enabled, memory, sent, inFlight, inside, restarts>>

\* ParsePingOutput: without a line of statistics, loss and latency stay zero.
Statistics(p) ==
    IF ~link \/ network[p] = "unroutable" THEN "unparsed"
    ELSE IF network[p] \in {"filtered", "dead"} THEN "lost"
    ELSE IF network[p] = "slow" THEN "slow" ELSE "fine"

Ping ==
    /\ pc = "ping"
    /\ run' = [run EXCEPT !.ping = Statistics(run.at)]
    /\ pc' = IF Statistics(run.at) = "lost" THEN "tcp" ELSE "verdict"
    /\ UNCHANGED <<world, enabled, memory, sent, inFlight, inside, restarts>>

\* All packets lost: a TCP connection is tried.
TryPort ==
    /\ pc = "tcp"
    /\ LET opened == link /\ network[run.at] \notin {"dead", "unroutable"}
       IN run' = [run EXCEPT !.verdict = Decide(TRUE,
                    IF opened THEN "ICMP_FILTERED_TCP_HEALTHY" ELSE "BRANCH_GATEWAY_DOWN")]
    /\ pc' = "verdict"
    /\ UNCHANGED <<world, enabled, memory, sent, inFlight, inside, restarts>>

\* The last three cases; the verdict is logged and returned, the deferred Delete runs.
Conclude ==
    /\ pc = "verdict"
    /\ run' = [run EXCEPT !.verdict =
                  Decide(TRUE, IF run.ping = "slow" THEN "TRANSIT_PATH_DEGRADED"
                               ELSE IF run.late THEN "APPLICATION_DEGRADED" ELSE "HEALTHY")]
    /\ inFlight' = FALSE
    /\ pc' = "report"
    /\ UNCHANGED <<world, enabled, memory, sent, inside, restarts>>

-----------------------------------------------------------------------------
(* runAutoTriageCycle, after the triage: one critical section of stateMu.   *)

Say(p, m) == sent' = [sent EXCEPT ![p] = m]

Degraded(p) ==
    \/ /\ ~Open(p)
       /\ memory' = [memory EXCEPT ![p] =
                        [verdict |-> "DEGRADED", age |-> 0, started |-> TRUE]]
       /\ Say(p, "incident")
    \/ /\ Open(p) /\ run.since >= Reminder
       /\ memory' = [memory EXCEPT ![p].age = 0]
       /\ Say(p, "reminder")
    \/ /\ Open(p) /\ run.since < Reminder
       /\ UNCHANGED <<memory, sent>>

\* Mutant of Healthy: the recovery is announced after the state has been replaced.
HealthyLate(p) ==
    /\ memory' = [memory EXCEPT ![p] = [verdict |-> "HEALTHY", age |-> 0, started |-> FALSE]]
    /\ Say(p, "recovery")

Healthy(p) ==
    /\ memory' = [memory EXCEPT ![p] =
                    [verdict |-> "HEALTHY", age |-> 0, started |-> @.started /\ ~Open(p)]]
    /\ IF Open(p) THEN Say(p, "recovery") ELSE UNCHANGED sent

Report ==
    /\ pc = "report"
    /\ IF run.verdict = "HEALTHY" THEN Healthy(run.at) ELSE Degraded(run.at)
    /\ GiveUp
    /\ UNCHANGED <<world, enabled, inFlight, inside, restarts>>

Scheduler ==
    \/ StartCycle \/ EndCycle \/ Skip \/ Pick
    \/ Resolve \/ Guard \/ Dial \/ ProbeApp \/ SmallPing \/ LargePing \/ Ping
    \/ TryPort \/ Conclude \/ Report

-----------------------------------------------------------------------------
(* The operators' diagnoses, the world, time and restarts.                  *)

\* ExecuteProbe, or ExecuteTriage for a stream: it leaves targetStates alone.
Enter(r) ==
    /\ r \notin inside /\ ~inFlight
    /\ inFlight' = TRUE
    /\ inside' = inside \cup {r}
    /\ UNCHANGED <<world, enabled, memory, sent, pc, run, restarts>>

Leave(r) ==
    /\ r \in inside
    /\ inFlight' = FALSE
    /\ inside' = inside \ {r}
    /\ UNCHANGED <<world, enabled, memory, sent, pc, run, restarts>>

\* Presets and the setting are edited while a cycle may be under way.
Edit ==
    /\ \E S \in SUBSET Presets : S # enabled /\ enabled' = S
    /\ UNCHANGED <<world, memory, sent, inFlight, inside, pc, run, restarts>>

WorldChange ==
    /\ \/ /\ \E p \in Presets, n \in Conditions : network' = [network EXCEPT ![p] = n]
          /\ UNCHANGED <<host, link>>
       \/ host' \in Health /\ UNCHANGED <<network, link>>
       \/ link' = ~link /\ UNCHANGED <<network, host>>
    /\ UNCHANGED <<enabled, memory, sent, inFlight, inside, pc, run, restarts>>

Tick ==
    /\ \E p \in Presets : memory[p].age < Reminder
    /\ memory' = [p \in Presets |->
                    [memory[p] EXCEPT !.age = IF @ < Reminder THEN @ + 1 ELSE @]]
    /\ UNCHANGED <<world, enabled, sent, inFlight, inside, pc, run, restarts>>

\* targetStates and the in-flight map are in memory only.
Restart ==
    /\ restarts < MaxRestarts
    /\ restarts' = restarts + 1
    /\ memory' = [p \in Presets |-> Unknown]
    /\ inFlight' = FALSE
    /\ inside' = {}
    /\ pc' = "wait"
    /\ run' = Idle
    /\ UNCHANGED <<world, enabled, sent>>

Next ==
    \/ Scheduler
    \/ \E r \in Requests : Enter(r) \/ Leave(r)
    \/ Edit \/ WorldChange \/ Tick \/ Restart

Spec == Init /\ [][Next]_vars

\* The scheduler's goroutine runs, every command and every diagnosis has a time
\* limit, and time passes.
Fairness ==
    /\ WF_vars(Scheduler)
    /\ \A r \in Requests : WF_vars(Leave(r))
    /\ WF_vars(Tick)

FairSpec == Spec /\ Fairness

-----------------------------------------------------------------------------
(* Properties.                                                              *)

\* "Singleflight guard per source host": the scheduler and the operators never run
\* two diagnoses on the source host at once, busy answers and failed dials included.
OneDiagnosis ==
    Cardinality(inside) + (IF pc \in Section THEN 1 ELSE 0) <= 1

Feed == INSTANCE AlertFeed WITH open <- {p \in Presets : Open(p)}

\* The messages about a target are those of AlertFeed, whatever fails, is edited or is
\* restarted in the course of a cycle.
FeedSpec == Feed!Spec

\* Nothing keeps the scheduler from the target p.
Standing(p) == p \in enabled /\ link /\ inside = {}

Fine(p) ==
    /\ network[p] = "clear"
    /\ host = "fine" \/ (host = "absent" /\ p \notin Explicit)

\* The alert state follows the network: a target that stays dead ends up with an open
\* incident, one that stays fine without one, whatever happened before.
AlertsSettle ==
    \A p \in Presets :
        /\ <>[](Standing(p) /\ network[p] = "dead") => <>[]Open(p)
        /\ <>[](Standing(p) /\ Fine(p)) => <>[]~Open(p)

\* "HEALTHY: Host resources, L7 application responses, and network routes are all
\* performing within normal boundaries" (docs/user-guide.md): the target answered.
HealthyIsMeasured ==
    run.verdict = "HEALTHY" => run.ping = "fine"

\* "Intelligent Firewall Fallback ... preventing false down alarms"
\* (docs/user-guide.md): no incident is announced for a target that filters ICMP only.
FilteredIsNoIncident ==
    [][\A p \in Presets : sent'[p] = "incident" /\ sent[p] # "incident" =>
            run.verdict # "ICMP_FILTERED_TCP_HEALTHY"]_vars
=============================================================================
