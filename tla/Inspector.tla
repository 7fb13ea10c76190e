----------------------------- MODULE Inspector -----------------------------
(***************************************************************************)
(* The inspection pipeline of internal/inspector and the rows it keeps in  *)
(* the SQLite store: InspectHostWithTimeout, evaluateDesiredRules,         *)
(* evaluateRule, updateStatusPageRollups, and the requests of the web API  *)
(* that change the same rows while an inspection is under way.             *)
(*                                                                         *)
(* Any number of goroutines (Workers) may call InspectHost: the background *)
(* cycle, the handlers of /inspect and /inspect-all, the creation of a     *)
(* host.  Each database call and each remote command is a step of its own, *)
(* since nothing but the in-flight guard orders them.                      *)
(*                                                                         *)
(* A rule stands for its (host, kind, target) key, which is also the key   *)
(* of its actual_items row; rules are numbered in the order in which       *)
(* ListDesiredRules returns them.                                          *)
(***************************************************************************)
EXTENDS Integers, Sequences, FiniteSets, SequencesExt

CONSTANTS
    Hosts,          \* host ids
    Rules,          \* rule keys, a set of numbers
    HostOf,         \* the host of each rule
    Inverted,       \* rules that silence satisfies: a closed port, a stopped process
    Soft,           \* disk, backup and cron rules: "degraded" on the status page, never "outage"
    Targets,        \* the hosts and rules that are published on the status page
    Workers,        \* goroutines that call InspectHost
    Keep,           \* inspection runs kept per host and bucket (100 in the code)
    MaxIncidents    \* bound: no inspection starts once a rule has this many incidents

ASSUME ConstantsAssumption ==
    /\ Rules \subseteq Nat
    /\ HostOf \in [Rules -> Hosts]
    /\ Inverted \subseteq Rules
    /\ Soft \subseteq Rules
    /\ Targets \subseteq Hosts \cup Rules
    /\ Hosts \cap Rules = {}        \* a target says by its type which of the two it is
    /\ Keep \in Nat
    /\ MaxIncidents \in Nat

VARIABLES
    world,          \* world[r]: what rule r's command would find on the host now
    row,            \* row[h]: the hosts row: "absent", or its status column
    rule,           \* rule[r]: the desired_rules row
    item,           \* item[r]: the status of the actual_items row
    log,            \* log[r]: the incidents rows of the rule, oldest first
    open,           \* open[r]: unacknowledged alerts raised for the rule
    runs,           \* runs[h]: statuses of the inspection_runs rows, newest first
    published,      \* published[t]: the class the last rollup counted for target t
    inFlight,       \* Inspector.inFlight
    pc,             \* pc[w]: what goroutine w does next
    job             \* job[w]: the local variables of its InspectHostWithTimeout call

db   == <<row, rule, item, log, open, runs, published>>
vars == <<world, db, inFlight, pc, job>>

Finding   == {"ok", "drift"}
Status    == {"unknown", "healthy", "degraded", "down"}
RunStatus == {"ok", "drift", "degraded", "down", "error"}
Event     == {"drift_detected", "drift_resolved"}
Class     == {"none", "operational", "degraded", "outage"}
Step      == {"idle", "load", "connect", "scrape", "list", "eval", "prev", "upsert",
              "incident", "alert", "ack", "run", "sample", "host", "failHost", "failRun", "rollup"}

Job == [host    : Hosts,
        todo    : SUBSET Rules,               \* enabled rules still to be evaluated
        rule    : Rules \cup {0},             \* the rule being evaluated
        seen    : Finding,                    \* what evaluateRule returned for it
        prev    : Finding \cup {"none"},      \* prevStatus
        drift   : BOOLEAN,                    \* driftFound
        expired : BOOLEAN,                    \* ctx.Err() # nil
        status  : Status,                     \* host.Status in memory
        result  : RunStatus]                  \* the status of the run to record

\* The in-memory record of a goroutine that has just been called for host h.
NewJob(h) == [host |-> h, todo |-> {}, rule |-> 0, seen |-> "ok", prev |-> "none",
              drift |-> FALSE, expired |-> FALSE, status |-> "unknown", result |-> "ok"]

TypeOK ==
    /\ world \in [Rules -> Finding]
    /\ row \in [Hosts -> Status \cup {"absent"}]
    /\ rule \in [Rules -> {"absent", "disabled", "enabled"}]
    /\ item \in [Rules -> Finding \cup {"none"}]
    /\ log \in [Rules -> Seq(Event)]
    /\ open \in [Rules -> Nat]
    /\ runs \in [Hosts -> Seq(RunStatus)]
    /\ published \in [Targets -> Class]
    /\ inFlight \subseteq Hosts
    /\ pc \in [Workers -> Step]
    /\ job \in [Workers -> Job]

Active(w)  == pc[w] # "idle"
RulesOf(h) == {r \in Rules : HostOf[r] = h}

Ledger == INSTANCE DriftLedger
Drifting(r) == Ledger!Drifting(log[r])

-----------------------------------------------------------------------------
Init ==
    /\ world \in [Rules -> Finding]
    /\ row = [h \in Hosts |-> "unknown"]
    /\ rule = [r \in Rules |-> "absent"]
    /\ item = [r \in Rules |-> "none"]
    /\ log = [r \in Rules |-> <<>>]
    /\ open = [r \in Rules |-> 0]
    /\ runs = [h \in Hosts |-> <<>>]
    /\ published = [t \in Targets |-> "none"]
    /\ inFlight = {}
    /\ pc = [w \in Workers |-> "idle"]
    /\ job \in [Workers -> {NewJob(h) : h \in Hosts}]

-----------------------------------------------------------------------------
(* The inspection.                                                          *)

Goto(w, l)   == pc' = [pc EXCEPT ![w] = l]
Become(w, j) == job' = [job EXCEPT ![w] = j]

\* The call ends, and its local variables with it.
Return(w) == Become(w, NewJob(job[w].host)) /\ Goto(w, "idle")

\* Mutant of Begin: the map is written without looking at what it holds.
BeginUnguarded(w, h) ==
    /\ pc[w] = "idle"
    /\ \A r \in RulesOf(h) : Len(log[r]) < MaxIncidents
    /\ inFlight' = inFlight \cup {h}
    /\ Become(w, NewJob(h))
    /\ Goto(w, "load")
    /\ UNCHANGED <<world, db>>

\* LoadOrStore on the in-flight map.  A call that finds the host there returns
\* ErrAlreadyInspecting and changes nothing.
Begin(w, h) ==
    /\ pc[w] = "idle"
    /\ h \notin inFlight
    /\ \A r \in RulesOf(h) : Len(log[r]) < MaxIncidents
    /\ inFlight' = inFlight \cup {h}
    /\ Become(w, NewJob(h))
    /\ Goto(w, "load")
    /\ UNCHANGED <<world, db>>

\* The 45 s context expires; the watcher goroutine closes the SSH connection.
Expire(w) ==
    /\ Active(w)
    /\ ~job[w].expired
    /\ Become(w, [job[w] EXCEPT !.expired = TRUE])
    /\ UNCHANGED <<world, db, inFlight, pc>>

\* Mutant of Load: the early return comes before the deletion is deferred.
LoadForgetsGuard(w) ==
    /\ pc[w] = "load"
    /\ \/ Return(w)
       \/ /\ row[job[w].host] # "absent"
          /\ Become(w, [job[w] EXCEPT !.status = row[job[w].host]])
          /\ Goto(w, "connect")
    /\ UNCHANGED <<world, db, inFlight>>

\* GetHost.  A read that fails, or a host that is gone, ends the call before the
\* rollup is deferred.
Load(w) ==
    /\ pc[w] = "load"
    /\ \/ /\ inFlight' = inFlight \ {job[w].host}
          /\ Return(w)
       \/ /\ row[job[w].host] # "absent"
          /\ Become(w, [job[w] EXCEPT !.status = row[job[w].host]])
          /\ Goto(w, "connect")
          /\ UNCHANGED inFlight
    /\ UNCHANGED <<world, db>>

\* The verdict of an inspection that is cut short.
Abort(w, status, result) ==
    /\ Become(w, [job[w] EXCEPT !.status = status, !.result = result])
    /\ Goto(w, "failHost")

\* The deadline outranks the error it caused.
AbortOrDown(w, status, result) ==
    IF job[w].expired THEN Abort(w, "down", "down") ELSE Abort(w, status, result)

Connect(w) ==
    /\ pc[w] = "connect"
    /\ \/ Goto(w, "scrape") /\ UNCHANGED job
       \/ Abort(w, "down", "down")
    /\ UNCHANGED <<world, db, inFlight>>

\* The metrics batch: it fails, or it returns and the deadline has passed or not.
Scrape(w) ==
    /\ pc[w] = "scrape"
    /\ \/ AbortOrDown(w, "degraded", "degraded")
       \/ ~job[w].expired /\ Goto(w, "list") /\ UNCHANGED job
    /\ UNCHANGED <<world, db, inFlight>>

ListRules(w) ==
    /\ pc[w] = "list"
    /\ \/ /\ Become(w, [job[w] EXCEPT !.todo =
                            {r \in RulesOf(job[w].host) : rule[r] = "enabled"}])
          /\ Goto(w, "eval")
       \/ AbortOrDown(w, "degraded", "error")
    /\ UNCHANGED <<world, db, inFlight>>

\* What evaluateRule makes of a command that failed: its error is dropped and
\* its empty output read as an answer.
Silence(r) == IF r \in Inverted THEN "ok" ELSE "drift"

\* evaluateRule on the next rule.  The command reaches the host, or it fails:
\* it timed out, or the connection was lost or closed by the watcher.
Evaluate(w) ==
    /\ pc[w] = "eval"
    /\ \E r \in job[w].todo :
         /\ \A q \in job[w].todo : r <= q
         /\ \E seen \in {world[r], Silence(r)} :
              Become(w, [job[w] EXCEPT !.todo = @ \ {r},
                                       !.rule = r,
                                       !.seen = seen,
                                       !.drift = @ \/ seen = "drift"])
    /\ Goto(w, "prev")
    /\ UNCHANGED <<world, db, inFlight>>

\* prevStatus, read from the rule's actual_items row.
ReadPrevious(w) ==
    /\ pc[w] = "prev"
    /\ Become(w, [job[w] EXCEPT !.prev = item[job[w].rule]])
    /\ Goto(w, "upsert")
    /\ UNCHANGED <<world, db, inFlight>>

\* UpsertActualItem; the foreign key rejects it when the host is gone.
Upsert(w) ==
    /\ pc[w] = "upsert"
    /\ item' = IF row[job[w].host] = "absent" THEN item
               ELSE [item EXCEPT ![job[w].rule] = job[w].seen]
    /\ Goto(w, "incident")
    /\ UNCHANGED <<world, row, rule, log, open, runs, published, inFlight, job>>

NewDrift(j)  == j.seen = "drift" /\ j.prev # "drift"
Recovered(j) == j.seen = "ok" /\ j.prev = "drift"

\* The incident is recorded for the rule r, unless the foreign key rejects it.
Note(r, event) ==
    log' = IF row[HostOf[r]] = "absent" THEN log
           ELSE [log EXCEPT ![r] = Append(@, event)]

RecordIncident(w) ==
    /\ pc[w] = "incident"
    /\ \/ /\ NewDrift(job[w])
          /\ Note(job[w].rule, "drift_detected")
          /\ Goto(w, "alert")
       \/ /\ Recovered(job[w])
          /\ Note(job[w].rule, "drift_resolved")
          /\ Goto(w, "eval")
       \/ /\ ~NewDrift(job[w]) /\ ~Recovered(job[w])
          /\ Goto(w, "eval")
          /\ UNCHANGED log
    /\ UNCHANGED <<world, row, rule, item, open, runs, published, inFlight, job>>

\* CreateAlert (and SendAlert, which only starts sender goroutines).
RaiseAlert(w) ==
    /\ pc[w] = "alert"
    /\ open' = IF row[job[w].host] = "absent" THEN open
               ELSE [open EXCEPT ![job[w].rule] = @ + 1]
    /\ Goto(w, "eval")
    /\ UNCHANGED <<world, row, rule, item, log, runs, published, inFlight, job>>

\* All rules are done: the deadline is looked at once more, then the verdict is
\* taken from driftFound.
Judge(w) ==
    /\ pc[w] = "eval"
    /\ job[w].todo = {}
    /\ IF job[w].expired THEN Abort(w, "down", "down")
       ELSE IF job[w].drift
            THEN /\ Become(w, [job[w] EXCEPT !.status = "degraded", !.result = "drift"])
                 /\ Goto(w, "run")
            ELSE /\ Become(w, [job[w] EXCEPT !.status = "healthy", !.result = "ok"])
                 /\ Goto(w, "ack")
    /\ UNCHANGED <<world, db, inFlight>>

\* Mutant of AcknowledgeHost: only the alerts of the rule evaluated last.
AcknowledgeLastRule(w) ==
    /\ pc[w] = "ack"
    /\ open' = [r \in Rules |-> IF r = job[w].rule THEN 0 ELSE open[r]]
    /\ Goto(w, "run")
    /\ UNCHANGED <<world, row, rule, item, log, runs, published, inFlight, job>>

\* Mutant of AcknowledgeHost: only for a host that was not healthy before.
AcknowledgeOnRecovery(w) ==
    /\ pc[w] = "ack"
    /\ open' = [r \in Rules |-> IF HostOf[r] = job[w].host /\ row[job[w].host] # "healthy"
                                THEN 0 ELSE open[r]]
    /\ Goto(w, "run")
    /\ UNCHANGED <<world, row, rule, item, log, runs, published, inFlight, job>>

\* AcknowledgeHostAlerts, for a host found healthy.
AcknowledgeHost(w) ==
    /\ pc[w] = "ack"
    /\ open' = [r \in Rules |-> IF HostOf[r] = job[w].host THEN 0 ELSE open[r]]
    /\ Goto(w, "run")
    /\ UNCHANGED <<world, row, rule, item, log, runs, published, inFlight, job>>

\* Mutant of Recorded: the pruning keeps the oldest runs of the bucket.
RecordedKeepsOldest(s, x) ==
    LET bucket == {i \in 1..Len(s) : (s[i] = "ok") <=> (x = "ok")}
    IN  IF Cardinality(bucket) < Keep THEN <<x>> \o s ELSE s

\* RecordInspectionRun: the new run first, then the oldest run of its bucket
\* goes once the bucket holds more than Keep.
Recorded(s, x) ==
    LET bucket == {i \in 1..Len(s) : (s[i] = "ok") <=> (x = "ok")}
    IN  IF Cardinality(bucket) < Keep THEN <<x>> \o s
        ELSE IF Keep = 0 THEN s
        ELSE <<x>> \o RemoveAt(s, Max(bucket))

RecordRun(w, from, to) ==
    /\ pc[w] = from
    /\ runs' = IF row[job[w].host] = "absent" THEN runs
               ELSE [runs EXCEPT ![job[w].host] = Recorded(@, job[w].result)]
    /\ Goto(w, to)
    /\ UNCHANGED <<world, row, rule, item, log, open, published, inFlight, job>>

\* UpdateHostInspection: the status held in memory overwrites the row, if any.
WriteHost(w, from, to) ==
    /\ pc[w] = from
    /\ row' = IF row[job[w].host] = "absent" THEN row
              ELSE [row EXCEPT ![job[w].host] = job[w].status]
    /\ Goto(w, to)
    /\ UNCHANGED <<world, rule, item, log, open, runs, published, inFlight, job>>

\* collectMetricSamples runs the host's metric probes over the same connection; it
\* drops its errors and nothing looks at the deadline any more.
Sample(w) ==
    /\ pc[w] = "sample"
    /\ Goto(w, "host")
    /\ UNCHANGED <<world, db, inFlight, job>>

\* A finished inspection records its run, samples its metrics and writes the
\* host last; one that was cut short writes the host first.
RecordVerdict(w) ==
    \/ RecordRun(w, "run", "sample")
    \/ Sample(w)
    \/ WriteHost(w, "host", "rollup")
    \/ WriteHost(w, "failHost", "failRun")
    \/ RecordRun(w, "failRun", "rollup")

\* Mutant of HostClass: the two latest runs are not compared.
HostClassOneRun(status, rs) ==
    CASE status = "down" -> IF Len(rs) >= 2 /\ rs[2] = "ok" THEN "degraded" ELSE "outage"
      [] status \in {"degraded", "unknown"} -> "degraded"
      [] status = "healthy" -> "operational"

\* The class updateStatusPageRollups counts for a published host ...
HostClass(status, rs) ==
    CASE status = "down" ->
             IF Len(rs) >= 2 /\ rs[1] = "down" /\ rs[2] # "down" THEN "degraded" ELSE "outage"
      [] status \in {"degraded", "unknown"} -> "degraded"
      [] status = "healthy" -> "operational"

\* ... and for a published rule: its item's status ("ok" or "drift") is compared
\* with the rule's expected value, "running" and "active", none of which it is.
RuleClass(status, r) ==
    IF status = "down" THEN "outage"
    ELSE IF item[r] = "none" THEN "operational"
    ELSE IF r \in Soft THEN "degraded" ELSE "outage"

\* The deferred calls: the rollups of the host's targets (a rule's target goes
\* with its rule), then the in-flight entry.
Finish(w) ==
    /\ pc[w] = "rollup"
    /\ LET h == job[w].host IN
       /\ published' = [t \in Targets |->
            IF t = h /\ row[h] # "absent" THEN HostClass(job[w].status, runs[h])
            ELSE IF t \in RulesOf(h) /\ rule[t] # "absent" THEN RuleClass(job[w].status, t)
            ELSE published[t]]
       /\ inFlight' = inFlight \ {h}
    /\ Return(w)
    /\ UNCHANGED <<world, row, rule, item, log, open, runs>>

\* Every step of an inspection but its start and its deadline.
Proceed(w) ==
    \/ Load(w) \/ Connect(w) \/ Scrape(w) \/ ListRules(w)
    \/ Evaluate(w) \/ ReadPrevious(w) \/ Upsert(w) \/ RecordIncident(w) \/ RaiseAlert(w)
    \/ Judge(w) \/ AcknowledgeHost(w) \/ RecordVerdict(w) \/ Finish(w)

Inspect(w) == (\E h \in Hosts : Begin(w, h)) \/ Expire(w) \/ Proceed(w)

-----------------------------------------------------------------------------
(* The administrator, and the machines.                                     *)

\* POST /api/hosts/{id}/rules, and each rule GenerateBaseline saves.
SaveRule(r, enabled) ==
    /\ row[HostOf[r]] # "absent"
    /\ rule' = [rule EXCEPT ![r] = IF enabled THEN "enabled" ELSE "disabled"]
    /\ UNCHANGED <<world, row, item, log, open, runs, published, inFlight, pc, job>>

\* Mutant of DeleteRule: the rule's actual_items row goes with it.
DeleteRuleAndItem(r) ==
    /\ rule[r] # "absent"
    /\ rule' = [rule EXCEPT ![r] = "absent"]
    /\ item' = [item EXCEPT ![r] = "none"]
    /\ published' = [t \in Targets |-> IF t = r THEN "none" ELSE published[t]]
    /\ UNCHANGED <<world, row, log, open, runs, inFlight, pc, job>>

\* DELETE /api/rules/{id}: the rule and its status-page target go, the
\* actual_items row stays.
DeleteRule(r) ==
    /\ rule[r] # "absent"
    /\ rule' = [rule EXCEPT ![r] = "absent"]
    /\ published' = [t \in Targets |-> IF t = r THEN "none" ELSE published[t]]
    /\ UNCHANGED <<world, row, item, log, open, runs, inFlight, pc, job>>

\* POST /api/alerts/{id}/ack
AcknowledgeOne(r) ==
    /\ open[r] > 0
    /\ open' = [open EXCEPT ![r] = @ - 1]
    /\ UNCHANGED <<world, row, rule, item, log, runs, published, inFlight, pc, job>>

\* POST /api/alerts/ack-all
AcknowledgeAll ==
    /\ open' = [r \in Rules |-> 0]
    /\ UNCHANGED <<world, row, rule, item, log, runs, published, inFlight, pc, job>>

\* DELETE /api/hosts/{id}: the rows that refer to the host cascade.
DeleteHost(h) ==
    /\ row[h] # "absent"
    /\ row' = [row EXCEPT ![h] = "absent"]
    /\ rule' = [r \in Rules |-> IF HostOf[r] = h THEN "absent" ELSE rule[r]]
    /\ item' = [r \in Rules |-> IF HostOf[r] = h THEN "none" ELSE item[r]]
    /\ log' = [r \in Rules |-> IF HostOf[r] = h THEN <<>> ELSE log[r]]
    /\ open' = [r \in Rules |-> IF HostOf[r] = h THEN 0 ELSE open[r]]
    /\ runs' = [runs EXCEPT ![h] = <<>>]
    /\ published' = [t \in Targets |->
                       IF t = h \/ t \in RulesOf(h) THEN "none" ELSE published[t]]
    /\ UNCHANGED <<world, inFlight, pc, job>>

Administer ==
    \/ \E r \in Rules : \/ \E enabled \in BOOLEAN : SaveRule(r, enabled)
                        \/ DeleteRule(r)
                        \/ AcknowledgeOne(r)
    \/ AcknowledgeAll
    \/ \E h \in Hosts : DeleteHost(h)

\* A service stops or comes back on the machine.
WorldChange(r) ==
    /\ world' = [world EXCEPT ![r] = IF @ = "ok" THEN "drift" ELSE "ok"]
    /\ UNCHANGED <<db, inFlight, pc, job>>

Next ==
    \/ \E w \in Workers : Inspect(w)
    \/ Administer
    \/ \E r \in Rules : WorldChange(r)

Spec == Init /\ [][Next]_vars

\* Every command has a time limit of its own (30 s) and every dial one of 10 s,
\* so a goroutine that has started takes its next step; nobody has to start one.
Fairness == \A w \in Workers : WF_vars(Proceed(w))

FairSpec == Spec /\ Fairness

-----------------------------------------------------------------------------
(* Properties.                                                              *)

\* However many callers ask for it, a host is inspected by one goroutine at a
\* time (the LoadOrStore guard of InspectHostWithTimeout).
AtMostOneInspection ==
    \A v, w \in Workers : v # w /\ Active(v) /\ Active(w) => job[v].host # job[w].host

\* The rule r is between its actual_items write and its incident.
BeingReported(r) == \E w \in Workers : pc[w] = "incident" /\ job[w].rule = r

\* The drift history agrees with the stored state: outside that window a rule's
\* actual_items row says "drift" exactly when its last incident is a detection,
\* whatever rules and hosts are changed meanwhile (evaluateDesiredRules).
DriftIsReported ==
    \A r \in Rules : ~BeingReported(r) => (item[r] = "drift" <=> Drifting(r))

\* Incidents of a rule alternate between detection and resolution: evaluateDesiredRules
\* implements the drift ledger although it reads prevStatus and writes the incident
\* in separate calls.
LedgerSpec == Ledger!Spec

\* A host that rests with the status "healthy" has no alert left to look at: a clean
\* inspection acknowledges them and a later one takes the status away with the
\* alert it raises.
HealthyHasNoOpenAlert ==
    \A h \in Hosts : row[h] = "healthy" /\ h \notin inFlight =>
        \A r \in RulesOf(h) : open[r] = 0

\* The status column that goes with the status of a run.
StatusOf(result) ==
    CASE result = "ok" -> "healthy" [] result = "down" -> "down" [] OTHER -> "degraded"

\* Between inspections the hosts row tells what the newest inspection_runs row
\* tells, although they are written by separate calls, in an order that depends
\* on how the inspection ended, and old runs are pruned bucket by bucket.
VerdictMatchesRun ==
    \A h \in Hosts : row[h] # "absent" /\ h \notin inFlight /\ runs[h] # <<>> =>
        row[h] = StatusOf(runs[h][1])

\* With two runs on record, the status page counts an outage of the host exactly
\* when the latest two were both down (the anti-flapping rule of
\* updateStatusPageRollups, which reads what RecordInspectionRun has kept).
OutageIsSustained ==
    \A h \in Hosts \cap Targets :
        row[h] # "absent" /\ h \notin inFlight /\ Len(runs[h]) >= 2 =>
            (published[h] = "outage" <=> runs[h][1] = "down" /\ runs[h][2] = "down")

\* No inspection keeps its host for ever: the in-flight entry goes whatever fails,
\* so that the host can be inspected again (the deferred Delete).
InspectionEnds == \A h \in Hosts : h \in inFlight ~> h \notin inFlight
=============================================================================
