# Pantau in TLA+

Pantau watches a set of Linux hosts from one Go process: it inspects them over
SSH, keeps what it finds in an SQLite database, raises alerts, publishes a
status page, moves files between hosts, tunnels web requests to them, opens
terminals with keys of five minutes, backs itself up and replaces itself. This
directory holds TLA+ models of the parts of that process where goroutines,
callbacks, crashes or time decide whether it is right, the TLC runs that check
them on small instances, and theorems about them that TLAPS checks for every
value of the constants.

`PROJECT.json` is the index: components, runs, mutants, the map from every
definition to the lines it models, hazards, findings and theorems.

    tlasany Inspector.tla
    tlc -workers 2 -config Inspector.cfg MCInspector
    tlapm InspectorProofs.tla

## 1. Inventory

Paths are relative to `src/`.

### Inspector: `internal/inspector/inspector.go`

*State.* `Inspector.inFlight` (a `sync.Map` of host ids); per call the local
host record, `driftFound`, the context with its deadline; in the database the
rows of `hosts`, `desired_rules`, `actual_items`, `incidents`, `alerts`,
`inspection_runs`, `status_page_daily_rollups`.

*Operations.* `InspectHostWithTimeout` (guard, load, connect, scrape,
`evaluateDesiredRules`, verdict, run, metrics, host row, rollup),
`evaluateRule`, `updateStatusPageRollups`, `GenerateBaseline`, `DockerAction`,
`ScanPackages`, `RecalculateHostLifecycle`.

*Interaction.* Called by the background cycle of `main.go`, by `/inspect`, by
`/inspect-all` (five at a time) and by the creation of a host, all at once;
writes rows that request handlers write too; ends with a callback that wakes
the status-page worker.

*Hard.* Nothing but the in-flight guard orders the ~20 database calls and
remote commands of one inspection against anything else. A watcher goroutine
closes the connection when the budget is over, whatever the inspection is doing.

*Correct when.* One inspection per host at a time; a drift is recorded once and
resolved once; the stored status of each rule agrees with its history; host row,
newest run, alerts and status page tell the same story; the guard always goes.

### Transfer manager: `internal/transfer/transfer.go`

*State.* The job map, and per job the record that the web API reads, a context,
a byte counter, two goroutines at the two ends of an in-memory pipe and a
reporter goroutine. *Operations.* `StartTransfer`, `CancelTransfer`, `GetJob`,
`ListJobs`, `runTransfer`. *Hard.* Five goroutines write or wait for one job;
`PipeCommand` has no time limit; cancellation only closes connections.
*Correct when.* A completed job moved everything; a final status is final; a
cancelled job stops with everything it started.

### Instance guard and process lifecycle: `internal/instance`, `main.go`, `internal/updater`

*State.* The lock file beside the database (the file the path names, the flock,
the PID in it), the open database. *Operations.* `AcquireWithTimeout` (retry for
three seconds), `UpdatePort`, `Close`, the deferred calls of `main`, the shutdown
function the updater calls, `Restart` (child first, parent afterwards).
*Hard.* Unlock, close and unlink are three system calls; the child of a restart
races its parent; crashes leave the file. *Correct when.* One process uses the
database; no launch hangs; a stale file keeps nobody out.

### Updater: `internal/updater`, `main.go`

*State.* The executable at its path, `.old` beside it (Windows), a candidate per
call. *Operations.* `ApplyUpdate` (query, checksums, download, verification,
candidate, `candidate -v`, swap), `Restart`, `CleanOldArtifacts`, `Check`.
*Interaction.* Called by a serving process and by `pantau -update`, which takes
no guard; what it leaves at the path is what launches and restarts run. *Hard.*
Windows needs two renames and a rollback, does not remove what is running, and
nothing orders two updates or an update and a start. *Correct when.* There always
is an executable that runs.

### Native terminal: `internal/web/handlers_native_terminal.go`

*State.* `authorized_keys` on the host, a mutex per host row, a timer per key,
the tickets. *Operations.* `injectEphemeralKey` (sweep, append, timer),
`cleanupEphemeralKeyByID`, `sweepExpiredKeysOnHost`, `launchLocalTerminal`, the
ticket handlers, `getAndBurnNativeTicket`. *Interaction.* Three kinds of goroutine
and administrators rewrite one file through shell commands over SSH. *Hard.* A
command outlives the 15 s of its caller, and its `mv` comes after the unlock;
clocks differ; a key has one timer. *Correct when.* A key works for its five
minutes and is gone afterwards, and no line of anybody else is lost.

### Snapshots and GitHub backup: `internal/snapshot`, `ExportSnapshot`, `ImportSnapshot`

*State.* `Manager.mu`, settings (`github_backup_enabled`, `last_backup_time`), the
file at GitHub with its sha. *Operations.* `checkAndBackup` every two minutes,
`SyncNow`, `Push` with a pull before and one retry after a conflict,
`RestoreFromGitHub`, the import of an uploaded file. *Hard.* The export is a query
per host and table; a PUT that was given up may be served later; an upload takes no
mutex; a restore brings settings with it. *Correct when.* Backups replace each other
in order, what is recorded as backed up is, a snapshot is of one database, and a
backup that is due is made.

### Status-page cache: `internal/web/status_cache.go`, `handlers_status_admin.go`

*State.* The snapshot, a notice channel of capacity one, the worker.
*Operations.* `InvalidateStatusPageCache`, the debounced worker with its ticker,
`rebuildStatusPageSnapshot` (several queries), the handlers that change the
page, incidents and their entries among them (two statements each). *Hard.* Notices that arrive while the worker sleeps, drains or reads;
changes that send none. *Correct when.* Once all is quiet the page is current.

### Tunnel pool: `internal/web/handlers_tunnel.go`

*State.* `tunnelRunners`, a `sync.Map` from host to entry, each with an SSH
runner, a transport and `lastUsed`. *Operations.* `getTunnelTransport`, its dial
function with the reconnection after a failure, `evictTunnelRunner`,
`ReapIdleTunnelRunners`, the deletion of a host, shutdown. *Hard.* Load, store
and delete on the map are separate, and act on the host's entry, not on the
entry that was looked at. *Correct when.* No closed connection is in the pool,
none is forgotten while open, an abandoned one is closed.

### Auto-triage: `internal/netdiag`, `internal/web/handlers_netdiag.go`

*State.* The in-flight map of source hosts; `targetStates` (last verdict, time of
the last message, start of the incident) in memory; presets and settings in the
database. *Operations.* `StartAutoTriageScheduler` and `runAutoTriageCycle`,
`ExecuteTriage` with its probes and verdict engine, `ExecuteProbe`, the preset
handlers. *Interaction.* Dials through the inspector, reads the host row it
writes, sends messages through the dispatcher. *Hard.* Scheduler and operators
share one guard per host; errors of remote commands are dropped; presets change
under a running cycle. *Correct when.* One diagnosis per source host; an incident
is announced once, reminded of while open and declared over once; the alert state
follows the network.

### Storage triage: `internal/storagetriage`

*State.* `inFlight` (host to cancel function), `lastScanTimes`, `lastResults`, all
in memory; processes on the host. *Operations.* `CheckThrottle`, `RunTriage`,
`CancelTriage`, `ExecuteReclaim` with `ResetThrottle`, `GetLastResult`. *Hard.* The
throttle is checked before the guard is taken; a cancellation closes a connection
and sends a kill command that arrives later; remote processes outlive both.
*Correct when.* One scan per host; cooldown and snapshot are of the same scan; a
cancelled scan frees the host.

### Inspection requests: `main.go`, `internal/web/server.go`

*State.* `last_inspected` of each host, `poll_interval_sec`, the in-flight map,
`inspectAllActive` and `lastInspectAll` under `inspectAllMu`, a semaphore of five
slots. *Operations.* `runInspectionCycle` every 30 s, `/inspect`, `/inspect-all`,
the inspection of a host that has just been created. *Hard.* Each looks at the
in-flight map at one moment and calls `InspectHost` at another; refusals are
dropped. *Correct when.* Every host that is due is inspected, inspect-all leaves
no host out and comes to an end, and cooldowns are kept.

### The other parts

| Component | State and operations | Hard | Correct when |
|---|---|---|---|
| Store (`internal/store`) | SQLite rows; one connection; `ImportSnapshot` in one transaction | several writes that are not one transaction | modelled where its callers use it |
| SSH runner (`internal/sshrunner`) | a client, host keys trusted on first use | commands cut off by `Close` | modelled as its callers see it |
| Status-page incidents and rollups (`internal/store/status_page.go`) | incidents, their updates, daily rollups | an update is two statements; live status and rollup have different rules | the page shows both; modelled in `StatusCache` and `Inspector` |
| Web terminal, container logs (`internal/web/server.go`, `Terminal` and `Stream` of `sshrunner`) | a socket, two pipes, two or three goroutines, an SSH session | a ring of goroutines that wait for each other | a browser that leaves takes command and goroutines with it |
| Rate limiter (`internal/web/rate_limiter.go`) | 16 shards of token buckets | full shard, boundary of time | at most burst + rate * t requests in t |
| Log buffer, event stream | ring buffer, subscribers | slow subscribers | nobody blocks the logger |
| Authentication | sessions, 2FA tickets | two-request logins | left out for now |
| Notifications, metrics, presets, pins, front end | one row or one request each | none that a state machine shows | - |

## 2. Plan

In order of how much depends on them, with what is done marked *done*:

1. *done* `DriftLedger` (abstract), `Inspector` (implements it), `InspectorFaults`
   (composes the same inspection with crashes, restores and failed reads),
   `InspectorClaims` (what the documents say of inspections), `InspectorProofs`.
2. *done* `Transfer`, `StreamProofs` (`Transfer` and `WebStreams`).
3. *done* `InstanceGuard`, `StatusCache`, `TunnelPool`.
   *done* `AlertFeed` (abstract), `AutoTriage` (implements it), `StorageTriage`.
4. *done* `EphemeralKeys` (native terminal), `Backup` (export, push, restore),
   `Upgrade` (composes the updater with `InstanceGuard`, whose actions it takes
   over), incidents and their entries in `StatusCache`.
5. *done* `UpgradeProofs` (the guard and the updates), `InspectionRequestsProofs`,
   `AutoTriageProofs`, `EphemeralKeysProofs`, `BackupProofs`, `SharedStateProofs`
   (`StorageTriage`, `TunnelPool`, `StatusCache`).
6. *done* `InspectionRequests` (who calls `InspectHost`, and when), `WebStreams` (web
   terminal and container logs).

Every safety property of a run has its theorem, and both abstract specifications are
shown to be implemented. What is left are the liveness properties, which TLC checks. What
they rest on is proved where it is not plain from the `pc` alone: that no state short of
the goal leaves everybody waiting, that what is to be done runs out, or that it is not
forgotten (`InspectionEnds`, `CycleEnds`, `BackupHappens`, `KeyGoes`, `HangUpEnds`,
`CancelFrees`; see section 5). Only the step from there to "it happens", which needs
fairness, is left to TLC.

Conventions: parameters are CONSTANTS with a named ASSUME; one action per call
that another goroutine can come between; a `pc` names the step of each
goroutine; no RECURSIVE operator; the `MC` module of a component gives TLC the
definitions an instance needs, and there is none where the configuration says it all. A definition introduced by "Mutant of X" is a plausible bug in X,
used only to show that the properties can fail.

## 3. Modules

### DriftLedger

What the drift history promises: each rule's journal alternates between
`drift_detected` and `drift_resolved`, begins with a detection, and is only
extended, or forgotten with its host. No inspections, no database.

### Inspector

Workers are the goroutines that call `InspectHost`; `pc` and `job` are their
position and their local variables. `Begin` is `LoadOrStore` on the in-flight
map and everything else is one database call or remote command:

| Actions | Code |
|---|---|
| `Begin`, `Expire` | guard, `context.WithTimeout` and the watcher that closes the connection |
| `Load`, `Connect`, `Scrape` | `GetHost`, `GetRunnerForHost`, `scrapeSystemMetrics`, each with its early return (`Abort`, `AbortOrDown`) |
| `ListRules` ... `RaiseAlert` | `evaluateDesiredRules`: enabled rules, `evaluateRule`, previous status, `UpsertActualItem`, `RecordIncident`, `CreateAlert` |
| `Judge`, `AcknowledgeHost`, `RecordVerdict` | verdict, `AcknowledgeHostAlerts`, run and host row, in the order the branch takes |
| `Finish` | `updateStatusPageRollups`, the deferred `Delete` |
| `SaveRule`, `DeleteRule`, `AcknowledgeOne`, `AcknowledgeAll`, `DeleteHost` | request handlers |
| `WorldChange` | the inspected machine |

A rule stands for its (host, kind, target) key, which is also the key of its
`actual_items` row. What a rule's command finds is one bit, `world[r]`; an
inspection whose connection is cut, or whose command fails, reads silence, which
some kinds of rule take for compliance (`Inverted`). The log of a rule is its
incidents; alerts are counted; runs are kept newest first, `Keep` per bucket, as
`RecordInspectionRun` prunes them.

### InspectorFaults

Extends `Inspector` with a crash between any two calls, `ImportSnapshot` under a
running inspection, and the read whose error is dropped (`BlindRead`).

### Transfer

One job. `RunTransfer` is the goroutine of the job; `Write`, `SourceEnds`,
`DestEnds` are the pipe; `Tick`, `Report`, `ReporterReturns` the reporter, whose
load of the counter and write of the record are two steps. `CancelTransfer` may
come at any of them. The data is `Size` blocks and whether the copy is whole.

### InstanceGuard

Processes are lives. Files are numbered as they are created, so that an unlinked
file that is still locked differs from the one the path names now: `path` is the
number at the path, `fd[p]` the file a process has open, `flock` the holders. `meta`
is the sequence of processes whose PID a file holds. A launch is `OpenFile` (or
`OpenFails`, after which `main` goes on without a guard), `Lock`, `Retry` or
`GiveUp`, `Truncate` and `WriteMeta`, `OpenDatabase`, `Bind`. Close is `Release` and
`Remove`; `Signal` and `Restart` run them and the close of the database in the order
`main.go` does; `Die` is what the kernel does for a process that is killed.
`unlinked` is a history variable: a Close has removed a file that another process
had open. The parameter `Stops` says which orderly ways to stop there are.

### Upgrade

Extends `InstanceGuard` with the files its processes run. `GuardStep` is a step of
a process as `InstanceGuard` has it, `Start` a launch or a restart that runs whatever
the path names by then, `CleanOldArtifacts` the first thing a started process does.
A call of `ApplyUpdate` has its own `pc` (`ap`), is made by a serving process or by
a process of its own (`Cli`), and dies with its caller:

| Actions | Code |
|---|---|
| `Ask`, `Download` | release, `checksums.txt`, archive, comparison: a corrupt archive ends the call |
| `WriteCandidate`, `SmokeTest` | extraction beside the executable, `candidate -v` |
| `Swap` | Unix: one rename |
| `Clear`, `MoveAside`, `MoveIn`, `RollBack` | Windows: `.old` removed, executable to `.old`, candidate in, or back |
| `GiveUpUpdate` | a request that is given up, an interrupted `pantau -update` |

A file is the call that downloaded it and its quality. `Running` is what Windows
keeps from being removed or replaced, though not from being renamed.

### EphemeralKeys

One machine. A task is a goroutine for a key: its injection, its removal by timer, its
removal after a failed launch. A shell is a command on the host, which a task starts
and waits for (`Awaited`), and which goes on when the task gives up (`CutOff`):

| Actions | Code |
|---|---|
| `Generate`, `Lock`, `ConnectFails` | `GenerateEphemeralKey`, the mutex of the host row, the connection |
| `Awk`, `Mv`, `ShellFails` | the filter of the sweep and of the removal, in its two halves |
| `Echo` | the append |
| `CutOff`, and `End` in the above | `ExecTimeout` that gives up, or hears of the end; then `Resume`: append after sweep, timer after append, unlock |
| `Fire` | `time.AfterFunc` |
| `StoreTicket`, `Redeem` | the ticket handlers; `Deliver` is the script |
| `LaunchReturns`, `LaunchFails` | `launchLocalTerminal` |
| `Revoke`, `Tick`, `Restart` | an administrator; five minutes; a new process |

Lines are keys or an administrator's own. Three history variables say what no guard
reads: `wanted`, what the completed edits should have left; `torn`, the lines that
were changed while another command held a copy; `cuts`.

### Backup

Host, rule and preset of each id, and whose they are: after a restore an id may name
another instance's host. `snap[c]` is what a goroutine has exported so far, `base[c]`
the sha it has pulled, `wire` the PUTs that GitHub may still serve, `remote` the file.

| Actions | Code |
|---|---|
| `CheckAndBackup`, `Request`, `Lock` | the scheduler's look at settings before the mutex; the two requests; `Manager.mu` |
| `ListHosts` ... `ReadPresets`, `ReadPresetsFails`, `ExportFails` | `ExportSnapshot`, query by query |
| `Pull`, `PullFails`, `Put`, `Repull`, `RepullFails`, `Stamp` | `Push`, `pushWithSHA` and its retry, `last_backup_time` |
| `Serve`, `Lose`, `TimeOut` | GitHub and the network; a PUT that its caller has given up stays on the wire |
| `PullSnapshot`, `ImportPulled`, `SaveSettings`, `RestoreFails` | `RestoreFromGitHub` |
| `Upload` | `handleSnapshotImport`, without the mutex |
| `Edit`, `Configure`, `Tick`, `Foreign`, `Crash` | administrators, time, another instance, a killed process |

`exports`, `stored`, `last` and the field `crossed` are history.

### InspectionRequests

A task is a goroutine that is going to call `InspectHost`: on whose behalf (the
worker, inspect-all, the creation of the host, a client) and for which host. The
inspection itself is five steps, those its callers can tell apart; `Inspector` has
the others.

| Actions | Code |
|---|---|
| `Begin`, `Busy`, `Load`, `LoadFails`, `Record`, `Finish` | `LoadOrStore`, `ErrAlreadyInspecting`, `GetHost`, `UpdateHostInspection`, the deferred `Delete` |
| `Sweep`, `Dispatch` | `runInspectionCycle`: list and time of the sweep, then host by host |
| `Ask`, `Check` | `/inspect`: the row, then the in-flight map and the row's cooldown |
| `CheckAll`, `StartAll`, `StartAllFails` | `/inspect-all` under `inspectAllMu`, which the others wait for |
| `HandOut`, `EndAll` | a slot of `sem` and a goroutine; `wg.Wait` and the deferred section |
| `Create`, `Delete`, `Configure`, `Tick` | administrators; time |

`age` is the time since `last_inspected`. `listed` and `visited` are history: the hosts
of the cycle, and those somebody has dealt with since it was admitted.

### WebStreams

One session of `handleWSTerminal` or `handleWSDockerLogs`: the handler, which waits
in `Terminal` or `Stream`, the goroutine from output to socket, the one from socket to
input, for the terminal a third that types the first commands and one that forwards
window sizes.

| Actions | Code |
|---|---|
| `Provision`, `StartSession`, `StartFails`, `SessionEnds` | `ensureBrowserBridge`, `Shell` or `Run`, `Wait`, the deferred closes (`Return`) |
| `TakeOutput`, `OutputEnds`, `Send`, `SendFails` | the read of `outReader`, `WriteMessage` and what follows its error (`HangUp`) |
| `Receive`, `ReadFails`, `Input`, `Resize` | `ReadMessage` and its error, `inWriter.Write`, `resizeChan <-` |
| `StarterInput`, `TakeResize` | the goroutine for directory and command; the range over `resizeChan` |
| `CopyOutput`, `CopyRefused`, `Forward`, `InputEnds` | the goroutines that golang.org/x/crypto/ssh starts for a session, as the two functions rely on them (external) |
| `Output`, `Exit`, `Lose` | command, connection and browser |

`io.Pipe` has no buffer: a write waits for a read or for a close. A chunk is not told
from another, and both copies of output to the one writer are one.

### StatusCache

The page is four parts (texts, targets, incidents, entries of incidents), each with a
version in the database. A handler changes a part, then sends its notice; an incident
that is created and an entry that is added are `CreateIncident`, `AddEntry` and
`UpdateParent`, any of which may fail (`AddFails`), with or without a notice; the worker takes it, sleeps, drains, checks the
setting, reads part by part, and stores. `SaveSilently` is a change that sends no
notice (the deletion of a host or a rule). `missed` is a history variable that no
guard reads: it says that a silent change or a failed query has happened since the
last rebuild began.

### TunnelPool

The entry of one host; entry, transport and runner are one number. A request goes
through load or connect and store, dial, and on failure evict, close, reconnect,
redial, replace or discard; the reaper visits, deletes and closes; the host may be
deleted and the server stopped.

### AlertFeed

What the operator is promised about messages on a target: an incident is announced
before it is reminded of or declared over; a restart forgets what was announced.

### AutoTriage

One source host. The scheduler goroutine is `pc` and `run` (its local variables);
`world` is the condition of the network to each target, of the host and its web
application, and of the SSH link, and may change between any two steps.

| Actions | Code |
|---|---|
| `StartCycle`, `Skip`, `Pick`, `EndCycle` | `runAutoTriageCycle` up to the call of `ExecuteTriage` |
| `Resolve`, `Guard`, `Dial` | host row, in-flight guard, connection, each with its early return (`GiveUp`) |
| `ProbeApp` ... `TryPort` | one remote command each; empty output when the link is gone, as `execRunnerCmd` drops the error |
| `Conclude` | the last cases of the verdict engine, the log row, the deferred `Delete` |
| `Report` (`Degraded`, `Healthy`) | the critical section of `stateMu` |
| `Enter`, `Leave` | an operator's probe or triage on the same host |
| `Edit`, `WorldChange`, `Tick`, `Restart` | presets and setting; the environment; time; a new process |

The verdict engine's `switch` runs through its cases in the order of the probes, so
that the model decides the verdict as the probes go (`Decide`) instead of keeping
every outcome. Time is the age of the last message about a target, up to `Reminder`.

### StorageTriage

One host; `Scans` are calls of `RunTriage`, `pc[s]` their position. `live` are the
scans whose processes run on the host, whether or not anybody still listens.
`CancelTriage` is `Aim` (load of the cancel function), `Fire` (its call, and the
goroutine started) and later `Kill` or `KillFails`. Ages are counted in cooldowns.
`before` is a history variable no guard reads.

## 4. Runs

| Run | Instance | Shows |
|---|---|---|
| `inspector` | 1 host, 1 rule, both published, 2 goroutines, 2 incidents, 2 runs kept | one inspection at a time; history and stored status agree; newest run and host row agree; an outage is published exactly after two down runs; a healthy host has no open alert; `Inspector` implements `DriftLedger`; an inspection ends |
| `inspector_faults` | 1 host, 2 rules (one inverted), 1 goroutine, faults | after crashes and restores the next verdict repairs the alerts |
| `transfer` | 2 blocks | a completed job had both ends succeed; a verified file is whole; a status is final once returned; a cancelled job stops |
| `upgrade` | 2 lives, 2 updates, both platforms, every way to stop, lock file may fail | an executable that runs is always there; one lock holder, one guarded user of the database, no false "already running" |
| `status_cache` | 2 handlers, 2 versions per part | no notice is lost; the page catches up |
| `ephemeral_keys` | 2 keys, 1 line of an administrator, host clock ahead, 1 command cut off or restart | live keys stay, no edit is lost but to a command nobody waits for, every key has a remover, nobody keeps the mutex, a script is delivered once |
| `backup` | 1 id, scheduler, sync, restore, 1 failure, 1 foreign push, 2 calls | backups are in order, what is recorded is stored, snapshots fit, a due backup is made |
| `inspection_requests` | 1 host, 1 client, a slot | inspect-all leaves no listed host out and ends; a host that is due is inspected again and again |
| `web_streams` | a terminal or logs, 2 chunks waiting, 2 window sizes | a browser that leaves ends the command, and logs leave no goroutine behind |
| `tunnel_pool` | 2 requests, 2 connections | the pool never holds a closed connection; an abandoned one is reaped |
| `auto_triage` | 1 private target, 1 operator, 1 restart, every condition | one diagnosis at a time; `AutoTriage` implements `AlertFeed`; alerts settle on what the network does |
| `storage_triage` | 3 scans, one forced, 1 kill command | one scan past the guard; cooldown and snapshot agree; a cancelled scan frees the host |

**Bounds.** Two goroutines are the smallest number that can race for a guard, and
a third adds no step that the two do not have: all of them run the same code and
meet only in `inFlight` and the rows. `MaxIncidents` stops new inspections once a
rule has that many incidents, so that the log stays finite: two are a detection
and a resolution, one is enough for the fault run since what it checks does not
read the log. `Keep = 0` where no property reads the runs, 2 where the
anti-flapping rule needs the two newest; the code keeps 100 per bucket, and the
pruning is the same at any number above one (600 thousand states). `Size` is the number of times the
reporter and the wait loop can see the counter change: two gives a stale snapshot
a value between the first and the last. In `upgrade` two lives are a parent and its
successor, or a holder and an outsider, and two updates can overlap in every step of
the swap (1.5 million states); `GuardLive.cfg` checks `InstanceGuard` alone with three
lives and all ways to stop, `LaunchSettles` included, and has no run of its own since
the upgrade takes its actions over. Two keys are an injection and a removal, or two of
a kind, that fight for the file; ticks are five minutes, with `TTL = 1`, and `Ahead = 1`
puts the host's clock as far ahead as the sweep's margin of ten minutes allows; one
cut-off is enough for an orphaned command to meet all others, and `InOrder` counts the
two requests in the order they come in (2.5 million states). In `backup`, `Ids = {1}`
lets a host be deleted, or its id be used by another instance, between two queries;
without the liveness property more failures and calls have been checked as well
(`MaxFaults = 2`: 1.0 million states, `MaxCalls = 4`: 4.9 million). In
`inspection_requests` one host is enough for liveness, since hosts meet in nothing but
the slots; `InspectAll.cfg` checks `EachIsVisited` on two hosts that wait for one slot
while the worker inspects them (2.4 million states), and has no run of its own. `Cooldown = 1` and `Interval = 2` separate a host that
nobody may ask for, one that a client may, and one that is due. In `web_streams`,
`MaxBacklog` output in the channel beside one chunk on its way is enough for output
that is under way when each of the others goes; a full `resizeChan` is reached at its
capacity, whatever that is. `MaxChanges = 2` lets each part change once after the start,
which is what a rebuild can miss; `MaxRunners = 2` lets a second connection
replace the first (three has been run too, 3.5 million states, with the same
result). One target is enough for `auto_triage`, since a cycle keeps nothing from one
target to the next but the list; `Interval = 1` and `Reminder = 2` separate a target
that is not due, one that is, and one whose reminder is. Three scans let a late kill
or a stale entry of the first meet the second while a third is refused or waits.
`MaxKills = 1` bounds the kill goroutines: a second one does what the first does.
`CHECK_DEADLOCK FALSE` is used where the modelled parts do come to rest
at a bound: all lives spent, the server stopped.

**Fairness.**
- Inspector: `WF(Proceed(w))`. A goroutine that has started is scheduled, every
  `Exec` has a limit of 30 s and every dial one of 10 s, and the database calls are
  local. Nothing says that an inspection starts, or that its deadline comes first.
- Transfer: `WF` of the job's own goroutine (its remote commands are bounded) and of
  the reporter. The two pipe ends have no time limit, so they are only assumed to
  end once `runTransfer` has returned and closed their connections.
- InstanceGuard: `WF` of a launched process, `SF(GiveUp)` for the three-second
  deadline: `Lock` and `Retry` alternate, so giving up is enabled again and again
  without being so continuously.
- Backup: `WF` of the scheduler's check, of the steps of a goroutine and of GitHub's
  answers (a lost one ends in the 30 s limit); `SF(Lock)`: a mutex that is released
  again and again is got, which `sync.Mutex` sees to after a millisecond. Nothing
  requests anything, and at the bounds failures stop.
- EphemeralKeys and Upgrade: only safety is checked in the runs. `FairSpec` of
  `EphemeralKeys` and its `KeyGoes` have been checked on the instance without
  restarts and administrators.
- InspectionRequests: `WF` of the worker's sweeps and its loop, of the goroutines of a
  cycle, of every step of an inspection (45 s budget) and of time. Nobody has to ask for
  anything. `DueIsInspected` excepts a host whose load fails again and again.
- WebStreams: `WF` of what each goroutine does without waiting for another program. A
  closed connection ends its sessions (`Aborted`); otherwise neither browser nor command
  need end, take output, or take input.
- StatusCache: `WF` of handlers, worker and ticker; nothing
  is assumed of failing queries, which `CatchesUp` names as the exception.
- TunnelPool: `WF` of requests between two network calls, of the reaper, and of
  time passing over an entry. Nothing forces the answer to a proxied request, the
  loss of a connection or a shutdown.

- AutoTriage: `WF` of the scheduler and of time; an operator's diagnosis ends, since
  each has a time limit (16 s or the sum of its commands). `AlertsSettle` speaks of
  targets that nothing keeps the scheduler from: an operator who diagnoses again and
  again can starve it (`ErrBusy`), and the code does nothing about that.
- StorageTriage: `WF` of a call's own steps, of its watcher, of `CancelTriage` between
  its two steps, and of the kill command (dial 10 s, command 5 s). Neither the end of
  the remote processes nor the 50 s limit is assumed, so that `CancelFrees` rests on
  the closed connection alone.

**Mutants.** Every property of a passing run is violated by a mutant of a modelled
definition under the run's own configuration: the guard written without a look at
it, an early return that leaves the in-flight entry, an `actual_items` row deleted
with its rule, the oldest run kept in place of the newest, an acknowledgement of
the last rule only, one pipe result taken for both, metadata written by a rename, a
lock judged by its PID, a smoke test whose result is dropped, a sweep without its
margin, `grep -v` in the place of `awk`, a mutex that a failed connection keeps, a
second conflict taken for success, a notice drained after the rebuild, an entry
closed before it leaves the pool, a slot that a refused inspection keeps, logs whose
output stays open, and so on.

**Type invariants.** Each module has one `TypeOK` (`UTypeOK` for `Upgrade`, `PoolTypeOK`
for `TunnelPool`, `CacheTypeOK` for `StatusCache`), which is proved for all of them; that of `Inspector` holds under the faults of `InspectorFaults`
as well (`Surviving`).

## 5. Theorems

All are proved from the named assumption on the constants of the module and
nothing else, so for any hosts, rules, goroutines, bounds and sizes; `OnlyOrphansTear` and
`StepsRunOut` have a hypothesis besides, which is named below. What the assumptions ask is what the
code sees to: ids are numbers, a host and a rule are told apart by the type of a
target, no goroutine has the name that stands for a free mutex. Each inductive invariant below has
also been checked by TLC on the instance of its run.

`InspectorProofs`:
- `TypeCorrect`: `Spec => []TypeOK`. `TypeOK` alone is not inductive: that the rule
  being evaluated is one of the host's has to be carried along (`Shape`). `Recorded`
  is shown to return a sequence by `RecordedType`, which needs `LastOfIndices` (a
  non-empty set of indices has a greatest one, by well-founded induction on `Nat`).
- `OneInspection`: `Spec => []AtMostOneInspection`, from `Guarded`: an active
  goroutine's host is in the map, and active goroutines have different hosts. `Moves`
  says what a step of one goroutine does to the others, once for all steps.
- `DriftReported`: `Spec => []DriftIsReported`. The invariant `Reported` adds what a
  goroutine between the read of the previous status and the incident may rely on
  (`MayRely`): that `prevStatus` is still the stored status and the log still agrees
  with it, unless the host has been deleted meanwhile (`Gone`), where the foreign
  keys make both writes fail. This is the argument for why a delete and a re-save of
  a rule in that window does no harm: nobody but the one goroutine that holds the
  guard writes `actual_items`.
- `ImplementsLedger`: `Spec => LedgerSpec`. Under the same invariant each step of the
  inspector is a step of the ledger or leaves the log alone.
- `HealthyIsQuiet`, `VerdictIsRecorded`, `OutageSustained`: the three invariants about
  what an inspection leaves behind. `Verdicts` says what a host that nobody inspects
  says (`Resting`), and what a goroutine may rely on until it is done (`Working`): a
  goroutine that has raised an alert has `driftFound` (`Alerting`), the alerts are as
  the verdict wants them from the acknowledgement on (`Settled`), and history, host row
  and status page follow in the order of the writes (`Recording`): first they say what
  the last inspection left, then the run is ahead of the row or the row of the run, and
  the rollup comes last. It needs that the run just written is the first of `Recorded`,
  which `RecordedFirst` shows whatever the pruning removes.
- `AlertsAreRepaired`: `FaultSpec => []VerdictRepairsAlerts`. With crashes, restores and
  failed reads the rest of `Verdicts` is lost, as `InspectorFaults` shows; `Surviving`
  is the part that stays (types, guard, `Settled`), and it is enough.
- `EntriesHaveMovers` (`Spec => []EntriesMove`) and `StepsRunOut` (`Spec =>
  [][RunsDown]_vars`) are what `InspectionEnds` rests on. A host in the map has an active
  goroutine with a next step (`CanProceed`, which TLC has found to be `ENABLED` of
  `Proceed`), at every early return and whatever is deleted meanwhile. Each step it
  takes makes what is left of it smaller: at first ten steps and five for each rule
  of the host, of which there are finitely many, which is the hypothesis. Nothing that
  others do makes it larger.

`StreamProofs`, the transfers: `TypeCorrect`, `BothEnded`, `VerifiedFile`, `Final`, from one
invariant that ties the position of `runTransfer` to the results it has taken and
to the status it has written.

`StreamProofs`, the web streams: `StreamTypeCorrect` and `NobodyIsStuck` (`Spec =>
[]RestsWhenLeft`), for any backlog and any capacity of `resizeChan`. When the browser has
left, some goroutine can go on without waiting for browser or command (`Going`), until
the connection and the command are gone or nobody reads the socket; for logs, until all
have left. This is the safety half of `HangUpEnds`: there is no circle of pipes, channels
and closes in which everybody waits. `Going` spells out when one of the fair actions is
enabled; that it is exactly that has been checked by TLC on the run's instance. The
invariant: whoever leaves has closed the connection, and for logs their output
(`Leavers`), and what the library copies for a session is there from its start to the
end of its command (`Sessions`, `Roles`).

`UpgradeProofs`, the guard: `TypeCorrect`, `SingleHolder`, `SingleGuardedUser`,
`StaleIsHarmless`, for any number of processes and any set of ways to stop. The
invariant says who can be a holder: only a process that has the file open that it
locked, and, until some Close has removed a file under somebody, that this is the
file at the path. It has to carry where in the launch each process is, since the lock
is taken two steps before the database is opened and given up in two orders.

`UpgradeProofs`, the updates: `UpgradeKeepsGuard` (`USpec => Spec`: every step of processes and
updates is a step of the guard or leaves it alone, so that the theorems above hold of
the composition), `UTypeCorrect`, and `ExecutableRemains` (`USpec => []SomethingRuns`).
Its invariant follows the candidates: one that has passed the smoke test is good, what
is at the path or at `.old` is good, and between the two renames of Windows what was
moved aside is kept, by a call that is still at work or by a process that runs it.

`SharedStateProofs` is about three modules that keep in memory what all requests share;
it extends all three.
- `StorageTriage`: `TypeCorrect`, `SingleScan` (`Spec => []OneScan`), `SnapshotCurrent`
  (`Spec => []SnapshotIsLast`). The entry of the in-flight map is that of the call past
  the guard (`HoldsEntry`), so that nobody else is between the writes of
  `lastScanTimes` and `lastResults` (`Between`). A refused call and `CancelTriage`
  leave the entry alone, which is what the proof rests on. `EntryHasHolder` (`Spec =>
  []EntryIsHeld`): an entry is always that of a call that will remove it.
  `CancellationIsKept`, an action property: a cancel function that has been loaded or
  called stays so until its call has returned, which `CancelFrees` rests on.
- `TunnelPool`: `TunnelTypeCorrect`, `PooledOpen` (`Spec => []PooledIsNotClosed`). A
  connection that is in the pool or waits to be put there is nobody's to close: no
  request has it as its victim and the reaper not as its prey (`Apart`), because whoever
  closes one has taken it out first; nor has one that waits been in the pool (`Once`).
- `StatusCache`: `CacheTypeCorrect`, `SettledCurrent` (`Spec => []SettledIsCurrent`), for
  any handlers and any number of changes: a part that the rebuild has read and that has
  changed since has a notice waiting, a handler that will send one, or `missed`; so has
  the stored snapshot.

`AutoTriageProofs`: `TypeCorrect`; `SingleDiagnosis` (`Spec => []OneDiagnosis`), from
`Guarded`: the in-flight entry is nobody's, the scheduler's at a step of its section, or
one operator's, whatever early return gives it back; `ImplementsFeed` (`Spec =>
FeedSpec`), step by step. The messages need less than the guard, only that a triage
under way is about a target (`AtTarget`); a restart, which forgets what the scheduler
remembers, is a step of the feed as well.

`EphemeralKeysProofs`: `TypeCorrect`, `LiveKeysStay`, `EditsAreKept`, `HoldersWait`,
`KeysHaveRemovers`, `HandedKeysWork` and `OnlyOrphansTear`, for any keys, host rows,
administrator's lines and lifetimes, restarts and cut-off commands included. `Locks`:
whoever waits for a command has its row's mutex, and the command has not ended, so that
no two goroutines wait for the same. `Stages`: what has happened to a key by the time
its injection is at each step, and for which keys tickets are kept. `Data`: a copy has
the lines of the file without what its filter drops (`Copies`); only torn lines differ,
and a filter drops no key that lives. `OnlyOrphansTear` is about machines that one host row stands
for, which is its hypothesis (`\A k, l \in Keys : RowOf[k] = RowOf[l]`, as in the run):
then, as long as no command was cut off, every command that runs has somebody who waits
for it (`Heard`), hence there is one. With two rows for one machine it is false, see
`MutexGuardsFile` in section 7. `RemovalGoesOn` (`Spec => []RemovalMoves`) is the safety
half of `KeyGoes`: a key whose removal has not failed has a goroutine or a timer that is
to remove it, and that one can go on, or waits for a mutex whose holder can, or for a command that
still runs. It follows from `Locks` and `Stages`; `CanRun` and the other guards it spells
out agree with `ENABLED` on the run's instance.

`BackupProofs`: `TypeCorrect`, `RecordedStored` (`Spec => []RecordedIsStored`),
`BackupsInOrder` (`Spec => BackupsAreInOrder`) and `SnapshotsAreFit`
(`Spec => []SnapshotsFit`), for any ids, requests and faults. Whoever is past
`Manager.mu` has it (`Turns`), so that a backup under way has the number of the newest
export (`Numbers`). A PUT on the wire may be served long after its caller has gone; it
does no harm because, as long as its sha is that of the file, nothing later than its
export has been stored (`Fresh`, in `Wires`): any PUT that is served takes the sha away
from all others. `File` ties this to what the file has and what was recorded. `Content`
says that all snapshots, in the tables, in memory, on the wire and at GitHub, give a
host its own rules; it needs that an id which an export has yet to ask the rules of is
not given to another host, which holds since AUTOINCREMENT gives ids above all it has
given out, and is lost when an upload replaces the tables (`crossed`). `MutexIsNotLost`
(`Spec => []MutexMoves`) and `BackupGoesOn` (`Spec => []BackupMoves`) are the safety half of
`BackupHappens`: whoever has `Manager.mu` can take its next step, since a push that waits
for an answer has its PUT on the wire (`Awaited`), whatever was given up, lost or refused
before; so the scheduler, when a backup is due, can go on or is kept waiting by somebody
who can. The guards (`CanGo`) agree with `ENABLED` on the run's instance.

`InspectionRequestsProofs`: `TypeCorrect` and `NobodyLeftOut` (`Spec => EachIsVisited`),
for any hosts, clients and slots. The invariant has three ideas. The number of slots taken
is the number of goroutines that hold one (`Slots`, by cardinalities), so that a cycle
that waits for none has none left. A cycle is admitted when nobody is inspecting, so that
whoever has recorded a host while there is a cycle has done so since (`Recorded`). A host
that has been handed out has its goroutine yet, or is being inspected, or has been
(`Dealt`): the goroutine that is refused relies on the one that refused it.
`MapIsInspections`: a host is in the in-flight map while exactly one goroutine inspects it
(`Owned`). The last two are what `CycleEnds` rests on. `CycleGoesOn` (`Spec =>
[]CycleMoves`): while goroutines of the pool are left one of them can go on, even with
every slot taken, and when none is left the slots are free, so that the next host can
be handed out or the cycle can end; that these guards imply `ENABLED` of the fair
actions has been checked by TLC with two hosts and one slot. `CycleRunsOut` (`Spec =>
[][ChoresRunOut]_vars`): what a cycle still owes is a subset of five steps per host,
nothing adds to it, and each of its steps takes something away; clients that inspect,
create or delete hosts do not.

Only model-checked: the liveness properties (`InspectionEnds`, `CancelStops`,
`LaunchSettles`, `CatchesUp`, `AbandonedIsReaped`, `AlertsSettle`, `CancelFrees`,
`BackupHappens`, `CycleEnds`, `DueIsInspected`, `HangUpEnds`, `KeyGoes`), which TLAPS does
not reach under fairness. Their safety half is proved for `InspectionEnds`
(`EntriesHaveMovers`, `StepsRunOut`), `CycleEnds` (`CycleGoesOn`, `CycleRunsOut`),
`BackupHappens` (`BackupGoesOn`), `KeyGoes` (`RemovalGoesOn`), `HangUpEnds`
(`NobodyIsStuck`) and `CancelFrees` (`CancellationIsKept`); for the others it is plain
from the `pc` which step comes next, and no theorem says it. The claims of section 7 are refuted by TLC; there is nothing in
them to prove.

## 6. Not modelled, and why

- Inside the modelled parts: the parsers of command output (a rule's outcome is one
  bit, a scrape succeeds or fails), the texts of alerts and incidents, the numbers
  of metrics, host columns other than the status, HTML and URL rewriting in the
  tunnel, the serialisation of the snapshot, Windows locking, the scripts and command
  lines of the native terminal, encryption of backups, archive formats and versions.
- `GenerateBaseline`'s discovery is represented by the rules it saves; `DockerAction`
  and `ScanPackages` do not touch the rows of the pipeline.
- `UpdateHostInspection` writes back columns loaded up to 45 s earlier, over what
  `PUT /api/hosts` has written in between: listed as a hazard; no step that is modelled
  depends on those columns.
- Auto-triage: DNS, route, database port and hop commands decide no verdict; the
  `triage_incident_logs` rows are appended and read by the history page only; the
  choice of the source host is fixed to one.
- Storage triage: the parsing of the probe's output, the whitelist of clean-ups.
- Native terminal: the private key file of a local launch, which a timer removes after
  30 s.
- Backup: the download of a snapshot, which is an export without a push; the gate of a
  fresh installation; `last_backup_status`, which is only displayed.
- Updater: `Check` with its cached answer, which decides what is offered, not what
  `ApplyUpdate` installs.
- That an incident's row and its newest entry may disagree when two entries are added
  at once: `StatusCache` compares the page with the database, not two tables.
- Package scans (`ScanPackages`, its guard and its cooldown): the same pattern as
  `/inspect`, over rows that nothing else writes. Their cooldown is 60 s
  (`server.go`:1193), where docs/user-guide.md:203 says 30 s.
- The hops inside the SSH library: `WebStreams` takes its two copies of output for one,
  and its two hops of input for one.
- What a request handler that touches one row or one remote file does.
- The rate limiter (a token bucket behind one mutex per shard: arithmetic, not
  interleavings), the log buffer (one critical section, subscribers sent to without
  blocking), sessions and 2FA tickets (requests over one row or one map entry each).
- Parts without a module are in section 1 and in `PROJECT.json` with their reasons.

## 7. Where the repository disagrees with itself

Each of these is stated as a definition and was found violated by TLC. A module's are
in one configuration, `ClaimsOf<module>.cfg` (TLC reports the first violation; with
`-continue` all of them, or with the others taken out of the file, any one); those
that need an instance or a specification of their own are in `Claim<name>.cfg`. None
is a run of `PROJECT.json`.

| Definition | What happens | Where it is said otherwise |
|---|---|---|
| `InspectorClaims!MetRuleIsOperational` | a rule's stored status (`"ok"`, `"drift"`) is compared with words it never holds, so a rule that is met counts as an outage in the rollup | CONTEXT.md:497 |
| `InspectorFaults!TransitionIsRecorded` | a crash between the item and its incident: the transition is never reported | inspector.go:1193 |
| `InspectorClaims!DriftIsReal` | a command that fails is read as an answer, and recorded as drift | CONTEXT.md:27 |
| `InspectorClaims!OverrunIsDown` | a budget that runs out during the metric probes goes unnoticed | docs/user-guide.md:144 |
| `InspectorClaims!OutageNeedsTwoFailures` | the first run of a host counts as an outage when it is down | ADR 0038, line 25 |
| `Transfer!CancelledIsNotCompleted` | a cancellation after both results is overwritten with "completed" | server.go:3010 |
| `Transfer!VerifiedIsWhole` | a directory in verified mode is not hashed | docs/user-guide.md:407 |
| `Transfer!CompletedShowsAll` | a late report overwrites the final count | pantau_test.go:883 |
| `InstanceGuard!OneDatabaseUser` (`ClaimOneDatabaseUser.cfg`) | the shutdown function of a restart (main.go:397) closes the guard before the database, so the child opens a database that the parent still uses | CONTEXT.md:261 |
| `InstanceGuard!SoleHolder` (`ClaimOneHolder.cfg`) | `Close` unlinks a file its successor has locked, and a third process locks the next one | guard.go:65 |
| `Upgrade!SwapIsAtomic` | Windows renames twice; a process killed between them leaves nothing at the path | README.md:126 |
| `Upgrade!OldIsCleaned` | the restarted child cleans up while its parent still runs `.old`, which stays until the start after | docs/adr/0019:34 |
| `EphemeralKeys!LeftoverIsSwept` | no inspection sweeps and no removal is repeated: after a restart a key stays until the next terminal on its host | ADR 0036, decision 2 |
| `EphemeralKeys!EditHolds` | an edit between `awk` and `mv` is undone by the `mv` | handlers_native_terminal.go:212 |
| `EphemeralKeys!MutexGuardsFile` | two host rows that name one machine have two mutexes | handlers_native_terminal.go:137 |
| `Backup!SnapshotIsOne` | an upload between two queries of an export makes a snapshot of two databases | docs/user-guide.md:478 |
| `Backup!PresetsSurvive` | a preset whose host was added after the hosts were read is refused on import, and its error dropped | docs/user-guide.md:478 |
| `InspectionRequests!CooldownHolds` (`ClaimCooldownHolds.cfg`) | an inspection that is recorded between the load of the row and the look at the in-flight map is seen by neither guard, and another starts at once | docs/user-guide.md:139 |
| `WebStreams!LostIsAborted` | the goroutine that would notice that the browser has gone may be waiting for a command that reads no input | CHANGELOG.md:118 |
| `WebStreams!TerminalLeaves` | nobody closes the output pipe of a terminal: its reader stays after the session, and output under way when the browser leaves keeps the handler as well | CHANGELOG.md:118 |
| `TunnelPool!NothingLeaks` | two first requests both connect and both store; the first connection leaves the pool open and the reaper never sees it | handlers_tunnel.go:115 |
| `TunnelPool!ReapedIsAbandoned` | a request longer than `maxIdle` loses its connection | handlers_tunnel.go:115 |
| `TunnelPool!LossIsHealed` | the transport that replaces a lost one never reconnects | CHANGELOG.md:145 |
| `AutoTriage!HealthyIsMeasured` | a ping whose output cannot be parsed, or that was never heard, counts as no loss and no latency: the verdict is HEALTHY, and an open incident is declared over | docs/user-guide.md:356 |
| `AutoTriage!FilteredIsNoIncident` | `ICMP_FILTERED_TCP_HEALTHY` is announced as an incident | docs/user-guide.md:348 |
| `StorageTriage!NoParallelScans` | a scan that was cut off leaves its processes running, and the next one is let in | storagetriage.go:595 |
| `StorageTriage!ResetHolds` | a scan that was running during a clean-up sets the cooldown again | ADR 0039, line 31 |
| `StorageTriage!SnapshotIsWhole` | a late kill command hits the next scan, and what is left of its output is stored as the snapshot | storagetriage.go:428 |
