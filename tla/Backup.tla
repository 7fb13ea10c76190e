------------------------------- MODULE Backup -------------------------------
(***************************************************************************)
(* internal/snapshot: the configuration is exported query by query, pushed  *)
(* to one file at GitHub with the sha of the version it replaces, and       *)
(* restored from there or from an uploaded file in one transaction.  A      *)
(* scheduler and requests call the manager, whose mutex orders pushes and   *)
(* restores; uploads and downloads do not take it.  A request to GitHub may *)
(* fail, and a PUT that its caller has given up may still be served.        *)
(***************************************************************************)
EXTENDS Integers, FiniteSets

CONSTANTS
    Ids,            \* host ids; AUTOINCREMENT gives none out twice
    Pushers,        \* goroutines in SyncNow: the scheduler and requests
    Scheduler,
    Restorer,       \* a request in RestoreFromGitHub
    MaxFaults,      \* bound on the requests and queries that fail, and the crashes
    MaxForeign,     \* bound on the pushes of another instance to the same file
    MaxCalls        \* bound on the intervals that pass, and what administrators do

ASSUME BackupAssumption ==
    /\ Scheduler \in Pushers
    /\ Restorer \notin Pushers
    /\ "nobody" \notin Pushers \cup {Restorer}
    /\ Ids \subseteq Nat
    /\ MaxFaults \in Nat /\ MaxForeign \in Nat /\ MaxCalls \in Nat

VARIABLES
    db,             \* the tables: host, rule and preset of each id
    used,           \* the ids that sqlite_sequence has passed
    enabled, due,   \* github_backup_enabled; last_backup_time is over the interval
    mu,             \* the goroutine that holds Manager.mu
    pc,
    snap,           \* snap[c]: what goroutine c has exported, or pulled
    todo,           \* todo[c]: the hosts whose rules c has yet to read
    base,           \* base[c]: the sha that c has pulled, 0 for none
    try,            \* try[c]: the number of the PUT c waits for
    wire,           \* PUTs that GitHub may still serve
    remote,         \* the file at GitHub
    exports,        \* history: exports started
    stored,         \* history: the exports that GitHub has stored
    last,           \* history: the export last_backup_time stands for, 0 if none
    faults, foreign, calls  \* history: what the bounds count

tables  == <<db, used>>
config  == <<enabled, due>>
calling == <<mu, pc, snap, todo, base, try>>
github  == <<wire, remote>>
history == <<exports, stored, last>>
bounds  == <<faults, foreign, calls>>
vars    == <<tables, config, calling, github, history, bounds>>

Goroutines == Pushers \cup {Restorer}
Nobody == "nobody"

\* Whose row has the id, and whose host its rules were written for.
Who == {"none", "ours", "theirs"}

\* crossed is history: the content was read while an upload was imported.
Tables == [host : [Ids -> Who], rule : [Ids -> Who], preset : SUBSET Ids,
           crossed : BOOLEAN]

Snapshots == [no : Nat, host : [Ids -> Who], rule : [Ids -> Who],
              preset : SUBSET Ids, enabled : BOOLEAN, due : BOOLEAN,
              crossed : BOOLEAN]

Nowhere == [i \in Ids |-> "none"]
Empty   == [no |-> 0, host |-> Nowhere, rule |-> Nowhere, preset |-> {},
            enabled |-> FALSE, due |-> TRUE, crossed |-> FALSE]

\* The snapshot of another instance, whose own backup is off.
Theirs == [Empty EXCEPT !.host = [i \in Ids |-> "theirs"],
                        !.rule = [i \in Ids |-> "theirs"]]

Steps == {"idle", "wait", "hosts", "rules", "rest", "pull", "put", "await",
          "repull", "stamp", "import", "settings"}

Exporting(c) == pc[c] \in {"rules", "rest"}

\* The error of an earlier push is only displayed: last_backup_status is left out.
TypeOK ==
    /\ db \in Tables
    /\ used \subseteq Ids
    /\ enabled \in BOOLEAN /\ due \in BOOLEAN
    /\ mu \in {c \in Goroutines : pc[c] \notin {"idle", "wait"}} \cup {Nobody}
    /\ pc \in [Goroutines -> Steps]
    /\ snap \in [Goroutines -> Snapshots]
    /\ todo \in [Goroutines -> SUBSET Ids]
    /\ base \in [Goroutines -> Nat]
    /\ try \in [Goroutines -> 1..2]
    /\ wire \subseteq [try : 1..2, sha : Nat, snap : Snapshots]
    /\ remote \in [sha : Nat, snap : Snapshots]
    /\ exports \in Nat /\ stored \subseteq 1..exports /\ last \in 0..exports
    /\ faults \in 0..MaxFaults /\ foreign \in 0..MaxForeign /\ calls \in 0..MaxCalls

Init ==
    /\ db \in {[host |-> h, rule |-> r, preset |-> ps, crossed |-> FALSE] :
                h, r \in [Ids -> {"none", "ours"}], ps \in SUBSET Ids}
    /\ \A i \in Ids : db.host[i] = "none" => db.rule[i] = "none" /\ i \notin db.preset
    /\ used = {i \in Ids : db.host[i] # "none"}
    /\ enabled = TRUE /\ due = TRUE
    /\ mu = Nobody
    /\ pc = [c \in Goroutines |-> "idle"]
    /\ snap = [c \in Goroutines |-> Empty]
    /\ todo = [c \in Goroutines |-> {}]
    /\ base = [c \in Goroutines |-> 0]
    /\ try = [c \in Goroutines |-> 1]
    /\ wire = {}
    /\ remote = [sha |-> 0, snap |-> Empty]
    /\ exports = 0 /\ stored = {} /\ last = 0
    /\ faults = 0 /\ foreign = 0 /\ calls = 0

Goto(c, l) == pc' = [pc EXCEPT ![c] = l]

Fault == faults < MaxFaults /\ faults' = faults + 1 /\ UNCHANGED <<foreign, calls>>
Call  == calls < MaxCalls /\ calls' = calls + 1 /\ UNCHANGED <<faults, foreign>>

\* Mutant of Return: the mutex is not released.
ReturnLocked(c) ==
    /\ Goto(c, "idle")
    /\ snap' = [snap EXCEPT ![c] = Empty]
    /\ base' = [base EXCEPT ![c] = 0]
    /\ try' = [try EXCEPT ![c] = 1]
    /\ todo' = [todo EXCEPT ![c] = {}]
    /\ UNCHANGED mu

\* A deferred Unlock; what a goroutine that is gone had in memory no longer matters.
Return(c) ==
    /\ Goto(c, "idle")
    /\ mu' = IF mu = c THEN Nobody ELSE mu
    /\ snap' = [snap EXCEPT ![c] = Empty]
    /\ base' = [base EXCEPT ![c] = 0]
    /\ try' = [try EXCEPT ![c] = 1]
    /\ todo' = [todo EXCEPT ![c] = {}]

-----------------------------------------------------------------------------
(* The tables, and what administrators do to them.                          *)

\* Every insertion takes an id above all that were given out.
AddHost(i) ==
    /\ \A j \in used : j < i
    /\ db' = [db EXCEPT !.host[i] = "ours"]
    /\ used' = {j \in Ids : j <= i}

\* Rules and presets go with their host.
DeleteHost(i) ==
    /\ db.host[i] # "none"
    /\ db' = [db EXCEPT !.host[i] = "none", !.rule[i] = "none", !.preset = @ \ {i}]
    /\ UNCHANGED used

SaveRule(i) ==
    /\ db.host[i] # "none"
    /\ db' = [db EXCEPT !.rule[i] = db.host[i]]
    /\ UNCHANGED used

SavePreset(i) ==
    /\ db.host[i] # "none"
    /\ db' = [db EXCEPT !.preset = @ \cup {i}]
    /\ UNCHANGED used

Edit ==
    /\ \E i \in Ids : AddHost(i) \/ DeleteHost(i) \/ SaveRule(i) \/ SavePreset(i)
    /\ db' # db
    /\ Call
    /\ UNCHANGED <<config, calling, github, history>>

\* ImportSnapshot, one transaction: the presets of hosts that the snapshot lacks are
\* refused by their foreign key and their error is dropped; time has passed since the
\* snapshot's last_backup_time.
Import(s) ==
    /\ db' = [host |-> s.host, rule |-> s.rule,
              preset |-> {i \in s.preset : s.host[i] # "none"},
              crossed |-> s.crossed]
    /\ used' = used \cup {j \in Ids : \E i \in Ids : j <= i /\ s.host[i] # "none"}
    /\ due' \in {s.due, TRUE}
    /\ last' = 0
    /\ UNCHANGED <<exports, stored>>

-----------------------------------------------------------------------------
(* The calls of the manager.                                                *)

\* checkAndBackup: it is enabled and due, by rows read before the mutex is asked for.
CheckAndBackup ==
    /\ pc[Scheduler] = "idle"
    /\ enabled /\ due
    /\ Goto(Scheduler, "wait")
    /\ UNCHANGED <<tables, config, mu, snap, todo, base, try, github, history, bounds>>

\* handleSnapshotGitHubSync and handleSnapshotGitHubRestore.
Request(c) ==
    /\ c \in (Pushers \cup {Restorer}) \ {Scheduler}
    /\ pc[c] = "idle"
    /\ Call
    /\ Goto(c, "wait")
    /\ UNCHANGED <<tables, config, mu, snap, todo, base, try, github, history>>

Begin(c) ==
    /\ Goto(c, IF c = Restorer THEN "pull" ELSE "hosts")
    /\ UNCHANGED <<tables, config, snap, todo, base, try, github, history, bounds>>

\* Mutant of Lock: a restore does not wait for a backup that is being made.
LockPushesOnly(c) ==
    /\ pc[c] = "wait"
    /\ c = Restorer \/ mu = Nobody
    /\ mu' = IF c = Restorer THEN mu ELSE c
    /\ Begin(c)

\* Mutant of Lock: backups do not wait for each other.
LockFreely(c) ==
    /\ pc[c] = "wait"
    /\ mu' = mu
    /\ Begin(c)

Lock(c) ==
    /\ pc[c] = "wait"
    /\ mu = Nobody
    /\ mu' = c
    /\ Begin(c)

-----------------------------------------------------------------------------
(* ExportSnapshot.                                                          *)

ListHosts(c) ==
    /\ pc[c] = "hosts"
    /\ exports' = exports + 1
    /\ snap' = [snap EXCEPT ![c] = [Empty EXCEPT !.host = db.host, !.crossed = db.crossed,
                                            !.no = exports + 1]]
    /\ todo' = [todo EXCEPT ![c] = {i \in Ids : db.host[i] # "none"}]
    /\ Goto(c, "rules")
    /\ UNCHANGED <<tables, config, mu, base, try, github, stored, last, bounds>>

ListDesiredRules(c) ==
    /\ pc[c] = "rules"
    /\ \E i \in todo[c] :
        /\ snap' = [snap EXCEPT ![c].rule[i] = db.rule[i]]
        /\ todo' = [todo EXCEPT ![c] = @ \ {i}]
    /\ UNCHANGED <<tables, config, mu, pc, base, try, github, history, bounds>>

ReadSettings(c) ==
    /\ pc[c] = "rules" /\ todo[c] = {}
    /\ snap' = [snap EXCEPT ![c].enabled = enabled, ![c].due = due]
    /\ Goto(c, "rest")
    /\ UNCHANGED <<tables, config, mu, todo, base, try, github, history, bounds>>

ReadPresets(c) ==
    /\ pc[c] = "rest"
    /\ snap' = [snap EXCEPT ![c].preset = db.preset]
    /\ Goto(c, "pull")
    /\ UNCHANGED <<tables, config, mu, todo, base, try, github, history, bounds>>

\* The error of this query is dropped: the snapshot goes without presets.
ReadPresetsFails(c) ==
    /\ pc[c] = "rest"
    /\ Fault
    /\ Goto(c, "pull")
    /\ UNCHANGED <<tables, config, mu, snap, todo, base, try, github, history>>

ExportFails(c) ==
    /\ pc[c] \in {"hosts", "rules"}
    /\ Fault
    /\ Return(c)
    /\ UNCHANGED <<tables, config, github, history>>

Export(c) ==
    \/ ListHosts(c) \/ ListDesiredRules(c) \/ ReadSettings(c) \/ ReadPresets(c)
    \/ ReadPresetsFails(c) \/ ExportFails(c)

-----------------------------------------------------------------------------
(* Push.                                                                    *)

\* The sha of the version to replace, if there is one.
Pull(c) ==
    /\ c # Restorer
    /\ pc[c] = "pull"
    /\ base' = [base EXCEPT ![c] = remote.sha]
    /\ Goto(c, "put")
    /\ UNCHANGED <<tables, config, mu, snap, todo, try, github, history, bounds>>

\* Its error is dropped: the PUT goes out without a sha.
PullFails(c) ==
    /\ c # Restorer
    /\ pc[c] = "pull"
    /\ Fault
    /\ Goto(c, "put")
    /\ UNCHANGED <<tables, config, mu, snap, todo, base, try, github, history>>

Put(c) ==
    /\ pc[c] = "put"
    /\ wire' = wire \cup {[try |-> try[c], sha |-> base[c], snap |-> snap[c]]}
    /\ Goto(c, "await")
    /\ UNCHANGED <<tables, config, mu, snap, todo, base, try, remote, history, bounds>>

\* Whoever waits for the answer to p.
AnswersTo(p, c) == pc[c] = "await" /\ snap[c].no = p.snap.no /\ try[c] = p.try

\* Mutant of Conflict: the answer to the second PUT is not looked at.
ConflictOnce(c) ==
    /\ Goto(c, IF try[c] = 1 THEN "repull" ELSE "stamp")
    /\ UNCHANGED <<mu, snap, todo, base, try>>

\* The caller of p hears of its conflict: it pulls and tries once more, or fails.
Conflict(c) ==
    IF try[c] = 1
    THEN Goto(c, "repull") /\ UNCHANGED <<mu, snap, todo, base, try>>
    ELSE Return(c)

\* GitHub serves p: the sha has to be that of the file, and without a sha there must
\* not be one yet.  The caller hears 200 or 201, 409, or 422.
Serve(p) ==
    LET ok == p.sha = remote.sha
    IN  /\ wire' = wire \ {p}
        /\ remote' = IF ok THEN [sha |-> remote.sha + 1, snap |-> p.snap] ELSE remote
        /\ stored' = IF ok THEN stored \cup {p.snap.no} ELSE stored
        /\ \/ \E c \in Goroutines :
                /\ AnswersTo(p, c)
                /\ IF ok THEN Goto(c, "stamp") /\ UNCHANGED <<mu, snap, todo, base, try>>
                   ELSE IF p.sha # 0 THEN Conflict(c)
                   ELSE Return(c)
           \/ ~(\E c \in Goroutines : AnswersTo(p, c)) /\ UNCHANGED calling
        /\ UNCHANGED <<tables, config, exports, last, bounds>>

\* 30 seconds are over, the request that called is gone, or the connection: the PUT may
\* still be served.
TimeOut(c) ==
    /\ pc[c] = "await"
    /\ Fault
    /\ Return(c)
    /\ UNCHANGED <<tables, config, github, history>>

\* A PUT is lost; its caller gives up when its time is over.
Lose(p) ==
    /\ Fault
    /\ wire' = wire \ {p}
    /\ \/ \E c \in Goroutines : AnswersTo(p, c) /\ Return(c)
       \/ ~(\E c \in Goroutines : AnswersTo(p, c)) /\ UNCHANGED calling
    /\ UNCHANGED <<tables, config, remote, history>>

\* The latest sha, whoever wrote it: the second PUT overwrites it.
Repull(c) ==
    /\ pc[c] = "repull"
    /\ base' = [base EXCEPT ![c] = remote.sha]
    /\ try' = [try EXCEPT ![c] = 2]
    /\ Goto(c, "put")
    /\ UNCHANGED <<tables, config, mu, snap, todo, github, history, bounds>>

RepullFails(c) ==
    /\ pc[c] = "repull"
    /\ Fault
    /\ Return(c)
    /\ UNCHANGED <<tables, config, github, history>>

\* last_backup_time is set, and the mutex released.
Stamp(c) ==
    /\ pc[c] = "stamp"
    /\ due' = FALSE
    /\ last' = snap[c].no
    /\ Return(c)
    /\ UNCHANGED <<tables, enabled, github, exports, stored, bounds>>

Push(c) ==
    \/ Pull(c) \/ PullFails(c) \/ Put(c) \/ TimeOut(c)
    \/ Repull(c) \/ RepullFails(c) \/ Stamp(c)

-----------------------------------------------------------------------------
(* Restoring.                                                               *)

PullSnapshot ==
    /\ pc[Restorer] = "pull"
    /\ remote.sha # 0
    /\ snap' = [snap EXCEPT ![Restorer] = remote.snap]
    /\ Goto(Restorer, "import")
    /\ UNCHANGED <<tables, config, mu, todo, base, try, github, history, bounds>>

\* There is no file, the request or the decryption fails, or the transaction is rolled
\* back.
RestoreFails ==
    /\ pc[Restorer] \in {"pull", "import"}
    /\ IF pc[Restorer] = "pull" /\ remote.sha = 0 THEN UNCHANGED bounds ELSE Fault
    /\ Return(Restorer)
    /\ UNCHANGED <<tables, config, github, history>>

ImportPulled ==
    /\ pc[Restorer] = "import"
    /\ Import(snap[Restorer])
    /\ enabled' = snap[Restorer].enabled
    /\ Goto(Restorer, "settings")
    /\ UNCHANGED <<mu, snap, todo, base, try, github, bounds>>

\* The settings the restore was made with replace those of the snapshot.
SaveSettings ==
    /\ pc[Restorer] = "settings"
    /\ enabled' = TRUE
    /\ Return(Restorer)
    /\ UNCHANGED <<tables, due, github, history, bounds>>

Restore == PullSnapshot \/ RestoreFails \/ ImportPulled \/ SaveSettings

\* handleSnapshotImport: a file, here from another instance, is imported without the
\* mutex.
Upload ==
    /\ Call
    /\ Import(Theirs)
    /\ enabled' = Theirs.enabled
    /\ snap' = [c \in Goroutines |-> [snap[c] EXCEPT !.crossed = @ \/ Exporting(c)]]
    /\ UNCHANGED <<mu, pc, todo, base, try, github>>

-----------------------------------------------------------------------------
(* The rest of the world.                                                   *)

Configure ==
    /\ Call
    /\ enabled' = ~enabled
    /\ UNCHANGED <<tables, due, calling, github, history>>

\* The interval is over.
Tick ==
    /\ ~due
    /\ Call
    /\ due' = TRUE
    /\ UNCHANGED <<tables, enabled, calling, github, history>>

\* Another instance pushes to the same file, or somebody commits to the repository.
Foreign ==
    /\ foreign < MaxForeign
    /\ foreign' = foreign + 1
    /\ remote' = [sha |-> remote.sha + 1, snap |-> Theirs]
    /\ UNCHANGED <<tables, config, calling, wire, history, faults, calls>>

\* The process is killed; PUTs on the wire stay.
Crash ==
    /\ \E c \in Goroutines : pc[c] # "idle"
    /\ Fault
    /\ mu' = Nobody
    /\ pc' = [c \in Goroutines |-> "idle"]
    /\ snap' = [c \in Goroutines |-> Empty]
    /\ todo' = [c \in Goroutines |-> {}]
    /\ base' = [c \in Goroutines |-> 0]
    /\ try' = [c \in Goroutines |-> 1]
    /\ UNCHANGED <<tables, config, github, history>>

Next ==
    \/ Edit \/ Configure \/ Tick \/ Foreign \/ Crash
    \/ CheckAndBackup \/ Upload \/ Restore
    \/ \E c \in Goroutines : Request(c) \/ Lock(c) \/ Export(c) \/ Push(c)
    \/ \E p \in wire : Serve(p) \/ Lose(p)

Spec == Init /\ [][Next]_vars

\* The ticker goes on, goroutines take their steps, GitHub answers, and a mutex that is
\* released again and again is got (sync.Mutex hands it over after a millisecond).
Fairness ==
    /\ WF_vars(CheckAndBackup)
    /\ \A c \in Goroutines :
        /\ SF_vars(Lock(c))
        /\ WF_vars(Export(c)) /\ WF_vars(Push(c))
    /\ WF_vars(Restore)
    /\ WF_vars(\E p \in wire : Serve(p))

FairSpec == Spec /\ Fairness

-----------------------------------------------------------------------------
(* Properties.                                                              *)

Fits(s) == \A i \in Ids : s.rule[i] \in {"none", s.host[i]}

Ours == remote.snap.no > 0

\* What Pantau has pushed is only replaced by a later export (Push, pushWithSHA): not by
\* a PUT that was given up and is served late, nor by the second PUT after a conflict,
\* which overwrites whatever it finds.
BackupsAreInOrder ==
    [][Ours /\ Ours' => remote'.snap.no >= remote.snap.no]_vars

\* The export that last_backup_time stands for was stored, and as long as nobody else
\* writes the file, it or a later one is there (SyncNow after Push).
RecordedIsStored ==
    /\ last \in stored \cup {0}
    /\ Ours => remote.snap.no >= last

\* A backup and the tables have the rules of their own hosts, although an
\* export is a query per host and a restore replaces hosts whose ids it uses again
\* (ExportSnapshot, Manager.mu); an upload does not take the mutex.
SnapshotsFit == \A s \in {remote.snap, db} : s.crossed \/ Fits(s)

\* An enabled backup that is due is made (Start, checkAndBackup), whatever failed before.
BackupHappens == enabled /\ due ~> ~due \/ ~enabled

-----------------------------------------------------------------------------
(* What documents say.                                                      *)

\* "a self-contained, encrypted archive containing the complete Pantau database"
\* (docs/user-guide.md:478): an upload in the middle of an export makes it one of two
\* databases.
SnapshotIsOne == Fits(remote.snap)

\* The same: a preset of a host that was added after the hosts were read is refused
\* when the snapshot is imported, and lost.
PresetsSurvive == \A i \in remote.snap.preset : remote.snap.host[i] # "none"
=============================================================================
