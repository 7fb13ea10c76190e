--------------------------- MODULE InstanceGuard ---------------------------
(***************************************************************************)
(* internal/instance: the lock file beside the database that keeps a       *)
(* second Pantau process away from it, as it is used by main.go (start,    *)
(* SIGTERM) and by the updater (restart: the child is started first, then  *)
(* the parent shuts down).  Unix: flock on an open file, and an unlink of  *)
(* whatever file the path names.                                           *)
(***************************************************************************)
EXTENDS Integers, Sequences

CONSTANTS
    Procs,          \* process lives; each is started at most once
    Stops,          \* how a serving process may stop: "signal", "restart"
    LockFails       \* TRUE if the lock file may be impossible to open

ASSUME GuardAssumption ==
    /\ 0 \notin Procs
    /\ Stops \subseteq {"signal", "restart"}
    /\ LockFails \in BOOLEAN

VARIABLES
    path,           \* the file that <db>.lock names, 0 if none
    meta,           \* meta[f]: the PID in the f-th file that was created, 0 if empty
    flock,          \* flock[p]: the file whose lock process p holds, 0 if none
    fd,             \* fd[p]: the file the process has open, 0 if none
    db,             \* the processes that have the database open
    pc,             \* pc[p]: what process p does next
    told,           \* told[p]: the PID that p reported as already running
    unlinked        \* history: a lock file was removed that another process had open

files == <<path, meta, flock>>
vars  == <<files, fd, db, pc, told, unlinked>>

Files == 1..Len(meta)
Step  == {"off", "open", "lock", "busy", "truncate", "write", "opendb", "bind", "serve",
          "signalled", "restarting", "release", "remove", "leave", "gone"}

TypeOK ==
    /\ meta \in Seq(Procs \cup {0})
    /\ path \in Files \cup {0}
    /\ flock \in [Procs -> Files \cup {0}]
    /\ fd \in [Procs -> Files \cup {0}]
    /\ db \subseteq Procs
    /\ pc \in [Procs -> Step]
    /\ told \in [Procs -> Procs \cup {0}]
    /\ unlinked \in BOOLEAN
    /\ \A p \in Procs : pc[p] \in {"lock", "busy", "truncate", "write", "release"} => fd[p] # 0

Init ==
    /\ path = 0 /\ meta = <<>>
    /\ flock = [p \in Procs |-> 0]
    /\ fd = [p \in Procs |-> 0]
    /\ db = {}
    /\ pc = [p \in Procs |-> "off"]
    /\ told = [p \in Procs |-> 0]
    /\ unlinked = FALSE

Goto(p, l) == pc' = [pc EXCEPT ![p] = l]

-----------------------------------------------------------------------------
(* AcquireWithTimeout.                                                      *)

Launch(p) ==
    /\ pc[p] = "off"
    /\ Goto(p, "open")
    /\ UNCHANGED <<files, fd, db, told, unlinked>>

\* O_CREATE: the file the path names, or a new one.
OpenFile(p) ==
    /\ pc[p] = "open"
    /\ IF path # 0 THEN UNCHANGED <<path, meta>>
       ELSE meta' = Append(meta, 0) /\ path' = Len(meta')
    /\ fd' = [fd EXCEPT ![p] = path']
    /\ Goto(p, "lock")
    /\ UNCHANGED <<flock, db, told, unlinked>>

\* The lock file cannot be opened: main warns, and goes on without a guard.
OpenFails(p) ==
    /\ LockFails
    /\ pc[p] = "open"
    /\ Goto(p, "opendb")
    /\ UNCHANGED <<files, fd, db, told, unlinked>>

\* Mutant of Lock: the file is taken for locked whatever flock says.
LockBlindly(p) ==
    /\ pc[p] = "lock"
    /\ flock' = [flock EXCEPT ![p] = fd[p]]
    /\ Goto(p, "truncate")
    /\ UNCHANGED <<path, meta, fd, db, told, unlinked>>

\* Mutant of Lock: a PID file, held for as long as it names a process.
LockByPID(p) ==
    /\ pc[p] = "lock"
    /\ IF meta[fd[p]] = 0
       THEN flock' = [flock EXCEPT ![p] = fd[p]] /\ Goto(p, "truncate")
       ELSE Goto(p, "busy") /\ UNCHANGED flock
    /\ UNCHANGED <<path, meta, fd, db, told, unlinked>>

\* flock(LOCK_EX | LOCK_NB)
Lock(p) ==
    /\ pc[p] = "lock"
    /\ IF \A q \in Procs : flock[q] # fd[p]
       THEN flock' = [flock EXCEPT ![p] = fd[p]] /\ Goto(p, "truncate")
       ELSE Goto(p, "busy") /\ UNCHANGED flock
    /\ UNCHANGED <<path, meta, fd, db, told, unlinked>>

\* The lock is held: the file is read and closed, and opened again 50 ms later ...
Retry(p) ==
    /\ pc[p] = "busy"
    /\ fd' = [fd EXCEPT ![p] = 0]
    /\ Goto(p, "open")
    /\ UNCHANGED <<files, db, told, unlinked>>

\* ... until the deadline: ErrAlreadyRunning with what was read.
GiveUp(p) ==
    /\ pc[p] = "busy"
    /\ told' = [told EXCEPT ![p] = meta[fd[p]]]
    /\ fd' = [fd EXCEPT ![p] = 0]
    /\ Goto(p, "gone")
    /\ UNCHANGED <<files, db, unlinked>>

\* UpdatePort, called once the lock is taken and again once the port is bound.
Truncate(p) ==
    /\ pc[p] = "truncate"
    /\ meta' = [meta EXCEPT ![fd[p]] = 0]
    /\ Goto(p, "write")
    /\ UNCHANGED <<path, flock, fd, db, told, unlinked>>

\* Mutant of WriteMeta: the metadata is written beside the lock file and renamed
\* over it.
RenameMeta(p) ==
    /\ pc[p] = "write"
    /\ meta' = Append(meta, p) /\ path' = Len(meta')
    /\ Goto(p, IF p \in db THEN "serve" ELSE "opendb")
    /\ UNCHANGED <<flock, fd, db, told, unlinked>>

WriteMeta(p) ==
    /\ pc[p] = "write"
    /\ meta' = [meta EXCEPT ![fd[p]] = p]
    /\ Goto(p, IF p \in db THEN "serve" ELSE "opendb")
    /\ UNCHANGED <<path, flock, fd, db, told, unlinked>>

-----------------------------------------------------------------------------
(* main, and the two ways it ends.                                          *)

OpenDatabase(p) ==
    /\ pc[p] = "opendb"
    /\ db' = db \cup {p}
    /\ Goto(p, "bind")
    /\ UNCHANGED <<files, fd, told, unlinked>>

Bind(p) ==
    /\ pc[p] = "bind"
    /\ Goto(p, IF fd[p] = 0 THEN "serve" ELSE "truncate")
    /\ UNCHANGED <<files, fd, db, told, unlinked>>

\* SIGTERM: the deferred calls run in reverse order, the database first.
Signal(p) ==
    /\ "signal" \in Stops
    /\ pc[p] = "serve"
    /\ Goto(p, "signalled")
    /\ UNCHANGED <<files, fd, db, told, unlinked>>

\* Restart: the child is started, then the parent runs the shutdown function, which
\* closes the guard before the database.
Restart(p, child) ==
    /\ "restart" \in Stops
    /\ pc[p] = "serve"
    /\ pc[child] = "off"
    /\ pc' = [pc EXCEPT ![p] = "restarting", ![child] = "open"]
    /\ UNCHANGED <<files, fd, db, told, unlinked>>

\* db.Close: ahead of the guard after a signal, last after a restart.
CloseDatabase(p) ==
    /\ \/ pc[p] = "signalled" /\ Goto(p, IF fd[p] = 0 THEN "gone" ELSE "release")
       \/ pc[p] = "leave" /\ Goto(p, "gone")
    /\ db' = db \ {p}
    /\ UNCHANGED <<files, fd, told, unlinked>>

\* guard.Close: the lock is released and the file closed ...
Release(p) ==
    /\ \/ pc[p] = "release"
       \/ pc[p] = "restarting" /\ fd[p] # 0
    /\ flock' = [flock EXCEPT ![p] = 0]
    /\ fd' = [fd EXCEPT ![p] = 0]
    /\ Goto(p, "remove")
    /\ UNCHANGED <<path, meta, db, told, unlinked>>

\* ... then the path is removed, whatever file it names by now.
Remove(p) ==
    /\ pc[p] = "remove"
    /\ path' = 0
    /\ unlinked' = (unlinked \/ \E q \in Procs : fd[q] # 0 /\ fd[q] = path)
    /\ Goto(p, IF p \in db THEN "leave" ELSE "gone")
    /\ UNCHANGED <<meta, flock, fd, db, told>>

\* Without a guard there is nothing to release.
SkipRelease(p) ==
    /\ pc[p] = "restarting"
    /\ fd[p] = 0
    /\ Goto(p, "leave")
    /\ UNCHANGED <<files, fd, db, told, unlinked>>

\* The process is killed, or exits on an error (database, port): the kernel drops its
\* lock and closes its files, and the lock file stays.
Die(p) ==
    /\ pc[p] \notin {"off", "gone"}
    /\ flock' = [flock EXCEPT ![p] = 0]
    /\ fd' = [fd EXCEPT ![p] = 0]
    /\ db' = db \ {p}
    /\ Goto(p, "gone")
    /\ UNCHANGED <<path, meta, told, unlinked>>

\* What a process does by itself, once it has been launched.
Acquire(p) ==
    \/ OpenFile(p) \/ OpenFails(p) \/ Lock(p) \/ Retry(p) \/ GiveUp(p)
    \/ Truncate(p) \/ WriteMeta(p)
Run(p) ==
    \/ Acquire(p) \/ OpenDatabase(p) \/ Bind(p)
    \/ CloseDatabase(p) \/ Release(p) \/ Remove(p) \/ SkipRelease(p)

Next ==
    \E p \in Procs :
        \/ Launch(p) \/ Run(p) \/ Die(p)
        \/ Signal(p) \/ \E child \in Procs : Restart(p, child)

Spec == Init /\ [][Next]_vars

\* A process that has been launched runs, and its three seconds pass.
Fairness == \A p \in Procs : WF_vars(Run(p)) /\ SF_vars(GiveUp(p))

FairSpec == Spec /\ Fairness

-----------------------------------------------------------------------------
(* Properties.                                                              *)

Holds(p) == flock[p] # 0

\* At most one process holds the lock, through crashes, retries and files left behind,
\* as long as no Close has removed a file that somebody else had open (AcquireWithTimeout,
\* Close).
OneHolder == ~unlinked => \A p, q \in Procs : Holds(p) /\ Holds(q) => p = q

\* Two processes that have the database open are not both under the guard: one could not
\* open its lock file, or has closed it on its way out (main.go:325, main.go:397).
OneGuardedUser ==
    ~unlinked => \A p, q \in db : fd[p] # 0 /\ fd[q] # 0 => p = q

\* No launch hangs on the guard, whoever has crashed while holding it: it ends up
\* serving, or it has given up or died.
LaunchSettles == \A p \in Procs : pc[p] = "open" ~> pc[p] \in {"serve", "gone"}

\* A stale lock file does not keep anybody out: a launch that is told of a running
\* instance met one that was still running when it tried.
StaleFileIsHarmless ==
    [][\A p \in Procs : pc[p] = "lock" /\ pc'[p] = "busy" =>
            \E q \in Procs : q # p /\ fd[q] = fd[p] /\ pc[q] \notin {"off", "gone"}]_vars

-----------------------------------------------------------------------------
(* What documents say.                                                      *)

\* "mencegah eksekusi ganda pada database yang sama" (CONTEXT.md:261): at
\* most one process has the database open.
OneDatabaseUser == \A p, q \in db : p = q

\* At most one process holds the lock, whatever is removed.
SoleHolder == \A p, q \in Procs : Holds(p) /\ Holds(q) => p = q
=============================================================================
