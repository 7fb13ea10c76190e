--------------------------- MODULE EphemeralKeys ----------------------------
(***************************************************************************)
(* internal/web/handlers_native_terminal.go: a native terminal logs in with *)
(* a key that Pantau appends to the host's authorized_keys and removes five *)
(* minutes later.  The file is rewritten by filters (awk to a temporary     *)
(* file, then mv) under a mutex per host row; a command that takes longer   *)
(* than 15 seconds is given up and the mutex released, while the shell on   *)
(* the host runs on.  The key is handed out through a ticket that can be    *)
(* redeemed once, or used by a terminal started on Pantau's own machine.    *)
(***************************************************************************)
EXTENDS Integers, FiniteSets

CONSTANTS
    Keys,           \* ephemeral keys, each generated by one request
    Own,            \* lines that administrators keep in the file
    Rows,           \* host rows that name the one machine of this model
    RowOf,          \* RowOf[k]: the row that the request for key k is about
    TTL,            \* the life of a key, in ticks of five minutes
    Stale,          \* the age of a key that a sweep removes: 600 s more
    Ahead,          \* how far the clock of the host is ahead of Pantau's
    MaxCuts         \* bound on the commands cut off and the restarts

ASSUME KeysAssumption ==
    /\ Keys \cap Own = {}
    /\ RowOf \in [Keys -> Rows]
    /\ TTL \in Nat /\ Stale \in Nat /\ Ahead \in Nat
    /\ 0 < TTL /\ TTL + Ahead < Stale
    /\ MaxCuts \in Nat

VARIABLES
    file,           \* the lines of authorized_keys
    shell,          \* shell[s]: the state of a command on the host
    copy,           \* copy[s]: what its filter has written to the temporary file
    mutex,          \* mutex[r]: the goroutine that holds hostKeyMutexes[r]
    pc,             \* pc[t]: what goroutine t does next
    age,            \* age[k]: time since k was generated
    due,            \* due[k]: the age at which its timer fires, 0 if it is not set
    ticket,         \* ticket[k]: the entry of nativeTickets with key k
    handed,         \* handed[k]: scripts delivered with key k
    wanted,         \* history: the lines the completed edits leave
    torn,           \* history: lines changed while another command held a copy
    cuts            \* history: commands cut off and restarts

host    == <<file, shell, copy>>
tickets == <<ticket, handed>>
history == <<wanted, torn, cuts>>
vars    == <<host, mutex, pc, age, due, tickets, history>>

Lines == Keys \cup Own

\* One goroutine injects a key, one removes it when its timer fires, one removes it
\* when the terminal could not be started.  An injection runs two commands.
Tasks  == Keys \X {"inject", "undo", "timer"}
Shells == Keys \X {"sweep", "append", "undo", "timer"}
None   == <<>>

Key(t) == t[1]
Row(t) == RowOf[Key(t)]
Injects(t) == t[2] = "inject"

Step == {"off", "lock", "sweep", "append", "clean", "injected", "served",
         "failed", "removed", "missed"}

Waits(t) == pc[t] \in {"sweep", "append", "clean"}

\* The command that goroutine t waits for.
Awaited(t) == IF pc[t] = "clean" THEN t ELSE <<Key(t), pc[t]>>

\* The greatest age that anything depends on: the host's clock calls it stale.
Old  == Stale - Ahead
Ages == 0..Old

TypeOK ==
    /\ file \subseteq Lines
    /\ shell \in [Shells -> {"off", "started", "read"}]
    /\ copy \in [Shells -> SUBSET Lines]
    /\ mutex \in [Rows -> Tasks \cup {None}]
    /\ pc \in [Tasks -> Step]
    /\ age \in [Keys -> Ages]
    /\ due \in [Keys -> Ages]
    /\ ticket \in [Keys -> {"none", "kept", "gone"}]
    /\ handed \in [Keys -> 0..1]
    /\ wanted \subseteq Lines
    /\ torn \subseteq Lines
    /\ cuts \in 0..MaxCuts

Init ==
    /\ file = Own /\ wanted = Own
    /\ shell = [s \in Shells |-> "off"]
    /\ copy = [s \in Shells |-> {}]
    /\ mutex = [r \in Rows |-> None]
    /\ pc = [t \in Tasks |-> "off"]
    /\ age = [k \in Keys |-> 0]
    /\ due = [k \in Keys |-> 0]
    /\ ticket = [k \in Keys |-> "none"]
    /\ handed = [k \in Keys |-> 0]
    /\ torn = {} /\ cuts = 0

Goto(t, l) == pc' = [pc EXCEPT ![t] = l]
Least(a, b) == IF a < b THEN a ELSE b

Hold(t)   == mutex' = [mutex EXCEPT ![Row(t)] = t]
Unlock(t) == mutex' = [mutex EXCEPT ![Row(t)] = None]

-----------------------------------------------------------------------------
(* Goroutines: injectEphemeralKey and cleanupEphemeralKeyByID.              *)

\* The request: the host row is read and checked, the key generated.
Generate(k) ==
    /\ pc[<<k, "inject">>] = "off"
    /\ Goto(<<k, "inject">>, "lock")
    /\ UNCHANGED <<host, mutex, age, due, tickets, history>>

\* An injection sweeps first, a removal filters its key out.
Begin(t) ==
    /\ Hold(t)
    /\ Goto(t, IF Injects(t) THEN "sweep" ELSE "clean")
    /\ shell' = [shell EXCEPT ![IF Injects(t) THEN <<Key(t), "sweep">> ELSE t] = "started"]
    /\ UNCHANGED <<file, copy, age, due, tickets, history>>

\* Mutant of Lock: goroutines do not wait for each other.
LockFreely(t) == pc[t] = "lock" /\ Begin(t)

\* The goroutine has the mutex and a connection.
Lock(t) ==
    /\ pc[t] = "lock"
    /\ mutex[Row(t)] = None
    /\ Begin(t)

\* Mutant of ConnectFails: the mutex is not released.
ConnectFailsLocked(t) ==
    /\ pc[t] = "lock"
    /\ mutex[Row(t)] = None
    /\ Hold(t)
    /\ Goto(t, IF Injects(t) THEN "failed" ELSE "missed")
    /\ UNCHANGED <<host, age, due, tickets, history>>

\* It has the mutex but no connection, or (a removal) the host row names another machine
\* by now.
ConnectFails(t) ==
    /\ pc[t] = "lock"
    /\ mutex[Row(t)] = None
    /\ Goto(t, IF Injects(t) THEN "failed" ELSE "missed")
    /\ UNCHANGED <<host, mutex, age, due, tickets, history>>

SetTimer(k) ==
    due' = [due EXCEPT ![k] = IF age[k] < TTL THEN TTL ELSE Least(age[k] + TTL, Old)]

\* Mutant of Appended: the timer is left to the caller.
AppendedUntimed(t, done) ==
    /\ Goto(t, IF done THEN "injected" ELSE "failed")
    /\ Unlock(t) /\ UNCHANGED due

\* The append has ended: done, the timer is set to the time that is left, or anew if none
\* is; otherwise the request fails, and no timer is set.
Appended(t, done) ==
    /\ Goto(t, IF done THEN "injected" ELSE "failed")
    /\ IF done THEN SetTimer(Key(t)) ELSE UNCHANGED due
    /\ Unlock(t)

\* Goroutine t goes on, with the shells sh: after a sweep, whatever its result, with the
\* append.
Resume(t, done, sh) ==
    \/ /\ pc[t] = "sweep"
       /\ Goto(t, "append")
       /\ shell' = [sh EXCEPT ![<<Key(t), "append">>] = "started"]
       /\ UNCHANGED <<mutex, due>>
    \/ pc[t] = "append" /\ Appended(t, done) /\ shell' = sh
    \/ /\ pc[t] = "clean"
       /\ Goto(t, IF done THEN "removed" ELSE "missed")
       /\ Unlock(t)
       /\ shell' = sh /\ UNCHANGED due

\* 15 seconds have passed, or the connection is gone; the command runs on.
CutOff(t) ==
    /\ cuts < MaxCuts
    /\ Waits(t)
    /\ cuts' = cuts + 1
    /\ Resume(t, FALSE, shell)
    /\ UNCHANGED <<file, copy, age, tickets, wanted, torn>>

\* The timer fires; the removal waits for the mutex like everybody else.
Fire(k) ==
    /\ due[k] > 0 /\ age[k] >= due[k]
    /\ due' = [due EXCEPT ![k] = 0]
    /\ Goto(<<k, "timer">>, "lock")
    /\ UNCHANGED <<host, mutex, age, tickets, history>>

-----------------------------------------------------------------------------
(* Commands on the host.                                                    *)

\* Mutant of Doomed: a key is swept as soon as the host's clock is past its expiry.
DoomedOnTime(s, k) ==
    IF s[2] = "sweep" THEN age[k] + Ahead >= TTL ELSE k = s[1]

\* What a filter drops: the sweep compares the expiry in the line with the clock of
\* the host, a removal looks for the id.
Doomed(s, k) ==
    IF s[2] = "sweep" THEN age[k] >= Old ELSE k = s[1]

\* awk "$ak" > "$tmp"
Awk(s) ==
    /\ s[2] # "append"
    /\ shell[s] = "started"
    /\ shell' = [shell EXCEPT ![s] = "read"]
    /\ copy' = [copy EXCEPT ![s] = {l \in file : l \in Keys => ~Doomed(s, l)}]
    /\ UNCHANGED <<file, mutex, pc, age, due, tickets, history>>

\* A command ends, and whoever waits for it hears of it.
End(s, done) ==
    LET sh == [shell EXCEPT ![s] = "off"]
        Waiting(t) == Waits(t) /\ Awaited(t) = s
    IN  \/ \E t \in Tasks : Waiting(t) /\ Resume(t, done, sh)
        \/ /\ \A t \in Tasks : ~Waiting(t)
           /\ shell' = sh
           /\ UNCHANGED <<mutex, pc, due>>

\* The lines ls are changed by command s (None: by an administrator).
Change(ls, s) ==
    torn' = IF \E o \in Shells \ {s} : shell[o] = "read" THEN torn \cup ls ELSE torn

Dropped(s) == {k \in wanted \cap Keys : Doomed(s, k) /\ k \notin copy[s]}

\* Mutant of Mv: grep -v in the place of awk fails when no line is left.
MvUnlessEmpty(s) ==
    /\ shell[s] = "read"
    /\ file' = IF copy[s] = {} THEN file ELSE copy[s]
    /\ copy' = [copy EXCEPT ![s] = {}]
    /\ wanted' = wanted \ Dropped(s)
    /\ Change(Dropped(s), s)
    /\ End(s, TRUE)
    /\ UNCHANGED <<age, tickets, cuts>>

\* mv -f "$tmp" "$ak"
Mv(s) ==
    /\ shell[s] = "read"
    /\ file' = copy[s]
    /\ copy' = [copy EXCEPT ![s] = {}]
    /\ wanted' = wanted \ Dropped(s)
    /\ Change(Dropped(s), s)
    /\ End(s, TRUE)
    /\ UNCHANGED <<age, tickets, cuts>>

\* echo ... >> ~/.ssh/authorized_keys
Echo(s) ==
    /\ s[2] = "append"
    /\ shell[s] = "started"
    /\ file' = file \cup {s[1]}
    /\ wanted' = wanted \cup {s[1]}
    /\ Change({s[1]}, s)
    /\ End(s, TRUE)
    /\ UNCHANGED <<copy, age, tickets, cuts>>

\* A full disk, a lost permission, a shell that is killed: the file stays as it is.
ShellFails(s) ==
    /\ shell[s] = IF s[2] = "append" THEN "started" ELSE "read"
    /\ copy' = [copy EXCEPT ![s] = {}]
    /\ End(s, FALSE)
    /\ UNCHANGED <<file, age, tickets, history>>

\* An administrator removes a line.
Revoke(l) ==
    /\ l \in file
    /\ file' = file \ {l}
    /\ wanted' = wanted \ {l}
    /\ Change({l}, None)
    /\ UNCHANGED <<shell, copy, mutex, pc, age, due, tickets, cuts>>

-----------------------------------------------------------------------------
(* What becomes of an injected key.                                         *)

\* handleNativeTerminalTicket: the ticket is stored, with the timer that deletes it.
StoreTicket(k) ==
    /\ pc[<<k, "inject">>] = "injected"
    /\ ticket' = [ticket EXCEPT ![k] = "kept"]
    /\ Goto(<<k, "inject">>, "served")
    /\ UNCHANGED <<host, mutex, age, due, handed, history>>

Deliver(k) ==
    /\ ticket[k] = "kept"
    /\ handed' = [handed EXCEPT ![k] = Least(@ + 1, 2)]
    /\ UNCHANGED <<host, mutex, pc, age, due, history>>

\* Mutant of Redeem: the ticket is loaded, and left to its timer.
RedeemAgain(k) == Deliver(k) /\ UNCHANGED ticket

\* native-run and native-download: the ticket is taken out of the map and looked at.
Redeem(k) == Deliver(k) /\ ticket' = [ticket EXCEPT ![k] = "gone"]

\* launchLocalTerminal: a terminal was started, or the key file could not be written:
\* the line is left to its timer.
LaunchReturns(k) ==
    /\ pc[<<k, "inject">>] = "injected"
    /\ Goto(<<k, "inject">>, "served")
    /\ UNCHANGED <<host, mutex, age, due, tickets, history>>

\* There is no terminal, or it does not start: the line is removed at once.
LaunchFails(k) ==
    /\ pc[<<k, "inject">>] = "injected"
    /\ pc' = [pc EXCEPT ![<<k, "inject">>] = "served", ![<<k, "undo">>] = "lock"]
    /\ UNCHANGED <<host, mutex, age, due, tickets, history>>

-----------------------------------------------------------------------------

\* Five minutes pass: the 60 s of a ticket are over, and its timer has deleted it.
Tick ==
    /\ age' = [k \in Keys |-> IF pc[<<k, "inject">>] = "off" THEN age[k]
                              ELSE Least(age[k] + 1, Old)]
    /\ ticket' = [k \in Keys |-> IF ticket[k] = "kept" THEN "gone" ELSE ticket[k]]
    /\ <<age', ticket'>> # <<age, ticket>>
    /\ UNCHANGED <<host, mutex, pc, due, handed, history>>

\* Pantau is restarted: goroutines, timers, tickets and mutexes are gone, commands and
\* the file stay.
Restart ==
    /\ cuts < MaxCuts
    /\ cuts' = cuts + 1
    /\ mutex' = [r \in Rows |-> None]
    /\ pc' = [t \in Tasks |-> IF pc[t] \in {"off", "removed"} THEN pc[t]
                              ELSE IF Injects(t) THEN "failed" ELSE "missed"]
    /\ due' = [k \in Keys |-> 0]
    /\ ticket' = [k \in Keys |-> IF ticket[k] = "none" THEN "none" ELSE "gone"]
    /\ UNCHANGED <<host, age, handed, wanted, torn>>

Goroutine(t) == Lock(t) \/ ConnectFails(t) \/ CutOff(t)
Command(s)   == Awk(s) \/ Mv(s) \/ Echo(s) \/ ShellFails(s)
Serve(k)     == StoreTicket(k) \/ LaunchReturns(k) \/ LaunchFails(k)

Next ==
    \/ \E k \in Keys :
        Generate(k) \/ Fire(k) \/ Serve(k) \/ Redeem(k)
    \/ \E t \in Tasks : Goroutine(t)
    \/ \E s \in Shells : Command(s)
    \/ \E l \in Own : Revoke(l)
    \/ Tick \/ Restart

Spec == Init /\ [][Next]_vars

\* Time passes, timers fire, commands end, and a mutex that is released again and again
\* is got.
Fairness ==
    /\ \A t \in Tasks : SF_vars(Lock(t) \/ ConnectFails(t))
    /\ \A s \in Shells : WF_vars(Command(s))
    /\ \A k \in Keys : WF_vars(Fire(k))
    /\ WF_vars(Tick)

FairSpec == Spec /\ Fairness

-----------------------------------------------------------------------------
(* Properties.                                                              *)

InjectedKey(k) == pc[<<k, "inject">>] \in {"injected", "served"}

\* A key whose injection has succeeded stays in the file for its five minutes, through
\* the sweeps and removals of other keys and with a host clock that is ahead
\* (injectEphemeralKey, sweepExpiredKeysOnHost); unless its terminal did not start, or
\* it was appended under the copy of a command that nobody waits for.
LiveKeyStays ==
    \A k \in Keys :
        InjectedKey(k) /\ pc[<<k, "undo">>] = "off" /\ age[k] < TTL /\ k \notin torn
            => k \in file

\* Every line that no two commands fought for is in the file exactly if the last
\* completed edit of it left it there: a removed key does not come back, a line of an
\* administrator is neither lost nor resurrected (the filters of
\* cleanupEphemeralKeyByID and sweepExpiredKeysOnHost).
NoEditIsLost == \A l \in Lines \ torn : l \in file <=> l \in wanted

\* Keys are fought for only by commands that were cut off (getHostKeyMutex): as long
\* as every command is heard to its end, the mutex serialises them.
TornByOrphans == torn \cap Keys # {} => cuts > 0

\* A script is delivered at most once per ticket, and as long as its key has not expired,
\* the key works (getAndBurnNativeTicket).
HandedKeyWorks ==
    [][\A k \in Keys : handed'[k] # handed[k] =>
            /\ handed[k] = 0
            /\ k \in file \/ k \in torn \/ age[k] >= TTL]_vars

\* While an injected key is in the file somebody is going to remove it: its timer is set,
\* or waits for the mutex or for its command; unless the one removal has failed, or a
\* command that was cut off has interfered (injectEphemeralKey, step 3).
KeyHasRemover ==
    \A k \in Keys :
        InjectedKey(k) /\ k \in file /\ k \notin torn =>
            due[k] > 0 \/ pc[<<k, "timer">>] \in {"lock", "clean", "missed"}

\* Nobody keeps the mutex: whoever holds it waits for one command on the host, which
\* ends or is given up (the deferred Unlock of both functions, and the time limits).
HolderWaits ==
    \A r \in Rows : mutex[r] # None =>
        Waits(mutex[r]) /\ shell[Awaited(mutex[r])] # "off"

\* A key that was injected is removed by its timer, under the same conditions.
KeyGoes ==
    \A k \in Keys :
        InjectedKey(k) ~> \/ ~InjectedKey(k) \* a restart
                          \/ k \notin file \/ k \in torn \/ pc[<<k, "timer">>] = "missed"

-----------------------------------------------------------------------------
(* What documents and comments say.                                         *)

\* Orphaned keys are swept before an injection "or during periodic inspections" (ADR
\* 0036, decision 2): no inspection sweeps, and no removal is repeated.
LeftoverIsSwept == \A k \in Keys : k \in file ~> k \notin file

\* "prunes the specific key ID from authorized_keys using atomic AWK filter"
\* (handlers_native_terminal.go:212): an edit between awk and mv is undone.
EditHolds == \A l \in Own : l \in file <=> l \in wanted

\* "a per-host mutex to guard concurrent authorized_keys operations"
\* (handlers_native_terminal.go:137): two host rows that name one machine have two
\* mutexes.
MutexGuardsFile == cuts = 0 => torn \cap Keys = {}
=============================================================================
