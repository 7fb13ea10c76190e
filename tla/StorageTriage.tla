--------------------------- MODULE StorageTriage ----------------------------
(***************************************************************************)
(* internal/storagetriage: on-demand disk scans of one host, at most one at *)
(* a time, with a cooldown between them, a cancellation that closes the     *)
(* connection and sends a kill command after it, and clean-ups that reset   *)
(* the cooldown.  The du and find processes of a scan live on the host and  *)
(* do not end with the connection.                                          *)
(***************************************************************************)
EXTENDS Integers, FiniteSets

CONSTANTS
    Scans,          \* calls of RunTriage
    Forced,         \* those with force=true
    MaxKills        \* bound on the kill commands under way

ASSUME StorageAssumption ==
    /\ Forced \subseteq Scans
    /\ "none" \notin Scans
    /\ MaxKills \in Nat \ {0}

VARIABLES
    load,           \* the load of the host: 0 normal, 1 busy, 2 very busy
    last,           \* lastScanTimes: the scan that set it, and its age
    result,         \* lastResults: the scan whose result it is
    flight,         \* inFlight: the scan whose cancel function it holds
    cancelled,      \* calls under way whose context is cancelled
    closed,         \* calls under way whose connection the watcher has closed
    live,           \* scans whose du and find processes are running on the host
    hurt,           \* scans that a kill command has hit, while their output is in use
    aim,            \* the cancel function CancelTriage has loaded
    kills,          \* kill commands under way
    pc,             \* pc[s]: what the call does next
    before          \* history: calls that were under way when a clean-up ended

service == <<last, result, flight>>
cancels == <<cancelled, closed, aim, kills>>
vars    == <<load, service, cancels, live, hurt, pc, before>>

Scan == Scans \cup {"none"}

\* Ages are counted in cooldowns: 2, 5 and 10 minutes are the ages 1, 2 and 3.
Ages   == 0..3
Cooldown == load + 1
Never  == [by |-> "none", age |-> 3]

Step == {"out", "guard", "dial", "start", "scan", "time", "result", "return", "gone"}

\* From the guard to the deferred Delete.
Guarded(s) == pc[s] \in {"dial", "start", "scan", "time", "result", "return"}
Calls == {s \in Scans : Guarded(s)}

TypeOK ==
    /\ load \in 0..2
    /\ last \in [by : Scan, age : Ages]
    /\ result \in Scan
    /\ flight \in Scan
    /\ cancelled \subseteq Scans
    /\ closed \subseteq Scans
    /\ live \subseteq Scans
    /\ hurt \subseteq Scans
    /\ aim \in Scan
    /\ kills \in 0..MaxKills
    /\ pc \in [Scans -> Step]
    /\ before \subseteq Scans

Init ==
    /\ load = 0
    /\ last = Never /\ result = "none" /\ flight = "none"
    /\ cancelled = {} /\ closed = {} /\ aim = "none" /\ kills = 0
    /\ live = {} /\ hurt = {}
    /\ pc = [s \in Scans |-> "out"]
    /\ before = {}

Goto(s, l) == pc' = [pc EXCEPT ![s] = l]

-----------------------------------------------------------------------------
(* RunTriage.                                                               *)

\* CheckThrottle: the cooldown of the present load, and no scan of a very busy host.
Allowed(s) == s \in Forced \/ (last.age >= Cooldown /\ load < 2)

\* A refusal, or a host that is down or gone, ends the call.
Check(s) ==
    /\ pc[s] = "out"
    /\ \/ Allowed(s) /\ Goto(s, "guard")
       \/ Goto(s, "gone")
    /\ UNCHANGED <<load, service, cancels, live, hurt, before>>

\* Mutant of Guard: the deferred Delete is in place before the entry is taken.
GuardDeferredEarly(s) ==
    /\ pc[s] = "guard"
    /\ IF flight = "none" THEN flight' = s /\ Goto(s, "dial")
       ELSE flight' = "none" /\ Goto(s, "gone")
    /\ UNCHANGED <<load, last, result, cancels, live, hurt, before>>

\* LoadOrStore(hostID, cancel)
Guard(s) ==
    /\ pc[s] = "guard"
    /\ IF flight = "none" THEN flight' = s /\ Goto(s, "dial")
       ELSE Goto(s, "gone") /\ UNCHANGED flight
    /\ UNCHANGED <<load, last, result, cancels, live, hurt, before>>

Dial(s) ==
    /\ pc[s] = "dial"
    /\ Goto(s, "start") \/ Goto(s, "return")
    /\ UNCHANGED <<load, service, cancels, live, hurt, before>>

\* The goroutine beside the scan: it closes the connection of a cancelled context.
Watch(s) ==
    /\ pc[s] \in {"start", "scan"}
    /\ s \in cancelled \ closed
    /\ closed' = closed \cup {s}
    /\ UNCHANGED <<load, service, cancelled, aim, kills, live, hurt, pc, before>>

\* The script is started, unless the connection has been closed.
Start(s) ==
    /\ pc[s] = "start"
    /\ IF s \in closed THEN Goto(s, "return") /\ UNCHANGED live
       ELSE Goto(s, "scan") /\ live' = live \cup {s}
    /\ UNCHANGED <<load, service, cancels, hurt, before>>

\* ExecTimeout returns the output, that of a script whose du has been killed too: the
\* sections it did not print are read as empty.
Output(s) ==
    /\ pc[s] = "scan"
    /\ s \notin live \cup closed
    /\ Goto(s, "time")
    /\ UNCHANGED <<load, service, cancels, live, hurt, before>>

\* The connection is closed: an error, and the processes go on.
CutOff(s) ==
    /\ pc[s] = "scan"
    /\ s \in closed
    /\ Goto(s, "return")
    /\ UNCHANGED <<load, service, cancels, live, hurt, before>>

\* 50 seconds are over, or the connection is lost.
TimeOut(s) ==
    /\ pc[s] = "scan"
    /\ Goto(s, "return")
    /\ UNCHANGED <<load, service, cancels, live, hurt, before>>

\* Mutant of StoreTime: the guard is released as soon as the scan is over.
StoreTimeUnguarded(s) ==
    /\ pc[s] = "time"
    /\ last' = [by |-> s, age |-> 0]
    /\ flight' = IF flight = s THEN "none" ELSE flight
    /\ Goto(s, "result")
    /\ UNCHANGED <<load, result, cancels, live, hurt, before>>

\* The time of the scan is stored for the cooldown ...
StoreTime(s) ==
    /\ pc[s] = "time"
    /\ last' = [by |-> s, age |-> 0]
    /\ Goto(s, "result")
    /\ UNCHANGED <<load, result, flight, cancels, live, hurt, before>>

\* ... and then its result, for the snapshot view.
StoreResult(s) ==
    /\ pc[s] = "result"
    /\ result' = s
    /\ Goto(s, "return")
    /\ UNCHANGED <<load, last, flight, cancels, live, hurt, before>>

\* The deferred calls: the watcher ends, the connection is closed, the entry goes.
Return(s) ==
    /\ pc[s] = "return"
    /\ flight' = "none"
    /\ cancelled' = cancelled \ {s}
    /\ closed' = closed \ {s}
    /\ hurt' = hurt \cap {result}
    /\ Goto(s, "gone")
    /\ UNCHANGED <<load, last, result, aim, kills, live, before>>

RunTriage(s) ==
    \/ Guard(s) \/ Dial(s) \/ Start(s) \/ Output(s) \/ CutOff(s)
    \/ StoreTime(s) \/ StoreResult(s) \/ Return(s)

-----------------------------------------------------------------------------
(* CancelTriage, clean-ups, the host and time.                              *)

\* The entry is loaded; if there is none, the answer is canceled = false.
Aim ==
    /\ aim = "none" /\ flight # "none"
    /\ aim' = flight
    /\ UNCHANGED <<load, service, cancelled, closed, kills, live, hurt, pc, before>>

\* Mutant of Fire: the processes are killed, and the context is left alone.
FireKillOnly ==
    /\ aim # "none" /\ kills < MaxKills
    /\ kills' = kills + 1
    /\ aim' = "none"
    /\ UNCHANGED <<load, service, cancelled, closed, live, hurt, pc, before>>

\* The function is called, and a goroutine started that will kill what runs on the host.
Fire ==
    /\ aim # "none" /\ kills < MaxKills
    /\ cancelled' = cancelled \cup ({aim} \cap Calls)
    /\ kills' = kills + 1
    /\ aim' = "none"
    /\ UNCHANGED <<load, service, closed, live, hurt, pc, before>>

\* The client of a request goes away: its context is cancelled with it.
Abandon(s) ==
    /\ s \in Calls
    /\ cancelled' = cancelled \cup {s}
    /\ UNCHANGED <<load, service, closed, aim, kills, live, hurt, pc, before>>

\* pkill by name: whatever scan runs by the time the goroutine has its connection.  A
\* script that was hit may go on with its next command.
Kill ==
    /\ kills > 0
    /\ kills' = kills - 1
    /\ hurt' = hurt \cup {s \in live : pc[s] = "scan"}
    /\ live' \in SUBSET live
    /\ UNCHANGED <<load, service, cancelled, closed, aim, pc, before>>

KillFails ==
    /\ kills > 0
    /\ kills' = kills - 1
    /\ UNCHANGED <<load, service, cancelled, closed, aim, live, hurt, pc, before>>

\* A clean-up has succeeded: ResetThrottle.
Reclaim ==
    /\ last # Never
    /\ last' = Never
    /\ before' = before \cup Calls
    /\ UNCHANGED <<load, result, flight, cancels, live, hurt, pc>>

RemoteEnds(s) ==
    /\ s \in live
    /\ live' = live \ {s}
    /\ UNCHANGED <<load, service, cancels, hurt, pc, before>>

Tick ==
    /\ last.age < 3
    /\ last' = [last EXCEPT !.age = @ + 1]
    /\ UNCHANGED <<load, result, flight, cancels, live, hurt, pc, before>>

LoadChange ==
    /\ load' \in 0..2
    /\ UNCHANGED <<service, cancels, live, hurt, pc, before>>

Next ==
    \/ \E s \in Scans :
        \/ Check(s) \/ RunTriage(s) \/ Watch(s) \/ TimeOut(s)
        \/ Abandon(s) \/ RemoteEnds(s)
    \/ Aim \/ Fire \/ Kill \/ KillFails
    \/ Reclaim \/ Tick \/ LoadChange

Spec == Init /\ [][Next]_vars

\* Goroutines run, dials and the kill command have a time limit.  Neither the end of
\* the processes on the host nor the 50 seconds are assumed.
Fairness ==
    /\ \A s \in Scans : WF_vars(RunTriage(s)) /\ WF_vars(Watch(s))
    /\ WF_vars(Fire)
    /\ WF_vars(Kill \/ KillFails)

FairSpec == Spec /\ Fairness

-----------------------------------------------------------------------------
(* Properties.                                                              *)

\* "Triage Concurrency Guard": one call of RunTriage at a time is past the guard, busy
\* answers and cancellations included.
OneScan == \A s, t \in Scans : Guarded(s) /\ Guarded(t) => s = t

\* The cooldown and the snapshot are about the same scan, although they are stored one
\* after the other: outside that window, a scan that set the cooldown is the one shown.
SnapshotIsLast ==
    (\A s \in Scans : pc[s] # "result") => last.by \in {"none", result}

\* A scan that CancelTriage has found, or whose client has gone, returns and frees the
\* host, however long its processes hang and whatever becomes of the kill command.
CancelFrees ==
    \A s \in Scans :
        (aim = s \/ s \in cancelled) /\ Guarded(s) ~> flight # s /\ ~Guarded(s)

\* "guarantees no parallel du thrashing on the remote host" (storagetriage.go, RunTriage).
NoParallelScans == Cardinality(live) <= 1

\* "Reset cooldown ... automatically as soon as a clean-up succeeds, so that the freed
\* space can be verified without a pause" (ADR 0039): a scan from before the clean-up
\* does not set the cooldown again.
ResetHolds == last.by \notin before

\* The kill command of a cancellation spares the scans that follow it: what is shown is
\* the output of a scan that ran to its end.
SnapshotIsWhole == result \notin hurt
=============================================================================
