------------------------- MODULE InspectionRequests -------------------------
(***************************************************************************)
(* Who asks for inspections, and when: the background worker (main.go),    *)
(* POST /api/hosts, POST /api/hosts/<id>/inspect and                       *)
(* POST /api/hosts/inspect-all (internal/web/server.go).  They share the   *)
(* in-flight map and hosts.last_inspected; inside, an inspection is the    *)
(* subject of Inspector.tla.  A goroutine that is going to call            *)
(* InspectHost is a task: on whose behalf, and for which host.  Ages are   *)
(* counted in steps of time, and no further than the poll interval.        *)
(***************************************************************************)
EXTENDS Integers, FiniteSets

CONSTANTS
    Hosts,
    Clients,            \* requests for single inspections, any number in turn
    PoolSize,           \* capacity of sem (5)
    Cooldown,           \* age from which a host may be inspected on request (15 s)
    Interval            \* age from which the worker inspects it (poll_interval_sec)

Internal == {"worker", "pool", "create"}

ASSUME RequestsAssumption ==
    /\ Clients \cap Internal = {}
    /\ PoolSize \in Nat \ {0}
    /\ Cooldown \in Nat /\ Interval \in Nat /\ Cooldown < Interval

Tasks == (Internal \cup Clients) \X Hosts

VARIABLES
    hosts,              \* the hosts table
    age,                \* age[h]: of last_inspected; Interval also stands for NULL
    enabled,            \* poll_interval_sec is not 0
    inFlight,           \* Inspector.inFlight
    pc,                 \* pc[t]: what task t does next
    seen,               \* seen[c]: age, now, of the last_inspected that client c loaded
    due,                \* hosts the worker's sweep has still to visit
    cycle,              \* inspect-all: "none", "checked" under inspectAllMu, or "active"
    todo,               \* hosts it has still to hand out
    sem,                \* slots taken, which is also what wg counts
    rest,               \* age of lastInspectAll; Cooldown also stands for zero
    listed, visited     \* history: hosts of the cycle; those that were inspected, could
                        \* not be loaded, or were deleted, since it was admitted

row    == <<hosts, age>>
worker == <<enabled, due>>
mass   == <<cycle, todo, rest, listed>>
vars   == <<row, worker, inFlight, pc, seen, mass, sem, visited>>

TypeOK ==
    /\ hosts \in SUBSET Hosts
    /\ age \in [Hosts -> 0..Interval]
    /\ enabled \in BOOLEAN
    /\ inFlight \in SUBSET Hosts
    /\ pc \in [Tasks -> {"off", "check", "start", "load", "run", "rollup"}]
    /\ seen \in [Clients -> 0..Interval]
    /\ due \in SUBSET Hosts
    /\ cycle \in {"none", "checked", "active"}
    /\ todo \in SUBSET Hosts
    /\ sem \in 0..PoolSize
    /\ rest \in 0..Cooldown
    /\ listed \in SUBSET Hosts
    /\ visited \in SUBSET Hosts

Init ==
    /\ hosts = Hosts
    /\ age = [h \in Hosts |-> Interval]
    /\ enabled = TRUE
    /\ inFlight = {}
    /\ pc = [t \in Tasks |-> "off"]
    /\ seen = [c \in Clients |-> 0]
    /\ due = {}
    /\ cycle = "none" /\ todo = {} /\ rest = Cooldown
    /\ sem = 0
    /\ listed = {} /\ visited = {}

Goto(t, step) == pc' = [pc EXCEPT ![t] = step]

\* What is remembered of a cycle, while there is one.
Visit(h) == visited' = IF cycle = "none" THEN visited ELSE visited \cup {h}

\* InspectHost returns to its caller; a goroutine of the pool gives its slot back.
Return(t) ==
    /\ Goto(t, "off")
    /\ sem' = IF t[1] = "pool" THEN sem - 1 ELSE sem

-----------------------------------------------------------------------------
(* InspectHost, as its callers see it.                                      *)

Begin(t) ==
    /\ pc[t] = "start" /\ t[2] \notin inFlight
    /\ inFlight' = inFlight \cup {t[2]}
    /\ Goto(t, "load")
    /\ UNCHANGED <<row, worker, seen, mass, sem, visited>>

\* Mutant of Busy: a goroutine of the pool that is refused keeps its slot.
BusyKeepsSlot(t) ==
    /\ pc[t] = "start" /\ t[2] \in inFlight
    /\ Goto(t, "off")
    /\ UNCHANGED <<row, worker, inFlight, seen, mass, sem, visited>>

\* ErrAlreadyInspecting.
Busy(t) ==
    /\ pc[t] = "start" /\ t[2] \in inFlight
    /\ Return(t)
    /\ UNCHANGED <<row, worker, inFlight, seen, mass, visited>>

\* Mutant of LoadFails: the early return leaves the host in the map.
LoadFailsStays(t) ==
    /\ pc[t] = "load"
    /\ Visit(t[2])
    /\ Return(t)
    /\ UNCHANGED <<row, worker, inFlight, seen, mass>>

\* GetHost fails, or finds nothing: nothing is recorded.
LoadFails(t) ==
    /\ pc[t] = "load"
    /\ inFlight' = inFlight \ {t[2]}
    /\ Visit(t[2])
    /\ Return(t)
    /\ UNCHANGED <<row, worker, seen, mass>>

Load(t) ==
    /\ pc[t] = "load" /\ t[2] \in hosts
    /\ Goto(t, "run")
    /\ UNCHANGED <<row, worker, inFlight, seen, mass, sem, visited>>

\* UpdateHostInspection, which ends every inspection of a host that was loaded, within
\* the budget or when it runs out.
Record(t) ==
    /\ pc[t] = "run"
    /\ age' = IF t[2] \in hosts THEN [age EXCEPT ![t[2]] = 0] ELSE age
    /\ Visit(t[2])
    /\ Goto(t, "rollup")
    /\ UNCHANGED <<hosts, worker, inFlight, seen, mass, sem>>

\* The rollups, and the deferred Delete.
Finish(t) ==
    /\ pc[t] = "rollup"
    /\ inFlight' = inFlight \ {t[2]}
    /\ Return(t)
    /\ UNCHANGED <<row, worker, seen, mass, visited>>

-----------------------------------------------------------------------------
(* The background worker.                                                   *)

\* The ticker: settings, ListHosts, and the time the sweep compares with.
Sweep ==
    /\ due = {} /\ enabled
    /\ due' = {h \in hosts : age[h] >= Interval}
    /\ UNCHANGED <<row, enabled, inFlight, pc, seen, mass, sem, visited>>

\* The loop: a goroutine for each host that was due and is not being inspected now.
\* (One that was started for it by an earlier sweep has been scheduled by then.)
Dispatch(h) ==
    /\ h \in due
    /\ due' = due \ {h}
    /\ IF h \notin inFlight /\ pc[<<"worker", h>>] = "off"
       THEN Goto(<<"worker", h>>, "start")
       ELSE UNCHANGED pc
    /\ UNCHANGED <<row, enabled, inFlight, seen, mass, sem, visited>>

-----------------------------------------------------------------------------
(* POST /api/hosts/<id>/inspect.                                            *)

\* GetHost; without it there is nothing to inspect.
Ask(c, h) ==
    /\ \A g \in Hosts : pc[<<c, g>>] = "off"
    /\ h \in hosts
    /\ seen' = [seen EXCEPT ![c] = age[h]]
    /\ Goto(<<c, h>>, "check")
    /\ UNCHANGED <<row, worker, inFlight, mass, sem, visited>>

\* IsInspecting (409), and the cooldown of the row that was loaded (429).
Check(c, h) ==
    /\ pc[<<c, h>>] = "check"
    /\ Goto(<<c, h>>, IF h \notin inFlight /\ seen[c] >= Cooldown THEN "start" ELSE "off")
    /\ UNCHANGED <<row, worker, inFlight, seen, mass, sem, visited>>

-----------------------------------------------------------------------------
(* POST /api/hosts/inspect-all.                                             *)

\* Mutant of CheckAll: the inspections that are in flight are not looked at.
CheckAllAlone ==
    /\ cycle = "none" /\ rest >= Cooldown
    /\ cycle' = "checked"
    /\ visited' = {}
    /\ UNCHANGED <<row, worker, inFlight, pc, seen, todo, rest, listed, sem>>

\* Under inspectAllMu: no cycle, no inspection in flight, and the cooldown is over.
CheckAll ==
    /\ cycle = "none" /\ inFlight = {} /\ rest >= Cooldown
    /\ cycle' = "checked"
    /\ visited' = {}
    /\ UNCHANGED <<row, worker, inFlight, pc, seen, todo, rest, listed, sem>>

\* ListHosts, which may fail or find nothing; then the flag is set.
StartAll ==
    /\ cycle = "checked" /\ hosts # {}
    /\ cycle' = "active"
    /\ listed' = hosts /\ todo' = hosts
    /\ UNCHANGED <<row, worker, inFlight, pc, seen, rest, sem, visited>>

StartAllFails ==
    /\ cycle = "checked"
    /\ cycle' = "none" /\ visited' = {}
    /\ UNCHANGED <<row, worker, inFlight, pc, seen, todo, rest, listed, sem>>

\* A slot of sem, and a goroutine for the next host.
HandOut(h) ==
    /\ cycle = "active" /\ h \in todo /\ sem < PoolSize
    /\ todo' = todo \ {h}
    /\ sem' = sem + 1
    /\ Goto(<<"pool", h>>, "start")
    /\ UNCHANGED <<row, worker, inFlight, seen, cycle, rest, listed, visited>>

\* wg.Wait and the deferred critical section.
EndAll ==
    /\ cycle = "active" /\ todo = {} /\ sem = 0
    /\ cycle' = "none" /\ rest' = 0
    /\ listed' = {} /\ visited' = {}
    /\ UNCHANGED <<row, worker, inFlight, pc, seen, todo, sem>>

-----------------------------------------------------------------------------
(* Administrators, and time.                                                *)

\* POST /api/hosts inspects the new host at once.
Create(h) ==
    /\ h \notin hosts /\ pc[<<"create", h>>] = "off"
    /\ hosts' = hosts \cup {h}
    /\ age' = [age EXCEPT ![h] = Interval]
    /\ Goto(<<"create", h>>, "start")
    /\ UNCHANGED <<worker, inFlight, seen, mass, sem, visited>>

Delete(h) ==
    /\ h \in hosts
    /\ hosts' = hosts \ {h}
    /\ Visit(h)
    /\ UNCHANGED <<age, worker, inFlight, pc, seen, mass, sem>>

\* poll_interval_sec is set to 0, or to an interval again.
Configure ==
    /\ enabled' = ~enabled
    /\ UNCHANGED <<row, due, inFlight, pc, seen, mass, sem, visited>>

Older(n, most) == IF n < most THEN n + 1 ELSE n

Tick ==
    /\ age' = [h \in Hosts |-> Older(age[h], Interval)]
    /\ seen' = [c \in Clients |-> Older(seen[c], Interval)]
    /\ rest' = Older(rest, Cooldown)
    /\ UNCHANGED <<hosts, worker, inFlight, pc, cycle, todo, listed, sem, visited>>

Inspect(t) ==
    \/ Begin(t) \/ Busy(t) \/ LoadFails(t) \/ Load(t) \/ Record(t) \/ Finish(t)

Mass ==
    \/ StartAll \/ StartAllFails \/ EndAll
    \/ \E h \in Hosts : HandOut(h)

Next ==
    \/ \E t \in Tasks : Inspect(t)
    \/ Sweep
    \/ \E h \in Hosts : Dispatch(h)
    \/ \E c \in Clients, h \in Hosts : Ask(c, h) \/ Check(c, h)
    \/ CheckAll \/ Mass
    \/ \E h \in Hosts : Create(h) \/ Delete(h)
    \/ Configure
    \/ Tick

Spec == Init /\ [][Next]_vars

\* The worker's ticker and loop, the goroutines of a cycle, and inspections, whose budget
\* is 45 s, go on; time passes.  Nobody need ask for anything.
FairSpec ==
    /\ Spec
    /\ \A t \in Tasks : WF_vars(Inspect(t))
    /\ WF_vars(Sweep) /\ WF_vars(Tick) /\ WF_vars(Mass)
    /\ \A h \in Hosts : WF_vars(Dispatch(h))

-----------------------------------------------------------------------------
(* Properties.                                                              *)

\* A cycle of inspect-all leaves no host out: when it ends, each host it listed has been
\* inspected since the cycle was admitted, by it or by somebody who was faster, or is
\* being inspected; unless it could not be loaded or was deleted.  That a refusal by the
\* in-flight map (server.go:1052 drops it) is as good as an inspection is what the look
\* at InFlightCount sees to.
EachIsVisited ==
    [][cycle = "active" /\ cycle' = "none" => listed \subseteq visited \cup inFlight]_vars

\* A cycle ends, so that inspect-all is not refused for ever: refused, failed and
\* deleted hosts give their slots back (sem, inspectAllActive).
CycleEnds == cycle # "none" ~> cycle = "none"

\* A host that is not deleted is inspected again and again while background inspection
\* is on, whoever else asks for inspections meanwhile, unless loading it fails again and
\* again (runInspectionCycle).
DueIsInspected ==
    \A h \in Hosts :
        <>[](enabled /\ h \in hosts) =>
            []<>(age[h] = 0) \/ \E t \in Tasks : []<><<LoadFails(t)>>_vars

(* Said of the code, and not so: an inspection that is recorded between GetHost and  *)
(* IsInspecting is not seen, and inspect-all does not look at single hosts.          *)

\* "manual inspections enforce a 15-second per-host cooldown"
\* (docs/user-guide.md:139): nobody gets a host inspected within it by asking for it.
CooldownHolds ==
    [][\A c \in Clients, h \in Hosts :
            pc[<<c, h>>] = "start" /\ pc'[<<c, h>>] = "load" => age[h] >= Cooldown]_vars
=============================================================================
