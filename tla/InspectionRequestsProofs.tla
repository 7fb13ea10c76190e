----------------------- MODULE InspectionRequestsProofs -----------------------
(***************************************************************************)
(* Theorems about InspectionRequests.tla: types, that a cycle of           *)
(* inspect-all leaves no host out, that the in-flight map agrees with the  *)
(* inspections, and that a cycle can always go on and runs out of steps,   *)
(* for any number of hosts, clients and slots.                             *)
(***************************************************************************)
EXTENDS InspectionRequests, FiniteSetTheorems, TLAPS

\* The steps between the start of a call of InspectHost and its return.
Inside == {"load", "run", "rollup"}
Step   == {"off", "check", "start"} \cup Inside

\* Hosts whose goroutine in the pool has not ended.
Pooled == {h \in Hosts : pc[<<"pool", h>>] # "off"}

-----------------------------------------------------------------------------
(* Types.                                                                   *)

\* The number of slots taken is the number of goroutines that hold one.
Slots ==
    /\ IsFiniteSet(Pooled)
    /\ sem = Cardinality(Pooled)

\* Nobody has a goroutine in the pool before it is handed out, or outside a cycle.
Rounds ==
    /\ cycle # "active" => todo = {} /\ Pooled = {}
    /\ todo \cap Pooled = {}

\* The goroutine of a host goes to another step and keeps or has no slot.
LEMMA Moving ==
    ASSUME TypeOK, Slots, NEW t \in Tasks, NEW l \in Step, Goto(t, l),
           t[1] = "pool" => (pc[t] = "off" <=> l = "off")
    PROVE  /\ pc' \in [Tasks -> Step]
           /\ Pooled' = Pooled
<1>1. pc' \in [Tasks -> Step]
  BY DEF Goto, TypeOK, Step, Inside
<1>2. \A h \in Hosts : <<"pool", h>> \in Tasks
  BY DEF Tasks, Internal
<1>3. pc'[t] = l /\ \A u \in Tasks \ {t} : pc'[u] = pc[u]
  BY DEF Goto, TypeOK
<1>4. ASSUME NEW h \in Hosts
      PROVE  pc'[<<"pool", h>>] = "off" <=> pc[<<"pool", h>>] = "off"
  <2>1. CASE t = <<"pool", h>>
    BY <2>1, <1>3
  <2>2. CASE t # <<"pool", h>>
    BY <2>2, <1>2, <1>3
  <2> QED BY <2>1, <2>2
<1> QED BY <1>1, <1>4 DEF Pooled

\* A call returns: a goroutine of the pool, and nobody else, gives a slot back.
LEMMA Returning ==
    ASSUME TypeOK, Slots, NEW t \in Tasks, pc[t] # "off", Return(t)
    PROVE  /\ pc' \in [Tasks -> Step]
           /\ sem' \in 0..PoolSize
           /\ Slots'
           /\ Pooled' \subseteq Pooled
           /\ t[1] = "pool" => Pooled' = Pooled \ {t[2]}
           /\ t[1] # "pool" => Pooled' = Pooled
<1>1. pc' \in [Tasks -> Step] /\ pc'[t] = "off" /\ \A u \in Tasks \ {t} : pc'[u] = pc[u]
  BY DEF Return, Goto, TypeOK, Step, Inside
<1>2. \A h \in Hosts : <<"pool", h>> \in Tasks
  BY DEF Tasks, Internal
<1>3. CASE t[1] = "pool"
  <2>1. t[2] \in Hosts /\ t = <<"pool", t[2]>>
    BY <1>3 DEF Tasks
  <2>2. t[2] \in Pooled
    BY <2>1 DEF Pooled
  <2>3. Pooled' = Pooled \ {t[2]}
    BY <1>1, <1>2, <2>1 DEF Pooled
  <2>4. IsFiniteSet(Pooled') /\ Cardinality(Pooled') = Cardinality(Pooled) - 1
    BY <2>2, <2>3, FS_RemoveElement DEF Slots
  <2>5. Cardinality(Pooled') \in Nat
    BY <2>4, FS_CardinalityType
  <2>6. sem' = sem - 1
    BY <1>3 DEF Return
  <2> QED BY <1>1, <1>3, <2>3, <2>4, <2>5, <2>6, RequestsAssumption DEF Slots, TypeOK
<1>4. CASE t[1] # "pool"
  <2>1. Pooled' = Pooled
    BY <1>1, <1>2, <1>4 DEF Pooled
  <2>2. sem' = sem
    BY <1>4 DEF Return
  <2> QED BY <1>1, <1>4, <2>1, <2>2 DEF Slots, TypeOK
<1> QED BY <1>3, <1>4

\* Every step keeps the types, and the slots with the goroutines that hold them.
LEMMA TypeStep ==
    TypeOK /\ Slots /\ Rounds /\ [Next]_vars => TypeOK' /\ Slots' /\ Rounds'
<1> SUFFICES ASSUME TypeOK, Slots, Rounds, [Next]_vars PROVE TypeOK' /\ Slots' /\ Rounds'
  OBVIOUS
<1> DEFINE Goal == TypeOK' /\ Slots' /\ Rounds'
           Data == /\ hosts' \in SUBSET Hosts
                   /\ age' \in [Hosts -> 0..Interval]
                   /\ enabled' \in BOOLEAN
                   /\ inFlight' \in SUBSET Hosts
                   /\ seen' \in [Clients -> 0..Interval]
                   /\ due' \in SUBSET Hosts
                   /\ cycle' \in {"none", "checked", "active"}
                   /\ todo' \in SUBSET Hosts
                   /\ rest' \in 0..Cooldown
                   /\ listed' \in SUBSET Hosts
                   /\ visited' \in SUBSET Hosts
<1>0. \A t \in Tasks : t[2] \in Hosts
  BY DEF Tasks
<1>1. ASSUME Data, pc' \in [Tasks -> Step], UNCHANGED sem, Pooled' = Pooled,
             UNCHANGED <<cycle, todo>>
      PROVE  Goal
  BY <1>1 DEF TypeOK, Slots, Rounds, Step, Inside
<1>2. ASSUME Data, pc' \in [Tasks -> Step], sem' \in 0..PoolSize, Slots',
             Pooled' \subseteq Pooled, UNCHANGED <<cycle, todo>>
      PROVE  Goal
  BY <1>2 DEF TypeOK, Rounds, Step, Inside
<1>3. ASSUME UNCHANGED pc PROVE pc' \in [Tasks -> Step] /\ Pooled' = Pooled
  BY <1>3 DEF TypeOK, Pooled, Step, Inside
<1>4. \A h \in Hosts : <<"worker", h>> \in Tasks /\ <<"create", h>> \in Tasks
                        /\ <<"pool", h>> \in Tasks
  BY DEF Tasks, Internal
<1>5. \A c \in Clients, h \in Hosts : <<c, h>> \in Tasks /\ c # "pool"
  BY RequestsAssumption DEF Tasks, Internal
<1>6. Interval \in Nat /\ Cooldown \in Nat /\ 0 \in 0..Interval /\ 0 \in 0..Cooldown
      /\ Interval \in 0..Interval
  BY RequestsAssumption
<1>7. CASE UNCHANGED vars
  <2>1. Data
    BY <1>7 DEF vars, row, worker, mass, TypeOK
  <2> QED BY <1>1, <1>3, <1>7, <2>1 DEF vars, mass
<1>8. ASSUME NEW t \in Tasks, Inspect(t) PROVE Goal
  <2>1. CASE Begin(t)
    <3>1. Data
      BY <2>1, <1>0 DEF Begin, row, worker, mass, TypeOK
    <3>2. pc' \in [Tasks -> Step] /\ Pooled' = Pooled
      BY <2>1, Moving DEF Begin, Step, Inside
    <3> QED BY <2>1, <3>1, <3>2, <1>1 DEF Begin, mass
  <2>2. CASE Busy(t)
    <3>1. Data
      BY <2>2 DEF Busy, row, worker, mass, TypeOK
    <3>2. Return(t) /\ pc[t] # "off"
      BY <2>2 DEF Busy
    <3> QED BY <2>2, <3>1, <3>2, Returning, <1>2 DEF Busy, mass
  <2>3. CASE LoadFails(t)
    <3>1. Data
      BY <2>3, <1>0 DEF LoadFails, Visit, row, worker, mass, TypeOK
    <3>2. Return(t) /\ pc[t] # "off"
      BY <2>3 DEF LoadFails
    <3> QED BY <2>3, <3>1, <3>2, Returning, <1>2 DEF LoadFails, mass
  <2>4. CASE Load(t)
    <3>1. Data
      BY <2>4 DEF Load, row, worker, mass, TypeOK
    <3>2. pc' \in [Tasks -> Step] /\ Pooled' = Pooled
      BY <2>4, Moving DEF Load, Step, Inside
    <3> QED BY <2>4, <3>1, <3>2, <1>1 DEF Load, mass
  <2>5. CASE Record(t)
    <3>1. Data
      BY <2>5, <1>0, <1>6 DEF Record, Visit, worker, mass, TypeOK
    <3>2. pc' \in [Tasks -> Step] /\ Pooled' = Pooled
      BY <2>5, Moving DEF Record, Step, Inside
    <3> QED BY <2>5, <3>1, <3>2, <1>1 DEF Record, mass
  <2>6. CASE Finish(t)
    <3>1. Data
      BY <2>6, <1>0 DEF Finish, row, worker, mass, TypeOK
    <3>2. Return(t) /\ pc[t] # "off"
      BY <2>6 DEF Finish
    <3> QED BY <2>6, <3>1, <3>2, Returning, <1>2 DEF Finish, mass
  <2> QED BY <1>8, <2>1, <2>2, <2>3, <2>4, <2>5, <2>6 DEF Inspect
<1>9. CASE Sweep
  <2>1. Data
    BY <1>9 DEF Sweep, row, mass, TypeOK
  <2> QED BY <1>9, <2>1, <1>1, <1>3 DEF Sweep, mass
<1>10. ASSUME NEW h \in Hosts, Dispatch(h) PROVE Goal
  <2>1. Data
    BY <1>10 DEF Dispatch, row, mass, TypeOK
  <2>2. pc' \in [Tasks -> Step] /\ Pooled' = Pooled
    BY <1>10, <1>3, <1>4, Moving, <<"worker", h>>[1] # "pool" DEF Dispatch, Step
  <2> QED BY <1>10, <2>1, <2>2, <1>1 DEF Dispatch, mass
<1>11. ASSUME NEW c \in Clients, NEW h \in Hosts, Ask(c, h) PROVE Goal
  <2>1. Data
    BY <1>11 DEF Ask, row, worker, mass, TypeOK
  <2>2. pc' \in [Tasks -> Step] /\ Pooled' = Pooled
    BY <1>11, <1>5, Moving, <<c, h>>[1] = c DEF Ask, Step
  <2> QED BY <1>11, <2>1, <2>2, <1>1 DEF Ask, mass
<1>12. ASSUME NEW c \in Clients, NEW h \in Hosts, Check(c, h) PROVE Goal
  <2>1. Data
    BY <1>12 DEF Check, row, worker, mass, TypeOK
  <2>2. pc' \in [Tasks -> Step] /\ Pooled' = Pooled
    BY <1>12, <1>5, Moving, <<c, h>>[1] = c DEF Check, Step
  <2> QED BY <1>12, <2>1, <2>2, <1>1 DEF Check, mass
<1>13. CASE CheckAll
  <2>1. Data
    BY <1>13 DEF CheckAll, row, worker, TypeOK
  <2>2. Pooled' = Pooled /\ pc' \in [Tasks -> Step]
    BY <1>13, <1>3 DEF CheckAll
  <2> QED BY <1>13, <2>1, <2>2 DEF CheckAll, TypeOK, Slots, Rounds, Step, Inside
<1>14. CASE Mass
  <2>1. CASE StartAll
    <3>1. Data
      BY <2>1 DEF StartAll, row, worker, TypeOK
    <3>2. Pooled' = Pooled /\ pc' \in [Tasks -> Step]
      BY <2>1, <1>3 DEF StartAll
    <3> QED BY <2>1, <3>1, <3>2 DEF StartAll, TypeOK, Slots, Rounds, Step, Inside
  <2>2. CASE StartAllFails
    <3>1. Data
      BY <2>2 DEF StartAllFails, row, worker, TypeOK
    <3>2. Pooled' = Pooled /\ pc' \in [Tasks -> Step]
      BY <2>2, <1>3 DEF StartAllFails
    <3> QED BY <2>2, <3>1, <3>2 DEF StartAllFails, TypeOK, Slots, Rounds, Step, Inside
  <2>3. CASE EndAll
    <3>1. Data
      BY <2>3, <1>6 DEF EndAll, row, worker, TypeOK
    <3>2. Pooled' = Pooled /\ pc' \in [Tasks -> Step]
      BY <2>3, <1>3 DEF EndAll
    <3>3. Pooled = {}
      BY <2>3, FS_EmptySet DEF EndAll, Slots
    <3> QED BY <2>3, <3>1, <3>2, <3>3 DEF EndAll, TypeOK, Slots, Rounds, Step, Inside
  <2>4. ASSUME NEW h \in Hosts, HandOut(h) PROVE Goal
    <3>1. Data
      BY <2>4 DEF HandOut, row, worker, TypeOK
    <3>2. h \notin Pooled
      BY <2>4 DEF HandOut, Rounds
    <3>3. /\ pc' \in [Tasks -> Step]
          /\ pc'[<<"pool", h>>] = "start"
          /\ \A u \in Tasks \ {<<"pool", h>>} : pc'[u] = pc[u]
      BY <2>4, <1>4 DEF HandOut, Goto, TypeOK, Step, Inside
    <3>4. Pooled' = Pooled \cup {h}
      BY <3>3, <1>4 DEF Pooled
    <3>5. IsFiniteSet(Pooled') /\ Cardinality(Pooled') = Cardinality(Pooled) + 1
      BY <3>2, <3>4, FS_AddElement DEF Slots
    <3>6. sem' = sem + 1 /\ sem' \in 0..PoolSize
      BY <2>4, RequestsAssumption DEF HandOut, TypeOK
    <3>7. Slots'
      BY <3>5, <3>6 DEF Slots
    <3>8. Rounds'
      BY <2>4, <3>4 DEF HandOut, Rounds
    <3> QED BY <3>1, <3>3, <3>6, <3>7, <3>8 DEF TypeOK, Step, Inside
  <2> QED BY <1>14, <2>1, <2>2, <2>3, <2>4 DEF Mass
<1>15. ASSUME NEW h \in Hosts, Create(h) PROVE Goal
  <2>1. Data
    BY <1>15, <1>6 DEF Create, worker, mass, TypeOK
  <2>2. pc' \in [Tasks -> Step] /\ Pooled' = Pooled
    BY <1>15, <1>4, Moving, <<"create", h>>[1] # "pool" DEF Create, Step
  <2> QED BY <1>15, <2>1, <2>2, <1>1 DEF Create, mass
<1>16. ASSUME NEW h \in Hosts, Delete(h) PROVE Goal
  <2>1. Data
    BY <1>16 DEF Delete, Visit, worker, mass, TypeOK
  <2> QED BY <1>16, <2>1, <1>1, <1>3 DEF Delete, mass
<1>17. CASE Configure
  <2>1. Data
    BY <1>17 DEF Configure, row, mass, TypeOK
  <2> QED BY <1>17, <2>1, <1>1, <1>3 DEF Configure, mass
<1>18. CASE Tick
  <2>1. \A n \in 0..Interval : Older(n, Interval) \in 0..Interval
    BY <1>6 DEF Older
  <2>2. \A n \in 0..Cooldown : Older(n, Cooldown) \in 0..Cooldown
    BY <1>6 DEF Older
  <2>3. Data
    BY <1>18, <2>1, <2>2 DEF Tick, worker, TypeOK
  <2> QED BY <1>18, <2>3, <1>1, <1>3 DEF Tick
<1> QED
  BY <1>7, <1>8, <1>9, <1>10, <1>11, <1>12, <1>13, <1>14, <1>15, <1>16, <1>17, <1>18
     DEF Next

\* At the start nothing is under way.
LEMMA TypeInit == Init => TypeOK /\ Slots /\ Rounds
<1> SUFFICES ASSUME Init PROVE TypeOK /\ Slots /\ Rounds
  OBVIOUS
<1>1. TypeOK
  BY RequestsAssumption DEF Init, TypeOK
<1>2. Pooled = {}
  BY DEF Init, Pooled, Tasks, Internal
<1>3. Slots
  BY <1>2, FS_EmptySet DEF Slots, Init
<1> QED BY <1>1, <1>2, <1>3 DEF Rounds, Init

\* The worker, inspect-all and the requests keep the types of the state they share, for
\* any number of hosts, clients and slots (main.go, server.go).
THEOREM TypeCorrect == Spec => []TypeOK
<1>1. Init => TypeOK /\ Slots /\ Rounds
  BY TypeInit
<1>2. TypeOK /\ Slots /\ Rounds /\ [Next]_vars => TypeOK' /\ Slots' /\ Rounds'
  BY TypeStep
<1> QED BY <1>1, <1>2, PTL DEF Spec

-----------------------------------------------------------------------------
(* No host is left out.                                                     *)

Inspecting(t) == pc[t] \in Inside

\* Whoever is inspecting a host has it in the map, and alone.
Guarded ==
    /\ \A t \in Tasks : Inspecting(t) => t[2] \in inFlight
    /\ \A t, u \in Tasks : Inspecting(t) /\ Inspecting(u) /\ t # u => t[2] # u[2]

\* While there is a cycle, an inspection that has recorded its host has done so since
\* the cycle was admitted: nobody was inspecting then.
Recorded == cycle # "none" => \A t \in Tasks : pc[t] = "rollup" => t[2] \in visited

\* A host that has been handed out has a goroutine yet, or somebody has dealt with it,
\* or is doing so.
Dealt == cycle = "active" => listed \ todo \subseteq Pooled \cup visited \cup inFlight

Cycled == Guarded /\ Recorded /\ Dealt

\* What a step of an inspection does to its own task and to the others.
LEMMA Moves ==
    ASSUME TypeOK, NEW t \in Tasks, Inspect(t)
    PROVE  /\ t[2] \in Hosts
           /\ \A u \in Tasks \ {t} : pc'[u] = pc[u]
           /\ pc'[t] \in Step
           /\ UNCHANGED <<cycle, todo, listed>>
           /\ visited \subseteq visited'
           /\ \/ Begin(t) /\ pc'[t] = "load"
              \/ Busy(t) /\ pc'[t] = "off"
              \/ LoadFails(t) /\ pc'[t] = "off"
              \/ Load(t) /\ pc'[t] = "run"
              \/ Record(t) /\ pc'[t] = "rollup"
              \/ Finish(t) /\ pc'[t] = "off"
<1>1. t[2] \in Hosts
  BY DEF Tasks
<1>2. \A l \in Step : Goto(t, l) => pc'[t] = l /\ \A u \in Tasks \ {t} : pc'[u] = pc[u]
  BY DEF Goto, TypeOK
<1>3. {"off", "load", "run", "rollup"} \subseteq Step
  BY DEF Step, Inside
<1>4. Return(t) => Goto(t, "off")
  BY DEF Return
<1>5. CASE Begin(t)
  BY <1>1, <1>2, <1>3, <1>5 DEF Begin, mass
<1>6. CASE Busy(t)
  BY <1>1, <1>2, <1>3, <1>4, <1>6 DEF Busy, mass
<1>7. CASE LoadFails(t)
  BY <1>1, <1>2, <1>3, <1>4, <1>7 DEF LoadFails, Visit, mass
<1>8. CASE Load(t)
  BY <1>1, <1>2, <1>3, <1>8 DEF Load, mass
<1>9. CASE Record(t)
  BY <1>1, <1>2, <1>3, <1>9 DEF Record, Visit, mass
<1>10. CASE Finish(t)
  BY <1>1, <1>2, <1>3, <1>4, <1>10 DEF Finish, mass
<1> QED BY <1>5, <1>6, <1>7, <1>8, <1>9, <1>10 DEF Inspect

\* Every step keeps the guard.
LEMMA GuardStep == TypeOK /\ Guarded /\ [Next]_vars => Guarded'
<1> SUFFICES ASSUME TypeOK, Guarded, [Next]_vars PROVE Guarded'
  OBVIOUS
<1>1. ASSUME UNCHANGED inFlight, \A t \in Tasks : pc'[t] \in Inside => pc[t] \in Inside
      PROVE  Guarded'
  BY <1>1 DEF Guarded, Inspecting
<1>2. \A t \in Tasks, l \in Step \ Inside :
        Goto(t, l) => \A u \in Tasks : pc'[u] \in Inside => pc[u] \in Inside
  BY DEF Goto, TypeOK
<1>3. {"off", "check", "start"} \subseteq Step \ Inside
  BY DEF Step, Inside
<1>4. ASSUME NEW t \in Tasks, Inspect(t) PROVE Guarded'
  <2>0. \A u \in Tasks \ {t} : pc'[u] = pc[u]
    BY <1>4, Moves
  <2>1. CASE Begin(t) /\ pc'[t] = "load"
    BY <2>0, <2>1 DEF Guarded, Inspecting, Inside, Begin
  <2>2. CASE Busy(t) /\ pc'[t] = "off"
    BY <2>0, <2>2 DEF Guarded, Inspecting, Inside, Busy
  <2>3. CASE LoadFails(t) /\ pc'[t] = "off"
    BY <2>0, <2>3 DEF Guarded, Inspecting, Inside, LoadFails
  <2>4. CASE Load(t) /\ pc'[t] = "run"
    BY <2>0, <2>4 DEF Guarded, Inspecting, Inside, Load
  <2>5. CASE Record(t) /\ pc'[t] = "rollup"
    BY <2>0, <2>5 DEF Guarded, Inspecting, Inside, Record
  <2>6. CASE Finish(t) /\ pc'[t] = "off"
    BY <2>0, <2>6 DEF Guarded, Inspecting, Inside, Finish
  <2> QED BY <1>4, <2>1, <2>2, <2>3, <2>4, <2>5, <2>6, Moves
<1>5. ASSUME NEW h \in Hosts, Dispatch(h) PROVE Guarded'
  <2>1. <<"worker", h>> \in Tasks
    BY DEF Tasks, Internal
  <2> QED BY <1>1, <1>2, <1>3, <1>5, <2>1 DEF Dispatch
<1>6. ASSUME NEW c \in Clients, NEW h \in Hosts, Ask(c, h) \/ Check(c, h) PROVE Guarded'
  <2>1. <<c, h>> \in Tasks
    BY DEF Tasks
  <2> QED BY <1>1, <1>2, <1>3, <1>6, <2>1 DEF Ask, Check
<1>7. ASSUME NEW h \in Hosts, HandOut(h) PROVE Guarded'
  <2>1. <<"pool", h>> \in Tasks
    BY DEF Tasks, Internal
  <2> QED BY <1>1, <1>2, <1>3, <1>7, <2>1 DEF HandOut
<1>8. ASSUME NEW h \in Hosts, Create(h) PROVE Guarded'
  <2>1. <<"create", h>> \in Tasks
    BY DEF Tasks, Internal
  <2> QED BY <1>1, <1>2, <1>3, <1>8, <2>1 DEF Create
<1>9. CASE UNCHANGED <<pc, inFlight>>
  BY <1>1, <1>9
<1>10. (Sweep \/ CheckAll \/ StartAll \/ StartAllFails \/ EndAll \/ Configure \/ Tick
          \/ (\E h \in Hosts : Delete(h)) \/ UNCHANGED vars) => UNCHANGED <<pc, inFlight>>
  BY DEF Sweep, CheckAll, StartAll, StartAllFails, EndAll, Configure, Tick, Delete, vars
<1> QED BY <1>4, <1>5, <1>6, <1>7, <1>8, <1>9, <1>10 DEF Next, Mass

\* Every step keeps what is known of a cycle.
LEMMA CycleStep ==
    TypeOK /\ Slots /\ Rounds /\ Cycled /\ [Next]_vars => Recorded' /\ Dealt'
<1> SUFFICES ASSUME TypeOK, Slots, Rounds, Cycled, [Next]_vars PROVE Recorded' /\ Dealt'
  OBVIOUS
<1> DEFINE Goal == Recorded' /\ Dealt'
<1>1. ASSUME UNCHANGED <<cycle, listed, todo, inFlight>>, visited \subseteq visited',
             \A t \in Tasks : pc'[t] = "rollup" => pc[t] = "rollup",
             Pooled \subseteq Pooled'
      PROVE  Goal
  BY <1>1 DEF Cycled, Recorded, Dealt
<1>2. ASSUME NEW t \in Tasks, NEW l \in {"off", "check", "start"}, Goto(t, l),
             t[1] # "pool"
      PROVE  /\ \A u \in Tasks : pc'[u] = "rollup" => pc[u] = "rollup"
             /\ Pooled' = Pooled
  <2>1. Pooled' = Pooled
    BY <1>2, Moving DEF Step
  <2> QED BY <1>2, <2>1 DEF Goto, TypeOK
<1>3. ASSUME UNCHANGED pc
      PROVE  Pooled' = Pooled /\ \A t \in Tasks : pc'[t] = "rollup" => pc[t] = "rollup"
  BY <1>3 DEF Pooled
<1>4. ASSUME NEW t \in Tasks, Inspect(t) PROVE Goal
  <2>0. /\ t[2] \in Hosts
        /\ \A u \in Tasks \ {t} : pc'[u] = pc[u]
        /\ UNCHANGED <<cycle, todo, listed>>
        /\ visited \subseteq visited'
    BY <1>4, Moves
  <2>1. ASSUME pc'[t] # "rollup", pc[t] # "off", pc'[t] # "off", inFlight \subseteq inFlight'
        PROVE  Goal
    <3>1. \A h \in Hosts : <<"pool", h>> \in Tasks
      BY DEF Tasks, Internal
    <3>2. Pooled \subseteq Pooled'
      BY <2>0, <2>1, <3>1 DEF Pooled
    <3> QED BY <2>0, <2>1, <3>2 DEF Cycled, Recorded, Dealt
  <2>2. ASSUME pc[t] # "off", Return(t), pc'[t] = "off",
               inFlight \ {t[2]} \subseteq inFlight',
               cycle # "none" => t[2] \in inFlight' \cup visited'
        PROVE  Goal
    <3>1. Pooled \subseteq Pooled' \cup {t[2]}
      BY <2>2, Returning
    <3> QED BY <2>0, <2>2, <3>1 DEF Cycled, Recorded, Dealt
  <2>3. CASE Begin(t) /\ pc'[t] = "load"
    BY <2>1, <2>3 DEF Begin
  <2>4. CASE Busy(t) /\ pc'[t] = "off"
    BY <2>2, <2>4 DEF Busy
  <2>5. CASE LoadFails(t) /\ pc'[t] = "off"
    BY <2>2, <2>5 DEF LoadFails, Visit
  <2>6. CASE Load(t) /\ pc'[t] = "run"
    BY <2>1, <2>6 DEF Load
  <2>7. CASE Record(t) /\ pc'[t] = "rollup"
    <3>1. \A h \in Hosts : <<"pool", h>> \in Tasks
      BY DEF Tasks, Internal
    <3>2. Pooled \subseteq Pooled'
      BY <2>0, <2>7, <3>1 DEF Pooled
    <3>3. cycle # "none" => t[2] \in visited'
      BY <2>7 DEF Record, Visit
    <3>4. UNCHANGED inFlight
      BY <2>7 DEF Record
    <3> QED BY <2>0, <2>7, <3>2, <3>3, <3>4 DEF Cycled, Recorded, Dealt
  <2>8. CASE Finish(t) /\ pc'[t] = "off"
    <3>1. cycle # "none" => t[2] \in visited
      BY <2>8 DEF Finish, Cycled, Recorded
    <3> QED BY <2>0, <2>2, <2>8, <3>1 DEF Finish
  <2> QED BY <1>4, <2>3, <2>4, <2>5, <2>6, <2>7, <2>8, Moves
<1>5. ASSUME NEW h \in Hosts, Dispatch(h) PROVE Goal
  <2>1. <<"worker", h>> \in Tasks /\ <<"worker", h>>[1] # "pool"
    BY DEF Tasks, Internal
  <2>2. CASE UNCHANGED pc
    BY <1>1, <1>3, <1>5, <2>2 DEF Dispatch, mass
  <2>3. CASE Goto(<<"worker", h>>, "start")
    BY <1>1, <1>2, <1>5, <2>1, <2>3 DEF Dispatch, mass
  <2> QED BY <1>5, <2>2, <2>3 DEF Dispatch
<1>6. ASSUME NEW c \in Clients, NEW h \in Hosts, Ask(c, h) \/ Check(c, h) PROVE Goal
  <2>1. <<c, h>> \in Tasks /\ <<c, h>>[1] # "pool"
    BY RequestsAssumption DEF Tasks, Internal
  <2> QED BY <1>1, <1>2, <1>6, <2>1 DEF Ask, Check, mass
<1>7. ASSUME NEW h \in Hosts, HandOut(h) PROVE Goal
  <2>1. \A g \in Hosts : <<"pool", g>> \in Tasks
    BY DEF Tasks, Internal
  <2>2. /\ pc'[<<"pool", h>>] = "start"
        /\ \A u \in Tasks \ {<<"pool", h>>} : pc'[u] = pc[u]
    BY <1>7, <2>1 DEF HandOut, Goto, TypeOK
  <2>3. Pooled \cup {h} \subseteq Pooled'
    BY <2>1, <2>2 DEF Pooled
  <2>4. \A t \in Tasks : pc'[t] = "rollup" => pc[t] = "rollup"
    BY <2>2
  <2> QED BY <1>7, <2>3, <2>4 DEF HandOut, Cycled, Recorded, Dealt
<1>8. ASSUME NEW h \in Hosts, Create(h) PROVE Goal
  <2>1. <<"create", h>> \in Tasks /\ <<"create", h>>[1] # "pool"
    BY DEF Tasks, Internal
  <2> QED BY <1>1, <1>2, <1>8, <2>1 DEF Create, mass
<1>9. ASSUME NEW h \in Hosts, Delete(h) PROVE Goal
  BY <1>1, <1>3, <1>9 DEF Delete, Visit, mass
<1>10. CASE CheckAll
  <2>1. \A t \in Tasks : pc[t] # "rollup"
    BY <1>10 DEF CheckAll, Cycled, Guarded, Inspecting, Inside
  <2> QED BY <1>10, <2>1 DEF CheckAll, Recorded, Dealt
<1>11. CASE StartAll
  BY <1>11 DEF StartAll, Cycled, Recorded, Dealt
<1>12. CASE StartAllFails \/ EndAll
  BY <1>12 DEF StartAllFails, EndAll, Recorded, Dealt
<1>13. CASE Sweep \/ Configure \/ Tick \/ UNCHANGED vars
  BY <1>1, <1>3, <1>13 DEF Sweep, Configure, Tick, vars, mass
<1> QED
  BY <1>4, <1>5, <1>6, <1>7, <1>8, <1>9, <1>10, <1>11, <1>12, <1>13 DEF Next, Mass

\* A cycle that ends has dealt with every host of its list.
LEMMA VisitStep ==
    Slots /\ Cycled /\ [Next]_vars =>
        (cycle = "active" /\ cycle' = "none" => listed \subseteq visited \cup inFlight)
<1> SUFFICES ASSUME Slots, Cycled, [Next]_vars, cycle = "active", cycle' = "none"
             PROVE  listed \subseteq visited \cup inFlight
  OBVIOUS
<1>1. EndAll
  BY DEF Next, Mass, Inspect, vars, mass, Begin, Busy, LoadFails, Load, Record, Finish, Sweep,
         Dispatch, Ask, Check, CheckAll, StartAll, StartAllFails, HandOut, Create, Delete,
         Configure, Tick
<1>2. Pooled = {} /\ todo = {}
  BY <1>1, FS_EmptySet DEF EndAll, Slots
<1> QED BY <1>2 DEF Cycled, Dealt

\* However many hosts share however many slots, and whoever else inspects, creates and
\* deletes hosts meanwhile, a cycle of inspect-all leaves no listed host out
\* (server.go:991-1056): a refusal by the in-flight map is as good as an inspection.
THEOREM NobodyLeftOut == Spec => EachIsVisited
<1> DEFINE Inv == TypeOK /\ Slots /\ Rounds /\ Cycled
<1>1. Init => Inv
  <2>1. Init => Cycled
    BY DEF Init, Cycled, Guarded, Inspecting, Recorded, Dealt, Inside
  <2> QED BY <2>1, TypeInit
<1>2. Inv /\ [Next]_vars => Inv'
  BY TypeStep, GuardStep, CycleStep DEF Cycled
<1>3. Inv /\ [Next]_vars =>
        [cycle = "active" /\ cycle' = "none" => listed \subseteq visited \cup inFlight]_vars
  BY VisitStep
<1> QED BY <1>1, <1>2, <1>3, PTL DEF Spec, EachIsVisited
\* Every host in the map is being inspected.
Owned == \A h \in inFlight : \E t \in Tasks : Inspecting(t) /\ t[2] = h

\* No step leaves a host in the map that nobody inspects.
LEMMA OwnedStep == TypeOK /\ Rounds /\ Guarded /\ Owned /\ [Next]_vars => Owned'
<1> SUFFICES ASSUME TypeOK, Rounds, Guarded, Owned, [Next]_vars PROVE Owned'
  OBVIOUS
<1>1. ASSUME UNCHANGED inFlight, \A t \in Tasks : pc[t] \in Inside => pc'[t] \in Inside
      PROVE  Owned'
  <2> SUFFICES ASSUME NEW h \in inFlight
               PROVE  \E t \in Tasks : pc'[t] \in Inside /\ t[2] = h
    BY <1>1 DEF Owned, Inspecting
  <2>1. PICK t \in Tasks : pc[t] \in Inside /\ t[2] = h
    BY DEF Owned, Inspecting
  <2> QED BY <1>1, <2>1
<1>2. \A t \in Tasks, l \in Step :
        Goto(t, l) /\ pc[t] \notin Inside =>
            \A u \in Tasks : pc[u] \in Inside => pc'[u] \in Inside
  BY DEF Goto, TypeOK
<1>3. {"off", "check", "start"} \subseteq Step \ Inside
  BY DEF Step, Inside
<1>4. ASSUME NEW t \in Tasks, Inspect(t) PROVE Owned'
  <2>0. \A u \in Tasks \ {t} : pc'[u] = pc[u]
    BY <1>4, Moves
  <2>1. ASSUME pc'[t] \in Inside, inFlight' \subseteq inFlight \cup {t[2]} PROVE Owned'
    <3> SUFFICES ASSUME NEW h \in inFlight'
                 PROVE  \E u \in Tasks : pc'[u] \in Inside /\ u[2] = h
      BY DEF Owned, Inspecting
    <3>1. CASE h = t[2]
      BY <2>1, <3>1
    <3>2. CASE h # t[2]
      <4>1. PICK u \in Tasks : pc[u] \in Inside /\ u[2] = h
        BY <2>1, <3>2 DEF Owned, Inspecting
      <4> QED BY <2>0, <3>2, <4>1
    <3> QED BY <3>1, <3>2
  <2>2. ASSUME inFlight' = inFlight \ {t[2]} PROVE Owned'
    <3> SUFFICES ASSUME NEW h \in inFlight'
                 PROVE  \E u \in Tasks : pc'[u] \in Inside /\ u[2] = h
      BY DEF Owned, Inspecting
    <3>1. h \in inFlight /\ h # t[2]
      BY <2>2
    <3>2. PICK u \in Tasks : pc[u] \in Inside /\ u[2] = h
      BY <3>1 DEF Owned, Inspecting
    <3> QED BY <2>0, <3>1, <3>2
  <2>3. CASE Begin(t) /\ pc'[t] = "load"
    BY <2>1, <2>3 DEF Begin, Inside
  <2>4. CASE Busy(t) /\ pc'[t] = "off"
    BY <1>1, <2>0, <2>4 DEF Busy, Inside
  <2>5. CASE LoadFails(t) \/ Finish(t)
    BY <2>2, <2>5 DEF LoadFails, Finish
  <2>6. CASE (Load(t) /\ pc'[t] = "run") \/ (Record(t) /\ pc'[t] = "rollup")
    BY <2>1, <2>6 DEF Load, Record, Inside
  <2> QED BY <1>4, <2>3, <2>4, <2>5, <2>6, Moves
<1>5. ASSUME NEW h \in Hosts, Dispatch(h) PROVE Owned'
  <2>1. <<"worker", h>> \in Tasks
    BY DEF Tasks, Internal
  <2>2. CASE UNCHANGED pc
    BY <1>1, <1>5, <2>2 DEF Dispatch
  <2>3. CASE pc[<<"worker", h>>] = "off" /\ Goto(<<"worker", h>>, "start")
    BY <1>1, <1>2, <1>3, <1>5, <2>1, <2>3 DEF Dispatch
  <2> QED BY <1>5, <2>2, <2>3 DEF Dispatch
<1>6. ASSUME NEW c \in Clients, NEW h \in Hosts, Ask(c, h) \/ Check(c, h) PROVE Owned'
  <2>1. <<c, h>> \in Tasks
    BY DEF Tasks
  <2>2. pc[<<c, h>>] \notin Inside
    BY <1>3, <1>6 DEF Ask, Check
  <2> QED BY <1>1, <1>2, <1>3, <1>6, <2>1, <2>2 DEF Ask, Check
<1>7. ASSUME NEW h \in Hosts, HandOut(h) PROVE Owned'
  <2>1. <<"pool", h>> \in Tasks
    BY DEF Tasks, Internal
  <2>2. pc[<<"pool", h>>] \notin Inside
    BY <1>3, <1>7 DEF HandOut, Rounds, Pooled
  <2> QED BY <1>1, <1>2, <1>3, <1>7, <2>1, <2>2 DEF HandOut
<1>8. ASSUME NEW h \in Hosts, Create(h) PROVE Owned'
  <2>1. <<"create", h>> \in Tasks
    BY DEF Tasks, Internal
  <2>2. pc[<<"create", h>>] \notin Inside
    BY <1>3, <1>8 DEF Create
  <2> QED BY <1>1, <1>2, <1>3, <1>8, <2>1, <2>2 DEF Create
<1>9. CASE UNCHANGED <<pc, inFlight>>
  BY <1>1, <1>9
<1>10. (Sweep \/ CheckAll \/ StartAll \/ StartAllFails \/ EndAll \/ Configure \/ Tick
          \/ (\E h \in Hosts : Delete(h)) \/ UNCHANGED vars) => UNCHANGED <<pc, inFlight>>
  BY DEF Sweep, CheckAll, StartAll, StartAllFails, EndAll, Configure, Tick, Delete, vars
<1> QED BY <1>4, <1>5, <1>6, <1>7, <1>8, <1>9, <1>10 DEF Next, Mass

\* The map and the inspections agree, whoever asks and whatever fails or is deleted: a
\* host is in it while exactly one goroutine is inspecting it, so that no early return
\* leaves an entry behind that would refuse its inspections for ever (InspectHost).
THEOREM MapIsInspections ==
    Spec => [](\A h \in Hosts :
                 /\ h \in inFlight <=> \E t \in Tasks : Inspecting(t) /\ t[2] = h
                 /\ \A t, u \in Tasks :
                       Inspecting(t) /\ Inspecting(u) /\ t[2] = h /\ u[2] = h => t = u)
<1> DEFINE Agree ==
      \A h \in Hosts :
         /\ h \in inFlight <=> \E t \in Tasks : Inspecting(t) /\ t[2] = h
         /\ \A t, u \in Tasks :
               Inspecting(t) /\ Inspecting(u) /\ t[2] = h /\ u[2] = h => t = u
<1>1. Init => Guarded /\ Owned
  BY DEF Init, Guarded, Owned, Inspecting, Inside
<1>2. Guarded /\ Owned => Agree
  BY DEF Guarded, Owned
<1> QED BY <1>1, <1>2, TypeInit, TypeStep, GuardStep, OwnedStep, PTL DEF Spec

-----------------------------------------------------------------------------
(* A cycle ends, as far as that can be said without fairness.               *)

PoolAt(h) == pc[<<"pool", h>>]

\* A goroutine of the pool asks nobody whether it may inspect.
Unasked == \A h \in Hosts : PoolAt(h) # "check"

\* The cycle itself can take a step: one of inspect-all, or one of the inspection a
\* goroutine of the pool is in.
CycleGoing ==
    \/ cycle = "checked"
    \/ cycle = "active" /\ todo # {} /\ sem < PoolSize
    \/ cycle = "active" /\ todo = {} /\ sem = 0
    \/ \E h \in Hosts : PoolAt(h) \in {"start"} \cup Inside

CycleMoves == cycle # "none" => CycleGoing

\* What a step that is not the pool's does to a goroutine of the pool: nothing.
LEMMA PoolAlone ==
    ASSUME TypeOK, [Next]_vars, NEW h \in Hosts, pc'[<<"pool", h>>] # pc[<<"pool", h>>]
    PROVE  HandOut(h) \/ Inspect(<<"pool", h>>)
<1> DEFINE p == <<"pool", h>>
<1>0. p \in Tasks
  BY DEF Tasks, Internal
<1>1. \A t \in Tasks, l \in Step : Goto(t, l) => t = p
  BY <1>0 DEF Goto, TypeOK
<1>2. {"off", "check", "start"} \subseteq Step
  BY DEF Step
<1>3. ASSUME NEW t \in Tasks, Inspect(t) PROVE Inspect(p)
  BY <1>0, <1>3, Moves
<1>4. ASSUME NEW g \in Hosts, Dispatch(g) PROVE FALSE
  <2>1. <<"worker", g>> \in Tasks /\ <<"worker", g>> # p
    BY DEF Tasks, Internal
  <2> QED BY <1>1, <1>2, <1>4, <2>1 DEF Dispatch
<1>5. ASSUME NEW c \in Clients, NEW g \in Hosts, Ask(c, g) \/ Check(c, g) PROVE FALSE
  <2>1. <<c, g>> \in Tasks /\ <<c, g>> # p
    BY RequestsAssumption DEF Tasks, Internal
  <2> QED BY <1>1, <1>2, <1>5, <2>1 DEF Ask, Check
<1>6. ASSUME NEW g \in Hosts, HandOut(g) PROVE HandOut(h)
  <2>1. <<"pool", g>> \in Tasks
    BY DEF Tasks, Internal
  <2> QED BY <1>1, <1>2, <1>6, <2>1 DEF HandOut
<1>7. ASSUME NEW g \in Hosts, Create(g) PROVE FALSE
  <2>1. <<"create", g>> \in Tasks /\ <<"create", g>> # p
    BY DEF Tasks, Internal
  <2> QED BY <1>1, <1>2, <1>7, <2>1 DEF Create
<1>8. ~(Sweep \/ CheckAll \/ StartAll \/ StartAllFails \/ EndAll \/ Configure \/ Tick
          \/ (\E g \in Hosts : Delete(g)) \/ UNCHANGED vars)
  BY DEF Sweep, CheckAll, StartAll, StartAllFails, EndAll, Configure, Tick, Delete, vars
<1> QED BY <1>3, <1>4, <1>5, <1>6, <1>7, <1>8 DEF Next, Mass

\* No step makes a goroutine of the pool ask.
LEMMA UnaskedStep == TypeOK /\ Unasked /\ [Next]_vars => Unasked'
<1> SUFFICES ASSUME TypeOK, Unasked, [Next]_vars, NEW h \in Hosts
             PROVE  pc'[<<"pool", h>>] # "check"
  BY DEF Unasked, PoolAt
<1>0. <<"pool", h>> \in Tasks
  BY DEF Tasks, Internal
<1>1. CASE HandOut(h)
  BY <1>0, <1>1 DEF HandOut, Goto, TypeOK
<1>2. CASE Inspect(<<"pool", h>>)
  BY <1>0, <1>2, Moves
<1>3. CASE pc'[<<"pool", h>>] = pc[<<"pool", h>>]
  BY <1>3 DEF Unasked, PoolAt
<1> QED BY <1>1, <1>2, <1>3, PoolAlone

\* A cycle of inspect-all never waits for something nobody is going to do, however many
\* hosts share however few slots (server.go:1005-1056): while goroutines of the pool are
\* left one of them can go on, also when every slot is taken; when none is left, the
\* slots are free, and the next host can be handed out or the cycle can end.
THEOREM CycleGoesOn == Spec => []CycleMoves
<1> DEFINE Inv == TypeOK /\ Slots /\ Rounds /\ Unasked
<1>1. Init => Inv
  <2>1. Init => Unasked
    BY DEF Init, Unasked, PoolAt, Tasks, Internal
  <2> QED BY <2>1, TypeInit
<1>2. Inv /\ [Next]_vars => Inv'
  BY TypeStep, UnaskedStep
<1>3. Inv => CycleMoves
  <2> SUFFICES ASSUME Inv, cycle = "active" PROVE CycleGoing
    BY DEF CycleMoves, CycleGoing, TypeOK
  <2>1. CASE Pooled = {}
    <3>1. sem = 0
      BY <2>1, FS_EmptySet DEF Slots
    <3> QED BY <3>1, RequestsAssumption DEF CycleGoing
  <2>2. CASE Pooled # {}
    <3>1. PICK h \in Hosts : PoolAt(h) # "off"
      BY <2>2 DEF Pooled, PoolAt
    <3>2. <<"pool", h>> \in Tasks
      BY DEF Tasks, Internal
    <3>3. PoolAt(h) \in {"start"} \cup Inside
      BY <3>1, <3>2 DEF Unasked, PoolAt, TypeOK, Inside
    <3> QED BY <3>3 DEF CycleGoing
  <2> QED BY <2>1, <2>2
<1> QED BY <1>1, <1>2, <1>3, PTL DEF Spec

\* The steps a goroutine of the pool at a step has before it, that one included.
Ahead(step) ==
    CASE step = "start"  -> {"start"} \cup Inside
      [] step = "load"   -> Inside
      [] step = "run"    -> {"run", "rollup"}
      [] step = "rollup" -> {"rollup"}
      [] OTHER           -> {}

\* What a cycle still has to do: which steps for which hosts, handing out ("queue") as well.
Chores == Hosts \X ({"queue", "start"} \cup Inside)
Owed   == {x \in Chores : x[1] \in todo \/ x[2] \in Ahead(PoolAt(x[1]))}

\* A step of the cycle: the next host is handed out, or an inspection of the pool goes on.
CycleSteps == \E h \in Hosts : HandOut(h) \/ Inspect(<<"pool", h>>)

\* While a cycle goes on, nothing adds to what it has to do, and each of its own steps
\* takes something away from that.
ChoresRunOut ==
    cycle = "active" /\ cycle' = "active" =>
        /\ Owed' \subseteq Owed
        /\ CycleSteps => Owed' # Owed

\* A step of a goroutine leaves it less to do.
LEMMA LessAhead ==
    ASSUME TypeOK, NEW h \in Hosts, Inspect(<<"pool", h>>)
    PROVE  /\ Ahead(PoolAt(h)') \subseteq Ahead(PoolAt(h))
           /\ \E l \in {"start"} \cup Inside : l \in Ahead(PoolAt(h)) \ Ahead(PoolAt(h)')
<1> DEFINE p == <<"pool", h>>
<1>0. p \in Tasks
  BY DEF Tasks, Internal
<1>1. CASE Begin(p) /\ pc'[p] = "load"
  BY <1>1 DEF Begin, Ahead, PoolAt, Inside
<1>2. CASE Busy(p) /\ pc'[p] = "off"
  BY <1>2 DEF Busy, Ahead, PoolAt, Inside
<1>3. CASE LoadFails(p) /\ pc'[p] = "off"
  BY <1>3 DEF LoadFails, Ahead, PoolAt, Inside
<1>4. CASE Load(p) /\ pc'[p] = "run"
  BY <1>4 DEF Load, Ahead, PoolAt, Inside
<1>5. CASE Record(p) /\ pc'[p] = "rollup"
  BY <1>5 DEF Record, Ahead, PoolAt, Inside
<1>6. CASE Finish(p) /\ pc'[p] = "off"
  BY <1>6 DEF Finish, Ahead, PoolAt, Inside
<1> QED BY <1>0, <1>1, <1>2, <1>3, <1>4, <1>5, <1>6, Moves

\* What the steps of a cycle do to what it has to do.
LEMMA ChoresStep ==
    TypeOK /\ Rounds /\ [Next]_vars => ChoresRunOut
<1> SUFFICES ASSUME TypeOK, Rounds, [Next]_vars, cycle = "active", cycle' = "active"
             PROVE  Owed' \subseteq Owed /\ (CycleSteps => Owed' # Owed)
  BY DEF ChoresRunOut
<1>1. \A h \in Hosts : <<"pool", h>> \in Tasks
  BY DEF Tasks, Internal
<1>2. Owed' = {x \in Chores : x[1] \in todo' \/ x[2] \in Ahead(PoolAt(x[1])')}
  BY DEF Owed, Chores
<1>3. ASSUME NEW h \in Hosts, HandOut(h)
      PROVE  Owed' \subseteq Owed /\ Owed' # Owed
  <2>1. h \in todo /\ todo' = todo \ {h} /\ pc'[<<"pool", h>>] = "start"
    BY <1>1, <1>3 DEF HandOut, Goto, TypeOK
  <2>2. \A g \in Hosts \ {h} : PoolAt(g)' = PoolAt(g)
    BY <1>1, <1>3 DEF HandOut, Goto, TypeOK, PoolAt
  <2>3. <<h, "queue">> \in Owed
    BY <2>1 DEF Owed, Chores
  <2>4. "queue" \notin Ahead(PoolAt(h)')
    BY <2>1 DEF Ahead, PoolAt, Inside
  <2>5. <<h, "queue">> \notin Owed'
    BY <1>2, <2>1, <2>4
  <2>6. ASSUME NEW x \in Owed' PROVE x \in Owed
    <3>1. x \in Chores /\ x[1] \in Hosts
      BY <1>2 DEF Chores
    <3>2. CASE x[1] = h
      BY <2>1, <3>1, <3>2 DEF Owed
    <3>3. CASE x[1] # h
      BY <1>2, <2>1, <2>2, <3>1, <3>3 DEF Owed
    <3> QED BY <3>2, <3>3
  <2> QED BY <2>3, <2>5, <2>6
<1>4. ASSUME NEW h \in Hosts, Inspect(<<"pool", h>>)
      PROVE  Owed' \subseteq Owed /\ Owed' # Owed
  <2>1. UNCHANGED todo /\ h \in Pooled
    BY <1>1, <1>4, Moves DEF Inspect, Pooled, Begin, Busy, LoadFails, Load, Record, Finish
  <2>2. \A g \in Hosts \ {h} : PoolAt(g)' = PoolAt(g)
    BY <1>1, <1>4, Moves DEF PoolAt
  <2>3. Ahead(PoolAt(h)') \subseteq Ahead(PoolAt(h))
    BY <1>4, LessAhead
  <2>4. PICK l \in {"start"} \cup Inside : l \in Ahead(PoolAt(h)) \ Ahead(PoolAt(h)')
    BY <1>4, LessAhead
  <2>5. <<h, l>> \in Owed
    BY <2>4 DEF Owed, Chores
  <2>6. <<h, l>> \notin Owed'
    BY <1>2, <2>1, <2>4 DEF Rounds
  <2>7. ASSUME NEW x \in Owed' PROVE x \in Owed
    <3>1. x \in Chores /\ x[1] \in Hosts
      BY <1>2 DEF Chores
    <3>2. CASE x[1] = h
      BY <1>2, <2>1, <2>3, <3>1, <3>2 DEF Owed
    <3>3. CASE x[1] # h
      BY <1>2, <2>1, <2>2, <3>1, <3>3 DEF Owed
    <3> QED BY <3>2, <3>3
  <2> QED BY <2>5, <2>6, <2>7
<1>5. ASSUME ~CycleSteps PROVE Owed' \subseteq Owed
  <2>1. \A h \in Hosts : PoolAt(h)' = PoolAt(h)
    BY <1>5, PoolAlone DEF CycleSteps, PoolAt
  <2>2. \A t \in Tasks : Inspect(t) => UNCHANGED todo
    BY Moves
  <2>3. UNCHANGED todo
    BY <1>5, <2>2 DEF CycleSteps, Next, Mass, Sweep, Dispatch, Ask, Check, CheckAll, StartAll,
         StartAllFails, EndAll, Create, Delete, Configure, Tick, mass, vars
  <2>4. \A x \in Chores : x[1] \in Hosts
    BY DEF Chores
  <2> QED BY <1>2, <2>1, <2>3, <2>4 DEF Owed
<1> QED BY <1>3, <1>4, <1>5 DEF CycleSteps

\* A cycle of inspect-all takes a bounded number of steps, whoever else inspects, creates
\* and deletes hosts meanwhile (server.go:1034-1056): what it has to do is a subset of
\* five steps per host, nothing adds to it while the cycle goes on, and each step of the
\* cycle takes something away.  With CycleGoesOn this is why a cycle ends.
THEOREM CycleRunsOut == Spec => [][ChoresRunOut]_vars
<1>1. TypeOK /\ Slots /\ Rounds /\ [Next]_vars => TypeOK' /\ Slots' /\ Rounds'
  BY TypeStep
<1>2. TypeOK /\ Rounds /\ [Next]_vars => [ChoresRunOut]_vars
  BY ChoresStep
<1> QED BY <1>1, <1>2, TypeInit, PTL DEF Spec
=============================================================================
