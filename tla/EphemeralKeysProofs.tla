------------------------ MODULE EphemeralKeysProofs ------------------------
(***************************************************************************)
(* Proofs about EphemeralKeys.tla, for any keys, host rows and bounds.      *)
(***************************************************************************)
EXTENDS EphemeralKeys, TLAPS

Inj(k)  == <<k, "inject">>
Und(k)  == <<k, "undo">>
Tim(k)  == <<k, "timer">>
App(k)  == <<k, "append">>

\* The steps of an injection, and of a removal.
InjectSteps == {"sweep", "append", "injected", "served", "failed"}
RemoveSteps == {"clean", "removed", "missed"}

\* Whoever waits has the mutex, and its command has not ended.
Locks ==
    /\ \A t \in Tasks : pc[t] \in InjectSteps => Injects(t)
    /\ \A t \in Tasks : pc[t] \in RemoveSteps => ~Injects(t)
    /\ \A t \in Tasks : Waits(t) => mutex[Row(t)] = t /\ shell[Awaited(t)] # "off"
    /\ \A r \in Rows, t \in Tasks : mutex[r] = t => Row(t) = r /\ Waits(t)

\* What has happened to a key by the time its injection is at a step.
Stage(k) ==
    /\ pc[Inj(k)] \in {"off", "lock", "sweep", "append"} =>
          pc[Und(k)] = "off" /\ pc[Tim(k)] = "off"
    /\ pc[Inj(k)] = "injected" => pc[Und(k)] = "off"
    /\ due[k] > 0 => InjectedKey(k) /\ pc[Tim(k)] = "off" /\ due[k] >= TTL
    /\ pc[Tim(k)] # "off" => age[k] >= TTL
    /\ shell[Tim(k)] # "off" => pc[Tim(k)] # "off"
    /\ shell[Und(k)] # "off" => pc[Und(k)] # "off"
    /\ InjectedKey(k) => /\ shell[App(k)] = "off"
                         /\ due[k] > 0 \/ pc[Tim(k)] \in {"lock", "clean", "missed", "removed"}

\* A ticket stands for a key that was injected and is not being undone.
Kept(k) ==
    /\ ticket[k] = "kept" => pc[Inj(k)] = "served" /\ pc[Und(k)] = "off"
    /\ ticket[k] # "none" => pc[Inj(k)] \in {"served", "failed"}
    /\ ticket[k] # "gone" => handed[k] = 0

Stages == \A k \in Keys : Stage(k) /\ Kept(k)

\* A copy has the lines of the file, without those its filter drops; lines that changed
\* meanwhile are torn.
Copies ==
    \A s \in Shells : shell[s] = "read" =>
        /\ s[2] # "append"
        /\ s[2] # "sweep" => s[1] \notin copy[s]
        /\ \A l \in Lines \ torn :
              /\ l \in copy[s] => l \in file
              /\ l \in file /\ l \notin copy[s] => l \in Keys /\ Doomed(s, l)

\* A key whose timer has removed it stays away.
Removed ==
    \A k \in Keys \ torn : InjectedKey(k) /\ pc[Tim(k)] = "removed" => k \notin file

-----------------------------------------------------------------------------
(* Tasks and commands are pairs.                                            *)

LEMMA TaskIs ==
    /\ \A t \in Tasks : t = <<t[1], t[2]>> /\ t[1] \in Keys /\ t[2] \in {"inject", "undo", "timer"}
    /\ \A k \in Keys : Inj(k) \in Tasks /\ Und(k) \in Tasks /\ Tim(k) \in Tasks
    /\ \A t \in Tasks : t # None /\ Row(t) \in Rows
<1>1. \A t \in Tasks : t = <<t[1], t[2]>> /\ t[1] \in Keys /\ t[2] \in {"inject", "undo", "timer"}
  BY DEF Tasks
<1>2. \A k \in Keys : Inj(k) \in Tasks /\ Und(k) \in Tasks /\ Tim(k) \in Tasks
  BY DEF Tasks, Inj, Und, Tim
<1>3. \A t \in Tasks : t # None
  BY DEF Tasks, None
<1>4. \A t \in Tasks : Row(t) \in Rows
  BY <1>1, KeysAssumption DEF Row, Key
<1> QED BY <1>1, <1>2, <1>3, <1>4

LEMMA ShellIs ==
    /\ \A s \in Shells : s = <<s[1], s[2]>> /\ s[1] \in Keys /\ s[2] \in {"sweep", "append", "undo", "timer"}
    /\ \A k \in Keys : App(k) \in Shells /\ Und(k) \in Shells /\ Tim(k) \in Shells
    /\ \A k \in Keys : <<k, "sweep">> \in Shells
    /\ \A t \in Tasks : ~Injects(t) => t \in Shells
<1>1. \A s \in Shells : s = <<s[1], s[2]>> /\ s[1] \in Keys /\ s[2] \in {"sweep", "append", "undo", "timer"}
  BY DEF Shells
<1>2. \A k \in Keys : App(k) \in Shells /\ Und(k) \in Shells /\ Tim(k) \in Shells /\ <<k, "sweep">> \in Shells
  BY DEF Shells, App, Und, Tim
<1>3. \A t \in Tasks : ~Injects(t) => t \in Shells
  BY DEF Tasks, Shells, Injects
<1> QED BY <1>1, <1>2, <1>3

\* The clock of the host calls a key stale only after its life.
LEMMA Times == Old \in Nat /\ 0 < TTL /\ TTL < Old /\ Ages = 0..Old /\ 0 \in Ages /\ TTL \in Ages
BY KeysAssumption DEF Old, Ages

\* The command that a goroutine waits for is one of its own.
LEMMA AwaitedIs ==
    ASSUME TypeOK, Locks, NEW t \in Tasks, Waits(t)
    PROVE  /\ Awaited(t) \in Shells
           /\ Awaited(t)[1] = Key(t)
           /\ pc[t] = "clean" => Awaited(t) = t /\ ~Injects(t)
           /\ pc[t] # "clean" => Awaited(t) = <<Key(t), pc[t]>> /\ t = Inj(Key(t))
<1>1. CASE pc[t] = "clean"
  <2>1. ~Injects(t)
    BY <1>1 DEF Locks, RemoveSteps
  <2> QED BY <1>1, <2>1, ShellIs DEF Awaited, Key
<1>2. CASE pc[t] \in {"sweep", "append"}
  <2>1. Injects(t)
    BY <1>2 DEF Locks, InjectSteps
  <2>2. t = Inj(Key(t)) /\ Key(t) \in Keys
    BY <2>1, TaskIs DEF Injects, Inj, Key
  <2>3. Awaited(t) = <<Key(t), pc[t]>>
    BY <1>2 DEF Awaited
  <2>4. <<Key(t), pc[t]>> \in Shells /\ <<Key(t), pc[t]>>[1] = Key(t)
    BY <1>2, <2>2 DEF Shells
  <2> QED BY <1>2, <2>2, <2>3, <2>4
<1> QED BY <1>1, <1>2 DEF Waits

\* No two goroutines wait for the same command.
LEMMA OneAwaits ==
    ASSUME TypeOK, Locks, NEW t \in Tasks, NEW u \in Tasks, Waits(t), Waits(u),
           Awaited(t) = Awaited(u)
    PROVE  t = u
<1>1. CASE pc[t] = "clean" /\ pc[u] = "clean"
  BY <1>1, AwaitedIs
<1>2. CASE pc[t] # "clean" /\ pc[u] # "clean"
  BY <1>2, AwaitedIs
<1>3. CASE pc[t] = "clean" /\ pc[u] # "clean"
  <2>1. Awaited(t) = t /\ ~Injects(t) /\ Awaited(u) = <<Key(u), pc[u]>> /\ pc[u] \in {"sweep", "append"}
    BY <1>3, AwaitedIs DEF Waits
  <2>2. <<Key(u), pc[u]>>[2] = pc[u]
    OBVIOUS
  <2> QED BY <2>1, <2>2, TaskIs
<1>4. CASE pc[t] # "clean" /\ pc[u] = "clean"
  <2>1. Awaited(u) = u /\ ~Injects(u) /\ Awaited(t) = <<Key(t), pc[t]>> /\ pc[t] \in {"sweep", "append"}
    BY <1>4, AwaitedIs DEF Waits
  <2>2. <<Key(t), pc[t]>>[2] = pc[t]
    OBVIOUS
  <2> QED BY <2>1, <2>2, TaskIs
<1> QED BY <1>1, <1>2, <1>3, <1>4

-----------------------------------------------------------------------------
(* Types.                                                                   *)

\* A goroutine that goes on after its command keeps the types of what it changes.
LEMMA ResumeType ==
    ASSUME TypeOK, NEW t \in Tasks, NEW done \in BOOLEAN,
           NEW sh \in [Shells -> {"off", "started", "read"}], Resume(t, done, sh)
    PROVE  /\ shell' \in [Shells -> {"off", "started", "read"}]
           /\ mutex' \in [Rows -> Tasks \cup {None}]
           /\ pc' \in [Tasks -> Step]
           /\ due' \in [Keys -> Ages]
<1>0. /\ mutex \in [Rows -> Tasks \cup {None}] /\ pc \in [Tasks -> Step]
      /\ due \in [Keys -> Ages] /\ age \in [Keys -> Ages] /\ Key(t) \in Keys
  BY TaskIs DEF TypeOK, Key
<1>1. \A l \in Step : Goto(t, l) => pc' \in [Tasks -> Step]
  BY <1>0 DEF Goto
<1>2. Unlock(t) => mutex' \in [Rows -> Tasks \cup {None}]
  BY <1>0 DEF Unlock
<1>3. SetTimer(Key(t)) => due' \in [Keys -> Ages]
  <2>1. (IF age[Key(t)] < TTL THEN TTL ELSE Least(age[Key(t)] + TTL, Old)) \in Ages
    <3>1. age[Key(t)] \in 0..Old
      BY <1>0, Times
    <3> QED BY <3>1, Times DEF Least
  <2> QED BY <1>0, <2>1 DEF SetTimer
<1>4. CASE pc[t] = "sweep" /\ Goto(t, "append")
           /\ shell' = [sh EXCEPT ![<<Key(t), "append">>] = "started"] /\ UNCHANGED <<mutex, due>>
  BY <1>0, <1>1, <1>4 DEF Step
<1>5. CASE pc[t] = "append" /\ Appended(t, done) /\ shell' = sh
  BY <1>0, <1>1, <1>2, <1>3, <1>5 DEF Appended, Step
<1>6. CASE /\ pc[t] = "clean" /\ Goto(t, IF done THEN "removed" ELSE "missed")
           /\ Unlock(t) /\ shell' = sh /\ UNCHANGED due
  BY <1>0, <1>1, <1>2, <1>6 DEF Step
<1> QED BY <1>4, <1>5, <1>6 DEF Resume

\* So does a command that ends.
LEMMA EndType ==
    ASSUME TypeOK, NEW s \in Shells, NEW done \in BOOLEAN, End(s, done)
    PROVE  /\ shell' \in [Shells -> {"off", "started", "read"}]
           /\ mutex' \in [Rows -> Tasks \cup {None}]
           /\ pc' \in [Tasks -> Step]
           /\ due' \in [Keys -> Ages]
<1> DEFINE sh == [shell EXCEPT ![s] = "off"]
<1>1. sh \in [Shells -> {"off", "started", "read"}]
  BY DEF TypeOK
<1>2. CASE \E t \in Tasks : Resume(t, done, sh)
  <2> HIDE DEF sh
  <2> QED BY <1>1, <1>2, ResumeType
<1>3. CASE shell' = sh /\ UNCHANGED <<mutex, pc, due>>
  BY <1>1, <1>3 DEF TypeOK
<1> QED BY <1>2, <1>3 DEF End

\* Every step of Next keeps the types; that a script is delivered once is part of them.
LEMMA TypeStep == TypeOK /\ Stages /\ [Next]_vars => TypeOK'
<1> SUFFICES ASSUME TypeOK, Stages, [Next]_vars PROVE TypeOK'
  OBVIOUS
<1>0. /\ file \subseteq Lines /\ shell \in [Shells -> {"off", "started", "read"}]
      /\ copy \in [Shells -> SUBSET Lines] /\ mutex \in [Rows -> Tasks \cup {None}]
      /\ pc \in [Tasks -> Step] /\ age \in [Keys -> Ages] /\ due \in [Keys -> Ages]
      /\ ticket \in [Keys -> {"none", "kept", "gone"}] /\ handed \in [Keys -> 0..1]
      /\ wanted \subseteq Lines /\ torn \subseteq Lines /\ cuts \in 0..MaxCuts
  BY DEF TypeOK
<1>a. ASSUME NEW t \in Tasks, NEW l \in Step, Goto(t, l) PROVE pc' \in [Tasks -> Step]
  BY <1>0, <1>a DEF Goto
<1>b. ASSUME cuts < MaxCuts, cuts' = cuts + 1 PROVE cuts' \in 0..MaxCuts
  BY <1>0, <1>b, KeysAssumption
<1>c. \A ls \in SUBSET Lines : \A s : Change(ls, s) => torn' \subseteq Lines
  BY <1>0 DEF Change
<1>1. CASE UNCHANGED vars
  BY <1>0, <1>1 DEF vars, host, tickets, history, TypeOK
<1>2. ASSUME NEW k \in Keys, Generate(k) PROVE TypeOK'
  BY <1>0, <1>2, <1>a, TaskIs DEF Generate, TypeOK, host, tickets, history, Step, Inj
<1>3. ASSUME NEW k \in Keys, Fire(k) PROVE TypeOK'
  <2>1. due' \in [Keys -> Ages] /\ pc' \in [Tasks -> Step]
    BY <1>0, <1>3, <1>a, TaskIs, Times DEF Fire, Step, Tim
  <2> QED BY <1>0, <1>3, <2>1 DEF Fire, TypeOK, host, tickets, history
<1>4. ASSUME NEW k \in Keys, Serve(k) PROVE TypeOK'
  <2>1. pc' \in [Tasks -> Step] /\ ticket' \in [Keys -> {"none", "kept", "gone"}]
    BY <1>0, <1>4, <1>a, TaskIs
       DEF Serve, StoreTicket, LaunchReturns, LaunchFails, Step, Inj, tickets
  <2> QED BY <1>0, <1>4, <2>1
          DEF Serve, StoreTicket, LaunchReturns, LaunchFails, TypeOK, host, tickets, history
<1>5. ASSUME NEW k \in Keys, Redeem(k) PROVE TypeOK'
  <2>1. handed[k] = 0
    BY <1>5 DEF Redeem, Deliver, Stages, Kept
  <2>2. handed' \in [Keys -> 0..1] /\ ticket' \in [Keys -> {"none", "kept", "gone"}]
    BY <1>0, <1>5, <2>1 DEF Redeem, Deliver, Least
  <2> QED BY <1>0, <1>5, <2>2 DEF Redeem, Deliver, TypeOK, host, history
<1>6. ASSUME NEW t \in Tasks, Lock(t) \/ ConnectFails(t) PROVE TypeOK'
  <2>1. mutex' \in [Rows -> Tasks \cup {None}] /\ pc' \in [Tasks -> Step]
    BY <1>0, <1>6, <1>a DEF Lock, Begin, ConnectFails, Hold, Step
  <2>2. shell' \in [Shells -> {"off", "started", "read"}]
    BY <1>0, <1>6 DEF Lock, Begin, ConnectFails, host
  <2> QED BY <1>0, <1>6, <2>1, <2>2 DEF Lock, Begin, ConnectFails, TypeOK, host, tickets, history
<1>7. ASSUME NEW t \in Tasks, CutOff(t) PROVE TypeOK'
  <2>1. /\ shell' \in [Shells -> {"off", "started", "read"}]
        /\ mutex' \in [Rows -> Tasks \cup {None}]
        /\ pc' \in [Tasks -> Step]
        /\ due' \in [Keys -> Ages]
    BY <1>0, <1>7, ResumeType DEF CutOff
  <2> QED BY <1>0, <1>7, <1>b, <2>1 DEF CutOff, TypeOK, tickets
<1>8. ASSUME NEW s \in Shells, Command(s) PROVE TypeOK'
  <2>1. CASE Awk(s)
    <3>1. /\ copy' \in [Shells -> SUBSET Lines]
          /\ shell' \in [Shells -> {"off", "started", "read"}]
      BY <1>0, <2>1 DEF Awk
    <3> QED BY <1>0, <2>1, <3>1 DEF Awk, TypeOK, tickets, history
  <2>2. ASSUME \E done \in BOOLEAN : End(s, done)
        PROVE  /\ shell' \in [Shells -> {"off", "started", "read"}]
               /\ mutex' \in [Rows -> Tasks \cup {None}]
               /\ pc' \in [Tasks -> Step]
               /\ due' \in [Keys -> Ages]
    BY <2>2, EndType
  <2>3. CASE Mv(s)
    <3>1. copy[s] \subseteq Lines /\ copy' \in [Shells -> SUBSET Lines]
      BY <1>0, <2>3 DEF Mv
    <3>2. Dropped(s) \subseteq Lines
      BY DEF Dropped, Lines
    <3>3. wanted' \subseteq Lines /\ torn' \subseteq Lines
      BY <1>0, <1>c, <2>3, <3>2 DEF Mv
    <3> QED BY <1>0, <2>2, <2>3, <3>1, <3>3 DEF Mv, TypeOK, tickets
  <2>4. CASE Echo(s)
    <3>1. {s[1]} \subseteq Lines
      BY ShellIs DEF Lines
    <3>2. file' \subseteq Lines /\ wanted' \subseteq Lines /\ torn' \subseteq Lines
      BY <1>0, <1>c, <2>4, <3>1 DEF Echo
    <3> QED BY <1>0, <2>2, <2>4, <3>2 DEF Echo, TypeOK, tickets
  <2>5. CASE ShellFails(s)
    <3>1. copy' \in [Shells -> SUBSET Lines]
      BY <1>0, <2>5 DEF ShellFails
    <3> QED BY <1>0, <2>2, <2>5, <3>1 DEF ShellFails, TypeOK, tickets, history
  <2> QED BY <1>8, <2>1, <2>3, <2>4, <2>5 DEF Command
<1>9. ASSUME NEW l \in Own, Revoke(l) PROVE TypeOK'
  <2>1. {l} \subseteq Lines
    BY DEF Lines
  <2>2. file' \subseteq Lines /\ wanted' \subseteq Lines /\ torn' \subseteq Lines
    BY <1>0, <1>9, <1>c, <2>1 DEF Revoke
  <2> QED BY <1>0, <1>9, <2>2 DEF Revoke, TypeOK, tickets
<1>10. CASE Tick
  <2>1. age' \in [Keys -> Ages]
    <3>1. \A k \in Keys : age[k] \in 0..Old
      BY <1>0, Times
    <3>2. \A k \in Keys : Least(age[k] + 1, Old) \in 0..Old
      BY <3>1, Times DEF Least
    <3> QED BY <1>0, <1>10, <3>2, Times DEF Tick
  <2>2. ticket' \in [Keys -> {"none", "kept", "gone"}]
    BY <1>0, <1>10 DEF Tick
  <2> QED BY <1>0, <1>10, <2>1, <2>2 DEF Tick, TypeOK, host, history
<1>11. CASE Restart
  <2>1. pc' \in [Tasks -> Step] /\ mutex' \in [Rows -> Tasks \cup {None}]
    BY <1>0, <1>11 DEF Restart, Step
  <2>2. due' \in [Keys -> Ages] /\ ticket' \in [Keys -> {"none", "kept", "gone"}]
    BY <1>0, <1>11, Times DEF Restart
  <2> QED BY <1>0, <1>11, <1>b, <2>1, <2>2 DEF Restart, TypeOK, host
<1> QED BY <1>1, <1>2, <1>3, <1>4, <1>5, <1>6, <1>7, <1>8, <1>9, <1>10, <1>11
        DEF Next, Goroutine

-----------------------------------------------------------------------------
(* The mutexes.                                                             *)

\* As long as the same goroutines wait for the same commands nothing changes.
LEMMA LocksKept ==
    ASSUME Locks, UNCHANGED mutex,
           \A u \in Tasks : /\ Waits(u)' <=> Waits(u)
                            /\ Waits(u) => pc'[u] = pc[u] /\ shell'[Awaited(u)] # "off"
                            /\ pc'[u] \in InjectSteps => Injects(u)
                            /\ pc'[u] \in RemoveSteps => ~Injects(u)
    PROVE  Locks'
<1>1. \A u \in Tasks : Waits(u) => Awaited(u)' = Awaited(u)
  BY DEF Awaited
<1>2. \A u \in Tasks : Waits(u)' => mutex'[Row(u)] = u /\ shell'[Awaited(u)'] # "off"
  BY <1>1 DEF Locks
<1>3. \A r \in Rows, u \in Tasks : mutex'[r] = u => Row(u) = r /\ Waits(u)'
  BY DEF Locks
<1> QED BY <1>2, <1>3 DEF Locks

\* A goroutine goes on while the others wait for other commands.
LEMMA ResumeLocks ==
    ASSUME TypeOK, Locks, NEW t \in Tasks, Waits(t), NEW done \in BOOLEAN, NEW sh, NEW shells,
           sh \in [Shells -> shells],
           \A u \in Tasks \ {t} : Waits(u) => sh[Awaited(u)] # "off",
           Resume(t, done, sh)
    PROVE  Locks'
<1>0. pc \in [Tasks -> Step] /\ mutex \in [Rows -> Tasks \cup {None}] /\ Row(t) \in Rows
      /\ mutex[Row(t)] = t
  BY TaskIs DEF TypeOK, Locks
<1>1. CASE pc[t] = "sweep" /\ Goto(t, "append")
           /\ shell' = [sh EXCEPT ![<<Key(t), "append">>] = "started"] /\ UNCHANGED <<mutex, due>>
  <2>1. pc'[t] = "append" /\ \A u \in Tasks \ {t} : pc'[u] = pc[u]
    BY <1>0, <1>1 DEF Goto
  <2>2. Injects(t) /\ Awaited(t)' = <<Key(t), "append">> /\ Awaited(t)' \in Shells
    <3>1. Injects(t) /\ Key(t) \in Keys
      BY <1>1, TaskIs DEF Locks, InjectSteps, Key
    <3>2. Awaited(t)' = <<Key(t), "append">>
      BY <2>1 DEF Awaited
    <3> QED BY <3>1, <3>2 DEF Shells
  <2>3. shell'[Awaited(t)'] = "started"
    BY <1>1, <2>2
  <2>4. ASSUME NEW u \in Tasks \ {t}, Waits(u) PROVE shell'[Awaited(u)] # "off"
    BY <1>1, <2>4, AwaitedIs
  <2>5. \A u \in Tasks \ {t} : Awaited(u)' = Awaited(u) /\ (Waits(u)' <=> Waits(u))
    BY <2>1 DEF Awaited, Waits
  <2>6. \A u \in Tasks : Waits(u)' => mutex'[Row(u)] = u /\ shell'[Awaited(u)'] # "off"
    BY <1>0, <1>1, <2>3, <2>4, <2>5 DEF Locks
  <2>7. \A u \in Tasks : Waits(u)' <=> Waits(u)
    BY <2>1, <2>5 DEF Waits
  <2>8. \A r \in Rows, u \in Tasks : mutex'[r] = u => Row(u) = r /\ Waits(u)'
    BY <1>1, <2>7 DEF Locks
  <2>9. \A u \in Tasks : /\ pc'[u] \in InjectSteps => Injects(u)
                         /\ pc'[u] \in RemoveSteps => ~Injects(u)
    BY <2>1, <2>2 DEF Locks, InjectSteps, RemoveSteps
  <2> QED BY <2>6, <2>8, <2>9 DEF Locks
<1>2. CASE /\ pc[t] \in {"append", "clean"} /\ Unlock(t) /\ shell' = sh
           /\ \E l \in Step : /\ Goto(t, l)
                              /\ l \in IF pc[t] = "append" THEN {"injected", "failed"}
                                       ELSE {"removed", "missed"}
  <2>1. PICK l \in Step : /\ Goto(t, l)
                          /\ l \in IF pc[t] = "append" THEN {"injected", "failed"}
                                   ELSE {"removed", "missed"}
    BY <1>2
  <2>2. pc'[t] = l /\ \A u \in Tasks \ {t} : pc'[u] = pc[u]
    BY <1>0, <2>1 DEF Goto
  <2>3. mutex'[Row(t)] = None /\ \A r \in Rows \ {Row(t)} : mutex'[r] = mutex[r]
    BY <1>0, <1>2 DEF Unlock
  <2>4. ~Waits(t)'
    BY <1>2, <2>1, <2>2 DEF Waits
  <2>5. \A u \in Tasks \ {t} : Awaited(u)' = Awaited(u) /\ (Waits(u)' <=> Waits(u))
    BY <2>2 DEF Awaited, Waits
  <2>6. \A u \in Tasks \ {t} : Waits(u) => Row(u) # Row(t) /\ Row(u) \in Rows
    BY <1>0, TaskIs DEF Locks
  <2>7. \A u \in Tasks : Waits(u)' => mutex'[Row(u)] = u /\ shell'[Awaited(u)'] # "off"
    BY <1>2, <2>3, <2>4, <2>5, <2>6 DEF Locks
  <2>8. \A r \in Rows, u \in Tasks : mutex'[r] = u => Row(u) = r /\ Waits(u)'
    <3> SUFFICES ASSUME NEW r \in Rows, NEW u \in Tasks, mutex'[r] = u PROVE Row(u) = r /\ Waits(u)'
      OBVIOUS
    <3>1. r # Row(t) /\ mutex[r] = u
      BY <2>3, TaskIs
    <3>2. Row(u) = r /\ Waits(u)
      BY <3>1 DEF Locks
    <3> QED BY <2>5, <3>1, <3>2
  <2>9. \A u \in Tasks : /\ pc'[u] \in InjectSteps => Injects(u)
                         /\ pc'[u] \in RemoveSteps => ~Injects(u)
    <3>1. pc[t] = "append" => Injects(t)
      BY DEF Locks, InjectSteps
    <3>2. pc[t] = "clean" => ~Injects(t)
      BY DEF Locks, RemoveSteps
    <3> QED BY <1>2, <2>1, <2>2, <3>1, <3>2 DEF Locks, InjectSteps, RemoveSteps
  <2> QED BY <2>7, <2>8, <2>9 DEF Locks
<1> QED BY <1>1, <1>2 DEF Resume, Appended, Step

\* A command ends.
LEMMA EndLocks ==
    ASSUME TypeOK, Locks, NEW s \in Shells, NEW done \in BOOLEAN, End(s, done)
    PROVE  Locks'
<1> DEFINE sh == [shell EXCEPT ![s] = "off"]
<1>0. shell \in [Shells -> {"off", "started", "read"}]
  BY DEF TypeOK
<1>1. ASSUME NEW t \in Tasks, Waits(t), Awaited(t) = s, Resume(t, done, sh) PROVE Locks'
  <2>1. sh \in [Shells -> {"off", "started", "read"}]
    BY <1>0
  <2>2. \A x \in Shells \ {s} : sh[x] = shell[x]
    BY <1>0
  <2> HIDE DEF sh
  <2>3. ASSUME NEW u \in Tasks \ {t}, Waits(u) PROVE sh[Awaited(u)] # "off"
    <3>1. Awaited(u) # s
      BY <1>1, <2>3, OneAwaits
    <3>2. Awaited(u) \in Shells /\ shell[Awaited(u)] # "off"
      BY <2>3, AwaitedIs DEF Locks
    <3> QED BY <2>2, <3>1, <3>2
  <2> QED BY <1>1, <2>1, <2>3, ResumeLocks
<1>2. ASSUME \A t \in Tasks : ~(Waits(t) /\ Awaited(t) = s), shell' = sh,
             UNCHANGED <<mutex, pc, due>>
      PROVE  Locks'
  <2>1. ASSUME NEW u \in Tasks, Waits(u) PROVE shell'[Awaited(u)] # "off"
    <3>1. Awaited(u) \in Shells /\ shell[Awaited(u)] # "off" /\ Awaited(u) # s
      BY <1>2, <2>1, AwaitedIs DEF Locks
    <3> QED BY <1>0, <1>2, <3>1
  <2>2. \A u \in Tasks : Waits(u)' <=> Waits(u)
    BY <1>2 DEF Waits
  <2>3. \A u \in Tasks : /\ pc'[u] \in InjectSteps => Injects(u)
                         /\ pc'[u] \in RemoveSteps => ~Injects(u)
    BY <1>2 DEF Locks
  <2> QED BY <1>2, <2>1, <2>2, <2>3, LocksKept
<1> QED BY <1>1, <1>2 DEF End

\* Every step of Next keeps the mutexes in order.
LEMMA LockStep == TypeOK /\ Locks /\ Stages /\ [Next]_vars => Locks'
<1> SUFFICES ASSUME TypeOK, Locks, Stages, [Next]_vars PROVE Locks'
  OBVIOUS
<1>0. /\ shell \in [Shells -> {"off", "started", "read"}] /\ pc \in [Tasks -> Step]
      /\ mutex \in [Rows -> Tasks \cup {None}]
  BY DEF TypeOK
<1>a. ASSUME UNCHANGED <<mutex, pc, shell>> PROVE Locks'
  BY <1>a DEF Locks, Waits, Awaited
<1>b. ASSUME NEW t \in Tasks, ~Waits(t), NEW l \in Step \ {"sweep", "append", "clean"},
             l \in InjectSteps => Injects(t), l \in RemoveSteps => ~Injects(t),
             Goto(t, l), UNCHANGED <<mutex, shell>>
      PROVE  Locks'
  <2>1. pc'[t] = l /\ \A u \in Tasks \ {t} : pc'[u] = pc[u]
    BY <1>0, <1>b DEF Goto
  <2>2. \A u \in Tasks : Waits(u)' <=> Waits(u)
    BY <1>b, <2>1 DEF Waits
  <2>3. \A u \in Tasks : Waits(u) => pc'[u] = pc[u] /\ shell'[Awaited(u)] # "off"
    BY <1>b, <2>1 DEF Locks
  <2>4. \A u \in Tasks : /\ pc'[u] \in InjectSteps => Injects(u)
                         /\ pc'[u] \in RemoveSteps => ~Injects(u)
    BY <1>b, <2>1 DEF Locks
  <2> QED BY <1>b, <2>2, <2>3, <2>4, LocksKept
<1>1. CASE UNCHANGED vars
  BY <1>1, <1>a DEF vars, host
<1>2. ASSUME NEW k \in Keys, Generate(k) PROVE Locks'
  BY <1>2, <1>b, TaskIs DEF Generate, host, Step, Inj, Waits, InjectSteps, RemoveSteps
<1>3. ASSUME NEW k \in Keys, Fire(k) PROVE Locks'
  <2>1. pc[Tim(k)] = "off" /\ Tim(k) \in Tasks
    BY <1>3, TaskIs, Times DEF Fire, Stages, Stage, TypeOK
  <2> QED BY <1>3, <1>b, <2>1 DEF Fire, host, Step, Tim, Waits, InjectSteps, RemoveSteps
<1>4. ASSUME NEW k \in Keys, Serve(k) PROVE Locks'
  <2>1. Inj(k) \in Tasks /\ Injects(Inj(k)) /\ pc[Inj(k)] = "injected"
        /\ Und(k) \in Tasks /\ pc[Und(k)] = "off" /\ Und(k) # Inj(k)
    BY <1>4, TaskIs DEF Serve, StoreTicket, LaunchReturns, LaunchFails, Inj, Und, Injects,
                        Stages, Stage
  <2>2. CASE StoreTicket(k) \/ LaunchReturns(k)
    BY <1>b, <2>1, <2>2
       DEF StoreTicket, LaunchReturns, Inj, Step, Waits, InjectSteps, RemoveSteps, host
  <2>3. CASE LaunchFails(k)
    <3>1. /\ pc'[Inj(k)] = "served" /\ pc'[Und(k)] = "lock" /\ UNCHANGED <<mutex, shell>>
          /\ \A u \in Tasks \ {Inj(k), Und(k)} : pc'[u] = pc[u]
      BY <1>0, <2>1, <2>3 DEF LaunchFails, Inj, Und, host
    <3>2. \A u \in Tasks : Waits(u)' <=> Waits(u)
      BY <2>1, <3>1 DEF Waits
    <3>3. \A u \in Tasks : Waits(u) => pc'[u] = pc[u] /\ shell'[Awaited(u)] # "off"
      BY <2>1, <3>1 DEF Locks, Waits
    <3>4. \A u \in Tasks : /\ pc'[u] \in InjectSteps => Injects(u)
                           /\ pc'[u] \in RemoveSteps => ~Injects(u)
      BY <2>1, <3>1 DEF Locks, InjectSteps, RemoveSteps
    <3> QED BY <3>1, <3>2, <3>3, <3>4, LocksKept
  <2> QED BY <1>4, <2>2, <2>3 DEF Serve
<1>5. ASSUME NEW k \in Keys, Redeem(k) PROVE Locks'
  BY <1>5, <1>a DEF Redeem, Deliver, host
<1>6. ASSUME NEW t \in Tasks, Lock(t) PROVE Locks'
  <2> DEFINE l == IF Injects(t) THEN "sweep" ELSE "clean"
             s == IF Injects(t) THEN <<Key(t), "sweep">> ELSE t
  <2>1. /\ pc[t] = "lock" /\ mutex[Row(t)] = None /\ Row(t) \in Rows
        /\ pc'[t] = l /\ \A u \in Tasks \ {t} : pc'[u] = pc[u]
    BY <1>0, <1>6, TaskIs DEF Lock, Begin, Goto
  <2>2. /\ mutex'[Row(t)] = t /\ \A r \in Rows \ {Row(t)} : mutex'[r] = mutex[r]
        /\ shell' = [shell EXCEPT ![s] = "started"]
    BY <1>0, <1>6, <2>1 DEF Lock, Begin, Hold
  <2>3. s \in Shells /\ Awaited(t)' = s
    <3>1. CASE Injects(t)
      <4>1. Key(t) \in Keys
        BY TaskIs DEF Key
      <4> QED BY <2>1, <3>1, <4>1, ShellIs DEF Awaited
    <3>2. CASE ~Injects(t)
      BY <2>1, <3>2, ShellIs DEF Awaited
    <3> QED BY <3>1, <3>2
  <2>4. \A u \in Tasks \ {t} : Awaited(u)' = Awaited(u) /\ (Waits(u)' <=> Waits(u))
    BY <2>1 DEF Awaited, Waits
  <2>5. \A u \in Tasks \ {t} : Waits(u) =>
           /\ Row(u) # Row(t) /\ Row(u) \in Rows /\ mutex[Row(u)] = u
           /\ Awaited(u) \in Shells /\ shell[Awaited(u)] # "off"
    BY <2>1, TaskIs, AwaitedIs DEF Locks
  <2>6. Waits(t)' /\ (l \in InjectSteps => Injects(t)) /\ (l \in RemoveSteps => ~Injects(t))
    BY <2>1 DEF Waits, InjectSteps, RemoveSteps
  <2>7. shell'[s] = "started" /\ \A x \in Shells : shell[x] # "off" => shell'[x] # "off"
    <3> HIDE DEF s
    <3> QED BY <1>0, <2>2, <2>3
  <2> HIDE DEF s, l
  <2>8. \A u \in Tasks : Waits(u)' => mutex'[Row(u)] = u /\ shell'[Awaited(u)'] # "off"
    BY <2>2, <2>3, <2>4, <2>5, <2>7
  <2>9. \A r \in Rows, u \in Tasks : mutex'[r] = u => Row(u) = r /\ Waits(u)'
    <3> SUFFICES ASSUME NEW r \in Rows, NEW u \in Tasks, mutex'[r] = u PROVE Row(u) = r /\ Waits(u)'
      OBVIOUS
    <3>1. CASE r = Row(t)
      BY <2>2, <2>6, <3>1
    <3>2. CASE r # Row(t)
      <4>1. mutex[r] = u
        BY <2>2, <3>2
      <4>2. Row(u) = r /\ Waits(u)
        BY <4>1 DEF Locks
      <4> QED BY <2>4, <3>2, <4>2
    <3> QED BY <3>1, <3>2
  <2>10. \A u \in Tasks : /\ pc'[u] \in InjectSteps => Injects(u)
                          /\ pc'[u] \in RemoveSteps => ~Injects(u)
    BY <2>1, <2>6 DEF Locks
  <2> QED BY <2>8, <2>9, <2>10 DEF Locks
<1>7. ASSUME NEW t \in Tasks, ConnectFails(t) PROVE Locks'
  BY <1>7, <1>b DEF ConnectFails, host, Step, Waits, InjectSteps, RemoveSteps
<1>8. ASSUME NEW t \in Tasks, CutOff(t) PROVE Locks'
  <2>1. Waits(t) /\ Resume(t, FALSE, shell) /\ FALSE \in BOOLEAN
    BY <1>8 DEF CutOff
  <2>2. \A u \in Tasks \ {t} : Waits(u) => shell[Awaited(u)] # "off"
    BY DEF Locks
  <2> QED BY <1>0, <2>1, <2>2, ResumeLocks
<1>9. ASSUME NEW s \in Shells, Command(s) PROVE Locks'
  <2>1. CASE Awk(s)
    <3>1. UNCHANGED <<mutex, pc>> /\ shell' = [shell EXCEPT ![s] = "read"]
      BY <2>1 DEF Awk
    <3>2. \A x \in Shells : shell[x] # "off" => shell'[x] # "off"
      BY <1>0, <3>1
    <3>3. \A u \in Tasks : Waits(u) => Awaited(u) \in Shells /\ shell[Awaited(u)] # "off"
      BY AwaitedIs DEF Locks
    <3>4. \A u \in Tasks : /\ pc'[u] \in InjectSteps => Injects(u)
                           /\ pc'[u] \in RemoveSteps => ~Injects(u)
      BY <3>1 DEF Locks
    <3>5. \A u \in Tasks : Waits(u)' <=> Waits(u)
      BY <3>1 DEF Waits
    <3> QED BY <3>1, <3>2, <3>3, <3>4, <3>5, LocksKept
  <2>2. CASE Mv(s) \/ Echo(s) \/ ShellFails(s)
    BY <2>2, EndLocks DEF Mv, Echo, ShellFails
  <2> QED BY <1>9, <2>1, <2>2 DEF Command
<1>10. ASSUME NEW l \in Own, Revoke(l) PROVE Locks'
  BY <1>10, <1>a DEF Revoke
<1>11. CASE Tick
  BY <1>11, <1>a DEF Tick, host
<1>12. CASE Restart
  <2>1. ASSUME NEW u \in Tasks
        PROVE  pc'[u] = IF pc[u] \in {"off", "removed"} THEN pc[u]
                        ELSE IF Injects(u) THEN "failed" ELSE "missed"
    BY <1>12 DEF Restart
  <2>2. \A u \in Tasks : ~Waits(u)'
    BY <2>1 DEF Waits
  <2>3. \A u \in Tasks : /\ pc'[u] \in InjectSteps => Injects(u)
                         /\ pc'[u] \in RemoveSteps => ~Injects(u)
    BY <2>1 DEF Locks, InjectSteps, RemoveSteps
  <2>4. \A r \in Rows : mutex'[r] = None
    BY <1>12 DEF Restart
  <2> QED BY <2>2, <2>3, <2>4, TaskIs DEF Locks
<1> QED BY <1>1, <1>2, <1>3, <1>4, <1>5, <1>6, <1>7, <1>8, <1>9, <1>10, <1>11, <1>12
        DEF Next, Goroutine

-----------------------------------------------------------------------------
(* The stages of a key.                                                     *)

\* What the stages of key k look at besides its ticket is left alone.
Quiet(k) ==
    /\ pc'[Inj(k)] = pc[Inj(k)] /\ pc'[Und(k)] = pc[Und(k)] /\ pc'[Tim(k)] = pc[Tim(k)]
    /\ due'[k] = due[k]
    /\ shell'[App(k)] # "off" => shell[App(k)] # "off"
    /\ shell'[Und(k)] # "off" => shell[Und(k)] # "off"
    /\ shell'[Tim(k)] # "off" => shell[Tim(k)] # "off"

LEMMA StageFrame ==
    ASSUME TypeOK, NEW k \in Keys, Stage(k), Quiet(k), age'[k] \in Nat, age'[k] >= age[k]
    PROVE  Stage(k)'
<1>1. age[k] \in Nat /\ TTL \in Nat
  BY Times DEF TypeOK
<1>2. InjectedKey(k)' <=> InjectedKey(k)
  BY DEF InjectedKey, Inj, Quiet
<1>3. (pc[Tim(k)] # "off" => age[k] >= TTL) => (pc'[Tim(k)] # "off" => age'[k] >= TTL)
  BY <1>1 DEF Quiet
<1> QED BY <1>2, <1>3 DEF Stage, Quiet

LEMMA KeptFrame ==
    ASSUME NEW k \in Keys, Kept(k), Quiet(k), ticket'[k] = ticket[k], handed'[k] = handed[k]
    PROVE  Kept(k)'
BY DEF Kept, Quiet

\* The goroutines and commands of different keys are different.
LEMMA KeyOf ==
    /\ \A k \in Keys : \A t : t \in {Inj(k), Und(k), Tim(k), App(k)} => t[1] = k
    /\ \A k \in Keys : /\ Inj(k) # Und(k) /\ Inj(k) # Tim(k) /\ Und(k) # Tim(k)
                       /\ App(k) # Und(k) /\ App(k) # Tim(k)
    /\ \A t \in Tasks : Injects(t) => t = Inj(Key(t)) /\ Key(t) \in Keys
    /\ \A t \in Tasks : ~Injects(t) => t \in {Und(Key(t)), Tim(Key(t))} /\ Key(t) \in Keys
<1>1. \A k \in Keys : \A t : t \in {Inj(k), Und(k), Tim(k), App(k)} => t[1] = k
  BY DEF Inj, Und, Tim, App
<1>2. \A k \in Keys : /\ Inj(k) # Und(k) /\ Inj(k) # Tim(k) /\ Und(k) # Tim(k)
                      /\ App(k) # Und(k) /\ App(k) # Tim(k)
  BY DEF Inj, Und, Tim, App
<1>3. \A t \in Tasks : Injects(t) => t = Inj(Key(t)) /\ Key(t) \in Keys
  BY TaskIs DEF Injects, Inj, Key
<1>4. \A t \in Tasks : ~Injects(t) => t \in {Und(Key(t)), Tim(Key(t))} /\ Key(t) \in Keys
  BY TaskIs DEF Injects, Und, Tim, Key
<1> QED BY <1>1, <1>2, <1>3, <1>4

\* A goroutine that goes on takes its key from one stage to the next.
LEMMA ResumeStage ==
    ASSUME TypeOK, Locks, NEW t \in Tasks, Waits(t), NEW done \in BOOLEAN,
           NEW sh \in [Shells -> {"off", "started", "read"}],
           \A x \in Shells : sh[x] # "off" => shell[x] # "off",
           done => sh[Awaited(t)] = "off",
           Resume(t, done, sh), UNCHANGED <<age, tickets>>,
           NEW k \in Keys, Stage(k), Kept(k)
    PROVE  Stage(k)' /\ Kept(k)'
<1>0. /\ pc \in [Tasks -> Step] /\ due \in [Keys -> Ages] /\ age \in [Keys -> Ages]
      /\ Inj(k) \in Tasks /\ Und(k) \in Tasks /\ Tim(k) \in Tasks /\ Key(t) \in Keys
      /\ App(k) \in Shells /\ Und(k) \in Shells /\ Tim(k) \in Shells
  BY TaskIs, ShellIs DEF TypeOK, Key
<1>1. age[k] \in Nat /\ age'[k] = age[k] /\ ticket'[k] = ticket[k] /\ handed'[k] = handed[k]
  BY <1>0, Times DEF tickets
<1>a. ASSUME NEW l, Goto(t, l)
      PROVE  /\ pc'[t] = l /\ \A u \in Tasks \ {t} : pc'[u] = pc[u]
             /\ Key(t) # k => /\ pc'[Inj(k)] = pc[Inj(k)] /\ pc'[Und(k)] = pc[Und(k)]
                              /\ pc'[Tim(k)] = pc[Tim(k)]
  BY <1>0, <1>a, KeyOf DEF Goto, Key
<1>2. CASE pc[t] = "sweep" /\ Goto(t, "append")
           /\ shell' = [sh EXCEPT ![<<Key(t), "append">>] = "started"] /\ UNCHANGED <<mutex, due>>
  <2>1. t = Inj(Key(t))
    BY <1>2, KeyOf DEF Locks, InjectSteps
  <2>2. \A x \in Shells : x # App(Key(t)) => shell'[x] = sh[x]
    BY <1>2 DEF App
  <2>3. shell'[Und(k)] = sh[Und(k)] /\ shell'[Tim(k)] = sh[Tim(k)]
    BY <1>0, <2>2, KeyOf DEF App, Und, Tim
  <2>4. CASE Key(t) # k
    <3>1. shell'[App(k)] = sh[App(k)]
      BY <1>0, <2>2, <2>4 DEF App
    <3>2. Quiet(k)
      BY <1>0, <1>2, <1>a, <2>3, <2>4, <3>1 DEF Quiet
    <3> QED BY <1>1, <3>2, StageFrame, KeptFrame
  <2>5. CASE Key(t) = k
    <3>1. /\ pc[Inj(k)] = "sweep" /\ pc'[Inj(k)] = "append"
          /\ pc'[Und(k)] = pc[Und(k)] /\ pc'[Tim(k)] = pc[Tim(k)] /\ due'[k] = due[k]
      BY <1>0, <1>2, <1>a, <2>1, <2>5, KeyOf
    <3>2. ~InjectedKey(k) /\ ~InjectedKey(k)'
      BY <3>1 DEF InjectedKey, Inj
    <3>3. /\ shell'[Und(k)] # "off" => shell[Und(k)] # "off"
          /\ shell'[Tim(k)] # "off" => shell[Tim(k)] # "off"
      BY <1>0, <2>3
    <3>4. Stage(k)'
      BY <1>1, <3>1, <3>2, <3>3 DEF Stage
    <3> QED BY <1>1, <3>1, <3>4 DEF Kept
  <2> QED BY <2>4, <2>5
<1>3. CASE pc[t] = "append" /\ Appended(t, done) /\ shell' = sh
  <2>1. t = Inj(Key(t)) /\ Awaited(t) = App(Key(t))
    BY <1>3, KeyOf DEF Locks, InjectSteps, Awaited, App
  <2>2. CASE Key(t) # k
    <3>1. due'[k] = due[k]
      BY <1>0, <1>3, <2>2 DEF Appended, SetTimer
    <3>2. Quiet(k)
      BY <1>0, <1>3, <1>a, <2>2, <3>1 DEF Quiet, Appended
    <3> QED BY <1>1, <3>2, StageFrame, KeptFrame
  <2>3. CASE Key(t) = k
    <3>1. /\ pc[Inj(k)] = "append" /\ pc'[Inj(k)] = (IF done THEN "injected" ELSE "failed")
          /\ pc'[Und(k)] = pc[Und(k)] /\ pc'[Tim(k)] = pc[Tim(k)]
      BY <1>0, <1>3, <1>a, <2>1, <2>3, KeyOf DEF Appended
    <3>2. pc[Und(k)] = "off" /\ pc[Tim(k)] = "off" /\ shell[Und(k)] = "off" /\ shell[Tim(k)] = "off"
          /\ ticket[k] = "none" /\ handed[k] = 0 /\ ~InjectedKey(k) /\ ~(due[k] > 0)
      BY <3>1 DEF Stage, Kept, TypeOK, InjectedKey, Inj
    <3>3. shell'[Und(k)] = "off" /\ shell'[Tim(k)] = "off"
      BY <1>0, <1>3, <3>2
    <3>4. done => shell'[App(k)] = "off" /\ due'[k] >= TTL /\ due'[k] > 0
      <4>1. done => due'[k] = IF age[k] < TTL THEN TTL ELSE Least(age[k] + TTL, Old)
        BY <1>0, <1>3, <2>3 DEF Appended, SetTimer
      <4>2. done => due'[k] >= TTL /\ due'[k] > 0
        BY <1>1, <4>1, Times DEF Least
      <4> QED BY <1>3, <2>1, <2>3, <4>2
    <3>5. ~done => ~(due'[k] > 0)
      BY <1>3, <3>2 DEF Appended
    <3>6. InjectedKey(k)' <=> done
      BY <3>1 DEF InjectedKey, Inj
    <3>7. Stage(k)'
      BY <3>1, <3>2, <3>3, <3>4, <3>5, <3>6 DEF Stage
    <3> QED BY <1>1, <3>2, <3>7 DEF Kept
  <2> QED BY <2>2, <2>3
<1>4. CASE /\ pc[t] = "clean" /\ Goto(t, IF done THEN "removed" ELSE "missed")
           /\ Unlock(t) /\ shell' = sh /\ UNCHANGED due
  <2>1. t \in {Und(Key(t)), Tim(Key(t))}
    BY <1>4, KeyOf DEF Locks, RemoveSteps
  <2>2. CASE Key(t) # k
    <3>1. Quiet(k)
      BY <1>0, <1>4, <1>a, <2>2 DEF Quiet
    <3> QED BY <1>1, <3>1, StageFrame, KeptFrame
  <2>3. CASE Key(t) = k
    <3>1. /\ pc'[Inj(k)] = pc[Inj(k)] /\ due'[k] = due[k]
          /\ InjectedKey(k)' <=> InjectedKey(k)
      BY <1>0, <1>4, <1>a, <2>1, <2>3, KeyOf DEF InjectedKey, Inj
    <3>2. /\ shell'[Und(k)] # "off" => shell[Und(k)] # "off"
          /\ shell'[Tim(k)] # "off" => shell[Tim(k)] # "off"
          /\ shell'[App(k)] # "off" => shell[App(k)] # "off"
      BY <1>0, <1>4
    <3>3. CASE t = Und(k)
      <4>1. /\ pc[Und(k)] = "clean" /\ pc'[Und(k)] \in {"removed", "missed"}
            /\ pc'[Tim(k)] = pc[Tim(k)]
        BY <1>0, <1>4, <1>a, <3>3, KeyOf
      <4>2. Stage(k)'
        BY <1>1, <3>1, <3>2, <4>1 DEF Stage
      <4> QED BY <1>1, <3>1, <4>1, <4>2 DEF Kept
    <3>4. CASE t = Tim(k)
      <4>1. /\ pc[Tim(k)] = "clean" /\ pc'[Tim(k)] \in {"removed", "missed"}
            /\ pc'[Und(k)] = pc[Und(k)]
        BY <1>0, <1>4, <1>a, <3>4, KeyOf
      <4>2. Stage(k)'
        BY <1>1, <3>1, <3>2, <4>1 DEF Stage
      <4> QED BY <1>1, <3>1, <4>1, <4>2 DEF Kept
    <3> QED BY <2>1, <2>3, <3>3, <3>4
  <2> QED BY <2>2, <2>3
<1> QED BY <1>2, <1>3, <1>4 DEF Resume

\* So does a command that ends.
LEMMA EndStage ==
    ASSUME TypeOK, Locks, NEW s \in Shells, NEW done \in BOOLEAN, End(s, done),
           UNCHANGED <<age, tickets>>,
           NEW k \in Keys, Stage(k), Kept(k)
    PROVE  Stage(k)' /\ Kept(k)'
<1> DEFINE sh == [shell EXCEPT ![s] = "off"]
<1>1. /\ sh \in [Shells -> {"off", "started", "read"}] /\ sh[s] = "off"
      /\ \A x \in Shells : sh[x] # "off" => shell[x] # "off"
  BY DEF TypeOK
<1> HIDE DEF sh
<1>2. CASE \E t \in Tasks : Waits(t) /\ Awaited(t) = s /\ Resume(t, done, sh)
  BY <1>1, <1>2, ResumeStage
<1>3. CASE shell' = sh /\ UNCHANGED <<mutex, pc, due>>
  <2>1. Quiet(k)
    BY <1>1, <1>3, ShellIs DEF Quiet
  <2>2. age'[k] \in Nat /\ age'[k] >= age[k]
    BY Times DEF TypeOK
  <2> QED BY <2>1, <2>2, StageFrame, KeptFrame DEF tickets
<1> QED BY <1>2, <1>3 DEF End, sh

\* Every step of Next takes every key from one stage to the next.
LEMMA StageStep == TypeOK /\ Locks /\ Stages /\ [Next]_vars => Stages'
<1> SUFFICES ASSUME TypeOK, Locks, [Next]_vars, NEW k \in Keys, Stage(k), Kept(k)
             PROVE  Stage(k)' /\ Kept(k)'
  BY DEF Stages
<1>0. /\ pc \in [Tasks -> Step] /\ due \in [Keys -> Ages] /\ age \in [Keys -> Ages]
      /\ shell \in [Shells -> {"off", "started", "read"}]
      /\ ticket \in [Keys -> {"none", "kept", "gone"}] /\ handed \in [Keys -> 0..1]
      /\ Inj(k) \in Tasks /\ Und(k) \in Tasks /\ Tim(k) \in Tasks
      /\ App(k) \in Shells /\ Und(k) \in Shells /\ Tim(k) \in Shells
  BY TaskIs, ShellIs DEF TypeOK
<1>1. age[k] \in Nat /\ age[k] <= Old
  BY <1>0, Times
<1>a. ASSUME Quiet(k), ticket'[k] = ticket[k], handed'[k] = handed[k], age'[k] = age[k]
      PROVE  Stage(k)' /\ Kept(k)'
  BY <1>1, <1>a, StageFrame, KeptFrame
<1>b. ASSUME UNCHANGED <<shell, pc, age, due, ticket, handed>> PROVE Stage(k)' /\ Kept(k)'
  BY <1>a, <1>b DEF Quiet
<1>c. ASSUME NEW t \in Tasks, NEW l, Goto(t, l)
      PROVE  /\ pc'[t] = l /\ \A u \in Tasks \ {t} : pc'[u] = pc[u]
             /\ Key(t) # k => /\ pc'[Inj(k)] = pc[Inj(k)] /\ pc'[Und(k)] = pc[Und(k)]
                              /\ pc'[Tim(k)] = pc[Tim(k)]
  BY <1>0, <1>c, KeyOf DEF Goto, Key
<1>d. \A j \in Keys : Key(Inj(j)) = j /\ Key(Und(j)) = j /\ Key(Tim(j)) = j
  BY KeyOf DEF Key
<1>2. CASE UNCHANGED vars
  BY <1>2, <1>b DEF vars, host, tickets
<1>3. ASSUME NEW j \in Keys, Generate(j) PROVE Stage(k)' /\ Kept(k)'
  <2>1. /\ pc[Inj(j)] = "off" /\ Goto(Inj(j), "lock") /\ Inj(j) \in Tasks
        /\ UNCHANGED <<shell, age, due, ticket, handed>>
    BY <1>3, TaskIs DEF Generate, Inj, host, tickets
  <2>2. CASE j # k
    BY <1>a, <1>c, <1>d, <2>1, <2>2 DEF Quiet
  <2>3. CASE j = k
    <3>1. pc'[Inj(k)] = "lock" /\ pc'[Und(k)] = pc[Und(k)] /\ pc'[Tim(k)] = pc[Tim(k)]
      BY <1>0, <1>c, <2>1, <2>3, KeyOf
    <3>2. ~InjectedKey(k) /\ ~InjectedKey(k)'
      BY <2>1, <2>3, <3>1 DEF InjectedKey, Inj
    <3> QED BY <2>1, <2>3, <3>1, <3>2 DEF Stage, Kept
  <2> QED BY <2>2, <2>3
<1>4. ASSUME NEW j \in Keys, Fire(j) PROVE Stage(k)' /\ Kept(k)'
  <2>1. /\ due[j] > 0 /\ age[j] >= due[j] /\ due' = [due EXCEPT ![j] = 0]
        /\ Goto(Tim(j), "lock") /\ Tim(j) \in Tasks
        /\ UNCHANGED <<shell, age, ticket, handed>>
    BY <1>4, TaskIs DEF Fire, Tim, host, tickets
  <2>2. CASE j # k
    BY <1>0, <1>a, <1>c, <1>d, <2>1, <2>2 DEF Quiet
  <2>3. CASE j = k
    <3>1. pc'[Tim(k)] = "lock" /\ pc'[Und(k)] = pc[Und(k)] /\ pc'[Inj(k)] = pc[Inj(k)]
      BY <1>0, <1>c, <2>1, <2>3, KeyOf
    <3>2. InjectedKey(k) /\ InjectedKey(k)' /\ due[k] >= TTL
      BY <2>1, <2>3, <3>1 DEF InjectedKey, Inj, Stage
    <3>3. due'[k] = 0 /\ age'[k] >= TTL
      <4>1. due[k] \in Nat /\ TTL \in Nat
        BY <1>0, Times
      <4> QED BY <1>0, <1>1, <2>1, <2>3, <3>2, <4>1
    <3>4. shell'[App(k)] = "off" /\ shell[Und(k)] = shell'[Und(k)]
      BY <2>1, <3>2 DEF Stage
    <3>5. pc[Inj(k)] \notin {"off", "lock", "sweep", "append"}
      BY <3>2 DEF InjectedKey, Inj
    <3>6. Stage(k)'
      BY <3>1, <3>2, <3>3, <3>4, <3>5 DEF Stage
    <3> QED BY <2>1, <3>1, <3>6 DEF Kept
  <2> QED BY <2>2, <2>3
<1>5. ASSUME NEW j \in Keys, Serve(j) PROVE Stage(k)' /\ Kept(k)'
  <2>1. /\ pc[Inj(j)] = "injected" /\ Inj(j) \in Tasks /\ Und(j) \in Tasks
        /\ UNCHANGED <<shell, age, due, handed>>
        /\ ticket' = ticket \/ ticket' = [ticket EXCEPT ![j] = "kept"]
    BY <1>5, TaskIs DEF Serve, StoreTicket, LaunchReturns, LaunchFails, Inj, host, tickets
  <2>2. /\ pc'[Inj(j)] = "served" /\ \A u \in Tasks \ {Inj(j), Und(j)} : pc'[u] = pc[u]
        /\ \/ pc'[Und(j)] = pc[Und(j)]
           \/ pc'[Und(j)] = "lock" /\ ticket' = ticket
    BY <1>0, <1>5, <2>1, KeyOf
       DEF Serve, StoreTicket, LaunchReturns, LaunchFails, Inj, Und, Goto, tickets
  <2>3. CASE j # k
    <3>1. {Inj(k), Und(k), Tim(k)} \subseteq Tasks \ {Inj(j), Und(j)}
      BY <1>0, <2>3, KeyOf
    <3>2. Quiet(k) /\ ticket'[k] = ticket[k]
      BY <1>0, <2>1, <2>2, <2>3, <3>1 DEF Quiet
    <3> QED BY <1>a, <2>1, <3>2
  <2>4. CASE j = k
    <3>1. InjectedKey(k) /\ InjectedKey(k)' /\ pc'[Tim(k)] = pc[Tim(k)] /\ pc[Und(k)] = "off"
      BY <1>0, <2>1, <2>2, <2>4, KeyOf DEF InjectedKey, Inj, Stage
    <3>2. shell[Und(k)] = "off"
      BY <3>1 DEF Stage
    <3>3. Stage(k)'
      BY <2>1, <2>2, <2>4, <3>1, <3>2 DEF Stage
    <3>4. ticket[k] = "none" /\ handed[k] = 0
      BY <1>0, <2>1, <2>4 DEF Kept
    <3>5. Kept(k)'
      BY <1>0, <2>1, <2>2, <2>4, <3>1, <3>4 DEF Kept
    <3> QED BY <3>3, <3>5
  <2> QED BY <2>3, <2>4
<1>6. ASSUME NEW j \in Keys, Redeem(j) PROVE Stage(k)' /\ Kept(k)'
  <2>1. /\ ticket[j] = "kept" /\ ticket' = [ticket EXCEPT ![j] = "gone"]
        /\ handed' = [handed EXCEPT ![j] = Least(@ + 1, 2)]
        /\ UNCHANGED <<shell, pc, age, due>>
    BY <1>6 DEF Redeem, Deliver, host
  <2>2. Quiet(k)
    BY <2>1 DEF Quiet
  <2>3. Stage(k)'
    BY <1>1, <2>1, <2>2, StageFrame
  <2>4. CASE j # k
    BY <1>0, <2>1, <2>2, <2>3, <2>4, KeptFrame
  <2>5. CASE j = k
    BY <1>0, <2>1, <2>3, <2>5 DEF Kept
  <2> QED BY <2>4, <2>5
<1>7. ASSUME NEW t \in Tasks, Lock(t) PROVE Stage(k)' /\ Kept(k)'
  <2> DEFINE l == IF Injects(t) THEN "sweep" ELSE "clean"
             s == IF Injects(t) THEN <<Key(t), "sweep">> ELSE t
  <2>1. /\ pc[t] = "lock" /\ Goto(t, l) /\ shell' = [shell EXCEPT ![s] = "started"]
        /\ UNCHANGED <<age, due, ticket, handed>>
    BY <1>7 DEF Lock, Begin, tickets
  <2>2. s[1] = Key(t) /\ s # App(k) /\ (Injects(t) => s # Und(k) /\ s # Tim(k))
    BY KeyOf DEF App, Und, Tim, Key
  <2>3. CASE Key(t) # k
    <3>1. s # Und(k) /\ s # Tim(k)
      BY <2>2, <2>3, KeyOf
    <3> HIDE DEF s, l
    <3>2. Quiet(k)
      BY <1>0, <1>c, <2>1, <2>2, <2>3, <3>1 DEF Quiet
    <3> QED BY <1>a, <2>1, <3>2
  <2>4. CASE Key(t) = k /\ Injects(t)
    <3>1. t = Inj(k)
      BY <2>4, KeyOf
    <3>2. /\ pc[Inj(k)] = "lock" /\ pc'[Inj(k)] = "sweep" /\ pc'[Und(k)] = pc[Und(k)]
          /\ pc'[Tim(k)] = pc[Tim(k)]
      BY <1>0, <1>c, <2>1, <2>4, <3>1, KeyOf
    <3>3. ~InjectedKey(k) /\ ~InjectedKey(k)'
      BY <3>2 DEF InjectedKey, Inj
    <3>4. shell'[Und(k)] = shell[Und(k)] /\ shell'[Tim(k)] = shell[Tim(k)]
      <4> HIDE DEF s
      <4> QED BY <1>0, <2>1, <2>2, <2>4
    <3>5. Stage(k)'
      BY <2>1, <3>2, <3>3, <3>4 DEF Stage
    <3> QED BY <2>1, <3>2, <3>5 DEF Kept
  <2>5. CASE Key(t) = k /\ ~Injects(t)
    <3>1. t \in {Und(k), Tim(k)} /\ pc'[t] = "clean" /\ \A u \in Tasks \ {t} : pc'[u] = pc[u]
      BY <1>c, <2>1, <2>5, KeyOf
    <3>2. pc'[Inj(k)] = pc[Inj(k)] /\ (InjectedKey(k)' <=> InjectedKey(k))
      BY <1>0, <3>1, KeyOf DEF InjectedKey, Inj
    <3>3. shell'[t] = "started" /\ \A x \in Shells \ {t} : shell'[x] = shell[x]
      BY <1>0, <2>1, <2>5, ShellIs
    <3>4. CASE t = Und(k)
      <4>1. /\ pc[Und(k)] = "lock" /\ pc'[Und(k)] = "clean" /\ pc'[Tim(k)] = pc[Tim(k)]
            /\ shell'[Tim(k)] = shell[Tim(k)] /\ shell'[App(k)] = shell[App(k)]
        BY <1>0, <2>1, <3>1, <3>3, <3>4, KeyOf
      <4>2. Stage(k)'
        BY <2>1, <3>2, <4>1 DEF Stage
      <4> QED BY <2>1, <3>2, <4>1, <4>2 DEF Kept
    <3>5. CASE t = Tim(k)
      <4>1. /\ pc[Tim(k)] = "lock" /\ pc'[Tim(k)] = "clean" /\ pc'[Und(k)] = pc[Und(k)]
            /\ shell'[Und(k)] = shell[Und(k)] /\ shell'[App(k)] = shell[App(k)]
        BY <1>0, <2>1, <3>1, <3>3, <3>5, KeyOf
      <4>2. Stage(k)'
        BY <2>1, <3>2, <4>1 DEF Stage
      <4> QED BY <2>1, <3>2, <4>1, <4>2 DEF Kept
    <3> QED BY <3>1, <3>4, <3>5
  <2> QED BY <2>3, <2>4, <2>5
<1>8. ASSUME NEW t \in Tasks, ConnectFails(t) PROVE Stage(k)' /\ Kept(k)'
  <2> DEFINE l == IF Injects(t) THEN "failed" ELSE "missed"
  <2>1. /\ pc[t] = "lock" /\ Goto(t, l) /\ UNCHANGED <<shell, age, due, ticket, handed>>
    BY <1>8 DEF ConnectFails, host, tickets
  <2>2. CASE Key(t) # k
    <3> HIDE DEF l
    <3> QED BY <1>a, <1>c, <2>1, <2>2 DEF Quiet
  <2>3. CASE Key(t) = k /\ Injects(t)
    <3>1. /\ pc[Inj(k)] = "lock" /\ pc'[Inj(k)] = "failed" /\ pc'[Und(k)] = pc[Und(k)]
          /\ pc'[Tim(k)] = pc[Tim(k)]
      BY <1>0, <1>c, <2>1, <2>3, KeyOf
    <3>2. ~InjectedKey(k) /\ ~InjectedKey(k)'
      BY <3>1 DEF InjectedKey, Inj
    <3> QED BY <2>1, <3>1, <3>2 DEF Stage, Kept
  <2>4. CASE Key(t) = k /\ ~Injects(t)
    <3>1. t \in {Und(k), Tim(k)} /\ pc'[t] = "missed" /\ \A u \in Tasks \ {t} : pc'[u] = pc[u]
      BY <1>c, <2>1, <2>4, KeyOf
    <3>2. pc'[Inj(k)] = pc[Inj(k)] /\ (InjectedKey(k)' <=> InjectedKey(k))
      BY <1>0, <3>1, KeyOf DEF InjectedKey, Inj
    <3>3. CASE t = Und(k)
      <4>1. pc[Und(k)] = "lock" /\ pc'[Und(k)] = "missed" /\ pc'[Tim(k)] = pc[Tim(k)]
        BY <1>0, <2>1, <3>1, <3>3, KeyOf
      <4> QED BY <2>1, <3>2, <4>1 DEF Stage, Kept
    <3>4. CASE t = Tim(k)
      <4>1. pc[Tim(k)] = "lock" /\ pc'[Tim(k)] = "missed" /\ pc'[Und(k)] = pc[Und(k)]
        BY <1>0, <2>1, <3>1, <3>4, KeyOf
      <4> QED BY <2>1, <3>2, <4>1 DEF Stage, Kept
    <3> QED BY <3>1, <3>3, <3>4
  <2> QED BY <2>2, <2>3, <2>4
<1>9. ASSUME NEW t \in Tasks, CutOff(t) PROVE Stage(k)' /\ Kept(k)'
  BY <1>0, <1>9, ResumeStage DEF CutOff
<1>10. ASSUME NEW s \in Shells, Command(s) PROVE Stage(k)' /\ Kept(k)'
  <2>1. CASE Awk(s)
    <3>1. /\ shell[s] = "started" /\ shell' = [shell EXCEPT ![s] = "read"]
          /\ UNCHANGED <<pc, age, due, ticket, handed>>
      BY <2>1 DEF Awk, tickets
    <3>2. \A x \in Shells : shell'[x] # "off" => shell[x] # "off"
      BY <1>0, <3>1
    <3>3. Quiet(k)
      BY <1>0, <3>1, <3>2 DEF Quiet
    <3> QED BY <1>a, <3>1, <3>3
  <2>2. CASE Mv(s) \/ Echo(s) \/ ShellFails(s)
    BY <2>2, EndStage DEF Mv, Echo, ShellFails
  <2> QED BY <1>10, <2>1, <2>2 DEF Command
<1>11. ASSUME NEW l \in Own, Revoke(l) PROVE Stage(k)' /\ Kept(k)'
  BY <1>11, <1>b DEF Revoke, tickets
<1>12. CASE Tick
  <2>1. /\ UNCHANGED <<shell, pc, due, handed>>
        /\ ticket'[k] = (IF ticket[k] = "kept" THEN "gone" ELSE ticket[k])
        /\ age'[k] = (IF pc[Inj(k)] = "off" THEN age[k] ELSE Least(age[k] + 1, Old))
    BY <1>12 DEF Tick, host, Inj
  <2>2. age'[k] \in Nat /\ age'[k] >= age[k]
    BY <1>1, <2>1, Times DEF Least
  <2>3. Stage(k)'
    BY <2>1, <2>2, StageFrame DEF Quiet
  <2> QED BY <1>0, <2>1, <2>3 DEF Kept
<1>13. CASE Restart
  <2>1. /\ UNCHANGED <<shell, age, handed>> /\ due'[k] = 0
        /\ ticket'[k] = IF ticket[k] = "none" THEN "none" ELSE "gone"
        /\ \A t \in Tasks : pc'[t] = IF pc[t] \in {"off", "removed"} THEN pc[t]
                                     ELSE IF Injects(t) THEN "failed" ELSE "missed"
    BY <1>13 DEF Restart, host
  <2>2. pc[Inj(k)] # "removed" /\ Injects(Inj(k)) /\ ~Injects(Und(k)) /\ ~Injects(Tim(k))
    BY <1>0 DEF Locks, RemoveSteps, Injects, Inj, Und, Tim
  <2>3. /\ pc'[Inj(k)] \in {"off", "failed"} /\ (pc'[Inj(k)] = "off" <=> pc[Inj(k)] = "off")
        /\ pc'[Und(k)] = "off" <=> pc[Und(k)] = "off"
        /\ pc'[Tim(k)] = "off" <=> pc[Tim(k)] = "off"
    BY <1>0, <2>1, <2>2
  <2>4. ~InjectedKey(k)'
    BY <2>3 DEF InjectedKey, Inj
  <2>5. Stage(k)'
    BY <2>1, <2>3, <2>4 DEF Stage
  <2>6. Kept(k)'
    BY <1>0, <2>1, <2>3 DEF Kept
  <2> QED BY <2>5, <2>6
<1> QED BY <1>2, <1>3, <1>4, <1>5, <1>6, <1>7, <1>8, <1>9, <1>10, <1>11, <1>12, <1>13
        DEF Next, Goroutine

-----------------------------------------------------------------------------
(* Steps that injections and removals take.                                 *)

\* A key is injected by its echo and removed by the mv of its timer; time does not go
\* back, and a key that is being undone stays so.
Moves(k) ==
    /\ InjectedKey(k)' => InjectedKey(k) \/ (pc[Inj(k)] = "append" /\ Echo(App(k)))
    /\ pc'[Und(k)] = "off" => pc[Und(k)] = "off"
    /\ pc'[Tim(k)] = "removed" => pc[Tim(k)] = "removed" \/ Mv(Tim(k))
    /\ age'[k] \in Nat /\ age'[k] >= age[k]

\* Only a command that was done takes its goroutine there.
LEMMA ResumeMoves ==
    ASSUME TypeOK, Locks, NEW t \in Tasks, Waits(t), NEW done \in BOOLEAN, NEW sh,
           Resume(t, done, sh), NEW k \in Keys
    PROVE  /\ InjectedKey(k)' => \/ InjectedKey(k)
                                 \/ pc[Inj(k)] = "append" /\ done /\ Awaited(t) = App(k)
           /\ pc'[Und(k)] = "off" => pc[Und(k)] = "off"
           /\ pc'[Tim(k)] = "removed" => pc[Tim(k)] = "removed" \/ (done /\ Awaited(t) = Tim(k))
<1>0. pc \in [Tasks -> Step] /\ Inj(k) \in Tasks /\ Und(k) \in Tasks /\ Tim(k) \in Tasks
  BY TaskIs DEF TypeOK
<1>1. PICK l : /\ Goto(t, l) /\ l # "off"
               /\ l \in {"injected", "served"} => done /\ pc[t] = "append"
               /\ l = "removed" => done /\ pc[t] = "clean"
  <2>1. CASE pc[t] = "sweep" /\ Goto(t, "append")
    BY <2>1
  <2>2. CASE pc[t] = "append" /\ Goto(t, IF done THEN "injected" ELSE "failed")
    BY <2>2
  <2>3. CASE pc[t] = "clean" /\ Goto(t, IF done THEN "removed" ELSE "missed")
    BY <2>3
  <2> QED BY <2>1, <2>2, <2>3 DEF Resume, Appended
<1>2. pc'[t] = l /\ \A u \in Tasks \ {t} : pc'[u] = pc[u]
  BY <1>0, <1>1 DEF Goto
<1>3. pc'[Und(k)] = "off" => pc[Und(k)] = "off"
  BY <1>0, <1>1, <1>2
<1>4. ASSUME InjectedKey(k)', ~InjectedKey(k)
      PROVE  pc[Inj(k)] = "append" /\ done /\ Awaited(t) = App(k)
  <2>1. t = Inj(k) /\ l \in {"injected", "served"}
    BY <1>0, <1>2, <1>4 DEF InjectedKey, Inj
  <2>2. Key(t) = k
    BY <2>1, KeyOf DEF Key
  <2> QED BY <1>1, <2>1, <2>2 DEF Awaited, App
<1>5. ASSUME pc'[Tim(k)] = "removed", pc[Tim(k)] # "removed"
      PROVE  done /\ Awaited(t) = Tim(k)
  BY <1>0, <1>1, <1>2, <1>5 DEF Awaited
<1> QED BY <1>3, <1>4, <1>5

LEMMA EndMoves ==
    ASSUME TypeOK, Locks, NEW s \in Shells, NEW done \in BOOLEAN, End(s, done), NEW k \in Keys
    PROVE  /\ InjectedKey(k)' => InjectedKey(k) \/ (pc[Inj(k)] = "append" /\ done /\ s = App(k))
           /\ pc'[Und(k)] = "off" => pc[Und(k)] = "off"
           /\ pc'[Tim(k)] = "removed" => pc[Tim(k)] = "removed" \/ (done /\ s = Tim(k))
           /\ \A x \in Shells : shell'[x] = "read" => shell[x] = "read" /\ x # s
<1> DEFINE sh == [shell EXCEPT ![s] = "off"]
<1>1. \A x \in Shells : sh[x] = "read" => shell[x] = "read" /\ x # s
  BY DEF TypeOK
<1>2. sh \in [Shells -> {"off", "started", "read"}]
  BY DEF TypeOK
<1> HIDE DEF sh
<1>3. ASSUME NEW t \in Tasks, Waits(t), Awaited(t) = s, Resume(t, done, sh)
      PROVE  /\ InjectedKey(k)' => InjectedKey(k) \/ (pc[Inj(k)] = "append" /\ done /\ s = App(k))
             /\ pc'[Und(k)] = "off" => pc[Und(k)] = "off"
             /\ pc'[Tim(k)] = "removed" => pc[Tim(k)] = "removed" \/ (done /\ s = Tim(k))
             /\ \A x \in Shells : shell'[x] = "read" => sh[x] = "read"
  <2>1. \A x \in Shells : shell'[x] = "read" => sh[x] = "read"
    BY <1>2, <1>3 DEF Resume
  <2> QED BY <1>3, <2>1, ResumeMoves
<1>4. CASE shell' = sh /\ UNCHANGED <<mutex, pc, due>>
  BY <1>1, <1>4 DEF InjectedKey
<1> QED BY <1>1, <1>3, <1>4 DEF End, sh

LEMMA MoveStep ==
    ASSUME TypeOK, Locks, Stages, Copies, [Next]_vars, NEW k \in Keys
    PROVE  Moves(k)
<1>0. /\ pc \in [Tasks -> Step] /\ age \in [Keys -> Ages] /\ Stage(k)
      /\ Inj(k) \in Tasks /\ Und(k) \in Tasks /\ Tim(k) \in Tasks
  BY TaskIs DEF TypeOK, Stages
<1>1. age[k] \in Nat /\ age[k] <= Old /\ (age' = age => age'[k] \in Nat /\ age'[k] >= age[k])
  BY <1>0, Times
<1>a. ASSUME UNCHANGED <<pc, age>> PROVE Moves(k)
  BY <1>1, <1>a DEF Moves, InjectedKey
<1>b. ASSUME NEW t \in Tasks, NEW l, Goto(t, l), UNCHANGED age,
             l \in {"lock", "sweep", "clean", "failed", "missed"}
      PROVE  Moves(k)
  <2>1. pc'[t] = l /\ \A u \in Tasks \ {t} : pc'[u] = pc[u]
    BY <1>0, <1>b DEF Goto
  <2>2. InjectedKey(k)' => InjectedKey(k)
    BY <1>0, <1>b, <2>1 DEF InjectedKey, Inj
  <2>3. /\ pc'[Und(k)] = "off" => pc[Und(k)] = "off"
        /\ pc'[Tim(k)] = "removed" => pc[Tim(k)] = "removed"
    BY <1>0, <1>b, <2>1
  <2> QED BY <1>1, <1>b, <2>2, <2>3 DEF Moves
<1>2. CASE UNCHANGED vars
  BY <1>2, <1>a DEF vars
<1>3. ASSUME NEW j \in Keys, Generate(j) \/ Fire(j) PROVE Moves(k)
  BY <1>3, <1>b, TaskIs DEF Generate, Fire, Inj, Tim
<1>4. ASSUME NEW j \in Keys, Serve(j) PROVE Moves(k)
  <2>1. /\ pc[Inj(j)] = "injected" /\ Inj(j) \in Tasks /\ Und(j) \in Tasks /\ UNCHANGED age
    BY <1>4, TaskIs DEF Serve, StoreTicket, LaunchReturns, LaunchFails, Inj
  <2>2. /\ \A u \in Tasks \ {Inj(j), Und(j)} : pc'[u] = pc[u]
        /\ pc'[Und(j)] = pc[Und(j)] \/ pc'[Und(j)] = "lock"
    BY <1>0, <1>4, <2>1, KeyOf
       DEF Serve, StoreTicket, LaunchReturns, LaunchFails, Inj, Und, Goto
  <2>3. InjectedKey(k)' => InjectedKey(k)
    <3>1. CASE j = k
      BY <2>1, <3>1 DEF InjectedKey, Inj
    <3>2. CASE j # k
      <4>1. Inj(k) \in Tasks \ {Inj(j), Und(j)}
        BY <1>0, <3>2, KeyOf
      <4> QED BY <2>2, <4>1 DEF InjectedKey, Inj
    <3> QED BY <3>1, <3>2
  <2>4. pc'[Und(k)] = "off" => pc[Und(k)] = "off"
    <3>1. CASE j = k
      BY <2>2, <3>1
    <3>2. CASE j # k
      <4>1. Und(k) \in Tasks \ {Inj(j), Und(j)}
        BY <1>0, <3>2, KeyOf
      <4> QED BY <2>2, <4>1
    <3> QED BY <3>1, <3>2
  <2>5. pc'[Tim(k)] = pc[Tim(k)]
    <3>1. Tim(k) # Inj(j) /\ Tim(k) # Und(j)
      BY DEF Tim, Inj, Und
    <3> QED BY <1>0, <2>2, <3>1
  <2> QED BY <1>1, <2>1, <2>3, <2>4, <2>5 DEF Moves
<1>5. ASSUME NEW j \in Keys, Redeem(j) PROVE Moves(k)
  BY <1>5, <1>a DEF Redeem, Deliver
<1>6. ASSUME NEW t \in Tasks, Lock(t) \/ ConnectFails(t) PROVE Moves(k)
  BY <1>6, <1>b DEF Lock, Begin, ConnectFails
<1>7. ASSUME NEW t \in Tasks, CutOff(t) PROVE Moves(k)
  BY <1>1, <1>7, ResumeMoves DEF CutOff, Moves
<1>8. ASSUME NEW s \in Shells, Command(s) PROVE Moves(k)
  <2>1. CASE Awk(s)
    BY <1>a, <2>1 DEF Awk
  <2>2. CASE Mv(s)
    <3>1. s # App(k)
      BY <2>2 DEF Mv, Copies, App
    <3>2. End(s, TRUE) /\ UNCHANGED age
      BY <2>2 DEF Mv
    <3> QED BY <1>1, <2>2, <3>1, <3>2, EndMoves DEF Moves
  <2>3. CASE Echo(s)
    <3>1. s # Tim(k)
      BY <2>3 DEF Echo, Tim
    <3>2. End(s, TRUE) /\ UNCHANGED age
      BY <2>3 DEF Echo
    <3> QED BY <1>1, <2>3, <3>1, <3>2, EndMoves DEF Moves
  <2>4. CASE ShellFails(s)
    BY <1>1, <2>4, EndMoves DEF ShellFails, Moves
  <2> QED BY <1>8, <2>1, <2>2, <2>3, <2>4 DEF Command
<1>9. ASSUME NEW l \in Own, Revoke(l) PROVE Moves(k)
  BY <1>9, <1>a DEF Revoke
<1>10. CASE Tick
  <2>1. UNCHANGED pc /\ age'[k] = IF pc[Inj(k)] = "off" THEN age[k] ELSE Least(age[k] + 1, Old)
    BY <1>10 DEF Tick, Inj
  <2>2. age'[k] \in Nat /\ age'[k] >= age[k]
    BY <1>1, <2>1, Times DEF Least
  <2> QED BY <2>1, <2>2 DEF Moves, InjectedKey
<1>11. CASE Restart
  <2>1. /\ UNCHANGED age
        /\ \A t \in Tasks : pc'[t] = IF pc[t] \in {"off", "removed"} THEN pc[t]
                                     ELSE IF Injects(t) THEN "failed" ELSE "missed"
    BY <1>11 DEF Restart
  <2>2. pc'[Inj(k)] \notin {"injected", "served"}
    BY <1>0, <2>1
  <2>3. /\ pc'[Und(k)] = "off" => pc[Und(k)] = "off"
        /\ pc'[Tim(k)] = "removed" => pc[Tim(k)] = "removed"
    BY <1>0, <2>1
  <2> QED BY <1>1, <2>1, <2>2, <2>3 DEF Moves, InjectedKey, Inj
<1> QED BY <1>2, <1>3, <1>4, <1>5, <1>6, <1>7, <1>8, <1>9, <1>10, <1>11 DEF Next, Goroutine

-----------------------------------------------------------------------------
(* The lines of the file.                                                   *)

Data == Copies /\ NoEditIsLost /\ LiveKeyStays /\ Removed

Live(k) == InjectedKey(k) /\ pc[Und(k)] = "off" /\ age[k] < TTL
Gone(k) == InjectedKey(k) /\ pc[Tim(k)] = "removed"

LEMMA LiveAndGone ==
    /\ LiveKeyStays <=> \A k \in Keys \ torn : Live(k) => k \in file
    /\ Removed <=> \A k \in Keys \ torn : Gone(k) => k \notin file
BY DEF LiveKeyStays, Removed, Live, Gone, Und

\* What is swept stays due to be swept.
LEMMA DoomedStays ==
    ASSUME TypeOK, NEW s \in Shells, NEW k \in Keys, Doomed(s, k), Moves(k)
    PROVE  Doomed(s, k)'
BY Times DEF Doomed, Moves, TypeOK

\* A key becomes live by the echo that writes it, and is gone by the mv that drops it.
LEMMA Becomes ==
    ASSUME TypeOK, Stages, NEW k \in Keys, Moves(k)
    PROVE  /\ Live(k)' => Live(k) \/ Echo(App(k))
           /\ Gone(k)' => Gone(k) \/ Mv(Tim(k))
<1>1. Live(k)' => Live(k) \/ Echo(App(k))
  <2>1. age'[k] < TTL => age[k] < TTL
    BY Times DEF Moves, TypeOK
  <2> QED BY <2>1 DEF Live, Moves
<1>2. Gone(k)' => Gone(k) \/ Mv(Tim(k))
  BY DEF Gone, Moves, Stages, Stage
<1> QED BY <1>1, <1>2

\* A live key is dropped by no filter.
LEMMA LiveIsSpared ==
    ASSUME TypeOK, Stages, Copies, NEW s \in Shells, shell[s] = "read",
           NEW k \in Keys, Live(k)
    PROVE  ~Doomed(s, k)
<1>1. SUFFICES ASSUME Doomed(s, k) PROVE FALSE
  OBVIOUS
<1>2. Stage(k) /\ age[k] < TTL /\ age[k] \in Nat
  BY Times DEF Live, Stages, TypeOK
<1>3. CASE s[2] = "sweep"
  BY <1>1, <1>2, <1>3, Times DEF Doomed
<1>4. CASE s[2] \in {"undo", "timer"}
  <2>1. s = Und(k) \/ s = Tim(k)
    BY <1>1, <1>4, ShellIs DEF Doomed, Und, Tim
  <2>2. pc[Und(k)] # "off" \/ pc[Tim(k)] # "off"
    BY <1>2, <2>1 DEF Stage
  <2>3. pc[Tim(k)] # "off" => age[k] >= TTL
    BY <1>2 DEF Stage
  <2> QED BY <1>2, <2>2, <2>3, Times DEF Live
<1> QED BY <1>3, <1>4, ShellIs DEF Copies

\* While the file and the copies that are left stay as they are nothing is lost.
LEMMA DataFrame ==
    ASSUME TypeOK, Stages, Data, \A k \in Keys : Moves(k),
           UNCHANGED <<file, wanted, torn>>,
           \A s \in Shells : shell'[s] = "read" => shell[s] = "read" /\ copy'[s] = copy[s]
    PROVE  Data'
<1>1. Copies'
  <2> SUFFICES ASSUME NEW s \in Shells, shell[s] = "read", copy'[s] = copy[s]
               PROVE  /\ s[2] # "append"
                      /\ s[2] # "sweep" => s[1] \notin copy[s]
                      /\ \A l \in Lines \ torn :
                            /\ l \in copy[s] => l \in file
                            /\ l \in file /\ l \notin copy[s] => l \in Keys /\ Doomed(s, l)'
    BY DEF Copies
  <2> QED BY DoomedStays DEF Data, Copies
<1>2. NoEditIsLost'
  BY DEF Data, NoEditIsLost
<1>3. ASSUME NEW k \in Keys \ torn, Live(k)' PROVE k \in file'
  <2>1. CASE Live(k)
    BY <2>1, LiveAndGone DEF Data
  <2>2. CASE Echo(App(k))
    BY <2>2 DEF Echo, App
  <2> QED BY <1>3, <2>1, <2>2, Becomes
<1>4. ASSUME NEW k \in Keys \ torn, Gone(k)' PROVE k \notin file'
  <2>1. CASE Gone(k)
    BY <2>1, LiveAndGone DEF Data
  <2>2. CASE Mv(Tim(k))
    <3>1. shell[Tim(k)] = "read" /\ file' = copy[Tim(k)]
      BY <2>2 DEF Mv
    <3> QED BY <3>1, ShellIs DEF Data, Copies, Tim
  <2> QED BY <1>4, <2>1, <2>2, Becomes
<1>5. LiveKeyStays' /\ Removed'
  BY <1>3, <1>4 DEF LiveKeyStays, Removed, Live, Gone, Und
<1> QED BY <1>1, <1>2, <1>5 DEF Data

\* A line that is changed while another command has a copy is torn.
LEMMA Tears ==
    ASSUME NEW ls, NEW s, Change(ls, s)
    PROVE  /\ torn \subseteq torn'
           /\ \A o \in Shells \ {s} : shell[o] = "read" => ls \subseteq torn'
BY DEF Change

LEMMA DataStep ==
    TypeOK /\ Locks /\ Stages /\ Data /\ [Next]_vars => Data'
<1> SUFFICES ASSUME TypeOK, Locks, Stages, Data, [Next]_vars PROVE Data'
  OBVIOUS
<1>0. /\ shell \in [Shells -> {"off", "started", "read"}] /\ copy \in [Shells -> SUBSET Lines]
      /\ Copies /\ NoEditIsLost /\ LiveKeyStays /\ Removed
  BY DEF TypeOK, Data
<1>m. \A k \in Keys : Moves(k)
  BY <1>0, MoveStep
<1>a. ASSUME UNCHANGED <<file, copy, wanted, torn>>,
             \A s \in Shells : shell'[s] = "read" => shell[s] = "read"
      PROVE  Data'
  BY <1>a, <1>m, DataFrame
<1>1. CASE UNCHANGED vars
  BY <1>1, <1>a DEF vars, host, history
<1>2. ASSUME NEW k \in Keys, Generate(k) \/ Fire(k) \/ Serve(k) \/ Redeem(k) PROVE Data'
  BY <1>2, <1>a DEF Generate, Fire, Serve, StoreTicket, LaunchReturns, LaunchFails, Redeem,
                    Deliver, host, history
<1>3. ASSUME NEW t \in Tasks, Goroutine(t) PROVE Data'
  <2>1. UNCHANGED <<file, copy, wanted, torn>>
    BY <1>3 DEF Goroutine, Lock, Begin, ConnectFails, CutOff, host, history
  <2>2. \A s \in Shells : shell'[s] = "read" => shell[s] = "read"
    BY <1>0, <1>3 DEF Goroutine, Lock, Begin, ConnectFails, CutOff, Resume, host
  <2> QED BY <1>a, <2>1, <2>2
<1>4. ASSUME NEW s \in Shells, Awk(s) PROVE Data'
  <2>1. /\ s[2] # "append" /\ shell' = [shell EXCEPT ![s] = "read"]
        /\ copy' = [copy EXCEPT ![s] = {l \in file : l \in Keys => ~Doomed(s, l)}]
        /\ UNCHANGED <<file, mutex, pc, age, wanted, torn>>
    BY <1>4 DEF Awk, history
  <2>2. \A o \in Shells \ {s} : shell'[o] = shell[o] /\ copy'[o] = copy[o]
    BY <1>0, <2>1
  <2>3. copy'[s] = {l \in file : l \in Keys => ~Doomed(s, l)}
    BY <1>0, <2>1
  <2>4. s[1] \in Keys /\ (s[2] # "sweep" => s[1] \notin copy'[s])
    BY <2>3, ShellIs DEF Doomed
  <2>5. \A o \in Shells : \A l : Doomed(o, l)' <=> Doomed(o, l)
    BY <2>1 DEF Doomed
  <2>6. Copies'
    <3> SUFFICES ASSUME NEW o \in Shells, shell'[o] = "read"
                 PROVE  /\ o[2] # "append"
                        /\ o[2] # "sweep" => o[1] \notin copy'[o]
                        /\ \A l \in Lines \ torn :
                              /\ l \in copy'[o] => l \in file
                              /\ l \in file /\ l \notin copy'[o] => l \in Keys /\ Doomed(o, l)
      BY <2>1, <2>5 DEF Copies
    <3>1. CASE o = s
      BY <2>1, <2>3, <2>4, <3>1
    <3>2. CASE o # s
      BY <1>0, <2>2, <3>2 DEF Copies
    <3> QED BY <3>1, <3>2
  <2>7. NoEditIsLost' /\ LiveKeyStays' /\ Removed'
    BY <1>0, <2>1 DEF NoEditIsLost, LiveKeyStays, Removed, InjectedKey
  <2> QED BY <2>6, <2>7 DEF Data
<1>5. ASSUME NEW s \in Shells, Mv(s) PROVE Data'
  <2>1. /\ shell[s] = "read" /\ file' = copy[s] /\ copy' = [copy EXCEPT ![s] = {}]
        /\ wanted' = wanted \ Dropped(s) /\ Change(Dropped(s), s) /\ End(s, TRUE)
    BY <1>5 DEF Mv
  <2>2. /\ torn \subseteq torn'
        /\ \A o \in Shells \ {s} : shell[o] = "read" => Dropped(s) \subseteq torn'
    BY <2>1, Tears
  <2>3. \A o \in Shells : shell'[o] = "read" => /\ shell[o] = "read" /\ o # s
                                                /\ copy'[o] = copy[o]
    <3>1. \A o \in Shells : shell'[o] = "read" => shell[o] = "read" /\ o # s
      BY <2>1, EndMoves, ShellIs
    <3> QED BY <1>0, <2>1, <3>1
  <2>4. ASSUME NEW l \in Lines \ torn
        PROVE  /\ l \in copy[s] => l \in file /\ l \in wanted /\ l \notin Dropped(s)
               /\ l \in file /\ l \notin copy[s] => l \in Dropped(s)
    <3>1. l \in copy[s] => l \in file
      BY <1>0, <2>1 DEF Copies
    <3>2. l \in file <=> l \in wanted
      BY <1>0 DEF NoEditIsLost
    <3>3. l \in file /\ l \notin copy[s] => l \in Keys /\ Doomed(s, l)
      BY <1>0, <2>1 DEF Copies
    <3> QED BY <3>1, <3>2, <3>3 DEF Dropped
  <2>5. Copies'
    <3> SUFFICES ASSUME NEW o \in Shells, shell[o] = "read", o # s, copy'[o] = copy[o]
                 PROVE  /\ o[2] # "append"
                        /\ o[2] # "sweep" => o[1] \notin copy[o]
                        /\ \A l \in Lines \ torn' :
                              /\ l \in copy[o] => l \in file'
                              /\ l \in file' /\ l \notin copy[o] => l \in Keys /\ Doomed(o, l)'
      BY <2>3 DEF Copies
    <3>1. ASSUME NEW l \in Lines \ torn'
          PROVE  /\ l \in copy[o] => l \in file'
                 /\ l \in file' /\ l \notin copy[o] => l \in Keys /\ Doomed(o, l)'
      <4>1. l \in Lines \ torn /\ l \notin Dropped(s)
        BY <2>2
      <4>2. l \in copy[s] <=> l \in file
        BY <2>4, <4>1
      <4>3. /\ l \in copy[o] => l \in file
            /\ l \in file /\ l \notin copy[o] => l \in Keys /\ Doomed(o, l)
        BY <1>0, <4>1 DEF Copies
      <4> QED BY <1>m, <2>1, <4>2, <4>3, DoomedStays
    <3> QED BY <1>0, <3>1 DEF Copies
  <2>6. NoEditIsLost'
    BY <2>1, <2>2, <2>4, <1>0 DEF NoEditIsLost
  <2>7. ASSUME NEW k \in Keys \ torn', Live(k)' PROVE k \in file'
    <3>1. CASE Live(k)
      <4>1. k \in Lines \ torn /\ k \in file
        BY <1>0, <2>2, <3>1, LiveAndGone DEF Lines
      <4>2. ~Doomed(s, k)
        BY <1>0, <2>1, <3>1, LiveIsSpared
      <4> QED BY <2>1, <2>4, <4>1, <4>2 DEF Dropped
    <3>2. CASE Echo(App(k))
      BY <3>2 DEF Echo, App
    <3> QED BY <1>m, <2>7, <3>1, <3>2, Becomes
  <2>8. ASSUME NEW k \in Keys \ torn', Gone(k)' PROVE k \notin file'
    <3>1. CASE Gone(k)
      <4>1. k \in Lines \ torn /\ k \notin file
        BY <1>0, <2>2, <3>1, LiveAndGone DEF Lines
      <4> QED BY <2>1, <2>4, <4>1
    <3>2. CASE Mv(Tim(k))
      <4>1. shell[Tim(k)] = "read" /\ file' = copy[Tim(k)]
        BY <3>2 DEF Mv
      <4> QED BY <1>0, <4>1, ShellIs DEF Copies, Tim
    <3> QED BY <1>m, <2>8, <3>1, <3>2, Becomes
  <2>9. LiveKeyStays' /\ Removed'
    BY <2>7, <2>8 DEF LiveKeyStays, Removed, Live, Gone, Und
  <2> QED BY <2>5, <2>6, <2>9 DEF Data
<1>6. ASSUME NEW s \in Shells, Echo(s) PROVE Data'
  <2>1. /\ s[2] = "append" /\ shell[s] = "started" /\ file' = file \cup {s[1]}
        /\ wanted' = wanted \cup {s[1]} /\ Change({s[1]}, s) /\ End(s, TRUE) /\ UNCHANGED copy
    BY <1>6 DEF Echo
  <2>2. /\ torn \subseteq torn' /\ s = App(s[1]) /\ s[1] \in Keys
        /\ \A o \in Shells \ {s} : shell[o] = "read" => s[1] \in torn'
    BY <2>1, Tears, ShellIs DEF App
  <2>3. \A o \in Shells : shell'[o] = "read" => shell[o] = "read" /\ o # s
    BY <2>1, <2>2, EndMoves
  <2>4. Copies'
    <3> SUFFICES ASSUME NEW o \in Shells, shell[o] = "read", o # s
                 PROVE  /\ o[2] # "append"
                        /\ o[2] # "sweep" => o[1] \notin copy[o]
                        /\ \A l \in Lines \ torn' :
                              /\ l \in copy[o] => l \in file'
                              /\ l \in file' /\ l \notin copy[o] => l \in Keys /\ Doomed(o, l)'
      BY <2>1, <2>3 DEF Copies
    <3>1. ASSUME NEW l \in Lines \ torn'
          PROVE  /\ l \in copy[o] => l \in file'
                 /\ l \in file' /\ l \notin copy[o] => l \in Keys /\ Doomed(o, l)'
      <4>1. l \in Lines \ torn /\ l # s[1]
        BY <2>2
      <4>2. /\ l \in copy[o] => l \in file
            /\ l \in file /\ l \notin copy[o] => l \in Keys /\ Doomed(o, l)
        BY <1>0, <4>1 DEF Copies
      <4> QED BY <1>m, <2>1, <4>1, <4>2, DoomedStays
    <3> QED BY <1>0, <3>1 DEF Copies
  <2>5. NoEditIsLost'
    BY <1>0, <2>1, <2>2 DEF NoEditIsLost
  <2>6. ASSUME NEW k \in Keys \ torn', Live(k)' PROVE k \in file'
    <3>1. CASE Live(k)
      BY <1>0, <2>1, <2>2, <3>1, LiveAndGone
    <3>2. CASE Echo(App(k))
      BY <3>2 DEF Echo, App
    <3> QED BY <1>m, <2>6, <3>1, <3>2, Becomes
  <2>7. ASSUME NEW k \in Keys \ torn', Gone(k)' PROVE k \notin file'
    <3>1. CASE Gone(k)
      <4>1. shell[App(k)] = "off"
        BY <3>1 DEF Gone, Stages, Stage
      <4>2. k # s[1]
        BY <2>1, <2>2, <4>1
      <4> QED BY <1>0, <2>1, <2>2, <3>1, <4>2, LiveAndGone
    <3>2. CASE Mv(Tim(k))
      <4>1. shell[Tim(k)] = "read" /\ file' = copy[Tim(k)]
        BY <3>2 DEF Mv
      <4> QED BY <1>0, <4>1, ShellIs DEF Copies, Tim
    <3> QED BY <1>m, <2>7, <3>1, <3>2, Becomes
  <2>8. LiveKeyStays' /\ Removed'
    BY <2>6, <2>7 DEF LiveKeyStays, Removed, Live, Gone, Und
  <2> QED BY <2>4, <2>5, <2>8 DEF Data
<1>7. ASSUME NEW s \in Shells, ShellFails(s) PROVE Data'
  <2>1. copy' = [copy EXCEPT ![s] = {}] /\ End(s, FALSE) /\ UNCHANGED <<file, wanted, torn>>
    BY <1>7 DEF ShellFails, history
  <2>2. \A o \in Shells : shell'[o] = "read" => shell[o] = "read" /\ o # s
    BY <2>1, EndMoves, ShellIs
  <2> QED BY <1>0, <1>m, <2>1, <2>2, DataFrame
<1>8. ASSUME NEW l \in Own, Revoke(l) PROVE Data'
  <2>1. /\ file' = file \ {l} /\ wanted' = wanted \ {l} /\ Change({l}, None)
        /\ UNCHANGED <<shell, copy, pc, age>>
    BY <1>8 DEF Revoke
  <2>2. None \notin Shells /\ l \notin Keys
    BY KeysAssumption DEF None, Shells
  <2>3. torn \subseteq torn' /\ \A o \in Shells : shell[o] = "read" => l \in torn'
    BY <2>1, <2>2, Tears
  <2>4. \A o \in Shells : \A x : Doomed(o, x)' <=> Doomed(o, x)
    BY <2>1 DEF Doomed
  <2>5. Copies'
    BY <1>0, <2>1, <2>3, <2>4 DEF Copies
  <2>6. NoEditIsLost'
    BY <1>0, <2>1, <2>3 DEF NoEditIsLost
  <2>7. LiveKeyStays' /\ Removed'
    BY <1>0, <2>1, <2>2, <2>3 DEF LiveKeyStays, Removed, InjectedKey
  <2> QED BY <2>5, <2>6, <2>7 DEF Data
<1>9. CASE Tick
  BY <1>9, <1>a DEF Tick, host, history
<1>10. CASE Restart
  BY <1>10, <1>a DEF Restart, host
<1> QED BY <1>1, <1>2, <1>3, <1>4, <1>5, <1>6, <1>7, <1>8, <1>9, <1>10 DEF Next, Command

-----------------------------------------------------------------------------
(* The theorems.                                                            *)

Inv == TypeOK /\ Locks /\ Stages /\ Data

LEMMA InvInit == Init => Inv
<1> SUFFICES ASSUME Init PROVE Inv
  OBVIOUS
<1>1. TypeOK
  BY KeysAssumption, Times DEF Init, TypeOK, Lines, Step
<1>2. Locks
  <2>1. \A t \in Tasks : pc[t] = "off"
    BY DEF Init
  <2>2. \A r \in Rows : mutex[r] = None
    BY DEF Init
  <2> QED BY <2>1, <2>2, TaskIs DEF Locks, Waits, InjectSteps, RemoveSteps
<1>3. Stages
  <2> SUFFICES ASSUME NEW k \in Keys PROVE Stage(k) /\ Kept(k)
    BY DEF Stages
  <2>1. /\ pc[Inj(k)] = "off" /\ pc[Und(k)] = "off" /\ pc[Tim(k)] = "off"
        /\ shell[App(k)] = "off" /\ shell[Und(k)] = "off" /\ shell[Tim(k)] = "off"
        /\ due[k] = 0 /\ ticket[k] = "none" /\ handed[k] = 0
    BY TaskIs, ShellIs DEF Init
  <2>2. ~InjectedKey(k)
    BY <2>1 DEF InjectedKey, Inj
  <2> QED BY <2>1, <2>2 DEF Stage, Kept
<1>4. Data
  <2>1. \A s \in Shells : shell[s] = "off"
    BY DEF Init
  <2>2. \A k \in Keys : ~InjectedKey(k)
    BY TaskIs DEF Init, InjectedKey, Inj
  <2>3. file = wanted
    BY DEF Init
  <2> QED BY <2>1, <2>2, <2>3 DEF Data, Copies, NoEditIsLost, LiveKeyStays, Removed
<1> QED BY <1>1, <1>2, <1>3, <1>4 DEF Inv

LEMMA InvHolds == Spec => []Inv
<1>1. Inv /\ [Next]_vars => Inv'
  BY TypeStep, LockStep, StageStep, DataStep DEF Inv
<1> QED BY <1>1, InvInit, PTL DEF Spec

\* The state is of its types; no script is delivered twice.
THEOREM TypeCorrect == Spec => []TypeOK
<1>1. Inv => TypeOK
  BY DEF Inv
<1> QED BY <1>1, InvHolds, PTL

\* Whatever sweeps and removals run meanwhile, and however far ahead the clock of the host
\* is (within the ten minutes that the sweep allows), a key that was injected is in the file
\* until its five minutes are over (sweepExpiredKeysOnHost, cleanupEphemeralKeyByID).
THEOREM LiveKeysStay == Spec => []LiveKeyStays
<1>1. Inv => LiveKeyStays
  BY DEF Inv, Data
<1> QED BY <1>1, InvHolds, PTL

\* An edit that no other command's copy was open at is never undone (the filters of
\* cleanupEphemeralKeyByID and sweepExpiredKeysOnHost).
THEOREM EditsAreKept == Spec => []NoEditIsLost
<1>1. Inv => NoEditIsLost
  BY DEF Inv, Data
<1> QED BY <1>1, InvHolds, PTL

\* Whoever holds the mutex of a host row waits for a command that runs
\* (injectEphemeralKey, cleanupEphemeralKeyByID).
THEOREM HoldersWait == Spec => []HolderWaits
<1>1. Inv => HolderWaits
  BY DEF Inv, TypeOK, Locks, HolderWaits
<1> QED BY <1>1, InvHolds, PTL

\* A key in the file has somebody who will remove it, or whose one attempt has failed
\* (injectEphemeralKey, step 3; cleanupEphemeralKeyByID).
THEOREM KeysHaveRemovers == Spec => []KeyHasRemover
<1>1. Inv => KeyHasRemover
  <2> SUFFICES ASSUME Inv, NEW k \in Keys, InjectedKey(k), k \in file, k \notin torn
               PROVE  due[k] > 0 \/ pc[Tim(k)] \in {"lock", "clean", "missed"}
    BY DEF KeyHasRemover, Tim
  <2>1. due[k] > 0 \/ pc[Tim(k)] \in {"lock", "clean", "missed", "removed"}
    BY DEF Inv, Stages, Stage
  <2>2. pc[Tim(k)] # "removed"
    BY DEF Inv, Data, Removed
  <2> QED BY <2>1, <2>2
<1> QED BY <1>1, InvHolds, PTL

\* A ticket is redeemed once, and the key it hands out works
\* (getAndBurnNativeTicket, handleNativeTerminalTicket).
THEOREM HandedKeysWork == Spec => HandedKeyWorks
<1>1. ASSUME Inv, [Next]_vars, NEW k \in Keys, handed'[k] # handed[k]
      PROVE  handed[k] = 0 /\ (k \in file \/ k \in torn \/ age[k] >= TTL)
  <2>1. PICK j \in Keys : Redeem(j)
    <3>1. ASSUME ~ \E j \in Keys : Redeem(j) PROVE handed' = handed
      <4>1. CASE UNCHANGED vars
        BY <4>1 DEF vars, tickets
      <4>2. ASSUME NEW j \in Keys, Generate(j) \/ Fire(j) \/ Serve(j) PROVE handed' = handed
        BY <4>2 DEF Generate, Fire, Serve, StoreTicket, LaunchReturns, LaunchFails, tickets
      <4>3. ASSUME NEW t \in Tasks, Goroutine(t) PROVE handed' = handed
        BY <4>3 DEF Goroutine, Lock, Begin, ConnectFails, CutOff, tickets
      <4>4. ASSUME NEW s \in Shells, Command(s) PROVE handed' = handed
        BY <4>4 DEF Command, Awk, Mv, Echo, ShellFails, tickets
      <4>5. ASSUME NEW l \in Own, Revoke(l) PROVE handed' = handed
        BY <4>5 DEF Revoke, tickets
      <4>6. CASE Tick \/ Restart
        BY <4>6 DEF Tick, Restart
      <4> QED BY <1>1, <3>1, <4>1, <4>2, <4>3, <4>4, <4>5, <4>6 DEF Next
    <3> QED BY <1>1, <3>1
  <2>2. j = k /\ ticket[k] = "kept"
    BY <1>1, <2>1 DEF Redeem, Deliver, Inv, TypeOK
  <2>3. handed[k] = 0 /\ pc[Inj(k)] = "served" /\ pc[Und(k)] = "off"
    BY <1>1, <2>2 DEF Inv, Stages, Kept
  <2>4. InjectedKey(k) /\ age[k] \in Nat
    BY <1>1, <2>3, Times DEF InjectedKey, Inj, Inv, TypeOK
  <2>5. age[k] < TTL /\ k \notin torn => k \in file
    BY <1>1, <2>3, <2>4 DEF Inv, Data, LiveKeyStays, Und
  <2> QED BY <2>3, <2>4, <2>5, Times
<1>2. Inv /\ [Next]_vars => [\A k \in Keys : handed'[k] # handed[k] =>
                               /\ handed[k] = 0
                               /\ k \in file \/ k \in torn \/ age[k] >= TTL]_vars
  BY <1>1
<1> QED BY <1>2, InvHolds, PTL DEF Spec, HandedKeyWorks

-----------------------------------------------------------------------------
(* One host row: one mutex.                                                 *)

\* As long as no command has been cut off, somebody waits for each that runs.
Heard ==
    cuts = 0 =>
        /\ torn \cap Keys = {}
        /\ \A s \in Shells : shell[s] # "off" => \E t \in Tasks : Waits(t) /\ Awaited(t) = s

OneRow == \A k, l \in Keys : RowOf[k] = RowOf[l]

\* With one mutex no two commands run.
LEMMA OneRuns ==
    ASSUME OneRow, TypeOK, Locks, Heard, cuts = 0,
           NEW s \in Shells, NEW o \in Shells, shell[s] # "off", shell[o] # "off"
    PROVE  s = o
<1>1. PICK t \in Tasks : Waits(t) /\ Awaited(t) = s
  BY DEF Heard
<1>2. PICK u \in Tasks : Waits(u) /\ Awaited(u) = o
  BY DEF Heard
<1>3. Row(t) = Row(u)
  BY TaskIs DEF OneRow, Row, Key
<1>4. mutex[Row(t)] = t /\ mutex[Row(u)] = u
  BY <1>1, <1>2 DEF Locks
<1> QED BY <1>1, <1>2, <1>3, <1>4

\* A goroutine that goes on with another command waits for that one.
LEMMA ResumeHeard ==
    ASSUME TypeOK, Locks, NEW t \in Tasks, Waits(t), NEW done, NEW sh,
           Resume(t, done, sh),
           \A x \in Shells : sh[x] # "off" => \E u \in Tasks \ {t} : Waits(u) /\ Awaited(u) = x,
           sh \in [Shells -> {"off", "started", "read"}],
           NEW s \in Shells, shell'[s] # "off"
    PROVE  \E u \in Tasks : Waits(u)' /\ Awaited(u)' = s
<1>0. pc \in [Tasks -> Step]
  BY DEF TypeOK
<1>1. \A u \in Tasks \ {t} : pc'[u] = pc[u]
  BY <1>0 DEF Resume, Appended, Goto
<1>2. CASE sh[s] # "off"
  <2>1. PICK u \in Tasks \ {t} : Waits(u) /\ Awaited(u) = s
    BY <1>2
  <2>2. pc'[u] = pc[u]
    BY <1>1
  <2>3. Waits(u)' /\ Awaited(u)' = s
    BY <2>1, <2>2 DEF Waits, Awaited
  <2> QED BY <2>3
<1>3. CASE sh[s] = "off"
  <2>1. /\ pc'[t] = "append"
        /\ shell' = [sh EXCEPT ![<<Key(t), "append">>] = "started"]
    BY <1>0, <1>3 DEF Resume, Goto
  <2>2. s = <<Key(t), "append">>
    BY <1>3, <2>1
  <2>3. Waits(t)' /\ Awaited(t)' = s
    BY <2>1, <2>2 DEF Waits, Awaited
  <2> QED BY <2>3
<1> QED BY <1>2, <1>3

LEMMA EndHeard ==
    ASSUME TypeOK, Locks, Heard, cuts = 0, NEW e \in Shells, NEW done, End(e, done),
           NEW s \in Shells, shell'[s] # "off"
    PROVE  \E u \in Tasks : Waits(u)' /\ Awaited(u)' = s
<1> DEFINE sh == [shell EXCEPT ![e] = "off"]
<1>1. /\ sh \in [Shells -> {"off", "started", "read"}]
      /\ \A x \in Shells : sh[x] # "off" => shell[x] # "off" /\ x # e
  BY DEF TypeOK
<1> HIDE DEF sh
<1>2. ASSUME NEW t \in Tasks, Waits(t), Awaited(t) = e, Resume(t, done, sh)
      PROVE  \E u \in Tasks : Waits(u)' /\ Awaited(u)' = s
  <2>1. \A x \in Shells : sh[x] # "off" => \E u \in Tasks \ {t} : Waits(u) /\ Awaited(u) = x
    BY <1>1, <1>2 DEF Heard
  <2> QED BY <1>1, <1>2, <2>1, ResumeHeard
<1>3. CASE shell' = sh /\ UNCHANGED <<mutex, pc, due>>
  <2>1. PICK u \in Tasks : Waits(u) /\ Awaited(u) = s
    BY <1>1, <1>3 DEF Heard
  <2>2. Waits(u)' /\ Awaited(u)' = s
    BY <1>3, <2>1 DEF Waits, Awaited
  <2> QED BY <2>2
<1> QED BY <1>2, <1>3 DEF End, sh

LEMMA HeardStep == OneRow /\ Inv /\ Heard /\ [Next]_vars => Heard'
<1> SUFFICES ASSUME OneRow, TypeOK, Locks, Stages, Heard, [Next]_vars, cuts' = 0
             PROVE  /\ torn' \cap Keys = {}
                    /\ \A s \in Shells : shell'[s] # "off" =>
                          \E t \in Tasks : Waits(t)' /\ Awaited(t)' = s
  BY DEF Heard, Inv
<1>0. pc \in [Tasks -> Step] /\ cuts \in Nat /\ shell \in [Shells -> {"off", "started", "read"}]
  BY KeysAssumption DEF TypeOK
<1>1. ~Restart /\ \A t \in Tasks : ~CutOff(t)
  <2>1. cuts' # cuts + 1
    BY <1>0
  <2> QED BY <2>1 DEF Restart, CutOff
<1>2. UNCHANGED cuts
  BY <1>1 DEF Next, vars, history, Generate, Fire, Serve, StoreTicket, LaunchReturns, LaunchFails,
              Redeem, Deliver, Goroutine, Lock, Begin, ConnectFails, Command, Awk, Mv, Echo,
              ShellFails, Revoke, Tick
<1>3. /\ torn \cap Keys = {}
      /\ \A s \in Shells : shell[s] # "off" => \E t \in Tasks : Waits(t) /\ Awaited(t) = s
  BY <1>2 DEF Heard
<1>a. ASSUME \A t \in Tasks : Waits(t) => pc'[t] = pc[t],
             \A s \in Shells : shell'[s] # "off" => shell[s] # "off"
      PROVE  \A s \in Shells : shell'[s] # "off" => \E t \in Tasks : Waits(t)' /\ Awaited(t)' = s
  <2> SUFFICES ASSUME NEW s \in Shells, shell'[s] # "off"
               PROVE  \E t \in Tasks : Waits(t)' /\ Awaited(t)' = s
    OBVIOUS
  <2>1. PICK t \in Tasks : Waits(t) /\ Awaited(t) = s
    BY <1>3, <1>a
  <2>2. Waits(t)' /\ Awaited(t)' = s
    BY <1>a, <2>1 DEF Waits, Awaited
  <2> QED BY <2>2
<1>b. ASSUME NEW u \in Tasks, NEW l, Goto(u, l), pc[u] \in {"off", "lock", "injected"},
             UNCHANGED <<shell, torn>>
      PROVE  /\ torn' \cap Keys = {}
             /\ \A s \in Shells : shell'[s] # "off" => \E t \in Tasks : Waits(t)' /\ Awaited(t)' = s
  <2>1. \A t \in Tasks : Waits(t) => pc'[t] = pc[t]
    BY <1>0, <1>b DEF Waits, Goto
  <2> QED BY <1>3, <1>a, <1>b, <2>1
<1>c. ASSUME UNCHANGED <<pc, shell, torn>>
      PROVE  /\ torn' \cap Keys = {}
             /\ \A s \in Shells : shell'[s] # "off" => \E t \in Tasks : Waits(t)' /\ Awaited(t)' = s
  BY <1>3, <1>a, <1>c
<1>d. ASSUME NEW s \in Shells, shell[s] # "off", NEW ls, Change(ls, s) PROVE torn' \cap Keys = {}
  <2>1. \A o \in Shells \ {s} : shell[o] # "read"
    BY <1>2, <1>d, OneRuns
  <2> QED BY <1>3, <1>d, <2>1 DEF Change
<1>4. CASE UNCHANGED vars
  BY <1>4, <1>c DEF vars, host, history
<1>5. ASSUME NEW k \in Keys, Generate(k)
      PROVE  /\ torn' \cap Keys = {}
             /\ \A s \in Shells : shell'[s] # "off" => \E t \in Tasks : Waits(t)' /\ Awaited(t)' = s
  BY <1>5, <1>b, TaskIs DEF Generate, Inj, host, history
<1>6. ASSUME NEW k \in Keys, Fire(k)
      PROVE  /\ torn' \cap Keys = {}
             /\ \A s \in Shells : shell'[s] # "off" => \E t \in Tasks : Waits(t)' /\ Awaited(t)' = s
  <2>1. pc[Tim(k)] = "off" /\ Tim(k) \in Tasks
    BY <1>6, TaskIs DEF Fire, Stages, Stage
  <2> QED BY <1>6, <1>b, <2>1 DEF Fire, Tim, host, history
<1>7. ASSUME NEW k \in Keys, Serve(k)
      PROVE  /\ torn' \cap Keys = {}
             /\ \A s \in Shells : shell'[s] # "off" => \E t \in Tasks : Waits(t)' /\ Awaited(t)' = s
  <2>1. /\ pc[Inj(k)] = "injected" /\ pc[Und(k)] = "off" /\ UNCHANGED <<shell, torn>>
        /\ \A t \in Tasks \ {Inj(k), Und(k)} : pc'[t] = pc[t]
    BY <1>0, <1>7, TaskIs
       DEF Serve, StoreTicket, LaunchReturns, LaunchFails, Goto, Inj, Und, Stages, Stage, host,
           history
  <2>2. \A t \in Tasks : Waits(t) => pc'[t] = pc[t]
    BY <2>1 DEF Waits
  <2> QED BY <1>3, <1>a, <2>1, <2>2
<1>8. ASSUME NEW k \in Keys, Redeem(k)
      PROVE  /\ torn' \cap Keys = {}
             /\ \A s \in Shells : shell'[s] # "off" => \E t \in Tasks : Waits(t)' /\ Awaited(t)' = s
  BY <1>8, <1>c DEF Redeem, Deliver, host, history
<1>9. ASSUME NEW u \in Tasks, Lock(u)
      PROVE  /\ torn' \cap Keys = {}
             /\ \A s \in Shells : shell'[s] # "off" => \E t \in Tasks : Waits(t)' /\ Awaited(t)' = s
  <2> DEFINE c == IF Injects(u) THEN <<Key(u), "sweep">> ELSE u
  <2>1. /\ pc[u] = "lock" /\ shell' = [shell EXCEPT ![c] = "started"] /\ UNCHANGED torn
        /\ Goto(u, IF Injects(u) THEN "sweep" ELSE "clean")
    BY <1>9 DEF Lock, Begin, history
  <2>2. pc'[u] = (IF Injects(u) THEN "sweep" ELSE "clean") /\ \A t \in Tasks \ {u} : pc'[t] = pc[t]
    BY <1>0, <2>1 DEF Goto
  <2>3. Waits(u)' /\ Awaited(u)' = c
    BY <2>2 DEF Waits, Awaited
  <2> HIDE DEF c
  <2>4. ASSUME NEW s \in Shells, shell'[s] # "off"
        PROVE  \E t \in Tasks : Waits(t)' /\ Awaited(t)' = s
    <3>1. CASE s = c
      BY <2>3, <3>1
    <3>2. CASE s # c
      <4>1. PICK t \in Tasks : Waits(t) /\ Awaited(t) = s
        BY <1>0, <1>3, <2>1, <2>4, <3>2
      <4>2. pc'[t] = pc[t]
        BY <2>1, <2>2, <4>1 DEF Waits
      <4>3. Waits(t)' /\ Awaited(t)' = s
        BY <4>1, <4>2 DEF Waits, Awaited
      <4> QED BY <4>3
    <3> QED BY <3>1, <3>2
  <2> QED BY <1>3, <2>1, <2>4
<1>10. ASSUME NEW u \in Tasks, ConnectFails(u)
       PROVE  /\ torn' \cap Keys = {}
              /\ \A s \in Shells : shell'[s] # "off" => \E t \in Tasks : Waits(t)' /\ Awaited(t)' = s
  BY <1>10, <1>b DEF ConnectFails, host, history
<1>11. ASSUME NEW c \in Shells, Command(c)
       PROVE  /\ torn' \cap Keys = {}
              /\ \A s \in Shells : shell'[s] # "off" => \E t \in Tasks : Waits(t)' /\ Awaited(t)' = s
  <2>1. CASE Awk(c)
    <3>1. /\ shell[c] = "started" /\ shell' = [shell EXCEPT ![c] = "read"] /\ UNCHANGED <<pc, torn>>
      BY <2>1 DEF Awk, history
    <3>2. \A s \in Shells : shell'[s] # "off" => shell[s] # "off"
      BY <1>0, <3>1
    <3> QED BY <1>3, <1>a, <3>1, <3>2
  <2>2. CASE Mv(c) \/ Echo(c) \/ ShellFails(c)
    <3>1. \A s \in Shells : shell'[s] # "off" => \E t \in Tasks : Waits(t)' /\ Awaited(t)' = s
      BY <1>2, <2>2, EndHeard DEF Mv, Echo, ShellFails
    <3>2. CASE Mv(c)
      BY <1>d, <3>1, <3>2 DEF Mv
    <3>3. CASE Echo(c)
      BY <1>d, <3>1, <3>3 DEF Echo
    <3>4. CASE ShellFails(c)
      BY <1>3, <3>1, <3>4 DEF ShellFails, history
    <3> QED BY <2>2, <3>2, <3>3, <3>4
  <2> QED BY <1>11, <2>1, <2>2 DEF Command
<1>12. ASSUME NEW l \in Own, Revoke(l)
       PROVE  /\ torn' \cap Keys = {}
              /\ \A s \in Shells : shell'[s] # "off" => \E t \in Tasks : Waits(t)' /\ Awaited(t)' = s
  <2>1. torn' \cap Keys = {}
    BY <1>3, <1>12, KeysAssumption DEF Revoke, Change
  <2> QED BY <1>12, <1>a, <2>1 DEF Revoke
<1>13. CASE Tick
  BY <1>13, <1>c DEF Tick, host, history
<1> QED BY <1>1, <1>4, <1>5, <1>6, <1>7, <1>8, <1>9, <1>10, <1>11, <1>12, <1>13
        DEF Next, Goroutine

\* As long as one host row stands for the machine and no command is given up, commands do not
\* fight for a key (getHostKeyMutex).
THEOREM OnlyOrphansTear ==
    ASSUME \A k, l \in Keys : RowOf[k] = RowOf[l]
    PROVE  Spec => []TornByOrphans
<1>0. OneRow
  BY DEF OneRow
<1>1. Init => Heard
  BY DEF Init, Heard
<1>2. Inv /\ Heard /\ [Next]_vars => Heard'
  BY <1>0, HeardStep
<1>3. Inv /\ Heard => TornByOrphans
  BY KeysAssumption DEF Inv, TypeOK, Heard, TornByOrphans
<1> QED BY <1>1, <1>2, <1>3, InvHolds, PTL DEF Spec
-----------------------------------------------------------------------------
(* A key is removed, as far as that can be said without fairness.           *)

\* A command can take its next step: an append has one, a filter writes its copy and
\* puts it in the place of the file.
CanRun(c) == shell[c] = "started" \/ (shell[c] = "read" /\ c[2] # "append")

\* Whoever has the mutex of row r waits for a command that can run.
HolderRuns(r) == \E t \in Tasks : mutex[r] = t /\ Waits(t) /\ CanRun(Awaited(t))

\* The removal of a key in the file can go on: time passes, its timer fires, it gets the
\* mutex, or the command that keeps the mutex from it, or that is its own, can run.
RemovalMoves ==
    \A k \in Keys :
        InjectedKey(k) /\ k \in file /\ k \notin torn /\ pc[<<k, "timer">>] # "missed" =>
            \/ due[k] > 0 /\ (age[k] >= due[k] \/ age[k] < Old)
            \/ pc[<<k, "timer">>] = "lock" /\ mutex[RowOf[k]] = None
            \/ HolderRuns(RowOf[k])

\* Nobody holds a mutex without a command that can run.
LEMMA RowsGoOn ==
    ASSUME Inv, NEW r \in Rows, mutex[r] # None
    PROVE  HolderRuns(r)
<1>0. TypeOK /\ Locks /\ Copies
  BY DEF Inv, Data
<1>1. PICK t \in Tasks : mutex[r] = t
  BY <1>0 DEF TypeOK
<1>2. Waits(t) /\ shell[Awaited(t)] # "off"
  BY <1>0, <1>1 DEF Locks
<1>3. Awaited(t) \in Shells
  BY <1>0, <1>2, AwaitedIs
<1>4. CanRun(Awaited(t))
  BY <1>0, <1>2, <1>3 DEF TypeOK, CanRun, Copies
<1> QED BY <1>1, <1>2, <1>4 DEF HolderRuns

\* As long as the one removal of an injected key has not failed and no command that was
\* cut off has interfered, something that brings it about can happen: the key never waits
\* for a timer that is not set, for a mutex nobody will release, or for a command that
\* is gone (injectEphemeralKey, step 3; cleanupEphemeralKeyByID).  What KeyGoes adds is
\* that it does happen.
THEOREM RemovalGoesOn == Spec => []RemovalMoves
<1>1. Inv /\ KeyHasRemover => RemovalMoves
  <2> SUFFICES ASSUME Inv, KeyHasRemover, NEW k \in Keys, InjectedKey(k), k \in file,
                      k \notin torn, pc[Tim(k)] # "missed"
               PROVE  \/ due[k] > 0 /\ (age[k] >= due[k] \/ age[k] < Old)
                      \/ pc[Tim(k)] = "lock" /\ mutex[RowOf[k]] = None
                      \/ HolderRuns(RowOf[k])
    BY DEF RemovalMoves, Tim
  <2>0. TypeOK /\ Locks /\ RowOf[k] \in Rows /\ Tim(k) \in Tasks
    BY KeysAssumption, TaskIs DEF Inv
  <2>1. due[k] > 0 \/ pc[Tim(k)] \in {"lock", "clean"}
    BY DEF KeyHasRemover, Tim
  <2>2. CASE due[k] > 0
    <3>1. age[k] \in 0..Old /\ due[k] \in 0..Old /\ Old \in Nat
      BY <2>0, Times DEF TypeOK
    <3> QED BY <2>2, <3>1
  <2>3. CASE pc[Tim(k)] = "lock"
    BY <2>0, <2>3, RowsGoOn
  <2>4. CASE pc[Tim(k)] = "clean"
    <3>1. mutex[Row(Tim(k))] = Tim(k) /\ Row(Tim(k)) = RowOf[k]
      BY <2>0, <2>4 DEF Locks, Waits, Row, Key, Tim
    <3>2. mutex[RowOf[k]] # None
      BY <2>0, <3>1, TaskIs
    <3> QED BY <2>0, <3>2, RowsGoOn
  <2> QED BY <2>1, <2>2, <2>3, <2>4
<1> QED BY <1>1, InvHolds, KeysHaveRemovers, PTL
=============================================================================
