------------------------- MODULE SharedStateProofs --------------------------
(***************************************************************************)
(* Proofs about three parts of the web server that keep in memory what all *)
(* requests share: StorageTriage.tla (the scan of a host), for any number   *)
(* of calls, TunnelPool.tla (the connections of the tunnel), for any number *)
(* of requests and connections, and StatusCache.tla (the snapshot of the    *)
(* page), for any number of handlers and versions.                          *)
(***************************************************************************)
EXTENDS StorageTriage, TunnelPool, StatusCache, TLAPS

-----------------------------------------------------------------------------
(* StorageTriage: the entry in the in-flight map is that of the call past   *)
(* the guard, and only that call is between the two halves of its result.   *)

HoldsEntry == \A s \in Scans : Guarded(s) => flight = s

Between ==
    /\ \A s \in Scans : pc[s] = "result" => last.by \in {"none", s}
    /\ SnapshotIsLast

IInv == TypeOK /\ HoldsEntry /\ Between

LEMMA GotoMoves ==
    ASSUME TypeOK, NEW s \in Scans, NEW l \in Step, Goto(s, l)
    PROVE  /\ pc' \in [Scans -> Step] /\ pc'[s] = l
           /\ \A t \in Scans \ {s} : pc'[t] = pc[t]
BY DEF TypeOK, Goto

LEMMA TypeStep ==
    ASSUME TypeOK, [Next]_vars
    PROVE  TypeOK'
<1> USE StorageAssumption DEF TypeOK, service, cancels
<1>s. Step = {"out", "guard", "dial", "start", "scan", "time", "result", "return", "gone"}
  BY DEF Step
<1>n. Never \in [by : Scan, age : Ages]
  BY DEF Never, Scan, Ages
<1>1. CASE UNCHANGED vars
  BY <1>1 DEF vars
<1>2. ASSUME NEW s \in Scans, Check(s) \/ TimeOut(s) PROVE TypeOK'
  BY <1>2, <1>s, GotoMoves DEF Check, TimeOut
<1>3. ASSUME NEW s \in Scans, RunTriage(s) PROVE TypeOK'
  <2>1. CASE Guard(s)
    BY <2>1, <1>s, GotoMoves DEF Guard, Scan
  <2>2. CASE Dial(s) \/ Output(s) \/ CutOff(s)
    BY <2>2, <1>s, GotoMoves DEF Dial, Output, CutOff
  <2>3. CASE Start(s)
    BY <2>3, <1>s, GotoMoves DEF Start
  <2>4. CASE StoreTime(s)
    BY <2>4, <1>s, GotoMoves DEF StoreTime, Scan, Ages
  <2>5. CASE StoreResult(s)
    BY <2>5, <1>s, GotoMoves DEF StoreResult, Scan
  <2>6. CASE Return(s)
    BY <2>6, <1>s, GotoMoves DEF Return, Scan
  <2> QED BY <1>3, <2>1, <2>2, <2>3, <2>4, <2>5, <2>6 DEF RunTriage
<1>4. ASSUME NEW s \in Scans, Watch(s) \/ Abandon(s) \/ RemoteEnds(s)
      PROVE  TypeOK'
  BY <1>4 DEF Watch, Abandon, RemoteEnds
<1>5. CASE Aim \/ Fire
  BY <1>5 DEF Aim, Fire, Scan, Calls
<1>6. CASE Kill \/ KillFails
  BY <1>6 DEF Kill, KillFails
<1>7. CASE Reclaim
  BY <1>7, <1>n DEF Reclaim, Calls
<1>8. CASE Tick
  BY <1>8 DEF Tick, Ages
<1>9. CASE LoadChange
  BY <1>9 DEF LoadChange
<1> QED BY <1>1, <1>2, <1>3, <1>4, <1>5, <1>6, <1>7, <1>8, <1>9 DEF Next

\* Steps that leave the calls where they are.
LEMMA Frame ==
    ASSUME IInv, UNCHANGED <<pc, flight, result>>, last'.by \in {last.by, "none"}
    PROVE  HoldsEntry' /\ Between'
BY DEF IInv, HoldsEntry, Between, SnapshotIsLast, Guarded

\* A call goes on, within the guard or outside of it, and stores nothing.
LEMMA Move ==
    ASSUME IInv, NEW s \in Scans, NEW l \in Step, Goto(s, l),
           pc[s] # "result", l # "result", UNCHANGED <<flight, result, last>>,
           l \in {"dial", "start", "scan", "time", "return"} => Guarded(s)
    PROVE  HoldsEntry' /\ Between'
<1>0. TypeOK /\ HoldsEntry /\ Between
  BY DEF IInv
<1>1. pc'[s] = l /\ \A t \in Scans \ {s} : pc'[t] = pc[t]
  BY <1>0, GotoMoves
<1>2. HoldsEntry'
  BY <1>0, <1>1 DEF HoldsEntry, Guarded
<1>3. Between'
  BY <1>0, <1>1 DEF Between, SnapshotIsLast
<1> QED BY <1>2, <1>3

LEMMA InvStep ==
    ASSUME IInv, [Next]_vars
    PROVE  IInv'
<1>0. TypeOK /\ TypeOK' /\ HoldsEntry /\ Between
  BY TypeStep DEF IInv
<1> SUFFICES HoldsEntry' /\ Between'
  BY <1>0 DEF IInv
<1>s. Step = {"out", "guard", "dial", "start", "scan", "time", "result", "return", "gone"}
  BY DEF Step
<1>1. CASE UNCHANGED vars
  BY <1>1, Frame DEF vars, service
<1>2. ASSUME NEW s \in Scans, Check(s) \/ TimeOut(s) PROVE HoldsEntry' /\ Between'
  BY <1>2, <1>s, Move DEF Check, TimeOut, service, Guarded
<1>3. ASSUME NEW s \in Scans, RunTriage(s) PROVE HoldsEntry' /\ Between'
  <2>1. CASE Guard(s)
    <3>1. CASE flight = "none"
      <4>1. /\ flight' = s /\ pc'[s] = "dial" /\ UNCHANGED <<last, result>>
            /\ \A t \in Scans \ {s} : pc'[t] = pc[t]
        BY <1>0, <1>s, <2>1, <3>1, GotoMoves DEF Guard
      <4>2. \A t \in Scans : ~Guarded(t)
        BY <1>0, <3>1, StorageAssumption DEF HoldsEntry
      <4>3. HoldsEntry'
        BY <4>1, <4>2 DEF HoldsEntry, Guarded
      <4>4. Between'
        BY <1>0, <2>1, <4>1 DEF Between, SnapshotIsLast, Guard
      <4> QED BY <4>3, <4>4
    <3>2. CASE flight # "none"
      BY <1>s, <2>1, <3>2, Move DEF Guard
    <3> QED BY <3>1, <3>2
  <2>2. CASE Dial(s) \/ Start(s) \/ Output(s) \/ CutOff(s)
    <3>1. /\ pc[s] \in {"dial", "start", "scan"} /\ UNCHANGED <<flight, result, last>>
          /\ \E l \in {"start", "scan", "time", "return"} : Goto(s, l)
      BY <2>2 DEF Dial, Start, Output, CutOff, service
    <3> QED BY <1>s, <3>1, Move DEF Guarded
  <2>3. CASE StoreTime(s)
    <3>1. /\ pc[s] = "time" /\ pc'[s] = "result" /\ last'.by = s
          /\ UNCHANGED <<result, flight>> /\ \A t \in Scans \ {s} : pc'[t] = pc[t]
      BY <1>0, <1>s, <2>3, GotoMoves DEF StoreTime
    <3>2. \A t \in Scans \ {s} : ~Guarded(t)
      BY <1>0, <3>1 DEF HoldsEntry, Guarded
    <3>3. HoldsEntry'
      BY <1>0, <3>1 DEF HoldsEntry, Guarded
    <3>4. Between'
      BY <3>1, <3>2 DEF Between, SnapshotIsLast, Guarded
    <3> QED BY <3>3, <3>4
  <2>4. CASE StoreResult(s)
    <3>1. /\ pc[s] = "result" /\ pc'[s] = "return" /\ result' = s
          /\ UNCHANGED <<last, flight>> /\ \A t \in Scans \ {s} : pc'[t] = pc[t]
      BY <1>0, <1>s, <2>4, GotoMoves DEF StoreResult
    <3>2. HoldsEntry'
      BY <1>0, <3>1 DEF HoldsEntry, Guarded
    <3>3. Between'
      BY <1>0, <3>1 DEF Between, SnapshotIsLast
    <3> QED BY <3>2, <3>3
  <2>5. CASE Return(s)
    <3>1. /\ pc[s] = "return" /\ pc'[s] = "gone" /\ UNCHANGED <<last, result>>
          /\ \A t \in Scans \ {s} : pc'[t] = pc[t]
      BY <1>0, <1>s, <2>5, GotoMoves DEF Return
    <3>2. \A t \in Scans \ {s} : ~Guarded(t)
      BY <1>0, <3>1 DEF HoldsEntry, Guarded
    <3>3. HoldsEntry'
      BY <3>1, <3>2 DEF HoldsEntry, Guarded
    <3>4. Between'
      BY <1>0, <3>1 DEF Between, SnapshotIsLast
    <3> QED BY <3>3, <3>4
  <2> QED BY <1>3, <2>1, <2>2, <2>3, <2>4, <2>5 DEF RunTriage
<1>4. ASSUME NEW s \in Scans, Watch(s) \/ Abandon(s) \/ RemoteEnds(s)
      PROVE  HoldsEntry' /\ Between'
  BY <1>4, Frame DEF Watch, Abandon, RemoteEnds, service
<1>5. CASE Aim \/ Fire \/ Kill \/ KillFails \/ LoadChange
  BY <1>5, Frame DEF Aim, Fire, Kill, KillFails,
                            LoadChange, service
<1>6. CASE Reclaim \/ Tick
  <2>1. last'.by \in {last.by, "none"}
    BY <1>0, <1>6 DEF Reclaim, Tick, Never, TypeOK
  <2> QED BY <1>6, <2>1, Frame DEF Reclaim, Tick
<1> QED BY <1>1, <1>2, <1>3, <1>4, <1>5, <1>6 DEF Next

LEMMA Invariance == Spec => []IInv
<1>1. Init => IInv
  <2> SUFFICES ASSUME Init PROVE IInv
    OBVIOUS
  <2>1. TypeOK
    <3>1. last = Never /\ load = 0 /\ kills = 0 /\ pc = [s \in Scans |-> "out"]
      BY DEF Init
    <3>2. kills \in 0..MaxKills /\ load \in 0..2
      BY <3>1, StorageAssumption
    <3>3. last \in [by : Scan, age : Ages]
      BY <3>1 DEF Never, Scan, Ages
    <3>4. pc \in [Scans -> Step]
      BY <3>1 DEF Step
    <3> QED BY <3>2, <3>3, <3>4 DEF Init, TypeOK, Scan
  <2>2. HoldsEntry /\ Between
    BY DEF Init, HoldsEntry, Between, Guarded, SnapshotIsLast, Never
  <2> QED BY <2>1, <2>2 DEF IInv
<1>2. IInv /\ [Next]_vars => IInv'
  BY InvStep
<1> QED BY <1>1, <1>2, PTL DEF Spec

\* The maps of the service, contexts, connections and processes have their types.
THEOREM TypeCorrect == Spec => []TypeOK
<1>1. IInv => TypeOK
  BY DEF IInv
<1> QED BY <1>1, Invariance, PTL

\* RunTriage's in-flight guard, which a refused call leaves alone and only the deferred Delete
\* of the call that took it clears: one call at a time is past it.
THEOREM SingleScan == Spec => []OneScan
<1>1. IInv => OneScan
  BY DEF IInv, HoldsEntry, OneScan
<1> QED BY <1>1, Invariance, PTL

\* lastScanTimes and lastResults are of the same scan, but between the two writes of RunTriage
\* and after a clean-up that has reset the cooldown.
THEOREM SnapshotCurrent == Spec => []SnapshotIsLast
<1>1. IInv => SnapshotIsLast
  BY DEF IInv, Between
<1> QED BY <1>1, Invariance, PTL

\* The entry is that of a call past the guard.
EntryIsHeld == flight # "none" => flight \in Scans /\ Guarded(flight)

\* The entry in the in-flight map is always that of a call that will remove it: a refused
\* call, one whose host is down, and one that is cancelled before its connection is made leave
\* none behind that would keep the host busy for ever (RunTriage, the deferred Delete).
THEOREM EntryHasHolder == Spec => []EntryIsHeld
<1>1. Init => EntryIsHeld
  BY DEF Init, EntryIsHeld
<1>2. IInv /\ EntryIsHeld /\ [Next]_vars => EntryIsHeld'
  <2> SUFFICES ASSUME IInv, EntryIsHeld, [Next]_vars PROVE EntryIsHeld'
    OBVIOUS
  <2>0. TypeOK
    BY DEF IInv
  <2>s. Step = {"out", "guard", "dial", "start", "scan", "time", "result", "return", "gone"}
    BY DEF Step
  <2>a. CASE UNCHANGED <<pc, flight>>
    BY <2>a DEF EntryIsHeld, Guarded
  <2>b. ASSUME NEW s \in Scans, NEW l \in Step, Goto(s, l), UNCHANGED flight,
               Guarded(s) => l \in {"start", "scan", "time", "result", "return"}
        PROVE  EntryIsHeld'
    <3>1. pc'[s] = l /\ \A t \in Scans \ {s} : pc'[t] = pc[t]
      BY <2>0, <2>b, GotoMoves
    <3> QED BY <2>b, <3>1 DEF EntryIsHeld, Guarded
  <2>1. ASSUME NEW s \in Scans, Check(s) \/ TimeOut(s) PROVE EntryIsHeld'
    BY <2>b, <2>s, <2>1 DEF Check, TimeOut, Guarded, service
  <2>2. ASSUME NEW s \in Scans, RunTriage(s) PROVE EntryIsHeld'
    <3>1. CASE Guard(s)
      <4>1. CASE flight = "none"
        <5>1. flight' = s /\ pc'[s] = "dial"
          BY <2>0, <2>s, <3>1, <4>1, GotoMoves DEF Guard
        <5> QED BY <5>1 DEF EntryIsHeld, Guarded
      <4>2. CASE flight # "none"
        BY <2>b, <2>s, <3>1, <4>2 DEF Guard, Guarded
      <4> QED BY <4>1, <4>2
    <3>2. CASE Dial(s) \/ Start(s) \/ Output(s) \/ CutOff(s)
      BY <2>b, <2>s, <3>2 DEF Dial, Start, Output, CutOff, service
    <3>3. CASE StoreTime(s) \/ StoreResult(s)
      BY <2>b, <2>s, <3>3 DEF StoreTime, StoreResult
    <3>4. CASE Return(s)
      BY <3>4 DEF Return, EntryIsHeld
    <3> QED BY <2>2, <3>1, <3>2, <3>3, <3>4 DEF RunTriage
  <2>3. CASE \/ \E s \in Scans : Watch(s) \/ Abandon(s) \/ RemoteEnds(s)
             \/ Aim \/ Fire \/ Kill \/ KillFails \/ Reclaim \/ Tick \/ LoadChange
             \/ UNCHANGED vars
    <3>1. UNCHANGED <<pc, flight>>
      BY <2>3 DEF Watch, Abandon, RemoteEnds, Aim, Fire, Kill, KillFails, Reclaim, Tick,
           LoadChange, service, vars
    <3> QED BY <2>a, <3>1
  <2> QED BY <2>1, <2>2, <2>3 DEF Next
<1> QED BY <1>1, <1>2, Invariance, PTL DEF Spec

\* CancelTriage has loaded the cancel function of a call, or its context is cancelled.
Cancelling(s) == (aim = s \/ s \in cancelled) /\ Guarded(s)

\* A cancellation is not forgotten before its call has returned: neither between the load of
\* the cancel function and its call, nor by the return of another call, a clean-up or the kill
\* command (CancelTriage, RunTriage).  This is what lets CancelFrees rest on goroutines that
\* only run.
THEOREM CancellationIsKept ==
    Spec => [][\A s \in Scans : Cancelling(s) /\ Guarded(s)' => Cancelling(s)']_vars
<1> DEFINE KeptBy(s) == Cancelling(s) /\ Guarded(s)' => Cancelling(s)'
<1>1. IInv /\ [Next]_vars => \A s \in Scans : KeptBy(s)
  <2> SUFFICES ASSUME IInv, [Next]_vars, NEW s \in Scans, Cancelling(s), Guarded(s)'
               PROVE  aim' = s \/ s \in cancelled'
    BY DEF Cancelling
  <2>0. TypeOK /\ Guarded(s) /\ s # "none"
    BY StorageAssumption DEF IInv, Cancelling
  <2>1. CASE UNCHANGED <<aim, cancelled>>
    BY <2>1 DEF Cancelling
  <2>2. ASSUME NEW t \in Scans, Return(t) PROVE aim' = s \/ s \in cancelled'
    <3>1. pc'[t] = "gone"
      BY <2>0, <2>2, GotoMoves DEF Return, Step
    <3>2. t # s
      BY <3>1 DEF Guarded
    <3> QED BY <2>2, <3>2 DEF Return, Cancelling
  <2>3. CASE Fire
    BY <2>0, <2>3 DEF Fire, Cancelling, Calls
  <2>4. CASE Aim
    BY <2>0, <2>4 DEF Aim, Cancelling
  <2>5. ASSUME NEW t \in Scans, Abandon(t) PROVE aim' = s \/ s \in cancelled'
    BY <2>5 DEF Abandon, Cancelling
  <2> QED BY <2>1, <2>2, <2>3, <2>4, <2>5
          DEF Next, RunTriage, Check, Guard, Dial, Watch, Start, Output, CutOff, TimeOut,
              StoreTime, StoreResult, Kill, KillFails, Reclaim, RemoteEnds, Tick, LoadChange,
              cancels, vars
<1>2. (\A s \in Scans : KeptBy(s)) => [\A s \in Scans : KeptBy(s)]_vars
  OBVIOUS
<1> QED BY <1>1, Invariance, PTL DEF Spec

-----------------------------------------------------------------------------
(* TunnelPool: a connection that waits to be put into the pool, or is in    *)
(* it, is nobody's to close.                                                *)

\* n is the connection that request r has made and not put into the pool yet.
Pending(r, n) ==
    \/ tunnelPc[r] = "store" /\ mine[r] = n
    \/ tunnelPc[r] \in {"redial", "replace", "discard"} /\ fresh[r] = n

\* Connections are numbered as they are made.
Numbered ==
    /\ pool <= made /\ prey <= made
    /\ \A r \in Requests : mine[r] <= made /\ fresh[r] <= made /\ victim[r] <= made

\* Whoever closes a connection has taken it out of the pool, or has never put it there.
Apart ==
    \A n \in Runners : n = pool \/ (\E r \in Requests : Pending(r, n)) =>
        /\ state[n] # "closed"
        /\ \A q \in Requests : victim[q] # n
        /\ reaper = "close" => prey # n

\* A connection waits to be put into the pool once, and never has been there.
Once ==
    \A r \in Requests, n \in Runners : Pending(r, n) =>
        n # pool /\ n # prey /\ \A q \in Requests : Pending(q, n) => q = r

TunnelInv == PoolTypeOK /\ Numbered /\ Apart /\ Once

Positions == {"off", "load", "touch", "connect", "store", "dial", "evict", "close",
              "reconnect", "redial", "replace", "discard", "use"}

\* The types hold along every step.
LEMMA TunnelTypeStep ==
    ASSUME PoolTypeOK, [PoolNext]_poolVars
    PROVE  PoolTypeOK'
<1> USE TunnelAssumption DEF PoolTypeOK
<1>a. ASSUME NEW r \in Requests, NEW l \in Positions, MoveTo(r, l)
      PROVE  tunnelPc' \in [Requests -> Positions]
  BY <1>a DEF MoveTo, Positions
<1>b. ASSUME NEW r \in Requests, End(r)
      PROVE  tunnelPc' \in [Requests -> Positions] /\ mine' \in [Requests -> Runners \cup {0}]
  BY <1>b, <1>a DEF End, Positions
<1>c. ASSUME NEW n \in Runners, NEW b \in BOOLEAN, Dialled(n, b)
      PROVE  /\ made' \in Runners /\ heals' \in [Runners -> BOOLEAN]
             /\ state' \in [Runners -> {"none", "open", "lost", "closed"}]
  BY <1>c DEF Dialled
<1>d. ASSUME NEW n, CloseRunner(n)
      PROVE  state' \in [Runners -> {"none", "open", "lost", "closed"}]
  BY <1>d DEF CloseRunner
<1>1. CASE UNCHANGED poolVars
  BY <1>1 DEF poolVars, runner, request, reap
<1>2. ASSUME NEW r \in Requests, Arrive(r) \/ Answer(r) PROVE PoolTypeOK'
  BY <1>2, <1>a, <1>b DEF Arrive, Answer, runner, reap, Positions
<1>3. ASSUME NEW r \in Requests, Request(r) PROVE PoolTypeOK'
  <2>1. CASE Load(r)
    BY <2>1, <1>a DEF Load, runner, reap, Positions
  <2>2. CASE Touch(r)
    BY <2>2, <1>a DEF Touch, runner, reap, Positions
  <2>3. CASE Connect(r)
    <3>1. CASE End(r) /\ UNCHANGED runner
      BY <2>3, <3>1, <1>b DEF Connect, runner, reap, Positions
    <3>2. CASE \E n \in Runners : /\ Dialled(n, TRUE) /\ mine' = [mine EXCEPT ![r] = n]
                                         /\ MoveTo(r, "store")
      <4>1. PICK n \in Runners : /\ Dialled(n, TRUE) /\ mine' = [mine EXCEPT ![r] = n]
                                        /\ MoveTo(r, "store")
        BY <3>2
      <4>2. /\ made' \in Runners /\ heals' \in [Runners -> BOOLEAN]
            /\ state' \in [Runners -> {"none", "open", "lost", "closed"}]
        BY <4>1, <1>c
      <4>3. tunnelPc' \in [Requests -> Positions]
        BY <4>1, <1>a DEF Positions
      <4> QED BY <2>3, <4>1, <4>2, <4>3 DEF Connect, reap, Positions
    <3> QED BY <2>3, <3>1, <3>2 DEF Connect
  <2>4. CASE StoreEntry(r)
    BY <2>4, <1>a DEF StoreEntry, runner, reap, Positions
  <2>5. CASE DialContext(r)
    BY <2>5, <1>a, <1>b DEF DialContext, runner, reap, Positions
  <2>6. CASE Evict(r)
    BY <2>6, <1>a DEF Evict, runner, reap, Positions
  <2>7. CASE CloseVictim(r)
    BY <2>7, <1>a, <1>d DEF CloseVictim, reap, Positions
  <2>8. CASE Reconnect(r)
    <3>1. CASE End(r) /\ UNCHANGED <<runner, fresh>>
      BY <2>8, <3>1, <1>b DEF Reconnect, runner, reap, Positions
    <3>2. CASE \E n \in Runners : /\ Dialled(n, FALSE) /\ fresh' = [fresh EXCEPT ![r] = n]
                                         /\ MoveTo(r, "redial") /\ UNCHANGED mine
      <4>1. PICK n \in Runners : /\ Dialled(n, FALSE) /\ fresh' = [fresh EXCEPT ![r] = n]
                                        /\ MoveTo(r, "redial") /\ UNCHANGED mine
        BY <3>2
      <4>2. /\ made' \in Runners /\ heals' \in [Runners -> BOOLEAN]
            /\ state' \in [Runners -> {"none", "open", "lost", "closed"}]
        BY <4>1, <1>c
      <4>3. tunnelPc' \in [Requests -> Positions]
        BY <4>1, <1>a DEF Positions
      <4> QED BY <2>8, <4>1, <4>2, <4>3 DEF Reconnect, reap, Positions
    <3> QED BY <2>8, <3>1, <3>2 DEF Reconnect
  <2>9. CASE Redial(r)
    BY <2>9, <1>a DEF Redial, runner, reap, Positions
  <2>10. CASE Replace(r)
    BY <2>10, <1>a DEF Replace, runner, reap, Positions
  <2>11. CASE Discard(r)
    BY <2>11, <1>b, <1>d DEF Discard, reap, Positions
  <2> QED BY <1>3, <2>1, <2>2, <2>3, <2>4, <2>5, <2>6, <2>7, <2>8, <2>9, <2>10, <2>11
          DEF Request
<1>4. ASSUME NEW n \in Runners, Age(n) \/ Lose(n) PROVE PoolTypeOK'
  BY <1>4 DEF Age, Lose, runner, request, reap
<1>5. CASE LeaveHost \/ DeleteHost \/ Stop
  <2>1. CASE DeleteHost
    BY <2>1 DEF DeleteHost, runner, request, reap
  <2>2. CASE LeaveHost \/ Stop
    <3>1. pool' = 0 /\ state' \in [Runners -> {"none", "open", "lost", "closed"}]
      BY <2>2, <1>d DEF LeaveHost, Stop, EvictPool
    <3> QED BY <2>2, <3>1 DEF LeaveHost, Stop, request, reap
  <2> QED BY <1>5, <2>1, <2>2
<1>6. CASE Reaper
  <2>1. CASE Visit \/ Reap
    BY <2>1 DEF Visit, Reap, runner, request
  <2>2. CASE ClosePrey
    BY <2>2, <1>d DEF ClosePrey, request
  <2> QED BY <1>6, <2>1, <2>2 DEF Reaper
<1> QED BY <1>1, <1>2, <1>3, <1>4, <1>5, <1>6 DEF PoolNext

\* As long as nobody gets a new connection, or puts one into the pool.
LEMMA TunnelFrame ==
    ASSUME TunnelInv, PoolTypeOK',
           made' = made, pool' \in {pool, 0}, prey' \in {prey, pool, 0},
           \A r \in Requests : /\ mine'[r] \in {mine[r], pool, 0}
                               /\ fresh'[r] \in {fresh[r], 0}
                               /\ victim'[r] \in {victim[r], 0} \/ (victim'[r] = pool /\ pool' = 0),
           \A r \in Requests, n \in Runners : Pending(r, n)' => Pending(r, n),
           \A n \in Runners :
              state'[n] = "closed" =>
                 \/ state[n] = "closed"
                 \/ n # pool' /\ \A r \in Requests : ~Pending(r, n)',
           reaper' = "close" => prey' = prey /\ (reaper = "close" \/ pool' = 0)
    PROVE  Numbered' /\ Apart' /\ Once'
<1>0. Numbered /\ Apart /\ Once /\ made \in Nat /\ pool <= made
  BY DEF TunnelInv, PoolTypeOK, Numbered, Runners
<1>1. Numbered'
  BY <1>0 DEF Numbered
<1>2. Apart'
  <2> SUFFICES ASSUME NEW n \in Runners, n = pool' \/ (\E r \in Requests : Pending(r, n)')
               PROVE  /\ state'[n] # "closed"
                      /\ \A q \in Requests : victim'[q] # n
                      /\ reaper' = "close" => prey' # n
    BY DEF Apart, Runners
  <2>0. n # 0
    BY DEF Runners
  <2>1. n = pool \/ (\E r \in Requests : Pending(r, n))
    BY <2>0
  <2>2. /\ state[n] # "closed" /\ \A q \in Requests : victim[q] # n
        /\ reaper = "close" => prey # n
    BY <1>0, <2>1 DEF Apart
  <2>3. pool' = 0 => n # pool /\ n # prey
    BY <1>0, <2>0 DEF Once
  <2> QED BY <2>0, <2>2, <2>3
<1>3. Once'
  <2> SUFFICES ASSUME NEW r \in Requests, NEW n \in Runners, Pending(r, n)'
               PROVE  n # pool' /\ n # prey' /\ \A q \in Requests : Pending(q, n)' => q = r
    BY DEF Once, Runners
  <2>1. n # 0 /\ n # pool /\ n # prey /\ \A q \in Requests : Pending(q, n) => q = r
    BY <1>0 DEF Once, Runners
  <2> QED BY <2>1
<1> QED BY <1>1, <1>2, <1>3

\* A new connection is in the hands of one request.
LEMMA TunnelNew ==
    ASSUME TunnelInv, PoolTypeOK', NEW r \in Requests, NEW n \in Runners, n = made + 1,
           made' = n, UNCHANGED <<pool, victim, reaper, prey>>,
           state'[n] = "open", \A m \in Runners \ {n} : state'[m] = state[m],
           \A q \in Requests : mine'[q] \in {mine[q], n} /\ fresh'[q] \in {fresh[q], n},
           \A q \in Requests, m \in Runners : Pending(q, m)' => Pending(q, m) \/ (q = r /\ m = n)
    PROVE  Numbered' /\ Apart' /\ Once'
<1>0. /\ Numbered /\ Apart /\ Once /\ made \in Nat /\ pool <= made /\ pool \in Nat /\ prey \in Nat
      /\ \A q \in Requests : mine[q] \in Nat /\ fresh[q] \in Nat /\ victim[q] \in Nat
      /\ state \in [Runners -> {"none", "open", "lost", "closed"}]
  BY DEF TunnelInv, PoolTypeOK, Numbered, Runners
<1>1. Numbered'
  BY <1>0 DEF Numbered
<1>2. /\ n # pool /\ n # prey /\ \A q \in Requests : victim[q] # n /\ ~Pending(q, n)
  BY <1>0 DEF Numbered, Pending
<1>3. Apart'
  <2> SUFFICES ASSUME NEW m \in Runners, m = pool' \/ (\E q \in Requests : Pending(q, m)')
               PROVE  /\ state'[m] # "closed"
                      /\ \A q \in Requests : victim'[q] # m
                      /\ reaper' = "close" => prey' # m
    BY DEF Apart, Runners
  <2>1. CASE m = n
    BY <1>0, <1>2, <2>1
  <2>2. CASE m # n
    BY <1>0, <2>2 DEF Apart
  <2> QED BY <2>1, <2>2
<1>4. Once'
  <2> SUFFICES ASSUME NEW x \in Requests, NEW m \in Runners, Pending(x, m)'
               PROVE  m # pool' /\ m # prey' /\ \A q \in Requests : Pending(q, m)' => q = x
    BY DEF Once, Runners
  <2>1. CASE m = n
    BY <1>2, <2>1
  <2>2. CASE m # n
    BY <1>0, <2>2 DEF Once
  <2> QED BY <2>1, <2>2
<1> QED BY <1>1, <1>3, <1>4

\* A request puts its connection into the pool.
LEMMA TunnelPut ==
    ASSUME TunnelInv, PoolTypeOK', NEW r \in Requests, pool' \in Runners => Pending(r, pool'),
           pool' <= made, UNCHANGED <<made, state, victim, reaper, prey>>,
           \A q \in Requests : mine'[q] <= made /\ fresh'[q] \in {fresh[q], 0},
           \A q \in Requests, m \in Runners : Pending(q, m)' => q # r /\ Pending(q, m)
    PROVE  Numbered' /\ Apart' /\ Once'
<1>0. Numbered /\ Apart /\ Once /\ made \in Nat
  BY DEF TunnelInv, PoolTypeOK, Runners
<1>1. Numbered'
  BY <1>0 DEF Numbered
<1>2. Apart'
  BY <1>0 DEF Apart, Runners
<1>3. Once'
  <2> SUFFICES ASSUME NEW x \in Requests, NEW m \in Runners, Pending(x, m)'
               PROVE  m # pool' /\ m # prey' /\ \A q \in Requests : Pending(q, m)' => q = x
    BY DEF Once, Runners
  <2>1. m # pool'
    BY <1>0 DEF Once
  <2> QED BY <1>0, <2>1 DEF Once
<1> QED BY <1>1, <1>2, <1>3

LEMMA TunnelStep ==
    ASSUME TunnelInv, [PoolNext]_poolVars
    PROVE  TunnelInv'
<1>0. /\ PoolTypeOK /\ PoolTypeOK' /\ Numbered /\ Apart /\ Once
      /\ tunnelPc \in [Requests -> Positions] /\ mine \in [Requests -> Runners \cup {0}]
      /\ fresh \in [Requests -> Runners \cup {0}]
      /\ victim \in [Requests -> Runners \cup {0}]
      /\ state \in [Runners -> {"none", "open", "lost", "closed"}]
  BY TunnelTypeStep DEF TunnelInv, PoolTypeOK, Positions
<1> SUFFICES Numbered' /\ Apart' /\ Once'
  BY <1>0 DEF TunnelInv
\* Only the connection n is closed.
<1>a. ASSUME NEW n, CloseRunner(n)
      PROVE  \A m \in Runners : state'[m] = "closed" => state[m] = "closed" \/ m = n
  BY <1>0, <1>a DEF CloseRunner
\* A request is at another position, from which it puts nothing into the pool.
<1>b. ASSUME NEW r \in Requests, NEW l, MoveTo(r, l), UNCHANGED fresh,
             \A q \in Requests : mine'[q] = mine[q] \/ q = r,
             l \notin {"store", "redial", "replace", "discard"}
             \/ (l \in {"replace", "discard"} /\ tunnelPc[r] = "redial")
      PROVE  \A q \in Requests, n \in Runners :
                Pending(q, n)' => Pending(q, n) /\ (l \in {"replace", "discard"} \/ q # r)
  <2>1. tunnelPc'[r] = l /\ \A q \in Requests \ {r} : tunnelPc'[q] = tunnelPc[q]
    BY <1>0, <1>b DEF MoveTo
  <2> QED BY <1>b, <2>1 DEF Pending
<1>1. CASE UNCHANGED poolVars
  BY <1>0, <1>1, TunnelFrame DEF poolVars, runner, request, reap, Pending
<1>2. ASSUME NEW r \in Requests, Arrive(r) \/ Answer(r)
      PROVE  Numbered' /\ Apart' /\ Once'
  <2>1. PICK l \in {"load", "off"} : /\ MoveTo(r, l) /\ UNCHANGED <<fresh, pool, victim>>
                                     /\ UNCHANGED <<made, state, reaper, prey>>
                                     /\ \A q \in Requests :
                                           mine'[q] = mine[q] \/ (q = r /\ mine'[q] = 0)
    BY <1>0, <1>2 DEF Arrive, Answer, End, runner, reap
  <2>2. \A q \in Requests, n \in Runners : Pending(q, n)' => Pending(q, n)
    BY <2>1, <1>b
  <2> QED BY <1>0, <2>1, <2>2, TunnelFrame
<1>3. ASSUME NEW r \in Requests, Request(r) PROVE Numbered' /\ Apart' /\ Once'
  <2>1. CASE Load(r)
    <3>1. PICK l \in {"connect", "touch"} : MoveTo(r, l)
      BY <2>1 DEF Load
    <3>2. /\ UNCHANGED <<fresh, pool, victim, made, state, reaper, prey>>
          /\ \A q \in Requests : mine'[q] = mine[q] \/ (q = r /\ mine'[q] = pool)
      BY <1>0, <2>1 DEF Load, runner, reap
    <3>3. \A q \in Requests, n \in Runners : Pending(q, n)' => Pending(q, n)
      BY <3>1, <3>2, <1>b
    <3> QED BY <1>0, <3>2, <3>3, TunnelFrame
  <2>2. CASE Touch(r) \/ DialContext(r)
    <3>1. PICK l \in {"dial", "use", "evict", "off"} : MoveTo(r, l)
      BY <2>2 DEF Touch, DialContext, End
    <3>2. /\ UNCHANGED <<fresh, pool, victim, made, state, reaper, prey>>
          /\ \A q \in Requests : mine'[q] = mine[q] \/ (q = r /\ mine'[q] = 0)
      BY <1>0, <2>2 DEF Touch, DialContext, End, runner, reap
    <3>3. \A q \in Requests, n \in Runners : Pending(q, n)' => Pending(q, n)
      BY <3>1, <3>2, <1>b
    <3> QED BY <1>0, <3>2, <3>3, TunnelFrame
  <2>3. CASE Connect(r)
    <3>1. CASE End(r) /\ UNCHANGED runner
      <4>1. /\ UNCHANGED <<fresh, pool, victim, made, state, reaper, prey>> /\ MoveTo(r, "off")
            /\ \A q \in Requests : mine'[q] = mine[q] \/ (q = r /\ mine'[q] = 0)
        BY <1>0, <2>3, <3>1 DEF Connect, End, runner, reap
      <4>2. \A q \in Requests, n \in Runners : Pending(q, n)' => Pending(q, n)
        BY <4>1, <1>b
      <4> QED BY <1>0, <4>1, <4>2, TunnelFrame
    <3>2. ASSUME NEW n \in Runners, Dialled(n, TRUE), mine' = [mine EXCEPT ![r] = n],
                 MoveTo(r, "store")
          PROVE  Numbered' /\ Apart' /\ Once'
      <4>1. /\ n = made + 1 /\ made' = n
            /\ state'[n] = "open" /\ \A m \in Runners \ {n} : state'[m] = state[m]
            /\ UNCHANGED <<fresh, pool, victim, reaper, prey>>
        BY <1>0, <2>3, <3>2 DEF Connect, Dialled, reap
      <4>2. /\ tunnelPc'[r] = "store" /\ mine'[r] = n
            /\ \A q \in Requests \ {r} : tunnelPc'[q] = tunnelPc[q] /\ mine'[q] = mine[q]
        BY <1>0, <3>2 DEF MoveTo
      <4>3. \A q \in Requests, m \in Runners :
               Pending(q, m)' => Pending(q, m) \/ (q = r /\ m = n)
        BY <4>1, <4>2 DEF Pending
      <4>4. \A q \in Requests : mine'[q] \in {mine[q], n} /\ fresh'[q] \in {fresh[q], n}
        BY <4>1, <4>2
      <4> QED BY <1>0, <4>1, <4>3, <4>4, TunnelNew
    <3> QED BY <2>3, <3>1, <3>2 DEF Connect
  <2>4. CASE StoreEntry(r)
    <3>1. /\ tunnelPc[r] = "store" /\ pool' = mine[r] /\ MoveTo(r, "dial")
          /\ UNCHANGED <<mine, fresh, victim, made, state, reaper, prey>>
      BY <2>4 DEF StoreEntry, runner, reap
    <3>2. \A q \in Requests, m \in Runners : Pending(q, m)' => q # r /\ Pending(q, m)
      BY <3>1, <1>b
    <3>3. Pending(r, pool') /\ pool' <= made /\ \A q \in Requests : mine'[q] <= made
      BY <1>0, <3>1 DEF Pending, Numbered
    <3> QED BY <1>0, <3>1, <3>2, <3>3, TunnelPut
  <2>5. CASE Evict(r)
    <3>1. PICK l \in {"reconnect", "close"} : MoveTo(r, l)
      BY <2>5 DEF Evict
    <3>2. /\ UNCHANGED <<mine, fresh, made, state, reaper, prey>> /\ pool' = 0
          /\ \A q \in Requests : victim'[q] = victim[q] \/ victim'[q] = pool
      BY <1>0, <2>5 DEF Evict, runner, reap
    <3>3. \A q \in Requests, n \in Runners : Pending(q, n)' => Pending(q, n)
      BY <3>1, <3>2, <1>b
    <3> QED BY <1>0, <3>2, <3>3, TunnelFrame
  <2>6. CASE CloseVictim(r)
    <3>1. /\ MoveTo(r, "reconnect") /\ UNCHANGED <<mine, fresh, made, pool, reaper, prey>>
          /\ CloseRunner(victim[r])
          /\ \A q \in Requests : victim'[q] \in {victim[q], 0}
      BY <1>0, <2>6 DEF CloseVictim, reap
    <3>2. \A q \in Requests, n \in Runners : Pending(q, n)' => Pending(q, n)
      BY <3>1, <1>b
    <3>3. \A m \in Runners : state'[m] = "closed" => state[m] = "closed" \/ m = victim[r]
      BY <3>1, <1>a
    <3>4. \A m \in Runners : m = victim[r] => m # pool /\ \A q \in Requests : ~Pending(q, m)
      BY <1>0 DEF Apart
    <3> QED BY <1>0, <3>1, <3>2, <3>3, <3>4, TunnelFrame
  <2>7. CASE Reconnect(r)
    <3>1. CASE End(r) /\ UNCHANGED <<runner, fresh>>
      <4>1. /\ UNCHANGED <<fresh, pool, victim, made, state, reaper, prey>> /\ MoveTo(r, "off")
            /\ \A q \in Requests : mine'[q] = mine[q] \/ (q = r /\ mine'[q] = 0)
        BY <1>0, <2>7, <3>1 DEF Reconnect, End, runner, reap
      <4>2. \A q \in Requests, n \in Runners : Pending(q, n)' => Pending(q, n)
        BY <4>1, <1>b
      <4> QED BY <1>0, <4>1, <4>2, TunnelFrame
    <3>2. ASSUME NEW n \in Runners, Dialled(n, FALSE), fresh' = [fresh EXCEPT ![r] = n],
                 MoveTo(r, "redial"), UNCHANGED mine
          PROVE  Numbered' /\ Apart' /\ Once'
      <4>1. /\ n = made + 1 /\ made' = n
            /\ state'[n] = "open" /\ \A m \in Runners \ {n} : state'[m] = state[m]
            /\ UNCHANGED <<mine, pool, victim, reaper, prey>>
        BY <1>0, <2>7, <3>2 DEF Reconnect, Dialled, reap
      <4>2. /\ tunnelPc'[r] = "redial" /\ fresh'[r] = n
            /\ \A q \in Requests \ {r} : tunnelPc'[q] = tunnelPc[q] /\ fresh'[q] = fresh[q]
        BY <1>0, <3>2 DEF MoveTo
      <4>3. \A q \in Requests, m \in Runners :
               Pending(q, m)' => Pending(q, m) \/ (q = r /\ m = n)
        BY <4>1, <4>2 DEF Pending
      <4>4. \A q \in Requests : mine'[q] \in {mine[q], n} /\ fresh'[q] \in {fresh[q], n}
        BY <4>1, <4>2
      <4> QED BY <1>0, <4>1, <4>3, <4>4, TunnelNew
    <3> QED BY <2>7, <3>1, <3>2 DEF Reconnect
  <2>8. CASE Redial(r)
    <3>1. PICK l \in {"replace", "discard"} : MoveTo(r, l)
      BY <2>8 DEF Redial
    <3>2. UNCHANGED <<mine, fresh, pool, victim, made, state, reaper, prey>> /\ tunnelPc[r] = "redial"
      BY <2>8 DEF Redial, runner, reap
    <3>3. \A q \in Requests, n \in Runners : Pending(q, n)' => Pending(q, n)
      BY <3>1, <3>2, <1>b
    <3> QED BY <1>0, <3>2, <3>3, TunnelFrame
  <2>9. CASE Replace(r)
    <3>1. /\ tunnelPc[r] = "replace" /\ pool' = fresh[r]
          /\ tunnelPc'[r] = "use" /\ \A q \in Requests \ {r} : tunnelPc'[q] = tunnelPc[q]
          /\ \A q \in Requests \ {r} : fresh'[q] = fresh[q] /\ mine'[q] = mine[q]
          /\ fresh'[r] = 0 /\ mine'[r] = fresh[r]
          /\ UNCHANGED <<victim, made, state, reaper, prey>>
      BY <1>0, <2>9 DEF Replace, MoveTo, runner, reap
    <3>2. \A q \in Requests, m \in Runners : Pending(q, m)' => q # r /\ Pending(q, m)
      BY <3>1 DEF Pending
    <3>3. Pending(r, pool') /\ pool' <= made /\ \A q \in Requests : mine'[q] <= made
      BY <1>0, <3>1 DEF Pending, Numbered
    <3> QED BY <1>0, <3>1, <3>2, <3>3, TunnelPut
  <2>10. CASE Discard(r)
    <3>1. /\ tunnelPc[r] = "discard" /\ CloseRunner(fresh[r])
          /\ tunnelPc'[r] = "off" /\ \A q \in Requests \ {r} : tunnelPc'[q] = tunnelPc[q]
          /\ \A q \in Requests : fresh'[q] \in {fresh[q], 0} /\ mine'[q] \in {mine[q], 0}
          /\ \A q \in Requests \ {r} : fresh'[q] = fresh[q] /\ mine'[q] = mine[q]
          /\ UNCHANGED <<pool, victim, made, reaper, prey>>
      BY <1>0, <2>10 DEF Discard, End, MoveTo, reap
    <3>2. \A q \in Requests, m \in Runners : Pending(q, m)' => q # r /\ Pending(q, m)
      BY <3>1 DEF Pending
    <3>3. \A m \in Runners : state'[m] = "closed" => state[m] = "closed" \/ m = fresh[r]
      BY <3>1, <1>a
    <3>4. \A m \in Runners : m = fresh[r] =>
             m # pool /\ \A q \in Requests : Pending(q, m) => q = r
      BY <1>0, <3>1 DEF Once, Pending
    <3>5. ASSUME NEW m \in Runners, state'[m] = "closed"
          PROVE  state[m] = "closed" \/ (m # pool' /\ \A q \in Requests : ~Pending(q, m)')
      BY <3>1, <3>2, <3>3, <3>4, <3>5
    <3> QED BY <1>0, <3>1, <3>2, <3>5, TunnelFrame
  <2> QED BY <1>3, <2>1, <2>2, <2>3, <2>4, <2>5, <2>6, <2>7, <2>8, <2>9, <2>10 DEF Request
<1>4. ASSUME NEW n \in Runners, Age(n) \/ Lose(n)
      PROVE  Numbered' /\ Apart' /\ Once'
  <2>1. /\ UNCHANGED <<tunnelPc, mine, fresh, victim, pool, made, reaper, prey>>
        /\ \A m \in Runners : state'[m] = "closed" => state[m] = "closed"
    BY <1>0, <1>4 DEF Age, Lose, runner, request, reap
  <2>2. \A q \in Requests, m \in Runners : Pending(q, m)' => Pending(q, m)
    BY <2>1 DEF Pending
  <2> QED BY <1>0, <2>1, <2>2, TunnelFrame
<1>5. CASE LeaveHost \/ DeleteHost \/ Stop
  <2>1. /\ UNCHANGED <<tunnelPc, mine, fresh, victim, made, prey>>
        /\ reaper' = "close" => reaper = "close"
        /\ \/ UNCHANGED <<pool, state>>
           \/ pool' = 0 /\ (CloseRunner(pool) \/ UNCHANGED state)
    BY <1>5 DEF LeaveHost, DeleteHost, Stop, EvictPool,
                runner, request, reap
  <2>2. \A q \in Requests, m \in Runners : Pending(q, m)' => Pending(q, m)
    BY <2>1 DEF Pending
  <2>3. ASSUME NEW m \in Runners, state'[m] = "closed"
        PROVE  state[m] = "closed" \/ (m # pool' /\ \A q \in Requests : ~Pending(q, m)')
    <3>1. state[m] = "closed" \/ (pool' = 0 /\ m = pool)
      BY <2>1, <2>3, <1>a
    <3> QED BY <1>0, <2>2, <3>1 DEF Once, Runners
  <2> QED BY <1>0, <2>1, <2>2, <2>3, TunnelFrame
<1>6. CASE Reaper
  <2>1. UNCHANGED <<tunnelPc, mine, fresh, victim, made>>
    BY <1>6 DEF Reaper, Visit, Reap, ClosePrey, runner,
                request
  <2>2. \A q \in Requests, m \in Runners : Pending(q, m)' => Pending(q, m)
    BY <2>1 DEF Pending
  <2>3. CASE Visit \/ Reap
    BY <1>0, <2>1, <2>2, <2>3, TunnelFrame DEF Visit, Reap, runner
  <2>4. CASE ClosePrey
    <3>1. reaper = "close" /\ reaper' = "asleep" /\ prey' = 0 /\ pool' = pool /\ CloseRunner(prey)
      BY <2>4 DEF ClosePrey
    <3>2. ASSUME NEW m \in Runners, state'[m] = "closed"
          PROVE  state[m] = "closed" \/ (m # pool' /\ \A q \in Requests : ~Pending(q, m)')
      <4>1. state[m] = "closed" \/ m = prey
        BY <3>1, <3>2, <1>a
      <4>2. m = prey => m # pool /\ \A q \in Requests : ~Pending(q, m)
        BY <1>0, <3>1 DEF Apart
      <4> QED BY <2>2, <3>1, <4>1, <4>2
    <3> QED BY <1>0, <2>1, <2>2, <3>1, <3>2, TunnelFrame
  <2> QED BY <1>6, <2>3, <2>4 DEF Reaper
<1> QED BY <1>1, <1>2, <1>3, <1>4, <1>5, <1>6 DEF PoolNext

LEMMA TunnelInvariance == PoolSpec => []TunnelInv
<1>1. PoolInit => TunnelInv
  <2> SUFFICES ASSUME PoolInit PROVE TunnelInv
    OBVIOUS
  <2>1. PoolTypeOK
    BY DEF PoolInit, PoolTypeOK
  <2>2. Numbered /\ Apart /\ Once
    BY DEF PoolInit, Numbered, Apart, Once, Pending, Runners
  <2> QED BY <2>1, <2>2 DEF TunnelInv
<1>2. TunnelInv /\ [PoolNext]_poolVars => TunnelInv'
  BY TunnelStep
<1> QED BY <1>1, <1>2, PTL DEF PoolSpec

\* The pool, its connections and requests have their types.
THEOREM TunnelTypeCorrect == PoolSpec => []PoolTypeOK
<1>1. TunnelInv => PoolTypeOK
  BY DEF TunnelInv
<1> QED BY <1>1, TunnelInvariance, PTL

\* Whatever requests, evictions and the reaper do to the entries of each other
\* (getTunnelTransport, evictTunnelRunner, ReapIdleTunnelRunners), no connection that Pantau
\* has closed is in the pool.
THEOREM PooledOpen == PoolSpec => []PooledIsNotClosed
<1>1. TunnelInv => PooledIsNotClosed
  BY DEF TunnelInv, Apart, PoolTypeOK, PooledIsNotClosed
<1> QED BY <1>1, TunnelInvariance, PTL

-----------------------------------------------------------------------------
(* StatusCache: the invariant says what a rebuild that is under way may     *)
(* count on: unless a notice is waiting or on its way, or a change went by  *)
(* without one, the page is on and the parts that were read are still what  *)
(* they were.                                                               *)

\* Somebody will start another rebuild, or has no reason to.
Announced == notices > 0 \/ (\E h \in Handlers : cachePc[h] # "idle") \/ missed

Rebuilding == Parts \cup {"store"}

\* The parts that a rebuild has read by now.
ReadBy(l) ==
    CASE l = "targets"   -> {"page"}
      [] l = "incidents" -> {"page", "targets"}
      [] l = "updates"   -> {"page", "targets", "incidents"}
      [] l = "store"     -> Parts
      [] OTHER           -> {}

Fresh ==
    ~Announced =>
        /\ at = "wait" => snapshot = Current
        /\ at \in Rebuilding => enabled /\ \A p \in ReadBy(at) : draft[p] = content[p]

CacheInv == CacheTypeOK /\ Fresh

\* What a rebuild may store is a snapshot.
LEMMA SnapshotTypes ==
    /\ Disabled \in Snapshot
    /\ \A c \in [Parts -> Version] : Page(c) \in Snapshot
<1>1. 0 \in Version
  BY CacheAssumption DEF Version
<1> QED BY <1>1 DEF Disabled, Page, Empty, Snapshot

\* The types hold along every step.
LEMMA CacheTypeStep ==
    ASSUME CacheTypeOK, [CacheNext]_cacheVars
    PROVE  CacheTypeOK'
<1> USE CacheAssumption DEF CacheTypeOK, Version, Parts, Phase, db, worker, StepTo, Change
<1>1. CASE UNCHANGED cacheVars
  BY <1>1 DEF cacheVars
<1>2. ASSUME NEW h \in Handlers, NEW on \in BOOLEAN, Switch(h, on) PROVE CacheTypeOK'
  BY <1>2 DEF Switch
<1>3. ASSUME NEW h \in Handlers, SaveTexts(h) PROVE CacheTypeOK'
  BY <1>3 DEF SaveTexts
<1>4. ASSUME NEW h \in Handlers, NEW p \in Parts, Save(h, p) PROVE CacheTypeOK'
  BY <1>4 DEF Save
<1>5. ASSUME NEW h \in Handlers, CreateIncident(h) PROVE CacheTypeOK'
  BY <1>5 DEF CreateIncident
<1>6. ASSUME NEW h \in Handlers, AddEntry(h) PROVE CacheTypeOK'
  BY <1>6 DEF AddEntry
<1>7. ASSUME NEW h \in Handlers, UpdateParent(h) PROVE CacheTypeOK'
  BY <1>7 DEF UpdateParent
<1>8. ASSUME NEW h \in Handlers, AddFails(h) PROVE CacheTypeOK'
  BY <1>8 DEF AddFails
<1>9. ASSUME NEW h \in Handlers, InvalidateStatusPageCache(h) PROVE CacheTypeOK'
  BY <1>9 DEF InvalidateStatusPageCache
<1>10. CASE SaveSilently
  BY <1>10 DEF SaveSilently
<1>11. CASE Ticker \/ TakeNotice \/ Wake \/ Drain
  BY <1>11 DEF Ticker, TakeNotice, Wake, Drain
<1>12. CASE CheckEnabled
  <2>1. snapshot' \in Snapshot
    BY <1>12, SnapshotTypes DEF CheckEnabled
  <2> QED BY <1>12, <2>1 DEF CheckEnabled
<1>13. ASSUME NEW p \in Parts, Read(p) PROVE CacheTypeOK'
  BY <1>13 DEF Read, After
<1>14. CASE ReadFails
  BY <1>14 DEF ReadFails, After
<1>15. CASE StoreSnapshot
  BY <1>15 DEF StoreSnapshot, Snapshot, Page
<1> QED BY <1>1, <1>2, <1>3, <1>4, <1>5, <1>6, <1>7, <1>8, <1>9, <1>10, <1>11, <1>12, <1>13,
           <1>14, <1>15 DEF CacheNext, Worker, Rebuild

\* A handler that has written something has yet to leave its notice.
LEMMA FreshStep ==
    ASSUME CacheInv, [CacheNext]_cacheVars
    PROVE  Fresh'
<1> USE DEF CacheInv, CacheTypeOK, Fresh, Announced, StepTo
<1>1. CASE UNCHANGED cacheVars
  BY <1>1 DEF cacheVars, db, worker, Current
<1>2. ASSUME NEW h \in Handlers, NEW on \in BOOLEAN, Switch(h, on) PROVE Fresh'
  BY <1>2 DEF Switch
<1>3. ASSUME NEW h \in Handlers, SaveTexts(h) PROVE Fresh'
  BY <1>3 DEF SaveTexts
<1>4. ASSUME NEW h \in Handlers, NEW p \in Parts, Save(h, p) PROVE Fresh'
  BY <1>4 DEF Save
<1>5. ASSUME NEW h \in Handlers, CreateIncident(h) PROVE Fresh'
  BY <1>5 DEF CreateIncident
<1>6. ASSUME NEW h \in Handlers, AddEntry(h) PROVE Fresh'
  BY <1>6 DEF AddEntry
<1>7. ASSUME NEW h \in Handlers, UpdateParent(h) PROVE Fresh'
  BY <1>7 DEF UpdateParent
<1>8. ASSUME NEW h \in Handlers, AddFails(h) PROVE Fresh'
  BY <1>8 DEF AddFails
<1>9. ASSUME NEW h \in Handlers, InvalidateStatusPageCache(h) PROVE Fresh'
  BY <1>9 DEF InvalidateStatusPageCache
<1>10. CASE SaveSilently
  BY <1>10 DEF SaveSilently
<1>11. CASE Ticker \/ TakeNotice \/ Wake \/ Drain
  BY <1>11 DEF Ticker, TakeNotice, Wake, Drain, Rebuilding, Parts
<1>12. CASE CheckEnabled
  BY <1>12 DEF CheckEnabled, Current, Disabled, Rebuilding, Parts, ReadBy, db
<1>13. ASSUME NEW p \in Parts, Read(p) PROVE Fresh'
  BY <1>13 DEF Read, After, Rebuilding, Parts, ReadBy, db
<1>14. CASE ReadFails
  BY <1>14 DEF ReadFails
<1>15. CASE StoreSnapshot
  <2> SUFFICES ASSUME ~Announced PROVE snapshot' = Current' /\ at' = "wait"
    BY <1>15 DEF StoreSnapshot, Rebuilding, Parts
  <2>1. enabled /\ \A p \in Parts : draft[p] = content[p]
    BY <1>15 DEF StoreSnapshot, Rebuilding, ReadBy
  <2>2. draft = content
    BY <2>1
  <2> QED BY <1>15, <2>1, <2>2 DEF StoreSnapshot, Current, db
<1> QED BY <1>1, <1>2, <1>3, <1>4, <1>5, <1>6, <1>7, <1>8, <1>9, <1>10, <1>11, <1>12, <1>13,
           <1>14, <1>15 DEF CacheNext, Worker, Rebuild

\* The inductive invariant.
LEMMA CacheInvariance == CacheSpec => []CacheInv
<1>1. CacheInit => CacheInv
  <2> SUFFICES ASSUME CacheInit PROVE CacheInv
    OBVIOUS
  <2>1. {0, 1} \subseteq Version
    BY CacheAssumption DEF Version
  <2>2. content \in [Parts -> Version] /\ draft \in [Parts -> Version]
    BY <2>1 DEF CacheInit, Empty
  <2>3. snapshot \in Snapshot
    BY <2>2, SnapshotTypes DEF CacheInit, Current
  <2>4. CacheTypeOK
    <3>1. enabled \in BOOLEAN /\ cachePc \in [Handlers -> Phase] /\ missed \in BOOLEAN
      BY DEF CacheInit, Phase
    <3>2. notices \in 0..1 /\ at = "check"
      BY DEF CacheInit
    <3> QED BY <2>2, <2>3, <3>1, <3>2 DEF CacheTypeOK
  <2>5. Fresh
    BY DEF CacheInit, Fresh, Rebuilding, Parts
  <2> QED BY <2>4, <2>5 DEF CacheInv
<1>2. CacheInv /\ [CacheNext]_cacheVars => CacheInv'
  BY CacheTypeStep, FreshStep DEF CacheInv
<1> QED BY <1>1, <1>2, PTL DEF CacheSpec

-----------------------------------------------------------------------------

\* Types, for any handlers and versions.
THEOREM CacheTypeCorrect == CacheSpec => []CacheTypeOK
<1>1. CacheInv => CacheTypeOK
  BY DEF CacheInv
<1> QED BY <1>1, CacheInvariance, PTL

\* No notice is lost: once handlers, channel and worker are at rest, the published page is
\* what the database calls for (InvalidateStatusPageCache, startStatusPageCacheWorker).
THEOREM SettledCurrent == CacheSpec => []SettledIsCurrent
<1>1. CacheInv => SettledIsCurrent
  BY DEF CacheInv, CacheTypeOK, Fresh, Announced, SettledIsCurrent
<1> QED BY <1>1, CacheInvariance, PTL

=============================================================================
