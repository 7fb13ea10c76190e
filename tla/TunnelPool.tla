---------------------------- MODULE TunnelPool ----------------------------
(***************************************************************************)
(* The pooled SSH connection behind the web tunnel to one host             *)
(* (internal/web/handlers_tunnel.go): requests that load or make the pool  *)
(* entry and dial through it, the eviction a failed dial causes, and the   *)
(* reaper.  A pool entry, its transport and its runner are one number, in  *)
(* the order in which the SSH connections were made.                       *)
(***************************************************************************)
EXTENDS Integers

CONSTANTS
    Requests,           \* requests to /api/tunnel/<host>/, any number in turn
    Reaps,              \* TRUE if time reaches maxIdle
    MaxRunners          \* bound: SSH connections made

ASSUME TunnelAssumption == Reaps \in BOOLEAN /\ MaxRunners \in Nat

Runners == 1..MaxRunners

VARIABLES
    pool,               \* the entry in tunnelRunners, 0 if none
    made,               \* runners made so far
    state,              \* state[n]: of runner n
    heals,              \* heals[n]: its transport reconnects when a dial fails
    idle,               \* idle[n]: lastUsed is maxIdle ago
    tunnelPc,           \* tunnelPc[r]: what request r does next
    mine,               \* mine[r]: the entry it loaded or made, whose transport it uses
    fresh,              \* fresh[r]: the runner it made after a failed dial
    victim,             \* victim[r]: the entry it has evicted and not closed yet
    host,               \* the hosts row: "there", "leaving" or "gone"
    reaper,             \* what the reaper does: "asleep", "visit", "close" or "stopped"
    prey                \* the entry it visits

runner   == <<made, state, heals>>
request  == <<tunnelPc, mine, fresh, victim>>
reap     == <<reaper, prey>>
poolVars == <<pool, runner, idle, request, host, reap>>

PoolTypeOK ==
    /\ pool \in Runners \cup {0}
    /\ made \in Runners \cup {0}
    /\ state \in [Runners -> {"none", "open", "lost", "closed"}]
    /\ heals \in [Runners -> BOOLEAN]
    /\ idle \in [Runners -> BOOLEAN]
    /\ tunnelPc \in [Requests -> {"off", "load", "touch", "connect", "store", "dial", "evict",
                                  "close", "reconnect", "redial", "replace", "discard", "use"}]
    /\ mine \in [Requests -> Runners \cup {0}]
    /\ fresh \in [Requests -> Runners \cup {0}]
    /\ victim \in [Requests -> Runners \cup {0}]
    /\ host \in {"there", "leaving", "gone"}
    /\ reaper \in {"asleep", "visit", "close", "stopped"}
    /\ prey \in Runners \cup {0}

PoolInit ==
    /\ pool = 0 /\ made = 0
    /\ state = [n \in Runners |-> "none"]
    /\ heals = [n \in Runners |-> FALSE]
    /\ idle = [n \in Runners |-> FALSE]
    /\ tunnelPc = [r \in Requests |-> "off"]
    /\ mine = [r \in Requests |-> 0]
    /\ fresh = [r \in Requests |-> 0]
    /\ victim = [r \in Requests |-> 0]
    /\ host = "there"
    /\ reaper = "asleep" /\ prey = 0

MoveTo(r, l) == tunnelPc' = [tunnelPc EXCEPT ![r] = l]

\* The request is answered or fails, and its locals go.
End(r) == MoveTo(r, "off") /\ mine' = [mine EXCEPT ![r] = 0]

\* The reaper is inside the mutex of entry n.
Locked(n) == reaper = "close" /\ prey = n

\* GetRunnerForHost succeeds: runner n is connected.
Dialled(n, healing) ==
    /\ made < MaxRunners
    /\ n = made + 1
    /\ made' = n
    /\ state' = [state EXCEPT ![n] = "open"]
    /\ heals' = [heals EXCEPT ![n] = healing]

CloseRunner(n) == state' = [state EXCEPT ![n] = IF @ = "none" THEN @ ELSE "closed"]

-----------------------------------------------------------------------------
(* getTunnelTransport.                                                      *)

Arrive(r) ==
    /\ tunnelPc[r] = "off"
    /\ host # "gone"
    /\ MoveTo(r, "load")
    /\ UNCHANGED <<pool, runner, idle, mine, fresh, victim, reap, host>>

Load(r) ==
    /\ tunnelPc[r] = "load"
    /\ mine' = [mine EXCEPT ![r] = pool]
    /\ MoveTo(r, IF pool = 0 THEN "connect" ELSE "touch")
    /\ UNCHANGED <<pool, runner, idle, fresh, victim, reap, host>>

\* lastUsed, under the mutex of an entry that may have left the pool meanwhile.
Touch(r) ==
    /\ tunnelPc[r] = "touch"
    /\ ~Locked(mine[r])
    /\ idle' = [idle EXCEPT ![mine[r]] = FALSE]
    /\ MoveTo(r, "dial")
    /\ UNCHANGED <<pool, runner, mine, fresh, victim, reap, host>>

Connect(r) ==
    /\ tunnelPc[r] = "connect"
    /\ \/ \E n \in Runners : Dialled(n, TRUE) /\ mine' = [mine EXCEPT ![r] = n]
          /\ MoveTo(r, "store")
       \/ End(r) /\ UNCHANGED runner
    /\ UNCHANGED <<pool, idle, fresh, victim, reap, host>>

\* The new entry takes the place of whatever is there.
StoreEntry(r) ==
    /\ tunnelPc[r] = "store"
    /\ pool' = mine[r]
    /\ MoveTo(r, "dial")
    /\ UNCHANGED <<runner, idle, mine, fresh, victim, reap, host>>

-----------------------------------------------------------------------------
(* DialContext of the transport.                                            *)

\* It fails over a dead connection, and over a live one if nothing listens.
DialContext(r) ==
    /\ tunnelPc[r] = "dial"
    /\ \/ state[mine[r]] = "open" /\ MoveTo(r, "use") /\ UNCHANGED mine
       \/ heals[mine[r]] /\ MoveTo(r, "evict") /\ UNCHANGED mine
       \/ ~heals[mine[r]] /\ End(r)
    /\ UNCHANGED <<pool, runner, idle, fresh, victim, reap, host>>

\* Mutant of Evict: the entry is only removed with its runner.
EvictLate(r) ==
    /\ tunnelPc[r] = "evict"
    /\ victim' = [victim EXCEPT ![r] = pool]
    /\ MoveTo(r, "close")
    /\ UNCHANGED <<pool, runner, idle, mine, fresh, reap, host>>

\* evictTunnelRunner takes out the entry of the host, its own or another's ...
Evict(r) ==
    /\ tunnelPc[r] = "evict"
    /\ victim' = [victim EXCEPT ![r] = pool]
    /\ pool' = 0
    /\ MoveTo(r, IF pool = 0 THEN "reconnect" ELSE "close")
    /\ UNCHANGED <<runner, idle, mine, fresh, reap, host>>

\* ... and closes its runner under its mutex.
CloseVictim(r) ==
    /\ tunnelPc[r] = "close"
    /\ ~Locked(victim[r])
    /\ CloseRunner(victim[r])
    /\ victim' = [victim EXCEPT ![r] = 0]
    /\ MoveTo(r, "reconnect")
    /\ UNCHANGED <<pool, made, heals, idle, mine, fresh, reap, host>>

\* The transport of the fresh runner does not reconnect a second time.
Reconnect(r) ==
    /\ tunnelPc[r] = "reconnect"
    /\ \/ \E n \in Runners : Dialled(n, FALSE) /\ fresh' = [fresh EXCEPT ![r] = n]
          /\ MoveTo(r, "redial")
          /\ UNCHANGED mine
       \/ End(r) /\ UNCHANGED <<runner, fresh>>
    /\ UNCHANGED <<pool, idle, victim, reap, host>>

Redial(r) ==
    /\ tunnelPc[r] = "redial"
    /\ \/ state[fresh[r]] = "open" /\ MoveTo(r, "replace")
       \/ MoveTo(r, "discard")
    /\ UNCHANGED <<pool, runner, idle, mine, fresh, victim, reap, host>>

Replace(r) ==
    /\ tunnelPc[r] = "replace"
    /\ pool' = fresh[r]
    /\ mine' = [mine EXCEPT ![r] = fresh[r]]
    /\ fresh' = [fresh EXCEPT ![r] = 0]
    /\ MoveTo(r, "use")
    /\ UNCHANGED <<runner, idle, victim, reap, host>>

Discard(r) ==
    /\ tunnelPc[r] = "discard"
    /\ CloseRunner(fresh[r])
    /\ fresh' = [fresh EXCEPT ![r] = 0]
    /\ End(r)
    /\ UNCHANGED <<pool, made, heals, idle, victim, reap, host>>

\* The answer has been proxied, or the connection under it is gone.
Answer(r) ==
    /\ tunnelPc[r] = "use"
    /\ End(r)
    /\ UNCHANGED <<pool, runner, idle, fresh, victim, reap, host>>

Request(r) ==
    \/ Load(r) \/ Touch(r) \/ Connect(r) \/ StoreEntry(r) \/ DialContext(r)
    \/ Evict(r) \/ CloseVictim(r) \/ Reconnect(r) \/ Redial(r) \/ Replace(r) \/ Discard(r)

-----------------------------------------------------------------------------
(* The reaper, time and the network.                                        *)

\* maxIdle has passed since the last request was given the entry.
Age(n) ==
    /\ Reaps
    /\ pool = n
    /\ idle' = [idle EXCEPT ![n] = TRUE]
    /\ UNCHANGED <<pool, runner, request, reap, host>>

\* Range hands out the entry of the host.
Visit ==
    /\ reaper = "asleep"
    /\ pool # 0
    /\ prey' = pool
    /\ reaper' = "visit"
    /\ UNCHANGED <<pool, runner, idle, request, host>>

\* Mutant of Reap: an idle entry is closed but stays in the pool.
ReapInPlace ==
    /\ reaper = "visit"
    /\ IF idle[prey] THEN reaper' = "close" /\ UNCHANGED prey
       ELSE reaper' = "asleep" /\ prey' = 0
    /\ UNCHANGED <<pool, runner, idle, request, host>>

\* If that entry is idle, whatever is in the pool is deleted, still under its mutex.
Reap ==
    /\ reaper = "visit"
    /\ IF idle[prey] THEN pool' = 0 /\ reaper' = "close" /\ UNCHANGED prey
       ELSE reaper' = "asleep" /\ prey' = 0 /\ UNCHANGED pool
    /\ UNCHANGED <<runner, idle, request, host>>

ClosePrey ==
    /\ reaper = "close"
    /\ CloseRunner(prey)
    /\ reaper' = "asleep"
    /\ prey' = 0
    /\ UNCHANGED <<pool, made, heals, idle, request, host>>

\* evictTunnelRunner, called by nobody's request: no mutex is held on that entry.
EvictPool ==
    /\ IF pool = 0 THEN UNCHANGED state ELSE CloseRunner(pool)
    /\ pool' = 0

\* DELETE /api/hosts/{id} evicts the entry of the host first ...
LeaveHost ==
    /\ host = "there"
    /\ host' = "leaving"
    /\ EvictPool
    /\ UNCHANGED <<made, heals, idle, request, reap>>

\* ... then deletes its row, or fails to.
DeleteHost ==
    /\ host = "leaving"
    /\ host' \in {"gone", "there"}
    /\ UNCHANGED <<pool, runner, idle, request, reap>>

\* The server shuts down: the reaper evicts what is in the pool and returns.
Stop ==
    /\ reaper = "asleep"
    /\ reaper' = "stopped"
    /\ EvictPool
    /\ UNCHANGED <<made, heals, idle, request, prey, host>>

\* The SSH connection breaks.
Lose(n) ==
    /\ state[n] = "open"
    /\ state' = [state EXCEPT ![n] = "lost"]
    /\ UNCHANGED <<pool, made, heals, idle, request, reap, host>>

Reaper == Visit \/ Reap \/ ClosePrey

PoolNext ==
    \/ \E r \in Requests : Arrive(r) \/ Request(r) \/ Answer(r)
    \/ \E n \in Runners : Age(n) \/ Lose(n)
    \/ LeaveHost \/ DeleteHost
    \/ Reaper \/ Stop

PoolSpec == PoolInit /\ [][PoolNext]_poolVars

\* Requests and reaper run, and an entry that nobody touches gets old.
PoolFairness ==
    /\ \A r \in Requests : WF_poolVars(Request(r))
    /\ \A n \in Runners : WF_poolVars(Age(n))
    /\ WF_poolVars(Reaper)

FairPoolSpec == PoolSpec /\ PoolFairness

-----------------------------------------------------------------------------
(* Properties.                                                              *)

\* Nobody is handed a connection that Pantau has closed: an entry leaves the pool
\* before its runner is closed, by whichever of evictions and reaper, and it never
\* comes back.
PooledIsNotClosed == pool # 0 => state[pool] # "closed"

\* A runner that is open is in the pool or in the hands of somebody who will put it
\* there or close it.
NothingLeaks ==
    \A n \in Runners : state[n] \in {"open", "lost"} =>
        \/ pool = n
        \/ reaper = "close" /\ prey = n
        \/ \E r \in Requests : \/ victim[r] = n \/ fresh[r] = n
                               \/ mine[r] = n /\ tunnelPc[r] = "store"

\* A tunnel that nobody uses any more is given up, while the reaper runs.
AbandonedIsReaped ==
    pool # 0 ~> pool = 0 \/ reaper = "stopped" \/ \E r \in Requests : tunnelPc[r] # "off"

-----------------------------------------------------------------------------
(* What the repository says, and the code does not keep.                    *)

\* "Automatically reaps abandoned SSH tunnel connections" (handlers_tunnel.go): the
\* reaper does not close a connection that a request is being answered over.
ReapedIsAbandoned ==
    [][reaper = "close" /\ reaper' = "asleep" =>
          \A r \in Requests : ~(tunnelPc[r] = "use" /\ mine[r] = prey)]_poolVars

\* "auto-reconnect fallback" (ADR 0034): a request that finds the pooled connection
\* lost tries to connect again before it fails.
LossIsHealed ==
    [][\A r \in Requests :
          tunnelPc[r] = "dial" /\ state[mine[r]] = "lost" => tunnelPc'[r] # "off"]_poolVars
=============================================================================
