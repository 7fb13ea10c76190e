-------------------------- MODULE AutoTriageProofs --------------------------
(***************************************************************************)
(* Proofs about AutoTriage.tla, for any targets, operators and ages.       *)
(*                                                                         *)
(* The invariant of the guard says who has put the source host into the    *)
(* in-flight map: nobody, the scheduler at a step of its section, or one   *)
(* operator.  The messages need less: while a target is triaged, the       *)
(* scheduler's "at" names one, and the open incidents and the last         *)
(* messages then move as AlertFeed allows.                                 *)
(***************************************************************************)
EXTENDS AutoTriage, FiniteSetTheorems, TLAPS

\* The types of the scheduler's local variables.
Locals == [todo : SUBSET Presets, at : Presets \cup {"none"}, since : 0..Reminder,
           verdict : Verdict \cup {""}, late : BOOLEAN, small : BOOLEAN,
           ping : {"none", "fine", "slow", "lost", "unparsed"}]

\* The steps of the triage of a target.
Triage == Section \cup {"resolve", "guard", "report"}

\* A triage is about a target.
AtTarget == pc \in Triage => run.at \in Presets

\* The scheduler starts with well-formed local variables.
LEMMA IdleType == Idle \in Locals /\ Unknown \in TargetState
BY TriageAssumption DEF Idle, Locals, Unknown, TargetState

\* A report leaves a well-formed state of its target ...
LEMMA Restated ==
    ASSUME NEW s \in TargetState, NEW open \in BOOLEAN
    PROVE  /\ [verdict |-> "HEALTHY", age |-> 0, started |-> s.started /\ ~open] \in TargetState
           /\ [verdict |-> "DEGRADED", age |-> 0, started |-> TRUE] \in TargetState
           /\ [s EXCEPT !.age = 0] \in TargetState
<1>1. 0 \in 0..Reminder
  BY TriageAssumption
<1>2. (s.started /\ ~open) \in BOOLEAN
  OBVIOUS
<1> QED BY <1>1, <1>2 DEF TargetState

\* ... and so does the time that passes.
LEMMA Ageing ==
    ASSUME NEW s \in TargetState
    PROVE  [s EXCEPT !.age = IF @ < Reminder THEN @ + 1 ELSE @] \in TargetState
<1> DEFINE a == IF s.age < Reminder THEN s.age + 1 ELSE s.age
<1>1. s.age \in 0..Reminder /\ Reminder \in Nat
  BY TriageAssumption DEF TargetState
<1>2. a \in 0..Reminder
  BY <1>1
<1> HIDE DEF a
<1>3. [s EXCEPT !.age = a] \in TargetState
  BY <1>2 DEF TargetState
<1> QED BY <1>3 DEF a

\* The local variables after a triage that is over.
LEMMA GiveUpType ==
    ASSUME run \in Locals, GiveUp
    PROVE  run' \in Locals /\ pc' = "pick"
BY IdleType DEF GiveUp, Locals

\* Every step of Next keeps the types and the target at hand.
LEMMA TypeStep == TypeOK /\ AtTarget /\ [Next]_vars => TypeOK' /\ AtTarget'
<1> SUFFICES ASSUME TypeOK, AtTarget, [Next]_vars PROVE TypeOK' /\ AtTarget'
  OBVIOUS
<1> DEFINE Rest == /\ network' \in [Presets -> Conditions]
                   /\ host' \in Health
                   /\ link' \in BOOLEAN
                   /\ enabled' \subseteq Presets
                   /\ memory' \in [Presets -> TargetState]
                   /\ sent' \in [Presets -> Message]
                   /\ inside' \subseteq Requests
                   /\ restarts' \in 0..MaxRestarts
           Moved == /\ inFlight' \in BOOLEAN
                    /\ pc' \in Triage \cup {"wait", "pick"}
                    /\ run' \in Locals
                    /\ AtTarget'
<1>0. run \in Locals /\ memory \in [Presets -> TargetState] /\ inFlight \in BOOLEAN
      /\ sent \in [Presets -> Message]
  BY DEF TypeOK, Locals
<1>a. ASSUME Rest, Moved PROVE TypeOK' /\ AtTarget'
  BY <1>a DEF TypeOK, Locals, Triage
<1>b. ASSUME UNCHANGED <<world, enabled, memory, sent, inside, restarts>> PROVE Rest
  BY <1>b DEF TypeOK, world
<1>c. ASSUME UNCHANGED <<inFlight, pc, run>> PROVE Moved
  BY <1>c DEF TypeOK, AtTarget, Locals, Triage
<1>d. ASSUME GiveUp, inFlight' \in BOOLEAN PROVE Moved
  BY <1>0, <1>d, GiveUpType DEF AtTarget, Triage, Section
<1>e. ASSUME pc \in Triage, pc' \in Triage, run' = run, inFlight' \in BOOLEAN PROVE Moved
  BY <1>0, <1>e DEF AtTarget
<1>f. ASSUME pc \in Triage, pc' \in Triage, run' \in Locals, run'.at = run.at,
             inFlight' \in BOOLEAN
      PROVE  Moved
  BY <1>f DEF AtTarget
<1>g. ASSUME NEW c, NEW v \in Verdict PROVE Decide(c, v) \in Verdict \cup {""}
  BY <1>0, <1>g DEF Decide, Locals
<1> HIDE DEF Rest, Moved
<1>1. CASE UNCHANGED vars
  BY <1>1, <1>a, <1>b, <1>c DEF vars
<1>2. CASE StartCycle \/ EndCycle \/ Skip
  <2>1. run' \in Locals
    BY <1>0, <1>2, IdleType DEF StartCycle, EndCycle, Skip, TypeOK, Locals
  <2>2. Moved
    BY <1>0, <1>2, <2>1
       DEF StartCycle, EndCycle, Skip, Moved, AtTarget, Triage, Section
  <2> QED BY <1>2, <1>a, <1>b, <2>2 DEF StartCycle, EndCycle, Skip
<1>3. CASE Pick
  <2>1. PICK p \in run.todo :
          run' = [Idle EXCEPT !.todo = run.todo \ {p}, !.at = p, !.since = memory[p].age]
    BY <1>3 DEF Pick
  <2>2. p \in Presets /\ memory[p].age \in 0..Reminder
    BY <1>0 DEF Locals, TargetState
  <2>3. run' \in Locals /\ run'.at = p
    BY <1>0, <2>1, <2>2, IdleType DEF Locals
  <2>4. Moved
    BY <1>0, <1>3, <2>2, <2>3 DEF Pick, Moved, AtTarget, Triage
  <2> QED BY <1>3, <1>a, <1>b, <2>4 DEF Pick
<1>4. CASE Resolve
  <2>1. pc = "resolve" /\ UNCHANGED <<world, enabled, memory, sent, inFlight, inside, restarts>>
    BY <1>4 DEF Resolve
  <2>2. CASE run' = [run EXCEPT !.verdict = Decide(host = "saturated", "HOST_SATURATED")]
             /\ pc' = "guard"
    <3>1. Decide(host = "saturated", "HOST_SATURATED") \in Verdict \cup {""}
      BY <1>g DEF Verdict
    <3>2. run' \in Locals /\ run'.at = run.at
      BY <1>0, <2>2, <3>1 DEF Locals
    <3> QED BY <1>0, <1>a, <1>b, <1>f, <2>1, <2>2, <3>2 DEF Triage
  <2>3. CASE GiveUp
    BY <1>0, <1>a, <1>b, <1>d, <2>1, <2>3
  <2> QED BY <1>4, <2>2, <2>3 DEF Resolve
<1>5. CASE Guard \/ Dial
  <2>1. inFlight' \in BOOLEAN /\ UNCHANGED <<world, enabled, memory, sent, inside, restarts>>
    BY <1>0, <1>5 DEF Guard, Dial
  <2>2. Moved
    BY <1>5, <1>d, <1>e, <2>1 DEF Guard, Dial, Triage, Section
  <2> QED BY <1>a, <1>b, <2>1, <2>2
<1>6. CASE ProbeApp
  <2>1. Decide(AppFails(run.at), "APPLICATION_DEGRADED") \in Verdict \cup {""}
    BY <1>g DEF Verdict
  <2>2. run' \in Locals /\ run'.at = run.at
    <3>1. (link /\ host = "late") \in BOOLEAN
      BY DEF TypeOK
    <3> QED BY <1>0, <1>6, <2>1, <3>1 DEF ProbeApp, Locals
  <2> QED BY <1>0, <1>6, <1>a, <1>b, <1>f, <2>2 DEF ProbeApp, Triage, Section
<1>7. CASE SmallPing
  <2>1. (link /\ network[run.at] \in {"clear", "slow", "narrow"}) \in BOOLEAN
    BY DEF TypeOK
  <2>2. run' \in Locals /\ run'.at = run.at
    BY <1>0, <1>7, <2>1 DEF SmallPing, Locals
  <2> QED BY <1>0, <1>7, <1>a, <1>b, <1>f, <2>2 DEF SmallPing, Triage, Section
<1>8. CASE LargePing
  <2> DEFINE passed == link /\ network[run.at] \in {"clear", "slow"}
  <2>1. Decide(run.small /\ ~passed, "MTU_BLACKHOLE_DETECTED") \in Verdict \cup {""}
    BY <1>g DEF Verdict
  <2>2. run' = [run EXCEPT !.small = FALSE,
                  !.verdict = Decide(run.small /\ ~passed, "MTU_BLACKHOLE_DETECTED")]
    BY <1>8 DEF LargePing
  <2> HIDE DEF passed
  <2>3. run' \in Locals /\ run'.at = run.at
    BY <1>0, <2>1, <2>2 DEF Locals
  <2> QED BY <1>0, <1>8, <1>a, <1>b, <1>f, <2>3 DEF LargePing, Triage, Section
<1>9. CASE Ping
  <2>1. run' \in Locals /\ run'.at = run.at
    BY <1>0, <1>9 DEF Ping, Statistics, Locals
  <2> QED BY <1>0, <1>9, <1>a, <1>b, <1>f, <2>1 DEF Ping, Triage, Section
<1>10. CASE TryPort
  <2>1. PICK v \in {"ICMP_FILTERED_TCP_HEALTHY", "BRANCH_GATEWAY_DOWN"} :
          run' = [run EXCEPT !.verdict = Decide(TRUE, v)]
    BY <1>10 DEF TryPort
  <2>2. Decide(TRUE, v) \in Verdict \cup {""}
    BY <1>g DEF Verdict
  <2>3. run' \in Locals /\ run'.at = run.at
    BY <1>0, <2>1, <2>2 DEF Locals
  <2> QED BY <1>0, <1>10, <1>a, <1>b, <1>f, <2>3 DEF TryPort, Triage, Section
<1>11. CASE Conclude
  <2>1. PICK v \in {"TRANSIT_PATH_DEGRADED", "APPLICATION_DEGRADED", "HEALTHY"} :
          run' = [run EXCEPT !.verdict = Decide(TRUE, v)]
    BY <1>11 DEF Conclude
  <2>2. Decide(TRUE, v) \in Verdict \cup {""}
    BY <1>g DEF Verdict
  <2>3. run' \in Locals /\ run'.at = run.at
    BY <1>0, <2>1, <2>2 DEF Locals
  <2> QED BY <1>11, <1>a, <1>b, <1>f, <2>3 DEF Conclude, Triage, Section
<1>12. CASE Report
  <2>1. run.at \in Presets /\ memory[run.at] \in TargetState
    BY <1>0, <1>12 DEF Report, AtTarget, Triage
  <2>2. memory' \in [Presets -> TargetState] /\ sent' \in [Presets -> Message]
    <3>1. CASE Healthy(run.at)
      <4>1. [verdict |-> "HEALTHY", age |-> 0, started |-> memory[run.at].started /\ ~Open(run.at)]
              \in TargetState
        BY <2>1, Restated DEF Open
      <4> QED BY <1>0, <2>1, <3>1, <4>1 DEF Healthy, Say, Message
    <3>2. CASE Degraded(run.at)
      <4>1. [verdict |-> "DEGRADED", age |-> 0, started |-> TRUE] \in TargetState
        BY <2>1, Restated DEF Open
      <4>2. [memory[run.at] EXCEPT !.age = 0] \in TargetState
        BY <2>1, Restated
      <4> QED BY <1>0, <2>1, <3>2, <4>1, <4>2 DEF Degraded, Say, Message
    <3> QED BY <1>12, <3>1, <3>2 DEF Report
  <2>3. Rest
    BY <1>12, <2>2 DEF Report, Rest, TypeOK, world
  <2> QED BY <1>0, <1>12, <1>a, <1>d, <2>3 DEF Report
<1>13. CASE \E r \in Requests : Enter(r) \/ Leave(r)
  <2>1. Rest /\ inFlight' \in BOOLEAN /\ UNCHANGED <<pc, run>>
    BY <1>13 DEF Enter, Leave, Rest, TypeOK, world
  <2>2. Moved
    BY <1>0, <2>1 DEF Moved, TypeOK, AtTarget, Triage
  <2> QED BY <1>a, <2>1, <2>2
<1>14. CASE Edit \/ WorldChange
  <2>1. Rest
    <3>1. CASE Edit
      BY <3>1 DEF Edit, Rest, TypeOK, world
    <3>2. CASE WorldChange
      BY <3>2 DEF WorldChange, Rest, TypeOK
    <3> QED BY <1>14, <3>1, <3>2
  <2> QED BY <1>14, <1>a, <1>c, <2>1 DEF Edit, WorldChange
<1>15. CASE Tick
  <2>1. ASSUME NEW p \in Presets
        PROVE  [memory[p] EXCEPT !.age = IF @ < Reminder THEN @ + 1 ELSE @] \in TargetState
    BY <1>0, Ageing
  <2>2. Rest
    BY <1>15, <2>1 DEF Tick, Rest, TypeOK, world
  <2> QED BY <1>15, <1>a, <1>c, <2>2 DEF Tick
<1>16. CASE Restart
  <2>1. memory' \in [Presets -> TargetState] /\ inside' \subseteq Requests
    BY <1>16, IdleType DEF Restart
  <2>2. restarts' \in 0..MaxRestarts
    <3>1. restarts \in 0..MaxRestarts /\ MaxRestarts \in Nat
      BY TriageAssumption DEF TypeOK
    <3>2. restarts < MaxRestarts /\ restarts' = restarts + 1
      BY <1>16 DEF Restart
    <3> QED BY <3>1, <3>2
  <2>3. Rest
    BY <1>16, <2>1, <2>2 DEF Restart, Rest, TypeOK, world
  <2>4. Moved
    BY <1>16, IdleType DEF Restart, Moved, AtTarget, Triage, Section
  <2> QED BY <1>a, <2>3, <2>4
<1> QED BY <1>1, <1>2, <1>3, <1>4, <1>5, <1>6, <1>7, <1>8, <1>9, <1>10, <1>11, <1>12, <1>13,
           <1>14, <1>15, <1>16 DEF Next, Scheduler

\* Types and target hold initially.
LEMMA TypeInit == Init => TypeOK /\ AtTarget
<1> SUFFICES ASSUME Init PROVE TypeOK /\ AtTarget
  OBVIOUS
<1>1. memory \in [Presets -> TargetState] /\ run \in Locals
  BY IdleType DEF Init
<1>2. network \in [Presets -> Conditions] /\ restarts \in 0..MaxRestarts
  BY TriageAssumption DEF Init
<1>3. inFlight \in BOOLEAN /\ link \in BOOLEAN /\ inside \subseteq Requests
  BY DEF Init
<1> QED BY <1>1, <1>2, <1>3 DEF Init, TypeOK, AtTarget, Locals, Triage, Section, Message, Health

\* The scheduler's state, the in-flight map and the messages keep their types.
THEOREM TypeCorrect == Spec => []TypeOK
BY TypeInit, TypeStep, PTL DEF Spec

-----------------------------------------------------------------------------
\* Who holds the in-flight entry of the source host.
Guarded ==
    \/ ~inFlight /\ pc \notin Section /\ inside = {}
    \/ inFlight /\ pc \in Section /\ inside = {}
    \/ inFlight /\ pc \notin Section /\ \E r \in Requests : inside = {r}

\* Every step of Next keeps the guard.
LEMMA GuardStep == TypeOK /\ Guarded /\ [Next]_vars => Guarded'
<1> SUFFICES ASSUME TypeOK, Guarded, [Next]_vars PROVE Guarded'
  OBVIOUS
<1>1. CASE UNCHANGED vars
  BY <1>1 DEF vars, Guarded
<1>2. CASE Scheduler
  <2>1. CASE StartCycle \/ EndCycle \/ Skip \/ Pick \/ Resolve \/ Report
    <3>1. pc \notin Section /\ pc' \notin Section /\ UNCHANGED <<inFlight, inside>>
      BY <2>1 DEF StartCycle, EndCycle, Skip, Pick, Resolve, Report, GiveUp, Section
    <3> QED BY <3>1 DEF Guarded
  <2>2. CASE Guard
    BY <2>2 DEF Guard, GiveUp, Guarded, Section
  <2>3. CASE Dial
    BY <2>3 DEF Dial, GiveUp, Guarded, Section
  <2>4. CASE ProbeApp \/ SmallPing \/ LargePing \/ Ping \/ TryPort
    <3>1. pc \in Section /\ pc' \in Section /\ UNCHANGED <<inFlight, inside>>
      BY <2>4 DEF ProbeApp, SmallPing, LargePing, Ping, TryPort, Section
    <3> QED BY <3>1 DEF Guarded
  <2>5. CASE Conclude
    BY <2>5 DEF Conclude, Guarded, Section
  <2> QED BY <1>2, <2>1, <2>2, <2>3, <2>4, <2>5 DEF Scheduler
<1>3. ASSUME NEW r \in Requests, Enter(r) PROVE Guarded'
  BY <1>3 DEF Enter, Guarded
<1>4. ASSUME NEW r \in Requests, Leave(r) PROVE Guarded'
  BY <1>4 DEF Leave, Guarded
<1>5. CASE Edit \/ WorldChange \/ Tick
  BY <1>5 DEF Edit, WorldChange, Tick, Guarded
<1>6. CASE Restart
  BY <1>6 DEF Restart, Guarded, Section
<1> QED BY <1>1, <1>2, <1>3, <1>4, <1>5, <1>6 DEF Next

\* The scheduler and the operators never run two diagnoses on the source host at once:
\* every early return of ExecuteTriage gives the in-flight entry back, and only its
\* holder does.
THEOREM SingleDiagnosis == Spec => []OneDiagnosis
<1>1. Init => Guarded
  BY DEF Init, Guarded, Section
<1>2. Guarded => OneDiagnosis
  <2>1. Cardinality({}) = 0 /\ \A r \in Requests : Cardinality({r}) = 1
    BY FS_EmptySet, FS_Singleton
  <2> QED BY <2>1 DEF Guarded, OneDiagnosis
<1> QED BY <1>1, <1>2, TypeCorrect, GuardStep, PTL DEF Spec

-----------------------------------------------------------------------------
\* What stands for AlertFeed's "open".
Announced == {p \in Presets : Open(p)}

\* Every step of Next is a step of AlertFeed or leaves it alone.
LEMMA FeedStep ==
    ASSUME TypeOK, AtTarget, [Next]_vars
    PROVE  [Feed!Next]_<<Announced, sent>>
<1> DEFINE Goal == [Feed!Next]_<<Announced, sent>>
<1>0. memory \in [Presets -> TargetState] /\ sent \in [Presets -> Message]
  BY DEF TypeOK
<1>1. ASSUME UNCHANGED <<memory, sent>> PROVE Goal
  BY <1>1 DEF Announced, Open
<1>2. CASE Report
  <2> DEFINE q == run.at
  <2>1. q \in Presets /\ memory[q] \in TargetState
    BY <1>0, <1>2 DEF Report, AtTarget, Triage
  <2>2. CASE Healthy(q)
    <3>1. /\ \A p \in Presets \ {q} : memory'[p] = memory[p]
          /\ memory'[q].verdict = "HEALTHY"
      BY <1>0, <2>1, <2>2 DEF Healthy
    <3>2. Announced' = Announced \ {q}
      BY <2>1, <3>1 DEF Announced, Open
    <3>3. CASE Open(q)
      <4>1. Feed!Close(q)
        BY <2>1, <2>2, <3>2, <3>3 DEF Healthy, Say, Feed!Close, Announced
      <4> QED BY <2>1, <4>1 DEF Feed!Next
    <3>4. CASE ~Open(q)
      BY <2>2, <3>2, <3>4 DEF Healthy, Announced
    <3> QED BY <3>3, <3>4
  <2>3. CASE Degraded(q)
    <3>1. \A p \in Presets \ {q} : memory'[p] = memory[p]
      BY <1>0, <2>1, <2>3 DEF Degraded
    <3>2. memory'[q].verdict = "DEGRADED"
      <4>1. CASE memory' = [memory EXCEPT ![q] =
                               [verdict |-> "DEGRADED", age |-> 0, started |-> TRUE]]
        BY <1>0, <2>1, <4>1
      <4>2. CASE Open(q) /\ memory' = [memory EXCEPT ![q].age = 0]
        <5>1. memory'[q] = [memory[q] EXCEPT !.age = 0]
          BY <1>0, <2>1, <4>2
        <5> QED BY <2>1, <4>2, <5>1 DEF Open, TargetState
      <4>3. CASE Open(q) /\ UNCHANGED memory
        BY <4>3 DEF Open
      <4> QED BY <2>3, <4>1, <4>2, <4>3 DEF Degraded
    <3>3. Announced' = Announced \cup {q}
      BY <2>1, <3>1, <3>2 DEF Announced, Open
    <3>4. CASE ~Open(q)
      <4>1. Feed!Announce(q)
        BY <2>1, <2>3, <3>3, <3>4 DEF Degraded, Say, Feed!Announce, Announced
      <4> QED BY <2>1, <4>1 DEF Feed!Next
    <3>5. CASE Open(q) /\ Say(q, "reminder")
      <4>1. Feed!Remind(q)
        BY <2>1, <3>3, <3>5 DEF Say, Feed!Remind, Announced
      <4> QED BY <2>1, <4>1 DEF Feed!Next
    <3>6. CASE Open(q) /\ UNCHANGED <<memory, sent>>
      BY <1>1, <3>6
    <3> QED BY <2>3, <3>4, <3>5, <3>6 DEF Degraded
  <2> QED BY <1>2, <2>2, <2>3 DEF Report
<1>3. CASE Tick
  <2>1. \A p \in Presets : memory'[p].verdict = memory[p].verdict
    BY <1>0, <1>3 DEF Tick, TargetState
  <2> QED BY <1>3, <2>1 DEF Tick, Announced, Open
<1>4. CASE Restart
  <2>1. Announced' = {}
    BY <1>4 DEF Restart, Unknown, Announced, Open
  <2> QED BY <1>4, <2>1 DEF Restart, Feed!Next, Feed!Restart, Announced
<1>5. CASE \/ StartCycle \/ EndCycle \/ Skip \/ Pick \/ Resolve \/ Guard \/ Dial \/ ProbeApp
           \/ SmallPing \/ LargePing \/ Ping \/ TryPort \/ Conclude
  BY <1>1, <1>5 DEF StartCycle, EndCycle, Skip, Pick, Resolve, Guard, Dial, ProbeApp,
                    SmallPing, LargePing, Ping, TryPort, Conclude
<1>6. CASE Edit \/ WorldChange \/ \E r \in Requests : Enter(r) \/ Leave(r)
  BY <1>1, <1>6 DEF Edit, WorldChange, Enter, Leave
<1> QED BY <1>1, <1>2, <1>3, <1>4, <1>5, <1>6 DEF Next, Scheduler, vars

\* Whatever fails, is edited or is restarted in the course of a cycle, the messages about
\* a target are an incident, reminders and a recovery, in that order: the scheduler
\* implements the abstract feed.
THEOREM ImplementsFeed == Spec => FeedSpec
<1>1. Init => Feed!Init
  <2> SUFFICES ASSUME Init PROVE Feed!Init
    OBVIOUS
  <2>1. \A p \in Presets : ~Open(p)
    BY DEF Init, Open, Unknown
  <2> QED BY <2>1 DEF Init, Feed!Init
<1>2. Spec => [](TypeOK /\ AtTarget)
  BY TypeInit, TypeStep, PTL DEF Spec
<1>3. TypeOK /\ AtTarget /\ [Next]_vars => [Feed!Next]_<<{p \in Presets : Open(p)}, sent>>
  BY FeedStep DEF Announced
<1> QED BY <1>1, <1>2, <1>3, PTL DEF Spec, FeedSpec, Feed!Spec
=============================================================================
