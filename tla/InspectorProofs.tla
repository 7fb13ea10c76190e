-------------------------- MODULE InspectorProofs --------------------------
(***************************************************************************)
(* Proofs about Inspector.tla and InspectorFaults.tla, for any number of   *)
(* hosts, rules, goroutines and history rows.                              *)
(*                                                                         *)
(* The inductive invariant has five parts, each proved from the ones       *)
(* before it: the types; Shape, which ties the rule a goroutine works on   *)
(* to its host; Guarded, that an active goroutine holds the in-flight      *)
(* entry of its host and shares it with nobody; and Reported, what a       *)
(* goroutine may still rely on between reading a rule's previous status,   *)
(* overwriting it and recording the incident; and Verdicts, how far the    *)
(* alerts, the hosts row, the history and the status page of a host may    *)
(* disagree at each step of its inspection.  Reported and Verdicts are     *)
(* inductive only because of Guarded.  The part of Verdicts that survives  *)
(* crashes, restores and failed reads is Settled.                          *)
(***************************************************************************)
EXTENDS InspectorFaults, FiniteSetTheorems, WellFoundedInduction, TLAPS

\* A set of indices has a last one: the row that the pruning removes exists.
LEMMA LastOfIndices ==
    ASSUME NEW n \in Nat, NEW S \in SUBSET (1..n), S # {}
    PROVE  Max(S) \in 1..n
<1> DEFINE Below == OpToRel(<, Nat)
           T == {n - i : i \in S}
<1>1. T \subseteq Nat /\ T # {}
  OBVIOUS
<1>2. IsWellFoundedOn(Below, Nat)
  BY NatLessThanWellFounded
<1>3. PICK x \in T : \A y \in T : <<y, x>> \notin Below
  <2> HIDE DEF Below, T
  <2> QED BY <1>1, <1>2, WFMin
<1>4. \A y \in T : ~(y < x)
  BY <1>1, <1>3 DEF OpToRel
<1>5. PICK i \in S : x = n - i
  OBVIOUS
<1>6. \A j \in S : i >= j
  BY <1>4, <1>5
<1>7. \E k \in S : \A j \in S : k >= j
  BY <1>5, <1>6
<1> QED BY <1>7 DEF Max

\* The pruning leaves a history of runs.
LEMMA PrunedType ==
    ASSUME NEW s \in Seq(RunStatus), NEW S \in SUBSET (1..Len(s)), S # {}
    PROVE  RemoveAt(s, Max(S)) \in Seq(RunStatus)
<1>1. Max(S) \in 1..Len(s)
  BY LastOfIndices
<1>2. SubSeq(s, 1, Max(S) - 1) \in Seq(RunStatus)
  BY <1>1
<1>3. SubSeq(s, Max(S) + 1, Len(s)) \in Seq(RunStatus)
  BY <1>1
<1> QED BY <1>2, <1>3 DEF RemoveAt

\* RecordInspectionRun leaves a history of runs.
LEMMA RecordedType ==
    ASSUME NEW s \in Seq(RunStatus), NEW x \in RunStatus
    PROVE  Recorded(s, x) \in Seq(RunStatus)
<1> DEFINE bucket == {i \in 1..Len(s) : (s[i] = "ok") <=> (x = "ok")}
<1>1. <<x>> \in Seq(RunStatus) /\ Len(s) \in Nat
  OBVIOUS
<1>2. <<x>> \o s \in Seq(RunStatus)
  BY <1>1
<1>3. CASE bucket = {}
  <2>1. Cardinality(bucket) = 0
    BY <1>3, FS_EmptySet
  <2> QED BY <2>1, <1>2, ConstantsAssumption DEF Recorded
<1>4. CASE bucket # {}
  <2>1. bucket \in SUBSET (1..Len(s))
    OBVIOUS
  <2>2. RemoveAt(s, Max(bucket)) \in Seq(RunStatus)
    <3> HIDE DEF bucket
    <3> QED BY <1>4, <2>1, PrunedType
  <2>3. <<x>> \o RemoveAt(s, Max(bucket)) \in Seq(RunStatus)
    BY <1>1, <2>2
  <2> QED BY <1>2, <2>3 DEF Recorded
<1> QED BY <1>3, <1>4

\* A goroutine starts with well-formed local variables.
LEMMA NewJobType == ASSUME NEW h \in Hosts PROVE NewJob(h) \in Job
BY DEF NewJob, Job, Finding, Status, RunStatus

\* The steps of the evaluation of one rule.
InRule == {"prev", "upsert", "incident", "alert"}

\* What ties a goroutine's rules to its host.
Shape ==
    \A w \in Workers :
        /\ job[w].todo \subseteq RulesOf(job[w].host)
        /\ pc[w] \in InRule => job[w].rule \in RulesOf(job[w].host)

\* A goroutine moves on with new local variables.
LEMMA Advance ==
    ASSUME TypeOK, Shape, NEW w \in Workers, NEW j \in Job, NEW l \in Step,
           Become(w, j), Goto(w, l),
           j.todo \subseteq RulesOf(j.host), l \in InRule => j.rule \in RulesOf(j.host)
    PROVE  job' \in [Workers -> Job] /\ pc' \in [Workers -> Step] /\ Shape'
<1>1. job' \in [Workers -> Job] /\ pc' \in [Workers -> Step]
  BY DEF TypeOK, Become, Goto
<1>2. job'[w] = j /\ pc'[w] = l
  BY DEF TypeOK, Become, Goto
<1>3. \A v \in Workers \ {w} : job'[v] = job[v] /\ pc'[v] = pc[v]
  BY DEF TypeOK, Become, Goto
<1> QED BY <1>1, <1>2, <1>3 DEF Shape, RulesOf

\* A goroutine moves on with the local variables it has.
LEMMA Stay ==
    ASSUME TypeOK, Shape, NEW w \in Workers, NEW l \in Step, Goto(w, l), UNCHANGED job,
           l \in InRule => pc[w] \in InRule
    PROVE  job' \in [Workers -> Job] /\ pc' \in [Workers -> Step] /\ Shape'
<1>1. \A v \in Workers \ {w} : pc'[v] = pc[v]
  BY DEF TypeOK, Goto
<1>2. pc'[w] = l
  BY DEF TypeOK, Goto
<1>3. pc' \in [Workers -> Step] /\ job' = job
  BY DEF TypeOK, Goto
<1> QED BY <1>1, <1>2, <1>3 DEF TypeOK, Shape, RulesOf

\* A goroutine returns to its caller.
LEMMA Returning ==
    ASSUME TypeOK, Shape, NEW w \in Workers, Return(w)
    PROVE  job' \in [Workers -> Job] /\ pc' \in [Workers -> Step] /\ Shape'
<1> DEFINE j == NewJob(job[w].host)
<1>1. job[w].host \in Hosts
  BY DEF TypeOK, Job
<1>2. j \in Job
  BY <1>1, NewJobType
<1>3. j.todo \subseteq RulesOf(j.host)
  BY DEF NewJob
<1>4. Become(w, j) /\ Goto(w, "idle")
  BY DEF Return
<1> HIDE DEF j
<1> QED BY <1>2, <1>3, <1>4, Advance DEF Step, InRule

\* An inspection is cut short.
LEMMA Aborting ==
    ASSUME TypeOK, Shape, NEW w \in Workers, NEW s \in Status, NEW x \in RunStatus,
           Abort(w, s, x)
    PROVE  job' \in [Workers -> Job] /\ pc' \in [Workers -> Step] /\ Shape'
<1> DEFINE j == [job[w] EXCEPT !.status = s, !.result = x]
<1>1. job[w] \in Job
  BY DEF TypeOK
<1>2. j \in Job /\ j.todo = job[w].todo /\ j.host = job[w].host
  BY <1>1 DEF Job
<1>3. Become(w, j) /\ Goto(w, "failHost")
  BY DEF Abort
<1>4. job[w].todo \subseteq RulesOf(job[w].host)
  BY DEF Shape
<1> HIDE DEF j
<1> QED BY <1>2, <1>3, <1>4, Advance DEF Step, InRule

\* Every step of Next keeps the types and the shape.
LEMMA TypeStep == TypeOK /\ Shape /\ [Next]_vars => TypeOK' /\ Shape'
<1> SUFFICES ASSUME TypeOK, Shape, [Next]_vars PROVE TypeOK' /\ Shape'
  OBVIOUS
<1> DEFINE Local == job' \in [Workers -> Job] /\ pc' \in [Workers -> Step] /\ Shape'
           Rows  == /\ world' \in [Rules -> Finding]
                    /\ row' \in [Hosts -> Status \cup {"absent"}]
                    /\ rule' \in [Rules -> {"absent", "disabled", "enabled"}]
                    /\ item' \in [Rules -> Finding \cup {"none"}]
                    /\ log' \in [Rules -> Seq(Event)]
                    /\ open' \in [Rules -> Nat]
                    /\ runs' \in [Hosts -> Seq(RunStatus)]
                    /\ published' \in [Targets -> Class]
                    /\ inFlight' \subseteq Hosts
<1>0. ASSUME UNCHANGED <<world, db, inFlight>> PROVE Rows
  BY <1>0 DEF TypeOK, db
<1>a. ASSUME Local, Rows PROVE TypeOK' /\ Shape'
  BY <1>a DEF TypeOK
<1>b. ASSUME UNCHANGED <<pc, job>> PROVE Local
  BY <1>b DEF TypeOK, Shape, RulesOf
<1>1. CASE UNCHANGED vars
  BY <1>1, <1>0, <1>b, <1>a DEF vars
<1>2. ASSUME NEW w \in Workers, NEW h \in Hosts, Begin(w, h) PROVE TypeOK' /\ Shape'
  <2>1. NewJob(h).todo = {}
    BY DEF NewJob
  <2>2. Local
    BY <1>2, <2>1, NewJobType, Advance DEF Begin, Step, InRule
  <2>3. Rows
    BY <1>2 DEF Begin, TypeOK, db
  <2> QED BY <2>2, <2>3, <1>a
<1>3. ASSUME NEW w \in Workers, Expire(w) PROVE TypeOK' /\ Shape'
  <2> DEFINE j == [job[w] EXCEPT !.expired = TRUE]
  <2>1. job[w] \in Job /\ pc[w] \in Step
    BY DEF TypeOK
  <2>2. j \in Job /\ j.todo = job[w].todo /\ j.host = job[w].host /\ j.rule = job[w].rule
    BY <2>1 DEF Job
  <2>3. Become(w, j) /\ Goto(w, pc[w])
    BY <1>3 DEF Expire, Goto, TypeOK
  <2>4. /\ job[w].todo \subseteq RulesOf(job[w].host)
        /\ pc[w] \in InRule => job[w].rule \in RulesOf(job[w].host)
    BY DEF Shape
  <2>5. Local
    <3> HIDE DEF j
    <3> QED BY <2>1, <2>2, <2>3, <2>4, Advance
  <2> QED BY <1>3, <2>5, <1>0, <1>a DEF Expire
<1>4. ASSUME NEW w \in Workers, Proceed(w) PROVE TypeOK' /\ Shape'
  <2>0. job[w] \in Job /\ pc[w] \in Step /\ row \in [Hosts -> Status \cup {"absent"}]
    BY DEF TypeOK
  <2>a. /\ job[w].todo \subseteq RulesOf(job[w].host)
        /\ pc[w] \in InRule => job[w].rule \in RulesOf(job[w].host)
    BY DEF Shape
  <2>b. job[w].host \in Hosts
    BY <2>0 DEF Job
  <2>1. CASE Load(w)
    <3>1. ASSUME Return(w) PROVE Local
      BY <3>1, Returning
    <3>2. ASSUME row[job[w].host] # "absent",
                 Become(w, [job[w] EXCEPT !.status = row[job[w].host]]),
                 Goto(w, "connect")
          PROVE  Local
      <4> DEFINE j == [job[w] EXCEPT !.status = row[job[w].host]]
      <4>1. row[job[w].host] \in Status
        BY <2>0, <2>b, <3>2
      <4>2. j \in Job /\ j.todo = job[w].todo /\ j.host = job[w].host
        BY <2>0, <4>1 DEF Job
      <4>3. Become(w, j)
        BY <3>2
      <4> HIDE DEF j
      <4> QED BY <2>a, <3>2, <4>2, <4>3, Advance DEF Step, InRule
    <3>3. Local
      BY <2>1, <3>1, <3>2 DEF Load
    <3>4. Rows
      BY <2>1 DEF Load, TypeOK, db
    <3> QED BY <3>3, <3>4, <1>a
  <2>2. CASE Connect(w)
    <3>1. Local
      BY <2>2, Stay, Aborting DEF Connect, Step, InRule, Status, RunStatus
    <3> QED BY <2>2, <3>1, <1>0, <1>a DEF Connect
  <2>3. CASE Scrape(w)
    <3>1. Local
      BY <2>3, Stay, Aborting DEF Scrape, AbortOrDown, Step, InRule, Status, RunStatus
    <3> QED BY <2>3, <3>1, <1>0, <1>a DEF Scrape
  <2>4. CASE ListRules(w)
    <3> DEFINE T == {r \in RulesOf(job[w].host) : rule[r] = "enabled"}
               j == [job[w] EXCEPT !.todo = T]
    <3>1. T \in SUBSET Rules /\ T \subseteq RulesOf(job[w].host)
      BY DEF RulesOf
    <3>2. j \in Job /\ j.todo = T /\ j.host = job[w].host
      <4> HIDE DEF T
      <4> QED BY <2>0, <3>1 DEF Job
    <3>3. ASSUME Become(w, j), Goto(w, "eval") PROVE Local
      <4> HIDE DEF j, T
      <4> QED BY <3>1, <3>2, <3>3, Advance DEF Step, InRule
    <3>4. ASSUME AbortOrDown(w, "degraded", "error") PROVE Local
      BY <3>4, Aborting DEF AbortOrDown, Status, RunStatus
    <3>5. Local
      BY <2>4, <3>3, <3>4 DEF ListRules
    <3> QED BY <2>4, <3>5, <1>0, <1>a DEF ListRules
  <2>5. CASE Evaluate(w)
    <3>1. PICK r \in job[w].todo : \E seen \in {world[r], Silence(r)} :
             Become(w, [job[w] EXCEPT !.todo = @ \ {r}, !.rule = r, !.seen = seen,
                                      !.drift = @ \/ seen = "drift"])
      BY <2>5 DEF Evaluate
    <3>2. PICK seen \in {world[r], Silence(r)} :
             Become(w, [job[w] EXCEPT !.todo = @ \ {r}, !.rule = r, !.seen = seen,
                                      !.drift = @ \/ seen = "drift"])
      BY <3>1
    <3> DEFINE j == [job[w] EXCEPT !.todo = @ \ {r}, !.rule = r, !.seen = seen,
                                   !.drift = @ \/ seen = "drift"]
    <3>3. r \in Rules /\ r \in RulesOf(job[w].host)
      BY <2>a DEF RulesOf
    <3>4. seen \in Finding
      BY <3>3 DEF TypeOK, Silence, Finding
    <3>5. j \in Job /\ j.todo = job[w].todo \ {r} /\ j.host = job[w].host /\ j.rule = r
      BY <2>0, <3>3, <3>4 DEF Job
    <3>6. Become(w, j) /\ Goto(w, "prev")
      BY <2>5, <3>2 DEF Evaluate
    <3>7. Local
      <4> HIDE DEF j
      <4> QED BY <2>a, <3>3, <3>5, <3>6, Advance DEF Step
    <3> QED BY <2>5, <3>7, <1>0, <1>a DEF Evaluate
  <2>6. CASE ReadPrevious(w)
    <3> DEFINE j == [job[w] EXCEPT !.prev = item[job[w].rule]]
    <3>1. job[w].rule \in RulesOf(job[w].host)
      BY <2>6, <2>a DEF ReadPrevious, InRule
    <3>2. item[job[w].rule] \in Finding \cup {"none"}
      BY <3>1 DEF TypeOK, RulesOf
    <3>3. j \in Job /\ j.todo = job[w].todo /\ j.host = job[w].host /\ j.rule = job[w].rule
      BY <2>0, <3>2 DEF Job
    <3>4. Become(w, j) /\ Goto(w, "upsert")
      BY <2>6 DEF ReadPrevious
    <3>5. Local
      <4> HIDE DEF j
      <4> QED BY <2>a, <3>1, <3>3, <3>4, Advance DEF Step
    <3> QED BY <2>6, <3>5, <1>0, <1>a DEF ReadPrevious
  <2>7. CASE Upsert(w)
    <3>1. Local
      BY <2>7, Stay DEF Upsert, Step, InRule
    <3>2. job[w].seen \in Finding
      BY <2>0 DEF Job
    <3>3. Rows
      BY <2>7, <3>2 DEF Upsert, TypeOK
    <3> QED BY <3>1, <3>3, <1>a
  <2>8. CASE RecordIncident(w)
    <3>1. Local
      BY <2>8, Stay DEF RecordIncident, Step, InRule
    <3>2. ASSUME NEW r \in Rules, NEW e \in Event, Note(r, e)
          PROVE  log' \in [Rules -> Seq(Event)]
      <4>1. log \in [Rules -> Seq(Event)] /\ Append(log[r], e) \in Seq(Event)
        BY DEF TypeOK
      <4> QED BY <3>2, <4>1 DEF Note
    <3>3. job[w].rule \in Rules
      BY <2>8, <2>a DEF RecordIncident, InRule, RulesOf
    <3>4. log' \in [Rules -> Seq(Event)]
      BY <2>8, <3>2, <3>3 DEF RecordIncident, TypeOK, Event
    <3>5. Rows
      BY <2>8, <3>4 DEF RecordIncident, TypeOK
    <3> QED BY <3>1, <3>5, <1>a
  <2>9. CASE RaiseAlert(w)
    <3>1. Local
      BY <2>9, Stay DEF RaiseAlert, Step, InRule
    <3>2. job[w].rule \in Rules
      BY <2>9, <2>a DEF RaiseAlert, InRule, RulesOf
    <3>3. Rows
      BY <2>9, <3>2 DEF RaiseAlert, TypeOK
    <3> QED BY <3>1, <3>3, <1>a
  <2>10. CASE Judge(w)
    <3>1. ASSUME NEW s \in Status, NEW x \in RunStatus, NEW l \in {"run", "ack"},
                 Become(w, [job[w] EXCEPT !.status = s, !.result = x]), Goto(w, l)
          PROVE  Local
      <4> DEFINE j == [job[w] EXCEPT !.status = s, !.result = x]
      <4>1. j \in Job /\ j.todo = job[w].todo /\ j.host = job[w].host
        BY <2>0 DEF Job
      <4>2. Become(w, j)
        BY <3>1
      <4> HIDE DEF j
      <4> QED BY <2>a, <3>1, <4>1, <4>2, Advance DEF Step, InRule
    <3>2. Local
      BY <2>10, <3>1, Aborting DEF Judge, Status, RunStatus
    <3> QED BY <2>10, <3>2, <1>0, <1>a DEF Judge
  <2>11. CASE AcknowledgeHost(w)
    <3>1. Local
      BY <2>11, Stay DEF AcknowledgeHost, Step, InRule
    <3>2. Rows
      BY <2>11 DEF AcknowledgeHost, TypeOK
    <3> QED BY <3>1, <3>2, <1>a
  <2>12. CASE RecordVerdict(w)
    <3>1. job[w].result \in RunStatus /\ job[w].status \in Status
      BY <2>0 DEF Job
    <3>2. ASSUME NEW f \in Step, NEW l \in Step \ InRule, RecordRun(w, f, l)
          PROVE  Local /\ Rows
      <4>1. Local
        BY <3>2, Stay DEF RecordRun
      <4>2. Recorded(runs[job[w].host], job[w].result) \in Seq(RunStatus)
        BY <2>b, <3>1, RecordedType DEF TypeOK
      <4>3. runs' \in [Hosts -> Seq(RunStatus)]
        BY <3>2, <4>2 DEF RecordRun, TypeOK
      <4> QED BY <3>2, <4>1, <4>3 DEF RecordRun, TypeOK
    <3>3. ASSUME NEW f \in Step, NEW l \in Step \ InRule, WriteHost(w, f, l)
          PROVE  Local /\ Rows
      <4>1. Local
        BY <3>3, Stay DEF WriteHost
      <4> QED BY <3>1, <3>3, <4>1 DEF WriteHost, TypeOK
    <3>4. ASSUME Sample(w) PROVE Local /\ Rows
      <4>1. Local
        BY <3>4, Stay DEF Sample, Step, InRule
      <4> QED BY <3>4, <4>1, <1>0 DEF Sample
    <3>5. {"run", "sample", "host", "failHost", "failRun", "rollup"} \subseteq Step \ InRule
      BY DEF Step, InRule
    <3> QED BY <2>12, <3>2, <3>3, <3>4, <3>5, <1>a DEF RecordVerdict
  <2>13. CASE Finish(w)
    <3>1. Local
      BY <2>13, Returning DEF Finish
    <3>2. job[w].status \in Status
      BY <2>0 DEF Job
    <3>3. \A rs : HostClass(job[w].status, rs) \in Class
      BY <3>2 DEF HostClass, Class, Status
    <3>4. \A r : RuleClass(job[w].status, r) \in Class
      BY DEF RuleClass, Class
    <3>5. published' \in [Targets -> Class]
      BY <2>13, <3>3, <3>4 DEF Finish, TypeOK
    <3> QED BY <2>13, <3>1, <3>5, <1>a DEF Finish, TypeOK
  <2> QED
    BY <1>4, <2>1, <2>2, <2>3, <2>4, <2>5, <2>6, <2>7, <2>8, <2>9, <2>10, <2>11, <2>12, <2>13
       DEF Proceed
<1>5. ASSUME Administer PROVE TypeOK' /\ Shape'
  <2>1. Local
    BY <1>5, <1>b DEF Administer, SaveRule, DeleteRule, AcknowledgeOne, AcknowledgeAll, DeleteHost
  <2>2. ASSUME \E r \in Rules, enabled \in BOOLEAN : SaveRule(r, enabled) PROVE Rows
    BY <2>2 DEF SaveRule, TypeOK
  <2>3. ASSUME \E r \in Rules : DeleteRule(r) PROVE Rows
    BY <2>3 DEF DeleteRule, TypeOK, Class
  <2>4. ASSUME \E r \in Rules : AcknowledgeOne(r) PROVE Rows
    BY <2>4 DEF AcknowledgeOne, TypeOK
  <2>5. ASSUME AcknowledgeAll PROVE Rows
    BY <2>5 DEF AcknowledgeAll, TypeOK
  <2>6. ASSUME \E h \in Hosts : DeleteHost(h) PROVE Rows
    BY <2>6 DEF DeleteHost, TypeOK, Class
  <2> QED BY <1>5, <1>a, <2>1, <2>2, <2>3, <2>4, <2>5, <2>6 DEF Administer
<1>6. ASSUME NEW r \in Rules, WorldChange(r) PROVE TypeOK' /\ Shape'
  <2>1. Rows
    BY <1>6 DEF WorldChange, TypeOK, Finding, db
  <2> QED BY <1>6, <2>1, <1>a, <1>b DEF WorldChange
<1> QED
  BY <1>1, <1>2, <1>3, <1>4, <1>5, <1>6 DEF Next, Inspect

\* Types and shape hold initially.
LEMMA TypeInit == Init => TypeOK /\ Shape
BY ConstantsAssumption, NewJobType DEF Init, TypeOK, Shape, Status, Step, Class, InRule, NewJob

\* The rows and the goroutines' variables keep their types, whatever requests of the
\* web API fall between the calls of an inspection.
THEOREM TypeCorrect == Spec => []TypeOK
BY TypeInit, TypeStep, PTL DEF Spec

-----------------------------------------------------------------------------
\* An inspection holds the guard of its host, and no two inspections share a host.
Guarded ==
    /\ \A w \in Workers : Active(w) => job[w].host \in inFlight
    /\ AtMostOneInspection

\* A step of an inspection concerns one goroutine, which stays at its host and keeps
\* the in-flight entry until it ends.
LEMMA Moves ==
    ASSUME TypeOK, NEW w \in Workers, Proceed(w) \/ Expire(w)
    PROVE  /\ Active(w)
           /\ \A v \in Workers \ {w} : pc'[v] = pc[v] /\ job'[v] = job[v]
           /\ job'[w].host = job[w].host
           /\ \/ inFlight' = inFlight /\ pc'[w] # "idle"
              \/ inFlight' = inFlight \ {job[w].host} /\ pc'[w] = "idle"
<1> DEFINE Result == /\ Active(w)
                     /\ \A v \in Workers \ {w} : pc'[v] = pc[v] /\ job'[v] = job[v]
                     /\ job'[w].host = job[w].host
                     /\ \/ inFlight' = inFlight /\ pc'[w] # "idle"
                        \/ inFlight' = inFlight \ {job[w].host} /\ pc'[w] = "idle"
<1>0. job[w] \in Job /\ job \in [Workers -> Job] /\ pc \in [Workers -> Step]
  BY DEF TypeOK
<1>1. ASSUME NEW j, Become(w, j), j.host = job[w].host
      PROVE  /\ job'[w].host = job[w].host
             /\ \A v \in Workers \ {w} : job'[v] = job[v]
  BY <1>0, <1>1 DEF Become
<1>2. ASSUME NEW l \in Step, Goto(w, l)
      PROVE  pc'[w] = l /\ \A v \in Workers \ {w} : pc'[v] = pc[v]
  BY <1>0, <1>2 DEF Goto
<1>3. \A s, x : [job[w] EXCEPT !.status = s, !.result = x].host = job[w].host
  BY <1>0 DEF Job
<1>4. ASSUME NEW s, NEW x, Abort(w, s, x), UNCHANGED inFlight, Active(w) PROVE Result
  BY <1>1, <1>2, <1>3, <1>4 DEF Abort, Step
<1>5. ASSUME NEW l \in Step \ {"idle"}, Goto(w, l), UNCHANGED job, Active(w), UNCHANGED inFlight
      PROVE  Result
  BY <1>2, <1>5
<1>6. ASSUME NEW l \in Step \ {"idle"}, Goto(w, l), NEW j, Become(w, j), j.host = job[w].host,
             Active(w), UNCHANGED inFlight
      PROVE  Result
  BY <1>1, <1>2, <1>6
<1>17. ASSUME Return(w), Active(w), inFlight' = inFlight \ {job[w].host}
       PROVE  Result
  <2>1. NewJob(job[w].host).host = job[w].host
    BY DEF NewJob
  <2>2. Become(w, NewJob(job[w].host)) /\ Goto(w, "idle") /\ "idle" \in Step
    BY <1>17 DEF Return, Step
  <2> QED BY <2>1, <2>2, <1>1, <1>2, <1>17
<1> HIDE DEF Result
<1>7. ASSUME Expire(w) PROVE Result
  <2>1. [job[w] EXCEPT !.expired = TRUE].host = job[w].host
    BY <1>0 DEF Job
  <2>2. Goto(w, pc[w]) /\ pc[w] \in Step
    BY <1>0, <1>7 DEF Expire, Goto
  <2> QED BY <2>1, <2>2, <1>6, <1>7 DEF Expire, Active
<1>8. ASSUME Load(w) PROVE Result
  <2>1. [job[w] EXCEPT !.status = row[job[w].host]].host = job[w].host
    BY <1>0 DEF Job
  <2> QED BY <2>1, <1>6, <1>8, <1>17 DEF Load, Active, Step
<1>9. ASSUME Connect(w) \/ Scrape(w) PROVE Result
  BY <1>4, <1>5, <1>9 DEF Connect, Scrape, AbortOrDown, Active, Step
<1>10. ASSUME ListRules(w) PROVE Result
  <2>1. \A T : [job[w] EXCEPT !.todo = T].host = job[w].host
    BY <1>0 DEF Job
  <2> QED BY <2>1, <1>4, <1>6, <1>10 DEF ListRules, AbortOrDown, Active, Step
<1>11. ASSUME Evaluate(w) PROVE Result
  <2>1. \A r, seen : [job[w] EXCEPT !.todo = @ \ {r}, !.rule = r, !.seen = seen,
                                    !.drift = @ \/ seen = "drift"].host = job[w].host
    BY <1>0 DEF Job
  <2> QED BY <2>1, <1>6, <1>11 DEF Evaluate, Active, Step
<1>12. ASSUME ReadPrevious(w) PROVE Result
  <2>1. [job[w] EXCEPT !.prev = item[job[w].rule]].host = job[w].host
    BY <1>0 DEF Job
  <2> QED BY <2>1, <1>6, <1>12 DEF ReadPrevious, Active, Step
<1>13. ASSUME Upsert(w) \/ RecordIncident(w) \/ RaiseAlert(w) PROVE Result
  BY <1>5, <1>13 DEF Upsert, RecordIncident, RaiseAlert, Active, Step
<1>14. ASSUME Judge(w) PROVE Result
  BY <1>3, <1>4, <1>6, <1>14 DEF Judge, Active, Step
<1>15. ASSUME AcknowledgeHost(w) \/ RecordVerdict(w) PROVE Result
  BY <1>5, <1>15
     DEF AcknowledgeHost, RecordVerdict, RecordRun, Sample, WriteHost, Active, Step
<1>16. ASSUME Finish(w) PROVE Result
  BY <1>16, <1>17 DEF Finish, Active
<1> QED
  BY <1>7, <1>8, <1>9, <1>10, <1>11, <1>12, <1>13, <1>14, <1>15, <1>16 DEF Proceed, Result

\* Every step of Next keeps the guard.
LEMMA GuardStep == TypeOK /\ Guarded /\ [Next]_vars => Guarded'
<1> SUFFICES ASSUME TypeOK, Guarded, [Next]_vars PROVE Guarded'
  OBVIOUS
<1>1. ASSUME UNCHANGED <<inFlight, pc, job>> PROVE Guarded'
  BY <1>1 DEF Guarded, AtMostOneInspection, Active
<1>2. ASSUME NEW w \in Workers, NEW h \in Hosts, Begin(w, h) PROVE Guarded'
  <2>1. job'[w] = NewJob(h) /\ \A v \in Workers \ {w} : job'[v] = job[v] /\ pc'[v] = pc[v]
    BY <1>2 DEF Begin, Become, Goto, TypeOK
  <2>2. job'[w].host = h
    BY <2>1 DEF NewJob
  <2> QED BY <1>2, <2>1, <2>2 DEF Guarded, AtMostOneInspection, Active, Begin
<1>3. ASSUME NEW w \in Workers, Proceed(w) \/ Expire(w) PROVE Guarded'
  BY <1>3, Moves DEF Guarded, AtMostOneInspection, Active
<1>4. ASSUME Administer \/ \E r \in Rules : WorldChange(r) PROVE Guarded'
  BY <1>1, <1>4 DEF Administer, SaveRule, DeleteRule, AcknowledgeOne, AcknowledgeAll,
                    DeleteHost, WorldChange
<1> QED BY <1>1, <1>2, <1>3, <1>4 DEF Next, Inspect, vars

\* However many goroutines call InspectHost, a host is inspected by one at a time.
THEOREM OneInspection == Spec => []AtMostOneInspection
<1>1. Init => Guarded
  BY DEF Init, Guarded, AtMostOneInspection, Active
<1>2. Guarded => AtMostOneInspection
  BY DEF Guarded
<1> QED BY <1>1, <1>2, TypeCorrect, GuardStep, PTL DEF Spec

-----------------------------------------------------------------------------
\* The host of the rule has been deleted.
Gone(r) == row[HostOf[r]] = "absent"

\* Between two of its calls the goroutine may rely on what it has read: the previous
\* status until it has overwritten it, and then the state of the journal.
MayRely(w, r) ==
    /\ pc[w] = "upsert" /\ ~Gone(r) => job[w].prev = item[r]
    /\ pc[w] = "incident" /\ ~Gone(r) =>
         item[r] = job[w].seen /\ (job[w].prev = "drift" <=> Drifting(r))

Reported ==
    /\ \A r \in Rules : Gone(r) => item[r] = "none" /\ log[r] = <<>>
    /\ \A w \in Workers, r \in Rules : job[w].rule = r => MayRely(w, r)
    /\ DriftIsReported

\* Steps that leave the rows alone and reach no step that relies on them.
LEMMA Quiet ==
    ASSUME Reported, NEW w \in Workers, UNCHANGED <<row, item, log>>,
           pc[w] # "incident", pc'[w] \notin {"upsert", "incident"},
           \A v \in Workers \ {w} : pc'[v] = pc[v] /\ job'[v] = job[v]
    PROVE  Reported'
<1>1. \A r \in Rules : BeingReported(r) => BeingReported(r)'
  BY DEF BeingReported
<1>2. \A r \in Rules : Drifting(r)' = Drifting(r)
  BY DEF Drifting, Ledger!Drifting
<1>3. \A r : Gone(r)' = Gone(r)
  BY DEF Gone
<1>4. DriftIsReported'
  BY <1>1, <1>2 DEF Reported, DriftIsReported
<1>5. \A r \in Rules : Gone(r)' => item'[r] = "none" /\ log'[r] = <<>>
  BY <1>3 DEF Reported
<1>6. ASSUME NEW v \in Workers, NEW r \in Rules, job'[v].rule = r
      PROVE  MayRely(v, r)'
  <2>1. CASE v = w
    BY <2>1 DEF MayRely
  <2>2. CASE v # w
    BY <1>2, <1>3, <1>6, <2>2 DEF Reported, MayRely
  <2> QED BY <2>1, <2>2
<1> QED BY <1>4, <1>5, <1>6 DEF Reported

\* The last entry of a journal decides whether the rule is drifting.
LEMMA LastEvent ==
    ASSUME NEW s \in Seq(Event), NEW e \in Event
    PROVE  Ledger!Drifting(Append(s, e)) <=> e = "drift_detected"
<1>1. Append(s, e) # <<>> /\ Append(s, e)[Len(Append(s, e))] = e
  OBVIOUS
<1> QED BY <1>1 DEF Ledger!Drifting

\* The step invariant of the journal, and the journal's step in the abstract ledger.
LEMMA ReportStep ==
    ASSUME TypeOK, TypeOK', Shape, Guarded, Reported, [Next]_vars
    PROVE  Reported' /\ [Ledger!Next]_log
<1> DEFINE Goal == Reported' /\ [Ledger!Next]_log
<1>1. ASSUME UNCHANGED <<row, item, log, pc, job>> PROVE Goal
  BY <1>1 DEF Reported, MayRely, Gone, DriftIsReported, BeingReported, Drifting, Ledger!Drifting
<1>2. ASSUME NEW w \in Workers, NEW h \in Hosts, Begin(w, h) PROVE Goal
  <2>1. pc'[w] = "load" /\ \A v \in Workers \ {w} : job'[v] = job[v] /\ pc'[v] = pc[v]
    BY <1>2 DEF Begin, Become, Goto, TypeOK
  <2> QED BY <1>2, <2>1, Quiet DEF Begin, db
<1>3. ASSUME NEW w \in Workers, Expire(w) PROVE Goal
  <2>1. UNCHANGED <<row, item, log, pc>>
    BY <1>3 DEF Expire, db
  <2>2. job'[w] = [job[w] EXCEPT !.expired = TRUE] /\ job[w] \in Job
    BY <1>3 DEF Expire, Become, TypeOK
  <2>3. /\ job'[w].rule = job[w].rule
        /\ job'[w].prev = job[w].prev
        /\ job'[w].seen = job[w].seen
    BY <2>2 DEF Job
  <2>4. \A v \in Workers \ {w} : job'[v] = job[v]
    BY <1>3 DEF Expire, Become, TypeOK
  <2>5. \A r : BeingReported(r)' <=> BeingReported(r)
    BY <2>1, <2>3, <2>4 DEF BeingReported
  <2>6. \A v \in Workers : /\ job'[v].rule = job[v].rule
                           /\ job'[v].prev = job[v].prev
                           /\ job'[v].seen = job[v].seen
    BY <2>3, <2>4
  <2> QED BY <2>1, <2>5, <2>6
          DEF Reported, MayRely, Gone, DriftIsReported, Drifting, Ledger!Drifting
<1>4. ASSUME NEW w \in Workers, Proceed(w) PROVE Goal
  <2>0. /\ job[w] \in Job /\ job[w].host \in Hosts /\ job[w].seen \in Finding
        /\ Active(w) /\ \A v \in Workers \ {w} : pc'[v] = pc[v] /\ job'[v] = job[v]
    BY <1>4, Moves DEF TypeOK, Job
  <2>a. ASSUME UNCHANGED <<row, item, log>>, pc[w] # "incident",
               pc'[w] \notin {"upsert", "incident"}
        PROVE  Goal
    BY <2>0, <2>a, Quiet
  <2>b. \A l : Goto(w, l) => pc'[w] = l
    BY DEF Goto, TypeOK
  <2>c. ASSUME pc[w] \in {"prev", "upsert", "incident"}
        PROVE  /\ job[w].rule \in Rules /\ HostOf[job[w].rule] = job[w].host
               /\ \A v \in Workers \ {w} : pc[v] \in {"upsert", "incident"} =>
                    job[v].rule # job[w].rule
    BY <2>c, <2>0 DEF Shape, InRule, RulesOf, Guarded, AtMostOneInspection, Active
  <2>1. ASSUME \/ Load(w) \/ Connect(w) \/ Scrape(w) \/ ListRules(w) \/ Evaluate(w)
               \/ RaiseAlert(w) \/ Judge(w) \/ AcknowledgeHost(w) \/ Sample(w) \/ Finish(w)
        PROVE  Goal
    BY <2>1, <2>a, <2>b
       DEF Load, Connect, Scrape, ListRules, Evaluate, RaiseAlert, Judge, AcknowledgeHost,
           Sample, Finish, Return, AbortOrDown, Abort, db
  <2>2. ASSUME NEW f \in Step, NEW l \in Step \ InRule, RecordRun(w, f, l), f # "incident"
        PROVE  Goal
    BY <2>2, <2>a, <2>b DEF RecordRun, InRule
  <2>3. ASSUME NEW f \in Step, NEW l \in Step \ InRule, WriteHost(w, f, l), f # "incident"
        PROVE  Goal
    <3>1. \A h \in Hosts : row'[h] = "absent" <=> row[h] = "absent"
      BY <2>3, <2>0 DEF WriteHost, TypeOK, Job, Status
    <3>2. \A r \in Rules : Gone(r)' <=> Gone(r)
      BY <3>1, ConstantsAssumption DEF Gone
    <3>3. UNCHANGED <<item, log, job>> /\ pc[w] = f /\ pc'[w] = l
      BY <2>3, <2>b DEF WriteHost
    <3>4. \A r : BeingReported(r)' <=> BeingReported(r)
      BY <2>0, <2>3, <3>3 DEF BeingReported, InRule
    <3>5. ASSUME NEW v \in Workers, NEW r \in Rules, job'[v].rule = r
          PROVE  MayRely(v, r)'
      <4>1. MayRely(v, r)
        BY <3>3, <3>5 DEF Reported
      <4>2. CASE v = w
        BY <3>3, <4>2 DEF MayRely, InRule
      <4>3. CASE v # w
        BY <2>0, <3>2, <3>3, <4>1, <4>3 DEF MayRely, Drifting, Ledger!Drifting
      <4> QED BY <4>2, <4>3
    <3> QED BY <3>2, <3>3, <3>4, <3>5
            DEF Reported, DriftIsReported, Drifting, Ledger!Drifting
  <2>4. ASSUME RecordVerdict(w) PROVE Goal
    BY <2>1, <2>2, <2>3, <2>4 DEF RecordVerdict, Step, InRule
  <2>5. ASSUME ReadPrevious(w) PROVE Goal
    <3>1. /\ pc[w] = "prev" /\ pc'[w] = "upsert" /\ UNCHANGED <<row, item, log>>
          /\ job'[w] = [job[w] EXCEPT !.prev = item[job[w].rule]]
      BY <2>5, <2>b DEF ReadPrevious, Become, TypeOK, db
    <3>2. job'[w].rule = job[w].rule /\ job'[w].prev = item[job[w].rule]
      BY <2>0, <3>1 DEF Job
    <3>3. \A r : BeingReported(r)' <=> BeingReported(r)
      BY <2>0, <3>1 DEF BeingReported
    <3>4. ASSUME NEW v \in Workers, NEW r \in Rules, job'[v].rule = r
          PROVE  MayRely(v, r)'
      <4>1. CASE v = w
        BY <3>1, <3>2, <3>4, <4>1 DEF MayRely
      <4>2. CASE v # w
        BY <2>0, <3>1, <3>4, <4>2 DEF Reported, MayRely, Gone, Drifting, Ledger!Drifting
      <4> QED BY <4>1, <4>2
    <3> QED BY <3>1, <3>3, <3>4
            DEF Reported, Gone, DriftIsReported, Drifting, Ledger!Drifting
  <2>6. ASSUME Upsert(w) PROVE Goal
    <3>1. pc[w] = "upsert" /\ pc'[w] = "incident" /\ UNCHANGED <<row, log, job>>
      BY <2>6, <2>b DEF Upsert
    <3>2. PICK r0 \in Rules :
             /\ r0 = job[w].rule /\ HostOf[r0] = job[w].host
             /\ \A v \in Workers \ {w} : pc[v] \in {"upsert", "incident"} => job[v].rule # r0
      BY <2>c, <3>1
    <3>3. item' = IF Gone(r0) THEN item ELSE [item EXCEPT ![r0] = job[w].seen]
      BY <2>6, <3>2 DEF Upsert, Gone
    <3>4. \A r \in Rules \ {r0} : /\ item'[r] = item[r]
                                  /\ BeingReported(r)' <=> BeingReported(r)
      BY <2>0, <3>1, <3>2, <3>3 DEF BeingReported, TypeOK
    <3>5. BeingReported(r0)' /\ ~BeingReported(r0)
      BY <3>1, <3>2 DEF BeingReported
    <3>6. ~Gone(r0) =>
             item'[r0] = job[w].seen /\ (job[w].prev = "drift" <=> Drifting(r0))
      <4>1. ~Gone(r0) => item'[r0] = job[w].seen
        BY <3>2, <3>3 DEF TypeOK
      <4>2. ~Gone(r0) => job[w].prev = item[r0]
        BY <3>1, <3>2 DEF Reported, MayRely
      <4>3. item[r0] = "drift" <=> Drifting(r0)
        BY <3>2, <3>5 DEF Reported, DriftIsReported
      <4> QED BY <4>1, <4>2, <4>3
    <3>7. ASSUME NEW v \in Workers, NEW r \in Rules, job'[v].rule = r
          PROVE  MayRely(v, r)'
      <4>1. CASE v = w
        BY <3>1, <3>2, <3>6, <3>7, <4>1 DEF MayRely, Gone, Drifting, Ledger!Drifting
      <4>2. CASE v # w
        <5>1. MayRely(v, r) /\ pc'[v] = pc[v]
          BY <2>0, <3>1, <3>7, <4>2 DEF Reported
        <5>2. pc[v] \in {"upsert", "incident"} => item'[r] = item[r]
          BY <3>1, <3>2, <3>4, <3>7, <4>2
        <5> QED BY <3>1, <5>1, <5>2 DEF MayRely, Gone, Drifting, Ledger!Drifting
      <4> QED BY <4>1, <4>2
    <3>8. \A r \in Rules : Gone(r)' => item'[r] = "none" /\ log'[r] = <<>>
      BY <3>1, <3>3, <3>4 DEF Reported, Gone
    <3>9. DriftIsReported'
      BY <3>1, <3>4, <3>5 DEF Reported, DriftIsReported, Drifting, Ledger!Drifting
    <3> QED BY <3>1, <3>7, <3>8, <3>9 DEF Reported
  <2>7. ASSUME RecordIncident(w) PROVE Goal
    <3>1. /\ pc[w] = "incident" /\ pc'[w] \in {"alert", "eval"}
          /\ UNCHANGED <<row, item, job>>
      BY <2>7, <2>b DEF RecordIncident
    <3>2. PICK r0 \in Rules :
             /\ r0 = job[w].rule /\ HostOf[r0] = job[w].host
             /\ \A v \in Workers \ {w} : pc[v] \in {"upsert", "incident"} => job[v].rule # r0
      BY <2>c, <3>1
    <3>3. /\ Gone(r0) => item[r0] = "none" /\ log[r0] = <<>>
          /\ ~Gone(r0) => item[r0] = job[w].seen /\ (job[w].prev = "drift" <=> Drifting(r0))
      BY <3>1, <3>2 DEF Reported, MayRely
    <3>4. log \in [Rules -> Seq(Event)] /\ log[r0] \in Seq(Event)
      BY <3>2 DEF TypeOK
    <3>5. /\ [Ledger!Next]_log
          /\ \A r \in Rules \ {r0} : log'[r] = log[r]
          /\ Gone(r0) => log' = log
          /\ ~Gone(r0) => (Drifting(r0)' <=> item[r0] = "drift")
      <4>1. CASE UNCHANGED log /\ (Gone(r0) \/ (~NewDrift(job[w]) /\ ~Recovered(job[w])))
        BY <2>0, <3>3, <4>1 DEF Drifting, Ledger!Drifting, NewDrift, Recovered, Finding
      <4>2. CASE /\ NewDrift(job[w]) /\ ~Gone(r0)
                 /\ log' = [log EXCEPT ![r0] = Append(@, "drift_detected")]
        <5>1. Ledger!Detect(r0)
          BY <3>3, <4>2 DEF Ledger!Detect, NewDrift, Drifting
        <5>2. log'[r0] = Append(log[r0], "drift_detected")
          BY <3>2, <3>4, <4>2
        <5>3. Drifting(r0)'
          BY <3>4, <5>2, LastEvent DEF Drifting, Event
        <5> QED BY <3>2, <3>3, <3>4, <4>2, <5>1, <5>3 DEF Ledger!Next, NewDrift
      <4>3. CASE /\ Recovered(job[w]) /\ ~Gone(r0)
                 /\ log' = [log EXCEPT ![r0] = Append(@, "drift_resolved")]
        <5>1. Ledger!Resolve(r0)
          BY <3>3, <4>3 DEF Ledger!Resolve, Recovered, Drifting
        <5>2. log'[r0] = Append(log[r0], "drift_resolved")
          BY <3>2, <3>4, <4>3
        <5>3. ~Drifting(r0)'
          BY <3>4, <5>2, LastEvent DEF Drifting, Event
        <5> QED BY <3>2, <3>3, <3>4, <4>3, <5>1, <5>3 DEF Ledger!Next, Recovered
      <4> QED BY <2>7, <3>2, <4>1, <4>2, <4>3 DEF RecordIncident, Note, Gone
    <3>6. \A r \in Rules \ {r0} : /\ BeingReported(r)' <=> BeingReported(r)
                                  /\ Drifting(r)' <=> Drifting(r)
      BY <2>0, <3>1, <3>2, <3>5 DEF BeingReported, Drifting, Ledger!Drifting
    <3>7. DriftIsReported'
      BY <3>1, <3>3, <3>5, <3>6 DEF Reported, DriftIsReported, Drifting, Ledger!Drifting
    <3>8. ASSUME NEW v \in Workers, NEW r \in Rules, job'[v].rule = r
          PROVE  MayRely(v, r)'
      <4>1. CASE v = w
        BY <3>1, <4>1 DEF MayRely
      <4>2. CASE v # w
        <5>1. MayRely(v, r) /\ pc'[v] = pc[v]
          BY <2>0, <3>1, <3>8, <4>2 DEF Reported
        <5>2. pc[v] \in {"upsert", "incident"} => r # r0
          BY <3>1, <3>2, <3>8, <4>2
        <5> QED BY <3>1, <3>6, <5>1, <5>2 DEF MayRely, Gone
      <4> QED BY <4>1, <4>2
    <3>9. \A r \in Rules : Gone(r)' => item'[r] = "none" /\ log'[r] = <<>>
      BY <3>1, <3>5 DEF Reported, Gone
    <3> QED BY <3>5, <3>7, <3>8, <3>9 DEF Reported
  <2> QED BY <1>4, <2>1, <2>4, <2>5, <2>6, <2>7 DEF Proceed
<1>5. ASSUME NEW h \in Hosts, DeleteHost(h) PROVE Goal
  <2>1. /\ row' = [row EXCEPT ![h] = "absent"]
        /\ \A r \in Rules : item'[r] = IF HostOf[r] = h THEN "none" ELSE item[r]
        /\ \A r \in Rules : log'[r] = IF HostOf[r] = h THEN <<>> ELSE log[r]
        /\ UNCHANGED <<pc, job>>
    BY <1>5 DEF DeleteHost
  <2>2. \A r \in Rules : Gone(r)' <=> Gone(r) \/ HostOf[r] = h
    BY <2>1, ConstantsAssumption DEF Gone, TypeOK
  <2>3. \A r \in Rules : Drifting(r)' <=> Drifting(r) /\ HostOf[r] # h
    BY <2>1 DEF Drifting, Ledger!Drifting
  <2>4. \A r : BeingReported(r)' <=> BeingReported(r)
    BY <2>1 DEF BeingReported
  <2>5. DriftIsReported'
    BY <2>1, <2>3, <2>4 DEF Reported, DriftIsReported
  <2>6. ASSUME NEW v \in Workers, NEW r \in Rules, job'[v].rule = r
        PROVE  MayRely(v, r)'
    BY <2>1, <2>2, <2>3, <2>6 DEF Reported, MayRely
  <2>7. Ledger!Forget(RulesOf(h)) /\ RulesOf(h) \in SUBSET Rules
    BY <1>5 DEF DeleteHost, Ledger!Forget, RulesOf
  <2> QED BY <2>1, <2>2, <2>5, <2>6, <2>7 DEF Reported, Ledger!Next
<1>6. ASSUME Administer \/ \E r \in Rules : WorldChange(r) PROVE Goal
  BY <1>1, <1>5, <1>6 DEF Administer, SaveRule, DeleteRule, AcknowledgeOne, AcknowledgeAll,
                          WorldChange, db
<1> QED BY <1>1, <1>2, <1>3, <1>4, <1>6 DEF Next, Inspect, vars, db

\* The inductive invariant.
Inductive == TypeOK /\ Shape /\ Guarded /\ Reported

\* It holds initially, and the journal starts empty.
LEMMA InductiveInit == Init => Inductive /\ Ledger!Init
<1> SUFFICES ASSUME Init PROVE Inductive /\ Ledger!Init
  OBVIOUS
<1>1. TypeOK /\ Shape
  BY TypeInit
<1>2. Guarded
  BY DEF Init, Guarded, AtMostOneInspection, Active
<1>3. Reported
  BY ConstantsAssumption DEF Init, Reported, MayRely, Gone, DriftIsReported, Drifting, Ledger!Drifting
<1> QED BY <1>1, <1>2, <1>3 DEF Inductive, Init, Ledger!Init

\* Every step keeps it, and maps to a step of the ledger or a stutter.
LEMMA InductiveStep == Inductive /\ [Next]_vars => Inductive' /\ [Ledger!Next]_log
BY TypeStep, GuardStep, ReportStep DEF Inductive

\* Outside the window between the two writes of evaluateDesiredRules, a rule's
\* actual_items row says "drift" exactly when its last incident is a detection.
THEOREM DriftReported == Spec => []DriftIsReported
<1>1. Inductive => DriftIsReported
  BY DEF Inductive, Reported
<1> QED BY <1>1, InductiveInit, InductiveStep, PTL DEF Spec

\* The incidents of every rule alternate between detection and resolution: the
\* pipeline implements the abstract drift ledger.
THEOREM ImplementsLedger == Spec => LedgerSpec
<1>1. Spec => []Inductive
  BY InductiveInit, InductiveStep, PTL DEF Spec
<1> QED BY <1>1, InductiveInit, InductiveStep, PTL DEF Spec, LedgerSpec, Ledger!Spec

-----------------------------------------------------------------------------
(* The verdicts.                                                            *)

\* The steps of an inspection that has not evaluated a rule yet, and of one that has
\* not taken its verdict.
Starting == {"load", "connect", "scrape", "list"}
Judging  == Starting \cup InRule \cup {"eval"}

\* The host has no open alert.
NoAlerts(h) == \A r \in RulesOf(h) : open[r] = 0

\* A hosts row that says "healthy" has no open alert under it.
Calm(h) == row[h] = "healthy" => NoAlerts(h)

\* Once the verdict is taken, a host is written healthy only with its alerts
\* acknowledged.
Settled(w) ==
    LET h == job[w].host IN
    /\ pc[w] = "failHost" => job[w].status # "healthy"
    /\ pc[w] \in {"run", "sample", "host"} /\ job[w].status = "healthy" => NoAlerts(h)
    /\ pc[w] \in {"failRun", "rollup"} => Calm(h)

\* Until then, a goroutine that raises an alert remembers it in driftFound.
Alerting(w) ==
    LET j == job[w] IN
    /\ pc[w] \in Starting => ~j.drift
    /\ pc[w] \in InRule /\ j.seen = "drift" => j.drift
    /\ pc[w] = "alert" => j.seen = "drift"
    /\ pc[w] \in Judging /\ ~j.drift => Calm(j.host)

\* The newest inspection_runs row of the host, if any, has the status x.
Newest(h, x) == runs[h] # <<>> => runs[h][1] = x

\* VerdictMatchesRun and OutageIsSustained, for a host that still has its row.
Matching(h) == runs[h] # <<>> => row[h] = StatusOf(runs[h][1])

Sustained(h) ==
    h \in Targets /\ Len(runs[h]) >= 2 =>
        (published[h] = "outage" <=> runs[h][1] = "down" /\ runs[h][2] = "down")

\* What the history and the status page say of the host at each step: until the run is
\* recorded they say what the last inspection left, then the run is ahead of the row or
\* the row ahead of the run, and the rollup comes last.
Recording(w) ==
    LET j == job[w]
        h == j.host
    IN  /\ pc[w] \notin Judging => j.status = StatusOf(j.result)
        /\ row[h] # "absent" =>
             /\ pc[w] \in Judging \cup {"ack"} => Matching(h)
             /\ pc[w] \in Judging \cup {"ack", "run", "failHost", "failRun"} => Sustained(h)
             /\ pc[w] \in {"sample", "host", "rollup"} => Newest(h, j.result)
             /\ pc[w] \in {"failRun", "rollup"} => row[h] = j.status

\* All that an inspection under way relies on.
Working(w) == Settled(w) /\ Alerting(w) /\ Recording(w)

\* What a host that nobody inspects says.
Resting(h) == Calm(h) /\ (row[h] # "absent" => Matching(h) /\ Sustained(h))

\* Without a history there are no runs.
Unkept == Keep = 0 => \A h \in Hosts : runs[h] = <<>>

\* The part of the inductive invariant about verdicts.
Verdicts ==
    /\ Unkept
    /\ \A h \in Hosts \ inFlight : Resting(h)
    /\ \A w \in Workers : Active(w) => Working(w)

\* RecordInspectionRun puts the new run first; when no history is kept, it keeps none.
LEMMA RecordedFirst ==
    ASSUME NEW s \in Seq(RunStatus), NEW x \in RunStatus
    PROVE  /\ Keep = 0 => Recorded(s, x) = s
           /\ Keep # 0 => Recorded(s, x)[1] = x
<1> DEFINE bucket == {i \in 1..Len(s) : (s[i] = "ok") <=> (x = "ok")}
<1>1. Cardinality(bucket) \in Nat /\ (bucket = {} => Cardinality(bucket) = 0)
  <2>1. IsFiniteSet(1..Len(s))
    BY FS_Interval
  <2>2. IsFiniteSet(bucket)
    BY <2>1, FS_Subset
  <2> QED BY <2>2, FS_CardinalityType, FS_EmptySet
<1>2. (<<x>> \o s)[1] = x
  OBVIOUS
<1>3. bucket # {} => (<<x>> \o RemoveAt(s, Max(bucket)))[1] = x
  <2> SUFFICES ASSUME bucket # {} PROVE (<<x>> \o RemoveAt(s, Max(bucket)))[1] = x
    OBVIOUS
  <2>1. bucket \in SUBSET (1..Len(s))
    OBVIOUS
  <2> HIDE DEF bucket
  <2>2. RemoveAt(s, Max(bucket)) \in Seq(RunStatus)
    BY <2>1, PrunedType
  <2> QED BY <2>2
<1> HIDE DEF bucket
<1>4. Recorded(s, x) = IF Cardinality(bucket) < Keep THEN <<x>> \o s
                       ELSE IF Keep = 0 THEN s ELSE <<x>> \o RemoveAt(s, Max(bucket))
  BY DEF Recorded, bucket
<1> QED BY <1>1, <1>2, <1>3, <1>4, ConstantsAssumption

\* The rows of host g say what they said, and no alert is new.
Kept(g) ==
    /\ row'[g] = row[g]
    /\ runs'[g] = runs[g]
    /\ NoAlerts(g) => NoAlerts(g)'
    /\ g \in Targets => published'[g] = published[g]

\* The rows of host g have gone with it.
Wiped(g) == row'[g] = "absent" /\ runs'[g] = <<>> /\ NoAlerts(g)'

\* A host at rest stays at rest when its rows are kept or gone.
LEMMA RestKept ==
    ASSUME NEW g \in Hosts, Kept(g) \/ Wiped(g)
    PROVE  Resting(g) => Resting(g)'
BY DEF Kept, Wiped, Resting, Calm, Matching, Sustained

\* What a goroutine relies on holds as long as it does not move and its rows are kept.
LEMMA WorkKept ==
    ASSUME NEW v \in Workers, pc'[v] = pc[v], job'[v] = job[v],
           Kept(job[v].host) \/ Wiped(job[v].host)
    PROVE  Working(v) => Working(v)'
<1>1. CASE Kept(job[v].host)
  BY <1>1 DEF Kept, Working, Settled, Alerting, Recording, Calm, Matching, Sustained, Newest
<1>2. CASE Wiped(job[v].host)
  BY <1>2 DEF Wiped, Working, Settled, Alerting, Recording, Calm, Matching, Sustained, Newest
<1> QED BY <1>1, <1>2

\* An inspection touches the rows of its own host only.
LEMMA Footprint ==
    ASSUME TypeOK, Shape, NEW w \in Workers, Proceed(w) \/ Expire(w),
           NEW g \in Hosts, g # job[w].host
    PROVE  Kept(g)
<1>0. job[w].host \in Hosts /\ \A r \in RulesOf(g) : r \in Rules /\ r # g /\ HostOf[r] = g
  BY ConstantsAssumption DEF TypeOK, Job, RulesOf
<1>1. CASE UNCHANGED <<row, runs, open, published>>
  BY <1>1 DEF Kept, NoAlerts
<1>2. CASE RaiseAlert(w)
  <2>1. HostOf[job[w].rule] = job[w].host
    BY <1>2 DEF RaiseAlert, Shape, InRule, RulesOf
  <2>2. UNCHANGED <<row, runs, published>> /\ \A r \in RulesOf(g) : open'[r] = open[r]
    BY <1>0, <1>2, <2>1 DEF RaiseAlert, TypeOK
  <2> QED BY <2>2 DEF Kept, NoAlerts
<1>3. CASE AcknowledgeHost(w)
  BY <1>0, <1>3 DEF AcknowledgeHost, Kept, NoAlerts
<1>4. CASE \E f, l \in Step : RecordRun(w, f, l)
  BY <1>0, <1>4 DEF RecordRun, Kept, NoAlerts, TypeOK
<1>5. CASE \E f, l \in Step : WriteHost(w, f, l)
  BY <1>0, <1>5 DEF WriteHost, Kept, NoAlerts, TypeOK
<1>6. CASE Finish(w)
  <2>1. UNCHANGED <<row, runs, open>>
    BY <1>6 DEF Finish
  <2>2. g \notin RulesOf(job[w].host)
    BY ConstantsAssumption DEF RulesOf
  <2>3. g \in Targets => published'[g] = published[g]
    BY <1>6, <2>2 DEF Finish
  <2> QED BY <2>1, <2>3 DEF Kept, NoAlerts
<1>7. CASE \/ Load(w) \/ Connect(w) \/ Scrape(w) \/ ListRules(w) \/ Evaluate(w)
           \/ ReadPrevious(w) \/ Upsert(w) \/ RecordIncident(w) \/ Judge(w) \/ Sample(w)
           \/ Expire(w)
  BY <1>1, <1>7 DEF Load, Connect, Scrape, ListRules, Evaluate, ReadPrevious, Upsert,
                    RecordIncident, Judge, Sample, Expire, db
<1>8. CASE RecordVerdict(w)
  BY <1>4, <1>5, <1>7, <1>8 DEF RecordVerdict, Step
<1> QED BY <1>2, <1>3, <1>6, <1>7, <1>8 DEF Proceed

\* The administrator and the machines leave the inspections alone; they clear alerts,
\* and a host that is deleted takes its rows with it.
LEMMA AdminFootprint ==
    ASSUME TypeOK, Administer \/ \E r \in Rules : WorldChange(r)
    PROVE  UNCHANGED <<inFlight, pc, job>> /\ \A g \in Hosts : Kept(g) \/ Wiped(g)
<1> DEFINE Goal == \A g \in Hosts : Kept(g) \/ Wiped(g)
<1>1. UNCHANGED <<inFlight, pc, job>>
  BY DEF Administer, SaveRule, DeleteRule, AcknowledgeOne, AcknowledgeAll, DeleteHost, WorldChange
<1>2. ASSUME \E r \in Rules : WorldChange(r) \/ \E enabled \in BOOLEAN : SaveRule(r, enabled)
      PROVE  Goal
  BY <1>2 DEF WorldChange, SaveRule, Kept, NoAlerts, db
<1>3. ASSUME NEW r \in Rules, DeleteRule(r) PROVE Goal
  <2>1. \A g \in Hosts : g # r
    BY ConstantsAssumption
  <2> QED BY <1>3, <2>1 DEF DeleteRule, Kept, NoAlerts
<1>4. ASSUME NEW r \in Rules, AcknowledgeOne(r) PROVE Goal
  <2>1. open[r] # 0 /\ \A q \in Rules \ {r} : open'[q] = open[q]
    BY <1>4 DEF AcknowledgeOne, TypeOK
  <2>2. \A g \in Hosts : NoAlerts(g) => NoAlerts(g)'
    BY <2>1 DEF NoAlerts, RulesOf
  <2> QED BY <1>4, <2>2 DEF AcknowledgeOne, Kept
<1>5. ASSUME AcknowledgeAll PROVE Goal
  BY <1>5 DEF AcknowledgeAll, Kept, NoAlerts, RulesOf
<1>6. ASSUME NEW h \in Hosts, DeleteHost(h) PROVE Goal
  <2>1. Wiped(h)
    BY <1>6 DEF DeleteHost, Wiped, NoAlerts, RulesOf, TypeOK
  <2>2. ASSUME NEW g \in Hosts, g # h PROVE Kept(g)
    <3>1. g \notin RulesOf(h)
      BY ConstantsAssumption DEF RulesOf
    <3>2. row'[g] = row[g] /\ runs'[g] = runs[g] /\ (g \in Targets => published'[g] = published[g])
      BY <1>6, <2>2, <3>1 DEF DeleteHost, TypeOK
    <3>3. NoAlerts(g) => NoAlerts(g)'
      BY <1>6 DEF DeleteHost, NoAlerts, RulesOf
    <3> QED BY <3>2, <3>3 DEF Kept
  <2> QED BY <2>1, <2>2
<1> HIDE DEF Goal
<1> QED BY <1>1, <1>2, <1>3, <1>4, <1>5, <1>6 DEF Administer, Goal

\* A step of an inspection keeps its own verdict.
LEMMA OwnVerdict ==
    ASSUME TypeOK, Shape, NEW w \in Workers, Settled(w), Proceed(w) \/ Expire(w)
    PROVE  Settled(w)'
<1>0. /\ job[w] \in Job /\ job[w].host \in Hosts /\ job'[w].host = job[w].host
      /\ row \in [Hosts -> Status \cup {"absent"}]
  BY Moves DEF TypeOK, Job
<1>a. \A l : Goto(w, l) => pc'[w] = l
  BY DEF Goto, TypeOK
<1>b. \A j : Become(w, j) => job'[w] = j
  BY DEF Become, TypeOK
<1>c. ASSUME pc'[w] \notin {"failHost", "run", "sample", "host", "failRun", "rollup"}
      PROVE  Settled(w)'
  BY <1>c DEF Settled
<1>d. ASSUME NEW s \in {"down", "degraded"}, NEW x, Abort(w, s, x) PROVE Settled(w)'
  <2>1. pc'[w] = "failHost" /\ job'[w].status = s
    BY <1>0, <1>a, <1>b, <1>d DEF Abort, Job
  <2> QED BY <2>1 DEF Settled
<1>1. CASE \/ Load(w) \/ Connect(w) \/ Scrape(w) \/ ListRules(w) \/ Evaluate(w)
           \/ ReadPrevious(w) \/ Upsert(w) \/ RecordIncident(w) \/ RaiseAlert(w) \/ Finish(w)
  BY <1>1, <1>a, <1>c, <1>d DEF Load, Connect, Scrape, ListRules, Evaluate, ReadPrevious,
     Upsert, RecordIncident, RaiseAlert, Finish, Return, AbortOrDown
<1>2. CASE Judge(w)
  <2>1. CASE Abort(w, "down", "down") \/ Goto(w, "ack")
    BY <1>a, <1>c, <1>d, <2>1
  <2>2. CASE /\ Become(w, [job[w] EXCEPT !.status = "degraded", !.result = "drift"])
             /\ Goto(w, "run")
    <3>1. pc'[w] = "run" /\ job'[w].status = "degraded"
      BY <1>0, <1>a, <1>b, <2>2 DEF Job
    <3> QED BY <3>1 DEF Settled
  <2> QED BY <1>2, <2>1, <2>2 DEF Judge
<1>3. CASE AcknowledgeHost(w)
  <2>1. pc'[w] = "run" /\ NoAlerts(job[w].host)'
    BY <1>0, <1>3, <1>a DEF AcknowledgeHost, NoAlerts, RulesOf
  <2> QED BY <2>1 DEF Settled
<1>4. CASE RecordVerdict(w)
  <2>1. UNCHANGED <<open, job>>
    BY <1>4 DEF RecordVerdict, RecordRun, Sample, WriteHost, db
  <2>2. CASE UNCHANGED row /\ \/ pc[w] \in {"run", "sample"} /\ pc'[w] \in {"sample", "host"}
                              \/ pc[w] = "failRun" /\ pc'[w] = "rollup"
    BY <2>1, <2>2 DEF Settled, Calm, NoAlerts
  <2>3. CASE /\ pc[w] \in {"host", "failHost"} /\ pc'[w] \in {"rollup", "failRun"}
             /\ row'[job[w].host] = IF row[job[w].host] = "absent" THEN "absent"
                                    ELSE job[w].status
    BY <2>1, <2>3 DEF Settled, Calm, NoAlerts
  <2> QED BY <1>0, <1>4, <1>a, <2>2, <2>3 DEF RecordVerdict, RecordRun, Sample, WriteHost, db
<1>5. CASE Expire(w)
  <2>1. UNCHANGED <<row, open, pc>> /\ job'[w].status = job[w].status
    BY <1>0, <1>5, <1>b DEF Expire, Job, db
  <2> QED BY <1>0, <2>1 DEF Settled, Calm, NoAlerts
<1> QED BY <1>1, <1>2, <1>3, <1>4, <1>5 DEF Proceed

\* A step of an inspection leaves what the goroutine relies on, and at its end a host
\* at rest.
LEMMA OwnStep ==
    ASSUME TypeOK, Shape, Unkept, NEW w \in Workers, Working(w), Proceed(w) \/ Expire(w),
           NEW h \in Hosts, job[w].host = h
    PROVE  /\ Unkept'
           /\ pc'[w] # "idle" => Working(w)'
           /\ pc'[w] = "idle" => Resting(h)'
<1> DEFINE Goal == /\ Unkept'
                   /\ pc'[w] # "idle" => Working(w)'
                   /\ pc'[w] = "idle" => Resting(h)'
<1>0. /\ job[w] \in Job /\ row[h] \in Status \cup {"absent"}
      /\ runs[h] \in Seq(RunStatus) /\ job[w].status \in Status /\ job[w].result \in RunStatus
      /\ job'[w].host = h
  BY Moves DEF TypeOK, Job
<1>a. \A l : Goto(w, l) => pc'[w] = l
  BY DEF Goto, TypeOK
<1>b. \A j : Become(w, j) => job'[w] = j
  BY DEF Become, TypeOK
<1>c. UNCHANGED runs => Unkept'
  BY DEF Unkept
<1>f. Settled(w)'
  BY OwnVerdict DEF Working
<1>d. ASSUME UNCHANGED <<row, runs, open, published>>, NEW s, NEW x, Abort(w, s, x),
             s \in Status \ {"healthy"}, s = StatusOf(x), pc[w] \in Judging
      PROVE  Goal
  <2>1. pc'[w] = "failHost" /\ job'[w] = [job[w] EXCEPT !.status = s, !.result = x]
    BY <1>a, <1>b, <1>d DEF Abort
  <2>2. job'[w].status = s /\ job'[w].result = x
    BY <1>0, <2>1 DEF Job
  <2>3. row[h] # "absent" => Sustained(h)
    BY <1>d DEF Working, Recording
  <2>4. Alerting(w)'
    BY <1>d, <2>1, <2>2 DEF Alerting, Starting, Judging, InRule
  <2>5. Recording(w)'
    BY <1>0, <1>d, <2>1, <2>2, <2>3 DEF Recording, Sustained, Starting, Judging, InRule
  <2> QED BY <1>c, <1>f, <1>d, <2>1, <2>4, <2>5 DEF Working
<1>e. ASSUME UNCHANGED <<row, runs, open, published>>,
             pc[w] \in Judging, pc'[w] \in Judging \cup {"ack"},
             pc'[w] \in Starting => pc[w] \in Starting /\ job'[w].drift = job[w].drift,
             pc'[w] \in InRule /\ job'[w].seen = "drift" => job'[w].drift,
             pc'[w] = "alert" => job'[w].seen = "drift",
             pc'[w] \in Judging /\ ~job'[w].drift => ~job[w].drift,
             pc'[w] = "ack" => job'[w].status = StatusOf(job'[w].result)
      PROVE  Goal
  <2>1. row[h] # "absent" => Matching(h) /\ Sustained(h)
    BY <1>e DEF Working, Recording
  <2>2. Recording(w)'
    BY <1>0, <1>e, <2>1 DEF Recording, Sustained, Matching, Starting, Judging, InRule
  <2>4. Alerting(w)'
    BY <1>0, <1>e DEF Working, Alerting, Calm, NoAlerts
  <2>5. pc'[w] # "idle"
    BY <1>e DEF Starting, Judging, InRule
  <2> QED BY <1>c, <1>f, <1>e, <2>2, <2>4, <2>5 DEF Working
<1>1. CASE Load(w)
  <2>1. pc[w] = "load" /\ UNCHANGED <<row, runs, open, published>>
    BY <1>1 DEF Load, db
  <2>2. CASE Return(w)
    <3>1. pc'[w] = "idle"
      BY <1>a, <2>2 DEF Return
    <3>2. ~job[w].drift
      BY <2>1 DEF Working, Alerting, Starting
    <3>3. Resting(h)
      BY <2>1, <3>2 DEF Working, Alerting, Recording, Resting, Judging, Starting
    <3>4. Kept(h)
      BY <2>1 DEF Kept, NoAlerts
    <3> QED BY <1>0, <1>c, <2>1, <3>1, <3>3, <3>4, RestKept
  <2>3. CASE Goto(w, "connect") /\ Become(w, [job[w] EXCEPT !.status = row[job[w].host]])
    <3>1. pc'[w] = "connect" /\ job'[w].drift = job[w].drift
      BY <1>0, <1>a, <1>b, <2>3 DEF Job
    <3> QED BY <2>1, <3>1, <1>e DEF Starting, Judging, InRule
  <2> QED BY <1>1, <2>2, <2>3 DEF Load
<1>2. CASE Connect(w) \/ Scrape(w)
  <2>1. pc[w] \in Starting /\ UNCHANGED <<row, runs, open, published>>
    BY <1>2 DEF Connect, Scrape, Starting, db
  <2>2. CASE UNCHANGED job /\ \E l \in {"scrape", "list"} : Goto(w, l)
    BY <1>a, <1>e, <2>1, <2>2 DEF Starting, Judging, InRule
  <2>3. CASE Abort(w, "down", "down") \/ Abort(w, "degraded", "degraded")
    BY <1>d, <2>1, <2>3 DEF Status, StatusOf, Judging
  <2> QED BY <1>2, <2>2, <2>3 DEF Connect, Scrape, AbortOrDown
<1>3. CASE ListRules(w)
  <2>1. pc[w] = "list" /\ UNCHANGED <<row, runs, open, published>>
    BY <1>3 DEF ListRules, db
  <2>2. CASE Abort(w, "down", "down") \/ Abort(w, "degraded", "error")
    BY <1>d, <2>1, <2>2 DEF Status, StatusOf, Judging, Starting
  <2>3. CASE Goto(w, "eval") /\ \E T : Become(w, [job[w] EXCEPT !.todo = T])
    <3>1. pc'[w] = "eval" /\ job'[w].drift = job[w].drift
      BY <1>0, <1>a, <1>b, <2>3 DEF Job
    <3> QED BY <2>1, <3>1, <1>e DEF Starting, Judging, InRule
  <2> QED BY <1>3, <2>2, <2>3 DEF ListRules, AbortOrDown
<1>4. CASE Evaluate(w)
  <2>1. pc[w] = "eval" /\ pc'[w] = "prev" /\ UNCHANGED <<row, runs, open, published>>
    BY <1>4, <1>a DEF Evaluate, db
  <2>2. PICK r, seen : job'[w] = [job[w] EXCEPT !.todo = @ \ {r}, !.rule = r, !.seen = seen,
                                                !.drift = @ \/ seen = "drift"]
    BY <1>4, <1>b DEF Evaluate
  <2>3. job'[w].seen = seen /\ job'[w].drift = (job[w].drift \/ seen = "drift")
    BY <1>0, <2>2 DEF Job
  <2> QED BY <2>1, <2>3, <1>e DEF Starting, Judging, InRule
<1>5. CASE ReadPrevious(w)
  <2>1. pc[w] = "prev" /\ pc'[w] = "upsert" /\ UNCHANGED <<row, runs, open, published>>
    BY <1>5, <1>a DEF ReadPrevious, db
  <2>2. job'[w].seen = job[w].seen /\ job'[w].drift = job[w].drift
    BY <1>0, <1>5, <1>b DEF ReadPrevious, Job
  <2>3. job[w].seen = "drift" => job[w].drift
    BY <2>1 DEF Working, Alerting, InRule
  <2> QED BY <2>1, <2>2, <2>3, <1>e DEF Starting, Judging, InRule
<1>6. CASE Upsert(w) \/ RecordIncident(w)
  <2>1. /\ pc[w] \in {"upsert", "incident"} /\ UNCHANGED <<row, runs, open, published, job>>
        /\ pc'[w] \in {"incident", "alert", "eval"}
        /\ pc'[w] = "alert" => job[w].seen = "drift"
    BY <1>6, <1>a DEF Upsert, RecordIncident, NewDrift
  <2>2. job[w].seen = "drift" => job[w].drift
    BY <2>1 DEF Working, Alerting, InRule
  <2> QED BY <2>1, <2>2, <1>e DEF Starting, Judging, InRule
<1>7. CASE RaiseAlert(w)
  <2>1. /\ pc[w] = "alert" /\ pc'[w] = "eval" /\ UNCHANGED <<row, runs, published, job>>
    BY <1>7, <1>a DEF RaiseAlert
  <2>2. job[w].drift
    BY <2>1 DEF Working, Alerting, InRule
  <2>3. Alerting(w)'
    BY <2>1, <2>2 DEF Alerting, Starting, Judging, InRule
  <2>4. Recording(w)'
    BY <2>1 DEF Working, Recording, Matching, Sustained, Starting, Judging, InRule
  <2> QED BY <1>c, <1>f, <2>1, <2>3, <2>4 DEF Working
<1>8. CASE Judge(w)
  <2>1. pc[w] = "eval" /\ UNCHANGED <<row, runs, open, published>>
    BY <1>8 DEF Judge, db
  <2>2. CASE Abort(w, "down", "down")
    BY <1>d, <2>1, <2>2 DEF Status, StatusOf, Judging
  <2>3. CASE /\ Become(w, [job[w] EXCEPT !.status = "degraded", !.result = "drift"])
             /\ Goto(w, "run")
    <3>1. pc'[w] = "run" /\ job'[w].status = "degraded" /\ job'[w].result = "drift"
      BY <1>0, <1>a, <1>b, <2>3 DEF Job
    <3>2. row[h] # "absent" => Sustained(h)
      BY <2>1 DEF Working, Recording, Judging
    <3>3. Alerting(w)'
      BY <3>1 DEF Alerting, Starting, Judging, InRule
    <3>4. Recording(w)'
      BY <1>0, <2>1, <3>1, <3>2 DEF Recording, Sustained, Starting, Judging, InRule, StatusOf
    <3> QED BY <1>c, <1>f, <2>1, <3>1, <3>3, <3>4 DEF Working
  <2>4. CASE /\ Become(w, [job[w] EXCEPT !.status = "healthy", !.result = "ok"])
             /\ Goto(w, "ack")
    <3>1. pc'[w] = "ack" /\ job'[w].status = "healthy" /\ job'[w].result = "ok"
      BY <1>0, <1>a, <1>b, <2>4 DEF Job
    <3> QED BY <2>1, <3>1, <1>e DEF Starting, Judging, InRule, StatusOf
  <2> QED BY <1>8, <2>2, <2>3, <2>4 DEF Judge
<1>9. CASE Expire(w)
  <2>1. job'[w] = [job[w] EXCEPT !.expired = TRUE]
        /\ UNCHANGED <<row, runs, open, published, pc>>
    BY <1>9, <1>b DEF Expire, db
  <2>2. /\ job'[w].status = job[w].status /\ job'[w].result = job[w].result
        /\ job'[w].drift = job[w].drift /\ job'[w].seen = job[w].seen
    BY <1>0, <2>1 DEF Job
  <2>3. Working(w)'
    BY <1>0, <1>f, <2>1, <2>2
       DEF Working, Alerting, Recording, Calm, NoAlerts, Newest, Matching, Sustained
  <2> QED BY <1>9, <1>c, <2>1, <2>3 DEF Expire, Active
<1>10. CASE AcknowledgeHost(w)
  <2>1. /\ pc[w] = "ack" /\ pc'[w] = "run" /\ UNCHANGED <<row, runs, published, job>>
        /\ NoAlerts(h)'
    BY <1>10, <1>a DEF AcknowledgeHost, NoAlerts, RulesOf
  <2>2. Alerting(w)'
    BY <2>1 DEF Alerting, Starting, Judging, InRule
  <2>3. Recording(w)'
    BY <2>1 DEF Working, Recording, Sustained, Starting, Judging, InRule
  <2> QED BY <1>c, <1>f, <2>1, <2>2, <2>3 DEF Working
<1>11. CASE RecordRun(w, "run", "sample") \/ RecordRun(w, "failRun", "rollup")
  <2>1. /\ \/ pc[w] = "run" /\ pc'[w] = "sample"
           \/ pc[w] = "failRun" /\ pc'[w] = "rollup"
        /\ UNCHANGED <<row, open, job>>
        /\ runs' = IF row[h] = "absent" THEN runs
                   ELSE [runs EXCEPT ![h] = Recorded(@, job[w].result)]
    BY <1>11, <1>a DEF RecordRun
  <2>2. Unkept' /\ (row[h] # "absent" => Newest(h, job[w].result)')
    <3>1. /\ Keep = 0 => Recorded(runs[h], job[w].result) = runs[h]
          /\ Keep # 0 => Recorded(runs[h], job[w].result)[1] = job[w].result
      BY <1>0, RecordedFirst
    <3>2. row[h] # "absent" => runs'[h] = Recorded(runs[h], job[w].result)
      BY <1>0, <2>1 DEF TypeOK
    <3>3. CASE Keep = 0
      BY <1>0, <2>1, <3>1, <3>2, <3>3 DEF Unkept, Newest, TypeOK
    <3>4. CASE Keep # 0
      BY <1>0, <2>1, <3>1, <3>2, <3>4 DEF Unkept, Newest
    <3> QED BY <3>3, <3>4
  <2>3. Alerting(w)'
    BY <2>1 DEF Alerting, Starting, Judging, InRule
  <2>4. Recording(w)'
    BY <2>1, <2>2 DEF Working, Recording, Starting, Judging, InRule
  <2> QED BY <1>f, <2>1, <2>2, <2>3, <2>4 DEF Working
<1>12. CASE Sample(w)
  <2>1. /\ pc[w] = "sample" /\ pc'[w] = "host"
        /\ UNCHANGED <<row, runs, open, published, job>>
    BY <1>12, <1>a DEF Sample, db
  <2> QED
    BY <1>c, <1>f, <2>1 DEF Working, Alerting, Recording, Newest, Starting, Judging, InRule
<1>13. CASE WriteHost(w, "host", "rollup")
  <2>1. /\ pc[w] = "host" /\ pc'[w] = "rollup" /\ UNCHANGED <<runs, open, published, job>>
        /\ row'[h] = IF row[h] = "absent" THEN "absent" ELSE job[w].status
    BY <1>0, <1>13, <1>a DEF WriteHost, TypeOK
  <2>2. Alerting(w)'
    BY <2>1 DEF Alerting, Starting, Judging, InRule
  <2>3. Recording(w)'
    BY <2>1 DEF Working, Recording, Newest, Starting, Judging, InRule
  <2> QED BY <1>c, <1>f, <2>1, <2>2, <2>3 DEF Working
<1>14. CASE WriteHost(w, "failHost", "failRun")
  <2>1. /\ pc[w] = "failHost" /\ pc'[w] = "failRun" /\ UNCHANGED <<runs, open, published, job>>
        /\ row'[h] = IF row[h] = "absent" THEN "absent" ELSE job[w].status
    BY <1>0, <1>14, <1>a DEF WriteHost, TypeOK
  <2>2. Alerting(w)'
    BY <2>1 DEF Alerting, Starting, Judging, InRule
  <2>3. Recording(w)'
    BY <2>1 DEF Working, Recording, Sustained, Starting, Judging, InRule
  <2> QED BY <1>c, <1>f, <2>1, <2>2, <2>3 DEF Working
<1>15. CASE Finish(w)
  <2>1. /\ pc[w] = "rollup" /\ pc'[w] = "idle" /\ UNCHANGED <<row, runs, open>>
        /\ h \in Targets /\ row[h] # "absent" =>
             published'[h] = HostClass(job[w].status, runs[h])
    BY <1>0, <1>15, <1>a DEF Finish, Return
  <2>2. Calm(h)'
    BY <2>1 DEF Working, Settled, Calm, NoAlerts
  <2>3. ASSUME row[h] # "absent"
        PROVE  /\ job[w].status = StatusOf(job[w].result) /\ Newest(h, job[w].result)
               /\ row[h] = job[w].status
    BY <2>1, <2>3 DEF Working, Recording, Starting, Judging, InRule
  <2>4. row[h] # "absent" => Matching(h)'
    BY <2>1, <2>3 DEF Matching, Newest
  <2>5. row[h] # "absent" => Sustained(h)'
    <3> SUFFICES ASSUME row[h] # "absent", h \in Targets, Len(runs[h]) >= 2
                 PROVE  published'[h] = "outage" <=>
                            runs[h][1] = "down" /\ runs[h][2] = "down"
      BY <2>1 DEF Sustained
    <3>1. runs[h][1] = job[w].result
      BY <1>0, <2>3 DEF Newest
    <3>2. job[w].status = "down" <=> job[w].result = "down"
      BY <2>3 DEF StatusOf
    <3>3. job[w].status \in {"down", "degraded", "healthy"}
      BY <2>3 DEF StatusOf
    <3> QED BY <2>1, <3>1, <3>2, <3>3 DEF HostClass
  <2> QED BY <1>c, <2>1, <2>2, <2>4, <2>5 DEF Resting
<1> QED BY <1>1, <1>2, <1>3, <1>4, <1>5, <1>6, <1>7, <1>8, <1>9, <1>10, <1>11, <1>12, <1>13,
           <1>14, <1>15 DEF Proceed, RecordVerdict

\* Every step of Next keeps the verdicts.
LEMMA VerdictStep ==
    TypeOK /\ Shape /\ Guarded /\ Verdicts /\ [Next]_vars => Verdicts'
<1> SUFFICES ASSUME TypeOK, Shape, Guarded, Verdicts, [Next]_vars PROVE Verdicts'
  OBVIOUS
<1>0. \A w \in Workers : job[w].host \in Hosts
  BY DEF TypeOK, Job
<1>1. ASSUME UNCHANGED <<inFlight, pc, job>>, \A g \in Hosts : Kept(g) \/ Wiped(g)
      PROVE  Verdicts'
  <2>1. Unkept'
    BY <1>1 DEF Verdicts, Unkept, Kept, Wiped
  <2>2. \A g \in Hosts \ inFlight' : Resting(g)'
    BY <1>1, RestKept DEF Verdicts
  <2>3. \A v \in Workers : Active(v)' => Working(v)'
    BY <1>0, <1>1, WorkKept DEF Verdicts, Active
  <2> QED BY <2>1, <2>2, <2>3 DEF Verdicts
<1>2. ASSUME UNCHANGED <<row, open, runs, published>> PROVE \A g \in Hosts : Kept(g)
  BY <1>2 DEF Kept, NoAlerts
<1>3. ASSUME NEW w \in Workers, NEW h \in Hosts, Begin(w, h) PROVE Verdicts'
  <2>1. /\ UNCHANGED <<row, open, runs, published>> /\ inFlight' = inFlight \cup {h}
        /\ h \notin inFlight
    BY <1>3 DEF Begin, db
  <2>2. /\ pc'[w] = "load" /\ job'[w] = NewJob(h)
        /\ \A v \in Workers \ {w} : pc'[v] = pc[v] /\ job'[v] = job[v]
    BY <1>3 DEF Begin, Become, Goto, TypeOK
  <2>3. job'[w].host = h /\ ~job'[w].drift
    BY <2>2 DEF NewJob
  <2>4. Resting(h)
    BY <2>1 DEF Verdicts
  <2>5. Working(w)'
    <3>1. Resting(h)'
      BY <1>2, <2>1, <2>4, RestKept
    <3>2. Settled(w)' /\ Alerting(w)'
      BY <2>2, <2>3, <3>1 DEF Settled, Alerting, Resting, Starting, Judging, InRule
    <3>3. Recording(w)'
      BY <2>2, <2>3, <3>1 DEF Recording, Resting, Starting, Judging, InRule
    <3> QED BY <3>2, <3>3 DEF Working
  <2>6. \A v \in Workers \ {w} : Active(v)' => Working(v)'
    BY <1>0, <1>2, <2>1, <2>2, WorkKept DEF Verdicts, Active
  <2>7. \A g \in Hosts \ inFlight' : Resting(g)'
    BY <1>2, <2>1, RestKept DEF Verdicts
  <2>8. Unkept'
    BY <2>1 DEF Verdicts, Unkept
  <2> QED BY <2>5, <2>6, <2>7, <2>8 DEF Verdicts
<1>4. ASSUME NEW w \in Workers, Proceed(w) \/ Expire(w) PROVE Verdicts'
  <2>0. PICK h \in Hosts : job[w].host = h
    BY <1>0
  <2>1. /\ Active(w) /\ \A v \in Workers \ {w} : pc'[v] = pc[v] /\ job'[v] = job[v]
        /\ \/ inFlight' = inFlight
           \/ inFlight' = inFlight \ {h} /\ pc'[w] = "idle"
    BY <1>4, <2>0, Moves
  <2>2. Working(w) /\ h \in inFlight
    BY <2>0, <2>1 DEF Verdicts, Guarded
  <2>3. /\ Unkept'
        /\ pc'[w] # "idle" => Working(w)'
        /\ pc'[w] = "idle" => Resting(h)'
    BY <1>4, <2>0, <2>2, OwnStep DEF Verdicts
  <2>4. \A g \in Hosts \ {h} : Kept(g)
    BY <1>4, <2>0, Footprint
  <2>5. \A v \in Workers \ {w} : Active(v) => job[v].host # h
    BY <2>0, <2>1 DEF Guarded, AtMostOneInspection
  <2>6. \A v \in Workers \ {w} : Active(v)' => Working(v)'
    BY <1>0, <2>1, <2>4, <2>5, WorkKept DEF Verdicts, Active
  <2>7. ASSUME NEW g \in Hosts, g \notin inFlight' PROVE Resting(g)'
    <3>1. CASE g = h
      BY <2>1, <2>2, <2>3, <2>7, <3>1
    <3>2. CASE g # h
      BY <2>1, <2>4, <2>7, <3>2, RestKept DEF Verdicts
    <3> QED BY <3>1, <3>2
  <2> QED BY <2>3, <2>6, <2>7 DEF Verdicts, Active
<1>5. ASSUME Administer \/ \E r \in Rules : WorldChange(r) PROVE Verdicts'
  BY <1>1, <1>5, AdminFootprint
<1> QED BY <1>1, <1>2, <1>3, <1>4, <1>5 DEF Next, Inspect, vars, db

\* At first no host has a history, and none is healthy.
LEMMA VerdictInit == Init => Verdicts
<1> SUFFICES ASSUME Init PROVE Verdicts
  OBVIOUS
<1>1. \A h \in Hosts : runs[h] = <<>> /\ row[h] = "unknown"
  BY DEF Init
<1>2. Unkept /\ \A h \in Hosts : Resting(h)
  BY <1>1 DEF Unkept, Resting, Calm, Matching, Sustained
<1> QED BY <1>2 DEF Verdicts, Init, Active

\* The verdicts hold along every behaviour.
LEMMA VerdictsHold == Spec => []Verdicts
<1>1. Spec => []Inductive
  BY InductiveInit, InductiveStep, PTL DEF Spec
<1>2. Inductive => TypeOK /\ Shape /\ Guarded
  BY DEF Inductive
<1> QED BY <1>1, <1>2, VerdictInit, VerdictStep, PTL DEF Spec

\* A host that rests with the status "healthy" has no open alert: the inspection that
\* writes it has acknowledged them, and one that raises an alert takes it away.
THEOREM HealthyIsQuiet == Spec => []HealthyHasNoOpenAlert
<1>1. Verdicts => HealthyHasNoOpenAlert
  BY DEF Verdicts, Resting, Calm, NoAlerts, HealthyHasNoOpenAlert
<1> QED BY <1>1, VerdictsHold, PTL

\* Between inspections the hosts row tells what the newest inspection_runs row tells,
\* whichever of the two was written first and whatever the pruning removed.
THEOREM VerdictIsRecorded == Spec => []VerdictMatchesRun
<1>1. Verdicts => VerdictMatchesRun
  BY DEF Verdicts, Resting, Matching, VerdictMatchesRun
<1> QED BY <1>1, VerdictsHold, PTL

\* With two runs on record, updateStatusPageRollups counts an outage of a published
\* host exactly when the latest two were both down.
THEOREM OutageSustained == Spec => []OutageIsSustained
<1>1. Verdicts => OutageIsSustained
  BY DEF Verdicts, Resting, Sustained, OutageIsSustained
<1> QED BY <1>1, VerdictsHold, PTL

-----------------------------------------------------------------------------
(* Faults.                                                                  *)

\* What survives a crash, a restore and a failed read.
Surviving == TypeOK /\ Shape /\ Guarded /\ \A w \in Workers : Settled(w)

\* Every step of FaultNext keeps what survives.
LEMMA FaultStep == Surviving /\ [FaultNext]_vars => Surviving'
<1> SUFFICES ASSUME Surviving, [FaultNext]_vars PROVE Surviving'
  OBVIOUS
<1>0. TypeOK /\ Shape /\ Guarded /\ \A w \in Workers : job[w].host \in Hosts
  BY DEF Surviving, TypeOK, Job
<1>a. ASSUME NEW v \in Workers, pc'[v] = pc[v], job'[v] = job[v],
             Kept(job[v].host) \/ NoAlerts(job[v].host)'
      PROVE  Settled(v)'
  BY <1>a DEF Surviving, Settled, Kept, Calm
<1>1. ASSUME [Next]_vars PROVE Surviving'
  <2>1. TypeOK' /\ Shape' /\ Guarded'
    BY <1>0, <1>1, TypeStep, GuardStep
  <2>2. ASSUME UNCHANGED <<row, open, runs, published, pc, job>>
        PROVE  \A v \in Workers : Settled(v)'
    BY <2>2 DEF Surviving, Settled, Calm, NoAlerts
  <2>3. ASSUME NEW w \in Workers, NEW h \in Hosts, Begin(w, h)
        PROVE  \A v \in Workers : Settled(v)'
    <3>1. /\ UNCHANGED <<row, open, runs, published>> /\ pc'[w] = "load"
          /\ \A v \in Workers \ {w} : pc'[v] = pc[v] /\ job'[v] = job[v]
      BY <1>0, <2>3 DEF Begin, Become, Goto, TypeOK, db
    <3>2. Settled(w)'
      BY <3>1 DEF Settled
    <3> QED BY <1>a, <3>1, <3>2 DEF Kept, NoAlerts
  <2>4. ASSUME NEW w \in Workers, Proceed(w) \/ Expire(w)
        PROVE  \A v \in Workers : Settled(v)'
    <3>1. Active(w) /\ \A v \in Workers \ {w} : pc'[v] = pc[v] /\ job'[v] = job[v]
      BY <1>0, <2>4, Moves
    <3>2. Settled(w)'
      BY <1>0, <2>4, OwnVerdict DEF Surviving
    <3>3. ASSUME NEW v \in Workers \ {w}, Active(v) PROVE Settled(v)'
      <4>1. job[v].host # job[w].host
        BY <1>0, <3>1, <3>3 DEF Guarded, AtMostOneInspection
      <4>2. Kept(job[v].host)
        BY <1>0, <2>4, <4>1, Footprint
      <4> QED BY <1>a, <3>1, <4>2
    <3>4. ASSUME NEW v \in Workers \ {w}, ~Active(v) PROVE Settled(v)'
      BY <3>1, <3>4 DEF Settled, Active
    <3> QED BY <3>2, <3>3, <3>4
  <2>5. ASSUME Administer \/ \E r \in Rules : WorldChange(r)
        PROVE  \A v \in Workers : Settled(v)'
    BY <1>0, <1>a, <2>5, AdminFootprint DEF Wiped
  <2>6. \A v \in Workers : Settled(v)'
    BY <1>1, <2>2, <2>3, <2>4, <2>5 DEF Next, Inspect, vars, db
  <2> QED BY <2>1, <2>6 DEF Surviving
<1>2. ASSUME Crash PROVE Surviving'
  <2>1. /\ pc' = [w \in Workers |-> "idle"] /\ job' = [w \in Workers |-> NewJob(job[w].host)]
        /\ inFlight' = {} /\ UNCHANGED <<world, row, rule, item, log, open, runs, published>>
    BY <1>2 DEF Crash, db
  <2>2. \A w \in Workers : NewJob(job[w].host) \in Job /\ NewJob(job[w].host).todo = {}
    BY <1>0, NewJobType DEF NewJob
  <2>3. TypeOK'
    <3>1. job' \in [Workers -> Job] /\ pc' \in [Workers -> Step]
      BY <2>1, <2>2 DEF Step
    <3> QED BY <1>0, <2>1, <3>1 DEF TypeOK
  <2>4. Shape'
    BY <2>1, <2>2 DEF Shape, InRule
  <2>5. Guarded'
    BY <2>1 DEF Guarded, AtMostOneInspection, Active
  <2>6. \A w \in Workers : Settled(w)'
    BY <2>1 DEF Settled
  <2> QED BY <2>3, <2>4, <2>5, <2>6 DEF Surviving
<1>3. ASSUME Restore PROVE Surviving'
  <2>1. UNCHANGED <<inFlight, pc, job>> /\ \A g \in Hosts : NoAlerts(g)'
    BY <1>3 DEF Restore, NoAlerts, RulesOf
  <2>2. TypeOK'
    BY <1>0, <1>3 DEF Restore, TypeOK, Class
  <2>3. Shape' /\ Guarded'
    BY <1>0, <2>1 DEF Shape, RulesOf, Guarded, AtMostOneInspection, Active
  <2>4. \A v \in Workers : Settled(v)'
    BY <1>0, <1>a, <2>1
  <2> QED BY <2>2, <2>3, <2>4 DEF Surviving
<1>4. ASSUME NEW w \in Workers, BlindRead(w) PROVE Surviving'
  <2> DEFINE j == [job[w] EXCEPT !.prev = "none"]
  <2>1. /\ pc[w] = "prev" /\ Become(w, j) /\ Goto(w, "upsert")
        /\ UNCHANGED <<world, row, rule, item, log, open, runs, published, inFlight>>
    BY <1>4 DEF BlindRead, db
  <2>2. job[w] \in Job /\ job[w].todo \subseteq RulesOf(job[w].host)
        /\ job[w].rule \in RulesOf(job[w].host)
    BY <1>0, <2>1 DEF TypeOK, Shape, InRule
  <2>3. /\ j \in Job /\ j.todo = job[w].todo /\ j.host = job[w].host
        /\ j.rule = job[w].rule
    BY <2>2 DEF Job
  <2>4. /\ pc'[w] = "upsert" /\ job'[w] = j
        /\ \A v \in Workers \ {w} : pc'[v] = pc[v] /\ job'[v] = job[v]
    BY <1>0, <2>1 DEF Become, Goto, TypeOK
  <2> HIDE DEF j
  <2>5. job' \in [Workers -> Job] /\ pc' \in [Workers -> Step] /\ Shape'
    BY <1>0, <2>1, <2>2, <2>3, Advance DEF Step
  <2>6. TypeOK'
    BY <1>0, <2>1, <2>5 DEF TypeOK
  <2>7. Guarded'
    BY <1>0, <2>1, <2>3, <2>4 DEF Guarded, AtMostOneInspection, Active
  <2>8. \A v \in Workers : Settled(v)'
    <3>1. Settled(w)'
      BY <2>4 DEF Settled
    <3> QED BY <1>a, <2>1, <2>4, <3>1 DEF Kept, NoAlerts
  <2> QED BY <2>5, <2>6, <2>7, <2>8 DEF Surviving
<1> QED BY <1>1, <1>2, <1>3, <1>4 DEF FaultNext, Fault, vars

\* Whatever a crash, a restore of a snapshot or a failed ListActualItems has left
\* behind, an inspection that reaches its end leaves no open alert under a host row it
\* has written "healthy".
THEOREM AlertsAreRepaired == FaultSpec => []VerdictRepairsAlerts
<1>1. Init => Surviving
  BY TypeInit DEF Init, Surviving, Guarded, AtMostOneInspection, Active, Settled
<1>2. Surviving => VerdictRepairsAlerts
  BY DEF Surviving, Settled, Calm, NoAlerts, VerdictRepairsAlerts
<1> QED BY <1>1, <1>2, FaultStep, PTL DEF FaultSpec

-----------------------------------------------------------------------------
(* Inspections end, as far as that can be said without fairness.            *)

\* The in-flight entry of a host is that of a goroutine that inspects it.
Owned == \A h \in inFlight : \E w \in Workers : Active(w) /\ job[w].host = h

\* Guards of the steps of Proceed: wherever an inspection is, one of them applies.
CanProceed(w) ==
    \/ pc[w] \in Step \ {"idle", "eval"}
    \/ pc[w] = "eval" /\ job[w].todo = {}
    \/ pc[w] = "eval" /\ \E r \in job[w].todo : \A q \in job[w].todo : r <= q

\* Every host in the map has a goroutine that can take a step.
EntriesMove ==
    \A h \in inFlight : \E w \in Workers : Active(w) /\ job[w].host = h /\ CanProceed(w)

\* The steps from l to the end, but for those that each rule takes.
Rank(l) ==
    CASE l = "load" -> 10
      [] l \in {"connect", "upsert"} -> 9
      [] l \in {"scrape", "incident"} -> 8
      [] l \in {"list", "alert"} -> 7
      [] l = "prev" -> 10
      [] l = "eval" -> 6
      [] l = "ack" -> 5
      [] l = "run" -> 4
      [] l \in {"sample", "failHost"} -> 3
      [] l \in {"host", "failRun"} -> 2
      [] l = "rollup" -> 1
      [] OTHER -> 0

\* The rules that are still to be evaluated, or may be listed.
Pending(w) ==
    IF pc[w] \in {"load", "connect", "scrape", "list"} THEN RulesOf(job[w].host)
    ELSE IF pc[w] \in InRule \cup {"eval"} THEN job[w].todo
    ELSE {}

\* A bound on the steps an inspection has left: five for each rule.
Left(w) == Rank(pc[w]) + 5 * Cardinality(Pending(w))

LEMMA OwnedStep == TypeOK /\ Owned /\ [Next]_vars => Owned'
<1> SUFFICES ASSUME TypeOK, Owned, [Next]_vars PROVE Owned'
  OBVIOUS
<1>1. ASSUME UNCHANGED <<inFlight, pc, job>> PROVE Owned'
  BY <1>1 DEF Owned, Active
<1>2. ASSUME NEW w \in Workers, NEW h \in Hosts, Begin(w, h) PROVE Owned'
  <2>1. /\ job'[w] = NewJob(h) /\ pc'[w] = "load" /\ pc[w] = "idle"
        /\ \A v \in Workers \ {w} : job'[v] = job[v] /\ pc'[v] = pc[v]
        /\ inFlight' = inFlight \cup {h}
    BY <1>2 DEF Begin, Become, Goto, TypeOK
  <2>2. job'[w].host = h
    BY <2>1 DEF NewJob
  <2> QED BY <2>1, <2>2 DEF Owned, Active
<1>3. ASSUME NEW w \in Workers, Proceed(w) \/ Expire(w) PROVE Owned'
  <2>1. /\ Active(w)
        /\ \A v \in Workers \ {w} : pc'[v] = pc[v] /\ job'[v] = job[v]
        /\ job'[w].host = job[w].host
        /\ \/ inFlight' = inFlight /\ pc'[w] # "idle"
           \/ inFlight' = inFlight \ {job[w].host} /\ pc'[w] = "idle"
    BY <1>3, Moves
  <2> SUFFICES ASSUME NEW h \in inFlight' PROVE \E v \in Workers : Active(v)' /\ job'[v].host = h
    BY DEF Owned
  <2>2. PICK v \in Workers : Active(v) /\ job[v].host = h
    BY <2>1 DEF Owned
  <2>3. CASE v # w
    BY <2>1, <2>2, <2>3 DEF Active
  <2>4. CASE v = w
    BY <2>1, <2>2, <2>4 DEF Active
  <2> QED BY <2>3, <2>4
<1>4. ASSUME Administer \/ \E r \in Rules : WorldChange(r) PROVE Owned'
  BY <1>1, <1>4 DEF Administer, SaveRule, DeleteRule, AcknowledgeOne, AcknowledgeAll,
                    DeleteHost, WorldChange
<1> QED BY <1>1, <1>2, <1>3, <1>4 DEF Next, Inspect, vars

\* Rules have a first one: numbers are well-founded.
LEMMA FirstRule ==
    ASSUME NEW S \in SUBSET Nat, S # {}
    PROVE  \E r \in S : \A q \in S : r <= q
<1> DEFINE Below == OpToRel(<, Nat)
<1>1. IsWellFoundedOn(Below, Nat)
  BY NatLessThanWellFounded
<1>2. PICK x \in S : \A y \in S : <<y, x>> \notin Below
  <2> HIDE DEF Below
  <2> QED BY <1>1, WFMin
<1>3. \A y \in S : ~(y < x)
  BY <1>2 DEF OpToRel
<1> QED BY <1>3

\* An in-flight entry never outlives its inspection, and no inspection is at a point where
\* it has no next step: whatever InspectHostWithTimeout returns early from, whatever
\* administrators delete meanwhile, each host in Inspector.inFlight has a goroutine that can go on.
THEOREM EntriesHaveMovers == Spec => []EntriesMove
<1>1. Init => Owned
  BY DEF Init, Owned
<1>2. TypeOK /\ Shape /\ Owned => EntriesMove
  <2> SUFFICES ASSUME TypeOK, Owned, Shape, NEW w \in Workers, Active(w) PROVE CanProceed(w)
    BY DEF Owned, EntriesMove
  <2>1. pc[w] \in Step /\ pc[w] # "idle" /\ job[w].todo \subseteq Nat
    BY ConstantsAssumption DEF TypeOK, Active, Shape, RulesOf
  <2> QED BY <2>1, FirstRule DEF CanProceed
<1> QED BY <1>1, <1>2, TypeInit, TypeStep, OwnedStep, PTL DEF Spec

\* A step of an inspection begins the evaluation of a rule, which is then done with, or
\* goes on in the order of the steps with no more rules than before.
LEMMA Descends ==
    ASSUME TypeOK, Shape, NEW w \in Workers, Proceed(w)
    PROVE  \/ /\ pc[w] = "eval" /\ pc'[w] = "prev"
              /\ \E r \in job[w].todo : job'[w].todo = job[w].todo \ {r}
           \/ Rank(pc'[w]) < Rank(pc[w]) /\ Pending(w)' \subseteq Pending(w)
<1> DEFINE Result == \/ /\ pc[w] = "eval" /\ pc'[w] = "prev"
                        /\ \E r \in job[w].todo : job'[w].todo = job[w].todo \ {r}
                     \/ Rank(pc'[w]) < Rank(pc[w]) /\ Pending(w)' \subseteq Pending(w)
<1>0. /\ job[w] \in Job /\ job \in [Workers -> Job] /\ pc \in [Workers -> Step]
      /\ job[w].todo \subseteq RulesOf(job[w].host)
  BY DEF TypeOK, Shape
<1>1. ASSUME NEW j, Become(w, j) PROVE job'[w] = j
  BY <1>0, <1>1 DEF Become
<1>2. ASSUME NEW l, Goto(w, l) PROVE pc'[w] = l
  BY <1>0, <1>2 DEF Goto
<1>3. ASSUME NEW l, pc'[w] = l, Rank(l) < Rank(pc[w]), job'[w].todo = job[w].todo,
             job'[w].host = job[w].host, l \notin {"load", "connect", "scrape", "list"},
             l \in InRule \cup {"eval"} => pc[w] \in InRule \cup {"eval"}
      PROVE  Result
  BY <1>0, <1>3 DEF Pending, InRule
<1>4. ASSUME NEW l, pc'[w] = l, Rank(l) < Rank(pc[w]), job'[w].host = job[w].host,
             pc[w] \in {"load", "connect", "scrape", "list"},
             job'[w].todo \subseteq RulesOf(job[w].host)
      PROVE  Result
  <2>1. RulesOf(job[w].host)' = RulesOf(job[w].host)
    BY <1>4 DEF RulesOf
  <2> QED BY <1>4, <2>1 DEF Pending
<1>5. ASSUME Return(w), Rank(pc[w]) > 0 PROVE Result
  <2>1. pc'[w] = "idle"
    BY <1>2, <1>5 DEF Return
  <2> QED BY <1>5, <2>1 DEF Pending, Rank, InRule
<1>6. ASSUME NEW s, NEW x, Abort(w, s, x), Rank(pc[w]) > 3 PROVE Result
  <2>1. pc'[w] = "failHost"
    BY <1>2, <1>6 DEF Abort
  <2> QED BY <1>6, <2>1 DEF Pending, Rank, InRule
<1>7. CASE Load(w)
  <2>1. ASSUME Become(w, [job[w] EXCEPT !.status = row[job[w].host]]), Goto(w, "connect")
        PROVE  Result
    <3>1. job'[w].todo = job[w].todo /\ job'[w].host = job[w].host
      BY <1>0, <1>1, <2>1 DEF Job
    <3> QED BY <1>0, <1>2, <1>4, <1>7, <2>1, <3>1 DEF Load, Rank
  <2> QED BY <1>5, <1>7, <2>1 DEF Load, Rank
<1>8. CASE Connect(w) \/ Scrape(w)
  <2>1. CASE UNCHANGED job /\ (Goto(w, "scrape") \/ Goto(w, "list"))
    BY <1>0, <1>2, <1>4, <1>8, <2>1 DEF Connect, Scrape, Rank, AbortOrDown, Abort
  <2> QED BY <1>6, <1>8, <2>1 DEF Connect, Scrape, Rank, AbortOrDown
<1>9. CASE ListRules(w)
  <2>1. ASSUME NEW T \in SUBSET RulesOf(job[w].host), Become(w, [job[w] EXCEPT !.todo = T]),
               Goto(w, "eval")
        PROVE  Result
    <3>1. job'[w].todo = T /\ job'[w].host = job[w].host
      BY <1>0, <1>1, <2>1 DEF Job
    <3> QED BY <1>2, <1>4, <1>9, <2>1, <3>1 DEF ListRules, Rank
  <2> QED BY <1>6, <1>9, <2>1 DEF ListRules, Rank, AbortOrDown
<1>10. CASE Evaluate(w)
  <2>1. PICK r \in job[w].todo : \E seen \in {world[r], Silence(r)} :
                 Become(w, [job[w] EXCEPT !.todo = @ \ {r}, !.rule = r, !.seen = seen,
                                          !.drift = @ \/ seen = "drift"])
    BY <1>10 DEF Evaluate
  <2>2. job'[w].todo = job[w].todo \ {r}
    BY <1>0, <1>1, <2>1 DEF Job
  <2> QED BY <1>2, <1>10, <2>2 DEF Evaluate
<1>11. CASE ReadPrevious(w)
  <2>1. job'[w].todo = job[w].todo /\ job'[w].host = job[w].host
    BY <1>0, <1>1, <1>11 DEF ReadPrevious, Job
  <2> QED BY <1>2, <1>3, <1>11, <2>1 DEF ReadPrevious, Rank, InRule
<1>12. CASE Upsert(w) \/ RecordIncident(w) \/ RaiseAlert(w)
  <2>1. UNCHANGED job
    BY <1>12 DEF Upsert, RecordIncident, RaiseAlert
  <2>2. \/ pc[w] = "upsert" /\ pc'[w] = "incident"
        \/ pc[w] = "incident" /\ pc'[w] \in {"alert", "eval"}
        \/ pc[w] = "alert" /\ pc'[w] = "eval"
    BY <1>2, <1>12 DEF Upsert, RecordIncident, RaiseAlert
  <2> QED BY <1>3, <2>1, <2>2 DEF Rank, InRule
<1>13. CASE Judge(w)
  <2>1. ASSUME NEW l \in {"run", "ack"}, Goto(w, l) PROVE Result
    <3>1. pc'[w] = l /\ pc[w] = "eval"
      BY <1>2, <1>13, <2>1 DEF Judge
    <3> QED BY <3>1 DEF Pending, Rank, InRule
  <2> QED BY <1>6, <1>13, <2>1 DEF Judge, Rank
<1>14. CASE AcknowledgeHost(w) \/ RecordVerdict(w)
  <2>1. \/ pc[w] = "ack" /\ pc'[w] = "run"
        \/ pc[w] = "run" /\ pc'[w] = "sample"
        \/ pc[w] = "sample" /\ pc'[w] = "host"
        \/ pc[w] = "host" /\ pc'[w] = "rollup"
        \/ pc[w] = "failHost" /\ pc'[w] = "failRun"
        \/ pc[w] = "failRun" /\ pc'[w] = "rollup"
    BY <1>2, <1>14 DEF AcknowledgeHost, RecordVerdict, RecordRun, Sample, WriteHost
  <2> QED BY <2>1 DEF Pending, Rank, InRule
<1>15. CASE Finish(w)
  BY <1>5, <1>15 DEF Finish, Rank
<1> QED
  BY <1>7, <1>8, <1>9, <1>10, <1>11, <1>12, <1>13, <1>14, <1>15 DEF Proceed, Result

\* A goroutine that is inspecting has fewer steps left after each of its own, and as many
\* after those of others.
RunsDown ==
    \A w \in Workers : Active(w) =>
        IF pc'[w] = pc[w] THEN Left(w)' = Left(w) ELSE Left(w)' < Left(w)

LEMMA Descent ==
    ASSUME IsFiniteSet(Rules), TypeOK, Shape, NEW w \in Workers, Proceed(w)
    PROVE  pc'[w] # pc[w] /\ Left(w)' < Left(w)
<1>0. /\ pc[w] \in Step /\ job[w].todo \subseteq RulesOf(job[w].host)
      /\ \A l : Rank(l) \in 0..10
  BY DEF TypeOK, Shape, Rank
<1>1. ASSUME NEW S, S \subseteq Rules PROVE IsFiniteSet(S) /\ Cardinality(S) \in Nat
  BY <1>1, FS_Subset, FS_CardinalityType
<1>2. RulesOf(job[w].host) \subseteq Rules
  BY DEF RulesOf
<1>3. Pending(w) \subseteq Rules
  BY <1>0, <1>2 DEF Pending
<1>4. CASE /\ pc[w] = "eval" /\ pc'[w] = "prev"
           /\ \E r \in job[w].todo : job'[w].todo = job[w].todo \ {r}
  <2>1. PICK r \in job[w].todo : job'[w].todo = job[w].todo \ {r}
    BY <1>4
  <2>2. Pending(w) = job[w].todo /\ Pending(w)' = job[w].todo \ {r}
    BY <1>4, <2>1 DEF Pending, InRule
  <2>3. /\ Cardinality(job[w].todo) \in Nat
        /\ Cardinality(job[w].todo \ {r}) = Cardinality(job[w].todo) - 1
    BY <1>1, <1>3, <2>2, FS_RemoveElement
  <2>4. Cardinality(Pending(w))' = Cardinality(Pending(w)) - 1 /\ Cardinality(Pending(w)) \in Nat
    BY <2>2, <2>3
  <2>5. Rank(pc[w]) = 6 /\ Rank(pc'[w]) = 10
    BY <1>4 DEF Rank
  <2> QED BY <1>4, <2>4, <2>5 DEF Left
<1>5. CASE Rank(pc'[w]) < Rank(pc[w]) /\ Pending(w)' \subseteq Pending(w)
  <2>1. /\ Cardinality(Pending(w)) \in Nat
        /\ Cardinality(Pending(w)') \in Nat
        /\ Cardinality(Pending(w)') <= Cardinality(Pending(w))
    BY <1>1, <1>3, <1>5, FS_Subset
  <2> QED BY <1>0, <1>5, <2>1 DEF Left
<1> QED BY <1>4, <1>5, Descends

LEMMA RunsDownStep ==
    ASSUME IsFiniteSet(Rules), TypeOK, Shape, [Next]_vars
    PROVE  RunsDown
<1> SUFFICES ASSUME NEW w \in Workers, Active(w)
             PROVE  IF pc'[w] = pc[w] THEN Left(w)' = Left(w) ELSE Left(w)' < Left(w)
  BY DEF RunsDown
<1>1. ASSUME pc'[w] = pc[w], job'[w].todo = job[w].todo, job'[w].host = job[w].host
      PROVE  Left(w)' = Left(w)
  <2>1. Pending(w)' = Pending(w)
    BY <1>1 DEF Pending, RulesOf
  <2> QED BY <1>1, <2>1 DEF Left
<1>2. CASE UNCHANGED <<pc, job>>
  BY <1>1, <1>2
<1>3. ASSUME NEW v \in Workers, \E h \in Hosts : Begin(v, h)
      PROVE  pc'[w] = pc[w] /\ job'[w] = job[w]
  BY <1>3 DEF Begin, Become, Goto, TypeOK, Active
<1>4. ASSUME NEW v \in Workers \ {w}, Proceed(v) \/ Expire(v)
      PROVE  pc'[w] = pc[w] /\ job'[w] = job[w]
  BY <1>4, Moves
<1>5. CASE Expire(w)
  <2>1. job[w] \in Job /\ job' = [job EXCEPT ![w] = [job[w] EXCEPT !.expired = TRUE]]
        /\ job \in [Workers -> Job] /\ pc' = pc
    BY <1>5 DEF Expire, Become, TypeOK
  <2>2. job'[w].todo = job[w].todo /\ job'[w].host = job[w].host
    BY <2>1 DEF Job
  <2> QED BY <1>1, <2>1, <2>2
<1>6. CASE Administer \/ \E r \in Rules : WorldChange(r)
  BY <1>2, <1>6 DEF Administer, SaveRule, DeleteRule, AcknowledgeOne, AcknowledgeAll,
                    DeleteHost, WorldChange
<1> QED BY <1>1, <1>2, <1>3, <1>4, <1>5, <1>6, Descent DEF Next, Inspect, vars

\* An inspection has at most ten steps and five for each rule of its host: the loop of
\* evaluateDesiredRules, its early continues and the early returns of
\* InspectHostWithTimeout only ever bring it nearer to its end, and nothing that other
\* goroutines or administrators do sets it back.
THEOREM StepsRunOut ==
    ASSUME IsFiniteSet(Rules) PROVE Spec => [][RunsDown]_vars
<1>1. TypeOK /\ Shape /\ [Next]_vars => [RunsDown]_vars
  BY RunsDownStep
<1> QED BY <1>1, TypeInit, TypeStep, PTL DEF Spec
=============================================================================
