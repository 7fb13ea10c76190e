--------------------------- MODULE UpgradeProofs ----------------------------
(***************************************************************************)
(* Proofs about InstanceGuard.tla and Upgrade.tla, for any processes and    *)
(* calls.                                                                   *)
(*                                                                          *)
(* The invariant of the guard says which steps have the lock file open and  *)
(* locked, that two processes never lock the same file, and that every open *)
(* file is the one the path names until somebody removes a file that is     *)
(* open elsewhere.  An update never disturbs the guard, so that all of this *)
(* holds beside it.  The invariant for the executable: a candidate that has *)
(* got as far as a rename is good, and on Windows every file that something *)
(* runs is at one of the two paths, so that what is missing at the one is   *)
(* kept at the other.                                                       *)
(***************************************************************************)
EXTENDS Upgrade, TLAPS

(* The instance guard.                                                      *)

Closed   == {"off", "open", "remove", "leave", "gone"}
Unlocked == Closed \cup {"lock", "busy"}
Opened   == {"truncate", "write", "bind", "serve", "signalled", "restarting", "remove", "leave"}

\* What each step of a process has of the lock file and the database.
Held(p) ==
    /\ pc[p] \in Closed => fd[p] = 0
    /\ IF pc[p] \in Unlocked THEN flock[p] = 0 ELSE flock[p] = fd[p]
    /\ p \in db => pc[p] \in Opened

\* flock keeps a locked file from the others.
Exclusive == \A p, q \in Procs : flock[p] # 0 /\ flock[q] = flock[p] => p = q

\* Whoever has a lock file open has the one the path names.
SameFile == ~unlinked => \A p \in Procs : fd[p] # 0 => fd[p] = path

IInv == TypeOK /\ (\A p \in Procs : Held(p)) /\ Exclusive /\ SameFile

\* The types hold along every step.
LEMMA TypeStep == TypeOK /\ [Next]_vars => TypeOK'
<1> SUFFICES ASSUME TypeOK, [Next]_vars PROVE TypeOK'
  OBVIOUS
<1> USE GuardAssumption DEF TypeOK, Files, Step, files, Goto
<1>1. CASE UNCHANGED vars
  BY <1>1 DEF vars
<1>2. ASSUME NEW p \in Procs, Launch(p) PROVE TypeOK'
  BY <1>2 DEF Launch
<1>3. ASSUME NEW p \in Procs, Run(p) PROVE TypeOK'
  <2>1. CASE OpenFile(p)
    <3>1. meta' \in Seq(Procs \cup {0}) /\ path' \in Files' /\ Files \subseteq Files'
      <4>1. CASE path # 0
        BY <2>1, <4>1 DEF OpenFile
      <4>2. CASE path = 0
        <5>1. meta' = Append(meta, 0) /\ path' = Len(meta')
          BY <2>1, <4>2 DEF OpenFile
        <5>2. meta' \in Seq(Procs \cup {0}) /\ Len(meta') = Len(meta) + 1 /\ Len(meta) \in Nat
          BY <5>1
        <5> QED BY <5>1, <5>2
      <4> QED BY <4>1, <4>2
    <3>2. path' # 0
      BY <3>1
    <3> HIDE DEF Files
    <3> QED BY <2>1, <3>1, <3>2 DEF OpenFile
  <2>2. CASE OpenFails(p)
    BY <2>2 DEF OpenFails
  <2>3. CASE Lock(p)
    BY <2>3 DEF Lock
  <2>4. CASE Retry(p)
    BY <2>4 DEF Retry
  <2>5. CASE GiveUp(p)
    BY <2>5 DEF GiveUp
  <2>6. CASE Truncate(p)
    BY <2>6 DEF Truncate
  <2>7. CASE WriteMeta(p)
    BY <2>7 DEF WriteMeta
  <2>8. CASE OpenDatabase(p)
    BY <2>8 DEF OpenDatabase
  <2>9. CASE Bind(p)
    BY <2>9 DEF Bind
  <2>10. CASE CloseDatabase(p)
    BY <2>10 DEF CloseDatabase
  <2>11. CASE Release(p)
    BY <2>11 DEF Release
  <2>12. CASE Remove(p)
    BY <2>12 DEF Remove
  <2>13. CASE SkipRelease(p)
    BY <2>13 DEF SkipRelease
  <2> QED BY <1>3, <2>1, <2>2, <2>3, <2>4, <2>5, <2>6, <2>7, <2>8, <2>9, <2>10, <2>11,
             <2>12, <2>13 DEF Run, Acquire
<1>4. ASSUME NEW p \in Procs, Die(p) PROVE TypeOK'
  BY <1>4 DEF Die
<1>5. ASSUME NEW p \in Procs, Signal(p) PROVE TypeOK'
  BY <1>5 DEF Signal
<1>6. ASSUME NEW p \in Procs, NEW child \in Procs, Restart(p, child) PROVE TypeOK'
  BY <1>6 DEF Restart
<1> QED BY <1>1, <1>2, <1>3, <1>4, <1>5, <1>6 DEF Next

\* Every step keeps what the steps of a process have, the exclusion and the path.
LEMMA HoldStep == IInv /\ [Next]_vars => (\A p \in Procs : Held(p))' /\ Exclusive' /\ SameFile'
<1> SUFFICES ASSUME IInv, [Next]_vars
             PROVE  (\A p \in Procs : Held(p))' /\ Exclusive' /\ SameFile'
  OBVIOUS
<1> DEFINE Goal == (\A p \in Procs : Held(p))' /\ Exclusive' /\ SameFile'
<1> USE GuardAssumption DEF IInv, TypeOK, Files, Step, files, Goto, Held, Exclusive, SameFile,
                            Closed, Unlocked, Opened
<1>1. CASE UNCHANGED vars
  BY <1>1 DEF vars
<1>2. ASSUME NEW p \in Procs, Launch(p) PROVE Goal
  BY <1>2 DEF Launch
<1>3. ASSUME NEW p \in Procs, Run(p) PROVE Goal
  <2>1. CASE OpenFile(p)
    BY <2>1 DEF OpenFile
  <2>2. CASE OpenFails(p)
    BY <2>2 DEF OpenFails
  <2>3. CASE Lock(p)
    BY <2>3 DEF Lock
  <2>4. CASE Retry(p)
    BY <2>4 DEF Retry
  <2>5. CASE GiveUp(p)
    BY <2>5 DEF GiveUp
  <2>6. CASE Truncate(p)
    BY <2>6 DEF Truncate
  <2>7. CASE WriteMeta(p)
    BY <2>7 DEF WriteMeta
  <2>8. CASE OpenDatabase(p)
    BY <2>8 DEF OpenDatabase
  <2>9. CASE Bind(p)
    BY <2>9 DEF Bind
  <2>10. CASE CloseDatabase(p)
    BY <2>10 DEF CloseDatabase
  <2>11. CASE Release(p)
    BY <2>11 DEF Release
  <2>12. CASE Remove(p)
    BY <2>12 DEF Remove
  <2>13. CASE SkipRelease(p)
    BY <2>13 DEF SkipRelease
  <2> QED BY <1>3, <2>1, <2>2, <2>3, <2>4, <2>5, <2>6, <2>7, <2>8, <2>9, <2>10, <2>11,
             <2>12, <2>13 DEF Run, Acquire
<1>4. ASSUME NEW p \in Procs, Die(p) PROVE Goal
  BY <1>4 DEF Die
<1>5. ASSUME NEW p \in Procs, Signal(p) PROVE Goal
  BY <1>5 DEF Signal
<1>6. ASSUME NEW p \in Procs, NEW child \in Procs, Restart(p, child) PROVE Goal
  BY <1>6 DEF Restart
<1> QED BY <1>1, <1>2, <1>3, <1>4, <1>5, <1>6 DEF Next

\* The invariant holds at first.
LEMMA InitHolds == Init => IInv
<1> SUFFICES ASSUME Init PROVE IInv
  OBVIOUS
<1>1. TypeOK
  <2>1. meta \in Seq(Procs \cup {0})
    BY DEF Init
  <2> QED BY <2>1, GuardAssumption DEF Init, TypeOK, Step
<1> QED BY <1>1 DEF Init, IInv, Held, Exclusive, SameFile, Closed, Unlocked, Opened

\* The inductive invariant.
LEMMA Invariance == Spec => []IInv
<1>1. IInv /\ [Next]_vars => IInv'
  BY TypeStep, HoldStep DEF IInv
<1> QED BY <1>1, InitHolds, PTL DEF Spec

-----------------------------------------------------------------------------

\* Types, for any set of processes.
THEOREM TypeCorrect == Spec => []TypeOK
<1>1. IInv => TypeOK
  BY DEF IInv
<1> QED BY <1>1, Invariance, PTL

\* At most one process holds the lock (AcquireWithTimeout, Close), until a Close removes a
\* file that somebody else has open.
THEOREM SingleHolder == Spec => []OneHolder
<1>1. IInv => OneHolder
  BY DEF IInv, TypeOK, Held, Exclusive, SameFile, Closed, Unlocked, OneHolder, Holds
<1> QED BY <1>1, Invariance, PTL

\* Of the processes that have the database open, at most one is under the guard.
THEOREM SingleGuardedUser == Spec => []OneGuardedUser
<1>1. IInv => OneGuardedUser
  BY DEF IInv, TypeOK, Held, Exclusive, SameFile, Closed, Unlocked, Opened, OneGuardedUser
<1> QED BY <1>1, Invariance, PTL

\* A launch is kept out only by a process that runs and holds the very file, never by what
\* a crash has left behind.
THEOREM StaleIsHarmless == Spec => StaleFileIsHarmless
<1> DEFINE Met == \A p \in Procs : pc[p] = "lock" /\ pc'[p] = "busy" =>
                    \E q \in Procs : q # p /\ fd[q] = fd[p] /\ pc[q] \notin {"off", "gone"}
<1>1. IInv /\ [Next]_vars => [Met]_vars
  <2> SUFFICES ASSUME IInv, Next, NEW p \in Procs, pc[p] = "lock", pc'[p] = "busy"
               PROVE  \E q \in Procs : q # p /\ fd[q] = fd[p] /\ pc[q] \notin {"off", "gone"}
    OBVIOUS
  <2>1. Lock(p)
    <3> USE DEF IInv, TypeOK, Goto
    <3>1. ASSUME NEW r \in Procs, Launch(r) PROVE FALSE
      BY <3>1 DEF Launch
    <3>2. ASSUME NEW r \in Procs, Run(r) PROVE Lock(p)
      BY <3>2 DEF Run, Acquire, OpenFile, OpenFails, Lock, Retry, GiveUp, Truncate, WriteMeta,
             OpenDatabase, Bind, CloseDatabase, Release, Remove, SkipRelease
    <3>3. ASSUME NEW r \in Procs, Die(r) \/ Signal(r) PROVE FALSE
      BY <3>3 DEF Die, Signal
    <3>4. ASSUME NEW r \in Procs, NEW child \in Procs, Restart(r, child) PROVE FALSE
      BY <3>4 DEF Restart
    <3> QED BY <3>1, <3>2, <3>3, <3>4 DEF Next
  <2>2. PICK q \in Procs : flock[q] = fd[p]
    BY <2>1 DEF Lock, Goto, IInv, TypeOK
  <2>3. fd[p] # 0 /\ flock[p] = 0
    BY DEF IInv, TypeOK, Held, Unlocked, Closed
  <2> QED BY <2>2, <2>3 DEF IInv, TypeOK, Held, Unlocked, Closed
<1>2. [][Met]_vars => StaleFileIsHarmless
  BY PTL DEF StaleFileIsHarmless
<1> QED BY <1>1, <1>2, Invariance, PTL DEF Spec, StaleFileIsHarmless

-----------------------------------------------------------------------------
(* The executable.                                                          *)

Renames == {"swap", "clear", "aside", "in", "rollback"}

\* A candidate that is about to be tried, or put in place.
Tried == \A a \in Applies :
    /\ ap[a] \in {"write", "smoke"} => got[a].is \in {"good", "broken"}
    /\ ap[a] \in Renames => got[a].is = "good" /\ (ap[a] = "swap" <=> ~Windows)

\* What is at the two paths.
Whole ==
    /\ \A f \in {exe, old} : f = NoFile \/ f.is = "good"
    /\ exe = NoFile => Windows /\ old # NoFile

\* Windows keeps what is running where it can be renamed back from.
Kept ==
    /\ NoFile \notin Running
    /\ Windows => Running \subseteq {exe, old}

ExeInv == UTypeOK /\ Tried /\ Whole /\ Kept

\* Every step of an update or of the processes under it is a step of the guard or none.
LEMMA StepIsGuardStep == [UNext]_uvars => [Next]_vars
<1> SUFFICES ASSUME [UNext]_uvars PROVE [Next]_vars
  OBVIOUS
<1>1. CASE UNCHANGED uvars
  BY <1>1 DEF uvars
<1>2. CASE Start
  BY <1>2 DEF Start, Next
<1>3. ASSUME NEW p \in Procs, CleanOldArtifacts(p) \/ GuardStep(p) PROVE [Next]_vars
  BY <1>3 DEF CleanOldArtifacts, GuardStep, Next
<1>4. ASSUME NEW a \in Applies, ApplyUpdate(a) \/ GiveUpUpdate(a) PROVE UNCHANGED vars
  BY <1>4 DEF ApplyUpdate, GiveUpUpdate, Ask, Download, WriteCandidate, SmokeTest, Swap, Clear,
         MoveAside, MoveIn, RollBack
<1> QED BY <1>1, <1>2, <1>3, <1>4 DEF UNext

\* The processes under updates implement the guard's specification (main, ApplyUpdate,
\* Restart): no update changes the lock file or the database.
THEOREM UpgradeKeepsGuard == USpec => Spec
<1>1. UInit => Init
  BY DEF UInit
<1> QED BY <1>1, StepIsGuardStep, PTL DEF USpec, Spec
\* What a guard step, an update and a start do to what is alive and running.
LEMMA GuardStepStops ==
    ASSUME TypeOK, NEW p \in Procs, Run(p) \/ Die(p) \/ Signal(p)
    PROVE  \A q \in Procs : Alive(q)' => Alive(q)
<1> USE DEF TypeOK, Alive, Goto
<1>1. CASE Run(p)
  BY <1>1 DEF Run, Acquire, OpenFile, OpenFails, Lock, Retry, GiveUp, Truncate, WriteMeta,
         OpenDatabase, Bind, CloseDatabase, Release, Remove, SkipRelease
<1>2. CASE Die(p) \/ Signal(p)
  BY <1>2 DEF Die, Signal
<1> QED BY <1>1, <1>2

\* A process that is started runs the file at the path, which is there; the others run on.
LEMMA StartRuns ==
    ASSUME UTypeOK, Start
    PROVE  /\ UNCHANGED <<platform, disk, booted, calls>>
           /\ exe # NoFile /\ image' \in [Procs -> Binaries]
           /\ Running' \subseteq Running \cup {exe}
<1>1. PICK p \in Procs :
        /\ \A q \in Procs \ {p} : Alive(q)' => Alive(q)
        /\ RunExecutable(p)
  <2> USE DEF UTypeOK, TypeOK, Alive, Goto
  <2>1. ASSUME NEW p \in Procs, Launch(p), RunExecutable(p)
        PROVE  \A q \in Procs \ {p} : Alive(q)' => Alive(q)
    BY <2>1 DEF Launch
  <2>2. ASSUME NEW p \in Procs, NEW child \in Procs, Restart(p, child), RunExecutable(child)
        PROVE  \A q \in Procs \ {child} : Alive(q)' => Alive(q)
    BY <2>2 DEF Restart
  <2> QED BY <2>1, <2>2 DEF Start
<1> QED BY <1>1 DEF RunExecutable, Running, UTypeOK, calls, disk, Ended

\* The types hold along every step.
LEMMA UTypeStep == UTypeOK /\ [UNext]_uvars => UTypeOK'
<1> SUFFICES ASSUME UTypeOK, [UNext]_uvars PROVE UTypeOK'
  OBVIOUS
<1>1. TypeOK'
  BY StepIsGuardStep, TypeStep DEF UTypeOK
<1> USE <1>1 DEF UTypeOK, Binaries, Quality, NoFile, Original, disk, calls, CallStep, Ended,
                 ToCall, Cli
<1>2. CASE UNCHANGED uvars
  BY <1>2 DEF uvars
<1>3. CASE Start
  BY <1>3, StartRuns
<1>4. ASSUME NEW p \in Procs, CleanOldArtifacts(p) PROVE UTypeOK'
  BY <1>4 DEF CleanOldArtifacts
<1>5. ASSUME NEW p \in Procs, GuardStep(p) PROVE UTypeOK'
  BY <1>5 DEF GuardStep
<1>6. ASSUME NEW a \in Applies, ApplyUpdate(a) PROVE UTypeOK'
  <2>1. CASE Ask(a)
    <3>1. PICK c \in Procs \cup {Cli} :
            /\ caller' = [caller EXCEPT ![a] = c]
            /\ runs' = [runs EXCEPT ![a] = IF c = Cli THEN exe ELSE image[c]]
            /\ c = Cli \/ c \in Procs
      BY <2>1 DEF Ask
    <3>2. got' = [got EXCEPT ![a] = [got[a] EXCEPT !.by = a]]
      BY <2>1 DEF Ask
    <3>3. got' \in [Applies -> Binaries]
      BY <3>2
    <3> QED BY <2>1, <3>1, <3>3 DEF Ask
  <2>2. CASE Download(a)
    <3>1. PICK q \in Quality \ {"none"} :
            /\ got' = [got EXCEPT ![a] = [got[a] EXCEPT !.is = q]]
            /\ ToCall(a, IF q = "corrupt" THEN "failed" ELSE "write")
      BY <2>2 DEF Download
    <3>2. got' \in [Applies -> Binaries]
      BY <3>1
    <3> QED BY <2>2, <3>1, <3>2 DEF Download
  <2>3. CASE WriteCandidate(a)
    BY <2>3 DEF WriteCandidate
  <2>4. CASE SmokeTest(a)
    BY <2>4 DEF SmokeTest
  <2>5. CASE Swap(a)
    BY <2>5 DEF Swap
  <2>6. CASE Clear(a)
    BY <2>6 DEF Clear
  <2>7. CASE MoveAside(a)
    BY <2>7 DEF MoveAside
  <2>8. CASE MoveIn(a)
    BY <2>8 DEF MoveIn
  <2>9. CASE RollBack(a)
    BY <2>9 DEF RollBack
  <2> QED BY <1>6, <2>1, <2>2, <2>3, <2>4, <2>5, <2>6, <2>7, <2>8, <2>9 DEF ApplyUpdate
<1>7. ASSUME NEW a \in Applies, GiveUpUpdate(a) PROVE UTypeOK'
  BY <1>7 DEF GiveUpUpdate
<1> QED BY <1>2, <1>3, <1>4, <1>5, <1>6, <1>7 DEF UNext

\* Every step keeps a good executable at one of the two paths.
LEMMA ExeStep == ExeInv /\ [UNext]_uvars => ExeInv'
<1> SUFFICES ASSUME ExeInv, [UNext]_uvars PROVE ExeInv'
  OBVIOUS
<1> DEFINE Goal == Tried' /\ Whole' /\ Kept'
<1>1. UTypeOK /\ UTypeOK'
  BY UTypeStep DEF ExeInv
<1>2. UTypeOK' /\ Goal => ExeInv'
  BY DEF ExeInv
<1>3. CASE UNCHANGED uvars
  <2>1. UNCHANGED <<vars, platform, disk, image, calls>>
    BY <1>3 DEF uvars
  <2>2. Running' = Running
    BY <2>1 DEF Running, Alive, vars, calls
  <2> QED BY <1>1, <1>2, <2>1, <2>2 DEF ExeInv, Tried, Whole, Kept, Windows, disk, calls
<1>4. CASE Start
  BY <1>1, <1>4, StartRuns DEF ExeInv, Tried, Whole, Kept, Windows, disk, calls
<1>5. ASSUME NEW p \in Procs, CleanOldArtifacts(p) PROVE Goal
  <2>1. Running' = Running /\ image[p] \in Running
    BY <1>1, <1>5 DEF CleanOldArtifacts, Running, Alive, vars, calls, UTypeOK, TypeOK
  <2> QED BY <1>1, <1>5, <2>1 DEF CleanOldArtifacts, ExeInv, Tried, Whole, Kept, Windows, calls
<1>6. ASSUME NEW p \in Procs, GuardStep(p) PROVE Goal
  <2>1. \A a \in Applies : ap'[a] \in {ap[a], "failed"}
    BY <1>1, <1>6 DEF GuardStep
  <2>2. Running' \subseteq Running
    BY <1>1, <1>6, <2>1, GuardStepStops DEF GuardStep, Running, UTypeOK, Ended
  <2> QED BY <1>1, <1>6, <2>1, <2>2 DEF GuardStep, ExeInv, Tried, Whole, Kept, Windows, disk, Renames
<1>7. ASSUME NEW a \in Applies, ApplyUpdate(a) PROVE Goal
  <2> USE <1>1 DEF UTypeOK, ToCall, Renames, Ended, CallStep
  <2>1. ASSUME ap[a] \notin Ended,
               UNCHANGED <<vars, image, caller, runs>>,
               \A b \in Applies \ {a} : ap'[b] = ap[b]
        PROVE  Running' \subseteq Running /\ runs[a] \in Running
    BY <2>1 DEF Running, Alive, vars
  <2>2. CASE Ask(a)
    <3>1. PICK c \in Procs \cup {Cli} :
            /\ IF c = Cli THEN exe # NoFile ELSE pc[c] = "serve"
            /\ runs' = [runs EXCEPT ![a] = IF c = Cli THEN exe ELSE image[c]]
      BY <2>2 DEF Ask
    <3>2. runs'[a] \in Running \cup {exe} /\ runs'[a] # NoFile
      BY <2>2, <3>1 DEF Running, Alive, ExeInv, Kept, Cli
    <3>3. Running' \subseteq Running \cup {runs'[a]}
      BY <2>2, <3>1 DEF Ask, Running, Alive, vars
    <3>4. Tried'
      BY <2>2 DEF Ask, ExeInv, Tried, Windows, Binaries
    <3> QED BY <2>2, <3>2, <3>3, <3>4 DEF Ask, ExeInv, Whole, Kept, Windows, disk
  <2>3. CASE Download(a)
    <3>1. PICK q \in Quality \ {"none"} :
            /\ got' = [got EXCEPT ![a] = [got[a] EXCEPT !.is = q]]
            /\ ToCall(a, IF q = "corrupt" THEN "failed" ELSE "write")
      BY <2>3 DEF Download
    <3>2. got'[a].is = q
      BY <3>1 DEF Binaries
    <3>3. Running' \subseteq Running
      BY <2>1, <2>3, <3>1 DEF Download
    <3>4. Tried'
      BY <2>3, <3>1, <3>2 DEF Download, ExeInv, Tried, Windows, Quality
    <3> QED BY <2>3, <3>3, <3>4 DEF Download, ExeInv, Whole, Kept, Windows, disk
  <2>4. CASE WriteCandidate(a)
    BY <2>1, <2>4 DEF WriteCandidate, ExeInv, Tried, Whole, Kept, Windows, disk
  <2>5. CASE SmokeTest(a)
    BY <2>1, <2>5 DEF SmokeTest, ExeInv, Tried, Whole, Kept, Windows, disk
  <2>6. CASE Swap(a)
    BY <2>1, <2>6 DEF Swap, ExeInv, Tried, Whole, Kept, Windows, NoFile
  <2>7. CASE Clear(a)
    BY <2>1, <2>7 DEF Clear, ExeInv, Tried, Whole, Kept, Windows
  <2>8. CASE MoveAside(a)
    BY <2>1, <2>8 DEF MoveAside, ExeInv, Tried, Whole, Kept, Windows, disk
  <2>9. CASE MoveIn(a)
    BY <2>1, <2>9 DEF MoveIn, ExeInv, Tried, Whole, Kept, Windows, NoFile
  <2>10. CASE RollBack(a)
    BY <2>1, <2>10 DEF RollBack, ExeInv, Tried, Whole, Kept, Windows, disk
  <2> QED BY <1>7, <2>2, <2>3, <2>4, <2>5, <2>6, <2>7, <2>8, <2>9, <2>10 DEF ApplyUpdate
<1>8. ASSUME NEW a \in Applies, GiveUpUpdate(a) PROVE Goal
  <2>1. \A b \in Applies : ap'[b] \in {ap[b], "failed"}
    BY <1>1, <1>8 DEF GiveUpUpdate, ToCall, UTypeOK
  <2>2. Running' \subseteq Running
    BY <1>1, <1>8, <2>1 DEF GiveUpUpdate, Running, Alive, vars, Ended, UTypeOK
  <2> QED BY <1>8, <2>1, <2>2 DEF GiveUpUpdate, ExeInv, Tried, Whole, Kept, Windows, disk, Renames
<1> QED BY <1>1, <1>2, <1>3, <1>4, <1>5, <1>6, <1>7, <1>8 DEF UNext

\* The inductive invariant.
LEMMA ExeInvariance == USpec => []ExeInv
<1>1. UInit => ExeInv
  <2> SUFFICES ASSUME UInit PROVE ExeInv
    OBVIOUS
  <2>1. TypeOK
    BY InitHolds DEF UInit, IInv
  <2>2. Original # NoFile /\ Original.is = "good" /\ {Original, NoFile} \subseteq Binaries
    BY DEF Original, NoFile, Binaries, Quality
  <2>3. UTypeOK
    BY <2>1, <2>2, UpgradeAssumption DEF UInit, UTypeOK, CallStep, Cli
  <2>4. Running = {}
    BY DEF UInit, Init, Running, Alive, Ended
  <2> QED BY <2>2, <2>3, <2>4 DEF UInit, ExeInv, Tried, Whole, Kept, Renames
<1> QED BY <1>1, ExeStep, PTL DEF USpec

\* Types, for any processes and calls.
THEOREM UTypeCorrect == USpec => []UTypeOK
<1>1. ExeInv => UTypeOK
  BY DEF ExeInv
<1> QED BY <1>1, ExeInvariance, PTL

\* Whatever fails, overlaps or is killed, however many calls of ApplyUpdate there are: an
\* executable that runs on this machine is at its path, or on Windows at .old.
THEOREM ExecutableRemains == USpec => []SomethingRuns
<1>1. ExeInv => SomethingRuns
  BY DEF ExeInv, Whole, SomethingRuns
<1> QED BY <1>1, ExeInvariance, PTL
=============================================================================
