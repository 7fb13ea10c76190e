------------------------------- MODULE Upgrade ------------------------------
(***************************************************************************)
(* internal/updater beside the instance guard: calls of ApplyUpdate, made   *)
(* by a serving process or by "pantau -update", replace the executable that *)
(* launches and restarts run.  Unix renames the candidate over it.  Windows *)
(* refuses to remove or replace a file that a process runs, but lets it be  *)
(* renamed: the executable is moved to .old first, and a start removes .old.*)
(***************************************************************************)
EXTENDS InstanceGuard

CONSTANTS
    Applies,        \* calls of ApplyUpdate, each made at most once
    Platforms       \* "unix", "windows"

ASSUME UpgradeAssumption ==
    /\ 0 \notin Applies
    /\ Platforms \subseteq {"unix", "windows"}

VARIABLES
    platform,
    exe, old,       \* the files at the path of the executable, and beside it at .old
    image,          \* image[p]: the file that process p runs
    booted,         \* the processes that have cleaned up after earlier updates
    ap,             \* ap[a]: what call a does next
    caller,         \* caller[a]: the process that makes it, Cli for one of its own
    runs,           \* runs[a]: the file that this process runs
    got             \* got[a]: the candidate

calls == <<ap, caller, runs, got>>
disk  == <<exe, old>>
uvars == <<vars, platform, disk, image, booted, calls>>

Cli == 0

\* A download can be corrupt, a release can be broken on this machine.
Quality  == {"good", "corrupt", "broken", "none"}

\* The file that call by has downloaded, 0 for the one that was installed by hand.
Binaries == [by : Applies \cup {0}, is : Quality]
Original == [by |-> 0, is |-> "good"]
NoFile   == [by |-> 0, is |-> "none"]

CallStep == {"off", "download", "write", "smoke", "swap", "clear", "aside", "in",
             "rollback", "done", "failed"}
Ended == {"off", "done", "failed"}

UTypeOK ==
    /\ TypeOK
    /\ platform \in Platforms
    /\ exe \in Binaries /\ old \in Binaries
    /\ image \in [Procs -> Binaries]
    /\ booted \subseteq Procs
    /\ ap \in [Applies -> CallStep]
    /\ caller \in [Applies -> Procs \cup {Cli}]
    /\ runs \in [Applies -> Binaries]
    /\ got \in [Applies -> Binaries]

UInit ==
    /\ Init
    /\ platform \in Platforms
    /\ exe = Original /\ old = NoFile
    /\ image = [p \in Procs |-> NoFile]
    /\ booted = {}
    /\ ap = [a \in Applies |-> "off"]
    /\ caller = [a \in Applies |-> Cli]
    /\ runs = [a \in Applies |-> NoFile]
    /\ got = [a \in Applies |-> NoFile]

Alive(p) == pc[p] \notin {"off", "gone"}

\* The files that some process runs: Windows keeps them from being removed or replaced.
Running == {image[p] : p \in {q \in Procs : Alive(q)}}
           \cup {runs[a] : a \in {b \in Applies : ap[b] \notin Ended}}

Windows == platform = "windows"
ToCall(a, l) == ap' = [ap EXCEPT ![a] = l]

-----------------------------------------------------------------------------
(* Processes: the actions of InstanceGuard, and the files they run.         *)

\* A process runs the file that the path names when it is started.
RunExecutable(p) ==
    /\ exe # NoFile
    /\ image' = [image EXCEPT ![p] = exe]
    /\ UNCHANGED <<platform, disk, booted, calls>>

Start ==
    \E p \in Procs :
        \/ Launch(p) /\ RunExecutable(p)
        \/ \E child \in Procs : Restart(p, child) /\ RunExecutable(child)

\* CleanOldArtifacts, the first thing main does.
CleanOldArtifacts(p) ==
    /\ pc[p] = "open" /\ p \notin booted
    /\ booted' = booted \cup {p}
    /\ old' = IF Windows /\ old \in Running THEN old ELSE NoFile
    /\ UNCHANGED <<vars, platform, exe, image, calls>>

\* The calls a process makes end with it, wherever they are; what it leaves in memory
\* does not matter any more.
GuardStep(p) ==
    /\ Run(p) \/ Die(p) \/ Signal(p)
    /\ pc[p] = "open" => p \in booted
    /\ ap' = [a \in Applies |->
                IF ap[a] \notin Ended /\ caller[a] = p /\ pc'[p] = "gone"
                THEN "failed" ELSE ap[a]]
    /\ UNCHANGED <<platform, disk, image, booted, caller, runs, got>>

-----------------------------------------------------------------------------
(* ApplyUpdate.                                                             *)

\* The latest release is looked up, by a server or by "pantau -update".
Ask(a) ==
    /\ ap[a] = "off"
    /\ \E c \in Procs \cup {Cli} :
        /\ IF c = Cli THEN exe # NoFile ELSE pc[c] = "serve"
        /\ caller' = [caller EXCEPT ![a] = c]
        /\ runs' = [runs EXCEPT ![a] = IF c = Cli THEN exe ELSE image[c]]
    /\ got' = [got EXCEPT ![a].by = a]
    /\ ToCall(a, "download")
    /\ UNCHANGED <<vars, platform, disk, image, booted>>

\* checksums.txt and the archive: what arrives is what was released, or the call fails.
Download(a) ==
    /\ ap[a] = "download"
    /\ \E q \in Quality \ {"none"} :
        /\ got' = [got EXCEPT ![a].is = q]
        /\ ToCall(a, IF q = "corrupt" THEN "failed" ELSE "write")
    /\ UNCHANGED <<vars, platform, disk, image, booted, caller, runs>>

\* The executable is extracted to a file of its own in the same directory.
WriteCandidate(a) ==
    /\ ap[a] = "write"
    /\ \E l \in {"smoke", "failed"} : ToCall(a, l)
    /\ UNCHANGED <<vars, platform, disk, image, booted, caller, runs, got>>

\* Mutant of SmokeTest: the error of "candidate -v" is not looked at.
SmokeTestPassed(a) ==
    /\ ap[a] = "smoke"
    /\ ToCall(a, IF Windows THEN "clear" ELSE "swap")
    /\ UNCHANGED <<vars, platform, disk, image, booted, caller, runs, got>>

\* candidate -v
SmokeTest(a) ==
    /\ ap[a] = "smoke"
    /\ ToCall(a, IF got[a].is = "broken" THEN "failed" ELSE IF Windows THEN "clear" ELSE "swap")
    /\ UNCHANGED <<vars, platform, disk, image, booted, caller, runs, got>>

\* Unix: one rename.
Swap(a) ==
    /\ ap[a] = "swap"
    /\ \/ exe' = got[a] /\ ToCall(a, "done")
       \/ UNCHANGED exe /\ ToCall(a, "failed")
    /\ UNCHANGED <<vars, platform, old, image, booted, caller, runs, got>>

\* Windows: the .old of an earlier update is removed, unless it is running ...
Clear(a) ==
    /\ ap[a] = "clear"
    /\ old' = IF old \in Running THEN old ELSE NoFile
    /\ ToCall(a, "aside")
    /\ UNCHANGED <<vars, platform, exe, image, booted, caller, runs, got>>

\* ... the executable, running or not, is renamed to .old ...
MoveAside(a) ==
    /\ ap[a] = "aside"
    /\ IF exe # NoFile /\ old \notin Running
       THEN old' = exe /\ exe' = NoFile /\ ToCall(a, "in")
       ELSE UNCHANGED disk /\ ToCall(a, "failed")
    /\ UNCHANGED <<vars, platform, image, booted, caller, runs, got>>

\* ... and the candidate renamed to the executable, which a virus scanner, say, may
\* prevent.
MoveIn(a) ==
    /\ ap[a] = "in"
    /\ \/ exe \notin Running /\ exe' = got[a] /\ ToCall(a, "done")
       \/ UNCHANGED exe /\ ToCall(a, "rollback")
    /\ UNCHANGED <<vars, platform, old, image, booted, caller, runs, got>>

\* The executable is renamed back; the error of this rename is dropped.
RollBack(a) ==
    /\ ap[a] = "rollback"
    /\ \/ old # NoFile /\ exe \notin Running /\ exe' = old /\ old' = NoFile
       \/ UNCHANGED disk
    /\ ToCall(a, "failed")
    /\ UNCHANGED <<vars, platform, image, booted, caller, runs, got>>

\* "pantau -update" is interrupted, or a request is given up while it downloads.
GiveUpUpdate(a) ==
    /\ ap[a] \notin Ended
    /\ caller[a] = Cli \/ ap[a] \in {"download", "smoke"}
    /\ ToCall(a, "failed")
    /\ UNCHANGED <<vars, platform, disk, image, booted, caller, runs, got>>

ApplyUpdate(a) ==
    \/ Ask(a) \/ Download(a) \/ WriteCandidate(a) \/ SmokeTest(a)
    \/ Swap(a) \/ Clear(a) \/ MoveAside(a) \/ MoveIn(a) \/ RollBack(a)

UNext ==
    \/ Start
    \/ \E p \in Procs : CleanOldArtifacts(p) \/ GuardStep(p)
    \/ \E a \in Applies : ApplyUpdate(a) \/ GiveUpUpdate(a)

USpec == UInit /\ [][UNext]_uvars

-----------------------------------------------------------------------------
(* Properties.                                                              *)

\* Whatever fails, overlaps or is killed, there is an executable that runs on this
\* machine: on Unix always at its path, on Windows there or, between two renames or
\* after a crash there, at .old (ApplyUpdate, steps 3 to 7).
SomethingRuns ==
    \/ exe # NoFile /\ exe.is = "good"
    \/ exe = NoFile /\ Windows /\ old # NoFile /\ old.is = "good"

-----------------------------------------------------------------------------
(* What documents say.                                                      *)

\* "atomic in-place binary swapping" (README.md:126): between the two renames of Windows
\* nothing can be started, for good if the process is killed there.
SwapIsAtomic == exe # NoFile

\* "File usang (pantau.exe.old) dibersihkan secara otomatis pada inisialisasi server
\* berikutnya" (docs/adr/0019:34): a restarted process cleans up while its parent, which
\* runs that file, has yet to leave.
OldIsCleaned == [][booted' # booted => old' = NoFile]_uvars
=============================================================================
