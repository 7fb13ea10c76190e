------------------------------ MODULE Transfer ------------------------------
(***************************************************************************)
(* One cross-host transfer of internal/transfer: the job record that the   *)
(* web API reads and cancels, and the goroutines that write it: runTransfer*)
(* itself, the metrics reporter, and the two ends of the in-memory pipe.   *)
(* Transfers share nothing but the map that lists them.                    *)
(*                                                                         *)
(* A pipe end is one PipeCommand call, a remote command whose standard     *)
(* output or input is the pipe.  It has no time limit of its own.          *)
(***************************************************************************)
EXTENDS Integers

CONSTANT Size           \* the source, in blocks that pass through the pipe

ASSUME SizeAssumption == Size \in Nat

VARIABLES
    mode,               \* "fast" or "verified"
    kind,               \* what the source is: "file" or "dir"
    copy,               \* what the destination holds
    status,             \* job.Status, "none" before StartTransfer
    reported,           \* job.TransferredBytes
    ctxDone,            \* job.cancelFunc has been called
    pc,                 \* what runTransfer does next
    isDir,              \* its local isDir
    results,            \* results taken from errChan by its wait loop
    failed,             \* execErr # nil
    src, dst,           \* the two pipe ends and what they put on errChan
    sent,               \* the counter behind the countingWriter
    reporter,           \* the reporter goroutine
    snapshot            \* the value of the counter it has loaded

record == <<status, reported, ctxDone>>
pipe   == <<src, dst, sent, copy>>
vars   == <<mode, kind, record, pipe, pc, isDir, results, failed, reporter, snapshot>>

Terminal == {"completed", "failed", "cancelled"}
Ended    == {"ok", "err"}

TypeOK ==
    /\ mode \in {"fast", "verified"}
    /\ kind \in {"file", "dir"}
    /\ copy \in {"nothing", "whole", "damaged"}
    /\ status \in {"none", "queued", "transferring"} \cup Terminal
    /\ reported \in 0..Size
    /\ ctxDone \in BOOLEAN
    /\ pc \in {"off", "source", "dest", "look", "announce", "launch", "wait", "judge",
               "verify", "complete", "fail", "returned"}
    /\ isDir \in BOOLEAN
    /\ results \in SUBSET {"src", "dst"}
    /\ failed \in BOOLEAN
    /\ src \in {"off", "running"} \cup Ended
    /\ dst \in {"off", "running"} \cup Ended
    /\ sent \in 0..Size
    /\ reporter \in {"off", "waiting", "ticked", "gone"}
    /\ snapshot \in 0..Size

Init ==
    /\ mode \in {"fast", "verified"}
    /\ kind \in {"file", "dir"}
    /\ copy = "nothing"
    /\ status = "none"
    /\ reported = 0
    /\ ctxDone = FALSE
    /\ pc = "off"
    /\ isDir = FALSE
    /\ results = {}
    /\ failed = FALSE
    /\ src = "off" /\ dst = "off" /\ sent = 0
    /\ reporter = "off" /\ snapshot = 0

-----------------------------------------------------------------------------
(* The requests of the web API.                                             *)

StartTransfer ==
    /\ status = "none"
    /\ status' = "queued"
    /\ pc' = "source"
    /\ UNCHANGED <<mode, kind, reported, ctxDone, pipe, isDir, results, failed, reporter, snapshot>>

\* Mutant of CancelTransfer: the status is not looked at.
CancelAny ==
    /\ status # "none"
    /\ ctxDone' = TRUE
    /\ status' = "cancelled"
    /\ UNCHANGED <<mode, kind, reported, pipe, pc, isDir, results, failed, reporter, snapshot>>

\* POST /api/transfers/{id}/cancel
CancelTransfer ==
    /\ status \in {"queued", "transferring"}
    /\ ctxDone' = TRUE
    /\ status' = "cancelled"
    /\ UNCHANGED <<mode, kind, reported, pipe, pc, isDir, results, failed, reporter, snapshot>>

-----------------------------------------------------------------------------
(* runTransfer.                                                             *)

Locals == <<isDir, results, failed>>

\* failJob, and the deferred closing of both connections.
Fail ==
    /\ pc = "fail"
    /\ status' = "failed"
    /\ pc' = "returned"
    /\ UNCHANGED <<mode, kind, reported, ctxDone, pipe, Locals, reporter, snapshot>>

Connect ==
    /\ \/ pc = "source" /\ pc' \in {"dest", "fail"}
       \/ pc = "dest"   /\ pc' \in {"look", "fail"}
    /\ UNCHANGED <<mode, kind, record, pipe, Locals, reporter, snapshot>>

\* test -d and du: a command that fails leaves isDir false.
Look ==
    /\ pc = "look"
    /\ isDir' \in {kind = "dir", FALSE}
    /\ pc' = "announce"
    /\ UNCHANGED <<mode, kind, record, pipe, results, failed, reporter, snapshot>>

Announce ==
    /\ pc = "announce"
    /\ status' = "transferring"
    /\ pc' = "launch"
    /\ UNCHANGED <<mode, kind, reported, ctxDone, pipe, Locals, reporter, snapshot>>

\* mkdir on the destination, then the reporter and the pipe ends are started.
Launch ==
    /\ pc = "launch"
    /\ src' = "running" /\ dst' = "running"
    /\ reporter' = "waiting"
    /\ pc' = "wait"
    /\ UNCHANGED <<mode, kind, record, sent, copy, Locals, snapshot>>

\* Mutant of Receive: the loop takes one result.
ReceiveOne ==
    /\ pc = "wait"
    /\ \/ src \in Ended /\ results' = {"src"} /\ failed' = (src = "err")
       \/ dst \in Ended /\ results' = {"dst"} /\ failed' = (dst = "err")
    /\ pc' = "judge"
    /\ UNCHANGED <<mode, kind, record, pipe, isDir, reporter, snapshot>>

\* One round of the wait loop: a result from errChan ...
Receive ==
    /\ pc = "wait"
    /\ \/ /\ src \in Ended /\ "src" \notin results
          /\ results' = results \cup {"src"}
          /\ failed' = (failed \/ src = "err")
       \/ /\ dst \in Ended /\ "dst" \notin results
          /\ results' = results \cup {"dst"}
          /\ failed' = (failed \/ dst = "err")
    /\ pc' = IF results' = {"src", "dst"} THEN "judge" ELSE "wait"
    /\ UNCHANGED <<mode, kind, record, pipe, isDir, reporter, snapshot>>

\* Mutant of Interrupted: the context is looked at after a result only.
InterruptedByResult ==
    /\ pc = "wait"
    /\ ctxDone
    /\ results # {}
    /\ status' = "cancelled"
    /\ pc' = "returned"
    /\ UNCHANGED <<mode, kind, reported, ctxDone, pipe, Locals, reporter, snapshot>>

\* ... or the end of the context.
Interrupted ==
    /\ pc = "wait"
    /\ ctxDone
    /\ status' = "cancelled"
    /\ pc' = "returned"
    /\ UNCHANGED <<mode, kind, reported, ctxDone, pipe, Locals, reporter, snapshot>>

Judge ==
    /\ pc = "judge"
    /\ pc' = IF failed THEN "fail" ELSE IF mode = "verified" THEN "verify" ELSE "complete"
    /\ UNCHANGED <<mode, kind, record, pipe, Locals, reporter, snapshot>>

\* Mutant of SameHash: two empty outputs are taken for equal hashes.
SameOutput == {FALSE, TRUE}

\* The two hashes of a verified file: they differ when the copy does, and each
\* command may fail and print nothing.
SameHash == {FALSE, copy = "whole"}

\* A verified file has to hash like its source; a directory only has to hold a file
\* (the count is that of the destination, and is not looked at if the command fails).
Verify ==
    /\ pc = "verify"
    /\ \/ ~isDir /\ \E same \in SameHash : pc' = IF same THEN "complete" ELSE "fail"
       \/ isDir /\ pc' \in {"complete", "fail"}
    /\ UNCHANGED <<mode, kind, record, pipe, Locals, reporter, snapshot>>

Complete ==
    /\ pc = "complete"
    /\ status' = "completed"
    /\ reported' = sent
    /\ pc' = "returned"
    /\ UNCHANGED <<mode, kind, ctxDone, pipe, Locals, reporter, snapshot>>

RunTransfer ==
    \/ Connect \/ Look \/ Announce \/ Launch \/ Receive \/ Interrupted
    \/ Judge \/ Verify \/ Complete \/ Fail

-----------------------------------------------------------------------------
(* The pipe.  Returning closes both connections, and with them the commands.*)

Write ==
    /\ src = "running" /\ dst = "running"
    /\ sent < Size
    /\ sent' = sent + 1
    /\ UNCHANGED <<mode, kind, record, src, dst, copy, pc, Locals, reporter, snapshot>>

\* The source command has written everything, or fails (so does cat on a directory),
\* loses its connection, or finds the pipe closed.
SourceEnds ==
    /\ src = "running"
    /\ \/ sent = Size /\ pc # "returned" /\ isDir = (kind = "dir") /\ src' = "ok"
       \/ src' = "err"
    /\ UNCHANGED <<mode, kind, record, dst, sent, copy, pc, Locals, reporter, snapshot>>

\* The destination command ends when it has had enough, and has stored the source as
\* it was or not; or it fails.
DestEnds ==
    /\ dst = "running"
    /\ \/ /\ pc # "returned" /\ dst' = "ok"
          /\ copy' \in (IF sent = Size THEN {"whole", "damaged"} ELSE {"damaged"})
       \/ dst' = "err" /\ copy' = "damaged"
    /\ UNCHANGED <<mode, kind, record, src, sent, pc, Locals, reporter, snapshot>>

-----------------------------------------------------------------------------
(* The metrics reporter.                                                    *)

\* The ticker fires; the counter is loaded before the lock is taken.
Tick ==
    /\ reporter = "waiting"
    /\ pc # "returned"
    /\ snapshot' = sent
    /\ reporter' = "ticked"
    /\ UNCHANGED <<mode, kind, record, pipe, pc, Locals>>

Report ==
    /\ reporter = "ticked"
    /\ reported' = snapshot
    /\ reporter' = "waiting"
    /\ UNCHANGED <<mode, kind, status, ctxDone, pipe, pc, Locals, snapshot>>

ReporterReturns ==
    /\ reporter = "waiting"
    /\ ctxDone
    /\ reporter' = "gone"
    /\ UNCHANGED <<mode, kind, record, pipe, pc, Locals, snapshot>>

\* Nothing is left to do for the job.
Settled ==
    /\ pc = "returned"
    /\ src # "running" /\ dst # "running"
    /\ reporter # "ticked"
    /\ UNCHANGED vars

Next ==
    \/ StartTransfer \/ CancelTransfer \/ RunTransfer
    \/ Write \/ SourceEnds \/ DestEnds
    \/ Tick \/ Report \/ ReporterReturns
    \/ Settled

Spec == Init /\ [][Next]_vars

\* runTransfer and the reporter are goroutines that are ready to run, their remote
\* commands bounded; a pipe end is only certain to end once its connection is closed.
Fairness ==
    /\ WF_vars(RunTransfer)
    /\ WF_vars(Report) /\ WF_vars(ReporterReturns)
    /\ WF_vars(pc = "returned" /\ SourceEnds)
    /\ WF_vars(pc = "returned" /\ DestEnds)

FairSpec == Spec /\ Fairness

-----------------------------------------------------------------------------
(* Properties.                                                              *)

\* Once runTransfer has returned, the job has a final status and nothing changes it:
\* no late cancellation, no goroutine that is still unwinding.
ReturnedIsFinal ==
    [][pc = "returned" => status \in Terminal /\ status' = status]_vars

\* A job is only completed when both commands ended without an error: an end that is
\* still running or has failed is never overlooked by the wait loop.
CompletedBothEnded == status = "completed" => src = "ok" /\ dst = "ok"

\* A file completed in verified mode is the file that was sent.
VerifiedFileIsWhole ==
    status = "completed" /\ mode = "verified" /\ ~isDir => copy = "whole"

\* A cancelled transfer stops: every goroutine and both remote commands end, even one
\* that would never have ended by itself.
CancelStops ==
    ctxDone ~> /\ pc = "returned"
               /\ src # "running" /\ dst # "running"
               /\ reporter \in {"off", "gone"}

-----------------------------------------------------------------------------
(* What the repository says, and the code does not keep.                    *)

\* The reply to a cancel request is {"status": "cancelled"} (server.go): a job whose
\* context has been cancelled is not completed afterwards.
CancelledIsNotCompleted == ctxDone => status # "completed"

\* "Verified Mode: calculates and validates SHA256 hashes end-to-end"
\* (docs/user-guide.md).
VerifiedIsWhole == status = "completed" /\ mode = "verified" => copy = "whole"

\* A completed job shows every byte it has moved (pantau_test.go).
CompletedShowsAll == status = "completed" => reported = sent
=============================================================================
