---------------------------- MODULE StreamProofs ----------------------------
(***************************************************************************)
(* Proofs about the two modules that join two ends by pipes in memory:     *)
(* Transfer.tla, for a source of any size, and WebStreams.tla, for any      *)
(* backlog and any number of window sizes.                                  *)
(***************************************************************************)
EXTENDS Transfer, TLAPS

CONSTANTS Kinds, MaxBacklog, MaxResizes
VARIABLES handlerOf, ws, runner, handler, outgoing, incoming, starter, outClosed, inClosed,
          resizes, resizer, remote, backlog, copier, stdin

Stream == INSTANCE WebStreams WITH kind <- handlerOf

-----------------------------------------------------------------------------
(* Transfer: the invariant follows runTransfer from phase to phase: nothing *)
(* runs before Launch, each result taken from errChan is that of an end     *)
(* that has ended, and the phases after the wait loop are reached with both *)
(* results in hand.                                                         *)

Early == {"off", "source", "dest", "look", "announce", "launch"}
Late  == {"judge", "verify", "complete"}

\* What each phase of runTransfer may count on.
Phases ==
    /\ pc = "off" <=> status = "none"
    /\ pc = "returned" => status \in Terminal
    /\ status = "completed" => pc = "returned"
    /\ pc \in Early => src = "off" /\ dst = "off" /\ results = {} /\ ~failed
    /\ "src" \in results => src \in Ended /\ (~failed => src = "ok")
    /\ "dst" \in results => dst \in Ended /\ (~failed => dst = "ok")
    /\ pc \in Late => results = {"src", "dst"}
    /\ pc \in {"verify", "complete"} => ~failed

\* What a completed job, and one about to be completed, may promise.
Promises ==
    pc = "complete" \/ status = "completed" =>
        /\ src = "ok" /\ dst = "ok"
        /\ mode = "verified" /\ ~isDir => copy = "whole"

\* The types hold along every step.
LEMMA TypeStep == TypeOK /\ [Next]_vars => TypeOK'
<1> SUFFICES ASSUME TypeOK, [Next]_vars PROVE TypeOK'
  OBVIOUS
<1> USE SizeAssumption DEF TypeOK, Terminal, Ended, record, pipe, Locals
<1>1. CASE StartTransfer
  BY <1>1 DEF StartTransfer
<1>2. CASE CancelTransfer
  BY <1>2 DEF CancelTransfer
<1>3. CASE RunTransfer
  <2>1. CASE Connect
    BY <2>1 DEF Connect
  <2>2. CASE Look
    <3>1. isDir' \in BOOLEAN
      BY <2>2, Zenon DEF Look
    <3>2. UNCHANGED <<mode, kind, record, pipe, results, failed, reporter, snapshot>> /\ pc' = "announce"
      BY <2>2 DEF Look
    <3> QED BY <3>1, <3>2
  <2>3. CASE Announce
    BY <2>3 DEF Announce
  <2>4. CASE Launch
    BY <2>4 DEF Launch
  <2>5. CASE Receive
    <3>1. failed' \in BOOLEAN
      BY <2>5, Zenon DEF Receive
    <3>2. results' \in SUBSET {"src", "dst"}
      BY <2>5 DEF Receive
    <3>3. pc' \in {"judge", "wait"} /\ UNCHANGED <<mode, kind, record, pipe, isDir, reporter, snapshot>>
      BY <2>5 DEF Receive
    <3> QED BY <3>1, <3>2, <3>3
  <2>6. CASE Interrupted
    BY <2>6 DEF Interrupted
  <2>7. CASE Judge
    BY <2>7 DEF Judge
  <2>8. CASE Verify
    BY <2>8 DEF Verify
  <2>9. CASE Complete
    BY <2>9 DEF Complete
  <2>10. CASE Fail
    BY <2>10 DEF Fail
  <2> QED
    BY <1>3, <2>1, <2>2, <2>3, <2>4, <2>5, <2>6, <2>7, <2>8, <2>9, <2>10 DEF RunTransfer
<1>4. CASE Write
  BY <1>4 DEF Write
<1>5. CASE SourceEnds
  BY <1>5 DEF SourceEnds
<1>6. CASE DestEnds
  BY <1>6 DEF DestEnds
<1>7. CASE Tick
  BY <1>7 DEF Tick
<1>8. CASE Report
  BY <1>8 DEF Report
<1>9. CASE ReporterReturns
  BY <1>9 DEF ReporterReturns
<1>10. CASE Settled \/ UNCHANGED vars
  <2>1. UNCHANGED vars
    BY <1>10 DEF Settled
  <2> QED BY <2>1 DEF vars
<1> QED
  BY <1>1, <1>2, <1>3, <1>4, <1>5, <1>6, <1>7, <1>8, <1>9, <1>10 DEF Next

\* The phases hold along every step.
LEMMA PhaseStep == TypeOK /\ Phases /\ [Next]_vars => Phases'
<1> SUFFICES ASSUME TypeOK, Phases, [Next]_vars PROVE Phases'
  OBVIOUS
<1> USE DEF TypeOK, Phases, Early, Late, Terminal, Ended, record, pipe, Locals
<1>1. CASE StartTransfer
  BY <1>1 DEF StartTransfer
<1>2. CASE CancelTransfer
  BY <1>2 DEF CancelTransfer
<1>3. CASE RunTransfer
  <2>1. CASE Connect
    BY <2>1 DEF Connect
  <2>2. CASE Look
    BY <2>2 DEF Look
  <2>3. CASE Announce
    BY <2>3 DEF Announce
  <2>4. CASE Launch
    BY <2>4 DEF Launch
  <2>5. CASE Receive
    BY <2>5 DEF Receive
  <2>6. CASE Interrupted
    BY <2>6 DEF Interrupted
  <2>7. CASE Judge
    BY <2>7 DEF Judge
  <2>8. CASE Verify
    BY <2>8 DEF Verify
  <2>9. CASE Complete
    BY <2>9 DEF Complete
  <2>10. CASE Fail
    BY <2>10 DEF Fail
  <2> QED
    BY <1>3, <2>1, <2>2, <2>3, <2>4, <2>5, <2>6, <2>7, <2>8, <2>9, <2>10 DEF RunTransfer
<1>4. CASE Write
  BY <1>4 DEF Write
<1>5. CASE SourceEnds
  BY <1>5 DEF SourceEnds
<1>6. CASE DestEnds
  BY <1>6 DEF DestEnds
<1>7. CASE Tick
  BY <1>7 DEF Tick
<1>8. CASE Report
  BY <1>8 DEF Report
<1>9. CASE ReporterReturns
  BY <1>9 DEF ReporterReturns
<1>10. CASE Settled \/ UNCHANGED vars
  <2>1. UNCHANGED <<pc, status, src, dst, results, failed>>
    BY <1>10 DEF Settled, vars
  <2> QED BY <2>1
<1> QED
  BY <1>1, <1>2, <1>3, <1>4, <1>5, <1>6, <1>7, <1>8, <1>9, <1>10 DEF Next

\* The promises hold along every step, given the phases before it.
LEMMA PromiseStep == TypeOK /\ Phases /\ Promises /\ [Next]_vars => Promises'
<1> SUFFICES ASSUME TypeOK, Phases, Promises, [Next]_vars PROVE Promises'
  OBVIOUS
<1> USE DEF TypeOK, Phases, Promises, Early, Late, Terminal, Ended, record, pipe, Locals
<1>1. CASE StartTransfer
  BY <1>1 DEF StartTransfer
<1>2. CASE CancelTransfer
  BY <1>2 DEF CancelTransfer
<1>3. CASE RunTransfer
  <2>1. CASE Connect
    BY <2>1 DEF Connect
  <2>2. CASE Look
    BY <2>2 DEF Look
  <2>3. CASE Announce
    BY <2>3 DEF Announce
  <2>4. CASE Launch
    BY <2>4 DEF Launch
  <2>5. CASE Receive
    BY <2>5 DEF Receive
  <2>6. CASE Interrupted
    BY <2>6 DEF Interrupted
  <2>7. CASE Judge
    BY <2>7 DEF Judge
  <2>8. CASE Verify
    BY <2>8 DEF Verify, SameHash
  <2>9. CASE Complete
    BY <2>9 DEF Complete
  <2>10. CASE Fail
    BY <2>10 DEF Fail
  <2> QED
    BY <1>3, <2>1, <2>2, <2>3, <2>4, <2>5, <2>6, <2>7, <2>8, <2>9, <2>10 DEF RunTransfer
<1>4. CASE Write
  BY <1>4 DEF Write
<1>5. CASE SourceEnds
  BY <1>5 DEF SourceEnds
<1>6. CASE DestEnds
  BY <1>6 DEF DestEnds
<1>7. CASE Tick
  BY <1>7 DEF Tick
<1>8. CASE Report
  BY <1>8 DEF Report
<1>9. CASE ReporterReturns
  BY <1>9 DEF ReporterReturns
<1>10. CASE Settled \/ UNCHANGED vars
  BY <1>10 DEF Settled, vars
<1> QED
  BY <1>1, <1>2, <1>3, <1>4, <1>5, <1>6, <1>7, <1>8, <1>9, <1>10 DEF Next

\* The inductive invariant.
Inductive == TypeOK /\ Phases /\ Promises

\* It holds in every state of every transfer.
LEMMA Invariance == Spec => []Inductive
<1>1. Init => Inductive
  <2> SUFFICES ASSUME Init PROVE Inductive
    OBVIOUS
  <2>1. TypeOK
    <3>1. reported \in 0..Size /\ sent \in 0..Size /\ snapshot \in 0..Size
      BY SizeAssumption DEF Init
    <3>2. ctxDone \in BOOLEAN /\ isDir \in BOOLEAN /\ failed \in BOOLEAN
      BY Zenon DEF Init
    <3>3. mode \in {"fast", "verified"} /\ kind \in {"file", "dir"} /\ results = {}
      BY DEF Init
    <3>4. copy = "nothing" /\ status = "none" /\ pc = "off"
      BY DEF Init
    <3>5. src = "off" /\ dst = "off" /\ reporter = "off"
      BY DEF Init
    <3> QED BY <3>1, <3>2, <3>3, <3>4, <3>5 DEF TypeOK
  <2>2. Phases
    BY DEF Init, Phases, Early, Late, Terminal, Ended
  <2>3. Promises
    BY DEF Init, Promises
  <2> QED BY <2>1, <2>2, <2>3 DEF Inductive
<1>2. Inductive /\ [Next]_vars => Inductive'
  BY TypeStep, PhaseStep, PromiseStep DEF Inductive
<1> QED BY <1>1, <1>2, PTL DEF Spec

\* The job record and the goroutines' variables keep their types.
THEOREM TypeCorrect == Spec => []TypeOK
BY Invariance, PTL DEF Inductive

\* A completed job had both of its commands end without an error.
THEOREM BothEnded == Spec => []CompletedBothEnded
<1>1. Inductive => CompletedBothEnded
  BY DEF Inductive, Promises, CompletedBothEnded
<1> QED BY <1>1, Invariance, PTL

\* A file completed in verified mode is whole.
THEOREM VerifiedFile == Spec => []VerifiedFileIsWhole
<1>1. Inductive => VerifiedFileIsWhole
  BY DEF Inductive, Promises, VerifiedFileIsWhole
<1> QED BY <1>1, Invariance, PTL

\* Once runTransfer has returned, the status of the job is final.
THEOREM Final == Spec => ReturnedIsFinal
<1>1. Inductive /\ [Next]_vars => [pc = "returned" => status \in Terminal /\ status' = status]_vars
  <2> SUFFICES ASSUME Inductive, [Next]_vars, pc = "returned"
               PROVE  status \in Terminal /\ status' = status
    OBVIOUS
  <2>1. status \in Terminal
    BY DEF Inductive, Phases
  <2>2. status \notin {"none", "queued", "transferring"}
    BY <2>1 DEF Terminal
  <2>3. status' = status
    BY <2>2 DEF Next, StartTransfer, CancelTransfer, RunTransfer, Connect, Look, Announce,
                Launch, Receive, Interrupted, Judge, Verify, Complete, Fail, Write, SourceEnds,
                DestEnds, Tick, Report, ReporterReturns, Settled, record, vars
  <2> QED BY <2>1, <2>3
<1> QED BY <1>1, Invariance, PTL DEF Spec, ReturnedIsFinal

-----------------------------------------------------------------------------
(* WebStreams: whoever leaves hangs up.                                     *)

\* What runs for a session, before and while its handler waits for it.
Sessions ==
    /\ handler \in {"bridge", "start"} =>
          remote = "off" /\ copier = "off" /\ stdin = "off" /\ ~resizer
    /\ handler = "wait" =>
          /\ remote # "off" /\ copier # "off"
          /\ Stream!Terminal => stdin # "off" /\ resizer
    /\ handler = "returned" <=> ws = "closed"
    /\ handler = "returned" => runner = "closed"

\* A goroutine that has left has closed the connection, and for the logs their output as
\* well; whoever copies goes on as long as there is something to copy.
Leavers ==
    /\ outClosed \/ inClosed => runner = "closed"
    /\ incoming = "gone" => runner = "closed" /\ (handlerOf = "logs" => outClosed)
    /\ outgoing = "gone" => runner = "closed" /\ (handlerOf = "logs" => outClosed)
    /\ copier = "gone" => outClosed \/ remote = "ended"
    /\ stdin = "gone" => inClosed \/ remote = "ended"

\* The logs need no preparation, type nothing and have no window; nobody closes the output of a terminal.
Roles ==
    /\ handlerOf = "logs" =>
          handler # "bridge" /\ incoming \in {"read", "gone"} /\ starter = 0
    /\ Stream!Terminal => ~outClosed

StreamInv == Stream!TypeOK /\ Sessions /\ Leavers /\ Roles

\* Some goroutine can go on without waiting for the browser or the command.
Going ==
    \/ handler \in {"bridge", "start"}
    \/ handler = "wait" /\ remote = "ended" /\ copier = "gone"
    \/ outgoing = "read" /\ (outClosed \/ copier = "writing")
    \/ outgoing = "send" /\ ws # "open"
    \/ incoming = "read" /\ ws # "open"
    \/ incoming = "input" /\ (inClosed \/ stdin = "read")
    \/ incoming = "resize" /\ resizes < MaxResizes
    \/ resizer /\ resizes > 0
    \/ copier = "idle" /\ (backlog > 0 \/ remote = "ended")
    \/ copier = "writing" /\ outClosed
    \/ runner = "closed" /\ remote = "running"

\* A session whose browser has left comes to rest only where HangUpEnds wants it.
RestsWhenLeft ==
    /\ ws = "lost" => Stream!Stopped \/ Stream!Choked \/ Going
    /\ handlerOf = "logs" /\ ws # "open" => Stream!Left \/ Going

LEMMA StreamTypeStep ==
    ASSUME Stream!StreamAssumption, Stream!TypeOK, [Stream!Next]_Stream!vars
    PROVE  Stream!TypeOK'
<1> USE DEF Stream!TypeOK, Stream!StreamAssumption, Stream!here, Stream!pipes, Stream!sizes,
            Stream!library
<1>1. CASE UNCHANGED Stream!vars
  BY <1>1 DEF Stream!vars
<1>h. ASSUME Stream!HangUp
      PROVE  runner' = "closed" /\ outClosed' \in BOOLEAN /\ inClosed' \in BOOLEAN
  <2>1. CASE Stream!Terminal
    BY <1>h, <2>1 DEF Stream!HangUp
  <2>2. CASE ~Stream!Terminal
    BY <1>h, <2>2 DEF Stream!HangUp
  <2> QED BY <2>1, <2>2
<1>2. CASE Stream!Handle
  <2>1. CASE Stream!Provision
    BY <2>1 DEF Stream!Provision
  <2>2. CASE Stream!StartSession
    <3>1. resizer' \in BOOLEAN
      BY <2>2 DEF Stream!StartSession, Stream!Terminal
    <3>2. stdin' \in {"off", "read", "forward", "gone"}
      BY <2>2 DEF Stream!StartSession
    <3> QED BY <2>2, <3>1, <3>2 DEF Stream!StartSession
  <2>3. CASE Stream!StartFails \/ Stream!SessionEnds
    BY <2>3 DEF Stream!StartFails, Stream!SessionEnds, Stream!Return
  <2> QED BY <1>2, <2>1, <2>2, <2>3 DEF Stream!Handle
<1>3. CASE Stream!Outgoing \/ Stream!Send
  <2>1. CASE Stream!TakeOutput \/ Stream!OutputEnds \/ Stream!Send
    BY <2>1 DEF Stream!TakeOutput, Stream!OutputEnds, Stream!Send
  <2>2. CASE Stream!SendFails
    BY <2>2, <1>h DEF Stream!SendFails
  <2> QED BY <1>3, <2>1, <2>2 DEF Stream!Outgoing
<1>4. CASE Stream!Incoming \/ Stream!Receive
  <2>1. CASE Stream!ReadFails
    BY <2>1, <1>h DEF Stream!ReadFails
  <2>2. CASE Stream!Input
    BY <2>2 DEF Stream!Input
  <2>3. CASE Stream!Resize \/ Stream!Receive
    BY <2>3 DEF Stream!Resize, Stream!Receive
  <2> QED BY <1>4, <2>1, <2>2, <2>3 DEF Stream!Incoming
<1>5. CASE Stream!TakeResize \/ Stream!StarterInput
  BY <1>5 DEF Stream!TakeResize, Stream!StarterInput
<1>6. CASE Stream!Library
  BY <1>6 DEF Stream!Library, Stream!CopyOutput, Stream!CopyRefused, Stream!InputEnds
<1>7. CASE Stream!Output \/ Stream!Exit \/ Stream!Forward \/ Stream!Lose
  BY <1>7 DEF Stream!Output, Stream!Exit, Stream!Forward, Stream!Lose
<1> QED BY <1>1, <1>2, <1>3, <1>4, <1>5, <1>6, <1>7 DEF Stream!Next

LEMMA StreamStep ==
    ASSUME StreamInv, [Stream!Next]_Stream!vars
    PROVE  Sessions' /\ Leavers' /\ Roles'
<1> USE DEF StreamInv, Stream!TypeOK, Sessions, Leavers, Roles, Stream!Terminal, Stream!here,
            Stream!pipes, Stream!sizes, Stream!library
<1>1. CASE UNCHANGED Stream!vars
  BY <1>1 DEF Stream!vars
<1>2. CASE Stream!Handle
  <2>1. CASE Stream!Provision
    BY <2>1 DEF Stream!Provision
  <2>2. CASE Stream!StartSession
    <3>1. /\ handler' = "wait" /\ remote' = "running" /\ copier' = "idle"
          /\ UNCHANGED <<handlerOf, ws, runner, outgoing, incoming, starter, outClosed, inClosed>>
          /\ handler = "start"
      BY <2>2 DEF Stream!StartSession
    <3>2. handlerOf = "terminal" => stdin' = "read" /\ resizer'
      BY <2>2 DEF Stream!StartSession
    <3>3. stdin' # "gone"
      BY <2>2 DEF Stream!StartSession
    <3> QED BY <3>1, <3>2, <3>3
  <2>3. CASE Stream!StartFails \/ Stream!SessionEnds
    BY <2>3 DEF Stream!StartFails, Stream!SessionEnds, Stream!Return
  <2> QED BY <1>2, <2>1, <2>2, <2>3 DEF Stream!Handle
<1>3. CASE Stream!Outgoing \/ Stream!Send
  BY <1>3 DEF Stream!Outgoing, Stream!TakeOutput, Stream!OutputEnds, Stream!SendFails,
              Stream!Send, Stream!HangUp
<1>4. CASE Stream!Incoming \/ Stream!Receive
  BY <1>4 DEF Stream!Incoming, Stream!ReadFails, Stream!Input, Stream!Resize, Stream!Receive,
              Stream!HangUp
<1>5. CASE Stream!TakeResize \/ Stream!StarterInput
  BY <1>5 DEF Stream!TakeResize, Stream!StarterInput
<1>6. CASE Stream!Library
  BY <1>6 DEF Stream!Library, Stream!CopyOutput, Stream!CopyRefused, Stream!InputEnds
<1>7. CASE Stream!Output \/ Stream!Exit \/ Stream!Forward \/ Stream!Lose
  BY <1>7 DEF Stream!Output, Stream!Exit, Stream!Forward, Stream!Lose
<1> QED BY <1>1, <1>2, <1>3, <1>4, <1>5, <1>6, <1>7 DEF Stream!Next

LEMMA StreamInvariance == ASSUME Stream!StreamAssumption PROVE Stream!Spec => []StreamInv
<1>1. Stream!Init => StreamInv
  <2> SUFFICES ASSUME Stream!Init PROVE StreamInv
    OBVIOUS
  <2>1. handler \in {"bridge", "start"}
    BY DEF Stream!Init
  <2>2. Stream!TypeOK
    <3>1. outClosed \in BOOLEAN /\ inClosed \in BOOLEAN /\ resizer \in BOOLEAN
      BY DEF Stream!Init
    <3>2. resizes \in 0..MaxResizes /\ backlog \in 0..MaxBacklog /\ starter \in 0..2
      BY DEF Stream!Init, Stream!StreamAssumption
    <3> QED BY <2>1, <3>1, <3>2 DEF Stream!Init, Stream!TypeOK
  <2>3. Sessions /\ Leavers /\ Roles
    BY <2>1 DEF Stream!Init, Sessions, Leavers, Roles, Stream!Terminal
  <2> QED BY <2>2, <2>3 DEF StreamInv
<1>2. StreamInv /\ [Stream!Next]_Stream!vars => StreamInv'
  BY StreamTypeStep, StreamStep DEF StreamInv
<1> QED BY <1>1, <1>2, PTL DEF Stream!Spec

\* What is left of a command that has ended can be copied and the session ends, unless
\* its connection is closed already.
LEMMA EndedGoes ==
    ASSUME StreamInv, handler = "wait", ws # "open", remote = "ended"
    PROVE  runner = "closed" \/ Going
<1>1. copier \in {"idle", "writing", "gone"} /\ outgoing \in {"read", "send", "gone"}
  BY DEF StreamInv, Stream!TypeOK, Sessions
<1> QED BY <1>1 DEF StreamInv, Leavers, Going

\* The socket's reader goes on, unless it waits for a command that takes no input.
LEMMA ReaderGoes ==
    ASSUME Stream!StreamAssumption, StreamInv, handler = "wait", ws # "open",
           incoming # "gone"
    PROVE  Stream!Choked \/ Going \/ (runner = "closed" /\ remote = "ended")
<1>1. CASE incoming = "read"
  BY <1>1 DEF Going
<1>2. CASE incoming = "input"
  <2>1. stdin \in {"read", "forward", "gone"}
    BY <1>2 DEF StreamInv, Stream!TypeOK, Sessions, Roles, Stream!Terminal,
                Stream!StreamAssumption
  <2>2. stdin = "gone" => inClosed \/ remote = "ended"
    BY DEF StreamInv, Leavers
  <2> QED BY <1>2, <2>1, <2>2, EndedGoes DEF Going, Stream!Choked
<1>3. CASE incoming = "resize"
  <2>1. resizer
    BY <1>3 DEF StreamInv, Stream!TypeOK, Sessions, Roles, Stream!Terminal,
                Stream!StreamAssumption
  <2>2. resizes \in 0..MaxResizes /\ MaxResizes \in Nat \ {0}
    BY DEF StreamInv, Stream!TypeOK, Stream!StreamAssumption
  <2> QED BY <1>3, <2>1, <2>2 DEF Going
<1> QED BY <1>1, <1>2, <1>3 DEF StreamInv, Stream!TypeOK

\* The variables of a session have their types.
THEOREM StreamTypeCorrect ==
    ASSUME Stream!StreamAssumption PROVE Stream!Spec => []Stream!TypeOK
<1>1. StreamInv => Stream!TypeOK
  BY DEF StreamInv
<1> QED BY <1>1, StreamInvariance, PTL

\* When the browser has left, the goroutines of handleWSTerminal and handleWSDockerLogs
\* never wait for each other in a circle: one of them can go on, until connection and
\* command are gone or nobody reads the socket, and for logs until all have left.
THEOREM NobodyIsStuck ==
    ASSUME Stream!StreamAssumption PROVE Stream!Spec => []RestsWhenLeft
<1>1. StreamInv => RestsWhenLeft
  <2> SUFFICES ASSUME StreamInv PROVE RestsWhenLeft
    OBVIOUS
  <2>t. /\ handler \in {"bridge", "start", "wait", "returned"}
        /\ handler = "returned" <=> ws = "closed"
        /\ remote \in {"off", "running", "ended"} /\ (handler = "wait" => remote # "off")
    BY DEF StreamInv, Stream!TypeOK, Sessions
  <2>1. ASSUME ws = "lost" PROVE Stream!Stopped \/ Stream!Choked \/ Going
    <3>1. CASE handler \in {"bridge", "start"}
      BY <3>1 DEF Going
    <3>2. CASE handler = "wait" /\ incoming # "gone"
      BY <2>1, <3>2, ReaderGoes DEF Stream!Stopped
    <3>3. CASE handler = "wait" /\ incoming = "gone"
      BY <3>3 DEF StreamInv, Leavers, Stream!Stopped, Going
    <3> QED BY <2>t, <2>1, <3>1, <3>2, <3>3
  <2>2. ASSUME handlerOf = "logs", ws # "open" PROVE Stream!Left \/ Going
    <3>1. CASE incoming # "gone"
      BY <2>2, <3>1 DEF StreamInv, Roles, Going
    <3>2. CASE incoming = "gone"
      <4>1. outClosed /\ runner = "closed"
        BY <2>2, <3>2 DEF StreamInv, Leavers
      <4>2. CASE outgoing # "gone"
        BY <2>2, <4>1, <4>2 DEF StreamInv, Stream!TypeOK, Going
      <4>3. CASE outgoing = "gone" /\ handler = "wait"
        <5>1. copier \in {"idle", "writing", "gone"}
          BY <4>3 DEF StreamInv, Stream!TypeOK, Sessions
        <5> QED BY <2>t, <4>1, <4>3, <5>1 DEF Going
      <4> QED BY <2>t, <3>2, <4>2, <4>3 DEF Going, Stream!Left
    <3> QED BY <3>1, <3>2
  <2> QED BY <2>1, <2>2 DEF RestsWhenLeft
<1> QED BY <1>1, StreamInvariance, PTL
=============================================================================
