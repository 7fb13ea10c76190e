----------------------------- MODULE WebStreams -----------------------------
(***************************************************************************)
(* A web socket and a command on a host, joined: the web terminal          *)
(* (handleWSTerminal) and the container logs (handleWSDockerLogs) of       *)
(* internal/web/server.go, on Terminal and Stream of                       *)
(* internal/sshrunner/runner.go.  One session: its handler, the goroutine  *)
(* that writes to the socket, the one that reads from it, the two pipes,   *)
(* and what the SSH library runs for a session.  A chunk of data is not    *)
(* told from another.                                                      *)
(***************************************************************************)
EXTENDS Integers

CONSTANTS
    Kinds,              \* which handlers: of {"terminal", "logs"}
    MaxBacklog,         \* bound: chunks of output that wait in the SSH channel
    MaxResizes          \* capacity of resizeChan (4)

ASSUME StreamAssumption ==
    /\ Kinds \subseteq {"terminal", "logs"}
    /\ MaxBacklog \in Nat /\ MaxResizes \in Nat \ {0}

VARIABLES
    kind,
    ws,                 \* the socket: "open", "lost" by the browser, "closed" by the handler
    runner,             \* the SSH connection: "open", "closed"
    handler,            \* "bridge", "start", "wait" in Terminal or Stream, "returned"
    outgoing,           \* output to socket: "read", "send", "gone"
    incoming,           \* socket to input: "read", "input", "resize", "gone"
    starter,            \* what the third goroutine has still to type: directory, command
    outClosed,          \* outWriter is closed
    inClosed,           \* inWriter is closed
    resizes,            \* in resizeChan
    resizer,            \* Terminal's goroutine for them runs; it never ends
    remote,             \* the command: "off", "running", "ended"
    backlog,            \* output in the channel
    copier,             \* the library's copy of it to outWriter: "off", "idle", "writing", "gone"
    stdin               \* its copy of inReader: "off", "read", "forward", "gone"

here    == <<outgoing, incoming, starter>>
pipes   == <<outClosed, inClosed>>
sizes   == <<resizes, resizer>>
library == <<remote, backlog, copier, stdin>>
vars    == <<kind, ws, runner, handler, here, pipes, sizes, library>>

Terminal == kind = "terminal"

TypeOK ==
    /\ kind \in Kinds
    /\ ws \in {"open", "lost", "closed"}
    /\ runner \in {"open", "closed"}
    /\ handler \in {"bridge", "start", "wait", "returned"}
    /\ outgoing \in {"read", "send", "gone"}
    /\ incoming \in {"read", "input", "resize", "gone"}
    /\ starter \in 0..2
    /\ outClosed \in BOOLEAN /\ inClosed \in BOOLEAN
    /\ resizes \in 0..MaxResizes /\ resizer \in BOOLEAN
    /\ remote \in {"off", "running", "ended"}
    /\ backlog \in 0..MaxBacklog
    /\ copier \in {"off", "idle", "writing", "gone"}
    /\ stdin \in {"off", "read", "forward", "gone"}

\* The host has been loaded, and connected to; both goroutines are started.
Init ==
    /\ kind \in Kinds
    /\ ws = "open" /\ runner = "open"
    /\ handler = IF Terminal THEN "bridge" ELSE "start"
    /\ outgoing = "read" /\ incoming = "read" /\ starter = 0
    /\ outClosed = FALSE /\ inClosed = FALSE
    /\ resizes = 0 /\ resizer = FALSE
    /\ remote = "off" /\ backlog = 0 /\ copier = "off" /\ stdin = "off"

\* What either goroutine does when the socket fails: the terminal ends its input, the
\* logs end their output.
HangUp ==
    /\ runner' = "closed"
    /\ IF Terminal
       THEN inClosed' = TRUE /\ UNCHANGED outClosed
       ELSE outClosed' = TRUE /\ UNCHANGED inClosed

-----------------------------------------------------------------------------
(* The handler.                                                             *)

\* ensureBrowserBridge has run its command, or given up after 2 s; a directory or a
\* command to begin with gets a goroutine.
Provision ==
    /\ handler = "bridge"
    /\ handler' = "start"
    /\ starter' \in 0..2
    /\ UNCHANGED <<kind, ws, runner, outgoing, incoming, pipes, sizes, library>>

StartSession ==
    /\ handler = "start" /\ runner = "open"
    /\ handler' = "wait"
    /\ remote' = "running" /\ copier' = "idle"
    /\ stdin' = IF Terminal THEN "read" ELSE "off"
    /\ resizer' = Terminal
    /\ UNCHANGED <<kind, ws, runner, here, pipes, resizes, backlog>>

\* The deferred closes.
Return ==
    /\ handler' = "returned"
    /\ runner' = "closed" /\ ws' = "closed"
    /\ UNCHANGED <<kind, here, pipes, sizes, library>>

\* NewSession, RequestPty or Shell fails, as each does on a closed connection.
StartFails == handler = "start" /\ Return

\* session.Wait: the command has ended, and its output has been copied.
SessionEnds == handler = "wait" /\ remote = "ended" /\ copier = "gone" /\ Return

-----------------------------------------------------------------------------
(* The goroutine that writes to the socket.                                 *)

\* A read of outReader takes what the library is writing.
TakeOutput ==
    /\ outgoing = "read" /\ copier = "writing" /\ ~outClosed
    /\ outgoing' = "send" /\ copier' = "idle"
    /\ UNCHANGED <<kind, ws, runner, handler, incoming, starter, pipes, sizes,
                   remote, backlog, stdin>>

OutputEnds ==
    /\ outgoing = "read" /\ outClosed
    /\ outgoing' = "gone"
    /\ UNCHANGED <<kind, ws, runner, handler, incoming, starter, pipes, sizes, library>>

Send ==
    /\ outgoing = "send" /\ ws = "open"
    /\ outgoing' = "read"
    /\ UNCHANGED <<kind, ws, runner, handler, incoming, starter, pipes, sizes, library>>

SendFails ==
    /\ outgoing = "send" /\ ws # "open"
    /\ HangUp
    /\ outgoing' = "gone"
    /\ UNCHANGED <<kind, ws, handler, incoming, starter, sizes, library>>

-----------------------------------------------------------------------------
(* The goroutine that reads from the socket; the first command.             *)

\* Input or a new size; the logs ignore what they receive.
Receive ==
    /\ Terminal /\ incoming = "read" /\ ws = "open"
    /\ incoming' \in {"input", "resize"}
    /\ UNCHANGED <<kind, ws, runner, handler, outgoing, starter, pipes, sizes, library>>

\* Mutant of ReadFails: the logs are left as the terminal is, with their output open.
ReadFailsOpen ==
    /\ incoming = "read" /\ ws # "open"
    /\ runner' = "closed" /\ inClosed' = TRUE
    /\ incoming' = "gone"
    /\ UNCHANGED <<kind, ws, handler, outgoing, starter, outClosed, sizes, library>>

ReadFails ==
    /\ incoming = "read" /\ ws # "open"
    /\ HangUp
    /\ incoming' = "gone"
    /\ UNCHANGED <<kind, ws, handler, outgoing, starter, sizes, library>>

\* inWriter.Write waits for a reader; the error of a closed pipe is dropped.
Input ==
    /\ incoming = "input"
    /\ \/ inClosed /\ UNCHANGED stdin
       \/ ~inClosed /\ stdin = "read" /\ stdin' = "forward"
    /\ incoming' = "read"
    /\ UNCHANGED <<kind, ws, runner, handler, outgoing, starter, pipes, sizes,
                   remote, backlog, copier>>

\* resizeChan <- sz waits for room.
Resize ==
    /\ incoming = "resize" /\ resizes < MaxResizes
    /\ resizes' = resizes + 1
    /\ incoming' = "read"
    /\ UNCHANGED <<kind, ws, runner, handler, outgoing, starter, pipes, resizer, library>>

TakeResize ==
    /\ resizer /\ resizes > 0
    /\ resizes' = resizes - 1
    /\ UNCHANGED <<kind, ws, runner, handler, here, pipes, resizer, library>>

\* The first commands are written in the same way, with a sleep before each.
StarterInput ==
    /\ starter > 0
    /\ \/ inClosed /\ UNCHANGED stdin
       \/ ~inClosed /\ stdin = "read" /\ stdin' = "forward"
    /\ starter' = starter - 1
    /\ UNCHANGED <<kind, ws, runner, handler, outgoing, incoming, pipes, sizes,
                   remote, backlog, copier>>

-----------------------------------------------------------------------------
(* The SSH library and the host, as far as Terminal and Stream see them.    *)

Output ==
    /\ remote = "running" /\ backlog < MaxBacklog
    /\ backlog' = backlog + 1
    /\ UNCHANGED <<kind, ws, runner, handler, here, pipes, sizes, remote, copier, stdin>>

\* The command ends, or the connection is lost.
Exit ==
    /\ remote = "running"
    /\ remote' = "ended"
    /\ UNCHANGED <<kind, ws, runner, handler, here, pipes, sizes, backlog, copier, stdin>>

\* A closed connection ends its sessions.
Aborted == runner = "closed" /\ Exit

\* Output is copied to its end, which comes after what has already arrived ...
CopyOutput ==
    /\ copier = "idle"
    /\ \/ backlog > 0 /\ backlog' = backlog - 1 /\ copier' = "writing"
       \/ backlog = 0 /\ remote = "ended" /\ copier' = "gone" /\ UNCHANGED backlog
    /\ UNCHANGED <<kind, ws, runner, handler, here, pipes, sizes, remote, stdin>>

\* ... or until the writer is closed.
CopyRefused ==
    /\ copier = "writing" /\ outClosed
    /\ copier' = "gone"
    /\ UNCHANGED <<kind, ws, runner, handler, here, pipes, sizes, remote, backlog, stdin>>

\* The host takes the input.  Nothing says that it does.
Forward ==
    /\ stdin = "forward" /\ remote = "running"
    /\ stdin' = "read"
    /\ UNCHANGED <<kind, ws, runner, handler, here, pipes, sizes, remote, backlog, copier>>

\* The copy of the input ends with its source, or when the command has.
InputEnds ==
    /\ \/ stdin = "read" /\ inClosed
       \/ stdin = "forward" /\ remote = "ended"
    /\ stdin' = "gone"
    /\ UNCHANGED <<kind, ws, runner, handler, here, pipes, sizes, remote, backlog, copier>>

-----------------------------------------------------------------------------

\* The browser is closed, or its network fails.
Lose ==
    /\ ws = "open"
    /\ ws' = "lost"
    /\ UNCHANGED <<kind, runner, handler, here, pipes, sizes, library>>

Handle   == Provision \/ StartSession \/ StartFails \/ SessionEnds
Outgoing == TakeOutput \/ OutputEnds \/ SendFails
Incoming == ReadFails \/ Input \/ Resize
Library  == CopyOutput \/ CopyRefused \/ InputEnds

Next ==
    \/ Handle \/ Outgoing \/ Send \/ Incoming \/ Receive \/ TakeResize \/ StarterInput
    \/ Library \/ Output \/ Exit \/ Forward
    \/ Lose

Spec == Init /\ [][Next]_vars

\* Goroutines go on with what does not wait for others; the dial and the provisioning
\* have limits.  The browser need not take its output, nor the command its input, and
\* neither need end.
FairSpec ==
    /\ Spec
    /\ WF_vars(Handle) /\ WF_vars(Outgoing) /\ WF_vars(Incoming) /\ WF_vars(StarterInput)
    /\ WF_vars(TakeResize) /\ WF_vars(CopyOutput) /\ WF_vars(CopyRefused)
    /\ WF_vars(InputEnds) /\ WF_vars(Aborted)

-----------------------------------------------------------------------------
(* Properties.                                                              *)

\* The connection is closed and nothing runs on the host for it.
Stopped == runner = "closed" /\ remote # "running"

\* Nobody reads the socket: its reader waits for a command that takes no input.
Choked == incoming = "input" /\ stdin = "forward"

\* All goroutines of the handler are gone.
Left == handler = "returned" /\ outgoing = "gone" /\ incoming = "gone"

\* When the browser leaves, the connection is closed and the command ends, unless nobody
\* is reading the socket; and container logs leave no goroutine behind, whether browser
\* or container was first, whatever output is under way ("immediately aborts remote
\* docker logs -f", server.go:2895).
HangUpEnds ==
    /\ ws = "lost" ~> Stopped \/ Choked
    /\ kind = "logs" /\ ws # "open" ~> Left

(* Said of the code, and not so.                                            *)

\* "immediate SSH runner abortion upon WebSocket disconnection for interactive terminals"
\* (CHANGELOG.md:118), whether or not the command reads its input.
LostIsAborted == ws = "lost" ~> Stopped

\* The same of a terminal's goroutines as of those of the logs: a session leaves the
\* reader of its output behind, and output that is under way when the browser leaves
\* keeps the handler as well, since nobody closes outWriter or outReader.
TerminalLeaves == Terminal /\ ws # "open" ~> Left
=============================================================================
