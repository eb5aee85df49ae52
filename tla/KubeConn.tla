-------------------------------- MODULE KubeConn --------------------------------
(***************************************************************************)
(* One connection to a node (execconn.go): "buildctl dial-stdio" runs in    *)
(* the node's pod, and exec.Stream copies between its streams and two       *)
(* io.Pipes.  One goroutine of the client reads, one writes, and any number *)
(* close: gRPC's transport, a timeout, CloseWrite of a hijacked connection. *)
(* A pipe has no buffer: a Write ends when a Read has taken its data, or    *)
(* with an error when either end is closed.                                 *)
(***************************************************************************)
EXTENDS Naturals, FiniteSets

CONSTANTS
    Closers,  \* the goroutines that close
    Messages  \* bound: messages each side sends

ASSUME ConnAssumption == Messages \in Nat

VARIABLES
    writer,       \* the goroutine that calls Write
    reader,       \* the goroutine that calls Read
    call,         \* what each closer calls
    at,           \* where in it each closer is
    flags,        \* stdinClosed, stdoutClosed
    closed,       \* the pipes that are closed
    copyIn,       \* exec.Stream: pipe to remote standard input
    copyOut,      \* exec.Stream: remote standard output to pipe
    stream,       \* exec.Stream itself
    remote,       \* the command in the pod
    remoteEnded,  \* it has read the end of its standard input
    sent, delivered, produced, passed, received

connVars == <<writer, reader, call, at, flags, closed, copyIn, copyOut, stream, remote, remoteEnded,
              sent, delivered, produced, passed, received>>
userVars == <<writer, reader, call, at, flags, closed>>
execVars == <<copyIn, copyOut, stream>>
remoteVars == <<remote, remoteEnded>>
counts == <<sent, delivered, produced, passed, received>>

\* ExecConn returns at once; whether the pod can be reached shows later.
ConnInit ==
    /\ writer = "idle" /\ reader = "idle"
    /\ call = [c \in Closers |-> "none"] /\ at = [c \in Closers |-> "none"]
    /\ flags = {} /\ closed = {}
    /\ copyIn = "none" /\ copyOut = "none" /\ stream = "dialling"
    /\ remote = "none" /\ remoteEnded = FALSE
    /\ sent = 0 /\ delivered = 0 /\ produced = 0 /\ passed = 0 /\ received = 0

-----------------------------------------------------------------------------
(* Read and Write *)

Writes ==
    /\ writer = "idle" /\ sent < Messages /\ writer' = "writing"
    /\ UNCHANGED <<reader, call, at, flags, closed, execVars, remoteVars, counts>>

\* Mutant of WriteFails: a Write on a closed pipe pretends that it succeeded.
WriteSwallowsError ==
    /\ writer = "writing" /\ "stdin" \in closed /\ writer' = "idle" /\ sent' = sent + 1
    /\ UNCHANGED <<reader, call, at, flags, closed, execVars, remoteVars, delivered, produced, passed, received>>

WriteFails ==
    /\ writer = "writing" /\ "stdin" \in closed /\ writer' = "failed"
    /\ UNCHANGED <<reader, call, at, flags, closed, execVars, remoteVars, counts>>

Reads ==
    /\ reader = "idle" /\ reader' = "reading"
    /\ UNCHANGED <<writer, call, at, flags, closed, execVars, remoteVars, counts>>

ReadFails ==
    /\ reader = "reading" /\ "stdout" \in closed /\ reader' = "failed"
    /\ UNCHANGED <<writer, call, at, flags, closed, execVars, remoteVars, counts>>

-----------------------------------------------------------------------------
(* Close, CloseWrite and CloseRead: the flags have a lock, the pipes do not *)

Begin(c) ==
    /\ at[c] = "none"
    /\ \E op \in {"Close", "CloseWrite", "CloseRead"} : call' = [call EXCEPT ![c] = op]
    /\ at' = [at EXCEPT ![c] = CASE call'[c] = "Close" -> "testStdin"
                                 [] call'[c] = "CloseWrite" -> "closeStdin"
                                 [] call'[c] = "CloseRead" -> "closeStdout"]
    /\ UNCHANGED <<writer, reader, flags, closed, execVars, remoteVars, counts>>

CloserStep(c, from, to) == at[c] = from /\ at' = [at EXCEPT ![c] = to]

AfterWrite(c) == IF call[c] = "Close" THEN "testStdout" ELSE "done"

\* Mutant of TestsStdin: a connection that was half closed counts as closed.
TestsStdinOnly(c) ==
    /\ CloserStep(c, "testStdin", IF "stdin" \in flags THEN "done" ELSE "closeStdin")
    /\ UNCHANGED <<writer, reader, call, flags, closed, execVars, remoteVars, counts>>

TestsStdin(c) ==
    /\ CloserStep(c, "testStdin", IF "stdin" \in flags THEN "testStdout" ELSE "closeStdin")
    /\ UNCHANGED <<writer, reader, call, flags, closed, execVars, remoteVars, counts>>

TestsStdout(c) ==
    /\ CloserStep(c, "testStdout", IF "stdout" \in flags THEN "done" ELSE "closeStdout")
    /\ UNCHANGED <<writer, reader, call, flags, closed, execVars, remoteVars, counts>>

\* Mutant of CloseWrite: the flag is set first.
CloseWriteFlagFirst(c) ==
    \/ /\ CloserStep(c, "closeStdin", "flagStdin") /\ flags' = flags \cup {"stdin"}
       /\ UNCHANGED <<writer, reader, call, closed, execVars, remoteVars, counts>>
    \/ /\ CloserStep(c, "flagStdin", AfterWrite(c)) /\ closed' = closed \cup {"stdin"}
       /\ UNCHANGED <<writer, reader, call, flags, execVars, remoteVars, counts>>

CloseWrite(c) ==
    \/ /\ CloserStep(c, "closeStdin", "flagStdin") /\ closed' = closed \cup {"stdin"}
       /\ UNCHANGED <<writer, reader, call, flags, execVars, remoteVars, counts>>
    \/ /\ CloserStep(c, "flagStdin", AfterWrite(c)) /\ flags' = flags \cup {"stdin"}
       /\ UNCHANGED <<writer, reader, call, closed, execVars, remoteVars, counts>>

CloseRead(c) ==
    \/ /\ CloserStep(c, "closeStdout", "flagStdout") /\ closed' = closed \cup {"stdout"}
       /\ UNCHANGED <<writer, reader, call, flags, execVars, remoteVars, counts>>
    \/ /\ CloserStep(c, "flagStdout", "done") /\ flags' = flags \cup {"stdout"}
       /\ UNCHANGED <<writer, reader, call, closed, execVars, remoteVars, counts>>

-----------------------------------------------------------------------------
(* exec.Stream: it dials, copies in both directions, and returns when the   *)
(* output has ended and the command's status is known.  It closes no pipe.  *)

Dials(mayFail) ==
    /\ stream = "dialling"
    /\ \/ stream' = "copying" /\ remote' = "runs" /\ copyIn' = "recv" /\ copyOut' = "recv"
       \/ mayFail /\ stream' = "returned" /\ UNCHANGED <<remote, copyIn, copyOut>>
    /\ UNCHANGED <<userVars, remoteEnded, counts>>

\* The copy's Read of the pipe meets a Write, or the pipe's end.
TakesInput ==
    /\ copyIn = "recv"
    /\ \/ writer = "writing" /\ "stdin" \notin closed
          /\ writer' = "idle" /\ sent' = sent + 1 /\ copyIn' = "send" /\ UNCHANGED remoteEnded
       \/ "stdin" \in closed /\ copyIn' = "done"
          /\ remoteEnded' = (remoteEnded \/ remote = "runs") /\ UNCHANGED <<writer, sent>>
    /\ UNCHANGED <<reader, call, at, flags, closed, copyOut, stream, remote, delivered, produced, passed, received>>

\* With the command gone, sending to it fails, and the copy ends.
SendsInput ==
    /\ copyIn = "send"
    /\ IF remote = "runs" THEN copyIn' = "recv" /\ delivered' = delivered + 1
       ELSE copyIn' = "done" /\ UNCHANGED delivered
    /\ UNCHANGED <<userVars, copyOut, stream, remoteVars, sent, produced, passed, received>>

\* What a command that is gone has sent may be lost.
TakesOutput(mayLose) ==
    /\ copyOut = "recv"
    /\ \/ passed < produced /\ passed' = passed + 1 /\ copyOut' = "write"
       \/ remote = "gone" /\ (mayLose \/ passed = produced) /\ copyOut' = "done" /\ UNCHANGED passed
    /\ UNCHANGED <<userVars, copyIn, stream, remoteVars, sent, delivered, produced, received>>

\* The copy's Write to the pipe meets a Read, or an error: what follows is drained.
WritesOutput ==
    /\ copyOut = "write"
    /\ \/ reader = "reading" /\ "stdout" \notin closed
          /\ reader' = "idle" /\ received' = received + 1 /\ copyOut' = "recv"
       \/ "stdout" \in closed /\ copyOut' = "drain" /\ UNCHANGED <<reader, received>>
    /\ UNCHANGED <<writer, call, at, flags, closed, copyIn, stream, remoteVars, sent, delivered, produced, passed>>

Drains ==
    /\ copyOut = "drain" /\ remote = "gone" /\ copyOut' = "done"
    /\ UNCHANGED <<userVars, copyIn, stream, remoteVars, counts>>

StreamReturns ==
    /\ stream = "copying" /\ copyOut = "done" /\ stream' = "returned"
    /\ UNCHANGED <<userVars, copyIn, copyOut, remoteVars, counts>>

\* buildctl dial-stdio
RemoteSends ==
    /\ remote = "runs" /\ produced < Messages /\ produced' = produced + 1
    /\ UNCHANGED <<userVars, execVars, remoteVars, sent, delivered, passed, received>>

\* It exits at the end of its input; with its pod or its daemon at any time.
RemoteExits(mayFail) ==
    /\ remote = "runs" /\ (remoteEnded \/ mayFail) /\ remote' = "gone"
    /\ UNCHANGED <<userVars, execVars, remoteEnded, counts>>

-----------------------------------------------------------------------------
CloserSteps(c) == TestsStdin(c) \/ TestsStdout(c) \/ CloseWrite(c) \/ CloseRead(c)

Exec(mayFail) ==
    \/ Dials(mayFail) \/ TakesInput \/ SendsInput \/ TakesOutput(mayFail) \/ WritesOutput \/ Drains
    \/ StreamReturns \/ RemoteExits(mayFail)

ConnNext ==
    \/ Writes \/ WriteFails \/ Reads \/ ReadFails \/ RemoteSends \/ Exec(TRUE)
    \/ \E c \in Closers : Begin(c) \/ CloserSteps(c)

ConnTypes ==
    /\ writer \in {"idle", "writing", "failed"} /\ reader \in {"idle", "reading", "failed"}
    /\ call \in [Closers -> {"none", "Close", "CloseWrite", "CloseRead"}]
    /\ at \in [Closers -> {"none", "testStdin", "closeStdin", "flagStdin", "testStdout", "closeStdout", "flagStdout", "done"}]
    /\ flags \subseteq {"stdin", "stdout"} /\ closed \subseteq {"stdin", "stdout"}
    /\ copyIn \in {"none", "recv", "send", "done"} /\ copyOut \in {"none", "recv", "write", "drain", "done"}
    /\ stream \in {"dialling", "copying", "returned"} /\ remote \in {"none", "runs", "gone"}
    /\ remoteEnded \in BOOLEAN
    /\ {sent, delivered, produced, passed, received} \subseteq 0 .. Messages

-----------------------------------------------------------------------------
(* Properties *)

Closed(c) == call[c] = "Close" /\ at[c] = "done"

\* A Close that has returned leaves both pipes closed, although it skips what
\* another closer has flagged and never waits for it.
CloseClosesBoth == \A c \in Closers : Closed(c) => closed = {"stdin", "stdout"}

\* After a Close every blocked Read and Write returns, and the goroutines of
\* exec.Stream end, whether or not the pod was reached and still runs.
CloseReleases ==
    \A c \in Closers : Closed(c) ~>
        writer # "writing" /\ reader # "reading" /\ stream = "returned" /\ copyIn \in {"none", "done"}

\* What its users rely on.
Promised == INSTANCE Connection WITH
    ended <- remoteEnded, open <- {s \in {"send", "receive"} : (IF s = "send" THEN "stdin" ELSE "stdout") \notin closed},
    peer <- remote # "gone"

ImplementsConnection == Promised!Spec
=============================================================================
