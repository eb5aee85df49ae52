------------------------------- MODULE ImageLoad -------------------------------
(***************************************************************************)
(* How kubectl build loads the image it built into the runtimes of the      *)
(* builder's nodes (newDockerLoader, newContainerdLoader, waitingWriter).   *)
(* buildkitd streams the image to a handler of the client's session, which  *)
(* writes it into one pipe per node; per node, a goroutine started by the   *)
(* first write feeds its pipe to the node's runtime.                        *)
(***************************************************************************)
EXTENDS Progress

CONSTANTS
    Nodes,      \* how many nodes the builder has
    Chunks,     \* bound: the messages the image is streamed in
    Scenarios   \* the builds that are considered

Node == 1 .. Nodes
FaultKinds == {"options", "solve", "cancel", "load"}

\* The loader, "none" when no image is loaded; whether --iidfile is given;
\* what may fail.
ASSUME LoadAssumption ==
    /\ Nodes \in Nat \ {0} /\ Chunks \in Nat \ {0}
    /\ Scenarios \subseteq [loader : {"docker", "containerd", "none"}, iidfile : BOOLEAN, faults : SUBSET FaultKinds]

VARIABLES
    scenario,  \* the build
    server,    \* buildkitd's end of the stream
    sent,      \* the messages it has sent
    handler,   \* the session's handler: DiffCopy, waitingWriter.Write and Close
    taken,     \* the messages the handler has taken
    target,    \* the pipe the current message goes to next
    wclosed,   \* the writer has closed the pipes
    rclosed,   \* pipes closed by the reader, with an error
    loader,    \* each node's goroutine f(i)
    eof,       \* nodes that have read their pipe to the end
    started,   \* nodes whose started channel is closed
    loaded     \* nodes whose runtime has the image

handlerVars == <<handler, taken, target, wclosed>>
nodeVars == <<rclosed, loader, eof, started, loaded>>
loadVars == <<server, sent, handlerVars, nodeVars>>

LoaderKind == scenario.loader
Faults == scenario.faults

LoadInit ==
    /\ scenario \in Scenarios
    /\ server = "idle" /\ sent = 0
    /\ handler = "idle" /\ taken = 0 /\ target = 1 /\ wclosed = FALSE
    /\ rclosed = {} /\ eof = {} /\ started = {} /\ loaded = {}
    /\ loader = [i \in Node |-> "none"]

\* The progress writer of the loader of node i
LoadWriter(i) == <<"load", i>>

-----------------------------------------------------------------------------
(* buildkitd's exporter and its end of the stream *)

ExportStarts ==
    /\ server = "idle" /\ server' = "sending" /\ handler' = "recv"
    /\ UNCHANGED <<sent, taken, target, wclosed, nodeVars>>

ServerSends ==
    /\ server = "sending" /\ sent < Chunks
    /\ sent' = sent + 1
    /\ UNCHANGED <<server, handlerVars, nodeVars>>

ServerCloses ==
    /\ server = "sending" /\ sent = Chunks /\ server' = "closed"
    /\ UNCHANGED <<sent, handlerVars, nodeVars>>

\* Sending on a stream whose handler has returned fails.
ServerFails ==
    /\ server = "sending" /\ sent < Chunks /\ handler = "returned"
    /\ server' = "failed"
    /\ UNCHANGED <<sent, handlerVars, nodeVars>>

\* DiffCopy drops the error of a failed Write: its return means success.
ServerSucceeds ==
    /\ server = "closed" /\ handler = "returned" /\ server' = "succeeded"
    /\ UNCHANGED <<sent, handlerVars, nodeVars>>

-----------------------------------------------------------------------------
(* The handler: waitingWriter.Write and Close *)

\* The first Write starts every f(i).
HandlerReceives ==
    /\ handler = "recv" /\ taken < sent
    /\ taken' = taken + 1 /\ handler' = "write" /\ target' = 1
    /\ loader' = [i \in Node |-> IF loader[i] = "none" THEN "load" ELSE loader[i]]
    /\ UNCHANGED <<server, sent, wclosed, rclosed, eof, started, loaded>>

\* Mutant of HandlerWrites: the last pipe is not recognised.
HandlerWritesPastEnd ==
    /\ handler = "write"
    /\ IF target \in rclosed THEN handler' = "close" /\ UNCHANGED target
       ELSE IF target > Nodes THEN handler' = "recv" /\ UNCHANGED target
       ELSE target' = target + 1 /\ UNCHANGED handler
    /\ UNCHANGED <<server, sent, taken, wclosed, nodeVars>>

\* io.MultiWriter writes to the pipes in turn, each write taken by the pipe's
\* reader, and gives up at the first pipe whose reader has closed it.
HandlerWrites ==
    /\ handler = "write"
    /\ IF target \in rclosed THEN handler' = "close" /\ UNCHANGED target
       ELSE IF target = Nodes THEN handler' = "recv" /\ UNCHANGED target
       ELSE target' = target + 1 /\ UNCHANGED handler
    /\ UNCHANGED <<server, sent, taken, wclosed, nodeVars>>

\* The end of the stream, or a stream broken because the Solve is over
HandlerStops(broken) ==
    /\ handler = "recv" /\ ((server = "closed" /\ taken = sent) \/ broken)
    /\ handler' = "close"
    /\ UNCHANGED <<server, sent, taken, target, wclosed, nodeVars>>

\* Mutant of Close: it does not wait for the loaders.
CloseAtOnce ==
    \/ /\ handler = "close" /\ handler' = "wait" /\ wclosed' = TRUE
       /\ UNCHANGED <<server, sent, taken, target, nodeVars>>
    \/ /\ handler = "wait" /\ handler' = "returned"
       /\ UNCHANGED <<server, sent, taken, target, wclosed, nodeVars>>

\* waitingWriter.Close: close every pipe, then wait for every started channel.
Close ==
    \/ /\ handler = "close" /\ handler' = "wait" /\ wclosed' = TRUE
       /\ UNCHANGED <<server, sent, taken, target, nodeVars>>
    \/ /\ handler = "wait" /\ started = Node /\ handler' = "returned"
       /\ UNCHANGED <<server, sent, taken, target, wclosed, nodeVars>>

-----------------------------------------------------------------------------
(* The loaders f(i) *)

Step(i, from, to) == loader[i] = from /\ loader' = [loader EXCEPT ![i] = to]

ReadsToEnd(i) ==
    /\ wclosed /\ i \notin rclosed \cup eof /\ loader[i] # "none"
    /\ eof' = eof \cup {i}
    /\ UNCHANGED <<server, sent, handlerVars, rclosed, loader, started, loaded>>

\* CloseWithError, close(started[i]), return: nobody is told.
LoadFails(i) ==
    /\ loader[i] \in {"load", "unpack"}
    /\ loader' = [loader EXCEPT ![i] = "failed"]
    /\ rclosed' = rclosed \cup {i} /\ started' = started \cup {i}
    /\ UNCHANGED <<server, sent, handlerVars, eof, loaded>>

\* containerd: Import has read the image.
Imports(i) ==
    /\ LoaderKind = "containerd" /\ i \in eof
    /\ Step(i, "load", "unpack")
    /\ UNCHANGED <<server, sent, handlerVars, rclosed, eof, started, loaded>>

\* Mutant of Unpacks: started is closed before the image is unpacked.
UnpacksAfterStarted(i) ==
    /\ loader[i] = "unpack"
    /\ IF i \notin started THEN started' = started \cup {i} /\ UNCHANGED <<loader, loaded>>
       ELSE Step(i, "unpack", "done") /\ loaded' = loaded \cup {i} /\ UNCHANGED started
    /\ UNCHANGED <<server, sent, handlerVars, rclosed, eof>>

Unpacks(i) ==
    /\ Step(i, "unpack", "done")
    /\ started' = started \cup {i} /\ loaded' = loaded \cup {i}
    /\ UNCHANGED <<server, sent, handlerVars, rclosed, eof>>

\* docker: the daemon may answer before it has read the image.
Responds(i) ==
    /\ LoaderKind = "docker"
    /\ Step(i, "load", "respond")
    /\ UNCHANGED <<server, sent, handlerVars, rclosed, eof, started, loaded>>

\* Mutant of Starts: started is closed before the progress writer is taken.
StartsFirst(i) ==
    /\ loader[i] = "respond"
    /\ IF i \notin started
       THEN started' = started \cup {i} /\ UNCHANGED <<loader, progressVars>>
       ELSE WithPrefix(LoadWriter(i)) /\ Step(i, "respond", "announce") /\ UNCHANGED started
    /\ UNCHANGED <<server, sent, handlerVars, rclosed, eof, loaded>>

\* The progress writer is taken, then started is closed.
Starts(i) ==
    /\ loader[i] = "respond"
    /\ IF fwd[LoadWriter(i)] = "none"
       THEN WithPrefix(LoadWriter(i)) /\ UNCHANGED <<loader, started>>
       ELSE Step(i, "respond", "announce") /\ started' = started \cup {i} /\ UNCHANGED progressVars
    /\ UNCHANGED <<server, sent, handlerVars, rclosed, eof, loaded>>

\* progress.FromReader: a message, the response's body, a message, close.  The
\* body ends when the image is loaded, or when loading it failed: the transport
\* then closes the pipe, and the failure is text in the body.
Announces(i) ==
    /\ Step(i, "announce", "body") /\ Log(LoadWriter(i))
    /\ UNCHANGED <<server, sent, handlerVars, rclosed, eof, started, loaded>>

BodyEnds(i, mayFail) ==
    /\ Step(i, "body", "report")
    /\ \/ i \in eof /\ loaded' = loaded \cup {i} /\ UNCHANGED rclosed
       \/ mayFail /\ rclosed' = rclosed \cup {i} /\ UNCHANGED loaded
    /\ UNCHANGED <<server, sent, handlerVars, eof, started, progressVars>>

Reports(i) ==
    /\ Step(i, "report", "close") /\ Log(LoadWriter(i))
    /\ UNCHANGED <<server, sent, handlerVars, rclosed, eof, started, loaded>>

ClosesWriter(i) ==
    /\ Step(i, "close", "done") /\ CloseWriter(LoadWriter(i))
    /\ UNCHANGED <<server, sent, handlerVars, rclosed, eof, started, loaded>>

Stream(broken) ==
    \/ ServerSends \/ ServerCloses \/ ServerFails \/ ServerSucceeds
    \/ HandlerReceives \/ HandlerWrites \/ HandlerStops(broken) \/ Close

QuietLoads(i, mayFail) ==
    ReadsToEnd(i) \/ (mayFail /\ LoadFails(i)) \/ Imports(i) \/ Unpacks(i) \/ Responds(i)

LoggingLoads(i, mayFail) ==
    Starts(i) \/ Announces(i) \/ BodyEnds(i, mayFail) \/ Reports(i) \/ ClosesWriter(i)

LoadTypes ==
    /\ scenario \in Scenarios
    /\ server \in {"idle", "sending", "closed", "failed", "succeeded"}
    /\ sent \in 0 .. Chunks /\ taken \in 0 .. sent
    /\ handler \in {"idle", "recv", "write", "close", "wait", "returned"}
    /\ target \in Node /\ wclosed \in BOOLEAN
    /\ loader \in [Node -> {"none", "load", "unpack", "respond", "announce", "body", "report",
                            "close", "done", "failed"}]
    /\ rclosed \subseteq Node /\ eof \subseteq Node /\ started \subseteq Node /\ loaded \subseteq Node
=============================================================================
