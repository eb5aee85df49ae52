-------------------------------- MODULE Progress --------------------------------
(***************************************************************************)
(* The progress pipeline of pkg/progress: a printer goroutine displays what *)
(* it receives from one unbuffered status channel, and a MultiWriter merges *)
(* writers into it, one forwarding goroutine per WithPrefix, closing the    *)
(* channel when all of them have ended.  Sending on and closing a closed    *)
(* channel panic.  The processes that log are in the modules that extend    *)
(* this one: a send is one step of the sender and of the receiver.          *)
(***************************************************************************)
EXTENDS Naturals, FiniteSets

CONSTANTS
    Writers      \* what WithPrefix is called for

VARIABLES
    statusClosed,  \* the printer's status channel has been closed
    printer,       \* "displaying", or "done" once its done channel is closed
    displayed,     \* how many messages the printer has displayed, per source
    fwd,           \* each writer's forwarding goroutine
    inClosed,      \* writers whose in channel is closed
    logged,        \* how many messages each writer's users have sent
    ready,         \* MultiWriter.ready is closed
    closer,        \* the goroutine that closes the status channel
    panics         \* the panics that ended the program

progressVars == <<statusClosed, printer, displayed, fwd, inClosed, logged, ready, closer, panics>>
mwVars == <<fwd, inClosed, logged, ready, closer>>

\* Code without a MultiWriter sends to the printer directly.
Direct == <<"direct">>
Sources == Writers \cup {Direct}

ProgressInit ==
    /\ statusClosed = FALSE /\ printer = "displaying"
    /\ displayed = [s \in Sources |-> 0] /\ logged = [s \in Sources |-> 0]
    /\ fwd = [w \in Writers |-> "none"] /\ inClosed = {}
    /\ ready = FALSE /\ closer = "ready"
    /\ panics = {}

-----------------------------------------------------------------------------
(* printer *)

CloseStatus ==
    IF statusClosed THEN panics' = panics \cup {"close of closed status"} /\ UNCHANGED statusClosed
    ELSE statusClosed' = TRUE /\ UNCHANGED panics

\* A sender of the status channel meets the printer, or panics.
Displays(source) ==
    \/ /\ statusClosed
       /\ panics' = panics \cup {"send on closed status"} /\ UNCHANGED displayed
    \/ /\ ~statusClosed /\ printer = "displaying"
       /\ displayed' = [displayed EXCEPT ![source] = @ + 1]
       /\ UNCHANGED panics

\* pw.Status() <- s without a MultiWriter (Boot, driver.go:139-143)
LogDirectly ==
    /\ Displays(Direct)
    /\ logged' = [logged EXCEPT ![Direct] = @ + 1]
    /\ UNCHANGED <<statusClosed, printer, fwd, inClosed, ready, closer>>

\* The display ends when its channel is closed or the context it was given is done.
PrinterEnds(ctxDone) ==
    /\ printer = "displaying" /\ (statusClosed \/ ctxDone)
    /\ printer' = "done"
    /\ UNCHANGED <<statusClosed, displayed, mwVars, panics>>

-----------------------------------------------------------------------------
(* MultiWriter *)

\* eg.Go counts the forwarder at once; its first step closes ready.
WithPrefix(w) ==
    /\ fwd' = [fwd EXCEPT ![w] = "start"]
    /\ UNCHANGED <<statusClosed, printer, displayed, inClosed, logged, ready, closer, panics>>

ForwarderStarts(w) ==
    /\ fwd[w] = "start"
    /\ fwd' = [fwd EXCEPT ![w] = "select"]
    /\ ready' = TRUE
    /\ UNCHANGED <<statusClosed, printer, displayed, inClosed, logged, closer, panics>>

\* w.Status() <- v: taken by the forwarder's select
Log(w) ==
    /\ fwd[w] = "select"
    /\ fwd' = [fwd EXCEPT ![w] = "forward"]
    /\ logged' = [logged EXCEPT ![w] = @ + 1]
    /\ UNCHANGED <<statusClosed, printer, displayed, inClosed, ready, closer, panics>>

\* close(w.Status())
CloseWriter(w) ==
    /\ IF w \in inClosed THEN panics' = panics \cup {"close of closed writer"} ELSE UNCHANGED panics
    /\ inClosed' = inClosed \cup {w}
    /\ UNCHANGED <<statusClosed, printer, displayed, fwd, logged, ready, closer>>

\* out <- v, with no way out when the printer is gone
ForwarderForwards(w) ==
    /\ fwd[w] = "forward"
    /\ Displays(w)
    /\ fwd' = [fwd EXCEPT ![w] = "select"]
    /\ UNCHANGED <<statusClosed, printer, inClosed, logged, ready, closer>>

ForwarderEnds(w) ==
    /\ fwd[w] = "select" /\ (w \in inClosed \/ printer = "done")
    /\ fwd' = [fwd EXCEPT ![w] = "done"]
    /\ UNCHANGED <<statusClosed, printer, displayed, inClosed, logged, ready, closer, panics>>

\* Mutant of CloserWaits: it does not wait for the forwarders.
CloserDoesNotWait ==
    /\ closer = "ready" /\ ready
    /\ closer' = "close"
    /\ UNCHANGED <<statusClosed, printer, displayed, fwd, inClosed, logged, ready, panics>>

\* <-ready; eg.Wait()
CloserWaits ==
    /\ closer = "ready" /\ ready
    /\ \A w \in Writers : fwd[w] \in {"none", "done"}
    /\ closer' = "close"
    /\ UNCHANGED <<statusClosed, printer, displayed, fwd, inClosed, logged, ready, panics>>

\* close(pw.Status())
CloserCloses ==
    /\ closer = "close" /\ closer' = "done"
    /\ CloseStatus
    /\ UNCHANGED <<printer, displayed, fwd, inClosed, logged, ready>>

Forwarders ==
    \/ \E w \in Writers : ForwarderStarts(w) \/ ForwarderForwards(w) \/ ForwarderEnds(w)
    \/ CloserWaits \/ CloserCloses

ProgressTypes ==
    /\ statusClosed \in BOOLEAN /\ printer \in {"displaying", "done"}
    /\ displayed \in [Sources -> Nat] /\ logged \in [Sources -> Nat]
    /\ fwd \in [Writers -> {"none", "start", "select", "forward", "done"}]
    /\ inClosed \subseteq Writers /\ ready \in BOOLEAN
    /\ closer \in {"ready", "close", "done"}
    /\ panics \subseteq {"close of closed status", "send on closed status", "close of closed writer",
                         "nil response"}
=============================================================================
