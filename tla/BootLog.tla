-------------------------------- MODULE BootLog --------------------------------
(***************************************************************************)
(* driver.Boot and the printer it logs to, without what it does to the      *)
(* cluster (BuilderBootstrap).  Bootstrap logs through progress.Wrap: a     *)
(* message, the work and its messages, and a message however it ended.      *)
(* "kubectl build" gives the printer a context of its own, "kubectl         *)
(* buildkit create" the context that Ctrl-C cancels.                        *)
(***************************************************************************)
EXTENDS Progress

CONSTANTS
    Command,   \* "build" or "create"
    MaxLogs,   \* bound: messages the work of all attempts logs
    MaxFailed  \* bound: attempts that fail while the context is not done

ASSUME BootLogAssumption == Command \in {"build", "create"} /\ MaxLogs \in Nat /\ MaxFailed \in Nat

VARIABLES
    boot,      \* where Boot is
    err,       \* the error of its last attempt
    failed,    \* the attempts that failed while the context was not done
    worked,    \* the messages of the work
    cancelled  \* the user's context is done

bootVars == <<boot, err, failed, worked, cancelled>>

BootInit == boot = "loop" /\ err = TRUE /\ failed = 0 /\ worked = 0 /\ cancelled = FALSE

Goto(label) == boot' = label

\* A build ends its printer and awaits it before it returns the error.
Failed == IF Command = "build" THEN "close" ELSE "failed"

\* The loop runs while the last attempt failed; it looks at the context first.
Loop ==
    /\ boot = "loop"
    /\ Goto(IF ~err THEN "booted" ELSE IF cancelled THEN Failed ELSE "info")
    /\ UNCHANGED <<progressVars, err, failed, worked, cancelled>>

\* Info fails only when listing the pods does; a builder that is not running
\* is bootstrapped.
Info ==
    /\ boot = "info"
    /\ \E label \in {Failed, "start", "clients"} : Goto(label)
    /\ UNCHANGED <<progressVars, err, failed, worked, cancelled>>

\* progress.Wrap, before the work
WrapStarts == boot = "start" /\ LogDirectly /\ Goto("work") /\ UNCHANGED <<err, failed, worked, cancelled>>

\* A message of createConfigMap or createBuilder
WrapLogs ==
    /\ boot = "work" /\ worked < MaxLogs
    /\ LogDirectly
    /\ worked' = worked + 1
    /\ UNCHANGED <<boot, err, failed, cancelled>>

\* With the context done a call can only fail.
Outcome ==
    \/ ~cancelled /\ err' = FALSE /\ UNCHANGED failed
    \/ ~cancelled /\ err' = TRUE /\ failed < MaxFailed /\ failed' = failed + 1
    \/ cancelled /\ err' = TRUE /\ UNCHANGED failed

\* createBuilder may return nil although the context is done.
Works ==
    /\ boot = "work" /\ Goto("end")
    /\ Outcome \/ (cancelled /\ err' = FALSE /\ UNCHANGED failed)
    /\ UNCHANGED <<progressVars, worked, cancelled>>

\* progress.Wrap's deferred message, whatever the outcome
WrapEnds == boot = "end" /\ LogDirectly /\ Goto(IF err THEN "loop" ELSE "clients") /\ UNCHANGED <<err, failed, worked, cancelled>>

Clients ==
    /\ boot = "clients" /\ Goto("loop") /\ Outcome
    /\ UNCHANGED <<progressVars, worked, cancelled>>

\* Mutant of CloseAndDrain: the error is returned at once.
CloseAndReturn ==
    /\ boot = "close" /\ CloseStatus /\ Goto("failed")
    /\ UNCHANGED <<printer, displayed, mwVars, err, failed, worked, cancelled>>

CloseAndDrain ==
    \/ /\ boot = "close" /\ CloseStatus /\ Goto("drain")
       /\ UNCHANGED <<printer, displayed, mwVars, err, failed, worked, cancelled>>
    \/ /\ boot = "drain" /\ printer = "done" /\ Goto("failed")
       /\ UNCHANGED <<progressVars, err, failed, worked, cancelled>>

\* Mutant of Prints: the printer of a build shares the context, too.
PrintsInSharedContext == PrinterEnds(cancelled) /\ UNCHANGED bootVars

\* The printer watches the context it was given.
Prints == PrinterEnds(Command = "create" /\ cancelled) /\ UNCHANGED bootVars

Boot == Loop \/ Info \/ WrapStarts \/ Works \/ WrapEnds \/ Clients \/ CloseAndDrain

BootTypes ==
    /\ boot \in {"loop", "info", "start", "work", "end", "clients", "close", "drain", "booted", "failed"}
    /\ err \in BOOLEAN /\ failed \in 0 .. MaxFailed /\ worked \in 0 .. MaxLogs /\ cancelled \in BOOLEAN

-----------------------------------------------------------------------------
(* Properties *)

\* A build whose boot failed has displayed every message before it returns
\* the error: its printer has finished, and nothing was sent to it since.
DrainedBeforeError ==
    Command = "build" /\ boot = "failed" =>
        panics = {} /\ printer = "done" /\ displayed[Direct] = logged[Direct]

\* After Ctrl-C the command returns: "not using shared context to not disrupt
\* display but let is finish reporting errors" (printer.go:53).
CancelledBootReturns == cancelled ~> boot \in {"booted", "failed"}
=============================================================================
