-------------------------------- MODULE BuildRun --------------------------------
(***************************************************************************)
(* build.Build: its builder boots (BootLog), then the goroutines of its     *)
(* errgroup run (a solver, a collector of its result, a watcher of the      *)
(* printer), with the progress they log and the image load the solver's     *)
(* session performs.  buildTargets passes one target and one driver; it     *)
(* cancels the printer's context only after Build has returned, and the     *)
(* process then exits.                                                      *)
(***************************************************************************)
EXTENDS ImageLoad, BootLog

CONSTANTS
    Messages     \* bound: status messages of the solve

\* The progress writers of the collector and of the solver
DefaultWriter == <<"default">>
SolveWriter == <<"solve">>

ASSUME BuildAssumption ==
    /\ Messages \in Nat /\ Command = "build"
    /\ Writers = {DefaultWriter, SolveWriter} \cup {LoadWriter(i) : i \in Node}

ImageIDFile == scenario.iidfile

VARIABLES
    main,       \* Build itself
    solver,     \* c.Solve and the goroutine around it
    collector,  \* the goroutine that collects the result
    watcher,    \* the goroutine that waits for the printer
    resetter,   \* ResetTime's goroutine, between the solver and its writer
    unsolved,   \* the WaitGroup: solves that are not done
    res,        \* res[0]
    resp,       \* the response of Build
    idFile,     \* what is in the image id file
    egErr       \* the first error of the errgroup, which cancels its context

buildVars == <<main, solver, collector, watcher, resetter, unsolved, res, resp, idFile, bootVars, egErr>>
groupVars == <<solver, collector, watcher, resetter, unsolved, res, resp, idFile, egErr>>
vars == <<statusClosed, printer, displayed, fwd, inClosed, logged, ready, closer, panics,
          scenario, server, sent, handler, taken, target, wclosed, rclosed, loader, eof, started, loaded,
          boot, err, failed, worked, cancelled,
          main, solver, collector, watcher, resetter, unsolved, res, resp, idFile, egErr>>

Init ==
    /\ ProgressInit /\ LoadInit /\ BootInit
    /\ main = "boot" /\ solver = "none" /\ collector = "none" /\ watcher = "none" /\ resetter = "none"
    /\ unsolved = 1 /\ res = "nil" /\ resp = "none" /\ idFile = "none"
    /\ egErr = FALSE

CtxDone == cancelled \/ egErr
\* The Solve is over, and with it its session.
Broken == solver \in {"failed", "closing", "done"} \/ CtxDone

-----------------------------------------------------------------------------
(* Build *)

\* resolveDrivers
Boots == main = "boot" /\ Boot /\ UNCHANGED <<main, loadVars, groupVars>>
BootLogs == main = "boot" /\ WrapLogs /\ UNCHANGED <<main, loadVars, groupVars>>

\* The messages of a boot that succeeded need no longer be counted.
BootReturns ==
    /\ main = "boot"
    /\ \/ boot = "failed" /\ main' = "error" /\ UNCHANGED <<progressVars, bootVars>>
       \/ /\ boot = "booted" /\ main' = "options"
          /\ failed' = 0 /\ worked' = 0
          /\ displayed' = [displayed EXCEPT ![Direct] = 0] /\ logged' = [logged EXCEPT ![Direct] = 0]
          /\ UNCHANGED <<statusClosed, printer, fwd, inClosed, ready, closer, panics, boot, err, cancelled>>
    /\ UNCHANGED <<loadVars, groupVars>>

\* toSolveOpt fails: Build returns without ending the printer.
OptionsFail ==
    /\ main = "options" /\ "options" \in Faults /\ main' = "error"
    /\ UNCHANGED <<progressVars, loadVars, groupVars, bootVars>>

SpawnsCollector ==
    /\ main = "options" /\ main' = "prefix" /\ collector' = "start"
    /\ UNCHANGED <<progressVars, loadVars, solver, watcher, resetter, unsolved, res, resp, idFile, egErr, bootVars>>

TakesWriter ==
    /\ main = "prefix" /\ main' = "spawn"
    /\ WithPrefix(SolveWriter)
    /\ UNCHANGED <<loadVars, groupVars, bootVars>>

\* Mutant of SpawnsSolver: nothing waits for the printer.
SpawnsNoWatcher ==
    /\ main = "spawn" /\ main' = "wait"
    /\ resetter' = "select" /\ watcher' = "done" /\ solver' = "solve"
    /\ UNCHANGED <<progressVars, loadVars, collector, unsolved, res, resp, idFile, egErr, bootVars>>

SpawnsSolver ==
    /\ main = "spawn" /\ main' = "wait"
    /\ resetter' = "select" /\ watcher' = "watch" /\ solver' = "solve"
    /\ UNCHANGED <<progressVars, loadVars, collector, unsolved, res, resp, idFile, egErr, bootVars>>

\* eg.Wait
Returns ==
    /\ main = "wait" /\ {collector, watcher, solver} = {"done"}
    /\ main' = IF egErr THEN "error" ELSE "ok"
    /\ UNCHANGED <<progressVars, loadVars, groupVars, bootVars>>

-----------------------------------------------------------------------------
(* The solver: status messages go to the resetter, which hands them on. *)

SolveLogs ==
    /\ solver = "solve" /\ resetter = "select" /\ logged[SolveWriter] < Messages
    /\ resetter' = "send"
    /\ UNCHANGED <<progressVars, loadVars, main, solver, collector, watcher, unsolved, res, resp, idFile, egErr, bootVars>>

SolveExports ==
    /\ solver = "solve" /\ LoaderKind # "none"
    /\ ExportStarts
    /\ UNCHANGED <<progressVars, buildVars>>

SolveSucceeds ==
    /\ solver = "solve" /\ server = IF LoaderKind = "none" THEN "idle" ELSE "succeeded"
    /\ solver' = "succeeded"
    /\ UNCHANGED <<progressVars, loadVars, main, collector, watcher, resetter, unsolved, res, resp, idFile, egErr, bootVars>>

SolveFails(mayFail) ==
    /\ solver = "solve" /\ (mayFail \/ CtxDone \/ server = "failed")
    /\ solver' = "failed"
    /\ UNCHANGED <<progressVars, loadVars, main, collector, watcher, resetter, unsolved, res, resp, idFile, egErr, bootVars>>

\* Solve closes the status channel; the deferred wg.Done runs before the
\* errgroup learns of the error.
SolverDone ==
    /\ solver \in {"failed", "succeeded"}
    /\ res' = IF solver = "succeeded" THEN "result" ELSE res
    /\ unsolved' = 0
    /\ solver' = IF solver = "succeeded" THEN "done" ELSE "closing"
    /\ UNCHANGED <<progressVars, loadVars, main, collector, watcher, resetter, resp, idFile, egErr, bootVars>>

SolverReports ==
    /\ solver = "closing" /\ solver' = "done"
    /\ egErr' = TRUE
    /\ UNCHANGED <<progressVars, loadVars, main, collector, watcher, resetter, unsolved, res, resp, idFile, bootVars>>

ResetterSends ==
    /\ resetter = "send" /\ Log(SolveWriter)
    /\ resetter' = "select"
    /\ UNCHANGED <<loadVars, main, solver, collector, watcher, unsolved, res, resp, idFile, egErr, bootVars>>

\* Its channel is closed, or the printer is gone.
ResetterEnds ==
    /\ resetter = "select" /\ resetter' = "done"
    /\ \/ solver \in {"failed", "succeeded", "closing", "done"} /\ CloseWriter(SolveWriter)
       \/ printer = "done" /\ UNCHANGED progressVars
    /\ UNCHANGED <<loadVars, main, solver, collector, watcher, unsolved, res, resp, idFile, egErr, bootVars>>

-----------------------------------------------------------------------------
(* The collector and the watcher *)

CollectorStarts ==
    /\ collector = "start" /\ collector' = "wait"
    /\ WithPrefix(DefaultWriter)
    /\ UNCHANGED <<loadVars, main, solver, watcher, resetter, unsolved, res, resp, idFile, egErr, bootVars>>

\* Mutant of Collects: it does not wait for the solver.
CollectsAtOnce ==
    /\ collector = "wait" /\ collector' = "close"
    /\ resp' = res
    /\ UNCHANGED <<progressVars, loadVars, main, solver, watcher, resetter, unsolved, res, idFile, egErr, bootVars>>

\* After wg.Wait: the error of the context, or the result, which is nil when
\* the solver has failed and the errgroup does not know yet.
Collects ==
    /\ collector = "wait" /\ unsolved = 0
    /\ \/ CtxDone /\ collector' = "fail" /\ UNCHANGED <<resp, idFile, panics>>
       \/ /\ ~CtxDone
          /\ resp' = res
          /\ collector' = "close"
          /\ IF ~ImageIDFile THEN UNCHANGED <<idFile, panics>>
             ELSE IF res = "nil" THEN panics' = panics \cup {"nil response"} /\ UNCHANGED idFile
             ELSE idFile' = res /\ UNCHANGED panics
    /\ UNCHANGED <<statusClosed, printer, displayed, mwVars, loadVars, main, solver, watcher, resetter,
                   unsolved, res, egErr, bootVars>>

\* Mutant of CollectorEnds: its writer stays open.
CollectorLeaksWriter ==
    /\ collector \in {"close", "fail"} /\ collector' = "done"
    /\ egErr' = (egErr \/ collector = "fail")
    /\ UNCHANGED <<progressVars, loadVars, main, solver, watcher, resetter, unsolved, res, resp, idFile, bootVars>>

CollectorEnds ==
    /\ collector \in {"close", "fail"} /\ collector' = "done"
    /\ CloseWriter(DefaultWriter)
    /\ egErr' = (egErr \/ collector = "fail")
    /\ UNCHANGED <<loadVars, main, solver, watcher, resetter, unsolved, res, resp, idFile, bootVars>>

WatcherEnds ==
    /\ watcher = "watch" /\ printer = "done" /\ watcher' = "done"
    /\ UNCHANGED <<progressVars, loadVars, main, solver, collector, resetter, unsolved, res, resp, idFile, egErr, bootVars>>

-----------------------------------------------------------------------------
Cancel ==
    /\ "cancel" \in Faults /\ ~cancelled /\ cancelled' = TRUE
    /\ UNCHANGED <<progressVars, loadVars, main, groupVars, boot, err, failed, worked>>

Printing == Prints /\ UNCHANGED <<loadVars, main, groupVars>>
Forwarding == Forwarders /\ UNCHANGED <<loadVars, buildVars>>

Loading ==
    \/ Stream(Broken) /\ UNCHANGED <<progressVars, buildVars>>
    \/ \E i \in Node : QuietLoads(i, CtxDone \/ "load" \in Faults) /\ UNCHANGED <<progressVars, buildVars>>
    \/ \E i \in Node : LoggingLoads(i, CtxDone \/ "load" \in Faults) /\ UNCHANGED buildVars

MainSteps ==
    Boots \/ BootReturns \/ OptionsFail \/ SpawnsCollector \/ TakesWriter \/ SpawnsSolver \/ Returns

SolverSteps(mayFail) ==
    SolveExports \/ SolveSucceeds \/ SolveFails(mayFail) \/ SolverDone \/ SolverReports

CollectorSteps == CollectorStarts \/ Collects \/ CollectorEnds

Running == main \notin {"ok", "error"} /\ panics = {} /\ UNCHANGED scenario

Next ==
    /\ Running
    /\ \/ MainSteps \/ BootLogs \/ SolveLogs \/ SolverSteps("solve" \in Faults)
       \/ ResetterSends \/ ResetterEnds
       \/ CollectorSteps \/ WatcherEnds \/ Cancel \/ Printing \/ Forwarding \/ Loading

Spec == Init /\ [][Next]_vars

\* While a goroutine, buildkitd or a runtime can go on, one of them does: no more
\* is needed, as none goes on for ever.  No log message, fault or cancellation need
\* ever happen.
GoesOn ==
    \/ MainSteps \/ SolverSteps(FALSE) \/ ResetterSends \/ ResetterEnds \/ CollectorSteps \/ WatcherEnds
    \/ Printing \/ Forwarding
    \/ Stream(Broken) /\ UNCHANGED <<progressVars, buildVars>>
    \/ \E i \in Node : QuietLoads(i, CtxDone) /\ UNCHANGED <<progressVars, buildVars>>
    \/ \E i \in Node : LoggingLoads(i, CtxDone) /\ UNCHANGED buildVars

Fairness == WF_vars(Running /\ GoesOn)

FairSpec == Spec /\ Fairness

-----------------------------------------------------------------------------
(* Properties *)

\* The type invariant of every variable.
TypeOK ==
    /\ ProgressTypes /\ LoadTypes /\ BootTypes
    /\ main \in {"boot", "options", "prefix", "spawn", "wait", "ok", "error"}
    /\ solver \in {"none", "solve", "succeeded", "failed", "closing", "done"}
    /\ collector \in {"none", "start", "wait", "close", "fail", "done"}
    /\ watcher \in {"none", "watch", "done"} /\ resetter \in {"none", "select", "send", "done"}
    /\ unsolved \in {0, 1} /\ res \in {"nil", "result"} /\ resp \in {"none", "nil", "result"}
    /\ idFile \in {"none", "result"} /\ egErr \in BOOLEAN

\* The only panics are those of a failed solve: a collector that finds no result
\* before the errgroup knows of the error, and a docker load that goes on and logs
\* although the status channel is closed.  No channel is ever closed twice.
PanicsAfterFailedSolve ==
    \/ panics = {}
    \/ panics = {"nil response"} /\ ImageIDFile /\ solver = "closing"
    \/ /\ panics = {"send on closed status"} /\ LoaderKind = "docker"
       /\ solver \in {"failed", "closing", "done"} /\ res = "nil"

\* A build that succeeded has left no load behind: every node's loader has
\* finished or failed (why waitingWriter has its started channels).
NoLoadLeftBehind ==
    main = "ok" => \A i \in Node : loader[i] \in {"none", "done", "failed"}

\* When Build has waited for its goroutines, all that they logged is displayed (why
\* the errgroup waits for the printer), and if it succeeded all that the loads logged.
NothingLost ==
    main = "ok" \/ (main = "error" /\ solver = "done") =>
        \A w \in Writers : displayed[w] = logged[w] \/ (main = "error" /\ w \notin {DefaultWriter, SolveWriter})

\* A build that succeeded answers with its solve's result, also in the image id file.
ResultOnSuccess ==
    main = "ok" => resp = "result" /\ (ImageIDFile => idFile = "result")

\* Build returns, whatever fails on the way.
BuildReturns == <>(main \in {"ok", "error"} \/ panics # {})

=============================================================================
