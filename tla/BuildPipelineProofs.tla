--------------------------- MODULE BuildPipelineProofs ---------------------------
(***************************************************************************)
(* Theorems about the progress pipeline of a build: what is logged is        *)
(* displayed, and the panics that are left are those of a failed solve.  For *)
(* any number of nodes, of messages and of chunks, and for every loader and  *)
(* every combination of failures.                                            *)
(***************************************************************************)
EXTENDS BuildRunProofs

\* Which writers are taken, and by whom they may be closed.  Only a load into
\* docker has a writer.
UseInv ==
    /\ main \in {"boot", "options", "prefix"} => fwd[SolveWriter] = "none"
    /\ collector \in {"none", "start"} => fwd[DefaultWriter] = "none"
    /\ SolveWriter \in inClosed => resetter = "done"
    /\ LoaderKind # "docker" =>
          \A i \in Node : /\ loader[i] \notin {"respond", "announce", "body", "report", "close"}
                          /\ fwd[LoadWriter(i)] = "none"

\* Once the closer has passed, only the loads of a failed solve have a message to
\* forward.
SilentInv ==
    /\ fwd[DefaultWriter] # "forward"
    /\ closer # "ready" => fwd[SolveWriter] = "done"
    /\ closer # "ready" /\ Good => \A i \in Node : fwd[LoadWriter(i)] # "forward"

InFlight(w) == IF fwd[w] = "forward" THEN 1 ELSE 0

\* A message that is not displayed is in its forwarder.
CountInv == panics = {} => \A w \in Writers : logged[w] = displayed[w] + InFlight(w)

\* Build returns after the channel of its printer has been closed.
ReturnInv ==
    /\ main \in {"ok", "error"} => panics = {}
    /\ main = "ok" \/ (main = "error" /\ solver = "done") => closer = "done"

PipelineInv == UseInv /\ SilentInv /\ CountInv /\ ReturnInv /\ PanicsAfterFailedSolve

\* What the earlier invariants say of a build
KnownInv == TypeOK /\ ResultInv /\ StreamInv /\ BootInv /\ LeftBehindInv

-----------------------------------------------------------------------------
(* Counting *)

\* A step that leaves the writers alone, and one that takes a new one
LEMMA CountKept ==
    ASSUME CountInv, ProgressTypes, UNCHANGED panics,
           \A w \in Writers : displayed'[w] = displayed[w] /\ logged'[w] = logged[w],
           \A w \in Writers : fwd'[w] = "forward" <=> fwd[w] = "forward"
    PROVE  CountInv'
<1>1. \A w \in Writers : InFlight(w)' = InFlight(w) BY DEF InFlight
<1>. QED BY <1>1 DEF CountInv

LEMMA CountLogged ==
    ASSUME CountInv, ProgressTypes, NEW w \in Writers, Log(w)
    PROVE  CountInv'
<1>0. w \in Sources BY DEF Sources
<1>1. \A x \in Writers : /\ logged'[x] = IF x = w THEN logged[x] + 1 ELSE logged[x]
                         /\ fwd'[x] = IF x = w THEN "forward" ELSE fwd[x]
                         /\ displayed'[x] = displayed[x]
  BY <1>0 DEF Log, ProgressTypes, Sources
<1>2. UNCHANGED panics /\ fwd[w] = "select" BY DEF Log
<1>3. \A x \in Writers : displayed[x] \in Nat BY DEF ProgressTypes, Sources
<1>4. ASSUME panics = {}, NEW x \in Writers PROVE logged'[x] = displayed'[x] + InFlight(x)'
  <2>1. logged[x] = displayed[x] + InFlight(x) BY <1>4 DEF CountInv
  <2>2. CASE x = w BY <1>1, <1>2, <1>3, <2>1, <2>2 DEF InFlight
  <2>3. CASE x # w BY <1>1, <1>3, <2>1, <2>3 DEF InFlight
  <2>. QED BY <2>2, <2>3
<1>. QED BY <1>2, <1>4 DEF CountInv

LEMMA CountForwarded ==
    ASSUME CountInv, ProgressTypes, panics = {}, NEW w \in Writers, ForwarderForwards(w)
    PROVE  CountInv'
<1>0. w \in Sources BY DEF Sources
<1>1. CASE statusClosed
  BY <1>1 DEF ForwarderForwards, Displays, CountInv
<1>2. CASE ~statusClosed
  <2>1. /\ fwd[w] = "forward" /\ fwd' = [fwd EXCEPT ![w] = "select"]
        /\ displayed' = [displayed EXCEPT ![w] = @ + 1] /\ UNCHANGED <<panics, logged>>
    BY <1>2 DEF ForwarderForwards, Displays
  <2>2. \A x \in Writers : /\ displayed'[x] = IF x = w THEN displayed[x] + 1 ELSE displayed[x]
                           /\ fwd'[x] = IF x = w THEN "select" ELSE fwd[x]
                           /\ logged'[x] = logged[x]
    BY <1>0, <2>1 DEF ProgressTypes, Sources
  <2>3. \A x \in Writers : displayed[x] \in Nat BY DEF ProgressTypes, Sources
  <2>4. ASSUME NEW x \in Writers PROVE logged'[x] = displayed'[x] + InFlight(x)'
    <3>1. logged[x] = displayed[x] + InFlight(x) BY DEF CountInv
    <3>2. CASE x = w BY <2>1, <2>2, <2>3, <3>1, <3>2 DEF InFlight
    <3>3. CASE x # w BY <2>2, <2>3, <3>1, <3>3 DEF InFlight
    <3>. QED BY <3>2, <3>3
  <2>. QED BY <2>4 DEF CountInv
<1>. QED BY <1>1, <1>2

-----------------------------------------------------------------------------
(* The main goroutine, until it waits for the others *)

LEMMA PipelineMain ==
    ASSUME KnownInv, PipelineInv, Running, MainSteps \/ BootLogs
    PROVE  PipelineInv'
<1> USE DEF KnownInv, PipelineInv
<1>0. ProgressTypes /\ BuildTypes BY TypeOfParts
<1>1. panics = {} /\ UNCHANGED scenario BY DEF Running
<1>2. CASE Boots \/ BootLogs
  <2>1. main = "boot" /\ UNCHANGED <<main, collector, resetter, inClosed, solver, loader, fwd, closer, res>>
    BY <1>2 DEF Boots, BootLogs, Boot, Loop, Info, WrapStarts, Works, WrapEnds, WrapLogs, Clients, CloseAndDrain,
                LogDirectly, groupVars, loadVars, nodeVars, progressVars, mwVars
  <2>2. panics' = {}
    <3>1. BootInv' BY <1>1, <1>2, BootInvStep DEF Next, MainSteps
    <3>. QED BY <2>1, <3>1 DEF BootInv
  <2>3. \A w \in Writers : displayed'[w] = displayed[w] /\ logged'[w] = logged[w]
    <3>1. UNCHANGED <<displayed, logged>> \/ LogDirectly
      BY <1>2 DEF Boots, BootLogs, Boot, Loop, Info, WrapStarts, Works, WrapEnds, WrapLogs, Clients, CloseAndDrain,
                  progressVars, mwVars
    <3>2. CASE LogDirectly BY <1>0, <3>2, WriterNames DEF LogDirectly, Displays, ProgressTypes, Sources
    <3>. QED BY <3>1, <3>2
  <2>4. UseInv' /\ SilentInv' BY <1>1, <2>1 DEF UseInv, SilentInv, LoaderKind, Good
  <2>5. CountInv' BY <1>0, <1>1, <2>1, <2>2, <2>3, CountKept
  <2>6. ReturnInv' BY <2>1, <2>2 DEF ReturnInv
  <2>. QED BY <2>2, <2>4, <2>5, <2>6 DEF PanicsAfterFailedSolve
<1>3. CASE BootReturns
  <2>1. UNCHANGED <<collector, resetter, inClosed, solver, loader, fwd, closer, res, panics>>
    BY <1>3 DEF BootReturns, groupVars, loadVars, nodeVars, progressVars
  <2>2. main = "boot" /\ main' \in {"error", "options"} BY <1>3 DEF BootReturns
  <2>3. \A w \in Writers : displayed'[w] = displayed[w] /\ logged'[w] = logged[w]
    BY <1>0, <1>3, WriterNames DEF BootReturns, progressVars, ProgressTypes, Sources
  <2>4. UseInv' /\ SilentInv' BY <1>1, <2>1, <2>2 DEF UseInv, SilentInv, LoaderKind, Good
  <2>5. CountInv' BY <1>0, <2>1, <2>3, CountKept
  <2>6. ReturnInv' BY <1>1, <2>1, <2>2 DEF ReturnInv, ResultInv
  <2>. QED BY <1>1, <2>1, <2>4, <2>5, <2>6 DEF PanicsAfterFailedSolve
<1>4. CASE OptionsFail \/ Returns
  <2>1. UNCHANGED <<collector, resetter, inClosed, solver, loader, fwd, closer, res, panics, displayed, logged>>
    BY <1>4 DEF OptionsFail, Returns, groupVars, loadVars, nodeVars, progressVars
  <2>2. \/ main = "options" /\ main' = "error" /\ solver = "none"
        \/ main = "wait" /\ main' \in {"ok", "error"} /\ watcher = "done"
    BY <1>4 DEF OptionsFail, Returns, ResultInv
  <2>3. UseInv' /\ SilentInv' BY <1>1, <2>1, <2>2 DEF UseInv, SilentInv, LoaderKind, Good
  <2>4. CountInv' BY <1>0, <2>1, CountKept
  <2>5. main = "wait" => closer = "done" \/ watcher # "done" BY DEF LeftBehindInv, EndedInv
  <2>6. ReturnInv' BY <1>1, <2>1, <2>2, <2>5 DEF ReturnInv
  <2>. QED BY <1>1, <2>1, <2>3, <2>4, <2>6 DEF PanicsAfterFailedSolve
<1>5. CASE SpawnsCollector \/ SpawnsSolver
  <2>1. UNCHANGED <<inClosed, loader, fwd, closer, res, panics, displayed, logged>>
    BY <1>5 DEF SpawnsCollector, SpawnsSolver, loadVars, nodeVars, progressVars
  <2>2. \/ /\ main = "options" /\ main' = "prefix" /\ collector' = "start" /\ UNCHANGED <<resetter, solver>>
        \/ /\ main = "spawn" /\ main' = "wait" /\ resetter' = "select" /\ UNCHANGED collector
           /\ solver = "none" /\ solver' = "solve"
    BY <1>5 DEF SpawnsCollector, SpawnsSolver, ResultInv
  <2>3. collector = "none" \/ main # "options" BY DEF LeftBehindInv, ClosedInv
  <2>4. SolveWriter \notin inClosed \/ solver # "none" BY DEF LeftBehindInv, ClosedInv
  <2>5. UseInv' BY <1>1, <2>1, <2>2, <2>3, <2>4 DEF UseInv, LoaderKind
  <2>6. SilentInv' BY <2>1, <2>2 DEF SilentInv, Good
  <2>7. CountInv' BY <1>0, <2>1, CountKept
  <2>8. ReturnInv' BY <2>2 DEF ReturnInv
  <2>. QED BY <1>1, <2>1, <2>5, <2>6, <2>7, <2>8 DEF PanicsAfterFailedSolve
<1>6. CASE TakesWriter
  <2>1. UNCHANGED <<collector, resetter, solver, inClosed, loader, closer, res, panics, displayed, logged>>
    BY <1>6 DEF TakesWriter, WithPrefix, groupVars, loadVars, nodeVars
  <2>2. main = "prefix" /\ main' = "spawn" /\ fwd' = [fwd EXCEPT ![SolveWriter] = "start"]
    BY <1>6 DEF TakesWriter, WithPrefix
  <2>3. \A w \in Writers : fwd'[w] = (IF w = SolveWriter THEN "start" ELSE fwd[w])
    BY <1>0, <2>2 DEF ProgressTypes
  <2>4. fwd[SolveWriter] = "none" BY <2>2 DEF UseInv
  <2>5. closer = "ready" BY <2>2 DEF ResultInv, LeftBehindInv, LeftInv
  <2>6. UseInv' BY <1>1, <2>1, <2>2, <2>3, WriterNames DEF UseInv, LoaderKind
  <2>7. SilentInv' BY <2>1, <2>3, <2>5, WriterNames DEF SilentInv
  <2>8. CountInv' BY <1>0, <2>1, <2>3, <2>4, CountKept
  <2>9. ReturnInv' BY <2>2 DEF ReturnInv
  <2>. QED BY <1>1, <2>1, <2>6, <2>7, <2>8, <2>9 DEF PanicsAfterFailedSolve
<1>. QED BY <1>2, <1>3, <1>4, <1>5, <1>6 DEF MainSteps

-----------------------------------------------------------------------------
(* The solver and ResetTime *)

LEMMA PipelineSolver ==
    ASSUME KnownInv, PipelineInv, Running,
           SolveLogs \/ SolverSteps("solve" \in Faults) \/ ResetterSends \/ ResetterEnds
    PROVE  PipelineInv'
<1> USE DEF KnownInv, PipelineInv
<1>0. ProgressTypes /\ BuildTypes BY TypeOfParts
<1>1. panics = {} /\ UNCHANGED scenario /\ main \notin {"ok", "error"} BY DEF Running
<1>2. CASE SolveLogs \/ SolveExports
  <2>1. UNCHANGED <<main, collector, inClosed, solver, loader, fwd, closer, res, panics, displayed, logged>>
    BY <1>2 DEF SolveLogs, SolveExports, ExportStarts, buildVars, loadVars, nodeVars, progressVars
  <2>2. resetter' = resetter \/ (resetter = "select" /\ resetter' = "send")
    BY <1>2 DEF SolveLogs, SolveExports, buildVars
  <2>3. UseInv' BY <1>1, <2>1, <2>2 DEF UseInv, LoaderKind
  <2>4. SilentInv' /\ ReturnInv' BY <1>1, <2>1 DEF SilentInv, Good, ReturnInv
  <2>5. CountInv' BY <1>0, <2>1, CountKept
  <2>. QED BY <1>1, <2>1, <2>3, <2>4, <2>5 DEF PanicsAfterFailedSolve
<1>3. CASE SolveSucceeds \/ SolveFails("solve" \in Faults) \/ SolverDone \/ SolverReports
  <2>1. UNCHANGED <<main, collector, resetter, inClosed, loader, fwd, closer, panics, displayed, logged>>
    BY <1>3 DEF SolveSucceeds, SolveFails, SolverDone, SolverReports, loadVars, nodeVars, progressVars
  <2>2. Good' /\ closer # "ready" => Good
    BY <1>3 DEF SolveSucceeds, SolveFails, SolverDone, SolverReports, Good, StreamInv, LeftBehindInv, LeftInv
  <2>3. UseInv' BY <1>1, <2>1 DEF UseInv, LoaderKind
  <2>4. SilentInv' /\ ReturnInv' BY <1>1, <2>1, <2>2 DEF SilentInv, ReturnInv
  <2>5. CountInv' BY <1>0, <2>1, CountKept
  <2>. QED BY <1>1, <2>1, <2>3, <2>4, <2>5 DEF PanicsAfterFailedSolve
<1>4. CASE ResetterSends
  <2>1. UNCHANGED <<main, collector, solver, inClosed, loader, closer, res, panics, displayed>>
        /\ resetter = "send" /\ resetter' = "select"
    BY <1>4 DEF ResetterSends, Log, loadVars, nodeVars
  <2>2. Log(SolveWriter) BY <1>4 DEF ResetterSends
  <2>3. fwd[SolveWriter] = "select" /\ fwd' = [fwd EXCEPT ![SolveWriter] = "forward"]
    BY <2>2 DEF Log
  <2>4. \A w \in Writers : fwd'[w] = (IF w = SolveWriter THEN "forward" ELSE fwd[w])
    BY <1>0, <2>3 DEF ProgressTypes
  <2>5. UseInv' BY <1>1, <2>1, <2>3, <2>4, WriterNames DEF UseInv, LoaderKind
  <2>6. SilentInv' BY <2>1, <2>3, <2>4, WriterNames DEF SilentInv
  <2>7. CountInv' BY <1>0, <2>2, CountLogged, WriterNames
  <2>8. ReturnInv' BY <1>1, <2>1 DEF ReturnInv
  <2>. QED BY <1>1, <2>1, <2>5, <2>6, <2>7, <2>8 DEF PanicsAfterFailedSolve
<1>5. CASE ResetterEnds
  <2>1. UNCHANGED <<main, collector, solver, fwd, loader, closer, res, displayed, logged>>
        /\ resetter = "select" /\ resetter' = "done"
    BY <1>5 DEF ResetterEnds, CloseWriter, loadVars, nodeVars, progressVars
  <2>2. UNCHANGED panics BY <1>5, <2>1 DEF ResetterEnds, CloseWriter, progressVars, UseInv
  <2>3. UseInv' BY <1>1, <2>1 DEF UseInv, LoaderKind
  <2>4. SilentInv' /\ ReturnInv' BY <1>1, <2>1 DEF SilentInv, Good, ReturnInv
  <2>5. CountInv' BY <1>0, <2>1, <2>2, CountKept
  <2>. QED BY <1>1, <2>2, <2>3, <2>4, <2>5 DEF PanicsAfterFailedSolve
<1>. QED BY <1>2, <1>3, <1>4, <1>5 DEF SolverSteps

-----------------------------------------------------------------------------
(* The collector and the watcher *)

LEMMA PipelineCollector ==
    ASSUME KnownInv, PipelineInv, Running, CollectorSteps \/ WatcherEnds \/ Cancel
    PROVE  PipelineInv'
<1> USE DEF KnownInv, PipelineInv
<1>0. ProgressTypes /\ BuildTypes BY TypeOfParts
<1>1. panics = {} /\ UNCHANGED scenario /\ main \notin {"ok", "error"} BY DEF Running
<1>2. CASE CollectorStarts
  <2>1. UNCHANGED <<main, resetter, solver, inClosed, loader, closer, res, panics, displayed, logged>>
    BY <1>2 DEF CollectorStarts, WithPrefix, loadVars, nodeVars
  <2>2. collector = "start" /\ collector' = "wait" /\ fwd' = [fwd EXCEPT ![DefaultWriter] = "start"]
    BY <1>2 DEF CollectorStarts, WithPrefix
  <2>3. \A w \in Writers : fwd'[w] = (IF w = DefaultWriter THEN "start" ELSE fwd[w])
    BY <1>0, <2>2 DEF ProgressTypes
  <2>4. fwd[DefaultWriter] = "none" BY <2>2 DEF UseInv
  <2>5. UseInv' BY <1>1, <2>1, <2>2, <2>3, WriterNames DEF UseInv, LoaderKind
  <2>6. SilentInv' BY <2>1, <2>3, WriterNames DEF SilentInv, Good
  <2>7. CountInv' BY <1>0, <2>1, <2>3, <2>4, CountKept
  <2>8. ReturnInv' BY <1>1, <2>1 DEF ReturnInv
  <2>. QED BY <1>1, <2>1, <2>5, <2>6, <2>7, <2>8 DEF PanicsAfterFailedSolve
<1>3. CASE Collects
  <2>1. UNCHANGED <<main, resetter, solver, inClosed, loader, fwd, closer, res, displayed, logged>>
    BY <1>3 DEF Collects, mwVars, loadVars, nodeVars
  <2>2. collector = "wait" /\ unsolved = 0 /\ collector' \in {"fail", "close"} BY <1>3 DEF Collects
  <2>3. \/ UNCHANGED panics
        \/ panics' = {"nil response"} /\ ImageIDFile /\ ~egErr /\ res = "nil"
    BY <1>1, <1>3 DEF Collects, CtxDone
  <2>4. UseInv' BY <1>1, <2>1, <2>2 DEF UseInv, LoaderKind
  <2>5. SilentInv' /\ ReturnInv' BY <1>1, <2>1 DEF SilentInv, Good, ReturnInv
  <2>6. CountInv'
    <3>1. CASE UNCHANGED panics BY <1>0, <2>1, <3>1, CountKept
    <3>2. CASE panics' # {} BY <3>2 DEF CountInv
    <3>. QED BY <2>3, <3>1, <3>2
  <2>7. PanicsAfterFailedSolve'
    <3>1. res = "nil" /\ ~egErr => solver = "closing" BY <2>2 DEF ResultInv
    <3>. QED BY <1>1, <2>1, <2>3, <3>1 DEF PanicsAfterFailedSolve, ImageIDFile
  <2>. QED BY <2>4, <2>5, <2>6, <2>7
<1>4. CASE CollectorEnds
  <2>1. UNCHANGED <<main, resetter, solver, fwd, loader, closer, res, displayed, logged>>
        /\ collector \in {"close", "fail"} /\ collector' = "done" /\ inClosed' = inClosed \cup {DefaultWriter}
    BY <1>4 DEF CollectorEnds, CloseWriter, loadVars, nodeVars
  <2>2. UNCHANGED panics BY <1>4, <2>1 DEF CollectorEnds, CloseWriter, LeftBehindInv, ClosedInv
  <2>3. UseInv' BY <1>1, <2>1, WriterNames DEF UseInv, LoaderKind
  <2>4. SilentInv' /\ ReturnInv' BY <1>1, <2>1 DEF SilentInv, Good, ReturnInv
  <2>5. CountInv' BY <1>0, <2>1, <2>2, CountKept
  <2>. QED BY <1>1, <2>2, <2>3, <2>4, <2>5 DEF PanicsAfterFailedSolve
<1>5. CASE WatcherEnds \/ Cancel
  <2>1. UNCHANGED <<main, collector, resetter, inClosed, solver, loader, fwd, closer, res, panics, displayed, logged>>
    BY <1>5 DEF WatcherEnds, Cancel, groupVars, loadVars, nodeVars, progressVars
  <2>2. UseInv' BY <1>1, <2>1 DEF UseInv, LoaderKind
  <2>3. SilentInv' /\ ReturnInv' BY <1>1, <2>1 DEF SilentInv, Good, ReturnInv
  <2>4. CountInv' BY <1>0, <2>1, CountKept
  <2>. QED BY <1>1, <2>1, <2>2, <2>3, <2>4 DEF PanicsAfterFailedSolve
<1>. QED BY <1>2, <1>3, <1>4, <1>5 DEF CollectorSteps

-----------------------------------------------------------------------------
(* The printer, the forwarders and the closer *)

\* After the closer has passed, what is still forwarded is of a load into docker,
\* and its solve has failed.
LEMMA LateMessage ==
    ASSUME KnownInv, PipelineInv, Running, NEW w \in Writers, fwd[w] = "forward", statusClosed
    PROVE  LoaderKind = "docker" /\ solver \in {"failed", "closing", "done"} /\ res = "nil"
<1> USE DEF KnownInv, PipelineInv
<1>1. ProgressTypes /\ BuildTypes BY TypeOfParts
<1>2. main \notin {"boot", "error"} BY DEF BootInv, Running
<1>3. closer = "done" BY <1>2 DEF LeftBehindInv, EndedInv
<1>4. PICK i \in Node : w = LoadWriter(i) BY <1>3, WriterNames DEF SilentInv
<1>5. LoaderKind = "docker" BY <1>4 DEF UseInv
<1>6. ~Good /\ solver \notin {"none", "solve"} BY <1>3, <1>4 DEF SilentInv, LeftBehindInv, LeftInv
<1>. QED BY <1>1, <1>5, <1>6 DEF Good, BuildTypes, StreamInv

LEMMA PipelineProgress ==
    ASSUME KnownInv, PipelineInv, Running, Printing \/ Forwarding
    PROVE  PipelineInv'
<1> USE DEF KnownInv, PipelineInv
<1>0. ProgressTypes /\ BuildTypes BY TypeOfParts
<1>1. panics = {} /\ UNCHANGED scenario /\ main \notin {"ok", "error"} BY DEF Running
<1>2. UNCHANGED <<main, collector, resetter, solver, loader, res>>
  BY DEF Printing, Prints, Forwarding, groupVars, buildVars, loadVars, nodeVars
<1>3. ReturnInv' BY <1>1, <1>2 DEF ReturnInv
<1>4. CASE Printing
  <2>1. UNCHANGED <<inClosed, fwd, closer, panics, displayed, logged>>
    BY <1>4 DEF Printing, Prints, PrinterEnds, mwVars
  <2>2. UseInv' BY <1>1, <1>2, <2>1 DEF UseInv, LoaderKind
  <2>3. SilentInv' BY <1>2, <2>1 DEF SilentInv, Good
  <2>4. CountInv' BY <1>0, <2>1, CountKept
  <2>. QED BY <1>1, <1>3, <2>1, <2>2, <2>3, <2>4 DEF PanicsAfterFailedSolve
<1>5. ASSUME NEW w \in Writers, ForwarderStarts(w) \/ ForwarderForwards(w) \/ ForwarderEnds(w)
      PROVE  PipelineInv'
  <2>1. UNCHANGED <<inClosed, closer>>
    BY <1>5 DEF ForwarderStarts, ForwarderForwards, ForwarderEnds
  <2>2. PICK state \in {"select", "done"} :
           /\ fwd[w] \in {"start", "select", "forward"} /\ fwd' = [fwd EXCEPT ![w] = state]
    BY <1>5 DEF ForwarderStarts, ForwarderForwards, ForwarderEnds
  <2>3. \A x \in Writers : fwd'[x] = (IF x = w THEN state ELSE fwd[x])
    BY <1>0, <2>2 DEF ProgressTypes
  <2>4. UseInv' BY <1>1, <1>2, <2>1, <2>2, <2>3, WriterNames DEF UseInv, LoaderKind
  <2>5. closer # "ready" => fwd[SolveWriter] = "done" BY DEF SilentInv
  <2>6. SilentInv'
    <3>1. fwd'[DefaultWriter] # "forward" BY <2>2, <2>3, WriterNames DEF SilentInv
    <3>2. closer' # "ready" => fwd'[SolveWriter] = "done" BY <2>1, <2>2, <2>3, <2>5, WriterNames
    <3>3. closer' # "ready" /\ Good' => \A i \in Node : fwd'[LoadWriter(i)] # "forward"
      BY <1>2, <2>1, <2>2, <2>3, WriterNames DEF SilentInv, Good
    <3>. QED BY <3>1, <3>2, <3>3 DEF SilentInv
  <2>7. CASE ForwarderForwards(w)
    <3>1. CountInv' BY <1>0, <1>1, <2>7, CountForwarded
    <3>2. \/ UNCHANGED panics
          \/ panics' = {"send on closed status"} /\ statusClosed /\ fwd[w] = "forward"
      BY <1>1, <2>7 DEF ForwarderForwards, Displays
    <3>3. PanicsAfterFailedSolve' BY <1>1, <1>2, <3>2, LateMessage DEF PanicsAfterFailedSolve, LoaderKind
    <3>. QED BY <1>3, <2>4, <2>6, <3>1, <3>3
  <2>8. CASE ForwarderStarts(w) \/ ForwarderEnds(w)
    <3>1. UNCHANGED <<panics, displayed, logged>> /\ fwd[w] # "forward"
      BY <2>8 DEF ForwarderStarts, ForwarderEnds
    <3>2. CountInv' BY <1>0, <2>2, <2>3, <3>1, CountKept
    <3>. QED BY <1>1, <1>3, <2>4, <2>6, <3>1, <3>2 DEF PanicsAfterFailedSolve
  <2>. QED BY <1>5, <2>7, <2>8
<1>6. CASE CloserWaits
  <2>1. UNCHANGED <<inClosed, fwd, panics, displayed, logged>> BY <1>6 DEF CloserWaits
  <2>2. \A w \in Writers : fwd[w] \in {"none", "done"} BY <1>6 DEF CloserWaits
  <2>3. UseInv' BY <1>1, <1>2, <2>1 DEF UseInv, LoaderKind
  <2>4. fwd[SolveWriter] # "none"
    <3>1. LeftInv' BY <1>0, LeftProgress DEF LeftBehindInv
    <3>2. closer' # "ready" BY <1>6 DEF CloserWaits
    <3>3. solver \notin {"none", "solve"} BY <1>2, <3>1, <3>2 DEF LeftInv
    <3>4. main = "wait" BY <1>0, <1>1, <3>3 DEF ResultInv, BuildTypes
    <3>. QED BY <3>4 DEF LeftBehindInv, TakenInv
  <2>5. SilentInv' BY <2>1, <2>2, <2>4, WriterNames DEF SilentInv
  <2>6. CountInv' BY <1>0, <2>1, CountKept
  <2>. QED BY <1>1, <1>3, <2>1, <2>3, <2>5, <2>6 DEF PanicsAfterFailedSolve
<1>7. CASE CloserCloses
  <2>1. UNCHANGED <<inClosed, fwd, displayed, logged>> /\ closer = "close"
    BY <1>7 DEF CloserCloses
  <2>2. ~statusClosed
    <3>1. main \notin {"boot", "error"} BY <1>1, <2>1 DEF BootInv
    <3>. QED BY <2>1, <3>1 DEF LeftBehindInv, EndedInv
  <2>3. UNCHANGED panics BY <1>7, <2>2 DEF CloserCloses, CloseStatus
  <2>4. UseInv' BY <1>1, <1>2, <2>1 DEF UseInv, LoaderKind
  <2>5. SilentInv' BY <1>2, <2>1 DEF SilentInv, Good
  <2>6. CountInv' BY <1>0, <2>1, <2>3, CountKept
  <2>. QED BY <1>1, <1>3, <2>3, <2>4, <2>5, <2>6 DEF PanicsAfterFailedSolve
<1>. QED BY <1>4, <1>5, <1>6, <1>7 DEF Forwarding, Forwarders

-----------------------------------------------------------------------------
(* The stream and the loaders *)

LEMMA PipelineLoads ==
    ASSUME KnownInv, PipelineInv, Running, Loading
    PROVE  PipelineInv'
<1> USE DEF KnownInv, PipelineInv
<1>0. ProgressTypes /\ BuildTypes /\ LoadTypes BY TypeOfParts
<1>1. panics = {} /\ UNCHANGED scenario /\ main \notin {"ok", "error"} BY DEF Running
<1>2. UNCHANGED <<main, collector, resetter, solver, res>>
  BY DEF Loading, buildVars
<1>3. ReturnInv' BY <1>1, <1>2 DEF ReturnInv
<1>4. ASSUME UNCHANGED progressVars,
             LoaderKind # "docker" =>
                \A i \in Node : loader'[i] \notin {"respond", "announce", "body", "report", "close"}
      PROVE  PipelineInv'
  <2>1. UNCHANGED <<inClosed, fwd, closer, panics, displayed, logged>> BY <1>4 DEF progressVars
  <2>2. UseInv' BY <1>1, <1>2, <1>4, <2>1 DEF UseInv, LoaderKind
  <2>3. SilentInv' BY <1>2, <2>1 DEF SilentInv, Good
  <2>4. CountInv' BY <1>0, <2>1, CountKept
  <2>. QED BY <1>1, <1>3, <2>1, <2>2, <2>3, <2>4 DEF PanicsAfterFailedSolve
<1>5. CASE Stream(Broken) /\ UNCHANGED progressVars
  <2>1. \A i \in Node : loader'[i] = loader[i] \/ loader'[i] = "load"
    BY <1>5 DEF Stream, ServerSends, ServerCloses, ServerFails, ServerSucceeds, HandlerReceives, HandlerWrites,
                HandlerStops, Close, nodeVars, handlerVars
  <2>. QED BY <1>4, <1>5, <2>1 DEF UseInv
<1>6. ASSUME NEW i \in Node, QuietLoads(i, CtxDone \/ "load" \in Faults), UNCHANGED progressVars PROVE PipelineInv'
  <2>1. \/ UNCHANGED loader
        \/ \E state \in {"failed", "unpack", "done"} : loader' = [loader EXCEPT ![i] = state]
        \/ LoaderKind = "docker"
    BY <1>6 DEF QuietLoads, ReadsToEnd, LoadFails, Imports, Unpacks, Responds, Step
  <2>2. \A j \in Node : loader'[j] \in {loader[j], "failed", "unpack", "done"} \/ LoaderKind = "docker"
    BY <1>0, <2>1 DEF LoadTypes
  <2>. QED BY <1>4, <1>6, <2>2 DEF UseInv
<1>7. ASSUME NEW i \in Node, LoggingLoads(i, CtxDone \/ "load" \in Faults) PROVE PipelineInv'
  <2>0. LoadWriter(i) \in Writers /\ LoadWriter(i) \notin {DefaultWriter, SolveWriter} BY WriterNames
  <2>1. loader[i] \in {"respond", "announce", "body", "report", "close"}
    BY <1>7 DEF LoggingLoads, Starts, Announces, BodyEnds, Reports, ClosesWriter, Step
  <2>2. LoaderKind = "docker" BY <2>1 DEF UseInv
  <2>3. UNCHANGED closer
    BY <1>7 DEF LoggingLoads, Starts, Announces, BodyEnds, Reports, ClosesWriter, WithPrefix, Log, CloseWriter, progressVars
  <2>4. fwd' = fwd \/ \E state \in {"start", "forward"} : fwd' = [fwd EXCEPT ![LoadWriter(i)] = state]
    BY <1>7 DEF LoggingLoads, Starts, Announces, BodyEnds, Reports, ClosesWriter, WithPrefix, Log, CloseWriter, progressVars
  <2>5. \A w \in Writers : w # LoadWriter(i) => fwd'[w] = fwd[w]
    BY <1>0, <2>4 DEF ProgressTypes
  <2>6. inClosed' = inClosed \/ inClosed' = inClosed \cup {LoadWriter(i)}
    BY <1>7 DEF LoggingLoads, Starts, Announces, BodyEnds, Reports, ClosesWriter, WithPrefix, Log, CloseWriter, progressVars
  <2>7. UseInv' BY <1>1, <1>2, <2>0, <2>2, <2>5, <2>6, WriterNames DEF UseInv, LoaderKind
  <2>8. ASSUME closer # "ready", Good PROVE FALSE
    BY <2>1, <2>8 DEF LeftBehindInv, LeftInv, Final
  <2>9. SilentInv' BY <1>2, <2>0, <2>3, <2>5, <2>8, WriterNames DEF SilentInv, Good
  <2>10. UNCHANGED panics
    <3>1. loader[i] # "done" BY <2>1
    <3>2. LoadWriter(i) \notin inClosed BY <3>1 DEF LeftBehindInv, ClosedInv
    <3>. QED
      BY <1>7, <3>2 DEF LoggingLoads, Starts, Announces, BodyEnds, Reports, ClosesWriter, WithPrefix, Log, CloseWriter,
                        progressVars
  <2>11. CountInv'
    <3>1. CASE Announces(i) \/ Reports(i) BY <1>0, <2>0, <3>1, CountLogged DEF Announces, Reports
    <3>2. CASE BodyEnds(i, CtxDone \/ "load" \in Faults) \/ ClosesWriter(i)
      BY <1>0, <2>10, <3>2, CountKept DEF BodyEnds, ClosesWriter, CloseWriter, progressVars
    <3>3. CASE Starts(i)
      <4>1. UNCHANGED <<displayed, logged>> BY <3>3 DEF Starts, WithPrefix, progressVars
      <4>2. fwd' = fwd \/ (fwd[LoadWriter(i)] = "none" /\ fwd' = [fwd EXCEPT ![LoadWriter(i)] = "start"])
        BY <3>3 DEF Starts, WithPrefix, progressVars
      <4>3. \A w \in Writers : fwd'[w] = fwd[w] \/ (fwd[w] = "none" /\ fwd'[w] = "start")
        BY <1>0, <2>0, <4>2 DEF ProgressTypes
      <4>. QED BY <1>0, <2>10, <4>1, <4>3, CountKept
    <3>. QED BY <1>7, <3>1, <3>2, <3>3 DEF LoggingLoads
  <2>. QED BY <1>1, <1>3, <2>7, <2>9, <2>10, <2>11 DEF PanicsAfterFailedSolve
<1>. QED BY <1>5, <1>6, <1>7 DEF Loading

-----------------------------------------------------------------------------

LEMMA PipelineStep ==
    ASSUME KnownInv, PipelineInv, [Next]_vars
    PROVE  PipelineInv'
<1>1. CASE UNCHANGED vars
  BY <1>1 DEF vars, PipelineInv, UseInv, SilentInv, CountInv, ReturnInv, PanicsAfterFailedSolve, InFlight, LoaderKind,
              ImageIDFile, Good
<1>2. CASE Next
  <2>1. Running BY <1>2 DEF Next
  <2>. QED BY <1>2, <2>1, PipelineMain, PipelineSolver, PipelineCollector, PipelineProgress, PipelineLoads DEF Next
<1>. QED BY <1>1, <1>2

LEMMA PipelineInvHolds == Spec => [](PipelineInv /\ KnownInv)
<1>1. Init => PipelineInv
  <2>1. ASSUME Init, NEW w \in Writers PROVE logged[w] = displayed[w] + InFlight(w)
    BY <2>1 DEF Init, ProgressInit, Sources, InFlight
  <2>. QED
    BY <2>1, WriterNames DEF Init, ProgressInit, LoadInit, PipelineInv, UseInv, SilentInv, CountInv, ReturnInv, PanicsAfterFailedSolve
<1>2. Spec => []LeftBehindInv BY LeftBehindInvHolds
<1>3. TypeOK /\ ResultInv /\ StreamInv /\ BootInv /\ LeftBehindInv => KnownInv BY DEF KnownInv
<1>. QED BY <1>1, <1>2, <1>3, PipelineStep, BootInvHolds, BuildTypeCorrect, PTL DEF Spec

\* Whatever fails and in whatever order, no channel is closed twice and nothing is
\* sent on a closed one, except by a docker load that goes on after its solve has
\* failed; and no result is used but the one of such a solve.
THEOREM PanicsAfterFailedSolveHolds == Spec => []PanicsAfterFailedSolve
<1>1. PipelineInv => PanicsAfterFailedSolve BY DEF PipelineInv
<1>. QED BY <1>1, PipelineInvHolds, PTL

\* All that a build's goroutines logged is displayed before it returns, and all that
\* its loads logged if it succeeded.
THEOREM NothingLostHolds == Spec => []NothingLost
<1>1. ASSUME PipelineInv, KnownInv, main = "ok" \/ (main = "error" /\ solver = "done"), NEW w \in Writers
      PROVE  displayed[w] = logged[w] \/ (main = "error" /\ w \notin {DefaultWriter, SolveWriter})
  <2>1. ProgressTypes BY <1>1, TypeOfParts DEF KnownInv
  <2>2. panics = {} /\ closer = "done" BY <1>1 DEF PipelineInv, ReturnInv
  <2>3. main = "ok" => Good BY <1>1 DEF KnownInv, ResultInv, Good
  <2>4. fwd[w] # "forward" \/ (main = "error" /\ w \notin {DefaultWriter, SolveWriter})
    BY <1>1, <2>2, <2>3, WriterNames DEF PipelineInv, SilentInv
  <2>5. logged[w] = displayed[w] + InFlight(w) /\ displayed[w] \in Nat
    BY <1>1, <2>1, <2>2 DEF PipelineInv, CountInv, ProgressTypes, Sources
  <2>. QED BY <2>4, <2>5 DEF InFlight
<1>2. PipelineInv /\ KnownInv => NothingLost BY <1>1 DEF NothingLost
<1>. QED BY <1>2, PipelineInvHolds, PTL
=============================================================================
