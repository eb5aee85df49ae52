----------------------------- MODULE BuildRunProofs -----------------------------
(***************************************************************************)
(* Theorems about a build, for any number of nodes, of messages and of       *)
(* chunks, and for every loader and every combination of failures.          *)
(***************************************************************************)
EXTENDS BuildRun, TLAPS

LEMMA WriterNames ==
    /\ DefaultWriter \in Writers /\ SolveWriter \in Writers /\ Direct \notin Writers
    /\ DefaultWriter # SolveWriter
    /\ \A i \in Node : /\ LoadWriter(i) \in Writers
                       /\ LoadWriter(i) # DefaultWriter /\ LoadWriter(i) # SolveWriter
    /\ \A i, j \in Node : LoadWriter(i) = LoadWriter(j) => i = j
    /\ \A w \in Writers : w = DefaultWriter \/ w = SolveWriter \/ \E i \in Node : w = LoadWriter(i)
BY BuildAssumption DEF DefaultWriter, SolveWriter, LoadWriter, Direct

-----------------------------------------------------------------------------
(* Types *)

LEMMA ProgressInitTypes == ProgressInit => ProgressTypes
<1>. SUFFICES ASSUME ProgressInit PROVE ProgressTypes
  OBVIOUS
<1>1. displayed \in [Sources -> Nat] /\ logged \in [Sources -> Nat] BY DEF ProgressInit
<1>2. fwd \in [Writers -> {"none", "start", "select", "forward", "done"}] BY DEF ProgressInit
<1>3. panics = {} /\ inClosed = {} BY DEF ProgressInit
<1>. QED BY <1>1, <1>2, <1>3 DEF ProgressInit, ProgressTypes

\* One message more of one source
LEMMA Counted ==
    ASSUME NEW f \in [Sources -> Nat], NEW s \in Sources
    PROVE  [f EXCEPT ![s] = @ + 1] \in [Sources -> Nat]
<1>1. f[s] + 1 \in Nat OBVIOUS
<1>. QED BY <1>1

LEMMA DisplaysTypes ==
    ASSUME ProgressTypes, NEW s \in Sources, Displays(s)
    PROVE  /\ displayed' \in [Sources -> Nat]
           /\ panics' \subseteq {"close of closed status", "send on closed status", "close of closed writer", "nil response"}
<1>1. displayed' = displayed \/ displayed' = [displayed EXCEPT ![s] = @ + 1] BY DEF Displays
<1>0. displayed \in [Sources -> Nat] BY DEF ProgressTypes
<1>2. displayed' \in [Sources -> Nat] BY <1>0, <1>1, Counted
<1>3. panics' = panics \/ panics' = panics \cup {"send on closed status"} BY DEF Displays
<1>. QED BY <1>2, <1>3 DEF ProgressTypes

LEMMA ProgressSteps ==
    ASSUME ProgressTypes
    PROVE  /\ LogDirectly => ProgressTypes'
           /\ \A ctxDone \in BOOLEAN : PrinterEnds(ctxDone) => ProgressTypes'
           /\ Forwarders => ProgressTypes'
           /\ \A w \in Writers : WithPrefix(w) \/ Log(w) \/ CloseWriter(w) => ProgressTypes'
           /\ UNCHANGED progressVars => ProgressTypes'
<1> USE DEF ProgressTypes
<1>1. ASSUME LogDirectly PROVE ProgressTypes'
  <2>1. Direct \in Sources BY DEF Sources
  <2>2. logged' \in [Sources -> Nat] BY <1>1, <2>1, Counted DEF LogDirectly
  <2>. QED BY <1>1, <2>1, <2>2, DisplaysTypes DEF LogDirectly
<1>2. ASSUME NEW ctxDone \in BOOLEAN, PrinterEnds(ctxDone) PROVE ProgressTypes'
  BY <1>2 DEF PrinterEnds, mwVars
<1>3. ASSUME NEW w \in Writers, ForwarderStarts(w) \/ ForwarderEnds(w) PROVE ProgressTypes'
  BY <1>3 DEF ForwarderStarts, ForwarderEnds
<1>4. ASSUME NEW w \in Writers, ForwarderForwards(w) PROVE ProgressTypes'
  <2>1. w \in Sources BY DEF Sources
  <2>. QED BY <1>4, <2>1, DisplaysTypes DEF ForwarderForwards
<1>5. ASSUME CloserWaits \/ CloserCloses PROVE ProgressTypes'
  BY <1>5 DEF CloserWaits, CloserCloses, CloseStatus
<1>6. ASSUME NEW w \in Writers, WithPrefix(w) PROVE ProgressTypes'
  BY <1>6 DEF WithPrefix
<1>7. ASSUME NEW w \in Writers, Log(w) PROVE ProgressTypes'
  <2>0. w \in Sources BY DEF Sources
  <2>1. logged' \in [Sources -> Nat] BY <1>7, <2>0, Counted DEF Log
  <2>. QED BY <1>7, <2>1 DEF Log
<1>8. ASSUME NEW w \in Writers, CloseWriter(w) PROVE ProgressTypes'
  BY <1>8 DEF CloseWriter
<1>9. ASSUME UNCHANGED progressVars PROVE ProgressTypes'
  BY <1>9 DEF progressVars
<1>. QED BY <1>1, <1>2, <1>3, <1>4, <1>5, <1>6, <1>7, <1>8, <1>9 DEF Forwarders

LEMMA StreamTypes ==
    ASSUME LoadTypes, UNCHANGED scenario
    PROVE  /\ ExportStarts => LoadTypes'
           /\ \A broken \in BOOLEAN : Stream(broken) => LoadTypes'
           /\ UNCHANGED loadVars => LoadTypes'
<1> USE DEF LoadTypes, handlerVars, nodeVars
<1>1. ASSUME ServerSends PROVE LoadTypes'
  <2>1. sent' \in 0 .. Chunks /\ taken' \in 0 .. sent' BY <1>1, LoadAssumption DEF ServerSends
  <2>. QED BY <1>1, <2>1 DEF ServerSends
<1>2. ASSUME ServerCloses \/ ServerFails \/ ServerSucceeds \/ ExportStarts PROVE LoadTypes'
  BY <1>2 DEF ServerCloses, ServerFails, ServerSucceeds, ExportStarts
<1>3. ASSUME HandlerReceives PROVE LoadTypes'
  <2>1. taken' \in 0 .. sent' BY <1>3, LoadAssumption DEF HandlerReceives
  <2>2. target' \in Node BY <1>3, LoadAssumption DEF HandlerReceives, Node
  <2>. QED BY <1>3, <2>1, <2>2 DEF HandlerReceives
<1>4. ASSUME HandlerWrites PROVE LoadTypes'
  <2>1. target' \in Node BY <1>4, LoadAssumption DEF HandlerWrites, Node
  <2>. QED BY <1>4, <2>1 DEF HandlerWrites
<1>5. ASSUME NEW broken \in BOOLEAN, HandlerStops(broken) \/ Close PROVE LoadTypes'
  BY <1>5 DEF HandlerStops, Close
<1>6. ASSUME UNCHANGED loadVars PROVE LoadTypes'
  BY <1>6 DEF loadVars
<1>. QED BY <1>1, <1>2, <1>3, <1>4, <1>5, <1>6 DEF Stream

LEMMA LoadSteps ==
    ASSUME LoadTypes, UNCHANGED scenario, NEW i \in Node, NEW mayFail \in BOOLEAN
    PROVE  /\ QuietLoads(i, mayFail) => LoadTypes'
           /\ LoggingLoads(i, mayFail) => LoadTypes'
<1> USE DEF LoadTypes, handlerVars, Step
<1>1. ASSUME ReadsToEnd(i) \/ LoadFails(i) PROVE LoadTypes'
  BY <1>1 DEF ReadsToEnd, LoadFails
<1>2. ASSUME Imports(i) \/ Unpacks(i) \/ Responds(i) PROVE LoadTypes'
  BY <1>2 DEF Imports, Unpacks, Responds
<1>3. ASSUME Starts(i) PROVE LoadTypes'
  BY <1>3 DEF Starts
<1>4. ASSUME Announces(i) \/ Reports(i) \/ ClosesWriter(i) PROVE LoadTypes'
  BY <1>4 DEF Announces, Reports, ClosesWriter
<1>5. ASSUME BodyEnds(i, mayFail) PROVE LoadTypes'
  BY <1>5 DEF BodyEnds
<1>. QED BY <1>1, <1>2, <1>3, <1>4, <1>5 DEF QuietLoads, LoggingLoads

BuildTypes ==
    /\ main \in {"boot", "options", "prefix", "spawn", "wait", "ok", "error"}
    /\ solver \in {"none", "solve", "succeeded", "failed", "closing", "done"}
    /\ collector \in {"none", "start", "wait", "close", "fail", "done"}
    /\ watcher \in {"none", "watch", "done"} /\ resetter \in {"none", "select", "send", "done"}
    /\ unsolved \in {0, 1} /\ res \in {"nil", "result"} /\ resp \in {"none", "nil", "result"}
    /\ idFile \in {"none", "result"} /\ egErr \in BOOLEAN

LEMMA BootSteps ==
    ASSUME BootTypes, ProgressTypes
    PROVE  /\ Boot => BootTypes' /\ ProgressTypes'
           /\ WrapLogs => BootTypes' /\ ProgressTypes'
           /\ Prints => BootTypes' /\ ProgressTypes'
           /\ UNCHANGED bootVars => BootTypes'
<1>1. UNCHANGED bootVars => BootTypes' BY DEF bootVars, BootTypes
<1>2. ASSUME Outcome PROVE err' \in BOOLEAN /\ failed' \in 0 .. MaxFailed
  <2>1. failed' = failed \/ (failed < MaxFailed /\ failed' = failed + 1) BY <1>2 DEF Outcome
  <2>2. failed' \in 0 .. MaxFailed BY <2>1, BootLogAssumption DEF BootTypes
  <2>. QED BY <1>2, <2>2 DEF Outcome
<1>3. ASSUME Loop \/ Info PROVE BootTypes' /\ ProgressTypes'
  BY <1>3, ProgressSteps DEF Loop, Info, BootTypes, Goto, Failed
<1>4. ASSUME WrapStarts \/ WrapEnds PROVE BootTypes' /\ ProgressTypes'
  BY <1>4, ProgressSteps DEF WrapStarts, WrapEnds, BootTypes, Goto
<1>5. ASSUME Works \/ Clients PROVE BootTypes' /\ ProgressTypes'
  <2>1. err' \in BOOLEAN /\ failed' \in 0 .. MaxFailed
    BY <1>2, <1>5 DEF Works, Clients, BootTypes
  <2>. QED BY <1>5, <2>1, ProgressSteps DEF Works, Clients, BootTypes, Goto
<1>6. ASSUME CloseAndDrain PROVE BootTypes' /\ ProgressTypes'
  <2>1. BootTypes' BY <1>6 DEF CloseAndDrain, BootTypes, Goto
  <2>2. CASE UNCHANGED progressVars BY <2>1, <2>2, ProgressSteps
  <2>3. CASE CloseStatus /\ UNCHANGED <<printer, displayed, mwVars>>
    BY <2>1, <2>3 DEF CloseStatus, ProgressTypes, mwVars
  <2>. QED BY <1>6, <2>2, <2>3 DEF CloseAndDrain
<1>7. ASSUME WrapLogs PROVE BootTypes' /\ ProgressTypes'
  <2>1. worked' \in 0 .. MaxLogs BY <1>7, BootLogAssumption DEF WrapLogs, BootTypes
  <2>. QED BY <1>7, <2>1, ProgressSteps DEF WrapLogs, BootTypes
<1>8. ASSUME Prints PROVE BootTypes' /\ ProgressTypes'
  <2>1. PrinterEnds(FALSE) BY <1>8, BuildAssumption DEF Prints
  <2>. QED BY <1>1, <1>8, <2>1, ProgressSteps DEF Prints
<1>. QED BY <1>1, <1>3, <1>4, <1>5, <1>6, <1>7, <1>8 DEF Boot

LEMMA TypeOfParts == TypeOK <=> ProgressTypes /\ LoadTypes /\ BootTypes /\ BuildTypes
BY DEF TypeOK, BuildTypes

LEMMA TypeStep ==
    ASSUME TypeOK, [Next]_vars
    PROVE  TypeOK'
<1>0. ProgressTypes /\ LoadTypes /\ BootTypes /\ BuildTypes BY TypeOfParts
<1>1. CASE UNCHANGED vars
  <2>1. UNCHANGED <<progressVars, scenario, loadVars, bootVars>>
    BY <1>1 DEF vars, progressVars, loadVars, handlerVars, nodeVars, bootVars
  <2>2. BuildTypes' BY <1>0, <1>1 DEF vars, BuildTypes
  <2>. QED BY <1>0, <2>1, <2>2, ProgressSteps, StreamTypes, BootSteps DEF TypeOK, BuildTypes
<1>. SUFFICES ASSUME Next PROVE ProgressTypes' /\ LoadTypes' /\ BootTypes' /\ BuildTypes'
  BY <1>1 DEF TypeOK, BuildTypes
<1>2. UNCHANGED scenario BY DEF Next, Running
<1> USE <1>0, <1>2
<1>3. ASSUME Boots \/ BootLogs PROVE ProgressTypes' /\ LoadTypes' /\ BootTypes' /\ BuildTypes'
  <2>1. LoadTypes' BY <1>3, StreamTypes DEF Boots, BootLogs
  <2>2. BuildTypes' BY <1>3 DEF Boots, BootLogs, groupVars, BuildTypes
  <2>. QED BY <1>3, <2>1, <2>2, BootSteps DEF Boots, BootLogs
<1>4. ASSUME BootReturns PROVE ProgressTypes' /\ LoadTypes' /\ BootTypes' /\ BuildTypes'
  <2>1. LoadTypes' /\ BuildTypes' BY <1>4, StreamTypes DEF BootReturns, groupVars, BuildTypes
  <2>2. CASE UNCHANGED <<progressVars, bootVars>> BY <2>1, <2>2, ProgressSteps, BootSteps
  <2>3. CASE /\ failed' = 0 /\ worked' = 0
             /\ displayed' = [displayed EXCEPT ![Direct] = 0] /\ logged' = [logged EXCEPT ![Direct] = 0]
             /\ UNCHANGED <<statusClosed, printer, fwd, inClosed, ready, closer, panics, boot, err, cancelled>>
    <3>1. BootTypes' BY <2>3, BootLogAssumption DEF BootTypes
    <3>2. displayed' \in [Sources -> Nat] /\ logged' \in [Sources -> Nat] BY <2>3 DEF ProgressTypes
    <3>3. ProgressTypes' BY <2>3, <3>2 DEF ProgressTypes
    <3>. QED BY <2>1, <3>1, <3>3
  <2>. QED BY <1>4, <2>2, <2>3 DEF BootReturns
<1>5. ASSUME OptionsFail \/ SpawnsCollector \/ SpawnsSolver \/ Returns \/ SolveLogs \/ SolveSucceeds
             \/ SolveFails("solve" \in Faults) \/ SolverDone \/ SolverReports \/ WatcherEnds
      PROVE  ProgressTypes' /\ LoadTypes' /\ BootTypes' /\ BuildTypes'
  <2>1. UNCHANGED <<progressVars, loadVars, bootVars>>
    BY <1>5 DEF OptionsFail, SpawnsCollector, SpawnsSolver, Returns, SolveLogs, SolveSucceeds, SolveFails,
                SolverDone, SolverReports, WatcherEnds
  <2>2. ProgressTypes' /\ LoadTypes' /\ BootTypes' BY <2>1, ProgressSteps, StreamTypes, BootSteps
  <2>3. BuildTypes'
    BY <1>5 DEF OptionsFail, SpawnsCollector, SpawnsSolver, Returns, SolveLogs, SolveSucceeds, SolveFails,
                SolverDone, SolverReports, WatcherEnds, groupVars, BuildTypes
  <2>. QED BY <2>2, <2>3
<1>6. ASSUME TakesWriter \/ CollectorStarts \/ ResetterSends \/ ResetterEnds \/ CollectorEnds
      PROVE  ProgressTypes' /\ LoadTypes' /\ BootTypes' /\ BuildTypes'
  <2>1. ProgressTypes'
    BY <1>6, ProgressSteps, WriterNames DEF TakesWriter, CollectorStarts, ResetterSends, ResetterEnds, CollectorEnds
  <2>2. LoadTypes' /\ BootTypes'
    BY <1>6, StreamTypes, BootSteps DEF TakesWriter, CollectorStarts, ResetterSends, ResetterEnds, CollectorEnds
  <2>3. BuildTypes'
    BY <1>6 DEF TakesWriter, CollectorStarts, ResetterSends, ResetterEnds, CollectorEnds, groupVars, BuildTypes
  <2>. QED BY <2>1, <2>2, <2>3
<1>7. ASSUME Collects PROVE ProgressTypes' /\ LoadTypes' /\ BootTypes' /\ BuildTypes'
  <2>1. LoadTypes' /\ BootTypes' BY <1>7, StreamTypes, BootSteps DEF Collects
  <2>2. BuildTypes' BY <1>7 DEF Collects, BuildTypes
  <2>3. panics' = panics \/ panics' = panics \cup {"nil response"} BY <1>7 DEF Collects
  <2>4. ProgressTypes' BY <1>7, <2>3 DEF Collects, mwVars, ProgressTypes
  <2>. QED BY <2>1, <2>2, <2>4
<1>8. ASSUME SolveExports PROVE ProgressTypes' /\ LoadTypes' /\ BootTypes' /\ BuildTypes'
  BY <1>8, ProgressSteps, StreamTypes, BootSteps DEF SolveExports, buildVars, BuildTypes
<1>9. ASSUME Cancel PROVE ProgressTypes' /\ LoadTypes' /\ BootTypes' /\ BuildTypes'
  BY <1>9, ProgressSteps, StreamTypes DEF Cancel, groupVars, BuildTypes, BootTypes
<1>10. ASSUME Printing PROVE ProgressTypes' /\ LoadTypes' /\ BootTypes' /\ BuildTypes'
  BY <1>10, StreamTypes, BootSteps DEF Printing, groupVars, BuildTypes
<1>11. ASSUME Forwarding PROVE ProgressTypes' /\ LoadTypes' /\ BootTypes' /\ BuildTypes'
  BY <1>11, ProgressSteps, StreamTypes, BootSteps DEF Forwarding, buildVars, BuildTypes
<1>12. Broken \in BOOLEAN /\ (CtxDone \/ "load" \in Faults) \in BOOLEAN
  BY DEF Broken, CtxDone
<1>13. ASSUME Stream(Broken) /\ UNCHANGED <<progressVars, buildVars>>
       PROVE  ProgressTypes' /\ LoadTypes' /\ BootTypes' /\ BuildTypes'
  BY <1>12, <1>13, ProgressSteps, StreamTypes, BootSteps DEF buildVars, BuildTypes
<1>14. ASSUME NEW i \in Node, QuietLoads(i, CtxDone \/ "load" \in Faults), UNCHANGED <<progressVars, buildVars>>
       PROVE  ProgressTypes' /\ LoadTypes' /\ BootTypes' /\ BuildTypes'
  <2>1. LoadTypes' BY <1>12, <1>14, LoadSteps
  <2>2. BootTypes' /\ BuildTypes' BY <1>14, BootSteps DEF buildVars, BuildTypes
  <2>. QED BY <1>14, <2>1, <2>2, ProgressSteps
<1>15. ASSUME NEW i \in Node, LoggingLoads(i, CtxDone \/ "load" \in Faults), UNCHANGED buildVars
       PROVE  ProgressTypes' /\ LoadTypes' /\ BootTypes' /\ BuildTypes'
  <2>1. LoadTypes' BY <1>12, <1>15, LoadSteps
  <2>2. BootTypes' /\ BuildTypes' BY <1>15, BootSteps DEF buildVars, BuildTypes
  <2>3. ProgressTypes'
    BY <1>15, ProgressSteps, WriterNames DEF LoggingLoads, Starts, Announces, BodyEnds, Reports, ClosesWriter
  <2>. QED BY <2>1, <2>2, <2>3
<1>. QED BY <1>3, <1>4, <1>5, <1>6, <1>7, <1>8, <1>9, <1>10, <1>11, <1>13, <1>14, <1>15
         DEF Next, MainSteps, SolverSteps, CollectorSteps, Loading

\* Every variable of a build keeps its type.
THEOREM BuildTypeCorrect == Spec => []TypeOK
<1>1. Init => ProgressTypes /\ LoadTypes /\ BootTypes /\ BuildTypes
  <2>. SUFFICES ASSUME Init PROVE ProgressTypes /\ LoadTypes /\ BootTypes /\ BuildTypes
    OBVIOUS
  <2>1. 0 \in 0 .. Chunks /\ 0 \in 0 .. sent /\ 1 \in Node BY LoadAssumption DEF Init, LoadInit, Node
  <2>2. LoadTypes BY <2>1 DEF Init, LoadInit, LoadTypes
  <2>3. 0 \in 0 .. MaxFailed /\ 0 \in 0 .. MaxLogs BY BootLogAssumption
  <2>4. BootTypes BY <2>3 DEF Init, BootInit, BootTypes
  <2>5. BuildTypes BY DEF Init, BuildTypes
  <2>. QED BY <2>2, <2>4, <2>5, ProgressInitTypes DEF Init
<1>2. Init => TypeOK BY <1>1, TypeOfParts
<1>. QED BY <1>2, TypeStep, PTL DEF Spec

-----------------------------------------------------------------------------
(* The result *)

\* A collector that found no result did so while its solver was reporting the
\* error: the errgroup knows of it before Build may return.
ResultInv ==
    /\ main \in {"boot", "options", "prefix", "spawn"} => solver = "none" /\ unsolved = 1
    /\ unsolved = 0 => solver \in {"closing", "done"}
    /\ solver = "done" => egErr \/ res = "result"
    /\ collector \in {"close", "done"} =>
          egErr \/ solver = "closing" \/ (resp = "result" /\ (ImageIDFile => idFile = "result"))
    /\ main = "ok" => ~egErr /\ solver = "done" /\ collector = "done"

\* What most steps leave alone, and where the others begin
LEMMA GroupStep ==
    ASSUME Next
    PROVE  \/ OptionsFail \/ SpawnsCollector \/ SpawnsSolver \/ Returns \/ BootReturns \/ TakesWriter
           \/ SolveSucceeds \/ SolveFails("solve" \in Faults) \/ SolverDone \/ SolverReports
           \/ CollectorStarts \/ Collects \/ CollectorEnds
           \/ UNCHANGED <<main, solver, collector, unsolved, res, resp, idFile, egErr>>
BY DEF Next, MainSteps, SolverSteps, CollectorSteps, Loading, Boots, BootLogs, SolveLogs, SolveExports, ResetterSends,
       ResetterEnds, WatcherEnds, Cancel, Printing, Forwarding, groupVars, buildVars

LEMMA ResultStep ==
    ASSUME TypeOK, ResultInv, [Next]_vars
    PROVE  ResultInv'
<1> USE DEF ResultInv
<1>1. CASE UNCHANGED vars BY <1>1 DEF vars, ImageIDFile
<1>. SUFFICES ASSUME Next PROVE ResultInv'
  BY <1>1
<1>2. UNCHANGED ImageIDFile /\ main \notin {"ok", "error"} BY DEF Next, Running, ImageIDFile
<1>3. BuildTypes BY TypeOfParts
<1>4. CASE OptionsFail \/ BootReturns \/ TakesWriter \/ SpawnsCollector
  BY <1>2, <1>4 DEF OptionsFail, BootReturns, TakesWriter, SpawnsCollector, groupVars
<1>5. CASE SpawnsSolver BY <1>2, <1>5 DEF SpawnsSolver
<1>6. CASE Returns BY <1>2, <1>3, <1>6 DEF Returns, groupVars, BuildTypes
<1>7. CASE SolveSucceeds \/ SolveFails("solve" \in Faults)
  BY <1>2, <1>7 DEF SolveSucceeds, SolveFails
<1>8. CASE SolverDone BY <1>2, <1>3, <1>8 DEF SolverDone, BuildTypes
<1>9. CASE SolverReports BY <1>2, <1>9 DEF SolverReports
<1>10. CASE CollectorStarts BY <1>2, <1>10 DEF CollectorStarts
<1>11. CASE Collects BY <1>2, <1>3, <1>11 DEF Collects, BuildTypes, CtxDone
<1>12. CASE CollectorEnds BY <1>2, <1>3, <1>12 DEF CollectorEnds, BuildTypes
<1>13. CASE UNCHANGED <<main, solver, collector, unsolved, res, resp, idFile, egErr>>
  BY <1>2, <1>13
<1>. QED BY <1>4, <1>5, <1>6, <1>7, <1>8, <1>9, <1>10, <1>11, <1>12, <1>13, GroupStep

LEMMA ResultInvHolds == Spec => []ResultInv
<1>1. Init => ResultInv BY DEF Init, ResultInv
<1>. QED BY <1>1, ResultStep, BuildTypeCorrect, PTL DEF Spec

\* Build returns nil only with the result of its solve, in the image id file too
\* if there is one, although wg.Done runs before the errgroup learns of an error.
THEOREM ResultOnSuccessHolds == Spec => []ResultOnSuccess
<1>1. ResultInv => ResultOnSuccess BY DEF ResultInv, ResultOnSuccess
<1>. QED BY <1>1, ResultInvHolds, PTL

-----------------------------------------------------------------------------
(* The image load *)

\* The solve has succeeded.
Good == solver = "succeeded" \/ (solver = "done" /\ res = "result")

\* No solve succeeds before its export has, and no export before waitingWriter.Close
\* has seen every loader past the point where it closes its started channel.
StreamInv ==
    /\ solver \in {"none", "solve", "failed", "closing"} => res = "nil"
    /\ solver = "none" \/ LoaderKind = "none" => handler = "idle"
    /\ handler = "idle" => server = "idle" /\ \A i \in Node : loader[i] = "none"
    /\ server = "idle" => handler = "idle"
    /\ handler = "returned" => started = Node
    /\ server = "succeeded" => handler = "returned"
    /\ \A i \in started : loader[i] \in {"announce", "body", "report", "close", "done", "failed"}
    /\ Good => LoaderKind = "none" \/ server = "succeeded"

LEMMA StreamInvStep ==
    ASSUME TypeOK, ResultInv, StreamInv, [Next]_vars
    PROVE  StreamInv'
<1> USE DEF StreamInv
<1>0. LoadTypes /\ BuildTypes BY TypeOfParts
<1>1. CASE UNCHANGED vars BY <1>1 DEF vars, LoaderKind, Good
<1>. SUFFICES ASSUME Next PROVE StreamInv'
  BY <1>1
<1>2. UNCHANGED LoaderKind BY DEF Next, Running, LoaderKind
<1>3. ASSUME UNCHANGED <<solver, res, loadVars>> PROVE StreamInv'
  BY <1>2, <1>3 DEF loadVars, handlerVars, nodeVars, Good
<1>4. CASE SpawnsSolver \/ SolveFails("solve" \in Faults) \/ SolverReports
  <2>1. UNCHANGED <<res, server, handler, loader, started>>
    BY <1>4 DEF SpawnsSolver, SolveFails, SolverReports, loadVars, handlerVars, nodeVars
  <2>2. <<solver, solver'>> \in {<<"none", "solve">>, <<"solve", "failed">>, <<"closing", "done">>}
    BY <1>4 DEF SpawnsSolver, SolveFails, SolverReports, ResultInv
  <2>. QED BY <1>2, <2>1, <2>2 DEF Good
<1>5. CASE SolveSucceeds \/ SolverDone
  BY <1>0, <1>2, <1>5 DEF SolveSucceeds, SolverDone, BuildTypes, loadVars, handlerVars, nodeVars, Good
<1>6. CASE SolveExports
  BY <1>0, <1>2, <1>6 DEF SolveExports, ExportStarts, buildVars, nodeVars, Good
<1>7. CASE Stream(Broken) /\ UNCHANGED buildVars
  <2>1. UNCHANGED <<solver, res>> BY <1>7 DEF buildVars
  <2>2. CASE ServerSends \/ ServerCloses \/ ServerFails \/ ServerSucceeds
    BY <1>0, <1>2, <2>1, <2>2 DEF ServerSends, ServerCloses, ServerFails, ServerSucceeds, handlerVars, nodeVars, Good
  <2>3. CASE HandlerReceives
    BY <1>0, <1>2, <2>1, <2>3 DEF HandlerReceives, Good, LoadTypes
  <2>4. CASE HandlerWrites \/ HandlerStops(Broken) \/ Close
    BY <1>0, <1>2, <2>1, <2>4 DEF HandlerWrites, HandlerStops, Close, nodeVars, Good
  <2>. QED BY <1>7, <2>2, <2>3, <2>4 DEF Stream
<1>8. ASSUME NEW i \in Node, UNCHANGED buildVars,
             QuietLoads(i, CtxDone \/ "load" \in Faults) \/ LoggingLoads(i, CtxDone \/ "load" \in Faults)
      PROVE  StreamInv'
  <2>1. UNCHANGED <<solver, res>> BY <1>8 DEF buildVars
  <2>2. /\ UNCHANGED <<server, sent, handler, taken, target, wclosed>> /\ started \subseteq started'
        /\ \A j \in Node : loader[j] = "none" => loader'[j] = "none"
        /\ \A j \in Node : loader[j] \in {"announce", "body", "report", "close", "done", "failed"}
                           => loader'[j] \in {"announce", "body", "report", "close", "done", "failed"}
        /\ \A j \in started' \ started : loader'[j] \in {"announce", "body", "report", "close", "done", "failed"}
        /\ started' \subseteq Node
    BY <1>0, <1>8 DEF QuietLoads, LoggingLoads, ReadsToEnd, LoadFails, Imports, Unpacks, Responds, Starts, Announces,
                      BodyEnds, Reports, ClosesWriter, Step, handlerVars, LoadTypes
  <2>. QED BY <1>0, <1>2, <2>1, <2>2 DEF Good, LoadTypes
<1>9. CASE MainSteps \/ BootLogs \/ SolveLogs \/ ResetterSends \/ ResetterEnds \/ CollectorSteps
           \/ WatcherEnds \/ Cancel \/ Printing \/ Forwarding
  <2>1. SpawnsSolver \/ UNCHANGED <<solver, res, loadVars>>
    BY <1>9 DEF MainSteps, CollectorSteps, Boots, BootLogs, BootReturns, OptionsFail, SpawnsCollector, TakesWriter,
       Returns, SolveLogs, ResetterSends, ResetterEnds, CollectorStarts, Collects, CollectorEnds,
       WatcherEnds, Cancel, Printing, Forwarding, groupVars, buildVars
  <2>. QED BY <2>1, <1>3, <1>4
<1>10. CASE SolverSteps("solve" \in Faults) BY <1>10, <1>4, <1>5, <1>6 DEF SolverSteps
<1>11. CASE Loading BY <1>11, <1>7, <1>8 DEF Loading
<1>. QED BY <1>9, <1>10, <1>11 DEF Next

LEMMA StreamInvHolds == Spec => []StreamInv
<1>1. Init => StreamInv BY DEF Init, LoadInit, StreamInv, Good
<1>. QED BY <1>1, StreamInvStep, ResultInvHolds, BuildTypeCorrect, PTL DEF Spec

-----------------------------------------------------------------------------
(* The boot *)

\* Until Build has its drivers nothing but Boot uses the progress, and Boot only
\* while its status channel is open.
BootInv ==
    /\ main = "boot" => /\ \A w \in Writers : fwd[w] = "none"
                        /\ closer = "ready" /\ ~ready /\ panics = {}
                        /\ collector = "none" /\ resetter = "none" /\ watcher = "none"
                        /\ boot \notin {"drain", "failed"} => ~statusClosed
    /\ main \notin {"boot", "error"} => boot = "booted"
    /\ boot = "failed" => printer = "done" /\ panics = {}
    /\ displayed[Direct] = logged[Direct]

\* The writers of a MultiWriter do not touch the printer's direct source.
LEMMA WritersAreNotDirect ==
    ASSUME ProgressTypes, NEW w \in Writers,
           Forwarders \/ WithPrefix(w) \/ Log(w) \/ CloseWriter(w) \/ PrinterEnds(FALSE) \/ UNCHANGED progressVars
    PROVE  displayed'[Direct] = displayed[Direct] /\ logged'[Direct] = logged[Direct]
<1>1. ASSUME NEW x \in Writers, ForwarderForwards(x)
      PROVE  displayed'[Direct] = displayed[Direct] /\ logged'[Direct] = logged[Direct]
  BY <1>1, WriterNames DEF ForwarderForwards, Displays, ProgressTypes, Sources
<1>2. CASE Log(w) BY <1>2, WriterNames DEF Log, ProgressTypes, Sources
<1>3. CASE UNCHANGED progressVars BY <1>3 DEF progressVars
<1>4. CASE WithPrefix(w) \/ CloseWriter(w) \/ PrinterEnds(FALSE)
  BY <1>4 DEF WithPrefix, CloseWriter, PrinterEnds, mwVars
<1>5. CASE Forwarders
  BY <1>1, <1>5 DEF Forwarders, ForwarderStarts, ForwarderEnds, CloserWaits, CloserCloses
<1>. QED BY <1>2, <1>3, <1>4, <1>5

LEMMA OnlyBoots ==
    ASSUME StreamInv, ResultInv, BootInv, Next, main = "boot"
    PROVE  Boots \/ BootLogs \/ BootReturns \/ Cancel \/ Printing
<1>1. solver = "none" /\ handler = "idle" /\ server = "idle" /\ \A i \in Node : loader[i] = "none"
  BY DEF StreamInv, ResultInv
<1>2. ~(OptionsFail \/ SpawnsCollector \/ TakesWriter \/ SpawnsSolver \/ Returns)
  BY DEF OptionsFail, SpawnsCollector, TakesWriter, SpawnsSolver, Returns
<1>3. ~(SolveLogs \/ SolverSteps("solve" \in Faults) \/ ResetterSends \/ ResetterEnds)
  BY <1>1 DEF SolveLogs, SolverSteps, SolveExports, SolveSucceeds, SolveFails, SolverDone, SolverReports, ResetterSends,
              ResetterEnds, BootInv
<1>4. ~(CollectorSteps \/ WatcherEnds)
  BY DEF CollectorSteps, CollectorStarts, Collects, CollectorEnds, WatcherEnds, BootInv
<1>5. ~Forwarding
  BY DEF Forwarding, Forwarders, ForwarderStarts, ForwarderForwards, ForwarderEnds, CloserWaits, CloserCloses, BootInv
<1>6. ~Stream(Broken)
  BY <1>1 DEF Stream, ServerSends, ServerCloses, ServerFails, ServerSucceeds, HandlerReceives, HandlerWrites,
              HandlerStops, Close
<1>7. ASSUME NEW i \in Node PROVE ~QuietLoads(i, CtxDone \/ "load" \in Faults)
  BY <1>1 DEF QuietLoads, ReadsToEnd, LoadFails, Imports, Unpacks, Responds, Step
<1>8. ASSUME NEW i \in Node PROVE ~LoggingLoads(i, CtxDone \/ "load" \in Faults)
  BY <1>1 DEF LoggingLoads, Starts, Announces, BodyEnds, Reports, ClosesWriter, Step
<1>. QED BY <1>2, <1>3, <1>4, <1>5, <1>6, <1>7, <1>8 DEF Next, MainSteps, Loading

LEMMA BootInvStep ==
    ASSUME TypeOK, StreamInv, ResultInv, BootInv, [Next]_vars
    PROVE  BootInv'
<1>0. ProgressTypes /\ BootTypes BY TypeOfParts
<1>1. CASE UNCHANGED vars BY <1>1 DEF vars, BootInv
<1>. SUFFICES ASSUME Next PROVE BootInv'
  BY <1>1
<1>2. CASE main = "boot"
  <2>1. CASE Boots
    <3>1. UNCHANGED <<main, collector, resetter, watcher>> BY <2>1 DEF Boots, groupVars
    <3>2. CASE Loop \/ Info \/ Works \/ Clients
      BY <1>2, <3>1, <3>2, BuildAssumption DEF Loop, Info, Works, Clients, Goto, Failed, progressVars, BootInv
    <3>3. CASE WrapStarts \/ WrapEnds
      <4>1. Direct \in Sources BY DEF Sources
      <4>2. LogDirectly /\ ~statusClosed /\ boot' \notin {"drain", "failed"}
        BY <1>2, <3>3 DEF WrapStarts, WrapEnds, Goto, BootInv
      <4>. QED BY <1>0, <1>2, <3>1, <4>1, <4>2 DEF LogDirectly, Displays, ProgressTypes, BootInv
    <3>4. CASE CloseAndDrain
      <4>1. CASE boot = "close" /\ CloseStatus /\ Goto("drain") /\ UNCHANGED <<printer, displayed, mwVars>>
        BY <1>2, <3>1, <4>1 DEF CloseStatus, Goto, mwVars, BootInv
      <4>2. CASE boot = "drain" /\ printer = "done" /\ Goto("failed") /\ UNCHANGED progressVars
        BY <1>2, <3>1, <4>2 DEF Goto, progressVars, BootInv
      <4>. QED BY <3>4, <4>1, <4>2 DEF CloseAndDrain
    <3>. QED BY <2>1, <3>2, <3>3, <3>4 DEF Boots, Boot
  <2>2. CASE BootLogs
    <3>1. Direct \in Sources BY DEF Sources
    <3>. QED BY <1>0, <1>2, <2>2, <3>1 DEF BootLogs, WrapLogs, groupVars, LogDirectly, Displays, ProgressTypes, BootInv
  <2>3. CASE BootReturns
    <3>1. Direct \in Sources BY DEF Sources
    <3>. QED BY <1>0, <1>2, <2>3, <3>1 DEF BootReturns, progressVars, bootVars, ProgressTypes, BootInv
  <2>4. CASE Cancel BY <1>2, <2>4 DEF Cancel, progressVars, groupVars, BootInv
  <2>5. CASE Printing
    BY <1>2, <2>5 DEF Printing, Prints, PrinterEnds, bootVars, mwVars, groupVars, BootInv
  <2>. QED BY <1>2, <2>1, <2>2, <2>3, <2>4, <2>5, OnlyBoots
<1>3. CASE main # "boot"
  <2>1. main \notin {"boot", "error"} /\ boot = "booted" BY <1>3 DEF Next, Running, BootInv
  <2>2. main' # "boot" /\ UNCHANGED boot
    BY <1>3 DEF Next, MainSteps, SolverSteps, CollectorSteps, Loading, Boots, BootLogs, BootReturns, OptionsFail,
       SpawnsCollector, TakesWriter, SpawnsSolver, Returns, SolveLogs, SolveExports, SolveSucceeds, SolveFails,
       SolverDone, SolverReports, ResetterSends, ResetterEnds, CollectorStarts, Collects, CollectorEnds,
       WatcherEnds, Cancel, Printing, Prints, Forwarding, groupVars, buildVars, bootVars
  <2>3. displayed'[Direct] = displayed[Direct] /\ logged'[Direct] = logged[Direct]
    <3>1. CASE UNCHANGED <<displayed, logged>> BY <3>1
    <3>2. CASE Printing
      BY <1>0, <3>2, BuildAssumption, WriterNames, WritersAreNotDirect DEF Printing, Prints
    <3>3. CASE Forwarding BY <1>0, <3>3, WriterNames, WritersAreNotDirect DEF Forwarding
    <3>4. CASE TakesWriter \/ CollectorStarts \/ ResetterSends \/ ResetterEnds \/ CollectorEnds
      BY <1>0, <3>4, WriterNames, WritersAreNotDirect
      DEF TakesWriter, CollectorStarts, ResetterSends, ResetterEnds, CollectorEnds
    <3>5. ASSUME NEW i \in Node, LoggingLoads(i, CtxDone \/ "load" \in Faults)
          PROVE  displayed'[Direct] = displayed[Direct] /\ logged'[Direct] = logged[Direct]
      BY <1>0, <3>5, WriterNames, WritersAreNotDirect
      DEF LoggingLoads, Starts, Announces, BodyEnds, Reports, ClosesWriter
    <3>6. CASE MainSteps \/ SolveLogs \/ SolverSteps("solve" \in Faults) \/ CollectorSteps \/ WatcherEnds \/ Cancel
      <4>1. TakesWriter \/ CollectorStarts \/ CollectorEnds \/ UNCHANGED <<displayed, logged>>
        BY <1>3, <3>6 DEF MainSteps, SolverSteps, CollectorSteps, Boots, BootReturns, OptionsFail,
           SpawnsCollector, SpawnsSolver, Returns, SolveLogs, SolveExports, SolveSucceeds, SolveFails,
           SolverDone, SolverReports, Collects, WatcherEnds, Cancel, progressVars, mwVars
      <4>. QED BY <3>1, <3>4, <4>1
    <3>7. CASE Loading BY <3>1, <3>5, <3>7 DEF Loading, progressVars
    <3>8. ~BootLogs BY <1>3 DEF BootLogs
    <3>. QED BY <3>2, <3>3, <3>4, <3>6, <3>7, <3>8 DEF Next
  <2>. QED BY <2>1, <2>2, <2>3 DEF BootInv
<1>. QED BY <1>2, <1>3

LEMMA BootInvHolds == Spec => [](BootInv /\ StreamInv /\ ResultInv)
<1>1. Init => BootInv
  BY WriterNames DEF Init, ProgressInit, BootInit, LoadInit, BootInv, Sources
<1>. QED BY <1>1, BootInvStep, StreamInvHolds, ResultInvHolds, BuildTypeCorrect, PTL DEF Spec

\* A build whose boot failed has displayed every message before it returns.
THEOREM DrainedBeforeErrorHolds == Spec => []DrainedBeforeError
<1>1. BootInv => DrainedBeforeError BY DEF BootInv, DrainedBeforeError
<1>. QED BY <1>1, BootInvHolds, PTL

-----------------------------------------------------------------------------
(* No load is left behind *)

Final == {"none", "done", "failed"}

\* Who closes a writer is past the point where it matters.
ClosedInv ==
    /\ main \in {"boot", "options"} => collector = "none"
    /\ collector \in {"close", "fail", "done"} => unsolved = 0
    /\ DefaultWriter \in inClosed => collector = "done"
    /\ SolveWriter \in inClosed => solver \notin {"none", "solve"}
    /\ \A i \in Node : LoadWriter(i) \in inClosed => loader[i] = "done"

\* A loader takes its writer before it closes its started channel.
TakenInv ==
    /\ main \in {"spawn", "wait", "ok"} => fwd[SolveWriter] # "none"
    /\ \A i \in Node : loader[i] \in {"announce", "body", "report", "close"} => fwd[LoadWriter(i)] # "none"

\* A forwarder that has ended was closed, or its printer was; the printer ends
\* when the channel that the closer closes is closed.
EndedInv ==
    /\ \A w \in Writers : fwd[w] = "done" => w \in inClosed \/ printer = "done"
    /\ ready => \E w \in Writers : fwd[w] # "none"
    /\ printer = "done" => statusClosed
    /\ statusClosed => closer = "done" \/ main \in {"boot", "error"}
    /\ watcher = "done" => printer = "done"
    /\ main = "ok" => watcher = "done"

\* The closer does not get past the forwarders before the solve is over, nor, when
\* the solve has succeeded, before the loads are.
LeftInv ==
    /\ closer # "ready" => solver \notin {"none", "solve"}
    /\ closer # "ready" /\ Good => \A i \in Node : loader[i] \in Final

LeftBehindInv == ClosedInv /\ TakenInv /\ EndedInv /\ LeftInv

\* The main goroutine, until it waits for the others
LEMMA LeftMain ==
    ASSUME TypeOK, ResultInv, BootInv, LeftBehindInv, Running, UNCHANGED scenario, MainSteps \/ BootLogs
    PROVE  LeftBehindInv'
<1> USE DEF LeftBehindInv, ClosedInv, TakenInv, EndedInv, LeftInv
<1>0. ProgressTypes /\ BuildTypes BY TypeOfParts
<1>1. CASE Boots \/ BootLogs
  <2>1. main = "boot" /\ UNCHANGED <<main, collector, unsolved, inClosed, solver, loader, fwd, printer, ready, closer, watcher, res>>
    BY <1>1 DEF Boots, BootLogs, Boot, Loop, Info, WrapStarts, Works, WrapEnds, WrapLogs, Clients, CloseAndDrain,
                LogDirectly, groupVars, loadVars, nodeVars, progressVars, mwVars
  <2>2. statusClosed => statusClosed'
    BY <1>1 DEF Boots, BootLogs, Boot, Loop, Info, WrapStarts, Works, WrapEnds, WrapLogs, Clients, CloseAndDrain,
                CloseStatus, LogDirectly, progressVars
  <2>. QED BY <2>1, <2>2 DEF Good
<1>2. CASE BootReturns
  <2>1. UNCHANGED <<collector, unsolved, inClosed, solver, loader, fwd, printer, ready, closer, watcher, res, statusClosed>>
    BY <1>2 DEF BootReturns, groupVars, loadVars, nodeVars, progressVars
  <2>2. main' = "error" \/ (main' = "options" /\ ~statusClosed /\ collector = "none")
    BY <1>2 DEF BootReturns, BootInv
  <2>. QED BY <2>1, <2>2 DEF Good
<1>3. CASE OptionsFail \/ Returns
  <2>1. UNCHANGED <<collector, unsolved, inClosed, solver, loader, fwd, printer, ready, closer, watcher, res, statusClosed>>
    BY <1>3 DEF OptionsFail, Returns, groupVars, loadVars, nodeVars, progressVars
  <2>2. main' \in {"error", "ok"} /\ (main' = "ok" => main = "wait" /\ watcher = "done") /\ main # "boot"
    BY <1>3 DEF OptionsFail, Returns
  <2>. QED BY <2>1, <2>2 DEF Good, Running
<1>4. CASE SpawnsCollector
  BY <1>4 DEF SpawnsCollector, loadVars, nodeVars, progressVars, Good
<1>5. CASE TakesWriter
  <2>1. UNCHANGED <<collector, unsolved, inClosed, solver, loader, printer, ready, closer, watcher, res, statusClosed>>
    BY <1>5 DEF TakesWriter, WithPrefix, groupVars, loadVars, nodeVars
  <2>2. fwd' = [fwd EXCEPT ![SolveWriter] = "start"] /\ main = "prefix" /\ main' = "spawn"
    BY <1>5 DEF TakesWriter, WithPrefix
  <2>3. \A w \in Writers : fwd'[w] = (IF w = SolveWriter THEN "start" ELSE fwd[w])
    BY <1>0, <2>2 DEF ProgressTypes
  <2>. QED BY <2>1, <2>2, <2>3, WriterNames DEF Good
<1>6. CASE SpawnsSolver
  <2>1. UNCHANGED <<collector, unsolved, inClosed, loader, fwd, printer, ready, closer, res, statusClosed>>
    BY <1>6 DEF SpawnsSolver, loadVars, nodeVars, progressVars
  <2>2. main = "spawn" /\ main' = "wait" /\ solver = "none" /\ solver' = "solve" /\ watcher' = "watch"
    BY <1>6 DEF SpawnsSolver, ResultInv
  <2>. QED BY <2>1, <2>2 DEF Good
<1>. QED BY <1>1, <1>2, <1>3, <1>4, <1>5, <1>6 DEF MainSteps

\* The solver and ResetTime
LEMMA LeftSolver ==
    ASSUME TypeOK, ResultInv, StreamInv, LeftBehindInv,
           SolveLogs \/ SolverSteps("solve" \in Faults) \/ ResetterSends \/ ResetterEnds
    PROVE  LeftBehindInv'
<1> USE DEF LeftBehindInv, ClosedInv, TakenInv, EndedInv, LeftInv
<1>0. ProgressTypes /\ BuildTypes BY TypeOfParts
<1>1. CASE SolveLogs \/ SolveExports
  BY <1>1 DEF SolveLogs, SolveExports, ExportStarts, buildVars, loadVars, nodeVars, progressVars, Good
<1>2. CASE SolveSucceeds \/ SolveFails("solve" \in Faults) \/ SolverDone \/ SolverReports
  <2>1. UNCHANGED <<main, collector, inClosed, loader, fwd, printer, ready, closer, watcher, statusClosed>>
    BY <1>2 DEF SolveSucceeds, SolveFails, SolverDone, SolverReports, loadVars, nodeVars, progressVars
  <2>2. solver \notin {"none"} /\ solver' \notin {"none", "solve"} /\ (unsolved = 0 => unsolved' = 0)
    BY <1>2 DEF SolveSucceeds, SolveFails, SolverDone, SolverReports
  <2>3. Good' /\ closer # "ready" => Good
    BY <1>2 DEF SolveSucceeds, SolveFails, SolverDone, SolverReports, Good, StreamInv
  <2>. QED BY <2>1, <2>2, <2>3
<1>3. CASE ResetterSends
  <2>1. UNCHANGED <<main, collector, unsolved, inClosed, solver, loader, printer, ready, closer, watcher, res, statusClosed>>
    BY <1>3 DEF ResetterSends, Log, loadVars, nodeVars
  <2>2. fwd[SolveWriter] = "select" /\ fwd' = [fwd EXCEPT ![SolveWriter] = "forward"]
    BY <1>3 DEF ResetterSends, Log
  <2>3. \A w \in Writers : fwd'[w] = (IF w = SolveWriter THEN "forward" ELSE fwd[w])
    BY <1>0, <2>2 DEF ProgressTypes
  <2>. QED BY <2>1, <2>2, <2>3, WriterNames DEF Good
<1>4. CASE ResetterEnds
  <2>1. UNCHANGED <<main, collector, unsolved, fwd, solver, loader, printer, ready, closer, watcher, res, statusClosed>>
    BY <1>4 DEF ResetterEnds, CloseWriter, loadVars, nodeVars, progressVars
  <2>2. inClosed' = inClosed \/ (inClosed' = inClosed \cup {SolveWriter} /\ solver \notin {"none", "solve"})
    BY <1>4 DEF ResetterEnds, CloseWriter, progressVars
  <2>. QED BY <2>1, <2>2, WriterNames DEF Good
<1>. QED BY <1>1, <1>2, <1>3, <1>4 DEF SolverSteps

\* The collector and the watcher
LEMMA LeftCollector ==
    ASSUME TypeOK, ResultInv, LeftBehindInv, CollectorSteps \/ WatcherEnds \/ Cancel
    PROVE  LeftBehindInv'
<1> USE DEF LeftBehindInv, ClosedInv, TakenInv, EndedInv, LeftInv
<1>0. ProgressTypes /\ BuildTypes BY TypeOfParts
<1>1. CASE CollectorStarts
  <2>1. UNCHANGED <<main, unsolved, inClosed, solver, loader, printer, ready, closer, watcher, res, statusClosed>>
    BY <1>1 DEF CollectorStarts, WithPrefix, loadVars, nodeVars
  <2>2. fwd' = [fwd EXCEPT ![DefaultWriter] = "start"] /\ collector = "start" /\ collector' = "wait"
    BY <1>1 DEF CollectorStarts, WithPrefix
  <2>3. \A w \in Writers : fwd'[w] = (IF w = DefaultWriter THEN "start" ELSE fwd[w])
    BY <1>0, <2>2 DEF ProgressTypes
  <2>. QED BY <2>1, <2>2, <2>3, WriterNames DEF Good
<1>2. CASE Collects
  <2>1. UNCHANGED <<main, unsolved, inClosed, solver, loader, fwd, printer, ready, closer, watcher, res, statusClosed>>
    BY <1>2 DEF Collects, mwVars, loadVars, nodeVars
  <2>2. collector = "wait" /\ unsolved = 0 /\ collector' \in {"fail", "close"} BY <1>2 DEF Collects
  <2>. QED BY <2>1, <2>2 DEF Good
<1>3. CASE CollectorEnds
  <2>1. UNCHANGED <<main, unsolved, fwd, solver, loader, printer, ready, closer, watcher, res, statusClosed>>
    BY <1>3 DEF CollectorEnds, CloseWriter, loadVars, nodeVars
  <2>2. inClosed' = inClosed \cup {DefaultWriter} /\ collector \in {"close", "fail"} /\ collector' = "done"
    BY <1>3 DEF CollectorEnds, CloseWriter
  <2>. QED BY <2>1, <2>2, WriterNames DEF Good
<1>4. CASE WatcherEnds \/ Cancel
  <2>1. UNCHANGED <<main, collector, unsolved, inClosed, fwd, solver, loader, printer, ready, closer, res, statusClosed>>
    BY <1>4 DEF WatcherEnds, Cancel, groupVars, loadVars, nodeVars, progressVars
  <2>2. (watcher' = "done" => printer = "done") /\ (watcher = "done" => watcher' = "done")
    BY <1>4 DEF WatcherEnds, Cancel, groupVars
  <2>3. ClosedInv' /\ TakenInv' BY <2>1
  <2>4. EndedInv' BY <2>1, <2>2
  <2>5. LeftInv' BY <2>1 DEF Good
  <2>. QED BY <2>3, <2>4, <2>5
<1>. QED BY <1>1, <1>2, <1>3, <1>4 DEF CollectorSteps

\* The printer, the forwarders and the closer
LEMMA LeftProgress ==
    ASSUME TypeOK, ResultInv, BootInv, StreamInv, LeftBehindInv, Running, Printing \/ Forwarding
    PROVE  LeftBehindInv'
<1> USE DEF LeftBehindInv, ClosedInv, TakenInv, EndedInv, LeftInv
<1>0. ProgressTypes /\ BuildTypes /\ LoadTypes BY TypeOfParts
<1>1. UNCHANGED <<main, collector, unsolved, solver, loader, watcher, res>>
  BY DEF Printing, Prints, Forwarding, groupVars, buildVars, loadVars, nodeVars
<1>2. CASE Printing
  <2>1. UNCHANGED <<inClosed, fwd, ready, closer, statusClosed>> /\ printer' = "done" /\ statusClosed
    BY <1>2, BuildAssumption DEF Printing, Prints, PrinterEnds, mwVars
  <2>. QED BY <1>1, <2>1 DEF Good
<1>3. ASSUME NEW w \in Writers, ForwarderStarts(w) \/ ForwarderForwards(w) \/ ForwarderEnds(w)
      PROVE  LeftBehindInv'
  <2>1. UNCHANGED <<inClosed, printer, closer, statusClosed>>
    BY <1>3 DEF ForwarderStarts, ForwarderForwards, ForwarderEnds
  <2>2. PICK state \in {"select", "done"} :
           /\ fwd[w] # "none" /\ fwd' = [fwd EXCEPT ![w] = state]
           /\ state = "done" => w \in inClosed \/ printer = "done"
    BY <1>3 DEF ForwarderStarts, ForwarderForwards, ForwarderEnds
  <2>3. \A x \in Writers : fwd'[x] = (IF x = w THEN state ELSE fwd[x])
    BY <1>0, <2>2 DEF ProgressTypes
  <2>4. ready' => \E x \in Writers : fwd'[x] # "none" BY <2>2, <2>3
  <2>5. TakenInv' BY <1>1, <2>2, <2>3, WriterNames
  <2>6. ClosedInv' /\ LeftInv' BY <1>1, <2>1 DEF Good
  <2>7. EndedInv' BY <1>1, <2>1, <2>2, <2>3, <2>4
  <2>. QED BY <2>5, <2>6, <2>7
<1>4. CASE CloserWaits
  <2>1. UNCHANGED <<inClosed, fwd, printer, ready, statusClosed>> /\ closer = "ready" /\ closer' = "close" /\ ready
    BY <1>4 DEF CloserWaits
  <2>2. \A w \in Writers : fwd[w] \in {"none", "done"} BY <1>4 DEF CloserWaits
  <2>3. main \notin {"boot", "error"} BY <2>1 DEF BootInv, Running
  <2>4. \A w \in Writers : fwd[w] = "done" => w \in inClosed BY <2>1, <2>3
  <2>5. ASSUME solver = "none" PROVE FALSE
    <3>1. PICK w \in Writers : w \in inClosed BY <2>1, <2>2, <2>4
    <3>2. \A i \in Node : LoadWriter(i) \notin inClosed BY <2>5 DEF StreamInv
    <3>. QED BY <2>5, <3>1, <3>2, WriterNames DEF ResultInv
  <2>6. ASSUME solver = "solve" PROVE FALSE
    <3>1. main = "wait" BY <1>0, <2>3, <2>6 DEF ResultInv, BuildTypes, Running
    <3>. QED BY <2>2, <2>4, <2>6, <3>1, WriterNames
  <2>7. ASSUME Good, NEW i \in Node PROVE loader[i] \in Final
    <3>1. started = Node \/ loader[i] = "none" BY <2>7 DEF StreamInv
    <3>2. CASE loader[i] \in {"announce", "body", "report", "close"}
      BY <2>2, <2>4, <3>2, WriterNames
    <3>. QED BY <3>1, <3>2 DEF StreamInv, Final
  <2>8. ClosedInv' /\ TakenInv' /\ EndedInv' BY <1>1, <2>1
  <2>9. LeftInv' BY <1>1, <2>5, <2>6, <2>7 DEF Good
  <2>. QED BY <2>8, <2>9
<1>5. CASE CloserCloses
  <2>1. UNCHANGED <<inClosed, fwd, printer, ready>> /\ closer # "ready" /\ closer' = "done"
    BY <1>5 DEF CloserCloses
  <2>2. statusClosed => statusClosed' BY <1>5 DEF CloserCloses, CloseStatus
  <2>. QED BY <1>1, <2>1, <2>2 DEF Good
<1>. QED BY <1>2, <1>3, <1>4, <1>5 DEF Forwarding, Forwarders

\* The stream and the loaders
LEMMA LeftLoads ==
    ASSUME TypeOK, ResultInv, StreamInv, LeftBehindInv, Loading
    PROVE  LeftBehindInv'
<1> USE DEF LeftBehindInv, ClosedInv, TakenInv, EndedInv, LeftInv
<1>0. ProgressTypes /\ BuildTypes /\ LoadTypes BY TypeOfParts
<1>1. UNCHANGED <<main, collector, unsolved, solver, watcher, res>>
  BY DEF Loading, buildVars
<1>2. CASE Stream(Broken) /\ UNCHANGED progressVars
  <2>1. UNCHANGED <<inClosed, fwd, printer, ready, closer, statusClosed>> BY <1>2 DEF progressVars
  <2>2. CASE UNCHANGED loader BY <1>1, <2>1, <2>2 DEF Good
  <2>3. CASE HandlerReceives
    <3>1. ~Good BY <2>3 DEF HandlerReceives, StreamInv, Good
    <3>2. \A i \in Node : loader'[i] = (IF loader[i] = "none" THEN "load" ELSE loader[i])
      BY <2>3 DEF HandlerReceives
    <3>. QED BY <1>1, <2>1, <3>1, <3>2 DEF Good
  <2>. QED
    BY <1>2, <2>2, <2>3 DEF Stream, ServerSends, ServerCloses, ServerFails, ServerSucceeds, HandlerWrites, HandlerStops, Close,
                            nodeVars, handlerVars
<1>3. ASSUME NEW i \in Node, QuietLoads(i, CtxDone \/ "load" \in Faults), UNCHANGED progressVars PROVE LeftBehindInv'
  <2>1. UNCHANGED <<inClosed, fwd, printer, ready, closer, statusClosed>> BY <1>3 DEF progressVars
  <2>2. \/ UNCHANGED loader
        \/ /\ loader[i] \notin Final /\ loader' = [loader EXCEPT ![i] = loader'[i]]
           /\ loader'[i] \in {"failed", "unpack", "done", "respond"}
    BY <1>0, <1>3 DEF QuietLoads, ReadsToEnd, LoadFails, Imports, Unpacks, Responds, Step, Final, LoadTypes
  <2>3. \A j \in Node : \/ loader'[j] = loader[j]
                        \/ loader[j] \notin Final /\ loader'[j] \in {"failed", "unpack", "done", "respond"}
    BY <1>0, <2>2 DEF LoadTypes
  <2>4. ClosedInv' BY <1>1, <2>1, <2>3 DEF Final
  <2>5. TakenInv' BY <1>1, <2>1, <2>3 DEF Final
  <2>6. EndedInv' BY <1>1, <2>1
  <2>7. LeftInv' BY <1>1, <2>1, <2>3 DEF Good, Final
  <2>. QED BY <2>4, <2>5, <2>6, <2>7
<1>4. ASSUME NEW i \in Node, LoggingLoads(i, CtxDone \/ "load" \in Faults) PROVE LeftBehindInv'
  <2>0. LoadWriter(i) \in Writers BY WriterNames
  <2>1. UNCHANGED <<printer, ready, closer, statusClosed>>
    BY <1>4 DEF LoggingLoads, Starts, Announces, BodyEnds, Reports, ClosesWriter, WithPrefix, Log, CloseWriter, progressVars
  <2>2. loader[i] \notin Final
    BY <1>4 DEF LoggingLoads, Starts, Announces, BodyEnds, Reports, ClosesWriter, Step, Final
  <2>3. \A j \in Node \ {i} : loader'[j] = loader[j]
    BY <1>0, <1>4 DEF LoggingLoads, Starts, Announces, BodyEnds, Reports, ClosesWriter, Step, LoadTypes
  <2>4. fwd' = fwd \/ \E state \in {"start", "forward"} : fwd' = [fwd EXCEPT ![LoadWriter(i)] = state]
    BY <1>4 DEF LoggingLoads, Starts, Announces, BodyEnds, Reports, ClosesWriter, WithPrefix, Log, CloseWriter, progressVars
  <2>5. \A w \in Writers : fwd'[w] = fwd[w] \/ (w = LoadWriter(i) /\ fwd'[w] \in {"start", "forward"})
    BY <1>0, <2>4 DEF ProgressTypes
  <2>6. inClosed' = inClosed \/ (inClosed' = inClosed \cup {LoadWriter(i)} /\ loader'[i] = "done")
    BY <1>0, <1>4 DEF LoggingLoads, Starts, Announces, BodyEnds, Reports, ClosesWriter, WithPrefix, Log, CloseWriter,
                      Step, LoadTypes, progressVars
  <2>7. loader'[i] \in {"announce", "body", "report", "close"} => fwd'[LoadWriter(i)] # "none"
    BY <1>0, <1>4, <2>0 DEF LoggingLoads, Starts, Announces, BodyEnds, Reports, ClosesWriter, WithPrefix, Log, CloseWriter,
                      Step, LoadTypes, ProgressTypes, progressVars
  <2>8. ClosedInv' BY <1>1, <2>2, <2>3, <2>6, WriterNames DEF Final
  <2>9. TakenInv' BY <1>1, <2>3, <2>5, <2>7, WriterNames
  <2>10. EndedInv' BY <1>1, <2>0, <2>1, <2>5, <2>6
  <2>11. LeftInv' BY <1>1, <2>1, <2>2 DEF Good
  <2>. QED BY <2>8, <2>9, <2>10, <2>11
<1>. QED BY <1>2, <1>3, <1>4 DEF Loading

LEMMA LeftBehindStep ==
    ASSUME TypeOK, ResultInv, BootInv, StreamInv, LeftBehindInv, [Next]_vars
    PROVE  LeftBehindInv'
<1>1. CASE UNCHANGED vars
  BY <1>1 DEF vars, LeftBehindInv, ClosedInv, TakenInv, EndedInv, LeftInv, Good
<1>2. CASE Next
  <2>1. Running /\ UNCHANGED scenario BY <1>2 DEF Next, Running
  <2>. QED BY <1>2, <2>1, LeftMain, LeftSolver, LeftCollector, LeftProgress, LeftLoads DEF Next
<1>. QED BY <1>1, <1>2

LEMMA LeftBehindInvHolds == Spec => []LeftBehindInv
<1>1. Init => LeftBehindInv
  BY WriterNames DEF Init, ProgressInit, LoadInit, BootInit, LeftBehindInv, ClosedInv, TakenInv, EndedInv, LeftInv
<1>. QED BY <1>1, LeftBehindStep, BootInvHolds, BuildTypeCorrect, PTL DEF Spec

\* A build that succeeded has left no load behind, on any number of nodes: docker's
\* loads hold the printer through their writers, containerd's hold the export
\* through their started channels.
THEOREM NoLoadLeftBehindHolds == Spec => []NoLoadLeftBehind
<1>1. ASSUME ResultInv, LeftBehindInv, main = "ok" PROVE NoLoadLeftBehind
  <2>1. closer = "done" BY <1>1 DEF LeftBehindInv, EndedInv
  <2>2. Good BY <1>1 DEF ResultInv, Good
  <2>. QED BY <1>1, <2>1, <2>2 DEF LeftBehindInv, LeftInv, Final, NoLoadLeftBehind
<1>2. ResultInv /\ LeftBehindInv => NoLoadLeftBehind BY <1>1 DEF NoLoadLeftBehind
<1>. QED BY <1>2, LeftBehindInvHolds, ResultInvHolds, PTL
=============================================================================
