------------------------------ MODULE NodeClients ------------------------------
(***************************************************************************)
(* Driver.Clients: a pod is chosen, and a connection opened to it and to    *)
(* every other running pod; then a build uses the connection to the chosen  *)
(* one (Build never uses the others).  ExecConn and client.New only prepare *)
(* a connection: whether the pod answers shows when it is used.             *)
(***************************************************************************)
EXTENDS PodChooser, KubeConn

VARIABLES
    phase,   \* where Clients is, then "connected"
    toDial,  \* the pods it has yet to open a connection to
    streams  \* the pods a stream has been opened to

clientVars == <<listed, answer, phase, toDial, streams>>
allVars == <<listed, answer, phase, toDial, streams, connVars>>

NodeInit == Init /\ ConnInit /\ phase = "choose" /\ toDial = <<>> /\ streams = <<>>

Choose ==
    /\ phase = "choose" /\ Next
    /\ IF answer'.by = "error" THEN phase' = "error" /\ UNCHANGED toDial
       ELSE phase' = "dial" /\ toDial' = <<answer'.chosen>> \o answer'.others
    /\ UNCHANGED <<streams, connVars>>

\* Mutant of DialsNode: every connection is opened to the chosen pod.
DialsPrevious ==
    /\ phase = "dial" /\ toDial # <<>>
    /\ streams' = Append(streams, IF streams = <<>> THEN Head(toDial) ELSE answer.chosen)
    /\ toDial' = Tail(toDial) /\ UNCHANGED <<listed, answer, phase, connVars>>

\* buildNodeClient: a pod that fails ends it all; what was opened stays open,
\* the pod's own stream included when client.New fails.
DialsNode ==
    /\ phase = "dial" /\ toDial # <<>>
    /\ \/ streams' = Append(streams, Head(toDial)) /\ toDial' = Tail(toDial) /\ UNCHANGED phase
       \/ streams' \in {streams, Append(streams, Head(toDial))} /\ phase' = "error" /\ UNCHANGED toDial
    /\ UNCHANGED <<listed, answer, connVars>>

Returns ==
    /\ phase = "dial" /\ toDial = <<>> /\ phase' = "clients"
    /\ UNCHANGED <<listed, answer, toDial, streams, connVars>>

\* The build goes on with one connection; what chose it is forgotten.
Connects ==
    /\ phase = "clients" /\ phase' = "connected"
    /\ listed' = <<>> /\ answer' = [by |-> "none"] /\ streams' = <<>>
    /\ UNCHANGED <<toDial, connVars>>

UsesConnection == phase = "connected" /\ ConnNext /\ UNCHANGED clientVars

NodeNext == Choose \/ DialsNode \/ Returns \/ Connects \/ UsesConnection

NodeSpec == NodeInit /\ [][NodeNext]_allVars

\* exec.Stream's goroutines run, the API server and a command that still runs
\* do their part, and a Close that has begun goes on.  Nobody need read, write
\* or close, and nothing need fail.
Fairness ==
    /\ WF_allVars(phase = "connected" /\ UNCHANGED clientVars /\ WriteFails)
    /\ WF_allVars(phase = "connected" /\ UNCHANGED clientVars /\ ReadFails)
    /\ WF_allVars(phase = "connected" /\ UNCHANGED clientVars /\ (Dials(FALSE) \/ StreamReturns))
    /\ WF_allVars(phase = "connected" /\ UNCHANGED clientVars /\ (TakesInput \/ SendsInput))
    /\ WF_allVars(phase = "connected" /\ UNCHANGED clientVars /\ (TakesOutput(FALSE) \/ WritesOutput \/ Drains))
    /\ WF_allVars(phase = "connected" /\ UNCHANGED clientVars /\ RemoteExits(FALSE))
    /\ \A c \in Closers : WF_allVars(phase = "connected" /\ UNCHANGED clientVars /\ CloserSteps(c))

FairSpec == NodeSpec /\ Fairness

-----------------------------------------------------------------------------
(* Properties *)

\* The type invariant of every variable.
TypesOK ==
    /\ TypeOK /\ ConnTypes
    /\ phase \in {"choose", "dial", "clients", "connected", "error"}
    /\ toDial \in Seq(Names) /\ streams \in Seq(Names)

\* When the sticky chooser's build has its clients, every running pod has one
\* stream opened to it, and no other pod has any.
OneStreamPerNode ==
    phase = "clients" /\ answer.by = "sticky" => IsInjective(streams) /\ ToSet(streams) = Running
=============================================================================
