------------------------------ MODULE MCBuildRun ------------------------------
(* Values of the constants of BuildRun for TLC. *)
EXTENDS BuildRun

\* One writer for the collector, one for the solver, one per node
AllWriters == {DefaultWriter, SolveWriter} \cup {LoadWriter(i) : i \in Node}
\* A load into docker, whose loads log through the progress pipeline, with no failure
\* once the solve has started; a load into containerd, and an image id file without
\* a load, with every failure.
DockerContainerdAndFile ==
    {[loader |-> "docker", iidfile |-> TRUE, faults |-> {"options"}],
     [loader |-> "containerd", iidfile |-> FALSE, faults |-> FaultKinds],
     [loader |-> "none", iidfile |-> TRUE, faults |-> FaultKinds]}
=============================================================================
