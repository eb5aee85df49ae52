-------------------------- MODULE SolveOptionsProofs --------------------------
(***************************************************************************)
(* Theorems about SolveOptions, for any number of nodes and of changes to   *)
(* them while the options are worked out.  Each invariant says, step by     *)
(* step, what is known so far: of the export entry (EntryInv), of the nodes *)
(* (NodeInv), and of the directories (InputInv).                            *)
(***************************************************************************)
EXTENDS SolveOptions, TLAPS

\* Steps by how far toSolveOpt has come
Picked == {"idFile", "exports"}
Inputs == {"inputs", "dockerfile", "loaded", "solve", "ok"}
Exporting == {"exporter", "list", "loader"} \cup Inputs

LEMMA ParsedType ==
    ASSUME flags \in Flags
    PROVE  /\ Parsed \in [type : Outputs \ {"registry", "docker-file"}, push : BOOLEAN, sink : {"none", "client"}]
           /\ Parsed.push <=> flags.output = "registry"
           /\ Parsed.type = (IF flags.output = "registry" THEN "image"
                             ELSE IF flags.output = "docker-file" THEN "docker" ELSE flags.output)
           /\ Parsed.sink = (IF flags.output \in {"docker-file", "tar", "oci"} THEN "client" ELSE "none")
<1>1. flags.output \in Outputs BY DEF Flags
<1>. QED BY <1>1 DEF Parsed, Outputs

\* The state of the code that turns flags into solve options is always of its type.
THEOREM OptionsTypeCorrect == Spec => []TypeOK
<1> USE SolveOptionsAssumption
<1>1. Init => TypeOK BY DEF Init, TypeOK, Sources, Outputs
<1>2. ASSUME TypeOK, [Next]_vars PROVE TypeOK'
  <2>1. CASE PicksOutput
    <3>1. UNCHANGED <<flags, cluster, changes, features, targets, dirs, tmp, releases>> BY <2>1 DEF PicksOutput, inputVars
    <3>2. \/ UNCHANGED entry
          \/ entry' \in {Parsed, [type |-> "image", push |-> TRUE, sink |-> "none"],
                         [type |-> "runtime", push |-> FALSE, sink |-> "none"]}
      BY <2>1 DEF PicksOutput
    <3>3. step' \in {"rejected", "idFile"} BY <2>1 DEF PicksOutput
    <3>4. entry' \in [type : (Outputs \ {"registry", "docker-file"}) \cup {"runtime"}, push : BOOLEAN,
                      sink : {"none", "client", "loader"}]
      <4>1. CASE UNCHANGED entry BY <1>2, <4>1 DEF TypeOK
      <4>2. CASE entry' = Parsed BY <1>2, <4>2, ParsedType DEF TypeOK
      <4>3. CASE entry' = [type |-> "image", push |-> TRUE, sink |-> "none"] BY <4>3 DEF Outputs
      <4>4. CASE entry' = [type |-> "runtime", push |-> FALSE, sink |-> "none"] BY <4>4 DEF Outputs
      <4>. QED BY <3>2, <4>1, <4>2, <4>3, <4>4
    <3>. QED BY <1>2, <3>1, <3>3, <3>4 DEF TypeOK
  <2>2. CASE RemovesIDFile \/ SetsUpExporter
    BY <1>2, <2>2 DEF TypeOK, RemovesIDFile, SetsUpExporter, Fail, Release, inputVars
  <2>3. CASE PicksExporter
    <3>1. features' \subseteq {"docker", "containerd", "rootless"}
      BY <1>2, <2>3 DEF TypeOK, PicksExporter, Features
    <3>2. \/ UNCHANGED entry
          \/ \E type \in {"image", "docker", entry.type} : entry' = [entry EXCEPT !.type = type]
      BY <2>3 DEF PicksExporter
    <3>3. entry' \in [type : (Outputs \ {"registry", "docker-file"}) \cup {"runtime"}, push : BOOLEAN,
                      sink : {"none", "client", "loader"}]
      BY <1>2, <3>2 DEF TypeOK, Outputs
    <3>4. UNCHANGED <<flags, cluster, changes, targets>> /\ step' \in {"error", "exporter"}
      BY <2>3 DEF PicksExporter, Fail
    <3>5. UNCHANGED <<dirs, releases>> /\ tmp' \subseteq tmp
      BY <2>3 DEF PicksExporter, Fail, Release, inputVars
    <3>. QED BY <1>2, <3>1, <3>3, <3>4, <3>5 DEF TypeOK
  <2>4. CASE CountsNodes \/ SetsUpLoader
    BY <1>2, <2>4 DEF TypeOK, CountsNodes, SetsUpLoader, Fail, Release, inputVars, Outputs
  <2>5. CASE FindsContext \/ WritesDockerfile \/ Loads \/ Solves
    <3>1. /\ UNCHANGED <<flags, cluster, changes, features, entry, targets>>
          /\ step' \in {"error", "dockerfile", "loaded", "inputsFailed", "solve", "failed", "ok"}
      BY <2>5 DEF FindsContext, WritesDockerfile, Loads, Solves, Fail
    <3>2. tmp' \subseteq {"context", "dockerfile"} /\ releases' \subseteq {"context", "dockerfile"}
      BY <1>2, <2>5 DEF TypeOK, FindsContext, WritesDockerfile, Loads, Solves, Fail, Release, inputVars
    <3>3. dirs' \in [context : Sources, dockerfile : Sources]
      <4>1. CASE UNCHANGED dirs BY <1>2, <4>1 DEF TypeOK
      <4>2. CASE FindsContext
        <5>1. \/ UNCHANGED dirs
              \/ \E c \in Sources, d \in Sources : dirs' = [context |-> c, dockerfile |-> d]
          BY <4>2 DEF FindsContext, Fail, Sources
        <5>. QED BY <1>2, <5>1 DEF TypeOK
      <4>3. CASE WritesDockerfile BY <1>2, <4>3 DEF TypeOK, WritesDockerfile, Sources
      <4>. QED BY <2>5, <4>1, <4>2, <4>3 DEF Loads, Solves, Fail, inputVars
    <3>. QED BY <1>2, <3>1, <3>2, <3>3 DEF TypeOK
  <2>6. CASE Scales
    BY <1>2, <2>6 DEF TypeOK, Scales, inputVars
  <2>7. CASE UNCHANGED vars
    BY <1>2, <2>7 DEF TypeOK, vars
  <2>. QED BY <1>2, <2>1, <2>2, <2>3, <2>4, <2>5, <2>6, <2>7 DEF Next, ToSolveOpt
<1>. QED BY <1>1, <1>2, PTL DEF Spec

-----------------------------------------------------------------------------
(* The export entry *)

EntryInv ==
    /\ entry.push => entry.type = "image"
    /\ entry.type = "image" => entry.sink = "none"
    /\ step \in Exporting => flags.output # "several" /\ entry.type # "runtime"
    /\ step \in Picked \cup {"exporter"} /\ entry.type \in {"oci", "tar"} => entry.sink = "client"
    /\ step \in Picked \cup {"exporter"} => entry.sink # "loader"
    /\ step \in Picked /\ entry.type = "runtime" => entry.sink = "none"
    /\ step = "list" => entry.type = "image" /\ ~entry.push
    /\ step = "loader" => entry.type \in {"docker", "oci"} /\ entry.sink = "none"
    /\ entry.sink = "loader" /\ entry.type = "docker" => targets > 0
    /\ step \in Picked \cup Exporting /\ flags.output # "several" => Delivered = Wanted

LEMMA EntryStep ==
    ASSUME TypeOK, EntryInv, [Next]_vars
    PROVE  EntryInv'
<1> USE SolveOptionsAssumption DEF Picked, Inputs, Exporting
<1>0. flags \in Flags /\ flags' = flags
  BY DEF TypeOK, Next, ToSolveOpt, PicksOutput, RemovesIDFile, PicksExporter, SetsUpExporter, CountsNodes,
         SetsUpLoader, FindsContext, WritesDockerfile, Loads, Solves, Scales, vars
<1>1. CASE PicksOutput
  <2>1. CASE step' = "rejected" /\ UNCHANGED entry
    BY <1>1, <2>1 DEF PicksOutput, EntryInv
  <2>2. CASE step' = "idFile" /\ flags.push
    <3>1. entry' = [type |-> "image", push |-> TRUE, sink |-> "none"] BY <1>1, <2>2 DEF PicksOutput
    <3>. QED BY <1>0, <2>2, <3>1 DEF EntryInv, Delivered, Wanted
  <2>3. CASE step' = "idFile" /\ ~flags.push /\ flags.output = "none"
    <3>1. Load BY <2>3 DEF Load
    <3>2. entry' = [type |-> "runtime", push |-> FALSE, sink |-> "none"] BY <1>1, <2>3, <3>1 DEF PicksOutput
    <3>. QED BY <1>0, <2>3, <3>2 DEF EntryInv, Delivered, Wanted
  <2>4. CASE step' = "idFile" /\ ~flags.push /\ flags.output # "none"
    <3>1. entry' = Parsed BY <1>1, <2>4 DEF PicksOutput
    <3>2. flags.output \in Outputs BY <1>0 DEF Flags
    <3>. QED BY <1>0, <2>4, <3>1, <3>2, ParsedType DEF EntryInv, Delivered, Wanted, Outputs
  <2>. QED BY <1>1, <2>1, <2>2, <2>3, <2>4 DEF PicksOutput
<1>2. CASE RemovesIDFile
  BY <1>2 DEF RemovesIDFile, Fail, EntryInv, Delivered, Wanted
<1>3. CASE PicksExporter
  <2>1. CASE step' = "error" /\ UNCHANGED <<entry, targets>> BY <2>1 DEF EntryInv
  <2>2. CASE step' = "exporter"
    <3>1. PICK type \in {"image", "docker", entry.type} :
             /\ entry' = [entry EXCEPT !.type = type]
             /\ entry.type # "runtime" => type = entry.type
             /\ type # "runtime"
      BY <1>3, <2>2 DEF PicksExporter, Fail
    <3>2. step = "exports" /\ UNCHANGED targets /\ flags.output # "several"
      BY <1>3, <2>2 DEF PicksExporter, Fail
    <3>3. entry'.type = type /\ entry'.push = entry.push /\ entry'.sink = entry.sink
      BY <3>1 DEF TypeOK
    <3>4. entry.type = "runtime" => entry.sink = "none" /\ ~entry.push
      BY <3>2 DEF EntryInv, TypeOK
    <3>. QED BY <1>0, <2>2, <3>1, <3>2, <3>3, <3>4 DEF EntryInv, Delivered, Wanted
  <2>. QED BY <1>3, <2>1, <2>2 DEF PicksExporter, Fail
<1>4. CASE SetsUpExporter
  BY <1>0, <1>4 DEF SetsUpExporter, Fail, EntryInv, Delivered, Wanted, TypeOK
<1>5. CASE CountsNodes \/ SetsUpLoader
  BY <1>0, <1>5 DEF CountsNodes, SetsUpLoader, Fail, EntryInv, Delivered, Wanted, TypeOK
<1>6. CASE FindsContext \/ WritesDockerfile \/ Loads \/ Solves
  <2>1. /\ UNCHANGED <<entry, targets>> /\ step \in Inputs
        /\ step' \in Inputs \cup {"error", "inputsFailed", "failed"} /\ step' # "inputs"
    BY <1>6 DEF FindsContext, WritesDockerfile, Loads, Solves, Fail
  <2>. QED BY <1>0, <2>1 DEF EntryInv, Delivered, Wanted
<1>7. CASE Scales
  BY <1>0, <1>7 DEF Scales, EntryInv, Delivered, Wanted
<1>8. CASE UNCHANGED vars
  BY <1>8 DEF vars, EntryInv, Delivered, Wanted
<1>. QED BY <1>1, <1>2, <1>3, <1>4, <1>5, <1>6, <1>7, <1>8 DEF Next, ToSolveOpt

LEMMA EntryHolds == Spec => []EntryInv
<1>1. Init => EntryInv BY DEF Init, EntryInv, Picked, Inputs, Exporting
<1>. QED BY <1>1, EntryStep, OptionsTypeCorrect, PTL DEF Spec

\* Whatever the flags, the runtime and the changes to the pods, a build that is
\* not refused delivers its image where the user wants it.
THEOREM DeliveredAsWantedHolds == Spec => []DeliveredAsWanted
<1>1. EntryInv => DeliveredAsWanted
  BY DEF EntryInv, DeliveredAsWanted, Picked, Inputs, Exporting
<1>. QED BY <1>1, EntryHolds, PTL

\* An image for docker has a node to go to, whatever happens to the pods.
THEOREM DockerLoadHasNodeHolds == Spec => []DockerLoadHasNode
<1>1. EntryInv => DockerLoadHasNode BY DEF EntryInv, DockerLoadHasNode
<1>. QED BY <1>1, EntryHolds, PTL

-----------------------------------------------------------------------------
(* The nodes *)

NodeInv ==
    /\ changes = 0 => cluster.nodes >= 1
    /\ features \subseteq {cluster.runtime}
    /\ step = "list" => "containerd" \in features
    /\ step = "loader" => features \cap {"docker", "containerd"} # {}
    /\ step \in Inputs /\ Wanted = "runtime" => features \cap {"docker", "containerd"} # {}
    /\ step \in Inputs /\ changes = 0 /\ entry.sink = "loader" => targets = cluster.nodes
    /\ step \in Inputs /\ changes = 0 /\ Wanted = "runtime" /\ entry.sink # "loader" =>
          entry.sink = "none" /\ cluster.nodes = 1

LEMMA NodeStep ==
    ASSUME TypeOK, EntryInv, NodeInv, [Next]_vars
    PROVE  NodeInv'
<1> USE SolveOptionsAssumption DEF Picked, Inputs, Exporting
<1>0. flags' = flags
  BY DEF Next, ToSolveOpt, PicksOutput, RemovesIDFile, PicksExporter, SetsUpExporter, CountsNodes,
         SetsUpLoader, FindsContext, WritesDockerfile, Loads, Solves, Scales, vars
<1>1. CASE PicksOutput \/ RemovesIDFile
  BY <1>0, <1>1 DEF PicksOutput, RemovesIDFile, Fail, NodeInv, Wanted
<1>2. CASE PicksExporter
  BY <1>0, <1>2 DEF PicksExporter, Features, Fail, NodeInv, Wanted
<1>3. CASE SetsUpExporter
  <2>1. step = "exporter" /\ UNCHANGED <<cluster, changes, features, entry, targets>>
    BY <1>3 DEF SetsUpExporter
  <2>2. Delivered = Wanted BY <2>1 DEF EntryInv
  <2>3. ASSUME Wanted = "runtime" PROVE step' # "inputs"
    <3>1. entry.sink # "client" /\ entry.type # "local" /\ ~entry.push BY <2>2, <2>3 DEF Delivered
    <3>2. entry.type \notin {"oci", "tar"} BY <2>1, <3>1 DEF EntryInv
    <3>3. entry.sink = "none" BY <2>1, <3>1 DEF EntryInv, TypeOK
    <3>. QED BY <1>3, <3>1, <3>2, <3>3 DEF SetsUpExporter, Fail
  <2>4. entry.sink # "loader" BY <2>1 DEF EntryInv
  <2>. QED BY <1>0, <1>3, <2>1, <2>3, <2>4 DEF SetsUpExporter, Fail, NodeInv, Wanted
<1>4. CASE CountsNodes
  <2>1. step = "list" /\ UNCHANGED <<cluster, changes, features, targets>> BY <1>4 DEF CountsNodes
  <2>2. entry.type = "image" /\ entry.sink = "none" BY <2>1 DEF EntryInv
  <2>. QED BY <1>0, <1>4, <2>1, <2>2 DEF CountsNodes, Fail, NodeInv, Wanted, TypeOK
<1>5. CASE SetsUpLoader
  BY <1>0, <1>5 DEF SetsUpLoader, Fail, NodeInv, Wanted, TypeOK
<1>6. CASE FindsContext \/ WritesDockerfile \/ Loads \/ Solves
  BY <1>0, <1>6 DEF FindsContext, WritesDockerfile, Loads, Solves, Fail, NodeInv, Wanted
<1>7. CASE Scales
  BY <1>0, <1>7 DEF Scales, NodeInv, Wanted, TypeOK
<1>8. CASE UNCHANGED vars
  BY <1>8 DEF vars, NodeInv, Wanted
<1>. QED BY <1>1, <1>2, <1>3, <1>4, <1>5, <1>6, <1>7, <1>8 DEF Next, ToSolveOpt

\* A load that starts while the pods stay as they are reaches every one of them.
THEOREM LoadReachesAllNodesHolds == Spec => []LoadReachesAllNodes
<1>1. Init => NodeInv BY SolveOptionsAssumption DEF Init, NodeInv, Inputs
<1>2. TypeOK /\ NodeInv => LoadReachesAllNodes
  BY DEF TypeOK, NodeInv, LoadReachesAllNodes, Inputs
<1>. QED BY <1>1, <1>2, NodeStep, EntryHolds, OptionsTypeCorrect, PTL DEF Spec

-----------------------------------------------------------------------------
(* Context, Dockerfile and temporary directories *)

InputInv ==
    /\ step \in {"flags", "rejected", "idFile", "exports", "exporter", "list", "loader", "inputs"} =>
          /\ tmp = {} /\ releases = {}
          /\ dirs = [context |-> "unset", dockerfile |-> "unset"]
    /\ step = "dockerfile" =>
          /\ releases = {} /\ flags.context # "archive" /\ dirs.dockerfile = "stdin"
          /\ dirs.context = "temp" => "context" \in tmp
    /\ step \in {"loaded", "solve"} =>
          /\ releases = (IF step = "solve" THEN tmp ELSE {})
          /\ \A part \in {"context", "dockerfile"} : dirs[part] = "temp" => part \in tmp
          /\ (flags.context = "text" \/ flags.file = "-") => dirs.dockerfile = "temp"
          /\ flags.context = "archive" => dirs.context = "stdin" /\ dirs.dockerfile # "temp"
    /\ step \in {"error", "failed"} => tmp = {}

LEMMA InputStep ==
    ASSUME TypeOK, InputInv, [Next]_vars
    PROVE  InputInv'
<1>0. flags' = flags
  BY DEF Next, ToSolveOpt, PicksOutput, RemovesIDFile, PicksExporter, SetsUpExporter, CountsNodes,
         SetsUpLoader, FindsContext, WritesDockerfile, Loads, Solves, Scales, vars
<1>1. CASE PicksOutput \/ RemovesIDFile
  BY <1>1 DEF PicksOutput, RemovesIDFile, Fail, Release, inputVars, InputInv
<1>2. CASE PicksExporter \/ SetsUpExporter \/ CountsNodes \/ SetsUpLoader
  <2>1. step \in {"exports", "exporter", "list", "loader"} /\ step' \in {"exporter", "list", "loader", "inputs", "error"}
    BY <1>2 DEF PicksExporter, SetsUpExporter, CountsNodes, SetsUpLoader, Fail
  <2>2. UNCHANGED <<dirs, releases>> /\ (tmp' = tmp \/ tmp' = tmp \ releases)
    BY <1>2 DEF PicksExporter, SetsUpExporter, CountsNodes, SetsUpLoader, Fail, Release, inputVars
  <2>. QED BY <2>1, <2>2 DEF InputInv
<1>3. CASE FindsContext
  <2>1. step = "inputs" /\ releases' = {} BY <1>3 DEF FindsContext, Fail, Release, InputInv
  <2>2. CASE step' = "error" BY <1>3, <2>1, <2>2 DEF FindsContext, Fail, Release, InputInv
  <2>3. CASE step' = "dockerfile"
    <3>1. \/ /\ flags.context = "text" /\ tmp' = tmp \cup {"context"}
             /\ dirs' = [context |-> "temp", dockerfile |-> "stdin"]
          \/ flags.context = "text" /\ dirs' = [context |-> "nowhere", dockerfile |-> "stdin"]
          \/ flags.context = "dir" /\ dirs' = [context |-> "dir", dockerfile |-> "stdin"]
      BY <1>3, <2>3 DEF FindsContext, Fail
    <3>. QED BY <1>0, <2>1, <2>3, <3>1 DEF InputInv
  <2>4. CASE step' = "loaded" BY <1>0, <1>3, <2>1, <2>4 DEF FindsContext, Fail, Stdin, InputInv, TypeOK
  <2>. QED BY <1>3, <2>2, <2>3, <2>4 DEF FindsContext, Fail
<1>4. CASE WritesDockerfile
  BY <1>0, <1>4 DEF WritesDockerfile, InputInv, TypeOK
<1>5. CASE Loads \/ Solves
  BY <1>0, <1>5 DEF Loads, Solves, Fail, Release, inputVars, InputInv
<1>6. CASE Scales \/ UNCHANGED vars
  BY <1>0, <1>6 DEF Scales, vars, inputVars, InputInv
<1>. QED BY <1>1, <1>2, <1>3, <1>4, <1>5, <1>6 DEF Next, ToSolveOpt

LEMMA InputHolds == Spec => []InputInv
<1>1. Init => InputInv BY DEF Init, InputInv
<1>. QED BY <1>1, InputStep, OptionsTypeCorrect, PTL DEF Spec

\* What a solve reads from is there, and stdin is read once.
THEOREM InputsInPlaceHolds == Spec => []InputsInPlace
<1>1. InputInv => InputsInPlace BY DEF InputInv, InputsInPlace
<1>. QED BY <1>1, InputHolds, PTL

\* A failed build leaves no temporary directory behind, unless making one failed.
THEOREM FailureReleasesHolds == Spec => []FailureReleases
<1>1. InputInv => FailureReleases BY DEF InputInv, FailureReleases
<1>. QED BY <1>1, InputHolds, PTL
=============================================================================
