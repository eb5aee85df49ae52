------------------------------ MODULE SolveOptions ------------------------------
(***************************************************************************)
(* From the flags of kubectl build to the solve: runBuild picks the output, *)
(* toSolveOpt the exporter, and LoadInputs where the context and the        *)
(* Dockerfile come from.  Exporter and loader are chosen from several       *)
(* listings of the builder's pods, which may change between them, and every *)
(* temporary directory has to be gone when the build has failed.            *)
(***************************************************************************)
EXTENDS Naturals

CONSTANTS
    MaxNodes,   \* bound: running pods of the builder
    MaxChanges  \* bound: changes of their number while the options are worked out

ASSUME SolveOptionsAssumption == MaxNodes \in Nat /\ MaxChanges \in Nat

VARIABLES
    flags,     \* what the user asked for
    cluster,   \* the builder's runtime, its running pods, whether there are other builders
    changes,   \* how often the number of pods has changed
    step,      \* how far the options are
    features,  \* the exporters the builder was seen to support
    entry,     \* the export entry: its type, whether it is pushed, and its Output
    targets,   \* how many pods the loader has been set up for
    dirs,      \* LocalDirs and who reads stdin: where context and Dockerfile come from
    tmp,       \* temporary directories that exist
    releases   \* temporary directories that a release function will remove

vars == <<flags, cluster, changes, step, features, entry, targets, dirs, tmp, releases>>
inputVars == <<dirs, tmp, releases>>

\* --output: none, a path, or the type; "docker-file" is a docker output with a destination
Outputs == {"none", "local", "tar", "oci", "docker", "docker-file", "image", "registry", "containerd", "several"}
Sources == {"unset", "stdin", "dir", "remote", "temp", "nowhere"}

Flags ==
    [output : Outputs, push : BOOLEAN, load : BOOLEAN,  \* --output, --push, --load
     iidfile : BOOLEAN, platforms : 0 .. 1, tagged : BOOLEAN,
     context : {"archive", "text", "dir", "url", "missing"},  \* archive, text: "-" and what stdin holds
     file : {"", "-", "path"},                                \* --file
     valid : BOOLEAN]                                         \* network mode and extra hosts

Init ==
    /\ flags \in Flags
    /\ cluster \in [runtime : {"docker", "containerd", "rootless"}, nodes : 1 .. MaxNodes, others : BOOLEAN]
    /\ changes = 0 /\ step = "flags" /\ features = {}
    /\ entry = [type |-> "none", push |-> FALSE, sink |-> "none"]
    /\ targets = 0
    /\ dirs = [context |-> "unset", dockerfile |-> "unset"] /\ tmp = {} /\ releases = {}

\* A step that fails runs the release functions it has so far.
Release == tmp' = tmp \ releases /\ UNCHANGED releases
Fail(label) == step' = label /\ Release /\ UNCHANGED dirs

-----------------------------------------------------------------------------
(* ParseOutputs and runBuild *)

\* Mutant of Parsed: "registry" is not translated.
ParsedAsIs ==
    IF flags.output = "registry" THEN [type |-> "registry", push |-> TRUE, sink |-> "none"]
    ELSE [type |-> flags.output, push |-> FALSE, sink |-> "none"]

\* client.ExportEntry of an --output, with the Output of those that have a destination
Parsed ==
    CASE flags.output = "registry" -> [type |-> "image", push |-> TRUE, sink |-> "none"]
      [] flags.output = "docker-file" -> [type |-> "docker", push |-> FALSE, sink |-> "client"]
      [] flags.output \in {"tar", "oci"} -> [type |-> flags.output, push |-> FALSE, sink |-> "client"]
      [] OTHER -> [type |-> flags.output, push |-> FALSE, sink |-> "none"]

\* Without --output and --push, --load is implied (cmd/build.go:311).
Load == flags.load \/ (flags.output = "none" /\ ~flags.push)

\* Outputs that have a destination, which may be missing or unusable
Destinations == {"local", "tar", "oci", "docker-file", "several"}

PicksOutput ==
    /\ step = "flags"
    /\ \/ /\ (flags.push /\ Load) \/ flags.output \in Destinations
          /\ step' = "rejected" /\ UNCHANGED entry
       \/ /\ flags.push /\ ~Load
          /\ IF flags.output = "none" \/ Parsed.type = "image"
             THEN entry' = [type |-> "image", push |-> TRUE, sink |-> "none"] /\ step' = "idFile"
             ELSE step' = "rejected" /\ UNCHANGED entry
       \/ /\ ~flags.push /\ Load
          /\ IF flags.output = "none"
             THEN entry' = [type |-> "runtime", push |-> FALSE, sink |-> "none"] /\ step' = "idFile"
             ELSE IF Parsed.type \in {"docker", "containerd"} THEN entry' = Parsed /\ step' = "idFile"
             ELSE step' = "rejected" /\ UNCHANGED entry
       \/ ~flags.push /\ ~Load /\ entry' = Parsed /\ step' = "idFile"
    /\ UNCHANGED <<flags, cluster, changes, features, targets, inputVars>>

-----------------------------------------------------------------------------
(* toSolveOpt *)

\* An image id file excludes --platform, and the old one is removed.
RemovesIDFile ==
    /\ step = "idFile"
    /\ \/ flags.iidfile /\ Fail("error")
       \/ (flags.iidfile => flags.platforms = 0) /\ step' = "exports" /\ UNCHANGED inputVars
    /\ UNCHANGED <<flags, cluster, changes, features, entry, targets>>

\* Features looks at one running pod; without any, or when the call fails, it
\* sees no exporter.
Features == IF cluster.nodes = 0 THEN {} ELSE {cluster.runtime}

\* One export, and the runtime's own exporter for a load.
PicksExporter ==
    /\ step = "exports"
    /\ features' \in {Features, {}}
    /\ LET type == IF entry.type # "runtime" THEN entry.type
                   ELSE IF "containerd" \in features' THEN "image" ELSE "docker" IN
       IF flags.output = "several" \/ (entry.type = "runtime" /\ features' \cap {"containerd", "docker"} = {})
          \/ (type = "image" /\ entry.push /\ ~flags.tagged)
       THEN Fail("error") /\ UNCHANGED entry
       ELSE entry' = [entry EXCEPT !.type = type] /\ step' = "exporter" /\ UNCHANGED inputVars
    /\ UNCHANGED <<flags, cluster, changes, targets>>

\* Mutant of SetsUpExporter: an Output the user specified is replaced.
ReplacesOutput ==
    /\ step = "exporter" /\ entry.type = "docker" /\ "docker" \in features
    /\ step' = "loader" /\ entry' = [entry EXCEPT !.sink = "none"]
    /\ UNCHANGED <<flags, cluster, changes, features, targets, inputVars>>

SetsUpExporter ==
    /\ step = "exporter"
    /\ \/ /\ \/ entry.type \in {"local", "tar"} /\ flags.iidfile
             \/ entry.type = "docker" /\ "docker" \notin features
             \/ entry.type = "containerd"
             \/ entry.type = "image" /\ ~entry.push /\ "containerd" \notin features
          /\ Fail("error")
       \/ /\ entry.type = "docker" /\ "docker" \in features
          /\ step' = IF entry.sink = "none" THEN "loader" ELSE "inputs"
          /\ UNCHANGED inputVars
       \/ /\ entry.type = "image" /\ ~entry.push /\ "containerd" \in features
          /\ step' = "list" /\ UNCHANGED inputVars
       \/ /\ \/ entry.type = "oci" \/ (entry.type = "image" /\ entry.push)
             \/ entry.type \in {"local", "tar"} /\ ~flags.iidfile
          /\ step' = "inputs" /\ UNCHANGED inputVars
    /\ UNCHANGED <<flags, cluster, changes, features, entry, targets>>

\* Mutant of CountsNodes: a single builder counts as a single node.
CountsBuilders ==
    /\ step = "list"
    /\ IF cluster.others THEN entry' = [entry EXCEPT !.type = "oci"] /\ step' = "loader"
       ELSE step' = "inputs" /\ UNCHANGED entry
    /\ UNCHANGED <<flags, cluster, changes, features, targets, inputVars>>

\* d.List: with several nodes, or several builders, the image is exported to
\* the client and loaded from there.
CountsNodes ==
    /\ step = "list"
    /\ \/ Fail("error") /\ UNCHANGED entry
       \/ /\ cluster.others \/ cluster.nodes > 1
          /\ entry' = [entry EXCEPT !.type = "oci"] /\ step' = "loader" /\ UNCHANGED inputVars
       \/ /\ ~cluster.others /\ cluster.nodes <= 1
          /\ step' = "inputs" /\ UNCHANGED <<entry, inputVars>>
    /\ UNCHANGED <<flags, cluster, changes, features, targets>>

\* Mutant of SetsUpLoader: the docker loader does not check that it has a node.
SetsUpAnyLoader ==
    /\ step = "loader"
    /\ step' = "inputs" /\ targets' = cluster.nodes /\ entry' = [entry EXCEPT !.sink = "loader"]
    /\ UNCHANGED <<flags, cluster, changes, features, inputVars>>

\* newDockerLoader and newContainerdLoader list once more; only the first
\* insists on a node.
SetsUpLoader ==
    /\ step = "loader"
    /\ \/ Fail("error") /\ UNCHANGED <<targets, entry>>
       \/ /\ cluster.nodes > 0 \/ entry.type = "oci"
          /\ targets' = cluster.nodes /\ entry' = [entry EXCEPT !.sink = "loader"]
          /\ step' = "inputs" /\ UNCHANGED inputVars
    /\ UNCHANGED <<flags, cluster, changes, features>>

-----------------------------------------------------------------------------
(* LoadInputs *)

Stdin == flags.context \in {"archive", "text"}

\* The context; a Dockerfile on stdin gets an empty context directory.  That
\* TempDir's error is dropped, and the directory is not released before
\* LoadInputs has returned.
FindsContext ==
    /\ step = "inputs"
    /\ \/ /\ \/ flags.context = "missing"
             \/ flags.file = "-" /\ (Stdin \/ flags.context = "url")
             \/ flags.context = "text" /\ flags.file # ""
             \/ Stdin   \* it cannot be read
          /\ Fail("error")
       \/ /\ flags.context = "text" /\ flags.file = "" /\ step' = "dockerfile"
          /\ \/ dirs' = [context |-> "temp", dockerfile |-> "stdin"] /\ tmp' = tmp \cup {"context"}
             \/ dirs' = [context |-> "nowhere", dockerfile |-> "stdin"] /\ UNCHANGED tmp
          /\ UNCHANGED releases
       \/ /\ flags.context = "archive" /\ flags.file # "-"
          /\ dirs' = [context |-> "stdin", dockerfile |-> "unset"]
          /\ step' = "loaded" /\ UNCHANGED <<tmp, releases>>
       \/ /\ flags.context = "url" /\ flags.file # "-"
          /\ dirs' = [context |-> "remote", dockerfile |-> "unset"]
          /\ step' = "loaded" /\ UNCHANGED <<tmp, releases>>
       \/ /\ flags.context = "dir"
          /\ dirs' = [context |-> "dir", dockerfile |-> IF flags.file = "-" THEN "stdin" ELSE "dir"]
          /\ step' = IF flags.file = "-" THEN "dockerfile" ELSE "loaded"
          /\ UNCHANGED <<tmp, releases>>
    /\ UNCHANGED <<flags, cluster, changes, features, entry, targets>>

\* createTempDockerfile, whose failure leaves both directories behind
WritesDockerfile ==
    /\ step = "dockerfile"
    /\ \/ /\ step' = "loaded"
          /\ dirs' = [dirs EXCEPT !.dockerfile = "temp"] /\ tmp' = tmp \cup {"dockerfile"}
          /\ UNCHANGED releases
       \/ \E made \in {{}, {"dockerfile"}} :
             /\ step' = "inputsFailed" /\ tmp' = tmp \cup made /\ UNCHANGED <<dirs, releases>>
    /\ UNCHANGED <<flags, cluster, changes, features, entry, targets>>

\* Mutant of Loads: the release function of LoadInputs is lost.
LoadsUnreleased ==
    /\ step = "loaded" /\ step' = IF flags.valid THEN "solve" ELSE "error"
    /\ UNCHANGED <<flags, cluster, changes, features, entry, targets, inputVars>>

\* Mutant of Loads: toSolveOpt releases when it returns, not only on errors.
LoadsReleasing ==
    /\ step = "loaded" /\ step' = IF flags.valid THEN "solve" ELSE "error"
    /\ releases' = tmp /\ tmp' = {}
    /\ UNCHANGED <<flags, cluster, changes, features, entry, targets, dirs>>

\* LoadInputs returns its release function; network mode and hosts are checked
\* after it.
Loads ==
    /\ step = "loaded"
    /\ IF flags.valid THEN step' = "solve" /\ releases' = tmp /\ UNCHANGED tmp
       ELSE step' = "error" /\ releases' = tmp /\ tmp' = {}
    /\ UNCHANGED <<flags, cluster, changes, features, entry, targets, dirs>>

\* Build's deferred releases run only when it fails.
Solves ==
    /\ step = "solve"
    /\ Fail("failed") \/ (step' = "ok" /\ UNCHANGED inputVars)
    /\ UNCHANGED <<flags, cluster, changes, features, entry, targets>>

\* Pods of the builder come and go.
Scales ==
    /\ step \in {"exports", "exporter", "list", "loader"} /\ changes < MaxChanges
    /\ \E n \in 0 .. MaxNodes \ {cluster.nodes} : cluster' = [cluster EXCEPT !.nodes = n]
    /\ changes' = changes + 1
    /\ UNCHANGED <<flags, step, features, entry, targets, inputVars>>

ToSolveOpt ==
    \/ RemovesIDFile \/ PicksExporter \/ SetsUpExporter \/ CountsNodes \/ SetsUpLoader
    \/ FindsContext \/ WritesDockerfile \/ Loads

Next == PicksOutput \/ ToSolveOpt \/ Solves \/ Scales

Spec == Init /\ [][Next]_vars

-----------------------------------------------------------------------------
(* Properties *)

\* The type invariant.
TypeOK ==
    /\ flags \in Flags
    /\ cluster \in [runtime : {"docker", "containerd", "rootless"}, nodes : 0 .. MaxNodes, others : BOOLEAN]
    /\ changes \in 0 .. MaxChanges
    /\ step \in {"flags", "rejected", "idFile", "exports", "exporter", "list", "loader", "inputs", "dockerfile",
                 "loaded", "solve", "inputsFailed", "error", "failed", "ok"}
    /\ features \subseteq {"docker", "containerd", "rootless"}
    /\ entry \in [type : (Outputs \ {"registry", "docker-file"}) \cup {"runtime"}, push : BOOLEAN, sink : {"none", "client", "loader"}]
    /\ targets \in 0 .. MaxNodes
    /\ dirs \in [context : Sources, dockerfile : Sources]
    /\ tmp \subseteq {"context", "dockerfile"} /\ releases \subseteq {"context", "dockerfile"}

\* Where the user wants the image: in the registry, on the client, or in the
\* builder's runtime (the hints of kubectl build, cmd/build.go:293).
Wanted ==
    IF flags.push \/ flags.output = "registry" THEN "registry"
    ELSE IF flags.output \in {"none", "image", "docker", "containerd"} THEN "runtime" ELSE "client"

Delivered ==
    IF entry.push THEN "registry"
    ELSE IF entry.sink = "client" \/ entry.type = "local" THEN "client" ELSE "runtime"

\* No combination of flags and no builder changes where the image goes: a
\* build that is not refused delivers it where the user wants it.
DeliveredAsWanted == step \in {"solve", "ok"} => Delivered = Wanted

\* A load that starts while the builder's pods stay as they are reaches every
\* one of them: the only one's own runtime, or all through the loader.
LoadReachesAllNodes ==
    step \in {"solve", "ok"} /\ Wanted = "runtime" /\ changes = 0 =>
        /\ "rootless" # cluster.runtime
        /\ (entry.sink = "loader" /\ targets = cluster.nodes) \/ (entry.sink = "none" /\ cluster.nodes = 1)

\* Whatever happens to the pods, an image for docker has a node to go to.
DockerLoadHasNode == step \in {"solve", "ok"} /\ entry.type = "docker" /\ entry.sink = "loader" => targets > 0

\* While it is solved, the temporary directories a build reads from are there,
\* and stdin is read once, by the context or by the Dockerfile.
InputsInPlace ==
    step = "solve" =>
        /\ \A part \in {"context", "dockerfile"} : dirs[part] = "temp" => part \in tmp
        /\ (flags.context = "text" \/ flags.file = "-") => dirs.dockerfile = "temp"
        /\ flags.context = "archive" => dirs.context = "stdin" /\ dirs.dockerfile # "temp"

\* A failed build leaves no temporary directory behind, unless making one failed.
FailureReleases == step \in {"error", "failed"} => tmp = {}
=============================================================================
