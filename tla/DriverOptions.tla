------------------------------ MODULE DriverOptions ------------------------------
(***************************************************************************)
(* From the flags of a command to the Deployment its driver wants           *)
(* (runCreate, buildTargets, factory.New, initDriverFromConfig,             *)
(* NewDeployment), and to the one it wants after createBuilder has flipped  *)
(* its runtime.  One command faces a Deployment that it, or another command *)
(* with other flags, has created on nodes that have some runtimes' sockets. *)
(* What the calls to the cluster do is in BuilderBootstrap.                 *)
(***************************************************************************)
EXTENDS Naturals, FiniteSets

CONSTANTS
    MaxReplicas  \* bound: replicas that are asked for

ASSUME OptionsAssumption == MaxReplicas \in Nat \ {0}

Runtimes == {"docker", "containerd"}

\* The driver options of "kubectl buildkit create": "" is an empty string
CreateOpts ==
    [runtime : Runtimes \cup {"auto"}, worker : {"auto", "runc", "containerd"}, rootless : BOOLEAN,
     image : {"", "custom"}, replicas : 1 .. MaxReplicas, loadbalance : {"random", "sticky"},
     customConfig : {"", "certs"}]

\* buildTargets passes proxies only: the other options are absent.
BuildOpts ==
    [runtime |-> "absent", worker |-> "absent", rootless |-> FALSE, image |-> "", replicas |-> 1,
     loadbalance |-> "absent", customConfig |-> ""]

VARIABLES
    step,     \* where the command is
    opts,     \* InitConfig.DriverOpts
    user,     \* auxiliary: the options as the user gave them
    driver,   \* what initDriverFromConfig has set up
    stored,   \* the Deployment in the cluster
    sockets,  \* the runtimes whose socket the nodes have
    flips     \* Updates of createBuilder

vars == <<step, opts, user, driver, stored, sockets, flips>>

-----------------------------------------------------------------------------
(* initDriverFromConfig and NewDeployment *)

\* Mutant of Default: "auto" is taken for a value.
DefaultKeepsAuto(value, otherwise) == IF value \in {"absent", ""} THEN otherwise ELSE value

\* An option that is absent, empty or "auto" has its default.
Default(value, otherwise) == IF value \in {"absent", "", "auto"} THEN otherwise ELSE value

ContainerRuntime(o) == Default(o.runtime, "docker")

\* "auto" follows the runtime; without the option there is no worker.
Worker(o) ==
    IF o.worker # "auto" THEN Default(o.worker, "")
    ELSE IF ContainerRuntime(o) = "containerd" THEN "containerd" ELSE "runc"

\* Mutant of Refused: the settings are compared before the defaults are wired up.
RefusedEarly(o) == o.rootless /\ o.worker = "containerd"

Refused(o) == o.rootless /\ Worker(o) = "containerd"

\* Mutant of UserSpecified: a runtime counts when it differs from the default.
UserSpecifiedOther(o, before) == o.runtime = "containerd" \/ before

\* Of the option's values only "auto" resets userSpecifiedRuntime.
UserSpecified(o, before) == IF o.runtime = "absent" THEN before ELSE o.runtime # "auto"

Labels(o) == [app |-> "builder", runtime |-> ContainerRuntime(o), worker |-> Worker(o), rootless |-> o.rootless]

\* Mutant of Selector: the pods are selected by all their labels.
SelectorAll(o) == Labels(o)

Selector(o) == [app |-> "builder"]

\* Mutant of Mounts: the socket follows the flag, not what it resolves to.
MountsOfFlag(o) ==
    {"config"}
    \cup (IF o.worker = "containerd" THEN {"containerd", "directories"} ELSE {})
    \cup (IF ContainerRuntime(o) = "docker" /\ ~o.rootless THEN {"docker"} ELSE {})
    \cup (IF o.customConfig # "" THEN {o.customConfig} ELSE {})

\* The ConfigMap, the sockets with the directories a worker shares with its
\* node, and the user's own ConfigMap.
Mounts(o) ==
    {"config"}
    \cup (IF Worker(o) = "containerd" THEN {"containerd", "directories"} ELSE {})
    \cup (IF ContainerRuntime(o) = "docker" /\ ~o.rootless THEN {"docker"} ELSE {})
    \cup (IF o.customConfig # "" THEN {o.customConfig} ELSE {})

\* Pods that mount a runtime's socket are spread over the nodes.
NewDeployment(o) ==
    [labels |-> Labels(o), selector |-> Selector(o), replicas |-> o.replicas,
     image |-> IF o.image # "" THEN o.image ELSE IF o.rootless THEN "rootless" ELSE "default",
     privileged |-> ~o.rootless, mounts |-> Mounts(o),
     spread |-> Mounts(o) \cap Runtimes # {}]

\* The driver's fields; its chooser is picked from loadbalance.
Driver(o, before) ==
    [userSpecifiedRuntime |-> UserSpecified(o, before), deployment |-> NewDeployment(o),
     minReplicas |-> o.replicas, loadbalance |-> Default(o.loadbalance, "sticky")]

NoDeployment == [NewDeployment(BuildOpts) EXCEPT !.replicas = 0]
NoDriver == [userSpecifiedRuntime |-> FALSE, deployment |-> NoDeployment, minReplicas |-> 0, loadbalance |-> "none"]

-----------------------------------------------------------------------------
\* Another command may have created the builder, with its own runtime and worker.
Others ==
    {BuildOpts} \cup
    [runtime : Runtimes \cup {"auto"}, worker : {"auto", "runc", "containerd"}, rootless : BOOLEAN,
     image : {""}, replicas : {1}, loadbalance : {"absent"}, customConfig : {""}]

Init ==
    /\ opts \in CreateOpts \cup {BuildOpts} /\ user = opts
    /\ stored \in {NoDeployment} \cup {NewDeployment(o) : o \in {p \in Others : ~Refused(p)}}
    /\ sockets \in SUBSET Runtimes
    /\ step = "new" /\ driver = NoDriver /\ flips = 0

\* factory.New
New ==
    /\ step = "new"
    /\ IF Refused(opts) THEN step' = "refused" /\ UNCHANGED driver
       ELSE step' = "create" /\ driver' = Driver(opts, FALSE)
    /\ UNCHANGED <<opts, user, stored, sockets, flips>>

\* createBuilder creates the Deployment unless there is one.
Creates ==
    /\ step = "create" /\ step' = "wait"
    /\ stored' = IF stored = NoDeployment THEN driver.deployment ELSE stored
    /\ UNCHANGED <<opts, user, driver, sockets, flips>>

\* Enough pods are ready: every socket they mount is there.
BecomesReady ==
    /\ step = "wait" /\ stored.mounts \cap Runtimes \subseteq sockets
    /\ step' = "ready"
    /\ UNCHANGED <<opts, user, driver, stored, sockets, flips>>

MountFails == step = "wait" /\ ~(stored.mounts \cap Runtimes \subseteq sockets)

\* The callback's error is not passed on; the event is not looked at again.
KeepsRuntime ==
    /\ MountFails /\ driver.userSpecifiedRuntime
    /\ step' = "stuck"
    /\ UNCHANGED <<opts, user, driver, stored, sockets, flips>>

\* Mutant of Flipped: the options start over.
FlippedOnly(o) == [BuildOpts EXCEPT !.runtime = "containerd", !.worker = "auto"]

Flipped(o) == [o EXCEPT !.runtime = "containerd", !.worker = "auto"]

\* What initDriverFromConfig has set before it refuses stays set.  If it does
\* not, the Deployment is replaced, in case nobody else has changed it.
Flips ==
    /\ MountFails /\ ~driver.userSpecifiedRuntime
    /\ opts' = Flipped(opts)
    /\ IF Refused(opts')
       THEN /\ driver' = [driver EXCEPT !.userSpecifiedRuntime = UserSpecified(opts', FALSE)]
            /\ step' = "stuck" /\ UNCHANGED <<stored, flips>>
       ELSE /\ driver' = Driver(opts', FALSE)
            /\ stored' = driver'.deployment /\ flips' = flips + 1 /\ UNCHANGED step
    /\ UNCHANGED <<user, sockets>>

Next == New \/ Creates \/ BecomesReady \/ KeepsRuntime \/ Flips

Spec == Init /\ [][Next]_vars

-----------------------------------------------------------------------------
(* What later builds make of the Deployment *)

\* Features: the runtime an image can be loaded into, by the pods' labels
Features(depl) == IF depl.labels.rootless THEN {} ELSE {depl.labels.runtime}

Exists == stored # NoDeployment

-----------------------------------------------------------------------------
(* Properties *)

\* The type invariant: in particular, "auto" is resolved before it reaches a Deployment.
TypeOK ==
    /\ step \in {"new", "refused", "create", "wait", "ready", "stuck"}
    /\ {opts, user} \subseteq [runtime : Runtimes \cup {"auto", "absent"}, worker : {"auto", "runc", "containerd", "absent"},
                              rootless : BOOLEAN, image : {"", "custom"}, replicas : 1 .. MaxReplicas,
                              loadbalance : {"random", "sticky", "absent"}, customConfig : {"", "certs"}]
    /\ driver.userSpecifiedRuntime \in BOOLEAN /\ driver.loadbalance \in {"none", "random", "sticky"}
    /\ \A depl \in {stored, driver.deployment} :
          /\ depl.labels \in [app : {"builder"}, runtime : Runtimes, worker : {"", "runc", "containerd"}, rootless : BOOLEAN]
          /\ depl.mounts \subseteq {"config", "docker", "containerd", "directories", "certs"}
    /\ sockets \subseteq Runtimes /\ flips \in Nat

\* The runtime of a Deployment this command made is the user's, if the user chose
\* one: it flips, once at most, only when left to choose.
UserRuntimeKept ==
    /\ flips \in 0 .. 1
    /\ user.runtime \in Runtimes =>
          flips = 0 /\ (driver # NoDriver => driver.deployment.labels.runtime = user.runtime)

\* A flip changes the runtime and what depends on it: the user's other options,
\* and what the API server would refuse to change, are as they were.
FlipKeepsOptions ==
    [][flips' # flips =>
          /\ driver'.minReplicas = driver.minReplicas
          /\ \A field \in {"selector", "replicas", "image", "privileged"} :
                driver'.deployment[field] = driver.deployment[field]
          /\ driver'.deployment.mounts \ {"docker", "containerd", "directories"}
                = driver.deployment.mounts \ {"docker", "containerd", "directories"}]_vars

\* The API server takes the Update of a flip: a Deployment's selector is immutable.
FlipIsAccepted == [][Exists /\ flips' # flips => stored'.selector = stored.selector]_vars

\* A rootless builder gets nothing of its node: no privileges, no socket, no directory.
RootlessTouchesNoNode ==
    Exists /\ stored.labels.rootless =>
        ~stored.privileged /\ stored.mounts \cap {"docker", "containerd", "directories"} = {}

\* A build loads its image through the socket of the runtime its builder is
\* labelled with: docker's is mounted, and containerd's after a flip.
LabelledRuntimeMounted ==
    Exists /\ ("docker" \in Features(stored) \/ flips > 0) => Features(stored) \subseteq stored.mounts

-----------------------------------------------------------------------------
(* What the documentation says, and the code does not do *)

\* "If --push or --output are not specified, and the builder(s) are not running in
\* "rootless" mode, built images will be saved in the builder(s) runtime(s)"
\* (src/pkg/cmd/build.go:294): the builder that is ready can reach its runtime.
LoadsIntoRuntime == step = "ready" => Features(stored) \subseteq stored.mounts
=============================================================================
