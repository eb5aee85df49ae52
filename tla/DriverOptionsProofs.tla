--------------------------- MODULE DriverOptionsProofs ---------------------------
(***************************************************************************)
(* Theorems about the options of a driver, for any number of replicas and   *)
(* every combination of options, Deployment and sockets.                    *)
(***************************************************************************)
EXTENDS DriverOptions, TLAPS

Options == [runtime : Runtimes \cup {"auto", "absent"}, worker : {"auto", "runc", "containerd", "absent"},
            rootless : BOOLEAN, image : {"", "custom"}, replicas : 1 .. MaxReplicas,
            loadbalance : {"random", "sticky", "absent"}, customConfig : {"", "certs"}]

\* What a Deployment of this program has whatever its options
Sound(depl) ==
    /\ depl.selector = [app |-> "builder"]
    /\ depl.labels.rootless =>
          ~depl.privileged /\ depl.mounts \cap {"docker", "containerd", "directories"} = {}
    /\ "docker" \in Features(depl) => Features(depl) \subseteq depl.mounts

\* While createBuilder runs, the driver's Deployment is that of the present
\* options; they are the user's until a flip, which only an unspecified runtime
\* allows and which leaves the runtime specified.
OptionsInv ==
    /\ opts \in Options /\ user \in Options
    /\ step \in {"new", "refused", "create", "wait", "ready", "stuck"}
    /\ step \in {"new", "refused"} => driver = NoDriver
    /\ step \in {"create", "wait"} =>
          /\ ~Refused(opts) /\ driver.deployment = NewDeployment(opts)
          /\ driver.minReplicas = opts.replicas
          /\ opts.runtime \in Runtimes => driver.userSpecifiedRuntime
    /\ user.runtime \in Runtimes =>
          /\ opts = user /\ flips = 0
          /\ driver = NoDriver \/ driver.deployment.labels.runtime = user.runtime
    /\ step \in {"new", "create"} => flips = 0
    /\ flips \in 0 .. 1
    /\ flips = 1 => /\ opts.runtime = "containerd" /\ opts.worker = "auto"
                    /\ stored = NewDeployment(opts)
    /\ stored = NoDeployment \/ Sound(stored)
    /\ stored.selector = [app |-> "builder"]

LEMMA OptionsAreTyped ==
    /\ CreateOpts \cup {BuildOpts} \cup Others \subseteq Options
    /\ \A o \in Options : Flipped(o) \in Options
<1>1. BuildOpts \in Options
  BY OptionsAssumption DEF BuildOpts, Options
<1>2. CreateOpts \subseteq Options BY DEF CreateOpts, Options
<1>3. Others \subseteq Options
  <2>1. 1 \in 1 .. MaxReplicas BY OptionsAssumption
  <2>2. \A o \in Others : o = BuildOpts \/ o \in Options BY <2>1 DEF Others, Options
  <2>. QED BY <1>1, <2>2
<1>4. \A o \in Options : Flipped(o) \in Options BY DEF Flipped, Options, Runtimes
<1>. QED BY <1>1, <1>2, <1>3, <1>4

\* A Deployment whose options are not refused is sound: the refusal is what keeps
\* a rootless builder away from its node.
LEMMA NewDeploymentIsSound ==
    ASSUME NEW o \in Options, ~Refused(o)
    PROVE  Sound(NewDeployment(o))
BY DEF Options, Refused, Sound, NewDeployment, Labels, Selector, Mounts, Features, ContainerRuntime, Runtimes

\* A specified runtime is the one that is deployed.
LEMMA RuntimeIsDeployed ==
    ASSUME NEW o \in Options, o.runtime \in Runtimes
    PROVE  NewDeployment(o).labels.runtime = o.runtime /\ UserSpecified(o, FALSE)
BY DEF NewDeployment, Labels, ContainerRuntime, Default, UserSpecified, Runtimes

\* What initDriverFromConfig has set up
LEMMA DriverIsOfOptions ==
    ASSUME NEW o \in Options
    PROVE  /\ Driver(o, FALSE).deployment = NewDeployment(o) /\ Driver(o, FALSE).minReplicas = o.replicas
           /\ Driver(o, FALSE).userSpecifiedRuntime = UserSpecified(o, FALSE)
BY DEF Driver

LEMMA OptionsInit == Init => OptionsInv
<1>. SUFFICES ASSUME Init PROVE OptionsInv
  OBVIOUS
<1>1. opts \in Options /\ user = opts BY OptionsAreTyped DEF Init
<1>2. stored = NoDeployment \/ Sound(stored)
  <2>. SUFFICES ASSUME NEW o \in Others, ~Refused(o), stored = NewDeployment(o) PROVE Sound(stored)
    BY DEF Init
  <2>. QED BY OptionsAreTyped, NewDeploymentIsSound
<1>3. stored.selector = [app |-> "builder"]
  BY <1>2 DEF Sound, NoDeployment, NewDeployment, Selector
<1>. QED BY <1>1, <1>2, <1>3 DEF Init, OptionsInv

LEMMA OptionsStep ==
    ASSUME OptionsInv, [Next]_vars
    PROVE  OptionsInv'
<1> USE DEF OptionsInv
<1>1. CASE New
  <2>1. CASE Refused(opts) BY <1>1, <2>1 DEF New
  <2>2. CASE ~Refused(opts)
    <3>1. driver' = Driver(opts, FALSE) /\ step' = "create" /\ UNCHANGED <<opts, user, stored, sockets, flips>>
      BY <1>1, <2>2 DEF New
    <3>. QED BY <1>1, <2>2, <3>1, DriverIsOfOptions, RuntimeIsDeployed DEF New
  <2>. QED BY <2>1, <2>2
<1>2. CASE Creates
  <2>1. Sound(driver.deployment) BY <1>2, NewDeploymentIsSound DEF Creates
  <2>2. stored' = NoDeployment \/ Sound(stored') BY <1>2, <2>1 DEF Creates
  <2>3. stored'.selector = [app |-> "builder"] BY <1>2, <2>1 DEF Creates, Sound
  <2>. QED BY <1>2, <2>2, <2>3 DEF Creates
<1>3. CASE BecomesReady BY <1>3 DEF BecomesReady
<1>4. CASE KeepsRuntime BY <1>4 DEF KeepsRuntime, MountFails
<1>5. CASE Flips
  <2>1. opts' = Flipped(opts) /\ opts' \in Options BY <1>5, OptionsAreTyped DEF Flips
  <2>2. opts'.runtime = "containerd" /\ opts'.worker = "auto" BY <2>1 DEF Flipped, Options
  <2>3. opts.runtime \notin Runtimes /\ flips = 0
    BY <1>5 DEF Flips, MountFails, Runtimes
  <2>4. user.runtime \notin Runtimes BY <2>3
  <2>5. CASE Refused(opts')
    BY <1>5, <2>1, <2>3, <2>4, <2>5 DEF Flips, MountFails
  <2>6. CASE ~Refused(opts')
    <3>1. /\ driver' = Driver(opts', FALSE) /\ stored' = driver'.deployment /\ flips' = flips + 1
          /\ step' = "wait" /\ user' = user
      BY <1>5, <2>6 DEF Flips, MountFails
    <3>2. /\ driver'.deployment = NewDeployment(opts') /\ driver'.minReplicas = opts'.replicas
          /\ driver'.userSpecifiedRuntime
      BY <2>1, <2>2, <3>1, DriverIsOfOptions, RuntimeIsDeployed DEF Runtimes
    <3>3. Sound(stored') /\ stored' = NewDeployment(opts')
      BY <2>1, <2>6, <3>1, <3>2, NewDeploymentIsSound
    <3>4. flips' = 1 BY <2>3, <3>1
    <3>5. stored'.selector = [app |-> "builder"] BY <3>3 DEF Sound
    <3>6. user'.runtime \notin Runtimes /\ user' \in Options BY <2>4, <3>1
    <3>7. ~Refused(opts') /\ opts' \in Options BY <2>1, <2>6
    <3>8. step' \in {"create", "wait"} =>
            /\ ~Refused(opts') /\ driver'.deployment = NewDeployment(opts')
            /\ driver'.minReplicas = opts'.replicas
            /\ opts'.runtime \in Runtimes => driver'.userSpecifiedRuntime
      BY <3>2, <3>7
    <3>9. step' \notin {"new", "refused", "create"} /\ step' \in {"wait"} BY <3>1
    <3>10. flips' \in 0 .. 1 BY <3>4
    <3>. QED BY <2>2, <3>3, <3>4, <3>5, <3>6, <3>7, <3>8, <3>9, <3>10
  <2>. QED BY <2>5, <2>6
<1>6. CASE UNCHANGED vars BY <1>6 DEF vars
<1>. QED BY <1>1, <1>2, <1>3, <1>4, <1>5, <1>6 DEF Next

LEMMA OptionsInvHolds == Spec => []OptionsInv
BY OptionsInit, OptionsStep, PTL DEF Spec

-----------------------------------------------------------------------------
DeploymentType(depl) ==
    /\ depl.labels \in [app : {"builder"}, runtime : Runtimes, worker : {"", "runc", "containerd"}, rootless : BOOLEAN]
    /\ depl.mounts \subseteq {"config", "docker", "containerd", "directories", "certs"}

Deployments == {NoDeployment} \cup {NewDeployment(o) : o \in Options}

DriverType ==
    /\ driver \in [userSpecifiedRuntime : BOOLEAN, deployment : Deployments,
                   minReplicas : 0 .. MaxReplicas, loadbalance : {"none", "random", "sticky"}]
    /\ stored \in Deployments /\ sockets \subseteq Runtimes

\* The defaults leave neither "auto" nor an absent option.
LEMMA DriverHasType ==
    ASSUME NEW o \in Options
    PROVE  /\ DeploymentType(NewDeployment(o))
           /\ Driver(o, FALSE) \in [userSpecifiedRuntime : BOOLEAN, deployment : Deployments,
                                   minReplicas : 0 .. MaxReplicas, loadbalance : {"none", "random", "sticky"}]
<1>1. ContainerRuntime(o) \in Runtimes BY DEF ContainerRuntime, Default, Options, Runtimes
<1>2. Worker(o) \in {"", "runc", "containerd"} BY DEF Worker, Default, Options
<1>3. Labels(o) \in [app : {"builder"}, runtime : Runtimes, worker : {"", "runc", "containerd"}, rootless : BOOLEAN]
  BY <1>1, <1>2 DEF Labels, Options
<1>4. Mounts(o) \subseteq {"config", "docker", "containerd", "directories", "certs"}
  BY DEF Mounts, Options
<1>5. DeploymentType(NewDeployment(o)) BY <1>3, <1>4 DEF DeploymentType, NewDeployment
<1>6. UserSpecified(o, FALSE) \in BOOLEAN BY DEF UserSpecified
<1>7. Default(o.loadbalance, "sticky") \in {"random", "sticky"} BY DEF Default, Options
<1>8. NewDeployment(o) \in Deployments BY DEF Deployments
<1>9. o.replicas \in 0 .. MaxReplicas
  <2>1. o.replicas \in 1 .. MaxReplicas BY DEF Options
  <2>. QED BY <2>1, OptionsAssumption
<1>. QED BY <1>5, <1>6, <1>7, <1>8, <1>9 DEF Driver

LEMMA DeploymentsHaveType == \A depl \in Deployments : DeploymentType(depl)
<1>1. BuildOpts \in Options BY OptionsAreTyped
<1>2. DeploymentType(NewDeployment(BuildOpts)) BY <1>1, DriverHasType
<1>3. NoDeployment.labels = NewDeployment(BuildOpts).labels /\ NoDeployment.mounts = NewDeployment(BuildOpts).mounts
  BY DEF NoDeployment, NewDeployment
<1>4. DeploymentType(NoDeployment) BY <1>2, <1>3 DEF DeploymentType
<1>. QED BY <1>4, DriverHasType DEF Deployments

LEMMA DriverTypeStep ==
    ASSUME OptionsInv, DriverType, [Next]_vars
    PROVE  DriverType'
<1> USE DEF DriverType
<1>1. CASE New
  <2>1. UNCHANGED driver \/ driver' = Driver(opts, FALSE) BY <1>1 DEF New
  <2>. QED BY <1>1, <2>1, DriverHasType, DriverIsOfOptions DEF New, OptionsInv
<1>2. CASE Creates BY <1>2 DEF Creates
<1>3. CASE BecomesReady BY <1>3 DEF BecomesReady
<1>4. CASE KeepsRuntime BY <1>4 DEF KeepsRuntime
<1>5. CASE Flips
  <2>1. opts' \in Options BY <1>5, OptionsAreTyped DEF Flips, OptionsInv
  <2>2. UNCHANGED sockets BY <1>5 DEF Flips
  <2>3. CASE Refused(opts')
    <3>1. driver' = [driver EXCEPT !.userSpecifiedRuntime = UserSpecified(opts', FALSE)] /\ UNCHANGED stored
      BY <1>5, <2>3 DEF Flips
    <3>2. UserSpecified(opts', FALSE) \in BOOLEAN BY DEF UserSpecified
    <3>. QED BY <2>2, <3>1, <3>2
  <2>4. CASE ~Refused(opts')
    <3>1. driver' = Driver(opts', FALSE) /\ stored' = driver'.deployment BY <1>5, <2>4 DEF Flips
    <3>. QED BY <2>1, <2>2, <3>1, DriverHasType, DriverIsOfOptions
  <2>. QED BY <2>3, <2>4
<1>6. CASE UNCHANGED vars BY <1>6 DEF vars
<1>. QED BY <1>1, <1>2, <1>3, <1>4, <1>5, <1>6 DEF Next

\* Every variable keeps its type, whatever the options: "auto" never reaches a
\* Deployment.
THEOREM OptionsTypeCorrect == Spec => []TypeOK
<1>1. Init => DriverType
  <2>. SUFFICES ASSUME Init PROVE DriverType
    OBVIOUS
  <2>1. stored \in Deployments BY OptionsAreTyped DEF Init, Deployments
  <2>2. NoDriver \in [userSpecifiedRuntime : BOOLEAN, deployment : Deployments,
                      minReplicas : 0 .. MaxReplicas, loadbalance : {"none", "random", "sticky"}]
    BY OptionsAssumption DEF NoDriver, Deployments
  <2>. QED BY <2>1, <2>2 DEF Init, DriverType
<1>2. ASSUME OptionsInv, DriverType PROVE TypeOK
  <2>1. {opts, user} \subseteq Options BY <1>2 DEF OptionsInv
  <2>2. \A depl \in {stored, driver.deployment} : DeploymentType(depl)
    BY <1>2, DeploymentsHaveType DEF DriverType
  <2>3. driver.userSpecifiedRuntime \in BOOLEAN /\ driver.loadbalance \in {"none", "random", "sticky"}
    BY <1>2 DEF DriverType
  <2>4. sockets \subseteq Runtimes /\ flips \in Nat BY <1>2 DEF DriverType, OptionsInv
  <2>5. step \in {"new", "refused", "create", "wait", "ready", "stuck"} BY <1>2 DEF OptionsInv
  <2>. QED BY <2>1, <2>2, <2>3, <2>4, <2>5 DEF TypeOK, DeploymentType, Options
<1>. QED BY <1>1, <1>2, DriverTypeStep, OptionsInvHolds, PTL DEF Spec

-----------------------------------------------------------------------------
\* What does not depend on runtime and worker is the same in both Deployments.
LEMMA FlippedDeployment ==
    ASSUME NEW o \in Options
    PROVE  /\ Flipped(o).replicas = o.replicas
           /\ \A field \in {"selector", "replicas", "image", "privileged"} :
                 NewDeployment(Flipped(o))[field] = NewDeployment(o)[field]
           /\ NewDeployment(Flipped(o)).mounts \ {"docker", "containerd", "directories"}
                 = NewDeployment(o).mounts \ {"docker", "containerd", "directories"}
<1>1. /\ Flipped(o).rootless = o.rootless /\ Flipped(o).image = o.image
      /\ Flipped(o).replicas = o.replicas /\ Flipped(o).customConfig = o.customConfig
  BY DEF Flipped, Options
<1>2. NewDeployment(Flipped(o)).selector = NewDeployment(o).selector BY DEF NewDeployment, Selector
<1>3. NewDeployment(Flipped(o)).replicas = NewDeployment(o).replicas BY <1>1 DEF NewDeployment
<1>4. NewDeployment(Flipped(o)).image = NewDeployment(o).image BY <1>1 DEF NewDeployment
<1>5. NewDeployment(Flipped(o)).privileged = NewDeployment(o).privileged BY <1>1 DEF NewDeployment
<1>6. Mounts(Flipped(o)) \ {"docker", "containerd", "directories"} = Mounts(o) \ {"docker", "containerd", "directories"}
  BY <1>1 DEF Mounts
<1>7. NewDeployment(Flipped(o)).mounts = Mounts(Flipped(o)) /\ NewDeployment(o).mounts = Mounts(o)
  BY DEF NewDeployment
<1>. QED BY <1>1, <1>2, <1>3, <1>4, <1>5, <1>6, <1>7

\* The driver flips at most once, and never away from a runtime the user chose.
THEOREM UserRuntimeKeptHolds == Spec => []UserRuntimeKept
<1>1. OptionsInv => UserRuntimeKept
  BY DEF OptionsInv, UserRuntimeKept
<1>. QED BY <1>1, OptionsInvHolds, PTL

\* No rootless builder gets privileges, a socket or a directory of its node,
\* whoever has created it and whether or not it was flipped.
THEOREM RootlessTouchesNoNodeHolds == Spec => []RootlessTouchesNoNode
<1>1. OptionsInv => RootlessTouchesNoNode
  BY DEF OptionsInv, RootlessTouchesNoNode, Sound, Exists
<1>. QED BY <1>1, OptionsInvHolds, PTL

\* A builder labelled with docker has docker's socket, a flipped one containerd's.
THEOREM LabelledRuntimeMountedHolds == Spec => []LabelledRuntimeMounted
<1>1. ASSUME OptionsInv PROVE LabelledRuntimeMounted
  <2>1. CASE flips = 0 BY <1>1, <2>1 DEF OptionsInv, LabelledRuntimeMounted, Sound, Exists
  <2>2. CASE flips = 1
    <3>1. stored = NewDeployment(opts) /\ opts.runtime = "containerd" /\ opts.worker = "auto"
      BY <1>1, <2>2 DEF OptionsInv
    <3>2. ContainerRuntime(opts) = "containerd" BY <3>1 DEF ContainerRuntime, Default
    <3>3. Worker(opts) = "containerd" BY <3>1, <3>2 DEF Worker
    <3>4. "containerd" \in stored.mounts BY <3>1, <3>3 DEF NewDeployment, Mounts
    <3>5. stored.labels.runtime = "containerd" BY <3>1, <3>2 DEF NewDeployment, Labels
    <3>. QED BY <3>4, <3>5 DEF LabelledRuntimeMounted, Features
  <2>. QED BY <1>1, <2>1, <2>2 DEF OptionsInv
<1>. QED BY <1>1, OptionsInvHolds, PTL

\* A flip keeps the user's other options.
THEOREM FlipKeepsOptionsHolds == Spec => FlipKeepsOptions
<1>1. ASSUME OptionsInv, [Next]_vars, flips' # flips
      PROVE  /\ driver'.minReplicas = driver.minReplicas
             /\ \A field \in {"selector", "replicas", "image", "privileged"} :
                   driver'.deployment[field] = driver.deployment[field]
             /\ driver'.deployment.mounts \ {"docker", "containerd", "directories"}
                   = driver.deployment.mounts \ {"docker", "containerd", "directories"}
  <2>1. Flips BY <1>1 DEF Next, New, Creates, BecomesReady, KeepsRuntime, vars
  <2>2. opts \in Options /\ opts' = Flipped(opts) /\ opts' \in Options
    BY <1>1, <2>1, OptionsAreTyped DEF Flips, OptionsInv
  <2>3. driver' = Driver(opts', FALSE) /\ driver.deployment = NewDeployment(opts) /\ driver.minReplicas = opts.replicas
    BY <1>1, <2>1 DEF Flips, MountFails, OptionsInv
  <2>4. driver'.deployment = NewDeployment(opts') /\ driver'.minReplicas = opts'.replicas
    BY <2>2, <2>3, DriverIsOfOptions
  <2>. QED BY <2>2, <2>3, <2>4, FlippedDeployment
<1>. QED BY <1>1, OptionsInvHolds, PTL DEF Spec, FlipKeepsOptions

\* A flip never changes the selector, which the API server would refuse.
THEOREM FlipIsAcceptedHolds == Spec => FlipIsAccepted
<1>1. ASSUME OptionsInv, OptionsInv' PROVE stored'.selector = stored.selector
  BY <1>1 DEF OptionsInv
<1>. QED BY <1>1, OptionsInvHolds, PTL DEF FlipIsAccepted
=============================================================================
