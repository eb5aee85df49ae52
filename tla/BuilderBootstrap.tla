--------------------------- MODULE BuilderBootstrap ---------------------------
(***************************************************************************)
(* How kubectl-buildkit processes boot one builder together.               *)
(*                                                                         *)
(* Creators run driver.Boot (kubectl build, kubectl buildkit create):      *)
(* Info, then createConfigMap and createBuilder until the Deployment has   *)
(* enough ready replicas, then Clients.  Removers run kubectl buildkit rm. *)
(* They share nothing but the Kubernetes API, so every API call is one     *)
(* action and anything may happen between two of them.  The part of the    *)
(* cluster the code relies on (API server, Deployment and ReplicaSet       *)
(* controllers, kubelet, garbage collector) is modelled from that use.     *)
(***************************************************************************)
EXTENDS Naturals, FiniteSets

CONSTANTS
    Creators,         \* processes that boot the builder
    Removers,         \* processes that remove it
    Runtime,          \* [Creators -> {"auto", "docker", "containerd"}]: --runtime
    Replicas,         \* [Creators -> Nat \ {0}]: --replicas
    Config,           \* [Creators -> {"default", "custom"}]: "custom" = --config
    Cancellable,      \* creators whose context may be cancelled
    WorkingRuntimes,  \* runtimes whose socket exists on the cluster's nodes
    Installed,        \* runtime of a builder that exists at the start, or "none"
    MaxFaults,        \* bound: API calls that fail
    MaxNoise,         \* bound: status updates that change no replica count
    MaxDisruptions    \* bound: pods that become unready or are lost

Runtimes == {"docker", "containerd"}

ASSUME ProcessAssumption == Creators \cap Removers = {}

ASSUME OptionAssumption ==
    /\ Runtime \in [Creators -> Runtimes \cup {"auto"}]
    /\ Replicas \in [Creators -> Nat \ {0}]
    /\ Config \in [Creators -> {"default", "custom"}]
    /\ Cancellable \subseteq Creators

ASSUME ClusterAssumption ==
    /\ WorkingRuntimes \subseteq Runtimes
    /\ Installed \in Runtimes \cup {"none"}
    /\ MaxFaults \in Nat /\ MaxNoise \in Nat /\ MaxDisruptions \in Nat

VARIABLES
    cm,           \* the ConfigMap: "none" or whose content it holds
    depl,         \* the Deployment; uid 0 when there is none
    rs,           \* the ReplicaSets, named after the runtime of their template
    pods,         \* the pods: [uid, rs (its ReplicaSet), owner (its Deployment), runtime]
    running,      \* the pods in phase Running
    ready,        \* the pods that pass their readiness probe
    mountFailed,  \* pods with an "is not a socket file" event; events outlive pods
    clock,        \* the next unused uid
    pc,           \* the next call of each process
    loc,          \* the locals of each creator's createBuilder call
    flipped,      \* creators that re-initialised their driver for containerd
    fresh,        \* creators whose Deployment read is still the stored version
    expired,      \* creators whose context is done
    sawReady,     \* creators that read the ready count they wait for
    budget        \* what is left of the three bounds

podVars == <<pods, running, ready, mountFailed>>
cluster == <<cm, depl, rs, podVars, clock>>
vars == <<cm, depl, rs, pods, running, ready, mountFailed, clock,
          pc, loc, flipped, fresh, expired, sawReady, budget>>

NoDeployment == [uid |-> 0, runtime |-> "none", replicas |-> 0, ready |-> 0]
NoReplicaSet == [uid |-> 0, owner |-> 0]

Idle == [err |-> FALSE, snap |-> 0, todo |-> {}, cur |-> [runtime |-> "none", uid |-> 0],
         kids |-> {}, podTodo |-> {}, doomed |-> {}, reported |-> {}]

\* Mutants of Want: no default for "auto"; the flip toggles what is deployed
\* instead of leaving the fixed default; the flipped option is not used.
WantNoDefault(c) == IF c \in flipped THEN "containerd" ELSE Runtime[c]
WantToggles(c) == IF c \in flipped THEN (IF depl.runtime = "docker" THEN "containerd" ELSE "docker")
                  ELSE IF Runtime[c] = "auto" THEN "docker" ELSE Runtime[c]
WantNeverFlips(c) == IF Runtime[c] = "auto" THEN "docker" ELSE Runtime[c]

\* initDriverFromConfig: "auto" tries docker first; the flip picks containerd
\* and marks the runtime as specified, so that a driver flips at most once.
Want(c) == IF c \in flipped THEN "containerd"
           ELSE IF Runtime[c] = "auto" THEN "docker" ELSE Runtime[c]
UserSpecifiedRuntime(c) == c \in flipped \/ Runtime[c] # "auto"

DeploymentExists == depl.uid # 0

\* isChildOf, for a ReplicaSet of a Deployment and for a pod of a ReplicaSet
ReplicaSetsOf(uid) ==
    {[runtime |-> r, uid |-> rs[r].uid] : r \in {q \in Runtimes : rs[q].owner = uid}}
PodsOf(uid) == {p \in pods : p.rs = uid}

Init ==
    /\ cm = IF Installed = "none" THEN "none" ELSE "default"
    /\ depl = IF Installed = "none" THEN NoDeployment
              ELSE [uid |-> 1, runtime |-> Installed, replicas |-> 1, ready |-> 0]
    /\ rs = [r \in Runtimes |-> NoReplicaSet]
    /\ pods = {} /\ running = {} /\ ready = {} /\ mountFailed = {}
    /\ clock = 2
    /\ pc = [p \in Creators \cup Removers |-> IF p \in Creators THEN "info" ELSE "list"]
    /\ loc = [c \in Creators |-> Idle]
    /\ flipped = {} /\ fresh = {} /\ expired = {} /\ sawReady = {}
    /\ budget = [faults |-> MaxFaults, noise |-> MaxNoise, disruptions |-> MaxDisruptions]

-----------------------------------------------------------------------------
(* API calls: answered, failed without effect, or carried out with the     *)
(* answer lost.  With an expired context the client fails at once.         *)

SpendFault == budget.faults > 0 /\ budget' = [budget EXCEPT !.faults = @ - 1]
CallAnswers(p) == p \notin expired /\ UNCHANGED budget
CallFails(p) == (p \in expired /\ UNCHANGED budget) \/ SpendFault
AnswerLost(p) == p \notin expired /\ SpendFault

Goto(p, label) == pc' = [pc EXCEPT ![p] = label]

-----------------------------------------------------------------------------
(* driver.Boot and Driver.Info *)

BootTimesOut(c) ==
    /\ pc[c] = "info" /\ c \in expired
    /\ Goto(c, "failed")
    /\ UNCHANGED <<cluster, loc, flipped, fresh, expired, sawReady, budget>>

Info(c) ==
    /\ pc[c] = "info" /\ c \notin expired
    /\ \/ /\ CallFails(c) \/ (CallAnswers(c) /\ depl.ready = 0)
          /\ Goto(c, "cmGet")
          /\ UNCHANGED sawReady
       \/ /\ CallAnswers(c) /\ depl.ready > 0
          /\ Goto(c, "infoPods")
          /\ sawReady' = sawReady \cup {c}
    /\ UNCHANGED <<cluster, loc, flipped, fresh, expired>>

InfoPods(c) ==
    /\ pc[c] = "infoPods"
    /\ \/ CallFails(c) /\ Goto(c, "failed")
       \/ CallAnswers(c) /\ Goto(c, "clients")
    /\ UNCHANGED <<cluster, loc, flipped, fresh, expired, sawReady>>

\* Mutant of Clients: its calls do not use the caller's context.
ClientsIgnoresContext(c) ==
    /\ pc[c] = "clients"
    /\ \/ SpendFault /\ Goto(c, "info")
       \/ UNCHANGED budget /\ Goto(c, IF running = {} THEN "info" ELSE "booted")
    /\ UNCHANGED <<cluster, loc, flipped, fresh, expired, sawReady>>

\* ChoosePod takes any pod in phase Running, whatever its owner and readiness,
\* and a client is set up per pod; any error makes Boot start over.
Clients(c) ==
    /\ pc[c] = "clients"
    /\ \/ /\ CallFails(c) \/ (CallAnswers(c) /\ running = {})
          /\ Goto(c, "info")
       \/ /\ CallAnswers(c) /\ running # {}
          /\ Goto(c, "booted")
    /\ UNCHANGED <<cluster, loc, flipped, fresh, expired, sawReady>>

-----------------------------------------------------------------------------
(* Driver.wait, first half: createConfigMap *)

StartCreateBuilder(c) == Goto(c, "get") /\ loc' = [loc EXCEPT ![c] = Idle]

ConfigMapGet(c) ==
    /\ pc[c] = "cmGet"
    /\ \/ /\ c \in expired              \* Bootstrap fails, Boot starts over
          /\ Goto(c, "info") /\ UNCHANGED <<loc, budget>>
       \/ /\ c \notin expired /\ CallFails(c)
          /\ UNCHANGED <<pc, loc>>
       \/ /\ CallAnswers(c) /\ cm = "none"
          /\ Goto(c, "cmCreate") /\ UNCHANGED loc
       \/ /\ CallAnswers(c) /\ cm # "none" /\ Config[c] = "custom"
          /\ Goto(c, "cmUpdate") /\ UNCHANGED loc
       \/ /\ CallAnswers(c) /\ cm # "none" /\ Config[c] = "default"
          /\ StartCreateBuilder(c)
    /\ UNCHANGED <<cluster, flipped, fresh, expired, sawReady>>

\* Mutant of WriteConfigMap: a failed write is not retried.
WriteConfigMapOnce(c, label, possible) ==
    /\ pc[c] = label
    /\ \/ CallAnswers(c) /\ possible /\ cm' = Config[c]
       \/ (CallFails(c) \/ (CallAnswers(c) /\ ~possible)) /\ UNCHANGED cm
    /\ StartCreateBuilder(c)
    /\ UNCHANGED <<depl, rs, podVars, clock, flipped, fresh, expired, sawReady>>

\* Create is refused when the ConfigMap exists, Update when it does not.
WriteConfigMap(c, label, possible) ==
    /\ pc[c] = label
    /\ \/ /\ CallAnswers(c) /\ possible
          /\ cm' = Config[c] /\ StartCreateBuilder(c)
       \/ /\ AnswerLost(c) /\ possible
          /\ cm' = Config[c] /\ Goto(c, "cmGet") /\ UNCHANGED loc
       \/ /\ CallFails(c) \/ (CallAnswers(c) /\ ~possible)
          /\ Goto(c, "cmGet") /\ UNCHANGED <<cm, loc>>
    /\ UNCHANGED <<depl, rs, podVars, clock, flipped, fresh, expired, sawReady>>

ConfigMapCreate(c) == WriteConfigMap(c, "cmCreate", cm = "none")
ConfigMapUpdate(c) == WriteConfigMap(c, "cmUpdate", cm # "none")

-----------------------------------------------------------------------------
(* Driver.wait, second half: createBuilder *)

\* createBuilder returns and its locals are gone.
Leave(c, label) == Goto(c, label) /\ loc' = [loc EXCEPT ![c] = Idle]

\* The pass is over: sleep, then the top of the loop.
EndPass(c, err) ==
    /\ Goto(c, "get")
    /\ loc' = [loc EXCEPT ![c] = [Idle EXCEPT !.err = err, !.reported = loc[c].reported]]
    /\ fresh' = fresh \ {c}

\* Get or Create returned the Deployment uid with too few ready replicas.
LookInto(c, uid) ==
    /\ Goto(c, "listRS")
    /\ loc' = [loc EXCEPT ![c].err = FALSE, ![c].snap = uid]
    /\ fresh' = fresh \cup {c}

\* Mutant of BuilderTimesOut: the loop does not look at the context.
BuilderNeverTimesOut(c) ==
    /\ pc[c] = "get" /\ c \in expired
    /\ EndPass(c, TRUE)
    /\ UNCHANGED <<cluster, flipped, expired, sawReady, budget>>

\* On expiry errors.Wrap(err, ...) is nil when the last pass left no error,
\* and a nil result sends Boot on to Clients.
BuilderTimesOut(c) ==
    /\ pc[c] = "get" /\ c \in expired
    /\ Leave(c, IF loc[c].err THEN "info" ELSE "clients")
    /\ UNCHANGED <<cluster, flipped, fresh, expired, sawReady, budget>>

BuilderGet(c) ==
    /\ pc[c] = "get" /\ c \notin expired
    /\ \/ CallFails(c) /\ EndPass(c, TRUE) /\ UNCHANGED sawReady
       \/ /\ CallAnswers(c) /\ ~DeploymentExists
          /\ Goto(c, "create") /\ UNCHANGED <<loc, fresh, sawReady>>
       \/ /\ CallAnswers(c) /\ DeploymentExists /\ depl.ready >= Replicas[c]
          /\ Leave(c, "clients")
          /\ sawReady' = sawReady \cup {c} /\ UNCHANGED fresh
       \/ /\ CallAnswers(c) /\ DeploymentExists /\ depl.ready < Replicas[c]
          /\ LookInto(c, depl.uid) /\ UNCHANGED sawReady
    /\ UNCHANGED <<cluster, flipped, expired>>

\* A Deployment that carries a resource version, which a flip has set, cannot
\* be created; nor can one that exists.
CanCreate(c) == ~DeploymentExists /\ c \notin flipped
CreateDeployment(c) ==
    /\ depl' = [uid |-> clock, runtime |-> Want(c), replicas |-> Replicas[c], ready |-> 0]
    /\ clock' = clock + 1

BuilderCreate(c) ==
    /\ pc[c] = "create"
    /\ \/ CallAnswers(c) /\ CanCreate(c) /\ CreateDeployment(c) /\ LookInto(c, clock)
       \/ AnswerLost(c) /\ CanCreate(c) /\ CreateDeployment(c) /\ EndPass(c, TRUE)
       \/ /\ CallFails(c) \/ (CallAnswers(c) /\ ~CanCreate(c))
          /\ EndPass(c, TRUE) /\ UNCHANGED <<depl, clock>>
    /\ UNCHANGED <<cm, rs, podVars, flipped, expired, sawReady>>

ListReplicaSets(c) ==
    /\ pc[c] = "listRS"
    /\ \/ CallFails(c) /\ EndPass(c, TRUE)
       \/ /\ CallAnswers(c)
          /\ Goto(c, "replica")
          /\ loc' = [loc EXCEPT ![c].todo = ReplicaSetsOf(loc[c].snap)]
          /\ UNCHANGED fresh
    /\ UNCHANGED <<cluster, flipped, expired, sawReady>>

\* The next ReplicaSet's events only reach the log; failing to list them ends
\* the pass with an error.
NextReplicaSet(c) ==
    /\ pc[c] = "replica"
    /\ \/ loc[c].todo = {} /\ EndPass(c, FALSE) /\ UNCHANGED budget
       \/ loc[c].todo # {} /\ CallFails(c) /\ EndPass(c, TRUE)
       \/ /\ CallAnswers(c)
          /\ \E r \in loc[c].todo :
                loc' = [loc EXCEPT ![c].todo = @ \ {r}, ![c].cur = r]
          /\ Goto(c, "listPods") /\ UNCHANGED fresh
    /\ UNCHANGED <<cluster, flipped, expired, sawReady>>

ListPods(c) ==
    /\ pc[c] = "listPods"
    /\ \/ CallFails(c) /\ Goto(c, "replica") /\ UNCHANGED loc
       \/ /\ CallAnswers(c)
          /\ Goto(c, "pod")
          /\ loc' = [loc EXCEPT ![c].kids = PodsOf(loc[c].cur.uid),
                                ![c].podTodo = PodsOf(loc[c].cur.uid)]
    /\ UNCHANGED <<cluster, flipped, fresh, expired, sawReady>>

\* One pod's events.  The err of the loop body shadows createBuilder's, so the
\* callback's error ("did you pick the correct runtime?") goes nowhere.
NextPod(c) ==
    /\ pc[c] = "pod"
    /\ \/ /\ loc[c].podTodo = {} /\ UNCHANGED budget
          /\ Goto(c, "replica")
          /\ loc' = [loc EXCEPT ![c].kids = {}, ![c].cur = Idle.cur]
          /\ UNCHANGED flipped
       \/ /\ loc[c].podTodo # {} /\ CallFails(c)
          /\ Goto(c, "replica")
          /\ loc' = [loc EXCEPT ![c].kids = {}, ![c].podTodo = {}, ![c].cur = Idle.cur]
          /\ UNCHANGED flipped
       \/ /\ CallAnswers(c)
          /\ \E p \in loc[c].podTodo :
                /\ loc' = [loc EXCEPT ![c].podTodo = @ \ {p},
                                      ![c].reported = @ \cup (mountFailed \cap {p})]
                /\ IF p \in mountFailed \ loc[c].reported /\ ~UserSpecifiedRuntime(c)
                   THEN flipped' = flipped \cup {c} /\ Goto(c, "update")
                   ELSE UNCHANGED <<flipped, pc>>
    /\ UNCHANGED <<cluster, fresh, expired, sawReady>>

\* Mutant of CanUpdate: the update carries no resource version.
CanUpdateBlindly(c) == DeploymentExists

\* The flip carries the resource version of this pass's read: any write since
\* then, whoever made it, is a conflict.  Its error, too, is dropped.
CanUpdate(c) == DeploymentExists /\ c \in fresh
UpdateDeployment(c) ==
    LET new == [depl EXCEPT !.runtime = Want(c), !.replicas = Replicas[c]] IN
    /\ depl' = new
    /\ fresh' = IF new = depl THEN fresh ELSE {}

FlipUpdate(c) ==
    /\ pc[c] = "update"
    /\ \/ CallAnswers(c) /\ CanUpdate(c) /\ UpdateDeployment(c) /\ Goto(c, "delRS")
       \/ AnswerLost(c) /\ CanUpdate(c) /\ UpdateDeployment(c) /\ Goto(c, "pod")
       \/ /\ CallFails(c) \/ (CallAnswers(c) /\ ~CanUpdate(c))
          /\ Goto(c, "pod") /\ UNCHANGED <<depl, fresh>>
    /\ UNCHANGED <<cm, rs, podVars, clock, loc, flipped, expired, sawReady>>

\* Mutant of FlipDeleteReplicaSet: deletes the ReplicaSet of the new template.
FlipDeletesNewReplicaSet(c) ==
    /\ pc[c] = "delRS" /\ CallAnswers(c) /\ DeploymentExists
    /\ rs' = [rs EXCEPT ![depl.runtime] = NoReplicaSet]
    /\ Goto(c, "delPod")
    /\ loc' = [loc EXCEPT ![c].doomed = loc[c].kids]
    /\ UNCHANGED <<cm, depl, podVars, clock, flipped, fresh, expired, sawReady>>

\* The stale ReplicaSet is deleted by name and its pods by name; errors are logged.
FlipDeleteReplicaSet(c) ==
    /\ pc[c] = "delRS"
    /\ \/ /\ CallAnswers(c) \/ AnswerLost(c)
          /\ rs' = [rs EXCEPT ![loc[c].cur.runtime] = NoReplicaSet]
       \/ CallFails(c) /\ UNCHANGED rs
    /\ Goto(c, "delPod")
    /\ loc' = [loc EXCEPT ![c].doomed = loc[c].kids]
    /\ UNCHANGED <<cm, depl, podVars, clock, flipped, fresh, expired, sawReady>>

RemovePods(gone) ==
    /\ pods' = pods \ gone /\ running' = running \ gone /\ ready' = ready \ gone
    /\ UNCHANGED mountFailed

FlipDeletePod(c) ==
    /\ pc[c] = "delPod"
    /\ \/ /\ loc[c].doomed = {} /\ Goto(c, "pod")
          /\ UNCHANGED <<podVars, loc, budget>>
       \/ \E p \in loc[c].doomed :
             /\ loc' = [loc EXCEPT ![c].doomed = @ \ {p}]
             /\ \/ (CallAnswers(c) \/ AnswerLost(c)) /\ RemovePods({p})
                \/ CallFails(c) /\ UNCHANGED podVars
             /\ UNCHANGED pc
    /\ UNCHANGED <<cm, depl, rs, clock, flipped, fresh, expired, sawReady>>

-----------------------------------------------------------------------------
(* runRm and Driver.Rm: the Deployment first, then the ConfigMap *)

RmList(r) ==
    /\ pc[r] = "list"
    /\ \/ CallFails(r) /\ Goto(r, "failed")
       \/ CallAnswers(r) /\ Goto(r, IF DeploymentExists THEN "rmDepl" ELSE "done")
    /\ UNCHANGED <<cluster, loc, flipped, fresh, expired, sawReady>>

\* Mutant of RmDeployment: the ConfigMap is forgotten.
RmDeploymentOnly(r) ==
    /\ pc[r] = "rmDepl" /\ DeploymentExists /\ CallAnswers(r)
    /\ depl' = NoDeployment /\ fresh' = {}
    /\ Goto(r, "done")
    /\ UNCHANGED <<cm, rs, podVars, clock, loc, flipped, expired, sawReady>>

RmDeployment(r) ==
    /\ pc[r] = "rmDepl"
    /\ \/ /\ DeploymentExists
          /\ depl' = NoDeployment /\ fresh' = {}
          /\ \/ CallAnswers(r) /\ Goto(r, "rmCm")
             \/ AnswerLost(r) /\ Goto(r, "failed")
       \/ /\ CallFails(r) \/ (CallAnswers(r) /\ ~DeploymentExists)
          /\ Goto(r, "failed") /\ UNCHANGED <<depl, fresh>>
    /\ UNCHANGED <<cm, rs, podVars, clock, loc, flipped, expired, sawReady>>

RmConfigMap(r) ==
    /\ pc[r] = "rmCm"
    /\ \/ /\ cm # "none" /\ cm' = "none"
          /\ \/ CallAnswers(r) /\ Goto(r, "done")
             \/ AnswerLost(r) /\ Goto(r, "failed")
       \/ /\ CallFails(r) \/ (CallAnswers(r) /\ cm = "none")
          /\ Goto(r, "failed") /\ UNCHANGED cm
    /\ UNCHANGED <<depl, rs, podVars, clock, loc, flipped, fresh, expired, sawReady>>

-----------------------------------------------------------------------------
(* The cluster, as far as the code above relies on it *)

cliVars == <<pc, loc, flipped, expired, sawReady>>

\* The ReplicaSet of the current template (one left by an earlier builder of
\* the same name has to be collected first).
CreateReplicaSet ==
    /\ DeploymentExists /\ rs[depl.runtime] = NoReplicaSet
    /\ rs' = [rs EXCEPT ![depl.runtime] = [uid |-> clock, owner |-> depl.uid]]
    /\ clock' = clock + 1
    /\ UNCHANGED <<cm, depl, podVars, cliVars, fresh, budget>>

\* The rollout is complete: the other ReplicaSet is scaled to zero.
RetireReplicaSet ==
    \E r \in Runtimes :
       /\ DeploymentExists /\ r # depl.runtime /\ rs[r].owner = depl.uid
       /\ Cardinality(ready \cap PodsOf(rs[depl.runtime].uid)) >= depl.replicas
       /\ rs' = [rs EXCEPT ![r] = NoReplicaSet]
       /\ UNCHANGED <<cm, depl, podVars, clock, cliVars, fresh, budget>>

CreatePod ==
    \E r \in Runtimes :
       /\ DeploymentExists /\ rs[r].owner = depl.uid
       /\ Cardinality(PodsOf(rs[r].uid)) < depl.replicas
       /\ pods' = pods \cup {[uid |-> clock, rs |-> rs[r].uid, owner |-> depl.uid, runtime |-> r]}
       /\ clock' = clock + 1
       /\ UNCHANGED <<cm, depl, rs, running, ready, mountFailed, cliVars, fresh, budget>>

\* The builder was scaled down by someone's flip.
RemoveSurplusPod ==
    \E p \in pods :
       /\ DeploymentExists /\ \E r \in Runtimes : rs[r].owner = depl.uid /\ rs[r].uid = p.rs
       /\ Cardinality(PodsOf(p.rs)) > depl.replicas
       /\ RemovePods({p})
       /\ UNCHANGED <<cm, depl, rs, clock, cliVars, fresh, budget>>

\* hostPath type Socket: without the runtime's socket the mount fails for good.
MountFails ==
    \E p \in pods \ (running \cup mountFailed) :
       /\ p.runtime \notin WorkingRuntimes
       /\ mountFailed' = mountFailed \cup {p}
       /\ UNCHANGED <<cm, depl, rs, pods, running, ready, clock, cliVars, fresh, budget>>

\* The buildkitd-config volume needs the ConfigMap.
PodStarts ==
    \E p \in pods \ running :
       /\ p.runtime \in WorkingRuntimes /\ cm # "none"
       /\ running' = running \cup {p}
       /\ UNCHANGED <<cm, depl, rs, pods, ready, mountFailed, clock, cliVars, fresh, budget>>

PodBecomesReady ==
    \E p \in running \ ready :
       /\ ready' = ready \cup {p}
       /\ UNCHANGED <<cm, depl, rs, pods, running, mountFailed, clock, cliVars, fresh, budget>>

\* A ready pod fails its probe, or a pod is evicted.
Disrupt ==
    /\ budget.disruptions > 0
    /\ budget' = [budget EXCEPT !.disruptions = @ - 1]
    /\ \E p \in running :
          \/ p \in ready /\ ready' = ready \ {p} /\ UNCHANGED <<pods, running, mountFailed>>
          \/ RemovePods({p})
    /\ UNCHANGED <<cm, depl, rs, clock, cliVars, fresh>>

ReadyReplicas ==
    Cardinality({p \in ready : \E r \in Runtimes : rs[r].owner = depl.uid /\ p.rs = rs[r].uid})

\* Every status update gives the Deployment a new resource version ...
SyncStatus ==
    /\ DeploymentExists /\ depl.ready # ReadyReplicas
    /\ depl' = [depl EXCEPT !.ready = ReadyReplicas]
    /\ fresh' = {}
    /\ UNCHANGED <<cm, rs, podVars, clock, cliVars, budget>>

\* ... also one that only changes conditions or observedGeneration.
TouchStatus ==
    /\ DeploymentExists /\ budget.noise > 0
    /\ budget' = [budget EXCEPT !.noise = @ - 1]
    /\ fresh' = {}
    /\ UNCHANGED <<cluster, cliVars>>

CollectReplicaSet ==
    \E r \in Runtimes :
       /\ rs[r] # NoReplicaSet /\ rs[r].owner # depl.uid
       /\ rs' = [rs EXCEPT ![r] = NoReplicaSet]
       /\ UNCHANGED <<cm, depl, podVars, clock, cliVars, fresh, budget>>

\* Pods whose ReplicaSet is gone keep their phase until they are collected.
CollectPod ==
    \E p \in pods :
       /\ \A r \in Runtimes : rs[r].uid # p.rs
       /\ RemovePods({p})
       /\ UNCHANGED <<cm, depl, rs, clock, cliVars, fresh, budget>>

\* The user or a timeout cancels the context of a creator.
Cancel(c) ==
    /\ c \in Cancellable \ expired /\ pc[c] \notin {"booted", "failed"}
    /\ expired' = expired \cup {c}
    /\ UNCHANGED <<cluster, pc, loc, flipped, fresh, sawReady, budget>>

-----------------------------------------------------------------------------
Create(c) ==
    \/ BootTimesOut(c) \/ Info(c) \/ InfoPods(c) \/ Clients(c)
    \/ ConfigMapGet(c) \/ ConfigMapCreate(c) \/ ConfigMapUpdate(c)
    \/ BuilderTimesOut(c) \/ BuilderGet(c) \/ BuilderCreate(c)
    \/ ListReplicaSets(c) \/ NextReplicaSet(c) \/ ListPods(c) \/ NextPod(c)
    \/ FlipUpdate(c) \/ FlipDeleteReplicaSet(c) \/ FlipDeletePod(c)

Remove(r) == RmList(r) \/ RmDeployment(r) \/ RmConfigMap(r)

Cluster ==
    \/ CreateReplicaSet \/ RetireReplicaSet \/ CreatePod \/ RemoveSurplusPod
    \/ MountFails \/ PodStarts \/ PodBecomesReady \/ Disrupt
    \/ SyncStatus \/ TouchStatus \/ CollectReplicaSet \/ CollectPod

Next ==
    \/ \E c \in Creators : Create(c) \/ Cancel(c)
    \/ \E r \in Removers : Remove(r)
    \/ Cluster

Spec == Init /\ [][Next]_vars

\* The processes run and their calls return; controllers and kubelets do their
\* work.  Cancellation, faults, disruptions and the start of an rm need not happen.
Fairness ==
    /\ \A c \in Creators : WF_vars(Create(c))
    /\ \A r \in Removers : WF_vars(RmDeployment(r)) /\ WF_vars(RmConfigMap(r))
    /\ WF_vars(CreateReplicaSet) /\ WF_vars(RetireReplicaSet)
    /\ WF_vars(CreatePod) /\ WF_vars(RemoveSurplusPod)
    /\ WF_vars(MountFails) /\ WF_vars(PodStarts) /\ WF_vars(PodBecomesReady)
    /\ WF_vars(SyncStatus) /\ WF_vars(CollectReplicaSet) /\ WF_vars(CollectPod)

FairSpec == Spec /\ Fairness

-----------------------------------------------------------------------------
(* Properties *)

CreatorLabels ==
    {"info", "infoPods", "clients", "cmGet", "cmCreate", "cmUpdate", "get", "create", "listRS",
     "replica", "listPods", "pod", "update", "delRS", "delPod", "booted", "failed"}
RemoverLabels == {"list", "rmDepl", "rmCm", "done", "failed"}
Final == {"booted", "failed", "done"}

ReplicaSet == [uid : Nat, owner : Nat]
Pod == [uid : Nat, rs : Nat, owner : Nat, runtime : Runtimes]
Locals ==
    [err : BOOLEAN, snap : Nat, todo : SUBSET [runtime : Runtimes, uid : Nat],
     cur : [runtime : Runtimes \cup {"none"}, uid : Nat],
     kids : SUBSET Pod, podTodo : SUBSET Pod, doomed : SUBSET Pod, reported : SUBSET Pod]
Deployment ==
    [uid : Nat \ {0}, runtime : Runtimes, replicas : Nat \ {0}, ready : Nat] \cup {NoDeployment}

\* The type invariant of every variable.
TypeOK ==
    /\ cm \in {"none", "default", "custom"}
    /\ depl \in Deployment
    /\ rs \in [Runtimes -> ReplicaSet]
    /\ pods \subseteq Pod /\ running \subseteq pods /\ ready \subseteq running
    /\ mountFailed \subseteq Pod
    /\ IsFiniteSet(pods)
    /\ clock \in Nat \ {0}
    /\ pc \in [Creators \cup Removers -> CreatorLabels \cup RemoverLabels]
    /\ \A c \in Creators : pc[c] \in CreatorLabels
    /\ \A r \in Removers : pc[r] \in RemoverLabels
    /\ loc \in [Creators -> Locals]
    /\ flipped \subseteq Creators /\ fresh \subseteq Creators
    /\ expired \subseteq Creators /\ sawReady \subseteq Creators
    /\ budget \in [faults : Nat, noise : Nat, disruptions : Nat]

\* However many creators race, no Deployment exists before the ConfigMap its
\* pods mount, as long as no rm has deleted a ConfigMap (wait, driver.go:107).
NothingRemoved == \A r \in Removers : pc[r] \in {"list", "rmDepl", "rmCm"}
ConfigMapFirst == NothingRemoved /\ DeploymentExists => cm # "none"

\* A boot that succeeded has read the ready count it waits for, although
\* createBuilder may return nil without it (Boot, driver.go:122-156).
BootSawReady == \A c \in Creators : pc[c] = "booted" => c \in sawReady

\* A Deployment only ever moves from docker to containerd, and only after a
\* docker pod of this very Deployment failed to mount the socket: a decision
\* taken on an earlier builder of the same name is never applied to a new one.
FlipsAreJustified ==
    [][depl'.uid = depl.uid /\ depl'.runtime # depl.runtime =>
          /\ depl.runtime = "docker" /\ depl'.runtime = "containerd"
          /\ \E p \in mountFailed : p.owner = depl.uid /\ p.runtime = "docker"]_vars

\* No step of a booting process takes down a pod that runs, neither by
\* deleting it nor by deleting its ReplicaSet (creation.go:220-239).
Alive(p) == p \in running /\ \E r \in Runtimes : rs[r].uid = p.rs
BootKeepsRunningPods ==
    [][(\E c \in Creators : pc'[c] # pc[c] \/ loc'[c] # loc[c]) =>
          \A p \in running : Alive(p) => Alive(p)']_vars

\* Once every process has finished, no ConfigMap is left without its Deployment
\* (basesuites.go:57), unless a creator was cancelled or a call failed and made an rm
\* fail: whoever deletes the Deployment deletes the ConfigMap, and a creator that
\* stores the ConfigMap creates the Deployment, in every order.
RmCleansUp ==
    /\ \A p \in Creators \cup Removers : pc[p] \in Final
    /\ expired = {}
    /\ budget.faults = MaxFaults \/ \A r \in Removers : pc[r] = "done"
    => (cm # "none" => DeploymentExists)

\* The processes implement the abstract builder service.
Service == INSTANCE BuilderService WITH
    runtime <- depl.runtime,
    seen <- sawReady,
    answer <- [c \in Creators |-> IF pc[c] \in {"booted", "failed"} THEN pc[c] ELSE "pending"]
ImplementsService == Service!Spec

\* Every creator that is not cancelled eventually has its clients.
Converges == \A c \in Creators : <>(pc[c] = "booted" \/ c \in expired)

\* A cancelled creator returns, wherever it was and whatever fails.
CancelledReturns == \A c \in Creators : c \in expired ~> pc[c] \in {"booted", "failed"}

-----------------------------------------------------------------------------
(* What the documentation and comments say, and the code does not do *)

\* "Will return latest error if context has expired" (creation.go:58): a nil
\* result of createBuilder means that enough replicas are ready.
NilMeansReady ==
    [][\A c \in Creators : pc[c] = "get" /\ pc'[c] = "clients" => depl.ready >= Replicas[c]]_vars

=============================================================================
