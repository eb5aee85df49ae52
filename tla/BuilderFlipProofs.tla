--------------------------- MODULE BuilderFlipProofs ---------------------------
(***************************************************************************)
(* What the flip from docker to containerd may never do, for every set of  *)
(* processes, their options and every bound: take down what runs, or touch *)
(* a Deployment whose own pods did not fail.                               *)
(*                                                                         *)
(* The invariant ties what a creator remembers of earlier answers to what  *)
(* is in the cluster now.  It has two parts: ClusterInv about the cluster, *)
(* kept by everything that Evolves allows, and LocalInv about each         *)
(* creator's locals.                                                       *)
(***************************************************************************)
EXTENDS BuilderBootstrapProofs

\* Where createBuilder has a Deployment with too few ready replicas, walks over
\* its ReplicaSets, walks over the pods of one, and flips.
FlipLabels == {"update", "delRS", "delPod"}
PodLabels == {"pod"} \cup FlipLabels
WalkLabels == {"replica", "listPods"} \cup PodLabels
PassLabels == {"listRS"} \cup WalkLabels

\* uid has been given to the ReplicaSet of runtime r and of the Deployment
\* owner, and to no other; the pods that refer to it are of that runtime and
\* that Deployment.
Names(r, uid, owner) ==
    /\ uid # 0 /\ uid < clock
    /\ \A q \in Runtimes : rs[q].uid = uid => q = r /\ rs[q].owner = owner
    /\ \A p \in pods : p.rs = uid => p.runtime = r /\ p.owner = owner

\* Uids are used in order, each for one object.
UidInv ==
    /\ \A r \in Runtimes : rs[r] # NoReplicaSet => Names(r, rs[r].uid, rs[r].owner)
    /\ \A p \in pods : p.rs # 0 /\ p.rs < clock
    /\ \A p \in pods \cup mountFailed : p.owner < clock
    /\ \A r \in Runtimes : rs[r].owner < clock
    /\ depl.uid < clock

\* A pod runs, or fails to mount its socket, by its runtime alone.
SocketInv ==
    /\ \A p \in running : p.runtime \in WorkingRuntimes
    /\ \A p \in mountFailed : p.runtime \notin WorkingRuntimes

\* A Deployment that has not moved on has only had docker's objects.
DockerInv ==
    DeploymentExists /\ depl.runtime = "docker" =>
        /\ \A r \in Runtimes : rs[r].owner = depl.uid => r = "docker"
        /\ \A p \in pods \cup mountFailed : p.owner = depl.uid => p.runtime = "docker"

ClusterInv == UidInv /\ SocketInv /\ DockerInv

\* What a creator has listed is of the Deployment it has read.
WalkInv(c) ==
    /\ pc[c] \in PassLabels => loc[c].snap # 0
    /\ pc[c] \notin WalkLabels => loc[c].todo = {}
    /\ pc[c] \notin PodLabels => loc[c].kids = {} /\ loc[c].podTodo = {}
    /\ \A t \in loc[c].todo : Names(t.runtime, t.uid, loc[c].snap)
    /\ pc[c] = "listPods" => Names(loc[c].cur.runtime, loc[c].cur.uid, loc[c].snap)
    /\ \A p \in loc[c].kids \cup loc[c].podTodo :
          p.runtime = loc[c].cur.runtime /\ p.owner = loc[c].snap

\* What a creator holds against a runtime is true of it, and the Deployment it
\* may still update is the one whose pods it has looked at.
BlameInv(c) ==
    /\ pc[c] \in FlipLabels => loc[c].cur.runtime \notin WorkingRuntimes
    /\ \A p \in loc[c].doomed : p.runtime \notin WorkingRuntimes
    /\ pc[c] = "update" => \E p \in mountFailed : p.owner = loc[c].snap
    /\ c \in fresh => pc[c] \in PassLabels /\ loc[c].snap = depl.uid

LocalInv == \A c \in Creators : WalkInv(c) /\ BlameInv(c)

-----------------------------------------------------------------------------
(* The cluster *)

\* What any step of anyone may do to the cluster.
RsEvolves ==
    \A q \in Runtimes :
       \/ rs'[q] = rs[q]
       \/ rs'[q] = NoReplicaSet
       \/ /\ DeploymentExists /\ q = depl.runtime /\ clock < clock'
          /\ rs'[q] = [uid |-> clock, owner |-> depl.uid]
PodsEvolve ==
    /\ \A p \in pods' :
          \/ p \in pods
          \/ \E q \in Runtimes :
                rs[q].owner # 0 /\ p.rs = rs[q].uid /\ p.runtime = q /\ p.owner = rs[q].owner
    /\ \A p \in running' : p \in running \/ p.runtime \in WorkingRuntimes
    /\ mountFailed \subseteq mountFailed'
    /\ \A p \in mountFailed' : p \in mountFailed \/ (p \in pods /\ p.runtime \notin WorkingRuntimes)
DeplEvolves ==
    \/ depl'.uid = depl.uid /\ (depl'.runtime = depl.runtime \/ depl'.runtime = "containerd")
    \/ depl'.uid = 0
    \/ depl'.uid = clock /\ clock < clock' /\ ~DeploymentExists
Evolves ==
    clock' \in Nat /\ clock <= clock' /\ RsEvolves /\ PodsEvolve /\ DeplEvolves

\* A name given stays good: uids are not used twice.
LEMMA NamesStable ==
    ASSUME TypeOK, UidInv, Evolves, NEW r, NEW uid \in Nat, NEW owner, Names(r, uid, owner)
    PROVE  Names(r, uid, owner)'
<1>1. uid # 0 /\ uid < clock'
  BY DEF Names, Evolves, TypeOK
<1>2. \A q \in Runtimes : rs'[q].uid = uid => q = r /\ rs'[q].owner = owner
  BY DEF Names, Evolves, RsEvolves, NoReplicaSet, TypeOK
<1>3. \A p \in pods' : p.rs = uid => p.runtime = r /\ p.owner = owner
  BY DEF Names, Evolves, PodsEvolve
<1>. QED BY <1>1, <1>2, <1>3 DEF Names

LEMMA ClusterInvStable ==
    ASSUME TypeOK, TypeOK', ClusterInv, Evolves
    PROVE  ClusterInv'
<1> USE DEF ClusterInv
<1>1. /\ clock \in Nat \ {0} /\ clock' \in Nat /\ clock <= clock' /\ depl.uid \in Nat
      /\ \A r \in Runtimes : rs[r].uid \in Nat /\ rs[r].owner \in Nat
      /\ \A p \in pods \cup mountFailed : p.rs \in Nat /\ p.owner \in Nat
  BY DEF TypeOK, Evolves, ReplicaSet, Pod, Deployment, NoDeployment
<1>2. \A r \in Runtimes : rs[r].uid < clock /\ rs[r].owner < clock
  BY <1>1 DEF UidInv, Names, NoReplicaSet
<1>3. ASSUME NEW r \in Runtimes, rs'[r] # NoReplicaSet
      PROVE  Names(r, rs[r].uid, rs[r].owner)'
  <2>1. CASE rs'[r] = rs[r]
    <3>1. PICK uid \in Nat, owner \in Nat : uid = rs[r].uid /\ owner = rs[r].owner BY <1>1
    <3>2. Names(r, uid, owner) BY <1>3, <2>1, <3>1 DEF UidInv
    <3>3. Names(r, uid, owner)' BY <3>2, NamesStable DEF ClusterInv
    <3>. QED BY <2>1, <3>1, <3>3 DEF Names
  <2>2. CASE /\ DeploymentExists /\ r = depl.runtime /\ clock < clock'
             /\ rs'[r] = [uid |-> clock, owner |-> depl.uid]
    <3>1. rs'[r].uid = clock /\ rs'[r].owner = depl.uid BY <2>2
    <3>2. \A q \in Runtimes : rs'[q].uid = clock => q = r
      BY <1>1, <1>2, <2>2 DEF Evolves, RsEvolves, NoReplicaSet
    <3>3. \A p \in pods' : p.rs # clock
      BY <1>1, <1>2 DEF Evolves, PodsEvolve, UidInv
    <3>. QED BY <1>1, <2>2, <3>1, <3>2, <3>3 DEF Names
  <2>. QED BY <1>3, <2>1, <2>2 DEF Evolves, RsEvolves
<1>4. \A p \in pods' : p.rs # 0 /\ p.rs < clock' /\ p.owner < clock'
  <2> SUFFICES ASSUME NEW p \in pods' PROVE p.rs # 0 /\ p.rs < clock' /\ p.owner < clock'
    OBVIOUS
  <2>1. CASE p \in pods BY <1>1, <2>1 DEF UidInv
  <2>2. ASSUME NEW q \in Runtimes, rs[q].owner # 0, p.rs = rs[q].uid, p.owner = rs[q].owner
        PROVE  p.rs # 0 /\ p.rs < clock' /\ p.owner < clock'
    BY <1>1, <1>2, <2>2 DEF UidInv, Names, NoReplicaSet
  <2>. QED BY <2>1, <2>2 DEF Evolves, PodsEvolve
<1>5. \A p \in mountFailed' : p.owner < clock'
  BY <1>1 DEF Evolves, PodsEvolve, UidInv
<1>6. (\A r \in Runtimes : rs'[r].owner < clock') /\ depl'.uid < clock'
  BY <1>1, <1>2 DEF Evolves, RsEvolves, DeplEvolves, UidInv, NoReplicaSet
<1>7. SocketInv' BY DEF Evolves, PodsEvolve, SocketInv
<1>8. DockerInv'
  <2> SUFFICES ASSUME depl'.uid # 0, depl'.runtime = "docker"
               PROVE  /\ \A r \in Runtimes : rs'[r].owner = depl'.uid => r = "docker"
                      /\ \A p \in pods' \cup mountFailed' : p.owner = depl'.uid => p.runtime = "docker"
    BY DEF DockerInv, DeploymentExists
  <2>1. CASE depl'.uid = depl.uid /\ depl.runtime = "docker"
    <3>1. /\ \A r \in Runtimes : rs[r].owner = depl.uid => r = "docker"
          /\ \A p \in pods \cup mountFailed : p.owner = depl.uid => p.runtime = "docker"
      BY <2>1 DEF DockerInv, DeploymentExists
    <3>2. \A r \in Runtimes : rs'[r].owner = depl'.uid => r = "docker"
      BY <2>1, <3>1 DEF Evolves, RsEvolves, NoReplicaSet
    <3>3. \A p \in pods' \cup mountFailed' : p.owner = depl'.uid => p.runtime = "docker"
      BY <2>1, <3>1 DEF Evolves, PodsEvolve
    <3>. QED BY <3>2, <3>3
  <2>2. CASE depl'.uid = clock
    <3>1. \A r \in Runtimes : rs'[r].owner # clock
      BY <1>1, <1>2, <2>2 DEF Evolves, RsEvolves, NoReplicaSet, UidInv
    <3>2. \A p \in pods' \cup mountFailed' : p.owner # clock
      BY <1>1, <1>2 DEF Evolves, PodsEvolve, UidInv
    <3>. QED BY <2>2, <3>1, <3>2
  <2>. QED BY <2>1, <2>2 DEF Evolves, DeplEvolves
<1>. QED BY <1>3, <1>4, <1>5, <1>6, <1>7, <1>8 DEF UidInv

LEMMA StillEvolves ==
    ASSUME TypeOK, UNCHANGED <<depl, rs, pods, running, mountFailed, clock>>
    PROVE  Evolves
BY DEF TypeOK, Evolves, RsEvolves, PodsEvolve, DeplEvolves

LEMMA RemovePodsEvolves ==
    ASSUME TypeOK, NEW gone, RemovePods(gone), UNCHANGED <<depl, rs, clock>>
    PROVE  Evolves
BY DEF TypeOK, RemovePods, Evolves, RsEvolves, PodsEvolve, DeplEvolves

LEMMA CreatorEvolves ==
    ASSUME TypeOK, FlipInv, NEW c \in Creators, Create(c)
    PROVE  Evolves
<1> USE DEF cluster, podVars
<1>1. CASE BuilderCreate(c)
  <2>1. CASE UNCHANGED <<depl, clock>> BY <1>1, <2>1, StillEvolves DEF BuilderCreate
  <2>2. CASE CanCreate(c) /\ CreateDeployment(c)
    BY <1>1, <2>2 DEF BuilderCreate, CanCreate, CreateDeployment, TypeOK,
        Evolves, RsEvolves, PodsEvolve, DeplEvolves
  <2>. QED BY <1>1, <2>1, <2>2 DEF BuilderCreate
<1>2. CASE FlipUpdate(c)
  <2>1. CASE UNCHANGED depl BY <1>2, <2>1, StillEvolves DEF FlipUpdate
  <2>2. CASE CanUpdate(c) /\ UpdateDeployment(c)
    <3>1. depl' = [depl EXCEPT !.runtime = Want(c), !.replicas = Replicas[c]]
      BY <2>2 DEF UpdateDeployment
    <3>2. Want(c) = "containerd" BY <1>2 DEF FlipUpdate, FlipInv, Want
    <3>3. depl \in [uid : Nat, runtime : Runtimes \cup {"none"}, replicas : Nat, ready : Nat]
      BY DEF TypeOK, Deployment, NoDeployment
    <3>4. DeplEvolves BY <3>1, <3>2, <3>3 DEF DeplEvolves
    <3>. QED BY <1>2, <3>4 DEF FlipUpdate, TypeOK, Evolves, RsEvolves, PodsEvolve
  <2>. QED BY <1>2, <2>1, <2>2 DEF FlipUpdate
<1>3. CASE FlipDeleteReplicaSet(c)
  <2>1. RsEvolves BY <1>3 DEF FlipDeleteReplicaSet, RsEvolves, TypeOK
  <2>. QED BY <1>3, <2>1 DEF FlipDeleteReplicaSet, TypeOK, Evolves, PodsEvolve, DeplEvolves
<1>4. CASE FlipDeletePod(c)
  BY <1>4, StillEvolves, RemovePodsEvolves DEF FlipDeletePod
<1>5. CASE ~(BuilderCreate(c) \/ FlipUpdate(c) \/ FlipDeleteReplicaSet(c) \/ FlipDeletePod(c))
  <2>1. UNCHANGED <<depl, rs, pods, running, mountFailed, clock>>
    BY <1>5 DEF Create, BootTimesOut, Info, InfoPods, Clients, ConfigMapGet, ConfigMapCreate,
        ConfigMapUpdate, WriteConfigMap, BuilderTimesOut, BuilderGet, ListReplicaSets, NextReplicaSet,
        ListPods, NextPod
  <2>. QED BY <2>1, StillEvolves
<1>. QED BY <1>1, <1>2, <1>3, <1>4, <1>5

LEMMA ClusterEvolves ==
    ASSUME TypeOK, Cluster
    PROVE  Evolves
<1> USE DEF cluster, podVars
<1>1. CASE CreateReplicaSet
  <2>1. RsEvolves BY <1>1 DEF CreateReplicaSet, RsEvolves, TypeOK
  <2>. QED BY <1>1, <2>1 DEF CreateReplicaSet, TypeOK, Evolves, PodsEvolve, DeplEvolves
<1>2. CASE RetireReplicaSet \/ CollectReplicaSet
  <2>1. RsEvolves BY <1>2 DEF RetireReplicaSet, CollectReplicaSet, RsEvolves, TypeOK
  <2>. QED BY <1>2, <2>1 DEF RetireReplicaSet, CollectReplicaSet, TypeOK, Evolves, PodsEvolve, DeplEvolves
<1>3. CASE CreatePod
  <2>1. PodsEvolve BY <1>3 DEF CreatePod, PodsEvolve, DeploymentExists
  <2>. QED BY <1>3, <2>1 DEF CreatePod, TypeOK, Evolves, RsEvolves, DeplEvolves
<1>4. CASE MountFails \/ PodStarts
  <2>1. PodsEvolve BY <1>4 DEF MountFails, PodStarts, PodsEvolve
  <2>. QED BY <1>4, <2>1 DEF MountFails, PodStarts, TypeOK, Evolves, RsEvolves, DeplEvolves
<1>5. CASE RemoveSurplusPod \/ CollectPod \/ Disrupt
  <2>1. CASE \E gone : RemovePods(gone)
    BY <1>5, <2>1, RemovePodsEvolves DEF RemoveSurplusPod, CollectPod, Disrupt
  <2>2. CASE UNCHANGED <<pods, running, mountFailed>>
    BY <1>5, <2>2, StillEvolves DEF RemoveSurplusPod, CollectPod, Disrupt
  <2>. QED BY <1>5, <2>1, <2>2 DEF RemoveSurplusPod, CollectPod, Disrupt
<1>6. CASE SyncStatus
  <2>1. DeplEvolves BY <1>6 DEF SyncStatus, DeplEvolves, TypeOK, Deployment, NoDeployment
  <2>. QED BY <1>6, <2>1 DEF SyncStatus, TypeOK, Evolves, RsEvolves, PodsEvolve
<1>7. CASE PodBecomesReady \/ TouchStatus
  BY <1>7, StillEvolves DEF PodBecomesReady, TouchStatus
<1>. QED BY <1>1, <1>2, <1>3, <1>4, <1>5, <1>6, <1>7 DEF Cluster

LEMMA StepEvolves ==
    ASSUME TypeOK, FlipInv, [Next]_vars
    PROVE  Evolves
<1>1. ASSUME NEW r \in Removers, Remove(r) PROVE Evolves
  <2>1. UNCHANGED <<rs, pods, running, mountFailed, clock>> /\ (UNCHANGED depl \/ depl' = NoDeployment)
    BY <1>1 DEF Remove, RmList, RmDeployment, RmConfigMap, cluster, podVars
  <2>. QED BY <2>1 DEF TypeOK, NoDeployment, Evolves, RsEvolves, PodsEvolve, DeplEvolves
<1>2. CASE (\E c \in Creators : Cancel(c)) \/ UNCHANGED vars
  BY <1>2, StillEvolves DEF Cancel, cluster, podVars, vars
<1>. QED BY <1>1, <1>2, CreatorEvolves, ClusterEvolves DEF Next

-----------------------------------------------------------------------------
(* The creators' locals *)

\* A step of somebody else does not invalidate what a creator remembers.
LEMMA LocalFrame ==
    ASSUME TypeOK, UidInv, Evolves, NEW d \in Creators, WalkInv(d), BlameInv(d),
           pc'[d] = pc[d], loc'[d] = loc[d],
           d \in fresh' => d \in fresh /\ depl'.uid = depl.uid
    PROVE  WalkInv(d)' /\ BlameInv(d)'
<1>1. \A t \in loc[d].todo : t.uid \in Nat /\ loc[d].cur.uid \in Nat
  BY LocalsOf DEF Locals
<1>2. \A t \in loc'[d].todo : Names(t.runtime, t.uid, loc[d].snap)'
  <2>1. PICK todo, snap : todo = loc[d].todo /\ snap = loc[d].snap OBVIOUS
  <2>2. \A t \in todo : Names(t.runtime, t.uid, snap)'
    BY <1>1, <2>1, NamesStable DEF WalkInv
  <2>. QED BY <2>1, <2>2 DEF Names
<1>3. pc'[d] = "listPods" => Names(loc[d].cur.runtime, loc[d].cur.uid, loc[d].snap)'
  <2>1. PICK cur, snap : cur = loc[d].cur /\ snap = loc[d].snap OBVIOUS
  <2>2. cur.uid \in Nat BY <2>1, LocalsOf DEF Locals
  <2>3. pc[d] = "listPods" => Names(cur.runtime, cur.uid, snap)'
    BY <2>1, <2>2, NamesStable DEF WalkInv
  <2>. QED BY <2>1, <2>3 DEF Names
<1>4. WalkInv(d)' BY <1>2, <1>3 DEF WalkInv, Names
<1>5. BlameInv(d)' BY DEF BlameInv, Evolves, PodsEvolve
<1>. QED BY <1>4, <1>5

\* Outside a pass over a Deployment's pods there is nothing to remember.
LEMMA NothingRemembered ==
    ASSUME NEW c \in Creators, pc'[c] \notin PassLabels, c \notin fresh',
           loc'[c].todo = {}, loc'[c].kids = {}, loc'[c].podTodo = {},
           \A p \in loc'[c].doomed : p.runtime \notin WorkingRuntimes
    PROVE  WalkInv(c)' /\ BlameInv(c)'
BY DEF WalkInv, BlameInv, PassLabels, WalkLabels, PodLabels, FlipLabels

\* Boot, Info, Clients and createConfigMap; createBuilder's returns and the
\* end of a pass.
LEMMA OutsidePass ==
    ASSUME TypeOK, NEW c \in Creators, WalkInv(c), BlameInv(c), pc[c] \notin PassLabels,
           \E l : l \notin PassLabels /\ Goto(c, l),
           loc'[c] = loc[c] \/ loc'[c] = Idle, fresh' \subseteq fresh
    PROVE  WalkInv(c)' /\ BlameInv(c)'
<1>1. pc'[c] \notin PassLabels BY DEF Goto, TypeOK
<1>2. c \notin fresh' BY DEF BlameInv
<1>3. /\ loc'[c].todo = {} /\ loc'[c].kids = {} /\ loc'[c].podTodo = {}
      /\ \A p \in loc'[c].doomed : p.runtime \notin WorkingRuntimes
  BY DEF WalkInv, BlameInv, Idle, PassLabels, WalkLabels
<1>. QED BY <1>1, <1>2, <1>3, NothingRemembered

LEMMA EndPassForgets ==
    ASSUME TypeOK, NEW c \in Creators, NEW err, EndPass(c, err)
    PROVE  WalkInv(c)' /\ BlameInv(c)'
<1>1. pc'[c] \notin PassLabels /\ c \notin fresh'
  BY DEF EndPass, Goto, TypeOK, PassLabels, WalkLabels, PodLabels, FlipLabels
<1>2. loc'[c] = [Idle EXCEPT !.err = err, !.reported = loc[c].reported]
  BY DEF EndPass, TypeOK
<1>3. /\ loc'[c].todo = {} /\ loc'[c].kids = {} /\ loc'[c].podTodo = {}
      /\ \A p \in loc'[c].doomed : p.runtime \notin WorkingRuntimes
  BY <1>2 DEF Idle
<1>. QED BY <1>1, <1>3, NothingRemembered

LEMMA LookIntoRemembers ==
    ASSUME TypeOK, NEW c \in Creators, WalkInv(c), BlameInv(c), pc[c] \notin PassLabels,
           NEW uid, uid # 0, LookInto(c, uid), depl'.uid = uid
    PROVE  WalkInv(c)' /\ BlameInv(c)'
<1>1. pc'[c] = "listRS" BY DEF LookInto, Goto, TypeOK
<1>2. loc'[c] = [loc[c] EXCEPT !.err = FALSE, !.snap = uid] BY DEF LookInto, TypeOK
<1>3. loc[c] \in Locals BY LocalsOf
<1>4. /\ loc'[c].todo = {} /\ loc'[c].kids = {} /\ loc'[c].podTodo = {} /\ loc'[c].snap = uid
      /\ \A p \in loc'[c].doomed : p.runtime \notin WorkingRuntimes
  BY <1>2, <1>3 DEF WalkInv, BlameInv, Locals, PassLabels, WalkLabels
<1>. QED BY <1>1, <1>4 DEF WalkInv, BlameInv, PassLabels, WalkLabels, PodLabels, FlipLabels

\* A step of the creator's own within the walk: it goes on with what it has.
LEMMA WalkOn ==
    ASSUME TypeOK, UidInv, Evolves, NEW c \in Creators, WalkInv(c),
           pc[c] \in WalkLabels, pc'[c] \in WalkLabels \ {"listPods"},
           loc'[c].snap = loc[c].snap, loc'[c].todo = loc[c].todo,
           \/ loc'[c].kids = {} /\ loc'[c].podTodo = {}
           \/ /\ pc'[c] \in PodLabels /\ loc'[c].cur = loc[c].cur
              /\ loc'[c].kids \subseteq loc[c].kids /\ loc'[c].podTodo \subseteq loc[c].podTodo
    PROVE  WalkInv(c)'
<1>1. \A t \in loc'[c].todo : Names(t.runtime, t.uid, loc[c].snap)'
  <2>1. PICK todo, snap : todo = loc[c].todo /\ snap = loc[c].snap OBVIOUS
  <2>2. \A t \in todo : t.uid \in Nat BY <2>1, LocalsOf DEF Locals
  <2>3. \A t \in todo : Names(t.runtime, t.uid, snap)'
    BY <2>1, <2>2, NamesStable DEF WalkInv
  <2>. QED BY <2>1, <2>3 DEF Names
<1>2. \A p \in loc'[c].kids \cup loc'[c].podTodo :
         p.runtime = loc'[c].cur.runtime /\ p.owner = loc'[c].snap
  BY DEF WalkInv
<1>3. pc'[c] \notin PodLabels => loc'[c].kids = {} /\ loc'[c].podTodo = {}
  OBVIOUS
<1>4. loc'[c].snap # 0 BY DEF WalkInv, PassLabels
<1>. QED BY <1>1, <1>2, <1>3, <1>4 DEF WalkInv, Names

\* driver.Boot, Info, Clients, createConfigMap
LEMMA BootRemembers ==
    ASSUME TypeOK, UidInv, Evolves, NEW c \in Creators, WalkInv(c), BlameInv(c),
           \/ BootTimesOut(c) \/ Info(c) \/ InfoPods(c) \/ Clients(c)
           \/ ConfigMapGet(c) \/ ConfigMapCreate(c) \/ ConfigMapUpdate(c) \/ BuilderTimesOut(c)
    PROVE  WalkInv(c)' /\ BlameInv(c)'
<1>1. pc[c] \notin PassLabels
  BY DEF BootTimesOut, Info, InfoPods, Clients, ConfigMapGet, ConfigMapCreate, ConfigMapUpdate,
      WriteConfigMap, BuilderTimesOut, PassLabels, WalkLabels, PodLabels, FlipLabels
<1>2. fresh' = fresh /\ depl' = depl
  BY DEF BootTimesOut, Info, InfoPods, Clients, ConfigMapGet, ConfigMapCreate, ConfigMapUpdate,
      WriteConfigMap, BuilderTimesOut, cluster
<1>3. loc'[c] = loc[c] \/ loc'[c] = Idle
  BY DEF BootTimesOut, Info, InfoPods, Clients, ConfigMapGet, ConfigMapCreate, ConfigMapUpdate,
      WriteConfigMap, BuilderTimesOut, StartCreateBuilder, Leave, TypeOK
<1>4. (\E l : l \notin PassLabels /\ Goto(c, l)) \/ (UNCHANGED pc /\ UNCHANGED loc)
  BY DEF BootTimesOut, Info, InfoPods, Clients, ConfigMapGet, ConfigMapCreate, ConfigMapUpdate,
      WriteConfigMap, BuilderTimesOut, StartCreateBuilder, Leave,
      PassLabels, WalkLabels, PodLabels, FlipLabels
<1>. QED BY <1>1, <1>2, <1>3, <1>4, OutsidePass, LocalFrame

LEMMA GetRemembers ==
    ASSUME TypeOK, UidInv, Evolves, NEW c \in Creators, WalkInv(c), BlameInv(c),
           BuilderGet(c) \/ BuilderCreate(c)
    PROVE  WalkInv(c)' /\ BlameInv(c)'
<1>1. pc[c] \notin PassLabels
  BY DEF BuilderGet, BuilderCreate, PassLabels, WalkLabels, PodLabels, FlipLabels
<1>2. CASE \E err : EndPass(c, err) BY <1>2, EndPassForgets
<1>3. CASE BuilderGet(c) /\ ~\E err : EndPass(c, err)
  <2>1. CASE Goto(c, "create") /\ UNCHANGED <<loc, fresh>>
    BY <1>1, <2>1, OutsidePass DEF PassLabels, WalkLabels, PodLabels, FlipLabels
  <2>2. CASE Leave(c, "clients") /\ UNCHANGED fresh
    <3>1. loc'[c] = Idle BY <2>2 DEF Leave, TypeOK
    <3>. QED BY <1>1, <2>2, <3>1, OutsidePass DEF Leave, PassLabels, WalkLabels, PodLabels, FlipLabels
  <2>3. CASE DeploymentExists /\ LookInto(c, depl.uid)
    <3>1. PICK uid : uid = depl.uid OBVIOUS
    <3>2. depl'.uid = uid BY <1>3, <3>1 DEF BuilderGet, cluster
    <3>. QED BY <1>1, <2>3, <3>1, <3>2, LookIntoRemembers DEF DeploymentExists
  <2>. QED BY <1>3, <2>1, <2>2, <2>3 DEF BuilderGet
<1>4. CASE BuilderCreate(c) /\ ~\E err : EndPass(c, err)
  <2>1. CreateDeployment(c) /\ LookInto(c, clock) BY <1>4 DEF BuilderCreate
  <2>2. PICK uid : uid = clock OBVIOUS
  <2>3. uid # 0 /\ depl'.uid = uid BY <2>1, <2>2 DEF CreateDeployment, TypeOK
  <2>. QED BY <1>1, <2>1, <2>2, <2>3, LookIntoRemembers
<1>. QED BY <1>2, <1>3, <1>4

\* The walk over ReplicaSets and pods; a flip is decided against a runtime
\* whose socket is missing.
LEMMA ListingRemembers ==
    ASSUME TypeOK, UidInv, Evolves, NEW c \in Creators, WalkInv(c), BlameInv(c),
           ListReplicaSets(c) \/ NextReplicaSet(c) \/ ListPods(c)
    PROVE  WalkInv(c)' /\ BlameInv(c)'
<1> USE DEF cluster, podVars
<1>1. UNCHANGED <<depl, rs, pods, clock, mountFailed>>
  BY DEF ListReplicaSets, NextReplicaSet, ListPods
<1>2. loc[c] \in Locals BY LocalsOf
<1>3. CASE \E err : EndPass(c, err) BY <1>3, EndPassForgets
<1>4. CASE ListReplicaSets(c) /\ ~\E err : EndPass(c, err)
  <2>1. /\ pc[c] = "listRS" /\ pc'[c] = "replica" /\ fresh' = fresh
        /\ loc' = [loc EXCEPT ![c].todo = ReplicaSetsOf(loc[c].snap)]
    BY <1>4 DEF ListReplicaSets, Goto, TypeOK
  <2>2. loc'[c] = [loc[c] EXCEPT !.todo = ReplicaSetsOf(loc[c].snap)]
    BY <2>1 DEF TypeOK
  <2>3. \A t \in loc'[c].todo : Names(t.runtime, t.uid, loc[c].snap)
    <3>1. loc[c].snap # 0 BY <2>1 DEF WalkInv, PassLabels
    <3>2. \A r \in Runtimes : rs[r].owner = loc[c].snap => Names(r, rs[r].uid, loc[c].snap)
      BY <3>1 DEF UidInv, NoReplicaSet
    <3>. QED BY <1>2, <2>2, <3>2 DEF ReplicaSetsOf, Locals
  <2>. QED BY <1>1, <1>2, <2>1, <2>2, <2>3
       DEF WalkInv, BlameInv, Names, Locals, PassLabels, WalkLabels, PodLabels, FlipLabels
<1>5. CASE NextReplicaSet(c) /\ ~\E err : EndPass(c, err)
  <2>1. PICK r \in loc[c].todo :
           /\ pc[c] = "replica" /\ pc'[c] = "listPods" /\ fresh' = fresh
           /\ loc' = [loc EXCEPT ![c].todo = loc[c].todo \ {r}, ![c].cur = r]
    BY <1>5 DEF NextReplicaSet, Goto, TypeOK
  <2>2. loc'[c] = [loc[c] EXCEPT !.todo = loc[c].todo \ {r}, !.cur = r]
    BY <2>1 DEF TypeOK
  <2>3. /\ loc'[c].snap = loc[c].snap /\ loc'[c].todo \subseteq loc[c].todo /\ loc'[c].cur = r
        /\ loc'[c].kids = loc[c].kids /\ loc'[c].podTodo = loc[c].podTodo
        /\ loc'[c].doomed = loc[c].doomed
    BY <1>2, <2>2 DEF Locals
  <2>4. Names(r.runtime, r.uid, loc[c].snap) BY DEF WalkInv
  <2>. QED BY <1>1, <2>1, <2>3, <2>4
       DEF WalkInv, BlameInv, Names, Locals, PassLabels, WalkLabels, PodLabels, FlipLabels
<1>6. CASE ListPods(c)
  <2>1. pc[c] = "listPods" /\ fresh' = fresh BY <1>6 DEF ListPods
  <2>2. CASE Goto(c, "replica") /\ UNCHANGED loc
    <3>1. pc'[c] = "replica" BY <2>2 DEF Goto, TypeOK
    <3>. QED BY <1>1, <2>1, <2>2, <3>1
         DEF WalkInv, BlameInv, Names, PassLabels, WalkLabels, PodLabels, FlipLabels
  <2>3. CASE /\ Goto(c, "pod")
             /\ loc' = [loc EXCEPT ![c].kids = PodsOf(loc[c].cur.uid),
                                   ![c].podTodo = PodsOf(loc[c].cur.uid)]
    <3>1. pc'[c] = "pod" BY <2>3 DEF Goto, TypeOK
    <3>2. loc'[c] = [loc[c] EXCEPT !.kids = PodsOf(loc[c].cur.uid),
                                   !.podTodo = PodsOf(loc[c].cur.uid)]
      BY <2>3 DEF TypeOK
    <3>3. \A p \in PodsOf(loc[c].cur.uid) : p.runtime = loc[c].cur.runtime /\ p.owner = loc[c].snap
      BY <2>1 DEF WalkInv, Names, PodsOf
    <3>. QED BY <1>1, <1>2, <2>1, <3>1, <3>2, <3>3
         DEF WalkInv, BlameInv, Names, Locals, PassLabels, WalkLabels, PodLabels, FlipLabels
  <2>. QED BY <1>6, <2>2, <2>3 DEF ListPods
<1>. QED BY <1>3, <1>4, <1>5, <1>6

LEMMA BlameRemembers ==
    ASSUME TypeOK, UidInv, SocketInv, Evolves, NEW c \in Creators, WalkInv(c), BlameInv(c), NextPod(c)
    PROVE  WalkInv(c)' /\ BlameInv(c)'
<1> USE DEF cluster, podVars, WalkLabels, PodLabels, FlipLabels
<1>1. loc[c] \in Locals BY LocalsOf
<1>2. pc[c] = "pod" /\ fresh' = fresh /\ depl' = depl /\ mountFailed' = mountFailed
  BY DEF NextPod
<1>3. CASE /\ Goto(c, "replica")
           /\ \/ loc[c].podTodo = {} /\ loc' = [loc EXCEPT ![c].kids = {}, ![c].cur = Idle.cur]
              \/ loc' = [loc EXCEPT ![c].kids = {}, ![c].podTodo = {}, ![c].cur = Idle.cur]
  <2>1. pc'[c] = "replica" BY <1>3 DEF Goto, TypeOK
  <2>2. \/ loc[c].podTodo = {} /\ loc'[c] = [loc[c] EXCEPT !.kids = {}, !.cur = Idle.cur]
        \/ loc'[c] = [loc[c] EXCEPT !.kids = {}, !.podTodo = {}, !.cur = Idle.cur]
    BY <1>3 DEF TypeOK
  <2>3. /\ loc'[c].snap = loc[c].snap /\ loc'[c].todo = loc[c].todo /\ loc'[c].doomed = loc[c].doomed
        /\ loc'[c].kids = {} /\ loc'[c].podTodo = {}
    BY <1>1, <2>2 DEF Locals
  <2>4. WalkInv(c)' BY <1>2, <2>1, <2>3, WalkOn
  <2>. QED BY <1>2, <2>1, <2>3, <2>4 DEF BlameInv, PassLabels
<1>4. ASSUME NEW p \in loc[c].podTodo,
             loc' = [loc EXCEPT ![c].podTodo = loc[c].podTodo \ {p},
                                ![c].reported = loc[c].reported \cup (mountFailed \cap {p})],
             (p \in mountFailed /\ Goto(c, "update")) \/ UNCHANGED pc
      PROVE  WalkInv(c)' /\ BlameInv(c)'
  <2>1. pc'[c] = "pod" \/ (p \in mountFailed /\ pc'[c] = "update")
    BY <1>2, <1>4 DEF Goto, TypeOK
  <2>2. loc'[c] = [loc[c] EXCEPT !.podTodo = loc[c].podTodo \ {p},
                                 !.reported = loc[c].reported \cup (mountFailed \cap {p})]
    BY <1>4 DEF TypeOK
  <2>3. /\ loc'[c].snap = loc[c].snap /\ loc'[c].todo = loc[c].todo /\ loc'[c].doomed = loc[c].doomed
        /\ loc'[c].cur = loc[c].cur
        /\ loc'[c].kids = loc[c].kids /\ loc'[c].podTodo \subseteq loc[c].podTodo
    BY <1>1, <2>2 DEF Locals
  <2>4. WalkInv(c)' BY <1>2, <2>1, <2>3, WalkOn
  <2>5. p.runtime = loc[c].cur.runtime /\ p.owner = loc[c].snap BY DEF WalkInv
  <2>. QED BY <1>2, <2>1, <2>3, <2>4, <2>5 DEF BlameInv, PassLabels, SocketInv
<1>. QED BY <1>3, <1>4 DEF NextPod

LEMMA FlipRemembers ==
    ASSUME TypeOK, UidInv, Evolves, NEW c \in Creators, WalkInv(c), BlameInv(c),
           FlipUpdate(c) \/ FlipDeleteReplicaSet(c) \/ FlipDeletePod(c)
    PROVE  WalkInv(c)' /\ BlameInv(c)'
<1> USE DEF cluster, podVars, WalkLabels, PodLabels, FlipLabels
<1>1. loc[c] \in Locals BY LocalsOf
<1>2. CASE FlipUpdate(c)
  <2>1. pc[c] = "update" /\ loc' = loc BY <1>2 DEF FlipUpdate
  <2>2. pc'[c] \in {"delRS", "pod"} BY <1>2 DEF FlipUpdate, Goto, TypeOK
  <2>3. fresh' \subseteq fresh /\ depl'.uid = depl.uid
    BY <1>2 DEF FlipUpdate, UpdateDeployment, TypeOK, Deployment, NoDeployment
  <2>4. WalkInv(c)' BY <2>1, <2>2, WalkOn
  <2>. QED BY <2>1, <2>2, <2>3, <2>4 DEF BlameInv, PassLabels
<1>3. CASE FlipDeleteReplicaSet(c)
  <2>1. /\ pc[c] = "delRS" /\ pc'[c] = "delPod" /\ fresh' = fresh /\ depl' = depl
        /\ loc'[c] = [loc[c] EXCEPT !.doomed = loc[c].kids]
    BY <1>3 DEF FlipDeleteReplicaSet, Goto, TypeOK
  <2>2. /\ loc'[c].snap = loc[c].snap /\ loc'[c].todo = loc[c].todo /\ loc'[c].cur = loc[c].cur
        /\ loc'[c].kids = loc[c].kids /\ loc'[c].podTodo = loc[c].podTodo
        /\ loc'[c].doomed = loc[c].kids
    BY <1>1, <2>1 DEF Locals
  <2>3. WalkInv(c)' BY <2>1, <2>2, WalkOn
  <2>. QED BY <2>1, <2>2, <2>3 DEF WalkInv, BlameInv, PassLabels
<1>4. CASE FlipDeletePod(c)
  <2>1. pc[c] = "delPod" /\ fresh' = fresh /\ depl' = depl
    BY <1>4 DEF FlipDeletePod
  <2>2. pc'[c] \in {"pod", "delPod"} BY <1>4 DEF FlipDeletePod, Goto, TypeOK
  <2>3. \E gone : loc'[c] = [loc[c] EXCEPT !.doomed = loc[c].doomed \ gone]
    <3>1. CASE loc' = loc
      <4>1. loc'[c] = [loc[c] EXCEPT !.doomed = loc[c].doomed \ {}] BY <1>1, <3>1 DEF Locals
      <4>. QED BY <4>1
    <3>2. ASSUME NEW p, loc' = [loc EXCEPT ![c].doomed = loc[c].doomed \ {p}]
          PROVE  \E gone : loc'[c] = [loc[c] EXCEPT !.doomed = loc[c].doomed \ gone]
      BY <3>2 DEF TypeOK
    <3>. QED BY <1>4, <3>1, <3>2 DEF FlipDeletePod
  <2>4. /\ loc'[c].snap = loc[c].snap /\ loc'[c].todo = loc[c].todo /\ loc'[c].cur = loc[c].cur
        /\ loc'[c].kids = loc[c].kids /\ loc'[c].podTodo = loc[c].podTodo
        /\ loc'[c].doomed \subseteq loc[c].doomed
    BY <1>1, <2>3 DEF Locals
  <2>5. WalkInv(c)' BY <2>1, <2>2, <2>4, WalkOn
  <2>. QED BY <2>1, <2>2, <2>4, <2>5 DEF BlameInv, PassLabels
<1>. QED BY <1>2, <1>3, <1>4

-----------------------------------------------------------------------------
(* All together *)

\* What one creator does to the locals and the reads of the others.
LEMMA OthersUntouched ==
    ASSUME TypeOK, NEW c \in Creators, Create(c), NEW d \in Creators \ {c}, WalkInv(d), BlameInv(d)
    PROVE  /\ pc'[d] = pc[d] /\ loc'[d] = loc[d]
           /\ d \in fresh' => d \in fresh /\ depl'.uid = depl.uid
<1> USE DEF cluster, podVars
<1>1. pc'[d] = pc[d]
  BY DEF Create, BootTimesOut, Info, InfoPods, Clients, ConfigMapGet, ConfigMapCreate, ConfigMapUpdate,
      WriteConfigMap, BuilderTimesOut, BuilderGet, BuilderCreate, ListReplicaSets, NextReplicaSet,
      ListPods, NextPod, FlipUpdate, FlipDeleteReplicaSet, FlipDeletePod, StartCreateBuilder,
      EndPass, LookInto, Leave, Goto, TypeOK
<1>2. loc'[d] = loc[d]
  BY DEF Create, BootTimesOut, Info, InfoPods, Clients, ConfigMapGet, ConfigMapCreate, ConfigMapUpdate,
      WriteConfigMap, BuilderTimesOut, BuilderGet, BuilderCreate, ListReplicaSets, NextReplicaSet,
      ListPods, NextPod, FlipUpdate, FlipDeleteReplicaSet, FlipDeletePod, StartCreateBuilder,
      EndPass, LookInto, Leave, TypeOK
<1>3. fresh' \subseteq fresh \cup {c}
  BY DEF Create, BootTimesOut, Info, InfoPods, Clients, ConfigMapGet, ConfigMapCreate, ConfigMapUpdate,
      WriteConfigMap, BuilderTimesOut, BuilderGet, BuilderCreate, ListReplicaSets, NextReplicaSet,
      ListPods, NextPod, FlipUpdate, FlipDeleteReplicaSet, FlipDeletePod, UpdateDeployment,
      EndPass, LookInto
<1>4. depl'.uid = depl.uid \/ ~DeploymentExists
  BY DEF Create, BootTimesOut, Info, InfoPods, Clients, ConfigMapGet, ConfigMapCreate, ConfigMapUpdate,
      WriteConfigMap, BuilderTimesOut, BuilderGet, BuilderCreate, ListReplicaSets, NextReplicaSet,
      ListPods, NextPod, FlipUpdate, FlipDeleteReplicaSet, FlipDeletePod, UpdateDeployment, CanCreate,
      TypeOK, Deployment, NoDeployment
<1>5. d \in fresh => DeploymentExists BY DEF BlameInv, WalkInv, DeploymentExists
<1>. QED BY <1>1, <1>2, <1>3, <1>4, <1>5

LEMMA LocalInvStable ==
    ASSUME TypeOK, FlipInv, ClusterInv, LocalInv, [Next]_vars
    PROVE  LocalInv'
<1> USE DEF ClusterInv
<1>1. Evolves BY StepEvolves
<1>2. ASSUME NEW c \in Creators, Create(c) PROVE LocalInv'
  <2>1. WalkInv(c)' /\ BlameInv(c)'
    BY <1>1, <1>2, BootRemembers, GetRemembers, ListingRemembers, BlameRemembers, FlipRemembers
    DEF LocalInv, Create
  <2>2. ASSUME NEW d \in Creators \ {c} PROVE WalkInv(d)' /\ BlameInv(d)'
    BY <1>1, <1>2, OthersUntouched, LocalFrame DEF LocalInv
  <2>. QED BY <2>1, <2>2 DEF LocalInv
<1>3. CASE (\E c \in Creators : Cancel(c)) \/ (\E r \in Removers : Remove(r)) \/ Cluster \/ UNCHANGED vars
  <2>1. \A d \in Creators : pc'[d] = pc[d] /\ loc'[d] = loc[d]
    BY <1>3, ProcessAssumption DEF Cancel, Remove, RmList, RmDeployment, RmConfigMap, Goto, TypeOK,
        Cluster, CreateReplicaSet, RetireReplicaSet, CreatePod, RemoveSurplusPod, MountFails,
        PodStarts, PodBecomesReady, Disrupt, SyncStatus, TouchStatus, CollectReplicaSet, CollectPod,
        cliVars, vars
  <2>2. fresh' = {} \/ (fresh' = fresh /\ depl'.uid = depl.uid)
    BY <1>3 DEF Cancel, Remove, RmList, RmDeployment, RmConfigMap, cluster,
        Cluster, CreateReplicaSet, RetireReplicaSet, CreatePod, RemoveSurplusPod, MountFails,
        PodStarts, PodBecomesReady, Disrupt, SyncStatus, TouchStatus, CollectReplicaSet, CollectPod, vars
  <2>. QED BY <1>1, <2>1, <2>2, LocalFrame DEF LocalInv
<1>. QED BY <1>2, <1>3 DEF Next

LEMMA FlipSafetyHolds == Spec => [](ClusterInv /\ LocalInv)
<1>1. Init => ClusterInv /\ LocalInv
  <2> SUFFICES ASSUME Init PROVE ClusterInv /\ LocalInv
    OBVIOUS
  <2> USE DEF Init, NoReplicaSet, NoDeployment
  <2>1. UidInv BY DEF UidInv
  <2>2. SocketInv BY DEF SocketInv
  <2>3. DockerInv BY DEF DockerInv, DeploymentExists
  <2>4. LocalInv
    BY ProcessAssumption DEF LocalInv, WalkInv, BlameInv, Idle, PassLabels, WalkLabels, PodLabels, FlipLabels
  <2>. QED BY <2>1, <2>2, <2>3, <2>4 DEF ClusterInv
<1>2. TypeOK /\ TypeOK' /\ FlipInv /\ ClusterInv /\ LocalInv /\ [Next]_vars => ClusterInv' /\ LocalInv'
  BY StepEvolves, ClusterInvStable, LocalInvStable
<1>. QED BY <1>1, <1>2, TypeCorrect, FlipInvHolds, PTL DEF Spec

\* No step of a booting process takes down a pod that runs, neither by
\* deleting it nor by deleting its ReplicaSet, however stale its listings are.
THEOREM BootKeepsRunningPodsHolds == Spec => BootKeepsRunningPods
<1>1. TypeOK /\ ClusterInv /\ LocalInv /\ [Next]_vars =>
         [(\E c \in Creators : pc'[c] # pc[c] \/ loc'[c] # loc[c]) =>
             \A p \in running : Alive(p) => Alive(p)']_vars
  <2> SUFFICES ASSUME TypeOK, ClusterInv, LocalInv, [Next]_vars,
                      \E c \in Creators : pc'[c] # pc[c] \/ loc'[c] # loc[c],
                      NEW p \in running, Alive(p)
               PROVE  Alive(p)'
    OBVIOUS
  <2>1. PICK c \in Creators : Create(c)
    BY ProcessAssumption DEF Next, Cancel, Remove, RmList, RmDeployment, RmConfigMap, Goto, TypeOK,
        Cluster, CreateReplicaSet, RetireReplicaSet, CreatePod, RemoveSurplusPod, MountFails,
        PodStarts, PodBecomesReady, Disrupt, SyncStatus, TouchStatus, CollectReplicaSet, CollectPod,
        cliVars, vars
  <2>2. p.runtime \in WorkingRuntimes BY DEF ClusterInv, SocketInv
  <2>3. CASE FlipDeleteReplicaSet(c)
    <3>1. loc[c].cur.runtime \notin WorkingRuntimes
      BY <2>3 DEF FlipDeleteReplicaSet, LocalInv, BlameInv, FlipLabels
    <3>2. PICK r \in Runtimes : rs[r].uid = p.rs BY DEF Alive
    <3>3. rs[r] # NoReplicaSet BY <3>2 DEF ClusterInv, UidInv, NoReplicaSet, TypeOK
    <3>4. r = p.runtime BY <3>2, <3>3 DEF ClusterInv, UidInv, Names, TypeOK
    <3>5. rs'[r] = rs[r] BY <2>2, <2>3, <3>1, <3>4 DEF FlipDeleteReplicaSet, TypeOK
    <3>. QED BY <2>3, <3>2, <3>5 DEF FlipDeleteReplicaSet, podVars, Alive
  <2>4. CASE FlipDeletePod(c)
    <3>1. p \notin loc[c].doomed BY <2>2 DEF LocalInv, BlameInv
    <3>. QED BY <2>4, <3>1 DEF FlipDeletePod, RemovePods, podVars, Alive
  <2>5. CASE ~FlipDeleteReplicaSet(c) /\ ~FlipDeletePod(c)
    <3>1. UNCHANGED <<rs, running>>
      BY <2>1, <2>5 DEF Create, BootTimesOut, Info, InfoPods, Clients, ConfigMapGet, ConfigMapCreate,
          ConfigMapUpdate, WriteConfigMap, BuilderTimesOut, BuilderGet, BuilderCreate, ListReplicaSets,
          NextReplicaSet, ListPods, NextPod, FlipUpdate, cluster, podVars
    <3>. QED BY <3>1 DEF Alive
  <2>. QED BY <2>3, <2>4, <2>5
<1>. QED BY <1>1, TypeCorrect, FlipSafetyHolds, PTL DEF Spec, BootKeepsRunningPods

\* A Deployment only ever moves from docker to containerd, and only after a
\* docker pod of this very Deployment failed to mount the socket.
THEOREM FlipsAreJustifiedHolds == Spec => FlipsAreJustified
<1>1. TypeOK /\ FlipInv /\ ClusterInv /\ LocalInv /\ [Next]_vars =>
         [depl'.uid = depl.uid /\ depl'.runtime # depl.runtime =>
             /\ depl.runtime = "docker" /\ depl'.runtime = "containerd"
             /\ \E p \in mountFailed : p.owner = depl.uid /\ p.runtime = "docker"]_vars
  <2> SUFFICES ASSUME TypeOK, FlipInv, ClusterInv, LocalInv, [Next]_vars,
                      depl'.uid = depl.uid, depl'.runtime # depl.runtime
               PROVE  /\ depl.runtime = "docker" /\ depl'.runtime = "containerd"
                      /\ \E p \in mountFailed : p.owner = depl.uid /\ p.runtime = "docker"
    OBVIOUS
  <2>1. depl' # depl OBVIOUS
  <2>2. ~SyncStatus BY DEF SyncStatus, TypeOK, Deployment, NoDeployment
  <2>3. ~\E r \in Removers : Remove(r)
    BY <2>1 DEF Remove, RmList, RmDeployment, RmConfigMap, cluster, DeploymentExists, NoDeployment
  <2>4. ~\E c \in Creators : BuilderCreate(c)
    <3>1. clock # 0 BY DEF TypeOK
    <3>2. \A c \in Creators : CanCreate(c) /\ CreateDeployment(c) => depl'.uid # depl.uid
      BY <3>1 DEF CanCreate, CreateDeployment, DeploymentExists
    <3>. QED BY <2>1, <3>2 DEF BuilderCreate
  <2>5. PICK c \in Creators : FlipUpdate(c)
    <3>1. ~Cluster
      BY <2>1, <2>2 DEF Cluster, CreateReplicaSet, RetireReplicaSet, CreatePod, RemoveSurplusPod, MountFails,
          PodStarts, PodBecomesReady, Disrupt, TouchStatus, CollectReplicaSet, CollectPod, cluster
    <3>2. PICK c \in Creators : Create(c) \/ Cancel(c) BY <2>1, <2>3, <3>1 DEF Next, vars
    <3>. QED BY <2>1, <2>4, <3>2 DEF Cancel, Create, BootTimesOut, Info, InfoPods, Clients, ConfigMapGet,
          ConfigMapCreate, ConfigMapUpdate, WriteConfigMap, BuilderTimesOut, BuilderGet, ListReplicaSets,
          NextReplicaSet, ListPods, NextPod, FlipDeleteReplicaSet, FlipDeletePod, cluster
  <2>6. pc[c] = "update" /\ CanUpdate(c) /\ UpdateDeployment(c) BY <2>1, <2>5 DEF FlipUpdate
  <2>7. depl' = [depl EXCEPT !.runtime = Want(c), !.replicas = Replicas[c]]
    BY <2>6 DEF UpdateDeployment
  <2>8. depl \in [uid : Nat \ {0}, runtime : Runtimes, replicas : Nat \ {0}, ready : Nat]
    BY <2>6 DEF CanUpdate, DeploymentExists, TypeOK, Deployment, NoDeployment
  <2>9. depl'.runtime = "containerd" BY <2>6, <2>7, <2>8 DEF FlipInv, Want
  <2>10. depl.runtime = "docker" BY <2>8, <2>9 DEF Runtimes
  <2>11. PICK p \in mountFailed : p.owner = depl.uid
    BY <2>6 DEF LocalInv, BlameInv, CanUpdate
  <2>12. p.runtime = "docker"
    BY <2>6, <2>10, <2>11 DEF ClusterInv, DockerInv, CanUpdate
  <2>. QED BY <2>9, <2>10, <2>11, <2>12
<1>. QED BY <1>1, TypeCorrect, FlipInvHolds, FlipSafetyHolds, PTL DEF Spec, FlipsAreJustified
=============================================================================
