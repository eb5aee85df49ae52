------------------------ MODULE BuilderBootstrapProofs ------------------------
(***************************************************************************)
(* Theorems about BuilderBootstrap, for every set of processes, every      *)
(* combination of their options and every bound.                           *)
(***************************************************************************)
EXTENDS BuilderBootstrap, FiniteSetTheorems, TLAPS

\* What initDriverFromConfig asks for is one of the two runtimes.
LEMMA WantType ==
    ASSUME NEW c \in Creators
    PROVE  Want(c) \in Runtimes
BY OptionAssumption DEF Want, Runtimes

\* Setting one process's label keeps the type of pc.
LEMMA GotoType ==
    ASSUME TypeOK, NEW c \in Creators, NEW l \in CreatorLabels, Goto(c, l)
    PROVE  /\ pc' \in [Creators \cup Removers -> CreatorLabels \cup RemoverLabels]
           /\ \A d \in Creators : pc'[d] \in CreatorLabels
           /\ \A r \in Removers : pc'[r] \in RemoverLabels
BY ProcessAssumption DEF TypeOK, Goto

\* Taking a call from the budget keeps its type.
LEMMA BudgetType ==
    ASSUME TypeOK, NEW p, CallFails(p) \/ CallAnswers(p) \/ AnswerLost(p)
    PROVE  budget' \in [faults : Nat, noise : Nat, disruptions : Nat]
BY DEF TypeOK, CallFails, CallAnswers, AnswerLost, SpendFault

LEMMA BootTypes ==
    ASSUME TypeOK, NEW c \in Creators,
           BootTimesOut(c) \/ Info(c) \/ InfoPods(c) \/ Clients(c)
    PROVE  TypeOK'
<1> USE DEF cluster, podVars
<1>1. CASE BootTimesOut(c)
  <2>1. Goto(c, "failed") BY <1>1 DEF BootTimesOut
  <2>. QED BY <1>1, <2>1, GotoType DEF BootTimesOut, TypeOK, CreatorLabels
<1>2. CASE Info(c)
  <2>1. budget' \in [faults : Nat, noise : Nat, disruptions : Nat]
    BY <1>2, BudgetType DEF Info
  <2>2. \E l \in CreatorLabels : Goto(c, l)
    BY <1>2 DEF Info, CreatorLabels
  <2>. QED BY <1>2, <2>1, <2>2, GotoType DEF Info, TypeOK
<1>3. CASE InfoPods(c)
  <2>1. budget' \in [faults : Nat, noise : Nat, disruptions : Nat]
    BY <1>3, BudgetType DEF InfoPods
  <2>2. \E l \in CreatorLabels : Goto(c, l)
    BY <1>3 DEF InfoPods, CreatorLabels
  <2>. QED BY <1>3, <2>1, <2>2, GotoType DEF InfoPods, TypeOK
<1>4. CASE Clients(c)
  <2>1. budget' \in [faults : Nat, noise : Nat, disruptions : Nat]
    BY <1>4, BudgetType DEF Clients
  <2>2. \E l \in CreatorLabels : Goto(c, l)
    BY <1>4 DEF Clients, CreatorLabels
  <2>. QED BY <1>4, <2>1, <2>2, GotoType DEF Clients, TypeOK
<1>. QED BY <1>1, <1>2, <1>3, <1>4

\* The locals of createBuilder keep their type when fields are replaced.
LEMMA IdleType == Idle \in Locals
BY DEF Idle, Locals, Pod

LEMMA LocalsOf ==
    ASSUME TypeOK, NEW c \in Creators
    PROVE  loc[c] \in Locals
BY DEF TypeOK

LEMMA ConfigMapTypes ==
    ASSUME TypeOK, NEW c \in Creators,
           ConfigMapGet(c) \/ ConfigMapCreate(c) \/ ConfigMapUpdate(c)
    PROVE  TypeOK'
<1> USE DEF cluster, podVars, StartCreateBuilder
<1>1. budget' \in [faults : Nat, noise : Nat, disruptions : Nat]
  BY BudgetType DEF ConfigMapGet, ConfigMapCreate, ConfigMapUpdate, WriteConfigMap, TypeOK
<1>2. CASE ConfigMapGet(c)
  <2>1. (\E l \in CreatorLabels : Goto(c, l)) \/ UNCHANGED pc
    BY <1>2 DEF ConfigMapGet, CreatorLabels
  <2>2. loc' \in [Creators -> Locals]
    BY <1>2, IdleType DEF ConfigMapGet, TypeOK
  <2>. QED BY <1>1, <1>2, <2>1, <2>2, GotoType DEF ConfigMapGet, TypeOK
<1>3. ASSUME NEW label, NEW possible \in BOOLEAN, WriteConfigMap(c, label, possible)
      PROVE  TypeOK'
  <2>1. \E l \in CreatorLabels : Goto(c, l)
    BY <1>3 DEF WriteConfigMap, CreatorLabels
  <2>2. loc' \in [Creators -> Locals]
    BY <1>3, IdleType DEF WriteConfigMap, TypeOK
  <2>3. cm' \in {"none", "default", "custom"}
    BY <1>3, OptionAssumption DEF WriteConfigMap, TypeOK
  <2>. QED BY <1>1, <1>3, <2>1, <2>2, <2>3, GotoType DEF WriteConfigMap, TypeOK
<1>. QED BY <1>2, <1>3 DEF ConfigMapCreate, ConfigMapUpdate

LEMMA LookupTypes ==
    ASSUME TypeOK, NEW c \in Creators,
           BuilderTimesOut(c) \/ BuilderGet(c) \/ BuilderCreate(c) \/ ListReplicaSets(c)
    PROVE  TypeOK'
<1> USE DEF cluster, podVars
<1>1. budget' \in [faults : Nat, noise : Nat, disruptions : Nat]
  BY BudgetType DEF BuilderTimesOut, BuilderGet, BuilderCreate, ListReplicaSets, TypeOK
<1>2. \A err \in BOOLEAN : EndPass(c, err) => 
          /\ \E l \in CreatorLabels : Goto(c, l)
          /\ loc' \in [Creators -> Locals] /\ fresh' \subseteq Creators
  <2>1. TAKE err \in BOOLEAN
  <2>2. HAVE EndPass(c, err)
  <2>3. [Idle EXCEPT !.err = err, !.reported = loc[c].reported] \in Locals
    BY IdleType, LocalsOf DEF Locals
  <2>. QED BY <2>2, <2>3 DEF EndPass, TypeOK, CreatorLabels
<1>3. \A uid \in Nat : LookInto(c, uid) =>
          /\ \E l \in CreatorLabels : Goto(c, l)
          /\ loc' \in [Creators -> Locals] /\ fresh' \subseteq Creators
  <2>1. TAKE uid \in Nat
  <2>2. HAVE LookInto(c, uid)
  <2>3. [loc[c] EXCEPT !.err = FALSE, !.snap = uid] \in Locals
    BY LocalsOf DEF Locals
  <2>. QED BY <2>2, <2>3 DEF LookInto, TypeOK, CreatorLabels
<1>4. \A l : Leave(c, l) => Goto(c, l) /\ loc' \in [Creators -> Locals]
  BY IdleType DEF Leave, TypeOK
<1>5. CASE BuilderTimesOut(c)
  <2>1. \E l \in CreatorLabels : Goto(c, l)
    BY <1>5, <1>4 DEF BuilderTimesOut, CreatorLabels
  <2>. QED BY <1>1, <1>4, <1>5, <2>1, GotoType DEF BuilderTimesOut, TypeOK
<1>6. CASE BuilderGet(c)
  <2>0. depl.uid \in Nat BY DEF TypeOK, Deployment, NoDeployment
  <2>1. /\ \E l \in CreatorLabels : Goto(c, l)
        /\ loc' \in [Creators -> Locals] /\ fresh' \subseteq Creators
    BY <1>6, <1>2, <1>3, <1>4, <2>0 DEF BuilderGet, CreatorLabels, TypeOK
  <2>. QED BY <1>1, <1>6, <2>1, GotoType DEF BuilderGet, TypeOK
<1>7. CASE BuilderCreate(c)
  <2>1. /\ \E l \in CreatorLabels : Goto(c, l)
        /\ loc' \in [Creators -> Locals] /\ fresh' \subseteq Creators
    BY <1>7, <1>2, <1>3 DEF BuilderCreate, TypeOK
  <2>2. depl' \in Deployment /\ clock' \in Nat \ {0}
    <3>1. CreateDeployment(c) \/ UNCHANGED <<depl, clock>>
      BY <1>7 DEF BuilderCreate
    <3>2. Want(c) \in Runtimes /\ Replicas[c] \in Nat \ {0}
      BY WantType, OptionAssumption
    <3>3. CASE CreateDeployment(c)
      <4>1. clock \in Nat \ {0} BY DEF TypeOK
      <4>2. depl' = [uid |-> clock, runtime |-> Want(c), replicas |-> Replicas[c], ready |-> 0]
        BY <3>3 DEF CreateDeployment
      <4>3. clock' \in Nat \ {0} BY <3>3, <4>1 DEF CreateDeployment
      <4>. QED BY <3>2, <4>1, <4>2, <4>3 DEF Deployment
    <3>. QED BY <3>1, <3>3 DEF TypeOK
  <2>. QED BY <1>1, <1>7, <2>1, <2>2, GotoType DEF BuilderCreate, TypeOK
<1>8. CASE ListReplicaSets(c)
  <2>1. \A uid \in Nat : ReplicaSetsOf(uid) \in SUBSET [runtime : Runtimes, uid : Nat]
    BY DEF ReplicaSetsOf, TypeOK, ReplicaSet
  <2>3. loc[c].snap \in Nat BY LocalsOf DEF Locals
  <2>4. [loc[c] EXCEPT !.todo = ReplicaSetsOf(loc[c].snap)] \in Locals
    BY <2>1, <2>3, LocalsOf DEF Locals
  <2>5. /\ \E l \in CreatorLabels : Goto(c, l)
        /\ loc' \in [Creators -> Locals] /\ fresh' \subseteq Creators
    BY <1>8, <1>2, <2>4 DEF ListReplicaSets, TypeOK, CreatorLabels
  <2>. QED BY <1>1, <1>8, <2>5, GotoType DEF ListReplicaSets, TypeOK
<1>. QED BY <1>5, <1>6, <1>7, <1>8

LEMMA InspectTypes ==
    ASSUME TypeOK, NEW c \in Creators,
           NextReplicaSet(c) \/ ListPods(c) \/ NextPod(c)
    PROVE  TypeOK'
<1> USE DEF cluster, podVars
<1>1. budget' \in [faults : Nat, noise : Nat, disruptions : Nat]
  BY BudgetType DEF NextReplicaSet, ListPods, NextPod, TypeOK
<1>2. ASSUME NEW v \in Locals, loc' = [loc EXCEPT ![c] = v]
      PROVE  loc' \in [Creators -> Locals]
  BY <1>2 DEF TypeOK
<1>3. CASE NextReplicaSet(c)
  <2>1. \A err \in BOOLEAN : EndPass(c, err) => loc' \in [Creators -> Locals]
    <3>1. TAKE err \in BOOLEAN
    <3>2. HAVE EndPass(c, err)
    <3>3. [Idle EXCEPT !.err = err, !.reported = loc[c].reported] \in Locals
      BY IdleType, LocalsOf DEF Locals
    <3>. QED BY <3>2, <3>3 DEF EndPass, TypeOK
  <2>2. \A r \in loc[c].todo : [loc[c] EXCEPT !.todo = loc[c].todo \ {r}, !.cur = r] \in Locals
    BY LocalsOf DEF Locals
  <2>3. loc' \in [Creators -> Locals]
    BY <1>3, <2>1, <2>2 DEF NextReplicaSet, TypeOK
  <2>4. \E l \in CreatorLabels : Goto(c, l)
    BY <1>3 DEF NextReplicaSet, EndPass, CreatorLabels
  <2>5. fresh' \subseteq Creators
    BY <1>3 DEF NextReplicaSet, EndPass, TypeOK
  <2>. QED BY <1>1, <1>3, <2>3, <2>4, <2>5, GotoType DEF NextReplicaSet, TypeOK
<1>4. CASE ListPods(c)
  <2>1. PodsOf(loc[c].cur.uid) \in SUBSET Pod
    BY DEF PodsOf, TypeOK
  <2>2. [loc[c] EXCEPT !.kids = PodsOf(loc[c].cur.uid),
                       !.podTodo = PodsOf(loc[c].cur.uid)] \in Locals
    BY <2>1, LocalsOf DEF Locals
  <2>3. loc' \in [Creators -> Locals]
    BY <1>4, <2>2 DEF ListPods, TypeOK
  <2>4. \E l \in CreatorLabels : Goto(c, l)
    BY <1>4 DEF ListPods, CreatorLabels
  <2>. QED BY <1>1, <1>4, <2>3, <2>4, GotoType DEF ListPods, TypeOK
<1>5. CASE NextPod(c)
  <2>1. [loc[c] EXCEPT !.kids = {}, !.cur = Idle.cur] \in Locals
    BY LocalsOf, IdleType DEF Locals
  <2>2. [loc[c] EXCEPT !.kids = {}, !.podTodo = {}, !.cur = Idle.cur] \in Locals
    BY LocalsOf, IdleType DEF Locals
  <2>3. \A p \in loc[c].podTodo :
           [loc[c] EXCEPT !.podTodo = loc[c].podTodo \ {p},
                          !.reported = loc[c].reported \cup (mountFailed \cap {p})] \in Locals
    BY LocalsOf DEF Locals, TypeOK
  <2>4. loc' \in [Creators -> Locals]
    BY <1>5, <2>1, <2>2, <2>3 DEF NextPod, TypeOK
  <2>5. (\E l \in CreatorLabels : Goto(c, l)) \/ UNCHANGED pc
    BY <1>5 DEF NextPod, CreatorLabels
  <2>6. flipped' \subseteq Creators
    BY <1>5 DEF NextPod, TypeOK
  <2>. QED BY <1>1, <1>5, <2>4, <2>5, <2>6, GotoType DEF NextPod, TypeOK
<1>. QED BY <1>3, <1>4, <1>5

\* Removing pods keeps the type of what is known about pods.
LEMMA RemovePodsType ==
    ASSUME TypeOK, NEW gone, RemovePods(gone)
    PROVE  /\ pods' \subseteq Pod /\ running' \subseteq pods' /\ ready' \subseteq running'
           /\ mountFailed' \subseteq Pod /\ IsFiniteSet(pods')
<1>1. pods' \subseteq pods BY DEF RemovePods
<1>2. IsFiniteSet(pods') BY <1>1, FS_Subset DEF TypeOK
<1>. QED BY <1>2 DEF RemovePods, TypeOK

LEMMA FlipTypes ==
    ASSUME TypeOK, NEW c \in Creators,
           FlipUpdate(c) \/ FlipDeleteReplicaSet(c) \/ FlipDeletePod(c)
    PROVE  TypeOK'
<1>1. budget' \in [faults : Nat, noise : Nat, disruptions : Nat]
  BY BudgetType DEF FlipUpdate, FlipDeleteReplicaSet, FlipDeletePod, TypeOK
<1>2. CASE FlipUpdate(c)
  <2>1. UpdateDeployment(c) /\ CanUpdate(c) => depl' \in Deployment /\ fresh' \subseteq Creators
    <3>1. Want(c) \in Runtimes /\ Replicas[c] \in Nat \ {0}
      BY WantType, OptionAssumption
    <3>2. HAVE UpdateDeployment(c) /\ CanUpdate(c)
    <3>3. depl \in Deployment /\ depl # NoDeployment
      BY <3>2 DEF CanUpdate, DeploymentExists, TypeOK, NoDeployment
    <3>4. depl' = [depl EXCEPT !.runtime = Want(c), !.replicas = Replicas[c]]
      BY <3>2 DEF UpdateDeployment
    <3>5. depl' \in Deployment BY <3>1, <3>3, <3>4 DEF Deployment
    <3>. QED BY <3>2, <3>5 DEF UpdateDeployment, TypeOK
  <2>2. depl' \in Deployment /\ fresh' \subseteq Creators
    BY <1>2, <2>1 DEF FlipUpdate, TypeOK
  <2>3. \E l \in CreatorLabels : Goto(c, l)
    BY <1>2 DEF FlipUpdate, CreatorLabels
  <2>. QED BY <1>1, <1>2, <2>2, <2>3, GotoType DEF FlipUpdate, TypeOK, podVars
<1>3. CASE FlipDeleteReplicaSet(c)
  <2>1. rs' \in [Runtimes -> ReplicaSet]
    BY <1>3 DEF FlipDeleteReplicaSet, TypeOK, ReplicaSet, NoReplicaSet
  <2>2. [loc[c] EXCEPT !.doomed = loc[c].kids] \in Locals
    BY LocalsOf DEF Locals
  <2>3. loc' \in [Creators -> Locals]
    BY <1>3, <2>2 DEF FlipDeleteReplicaSet, TypeOK
  <2>4. \E l \in CreatorLabels : Goto(c, l)
    BY <1>3 DEF FlipDeleteReplicaSet, CreatorLabels
  <2>. QED BY <1>1, <1>3, <2>1, <2>3, <2>4, GotoType DEF FlipDeleteReplicaSet, TypeOK, podVars
<1>4. CASE FlipDeletePod(c)
  <2>1. /\ pods' \subseteq Pod /\ running' \subseteq pods' /\ ready' \subseteq running'
        /\ mountFailed' \subseteq Pod /\ IsFiniteSet(pods')
    BY <1>4, RemovePodsType DEF FlipDeletePod, podVars, TypeOK
  <2>2. \A p \in loc[c].doomed : [loc[c] EXCEPT !.doomed = loc[c].doomed \ {p}] \in Locals
    BY LocalsOf DEF Locals
  <2>3. loc' \in [Creators -> Locals]
    BY <1>4, <2>2 DEF FlipDeletePod, TypeOK
  <2>4. (\E l \in CreatorLabels : Goto(c, l)) \/ UNCHANGED pc
    BY <1>4 DEF FlipDeletePod, CreatorLabels
  <2>. QED BY <1>1, <1>4, <2>1, <2>3, <2>4, GotoType DEF FlipDeletePod, TypeOK
<1>. QED BY <1>2, <1>3, <1>4

LEMMA RemoveTypes ==
    ASSUME TypeOK, NEW r \in Removers, Remove(r)
    PROVE  TypeOK'
<1> USE DEF cluster, podVars
<1>1. budget' \in [faults : Nat, noise : Nat, disruptions : Nat]
  BY BudgetType DEF Remove, RmList, RmDeployment, RmConfigMap
<1>2. \E l \in RemoverLabels : Goto(r, l)
  BY DEF Remove, RmList, RmDeployment, RmConfigMap, RemoverLabels
<1>3. /\ pc' \in [Creators \cup Removers -> CreatorLabels \cup RemoverLabels]
      /\ \A d \in Creators : pc'[d] \in CreatorLabels
      /\ \A q \in Removers : pc'[q] \in RemoverLabels
  BY <1>2, ProcessAssumption DEF TypeOK, Goto
<1>4. CASE RmList(r)
  BY <1>1, <1>3, <1>4 DEF RmList, TypeOK
<1>5. CASE RmDeployment(r)
  BY <1>1, <1>3, <1>5 DEF RmDeployment, TypeOK, Deployment
<1>6. CASE RmConfigMap(r)
  BY <1>1, <1>3, <1>6 DEF RmConfigMap, TypeOK
<1>. QED BY <1>4, <1>5, <1>6 DEF Remove

LEMMA ClusterTypes ==
    ASSUME TypeOK, Cluster
    PROVE  TypeOK'
<1> USE DEF cliVars, podVars, cluster
<1>1. CASE CreateReplicaSet
  <2>1. depl.uid \in Nat /\ clock \in Nat
    BY DEF TypeOK, Deployment, NoDeployment
  <2>2. rs' \in [Runtimes -> ReplicaSet]
    BY <1>1, <2>1 DEF CreateReplicaSet, TypeOK, ReplicaSet
  <2>3. clock' \in Nat \ {0}
    BY <1>1, <2>1 DEF CreateReplicaSet
  <2>4. /\ UNCHANGED <<cm, depl, pods, running, ready, mountFailed>>
        /\ UNCHANGED <<pc, loc, flipped, fresh, expired, sawReady, budget>>
    BY <1>1 DEF CreateReplicaSet
  <2>. QED BY <2>2, <2>3, <2>4 DEF TypeOK
<1>2. CASE RetireReplicaSet \/ CollectReplicaSet
  <2>1. rs' \in [Runtimes -> ReplicaSet]
    BY <1>2 DEF RetireReplicaSet, CollectReplicaSet, NoReplicaSet, TypeOK, ReplicaSet
  <2>. QED BY <1>2, <2>1 DEF RetireReplicaSet, CollectReplicaSet, TypeOK
<1>3. CASE CreatePod
  <2>1. PICK r \in Runtimes :
           /\ pods' = pods \cup {[uid |-> clock, rs |-> rs[r].uid, owner |-> depl.uid, runtime |-> r]}
           /\ clock' = clock + 1
    BY <1>3 DEF CreatePod
  <2>2. [uid |-> clock, rs |-> rs[r].uid, owner |-> depl.uid, runtime |-> r] \in Pod
    BY DEF TypeOK, Pod, ReplicaSet, Deployment, NoDeployment
  <2>3. IsFiniteSet(pods') BY <2>1, FS_AddElement DEF TypeOK
  <2>. QED BY <1>3, <2>1, <2>2, <2>3 DEF CreatePod, TypeOK
<1>4. CASE RemoveSurplusPod \/ CollectPod
  <2>1. \E p \in pods : RemovePods({p})
    BY <1>4 DEF RemoveSurplusPod, CollectPod
  <2>2. /\ pods' \subseteq Pod /\ running' \subseteq pods' /\ ready' \subseteq running'
        /\ mountFailed' \subseteq Pod /\ IsFiniteSet(pods')
    BY <2>1, RemovePodsType
  <2>. QED BY <1>4, <2>2 DEF RemoveSurplusPod, CollectPod, TypeOK
<1>5. CASE MountFails \/ PodStarts \/ PodBecomesReady
  BY <1>5 DEF MountFails, PodStarts, PodBecomesReady, TypeOK
<1>6. CASE Disrupt
  <2>1. budget' \in [faults : Nat, noise : Nat, disruptions : Nat]
    BY <1>6 DEF Disrupt, TypeOK
  <2>2. /\ pods' \subseteq Pod /\ running' \subseteq pods' /\ ready' \subseteq running'
        /\ mountFailed' \subseteq Pod /\ IsFiniteSet(pods')
    BY <1>6, RemovePodsType DEF Disrupt, TypeOK
  <2>. QED BY <1>6, <2>1, <2>2 DEF Disrupt, TypeOK
<1>7. CASE SyncStatus
  <2>1. ReadyReplicas \in Nat
    <3> DEFINE S == {p \in ready : \E r \in Runtimes : rs[r].owner = depl.uid /\ p.rs = rs[r].uid}
    <3>1. IsFiniteSet(S) BY FS_Subset DEF TypeOK
    <3>2. Cardinality(S) \in Nat BY <3>1, FS_CardinalityType
    <3>. QED BY <3>2 DEF ReadyReplicas
  <2>2. depl \in Deployment /\ depl # NoDeployment
    BY <1>7 DEF SyncStatus, DeploymentExists, TypeOK, NoDeployment
  <2>3. depl' = [depl EXCEPT !.ready = ReadyReplicas] BY <1>7 DEF SyncStatus
  <2>4. depl' \in Deployment BY <2>1, <2>2, <2>3 DEF Deployment
  <2>. QED BY <1>7, <2>4 DEF SyncStatus, TypeOK
<1>8. CASE TouchStatus
  BY <1>8 DEF TouchStatus, TypeOK
<1>. QED BY <1>1, <1>2, <1>3, <1>4, <1>5, <1>6, <1>7, <1>8 DEF Cluster

\* Every variable keeps its type in every behaviour.
THEOREM TypeCorrect == Spec => []TypeOK
<1>1. Init => TypeOK
  <2> SUFFICES ASSUME Init PROVE TypeOK
    OBVIOUS
  <2>1. depl \in Deployment
    BY ClusterAssumption DEF Init, Deployment, Runtimes
  <2>2. loc \in [Creators -> Locals] BY IdleType DEF Init
  <2>3. IsFiniteSet(pods) BY FS_EmptySet DEF Init
  <2>4. /\ pc \in [Creators \cup Removers -> CreatorLabels \cup RemoverLabels]
        /\ \A c \in Creators : pc[c] \in CreatorLabels
        /\ \A r \in Removers : pc[r] \in RemoverLabels
    BY ProcessAssumption DEF Init, CreatorLabels, RemoverLabels
  <2>5. budget \in [faults : Nat, noise : Nat, disruptions : Nat]
    BY ClusterAssumption DEF Init
  <2>. QED BY <2>1, <2>2, <2>3, <2>4, <2>5 DEF Init, TypeOK, ReplicaSet, NoReplicaSet
<1>2. TypeOK /\ [Next]_vars => TypeOK'
  <2> SUFFICES ASSUME TypeOK, [Next]_vars PROVE TypeOK'
    OBVIOUS
  <2>1. ASSUME NEW c \in Creators, Create(c) PROVE TypeOK'
    BY <2>1, BootTypes, ConfigMapTypes, LookupTypes, InspectTypes, FlipTypes DEF Create
  <2>2. ASSUME NEW c \in Creators, Cancel(c) PROVE TypeOK'
    BY <2>2 DEF Cancel, TypeOK, cluster, podVars
  <2>3. ASSUME NEW r \in Removers, Remove(r) PROVE TypeOK'
    BY <2>3, RemoveTypes
  <2>4. CASE Cluster BY <2>4, ClusterTypes
  <2>5. CASE UNCHANGED vars BY <2>5 DEF vars, TypeOK
  <2>. QED BY <2>1, <2>2, <2>3, <2>4, <2>5 DEF Next
<1>. QED BY <1>1, <1>2, PTL DEF Spec

-----------------------------------------------------------------------------
(* ConfigMapFirst.  Past createConfigMap, and while a Deployment exists, the *)
(* ConfigMap is there: the labels of createBuilder keep it inductive.        *)

PastConfigMap == {"get", "create", "listRS", "replica", "listPods", "pod", "update", "delRS", "delPod"}
ConfigMapInv ==
    NothingRemoved /\ cm = "none" =>
        ~DeploymentExists /\ \A c \in Creators : pc[c] \notin PastConfigMap

\* A remover that has finished stays finished, and a creator is no remover.
LEMMA NothingRemovedBefore ==
    ASSUME TypeOK, Next
    PROVE  NothingRemoved' => NothingRemoved
<1>1. ASSUME NEW p \in Creators \cup Removers, NEW l, Goto(p, l),
             p \in Removers => pc[p] \in {"list", "rmDepl", "rmCm"}
      PROVE  NothingRemoved' => NothingRemoved
  BY <1>1 DEF Goto, TypeOK, NothingRemoved
<1>2. ASSUME NEW c \in Creators, Create(c) PROVE NothingRemoved' => NothingRemoved
  <2>1. (\E l : Goto(c, l)) \/ UNCHANGED pc
    BY <1>2 DEF Create, BootTimesOut, Info, InfoPods, Clients, ConfigMapGet, ConfigMapCreate,
        ConfigMapUpdate, WriteConfigMap, StartCreateBuilder, BuilderTimesOut, BuilderGet,
        BuilderCreate, ListReplicaSets, NextReplicaSet, ListPods, NextPod, FlipUpdate,
        FlipDeleteReplicaSet, FlipDeletePod, EndPass, LookInto, Leave
  <2>. QED BY <2>1, <1>1, ProcessAssumption DEF NothingRemoved
<1>3. ASSUME NEW r \in Removers, Remove(r) PROVE NothingRemoved' => NothingRemoved
  <2>1. (\E l : Goto(r, l)) /\ pc[r] \in {"list", "rmDepl", "rmCm"}
    BY <1>3 DEF Remove, RmList, RmDeployment, RmConfigMap
  <2>. QED BY <2>1, <1>1
<1>4. ASSUME NEW c \in Creators, Cancel(c) PROVE NothingRemoved' => NothingRemoved
  BY <1>4 DEF Cancel, NothingRemoved
<1>5. CASE Cluster
  BY <1>5 DEF Cluster, CreateReplicaSet, RetireReplicaSet, CreatePod, RemoveSurplusPod, MountFails,
      PodStarts, PodBecomesReady, Disrupt, SyncStatus, TouchStatus, CollectReplicaSet, CollectPod,
      cliVars, NothingRemoved
<1>. QED BY <1>2, <1>3, <1>4, <1>5 DEF Next

\* createConfigMap is left only when the ConfigMap has been found or written.
LEMMA ConfigMapStep ==
    ASSUME TypeOK, NEW c \in Creators, NothingRemoved' => NothingRemoved, ConfigMapInv, Create(c)
    PROVE  ConfigMapInv'
<1> USE DEF cluster, podVars, PastConfigMap, DeploymentExists
<1>1. SUFFICES ASSUME NothingRemoved, cm' = "none"
               PROVE  ~DeploymentExists' /\ \A d \in Creators : pc'[d] \notin PastConfigMap
  BY DEF ConfigMapInv
<1>2. cm = "none"
  BY <1>1, OptionAssumption DEF Create, BootTimesOut, Info, InfoPods, Clients, ConfigMapGet, ConfigMapCreate,
      ConfigMapUpdate, WriteConfigMap, BuilderTimesOut, BuilderGet, BuilderCreate, ListReplicaSets,
      NextReplicaSet, ListPods, NextPod, FlipUpdate, FlipDeleteReplicaSet, FlipDeletePod
<1>3. ~DeploymentExists /\ \A d \in Creators : pc[d] \notin PastConfigMap
  BY <1>1, <1>2 DEF ConfigMapInv
<1>4. BootTimesOut(c) \/ Info(c) \/ InfoPods(c) \/ Clients(c) \/ ConfigMapGet(c)
      \/ ConfigMapCreate(c) \/ ConfigMapUpdate(c)
  BY <1>3 DEF Create, BuilderTimesOut, BuilderGet, BuilderCreate, ListReplicaSets, NextReplicaSet,
      ListPods, NextPod, FlipUpdate, FlipDeleteReplicaSet, FlipDeletePod
<1>5. UNCHANGED depl
  BY <1>4 DEF BootTimesOut, Info, InfoPods, Clients, ConfigMapGet, ConfigMapCreate, ConfigMapUpdate,
      WriteConfigMap
<1>6. (\E l : l \notin PastConfigMap /\ Goto(c, l)) \/ UNCHANGED pc
  <2>1. CASE BootTimesOut(c) \/ Info(c) \/ InfoPods(c) \/ Clients(c)
    BY <2>1 DEF BootTimesOut, Info, InfoPods, Clients
  <2>2. CASE ConfigMapGet(c)
    BY <2>2, <1>2 DEF ConfigMapGet
  <2>3. CASE ConfigMapCreate(c) \/ ConfigMapUpdate(c)
    BY <2>3, <1>1, OptionAssumption DEF ConfigMapCreate, ConfigMapUpdate, WriteConfigMap
  <2>. QED BY <1>4, <2>1, <2>2, <2>3
<1>. QED BY <1>3, <1>5, <1>6 DEF Goto, TypeOK

\* However many creators race, and whatever fails, no Deployment exists before
\* the ConfigMap its pods mount, as long as nothing has been removed.
THEOREM ConfigMapFirstHolds == Spec => []ConfigMapFirst
<1> USE DEF DeploymentExists
<1>1. Init => ConfigMapInv
  BY ProcessAssumption, ClusterAssumption
     DEF Init, ConfigMapInv, PastConfigMap, NothingRemoved, NoDeployment
<1>2. TypeOK /\ ConfigMapInv /\ [Next]_vars => ConfigMapInv'
  <2> SUFFICES ASSUME TypeOK, ConfigMapInv, [Next]_vars PROVE ConfigMapInv'
    OBVIOUS
  <2>1. ASSUME NEW c \in Creators, Create(c) PROVE ConfigMapInv'
    BY <2>1, ConfigMapStep, NothingRemovedBefore DEF Next
  <2>2. ASSUME NEW c \in Creators, Cancel(c) PROVE ConfigMapInv'
    BY <2>2 DEF Cancel, ConfigMapInv, NothingRemoved, cluster
  <2>3. ASSUME NEW r \in Removers, Remove(r) PROVE ConfigMapInv'
    <3> USE DEF cluster, ConfigMapInv
    <3>1. NothingRemoved' => NothingRemoved
      BY <2>3, NothingRemovedBefore DEF Next
    <3>2. \A d \in Creators : pc'[d] = pc[d]
      BY <2>3, ProcessAssumption DEF Remove, RmList, RmDeployment, RmConfigMap, Goto, TypeOK
    <3>3. CASE RmList(r) BY <3>1, <3>2, <3>3 DEF RmList
    <3>4. CASE RmDeployment(r) BY <3>1, <3>2, <3>4 DEF RmDeployment, NoDeployment
    <3>5. CASE RmConfigMap(r)
      <4>1. CASE UNCHANGED cm BY <3>1, <3>2, <3>5, <4>1 DEF RmConfigMap
      <4>2. CASE Goto(r, "done") \/ Goto(r, "failed")
        BY <4>2 DEF Goto, TypeOK, NothingRemoved
      <4>. QED BY <3>5, <4>1, <4>2 DEF RmConfigMap
    <3>. QED BY <2>3, <3>3, <3>4, <3>5 DEF Remove
  <2>4. CASE Cluster
    <3>1. /\ UNCHANGED <<cm, pc>>
          /\ depl'.uid = depl.uid
      BY <2>4 DEF Cluster, CreateReplicaSet, RetireReplicaSet, CreatePod, RemoveSurplusPod, MountFails,
          PodStarts, PodBecomesReady, Disrupt, SyncStatus, TouchStatus, CollectReplicaSet, CollectPod,
          cliVars, cluster, TypeOK, Deployment, NoDeployment
    <3>. QED BY <3>1 DEF ConfigMapInv, NothingRemoved
  <2>5. CASE UNCHANGED vars BY <2>5 DEF vars, ConfigMapInv, NothingRemoved
  <2>. QED BY <2>1, <2>2, <2>3, <2>4, <2>5 DEF Next
<1>3. ConfigMapInv => ConfigMapFirst BY DEF ConfigMapInv, ConfigMapFirst
<1>. QED BY <1>1, <1>2, <1>3, TypeCorrect, PTL DEF Spec

-----------------------------------------------------------------------------
(* RmCleansUp.  A ConfigMap without its Deployment has somebody who will see to  *)
(* it: a creator that is going to create the Deployment, or an rm that is going  *)
(* to delete the ConfigMap, unless a failed call has made it give up.            *)

\* The calls of Driver.wait
WaitLabels ==
    {"cmGet", "cmCreate", "cmUpdate", "get", "create", "listRS", "replica", "listPods", "pod", "update",
     "delRS", "delPod"}

\* A ConfigMap without a Deployment has somebody who will see to it: a creator that
\* goes on to the Deployment, an rm that goes on to the ConfigMap, or, once a call
\* has failed, an rm that reported it.
RemovalInv ==
    /\ budget.faults \in 0 .. MaxFaults
    /\ expired = {} /\ cm # "none" /\ ~DeploymentExists =>
          \/ \E c \in Creators : pc[c] \in WaitLabels
          \/ \E r \in Removers : pc[r] = "rmCm"
          \/ budget.faults < MaxFaults /\ \E r \in Removers : pc[r] = "failed"

LEMMA FaultsSpent ==
    ASSUME TypeOK, budget.faults \in 0 .. MaxFaults, UNCHANGED budget \/ SpendFault
    PROVE  /\ budget'.faults \in 0 .. MaxFaults /\ budget'.faults <= budget.faults
           /\ SpendFault => budget'.faults < MaxFaults
<1>1. MaxFaults \in Nat BY ClusterAssumption
<1>2. SpendFault => budget'.faults = budget.faults - 1 /\ budget.faults > 0 BY DEF SpendFault, TypeOK
<1>. QED BY <1>1, <1>2

\* A creator in Driver.wait stays there until the Deployment exists, and so does
\* one that stores the ConfigMap.
LEMMA WaitStep ==
    ASSUME TypeOK, NEW c \in Creators, Create(c)
    PROVE  /\ UNCHANGED expired /\ \A p \in Creators \cup Removers : p # c => pc'[p] = pc[p]
           /\ UNCHANGED budget \/ SpendFault
           /\ DeploymentExists => DeploymentExists'
           /\ expired = {} /\ ~DeploymentExists' /\ pc[c] \in WaitLabels => pc'[c] \in WaitLabels
           /\ cm = "none" /\ cm' # "none" => pc'[c] \in WaitLabels
<1> USE DEF cluster, podVars, CallAnswers, CallFails, AnswerLost, DeploymentExists, Goto
<1>0. pc \in [Creators \cup Removers -> CreatorLabels \cup RemoverLabels] /\ clock # 0 BY DEF TypeOK
<1>1. CASE BootTimesOut(c) \/ Info(c) \/ InfoPods(c) \/ Clients(c)
  BY <1>0, <1>1 DEF BootTimesOut, Info, InfoPods, Clients, WaitLabels
<1>2. CASE ConfigMapGet(c)
  BY <1>0, <1>2 DEF ConfigMapGet, StartCreateBuilder, WaitLabels
<1>3. CASE ConfigMapCreate(c) \/ ConfigMapUpdate(c)
  BY <1>0, <1>3 DEF ConfigMapCreate, ConfigMapUpdate, WriteConfigMap, StartCreateBuilder, WaitLabels
<1>4. CASE BuilderTimesOut(c)
  BY <1>0, <1>4 DEF BuilderTimesOut, Leave
<1>5. CASE BuilderGet(c)
  BY <1>0, <1>5 DEF BuilderGet, EndPass, LookInto, Leave, WaitLabels
<1>6. CASE BuilderCreate(c)
  BY <1>0, <1>6 DEF BuilderCreate, EndPass, LookInto, CanCreate, CreateDeployment, WaitLabels
<1>7. CASE ListReplicaSets(c) \/ NextReplicaSet(c) \/ ListPods(c)
  BY <1>0, <1>7 DEF ListReplicaSets, NextReplicaSet, ListPods, EndPass, WaitLabels
<1>8. CASE NextPod(c)
  BY <1>0, <1>8 DEF NextPod, WaitLabels
<1>9. CASE FlipUpdate(c)
  <2>1. depl' = depl \/ (DeploymentExists /\ depl'.uid = depl.uid)
    BY <1>9 DEF FlipUpdate, CanUpdate, UpdateDeployment, TypeOK, Deployment, NoDeployment
  <2>. QED BY <1>0, <1>9, <2>1 DEF FlipUpdate, WaitLabels
<1>10. CASE FlipDeleteReplicaSet(c) \/ FlipDeletePod(c)
  BY <1>0, <1>10 DEF FlipDeleteReplicaSet, FlipDeletePod, WaitLabels
<1>. QED BY <1>1, <1>2, <1>3, <1>4, <1>5, <1>6, <1>7, <1>8, <1>9, <1>10 DEF Create

LEMMA RemovalStep ==
    ASSUME TypeOK, RemovalInv, [Next]_vars
    PROVE  RemovalInv'
<1> USE DEF RemovalInv
<1>0. pc \in [Creators \cup Removers -> CreatorLabels \cup RemoverLabels] BY DEF TypeOK
<1>1. ASSUME NEW c \in Creators, Create(c) PROVE RemovalInv'
  <2>1. budget'.faults \in 0 .. MaxFaults /\ budget'.faults <= budget.faults
    BY <1>1, WaitStep, FaultsSpent
  <2>2. SUFFICES ASSUME expired' = {}, cm' # "none", ~DeploymentExists'
                 PROVE  \/ \E d \in Creators : pc'[d] \in WaitLabels
                        \/ \E r \in Removers : pc'[r] = "rmCm"
                        \/ budget'.faults < MaxFaults /\ \E r \in Removers : pc'[r] = "failed"
    BY <2>1
  <2>3. expired = {} /\ ~DeploymentExists BY <1>1, <2>2, WaitStep
  <2>4. CASE cm = "none" BY <1>1, <2>2, <2>4, WaitStep
  <2>5. CASE \E d \in Creators : pc[d] \in WaitLabels
    <3>1. PICK d \in Creators : pc[d] \in WaitLabels BY <2>5
    <3>2. pc'[d] \in WaitLabels BY <1>1, <2>2, <2>3, <3>1, WaitStep
    <3>. QED BY <3>2
  <2>6. \A r \in Removers : pc'[r] = pc[r] BY <1>1, WaitStep, ProcessAssumption
  <2>7. CASE \E r \in Removers : pc[r] = "rmCm" BY <2>6, <2>7
  <2>8. CASE budget.faults < MaxFaults /\ \E r \in Removers : pc[r] = "failed"
    BY <2>1, <2>6, <2>8, ClusterAssumption
  <2>. QED BY <2>3, <2>4, <2>5, <2>7, <2>8
<1>2. ASSUME NEW r \in Removers, Remove(r) PROVE RemovalInv'
  <2> USE DEF cluster, CallAnswers, CallFails, AnswerLost, Goto
  <2>1. UNCHANGED expired /\ (UNCHANGED budget \/ SpendFault)
    BY <1>2 DEF Remove, RmList, RmDeployment, RmConfigMap
  <2>2. /\ budget'.faults \in 0 .. MaxFaults /\ budget'.faults <= budget.faults
        /\ SpendFault => budget'.faults < MaxFaults
    BY <2>1, FaultsSpent
  <2>3. \A p \in Creators \cup Removers : p # r => pc'[p] = pc[p]
    BY <1>0, <1>2 DEF Remove, RmList, RmDeployment, RmConfigMap
  <2>4. \A c \in Creators : pc'[c] = pc[c] BY <2>3, ProcessAssumption
  <2>5. SUFFICES ASSUME expired = {}, cm' # "none", ~DeploymentExists'
                 PROVE  \/ \E d \in Creators : pc'[d] \in WaitLabels
                        \/ \E q \in Removers : pc'[q] = "rmCm"
                        \/ budget'.faults < MaxFaults /\ \E q \in Removers : pc'[q] = "failed"
    BY <2>1, <2>2
  <2>6. cm # "none" BY <1>2, <2>5 DEF Remove, RmList, RmDeployment, RmConfigMap
  <2>7. CASE DeploymentExists
    <3>1. pc'[r] = "rmCm" \/ (pc'[r] = "failed" /\ SpendFault)
      BY <1>0, <1>2, <2>5, <2>7 DEF Remove, RmList, RmDeployment, RmConfigMap, DeploymentExists
    <3>. QED BY <2>2, <3>1
  <2>8. CASE ~DeploymentExists
    <3>1. pc[r] \notin {"failed"} BY <1>2 DEF Remove, RmList, RmDeployment, RmConfigMap
    <3>2. pc[r] = "rmCm" => pc'[r] = "failed" /\ SpendFault
      BY <1>0, <1>2, <2>5, <2>6 DEF Remove, RmList, RmDeployment, RmConfigMap
    <3>3. CASE \E c \in Creators : pc[c] \in WaitLabels BY <2>4, <3>3
    <3>4. CASE \E q \in Removers : pc[q] = "rmCm"
      <4>1. PICK q \in Removers : pc[q] = "rmCm" BY <3>4
      <4>. QED BY <2>2, <2>3, <3>2, <4>1
    <3>5. CASE budget.faults < MaxFaults /\ \E q \in Removers : pc[q] = "failed"
      <4>1. PICK q \in Removers : pc[q] = "failed" BY <3>5
      <4>2. pc'[q] = "failed" BY <2>3, <3>1, <4>1
      <4>. QED BY <2>2, <3>5, <4>2, ClusterAssumption
    <3>. QED BY <2>5, <2>6, <2>8, <3>3, <3>4, <3>5
  <2>. QED BY <2>7, <2>8
<1>3. ASSUME NEW c \in Creators, Cancel(c) PROVE RemovalInv'
  <2>1. expired' # {} /\ UNCHANGED budget BY <1>3 DEF Cancel
  <2>. QED BY <2>1
<1>4. CASE Cluster
  <2>1. UNCHANGED <<cm, pc, expired>> /\ depl'.uid = depl.uid /\ budget'.faults = budget.faults
    BY <1>4 DEF Cluster, CreateReplicaSet, RetireReplicaSet, CreatePod, RemoveSurplusPod, MountFails,
        PodStarts, PodBecomesReady, Disrupt, SyncStatus, TouchStatus, CollectReplicaSet, CollectPod,
        cliVars, cluster, TypeOK, Deployment, NoDeployment
  <2>. QED BY <2>1 DEF DeploymentExists
<1>5. CASE UNCHANGED vars BY <1>5 DEF vars, DeploymentExists
<1>. QED BY <1>1, <1>2, <1>3, <1>4, <1>5 DEF Next

\* However many creators and rms there are and in whatever order their calls are
\* answered, they leave no ConfigMap without its Deployment, unless a creator was
\* cancelled or a failed call has made an rm fail.
THEOREM RmCleansUpHolds == Spec => []RmCleansUp
<1>1. Init => RemovalInv
  BY ProcessAssumption, ClusterAssumption DEF Init, RemovalInv, DeploymentExists
<1>2. ASSUME TypeOK, RemovalInv PROVE RmCleansUp
  <2>1. SUFFICES ASSUME \A p \in Creators \cup Removers : pc[p] \in Final, expired = {},
                        budget.faults = MaxFaults \/ \A r \in Removers : pc[r] = "done",
                        cm # "none", ~DeploymentExists
                 PROVE  FALSE
    BY DEF RmCleansUp
  <2>2. \A c \in Creators : pc[c] \notin WaitLabels BY <2>1 DEF Final, WaitLabels
  <2>3. \A r \in Removers : pc[r] # "rmCm" BY <2>1 DEF Final
  <2>4. budget.faults < MaxFaults /\ \E r \in Removers : pc[r] = "failed"
    BY <1>2, <2>1, <2>2, <2>3 DEF RemovalInv
  <2>. QED BY <2>1, <2>4, ClusterAssumption
<1>3. TypeOK /\ RemovalInv => RmCleansUp BY <1>2
<1>. QED BY <1>1, <1>3, RemovalStep, TypeCorrect, PTL DEF Spec

-----------------------------------------------------------------------------
(* BootSawReady.  createBuilder hands over to Clients without a ready count   *)
(* only when the context has expired, and then no call of Clients succeeds.   *)

SawInv ==
    \A c \in Creators :
        /\ pc[c] \in {"infoPods", "booted"} => c \in sawReady
        /\ pc[c] = "clients" => c \in sawReady \cup expired

\* What one creator's step does to the labels and to sawReady.
LEMMA SawStep ==
    ASSUME TypeOK, SawInv, NEW c \in Creators, Create(c)
    PROVE  SawInv'
<1> USE DEF cluster, podVars
<1>1. expired' = expired /\ sawReady \subseteq sawReady'
  BY DEF Create, BootTimesOut, Info, InfoPods, Clients, ConfigMapGet, ConfigMapCreate, ConfigMapUpdate,
      WriteConfigMap, BuilderTimesOut, BuilderGet, BuilderCreate, ListReplicaSets, NextReplicaSet,
      ListPods, NextPod, FlipUpdate, FlipDeleteReplicaSet, FlipDeletePod
<1>2. \A d \in Creators : d # c => pc'[d] = pc[d]
  BY DEF Create, BootTimesOut, Info, InfoPods, Clients, ConfigMapGet, ConfigMapCreate, ConfigMapUpdate,
      WriteConfigMap, BuilderTimesOut, BuilderGet, BuilderCreate, ListReplicaSets, NextReplicaSet,
      ListPods, NextPod, FlipUpdate, FlipDeleteReplicaSet, FlipDeletePod, StartCreateBuilder,
      EndPass, LookInto, Leave, Goto, TypeOK
<1>3. /\ pc'[c] \in {"infoPods", "booted"} => c \in sawReady'
      /\ pc'[c] = "clients" => c \in sawReady' \cup expired'
  <2>1. CASE BootTimesOut(c) BY <2>1 DEF BootTimesOut, Goto, TypeOK
  <2>2. CASE Info(c) BY <2>2 DEF Info, Goto, TypeOK
  <2>3. CASE InfoPods(c) BY <2>3 DEF InfoPods, Goto, TypeOK, SawInv
  <2>4. CASE Clients(c) BY <2>4 DEF Clients, CallAnswers, Goto, TypeOK, SawInv
  <2>5. CASE ConfigMapGet(c) BY <2>5 DEF ConfigMapGet, StartCreateBuilder, Goto, TypeOK
  <2>6. CASE ConfigMapCreate(c) \/ ConfigMapUpdate(c)
    BY <2>6 DEF ConfigMapCreate, ConfigMapUpdate, WriteConfigMap, StartCreateBuilder, Goto, TypeOK
  <2>7. CASE BuilderTimesOut(c) BY <2>7, <1>1 DEF BuilderTimesOut, Leave, Goto, TypeOK
  <2>8. CASE BuilderGet(c) BY <2>8 DEF BuilderGet, EndPass, Leave, LookInto, Goto, TypeOK
  <2>9. CASE BuilderCreate(c) BY <2>9 DEF BuilderCreate, EndPass, LookInto, Goto, TypeOK
  <2>10. CASE ListReplicaSets(c) \/ NextReplicaSet(c) \/ ListPods(c)
    BY <2>10 DEF ListReplicaSets, NextReplicaSet, ListPods, EndPass, Goto, TypeOK
  <2>11. CASE NextPod(c) BY <2>11 DEF NextPod, Goto, TypeOK
  <2>12. CASE FlipUpdate(c) \/ FlipDeleteReplicaSet(c) \/ FlipDeletePod(c)
    BY <2>12 DEF FlipUpdate, FlipDeleteReplicaSet, FlipDeletePod, Goto, TypeOK
  <2>. QED BY <2>1, <2>2, <2>3, <2>4, <2>5, <2>6, <2>7, <2>8, <2>9, <2>10, <2>11, <2>12 DEF Create
<1>. QED BY <1>1, <1>2, <1>3 DEF SawInv

LEMMA SawInvHolds == Spec => []SawInv
<1>1. Init => SawInv BY ProcessAssumption DEF Init, SawInv
<1>2. TypeOK /\ SawInv /\ [Next]_vars => SawInv'
  <2> SUFFICES ASSUME TypeOK, SawInv, [Next]_vars PROVE SawInv'
    OBVIOUS
  <2>1. ASSUME NEW c \in Creators, Create(c) PROVE SawInv' BY <2>1, SawStep
  <2>2. ASSUME NEW c \in Creators, Cancel(c) PROVE SawInv' BY <2>2 DEF Cancel, SawInv
  <2>3. ASSUME NEW r \in Removers, Remove(r) PROVE SawInv'
    <3>1. \A d \in Creators : pc'[d] = pc[d]
      BY <2>3, ProcessAssumption DEF Remove, RmList, RmDeployment, RmConfigMap, Goto, TypeOK
    <3>2. UNCHANGED <<expired, sawReady>>
      BY <2>3 DEF Remove, RmList, RmDeployment, RmConfigMap
    <3>. QED BY <3>1, <3>2 DEF SawInv
  <2>4. CASE Cluster
    BY <2>4 DEF Cluster, CreateReplicaSet, RetireReplicaSet, CreatePod, RemoveSurplusPod, MountFails,
        PodStarts, PodBecomesReady, Disrupt, SyncStatus, TouchStatus, CollectReplicaSet, CollectPod,
        cliVars, SawInv
  <2>5. CASE UNCHANGED vars BY <2>5 DEF vars, SawInv
  <2>. QED BY <2>1, <2>2, <2>3, <2>4, <2>5 DEF Next
<1>. QED BY <1>1, <1>2, TypeCorrect, PTL DEF Spec

\* A boot that succeeded has seen the builder ready, although createBuilder
\* may return nil without it.
THEOREM BootSawReadyHolds == Spec => []BootSawReady
<1>1. SawInv => BootSawReady BY DEF SawInv, BootSawReady
<1>. QED BY <1>1, SawInvHolds, PTL

-----------------------------------------------------------------------------
(* The refinement.  A creator updates the Deployment only after it flipped,  *)
(* so the update can only settle the runtime on containerd.                  *)

FlipInv == \A c \in Creators : pc[c] = "update" => c \in flipped

LEMMA FlipInvHolds == Spec => []FlipInv
<1>1. Init => FlipInv BY ProcessAssumption DEF Init, FlipInv
<1>2. TypeOK /\ FlipInv /\ [Next]_vars => FlipInv'
  <2> SUFFICES ASSUME TypeOK, FlipInv, [Next]_vars PROVE FlipInv'
    OBVIOUS
  <2>1. ASSUME NEW c \in Creators, Create(c) PROVE FlipInv'
    <3>1. CASE NextPod(c) BY <3>1 DEF NextPod, Goto, TypeOK, FlipInv
    <3>2. CASE ~NextPod(c)
      <4>1. flipped' = flipped
        BY <2>1, <3>2 DEF Create, BootTimesOut, Info, InfoPods, Clients, ConfigMapGet, ConfigMapCreate,
            ConfigMapUpdate, WriteConfigMap, BuilderTimesOut, BuilderGet, BuilderCreate,
            ListReplicaSets, NextReplicaSet, ListPods, FlipUpdate, FlipDeleteReplicaSet, FlipDeletePod
      <4>2. (\E l : l # "update" /\ Goto(c, l)) \/ UNCHANGED pc
        BY <2>1, <3>2 DEF Create, BootTimesOut, Info, InfoPods, Clients, ConfigMapGet, ConfigMapCreate,
            ConfigMapUpdate, WriteConfigMap, BuilderTimesOut, BuilderGet, BuilderCreate, StartCreateBuilder,
            ListReplicaSets, NextReplicaSet, ListPods, FlipUpdate, FlipDeleteReplicaSet, FlipDeletePod,
            EndPass, LookInto, Leave
      <4>. QED BY <4>1, <4>2 DEF Goto, TypeOK, FlipInv
    <3>. QED BY <3>1, <3>2
  <2>2. ASSUME NEW c \in Creators, Cancel(c) PROVE FlipInv' BY <2>2 DEF Cancel, FlipInv
  <2>3. ASSUME NEW r \in Removers, Remove(r) PROVE FlipInv'
    <3>1. \A d \in Creators : pc'[d] = pc[d]
      BY <2>3, ProcessAssumption DEF Remove, RmList, RmDeployment, RmConfigMap, Goto, TypeOK
    <3>2. UNCHANGED flipped BY <2>3 DEF Remove, RmList, RmDeployment, RmConfigMap
    <3>. QED BY <3>1, <3>2 DEF FlipInv
  <2>4. CASE Cluster
    BY <2>4 DEF Cluster, CreateReplicaSet, RetireReplicaSet, CreatePod, RemoveSurplusPod, MountFails,
        PodStarts, PodBecomesReady, Disrupt, SyncStatus, TouchStatus, CollectReplicaSet, CollectPod,
        cliVars, FlipInv
  <2>5. CASE UNCHANGED vars BY <2>5 DEF vars, FlipInv
  <2>. QED BY <2>1, <2>2, <2>3, <2>4, <2>5 DEF Next
<1>. QED BY <1>1, <1>2, TypeCorrect, PTL DEF Spec

\* A step that changes neither the runtime nor what creators saw or answered.
LEMMA ServiceStutter ==
    ASSUME depl'.runtime = depl.runtime, sawReady' = sawReady,
           \A d \in Creators : pc'[d] = pc[d] \/ {pc[d], pc'[d]} \cap {"booted", "failed"} = {}
    PROVE  UNCHANGED Service!vars
BY DEF Service!vars

\* Goto between two labels that answer nothing.
LEMMA NoAnswer ==
    ASSUME TypeOK, NEW c \in Creators, NEW l, Goto(c, l),
           l \notin {"booted", "failed"}, pc[c] \notin {"booted", "failed"}
    PROVE  \A d \in Creators : pc'[d] = pc[d] \/ {pc[d], pc'[d]} \cap {"booted", "failed"} = {}
BY DEF Goto, TypeOK

\* Driver.Boot and Driver.Info: Fail, See and Succeed.
LEMMA BootRefines ==
    ASSUME TypeOK, SawInv, NEW c \in Creators, 
           BootTimesOut(c) \/ Info(c) \/ InfoPods(c) \/ Clients(c)
    PROVE  [Service!Next]_(Service!vars)
<1> USE DEF cluster, podVars
<1>1. depl' = depl BY DEF BootTimesOut, Info, InfoPods, Clients
<1>2. ASSUME Goto(c, "failed"), UNCHANGED sawReady, pc[c] \in {"info", "infoPods"}
      PROVE  Service!Fail(c)
  BY <1>1, <1>2 DEF Service!Fail, Goto, TypeOK
<1>3. CASE BootTimesOut(c) BY <1>2, <1>3 DEF BootTimesOut, Service!Next
<1>4. CASE Info(c)
  <2>1. CASE Goto(c, "cmGet") /\ UNCHANGED sawReady
    BY <1>1, <1>4, <2>1, NoAnswer, ServiceStutter DEF Info
  <2>2. CASE depl.ready > 0 /\ Goto(c, "infoPods") /\ sawReady' = sawReady \cup {c}
    <3>1. depl.runtime # "none" BY <2>2 DEF TypeOK, Deployment, NoDeployment, Runtimes
    <3>2. \A d \in Creators : pc'[d] = pc[d] \/ {pc[d], pc'[d]} \cap {"booted", "failed"} = {}
      BY <1>4, <2>2, NoAnswer DEF Info
    <3>3. Service!See(c) BY <1>1, <1>4, <2>2, <3>1, <3>2 DEF Info, Service!See
    <3>. QED BY <3>3 DEF Service!Next
  <2>. QED BY <1>4, <2>1, <2>2 DEF Info
<1>5. CASE InfoPods(c)
  <2>1. CASE Goto(c, "failed") BY <1>2, <1>5, <2>1 DEF InfoPods, Service!Next
  <2>2. CASE Goto(c, "clients") BY <1>1, <1>5, <2>2, NoAnswer, ServiceStutter DEF InfoPods
  <2>. QED BY <1>5, <2>1, <2>2 DEF InfoPods
<1>6. CASE Clients(c)
  <2>1. CASE Goto(c, "info") BY <1>1, <1>6, <2>1, NoAnswer, ServiceStutter DEF Clients
  <2>2. CASE CallAnswers(c) /\ Goto(c, "booted")
    <3>1. c \in sawReady BY <1>6, <2>2 DEF SawInv, Clients, CallAnswers
    <3>2. Service!Succeed(c)
      BY <1>1, <1>6, <2>2, <3>1 DEF Service!Succeed, Clients, Goto, TypeOK
    <3>. QED BY <3>2 DEF Service!Next
  <2>. QED BY <1>6, <2>1, <2>2 DEF Clients
<1>. QED BY <1>3, <1>4, <1>5, <1>6

\* createBuilder's calls: Deploy, Switch and See.
LEMMA CreateBuilderRefines ==
    ASSUME TypeOK, FlipInv, NEW c \in Creators, BuilderGet(c) \/ BuilderCreate(c) \/ FlipUpdate(c)
    PROVE  [Service!Next]_(Service!vars)
<1> USE DEF cluster, podVars
<1>1. \A d \in Creators : pc'[d] = pc[d] \/ {pc[d], pc'[d]} \cap {"booted", "failed"} = {}
  <2>1. /\ pc[c] \in {"get", "create", "update"}
        /\ \E l \in {"get", "create", "clients", "listRS", "delRS", "pod"} : Goto(c, l)
    BY DEF BuilderGet, BuilderCreate, FlipUpdate, EndPass, LookInto, Leave
  <2>. QED BY <2>1, NoAnswer
<1>2. CASE BuilderGet(c)
  <2>1. depl' = depl BY <1>2 DEF BuilderGet
  <2>2. CASE UNCHANGED sawReady BY <1>1, <2>1, <2>2, ServiceStutter
  <2>3. CASE DeploymentExists /\ sawReady' = sawReady \cup {c}
    <3>1. depl.runtime # "none"
      BY <2>3 DEF DeploymentExists, TypeOK, Deployment, NoDeployment, Runtimes
    <3>2. Service!See(c) BY <1>1, <1>2, <2>1, <2>3, <3>1 DEF BuilderGet, Service!See
    <3>. QED BY <3>2 DEF Service!Next
  <2>. QED BY <1>2, <2>2, <2>3 DEF BuilderGet
<1>3. CASE BuilderCreate(c)
  <2>1. UNCHANGED sawReady BY <1>3 DEF BuilderCreate
  <2>2. CASE UNCHANGED depl BY <1>1, <2>1, <2>2, ServiceStutter
  <2>3. CASE CanCreate(c) /\ CreateDeployment(c)
    <3>1. depl.runtime = "none"
      BY <2>3 DEF CanCreate, DeploymentExists, TypeOK, Deployment, NoDeployment
    <3>2. depl'.runtime \in {"docker", "containerd"}
      BY <2>3, OptionAssumption DEF CreateDeployment, Want, Runtimes
    <3>3. Service!Deploy BY <1>1, <2>1, <3>1, <3>2 DEF Service!Deploy
    <3>. QED BY <3>3 DEF Service!Next
  <2>. QED BY <1>3, <2>2, <2>3 DEF BuilderCreate
<1>4. CASE FlipUpdate(c)
  <2>1. UNCHANGED sawReady BY <1>4 DEF FlipUpdate
  <2>2. CASE UNCHANGED depl BY <1>1, <2>1, <2>2, ServiceStutter
  <2>3. CASE CanUpdate(c) /\ UpdateDeployment(c)
    <3>1. depl.runtime \in {"docker", "containerd"}
      BY <2>3 DEF CanUpdate, DeploymentExists, TypeOK, Deployment, NoDeployment, Runtimes
    <3>2. depl'.runtime = "containerd"
      <4>1. c \in flipped BY <1>4 DEF FlipInv, FlipUpdate
      <4>2. depl' = [depl EXCEPT !.runtime = Want(c), !.replicas = Replicas[c]]
        BY <2>3 DEF UpdateDeployment
      <4>3. depl \in [uid : Nat, runtime : Runtimes \cup {"none"}, replicas : Nat, ready : Nat]
        BY DEF TypeOK, Deployment, NoDeployment
      <4>. QED BY <4>1, <4>2, <4>3 DEF Want
    <3>3. CASE depl.runtime = "containerd" BY <1>1, <2>1, <3>2, <3>3, ServiceStutter
    <3>4. CASE depl.runtime = "docker"
      <4>1. Service!Switch BY <1>1, <2>1, <3>2, <3>4 DEF Service!Switch
      <4>. QED BY <4>1 DEF Service!Next
    <3>. QED BY <3>1, <3>3, <3>4
  <2>. QED BY <1>4, <2>2, <2>3 DEF FlipUpdate
<1>. QED BY <1>2, <1>3, <1>4

\* Every other call of a creator is invisible to its user.
LEMMA InvisibleSteps ==
    ASSUME TypeOK, NEW c \in Creators,
           \/ ConfigMapGet(c) \/ ConfigMapCreate(c) \/ ConfigMapUpdate(c) \/ BuilderTimesOut(c)
           \/ ListReplicaSets(c) \/ NextReplicaSet(c) \/ ListPods(c) \/ NextPod(c)
           \/ FlipDeleteReplicaSet(c) \/ FlipDeletePod(c)
    PROVE  UNCHANGED Service!vars
<1>1. UNCHANGED <<depl, sawReady>>
  BY DEF cluster, podVars, ConfigMapGet, ConfigMapCreate, ConfigMapUpdate, WriteConfigMap, BuilderTimesOut,
      ListReplicaSets, NextReplicaSet, ListPods, NextPod, FlipDeleteReplicaSet, FlipDeletePod
<1>2. pc[c] \notin {"booted", "failed"}
  BY DEF ConfigMapGet, ConfigMapCreate, ConfigMapUpdate, WriteConfigMap, BuilderTimesOut,
      ListReplicaSets, NextReplicaSet, ListPods, NextPod, FlipDeleteReplicaSet, FlipDeletePod
<1>3. (\E l : l \notin {"booted", "failed"} /\ Goto(c, l)) \/ UNCHANGED pc
  BY DEF ConfigMapGet, ConfigMapCreate, ConfigMapUpdate, WriteConfigMap, BuilderTimesOut,
      ListReplicaSets, NextReplicaSet, ListPods, NextPod, FlipDeleteReplicaSet, FlipDeletePod,
      StartCreateBuilder, EndPass, Leave
<1>. QED BY <1>1, <1>2, <1>3, NoAnswer, ServiceStutter

\* Removers take the builder away; the cluster never changes its runtime.
LEMMA EnvironmentRefines ==
    ASSUME TypeOK,
           \/ \E r \in Removers : Remove(r)
           \/ \E c \in Creators : Cancel(c)
           \/ Cluster
    PROVE  [Service!Next]_(Service!vars)
<1>1. UNCHANGED sawReady /\ \A d \in Creators : pc'[d] = pc[d]
  <2>1. ASSUME NEW r \in Removers, Remove(r) PROVE UNCHANGED sawReady /\ \A d \in Creators : pc'[d] = pc[d]
    BY <2>1, ProcessAssumption DEF Remove, RmList, RmDeployment, RmConfigMap, Goto, TypeOK
  <2>2. CASE \E c \in Creators : Cancel(c) BY <2>2 DEF Cancel
  <2>3. CASE Cluster
    BY <2>3 DEF Cluster, CreateReplicaSet, RetireReplicaSet, CreatePod, RemoveSurplusPod, MountFails,
        PodStarts, PodBecomesReady, Disrupt, SyncStatus, TouchStatus, CollectReplicaSet, CollectPod, cliVars
  <2>. QED BY <2>1, <2>2, <2>3
<1>2. depl'.runtime = depl.runtime \/ depl' = NoDeployment
  <2>1. ASSUME NEW r \in Removers, Remove(r) PROVE depl'.runtime = depl.runtime \/ depl' = NoDeployment
    BY <2>1 DEF Remove, RmList, RmDeployment, RmConfigMap, cluster
  <2>2. CASE \E c \in Creators : Cancel(c) BY <2>2 DEF Cancel, cluster
  <2>3. CASE Cluster
    <3>1. UNCHANGED depl \/ SyncStatus
      BY <2>3 DEF Cluster, CreateReplicaSet, RetireReplicaSet, CreatePod, RemoveSurplusPod, MountFails,
          PodStarts, PodBecomesReady, Disrupt, TouchStatus, CollectReplicaSet, CollectPod, cluster
    <3>2. SyncStatus => depl'.runtime = depl.runtime
      BY DEF SyncStatus, TypeOK, Deployment, NoDeployment
    <3>. QED BY <3>1, <3>2
  <2>. QED BY <2>1, <2>2, <2>3
<1>3. CASE depl'.runtime = depl.runtime BY <1>1, <1>3, ServiceStutter
<1>4. CASE depl' = NoDeployment
  <2>1. Service!Remove BY <1>1, <1>4 DEF Service!Remove, NoDeployment
  <2>. QED BY <2>1 DEF Service!Next
<1>. QED BY <1>2, <1>3, <1>4

\* The processes implement the abstract builder service, whatever the number
\* of creators and removers, their options, and the calls that fail.
THEOREM BootImplementsService == Spec => ImplementsService
<1>1. Init => Service!Init
  BY ProcessAssumption, ClusterAssumption DEF Init, Service!Init, NoDeployment, Runtimes
<1>2. TypeOK /\ SawInv /\ FlipInv /\ [Next]_vars => [Service!Next]_(Service!vars)
  <2> SUFFICES ASSUME TypeOK, SawInv, FlipInv, [Next]_vars PROVE [Service!Next]_(Service!vars)
    OBVIOUS
  <2>1. ASSUME NEW c \in Creators, Create(c) PROVE [Service!Next]_(Service!vars)
    BY <2>1, BootRefines, CreateBuilderRefines, InvisibleSteps DEF Create
  <2>2. ASSUME NEW c \in Creators, Cancel(c) PROVE [Service!Next]_(Service!vars)
    BY <2>2, EnvironmentRefines
  <2>3. ASSUME NEW r \in Removers, Remove(r) PROVE [Service!Next]_(Service!vars)
    BY <2>3, EnvironmentRefines
  <2>4. CASE Cluster BY <2>4, EnvironmentRefines
  <2>5. CASE UNCHANGED vars BY <2>5 DEF vars, Service!vars
  <2>. QED BY <2>1, <2>2, <2>3, <2>4, <2>5 DEF Next
<1>. QED BY <1>1, <1>2, TypeCorrect, SawInvHolds, FlipInvHolds, PTL DEF Spec, ImplementsService, Service!Spec
=============================================================================
