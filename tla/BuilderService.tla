---------------------------- MODULE BuilderService ----------------------------
(***************************************************************************)
(* What booting promises its users, without any Kubernetes object: there   *)
(* is at most one builder; its container runtime is settled by at most one *)
(* move from docker to containerd; a boot succeeds only after it has seen  *)
(* the builder ready, and is answered once.                                *)
(***************************************************************************)
CONSTANT Creators

VARIABLES
    runtime,  \* the builder's runtime, "none" when there is no builder
    seen,     \* creators that have seen the builder ready
    answer    \* what each creator reported to its user

vars == <<runtime, seen, answer>>

Init ==
    /\ runtime \in {"none", "docker", "containerd"}
    /\ seen = {}
    /\ answer = [c \in Creators |-> "pending"]

Deploy == runtime = "none" /\ runtime' \in {"docker", "containerd"} /\ UNCHANGED <<seen, answer>>

Switch == runtime = "docker" /\ runtime' = "containerd" /\ UNCHANGED <<seen, answer>>

Remove == runtime' = "none" /\ UNCHANGED <<seen, answer>>

See(c) == runtime # "none" /\ answer[c] = "pending" /\ seen' = seen \cup {c} /\ UNCHANGED <<runtime, answer>>

Succeed(c) ==
    /\ answer[c] = "pending" /\ c \in seen
    /\ answer' = [answer EXCEPT ![c] = "booted"]
    /\ UNCHANGED <<runtime, seen>>

Fail(c) ==
    /\ answer[c] = "pending"
    /\ answer' = [answer EXCEPT ![c] = "failed"]
    /\ UNCHANGED <<runtime, seen>>

Next == Deploy \/ Switch \/ Remove \/ \E c \in Creators : See(c) \/ Succeed(c) \/ Fail(c)

Spec == Init /\ [][Next]_vars
=============================================================================
