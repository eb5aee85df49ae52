-------------------------- MODULE MCBuilderBootstrap --------------------------
(* Values of the constants of BuilderBootstrap for TLC. *)
EXTENDS BuilderBootstrap, TLC

CONSTANTS c1, c2, r1, r2

AllAuto == [c \in Creators |-> "auto"]

\* A build with --runtime auto next to a create --runtime docker --replicas 2
AutoAndDocker == [c \in Creators |-> IF c = c1 THEN "auto" ELSE "docker"]
OneAndTwo == [c \in Creators |-> IF c = c1 THEN 1 ELSE 2]
OneReplica == [c \in Creators |-> 1]
AllDefault == [c \in Creators |-> "default"]
\* A "create --config" next to a build, which has no configuration of its own
CustomAndDefault == [c \in Creators |-> IF c = c1 THEN "custom" ELSE "default"]
\* Creators with equal options are interchangeable.
CreatorSymmetry == Permutations(Creators)
=============================================================================
