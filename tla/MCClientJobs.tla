---------------------------- MODULE MCClientJobs ----------------------------
(* Small instances of ClientJobs. *)
EXTENDS ClientJobs

CONSTANTS c1, c2, m1, m2, d1, d2

(* One job of tenant 1, whose connector c1 is configured in two daemons. *)
OneTenant == {1}
OneJobTenant == [j \in Jobs |-> 1]
OneConnTenant == [c \in Connectors |-> 1]
AllCapable == [j \in Jobs |-> Connectors]
SharedCid == [m \in Daemons |-> c1]

(* Two tenants, each with one job, one connector and one daemon. *)
TwoTenants == {1, 2}
OwnJobTenant == [j \in Jobs |-> j]
OwnConnTenant == [c \in Connectors |-> IF c = c1 THEN 1 ELSE 2]
OwnCid == [m \in Daemons |-> IF m = m1 THEN c1 ELSE c2]
=============================================================================
