------------------------- MODULE MCSandboxLifecycle -------------------------
(***************************************************************************)
(* Model-checking instance of two views of the shim's sandbox map: the     *)
(* records with their files, and the map's locks.  A behaviour is one of a *)
(* single view, chosen at the start; the other stays in its initial state. *)
(***************************************************************************)
EXTENDS SandboxLifecycle, ShardGuards

VARIABLE part

allVars == <<part, vars, guardVars>>

MCInit ==
  /\ part \in {"records", "locks"}
  /\ Init /\ GuardInit
  /\ part = "records" => shard = [t \in GuardTasks |-> CHOOSE k \in Shards : TRUE]

MCNext ==
  /\ UNCHANGED part
  /\ \/ part = "records" /\ Next /\ UNCHANGED guardVars
     \/ part = "locks" /\ GuardNext /\ UNCHANGED vars

MCSpec ==
  MCInit /\ [][MCNext]_allVars /\ WF_vars(Next /\ Sweep) /\ GuardFairness
=============================================================================
