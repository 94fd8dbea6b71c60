---------------------------- MODULE MCController ----------------------------
(***************************************************************************)
(* Model-checking instance of three parts that share no state: the         *)
(* controller's session routes, its start of replicas, and the daemon's    *)
(* edit and write tools.  A behaviour is one of a single part, the part    *)
(* being chosen at the start; the others stay in their initial state.  The *)
(* fourth choice gives the edit functions one input each.                  *)
(***************************************************************************)
EXTENDS ToolsForward, ReplicaStart, FileTools, TLC

VARIABLE part

allVars == <<part, vars, replicaVars, fileVars>>

\* No text, for the parts that have no use for one.
NoText == [src |-> <<>>, old1 |-> <<>>, old2 |-> <<>>]

MCInit ==
  /\ part \in {"routes", "replica", "files", "edits"}
  /\ text \in IF part = "edits" THEN Inputs ELSE {NoText}
  /\ Init /\ ReplicaInit /\ FileInit

MCNext ==
  /\ UNCHANGED part
  /\ \/ part = "routes" /\ Next /\ UNCHANGED <<replicaVars, fileVars>>
     \/ part = "replica" /\ ReplicaNext /\ UNCHANGED <<vars, fileVars>>
     \/ part = "files" /\ FileNext /\ UNCHANGED <<vars, replicaVars>>

MCSpec == MCInit /\ [][MCNext]_allVars /\ Fairness /\ ReplicaFairness
=============================================================================
