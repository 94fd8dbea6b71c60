---------------------------- MODULE ReplicaStart ----------------------------
(***************************************************************************)
(* How the controller starts one replica of a template, and what a restart *)
(* of the controller does (api-rust/src/main.rs, start_tools_container,    *)
(* run_template_warmup, ensure_tools_network, cleanup_old_hot_containers). *)
(* PagedRegistry has this as the single step Start, which either yields a  *)
(* running container or leaves nothing behind; here it is taken apart into *)
(* its Docker and HTTP calls, each of which may fail.                      *)
(***************************************************************************)
EXTENDS Naturals, FiniteSets

CONSTANTS
  Starts,      \* handlers inside start_tools_container
  Boxes,       \* container ids Docker hands out, each once
  Commands,    \* number of warmup commands of the template
  Restarts,    \* bound of the model: restarts of the controller
  NoBox

ASSUME ReplicaAssumption ==
  /\ Commands \in Nat
  /\ Restarts \in Nat
  /\ NoBox \notin Boxes

VARIABLES
  network,  \* does the tools network exist in Docker?
  box,      \* state of each container in Docker
  healthy,  \* containers whose daemon answers /health
  warmed,   \* number of warmup commands that succeeded in each container
  phase,    \* where each start is
  held,     \* the container it created
  handed,   \* containers given to the registry
  strays,   \* history: containers a start left behind in a known way
  restarts

replicaVars == <<network, box, healthy, warmed, phase, held, handed, strays, restarts>>
engine == <<network, box, healthy>>

ReplicaInit ==
  /\ network = FALSE
  /\ box = [c \in Boxes |-> "absent"]
  /\ healthy = {}
  /\ warmed = [c \in Boxes |-> 0]
  /\ phase = [p \in Starts |-> "idle"]
  /\ held = [p \in Starts |-> NoBox]
  /\ handed = {}
  /\ strays = {}
  /\ restarts = 0

----------------------------------------------------------------------------
On(p, label) == phase' = [phase EXCEPT ![p] = label]

Leave(p) ==
  /\ On(p, "idle")
  /\ held' = [held EXCEPT ![p] = NoBox]

\* Image and template.toml are looked at first; without them nothing starts.
StartReplica(p) ==
  /\ phase[p] = "idle"
  /\ \E c \in Boxes : box[c] = "absent"
  /\ On(p, "network")
  /\ UNCHANGED <<engine, warmed, held, handed, strays, restarts>>

\* ensure_tools_network: inspect, and create when Docker says 404.
InspectNetwork(p) ==
  /\ phase[p] = "network"
  /\ On(p, IF network THEN "create" ELSE "makeNetwork")
  /\ UNCHANGED <<engine, warmed, held, handed, strays, restarts>>

\* 409, somebody else was faster, is as good as created.
CreateNetwork(p) ==
  /\ phase[p] = "makeNetwork"
  /\ network' = TRUE
  /\ On(p, "create")
  /\ UNCHANGED <<box, healthy, warmed, held, handed, strays, restarts>>

CreateContainer(p) ==
  /\ phase[p] = "create"
  /\ \E c \in Boxes :
       /\ box[c] = "absent"
       /\ box' = [box EXCEPT ![c] = "created"]
       /\ held' = [held EXCEPT ![p] = c]
  /\ On(p, "start")
  /\ UNCHANGED <<network, healthy, warmed, handed, strays, restarts>>

StartContainer(p) ==
  /\ phase[p] = "start"
  /\ box' = [box EXCEPT ![held[p]] = "running"]
  /\ On(p, "inspect")
  /\ UNCHANGED <<network, healthy, warmed, held, handed, strays, restarts>>

\* The container's address on the network is read.
InspectContainer(p) ==
  /\ phase[p] = "inspect"
  /\ On(p, "probe")
  /\ UNCHANGED <<engine, warmed, held, handed, strays, restarts>>

\* The daemon inside comes up, or never does.
DaemonUp(c) ==
  /\ box[c] = "running"
  /\ c \notin healthy
  /\ healthy' = healthy \union {c}
  /\ UNCHANGED <<network, box, warmed, phase, held, handed, strays, restarts>>

\* The first answer to /health is taken, whatever its status.
Probe_AnyAnswer(p) ==
  /\ phase[p] = "probe"
  /\ On(p, IF Commands = 0 THEN "hand" ELSE "warmup")
  /\ UNCHANGED <<engine, warmed, held, handed, strays, restarts>>

\* /health every 200 ms, for 30 s.
Probe(p) ==
  /\ phase[p] = "probe"
  /\ held[p] \in healthy
  /\ On(p, IF Commands = 0 THEN "hand" ELSE "warmup")
  /\ UNCHANGED <<engine, warmed, held, handed, strays, restarts>>

\* run_template_warmup: a session, the commands one by one, the session's
\* DELETE in every case, its failure logged; the first command that fails
\* decides.
WarmupSession(p) ==
  /\ phase[p] = "warmup"
  /\ On(p, "command")
  /\ UNCHANGED <<engine, warmed, held, handed, strays, restarts>>

WarmupCommand(p) ==
  /\ phase[p] = "command"
  /\ warmed[held[p]] < Commands
  /\ \/ warmed' = [warmed EXCEPT ![held[p]] = @ + 1] /\ UNCHANGED phase
     \/ On(p, "warmFailed") /\ UNCHANGED warmed
  /\ UNCHANGED <<engine, held, handed, strays, restarts>>

WarmupEnd(p) ==
  /\ \/ phase[p] = "command" /\ warmed[held[p]] = Commands /\ On(p, "hand")
     \/ phase[p] = "warmFailed" /\ On(p, "remove")
  /\ UNCHANGED <<engine, warmed, held, handed, strays, restarts>>

\* start_tools_container returns; the registry keeps the container.
HandOver(p) ==
  /\ phase[p] = "hand"
  /\ handed' = handed \union {held[p]}
  /\ Leave(p)
  /\ UNCHANGED <<engine, warmed, strays, restarts>>

\* An error before there is a container: acquire gets it at once.
FailsEarly(p) ==
  /\ phase[p] \in {"network", "makeNetwork", "create"}
  /\ Leave(p)
  /\ UNCHANGED <<engine, warmed, handed, strays, restarts>>

\* The probing has no deadline.
FailsLate_NoDeadline(p) ==
  /\ phase[p] \in {"start", "inspect", "warmup"}
  /\ On(p, "remove")
  /\ UNCHANGED <<engine, warmed, held, handed, strays, restarts>>

\* A container that would not start is not removed.
FailsLate_Keeps(p) ==
  /\ phase[p] \in {"start", "inspect", "probe", "warmup"}
  /\ IF phase[p] = "start" THEN Leave(p) ELSE On(p, "remove") /\ UNCHANGED held
  /\ UNCHANGED <<engine, warmed, handed, strays, restarts>>

\* The start, the inspection, the address, the 30 s or the warmup session
\* fails: the container has to go.
FailsLate(p) ==
  /\ phase[p] \in {"start", "inspect", "probe", "warmup"}
  /\ On(p, "remove")
  /\ UNCHANGED <<engine, warmed, held, handed, strays, restarts>>

\* The HTTP client for the probes cannot be built: the one error after the
\* container's creation that returns without removing it.
NoClient(p) ==
  /\ phase[p] = "inspect"
  /\ strays' = strays \union {held[p]}
  /\ Leave(p)
  /\ UNCHANGED <<engine, warmed, handed, restarts>>

\* remove_container_best_effort: an error is dropped.
RemoveBox(p) ==
  /\ phase[p] = "remove"
  /\ \/ /\ box' = [box EXCEPT ![held[p]] = "removed"]
        /\ healthy' = healthy \ {held[p]}
        /\ UNCHANGED strays
     \/ /\ strays' = strays \union {held[p]}
        /\ UNCHANGED <<box, healthy>>
  /\ Leave(p)
  /\ UNCHANGED <<network, warmed, handed, restarts>>

\* The client disconnects and the server drops the handler at an await; or
\* the handler panics: truncate_warmup_output cuts a long output or error
\* body at byte 512, which may be inside a character.
Dropped(p) ==
  /\ phase[p] # "idle"
  /\ strays' = strays \union ({held[p]} \ {NoBox})
  /\ Leave(p)
  /\ UNCHANGED <<engine, warmed, handed, restarts>>

\* main: handlers and registry are gone; every container with the hot label
\* is removed, errors dropped, and the network created if need and Docker
\* be, before requests are served.
ControllerRestart(Kept) ==
  /\ restarts < Restarts
  /\ restarts' = restarts + 1
  /\ box' = [c \in Boxes |-> IF box[c] \in {"created", "running"} /\ c \notin Kept
                             THEN "removed" ELSE box[c]]
  /\ healthy' = healthy \intersect Kept
  /\ phase' = [p \in Starts |-> "idle"]
  /\ held' = [p \in Starts |-> NoBox]
  /\ handed' = {}
  /\ strays' = Kept
  /\ network' \in {network, TRUE}
  /\ UNCHANGED warmed

----------------------------------------------------------------------------
Live == {c \in Boxes : box[c] \in {"created", "running"}}

StartStep(p) ==
  \/ InspectNetwork(p) \/ CreateNetwork(p) \/ CreateContainer(p) \/ StartContainer(p)
  \/ InspectContainer(p) \/ Probe(p) \/ WarmupSession(p) \/ WarmupCommand(p)
  \/ WarmupEnd(p) \/ HandOver(p) \/ FailsEarly(p) \/ FailsLate(p)
  \/ NoClient(p) \/ RemoveBox(p)

ReplicaNext ==
  \/ \E p \in Starts : StartReplica(p) \/ StartStep(p) \/ Dropped(p)
  \/ \E c \in Boxes : DaemonUp(c)
  \/ \E Kept \in SUBSET Live : ControllerRestart(Kept)

\* Docker and the daemon answer or run into the client's timeouts, and the
\* probing ends at its deadline.
ReplicaFairness == \A p \in Starts : WF_replicaVars(StartStep(p))

ReplicaSpec == ReplicaInit /\ [][ReplicaNext]_replicaVars

----------------------------------------------------------------------------
(* A container is under a start's control, handed to the registry, or was  *)
(* left by a removal that failed, a handler that was dropped or an HTTP    *)
(* client that could not be built: every other error path of               *)
(* start_tools_container removes what it created.                          *)
StraysExplained ==
  \A c \in Live : c \in handed \union strays \/ \E p \in Starts : held[p] = c

(* What the registry gets is one container per start, running, with a      *)
(* daemon that answered /health and on which every warmup command ran.     *)
HandedReady ==
  /\ \A c \in handed : box[c] = "running" /\ c \in healthy /\ warmed[c] = Commands
  /\ \A p \in Starts : held[p] \notin handed

(* A start ends, whoever else is creating the network at the same time.    *)
StartEnds == \A p \in Starts : phase[p] # "idle" ~> phase[p] = "idle"
=============================================================================
