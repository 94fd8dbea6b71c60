--------------------------- MODULE PagedRegistry ---------------------------
(***************************************************************************)
(* The controller's template registry (api-rust/src/main.rs).  A template  *)
(* is Cold (no containers), Hot (containers running) or Warm (containers   *)
(* paused).  A request handler calls acquire(name), which starts or        *)
(* resumes the template's containers and demotes or removes others to stay *)
(* within HotLimit and WarmLimit.                                          *)
(*                                                                         *)
(* The registry's mutex is held only in the short critical sections; every *)
(* Docker call runs outside it.  Each action below is one critical section *)
(* or one Docker call, so the handlers interleave exactly where the code   *)
(* releases the mutex or awaits Docker.                                    *)
(***************************************************************************)
EXTENDS Naturals, Sequences, SequencesExt, FiniteSets

CONSTANTS
  Templates,    \* template names a request may name
  Configured,   \* those with a template.toml (PagedRegistry.configs)
  Tasks,        \* request handlers that may be inside acquire at once
  Containers,   \* container ids Docker can hand out; an id is never reused
  Replicas,     \* cfg.containers.max(1)
  HotLimit, WarmLimit,
  Faulty,       \* may a pause, unpause or remove call fail (errors are ignored)?
  Cancellable,  \* may the server drop a handler at an await (client gone)?
  NoTemplate

ASSUME RegistryAssumption ==
  /\ IsFiniteSet(Tasks)
  /\ Configured \subseteq Templates
  /\ NoTemplate \notin Templates
  /\ Replicas \in Nat \ {0}
  /\ HotLimit \in Nat
  /\ WarmLimit \in Nat
  /\ Faulty \in BOOLEAN
  /\ Cancellable \in BOOLEAN

VARIABLES
  runtimes,  \* RegistryState.runtimes: tier and container ids, Cold when absent
  lru,       \* RegistryState.lru, oldest first
  docker,    \* what Docker knows of each container id
  pc,        \* where each handler is inside acquire
  want,      \* acquire's argument
  mine,      \* containers of the runtime acquire resumes or starts
  victim,    \* the template being demoted or removed
  theirs,    \* the victim's containers, cloned with its runtime
  todo       \* containers the current Docker loop has still to treat

vars == <<runtimes, lru, docker, pc, want, mine, victim, theirs, todo>>
locals == <<want, mine, victim, theirs, todo>>

Tier == {"Cold", "Hot", "Warm"}
Runtime == [tier : Tier, cids : SUBSET Containers]
Cold == [tier |-> "Cold", cids |-> {}]

ContainerState == {"absent", "running", "paused", "removed"}

PC == {"idle", "lock", "reinsert", "unpause", "evictHot", "take", "pause",
       "markWarm", "evictWarm", "dropWarm", "remove", "start", "rollback",
       "register"}

TypeOK ==
  /\ runtimes \in [Templates -> Runtime]
  /\ lru \in Seq(Templates)
  /\ docker \in [Containers -> ContainerState]
  /\ pc \in [Tasks -> PC]
  /\ want \in [Tasks -> Templates \union {NoTemplate}]
  /\ mine \in [Tasks -> SUBSET Containers]
  /\ victim \in [Tasks -> Templates \union {NoTemplate}]
  /\ theirs \in [Tasks -> SUBSET Containers]
  /\ todo \in [Tasks -> SUBSET Containers]
  /\ \A t \in Tasks : pc[t] # "idle" => want[t] \in Templates
  /\ \A t \in Tasks : pc[t] \in {"take", "pause", "markWarm", "dropWarm"} => victim[t] \in Templates

Init ==
  /\ runtimes = [n \in Templates |-> Cold]
  /\ lru = <<>>
  /\ docker = [c \in Containers |-> "absent"]
  /\ pc = [t \in Tasks |-> "idle"]
  /\ want = [t \in Tasks |-> NoTemplate]
  /\ mine = [t \in Tasks |-> {}]
  /\ victim = [t \in Tasks |-> NoTemplate]
  /\ theirs = [t \in Tasks |-> {}]
  /\ todo = [t \in Tasks |-> {}]

----------------------------------------------------------------------------
InTier(tier) == {n \in Templates : runtimes[n].tier = tier}

\* Variants named X_Y below each hold one bug; the runs show which property
\* tells them from the code.  Here: the newest entry instead of the oldest.
Oldest_Newest(S) ==
  LET i == SelectLastInSeq(lru, LAMBDA n : n \in S)
  IN IF i = 0 THEN NoTemplate ELSE lru[i]

\* Oldest entry of the LRU order that is in S, NoTemplate if there is none.
Oldest(S) ==
  LET i == SelectInSeq(lru, LAMBDA n : n \in S)
  IN IF i = 0 THEN NoTemplate ELSE lru[i]

\* touch_lru_locked: to the newest end.
Touched(n) == Append(RemoveFirst(lru, n), n)

\* The per-name mutex is held from the re-check to the end of acquire.
HoldsNameLock(t, n) == want[t] = n /\ pc[t] \notin {"idle", "lock"}

Goto(t, label) == pc' = [pc EXCEPT ![t] = label]

\* The handler returns or fails: its guard and its locals are dropped.
Finish(t) ==
  /\ Goto(t, "idle")
  /\ want' = [want EXCEPT ![t] = NoTemplate]
  /\ mine' = [mine EXCEPT ![t] = {}]
  /\ victim' = [victim EXCEPT ![t] = NoTemplate]
  /\ theirs' = [theirs EXCEPT ![t] = {}]
  /\ todo' = [todo EXCEPT ![t] = {}]

\* A Docker call on c: it moves c out of the states From into the state to, and
\* has no effect on a container in another state or when the call fails.
DockerCall(c, From, to) ==
  \/ docker' = IF docker[c] \in From THEN [docker EXCEPT ![c] = to] ELSE docker
  \/ Faulty /\ docker' = docker

\* One iteration of a handler's `for cid in ..` loop over Docker calls.
ForEach(t, From, to) ==
  \E c \in todo[t] :
    /\ DockerCall(c, From, to)
    /\ todo' = [todo EXCEPT ![t] = @ \ {c}]
----------------------------------------------------------------------------
\* acquire, fast path: the template is Hot.
AcquireHot(t, n) ==
  /\ pc[t] = "idle"
  /\ runtimes[n].tier = "Hot"
  /\ lru' = Touched(n)
  /\ UNCHANGED <<runtimes, docker, pc, locals>>

\* acquire, fast path missed: wait for the template's name lock.
AcquireSlow(t, n) ==
  /\ pc[t] = "idle"
  /\ runtimes[n].tier # "Hot"
  /\ want' = [want EXCEPT ![t] = n]
  /\ Goto(t, "lock")
  /\ UNCHANGED <<runtimes, lru, docker, mine, victim, theirs, todo>>

\* Without the second look at the state under the name lock.
Recheck_Blind(t) ==
  /\ pc[t] = "lock"
  /\ \A u \in Tasks \ {t} : ~HoldsNameLock(u, want[t])
  /\ want[t] \in Configured
  /\ Goto(t, "evictHot")
  /\ UNCHANGED <<runtimes, lru, docker, locals>>

\* Name lock taken, state read again.  The mutex is released before the
\* outcome is acted on.
Recheck(t) ==
  LET n == want[t] IN
  /\ pc[t] = "lock"
  /\ \A u \in Tasks \ {t} : ~HoldsNameLock(u, n)
  /\ \/ /\ runtimes[n].tier = "Hot"
        /\ Goto(t, "reinsert")
        /\ mine' = [mine EXCEPT ![t] = runtimes[n].cids]
        /\ UNCHANGED <<want, victim, theirs, todo>>
     \/ /\ runtimes[n].tier = "Warm"
        /\ Goto(t, "unpause")
        /\ mine' = [mine EXCEPT ![t] = runtimes[n].cids]
        /\ todo' = [todo EXCEPT ![t] = runtimes[n].cids]
        /\ UNCHANGED <<want, victim, theirs>>
     \/ /\ runtimes[n].tier = "Cold"
        /\ n \in Configured
        /\ Goto(t, "evictHot")
        /\ UNCHANGED locals
     \/ /\ runtimes[n].tier = "Cold"
        /\ n \notin Configured
        /\ Finish(t)
  /\ UNCHANGED <<runtimes, lru, docker>>

\* The runtime enters the map as Hot and the template becomes the newest: the
\* critical section that ends each of acquire's three slow paths.
InsertHot(t) ==
  /\ runtimes' = [runtimes EXCEPT ![want[t]] = [tier |-> "Hot", cids |-> mine[t]]]
  /\ lru' = Touched(want[t])
  /\ Finish(t)
  /\ UNCHANGED docker

Reinsert(t) == pc[t] = "reinsert" /\ InsertHot(t)

\* Warm to Hot: every container is unpaused, errors are only logged.
Unpause(t) ==
  /\ pc[t] = "unpause"
  /\ \/ /\ ForEach(t, {"paused"}, "running")
        /\ UNCHANGED pc
     \/ /\ todo[t] = {}
        /\ Goto(t, "evictHot")
        /\ UNCHANGED <<docker, todo>>
  /\ UNCHANGED <<runtimes, lru, want, mine, victim, theirs>>

\* Room is looked for only once the tier is over its limit.
EvictHot_OneMore(t) ==
  LET full == Cardinality(InTier("Hot")) > HotLimit
      v == Oldest(InTier("Hot") \ {want[t]})
  IN
  /\ pc[t] = "evictHot"
  /\ \/ full /\ v # NoTemplate /\ victim' = [victim EXCEPT ![t] = v] /\ Goto(t, "take")
     \/ /\ ~full \/ v = NoTemplate
        /\ Goto(t, IF mine[t] = {} THEN "start" ELSE "register")
        /\ UNCHANGED victim
  /\ UNCHANGED <<runtimes, lru, docker, want, mine, theirs, todo>>

\* evict_hot_to_warm_if_needed_excluding, head of the loop.  It returns when
\* there is room or nothing to demote: a runtime just unpaused is registered,
\* and otherwise the cold start begins.
EvictHot(t) ==
  LET full == Cardinality(InTier("Hot")) >= HotLimit
      v == Oldest(InTier("Hot") \ {want[t]})
  IN
  /\ pc[t] = "evictHot"
  /\ \/ /\ full
        /\ v # NoTemplate
        /\ victim' = [victim EXCEPT ![t] = v]
        /\ Goto(t, "take")
     \/ /\ ~full \/ v = NoTemplate
        /\ Goto(t, IF mine[t] = {} THEN "start" ELSE "register")
        /\ UNCHANGED victim
  /\ UNCHANGED <<runtimes, lru, docker, want, mine, theirs, todo>>

\* The victim's runtime is cloned in a critical section of its own.
TakeVictim(t) ==
  LET v == victim[t] IN
  /\ pc[t] = "take"
  /\ \/ /\ runtimes[v].tier = "Cold"
        /\ Goto(t, "evictHot")
        /\ UNCHANGED <<theirs, todo>>
     \/ /\ runtimes[v].tier # "Cold"
        /\ theirs' = [theirs EXCEPT ![t] = runtimes[v].cids]
        /\ todo' = [todo EXCEPT ![t] = runtimes[v].cids]
        /\ Goto(t, "pause")
  /\ UNCHANGED <<runtimes, lru, docker, want, mine, victim>>

Pause_Skipped(t) ==
  /\ pc[t] = "pause"
  /\ Goto(t, "markWarm")
  /\ UNCHANGED <<runtimes, lru, docker, want, mine, victim, theirs, todo>>

Pause(t) ==
  /\ pc[t] = "pause"
  /\ \/ /\ ForEach(t, {"running"}, "paused")
        /\ UNCHANGED pc
     \/ /\ todo[t] = {}
        /\ Goto(t, "markWarm")
        /\ UNCHANGED <<docker, todo>>
  /\ UNCHANGED <<runtimes, lru, want, mine, victim, theirs>>

\* The victim keeps its tier.
MarkWarm_StaysHot(t) ==
  /\ pc[t] = "markWarm"
  /\ runtimes' = [runtimes EXCEPT ![victim[t]] = [tier |-> "Hot", cids |-> theirs[t]]]
  /\ theirs' = [theirs EXCEPT ![t] = {}]
  /\ Goto(t, "evictWarm")
  /\ UNCHANGED <<lru, docker, want, mine, victim, todo>>

\* The victim leaves the LRU order with the Hot tier.
MarkWarm_Forgets(t) ==
  /\ pc[t] = "markWarm"
  /\ runtimes' = [runtimes EXCEPT ![victim[t]] = [tier |-> "Warm", cids |-> theirs[t]]]
  /\ lru' = RemoveFirst(lru, victim[t])
  /\ theirs' = [theirs EXCEPT ![t] = {}]
  /\ Goto(t, "evictWarm")
  /\ UNCHANGED <<docker, want, mine, victim, todo>>

\* The clone is inserted under the name the handler acquires.
MarkWarm_OwnName(t) ==
  /\ pc[t] = "markWarm"
  /\ runtimes' = [runtimes EXCEPT ![want[t]] = [tier |-> "Warm", cids |-> theirs[t]]]
  /\ theirs' = [theirs EXCEPT ![t] = {}]
  /\ Goto(t, "evictWarm")
  /\ UNCHANGED <<lru, docker, want, mine, victim, todo>>

\* The cloned runtime is inserted as Warm; the LRU order is left alone.
MarkWarm(t) ==
  /\ pc[t] = "markWarm"
  /\ runtimes' = [runtimes EXCEPT ![victim[t]] = [tier |-> "Warm", cids |-> theirs[t]]]
  /\ theirs' = [theirs EXCEPT ![t] = {}]
  /\ Goto(t, "evictWarm")
  /\ UNCHANGED <<lru, docker, want, mine, victim, todo>>

\* evict_warm_to_cold_if_needed, head of the loop; on return the loop of
\* evict_hot_to_warm_if_needed_excluding goes round again.
EvictWarm(t) ==
  LET over == Cardinality(InTier("Warm")) > WarmLimit
      v == Oldest(InTier("Warm"))
  IN
  /\ pc[t] = "evictWarm"
  /\ \/ /\ over
        /\ v # NoTemplate
        /\ victim' = [victim EXCEPT ![t] = v]
        /\ Goto(t, "dropWarm")
     \/ /\ ~over \/ v = NoTemplate
        /\ victim' = [victim EXCEPT ![t] = NoTemplate]
        /\ Goto(t, "evictHot")
  /\ UNCHANGED <<runtimes, lru, docker, want, mine, theirs, todo>>

\* The victim leaves the LRU order and the map, whatever its tier is by now.
\* lru holds a name at most once, so retain removes its only occurrence.
DropWarm(t) ==
  LET v == victim[t] IN
  /\ pc[t] = "dropWarm"
  /\ lru' = RemoveFirst(lru, v)
  /\ runtimes' = [runtimes EXCEPT ![v] = Cold]
  /\ todo' = [todo EXCEPT ![t] = runtimes[v].cids]
  /\ Goto(t, "remove")
  /\ UNCHANGED <<docker, want, mine, victim, theirs>>

\* Unpause, then forced removal, of each container; errors are dropped.
Remove_(t) ==
  /\ pc[t] = "remove"
  /\ \/ /\ \E c \in todo[t] : docker[c] = "paused" /\ docker' = [docker EXCEPT ![c] = "running"]
        /\ UNCHANGED <<pc, todo>>
     \/ /\ ForEach(t, {"running", "paused"}, "removed")
        /\ UNCHANGED pc
     \/ /\ todo[t] = {}
        /\ Goto(t, "evictWarm")
        /\ UNCHANGED <<docker, todo>>
  /\ UNCHANGED <<runtimes, lru, want, mine, victim, theirs>>
----------------------------------------------------------------------------
\* Cold start: one start_tools_container per replica.  A start that fails
\* (image missing, Docker error, daemon not healthy in time, warmup command
\* failed) removes its own container and makes acquire roll back the replicas
\* already started.
Start(t) ==
  /\ pc[t] = "start"
  /\ \/ /\ Cardinality(mine[t]) < Replicas
        /\ \E c \in Containers :
             /\ docker[c] = "absent"
             /\ docker' = [docker EXCEPT ![c] = "running"]
             /\ mine' = [mine EXCEPT ![t] = @ \union {c}]
        /\ UNCHANGED <<pc, todo>>
     \/ /\ Cardinality(mine[t]) < Replicas
        /\ todo' = [todo EXCEPT ![t] = mine[t]]
        /\ Goto(t, "rollback")
        /\ UNCHANGED <<docker, mine>>
     \/ /\ Cardinality(mine[t]) = Replicas
        /\ Goto(t, "register")
        /\ UNCHANGED <<docker, mine, todo>>
  /\ UNCHANGED <<runtimes, lru, want, victim, theirs>>

\* After the rollback acquire goes on as if the start had succeeded.
Rollback_Registers(t) ==
  /\ pc[t] = "rollback"
  /\ \/ /\ ForEach(t, {"running", "paused"}, "removed")
        /\ UNCHANGED <<runtimes, lru, pc, want, mine, victim, theirs>>
     \/ todo[t] = {} /\ InsertHot(t)

Rollback(t) ==
  /\ pc[t] = "rollback"
  /\ \/ /\ ForEach(t, {"running", "paused"}, "removed")
        /\ UNCHANGED <<pc, want, mine, victim, theirs>>
     \/ /\ todo[t] = {}
        /\ Finish(t)
        /\ UNCHANGED docker
  /\ UNCHANGED <<runtimes, lru>>

Register(t) == pc[t] = "register" /\ InsertHot(t)

\* The client disconnects: the server drops the handler at its await point.
Cancel(t) ==
  /\ Cancellable
  /\ pc[t] # "idle"
  /\ Finish(t)
  /\ UNCHANGED <<runtimes, lru, docker>>
----------------------------------------------------------------------------
Step(t) ==
  \/ Reinsert(t) \/ Unpause(t)
  \/ EvictHot(t) \/ TakeVictim(t) \/ Pause(t) \/ MarkWarm(t)
  \/ EvictWarm(t) \/ DropWarm(t) \/ Remove_(t)
  \/ Start(t) \/ Rollback(t) \/ Register(t)

Next ==
  \E t \in Tasks :
    \/ \E n \in Templates : AcquireHot(t, n) \/ AcquireSlow(t, n)
    \/ Recheck(t)
    \/ Step(t)
    \/ Cancel(t)

Spec == Init /\ [][Next]_vars

\* Docker calls return and the runtime schedules every ready task; tokio's
\* Mutex is FIFO, so a handler waiting for a name lock is not overtaken for ever.
FairSpec ==
  /\ Spec
  /\ \A t \in Tasks : WF_vars(Step(t)) /\ SF_vars(Recheck(t))
----------------------------------------------------------------------------
\* A Hot template can be found by the evictor: it is in the LRU order
\* (every critical section that inserts Hot also calls touch_lru_locked).
HotInLru ==
  \A n \in Templates : runtimes[n].tier = "Hot" => \E i \in 1..Len(lru) : lru[i] = n

\* touch_lru_locked removes the earlier entry before it pushes the new one, so
\* no name is twice in the LRU order.
LruNoDuplicates == \A i, j \in 1..Len(lru) : lru[i] = lru[j] => i = j

\* Handlers that have seen room in the Hot tier, or the template Hot, and will
\* insert their template as Hot without looking again.
Committed == {t \in Tasks : pc[t] \in {"start", "register", "reinsert"}}
HotOrPromised == InTier("Hot") \union {want[t] : t \in Committed}

Room == IF HotLimit = 0 THEN 1 ELSE HotLimit

\* The room check and the insertion are in different critical sections, so
\* concurrent handlers overshoot HotLimit, but by no more than one template
\* for every handler but one (evict_hot_to_warm_if_needed_excluding).
HotBound == Cardinality(InTier("Hot")) <= Room + Cardinality(Tasks) - 1

\* A container that was started for one template never serves another one, however
\* stale the runtime is that a handler puts back after its Docker calls: the
\* clone in evict_hot_to_warm_if_needed_excluding, the one acquire resumes.
ServesOneTemplate ==
  [][\A m, n \in Templates : m # n => runtimes[m].cids \cap runtimes'[n].cids = {}]_vars

Quiescent == \A t \in Tasks : pc[t] = "idle"

\* Containers some runtime or some handler will still act on.
Held ==
  (UNION {runtimes[n].cids : n \in Templates})
    \union (UNION {mine[t] : t \in Tasks})
    \union (UNION {todo[t] : t \in {u \in Tasks : pc[u] = "remove"}})

\* Every container that exists in Docker is known to the registry or to the
\* handler that starts or removes it (RegistryState.runtimes: "gone when Cold").
NoLeak == \A c \in Containers : docker[c] \in {"running", "paused"} => c \in Held

\* No template is registered with a container that has been removed (an entry
\* of RegistryState.runtimes stands for containers that exist).
RegisteredExist ==
  \A n \in Templates : \A c \in runtimes[n].cids : docker[c] # "removed"

\* When no handler is inside acquire, the containers of Hot templates run and
\* those of Warm ones are paused ("running, receiving traffic", "docker-paused").
\* A registered container that was removed is RegisteredExist's concern.
TiersMatchDocker ==
  Quiescent =>
    \A n \in Templates : \A c \in runtimes[n].cids :
      docker[c] \in {"removed", IF runtimes[n].tier = "Hot" THEN "running" ELSE "paused"}

\* The LRU order lists exactly the templates that have a runtime ("LRU order
\* across Hot + Warm"): one missing from it could never be evicted.
LruMatchesRuntimes ==
  \A n \in Templates :
    runtimes[n].tier # "Cold" <=> \E i \in 1..Len(lru) : lru[i] = n

\* Handlers cannot block one another for ever: unless requests for templates
\* that are not Hot keep arriving, every handler leaves acquire.  (A handler
\* does loop for as long as others refill the Hot tier between its demotion of
\* a victim and its next look: the loop of evict_hot_to_warm_if_needed_excluding.)
LoadSettles ==
  \/ []<>Quiescent
  \/ []<><<\E t \in Tasks, n \in Templates : AcquireSlow(t, n)>>_vars

\* Tier changes follow the two-level LRU policy.
Policy == INSTANCE LruTiers WITH
  Names <- Templates, tier <- [n \in Templates |-> runtimes[n].tier], order <- lru
FollowsPolicy == Policy!Spec
=============================================================================
