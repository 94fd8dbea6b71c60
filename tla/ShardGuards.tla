---------------------------- MODULE ShardGuards ----------------------------
(***************************************************************************)
(* The locks of the shim's sandbox map and the threads of its runtime      *)
(* (e2b-shim/src/main.rs).  AppState.sandboxes is a DashMap: each of its   *)
(* shards has a reader-writer lock on which a thread waits, not a task.    *)
(* files_post and fs_remove keep what get returned, a read guard of the    *)
(* shard, over the awaits of the mirror's S3 calls; whoever inserts or     *)
(* removes a record of that shard meanwhile blocks a worker thread, and    *)
(* the task with the guard needs a worker thread to go on.                 *)
(*                                                                         *)
(* A step between two awaits takes no time on a free thread.  The S3 calls *)
(* of one mirror are taken together.  DashMap admits readers while writers *)
(* wait, so a get never blocks for long.                                   *)
(***************************************************************************)
EXTENDS Naturals, FiniteSets

CONSTANTS
  Mirrors,  \* handlers of files_post and fs_remove
  Writers,  \* create, delete, timeout, pause, resume, refreshes; the sweeper
  Shards,   \* shards of the map
  Workers   \* number of worker threads

ASSUME GuardAssumption == Workers \in Nat \ {0}

VARIABLES
  place,  \* where each task is
  shard   \* the shard of its sandbox

guardVars == <<place, shard>>
GuardTasks == Mirrors \union Writers

GuardInit ==
  /\ place = [t \in GuardTasks |-> "idle"]
  /\ shard \in [GuardTasks -> Shards]

----------------------------------------------------------------------------
To(t, label) ==
  /\ place' = [place EXCEPT ![t] = label]
  /\ UNCHANGED shard

\* A mirror with a guard, a shard with one, the writers that sit on a thread.
Holds(m) == place[m] \in {"s3", "answered"}
Guarded(k) == \E m \in Mirrors : Holds(m) /\ shard[m] = k
Blocked == {w \in Writers : place[w] = "blocked"}
ThreadFree == Cardinality(Blocked) < Workers

\* A request for some sandbox; the sweeper's turn.
Arrive(t, k) ==
  /\ place[t] = "idle"
  /\ place' = [place EXCEPT ![t] = "ready"]
  /\ shard' = [shard EXCEPT ![t] = k]

\* state.sandboxes.get, and the mirror up to its first await; without an S3
\* volume there is none.
MirrorGet(m) ==
  /\ place[m] = "ready"
  /\ ThreadFree
  /\ To(m, "s3") \/ To(m, "idle")

S3Answers(m) ==
  /\ place[m] = "s3"
  /\ To(m, "answered")

\* A failed call is made again.
MirrorEnds_Retries(m) ==
  /\ place[m] = "answered"
  /\ ThreadFree
  /\ To(m, "idle") \/ To(m, "s3")

\* The handler is resumed, returns and drops the guard.
MirrorEnds(m) ==
  /\ place[m] = "answered"
  /\ ThreadFree
  /\ To(m, "idle")

\* So does a handler that is dropped because its client has gone.
MirrorDropped(m) ==
  /\ Holds(m)
  /\ ThreadFree
  /\ To(m, "idle")

\* insert and remove, at once or after a wait that keeps the thread.
WriteMap(w) ==
  /\ place[w] = "ready"
  /\ ThreadFree
  /\ To(w, IF Guarded(shard[w]) THEN "blocked" ELSE "idle")

Unblock(w) ==
  /\ place[w] = "blocked"
  /\ ~Guarded(shard[w])
  /\ To(w, "idle")

MirrorStep(m) == MirrorGet(m) \/ S3Answers(m) \/ MirrorEnds(m)

GuardNext ==
  \/ \E t \in GuardTasks, k \in Shards : Arrive(t, k)
  \/ \E m \in Mirrors : MirrorStep(m) \/ MirrorDropped(m)
  \/ \E w \in Writers : WriteMap(w) \/ Unblock(w)

\* Ready tasks are queued first in, first out, so none is passed over for
\* ever by others that find a free thread; S3 calls end, at the latest by
\* their timeout; a thread that waits for a free lock gets it.
GuardFairness ==
  /\ \A m \in Mirrors : SF_guardVars(MirrorStep(m))
  /\ WF_guardVars(\E w \in Writers : Unblock(w))

GuardSpec == GuardInit /\ [][GuardNext]_guardVars /\ GuardFairness

----------------------------------------------------------------------------
\* Every thread waits for a guard whose task waits for a thread.
Wedged ==
  /\ Cardinality(Blocked) = Workers
  /\ \A w \in Blocked : Guarded(shard[w])

(* A guard taken over the mirror's awaits (main.rs:1692, 1828) is released *)
(* again, however many writers wait for it, unless as many of them as      *)
(* there are threads block at once: then no task of the shim ever runs     *)
(* again.                                                                  *)
ReleasedOrWedged ==
  \A m \in Mirrors : Holds(m) ~> (~Holds(m) \/ []Wedged)

(* The shim is never wedged: so for fewer writers than threads only.       *)
NeverWedged == ~Wedged
=============================================================================
