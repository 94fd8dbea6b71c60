-------------------------- MODULE SessionProcesses --------------------------
(***************************************************************************)
(* Sessions and the long-lived processes they own, as the tools daemon     *)
(* keeps them (tools-rust/src/main.rs and process.rs).                     *)
(*                                                                         *)
(* Request handlers, the idle reaper and the shutdown drain run            *)
(* concurrently on a multi-threaded runtime over a sharded map, so a step  *)
(* below is one operation on a shared map, one signal, or one await.  A    *)
(* handler that resolved a session keeps it (an Arc) after it has left the *)
(* map.  Time is abstract: a grace period may end at any moment.           *)
(***************************************************************************)
EXTENDS Naturals, FiniteSets

CONSTANTS
  Sessions,       \* session ids; each is created at most once (a fresh uuid)
  Procs,          \* process ids, likewise
  Handlers,       \* request handlers that may run at once
  Reaper, Drainer,  \* the idle reaper task and the shutdown future
  MaxPerSession,  \* TOOLS_MAX_PROCESSES_PER_SESSION
  ReaperOn,       \* TOOLS_SESSION_IDLE_REAP_SEC # 0
  CgroupOn,       \* isolation.cgroup_root is set
  Cancellable,    \* may a client disconnect, dropping its handler at an await?
  Signals,        \* the signals the daemon may be sent
  NoSession, NoProc

ASSUME SessionAssumption ==
  /\ IsFiniteSet(Handlers)
  /\ Handlers # {}
  /\ Reaper \notin Handlers
  /\ Drainer \notin Handlers
  /\ Reaper # Drainer
  /\ MaxPerSession \in Nat
  /\ ReaperOn \in BOOLEAN
  /\ CgroupOn \in BOOLEAN
  /\ Cancellable \in BOOLEAN
  /\ Signals \subseteq {"SIGINT", "SIGTERM"}
  /\ NoSession \notin Sessions
  /\ NoProc \notin Procs

Actors == Handlers \union {Reaper, Drainer}

VARIABLES
  daemon,    \* "up", "draining", "closing" (no new requests), "exited", "dead"
  sessions,  \* AppState.sessions: the ids in the map
  used,      \* ids ever created
  dirs,      \* session directories on disk
  cgroups,   \* sessions whose cgroup exists
  procs,     \* SessionState.processes, also once the session left the map
  home,      \* the session a process was started in
  os,        \* what the kernel knows of a process; "killed" has a SIGKILL pending
  running,   \* ProcessHandle.state is Running
  jailed,    \* processes attached to their session's cgroup
  idle,      \* last_touched is older than the idle limit
  pc,        \* where each actor is
  sess,      \* the session it works on
  cur,       \* the process it starts or terminates
  todo,      \* handles it has still to terminate
  batch      \* sessions the reaper or the drain has still to visit

vars == <<daemon, sessions, used, dirs, cgroups, procs, home, os, running,
          jailed, idle, pc, sess, cur, todo, batch>>
maps == <<sessions, used, dirs, cgroups, procs>>
kernel == <<home, os, running, jailed>>
locals == <<sess, cur, todo, batch>>

StartPC == {"spawn", "attach", "track"}
ReapPC == {"snapshot", "next", "term", "grace", "killwait", "clear", "rmdir", "cgroup"}
PC == {"idle", "insert", "cap", "batch"} \union StartPC \union ReapPC

TypeOK ==
  /\ daemon \in {"up", "draining", "closing", "exited", "dead"}
  /\ sessions \subseteq Sessions
  /\ used \subseteq Sessions
  /\ dirs \subseteq Sessions
  /\ cgroups \subseteq Sessions
  /\ procs \in [Sessions -> SUBSET Procs]
  /\ home \in [Procs -> Sessions \union {NoSession}]
  /\ os \in [Procs -> {"none", "running", "killed", "exited"}]
  /\ running \in [Procs -> BOOLEAN]
  /\ jailed \subseteq Procs
  /\ idle \subseteq Sessions
  /\ pc \in [Actors -> PC]
  /\ sess \in [Actors -> Sessions \union {NoSession}]
  /\ cur \in [Actors -> Procs \union {NoProc}]
  /\ todo \in [Actors -> SUBSET Procs]
  /\ batch \in [Actors -> SUBSET Sessions]
  /\ \A x \in Actors :
       /\ pc[x] \in StartPC \union {"insert", "cap", "snapshot", "clear", "rmdir", "cgroup"}
            => sess[x] \in Sessions
       /\ pc[x] \in {"attach", "track", "term", "grace"} => cur[x] \in Procs

Init ==
  /\ daemon = "up"
  /\ sessions = {} /\ used = {} /\ dirs = {} /\ cgroups = {}
  /\ procs = [s \in Sessions |-> {}]
  /\ home = [p \in Procs |-> NoSession]
  /\ os = [p \in Procs |-> "none"]
  /\ running = [p \in Procs |-> FALSE]
  /\ jailed = {}
  /\ idle = {}
  /\ pc = [x \in Actors |-> "idle"]
  /\ sess = [x \in Actors |-> NoSession]
  /\ cur = [x \in Actors |-> NoProc]
  /\ todo = [x \in Actors |-> {}]
  /\ batch = [x \in Actors |-> {}]
----------------------------------------------------------------------------
Goto(x, label) == pc' = [pc EXCEPT ![x] = label]

\* The actor is done with the session: a handler answers its request, the
\* reaper and the drain go on with their list.
Finish(x) ==
  /\ Goto(x, IF x \in Handlers THEN "idle" ELSE "batch")
  /\ sess' = [sess EXCEPT ![x] = NoSession]
  /\ cur' = [cur EXCEPT ![x] = NoProc]
  /\ todo' = [todo EXCEPT ![x] = {}]
  /\ UNCHANGED batch

Alive == daemon \notin {"exited", "dead"}

\* A request that the server still accepts reaches an idle handler.
Accepts(h) == daemon \in {"up", "draining"} /\ pc[h] = "idle"

\* resolve_session and SessionState.touch, as tool_process does them.
ResolveAndTouch(s) ==
  /\ s \in sessions
  /\ idle' = idle \ {s}

\* SIGKILL; a process that has exited is not harmed.
Killed(P) == [p \in Procs |-> IF p \in P /\ os[p] = "running" THEN "killed" ELSE os[p]]
----------------------------------------------------------------------------
\* Variants named X_Y below each hold one bug; the runs show which property
\* tells them from the code.  Here: the directory is not made first.
CreateDir_Late(h, s) ==
  /\ Accepts(h)
  /\ s \notin used
  /\ used' = used \union {s}
  /\ sess' = [sess EXCEPT ![h] = s]
  /\ Goto(h, "insert")
  /\ UNCHANGED <<daemon, sessions, dirs, cgroups, procs, kernel, idle, cur, todo, batch>>

\* create_session: the directory first ..
CreateDir(h, s) ==
  /\ Accepts(h)
  /\ s \notin used
  /\ used' = used \union {s}
  /\ dirs' = dirs \union {s}
  /\ sess' = [sess EXCEPT ![h] = s]
  /\ Goto(h, "insert")
  /\ UNCHANGED <<daemon, sessions, cgroups, procs, kernel, idle, cur, todo, batch>>

\* .. then the cgroup and the entry in the map, with last_touched = now.
InsertSession(h) ==
  /\ pc[h] = "insert"
  /\ cgroups' = IF CgroupOn THEN cgroups \union {sess[h]} ELSE cgroups
  /\ sessions' = sessions \union {sess[h]}
  /\ Finish(h)
  /\ UNCHANGED <<daemon, used, dirs, procs, kernel, idle>>

\* A request that changes nothing here: one for an id that is not in the map
\* (404), or bash or a file tool, which resolve a session and do not touch it.
OtherRequest(h) == Accepts(h) /\ UNCHANGED vars

\* The idle limit passes without a call of the process tool for s.
TimePasses(s) ==
  /\ Alive
  /\ s \in sessions
  /\ idle' = idle \union {s}
  /\ UNCHANGED <<daemon, maps, kernel, pc, locals>>
----------------------------------------------------------------------------
\* action_start: the handler now holds the session, whatever becomes of it.
StartRequest(h, s) ==
  /\ Accepts(h)
  /\ ResolveAndTouch(s)
  /\ sess' = [sess EXCEPT ![h] = s]
  /\ Goto(h, "cap")
  /\ UNCHANGED <<daemon, maps, kernel, cur, todo, batch>>

Full_OneMore(s) == Cardinality(procs[s]) > MaxPerSession

\* The cap counts the entries of the map, running or not.
Full(s) == Cardinality(procs[s]) >= MaxPerSession

CapCheck(h) ==
  /\ pc[h] = "cap"
  /\ \/ Full(sess[h]) /\ Finish(h)
     \/ ~Full(sess[h]) /\ Goto(h, "spawn") /\ UNCHANGED locals
  /\ UNCHANGED <<daemon, maps, kernel, idle>>

\* fork and exec in the session's directory; without the directory it fails.
\* From here on the wait task owns the child.
Spawn(h) ==
  /\ pc[h] = "spawn"
  /\ \/ \E p \in Procs :
          /\ sess[h] \in dirs
          /\ os[p] = "none"
          /\ os' = [os EXCEPT ![p] = "running"]
          /\ running' = [running EXCEPT ![p] = TRUE]
          /\ home' = [home EXCEPT ![p] = sess[h]]
          /\ cur' = [cur EXCEPT ![h] = p]
          /\ Goto(h, "attach")
          /\ UNCHANGED <<jailed, sess, todo, batch>>
     \/ Finish(h) /\ UNCHANGED kernel
  /\ UNCHANGED <<daemon, maps, idle>>

\* cgroup_attach_pid: a write that fails silently if the cgroup is gone.
Attach(h) ==
  /\ pc[h] = "attach"
  /\ jailed' = IF sess[h] \in cgroups THEN jailed \union {cur[h]} ELSE jailed
  /\ Goto(h, "track")
  /\ UNCHANGED <<daemon, maps, home, os, running, idle, locals>>

\* session.processes.insert
Track(h) ==
  /\ pc[h] = "track"
  /\ procs' = [procs EXCEPT ![sess[h]] = @ \union {cur[h]}]
  /\ Finish(h)
  /\ UNCHANGED <<daemon, sessions, used, dirs, cgroups, kernel, idle>>

\* action_signal with SIGKILL; a signal the process ignores changes nothing.
SignalRequest(h, s, p) ==
  /\ Accepts(h)
  /\ ResolveAndTouch(s)
  /\ p \in procs[s]
  /\ os' = Killed({p})
  /\ UNCHANGED <<daemon, maps, home, running, jailed, pc, locals>>

\* action_stop: terminate_handle on one process, with no session to clear.
StopRequest(h, s, p) ==
  /\ Accepts(h)
  /\ ResolveAndTouch(s)
  /\ p \in procs[s]
  /\ cur' = [cur EXCEPT ![h] = p]
  /\ Goto(h, "term")
  /\ UNCHANGED <<daemon, maps, kernel, sess, todo, batch>>

\* The child exits, by itself or killed ..
Exit(p) ==
  /\ os[p] \in {"running", "killed"}
  /\ os' = [os EXCEPT ![p] = "exited"]
  /\ UNCHANGED <<daemon, maps, home, running, jailed, idle, pc, locals>>

\* .. and the wait task records it.
WaitTask(p) ==
  /\ Alive
  /\ os[p] = "exited"
  /\ running[p]
  /\ running' = [running EXCEPT ![p] = FALSE]
  /\ UNCHANGED <<daemon, maps, home, os, jailed, idle, pc, locals>>
----------------------------------------------------------------------------
\* The session is looked up and left in the map while it is reaped.
TakeSession_Get(x, s) ==
  /\ s \in sessions
  /\ sess' = [sess EXCEPT ![x] = s]
  /\ Goto(x, "snapshot")
  /\ UNCHANGED sessions

\* sessions.remove: only one actor gets the session and goes on to reap it.
TakeSession(x, s) ==
  /\ s \in sessions
  /\ sessions' = sessions \ {s}
  /\ sess' = [sess EXCEPT ![x] = s]
  /\ Goto(x, "snapshot")

DeleteRequest(h, s) ==
  /\ Accepts(h)
  /\ TakeSession(h, s)
  /\ UNCHANGED <<daemon, used, dirs, cgroups, procs, kernel, idle, cur, todo, batch>>

\* reap_session_processes: the handles are copied out of the map ..
Snapshot(x) ==
  /\ pc[x] = "snapshot"
  /\ todo' = [todo EXCEPT ![x] = procs[sess[x]]]
  /\ Goto(x, "next")
  /\ UNCHANGED <<daemon, maps, kernel, idle, sess, cur, batch>>

\* .. and terminated one after the other.
NextHandle(x) ==
  /\ pc[x] = "next"
  /\ \/ \E p \in todo[x] :
          /\ cur' = [cur EXCEPT ![x] = p]
          /\ todo' = [todo EXCEPT ![x] = @ \ {p}]
          /\ Goto(x, "term")
          /\ UNCHANGED <<sess, batch>>
     \/ /\ todo[x] = {} /\ sess[x] # NoSession
        /\ Goto(x, "clear")
        /\ UNCHANGED locals
     \/ /\ todo[x] = {} /\ sess[x] = NoSession
        /\ Finish(x)
  /\ UNCHANGED <<daemon, maps, kernel, idle>>

\* terminate_handle: SIGTERM if the handle is Running.  A state whose mutex somebody
\* holds counts as Running, here and after the grace period (snapshot_running).
Term(x) ==
  /\ pc[x] = "term"
  /\ \/ Goto(x, "grace")
     \/ ~running[cur[x]] /\ Goto(x, "next")
  /\ UNCHANGED <<daemon, maps, kernel, idle, locals>>

\* No SIGKILL after the grace period.
GraceOver_NoKill(x) ==
  /\ pc[x] = "grace"
  /\ Goto(x, "next")
  /\ UNCHANGED <<daemon, maps, kernel, idle, locals>>

\* No grace period: only the wait task ends the wait.
GraceOver_NoTimeout(x) ==
  /\ pc[x] = "grace"
  /\ ~running[cur[x]]
  /\ Goto(x, "next")
  /\ UNCHANGED <<daemon, maps, kernel, idle, locals>>

\* The wait task has notified, or the grace period is over: SIGKILL if needed.
GraceOver(x) ==
  /\ pc[x] = "grace"
  /\ \/ os' = Killed({cur[x]}) /\ Goto(x, "killwait")
     \/ ~running[cur[x]] /\ UNCHANGED os /\ Goto(x, "next")
  /\ UNCHANGED <<daemon, maps, home, running, jailed, idle, locals>>

\* At most two seconds for the wait task to see the exit.
KillWaitOver(x) ==
  /\ pc[x] = "killwait"
  /\ Goto(x, "next")
  /\ UNCHANGED <<daemon, maps, kernel, idle, locals>>

\* processes.clear(); the drain is then done with the session.
Clear(x) ==
  /\ pc[x] = "clear"
  /\ procs' = [procs EXCEPT ![sess[x]] = {}]
  /\ IF x = Drainer THEN Finish(x) ELSE Goto(x, "rmdir") /\ UNCHANGED locals
  /\ UNCHANGED <<daemon, sessions, used, dirs, cgroups, kernel, idle>>

Rmdir(x) ==
  /\ pc[x] = "rmdir"
  /\ dirs' = dirs \ {sess[x]}
  /\ Goto(x, "cgroup")
  /\ UNCHANGED <<daemon, sessions, used, cgroups, procs, kernel, idle, locals>>

\* cleanup_session_cgroup: cgroup.kill, then rmdir.
CleanupCgroup(x) ==
  /\ pc[x] = "cgroup"
  /\ os' = IF sess[x] \in cgroups THEN Killed({p \in jailed : home[p] = sess[x]}) ELSE os
  /\ cgroups' = cgroups \ {sess[x]}
  /\ Finish(x)
  /\ UNCHANGED <<daemon, sessions, used, dirs, procs, home, running, jailed, idle>>
----------------------------------------------------------------------------
\* The comparison with the idle limit the other way round.
ReaperScan_Reversed ==
  /\ ReaperOn
  /\ Alive
  /\ pc[Reaper] = "idle"
  /\ batch' = [batch EXCEPT ![Reaper] = sessions \ idle]
  /\ Goto(Reaper, "batch")
  /\ UNCHANGED <<daemon, maps, kernel, idle, sess, cur, todo>>

\* spawn_idle_reaper, one tick: the sessions that look idle now ..
ReaperScan ==
  /\ ReaperOn
  /\ Alive
  /\ pc[Reaper] = "idle"
  /\ batch' = [batch EXCEPT ![Reaper] = sessions \intersect idle]
  /\ Goto(Reaper, "batch")
  /\ UNCHANGED <<daemon, maps, kernel, idle, sess, cur, todo>>

\* .. are visited in turn, by the reaper and by drain_all_sessions alike.
Visit(x) ==
  /\ pc[x] = "batch"
  /\ \E s \in batch[x] :
       /\ batch' = [batch EXCEPT ![x] = @ \ {s}]
       /\ \/ TakeSession(x, s)
          \/ s \notin sessions /\ UNCHANGED <<sessions, sess, pc>>
  /\ UNCHANGED <<daemon, used, dirs, cgroups, procs, kernel, idle, cur, todo>>

ReaperDone ==
  /\ pc[Reaper] = "batch"
  /\ batch[Reaper] = {}
  /\ Goto(Reaper, "idle")
  /\ UNCHANGED <<daemon, maps, kernel, idle, locals>>

\* SIGINT (ctrl_c) starts drain_all_sessions inside the shutdown signal: the
\* server goes on accepting until that future completes.
Sigint ==
  /\ "SIGINT" \in Signals
  /\ daemon = "up"
  /\ daemon' = "draining"
  /\ batch' = [batch EXCEPT ![Drainer] = sessions]
  /\ Goto(Drainer, "batch")
  /\ UNCHANGED <<maps, kernel, idle, sess, cur, todo>>

DrainDone ==
  /\ pc[Drainer] = "batch"
  /\ batch[Drainer] = {}
  /\ daemon' = "closing"
  /\ Goto(Drainer, "idle")
  /\ UNCHANGED <<maps, kernel, idle, locals>>

\* The process ends: every task of the runtime is gone, and its memory with it.
TasksGone ==
  /\ pc' = [x \in Actors |-> "idle"]
  /\ sess' = [x \in Actors |-> NoSession]
  /\ cur' = [x \in Actors |-> NoProc]
  /\ todo' = [x \in Actors |-> {}]
  /\ batch' = [x \in Actors |-> {}]

\* Without kill_on_drop.
ExitDaemon_Leaves ==
  /\ daemon = "closing"
  /\ \A h \in Handlers : pc[h] = "idle"
  /\ daemon' = "exited"
  /\ TasksGone
  /\ UNCHANGED <<maps, kernel, idle>>

\* axum's graceful shutdown waits for the requests in flight; the runtime is
\* dropped and with it the wait tasks, whose children are killed (kill_on_drop).
ExitDaemon ==
  /\ daemon = "closing"
  /\ \A h \in Handlers : pc[h] = "idle"
  /\ daemon' = "exited"
  /\ os' = Killed(Procs)
  /\ TasksGone
  /\ UNCHANGED <<maps, home, running, jailed, idle>>

\* Nothing handles SIGTERM: the daemon dies at once.
Sigterm ==
  /\ "SIGTERM" \in Signals
  /\ Alive
  /\ daemon' = "dead"
  /\ TasksGone
  /\ UNCHANGED <<maps, kernel, idle>>

\* The client disconnects while its handler awaits.  action_start never awaits.
Cancel(h) ==
  /\ Cancellable
  /\ pc[h] \in {"insert", "grace", "killwait", "rmdir"}
  /\ Finish(h)
  /\ UNCHANGED <<daemon, maps, kernel, idle>>
----------------------------------------------------------------------------
Request(h) ==
  \E s \in Sessions :
    \/ CreateDir(h, s) \/ OtherRequest(h)
    \/ StartRequest(h, s) \/ DeleteRequest(h, s)
    \/ \E p \in Procs : SignalRequest(h, s, p) \/ StopRequest(h, s, p)

HandlerStep(h) ==
  \/ InsertSession(h) \/ CapCheck(h) \/ Spawn(h) \/ Attach(h) \/ Track(h)

ReapStep(x) ==
  \/ Snapshot(x) \/ NextHandle(x) \/ Term(x) \/ GraceOver(x) \/ KillWaitOver(x)
  \/ Clear(x) \/ Rmdir(x) \/ CleanupCgroup(x)

Next ==
  \/ \E h \in Handlers : Request(h) \/ HandlerStep(h) \/ Cancel(h)
  \/ \E x \in Actors : ReapStep(x) \/ Visit(x)
  \/ ReaperScan \/ ReaperDone \/ Sigint \/ DrainDone \/ ExitDaemon \/ Sigterm
  \/ \E s \in Sessions : TimePasses(s)
  \/ \E p \in Procs : Exit(p) \/ WaitTask(p)

Spec == Init /\ [][Next]_vars

\* The runtime schedules every ready task and a grace period ends; a process
\* that was sent SIGKILL exits.  Nothing else is sure to happen.  (The reaper
\* ticks before there was a session as well, and finds nothing.)
Fairness ==
  /\ \A h \in Handlers : WF_vars(HandlerStep(h))
  /\ \A x \in Actors : WF_vars(ReapStep(x) \/ Visit(x))
  /\ \A p \in Procs : WF_vars(os[p] = "killed" /\ Exit(p)) /\ WF_vars(WaitTask(p))
  /\ WF_vars(used # {} /\ ReaperScan) /\ WF_vars(ReaperDone)
  /\ WF_vars(DrainDone) /\ WF_vars(ExitDaemon)
----------------------------------------------------------------------------
\* Starts of session s that have passed the cap check and are not yet counted.
InFlight(s) == {h \in Handlers : pc[h] \in StartPC /\ sess[h] = s}

\* action_start checks the cap long before it inserts the handle, so concurrent
\* starts overshoot it, but by no more than one process for every handler but one.
CapBound ==
  \A s \in Sessions : Cardinality(procs[s]) <= MaxPerSession + Cardinality(Handlers) - 1

\* DELETE, the reaper and the drain may pick the same session; DashMap::remove
\* lets only one of them terminate its processes and remove its directory.
OneReaper ==
  \A x, y \in Actors :
    x # y /\ pc[x] \in ReapPC /\ pc[y] \in ReapPC /\ sess[x] # NoSession => sess[x] # sess[y]

\* A session that requests can still reach has its directory: create_session
\* makes it first, and everybody who removes it took the session out before.
LiveHasDir == sessions \subseteq dirs

\* The processes still running of a session that has left the map and that no
\* actor is working on: nothing will terminate them while the daemon lives.
Busy(s) == \E x \in Actors : sess[x] = s
Orphans(s) == {p \in Procs : home[p] = s /\ os[p] = "running"}

\* "A process cannot outlive the session that owns it": once DELETE, the reaper
\* or the drain is done with a session, none of its processes runs unsignalled.
ProcessWithinSession ==
  \A s \in used \ sessions : ~Busy(s) => Orphans(s) = {}

\* DELETE on a session with stubborn processes still comes to an end, whether
\* they obey SIGTERM or not (terminate_handle's two timeouts).
ReapEnds == \A x \in Actors : pc[x] \in ReapPC ~> pc[x] \notin ReapPC

\* A process that a reap has found in the map is gone in the end, even one that
\* ignores SIGTERM, and even if the daemon exits in the middle of the reap.
ReapedProcessEnds ==
  \A x \in Actors, p \in Procs : p \in todo[x] ~> os[p] = "exited"

\* A session nobody uses any more is evicted ("abandoned sessions -- and the
\* processes they own -- do not survive forever", spawn_idle_reaper).
AbandonedEvicted == \A s \in Sessions : ~<>[](Alive /\ s \in sessions /\ s \in idle)

\* SIGINT ends the daemon although requests keep arriving while it drains, and
\* in the end no child is left: kill_on_drop takes those the drain has missed.
ShutdownReaps ==
  daemon = "draining" ~> daemon = "exited" /\ \A p \in Procs : os[p] \in {"none", "exited"}
=============================================================================
