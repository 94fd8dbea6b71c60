----------------------- MODULE SessionProcessesProofs -----------------------
(***************************************************************************)
(* Proofs about SessionProcesses for any number of sessions, processes and *)
(* request handlers: type correctness, that concurrent deletes, the idle   *)
(* reaper and the shutdown drain never work on the same session, that a    *)
(* session requests can reach has its directory, and how far concurrent    *)
(* starts can overshoot the process cap.                                   *)
(***************************************************************************)
EXTENDS SessionProcesses, FiniteSetTheorems, TLAPS

\* The locals of a handler that answers, or of the reaper that goes on.
LEMMA FinishTypes ==
  ASSUME TypeOK, NEW x \in Actors, Finish(x)
  PROVE  /\ pc' \in [Actors -> PC]
         /\ sess' \in [Actors -> Sessions \union {NoSession}]
         /\ cur' \in [Actors -> Procs \union {NoProc}]
         /\ todo' \in [Actors -> SUBSET Procs]
         /\ batch' \in [Actors -> SUBSET Sessions]
         /\ \A y \in Actors :
              /\ pc'[y] \in StartPC \union {"insert", "cap", "snapshot", "clear", "rmdir", "cgroup"}
                   => sess'[y] \in Sessions
              /\ pc'[y] \in {"attach", "track", "term", "grace"} => cur'[y] \in Procs
BY DEF TypeOK, Finish, Goto, PC, StartPC, ReapPC

\* A handler that answers is idle again, and nobody else is disturbed.
LEMMA FinishFrame ==
  ASSUME TypeOK, NEW x \in Actors, Finish(x)
  PROVE  /\ pc'[x] \in {"idle", "batch"} /\ sess'[x] = NoSession
         /\ \A y \in Actors \ {x} : pc'[y] = pc[y] /\ sess'[y] = sess[y]
BY DEF TypeOK, Finish, Goto

\* The requests, up to the point where the handler has something to wait for.
LEMMA RequestTypes ==
  ASSUME TypeOK, NEW h \in Handlers, Request(h)
  PROVE  TypeOK'
<1>. USE TypeOK DEF Actors
<1>1. ASSUME NEW s \in Sessions, CreateDir(h, s)
      PROVE  TypeOK'
  BY <1>1 DEF TypeOK, CreateDir, Goto, PC, StartPC, kernel
<1>2. CASE OtherRequest(h)
  BY <1>2 DEF TypeOK, OtherRequest, vars
<1>3. ASSUME NEW s \in Sessions, StartRequest(h, s)
      PROVE  TypeOK'
  BY <1>3 DEF TypeOK, StartRequest, ResolveAndTouch, Goto, PC, StartPC, maps, kernel
<1>4. ASSUME NEW s \in Sessions, DeleteRequest(h, s)
      PROVE  TypeOK'
  BY <1>4 DEF TypeOK, DeleteRequest, TakeSession, Goto, PC, ReapPC, kernel
<1>5. ASSUME NEW s \in Sessions, NEW p \in Procs, SignalRequest(h, s, p)
      PROVE  TypeOK'
  BY <1>5 DEF TypeOK, SignalRequest, ResolveAndTouch, Killed, maps, locals
<1>6. ASSUME NEW s \in Sessions, NEW p \in Procs, StopRequest(h, s, p)
      PROVE  TypeOK'
  BY <1>6 DEF TypeOK, StopRequest, ResolveAndTouch, Goto, PC, StartPC, ReapPC, maps, kernel
<1>. QED BY <1>1, <1>2, <1>3, <1>4, <1>5, <1>6 DEF Request

\* The steps of create_session and action_start.
LEMMA HandlerStepTypes ==
  ASSUME TypeOK, NEW h \in Handlers, HandlerStep(h)
  PROVE  TypeOK'
<1>. USE TypeOK
<1>0. h \in Actors
  BY DEF Actors
<1>1. CASE InsertSession(h)
  BY <1>0, <1>1, FinishTypes DEF TypeOK, InsertSession, kernel
<1>2. CASE CapCheck(h)
  <2>1. CASE Finish(h)
    BY <1>0, <1>2, <2>1, FinishTypes DEF TypeOK, CapCheck, maps, kernel
  <2>2. CASE ~ Finish(h)
    BY <1>0, <1>2, <2>2 DEF TypeOK, CapCheck, Goto, PC, StartPC, maps, kernel, locals
  <2>. QED BY <2>1, <2>2
<1>3. CASE Spawn(h)
  <2>1. CASE Finish(h)
    <3>1. UNCHANGED kernel
      BY <1>0, <1>3, <2>1 DEF Spawn, Finish, Goto, TypeOK
    <3>. QED BY <1>0, <1>3, <2>1, <3>1, FinishTypes DEF TypeOK, Spawn, maps, kernel
  <2>2. CASE ~ Finish(h)
    <3>1. PICK p \in Procs :
            /\ os' = [os EXCEPT ![p] = "running"]
            /\ running' = [running EXCEPT ![p] = TRUE]
            /\ home' = [home EXCEPT ![p] = sess[h]]
            /\ cur' = [cur EXCEPT ![h] = p]
            /\ pc' = [pc EXCEPT ![h] = "attach"]
            /\ UNCHANGED <<jailed, sess, todo, batch>>
      BY <1>3, <2>2 DEF Spawn, Goto
    <3>2. sess[h] \in Sessions
      BY <1>0, <1>3 DEF TypeOK, Spawn, StartPC
    <3>3. os' \in [Procs -> {"none", "running", "killed", "exited"}]
      BY <3>1 DEF TypeOK
    <3>4. /\ home' \in [Procs -> Sessions \union {NoSession}]
          /\ running' \in [Procs -> BOOLEAN]
      BY <3>1, <3>2 DEF TypeOK
    <3>5. UNCHANGED <<daemon, maps, idle>>
      BY <1>3 DEF Spawn
    <3>. QED BY <1>0, <3>1, <3>2, <3>3, <3>4, <3>5 DEF TypeOK, PC, StartPC, maps
  <2>. QED BY <2>1, <2>2
<1>4. CASE Attach(h)
  BY <1>0, <1>4 DEF TypeOK, Attach, Goto, PC, StartPC, maps, locals
<1>5. CASE Track(h)
  BY <1>0, <1>5, FinishTypes DEF TypeOK, Track, kernel
<1>. QED BY <1>1, <1>2, <1>3, <1>4, <1>5 DEF HandlerStep

\* The steps of reap_session_processes and of what follows it.
LEMMA ReapStepTypes ==
  ASSUME TypeOK, NEW x \in Actors, ReapStep(x)
  PROVE  TypeOK'
<1>. USE TypeOK
<1>1. CASE Snapshot(x)
  BY <1>1 DEF TypeOK, Snapshot, Goto, PC, ReapPC, StartPC, maps, kernel
<1>2. CASE NextHandle(x)
  <2>1. CASE Finish(x)
    BY <1>2, <2>1, FinishTypes DEF TypeOK, NextHandle, maps, kernel
  <2>2. CASE ~ Finish(x)
    BY <1>2, <2>2 DEF TypeOK, NextHandle, Goto, PC, ReapPC, StartPC, maps, kernel, locals
  <2>. QED BY <2>1, <2>2
<1>3. CASE Term(x)
  BY <1>3 DEF TypeOK, Term, Goto, PC, ReapPC, StartPC, maps, kernel, locals
<1>4. CASE GraceOver(x)
  BY <1>4 DEF TypeOK, GraceOver, Killed, Goto, PC, ReapPC, StartPC, maps, locals
<1>5. CASE KillWaitOver(x)
  BY <1>5 DEF TypeOK, KillWaitOver, Goto, PC, ReapPC, StartPC, maps, kernel, locals
<1>6. CASE Clear(x)
  <2>1. CASE Finish(x)
    BY <1>6, <2>1, FinishTypes DEF TypeOK, Clear, kernel
  <2>2. CASE ~ Finish(x)
    BY <1>6, <2>2 DEF TypeOK, Clear, Goto, PC, ReapPC, StartPC, kernel, locals
  <2>. QED BY <2>1, <2>2
<1>7. CASE Rmdir(x)
  BY <1>7 DEF TypeOK, Rmdir, Goto, PC, ReapPC, StartPC, kernel, locals
<1>8. CASE CleanupCgroup(x)
  BY <1>8, FinishTypes DEF TypeOK, CleanupCgroup, Killed
<1>. QED BY <1>1, <1>2, <1>3, <1>4, <1>5, <1>6, <1>7, <1>8 DEF ReapStep

\* The daemon's variables keep their types; a handler that starts or reaps
\* always knows the session, and one that terminates a process knows which.
THEOREM TypeCorrect == Spec => []TypeOK
<1>1. Init => TypeOK
  BY DEF Init, TypeOK, PC, StartPC, ReapPC
<1>2. ASSUME TypeOK, [Next]_vars
      PROVE  TypeOK'
  <2>. USE TypeOK
  <2>0. Reaper \in Actors /\ Drainer \in Actors /\ Handlers \subseteq Actors
    BY DEF Actors
  <2>1. ASSUME NEW h \in Handlers, Cancel(h)
        PROVE  TypeOK'
    BY <2>0, <2>1, FinishTypes DEF TypeOK, Cancel, maps, kernel
  <2>2. ASSUME NEW x \in Actors, Visit(x)
        PROVE  TypeOK'
    BY <2>2 DEF TypeOK, Visit, TakeSession, Goto, PC, ReapPC, StartPC, kernel
  <2>3. CASE ReaperScan
    BY <2>0, <2>3 DEF TypeOK, ReaperScan, Goto, PC, StartPC, maps, kernel
  <2>4. CASE ReaperDone
    BY <2>0, <2>4 DEF TypeOK, ReaperDone, Goto, PC, StartPC, maps, kernel, locals
  <2>5. CASE Sigint
    BY <2>0, <2>5 DEF TypeOK, Sigint, Goto, PC, StartPC, maps, kernel
  <2>6. CASE DrainDone
    BY <2>0, <2>6 DEF TypeOK, DrainDone, Goto, PC, StartPC, maps, kernel, locals
  <2>7. CASE ExitDaemon
    BY <2>7 DEF TypeOK, ExitDaemon, TasksGone, Killed, PC, StartPC, maps
  <2>8. CASE Sigterm
    BY <2>8 DEF TypeOK, Sigterm, TasksGone, PC, StartPC, maps, kernel
  <2>9. ASSUME NEW s \in Sessions, TimePasses(s)
        PROVE  TypeOK'
    BY <2>9 DEF TypeOK, TimePasses, maps, kernel, locals
  <2>10. ASSUME NEW p \in Procs, Exit(p) \/ WaitTask(p)
         PROVE  TypeOK'
    BY <2>10 DEF TypeOK, Exit, WaitTask, maps, locals
  <2>11. CASE UNCHANGED vars
    BY <2>11 DEF TypeOK, vars
  <2>. QED
    BY <1>2, <2>1, <2>2, <2>3, <2>4, <2>5, <2>6, <2>7, <2>8, <2>9, <2>10, <2>11,
       RequestTypes, HandlerStepTypes, ReapStepTypes DEF Next
<1>. QED BY <1>1, <1>2, PTL DEF Spec
----------------------------------------------------------------------------
\* The strengthening of OneReaper and LiveHasDir: who holds which session, and
\* that a session being created is known to nobody else.
Exclusive ==
  /\ sessions \subseteq used
  /\ sessions \subseteq dirs
  /\ \A x \in Actors :
       /\ sess[x] \in used \union {NoSession}
       /\ pc[x] \in {"idle", "batch"} => sess[x] = NoSession
       /\ pc[x] \in ReapPC => sess[x] \notin sessions
       /\ pc[x] = "insert" =>
            /\ sess[x] \in dirs \ sessions
            /\ \A y \in Actors \ {x} : sess[y] # sess[x]
  /\ OneReaper

\* A step that changes no shared map and leaves the actors where they are, or
\* moves one of them inside the reap, keeps who holds what.
LEMMA ReapingMovesKeepExclusive ==
  ASSUME TypeOK, Exclusive, NEW x \in Actors, pc[x] \in ReapPC,
         NEW label \in ReapPC, pc' = [pc EXCEPT ![x] = label],
         UNCHANGED <<sessions, used, sess>>,
         dirs' = dirs \/ dirs' = dirs \ {sess[x]}
  PROVE  Exclusive'
<1>1. sess[x] \notin sessions /\ pc[x] # "insert"
  BY DEF Exclusive, ReapPC
<1>2. label \notin {"idle", "batch", "insert"}
  BY DEF ReapPC
<1>3. OneReaper'
  BY DEF Exclusive, OneReaper, TypeOK
<1>4. (sessions \subseteq dirs)'
  BY <1>1 DEF Exclusive
<1>5. ASSUME NEW y \in Actors, pc'[y] = "insert"
      PROVE  sess[y] \in dirs' \ sessions /\ \A z \in Actors \ {y} : sess[z] # sess[y]
  <2>1. y # x /\ pc[y] = "insert"
    BY <1>2, <1>5 DEF TypeOK
  <2>. QED BY <2>1 DEF Exclusive
<1>. QED BY <1>1, <1>2, <1>3, <1>4, <1>5 DEF Exclusive, TypeOK

\* An actor that is done with its session lets go of it.
LEMMA FinishKeepsExclusive ==
  ASSUME TypeOK, Exclusive, NEW x \in Actors, Finish(x),
         UNCHANGED <<sessions, used, dirs>>
  PROVE  Exclusive'
<1>1. OneReaper'
  BY FinishFrame DEF Exclusive, OneReaper, ReapPC
<1>2. \A y \in Actors :
        pc'[y] = "insert" => y # x /\ pc[y] = "insert" /\ sess'[y] = sess[y]
  BY FinishFrame
<1>3. NoSession \notin Sessions /\ dirs \subseteq Sessions
  BY SessionAssumption DEF SessionAssumption, TypeOK
<1>. QED BY <1>1, <1>2, <1>3, FinishFrame DEF Exclusive, ReapPC

\* Only one actor gets a session out of the map.
LEMMA TakeKeepsExclusive ==
  ASSUME TypeOK, Exclusive, NEW x \in Actors, pc[x] \in {"idle", "batch"},
         NEW s \in Sessions, TakeSession(x, s), UNCHANGED <<used, dirs>>
  PROVE  Exclusive'
<1>1. /\ s \in sessions /\ s # NoSession
      /\ sessions' = sessions \ {s}
      /\ pc'[x] = "snapshot" /\ sess'[x] = s
      /\ \A y \in Actors \ {x} : pc'[y] = pc[y] /\ sess'[y] = sess[y]
  BY SessionAssumption DEF TakeSession, Goto, TypeOK, SessionAssumption
<1>2. \A y \in Actors : pc[y] \in ReapPC \union {"insert"} => sess[y] # s
  BY <1>1 DEF Exclusive
<1>3. OneReaper'
  BY <1>1, <1>2 DEF Exclusive, OneReaper
<1>4. ASSUME NEW y \in Actors, pc'[y] = "insert"
      PROVE  sess'[y] \in dirs \ sessions' /\ \A z \in Actors \ {y} : sess'[z] # sess'[y]
  BY <1>1, <1>2, <1>4 DEF Exclusive
<1>. QED BY <1>1, <1>3, <1>4 DEF Exclusive, ReapPC

\* Requests and the steps of create_session and action_start.
LEMMA HandlersKeepExclusive ==
  ASSUME TypeOK, Exclusive, NEW h \in Handlers, Request(h) \/ HandlerStep(h)
  PROVE  Exclusive'
<1>. USE TypeOK, Exclusive
<1>0. h \in Actors /\ NoSession \notin Sessions
  BY SessionAssumption DEF Actors, SessionAssumption
<1>1. ASSUME NEW s \in Sessions, CreateDir(h, s)
      PROVE  Exclusive'
  <2>1. /\ pc[h] = "idle" /\ s \notin used /\ s \notin sessions
        /\ sessions' = sessions /\ used' = used \union {s} /\ dirs' = dirs \union {s}
        /\ pc'[h] = "insert" /\ sess'[h] = s
        /\ \A y \in Actors \ {h} : pc'[y] = pc[y] /\ sess'[y] = sess[y]
    BY <1>0, <1>1 DEF CreateDir, Accepts, Goto, TypeOK, Exclusive
  <2>2. \A y \in Actors : sess[y] # s
    BY <1>0, <2>1 DEF Exclusive
  <2>3. OneReaper'
    BY <2>1 DEF Exclusive, OneReaper, ReapPC
  <2>4. ASSUME NEW y \in Actors, pc'[y] = "insert"
        PROVE  sess'[y] \in dirs' \ sessions' /\ \A z \in Actors \ {y} : sess'[z] # sess'[y]
    BY <2>1, <2>2, <2>4 DEF Exclusive
  <2>. QED BY <2>1, <2>3, <2>4 DEF Exclusive, ReapPC
<1>2. CASE InsertSession(h)
  <2>1. /\ pc[h] = "insert" /\ Finish(h) /\ UNCHANGED <<used, dirs>>
        /\ sess[h] \in dirs /\ sess[h] \in used
        /\ sessions' = sessions \union {sess[h]}
    BY <1>0, <1>2 DEF InsertSession, Exclusive, TypeOK
  <2>2. \A y \in Actors \ {h} : sess[y] # sess[h]
    BY <1>0, <2>1 DEF Exclusive
  <2>3. OneReaper'
    BY <1>0, <2>1, FinishFrame DEF Exclusive, OneReaper, ReapPC
  <2>4. ASSUME NEW y \in Actors, pc'[y] = "insert"
        PROVE  sess'[y] \in dirs' \ sessions' /\ \A z \in Actors \ {y} : sess'[z] # sess'[y]
    <3>1. y # h /\ pc[y] = "insert" /\ sess'[y] = sess[y]
      BY <1>0, <2>1, <2>4, FinishFrame
    <3>2. sess[y] # NoSession
      BY <1>0, <3>1 DEF TypeOK
    <3>. QED BY <1>0, <2>1, <2>2, <3>1, <3>2, FinishFrame DEF Exclusive
  <2>. QED BY <1>0, <2>1, <2>2, <2>3, <2>4, FinishFrame DEF Exclusive, ReapPC
<1>3. ASSUME NEW s \in Sessions, StartRequest(h, s)
      PROVE  Exclusive'
  <2>1. /\ s \in sessions /\ UNCHANGED <<sessions, used, dirs>>
        /\ pc'[h] = "cap" /\ sess'[h] = s
        /\ \A y \in Actors \ {h} : pc'[y] = pc[y] /\ sess'[y] = sess[y]
    BY <1>0, <1>3 DEF StartRequest, ResolveAndTouch, Goto, TypeOK, maps
  <2>2. OneReaper'
    BY <2>1 DEF Exclusive, OneReaper, ReapPC
  <2>3. ASSUME NEW y \in Actors, pc'[y] = "insert"
        PROVE  sess'[y] \in dirs \ sessions /\ \A z \in Actors \ {y} : sess'[z] # sess'[y]
    BY <2>1, <2>3 DEF Exclusive
  <2>. QED BY <2>1, <2>2, <2>3 DEF Exclusive, ReapPC
<1>4. ASSUME NEW s \in Sessions, NEW p \in Procs, StopRequest(h, s, p)
      PROVE  Exclusive'
  <2>1. /\ pc[h] = "idle" /\ UNCHANGED <<sessions, used, dirs, sess>>
        /\ pc'[h] = "term" /\ sess[h] = NoSession
        /\ \A y \in Actors \ {h} : pc'[y] = pc[y]
    BY <1>0, <1>4 DEF StopRequest, Accepts, Goto, TypeOK, Exclusive, maps
  <2>2. NoSession \notin sessions
    BY <1>0 DEF TypeOK
  <2>3. OneReaper'
    BY <2>1 DEF Exclusive, OneReaper
  <2>. QED BY <2>1, <2>2, <2>3 DEF Exclusive
<1>5. ASSUME NEW s \in Sessions, DeleteRequest(h, s)
      PROVE  Exclusive'
  BY <1>0, <1>5, TakeKeepsExclusive DEF DeleteRequest, Accepts
<1>6. CASE OtherRequest(h)
  BY <1>6 DEF OtherRequest, vars, maps, locals, Exclusive, OneReaper
<1>7. ASSUME NEW s \in Sessions, NEW p \in Procs, SignalRequest(h, s, p)
      PROVE  Exclusive'
  BY <1>7 DEF SignalRequest, maps, locals, Exclusive, OneReaper
<1>8. CASE /\ pc[h] \in {"cap", "spawn", "attach"} /\ UNCHANGED <<sessions, used, dirs, sess>>
           /\ \E label \in StartPC : pc' = [pc EXCEPT ![h] = label]
  <2>1. /\ pc'[h] \in StartPC
        /\ \A y \in Actors \ {h} : pc'[y] = pc[y]
    BY <1>0, <1>8 DEF TypeOK
  <2>. QED BY <1>0, <1>8, <2>1 DEF Exclusive, OneReaper, StartPC, ReapPC
<1>9. CASE Finish(h) /\ UNCHANGED <<sessions, used, dirs>>
  BY <1>0, <1>9, FinishKeepsExclusive
<1>10. ASSUME CapCheck(h) \/ Spawn(h) \/ Attach(h) \/ Track(h)
       PROVE  Exclusive'
  BY <1>8, <1>9, <1>10 DEF CapCheck, Spawn, Attach, Track, Goto, StartPC, maps, locals
<1>. QED BY <1>1, <1>2, <1>3, <1>4, <1>5, <1>6, <1>7, <1>10 DEF Request, HandlerStep

\* The steps of a reap.
LEMMA ReapStepKeepsExclusive ==
  ASSUME TypeOK, Exclusive, NEW x \in Actors, ReapStep(x)
  PROVE  Exclusive'
<1>. USE TypeOK, Exclusive
<1>1. CASE Finish(x) /\ UNCHANGED <<sessions, used, dirs>>
  BY <1>1, FinishKeepsExclusive
<1>2. ASSUME Snapshot(x) \/ NextHandle(x) \/ Term(x) \/ GraceOver(x) \/ KillWaitOver(x)
             \/ Clear(x) \/ Rmdir(x),
             ~ Finish(x)
      PROVE  /\ pc[x] \in ReapPC
             /\ \E label \in ReapPC : pc' = [pc EXCEPT ![x] = label]
             /\ UNCHANGED <<sessions, used, sess>>
             /\ dirs' = dirs \/ dirs' = dirs \ {sess[x]}
  BY <1>2 DEF Snapshot, NextHandle, Term, GraceOver, KillWaitOver, Clear, Rmdir,
     Goto, ReapPC, maps, locals
<1>3. ASSUME ReapStep(x), Finish(x)
      PROVE  UNCHANGED <<sessions, used, dirs>>
  <2>1. pc'[x] \in {"idle", "batch"}
    BY <1>3, FinishFrame
  <2>. QED
    BY <1>3, <2>1 DEF ReapStep, Snapshot, NextHandle, Term, GraceOver, KillWaitOver,
       Clear, Rmdir, CleanupCgroup, Goto, TypeOK, maps
<1>. QED
  BY <1>1, <1>2, <1>3, ReapingMovesKeepExclusive DEF ReapStep, CleanupCgroup

\* The drain runs once: before the signal the shutdown future only waits.
DrainerIdle == daemon = "up" => pc[Drainer] = "idle"

LEMMA DrainerIdleStep ==
  ASSUME TypeOK, DrainerIdle, [Next]_vars
  PROVE  DrainerIdle'
<1>. USE TypeOK, DrainerIdle DEF DrainerIdle
<1>0. /\ Reaper # Drainer /\ Drainer \notin Handlers
      /\ Reaper \in Actors /\ Drainer \in Actors /\ Handlers \subseteq Actors
  BY SessionAssumption DEF Actors, SessionAssumption
<1>1. ASSUME NEW x \in Actors \ {Drainer}, Finish(x) \/ \E label \in PC : Goto(x, label)
      PROVE  pc'[Drainer] = pc[Drainer]
  BY <1>0, <1>1 DEF Finish, Goto, TypeOK
<1>2. ASSUME NEW h \in Handlers, Request(h)
      PROVE  DrainerIdle'
  BY <1>0, <1>1, <1>2 DEF Request, CreateDir, OtherRequest, StartRequest,
     DeleteRequest, TakeSession, SignalRequest, StopRequest, PC, StartPC, ReapPC, vars, locals
<1>3. ASSUME NEW h \in Handlers, HandlerStep(h) \/ Cancel(h)
      PROVE  DrainerIdle'
  BY <1>0, <1>1, <1>3 DEF HandlerStep, InsertSession, CapCheck, Spawn, Attach, Track, Cancel,
     PC, StartPC, locals
<1>4. ASSUME NEW x \in Actors, ReapStep(x) \/ Visit(x)
      PROVE  DrainerIdle'
  <2>1. daemon' = daemon /\ pc[x] # "idle"
    BY <1>4 DEF ReapStep, Snapshot, NextHandle, Term, GraceOver, KillWaitOver, Clear,
       Rmdir, CleanupCgroup, Visit
  <2>2. pc'[Drainer] = pc[Drainer] \/ x = Drainer
    BY <1>0, <1>4 DEF ReapStep, Snapshot, NextHandle, Term, GraceOver, KillWaitOver, Clear,
       Rmdir, CleanupCgroup, Visit, TakeSession, Finish, Goto, TypeOK, locals
  <2>. QED BY <2>1, <2>2
<1>5. CASE ReaperScan \/ ReaperDone
  BY <1>0, <1>5 DEF ReaperScan, ReaperDone, Goto, TypeOK
<1>6. CASE Sigint \/ DrainDone \/ ExitDaemon \/ Sigterm
  BY <1>0, <1>6 DEF Sigint, DrainDone, ExitDaemon, Sigterm
<1>7. CASE UNCHANGED vars
  BY <1>7 DEF vars
<1>8. ASSUME NEW s \in Sessions, TimePasses(s)
      PROVE  DrainerIdle'
  BY <1>8 DEF TimePasses
<1>9. ASSUME NEW p \in Procs, Exit(p) \/ WaitTask(p)
      PROVE  DrainerIdle'
  BY <1>9 DEF Exit, WaitTask
<1>. QED BY <1>2, <1>3, <1>4, <1>5, <1>6, <1>7, <1>8, <1>9 DEF Next

\* Every other step.
LEMMA ExclusiveStep ==
  ASSUME TypeOK, Exclusive, DrainerIdle, [Next]_vars
  PROVE  Exclusive'
<1>. USE TypeOK, Exclusive, DrainerIdle
<1>0. Reaper \in Actors /\ Drainer \in Actors /\ Handlers \subseteq Actors
  BY DEF Actors
<1>1. ASSUME NEW h \in Handlers, Cancel(h)
      PROVE  Exclusive'
  BY <1>0, <1>1, FinishKeepsExclusive DEF Cancel, maps
<1>2. ASSUME NEW x \in Actors, Visit(x)
      PROVE  Exclusive'
  <2>1. PICK s \in batch[x] : \/ TakeSession(x, s)
                              \/ s \notin sessions /\ UNCHANGED <<sessions, sess, pc>>
    BY <1>2 DEF Visit
  <2>2. pc[x] = "batch" /\ s \in Sessions /\ UNCHANGED <<used, dirs>>
    BY <1>2, <2>1 DEF Visit, TypeOK
  <2>3. CASE UNCHANGED <<sessions, sess, pc>>
    BY <2>2, <2>3 DEF Exclusive, OneReaper
  <2>. QED BY <2>1, <2>2, <2>3, TakeKeepsExclusive
<1>3. ASSUME NEW x \in Actors, NEW label \in {"idle", "batch"}, pc[x] \in {"idle", "batch"},
             pc' = [pc EXCEPT ![x] = label], UNCHANGED <<sessions, used, dirs, sess>>
      PROVE  Exclusive'
  BY <1>3 DEF Exclusive, OneReaper, ReapPC, TypeOK
<1>4. CASE ReaperScan
  BY <1>0, <1>3, <1>4 DEF ReaperScan, Goto, maps
<1>5. CASE ReaperDone
  BY <1>0, <1>3, <1>5 DEF ReaperDone, Goto, maps, locals
<1>6. CASE DrainDone
  BY <1>0, <1>3, <1>6 DEF DrainDone, Goto, maps, locals
<1>7. CASE Sigint
  BY <1>0, <1>3, <1>7 DEF Sigint, Goto, maps, DrainerIdle
<1>8. CASE ExitDaemon \/ Sigterm
  BY <1>8 DEF ExitDaemon, Sigterm, TasksGone, Exclusive, OneReaper, ReapPC, maps
<1>9. ASSUME NEW s \in Sessions, TimePasses(s)
      PROVE  Exclusive'
  BY <1>9 DEF TimePasses, maps, locals, Exclusive, OneReaper
<1>10. ASSUME NEW p \in Procs, Exit(p) \/ WaitTask(p)
       PROVE  Exclusive'
  BY <1>10 DEF Exit, WaitTask, maps, locals, Exclusive, OneReaper
<1>11. CASE UNCHANGED vars
  BY <1>11 DEF vars, Exclusive, OneReaper
<1>. QED
  BY <1>1, <1>2, <1>4, <1>5, <1>6, <1>7, <1>8, <1>9, <1>10, <1>11,
     HandlersKeepExclusive, ReapStepKeepsExclusive DEF Next

\* The inductive invariant holds throughout.
LEMMA ExclusiveAlways == Spec => []Exclusive
<1>1. Init => Exclusive /\ DrainerIdle
  BY DEF Init, Exclusive, DrainerIdle, OneReaper, Actors, ReapPC
<1>2. TypeOK /\ Exclusive /\ DrainerIdle /\ [Next]_vars => Exclusive' /\ DrainerIdle'
  BY ExclusiveStep, DrainerIdleStep
<1>. QED BY <1>1, <1>2, TypeCorrect, PTL DEF Spec

\* DELETE requests, the idle reaper and the shutdown drain never terminate or
\* clean up the same session, however they race for it (DashMap::remove).
THEOREM SessionsReapedOnce == Spec => []OneReaper
<1>1. Exclusive => OneReaper
  BY DEF Exclusive
<1>. QED BY <1>1, ExclusiveAlways, PTL

\* A session that a request can still resolve has its directory on disk: it is
\* made before the session is entered and removed only by who took it out.
THEOREM LiveSessionHasDir == Spec => []LiveHasDir
<1>1. Exclusive => LiveHasDir
  BY DEF Exclusive, LiveHasDir
<1>. QED BY <1>1, ExclusiveAlways, PTL
----------------------------------------------------------------------------
\* The strengthening of CapBound: tracked processes and starts that have passed
\* the cap check, together.
SlotInv ==
  \A s \in Sessions :
    /\ IsFiniteSet(procs[s])
    /\ Cardinality(procs[s]) + Cardinality(InFlight(s)) <= MaxPerSession + Cardinality(Handlers) - 1

\* The starts in flight are no more than the handlers.
LEMMA InFlightBounded ==
  ASSUME NEW S \in SUBSET Handlers
  PROVE  /\ IsFiniteSet(S) /\ Cardinality(S) \in Nat
         /\ Cardinality(S) <= Cardinality(Handlers)
         /\ Cardinality(Handlers) \in Nat /\ Cardinality(Handlers) >= 1
<1>1. IsFiniteSet(Handlers) /\ Cardinality(Handlers) \in Nat
  BY SessionAssumption, FS_CardinalityType DEF SessionAssumption
<1>2. Cardinality(Handlers) # 0
  BY <1>1, FS_EmptySet, SessionAssumption DEF SessionAssumption
<1>. QED BY <1>1, <1>2, FS_Subset, FS_CardinalityType

\* A step that neither starts nor tracks a process of s keeps its bound.
LEMMA FewerSlots ==
  ASSUME SlotInv, NEW s \in Sessions,
         procs'[s] \subseteq procs[s], InFlight(s)' \subseteq InFlight(s)
  PROVE  /\ IsFiniteSet(procs'[s])
         /\ Cardinality(procs'[s]) + Cardinality(InFlight(s)')
              <= MaxPerSession + Cardinality(Handlers) - 1
<1>1. /\ IsFiniteSet(procs'[s]) /\ Cardinality(procs'[s]) <= Cardinality(procs[s])
      /\ Cardinality(procs'[s]) \in Nat /\ Cardinality(procs[s]) \in Nat
  BY FS_Subset, FS_CardinalityType DEF SlotInv
<1>2. InFlight(s) \subseteq Handlers
  BY DEF InFlight
<1>3. /\ Cardinality(InFlight(s)') <= Cardinality(InFlight(s))
      /\ Cardinality(InFlight(s)') \in Nat /\ Cardinality(InFlight(s)) \in Nat
      /\ Cardinality(Handlers) \in Nat
  BY <1>2, InFlightBounded, FS_Subset, FS_CardinalityType
<1>. HIDE DEF InFlight
<1>. QED BY <1>1, <1>3, SessionAssumption DEF SlotInv, SessionAssumption

\* Only the cap check lets a start through, and only a start adds a process.
LEMMA OnlyStartsAddSlots ==
  ASSUME TypeOK, [Next]_vars, NEW s \in Sessions,
         \A h \in Handlers : ~ CapCheck(h) /\ ~ Track(h)
  PROVE  procs'[s] \subseteq procs[s] /\ InFlight(s)' \subseteq InFlight(s)
<1>. USE TypeOK DEF InFlight
<1>0. Reaper \in Actors /\ Drainer \in Actors /\ Handlers \subseteq Actors
  BY DEF Actors
<1>1. ASSUME NEW h \in Handlers, Request(h)
      PROVE  procs'[s] \subseteq procs[s] /\ InFlight(s)' \subseteq InFlight(s)
  BY <1>0, <1>1 DEF TypeOK, Request, CreateDir, OtherRequest, StartRequest,
     DeleteRequest, TakeSession, SignalRequest, StopRequest, Goto, StartPC, vars, maps, locals
<1>2. ASSUME NEW h \in Handlers, InsertSession(h) \/ Cancel(h)
      PROVE  procs'[s] \subseteq procs[s] /\ InFlight(s)' \subseteq InFlight(s)
  BY <1>0, <1>2, FinishFrame DEF InsertSession, Cancel, StartPC, maps
<1>3. ASSUME NEW h \in Handlers, Spawn(h) \/ Attach(h)
      PROVE  procs'[s] \subseteq procs[s] /\ InFlight(s)' \subseteq InFlight(s)
  BY <1>0, <1>3 DEF TypeOK, Spawn, Attach, Finish, Goto, StartPC, maps, locals
<1>4. ASSUME NEW x \in Actors, ReapStep(x) \/ Visit(x)
      PROVE  procs'[s] \subseteq procs[s] /\ InFlight(s)' \subseteq InFlight(s)
  <2>1. procs'[s] \subseteq procs[s]
    BY <1>4 DEF TypeOK, ReapStep, Snapshot, NextHandle, Term, GraceOver, KillWaitOver,
       Clear, Rmdir, CleanupCgroup, Visit, maps
  <2>2. pc'[x] \notin StartPC /\ \A y \in Actors \ {x} : pc'[y] = pc[y] /\ sess'[y] = sess[y]
    BY <1>4 DEF TypeOK, ReapStep, Snapshot, NextHandle, Term, GraceOver, KillWaitOver,
       Clear, Rmdir, CleanupCgroup, Visit, TakeSession, Finish, Goto, StartPC, locals
  <2>. QED BY <1>0, <2>1, <2>2
<1>5. CASE ReaperScan \/ ReaperDone \/ Sigint \/ DrainDone
  BY <1>0, <1>5 DEF TypeOK, ReaperScan, ReaperDone, Sigint, DrainDone, Goto, StartPC, maps, locals
<1>6. CASE ExitDaemon \/ Sigterm
  BY <1>0, <1>6 DEF ExitDaemon, Sigterm, TasksGone, StartPC, maps
<1>7. CASE UNCHANGED vars
  BY <1>7 DEF vars
<1>8. ASSUME NEW r \in Sessions, TimePasses(r)
      PROVE  procs'[s] \subseteq procs[s] /\ InFlight(s)' \subseteq InFlight(s)
  BY <1>8 DEF TimePasses, maps, locals
<1>9. ASSUME NEW p \in Procs, Exit(p) \/ WaitTask(p)
      PROVE  procs'[s] \subseteq procs[s] /\ InFlight(s)' \subseteq InFlight(s)
  BY <1>9 DEF Exit, WaitTask, maps, locals
<1>. QED
  BY <1>1, <1>2, <1>3, <1>4, <1>5, <1>6, <1>7, <1>8, <1>9 DEF Next, HandlerStep

\* A start let through by the check fits: the map was below the cap, and every
\* other handler can add at most one process more.
LEMMA CapCheckKeepsSlots ==
  ASSUME TypeOK, SlotInv, NEW h \in Handlers, CapCheck(h), NEW s \in Sessions
  PROVE  /\ IsFiniteSet(procs'[s])
         /\ Cardinality(procs'[s]) + Cardinality(InFlight(s)')
              <= MaxPerSession + Cardinality(Handlers) - 1
<1>0. h \in Actors /\ UNCHANGED procs
  BY DEF Actors, CapCheck, maps
<1>1. CASE sess[h] # s \/ Full(s)
  <2>1. InFlight(s)' \subseteq InFlight(s)
    <3>1. sess[h] # s \/ Finish(h)
      BY <1>1 DEF CapCheck, Full
    <3>2. CASE Finish(h)
      BY <1>0, <3>2, FinishFrame DEF InFlight, StartPC, Actors
    <3>3. CASE sess[h] # s /\ ~ Finish(h)
      <4>1. pc' = [pc EXCEPT ![h] = "spawn"] /\ sess' = sess
        BY <3>3 DEF CapCheck, Goto, locals
      <4>. QED BY <1>0, <3>3, <4>1 DEF TypeOK, InFlight, Actors
    <3>. QED BY <3>1, <3>2, <3>3
  <2>. QED BY <1>0, <2>1, FewerSlots
<1>2. CASE ~ Full(s)
  <2>1. InFlight(s)' \subseteq Handlers
    BY DEF InFlight
  <2>2. /\ Cardinality(InFlight(s)') \in Nat /\ Cardinality(Handlers) \in Nat
        /\ Cardinality(InFlight(s)') <= Cardinality(Handlers)
    <3>. HIDE DEF InFlight
    <3>. QED BY <2>1, InFlightBounded
  <2>3. IsFiniteSet(procs[s]) /\ Cardinality(procs[s]) \in Nat
    BY FS_CardinalityType DEF SlotInv
  <2>4. Cardinality(procs[s]) <= MaxPerSession - 1
    BY <1>2, <2>3, SessionAssumption DEF Full, SessionAssumption
  <2>. QED BY <1>0, <2>2, <2>3, <2>4, SessionAssumption DEF SessionAssumption
<1>. QED BY <1>1, <1>2

\* Tracking a process turns a start in flight into an entry of the map.
LEMMA TrackKeepsSlots ==
  ASSUME TypeOK, SlotInv, NEW h \in Handlers, Track(h), NEW s \in Sessions
  PROVE  /\ IsFiniteSet(procs'[s])
         /\ Cardinality(procs'[s]) + Cardinality(InFlight(s)')
              <= MaxPerSession + Cardinality(Handlers) - 1
<1>0. h \in Actors /\ sess[h] \in Sessions
  BY DEF TypeOK, Track, Actors, StartPC
<1>1. CASE sess[h] # s
  <2>1. procs'[s] = procs[s]
    BY <1>0, <1>1 DEF TypeOK, Track
  <2>2. InFlight(s)' \subseteq InFlight(s)
    BY <1>0, FinishFrame DEF Track, InFlight, StartPC, Actors
  <2>. QED BY <2>1, <2>2, FewerSlots
<1>2. CASE sess[h] = s
  <2>1. procs'[s] = procs[s] \union {cur[h]}
    BY <1>0, <1>2 DEF TypeOK, Track
  <2>2. h \in InFlight(s) /\ InFlight(s)' \subseteq InFlight(s) \ {h}
    BY <1>0, <1>2, FinishFrame DEF Track, InFlight, StartPC, Actors
  <2>3. IsFiniteSet(InFlight(s)) /\ Cardinality(InFlight(s)) \in Nat /\ Cardinality(Handlers) \in Nat
    <3>1. InFlight(s) \subseteq Handlers
      BY DEF InFlight
    <3>. HIDE DEF InFlight
    <3>. QED BY <3>1, InFlightBounded
  <2>4. /\ Cardinality(InFlight(s)') \in Nat
        /\ Cardinality(InFlight(s)') <= Cardinality(InFlight(s)) - 1
    BY <2>2, <2>3, FS_RemoveElement, FS_Subset, FS_CardinalityType
  <2>5. IsFiniteSet(procs[s]) /\ Cardinality(procs[s]) \in Nat
    BY FS_CardinalityType DEF SlotInv
  <2>6. /\ IsFiniteSet(procs'[s]) /\ Cardinality(procs'[s]) \in Nat
        /\ Cardinality(procs'[s]) <= Cardinality(procs[s]) + 1
    <3>1. /\ IsFiniteSet(procs[s] \union {cur[h]})
          /\ Cardinality(procs[s] \union {cur[h]}) =
               IF cur[h] \in procs[s] THEN Cardinality(procs[s]) ELSE Cardinality(procs[s]) + 1
      BY <2>5, FS_AddElement, Zenon
    <3>. QED BY <2>1, <2>5, <3>1
  <2>7. Cardinality(procs[s]) + Cardinality(InFlight(s)) <= MaxPerSession + Cardinality(Handlers) - 1
    BY DEF SlotInv
  <2>. QED BY <2>3, <2>4, <2>5, <2>6, <2>7, SessionAssumption DEF SessionAssumption
<1>. QED BY <1>1, <1>2

\* However starts, stops, deletes, reaps and signals interleave, a session has at
\* most MaxPerSession processes and one more for every handler but one.
THEOREM CapBounded == Spec => []CapBound
<1>1. Init => SlotInv
  <2>. SUFFICES ASSUME Init, NEW s \in Sessions
                PROVE  /\ IsFiniteSet(procs[s])
                       /\ Cardinality(procs[s]) + Cardinality(InFlight(s))
                            <= MaxPerSession + Cardinality(Handlers) - 1
    BY DEF SlotInv
  <2>1. procs[s] = {} /\ InFlight(s) = {}
    BY DEF Init, InFlight, StartPC, Actors
  <2>2. Cardinality(Handlers) \in Nat /\ Cardinality(Handlers) >= 1
    BY InFlightBounded
  <2>. QED BY <2>1, <2>2, FS_EmptySet, SessionAssumption DEF SessionAssumption
<1>2. TypeOK /\ SlotInv /\ [Next]_vars => SlotInv'
  <2>. SUFFICES ASSUME TypeOK, SlotInv, [Next]_vars, NEW s \in Sessions
                PROVE  /\ IsFiniteSet(procs'[s])
                       /\ Cardinality(procs'[s]) + Cardinality(InFlight(s)')
                            <= MaxPerSession + Cardinality(Handlers) - 1
    BY DEF SlotInv
  <2>1. CASE \E h \in Handlers : CapCheck(h) \/ Track(h)
    BY <2>1, CapCheckKeepsSlots, TrackKeepsSlots
  <2>2. CASE \A h \in Handlers : ~ CapCheck(h) /\ ~ Track(h)
    BY <2>2, OnlyStartsAddSlots, FewerSlots
  <2>. QED BY <2>1, <2>2
<1>3. SlotInv => CapBound
  <2>. SUFFICES ASSUME SlotInv, NEW s \in Sessions
                PROVE  Cardinality(procs[s]) <= MaxPerSession + Cardinality(Handlers) - 1
    BY DEF CapBound
  <2>1. Cardinality(InFlight(s)) \in Nat /\ Cardinality(Handlers) \in Nat
    <3>1. InFlight(s) \subseteq Handlers
      BY DEF InFlight
    <3>. HIDE DEF InFlight
    <3>. QED BY <3>1, InFlightBounded
  <2>2. Cardinality(procs[s]) \in Nat
    BY FS_CardinalityType DEF SlotInv
  <2>. QED BY <2>1, <2>2, SessionAssumption DEF SlotInv, SessionAssumption
<1>. QED BY <1>1, <1>2, <1>3, TypeCorrect, PTL DEF Spec
=============================================================================
