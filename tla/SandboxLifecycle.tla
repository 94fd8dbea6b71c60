-------------------------- MODULE SandboxLifecycle --------------------------
(***************************************************************************)
(* The shim's sandbox records (e2b-shim/src/main.rs).  A sandbox is a      *)
(* session of the controller under the same id, a record in the map        *)
(* AppState.sandboxes and a copy of that record in a file, from which a    *)
(* restarted shim fills the map again.  A background task sweeps the       *)
(* records whose end has passed.                                           *)
(*                                                                         *)
(* Handlers and the sweeper run on several threads.  An operation on the   *)
(* map, one system call and one call to the controller are atomic steps;   *)
(* nothing else is: set_sandbox_timeout, pause, resume and refreshes clone *)
(* the record, insert the changed clone and then rewrite the file.         *)
(***************************************************************************)
EXTENDS Naturals, FiniteSets

CONSTANTS
  Handlers,   \* request handlers
  Sids,       \* session ids the controller hands out, each at most once
  Lease,      \* the 900 s of create, resume and refreshes, in clock ticks
  Timeouts,   \* values of the timeout request
  MaxTime,    \* bound of the model: the clock stops here
  MaxCrashes, \* bound of the model: restarts of the shim
  Sweeper, NoSid

ASSUME LifecycleAssumption ==
  /\ Lease \in Nat
  /\ Timeouts \subseteq Nat
  /\ MaxTime \in Nat
  /\ MaxCrashes \in Nat
  /\ Sweeper \notin Handlers
  /\ NoSid \notin Sids

VARIABLES
  mem,     \* AppState.sandboxes
  disk,    \* the registry files
  opened, killed,  \* sessions the controller opened, and deleted, for the shim
  now,     \* the clock
  pc, sid, rec,    \* each handler's position, sandbox and cloned record
  doomed,  \* sweep_expired's to_remove, the one being removed included
  raced,   \* history: sandboxes two actors were at work on at once
  leaked,  \* history: sessions left behind in one of the ways the code has
  crashes  \* restarts so far

vars == <<mem, disk, opened, killed, now, pc, sid, rec, doomed, raced, leaked, crashes>>
controller == <<opened, killed>>
handler == <<pc, sid, rec>>

Record == [end : Nat, state : {"running", "paused"}]
NoRecord == [end |-> 0, state |-> "none"]
\* A file that does not parse: load_registry skips it.
Garbled == [end |-> 0, state |-> "garbled"]

\* Positions: of create, of the four handlers that change a record, of
\* delete, and of the sweeper.
PC == {"idle", "mount", "undo", "insert", "open", "write",
       "forget", "kill", "sweepForget"}
Actors == Handlers \union {Sweeper}

TypeOK ==
  /\ mem \in [Sids -> Record \union {NoRecord}]
  /\ disk \in [Sids -> Record \union {NoRecord, Garbled}]
  /\ opened \in SUBSET Sids
  /\ killed \in SUBSET Sids
  /\ now \in Nat
  /\ pc \in [Actors -> PC]
  /\ sid \in [Actors -> Sids \union {NoSid}]
  /\ rec \in [Actors -> Record \union {NoRecord}]
  /\ doomed \in SUBSET Sids
  /\ raced \in SUBSET Sids
  /\ leaked \in SUBSET Sids
  /\ crashes \in Nat
  /\ \A a \in Actors : pc[a] # "idle" => sid[a] \in Sids

Init ==
  /\ mem = [s \in Sids |-> NoRecord]
  /\ disk = [s \in Sids |-> NoRecord]
  /\ opened = {} /\ killed = {}
  /\ now = 0
  /\ pc = [a \in Actors |-> "idle"]
  /\ sid = [a \in Actors |-> NoSid]
  /\ rec = [a \in Actors |-> NoRecord]
  /\ doomed = {}
  /\ raced = {} /\ leaked = {}
  /\ crashes = 0

----------------------------------------------------------------------------
\* The actors at work on a sandbox; two of them race.
At(s) == {a \in Actors : sid[a] = s} \union (IF s \in doomed THEN {Sweeper} ELSE {})
Racing == {s \in Sids : \E a, b \in At(s) : a # b}

Become(a, label, s, r) ==
  /\ pc' = [pc EXCEPT ![a] = label]
  /\ sid' = [sid EXCEPT ![a] = s]
  /\ rec' = [rec EXCEPT ![a] = r]

Goto(a, label) == Become(a, label, sid[a], rec[a])
Return(a) == Become(a, "idle", NoSid, NoRecord)

(* create_sandbox: a session, the volumes copied into it, the record.      *)
OpenSession(h) ==
  /\ pc[h] = "idle"
  /\ \E s \in Sids \ opened :
       /\ opened' = opened \union {s}
       /\ Become(h, "mount", s, NoRecord)
  /\ UNCHANGED <<mem, disk, killed, now, doomed, leaked>>

\* The controller opened a session and its answer did not get through.
AnswerLost(h) ==
  /\ pc[h] = "idle"
  /\ \E s \in Sids \ opened :
       /\ opened' = opened \union {s}
       /\ leaked' = leaked \union {s}
  /\ UNCHANGED <<mem, disk, killed, now, handler, doomed>>

\* The end is computed once the volumes are there.
Mounted(h) ==
  /\ pc[h] = "mount"
  /\ \E t \in Timeouts \union {Lease} :
       Become(h, "insert", sid[h], [end |-> now + t, state |-> "running"])
  /\ UNCHANGED <<mem, disk, controller, now, doomed, leaked>>

\* The session is not given back.
MountFails_NoUndo(h) ==
  /\ pc[h] = "mount"
  /\ Return(h)
  /\ UNCHANGED <<mem, disk, controller, now, doomed, leaked>>

MountFails(h) ==
  /\ pc[h] = "mount"
  /\ Goto(h, "undo")
  /\ UNCHANGED <<mem, disk, controller, now, doomed, leaked>>

(* set_sandbox_timeout, sandbox_pause, sandbox_resume, sandbox_refreshes:  *)
(* a clone of the record (404 when there is none) and what is set in it.   *)
SetTimeout(r) == {[r EXCEPT !.end = now + (IF t = 0 THEN 1 ELSE t)] : t \in Timeouts}
Pause(r) == IF r.state = "paused" THEN {} ELSE {[r EXCEPT !.state = "paused"]}
Resume(r) == {[end |-> now + Lease, state |-> "running"]}
Refresh(r) == {[r EXCEPT !.end = now + Lease]}

CloneRecord(h, s) ==
  /\ pc[h] = "idle"
  /\ mem[s] # NoRecord
  /\ \E r \in SetTimeout(mem[s]) \union Pause(mem[s]) \union Resume(mem[s])
                \union Refresh(mem[s]) : Become(h, "insert", s, r)
  /\ UNCHANGED <<mem, disk, controller, now, doomed, leaked>>

\* The file is not written.
InsertRecord_NoPersist(h) ==
  /\ pc[h] = "insert"
  /\ mem' = [mem EXCEPT ![sid[h]] = rec[h]]
  /\ Return(h)
  /\ UNCHANGED <<disk, controller, now, doomed, leaked>>

InsertRecord(h) ==
  /\ pc[h] = "insert"
  /\ mem' = [mem EXCEPT ![sid[h]] = rec[h]]
  /\ Goto(h, "open")
  /\ UNCHANGED <<disk, controller, now, doomed, leaked>>

(* persist_sandbox: fs::write truncates the file, then writes it.  The     *)
(* bytes go nowhere when the file was unlinked in between, and over        *)
(* another writer's when there was one: the longer one's tail survives.    *)
OpenFile(h) ==
  /\ pc[h] = "open"
  /\ disk' = [disk EXCEPT ![sid[h]] = Garbled]
  /\ Goto(h, "write")
  /\ UNCHANGED <<mem, controller, now, doomed, leaked>>

Written(file, r) ==
  IF file = NoRecord THEN {NoRecord} ELSE IF file = Garbled THEN {r} ELSE {r, Garbled}

WriteFile(h) ==
  /\ pc[h] = "write"
  /\ \E file \in Written(disk[sid[h]], rec[h]) : disk' = [disk EXCEPT ![sid[h]] = file]
  /\ Return(h)
  /\ UNCHANGED <<mem, controller, now, doomed, leaked>>

(* delete_sandbox: whatever the map holds; the controller comes last, and  *)
(* its errors are ignored.                                                 *)
RemoveRecord(h, s) ==
  /\ pc[h] = "idle"
  /\ s \in opened
  /\ mem' = [mem EXCEPT ![s] = NoRecord]
  /\ Become(h, "forget", s, NoRecord)
  /\ UNCHANGED <<disk, controller, now, doomed, leaked>>

\* The file stays.
ForgetFile_Skips(h) ==
  /\ pc[h] = "forget"
  /\ Goto(h, "kill")
  /\ UNCHANGED <<mem, disk, controller, now, doomed, leaked>>

ForgetFile(h) ==
  /\ pc[h] = "forget"
  /\ disk' = [disk EXCEPT ![sid[h]] = NoRecord]
  /\ Goto(h, "kill")
  /\ UNCHANGED <<mem, controller, now, doomed, leaked>>

\* The DELETE to the controller, also after a failed mount.
KillSession(h) ==
  /\ pc[h] \in {"kill", "undo"}
  /\ \/ killed' = killed \union {sid[h]} /\ UNCHANGED leaked
     \/ leaked' = leaked \union {sid[h]} /\ UNCHANGED killed
  /\ Return(h)
  /\ UNCHANGED <<mem, disk, opened, now, doomed>>

\* The client disconnects and the server drops the handler at one of its
\* awaits, all of them calls to the controller or to S3; or create_sandbox
\* panics on a timeout chrono cannot add, the session being open.
Disconnect(h) ==
  /\ pc[h] \in {"mount", "undo", "kill"}
  /\ leaked' = leaked \union {sid[h]}
  /\ Return(h)
  /\ UNCHANGED <<mem, disk, controller, now, doomed>>

(* sweep_expired: a list of the expired, then map and file of each.  The   *)
(* controller is not told.                                                 *)
Expired(s) == mem[s] # NoRecord /\ mem[s].end < now

\* Every record is taken.
SweepScan_Early ==
  /\ doomed = {}
  /\ \E s \in Sids : mem[s] # NoRecord
  /\ doomed' = {s \in Sids : mem[s] # NoRecord}
  /\ UNCHANGED <<mem, disk, controller, now, handler, leaked>>

\* Paused sandboxes are passed over.
SweepScan_Running ==
  /\ doomed = {}
  /\ \E s \in Sids : Expired(s) /\ mem[s].state = "running"
  /\ doomed' = {s \in Sids : Expired(s) /\ mem[s].state = "running"}
  /\ UNCHANGED <<mem, disk, controller, now, handler, leaked>>

SweepScan ==
  /\ doomed = {}
  /\ \E s \in Sids : Expired(s)
  /\ doomed' = {s \in Sids : Expired(s)}
  /\ UNCHANGED <<mem, disk, controller, now, handler, leaked>>

SweepRemove(s) ==
  /\ pc[Sweeper] = "idle"
  /\ s \in doomed
  /\ mem' = [mem EXCEPT ![s] = NoRecord]
  /\ leaked' = leaked \union {s}
  /\ Become(Sweeper, "sweepForget", s, NoRecord)
  /\ UNCHANGED <<disk, controller, now, doomed>>

SweepForget ==
  /\ pc[Sweeper] = "sweepForget"
  /\ disk' = [disk EXCEPT ![sid[Sweeper]] = NoRecord]
  /\ doomed' = doomed \ {sid[Sweeper]}
  /\ Return(Sweeper)
  /\ UNCHANGED <<mem, controller, now, leaked>>

(* The shim stops anywhere, is started again and loads the files.  A       *)
(* create under way leaves its session, a file being written is lost.      *)
Loaded(file) == IF file = Garbled THEN NoRecord ELSE file

Crash ==
  /\ crashes < MaxCrashes
  /\ crashes' = crashes + 1
  /\ mem' = [s \in Sids |-> Loaded(disk[s])]
  /\ leaked' = leaked \union {s \in Sids : At(s) # {} /\ Loaded(disk[s]) = NoRecord}
  /\ pc' = [a \in Actors |-> "idle"]
  /\ sid' = [a \in Actors |-> NoSid]
  /\ rec' = [a \in Actors |-> NoRecord]
  /\ doomed' = {}
  /\ UNCHANGED <<disk, controller, now>>

Tick ==
  /\ now < MaxTime
  /\ now' = now + 1
  /\ UNCHANGED <<mem, disk, controller, handler, doomed, leaked>>

----------------------------------------------------------------------------
Handler(h) ==
  \/ OpenSession(h) \/ AnswerLost(h) \/ Disconnect(h) \/ Mounted(h) \/ MountFails(h)
  \/ InsertRecord(h) \/ OpenFile(h) \/ WriteFile(h)
  \/ ForgetFile(h) \/ KillSession(h)
  \/ \E s \in Sids : CloneRecord(h, s) \/ RemoveRecord(h, s)

Sweep == SweepScan \/ SweepForget \/ \E s \in Sids : SweepRemove(s)

Step == (\E h \in Handlers : Handler(h)) \/ Sweep \/ Tick

Next ==
  /\ \/ Step /\ UNCHANGED crashes
     \/ Crash
  /\ raced' = raced \union Racing'

Spec == Init /\ [][Next]_vars

\* The sweeper's interval timer fires for ever and it awaits nothing.
FairSpec == Spec /\ WF_vars(Next /\ Sweep)

----------------------------------------------------------------------------
(* Unless two actors were at work on a sandbox at once, the file says what *)
(* the map says whenever nobody is at work on it, across restarts: persist *)
(* and forget follow every change of the map.  A restart in the middle of  *)
(* fs::write leaves a file that does not parse, and no record.             *)
MapMatchesFiles ==
  \A s \in Sids \ raced : At(s) = {} =>
    \/ disk[s] = mem[s]
    \/ disk[s] = Garbled /\ mem[s] = NoRecord

(* A sandbox whose session the shim has deleted is not listed, now or      *)
(* after a restart (delete_sandbox drops map entry and file first), unless *)
(* a handler that had cloned its record before put it back.                *)
StaysDeleted ==
  \A s \in killed \ raced : mem[s] = NoRecord /\ Loaded(disk[s]) = NoRecord

(* What the sweeper is about to remove is expired, unless somebody worked  *)
(* on it since the sweeper looked: the list is not checked again.          *)
DoomedAreExpired ==
  \A s \in doomed \ raced : Expired(s) \/ sid[Sweeper] = s

(* A session of the controller without a sandbox record was left by the    *)
(* sweeper, by an answer that was lost, a DELETE that failed, a client     *)
(* that disconnected, a restart in the middle of an operation, or a race;  *)
(* every other path deletes it.                                            *)
LeaksExplained ==
  \A s \in opened \ (killed \union leaked \union raced) :
    mem[s] # NoRecord \/ At(s) # {}

(* An expired sandbox is swept or renewed, raced or not, also one that a   *)
(* race or a restart brought back.                                         *)
ExpiredSwept ==
  \A s \in Sids : Expired(s) ~> ~Expired(s)
=============================================================================
