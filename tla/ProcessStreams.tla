--------------------------- MODULE ProcessStreams ---------------------------
(***************************************************************************)
(* The standard streams of one process of a session, and the handlers that *)
(* read them, wait for the exit or write to stdin                          *)
(* (tools-rust/src/process.rs).                                            *)
(*                                                                         *)
(* The child writes into two pipes.  A drain task per pipe moves bytes     *)
(* into a bounded buffer; a wait task records the exit, closes the buffers *)
(* and notifies.  Notify::notify_waiters wakes only those that are already *)
(* registered: `woken` says of a sleeper that somebody did.  A sleeper's   *)
(* timeout may be over at any moment.  One process is enough: nothing here *)
(* is shared between two.                                                  *)
(***************************************************************************)
EXTENDS Naturals, Sequences, FiniteSets

CONSTANTS
  Callers,      \* request handlers that may work on the process at once
  Cap,          \* TOOLS_PROCESS_BUFFER_BYTES
  ChunkSize,    \* the drain task's local buffer
  MaxBytes,     \* the values of max_bytes a read may carry
  MaxSent,      \* bound: bytes the child writes to each stream
  MaxWrites,    \* bound: write requests
  WriteLen,     \* the input of a write request, in bytes
  Droppable,    \* may a client disconnect, dropping its handler at an await?
  NoHandler

Streams == {"stdout", "stderr"}

\* The daemon accepts a capacity of 0 as well; the first overflow test of `push'
\* is then the last one to fire, and the buffer is not bounded at all.
ASSUME StreamAssumption ==
  /\ Cap \in Nat \ {0}
  /\ ChunkSize \in Nat \ {0}
  /\ MaxBytes \subseteq Nat
  /\ MaxSent \in [Streams -> Nat]
  /\ MaxWrites \in Nat
  /\ WriteLen \in Nat
  /\ Droppable \in BOOLEAN
  /\ NoHandler \notin Callers

VARIABLES
  child,     \* the child: "running", "heirs" (it has exited, and a descendant
             \* holds its pipes), "gone"
  recorded,  \* ProcessHandle.state is no longer Running
  waiter,    \* how far the wait task is
  sent,      \* bytes the child has written to a stream; byte n is the number n
  pipe,      \* those in the pipe
  chunk,     \* those the drain task has read and not yet pushed
  buf, truncated, closed,  \* StreamBufferInner
  piece,     \* history: what the last drain of a stream returned
  eofSaid,   \* history: streams of which a drain has returned eof
  stdin,     \* history: which write each byte in the child's stdin is from
  slot,      \* ProcessHandle.stdin: "open", "taken" (by the lock's holder), "closed"
  lock,      \* who holds the stdin slot's mutex
  writes,    \* write requests so far
  at,        \* where each handler is
  max, patient,  \* a read's max_bytes, and whether it may still go to sleep
  found,     \* the read has found bytes or the end of file
  woken,     \* somebody notified the handler since it registered
  wid, left  \* a write's number, and the bytes it has still to write

childVars == <<child, recorded, waiter>>
streams == <<sent, pipe, chunk, buf, truncated, closed, piece, eofSaid>>
input == <<stdin, slot, lock, writes>>
own == <<max, patient, found, woken, wid, left>>
streamVars == <<childVars, streams, input, at, own>>

ReadPC == {"drainOut", "drainErr", "register", "asleep", "reply"}
WaitPC == {"waitRegister", "waitAsleep"}
WritePC == {"lock", "writing"}

StreamTypeOK ==
  /\ child \in {"running", "heirs", "gone"}
  /\ recorded \in BOOLEAN
  /\ waiter \in {"waiting", "closeOut", "closeErr", "notify", "done"}
  /\ sent \in [Streams -> Nat]
  /\ pipe \in [Streams -> Seq(Nat)]
  /\ chunk \in [Streams -> Seq(Nat)]
  /\ buf \in [Streams -> Seq(Nat)]
  /\ truncated \in [Streams -> Nat]
  /\ closed \in [Streams -> BOOLEAN]
  /\ piece \in [Streams -> [bytes : Seq(Nat), lossy : BOOLEAN]]
  /\ eofSaid \subseteq Streams
  /\ stdin \in Seq(Nat)
  /\ slot \in {"open", "taken", "closed"}
  /\ lock \in Callers \union {NoHandler}
  /\ writes \in Nat
  /\ at \in [Callers -> {"idle"} \union ReadPC \union WaitPC \union WritePC]
  /\ max \in [Callers -> Nat]
  /\ patient \in [Callers -> BOOLEAN]
  /\ found \in [Callers -> BOOLEAN]
  /\ woken \in [Callers -> BOOLEAN]
  /\ wid \in [Callers -> Nat]
  /\ left \in [Callers -> Nat]

StreamInit ==
  /\ child = "running" /\ recorded = FALSE /\ waiter = "waiting"
  /\ sent = [s \in Streams |-> 0]
  /\ pipe = [s \in Streams |-> <<>>]
  /\ chunk = [s \in Streams |-> <<>>]
  /\ buf = [s \in Streams |-> <<>>]
  /\ truncated = [s \in Streams |-> 0]
  /\ closed = [s \in Streams |-> FALSE]
  /\ piece = [s \in Streams |-> [bytes |-> <<>>, lossy |-> FALSE]]
  /\ eofSaid = {}
  /\ stdin = <<>> /\ slot = "open" /\ lock = NoHandler /\ writes = 0
  /\ at = [h \in Callers |-> "idle"]
  /\ max = [h \in Callers |-> 0]
  /\ patient = [h \in Callers |-> FALSE]
  /\ found = [h \in Callers |-> FALSE]
  /\ woken = [h \in Callers |-> FALSE]
  /\ wid = [h \in Callers |-> 0]
  /\ left = [h \in Callers |-> 0]
----------------------------------------------------------------------------
Turn(h, label) == at' = [at EXCEPT ![h] = label]

\* The handler answers, or is dropped: its locals are gone.
Answer(h) ==
  /\ Turn(h, "idle")
  /\ max' = [max EXCEPT ![h] = 0]
  /\ patient' = [patient EXCEPT ![h] = FALSE]
  /\ found' = [found EXCEPT ![h] = FALSE]
  /\ woken' = [woken EXCEPT ![h] = FALSE]
  /\ wid' = [wid EXCEPT ![h] = 0]
  /\ left' = [left EXCEPT ![h] = 0]

\* The first n elements of q, and the rest.
First(q, n) == SubSeq(q, 1, n)
Rest(q, n) == SubSeq(q, n + 1, Len(q))
AtMost(m, n) == IF m <= n THEN m ELSE n

\* notify_waiters on what the handlers at the given places sleep on.
Notify(places) == woken' = [h \in Callers |-> woken[h] \/ at[h] \in places]

\* The child, or a descendant that holds its pipes, writes a byte.
Emit(s) ==
  /\ child # "gone"
  /\ sent[s] < MaxSent[s]
  /\ sent' = [sent EXCEPT ![s] = @ + 1]
  /\ pipe' = [pipe EXCEPT ![s] = Append(@, sent[s] + 1)]
  /\ UNCHANGED <<childVars, chunk, buf, truncated, closed, piece, eofSaid, input, at, own>>

\* The child exits, or the last descendant that holds its pipes does.
ChildExits ==
  /\ \/ child = "running" /\ child' \in {"heirs", "gone"}
     \/ child = "heirs" /\ child' = "gone"
  /\ UNCHANGED <<recorded, waiter, streams, input, at, own>>

\* drain_into_buffer: one read of the pipe ..
DrainRead(s) ==
  LET n == AtMost(ChunkSize, Len(pipe[s])) IN
  /\ chunk[s] = <<>>
  /\ pipe[s] # <<>>
  /\ chunk' = [chunk EXCEPT ![s] = First(pipe[s], n)]
  /\ pipe' = [pipe EXCEPT ![s] = Rest(pipe[s], n)]
  /\ UNCHANGED <<childVars, sent, buf, truncated, closed, piece, eofSaid, input, at, own>>

\* Bytes that fall out of the buffer when it is followed by those of the chunk.
Overflow(s) ==
  LET n == Len(buf[s] \o chunk[s]) IN IF n <= Cap THEN 0 ELSE n - Cap

\* Variants named X_Y below each hold one bug; the runs show which property
\* tells them from the code.  Here: a byte is dropped before the buffer is full.
Push_OneLess(s) ==
  LET n == IF Len(buf[s] \o chunk[s]) < Cap THEN 0 ELSE Len(buf[s] \o chunk[s]) - Cap + 1 IN
  /\ chunk[s] # <<>>
  /\ buf' = [buf EXCEPT ![s] = Rest(buf[s] \o chunk[s], n)]
  /\ truncated' = [truncated EXCEPT ![s] = @ + n]
  /\ chunk' = [chunk EXCEPT ![s] = <<>>]
  /\ Notify({"asleep"})
  /\ UNCHANGED <<childVars, sent, pipe, closed, piece, eofSaid, input, at,
                 max, patient, found, wid, left>>

\* .. and one StreamBuffer::push of what it returned: byte by byte, the oldest
\* is dropped and counted when the buffer is full.
Push(s) ==
  /\ chunk[s] # <<>>
  /\ buf' = [buf EXCEPT ![s] = Rest(buf[s] \o chunk[s], Overflow(s))]
  /\ truncated' = [truncated EXCEPT ![s] = @ + Overflow(s)]
  /\ chunk' = [chunk EXCEPT ![s] = <<>>]
  /\ Notify({"asleep"})
  /\ UNCHANGED <<childVars, sent, pipe, closed, piece, eofSaid, input, at,
                 max, patient, found, wid, left>>
----------------------------------------------------------------------------
\* The state is left for later.
Record_Later ==
  /\ waiter = "waiting"
  /\ child # "running"
  /\ waiter' = "closeOut"
  /\ UNCHANGED <<child, recorded, streams, input, at, own>>

\* The wait task: child.wait() returns and the state is set ..
Record ==
  /\ waiter = "waiting"
  /\ child # "running"
  /\ recorded' = TRUE
  /\ waiter' = "closeOut"
  /\ UNCHANGED <<child, streams, input, at, own>>

Close(s) ==
  /\ closed' = [closed EXCEPT ![s] = TRUE]
  /\ Notify({"asleep"})
  /\ UNCHANGED <<child, recorded, sent, pipe, chunk, buf, truncated, piece, eofSaid,
                 input, at, max, patient, found, wid, left>>

\* .. the buffers are closed, whether or not the drain tasks are done ..
CloseOut == waiter = "closeOut" /\ waiter' = "closeErr" /\ Close("stdout")
CloseErr == waiter = "closeErr" /\ waiter' = "notify" /\ Close("stderr")

\* notify_one in place of notify_waiters.
NotifyExit_One ==
  /\ waiter = "notify"
  /\ waiter' = "done"
  /\ LET sleepers == {h \in Callers : at[h] \in {"asleep", "waitAsleep"}} IN
     IF sleepers = {} THEN UNCHANGED woken
                      ELSE \E h \in sleepers : woken' = [woken EXCEPT ![h] = TRUE]
  /\ UNCHANGED <<child, recorded, streams, input, at, max, patient, found, wid, left>>

\* .. and whoever waits for the exit is notified.
NotifyExit ==
  /\ waiter = "notify"
  /\ waiter' = "done"
  /\ Notify({"asleep", "waitAsleep"})
  /\ UNCHANGED <<child, recorded, streams, input, at, max, patient, found, wid, left>>
----------------------------------------------------------------------------
ReadRequest(h) ==
  /\ at[h] = "idle"
  /\ \E m \in MaxBytes, p \in BOOLEAN :
       /\ max' = [max EXCEPT ![h] = m]
       /\ patient' = [patient EXCEPT ![h] = p]
  /\ Turn(h, "drainOut")
  /\ UNCHANGED <<childVars, streams, input, found, woken, wid, left>>

\* The count of lost bytes survives the read that reports it.
Drain_KeepsCount(h, s) ==
  LET n == AtMost(max[h], Len(buf[s]))
      eof == closed[s] /\ n = Len(buf[s])
  IN
  /\ buf' = [buf EXCEPT ![s] = Rest(buf[s], n)]
  /\ piece' = [piece EXCEPT ![s] = [bytes |-> First(buf[s], n), lossy |-> truncated[s] > 0]]
  /\ eofSaid' = IF eof THEN eofSaid \union {s} ELSE eofSaid
  /\ found' = [found EXCEPT ![h] = @ \/ n > 0 \/ eof]
  /\ UNCHANGED <<childVars, sent, pipe, chunk, closed, truncated, input, max, woken, wid, left>>

\* StreamBuffer::drain, under the buffer's mutex.
Drain(h, s) ==
  LET n == AtMost(max[h], Len(buf[s]))
      eof == closed[s] /\ n = Len(buf[s])
  IN
  /\ buf' = [buf EXCEPT ![s] = Rest(buf[s], n)]
  /\ truncated' = [truncated EXCEPT ![s] = 0]
  /\ piece' = [piece EXCEPT ![s] = [bytes |-> First(buf[s], n), lossy |-> truncated[s] > 0]]
  /\ eofSaid' = IF eof THEN eofSaid \union {s} ELSE eofSaid
  /\ found' = [found EXCEPT ![h] = @ \/ n > 0 \/ eof]
  /\ UNCHANGED <<childVars, sent, pipe, chunk, closed, input, max, woken, wid, left>>

DrainOut(h) ==
  /\ at[h] = "drainOut"
  /\ Drain(h, "stdout")
  /\ Turn(h, "drainErr")
  /\ UNCHANGED patient

\* A read that has found nothing and has a timeout sleeps, once.
DrainErr(h) ==
  /\ at[h] = "drainErr"
  /\ Drain(h, "stderr")
  /\ Turn(h, IF patient[h] /\ ~found'[h] THEN "register" ELSE "reply")
  /\ UNCHANGED patient

\* The three notified() futures of the select! come into being.
Register(h) ==
  /\ at[h] \in {"register", "waitRegister"}
  /\ Turn(h, IF at[h] = "register" THEN "asleep" ELSE "waitAsleep")
  /\ UNCHANGED <<childVars, streams, input, own>>

\* Notified, or timed out: both buffers are drained once more.
Wake(h) ==
  /\ at[h] = "asleep"
  /\ patient' = [patient EXCEPT ![h] = FALSE]
  /\ woken' = [woken EXCEPT ![h] = FALSE]
  /\ Turn(h, "drainOut")
  /\ UNCHANGED <<childVars, streams, input, max, found, wid, left>>

\* The answers to a read and to a wait, with the state as it is now.
Reply(h) ==
  /\ at[h] \in {"reply", "waitAsleep"}
  /\ Answer(h)
  /\ UNCHANGED <<childVars, streams, input>>

\* action_wait of a process that it takes to be running: a state whose mutex somebody
\* holds counts as Running too (snapshot_running).  Of another it answers at once.
WaitRequest(h) ==
  /\ at[h] = "idle"
  /\ Turn(h, "waitRegister")
  /\ UNCHANGED <<childVars, streams, input, own>>
----------------------------------------------------------------------------
\* action_write of a process that runs; of another one it answers at once.
WriteRequest(h) ==
  /\ at[h] = "idle"
  /\ ~recorded
  /\ writes < MaxWrites
  /\ writes' = writes + 1
  /\ wid' = [wid EXCEPT ![h] = writes + 1]
  /\ left' = [left EXCEPT ![h] = WriteLen]
  /\ Turn(h, "lock")
  /\ UNCHANGED <<childVars, streams, stdin, slot, lock, max, patient, found, woken>>

\* stdin stays in its slot, unlocked, while it is written.
TakeStdin_Shared(h) ==
  /\ at[h] = "lock"
  /\ \/ slot = "open" /\ Turn(h, "writing") /\ UNCHANGED own
     \/ slot # "open" /\ Answer(h)
  /\ UNCHANGED <<childVars, streams, input>>

\* The slot's mutex is taken and stdin taken out of the slot; an empty slot is
\* answered with 400, "stdin already closed".
TakeStdin(h) ==
  /\ at[h] = "lock"
  /\ lock = NoHandler
  /\ \/ slot = "open" /\ slot' = "taken" /\ lock' = h /\ Turn(h, "writing") /\ UNCHANGED own
     \/ slot # "open" /\ Answer(h) /\ UNCHANGED <<slot, lock>>
  /\ UNCHANGED <<childVars, streams, stdin, writes>>

\* write_all, a byte at a time; the child may let the writer wait.
WriteByte(h) ==
  /\ at[h] = "writing"
  /\ left[h] > 0
  /\ child # "gone"
  /\ stdin' = Append(stdin, wid[h])
  /\ left' = [left EXCEPT ![h] = @ - 1]
  /\ UNCHANGED <<childVars, streams, slot, lock, writes, at, max, patient, found, woken, wid>>

\* A failed write keeps the mutex.
WriteEnd_KeepsLock(h) ==
  /\ at[h] = "writing"
  /\ \/ left[h] = 0 /\ slot' \in {"open", "closed"} /\ lock' = NoHandler
     \/ left[h] > 0 /\ slot' = "open" /\ UNCHANGED lock
  /\ Answer(h)
  /\ UNCHANGED <<childVars, streams, stdin, writes>>

\* All is written, and stdin is put back or, with eof, dropped; or nobody reads
\* it any more (EPIPE), and stdin is put back.
WriteEnd(h) ==
  /\ at[h] = "writing"
  /\ \/ left[h] = 0 /\ slot' \in {"open", "closed"}
     \/ left[h] > 0 /\ slot' = "open"
  /\ lock' = NoHandler
  /\ Answer(h)
  /\ UNCHANGED <<childVars, streams, stdin, writes>>

\* The client of a read, wait or write disconnects while its handler awaits; a
\* handler that has stdin in its hands drops it.
Disconnect(h) ==
  /\ Droppable
  /\ at[h] \in (ReadPC \union WaitPC \union WritePC) \ {"register", "waitRegister"}
  /\ IF at[h] = "writing" THEN slot' = "closed" /\ lock' = NoHandler
                          ELSE UNCHANGED <<slot, lock>>
  /\ Answer(h)
  /\ UNCHANGED <<childVars, streams, stdin, writes>>
----------------------------------------------------------------------------
WaitTaskStep == Record \/ CloseOut \/ CloseErr \/ NotifyExit

\* What a read or a wait does without its timeout's help.
AwakeStep(h) ==
  \/ DrainOut(h) \/ DrainErr(h)
  \/ woken[h] /\ Wake(h)
  \/ (at[h] = "reply" \/ woken[h]) /\ Reply(h)

WriteStep(h) == TakeStdin(h) \/ WriteByte(h) \/ WriteEnd(h)

StreamNext ==
  \/ ChildExits
  \/ WaitTaskStep
  \/ \E s \in Streams : Emit(s) \/ DrainRead(s) \/ Push(s)
  \/ \E h \in Callers :
       \/ ReadRequest(h) \/ DrainOut(h) \/ DrainErr(h)
       \/ Register(h) \/ Wake(h) \/ Reply(h)
       \/ WaitRequest(h) \/ WriteRequest(h) \/ WriteStep(h)
       \/ Disconnect(h)

StreamSpec == StreamInit /\ [][StreamNext]_streamVars

\* The runtime's tasks make progress, those that sleep only when notified, and a
\* write fails once nobody holds the other end; tokio's Mutex is FIFO, so a writer
\* that waits for stdin is not overtaken for ever.  Neither the child nor the clients
\* need do anything, and no timeout need end before a notification.
StreamFairness ==
  /\ WF_streamVars(WaitTaskStep)
  /\ \A h \in Callers :
       /\ WF_streamVars(AwakeStep(h))
       /\ WF_streamVars(WriteEnd(h) /\ (left[h] = 0 \/ child = "gone"))
       /\ SF_streamVars(TakeStdin(h))

----------------------------------------------------------------------------
\* Bytes of s that no read has returned and that are not lost.
Pending(s) == buf[s] \o chunk[s] \o pipe[s]

\* The first of them, or the next one the child will write.
NextByte(s) == sent[s] - Len(Pending(s)) + 1

\* Each stream is a lossy stream: reads, concurrent ones too, hand out its bytes
\* in order, without a hole and once, except for the oldest, whose loss the next
\* read reports (stdout/stderr buffering: "the next `read` SHALL set `truncated:true`").
Lossy == INSTANCE LossyStreams WITH
  next <- [s \in Streams |-> NextByte(s)],
  lossy <- [s \in Streams |-> truncated[s] > 0]
StreamsAreLossy == Lossy!Spec

\* The ring loses no byte it has room for, and has the newest ones when it has
\* lost some ("the oldest bytes SHALL be discarded").
LosesOnlyOverflow ==
  [][\A s \in Streams :
       /\ Len(buf'[s]) <= Cap
       /\ truncated'[s] > truncated[s] =>
            Len(buf'[s]) = Cap /\ buf'[s][Cap] = sent[s] - Len(pipe[s])]_streamVars

\* No client sees the end of a stream of a process it is then told is running:
\* the wait task sets the state before it closes the buffers.
EofAfterExit == eofSaid # {} => recorded

\* Of concurrent writes each reaches the child in one piece ("forward the input
\* bytes to the child's stdin verbatim").
WritesWhole ==
  \A i, k \in 1..Len(stdin) : stdin[i] = stdin[k] => \A j \in i..k : stdin[j] = stdin[i]

\* A write ends once the child and its heirs are gone, and frees those behind it:
\* one whose input nobody reads does not hold stdin's mutex for ever.
WriteEndsWithChild ==
  \A h \in Callers : child = "gone" /\ at[h] \in WritePC ~> at[h] = "idle"

\* "`wait` SHALL block until the process exits or the optional timeout elapses": every
\* read and wait that sleeps before the wait task notifies ends with the child, all of
\* them and without their timeouts.  (One that looked at the state before it was set
\* and registers after the notification sleeps its whole timeout.)
SleeperSeesExit ==
  \A h \in Callers :
    child # "running" /\ waiter # "done" /\ at[h] \in {"asleep", "waitAsleep"} ~> at[h] = "idle"

\* "`eof_stdout:true` once they have all been delivered": when a read first reports
\* the end of a stream, nothing of it is still to come.
EofMeansAll ==
  [][\A s \in eofSaid' \ eofSaid : Pending(s)' = <<>>]_streamVars
=============================================================================
