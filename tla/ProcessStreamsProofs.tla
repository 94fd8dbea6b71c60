------------------------ MODULE ProcessStreamsProofs ------------------------
(***************************************************************************)
(* Proofs about ProcessStreams for any number of handlers, any buffer and  *)
(* chunk size: type correctness, that no stream is ended for a client      *)
(* while the process runs, that concurrent writes do not mix, and that     *)
(* each stream implements the lossy stream of LossyStreams.                *)
(***************************************************************************)
EXTENDS ProcessStreams, SequenceTheorems, TLAPS

\* A slice of a sequence.
LEMMA SliceFacts ==
  ASSUME NEW q \in Seq(Nat), NEW n \in 0..Len(q)
  PROVE  /\ First(q, n) \in Seq(Nat)
         /\ Len(First(q, n)) = n
         /\ \A i \in 1..n : First(q, n)[i] = q[i]
         /\ Rest(q, n) \in Seq(Nat)
         /\ Len(Rest(q, n)) = Len(q) - n
         /\ \A i \in 1..(Len(q) - n) : Rest(q, n)[i] = q[n + i]
BY DEF First, Rest

LEMMA JoinFacts ==
  ASSUME NEW p \in Seq(Nat), NEW q \in Seq(Nat)
  PROVE  /\ p \o q \in Seq(Nat)
         /\ Len(p \o q) = Len(p) + Len(q)
         /\ \A i \in 1..Len(p) : (p \o q)[i] = p[i]
         /\ \A i \in 1..Len(q) : (p \o q)[Len(p) + i] = q[i]
OBVIOUS

LEMMA JoinAssociative ==
  \A p, q, r \in Seq(Nat) : (p \o q) \o r = p \o (q \o r)
BY ConcatAssociative

LEMMA AtMostFacts ==
  ASSUME NEW m \in Nat, NEW n \in Nat
  PROVE  AtMost(m, n) \in 0..n /\ (m > 0 /\ n > 0 => AtMost(m, n) > 0)
BY DEF AtMost

LEMMA OverflowFacts ==
  ASSUME StreamTypeOK, NEW s \in Streams
  PROVE  LET l == Len(buf[s] \o chunk[s]) IN
         /\ Overflow(s) \in 0..l
         /\ l - Overflow(s) <= Cap
         /\ Overflow(s) > 0 => l - Overflow(s) = Cap
<1>. DEFINE l == Len(buf[s] \o chunk[s])
<1>1. l \in Nat
  BY JoinFacts, LenProperties DEF StreamTypeOK
<1>2. Cap \in Nat
  BY StreamAssumption DEF StreamAssumption
<1>3. \A a, c \in Nat :
        LET v == IF a <= c THEN 0 ELSE a - c IN
        v \in 0..a /\ a - v <= c /\ (v > 0 => a - v = c)
  OBVIOUS
<1>4. Overflow(s) = IF l <= Cap THEN 0 ELSE l - Cap
  BY DEF Overflow
<1>. HIDE DEF l
<1>5. Overflow(s) \in 0..l /\ l - Overflow(s) <= Cap /\ (Overflow(s) > 0 => l - Overflow(s) = Cap)
  BY <1>1, <1>2, <1>3, <1>4
<1>. QED BY <1>5 DEF l
----------------------------------------------------------------------------
\* The locals of a handler that answers or is dropped.
LEMMA FinishTypes ==
  ASSUME StreamTypeOK, NEW h \in Callers, Answer(h)
  PROVE  /\ at' \in [Callers -> {"idle"} \union ReadPC \union WaitPC \union WritePC]
         /\ max' \in [Callers -> Nat]
         /\ patient' \in [Callers -> BOOLEAN]
         /\ found' \in [Callers -> BOOLEAN]
         /\ woken' \in [Callers -> BOOLEAN]
         /\ wid' \in [Callers -> Nat]
         /\ left' \in [Callers -> Nat]
BY DEF StreamTypeOK, Answer, Turn

\* The child, the drain tasks and the wait task.
LEMMA TaskTypes ==
  ASSUME StreamTypeOK, \/ ChildExits \/ WaitTaskStep
                 \/ \E s \in Streams : Emit(s) \/ DrainRead(s) \/ Push(s)
  PROVE  StreamTypeOK'
<1>. USE StreamTypeOK
<1>1. CASE ChildExits
  BY <1>1 DEF StreamTypeOK, ChildExits, streams, input, own
<1>2. CASE Record
  BY <1>2 DEF StreamTypeOK, Record, streams, input, own
<1>3. CASE CloseOut \/ CloseErr
  BY <1>3 DEF StreamTypeOK, CloseOut, CloseErr, Close, Notify, Streams, input
<1>4. CASE NotifyExit
  BY <1>4 DEF StreamTypeOK, NotifyExit, Notify, streams, input
<1>5. ASSUME NEW s \in Streams, Emit(s)
      PROVE  StreamTypeOK'
  <2>1. Append(pipe[s], sent[s] + 1) \in Seq(Nat) /\ sent[s] + 1 \in Nat
    BY DEF StreamTypeOK
  <2>2. sent' \in [Streams -> Nat]
    BY <1>5, <2>1 DEF StreamTypeOK, Emit
  <2>3. pipe' \in [Streams -> Seq(Nat)]
    BY <1>5, <2>1 DEF StreamTypeOK, Emit
  <2>. QED BY <1>5, <2>2, <2>3 DEF StreamTypeOK, Emit, childVars, input, own
<1>6. ASSUME NEW s \in Streams, DrainRead(s)
      PROVE  StreamTypeOK'
  <2>0. pipe[s] \in Seq(Nat) /\ Len(pipe[s]) \in Nat /\ ChunkSize \in Nat
    BY StreamAssumption DEF StreamAssumption, StreamTypeOK
  <2>1. AtMost(ChunkSize, Len(pipe[s])) \in 0..Len(pipe[s])
    BY <2>0, AtMostFacts
  <2>2. \A n \in 0..Len(pipe[s]) : First(pipe[s], n) \in Seq(Nat) /\ Rest(pipe[s], n) \in Seq(Nat)
    BY SliceFacts DEF StreamTypeOK
  <2>. QED BY <1>6, <2>1, <2>2 DEF StreamTypeOK, DrainRead, childVars, input, own
<1>7. ASSUME NEW s \in Streams, Push(s)
      PROVE  StreamTypeOK'
  <2>1. buf[s] \in Seq(Nat) /\ chunk[s] \in Seq(Nat) /\ truncated[s] \in Nat
    BY DEF StreamTypeOK
  <2>2. /\ buf[s] \o chunk[s] \in Seq(Nat)
        /\ Overflow(s) \in 0..Len(buf[s] \o chunk[s])
    BY <2>1, OverflowFacts, JoinFacts
  <2>3. Rest(buf[s] \o chunk[s], Overflow(s)) \in Seq(Nat)
    BY <2>2, SliceFacts
  <2>4. truncated[s] + Overflow(s) \in Nat /\ <<>> \in Seq(Nat)
    BY <2>1, <2>2
  <2>5. /\ buf' \in [Streams -> Seq(Nat)]
        /\ chunk' \in [Streams -> Seq(Nat)]
        /\ truncated' \in [Streams -> Nat]
    BY <1>7, <2>3, <2>4 DEF StreamTypeOK, Push
  <2>. QED BY <1>7, <2>5 DEF StreamTypeOK, Push, Notify, childVars, input
<1>. QED BY <1>1, <1>2, <1>3, <1>4, <1>5, <1>6, <1>7 DEF WaitTaskStep

LEMMA DrainTypes ==
  ASSUME StreamTypeOK, NEW h \in Callers, NEW s \in Streams, Drain(h, s)
  PROVE  /\ buf' \in [Streams -> Seq(Nat)]
         /\ truncated' \in [Streams -> Nat]
         /\ piece' \in [Streams -> [bytes : Seq(Nat), lossy : BOOLEAN]]
         /\ eofSaid' \subseteq Streams
         /\ found' \in [Callers -> BOOLEAN]
<1>0. buf[s] \in Seq(Nat) /\ Len(buf[s]) \in Nat /\ max[h] \in Nat
  BY DEF StreamTypeOK
<1>1. AtMost(max[h], Len(buf[s])) \in 0..Len(buf[s])
  BY <1>0, AtMostFacts
<1>2. \A n \in 0..Len(buf[s]) : First(buf[s], n) \in Seq(Nat) /\ Rest(buf[s], n) \in Seq(Nat)
  BY SliceFacts DEF StreamTypeOK
<1>3. (truncated[s] > 0) \in BOOLEAN
  OBVIOUS
<1>4. piece' \in [Streams -> [bytes : Seq(Nat), lossy : BOOLEAN]]
  BY <1>1, <1>2, <1>3 DEF StreamTypeOK, Drain
<1>. QED BY <1>1, <1>2, <1>4 DEF StreamTypeOK, Drain

\* The handlers.
LEMMA HandlerTypes ==
  ASSUME StreamTypeOK, NEW h \in Callers,
         \/ ReadRequest(h) \/ DrainOut(h) \/ DrainErr(h) \/ Register(h) \/ Wake(h)
         \/ Reply(h) \/ WaitRequest(h) \/ WriteRequest(h) \/ WriteStep(h) \/ Disconnect(h)
  PROVE  StreamTypeOK'
<1>. USE StreamTypeOK
<1>1. CASE ReadRequest(h)
  BY <1>1, StreamAssumption
     DEF StreamTypeOK, ReadRequest, Turn, ReadPC, StreamAssumption, childVars, streams, input
<1>2. CASE DrainOut(h)
  BY <1>2, DrainTypes DEF StreamTypeOK, DrainOut, Drain, Turn, ReadPC, Streams, childVars, input
<1>3. CASE DrainErr(h)
  BY <1>3, DrainTypes DEF StreamTypeOK, DrainErr, Drain, Turn, ReadPC, Streams, childVars, input
<1>4. CASE Register(h) \/ WaitRequest(h)
  BY <1>4 DEF StreamTypeOK, Register, WaitRequest, Turn, ReadPC, WaitPC, childVars, streams, input, own
<1>5. CASE Wake(h)
  BY <1>5 DEF StreamTypeOK, Wake, Turn, ReadPC, childVars, streams, input
<1>6. CASE Reply(h)
  BY <1>6, FinishTypes DEF StreamTypeOK, Reply, childVars, streams, input
<1>7. CASE WriteRequest(h)
  BY <1>7, StreamAssumption
     DEF StreamTypeOK, WriteRequest, Turn, WritePC, StreamAssumption, childVars, streams
<1>8. CASE TakeStdin(h)
  <2>1. CASE Answer(h)
    BY <1>8, <2>1, FinishTypes DEF StreamTypeOK, TakeStdin, childVars, streams
  <2>2. CASE ~Answer(h)
    BY <1>8, <2>2 DEF StreamTypeOK, TakeStdin, Turn, WritePC, childVars, streams, own
  <2>. QED BY <2>1, <2>2
<1>9. CASE WriteByte(h)
  <2>1. Append(stdin, wid[h]) \in Seq(Nat)
    BY DEF StreamTypeOK
  <2>. QED BY <1>9, <2>1 DEF StreamTypeOK, WriteByte, childVars, streams
<1>10. CASE WriteEnd(h)
  BY <1>10, FinishTypes DEF StreamTypeOK, WriteEnd, childVars, streams
<1>11. CASE Disconnect(h)
  BY <1>11, FinishTypes DEF StreamTypeOK, Disconnect, childVars, streams
<1>. QED BY <1>1, <1>2, <1>3, <1>4, <1>5, <1>6, <1>7, <1>8, <1>9, <1>10, <1>11 DEF WriteStep

\* The variables keep their types, for any number of handlers and any capacity.
THEOREM TypeCorrect == StreamSpec => []StreamTypeOK
<1>1. ASSUME StreamInit
      PROVE  StreamTypeOK
  <2>1. <<>> \in Seq(Nat) /\ [bytes |-> <<>>, lossy |-> FALSE] \in [bytes : Seq(Nat), lossy : BOOLEAN]
    OBVIOUS
  <2>2. piece \in [Streams -> [bytes : Seq(Nat), lossy : BOOLEAN]]
    BY <1>1, <2>1 DEF StreamInit
  <2>. QED BY <1>1, <2>1, <2>2 DEF StreamInit, StreamTypeOK
<1>2. StreamTypeOK /\ [StreamNext]_streamVars => StreamTypeOK'
  <2>1. StreamTypeOK /\ UNCHANGED streamVars => StreamTypeOK'
    BY DEF StreamTypeOK, streamVars, childVars, streams, input, own
  <2>. QED BY <2>1, TaskTypes, HandlerTypes DEF StreamNext
<1>. QED BY <1>1, <1>2, PTL DEF StreamSpec
----------------------------------------------------------------------------
\* The state is set before the first buffer is closed.
ClosedAfterExit ==
  /\ waiter # "waiting" => recorded
  /\ \A s \in Streams : closed[s] => waiter # "waiting"

\* No read ends a stream of a process that the answer then calls running.
THEOREM EofFollowsExit == StreamSpec => []EofAfterExit
<1>. DEFINE Inv == ClosedAfterExit /\ EofAfterExit
<1>1. StreamInit => Inv
  BY DEF StreamInit, ClosedAfterExit, EofAfterExit
<1>2. StreamTypeOK /\ Inv /\ [StreamNext]_streamVars => Inv'
  <2>. SUFFICES ASSUME StreamTypeOK, Inv, [StreamNext]_streamVars PROVE Inv'
    OBVIOUS
  <2>1. CASE WaitTaskStep
    BY <2>1 DEF StreamTypeOK, ClosedAfterExit, EofAfterExit, WaitTaskStep, Record, CloseOut, CloseErr,
                Close, NotifyExit, Notify, Streams, streams
  <2>2. CASE \E h \in Callers : DrainOut(h) \/ DrainErr(h)
    BY <2>2 DEF ClosedAfterExit, EofAfterExit, DrainOut, DrainErr, Drain, Streams, childVars
  <2>3. CASE UNCHANGED <<recorded, waiter, closed, eofSaid>>
    BY <2>3 DEF ClosedAfterExit, EofAfterExit
  <2>. QED
    BY <2>1, <2>2, <2>3
       DEF StreamNext, WriteStep, streamVars, childVars, streams, ChildExits, Emit, DrainRead, Push, ReadRequest,
           Register, Wake, Reply, WaitRequest, WriteRequest, TakeStdin, WriteByte, WriteEnd, Disconnect
<1>. QED BY <1>1, <1>2, TypeCorrect, PTL DEF StreamSpec
----------------------------------------------------------------------------
\* A write that has stdin in its hands holds the mutex, and the bytes that
\* reached the child last are its own; one that waits has written nothing.
StdinInv ==
  /\ \A h \in Callers : at[h] = "writing" => lock = h
  /\ \A h \in Callers : at[h] \in WritePC => wid[h] \in 1..writes
  /\ \A h, g \in Callers :
       at[h] \in WritePC /\ at[g] \in WritePC /\ wid[h] = wid[g] => h = g
  /\ \A i \in 1..Len(stdin) : stdin[i] \in 1..writes
  /\ \A h \in Callers, i \in 1..Len(stdin) : at[h] = "lock" => stdin[i] # wid[h]
  /\ \A h \in Callers, i, j \in 1..Len(stdin) :
       at[h] = "writing" /\ i <= j /\ stdin[i] = wid[h] => stdin[j] = wid[h]

\* Concurrent writes reach the child's stdin one after the other.
THEOREM WritesStayWhole == StreamSpec => []WritesWhole
<1>. DEFINE Inv == StdinInv /\ WritesWhole
<1>1. StreamInit => Inv
  BY DEF StreamInit, StdinInv, WritesWhole, WritePC
<1>2. StreamTypeOK /\ Inv /\ [StreamNext]_streamVars => Inv'
  <2>. SUFFICES ASSUME StreamTypeOK, Inv, [StreamNext]_streamVars PROVE Inv'
    OBVIOUS
  \* A step that starts no write, and in which no handler enters WritePC.
  <2>1. ASSUME UNCHANGED <<stdin, writes>>,
               \A h \in Callers : at'[h] \in WritePC => at'[h] = at[h] /\ wid'[h] = wid[h],
               UNCHANGED lock \/ \A h \in Callers : at'[h] # "writing"
        PROVE  Inv'
    <3>1. WritesWhole'
      BY <2>1 DEF WritesWhole
    <3>2. /\ \A g \in Callers : at'[g] \in WritePC => at[g] \in WritePC /\ wid'[g] = wid[g]
          /\ \A g \in Callers : at'[g] = "lock" => at[g] = "lock" /\ wid'[g] = wid[g]
          /\ \A g \in Callers : at'[g] = "writing" => at[g] = "writing" /\ wid'[g] = wid[g]
      BY <2>1 DEF WritePC
    <3>3. \A g \in Callers : at'[g] = "writing" => lock' = g
      BY <2>1, <3>2 DEF StdinInv
    <3>4. /\ \A g \in Callers : at'[g] \in WritePC => wid'[g] \in 1..writes'
          /\ \A g, k \in Callers :
               at'[g] \in WritePC /\ at'[k] \in WritePC /\ wid'[g] = wid'[k] => g = k
          /\ \A i \in 1..Len(stdin') : stdin'[i] \in 1..writes'
      BY <2>1, <3>2 DEF StdinInv
    <3>5. \A g \in Callers, i \in 1..Len(stdin') : at'[g] = "lock" => stdin'[i] # wid'[g]
      BY <2>1, <3>2 DEF StdinInv
    <3>6. \A g \in Callers, i, j \in 1..Len(stdin') :
            at'[g] = "writing" /\ i <= j /\ stdin'[i] = wid'[g] => stdin'[j] = wid'[g]
      BY <2>1, <3>2 DEF StdinInv
    <3>. QED BY <3>1, <3>3, <3>4, <3>5, <3>6 DEF StdinInv
  <2>2. ASSUME NEW h \in Callers, WriteRequest(h)
        PROVE  Inv'
    <3>1. /\ writes \in Nat /\ writes' = writes + 1
          /\ at[h] = "idle" /\ at'[h] = "lock" /\ wid'[h] = writes + 1
          /\ \A g \in Callers : g # h => at'[g] = at[g] /\ wid'[g] = wid[g]
          /\ UNCHANGED <<stdin, lock>>
      BY <2>2 DEF StreamTypeOK, WriteRequest, Turn
    <3>2. \A n \in 1..writes : n \in 1..writes' /\ n # writes'
      BY <3>1
    <3>3. writes' \in 1..writes'
      BY <3>1
    <3>4. WritesWhole'
      BY <3>1 DEF WritesWhole
    <3>5. \A g \in Callers : at'[g] \in WritePC => wid'[g] \in 1..writes'
      BY <3>1, <3>2, <3>3 DEF StdinInv
    <3>6. \A g, k \in Callers :
            at'[g] \in WritePC /\ at'[k] \in WritePC /\ wid'[g] = wid'[k] => g = k
      BY <3>1, <3>2 DEF StdinInv
    <3>7. \A i \in 1..Len(stdin') : stdin'[i] \in 1..writes' /\ stdin'[i] # writes'
      BY <3>1, <3>2 DEF StdinInv
    <3>. QED BY <3>1, <3>4, <3>5, <3>6, <3>7 DEF StdinInv
  <2>3. ASSUME NEW h \in Callers, TakeStdin(h)
        PROVE  Inv'
    <3>1. CASE slot = "open"
      <4>1. /\ lock = NoHandler /\ lock' = h /\ at[h] = "lock" /\ at'[h] = "writing"
            /\ \A g \in Callers : g # h => at'[g] = at[g]
            /\ UNCHANGED <<stdin, writes, wid>>
        BY <2>3, <3>1 DEF StreamTypeOK, TakeStdin, Turn, own
      <4>2. \A g \in Callers : at[g] # "writing"
        BY <4>1, StreamAssumption DEF StdinInv, StreamAssumption
      <4>3. WritesWhole' /\ \A g \in Callers : at'[g] \in WritePC => at[g] \in WritePC
        BY <4>1 DEF WritesWhole, WritePC
      <4>. QED BY <4>1, <4>2, <4>3 DEF StdinInv
    <3>2. CASE slot # "open"
      BY <2>3, <3>2, <2>1 DEF StreamTypeOK, TakeStdin, Answer, Turn, WritePC
    <3>. QED BY <3>1, <3>2
  <2>4. ASSUME NEW h \in Callers, WriteByte(h)
        PROVE  Inv'
    <3>1. /\ stdin \in Seq(Nat) /\ wid[h] \in Nat
          /\ Len(stdin') = Len(stdin) + 1
          /\ \A i \in 1..Len(stdin) : stdin'[i] = stdin[i]
          /\ stdin'[Len(stdin) + 1] = wid[h]
      BY <2>4 DEF StreamTypeOK, WriteByte
    <3>2. \A i \in 1..Len(stdin') : i \in 1..Len(stdin) \/ i = Len(stdin) + 1
      BY <3>1
    <3>3. WritesWhole'
      <4>. SUFFICES ASSUME NEW i \in 1..Len(stdin'), NEW k \in 1..Len(stdin'), NEW j \in i..k,
                           stdin'[i] = stdin'[k]
                    PROVE  stdin'[j] = stdin'[i]
        BY DEF WritesWhole
      <4>1. CASE k \in 1..Len(stdin)
        <5>1. i \in 1..Len(stdin) /\ j \in 1..Len(stdin)
          BY <3>1, <4>1
        <5>. QED BY <3>1, <4>1, <5>1 DEF WritesWhole
      <4>2. CASE k = Len(stdin) + 1 /\ i # k /\ j # k
        <5>1. i \in 1..Len(stdin) /\ j \in 1..Len(stdin) /\ i <= j
          BY <3>1, <4>2
        <5>2. at[h] = "writing" /\ stdin[i] = wid[h]
          BY <2>4, <3>1, <4>2, <5>1 DEF WriteByte
        <5>. QED BY <3>1, <5>1, <5>2 DEF StdinInv
      <4>3. CASE i = k \/ j = k
        <5>1. i = k => j = i
          BY <3>1
        <5>. QED BY <4>3, <5>1
      <4>. QED BY <3>2, <4>1, <4>2, <4>3
    <3>4. StdinInv'
      BY <2>4, <3>1, <3>2 DEF StdinInv, WriteByte, WritePC
    <3>. QED BY <3>3, <3>4
  <2>5. ASSUME NEW h \in Callers, WriteEnd(h) \/ Disconnect(h)
        PROVE  Inv'
    <3>1. /\ UNCHANGED <<stdin, writes>>
          /\ \A g \in Callers : at'[g] \in WritePC => g # h /\ at'[g] = at[g] /\ wid'[g] = wid[g]
      BY <2>5 DEF StreamTypeOK, WriteEnd, Disconnect, Answer, Turn, WritePC
    <3>2. at[h] # "writing" => UNCHANGED lock
      BY <2>5 DEF WriteEnd, Disconnect
    <3>3. at[h] = "writing" => \A g \in Callers : at'[g] # "writing"
      BY <3>1 DEF StdinInv, WritePC
    <3>. QED BY <2>1, <3>1, <3>2, <3>3
  <2>6. ASSUME NEW h \in Callers,
               \/ ReadRequest(h) \/ DrainOut(h) \/ DrainErr(h) \/ Register(h)
               \/ Wake(h) \/ Reply(h) \/ WaitRequest(h)
        PROVE  Inv'
    <3>1. UNCHANGED <<stdin, writes, lock>>
      BY <2>6 DEF ReadRequest, DrainOut, DrainErr, Drain, Register, Wake, Reply, WaitRequest, input
    <3>2. \A g \in Callers : at'[g] \in WritePC => at'[g] = at[g] /\ wid'[g] = wid[g]
      BY <2>6 DEF StreamTypeOK, ReadRequest, DrainOut, DrainErr, Drain, Register, Wake, Reply,
                  WaitRequest, Answer, Turn, WritePC, own
    <3>. QED BY <2>1, <3>1, <3>2
  <2>7. CASE UNCHANGED <<stdin, writes, lock, at, wid>>
    BY <2>7, <2>1
  <2>. QED
    BY <2>2, <2>3, <2>4, <2>5, <2>6, <2>7
       DEF StreamNext, WriteStep, streamVars, input, own, WaitTaskStep, Record, CloseOut, CloseErr, Close,
           NotifyExit, Notify, ChildExits, Emit, DrainRead, Push
<1>. QED BY <1>1, <1>2, TypeCorrect, PTL DEF StreamSpec
----------------------------------------------------------------------------
\* Bytes of s that a read has returned, or that are lost.
Gone(s) == sent[s] - Len(Pending(s))

\* What is left of a stream is its newest bytes, in order and without a hole; the
\* ring is never longer than its capacity.
Numbered ==
  \A s \in Streams :
    /\ Len(Pending(s)) <= sent[s]
    /\ \A i \in 1..Len(Pending(s)) : Pending(s)[i] = Gone(s) + i
    /\ Len(buf[s]) <= Cap

LEMMA PendingFacts ==
  ASSUME StreamTypeOK, NEW s \in Streams
  PROVE  /\ buf[s] \in Seq(Nat) /\ chunk[s] \in Seq(Nat) /\ pipe[s] \in Seq(Nat)
         /\ Len(buf[s]) \in Nat /\ Len(chunk[s]) \in Nat /\ Len(pipe[s]) \in Nat
         /\ Pending(s) \in Seq(Nat)
         /\ Len(Pending(s)) = Len(buf[s]) + Len(chunk[s]) + Len(pipe[s])
         /\ sent[s] \in Nat /\ Gone(s) \in Int
<1>1. /\ buf[s] \in Seq(Nat) /\ chunk[s] \in Seq(Nat) /\ pipe[s] \in Seq(Nat)
      /\ Len(buf[s]) \in Nat /\ Len(chunk[s]) \in Nat /\ Len(pipe[s]) \in Nat
      /\ sent[s] \in Nat
  BY DEF StreamTypeOK
<1>2. buf[s] \o chunk[s] \in Seq(Nat) /\ Len(buf[s] \o chunk[s]) = Len(buf[s]) + Len(chunk[s])
  BY <1>1, JoinFacts
<1>3. Pending(s) \in Seq(Nat) /\ Len(Pending(s)) = Len(buf[s] \o chunk[s]) + Len(pipe[s])
  BY <1>1, <1>2, JoinFacts DEF Pending
<1>4. Gone(s) \in Int
  <2>1. Len(Pending(s)) \in Nat
    BY <1>3, LenProperties
  <2>. QED BY <1>1, <2>1 DEF Gone
<1>. QED BY <1>1, <1>2, <1>3, <1>4

LEMMA SliceJoin ==
  ASSUME NEW q \in Seq(Nat), NEW n \in 0..Len(q)
  PROVE  First(q, n) \o Rest(q, n) = q
<1>1. Len(q) \in Nat /\ n \in Nat
  OBVIOUS
<1>2. /\ First(q, n) \in Seq(Nat) /\ Len(First(q, n)) = n
      /\ \A i \in 1..n : First(q, n)[i] = q[i]
      /\ Rest(q, n) \in Seq(Nat) /\ Len(Rest(q, n)) = Len(q) - n
      /\ \A i \in 1..(Len(q) - n) : Rest(q, n)[i] = q[n + i]
  BY SliceFacts
<1>3. /\ First(q, n) \o Rest(q, n) \in Seq(Nat)
      /\ Len(First(q, n) \o Rest(q, n)) = Len(First(q, n)) + Len(Rest(q, n))
      /\ \A i \in 1..(Len(First(q, n)) + Len(Rest(q, n))) :
           (First(q, n) \o Rest(q, n))[i] =
             IF i <= Len(First(q, n)) THEN First(q, n)[i] ELSE Rest(q, n)[i - Len(First(q, n))]
  BY <1>2, ConcatProperties
<1>4. Len(First(q, n) \o Rest(q, n)) = Len(q)
  BY <1>1, <1>2, <1>3
<1>5. ASSUME NEW i \in 1..Len(q)
      PROVE  (First(q, n) \o Rest(q, n))[i] = q[i]
  <2>1. CASE i <= n
    BY <1>1, <1>2, <1>3, <2>1
  <2>2. CASE ~(i <= n)
    <3>1. i - n \in 1..(Len(q) - n) /\ n + (i - n) = i
      BY <1>1, <2>2
    <3>2. (First(q, n) \o Rest(q, n))[i] = Rest(q, n)[i - n]
      BY <1>1, <1>2, <1>3, <2>2
    <3>. QED BY <1>2, <3>1, <3>2
  <2>. QED BY <2>1, <2>2
<1>. QED BY <1>3, <1>4, <1>5, SeqEqual

\* Dropping a prefix of the first of two sequences drops it from their join.
LEMMA RestOfJoin ==
  ASSUME NEW p \in Seq(Nat), NEW q \in Seq(Nat), NEW n \in 0..Len(p)
  PROVE  Rest(p, n) \o q = Rest(p \o q, n)
<1>1. Len(p) \in Nat /\ Len(q) \in Nat
  OBVIOUS
<1>2. /\ p \o q \in Seq(Nat) /\ Len(p \o q) = Len(p) + Len(q)
      /\ \A i \in 1..(Len(p) + Len(q)) :
           (p \o q)[i] = IF i <= Len(p) THEN p[i] ELSE q[i - Len(p)]
  BY ConcatProperties
<1>3. /\ Rest(p, n) \in Seq(Nat) /\ Len(Rest(p, n)) = Len(p) - n
      /\ \A i \in 1..(Len(p) - n) : Rest(p, n)[i] = p[n + i]
  BY SliceFacts
<1>4. /\ Rest(p \o q, n) \in Seq(Nat) /\ Len(Rest(p \o q, n)) = Len(p) + Len(q) - n
      /\ \A i \in 1..(Len(p) + Len(q) - n) : Rest(p \o q, n)[i] = (p \o q)[n + i]
  <2>1. n \in 0..Len(p \o q)
    BY <1>1, <1>2
  <2>2. /\ Rest(p \o q, n) \in Seq(Nat)
        /\ Len(Rest(p \o q, n)) = Len(p \o q) - n
        /\ \A i \in 1..(Len(p \o q) - n) : Rest(p \o q, n)[i] = (p \o q)[n + i]
    BY <1>2, <2>1, SliceFacts
  <2>. QED BY <1>2, <2>2
<1>5. /\ Rest(p, n) \o q \in Seq(Nat) /\ Len(Rest(p, n) \o q) = Len(p) - n + Len(q)
      /\ \A i \in 1..(Len(p) - n + Len(q)) :
           (Rest(p, n) \o q)[i] = IF i <= Len(p) - n THEN Rest(p, n)[i] ELSE q[i - (Len(p) - n)]
  <2>1. /\ Rest(p, n) \o q \in Seq(Nat) /\ Len(Rest(p, n) \o q) = Len(Rest(p, n)) + Len(q)
        /\ \A i \in 1..(Len(Rest(p, n)) + Len(q)) :
             (Rest(p, n) \o q)[i] = IF i <= Len(Rest(p, n)) THEN Rest(p, n)[i]
                                                           ELSE q[i - Len(Rest(p, n))]
    BY <1>3, ConcatProperties
  <2>. QED BY <1>3, <2>1
<1>6. Len(Rest(p, n) \o q) = Len(Rest(p \o q, n))
  BY <1>1, <1>4, <1>5
<1>7. ASSUME NEW i \in 1..Len(Rest(p, n) \o q)
      PROVE  (Rest(p, n) \o q)[i] = Rest(p \o q, n)[i]
  <2>1. /\ i \in 1..(Len(p) - n + Len(q)) /\ i \in 1..(Len(p) + Len(q) - n)
        /\ n + i \in 1..(Len(p) + Len(q))
    BY <1>1, <1>5
  <2>2. Rest(p \o q, n)[i] = IF n + i <= Len(p) THEN p[n + i] ELSE q[n + i - Len(p)]
    BY <1>2, <1>4, <2>1
  <2>3. CASE n + i <= Len(p)
    BY <1>1, <1>3, <1>5, <2>1, <2>2, <2>3
  <2>4. CASE ~(n + i <= Len(p))
    BY <1>1, <1>5, <2>1, <2>2, <2>4
  <2>. QED BY <2>3, <2>4
<1>. QED BY <1>4, <1>5, <1>6, <1>7, SeqEqual

\* What a step on stream s leaves of the other ones.
OtherStreams(s) ==
  \A t \in Streams \ {s} :
    /\ Pending(t)' = Pending(t)
    /\ sent'[t] = sent[t] /\ buf'[t] = buf[t] /\ pipe'[t] = pipe[t]
    /\ truncated'[t] = truncated[t] /\ piece'[t] = piece[t]

LEMMA EmitEffect ==
  ASSUME StreamTypeOK, NEW s \in Streams, Emit(s)
  PROVE  /\ Pending(s)' = Append(Pending(s), sent[s] + 1)
         /\ OtherStreams(s)
<1>1. /\ pipe'[s] = Append(pipe[s], sent[s] + 1) /\ buf' = buf /\ chunk' = chunk
      /\ \A t \in Streams \ {s} : pipe'[t] = pipe[t] /\ sent'[t] = sent[t]
      /\ UNCHANGED <<truncated, piece>>
  BY DEF StreamTypeOK, Emit
<1>2. sent[s] + 1 \in Nat /\ buf[s] \o chunk[s] \in Seq(Nat) /\ pipe[s] \in Seq(Nat)
  <2>1. sent[s] \in Nat /\ buf[s] \in Seq(Nat) /\ chunk[s] \in Seq(Nat) /\ pipe[s] \in Seq(Nat)
    BY PendingFacts
  <2>. QED BY <2>1, JoinFacts
<1>3. (buf[s] \o chunk[s]) \o Append(pipe[s], sent[s] + 1)
        = Append((buf[s] \o chunk[s]) \o pipe[s], sent[s] + 1)
  <2>1. (buf[s] \o chunk[s]) \o pipe[s] \in Seq(Nat) /\ <<sent[s] + 1>> \in Seq(Nat)
    BY <1>2, JoinFacts
  <2>2. Append(pipe[s], sent[s] + 1) = pipe[s] \o <<sent[s] + 1>>
    BY <1>2, AppendIsConcat
  <2>3. (buf[s] \o chunk[s]) \o (pipe[s] \o <<sent[s] + 1>>)
          = ((buf[s] \o chunk[s]) \o pipe[s]) \o <<sent[s] + 1>>
    BY <1>2, <2>1, JoinAssociative
  <2>4. Append((buf[s] \o chunk[s]) \o pipe[s], sent[s] + 1)
          = ((buf[s] \o chunk[s]) \o pipe[s]) \o <<sent[s] + 1>>
    BY <1>2, <2>1, AppendIsConcat
  <2>. QED BY <2>2, <2>3, <2>4
<1>. QED BY <1>1, <1>3 DEF Pending, OtherStreams

LEMMA DrainReadEffect ==
  ASSUME StreamTypeOK, NEW s \in Streams, DrainRead(s)
  PROVE  \A t \in Streams : Pending(t)' = Pending(t)
<1>. DEFINE n == AtMost(ChunkSize, Len(pipe[s]))
<1>0. /\ buf[s] \in Seq(Nat) /\ pipe[s] \in Seq(Nat) /\ Len(pipe[s]) \in Nat
      /\ ChunkSize \in Nat /\ chunk[s] = <<>>
  BY PendingFacts, StreamAssumption DEF DrainRead, StreamAssumption
<1>1. n \in 0..Len(pipe[s])
  BY <1>0, AtMostFacts
<1>. HIDE DEF n
<1>2. /\ buf' = buf /\ chunk'[s] = First(pipe[s], n) /\ pipe'[s] = Rest(pipe[s], n)
      /\ \A t \in Streams \ {s} : pipe'[t] = pipe[t] /\ chunk'[t] = chunk[t]
  BY DEF StreamTypeOK, DrainRead, n
<1>3. First(pipe[s], n) \in Seq(Nat) /\ Rest(pipe[s], n) \in Seq(Nat)
  BY <1>0, <1>1, SliceFacts
<1>4. First(pipe[s], n) \o Rest(pipe[s], n) = pipe[s]
  BY <1>0, <1>1, SliceJoin
<1>5. (buf[s] \o First(pipe[s], n)) \o Rest(pipe[s], n) = buf[s] \o pipe[s]
  <2>1. (buf[s] \o First(pipe[s], n)) \o Rest(pipe[s], n)
          = buf[s] \o (First(pipe[s], n) \o Rest(pipe[s], n))
    BY <1>0, <1>3, JoinAssociative
  <2>. QED BY <1>4, <2>1
<1>6. buf[s] \o chunk[s] = buf[s]
  BY <1>0, ConcatEmptySeq
<1>. QED BY <1>2, <1>5, <1>6 DEF Pending

LEMMA PushEffect ==
  ASSUME StreamTypeOK, NEW s \in Streams, Push(s)
  PROVE  /\ Pending(s)' = Rest(Pending(s), Overflow(s))
         /\ OtherStreams(s)
<1>1. /\ buf'[s] = Rest(buf[s] \o chunk[s], Overflow(s)) /\ chunk'[s] = <<>>
      /\ \A t \in Streams \ {s} : buf'[t] = buf[t] /\ chunk'[t] = chunk[t]
                                  /\ truncated'[t] = truncated[t]
      /\ UNCHANGED <<sent, pipe, piece>>
  BY DEF StreamTypeOK, Push
<1>2. /\ buf[s] \o chunk[s] \in Seq(Nat) /\ pipe[s] \in Seq(Nat)
      /\ Overflow(s) \in 0..Len(buf[s] \o chunk[s])
  BY PendingFacts, JoinFacts, OverflowFacts
<1>3. Rest(buf[s] \o chunk[s], Overflow(s)) \in Seq(Nat)
  BY <1>2, SliceFacts
<1>4. buf'[s] \o chunk'[s] = Rest(buf[s] \o chunk[s], Overflow(s))
  BY <1>1, <1>3, ConcatEmptySeq
<1>5. Rest(buf[s] \o chunk[s], Overflow(s)) \o pipe[s]
        = Rest((buf[s] \o chunk[s]) \o pipe[s], Overflow(s))
  BY <1>2, RestOfJoin
<1>. QED BY <1>1, <1>4, <1>5 DEF Pending, OtherStreams

LEMMA DrainEffect ==
  ASSUME StreamTypeOK, NEW h \in Callers, NEW s \in Streams, Drain(h, s)
  PROVE  LET n == AtMost(max[h], Len(buf[s])) IN
         /\ n \in 0..Len(buf[s])
         /\ Pending(s)' = Rest(Pending(s), n)
         /\ OtherStreams(s)
<1>. DEFINE n == AtMost(max[h], Len(buf[s]))
<1>0. /\ buf[s] \in Seq(Nat) /\ chunk[s] \in Seq(Nat) /\ pipe[s] \in Seq(Nat)
      /\ Len(buf[s]) \in Nat /\ Len(chunk[s]) \in Nat /\ max[h] \in Nat
  BY PendingFacts DEF StreamTypeOK
<1>1. n \in 0..Len(buf[s])
  BY <1>0, AtMostFacts
<1>2. /\ buf'[s] = Rest(buf[s], n)
      /\ \A t \in Streams \ {s} : buf'[t] = buf[t] /\ truncated'[t] = truncated[t]
                                  /\ piece'[t] = piece[t]
      /\ UNCHANGED <<sent, chunk, pipe>>
  BY DEF StreamTypeOK, Drain
<1>. HIDE DEF n
<1>3. Rest(buf[s], n) \o chunk[s] = Rest(buf[s] \o chunk[s], n)
  BY <1>0, <1>1, RestOfJoin
<1>4. buf[s] \o chunk[s] \in Seq(Nat) /\ n \in 0..Len(buf[s] \o chunk[s])
  <2>1. buf[s] \o chunk[s] \in Seq(Nat) /\ Len(buf[s] \o chunk[s]) = Len(buf[s]) + Len(chunk[s])
    BY <1>0, JoinFacts
  <2>2. \A a, b \in Nat : n \in 0..a => n \in 0..(a + b)
    OBVIOUS
  <2>. QED BY <1>0, <1>1, <2>1, <2>2
<1>5. Rest(buf[s] \o chunk[s], n) \o pipe[s] = Rest((buf[s] \o chunk[s]) \o pipe[s], n)
  BY <1>0, <1>4, RestOfJoin
<1>6. Pending(s)' = Rest(Pending(s), n) /\ OtherStreams(s)
  BY <1>2, <1>3, <1>5 DEF Pending, OtherStreams
<1>. QED BY <1>1, <1>6 DEF n

\* A prefix of what is pending goes, by a read or by overflow.
LEMMA PrefixGone ==
  ASSUME StreamTypeOK, Numbered, NEW s \in Streams, NEW n \in 0..Len(Pending(s)),
         Pending(s)' = Rest(Pending(s), n), sent'[s] = sent[s]
  PROVE  /\ Gone(s)' = Gone(s) + n
         /\ Len(Pending(s)') <= sent'[s]
         /\ \A i \in 1..Len(Pending(s)') : Pending(s)'[i] = Gone(s)' + i
<1>1. Pending(s) \in Seq(Nat) /\ Len(Pending(s)) \in Nat /\ sent[s] \in Nat /\ Gone(s) \in Int
  BY PendingFacts, LenProperties
<1>2. /\ Len(Pending(s)') = Len(Pending(s)) - n
      /\ \A i \in 1..(Len(Pending(s)) - n) : Pending(s)'[i] = Pending(s)[n + i]
  BY <1>1, SliceFacts
<1>3. Gone(s)' = Gone(s) + n
  BY <1>1, <1>2 DEF Gone
<1>4. n \in Nat /\ Len(Pending(s)) - n <= Len(Pending(s))
  BY <1>1
<1>5. Len(Pending(s)') <= sent'[s]
  <2>1. Len(Pending(s)) <= sent[s]
    BY DEF Numbered
  <2>2. \A a, b, c \in Int : a <= b /\ b <= c => a <= c
    OBVIOUS
  <2>. QED BY <1>1, <1>2, <1>4, <2>1, <2>2
<1>6. ASSUME NEW i \in 1..(Len(Pending(s)) - n)
      PROVE  Pending(s)'[i] = Gone(s)' + i
  <2>1. n + i \in 1..Len(Pending(s)) /\ i \in Nat
    BY <1>1
  <2>2. Pending(s)[n + i] = Gone(s) + (n + i)
    BY <2>1 DEF Numbered
  <2>3. Gone(s) + (n + i) = (Gone(s) + n) + i
    BY <1>1, <1>4, <2>1
  <2>. QED BY <1>2, <1>3, <2>2, <2>3
<1>. QED BY <1>2, <1>3, <1>5, <1>6

\* What Numbered says of the streams a step does not touch.
LEMMA OthersNumbered ==
  ASSUME Numbered, NEW s \in Streams, OtherStreams(s)
  PROVE  \A t \in Streams \ {s} :
           /\ Len(Pending(t)') <= sent'[t]
           /\ \A i \in 1..Len(Pending(t)') : Pending(t)'[i] = Gone(t)' + i
           /\ Len(buf'[t]) <= Cap
BY DEF Numbered, OtherStreams, Gone

LEMMA PushLength ==
  ASSUME StreamTypeOK, NEW s \in Streams, Push(s)
  PROVE  /\ Overflow(s) \in 0..Len(Pending(s))
         /\ Len(buf'[s]) <= Cap
         /\ Overflow(s) > 0 => /\ Len(buf'[s]) = Cap
                               /\ buf'[s][Cap] = Pending(s)[Len(buf[s]) + Len(chunk[s])]
<1>. DEFINE q == buf[s] \o chunk[s]
            n == Overflow(s)
<1>1. /\ buf[s] \in Seq(Nat) /\ chunk[s] \in Seq(Nat) /\ pipe[s] \in Seq(Nat)
      /\ Len(buf[s]) \in Nat /\ Len(chunk[s]) \in Nat /\ Len(pipe[s]) \in Nat
      /\ Len(Pending(s)) = Len(buf[s]) + Len(chunk[s]) + Len(pipe[s])
      /\ Cap \in Nat \ {0}
  BY PendingFacts, StreamAssumption DEF StreamAssumption
<1>2. q \in Seq(Nat) /\ Len(q) = Len(buf[s]) + Len(chunk[s]) /\ Len(q) \in Nat
  BY <1>1, JoinFacts, LenProperties
<1>. HIDE DEF q
<1>3. n \in 0..Len(q) /\ Len(q) - n <= Cap /\ (n > 0 => Len(q) - n = Cap)
  BY OverflowFacts DEF q
<1>4. buf'[s] = Rest(q, n)
  BY DEF Push, StreamTypeOK, q
<1>5. Pending(s) = q \o pipe[s]
  BY DEF Pending, q
<1>. HIDE DEF n
<1>6. /\ Len(Rest(q, n)) = Len(q) - n
      /\ \A i \in 1..(Len(q) - n) : Rest(q, n)[i] = q[n + i]
  BY <1>2, <1>3, SliceFacts
<1>7. n \in 0..Len(Pending(s))
  <2>1. \A a, b \in Nat : n \in 0..a => n \in 0..(a + b)
    OBVIOUS
  <2>2. Len(Pending(s)) = Len(q) + Len(pipe[s]) /\ Len(q) \in Nat
    BY <1>1, <1>2
  <2>. QED BY <1>1, <1>3, <2>1, <2>2
<1>8. ASSUME n > 0
      PROVE  Len(buf'[s]) = Cap /\ buf'[s][Cap] = Pending(s)[Len(q)]
  <2>1. Cap \in 1..(Len(q) - n) /\ n + Cap = Len(q) /\ Len(q) \in 1..Len(q)
    <3>1. \A l, c \in Nat : n \in 0..l /\ l - n = c /\ c # 0
                             => c \in 1..(l - n) /\ n + c = l /\ l \in 1..l
      OBVIOUS
    <3>2. Len(q) \in Nat /\ Len(q) - n = Cap
      BY <1>1, <1>2, <1>3, <1>8
    <3>. QED BY <1>1, <1>3, <3>1, <3>2
  <2>2. (q \o pipe[s])[Len(q)] = q[Len(q)]
    BY <1>1, <1>2, <2>1, JoinFacts
  <2>. QED BY <1>3, <1>4, <1>5, <1>6, <1>8, <2>1, <2>2
<1>9. Len(buf'[s]) <= Cap
  BY <1>3, <1>4, <1>6
<1>. QED BY <1>2, <1>7, <1>8, <1>9 DEF n

\* The effect of any step on the streams.
LEMMA StreamStep ==
  ASSUME [StreamNext]_streamVars
  PROVE  \/ \E s \in Streams : Emit(s) \/ DrainRead(s) \/ Push(s)
         \/ \E h \in Callers, s \in Streams : Drain(h, s)
         \/ UNCHANGED <<sent, pipe, chunk, buf, truncated, piece>>
BY DEF StreamNext, WriteStep, streamVars, streams, WaitTaskStep, Record, CloseOut, CloseErr, Close, NotifyExit,
       ChildExits, ReadRequest, DrainOut, DrainErr, Register, Wake, Reply, WaitRequest,
       WriteRequest, TakeStdin, WriteByte, WriteEnd, Disconnect, Streams

LEMMA NumberedInvariant == StreamSpec => []Numbered
<1>1. StreamInit => Numbered
  <2>. SUFFICES ASSUME StreamInit, NEW s \in Streams PROVE Pending(s) = <<>> /\ sent[s] = 0 /\ buf[s] = <<>>
    BY StreamAssumption DEF Numbered, Gone, StreamAssumption
  <2>. QED BY DEF StreamInit, Pending
<1>2. StreamTypeOK /\ Numbered /\ [StreamNext]_streamVars => Numbered'
  <2>. SUFFICES ASSUME StreamTypeOK, Numbered, [StreamNext]_streamVars PROVE Numbered'
    OBVIOUS
  <2>1. ASSUME NEW s \in Streams, Emit(s)
        PROVE  Numbered'
    <3>1. /\ Pending(s) \in Seq(Nat) /\ Len(Pending(s)) \in Nat /\ sent[s] \in Nat
          /\ sent'[s] = sent[s] + 1 /\ buf' = buf
      BY <2>1, PendingFacts, LenProperties DEF Emit, StreamTypeOK
    <3>2. Pending(s)' = Append(Pending(s), sent[s] + 1) /\ OtherStreams(s)
      BY <2>1, EmitEffect
    <3>3. /\ Len(Pending(s)') = Len(Pending(s)) + 1
          /\ \A i \in 1..Len(Pending(s)) : Pending(s)'[i] = Pending(s)[i]
          /\ Pending(s)'[Len(Pending(s)) + 1] = sent[s] + 1
      BY <3>1, <3>2, AppendProperties
    <3>4. Gone(s)' = Gone(s) /\ Gone(s) + Len(Pending(s)) = sent[s]
      <4>1. \A l, n \in Nat : (n + 1) - (l + 1) = n - l /\ (n - l) + l = n
        OBVIOUS
      <4>. QED BY <3>1, <3>3, <4>1 DEF Gone
    <3>5. \A i \in 1..Len(Pending(s)') : i \in 1..Len(Pending(s)) \/ i = Len(Pending(s)) + 1
      BY <3>1, <3>3
    <3>6. /\ Len(Pending(s)') <= sent'[s]
          /\ \A i \in 1..Len(Pending(s)') : Pending(s)'[i] = Gone(s)' + i
          /\ Len(buf'[s]) <= Cap
      <4>1. Gone(s) \in Int
        BY PendingFacts
      <4>2. Gone(s) + (Len(Pending(s)) + 1) = sent[s] + 1
        BY <3>1, <3>4, <4>1
      <4>. QED BY <3>1, <3>3, <3>4, <3>5, <4>2 DEF Numbered
    <3>. QED BY <3>2, <3>6, OthersNumbered DEF Numbered
  <2>2. ASSUME NEW s \in Streams, DrainRead(s)
        PROVE  Numbered'
    <3>1. UNCHANGED <<sent, buf>>
      BY <2>2 DEF DrainRead
    <3>. QED BY <2>2, <3>1, DrainReadEffect DEF Numbered, Gone
  <2>3. ASSUME NEW s \in Streams, Push(s)
        PROVE  Numbered'
    <3>1. Overflow(s) \in 0..Len(Pending(s)) /\ Len(buf'[s]) <= Cap
      BY <2>3, PushLength
    <3>2. Pending(s)' = Rest(Pending(s), Overflow(s)) /\ OtherStreams(s) /\ sent'[s] = sent[s]
      BY <2>3, PushEffect DEF Push
    <3>. QED BY <3>1, <3>2, PrefixGone, OthersNumbered DEF Numbered
  <2>4. ASSUME NEW h \in Callers, NEW s \in Streams, Drain(h, s)
        PROVE  Numbered'
    <3>. DEFINE n == AtMost(max[h], Len(buf[s]))
    <3>1. n \in 0..Len(buf[s]) /\ Pending(s)' = Rest(Pending(s), n) /\ OtherStreams(s)
      BY <2>4, DrainEffect
    <3>2. buf'[s] = Rest(buf[s], n) /\ sent'[s] = sent[s]
      BY <2>4 DEF Drain, StreamTypeOK
    <3>. HIDE DEF n
    <3>3. /\ n \in 0..Len(Pending(s)) /\ buf[s] \in Seq(Nat) /\ Len(buf[s]) \in Nat /\ n \in Nat
      <4>1. \A a, b, c \in Nat : n \in 0..a => n \in 0..(a + b + c) /\ n \in Nat
        OBVIOUS
      <4>2. /\ buf[s] \in Seq(Nat)
            /\ Len(buf[s]) \in Nat /\ Len(chunk[s]) \in Nat /\ Len(pipe[s]) \in Nat
            /\ Len(Pending(s)) = Len(buf[s]) + Len(chunk[s]) + Len(pipe[s])
        BY PendingFacts
      <4>. QED BY <3>1, <4>1, <4>2
    <3>4. Len(Rest(buf[s], n)) = Len(buf[s]) - n
      BY <3>1, <3>3, SliceFacts
    <3>5. Len(buf'[s]) <= Cap
      BY <3>2, <3>3, <3>4, StreamAssumption DEF Numbered, StreamAssumption
    <3>. QED BY <3>1, <3>2, <3>3, <3>5, PrefixGone, OthersNumbered DEF Numbered
  <2>5. CASE UNCHANGED <<sent, pipe, chunk, buf, truncated, piece>>
    BY <2>5 DEF Numbered, Gone, Pending
  <2>. QED BY <2>1, <2>2, <2>3, <2>4, <2>5, StreamStep
<1>. QED BY <1>1, <1>2, TypeCorrect, PTL DEF StreamSpec

\* The ring drops a byte only when it is full, and keeps the newest ones.
THEOREM RingLosesOnlyOverflow == StreamSpec => LosesOnlyOverflow
<1>. DEFINE A == \A s \in Streams :
               /\ Len(buf'[s]) <= Cap
               /\ truncated'[s] > truncated[s] =>
                    Len(buf'[s]) = Cap /\ buf'[s][Cap] = sent[s] - Len(pipe[s])
<1>1. StreamTypeOK /\ Numbered /\ Numbered' /\ [StreamNext]_streamVars => [A]_streamVars
  <2>. SUFFICES ASSUME StreamTypeOK, Numbered, Numbered', [StreamNext]_streamVars, NEW s \in Streams,
                       truncated'[s] > truncated[s]
                PROVE  Len(buf'[s]) = Cap /\ buf'[s][Cap] = sent[s] - Len(pipe[s])
    BY DEF Numbered
  <2>1. truncated[s] \in Nat
    BY DEF StreamTypeOK
  <2>2. CASE UNCHANGED truncated
    BY <2>1, <2>2
  <2>3. ASSUME NEW h \in Callers, NEW t \in Streams, Drain(h, t)
        PROVE  FALSE
    <3>1. truncated'[s] = truncated[s] \/ truncated'[s] = 0
      BY <2>3 DEF Drain, StreamTypeOK
    <3>. QED BY <2>1, <3>1
  <2>4. ASSUME NEW t \in Streams, Push(t)
        PROVE  Len(buf'[s]) = Cap /\ buf'[s][Cap] = sent[s] - Len(pipe[s])
    <3>1. t = s
      BY <2>1, <2>4, PushEffect DEF OtherStreams
    <3>2. truncated'[s] = truncated[s] + Overflow(s) /\ Push(s)
      BY <2>4, <3>1 DEF Push, StreamTypeOK
    <3>3. /\ Overflow(s) \in Int
          /\ Overflow(s) > 0 => /\ Len(buf'[s]) = Cap
                                /\ buf'[s][Cap] = Pending(s)[Len(buf[s]) + Len(chunk[s])]
      <4>1. Overflow(s) \in 0..Len(buf[s] \o chunk[s])
        BY OverflowFacts
      <4>2. Overflow(s) \in Int
        BY <4>1
      <4>. QED BY <3>2, <4>2, PushLength
    <3>4. Overflow(s) > 0
      BY <2>1, <3>2, <3>3
    <3>5. /\ Len(buf[s]) \in Nat /\ Len(chunk[s]) \in Nat /\ Len(pipe[s]) \in Nat /\ sent[s] \in Nat
          /\ Len(Pending(s)) = Len(buf[s]) + Len(chunk[s]) + Len(pipe[s])
      BY PendingFacts
    <3>6. Len(buf[s]) + Len(chunk[s]) \in 1..Len(Pending(s))
      <4>1. chunk[s] # <<>> /\ chunk[s] \in Seq(Nat)
        BY <3>2, PendingFacts DEF Push
      <4>2. Len(chunk[s]) # 0
        BY <4>1, EmptySeq
      <4>3. \A b, c, p \in Nat : c # 0 => b + c \in 1..(b + c + p)
        OBVIOUS
      <4>. QED BY <3>5, <4>2, <4>3
    <3>7. Pending(s)[Len(buf[s]) + Len(chunk[s])] = Gone(s) + (Len(buf[s]) + Len(chunk[s]))
      BY <3>6 DEF Numbered
    <3>8. Gone(s) + (Len(buf[s]) + Len(chunk[s])) = sent[s] - Len(pipe[s])
      <4>2. Gone(s) = sent[s] - (Len(buf[s]) + Len(chunk[s]) + Len(pipe[s]))
        BY <3>5 DEF Gone
      <4>3. (sent[s] - (Len(buf[s]) + Len(chunk[s]) + Len(pipe[s]))) + (Len(buf[s]) + Len(chunk[s]))
              = sent[s] - Len(pipe[s])
        <5>1. \A n, a, p \in Nat : (n - (a + p)) + a = n - p
          OBVIOUS
        <5>2. Len(buf[s]) + Len(chunk[s]) \in Nat
          <6>1. \A a, b \in Nat : a + b \in Nat
            OBVIOUS
          <6>. QED BY <3>5, <6>1
        <5>. QED BY <3>5, <5>1, <5>2
      <4>. QED BY <4>2, <4>3
    <3>. QED BY <3>3, <3>4, <3>7, <3>8
  <2>5. \A t \in Streams : Emit(t) \/ DrainRead(t) => UNCHANGED truncated
    BY DEF Emit, DrainRead
  <2>. QED BY <2>2, <2>3, <2>4, <2>5, StreamStep
<1>. QED BY <1>1, TypeCorrect, NumberedInvariant, PTL DEF StreamSpec, LosesOnlyOverflow
----------------------------------------------------------------------------
\* Steps that take a prefix of what is pending move `next' past it.
LEMMA NextMoves ==
  ASSUME StreamTypeOK, Numbered, NEW s \in Streams, NEW n \in 0..Len(Pending(s)),
         Pending(s)' = Rest(Pending(s), n), OtherStreams(s), sent'[s] = sent[s]
  PROVE  [t \in Streams |-> NextByte(t)]'
           = [[t \in Streams |-> NextByte(t)] EXCEPT ![s] = NextByte(s) + n]
<1>1. NextByte(s)' = NextByte(s) + n
  <2>1. Gone(s)' = Gone(s) + n
    BY PrefixGone
  <2>2. Gone(s) \in Int /\ n \in Int
    <3>1. Gone(s) \in Int /\ Len(Pending(s)) \in Nat
      BY PendingFacts, LenProperties
    <3>. QED BY <3>1
  <2>3. \A a, b \in Int : (a + b) + 1 = (a + 1) + b
    OBVIOUS
  <2>4. NextByte(s) = Gone(s) + 1 /\ NextByte(s)' = Gone(s)' + 1
    BY DEF NextByte, Gone
  <2>. QED BY <2>1, <2>2, <2>3, <2>4
<1>2. \A t \in Streams \ {s} : NextByte(t)' = NextByte(t)
  BY DEF NextByte, OtherStreams
<1>. QED BY <1>1, <1>2

LEMMA NextByteFacts ==
  ASSUME StreamTypeOK, Numbered, NEW s \in Streams
  PROVE  /\ NextByte(s) \in Nat \ {0} /\ sent[s] \in Nat /\ Len(Pending(s)) \in Nat
         /\ NextByte(s) = Gone(s) + 1 /\ NextByte(s) + Len(Pending(s)) = sent[s] + 1
<1>1. sent[s] \in Nat /\ Len(Pending(s)) \in Nat
  BY PendingFacts, LenProperties
<1>2. Len(Pending(s)) <= sent[s]
  BY DEF Numbered
<1>3. \A n, l \in Nat : l <= n => (n - l) + 1 \in Nat \ {0} /\ ((n - l) + 1) + l = n + 1
  OBVIOUS
<1>. QED BY <1>1, <1>2, <1>3 DEF NextByte, Gone

\* What the streams of LossyStreams look like here.
mapped == <<sent, [s \in Streams |-> NextByte(s)], [s \in Streams |-> truncated[s] > 0], piece>>

LEMMA EmitWrites ==
  ASSUME StreamTypeOK, Numbered, NEW s \in Streams, Emit(s)
  PROVE  Lossy!Write(s)
<1>1. sent' = [sent EXCEPT ![s] = @ + 1] /\ UNCHANGED <<truncated, piece>>
  BY DEF Emit
<1>2. Pending(s)' = Append(Pending(s), sent[s] + 1) /\ OtherStreams(s)
  BY EmitEffect
<1>3. NextByte(s)' = NextByte(s)
  <2>1. Pending(s) \in Seq(Nat) /\ Len(Pending(s)) \in Nat /\ sent[s] \in Nat
    BY PendingFacts, LenProperties
  <2>2. Len(Pending(s)') = Len(Pending(s)) + 1 /\ sent'[s] = sent[s] + 1
    BY <1>1, <1>2, <2>1, AppendProperties DEF StreamTypeOK
  <2>3. \A n, l \in Nat : (n + 1) - (l + 1) + 1 = n - l + 1
    OBVIOUS
  <2>. QED BY <2>1, <2>2, <2>3 DEF NextByte
<1>4. \A t \in Streams : NextByte(t)' = NextByte(t)
  BY <1>2, <1>3 DEF NextByte, OtherStreams
<1>5. [t \in Streams |-> NextByte(t)]' = [t \in Streams |-> NextByte(t)]
  BY <1>4
<1>. QED BY <1>1, <1>5 DEF Lossy!Write

LEMMA PushLoses ==
  ASSUME StreamTypeOK, Numbered, NEW s \in Streams, Push(s)
  PROVE  Lossy!Lose(s) \/ UNCHANGED mapped
<1>. DEFINE n == Overflow(s)
<1>1. /\ truncated' = [truncated EXCEPT ![s] = @ + n] /\ UNCHANGED <<sent, piece>>
      /\ truncated \in [Streams -> Nat]
  BY DEF Push, StreamTypeOK
<1>2. n \in 0..Len(Pending(s)) /\ Pending(s)' = Rest(Pending(s), n) /\ OtherStreams(s)
  BY PushLength, PushEffect
<1>. HIDE DEF n
<1>3. [t \in Streams |-> NextByte(t)]'
        = [[t \in Streams |-> NextByte(t)] EXCEPT ![s] = NextByte(s) + n]
  BY <1>1, <1>2, NextMoves
<1>4. /\ NextByte(s) \in Nat \ {0} /\ sent[s] \in Nat /\ Len(Pending(s)) \in Nat
      /\ NextByte(s) + Len(Pending(s)) = sent[s] + 1
  BY NextByteFacts
<1>5. n \in Nat
  BY <1>2, <1>4
<1>6. CASE n = 0
  <2>1. truncated' = truncated
    BY <1>1, <1>6
  <2>2. [t \in Streams |-> NextByte(t)]' = [t \in Streams |-> NextByte(t)]
    <3>1. NextByte(s) + n = NextByte(s)
      BY <1>4, <1>6
    <3>. QED BY <1>3, <3>1
  <2>. QED BY <1>1, <2>1, <2>2 DEF mapped
<1>7. CASE n # 0
  <2>1. (NextByte(s) + n) - 1 \in NextByte(s)..sent[s] /\ ((NextByte(s) + n) - 1) + 1 = NextByte(s) + n
    BY <1>2, <1>4, <1>5, <1>7
  <2>2. [t \in Streams |-> truncated[t] > 0]' = [[t \in Streams |-> truncated[t] > 0] EXCEPT ![s] = TRUE]
    <3>1. truncated'[s] > 0 /\ \A t \in Streams \ {s} : truncated'[t] = truncated[t]
      BY <1>1, <1>5, <1>7
    <3>. QED BY <3>1
  <2>3. \E last \in NextByte(s)..sent[s] :
          [t \in Streams |-> NextByte(t)]'
            = [[t \in Streams |-> NextByte(t)] EXCEPT ![s] = last + 1]
    BY <1>3, <2>1
  <2>. QED BY <1>1, <2>2, <2>3 DEF Lossy!Lose
<1>. QED BY <1>5, <1>6, <1>7

LEMMA DrainReads ==
  ASSUME StreamTypeOK, Numbered, NEW h \in Callers, NEW s \in Streams, Drain(h, s)
  PROVE  Lossy!Read(s)
<1>. DEFINE n == AtMost(max[h], Len(buf[s]))
            lost == truncated[s] > 0
<1>1. /\ truncated' = [truncated EXCEPT ![s] = 0] /\ UNCHANGED sent
      /\ piece' = [piece EXCEPT ![s] = [bytes |-> First(buf[s], n), lossy |-> lost]]
      /\ truncated \in [Streams -> Nat]
  BY DEF Drain, StreamTypeOK
<1>2. n \in 0..Len(buf[s]) /\ Pending(s)' = Rest(Pending(s), n) /\ OtherStreams(s)
  BY DrainEffect
<1>. HIDE DEF n, lost
<1>3. /\ buf[s] \in Seq(Nat) /\ chunk[s] \in Seq(Nat) /\ pipe[s] \in Seq(Nat)
      /\ Len(buf[s]) \in Nat /\ Len(chunk[s]) \in Nat /\ Len(pipe[s]) \in Nat
      /\ Len(Pending(s)) = Len(buf[s]) + Len(chunk[s]) + Len(pipe[s])
  BY PendingFacts
<1>4. /\ NextByte(s) \in Nat \ {0} /\ sent[s] \in Nat /\ Len(Pending(s)) \in Nat
      /\ NextByte(s) = Gone(s) + 1 /\ NextByte(s) + Len(Pending(s)) = sent[s] + 1
  BY NextByteFacts
<1>5. n \in 0..Len(Pending(s)) /\ n \in Nat
  <2>1. \A a, b, c \in Nat : n \in 0..a => n \in 0..(a + b + c) /\ n \in Nat
    OBVIOUS
  <2>. QED BY <1>2, <1>3, <2>1
<1>6. [t \in Streams |-> NextByte(t)]'
        = [[t \in Streams |-> NextByte(t)] EXCEPT ![s] = NextByte(s) + n]
  BY <1>1, <1>2, <1>5, NextMoves
<1>. DEFINE last == (NextByte(s) + n) - 1
<1>7. last \in (NextByte(s) - 1)..sent[s] /\ last + 1 = NextByte(s) + n
  BY <1>4, <1>5
<1>8. First(buf[s], n) = [i \in 1..(last + 1 - NextByte(s)) |-> NextByte(s) + i - 1]
  <2>1. last + 1 - NextByte(s) = n
    BY <1>4, <1>5
  <2>2. /\ First(buf[s], n) \in Seq(Nat) /\ Len(First(buf[s], n)) = n
        /\ \A i \in 1..n : First(buf[s], n)[i] = buf[s][i]
    BY <1>2, <1>3, SliceFacts
  <2>3. ASSUME NEW i \in 1..n
        PROVE  First(buf[s], n)[i] = NextByte(s) + i - 1
    <3>1. i \in 1..Len(buf[s]) /\ i \in 1..Len(Pending(s)) /\ i \in Nat
      <4>1. \A a \in Nat : n \in 0..a => i \in 1..a /\ i \in Nat
        BY <1>5
      <4>. QED BY <1>2, <1>3, <1>4, <1>5, <4>1
    <3>2. Pending(s)[i] = buf[s][i]
      <4>1. /\ buf[s] \o chunk[s] \in Seq(Nat)
            /\ Len(buf[s] \o chunk[s]) = Len(buf[s]) + Len(chunk[s])
            /\ (buf[s] \o chunk[s])[i] = buf[s][i]
        BY <1>3, <3>1, JoinFacts
      <4>2. i \in 1..Len(buf[s] \o chunk[s])
        <5>1. \A a, b \in Nat : i \in 1..a => i \in 1..(a + b)
          BY <3>1
        <5>. QED BY <1>3, <3>1, <4>1, <5>1
      <4>. QED BY <1>3, <4>1, <4>2, JoinFacts DEF Pending
    <3>3. Pending(s)[i] = Gone(s) + i
      BY <3>1 DEF Numbered
    <3>4. \A g \in Int : g + i = (g + 1) + i - 1
      BY <3>1
    <3>5. Gone(s) \in Int
      BY PendingFacts
    <3>. QED BY <1>4, <2>2, <3>2, <3>3, <3>4, <3>5
  <2>4. First(buf[s], n) = [i \in 1..n |-> First(buf[s], n)[i]]
    BY <2>2, LenProperties
  <2>. QED BY <2>1, <2>3, <2>4
<1>9. [bytes |-> First(buf[s], n), lossy |-> lost] = Lossy!Piece(NextByte(s), last, lost)
  BY <1>8 DEF Lossy!Piece
<1>10. [t \in Streams |-> truncated[t] > 0]' = [[t \in Streams |-> truncated[t] > 0] EXCEPT ![s] = FALSE]
  <2>1. (truncated'[s] > 0) = FALSE /\ \A t \in Streams \ {s} : truncated'[t] = truncated[t]
    BY <1>1
  <2>. QED BY <2>1
<1>11. [t \in Streams |-> truncated[t] > 0][s] = lost /\ [t \in Streams |-> NextByte(t)][s] = NextByte(s)
  BY DEF lost
<1>12. piece' = [piece EXCEPT ![s] = Lossy!Piece(NextByte(s), last, lost)]
  BY <1>1, <1>9
<1>. HIDE DEF last
<1>13. \E l \in (NextByte(s) - 1)..sent[s] :
         /\ piece' = [piece EXCEPT ![s] = Lossy!Piece(NextByte(s), l, lost)]
         /\ [t \in Streams |-> NextByte(t)]' = [[t \in Streams |-> NextByte(t)] EXCEPT ![s] = l + 1]
  BY <1>6, <1>7, <1>12
<1>. QED BY <1>1, <1>10, <1>11, <1>13 DEF Lossy!Read

\* Each stream of a process implements the lossy stream: its bytes are read in order,
\* at most once, and a loss is reported by the next read.
THEOREM StreamsImplementLossy == StreamSpec => StreamsAreLossy
<1>1. StreamInit => Lossy!Init
  <2>. SUFFICES ASSUME StreamInit PROVE Lossy!Init
    OBVIOUS
  <2>1. \A s \in Streams : NextByte(s) = 1
    BY DEF StreamInit, NextByte, Pending
  <2>2. Lossy!Piece(1, 0, FALSE) = [bytes |-> <<>>, lossy |-> FALSE]
    BY DEF Lossy!Piece
  <2>3. [s \in Streams |-> NextByte(s)] = [s \in Streams |-> 1]
    BY <2>1
  <2>4. [s \in Streams |-> truncated[s] > 0] = [s \in Streams |-> FALSE]
    <3>1. \A s \in Streams : truncated[s] = 0
      BY DEF StreamInit
    <3>2. \A s \in Streams : (truncated[s] > 0) = FALSE
      BY <3>1
    <3>. QED BY <3>2
  <2>5. sent = [s \in Streams |-> 0] /\ piece = [s \in Streams |-> Lossy!Piece(1, 0, FALSE)]
    BY <2>2 DEF StreamInit
  <2>. QED BY <2>3, <2>4, <2>5 DEF Lossy!Init
<1>2. StreamTypeOK /\ Numbered /\ [StreamNext]_streamVars
        => [Lossy!Next]_<<sent, [s \in Streams |-> NextByte(s)],
                          [s \in Streams |-> truncated[s] > 0], piece>>
  <2>. SUFFICES ASSUME StreamTypeOK, Numbered, [StreamNext]_streamVars PROVE Lossy!Next \/ UNCHANGED mapped
    BY DEF mapped
  <2>1. ASSUME NEW s \in Streams, DrainRead(s)
        PROVE  UNCHANGED mapped
    <3>1. UNCHANGED <<sent, truncated, piece>>
      BY <2>1 DEF DrainRead
    <3>2. \A t \in Streams : NextByte(t)' = NextByte(t)
      BY <2>1, <3>1, DrainReadEffect DEF NextByte
    <3>3. [t \in Streams |-> NextByte(t)]' = [t \in Streams |-> NextByte(t)]
      BY <3>2
    <3>. QED BY <3>1, <3>3 DEF mapped
  <2>2. CASE UNCHANGED <<sent, pipe, chunk, buf, truncated, piece>>
    BY <2>2 DEF mapped, NextByte, Pending
  <2>. QED BY <2>1, <2>2, StreamStep, EmitWrites, PushLoses, DrainReads DEF Lossy!Next
<1>. QED
  BY <1>1, <1>2, TypeCorrect, NumberedInvariant, PTL DEF StreamSpec, StreamsAreLossy, Lossy!Spec
=============================================================================
