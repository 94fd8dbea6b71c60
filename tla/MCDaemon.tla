------------------------------ MODULE MCDaemon ------------------------------
(***************************************************************************)
(* Model-checking instance of parts of the tools daemon: the sessions with *)
(* their processes, the output of one process with those who read it or    *)
(* wait for the exit, and its stdin with those who write to it (the last   *)
(* two share nothing but the child).  A behaviour is one of a single part, *)
(* chosen at the start among Parts; what the others use does not change.   *)
(***************************************************************************)
EXTENDS SessionProcesses, ProcessStreams, SequencesExt, TLC

CONSTANT Parts

\* Callers and handlers, session ids and process ids are interchangeable.
Symmetry ==
  UNION {Permutations(S) : S \in {Handlers \union Callers, Sessions, Procs}}

\* MaxSent: stdout may overflow its buffer by one, stderr has a byte to be found.
Some == [s \in Streams |-> IF s = "stdout" THEN 3 ELSE 1]
None == [s \in Streams |-> 0]

VARIABLE part

allVars == <<part, vars, streamVars>>

MCInit == part \in Parts /\ Init /\ StreamInit

MCNext ==
  /\ UNCHANGED part
  /\ \/ part = "sessions" /\ Next /\ UNCHANGED streamVars
     \/ part = "streams" /\ StreamNext /\ UNCHANGED <<writes, vars>>
     \/ part = "stdin" /\ StreamNext /\ UNCHANGED vars
        /\ \A h \in Callers : at'[h] \in {"idle"} \union WritePC

MCSpec == MCInit /\ [][MCNext]_allVars

\* The part that stays in its initial state owes nothing there.
MCFairSpec == MCSpec /\ Fairness /\ StreamFairness
----------------------------------------------------------------------------
\* StreamBuffer::push, byte by byte as the code has it.
PushByte(b, byte) ==
  IF Len(b.buf) = Cap
  THEN [buf |-> Append(Tail(b.buf), byte), truncated |-> b.truncated + 1]
  ELSE [b EXCEPT !.buf = Append(@, byte)]
PushLoop(q, bytes) == FoldLeft(PushByte, [buf |-> q, truncated |-> 0], bytes)

\* Push states the outcome of that loop.
ASSUME PushIsTheLoop ==
  \A n \in 0..Cap, k \in 0..(2 * Cap + ChunkSize) :
    LET q == [i \in 1..n |-> i]
        bytes == [i \in 1..k |-> n + i]
        lost == IF n + k <= Cap THEN 0 ELSE n + k - Cap
    IN PushLoop(q, bytes) = [buf |-> Rest(q \o bytes, lost), truncated |-> lost]
=============================================================================
