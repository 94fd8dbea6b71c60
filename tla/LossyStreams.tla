---------------------------- MODULE LossyStreams ----------------------------
(***************************************************************************)
(* What a process's output streams promise to the clients that read them   *)
(* (openspec: stdout/stderr buffering).  The bytes the child writes to a   *)
(* stream are numbered 1, 2, ...; a read hands out the next ones, without  *)
(* a hole and never again.  The oldest bytes not yet handed out may be     *)
(* lost, and then the next read says so, and only then.                    *)
(***************************************************************************)
EXTENDS Naturals

CONSTANT Streams

VARIABLES
  sent,   \* bytes the child has written
  next,   \* the first byte neither handed out nor lost
  lossy,  \* bytes were lost since the last read
  piece   \* what the last read returned

Piece(from, to, lost) ==
  [bytes |-> [i \in 1..(to + 1 - from) |-> from + i - 1], lossy |-> lost]

Init ==
  /\ sent = [s \in Streams |-> 0]
  /\ next = [s \in Streams |-> 1]
  /\ lossy = [s \in Streams |-> FALSE]
  /\ piece = [s \in Streams |-> Piece(1, 0, FALSE)]

Write(s) ==
  /\ sent' = [sent EXCEPT ![s] = @ + 1]
  /\ UNCHANGED <<next, lossy, piece>>

Lose(s) ==
  /\ \E last \in next[s]..sent[s] : next' = [next EXCEPT ![s] = last + 1]
  /\ lossy' = [lossy EXCEPT ![s] = TRUE]
  /\ UNCHANGED <<sent, piece>>

Read(s) ==
  /\ \E last \in (next[s] - 1)..sent[s] :
       /\ piece' = [piece EXCEPT ![s] = Piece(next[s], last, lossy[s])]
       /\ next' = [next EXCEPT ![s] = last + 1]
  /\ lossy' = [lossy EXCEPT ![s] = FALSE]
  /\ UNCHANGED sent

Next == \E s \in Streams : Write(s) \/ Lose(s) \/ Read(s)

Spec == Init /\ [][Next]_<<sent, next, lossy, piece>>
=============================================================================
