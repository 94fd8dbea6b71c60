-------------------------- MODULE FileToolsProofs --------------------------
(***************************************************************************)
(* Proofs about FileTools.  For any set of requests on one file: an        *)
(* answered edit stays in it unless another request had a hand in its      *)
(* loss.  For any text: what apply_edit_req makes of it.  The loops of     *)
(* match_indices and of the splice are recursive functions; what they      *)
(* compute is proved by induction, as the absence of a least place where   *)
(* it fails (SetInduction).                                                *)
(***************************************************************************)
EXTENDS FileTools, SequenceTheorems, FiniteSetTheorems, WellFoundedInduction,
        TLAPS

FileTypeOK ==
  /\ doc \in SUBSET Requests
  /\ intact \in BOOLEAN
  /\ asked \in [Requests -> {"new", "open", "write", "done", "refused"}]
  /\ seen \in [Requests -> SUBSET Requests]
  /\ answered \in SUBSET Requests
  /\ excused \in SUBSET Requests

\* The edits nothing excuses the loss of.
Owed == answered \ excused

\* The strengthening of EditsKept, which says nothing while a request is in
\* progress: an intact file holds what is owed, so does the copy every request
\* in progress is about to write, and the requests of a crowd are excused.
KeptInv ==
  /\ intact => Owed \subseteq doc
  /\ \A r \in InProgress : Owed \subseteq seen[r]
  /\ \A r, u \in InProgress : r # u => r \in excused

\* The variables of the file model keep their types.
LEMMA FileTypeCorrect == FileSpec => []FileTypeOK
<1>1. FileInit => FileTypeOK
  BY DEF FileInit, FileTypeOK
<1>2. FileTypeOK /\ [FileNext]_fileVars => FileTypeOK'
  BY DEF FileTypeOK, FileNext, fileVars, EditReads, EditFindsNothing, WriteBegins,
     Truncates, Fills, FillFails, Ask, Overlapping, InProgress
<1>. QED BY <1>1, <1>2, PTL DEF FileSpec

\* Whoever is in progress after a request has moved on was so before, or is it.
LEMMA AskMoves ==
  ASSUME FileTypeOK, NEW r \in Requests,
         NEW label \in {"open", "write", "done", "refused"}, Ask(r, label)
  PROVE  InProgress' = IF label \in {"open", "write"} THEN InProgress \union {r}
                       ELSE InProgress \ {r}
BY DEF FileTypeOK, Ask, InProgress

\* tool_edit reads: what it saw holds what is owed afterwards, and so does what
\* the requests it joins have seen.
LEMMA EditReadsKeeps ==
  ASSUME FileTypeOK, KeptInv, NEW r \in Requests, EditReads(r)
  PROVE  KeptInv'
<1>1. InProgress' = InProgress \union {r} /\ r \notin InProgress
  BY AskMoves DEF EditReads, InProgress
<1>2. Owed' \subseteq Owed /\ InProgress \subseteq Requests
  BY DEF EditReads, Owed, InProgress
<1>3. Owed' \subseteq seen'[r]
  BY DEF EditReads, Owed, KeptInv, FileTypeOK
<1>4. \A u \in InProgress : Owed' \subseteq seen'[u]
  BY <1>1, <1>2 DEF EditReads, KeptInv, FileTypeOK
<1>5. \A u, w \in InProgress' : u # w => u \in excused'
  BY <1>1 DEF EditReads, Overlapping
<1>. QED BY <1>1, <1>2, <1>3, <1>4, <1>5 DEF KeptInv, EditReads

\* tool_write begins: every earlier answer is excused.
LEMMA WriteBeginsKeeps ==
  ASSUME FileTypeOK, KeptInv, NEW r \in Requests, WriteBegins(r)
  PROVE  KeptInv'
<1>1. InProgress' = InProgress \union {r} /\ r \notin InProgress
  BY AskMoves DEF WriteBegins, InProgress
<1>2. Owed' = {}
  BY DEF WriteBegins, Owed
<1>3. \A u, w \in InProgress' : u # w => u \in excused'
  BY <1>1 DEF WriteBegins, Overlapping
<1>. QED BY <1>2, <1>3 DEF KeptInv

\* fs::write fills the file: a request that was alone puts back what it saw
\* together with its own edit; one of a crowd was excused from the start.
LEMMA FillsKeeps ==
  ASSUME FileTypeOK, KeptInv, NEW r \in Requests, Fills(r)
  PROVE  KeptInv'
<1>1. InProgress' = InProgress \ {r} /\ r \in InProgress
  BY AskMoves DEF Fills, InProgress
<1>2. Owed' \subseteq Owed \union {r} /\ InProgress \subseteq Requests
  BY DEF Fills, Owed, InProgress
<1>3. \A u \in InProgress' : r \in excused'
  BY <1>1 DEF Fills, KeptInv
<1>4. \A u \in InProgress' : Owed' \subseteq seen'[u]
  BY <1>1, <1>2, <1>3 DEF Fills, KeptInv, Owed
<1>5. intact' => Owed' \subseteq doc'
  BY <1>1, <1>2 DEF Fills, KeptInv
<1>6. \A u, w \in InProgress' : u # w => u \in excused'
  BY <1>1 DEF Fills, KeptInv
<1>. QED BY <1>4, <1>5, <1>6 DEF KeptInv

\* Requests one after the other lose nothing: tool_edit's read, apply and write
\* can take an answered edit away only across another request, a write that
\* replaces the file, or one that fails half way.
THEOREM AnsweredEditsKept == FileSpec => []EditsKept
<1>1. FileInit => KeptInv
  BY DEF FileInit, KeptInv, Owed, InProgress
<1>2. ASSUME FileTypeOK, KeptInv, [FileNext]_fileVars
      PROVE  KeptInv'
  <2>. USE FileTypeOK, KeptInv
  <2>1. ASSUME NEW r \in Requests, EditFindsNothing(r)
        PROVE  KeptInv'
    <3>1. InProgress' = InProgress
      BY <2>1, AskMoves DEF EditFindsNothing, InProgress
    <3>. QED BY <2>1, <3>1 DEF EditFindsNothing, KeptInv, Owed
  <2>2. ASSUME NEW r \in Requests, Truncates(r)
        PROVE  KeptInv'
    <3>1. InProgress' = InProgress
      BY <2>2, AskMoves DEF Truncates, InProgress
    <3>. QED BY <2>2, <3>1 DEF Truncates, KeptInv, Owed
  <2>3. ASSUME NEW r \in Requests, FillFails(r)
        PROVE  KeptInv'
    <3>1. InProgress' \subseteq InProgress /\ Owed' = {}
      BY <2>3, AskMoves DEF FillFails, Owed
    <3>. QED BY <2>3, <3>1 DEF FillFails, KeptInv
  <2>4. CASE UNCHANGED fileVars
    BY <2>4 DEF fileVars, KeptInv, Owed, InProgress
  <2>. QED
    BY <1>2, <2>1, <2>2, <2>3, <2>4, EditReadsKeeps, WriteBeginsKeeps, FillsKeeps
       DEF FileNext
<1>3. KeptInv => EditsKept
  BY DEF KeptInv, EditsKept, Owed
<1>. QED BY <1>1, <1>2, <1>3, FileTypeCorrect, PTL DEF FileSpec

----------------------------------------------------------------------------
(* The edits of one request, for texts of any length. *)


\* Induction over the naturals for a set: the least natural outside it would
\* have a predecessor inside.
LEMMA SetInduction ==
  ASSUME NEW S, 0 \in S, \A n \in Nat : n \in S => n + 1 \in S
  PROVE  Nat \subseteq S
<1>. SUFFICES ASSUME Nat \ S # {}
              PROVE  FALSE
  OBVIOUS
<1>1. PICK x \in Nat \ S : \A y \in Nat \ S : <<y, x>> \notin OpToRel(<, Nat)
  BY NatLessThanWellFounded, WFMin, Zenon
<1>. HIDE <1>1
<1>2. x - 1 \in Nat /\ x - 1 < x /\ (x - 1) + 1 = x /\ x \in Nat /\ x \notin S
  OBVIOUS
<1>3. x - 1 \notin S
  BY <1>2
<1>4. <<x - 1, x>> \in OpToRel(<, Nat)
  BY <1>2 DEF OpToRel
<1>. QED BY <1>1, <1>2, <1>3, <1>4, Zenon

----------------------------------------------------------------------------
(* match_indices. *)

\* The scan before the first place, and the scan of the first n places.
FirstScan == [next |-> 1, found |-> <<>>]

IsScan(scan, src, old, n) ==
  scan = [i \in 0..n |-> IF i = 0 THEN FirstScan ELSE ScanStep(src, old, scan[i - 1], i)]

\* The scan of a text is a function of its places.
LEMMA ScanExists ==
  ASSUME NEW src, NEW old
  PROVE  \A n \in Nat : \E scan : IsScan(scan, src, old, n)
<1>. DEFINE S == {n \in Nat : \E scan : IsScan(scan, src, old, n)}
<1>1. 0 \in S
  <2>. DEFINE first == [i \in 0..0 |-> FirstScan]
  <2>1. IsScan(first, src, old, 0)
    BY DEF IsScan
  <2>. QED BY <2>1
<1>2. ASSUME NEW n \in Nat, n \in S
      PROVE  n + 1 \in S
  <2>1. PICK scan : IsScan(scan, src, old, n)
    BY <1>2
  <2>. DEFINE more == [i \in 0..(n + 1) |-> IF i <= n THEN scan[i]
                                            ELSE ScanStep(src, old, scan[n], n + 1)]
  <2>2. ASSUME NEW i \in 0..(n + 1)
        PROVE  more[i] = IF i = 0 THEN FirstScan ELSE ScanStep(src, old, more[i - 1], i)
    <3>1. CASE i = 0
      BY <2>1, <3>1 DEF IsScan
    <3>2. CASE i \in 1..n
      <4>1. i - 1 \in 0..(n + 1) /\ i - 1 <= n /\ i \in 0..n /\ i # 0
        BY <3>2
      <4>2. more[i - 1] = scan[i - 1] /\ more[i] = scan[i]
        BY <4>1
      <4>3. scan[i] = ScanStep(src, old, scan[i - 1], i)
        BY <2>1, <4>1 DEF IsScan
      <4>. QED BY <4>1, <4>2, <4>3
    <3>3. CASE i = n + 1
      <4>1. i - 1 = n /\ i # 0 /\ n \in 0..(n + 1) /\ ~(i <= n)
        BY <3>3
      <4>. QED BY <3>3, <4>1
    <3>. QED BY <3>1, <3>2, <3>3
  <2>. HIDE DEF more
  <2>3. more = [i \in 0..(n + 1) |-> more[i]]
    BY DEF more
  <2>4. IsScan(more, src, old, n + 1)
    BY <2>2, <2>3, Zenon DEF IsScan
  <2>. QED BY <2>4
<1>. HIDE DEF S
<1>3. Nat \subseteq S
  BY <1>1, <1>2, SetInduction
<1>. QED BY <1>3 DEF S

\* What match_indices yields is what its scan has found at the end of the text.
LEMMA MatchesScan ==
  ASSUME NEW src, NEW old, Len(src) \in Nat
  PROVE  \E scan : /\ scan[0] = FirstScan
                   /\ \A i \in 1..Len(src) : scan[i] = ScanStep(src, old, scan[i - 1], i)
                   /\ Matches(src, old) = scan[Len(src)].found
<1>. DEFINE scan == CHOOSE f : IsScan(f, src, old, Len(src))
<1>1. IsScan(scan, src, old, Len(src))
  BY ScanExists, Zenon
<1>2. Matches(src, old) = scan[Len(src)].found
  BY DEF Matches, IsScan, FirstScan
<1>. HIDE DEF scan
<1>3. scan[0] = FirstScan /\ \A i \in 1..Len(src) : scan[i] = ScanStep(src, old, scan[i - 1], i)
  BY <1>1 DEF IsScan
<1>. QED BY <1>2, <1>3

\* A match, place by place.
LEMMA MatchPointwise ==
  ASSUME NEW C, NEW src \in Seq(C), NEW old \in Seq(C), old # <<>>, NEW i \in Nat \ {0}
  PROVE  MatchAt(src, old, i) <=>
           /\ i + Len(old) - 1 <= Len(src)
           /\ \A j \in 1..Len(old) : src[i + j - 1] = old[j]
<1>. DEFINE to == i + Len(old) - 1
<1>1. Len(old) \in Nat /\ Len(old) >= 1 /\ Len(src) \in Nat
  BY EmptySeq
<1>2. CASE to <= Len(src)
  <2>. DEFINE sub == SubSeq(src, i, to)
  <2>1. i \in Int /\ to \in Int /\ i <= to /\ to - i + 1 = Len(old) /\ i..to \subseteq 1..Len(src)
    BY <1>1, <1>2
  <2>2. \A k \in i..to : src[k] \in C
    BY <2>1, ElementOfSeq
  <2>3. /\ sub \in Seq(C)
        /\ Len(sub) = Len(old)
        /\ \A j \in 1..Len(old) : sub[j] = src[i + j - 1]
    BY <2>1, <2>2, SubSeqProperties
  <2>. HIDE DEF sub
  <2>4. sub = old <=> \A j \in 1..Len(old) : sub[j] = old[j]
    BY <2>3, SeqEqual
  <2>5. MatchAt(src, old, i) <=> sub = old
    BY <1>2 DEF MatchAt, sub
  <2>. QED BY <1>2, <2>3, <2>4, <2>5
<1>3. CASE ~(to <= Len(src))
  BY <1>3 DEF MatchAt
<1>. QED BY <1>2, <1>3

\* What a scan has found up to the i-th place.
ScanInv(src, old, i, acc) ==
  /\ acc.next \in Nat \ {0}
  /\ acc.found \in Seq(Nat)
  /\ \A k \in 1..Len(acc.found) :
       /\ acc.found[k] \in 1..i
       /\ MatchAt(src, old, acc.found[k])
       /\ acc.found[k] + Len(old) <= acc.next
  /\ \A k, m \in 1..Len(acc.found) : k < m => acc.found[k] + Len(old) <= acc.found[m]
  /\ acc.next # 1 => \E k \in 1..Len(acc.found) : acc.next = acc.found[k] + Len(old)
  /\ \A j \in 1..i : MatchAt(src, old, j) =>
       \E k \in 1..Len(acc.found) : acc.found[k] <= j /\ j < acc.found[k] + Len(old)

\* One place further: a match is taken when the last one is behind, else it
\* reaches into that one.
LEMMA ScanStepInv ==
  ASSUME NEW src, NEW old, Len(old) \in Nat \ {0}, NEW i \in Nat,
         NEW acc, ScanInv(src, old, i, acc)
  PROVE  ScanInv(src, old, i + 1, ScanStep(src, old, acc, i + 1))
<1>. DEFINE L == Len(old)
            F == acc.found
            G == Append(F, i + 1)
            new == ScanStep(src, old, acc, i + 1)
<1>0. F \in Seq(Nat) /\ Len(F) \in Nat /\ acc.next \in Nat \ {0} /\ L \in Nat \ {0}
  BY LenProperties DEF ScanInv
<1>1. CASE i + 1 >= acc.next /\ MatchAt(src, old, i + 1)
  <2>1. new = [next |-> i + 1 + L, found |-> G]
    BY <1>1 DEF ScanStep
  <2>2. /\ G \in Seq(Nat)
        /\ Len(G) = Len(F) + 1
        /\ \A k \in 1..Len(F) : G[k] = F[k]
        /\ G[Len(F) + 1] = i + 1
    BY <1>0
  <2>. HIDE DEF G
  <2>3. ASSUME NEW k \in 1..Len(G)
        PROVE  /\ G[k] \in 1..(i + 1)
               /\ MatchAt(src, old, G[k])
               /\ G[k] + L <= i + 1 + L
    <3>1. CASE k = Len(F) + 1
      BY <1>1, <2>2, <3>1
    <3>2. CASE k \in 1..Len(F)
      <4>1. F[k] \in 1..i /\ MatchAt(src, old, F[k]) /\ G[k] = F[k]
        BY <2>2, <3>2 DEF ScanInv
      <4>. QED BY <4>1, <1>0
    <3>. QED BY <1>0, <2>2, <3>1, <3>2
  <2>4. ASSUME NEW k \in 1..Len(G), NEW m \in 1..Len(G), k < m
        PROVE  G[k] + L <= G[m]
    <3>1. k \in 1..Len(F) /\ G[k] = F[k] /\ F[k] + L <= acc.next
      BY <1>0, <2>2, <2>4, SMTT(40) DEF ScanInv
    <3>2. CASE m = Len(F) + 1
      <4>1. G[m] = i + 1 /\ F[k] \in Nat
        BY <2>2, <3>2, <3>1, <1>0, ElementOfSeq
      <4>. QED BY <3>1, <4>1, <1>0, <1>1, SMTT(40)
    <3>3. CASE m \in 1..Len(F)
      BY <2>2, <2>4, <3>1, <3>3 DEF ScanInv
    <3>. QED BY <1>0, <2>2, <3>2, <3>3
  <2>5. Len(F) + 1 \in 1..Len(G) /\ i + 1 + L = G[Len(F) + 1] + L
    BY <1>0, <2>2
  <2>6. ASSUME NEW j \in 1..(i + 1), MatchAt(src, old, j)
        PROVE  \E k \in 1..Len(G) : G[k] <= j /\ j < G[k] + L
    <3>1. CASE j = i + 1
      BY <1>0, <2>2, <2>5, <3>1, SMTT(40)
    <3>2. CASE j \in 1..i
      <4>1. PICK k \in 1..Len(F) : F[k] <= j /\ j < F[k] + L
        BY <2>6, <3>2 DEF ScanInv
      <4>2. k \in 1..Len(G) /\ G[k] = F[k]
        BY <1>0, <2>2
      <4>. QED BY <4>1, <4>2
    <3>. QED BY <3>1, <3>2
  <2>7. i + 1 + L \in Nat \ {0}
    BY <1>0
  <2>. HIDE DEF new, L
  <2>8. new.next = i + 1 + L /\ new.found = G
    BY <2>1
  <2>. QED BY <2>2, <2>3, <2>4, <2>5, <2>6, <2>7, <2>8 DEF ScanInv, new, L
<1>2. CASE ~(i + 1 >= acc.next /\ MatchAt(src, old, i + 1))
  <2>1. new = acc
    BY <1>2 DEF ScanStep
  <2>2. ASSUME MatchAt(src, old, i + 1)
        PROVE  \E k \in 1..Len(F) : F[k] <= i + 1 /\ i + 1 < F[k] + L
    <3>1. i + 1 < acc.next /\ acc.next # 1
      BY <1>0, <1>2, <2>2
    <3>2. PICK k \in 1..Len(F) : acc.next = F[k] + L
      BY <3>1 DEF ScanInv
    <3>3. F[k] \in 1..i
      BY DEF ScanInv
    <3>. QED BY <3>1, <3>2, <3>3
  <2>3. \A j \in 1..(i + 1) : MatchAt(src, old, j) =>
          \E k \in 1..Len(F) : F[k] <= j /\ j < F[k] + L
    <3>1. \A j \in 1..(i + 1) : j \in 1..i \/ j = i + 1
      OBVIOUS
    <3>. QED BY <2>2, <3>1 DEF ScanInv
  <2>4. \A k \in 1..Len(F) : F[k] \in 1..(i + 1)
    BY DEF ScanInv
  <2>. HIDE DEF new
  <2>. QED BY <2>1, <2>3, <2>4 DEF ScanInv, new
<1>. QED BY <1>1, <1>2

\* The matches of a text: disjoint, in order, and none is missed that does not
\* reach into one of them.
LEMMA MatchesProperties ==
  ASSUME NEW src, Len(src) \in Nat, NEW old, Len(old) \in Nat \ {0}
  PROVE  LET M == Matches(src, old) IN
         /\ M \in Seq(1..Len(src))
         /\ \A k \in 1..Len(M) : MatchAt(src, old, M[k])
         /\ \A k, m \in 1..Len(M) : k < m => M[k] + Len(old) <= M[m]
         /\ \A j \in 1..Len(src) : MatchAt(src, old, j) =>
              \E k \in 1..Len(M) : M[k] <= j /\ j < M[k] + Len(old)
<1>. DEFINE n == Len(src)
            M == Matches(src, old)
<1>1. PICK scan : /\ scan[0] = FirstScan
                  /\ \A i \in 1..n : scan[i] = ScanStep(src, old, scan[i - 1], i)
                  /\ M = scan[n].found
  BY MatchesScan
<1>. DEFINE S == {i \in Nat : i <= n => ScanInv(src, old, i, scan[i])}
<1>2. 0 \in S
  <2>1. scan[0].next = 1 /\ scan[0].found = <<>>
    BY <1>1 DEF FirstScan
  <2>2. 1 \in Nat \ {0} /\ <<>> \in Seq(Nat) /\ 1..Len(<<>>) = {} /\ 1..0 = {}
    OBVIOUS
  <2>3. ScanInv(src, old, 0, scan[0])
    BY <2>1, <2>2 DEF ScanInv
  <2>. QED BY <2>3
<1>3. ASSUME NEW i \in Nat, i \in S
      PROVE  i + 1 \in S
  <2>. SUFFICES ASSUME i + 1 <= n
                PROVE  ScanInv(src, old, i + 1, scan[i + 1])
    OBVIOUS
  <2>1. ScanInv(src, old, i, scan[i])
    BY <1>3
  <2>2. i + 1 \in 1..n /\ (i + 1) - 1 = i
    OBVIOUS
  <2>3. scan[i + 1] = ScanStep(src, old, scan[i], i + 1)
    BY <1>1, <2>2
  <2>. QED BY <2>1, <2>3, ScanStepInv
<1>. HIDE DEF S
<1>4. Nat \subseteq S
  BY <1>2, <1>3, SetInduction
<1>5. ScanInv(src, old, n, scan[n])
  BY <1>4 DEF S
<1>. HIDE DEF M
<1>6. M \in Seq(Nat) /\ \A k \in 1..Len(M) : M[k] \in 1..n
  BY <1>1, <1>5 DEF ScanInv
<1>7. M \in Seq(1..n)
  <2>1. Len(M) \in Nat /\ M = [k \in 1..Len(M) |-> M[k]]
    BY <1>6, LenProperties
  <2>2. M \in [1..Len(M) -> 1..n]
    BY <1>6, <2>1
  <2>. QED BY <2>1, <2>2, SeqDef
<1>. QED BY <1>1, <1>5, <1>7 DEF ScanInv, M

----------------------------------------------------------------------------
(* The splice and the order of the ranges. *)

\* What the loop over the ranges appends for the k-th one.
Spliced(out, src, ranges, k) ==
  out \o SubSeq(src, Cursor(ranges, k - 1), ranges[k].from - 1) \o ranges[k].new

\* What it has built after each of the first n ranges.
IsSplice(out, src, ranges, n) ==
  out = [k \in 0..n |-> IF k = 0 THEN <<>> ELSE Spliced(out[k - 1], src, ranges, k)]

\* The loop over the ranges computes something for each of them.
LEMMA SpliceExists ==
  ASSUME NEW src, NEW ranges
  PROVE  \A n \in Nat : \E out : IsSplice(out, src, ranges, n)
<1>. DEFINE S == {n \in Nat : \E out : IsSplice(out, src, ranges, n)}
<1>1. 0 \in S
  <2>. DEFINE first == [k \in 0..0 |-> <<>>]
  <2>1. IsSplice(first, src, ranges, 0)
    BY DEF IsSplice
  <2>. QED BY <2>1
<1>2. ASSUME NEW n \in Nat, n \in S
      PROVE  n + 1 \in S
  <2>1. PICK out : IsSplice(out, src, ranges, n)
    BY <1>2
  <2>. DEFINE more == [k \in 0..(n + 1) |-> IF k <= n THEN out[k]
                                            ELSE Spliced(out[n], src, ranges, n + 1)]
  <2>2. ASSUME NEW k \in 0..(n + 1)
        PROVE  more[k] = IF k = 0 THEN <<>> ELSE Spliced(more[k - 1], src, ranges, k)
    <3>1. CASE k = 0
      BY <2>1, <3>1 DEF IsSplice
    <3>2. CASE k \in 1..n
      <4>1. k - 1 \in 0..(n + 1) /\ k - 1 <= n /\ k \in 0..n /\ k # 0
        BY <3>2
      <4>2. more[k - 1] = out[k - 1] /\ more[k] = out[k]
        BY <4>1
      <4>3. out[k] = Spliced(out[k - 1], src, ranges, k)
        BY <2>1, <4>1 DEF IsSplice
      <4>. QED BY <4>1, <4>2, <4>3
    <3>3. CASE k = n + 1
      <4>1. k - 1 = n /\ k # 0 /\ n \in 0..(n + 1) /\ ~(k <= n)
        BY <3>3
      <4>. QED BY <3>3, <4>1
    <3>. QED BY <3>1, <3>2, <3>3
  <2>. HIDE DEF more
  <2>3. more = [k \in 0..(n + 1) |-> more[k]]
    BY DEF more
  <2>4. IsSplice(more, src, ranges, n + 1)
    BY <2>2, <2>3, Zenon DEF IsSplice
  <2>. QED BY <2>4
<1>. HIDE DEF S
<1>3. Nat \subseteq S
  BY <1>1, <1>2, SetInduction
<1>. QED BY <1>3 DEF S

\* The splice is the last value of that loop and the rest of the text.
LEMMA SpliceSteps ==
  ASSUME NEW src, NEW ranges, Len(ranges) \in Nat
  PROVE  \E out : /\ out[0] = <<>>
                  /\ \A k \in 1..Len(ranges) : out[k] = Spliced(out[k - 1], src, ranges, k)
                  /\ Splice(src, ranges) =
                       out[Len(ranges)] \o SubSeq(src, Cursor(ranges, Len(ranges)), Len(src))
<1>. DEFINE out == CHOOSE f : IsSplice(f, src, ranges, Len(ranges))
<1>1. IsSplice(out, src, ranges, Len(ranges))
  BY SpliceExists, Zenon
<1>2. Splice(src, ranges) = out[Len(ranges)] \o SubSeq(src, Cursor(ranges, Len(ranges)), Len(src))
  BY Zenon DEF Splice, IsSplice, Spliced
<1>. HIDE DEF out
<1>3. out[0] = <<>> /\ \A k \in 1..Len(ranges) : out[k] = Spliced(out[k - 1], src, ranges, k)
  BY <1>1 DEF IsSplice
<1>. QED BY <1>2, <1>3

\* One range is sorted.
LEMMA SortedOne ==
  ASSUME NEW r
  PROVE  Sorted(<<r>>) = <<r>>
<1>. DEFINE ranges == <<r>>
            before(j, k) ==
              ranges[j].from < ranges[k].from \/ (ranges[j].from = ranges[k].from /\ j < k)
            IsOrder(p) == \A i, j \in DOMAIN ranges : i < j => before(p[i], p[j])
            order == CHOOSE p \in [DOMAIN ranges -> DOMAIN ranges] : IsOrder(p)
<1>1. DOMAIN ranges = 1..1 /\ 1..1 = {1} /\ ranges[1] = r
  OBVIOUS
<1>. HIDE DEF ranges
<1>2. [i \in {1} |-> 1] \in [DOMAIN ranges -> DOMAIN ranges] /\ IsOrder([i \in {1} |-> 1])
  BY <1>1
<1>3. order \in [DOMAIN ranges -> DOMAIN ranges]
  BY <1>2, Zenon
<1>4. Sorted(ranges) = [i \in DOMAIN ranges |-> ranges[order[i]]]
  BY Zenon DEF Sorted
<1>. HIDE DEF order
<1>5. Sorted(ranges) = [i \in 1..1 |-> r]
  BY <1>1, <1>3, <1>4
<1>. QED BY <1>5 DEF ranges

\* An earlier range comes first whatever the order of the list.
LEMMA SortedTwo ==
  ASSUME NEW r, NEW s, r.from \in Nat, s.from \in Nat
  PROVE  Sorted(<<r, s>>) = IF r.from <= s.from THEN <<r, s>> ELSE <<s, r>>
<1>. DEFINE ranges == <<r, s>>
            before(j, k) ==
              ranges[j].from < ranges[k].from \/ (ranges[j].from = ranges[k].from /\ j < k)
            IsOrder(p) == \A i, j \in DOMAIN ranges : i < j => before(p[i], p[j])
            order == CHOOSE p \in [DOMAIN ranges -> DOMAIN ranges] : IsOrder(p)
            kept == [i \in {1, 2} |-> i]
            swapped == [i \in {1, 2} |-> 3 - i]
<1>1. DOMAIN ranges = 1..2 /\ 1..2 = {1, 2} /\ ranges[1] = r /\ ranges[2] = s
  OBVIOUS
<1>2. Sorted(ranges) = [i \in DOMAIN ranges |-> ranges[order[i]]]
  BY Zenon DEF Sorted
<1>. HIDE DEF ranges
<1>3. /\ kept \in [DOMAIN ranges -> DOMAIN ranges]
      /\ swapped \in [DOMAIN ranges -> DOMAIN ranges]
      /\ kept[1] = 1 /\ kept[2] = 2 /\ swapped[1] = 2 /\ swapped[2] = 1
  BY <1>1
<1>. HIDE DEF kept, swapped
<1>4. CASE r.from <= s.from
  <2>1. IsOrder(kept)
    BY <1>1, <1>3, <1>4
  <2>2. order \in [DOMAIN ranges -> DOMAIN ranges] /\ IsOrder(order)
    BY <1>3, <2>1, Zenon
  <2>. HIDE DEF order
  <2>3. order[1] = 1 /\ order[2] = 2
    BY <1>1, <1>4, <2>2
  <2>4. Sorted(ranges) = [i \in 1..2 |-> ranges[i]]
    BY <1>1, <1>2, <2>3
  <2>5. Sorted(ranges) = <<r, s>>
    BY <1>1, <2>4 DEF ranges
  <2>. QED BY <1>4, <2>5 DEF ranges
<1>5. CASE ~(r.from <= s.from)
  <2>1. IsOrder(swapped)
    BY <1>1, <1>3, <1>5
  <2>2. order \in [DOMAIN ranges -> DOMAIN ranges] /\ IsOrder(order)
    BY <1>3, <2>1, Zenon
  <2>. HIDE DEF order
  <2>3. order[1] = 2 /\ order[2] = 1
    BY <1>1, <1>5, <2>2
  <2>4. Sorted(ranges) = [i \in 1..2 |-> IF i = 1 THEN s ELSE r]
    BY <1>1, <1>2, <2>3
  <2>5. [i \in 1..2 |-> IF i = 1 THEN s ELSE r] = <<s, r>>
    OBVIOUS
  <2>. QED BY <1>5, <2>4, <2>5 DEF ranges
<1>. QED BY <1>4, <1>5

\* A text without its first or last places is still a text.
LEMMA PartOfText ==
  ASSUME NEW C, NEW src \in Seq(C), NEW m \in Nat \ {0}, NEW n \in Int, n <= Len(src)
  PROVE  /\ SubSeq(src, m, n) \in Seq(C)
         /\ Len(SubSeq(src, m, n)) = IF m <= n THEN n - m + 1 ELSE 0
         /\ \A i \in 1..(n - m + 1) : SubSeq(src, m, n)[i] = src[m + i - 1]
<1>1. Len(src) \in Nat
  OBVIOUS
<1>2. \A i \in m..n : src[i] \in C
  BY <1>1, ElementOfSeq
<1>. QED BY <1>2, SubSeqProperties

\* A range of the original text: where it begins and ends.
RangeIn(C, src, r) ==
  /\ r.from \in 1..Len(src)
  /\ r.to \in Nat
  /\ r.from < r.to
  /\ r.to <= Len(src) + 1
  /\ r.new \in Seq(C)

\* An edit whose oldText is found once replaces that place.
LEMMA UniqueRange ==
  ASSUME NEW C, NEW src \in Seq(C), NEW edit, edit.old \in Seq(C), edit.new \in Seq(C),
         Unique(src, edit)
  PROVE  LET r == RangeOf(src, edit) IN
         /\ RangeIn(C, src, r)
         /\ r.to = r.from + Len(edit.old)
         /\ r.new = edit.new
<1>. DEFINE M == Matches(src, edit.old)
            p == M[1]
            r == RangeOf(src, edit)
<1>1. Len(src) \in Nat /\ Len(edit.old) \in Nat \ {0} /\ Len(M) = 1
  BY EmptySeq DEF Unique
<1>2. M \in Seq(1..Len(src)) /\ MatchAt(src, edit.old, p)
  <2>1. /\ M \in Seq(1..Len(src))
        /\ \A k \in 1..Len(M) : MatchAt(src, edit.old, M[k])
    BY <1>1, MatchesProperties
  <2>. QED BY <1>1, <2>1, 1 \in 1..1
<1>3. p \in 1..Len(src) /\ p + Len(edit.old) - 1 <= Len(src)
  BY <1>1, <1>2, ElementOfSeq DEF MatchAt
<1>. HIDE DEF p
<1>4. r.from = p /\ r.to = p + Len(edit.old) /\ r.new = edit.new
  BY DEF RangeOf, RangeAt, p
<1>. HIDE DEF r
<1>5. RangeIn(C, src, r) /\ r.to = r.from + Len(edit.old) /\ r.new = edit.new
  BY <1>1, <1>3, <1>4 DEF RangeIn
<1>. QED BY <1>5 DEF r

\* Two ranges, one behind the other.
LEMMA SpliceTwo ==
  ASSUME NEW C, NEW src \in Seq(C), NEW r, NEW s, RangeIn(C, src, r), RangeIn(C, src, s)
  PROVE  Splice(src, <<r, s>>) =
           SubSeq(src, 1, r.from - 1) \o r.new \o SubSeq(src, r.to, s.from - 1)
             \o s.new \o SubSeq(src, s.to, Len(src))
<1>. DEFINE ranges == <<r, s>>
<1>1. Len(ranges) = 2 /\ ranges[1] = r /\ ranges[2] = s
  OBVIOUS
<1>. HIDE DEF ranges
<1>2. PICK out : /\ out[0] = <<>>
                 /\ \A k \in 1..2 : out[k] = Spliced(out[k - 1], src, ranges, k)
                 /\ Splice(src, ranges) = out[2] \o SubSeq(src, Cursor(ranges, 2), Len(src))
  BY <1>1, SpliceSteps, 2 \in Nat
<1>3. out[1] = Spliced(<<>>, src, ranges, 1) /\ out[2] = Spliced(out[1], src, ranges, 2)
  <2>1. 1 \in 1..2 /\ 1 - 1 = 0 /\ 2 \in 1..2 /\ 2 - 1 = 1
    OBVIOUS
  <2>. QED BY <1>2, <2>1
<1>4. Cursor(ranges, 1 - 1) = 1 /\ Cursor(ranges, 2 - 1) = r.to /\ Cursor(ranges, 2) = s.to
  BY <1>1 DEF Cursor
<1>5. SubSeq(src, 1, r.from - 1) \in Seq(C)
  BY PartOfText DEF RangeIn
<1>6. <<>> \o SubSeq(src, 1, r.from - 1) = SubSeq(src, 1, r.from - 1)
  BY <1>5, ConcatEmptySeq
<1>7. out[1] = SubSeq(src, 1, r.from - 1) \o r.new
  BY <1>1, <1>3, <1>4, <1>6 DEF Spliced
<1>8. out[2] = out[1] \o SubSeq(src, r.to, s.from - 1) \o s.new
  BY <1>1, <1>3, <1>4 DEF Spliced
<1>. QED BY <1>2, <1>4, <1>7, <1>8 DEF ranges

\* The edits[] form with one edit.
LEMMA ApplyOne ==
  ASSUME NEW src, NEW e
  PROVE  ApplyEdits(src, <<e>>) =
           IF ~Unique(src, e) THEN Rejected ELSE Splice(src, <<RangeOf(src, e)>>)
<1>. DEFINE edits == <<e>>
<1>1. /\ DOMAIN edits = {1} /\ Len(edits) = 1 /\ edits # <<>> /\ edits[1] = e
      /\ 1..(Len(edits) - 1) = {}
  OBVIOUS
<1>2. [k \in DOMAIN edits |-> RangeOf(src, edits[k])] = <<RangeOf(src, e)>>
  BY DOMAIN edits = 1..1, edits[1] = e
<1>. HIDE DEF edits
<1>. QED BY <1>1, <1>2, SortedOne DEF ApplyEdits, edits

\* The edits[] form with two: the earlier range first, no overlap.
LEMMA ApplyTwo ==
  ASSUME NEW src, NEW e, NEW f,
         Unique(src, e), Unique(src, f),
         RangeOf(src, e).from \in Nat, RangeOf(src, f).from \in Nat
  PROVE  LET r == RangeOf(src, e)
             s == RangeOf(src, f)
         IN /\ r.from <= s.from =>
                 ApplyEdits(src, <<e, f>>) =
                   IF s.from < r.to THEN Rejected ELSE Splice(src, <<r, s>>)
            /\ s.from < r.from =>
                 ApplyEdits(src, <<e, f>>) =
                   IF r.from < s.to THEN Rejected ELSE Splice(src, <<s, r>>)
<1>. DEFINE edits == <<e, f>>
            r == RangeOf(src, e)
            s == RangeOf(src, f)
            first == IF r.from <= s.from THEN r ELSE s
            second == IF r.from <= s.from THEN s ELSE r
            ranges == [k \in DOMAIN edits |-> RangeOf(src, edits[k])]
<1>1. /\ DOMAIN edits = {1, 2} /\ Len(edits) = 2 /\ edits # <<>>
      /\ edits[1] = e /\ edits[2] = f
      /\ 1..(Len(edits) - 1) = {1} /\ 1 + 1 = 2
  OBVIOUS
<1>2. ranges = <<r, s>>
  BY DOMAIN edits = 1..2, edits[1] = e, edits[2] = f
<1>3. Sorted(ranges) = <<first, second>>
  <2>. HIDE DEF ranges, edits, r, s
  <2>1. r.from \in Nat /\ s.from \in Nat
    BY DEF r, s
  <2>. QED BY <1>2, <2>1, SortedTwo
<1>. HIDE DEF edits, r, s, ranges
<1>4. ~(edits = <<>> \/ \E k \in DOMAIN edits : ~Unique(src, edits[k]))
  BY <1>1
<1>. HIDE DEF first, second
<1>5. ApplyEdits(src, edits) =
        IF \E k \in 1..(Len(edits) - 1) : <<first, second>>[k + 1].from < <<first, second>>[k].to
        THEN Rejected ELSE Splice(src, <<first, second>>)
  BY <1>3, <1>4, Zenon DEF ApplyEdits, ranges
<1>6. ApplyEdits(src, edits) =
        IF second.from < first.to THEN Rejected ELSE Splice(src, <<first, second>>)
  BY <1>1, <1>5
<1>7. /\ r.from <= s.from => first = r /\ second = s
      /\ s.from < r.from => first = s /\ second = r
  BY DEF first, second, r, s
<1>8. /\ r.from <= s.from => ApplyEdits(src, edits) =
           IF s.from < r.to THEN Rejected ELSE Splice(src, <<r, s>>)
      /\ s.from < r.from => ApplyEdits(src, edits) =
           IF r.from < s.to THEN Rejected ELSE Splice(src, <<s, r>>)
  BY <1>6, <1>7, Zenon
<1>. QED BY <1>8 DEF edits, r, s

\* An edit whose oldText is not found, or found twice, refuses the request.
LEMMA ApplyTwoRefused ==
  ASSUME NEW src, NEW e, NEW f, ~Unique(src, e) \/ ~Unique(src, f)
  PROVE  ApplyEdits(src, <<e, f>>) = Rejected
<1>. DEFINE edits == <<e, f>>
<1>1. DOMAIN edits = {1, 2} /\ edits[1] = e /\ edits[2] = f
  OBVIOUS
<1>. HIDE DEF edits
<1>2. \E k \in DOMAIN edits : ~Unique(src, edits[k])
  BY <1>1
<1>3. ApplyEdits(src, edits) = Rejected
  BY <1>2, Zenon DEF ApplyEdits
<1>. QED BY <1>3 DEF edits

\* The order of the list does not matter: ranges that begin at one place overlap.
LEMMA EitherOrder ==
  ASSUME NEW C, NEW src \in Seq(C), NEW e, NEW f,
         e.old \in Seq(C), e.new \in Seq(C), f.old \in Seq(C), f.new \in Seq(C)
  PROVE  ApplyEdits(src, <<e, f>>) = ApplyEdits(src, <<f, e>>)
<1>1. CASE ~(Unique(src, e) /\ Unique(src, f))
  BY <1>1, ApplyTwoRefused, Zenon
<1>2. CASE Unique(src, e) /\ Unique(src, f)
  <2>. DEFINE r == RangeOf(src, e)
              s == RangeOf(src, f)
  <2>1. RangeIn(C, src, r) /\ RangeIn(C, src, s)
    BY <1>2, UniqueRange
  <2>2. /\ r.from \in Nat /\ s.from \in Nat /\ r.to \in Nat /\ s.to \in Nat
        /\ r.from < r.to /\ s.from < s.to
    BY <2>1 DEF RangeIn
  <2>3. /\ r.from <= s.from => ApplyEdits(src, <<e, f>>) =
             IF s.from < r.to THEN Rejected ELSE Splice(src, <<r, s>>)
        /\ s.from < r.from => ApplyEdits(src, <<e, f>>) =
             IF r.from < s.to THEN Rejected ELSE Splice(src, <<s, r>>)
    BY <1>2, <2>2, ApplyTwo
  <2>4. /\ s.from <= r.from => ApplyEdits(src, <<f, e>>) =
             IF r.from < s.to THEN Rejected ELSE Splice(src, <<s, r>>)
        /\ r.from < s.from => ApplyEdits(src, <<f, e>>) =
             IF s.from < r.to THEN Rejected ELSE Splice(src, <<r, s>>)
    BY <1>2, <2>2, ApplyTwo
  <2>. HIDE DEF r, s
  <2>. QED BY <2>2, <2>3, <2>4 DEF Rejected
<1>. QED BY <1>1, <1>2

\* A character that stands at exactly one place of a text.
Once(t, c) == \E i \in DOMAIN t : \A j \in DOMAIN t : t[j] = c <=> j = i

\* It is counted once.
LEMMA OnceCounted ==
  ASSUME NEW t, NEW c, Once(t, c)
  PROVE  Cardinality({i \in DOMAIN t : t[i] = c}) = 1
<1>1. PICK i \in DOMAIN t : \A j \in DOMAIN t : t[j] = c <=> j = i
  BY DEF Once
<1>2. {j \in DOMAIN t : t[j] = c} = {i}
  BY <1>1
<1>. QED BY <1>2, FS_Singleton

\* Text without the character may stand before and behind it.
LEMMA OnceConcat ==
  ASSUME NEW C, NEW t \in Seq(C), NEW u \in Seq(C), NEW c
  PROVE  /\ Once(t, c) /\ (\A j \in 1..Len(u) : u[j] # c) => Once(t \o u, c)
         /\ Once(u, c) /\ (\A j \in 1..Len(t) : t[j] # c) => Once(t \o u, c)
<1>. DEFINE w == t \o u
<1>1. /\ Len(t) \in Nat /\ Len(u) \in Nat /\ Len(w) = Len(t) + Len(u)
      /\ DOMAIN t = 1..Len(t) /\ DOMAIN u = 1..Len(u) /\ DOMAIN w = 1..(Len(t) + Len(u))
      /\ \A j \in 1..(Len(t) + Len(u)) : w[j] = IF j <= Len(t) THEN t[j] ELSE u[j - Len(t)]
  BY ConcatProperties, LenProperties
<1>. HIDE DEF w
<1>2. ASSUME Once(t, c), \A j \in 1..Len(u) : u[j] # c
      PROVE  Once(w, c)
  <2>0. PICK i \in DOMAIN t : \A j \in DOMAIN t : t[j] = c <=> j = i
    BY <1>2, Zenon DEF Once
  <2>1. i \in 1..Len(t) /\ \A j \in 1..Len(t) : t[j] = c <=> j = i
    BY <1>1, <2>0
  <2>2. i \in DOMAIN w
    BY <1>1
  <2>3. ASSUME NEW j \in DOMAIN w
        PROVE  w[j] = c <=> j = i
    <3>1. CASE j <= Len(t)
      BY <1>1, <2>1, <3>1
    <3>2. CASE ~(j <= Len(t))
      <4>1. j - Len(t) \in 1..Len(u) /\ w[j] = u[j - Len(t)] /\ j # i
        BY <1>1, <3>2
      <4>. QED BY <1>2, <4>1
    <3>. QED BY <3>1, <3>2
  <2>. QED BY <2>2, <2>3 DEF Once
<1>3. ASSUME Once(u, c), \A j \in 1..Len(t) : t[j] # c
      PROVE  Once(w, c)
  <2>0. PICK i \in DOMAIN u : \A j \in DOMAIN u : u[j] = c <=> j = i
    BY <1>3, Zenon DEF Once
  <2>1. i \in 1..Len(u) /\ \A j \in 1..Len(u) : u[j] = c <=> j = i
    BY <1>1, <2>0
  <2>2. Len(t) + i \in DOMAIN w
    BY <1>1
  <2>3. ASSUME NEW j \in DOMAIN w
        PROVE  w[j] = c <=> j = Len(t) + i
    <3>1. CASE j <= Len(t)
      BY <1>1, <1>3, <3>1
    <3>2. CASE ~(j <= Len(t))
      <4>1. j - Len(t) \in 1..Len(u) /\ w[j] = u[j - Len(t)]
        BY <1>1, <3>2
      <4>2. u[j - Len(t)] = c <=> j - Len(t) = i
        BY <2>1, <4>1
      <4>3. j - Len(t) = i <=> j = Len(t) + i
        BY <1>1
      <4>. QED BY <4>1, <4>2, <4>3, Zenon
    <3>. QED BY <3>1, <3>2
  <2>. QED BY <2>2, <2>3 DEF Once
<1>. QED BY <1>2, <1>3 DEF w

\* Two accepted replacements, the earlier one first: each new text stands
\* where its old one stood, and the rest of the text is kept.
LEMMA SplicedLength ==
  ASSUME NEW C, NEW src \in Seq(C), NEW r, NEW s, RangeIn(C, src, r), RangeIn(C, src, s),
         r.to <= s.from
  PROVE  /\ Splice(src, <<r, s>>) \in Seq(C)
         /\ Len(Splice(src, <<r, s>>)) =
              Len(src) - (r.to - r.from) - (s.to - s.from) + Len(r.new) + Len(s.new)
<1>. DEFINE a == SubSeq(src, 1, r.from - 1)
            m == SubSeq(src, r.to, s.from - 1)
            z == SubSeq(src, s.to, Len(src))
<1>1. /\ Len(src) \in Nat /\ r.from \in Nat \ {0} /\ r.to \in Nat \ {0} /\ s.from \in Nat \ {0}
      /\ s.to \in Nat \ {0} /\ r.from <= Len(src) /\ s.from <= Len(src)
      /\ r.to <= Len(src) + 1 /\ s.to <= Len(src) + 1 /\ r.from < r.to /\ s.from < s.to
      /\ r.new \in Seq(C) /\ s.new \in Seq(C)
  BY DEF RangeIn
<1>2. /\ a \in Seq(C) /\ Len(a) = r.from - 1
      /\ m \in Seq(C) /\ Len(m) = s.from - r.to
      /\ z \in Seq(C) /\ Len(z) = Len(src) - s.to + 1
  <2>1. a \in Seq(C) /\ Len(a) = IF 1 <= r.from - 1 THEN (r.from - 1) - 1 + 1 ELSE 0
    BY <1>1, PartOfText
  <2>2. m \in Seq(C) /\ Len(m) = IF r.to <= s.from - 1 THEN (s.from - 1) - r.to + 1 ELSE 0
    BY <1>1, PartOfText
  <2>3. z \in Seq(C) /\ Len(z) = IF s.to <= Len(src) THEN Len(src) - s.to + 1 ELSE 0
    BY <1>1, PartOfText
  <2>. HIDE DEF a, m, z
  <2>4. Len(a) = r.from - 1
    BY <1>1, <2>1
  <2>5. Len(m) = s.from - r.to
    BY <1>1, <2>2
  <2>6. Len(z) = Len(src) - s.to + 1
    BY <1>1, <2>3
  <2>. QED BY <2>1, <2>2, <2>3, <2>4, <2>5, <2>6
<1>. DEFINE b == a \o r.new
            d == b \o m
            e == d \o s.new
            out == e \o z
<1>3. Splice(src, <<r, s>>) = out
  BY SpliceTwo
<1>. HIDE DEF a, m, z
<1>4. b \in Seq(C) /\ Len(b) = Len(a) + Len(r.new)
  BY <1>1, <1>2, ConcatProperties, SMTT(40)
<1>. HIDE DEF b
<1>5. d \in Seq(C) /\ Len(d) = Len(b) + Len(m)
  BY <1>2, <1>4, ConcatProperties
<1>. HIDE DEF d
<1>6. e \in Seq(C) /\ Len(e) = Len(d) + Len(s.new)
  BY <1>1, <1>5, ConcatProperties, ZenonT(60)
<1>. HIDE DEF e
<1>7. out \in Seq(C) /\ Len(out) = Len(e) + Len(z)
  BY <1>2, <1>6, ConcatProperties
<1>. HIDE DEF out
<1>8. Len(r.new) \in Nat /\ Len(s.new) \in Nat
  BY <1>1
<1>9. Len(out) = (r.from - 1) + Len(r.new) + (s.from - r.to) + Len(s.new) + (Len(src) - s.to + 1)
  BY <1>2, <1>4, <1>5, <1>6, <1>7
<1>10. Len(out) = Len(src) - (r.to - r.from) - (s.to - s.from) + Len(r.new) + Len(s.new)
  <2>. DEFINE n == Len(src)
              p == r.from
              q == r.to
              u == s.from
              v == s.to
              x == Len(r.new)
              y == Len(s.new)
  <2>1. n \in Int /\ p \in Int /\ q \in Int /\ u \in Int /\ v \in Int /\ x \in Int /\ y \in Int
    BY <1>1, <1>8
  <2>2. Len(out) = (p - 1) + x + (u - q) + y + (n - v + 1)
    BY <1>9
  <2>. HIDE DEF n, p, q, u, v, x, y
  <2>3. Len(out) = n - (q - p) - (v - u) + x + y
    BY <2>1, <2>2
  <2>. QED BY <2>3 DEF n, p, q, u, v, x, y
<1>. QED BY <1>3, <1>7, <1>10

\* A character the text does not have, once in one of the two new texts, is
\* once in the result.
LEMMA SplicedOnce ==
  ASSUME NEW C, NEW src \in Seq(C), NEW r, NEW s, RangeIn(C, src, r), RangeIn(C, src, s),
         NEW c, \A j \in 1..Len(src) : src[j] # c
  PROVE  /\ Once(r.new, c) /\ (\A j \in 1..Len(s.new) : s.new[j] # c) =>
              Once(Splice(src, <<r, s>>), c)
         /\ Once(s.new, c) /\ (\A j \in 1..Len(r.new) : r.new[j] # c) =>
              Once(Splice(src, <<r, s>>), c)
<1>. DEFINE a == SubSeq(src, 1, r.from - 1)
            m == SubSeq(src, r.to, s.from - 1)
            z == SubSeq(src, s.to, Len(src))
            None(t) == \A j \in 1..Len(t) : t[j] # c
<1>1. /\ Len(src) \in Nat /\ r.from \in Nat \ {0} /\ r.to \in Nat \ {0} /\ s.from \in Nat \ {0}
      /\ s.to \in Nat \ {0} /\ r.from <= Len(src) /\ s.from <= Len(src)
      /\ r.to <= Len(src) + 1 /\ s.to <= Len(src) + 1
      /\ r.new \in Seq(C) /\ s.new \in Seq(C)
  BY DEF RangeIn
<1>2. ASSUME NEW p \in Nat \ {0}, NEW q \in Int, q <= Len(src)
      PROVE  SubSeq(src, p, q) \in Seq(C) /\ None(SubSeq(src, p, q))
  <2>. DEFINE t == SubSeq(src, p, q)
  <2>1. /\ t \in Seq(C)
        /\ Len(t) = IF p <= q THEN q - p + 1 ELSE 0
        /\ \A i \in 1..(q - p + 1) : t[i] = src[p + i - 1]
    BY <1>2, PartOfText
  <2>. HIDE DEF t
  <2>2. ASSUME NEW j \in 1..Len(t)
        PROVE  t[j] # c
    <3>1. j \in 1..(q - p + 1) /\ p + j - 1 \in 1..Len(src)
      BY <1>1, <1>2, <2>1
    <3>. QED BY <2>1, <3>1
  <2>. QED BY <2>1, <2>2 DEF t
<1>3. a \in Seq(C) /\ None(a) /\ m \in Seq(C) /\ None(m) /\ z \in Seq(C) /\ None(z)
  <2>1. 1 \in Nat \ {0} /\ r.from - 1 \in Int /\ r.from - 1 <= Len(src)
    BY <1>1
  <2>2. s.from - 1 \in Int /\ s.from - 1 <= Len(src) /\ Len(src) \in Int /\ Len(src) <= Len(src)
    BY <1>1
  <2>. HIDE DEF None
  <2>3. a \in Seq(C) /\ None(a)
    BY <1>2, <2>1
  <2>4. m \in Seq(C) /\ None(m)
    BY <1>1, <1>2, <2>2
  <2>5. z \in Seq(C) /\ None(z)
    BY <1>1, <1>2, <2>2
  <2>. QED BY <2>3, <2>4, <2>5
<1>4. Splice(src, <<r, s>>) = a \o r.new \o m \o s.new \o z
  BY SpliceTwo
<1>. HIDE DEF a, m, z
<1>5. ASSUME NEW t \in Seq(C), NEW u \in Seq(C), None(t), None(u)
      PROVE  None(t \o u)
  <2>1. /\ Len(t) \in Nat /\ Len(u) \in Nat /\ Len(t \o u) = Len(t) + Len(u)
        /\ \A j \in 1..(Len(t) + Len(u)) :
             (t \o u)[j] = IF j <= Len(t) THEN t[j] ELSE u[j - Len(t)]
    BY ConcatProperties
  <2>2. ASSUME NEW j \in 1..(Len(t) + Len(u))
        PROVE  (t \o u)[j] # c
    <3>1. CASE j <= Len(t)
      BY <1>5, <2>1, <3>1
    <3>2. CASE ~(j <= Len(t))
      <4>1. j - Len(t) \in 1..Len(u)
        BY <2>1, <3>2
      <4>. QED BY <1>5, <2>1, <3>2, <4>1
    <3>. QED BY <3>1, <3>2
  <2>. QED BY <2>1, <2>2
<1>6. /\ a \o r.new \in Seq(C) /\ a \o r.new \o m \in Seq(C)
      /\ a \o r.new \o m \o s.new \in Seq(C)
  BY <1>1, <1>3, ConcatProperties
<1>7. ASSUME Once(r.new, c), None(s.new)
      PROVE  Once(a \o r.new \o m \o s.new \o z, c)
  <2>1. Once(a \o r.new, c)
    BY <1>1, <1>3, <1>7, OnceConcat
  <2>2. Once(a \o r.new \o m, c)
    BY <1>3, <1>6, <2>1, OnceConcat
  <2>3. Once(a \o r.new \o m \o s.new, c)
    BY <1>1, <1>6, <1>7, <2>2, OnceConcat
  <2>. QED BY <1>3, <1>6, <2>3, OnceConcat
<1>8. ASSUME Once(s.new, c), None(r.new)
      PROVE  Once(a \o r.new \o m \o s.new \o z, c)
  <2>1. None(a \o r.new)
    BY <1>1, <1>3, <1>5, <1>8
  <2>2. None(a \o r.new \o m)
    BY <1>3, <1>5, <1>6, <2>1
  <2>3. Once(a \o r.new \o m \o s.new, c)
    BY <1>1, <1>6, <1>8, <2>2, OnceConcat
  <2>. QED BY <1>3, <1>6, <2>3, OnceConcat
<1>. QED BY <1>4, <1>7, <1>8

\* Two accepted edits, the new text of the first quoting the oldText of the
\* second: both are made once.
LEMMA BothMadeOnce ==
  ASSUME NEW src \in Seq(Letters), NEW old1 \in Seq(Letters), NEW old2 \in Seq(Letters),
         "x" \notin Letters, "y" \notin Letters
  PROVE  LET out == ApplyEdits(src, <<[old |-> old1, new |-> <<"x">> \o old2],
                                     [old |-> old2, new |-> <<"y">>]>>)
         IN out # Rejected =>
              /\ Len(out) = Len(src) - Len(old1) + 2
              /\ Once(out, "x") /\ Once(out, "y")
<1>. DEFINE C == Letters \union {"x", "y"}
            n1 == <<"x">> \o old2
            n2 == <<"y">>
            e == [old |-> old1, new |-> n1]
            f == [old |-> old2, new |-> n2]
            out == ApplyEdits(src, <<e, f>>)
            r == RangeOf(src, e)
            s == RangeOf(src, f)
<1>. SUFFICES ASSUME out # Rejected
              PROVE  /\ Len(out) = Len(src) - Len(old1) + 2
                     /\ Once(out, "x") /\ Once(out, "y")
  OBVIOUS
<1>1. src \in Seq(C) /\ old1 \in Seq(C) /\ old2 \in Seq(C)
  BY SeqMonotonic, Letters \subseteq C
<1>2. /\ "x" \in C /\ "y" \in C
      /\ \A t \in Seq(Letters) : \A j \in 1..Len(t) : t[j] # "x" /\ t[j] # "y"
  BY ElementOfSeq
<1>3. /\ Len(src) \in Nat /\ Len(old1) \in Nat /\ Len(old2) \in Nat
  OBVIOUS
<1>4. n2 \in Seq(C) /\ Len(n2) = 1 /\ n2[1] = "y" /\ Once(n2, "y") /\ \A j \in 1..Len(n2) : n2[j] # "x"
  BY <1>2 DEF Once
<1>5. /\ n1 \in Seq(C) /\ Len(n1) = 1 + Len(old2) /\ Once(n1, "x")
      /\ \A j \in 1..Len(n1) : n1[j] # "y"
  <2>. DEFINE h == <<"x">>
  <2>1. h \in Seq(C) /\ Len(h) = 1 /\ h[1] = "x" /\ Once(h, "x")
    BY <1>2 DEF Once
  <2>. HIDE DEF h
  <2>2. /\ h \o old2 \in Seq(C)
        /\ Len(h \o old2) = 1 + Len(old2)
        /\ \A j \in 1..(1 + Len(old2)) : (h \o old2)[j] = IF j <= 1 THEN h[j] ELSE old2[j - 1]
    <3>1. /\ h \o old2 \in Seq(C)
          /\ Len(h \o old2) = Len(h) + Len(old2)
          /\ \A j \in 1..(Len(h) + Len(old2)) :
               (h \o old2)[j] = IF j <= Len(h) THEN h[j] ELSE old2[j - Len(h)]
      BY <1>1, <2>1, ConcatProperties
    <3>. QED BY <2>1, <3>1
  <2>3. Once(h \o old2, "x")
    BY <1>1, <1>2, <2>1, OnceConcat
  <2>4. ASSUME NEW j \in 1..(1 + Len(old2))
        PROVE  (h \o old2)[j] # "y"
    <3>1. CASE j = 1
      BY <2>1, <2>2, <3>1
    <3>2. CASE j # 1
      <4>1. j - 1 \in 1..Len(old2) /\ ~(j <= 1)
        BY <1>3, <3>2
      <4>. QED BY <1>2, <2>2, <4>1
    <3>. QED BY <3>1, <3>2
  <2>. QED BY <2>2, <2>3, <2>4 DEF h
<1>. HIDE DEF C, n1, n2
<1>6. e.old = old1 /\ e.new = n1 /\ f.old = old2 /\ f.new = n2
  OBVIOUS
<1>. HIDE DEF e, f
<1>7. Unique(src, e) /\ Unique(src, f)
  BY ApplyTwoRefused
<1>8. /\ RangeIn(C, src, r) /\ r.to = r.from + Len(old1) /\ r.new = n1
      /\ RangeIn(C, src, s) /\ s.to = s.from + Len(old2) /\ s.new = n2
  BY <1>1, <1>4, <1>5, <1>6, <1>7, UniqueRange
<1>9. r.from \in Nat /\ s.from \in Nat /\ r.to \in Nat /\ s.to \in Nat
  BY <1>8, SMTT(40) DEF RangeIn
<1>10. /\ r.from <= s.from => out = IF s.from < r.to THEN Rejected ELSE Splice(src, <<r, s>>)
       /\ s.from < r.from => out = IF r.from < s.to THEN Rejected ELSE Splice(src, <<s, r>>)
  BY <1>7, <1>9, ApplyTwo
<1>. HIDE DEF out, r, s
<1>11. CASE r.from <= s.from
  <2>1. r.to <= s.from /\ out = Splice(src, <<r, s>>)
    BY <1>9, <1>10, <1>11
  <2>2. Len(out) = Len(src) - (r.to - r.from) - (s.to - s.from) + Len(n1) + Len(n2)
    BY <1>1, <1>8, <2>1, SplicedLength
  <2>3. r.to - r.from = Len(old1) /\ s.to - s.from = Len(old2)
    BY <1>3, <1>8, <1>9, SMTT(40)
  <2>4. Len(out) = Len(src) - Len(old1) + 2
    <3>1. Len(out) = Len(src) - Len(old1) - Len(old2) + (1 + Len(old2)) + 1
      BY <1>4, <1>5, <2>2, <2>3
    <3>. QED BY <1>3, <3>1
  <2>5. Once(out, "x") /\ Once(out, "y")
    BY <1>1, <1>2, <1>4, <1>5, <1>8, <2>1, SplicedOnce
  <2>. QED BY <2>4, <2>5
<1>12. CASE s.from < r.from
  <2>1. s.to <= r.from /\ out = Splice(src, <<s, r>>)
    BY <1>9, <1>10, <1>12
  <2>2. Len(out) = Len(src) - (s.to - s.from) - (r.to - r.from) + Len(n2) + Len(n1)
    BY <1>1, <1>8, <2>1, SplicedLength
  <2>3. r.to - r.from = Len(old1) /\ s.to - s.from = Len(old2)
    BY <1>3, <1>8, <1>9, SMTT(40)
  <2>4. Len(out) = Len(src) - Len(old1) + 2
    <3>1. Len(out) = Len(src) - Len(old2) - Len(old1) + 1 + (1 + Len(old2))
      BY <1>4, <1>5, <2>2, <2>3
    <3>. QED BY <1>3, <3>1
  <2>5. Once(out, "x") /\ Once(out, "y")
    BY <1>1, <1>2, <1>4, <1>5, <1>8, <2>1, SplicedOnce
  <2>. QED BY <2>4, <2>5
<1>. QED BY <1>9, <1>11, <1>12

\* One edit: both forms of the request do the same.
LEMMA FormsAgree ==
  ASSUME NEW C, NEW src \in Seq(C), NEW edit, edit.old \in Seq(C)
  PROVE  ApplyEdits(src, <<edit>>) = ApplyLegacy(src, edit, FALSE)
<1>. DEFINE M == Matches(src, edit.old)
<1>1. ApplyEdits(src, <<edit>>) =
        IF ~Unique(src, edit) THEN Rejected ELSE Splice(src, <<RangeOf(src, edit)>>)
  BY ApplyOne
<1>2. CASE edit.old = <<>>
  BY <1>1, <1>2, Zenon DEF Unique, ApplyLegacy
<1>3. CASE edit.old # <<>>
  <2>1. Len(src) \in Nat /\ Len(edit.old) \in Nat \ {0}
    BY <1>3, EmptySeq
  <2>2. M \in Seq(1..Len(src))
    BY <2>1, MatchesProperties
  <2>. HIDE DEF M
  <2>3. Len(M) \in Nat /\ DOMAIN M = 1..Len(M) /\ (M = <<>> <=> Len(M) = 0)
    BY <2>2, EmptySeq, LenProperties
  <2>4. ApplyLegacy(src, edit, FALSE) =
          IF M = <<>> \/ Len(M) > 1 THEN Rejected
          ELSE Splice(src, [k \in DOMAIN M |-> RangeAt(edit, M[k])])
    BY <1>3, Zenon DEF ApplyLegacy, M
  <2>5. Unique(src, edit) <=> Len(M) = 1
    BY <1>3 DEF Unique, M
  <2>6. CASE Len(M) = 1
    <3>1. RangeOf(src, edit) = RangeAt(edit, M[1])
      BY DEF RangeOf, M
    <3>2. [k \in DOMAIN M |-> RangeAt(edit, M[k])] = <<RangeAt(edit, M[1])>>
      <4>. HIDE DEF RangeAt
      <4>. QED BY <2>3, <2>6
    <3>3. ~(M = <<>> \/ Len(M) > 1)
      BY <2>3, <2>6
    <3>. QED BY <1>1, <2>4, <2>5, <2>6, <3>1, <3>2, <3>3, Zenon
  <2>7. CASE Len(M) # 1
    <3>1. M = <<>> \/ Len(M) > 1
      BY <2>3, <2>7
    <3>. QED BY <1>1, <2>4, <2>5, <2>7, <3>1, Zenon
  <2>. QED BY <2>6, <2>7
<1>. QED BY <1>2, <1>3

----------------------------------------------------------------------------
(* replace_all. *)
NoMatch(src, old) == \A j \in Nat \ {0} : ~MatchAt(src, old, j)

\* A text without a match has no matches.
LEMMA NoMatchesFound ==
  ASSUME NEW src, Len(src) \in Nat, NEW old, Len(old) \in Nat \ {0}, NoMatch(src, old)
  PROVE  Matches(src, old) = <<>>
<1>. DEFINE M == Matches(src, old)
<1>1. M \in Seq(1..Len(src)) /\ \A k \in 1..Len(M) : MatchAt(src, old, M[k])
  BY MatchesProperties
<1>. HIDE DEF M
<1>2. SUFFICES ASSUME M # <<>>
               PROVE  FALSE
  BY DEF M
<1>3. 1 \in 1..Len(M)
  BY <1>1, <1>2, EmptySeq
<1>4. M[1] \in Nat \ {0}
  BY <1>1, <1>3, ElementOfSeq
<1>. QED BY <1>1, <1>3, <1>4 DEF NoMatch

\* A match cannot reach across a character its oldText does not have.
LEMMA NoMatchAcross ==
  ASSUME NEW C, NEW t \in Seq(C), NEW u \in Seq(C), NEW old \in Seq(C), old # <<>>,
         NEW c \in C, \A j \in 1..Len(old) : old[j] # c,
         NoMatch(t, old), NoMatch(u, old)
  PROVE  NoMatch(t \o (<<c>> \o u), old)
<1>. DEFINE h == <<c>>
            v == h \o u
            w == t \o v
            L == Len(old)
<1>1. h \in Seq(C) /\ Len(h) = 1 /\ h[1] = c
  OBVIOUS
<1>. HIDE DEF h
<1>2. /\ v \in Seq(C) /\ Len(v) = Len(h) + Len(u)
      /\ \A j \in 1..(Len(h) + Len(u)) : v[j] = IF j <= Len(h) THEN h[j] ELSE u[j - Len(h)]
  BY <1>1, ConcatProperties
<1>3. Len(t) \in Nat /\ Len(u) \in Nat /\ L \in Nat \ {0}
  BY EmptySeq
<1>. HIDE DEF v
<1>4. /\ w \in Seq(C) /\ Len(w) = Len(t) + Len(v)
      /\ \A j \in 1..(Len(t) + Len(v)) : w[j] = IF j <= Len(t) THEN t[j] ELSE v[j - Len(t)]
  <2>1. v \in Seq(C)
    BY <1>2
  <2>. QED BY <2>1, ConcatProperties
<1>. HIDE DEF w
<1>5. /\ Len(w) = Len(t) + 1 + Len(u)
      /\ \A j \in 1..Len(t) : w[j] = t[j]
      /\ w[Len(t) + 1] = c
      /\ \A j \in 1..Len(u) : w[Len(t) + 1 + j] = u[j]
  <2>1. Len(w) = Len(t) + 1 + Len(u) /\ Len(v) = 1 + Len(u)
    BY <1>1, <1>2, <1>3, <1>4
  <2>2. \A j \in 1..Len(t) : w[j] = t[j]
    BY <1>3, <1>4, <2>1
  <2>3. w[Len(t) + 1] = v[1] /\ v[1] = c
    BY <1>1, <1>2, <1>3, <1>4, <2>1
  <2>4. ASSUME NEW j \in 1..Len(u)
        PROVE  w[Len(t) + 1 + j] = u[j]
    <3>1. /\ Len(t) + 1 + j \in 1..(Len(t) + Len(v)) /\ ~(Len(t) + 1 + j <= Len(t))
          /\ (Len(t) + 1 + j) - Len(t) = 1 + j
      BY <1>3, <2>1
    <3>2. w[Len(t) + 1 + j] = v[1 + j]
      BY <1>4, <3>1
    <3>3. 1 + j \in 1..(1 + Len(u)) /\ ~(1 + j <= 1) /\ (1 + j) - 1 = j
      BY <1>3
    <3>4. v[1 + j] = u[j]
      BY <1>1, <1>2, <3>3
    <3>. QED BY <3>2, <3>4
  <2>. QED BY <2>1, <2>2, <2>3, <2>4
<1>6. SUFFICES ASSUME NEW i \in Nat \ {0}, MatchAt(w, old, i)
               PROVE  FALSE
  BY DEF NoMatch, w, v, h
<1>7. i + L - 1 <= Len(w) /\ \A j \in 1..L : w[i + j - 1] = old[j]
  BY <1>4, <1>6, MatchPointwise
<1>8. CASE i + L - 1 <= Len(t)
  <2>1. ASSUME NEW j \in 1..L
        PROVE  t[i + j - 1] = old[j]
    <3>1. i + j - 1 \in 1..Len(t)
      BY <1>3, <1>8
    <3>. QED BY <1>5, <1>7, <3>1
  <2>2. MatchAt(t, old, i)
    BY <1>8, <2>1, MatchPointwise
  <2>. QED BY <2>2 DEF NoMatch
<1>9. CASE i > Len(t) + 1
  <2>. DEFINE k == i - Len(t) - 1
  <2>1. k \in Nat \ {0} /\ k + L - 1 <= Len(u)
    BY <1>3, <1>5, <1>7, <1>9
  <2>2. ASSUME NEW j \in 1..L
        PROVE  u[k + j - 1] = old[j]
    <3>1. k + j - 1 \in 1..Len(u) /\ Len(t) + 1 + (k + j - 1) = i + j - 1
      BY <1>3, <2>1
    <3>. HIDE DEF k
    <3>. QED BY <1>5, <1>7, <3>1
  <2>. HIDE DEF k
  <2>3. MatchAt(u, old, k)
    BY <2>1, <2>2, MatchPointwise
  <2>. QED BY <2>1, <2>3 DEF NoMatch
<1>10. CASE i <= Len(t) + 1 /\ i + L - 1 > Len(t)
  <2>. DEFINE k == Len(t) + 2 - i
  <2>1. k \in 1..L /\ i + k - 1 = Len(t) + 1
    BY <1>3, <1>10
  <2>. HIDE DEF k
  <2>2. w[i + k - 1] = old[k]
    BY <1>7, <2>1
  <2>. QED BY <1>5, <2>1, <2>2
<1>. QED BY <1>3, <1>8, <1>9, <1>10

\* A match in a part of a text is a match in the text.
LEMMA MatchOfPart ==
  ASSUME NEW C, NEW src \in Seq(C), NEW old \in Seq(C), old # <<>>,
         NEW m \in Nat \ {0}, NEW n \in Int, n <= Len(src), NEW i \in Nat \ {0},
         MatchAt(SubSeq(src, m, n), old, i)
  PROVE  MatchAt(src, old, m + i - 1) /\ m + i - 1 + Len(old) - 1 <= n
<1>. DEFINE t == SubSeq(src, m, n)
            L == Len(old)
            k == m + i - 1
<1>1. /\ t \in Seq(C)
      /\ Len(t) = IF m <= n THEN n - m + 1 ELSE 0
      /\ \A j \in 1..(n - m + 1) : t[j] = src[m + j - 1]
  BY PartOfText
<1>2. MatchAt(t, old, i)
  OBVIOUS
<1>. HIDE DEF t
<1>3. i + L - 1 <= Len(t) /\ \A j \in 1..L : t[i + j - 1] = old[j]
  BY <1>1, <1>2, MatchPointwise
<1>4. L \in Nat \ {0} /\ Len(src) \in Nat
  BY EmptySeq
<1>5. Len(t) = n - m + 1 /\ k \in Nat \ {0} /\ k + L - 1 <= n
  BY <1>1, <1>3, <1>4
<1>6. ASSUME NEW j \in 1..L
      PROVE  src[k + j - 1] = old[j]
  <2>1. i + j - 1 \in 1..(n - m + 1) /\ m + (i + j - 1) - 1 = k + j - 1
    BY <1>3, <1>4, <1>5
  <2>2. t[i + j - 1] = src[m + (i + j - 1) - 1]
    BY <1>1, <2>1
  <2>. QED BY <1>3, <2>1, <2>2
<1>. HIDE DEF k
<1>7. MatchAt(src, old, k)
  <2>1. k + Len(old) - 1 <= Len(src)
    BY <1>4, <1>5
  <2>. QED BY <1>5, <1>6, <2>1, MatchPointwise
<1>. QED BY <1>5, <1>7 DEF k

\* What a replace-all keeps of the text, piece by piece, holds no match: a match
\* there would be one of the text that no replaced one reaches.
LEMMA KeptPieces ==
  ASSUME NEW C, NEW src \in Seq(C), NEW old \in Seq(C), old # <<>>,
         NEW M, M = Matches(src, old),
         NEW k \in 0..Len(M), NEW m \in Nat \ {0}, NEW b \in Int,
         m = IF k = 0 THEN 1 ELSE M[k] + Len(old),
         b <= Len(src), k < Len(M) => b < M[k + 1]
  PROVE  NoMatch(SubSeq(src, m, b), old)
<1>. DEFINE L == Len(old)
<1>1. Len(src) \in Nat /\ L \in Nat \ {0}
  BY EmptySeq
<1>2. /\ M \in Seq(1..Len(src))
      /\ \A i, j \in 1..Len(M) : i < j => M[i] + L <= M[j]
      /\ \A q \in 1..Len(src) : MatchAt(src, old, q) =>
           \E j \in 1..Len(M) : M[j] <= q /\ q < M[j] + L
  BY <1>1, MatchesProperties
<1>3. Len(M) \in Nat /\ \A j \in 1..Len(M) : M[j] \in Nat
  BY <1>2, ElementOfSeq, SMTT(40)
<1>4. SUFFICES ASSUME NEW i \in Nat \ {0}, MatchAt(SubSeq(src, m, b), old, i)
               PROVE  FALSE
  BY DEF NoMatch
<1>. DEFINE q == m + i - 1
<1>5. MatchAt(src, old, q) /\ q + L - 1 <= b
  BY <1>4, MatchOfPart
<1>6. q \in 1..Len(src) /\ q >= m /\ q <= b
  BY <1>1, <1>5, SMTT(40)
<1>. HIDE DEF q, L
<1>7. PICK j \in 1..Len(M) : M[j] <= q /\ q < M[j] + L
  BY <1>2, <1>5, <1>6
<1>8. CASE j <= k
  <2>1. k \in 1..Len(M) /\ m = M[k] + L
    BY <1>3, <1>8 DEF L
  <2>2. M[j] + L <= m
    <3>1. CASE j = k
      BY <2>1, <3>1
    <3>2. CASE j # k
      <4>1. M[j] + L <= M[k]
        BY <1>2, <1>8, <2>1, <3>2
      <4>2. M[j] \in Nat /\ M[k] \in Nat
        BY <1>3, <2>1
      <4>. QED BY <1>1, <2>1, <4>1, <4>2, SMTT(40)
    <3>. QED BY <3>1, <3>2
  <2>3. M[j] \in Nat
    BY <1>3
  <2>. QED BY <1>1, <1>6, <1>7, <2>2, <2>3
<1>9. CASE j > k
  <2>1. k + 1 \in 1..Len(M) /\ b < M[k + 1] /\ M[k + 1] \in Nat /\ M[j] \in Nat
    BY <1>3, <1>9
  <2>2. M[k + 1] <= M[j]
    <3>1. CASE j = k + 1
      BY <2>1, <3>1
    <3>2. CASE j # k + 1
      <4>1. k + 1 < j
        BY <1>9, <3>2
      <4>2. M[k + 1] + L <= M[j]
        BY <1>2, <2>1, <4>1
      <4>. QED BY <1>1, <2>1, <4>2
    <3>. QED BY <3>1, <3>2
  <2>. QED BY <1>6, <1>7, <2>1, <2>2
<1>. QED BY <1>8, <1>9

\* What replace_all puts in is not searched again, and nothing else is left.
LEMMA ReplaceAllLeavesNone ==
  ASSUME NEW src \in Seq(Letters), NEW edit, edit.old \in Seq(Letters), edit.new = <<"x">>,
         "x" \notin Letters, edit.old # <<>>, Matches(src, edit.old) # <<>>
  PROVE  Matches(ApplyLegacy(src, edit, TRUE), edit.old) = <<>>
<1>. DEFINE C == Letters \union {"x"}
            old == edit.old
            L == Len(old)
            M == Matches(src, old)
            n == Len(M)
            ranges == [k \in DOMAIN M |-> RangeAt(edit, M[k])]
<1>1. src \in Seq(C) /\ old \in Seq(C) /\ "x" \in C
  BY SeqMonotonic, Letters \subseteq C
<1>2. \A j \in 1..L : old[j] # "x"
  BY ElementOfSeq
<1>3. Len(src) \in Nat /\ L \in Nat \ {0}
  BY EmptySeq
<1>4. M \in Seq(1..Len(src)) /\ \A k \in 1..n : MatchAt(src, old, M[k])
  BY <1>3, MatchesProperties
<1>5. ApplyLegacy(src, edit, TRUE) = Splice(src, ranges)
  BY Zenon DEF ApplyLegacy
<1>6. n \in Nat \ {0} /\ DOMAIN M = 1..n
  <2>. HIDE DEF M
  <2>. QED BY <1>4, EmptySeq, LenProperties DEF M
<1>7. /\ Len(ranges) = n
      /\ \A k \in 1..n : ranges[k].from = M[k] /\ ranges[k].to = M[k] + L /\ ranges[k].new = <<"x">>
  <2>. HIDE DEF M
  <2>1. Len(ranges) = n
    BY <1>6 DEF RangeAt
  <2>2. \A k \in 1..n : ranges[k] = RangeAt(edit, M[k])
    BY <1>6
  <2>. QED BY <2>1, <2>2 DEF RangeAt
<1>. HIDE DEF ranges
<1>8. \A k \in 1..n : M[k] \in Nat \ {0} /\ M[k] + L - 1 <= Len(src)
  <2>. HIDE DEF M
  <2>. QED BY <1>4, ElementOfSeq DEF MatchAt
<1>9. PICK out : /\ out[0] = <<>>
                 /\ \A k \in 1..n : out[k] = Spliced(out[k - 1], src, ranges, k)
                 /\ Splice(src, ranges) = out[n] \o SubSeq(src, Cursor(ranges, n), Len(src))
  BY <1>6, <1>7, SpliceSteps, ZenonT(60)
<1>10. \A k \in 0..n : Cursor(ranges, k) = IF k = 0 THEN 1 ELSE M[k] + L
  <2>. HIDE DEF n, L, M
  <2>1. \A k \in 0..n : k = 0 \/ k \in 1..n
    BY <1>6
  <2>. QED BY <1>7, <2>1 DEF Cursor
<1>11. ASSUME NEW k \in 0..n, NEW b \in Int, b <= Len(src), k < n => b < M[k + 1]
       PROVE  LET piece == SubSeq(src, Cursor(ranges, k), b)
              IN  piece \in Seq(C) /\ NoMatch(piece, old)
  <2>. DEFINE m == Cursor(ranges, k)
  <2>1. m = IF k = 0 THEN 1 ELSE M[k] + L
    BY <1>10
  <2>2. k = 0 \/ k \in 1..n
    BY <1>6
  <2>3. m \in Nat \ {0}
    BY <1>3, <1>8, <2>1, <2>2
  <2>. HIDE DEF M, m
  <2>4. SubSeq(src, m, b) \in Seq(C)
    BY <1>1, <1>11, <2>3, PartOfText
  <2>5. NoMatch(SubSeq(src, m, b), old)
    BY <1>1, <1>11, <2>1, <2>3, KeptPieces DEF M
  <2>. QED BY <2>4, <2>5 DEF m
<1>. DEFINE S == {k \in Nat : k <= n =>
                    /\ out[k] \in Seq(C)
                    /\ \A u \in Seq(C) : NoMatch(u, old) => NoMatch(out[k] \o u, old)}
<1>12. 0 \in S
  <2>. HIDE DEF C
  <2>1. out[0] \in Seq(C) /\ \A u \in Seq(C) : out[0] \o u = u
    BY <1>9, EmptySeq, ConcatEmptySeq
  <2>. QED BY <2>1
<1>13. ASSUME NEW k \in Nat, k \in S
       PROVE  k + 1 \in S
  <2>. SUFFICES ASSUME k + 1 <= n
                PROVE  /\ out[k + 1] \in Seq(C)
                       /\ \A u \in Seq(C) : NoMatch(u, old) => NoMatch(out[k + 1] \o u, old)
    OBVIOUS
  <2>. HIDE DEF n, M
  <2>1. k \in 0..n /\ k + 1 \in 1..n /\ (k + 1) - 1 = k /\ k <= n
    BY <1>6
  <2>. DEFINE b == M[k + 1] - 1
              P == SubSeq(src, Cursor(ranges, k), b)
              X == <<"x">>
  <2>2. b \in Int /\ b <= Len(src) /\ b < M[k + 1]
    BY <1>3, <1>8, <2>1
  <2>3. P \in Seq(C) /\ NoMatch(P, old)
    BY <1>11, <2>1, <2>2
  <2>4. out[k + 1] = out[k] \o P \o X
    BY <1>7, <1>9, <2>1 DEF Spliced
  <2>5. X \in Seq(C)
    BY <1>1
  <2>6. /\ out[k] \in Seq(C)
        /\ \A u \in Seq(C) : NoMatch(u, old) => NoMatch(out[k] \o u, old)
    BY <1>13, <2>1
  <2>. HIDE DEF P, C
  <2>7. out[k] \o P \in Seq(C)
    BY <2>3, <2>6, ConcatProperties
  <2>8. out[k + 1] \in Seq(C)
    <3>. HIDE DEF X
    <3>. QED BY <2>4, <2>5, <2>7, ConcatProperties
  <2>9. \A s, t, w \in Seq(C) : (s \o t) \o w = s \o (t \o w)
    BY ConcatAssociative, SMTT(40)
  <2>10. ASSUME NEW u \in Seq(C), NoMatch(u, old)
        PROVE  NoMatch(out[k + 1] \o u, old)
    <3>1. NoMatch(P \o (X \o u), old)
      BY <1>1, <1>2, <2>3, <2>10, NoMatchAcross
    <3>. HIDE DEF X
    <3>2. X \o u \in Seq(C)
      BY <2>5, ConcatProperties
    <3>3. P \o (X \o u) \in Seq(C)
      BY <2>3, <3>2, ConcatProperties
    <3>4. NoMatch(out[k] \o (P \o (X \o u)), old)
      BY <2>6, <3>1, <3>3
    <3>5. out[k] \o (P \o (X \o u)) = (out[k] \o P) \o (X \o u)
      BY <2>3, <2>5, <2>6, <2>9, <3>2, ZenonT(60)
    <3>6. (out[k] \o P) \o (X \o u) = out[k + 1] \o u
      <4>1. ((out[k] \o P) \o X) \o u = (out[k] \o P) \o (X \o u)
        BY <2>5, <2>7, <2>9, <2>10, Zenon
      <4>. QED BY <2>4, <4>1, Zenon
    <3>. QED BY <3>4, <3>5, <3>6
  <2>. QED BY <2>8, <2>10
<1>. HIDE DEF S, n, M
<1>14. Nat \subseteq S
  BY <1>12, <1>13, SetInduction
<1>15. /\ out[n] \in Seq(C)
       /\ \A u \in Seq(C) : NoMatch(u, old) => NoMatch(out[n] \o u, old)
  BY <1>6, <1>14 DEF S
<1>. DEFINE tail == SubSeq(src, Cursor(ranges, n), Len(src))
            t == out[n] \o tail
<1>16. tail \in Seq(C) /\ NoMatch(tail, old)
  <2>1. n \in 0..n /\ Len(src) \in Int /\ Len(src) <= Len(src) /\ ~(n < n)
    BY <1>3, <1>6
  <2>. QED BY <1>11, <2>1
<1>. HIDE DEF tail, C
<1>17. t \in Seq(C) /\ NoMatch(t, old)
  BY <1>15, <1>16, ConcatProperties
<1>18. t = Splice(src, ranges)
  BY <1>9 DEF tail
<1>. HIDE DEF t
<1>19. Len(t) \in Nat
  BY <1>17
<1>. QED BY <1>3, <1>5, <1>17, <1>18, <1>19, NoMatchesFound DEF ranges, M

\* Any text and any two oldTexts of letters; EditsIndependent's marks are none.
AnyInputs == [src : Seq(Letters), old1 : Seq(Letters), old2 : Seq(Letters)]

\* What EditsIndependent says of one input, part by part.
LEMMA EditsIndependentOf ==
  ASSUME "x" \notin Letters, "y" \notin Letters, text \in AnyInputs
  PROVE  EditsIndependent
<1>. DEFINE src == text.src
            old1 == text.old1
            old2 == text.old2
            e1 == [old |-> old1, new |-> <<"x">> \o old2]
            e2 == [old |-> old2, new |-> <<"y">>]
            e3 == [e1 EXCEPT !.new = <<"x">>]
            out == ApplyEdits(src, <<e1, e2>>)
            count(c) == Cardinality({i \in DOMAIN out : out[i] = c})
            C == Letters \union {"x", "y"}
<1>1. src \in Seq(Letters) /\ old1 \in Seq(Letters) /\ old2 \in Seq(Letters)
  BY DEF AnyInputs
<1>2. src \in Seq(C) /\ old1 \in Seq(C) /\ old2 \in Seq(C)
  BY <1>1, SeqMonotonic, Letters \subseteq C
<1>3. <<"x">> \in Seq(C) /\ <<"y">> \in Seq(C)
  OBVIOUS
<1>4. <<"x">> \o old2 \in Seq(C)
  BY <1>2, <1>3, ConcatProperties
<1>5. /\ e1.old = old1 /\ e1.new = <<"x">> \o old2 /\ e2.old = old2 /\ e2.new = <<"y">>
      /\ e3.old = old1 /\ e3.new = <<"x">>
  OBVIOUS
<1>6. out = ApplyEdits(src, <<e2, e1>>)
  <2>. HIDE DEF C, src, old1, old2, e1, e2
  <2>1. e1.old \in Seq(C) /\ e1.new \in Seq(C) /\ e2.old \in Seq(C) /\ e2.new \in Seq(C)
    BY <1>2, <1>3, <1>4, <1>5
  <2>. QED BY <1>2, <2>1, EitherOrder
<1>7. ASSUME out # Rejected
      PROVE  /\ Len(out) = Len(src) - Len(old1) + 2
             /\ count("x") = 1 /\ count("y") = 1
  <2>1. /\ Len(out) = Len(src) - Len(old1) + 2
        /\ Once(out, "x") /\ Once(out, "y")
    <3>. HIDE DEF src, old1, old2
    <3>. QED BY <1>1, <1>7, BothMadeOnce
  <2>. HIDE DEF out
  <2>. QED BY <2>1, OnceCounted
<1>8. ApplyEdits(src, <<e1>>) = ApplyLegacy(src, e1, FALSE)
  <2>. HIDE DEF C, src, old1, e1
  <2>. QED BY <1>2, <1>5, FormsAgree
<1>9. ASSUME ApplyLegacy(src, e1, TRUE) # Rejected
      PROVE  Matches(ApplyLegacy(src, e3, TRUE), old1) = <<>>
  <2>. HIDE DEF src, old1, old2, e1, e3
  <2>1. old1 # <<>> /\ Matches(src, old1) # <<>>
    BY <1>5, <1>9 DEF ApplyLegacy
  <2>. QED BY <1>1, <1>5, <2>1, ReplaceAllLeavesNone
<1>. HIDE DEF count
<1>10. /\ out = ApplyEdits(src, <<e2, e1>>)
       /\ out # Rejected =>
            /\ Len(out) = Len(src) - Len(old1) + 2
            /\ count("x") = 1 /\ count("y") = 1
       /\ ApplyEdits(src, <<e1>>) = ApplyLegacy(src, e1, FALSE)
       /\ ApplyLegacy(src, e1, TRUE) # Rejected =>
            Matches(ApplyLegacy(src, e3, TRUE), old1) = <<>>
  BY <1>6, <1>7, <1>8, <1>9
<1>. QED BY <1>10, Zenon DEF EditsIndependent, count

\* apply_edit_req on every text and every two oldTexts, however long: the order
\* of edits[] does not matter, each accepted replacement is made once and at its
\* place whatever the other one inserts, a single edit does the same in both
\* forms, and replace_all leaves nothing of what it replaces.
THEOREM EditsAreIndependent ==
  ASSUME "x" \notin Letters, "y" \notin Letters
  PROVE  FileSpec /\ text \in AnyInputs => []EditsIndependent
<1>1. text \in AnyInputs /\ [FileNext]_fileVars => (text \in AnyInputs)'
  BY DEF FileNext, fileVars, EditReads, EditFindsNothing, WriteBegins, Truncates, Fills, FillFails
<1>2. text \in AnyInputs => EditsIndependent
  BY EditsIndependentOf
<1>. QED BY <1>1, <1>2, PTL DEF FileSpec
=============================================================================
