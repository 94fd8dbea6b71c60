------------------------ MODULE PagedRegistryProofs ------------------------
(***************************************************************************)
(* Proofs about PagedRegistry.  For every instance: types, what the LRU    *)
(* order lists, how far concurrent requests overshoot the Hot limit, and   *)
(* that a container serves one template.                                   *)
(* For any number of handlers and a Warm tier with room for every template *)
(* (Roomy): the order is exact, no entry outlives its containers, none is  *)
(* lost.  For one handler and any limits (Sequential): the same, and the   *)
(* refinement of LruTiers.  Each hypothesis is stated where it is needed.  *)
(***************************************************************************)
EXTENDS PagedRegistry, SequenceTheorems, FiniteSetTheorems,
        WellFoundedInduction, TLAPS

\* The least element of a non-empty set of naturals belongs to it and bounds it.
LEMMA MinOfNats ==
  ASSUME NEW S \in SUBSET Nat, S # {}
  PROVE  Min(S) \in S /\ \A y \in S : Min(S) <= y
<1>1. PICK x \in S : \A y \in S : <<y, x>> \notin OpToRel(<, Nat)
  BY NatLessThanWellFounded, WFMin, Zenon
<1>2. ASSUME NEW y \in S
      PROVE  x <= y
  <2>1. x \in Nat /\ y \in Nat
    OBVIOUS
  <2>2. y < x => <<y, x>> \in OpToRel(<, Nat)
    BY <2>1 DEF OpToRel
  <2>3. ~ (y < x)
    BY <1>1, <2>2, Zenon
  <2>. QED BY <2>1, <2>3
<1>. QED BY <1>2 DEF Min

\* What is left of a sequence when one position is removed.
LEMMA RemoveAtProperties ==
  ASSUME NEW S, NEW s \in Seq(S), NEW i \in 1..Len(s)
  PROVE  /\ RemoveAt(s, i) \in Seq(S)
         /\ Len(RemoveAt(s, i)) = Len(s) - 1
         /\ \A j \in 1..(i - 1) : RemoveAt(s, i)[j] = s[j]
         /\ \A j \in i..(Len(s) - 1) : RemoveAt(s, i)[j] = s[j + 1]
<1>. DEFINE a == SubSeq(s, 1, i - 1)
            b == SubSeq(s, i + 1, Len(s))
<1>1. /\ a \in Seq(S)
      /\ Len(a) = i - 1
      /\ \A j \in 1..(i - 1) : a[j] = s[j]
  OBVIOUS
<1>2. /\ b \in Seq(S)
      /\ Len(b) = Len(s) - i
      /\ \A j \in 1..(Len(s) - i) : b[j] = s[i + j]
  OBVIOUS
<1>3. RemoveAt(s, i) = a \o b
  BY DEF RemoveAt
<1>. HIDE DEF a, b
<1>4. a \o b \in Seq(S) /\ Len(a \o b) = Len(s) - 1
  <2>1. a \o b \in Seq(S) /\ Len(a \o b) = Len(a) + Len(b)
    BY <1>1, <1>2, ConcatProperties, Zenon
  <2>2. Len(s) \in Nat /\ i \in Nat
    BY LenProperties
  <2>. QED BY <2>1, <2>2, <1>1, <1>2
<1>5. \A j \in 1..(i - 1) : (a \o b)[j] = s[j]
  BY <1>1, <1>2
<1>6. ASSUME NEW j \in i..(Len(s) - 1)
      PROVE  (a \o b)[j] = s[j + 1]
  <2>1. j \notin 1..Len(a) /\ j \in 1..(Len(a) + Len(b)) /\ j - Len(a) = j - i + 1
    BY <1>1, <1>2
  <2>2. (a \o b)[j] = b[j - i + 1]
    BY <2>1, <1>1, <1>2
  <2>3. j - i + 1 \in 1..(Len(s) - i) /\ i + (j - i + 1) = j + 1
    OBVIOUS
  <2>. QED BY <2>2, <2>3, <1>2
<1>. QED BY <1>3, <1>4, <1>5, <1>6

\* RemoveFirst keeps every other element (touch_lru_locked, lru.retain).
LEMMA RemoveFirstProperties ==
  ASSUME NEW S, NEW s \in Seq(S), NEW e
  PROVE  /\ RemoveFirst(s, e) \in Seq(S)
         /\ \A i \in 1..Len(s) : s[i] # e =>
              \E j \in 1..Len(RemoveFirst(s, e)) : RemoveFirst(s, e)[j] = s[i]
<1>1. CASE ~ \E i \in 1..Len(s) : s[i] = e
  BY <1>1 DEF RemoveFirst
<1>2. CASE \E i \in 1..Len(s) : s[i] = e
  <2>. DEFINE I == {i \in 1..Len(s) : s[i] = e}
              k == Min(I)
              r == RemoveAt(s, k)
  <2>1. I \in SUBSET Nat /\ I # {}
    BY <1>2
  <2>2. k \in 1..Len(s) /\ s[k] = e
    BY <2>1, MinOfNats
  <2>3. RemoveFirst(s, e) = r
    BY <1>2, <2>1 DEF RemoveFirst, SelectInSeq
  <2>. HIDE DEF k
  <2>4. ASSUME NEW i \in 1..Len(s), s[i] # e
        PROVE  \E j \in 1..Len(r) : r[j] = s[i]
    <3>1. CASE i < k
      <4>1. i \in 1..(k - 1) /\ i \in 1..Len(r)
        BY <3>1, <2>2, RemoveAtProperties
      <4>. QED BY <4>1, <2>2, RemoveAtProperties
    <3>2. CASE i > k
      <4>1. i - 1 \in k..(Len(s) - 1) /\ i - 1 \in 1..Len(r)
        BY <3>2, <2>2, RemoveAtProperties
      <4>2. r[i - 1] = s[(i - 1) + 1]
        BY <4>1, <2>2, RemoveAtProperties
      <4>. QED BY <4>1, <4>2
    <3>. QED BY <3>1, <3>2, <2>2, <2>4
  <2>. QED BY <2>2, <2>3, <2>4, RemoveAtProperties
<1>. QED BY <1>1, <1>2

\* touch_lru_locked keeps every entry and puts the template in the order.
LEMMA TouchedProperties ==
  ASSUME NEW n \in Templates, lru \in Seq(Templates)
  PROVE  /\ Touched(n) \in Seq(Templates)
         /\ \E j \in 1..Len(Touched(n)) : Touched(n)[j] = n
         /\ \A i \in 1..Len(lru) : \E j \in 1..Len(Touched(n)) : Touched(n)[j] = lru[i]
<1>. DEFINE r == RemoveFirst(lru, n)
<1>1. r \in Seq(Templates)
  BY RemoveFirstProperties
<1>2. \A i \in 1..Len(lru) : lru[i] # n => \E j \in 1..Len(r) : r[j] = lru[i]
  BY RemoveFirstProperties
<1>3. Touched(n) = Append(r, n)
  BY DEF Touched
<1>. HIDE DEF r
<1>. QED BY <1>1, <1>2, <1>3

\* Scanning the LRU order finds its oldest template with the property, or there
\* is none.
LEMMA OldestProperties ==
  ASSUME NEW P \in SUBSET Templates, lru \in Seq(Templates), RegistryAssumption
  PROVE  LET v == Oldest(P)
         IN  /\ v \in Templates \union {NoTemplate}
             /\ v # NoTemplate =>
                  /\ v \in P
                  /\ \E i \in 1..Len(lru) : lru[i] = v /\ \A j \in 1..(i - 1) : lru[j] \notin P
             /\ v = NoTemplate => \A i \in 1..Len(lru) : lru[i] \notin P
<1>. DEFINE I == {i \in 1..Len(lru) : lru[i] \in P}
<1>0. I \in SUBSET Nat
  OBVIOUS
<1>1. I # {} => Min(I) \in I /\ \A j \in I : Min(I) <= j
  BY <1>0, MinOfNats, Zenon
<1>2. Oldest(P) = IF I = {} THEN NoTemplate ELSE lru[Min(I)]
  BY <1>1 DEF Oldest, SelectInSeq
<1>3. CASE I = {}
  BY <1>2, <1>3 DEF RegistryAssumption
<1>4. CASE I # {}
  <2>. DEFINE k == Min(I)
  <2>1. k \in I /\ \A j \in I : k <= j
    BY <1>1, <1>4
  <2>2. Oldest(P) = lru[k]
    BY <1>2, <1>4
  <2>. HIDE DEF k
  <2>3. \A j \in 1..(k - 1) : j \notin I
    BY <2>1
  <2>4. \A j \in 1..(k - 1) : lru[j] \notin P
    BY <2>1, <2>3
  <2>. QED BY <2>1, <2>2, <2>4 DEF RegistryAssumption
<1>. QED BY <1>3, <1>4
----------------------------------------------------------------------------
\* What Finish leaves in the handler's variables.
LEMMA FinishTypes ==
  ASSUME TypeOK, NEW t \in Tasks, Finish(t)
  PROVE  /\ pc' \in [Tasks -> PC]
         /\ want' \in [Tasks -> Templates \union {NoTemplate}]
         /\ mine' \in [Tasks -> SUBSET Containers]
         /\ victim' \in [Tasks -> Templates \union {NoTemplate}]
         /\ theirs' \in [Tasks -> SUBSET Containers]
         /\ todo' \in [Tasks -> SUBSET Containers]
         /\ \A u \in Tasks : pc'[u] # "idle" => want'[u] \in Templates
         /\ \A u \in Tasks : pc'[u] \in {"take", "pause", "markWarm", "dropWarm"} => victim'[u] \in Templates
BY DEF TypeOK, Finish, Goto, PC

\* One iteration of a Docker loop keeps the types.
LEMMA ForEachTypes ==
  ASSUME TypeOK, NEW t \in Tasks, NEW From, NEW to \in ContainerState,
         ForEach(t, From, to)
  PROVE  /\ docker' \in [Containers -> ContainerState]
         /\ todo' \in [Tasks -> SUBSET Containers]
BY DEF TypeOK, ForEach, DockerCall

\* The end of every slow path keeps the types.
LEMMA InsertHotTypes ==
  ASSUME TypeOK, NEW t \in Tasks, pc[t] # "idle", InsertHot(t)
  PROVE  TypeOK'
<1>1. want[t] \in Templates /\ mine[t] \in SUBSET Containers /\ lru \in Seq(Templates)
  BY DEF TypeOK
<1>2. runtimes' \in [Templates -> Runtime]
  BY <1>1 DEF TypeOK, InsertHot, Runtime, Tier
<1>3. lru' \in Seq(Templates)
  BY <1>1, TouchedProperties DEF InsertHot
<1>4. docker' \in [Containers -> ContainerState]
  BY DEF TypeOK, InsertHot
<1>. QED BY <1>2, <1>3, <1>4, FinishTypes DEF TypeOK, InsertHot

\* The registry's variables keep their types, and a handler inside acquire
\* always has a template to bring up and, where it needs one, a victim.
THEOREM TypeCorrect == Spec => []TypeOK
<1>1. Init => TypeOK
  BY DEF Init, TypeOK, Runtime, Tier, Cold, PC, ContainerState
<1>2. ASSUME TypeOK, [Next]_vars
      PROVE  TypeOK'
  <2>. USE TypeOK
  <2>1. ASSUME NEW t \in Tasks, NEW n \in Templates, AcquireHot(t, n)
        PROVE  TypeOK'
    BY <2>1, TouchedProperties DEF TypeOK, AcquireHot, locals
  <2>2. ASSUME NEW t \in Tasks, NEW n \in Templates, AcquireSlow(t, n)
        PROVE  TypeOK'
    BY <2>2 DEF TypeOK, AcquireSlow, Goto, PC
  <2>3. ASSUME NEW t \in Tasks, Recheck(t)
        PROVE  TypeOK'
    <3>1. CASE Finish(t)
      BY <2>3, <3>1, FinishTypes DEF TypeOK, Recheck
    <3>2. CASE ~ Finish(t)
      <4>1. want[t] \in Templates
        BY <2>3 DEF TypeOK, Recheck
      <4>2. runtimes[want[t]].cids \in SUBSET Containers
        BY <4>1 DEF TypeOK, Runtime
      <4>. QED BY <2>3, <3>2, <4>1, <4>2 DEF TypeOK, Recheck, Goto, PC, locals
    <3>. QED BY <3>1, <3>2
  <2>4. ASSUME NEW t \in Tasks, Reinsert(t)
        PROVE  TypeOK'
    BY <2>4, InsertHotTypes DEF Reinsert
  <2>5. ASSUME NEW t \in Tasks, Unpause(t)
        PROVE  TypeOK'
    BY <2>5, ForEachTypes DEF TypeOK, Unpause, Goto, PC, ContainerState
  <2>6. ASSUME NEW t \in Tasks, EvictHot(t)
        PROVE  TypeOK'
    <3>1. LET v == Oldest(InTier("Hot") \ {want[t]})
          IN  v # NoTemplate => v \in Templates
      BY OldestProperties, RegistryAssumption DEF TypeOK, InTier
    <3>. QED BY <2>6, <3>1 DEF TypeOK, EvictHot, Goto, PC
  <2>7. ASSUME NEW t \in Tasks, TakeVictim(t)
        PROVE  TypeOK'
    <3>1. victim[t] \in Templates
      BY <2>7 DEF TypeOK, TakeVictim
    <3>2. runtimes[victim[t]].cids \in SUBSET Containers
      BY <3>1 DEF TypeOK, Runtime
    <3>. QED BY <2>7, <3>1, <3>2 DEF TypeOK, TakeVictim, Goto, PC
  <2>8. ASSUME NEW t \in Tasks, Pause(t)
        PROVE  TypeOK'
    BY <2>8, ForEachTypes DEF TypeOK, Pause, Goto, PC, ContainerState
  <2>9. ASSUME NEW t \in Tasks, MarkWarm(t)
        PROVE  TypeOK'
    BY <2>9 DEF TypeOK, MarkWarm, Goto, PC, Runtime, Tier
  <2>10. ASSUME NEW t \in Tasks, EvictWarm(t)
         PROVE  TypeOK'
    <3>1. LET v == Oldest(InTier("Warm"))
          IN  v # NoTemplate => v \in Templates
      BY OldestProperties, RegistryAssumption DEF TypeOK, InTier
    <3>. QED BY ZenonT(60), <2>10, <3>1 DEF TypeOK, EvictWarm, Goto, PC
  <2>11. ASSUME NEW t \in Tasks, DropWarm(t)
         PROVE  TypeOK'
    <3>1. victim[t] \in Templates /\ lru \in Seq(Templates)
      BY <2>11 DEF TypeOK, DropWarm
    <3>2. runtimes[victim[t]].cids \in SUBSET Containers
      BY <3>1 DEF TypeOK, Runtime
    <3>3. lru' \in Seq(Templates)
      BY <2>11, <3>1, RemoveFirstProperties DEF DropWarm
    <3>4. runtimes' \in [Templates -> Runtime]
      BY <2>11 DEF TypeOK, DropWarm, Cold, Runtime, Tier
    <3>. QED BY <2>11, <3>1, <3>2, <3>3, <3>4 DEF TypeOK, DropWarm, Goto, PC
  <2>12. ASSUME NEW t \in Tasks, Remove_(t)
         PROVE  TypeOK'
    BY <2>12, ForEachTypes DEF TypeOK, Remove_, Goto, PC, ContainerState
  <2>13. ASSUME NEW t \in Tasks, Start(t)
         PROVE  TypeOK'
    BY SMTT(40), <2>13 DEF TypeOK, Start, Goto, PC, ContainerState
  <2>14. ASSUME NEW t \in Tasks, Rollback(t)
         PROVE  TypeOK'
    BY <2>14, ForEachTypes, FinishTypes DEF TypeOK, Rollback, ContainerState
  <2>15. ASSUME NEW t \in Tasks, Register(t)
         PROVE  TypeOK'
    BY <2>15, InsertHotTypes DEF Register
  <2>16. ASSUME NEW t \in Tasks, Cancel(t)
         PROVE  TypeOK'
    BY <2>16, FinishTypes DEF TypeOK, Cancel
  <2>17. CASE UNCHANGED vars
    BY <2>17 DEF TypeOK, vars
  <2>. QED
    BY <1>2, <2>1, <2>2, <2>3, <2>4, <2>5, <2>6, <2>7, <2>8, <2>9, <2>10, <2>11,
       <2>12, <2>13, <2>14, <2>15, <2>16, <2>17 DEF Next, Step
<1>. QED BY <1>1, <1>2, PTL DEF Spec

----------------------------------------------------------------------------
\* One critical section inserts Hot and touches the LRU order; removal from the
\* order and from the map are one section too.
LEMMA HotInLruStep ==
  ASSUME TypeOK, HotInLru, [Next]_vars
  PROVE  HotInLru'
<1>1. CASE UNCHANGED <<runtimes, lru>>
  BY <1>1 DEF HotInLru
<1>2. ASSUME NEW t \in Tasks, NEW n \in Templates, AcquireHot(t, n)
      PROVE  HotInLru'
  <2>1. lru \in Seq(Templates) /\ lru' = Touched(n) /\ runtimes' = runtimes
    BY <1>2 DEF TypeOK, AcquireHot
  <2>2. ASSUME NEW m \in Templates, runtimes[m].tier = "Hot"
        PROVE  \E j \in 1..Len(lru') : lru'[j] = m
    <3>1. PICK i \in 1..Len(lru) : lru[i] = m
      BY <2>2 DEF HotInLru
    <3>. QED BY <2>1, <3>1, TouchedProperties
  <2>. QED BY <2>1, <2>2 DEF HotInLru
<1>3. ASSUME NEW t \in Tasks, pc[t] # "idle", InsertHot(t)
      PROVE  HotInLru'
  <2>1. want[t] \in Templates /\ lru \in Seq(Templates)
    BY <1>3 DEF TypeOK
  <2>2. ASSUME NEW m \in Templates, runtimes'[m].tier = "Hot"
        PROVE  \E j \in 1..Len(lru') : lru'[j] = m
    <3>1. CASE m = want[t]
      BY <1>3, <2>1, <3>1, TouchedProperties DEF InsertHot
    <3>2. CASE m # want[t]
      <4>1. runtimes[m].tier = "Hot"
        BY <1>3, <2>2, <3>2 DEF TypeOK, InsertHot
      <4>2. PICK i \in 1..Len(lru) : lru[i] = m
        BY <4>1 DEF HotInLru
      <4>. QED BY <1>3, <2>1, <4>2, TouchedProperties DEF InsertHot
    <3>. QED BY <3>1, <3>2
  <2>. QED BY <2>2 DEF HotInLru
<1>4. ASSUME NEW t \in Tasks, MarkWarm(t)
      PROVE  HotInLru'
  BY <1>4 DEF TypeOK, HotInLru, MarkWarm
<1>5. ASSUME NEW t \in Tasks, DropWarm(t)
      PROVE  HotInLru'
  <2>1. lru \in Seq(Templates) /\ lru' = RemoveFirst(lru, victim[t])
    BY <1>5 DEF TypeOK, DropWarm
  <2>2. ASSUME NEW m \in Templates, runtimes'[m].tier = "Hot"
        PROVE  \E j \in 1..Len(lru') : lru'[j] = m
    <3>1. m # victim[t] /\ runtimes[m].tier = "Hot"
      BY <1>5, <2>2 DEF TypeOK, DropWarm, Cold
    <3>2. PICK i \in 1..Len(lru) : lru[i] = m
      BY <3>1 DEF HotInLru
    <3>. QED BY <2>1, <3>1, <3>2, RemoveFirstProperties
  <2>. QED BY <2>2 DEF HotInLru
<1>. QED
  BY <1>1, <1>2, <1>3, <1>4, <1>5 DEF Next, Step, vars, AcquireSlow, Recheck,
     Reinsert, Register, Unpause, EvictHot, TakeVictim, Pause, EvictWarm, Remove_,
     Start, Rollback, Cancel

\* acquire and the evictors never leave a Hot template where the scan of
\* evict_hot_to_warm_if_needed_excluding cannot find it.
THEOREM HotIsInLru == Spec => []HotInLru
<1>1. Init => HotInLru
  BY DEF Init, HotInLru, Cold
<1>2. TypeOK /\ HotInLru /\ [Next]_vars => HotInLru'
  BY HotInLruStep
<1>. QED BY <1>1, <1>2, TypeCorrect, PTL DEF Spec
----------------------------------------------------------------------------
\* The strengthening of HotBound: templates that are Hot, or whose handler will
\* make them Hot without another look, are within the bound.
SlotInv ==
  /\ IsFiniteSet(HotOrPromised)
  /\ Cardinality(HotOrPromised) <= Room + Cardinality(Tasks) - 1

\* The evictor's decision that there is room is the only step that lets the set
\* of Hot or promised templates grow.
LEMMA OnlyEvictHotPromises ==
  ASSUME TypeOK, [Next]_vars, \A t \in Tasks : ~ EvictHot(t)
  PROVE  HotOrPromised' \subseteq HotOrPromised
<1>. USE DEF HotOrPromised, InTier, Committed
<1>1. CASE UNCHANGED vars
  BY <1>1 DEF vars
<1>2. ASSUME NEW t \in Tasks, NEW n \in Templates, AcquireHot(t, n) \/ AcquireSlow(t, n)
      PROVE  HotOrPromised' \subseteq HotOrPromised
  BY <1>2 DEF TypeOK, AcquireHot, AcquireSlow, Goto, locals
<1>3. ASSUME NEW t \in Tasks, Recheck(t)
      PROVE  HotOrPromised' \subseteq HotOrPromised
  BY <1>3 DEF TypeOK, Recheck, Finish, Goto, locals
<1>4. ASSUME NEW t \in Tasks, pc[t] \in {"reinsert", "register"}, InsertHot(t)
      PROVE  HotOrPromised' \subseteq HotOrPromised
  BY <1>4 DEF TypeOK, InsertHot, Finish, Goto
<1>5. ASSUME NEW t \in Tasks,
             Unpause(t) \/ TakeVictim(t) \/ Pause(t) \/ EvictWarm(t) \/ Remove_(t) \/ Start(t)
      PROVE  HotOrPromised' \subseteq HotOrPromised
  BY <1>5 DEF TypeOK, Unpause, TakeVictim, Pause, EvictWarm, Remove_, Start, Goto
<1>6. ASSUME NEW t \in Tasks, MarkWarm(t)
      PROVE  HotOrPromised' \subseteq HotOrPromised
  BY <1>6 DEF TypeOK, MarkWarm, Goto
<1>7. ASSUME NEW t \in Tasks, DropWarm(t)
      PROVE  HotOrPromised' \subseteq HotOrPromised
  BY <1>7 DEF TypeOK, DropWarm, Goto, Cold
<1>8. ASSUME NEW t \in Tasks, Rollback(t) \/ Cancel(t)
      PROVE  HotOrPromised' \subseteq HotOrPromised
  BY <1>8 DEF TypeOK, Rollback, Cancel, Finish, Goto
<1>. HIDE DEF HotOrPromised, InTier, Committed
<1>. QED
  BY <1>1, <1>2, <1>3, <1>4, <1>5, <1>6, <1>7, <1>8 DEF Next, Step, Reinsert, Register

\* At most one template is promised per handler.
LEMMA PromisesBounded ==
  ASSUME NEW C \in SUBSET Tasks
  PROVE  /\ IsFiniteSet({want[t] : t \in C})
         /\ Cardinality({want[t] : t \in C}) <= Cardinality(Tasks)
         /\ Cardinality(Tasks) \in Nat
<1>. DEFINE f == [t \in C |-> want[t]]
            W == {want[t] : t \in C}
<1>1. IsFiniteSet(C) /\ Cardinality(C) <= Cardinality(Tasks)
  BY RegistryAssumption, FS_Subset DEF RegistryAssumption
<1>2. f \in Surjection(C, W)
  BY DEF Surjection
<1>3. IsFiniteSet(W) /\ Cardinality(W) <= Cardinality(C)
  BY <1>1, <1>2, FS_Surjection
<1>4. Cardinality(W) \in Nat /\ Cardinality(C) \in Nat /\ Cardinality(Tasks) \in Nat
  BY <1>1, <1>3, FS_CardinalityType, RegistryAssumption DEF RegistryAssumption
<1>. QED BY <1>1, <1>3, <1>4

\* When the evictor finds room, or nothing to demote, its promise fits the bound.
LEMMA EvictHotKeepsSlots ==
  ASSUME TypeOK, HotInLru, SlotInv, NEW t \in Tasks, EvictHot(t)
  PROVE  SlotInv'
<1>. DEFINE H == InTier("Hot")
            W == {want[u] : u \in Committed \union {t}}
<1>1. HotOrPromised' \subseteq H \union W
  BY DEF EvictHot, HotOrPromised, InTier, Committed, TypeOK, Goto
<1>2. /\ IsFiniteSet(W) /\ Cardinality(W) <= Cardinality(Tasks)
      /\ Cardinality(W) \in Nat /\ Cardinality(Tasks) \in Nat
  BY PromisesBounded, FS_CardinalityType DEF Committed
<1>3. IsFiniteSet(H) /\ Cardinality(H) \in Nat
  BY FS_Subset, FS_CardinalityType DEF SlotInv, HotOrPromised
<1>4. HotLimit \in Nat /\ Room \in Nat /\ Room >= 1 /\ Room >= HotLimit
  BY RegistryAssumption DEF RegistryAssumption, Room
<1>5. CASE HotOrPromised' \subseteq HotOrPromised
  BY <1>5, FS_Subset, FS_CardinalityType, <1>2, <1>4 DEF SlotInv, Room
<1>6. CASE Cardinality(H) < HotLimit
  <2>1. IsFiniteSet(H \union W) /\ Cardinality(H \union W) <= Cardinality(H) + Cardinality(W)
    <3>. HIDE DEF H, W
    <3>1. /\ IsFiniteSet(H \union W)
          /\ Cardinality(H \union W) = Cardinality(H) + Cardinality(W) - Cardinality(H \intersect W)
      BY <1>2, <1>3, FS_Union, Zenon
    <3>2. Cardinality(H \intersect W) \in Nat
      BY <1>3, FS_Intersection, FS_CardinalityType
    <3>. QED BY <1>2, <1>3, <3>1, <3>2
  <2>2. /\ IsFiniteSet(HotOrPromised')
        /\ Cardinality(HotOrPromised') <= Cardinality(H \union W)
        /\ Cardinality(HotOrPromised') \in Nat /\ Cardinality(H \union W) \in Nat
    BY <1>1, <2>1, FS_Subset, FS_CardinalityType
  <2>. QED BY <1>2, <1>3, <1>4, <1>6, <2>1, <2>2 DEF SlotInv, Room
<1>7. CASE Oldest(H \ {want[t]}) = NoTemplate
  <2>1. H \ {want[t]} \in SUBSET Templates /\ lru \in Seq(Templates)
    BY DEF InTier, TypeOK
  <2>2. \A i \in 1..Len(lru) : lru[i] \notin H \ {want[t]}
    BY <1>7, <2>1, OldestProperties, RegistryAssumption
  <2>3. H \subseteq {want[t]}
    BY <2>2 DEF HotInLru, InTier
  <2>4. HotOrPromised' \subseteq W
    BY <1>1, <2>3
  <2>5. /\ IsFiniteSet(HotOrPromised')
        /\ Cardinality(HotOrPromised') <= Cardinality(W)
        /\ Cardinality(HotOrPromised') \in Nat
    BY <1>2, <2>4, FS_Subset, FS_CardinalityType
  <2>. QED BY <1>2, <1>4, <2>5 DEF SlotInv, Room
<1>8. CASE pc' = [pc EXCEPT ![t] = "take"] /\ UNCHANGED <<runtimes, want>>
  <2>1. HotOrPromised' \subseteq HotOrPromised
    BY <1>8 DEF EvictHot, HotOrPromised, InTier, Committed, TypeOK
  <2>. QED BY <2>1, <1>5
<1>9. Cardinality(H) < HotLimit \/ Cardinality(H) >= HotLimit
  BY <1>3, <1>4
<1>. QED BY <1>6, <1>7, <1>8, <1>9 DEF EvictHot, Goto

\* However the handlers interleave, the Hot tier holds at most HotLimit templates
\* and one more for every concurrent handler but one.
THEOREM HotBounded == Spec => []HotBound
<1>1. Init => SlotInv
  <2>1. Cardinality(Tasks) \in Nat /\ Room \in Nat /\ Room >= 1
    BY FS_CardinalityType, RegistryAssumption DEF RegistryAssumption, Room
  <2>2. ASSUME Init
        PROVE  HotOrPromised = {}
    BY <2>2 DEF Init, HotOrPromised, InTier, Committed, Cold
  <2>. QED BY <2>1, <2>2, FS_EmptySet DEF SlotInv
<1>2. TypeOK /\ HotInLru /\ SlotInv /\ [Next]_vars => SlotInv'
  <2>. SUFFICES ASSUME TypeOK, HotInLru, SlotInv, [Next]_vars
                PROVE  SlotInv'
    OBVIOUS
  <2>1. CASE \E t \in Tasks : EvictHot(t)
    BY <2>1, EvictHotKeepsSlots
  <2>2. CASE \A t \in Tasks : ~ EvictHot(t)
    <3>1. HotOrPromised' \subseteq HotOrPromised
      BY <2>2, OnlyEvictHotPromises
    <3>2. Cardinality(Tasks) \in Nat /\ Room \in Nat
      BY FS_CardinalityType, RegistryAssumption DEF RegistryAssumption, Room
    <3>. QED BY <3>1, <3>2, FS_Subset, FS_CardinalityType DEF SlotInv, Room
  <2>. QED BY <2>1, <2>2
<1>3. SlotInv => HotBound
  <2>1. Cardinality(Tasks) \in Nat /\ Room \in Nat
    BY FS_CardinalityType, RegistryAssumption DEF RegistryAssumption, Room
  <2>. QED BY <2>1, FS_Subset, FS_CardinalityType DEF SlotInv, HotBound, HotOrPromised
<1>. QED BY <1>1, <1>2, <1>3, TypeCorrect, HotIsInLru, PTL DEF Spec

----------------------------------------------------------------------------
\* Removing a name from an order that holds it at most once removes it, and the
\* rest, which comes from that order, stays free of duplicates.
LEMMA RemoveFirstDistinct ==
  ASSUME NEW S, NEW s \in Seq(S), NEW e,
         \A i, j \in 1..Len(s) : s[i] = s[j] => i = j
  PROVE  LET r == RemoveFirst(s, e)
         IN  /\ \A i, j \in 1..Len(r) : r[i] = r[j] => i = j
             /\ \A i \in 1..Len(r) : r[i] # e
             /\ \A i \in 1..Len(r) : \E k \in 1..Len(s) : s[k] = r[i]
<1>1. CASE ~ \E i \in 1..Len(s) : s[i] = e
  BY <1>1 DEF RemoveFirst
<1>2. CASE \E i \in 1..Len(s) : s[i] = e
  <2>. DEFINE I == {i \in 1..Len(s) : s[i] = e}
              k == Min(I)
              r == RemoveAt(s, k)
              from(i) == IF i < k THEN i ELSE i + 1
  <2>1. I \in SUBSET Nat /\ I # {}
    BY <1>2
  <2>2. k \in 1..Len(s) /\ s[k] = e
    BY <2>1, MinOfNats
  <2>3. RemoveFirst(s, e) = r
    BY <1>2, <2>1 DEF RemoveFirst, SelectInSeq
  <2>. HIDE DEF k
  <2>4. /\ Len(r) = Len(s) - 1
        /\ \A j \in 1..(k - 1) : r[j] = s[j]
        /\ \A j \in k..(Len(s) - 1) : r[j] = s[j + 1]
    BY <2>2, RemoveAtProperties
  <2>. HIDE DEF r
  <2>5. Len(s) \in Nat /\ k \in Nat
    BY <2>2, LenProperties
  <2>6. ASSUME NEW i \in 1..Len(r)
        PROVE  from(i) \in 1..Len(s) /\ from(i) # k /\ r[i] = s[from(i)]
    <3>1. CASE i < k
      <4>1. i \in 1..(k - 1) /\ i \in 1..Len(s)
        BY <3>1, <2>2, <2>4, <2>5
      <4>. QED BY <4>1, <3>1, <2>4, <2>5
    <3>2. CASE i >= k
      <4>1. i \in k..(Len(s) - 1) /\ i + 1 \in 1..Len(s)
        BY <3>2, <2>2, <2>4, <2>5
      <4>. QED BY <4>1, <3>2, <2>4, <2>5
    <3>. QED BY <3>1, <3>2, <2>4, <2>5
  <2>7. \A i, j \in 1..Len(r) : from(i) = from(j) => i = j
    BY <2>4, <2>5
  <2>. HIDE DEF from
  <2>. QED BY SMTT(40), <2>2, <2>3, <2>6, <2>7
<1>. QED BY <1>1, <1>2

\* touch_lru_locked keeps the order free of duplicates.
LEMMA TouchedDistinct ==
  ASSUME NEW n \in Templates, lru \in Seq(Templates), LruNoDuplicates
  PROVE  \A i, j \in 1..Len(Touched(n)) : Touched(n)[i] = Touched(n)[j] => i = j
<1>. DEFINE r == RemoveFirst(lru, n)
<1>1. r \in Seq(Templates) /\ Len(r) \in Nat
  BY RemoveFirstProperties, LenProperties
<1>2. /\ \A i, j \in 1..Len(r) : r[i] = r[j] => i = j
      /\ \A i \in 1..Len(r) : r[i] # n
  BY RemoveFirstDistinct DEF LruNoDuplicates
<1>3. Touched(n) = Append(r, n)
  BY DEF Touched
<1>. HIDE DEF r
<1>4. /\ Len(Append(r, n)) = Len(r) + 1
      /\ \A i \in 1..Len(r) : Append(r, n)[i] = r[i]
      /\ Append(r, n)[Len(r) + 1] = n
  BY <1>1
<1>. QED BY <1>1, <1>2, <1>3, <1>4

\* However the handlers interleave, the LRU order never holds a name twice:
\* touch_lru_locked removes the earlier entry before it pushes the new one, and
\* evict_warm_to_cold_if_needed's retain removes the only one.  DropWarm's use
\* of RemoveFirst for retain rests on it.
THEOREM NeverTwiceInOrder == Spec => []LruNoDuplicates
<1>1. Init => LruNoDuplicates
  BY DEF Init, LruNoDuplicates
<1>2. ASSUME TypeOK, LruNoDuplicates, [Next]_vars
      PROVE  LruNoDuplicates'
  <2>1. lru \in Seq(Templates)
    BY <1>2 DEF TypeOK
  <2>2. CASE lru' = lru
    BY <1>2, <2>2 DEF LruNoDuplicates
  <2>3. ASSUME NEW n \in Templates, lru' = Touched(n)
        PROVE  LruNoDuplicates'
    BY <1>2, <2>1, <2>3, TouchedDistinct DEF LruNoDuplicates
  <2>4. ASSUME NEW t \in Tasks, DropWarm(t)
        PROVE  LruNoDuplicates'
    <3>1. lru' = RemoveFirst(lru, victim[t])
      BY <2>4 DEF DropWarm
    <3>. QED BY <1>2, <2>1, <3>1, RemoveFirstDistinct DEF LruNoDuplicates
  <2>5. \/ lru' = lru
        \/ \E n \in Templates : lru' = Touched(n)
        \/ \E t \in Tasks : DropWarm(t)
    BY <1>2 DEF TypeOK, Next, Step, vars, AcquireHot, AcquireSlow, Recheck, Reinsert,
       InsertHot, Unpause, EvictHot, TakeVictim, Pause, MarkWarm, EvictWarm, Remove_,
       Start, Rollback, Register, Cancel
  <2>. QED BY <2>2, <2>3, <2>4, <2>5
<1>. QED BY <1>1, <1>2, TypeCorrect, PTL DEF Spec

----------------------------------------------------------------------------
\* The LRU order and the runtimes.
Listed(n) == \E i \in 1..Len(lru) : lru[i] = n

\* touch_lru_locked adds its template to those listed, and no other.
LEMMA TouchedLists ==
  ASSUME NEW n \in Templates, lru \in Seq(Templates), LruNoDuplicates,
         lru' = Touched(n), NEW m
  PROVE  Listed(m)' <=> m = n \/ Listed(m)
<1>. DEFINE r == RemoveFirst(lru, n)
<1>1. r \in Seq(Templates) /\ Len(r) \in Nat
  BY RemoveFirstProperties, LenProperties
<1>2. /\ \A i \in 1..Len(r) : \E k \in 1..Len(lru) : lru[k] = r[i]
      /\ \A i \in 1..Len(lru) : lru[i] # n => \E j \in 1..Len(r) : r[j] = lru[i]
  BY RemoveFirstDistinct, RemoveFirstProperties DEF LruNoDuplicates
<1>3. lru' = Append(r, n)
  BY DEF Touched
<1>. HIDE DEF r
<1>4. /\ Len(lru') = Len(r) + 1
      /\ \A i \in 1..Len(r) : lru'[i] = r[i]
      /\ lru'[Len(r) + 1] = n
  BY <1>1, <1>3
<1>5. Listed(m)' <=> m = n \/ \E i \in 1..Len(r) : r[i] = m
  BY <1>1, <1>4 DEF Listed
<1>. QED BY <1>2, <1>5 DEF Listed

\* retain takes its template, and no other, off the list.
LEMMA RemovedIsUnlisted ==
  ASSUME lru \in Seq(Templates), LruNoDuplicates, NEW n, lru' = RemoveFirst(lru, n), NEW m
  PROVE  Listed(m)' <=> m # n /\ Listed(m)
BY SMTT(40), RemoveFirstDistinct, RemoveFirstProperties DEF LruNoDuplicates, Listed

\* What a step may do to a template's runtime and its place in the order: only
\* the demotion of a victim changes one without the other.
LEMMA TierAndOrder ==
  ASSUME TypeOK, LruNoDuplicates, [Next]_vars, NEW n \in Templates
  PROVE  \/ /\ runtimes'[n].tier = "Cold" <=> runtimes[n].tier = "Cold"
            /\ Listed(n)' <=> Listed(n)
         \/ runtimes'[n].tier # "Cold" /\ Listed(n)'
         \/ runtimes'[n].tier = "Cold" /\ ~ Listed(n)'
         \/ /\ \E t \in Tasks : MarkWarm(t) /\ victim[t] = n
            /\ runtimes'[n].tier = "Warm"
            /\ Listed(n)' <=> Listed(n)
<1>1. lru \in Seq(Templates)
  BY DEF TypeOK
<1>2. CASE UNCHANGED <<runtimes, lru>>
  BY <1>2 DEF Listed
<1>3. ASSUME NEW t \in Tasks, NEW m \in Templates, AcquireHot(t, m)
      PROVE  \/ runtimes'[n] = runtimes[n] /\ (Listed(n)' <=> Listed(n))
             \/ runtimes'[n].tier # "Cold" /\ Listed(n)'
  <2>1. lru' = Touched(m) /\ runtimes' = runtimes /\ runtimes[m].tier = "Hot"
    BY <1>3 DEF AcquireHot
  <2>2. Listed(n)' <=> n = m \/ Listed(n)
    BY <1>1, <2>1, TouchedLists
  <2>3. CASE n = m
    BY <2>1, <2>2, <2>3
  <2>4. CASE n # m
    BY <2>1, <2>2, <2>4
  <2>. QED BY <2>3, <2>4
<1>4. ASSUME NEW t \in Tasks, pc[t] # "idle", InsertHot(t)
      PROVE  \/ runtimes'[n] = runtimes[n] /\ (Listed(n)' <=> Listed(n))
             \/ runtimes'[n].tier # "Cold" /\ Listed(n)'
  <2>1. want[t] \in Templates /\ lru' = Touched(want[t])
    BY <1>4 DEF TypeOK, InsertHot
  <2>2. Listed(n)' <=> n = want[t] \/ Listed(n)
    BY <1>1, <2>1, TouchedLists
  <2>3. runtimes'[n] = IF n = want[t] THEN [tier |-> "Hot", cids |-> mine[t]] ELSE runtimes[n]
    BY <1>4 DEF TypeOK, InsertHot
  <2>4. CASE n = want[t]
    BY <2>2, <2>3, <2>4
  <2>5. CASE n # want[t]
    BY <2>2, <2>3, <2>5
  <2>. QED BY <2>4, <2>5
<1>5. ASSUME NEW t \in Tasks, MarkWarm(t)
      PROVE  \/ runtimes'[n] = runtimes[n] /\ (Listed(n)' <=> Listed(n))
             \/ victim[t] = n /\ runtimes'[n].tier = "Warm" /\ (Listed(n)' <=> Listed(n))
  BY <1>5 DEF TypeOK, MarkWarm, Listed
<1>6. ASSUME NEW t \in Tasks, DropWarm(t)
      PROVE  \/ runtimes'[n] = runtimes[n] /\ (Listed(n)' <=> Listed(n))
             \/ runtimes'[n].tier = "Cold" /\ ~ Listed(n)'
  <2>1. lru' = RemoveFirst(lru, victim[t])
    BY <1>6 DEF DropWarm
  <2>2. Listed(n)' <=> n # victim[t] /\ Listed(n)
    BY <1>1, <2>1, RemovedIsUnlisted
  <2>3. runtimes'[n] = IF n = victim[t] THEN Cold ELSE runtimes[n]
    BY <1>6 DEF TypeOK, DropWarm
  <2>. QED BY <2>2, <2>3 DEF Cold
<1>. QED
  BY ZenonT(60), <1>2, <1>3, <1>4, <1>5, <1>6 DEF Next, Step, vars, AcquireSlow, Recheck,
     Reinsert, Register, Unpause, EvictHot, TakeVictim, Pause, EvictWarm, Remove_,
     Start, Rollback, Cancel

\* Whatever is in the LRU order has a runtime: the evictors' scans never meet a
\* name that has left the map.  The converse needs more: a demotion in flight can
\* put back the runtime of a template dropped meanwhile, unlisted.
ListedHaveRuntime == \A n \in Templates : Listed(n) => runtimes[n].tier # "Cold"

THEOREM NothingColdIsListed == Spec => []ListedHaveRuntime
<1>1. Init => ListedHaveRuntime
  BY DEF Init, ListedHaveRuntime, Listed
<1>2. ASSUME TypeOK, LruNoDuplicates, ListedHaveRuntime, [Next]_vars
      PROVE  ListedHaveRuntime'
  BY <1>2, TierAndOrder DEF ListedHaveRuntime
<1>. QED BY <1>1, <1>2, TypeCorrect, NeverTwiceInOrder, PTL DEF Spec

----------------------------------------------------------------------------
(***************************************************************************)
(* The Warm tier has room for every template: nothing is ever dropped.     *)
(* Without this hypothesis the three properties of this section are false: *)
(* a demotion in flight holds a clone of a runtime that another handler's  *)
(* evict_warm_to_cold_if_needed can meanwhile drop, and puts it back.      *)
(***************************************************************************)
Roomy == IsFiniteSet(Templates) /\ Cardinality(Templates) <= WarmLimit

Cids(n) == runtimes[n].cids

\* The handlers inside a name lock; no two are for the same template.
Holds(t) == pc[t] \notin {"idle", "lock"}
OneHolder == \A t, u \in Tasks : Holds(t) /\ Holds(u) /\ want[t] = want[u] => t = u

\* A runtime in the map has containers ("gone when Cold").
ColdIsEmpty == \A n \in Templates : runtimes[n].tier = "Cold" <=> Cids(n) = {}

\* What a handler's copies say of the map, phase by phase, when nothing is
\* dropped: the clone of a victim's runtime stays current, and so does the
\* clone of the template's own, unless it is Cold.
HandlerInv(t) ==
  /\ pc[t] \notin {"dropWarm", "remove"}
  /\ pc[t] \in {"idle", "lock"} => mine[t] = {}
  /\ pc[t] \in {"reinsert", "unpause", "evictHot", "take", "pause", "markWarm", "evictWarm"}
       => mine[t] = Cids(want[t])
  /\ pc[t] \in {"reinsert", "unpause"} => mine[t] # {}
  /\ pc[t] \in {"take", "pause", "markWarm"} => Cids(victim[t]) # {}
  /\ pc[t] \in {"pause", "markWarm"} => theirs[t] = Cids(victim[t])
  /\ pc[t] \in {"start", "rollback"} => Cids(want[t]) = {}
  /\ pc[t] = "rollback" => todo[t] \subseteq mine[t]
  /\ pc[t] = "register" => mine[t] # {} /\ Cids(want[t]) \in {{}, mine[t]}

MapInv == OneHolder /\ ColdIsEmpty /\ \A t \in Tasks : HandlerInv(t)

\* The step keeps the containers the map has under n.
Kept(n) == runtimes'[n].cids = runtimes[n].cids

\* A name lock is taken only when nobody holds it.
LEMMA OneHolderStep ==
  ASSUME TypeOK, OneHolder, [Next]_vars
  PROVE  OneHolder'
<1>1. ASSUME NEW t \in Tasks, Recheck(t)
      PROVE  OneHolder'
  BY <1>1 DEF TypeOK, OneHolder, Holds, Recheck, HoldsNameLock, Finish, Goto, locals
<1>2. ASSUME NEW t \in Tasks, Finish(t)
      PROVE  OneHolder'
  BY <1>2 DEF TypeOK, OneHolder, Holds, Finish, Goto
<1>3. ASSUME NEW t \in Tasks, Holds(t), UNCHANGED want, \A u \in Tasks \ {t} : pc'[u] = pc[u]
      PROVE  OneHolder'
  BY <1>3 DEF OneHolder, Holds
<1>4. CASE UNCHANGED <<pc, want>>
  BY <1>4 DEF OneHolder, Holds
<1>5. ASSUME NEW t \in Tasks, NEW n \in Templates, AcquireSlow(t, n)
      PROVE  OneHolder'
  BY <1>5 DEF TypeOK, OneHolder, Holds, AcquireSlow, Goto
<1>6. ASSUME NEW t \in Tasks, NEW n \in Templates, AcquireHot(t, n)
      PROVE  OneHolder'
  BY <1>6, <1>4 DEF AcquireHot, locals
<1>7. ASSUME NEW t \in Tasks, Step(t)
      PROVE  OneHolder'
  <2>1. Holds(t)
    BY <1>7 DEF Step, Holds, Reinsert, Unpause, EvictHot, TakeVictim, Pause, MarkWarm,
       EvictWarm, DropWarm, Remove_, Start, Rollback, Register
  <2>2. CASE Reinsert(t) \/ Register(t)
    BY <2>2, <1>2 DEF Reinsert, Register, InsertHot
  <2>3. CASE ~ (Reinsert(t) \/ Register(t))
    <3>1. pc \in [Tasks -> PC]
      BY DEF TypeOK
    <3>. DEFINE Rest == UNCHANGED want /\ \A u \in Tasks \ {t} : pc'[u] = pc[u]
    <3>2. Unpause(t) \/ EvictHot(t) \/ TakeVictim(t) \/ Pause(t) => Rest
      BY <3>1 DEF Goto, Unpause, EvictHot, TakeVictim, Pause
    <3>3. MarkWarm(t) \/ EvictWarm(t) \/ DropWarm(t) \/ Remove_(t) \/ Start(t) => Rest
      BY <3>1 DEF Goto, MarkWarm, EvictWarm, DropWarm, Remove_, Start
    <3>4. Rollback(t) => Rest \/ Finish(t)
      BY DEF Rollback
    <3>. QED BY <1>7, <2>1, <2>3, <3>2, <3>3, <3>4, <1>2, <1>3 DEF Step
  <2>. QED BY <2>2, <2>3
<1>. QED BY <1>1, <1>2, <1>4, <1>5, <1>6, <1>7 DEF Next, Cancel, vars

\* With room for every template the Warm tier is never over its limit.
LEMMA RoomyNeverDrops ==
  ASSUME Roomy, NEW t \in Tasks, EvictWarm(t)
  PROVE  pc' = [pc EXCEPT ![t] = "evictHot"] /\ UNCHANGED <<runtimes, want, mine, todo>>
<1>1. InTier("Warm") \in SUBSET Templates
  BY DEF InTier
<1>2. /\ Cardinality(InTier("Warm")) <= Cardinality(Templates)
      /\ Cardinality(InTier("Warm")) \in Nat /\ Cardinality(Templates) \in Nat
  BY <1>1, FS_Subset, FS_CardinalityType DEF Roomy
<1>3. WarmLimit \in Nat
  BY RegistryAssumption DEF RegistryAssumption
<1>4. ~ (Cardinality(InTier("Warm")) > WarmLimit)
  BY <1>2, <1>3 DEF Roomy
<1>. QED BY <1>4 DEF EvictWarm, Goto

\* What a step of another handler leaves alone.
Stays(t) ==
  /\ pc'[t] = pc[t] /\ want'[t] = want[t] /\ mine'[t] = mine[t]
  /\ victim'[t] = victim[t] /\ theirs'[t] = theirs[t] /\ todo'[t] = todo[t]

\* A handler writes no variable of another one.
LEMMA OthersStay ==
  ASSUME TypeOK, NEW t \in Tasks, NEW u \in Tasks, u # t,
         (\E n \in Templates : AcquireHot(t, n) \/ AcquireSlow(t, n))
           \/ Recheck(t) \/ Step(t) \/ Cancel(t)
  PROVE  Stays(u)
<1>. USE DEF Stays, TypeOK, Goto
<1>1. Finish(t) => Stays(u)
  BY DEF Finish
<1>2. \A n \in Templates : AcquireHot(t, n) \/ AcquireSlow(t, n) => Stays(u)
  BY DEF AcquireHot, AcquireSlow, locals
<1>3. Recheck(t) => Stays(u)
  BY <1>1 DEF Recheck, locals
<1>4. Reinsert(t) \/ Register(t) \/ Cancel(t) => Stays(u)
  BY <1>1 DEF Reinsert, Register, InsertHot, Cancel
<1>5. Unpause(t) \/ Pause(t) \/ Remove_(t) => Stays(u)
  BY DEF Unpause, Pause, Remove_, ForEach
<1>6. EvictHot(t) => Stays(u)
  BY DEF EvictHot
<1>7. TakeVictim(t) \/ MarkWarm(t) => Stays(u)
  BY DEF TakeVictim, MarkWarm
<1>8. EvictWarm(t) => Stays(u)
  BY DEF EvictWarm
<1>9. DropWarm(t) => Stays(u)
  BY DEF DropWarm
<1>10. Start(t) => Stays(u)
  BY DEF Start
<1>11. Rollback(t) => Stays(u)
  BY <1>1 DEF Rollback, ForEach
<1>. QED
  BY <1>2, <1>3, <1>4, <1>5, <1>6, <1>7, <1>8, <1>9, <1>10, <1>11 DEF Step

\* A handler keeps its part of the invariant when the step is another's and the
\* two templates it is concerned with keep their containers.
LEMMA OthersKeep ==
  ASSUME NEW t \in Tasks, HandlerInv(t), Stays(t),
         Holds(t) => Kept(want[t]),
         pc[t] \in {"take", "pause", "markWarm"} => Kept(victim[t])
  PROVE  HandlerInv(t)'
BY DEF HandlerInv, Stays, Kept, Cids, Holds

\* The insertion that ends a slow path: the map has the handler's containers
\* under its template already, or nothing; in that case no other handler
\* has looked at that entry.
LEMMA InsertHotKeepsMap ==
  ASSUME TypeOK, MapInv, NEW t \in Tasks, Reinsert(t) \/ Register(t)
  PROVE  ColdIsEmpty' /\ \A u \in Tasks : HandlerInv(u)'
<1>. DEFINE w == want[t]
<1>1. /\ w \in Templates /\ mine[t] # {} /\ Cids(w) \in {{}, mine[t]}
      /\ pc[t] \in {"reinsert", "register"} /\ InsertHot(t)
  BY DEF TypeOK, MapInv, HandlerInv, Reinsert, Register
<1>2. runtimes' = [runtimes EXCEPT ![w] = [tier |-> "Hot", cids |-> mine[t]]]
  BY <1>1 DEF InsertHot
<1>3. /\ \A n \in Templates : n # w => runtimes'[n] = runtimes[n]
      /\ runtimes'[w] = [tier |-> "Hot", cids |-> mine[t]]
  BY <1>1, <1>2 DEF TypeOK
<1>4. ColdIsEmpty'
  BY <1>1, <1>3 DEF MapInv, ColdIsEmpty, Cids
<1>5. HandlerInv(t)'
  BY <1>1 DEF InsertHot, Finish, Goto, TypeOK, HandlerInv
<1>6. ASSUME NEW u \in Tasks, u # t
      PROVE  HandlerInv(u)'
  <2>1. Stays(u)
    BY <1>6, OthersStay DEF Step
  <2>2. HandlerInv(u)
    BY DEF MapInv
  <2>3. Holds(u) => want[u] \in Templates \ {w}
    BY <1>1, <1>6 DEF MapInv, OneHolder, Holds, TypeOK
  <2>4. pc[u] \in {"take", "pause", "markWarm"} =>
          victim[u] \in Templates /\ Cids(victim[u]) # {}
    BY <2>2 DEF HandlerInv, TypeOK
  <2>5. \A n \in Templates : n # w \/ Cids(n) # {} => Kept(n)
    BY <1>1, <1>3 DEF Cids, Kept
  <2>. QED BY <2>1, <2>2, <2>3, <2>4, <2>5, OthersKeep
<1>. QED BY <1>4, <1>5, <1>6

\* Every other step keeps the containers of every template, and which are Cold.
KeepsCids == \A n \in Templates : Kept(n) /\ (runtimes'[n].tier = "Cold" <=> runtimes[n].tier = "Cold")

LEMMA OtherStepsKeepMap ==
  ASSUME Roomy, TypeOK, MapInv, NEW t \in Tasks,
         (\E n \in Templates : AcquireHot(t, n) \/ AcquireSlow(t, n))
           \/ Recheck(t) \/ Step(t) \/ Cancel(t),
         ~ (Reinsert(t) \/ Register(t))
  PROVE  KeepsCids /\ HandlerInv(t)'
<1>. USE DEF KeepsCids, Kept
<1>h. HandlerInv(t) /\ ColdIsEmpty
  BY DEF MapInv
<1>t. /\ pc \in [Tasks -> PC] /\ mine \in [Tasks -> SUBSET Containers]
      /\ runtimes \in [Templates -> Runtime] /\ todo \in [Tasks -> SUBSET Containers]
      /\ theirs \in [Tasks -> SUBSET Containers]
      /\ want \in [Tasks -> Templates \union {NoTemplate}]
      /\ victim \in [Tasks -> Templates \union {NoTemplate}]
      /\ pc[t] # "idle" => want[t] \in Templates
      /\ pc[t] \in {"take", "pause", "markWarm", "dropWarm"} => victim[t] \in Templates
  BY DEF TypeOK
<1>1. ASSUME NEW n \in Templates, AcquireHot(t, n) \/ AcquireSlow(t, n)
      PROVE  KeepsCids /\ HandlerInv(t)'
  BY <1>1, <1>h, <1>t DEF AcquireHot, AcquireSlow, locals, Goto, HandlerInv, Cids
<1>f. Finish(t) => HandlerInv(t)'
  BY <1>t DEF Finish, Goto, HandlerInv
<1>2. ASSUME Recheck(t)
      PROVE  KeepsCids /\ HandlerInv(t)'
  <2>1. runtimes' = runtimes
    BY <1>2 DEF Recheck
  <2>2. want[t] \in Templates /\ mine[t] = {}
    BY <1>2, <1>t, <1>h DEF Recheck, HandlerInv
  <2>3. runtimes[want[t]].tier = "Cold" <=> Cids(want[t]) = {}
    BY <2>2, <1>h DEF ColdIsEmpty
  <2>4. CASE Finish(t)
    BY <2>1, <2>4, <1>f
  <2>5. CASE ~ Finish(t)
    BY <1>2, <2>1, <2>2, <2>3, <2>5, <1>t DEF Recheck, Goto, HandlerInv, Cids, locals
  <2>. QED BY <2>4, <2>5
<1>3. ASSUME Unpause(t)
      PROVE  KeepsCids /\ HandlerInv(t)'
  BY <1>3, <1>h, <1>t DEF Unpause, ForEach, Goto, HandlerInv, Cids
<1>4. ASSUME EvictHot(t)
      PROVE  KeepsCids /\ HandlerInv(t)'
  <2>. DEFINE v == Oldest(InTier("Hot") \ {want[t]})
  <2>1. v # NoTemplate => v \in Templates /\ Cids(v) # {}
    <3>1. v # NoTemplate => v \in InTier("Hot")
      BY OldestProperties, RegistryAssumption DEF TypeOK, InTier
    <3>. QED BY <3>1, <1>h DEF InTier, ColdIsEmpty
  <2>. HIDE DEF v
  <2>2. \/ v # NoTemplate /\ victim' = [victim EXCEPT ![t] = v] /\ Goto(t, "take")
        \/ Goto(t, IF mine[t] = {} THEN "start" ELSE "register")
    BY <1>4 DEF EvictHot, v
  <2>3. pc[t] = "evictHot" /\ UNCHANGED <<runtimes, want, mine>>
    BY <1>4 DEF EvictHot
  <2>. QED BY <2>1, <2>2, <2>3, <1>h, <1>t DEF Goto, HandlerInv, Cids
<1>5. ASSUME TakeVictim(t)
      PROVE  KeepsCids /\ HandlerInv(t)'
  BY <1>5, <1>h, <1>t DEF TakeVictim, Goto, HandlerInv, Cids
<1>6. ASSUME Pause(t)
      PROVE  KeepsCids /\ HandlerInv(t)'
  BY <1>6, <1>h, <1>t DEF Pause, ForEach, Goto, HandlerInv, Cids
<1>7. ASSUME MarkWarm(t)
      PROVE  KeepsCids /\ HandlerInv(t)'
  <2>1. /\ victim[t] \in Templates /\ theirs[t] = Cids(victim[t])
        /\ runtimes[victim[t]].tier # "Cold"
    BY <1>7, <1>h, <1>t DEF MarkWarm, HandlerInv, ColdIsEmpty
  <2>2. KeepsCids
    BY <1>7, <1>t, <2>1 DEF MarkWarm, Cids
  <2>. QED BY <1>7, <1>h, <1>t, <2>2 DEF MarkWarm, Goto, HandlerInv, Cids
<1>8. ASSUME EvictWarm(t)
      PROVE  KeepsCids /\ HandlerInv(t)'
  BY <1>8, <1>h, <1>t, RoomyNeverDrops DEF EvictWarm, HandlerInv, Cids
<1>9. ~ DropWarm(t) /\ ~ Remove_(t)
  BY <1>h DEF DropWarm, Remove_, HandlerInv
<1>10. ASSUME Start(t)
       PROVE  KeepsCids /\ HandlerInv(t)'
  <2>1. pc[t] = "start" /\ UNCHANGED <<runtimes, want>> /\ Cids(want[t]) = {}
    BY <1>10, <1>h DEF Start, HandlerInv
  <2>2. Cardinality(mine[t]) = Replicas => mine[t] # {}
    BY FS_EmptySet, RegistryAssumption DEF RegistryAssumption
  <2>. QED BY <1>10, <1>t, <2>1, <2>2 DEF Start, Goto, HandlerInv, Cids
<1>11. ASSUME Rollback(t)
       PROVE  KeepsCids /\ HandlerInv(t)'
  BY <1>11, <1>h, <1>t, <1>f DEF Rollback, ForEach, HandlerInv, Cids
<1>12. ASSUME Cancel(t)
       PROVE  KeepsCids /\ HandlerInv(t)'
  BY <1>12, <1>f DEF Cancel
<1>. QED
  BY <1>1, <1>2, <1>3, <1>4, <1>5, <1>6, <1>7, <1>8, <1>9, <1>10, <1>11, <1>12 DEF Step

LEMMA MapInvStep ==
  ASSUME Roomy, TypeOK, MapInv, [Next]_vars
  PROVE  MapInv'
<1>1. OneHolder'
  BY OneHolderStep DEF MapInv
<1>2. CASE UNCHANGED vars
  BY <1>1, <1>2 DEF vars, MapInv, ColdIsEmpty, HandlerInv, Cids
<1>3. ASSUME NEW t \in Tasks,
             (\E n \in Templates : AcquireHot(t, n) \/ AcquireSlow(t, n))
               \/ Recheck(t) \/ Step(t) \/ Cancel(t)
      PROVE  ColdIsEmpty' /\ \A u \in Tasks : HandlerInv(u)'
  <2>1. CASE Reinsert(t) \/ Register(t)
    BY <2>1, InsertHotKeepsMap
  <2>2. CASE ~ (Reinsert(t) \/ Register(t))
    <3>1. KeepsCids /\ HandlerInv(t)'
      BY <1>3, <2>2, OtherStepsKeepMap
    <3>2. ColdIsEmpty'
      BY <3>1 DEF KeepsCids, Kept, ColdIsEmpty, Cids, MapInv
    <3>3. ASSUME NEW u \in Tasks, u # t
          PROVE  HandlerInv(u)'
      <4>1. Stays(u) /\ HandlerInv(u)
        BY <1>3, <3>3, OthersStay DEF MapInv
      <4>2. Holds(u) => want[u] \in Templates
        BY DEF Holds, TypeOK
      <4>3. pc[u] \in {"take", "pause", "markWarm"} => victim[u] \in Templates
        BY DEF TypeOK
      <4>. QED BY <3>1, <4>1, <4>2, <4>3, OthersKeep DEF KeepsCids
    <3>. QED BY <3>1, <3>2, <3>3
  <2>. QED BY <2>1, <2>2
<1>. QED BY <1>1, <1>2, <1>3 DEF Next, MapInv

LEMMA MapInvHolds ==
  ASSUME Roomy
  PROVE  Spec => []MapInv
<1>1. Init => MapInv
  BY DEF Init, MapInv, OneHolder, Holds, ColdIsEmpty, HandlerInv, Cids, Cold
<1>2. TypeOK /\ MapInv /\ [Next]_vars => MapInv'
  BY MapInvStep
<1>. QED BY <1>1, <1>2, TypeCorrect, PTL DEF Spec

\* The order stays exact as long as no demotion puts back a dropped template.
LEMMA OrderStaysExact ==
  ASSUME TypeOK, LruNoDuplicates, LruMatchesRuntimes, [Next]_vars,
         \A t \in Tasks : MarkWarm(t) => runtimes[victim[t]].tier # "Cold"
  PROVE  LruMatchesRuntimes'
<1>1. \A n \in Templates : runtimes[n].tier # "Cold" <=> Listed(n)
  BY DEF LruMatchesRuntimes, Listed
<1>2. \A n \in Templates : runtimes'[n].tier # "Cold" <=> Listed(n)'
  BY <1>1, TierAndOrder
<1>. QED BY <1>2 DEF LruMatchesRuntimes, Listed

\* With room in the Warm tier for every template, the LRU order lists exactly the
\* templates with a runtime, however the handlers interleave: none stays in the
\* map where neither evictor can find it.
THEOREM RoomyOrderIsExact ==
  ASSUME Roomy
  PROVE  Spec => []LruMatchesRuntimes
<1>1. Init => LruMatchesRuntimes
  BY DEF Init, LruMatchesRuntimes, Cold
<1>2. ASSUME TypeOK, LruNoDuplicates, MapInv, LruMatchesRuntimes, [Next]_vars
      PROVE  LruMatchesRuntimes'
  <2>1. \A t \in Tasks : MarkWarm(t) => runtimes[victim[t]].tier # "Cold"
    BY <1>2 DEF MapInv, HandlerInv, ColdIsEmpty, MarkWarm, TypeOK
  <2>. QED BY <1>2, <2>1, OrderStaysExact
<1>. QED BY <1>1, <1>2, TypeCorrect, NeverTwiceInOrder, MapInvHolds, PTL DEF Spec

\* A handler whose containers are new: the map has nothing under its template.
Fresh(t) == pc[t] \in {"start", "rollback", "register"} /\ Cids(want[t]) = {}

\* New containers belong to one handler and are not in the map.
FreshApart ==
  \A t \in Tasks : Fresh(t) =>
    /\ \A n \in Templates : mine[t] \intersect Cids(n) = {}
    /\ \A u \in Tasks : Fresh(u) /\ u # t => mine[t] \intersect mine[u] = {}

Existing == {c \in Containers : docker[c] \in {"running", "paused"}}

\* What the map holds exists, and so does what a handler has started, up to
\* its own rollback.
HeldExist ==
  /\ \A n \in Templates : Cids(n) \subseteq Existing
  /\ \A t \in Tasks : Fresh(t) => \A c \in mine[t] :
       \/ c \in Existing
       \/ pc[t] = "rollback" /\ docker[c] = "removed"

\* Docker calls that pause or unpause, or fail, keep every container.
LEMMA LoopKeepsExisting ==
  ASSUME TypeOK, NEW t \in Tasks,
         ForEach(t, {"running"}, "paused") \/ ForEach(t, {"paused"}, "running")
  PROVE  Existing' = Existing
BY DEF TypeOK, ForEach, DockerCall, Existing

\* A rollback removes containers of its own handler only.
LEMMA RollbackRemovesOwn ==
  ASSUME TypeOK, NEW t \in Tasks, ForEach(t, {"running", "paused"}, "removed")
  PROVE  \A c \in Containers :
           docker'[c] # docker[c] => c \in todo[t] /\ docker'[c] = "removed"
<1>1. PICK d \in todo[t] : DockerCall(d, {"running", "paused"}, "removed")
  BY DEF ForEach
<1>2. docker' = docker \/ docker' = [docker EXCEPT ![d] = "removed"]
  BY <1>1, Zenon DEF DockerCall
<1>3. docker \in [Containers -> ContainerState]
  BY DEF TypeOK
<1>4. CASE docker' = docker
  BY <1>4
<1>5. CASE docker' = [docker EXCEPT ![d] = "removed"]
  BY <1>1, <1>3, <1>5
<1>. QED BY <1>2, <1>4, <1>5

\* One replica started: a container Docker did not know.
StartsOne(t, c) ==
  /\ pc[t] = "start"
  /\ docker[c] = "absent"
  /\ docker' = [docker EXCEPT ![c] = "running"]
  /\ mine' = [mine EXCEPT ![t] = @ \union {c}]
  /\ UNCHANGED <<runtimes, lru, pc, want, victim, theirs, todo>>

\* Every other step that keeps the map's containers gives none to a handler: one
\* that is starting afterwards had its containers before, or has none.
NoneStarted ==
  \A u \in Tasks : Fresh(u)' =>
    \/ mine'[u] = {}
    \/ Fresh(u) /\ mine'[u] = mine[u] /\ (pc[u] = "rollback" => pc'[u] = "rollback")

LEMMA OnlyStartTakes ==
  ASSUME Roomy, TypeOK, MapInv, NEW t \in Tasks,
         (\E n \in Templates : AcquireHot(t, n) \/ AcquireSlow(t, n))
           \/ Recheck(t) \/ Step(t) \/ Cancel(t),
         ~ (Reinsert(t) \/ Register(t)),
         \A c \in Containers : ~ StartsOne(t, c)
  PROVE  NoneStarted
<1>1. ASSUME NEW u \in Tasks, u # t, Fresh(u)'
      PROVE  Fresh(u) /\ mine'[u] = mine[u] /\ pc'[u] = pc[u]
  <2>1. Stays(u)
    BY <1>1, OthersStay
  <2>2. want[u] \in Templates
    BY <1>1, <2>1 DEF Fresh, Stays, TypeOK
  <2>3. Kept(want[u])
    BY <2>2, OtherStepsKeepMap DEF KeepsCids
  <2>. QED BY <1>1, <2>1, <2>3 DEF Fresh, Stays, Kept, Cids
<1>2. ASSUME Fresh(t)'
      PROVE  \/ mine'[t] = {}
             \/ Fresh(t) /\ mine'[t] = mine[t] /\ (pc[t] = "rollback" => pc'[t] = "rollback")
  <2>t. /\ pc \in [Tasks -> PC] /\ mine \in [Tasks -> SUBSET Containers]
        /\ HandlerInv(t)
    BY DEF TypeOK, MapInv
  <2>1. CASE EvictHot(t)
    <3>1. pc[t] = "evictHot" /\ UNCHANGED <<runtimes, want, mine>>
      BY <2>1 DEF EvictHot
    <3>2. mine[t] = Cids(want[t]) /\ Cids(want[t])' = Cids(want[t])
      BY <2>t, <3>1 DEF HandlerInv, Cids
    <3>3. Cids(want[t])' = {}
      BY <1>2 DEF Fresh
    <3>. QED BY <3>1, <3>2, <3>3
  <2>2. CASE Start(t)
    <3>1. pc[t] = "start" /\ UNCHANGED <<runtimes, want, mine>>
      BY <2>2 DEF Start, StartsOne
    <3>. QED BY <3>1, <2>t DEF Fresh, HandlerInv
  <2>3. CASE Rollback(t)
    <3>1. CASE Finish(t)
      BY <3>1, <2>t DEF Finish
    <3>2. CASE ~ Finish(t)
      BY <2>3, <3>2, <2>t DEF Rollback, Fresh, HandlerInv
    <3>. QED BY <3>1, <3>2
  <2>4. pc'[t] \in {"start", "rollback", "register"}
    BY <1>2 DEF Fresh
  <2>5. CASE Finish(t)
    BY <2>5, <2>t DEF Finish
  <2>6. Recheck(t) => Finish(t) \/ pc'[t] \in {"reinsert", "unpause", "evictHot"}
    BY <2>t DEF Recheck, Goto
  <2>7. \A n \in Templates : AcquireHot(t, n) \/ AcquireSlow(t, n) => pc'[t] \in {"idle", "lock"}
    BY <2>t DEF AcquireHot, AcquireSlow, Goto, locals
  <2>8. Unpause(t) \/ TakeVictim(t) \/ Pause(t) =>
          pc'[t] \in {"unpause", "evictHot", "pause", "markWarm"}
    BY <2>t DEF Unpause, TakeVictim, Pause, Goto
  <2>9. MarkWarm(t) \/ EvictWarm(t) \/ DropWarm(t) \/ Remove_(t) =>
          pc'[t] \in {"evictHot", "evictWarm", "dropWarm", "remove"}
    BY <2>t DEF MarkWarm, EvictWarm, DropWarm, Remove_, Goto
  <2>. QED
    BY <2>1, <2>2, <2>3, <2>4, <2>5, <2>6, <2>7, <2>8, <2>9 DEF Step, Cancel
<1>. QED BY <1>1, <1>2 DEF NoneStarted

\* Such a step keeps new containers apart.
LEMMA ApartStays ==
  ASSUME FreshApart, KeepsCids, NoneStarted
  PROVE  FreshApart'
BY DEF FreshApart, KeepsCids, Kept, Cids, NoneStarted

\* What is inserted at the end of a slow path: the containers of the map's own
\* entry, or new ones under a template that had none.
LEMMA InsertHotEffect ==
  ASSUME TypeOK, MapInv, NEW t \in Tasks, Reinsert(t) \/ Register(t)
  PROVE  /\ want[t] \in Templates /\ docker' = docker
         /\ \A n \in Templates :
              runtimes'[n] = IF n = want[t] THEN [tier |-> "Hot", cids |-> mine[t]]
                             ELSE runtimes[n]
         /\ Cids(want[t]) = mine[t] \/ Fresh(t)
         /\ \A u \in Tasks : Fresh(u)' => u # t /\ Fresh(u) /\ Stays(u) /\ want[u] # want[t]
<1>1. /\ want[t] \in Templates /\ Cids(want[t]) \in {{}, mine[t]} /\ mine[t] # {}
      /\ pc[t] \in {"reinsert", "register"} /\ InsertHot(t)
      /\ pc[t] = "reinsert" => Cids(want[t]) = mine[t]
  BY DEF TypeOK, MapInv, HandlerInv, Reinsert, Register
<1>2. docker' = docker /\ \A n \in Templates :
        runtimes'[n] = IF n = want[t] THEN [tier |-> "Hot", cids |-> mine[t]] ELSE runtimes[n]
  BY <1>1 DEF InsertHot, TypeOK
<1>3. ASSUME NEW u \in Tasks, Fresh(u)'
      PROVE  u # t /\ Fresh(u) /\ Stays(u) /\ want[u] # want[t]
  <2>1. pc'[t] = "idle"
    BY <1>1 DEF InsertHot, Finish, Goto, TypeOK
  <2>2. u # t
    BY <1>3, <2>1 DEF Fresh
  <2>3. Stays(u)
    BY <2>2, OthersStay DEF Step
  <2>4. want[u] # want[t] /\ want[u] \in Templates
    BY <1>1, <1>3, <2>2, <2>3 DEF Fresh, Stays, MapInv, OneHolder, Holds, TypeOK
  <2>5. runtimes'[want[u]] = runtimes[want[u]]
    BY <1>2, <2>4
  <2>. QED BY <1>3, <2>2, <2>3, <2>4, <2>5 DEF Fresh, Stays, Cids
<1>. QED BY <1>1, <1>2, <1>3 DEF Fresh

LEMMA FreshApartStep ==
  ASSUME Roomy, TypeOK, MapInv, FreshApart, HeldExist, [Next]_vars
  PROVE  FreshApart'
<1>1. CASE UNCHANGED vars
  BY <1>1 DEF vars, FreshApart, Fresh, Cids
<1>2. ASSUME NEW t \in Tasks, Reinsert(t) \/ Register(t)
      PROVE  FreshApart'
  <2>. DEFINE w == want[t]
  <2>1. ASSUME NEW u \in Tasks, Fresh(u)'
        PROVE  u # t /\ Fresh(u) /\ mine'[u] = mine[u]
    BY <1>2, <2>1, InsertHotEffect DEF Stays
  <2>2. ASSUME NEW u \in Tasks, Fresh(u)', NEW n \in Templates
        PROVE  mine'[u] \intersect Cids(n)' = {}
    <3>1. Fresh(u) /\ mine'[u] = mine[u] /\ u # t
      BY <2>1, <2>2
    <3>2. CASE n # w
      <4>1. runtimes'[n] = runtimes[n]
        BY <1>2, <3>2, InsertHotEffect
      <4>. QED BY <3>1, <4>1 DEF FreshApart, Cids
    <3>3. CASE n = w
      <4>1. w \in Templates /\ runtimes'[n] = [tier |-> "Hot", cids |-> mine[t]]
        BY <1>2, <3>3, InsertHotEffect
      <4>2. Cids(w) = mine[t] \/ Fresh(t)
        BY <1>2, InsertHotEffect
      <4>3. mine[u] \intersect mine[t] = {}
        BY <3>1, <4>1, <4>2 DEF FreshApart
      <4>. QED BY <3>1, <3>3, <4>1, <4>3 DEF Cids
    <3>. QED BY <3>2, <3>3
  <2>. QED BY <2>1, <2>2 DEF FreshApart
<1>3. ASSUME NEW t \in Tasks, NEW c \in Containers, StartsOne(t, c)
      PROVE  FreshApart'
  <2>1. \A u \in Tasks : Fresh(u)' <=> Fresh(u)
    BY <1>3 DEF StartsOne, Fresh, Cids
  <2>2. \A n \in Templates : c \notin Cids(n) /\ Cids(n)' = Cids(n)
    BY <1>3 DEF StartsOne, HeldExist, Existing, Cids
  <2>3. \A u \in Tasks : Fresh(u) => c \notin mine[u]
    BY <1>3 DEF StartsOne, HeldExist, Existing
  <2>4. \A u \in Tasks : mine'[u] = IF u = t THEN mine[u] \union {c} ELSE mine[u]
    BY <1>3 DEF StartsOne, TypeOK
  <2>5. ASSUME NEW u \in Tasks, Fresh(u)', NEW n \in Templates
        PROVE  mine'[u] \intersect Cids(n)' = {}
    <3>1. mine[u] \intersect Cids(n) = {} /\ c \notin Cids(n)
      BY <2>1, <2>2, <2>5 DEF FreshApart
    <3>2. Cids(n)' = Cids(n)
      BY <2>2
    <3>. QED BY <2>4, <2>5, <3>1, <3>2
  <2>6. ASSUME NEW u \in Tasks, Fresh(u)', NEW v \in Tasks, Fresh(v)', v # u
        PROVE  mine'[u] \intersect mine'[v] = {}
    <3>1. mine[u] \intersect mine[v] = {} /\ c \notin mine[u] /\ c \notin mine[v]
      BY <2>1, <2>3, <2>6 DEF FreshApart
    <3>. QED BY <2>4, <2>6, <3>1
  <2>. QED BY <2>5, <2>6 DEF FreshApart
<1>4. ASSUME NEW t \in Tasks,
             (\E n \in Templates : AcquireHot(t, n) \/ AcquireSlow(t, n))
               \/ Recheck(t) \/ Step(t) \/ Cancel(t),
             ~ (Reinsert(t) \/ Register(t)), \A c \in Containers : ~ StartsOne(t, c)
      PROVE  FreshApart'
  BY <1>4, OnlyStartTakes, OtherStepsKeepMap, ApartStays
<1>. QED BY <1>1, <1>2, <1>3, <1>4 DEF Next

LEMMA HeldExistStep ==
  ASSUME Roomy, TypeOK, MapInv, FreshApart, HeldExist, [Next]_vars
  PROVE  HeldExist'
<1>1. CASE UNCHANGED vars
  BY <1>1 DEF vars, HeldExist, Existing, Fresh, Cids
<1>2. ASSUME NEW t \in Tasks, Reinsert(t) \/ Register(t)
      PROVE  HeldExist'
  <2>1. Existing' = Existing /\ docker' = docker
    BY <1>2, InsertHotEffect DEF Existing
  <2>2. Fresh(t) => mine[t] \subseteq Existing
    BY <1>2 DEF HeldExist, Reinsert, Register, TypeOK
  <2>3. ASSUME NEW n \in Templates
        PROVE  runtimes'[n].cids \subseteq Existing
    <3>1. Cids(want[t]) = mine[t] \/ Fresh(t)
      BY <1>2, InsertHotEffect
    <3>2. want[t] \in Templates
      BY <1>2, InsertHotEffect
    <3>3. runtimes'[n] = IF n = want[t] THEN [tier |-> "Hot", cids |-> mine[t]] ELSE runtimes[n]
      BY <1>2, InsertHotEffect
    <3>4. runtimes'[n].cids = Cids(n) \/ runtimes'[n].cids = mine[t]
      BY <3>3 DEF Cids
    <3>. QED BY <2>2, <3>1, <3>2, <3>4 DEF HeldExist
  <2>4. ASSUME NEW u \in Tasks, Fresh(u)'
        PROVE  Fresh(u) /\ mine'[u] = mine[u] /\ pc'[u] = pc[u]
    BY <1>2, <2>4, InsertHotEffect DEF Stays
  <2>. QED BY <2>1, <2>3, <2>4 DEF HeldExist, Cids
<1>3. ASSUME NEW t \in Tasks, NEW c \in Containers, StartsOne(t, c)
      PROVE  HeldExist'
  <2>1. \A u \in Tasks : Fresh(u)' <=> Fresh(u)
    BY <1>3 DEF StartsOne, Fresh, Cids
  <2>2. Existing' = Existing \union {c}
    BY <1>3 DEF StartsOne, Existing, TypeOK
  <2>3. \A u \in Tasks : mine'[u] \subseteq mine[u] \union {c}
    BY <1>3 DEF StartsOne, TypeOK
  <2>4. \A d \in Containers : d # c => docker'[d] = docker[d]
    BY <1>3 DEF StartsOne, TypeOK
  <2>5. UNCHANGED <<runtimes, pc>> /\ mine \in [Tasks -> SUBSET Containers]
    BY <1>3 DEF StartsOne, TypeOK
  <2>. QED BY <2>1, <2>2, <2>3, <2>4, <2>5 DEF HeldExist, Cids
<1>4. ASSUME NEW t \in Tasks,
             (\E n \in Templates : AcquireHot(t, n) \/ AcquireSlow(t, n))
               \/ Recheck(t) \/ Step(t) \/ Cancel(t),
             ~ (Reinsert(t) \/ Register(t)), \A c \in Containers : ~ StartsOne(t, c)
      PROVE  HeldExist'
  <2>1. KeepsCids /\ NoneStarted
    BY <1>4, OnlyStartTakes, OtherStepsKeepMap
  <2>2. CASE Rollback(t) /\ ForEach(t, {"running", "paused"}, "removed")
    <3>1. Fresh(t) /\ todo[t] \subseteq mine[t] /\ pc[t] = "rollback"
      BY <2>2 DEF Rollback, MapInv, HandlerInv, Fresh
    <3>2. \A c \in Containers : c \notin mine[t] => docker'[c] = docker[c]
      BY <2>2, <3>1, RollbackRemovesOwn
    <3>3. \A c \in mine[t] : docker'[c] = docker[c] \/ docker'[c] = "removed"
      BY <2>2, RollbackRemovesOwn DEF TypeOK
    <3>4. \A n \in Templates : Cids(n) \subseteq Existing'
      BY <3>1, <3>2 DEF FreshApart, HeldExist, Existing
    <3>5. \A u \in Tasks : Fresh(u) /\ u # t => mine[u] \intersect mine[t] = {}
      BY <3>1 DEF FreshApart
    <3>6. ASSUME NEW u \in Tasks, Fresh(u), NEW c \in mine[u]
          PROVE  \/ c \in Existing'
                 \/ pc[u] = "rollback" /\ docker'[c] = "removed"
      <4>1. c \in Containers
        BY DEF TypeOK
      <4>2. CASE u = t
        BY <3>1, <3>3, <3>6, <4>1, <4>2 DEF HeldExist, Existing
      <4>3. CASE u # t
        BY <3>2, <3>5, <3>6, <4>1, <4>3 DEF HeldExist, Existing
      <4>. QED BY <4>2, <4>3
    <3>. QED BY <2>1, <3>4, <3>6 DEF HeldExist, KeepsCids, Kept, NoneStarted, Cids
  <2>3. CASE ~ (Rollback(t) /\ ForEach(t, {"running", "paused"}, "removed"))
    <3>1. CASE docker' = docker
      BY <2>1, <3>1 DEF HeldExist, Existing, KeepsCids, Kept, NoneStarted, Cids
    <3>2. CASE ForEach(t, {"running"}, "paused") \/ ForEach(t, {"paused"}, "running")
      <4>1. Existing' = Existing
        BY <3>2, LoopKeepsExisting
      <4>2. \A c \in Containers : docker[c] = "removed" => docker'[c] = "removed"
        BY <3>2 DEF ForEach, DockerCall, TypeOK
      <4>3. mine \in [Tasks -> SUBSET Containers]
        BY DEF TypeOK
      <4>. QED BY <2>1, <4>1, <4>2, <4>3 DEF HeldExist, KeepsCids, Kept, NoneStarted, Cids
    <3>3. ~ DropWarm(t) /\ ~ Remove_(t)
      BY DEF DropWarm, Remove_, MapInv, HandlerInv
    <3>4. Start(t) => docker' = docker
      BY <1>4 DEF Start, StartsOne
    <3>5. Recheck(t) \/ Cancel(t) \/ (\E n \in Templates : AcquireHot(t, n) \/ AcquireSlow(t, n))
            => docker' = docker
      BY DEF Recheck, Cancel, AcquireHot, AcquireSlow
    <3>6. EvictHot(t) \/ TakeVictim(t) \/ MarkWarm(t) \/ EvictWarm(t) => docker' = docker
      BY DEF EvictHot, TakeVictim, MarkWarm, EvictWarm
    <3>7. Rollback(t) => docker' = docker
      BY <2>3 DEF Rollback
    <3>8. Unpause(t) \/ Pause(t) => docker' = docker
            \/ ForEach(t, {"running"}, "paused") \/ ForEach(t, {"paused"}, "running")
      BY DEF Unpause, Pause
    <3>. QED BY <1>4, <3>1, <3>2, <3>3, <3>4, <3>5, <3>6, <3>7, <3>8 DEF Step
  <2>. QED BY <2>2, <2>3
<1>. QED BY <1>1, <1>2, <1>3, <1>4 DEF Next

LEMMA HeldExistHolds ==
  ASSUME Roomy
  PROVE  Spec => [](FreshApart /\ HeldExist)
<1>1. Init => FreshApart /\ HeldExist
  BY DEF Init, FreshApart, HeldExist, Fresh, Cids, Cold
<1>2. TypeOK /\ MapInv /\ FreshApart /\ HeldExist /\ [Next]_vars => (FreshApart /\ HeldExist)'
  BY FreshApartStep, HeldExistStep
<1>. QED BY <1>1, <1>2, TypeCorrect, MapInvHolds, PTL DEF Spec

\* With room in the Warm tier for every template no entry of the map stands for a
\* container that was removed, although Docker calls fail and handlers are dropped
\* at any await: removals touch only what their own handler has just started.
THEOREM RoomyRegisteredExist ==
  ASSUME Roomy
  PROVE  Spec => []RegisteredExist
<1>1. HeldExist => RegisteredExist
  BY DEF HeldExist, RegisteredExist, Existing, Cids
<1>. QED BY <1>1, HeldExistHolds, PTL

----------------------------------------------------------------------------
\* One Docker call moves a container out of the states it applies to.
LEMMA LoopEffect ==
  ASSUME TypeOK, NEW t \in Tasks, NEW From \in SUBSET {"running", "paused"}, NEW to,
         ForEach(t, From, to), NEW c \in Containers, docker'[c] # docker[c]
  PROVE  docker[c] \in {"running", "paused"} /\ docker'[c] = to
<1>1. PICK d \in todo[t] : DockerCall(d, From, to)
  BY DEF ForEach
<1>2. docker' = docker \/ (docker[d] \in From /\ docker' = [docker EXCEPT ![d] = to])
  BY <1>1 DEF DockerCall
<1>. QED BY <1>2 DEF TypeOK

\* A container id begins as a start's, and is never used again once removed.
LEMMA ContainerLife ==
  ASSUME TypeOK, [Next]_vars, NEW c \in Containers, docker'[c] # docker[c]
  PROVE  \/ \E t \in Tasks : StartsOne(t, c)
         \/ docker[c] \in {"running", "paused"} /\ docker'[c] \in {"running", "paused", "removed"}
<1>. DEFINE Moved == docker[c] \in {"running", "paused"} /\ docker'[c] \in {"running", "paused", "removed"}
<1>1. ASSUME NEW t \in Tasks,
             \/ ForEach(t, {"running"}, "paused")
             \/ ForEach(t, {"paused"}, "running")
             \/ ForEach(t, {"running", "paused"}, "removed")
      PROVE  Moved
  <2>1. {"running"} \in SUBSET {"running", "paused"} /\ {"paused"} \in SUBSET {"running", "paused"}
    OBVIOUS
  <2>. QED BY <1>1, <2>1, LoopEffect
<1>2. ASSUME NEW t \in Tasks, Start(t)
      PROVE  StartsOne(t, c)
  <2>1. PICK d \in Containers : StartsOne(t, d)
    BY <1>2 DEF Start, StartsOne
  <2>2. d = c
    BY <2>1 DEF StartsOne, TypeOK
  <2>. QED BY <2>1, <2>2
<1>3. ~ UNCHANGED vars
  BY DEF vars
<1>4. ASSUME NEW t \in Tasks, NEW n \in Templates
      PROVE  ~ AcquireHot(t, n) /\ ~ AcquireSlow(t, n)
  BY DEF AcquireHot, AcquireSlow
<1>5. ASSUME NEW t \in Tasks
      PROVE  /\ ~ Recheck(t) /\ ~ Cancel(t) /\ ~ Reinsert(t) /\ ~ Register(t)
             /\ ~ EvictHot(t) /\ ~ TakeVictim(t) /\ ~ MarkWarm(t)
             /\ ~ EvictWarm(t) /\ ~ DropWarm(t)
  BY DEF Recheck, Cancel, Reinsert, Register, InsertHot, EvictHot, TakeVictim, MarkWarm,
     EvictWarm, DropWarm
<1>6. ASSUME NEW t \in Tasks, Unpause(t) \/ Pause(t) \/ Remove_(t) \/ Rollback(t)
      PROVE  Moved
  <2>1. CASE \E d \in todo[t] : docker[d] = "paused" /\ docker' = [docker EXCEPT ![d] = "running"]
    BY <2>1 DEF TypeOK
  <2>. QED BY <1>6, <1>1, <2>1 DEF Unpause, Pause, Remove_, Rollback
<1>. QED BY <1>2, <1>3, <1>4, <1>5, <1>6 DEF Next, Step

\* A rollback that cannot fail has removed what it has treated.
RollbackDone ==
  \A t \in Tasks : pc[t] = "rollback" => \A c \in mine[t] \ todo[t] : docker[c] = "removed"

LEMMA RollbackDoneStep ==
  ASSUME Roomy, ~ Faulty, TypeOK, MapInv, HeldExist, RollbackDone, [Next]_vars
  PROVE  RollbackDone'
<1>1. \A c \in Containers : docker[c] = "removed" => docker'[c] = "removed"
  BY ContainerLife DEF StartsOne
<1>2. CASE UNCHANGED vars
  BY <1>2 DEF vars, RollbackDone
<1>3. ASSUME NEW t \in Tasks,
             (\E n \in Templates : AcquireHot(t, n) \/ AcquireSlow(t, n))
               \/ Recheck(t) \/ Step(t) \/ Cancel(t)
      PROVE  RollbackDone'
  <2>1. ASSUME NEW u \in Tasks, u # t, pc'[u] = "rollback", NEW c \in mine'[u] \ todo'[u]
        PROVE  docker'[c] = "removed"
    <3>1. Stays(u)
      BY <1>3, <2>1, OthersStay
    <3>2. c \in Containers
      BY <2>1, <3>1 DEF Stays, TypeOK
    <3>. QED BY <1>1, <2>1, <3>1, <3>2 DEF Stays, RollbackDone
  <2>2. ASSUME pc'[t] = "rollback", NEW c \in mine'[t] \ todo'[t]
        PROVE  docker'[c] = "removed"
    <3>t. /\ pc \in [Tasks -> PC] /\ mine \in [Tasks -> SUBSET Containers]
          /\ todo \in [Tasks -> SUBSET Containers] /\ docker \in [Containers -> ContainerState]
          /\ HandlerInv(t)
      BY DEF TypeOK, MapInv
    <3>1. ~ Finish(t)
      BY <2>2, <3>t DEF Finish, Goto
    <3>2. CASE Start(t)
      BY <2>2, <3>2, <3>t DEF Start, Goto
    <3>3. CASE Rollback(t)
      <4>1. pc[t] = "rollback" /\ UNCHANGED mine /\ ForEach(t, {"running", "paused"}, "removed")
        BY <3>1, <3>3 DEF Rollback
      <4>2. PICK d \in todo[t] : /\ DockerCall(d, {"running", "paused"}, "removed")
                                 /\ todo' = [todo EXCEPT ![t] = @ \ {d}]
        BY <4>1 DEF ForEach
      <4>3. CASE c = d
        <5>1. Fresh(t) /\ d \in mine[t]
          BY <4>1, <4>2, <3>t DEF Fresh, HandlerInv
        <5>2. docker[d] \in {"running", "paused", "removed"}
          BY <5>1 DEF HeldExist, Existing
        <5>3. docker' = IF docker[d] \in {"running", "paused"}
                        THEN [docker EXCEPT ![d] = "removed"] ELSE docker
          BY <4>2 DEF DockerCall
        <5>. QED BY <4>2, <4>3, <5>2, <5>3, <3>t
      <4>4. CASE c # d
        BY <1>1, <2>2, <4>1, <4>2, <4>4, <3>t DEF RollbackDone
      <4>. QED BY <4>3, <4>4
    <3>4. \/ Start(t) \/ Rollback(t)
      <4>1. \A n \in Templates : AcquireHot(t, n) \/ AcquireSlow(t, n) => pc'[t] \in {"idle", "lock"}
        BY <3>t DEF AcquireHot, AcquireSlow, Goto, locals
      <4>2. Recheck(t) => pc'[t] \in {"reinsert", "unpause", "evictHot"}
        BY <3>1, <3>t DEF Recheck, Goto
      <4>3. Unpause(t) \/ EvictHot(t) \/ TakeVictim(t) \/ Pause(t) =>
              pc'[t] \in {"unpause", "evictHot", "take", "start", "register", "pause", "markWarm"}
        BY <3>t DEF Unpause, EvictHot, TakeVictim, Pause, Goto
      <4>4. MarkWarm(t) \/ EvictWarm(t) \/ DropWarm(t) \/ Remove_(t) =>
              pc'[t] \in {"evictHot", "evictWarm", "dropWarm", "remove"}
        BY <3>t DEF MarkWarm, EvictWarm, DropWarm, Remove_, Goto
      <4>5. ~ Reinsert(t) /\ ~ Register(t) /\ ~ Cancel(t)
        BY <3>1 DEF Reinsert, Register, InsertHot, Cancel
      <4>. QED BY <1>3, <2>2, <4>1, <4>2, <4>3, <4>4, <4>5 DEF Step
    <3>. QED BY <3>2, <3>3, <3>4
  <2>. QED BY <2>1, <2>2 DEF RollbackDone
<1>. QED BY <1>2, <1>3 DEF Next

\* A handler that is not dropped lets go of its containers when it has inserted
\* them or has removed them all.
LEMMA MineKept ==
  ASSUME ~ Cancellable, TypeOK, MapInv, RollbackDone, NEW t \in Tasks,
         (\E n \in Templates : AcquireHot(t, n) \/ AcquireSlow(t, n))
           \/ Recheck(t) \/ Step(t) \/ Cancel(t),
         ~ (Reinsert(t) \/ Register(t)),
         NEW c \in mine[t], docker[c] # "removed"
  PROVE  c \in mine'[t]
<1>t. HandlerInv(t) /\ pc \in [Tasks -> PC] /\ mine \in [Tasks -> SUBSET Containers]
  BY DEF MapInv, TypeOK
<1>1. ~ Recheck(t)
  BY <1>t DEF Recheck, HandlerInv
<1>2. \A n \in Templates : AcquireHot(t, n) \/ AcquireSlow(t, n) => mine' = mine
  BY DEF AcquireHot, AcquireSlow, locals
<1>3. Unpause(t) \/ EvictHot(t) \/ TakeVictim(t) \/ Pause(t) => mine' = mine
  BY DEF Unpause, EvictHot, TakeVictim, Pause
<1>4. MarkWarm(t) \/ EvictWarm(t) \/ DropWarm(t) \/ Remove_(t) => mine' = mine
  BY DEF MarkWarm, EvictWarm, DropWarm, Remove_
<1>5. Start(t) => c \in mine'[t]
  BY <1>t DEF Start
<1>6. Rollback(t) => mine' = mine
  BY DEF Rollback, RollbackDone
<1>. QED BY <1>1, <1>2, <1>3, <1>4, <1>5, <1>6 DEF Step, Cancel

\* What it means to be held, before a step and after it.
LEMMA InHeld ==
  ASSUME NEW c
  PROVE  /\ c \in Held <=>
              \/ \E n \in Templates : c \in runtimes[n].cids
              \/ \E t \in Tasks : c \in mine[t]
              \/ \E t \in Tasks : pc[t] = "remove" /\ c \in todo[t]
         /\ c \in Held' <=>
              \/ \E n \in Templates : c \in runtimes'[n].cids
              \/ \E t \in Tasks : c \in mine'[t]
              \/ \E t \in Tasks : pc'[t] = "remove" /\ c \in todo'[t]
BY Zenon DEF Held

LEMMA NoLeakStep ==
  ASSUME Roomy, ~ Cancellable, TypeOK, MapInv, RollbackDone, NoLeak, [Next]_vars
  PROVE  NoLeak'
<1>1. CASE UNCHANGED vars
  BY <1>1 DEF vars, NoLeak, Held
<1>2. ASSUME NEW c \in Containers, docker'[c] \in {"running", "paused"},
             NEW t \in Tasks, StartsOne(t, c)
      PROVE  c \in Held'
  <2>1. c \in mine'[t]
    BY <1>2 DEF StartsOne, TypeOK
  <2>. QED BY <2>1, InHeld
<1>3. ASSUME NEW t \in Tasks,
             (\E n \in Templates : AcquireHot(t, n) \/ AcquireSlow(t, n))
               \/ Recheck(t) \/ Step(t) \/ Cancel(t),
             NEW c \in Containers, docker'[c] \in {"running", "paused"},
             docker[c] \in {"running", "paused"}
      PROVE  c \in Held'
  <2>1. \/ \E n \in Templates : c \in Cids(n)
        \/ \E u \in Tasks : c \in mine[u]
    <3>1. c \in Held
      BY <1>3 DEF NoLeak
    <3>2. \A u \in Tasks : pc[u] # "remove"
      BY DEF MapInv, HandlerInv
    <3>. QED BY <3>1, <3>2, InHeld DEF Cids
  <2>2. ASSUME NEW u \in Tasks, u # t, c \in mine[u]
        PROVE  c \in Held'
    <3>1. c \in mine'[u]
      BY <1>3, <2>2, OthersStay DEF Stays
    <3>. QED BY <3>1, InHeld
  <2>3. CASE Reinsert(t) \/ Register(t)
    <3>1. /\ want[t] \in Templates
          /\ runtimes'[want[t]] = [tier |-> "Hot", cids |-> mine[t]]
      BY <2>3, InsertHotEffect
    <3>2. c \in mine[t] => c \in Held'
      BY <3>1, InHeld
    <3>3. ASSUME NEW n \in Templates, c \in Cids(n)
          PROVE  c \in Held'
      <4>1. CASE n = want[t]
        <5>1. Cids(want[t]) \in {{}, mine[t]}
          BY <2>3 DEF MapInv, HandlerInv, Reinsert, Register
        <5>. QED BY <3>2, <3>3, <4>1, <5>1
      <4>2. CASE n # want[t]
        <5>1. runtimes'[n] = runtimes[n]
          BY <2>3, <4>2, InsertHotEffect
        <5>. QED BY <3>3, <5>1, InHeld DEF Cids
      <4>. QED BY <4>1, <4>2
    <3>. QED BY <2>1, <2>2, <3>2, <3>3
  <2>4. CASE ~ (Reinsert(t) \/ Register(t))
    <3>1. ASSUME NEW n \in Templates, c \in Cids(n)
          PROVE  c \in Held'
      <4>1. runtimes'[n].cids = Cids(n)
        BY <1>3, <2>4, OtherStepsKeepMap DEF KeepsCids, Kept, Cids
      <4>. QED BY <3>1, <4>1, InHeld
    <3>2. c \in mine[t] => c \in mine'[t]
      BY <1>3, <2>4, MineKept
    <3>3. c \in mine'[t] => c \in Held'
      BY InHeld
    <3>. QED BY <2>1, <2>2, <3>1, <3>2, <3>3
  <2>. QED BY <2>3, <2>4
<1>4. ASSUME NEW c \in Containers, docker'[c] \in {"running", "paused"}
      PROVE  docker[c] \in {"running", "paused"} \/ \E t \in Tasks : StartsOne(t, c)
  BY <1>4, ContainerLife
<1>. QED BY <1>1, <1>2, <1>3, <1>4 DEF Next, NoLeak

\* With room in the Warm tier for every template, Docker calls that succeed and
\* handlers that are never dropped, every container that exists is in the map or
\* in the hands of the handler that starts or removes it.  Each hypothesis is
\* needed: a demotion in flight that puts back a dropped runtime, a
\* removal that fails silently, and a client that disconnects during a cold
\* start each leave containers nobody will stop.
THEOREM RoomyNoLeak ==
  ASSUME Roomy, ~ Faulty, ~ Cancellable
  PROVE  Spec => []NoLeak
<1>1. Init => NoLeak /\ RollbackDone
  BY DEF Init, NoLeak, RollbackDone
<1>2. /\ TypeOK /\ MapInv /\ HeldExist /\ RollbackDone /\ [Next]_vars => RollbackDone'
      /\ TypeOK /\ MapInv /\ RollbackDone /\ NoLeak /\ [Next]_vars => NoLeak'
  BY RollbackDoneStep, NoLeakStep
<1>. QED BY <1>1, <1>2, TypeCorrect, MapInvHolds, HeldExistHolds, PTL DEF Spec

----------------------------------------------------------------------------
(***************************************************************************)
(* One request at a time, none of them dropped: the registry is a          *)
(* two-level LRU cache.  Two handlers in acquire, or one dropped between a *)
(* demotion and the eviction it makes necessary, break the policy.         *)
(***************************************************************************)
Sequential == \E t \in Tasks : Tasks = {t}

\* n is the least recently used template of its tier.
LeastRecent(n) ==
  \E i \in 1..Len(lru) :
    /\ lru[i] = n
    /\ \A j \in 1..(i - 1) : runtimes[lru[j]].tier # runtimes[n].tier

\* What the handler has established, phase by phase: its template is not Hot,
\* its victim is the oldest of a full tier, the Warm tier is over its limit by
\* the template just demoted, and there is room before a template enters.
SeqHandler(t) ==
  /\ pc[t] # "reinsert"
  /\ pc[t] # "idle" => runtimes[want[t]].tier # "Hot"
  /\ pc[t] \in {"take", "pause", "markWarm"} =>
       /\ runtimes[victim[t]].tier = "Hot"
       /\ Cardinality(InTier("Hot")) >= HotLimit
       /\ LeastRecent(victim[t])
  /\ pc[t] = "dropWarm" =>
       /\ runtimes[victim[t]].tier = "Warm"
       /\ Cardinality(InTier("Warm")) = WarmLimit + 1
       /\ LeastRecent(victim[t])
  /\ IF pc[t] \in {"evictWarm", "dropWarm"}
     THEN Cardinality(InTier("Warm")) <= WarmLimit + 1
     ELSE Cardinality(InTier("Warm")) <= WarmLimit
  /\ pc[t] \in {"start", "register"} => Cardinality(InTier("Hot")) < Room

SeqInv ==
  /\ IsFiniteSet(InTier("Hot")) /\ IsFiniteSet(InTier("Warm"))
  /\ LruMatchesRuntimes
  /\ \A t \in Tasks : SeqHandler(t)

\* Changing one template's runtime moves it between the tiers.
LEMMA TierSets ==
  ASSUME TypeOK, NEW v \in Templates, NEW r \in Runtime,
         runtimes' = [runtimes EXCEPT ![v] = r], NEW l
  PROVE  InTier(l)' = IF r.tier = l THEN InTier(l) \union {v} ELSE InTier(l) \ {v}
BY DEF TypeOK, InTier

\* A step that leaves tiers and order alone keeps what holds of a template.
LEMMA QuietStep ==
  ASSUME UNCHANGED <<runtimes, lru>>
  PROVE  /\ \A l : InTier(l)' = InTier(l)
         /\ \A t \in Tasks : victim'[t] = victim[t] => (LeastRecent(victim[t])' <=> LeastRecent(victim[t]))
BY DEF InTier, LeastRecent

\* The handler's Docker loops and its looks at the state: tiers and order stay.
LEMMA SeqQuiet ==
  ASSUME TypeOK, SeqInv, NEW t \in Tasks,
         \/ \E n \in Templates : AcquireSlow(t, n)
         \/ Recheck(t) \/ Unpause(t) \/ TakeVictim(t) \/ Pause(t) \/ Remove_(t)
         \/ Start(t) \/ Rollback(t)
  PROVE  UNCHANGED <<runtimes, lru>> /\ SeqHandler(t)'
<1>t. /\ pc \in [Tasks -> PC] /\ want \in [Tasks -> Templates \union {NoTemplate}]
      /\ victim \in [Tasks -> Templates \union {NoTemplate}]
      /\ SeqHandler(t) /\ IsFiniteSet(InTier("Warm"))
  BY DEF TypeOK, SeqInv
<1>q. UNCHANGED <<runtimes, lru>>
  BY DEF AcquireSlow, Recheck, Unpause, TakeVictim, Pause, Remove_, Start, Rollback
<1>h. InTier("Hot")' = InTier("Hot") /\ InTier("Warm")' = InTier("Warm")
  BY <1>q, QuietStep
<1>v. victim'[t] = victim[t] => (LeastRecent(victim[t])' <=> LeastRecent(victim[t]))
  BY <1>q, QuietStep
<1>1. ASSUME NEW n \in Templates, AcquireSlow(t, n)
      PROVE  SeqHandler(t)'
  BY <1>1, <1>t, <1>q, <1>h DEF AcquireSlow, Goto, SeqHandler
<1>2. ASSUME Finish(t), pc[t] \notin {"evictWarm", "dropWarm"}
      PROVE  SeqHandler(t)'
  BY <1>2, <1>t, <1>h DEF Finish, Goto, SeqHandler
<1>3. ASSUME Recheck(t)
      PROVE  SeqHandler(t)'
  <2>1. CASE Finish(t)
    BY <1>2, <1>3, <2>1 DEF Recheck
  <2>2. CASE ~ Finish(t)
    <3>1. runtimes[want[t]].tier # "Hot" /\ pc[t] = "lock"
      BY <1>3, <1>t DEF Recheck, SeqHandler
    <3>2. pc'[t] \in {"unpause", "evictHot"} /\ want' = want
      BY <1>3, <1>t, <2>2, <3>1 DEF Recheck, Goto, locals
    <3>. QED BY <3>1, <3>2, <1>q, <1>h, <1>t DEF SeqHandler
  <2>. QED BY <2>1, <2>2
<1>4. ASSUME Unpause(t) \/ Remove_(t)
      PROVE  SeqHandler(t)'
  <2>1. /\ pc'[t] \in {"unpause", "evictHot"} \/ pc'[t] \in {"remove", "evictWarm"}
        /\ pc[t] \in {"unpause", "remove"} /\ want' = want
    BY <1>4, <1>t DEF Unpause, Remove_, Goto
  <2>2. Cardinality(InTier("Warm")) <= WarmLimit => Cardinality(InTier("Warm")) <= WarmLimit + 1
    BY <1>t, FS_CardinalityType, RegistryAssumption DEF RegistryAssumption
  <2>. QED BY <2>1, <2>2, <1>q, <1>h, <1>t DEF SeqHandler
<1>5. ASSUME TakeVictim(t) \/ Pause(t)
      PROVE  SeqHandler(t)'
  <2>1. pc[t] \in {"take", "pause"} /\ want' = want /\ victim' = victim
    BY <1>5 DEF TakeVictim, Pause
  <2>2. pc'[t] \in {"evictHot", "pause", "markWarm"}
    BY <1>5, <1>t DEF TakeVictim, Pause, Goto
  <2>. QED BY <2>1, <2>2, <1>q, <1>h, <1>v, <1>t DEF SeqHandler
<1>6. ASSUME Start(t)
      PROVE  SeqHandler(t)'
  <2>1. pc[t] = "start" /\ pc'[t] \in {"start", "rollback", "register"} /\ want' = want
    BY <1>6, <1>t DEF Start, Goto
  <2>. QED BY <2>1, <1>q, <1>h, <1>t DEF SeqHandler
<1>7. ASSUME Rollback(t)
      PROVE  SeqHandler(t)'
  <2>1. pc[t] = "rollback"
    BY <1>7 DEF Rollback
  <2>2. CASE Finish(t)
    BY <1>2, <2>1, <2>2
  <2>3. CASE ~ Finish(t)
    <3>1. UNCHANGED <<pc, want>>
      BY <1>7, <2>3 DEF Rollback
    <3>. QED BY <2>1, <3>1, <1>q, <1>h, <1>t DEF SeqHandler
  <2>. QED BY <2>2, <2>3
<1>. QED BY <1>q, <1>1, <1>3, <1>4, <1>5, <1>6, <1>7

\* The policy's view of the registry.
LEMMA PolicySees ==
  ASSUME TypeOK
  PROVE  /\ \A l : Policy!In(l) = InTier(l)
         /\ \A n \in Templates : LeastRecent(n) => Policy!IsOldest(n)
         /\ Policy!HotRoom = Room
<1>1. \A l : Policy!In(l) = InTier(l)
  BY DEF Policy!In, InTier
<1>2. ASSUME NEW n \in Templates, LeastRecent(n)
      PROVE  Policy!IsOldest(n)
  <2>1. PICK i \in 1..Len(lru) :
          /\ lru[i] = n
          /\ \A j \in 1..(i - 1) : runtimes[lru[j]].tier # runtimes[n].tier
    BY <1>2 DEF LeastRecent
  <2>2. \A j \in 1..(i - 1) : lru[j] \in Templates
    BY <2>1 DEF TypeOK
  <2>. QED BY <2>1, <2>2 DEF Policy!IsOldest
<1>. QED BY <1>1, <1>2 DEF Policy!HotRoom, Room

tiers == [n \in Templates |-> runtimes[n].tier]

\* The module of the policy has the library's operators for itself.
LEMMA SameOperators ==
  /\ \A S : Policy!Cardinality(S) = Cardinality(S)
  /\ \A s, e : Policy!RemoveFirst(s, e) = RemoveFirst(s, e)
<1>1. \A S : Policy!Cardinality(S) = Cardinality(S)
  BY Zenon DEF Policy!Cardinality, Cardinality
<1>2. \A s, e : Policy!RemoveFirst(s, e) = RemoveFirst(s, e)
  BY Zenon DEF Policy!RemoveFirst, Policy!RemoveAt, Policy!SelectInSeq, Policy!Min,
     RemoveFirst, RemoveAt, SelectInSeq, Min
<1>. QED BY <1>1, <1>2

\* The policy's actions, in those terms.
LEMMA PolicyActions ==
  ASSUME TypeOK, NEW n \in Templates
  PROVE  /\ tiers[n] = "Hot" /\ lru' = Touched(n) /\ UNCHANGED tiers => Policy!Hit(n)
         /\ /\ tiers[n] # "Hot" /\ Cardinality(InTier("Hot")) < Room
            /\ tiers' = [tiers EXCEPT ![n] = "Hot"] /\ lru' = Touched(n)
            => Policy!Admit(n)
         /\ /\ tiers[n] = "Hot" /\ Cardinality(InTier("Hot")) >= HotLimit /\ LeastRecent(n)
            /\ tiers' = [tiers EXCEPT ![n] = "Warm"] /\ lru' = lru
            => Policy!Demote(n)
         /\ /\ tiers[n] = "Warm" /\ Cardinality(InTier("Warm")) = WarmLimit + 1 /\ LeastRecent(n)
            /\ tiers' = [tiers EXCEPT ![n] = "Cold"] /\ lru' = RemoveFirst(lru, n)
            => Policy!Drop(n)
<1>1. Policy!Hit(n) <=> tiers[n] = "Hot" /\ Policy!Use(n) /\ UNCHANGED tiers
  BY Zenon DEF Policy!Hit, tiers
<1>2. Policy!Admit(n) <=>
        /\ tiers[n] # "Hot"
        /\ Policy!Cardinality(Policy!In("Hot")) < Policy!HotRoom
        /\ tiers' = [tiers EXCEPT ![n] = "Hot"]
        /\ Policy!Use(n)
  BY Zenon DEF Policy!Admit, tiers
<1>3. Policy!Demote(n) <=>
        /\ tiers[n] = "Hot"
        /\ Policy!Cardinality(Policy!In("Hot")) >= HotLimit
        /\ Policy!IsOldest(n)
        /\ tiers' = [tiers EXCEPT ![n] = "Warm"]
        /\ lru' = lru
  BY Zenon DEF Policy!Demote, tiers
<1>4. Policy!Drop(n) <=>
        /\ tiers[n] = "Warm"
        /\ Policy!Cardinality(Policy!In("Warm")) = WarmLimit + 1
        /\ Policy!IsOldest(n)
        /\ tiers' = [tiers EXCEPT ![n] = "Cold"]
        /\ lru' = Policy!RemoveFirst(lru, n)
  BY Zenon DEF Policy!Drop, tiers
<1>5. Policy!Use(n) <=> lru' = Touched(n)
  BY SameOperators DEF Policy!Use, Touched
<1>. QED BY <1>1, <1>2, <1>3, <1>4, <1>5, PolicySees, SameOperators

LEMMA PolicyNext ==
  ASSUME NEW n \in Templates, Policy!Hit(n) \/ Policy!Admit(n) \/ Policy!Demote(n) \/ Policy!Drop(n)
  PROVE  Policy!Next
BY DEF Policy!Next

LEMMA TiersChange ==
  ASSUME TypeOK, NEW v \in Templates, NEW r, runtimes' = [runtimes EXCEPT ![v] = r]
  PROVE  tiers' = [tiers EXCEPT ![v] = r.tier]
BY DEF TypeOK, tiers

\* The look for room: a victim is the oldest of a full tier, and the slow path
\* goes on only when there is room.
LEMMA SeqEvictHot ==
  ASSUME TypeOK, SeqInv, NEW t \in Tasks, EvictHot(t)
  PROVE  UNCHANGED <<runtimes, lru>> /\ SeqHandler(t)'
<1>. DEFINE H == InTier("Hot")
            v == Oldest(H \ {want[t]})
<1>1. /\ pc[t] = "evictHot" /\ UNCHANGED <<runtimes, lru, want>>
      /\ SeqHandler(t) /\ IsFiniteSet(H)
      /\ pc \in [Tasks -> PC] /\ victim \in [Tasks -> Templates \union {NoTemplate}]
  BY DEF EvictHot, SeqInv, TypeOK
<1>2. H \ {want[t]} = H /\ H \in SUBSET Templates
  BY <1>1 DEF InTier, SeqHandler
<1>3. /\ v # NoTemplate => v \in H /\ LeastRecent(v)
      /\ v = NoTemplate => H = {}
  <2>. HIDE DEF H
  <2>1. lru \in Seq(Templates)
    BY DEF TypeOK
  <2>2. v # NoTemplate =>
          /\ v \in H
          /\ \E i \in 1..Len(lru) : lru[i] = v /\ \A j \in 1..(i - 1) : lru[j] \notin H
    BY <1>2, <2>1, OldestProperties, RegistryAssumption
  <2>3. v = NoTemplate => \A i \in 1..Len(lru) : lru[i] \notin H
    BY <1>2, <2>1, OldestProperties, RegistryAssumption
  <2>4. v # NoTemplate => LeastRecent(v)
    BY <2>1, <2>2 DEF LeastRecent, H, InTier
  <2>5. v = NoTemplate => H = {}
    BY <2>3 DEF H, InTier, SeqInv, LruMatchesRuntimes
  <2>. QED BY <2>2, <2>4, <2>5
<1>4. /\ Cardinality(H) \in Nat /\ HotLimit \in Nat /\ Room \in Nat /\ Room >= 1
      /\ Room >= HotLimit /\ (H = {} => Cardinality(H) = 0)
  BY <1>1, FS_CardinalityType, FS_EmptySet, RegistryAssumption DEF RegistryAssumption, Room
<1>h. InTier("Hot")' = InTier("Hot") /\ InTier("Warm")' = InTier("Warm")
  BY <1>1, QuietStep
<1>. HIDE DEF v
<1>5. CASE Cardinality(H) >= HotLimit /\ v # NoTemplate /\ victim' = [victim EXCEPT ![t] = v] /\ Goto(t, "take")
  <2>1. pc'[t] = "take" /\ victim'[t] = v
    BY <1>1, <1>5 DEF Goto
  <2>2. LeastRecent(victim[t])'
    BY <1>1, <1>3, <1>5, <2>1 DEF LeastRecent
  <2>3. runtimes[v].tier = "Hot"
    BY <1>3, <1>5 DEF InTier
  <2>. QED BY <1>1, <1>5, <1>h, <2>1, <2>2, <2>3 DEF SeqHandler
<1>6. CASE (Cardinality(H) < HotLimit \/ v = NoTemplate) /\ Goto(t, IF mine[t] = {} THEN "start" ELSE "register")
  <2>1. Cardinality(H) < Room
    BY <1>3, <1>4, <1>6
  <2>2. pc'[t] \in {"start", "register"}
    BY <1>1, <1>6 DEF Goto
  <2>. QED BY <1>1, <1>h, <2>1, <2>2 DEF SeqHandler
<1>7. ~ (Cardinality(H) >= HotLimit) => Cardinality(H) < HotLimit
  BY <1>4
<1>. QED BY <1>1, <1>5, <1>6, <1>7 DEF EvictHot, v

\* The Warm tier's turn: it is over its limit by one template at most, and what is
\* dropped is its oldest.
LEMMA SeqEvictWarm ==
  ASSUME TypeOK, SeqInv, NEW t \in Tasks, EvictWarm(t)
  PROVE  UNCHANGED <<runtimes, lru>> /\ SeqHandler(t)'
<1>. DEFINE W == InTier("Warm")
            v == Oldest(W)
<1>1. /\ pc[t] = "evictWarm" /\ UNCHANGED <<runtimes, lru, want>>
      /\ SeqHandler(t) /\ IsFiniteSet(W) /\ W \in SUBSET Templates
      /\ pc \in [Tasks -> PC] /\ victim \in [Tasks -> Templates \union {NoTemplate}]
  BY DEF EvictWarm, SeqInv, TypeOK, InTier
<1>2. /\ v # NoTemplate => v \in W /\ LeastRecent(v)
      /\ v = NoTemplate => W = {}
  <2>. HIDE DEF W
  <2>1. lru \in Seq(Templates)
    BY DEF TypeOK
  <2>2. v # NoTemplate =>
          /\ v \in W
          /\ \E i \in 1..Len(lru) : lru[i] = v /\ \A j \in 1..(i - 1) : lru[j] \notin W
    BY <1>1, <2>1, OldestProperties, RegistryAssumption
  <2>3. v = NoTemplate => \A i \in 1..Len(lru) : lru[i] \notin W
    BY <1>1, <2>1, OldestProperties, RegistryAssumption
  <2>4. v # NoTemplate => LeastRecent(v)
    BY <2>1, <2>2 DEF LeastRecent, W, InTier
  <2>5. v = NoTemplate => W = {}
    BY <2>3 DEF W, InTier, SeqInv, LruMatchesRuntimes
  <2>. QED BY <2>2, <2>4, <2>5
<1>3. /\ Cardinality(W) \in Nat /\ WarmLimit \in Nat /\ (W = {} => Cardinality(W) = 0)
      /\ Cardinality(W) <= WarmLimit + 1
  BY <1>1, FS_CardinalityType, FS_EmptySet, RegistryAssumption DEF RegistryAssumption, SeqHandler
<1>h. InTier("Hot")' = InTier("Hot") /\ InTier("Warm")' = InTier("Warm")
  BY <1>1, QuietStep
<1>. HIDE DEF v
<1>5. CASE Cardinality(W) > WarmLimit /\ v # NoTemplate /\ victim' = [victim EXCEPT ![t] = v] /\ Goto(t, "dropWarm")
  <2>1. pc'[t] = "dropWarm" /\ victim'[t] = v
    BY <1>1, <1>5 DEF Goto
  <2>2. LeastRecent(victim[t])'
    BY <1>1, <1>2, <1>5, <2>1 DEF LeastRecent
  <2>3. runtimes[v].tier = "Warm" /\ Cardinality(W) = WarmLimit + 1
    BY <1>2, <1>3, <1>5 DEF InTier
  <2>. QED BY <1>1, <1>3, <1>h, <2>1, <2>2, <2>3 DEF SeqHandler
<1>6. CASE (~ (Cardinality(W) > WarmLimit) \/ v = NoTemplate) /\ Goto(t, "evictHot")
  <2>1. Cardinality(W) <= WarmLimit
    BY <1>2, <1>3, <1>6
  <2>2. pc'[t] = "evictHot"
    BY <1>1, <1>6 DEF Goto
  <2>. QED BY <1>1, <1>h, <2>1, <2>2 DEF SeqHandler
<1>. QED BY <1>1, <1>5, <1>6 DEF EvictWarm, v

\* The fast path is the policy's Hit.
LEMMA SeqHit ==
  ASSUME TypeOK, SeqInv, Sequential, NEW t \in Tasks, NEW n \in Templates, AcquireHot(t, n)
  PROVE  /\ UNCHANGED runtimes /\ SeqHandler(t)'
         /\ Policy!Hit(n)
<1>1. /\ pc[t] = "idle" /\ runtimes[n].tier = "Hot" /\ lru' = Touched(n)
      /\ UNCHANGED <<runtimes, pc>> /\ SeqHandler(t)
  BY DEF AcquireHot, SeqInv
<1>2. InTier("Warm")' = InTier("Warm")
  BY <1>1 DEF InTier
<1>3. SeqHandler(t)'
  BY <1>1, <1>2 DEF SeqHandler
<1>4. tiers[n] = "Hot" /\ UNCHANGED tiers
  BY <1>1 DEF tiers
<1>. QED BY <1>1, <1>3, <1>4, PolicyActions

\* A demotion that ends is the policy's Demote.
LEMMA SeqDemote ==
  ASSUME TypeOK, SeqInv, NEW t \in Tasks, MarkWarm(t)
  PROVE  /\ IsFiniteSet(InTier("Hot")') /\ IsFiniteSet(InTier("Warm")') /\ SeqHandler(t)'
         /\ Policy!Next
<1>0. PICK v \in Templates : v = victim[t]
  BY DEF TypeOK, MarkWarm
<1>. DEFINE r == [tier |-> "Warm", cids |-> theirs[t]]
<1>1. /\ pc[t] = "markWarm" /\ v \in Templates /\ r \in Runtime
      /\ runtimes' = [runtimes EXCEPT ![v] = r] /\ UNCHANGED <<lru, want>>
      /\ pc'[t] = "evictWarm" /\ r.tier = "Warm"
      /\ SeqHandler(t) /\ IsFiniteSet(InTier("Hot")) /\ IsFiniteSet(InTier("Warm"))
  BY <1>0 DEF MarkWarm, SeqInv, TypeOK, Goto, Runtime, Tier
<1>2. /\ runtimes[v].tier = "Hot" /\ Cardinality(InTier("Hot")) >= HotLimit
      /\ LeastRecent(v) /\ Cardinality(InTier("Warm")) <= WarmLimit
      /\ runtimes[want[t]].tier # "Hot" /\ want[t] \in Templates
  BY <1>0, <1>1 DEF SeqHandler, TypeOK
<1>. HIDE DEF r
<1>3. InTier("Hot")' = InTier("Hot") \ {v} /\ InTier("Warm")' = InTier("Warm") \union {v}
  BY <1>1, TierSets
<1>4. /\ IsFiniteSet(InTier("Hot")') /\ IsFiniteSet(InTier("Warm")')
      /\ Cardinality(InTier("Warm")') <= WarmLimit + 1
  <2>. DEFINE W == InTier("Warm")
  <2>0. /\ IsFiniteSet(W \union {v})
        /\ Cardinality(W \union {v}) = IF v \in W THEN Cardinality(W) ELSE Cardinality(W) + 1
    BY <1>1, FS_AddElement
  <2>1. Cardinality(W) \in Nat /\ Cardinality(W \union {v}) <= Cardinality(W) + 1
    BY <1>1, <2>0, FS_CardinalityType
  <2>5. Cardinality(InTier("Warm")') = Cardinality(W \union {v})
    BY <1>3, Zenon
  <2>6. Cardinality(W \union {v}) \in Nat
    BY <2>0, FS_CardinalityType
  <2>2. IsFiniteSet(InTier("Hot") \ {v})
    BY <1>1, FS_RemoveElement
  <2>3. WarmLimit \in Nat
    BY RegistryAssumption DEF RegistryAssumption
  <2>7. Cardinality(InTier("Warm")') <= WarmLimit + 1
    <3>. HIDE DEF W
    <3>1. Cardinality(W) <= WarmLimit
      BY <1>2 DEF W
    <3>. QED BY <2>1, <2>3, <2>5, <2>6, <3>1
  <2>. QED BY <1>3, <2>0, <2>2, <2>7
<1>5. SeqHandler(t)'
  <2>1. runtimes'[want[t]].tier # "Hot"
    BY <1>1, <1>2 DEF TypeOK
  <2>. QED BY <1>1, <1>4, <2>1 DEF SeqHandler
<1>6. tiers' = [tiers EXCEPT ![v] = "Warm"]
  BY ZenonT(60), <1>1, TiersChange
<1>7. tiers[v] = "Hot"
  BY <1>1, <1>2 DEF tiers
<1>8. Policy!Demote(v)
  BY <1>1, <1>2, <1>6, <1>7, PolicyActions
<1>. QED BY <1>4, <1>5, <1>8, PolicyNext

\* The critical section that takes a template off the list and out of the map is
\* the policy's Drop.
LEMMA SeqDrop ==
  ASSUME TypeOK, SeqInv, NEW t \in Tasks, DropWarm(t)
  PROVE  /\ IsFiniteSet(InTier("Hot")') /\ IsFiniteSet(InTier("Warm")') /\ SeqHandler(t)'
         /\ Policy!Next
<1>0. PICK v \in Templates : v = victim[t]
  BY DEF TypeOK, DropWarm
<1>1. /\ pc[t] = "dropWarm" /\ v \in Templates /\ Cold \in Runtime
      /\ runtimes' = [runtimes EXCEPT ![v] = Cold] /\ lru' = RemoveFirst(lru, v)
      /\ want' = want /\ pc'[t] = "remove" /\ Cold.tier = "Cold"
      /\ SeqHandler(t) /\ IsFiniteSet(InTier("Hot")) /\ IsFiniteSet(InTier("Warm"))
  BY <1>0 DEF DropWarm, SeqInv, TypeOK, Goto, Runtime, Tier, Cold
<1>2. /\ runtimes[v].tier = "Warm" /\ Cardinality(InTier("Warm")) = WarmLimit + 1
      /\ LeastRecent(v)
      /\ runtimes[want[t]].tier # "Hot" /\ want[t] \in Templates
  BY <1>0, <1>1 DEF SeqHandler, TypeOK
<1>3. InTier("Hot")' = InTier("Hot") \ {v} /\ InTier("Warm")' = InTier("Warm") \ {v}
  BY <1>1, TierSets
<1>4. /\ IsFiniteSet(InTier("Hot")') /\ IsFiniteSet(InTier("Warm")')
      /\ Cardinality(InTier("Warm")') <= WarmLimit
  <2>1. v \in InTier("Warm")
    BY <1>1, <1>2 DEF InTier
  <2>2. /\ IsFiniteSet(InTier("Warm") \ {v})
        /\ Cardinality(InTier("Warm") \ {v}) = Cardinality(InTier("Warm")) - 1
    BY <1>1, <2>1, FS_RemoveElement
  <2>3. IsFiniteSet(InTier("Hot") \ {v})
    BY <1>1, FS_RemoveElement
  <2>4. WarmLimit \in Nat
    BY RegistryAssumption DEF RegistryAssumption
  <2>5. Cardinality(InTier("Warm")') = Cardinality(InTier("Warm") \ {v})
    BY <1>3, Zenon
  <2>6. Cardinality(InTier("Warm")') <= WarmLimit
    <3>1. Cardinality(InTier("Warm")') = Cardinality(InTier("Warm")) - 1
      BY <2>2, <2>5, Zenon
    <3>. QED BY <1>2, <2>4, <3>1
  <2>. QED BY <1>3, <2>2, <2>3, <2>6
<1>5. SeqHandler(t)'
  <2>1. runtimes'[want[t]].tier # "Hot"
    BY <1>1, <1>2 DEF TypeOK, Cold
  <2>. QED BY <1>1, <1>4, <2>1 DEF SeqHandler
<1>6. tiers' = [tiers EXCEPT ![v] = "Cold"]
  BY ZenonT(60), <1>1, TiersChange
<1>7. tiers[v] = "Warm"
  BY <1>1, <1>2 DEF tiers
<1>8. Policy!Drop(v)
  BY <1>1, <1>2, <1>6, <1>7, PolicyActions
<1>. QED BY <1>4, <1>5, <1>8, PolicyNext

\* The insertion that ends a slow path is the policy's Admit.
LEMMA SeqAdmit ==
  ASSUME TypeOK, SeqInv, NEW t \in Tasks, Register(t)
  PROVE  /\ IsFiniteSet(InTier("Hot")') /\ IsFiniteSet(InTier("Warm")') /\ SeqHandler(t)'
         /\ Policy!Next
<1>0. PICK w \in Templates : w = want[t]
  BY DEF TypeOK, Register
<1>. DEFINE r == [tier |-> "Hot", cids |-> mine[t]]
<1>1. /\ pc[t] = "register" /\ w \in Templates /\ r \in Runtime
      /\ runtimes' = [runtimes EXCEPT ![w] = r] /\ lru' = Touched(w)
      /\ pc'[t] = "idle" /\ r.tier = "Hot"
      /\ SeqHandler(t) /\ IsFiniteSet(InTier("Hot")) /\ IsFiniteSet(InTier("Warm"))
  BY <1>0 DEF Register, InsertHot, Finish, SeqInv, TypeOK, Goto, Runtime, Tier
<1>2. /\ runtimes[w].tier # "Hot" /\ Cardinality(InTier("Hot")) < Room
      /\ Cardinality(InTier("Warm")) <= WarmLimit
  BY <1>0, <1>1 DEF SeqHandler
<1>. HIDE DEF r
<1>3. InTier("Hot")' = InTier("Hot") \union {w} /\ InTier("Warm")' = InTier("Warm") \ {w}
  BY <1>1, TierSets
<1>4. /\ IsFiniteSet(InTier("Hot")') /\ IsFiniteSet(InTier("Warm")')
      /\ Cardinality(InTier("Warm")') <= WarmLimit
  <2>1. IsFiniteSet(InTier("Hot") \union {w})
    BY <1>1, FS_AddElement
  <2>2. InTier("Warm") \ {w} \in SUBSET InTier("Warm")
    OBVIOUS
  <2>3. /\ IsFiniteSet(InTier("Warm") \ {w})
        /\ Cardinality(InTier("Warm") \ {w}) <= Cardinality(InTier("Warm"))
        /\ Cardinality(InTier("Warm") \ {w}) \in Nat /\ Cardinality(InTier("Warm")) \in Nat
    BY <1>1, <2>2, FS_Subset, FS_CardinalityType
  <2>4. WarmLimit \in Nat
    BY RegistryAssumption DEF RegistryAssumption
  <2>. QED BY <1>2, <1>3, <2>1, <2>3, <2>4
<1>5. SeqHandler(t)'
  BY <1>1, <1>4 DEF SeqHandler
<1>6. tiers' = [tiers EXCEPT ![w] = "Hot"]
  BY ZenonT(60), <1>1, TiersChange
<1>7. tiers[w] # "Hot"
  BY <1>1, <1>2 DEF tiers
<1>8. Policy!Admit(w)
  BY <1>1, <1>2, <1>6, <1>7, PolicyActions
<1>. QED BY <1>4, <1>5, <1>8, PolicyNext

\* Every step keeps the invariant and is a step of the policy, or none to it.
LEMMA SeqStep ==
  ASSUME TypeOK, LruNoDuplicates, SeqInv, Sequential, ~ Cancellable, [Next]_vars
  PROVE  SeqInv' /\ (Policy!Next \/ UNCHANGED <<tiers, lru>>)
<1>1. CASE UNCHANGED vars
  <2>1. UNCHANGED <<runtimes, lru, pc, want, victim>>
    BY <1>1 DEF vars
  <2>2. InTier("Hot")' = InTier("Hot") /\ InTier("Warm")' = InTier("Warm")
    BY <2>1, QuietStep
  <2>3. \A t \in Tasks : LeastRecent(victim[t])' <=> LeastRecent(victim[t])
    BY <2>1, QuietStep
  <2>4. \A t \in Tasks : SeqHandler(t)'
    BY <2>1, <2>2, <2>3 DEF SeqInv, SeqHandler
  <2>5. LruMatchesRuntimes'
    BY <2>1 DEF SeqInv, LruMatchesRuntimes
  <2>. QED BY <2>1, <2>2, <2>4, <2>5 DEF SeqInv, tiers
<1>2. LruMatchesRuntimes'
  <2>1. \A t \in Tasks : MarkWarm(t) => runtimes[victim[t]].tier # "Cold"
    BY DEF SeqInv, SeqHandler, MarkWarm
  <2>. QED BY <2>1, OrderStaysExact DEF SeqInv
<1>3. ASSUME NEW t \in Tasks, SeqHandler(t)', IsFiniteSet(InTier("Hot")'), IsFiniteSet(InTier("Warm")')
      PROVE  SeqInv'
  BY <1>2, <1>3 DEF SeqInv, Sequential
<1>4. ASSUME NEW t \in Tasks, UNCHANGED <<runtimes, lru>>, SeqHandler(t)'
      PROVE  SeqInv' /\ UNCHANGED <<tiers, lru>>
  <2>1. IsFiniteSet(InTier("Hot")') /\ IsFiniteSet(InTier("Warm")')
    BY <1>4, QuietStep DEF SeqInv
  <2>. QED BY <1>3, <1>4, <2>1 DEF tiers
<1>5. ASSUME NEW t \in Tasks,
             \/ \E n \in Templates : AcquireSlow(t, n)
             \/ Recheck(t) \/ Unpause(t) \/ TakeVictim(t) \/ Pause(t) \/ Remove_(t)
             \/ Start(t) \/ Rollback(t)
      PROVE  SeqInv' /\ UNCHANGED <<tiers, lru>>
  BY <1>4, <1>5, SeqQuiet
<1>6. ASSUME NEW t \in Tasks, EvictHot(t) \/ EvictWarm(t)
      PROVE  SeqInv' /\ UNCHANGED <<tiers, lru>>
  BY <1>4, <1>6, SeqEvictHot, SeqEvictWarm
<1>7. ASSUME NEW t \in Tasks, NEW n \in Templates, AcquireHot(t, n)
      PROVE  SeqInv' /\ Policy!Next
  <2>1. UNCHANGED runtimes /\ SeqHandler(t)' /\ Policy!Hit(n)
    BY <1>7, SeqHit
  <2>2. IsFiniteSet(InTier("Hot")') /\ IsFiniteSet(InTier("Warm")')
    BY <2>1 DEF SeqInv, InTier
  <2>. QED BY <1>3, <2>1, <2>2 DEF Policy!Next
<1>8. ASSUME NEW t \in Tasks, MarkWarm(t)
      PROVE  SeqInv' /\ Policy!Next
  BY <1>3, <1>8, SeqDemote
<1>9. ASSUME NEW t \in Tasks, DropWarm(t)
      PROVE  SeqInv' /\ Policy!Next
  BY <1>3, <1>9, SeqDrop
<1>10. ASSUME NEW t \in Tasks, Register(t)
       PROVE  SeqInv' /\ Policy!Next
  BY <1>3, <1>10, SeqAdmit
<1>11. \A t \in Tasks : ~ Reinsert(t) /\ ~ Cancel(t)
  BY DEF SeqInv, SeqHandler, Reinsert, Cancel
<1>. QED BY <1>1, <1>5, <1>6, <1>7, <1>8, <1>9, <1>10, <1>11 DEF Next, Step

LEMMA SeqInvHolds ==
  ASSUME Sequential, ~ Cancellable
  PROVE  Spec => []SeqInv
<1>1. Init => SeqInv
  <2>. SUFFICES ASSUME Init PROVE SeqInv
    OBVIOUS
  <2>1. InTier("Hot") = {} /\ InTier("Warm") = {}
    BY DEF Init, InTier, Cold
  <2>2. IsFiniteSet({}) /\ Cardinality({}) = 0 /\ WarmLimit \in Nat
    BY FS_EmptySet, RegistryAssumption DEF RegistryAssumption
  <2>3. LruMatchesRuntimes
    BY DEF Init, LruMatchesRuntimes, Cold
  <2>4. \A t \in Tasks : pc[t] = "idle"
    BY DEF Init
  <2>. QED BY <2>1, <2>2, <2>3, <2>4 DEF SeqInv, SeqHandler
<1>2. TypeOK /\ LruNoDuplicates /\ SeqInv /\ [Next]_vars => SeqInv'
  BY SeqStep
<1>. QED BY <1>1, <1>2, TypeCorrect, NeverTwiceInOrder, PTL DEF Spec

\* With requests one at a time the registry is a two-level LRU cache: a template
\* enters the Hot tier only when there is room, only the least recently used
\* one of a full tier is demoted or dropped, and the Warm tier is over its
\* limit by one template at most (PagedRegistry's acquire and its two evictors).
THEOREM SequentialFollowsPolicy ==
  ASSUME Sequential, ~ Cancellable
  PROVE  Spec => FollowsPolicy
<1>1. Init => Policy!Init
  BY DEF Init, Policy!Init, Cold
<1>2. TypeOK /\ LruNoDuplicates /\ SeqInv /\ [Next]_vars
        => [Policy!Next]_<<[n \in Templates |-> runtimes[n].tier], lru>>
  BY SeqStep DEF tiers
<1>. QED
  BY <1>1, <1>2, TypeCorrect, NeverTwiceInOrder, SeqInvHolds, PTL
     DEF Spec, FollowsPolicy, Policy!Spec

----------------------------------------------------------------------------
(***************************************************************************)
(* Tiers and Docker.  With calls that do what they are asked, Docker and   *)
(* the map disagree only about the containers the handler is at work on.   *)
(***************************************************************************)
Working(t) == pc[t] \notin {"idle", "lock"}
Pausing(t, n) == pc[t] \in {"pause", "markWarm"} /\ n = victim[t]
Are(S, state) == \A c \in S : docker[c] \in {"removed", state}

\* No container serves two templates, what the handler holds is its own
\* template's, and what it removes is nobody's any more.
OwnersApart(t) ==
  /\ \A n, m \in Templates : n # m => runtimes[n].cids \intersect runtimes[m].cids = {}
  /\ \A n \in Templates : runtimes[n].tier = "Cold" => runtimes[n].cids = {}
  /\ \A n \in Templates : n # want[t] => mine[t] \intersect runtimes[n].cids = {}
  /\ ~ Working(t) => mine[t] = {}
  /\ Working(t) => runtimes[want[t]].cids \subseteq mine[t]
  /\ pc[t] \in {"start", "rollback"} => runtimes[want[t]].cids = {}
  /\ pc[t] = "remove" => \A n \in Templates : todo[t] \intersect runtimes[n].cids = {}

\* Nothing registered or in the handler's hands is still to be created.
NoneAbsent(t) ==
  /\ \A n \in Templates : \A c \in runtimes[n].cids : docker[c] # "absent"
  /\ \A c \in mine[t] : docker[c] # "absent"

\* How far the two loops have come.
LoopProgress(t) ==
  /\ pc[t] \in {"pause", "markWarm"} => theirs[t] = runtimes[victim[t]].cids
  /\ pc[t] = "pause" => /\ todo[t] \subseteq theirs[t]
                        /\ Are(todo[t], "running") /\ Are(theirs[t] \ todo[t], "paused")
  /\ pc[t] = "markWarm" => Are(theirs[t], "paused")
  /\ pc[t] = "unpause" => todo[t] \subseteq mine[t] /\ Are(mine[t] \ todo[t], "running")
  /\ Working(t) /\ pc[t] # "unpause" => Are(mine[t], "running")

TiersAgree(t) ==
  \A n \in Templates :
    /\ runtimes[n].tier = "Hot" /\ ~ Pausing(t, n) => Are(runtimes[n].cids, "running")
    /\ runtimes[n].tier = "Warm" /\ ~ (Working(t) /\ n = want[t]) => Are(runtimes[n].cids, "paused")

DockerInv == \A t \in Tasks : OwnersApart(t) /\ NoneAbsent(t) /\ LoopProgress(t) /\ TiersAgree(t)

\* A call moves one container, from the state it applies to.
LEMMA LoopMoves ==
  ASSUME TypeOK, ~ Faulty, NEW t \in Tasks, NEW From, NEW to,
         ForEach(t, From, to)
  PROVE  \E c \in todo[t] :
           /\ todo'[t] = todo[t] \ {c}
           /\ \A d \in Containers \ {c} : docker'[d] = docker[d]
           /\ docker[c] \in From => docker'[c] = to
           /\ docker[c] \notin From => docker'[c] = docker[c]
BY DEF TypeOK, ForEach, DockerCall

\* A handler that returns leaves Docker agreeing with the map.
LEMMA DockerFinish ==
  ASSUME TypeOK, NEW t \in Tasks, Finish(t), UNCHANGED <<runtimes, docker>>,
         OwnersApart(t), NoneAbsent(t), TiersAgree(t), runtimes[want[t]].cids = {},
         pc[t] \notin {"pause", "markWarm"}
  PROVE  OwnersApart(t)' /\ NoneAbsent(t)' /\ LoopProgress(t)' /\ TiersAgree(t)'
<1>1. pc'[t] = "idle" /\ mine'[t] = {}
  BY DEF Finish, Goto, TypeOK
<1>2. OwnersApart(t)'
  BY <1>1 DEF OwnersApart, Working
<1>3. NoneAbsent(t)'
  BY <1>1 DEF NoneAbsent
<1>4. LoopProgress(t)'
  BY <1>1 DEF LoopProgress, Working
<1>5. TiersAgree(t)'
  BY <1>1 DEF TiersAgree, Pausing, Working, Are
<1>. QED BY <1>2, <1>3, <1>4, <1>5

\* The critical sections before the loops.
LEMMA DockerLooks ==
  ASSUME TypeOK, NEW t \in Tasks, SeqHandler(t),
         OwnersApart(t), NoneAbsent(t), LoopProgress(t), TiersAgree(t),
         \/ \E n \in Templates : AcquireHot(t, n) \/ AcquireSlow(t, n)
         \/ Recheck(t) \/ EvictHot(t) \/ TakeVictim(t) \/ EvictWarm(t)
  PROVE  OwnersApart(t)' /\ NoneAbsent(t)' /\ LoopProgress(t)' /\ TiersAgree(t)'
<1>0. UNCHANGED <<runtimes, docker>> /\ pc \in [Tasks -> PC] /\ mine \in [Tasks -> SUBSET Containers]
  BY DEF AcquireHot, AcquireSlow, Recheck, EvictHot, TakeVictim, EvictWarm, TypeOK
<1>1. ASSUME NEW n \in Templates, AcquireHot(t, n)
      PROVE  OwnersApart(t)' /\ NoneAbsent(t)' /\ LoopProgress(t)' /\ TiersAgree(t)'
  BY <1>0, <1>1 DEF AcquireHot, locals, OwnersApart, NoneAbsent, LoopProgress, TiersAgree, Working, Pausing, Are
<1>2. ASSUME NEW n \in Templates, AcquireSlow(t, n)
      PROVE  OwnersApart(t)' /\ NoneAbsent(t)' /\ LoopProgress(t)' /\ TiersAgree(t)'
  <2>1. pc[t] = "idle" /\ pc'[t] = "lock" /\ mine' = mine
    BY <1>2, <1>0 DEF AcquireSlow, Goto
  <2>. QED BY <2>1, <1>0 DEF OwnersApart, NoneAbsent, LoopProgress, TiersAgree, Working, Pausing, Are
<1>3. ASSUME Recheck(t)
      PROVE  OwnersApart(t)' /\ NoneAbsent(t)' /\ LoopProgress(t)' /\ TiersAgree(t)'
  <2>1. pc[t] = "lock" /\ mine[t] = {} /\ want[t] \in Templates /\ runtimes[want[t]].tier # "Hot"
    BY <1>3 DEF Recheck, TypeOK, SeqHandler, OwnersApart, Working
  <2>2. CASE runtimes[want[t]].tier = "Warm"
    <3>1. /\ pc'[t] = "unpause" /\ want' = want
          /\ mine'[t] = runtimes[want[t]].cids /\ todo'[t] = runtimes[want[t]].cids
      BY <1>3, <2>1, <2>2 DEF Recheck, Goto, TypeOK
    <3>2. OwnersApart(t)'
      BY <1>0, <2>1, <3>1 DEF OwnersApart, Working
    <3>3. NoneAbsent(t)'
      BY <1>0, <2>1, <3>1 DEF NoneAbsent
    <3>4. LoopProgress(t)'
      BY <3>1 DEF LoopProgress, Working, Are
    <3>5. TiersAgree(t)'
      BY <1>0, <2>1, <3>1 DEF TiersAgree, Pausing, Working, Are
    <3>. QED BY <3>2, <3>3, <3>4, <3>5
  <2>3. CASE runtimes[want[t]].tier = "Cold"
    <3>1. runtimes[want[t]].cids = {}
      BY <2>1, <2>3 DEF OwnersApart
    <3>2. CASE Finish(t)
      BY <1>0, <2>1, <3>1, <3>2, DockerFinish
    <3>3. CASE Goto(t, "evictHot") /\ UNCHANGED locals
      <4>1. pc'[t] = "evictHot" /\ mine' = mine /\ want' = want
        BY <1>0, <3>3 DEF Goto, locals
      <4>. QED BY <1>0, <2>1, <3>1, <4>1 DEF OwnersApart, NoneAbsent, LoopProgress, TiersAgree, Working, Pausing, Are
    <3>. QED BY <1>3, <2>3, <3>2, <3>3 DEF Recheck
  <2>. QED BY <2>1, <2>2, <2>3 DEF TypeOK, Runtime, Tier
<1>4. ASSUME EvictHot(t) \/ EvictWarm(t)
      PROVE  OwnersApart(t)' /\ NoneAbsent(t)' /\ LoopProgress(t)' /\ TiersAgree(t)'
  <2>1. /\ pc[t] \in {"evictHot", "evictWarm"} /\ mine' = mine /\ want' = want
        /\ pc'[t] \in {"take", "start", "register", "dropWarm", "evictHot"}
        /\ pc'[t] = "start" => mine[t] = {}
    BY <1>0, <1>4 DEF EvictHot, EvictWarm, Goto
  <2>2. OwnersApart(t)'
    BY <1>0, <2>1 DEF OwnersApart, Working
  <2>. QED BY <1>0, <2>1, <2>2 DEF NoneAbsent, LoopProgress, TiersAgree, Working, Pausing, Are
<1>5. ASSUME TakeVictim(t)
      PROVE  OwnersApart(t)' /\ NoneAbsent(t)' /\ LoopProgress(t)' /\ TiersAgree(t)'
  <2>1. /\ pc[t] = "take" /\ UNCHANGED <<mine, want, victim>>
        /\ victim[t] \in Templates /\ runtimes[victim[t]].tier = "Hot"
    BY <1>5 DEF TakeVictim, TypeOK, SeqHandler
  <2>2. /\ pc'[t] = "pause" /\ theirs'[t] = runtimes[victim[t]].cids
        /\ todo'[t] = runtimes[victim[t]].cids
    BY <1>5, <2>1 DEF TakeVictim, Goto, TypeOK
  <2>3. OwnersApart(t)'
    BY <1>0, <2>1, <2>2 DEF OwnersApart, Working
  <2>4. LoopProgress(t)'
    BY <1>0, <2>1, <2>2 DEF LoopProgress, TiersAgree, Working, Pausing, Are
  <2>. QED BY <1>0, <2>1, <2>2, <2>3, <2>4 DEF NoneAbsent, TiersAgree, Working, Pausing, Are
<1>. QED BY <1>1, <1>2, <1>3, <1>4, <1>5

\* The loops: a container pauses only in its template's demotion, and runs
\* again only for the request that holds it; a removed one is no tier's concern.
LEMMA DockerLoops ==
  ASSUME TypeOK, ~ Faulty, NEW t \in Tasks, SeqHandler(t),
         OwnersApart(t), NoneAbsent(t), LoopProgress(t), TiersAgree(t),
         Pause(t) \/ Unpause(t) \/ Remove_(t) \/ Rollback(t)
  PROVE  OwnersApart(t)' /\ NoneAbsent(t)' /\ LoopProgress(t)' /\ TiersAgree(t)'
<1>0. /\ runtimes' = runtimes /\ pc \in [Tasks -> PC] /\ mine \in [Tasks -> SUBSET Containers]
      /\ todo \in [Tasks -> SUBSET Containers] /\ theirs \in [Tasks -> SUBSET Containers]
      /\ runtimes \in [Templates -> Runtime]
  BY DEF Pause, Unpause, Remove_, Rollback, TypeOK
<1>r. \A n \in Templates : runtimes[n].cids \subseteq Containers
  BY <1>0 DEF Runtime
<1>1. ASSUME Pause(t)
      PROVE  OwnersApart(t)' /\ NoneAbsent(t)' /\ LoopProgress(t)' /\ TiersAgree(t)'
  <2>1. /\ pc[t] = "pause" /\ UNCHANGED <<mine, want, victim, theirs>>
        /\ victim[t] \in Templates /\ runtimes[victim[t]].tier = "Hot"
        /\ want[t] \in Templates /\ victim[t] # want[t]
    BY <1>1 DEF Pause, TypeOK, SeqHandler
  <2>2. CASE ForEach(t, {"running"}, "paused") /\ pc' = pc
    <3>1. PICK c \in todo[t] :
            /\ todo'[t] = todo[t] \ {c}
            /\ \A d \in Containers \ {c} : docker'[d] = docker[d]
            /\ docker[c] \in {"running"} => docker'[c] = "paused"
            /\ docker[c] \notin {"running"} => docker'[c] = docker[c]
      BY <2>2 DEF TypeOK, ForEach, DockerCall
    <3>2. /\ c \in runtimes[victim[t]].cids /\ docker'[c] \in {"removed", "paused"}
          /\ todo[t] \subseteq theirs[t] /\ theirs[t] = runtimes[victim[t]].cids
      BY <2>1, <3>1 DEF LoopProgress, Are
    <3>3. \A n \in Templates \ {victim[t]} : c \notin runtimes[n].cids
      BY <2>1, <3>2 DEF OwnersApart
    <3>4. c \notin mine[t]
      BY <2>1, <3>2 DEF OwnersApart
    <3>5. OwnersApart(t)'
      BY <1>0, <2>1, <2>2 DEF OwnersApart, Working
    <3>6. NoneAbsent(t)'
      BY <1>0, <1>r, <2>1, <3>1, <3>2 DEF NoneAbsent
    <3>7. LoopProgress(t)'
      BY <1>0, <1>r, <2>1, <2>2, <3>1, <3>2, <3>4 DEF LoopProgress, Working, Are
    <3>8. TiersAgree(t)'
      BY <1>0, <1>r, <2>1, <2>2, <3>1, <3>2, <3>3 DEF TiersAgree, Pausing, Working, Are
    <3>. QED BY <3>5, <3>6, <3>7, <3>8
  <2>3. CASE todo[t] = {} /\ Goto(t, "markWarm") /\ UNCHANGED <<docker, todo>>
    <3>1. pc'[t] = "markWarm"
      BY <1>0, <2>3 DEF Goto
    <3>. QED BY <1>0, <2>1, <2>3, <3>1 DEF OwnersApart, NoneAbsent, LoopProgress, TiersAgree, Pausing, Working, Are
  <2>. QED BY <1>1, <2>2, <2>3 DEF Pause
<1>2. ASSUME Unpause(t)
      PROVE  OwnersApart(t)' /\ NoneAbsent(t)' /\ LoopProgress(t)' /\ TiersAgree(t)'
  <2>1. /\ pc[t] = "unpause" /\ UNCHANGED <<mine, want, victim, theirs>>
        /\ want[t] \in Templates /\ todo[t] \subseteq mine[t]
    BY <1>2 DEF Unpause, TypeOK, LoopProgress
  <2>2. CASE ForEach(t, {"paused"}, "running") /\ pc' = pc
    <3>1. PICK c \in todo[t] :
            /\ todo'[t] = todo[t] \ {c}
            /\ \A d \in Containers \ {c} : docker'[d] = docker[d]
            /\ docker[c] \in {"paused"} => docker'[c] = "running"
            /\ docker[c] \notin {"paused"} => docker'[c] = docker[c]
      BY <2>2 DEF TypeOK, ForEach, DockerCall
    <3>2. c \in mine[t] /\ docker[c] # "absent" /\ docker'[c] \in {"removed", "running"}
      BY <1>0, <2>1, <3>1 DEF NoneAbsent, TypeOK, ContainerState
    <3>3. \A n \in Templates \ {want[t]} : c \notin runtimes[n].cids
      BY <2>1, <3>2 DEF OwnersApart
    <3>5. OwnersApart(t)'
      BY <1>0, <2>1, <2>2 DEF OwnersApart, Working
    <3>6. NoneAbsent(t)'
      BY <1>0, <1>r, <2>1, <3>1, <3>2 DEF NoneAbsent
    <3>7. LoopProgress(t)'
      BY <1>0, <2>1, <2>2, <3>1, <3>2 DEF LoopProgress, Working, Are
    <3>8. TiersAgree(t)'
      BY <1>0, <1>r, <2>1, <2>2, <3>1, <3>2, <3>3 DEF TiersAgree, Pausing, Working, Are
    <3>. QED BY <3>5, <3>6, <3>7, <3>8
  <2>3. CASE todo[t] = {} /\ Goto(t, "evictHot") /\ UNCHANGED <<docker, todo>>
    <3>1. pc'[t] = "evictHot"
      BY <1>0, <2>3 DEF Goto
    <3>. QED BY <1>0, <2>1, <2>3, <3>1 DEF OwnersApart, NoneAbsent, LoopProgress, TiersAgree, Pausing, Working, Are
  <2>. QED BY <1>2, <2>2, <2>3 DEF Unpause
<1>3. ASSUME ForEach(t, {"running", "paused"}, "removed"), pc' = pc, pc[t] \in {"remove", "rollback"},
             UNCHANGED <<want, mine, victim, theirs>>
      PROVE  OwnersApart(t)' /\ NoneAbsent(t)' /\ LoopProgress(t)' /\ TiersAgree(t)'
  <2>1. \A d \in Containers : docker'[d] = docker[d] \/ docker'[d] = "removed"
    BY <1>3, LoopMoves
  <2>2. OwnersApart(t)'
    <3>1. todo'[t] \subseteq todo[t]
      BY <1>3, LoopMoves
    <3>. QED BY <1>0, <1>3, <3>1 DEF OwnersApart, Working
  <2>3. NoneAbsent(t)'
    BY <1>0, <1>r, <1>3, <2>1 DEF NoneAbsent
  <2>4. LoopProgress(t)'
    BY <1>0, <1>3, <2>1 DEF LoopProgress, Working, Are
  <2>5. TiersAgree(t)'
    BY <1>0, <1>r, <1>3, <2>1 DEF TiersAgree, Pausing, Working, Are
  <2>. QED BY <2>2, <2>3, <2>4, <2>5
<1>4. ASSUME Remove_(t)
      PROVE  OwnersApart(t)' /\ NoneAbsent(t)' /\ LoopProgress(t)' /\ TiersAgree(t)'
  <2>1. CASE ForEach(t, {"running", "paused"}, "removed") /\ pc' = pc
    BY <1>3, <1>4, <2>1 DEF Remove_
  <2>2. CASE todo[t] = {} /\ Goto(t, "evictWarm") /\ UNCHANGED <<docker, todo>>
    <3>1. pc[t] = "remove" /\ pc'[t] = "evictWarm" /\ UNCHANGED <<want, mine, victim, theirs>>
      BY <1>0, <1>4, <2>2 DEF Goto, Remove_
    <3>. QED BY <1>0, <2>2, <3>1 DEF OwnersApart, NoneAbsent, LoopProgress, TiersAgree, Pausing, Working, Are
  <2>3. ASSUME NEW c \in todo[t], docker[c] = "paused", docker' = [docker EXCEPT ![c] = "running"],
               UNCHANGED <<pc, todo>>
        PROVE  OwnersApart(t)' /\ NoneAbsent(t)' /\ LoopProgress(t)' /\ TiersAgree(t)'
    <3>1. pc[t] = "remove" /\ UNCHANGED <<want, mine, victim, theirs>>
      BY <1>4, <2>3 DEF Remove_
    <3>2. c \in Containers /\ docker \in [Containers -> ContainerState]
      BY <1>0, <2>3 DEF TypeOK
    <3>3. docker'[c] = "running" /\ \A d \in Containers \ {c} : docker'[d] = docker[d]
      BY <2>3, <3>2
    <3>4. \A n \in Templates : c \notin runtimes[n].cids
      BY <2>3, <3>1 DEF OwnersApart
    <3>5. OwnersApart(t)'
      BY <1>0, <2>3, <3>1 DEF OwnersApart, Working
    <3>6. NoneAbsent(t)'
      BY <1>0, <1>r, <3>1, <3>3 DEF NoneAbsent
    <3>7. LoopProgress(t)'
      BY <1>0, <2>3, <3>1, <3>3 DEF LoopProgress, Working, Are
    <3>8. TiersAgree(t)'
      BY <1>0, <1>r, <2>3, <3>1, <3>3, <3>4 DEF TiersAgree, Pausing, Working, Are
    <3>. QED BY <3>5, <3>6, <3>7, <3>8
  <2>. QED BY <1>4, <2>1, <2>2, <2>3 DEF Remove_
<1>5. ASSUME Rollback(t)
      PROVE  OwnersApart(t)' /\ NoneAbsent(t)' /\ LoopProgress(t)' /\ TiersAgree(t)'
  <2>0. pc[t] = "rollback" /\ runtimes[want[t]].cids = {}
    BY <1>5 DEF Rollback, OwnersApart
  <2>1. CASE ForEach(t, {"running", "paused"}, "removed") /\ UNCHANGED <<pc, want, mine, victim, theirs>>
    BY <1>3, <2>0, <2>1
  <2>2. CASE Finish(t) /\ docker' = docker
    BY <1>0, <2>0, <2>2, DockerFinish
  <2>. QED BY <1>5, <2>1, <2>2 DEF Rollback
<1>. QED BY <1>1, <1>2, <1>4, <1>5

\* The critical sections that change the map, and a container's start.
LEMMA DockerMoves ==
  ASSUME TypeOK, NEW t \in Tasks, SeqHandler(t),
         OwnersApart(t), NoneAbsent(t), LoopProgress(t), TiersAgree(t),
         MarkWarm(t) \/ DropWarm(t) \/ Start(t) \/ Register(t)
  PROVE  OwnersApart(t)' /\ NoneAbsent(t)' /\ LoopProgress(t)' /\ TiersAgree(t)'
<1>0. /\ pc \in [Tasks -> PC] /\ mine \in [Tasks -> SUBSET Containers]
      /\ theirs \in [Tasks -> SUBSET Containers] /\ todo \in [Tasks -> SUBSET Containers]
      /\ runtimes \in [Templates -> Runtime] /\ docker \in [Containers -> ContainerState]
  BY DEF TypeOK
<1>r. \A n \in Templates : runtimes[n].cids \subseteq Containers
  BY <1>0 DEF Runtime
<1>1. ASSUME MarkWarm(t)
      PROVE  OwnersApart(t)' /\ NoneAbsent(t)' /\ LoopProgress(t)' /\ TiersAgree(t)'
  <2>1. /\ pc[t] = "markWarm" /\ pc'[t] = "evictWarm" /\ UNCHANGED <<docker, want, mine, victim, todo>>
        /\ victim[t] \in Templates /\ runtimes[victim[t]].tier = "Hot"
        /\ want[t] \in Templates /\ victim[t] # want[t]
    BY <1>0, <1>1 DEF MarkWarm, Goto, TypeOK, SeqHandler
  <2>2. \A n \in Templates :
          /\ runtimes'[n].cids = runtimes[n].cids
          /\ n # victim[t] => runtimes'[n] = runtimes[n]
    BY <1>0, <1>1, <2>1 DEF MarkWarm, LoopProgress
  <2>3. runtimes'[victim[t]].tier = "Warm" /\ Are(runtimes[victim[t]].cids, "paused")
    BY <1>0, <1>1, <2>1 DEF MarkWarm, LoopProgress
  <2>4. OwnersApart(t)'
    BY <2>1, <2>2, <2>3 DEF OwnersApart, Working
  <2>5. NoneAbsent(t)'
    BY <2>1, <2>2 DEF NoneAbsent
  <2>6. LoopProgress(t)'
    BY <2>1 DEF LoopProgress, Working, Are
  <2>7. TiersAgree(t)'
    BY <2>1, <2>2, <2>3 DEF TiersAgree, Pausing, Working, Are
  <2>. QED BY <2>4, <2>5, <2>6, <2>7
<1>2. ASSUME DropWarm(t)
      PROVE  OwnersApart(t)' /\ NoneAbsent(t)' /\ LoopProgress(t)' /\ TiersAgree(t)'
  <2>1. /\ pc[t] = "dropWarm" /\ pc'[t] = "remove" /\ UNCHANGED <<docker, want, mine, victim, theirs>>
        /\ victim[t] \in Templates /\ want[t] \in Templates
    BY <1>0, <1>2 DEF DropWarm, Goto, TypeOK
  <2>2. \A n \in Templates : n # victim[t] => runtimes'[n] = runtimes[n]
    BY <1>0, <1>2, <2>1 DEF DropWarm
  <2>3. runtimes'[victim[t]].tier = "Cold" /\ runtimes'[victim[t]].cids = {}
    BY <1>0, <1>2, <2>1 DEF DropWarm, Cold
  <2>4. OwnersApart(t)'
    <3>1. todo'[t] = runtimes[victim[t]].cids
      BY <1>0, <1>2 DEF DropWarm
    <3>2. \A n \in Templates : todo'[t] \intersect runtimes'[n].cids = {}
      BY <2>1, <2>2, <2>3, <3>1 DEF OwnersApart
    <3>. QED BY <2>1, <2>2, <2>3, <3>2 DEF OwnersApart, Working
  <2>5. NoneAbsent(t)'
    BY <2>1, <2>2, <2>3 DEF NoneAbsent
  <2>6. LoopProgress(t)'
    BY <2>1 DEF LoopProgress, Working, Are
  <2>7. TiersAgree(t)'
    BY <2>1, <2>2, <2>3 DEF TiersAgree, Pausing, Working, Are
  <2>. QED BY <2>4, <2>5, <2>6, <2>7
<1>3. ASSUME Start(t)
      PROVE  OwnersApart(t)' /\ NoneAbsent(t)' /\ LoopProgress(t)' /\ TiersAgree(t)'
  <2>1. /\ pc[t] = "start" /\ runtimes' = runtimes /\ UNCHANGED <<want, victim, theirs>>
        /\ pc'[t] \in {"start", "rollback", "register"}
        /\ runtimes[want[t]].cids = {}
    BY <1>0, <1>3 DEF Start, Goto, OwnersApart
  <2>2. CASE UNCHANGED <<docker, mine>>
    <3>1. OwnersApart(t)'
      BY <2>1, <2>2 DEF OwnersApart, Working
    <3>. QED BY <2>1, <2>2, <3>1 DEF NoneAbsent, LoopProgress, TiersAgree, Pausing, Working, Are
  <2>3. ASSUME NEW c \in Containers, docker[c] = "absent", docker' = [docker EXCEPT ![c] = "running"],
               mine' = [mine EXCEPT ![t] = @ \union {c}]
        PROVE  OwnersApart(t)' /\ NoneAbsent(t)' /\ LoopProgress(t)' /\ TiersAgree(t)'
    <3>1. /\ \A n \in Templates : c \notin runtimes[n].cids
          /\ mine'[t] = mine[t] \union {c}
          /\ docker'[c] = "running" /\ \A d \in Containers \ {c} : docker'[d] = docker[d]
      BY <1>0, <2>3 DEF NoneAbsent
    <3>2. OwnersApart(t)'
      BY <2>1, <3>1 DEF OwnersApart, Working
    <3>3. NoneAbsent(t)'
      BY <1>0, <1>r, <2>1, <3>1 DEF NoneAbsent
    <3>4. LoopProgress(t)'
      BY <1>0, <2>1, <3>1 DEF LoopProgress, Working, Are
    <3>5. TiersAgree(t)'
      BY <1>r, <2>1, <3>1 DEF TiersAgree, Pausing, Working, Are
    <3>. QED BY <3>2, <3>3, <3>4, <3>5
  <2>. QED BY <1>3, <2>2, <2>3 DEF Start
<1>4. ASSUME Register(t)
      PROVE  OwnersApart(t)' /\ NoneAbsent(t)' /\ LoopProgress(t)' /\ TiersAgree(t)'
  <2>1. /\ pc[t] = "register" /\ pc'[t] = "idle" /\ docker' = docker /\ mine'[t] = {}
        /\ want[t] \in Templates
    BY <1>0, <1>4 DEF Register, InsertHot, Finish, Goto, TypeOK
  <2>2. /\ \A n \in Templates : n # want[t] => runtimes'[n] = runtimes[n]
        /\ runtimes'[want[t]].tier = "Hot" /\ runtimes'[want[t]].cids = mine[t]
    BY <1>0, <1>4, <2>1 DEF Register, InsertHot
  <2>3. OwnersApart(t)'
    BY <2>1, <2>2 DEF OwnersApart, Working
  <2>4. NoneAbsent(t)'
    BY <2>1, <2>2 DEF NoneAbsent
  <2>5. LoopProgress(t)'
    BY <2>1 DEF LoopProgress, Working
  <2>6. TiersAgree(t)'
    BY <2>1, <2>2 DEF TiersAgree, LoopProgress, Pausing, Working, Are
  <2>. QED BY <2>3, <2>4, <2>5, <2>6
<1>. QED BY <1>1, <1>2, <1>3, <1>4

LEMMA DockerInvStep ==
  ASSUME Sequential, ~ Cancellable, ~ Faulty, TypeOK, SeqInv, DockerInv, [Next]_vars
  PROVE  DockerInv'
<1>1. CASE UNCHANGED vars
  BY <1>1 DEF vars, DockerInv, OwnersApart, NoneAbsent, LoopProgress, TiersAgree, Pausing, Working, Are
<1>2. ASSUME NEW t \in Tasks,
             \/ \E n \in Templates : AcquireHot(t, n) \/ AcquireSlow(t, n)
             \/ Recheck(t)
             \/ Step(t)
      PROVE  OwnersApart(t)' /\ NoneAbsent(t)' /\ LoopProgress(t)' /\ TiersAgree(t)'
  <2>1. SeqHandler(t) /\ OwnersApart(t) /\ NoneAbsent(t) /\ LoopProgress(t) /\ TiersAgree(t)
    BY DEF SeqInv, DockerInv
  <2>2. ~ Reinsert(t)
    BY <2>1 DEF SeqHandler, Reinsert
  <2>. QED BY <1>2, <2>1, <2>2, DockerLooks, DockerLoops, DockerMoves DEF Step
<1>3. ASSUME NEW t \in Tasks,
             OwnersApart(t)' /\ NoneAbsent(t)' /\ LoopProgress(t)' /\ TiersAgree(t)'
      PROVE  DockerInv'
  BY <1>3 DEF DockerInv, Sequential
<1>4. \A t \in Tasks : ~ Cancel(t)
  BY DEF Cancel
<1>. QED BY <1>1, <1>2, <1>3, <1>4 DEF Next

LEMMA SequentialDocker ==
  ASSUME Sequential, ~ Cancellable, ~ Faulty
  PROVE  Spec => []DockerInv
<1>1. Init => DockerInv
  BY DEF Init, Cold, DockerInv, OwnersApart, NoneAbsent, LoopProgress, TiersAgree, Pausing, Working, Are
<1>2. TypeOK /\ SeqInv /\ DockerInv /\ [Next]_vars => DockerInv'
  BY DockerInvStep
<1>. QED BY <1>1, <1>2, TypeCorrect, SeqInvHolds, PTL DEF Spec

\* With requests one at a time, none dropped, and Docker calls that succeed,
\* whenever no request is inside acquire the containers of Hot templates run and
\* those of Warm templates are paused (the tiers of RegistryState.runtimes), in
\* every instance, evictions and failed starts included.
THEOREM SequentialTiersMatchDocker ==
  ASSUME Sequential, ~ Cancellable, ~ Faulty
  PROVE  Spec => []TiersMatchDocker
<1>1. TypeOK /\ DockerInv => TiersMatchDocker
  <2>. SUFFICES ASSUME TypeOK, DockerInv, Quiescent, NEW n \in Templates, NEW c \in runtimes[n].cids
                PROVE  docker[c] \in {"removed", IF runtimes[n].tier = "Hot" THEN "running" ELSE "paused"}
    BY DEF TiersMatchDocker
  <2>1. PICK t \in Tasks : pc[t] = "idle" /\ OwnersApart(t) /\ TiersAgree(t)
    BY DEF Sequential, Quiescent, DockerInv
  <2>2. runtimes[n].tier \in {"Cold", "Hot", "Warm"}
    BY DEF TypeOK, Runtime, Tier
  <2>. QED BY <2>1, <2>2 DEF OwnersApart, TiersAgree, Pausing, Working, Are
<1>. QED BY <1>1, TypeCorrect, SequentialDocker, PTL

\* Every container that exists is in an entry, in the handler's hands, or next
\* to be removed; and a rollback has removed what it is done with.
Alive(c) == docker[c] \in {"running", "paused"}

Accounted(t) ==
  /\ \A c \in Containers :
       Alive(c) =>
         \/ \E n \in Templates : c \in runtimes[n].cids
         \/ c \in mine[t]
         \/ pc[t] = "remove" /\ c \in todo[t]
  /\ pc[t] = "rollback" =>
       todo[t] \subseteq mine[t] /\ \A c \in mine[t] \ todo[t] : docker[c] = "removed"

LEMMA AccountedStep ==
  ASSUME TypeOK, ~ Faulty, ~ Cancellable, NEW t \in Tasks, SeqHandler(t),
         OwnersApart(t), NoneAbsent(t), LoopProgress(t), Accounted(t),
         \/ \E n \in Templates : AcquireHot(t, n) \/ AcquireSlow(t, n)
         \/ Recheck(t)
         \/ Step(t)
  PROVE  Accounted(t)'
<1>0. /\ pc \in [Tasks -> PC] /\ mine \in [Tasks -> SUBSET Containers]
      /\ theirs \in [Tasks -> SUBSET Containers] /\ todo \in [Tasks -> SUBSET Containers]
      /\ runtimes \in [Templates -> Runtime] /\ docker \in [Containers -> ContainerState]
  BY DEF TypeOK
<1>1. ASSUME UNCHANGED <<runtimes, docker>>, pc[t] # "remove", pc'[t] # "rollback", mine[t] \subseteq mine'[t]
      PROVE  Accounted(t)'
  BY <1>1 DEF Accounted, Alive
<1>2. ASSUME NEW n \in Templates, AcquireHot(t, n) \/ AcquireSlow(t, n)
      PROVE  Accounted(t)'
  BY <1>0, <1>1, <1>2 DEF AcquireHot, AcquireSlow, Goto, locals
<1>3. ASSUME Recheck(t)
      PROVE  Accounted(t)'
  <2>1. UNCHANGED <<runtimes, docker>> /\ pc[t] = "lock" /\ mine[t] = {}
    BY <1>3 DEF Recheck, OwnersApart, Working
  <2>2. pc'[t] # "rollback"
    BY <1>0, <1>3 DEF Recheck, Goto, Finish
  <2>. QED BY <1>1, <2>1, <2>2
<1>4. ASSUME EvictHot(t) \/ TakeVictim(t) \/ EvictWarm(t)
      PROVE  Accounted(t)'
  <2>1. UNCHANGED <<runtimes, docker, mine>> /\ pc[t] \in {"evictHot", "take", "evictWarm"}
    BY <1>4 DEF EvictHot, TakeVictim, EvictWarm
  <2>2. pc'[t] # "rollback"
    BY <1>0, <1>4 DEF EvictHot, TakeVictim, EvictWarm, Goto
  <2>. QED BY <1>1, <2>1, <2>2
<1>5. ASSUME Pause(t) \/ Unpause(t)
      PROVE  Accounted(t)'
  <2>1. /\ UNCHANGED <<runtimes, mine>> /\ pc[t] \in {"pause", "unpause"}
        /\ pc'[t] \notin {"rollback"}
    BY <1>0, <1>5 DEF Pause, Unpause, Goto
  <2>2. \A c \in Containers : docker'[c] # docker[c] => Alive(c)
    BY <1>5, <1>0 DEF Pause, Unpause, ForEach, DockerCall, Alive
  <2>. QED BY <2>1, <2>2 DEF Accounted, Alive
<1>6. ASSUME Remove_(t)
      PROVE  Accounted(t)'
  <2>1. UNCHANGED <<runtimes, mine>> /\ pc[t] = "remove"
    BY <1>6 DEF Remove_
  <2>2. CASE ForEach(t, {"running", "paused"}, "removed") /\ pc' = pc
    <3>1. PICK c \in todo[t] :
            /\ todo'[t] = todo[t] \ {c}
            /\ \A d \in Containers \ {c} : docker'[d] = docker[d]
            /\ docker[c] \in {"running", "paused"} => docker'[c] = "removed"
            /\ docker[c] \notin {"running", "paused"} => docker'[c] = docker[c]
      BY <2>2, LoopMoves
    <3>. QED BY <1>0, <2>1, <2>2, <3>1 DEF Accounted, Alive
  <2>3. CASE todo[t] = {} /\ Goto(t, "evictWarm") /\ UNCHANGED docker
    <3>1. pc'[t] = "evictWarm"
      BY <1>0, <2>3 DEF Goto
    <3>. QED BY <2>1, <2>3, <3>1 DEF Accounted, Alive
  <2>4. ASSUME NEW c \in todo[t], docker[c] = "paused", docker' = [docker EXCEPT ![c] = "running"],
               UNCHANGED <<pc, todo>>
        PROVE  Accounted(t)'
    <3>1. c \in Containers /\ docker \in [Containers -> ContainerState]
      BY <2>4 DEF TypeOK
    <3>2. \A d \in Containers : Alive(d)' => Alive(d)
      BY <2>4, <3>1 DEF Alive
    <3>. QED BY <2>1, <2>4, <3>2 DEF Accounted
  <2>. QED BY <1>6, <2>2, <2>3, <2>4 DEF Remove_
<1>7. ASSUME Rollback(t)
      PROVE  Accounted(t)'
  <2>1. UNCHANGED runtimes /\ pc[t] = "rollback"
    BY <1>7 DEF Rollback
  <2>2. CASE ForEach(t, {"running", "paused"}, "removed") /\ UNCHANGED <<pc, mine>>
    <3>1. PICK c \in todo[t] :
            /\ todo'[t] = todo[t] \ {c}
            /\ \A d \in Containers \ {c} : docker'[d] = docker[d]
            /\ docker[c] \in {"running", "paused"} => docker'[c] = "removed"
            /\ docker[c] \notin {"running", "paused"} => docker'[c] = docker[c]
      BY <2>2, LoopMoves
    <3>2. c \in mine[t] /\ docker'[c] = "removed"
      BY <1>0, <2>1, <3>1 DEF Accounted, NoneAbsent, ContainerState
    <3>. QED BY <1>0, <2>1, <2>2, <3>1, <3>2 DEF Accounted, Alive
  <2>3. CASE todo[t] = {} /\ Finish(t) /\ UNCHANGED docker
    <3>1. pc'[t] = "idle"
      BY <1>0, <2>3 DEF Finish, Goto
    <3>2. \A c \in mine[t] : ~ Alive(c)
      BY <2>1, <2>3 DEF Accounted, Alive
    <3>. QED BY <2>1, <2>3, <3>1, <3>2 DEF Accounted, Alive
  <2>. QED BY <1>7, <2>2, <2>3 DEF Rollback
<1>8. ASSUME MarkWarm(t)
      PROVE  Accounted(t)'
  <2>1. pc[t] = "markWarm" /\ pc'[t] = "evictWarm" /\ UNCHANGED <<docker, mine>> /\ victim[t] \in Templates
    BY <1>0, <1>8 DEF MarkWarm, Goto, TypeOK
  <2>2. \A n \in Templates : runtimes'[n].cids = runtimes[n].cids
    BY <1>0, <1>8, <2>1 DEF MarkWarm, LoopProgress
  <2>. QED BY <2>1, <2>2 DEF Accounted, Alive
<1>9. ASSUME DropWarm(t)
      PROVE  Accounted(t)'
  <2>1. /\ pc[t] = "dropWarm" /\ pc'[t] = "remove" /\ UNCHANGED <<docker, mine>>
        /\ todo'[t] = runtimes[victim[t]].cids
    BY <1>0, <1>9 DEF DropWarm, Goto
  <2>2. \A n \in Templates : n # victim[t] => runtimes'[n] = runtimes[n]
    BY <1>0, <1>9 DEF DropWarm
  <2>. QED BY <2>1, <2>2 DEF Accounted, Alive
<1>10. ASSUME Start(t)
       PROVE  Accounted(t)'
  <2>1. UNCHANGED runtimes /\ pc[t] = "start"
    BY <1>10 DEF Start
  <2>2. CASE docker' = docker /\ mine' = mine
    <3>1. pc'[t] = "rollback" => todo'[t] = mine[t]
      BY <1>0, <1>10, <2>2 DEF Start, Goto
    <3>. QED BY <2>1, <2>2, <3>1 DEF Accounted, Alive
  <2>3. ASSUME NEW c \in Containers, docker' = [docker EXCEPT ![c] = "running"],
               mine' = [mine EXCEPT ![t] = @ \union {c}], pc' = pc
        PROVE  Accounted(t)'
    <3>1. mine'[t] = mine[t] \union {c} /\ \A d \in Containers \ {c} : docker'[d] = docker[d]
      BY <1>0, <2>3
    <3>. QED BY <2>1, <2>3, <3>1 DEF Accounted, Alive
  <2>. QED BY <1>10, <2>2, <2>3 DEF Start
<1>11. ASSUME Register(t)
       PROVE  Accounted(t)'
  <2>1. /\ pc[t] = "register" /\ pc'[t] = "idle" /\ docker' = docker /\ want[t] \in Templates
    BY <1>0, <1>11 DEF Register, InsertHot, Finish, Goto, TypeOK
  <2>2. /\ \A n \in Templates : n # want[t] => runtimes'[n] = runtimes[n]
        /\ runtimes'[want[t]].cids = mine[t]
    BY <1>0, <1>11, <2>1 DEF Register, InsertHot
  <2>3. runtimes[want[t]].cids \subseteq mine[t]
    BY <2>1 DEF OwnersApart, Working
  <2>. QED BY <2>1, <2>2, <2>3 DEF Accounted, Alive
<1>12. ~ Reinsert(t)
  BY DEF SeqHandler, Reinsert
<1>. QED BY <1>2, <1>3, <1>4, <1>5, <1>6, <1>7, <1>8, <1>9, <1>10, <1>11, <1>12 DEF Step

\* With requests one at a time, none dropped, and Docker calls that succeed, no
\* container is forgotten: through demotions, evictions, removals and failed
\* starts, each one that exists is in the map or in the handler's hands.
THEOREM SequentialNoLeak ==
  ASSUME Sequential, ~ Cancellable, ~ Faulty
  PROVE  Spec => []NoLeak
<1>. DEFINE AllAccounted == \A t \in Tasks : Accounted(t)
<1>1. Init => AllAccounted
  BY DEF Init, Accounted, Alive
<1>2. TypeOK /\ SeqInv /\ DockerInv /\ AllAccounted /\ [Next]_vars => AllAccounted'
  <2>. SUFFICES ASSUME TypeOK, SeqInv, DockerInv, AllAccounted, [Next]_vars
                PROVE  AllAccounted'
    OBVIOUS
  <2>1. CASE UNCHANGED vars
    BY <2>1 DEF vars, Accounted, Alive
  <2>2. ASSUME NEW t \in Tasks,
               \/ \E n \in Templates : AcquireHot(t, n) \/ AcquireSlow(t, n)
               \/ Recheck(t)
               \/ Step(t)
        PROVE  Accounted(t)'
    <3>1. SeqHandler(t) /\ OwnersApart(t) /\ NoneAbsent(t) /\ LoopProgress(t) /\ Accounted(t)
      BY DEF SeqInv, DockerInv
    <3>. QED BY <2>2, <3>1, AccountedStep
  <2>3. ASSUME NEW t \in Tasks, Accounted(t)'
        PROVE  AllAccounted'
    BY <2>3 DEF Sequential
  <2>4. \A t \in Tasks : ~ Cancel(t)
    BY DEF Cancel
  <2>. QED BY <2>1, <2>2, <2>3, <2>4 DEF Next
<1>3. AllAccounted => NoLeak
  <2>. SUFFICES ASSUME AllAccounted, NEW c \in Containers, Alive(c)
                PROVE  c \in Held
    BY DEF NoLeak, Alive
  <2>1. PICK t \in Tasks : Accounted(t)
    BY DEF Sequential
  <2>. QED BY <2>1 DEF Accounted, Held
<1>4. Spec => []DockerInv
  BY SequentialDocker
<1>. HIDE DEF AllAccounted
<1>. QED BY <1>1, <1>2, <1>3, <1>4, TypeCorrect, SeqInvHolds, PTL DEF Spec

\* What a lone handler demotes has a runtime: it looked, and nobody else acts.
DemotesWhatIsThere ==
  \A t \in Tasks : pc[t] \in {"pause", "markWarm"} => runtimes[victim[t]].tier # "Cold"

LEMMA DemotesWhatIsThereStep ==
  ASSUME Sequential, TypeOK, DemotesWhatIsThere, [Next]_vars
  PROVE  DemotesWhatIsThere'
<1>. DEFINE There(t) == pc[t] \in {"pause", "markWarm"} => runtimes[victim[t]].tier # "Cold"
<1>0. pc \in [Tasks -> PC] /\ \A t \in Tasks : There(t)
  BY DEF TypeOK, DemotesWhatIsThere
<1>1. CASE UNCHANGED vars
  BY <1>1 DEF vars, DemotesWhatIsThere
<1>2. ASSUME NEW t \in Tasks, NEW n \in Templates, AcquireHot(t, n) \/ AcquireSlow(t, n)
      PROVE  There(t)'
  BY <1>0, <1>2 DEF AcquireHot, AcquireSlow, Goto, locals
<1>3. ASSUME NEW t \in Tasks, TakeVictim(t) \/ Pause(t)
      PROVE  There(t)'
  BY <1>0, <1>3 DEF TakeVictim, Pause, Goto
<1>4. ASSUME NEW t \in Tasks,
             Recheck(t) \/ Cancel(t) \/ Reinsert(t) \/ Register(t) \/ Rollback(t) \/ Start(t)
      PROVE  There(t)'
  <2>1. pc'[t] \notin {"pause", "markWarm"}
    BY <1>0, <1>4 DEF Recheck, Cancel, Reinsert, Register, InsertHot, Rollback, Start, Finish, Goto
  <2>. QED BY <2>1
<1>5. ASSUME NEW t \in Tasks,
             Unpause(t) \/ EvictHot(t) \/ MarkWarm(t) \/ EvictWarm(t) \/ DropWarm(t) \/ Remove_(t)
      PROVE  There(t)'
  <2>1. pc'[t] \notin {"pause", "markWarm"}
    BY <1>0, <1>5 DEF Unpause, EvictHot, MarkWarm, EvictWarm, DropWarm, Remove_, Goto
  <2>. QED BY <2>1
<1>6. ASSUME NEW t \in Tasks, There(t)'
      PROVE  DemotesWhatIsThere'
  BY <1>6 DEF Sequential, DemotesWhatIsThere
<1>. HIDE DEF There
<1>. QED BY <1>1, <1>2, <1>3, <1>4, <1>5, <1>6 DEF Next, Step

\* With requests one at a time the LRU order lists exactly the templates with a
\* runtime, whatever the Warm limit, failing Docker calls and dropped requests
\* included (touch_lru_locked and the retain in evict_warm_to_cold_if_needed).
THEOREM SequentialOrderIsExact ==
  ASSUME Sequential
  PROVE  Spec => []LruMatchesRuntimes
<1>1. Init => LruMatchesRuntimes /\ DemotesWhatIsThere
  BY DEF Init, LruMatchesRuntimes, DemotesWhatIsThere, Cold
<1>2. TypeOK /\ LruNoDuplicates /\ LruMatchesRuntimes /\ DemotesWhatIsThere /\ [Next]_vars
        => (LruMatchesRuntimes /\ DemotesWhatIsThere)'
  <2>1. ASSUME DemotesWhatIsThere
        PROVE  \A t \in Tasks : MarkWarm(t) => runtimes[victim[t]].tier # "Cold"
    BY <2>1 DEF DemotesWhatIsThere, MarkWarm
  <2>. QED BY <2>1, OrderStaysExact, DemotesWhatIsThereStep
<1>. QED BY <1>1, <1>2, TypeCorrect, NeverTwiceInOrder, PTL DEF Spec

----------------------------------------------------------------------------
(***************************************************************************)
(* Every instance: whatever handlers, faults and dropped requests do, a    *)
(* container belongs to one template.  The map may lose a container or get *)
(* it back from a stale clone, but a clone is put back under the name it   *)
(* was taken from.                                                         *)
(***************************************************************************)

\* A handler's copy that puts c under n when it is written back, and all there
\* is that has c under n.
Copies(t, c, n) == (want[t] = n /\ c \in mine[t]) \/ (victim[t] = n /\ c \in theirs[t])
Claims(c, n) == c \in runtimes[n].cids \/ \E t \in Tasks : Copies(t, c, n)

\* A container is claimed for one template, and none before it is started.  A
\* handler changes the name a copy is for only when the copy is empty.
ClaimInv ==
  /\ \A c \in Containers, m, n \in Templates : Claims(c, m) /\ Claims(c, n) => m = n
  /\ \A c \in Containers, n \in Templates : Claims(c, n) => docker[c] # "absent"
  /\ \A t \in Tasks : theirs[t] # {} => pc[t] \in {"pause", "markWarm"}
  /\ \A t \in Tasks : pc[t] = "idle" => mine[t] = {}

\* A step of handler t.
Moves(t) ==
  (\E n \in Templates : AcquireHot(t, n) \/ AcquireSlow(t, n)) \/ Recheck(t) \/ Step(t) \/ Cancel(t)

\* That, for one handler.
CopiesFree(t) ==
  /\ theirs[t] # {} => pc[t] \in {"pause", "markWarm"}
  /\ pc[t] = "idle" => mine[t] = {}

\* A clone is dropped with the name it is for.
LEMMA CopiesFreeStep ==
  ASSUME TypeOK, NEW t \in Tasks, CopiesFree(t), Moves(t)
  PROVE  CopiesFree(t)'
<1>. USE DEF CopiesFree, Goto
<1>0. /\ pc \in [Tasks -> PC] /\ mine \in [Tasks -> SUBSET Containers]
      /\ theirs \in [Tasks -> SUBSET Containers]
  BY DEF TypeOK
<1>1. Finish(t) => CopiesFree(t)'
  BY <1>0 DEF Finish
<1>2. \A n \in Templates : AcquireHot(t, n) \/ AcquireSlow(t, n) => CopiesFree(t)'
  BY <1>0 DEF AcquireHot, AcquireSlow, locals
<1>3. Recheck(t) => CopiesFree(t)'
  BY <1>0, <1>1 DEF Recheck, locals
<1>4. Reinsert(t) \/ Register(t) \/ Cancel(t) => CopiesFree(t)'
  BY <1>1 DEF Reinsert, Register, InsertHot, Cancel
<1>5. Unpause(t) \/ Pause(t) \/ Remove_(t) => CopiesFree(t)'
  BY <1>0 DEF Unpause, Pause, Remove_
<1>6. EvictHot(t) \/ EvictWarm(t) => CopiesFree(t)'
  BY <1>0 DEF EvictHot, EvictWarm
<1>7. TakeVictim(t) \/ MarkWarm(t) \/ DropWarm(t) => CopiesFree(t)'
  BY <1>0 DEF TakeVictim, MarkWarm, DropWarm
<1>8. Start(t) \/ Rollback(t) => CopiesFree(t)'
  BY <1>0, <1>1 DEF Start, Rollback
<1>. QED
  BY <1>2, <1>3, <1>4, <1>5, <1>6, <1>7, <1>8 DEF Moves, Step

\* What a step leaves of a handler's copies and of the map was there before,
\* under the same name, unless the step starts the container.
Inherited(t, c, n) ==
  c \in runtimes'[n].cids \/ Copies(t, c, n)' => c \in runtimes[n].cids \/ Copies(t, c, n)

\* The steps of one handler, one by one.
LEMMA NothingNew ==
  ASSUME TypeOK, NEW t \in Tasks, CopiesFree(t), Moves(t),
         NEW c \in Containers, NEW n \in Templates, ~ StartsOne(t, c)
  PROVE  Inherited(t, c, n)
<1>. USE DEF Inherited, Copies, Goto
<1>0. /\ runtimes \in [Templates -> Runtime] /\ pc \in [Tasks -> PC]
      /\ want \in [Tasks -> Templates \union {NoTemplate}]
      /\ victim \in [Tasks -> Templates \union {NoTemplate}]
      /\ mine \in [Tasks -> SUBSET Containers] /\ theirs \in [Tasks -> SUBSET Containers]
  BY DEF TypeOK
<1>1. Finish(t) /\ runtimes' = runtimes => Inherited(t, c, n)
  BY <1>0 DEF Finish
<1>2. \A k \in Templates : AcquireHot(t, k) \/ AcquireSlow(t, k) => Inherited(t, c, n)
  BY <1>0 DEF AcquireHot, AcquireSlow, locals, CopiesFree
<1>3. Recheck(t) => Inherited(t, c, n)
  BY <1>0, <1>1 DEF Recheck, locals
<1>4. InsertHot(t) => Inherited(t, c, n)
  BY <1>0 DEF InsertHot, Finish, Runtime
<1>5. Unpause(t) \/ Pause(t) \/ Remove_(t) => Inherited(t, c, n)
  BY <1>0 DEF Unpause, Pause, Remove_
<1>6. EvictHot(t) => Inherited(t, c, n)
  BY <1>0 DEF EvictHot, CopiesFree
<1>7. EvictWarm(t) => Inherited(t, c, n)
  BY <1>0 DEF EvictWarm, CopiesFree
<1>8. TakeVictim(t) => Inherited(t, c, n)
  BY <1>0 DEF TakeVictim
<1>9. MarkWarm(t) => Inherited(t, c, n)
  BY <1>0 DEF MarkWarm, Runtime
<1>10. DropWarm(t) => Inherited(t, c, n)
  BY <1>0 DEF DropWarm, Cold
<1>11. Start(t) => Inherited(t, c, n)
  <2>. SUFFICES ASSUME Start(t)
                PROVE  Inherited(t, c, n)
    OBVIOUS
  <2>1. UNCHANGED <<runtimes, want, victim, theirs>>
    BY DEF Start
  <2>2. c \in mine'[t] => c \in mine[t]
    BY <1>0 DEF Start, StartsOne
  <2>. QED BY <2>1, <2>2
<1>12. Rollback(t) => Inherited(t, c, n)
  BY <1>1 DEF Rollback
<1>13. Cancel(t) => Inherited(t, c, n)
  BY <1>1 DEF Cancel
<1>. QED
  BY <1>2, <1>3, <1>4, <1>5, <1>6, <1>7, <1>8, <1>9, <1>10, <1>11, <1>12, <1>13
     DEF Moves, Step, Reinsert, Register

\* A claim after a step is one before it, or the step starts the container for
\* the template it is claimed for.
LEMMA ClaimsStep ==
  ASSUME TypeOK, ClaimInv, NEW t \in Tasks, Moves(t),
         NEW c \in Containers, NEW n \in Templates, Claims(c, n)'
  PROVE  Claims(c, n) \/ (StartsOne(t, c) /\ n = want[t] /\ docker[c] = "absent")
<1>1. \A u \in Tasks \ {t} : Copies(u, c, n)' => Copies(u, c, n)
  <2>. SUFFICES ASSUME NEW u \in Tasks, u # t
                PROVE  Copies(u, c, n)' => Copies(u, c, n)
    OBVIOUS
  <2>1. Stays(u)
    BY OthersStay DEF Moves
  <2>. QED BY <2>1 DEF Stays, Copies
<1>2. CASE ~ StartsOne(t, c)
  <2>1. Inherited(t, c, n)
    BY <1>2, NothingNew DEF ClaimInv, CopiesFree
  <2>. QED BY <1>1, <2>1 DEF Inherited, Claims
<1>3. CASE StartsOne(t, c)
  <2>1. UNCHANGED <<runtimes, want, victim, theirs>>
    BY <1>3 DEF StartsOne
  <2>2. docker[c] = "absent"
    BY <1>3 DEF StartsOne
  <2>3. Copies(t, c, n)' => Copies(t, c, n) \/ n = want[t]
    BY <2>1 DEF Copies
  <2>. QED BY <1>1, <1>3, <2>1, <2>2, <2>3 DEF Claims
<1>. QED BY <1>2, <1>3

\* A container that is started was nobody's; the others keep their template.
LEMMA ClaimInvStep ==
  ASSUME TypeOK, ClaimInv, [Next]_vars
  PROVE  ClaimInv'
<1>1. CASE UNCHANGED vars
  BY <1>1 DEF vars, ClaimInv, Claims, Copies
<1>2. ASSUME NEW t \in Tasks, Moves(t)
      PROVE  ClaimInv'
  <2>1. ASSUME NEW c \in Containers, NEW m \in Templates, NEW n \in Templates,
               Claims(c, m)', Claims(c, n)'
        PROVE  m = n
    BY <1>2, <2>1, ClaimsStep DEF ClaimInv
  <2>2. ASSUME NEW c \in Containers, NEW n \in Templates, Claims(c, n)'
        PROVE  docker'[c] # "absent"
    <3>1. CASE StartsOne(t, c)
      BY <3>1 DEF StartsOne, TypeOK
    <3>2. CASE ~ StartsOne(t, c)
      <4>1. docker[c] # "absent"
        BY <1>2, <2>2, <3>2, ClaimsStep DEF ClaimInv
      <4>2. docker'[c] # docker[c] => docker'[c] # "absent"
        <5>1. ASSUME NEW u \in Tasks
              PROVE  ~ StartsOne(u, c)
          BY <4>1 DEF StartsOne
        <5>. QED BY <5>1, ContainerLife
      <4>. QED BY <4>1, <4>2
    <3>. QED BY <3>1, <3>2
  <2>3. ASSUME NEW u \in Tasks
        PROVE  CopiesFree(u)'
    <3>1. CASE u = t
      BY <1>2, <3>1, CopiesFreeStep DEF ClaimInv, CopiesFree
    <3>2. CASE u # t
      <4>1. Stays(u)
        BY <1>2, <3>2, OthersStay DEF Moves
      <4>. QED BY <4>1 DEF Stays, CopiesFree, ClaimInv
    <3>. QED BY <3>1, <3>2
  <2>. QED BY <2>1, <2>2, <2>3 DEF ClaimInv, CopiesFree
<1>. QED BY <1>1, <1>2 DEF Next, Moves

\* For any number of handlers and any limits, Docker calls that fail and requests
\* that are dropped included: a container started for one template is never
\* registered for another one (acquire, evict_hot_to_warm_if_needed_excluding).
THEOREM ContainersServeOneTemplate == Spec => ServesOneTemplate
<1>1. Init => ClaimInv
  BY DEF Init, ClaimInv, Claims, Copies, Cold
<1>2. TypeOK /\ ClaimInv /\ [Next]_vars => ClaimInv'
  BY ClaimInvStep
<1>3. ASSUME TypeOK, ClaimInv, [Next]_vars, NEW m \in Templates, NEW n \in Templates, m # n
      PROVE  runtimes[m].cids \cap runtimes'[n].cids = {}
  <2>. SUFFICES ASSUME NEW c \in runtimes[m].cids, c \in runtimes'[n].cids
                PROVE  FALSE
    OBVIOUS
  <2>1. c \in Containers /\ Claims(c, m) /\ Claims(c, n)'
    BY <1>3 DEF TypeOK, Runtime, Claims
  <2>2. docker[c] # "absent" /\ ~ Claims(c, n)
    BY <1>3, <2>1 DEF ClaimInv
  <2>3. CASE UNCHANGED vars
    BY <2>1, <2>2, <2>3 DEF vars, Claims, Copies
  <2>4. ASSUME NEW t \in Tasks, Moves(t)
        PROVE  FALSE
    BY <1>3, <2>1, <2>2, <2>4, ClaimsStep
  <2>. QED BY <1>3, <2>3, <2>4 DEF Next, Moves
<1>4. TypeOK /\ ClaimInv /\ [Next]_vars =>
        [\A m, n \in Templates : m # n => runtimes[m].cids \cap runtimes'[n].cids = {}]_vars
  BY <1>3
<1>. QED BY <1>1, <1>2, <1>4, TypeCorrect, PTL DEF Spec, ServesOneTemplate
=============================================================================
