---------------------- MODULE SandboxLifecycleProofs ----------------------
(***************************************************************************)
(* Proofs about SandboxLifecycle for any number of handlers, sandboxes,    *)
(* timeouts and restarts.  What map, file and session of a sandbox have to *)
(* do with each other is a matter of where the one actor at work on it is, *)
(* as long as there was never more than one.  At the end, ShardGuards.     *)
(***************************************************************************)
EXTENDS SandboxLifecycle, ShardGuards, FiniteSetTheorems, TLAPS

\* Nobody is at work on s.
Idle(s) == s \notin doomed /\ \A a \in Actors : sid[a] # s

Agree(s) == disk[s] = mem[s] \/ (disk[s] = Garbled /\ mem[s] = NoRecord)

\* What a handler's position says about its sandbox.
AtWork(s) ==
  \A h \in Handlers : sid[h] = s =>
    /\ pc[h] \in {"mount", "undo"} => mem[s] = NoRecord /\ disk[s] = NoRecord
    /\ pc[h] = "insert" => Agree(s)
    /\ pc[h] \in {"open", "write"} => mem[s] = rec[h]
    /\ pc[h] = "write" => disk[s] = Garbled
    /\ pc[h] \in {"forget", "kill"} => mem[s] = NoRecord
    /\ pc[h] = "kill" => disk[s] = NoRecord
    /\ s \in killed => pc[h] \in {"forget", "kill"}

\* What the sweeper's list says about a sandbox.
OnList(s) ==
  /\ s \in doomed /\ sid[Sweeper] # s => Agree(s) /\ Expired(s)
  /\ sid[Sweeper] = s => mem[s] = NoRecord

Calm(s) ==
  /\ Idle(s) => Agree(s)
  /\ AtWork(s)
  /\ OnList(s)
  /\ s \in killed => mem[s] = NoRecord /\ Loaded(disk[s]) = NoRecord
  /\ s \in opened \ (killed \union leaked) => mem[s] # NoRecord \/ ~Idle(s)

\* Holds of every sandbox, raced or not.
Basic ==
  /\ TypeOK
  /\ \A a \in Actors : pc[a] = "idle" <=> sid[a] = NoSid
  /\ \A h \in Handlers : pc[h] # "sweepForget"
  /\ pc[Sweeper] \in {"idle", "sweepForget"}
  /\ pc[Sweeper] = "sweepForget" => sid[Sweeper] \in doomed \intersect leaked
  /\ \A a \in Actors : pc[a] \in {"insert", "open", "write"} => rec[a] \in Record
  /\ \A a \in Actors : sid[a] \in Sids => sid[a] \in opened
  /\ \A s \in Sids : mem[s] # NoRecord \/ disk[s] # NoRecord => s \in opened
  /\ killed \subseteq opened
  /\ doomed \subseteq opened
  /\ Racing \subseteq raced

Inv == Basic /\ \A s \in Sids \ raced : Calm(s)

----------------------------------------------------------------------------
\* The three kinds of content differ.
LEMMA Contents ==
  /\ NoRecord \notin Record /\ Garbled \notin Record /\ NoRecord # Garbled
BY DEF Record, NoRecord, Garbled

\* The one actor at work on a sandbox that was never raced.
LEMMA Alone ==
  ASSUME Racing \subseteq raced, NEW s \in Sids \ raced, NEW a \in Actors, sid[a] = s
  PROVE  /\ \A b \in Actors \ {a} : sid[b] # s
         /\ s \in doomed => a = Sweeper
<1>1. a \in At(s)
  BY DEF At
<1>2. \A b \in At(s) : b = a
  BY <1>1 DEF Racing
<1>. QED BY <1>2 DEF At, Actors

\* The same after a step.
LEMMA AlonePrimed ==
  ASSUME Racing' \subseteq raced', NEW s \in Sids \ raced', NEW a \in Actors, sid'[a] = s
  PROVE  /\ \A b \in Actors \ {a} : sid'[b] # s
         /\ s \in doomed' => a = Sweeper
<1>1. a \in At(s)'
  BY DEF At
<1>2. \A b \in At(s)' : b = a
  BY <1>1 DEF Racing
<1>. QED BY <1>2 DEF At, Actors

\* No handler is at work on what the sweeper lists, if it is not raced.
LEMMA DoomedAlonePrimed ==
  ASSUME Racing' \subseteq raced', NEW s \in Sids \ raced', s \in doomed'
  PROVE  \A h \in Handlers : sid'[h] # s
<1>1. Sweeper \in At(s)'
  BY DEF At
<1>2. \A b \in At(s)' : b = Sweeper
  BY <1>1 DEF Racing
<1>. QED BY <1>2, LifecycleAssumption DEF At, Actors, LifecycleAssumption

\* What a change of position leaves of the actors' variables.
LEMMA BecomeFacts ==
  ASSUME TypeOK, NEW a \in Actors, NEW label \in PC, NEW s \in Sids \union {NoSid},
         NEW r \in Record \union {NoRecord}, Become(a, label, s, r)
  PROVE  /\ pc' \in [Actors -> PC] /\ pc'[a] = label
         /\ sid' \in [Actors -> Sids \union {NoSid}] /\ sid'[a] = s
         /\ rec' \in [Actors -> Record \union {NoRecord}] /\ rec'[a] = r
         /\ \A b \in Actors \ {a} : pc'[b] = pc[b] /\ sid'[b] = sid[b] /\ rec'[b] = rec[b]
BY DEF TypeOK, Become

\* A sandbox that a step passes by stays as it is.
LEMMA Elsewhere ==
  ASSUME Basic, NEW s \in Sids, Calm(s),
         mem'[s] = mem[s], disk'[s] = disk[s],
         now \in Nat, now' \in Nat, now <= now',
         s \in doomed' <=> s \in doomed,
         s \in opened' <=> s \in opened,
         s \in killed' <=> s \in killed,
         s \in leaked => s \in leaked',
         \A a \in Actors : sid'[a] = s <=> sid[a] = s,
         \A a \in Actors : sid[a] = s => pc'[a] = pc[a] /\ rec'[a] = rec[a]
  PROVE  Calm(s)'
<1>1. Agree(s)' <=> Agree(s)
  BY DEF Agree
<1>2. Idle(s)' <=> Idle(s)
  BY DEF Idle
<1>3. Expired(s) => Expired(s)'
  <2>1. mem[s] # NoRecord => mem[s].end \in Nat
    BY DEF Basic, TypeOK, Record
  <2>. QED BY <2>1 DEF Expired
<1>4. Sweeper \in Actors /\ Handlers \subseteq Actors
  BY DEF Actors
<1>5. AtWork(s)'
  BY <1>1, <1>4 DEF Calm, AtWork
<1>6. OnList(s)'
  BY <1>1, <1>3, <1>4 DEF Calm, OnList
<1>. QED BY <1>1, <1>2, <1>5, <1>6 DEF Calm

\* The step of a handler whose sandbox, before and after, is s, or none: what
\* remains to be shown is s itself.
LEMMA HandlerElsewhere ==
  ASSUME Inv, NEW h \in Handlers, NEW s \in Sids, sid[h] \in {s, NoSid}, sid'[h] \in {s, NoSid},
         \A b \in Actors \ {h} : pc'[b] = pc[b] /\ sid'[b] = sid[b] /\ rec'[b] = rec[b],
         \A r \in Sids \ {s} : /\ mem'[r] = mem[r] /\ disk'[r] = disk[r]
                               /\ r \in opened' <=> r \in opened
                               /\ r \in killed' <=> r \in killed
                               /\ r \in leaked => r \in leaked',
         UNCHANGED <<now, doomed>>, raced \subseteq raced',
         Basic', s \notin raced' => Calm(s)'
  PROVE  Inv'
<1>. SUFFICES ASSUME NEW r \in Sids \ raced'
              PROVE  Calm(r)'
  BY DEF Inv
<1>1. CASE r = s
  BY <1>1
<1>2. CASE r # s
  <2>1. h \in Actors /\ r # NoSid /\ now \in Nat
    BY LifecycleAssumption DEF Actors, LifecycleAssumption, Inv, Basic, TypeOK
  <2>2. sid[h] # r /\ sid'[h] # r
    BY <1>2, <2>1
  <2>3. Calm(r) /\ Basic
    BY DEF Inv
  <2>4. \A a \in Actors : sid'[a] = r <=> sid[a] = r
    BY <2>1, <2>2
  <2>5. \A a \in Actors : sid[a] = r => pc'[a] = pc[a] /\ rec'[a] = rec[a]
    BY <2>1, <2>2
  <2>6. now <= now' /\ now' \in Nat
    BY <2>1
  <2>. QED BY <1>2, <2>1, <2>3, <2>4, <2>5, <2>6, Elsewhere
<1>. QED BY <1>1, <1>2
----------------------------------------------------------------------------
(* The steps of the handlers, of the sweeper, of a restart and of time.     *)

\* A new session has no record, no file and nobody else at work.
LEMMA OpenSessionStep ==
  ASSUME Inv, NEW h \in Handlers, OpenSession(h), UNCHANGED crashes, raced' = raced \union Racing'
  PROVE  Inv'
<1>1. PICK s \in Sids \ opened : opened' = opened \union {s} /\ Become(h, "mount", s, NoRecord)
  BY DEF OpenSession
<1>2. /\ pc[h] = "idle" /\ sid[h] = NoSid /\ h \in Actors /\ h # Sweeper
      /\ UNCHANGED <<mem, disk, killed, now, doomed, leaked>>
  BY LifecycleAssumption DEF OpenSession, Inv, Basic, Actors, LifecycleAssumption
<1>3. /\ pc' \in [Actors -> PC] /\ pc'[h] = "mount"
      /\ sid' \in [Actors -> Sids \union {NoSid}] /\ sid'[h] = s
      /\ rec' \in [Actors -> Record \union {NoRecord}] /\ rec'[h] = NoRecord
      /\ \A b \in Actors \ {h} : pc'[b] = pc[b] /\ sid'[b] = sid[b] /\ rec'[b] = rec[b]
  BY <1>1, <1>2, BecomeFacts DEF Inv, Basic, PC
<1>4. TypeOK'
  BY <1>1, <1>2, <1>3 DEF Inv, Basic, TypeOK, Racing
<1>5. Basic'
  BY <1>1, <1>2, <1>3, <1>4, LifecycleAssumption DEF Inv, Basic, Actors, LifecycleAssumption
<1>6. mem[s] = NoRecord /\ disk[s] = NoRecord /\ s \notin killed /\ s \notin doomed
      /\ \A a \in Actors : sid[a] # s
  BY <1>1 DEF Inv, Basic
<1>7. Calm(s)'
  BY <1>2, <1>3, <1>6 DEF Calm, AtWork, OnList, Idle, Actors
<1>. QED BY <1>1, <1>2, <1>3, <1>5, <1>7, HandlerElsewhere

\* A session nobody was told of is a leak.
LEMMA AnswerLostStep ==
  ASSUME Inv, NEW h \in Handlers, AnswerLost(h), UNCHANGED crashes, raced' = raced \union Racing'
  PROVE  Inv'
<1>1. PICK s \in Sids \ opened : opened' = opened \union {s} /\ leaked' = leaked \union {s}
  BY DEF AnswerLost
<1>2. /\ sid[h] = NoSid
      /\ UNCHANGED <<mem, disk, killed, now, pc, sid, rec, doomed>>
  BY DEF AnswerLost, Inv, Basic, Actors, handler
<1>3. TypeOK'
  BY <1>1, <1>2 DEF Inv, Basic, TypeOK, Racing
<1>4. Basic'
  BY <1>1, <1>2, <1>3 DEF Inv, Basic
<1>5. mem[s] = NoRecord /\ disk[s] = NoRecord /\ s \notin killed /\ s \notin doomed
      /\ \A a \in Actors : sid[a] # s
  BY <1>1 DEF Inv, Basic
<1>6. Calm(s)'
  BY <1>1, <1>2, <1>5 DEF Calm, AtWork, OnList, Idle, Agree, Actors
<1>. QED BY <1>1, <1>2, <1>4, <1>6, HandlerElsewhere

\* A handler moves on with its sandbox.
LEMMA GoOn ==
  ASSUME Inv, NEW h \in Handlers, NEW s \in Sids, sid[h] = s,
         NEW label \in PC \ {"idle", "sweepForget"}, NEW r \in Record \union {NoRecord},
         Become(h, label, s, r), label \in {"insert", "open", "write"} => r \in Record,
         mem' \in [Sids -> Record \union {NoRecord}],
         disk' \in [Sids -> Record \union {NoRecord, Garbled}],
         \A t \in Sids \ {s} : mem'[t] = mem[t] /\ disk'[t] = disk[t],
         UNCHANGED <<opened, killed, leaked, now, doomed, crashes>>, raced' = raced \union Racing',
         s \notin raced =>
           /\ label = "undo" => mem'[s] = NoRecord /\ disk'[s] = NoRecord
           /\ label # "mount"
           /\ label = "insert" => mem'[s] = disk'[s]
           /\ label \in {"open", "write"} => mem'[s] = r
           /\ label = "write" => disk'[s] = Garbled
           /\ label = "kill" => mem'[s] = NoRecord /\ disk'[s] = NoRecord
           /\ label # "forget"
           /\ s \in killed => label = "kill"
  PROVE  Inv'
<1>1. h \in Actors /\ h # Sweeper /\ s # NoSid
  BY LifecycleAssumption DEF Actors, LifecycleAssumption
<1>2. /\ pc' \in [Actors -> PC] /\ pc'[h] = label
      /\ sid' \in [Actors -> Sids \union {NoSid}] /\ sid'[h] = s
      /\ rec' \in [Actors -> Record \union {NoRecord}] /\ rec'[h] = r
      /\ \A b \in Actors \ {h} : pc'[b] = pc[b] /\ sid'[b] = sid[b] /\ rec'[b] = rec[b]
  BY <1>1, BecomeFacts DEF Inv, Basic
<1>3. s \in opened
  BY <1>1 DEF Inv, Basic
<1>4. TypeOK'
  BY <1>1, <1>2 DEF Inv, Basic, TypeOK, Racing
<1>5. Basic'
  BY <1>1, <1>2, <1>3, <1>4 DEF Inv, Basic, Actors
<1>6. ASSUME s \notin raced'
      PROVE  Calm(s)'
  <2>1. s \notin raced
    BY <1>6
  <2>2. s \notin doomed /\ \A b \in Actors \ {h} : sid[b] # s
    BY <1>1, <2>1, Alone DEF Inv, Basic
  <2>3. s \in killed => label = "kill"
    BY <2>1
  <2>4. AtWork(s)'
    BY <1>1, <1>2, <2>1, <2>2 DEF AtWork, Agree, Actors
  <2>5. ~Idle(s)' /\ OnList(s)'
    BY <1>1, <1>2, <2>2 DEF Idle, OnList, Actors
  <2>. QED BY <2>1, <2>3, <2>4, <2>5, Contents DEF Calm, Loaded
<1>. QED BY <1>1, <1>2, <1>5, <1>6, HandlerElsewhere

\* A handler is done with its sandbox.
LEMMA Done ==
  ASSUME Inv, NEW h \in Handlers, NEW s \in Sids, sid[h] = s, Return(h),
         disk' \in [Sids -> Record \union {NoRecord, Garbled}],
         \A t \in Sids \ {s} : /\ disk'[t] = disk[t]
                               /\ t \in killed' <=> t \in killed
                               /\ t \in leaked => t \in leaked',
         killed' \in SUBSET opened, leaked' \in SUBSET Sids, leaked \subseteq leaked',
         UNCHANGED <<mem, opened, now, doomed, crashes>>, raced' = raced \union Racing',
         s \notin raced =>
           /\ mem[s] = disk'[s]
           /\ s \in killed' => mem[s] = NoRecord
           /\ s \notin killed' \union leaked' => mem[s] # NoRecord
  PROVE  Inv'
<1>1. h \in Actors /\ h # Sweeper /\ s # NoSid
  BY LifecycleAssumption DEF Actors, LifecycleAssumption
<1>2. /\ pc' \in [Actors -> PC] /\ pc'[h] = "idle"
      /\ sid' \in [Actors -> Sids \union {NoSid}] /\ sid'[h] = NoSid
      /\ rec' \in [Actors -> Record \union {NoRecord}]
      /\ \A b \in Actors \ {h} : pc'[b] = pc[b] /\ sid'[b] = sid[b] /\ rec'[b] = rec[b]
  BY <1>1, BecomeFacts DEF Inv, Basic, Return, PC
<1>3. s \in opened
  BY <1>1 DEF Inv, Basic
<1>4. TypeOK'
  BY <1>1, <1>2 DEF Inv, Basic, TypeOK, Racing
<1>5. Basic'
  BY <1>1, <1>2, <1>3, <1>4, LifecycleAssumption DEF Inv, Basic, Actors, LifecycleAssumption
<1>6. ASSUME s \notin raced'
      PROVE  Calm(s)'
  <2>1. s \notin raced
    BY <1>6
  <2>2. s \notin doomed /\ \A b \in Actors : sid'[b] # s
    BY <1>1, <1>2, <2>1, Alone DEF Inv, Basic
  <2>3. AtWork(s)' /\ OnList(s)' /\ Agree(s)'
    BY <2>1, <2>2 DEF AtWork, OnList, Agree, Actors
  <2>. QED BY <2>1, <2>3, Contents DEF Calm, Loaded
<1>. QED BY <1>1, <1>2, <1>5, <1>6, HandlerElsewhere

\* A handler begins to work on an existing sandbox: it clones the record of the
\* map, or removes it.
LEMMA Begins ==
  ASSUME Inv, NEW h \in Handlers, pc[h] = "idle", NEW s \in Sids, s \in opened,
         NEW label \in {"insert", "forget"}, NEW r \in Record \union {NoRecord},
         Become(h, label, s, r), label = "insert" => r \in Record /\ mem[s] # NoRecord,
         mem' = IF label = "forget" THEN [mem EXCEPT ![s] = NoRecord] ELSE mem,
         UNCHANGED <<disk, opened, killed, leaked, now, doomed, crashes>>,
         raced' = raced \union Racing'
  PROVE  Inv'
<1>1. h \in Actors /\ h # Sweeper /\ s # NoSid /\ sid[h] = NoSid
  BY LifecycleAssumption DEF Actors, LifecycleAssumption, Inv, Basic
<1>2. /\ pc' \in [Actors -> PC] /\ pc'[h] = label
      /\ sid' \in [Actors -> Sids \union {NoSid}] /\ sid'[h] = s
      /\ rec' \in [Actors -> Record \union {NoRecord}] /\ rec'[h] = r
      /\ \A b \in Actors \ {h} : pc'[b] = pc[b] /\ sid'[b] = sid[b] /\ rec'[b] = rec[b]
  BY <1>1, BecomeFacts DEF Inv, Basic, PC
<1>3. /\ mem' \in [Sids -> Record \union {NoRecord}]
      /\ \A t \in Sids \ {s} : mem'[t] = mem[t]
      /\ label = "forget" => mem'[s] = NoRecord
      /\ label = "insert" => mem'[s] = mem[s]
  BY DEF Inv, Basic, TypeOK
<1>4. TypeOK'
  BY <1>1, <1>2, <1>3 DEF Inv, Basic, TypeOK, Racing
<1>5. Basic'
  BY <1>1, <1>2, <1>3, <1>4 DEF Inv, Basic, Actors
<1>6. ASSUME s \notin raced'
      PROVE  Calm(s)'
  <2>1. s \notin raced
    BY <1>6
  <2>2. Racing' \subseteq raced' /\ s \in Sids \ raced'
    BY <1>6
  <2>3. s \notin doomed /\ \A b \in Actors \ {h} : sid'[b] # s
    BY <1>1, <1>2, <2>2, AlonePrimed
  <2>4. Idle(s) /\ Calm(s)
    BY <1>1, <1>2, <2>1, <2>3 DEF Idle, Inv
  <2>5. s \in killed => label = "forget" /\ Loaded(disk[s]) = NoRecord
    BY <2>4 DEF Calm
  <2>6. AtWork(s)'
    BY <1>1, <1>2, <1>3, <2>3, <2>4, <2>5 DEF AtWork, Agree, Calm, Actors
  <2>7. ~Idle(s)' /\ OnList(s)'
    BY <1>1, <1>2, <2>3 DEF Idle, OnList, Actors
  <2>. QED BY <1>3, <2>5, <2>6, <2>7 DEF Calm
<1>. QED BY <1>1, <1>2, <1>3, <1>5, <1>6, HandlerElsewhere

\* Every step of a handler keeps the invariant.
LEMMA HandlerStep ==
  ASSUME Inv, NEW h \in Handlers, Handler(h), UNCHANGED crashes, raced' = raced \union Racing'
  PROVE  Inv'
<1>. DEFINE s == sid[h]
<1>0. /\ h \in Actors /\ TypeOK
      /\ rec[h] \in Record \union {NoRecord}
      /\ pc[h] \in {"insert", "open", "write"} => rec[h] \in Record
  BY DEF Actors, Inv, Basic, TypeOK
<1>1. pc[h] # "idle" => /\ s \in Sids
                        /\ s \notin raced => Calm(s) /\ AtWork(s)
  BY <1>0 DEF TypeOK, Inv, Calm
<1>2. CASE Mounted(h)
  <2>1. pc[h] = "mount" /\ UNCHANGED <<mem, disk, opened, killed, now, doomed, leaked>>
    BY <1>2 DEF Mounted, controller
  <2>2. PICK t \in Timeouts \union {Lease} :
          Become(h, "insert", s, [end |-> now + t, state |-> "running"])
    BY <1>2 DEF Mounted
  <2>3. [end |-> now + t, state |-> "running"] \in Record
    BY <1>0, LifecycleAssumption DEF TypeOK, Record, LifecycleAssumption
  <2>4. s \notin raced => mem[s] = NoRecord /\ disk[s] = NoRecord /\ s \notin killed
    BY <1>1, <2>1 DEF AtWork
  <2>. QED BY <1>0, <1>1, <2>1, <2>2, <2>3, <2>4, GoOn DEF PC, TypeOK
<1>3. CASE MountFails(h)
  <2>1. pc[h] = "mount" /\ UNCHANGED <<mem, disk, opened, killed, now, doomed, leaked>>
        /\ Become(h, "undo", s, rec[h])
    BY <1>3 DEF MountFails, Goto, controller
  <2>2. s \notin raced => mem[s] = NoRecord /\ disk[s] = NoRecord /\ s \notin killed
    BY <1>1, <2>1 DEF AtWork
  <2>. QED BY <1>0, <1>1, <2>1, <2>2, GoOn DEF PC, TypeOK
<1>4. CASE InsertRecord(h)
  <2>1. pc[h] = "insert" /\ UNCHANGED <<disk, opened, killed, now, doomed, leaked>>
        /\ mem' = [mem EXCEPT ![s] = rec[h]] /\ Become(h, "open", s, rec[h])
    BY <1>4 DEF InsertRecord, Goto, controller
  <2>2. s \notin raced => s \notin killed
    BY <1>1, <2>1 DEF AtWork
  <2>3. mem' \in [Sids -> Record \union {NoRecord}] /\ mem'[s] = rec[h]
        /\ \A t \in Sids \ {s} : mem'[t] = mem[t]
    BY <1>0, <1>1, <2>1 DEF TypeOK
  <2>. QED BY <1>0, <1>1, <2>1, <2>2, <2>3, GoOn DEF PC, TypeOK
<1>5. CASE OpenFile(h)
  <2>1. pc[h] = "open" /\ UNCHANGED <<mem, opened, killed, now, doomed, leaked>>
        /\ disk' = [disk EXCEPT ![s] = Garbled] /\ Become(h, "write", s, rec[h])
    BY <1>5 DEF OpenFile, Goto, controller
  <2>2. s \notin raced => s \notin killed /\ mem[s] = rec[h]
    BY <1>1, <2>1 DEF AtWork
  <2>3. disk' \in [Sids -> Record \union {NoRecord, Garbled}] /\ disk'[s] = Garbled
        /\ \A t \in Sids \ {s} : disk'[t] = disk[t]
    BY <1>0, <1>1, <2>1 DEF TypeOK
  <2>. QED BY <1>0, <1>1, <2>1, <2>2, <2>3, GoOn DEF PC, TypeOK
<1>6. CASE WriteFile(h)
  <2>1. pc[h] = "write" /\ UNCHANGED <<mem, opened, killed, now, doomed, leaked>> /\ Return(h)
    BY <1>6 DEF WriteFile, controller
  <2>2. PICK file \in Written(disk[s], rec[h]) : disk' = [disk EXCEPT ![s] = file]
    BY <1>6 DEF WriteFile
  <2>3. file \in {NoRecord, Garbled, rec[h]} /\ (disk[s] = Garbled => file = rec[h])
    BY <2>2, Contents DEF Written
  <2>4. disk' \in [Sids -> Record \union {NoRecord, Garbled}] /\ disk'[s] = file
        /\ \A t \in Sids \ {s} : disk'[t] = disk[t]
    BY <1>0, <1>1, <2>1, <2>2, <2>3 DEF TypeOK
  <2>5. s \notin raced => s \notin killed /\ mem[s] = rec[h] /\ disk[s] = Garbled
    BY <1>1, <2>1 DEF AtWork
  <2>6. rec[h] # NoRecord /\ killed \in SUBSET opened /\ leaked \in SUBSET Sids
    BY <1>0, <2>1, Contents DEF Inv, Basic, TypeOK
  <2>. QED BY <1>1, <2>1, <2>3, <2>4, <2>5, <2>6, Done
<1>7. CASE ForgetFile(h)
  <2>1. pc[h] = "forget" /\ UNCHANGED <<mem, opened, killed, now, doomed, leaked>>
        /\ disk' = [disk EXCEPT ![s] = NoRecord] /\ Become(h, "kill", s, rec[h])
    BY <1>7 DEF ForgetFile, Goto, controller
  <2>2. s \notin raced => mem[s] = NoRecord
    BY <1>1, <2>1 DEF AtWork
  <2>3. disk' \in [Sids -> Record \union {NoRecord, Garbled}] /\ disk'[s] = NoRecord
        /\ \A t \in Sids \ {s} : disk'[t] = disk[t]
    BY <1>0, <1>1, <2>1 DEF TypeOK
  <2>. QED BY <1>0, <1>1, <2>1, <2>2, <2>3, GoOn DEF PC, TypeOK
<1>8. CASE KillSession(h) \/ Disconnect(h)
  <2>1. pc[h] \in {"mount", "kill", "undo"} /\ UNCHANGED <<mem, disk, opened, now, doomed>> /\ Return(h)
    BY <1>8 DEF KillSession, Disconnect, controller
  <2>2. \/ killed' = killed \union {s} /\ leaked' = leaked
        \/ leaked' = leaked \union {s} /\ killed' = killed
    BY <1>8 DEF KillSession, Disconnect, controller
  <2>3. s \in opened /\ s \in Sids
    BY <1>0, <1>1, <2>1 DEF Inv, Basic
  <2>4. killed' \in SUBSET opened /\ leaked' \in SUBSET Sids /\ leaked \subseteq leaked'
        /\ s \in killed' \union leaked'
    BY <2>2, <2>3 DEF Inv, Basic, TypeOK
  <2>5. s \notin raced => mem[s] = NoRecord /\ disk[s] = NoRecord
    BY <1>1, <2>1 DEF AtWork
  <2>6. \A t \in Sids \ {s} : (t \in killed' <=> t \in killed)
    BY <2>2
  <2>. QED BY <1>0, <2>1, <2>3, <2>4, <2>5, <2>6, Done DEF TypeOK
<1>9. ASSUME NEW t \in Sids, CloneRecord(h, t)
      PROVE  Inv'
  <2>1. /\ pc[h] = "idle" /\ mem[t] \in Record /\ mem[t] # NoRecord /\ t \in opened
        /\ UNCHANGED <<mem, disk, opened, killed, now, doomed, leaked>>
    BY <1>0, <1>9 DEF CloneRecord, controller, TypeOK, Inv, Basic
  <2>2. PICK r \in SetTimeout(mem[t]) \union Pause(mem[t]) \union Resume(mem[t])
                     \union Refresh(mem[t]) : Become(h, "insert", t, r)
    BY <1>9 DEF CloneRecord
  <2>3. now \in Nat /\ Lease \in Nat /\ Timeouts \subseteq Nat
    BY <1>0, LifecycleAssumption DEF TypeOK, LifecycleAssumption
  <2>4. r \in Record
    <3>1. CASE r \in SetTimeout(mem[t])
      BY <2>1, <2>3, <3>1 DEF SetTimeout, Record
    <3>2. CASE r \in Pause(mem[t])
      BY <2>1, <3>2 DEF Pause, Record
    <3>3. CASE r \in Resume(mem[t]) \union Refresh(mem[t])
      BY <2>1, <2>3, <3>3 DEF Resume, Refresh, Record
    <3>. QED BY <2>2, <3>1, <3>2, <3>3
  <2>. QED BY <2>1, <2>2, <2>4, Begins
<1>10. ASSUME NEW t \in Sids, RemoveRecord(h, t)
       PROVE  Inv'
  BY <1>10, Begins DEF RemoveRecord, controller
<1>. QED
  BY <1>2, <1>3, <1>4, <1>5, <1>6, <1>7, <1>8, <1>9, <1>10, OpenSessionStep, AnswerLostStep
     DEF Handler
----------------------------------------------------------------------------
\* What is listed was idle and expired, or is raced from now on.
LEMMA SweepScanStep ==
  ASSUME Inv, SweepScan, UNCHANGED crashes, raced' = raced \union Racing'
  PROVE  Inv'
<1>1. doomed = {} /\ doomed' = {s \in Sids : Expired(s)}
      /\ UNCHANGED <<mem, disk, opened, killed, now, pc, sid, rec, leaked>>
  BY DEF SweepScan, controller, handler
<1>2. pc[Sweeper] = "idle" /\ sid[Sweeper] = NoSid
  BY <1>1 DEF Inv, Basic, Actors
<1>3. TypeOK'
  BY <1>1 DEF Inv, Basic, TypeOK, Racing
<1>4. Basic'
  BY <1>1, <1>2, <1>3 DEF Inv, Basic, Expired
<1>5. ASSUME NEW s \in Sids \ raced'
      PROVE  Calm(s)'
  <2>1. Calm(s) /\ s # NoSid /\ Racing' \subseteq raced'
    BY LifecycleAssumption DEF Inv, LifecycleAssumption
  <2>2. CASE s \in doomed'
    <3>1. \A h \in Handlers : sid'[h] # s
      BY <2>1, <2>2, DoomedAlonePrimed
    <3>2. Idle(s)
      BY <1>1, <1>2, <2>1, <3>1 DEF Idle, Actors
    <3>3. Agree(s) /\ Expired(s)
      BY <1>1, <2>1, <2>2, <3>2 DEF Calm
    <3>4. AtWork(s)' /\ OnList(s)' /\ ~Idle(s)'
      BY <1>1, <1>2, <2>1, <2>2, <3>1, <3>3 DEF AtWork, OnList, Idle, Agree, Expired
    <3>. QED BY <1>1, <2>1, <3>4 DEF Calm
  <2>3. CASE s \notin doomed'
    <3>1. now \in Nat
      BY DEF Inv, Basic, TypeOK
    <3>. QED BY <1>1, <2>1, <2>3, <3>1, Elsewhere DEF Inv
  <2>. QED BY <2>2, <2>3
<1>. QED BY <1>4, <1>5 DEF Inv

\* The map forgets the listed sandbox; its session is a leak.
LEMMA SweepRemoveStep ==
  ASSUME Inv, NEW s \in Sids, SweepRemove(s), UNCHANGED crashes, raced' = raced \union Racing'
  PROVE  Inv'
<1>1. /\ pc[Sweeper] = "idle" /\ s \in doomed /\ Sweeper \in Actors
      /\ sid[Sweeper] = NoSid /\ s # NoSid
      /\ UNCHANGED <<disk, opened, killed, now, doomed>>
      /\ leaked' = leaked \union {s}
  BY LifecycleAssumption DEF SweepRemove, controller, Inv, Basic, Actors, LifecycleAssumption
<1>2. /\ pc' \in [Actors -> PC] /\ pc'[Sweeper] = "sweepForget"
      /\ sid' \in [Actors -> Sids \union {NoSid}] /\ sid'[Sweeper] = s
      /\ rec' \in [Actors -> Record \union {NoRecord}]
      /\ \A b \in Actors \ {Sweeper} : pc'[b] = pc[b] /\ sid'[b] = sid[b] /\ rec'[b] = rec[b]
  BY <1>1, BecomeFacts DEF SweepRemove, Inv, Basic, PC
<1>3. /\ mem' \in [Sids -> Record \union {NoRecord}] /\ mem'[s] = NoRecord
      /\ \A t \in Sids \ {s} : mem'[t] = mem[t]
  BY DEF SweepRemove, Inv, Basic, TypeOK
<1>4. TypeOK'
  BY <1>1, <1>2, <1>3 DEF Inv, Basic, TypeOK, Racing
<1>5. Basic'
  BY <1>1, <1>2, <1>3, <1>4, LifecycleAssumption DEF Inv, Basic, Actors, LifecycleAssumption
<1>6. ASSUME NEW t \in Sids \ raced'
      PROVE  Calm(t)'
  <2>1. Calm(t) /\ Racing' \subseteq raced' /\ t # NoSid
    BY LifecycleAssumption DEF Inv, LifecycleAssumption
  <2>2. CASE t = s
    <3>1. \A h \in Handlers : sid'[h] # s
      BY <1>1, <1>6, <2>1, <2>2, DoomedAlonePrimed
    <3>2. AtWork(s)' /\ OnList(s)' /\ ~Idle(s)'
      BY <1>1, <1>2, <1>3, <3>1 DEF AtWork, OnList, Idle
    <3>. QED BY <1>1, <1>3, <2>1, <2>2, <3>2 DEF Calm
  <2>3. CASE t # s
    <3>1. now \in Nat
      BY DEF Inv, Basic, TypeOK
    <3>. QED BY <1>1, <1>2, <1>3, <2>1, <2>3, <3>1, Elsewhere DEF Inv
  <2>. QED BY <2>2, <2>3
<1>. QED BY <1>5, <1>6 DEF Inv

\* The file goes, and with it the sandbox leaves the list.
LEMMA SweepForgetStep ==
  ASSUME Inv, SweepForget, UNCHANGED crashes, raced' = raced \union Racing'
  PROVE  Inv'
<1>. DEFINE s == sid[Sweeper]
<1>1. /\ pc[Sweeper] = "sweepForget" /\ s \in doomed /\ s \in leaked /\ s \in Sids
      /\ Sweeper \in Actors /\ s # NoSid /\ s \in opened
      /\ UNCHANGED <<mem, opened, killed, now, leaked>>
      /\ doomed' = doomed \ {s}
  BY LifecycleAssumption DEF SweepForget, controller, Inv, Basic, TypeOK, Actors, LifecycleAssumption
<1>2. /\ pc' \in [Actors -> PC] /\ pc'[Sweeper] = "idle"
      /\ sid' \in [Actors -> Sids \union {NoSid}] /\ sid'[Sweeper] = NoSid
      /\ rec' \in [Actors -> Record \union {NoRecord}]
      /\ \A b \in Actors \ {Sweeper} : pc'[b] = pc[b] /\ sid'[b] = sid[b] /\ rec'[b] = rec[b]
  BY <1>1, BecomeFacts DEF SweepForget, Return, Inv, Basic, PC
<1>3. /\ disk' \in [Sids -> Record \union {NoRecord, Garbled}] /\ disk'[s] = NoRecord
      /\ \A t \in Sids \ {s} : disk'[t] = disk[t]
  BY <1>1 DEF SweepForget, Inv, Basic, TypeOK
<1>. HIDE DEF s
<1>4. TypeOK'
  BY <1>1, <1>2, <1>3 DEF Inv, Basic, TypeOK, Racing
<1>5. Basic'
  BY <1>1, <1>2, <1>3, <1>4, LifecycleAssumption DEF Inv, Basic, Actors, LifecycleAssumption
<1>6. ASSUME NEW t \in Sids \ raced'
      PROVE  Calm(t)'
  <2>1. Calm(t) /\ t # NoSid
    BY LifecycleAssumption DEF Inv, LifecycleAssumption
  <2>2. CASE t = s
    <3>1. sid[Sweeper] = s
      BY DEF s
    <3>2. mem[s] = NoRecord
      BY <2>1, <2>2, <3>1 DEF Calm, OnList
    <3>3. \A b \in Actors : sid'[b] # t
      BY <1>1, <1>2, <2>2, <3>1, Alone DEF Inv, Basic
    <3>4. AtWork(t)' /\ OnList(t)' /\ Agree(t)'
      BY <1>1, <1>3, <2>2, <3>2, <3>3 DEF AtWork, OnList, Agree, Actors
    <3>. QED BY <1>1, <1>3, <2>1, <2>2, <3>2, <3>4, Contents DEF Calm, Loaded
  <2>3. CASE t # s
    <3>1. now \in Nat
      BY DEF Inv, Basic, TypeOK
    <3>2. sid[Sweeper] # t
      BY <2>3 DEF s
    <3>. QED BY <1>1, <1>2, <1>3, <2>1, <2>3, <3>1, <3>2, Elsewhere DEF Inv
  <2>. QED BY <2>2, <2>3
<1>. QED BY <1>5, <1>6 DEF Inv

\* The restart takes over what the files say.
LEMMA CrashStep ==
  ASSUME Inv, Crash, raced' = raced \union Racing'
  PROVE  Inv'
<1>1. /\ mem' = [s \in Sids |-> Loaded(disk[s])]
      /\ leaked' = leaked \union {s \in Sids : At(s) # {} /\ Loaded(disk[s]) = NoRecord}
      /\ pc' = [a \in Actors |-> "idle"]
      /\ sid' = [a \in Actors |-> NoSid]
      /\ rec' = [a \in Actors |-> NoRecord]
      /\ doomed' = {} /\ crashes' = crashes + 1
      /\ UNCHANGED <<disk, opened, killed, now>>
  BY DEF Crash, controller
<1>2. /\ mem' \in [Sids -> Record \union {NoRecord}]
      /\ \A s \in Sids : mem'[s] = Loaded(disk[s])
  BY <1>1 DEF Loaded, Inv, Basic, TypeOK
<1>3. TypeOK'
  BY <1>1, <1>2 DEF Inv, Basic, TypeOK, Racing, PC
<1>4. Basic'
  <2>1. \A s \in Sids : mem'[s] # NoRecord => disk[s] # NoRecord
    BY <1>2 DEF Loaded
  <2>. QED BY <1>1, <1>3, <2>1, LifecycleAssumption DEF Inv, Basic, Actors, LifecycleAssumption
<1>5. ASSUME NEW s \in Sids \ raced'
      PROVE  Calm(s)'
  <2>1. Calm(s) /\ s # NoSid
    BY LifecycleAssumption DEF Inv, LifecycleAssumption
  <2>2. \A a \in Actors : sid'[a] # s
    BY <1>1, <2>1
  <2>3. Agree(s)'
    BY <1>1, <1>2, Contents DEF Agree, Loaded
  <2>4. AtWork(s)' /\ OnList(s)'
    BY <1>1, <2>2 DEF AtWork, OnList, Actors
  <2>5. ASSUME s \in opened, s \notin killed, s \notin leaked'
        PROVE  mem'[s] # NoRecord
    <3>1. CASE At(s) # {}
      BY <1>1, <1>2, <2>5, <3>1
    <3>2. CASE At(s) = {}
      <4>1. Idle(s)
        BY <3>2 DEF At, Idle
      <4>2. Agree(s) /\ mem[s] # NoRecord
        BY <1>1, <2>1, <2>5, <4>1 DEF Calm
      <4>3. mem[s] \in Record /\ disk[s] = mem[s]
        BY <4>2 DEF Agree, Inv, Basic, TypeOK
      <4>. QED BY <1>2, <4>3, Contents DEF Loaded
    <3>. QED BY <3>1, <3>2
  <2>6. s \in killed => mem'[s] = NoRecord /\ Loaded(disk[s]) = NoRecord
    BY <1>2, <2>1 DEF Calm
  <2>. QED BY <1>1, <2>3, <2>4, <2>5, <2>6 DEF Calm
<1>. QED BY <1>4, <1>5 DEF Inv

\* What has expired stays expired.
LEMMA TickStep ==
  ASSUME Inv, Tick, UNCHANGED crashes, raced' = raced \union Racing'
  PROVE  Inv'
<1>1. now \in Nat /\ now' = now + 1
      /\ UNCHANGED <<mem, disk, opened, killed, pc, sid, rec, doomed, leaked>>
  BY DEF Tick, controller, handler, Inv, Basic, TypeOK
<1>2. TypeOK'
  BY <1>1 DEF Inv, Basic, TypeOK, Racing
<1>3. Basic'
  BY <1>1, <1>2 DEF Inv, Basic
<1>4. ASSUME NEW s \in Sids \ raced'
      PROVE  Calm(s)'
  BY <1>1, Elsewhere DEF Inv
<1>. QED BY <1>3, <1>4 DEF Inv

\* The inductive invariant of the sandbox records.
LEMMA InvHolds == Spec => []Inv
<1>1. ASSUME Init
      PROVE  Inv
  <2>1. TypeOK
    BY <1>1 DEF Init, TypeOK, PC
  <2>2. \A s \in Sids : At(s) = {} /\ s # NoSid
    BY <1>1, LifecycleAssumption DEF Init, At, LifecycleAssumption
  <2>3. Basic
    BY <1>1, <2>1, <2>2 DEF Init, Basic, Racing, Actors
  <2>4. ASSUME NEW s \in Sids
        PROVE  Calm(s)
    BY <1>1, <2>2 DEF Init, Calm, Idle, Agree, AtWork, OnList, Actors
  <2>. QED BY <2>3, <2>4 DEF Inv
<1>2. ASSUME Inv, [Next]_vars
      PROVE  Inv'
  <2>1. CASE UNCHANGED vars
    <3>1. Basic'
      BY <1>2, <2>1 DEF vars, Inv, Basic, TypeOK, Racing, At
    <3>2. ASSUME NEW s \in Sids \ raced
          PROVE  Calm(s)'
      BY <1>2, <2>1, Elsewhere DEF vars, Inv, Basic, TypeOK
    <3>. QED BY <2>1, <3>1, <3>2 DEF vars, Inv
  <2>. QED
    BY <1>2, <2>1, HandlerStep, SweepScanStep, SweepRemoveStep, SweepForgetStep, CrashStep,
       TickStep DEF Next, Step, Sweep
<1>. QED BY <1>1, <1>2, PTL DEF Spec

----------------------------------------------------------------------------
\* The shim's variables keep their types, and an actor at work has a sandbox.
THEOREM TypeCorrect == Spec => []TypeOK
<1>1. Inv => TypeOK
  BY DEF Inv, Basic
<1>. QED BY <1>1, InvHolds, PTL

\* Map and file of a sandbox that two actors never worked on at once agree
\* whenever nobody works on it, whatever the shim's handlers, its sweeper and
\* its restarts did to it before.
THEOREM FilesFollowMap == Spec => []MapMatchesFiles
<1>1. Inv => MapMatchesFiles
  <2>. SUFFICES ASSUME Inv, NEW s \in Sids \ raced, At(s) = {}
                PROVE  Agree(s)
    BY DEF MapMatchesFiles, Agree
  <2>1. Idle(s)
    BY DEF At, Idle
  <2>. QED BY <2>1 DEF Inv, Calm
<1>. QED BY <1>1, InvHolds, PTL

\* A sandbox whose session was deleted does not come back, not even through a
\* restart, unless it was raced.
THEOREM DeletedForGood == Spec => []StaysDeleted
<1>1. Inv => StaysDeleted
  BY DEF Inv, Basic, TypeOK, Calm, StaysDeleted
<1>. QED BY <1>1, InvHolds, PTL

\* What the sweeper is about to remove is expired, unless it was raced.
THEOREM SweepsOnlyExpired == Spec => []DoomedAreExpired
<1>1. Inv => DoomedAreExpired
  BY DEF Inv, Basic, TypeOK, Calm, OnList, DoomedAreExpired
<1>. QED BY <1>1, InvHolds, PTL

\* Every session of the controller that has no record was left in one of the
\* ways the history names.
THEOREM EveryLeakExplained == Spec => []LeaksExplained
<1>1. Inv => LeaksExplained
  <2>. SUFFICES ASSUME Inv, NEW s \in opened \ (killed \union leaked \union raced),
                       mem[s] = NoRecord
                PROVE  At(s) # {}
    BY DEF LeaksExplained
  <2>1. s \in Sids \ raced
    BY DEF Inv, Basic, TypeOK
  <2>2. ~Idle(s)
    BY <2>1 DEF Inv, Calm
  <2>. QED BY <2>2 DEF Idle, At
<1>. QED BY <1>1, InvHolds, PTL

----------------------------------------------------------------------------
(* The guards of the map (ShardGuards), for any number of mirrors, writers, *)
(* shards and threads.                                                      *)

GuardTypeOK ==
  /\ place \in [GuardTasks -> {"idle", "ready", "s3", "answered", "blocked"}]
  /\ shard \in [GuardTasks -> Shards]

\* No more writers wait than there are threads to wait on.
ThreadsSuffice == IsFiniteSet(Blocked) /\ Cardinality(Blocked) <= Workers

\* Tasks stay where the model puts them.
LEMMA GuardTypeCorrect == GuardSpec => []GuardTypeOK
<1>1. GuardInit => GuardTypeOK
  BY DEF GuardInit, GuardTypeOK
<1>2. GuardTypeOK /\ [GuardNext]_guardVars => GuardTypeOK'
  BY DEF GuardTypeOK, GuardNext, guardVars, GuardTasks, Arrive, MirrorStep, MirrorGet,
     S3Answers, MirrorEnds, MirrorDropped, WriteMap, Unblock, To
<1>. QED BY <1>1, <1>2, PTL DEF GuardSpec

\* Who waits for a lock after a step waited before, or is the writer that found
\* a thread and a guarded shard.
LEMMA BlockedSteps ==
  ASSUME GuardTypeOK, [GuardNext]_guardVars
  PROVE  \/ Blocked' \subseteq Blocked
         \/ \E w \in Writers : ThreadFree /\ Blocked' \subseteq Blocked \union {w}
<1>1. ASSUME NEW w \in Writers, WriteMap(w)
      PROVE  ThreadFree /\ Blocked' \subseteq Blocked \union {w}
  BY <1>1 DEF GuardTypeOK, GuardTasks, WriteMap, To, Blocked
<1>2. ASSUME NEW w \in Writers, Unblock(w)
      PROVE  Blocked' \subseteq Blocked
  BY <1>2 DEF GuardTypeOK, GuardTasks, Unblock, To, Blocked
<1>3. ASSUME NEW m \in Mirrors, MirrorStep(m) \/ MirrorDropped(m)
      PROVE  Blocked' \subseteq Blocked
  BY <1>3 DEF GuardTypeOK, GuardTasks, MirrorStep, MirrorGet, S3Answers, MirrorEnds,
     MirrorDropped, To, Blocked
<1>4. ASSUME NEW t \in GuardTasks, NEW k \in Shards, Arrive(t, k)
      PROVE  Blocked' \subseteq Blocked
  BY <1>4 DEF GuardTypeOK, GuardTasks, Arrive, Blocked
<1>5. CASE UNCHANGED guardVars
  BY <1>5 DEF guardVars, Blocked
<1>. QED BY <1>1, <1>2, <1>3, <1>4, <1>5 DEF GuardNext

\* A writer blocks only on a thread it found free, so never more writers wait
\* for a shard than the runtime has worker threads.
THEOREM BlockedWithinThreads == GuardSpec => []ThreadsSuffice
<1>1. GuardInit => ThreadsSuffice
  <2>. SUFFICES ASSUME GuardInit
                PROVE  ThreadsSuffice
    OBVIOUS
  <2>1. Blocked = {}
    BY DEF GuardInit, Blocked, GuardTasks
  <2>. QED BY <2>1, FS_EmptySet, GuardAssumption DEF ThreadsSuffice
<1>2. ASSUME GuardTypeOK, ThreadsSuffice, [GuardNext]_guardVars
      PROVE  ThreadsSuffice'
  <2>. DEFINE B == Blocked
              A == Blocked'
  <2>1. IsFiniteSet(B) /\ Cardinality(B) \in Nat /\ Cardinality(B) <= Workers /\ Workers \in Nat
    BY <1>2, FS_CardinalityType, GuardAssumption DEF ThreadsSuffice
  <2>2. A \subseteq B \/ \E w : Cardinality(B) < Workers /\ A \subseteq B \union {w}
    BY <1>2, BlockedSteps DEF ThreadFree
  <2>. HIDE DEF A, B
  <2>3. CASE A \subseteq B
    <3>1. IsFiniteSet(A) /\ Cardinality(A) <= Cardinality(B) /\ Cardinality(A) \in Nat
      BY <2>1, <2>3, FS_Subset, FS_CardinalityType
    <3>2. IsFiniteSet(A) /\ Cardinality(A) <= Workers
      BY <2>1, <3>1
    <3>. QED BY <3>2 DEF ThreadsSuffice, A
  <2>4. ASSUME NEW w, Cardinality(B) < Workers, A \subseteq B \union {w}
        PROVE  ThreadsSuffice'
    <3>1. /\ IsFiniteSet(B \union {w}) /\ Cardinality(B \union {w}) \in Nat
          /\ Cardinality(B \union {w}) <= Cardinality(B) + 1
      BY <2>1, FS_AddElement, FS_CardinalityType
    <3>2. IsFiniteSet(A) /\ Cardinality(A) <= Cardinality(B \union {w}) /\ Cardinality(A) \in Nat
      BY <2>4, <3>1, FS_Subset, FS_CardinalityType
    <3>3. IsFiniteSet(A) /\ Cardinality(A) <= Workers
      BY <2>1, <2>4, <3>1, <3>2
    <3>. QED BY <3>3 DEF ThreadsSuffice, A
  <2>. QED BY <2>2, <2>3, <2>4
<1>. QED BY <1>1, <1>2, GuardTypeCorrect, PTL DEF GuardSpec

\* With fewer writers than worker threads a thread is always left to resume the
\* mirror that holds the guard: the shim is never wedged.
LEMMA FewWritersNeverWedge ==
  ASSUME IsFiniteSet(Writers), Cardinality(Writers) < Workers
  PROVE  GuardSpec => []NeverWedged
<1>1. NeverWedged
  <2>1. Blocked \subseteq Writers
    BY DEF Blocked
  <2>2. Cardinality(Blocked) <= Cardinality(Writers) /\ Cardinality(Blocked) \in Nat
        /\ Cardinality(Writers) \in Nat
    BY <2>1, FS_Subset, FS_CardinalityType
  <2>. QED BY <2>2, GuardAssumption DEF NeverWedged, Wedged
<1>. QED BY <1>1, PTL

\* Once every thread waits for a guard, no answer of S3 and no client that goes
\* away helps: the task that would drop the guard is never run again.
THEOREM WedgedForGood == GuardSpec => [](Wedged => []Wedged)
<1>1. ASSUME GuardTypeOK, Wedged, [GuardNext]_guardVars
      PROVE  Wedged'
  <2>1. ~ThreadFree
    BY <1>1, GuardAssumption DEF Wedged, ThreadFree
  <2>2. \A w \in Writers : ~WriteMap(w) /\ ~Unblock(w)
    BY <1>1, <2>1 DEF WriteMap, Unblock, Wedged, Blocked
  <2>3. \A m \in Mirrors : ~MirrorDropped(m) /\ (MirrorStep(m) => S3Answers(m))
    BY <2>1 DEF MirrorDropped, MirrorStep, MirrorGet, MirrorEnds
  <2>4. ASSUME NEW m \in Mirrors, S3Answers(m)
        PROVE  Wedged'
    <3>1. Blocked' = Blocked /\ shard' = shard
      BY <1>1, <2>4 DEF GuardTypeOK, GuardTasks, S3Answers, To, Blocked
    <3>2. \A u \in Mirrors : Holds(u) => Holds(u)'
      BY <1>1, <2>4 DEF GuardTypeOK, GuardTasks, S3Answers, To, Holds
    <3>3. \A k : Guarded(k) => Guarded(k)'
      BY <3>1, <3>2 DEF Guarded
    <3>. QED BY <1>1, <3>1, <3>3 DEF Wedged
  <2>5. ASSUME NEW t \in GuardTasks, NEW k \in Shards, Arrive(t, k)
        PROVE  Wedged'
    <3>1. Blocked' = Blocked /\ t \notin Blocked
      BY <1>1, <2>5 DEF GuardTypeOK, GuardTasks, Arrive, Blocked
    <3>2. \A u \in Mirrors : Holds(u) => Holds(u)' /\ shard'[u] = shard[u]
      BY <1>1, <2>5 DEF GuardTypeOK, GuardTasks, Arrive, Holds
    <3>3. \A j : Guarded(j) => Guarded(j)'
      BY <3>2 DEF Guarded
    <3>4. \A w \in Blocked : shard'[w] = shard[w]
      BY <1>1, <2>5, <3>1 DEF GuardTypeOK, GuardTasks, Arrive, Blocked
    <3>. QED BY <1>1, <3>1, <3>3, <3>4 DEF Wedged
  <2>6. CASE UNCHANGED guardVars
    BY <1>1, <2>6 DEF guardVars, Wedged, Blocked, Guarded, Holds
  <2>. QED BY <1>1, <2>2, <2>3, <2>4, <2>5, <2>6 DEF GuardNext
<1>. QED BY <1>1, GuardTypeCorrect, PTL DEF GuardSpec
=============================================================================
