------------------------- MODULE VolumeMirrorProofs -------------------------
(***************************************************************************)
(* Proofs about VolumeMirror for any number of handlers, sandboxes, files  *)
(* and directories: when the copies of a file agree although no lock is    *)
(* held over two of them.                                                  *)
(***************************************************************************)
EXTENDS VolumeMirror, TLAPS

Live == vol # "gone"
Mounting(h) == pc[h] \in {"get", "copy"}

\* Positions, their files and sandboxes.
Placed ==
  \A h \in Handlers :
    /\ pc[h] = "idle" => at[h] = {}
    /\ pc[h] \in {"put", "write", "mirror"} => \E f \in Files : at[h] = {f}
    /\ pc[h] \in {"write", "mirror"} => from[h] \in Sandboxes
    /\ pc[h] \in {"list", "delete"} => from[h] = Api
    /\ from[h] \in Sandboxes => mounted[from[h]] # "no"
    /\ pc[h] = "copy" => cur[h] \in at[h]
    /\ Mounting(h) =>
         /\ from[h] \in Sandboxes /\ mounted[from[h]] = "mounting"
         /\ \A k \in Handlers : Mounting(k) /\ from[k] = from[h] => k = h

\* Two handlers of one file know of each other.
Apart ==
  \A h, k \in Handlers : \A f \in at[h] : h # k /\ f \in at[k] => f \in clash[h]

\* What an undisturbed handler has done to a file so far.
Lone ==
  Live => \A h \in Handlers : \A f \in at[h] \ clash[h] :
    /\ pc[h] = "put" => /\ scratch[f] = data[h]
                        /\ from[h] \in Sandboxes =>
                             session[from[h]][f] = data[h] \/ f \in inner[from[h]]
    /\ pc[h] = "mirror" => session[from[h]][f] = data[h] \/ f \in inner[from[h]]
    /\ pc[h] \in {"list", "delete"} => scratch[f] = NoData
    /\ pc[h] = "copy" /\ cur[h] = f => data[h] = Store[f]

\* Nobody is between scratch and bucket with f.
Even(f) == \A k \in Handlers : f \in at[k] => pc[k] \notin {"put", "list", "delete"}

Twins ==
  Live /\ S3 => \A f \in Files \ dirty : Even(f) =>
    /\ scratch[f] = bucket[f]
    /\ \A h \in Handlers : pc[h] = "copy" /\ cur[h] = f => data[h] = bucket[f]

\* Nobody is between a sandbox and the store with f.
Still(f) ==
  \A k \in Handlers : f \in at[k] =>
    pc[k] \notin {"put", "mirror", "delete"} /\ (pc[k] = "list" => S3)

\* b has its copy of f.
Has(b, f) ==
  \/ mounted[b] = "yes"
  \/ mounted[b] = "mounting" /\ \A h \in Handlers : Mounting(h) /\ from[h] = b => f \notin at[h]

View ==
  Live => \A b \in Sandboxes : \A f \in Files \ stale[b] :
    Has(b, f) /\ Still(f) => session[b][f] = Store[f] \/ f \in inner[b]

\* Content v is written to file f in sandbox b.
Assigned(b, f, v) == session' = [session EXCEPT ![b][f] = v]

Inv == TypeOK /\ Placed /\ Apart /\ Lone /\ Twins /\ View

----------------------------------------------------------------------------
\* What the beginning of a request leaves of the handlers' variables.
LEMMA BeginFacts ==
  ASSUME TypeOK, NEW h \in Handlers, NEW label \in PC, NEW S \in SUBSET Files,
         NEW N \in SUBSET Files, NEW v \in Content, NEW b \in Sandboxes \union {Api},
         Begin(h, label, S, N, v, b)
  PROVE  /\ pc' \in [Handlers -> PC] /\ at' \in [Handlers -> SUBSET Files]
         /\ data' \in [Handlers -> Content] /\ from' \in [Handlers -> Sandboxes \union {Api}]
         /\ clash' \in [Handlers -> SUBSET Files] /\ cur' = cur
         /\ pc'[h] = label /\ at'[h] = S /\ data'[h] = v /\ from'[h] = b
         /\ N \subseteq clash'[h]
         /\ \A f \in S : \A k \in Handlers \ {h} : f \in at[k] => f \in clash'[h] /\ f \in clash'[k]
         /\ \A k \in Handlers \ {h} :
              /\ pc'[k] = pc[k] /\ at'[k] = at[k] /\ data'[k] = data[k] /\ from'[k] = from[k]
              /\ clash[k] \subseteq clash'[k]
              /\ \A f \in at[k] : f \notin S /\ f \in clash'[k] => f \in clash[k]
<1>1. /\ pc' \in [Handlers -> PC] /\ at' \in [Handlers -> SUBSET Files]
      /\ data' \in [Handlers -> Content] /\ from' \in [Handlers -> Sandboxes \union {Api}]
      /\ cur' = cur
      /\ pc'[h] = label /\ at'[h] = S /\ data'[h] = v /\ from'[h] = b
      /\ \A k \in Handlers \ {h} :
            pc'[k] = pc[k] /\ at'[k] = at[k] /\ data'[k] = data[k] /\ from'[k] = from[k]
  BY DEF TypeOK, Begin
<1>2. clash' \in [Handlers -> SUBSET Files]
  BY DEF TypeOK, Begin
<1>3. clash'[h] = N \union {f \in S : \E k \in Handlers \ {h} : f \in at[k]}
  BY DEF Begin
<1>4. \A k \in Handlers \ {h} : clash'[k] = clash[k] \union (at[k] \intersect S)
  BY DEF Begin
<1>. QED BY <1>1, <1>2, <1>3, <1>4

\* A handler is done.
LEMMA ReturnFacts ==
  ASSUME TypeOK, NEW h \in Handlers, Return(h)
  PROVE  /\ pc' \in [Handlers -> PC] /\ at' \in [Handlers -> SUBSET Files]
         /\ data' \in [Handlers -> Content] /\ from' \in [Handlers -> Sandboxes \union {Api}]
         /\ clash' \in [Handlers -> SUBSET Files] /\ cur' \in [Handlers -> Files \union {NoFile}]
         /\ pc'[h] = "idle" /\ at'[h] = {}
         /\ \A k \in Handlers \ {h} :
              /\ pc'[k] = pc[k] /\ at'[k] = at[k] /\ data'[k] = data[k] /\ from'[k] = from[k]
              /\ cur'[k] = cur[k] /\ clash'[k] = clash[k]
BY DEF TypeOK, Return, PC, Content

\* What the histories say of files changed in unknown places ..
LEMMA UnsettledFacts ==
  ASSUME TypeOK, NEW F \in SUBSET Files, Unsettled(F)
  PROVE  /\ dirty' \in SUBSET Files /\ stale' \in [Sandboxes -> SUBSET Files]
         /\ \A f \in Files : f \in dirty' <=> f \in dirty \/ f \in F
         /\ \A b \in Sandboxes : \A f \in Files : f \in stale'[b] <=> f \in stale[b] \/ f \in F
BY DEF TypeOK, Unsettled

\* .. and of a file that a handler has changed.
LEMMA ChangedFacts ==
  ASSUME TypeOK, NEW h \in Handlers, NEW f \in Files, Changed(h, f)
  PROVE  /\ dirty' \in SUBSET Files /\ stale' \in [Sandboxes -> SUBSET Files]
         /\ \A g \in Files \ {f} : g \in dirty' <=> g \in dirty
         /\ \A b \in Sandboxes : \A g \in Files \ {f} : g \in stale'[b] <=> g \in stale[b]
         /\ f \in clash[h] => f \in dirty'
         /\ \A b \in Sandboxes : f \in clash[h] \/ b # from[h] => f \in stale'[b]
<1>1. CASE f \in clash[h]
  BY <1>1, UnsettledFacts DEF Changed
<1>2. CASE f \notin clash[h]
  <2>1. Settled(f, from[h])
    BY <1>2 DEF Changed
  <2>2. dirty' \in SUBSET Files /\ \A g \in Files \ {f} : g \in dirty' <=> g \in dirty
    BY <2>1 DEF Settled, TypeOK
  <2>3. \A s \in Sandboxes : stale'[s] = IF s = from[h] THEN stale[s] \ {f} ELSE stale[s] \union {f}
    BY <2>1 DEF Settled
  <2>4. stale' = [s \in Sandboxes |-> IF s = from[h] THEN stale[s] \ {f} ELSE stale[s] \union {f}]
    BY <2>1 DEF Settled
  <2>5. \A s \in Sandboxes : stale[s] \in SUBSET Files
    BY DEF TypeOK
  <2>6. stale' \in [Sandboxes -> SUBSET Files]
    BY <2>4, <2>5
  <2>. QED BY <1>2, <2>2, <2>3, <2>6
<1>. QED BY <1>1, <1>2

\* A write into a sandbox.
LEMMA SessionFacts ==
  ASSUME TypeOK, NEW b \in Sandboxes, NEW f \in Files, NEW v \in Content,
         Assigned(b, f, v)
  PROVE  /\ session' \in [Sandboxes -> [Files -> Content]]
         /\ session'[b][f] = v
         /\ \A c \in Sandboxes : \A g \in Files : c # b \/ g # f => session'[c][g] = session[c][g]
<1>. DEFINE s == [session[b] EXCEPT ![f] = v]
<1>1. session[b] \in [Files -> Content]
  BY DEF TypeOK
<1>2. s \in [Files -> Content] /\ s[f] = v /\ \A g \in Files \ {f} : s[g] = session[b][g]
  BY <1>1
<1>3. session' = [session EXCEPT ![b] = s]
  BY DEF Assigned
<1>. HIDE DEF s
<1>4. session' \in [Sandboxes -> [Files -> Content]] /\ session'[b] = s
      /\ \A c \in Sandboxes \ {b} : session'[c] = session[c]
  BY <1>2, <1>3 DEF TypeOK
<1>. QED BY <1>2, <1>4

\* A write into scratch.
LEMMA ScratchFacts ==
  ASSUME TypeOK, NEW f \in Files, NEW v \in Content, WriteScratch(f, v)
  PROVE  /\ scratch' \in [Files -> Content] /\ dirs' \in SUBSET Dirs
         /\ scratch'[f] = v
         /\ \A g \in Files \ {f} : scratch'[g] = scratch[g]
BY DEF TypeOK, WriteScratch

\* A new record; no copy changes.
LEMMA VolumesCreateKeeps ==
  ASSUME Inv, VolumesCreate
  PROVE  Inv'
<1>1. TypeOK'
  BY DEF VolumesCreate, Inv, TypeOK, PC, Content, handler
<1>2. Placed'
  BY VolumeAssumption DEF VolumesCreate, Inv, TypeOK, Placed, Mounting, handler
<1>3. Apart'
  BY DEF VolumesCreate, Inv, TypeOK, Apart, handler
<1>4. Lone'
  BY DEF VolumesCreate, Inv, TypeOK, Placed, Apart, Lone, Live, Store, S3, handler
<1>5. Twins'
  BY DEF VolumesCreate, Inv, TypeOK, Placed, Apart, Lone, Twins, Even, Live, S3,
    Store, handler
<1>6. View'
  BY DEF VolumesCreate, Inv, TypeOK, Placed, Apart, Lone, View, Still, Has, Live,
    Mounting, Store, S3, handler
<1>. QED BY <1>1, <1>2, <1>3, <1>4, <1>5, <1>6 DEF Inv

\* With the volume gone nothing is said of its copies.
LEMMA VolumeDeleteKeeps ==
  ASSUME Inv, VolumeDelete
  PROVE  Inv'
<1>1. TypeOK'
  BY DEF VolumeDelete, Inv, TypeOK, PC, Content, handler, Known
<1>2. Placed'
  BY VolumeAssumption DEF VolumeDelete, Inv, TypeOK, Placed, Mounting, handler, Known
<1>3. Apart'
  BY DEF VolumeDelete, Inv, TypeOK, Apart, handler, Known
<1>4. Lone'
  BY DEF VolumeDelete, Inv, TypeOK, Placed, Apart, Lone, Live, Store, S3, handler,
    Known
<1>5. Twins'
  BY DEF VolumeDelete, Inv, TypeOK, Placed, Apart, Lone, Twins, Even, Live, S3, Store,
    handler, Known
<1>6. View'
  BY DEF VolumeDelete, Inv, TypeOK, Placed, Apart, Lone, View, Still, Has, Live,
    Mounting, Store, S3, handler, Known
<1>. QED BY <1>1, <1>2, <1>3, <1>4, <1>5, <1>6 DEF Inv

\* A put has written scratch: the file is uneven until the bucket follows.
LEMMA VolumeFilePutKeeps ==
  ASSUME Inv, NEW h \in Handlers, NEW f \in Files, NEW v \in Data, NEW force \in BOOLEAN,
         VolumeFilePut(h, f, v, force)
  PROVE  Inv'
<1>. TypeOK /\ at[h] = {} /\ pc[h] = "idle"
  BY DEF VolumeFilePut, Inv, Placed
<1>begins. /\ Begin(h, "put", {f}, {}, v, Api)
           /\ {f} \in SUBSET Files /\ {} \in SUBSET Files /\ v \in Content
           /\ "put" \in PC /\ Api \in Sandboxes \union {Api}
  BY DEF VolumeFilePut, PC, Content
<1>moves. /\ pc'[h] = "put" /\ at'[h] = {f} /\ from'[h] = Api /\ cur' = cur
          /\ \A k \in Handlers \ {h} :
               pc'[k] = pc[k] /\ at'[k] = at[k] /\ data'[k] = data[k] /\ from'[k] = from[k]
  BY <1>begins DEF Begin, TypeOK
<1>1. TypeOK'
  BY DEF VolumeFilePut, Inv, TypeOK, PC, Content, volume, Known, Begin, WriteScratch
<1>2. Placed'
  BY VolumeAssumption DEF VolumeFilePut, Inv, TypeOK, Placed, Mounting, volume, Known,
    Begin, WriteScratch
<1>3. Apart'
  BY DEF VolumeFilePut, Inv, TypeOK, Apart, volume, Known, Begin, WriteScratch
<1>4. Lone'
  BY VolumeAssumption DEF VolumeFilePut, Inv, TypeOK, Placed, Apart, Lone, Live,
    Store, S3, volume, Known, Begin, WriteScratch
<1>5. Twins'
  <2>. SUFFICES ASSUME Live', S3', NEW g \in Files \ dirty', Even(g)'
                PROVE  /\ scratch'[g] = bucket'[g]
                       /\ \A k \in Handlers : pc'[k] = "copy" /\ cur'[k] = g => data'[k] = bucket'[g]
    BY DEF Twins
  <2>1. g # f
    BY <1>moves DEF Even
  <2>2. Even(g) /\ g \notin dirty /\ Live /\ S3
    BY <1>moves DEF VolumeFilePut, Even, Live, S3, volume, Known
  <2>3. scratch'[g] = scratch[g] /\ bucket' = bucket
    BY <2>1, ScratchFacts DEF VolumeFilePut, Content
  <2>. QED BY <1>moves, <2>2, <2>3 DEF Inv, Twins
<1>6. View'
  <2>. SUFFICES ASSUME Live', NEW s \in Sandboxes, NEW g \in Files \ stale'[s],
                       Has(s, g)', Still(g)'
                PROVE  session'[s][g] = Store'[g] \/ g \in inner'[s]
    BY DEF View
  <2>1. g # f
    BY <1>moves DEF Still, S3
  <2>2. Still(g) /\ Has(s, g) /\ g \notin stale[s] /\ Live
    BY <1>moves DEF VolumeFilePut, Still, Has, Mounting, Live, S3, volume, Known
  <2>3. session' = session /\ inner' = inner /\ Store'[g] = Store[g]
    BY <2>1, ScratchFacts DEF VolumeFilePut, Content, Store, S3, volume
  <2>. QED BY <2>2, <2>3 DEF Inv, View
<1>. QED BY <1>1, <1>2, <1>3, <1>4, <1>5, <1>6 DEF Inv

\* The bucket follows: undisturbed, the copies are even again, for every handler.
LEMMA PutKeeps ==
  ASSUME Inv, NEW h \in Handlers, Put(h)
  PROVE  Inv'
<1>. TypeOK /\ Return(h) /\ pc[h] = "put"
  BY DEF Put, Inv
<1>f. PICK f \in Files : at[h] = {f}
  BY DEF Inv, Placed
<1>a. /\ pc[h] = "put" /\ at[h] = {f}
      /\ bucket' = IF S3 THEN [bucket EXCEPT ![f] = data[h]] ELSE bucket
      /\ Changed(h, f)
  BY <1>f DEF Put
<1>b. /\ \A g \in Files \ {f} : g \in dirty' <=> g \in dirty
      /\ \A s \in Sandboxes : \A g \in Files \ {f} : g \in stale'[s] <=> g \in stale[s]
      /\ \A s \in Sandboxes : f \in clash[h] \/ s # from[h] => f \in stale'[s]
  BY <1>a, ChangedFacts
<1>1. TypeOK'
  <2>1. bucket' \in [Files -> Content]
    BY <1>a DEF TypeOK
  <2>. QED BY <1>a, <2>1, ChangedFacts, ReturnFacts DEF Put, TypeOK, volume
<1>2. Placed'
  BY VolumeAssumption DEF Put, Inv, TypeOK, Placed, Mounting, volume, S3, Return,
    Unsettled, Changed, Settled
<1>3. Apart'
  BY DEF Put, Inv, TypeOK, Apart, volume, S3, Return, Unsettled, Changed, Settled
<1>4. Lone'
  BY DEF Put, Inv, TypeOK, Placed, Apart, Lone, Live, Store, S3, volume, Return,
    Unsettled, Changed, Settled
<1>5. Twins'
  BY DEF Put, Inv, TypeOK, Placed, Apart, Lone, Twins, Even, Live, S3, Store, volume,
    Return, Unsettled, Changed, Settled
<1>6. View'
  <2>. SUFFICES ASSUME Live', NEW s \in Sandboxes, NEW g \in Files \ stale'[s],
                       Has(s, g)', Still(g)'
                PROVE  session'[s][g] = Store'[g] \/ g \in inner'[s]
    BY DEF View
  <2>1. CASE g = f
    <3>1. f \notin clash[h] /\ s = from[h]
      BY <1>b, <2>1
    <3>2. scratch[f] = data[h] /\ (session[s][f] = data[h] \/ f \in inner[s])
      BY <1>a, <3>1 DEF Put, Inv, Lone, Live, volume
    <3>. QED BY <1>a, <2>1, <3>2 DEF Put, Store, S3, volume, TypeOK
  <2>2. CASE g # f
    <3>1. Still(g) /\ Has(s, g) /\ Live
      BY <1>a, <2>2, ReturnFacts DEF Put, Still, Has, Mounting, Live, S3, volume
    <3>2. session' = session /\ inner' = inner /\ Store'[g] = Store[g] /\ g \notin stale[s]
      BY <1>a, <1>b, <2>2 DEF Put, Store, S3, volume, TypeOK
    <3>. QED BY <3>1, <3>2 DEF Inv, View
  <2>. QED BY <2>1, <2>2
<1>. QED BY <1>1, <1>2, <1>3, <1>4, <1>5, <1>6 DEF Inv

\* Nobody knows what the bucket holds: the file is dirty and stale everywhere.
LEMMA PutFailsKeeps ==
  ASSUME Inv, NEW h \in Handlers, PutFails(h)
  PROVE  Inv'
<1>1. TypeOK'
  <2>1. PICK f \in Files : /\ Unsettled({f})
                            /\ bucket' \in {bucket, [bucket EXCEPT ![f] = data[h]]}
    BY DEF PutFails, Inv, TypeOK
  <2>2. bucket' \in [Files -> Content]
    BY <2>1 DEF Inv, TypeOK
  <2>. QED BY <2>1, <2>2, UnsettledFacts, ReturnFacts DEF PutFails, Inv, TypeOK, volume
<1>2. Placed'
  BY VolumeAssumption DEF PutFails, Inv, TypeOK, Placed, Mounting, volume, S3, Return,
    Unsettled
<1>3. Apart'
  BY DEF PutFails, Inv, TypeOK, Apart, volume, S3, Return, Unsettled
<1>4. Lone'
  BY DEF PutFails, Inv, TypeOK, Placed, Apart, Lone, Live, Store, S3, volume, Return,
    Unsettled
<1>5. Twins'
  BY DEF PutFails, Inv, TypeOK, Placed, Apart, Lone, Twins, Even, Live, S3, Store,
    volume, Return, Unsettled
<1>6. View'
  <2>. SUFFICES ASSUME Live', NEW s \in Sandboxes, NEW g \in Files \ stale'[s],
                       Has(s, g)', Still(g)'
                PROVE  session'[s][g] = Store'[g] \/ g \in inner'[s]
    BY DEF View
  <2>0. PICK f \in at[h] : /\ bucket' \in {bucket, [bucket EXCEPT ![f] = data[h]]}
                            /\ Unsettled({f})
    BY DEF PutFails
  <2>1. f \in Files /\ pc[h] = "put" /\ TypeOK /\ Return(h)
    BY DEF PutFails, Inv, TypeOK
  <2>2. g # f /\ g \notin stale[s]
    BY <2>0, <2>1, UnsettledFacts
  <2>3. at[h] = {f}
    BY <2>0, <2>1 DEF Inv, Placed
  <2>4. Still(g) /\ Has(s, g) /\ Live
    BY <2>1, <2>2, <2>3, ReturnFacts DEF PutFails, Still, Has, Mounting, Live, S3, volume
  <2>5. session' = session /\ inner' = inner /\ Store'[g] = Store[g]
    BY <2>0, <2>1, <2>2 DEF PutFails, Store, S3, volume, TypeOK
  <2>. QED BY <2>2, <2>4, <2>5 DEF Inv, View
<1>. QED BY <1>1, <1>2, <1>3, <1>4, <1>5, <1>6 DEF Inv

\* A mirrored write begins; no copy has changed yet.
LEMMA FilesPostKeeps ==
  ASSUME Inv, NEW h \in Handlers, NEW b \in Sandboxes, NEW f \in Files, NEW v \in Data,
         FilesPost(h, b, f, v)
  PROVE  Inv'
<1>. TypeOK /\ at[h] = {} /\ pc[h] = "idle"
  BY DEF FilesPost, Inv, Placed
<1>begins. /\ Begin(h, "write", {f}, {}, v, b)
           /\ {f} \in SUBSET Files /\ {} \in SUBSET Files /\ v \in Content
           /\ "write" \in PC /\ b \in Sandboxes \union {Api}
  BY DEF FilesPost, PC, Content
<1>moves. /\ pc'[h] = "write" /\ at'[h] = {f} /\ from'[h] = b /\ cur' = cur
          /\ \A k \in Handlers \ {h} :
               pc'[k] = pc[k] /\ at'[k] = at[k] /\ data'[k] = data[k] /\ from'[k] = from[k]
  BY <1>begins DEF Begin, TypeOK
<1>1. TypeOK'
  BY DEF FilesPost, Inv, TypeOK, PC, Content, volume, Begin
<1>2. Placed'
  BY VolumeAssumption DEF FilesPost, Inv, TypeOK, Placed, Mounting, volume, Begin
<1>3. Apart'
  BY DEF FilesPost, Inv, TypeOK, Apart, volume, Begin
<1>4. Lone'
  BY DEF FilesPost, Inv, TypeOK, Placed, Apart, Lone, Live, Store, S3, volume, Begin
<1>5. Twins'
  <2>. SUFFICES ASSUME Live', S3', NEW g \in Files \ dirty', Even(g)'
                PROVE  /\ scratch'[g] = bucket'[g]
                       /\ \A k \in Handlers : pc'[k] = "copy" /\ cur'[k] = g => data'[k] = bucket'[g]
    BY DEF Twins
  <2>1. TRUE
    BY <1>moves DEF Even
  <2>2. Even(g) /\ g \notin dirty /\ Live /\ S3
    BY <1>moves DEF FilesPost, Even, Live, S3, volume, Known
  <2>3. scratch'[g] = scratch[g] /\ bucket' = bucket
    BY <2>1 DEF FilesPost
  <2>. QED BY <1>moves, <2>2, <2>3 DEF Inv, Twins
<1>6. View'
  <2>. SUFFICES ASSUME Live', NEW s \in Sandboxes, NEW g \in Files \ stale'[s],
                       Has(s, g)', Still(g)'
                PROVE  session'[s][g] = Store'[g] \/ g \in inner'[s]
    BY DEF View
  <2>1. TRUE
    BY <1>moves DEF Still, S3
  <2>2. Still(g) /\ Has(s, g) /\ g \notin stale[s] /\ Live
    BY <1>moves DEF FilesPost, Still, Has, Mounting, Live, S3, volume, Known
  <2>3. session' = session /\ inner' = inner /\ Store'[g] = Store[g]
    BY <2>1 DEF FilesPost, Store, S3, volume
  <2>. QED BY <2>2, <2>3 DEF Inv, View
<1>. QED BY <1>1, <1>2, <1>3, <1>4, <1>5, <1>6 DEF Inv

\* The sandbox's copy goes ahead of the volume's; the file is not still.
LEMMA ToolsWriteKeeps ==
  ASSUME Inv, NEW h \in Handlers, ToolsWrite(h)
  PROVE  Inv'
<1>1. TypeOK'
  <2>1. PICK f \in Files : Assigned(from[h], f, data[h])
    BY DEF ToolsWrite, Assigned, Inv, TypeOK
  <2>2. from[h] \in Sandboxes /\ data[h] \in Content
    BY DEF ToolsWrite, Inv, TypeOK, Placed
  <2>3. session' \in [Sandboxes -> [Files -> Content]]
    BY <2>1, <2>2, SessionFacts DEF Inv
  <2>. QED BY <2>3 DEF ToolsWrite, Inv, TypeOK, Goto, volume, PC
<1>2. Placed'
  BY VolumeAssumption DEF ToolsWrite, Inv, TypeOK, Placed, Mounting, volume, Goto
<1>3. Apart'
  BY DEF ToolsWrite, Inv, TypeOK, Apart, volume, Goto
<1>4. Lone'
  BY DEF ToolsWrite, Inv, TypeOK, Placed, Apart, Lone, Live, Store, S3, volume, Goto
<1>5. Twins'
  <2>. SUFFICES ASSUME Live', S3', NEW g \in Files \ dirty', Even(g)'
                PROVE  /\ scratch'[g] = bucket'[g]
                       /\ \A k \in Handlers : pc'[k] = "copy" /\ cur'[k] = g => data'[k] = bucket'[g]
    BY DEF Twins
  <2>1. Live /\ S3 /\ g \notin dirty /\ scratch' = scratch /\ bucket' = bucket
    BY DEF ToolsWrite, Live, S3, volume
  <2>2. pc[h] = "write" /\ pc'[h] = "mirror" /\ at' = at /\ cur' = cur /\ data' = data
        /\ \A k \in Handlers \ {h} : pc'[k] = pc[k]
    BY DEF ToolsWrite, Goto, Inv, TypeOK
  <2>3. Even(g)
    BY <2>2 DEF Even
  <2>. QED BY <2>1, <2>2, <2>3 DEF Inv, Twins
<1>6. View'
  BY DEF ToolsWrite, Inv, TypeOK, Placed, Apart, Lone, View, Still, Has, Live,
    Mounting, Store, S3, volume, Goto
<1>. QED BY <1>1, <1>2, <1>3, <1>4, <1>5, <1>6 DEF Inv

\* The sandbox's copy may have changed and nothing will follow it.
LEMMA ToolsWriteFailsKeeps ==
  ASSUME Inv, NEW h \in Handlers, ToolsWriteFails(h)
  PROVE  Inv'
<1>a. PICK f \in at[h] :
        /\ session' \in {session, [session EXCEPT ![from[h]][f] = data[h]]}
        /\ stale' = [stale EXCEPT ![from[h]] = @ \union {f}]
        /\ dirty' = dirty \union (clash[h] \intersect {f})
  BY DEF ToolsWriteFails
<1>. f \in Files /\ pc[h] = "write"
  BY DEF ToolsWriteFails, Inv, TypeOK
<1>. TypeOK /\ Return(h) /\ from[h] \in Sandboxes /\ data[h] \in Content
  BY DEF ToolsWriteFails, Inv, Placed, TypeOK
<1>b. /\ session' \in [Sandboxes -> [Files -> Content]]
      /\ \A s \in Sandboxes, g \in Files : s # from[h] \/ g # f => session'[s][g] = session[s][g]
  <2>1. CASE session' = session
    BY <2>1 DEF TypeOK
  <2>2. CASE session' = [session EXCEPT ![from[h]][f] = data[h]]
    <3>1. Assigned(from[h], f, data[h])
      BY <2>2 DEF Assigned
    <3>. QED BY <3>1, SessionFacts
  <2>. QED BY <1>a, <2>1, <2>2
<1>1. TypeOK'
  <2>1. stale' \in [Sandboxes -> SUBSET Files] /\ dirty' \in SUBSET Files
    BY <1>a DEF TypeOK
  <2>. QED BY <1>b, <2>1, ReturnFacts DEF ToolsWriteFails, TypeOK, volume
<1>2. Placed'
  BY VolumeAssumption DEF ToolsWriteFails, Inv, TypeOK, Placed, Mounting, volume,
    Return
<1>3. Apart'
  BY DEF ToolsWriteFails, Inv, TypeOK, Apart, volume, Return
<1>4. Lone'
  <2>. SUFFICES ASSUME Live', NEW k \in Handlers, NEW g \in at'[k] \ clash'[k]
                PROVE  /\ pc'[k] = "put" =>
                            /\ scratch'[g] = data'[k]
                            /\ from'[k] \in Sandboxes =>
                                 session'[from'[k]][g] = data'[k] \/ g \in inner'[from'[k]]
                       /\ pc'[k] = "mirror" =>
                            session'[from'[k]][g] = data'[k] \/ g \in inner'[from'[k]]
                       /\ pc'[k] \in {"list", "delete"} => scratch'[g] = NoData
                       /\ pc'[k] = "copy" /\ cur'[k] = g => data'[k] = Store'[g]
    BY DEF Lone
  <2>0. /\ k # h /\ pc'[k] = pc[k] /\ at'[k] = at[k] /\ data'[k] = data[k] /\ from'[k] = from[k]
        /\ cur'[k] = cur[k] /\ clash'[k] = clash[k] /\ scratch' = scratch /\ Store' = Store
        /\ inner' = inner
    BY ReturnFacts DEF ToolsWriteFails, Store, S3, volume
  <2>1. g # f /\ g \in Files
    BY <1>a, <2>0 DEF Inv, Apart, TypeOK
  <2>2. Live /\ (pc[k] = "mirror" => from[k] \in Sandboxes)
    BY DEF ToolsWriteFails, Live, volume, Inv, Placed
  <2>3. \A s \in Sandboxes : session'[s][g] = session[s][g]
    BY <1>b, <2>1
  <2>. QED BY <2>0, <2>2, <2>3 DEF Inv, Lone
<1>5. Twins'
  BY DEF ToolsWriteFails, Inv, TypeOK, Placed, Apart, Lone, Twins, Even, Live, S3,
    Store, volume, Return
<1>6. View'
  <2>. SUFFICES ASSUME Live', NEW s \in Sandboxes, NEW g \in Files \ stale'[s],
                       Has(s, g)', Still(g)'
                PROVE  session'[s][g] = Store'[g] \/ g \in inner'[s]
    BY DEF View
  <2>1. s # from[h] \/ g # f
    BY <1>a DEF TypeOK
  <2>2. Still(g) /\ Has(s, g)
    BY <1>a, ReturnFacts DEF ToolsWriteFails, Still, Has, Mounting, S3, volume
  <2>3. Live /\ g \notin stale[s] /\ Store' = Store /\ inner' = inner
    BY <1>a DEF ToolsWriteFails, Live, S3, Store, volume, TypeOK
  <2>. QED BY <1>b, <2>1, <2>2, <2>3 DEF Inv, View
<1>. QED BY <1>1, <1>2, <1>3, <1>4, <1>5, <1>6 DEF Inv

\* Scratch follows the sandbox, or the mirror finds a record gone and gives up.
LEMMA MirrorWriteKeeps ==
  ASSUME Inv, NEW h \in Handlers, MirrorWrite(h)
  PROVE  Inv'
<1>a. PICK f \in Files : /\ pc[h] = "mirror" /\ at[h] = {f}
                          /\ \/ WriteScratch(f, data[h]) /\ Goto(h, "put") /\ dirty' = dirty /\ stale' = stale
                             \/ Unsettled({f}) /\ Return(h) /\ dirs' = dirs /\ scratch' = scratch
  BY DEF MirrorWrite, Inv, Placed
<1>. TypeOK /\ from[h] \in Sandboxes /\ data[h] \in Content
  BY <1>a DEF Inv, Placed, TypeOK
<1>b. /\ scratch' \in [Files -> Content] /\ dirs' \in SUBSET Dirs
      /\ \A g \in Files \ {f} : scratch'[g] = scratch[g]
  BY <1>a, ScratchFacts DEF TypeOK
<1>c. /\ dirty' \in SUBSET Files /\ stale' \in [Sandboxes -> SUBSET Files]
      /\ \A g \in Files \ {f} : g \in dirty' <=> g \in dirty
      /\ \A s \in Sandboxes, g \in Files \ {f} : g \in stale'[s] <=> g \in stale[s]
      /\ pc'[h] # "put" => f \in dirty' /\ \A s \in Sandboxes : f \in stale'[s]
  BY <1>a, UnsettledFacts DEF Goto, TypeOK
<1>d. /\ pc' \in [Handlers -> PC] /\ at' \in [Handlers -> SUBSET Files]
      /\ data' \in [Handlers -> Content] /\ from' \in [Handlers -> Sandboxes \union {Api}]
      /\ clash' \in [Handlers -> SUBSET Files] /\ cur' \in [Handlers -> Files \union {NoFile}]
      /\ \/ /\ pc'[h] = "put" /\ at'[h] = {f}
            /\ from'[h] = from[h] /\ data'[h] = data[h] /\ clash'[h] = clash[h]
         \/ pc'[h] = "idle" /\ at'[h] = {} /\ from'[h] = Api
      /\ \A k \in Handlers \ {h} :
           /\ pc'[k] = pc[k] /\ at'[k] = at[k] /\ data'[k] = data[k] /\ from'[k] = from[k]
           /\ cur'[k] = cur[k] /\ clash'[k] = clash[k]
  <2>1. CASE Goto(h, "put")
    BY <1>a, <2>1 DEF Goto, TypeOK, PC
  <2>2. CASE Return(h)
    BY <2>2, ReturnFacts DEF Return
  <2>. QED BY <1>a, <2>1, <2>2
<1>1. TypeOK'
  BY <1>b, <1>c, <1>d DEF MirrorWrite, TypeOK, volume
<1>2. Placed'
  BY <1>a, <1>d, VolumeAssumption DEF MirrorWrite, Inv, Placed, Mounting
<1>3. Apart'
  BY <1>a, <1>d DEF Inv, Apart
<1>4. Lone'
  <2>. SUFFICES ASSUME Live', NEW k \in Handlers, NEW g \in at'[k] \ clash'[k]
                PROVE  /\ pc'[k] = "put" =>
                            /\ scratch'[g] = data'[k]
                            /\ from'[k] \in Sandboxes =>
                                 session'[from'[k]][g] = data'[k] \/ g \in inner'[from'[k]]
                       /\ pc'[k] = "mirror" =>
                            session'[from'[k]][g] = data'[k] \/ g \in inner'[from'[k]]
                       /\ pc'[k] \in {"list", "delete"} => scratch'[g] = NoData
                       /\ pc'[k] = "copy" /\ cur'[k] = g => data'[k] = Store'[g]
    BY DEF Lone
  <2>0. Live /\ session' = session /\ inner' = inner /\ bucket' = bucket /\ (S3' <=> S3)
    BY DEF MirrorWrite, Live, S3, volume
  <2>1. CASE k = h
    <3>1. pc'[h] = "put" /\ g = f /\ g \in at[h] \ clash[h]
      BY <1>a, <1>d, <2>1
    <3>2. scratch'[f] = data[h]
      BY <1>a, <3>1, ScratchFacts DEF Return, TypeOK
    <3>. QED BY <1>a, <1>d, <2>0, <2>1, <3>1, <3>2 DEF Inv, Lone
  <2>2. CASE k # h
    <3>1. g \in at[k] \ clash[k] /\ g # f /\ g \in Files
      BY <1>a, <1>d, <2>2 DEF Inv, Apart, TypeOK
    <3>2. scratch'[g] = scratch[g] /\ Store'[g] = Store[g]
      BY <1>b, <2>0, <3>1 DEF Store
    <3>. QED BY <1>d, <2>0, <2>2, <3>1, <3>2 DEF Inv, Lone
  <2>. QED BY <2>1, <2>2
<1>5. Twins'
  <2>. SUFFICES ASSUME Live', S3', NEW g \in Files \ dirty', Even(g)'
                PROVE  /\ scratch'[g] = bucket'[g]
                       /\ \A k \in Handlers : pc'[k] = "copy" /\ cur'[k] = g => data'[k] = bucket'[g]
    BY DEF Twins
  <2>1. g # f
    BY <1>c, <1>d DEF Even
  <2>2. Even(g) /\ g \notin dirty /\ Live /\ S3
    BY <1>a, <1>c, <1>d, <2>1 DEF MirrorWrite, Even, Live, S3, volume
  <2>3. scratch'[g] = scratch[g] /\ bucket' = bucket
    BY <1>b, <2>1 DEF MirrorWrite
  <2>. QED BY <1>d, <2>2, <2>3 DEF Inv, Twins
<1>6. View'
  <2>. SUFFICES ASSUME Live', NEW s \in Sandboxes, NEW g \in Files \ stale'[s],
                       Has(s, g)', Still(g)'
                PROVE  session'[s][g] = Store'[g] \/ g \in inner'[s]
    BY DEF View
  <2>1. g # f
    BY <1>c, <1>d DEF Still
  <2>2. Still(g) /\ Has(s, g) /\ g \notin stale[s] /\ Live
    BY <1>a, <1>c, <1>d, <2>1 DEF MirrorWrite, Still, Has, Mounting, Live, S3, volume
  <2>3. session' = session /\ inner' = inner /\ Store'[g] = Store[g]
    BY <1>b, <2>1 DEF MirrorWrite, Store, S3, volume
  <2>. QED BY <2>2, <2>3 DEF Inv, View
<1>. QED BY <1>1, <1>2, <1>3, <1>4, <1>5, <1>6 DEF Inv

\* Scratch has lost the file; the object is still to go.
LEMMA RemoveFileKeeps ==
  ASSUME Inv, NEW h \in Handlers, NEW f \in Files, RemoveFile(h, f)
  PROVE  Inv'
<1>. TypeOK /\ at[h] = {} /\ pc[h] = "idle"
  BY DEF RemoveFile, Inv, Placed
<1>begins. /\ Begin(h, "delete", {f}, {}, NoData, Api)
           /\ {f} \in SUBSET Files /\ {} \in SUBSET Files /\ NoData \in Content
           /\ "delete" \in PC /\ Api \in Sandboxes \union {Api}
  BY DEF RemoveFile, PC, Content
<1>moves. /\ pc'[h] = "delete" /\ at'[h] = {f} /\ from'[h] = Api /\ cur' = cur
          /\ \A k \in Handlers \ {h} :
               pc'[k] = pc[k] /\ at'[k] = at[k] /\ data'[k] = data[k] /\ from'[k] = from[k]
  BY <1>begins DEF Begin, TypeOK
<1>1. TypeOK'
  BY DEF RemoveFile, Inv, TypeOK, PC, Content, volume, Known, Begin
<1>2. Placed'
  BY VolumeAssumption DEF RemoveFile, Inv, TypeOK, Placed, Mounting, volume, Known,
    Begin
<1>3. Apart'
  BY DEF RemoveFile, Inv, TypeOK, Apart, volume, Known, Begin
<1>4. Lone'
  BY VolumeAssumption DEF RemoveFile, Inv, TypeOK, Placed, Apart, Lone, Live, Store,
    S3, volume, Known, Begin
<1>5. Twins'
  <2>. SUFFICES ASSUME Live', S3', NEW g \in Files \ dirty', Even(g)'
                PROVE  /\ scratch'[g] = bucket'[g]
                       /\ \A k \in Handlers : pc'[k] = "copy" /\ cur'[k] = g => data'[k] = bucket'[g]
    BY DEF Twins
  <2>1. g # f
    BY <1>moves DEF Even
  <2>2. Even(g) /\ g \notin dirty /\ Live /\ S3
    BY <1>moves DEF RemoveFile, Even, Live, S3, volume, Known
  <2>3. scratch'[g] = scratch[g] /\ bucket' = bucket
    BY <2>1 DEF RemoveFile, TypeOK
  <2>. QED BY <1>moves, <2>2, <2>3 DEF Inv, Twins
<1>6. View'
  <2>. SUFFICES ASSUME Live', NEW s \in Sandboxes, NEW g \in Files \ stale'[s],
                       Has(s, g)', Still(g)'
                PROVE  session'[s][g] = Store'[g] \/ g \in inner'[s]
    BY DEF View
  <2>1. g # f
    BY <1>moves DEF Still, S3
  <2>2. Still(g) /\ Has(s, g) /\ g \notin stale[s] /\ Live
    BY <1>moves DEF RemoveFile, Still, Has, Mounting, Live, S3, volume, Known
  <2>3. session' = session /\ inner' = inner /\ Store'[g] = Store[g]
    BY <2>1 DEF RemoveFile, TypeOK, Store, S3, volume
  <2>. QED BY <2>2, <2>3 DEF Inv, View
<1>. QED BY <1>1, <1>2, <1>3, <1>4, <1>5, <1>6 DEF Inv

\* Scratch has lost the files below d; the prefix takes in more than those,
\* and the ones that are not below count as disturbed.
LEMMA RemoveDirKeeps ==
  ASSUME Inv, NEW h \in Handlers, NEW d \in Dirs, RemoveDir(h, d)
  PROVE  Inv'
<1>. TypeOK /\ at[h] = {} /\ pc[h] = "idle"
  BY DEF RemoveDir, Inv, Placed
<1>begins. /\ Begin(h, "list", Prefixed[d], Prefixed[d] \ Under[d], NoData, Api)
           /\ Prefixed[d] \in SUBSET Files /\ Prefixed[d] \ Under[d] \in SUBSET Files /\ NoData \in Content
           /\ "list" \in PC /\ Api \in Sandboxes \union {Api}
  BY VolumeAssumption DEF RemoveDir, PC, Content
<1>moves. /\ pc'[h] = "list" /\ at'[h] = Prefixed[d] /\ from'[h] = Api /\ cur' = cur
          /\ \A k \in Handlers \ {h} :
               pc'[k] = pc[k] /\ at'[k] = at[k] /\ data'[k] = data[k] /\ from'[k] = from[k]
  BY <1>begins DEF Begin, TypeOK
<1>1. TypeOK'
  BY VolumeAssumption DEF RemoveDir, Inv, TypeOK, PC, Content, volume, Known, Begin
<1>2. Placed'
  BY VolumeAssumption DEF RemoveDir, Inv, TypeOK, Placed, Mounting, volume, Known,
    Begin
<1>3. Apart'
  BY VolumeAssumption DEF RemoveDir, Inv, TypeOK, Apart, volume, Known, Begin
<1>4. Lone'
  BY VolumeAssumption DEF RemoveDir, Inv, TypeOK, Placed, Apart, Lone, Live, Store,
    S3, volume, Known, Begin
<1>5. Twins'
  <2>. SUFFICES ASSUME Live', S3', NEW g \in Files \ dirty', Even(g)'
                PROVE  /\ scratch'[g] = bucket'[g]
                       /\ \A k \in Handlers : pc'[k] = "copy" /\ cur'[k] = g => data'[k] = bucket'[g]
    BY DEF Twins
  <2>1. g \notin Prefixed[d]
    BY <1>moves DEF Even
  <2>2. Even(g) /\ g \notin dirty /\ Live /\ S3
    BY <1>moves DEF RemoveDir, Even, Live, S3, volume, Known
  <2>3. scratch'[g] = scratch[g] /\ bucket' = bucket
    BY <2>1, VolumeAssumption DEF RemoveDir, TypeOK
  <2>. QED BY <1>moves, <2>2, <2>3 DEF Inv, Twins
<1>6. View'
  <2>. SUFFICES ASSUME Live', NEW s \in Sandboxes, NEW g \in Files \ stale'[s],
                       Has(s, g)', Still(g)'
                PROVE  session'[s][g] = Store'[g] \/ g \in inner'[s]
    BY DEF View
  <2>1. g \in Prefixed[d] => S3'
    BY <1>moves DEF Still, S3
  <2>2. Still(g) /\ Has(s, g) /\ g \notin stale[s] /\ Live
    BY <1>moves DEF RemoveDir, Still, Has, Mounting, Live, S3, volume, Known
  <2>3. session' = session /\ inner' = inner /\ Store'[g] = Store[g]
    BY <2>1, VolumeAssumption DEF RemoveDir, TypeOK, Store, S3, volume
  <2>. QED BY <2>2, <2>3 DEF Inv, View
<1>. QED BY <1>1, <1>2, <1>3, <1>4, <1>5, <1>6 DEF Inv

\* A file without an object leaves the list: undisturbed, it is gone from both.
LEMMA ListPrefixKeeps ==
  ASSUME Inv, NEW h \in Handlers, ListPrefix(h)
  PROVE  Inv'
<1>. DEFINE gone == {f \in at[h] : Store[f] = NoData /\ S3}
<1>. TypeOK /\ pc[h] = "list"
  BY DEF ListPrefix, Inv
<1>a. /\ at'[h] = at[h] \ gone /\ pc'[h] = "delete"
      /\ data' = data /\ from' = from /\ cur' = cur /\ clash' = clash
      /\ \A k \in Handlers \ {h} : pc'[k] = pc[k] /\ at'[k] = at[k]
  BY DEF ListPrefix, TypeOK
<1>b. Unsettled(gone \intersect clash[h])
  <2>1. at[h] \ {f \in at[h] : Store[f] # NoData \/ ~S3} = gone
    OBVIOUS
  <2>. QED BY <2>1 DEF ListPrefix
<1>c. /\ \A f \in Files : f \in dirty' <=> f \in dirty \/ f \in gone \intersect clash[h]
      /\ \A s \in Sandboxes : \A f \in Files :
           f \in stale'[s] <=> f \in stale[s] \/ f \in gone \intersect clash[h]
  BY <1>b, UnsettledFacts DEF TypeOK
<1>1. TypeOK'
  BY DEF ListPrefix, Inv, TypeOK, PC, Content, volume, S3, Unsettled, Store
<1>2. Placed'
  BY VolumeAssumption DEF ListPrefix, Inv, TypeOK, Placed, Mounting, volume, S3,
    Unsettled, Store
<1>3. Apart'
  BY DEF ListPrefix, Inv, TypeOK, Apart, volume, S3, Unsettled, Store
<1>4. Lone'
  BY DEF ListPrefix, Inv, TypeOK, Placed, Apart, Lone, Live, Store, S3, volume,
    Unsettled
<1>5. Twins'
  <2>. SUFFICES ASSUME Live', S3', NEW g \in Files \ dirty', Even(g)'
                PROVE  /\ scratch'[g] = bucket'[g]
                       /\ \A k \in Handlers : pc'[k] = "copy" /\ cur'[k] = g => data'[k] = bucket'[g]
    BY DEF Twins
  <2>1. g \notin dirty /\ Live /\ S3 /\ scratch' = scratch /\ bucket' = bucket
    BY <1>c DEF ListPrefix, Live, S3, volume
  <2>2. CASE g \in at[h]
    <3>1. g \in gone
      BY <1>a, <2>2 DEF Even
    <3>2. g \notin clash[h] /\ bucket[g] = NoData
      BY <1>c, <2>1, <3>1 DEF Store
    <3>3. scratch[g] = NoData
      BY <2>1, <2>2, <3>2 DEF Inv, Lone
    <3>4. \A k \in Handlers : pc'[k] = "copy" => cur'[k] # g
      BY <1>a, <2>2, <3>2 DEF Inv, Placed, Apart
    <3>. QED BY <2>1, <3>2, <3>3, <3>4
  <2>3. CASE g \notin at[h]
    <3>1. Even(g)
      BY <1>a, <2>3 DEF Even
    <3>. QED BY <1>a, <2>1, <3>1 DEF Inv, Twins
  <2>. QED BY <2>2, <2>3
<1>6. View'
  <2>. SUFFICES ASSUME Live', NEW s \in Sandboxes, NEW g \in Files \ stale'[s],
                       Has(s, g)', Still(g)'
                PROVE  session'[s][g] = Store'[g] \/ g \in inner'[s]
    BY DEF View
  <2>1. g \notin stale[s] /\ Live /\ session' = session /\ inner' = inner /\ Store' = Store /\ (S3' <=> S3)
    BY <1>c DEF ListPrefix, Live, S3, Store, volume
  <2>2. Has(s, g)
    BY <1>a DEF ListPrefix, Has, Mounting
  <2>3. g \in at[h] => S3
    BY <1>a DEF Still
  <2>4. Still(g)
    BY <1>a, <2>1, <2>3 DEF Still
  <2>. QED BY <2>1, <2>2, <2>4 DEF Inv, View
<1>. QED BY <1>1, <1>2, <1>3, <1>4, <1>5, <1>6 DEF Inv

\* The object follows the scratch file.
LEMMA DeleteObjectKeeps ==
  ASSUME Inv, NEW h \in Handlers, DeleteObject(h)
  PROVE  Inv'
<1>1. TypeOK'
  <2>1. PICK f \in at[h] : /\ bucket' = IF S3 THEN [bucket EXCEPT ![f] = NoData] ELSE bucket
                           /\ at' = [at EXCEPT ![h] = @ \ {f}]
                           /\ Changed(h, f)
    BY DEF DeleteObject
  <2>2. f \in Files /\ TypeOK
    BY DEF Inv, TypeOK
  <2>3. dirty' \in SUBSET Files /\ stale' \in [Sandboxes -> SUBSET Files]
    BY <2>1, <2>2, ChangedFacts
  <2>4. bucket' \in [Files -> Content] /\ at' \in [Handlers -> SUBSET Files]
    BY <2>1, <2>2 DEF TypeOK, Content
  <2>. QED BY <2>2, <2>3, <2>4 DEF DeleteObject, TypeOK, volume
<1>2. Placed'
  <2>1. PICK f \in at[h] : at' = [at EXCEPT ![h] = @ \ {f}]
    BY DEF DeleteObject
  <2>2. pc[h] = "delete" /\ UNCHANGED <<mounted, pc, cur, from>>
        /\ \A k \in Handlers \ {h} : at'[k] = at[k]
    BY <2>1 DEF DeleteObject, Inv, TypeOK
  <2>. QED BY <2>2 DEF Inv, Placed, Mounting
<1>3. Apart'
  BY DEF DeleteObject, Inv, TypeOK, Apart, volume, S3, Unsettled, Changed, Settled
<1>4. Lone'
  BY DEF DeleteObject, Inv, TypeOK, Placed, Apart, Lone, Live, Store, S3, volume,
    Unsettled, Changed, Settled
<1>5. Twins'
  BY DEF DeleteObject, Inv, TypeOK, Placed, Apart, Lone, Twins, Even, Live, S3, Store,
    volume, Unsettled, Changed, Settled
<1>6. View'
  <2>. SUFFICES ASSUME Live', NEW s \in Sandboxes, NEW g \in Files \ stale'[s],
                       Has(s, g)', Still(g)'
                PROVE  session'[s][g] = Store'[g] \/ g \in inner'[s]
    BY DEF View
  <2>0. PICK f \in at[h] : /\ bucket' = IF S3 THEN [bucket EXCEPT ![f] = NoData] ELSE bucket
                           /\ at' = [at EXCEPT ![h] = @ \ {f}]
                           /\ Changed(h, f)
    BY DEF DeleteObject
  <2>1. f \in Files /\ pc[h] = "delete" /\ pc' = pc /\ from' = from /\ TypeOK
    BY DEF DeleteObject, Inv, TypeOK
  <2>2. from[h] \notin Sandboxes
    BY <2>1, VolumeAssumption DEF Inv, Placed
  <2>3. g # f /\ g \notin stale[s]
    BY <2>0, <2>1, <2>2, ChangedFacts
  <2>4. \A k \in Handlers : g \in at[k] <=> g \in at'[k]
    <3>1. at'[h] = at[h] \ {f} /\ \A k \in Handlers \ {h} : at'[k] = at[k]
      BY <2>0, <2>1 DEF TypeOK
    <3>. QED BY <2>3, <3>1
  <2>5. Still(g) /\ Has(s, g) /\ Live
    BY <2>1, <2>4 DEF DeleteObject, Still, Has, Mounting, Live, S3, volume
  <2>6. session' = session /\ inner' = inner /\ Store'[g] = Store[g]
    BY <2>0, <2>1, <2>3 DEF DeleteObject, Store, S3, volume, Inv, TypeOK
  <2>. QED BY <2>3, <2>5, <2>6 DEF Inv, View
<1>. QED BY <1>1, <1>2, <1>3, <1>4, <1>5, <1>6 DEF Inv

\* A delete ends with nothing left to treat.
LEMMA DeleteDoneKeeps ==
  ASSUME Inv, NEW h \in Handlers, DeleteDone(h)
  PROVE  Inv'
<1>1. TypeOK'
  BY DEF DeleteDone, Inv, TypeOK, PC, Content, volume, Return
<1>2. Placed'
  BY VolumeAssumption DEF DeleteDone, Inv, TypeOK, Placed, Mounting, volume, Return
<1>3. Apart'
  BY DEF DeleteDone, Inv, TypeOK, Apart, volume, Return
<1>4. Lone'
  BY DEF DeleteDone, Inv, TypeOK, Placed, Apart, Lone, Live, Store, S3, volume, Return
<1>5. Twins'
  BY DEF DeleteDone, Inv, TypeOK, Placed, Apart, Lone, Twins, Even, Live, S3, Store,
    volume, Return
<1>6. View'
  BY DEF DeleteDone, Inv, TypeOK, Placed, Apart, Lone, View, Still, Has, Live,
    Mounting, Store, S3, volume, Return
<1>. QED BY <1>1, <1>2, <1>3, <1>4, <1>5, <1>6 DEF Inv

\* What the delete had still to treat is dirty and stale.
LEMMA DeleteFailsKeeps ==
  ASSUME Inv, NEW h \in Handlers, DeleteFails(h)
  PROVE  Inv'
<1>1. TypeOK'
  BY DEF DeleteFails, Inv, TypeOK, PC, Content, volume, S3, Return, Unsettled
<1>2. Placed'
  BY VolumeAssumption DEF DeleteFails, Inv, TypeOK, Placed, Mounting, volume, S3,
    Return, Unsettled
<1>3. Apart'
  BY DEF DeleteFails, Inv, TypeOK, Apart, volume, S3, Return, Unsettled
<1>4. Lone'
  BY DEF DeleteFails, Inv, TypeOK, Placed, Apart, Lone, Live, Store, S3, volume,
    Return, Unsettled
<1>5. Twins'
  BY DEF DeleteFails, Inv, TypeOK, Placed, Apart, Lone, Twins, Even, Live, S3, Store,
    volume, Return, Unsettled
<1>6. View'
  <2>. SUFFICES ASSUME Live', NEW s \in Sandboxes, NEW g \in Files \ stale'[s],
                       Has(s, g)', Still(g)'
                PROVE  session'[s][g] = Store'[g] \/ g \in inner'[s]
    BY DEF View
  <2>0. TypeOK /\ Return(h) /\ Unsettled(at[h]) /\ at[h] \in SUBSET Files
        /\ pc[h] \in {"list", "delete"}
    BY DEF DeleteFails, Inv, TypeOK
  <2>1. g \notin stale[s] /\ g \notin at[h]
    BY <2>0, UnsettledFacts
  <2>2. Still(g) /\ Has(s, g) /\ Live
    BY <2>0, <2>1, ReturnFacts DEF DeleteFails, Still, Has, Mounting, Live, S3, volume
  <2>3. session' = session /\ inner' = inner /\ Store'[g] = Store[g]
    BY <2>0, <2>1 DEF DeleteFails, Store, S3, volume, TypeOK
  <2>. QED BY <2>1, <2>2, <2>3 DEF Inv, View
<1>. QED BY <1>1, <1>2, <1>3, <1>4, <1>5, <1>6 DEF Inv

\* Directories are in no copy of a file.
LEMMA VolumeDirPostKeeps ==
  ASSUME Inv, NEW d \in Dirs, VolumeDirPost(d)
  PROVE  Inv'
<1>1. TypeOK'
  BY DEF VolumeDirPost, Inv, TypeOK, PC, Content, volume, handler, Known
<1>2. Placed'
  BY VolumeAssumption DEF VolumeDirPost, Inv, TypeOK, Placed, Mounting, volume,
    handler, Known
<1>3. Apart'
  BY DEF VolumeDirPost, Inv, TypeOK, Apart, volume, handler, Known
<1>4. Lone'
  BY DEF VolumeDirPost, Inv, TypeOK, Placed, Apart, Lone, Live, Store, S3, volume,
    handler, Known
<1>5. Twins'
  BY DEF VolumeDirPost, Inv, TypeOK, Placed, Apart, Lone, Twins, Even, Live, S3,
    Store, volume, handler, Known
<1>6. View'
  BY DEF VolumeDirPost, Inv, TypeOK, Placed, Apart, Lone, View, Still, Has, Live,
    Mounting, Store, S3, volume, handler, Known
<1>. QED BY <1>1, <1>2, <1>3, <1>4, <1>5, <1>6 DEF Inv

\* The mount point is empty: what is not in the list is in no copy of the store.
LEMMA MountKeeps ==
  ASSUME Inv, NEW h \in Handlers, NEW b \in Sandboxes, Mount(h, b)
  PROVE  Inv'
<1>. TypeOK /\ at[h] = {} /\ pc[h] = "idle"
  BY DEF Mount, Inv, Placed
<1>begins. /\ Begin(h, "get", {f \in Files : Store[f] # NoData}, {}, NoData, b)
           /\ {f \in Files : Store[f] # NoData} \in SUBSET Files /\ {} \in SUBSET Files /\ NoData \in Content
           /\ "get" \in PC /\ b \in Sandboxes \union {Api}
  BY DEF Mount, PC, Content
<1>moves. /\ pc'[h] = "get" /\ at'[h] = {f \in Files : Store[f] # NoData} /\ from'[h] = b /\ cur' = cur
          /\ \A k \in Handlers \ {h} :
               pc'[k] = pc[k] /\ at'[k] = at[k] /\ data'[k] = data[k] /\ from'[k] = from[k]
  BY <1>begins DEF Begin, TypeOK
<1>1. TypeOK'
  BY DEF Mount, Inv, TypeOK, PC, Content, volume, Known, S3, Begin, Store
<1>2. Placed'
  BY VolumeAssumption DEF Mount, Inv, TypeOK, Placed, Mounting, volume, Known, S3,
    Begin, Store
<1>3. Apart'
  BY DEF Mount, Inv, TypeOK, Apart, volume, Known, S3, Begin, Store
<1>4. Lone'
  BY DEF Mount, Inv, TypeOK, Placed, Apart, Lone, Live, Store, S3, volume, Known,
    Begin
<1>5. Twins'
  <2>. SUFFICES ASSUME Live', S3', NEW g \in Files \ dirty', Even(g)'
                PROVE  /\ scratch'[g] = bucket'[g]
                       /\ \A k \in Handlers : pc'[k] = "copy" /\ cur'[k] = g => data'[k] = bucket'[g]
    BY DEF Twins
  <2>1. TRUE
    BY <1>moves DEF Even
  <2>2. Even(g) /\ g \notin dirty /\ Live /\ S3
    BY <1>moves DEF Mount, Even, Live, S3, volume, Known
  <2>3. scratch'[g] = scratch[g] /\ bucket' = bucket
    BY <2>1 DEF Mount
  <2>. QED BY <1>moves, <2>2, <2>3 DEF Inv, Twins
<1>6. View'
  <2>. SUFFICES ASSUME Live', NEW s \in Sandboxes, NEW g \in Files \ stale'[s],
                       Has(s, g)', Still(g)'
                PROVE  session'[s][g] = Store'[g] \/ g \in inner'[s]
    BY DEF View
  <2>1. Still(g) /\ Live /\ Store' = Store
    BY <1>moves DEF Mount, Still, Live, S3, volume, Known, Store
  <2>2. CASE s = b
    <3>1. mounted'[b] = "mounting"
      BY DEF Mount, TypeOK
    <3>2. Store[g] = NoData
      BY <1>moves, <2>2, <3>1 DEF Has, Mounting
    <3>3. session'[b][g] = NoData
      BY DEF Mount, TypeOK
    <3>. QED BY <2>1, <2>2, <3>2, <3>3
  <2>3. CASE s # b
    <3>1. mounted'[s] = mounted[s] /\ session'[s] = session[s] /\ stale'[s] = stale[s]
          /\ inner' = inner
      BY <2>3 DEF Mount, TypeOK
    <3>2. Has(s, g)
      BY <1>moves, <2>3, <3>1 DEF Has, Mounting
    <3>. QED BY <2>1, <3>1, <3>2 DEF Inv, View
  <2>. QED BY <2>2, <2>3
<1>. QED BY <1>1, <1>2, <1>3, <1>4, <1>5, <1>6 DEF Inv

\* The object is fetched as it is now.
LEMMA MountGetKeeps ==
  ASSUME Inv, NEW h \in Handlers, MountGet(h)
  PROVE  Inv'
<1>1. TypeOK'
  BY DEF MountGet, Inv, TypeOK, PC, Content, volume, S3, Store
<1>2. Placed'
  BY VolumeAssumption DEF MountGet, Inv, TypeOK, Placed, Mounting, volume, S3, Store
<1>3. Apart'
  BY DEF MountGet, Inv, TypeOK, Apart, volume, S3, Store
<1>4. Lone'
  BY DEF MountGet, Inv, TypeOK, Placed, Apart, Lone, Live, Store, S3, volume
<1>5. Twins'
  <2>. SUFFICES ASSUME Live', S3', NEW g \in Files \ dirty', Even(g)'
                PROVE  /\ scratch'[g] = bucket'[g]
                       /\ \A k \in Handlers : pc'[k] = "copy" /\ cur'[k] = g => data'[k] = bucket'[g]
    BY DEF Twins
  <2>1. PICK f \in at[h] : data' = [data EXCEPT ![h] = Store[f]] /\ cur' = [cur EXCEPT ![h] = f]
    BY DEF MountGet
  <2>2. /\ pc[h] = "get" /\ pc'[h] = "copy" /\ at' = at
        /\ data'[h] = Store[f] /\ cur'[h] = f
        /\ \A k \in Handlers \ {h} : pc'[k] = pc[k] /\ data'[k] = data[k] /\ cur'[k] = cur[k]
    BY <2>1 DEF MountGet, Inv, TypeOK
  <2>3. Live /\ S3 /\ g \notin dirty /\ scratch' = scratch /\ bucket' = bucket
    BY DEF MountGet, Live, S3, volume
  <2>4. Even(g)
    BY <2>2 DEF Even
  <2>. QED BY <2>2, <2>3, <2>4 DEF Inv, Twins, Store
<1>6. View'
  <2>. SUFFICES ASSUME Live', NEW s \in Sandboxes, NEW g \in Files \ stale'[s],
                       Has(s, g)', Still(g)'
                PROVE  session'[s][g] = Store'[g] \/ g \in inner'[s]
    BY DEF View
  <2>1. Live /\ g \notin stale[s] /\ session' = session /\ inner' = inner /\ Store' = Store
    BY DEF MountGet, Live, Store, S3, volume
  <2>2. pc[h] = "get" /\ pc'[h] = "copy" /\ at' = at /\ from' = from /\ mounted' = mounted
        /\ \A k \in Handlers \ {h} : pc'[k] = pc[k]
    BY DEF MountGet, Inv, TypeOK
  <2>3. Still(g) /\ Has(s, g)
    BY <2>2 DEF MountGet, Still, Has, Mounting, S3, volume
  <2>. QED BY <2>1, <2>3 DEF Inv, View
<1>. QED BY <1>1, <1>2, <1>3, <1>4, <1>5, <1>6 DEF Inv

\* What is passed over has been deleted by somebody else.
LEMMA MountSkipKeeps ==
  ASSUME Inv, NEW h \in Handlers, MountSkip(h)
  PROVE  Inv'
<1>a. PICK f \in at[h] : /\ at' = [at EXCEPT ![h] = @ \ {f}]
                         /\ stale' = [stale EXCEPT ![from[h]] = @ \union {f}]
  BY DEF MountSkip
<1>. /\ TypeOK /\ pc[h] = "get" /\ f \in Files /\ from[h] \in Sandboxes
     /\ mounted[from[h]] = "mounting"
  BY DEF MountSkip, Inv, TypeOK, Placed, Mounting
<1>b. /\ at' \in [Handlers -> SUBSET Files] /\ at'[h] = at[h] \ {f}
      /\ \A k \in Handlers \ {h} : at'[k] = at[k]
      /\ stale' \in [Sandboxes -> SUBSET Files] /\ f \in stale'[from[h]]
      /\ \A s \in Sandboxes : stale[s] \subseteq stale'[s]
  BY <1>a DEF TypeOK
<1>1. TypeOK'
  BY <1>b DEF MountSkip, TypeOK, volume
<1>2. Placed'
  BY <1>b DEF MountSkip, Inv, Placed, Mounting, volume
<1>3. Apart'
  BY <1>b DEF MountSkip, Inv, Apart
<1>4. Lone'
  BY <1>b DEF MountSkip, Inv, Lone, Live, Store, S3, volume
<1>5. Twins'
  BY DEF MountSkip, Twins, S3, volume
<1>6. View'
  <2>. SUFFICES ASSUME Live', NEW s \in Sandboxes, NEW g \in Files \ stale'[s],
                       Has(s, g)', Still(g)'
                PROVE  session'[s][g] = Store'[g] \/ g \in inner'[s]
    BY DEF View
  <2>1. g # f \/ s # from[h]
    BY <1>b
  <2>2. Has(s, g) /\ Still(g) /\ g \notin stale[s]
    BY <1>b, <2>1 DEF MountSkip, Has, Still, Mounting, S3, volume
  <2>. QED BY <2>2 DEF MountSkip, Inv, View, Live, Store, S3, volume
<1>. QED BY <1>1, <1>2, <1>3, <1>4, <1>5, <1>6 DEF Inv

\* Undisturbed, what was fetched is still what the store holds, and scratch
\* and session get it together.
LEMMA MountCopyKeeps ==
  ASSUME Inv, NEW h \in Handlers, MountCopy(h)
  PROVE  Inv'
<1>f. PICK f \in Files : f = cur[h]
  BY DEF MountCopy, Inv, Placed, TypeOK
<1>. TypeOK /\ pc[h] = "copy" /\ f \in at[h] /\ f \in Files
     /\ from[h] \in Sandboxes /\ data[h] \in Content /\ mounted[from[h]] = "mounting"
  BY <1>f DEF MountCopy, Inv, Placed, Mounting, TypeOK
<1>s. session' = [session EXCEPT ![from[h]][f] = data[h]]
  BY <1>f DEF MountCopy
<1>a. /\ IF S3 THEN WriteScratch(f, data[h]) ELSE scratch' = scratch /\ dirs' = dirs
      /\ IF f \in clash[h] THEN Unsettled({f}) ELSE dirty' = dirty \ {f} /\ stale' = stale
  BY <1>f DEF MountCopy
<1>b. /\ pc'[h] = "get" /\ at'[h] = at[h] \ {f}
      /\ vol' = vol /\ backend' = backend /\ bucket' = bucket /\ mounted' = mounted
      /\ data' = data /\ cur' = cur /\ from' = from /\ clash' = clash /\ inner' = inner
      /\ \A k \in Handlers \ {h} : pc'[k] = pc[k] /\ at'[k] = at[k]
  BY <1>f DEF MountCopy, TypeOK, volume
<1>c. /\ dirty' \in SUBSET Files /\ stale' \in [Sandboxes -> SUBSET Files]
      /\ \A g \in Files \ {f} : g \in dirty' <=> g \in dirty
      /\ \A s \in Sandboxes, g \in Files : g \notin stale'[s] => g \notin stale[s]
      /\ f \in clash[h] => f \in dirty' /\ \A s \in Sandboxes : f \in stale'[s]
  <2>1. CASE f \in clash[h]
    BY <1>a, <2>1, UnsettledFacts
  <2>2. CASE f \notin clash[h]
    BY <1>a, <2>2 DEF TypeOK
  <2>. QED BY <2>1, <2>2
<1>d. /\ session' \in [Sandboxes -> [Files -> Content]] /\ session'[from[h]][f] = data[h]
      /\ \A s \in Sandboxes : \A g \in Files :
           s # from[h] \/ g # f => session'[s][g] = session[s][g]
  <2>1. Assigned(from[h], f, data[h])
    BY <1>s DEF Assigned
  <2>. QED BY <2>1, SessionFacts
<1>e. /\ scratch' \in [Files -> Content] /\ dirs' \in SUBSET Dirs
      /\ ~S3 => scratch' = scratch
      /\ S3 => scratch'[f] = data[h]
      /\ \A g \in Files \ {f} : scratch'[g] = scratch[g]
  BY <1>a, ScratchFacts DEF TypeOK
<1>1. TypeOK'
  <2>1. pc' \in [Handlers -> PC] /\ at' \in [Handlers -> SUBSET Files]
    BY DEF MountCopy, TypeOK, PC
  <2>. QED BY <1>b, <1>c, <1>d, <1>e, <2>1 DEF TypeOK
<1>2. Placed'
  BY <1>b, <1>f DEF Inv, Placed, Mounting
<1>3. Apart'
  BY <1>b DEF Inv, Apart
<1>4. Lone'
  <2>. SUFFICES ASSUME Live', NEW k \in Handlers, NEW g \in at'[k] \ clash'[k]
                PROVE  /\ pc'[k] = "put" =>
                            /\ scratch'[g] = data'[k]
                            /\ from'[k] \in Sandboxes =>
                                 session'[from'[k]][g] = data'[k] \/ g \in inner'[from'[k]]
                       /\ pc'[k] = "mirror" =>
                            session'[from'[k]][g] = data'[k] \/ g \in inner'[from'[k]]
                       /\ pc'[k] \in {"list", "delete"} => scratch'[g] = NoData
                       /\ pc'[k] = "copy" /\ cur'[k] = g => data'[k] = Store'[g]
    BY DEF Lone
  <2>1. CASE k = h
    BY <1>b, <2>1
  <2>2. CASE k # h
    <3>1. g # f /\ g \in at[k] \ clash[k] /\ g \in Files
      BY <1>b, <2>2 DEF Inv, Apart, TypeOK
    <3>2. scratch'[g] = scratch[g] /\ Store'[g] = Store[g]
      BY <1>b, <1>e, <3>1 DEF Store, S3
    <3>3. \A s \in Sandboxes : session'[s][g] = session[s][g]
      BY <1>d, <3>1
    <3>4. Live /\ (pc[k] = "mirror" => from[k] \in Sandboxes)
      BY <1>b DEF Live, Inv, Placed
    <3>. QED BY <1>b, <2>2, <3>1, <3>2, <3>3, <3>4 DEF Inv, Lone
  <2>. QED BY <2>1, <2>2
<1>5. Twins'
  <2>. SUFFICES ASSUME Live', S3', NEW g \in Files \ dirty', Even(g)'
                PROVE  /\ scratch'[g] = bucket'[g]
                       /\ \A k \in Handlers : pc'[k] = "copy" /\ cur'[k] = g => data'[k] = bucket'[g]
    BY DEF Twins
  <2>0. Live /\ S3
    BY <1>b DEF Live, S3
  <2>1. CASE g = f
    <3>1. f \notin clash[h]
      BY <1>c, <2>1
    <3>2. data[h] = bucket[f]
      BY <1>f, <2>0, <3>1 DEF Inv, Lone, Store
    <3>3. \A k \in Handlers : pc'[k] = "copy" => cur'[k] # f
      BY <1>b, <3>1 DEF Inv, Placed, Apart
    <3>. QED BY <1>b, <1>e, <2>0, <2>1, <3>2, <3>3
  <2>2. CASE g # f
    <3>1. Even(g) /\ g \notin dirty
      BY <1>b, <1>c, <2>2 DEF Even
    <3>. QED BY <1>b, <1>e, <2>0, <2>2, <3>1 DEF Inv, Twins
  <2>. QED BY <2>1, <2>2
<1>6. View'
  <2>. SUFFICES ASSUME Live', NEW s \in Sandboxes, NEW g \in Files \ stale'[s],
                       Has(s, g)', Still(g)'
                PROVE  session'[s][g] = Store'[g] \/ g \in inner'[s]
    BY DEF View
  <2>0. Live /\ Still(g) /\ g \notin stale[s]
    BY <1>b, <1>c DEF Live, Still, S3
  <2>1. CASE g = f /\ s = from[h]
    <3>1. f \notin clash[h]
      BY <1>c, <2>1
    <3>2. data[h] = Store[f]
      BY <1>f, <2>0, <3>1 DEF Inv, Lone
    <3>3. Store'[f] = Store[f]
      BY <1>b, <1>e DEF Store, S3
    <3>. QED BY <1>d, <2>1, <3>2, <3>3
  <2>2. CASE g # f \/ s # from[h]
    <3>1. Has(s, g)
      BY <1>b, <2>2 DEF Has, Mounting
    <3>2. Store'[g] = Store[g]
      BY <1>b, <1>e DEF Store, S3
    <3>. QED BY <1>b, <1>d, <2>0, <2>2, <3>1, <3>2 DEF Inv, View
  <2>. QED BY <2>1, <2>2
<1>. QED BY <1>1, <1>2, <1>3, <1>4, <1>5, <1>6 DEF Inv

\* With the list empty the sandbox has its copy of every file.
LEMMA MountDoneKeeps ==
  ASSUME Inv, NEW h \in Handlers, MountDone(h)
  PROVE  Inv'
<1>1. TypeOK'
  BY DEF MountDone, Inv, TypeOK, PC, Content, volume, Return
<1>2. Placed'
  BY VolumeAssumption DEF MountDone, Inv, TypeOK, Placed, Mounting, volume, Return
<1>3. Apart'
  BY DEF MountDone, Inv, TypeOK, Apart, volume, Return
<1>4. Lone'
  BY DEF MountDone, Inv, TypeOK, Placed, Apart, Lone, Live, Store, S3, volume, Return
<1>5. Twins'
  BY DEF MountDone, Inv, TypeOK, Placed, Apart, Lone, Twins, Even, Live, S3, Store,
    volume, Return
<1>6. View'
  <2>. SUFFICES ASSUME Live', NEW s \in Sandboxes, NEW g \in Files \ stale'[s],
                       Has(s, g)', Still(g)'
                PROVE  session'[s][g] = Store'[g] \/ g \in inner'[s]
    BY DEF View
  <2>1. pc[h] = "get" /\ at[h] = {} /\ from[h] \in Sandboxes /\ mounted[from[h]] = "mounting"
        /\ \A k \in Handlers \ {h} : Mounting(k) => from[k] # from[h]
    BY DEF MountDone, Inv, Placed, Mounting
  <2>2. /\ mounted' = [mounted EXCEPT ![from[h]] = "yes"]
        /\ \A k \in Handlers \ {h} : pc'[k] = pc[k] /\ at'[k] = at[k] /\ from'[k] = from[k]
    BY ReturnFacts DEF MountDone, Inv
  <2>3. Has(s, g)
    <3>1. CASE s = from[h]
      BY <2>1, <3>1 DEF Has
    <3>2. CASE s # from[h]
      <4>1. mounted'[s] = mounted[s]
        BY <2>2, <3>2 DEF Inv, TypeOK
      <4>. QED BY <2>1, <2>2, <4>1 DEF Has, Mounting
    <3>. QED BY <3>1, <3>2
  <2>4. Still(g)
    BY <2>1, <2>2 DEF Still, MountDone, S3, volume
  <2>. QED BY <2>3, <2>4 DEF MountDone, Inv, View, Live, Store, S3, volume
<1>. QED BY <1>1, <1>2, <1>3, <1>4, <1>5, <1>6 DEF Inv

\* The sandbox is never seen; scratch may have got what was fetched.
LEMMA MountFailsKeeps ==
  ASSUME Inv, NEW h \in Handlers, MountFails(h)
  PROVE  Inv'
<1>1. TypeOK'
  BY DEF MountFails, Inv, TypeOK, PC, Content, volume, S3, Return, WriteScratch
<1>2. Placed'
  BY VolumeAssumption DEF MountFails, Inv, TypeOK, Placed, Mounting, volume, S3,
    Return, WriteScratch
<1>3. Apart'
  BY DEF MountFails, Inv, TypeOK, Apart, volume, S3, Return, WriteScratch
<1>4. Lone'
  BY DEF MountFails, Inv, TypeOK, Placed, Apart, Lone, Live, Store, S3, volume,
    Return, WriteScratch
<1>5. Twins'
  BY DEF MountFails, Inv, TypeOK, Placed, Apart, Lone, Twins, Even, Live, S3, Store,
    volume, Return, WriteScratch
<1>6. View'
  <2>. SUFFICES ASSUME Live', NEW s \in Sandboxes, NEW g \in Files \ stale'[s],
                       Has(s, g)', Still(g)'
                PROVE  session'[s][g] = Store'[g] \/ g \in inner'[s]
    BY DEF View
  <2>1. Mounting(h) /\ from[h] \in Sandboxes
    BY DEF MountFails, Inv, Placed, Mounting
  <2>2. /\ mounted' = [mounted EXCEPT ![from[h]] = "gone"]
        /\ pc'[h] = "idle" /\ at'[h] = {}
        /\ \A k \in Handlers \ {h} : pc'[k] = pc[k] /\ at'[k] = at[k] /\ from'[k] = from[k]
    BY ReturnFacts DEF MountFails, Inv
  <2>3. s # from[h] /\ mounted'[s] = mounted[s]
    BY <2>1, <2>2 DEF Has, Inv, TypeOK
  <2>4. Has(s, g)
    BY <2>1, <2>2, <2>3 DEF Has, Mounting
  <2>5. Still(g)
    BY <2>1, <2>2 DEF Still, Mounting, MountFails, S3, volume
  <2>6. Store' = Store
    BY DEF MountFails, Store, S3, volume
  <2>. QED BY <2>4, <2>5, <2>6 DEF MountFails, Inv, View, Live, volume
<1>. QED BY <1>1, <1>2, <1>3, <1>4, <1>5, <1>6 DEF Inv

\* A sandbox no longer seen; nobody has a put of it under way.
LEMMA SandboxGoneKeeps ==
  ASSUME Inv, NEW b \in Sandboxes, SandboxGone(b)
  PROVE  Inv'
<1>1. TypeOK'
  BY DEF SandboxGone, Inv, TypeOK, PC, Content, volume, handler
<1>2. Placed'
  BY VolumeAssumption DEF SandboxGone, Inv, TypeOK, Placed, Mounting, volume, handler
<1>3. Apart'
  BY DEF SandboxGone, Inv, TypeOK, Apart, volume, handler
<1>4. Lone'
  BY DEF SandboxGone, Inv, TypeOK, Placed, Apart, Lone, Live, Store, S3, volume,
    handler
<1>5. Twins'
  BY DEF SandboxGone, Inv, TypeOK, Placed, Apart, Lone, Twins, Even, Live, S3, Store,
    volume, handler
<1>6. View'
  BY DEF SandboxGone, Inv, TypeOK, Placed, Apart, Lone, View, Still, Has, Live,
    Mounting, Store, S3, volume, handler
<1>. QED BY <1>1, <1>2, <1>3, <1>4, <1>5, <1>6 DEF Inv

\* The sandbox's own change takes its copy out of the comparison.
LEMMA InsideWriteKeeps ==
  ASSUME Inv, NEW b \in Sandboxes, NEW f \in Files, NEW v \in Content, InsideWrite(b, f, v)
  PROVE  Inv'
<1>. TypeOK
  BY DEF Inv
<1>a. /\ session' \in [Sandboxes -> [Files -> Content]]
      /\ \A c \in Sandboxes : \A g \in Files : c # b \/ g # f => session'[c][g] = session[c][g]
  <2>1. Assigned(b, f, v)
    BY DEF InsideWrite, Assigned
  <2>. QED BY <2>1, SessionFacts
<1>b. /\ inner' \in [Sandboxes -> SUBSET Files] /\ f \in inner'[b]
      /\ \A c \in Sandboxes : inner[c] \subseteq inner'[c]
  BY DEF InsideWrite, TypeOK
<1>1. TypeOK'
  BY <1>a, <1>b DEF InsideWrite, TypeOK, volume, handler
<1>2. Placed' /\ Apart'
  BY DEF InsideWrite, Inv, Placed, Apart, Mounting, volume, handler
<1>3. Lone'
  <2>1. \A c \in Sandboxes, g \in Files :
          session'[c][g] = session[c][g] \/ g \in inner'[c]
    BY <1>a, <1>b
  <2>. QED BY <1>b, <2>1 DEF InsideWrite, Inv, TypeOK, Placed, Lone, Live, Store, S3, volume, handler
<1>4. Twins'
  BY DEF InsideWrite, Inv, Twins, Even, Live, S3, volume, handler
<1>5. View'
  <2>1. \A c \in Sandboxes, g \in Files :
          session'[c][g] = session[c][g] \/ g \in inner'[c]
    BY <1>a, <1>b
  <2>. QED BY <1>b, <2>1 DEF InsideWrite, Inv, View, Live, Still, Has, Mounting, Store, S3, volume, handler
<1>. QED BY <1>1, <1>2, <1>3, <1>4, <1>5 DEF Inv

\* A restart of the shim ends every handler and forgets the volume.
LEMMA RestartKeeps ==
  ASSUME Inv, Restart
  PROVE  Inv'
<1>1. UNION {at[h] : h \in Handlers} \in SUBSET Files
  BY DEF Inv, TypeOK
<1>2. dirty' \in SUBSET Files /\ stale' \in [Sandboxes -> SUBSET Files]
  BY <1>1, UnsettledFacts DEF Inv, Restart
<1>3. TypeOK'
  BY <1>2 DEF Restart, Inv, TypeOK, PC, Content
<1>4. Placed' /\ Apart'
  BY VolumeAssumption DEF Restart, Placed, Apart, Mounting
<1>5. Lone' /\ Twins' /\ View'
  BY DEF Restart, Lone, Twins, View, Live
<1>. QED BY <1>3, <1>4, <1>5 DEF Inv

\* A request of a handler; a delete asked for by a sandbox is one of the volume.
LEMMA RequestKeeps ==
  ASSUME Inv, NEW h \in Handlers, Request(h)
  PROVE  Inv'
<1>1. ASSUME NEW b \in Sandboxes, FsRemove(h, b)
      PROVE  Inv'
  BY <1>1, RemoveFileKeeps, RemoveDirKeeps DEF FsRemove
<1>. QED BY <1>1, VolumeFilePutKeeps, FilesPostKeeps, RemoveFileKeeps, RemoveDirKeeps, MountKeeps
       DEF Request

\* A step of a handler at work.
LEMMA HandlerKeeps ==
  ASSUME Inv, NEW h \in Handlers, Handler(h)
  PROVE  Inv'
BY PutKeeps, PutFailsKeeps, ToolsWriteKeeps, ToolsWriteFailsKeeps, MirrorWriteKeeps,
   ListPrefixKeeps, DeleteObjectKeeps, DeleteDoneKeeps, DeleteFailsKeeps,
   MountGetKeeps, MountSkipKeeps, MountCopyKeeps, MountDoneKeeps, MountFailsKeeps
   DEF Handler

\* The invariant holds in every reachable state.
LEMMA InvHolds == Spec => []Inv
<1>1. Init => Inv
  <2>. SUFFICES ASSUME Init PROVE Inv
    OBVIOUS
  <2>1. TypeOK
    BY DEF Init, TypeOK, PC, Content
  <2>2. Placed /\ Apart /\ Lone
    BY VolumeAssumption DEF Init, Placed, Apart, Lone, Mounting
  <2>3. Twins /\ View
    BY DEF Init, Twins, View, Store, S3
  <2>. QED BY <2>1, <2>2, <2>3 DEF Inv
<1>2. Inv /\ [Next]_vars => Inv'
  <2>. SUFFICES ASSUME Inv, [Next]_vars PROVE Inv'
    OBVIOUS
  <2>1. CASE UNCHANGED vars
    <3>1. TypeOK' /\ Placed' /\ Apart'
      BY <2>1 DEF vars, Inv, TypeOK, Placed, Apart, Mounting
    <3>2. Lone' /\ Twins' /\ View'
      BY <2>1 DEF vars, Inv, Lone, Twins, View, Live, S3, Store, Even, Still, Has, Mounting
    <3>. QED BY <3>1, <3>2 DEF Inv
  <2>2. ASSUME NEW b \in Sandboxes, NEW w \in Inside, InsideWrite(b, w[1], w[2])
        PROVE  Inv'
    <3>1. w[1] \in Files /\ w[2] \in Content
      BY VolumeAssumption
    <3>. QED BY <2>2, <3>1, InsideWriteKeeps
  <2>. QED BY <2>1, <2>2, VolumesCreateKeeps, VolumeDeleteKeeps, RestartKeeps, RequestKeeps,
           HandlerKeeps, SandboxGoneKeeps, VolumeDirPostKeeps DEF Next
<1>. QED BY <1>1, <1>2, PTL DEF Spec

\* The variables keep their types, and every handler at work has its files.
THEOREM TypeCorrect == Spec => []TypeOK
<1>1. Inv => TypeOK
  BY DEF Inv
<1>. QED BY <1>1, InvHolds, PTL

\* However many handlers put, mirror, delete and mount the same files, and
\* whatever calls to S3 fail: a file that nobody is at work on, and whose last
\* change was neither disturbed nor failed, is the same in scratch and bucket.
THEOREM UndisturbedCopiesAgree == Spec => []CopiesAgree
<1>1. Inv => CopiesAgree
  BY DEF Inv, CopiesAgree, Twins, Quiet, Even, Known, Live
<1>. QED BY <1>1, InvHolds, PTL

\* A sandbox sees what the volume holds of every file that nobody else has
\* changed since its mount and that it has not changed last from inside, its
\* own mirrored writes included.
THEOREM MountShowsVolume == Spec => []MountedView
<1>1. Inv => MountedView
  BY DEF Inv, MountedView, View, Quiet, Still, Has, Known, Live
<1>. QED BY <1>1, InvHolds, PTL
=============================================================================
