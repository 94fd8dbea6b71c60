---------------------------- MODULE VolumeMirror ----------------------------
(***************************************************************************)
(* The shim's volumes (e2b-shim/src/main.rs).  The files of a volume exist *)
(* up to three times: in a scratch directory on the shim's host, in an S3  *)
(* bucket when the volume has that backend, and in every sandbox that was  *)
(* created with the volume mounted.  A mount is a copy taken at creation;  *)
(* a write through the sandbox's file route is mirrored back to scratch    *)
(* and bucket, best effort, and the volume's own routes write scratch and  *)
(* then bucket.  Whatever else writes in the sandbox (its processes, bash, *)
(* the tools daemon's own routes) changes the sandbox's copy alone.        *)
(* No lock is held over any two of these copies, so handlers of the same   *)
(* file interleave at every S3 and tools call.                             *)
(*                                                                         *)
(* One volume, with the files and directories below its root.  Calls on    *)
(* the host's file system succeed.  A call that is lost on the way back    *)
(* took effect or did not by the time the handler gives it up.             *)
(***************************************************************************)
EXTENDS FiniteSets

CONSTANTS
  Handlers,   \* request handlers
  Sandboxes,  \* sandboxes that may mount the volume, each created once
  Files,      \* paths of files inside the volume
  Dirs,       \* paths of directories inside the volume
  Under,      \* Under[d]: the files below d
  Prefixed,   \* Prefixed[d]: the files whose key begins with d's key
  Data,       \* contents
  Inside,     \* <<f, v>>: what a sandbox may make of its own file f
  NoData, NoFile, Api

Content == Data \union {NoData}

ASSUME VolumeAssumption ==
  /\ Under \in [Dirs -> SUBSET Files]
  /\ Prefixed \in [Dirs -> SUBSET Files]
  /\ \A d \in Dirs : Under[d] \subseteq Prefixed[d]
  /\ NoData \notin Data /\ Inside \subseteq Files \X Content
  /\ NoFile \notin Files
  /\ Api \notin Sandboxes

VARIABLES
  vol,      \* is the volume in AppState.volumes: not yet, yes, or no longer
  backend,  \* its VolumeBackend
  dirs,     \* directories in scratch
  scratch, bucket, session,  \* the copies of each file
  mounted,  \* of each sandbox
  pc,       \* where each handler is
  at,       \* files it has still to treat
  data,     \* the content it carries
  cur,      \* the file a mount has fetched
  from,     \* the sandbox it serves, or Api
  clash,    \* history: its files that another handler touched meanwhile
  dirty,    \* history: files whose last change was disturbed or failed
  stale,    \* history: per sandbox, files changed elsewhere since its copy
  inner     \* history: per sandbox, files changed last from inside it

vars == <<vol, backend, dirs, scratch, bucket, session, mounted,
          pc, at, data, cur, from, clash, dirty, stale, inner>>
volume == <<vol, backend>>
handler == <<pc, at, data, cur, from, clash>>

PC == {"idle", "put", "write", "mirror", "list", "delete", "get", "copy"}

TypeOK ==
  /\ vol \in {"new", "known", "gone"}
  /\ backend \in {"local", "s3"}
  /\ dirs \in SUBSET Dirs
  /\ scratch \in [Files -> Content]
  /\ bucket \in [Files -> Content]
  /\ session \in [Sandboxes -> [Files -> Content]]
  /\ mounted \in [Sandboxes -> {"no", "mounting", "yes", "gone"}]
  /\ pc \in [Handlers -> PC]
  /\ at \in [Handlers -> SUBSET Files]
  /\ data \in [Handlers -> Content]
  /\ cur \in [Handlers -> Files \union {NoFile}]
  /\ from \in [Handlers -> Sandboxes \union {Api}]
  /\ clash \in [Handlers -> SUBSET Files]
  /\ dirty \in SUBSET Files
  /\ stale \in [Sandboxes -> SUBSET Files]
  /\ inner \in [Sandboxes -> SUBSET Files]

Init ==
  /\ vol = "new"
  /\ backend \in {"local", "s3"}
  /\ dirs = {}
  /\ scratch = [f \in Files |-> NoData]
  /\ bucket = [f \in Files |-> NoData]
  /\ session = [b \in Sandboxes |-> [f \in Files |-> NoData]]
  /\ mounted = [b \in Sandboxes |-> "no"]
  /\ pc = [h \in Handlers |-> "idle"]
  /\ at = [h \in Handlers |-> {}]
  /\ data = [h \in Handlers |-> NoData]
  /\ cur = [h \in Handlers |-> NoFile]
  /\ from = [h \in Handlers |-> Api]
  /\ clash = [h \in Handlers |-> {}]
  /\ dirty = {}
  /\ stale = [b \in Sandboxes |-> {}]
  /\ inner = [b \in Sandboxes |-> {}]

----------------------------------------------------------------------------
(* Handlers at work, and what the history variables make of it.            *)

\* h starts on the files S; those of N are not its own to change.
Begin(h, label, S, N, v, b) ==
  /\ pc' = [pc EXCEPT ![h] = label]
  /\ at' = [at EXCEPT ![h] = S]
  /\ data' = [data EXCEPT ![h] = v]
  /\ from' = [from EXCEPT ![h] = b]
  /\ clash' = [g \in Handlers |->
       IF g = h THEN N \union {f \in S : \E k \in Handlers \ {h} : f \in at[k]}
       ELSE clash[g] \union (at[g] \intersect S)]
  /\ UNCHANGED cur

Goto(h, label) ==
  /\ pc' = [pc EXCEPT ![h] = label]
  /\ UNCHANGED <<at, data, cur, from, clash>>

Return(h) ==
  /\ pc' = [pc EXCEPT ![h] = "idle"]
  /\ at' = [at EXCEPT ![h] = {}]
  /\ data' = [data EXCEPT ![h] = NoData]
  /\ cur' = [cur EXCEPT ![h] = NoFile]
  /\ from' = [from EXCEPT ![h] = Api]
  /\ clash' = [clash EXCEPT ![h] = {}]

\* f was changed, for b, undisturbed: scratch and bucket have been brought
\* together, and b's copy is the one they have.
Settled(f, b) ==
  /\ dirty' = dirty \ {f}
  /\ stale' = [s \in Sandboxes |-> IF s = b THEN stale[s] \ {f} ELSE stale[s] \union {f}]

\* The files F were changed, perhaps, and nobody knows in which copies.
Unsettled(F) ==
  /\ dirty' = dirty \union F
  /\ stale' = [s \in Sandboxes |-> stale[s] \union F]

Changed(h, f) ==
  IF f \in clash[h] THEN Unsettled({f}) ELSE Settled(f, from[h])

Known == vol = "known"
S3 == backend = "s3"

\* The copy a mount is taken from.
Store == IF S3 THEN bucket ELSE scratch

\* std::fs::write under the scratch directory, its parents created.
WriteScratch(f, v) ==
  /\ scratch' = [scratch EXCEPT ![f] = v]
  /\ dirs' = dirs \union {d \in Dirs : f \in Under[d]}

----------------------------------------------------------------------------
(* volumes_create, volume_delete (the objects stay in the bucket) and a    *)
(* restart of the shim, which keeps no volume records and drops handlers.  *)
VolumesCreate ==
  /\ vol = "new"
  /\ vol' = "known"
  /\ UNCHANGED <<backend, dirs, scratch, bucket, session, inner, mounted, handler, dirty, stale>>

VolumeDelete ==
  /\ Known
  /\ vol' = "gone"
  /\ dirs' = {}
  /\ scratch' = [f \in Files |-> NoData]
  /\ UNCHANGED <<backend, bucket, session, inner, mounted, handler, dirty, stale>>

Restart ==
  /\ Known
  /\ vol' = "gone"
  /\ mounted' = [b \in Sandboxes |-> IF mounted[b] = "mounting" THEN "gone" ELSE mounted[b]]
  /\ pc' = [h \in Handlers |-> "idle"]
  /\ at' = [h \in Handlers |-> {}]
  /\ data' = [h \in Handlers |-> NoData]
  /\ cur' = [h \in Handlers |-> NoFile]
  /\ from' = [h \in Handlers |-> Api]
  /\ clash' = [h \in Handlers |-> {}]
  /\ Unsettled(UNION {at[h] : h \in Handlers})
  /\ UNCHANGED <<backend, dirs, scratch, bucket, session, inner>>

(* volume_file_put: scratch first, then the bucket; with force=false a     *)
(* file that is in scratch is refused.                                     *)
VolumeFilePut(h, f, v, force) ==
  /\ pc[h] = "idle"
  /\ Known
  /\ force \/ scratch[f] = NoData
  /\ WriteScratch(f, v)
  /\ Begin(h, "put", {f}, {}, v, Api)
  /\ UNCHANGED <<volume, bucket, session, inner, mounted, dirty, stale>>

\* s3_put_file, for volume_file_put and for the mirror; nothing to do for a
\* local volume.
Put_ScratchOnly(h) ==
  /\ pc[h] = "put"
  /\ \E f \in at[h] : Changed(h, f)
  /\ Return(h)
  /\ UNCHANGED <<volume, dirs, scratch, bucket, session, inner, mounted>>

Put(h) ==
  /\ pc[h] = "put"
  /\ \E f \in at[h] :
       /\ bucket' = IF S3 THEN [bucket EXCEPT ![f] = data[h]] ELSE bucket
       /\ Changed(h, f)
  /\ Return(h)
  /\ UNCHANGED <<volume, dirs, scratch, session, inner, mounted>>

\* An S3 error, or the client gone: told to a volume_file_put's client,
\* logged by the mirror.  The object may have been stored.
PutFails(h) ==
  /\ pc[h] = "put"
  /\ S3
  /\ \E f \in at[h] :
       /\ bucket' \in {bucket, [bucket EXCEPT ![f] = data[h]]}
       /\ Unsettled({f})
  /\ Return(h)
  /\ UNCHANGED <<volume, dirs, scratch, session, inner, mounted>>

(* files_post: the tools daemon writes the sandbox's copy, then the mirror *)
(* follows.                                                                *)
FilesPost(h, b, f, v) ==
  /\ pc[h] = "idle"
  /\ mounted[b] = "yes"
  /\ Begin(h, "write", {f}, {}, v, b)
  /\ UNCHANGED <<volume, dirs, scratch, bucket, session, inner, mounted, dirty, stale>>

ToolsWrite(h) ==
  /\ pc[h] = "write"
  /\ \E f \in at[h] :
       /\ session' = [session EXCEPT ![from[h]][f] = data[h]]
       /\ inner' = [inner EXCEPT ![from[h]] = @ \ {f}]
  /\ Goto(h, "mirror")
  /\ UNCHANGED <<volume, dirs, scratch, bucket, mounted, dirty, stale>>

ToolsWriteFails(h) ==
  /\ pc[h] = "write"
  /\ \E f \in at[h] :
       /\ session' \in {session, [session EXCEPT ![from[h]][f] = data[h]]}
       /\ stale' = [stale EXCEPT ![from[h]] = @ \union {f}]
       /\ dirty' = dirty \union (clash[h] \intersect {f})
  /\ Return(h)
  /\ UNCHANGED <<volume, dirs, scratch, bucket, mounted, inner>>

\* The mirror is left out.
MirrorWrite_Forgets(h) ==
  /\ pc[h] = "mirror"
  /\ \E f \in at[h] : Changed(h, f)
  /\ Return(h)
  /\ UNCHANGED <<volume, dirs, scratch, bucket, session, inner, mounted>>

\* mirror_write_to_volume, up to the S3 call; dropped when the sandbox's or
\* the volume's record is no longer there.
MirrorWrite(h) ==
  /\ pc[h] = "mirror"
  /\ \E f \in at[h] :
       \/ /\ Known /\ mounted[from[h]] = "yes"
          /\ WriteScratch(f, data[h])
          /\ Goto(h, "put")
          /\ UNCHANGED <<dirty, stale>>
       \/ /\ ~(Known /\ mounted[from[h]] = "yes")
          /\ Unsettled({f})
          /\ Return(h)
          /\ UNCHANGED <<dirs, scratch>>
  /\ UNCHANGED <<volume, bucket, session, inner, mounted>>

(* volume_path_delete, and fs_remove by way of mirror_delete_from_volume:  *)
(* scratch first, then the object, or every object below a directory.  The *)
(* file in the sandbox that asked for it stays.                            *)
RemoveFile(h, f) ==
  /\ pc[h] = "idle"
  /\ Known
  /\ scratch' = [scratch EXCEPT ![f] = NoData]
  /\ Begin(h, "delete", {f}, {}, NoData, Api)
  /\ UNCHANGED <<volume, dirs, bucket, session, inner, mounted, dirty, stale>>

RemoveDir(h, d) ==
  /\ pc[h] = "idle"
  /\ Known
  /\ d \in dirs
  /\ scratch' = [f \in Files |-> IF f \in Under[d] THEN NoData ELSE scratch[f]]
  /\ dirs' = {e \in dirs : ~(Under[e] \subseteq Under[d])}
  /\ Begin(h, "list", Prefixed[d], Prefixed[d] \ Under[d], NoData, Api)
  /\ UNCHANGED <<volume, bucket, session, inner, mounted, dirty, stale>>

FsRemove(h, b) ==
  /\ mounted[b] = "yes"
  /\ \/ \E f \in Files : RemoveFile(h, f)
     \/ \E d \in Dirs : RemoveDir(h, d)

\* s3_delete_prefix: the objects are listed, then deleted one by one.  The
\* list's prefix has no trailing slash.
ListPrefix(h) ==
  LET listed == {f \in at[h] : Store[f] # NoData \/ ~S3} IN
  /\ pc[h] = "list"
  /\ pc' = [pc EXCEPT ![h] = "delete"]
  /\ at' = [at EXCEPT ![h] = listed]
  /\ Unsettled((at[h] \ listed) \intersect clash[h])
  /\ UNCHANGED <<volume, dirs, scratch, bucket, session, inner, mounted, data, cur, from, clash>>

\* s3_delete_object: an object already gone is no error.
DeleteObject(h) ==
  /\ pc[h] = "delete"
  /\ \E f \in at[h] :
       /\ bucket' = IF S3 THEN [bucket EXCEPT ![f] = NoData] ELSE bucket
       /\ at' = [at EXCEPT ![h] = @ \ {f}]
       /\ Changed(h, f)
  /\ UNCHANGED <<volume, dirs, scratch, session, inner, mounted, pc, data, cur, from, clash>>

DeleteDone(h) ==
  /\ pc[h] = "delete"
  /\ at[h] = {}
  /\ Return(h)
  /\ UNCHANGED <<volume, dirs, scratch, bucket, session, inner, mounted, dirty, stale>>

\* The first error ends the loop; it is logged.
DeleteFails(h) ==
  /\ pc[h] \in {"list", "delete"}
  /\ S3
  /\ at[h] # {}
  /\ \/ UNCHANGED bucket
     \/ pc[h] = "delete" /\ \E f \in at[h] : bucket' = [bucket EXCEPT ![f] = NoData]
  /\ Unsettled(at[h])
  /\ Return(h)
  /\ UNCHANGED <<volume, dirs, scratch, session, inner, mounted>>

\* volume_dir_post: a directory of scratch; the bucket knows no directories.
VolumeDirPost(d) ==
  /\ Known
  /\ dirs' = dirs \union {d}
  /\ UNCHANGED <<volume, scratch, bucket, session, inner, mounted, handler, dirty, stale>>

(* copy_volume_to_tools_session, inside create_sandbox: the mount point is *)
(* emptied, the objects (or the scratch directory) listed, and each file   *)
(* fetched, cached in scratch and written to the session.                  *)
Mount(h, b) ==
  /\ pc[h] = "idle"
  /\ Known
  /\ mounted[b] = "no"
  /\ mounted' = [mounted EXCEPT ![b] = "mounting"]
  /\ session' = [session EXCEPT ![b] = [f \in Files |-> NoData]]
  /\ stale' = [stale EXCEPT ![b] = {}]
  /\ Begin(h, "get", {f \in Files : Store[f] # NoData}, {}, NoData, b)
  /\ UNCHANGED <<volume, dirs, scratch, bucket, dirty, inner>>

MountGet(h) ==
  /\ pc[h] = "get"
  /\ \E f \in at[h] :
       /\ Store[f] # NoData
       /\ data' = [data EXCEPT ![h] = Store[f]]
       /\ cur' = [cur EXCEPT ![h] = f]
  /\ pc' = [pc EXCEPT ![h] = "copy"]
  /\ UNCHANGED <<volume, dirs, scratch, bucket, session, inner, mounted, at, from, clash, dirty, stale>>

\* A local file that is gone before it is looked at is passed over.
MountSkip(h) ==
  /\ pc[h] = "get"
  /\ ~S3
  /\ \E f \in at[h] :
       /\ Store[f] = NoData
       /\ at' = [at EXCEPT ![h] = @ \ {f}]
       /\ stale' = [stale EXCEPT ![from[h]] = @ \union {f}]
  /\ UNCHANGED <<volume, dirs, scratch, bucket, session, inner, mounted,
                 pc, data, cur, from, clash, dirty>>

\* The copy in the session is nobody else's to see yet.
MountCopy(h) ==
  LET f == cur[h] IN
  /\ pc[h] = "copy"
  /\ IF S3 THEN WriteScratch(f, data[h]) ELSE UNCHANGED <<scratch, dirs>>
  /\ session' = [session EXCEPT ![from[h]][f] = data[h]]
  /\ pc' = [pc EXCEPT ![h] = "get"]
  /\ at' = [at EXCEPT ![h] = @ \ {f}]
  /\ IF f \in clash[h] THEN Unsettled({f}) ELSE dirty' = dirty \ {f} /\ UNCHANGED stale
  /\ UNCHANGED <<volume, bucket, mounted, data, cur, from, clash, inner>>

MountDone(h) ==
  /\ pc[h] = "get"
  /\ at[h] = {}
  /\ mounted' = [mounted EXCEPT ![from[h]] = "yes"]
  /\ Return(h)
  /\ UNCHANGED <<volume, dirs, scratch, bucket, session, inner, dirty, stale>>

\* A call failed, or a listed object is gone: create_sandbox deletes the
\* session and reports the error.
MountFails(h) ==
  /\ pc[h] \in {"get", "copy"}
  /\ mounted' = [mounted EXCEPT ![from[h]] = "gone"]
  /\ \/ UNCHANGED <<scratch, dirs>>
     \/ pc[h] = "copy" /\ S3 /\ WriteScratch(cur[h], data[h])
  /\ Return(h)
  /\ UNCHANGED <<volume, bucket, session, inner, dirty, stale>>

\* delete_sandbox, or the sweeper.  A mirrored write holds the record's shard
\* of the map until S3 has answered.
SandboxGone(b) ==
  /\ mounted[b] = "yes"
  /\ \A h \in Handlers : ~(from[h] = b /\ pc[h] = "put")
  /\ mounted' = [mounted EXCEPT ![b] = "gone"]
  /\ UNCHANGED <<volume, dirs, scratch, bucket, session, inner, handler, dirty, stale>>

(* A process or a bash command in the sandbox writes or removes a file of  *)
(* the mount, or a client does by the daemon's own write and edit routes:  *)
(* the shim does not see it.                                               *)
InsideWrite(b, f, v) ==
  /\ mounted[b] = "yes"
  /\ session' = [session EXCEPT ![b][f] = v]
  /\ inner' = [inner EXCEPT ![b] = @ \union {f}]
  /\ UNCHANGED <<volume, dirs, scratch, bucket, mounted, handler, dirty, stale>>

----------------------------------------------------------------------------
Handler(h) ==
  \/ Put(h) \/ PutFails(h)
  \/ ToolsWrite(h) \/ ToolsWriteFails(h) \/ MirrorWrite(h)
  \/ ListPrefix(h) \/ DeleteObject(h) \/ DeleteDone(h) \/ DeleteFails(h)
  \/ MountGet(h) \/ MountSkip(h) \/ MountCopy(h) \/ MountDone(h) \/ MountFails(h)

Request(h) ==
  \/ \E f \in Files, v \in Data, force \in BOOLEAN : VolumeFilePut(h, f, v, force)
  \/ \E b \in Sandboxes, f \in Files, v \in Data : FilesPost(h, b, f, v)
  \/ \E f \in Files : RemoveFile(h, f)
  \/ \E d \in Dirs : RemoveDir(h, d)
  \/ \E b \in Sandboxes : FsRemove(h, b) \/ Mount(h, b)

Next ==
  \/ VolumesCreate \/ VolumeDelete \/ Restart
  \/ \E h \in Handlers : Request(h) \/ Handler(h)
  \/ \E b \in Sandboxes :
       SandboxGone(b) \/ \E w \in Inside : InsideWrite(b, w[1], w[2])
  \/ \E d \in Dirs : VolumeDirPost(d)

Spec == Init /\ [][Next]_vars

----------------------------------------------------------------------------
Quiet(f) == \A h \in Handlers : f \notin at[h]

(* Scratch and bucket hold the same content of every file nobody is at     *)
(* work on, unless the file's last change failed half way, was disturbed   *)
(* by another handler of the file, or deleted it as the namesake of a      *)
(* directory; the next undisturbed change brings the two together again.   *)
CopiesAgree ==
  Known /\ S3 => \A f \in Files \ dirty : Quiet(f) => scratch[f] = bucket[f]

(* A sandbox sees, in the mounted volume, what the volume holds, except    *)
(* for files that somebody else changed since the mount, whose change      *)
(* failed or was disturbed, or that the sandbox changed last from inside:  *)
(* a write by files_post arrives in the session and in the store, whatever *)
(* the sandbox has in between made of its own copy.                        *)
MountedView ==
  Known => \A b \in Sandboxes : mounted[b] = "yes" =>
    \A f \in Files \ (stale[b] \union inner[b]) : Quiet(f) => session[b][f] = Store[f]

(* "writes inside the mount mirror back to the volume" (README.md:121-122) *)
(* says that the volume holds what the sandbox has of a file that nobody   *)
(* is at work on or has changed elsewhere.                                 *)
(* The shim mirrors what passes its file routes, and not what a process in *)
(* the sandbox writes.                                                     *)
MountMirrorsBack ==
  Known => \A b \in Sandboxes : mounted[b] = "yes" =>
    \A f \in Files \ stale[b] : Quiet(f) => session[b][f] = Store[f]

(* A directory's delete removes only objects below the directory.  The S3  *)
(* design lists with a trailing slash, the code without one.               *)
SiblingsSurvive ==
  [][\A h \in Handlers, d \in Dirs : pc[h] = "idle" /\ pc'[h] = "list" /\ RemoveDir(h, d) =>
        at'[h] \subseteq Under[d]]_vars
=============================================================================
