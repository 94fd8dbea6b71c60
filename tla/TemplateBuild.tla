--------------------------- MODULE TemplateBuild ---------------------------
(***************************************************************************)
(* Template builds of the shim (e2b-shim/src/main.rs).  A client creates a *)
(* build, uploads the files its COPY steps name, and starts the build: the *)
(* handler fills the template's directory, sets the status and spawns a    *)
(* task that asks upstream for a build of that name and follows the        *)
(* answer's lines up to the exit marker.                                   *)
(*                                                                         *)
(* Nothing stops a client from starting a build twice, or two builds of    *)
(* one name: the directory is per name, the status per build, and tasks    *)
(* and handlers interleave at every await and every file system call.      *)
(* What upstream makes of the directory is left out.                       *)
(***************************************************************************)
EXTENDS FiniteSets

CONSTANTS
  Builds,   \* build ids, each created once
  Names,    \* template names (sanitize_name keeps them file names)
  Hashes,   \* hashes of uploads
  Starters, \* handlers of templates_build_start, and then their tasks
  NoBuild

ASSUME BuildAssumption == NoBuild \notin Builds

VARIABLES
  status,   \* TemplateBuild.status, "none" before it is created
  name,     \* TemplateBuild.name
  uploads,  \* files staged for each build
  dir,      \* each template's directory: does it exist, the files in it, and
            \* those of them that its Dockerfile copies
  step,     \* where each starter is
  of, needs, left, bad, \* its build, the files its COPYs name, those it has
            \* still to copy, HTTP error seen
  severed,  \* history: starters whose directory was deleted while they filled it
  broken,   \* history: names whose Dockerfile is from a severed starter
  answer,   \* history: upstream's word on the last start of each build
  again,    \* history: builds started again under a task of theirs
  marked    \* history: tasks that have seen an exit marker

buildVars == <<status, name, uploads, dir, step, of, needs, left, bad,
               severed, broken, answer, again, marked>>
starter == <<of, needs, left, bad>>
verdicts == <<answer, again, marked>>
Tasks == {"post", "stream", "check", "finalize"}

NoDir == [exists |-> FALSE, files |-> {}, copies |-> {}]

BuildInit ==
  /\ status = [b \in Builds |-> "none"]
  /\ name \in [Builds -> Names]
  /\ uploads = [b \in Builds |-> {}]
  /\ dir = [n \in Names |-> NoDir]
  /\ step = [s \in Starters |-> "idle"]
  /\ of = [s \in Starters |-> NoBuild]
  /\ needs = [s \in Starters |-> {}]
  /\ left = [s \in Starters |-> {}]
  /\ bad = [s \in Starters |-> FALSE]
  /\ severed = {} /\ broken = {}
  /\ answer = [b \in Builds |-> "none"]
  /\ again = {} /\ marked = {}

----------------------------------------------------------------------------
Move(s, label) == step' = [step EXCEPT ![s] = label]

Dir(s) == dir[name[of[s]]]

Ends(s) ==
  /\ Move(s, "idle")
  /\ of' = [of EXCEPT ![s] = NoBuild]
  /\ needs' = [needs EXCEPT ![s] = {}]
  /\ left' = [left EXCEPT ![s] = {}]
  /\ bad' = [bad EXCEPT ![s] = FALSE]
  /\ severed' = severed \ {s}
  /\ marked' = marked \ {s}

SetStatus(b, to) == status' = [status EXCEPT ![b] = to]
Answered(b, word) == answer' = [answer EXCEPT ![b] = word]

\* templates_create_v3, and the older routes that call it.
CreateBuild(b) ==
  /\ status[b] = "none"
  /\ SetStatus(b, "Pending")
  /\ UNCHANGED <<name, uploads, dir, step, starter, severed, broken, verdicts>>

\* files_upload under the token templates_files_hash gave out.
Upload(b, h) ==
  /\ status[b] # "none"
  /\ uploads' = [uploads EXCEPT ![b] = @ \union {h}]
  /\ UNCHANGED <<status, name, dir, step, starter, severed, broken, verdicts>>

(* templates_build_start, in whatever state the build is: the directory is *)
(* made, the uploads are copied in one by one, the Dockerfile and          *)
(* template.toml are written, the status is set, the task is spawned.      *)
BuildStart(s, b, H) ==
  /\ step[s] = "idle"
  /\ status[b] # "none"
  /\ dir' = [dir EXCEPT ![name[b]].exists = TRUE]
  /\ Move(s, "fill")
  /\ of' = [of EXCEPT ![s] = b]
  /\ needs' = [needs EXCEPT ![s] = H]
  /\ left' = [left EXCEPT ![s] = H]
  /\ UNCHANGED <<status, name, uploads, bad, severed, broken, verdicts>>

\* An upload that cannot be copied is passed over.
CopyFile_Ignores(s, h) ==
  /\ step[s] = "fill"
  /\ h \in left[s]
  /\ left' = [left EXCEPT ![s] = @ \ {h}]
  /\ dir' = IF h \in uploads[of[s]] /\ Dir(s).exists
            THEN [dir EXCEPT ![name[of[s]]].files = @ \union {h}] ELSE dir
  /\ UNCHANGED <<status, name, uploads, step, of, needs, bad, severed, broken, verdicts>>

\* 400 when the upload is missing, or the directory by now; what has been
\* copied stays.
CopyFile(s, h) ==
  /\ step[s] = "fill"
  /\ h \in left[s]
  /\ \/ /\ h \in uploads[of[s]] /\ Dir(s).exists
        /\ dir' = [dir EXCEPT ![name[of[s]]].files = @ \union {h}]
        /\ left' = [left EXCEPT ![s] = @ \ {h}]
        /\ UNCHANGED <<step, of, needs, bad, severed, marked>>
     \/ /\ ~(h \in uploads[of[s]] /\ Dir(s).exists)
        /\ Ends(s)
        /\ UNCHANGED dir
  /\ UNCHANGED <<status, name, uploads, broken, answer, again>>

\* The write fails when the directory was deleted meanwhile (500).
WriteDockerfile(s) ==
  LET n == name[of[s]] IN
  /\ step[s] = "fill"
  /\ left[s] = {}
  /\ \/ /\ dir[n].exists
        /\ dir' = [dir EXCEPT ![n].copies = needs[s]]
        /\ broken' = IF s \in severed THEN broken \union {n} ELSE broken \ {n}
        /\ severed' = severed \ {s}
        /\ Move(s, "lock")
        /\ UNCHANGED <<starter, marked>>
     \/ /\ ~dir[n].exists
        /\ Ends(s)
        /\ UNCHANGED <<dir, broken>>
  /\ UNCHANGED <<status, name, uploads, answer, again>>

SetBuilding(s) ==
  LET b == of[s] IN
  /\ step[s] = "lock"
  /\ SetStatus(b, "Building")
  /\ Answered(b, "none")
  /\ again' = IF \E r \in Starters : step[r] \in Tasks /\ of[r] = b
              THEN again \union {b} ELSE again \ {b}
  /\ Move(s, "post")
  /\ UNCHANGED <<name, uploads, dir, starter, severed, broken, marked>>

\* The client disconnects while the handler waits for the status lock.
StartDropped(s) ==
  /\ step[s] = "lock"
  /\ Ends(s)
  /\ UNCHANGED <<status, name, uploads, dir, broken, answer, again>>

(* The task: the head of upstream's answer, or no answer.                  *)
Posted(s) ==
  /\ step[s] = "post"
  /\ \E ok \in BOOLEAN :
       /\ bad' = [bad EXCEPT ![s] = ~ok]
       /\ Answered(of[s], IF ok THEN "accepted" ELSE "refused")
  /\ Move(s, "stream")
  /\ UNCHANGED <<status, name, uploads, dir, of, needs, left, severed, broken, again, marked>>

PostFails(s) ==
  /\ step[s] = "post"
  /\ SetStatus(of[s], "Error")
  /\ Answered(of[s], "lost")
  /\ Ends(s)
  /\ UNCHANGED <<name, uploads, dir, broken, again>>

\* What an exit marker says, unless upstream had refused.
Says(s, ok) ==
  /\ answer' = IF bad[s] THEN answer
               ELSE [answer EXCEPT ![of[s]] = IF ok THEN "ok" ELSE "failed"]
  /\ marked' = marked \union {s}

\* A line with an exit marker; the loop reads on.
ExitMarker(s) ==
  /\ step[s] = "stream"
  /\ \E ok \in BOOLEAN :
       /\ SetStatus(of[s], IF ok /\ ~bad[s] THEN "Ready" ELSE "Error")
       /\ Says(s, ok)
  /\ UNCHANGED <<name, uploads, dir, step, starter, severed, broken, again>>

\* The answer is complete, or breaks off: the loop does not tell.
StreamEnds(s) ==
  /\ step[s] = "stream"
  /\ Move(s, "check")
  /\ UNCHANGED <<status, name, uploads, dir, starter, severed, broken, verdicts>>

\* Without the defensive finish.
NeedFinalize_Never(s) ==
  /\ step[s] = "check"
  /\ Ends(s)
  /\ UNCHANGED <<status, name, uploads, dir, broken, answer, again>>

\* The status is not looked at: every task finishes its build.
NeedFinalize_Always(s) ==
  /\ step[s] = "check"
  /\ Move(s, "finalize")
  /\ UNCHANGED <<status, name, uploads, dir, starter, severed, broken, verdicts>>

\* need_finalize: the status is read under one lock and written under another.
NeedFinalize(s) ==
  /\ step[s] = "check"
  /\ \/ /\ status[of[s]] = "Building"
        /\ Move(s, "finalize")
        /\ UNCHANGED <<starter, severed, marked>>
     \/ /\ status[of[s]] # "Building"
        /\ Ends(s)
  /\ UNCHANGED <<status, name, uploads, dir, broken, answer, again>>

Finalize(s) ==
  /\ step[s] = "finalize"
  /\ SetStatus(of[s], IF bad[s] THEN "Error" ELSE "Ready")
  /\ Ends(s)
  /\ UNCHANGED <<name, uploads, dir, broken, answer, again>>

\* template_delete: the directory goes, whoever is filling it.
TemplateDelete(n) ==
  /\ dir[n].exists
  /\ dir' = [dir EXCEPT ![n] = NoDir]
  /\ severed' = severed \union {s \in Starters : step[s] = "fill" /\ name[of[s]] = n}
  /\ broken' = broken \ {n}
  /\ UNCHANGED <<status, name, uploads, step, starter, verdicts>>

----------------------------------------------------------------------------
Task(s) ==
  \/ Posted(s) \/ PostFails(s) \/ ExitMarker(s) \/ StreamEnds(s)
  \/ NeedFinalize(s) \/ Finalize(s)

BuildNext ==
  \/ \E b \in Builds : CreateBuild(b) \/ \E h \in Hashes : Upload(b, h)
  \/ \E s \in Starters :
       \/ \E b \in Builds, H \in SUBSET Hashes : BuildStart(s, b, H)
       \/ \E h \in Hashes : CopyFile(s, h)
       \/ WriteDockerfile(s) \/ SetBuilding(s) \/ StartDropped(s)
       \/ Task(s)
  \/ \E n \in Names : TemplateDelete(n)

BuildSpec == BuildInit /\ [][BuildNext]_buildVars

----------------------------------------------------------------------------
(* What a client polls is what upstream said of the build's last start:    *)
(* Ready after exit 0 or an accepted answer that stopped without a marker  *)
(* (also by a broken connection), Error after another exit, an HTTP error  *)
(* or no answer.  The marker, the look at the status and the defensive     *)
(* finish are three steps under three locks.  Builds that were started     *)
(* again under a task of theirs are left out: OnlyUnmarkedFinalize says    *)
(* what happens to them.                                                   *)
StatusEarned ==
  \A b \in Builds \ again :
    /\ status[b] = "Ready" => answer[b] \in {"ok", "accepted"}
    /\ status[b] = "Error" => answer[b] \in {"failed", "refused", "lost"}

(* Whatever starts of one name fill its directory at once, with whatever   *)
(* failures, the Dockerfile that is there copies only files that are       *)
(* there, unless the directory was deleted and made again under the start  *)
(* that wrote it.                                                          *)
CopiesPresent ==
  \A n \in Names \ broken : dir[n].copies \subseteq dir[n].files

(* A build in progress is a task in progress, however often it was started *)
(* and in whatever order the tasks end: no status stays at Building.       *)
BuildingHasTask ==
  \A b \in Builds : status[b] = "Building" =>
    \E s \in Starters : of[s] = b /\ step[s] \in Tasks

(* "Defensive: if no exit marker observed, finalize" (main.rs:2380): only  *)
(* a task whose own answer had no exit marker gets there.  It looks at the *)
(* status that all tasks of the build share, so that one that saw exit 1   *)
(* makes a build that was started again Ready.                             *)
OnlyUnmarkedFinalize ==
  \A s \in Starters : step[s] = "finalize" => s \notin marked
=============================================================================
