------------------------ MODULE TemplateBuildProofs ------------------------
(***************************************************************************)
(* Proofs about TemplateBuild for any number of builds, names, files and   *)
(* starters: what a build's status and its directory can be relied on for  *)
(* although builds may be started again, and directories deleted, while    *)
(* they run.                                                               *)
(***************************************************************************)
EXTENDS TemplateBuild, TLAPS

Statuses == {"none", "Pending", "Building", "Ready", "Error"}
Words == {"none", "accepted", "refused", "lost", "ok", "failed"}
Steps == {"idle", "fill", "lock"} \union Tasks
Directory == [exists : BOOLEAN, files : SUBSET Hashes, copies : SUBSET Hashes]

\* The variables' types; a starter at work has a build.
BuildTypeOK ==
  /\ status \in [Builds -> Statuses]
  /\ name \in [Builds -> Names]
  /\ uploads \in [Builds -> SUBSET Hashes]
  /\ dir \in [Names -> Directory]
  /\ step \in [Starters -> Steps]
  /\ of \in [Starters -> Builds \union {NoBuild}]
  /\ needs \in [Starters -> SUBSET Hashes]
  /\ left \in [Starters -> SUBSET Hashes]
  /\ bad \in [Starters -> BOOLEAN]
  /\ severed \in SUBSET Starters
  /\ broken \in SUBSET Names
  /\ answer \in [Builds -> Words]
  /\ again \in SUBSET Builds
  /\ marked \in SUBSET Starters
  /\ \A s \in Starters : step[s] # "idle" => of[s] \in Builds

\* What a starter has copied is there unless its directory was deleted.
FilledSoFar ==
  \A s \in Starters \ severed :
    step[s] = "fill" => needs[s] \ left[s] \subseteq Dir(s).files

\* Two tasks of one build: it was started again.
AloneOrAgain ==
  \A s, r \in Starters :
    s # r /\ step[s] \in Tasks /\ step[r] \in Tasks /\ of[s] = of[r] => of[s] \in again

\* What the only task of a build knows of its status.
Follows(s) ==
  LET b == of[s] IN
  /\ step[s] = "post" => status[b] = "Building" /\ answer[b] = "none"
  /\ step[s] \in {"stream", "check"} =>
       /\ bad[s] <=> answer[b] = "refused"
       /\ status[b] = "Building" => answer[b] \in {"accepted", "refused"}
  /\ step[s] = "finalize" =>
       status[b] = "Building" /\ answer[b] = IF bad[s] THEN "refused" ELSE "accepted"

Following == \A s \in Starters : step[s] \in Tasks /\ of[s] \notin again => Follows(s)

Directories == FilledSoFar /\ CopiesPresent
Verdicts == AloneOrAgain /\ Following /\ StatusEarned /\ BuildingHasTask

BuildInv == BuildTypeOK /\ Directories /\ Verdicts

----------------------------------------------------------------------------
\* What the end of a handler or task leaves of the starters' variables.
LEMMA EndsFacts ==
  ASSUME BuildTypeOK, NEW s \in Starters, Ends(s)
  PROVE  /\ step' \in [Starters -> Steps]
         /\ of' \in [Starters -> Builds \union {NoBuild}]
         /\ needs' \in [Starters -> SUBSET Hashes]
         /\ left' \in [Starters -> SUBSET Hashes]
         /\ bad' \in [Starters -> BOOLEAN]
         /\ severed' \in SUBSET Starters /\ marked' \in SUBSET Starters
         /\ step'[s] = "idle"
         /\ \A r \in Starters \ {s} :
              /\ step'[r] = step[r] /\ of'[r] = of[r] /\ bad'[r] = bad[r]
              /\ needs'[r] = needs[r] /\ left'[r] = left[r]
              /\ r \in severed' <=> r \in severed
<1>1. step' \in [Starters -> Steps] /\ of' \in [Starters -> Builds \union {NoBuild}]
  BY DEF BuildTypeOK, Ends, Move, Steps
<1>2. needs' \in [Starters -> SUBSET Hashes] /\ left' \in [Starters -> SUBSET Hashes]
  BY DEF BuildTypeOK, Ends
<1>3. /\ bad' \in [Starters -> BOOLEAN]
      /\ severed' \in SUBSET Starters /\ marked' \in SUBSET Starters
  BY DEF BuildTypeOK, Ends
<1>. QED BY <1>1, <1>2, <1>3 DEF BuildTypeOK, Ends, Move

\* Directories stay in order when nobody enters one and none changes.
LEMMA DirectoriesKept ==
  ASSUME BuildInv, UNCHANGED <<name, dir, broken>>,
         \A r \in Starters : step'[r] = "fill" =>
           /\ step[r] = "fill" /\ of'[r] = of[r]
           /\ needs'[r] = needs[r] /\ left'[r] = left[r]
           /\ r \in severed => r \in severed'
  PROVE  Directories'
BY DEF BuildInv, Directories, FilledSoFar, CopiesPresent, Dir

\* Verdicts stay when no task moves and no status changes.
LEMMA VerdictsKept ==
  ASSUME BuildInv, UNCHANGED <<status, answer, again>>,
         \A r \in Starters :
           /\ step[r] \in Tasks <=> step'[r] \in Tasks
           /\ step[r] \in Tasks => step'[r] = step[r] /\ of'[r] = of[r] /\ bad'[r] = bad[r]
  PROVE  Verdicts'
<1>1. AloneOrAgain'
  BY DEF BuildInv, Verdicts, AloneOrAgain
<1>2. Following'
  BY DEF BuildInv, Verdicts, Following, Follows
<1>3. StatusEarned' /\ BuildingHasTask'
  BY DEF BuildInv, Verdicts, StatusEarned, BuildingHasTask
<1>. QED BY <1>1, <1>2, <1>3 DEF Verdicts

\* A task has moved on, or ended and its build is no longer Building: only its
\* build's status and answer have changed, and they agree.
LEMMA TaskMoved ==
  ASSUME BuildInv, NEW s \in Starters, step[s] \in Tasks, UNCHANGED again,
         \A b \in Builds \ {of[s]} : status'[b] = status[b] /\ answer'[b] = answer[b],
         \A r \in Starters \ {s} : step'[r] = step[r] /\ of'[r] = of[r] /\ bad'[r] = bad[r],
         \/ step'[s] \in Tasks /\ of'[s] = of[s] /\ (of[s] \notin again => Follows(s)')
         \/ step'[s] = "idle" /\ status'[of[s]] # "Building",
         of[s] \notin again =>
           /\ status'[of[s]] = "Ready" => answer'[of[s]] \in {"ok", "accepted"}
           /\ status'[of[s]] = "Error" => answer'[of[s]] \in {"failed", "refused", "lost"}
  PROVE  Verdicts'
<1>0. of[s] \in Builds /\ "idle" \notin Tasks /\ \A r \in Starters : step[r] \in Tasks => of[r] \in Builds
  BY DEF BuildInv, BuildTypeOK, Tasks
<1>1. AloneOrAgain'
  BY <1>0 DEF BuildInv, Verdicts, AloneOrAgain
<1>2. Following'
  <2>. SUFFICES ASSUME NEW r \in Starters, step'[r] \in Tasks, of'[r] \notin again
                PROVE  Follows(r)'
    BY DEF Following
  <2>1. CASE r = s
    BY <1>0, <2>1
  <2>2. CASE r # s
    <3>1. step[r] \in Tasks /\ of[r] # of[s] /\ of[r] \in Builds /\ Follows(r)
      BY <1>0, <2>2 DEF BuildInv, Verdicts, AloneOrAgain, Following
    <3>. QED BY <2>2, <3>1 DEF Follows
  <2>. QED BY <2>1, <2>2
<1>3. StatusEarned'
  BY <1>0 DEF BuildInv, Verdicts, StatusEarned
<1>4. BuildingHasTask'
  <2>. SUFFICES ASSUME NEW b \in Builds, status'[b] = "Building"
                PROVE  \E r \in Starters : of'[r] = b /\ step'[r] \in Tasks
    BY DEF BuildingHasTask
  <2>1. CASE b = of[s]
    BY <2>1
  <2>2. CASE b # of[s]
    <3>1. PICK r \in Starters : of[r] = b /\ step[r] \in Tasks
      BY <2>2 DEF BuildInv, Verdicts, BuildingHasTask
    <3>. QED BY <2>2, <3>1
  <2>. QED BY <2>1, <2>2
<1>. QED BY <1>1, <1>2, <1>3, <1>4 DEF Verdicts

----------------------------------------------------------------------------
\* A start has copied nothing yet, and its directory loses nothing.
LEMMA BuildStartStep ==
  ASSUME BuildInv, NEW s \in Starters, NEW b \in Builds, NEW H \in SUBSET Hashes,
         BuildStart(s, b, H)
  PROVE  BuildInv'
<1>1. /\ UNCHANGED <<status, name, uploads, bad, severed, broken, answer, again, marked>>
      /\ name[b] \in Names /\ step[s] = "idle"
  BY DEF BuildStart, BuildInv, BuildTypeOK, verdicts
<1>2. /\ dir' \in [Names -> Directory]
      /\ \A n \in Names : dir'[n].files = dir[n].files /\ dir'[n].copies = dir[n].copies
  <2>1. dir' = [dir EXCEPT ![name[b]].exists = TRUE] /\ dir \in [Names -> Directory]
    BY DEF BuildStart, BuildInv, BuildTypeOK
  <2>. QED BY <1>1, <2>1 DEF Directory
<1>3. /\ step' \in [Starters -> Steps] /\ step'[s] = "fill"
      /\ of' \in [Starters -> Builds \union {NoBuild}] /\ of'[s] = b
      /\ needs' \in [Starters -> SUBSET Hashes] /\ left' \in [Starters -> SUBSET Hashes]
      /\ needs'[s] \ left'[s] = {}
      /\ \A r \in Starters \ {s} : /\ step'[r] = step[r] /\ of'[r] = of[r]
                                   /\ needs'[r] = needs[r] /\ left'[r] = left[r]
  BY DEF BuildStart, BuildInv, BuildTypeOK, Move, Steps
<1>4. BuildTypeOK'
  BY <1>1, <1>2, <1>3 DEF BuildInv, BuildTypeOK
<1>5. FilledSoFar'
  <2>. SUFFICES ASSUME NEW r \in Starters \ severed, step'[r] = "fill"
                PROVE  needs'[r] \ left'[r] \subseteq dir'[name[of'[r]]].files
    BY <1>1 DEF FilledSoFar, Dir
  <2>1. CASE r = s
    BY <1>3, <2>1
  <2>2. CASE r # s
    <3>1. of[r] \in Builds /\ name[of[r]] \in Names
      BY <1>3, <2>2 DEF BuildInv, BuildTypeOK
    <3>. QED BY <1>2, <1>3, <2>2, <3>1 DEF BuildInv, Directories, FilledSoFar, Dir
  <2>. QED BY <2>1, <2>2
<1>6. CopiesPresent'
  BY <1>1, <1>2 DEF BuildInv, Directories, CopiesPresent
<1>7. Verdicts'
  BY <1>1, <1>3, VerdictsKept DEF Tasks
<1>. QED BY <1>4, <1>5, <1>6, <1>7 DEF BuildInv, Directories

\* A handler ends before there is a task.
LEMMA StartEnds ==
  ASSUME BuildInv, NEW s \in Starters, step[s] \in {"fill", "lock"}, Ends(s),
         UNCHANGED <<status, name, uploads, dir, broken, answer, again>>
  PROVE  BuildInv'
<1>1. BuildTypeOK'
  BY EndsFacts DEF BuildInv, BuildTypeOK
<1>2. Directories'
  BY EndsFacts, DirectoriesKept DEF BuildInv
<1>3. Verdicts'
  BY EndsFacts, VerdictsKept DEF BuildInv, Tasks
<1>. QED BY <1>1, <1>2, <1>3 DEF BuildInv

\* A file more in the directory is a file less to copy.
LEMMA CopyFileStep ==
  ASSUME BuildInv, NEW s \in Starters, NEW h \in Hashes, CopyFile(s, h)
  PROVE  BuildInv'
<1>0. step[s] = "fill" /\ of[s] \in Builds /\ name[of[s]] \in Names
  BY DEF CopyFile, BuildInv, BuildTypeOK
<1>1. CASE Ends(s) /\ UNCHANGED dir
  BY <1>0, <1>1, StartEnds DEF CopyFile
<1>2. CASE ~(Ends(s) /\ UNCHANGED dir)
  <2>. DEFINE n == name[of[s]]
  <2>1. /\ UNCHANGED <<status, name, uploads, broken, answer, again, step, of, needs, bad, severed, marked>>
        /\ dir' = [dir EXCEPT ![n].files = @ \union {h}]
        /\ left' = [left EXCEPT ![s] = @ \ {h}]
    BY <1>2 DEF CopyFile
  <2>2. /\ dir' \in [Names -> Directory]
        /\ dir'[n].files = dir[n].files \union {h}
        /\ \A m \in Names : dir[m].files \subseteq dir'[m].files /\ dir'[m].copies = dir[m].copies
    BY <1>0, <2>1 DEF BuildInv, BuildTypeOK, Directory
  <2>3. /\ left' \in [Starters -> SUBSET Hashes] /\ left'[s] = left[s] \ {h}
        /\ \A r \in Starters \ {s} : left'[r] = left[r]
    BY <2>1 DEF BuildInv, BuildTypeOK
  <2>4. BuildTypeOK'
    BY <2>1, <2>2, <2>3 DEF BuildInv, BuildTypeOK
  <2>5. FilledSoFar'
    <3>. SUFFICES ASSUME NEW r \in Starters \ severed, step[r] = "fill"
                  PROVE  needs[r] \ left'[r] \subseteq dir'[name[of[r]]].files
      BY <2>1 DEF FilledSoFar, Dir
    <3>1. of[r] \in Builds /\ name[of[r]] \in Names
      BY DEF BuildInv, BuildTypeOK
    <3>2. needs[r] \ left[r] \subseteq dir[name[of[r]]].files
      BY DEF BuildInv, Directories, FilledSoFar, Dir
    <3>. QED BY <2>2, <2>3, <3>1, <3>2
  <2>6. CopiesPresent'
    BY <2>1, <2>2 DEF BuildInv, Directories, CopiesPresent
  <2>7. Verdicts'
    BY <2>1, VerdictsKept
  <2>. QED BY <2>4, <2>5, <2>6, <2>7 DEF BuildInv, Directories
<1>. QED BY <1>1, <1>2

\* The Dockerfile copies what has been copied into its directory.
LEMMA WriteDockerfileStep ==
  ASSUME BuildInv, NEW s \in Starters, WriteDockerfile(s)
  PROVE  BuildInv'
<1>0. /\ step[s] = "fill" /\ left[s] = {} /\ of[s] \in Builds /\ name[of[s]] \in Names
      /\ UNCHANGED <<status, name, uploads, answer, again>>
  BY DEF WriteDockerfile, BuildInv, BuildTypeOK
<1>1. CASE Ends(s) /\ UNCHANGED <<dir, broken>>
  BY <1>0, <1>1, StartEnds
<1>2. CASE ~(Ends(s) /\ UNCHANGED <<dir, broken>>)
  <2>. DEFINE n == name[of[s]]
  <2>1. /\ UNCHANGED <<of, needs, left, bad, marked>>
        /\ dir' = [dir EXCEPT ![n].copies = needs[s]]
        /\ broken' = IF s \in severed THEN broken \union {n} ELSE broken \ {n}
        /\ severed' = severed \ {s}
        /\ Move(s, "lock")
    BY <1>2 DEF WriteDockerfile, starter
  <2>2. /\ dir' \in [Names -> Directory]
        /\ dir'[n].copies = needs[s] /\ dir'[n].files = dir[n].files
        /\ \A m \in Names \ {n} : dir'[m] = dir[m]
    BY <1>0, <2>1 DEF BuildInv, BuildTypeOK, Directory
  <2>3. /\ step' \in [Starters -> Steps] /\ step'[s] = "lock"
        /\ \A r \in Starters \ {s} : step'[r] = step[r]
    BY <2>1 DEF BuildInv, BuildTypeOK, Move, Steps
  <2>4. BuildTypeOK'
    BY <1>0, <2>1, <2>2, <2>3 DEF BuildInv, BuildTypeOK
  <2>5. FilledSoFar'
    <3>. SUFFICES ASSUME NEW r \in Starters \ severed', step'[r] = "fill"
                  PROVE  needs[r] \ left[r] \subseteq dir'[name[of[r]]].files
      BY <1>0, <2>1 DEF FilledSoFar, Dir
    <3>1. r # s /\ r \notin severed /\ of[r] \in Builds /\ name[of[r]] \in Names
      BY <2>1, <2>3 DEF BuildInv, BuildTypeOK
    <3>2. needs[r] \ left[r] \subseteq dir[name[of[r]]].files
      BY <2>3, <3>1 DEF BuildInv, Directories, FilledSoFar, Dir
    <3>. QED BY <2>2, <3>1, <3>2
  <2>6. CopiesPresent'
    <3>1. s \notin severed => needs[s] \subseteq dir[n].files
      BY <1>0 DEF BuildInv, Directories, FilledSoFar, Dir
    <3>. QED BY <2>1, <2>2, <3>1 DEF BuildInv, Directories, CopiesPresent
  <2>7. Verdicts'
    BY <1>0, <2>1, <2>3, VerdictsKept DEF Tasks
  <2>. QED BY <2>4, <2>5, <2>6, <2>7 DEF BuildInv, Directories
<1>. QED BY <1>1, <1>2

\* A build is Building again, and this is its task.
LEMMA SetBuildingStep ==
  ASSUME BuildInv, NEW s \in Starters, SetBuilding(s)
  PROVE  BuildInv'
<1>. DEFINE b == of[s]
<1>0. /\ step[s] = "lock" /\ b \in Builds
      /\ UNCHANGED <<name, uploads, dir, of, needs, left, bad, severed, broken, marked>>
  BY DEF SetBuilding, BuildInv, BuildTypeOK, starter
<1>1. /\ status' \in [Builds -> Statuses] /\ status'[b] = "Building"
      /\ answer' \in [Builds -> Words] /\ answer'[b] = "none"
      /\ \A c \in Builds \ {b} : status'[c] = status[c] /\ answer'[c] = answer[c]
  BY <1>0 DEF SetBuilding, SetStatus, Answered, BuildInv, BuildTypeOK, Statuses, Words
<1>2. /\ step' \in [Starters -> Steps] /\ step'[s] = "post"
      /\ \A r \in Starters \ {s} : step'[r] = step[r]
  BY DEF SetBuilding, BuildInv, BuildTypeOK, Move, Steps, Tasks
<1>3. /\ again' \in SUBSET Builds
      /\ \A c \in Builds \ {b} : c \in again' <=> c \in again
      /\ \A r \in Starters : step[r] \in Tasks /\ of[r] = b => b \in again'
  BY <1>0 DEF SetBuilding, BuildInv, BuildTypeOK
<1>4. BuildTypeOK'
  BY <1>0, <1>1, <1>2, <1>3 DEF BuildInv, BuildTypeOK
<1>5. Directories'
  BY <1>0, <1>2, DirectoriesKept
<1>6. AloneOrAgain'
  <2>. SUFFICES ASSUME NEW p \in Starters, NEW r \in Starters, p # r, step'[p] \in Tasks,
                       step'[r] \in Tasks, of[p] = of[r]
                PROVE  of[p] \in again'
    BY <1>0 DEF AloneOrAgain
  <2>1. CASE of[p] = b
    BY <1>2, <1>3, <2>1
  <2>2. CASE of[p] # b
    <3>1. p # s /\ r # s
      BY <2>2
    <3>2. step[p] \in Tasks /\ step[r] \in Tasks /\ of[p] \in Builds
      BY <1>2, <3>1 DEF BuildInv, BuildTypeOK, Tasks
    <3>. QED BY <1>3, <2>2, <3>2 DEF BuildInv, Verdicts, AloneOrAgain
  <2>. QED BY <2>1, <2>2
<1>7. Following'
  <2>. SUFFICES ASSUME NEW r \in Starters, step'[r] \in Tasks, of[r] \notin again'
                PROVE  Follows(r)'
    BY <1>0 DEF Following
  <2>1. CASE r = s
    BY <1>0, <1>1, <1>2, <2>1 DEF Follows
  <2>2. CASE r # s
    <3>1. step[r] \in Tasks /\ of[r] \in Builds
      BY <1>2, <2>2 DEF BuildInv, BuildTypeOK, Tasks
    <3>2. of[r] # b
      BY <1>3, <3>1
    <3>3. Follows(r)
      BY <1>3, <3>1, <3>2 DEF BuildInv, Verdicts, Following
    <3>. QED BY <1>0, <1>1, <1>2, <2>2, <3>1, <3>2, <3>3 DEF Follows
  <2>. QED BY <2>1, <2>2
<1>8. StatusEarned'
  BY <1>1, <1>3 DEF BuildInv, Verdicts, StatusEarned
<1>9. BuildingHasTask'
  <2>. SUFFICES ASSUME NEW c \in Builds, status'[c] = "Building"
                PROVE  \E r \in Starters : of[r] = c /\ step'[r] \in Tasks
    BY <1>0 DEF BuildingHasTask
  <2>1. CASE c = b
    BY <1>2, <2>1 DEF Tasks
  <2>2. CASE c # b
    <3>1. PICK r \in Starters : of[r] = c /\ step[r] \in Tasks
      BY <1>1, <2>2 DEF BuildInv, Verdicts, BuildingHasTask
    <3>. QED BY <1>0, <1>2, <3>1 DEF Tasks
  <2>. QED BY <2>1, <2>2
<1>. QED BY <1>4, <1>5, <1>6, <1>7, <1>8, <1>9 DEF BuildInv, Verdicts

----------------------------------------------------------------------------
\* A task ends.
LEMMA TaskEnds ==
  ASSUME BuildInv, NEW s \in Starters, step[s] \in Tasks, Ends(s),
         UNCHANGED <<name, uploads, dir, broken, again>>,
         status' \in [Builds -> Statuses], answer' \in [Builds -> Words],
         \A b \in Builds \ {of[s]} : status'[b] = status[b] /\ answer'[b] = answer[b],
         status'[of[s]] # "Building",
         of[s] \notin again =>
           /\ status'[of[s]] = "Ready" => answer'[of[s]] \in {"ok", "accepted"}
           /\ status'[of[s]] = "Error" => answer'[of[s]] \in {"failed", "refused", "lost"}
  PROVE  BuildInv'
<1>1. BuildTypeOK'
  BY EndsFacts DEF BuildInv, BuildTypeOK
<1>2. Directories'
  BY EndsFacts, DirectoriesKept DEF BuildInv
<1>3. Verdicts'
  BY EndsFacts, TaskMoved DEF BuildInv
<1>. QED BY <1>1, <1>2, <1>3 DEF BuildInv

\* A task goes on.
LEMMA TaskGoes ==
  ASSUME BuildInv, NEW s \in Starters, step[s] \in Tasks, NEW label \in Tasks,
         Move(s, label), UNCHANGED <<name, uploads, dir, broken, again, of, needs, left, severed>>,
         bad' \in [Starters -> BOOLEAN], \A r \in Starters \ {s} : bad'[r] = bad[r],
         marked' \in SUBSET Starters,
         status' \in [Builds -> Statuses], answer' \in [Builds -> Words],
         \A b \in Builds \ {of[s]} : status'[b] = status[b] /\ answer'[b] = answer[b],
         of[s] \notin again => Follows(s)',
         of[s] \notin again =>
           /\ status'[of[s]] = "Ready" => answer'[of[s]] \in {"ok", "accepted"}
           /\ status'[of[s]] = "Error" => answer'[of[s]] \in {"failed", "refused", "lost"}
  PROVE  BuildInv'
<1>1. /\ step' \in [Starters -> Steps] /\ step'[s] = label
      /\ \A r \in Starters \ {s} : step'[r] = step[r]
  BY DEF BuildInv, BuildTypeOK, Move, Steps
<1>2. BuildTypeOK'
  BY <1>1 DEF BuildInv, BuildTypeOK, Tasks
<1>3. Directories'
  BY <1>1, DirectoriesKept DEF Tasks
<1>4. Verdicts'
  BY <1>1, TaskMoved
<1>. QED BY <1>2, <1>3, <1>4 DEF BuildInv

\* The steps of a task.
LEMMA TaskStep ==
  ASSUME BuildInv, NEW s \in Starters, Task(s)
  PROVE  BuildInv'
<1>. DEFINE b == of[s]
<1>0. /\ BuildTypeOK
      /\ \A p \in Starters : step[p] \in Tasks =>
           /\ of[p] \in Builds
           /\ of[p] \notin again => Follows(p)
      /\ b \in Builds /\ b \notin again =>
           /\ status[b] = "Ready" => answer[b] \in {"ok", "accepted"}
           /\ status[b] = "Error" => answer[b] \in {"failed", "refused", "lost"}
  BY DEF BuildInv, BuildTypeOK, Verdicts, Following, StatusEarned, Tasks
<1>1. CASE Posted(s)
  <2>1. step[s] = "post" /\ b \in Builds /\ (b \notin again => status[b] = "Building")
    BY <1>0, <1>1 DEF Posted, Tasks, Follows
  <2>2. PICK ok \in BOOLEAN : /\ bad' = [bad EXCEPT ![s] = ~ok]
                              /\ Answered(b, IF ok THEN "accepted" ELSE "refused")
    BY <1>1 DEF Posted
  <2>3. /\ answer' \in [Builds -> Words] /\ answer'[b] = IF ok THEN "accepted" ELSE "refused"
        /\ \A c \in Builds \ {b} : answer'[c] = answer[c]
    BY <1>0, <2>1, <2>2 DEF Answered, BuildTypeOK, Words
  <2>4. bad' \in [Starters -> BOOLEAN] /\ bad'[s] = ~ok /\ \A r \in Starters \ {s} : bad'[r] = bad[r]
    BY <1>0, <2>2 DEF BuildTypeOK
  <2>5. /\ Move(s, "stream") /\ step'[s] = "stream"
        /\ UNCHANGED <<status, name, uploads, dir, of, needs, left, severed, broken, again, marked>>
    BY <1>0, <1>1 DEF Posted, Move, BuildTypeOK
  <2>6. Follows(s)'
    BY <2>3, <2>4, <2>5 DEF Follows
  <2>. QED BY <1>0, <2>1, <2>3, <2>4, <2>5, <2>6, TaskGoes DEF BuildTypeOK, Tasks
<1>2. CASE PostFails(s)
  <2>1. step[s] = "post" /\ b \in Builds
    BY <1>0, <1>2 DEF PostFails, Tasks
  <2>2. /\ status' \in [Builds -> Statuses] /\ answer' \in [Builds -> Words]
        /\ status'[b] = "Error" /\ answer'[b] = "lost"
        /\ \A c \in Builds \ {b} : status'[c] = status[c] /\ answer'[c] = answer[c]
    BY <1>0, <1>2, <2>1 DEF PostFails, SetStatus, Answered, BuildTypeOK, Statuses, Words
  <2>. QED BY <1>2, <2>1, <2>2, TaskEnds DEF PostFails, Tasks
<1>3. CASE ExitMarker(s)
  <2>1. step[s] = "stream" /\ b \in Builds /\ bad[s] \in BOOLEAN
        /\ (b \notin again => (bad[s] <=> answer[b] = "refused"))
    BY <1>0, <1>3 DEF ExitMarker, Tasks, Follows, BuildTypeOK
  <2>2. PICK ok \in BOOLEAN : SetStatus(b, IF ok /\ ~bad[s] THEN "Ready" ELSE "Error") /\ Says(s, ok)
    BY <1>3 DEF ExitMarker
  <2>3. /\ status' \in [Builds -> Statuses]
        /\ status'[b] = IF ok /\ ~bad[s] THEN "Ready" ELSE "Error"
        /\ \A c \in Builds \ {b} : status'[c] = status[c]
    BY <1>0, <2>1, <2>2 DEF SetStatus, BuildTypeOK, Statuses
  <2>4. /\ answer' \in [Builds -> Words] /\ marked' \in SUBSET Starters
        /\ answer'[b] = IF bad[s] THEN answer[b] ELSE IF ok THEN "ok" ELSE "failed"
        /\ \A c \in Builds \ {b} : answer'[c] = answer[c]
    BY <1>0, <2>1, <2>2 DEF Says, BuildTypeOK, Words
  <2>5. /\ Move(s, "stream") /\ step' = step
        /\ UNCHANGED <<name, uploads, dir, of, needs, left, bad, severed, broken, again>>
    BY <1>0, <1>3, <2>1 DEF ExitMarker, Move, starter, BuildTypeOK
  <2>6. b \notin again => Follows(s)'
    BY <2>1, <2>3, <2>4, <2>5 DEF Follows
  <2>. QED BY <1>0, <2>1, <2>3, <2>4, <2>5, <2>6, TaskGoes DEF BuildTypeOK, Tasks
<1>4. CASE StreamEnds(s)
  <2>1. step[s] = "stream" /\ b \in Builds /\ step'[s] = "check" /\ Move(s, "check")
    BY <1>0, <1>4 DEF StreamEnds, Tasks, Move, BuildTypeOK
  <2>2. UNCHANGED <<status, name, uploads, dir, of, needs, left, bad, severed, broken, answer, again, marked>>
    BY <1>4 DEF StreamEnds, starter, verdicts
  <2>3. b \notin again => Follows(s)'
    BY <1>0, <2>1, <2>2 DEF Follows, Tasks
  <2>. QED BY <1>0, <2>1, <2>2, <2>3, TaskGoes DEF BuildTypeOK, Tasks
<1>5. CASE NeedFinalize(s)
  <2>1. step[s] = "check" /\ b \in Builds /\ UNCHANGED <<status, name, uploads, dir, broken, answer, again>>
    BY <1>0, <1>5 DEF NeedFinalize, Tasks
  <2>2. CASE status[b] = "Building" /\ Move(s, "finalize") /\ UNCHANGED <<starter, severed, marked>>
    <3>1. step'[s] = "finalize" /\ UNCHANGED <<of, needs, left, bad>>
      BY <1>0, <2>2 DEF Move, BuildTypeOK, starter
    <3>2. b \notin again => Follows(s)'
      BY <1>0, <2>1, <2>2, <3>1 DEF Follows, Tasks, BuildTypeOK
    <3>. QED BY <1>0, <2>1, <2>2, <3>1, <3>2, TaskGoes DEF BuildTypeOK, Tasks
  <2>3. CASE status[b] # "Building" /\ Ends(s)
    BY <1>0, <2>1, <2>3, TaskEnds DEF BuildTypeOK, Tasks
  <2>. QED BY <1>5, <2>2, <2>3 DEF NeedFinalize
<1>6. CASE Finalize(s)
  <2>1. step[s] = "finalize" /\ b \in Builds
        /\ (b \notin again => answer[b] = IF bad[s] THEN "refused" ELSE "accepted")
    BY <1>0, <1>6 DEF Finalize, Tasks, Follows
  <2>2. /\ status' \in [Builds -> Statuses]
        /\ status'[b] = IF bad[s] THEN "Error" ELSE "Ready"
        /\ \A c \in Builds \ {b} : status'[c] = status[c]
    BY <1>0, <1>6, <2>1 DEF Finalize, SetStatus, BuildTypeOK, Statuses
  <2>. QED BY <1>0, <1>6, <2>1, <2>2, TaskEnds DEF Finalize, Tasks, BuildTypeOK
<1>. QED BY <1>1, <1>2, <1>3, <1>4, <1>5, <1>6 DEF Task

\* A delete severs whoever is filling the directory, and takes the Dockerfile.
LEMMA TemplateDeleteStep ==
  ASSUME BuildInv, NEW n \in Names, TemplateDelete(n)
  PROVE  BuildInv'
<1>1. /\ UNCHANGED <<status, name, uploads, step, of, needs, left, bad, answer, again, marked>>
      /\ dir' \in [Names -> Directory] /\ dir'[n] = NoDir
      /\ \A m \in Names \ {n} : dir'[m] = dir[m]
  BY DEF TemplateDelete, NoDir, BuildInv, BuildTypeOK, Directory, starter, verdicts
<1>2. /\ severed' \in SUBSET Starters /\ severed \subseteq severed'
      /\ \A s \in Starters : step[s] = "fill" /\ name[of[s]] = n => s \in severed'
      /\ broken' = broken \ {n}
  BY DEF TemplateDelete, BuildInv, BuildTypeOK
<1>3. BuildTypeOK'
  BY <1>1, <1>2 DEF BuildInv, BuildTypeOK
<1>4. FilledSoFar'
  <2>. SUFFICES ASSUME NEW s \in Starters \ severed', step[s] = "fill"
                PROVE  needs[s] \ left[s] \subseteq dir'[name[of[s]]].files
    BY <1>1 DEF FilledSoFar, Dir
  <2>1. s \notin severed /\ of[s] \in Builds /\ name[of[s]] \in Names \ {n}
    BY <1>2 DEF BuildInv, BuildTypeOK
  <2>. QED BY <1>1, <2>1 DEF BuildInv, Directories, FilledSoFar, Dir
<1>5. CopiesPresent'
  BY <1>1, <1>2 DEF NoDir, BuildInv, Directories, CopiesPresent
<1>6. Verdicts'
  BY <1>1, VerdictsKept
<1>. QED BY <1>3, <1>4, <1>5, <1>6 DEF BuildInv, Directories

----------------------------------------------------------------------------
\* The inductive invariant of the builds.
LEMMA BuildInvHolds == BuildSpec => []BuildInv
<1>1. ASSUME BuildInit
      PROVE  BuildInv
  <2>1. BuildTypeOK
    BY <1>1 DEF BuildInit, BuildTypeOK, Directory, NoDir, Steps, Statuses, Words
  <2>2. Directories
    BY <1>1 DEF BuildInit, Directories, FilledSoFar, CopiesPresent, NoDir
  <2>3. Verdicts
    BY <1>1 DEF BuildInit, Verdicts, AloneOrAgain, Following, StatusEarned, BuildingHasTask, Tasks
  <2>. QED BY <2>1, <2>2, <2>3 DEF BuildInv
<1>2. ASSUME BuildInv, [BuildNext]_buildVars
      PROVE  BuildInv'
  <2>. USE <1>2
  <2>0. BuildTypeOK
    BY DEF BuildInv
  <2>1. ASSUME NEW b \in Builds, CreateBuild(b)
        PROVE  BuildInv'
    <3>1. /\ status' \in [Builds -> Statuses] /\ status[b] = "none" /\ status'[b] = "Pending"
          /\ \A c \in Builds \ {b} : status'[c] = status[c]
          /\ UNCHANGED <<name, uploads, dir, step, of, needs, left, bad, severed, broken,
                         answer, again, marked>>
      BY <2>0, <2>1 DEF CreateBuild, SetStatus, BuildTypeOK, Statuses, starter, verdicts
    <3>2. BuildTypeOK'
      BY <2>0, <3>1 DEF BuildTypeOK
    <3>3. Directories'
      BY <3>1, DirectoriesKept
    <3>4. AloneOrAgain' /\ StatusEarned' /\ BuildingHasTask'
      BY <3>1 DEF BuildInv, Verdicts, AloneOrAgain, StatusEarned, BuildingHasTask
    <3>5. Following'
      <4>. SUFFICES ASSUME NEW r \in Starters, step[r] \in Tasks, of[r] \notin again
                    PROVE  Follows(r)'
        BY <3>1 DEF Following
      <4>1. Follows(r) /\ of[r] \in Builds
        BY <2>0 DEF BuildInv, Verdicts, Following, BuildTypeOK, Tasks
      <4>. QED BY <3>1, <4>1 DEF Follows
    <3>. QED BY <3>2, <3>3, <3>4, <3>5 DEF BuildInv, Verdicts
  <2>2. ASSUME NEW b \in Builds, NEW h \in Hashes, Upload(b, h)
        PROVE  BuildInv'
    <3>1. BuildTypeOK'
      BY <2>0, <2>2 DEF Upload, starter, verdicts, BuildTypeOK
    <3>2. Directories' /\ Verdicts'
      BY <2>2, DirectoriesKept, VerdictsKept DEF Upload, starter, verdicts
    <3>. QED BY <3>1, <3>2 DEF BuildInv
  <2>3. ASSUME NEW s \in Starters, StartDropped(s)
        PROVE  BuildInv'
    BY <2>3, StartEnds DEF StartDropped
  <2>4. CASE UNCHANGED buildVars
    <3>1. BuildTypeOK'
      BY <2>0, <2>4 DEF buildVars, starter, verdicts, BuildTypeOK
    <3>2. Directories' /\ Verdicts'
      BY <2>4, DirectoriesKept, VerdictsKept DEF buildVars, starter, verdicts
    <3>. QED BY <3>1, <3>2 DEF BuildInv
  <2>. QED BY <2>1, <2>2, <2>3, <2>4, BuildStartStep, CopyFileStep, WriteDockerfileStep,
              SetBuildingStep, TaskStep, TemplateDeleteStep DEF BuildNext
<1>. QED BY <1>1, <1>2, PTL DEF BuildSpec

\* Whoever starts a build again, and in whatever order its tasks end, a status
\* of Building has a task that will still change it: the defensive finish of
\* templates_build_start's task leaves no build behind.
THEOREM BuildingNeverStuck == BuildSpec => []BuildingHasTask
<1>1. BuildInv => BuildingHasTask
  BY DEF BuildInv, Verdicts
<1>. QED BY <1>1, BuildInvHolds, PTL

\* A build that was not started again under a task of its own is Ready or in
\* Error as upstream's answer to its last start has it: the markers, the look at
\* the status and the defensive finish, each under a lock of its own, agree.
THEOREM StatusIsEarned == BuildSpec => []StatusEarned
<1>1. BuildInv => StatusEarned
  BY DEF BuildInv, Verdicts
<1>. QED BY <1>1, BuildInvHolds, PTL

\* However many starts fill one directory, and wherever they fail, its
\* Dockerfile copies files that are there, unless the start that wrote it had
\* its directory deleted.
THEOREM DockerfilesCopyPresent == BuildSpec => []CopiesPresent
<1>1. BuildInv => CopiesPresent
  BY DEF BuildInv, Directories
<1>. QED BY <1>1, BuildInvHolds, PTL
=============================================================================
