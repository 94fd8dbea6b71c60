# A TLA+ verification of Mindbox

Mindbox runs coding tools for language-model agents: a controller
(`api-rust`, :8000) starts and pauses one group of containers per template, a
daemon in each container (`tools-rust`, :8002) serves sessions, and a
compatibility server (`e2b-shim`, :8001) translates the E2B SDK's calls.
This directory holds TLA+ models of its concurrent core, TLC configurations
that check them, and TLAPS proofs about them. Paths below are relative to the
repository root; `main.rs:207` without a directory means the file named in the
section.

## 1. Inventory

Each entry gives the state, the operations, whom it interacts with, what is
hard about it and what makes it correct.

### Controller, `api-rust/src`

**Template registry** (`main.rs:107-420`, *modelled*: `PagedRegistry`). State: `configs`,
and under one mutex `runtimes` (template → tier Hot or Warm and
container ids; Cold is absence) and `lru` (oldest first), and under another the
per-template name locks. Operations: `acquire`, which calls the two evictors
`evict_hot_to_warm_if_needed_excluding` and `evict_warm_to_cold_if_needed`.
Interacts with Docker (start, pause, unpause, remove) and, as the callee, with
the session routes. Hard: the mutex is released around every Docker call, so the
tier that was read, the room that was found and the runtime that was cloned may
be stale when they are written back; replicas may fail after others were started;
axum drops the handler when its client goes away. Correct when: no
container is lost, tiers and containers agree, the limits hold as nearly as the
code's locking allows, eviction is LRU, and every acquire ends.

**Replica start, warmup, restart** (`main.rs:422-905`, *modelled*: `ReplicaStart`).
State: containers and the tools network in Docker, the container each start holds.
Operations: `start_tools_container` with `ensure_tools_network`, the health probes
and `run_template_warmup`; `cleanup_old_hot_containers` of a restarted controller.
Hard: a dozen awaits, each of which may fail or be where the handler is dropped,
after the container exists; several starts race to create the network. Correct
when: what is handed to the registry is ready, what is not handed over is removed,
every start ends.

**Tools forward** (`tools_forward.rs`, *modelled*: `ToolsForward`). State: the sticky map
session → daemon URL. Operations: create, call and delete a `/v2` session. Composes the
registry (it acquires and picks a daemon) with the daemons' sessions. Hard: a
sticky daemon may have been paused or removed since, and its address given to another
container; calls do not count as uses of the template; delete forgets the entry before
it forwards; requests wait without a deadline. Correct when: a session's requests reach
the daemon that has it, no session is left unreachable, every request is answered.

**Health and stats** (`main.rs:909-970`): read-only.

### Daemon, `tools-rust/src`

**Sessions and the life of their processes** (`main.rs:39-80, 142-194, 614-622,
761-795, 1157-1206, 1336-1371`, `process.rs:256-460, 735-953`, *modelled*:
`SessionProcesses`).
State: the map of sessions, each with its directory, its cgroup, `last_touched`
and its map of process handles; the children in the kernel. Operations:
create and delete a session, start, signal and stop a process, the wait task, the
idle reaper, the shutdown drain. Hard: everything runs concurrently on a sharded
map, handlers keep an `Arc` of a session that has left it, termination awaits a
grace period, clients disconnect, processes ignore SIGTERM. Correct when: no
process outlives its session or the daemon, no session is reaped twice, a live
session has its directory, the process cap holds, idle sessions go and used ones
stay, and reaps and the shutdown end.

**Streams and waiting** (`process.rs:183-254, 285-313, 473-732`, *modelled*:
`ProcessStreams`). State: per stream a bounded ring of bytes, a truncation count and a
closed flag; the stdin slot; `Notify`s without stored permits. Operations: the drain tasks'
`push`, the wait task's `close`, `read`, `wait`, `write`, `list`. Hard: a reader
looks and then waits, and what happens in between wakes nobody; the buffers are
closed by the wait task and not by the drain tasks; overflow; a dropped `write`
loses stdin. Correct when: bytes are delivered in order, at most once, every loss
is reported, and end of file is final.

**Bash and the file tools** (`main.rs:588-760, 797-1254`, *partly*: `FileTools` has
write and edit). State: the files. `edit` reads, replaces and writes without a lock, and the
write truncates first; `edits[]` is a list of replacements that may touch, overlap or
contain one another's text. Correct when: edits one after the other are kept, and the
outcome of a list does not depend on its order. read, ls, grep and find only read.
**Isolation** (`main.rs:82-142, 196-586`, not modelled): seccomp, chroot and
resource limits are kernel configuration; the cgroup's life is modelled with the
sessions.

### E2B shim, `e2b-shim/src/main.rs`

**Sandbox records** (`:47-206, 1023-1157, 1914-1933, 2529-2600`, *modelled*:
`SandboxLifecycle`). State: the map of records and one file per record; each record names a
`/v2` session. Operations: create, delete, set timeout, pause, resume, refresh, the
minute's sweep, reload at start. Hard: clone-modify-insert races with delete and sweep;
crashes between upstream session, map and file; the sweep leaves the upstream session; two
routes keep a lock of the map over awaits (`ShardGuards`). Correct when: map and file agree, a deleted sandbox does not come back, an
extended one is not swept, a session is not left without a record.

**Volumes and mirror** (`:212-620, 790-969, 2911-3349`, *modelled*: `VolumeMirror`). State:
volumes in a scratch directory and, with that backend, in S3, copied into a sandbox at its
creation; writes and deletes through the shim's files routes are mirrored back, what processes, bash or
the daemon's own routes do in the sandbox is not. Hard: up to three
copies written in sequence without a lock, failures and lost answers in between. Correct
when: an undisturbed change by the shim's routes reaches every copy.

**Template builds** (`:2059-2410, 2752-2766`, *partly*: `TemplateBuild`). State: build records,
staged uploads, a directory per template name. Operations: create, upload, start, the
background task, delete. Hard: a build may be started again while it runs, and two builds
of one name share a directory. Correct when: the status a client polls is what upstream said of the
build's last start and never stays at Building, and a directory's Dockerfile copies only files that
are in it. What upstream builds from the directory is not in this repository: `api-rust` has no `/admin/build`.

**Process bridge** (`:1161-1570`): one bash call per process start, wrapped into a
Connect stream. **Snapshots, tags, template CRUD** (`:1937-2020, 2604-2859`) and the
**framing, base64, multipart and url coding**: not modelled, see section 7.

### The rest

`template-builder/` is a command-line tool that writes a Dockerfile and runs
`docker build`; `ops/`, `bench/`, `scripts/`, `tests/`, `openspec/` and `docs/` are
operator scripts, load generators, tests and text. None is modelled.

## 2. Plan

| # | module | subject | checked | proved |
|---|--------|---------|---------|--------|
| 1 | `PagedRegistry`, abstract `LruTiers` | template registry | yes | all invariants and the refinement, under the hypotheses of section 6 |
| 2 | `SessionProcesses` | sessions, processes, reaper, shutdown | yes | all three invariants |
| 3 | `ProcessStreams`, abstract `LossyStreams` | buffers, read, wait, stdin | yes | invariants and refinement |
| 4 | `ToolsForward` | sticky routing over registry and daemons | yes | both invariants |
| 5 | `ReplicaStart` | start of a container, controller restart | yes | both invariants |
| 6 | `FileTools` | edit and write, the edit functions | yes | both invariants, the second for texts of any length |
| 7 | `SandboxLifecycle` | e2b records, files, sweep, crash and reload | yes | all four invariants |
| | `ShardGuards` | the map's locks and the runtime's threads | yes | a wedged shim stays wedged |
| 8 | `VolumeMirror` | copies of a volume's files | yes | both invariants |
| 9 | `TemplateBuild` | build records and tasks | yes | all three invariants |

Every safety invariant and every action property the runs check is proved, some of the registry's under hypotheses
(section 6); liveness is left to TLC. For concurrent handlers and a small Warm tier the code does not keep `NoLeak`,
`RegisteredExist` and `LruMatchesRuntimes` (section 4); what it keeps there is `HotInLru`, `HotBound`,
`LruNoDuplicates` and `ServesOneTemplate`.

## 3. The models

### `PagedRegistry`

| model | code |
|-------|------|
| `runtimes[n]`, `lru` | `RegistryState.runtimes`, `.lru` |
| `docker[c]` | the state of a container in Docker |
| `pc[t]`, `want[t]`, `mine[t]` | where handler `t` is in `acquire(want)`, and its `TemplateRuntime` |
| `victim[t]`, `theirs[t]`, `todo[t]` | the evictors' `victim`, the cloned runtime, the rest of a `for cid` loop |

An action is one critical section or one Docker call; the interleavings are those
the code's locks and awaits allow. `AcquireHot`/`AcquireSlow` are the fast path and
its miss; `Recheck` takes the name lock and looks again; `Reinsert`,
`Unpause`+`Register` and `Start`+`Register` are the three slow paths; `EvictHot`,
`TakeVictim`, `Pause`, `MarkWarm` are the loop of the Hot evictor, `EvictWarm`,
`DropWarm`, `Remove_` that of the Warm one. A failing call (`Faulty`) leaves the
container as it was, since the code only logs the error. A failed start removes its
own container inside `start_tools_container` and is thus a step that creates
nothing (`ReplicaStart` takes that step apart); `Rollback` removes its predecessors. `Remove_` unpauses a paused
container in one step and removes it in another. `Cancel` drops a handler at any await.

Abstracted: the choice of an endpoint among replicas, health polling and warmup
inside a start (either outcome is possible), `last_used` stamps (unused by the
evictors), log lines.

### `LruTiers`

What the registry promises about tiers alone: a two-level LRU cache whose four steps
are a hit, an admission, a demotion and a drop. `FollowsPolicy` states that
`PagedRegistry` implements it under the mapping `tier <- runtimes[n].tier`,
`order <- lru`.

### `SessionProcesses`

| model | code |
|-------|------|
| `sessions`, `procs[s]` | `AppState.sessions`, `SessionState.processes` |
| `dirs`, `cgroups`, `jailed` | session directories and cgroups, and who is in them |
| `os[p]`, `running[p]` | the child in the kernel, `ProcessHandle.state` |
| `idle` | sessions whose `last_touched` is too old |
| `daemon` | running, draining, closing, exited, killed |
| `pc`, `sess`, `cur`, `todo`, `batch` | each handler's, the reaper's and the drain's position and locals |

`TakeSession` is `DashMap::remove`; from there DELETE, the reaper and the drain share
the steps of `reap_session_processes` and `terminate_handle`. `GraceOver` and
`KillWaitOver` are enabled at once because the model has no clock: a grace period
may be over at any moment, before or after the exit. A process obeys SIGTERM or
ignores it: `Exit` may happen at any time and need never happen, except after SIGKILL.
`ExitDaemon` is the runtime's end, with `kill_on_drop`; `Sigterm` is the default
effect of an unhandled signal. (As PID 1 of a container without an init, the kernel
discards an unhandled SIGTERM; Docker then sends SIGKILL, with the same result for
sessions but with the whole container.)

`snapshot_running` is a `try_lock`: it takes a process whose state another task is looking at for a running one,
so `Term` may signal one that has exited and `GraceOver` may count one as running.

Abstracted: environment, arguments and cwd of a command, the stdio (module 3), the
spawn's isolation set-up. A pid is never reused in the model.

### `ProcessStreams` and `LossyStreams`

| model | code |
|-------|------|
| `child`, `recorded`, `waiter` | the child and the holders of its pipes, `ProcessHandle.state`, the wait task's position |
| `sent`, `pipe`, `chunk` | bytes written by the child (byte *n* is the number *n*), those in the pipe, the drain task's local buffer |
| `buf`, `truncated`, `closed` | `StreamBufferInner` |
| `slot`, `lock`, `stdin` | the stdin slot and its mutex; which write each byte the child got is from |
| `at`, `max`, `patient`, `found`, `wid`, `left` | each caller's position and locals in `action_read`, `action_wait`, `action_write` |
| `woken` | a sleeper was notified since it registered |
| `piece`, `eofSaid` | history: the last drained bytes, the streams whose end was reported |

One process is modelled, since processes share nothing here. `DrainRead` and `Push`
are the drain task's two steps, `Record`, `CloseOut`, `CloseErr` and `NotifyExit`
the wait task's. A read drains stdout and stderr in two critical sections, may
sleep once (`Register`, `Wake`) and drains both again. `Notify` sets `woken` of
those registered and of no others, as `notify_waiters` does: a notification between a
handler's look at the state and its registration is lost. Timeouts may end at
any moment. `Push` states the outcome of the code's byte-by-byte loop at once;
`MCDaemon` has the loop and assumes their equality (`PushIsTheLoop`), which TLC
evaluates on every run. `WaitRequest` may find an exited child running, by the same `try_lock` as above.
`Disconnect` drops a caller at an await, and stdin with it if
it is the writer's.

`LossyStreams` is what a client may rely on: a write appends, the oldest pending bytes
may be lost, and a read returns the next bytes and says whether some were lost since the
last one.

Abstracted: byte values, UTF-8 and base64, the 404 and 400 answers that touch nothing,
`list` (read-only), the exact exit code. `max_bytes` absent is the case of a number
as large as the buffer. A capacity of 0, which `TOOLS_PROCESS_BUFFER_BYTES` permits, is
excluded by `StreamAssumption`: the ring is then unbounded.

### `ToolsForward`

| model | code |
|-------|------|
| `sticky[s]` | `ToolsForwardState.sessions` |
| `state[u]`, `owner[u]`, `sessions[u]` | the container at an address, its template, the sessions its daemon holds |
| `used` | ids the daemons have drawn (UUIDs) |
| `pc[c]`, `url[c]`, `sid[c]` | each handler's position, upstream and session |
| `orphaned` | history: sessions whose only reference a handler dropped |

`CreateSession` is `daemon_for` with the registry behind it (`Acquired`), `DaemonCreates`
the daemon's part, `Record` the sticky insertion; `DeleteSession`/`DaemonDeletes` and
`ToolCall`/`DaemonAnswers` are the other routes. `PauseTemplate`, `RemoveTemplate` and
`IdleReap` are what the registry and the daemon's reaper do meanwhile, at any moment;
*when* the registry evicts is `PagedRegistry`'s subject. Addresses are reused.
A paused daemon does not answer, an absent one refuses (`Fails`), a client may leave
(`Disconnect`).

### `ReplicaStart`

| model | code |
|-------|------|
| `network`, `box[c]` | the tools network and the containers in Docker |
| `healthy`, `warmed[c]` | who answers `/health`; warmup commands that ran |
| `phase[p]`, `held[p]` | position of a `start_tools_container` and its container |
| `handed`, `strays` | given to the registry; history: left behind in a known way |

One action per Docker or HTTP call, `FailsEarly`, `FailsLate`, `NoClient` and
`Dropped` for the error paths, `RemoveBox` for the best-effort removal, and
`ControllerRestart` for the clean-up of a new controller, which may fail for any set
`Kept` of containers. Container ids are not reused.

### `FileTools`

The edit functions are operators on sequences of letters: `Matches` is
`match_indices`, a scan from left to right (`ScanStep` at each place); `Sorted` the stable `sort_by_key`; `Splice` the loop that
copies up to a range, appends its new text and moves the `Cursor`; `ApplyEdits` the `edits[]` form, `ApplyLegacy` the older one. The requests on
one file are a state machine whose file content is the set of the requests whose text is in it
(`doc`); `Truncates` and `Fills` are the two halves of `fs::write`.

### `SandboxLifecycle`

| model | code |
|-------|------|
| `mem`, `disk` | `AppState.sandboxes`, the registry files |
| `opened`, `killed` | sessions the controller opened and deleted for the shim |
| `pc`, `sid`, `rec` | each actor's position, sandbox and cloned record |
| `doomed` | `to_remove` of `sweep_expired` |
| `raced`, `leaked` | history: two actors on one sandbox; sessions left in a known way |

`OpenSession`, `Mounted`, `InsertRecord`, `OpenFile`, `WriteFile` are a create;
`CloneRecord` starts set-timeout, pause, resume and refresh, which share the last three;
`RemoveRecord`, `ForgetFile`, `KillSession` are a delete; `SweepScan`, `SweepRemove`,
`SweepForget` the sweeper. `Crash` is stop, restart and reload at any step; a file open
for writing is then `Garbled`, which `load_registry` skips. Two writers of one file may leave
it garbled as well.

### `ShardGuards`

The locks of `AppState.sandboxes` and the runtime's threads, which the other models take for
granted. `place[t]` is where a task is, `shard[t]` the shard of its sandbox. `MirrorGet` is the `get` of
`files_post` and `fs_remove`, whose read guard lives over the S3 awaits; `WriteMap` an insert or
a removal, which blocks its thread while the shard is guarded; `MirrorEnds` the resumption, which
needs a free thread. DashMap and tokio are modelled from their use.

### `VolumeMirror`

| model | code |
|-------|------|
| `vol`, `backend` | the volume's entry in `AppState.volumes` and its backend |
| `scratch`, `bucket`, `session[b]` | the copies of every file: host directory, S3, sandbox |
| `mounted[b]` | whether the sandbox has the volume |
| `pc`, `at`, `data`, `cur`, `from` | a handler's position, remaining files, content, fetched file, sandbox |
| `clash`, `dirty`, `stale` | history: handlers of one file that met; files whose copies may differ |
| `inner[b]` | history: files the sandbox changed last by itself |

`VolumeFilePut`+`Put` are the volume's PUT, `FilesPost`+`ToolsWrite`+`MirrorWrite`+`Put`
a sandbox's write and its mirror, `RemoveFile`/`RemoveDir`+`ListPrefix`+`DeleteObject` the
deletes of both routes, `Mount`+`MountGet`+`MountCopy` the copy into a new sandbox, whose files are listed once, at
its start; `MountSkip` passes over a local file that is gone by its turn. `InsideWrite` is what a process, a bash
command or a client of the daemon's own write and edit routes (which the shim recommends for binary files, `:1810`)
does to a file of the mount: the sandbox's copy changes and no other. A run says by `Inside` which of these changes happen. Each
S3 or daemon call may fail or be lost, with or without effect. `Prefixed[d]`, the
files whose S3 key begins with a directory's name, may be more than `Under[d]`.
Calls on the shim's own file system are assumed to succeed: `MirrorWrite` has no step for a scratch write that fails, which
the code logs before it goes on to the bucket.

### `TemplateBuild`

| model | code |
|-------|------|
| `status[b]`, `name[b]`, `uploads[b]` | `TemplateBuild`, the staging directory |
| `dir[n]` | the template's directory: existence, files, those its Dockerfile copies |
| `step`, `of`, `needs`, `left`, `bad` | a start handler, later its task: position, build, files its COPYs name, those still to copy, HTTP error |
| `severed`, `broken` | history: a directory deleted under the handler that fills it; one with such a handler's Dockerfile |
| `answer`, `again`, `marked` | history: upstream's word on a build's last start; builds started again under a task; tasks that saw an exit marker |

`BuildStart`, `CopyFile`, `WriteDockerfile`, `SetBuilding` are the handler, which fails when an upload is missing or the
directory is deleted under it; `Posted`, `PostFails`, `ExitMarker`, `StreamEnds`, `NeedFinalize`, `Finalize` the task.
`NeedFinalize` reads the status all tasks of the build share under one lock, `Finalize` writes it under another.
`StartDropped` is a client that leaves while its handler waits for the status lock; the directory is then filled and no
task follows. Upstream answers anything, or not at all.

## 4. The runs

`Tn` is the number of handlers. In parentheses: why the bounds suffice.

| run | instance | shows |
|-----|----------|-------|
| `registry_concurrent` | T2, 3 templates, 3 containers, limits 1/1, faults, cancellation | `HotBound`, `ServesOneTemplate` (two handlers reach the overshoot exactly, a third template gives both evictors a victim, and a stale clone is put back over a newer runtime) |
| `registry_retained` | T2, 3 templates, 4 containers, 2 replicas, Hot 1, Warm 3, fair | while the Warm tier has room for every template: `NoLeak`, `RegisteredExist`, `LruMatchesRuntimes`, and `LoadSettles` (two templates are started and evict each other; a replica fails after another started, and the failed template is asked for again) |
| `registry_sequential` | T1, 3 templates and an unknown one, 5 containers, limits 1/1 | `FollowsPolicy` and `TiersMatchDocker` with drops, resumes and cold starts (five starts let each template leave and return) |
| `daemon`, sessions | T2, 1 session, 3 processes, cap 1, reaper, cgroup, both signals, cancellation | `CapBound`, `OneReaper`, `LiveHasDir` (four actors compete for one session; three processes exceed the bound were it wrong) |
| `daemon`, streams | T2, 3 bytes of stdout and 1 of stderr, capacity 2, chunks of 2, `max_bytes` 1, cancellation | `EofAfterExit`, `StreamsAreLossy`, `LosesOnlyOverflow` (stdout overflows, two readers share both streams, a read needs several calls) |
| `daemon_live`, sessions | T1, 1 session, 1 process, reaper, SIGINT, fair | `ReapEnds`, `ReapedProcessEnds`, `AbandonedEvicted`, `ShutdownReaps` |
| `daemon_live`, streams and stdin | T2, 2 writes of 2 bytes, no output, cancellation, fair | `WritesWhole`, `WriteEndsWithChild`, `SleeperSeesExit` (two writers compete for stdin, two sleepers for a notification, heirs of the child keep its pipes) |
| `controller`, routes | 2 clients, a template and a broken one, 2 sessions, 2 addresses and the fallback daemon, fair | `RoutedHome`, `OrphansExplained`, `AnsweredOrPaused` (two replicas of one template, or two lives of it at recycled addresses; two handlers meet on one session) |
| `controller`, replicas | 2 starts, 3 containers, 1 warmup command, 1 restart, fair | `StraysExplained`, `HandedReady`, `StartEnds` (two starts race for the network; a start after a failed one and after a restart) |
| `controller`, files | 3 requests on one file | `EditsKept` (two overlap while the third came before or comes after) |
| `controller`, edits | every text of 1 to 4 letters out of 2, every pair of oldTexts of 1 or 2 | `EditsIndependent` (adjacent, overlapping, nested, repeated and absent oldTexts all occur) |
| `sandboxes` | 2 handlers and the sweeper, 1 sandbox, 2 restarts, clock up to 2, fair sweeper | `MapMatchesFiles`, `StaysDeleted`, `DoomedAreExpired`, `LeaksExplained`, `ExpiredSwept` (sandboxes share nothing; three actors meet on one, one restart tears a file and another follows the recovery) |
| `sandboxes`, locks | 1 mirror, 2 writers, 2 shards, 2 worker threads, fair | `ReleasedOrWedged` (as many writers as threads: the shim can stand still, and a writer may wait for one shard while another is released) |
| `volumes_builds`, volumes | 2 handlers, 1 sandbox, a file in a directory and its namesake outside, 2 contents, local or S3 | `CopiesAgree`, `MountedView` (two contents tell an old copy from a new one; two handlers meet on a file or a mount) |
| `volumes_builds`, builds | 2 builds of one name, 1 upload, 2 starts | `StatusEarned`, `CopiesPresent`, `BuildingHasTask` (a build started twice and two builds of one directory; uploads that are missing, directories deleted under a handler) |

`daemon`, `daemon_live`, `controller`, `sandboxes` and `volumes_builds` check several modules in one run. `MCDaemon`, `MCController`,
`MCSandboxLifecycle` and `MCShim` extend them all; the initial state chooses which part moves and the others stay in their initial
state, so that a behaviour is one of a single module and every invariant holds of the parts that
do not move. They share no state, and a product would add nothing but states. In `MCDaemon` the part `stdin` is that of the
callers that write, and `streams` that of the others: they share the child and nothing else.

In the volumes part of `volumes_builds` the sandbox by itself removes the file of the directory and nothing else
(`RemovesX`): the shim never reads the sandbox's copy, so that one content is as good as another. Behaviours stop when
volume or sandbox is gone and no request of the sandbox is under way (`Claimed`), since nothing is claimed of what
would follow. Builds are named by the contents and starters by the handlers of the other part, which lets one symmetry set serve both.

Four runs end in a counterexample: there the code does something else than a text of the
repository says (PROJECT.json, `findings`).

| run | shows |
|-----|-------|
| `session_orphan` | a start that resolved its session before a DELETE leaves a process running in no session (`ProcessWithinSession`) |
| `streams_eof` | the wait task closes the buffers while bytes are still on their way: a read reports the end of a stream and later ones return more of it (`EofMeansAll`) |
| `mount_mirrors` | "writes inside the mount mirror back to the volume" (`README.md:121-122`): what a process in the sandbox writes does not (`MountMirrorsBack`) |
| `build_again` | "if no exit marker observed, finalize" (`main.rs:2380`): a task that did observe exit 1 finds the status Building, set by a second start, and makes it Ready (`OnlyUnmarkedFinalize`) |

### Further deviations the models have

Each can be reproduced by changing a configuration as said; no run is kept for them.

*Registry.*
* `RegisteredExist` in `registry_sequential` with two templates: resuming a Warm template while
  the Warm tier is full can drop the very template being resumed, whose removed containers are then
  registered as Hot. One client suffices.
* `TiersMatchDocker` in `registry_concurrent`: a handler that re-checked its template as Hot
  (`Reinsert`) writes Hot over the Warm mark of an evictor that paused it meanwhile.
* `NoLeak` with `Cancellable` or `Faulty`: a client that disconnects between two
  starts leaves containers no runtime lists; so does a failing removal. Also with a Warm tier that
  overflows: an evictor writes a cloned runtime back over a newer one.
* `CallsWake` (`ToolsForward`, as a property of `controller`): the head comment of
  `tools_forward.rs:2-3` has the daemon URL "resolved per request by acquiring the template"; the
  sticky route at `:262` does not acquire, so a call to a paused daemon hangs until somebody else's
  request resumes the template, and a busy session does not keep its template Hot.

*Sessions.*
* `ProcessWithinSession` with `Cancellable`: a DELETE whose client leaves during the
  grace period is not resumed by anyone.
* Two starts at once may exceed the cap (`CapBound` is what remains true), and a start is refused
  with 429 although nothing runs: the cap counts exited entries.
* Only the process tool calls `touch()`: the reaper evicts a session that bash or the
  file tools use, though the specification speaks of the last tool call. It also
  evicts one that was touched after its scan.
* SIGTERM ends the daemon without the drain that a comment in `main` announces: only
  SIGINT is awaited.
* A `wait` or `read` that looks just before the wait task has finished and registers
  just after sleeps for its whole timeout; `SleeperSeesExit` is what remains true.
* A read whose client leaves between its drains has consumed its bytes.
* A session created during the drain is missed by it; `kill_on_drop` ends its processes.

*Shim.*
* The comment at `main.rs:3171-3173` has a volume's GET "fall back to scratch only if S3 errors transiently"; a
  connection error is mapped to 404.
* `SiblingsSurvive` (as a property of `volumes_builds`): the design of the S3 backend
  (`openspec/changes/add-s3-volume-backend/design.md`) lists a directory with a trailing slash,
  the code without one, so that deleting `d` also deletes `dy` from the bucket and leaves it in scratch.
* The properties of `SandboxLifecycle` and `VolumeMirror` exclude what `raced`, `leaked`, `dirty` and
  `stale` record. Without the exclusions they fail: a set-timeout that cloned its record before a
  delete brings the sandbox back; a renewed sandbox is swept; swept sandboxes leave their session;
  two writers leave scratch and bucket with different contents; `fs_remove` does not remove the
  sandbox's own copy of a mirrored file; a failed mirror is only logged.
* `NeverWedged` (as an invariant of `sandboxes`): `files_post` keeps a read guard of the sandbox map while it
  awaits the bucket (`main.rs:1828`, and `fs_remove` at `:1692`). A delete, a timeout or the sweep of a sandbox in the
  same shard blocks its worker thread until then; when as many do so as there are threads, the mirror
  cannot be resumed and the shim stands still. On a machine with one core one request suffices.
* Volumes and their credentials are forgotten by a restart, although their files stay.
* A build stream that breaks off without a marker is reported `Ready` (`StatusEarned` says `accepted`, not `ok`).
* A directory deleted and made again while a start fills it ends with a Dockerfile whose COPYs find nothing (`broken`).

### Seen while reading, outside the models

* `api-rust` has no `/admin/build` route for the shim's builds to reach.
* A created template's id `t<nanos>` is not one `template_get`, `template_delete` or the tag routes resolve.
* `daemon_for` falls back to the fallback daemon on any error of `acquire`, a full Docker included.
* The clean-up of a starting controller removes the containers of others that share its port.
* `truncate_warmup_output` slices at byte 512 and `create_sandbox` adds an unchecked timeout to the clock:
  both can panic; the models have the effect (`Dropped`, `Disconnect`).
* `resolve_in` is documented to reject `..` and normalises it; `tools_relative_path` is documented to
  strip `..` and trims slashes; `s3_key` is documented to leave no duplicate slashes and trims the ends.
* `urlencoding_decode` leaves an escape at the very end of its input as it is (`i + 2 < len`).
* The comment that volumes are metadata only and not mounted is out of date.

## 5. Fairness

`registry_retained` assumes that a handler that can step does (`WF` of `Step`: Docker
calls return, the runtime polls ready tasks) and `SF` of `Recheck`: tokio's `Mutex`
grants in FIFO order, so a handler waiting for a name lock is not overtaken for
ever. Requests need not arrive. `LoadSettles` is conditional for a reason:
the Hot evictor's loop goes round for as long as others fill the tier it empties.

`daemon_live` assumes of the sessions that tasks of the runtime are polled (handlers, reaper, drain,
wait tasks), that timeouts elapse, and that a process that was sent SIGKILL exits. The reaper's scan is owed only once a
session was made: before that it changes nothing. It
does not assume that a process obeys SIGTERM, that any exits by itself, or that
clients send or stop sending requests.

Of streams and stdin it assumes that the wait task and callers that are awake, or were notified, are
polled (`WF`), that a write which is complete or has nobody at the other end of the
pipe returns (`WF`), and `SF` of `TakeStdin`: tokio's `Mutex` is FIFO. The child need
never read or exit, its heirs may keep the pipes for ever, and no timeout need end.

`controller` assumes of the routes that a running daemon answers and that a refused connection is
noticed (`Fairness`); not that clients disconnect, nor that the registry resumes what it paused, which
is why `AnsweredOrPaused` has a second half. Of a start it assumes that each Docker or HTTP call
returns or fails and that the probing ends at its deadline (`ReplicaFairness`). It assumes nothing
of the file requests.

`sandboxes` assumes that the sweeper's timer fires again and again and that its steps, which await
nothing, are taken (`WF` of `Sweep`). No request need arrive or end, and the clock may stop. Of the locks it
assumes that a ready task gets a thread if threads are free again and again (`SF`: the run queues are FIFO),
that S3 calls end, by their timeout if need be, and that a thread gets a lock that is free (`WF`). Writers may
starve: DashMap lets readers pass.

Deadlock is checked in the runs of the registry and in `session_orphan` and `streams_eof`. It is
off where the daemon may have ended or the child and its writers be done (`daemon`, `daemon_live`), where every id of an instance may be used up (`sandboxes`,
`controller`), and where a volume may be gone for good (`volumes_builds`, `mount_mirrors`, `build_again`).

## 6. Proofs

All theorems hold for every value of the constants that satisfies the modules'
assumptions (`RegistryAssumption`, `SessionAssumption`: finitely many handlers,
distinct special values; `StreamAssumption`: positive capacity and chunk size;
`ForwardAssumption`, `ReplicaAssumption`, `LifecycleAssumption`, `VolumeAssumption`, `BuildAssumption`: distinct
special values and natural numbers, nothing about finiteness).

`PagedRegistryProofs`
* `TypeCorrect`. The helpers' types (`Oldest`, `Touched`, `ForEach`) are lemmas; one step per action.
* `HotIsInLru`, which `HotBounded` needs: the evictor finds every Hot template. `HotInLru` is inductive with the type invariant: an insertion as Hot always
  touches, and the only removal from `lru` makes its template Cold in the same step.
* `HotBounded`. A handler past its room check is a promise of one more Hot
  template. The invariant counts Hot and promised templates together
  (`HotOrPromised`): they are at most `Room` plus one for every handler but
  the one that last found room. Only the room check can increase that set, by one, and
  it does so when the Hot tier has room; the other promises number at most one per
  other handler.

* `ContainersServeOneTemplate`. `ServesOneTemplate` needs to know of every copy: `ClaimInv` says that map entries, the
  runtime a handler brings up (`mine` for `want`) and the clone an evictor holds (`theirs` for `victim`) never claim a
  container for two templates, that a container nobody has started is claimed by none, and that a handler changes a name only
  when the copy for it is empty. A step leaves each claim where it was (`NothingNew`) or starts a new container. No
  hypothesis on handlers, limits, faults or cancellation.
* `NeverTwiceInOrder`. `LruNoDuplicates` is inductive: `touch_lru_locked` filters before it
  appends (`TouchedDistinct`), evictions only filter.
* `NothingColdIsListed`. With no duplicates, `retain` unlists what it makes Cold
  (`RemovedIsUnlisted`), so that everything listed has a runtime; the converse of it needs one of the hypotheses below.

The registry's other promises do not hold in every instance. `registry_retained` and
`registry_sequential` check them where they do, and two sets of theorems say exactly where that is.

*A Warm tier with room for every template* (`Roomy`), any number of handlers: nothing is ever dropped
(`RoomyNeverDrops`), so `DropWarm` and `Remove_` are dead.
* `RoomyOrderIsExact` and `RoomyRegisteredExist`, with failing Docker calls and dropped requests. `MapInv` is the
  exclusion the name lock gives (`OneHolderStep`): while a handler works on a template, its position says whether the
  template is Cold and what the handler holds of it, so `MarkWarm` writes back a clone that is not stale.
  `FreshApart` keeps the containers of a start away from every entry, which makes its rollback harmless; `HeldExist` is
  `RegisteredExist` extended to what handlers hold and are about to register.
* `RoomyNoLeak` needs in addition that Docker calls succeed and no request is dropped. A rollback of a template
  that stays Cold must have removed every container it counted as treated (`RollbackDone`). A failing removal and a
  dropped start both leave a container that nobody knows.

*One handler* (`Sequential`), any limits: evictions happen. All but the last item assume that it is never dropped.
* `SequentialFollowsPolicy`: the registry implements `LruTiers` under `tier[n] <- runtimes[n].tier`, `order <- lru`, whether or
  not Docker calls fail. `SeqInv` carries what the handler has established from the critical section that looked to the
  one that acts: the victim is the least recently used of a full tier, Warm is over its limit by
  the one template just demoted, and there is room before a start. `Hit`, `Admit`, `Demote` and `Drop` are
  `AcquireHot`, `Register`, `MarkWarm` and `DropWarm`; every other action stutters (`SeqStep`).
* `SequentialTiersMatchDocker`, with calls that succeed. `DockerInv`: no container serves two templates
  (`OwnersApart`), what is being removed is nobody's, what is registered or held has been created (`NoneAbsent`), how far the pause and unpause loops have come
  (`LoopProgress`), and that map and Docker agree except about the template being paused or resumed (`TiersAgree`). The
  handler's own template may be dropped under it (the finding of `RegisteredExist` in section 4's deviations): the
  invariant therefore says "runs or has been removed", as the property does.
* `SequentialNoLeak`, by the same invariant and `Accounted`: each container is in an entry, held, or next in the removal loop.
* `SequentialOrderIsExact`, with dropped requests and failing calls: what a lone handler demotes has a runtime
  (`DemotesWhatIsThere`), so no demotion puts back what an eviction took out of map and order.

TLC finds a counterexample as soon as a hypothesis is dropped: two handlers, a dropped request or a failing pause for
`TiersMatchDocker`; two handlers or a dropped request for `FollowsPolicy`; a Warm tier that is too small for
`RegisteredExist` and, with two handlers, for `LruMatchesRuntimes` and `NoLeak`.

`SessionProcessesProofs`
* `TypeCorrect`, with what each position of an actor implies about its locals.
* `SessionsReapedOnce`. Inductive with `Exclusive`: an actor inside a reap of a
  session is alone with it and the session is out of the map, so nobody can take it
  again; ids are never reused.
* `LiveSessionHasDir`. A session in the map has its directory and nobody is
  about to remove it (`DrainerIdle` and the exclusiveness above).
* `CapBounded`. `SlotInv`: tracked processes and starts in flight of a
  session together are at most the cap plus the number of handlers but one.

`ProcessStreamsProofs`
* `TypeCorrect`.
* `EofFollowsExit`. Inductive with `ClosedAfterExit`: past its first step the wait task has
  recorded the exit, and only then are buffers closed.
* `WritesStayWhole`. `StdinInv`: who writes holds the mutex, write numbers
  are distinct, a waiting write has put nothing into stdin, and the bytes of the one
  that writes are a suffix of it.
* `RingLosesOnlyOverflow` and `StreamsImplementLossy`. `Numbered`: buffer, chunk and
  pipe, joined, are the newest bytes in order and without a hole. Every step
  appends to this sequence (`EmitEffect`), leaves it (`DrainReadEffect`) or drops a
  prefix of it (`PushEffect`, `DrainEffect`); `PrefixGone` says what a dropped prefix does
  to the numbering. Under the mapping `next <- NextByte`, `lossy <- truncated > 0` these
  are the steps `Write`, stutter, `Lose` and `Read` of `LossyStreams`.

`ControllerProofs`, about `ToolsForward` and `ReplicaStart`
* `CallsGoHome` and `OnlyAbandonedOrphans`, with the types. The invariant adds: sessions are held by one daemon,
  only drawn ids are held, have entries or are worked on; a handler's position determines which of its locals
  are set, and a created session is in one handler's hands until it is recorded. An
  address may change its owner under a request; the session is then gone with the old container, since a
  removal clears it, and its id is never drawn again.
* `NoUnexplainedStray` and `OnlyReadyHandedOver`. The invariant says per phase what is true of the held
  container (created, running, healthy, warmed) and that no two starts hold the same one, so that no start's
  removal takes another's container or one already handed over.

`FileToolsProofs`
* `AnsweredEditsKept`. `EditsKept` says nothing while a request is in progress; `KeptInv` does: an intact file holds every
  answered edit that nothing excuses, so does the copy each request in progress will write back, and two requests in
  progress are both excused. The write of a request that was alone puts back what it read and its own edit.
* `EditsAreIndependent`, for every text and all oldTexts, provided the marks `"x"` and `"y"` by which the property finds
  the new texts are not letters of the texts. The loops are recursive functions, and what they compute is shown by
  induction: `SetInduction` says that a set with 0 and every successor holds all naturals, as a least natural outside it
  would have a predecessor inside, and each induction instantiates it with a set. `ScanInv` is the invariant of
  `match_indices`: the matches found are disjoint, in order, and every match up to the current place begins inside one of
  them (`MatchesProperties`). From there: two ranges that begin at one place overlap, so that either order is refused
  or sorts the same way (`EitherOrder`); the spliced text is five pieces, in which a mark that only one new text has
  stands once (`SplicedOnce`); a kept piece holds no match, because one would be a match of the text outside every
  match found (`KeptPieces`), and no match reaches across a mark (`NoMatchAcross`), which gives by induction over the
  ranges that `replace_all` leaves none.

`SandboxLifecycleProofs`
* `FilesFollowMap`, `DeletedForGood`, `SweepsOnlyExpired`, `EveryLeakExplained`. The invariant describes a sandbox
  that was never raced for by the one actor at work on it (`Calm`): what map and file hold at each of its positions,
  and that they agree when there is none. A step of another actor at the same sandbox makes it raced in that
  very step, and a restart sends every sandbox to the case without an actor.
* `BlockedWithinThreads` and `WedgedForGood`, about `ShardGuards`. A writer blocks only on a thread it found free, so the
  blocked ones are at most the threads; when they are all of them, on guarded shards, arrivals and S3's answers are the
  only steps left, and neither drops a guard. With fewer writers than threads that cannot happen (`FewWritersNeverWedge`).

`TemplateBuildProofs`
* `BuildingNeverStuck`. A status becomes Building only in the step that makes its starter a task, and the last task to end
  of a build takes the status away from Building: `NeedFinalize` looks at it, and only a new start can set it again.
* `DockerfilesCopyPresent`. `FilledSoFar`: what a handler that is not severed has copied so far of the files it needs is in its
  directory. Files only come while the directory lives, so other starts of the name do no harm; a delete
  severs the handlers that fill it and takes the Dockerfile along.
* `StatusIsEarned`. For a build that was not started again under a task of its own there is one task at most (`AloneOrAgain`), and status and
  `answer` follow its position (`Following`): Building while nothing was said, what the last marker said after one, and
  `bad` exactly when upstream refused. Without this exclusion two tasks write one status, and the
  theorem would be false (`build_again`).

`VolumeMirrorProofs`
* `UndisturbedCopiesAgree` and `MountShowsVolume`, with the types (`TypeCorrect`). The invariant has a part per question: `Placed`, what a
  handler's position says of its files and its sandbox; `Apart`, that two handlers of one file both count it as
  disturbed; `Lone`, what a handler that is not disturbed has already done to its file (a put or mirror has written
  scratch and, unless the sandbox changed it since by itself, the sandbox's copy, a delete has emptied scratch, a mount carries what the store holds); and the two
  properties strengthened to the files that somebody works on harmlessly, `Twins` (nobody is between scratch and
  bucket) and `View` (nobody is between a sandbox and the store, and a mount that has copied the file counts as
  having it). Without `Lone` the last step of an undisturbed change would not bring the copies together. The sandbox's own changes
  (`InsideWrite`, any content, at any moment) put the file into `inner`, and `ToolsWrite` takes it out again.

Model-checked only: everything under fairness (`LoadSettles`, the liveness properties of `daemon_live`, `AnsweredOrPaused`, `StartEnds`, `ExpiredSwept`, `ReleasedOrWedged`), which is beyond the
prover.

## 7. Not modelled

* *Process bridge* of the shim: one bash call per process start, wrapped into a Connect stream; it keeps no state, and
  its kill and input routes are answers without effect.
* *Snapshots, tags, template CRUD* except delete: single operations on a map or a file that meet nothing else.
* *Connect framing, base64, multipart, url coding*: byte conversions whose interest is in the bytes, one call each;
  a model would be the code again. Unit tests reach them.
* *Health, stats, metrics, listing routes*: read-only.
* *Isolation* (seccomp, chroot, rlimits) and container options: kernel and Docker configuration.
* *Restart of the shim during a build*: it forgets every build and its task.
* *template-builder, ops, bench, scripts*: sequences of commands without shared state.
* Bytes, wording and layout of answers and logs; the clock, except in `SandboxLifecycle`; reuse of pids and ids.

## 8. Running

    tlc -workers 2 -config registry_concurrent.cfg MCPagedRegistry     (also registry_retained, registry_sequential)
    tlc -workers 2 -config daemon.cfg MCDaemon                         (also daemon_live, session_orphan, streams_eof)
    tlc -workers 2 -config controller.cfg MCController
    tlc -workers 2 -config sandboxes.cfg MCSandboxLifecycle
    tlc -workers 2 -config volumes_builds.cfg MCShim                   (also mount_mirrors, build_again)
    tlapm PagedRegistryProofs.tla                                      (and every other *Proofs.tla)
