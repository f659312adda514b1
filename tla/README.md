# CrumbVMS in TLA+

A verification development for the services of CrumbVMS (Rust), above all its recorder
(`services/recorder`): TLA+ modules for their concurrent and failure-prone parts, TLC
configurations that check them on small instances, and TLAPS proofs of the results that
hold for every value of the constants.

Contents: [the system](#1-the-system) · [modules](#2-modules) · [runs](#3-runs) ·
[disagreements](#4-disagreements) · [proofs](#5-proofs) · [not modelled](#6-not-modelled) ·
[plan](#7-plan)

## 1. The system

CrumbVMS records IP cameras. Two services share a Postgres database and the media
disks: the **recorder** writes, moves and deletes footage and owns the `segments`
index; the **API** serves it and edits configuration. go2rtc fans camera streams out;
an optional Python worker reads licence plates; desktop, Android and iOS clients speak
HTTP to the API.

| component | state | operations | talks to |
|---|---|---|---|
| recording task (`recording.rs`, one per camera) | ffmpeg child, `prev_segment`, `MotionBuffer`, `MotionUnion`, pending signals, cache latch, back-off | start a run, list a segment, finish a segment, reconnect, fall back to storage | drains the motion channel, reads the health watch, writes files and rows |
| motion task (`motion.rs`, `frigate_motion.rs`, `ha_motion.rs`, `source_health.rs`, one per camera) | per-source event state, per-source health | emit START/STOP, supervise and restart sources, aggregate health | `MotionTx` into the channel, health watch |
| signal transport (`main.rs`: `MotionTx`, `forward_motion_health`) | bounded channel, loss debt | `try_send`, forward health | both tasks above |
| persist path (`recording.rs`) | cache files, storage files, rows, retry queue | copy, index, queue, retry, sweep the cache | storage, database |
| reconciler (`reconcile.rs`) | storage markers, walk state, breaker | adopt orphans, prune dangling rows, quarantine | storage, database |
| archiver and retention (`archive.rs`) | in-use guard, cron tracker, sweep cursors | move to archive, age and size eviction, storage migration | storage, database |
| supervisor (`main.rs`) | one worker per camera, fingerprints | spawn, replace, reap, stop | all of the above |
| stream registry (`stream_registry.rs`), embedded go2rtc | registered streams, child | ensure a stream, restart | go2rtc |
| API (`services/api`) | sessions, configuration, exports, detections, notifications | request handlers and periodic tasks | database, go2rtc, Home Assistant, MQTT |

Behaviours that are hard to get right and to test:

- the motion task and the recording task interleave freely; the recording task reads
  health once per segment, then drains the channel, then decides, and a flip or an edge
  may land between any two of those steps;
- the channel is bounded and sends never block, so an edge can be lost;
- the detector may be unhealthy for a while: footage is then kept unconditionally
  ("fail open") and the buffer is frozen while the union keeps folding edges;
- ffmpeg dies or stalls at any moment and the buffer outlives the run;
- the cache directory may be missing or full on one run and fine on the next;
- files and rows are changed in several steps with no transaction around them, next to
  other tasks that sweep, move and delete the same files, and across process crashes.

What makes each part correct:

- **gate**: no segment in the window of an event is discarded; buffer and union agree
  across every freeze and thaw; no listed segment is lost track of; a lost START fails
  open;
- **persist path**: a kept segment is in storage or in somebody's hands; footage in
  storage is never overwritten; a row shows one whole segment for ever and is durable
  before it is committed; every kept segment is indexed in the end;
- **storage guard**: no row of footage that exists is pruned while the mount is steady,
  the loss is bounded when it is not, an unmounted disk cannot present a marker, and
  rows of files that are gone do go;
- **walk**: a pass loses no footage whatever the recorder, the archiver and retention do between
  two of its steps; what is parked can be seen for a whole window; once let alone, the index agrees
  with the files;
- **moves**: no row ever points at footage that a move has removed; a cancel stops the
  drain; its status tells the truth; it ends;
- **archive schedule**: every occurrence starts one run, and what waited then is tried, with no
  other occurrence, in the end;
- **motion sources**: a START is followed by a STOP even if the source falls silent, and a
  dead source opens the gate in bounded time;
- **motion alerts**: an outage is told of if and only if it lasts;
- **retention**: nothing is deleted that need not be, the recording disk gets back above its
  floor, nothing stays past the hard ceiling;
- **supervisor**: every running task belongs to a worker that the supervisor knows, every
  enabled camera gets a live worker of its latest configuration, a shutdown ends;
- **stream registry**: a stream that a camera needs exists and ends up with the camera's
  source, a deleted camera's does not;
- **exports**: a job says what is so across restarts, a cancel is honoured, sweeps take
  nothing from work under way, every job ends;
- **health alerts**: an outage that lasts reaches the operator or a gate that he has set;
- **recording policies**: an edit of one camera changes that camera and no other, cameras with the
  same settings share a policy, templates are their operators', no camera is without a policy;
- **storage locations**: no storage's folder lies in another's, a row leads to its footage;
- **detections**: an event's end only gets better and comes in the end, an ignored plate is not
  written, a watchlisted one is alerted once, a start in front of the engine's cursor is processed.

## 2. Modules

| module | what it is |
|---|---|
| `MotionBuffer`, `MotionUnion` | the keep/discard buffer and the union of the sources, as operators on records: one operator per function of `recording.rs`, no variables |
| `MotionGate` | one camera worker: sources, channel, forwarder, ffmpeg runs and `finish_completed_segment`; `EXTENDS MotionUnion`, which extends `MotionBuffer` |
| `SegmentVerdict` | abstract: a segment waits, then gets exactly one verdict. `MotionGate` implements it (`VerdictSpec`) |
| `PersistPath` | from the keep verdict to file and row, next to retries, sweeps, respawns, crashes, orphan adoption and the archiver |
| `Footage` | abstract: pending, kept, stored, and a kept segment is stored in the end. `PersistPath` implements it, liveness included (`FootageSpec`, part of `KeptEndsIndexed`) |
| `StorageGuard` | storage markers and the dangling-row pass, next to recording, archiving, retention and mounts |
| `StorageMoves` | archive moves, expiry and the "Change storage" drain with its job |
| `OrphanWalk` | what a reconcile pass does to the files: size repair, the floor, the walk over the storages, adoption, quarantine and its purge |
| `ArchiveSchedule` | when the archiver runs: the tick over all cameras, their cron trackers, the shared budget and the backlog |
| `SourceTrackers` | the event state of the three kinds of motion source, as operators on records |
| `MotionSources` | a camera's motion task: a supervised session per source, their health, and the aggregator that decides whether the camera is gated; `EXTENDS SourceTrackers` |
| `UnhealthyAlerts` | the operator's alert about one source: generations, timer tasks, restarts |
| `StreamRegistry` | the API's reconcile and the recorder's `ensure_once` over go2rtc's stream table, next to requests that edit cameras |
| `Sweeps` | every retention and eviction pass of the scheduler's tick over one policy |
| `Supervisor` | `RecorderSupervisor`: camera workers, service tasks, shutdown |
| `ExportJobs` | the API's export jobs: map, rows, cancel tokens, workers, sweeps, restarts |
| `HealthAlerts` | the API's camera-offline watchdog, the event table and the notification engine |
| `DetectionIngest` | what Frigate, the plate worker and the recorder report on its way into events, plate reads and alerts: provider, backfill, channel, ingester, janitor, the engine's cursor |
| `RecordingPolicies` | the console's requests on recording policies, groups and assignments, statement by statement, with the advisory lock and the recorder's reaper |
| `StorageLocations` | the console's requests on storage rows, next to a worker that writes under the folder it has resolved |
| `MCxxx` | the instances TLC runs: constants, and where parts that share no state are checked in one run, the choice between them |
| `MotionGate_proofs`, `PersistPath_proofs`, `StorageGuard_proofs`, `Storage_proofs`, `Upkeep_proofs`, `Api_proofs`, `MotionSources_proofs`, `Configuration_proofs` | theorems and their proofs |

`MCMotionTask`, `MCStorage`, `MCUpkeep`, `MCApi` and `MCConfig` compose modules that share no variable: a behaviour
is one of the part that `half` or `part` names, the others keep their initial state, and each
liveness property is asked of its own part. It makes one run of several small ones without
the product of their states.

Every action names its function in `PROJECT.json`. A definition introduced by a comment
"Mutant:" is a plausible bug in the definition after it; no specification uses it.

### 2.1 The motion gate

State: `buf` (`MotionBuffer`: state, `until`, `ring` = `pending`), `union` (`open`, the
stashed replay), `prev` (`prev_segment`), `caching`, `cacheOff` (`cache_disabled`), `chan`
and `lost` (the bounded channel and each handle's debt), `det` and `rec` (health as
published and as last forwarded). `kept`, `discarded`, `events` and `listed` are history.

`finish_completed_segment` is cut where another task can run between two of its reads:
`Finish` takes `prev_segment` and reads health once, `DrainChannel` replays a stashed edge
and empties the channel, `FoldFrozen`/`FoldDriven` take one signal each, and one of the
three `Push` actions takes the verdict on the segment. While a drained batch is being
worked off the recording task reads nothing the other tasks write, so their steps are not
interleaved there (`Visible`): every such interleaving is equal to one with the step before
or after. The forwarder and a finish call complete within a tick (`Tick`'s guard); both take
milliseconds where a tick stands for seconds. The ring is a set, ordered by `start`.
`ListLag` is external: how long after its start ffmpeg lists a segment. The union's keys are
pairs `<<source, start>>`, as in the code. One behaviour is one worker: a respawn is a new
`Init`. Left out: the debt a dropped handle returns to its camera, and the files behind a
verdict (they are `PersistPath`'s).

### 2.2 The persist path

State: `cache`, `live` and `archive` (files), `row` (the table), `ring`, `queue` (the
process-wide retry queue), `retries`/`fresh`/`drop` (the lists of the finish call in
progress), `bg` (a copy that an aborted task left in the blocking pool). A file name is a
start time and a collision suffix. The gate's verdict is any choice the buffer could make
(`Judge`). `persist_cached_segment` is four actions (`BeginCopy`, `FinishCopy` or `FailCopy`,
`Index`, `DeleteCached`) with an abort, a crash or a power loss between any two; the orphan
pass and the archiver run at any point. Lists are sets: the code walks them oldest first,
which no property depends on. `InFlight` stands for `mtime_in_flight`: a file being written
now has a young mtime. The archive move is one step here; `StorageMoves` takes it apart.
`Faults` selects what may go wrong, so that a run asks one question.

### 2.3 The storage guard

State: `Root` leads to the disk or to the bare mountpoint directory below it; `marker` and
files exist in each. A pass is cut at its awaits: `Look` and `EnsureMarker` (the seed step),
`ReadPage`, `LoadGuard`, `Visit`, `Refetch`, `Restat`, `DeleteRow`, `EndPass`; recording,
the marker write after it, a three-step archive move, retention, lost files, a change of
the mount and a restart happen between any two. One page covers the table. Size repair and the
removal of sub-floor files are in `OrphanWalk`; rows of unknown storages are left out.

### 2.4 Archive moves and the drain

State: `files` per directory and segment (`none`, `partial`, `volatile`, `durable`), `place`
and `stage` (the row), `listed`/`aseg`/`astep` (the scheduler: a stale listing, and how far
the one segment it works on is), `status` (the job's row), `dstep` and the batch. A storage
is a row and leads to a directory (`dir`); two rows may lead to the same one, which is how
the seed sets up `live` and `archive`. The drain's copies run concurrently and without the
guard (`CopyBegin`, `CopyDone`, `CopyFails`); `Flip` needs the guard (`GuardFree`), which the
scheduler holds over one move at a time here, over a batch of them in the code, so that the
code's behaviours are among the model's. `remove_file` may fail (`Remove`). Retention does
not take the guard, as in `live_retention_sweep`. `doomed` holds the segments retention
chose or that had no file at first: nobody promises footage for them.
`destination_confirmed` is a choice; new recordings and orphan adoption are left out.

### 2.5 Motion sources and their alerts

State of `MotionSources`: per source its `phase` (where its task is), `tracker`, `watch` (the
published health) and `heard` (events START has opened and STOP has not closed); the aggregator's
`seenUp`, `downSince` and its verdict `health`. A session connects, reports, degrades, falls silent
or loses its connection; its task may panic, and the supervision loop notices, forces the watch down
and respawns it. Janitors and `Aggregate` run before the clock moves (`served`, `late`; `Lag` is how
long a telemetry write may hold the aggregator). Pixels, MQTT and HTTP are environment:
`PixelVerdict`, `Message` and `Poll` choose what a session is told.

`UnhealthyAlerts` has one source with its generation counter; each armed timer is an
`episode` of its own, which nothing cancels, and which reads generation and watch when it wakes.

### 2.6 Stream registry

State: `cameras` (rows), `streams` (go2rtc's table, lost when it restarts), `pass` (a reconcile
pass under the API's lock), `request` (edits, deletes and reconnects under way), `ensure`
(`ensure_once`). Every HTTP call and every read is a step. `Admits` lets two requests on the
same camera not overlap. One stream stands for a camera's main and sub streams.

### 2.7 Sweeps

State: `stage` and `disk` (rows), `files`, `pinned` (bookmarks), `aged`/`expired` (ages as
positions in the order of recording), `away` (disks that cannot be confirmed), and `job`: the
pass under way with its list, its count of used bytes and its deficit, as the code keeps them
while the world goes on. Segments have size one. An archive that is away counts as having its
own free space; the case of an unresolved archive storage is left out.

### 2.8 Archive schedule

State: `clock` (may step back) with `latest`, `setting` (a camera's schedule; "none" also stands
for archiving switched off), `tracker` (`cron_trackers`: schedule, `last_checked`,
`backlog_pending`), `round` (the tick: the rows it has read, its `now`, the camera it is at, the
budget left), `waiting` (live footage past its retention). A schedule is the set of its instants,
two to a minute, in UTC. A run is one step: what it moves is numbered, oldest first, each move
costs one of the budget, and some always fail (`Unmovable`, fewer than a list or a tick takes).
History: `owed`, instants that came while the schedule was set and its tracker had been checked;
`settled`, those a check has ruled on; `promised`, footage that waited when the schedule fired and
has not been tried since. An edit ends what the old schedule owed; an invalid schedule, a restart
or a destination that is not confirmed ends what was promised, as it does in the code.

### 2.9 The walk over the files

State: `tree` (files with size, openness and age), `index` (the row of this start time), `parked`
(`_quarantine`), `closing` and `transfer` (what the recorder and the archiver have in hand), and
where the pass is: `page` (the row as it was read, and whether its id is still there), `roots`,
`offers`, `cand`, `weight`. The files are those of one camera and one start time: in either
storage the one of that name and one with a `-rN` suffix. Start times do not interact but in the
budget of the walk, and the unique key (camera, stream, start) makes `index` a set of at most one.
A pass is cut at its awaits: the rows (`ReadRows`, then one of `PruneRow`, `RemoveStub` with
`DropStubRow`, `CheckSize`), the listing of a directory, its comparison with the rows of the
range, and per file mtime, camera and size, insert, look-up of the path, rename. The prune of a
missing file is one step (`StorageGuard` takes it apart), a listing is one, retention's
file-then-row too.

Sizes are 0 (below `SUB_FLOOR_BYTES`) to `MaxSize`. An age is what the two clocks' difference says:
`young` (in flight), `settled`, `old` (older than the retention of `_quarantine`), `future` (after a
clock step, beyond what is taken for slop). Four assumptions are stated as guards: a file ffmpeg
has open is written to at least every two segment lengths, and a suffixed file is indexed, or
flipped by its move, within that time after it was written (`UnderWay`); `Collide` does not reuse a
suffix, and `Copy` does not overwrite what an earlier move left at its destination
(`copy_with_crc32` creates, and so truncates), in the instant in which the pass holds the earlier
file of that name: it is a few queries from `Gate` to the rename, and a move copies and syncs a
whole segment. A crash may leave a segment, or the copy of a move, cut short (`Writes`). Left out: several
storage rows of one path, the stage an orphan is adopted with, entries outside the recorder's
layout, pacing.

### 2.10 Supervisor

State: `rows` and `backend` (what a fingerprint is of), `workers` (the map), `recording` and
`motion` (tasks that run), `hung` (workers that ignore their cancellation), `sync` (a poll with
what it has read), `services`, `phase`. A worker's two tasks may panic one at a time. An
aborted task counts as ended.

### 2.11 Export jobs

State: `job` (the map clients poll), `rows` (the statuses a job's row may hold: upserts are
spawned tasks, so any of those issued since the last certain one may have been the last to
land), `token`, `worker` (where `run_export_job` or `run_batch_export_job` is), `marks`
(requests that have fired the token and not yet marked the entry), `dir`, `sweep`, and `stuck`:
threads of the runtime that wait for a shard of the map. `MapIsFree` is the shard lock, which
`sweep_export_budget` holds while it awaits a directory's size; all jobs are taken to be in one
shard. A single and a batch export differ in `FindsNothing` only. Requests that are counted
while another one is being counted are left out.

### 2.12 Health alerts

State: `latch` (`was_offline`), `grace`, `insert` (the row being written), `events` with the
stamps the database gives, `flying` (rows of other writers, stamped and not yet committed),
`cursor`, `batch`, the gates (`rule`, `muted`, `quiet`, `cooling`). `dropped` is history: rows
whose outage a gate, a failed delivery or the cursor's own way of counting has kept from the
operator. A threshold is longer than the watchdog's period (`GoesStale`).

### 2.13 Detections

State: what happens (`kind`, `seen`, and in `thing` what has been said of each), the provider
(`session`, `pending`; `stray` and `late` for stopped ones that are still in their backfill, where
they do not look at their stop signal), `channel`, `work` (the message the ingester is at, and which
of its database calls comes next), the two tables, `cursor_ts`, the switches in the admin's hands.
`barred` is what the last look at the ignore list found and has been there since. History: `alarms`,
`unlatched`, `unfired`, `heeded`.

A thing's number is its start time and its key; texts are numbered in the order in which reads
improve, and the watchlist matches exactly. MQTT and the channel are one queue: a message is
appended, or it is lost (filtered, or the connection is down; the session is clean). LPR settings
and the camera's engine are one switch `lpr`. `JanitorCloses` and `Polls` are one step each: the
first is one statement, the second reads once. `GrowsStale` is the janitor's thirty minutes, which
outlast whatever is under way, but not an object: it may still be seen, and report later. An event's
`text` is what its `raw` carries.

### 2.14 Recording policies

State: `policies`, `policyOf` (`cameras.policy_id`), `groupPolicy`, `groupOf`, and `req`: for each
session the handler under way, with what it has read. A step is one SQL statement, except that
`mint_deviation_name` and the insert are one (the name is checked again by the unique index), and
that a transaction of `update_group` or `set_group_members` is what it reads and what it commits. A
handler may be dropped between two of its statements (`Drop`: the caller leaves, the router's limit
or a wait for the lock or a connection runs out, the service restarts); a statement that was sent is
taken to have run before the drop or not at all. The behaviour columns are `Settings`; which of them
do not go together (`validate_update_policy`) is left out. `Overlapping` names the kinds of request
that may be under way beside each other: `update_camera_policy` serializes camera edits only, and
section 4 says what the others do to them. `PolicyIds` bounds the policies (`Room`).

### 2.15 Storage locations

State: `root` (`storages.path`), `live` (the policy's storage), `worker` (storage and folder as
resolved at the last connect), `pending` and `indexed` footage with the folder its bytes are in,
`request`. `Nested` is containment of canonical paths. `Careful` is what an operator is asked to do
and no code checks: to repoint or delete nothing that a worker has in hand. The fall-back to the
default storage's name, the archive role and sizes are left out.

## 3. Runs

| run | instance | what it shows |
|---|---|---|
| `reconnect` | one source, two ffmpeg runs, a cache that may fail or fill | no motion is discarded; the ring survives a reconnect and flips between cache and storage; `SegmentVerdict` is implemented |
| `lossy` | two sources, three events, a channel of one | buffer and union agree; no listed segment is lost track of; what was heard stays protected and a lost START fails open (`ReportedMotionIsKept`) |
| `persist` | three circumstances: every fault but overwritten cache names; a clock stepped back onto names the cache still holds; transient failures with fairness | kept footage is safe, rows show whole segments and are durable, stored footage and its rows are never taken over, `Footage` is implemented, everything kept is indexed in the end |
| `prune` | three segments, one change of the mount, one restart, floor 1, fairness | no wrong prune on a steady mount, a bounded one otherwise, convergence |
| `moves` | two segments (one dangling), one batch of two, two requests, one restart, the three layouts below, fairness; and two cameras, two schedules, six instants, one edit, one restart, failure or clock step; and the files of one start time with three disturbances | every row has its footage; cancel, status and termination of the drain; occurrences fire once, backlogs end; reconcile loses nothing, and the index comes to agree with the files |
| `drained` | one segment, target and archive in one directory | expected violation, section 4 |
| `sources` | Frigate alone, or pixels with Home Assistant; two objects, one sensor, one fault, six ticks; and one source's alerts over nine ticks, immediate or after two | every event ends; a dead source opens the gate in time; the gate closes again when everything answers; an outage is told of if and only if it lasts |
| `blind` | pixels, one fault | expected violation, section 4 |
| `upkeep` | two cameras and sources, two requests, one restart or failure; three segments, two disks, three policies; two cameras, two configurations, two edits, two faults | no zombie streams, every stream right in the end; evictions are needed, floor and ceiling hold; tasks are owned, workers converge, a shutdown ends |
| `api` | two jobs of one clip, a budget of one directory, two failures, restarts or cancels; two outages, one foreign row, two changes or restarts; a Frigate object, a worker's read or two motion events, two texts, a channel of one, one failed call, change or restart | jobs are true, keep their word and end; an outage that lasts is announced; ends only improve and come, ignored texts stay out, alerts match reads, the cursor passes no start |
| `config` | two sessions, two cameras, one group, two policies besides Default, edits overlap and other requests run alone; and one session, three storages, four folders of which two are nested, `Careful` | every row refers to rows that exist; an edit holds, concerns its own camera and mints no twin; templates change by their own requests only; rows lead to footage |
| `stalled` | two jobs, a runtime of two threads, no failure | expected violation, section 4 |

**Bounds.** Names of segments, sources and times do not matter, so the bounds count actors and
steps. Two sources are what a union needs to differ from a single flag; three events what a loss,
its debt and its resynchronisation need; eight ticks hold a pre-roll, an event, a post-roll and a
segment after it. One health flip gives a freeze or a thaw, two runs one reconnect, with a flip of
the directory in either direction. Two segments meet in the queue, the third is the one that
collides or comes later. Three rows and a floor of one put both of the breaker's conditions on
either side of their thresholds. In `moves` the second row is dangling, so that a batch has a moved
and a skipped row and the next batch only the skipped one. Of the schedule's two cameras each has
more footage than a list, and both together more than a tick takes; six instants hold a slow tick
and a tick within the minute of an occurrence. Three disturbances let a collision, an archive move
and a crash, or a deletion and a late row, meet in one pass; two sizes above nothing are a drift in
either direction. In `sources` six ticks are a time to live, a grace and a return; two flips up and
down give the alert a retired, a live and a startup episode at once. In `upkeep` one camera has a
stream to register and the other is yet to be added; disks of two with a floor of one are short with
two segments, and a third is recorded during a sweep; `Batch` is above the number of segments
(section 4 says what happens otherwise); two numbers are what an old and a new worker of a camera
need. In `api` a second job makes the first one the oldest; three threads are one more than there
are jobs to block them; the second outage meets the latch, the cooldown and the cursor of the first;
one text on the watchlist and one off it are a refinement onto it, or one of them ignored; two
events and a batch of one put an event in front of the cursor and one behind it. In `config` two
sessions and two cameras are an edit and whoever gets in its way, two settings of one knob are two
that meet and one that differs; three storages are a nested pair and a third. The theorems of
section 5 need none of these bounds.

The three layouts of `moves`: live, archive and target are three directories, drained from
live or from archive; or the target is another name of the live directory.

**Deadlock** is not checked where a bound stops the model (the clock, the number of segments,
requests, edits or jobs); in `prune` it is, passes go on for ever.

**Fairness.** `PersistPath`: `PersistStep`, `Spawn`, `Adopt` weak (a finish call runs to its end,
the supervisor respawns dead workers, the orphan pass is periodic); a queued retry and the success
of its copy strong (the queue's back-off is capped at five minutes and a boundary comes every
segment; a disk that fails for ever is not promised anything). `StorageGuard`: the steps of a pass
weak (it is driven by a timer), the delete of a row strong, since the database may refuse it
sometimes but not always. `StorageMoves`: the worker and the move in progress weak; `Flip` strong,
because tokio's mutex is a fair queue and the scheduler releases it again and again.
`MotionSources`: the loops of the motion task weak, per source; that a back end answers is an
assumption of the property, not a fairness. `StreamRegistry`: the recorder's loop weak; the API's
only where the property assumes that the API runs (`ApiRuns`), its requests strongly, since they
wait for a fair lock. `Sweeps`: the tick and the passing of time weak. `ArchiveSchedule`: the steps
of a tick weak (a timer, not the clock, drives it). `OrphanWalk`: a pass and the finish call weak
(timer and boundary), the move under way weak, the passing of two segment lengths weak; nothing else
need happen. `Supervisor`: the poll and the start of the container weak; `StopAll` strong, since its
branch of the `select!` competes with the poll's and wins in the end. `ExportJobs`: the sweeper
weak, the worker of a job strong, since the sweep takes the map's lock again and again and releases
it; ffmpeg has none. `HealthAlerts`: watchdog, engine, threshold and grace weak. `DetectionIngest`:
provider, ingester, janitor, engine and the passing of time weak; nobody has to report anything.
`MCApi` assumes of these two parts only that one of their loops, or time, goes on. The operator,
faults, mounts and ffmpeg have no fairness at all.

## 4. Disagreements

Three runs expect a violation; the counterexample is what the code does. The entries under
"findings" quote the text they contradict.

- `drained`: with the target's directory that of the archive, the drain removes as a duplicate
  the file the archiver has just moved the segment to.
- `blind`: a pixel session whose sub-stream ends stays published as healthy through its back-off,
  so that the camera is gated with no detector at work.
- `stalled`: the export budget sweep awaits inside its iteration over the job map; writers of the
  map block the threads of the runtime that would have to wake it, for good once they are all taken.

More of them come out of the same modules with other constants, or need no run at all:

| module | where | what happens |
|---|---|---|
| `MotionGate` | two sources, `CacheFills`, `MaxRuns` 2: `NothingUntracked` | on ENOSPC `run_ffmpeg_loop` returns between finishing one segment and recording the one just listed (`recording.rs:1678-1715`); the recovery finds no `prev_segment` |
| `MotionGate` | one source, three events, a channel of one: `NoMotionDiscarded` | an unmatched STOP becomes a post-roll only while the buffer is `Idle`; drained in an earlier event's post-roll, it is dropped, and with it the post-roll of the event whose START was lost (`recording.rs:2234`, against `main.rs:107-108`) |
| `PersistPath` | `SteppedBack`, {"archive"}: `IndexedFootageWins` | a collision is detected by a file; once the older segment is archived the name is free and the UPSERT repoints its row (`DECISIONS.md:4491`) |
| `PersistPath` | `SteppedBack`, {"copy", "overwrite"}: `KeptIsSafe` | ffmpeg truncates a cache file that waits for its retry |
| `PersistPath` | {"copy", "abort"}: retries due | retries that are due are out of the queue while their copies are awaited (`recording.rs:3299`); a task aborted there leaves them to the next worker's sweep |
| `PersistPath` | {"copy", "crash"}, cache survives | the retry queue is in memory, the sweep after a restart is not told |
| `PersistPath` | {"crash"}: whole rows | a crash in the copy leaves a truncated file that reconcile adopts |
| `StorageGuard` | a bare mountpoint that gets marked | the seed step takes rows this process recorded onto the bare mountpoint for proof that the disk is there and marks it (`reconcile.rs:393`; `RECORDER-CORRECTNESS.md:357-358` says otherwise) |
| `StorageMoves` | `Batch` not above the dangling rows: `DoneMeansDrained` | a full batch of rows that are dangling, or were archived or expired since the listing, at least one found without its file, ends the drain as done with footage behind it (`archive.rs:1798-1801`, `1988`) |
| `StorageMoves` | live and archive in one directory (the seed's default), target new: `RowsHaveFootage` | the archiver's stale listing repoints a flipped row at the source, which the drain then removes |
| `StorageMoves` | from archive, target in live's directory: `RowsHaveFootage` | the archiver's last step unlinks the drain's copy |
| `StorageMoves` | `DirSyncFails`: `RowsHaveFootage` | a failed `fsync_dir` is logged and the source is removed before a power loss |
| `StorageMoves` | `StatusUnread`: `CancelStops` | the drain takes a status it cannot read for "running" |
| `MotionSources` | `Edges` | a sensor that is on when a session starts is no edge: it opens no event until it has been off (`ha_motion.rs:28-30`: "a sensor held `on` is real") |
| `MotionSources` | `stranded` | a source that panics strands its START (`motion.rs:3611`): the union never expires the key |
| `SourceTrackers` | `CameraTick` | an expiry may send STOP without the grace (`frigate_motion.rs:268-279`) |
| `UnhealthyAlerts` | `TearDown` | on a settings change a healthy source's last report arms a detached timer, and its first alert does not ask whether anybody listens (`motion.rs:1475-1486`, against `1392-1396`) |
| `UnhealthyAlerts` | two episodes of one generation | startup and transition episodes both alert (`motion.rs:1220`, `1381`) |
| `StreamRegistry` | reconnect | its DELETE is outside the lock (`go2rtc.rs:1263-1298`): a pass re-creates the old source, and reconnect's own pass only patches it |
| `StreamRegistry` | without `Admits` | two edits of one camera leave an orphan that no pass prunes; nor does anything after a removal that failed or was cut short (`skipped`) |
| `StreamRegistry` | `ensure_once` | a failed re-read ends the pass without its prune; a stale source stays until the API's next pass |
| `Sweeps` | `Batch` 1: `CeilingHolds` | rows that cannot be deleted stay at the head of every batch, so a tick never gets past them (`archive.rs:3261-3267` calls it a hard ceiling, `3284` says it converges, `2300` "always makes forward progress") |
| `Sweeps` | pins | a bookmark set after the list was read does not save the segment |
| `Sweeps` | row deletes that fail | the freed bytes are not credited, and one more segment goes |
| `OrphanWalk` | `Plain` | a `-rN` loser parked under a name that is taken becomes `stem_time.mp4`, which the exemption does not know, and is purged after the window (`DECISIONS.md:4508-4515`: never deleted) |
| `OrphanWalk` | without `UnderWay` for suffixed files | the row of a suffixed file that comes, or is flipped by its move, between look-up and rename points at a file that is now in `_quarantine` (`reconcile.rs:1733`: "A file a row references is never moved") |
| `OrphanWalk` | without `UnderWay` for open files | a file ffmpeg has open and has not written to for two segment lengths counts as settled: below the floor, it is unlinked or parked under the writer |
| `ArchiveSchedule` | `EnsureTracker` | a schedule that was cleared, or archiving that was off, and comes back fires at once for what it has missed meanwhile ("an edit can neither retro-fire past occurrences", `archive.rs:1072`) |
| `ArchiveSchedule` | `TakeNow` | an occurrence of a schedule that is edited in between the read of the cameras and of the clock is taken as checked ("nor skip one that lands right after the edit") |
| `ArchiveSchedule` | without `ScheduleAssumption` | rows whose move always fails, as many as a list or a tick's budget takes, are all that is ever tried |
| `ArchiveSchedule` | `RestartScheduler`, `SetupFails`, `DestinationFull` | a restart or a failed setup leaves a backlog to the next occurrence; so is the last segment of a list if it finds the destination full (`archive.rs:1268-1270` says the next tick retries) |
| `Supervisor` | a settings read that fails | every fingerprint flips and every worker is restarted (`main.rs:918-919`, `1024-1028`, against item 14) |
| `Supervisor` | SIGTERM during a roll of all workers | it is seen when the roll is over (`main.rs:1056-1060`) |
| `ExportJobs` | late upserts | a "running" that lands after "done" makes a finished export fail at the next restart ("completed exports remain downloadable across an API restart") |
| `ExportJobs` | `Cancels`, `Starts` | a job cancelled before its worker starts is shown as running again, or as done if the worker had taken its last look ("observes one terminal cancelled") |
| `ExportJobs` | sweeps of cancelled jobs | a job counts as ended while its worker still writes, or has just set it running ("Never evicts a Running job"); the TTL sweep forgets a job whose directory it could not remove |
| `ExportJobs` | crash in `DropsRow` | after a crash between directory and row a done job has no files; without footage a single export is done, a batch fails |
| `HealthAlerts` | `dropped` | the one row of a latched outage is consumed by a maintenance window, the switch, quiet hours, the cooldown or a failed delivery, and nothing repeats it ("never silently missing a still-ongoing outage") |
| `HealthAlerts` | `Overtaken`, `Missed` | the cursor counts stamps: a row committed after a later stamp was read is never read |
| `DetectionIngest` | `Polls` | `events_since` filters no lifecycle and the cursor runs over start times: a start inserted behind it (Frigate's comes seconds later than a motion row of a later start), or an update or end before the poll, is never notified ("only `start` lifecycle rows are returned (so each event is processed exactly once at the START boundary", `db.rs:13936-13937`) |
| `DetectionIngest` | `unlatched` | an alert whose latch fails, or that a restart separates from it, is repeated by the next refinement ("fires exactly once per read", `DECISIONS.md:4651-4652`) |
| `DetectionIngest` | `unfired` | an alert whose insert failed is retried by a later refinement only; after the last one there is none (`detection_ingester.rs:413`) |
| `DetectionIngest` | `Withholds` | the end of a plate's event is dropped when its last text is ignored or could not be checked; the janitor guesses it (`detection_ingester.rs:70-73`) |
| `DetectionIngest` | `Upserted` | a listing or an update that lands after the end, or after the janitor, leaves "update" on a row that has ended |
| `RecordingPolicies` | groups overlapping edits | the membership of a camera is read before the lock and not below it (`config_routes.rs:1648`); a camera that joins a group meanwhile gets a policy of its own |
| `RecordingPolicies` | `UpdateWrite`, `UpdatePromote` next to the reaper | a rename and the promotion of what was renamed are two statements; a deviation without cameras is deleted between them, and the rename is answered all the same (`config_routes.rs:1952`) |
| `RecordingPolicies` | assignments overlapping edits | an assignment takes no lock and accepts a deviation; pinned between the count and the update of another camera's edit in place, it is changed by it (`config_routes.rs:1766`) |
| `RecordingPolicies` | `UpdateRead`, `UpdateWrite` | two partial edits of one policy each write every column back; the later one undoes the earlier (`config_routes.rs:1941`) |
| `RecordingPolicies` | `GroupCommit`, `MembersCommit` overlapping | a camera may end up in a group with another policy than the group's (`db.rs:4990`) |
| `StorageLocations` | two sessions: `RootsDisjoint` | check and insert of a storage are two statements; two sessions both pass the check (`config_routes.rs:2214`) |
| `StorageLocations` | not `Careful`: `FootageResolves` | a storage that was just made live has no rows, so its folder may be changed, and the worker goes on writing to the one it has resolved; its rows then lead nowhere (`config_routes.rs:2283`, against `RECORDER-CORRECTNESS.md:386-387`) |

Also in the models, with no property of their own: `Bail` writes "failed" over a status that
was changed meanwhile (`main.rs:1234`, unlike `db.rs:1427-1428`); the union never
expires an open key (`ha_motion.rs:105-107` still counts on a maximum length); the breaker's
bound is the larger of its floor and its share of the rows, per pass, where
`reconcile.rs:170-177` speaks of 100 rows; a row is not protected if the archiver flips it and
the mount changes during the same pass (`SteadyMountKeepsRows` excludes that).

## 5. Proofs

TLAPS checks these for every value of the constants, from the named assumptions
`BufferAssumption`, `GateAssumption`, `PersistAssumption`, `GuardAssumption`, `MovesAssumption`,
`SupervisorAssumption`, `RegistryAssumption`, `SweepsAssumption`, `ExportsAssumption`, `HealthAssumption`,
`DetectionAssumption`, `SourcesAssumption`, `PoliciesAssumption`, `NamesAssumption`,
`LocationsAssumption`, `ScheduleAssumption` and `WalkAssumption` (types of the constants, no bound on them); what a
theorem assumes beyond that stands in its statement.

| theorem | says |
|---|---|
| `MotionGate_proofs!TypeCorrect` | `Spec => []TypeOK` |
| `MotionGate_proofs!RegimeFollowsUnion` | `Spec => []RegimeAgrees`: the buffer records exactly while the union is open, or the stashed edge will bring it there |
| `MotionGate_proofs!GateGivesOneVerdict` | `Spec => VerdictSpec`: the gate implements `SegmentVerdict` |
| `MotionGate_proofs!NoSegmentIsLost` | `Spec => []NothingUntracked`, given `~CacheFills` |
| `MotionGate_proofs!ReportedMotionStays` | `Spec => []ReportedMotionIsKept`, given `SegLen =< Slack + ListLag + 1` |
| `MotionGate_proofs!NoMotionIsDiscarded` | `Spec => []NoMotionDiscarded`, given also `2 * MaxEvents =< Cap` |
| `PersistPath_proofs!TypeCorrect` | `Spec => []TypeOK` |
| `PersistPath_proofs!KeptStaysSafe` | `Spec => []KeptIsSafe`, for every set of faults |
| `PersistPath_proofs!RowsStayGood` | `Spec => []RowsAreGood` |
| `PersistPath_proofs!FootageWins` | `Spec => IndexedFootageWins`, given distinct start times, or no archiver and no power loss |
| `PersistPath_proofs!PersistIsFootage` | `Spec => F!Init /\ [][F!Next]_FootageStatus`: the steps of `Footage`, its liveness apart |
| `StorageGuard_proofs!TypeCorrect` | `Spec => []TypeOK` |
| `StorageGuard_proofs!LatchHolds` | `Spec => LatchedIsNotPruned`: a latched storage loses no row |
| `StorageGuard_proofs!LossIsBounded` | `Spec => []LossBounded`, for every floor, share and number of rows |
| `StorageGuard_proofs!SteadyMountIsSafe` | `Spec => SteadyMountKeepsRows` |
| `StorageGuard_proofs!OnlyJustifiedPrunes` | `Spec => PrunesAreJustified`: both of these |
| `Storage_proofs!TypeCorrect` | `Spec => []TypeOK` |
| `Storage_proofs!RowsKeepFootage` | `Spec => []RowsHaveFootage`, given `SafeLayouts` and `~DirSyncFails` |
| `Storage_proofs!CancelIsHeeded` | `Spec => []CancelStops`, given `~StatusUnread` |
| `Storage_proofs!DrainedWhenDone` | `Spec /\ []SomeMoves => DoneMeansDrained`, given `SafeLayouts`: no full batch is lost as a whole |
| `Storage_proofs!EachFiresOnce` | `ScheduleSpec => OccurrencesFireOnce` |
| `Storage_proofs!NoFootageIsLost` | `WalkSpec => WalkLosesNothing`, however often the others interfere |
| `Storage_proofs!StorageTypeCorrect` | `MCSpec => []StorageTypeOK` |
| `Upkeep_proofs!SupervisorTypeCorrect` | `SupervisorSpec => []SupervisorTypeOK` |
| `Upkeep_proofs!NoTaskIsOrphaned` | `SupervisorSpec => []TasksAreOwned` |
| `Upkeep_proofs!NoStreamIsZombie` | `RegistrySpec => []NoZombieStreams` |
| `Upkeep_proofs!NoEvictionIsIdle` | `SweepsSpec => EvictionsAreNeeded`, for every set of policies and disks |
| `Upkeep_proofs!UpkeepTypeCorrect` | `Spec => []UpkeepTypeOK` |
| `Api_proofs!ExportsTypeCorrect` | `ExportsSpec => []ExportsTypeOK` |
| `Api_proofs!MapIsTrue` | `ExportsSpec => []JobsAreTrue` |
| `Api_proofs!LiveWorkIsKept` | `ExportsSpec => JobsKeepTheirWord` |
| `Api_proofs!AlertsAreExact` | `DetectionsSpec => []AlertsMatchReads` |
| `Api_proofs!DetectionsAreKept` | `DetectionsSpec => DetectionsKeepTheirWord` |
| `Api_proofs!ApiTypeCorrect` | `Spec => []ApiTypeOK` |
| `Api_proofs!WordIsKept` | `Spec => ApiKeepsItsWord`: both of the words above |
| `MotionSources_proofs!DeadSourcesFailOpen` | `SourcesSpec => []FailsOpenInTime`, for every set of sources, grace and lag |
| `MotionSources_proofs!EventsAreClosed` | `SourcesSpec => []OpenKeysAreEvents` |
| `MotionSources_proofs!NoEventIsStuck` | `Spec => []EventsEnd`, given `StopGrace <= TTL + 1` (5 s and 30 s) |
| `MotionSources_proofs!OutagesAreTold` | `Spec => []OutagesAlert` |
| `MotionSources_proofs!TaskStaysTyped` | `Spec => []TaskTypeOK` |
| `Configuration_proofs!PoliciesTypeCorrect` | `Spec => []TypeOK`, whatever requests overlap |
| `Configuration_proofs!ConfigTypeCorrect` | `ConfigSpec => []ConfigTypeOK`, given one session on the storages |
| `Configuration_proofs!EditsDoWhatTheySay` | `Spec => EditsKeepTheirWord`, given that only edits overlap |
| `Configuration_proofs!OneConsoleKeepsRootsApart` | `LocationsSpec => []RootsDisjoint`, given one session |
| `Configuration_proofs!RowsLeadToFootage` | `LocationsSpec => []FootageResolves`, given one session and `Careful` |

*Regime.* `RegimeAgrees` is not inductive: inside a finish call, after `DrainChannel` took the
replay, the steps that follow must find none. `RegimeInv` adds that outside a freeze no edge
is stashed once the channel is drained (`ReplayTaken`). Each step of the fold then either opens
the first key, closes the last one, or leaves emptiness of `open` alone, which lemmas about
`Fold` and `ApplySignal` state once.

*One verdict.* That an arriving segment has no verdict yet needs time: `TrackInv` says that what
ffmpeg lists next, what waits in `prev` and what a call is about are each later than all that is
`Known`. It also says what the flip-guard rests on: the ring has one kind of file, without a
verdict in a caching run, kept already in any other. Each operation of the buffer returns what went
in, each segment once (`Splits`), so a decision moves segments from waiting to a verdict and loses
none. `NothingUntracked` is inductive on top of it, except at a boundary where the cache is full.

*Reported motion.* `GateInv` has a part for each thing the guarantee passes through. `TimeInv` places
segments, runs and calls on the clock. `EventInv` and `QueueInv` tie each event to its signals on their
way, which arrive in the order of the times they carry. `Over` is the set of events that were heard and
whose signals have all been folded. `FoldInv` says that these have ended before whatever is still to
come, so that the STOP to replay, or the post-roll, covers them, and that an idle buffer is given
only what starts after their own post-roll. `RingInv` then says that nothing that waits in the ring
of a caching run is owed to one of them, and `DiscardInv` that what was discarded is owed to
no heard event and lies a whole pre-roll in the past, so that no event to come can want it. The last
is where the assumption is needed: the ring ages by the start of a segment, the pre-roll is measured from its end,
and `RING_SLACK_SECS` (8 s) makes up for the difference as long as a segment (2 to 6 s, `config.rs:435`) is not longer. `LostInv`
is the other half: a lost START marks its source, the forwarder publishes that within the tick, and a call
that reads healthy is about a segment that ended before such an event began, or after. `RoomInv` counts:
a source sends two signals per event, so a channel with room for those of all events accepts each START.

*Persist.* `BaseInv` adds to `TypeOK` that a file, a row and a cache name have a recorded segment of
their start time, that the copy under way and the one left behind have different files, and that a
segment is in one list at a time. `SafeInv` says that the cache holds what is in somebody's hands
(unless ffmpeg overwrites), that a copy is of the segment it is about, and whom a kept segment is
cared for by. `FileChanges` and `RowChanges` list once what a step may do to a live file and to a
row, whoever takes it. On them rest the other three: the durability of committed rows; `PassInv`,
for failures that pass (what is not whole is the copy under way, every row has a whole file, all
files are of kept segments); and `WinsInv`, where files stay (a copy to a plain name is of a start
time without a row, and a row's file is never the one a copy writes). Where start times are distinct
a row can show one segment only. Without either `IndexedFootageWins` is false (section 4). The name
a copy gets is chosen as the least free suffix, which is where well-foundedness of the numbers is
used (`LeastNatural`). `StepIsFootage` maps a verdict to `Keep` of what is newly kept, any other
step to `Store` of what is newly stored, which may be nothing.

*Guard.* `TypeInv` adds to `TypeOK` what a pass holds while it visits a row (`Visiting`). `LatchInv`
carries the latch from `LoadGuard` to the delete. `LossInv` relates the pass's counters to the
rows it has deleted and to the one it is about to (`Pending`); the breaker's test then bounds the
sum. `SteadyInv` follows a row from its first stat to the delete: while the mount is steady and the
bare directory has no marker, the visited row has no file on the disk, and if the row has moved to
the archive it was fetched again after that, so that the second stat looked where it points now.
Footage recorded onto the bare mountpoint (`stray`) is the exception the property names too.
TLC checks all of these as invariants of the same instances.

*Moves.* A row with a whole file is not enough, as the power may fail: `Footed` asks for a durable
one. `SchedulerInv` says that what the scheduler has in hand is still at a source, and
`SourceIsNotDest` that no source leads to its destination, which is where `SafeLayouts` is
needed: without it `RowsHaveFootage` is false (section 4). `Reserved` says what the drain relies
on for each segment of its batch: nobody else moves a row to the target, a copy under a row
that is still on the source is whole, then durable (`~DirSyncFails`), and what the clean-up removes
is not where the row is. `DestIsFree` and `DrainWrites` are the non-interference of the two: what
one of them writes or removes is neither the row's file nor what the other has just copied.
`CancelInv` strengthens `CancelStops` by: a cancelled drain with a batch in hand has flipped none
since. TLC checked each part as an invariant of the instance with two segments.

*Drain.* That a drain which is done has left nothing behind needs to know why it stopped. `DrainedInv` follows
what is left on the source (`Left`) through a batch: nobody brings a file or a row back to the live
storage, so whatever was not listed was crowded out of a full batch (`OldestFillBatch`), and the batch keeps its
size while its segments pass from one set to another, unless a copy fails. A batch that flips no row
and has no failed copy has then lost all of its segments, to a missing file or to whoever moved the
row; `SomeMoves` says that this happens to no full batch, of `MIGRATION_BATCH` (256) rows. It speaks of one
batch at a time, not of all that was lost since the start, and without it the property is false (section 4).
Neither `DirSyncFails` nor `StatusUnread` is restricted.

*Schedule.* `OwedStands` places what a camera is owed after its tracker's window and on the schedule the
tick under way has read for it, `SettledStands` what was ruled on before the window's end. A camera that was
deleted keeps no tracker but what was ruled on for it, hence `Departed`: neither its row nor the tick's
list of rows brings it back. That a run overdraws no budget is a count over what it tries (`OldestAre`), by
well-foundedness of the numbers.

*Walk.* What the pass looked at is old when it is used, so `WalkInv` says of each thing it holds what may have
become of it. `DoneStands`: before anything else is made of a start time (a copy, a loser, a candidate)
ffmpeg has done with the plain file, which then keeps its size or goes. `CopiesStand`: while the plain
file and its copy are both there, the row is at one of them and they are of one size if it is at the
copy, so what the insert finds taken is a duplicate. `LosersStand`: a suffixed file on its way into the index, or to the
archive, is young, so that it is not the candidate; this is where the guard `UnderWay` is used, and
the property is false without it (section 4). `PageStands` follows the row the pass has read: to
which files it may have moved on since, and that none of them is a stub if the one read was not. Hence
`UnlinkedStands`, that the row which goes after its stub was removed leads nowhere of use, whatever the
archiver did in between. `CandStands` is what the verdict on the candidate still means at the rename.

*Supervisor.* `TasksAreOwned` alone says nothing of the moments in which a worker leaves the map.
`SupervisorInv` adds `SyncOK`: the worker that is being stopped has a number that is no longer in
the map, a camera at hand has none there, and numbers are given once.

*Streams.* A stream without a camera is allowed while somebody is at work, so `RegistryInv` says who is
to take it away: `StreamsStand` has each of them covered by a request that is about to remove it, by
the recorder's registration, which still has to re-read the rows or to prune what it created, or by a removal
that failed. `PassStands` says the same of what is to come: a pass that would put a stream on rows it has
read cannot have its camera taken away without a removal that waits for the lock. `LookStands` is what the
registration has yet to create.

*Sweeps.* The loops go by counters that were read before, so the invariant relates those to the disks. `Owing`:
what is still to be freed is at most what the recording disk lacks of floor and spill, files whose
row stayed counted apart. `Counting`: a pass believes in no more footage than there is. Both keep because a
deletion takes one file or one row at most off either side. `ListStands` says what tier or
disk the list of a pass is of, which is why a pass over the archive deletes no live footage.

*Exports.* `JobInv` relates the five places a job is in. A job not yet created has nothing anywhere
(`Unborn`); a job under way has a worker, one that may be read back as done has its files and no
worker (`Told`); the token comes and goes with the worker, and a job that a sweep holds and that is
under way has been cancelled (`Armed`), which is why the sweep may take it. Most steps touch one job,
which a lemma (`OneJob`) states once.

*Detections.* `DetectionsInv` says of each message on its way, queued, stray or at hand, that what it
reports has happened (`MessagesStand`): hence an end that is marked as genuine is one. `WorkStands`
ties the message at hand to what is already written for it: its event before its read, its read before its
alert, and a text that is not among those the last look found ignored. `Alarmed` counts: a read is latched
by its row or by the step that is about to write it, and its alerts are those whose latch was lost, plus
one if it is latched. As long as it is not latched every refinement looks at the watchlist again,
which is why the last text has had its alert.

*Outage alerts.* `HealthInv` is the typing of latch, rows and engine: stamps are given once, the rows of a batch lie
between the cursor and where it goes when the batch is done, and that is not past the last stamp.

*Motion sources.* `GateInv` is the bookkeeping behind `FailsOpenInTime`: a source that is up was up
now; one the aggregator saw up was so when it looked, at most `late` ago; the time it has for one it
saw down is at most one look after that source was last up. So what the verdict of the last look is
worth has decayed by `late` and no more (`Trusted`). `KeysInv` strengthens `OpenKeysAreEvents` by:
what a source has been heard to open, less what a panic stranded, is the one event its tracker has
open, and a task outside its session has none. `SilentInv` times Frigate's event: what is open was
heard of within `OBJECT_TTL`, or one tick more while the janitor's turn is due, and the grace runs
exactly while no object is left. `HaObserve` takes the edges of a poll as two sets: the code folds them in one
by one, in the order of the states, and the outcome depends on the sets only.

*Alerts.* `AlertsInv` is three things beside types. `EpisodesInv`: no timer sleeps past its time, none is of a
generation to come, and each alert is as long after the start of its outage as the settings say. `ArmedInv`:
a timer of the current generation was armed when its outage had begun, a source that is up has none.
`ToldInv`: an outage of a running source has been told of, or a first timer of the current generation is
still asleep for it. A death bypasses the gate and its generation; what keeps `ToldInv` then is
that the source's new task arms a timer of its own.

*Configuration.* `TypeInv` types the requests, step by step; that Default and whatever is referred to
stay is then the foreign keys. `EditsInv` says what the lock is worth: one edit at most is inside it,
and what that one has read (`EditStands`) is still so, since with edits alone overlapping nothing but
the reaper and other edits' first steps run beside it, and the reaper takes no policy that a camera
uses. Counting the users of a deviation and finding one makes its camera the only user (a set of
one element, which is where finiteness of `Cameras` is used); the name of a mint exists because
suffixes do not run out (`NamesAssumption`). `LocationsInv` says that what a request has found out
still holds at its next step (`RequestStands`), that a folder which is free fits (`FreeFits`), and
that the worker's folder and what is on the way to the index lead where their storage's row does.

Only model-checked: every liveness property, that of `Footage` included, since fairness and ENABLED
are out of the prover's reach.

## 6. Not modelled

`PROJECT.json` lists every part with its reason. In short: what is arithmetic on pixels or bytes
(motion detection, transcoding, burn-in), what is a query or a form over rows (most of the API,
and of the common crate, whose queries the models map where they rely on them), what talks to
devices, the clients, and deployment.

## 7. Plan

Done: every module of section 2; theorems of gate, persist path, guard, moves, archive schedule, walk, motion sources, stream
registry, sweeps, supervisor, the API's parts and configuration.

Every safety property a run checks has its theorem, under the assumptions its row names;
section 4 lists what the code does where they do not hold.

Modules are written to be proved about: no RECURSIVE operator, constants with named assumptions,
invariants as conjunctions of named parts.
