---------------------------- MODULE PersistPath ----------------------------
(* How a kept segment of one Motion-mode camera gets from the motion cache into *)
(* storage and into the index (recording.rs, audit R8 and issue #144), next to  *)
(* the orphan pass of reconcile.rs, worker respawns and process restarts.       *)
(*                                                                              *)
(* A file name is <<start, n>>: the name written for that start time, or its    *)
(* -rN sibling when n > 0. A segment's file in the cache is named by its start. *)
EXTENDS Naturals, FiniteSets

CONSTANTS
    Segments,       \* the segments ffmpeg records
    Starts,         \* the start times their file names carry
    MaxSuffix,      \* MAX_COLLISION_DISAMBIGUATION
    Settings,       \* the circumstances a behaviour may run in
    None

AllFaults == {"copy", "partial", "index", "sync", "unlink",
              "abort", "crash", "power", "overwrite", "archive"}

\* segs: the segments ffmpeg writes. startOf: two of them share a start time after the
\* clock stepped back. survives: the cache is on disk, not on tmpfs.
Setting == [segs : SUBSET Segments, faults : SUBSET AllFaults,
            startOf : [Segments -> Starts], survives : BOOLEAN]

ASSUME PersistAssumption ==
    /\ Settings \subseteq Setting
    /\ MaxSuffix \in Nat
    /\ None \notin Segments \cup (Starts \X Nat) \cup [seg : Segments, whole : BOOLEAN, synced : BOOLEAN]

VARIABLES
    setting,    \* the circumstances of this behaviour
    cache,      \* whose bytes the cache holds under each name
    recorded,   \* segments ffmpeg has written
    listed,     \* written, not yet finished by the recording task
    ring,       \* MotionBuffer.pending: awaiting a verdict
    queue,      \* UNPERSISTED: kept, copy into storage failed
    retries,    \* queue entries taken by the current finish call
    fresh,      \* the persist list of the current finish call
    drop,       \* the discard list of the current finish call
    pc,         \* where the recording task is
    cur, dst,   \* the segment being persisted and its file in storage
    bg,         \* a copy left running by an aborted worker
    live,       \* files of the live storage
    archive,    \* files moved to the archive storage
    parked,     \* segments whose file was moved to _quarantine
    row,        \* the segments table
    kept, lost, \* history: keep verdicts, and losses reported to the operator
    abandoned   \* history: in nobody's hands since a task or the process died

work == <<retries, fresh, drop, pc, cur, dst>>
disk == <<live, archive, parked, row>>
state == <<cache, recorded, listed, ring, queue, work, bg, disk, kept, lost, abandoned>>
vars == <<setting, state>>

Faults == setting.faults
StartOf == setting.startOf
CacheSurvives == setting.survives

Names == Starts \X (0..MaxSuffix)
File == [seg : Segments, whole : BOOLEAN, synced : BOOLEAN]
Row == [at : {"live", "archive"}, name : Names, by : {"worker", "reconcile"}]
Steps == {"down", "idle", "persist", "copying", "copied", "indexed"}

Init ==
    /\ setting \in Settings
    /\ cache = [k \in Starts |-> None] /\ row = [k \in Starts |-> None]
    /\ live = [n \in Names |-> None] /\ archive = [n \in Names |-> None]
    /\ recorded = {} /\ listed = {} /\ ring = {} /\ queue = {} /\ parked = {}
    /\ retries = {} /\ fresh = {} /\ drop = {}
    /\ pc = "down" /\ cur = None /\ dst = None /\ bg = None
    /\ kept = {} /\ lost = {} /\ abandoned = {}

-----------------------------------------------------------------------------
(* ffmpeg and the verdict.                                                     *)

\* ffmpeg closes a segment. It opens its file with O_TRUNC, so a name the cache
\* still holds loses its old bytes.
Record(s) ==
    /\ pc # "down" /\ s \in setting.segs \ recorded
    /\ cache[StartOf[s]] = None \/ "overwrite" \in Faults
    /\ recorded' = recorded \cup {s} /\ listed' = listed \cup {s}
    /\ cache' = [cache EXCEPT ![StartOf[s]] = s]
    /\ UNCHANGED <<ring, queue, work, bg, disk, kept, lost, abandoned>>

\* The verdict of MotionBuffer, reduced to what it may do with the ring and the
\* completed segment, and the retries that are due at this boundary.
Judge(judged, keep, discard, due) ==
    /\ pc = "idle"
    /\ fresh' = keep /\ drop' = discard /\ ring' = judged \ (keep \cup discard)
    /\ retries' = due /\ queue' = queue \ due
    /\ kept' = kept \cup keep
    /\ pc' = "persist"
    /\ UNCHANGED <<cache, recorded, cur, dst, bg, disk, lost, abandoned>>

Finish(s) ==
    /\ s \in listed /\ listed' = listed \ {s}
    /\ \E keep \in SUBSET (ring \cup {s}), due \in SUBSET queue :
       \E discard \in SUBSET ((ring \cup {s}) \ keep) : Judge(ring \cup {s}, keep, discard, due)

\* A boundary of a segment this model does not follow: buffered, judged and
\* evicted without touching the others. Only its retries matter here.
QuietBoundary ==
    /\ UNCHANGED listed
    /\ \E due \in (SUBSET queue) \ {{}} : Judge(ring, {}, {}, due)

-----------------------------------------------------------------------------
(* persist_cached_segment: copy, fsync, index, delete the cache file.          *)

\* The retries of a finish call run before its persist list.
Todo == IF retries # {} THEN retries ELSE fresh

Taken(n) == live[n] # None
FreeSuffixes(k) == {i \in 1..MaxSuffix : ~Taken(<<k, i>>)}
HasRoom(k) == ~Taken(<<k, 0>>) \/ FreeSuffixes(k) # {}

\* Mutant: the plain name whatever is there, as ffmpeg's own O_TRUNC does.
PlainName(k) == <<k, 0>>

\* The first free name; the plain one if nothing is there.
DstFor(k) == IF ~Taken(<<k, 0>>) THEN <<k, 0>>
             ELSE <<k, CHOOSE i \in FreeSuffixes(k) : \A j \in FreeSuffixes(k) : i <= j>>

Collided(n) == n[2] > 0

Settle(s) == retries' = retries \ {s} /\ fresh' = fresh \ {s}

\* Mutant: a failed copy is only logged, as before audit R8.
LogOnly(s) == queue

\* Mutant: the whole ring is queued along with the failed segment.
QueueRing(s) == queue \cup ring \cup {s}

\* queue_unpersisted: one entry per cache path.
Queued(s) == IF \E q \in queue : StartOf[q] = StartOf[s] THEN queue ELSE queue \cup {s}

\* A due retry whose cache file is gone is reported to the operator and dropped.
ReportVanished(s) ==
    /\ pc = "persist" /\ s \in retries /\ cache[StartOf[s]] = None
    /\ lost' = lost \cup {s} /\ Settle(s)
    /\ UNCHANGED <<cache, recorded, listed, ring, queue, drop, pc, cur, dst, bg, disk, kept, abandoned>>

BeginCopy(s) ==
    /\ pc = "persist" /\ s \in Todo /\ cache[StartOf[s]] # None /\ HasRoom(StartOf[s])
    /\ pc' = "copying" /\ cur' = s /\ dst' = DstFor(StartOf[s])
    /\ live' = [live EXCEPT ![dst'] = [seg |-> cache[StartOf[s]], whole |-> FALSE, synced |-> FALSE]]
    /\ UNCHANGED <<cache, recorded, listed, ring, queue, retries, fresh, drop, bg,
                   archive, parked, row, kept, lost, abandoned>>

\* No free name, or (on a first attempt) no cache file: nothing was written.
Refuse(s) ==
    /\ pc = "persist" /\ s \in Todo
    /\ ~HasRoom(StartOf[s]) \/ (retries = {} /\ cache[StartOf[s]] = None)
    /\ cache[StartOf[s]] # None \/ retries = {}
    /\ queue' = Queued(s) /\ Settle(s)
    /\ UNCHANGED <<cache, recorded, listed, ring, drop, pc, cur, dst, bg, disk, kept, lost, abandoned>>

FinishCopy ==
    /\ pc = "copying" /\ pc' = "copied"
    /\ live' = [live EXCEPT ![dst].whole = TRUE]
    /\ UNCHANGED <<cache, recorded, listed, ring, queue, retries, fresh, drop, cur, dst, bg,
                   archive, parked, row, kept, lost, abandoned>>

\* The partial is removed, best effort, and the segment queued for a retry.
FailCopy ==
    /\ "copy" \in Faults /\ pc = "copying" /\ pc' = "persist"
    /\ \/ live' = [live EXCEPT ![dst] = None]
       \/ "partial" \in Faults /\ UNCHANGED live
    /\ queue' = Queued(cur) /\ Settle(cur)
    /\ cur' = None /\ dst' = None
    /\ UNCHANGED <<cache, recorded, listed, ring, drop, bg, archive, parked, row, kept, lost, abandoned>>

\* Mutant: always an UPSERT, so a colliding segment takes the row.
AlwaysUpsert(n, by, preserve) == row' = [row EXCEPT ![n[1]] = [at |-> "live", name |-> n, by |-> by]]

\* index_segment's insert: an UPSERT that repoints the row, unless the name
\* collided, when a row that is already there stays as it is.
Insert(n, by, preserve) ==
    row' = IF preserve /\ row[n[1]] # None THEN row
           ELSE [row EXCEPT ![n[1]] = [at |-> "live", name |-> n, by |-> by]]

\* Mutant: a failed fsync is logged and the row inserted all the same.
IndexUnsynced ==
    /\ pc = "copied" /\ pc' = "indexed"
    /\ \/ live' = [live EXCEPT ![dst].synced = TRUE]
       \/ "sync" \in Faults /\ UNCHANGED live
    /\ Insert(dst, "worker", Collided(dst)) \/ ("index" \in Faults /\ UNCHANGED row)
    /\ UNCHANGED <<cache, recorded, listed, ring, queue, retries, fresh, drop, cur, dst, bg,
                   archive, parked, kept, lost, abandoned>>

\* index_segment: the row only after a successful fsync. Whatever comes of it,
\* persist_cached_segment goes on to delete the cache file.
Index ==
    /\ pc = "copied" /\ pc' = "indexed"
    /\ \/ /\ live' = [live EXCEPT ![dst].synced = TRUE]
          /\ Insert(dst, "worker", Collided(dst)) \/ ("index" \in Faults /\ UNCHANGED row)
       \/ "sync" \in Faults /\ UNCHANGED <<live, row>>
    /\ UNCHANGED <<cache, recorded, listed, ring, queue, retries, fresh, drop, cur, dst, bg,
                   archive, parked, kept, lost, abandoned>>

DeleteCached ==
    /\ pc = "indexed" /\ pc' = "persist"
    /\ \/ cache' = [cache EXCEPT ![StartOf[cur]] = None]
       \/ "unlink" \in Faults /\ UNCHANGED cache
    /\ Settle(cur) /\ cur' = None /\ dst' = None
    /\ UNCHANGED <<recorded, listed, ring, queue, drop, bg, disk, kept, lost, abandoned>>

\* The discards come last.
EndFinish ==
    /\ pc = "persist" /\ retries = {} /\ fresh = {}
    /\ pc' = "idle" /\ drop' = {}
    /\ \/ cache' = [k \in Starts |-> IF \E s \in drop : StartOf[s] = k THEN None ELSE cache[k]]
       \/ "unlink" \in Faults /\ drop # {} /\ UNCHANGED cache
    /\ UNCHANGED <<recorded, listed, ring, queue, retries, fresh, cur, dst, bg, disk, kept, lost, abandoned>>

-----------------------------------------------------------------------------
(* Runs, workers and the process.                                              *)

\* Mutant: the sweep spares the ring only, as before audit R8.
RingOnly == ring

\* motion_cache_keep_set: the carried ring and every queued segment.
KeepSet == ring \cup queue

\* The R1 sweep when a caching run starts.
Sweep == cache' = [k \in Starts |-> IF \E s \in KeepSet : StartOf[s] = k THEN cache[k] ELSE None]

\* ffmpeg died: listings nobody read are gone, the buffer is carried over.
Reconnect ==
    /\ pc = "idle" /\ listed' = {} /\ Sweep
    /\ UNCHANGED <<recorded, ring, queue, work, bg, disk, kept, lost, abandoned>>

Forget == retries' = {} /\ fresh' = {} /\ drop' = {} /\ ring' = {} /\ listed' = {}
          /\ pc' = "down" /\ cur' = None /\ dst' = None

\* A worker that stops in time stops between two finish calls.
Stop == pc = "idle" /\ Forget /\ UNCHANGED <<cache, recorded, queue, bg, disk, kept, lost, abandoned>>

\* CameraWorker::stop gives up after 8 s and aborts the task at its next await.
\* A copy already handed to the blocking pool runs on.
Abort ==
    /\ "abort" \in Faults /\ pc \notin {"down", "idle"} /\ bg = None
    /\ Forget /\ bg' = IF pc = "copying" THEN dst ELSE None
    /\ abandoned' = abandoned \cup retries \cup fresh
    /\ UNCHANGED <<cache, recorded, queue, disk, kept, lost>>

BackgroundCopyEnds ==
    /\ bg # None /\ bg' = None
    /\ \/ live' = [live EXCEPT ![bg].whole = TRUE]
       \/ "copy" \in Faults /\ UNCHANGED live
    /\ UNCHANGED <<cache, recorded, listed, ring, queue, work, archive, parked, row, kept, lost, abandoned>>

\* A fresh worker: an empty ring, the process-wide queue, and the R1 sweep.
Spawn ==
    /\ pc = "down" /\ pc' = "idle" /\ Sweep
    /\ UNCHANGED <<recorded, listed, ring, queue, retries, fresh, drop, cur, dst, bg, disk, kept, lost, abandoned>>

\* The process dies, or the power: then files nobody fsynced may be gone too.
Unsynced(n) == Taken(n) /\ ~live[n].synced

Crash ==
    /\ "crash" \in Faults /\ Forget /\ queue' = {} /\ bg' = None
    /\ cache' = IF CacheSurvives THEN cache ELSE [k \in Starts |-> None]
    /\ \/ /\ UNCHANGED live
          /\ abandoned' = abandoned \cup queue \cup retries \cup fresh
       \/ /\ "power" \in Faults
          /\ live' = [n \in Names |-> IF Unsynced(n) THEN None ELSE live[n]]
          /\ abandoned' = abandoned \cup queue \cup retries \cup fresh
                          \cup {live[n].seg : n \in {m \in Names : Unsynced(m)}}
    /\ UNCHANGED <<recorded, archive, parked, row, kept, lost>>

-----------------------------------------------------------------------------
(* Other tasks on the same files.                                              *)

\* Mutant: no in-flight gate.
NeverInFlight(n) == FALSE

\* Mutant: the gate never opens for some files, as with a future mtime in issue #84.
ForeverInFlight(n) == n = dst \/ n = bg \/ (Taken(n) /\ ~live[n].synced)

\* mtime_in_flight: the orphan pass leaves alone what was written a moment ago.
InFlight(n) == n = dst \/ n = bg

\* Reconcile adopts a file no row references, and never touches an existing row.
Adopt(k) ==
    /\ Taken(<<k, 0>>) /\ ~InFlight(<<k, 0>>) /\ row[k] = None
    /\ Insert(<<k, 0>>, "reconcile", TRUE)
    /\ UNCHANGED <<cache, recorded, listed, ring, queue, work, bg, live, archive, parked, kept, lost, abandoned>>

Referenced(n) == row[n[1]] # None /\ row[n[1]].at = "live" /\ row[n[1]].name = n

\* A -rN name does not parse: unless a row references it, it is moved aside.
Quarantine(n) ==
    /\ Collided(n) /\ Taken(n) /\ ~InFlight(n) /\ ~Referenced(n)
    /\ live' = [live EXCEPT ![n] = None]
    /\ parked' = IF live[n].whole THEN parked \cup {live[n].seg} ELSE parked
    /\ UNCHANGED <<cache, recorded, listed, ring, queue, work, bg, archive, row, kept, lost, abandoned>>

\* The archiver, as one step: the file moves and its row follows.
MoveToArchive(k) ==
    /\ "archive" \in Faults /\ row[k] # None /\ row[k].at = "live"
    /\ LET n == row[k].name IN
       /\ Taken(n) /\ ~InFlight(n) /\ archive[n] = None
       /\ archive' = [archive EXCEPT ![n] = [live[n] EXCEPT !.synced = TRUE]]
       /\ live' = [live EXCEPT ![n] = None]
       /\ row' = [row EXCEPT ![k].at = "archive"]
    /\ UNCHANGED <<cache, recorded, listed, ring, queue, work, bg, parked, kept, lost, abandoned>>

PersistStep ==
    \/ \E s \in Segments : ReportVanished(s) \/ BeginCopy(s) \/ Refuse(s)
    \/ FinishCopy \/ FailCopy \/ Index \/ DeleteCached \/ EndFinish

Act ==
    \/ \E s \in Segments : Record(s) \/ Finish(s)
    \/ QuietBoundary
    \/ PersistStep
    \/ Reconnect \/ Stop \/ Abort \/ BackgroundCopyEnds \/ Spawn \/ Crash
    \/ \E k \in Starts : Adopt(k) \/ MoveToArchive(k)
    \/ \E n \in Names : Quarantine(n)

Next == Act /\ UNCHANGED setting

Spec == Init /\ [][Next]_vars

\* A stopped worker is respawned and a finish call runs to its end; a queued
\* segment is due again within the 5 min cap, so some later boundary takes it; a
\* storage that keeps being retried is writable again at last.
Retried(s) == s \in queue /\ (QuietBoundary \/ \E t \in Segments : Finish(t)) /\ s \in retries'
FinishCopyOf(s) == cur = s /\ FinishCopy

Fairness ==
    /\ WF_state(Spawn) /\ WF_state(PersistStep)
    /\ \A s \in Segments : SF_state(Retried(s)) /\ SF_state(FinishCopyOf(s))
    /\ \A k \in Starts : WF_state(Adopt(k))

FairSpec == Spec /\ Fairness

-----------------------------------------------------------------------------
(* Properties.                                                                 *)

TypeOK ==
    /\ setting \in Settings
    /\ cache \in [Starts -> Segments \cup {None}]
    /\ recorded \subseteq Segments /\ listed \subseteq recorded
    /\ ring \subseteq recorded /\ queue \subseteq kept
    /\ retries \subseteq kept /\ fresh \subseteq kept /\ drop \subseteq recorded
    /\ kept \subseteq recorded /\ lost \subseteq kept
    /\ abandoned \subseteq recorded /\ parked \subseteq recorded
    /\ pc \in Steps /\ cur \in Segments \cup {None}
    /\ dst \in Names \cup {None} /\ bg \in Names \cup {None}
    /\ live \in [Names -> File \cup {None}] /\ archive \in [Names -> File \cup {None}]
    /\ row \in [Starts -> Row \cup {None}]

Whole(files, s) == \E n \in Names : files[n] # None /\ files[n].whole /\ files[n].seg = s
Stored(s) == Whole(live, s) \/ Whole(archive, s) \/ s \in parked

\* Somebody will still copy it: the queue or the finish call that is running.
Owned(s) == cache[StartOf[s]] = s /\ s \in queue \cup retries \cup fresh

\* Item 20 of RECORDER-CORRECTNESS.md: a segment with a keep verdict is whole in
\* storage, or in the cache under the care of somebody who retries it, or its
\* loss was reported; no failed copy, reconnect, respawn or sweep comes between.
\* Only an aborted task, or a process that dies, may leave it in nobody's hands, and
\* ffmpeg may truncate a name the cache still holds.
KeptIsSafe ==
    "overwrite" \notin Faults => \A s \in kept \ abandoned : Stored(s) \/ Owned(s) \/ s \in lost

\* Only failures that stop some time: no worker is cut short.
Passing == Faults \subseteq {"copy", "index", "sync"}

\* Item 17: where only failures pass, whoever follows a row, reconcile's own adoptions
\* included, finds a whole segment.
RowsShowWholeSegments ==
    Passing => \A k \in Starts : row[k] # None =>
        LET files == IF row[k].at = "live" THEN live ELSE archive IN
        files[row[k].name] # None => files[row[k].name].whole

\* The bytes before the row: whatever crash or power loss comes, the file behind
\* a row the recording task committed is there, whole and fsynced.
CommittedRowsAreDurable ==
    \A k \in Starts : row[k] # None /\ row[k].by = "worker" /\ row[k].at = "live" =>
        LET f == live[row[k].name] IN f # None /\ f.whole /\ f.synced

\* Whoever follows a row finds the footage it stands for.
RowsAreGood == RowsShowWholeSegments /\ CommittedRowsAreDurable

\* Issue #144: whole footage in storage is never overwritten, truncated or removed
\* by a persist, a clean-up, a quarantine or an archive move; only a power loss may take it.
StoredStays == Crash \/ \A s \in Segments : Stored(s) => Stored(s)'

\* The segment somebody sees by following the row of a start time.
Shown(k) == IF row[k] = None THEN None
            ELSE LET f == (IF row[k].at = "live" THEN live ELSE archive)[row[k].name]
                 IN IF f = None THEN None ELSE f.seg

\* Issue #144, DECISIONS.md 2026-07-14: existing indexed footage always wins. Once
\* a row shows a segment it never shows another one.
RowsStay == \A k \in Starts : Shown(k) # None => Shown(k)' \in {Shown(k), None}

\* Neither the files of stored footage nor its rows are ever taken over.
IndexedFootageWins == [][StoredStays /\ RowsStay]_vars

\* A kept segment ends up in the index where only failures pass.
EventuallyIndexed ==
    Passing => \A s \in Segments : s \in kept ~> \E k \in Starts : Shown(k) = s

FootageStatus == [s \in Segments |-> IF ~Passing \/ s \notin kept THEN "pending"
                                     ELSE IF Stored(s) THEN "stored" ELSE "kept"]

\* The promise of module Footage, its liveness included, made where only failures pass.
F == INSTANCE Footage WITH status <- FootageStatus
FootageSpec == F!Spec

\* Where only failures pass, a kept segment reaches storage, its row reaches the index, and
\* neither leaves it again (finish_persist, flush_pending_index, the retry queue).
KeptEndsIndexed == FootageSpec /\ EventuallyIndexed
=============================================================================
