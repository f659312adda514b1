---------------------------- MODULE StorageMoves ----------------------------
(* Two tasks of the recorder move footage between storages (archive.rs): the     *)
(* scheduler, which archives and expires segments one after the other, and the   *)
(* "Change storage" drain, which copies a batch with no lock, flips its rows in  *)
(* one statement under ARCHIVE_GUARD and then deletes files, again with no lock. *)
(* The API starts, cancels and retries the drain's job; the process may end and  *)
(* the power may fail anywhere.                                                  *)
(*                                                                               *)
(* A segment keeps its relative path wherever it goes, so it has one file per    *)
(* directory.  Storages are rows: two of them may lead to the same directory.    *)
EXTENDS Naturals, FiniteSets

CONSTANTS
    Segs,                      \* segments, a smaller number is older
    Archived, Dangling,        \* ... archived at first; without a file at first
    Jobs,                      \* pairs: the directory of each storage, the storage to drain
    Batch,                     \* MIGRATION_BATCH
    DirSyncFails,              \* may fsync_dir fail?
    StatusUnread,              \* may the job's status be unreadable?
    MaxOrders, MaxRestarts     \* bounds: API calls, ends of the process

Storages == {"live", "archive", "target"}

ASSUME MovesAssumption ==
    /\ IsFiniteSet(Segs) /\ Segs \subseteq Nat /\ Archived \subseteq Segs /\ Dangling \subseteq Segs
    /\ \A j \in Jobs : j \in [Storages -> {j[1][st] : st \in Storages}] \X {"live", "archive"}
    /\ Batch \in Nat \ {0} /\ DirSyncFails \in BOOLEAN /\ StatusUnread \in BOOLEAN
    /\ MaxOrders \in Nat /\ MaxRestarts \in Nat

VARIABLES
    dir, from,         \* where each storage leads; the storage being drained
    files,             \* directory, segment -> what its file holds
    place, stage,      \* the segments table: storage_id (or "none": no row), stage
    listed,            \* the scheduler's listing: segment -> the storage it was on
    dest,              \* the archive storage of the scheduler's run
    aseg, astep,       \* the segment the scheduler is working on, and how far it is
    status,            \* storage_migrations.status, "none" before the job exists
    dstep,             \* where the drain is
    todo, copying, copied, inPlace,    \* segments of the batch, by what was done to them
    flipped, failed, skipped,          \* rows flipped; did a copy fail; missing files
    orders, restarts,
    doomed,            \* history: chosen by retention, or without a file at first
    late               \* history: batches flipped since the job was cancelled

layout == <<dir, from>>
rows == <<place, stage>>
scheduler == <<listed, dest, aseg, astep>>
batch == <<todo, copying, copied, inPlace, flipped, failed, skipped>>
drain == <<dstep, batch>>
bounds == <<orders, restarts>>
vars == <<layout, files, rows, scheduler, status, drain, bounds, doomed, late>>

Contents == {"none", "partial", "volatile", "durable"}
Whole == {"volatile", "durable"}
Dirs == {dir[st] : st \in Storages}

TypeOK ==
    /\ <<dir, from>> \in Jobs
    /\ files \in [Dirs -> [Segs -> Contents]]
    /\ place \in [Segs -> Storages \cup {"none"}] /\ stage \in [Segs -> {"live", "archive"}]
    /\ DOMAIN listed \subseteq Segs /\ \A s \in DOMAIN listed : listed[s] \in Storages
    /\ dest \in {"archive", "target"}
    /\ aseg \in Segs \X Storages
    /\ astep \in {"rest", "copy", "flip", "inplace", "unlink", "expire"}
    /\ status \in {"none", "pending", "running", "done", "failed", "cancelled"}
    /\ dstep \in {"idle", "top", "copy", "flip", "clean", "end", "bail"}
    /\ todo \cup copying \cup copied \subseteq Segs
    /\ todo \cap copied = {} /\ copying \cap (todo \cup copied) = {}
    /\ inPlace \cup flipped \subseteq Segs
    /\ dstep \notin {"copy", "flip", "clean"} => todo \cup copying \cup copied = {}
    /\ failed \in BOOLEAN /\ skipped \subseteq Segs
    /\ orders \in 0..MaxOrders /\ restarts \in 0..MaxRestarts
    /\ doomed \subseteq Segs /\ late \in Nat

\* The batch begins with the segments of S, and nothing done.
Begin(S) ==
    /\ todo' = S /\ copying' = {} /\ copied' = {} /\ inPlace' = {} /\ flipped' = {}
    /\ failed' = FALSE /\ skipped' = {}

File(st, s) == files[dir[st]][s]
SetFile(st, s, c) == files' = [files EXCEPT ![dir[st]][s] = c]

\* remove_file, which may fail.
Remove(st, s) == SetFile(st, s, "none") \/ UNCHANGED files

\* Both paths exist and lead to one inode (same_file).
SameFile(a, b, s) == dir[a] = dir[b] /\ File(a, s) # "none"

Init ==
    /\ \E j \in Jobs : dir = j[1] /\ from = j[2]
    /\ stage = [s \in Segs |-> IF s \in Archived THEN "archive" ELSE "live"]
    /\ place = stage
    /\ files = [d \in Dirs |-> [s \in Segs |->
                  IF d = dir[place[s]] /\ s \notin Dangling THEN "durable" ELSE "none"]]
    /\ listed = [s \in {} |-> "live"] /\ dest = "archive" /\ aseg \in Segs \X {"live"} /\ astep = "rest"
    /\ status = "none" /\ dstep = "idle"
    /\ todo = {} /\ copying = {} /\ copied = {} /\ inPlace = {} /\ flipped = {}
    /\ failed = FALSE /\ skipped = {}
    /\ orders = 0 /\ restarts = 0 /\ doomed = Dangling /\ late = 0

(***************************************************************************)
(* The scheduler.  It holds ARCHIVE_GUARD while it moves a segment.          *)
(***************************************************************************)
GuardFree == astep \in {"rest", "expire"}

\* A run reads its policy and lists the live rows, with the storage each is on now.  A
\* policy whose archive storage was changed archives to the target from then on.
ListLive ==
    /\ astep = "rest"
    /\ listed' = [s \in {s \in Segs : place[s] # "none" /\ stage[s] = "live"} |-> place[s]]
    /\ dest' = IF from = "archive" /\ status # "none" THEN "target" ELSE "archive"
    /\ UNCHANGED <<layout, files, rows, aseg, astep, status, drain, bounds, doomed, late>>

Take(s) ==
    /\ astep = "rest" /\ s \in DOMAIN listed
    /\ aseg' = <<s, listed[s]>>
    /\ listed' = [t \in DOMAIN listed \ {s} |-> listed[t]]
    /\ UNCHANGED dest

\* move_segment_to_archive: the file is there already, or the copy opens its source and
\* truncates its destination, or cannot open its source and removes its destination.
MoveBegin(s) ==
    /\ Take(s)
    /\ IF SameFile(listed[s], dest, s) THEN astep' = "inplace" /\ UNCHANGED files
       ELSE IF File(listed[s], s) = "none" THEN astep' = "rest" /\ SetFile(dest, s, "none")
       ELSE astep' = "copy" /\ SetFile(dest, s, "partial")
    /\ UNCHANGED <<layout, rows, status, drain, bounds, doomed, late>>

\* The copy is verified by size and checksum and made durable, file and directory.
MoveCopied ==
    /\ astep = "copy"
    /\ IF File(dest, aseg[1]) = "none" \/ File(aseg[2], aseg[1]) = "partial"
       THEN SetFile(dest, aseg[1], "none") /\ astep' = "rest"
       ELSE SetFile(dest, aseg[1], "durable") /\ astep' = "flip"
    /\ UNCHANGED <<layout, rows, listed, dest, aseg, status, drain, bounds, doomed, late>>

\* The copy or its verification fails, or the fsync does and leaves the copy, or the
\* update of the row.
MoveFails ==
    /\ astep \in {"copy", "flip", "inplace"} /\ astep' = "rest"
    /\ IF astep # "copy" THEN UNCHANGED files
       ELSE \/ Remove(dest, aseg[1])
            \/ File(dest, aseg[1]) # "none" /\ SetFile(dest, aseg[1], "volatile")
    /\ UNCHANGED <<layout, rows, listed, dest, aseg, status, drain, bounds, doomed, late>>

\* update_segment_archive updates the row by id, wherever it points by now.
MoveRow ==
    /\ astep \in {"flip", "inplace"}
    /\ IF place[aseg[1]] = "none" \/ (astep = "inplace" /\ File(dest, aseg[1]) = "none")
       THEN astep' = "rest" /\ UNCHANGED rows
       ELSE /\ place' = [place EXCEPT ![aseg[1]] = dest]
            /\ stage' = [stage EXCEPT ![aseg[1]] = "archive"]
            /\ astep' = IF astep = "flip" THEN "unlink" ELSE "rest"
    /\ UNCHANGED <<layout, files, listed, dest, aseg, status, drain, bounds, doomed, late>>

\* The source, where the listing has it, goes last.
RemoveSource ==
    /\ astep = "unlink" /\ astep' = "rest" /\ Remove(aseg[2], aseg[1])
    /\ UNCHANGED <<layout, rows, listed, dest, aseg, status, drain, bounds, doomed, late>>

\* Retention removes the file where the listing says it is, then the row; a file that is
\* not there may count as dangling or may not (delete_segment_file_then_row).
ExpireFile(s) ==
    /\ Take(s) /\ doomed' = doomed \cup {s}
    /\ SetFile(listed[s], s, "none")
    /\ \/ astep' = "expire"
       \/ File(listed[s], s) = "none" /\ astep' = "rest"
    /\ UNCHANGED <<layout, rows, status, drain, bounds, late>>

ExpireRow ==
    /\ astep = "expire" /\ astep' = "rest"
    /\ place' = [place EXCEPT ![aseg[1]] = "none"]
    /\ UNCHANGED <<layout, files, stage, listed, dest, aseg, status, drain, bounds, doomed, late>>

(***************************************************************************)
(* The job: the API's requests, and the worker that claims it.               *)
(***************************************************************************)
\* Requests of an operator, at most MaxOrders of them.
Order == orders < MaxOrders /\ orders' = orders + 1

\* change_policy_storage repoints the policy and enqueues the drain.
Enqueue ==
    /\ status = "none" /\ status' = "pending"
    /\ UNCHANGED <<layout, files, rows, scheduler, drain, bounds, doomed, late>>

\* A request that finds another status is refused (cancel_migration, retry_migration).
Cancel ==
    /\ Order /\ status \in {"running", "pending"} /\ status' = "cancelled" /\ late' = 0
    /\ UNCHANGED <<layout, files, rows, scheduler, drain, restarts, doomed>>

Retry ==
    /\ Order /\ status \in {"failed", "cancelled", "running"} /\ status' = "pending"
    /\ UNCHANGED <<layout, files, rows, scheduler, drain, restarts, doomed, late>>

\* claim_pending_migration: the worker runs one job at a time.
Claim ==
    /\ dstep = "idle" /\ status = "pending"
    /\ status' = "running" /\ dstep' = "top"
    /\ UNCHANGED <<layout, files, rows, scheduler, batch, bounds, doomed, late>>

\* An idle worker takes a running job for its dead predecessor's (reset_stale_migrations).
ResetStale ==
    /\ dstep = "idle" /\ status = "running" /\ status' = "pending"
    /\ UNCHANGED <<layout, files, rows, scheduler, drain, bounds, doomed, late>>

\* A drain that ran to its end is done, unless its status was changed meanwhile.
Finish ==
    /\ dstep = "end" /\ dstep' = "idle"
    /\ status' = IF status = "running" THEN "done" ELSE status
    /\ UNCHANGED <<layout, files, rows, scheduler, batch, bounds, doomed, late>>

\* A drain that gave up has failed, whatever its status was (set_migration_status).
Bail ==
    /\ dstep = "bail" /\ dstep' = "idle" /\ status' = "failed"
    /\ UNCHANGED <<layout, files, rows, scheduler, batch, bounds, doomed, late>>

(***************************************************************************)
(* One batch of the drain (run_storage_migration).                           *)
(***************************************************************************)
OnSource == {s \in Segs : place[s] = from}
Oldest(S) == {s \in S : Cardinality({t \in S : t < s}) < Batch}

\* Mutant: the status is read once, when the job is claimed.
NextBatchUnread ==
    /\ dstep = "top" /\ Begin(Oldest(OnSource))
    /\ dstep' = IF OnSource = {} THEN "end" ELSE "copy"
    /\ UNCHANGED <<layout, files, rows, scheduler, status, bounds, doomed, late>>

\* The status is read again before every batch, and taken for "running" if it cannot be; a
\* destination that is not confirmed fails the job.
NextBatch ==
    /\ dstep = "top"
    /\ \/ (status # "running" \/ OnSource = {}) /\ dstep' = "end" /\ UNCHANGED batch
       \/ /\ (status = "running" \/ StatusUnread) /\ OnSource # {}
          /\ \/ dstep' = "copy" /\ Begin(Oldest(OnSource))
             \/ dstep' = "bail" /\ UNCHANGED batch
    /\ UNCHANGED <<layout, files, rows, scheduler, status, bounds, doomed, late>>

\* Mutant: the copy is not kept away from a file that is its own source.
CopyOntoItself(s) ==
    /\ dstep = "copy" /\ s \in todo /\ todo' = todo \ {s}
    /\ IF File(from, s) = "none" THEN skipped' = skipped \cup {s} /\ UNCHANGED <<files, copying>>
       ELSE SetFile("target", s, "partial") /\ copying' = copying \cup {s} /\ UNCHANGED skipped
    /\ UNCHANGED <<layout, rows, scheduler, status, dstep, copied, inPlace, flipped, failed, bounds, doomed, late>>

\* A missing source is skipped, a file that is its own destination needs no copy, and any
\* other is copied over whatever the destination holds (copy_segment_for_migration).
CopyBegin(s) ==
    /\ dstep = "copy" /\ s \in todo /\ todo' = todo \ {s}
    /\ \/ /\ File(from, s) = "none" /\ skipped' = skipped \cup {s}
          /\ UNCHANGED <<files, copying, copied, inPlace>>
       \/ /\ SameFile(from, "target", s)
          /\ copied' = copied \cup {s} /\ inPlace' = inPlace \cup {s}
          /\ UNCHANGED <<files, copying, skipped>>
       \/ /\ File(from, s) # "none" /\ ~SameFile(from, "target", s)
          /\ SetFile("target", s, "partial") /\ copying' = copying \cup {s}
          /\ UNCHANGED <<copied, inPlace, skipped>>
    /\ UNCHANGED <<layout, rows, scheduler, status, dstep, flipped, failed, bounds, doomed, late>>

\* The file's size is verified and its bytes made durable, not yet its name.
CopyDone(s) ==
    /\ dstep = "copy" /\ s \in copying /\ copying' = copying \ {s}
    /\ File("target", s) # "none" /\ File(from, s) # "partial"
    /\ SetFile("target", s, "volatile") /\ copied' = copied \cup {s}
    /\ UNCHANGED <<layout, rows, scheduler, status, dstep, todo, inPlace, flipped, failed, skipped, bounds, doomed, late>>

\* Whatever fails, the copy goes and the source stays.
CopyFails(s) ==
    /\ dstep = "copy" /\ s \in copying /\ copying' = copying \ {s}
    /\ Remove("target", s) /\ failed' = TRUE
    /\ UNCHANGED <<layout, rows, scheduler, status, dstep, todo, copied, inPlace, flipped, skipped, bounds, doomed, late>>

\* fsync_dir, once for the whole batch; a failure is logged.
SyncDirs ==
    /\ dstep = "copy" /\ todo = {} /\ copying = {} /\ dstep' = "flip"
    /\ \/ files' = [files EXCEPT ![dir["target"]] = [s \in Segs |->
                      IF s \in copied /\ @[s] = "volatile" THEN "durable" ELSE @[s]]]
       \/ DirSyncFails /\ UNCHANGED files
    /\ UNCHANGED <<layout, rows, scheduler, status, batch, bounds, doomed, late>>

\* bulk_update_segment_storage under ARCHIVE_GUARD: only rows still on the source.
Flip ==
    /\ dstep = "flip" /\ GuardFree /\ dstep' = "clean"
    /\ flipped' = copied \cap OnSource
    /\ place' = [s \in Segs |-> IF s \in flipped' THEN "target" ELSE place[s]]
    /\ late' = IF status = "cancelled" THEN late + 1 ELSE late
    /\ UNCHANGED <<layout, files, stage, scheduler, status, todo, copying, copied, inPlace, failed, skipped, bounds, doomed>>

\* Mutant: a flip that fails is logged, and the next batch begins with this one's copies.
FlipFailsOn ==
    /\ dstep = "flip" /\ dstep' = "top"
    /\ UNCHANGED <<layout, files, rows, scheduler, status, batch, bounds, doomed, late>>

\* A flip that fails ends the drain; its copies stay.
FlipFails ==
    /\ dstep = "flip" /\ dstep' = "bail" /\ Begin({})
    /\ UNCHANGED <<layout, files, rows, scheduler, status, bounds, doomed, late>>

\* A flipped row's source goes; a copy whose row was not flipped goes; a file that is
\* both stays.
Clean(s) ==
    /\ dstep = "clean" /\ s \in copied /\ copied' = copied \ {s}
    /\ IF s \in inPlace THEN UNCHANGED files
       ELSE Remove(IF s \in flipped THEN from ELSE "target", s)
    /\ UNCHANGED <<layout, rows, scheduler, status, dstep, todo, copying, inPlace, flipped, failed, skipped, bounds, doomed, late>>

\* Mutant: a batch that moves nothing is tried again.
EndBatchAgain ==
    /\ dstep = "clean" /\ copied = {} /\ Begin({}) /\ dstep' = "top"
    /\ UNCHANGED <<layout, files, rows, scheduler, status, bounds, doomed, late>>

\* Mutant: a batch that moves nothing ends the drain.
EndBatchDone ==
    /\ dstep = "clean" /\ copied = {} /\ Begin({})
    /\ dstep' = IF flipped = {} THEN "end" ELSE "top"
    /\ UNCHANGED <<layout, files, rows, scheduler, status, bounds, doomed, late>>

\* A batch that moved something is followed by another one, unless its progress could not
\* be recorded; one that met only missing files ends the drain, any other fails it.
EndBatch ==
    /\ dstep = "clean" /\ copied = {} /\ Begin({})
    /\ IF flipped # {} THEN dstep' \in {"top", "bail"}
       ELSE dstep' = IF ~failed /\ skipped # {} THEN "end" ELSE "bail"
    /\ UNCHANGED <<layout, files, rows, scheduler, status, bounds, doomed, late>>

(***************************************************************************)
(* The process, or the drain's task alone, ends anywhere.                    *)
(***************************************************************************)
\* The watchdog respawns the worker after a panic.
DrainDies ==
    /\ dstep # "idle" /\ restarts < MaxRestarts /\ restarts' = restarts + 1
    /\ dstep' = "idle" /\ Begin({})
    /\ UNCHANGED <<layout, files, rows, scheduler, status, orders, doomed, late>>

\* A power loss takes every file that is not durable with it.
Restart ==
    /\ restarts < MaxRestarts /\ restarts' = restarts + 1
    /\ dstep' = "idle" /\ Begin({})
    /\ listed' = [s \in {} |-> "live"] /\ astep' = "rest" /\ UNCHANGED <<dest, aseg>>
    /\ \/ UNCHANGED files
       \/ files' = [d \in Dirs |-> [s \in Segs |->
                      IF files[d][s] = "durable" THEN "durable" ELSE "none"]]
    /\ UNCHANGED <<layout, rows, status, orders, doomed, late>>

Next ==
    \/ ListLive \/ (\E s \in Segs : MoveBegin(s) \/ ExpireFile(s))
    \/ MoveCopied \/ MoveFails \/ MoveRow \/ RemoveSource \/ ExpireRow
    \/ Enqueue \/ Cancel \/ Retry \/ Claim \/ ResetStale \/ Finish \/ Bail
    \/ NextBatch \/ (\E s \in Segs : CopyBegin(s) \/ CopyDone(s) \/ CopyFails(s) \/ Clean(s))
    \/ SyncDirs \/ Flip \/ FlipFails \/ EndBatch
    \/ DrainDies \/ Restart

Spec == Init /\ [][Next]_vars

\* The worker runs until it is stopped.  The guard is a fair lock, and the scheduler holds
\* it for one move at a time.
DrainStep ==
    \/ Claim \/ ResetStale \/ Finish \/ Bail \/ NextBatch \/ SyncDirs \/ EndBatch
    \/ \E s \in Segs : CopyBegin(s) \/ CopyDone(s) \/ CopyFails(s) \/ Clean(s)

MoveStep == MoveCopied \/ MoveFails \/ MoveRow \/ RemoveSource

FairSpec == Spec /\ WF_vars(DrainStep) /\ WF_vars(MoveStep) /\ SF_vars(Flip)

(***************************************************************************)
(* Properties.                                                              *)
(***************************************************************************)
\* No interleaving of the archiver, the drain and an end of the process leaves a row
\* without its footage (archive.rs: durable destination, row, then delete the source).
RowsHaveFootage ==
    \A s \in Segs \ doomed : place[s] # "none" /\ File(place[s], s) \in Whole

\* The copy of a row that was not flipped is removed because it is a duplicate: whoever
\* moved the row has the footage elsewhere (run_storage_migration, cleanup).
RemovedCopyIsDuplicate ==
    [][\A s \in copied \ (copied' \cup flipped \cup inPlace \cup doomed) :
         dstep = "clean" => \E st \in Storages : File(st, s)' \in Whole]_vars

\* After a cancel the drain flips at most the batch it has in hand, as long as it can read
\* the job's status (run_storage_migration reads it again before every batch).
CancelStops == late <= 1

\* When the drain of the live storage reports that it is done, every row left there has
\* lost its file (run_storage_migration: all movable footage is on the target).  An archive
\* that is drained may still be sent segments listed before the change.
DoneMeansDrained ==
    [][status # "done" /\ status' = "done" /\ from = "live"
       => \A s \in Segs : place[s] = from => File(from, s) = "none"]_vars

\* A drain always comes to an end, even if no segment of a batch can be moved.
DrainEnds == status = "running" ~> status # "running"
=============================================================================
