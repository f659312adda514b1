---------------------------- MODULE Storage_proofs ----------------------------
(***************************************************************************)
(* What holds of the archiver, retention and the drain together, for every   *)
(* set of segments, every batch size and every number of requests and ends   *)
(* of the process; of the archive schedule, for every set of schedules and   *)
(* however the clock and the settings change; and of the walk over the       *)
(* files, however often the others interfere.                                *)
(***************************************************************************)
EXTENDS MCStorage, FiniteSetTheorems, WellFoundedInduction, TLAPS


-----------------------------------------------------------------------------
(* The layout and a write to a file. *)

\* A job leads every storage to a directory and drains the live or the archive storage.
LEMMA LayoutType ==
    ASSUME <<dir, from>> \in Jobs
    PROVE  /\ dir \in [Storages -> Dirs] /\ from \in {"live", "archive"}
           /\ \A st \in Storages : dir[st] \in Dirs
<1>1. <<dir, from>> \in [Storages -> {dir[st] : st \in Storages}] \X {"live", "archive"}
    BY MovesAssumption
<1> QED BY <1>1 DEF Dirs

\* A write changes one file of one directory: that of every storage that leads there.
LEMMA SetFileEffect ==
    ASSUME TypeOK, NEW st \in Storages, NEW s \in Segs, NEW c \in Contents, SetFile(st, s, c)
    PROVE  /\ files' \in [Dirs -> [Segs -> Contents]]
           /\ \A u \in Storages, t \in Segs :
                files'[dir[u]][t] = IF dir[u] = dir[st] /\ t = s THEN c ELSE File(u, t)
<1>1. \A u \in Storages : dir[u] \in Dirs
    BY LayoutType DEF TypeOK
<1>2. files \in [Dirs -> [Segs -> Contents]]
    BY DEF TypeOK
<1> QED BY <1>1, <1>2 DEF SetFile, File

\* Removing a file does that or nothing.
LEMMA RemoveEffect ==
    ASSUME TypeOK, NEW st \in Storages, NEW s \in Segs, Remove(st, s)
    PROVE  /\ files' \in [Dirs -> [Segs -> Contents]]
           /\ \A u \in Storages, t \in Segs :
                \/ files'[dir[u]][t] = File(u, t)
                \/ files'[dir[u]][t] = "none" /\ dir[u] = dir[st] /\ t = s
<1>1. CASE SetFile(st, s, "none")
    BY <1>1, SetFileEffect DEF Contents
<1>2. CASE UNCHANGED files
    BY <1>2 DEF File, TypeOK
<1> QED BY <1>1, <1>2 DEF Remove

-----------------------------------------------------------------------------
(* Type correctness. *)

\* TypeOK, part by part: what the scheduler's steps and the drain's steps share.
FilesTyped == files \in [Dirs -> [Segs -> Contents]]
SchedulerTyped ==
    /\ DOMAIN listed \subseteq Segs /\ \A s \in DOMAIN listed : listed[s] \in Storages
    /\ dest \in {"archive", "target"} /\ aseg \in Segs \X Storages
    /\ astep \in {"rest", "copy", "flip", "inplace", "unlink", "expire"}
RowsTyped == place \in [Segs -> Storages \cup {"none"}] /\ stage \in [Segs -> {"live", "archive"}]
BatchTyped ==
    /\ dstep \in {"idle", "top", "copy", "flip", "clean", "end", "bail"}
    /\ todo \cup copying \cup copied \subseteq Segs
    /\ todo \cap copied = {} /\ copying \cap (todo \cup copied) = {}
    /\ inPlace \cup flipped \subseteq Segs
    /\ dstep \notin {"copy", "flip", "clean"} => todo \cup copying \cup copied = {}
    /\ failed \in BOOLEAN /\ skipped \subseteq Segs
JobTyped ==
    /\ status \in {"none", "pending", "running", "done", "failed", "cancelled"}
    /\ orders \in 0..MaxOrders /\ restarts \in 0..MaxRestarts
    /\ doomed \subseteq Segs /\ late \in Nat

\* The parts make up TypeOK.
LEMMA TypeParts ==
    TypeOK <=> /\ <<dir, from>> \in Jobs
               /\ FilesTyped /\ RowsTyped /\ SchedulerTyped /\ BatchTyped /\ JobTyped
BY DEF TypeOK, FilesTyped, RowsTyped, SchedulerTyped, BatchTyped, JobTyped

\* ... and so they do in the next state.
LEMMA TypePartsNext ==
    ASSUME <<dir, from>>' \in Jobs,
           FilesTyped', RowsTyped', SchedulerTyped', BatchTyped', JobTyped'
    PROVE  TypeOK'
BY DEF TypeOK, FilesTyped, RowsTyped, SchedulerTyped, BatchTyped, JobTyped

\* The first state is well typed.
LEMMA InitType == Init => TypeOK
<1> SUFFICES ASSUME Init PROVE TypeOK
    OBVIOUS
<1>1. <<dir, from>> \in Jobs
  <2>1. PICK j \in Jobs : dir = j[1] /\ from = j[2]
      BY DEF Init
  <2>2. j \in [Storages -> {j[1][st] : st \in Storages}] \X {"live", "archive"}
      BY MovesAssumption
  <2>3. j = <<j[1], j[2]>>
      BY <2>2
  <2> QED BY <2>1, <2>3
<1>2. RowsTyped
    BY DEF Init, RowsTyped, Storages
<1>3. FilesTyped
    BY DEF Init, FilesTyped, Contents
<1>4. SchedulerTyped
    BY DEF Init, SchedulerTyped, Storages
<1>5. BatchTyped
    BY DEF Init, BatchTyped
<1>6. JobTyped
    BY MovesAssumption DEF Init, JobTyped
<1> QED BY <1>1, <1>2, <1>3, <1>4, <1>5, <1>6, TypeParts

\* Taking a segment from the listing keeps the scheduler's state well typed, and the
\* segment has a storage in the listing.
LEMMA TakeType ==
    ASSUME TypeOK, NEW s \in Segs, Take(s)
    PROVE  /\ DOMAIN listed' \subseteq Segs /\ \A t \in DOMAIN listed' : listed'[t] \in Storages
           /\ dest' \in {"archive", "target"} /\ aseg' \in Segs \X Storages
           /\ listed[s] \in Storages /\ dest \in Storages
BY DEF TypeOK, Take, Storages

\* Every step of the scheduler is well typed.
LEMMA SchedulerType ==
    ASSUME TypeOK,
           \/ ListLive \/ (\E s \in Segs : MoveBegin(s) \/ ExpireFile(s))
           \/ MoveCopied \/ MoveFails \/ MoveRow \/ RemoveSource \/ ExpireRow
    PROVE  TypeOK'
<1> USE DEF layout, rows, scheduler, batch, drain, bounds
<1>1. <<dir, from>>' \in Jobs /\ Dirs' = Dirs
    BY DEF TypeOK, Dirs, ListLive, MoveBegin, ExpireFile, MoveCopied, MoveFails, MoveRow, RemoveSource, ExpireRow
<1>2. FilesTyped /\ RowsTyped /\ SchedulerTyped /\ BatchTyped /\ JobTyped
    BY TypeParts
<1>3. dest \in Storages /\ aseg[1] \in Segs /\ aseg[2] \in Storages
    BY <1>2 DEF SchedulerTyped, Storages
<1>4. BatchTyped'
    BY <1>2 DEF BatchTyped, ListLive, MoveBegin, ExpireFile, MoveCopied, MoveFails, MoveRow, RemoveSource, ExpireRow
<1>5. JobTyped'
    BY <1>2 DEF JobTyped, ListLive, MoveBegin, ExpireFile, MoveCopied, MoveFails, MoveRow, RemoveSource, ExpireRow
<1>6. RowsTyped'
    BY <1>2, <1>3 DEF RowsTyped, ListLive, MoveBegin, ExpireFile, MoveCopied, MoveFails, MoveRow, RemoveSource, ExpireRow
<1>7. SchedulerTyped'
  <2>1. CASE ListLive
      BY <1>2, <2>1 DEF ListLive, SchedulerTyped, RowsTyped
  <2>2. CASE \E s \in Segs : MoveBegin(s)
      BY <2>2, TakeType DEF MoveBegin, SchedulerTyped
  <2>3. CASE \E s \in Segs : ExpireFile(s)
      BY <2>3, TakeType DEF ExpireFile, SchedulerTyped
  <2>4. CASE MoveCopied \/ MoveFails \/ MoveRow \/ RemoveSource \/ ExpireRow
      BY <1>2, <2>4 DEF SchedulerTyped, MoveCopied, MoveFails, MoveRow, RemoveSource, ExpireRow
  <2> QED BY <2>1, <2>2, <2>3, <2>4
<1>8. FilesTyped'
  <2>1. CASE ListLive \/ MoveRow \/ ExpireRow
      BY <1>1, <1>2, <2>1 DEF FilesTyped, ListLive, MoveRow, ExpireRow
  <2>2. CASE \E s \in Segs : MoveBegin(s)
      BY <1>1, <1>2, <2>2, TakeType, SetFileEffect DEF FilesTyped, MoveBegin, Contents
  <2>3. CASE \E s \in Segs : ExpireFile(s)
      BY <1>1, <2>3, TakeType, SetFileEffect DEF FilesTyped, ExpireFile, Contents
  <2>4. CASE MoveCopied
      BY <1>1, <1>3, <2>4, SetFileEffect DEF FilesTyped, MoveCopied, Contents
  <2>5. CASE MoveFails
      BY <1>1, <1>2, <1>3, <2>5, SetFileEffect, RemoveEffect DEF FilesTyped, MoveFails, Contents
  <2>6. CASE RemoveSource
      BY <1>1, <1>3, <2>6, RemoveEffect DEF FilesTyped, RemoveSource
  <2> QED BY <2>1, <2>2, <2>3, <2>4, <2>5, <2>6
<1> QED BY <1>1, <1>4, <1>5, <1>6, <1>7, <1>8, TypePartsNext

\* Every step of the job is well typed.
LEMMA JobType ==
    ASSUME TypeOK,
           Enqueue \/ Cancel \/ Retry \/ Claim \/ ResetStale \/ Finish \/ Bail \/ NextBatch
           \/ FlipFails \/ EndBatch \/ DrainDies
    PROVE  TypeOK'
<1> USE DEF layout, rows, scheduler, batch, drain, bounds
<1>1. /\ UNCHANGED <<dir, from, files, place, stage, listed, dest, aseg, astep, doomed>>
      /\ Dirs' = Dirs
    BY DEF Dirs, Enqueue, Order, Cancel, Retry, Claim, ResetStale, Finish, Bail, NextBatch, FlipFails, EndBatch, DrainDies
<1>2. FilesTyped /\ RowsTyped /\ SchedulerTyped /\ BatchTyped /\ JobTyped /\ <<dir, from>> \in Jobs
    BY TypeParts
<1>3. FilesTyped' /\ RowsTyped' /\ SchedulerTyped'
    BY <1>1, <1>2 DEF FilesTyped, RowsTyped, SchedulerTyped
<1>4. BatchTyped'
  <2>1. Oldest(OnSource) \subseteq Segs
      BY DEF Oldest, OnSource
  <2>2. CASE Enqueue \/ Cancel \/ Retry \/ Claim \/ ResetStale \/ Finish \/ Bail
      BY <1>2, <2>2 DEF BatchTyped, Enqueue, Cancel, Retry, Claim, ResetStale, Finish, Bail
  <2>3. CASE NextBatch
      BY <1>2, <2>1, <2>3 DEF BatchTyped, NextBatch, Begin
  <2>4. CASE FlipFails \/ EndBatch \/ DrainDies
      BY <2>4 DEF BatchTyped, FlipFails, EndBatch, DrainDies, Begin
  <2> QED BY <2>2, <2>3, <2>4
<1>5. JobTyped'
  <2>1. orders \in 0..MaxOrders /\ restarts \in 0..MaxRestarts /\ MaxOrders \in Nat /\ MaxRestarts \in Nat
      BY <1>2, MovesAssumption DEF JobTyped
  <2>2. orders' \in 0..MaxOrders
      BY <2>1 DEF Enqueue, Order, Cancel, Retry, Claim, ResetStale, Finish, Bail, NextBatch, FlipFails, EndBatch, DrainDies
  <2>3. restarts' \in 0..MaxRestarts
      BY <2>1 DEF Enqueue, Cancel, Retry, Claim, ResetStale, Finish, Bail, NextBatch, FlipFails, EndBatch, DrainDies
  <2>4. /\ status' \in {"none", "pending", "running", "done", "failed", "cancelled"} /\ late' \in Nat
        /\ doomed' \subseteq Segs
      BY <1>2 DEF JobTyped, Enqueue, Cancel, Retry, Claim, ResetStale, Finish, Bail, NextBatch, FlipFails, EndBatch, DrainDies
  <2> QED BY <2>2, <2>3, <2>4 DEF JobTyped
<1> QED BY <1>1, <1>2, <1>3, <1>4, <1>5, TypePartsNext

\* Every step on the segments of a batch, and an end of the process, is well typed.
LEMMA BatchType ==
    ASSUME TypeOK,
           \/ \E s \in Segs : CopyBegin(s) \/ CopyDone(s) \/ CopyFails(s) \/ Clean(s)
           \/ SyncDirs \/ Flip \/ Restart
    PROVE  TypeOK'
<1> USE DEF layout, rows, scheduler, batch, drain, bounds
<1>1. UNCHANGED <<dir, from, stage>> /\ Dirs' = Dirs
    BY DEF Dirs, CopyBegin, CopyDone, CopyFails, Clean, SyncDirs, Flip, Restart
<1>2. FilesTyped /\ RowsTyped /\ SchedulerTyped /\ BatchTyped /\ JobTyped /\ <<dir, from>> \in Jobs
    BY TypeParts
<1>3. from \in Storages /\ "target" \in Storages /\ dir["target"] \in Dirs
    BY <1>2, LayoutType DEF Storages
<1>4. FilesTyped'
  <2>1. CASE \E s \in Segs : CopyBegin(s)
      BY <1>1, <1>2, <1>3, <2>1, SetFileEffect DEF FilesTyped, CopyBegin, Contents
  <2>2. CASE \E s \in Segs : CopyDone(s)
      BY <1>1, <1>3, <2>2, SetFileEffect DEF FilesTyped, CopyDone, Contents
  <2>3. CASE \E s \in Segs : CopyFails(s)
      BY <1>1, <1>3, <2>3, RemoveEffect DEF FilesTyped, CopyFails
  <2>4. CASE \E s \in Segs : Clean(s)
      BY <1>1, <1>2, <1>3, <2>4, RemoveEffect DEF FilesTyped, Clean
  <2>5. CASE SyncDirs
    <3>1. files[dir["target"]] \in [Segs -> Contents]
        BY <1>2, <1>3 DEF FilesTyped
    <3>2. [s \in Segs |-> IF s \in copied /\ files[dir["target"]][s] = "volatile"
                          THEN "durable" ELSE files[dir["target"]][s]] \in [Segs -> Contents]
        BY <3>1 DEF Contents
    <3> QED BY <1>1, <1>2, <2>5, <3>2 DEF FilesTyped, SyncDirs
  <2>6. CASE Flip
      BY <1>1, <1>2, <2>6 DEF FilesTyped, Flip
  <2>7. CASE Restart
      BY <1>1, <1>2, <2>7 DEF FilesTyped, Restart, Contents
  <2> QED BY <2>1, <2>2, <2>3, <2>4, <2>5, <2>6, <2>7
<1>5. RowsTyped'
    BY <1>1, <1>2, <1>3 DEF RowsTyped, CopyBegin, CopyDone, CopyFails, Clean, SyncDirs, Flip, Restart
<1>6. SchedulerTyped'
    BY <1>2 DEF SchedulerTyped, CopyBegin, CopyDone, CopyFails, Clean, SyncDirs, Flip, Restart
<1>7. BatchTyped'
  <2>1. CASE \E s \in Segs : CopyBegin(s)
      BY <1>2, <2>1 DEF BatchTyped, CopyBegin
  <2>2. CASE \E s \in Segs : CopyDone(s) \/ CopyFails(s) \/ Clean(s)
      BY <1>2, <2>2 DEF BatchTyped, CopyDone, CopyFails, Clean
  <2>3. CASE SyncDirs \/ Flip \/ Restart
      BY <1>2, <2>3 DEF BatchTyped, SyncDirs, Flip, Restart, Begin
  <2> QED BY <2>1, <2>2, <2>3
<1>8. JobTyped'
  <2>1. restarts \in 0..MaxRestarts /\ MaxRestarts \in Nat
      BY <1>2, MovesAssumption DEF JobTyped
  <2> QED BY <1>2, <2>1 DEF JobTyped, CopyBegin, CopyDone, CopyFails, Clean, SyncDirs, Flip, Restart
<1> QED BY <1>1, <1>2, <1>4, <1>5, <1>6, <1>7, <1>8, TypePartsNext

\* Every step is well typed.
LEMMA NextType == TypeOK /\ [Next]_vars => TypeOK'
<1> SUFFICES ASSUME TypeOK, [Next]_vars PROVE TypeOK'
    OBVIOUS
<1>1. CASE UNCHANGED vars
    BY <1>1 DEF vars, layout, rows, scheduler, batch, drain, bounds, TypeOK, Dirs
<1>2. CASE Next
    BY <1>2, SchedulerType, JobType, BatchType DEF Next
<1> QED BY <1>1, <1>2

\* The tasks, the API and the ends of the process keep every variable well typed; the
\* typing that a mutant can break is the batch's: nothing is in it between two batches.
THEOREM TypeCorrect == Spec => []TypeOK
<1>1. Init => TypeOK
    BY InitType
<1>2. TypeOK /\ [Next]_vars => TypeOK'
    BY NextType
<1> QED BY <1>1, <1>2, PTL DEF Spec

-----------------------------------------------------------------------------
(* The inductive invariant. *)

\* The layouts in which moves are safe: the archive has a directory to itself, and when it
\* is the archive that is drained all three storages have.
SafeLayouts ==
    \A j \in Jobs : /\ j[1]["archive"] \notin {j[1]["live"], j[1]["target"]}
                    /\ j[2] = "archive" => j[1]["live"] # j[1]["target"]

\* Where a segment that is still to be archived may be.
Source(st) == st = "live" \/ (from = "live" /\ st = "target")

\* The scheduler has listed s and not yet flipped its row.
Moving(s) == s \in DOMAIN listed \/ (astep \in {"copy", "flip"} /\ aseg[1] = s)

\* s is in the drain's batch.
Working(s) == s \in todo \cup copying \cup copied

Durable(st, s) == File(st, s) = "durable"

\* Every row has durable footage: stronger than RowsHaveFootage, since a power loss may
\* follow.
Footed == \A s \in Segs \ doomed : place[s] \in Storages /\ Durable(place[s], s)

\* A segment the scheduler has in hand is still at a source, and no source is where the
\* scheduler moves it.
SchedulerInv ==
    /\ dest = "target" => from = "archive"
    /\ \A s \in Segs : stage[s] = "live" => place[s] = "none" \/ Source(place[s])
    /\ \A s \in DOMAIN listed : Source(listed[s])
    /\ Source(aseg[2])
    /\ astep # "rest" => aseg[1] \notin DOMAIN listed
    /\ astep # "inplace"
    /\ astep = "expire" => aseg[1] \in doomed
    /\ astep = "unlink" => place[aseg[1]] = dest
    /\ \A s \in Segs \ doomed : Moving(s) => Source(place[s])
    /\ astep = "flip" /\ aseg[1] \notin doomed => Durable(dest, aseg[1])

\* Only a file that is not its own destination is copied, or cleaned up.
BatchInv ==
    /\ copying # {} => dir[from] # dir["target"]
    /\ dir[from] = dir["target"] => copied \subseteq inPlace

\* What the drain may rely on while it holds s: nobody but itself moves a row to the
\* target, a copy under a row still on the source is whole, then durable, and what the
\* clean-up removes is not where the row is.
Reserved(s) ==
    /\ Working(s) /\ from = "archive" => place[s] # "live"
    /\ Working(s) /\ dstep \in {"copy", "flip"} => place[s] # "target"
    /\ s \in copied /\ dstep = "copy" /\ place[s] = from => File("target", s) \in Whole
    /\ s \in copied /\ dstep = "flip" /\ place[s] = from => Durable("target", s)
    /\ s \in copied /\ dstep = "clean" => place[s] # from
    /\ s \in copied \ flipped /\ dstep = "clean" => place[s] # "target"

DrainInv == \A s \in Segs \ doomed : Reserved(s)

Inv == TypeOK /\ Footed /\ SchedulerInv /\ BatchInv /\ DrainInv

\* In a safe layout the archive's directory is no other storage's, and a drained archive
\* leaves three directories apart.
LEMMA Layouts ==
    ASSUME SafeLayouts, TypeOK
    PROVE  /\ dir["archive"] # dir["live"] /\ dir["archive"] # dir["target"]
           /\ from = "archive" => dir["live"] # dir["target"]
           /\ from \in {"live", "archive"}
<1>1. <<dir, from>> \in Jobs
    BY DEF TypeOK
<1>2. <<dir, from>>[1] = dir /\ <<dir, from>>[2] = from
    OBVIOUS
<1> QED BY <1>1, <1>2, LayoutType DEF SafeLayouts

\* A source of the scheduler is not its destination, neither in name nor in directory; and
\* where its destination is the target, the archive is drained and the source is "live".
LEMMA SourceIsNotDest ==
    ASSUME SafeLayouts, TypeOK, SchedulerInv, NEW st, Source(st)
    PROVE  /\ st \in Storages /\ dest \in Storages /\ dir[st] # dir[dest]
           /\ dir[dest] = dir["target"] => from = "archive" /\ st = "live"
           /\ dest = from => st = "live" /\ from = "archive"
<1>1. dest \in {"archive", "target"} /\ (dest = "target" => from = "archive")
    BY DEF TypeOK, SchedulerInv
<1> QED BY <1>1, Layouts DEF Source, Storages

\* The first state satisfies the invariant: all footage is durable, nothing is in hand.
LEMMA InitInv == ASSUME SafeLayouts PROVE Init => Inv
<1> SUFFICES ASSUME Init PROVE Inv
    OBVIOUS
<1>1. TypeOK
    BY InitType
<1>2. Footed
  <2>1. \A s \in Segs : place[s] \in Storages /\ dir[place[s]] \in Dirs
      BY DEF Init, Storages, Dirs
  <2> QED BY <2>1 DEF Init, Footed, Durable, File
<1>3. SchedulerInv
    BY DEF Init, SchedulerInv, Source, Moving
<1>4. BatchInv /\ DrainInv
    BY DEF Init, BatchInv, DrainInv, Reserved, Working
<1> QED BY <1>1, <1>2, <1>3, <1>4 DEF Inv

-----------------------------------------------------------------------------
(* The scheduler keeps it. *)

\* While the scheduler has s in hand it may write or remove the file of s at its destination
\* without harm: no row of s is there, and the drain does not hold s if that is the target.
LEMMA DestIsFree ==
    ASSUME SafeLayouts, Inv, NEW s \in Segs \ doomed, Source(place[s])
    PROVE  /\ dir[place[s]] # dir[dest]
           /\ dir[dest] = dir["target"] => ~Working(s)
           /\ dest \in {from, "target"} => ~Working(s)
           /\ dest = "live" => ~Working(s)
<1>1. from = "archive" /\ place[s] = "live" => ~Working(s)
    BY DEF Inv, DrainInv, Reserved
<1> QED BY <1>1, SourceIsNotDest DEF Inv, TypeOK

\* A write to the scheduler's destination: the footage and the drain's copies are as before.
LEMMA WriteDest ==
    ASSUME SafeLayouts, Inv, NEW s \in Segs, s \notin doomed => Source(place[s]),
           UNCHANGED <<dir, from, place, dstep, todo, copying, copied, flipped, inPlace, doomed>>,
           \A u \in Storages, t \in Segs :
              files'[dir[u]][t] = File(u, t) \/ (dir[u] = dir[dest] /\ t = s)
    PROVE  Footed' /\ BatchInv' /\ DrainInv'
<1>1. Footed'
  <2> SUFFICES ASSUME NEW t \in Segs \ doomed
               PROVE  place[t] \in Storages /\ files'[dir[place[t]]][t] = "durable"
      BY DEF Footed, Durable, File
  <2>1. place[t] \in Storages /\ File(place[t], t) = "durable"
      BY DEF Inv, Footed, Durable
  <2>2. t = s => dir[place[t]] # dir[dest]
      BY DestIsFree
  <2> QED BY <2>1, <2>2
<1>2. BatchInv'
    BY DEF Inv, BatchInv
<1>3. DrainInv'
  <2> SUFFICES ASSUME NEW t \in Segs \ doomed PROVE Reserved(t)'
      BY DEF DrainInv
  <2>1. Reserved(t)
      BY DEF Inv, DrainInv
  <2>2. Working(t) => files'[dir["target"]][t] = File("target", t)
      BY DestIsFree DEF Storages
  <2> QED BY <2>1, <2>2 DEF Reserved, Working, Durable, File
<1> QED BY <1>1, <1>2, <1>3

\* A listing lists live rows where they are.
LEMMA ListLiveInv == ASSUME SafeLayouts, Inv, ListLive PROVE Inv'
<1> USE DEF Inv, ListLive, layout, rows, drain, batch, bounds
<1>1. TypeOK'
    BY SchedulerType
<1>2. Footed' /\ BatchInv' /\ DrainInv'
    BY DEF Footed, Durable, File, BatchInv, DrainInv, Reserved, Working
<1>3. SchedulerInv'
    BY DEF SchedulerInv, Source, Moving, Durable, File
<1> QED BY <1>1, <1>2, <1>3

\* Taking a listed segment keeps what holds of the listing.
LEMMA TakeInv ==
    ASSUME SafeLayouts, Inv, NEW s \in Segs, Take(s), UNCHANGED from
    PROVE  /\ astep = "rest" /\ Source(listed[s]) /\ listed[s] \in Storages /\ dest \in Storages
           /\ s \notin doomed => Source(place[s])
           /\ \A t \in DOMAIN listed' : t \in DOMAIN listed /\ t # s /\ Source(listed[t])'
           /\ aseg'[1] = s /\ Source(aseg[2])' /\ s \notin DOMAIN listed'
<1>1. astep = "rest" /\ s \in DOMAIN listed /\ Source(listed[s])
    BY DEF Inv, SchedulerInv, Take
<1>2. listed[s] \in Storages /\ dest \in Storages
    BY TakeType DEF Inv
<1>3. s \notin doomed => Source(place[s])
    BY <1>1 DEF Inv, SchedulerInv, Moving
<1>4. \A t \in DOMAIN listed' : t \in DOMAIN listed /\ t # s /\ listed'[t] = listed[t]
    BY DEF Take
<1>5. \A t \in DOMAIN listed' : Source(listed[t])'
    BY <1>4 DEF Inv, SchedulerInv, Source
<1>6. aseg' = <<s, listed[s]>> /\ s \notin DOMAIN listed'
    BY DEF Take
<1> QED BY <1>1, <1>2, <1>3, <1>4, <1>5, <1>6 DEF Source

\* Beginning a move writes to its destination only.
LEMMA MoveBeginInv == ASSUME SafeLayouts, Inv, NEW s \in Segs, MoveBegin(s) PROVE Inv'
<1> USE DEF layout, rows, drain, batch, bounds
<1>1. TypeOK'
    BY SchedulerType DEF Inv
<1>2. /\ UNCHANGED <<dir, from, place, stage, dstep, todo, copying, copied, flipped, inPlace, doomed, dest>>
      /\ Take(s) /\ astep' \in {"rest", "copy", "inplace"}
    BY DEF MoveBegin, Take
<1>3. dir[listed[s]] # dir[dest] /\ Source(listed[s]) /\ (s \notin doomed => Source(place[s]))
    BY <1>2, TakeInv, SourceIsNotDest DEF Inv
<1>4. \A u \in Storages, t \in Segs :
         files'[dir[u]][t] = File(u, t) \/ (dir[u] = dir[dest] /\ t = s)
    BY <1>2, <1>3, TakeInv, SetFileEffect DEF Inv, MoveBegin, SameFile, Contents
<1>5. Footed' /\ BatchInv' /\ DrainInv'
    BY <1>2, <1>3, <1>4, WriteDest
<1>6. astep' # "inplace"
    BY <1>3 DEF MoveBegin, SameFile
<1>7. SchedulerInv'
  <2>1. \A t \in Segs \ doomed : Moving(t)' => Source(place[t])'
      BY <1>2, <1>3, TakeInv DEF Inv, SchedulerInv, Moving, Source
  <2>2. \A t \in Segs : stage'[t] = "live" => place'[t] = "none" \/ Source(place[t])'
      BY <1>2 DEF Inv, SchedulerInv, Source
  <2>3. /\ \A t \in DOMAIN listed' : Source(listed[t])'
        /\ Source(aseg[2])' /\ aseg'[1] \notin DOMAIN listed'
      BY <1>2, TakeInv
  <2> QED BY <1>2, <1>6, <2>1, <2>2, <2>3 DEF Inv, SchedulerInv
<1> QED BY <1>1, <1>5, <1>7 DEF Inv

\* A copy that is made or abandoned is at its destination; one that is made is durable.
LEMMA MoveCopyInv == ASSUME SafeLayouts, Inv, MoveCopied \/ MoveFails PROVE Inv'
<1> USE DEF layout, rows, drain, batch, bounds
<1>1. TypeOK'
    BY SchedulerType DEF Inv
<1>2. PICK s \in Segs : s = aseg[1]
    BY DEF Inv, TypeOK
<1>3. /\ UNCHANGED <<dir, from, place, stage, dstep, todo, copying, copied, flipped, inPlace, doomed,
                     listed, dest, aseg>>
      /\ astep \in {"copy", "flip"} /\ astep' \in {"rest", "flip"}
    BY DEF Inv, SchedulerInv, MoveCopied, MoveFails
<1>4. s \notin doomed => Source(place[s])
    BY <1>2, <1>3 DEF Inv, SchedulerInv, Moving
<1>5. dest \in Storages
    BY DEF Inv, TypeOK, Storages
<1>6. \A u \in Storages, t \in Segs :
         files'[dir[u]][t] = File(u, t) \/ (dir[u] = dir[dest] /\ t = s)
  <2>1. CASE UNCHANGED files
      BY <2>1 DEF File
  <2>2. CASE Remove(dest, s)
      BY <1>5, <2>2, RemoveEffect DEF Inv
  <2>3. CASE \E c \in Contents : SetFile(dest, s, c)
      BY <1>5, <2>3, SetFileEffect DEF Inv
  <2> QED BY <1>2, <2>1, <2>2, <2>3 DEF MoveCopied, MoveFails, Contents
<1>7. Footed' /\ BatchInv' /\ DrainInv'
    BY <1>3, <1>4, <1>6, WriteDest
<1>8. astep' = "flip" => files'[dir[dest]][s] = "durable"
    BY <1>2, <1>5, SetFileEffect DEF Inv, MoveCopied, MoveFails, Contents
<1>9. SchedulerInv'
    BY <1>2, <1>3, <1>8 DEF Inv, SchedulerInv, Moving, Source, Durable, File
<1> QED BY <1>1, <1>7, <1>9 DEF Inv

\* The row moves to a durable copy; a segment the drain holds it does not move to the target.
LEMMA MoveRowInv == ASSUME SafeLayouts, Inv, MoveRow PROVE Inv'
<1> USE DEF layout, rows, drain, batch, bounds
<1>1. TypeOK'
    BY SchedulerType DEF Inv
<1>2. PICK s \in Segs : s = aseg[1]
    BY DEF Inv, TypeOK
<1>3. /\ UNCHANGED <<dir, from, files, dstep, todo, copying, copied, flipped, inPlace, doomed,
                     listed, dest, aseg>>
      /\ astep = "flip" /\ astep' \in {"rest", "unlink"}
    BY DEF Inv, SchedulerInv, MoveRow
<1>4. \/ UNCHANGED <<place, stage>> /\ astep' = "rest"
      \/ /\ place' = [place EXCEPT ![s] = dest] /\ stage' = [stage EXCEPT ![s] = "archive"]
         /\ astep' = "unlink"
    BY <1>2, <1>3 DEF MoveRow
<1>5. s \notin doomed => Source(place[s]) /\ Durable(dest, s)
    BY <1>2, <1>3 DEF Inv, SchedulerInv, Moving
<1>6. dest \in Storages /\ place \in [Segs -> Storages \cup {"none"}] /\ stage \in [Segs -> {"live", "archive"}]
    BY DEF Inv, TypeOK, Storages
<1>7. Footed'
    BY <1>3, <1>4, <1>5, <1>6 DEF Inv, Footed, Durable, File
<1>8. BatchInv'
    BY <1>3 DEF Inv, BatchInv
<1>9. SchedulerInv'
    BY <1>2, <1>3, <1>4, <1>6 DEF Inv, SchedulerInv, Moving, Source
<1>10. DrainInv'
  <2> SUFFICES ASSUME NEW t \in Segs \ doomed PROVE Reserved(t)'
      BY <1>3 DEF DrainInv
  <2>1. Reserved(t)
      BY DEF Inv, DrainInv
  <2>2. CASE place'[t] = place[t]
      BY <1>3, <2>1, <2>2 DEF Reserved, Working, Durable, File
  <2>3. CASE place'[t] # place[t]
    <3>1. t = s /\ place'[t] = dest
        BY <1>4, <1>6, <2>3
    <3>2. dest \in {from, "target", "live"} => ~Working(t)
        BY <1>5, <3>1, DestIsFree
    <3> QED BY <1>3, <3>1, <3>2 DEF Reserved, Working
  <2> QED BY <2>2, <2>3
<1> QED BY <1>1, <1>7, <1>8, <1>9, <1>10 DEF Inv

\* The source goes after the row moved: it is not where the row is, and no copy of the drain
\* that still counts is there.
LEMMA RemoveSourceInv == ASSUME SafeLayouts, Inv, RemoveSource PROVE Inv'
<1> USE DEF layout, rows, drain, batch, bounds
<1>1. TypeOK'
    BY SchedulerType DEF Inv
<1>2. PICK s \in Segs : s = aseg[1]
    BY DEF Inv, TypeOK
<1>3. /\ UNCHANGED <<dir, from, place, stage, dstep, todo, copying, copied, flipped, inPlace, doomed,
                     listed, dest, aseg>>
      /\ astep = "unlink" /\ astep' = "rest" /\ Remove(aseg[2], s)
    BY <1>2 DEF RemoveSource
<1>4. place[s] = dest /\ Source(aseg[2]) /\ aseg[2] \in Storages
    BY <1>2, <1>3 DEF Inv, SchedulerInv, TypeOK
<1>5. \A u \in Storages, t \in Segs :
         files'[dir[u]][t] = File(u, t) \/ (dir[u] = dir[aseg[2]] /\ t = s)
    BY <1>3, <1>4, RemoveEffect DEF Inv
<1>6. Footed'
  <2> SUFFICES ASSUME NEW t \in Segs \ doomed
               PROVE  place[t] \in Storages /\ files'[dir[place[t]]][t] = "durable"
      BY <1>3 DEF Footed, Durable, File
  <2>1. place[t] \in Storages /\ File(place[t], t) = "durable"
      BY DEF Inv, Footed, Durable
  <2>2. t = s => dir[place[t]] # dir[aseg[2]]
      BY <1>4, SourceIsNotDest DEF Inv
  <2> QED BY <1>5, <2>1, <2>2
<1>7. BatchInv'
    BY <1>3 DEF Inv, BatchInv
<1>8. SchedulerInv'
    BY <1>3 DEF Inv, SchedulerInv, Moving, Source
<1>9. DrainInv'
  <2> SUFFICES ASSUME NEW t \in Segs \ doomed PROVE Reserved(t)'
      BY <1>3 DEF DrainInv
  <2>1. Reserved(t)
      BY DEF Inv, DrainInv
  <2>2. t = s /\ place[t] = from => dir["target"] # dir[aseg[2]]
      BY <1>4, SourceIsNotDest, Layouts DEF Inv
  <2>3. place[t] = from => files'[dir["target"]][t] = File("target", t)
      BY <1>5, <2>2 DEF Storages
  <2> QED BY <1>3, <2>1, <2>3 DEF Reserved, Working, Durable, File
<1> QED BY <1>1, <1>6, <1>7, <1>8, <1>9 DEF Inv

\* Retention touches the segments it chose, which from then on owe no footage.
LEMMA ExpireInv ==
    ASSUME SafeLayouts, Inv, (\E s \in Segs : ExpireFile(s)) \/ ExpireRow
    PROVE  Inv'
<1> USE DEF layout, rows, drain, batch, bounds
<1>1. TypeOK'
    BY SchedulerType DEF Inv
<1>2. /\ UNCHANGED <<dir, from, stage, dstep, todo, copying, copied, flipped, inPlace, dest>>
      /\ doomed \subseteq doomed' /\ astep' \in {"rest", "expire"}
    BY DEF ExpireFile, ExpireRow, Take
<1>3. \A t \in Segs \ doomed' : /\ place'[t] = place[t]
                                /\ \A u \in Storages : files'[dir[u]][t] = File(u, t)
  <2>1. CASE ExpireRow
      BY <2>1 DEF Inv, TypeOK, SchedulerInv, ExpireRow, File
  <2>2. CASE \E s \in Segs : ExpireFile(s)
    <3>1. PICK s \in Segs : ExpireFile(s)
        BY <2>2
    <3>2. listed[s] \in Storages /\ SetFile(listed[s], s, "none") /\ s \in doomed' /\ UNCHANGED place
        BY <3>1, TakeType DEF Inv, ExpireFile
    <3> QED BY <3>2, SetFileEffect DEF Inv, Contents
  <2> QED BY <2>1, <2>2
<1>4. Footed'
    BY <1>2, <1>3 DEF Inv, Footed, Durable, File
<1>5. BatchInv'
    BY <1>2 DEF Inv, BatchInv
<1>6. DrainInv'
  <2> SUFFICES ASSUME NEW t \in Segs \ doomed' PROVE Reserved(t)'
      BY DEF DrainInv
  <2>1. Reserved(t)
      BY <1>2 DEF Inv, DrainInv
  <2>2. place'[t] = place[t] /\ files'[dir["target"]][t] = File("target", t)
      BY <1>3 DEF Storages
  <2> QED BY <1>2, <2>1, <2>2 DEF Reserved, Working, Durable, File
<1>7. SchedulerInv'
  <2>1. CASE ExpireRow
      BY <1>2, <2>1 DEF Inv, TypeOK, SchedulerInv, ExpireRow, Moving, Source
  <2>2. CASE \E s \in Segs : ExpireFile(s)
    <3>1. PICK s \in Segs : ExpireFile(s)
        BY <2>2
    <3>2. /\ Take(s) /\ UNCHANGED place /\ aseg'[1] = s /\ s \in doomed' /\ s \notin DOMAIN listed'
          /\ \A t \in DOMAIN listed' : t \in DOMAIN listed /\ Source(listed[t])'
          /\ Source(aseg[2])'
        BY <1>2, <3>1, TakeInv DEF ExpireFile
    <3>3. \A t \in Segs \ doomed' : Moving(t)' => Source(place[t])'
        BY <1>2, <3>2 DEF Inv, SchedulerInv, Moving, Source
    <3>4. \A t \in Segs : stage'[t] = "live" => place'[t] = "none" \/ Source(place[t])'
        BY <1>2, <3>2 DEF Inv, SchedulerInv, Source
    <3> QED BY <1>2, <3>2, <3>3, <3>4 DEF Inv, SchedulerInv
  <2> QED BY <2>1, <2>2
<1> QED BY <1>1, <1>4, <1>5, <1>6, <1>7 DEF Inv

-----------------------------------------------------------------------------
(* The drain and the job keep it. *)

\* What the scheduler relies on is not disturbed by a step that leaves its state, the rows
\* and the file it has just copied alone.
LEMMA SchedulerKeeps ==
    ASSUME Inv, UNCHANGED <<dir, from, place, stage, listed, dest, aseg, astep, doomed>>,
           astep = "flip" /\ aseg[1] \notin doomed /\ Durable(dest, aseg[1]) => Durable(dest, aseg[1])'
    PROVE  SchedulerInv'
BY DEF Inv, SchedulerInv, Moving, Source

\* The steps of the job hand no segment to the drain; a batch begins with segments whose
\* rows are on the source.
LEMMA JobInv ==
    ASSUME SafeLayouts, Inv,
           Enqueue \/ Cancel \/ Retry \/ Claim \/ ResetStale \/ Finish \/ Bail \/ NextBatch
           \/ FlipFails \/ EndBatch \/ DrainDies
    PROVE  Inv'
<1> USE DEF layout, rows, scheduler, batch, drain, bounds
<1>1. TypeOK'
    BY JobType DEF Inv
<1>2. UNCHANGED <<dir, from, files, place, stage, listed, dest, aseg, astep, doomed>>
    BY DEF Enqueue, Order, Cancel, Retry, Claim, ResetStale, Finish, Bail, NextBatch, FlipFails, EndBatch, DrainDies
<1>3. Footed' /\ SchedulerInv'
    BY <1>2, SchedulerKeeps DEF Inv, Footed, Durable, File
<1>4. CASE UNCHANGED <<dstep, batch>>
    BY <1>1, <1>2, <1>3, <1>4 DEF Inv, BatchInv, DrainInv, Reserved, Working, Durable, File
<1>5. CASE todo' = {} /\ copying' = {} /\ copied' = {}
    BY <1>1, <1>3, <1>5 DEF Inv, BatchInv, DrainInv, Reserved, Working
<1>6. CASE dstep' = "copy" /\ Begin(Oldest(OnSource))
  <2>1. \A s \in Oldest(OnSource) : place[s] = from
      BY DEF Oldest, OnSource
  <2>2. from \notin {"target"} /\ (from = "archive" => from # "live")
      BY Layouts DEF Inv
  <2> QED BY <1>1, <1>2, <1>3, <1>6, <2>1, <2>2 DEF Inv, BatchInv, DrainInv, Reserved, Working, Begin
<1>7. dstep \notin {"copy", "flip", "clean"} => todo = {} /\ copying = {} /\ copied = {}
    BY DEF Inv, TypeOK
<1> QED BY <1>4, <1>5, <1>6, <1>7
        DEF Enqueue, Cancel, Retry, Claim, ResetStale, Finish, Bail, NextBatch, FlipFails, EndBatch, DrainDies, Begin

\* While the drain holds s, what it writes or removes is neither where the row of s is nor
\* what the scheduler has just copied.
LEMMA DrainWrites ==
    ASSUME SafeLayouts, Inv, NEW s \in Segs, Working(s), dir[from] # dir["target"],
           NEW st \in {from, "target"},
           s \notin doomed => place[s] # st,
           UNCHANGED <<dir, from, place, stage, listed, dest, aseg, astep, doomed>>,
           \A u \in Storages, t \in Segs :
              files'[dir[u]][t] = File(u, t) \/ (dir[u] = dir[st] /\ t = s)
    PROVE  Footed' /\ SchedulerInv'
<1>1. s \notin doomed => place[s] \in Storages /\ dir[place[s]] # dir[st]
  <2>1. s \notin doomed => place[s] \in Storages /\ (from = "archive" => place[s] # "live")
      BY DEF Inv, Footed, DrainInv, Reserved
  <2> QED BY <2>1, Layouts DEF Inv, Storages
<1>2. Footed'
  <2> SUFFICES ASSUME NEW t \in Segs \ doomed
               PROVE  place[t] \in Storages /\ files'[dir[place[t]]][t] = "durable"
      BY DEF Footed, Durable, File
  <2>1. place[t] \in Storages /\ File(place[t], t) = "durable"
      BY DEF Inv, Footed, Durable
  <2> QED BY <1>1, <2>1
<1>3. astep = "flip" /\ aseg[1] = s /\ s \notin doomed => dir[dest] # dir[st]
  <2>1. astep = "flip" /\ aseg[1] = s /\ s \notin doomed => Source(place[s])
      BY DEF Inv, SchedulerInv, Moving
  <2>2. from = "archive" /\ s \notin doomed => place[s] # "live"
      BY DEF Inv, DrainInv, Reserved
  <2> QED BY <2>1, <2>2, SourceIsNotDest, Layouts DEF Inv, Source
<1>4. astep = "flip" /\ aseg[1] \notin doomed /\ Durable(dest, aseg[1]) => Durable(dest, aseg[1])'
  <2>1. aseg[1] \in Segs /\ dest \in Storages
      BY DEF Inv, TypeOK, Storages
  <2> QED BY <1>3, <2>1 DEF Durable, File
<1>5. SchedulerInv'
    BY <1>4, SchedulerKeeps
<1> QED BY <1>2, <1>5

\* Copying: a copy over its own source is never begun, and one that ends is whole.
LEMMA CopyInv ==
    ASSUME SafeLayouts, Inv, NEW s \in Segs, CopyBegin(s) \/ CopyDone(s) \/ CopyFails(s)
    PROVE  Inv'
<1> USE DEF layout, rows, scheduler, drain, batch, bounds
<1>1. TypeOK'
    BY BatchType DEF Inv
<1>2. /\ UNCHANGED <<dir, from, place, stage, listed, dest, aseg, astep, doomed, dstep, flipped>>
      /\ dstep = "copy" /\ Working(s)
    BY DEF CopyBegin, CopyDone, CopyFails, Working
<1>3. "target" \in Storages /\ from \in Storages /\ from # "target"
    BY Layouts DEF Inv, Storages
<1>4. /\ todo' \cup copying' \cup copied' \subseteq todo \cup copying \cup copied
      /\ copied' \subseteq copied \cup {s}
    BY <1>2 DEF CopyBegin, CopyDone, CopyFails
<1>5. CASE CopyBegin(s) /\ UNCHANGED <<files, copying, copied>>
    BY <1>1, <1>2, <1>4, <1>5, SchedulerKeeps
       DEF Inv, Footed, BatchInv, DrainInv, Reserved, Working, Durable, File, CopyBegin
<1>6. CASE /\ CopyBegin(s) /\ SameFile(from, "target", s)
           /\ copied' = copied \cup {s} /\ inPlace' = inPlace \cup {s} /\ UNCHANGED <<files, copying>>
  <2>1. Footed' /\ SchedulerInv' /\ BatchInv'
      BY <1>2, <1>6, SchedulerKeeps DEF Inv, Footed, BatchInv, Durable, File
  <2>2. File("target", s) = File(from, s)
      BY <1>6 DEF SameFile, File
  <2>3. DrainInv'
      BY <1>2, <1>4, <1>6, <2>2 DEF Inv, DrainInv, Footed, Reserved, Working, Durable, File, Whole
  <2> QED BY <1>1, <2>1, <2>3 DEF Inv
<1>7. CASE /\ dir[from] # dir["target"]
           /\ Remove("target", s) \/ SetFile("target", s, "partial") \/ SetFile("target", s, "volatile")
           /\ s \in copied' => SetFile("target", s, "volatile")
  <2>1. /\ \A u \in Storages, t \in Segs :
             files'[dir[u]][t] = File(u, t) \/ (dir[u] = dir["target"] /\ t = s)
        /\ s \in copied' => files'[dir["target"]][s] = "volatile"
      BY <1>3, <1>7, SetFileEffect, RemoveEffect DEF Inv, Contents
  <2>2. s \notin doomed => place[s] # "target"
      BY <1>2 DEF Inv, DrainInv, Reserved
  <2>3. Footed' /\ SchedulerInv'
      BY <1>2, <1>7, <2>1, <2>2, DrainWrites
  <2>4. BatchInv'
      BY <1>2, <1>7 DEF BatchInv
  <2>5. DrainInv'
    <3> SUFFICES ASSUME NEW t \in Segs \ doomed PROVE Reserved(t)'
        BY <1>2 DEF DrainInv
    <3>1. Reserved(t)
        BY DEF Inv, DrainInv
    <3>2. t # s => files'[dir["target"]][t] = File("target", t)
        BY <1>3, <2>1
    <3> QED BY <1>2, <1>4, <2>1, <2>2, <3>1, <3>2 DEF Reserved, Working, Durable, File, Whole
  <2> QED BY <1>1, <2>3, <2>4, <2>5 DEF Inv
<1>8. s \in copying => dir[from] # dir["target"]
    BY DEF Inv, BatchInv
<1>9. CopyBegin(s) \/ CopyFails(s) => s \notin copied
    BY DEF CopyBegin, CopyFails, Inv, TypeOK
<1> QED
  <2>1. CASE CopyBegin(s)
    <3>1. File(from, s) # "none" /\ ~SameFile(from, "target", s) => dir[from] # dir["target"]
        BY DEF SameFile
    <3> QED BY <1>5, <1>6, <1>7, <1>9, <2>1, <3>1 DEF CopyBegin
  <2>2. CASE CopyDone(s)
      BY <1>7, <1>8, <2>2 DEF CopyDone
  <2>3. CASE CopyFails(s)
      BY <1>7, <1>8, <1>9, <2>3 DEF CopyFails
  <2> QED BY <2>1, <2>2, <2>3

\* Syncing the target's directory makes the batch's copies durable; it cannot fail here.
LEMMA SyncDirsInv == ASSUME SafeLayouts, ~DirSyncFails, Inv, SyncDirs PROVE Inv'
<1> USE DEF layout, rows, scheduler, drain, batch, bounds
<1>1. TypeOK'
    BY BatchType DEF Inv
<1>2. /\ UNCHANGED <<dir, from, place, stage, listed, dest, aseg, astep, doomed, flipped>>
      /\ UNCHANGED <<todo, copying, copied, inPlace>>
      /\ dstep = "copy" /\ dstep' = "flip" /\ "target" \in Storages
    BY DEF SyncDirs, Storages
<1>3. \A u \in Storages, t \in Segs :
         files'[dir[u]][t] = IF dir[u] = dir["target"] /\ t \in copied /\ File(u, t) = "volatile"
                             THEN "durable" ELSE File(u, t)
  <2>1. files \in [Dirs -> [Segs -> Contents]] /\ \A u \in Storages : dir[u] \in Dirs
      BY LayoutType DEF Inv, TypeOK
  <2>2. files' = [files EXCEPT ![dir["target"]] = [t \in Segs |->
                     IF t \in copied /\ files[dir["target"]][t] = "volatile"
                     THEN "durable" ELSE files[dir["target"]][t]]]
      BY DEF SyncDirs
  <2> QED BY <1>2, <2>1, <2>2 DEF File
<1>4. \A u \in Storages, t \in Segs : Durable(u, t) => Durable(u, t)'
    BY <1>2, <1>3 DEF Durable, File
<1>5. Footed' /\ SchedulerInv' /\ BatchInv'
  <2>1. aseg[1] \in Segs /\ dest \in Storages
      BY DEF Inv, TypeOK, Storages
  <2>2. SchedulerInv'
      BY <1>2, <1>4, <2>1, SchedulerKeeps
  <2> QED BY <1>2, <1>4, <2>2 DEF Inv, Footed, BatchInv, Durable, File
<1>6. DrainInv'
  <2> SUFFICES ASSUME NEW t \in Segs \ doomed PROVE Reserved(t)'
      BY <1>2 DEF DrainInv
  <2>1. Reserved(t)
      BY DEF Inv, DrainInv
  <2>2. t \in copied /\ place[t] = from => files'[dir["target"]][t] = "durable"
      BY <1>2, <1>3, <2>1 DEF Reserved, Whole
  <2> QED BY <1>2, <2>1, <2>2 DEF Reserved, Working, Durable, File
<1> QED BY <1>1, <1>5, <1>6 DEF Inv

\* The flip moves rows from the source to durable copies, while the scheduler has none in
\* hand.
LEMMA FlipInv == ASSUME SafeLayouts, Inv, Flip PROVE Inv'
<1> USE DEF layout, rows, scheduler, drain, batch, bounds
<1>1. TypeOK'
    BY BatchType DEF Inv
<1>2. /\ UNCHANGED <<dir, from, files, stage, listed, dest, aseg, astep, doomed>>
      /\ UNCHANGED <<todo, copying, copied, inPlace>>
      /\ astep \in {"rest", "expire"} /\ dstep = "flip" /\ dstep' = "clean"
      /\ flipped' = {s \in copied : s \in Segs /\ place[s] = from}
      /\ \A s \in Segs : place'[s] = IF s \in flipped' THEN "target" ELSE place[s]
    BY DEF Flip, GuardFree, OnSource
<1>3. from \in {"live", "archive"} /\ "target" \in Storages
    BY Layouts DEF Inv, Storages
<1>4. Footed'
    BY <1>2, <1>3 DEF Inv, Footed, DrainInv, Reserved, Durable, File
<1>5. BatchInv'
    BY <1>2 DEF Inv, BatchInv
<1>6. SchedulerInv'
    BY <1>2, <1>3 DEF Inv, TypeOK, SchedulerInv, Moving, Source
<1>7. DrainInv'
    BY <1>2, <1>3 DEF Inv, DrainInv, Reserved, Working
<1> QED BY <1>1, <1>4, <1>5, <1>6, <1>7 DEF Inv

\* The clean-up removes a file no row is at.
LEMMA CleanInv == ASSUME SafeLayouts, Inv, NEW s \in Segs, Clean(s) PROVE Inv'
<1> USE DEF layout, rows, scheduler, drain, batch, bounds
<1>1. TypeOK'
    BY BatchType DEF Inv
<1>2. /\ UNCHANGED <<dir, from, place, stage, listed, dest, aseg, astep, doomed, dstep, flipped>>
      /\ UNCHANGED <<todo, copying, inPlace>>
      /\ dstep = "clean" /\ s \in copied /\ copied' = copied \ {s}
    BY DEF Clean
<1>3. Footed' /\ SchedulerInv'
  <2>1. CASE UNCHANGED files
      BY <1>2, <2>1, SchedulerKeeps DEF Inv, Footed, Durable, File
  <2>2. CASE s \notin inPlace
    <3> DEFINE st == IF s \in flipped THEN from ELSE "target"
    <3>1. st \in Storages /\ st \in {from, "target"} /\ Remove(st, s)
        BY <2>2, Layouts DEF Inv, Clean, Storages
    <3>2. \A u \in Storages, t \in Segs :
             files'[dir[u]][t] = File(u, t) \/ (dir[u] = dir[st] /\ t = s)
        BY <3>1, RemoveEffect DEF Inv
    <3>3. dir[from] # dir["target"] /\ Working(s)
        BY <1>2, <2>2 DEF Inv, BatchInv, Working
    <3>4. s \notin doomed => place[s] # st
        BY <1>2 DEF Inv, DrainInv, Reserved
    <3> HIDE DEF st
    <3> QED BY <1>2, <3>1, <3>2, <3>3, <3>4, DrainWrites
  <2> QED BY <2>1, <2>2 DEF Clean
<1>4. BatchInv'
    BY <1>2 DEF Inv, BatchInv
<1>5. DrainInv'
    BY <1>2 DEF Inv, DrainInv, Reserved, Working
<1> QED BY <1>1, <1>3, <1>4, <1>5 DEF Inv

\* The process ends with nothing in hand; what is durable survives.
LEMMA RestartInv == ASSUME SafeLayouts, Inv, Restart PROVE Inv'
<1> USE DEF layout, rows, scheduler, drain, batch, bounds
<1>1. TypeOK'
    BY BatchType DEF Inv
<1>2. /\ UNCHANGED <<dir, from, place, stage, dest, aseg, doomed>>
      /\ DOMAIN listed' = {} /\ astep' = "rest" /\ todo' = {} /\ copying' = {} /\ copied' = {}
    BY DEF Restart, Begin
<1>3. \A u \in Storages, t \in Segs : Durable(u, t) => Durable(u, t)'
  <2>1. \A u \in Storages : dir[u] \in Dirs
      BY LayoutType DEF Inv, TypeOK
  <2> QED BY <1>2, <2>1 DEF Restart, Durable, File
<1>4. Footed'
    BY <1>2, <1>3 DEF Inv, Footed
<1>5. SchedulerInv'
    BY <1>2 DEF Inv, SchedulerInv, Moving, Source
<1>6. BatchInv' /\ DrainInv'
    BY <1>2 DEF BatchInv, DrainInv, Reserved, Working
<1> QED BY <1>1, <1>4, <1>5, <1>6 DEF Inv

-----------------------------------------------------------------------------
(* No row without its footage. *)

\* Every step keeps the invariant.
LEMMA NextInv == ASSUME SafeLayouts, ~DirSyncFails PROVE Inv /\ [Next]_vars => Inv'
<1> SUFFICES ASSUME Inv, [Next]_vars PROVE Inv'
    OBVIOUS
<1>1. CASE UNCHANGED vars
    BY <1>1 DEF vars, layout, rows, scheduler, batch, drain, bounds, Inv, TypeOK, Dirs, Footed,
       SchedulerInv, BatchInv, DrainInv, Reserved, Working, Moving, Source, Durable, File
<1>2. CASE Next
    BY <1>2, ListLiveInv, MoveBeginInv, MoveCopyInv, MoveRowInv, RemoveSourceInv, ExpireInv,
       JobInv, CopyInv, SyncDirsInv, FlipInv, CleanInv, RestartInv DEF Next
<1> QED BY <1>1, <1>2

\* In a safe layout, with a directory fsync that does not fail, no interleaving of the
\* archiver, retention, the drain, the API and ends of the process or of the power leaves a
\* row whose segment retention did not choose without whole footage (archive.rs: destination
\* durable, then the row, then the source).
THEOREM RowsKeepFootage ==
    ASSUME SafeLayouts, ~DirSyncFails
    PROVE  Spec => []RowsHaveFootage
<1>1. Init => Inv
    BY InitInv
<1>2. Inv /\ [Next]_vars => Inv'
    BY NextInv
<1>3. Inv => RowsHaveFootage
    BY DEF Inv, Footed, Durable, RowsHaveFootage, Whole, Storages
<1> QED BY <1>1, <1>2, <1>3, PTL DEF Spec

-----------------------------------------------------------------------------
(* A cancel is heeded. *)

\* A drain that is cancelled with a batch in hand has not flipped one since.
CancelInv ==
    /\ late \in {0, 1}
    /\ status = "cancelled" /\ dstep \in {"copy", "flip"} => late = 0

\* Every step keeps that: a batch begins only while the status is "running".
LEMMA NextCancelInv == ASSUME ~StatusUnread PROVE CancelInv /\ [Next]_vars => CancelInv'
<1> SUFFICES ASSUME CancelInv, [Next]_vars PROVE CancelInv'
    OBVIOUS
<1> USE DEF CancelInv, layout, rows, scheduler, drain, batch, bounds
<1>1. CASE UNCHANGED vars
    BY <1>1 DEF vars
<1>2. CASE ListLive \/ (\E s \in Segs : MoveBegin(s) \/ ExpireFile(s))
           \/ MoveCopied \/ MoveFails \/ MoveRow \/ RemoveSource \/ ExpireRow
    BY <1>2 DEF ListLive, MoveBegin, ExpireFile, MoveCopied, MoveFails, MoveRow, RemoveSource, ExpireRow
<1>3. CASE Enqueue \/ Cancel \/ Retry \/ Claim \/ ResetStale \/ Finish \/ Bail
    BY <1>3 DEF Enqueue, Cancel, Retry, Claim, ResetStale, Finish, Bail
<1>4. CASE NextBatch
    BY <1>4 DEF NextBatch
<1>5. CASE \E s \in Segs : CopyBegin(s) \/ CopyDone(s) \/ CopyFails(s) \/ Clean(s)
    BY <1>5 DEF CopyBegin, CopyDone, CopyFails, Clean
<1>6. CASE Flip
    BY <1>6 DEF Flip
<1>7. CASE SyncDirs \/ FlipFails \/ EndBatch \/ DrainDies \/ Restart
    BY <1>7 DEF SyncDirs, FlipFails, EndBatch, DrainDies, Restart
<1> QED BY <1>1, <1>2, <1>3, <1>4, <1>5, <1>6, <1>7 DEF Next

\* As long as the job's status can be read, at most one batch is flipped after a cancel,
\* whatever retries, deaths of the drain and new claims follow it (run_storage_migration
\* reads the status before every batch).
THEOREM CancelIsHeeded ==
    ASSUME ~StatusUnread
    PROVE  Spec => []CancelStops
<1>1. Init => CancelInv
    BY DEF Init, CancelInv
<1>2. CancelInv /\ [Next]_vars => CancelInv'
    BY NextCancelInv
<1>3. CancelInv => CancelStops
    BY DEF CancelInv, CancelStops
<1> QED BY <1>1, <1>2, <1>3, PTL DEF Spec

-----------------------------------------------------------------------------
(* A drain of the live storage that reports that it is done. *)

\* What the drain still has to move, and what it has in hand.
Left(s) == place[s] = "live" /\ File("live", s) # "none"
Hand == todo \cup copying \cup copied

\* A batch of the drain is never lost as a whole: of a full one, some row is still on the
\* source and has its file when it is copied.
SomeMoves == dstep = "flip" => Cardinality(skipped \cup (copied \ OnSource)) < Batch

\* As long as no copy has failed, a batch leaves footage behind only if it is full; one that
\* flipped no row leaves none behind, nor does a drain that is still running at its end.
DrainedInv ==
    /\ dest = "archive"
    /\ copying # {} => dir["live"] # dir["target"]
    /\ dstep = "flip" => todo = {} /\ copying = {}
    /\ dstep \in {"copy", "flip"} /\ ~failed /\ (\E s \in Segs \ Hand : Left(s))
         => Cardinality(Hand \cup skipped) >= Batch
    /\ dstep = "clean" /\ ~failed /\ flipped = {} => \A s \in Segs : ~Left(s)
    /\ dstep = "end" /\ status = "running" => \A s \in Segs : ~Left(s)

\* The oldest segments of a set are Batch of them unless they are all of it.
LEMMA OldestFillBatch ==
    ASSUME NEW S, S \subseteq Segs, S \ Oldest(S) # {}
    PROVE  Cardinality(Oldest(S)) >= Batch
<1> DEFINE O == Oldest(S)
           Below(s) == {t \in S : t < s}
<1>1. Segs \subseteq Nat /\ IsFiniteSet(Segs) /\ Batch \in Nat
    BY MovesAssumption
<1>2. \A s \in S : s \in O <=> Cardinality(Below(s)) < Batch
    BY DEF Oldest
<1>3. O \subseteq S /\ IsFiniteSet(S) /\ IsFiniteSet(O) /\ Cardinality(O) \in Nat
  <2>1. O \subseteq S
      BY DEF Oldest
  <2> HIDE DEF O
  <2> QED BY <1>1, <2>1, FS_Subset, FS_CardinalityType
<1> HIDE DEF O, Below
<1>4. PICK m \in S \ O : \A t \in S \ O : ~(<<t, m>> \in OpToRel(<, Nat))
    <2>1. S \ O \subseteq Nat /\ S \ O # {}
        BY <1>1 DEF O
    <2> QED BY <2>1, NatLessThanWellFounded, WFMin, Zenon
<1>5. \A t \in S \ O : ~(t < m)
    BY <1>1, <1>4 DEF OpToRel
<1>6. Below(m) \subseteq O /\ Below(m) \subseteq S
    BY <1>5 DEF Below
<1>7. Cardinality(Below(m)) \in Nat /\ Cardinality(Below(m)) <= Cardinality(O)
    BY <1>3, <1>6, FS_Subset, FS_CardinalityType
<1>8. ~(Cardinality(Below(m)) < Batch)
    BY <1>2
<1>9. Cardinality(O) >= Batch
    BY <1>1, <1>3, <1>7, <1>8
<1> QED BY <1>9 DEF O

\* The scheduler brings nothing to the live storage.
LEMMA SchedulerLeaves ==
    ASSUME SafeLayouts, TypeOK, from = "live", DrainedInv,
           \/ ListLive \/ (\E s \in Segs : MoveBegin(s) \/ ExpireFile(s))
           \/ MoveCopied \/ MoveFails \/ MoveRow \/ RemoveSource \/ ExpireRow
    PROVE  /\ UNCHANGED <<dir, from, dstep, status, todo, copying, copied, flipped, failed, skipped>>
           /\ dest' = "archive" /\ \A s \in Segs : Left(s)' => Left(s)
<1> USE DEF layout, rows, scheduler, drain, batch, bounds
<1>1. /\ UNCHANGED <<dir, from, dstep, status, todo, copying, copied, flipped, failed, skipped>>
      /\ dest' = "archive"
    BY DEF DrainedInv, ListLive, MoveBegin, ExpireFile, Take, MoveCopied, MoveFails, MoveRow, RemoveSource, ExpireRow
<1>2. /\ dir["archive"] # dir["live"] /\ "live" \in Storages /\ "archive" \in Storages
      /\ dest = "archive" /\ dest \in Storages /\ aseg[1] \in Segs /\ aseg[2] \in Storages
  <2>1. <<dir, from>> \in Jobs
      BY DEF TypeOK
  <2>2. <<dir, from>>[1] = dir
      OBVIOUS
  <2> QED BY <2>1, <2>2 DEF SafeLayouts, DrainedInv, TypeOK, Storages
<1>3. \A s \in Segs : place'[s] = "live" => place[s] = "live"
    BY <1>2 DEF TypeOK, ListLive, MoveBegin, ExpireFile, MoveCopied, MoveFails, MoveRow, RemoveSource, ExpireRow
<1>4. \A s \in Segs : File("live", s) = "none" => files'[dir["live"]][s] = "none"
  <2>1. CASE ListLive \/ MoveRow \/ ExpireRow
      BY <2>1 DEF File, ListLive, MoveRow, ExpireRow
  <2>2. ASSUME NEW s \in Segs, MoveBegin(s) PROVE <1>4
    <3>1. \/ UNCHANGED files
          \/ \E c \in Contents : SetFile(dest, s, c)
        BY <2>2 DEF MoveBegin, Contents
    <3> QED BY <1>2, <3>1, SetFileEffect DEF File
  <2>3. ASSUME NEW s \in Segs, ExpireFile(s) PROVE <1>4
    <3>1. listed[s] \in Storages /\ SetFile(listed[s], s, "none") /\ "none" \in Contents
        BY <2>3, TakeType DEF ExpireFile, Contents
    <3>2. \A u \in Storages, t \in Segs :
             files'[dir[u]][t] = IF dir[u] = dir[listed[s]] /\ t = s THEN "none" ELSE File(u, t)
        BY <3>1, SetFileEffect
    <3> QED BY <1>2, <3>2 DEF File
  <2>4. CASE MoveCopied
    <3>1. \E c \in Contents : SetFile(dest, aseg[1], c)
        BY <2>4 DEF MoveCopied, Contents
    <3> QED BY <1>2, <3>1, SetFileEffect DEF File
  <2>5. CASE MoveFails
    <3>1. UNCHANGED files \/ \E c \in Contents : SetFile(dest, aseg[1], c)
        BY <2>5 DEF MoveFails, Remove, Contents
    <3> QED BY <1>2, <3>1, SetFileEffect DEF File
  <2>6. CASE RemoveSource
    <3>1. Remove(aseg[2], aseg[1])
        BY <2>6 DEF RemoveSource
    <3> QED BY <1>2, <3>1, RemoveEffect DEF File
  <2> QED BY <2>1, <2>2, <2>3, <2>4, <2>5, <2>6
<1>5. \A s \in Segs : Left(s)' => Left(s)
    BY <1>1, <1>3, <1>4 DEF Left, File
<1> QED BY <1>1, <1>5

\* Nor do the steps of a batch, nor an end of the process.
LEMMA BatchLeaves ==
    ASSUME TypeOK, from = "live", DrainedInv,
           \/ \E s \in Segs : CopyBegin(s) \/ CopyDone(s) \/ CopyFails(s) \/ Clean(s)
           \/ SyncDirs \/ Flip \/ Restart
    PROVE  /\ UNCHANGED <<dir, from, dest, status>> /\ \A s \in Segs : Left(s)' => Left(s)
<1> USE DEF layout, rows, scheduler, drain, batch, bounds
<1>1. UNCHANGED <<dir, from, dest, status>>
    BY DEF CopyBegin, CopyDone, CopyFails, Clean, SyncDirs, Flip, Restart
<1>2. "live" \in Storages /\ "target" \in Storages /\ dir["live"] \in Dirs
    BY LayoutType DEF TypeOK, Storages
<1>3. \A s \in Segs : place'[s] = "live" => place[s] = "live"
    BY DEF TypeOK, CopyBegin, CopyDone, CopyFails, Clean, SyncDirs, Flip, Restart
<1>4. \A s \in Segs : File("live", s) = "none" => files'[dir["live"]][s] = "none"
  <2>1. ASSUME NEW s \in Segs, CopyBegin(s) PROVE <1>4
    <3>1. CASE UNCHANGED files
        BY <3>1 DEF File
    <3>2. CASE File(from, s) # "none" /\ SetFile("target", s, "partial")
        BY <1>2, <3>2, SetFileEffect DEF Contents, File
    <3> QED BY <2>1, <3>1, <3>2 DEF CopyBegin
  <2>2. ASSUME NEW s \in Segs, CopyDone(s) PROVE <1>4
    <3>1. dir["live"] # dir["target"]
        BY <2>2 DEF CopyDone, DrainedInv
    <3> QED BY <1>2, <2>2, <3>1, SetFileEffect DEF CopyDone, Contents
  <2>3. ASSUME NEW s \in Segs, CopyFails(s) PROVE <1>4
      BY <1>2, <2>3, RemoveEffect DEF CopyFails, File
  <2>4. ASSUME NEW s \in Segs, Clean(s) PROVE <1>4
    <3>1. CASE UNCHANGED files
        BY <3>1 DEF File
    <3>2. CASE Remove(from, s) \/ Remove("target", s)
        BY <1>2, <3>2, RemoveEffect DEF File
    <3> QED BY <2>4, <3>1, <3>2 DEF Clean
  <2>5. CASE SyncDirs
    <3>1. files \in [Dirs -> [Segs -> Contents]] /\ dir["target"] \in Dirs
        BY LayoutType DEF TypeOK, Storages
    <3> QED BY <1>2, <2>5, <3>1 DEF SyncDirs, File
  <2>6. CASE Flip
      BY <2>6 DEF Flip, File
  <2>7. CASE Restart
      BY <1>2, <2>7 DEF Restart, File
  <2> QED BY <2>1, <2>2, <2>3, <2>4, <2>5, <2>6, <2>7
<1>5. \A s \in Segs : Left(s)' => Left(s)
    BY <1>1, <1>3, <1>4 DEF Left, File
<1> QED BY <1>1, <1>5

\* The steps of the job leave all footage where it is.
LEMMA JobLeaves ==
    ASSUME Enqueue \/ Cancel \/ Retry \/ Claim \/ ResetStale \/ Finish \/ Bail \/ NextBatch
           \/ FlipFails \/ EndBatch \/ DrainDies
    PROVE  UNCHANGED <<dir, from, dest, files, place>> /\ \A s \in Segs : Left(s)' = Left(s)
<1>1. UNCHANGED <<dir, from, dest, files, place>>
    BY DEF layout, rows, scheduler, Enqueue, Cancel, Retry, Claim, ResetStale, Finish, Bail, NextBatch, FlipFails, EndBatch, DrainDies
<1> QED BY <1>1 DEF Left, File

\* A listing leaves footage behind only if it is full.
LEMMA NextBatchKeeps == ASSUME TypeOK, from = "live", DrainedInv, NextBatch PROVE DrainedInv'
<1> USE DEF NextBatch, Begin, DrainedInv
<1>1. \A s \in Segs : Left(s)' = Left(s)
    BY JobLeaves
<1>2. UNCHANGED <<dir, dest, status>>
    BY DEF layout, scheduler
<1>3. CASE dstep' = "end" /\ (status # "running" \/ OnSource = {}) /\ UNCHANGED batch
  <2>1. copying' = copying
      BY <1>3 DEF batch
  <2>2. OnSource = {} => \A s \in Segs : ~Left(s)
      BY DEF OnSource, Left
  <2> QED BY <1>1, <1>2, <1>3, <2>1, <2>2
<1>4. CASE dstep' = "copy" /\ Begin(Oldest(OnSource))
  <2>1. Hand' = Oldest(OnSource) /\ skipped' = {} /\ Hand' \cup skipped' = Oldest(OnSource)
      BY <1>4 DEF Hand
  <2>2. ASSUME NEW s \in Segs \ Hand', Left(s)' PROVE Cardinality(Hand' \cup skipped') >= Batch
    <3>1. s \in OnSource \ Oldest(OnSource) /\ OnSource \subseteq Segs
        BY <1>1, <2>1, <2>2 DEF OnSource, Left
    <3> QED BY <2>1, <3>1, OldestFillBatch
  <2> QED BY <1>2, <1>4, <2>2
<1>5. CASE dstep' \in {"end", "bail"} /\ UNCHANGED batch /\ dstep' # "end"
  <2>1. copying' = copying
      BY <1>5 DEF batch
  <2> QED BY <1>2, <1>5, <2>1
<1> QED BY <1>3, <1>4, <1>5

\* While its files are copied a batch loses none of its segments, unless a copy fails.
LEMMA CopyKeepsHand ==
    ASSUME TypeOK, from = "live", DrainedInv, NEW s \in Segs, CopyBegin(s) \/ CopyDone(s) \/ CopyFails(s)
    PROVE  DrainedInv'
<1>1. UNCHANGED <<dir, from, dest, status>> /\ \A t \in Segs : Left(t)' => Left(t)
    BY BatchLeaves
<1>2. dstep = "copy" /\ dstep' = "copy"
    BY DEF CopyBegin, CopyDone, CopyFails
<1>3. copying' # {} => dir["live"] # dir["target"]
    BY DEF CopyBegin, CopyDone, CopyFails, SameFile, DrainedInv
<1>4. ~failed' => ~failed /\ Hand' \cup skipped' = Hand \cup skipped
    BY DEF CopyBegin, CopyDone, CopyFails, Hand
<1>5. \A t \in Segs \ Hand' : Left(t)' => t \notin Hand \/ failed'
  <2> SUFFICES ASSUME NEW t \in Segs, t \notin Hand', Left(t)', t \in Hand PROVE failed'
      OBVIOUS
  <2>1. CASE CopyBegin(s)
    <3>1. t = s /\ File("live", s) = "none"
        BY <2>1 DEF CopyBegin, Hand
    <3> QED BY <1>1, <3>1 DEF Left
  <2>2. CASE CopyDone(s)
      BY <2>2 DEF CopyDone, Hand
  <2>3. CASE CopyFails(s)
      BY <2>3 DEF CopyFails
  <2> QED BY <2>1, <2>2, <2>3
<1>6. ~failed' /\ (\E t \in Segs \ Hand' : Left(t)') => Cardinality(Hand' \cup skipped') >= Batch
    BY <1>1, <1>2, <1>4, <1>5 DEF DrainedInv
<1>7. dest' = "archive"
    BY <1>1 DEF DrainedInv
<1>8. dir' = dir
    BY <1>1
<1> QED BY <1>2, <1>3, <1>6, <1>7, <1>8 DEF DrainedInv

\* A batch that flipped none of its rows had none on the source: were footage left behind,
\* the batch would be full, and lost as a whole.
LEMMA FlipKeepsNone ==
    ASSUME TypeOK, from = "live", DrainedInv, SomeMoves, Flip PROVE DrainedInv'
<1>1. UNCHANGED <<dir, from, dest, status>> /\ \A s \in Segs : Left(s)' => Left(s)
    BY BatchLeaves
<1>2. /\ dstep = "flip" /\ dstep' = "clean" /\ flipped' = copied \cap OnSource
      /\ UNCHANGED <<todo, copying, copied, failed, skipped>>
    BY DEF Flip
<1>3. todo = {} /\ copying = {} /\ Hand = copied
    BY <1>2 DEF DrainedInv, Hand
<1>4. ASSUME ~failed, flipped' = {}, NEW s \in Segs, Left(s)' PROVE FALSE
  <2>1. s \in OnSource /\ Left(s)
      BY <1>1, <1>4 DEF Left, OnSource
  <2>2. s \in Segs \ Hand
      BY <1>2, <1>3, <1>4, <2>1
  <2>3. Cardinality(Hand \cup skipped) >= Batch
      BY <1>2, <1>4, <2>1, <2>2 DEF DrainedInv
  <2>4. skipped \cup (copied \ OnSource) = Hand \cup skipped
      BY <1>2, <1>3, <1>4
  <2>5. Cardinality(Hand \cup skipped) < Batch
      BY <1>2, <2>4 DEF SomeMoves
  <2>6. Cardinality(Hand \cup skipped) \in Nat /\ Batch \in Nat
    <3>1. Hand \cup skipped \subseteq Segs /\ IsFiniteSet(Segs) /\ Batch \in Nat
        BY <1>3, MovesAssumption DEF TypeOK
    <3> QED BY <3>1, FS_Subset, FS_CardinalityType
  <2> QED BY <2>3, <2>5, <2>6
<1> QED BY <1>1, <1>2, <1>3, <1>4 DEF DrainedInv

\* Every step keeps the invariant, and a drain that is done has left nothing.
LEMMA NextDrained ==
    ASSUME SafeLayouts, TypeOK, from = "live", DrainedInv, SomeMoves, [Next]_vars
    PROVE  from' = "live" /\ DrainedInv'
<1> USE DEF layout, rows, scheduler, drain, batch, bounds
<1>1. CASE UNCHANGED vars
    BY <1>1 DEF vars, DrainedInv, Left, Hand, File
<1>2. CASE ListLive \/ (\E s \in Segs : MoveBegin(s) \/ ExpireFile(s))
           \/ MoveCopied \/ MoveFails \/ MoveRow \/ RemoveSource \/ ExpireRow
  <2>1. /\ UNCHANGED <<dir, from, dstep, status, todo, copying, copied, flipped, failed, skipped>>
        /\ dest' = "archive" /\ \A s \in Segs : Left(s)' => Left(s)
      BY <1>2, SchedulerLeaves
  <2>2. Hand' = Hand
      BY <2>1 DEF Hand
  <2> QED BY <2>1, <2>2 DEF DrainedInv
<1>3. CASE NextBatch
    BY <1>3, NextBatchKeeps, JobLeaves
<1>4. CASE \E s \in Segs : CopyBegin(s) \/ CopyDone(s) \/ CopyFails(s)
    BY <1>4, CopyKeepsHand, BatchLeaves
<1>5. CASE Flip
    BY <1>5, FlipKeepsNone, BatchLeaves
<1>6. CASE SyncDirs \/ (\E s \in Segs : Clean(s))
  <2>1. UNCHANGED <<dir, from, dest, status>> /\ \A s \in Segs : Left(s)' => Left(s)
      BY <1>6, BatchLeaves
  <2>2. /\ UNCHANGED <<todo, copying, flipped, failed, skipped>>
        /\ \/ dstep = "copy" /\ dstep' = "flip" /\ todo = {} /\ copying = {} /\ copied' = copied
           \/ dstep = "clean" /\ dstep' = "clean"
      BY <1>6 DEF SyncDirs, Clean
  <2>3. dstep' = "flip" => Hand' = Hand
      BY <2>2 DEF Hand
  <2> QED BY <2>1, <2>2, <2>3 DEF DrainedInv
<1>7. CASE Restart
  <2>1. UNCHANGED <<dir, from, dest, status>>
      BY <1>7, BatchLeaves
  <2>2. dstep' = "idle" /\ copying' = {}
      BY <1>7 DEF Restart, Begin
  <2> QED BY <2>1, <2>2 DEF DrainedInv
<1>8. CASE FlipFails \/ EndBatch \/ DrainDies
  <2>1. UNCHANGED <<dir, from, dest, status>> /\ \A s \in Segs : Left(s)' = Left(s)
      BY <1>8, JobLeaves DEF FlipFails, EndBatch, DrainDies
  <2>2. copying' = {} /\ dstep' \in {"idle", "top", "end", "bail"}
      BY <1>8 DEF FlipFails, EndBatch, DrainDies, Begin
  <2>3. dstep' = "end" => dstep = "clean" /\ flipped = {} /\ ~failed
      BY <1>8 DEF FlipFails, EndBatch, DrainDies
  <2> QED BY <2>1, <2>2, <2>3 DEF DrainedInv
<1>9. CASE Enqueue \/ Cancel \/ Retry \/ Claim \/ ResetStale \/ Finish \/ Bail
  <2>1. UNCHANGED <<dir, from, dest, todo, copying, copied, flipped, failed, skipped>>
      BY <1>9 DEF Enqueue, Order, Cancel, Retry, Claim, ResetStale, Finish, Bail
  <2>2. \A s \in Segs : Left(s)' = Left(s)
      BY <1>9, JobLeaves
  <2>3. /\ dstep' = dstep \/ dstep' \in {"top", "idle"}
        /\ dstep = "end" /\ dstep' = "end" /\ status' = "running" => status = "running"
      BY <1>9 DEF Enqueue, Cancel, Retry, Claim, ResetStale, Finish, Bail
  <2>4. Hand' = Hand
      BY <2>1 DEF Hand
  <2> QED BY <2>1, <2>2, <2>3, <2>4 DEF DrainedInv
<1> QED BY <1>1, <1>2, <1>3, <1>4, <1>5, <1>6, <1>7, <1>8, <1>9 DEF Next

\* In a safe layout, a drain of the live storage that reports that it is done has left no
\* file there, whatever the archiver, retention, failed copies and ends of the process did
\* meanwhile: unless all the rows of a full batch had lost their files or had been moved or
\* expired (run_storage_migration ends a batch that moved nothing as done if all it met
\* were missing files).
THEOREM DrainedWhenDone ==
    ASSUME SafeLayouts
    PROVE  Spec /\ []SomeMoves => DoneMeansDrained
<1> DEFINE I == TypeOK /\ (from = "live" => DrainedInv)
           Drained == status # "done" /\ status' = "done" /\ from = "live"
                     => \A s \in Segs : place[s] = from => File(from, s) = "none"
<1>1. Init => I
  <2> SUFFICES ASSUME Init, from = "live" PROVE DrainedInv
      BY InitType
  <2> QED BY DEF Init, DrainedInv
<1>2. I /\ SomeMoves /\ [Next]_vars => I'
  <2> SUFFICES ASSUME I, SomeMoves, [Next]_vars PROVE I'
      OBVIOUS
  <2>1. TypeOK'
      BY NextType
  <2>2. from' = from
      BY DEF Next, vars, layout, ListLive, MoveBegin, ExpireFile, MoveCopied, MoveFails, MoveRow, RemoveSource,
             ExpireRow, Enqueue, Cancel, Retry, Claim, ResetStale, Finish, Bail, NextBatch, CopyBegin, CopyDone,
             CopyFails, Clean, SyncDirs, Flip, FlipFails, EndBatch, DrainDies, Restart
  <2>3. from = "live" => DrainedInv'
      BY NextDrained
  <2> QED BY <2>1, <2>2, <2>3
<1>3. I /\ [Next]_vars => [Drained]_vars
  <2> SUFFICES ASSUME I, Next, status # "done", status' = "done", from = "live"
               PROVE  \A s \in Segs : place[s] = from => File(from, s) = "none"
      OBVIOUS
  <2>1. dstep = "end" /\ status = "running"
    <3>1. Finish
        BY DEF Next, drain, ListLive, MoveBegin, ExpireFile, MoveCopied, MoveFails, MoveRow, RemoveSource,
               ExpireRow, Enqueue, Cancel, Retry, Claim, ResetStale, Bail, NextBatch, CopyBegin, CopyDone,
               CopyFails, Clean, SyncDirs, Flip, FlipFails, EndBatch, DrainDies, Restart
    <3> QED BY <3>1 DEF Finish
  <2> QED BY <2>1 DEF DrainedInv, Left
<1> HIDE DEF I, Drained
<1>4. Init /\ [][Next]_vars /\ []SomeMoves => [][Drained]_vars
    BY <1>1, <1>2, <1>3, PTL
<1> QED BY <1>4 DEF Spec, DoneMeansDrained, Drained

-----------------------------------------------------------------------------
(* The archive schedule. *)

Tracker == [schedule : Schedules \cup {"none"}, checked : Nat, backlog : BOOLEAN]
Round == [step : {"idle", "listed", "check", "run"}, rows : [ArchiveCameras -> Settings], now : Nat,
          camera : Nat, due : BOOLEAN, left : 0..Budget]

ScheduleTypes ==
    /\ clock \in Nat /\ 2 <= clock /\ clock <= latest /\ latest \in Nat /\ latest <= MaxClock
    /\ setting \in [ArchiveCameras -> Settings]
    /\ tracker \in [ArchiveCameras -> Tracker] /\ round \in Round /\ round.now <= latest
    /\ waiting \in [ArchiveCameras -> SUBSET Footage] /\ promised \in [ArchiveCameras -> SUBSET Footage]
    /\ owed \in [ArchiveCameras -> SUBSET Nat] /\ settled \in [ArchiveCameras -> SUBSET Nat]

\* A tick under way has its now, and the camera it moves footage of has a tracker.
RoundStands ==
    /\ round.step \in {"check", "run"} => 2 <= round.now
    /\ round.step = "run" => round.camera \in ArchiveCameras /\ tracker[round.camera].checked # 0

\* A camera that is no more, as the tick under way knows.
Departed(c) == setting[c] = "deleted" /\ (round.step # "idle" => round.rows[c] = "deleted")

\* What a camera is owed lies after its window and is of its schedule, as the tick under way has
\* it; what was ruled on lies before the window's end.
OwedStands(c) ==
    \A i \in owed[c] :
        /\ setting[c] \in Schedules /\ i \in Occurs[setting[c]]
        /\ tracker[c].checked # 0 /\ tracker[c].checked < i /\ 0 < i /\ i <= latest
        /\ round.step \in {"check", "run"} /\ i <= round.now => round.rows[c] = setting[c]

SettledStands(c) == Departed(c) \/ \A i \in settled[c] : tracker[c].checked # 0 /\ i <= tracker[c].checked

TrackerStands(c) ==
    /\ tracker[c] = NoTracker \/ tracker[c].checked # 0
    /\ tracker[c].checked <= latest
    /\ round.step # "idle" /\ round.rows[c] = "deleted" => setting[c] = "deleted"

ScheduleInv ==
    /\ ScheduleTypes /\ RoundStands
    /\ \A c \in ArchiveCameras : TrackerStands(c) /\ OwedStands(c) /\ SettledStands(c)

LEMMA ConstantsOfSchedule ==
    /\ MaxClock \in Nat /\ MaxClock > 2 /\ Budget \in Nat /\ ListLimit \in Nat
    /\ "bad" \notin Schedules /\ "none" \notin Schedules /\ "deleted" \notin Schedules
    /\ IsFiniteSet(Footage) /\ Footage \subseteq Nat
    /\ NoTracker \in Tracker /\ NoTracker.checked = 0
    /\ IdleRound \in Round /\ IdleRound.step = "idle" /\ IdleRound.now = 0
<1>1. IsFiniteSet(Footage) /\ Footage = 1..Cardinality(Footage)
    BY ScheduleAssumption
<1>2. Cardinality(Footage) \in Nat
    BY <1>1, FS_CardinalityType
<1>3. Footage \subseteq Nat
    BY <1>1, <1>2
<1>4. Budget \in Nat
    BY ScheduleAssumption
<1> QED BY <1>1, <1>3, <1>4, ScheduleAssumption DEF NoTracker, Tracker, IdleRound, Round, Settings

LEMMA MinuteIs == ASSUME NEW t \in Nat PROVE MinuteOf(t) \in Int /\ MinuteOf(t) - 1 < t
<1>1. t % 2 \in 0..1
    OBVIOUS
<1> QED BY <1>1 DEF MinuteOf

LEMMA ScheduleStart == ScheduleInit => ScheduleInv
<1> SUFFICES ASSUME ScheduleInit PROVE ScheduleInv
    OBVIOUS
<1>1. ScheduleTypes
    BY ConstantsOfSchedule DEF ScheduleInit, ScheduleTypes, Settings
<1>2. RoundStands
    BY ConstantsOfSchedule DEF ScheduleInit, RoundStands
<1>3. ASSUME NEW c \in ArchiveCameras PROVE TrackerStands(c) /\ OwedStands(c) /\ SettledStands(c)
    BY <1>1, ConstantsOfSchedule DEF ScheduleInit, ScheduleTypes, TrackerStands, OwedStands, SettledStands
<1> QED BY <1>1, <1>2, <1>3 DEF ScheduleInv

-----------------------------------------------------------------------------
(* The world. *)

LEMMA PassTimeKeeps == ScheduleInv /\ PassTime => ScheduleInv'
<1> SUFFICES ASSUME ScheduleInv, PassTime PROVE ScheduleInv'
    OBVIOUS
<1>0. ScheduleTypes /\ UNCHANGED <<setting, tracker, round, waiting, settled, promised>>
    BY DEF PassTime, ScheduleInv
<1>1. clock' = clock + 1 /\ clock' <= MaxClock /\ latest' >= latest /\ latest' \in Nat /\ clock' <= latest' /\ latest' <= MaxClock
    BY <1>0, ConstantsOfSchedule DEF PassTime, ScheduleTypes
<1>2. ASSUME NEW c \in ArchiveCameras
      PROVE  /\ owed'[c] \subseteq owed[c] \cup {latest'}
             /\ latest' \in owed'[c] \ owed[c] => /\ latest' > latest /\ tracker[c] # NoTracker
                                                 /\ setting[c] \in Schedules /\ latest' \in Occurs[setting[c]]
  <2>1. CASE clock' > latest
      BY <1>0, <2>1 DEF PassTime, ScheduleTypes
  <2>2. CASE ~(clock' > latest)
      BY <1>0, <2>2 DEF PassTime, ScheduleTypes
  <2> QED BY <2>1, <2>2
<1>3. owed' \in [ArchiveCameras -> SUBSET Nat]
  <2>1. owed' = owed \/ owed' = [c \in ArchiveCameras |-> owed'[c]]
      BY DEF PassTime
  <2> QED BY <1>0, <1>1, <1>2, <2>1 DEF ScheduleTypes
<1>4. ScheduleTypes' /\ RoundStands'
  <2>1. round'.now <= latest'
    <3>1. round.now \in Nat /\ round.now <= latest /\ latest \in Nat
        BY <1>0 DEF ScheduleTypes, Round
    <3> QED BY <1>0, <1>1, <3>1
  <2> QED BY <1>0, <1>1, <1>3, <2>1 DEF ScheduleInv, ScheduleTypes, RoundStands
<1>5. ASSUME NEW c \in ArchiveCameras PROVE (TrackerStands(c) /\ OwedStands(c) /\ SettledStands(c))'
  <2>1. TrackerStands(c) /\ OwedStands(c) /\ SettledStands(c)
      BY DEF ScheduleInv
  <2>2. tracker[c].checked \in Nat /\ round.now <= latest /\ latest \in Nat /\ round.now \in Nat
      BY <1>0 DEF ScheduleTypes, Tracker, Round
  <2>3. TrackerStands(c)' /\ SettledStands(c)'
      BY <1>0, <1>1, <2>1, <2>2 DEF TrackerStands, SettledStands, Departed
  <2>4. ASSUME NEW i \in owed'[c]
        PROVE  /\ setting[c] \in Schedules /\ i \in Occurs[setting[c]]
               /\ tracker[c].checked # 0 /\ tracker[c].checked < i /\ 0 < i /\ i <= latest'
               /\ round.step \in {"check", "run"} /\ i <= round.now => round.rows[c] = setting[c]
    <3>1. CASE i \in owed[c]
      <4>1. i \in Nat
          BY <1>0, <3>1 DEF ScheduleTypes
      <4> QED BY <1>1, <2>1, <2>2, <3>1, <4>1 DEF OwedStands
    <3>2. CASE i = latest' /\ i \notin owed[c]
      <4>1. latest' > latest /\ tracker[c] # NoTracker /\ setting[c] \in Schedules /\ latest' \in Occurs[setting[c]]
          BY <1>2, <3>2
      <4>2. tracker[c].checked # 0 /\ tracker[c].checked <= latest
          BY <2>1, <4>1 DEF TrackerStands
      <4> QED BY <1>1, <2>2, <3>2, <4>1, <4>2
    <3> QED BY <1>2, <3>1, <3>2
  <2> QED BY <1>0, <2>3, <2>4 DEF OwedStands
<1> QED BY <1>4, <1>5 DEF ScheduleInv

LEMMA StepBackKeeps == ScheduleInv /\ StepBack => ScheduleInv'
<1> SUFFICES ASSUME ScheduleInv, StepBack PROVE ScheduleInv'
    OBVIOUS
<1>0. UNCHANGED <<latest, setting, tracker, round, waiting, owed, settled, promised>>
      /\ clock' \in Nat /\ 2 <= clock' /\ clock' <= latest
    BY DEF StepBack, ScheduleInv, ScheduleTypes
<1>1. ASSUME NEW c \in ArchiveCameras PROVE (TrackerStands(c) /\ OwedStands(c) /\ SettledStands(c))'
    BY <1>0 DEF ScheduleInv, TrackerStands, OwedStands, SettledStands, Departed
<1> QED BY <1>0, <1>1 DEF ScheduleInv, ScheduleTypes, RoundStands

LEMMA RescheduleKeeps ==
    ASSUME ScheduleInv, NEW c \in ArchiveCameras, NEW s \in Settings, Reschedule(c, s)
    PROVE  ScheduleInv'
<1>0. /\ UNCHANGED <<clock, latest, tracker, round, settled, promised>> /\ ScheduleTypes
      /\ setting' = [setting EXCEPT ![c] = s] /\ owed' = [owed EXCEPT ![c] = {}]
      /\ waiting' = IF s = "deleted" THEN [waiting EXCEPT ![c] = {}] ELSE waiting
      /\ setting[c] # "deleted"
    BY DEF Reschedule, ScheduleInv
<1>1. ScheduleTypes' /\ RoundStands'
    BY <1>0 DEF ScheduleInv, ScheduleTypes, RoundStands
<1>2. ASSUME NEW d \in ArchiveCameras PROVE (TrackerStands(d) /\ OwedStands(d) /\ SettledStands(d))'
  <2>1. TrackerStands(d) /\ OwedStands(d) /\ SettledStands(d)
      BY DEF ScheduleInv
  <2>2. CASE d = c
    <3>1. owed'[d] = {} /\ setting'[d] = s /\ setting[d] # "deleted"
        BY <1>0, <2>2 DEF ScheduleTypes
    <3> QED BY <1>0, <2>1, <3>1 DEF TrackerStands, OwedStands, SettledStands, Departed
  <2>3. CASE d # c
    <3>1. owed'[d] = owed[d] /\ setting'[d] = setting[d]
        BY <1>0, <2>3 DEF ScheduleTypes
    <3> QED BY <1>0, <2>1, <3>1 DEF TrackerStands, OwedStands, SettledStands, Departed
  <2> QED BY <2>2, <2>3
<1> QED BY <1>1, <1>2 DEF ScheduleInv

LEMMA RestartKeeps == ScheduleInv /\ RestartScheduler => ScheduleInv'
<1> SUFFICES ASSUME ScheduleInv, RestartScheduler PROVE ScheduleInv'
    OBVIOUS
<1>0. /\ UNCHANGED <<clock, latest, setting, waiting>> /\ round' = IdleRound /\ ScheduleTypes
      /\ tracker' = [c \in ArchiveCameras |-> NoTracker]
      /\ owed' = [c \in ArchiveCameras |-> {}] /\ promised' = owed' /\ settled' = owed'
    BY DEF RestartScheduler, ScheduleInv
<1>1. ScheduleTypes' /\ RoundStands'
    BY <1>0, ConstantsOfSchedule DEF ScheduleTypes, RoundStands
<1>2. ASSUME NEW c \in ArchiveCameras PROVE (TrackerStands(c) /\ OwedStands(c) /\ SettledStands(c))'
    BY <1>0, ConstantsOfSchedule DEF ScheduleTypes, TrackerStands, OwedStands, SettledStands
<1> QED BY <1>1, <1>2 DEF ScheduleInv

-----------------------------------------------------------------------------
(* The tick. *)

LEMMA NextCameraIs ==
    ASSUME round \in Round
    PROVE  /\ NextCamera \in Round /\ NextCamera.step = "check" /\ NextCamera.rows = round.rows
           /\ NextCamera.now = round.now /\ NextCamera.left = round.left
<1>1. DOMAIN round = {"step", "rows", "now", "camera", "due", "left"} /\ round.camera \in Nat
    BY DEF Round
<1>2. round.camera + 1 \in Nat
    BY <1>1
<1> DEFINE n == round.camera + 1
<1>3. NextCamera = [round EXCEPT !.step = "check", !.camera = n, !.due = FALSE]
    BY DEF NextCamera
<1> HIDE DEF n
<1>4. n \in Nat
    BY <1>2 DEF n
<1> QED BY <1>1, <1>3, <1>4 DEF Round

\* A tick that goes on without touching trackers or what is owed.
LEMMA RoundKeeps ==
    ASSUME ScheduleInv, UNCHANGED <<clock, latest, setting, tracker, waiting, owed, settled, promised>>,
           round' \in Round, round.step # "idle", round'.step # "idle",
           round'.rows = round.rows, round'.now = round.now,
           round'.step \in {"check", "run"} => round.step \in {"check", "run"}, RoundStands'
    PROVE  ScheduleInv'
<1>1. ScheduleTypes'
    BY DEF ScheduleInv, ScheduleTypes
<1>2. ASSUME NEW c \in ArchiveCameras PROVE (TrackerStands(c) /\ OwedStands(c) /\ SettledStands(c))'
  <2>1. TrackerStands(c) /\ OwedStands(c) /\ SettledStands(c)
      BY DEF ScheduleInv
  <2> QED BY <2>1 DEF TrackerStands, OwedStands, SettledStands, Departed
<1> QED BY <1>1, <1>2 DEF ScheduleInv

LEMMA ListCamerasKeeps == ScheduleInv /\ ListCameras => ScheduleInv'
<1> SUFFICES ASSUME ScheduleInv, ListCameras PROVE ScheduleInv'
    OBVIOUS
<1>0. /\ UNCHANGED <<clock, latest, setting, tracker, waiting, owed, settled, promised>> /\ ScheduleTypes
      /\ round.step = "idle" /\ round' = [round EXCEPT !.step = "listed", !.rows = setting]
    BY DEF ListCameras, ScheduleInv
<1>1. /\ round' \in Round /\ round'.step = "listed" /\ round'.rows = setting /\ round'.now = round.now
    BY <1>0 DEF ScheduleTypes, Round
<1>2. ScheduleTypes' /\ RoundStands'
    BY <1>0, <1>1 DEF ScheduleTypes, RoundStands
<1>3. ASSUME NEW c \in ArchiveCameras PROVE (TrackerStands(c) /\ OwedStands(c) /\ SettledStands(c))'
  <2>1. TrackerStands(c) /\ OwedStands(c) /\ SettledStands(c)
      BY DEF ScheduleInv
  <2> QED BY <1>0, <1>1, <2>1 DEF TrackerStands, OwedStands, SettledStands, Departed
<1> QED BY <1>2, <1>3 DEF ScheduleInv

LEMMA TakeNowKeeps == ScheduleInv /\ TakeNow => ScheduleInv'
<1> SUFFICES ASSUME ScheduleInv, TakeNow PROVE ScheduleInv'
    OBVIOUS
<1>0. /\ UNCHANGED <<clock, latest, setting, tracker, waiting, settled, promised>> /\ ScheduleTypes
      /\ round.step = "listed" /\ round' = [round EXCEPT !.step = "check", !.now = clock]
      /\ owed' = [c \in ArchiveCameras |-> IF round.rows[c] = setting[c] THEN owed[c] ELSE {}]
    BY DEF TakeNow, ScheduleInv
<1>1. /\ round' \in Round /\ round'.step = "check" /\ round'.rows = round.rows /\ round'.now = clock
    BY <1>0 DEF ScheduleTypes, Round
<1>2. ScheduleTypes' /\ RoundStands'
    BY <1>0, <1>1 DEF ScheduleTypes, RoundStands
<1>3. ASSUME NEW c \in ArchiveCameras PROVE (TrackerStands(c) /\ OwedStands(c) /\ SettledStands(c))'
  <2>1. TrackerStands(c) /\ OwedStands(c) /\ SettledStands(c)
      BY DEF ScheduleInv
  <2>2. owed'[c] = IF round.rows[c] = setting[c] THEN owed[c] ELSE {}
      BY <1>0
  <2>3. OwedStands(c)'
    <3>1. CASE round.rows[c] = setting[c]
        BY <1>0, <1>1, <2>1, <2>2, <3>1 DEF OwedStands
    <3>2. CASE round.rows[c] # setting[c]
        BY <2>2, <3>2 DEF OwedStands
    <3> QED BY <3>1, <3>2
  <2> QED BY <1>0, <1>1, <2>1, <2>3 DEF TrackerStands, SettledStands, Departed
<1> QED BY <1>2, <1>3 DEF ScheduleInv

LEMMA SkipCameraKeeps == ScheduleInv /\ SkipCamera => ScheduleInv'
<1> SUFFICES ASSUME ScheduleInv, SkipCamera PROVE ScheduleInv'
    OBVIOUS
<1>0. /\ UNCHANGED <<clock, latest, setting, tracker, waiting, owed, settled, promised>>
      /\ round.step = "check" /\ round' = NextCamera /\ round \in Round /\ RoundStands
    BY DEF SkipCamera, Here, ScheduleInv, ScheduleTypes
<1>1. round' \in Round /\ round'.step = "check" /\ round'.rows = round.rows /\ round'.now = round.now
    BY <1>0, NextCameraIs
<1>2. RoundStands'
    BY <1>0, <1>1 DEF RoundStands
<1> QED BY <1>0, <1>1, <1>2, RoundKeeps

\* One camera's tracker changes, and what is owed it and settled of it.
LEMMA OneTracker ==
    ASSUME ScheduleInv, NEW c \in ArchiveCameras, UNCHANGED <<clock, latest, setting>>,
           ScheduleTypes', RoundStands', (TrackerStands(c) /\ OwedStands(c) /\ SettledStands(c))',
           round.step # "idle", round'.step # "idle", round'.rows = round.rows, round'.now = round.now,
           round.step \in {"check", "run"},
           \A d \in ArchiveCameras \ {c} :
              tracker'[d] = tracker[d] /\ owed'[d] = owed[d] /\ settled'[d] = settled[d]
    PROVE  ScheduleInv'
<1>1. ASSUME NEW d \in ArchiveCameras \ {c} PROVE (TrackerStands(d) /\ OwedStands(d) /\ SettledStands(d))'
  <2>1. TrackerStands(d) /\ OwedStands(d) /\ SettledStands(d)
      BY DEF ScheduleInv
  <2> QED BY <2>1 DEF TrackerStands, OwedStands, SettledStands, Departed
<1> QED BY <1>1 DEF ScheduleInv

LEMMA DropTrackerKeeps == ScheduleInv /\ DropTracker => ScheduleInv'
<1> SUFFICES ASSUME ScheduleInv, DropTracker PROVE ScheduleInv'
    OBVIOUS
<1>c. PICK c \in ArchiveCameras : c = round.camera
    BY DEF DropTracker, Here
<1>0. /\ UNCHANGED <<clock, latest, setting, waiting>> /\ ScheduleTypes /\ RoundStands
      /\ round.step = "check" /\ round' = NextCamera /\ round.rows[c] = "bad"
      /\ tracker' = [tracker EXCEPT ![c] = NoTracker] /\ owed' = [owed EXCEPT ![c] = {}]
      /\ promised' = [promised EXCEPT ![c] = {}] /\ settled' = [settled EXCEPT ![c] = {}]
    BY <1>c DEF DropTracker, Here, Forget, ScheduleInv
<1>1. round' \in Round /\ round'.step = "check" /\ round'.rows = round.rows /\ round'.now = round.now
    BY <1>0, NextCameraIs DEF ScheduleTypes
<1>2. ScheduleTypes' /\ RoundStands'
    BY <1>0, <1>1, ConstantsOfSchedule DEF ScheduleTypes, RoundStands
<1>3. tracker'[c] = NoTracker /\ owed'[c] = {} /\ settled'[c] = {}
      /\ \A d \in ArchiveCameras \ {c} :
              tracker'[d] = tracker[d] /\ owed'[d] = owed[d] /\ settled'[d] = settled[d]
    BY <1>0 DEF ScheduleTypes
<1>4. (TrackerStands(c) /\ OwedStands(c) /\ SettledStands(c))'
    BY <1>0, <1>1, <1>3, ConstantsOfSchedule DEF ScheduleTypes, TrackerStands, OwedStands, SettledStands
<1> QED BY <1>0, <1>1, <1>2, <1>3, <1>4, OneTracker

\* The window ends no earlier than before, and not before now.
LEMMA AdvanceIs ==
    ASSUME NEW t \in Tracker, NEW s \in Schedules, NEW now \in Nat, 2 <= now
    PROVE  LET u == Advance(EnsureTracker(t, s), now)
           IN  /\ u \in Tracker /\ u.checked # 0 /\ now <= u.checked /\ t.checked <= u.checked
               /\ u.checked \in {now, t.checked} /\ u.backlog = t.backlog
               /\ t.checked # 0 => WindowStart(EnsureTracker(t, s), now) = t.checked
               /\ t.checked = 0 => WindowStart(EnsureTracker(t, s), now) = MinuteOf(now) - 1
               /\ EnsureTracker(t, s).schedule = s
<1> DEFINE v == EnsureTracker(t, s)
<1>1. v \in Tracker /\ v.checked = t.checked /\ v.schedule = s /\ v.backlog = t.backlog /\ t.checked \in Nat
    BY DEF EnsureTracker, Tracker
<1>2. MinuteOf(now) - 1 < now
    BY MinuteIs
<1> HIDE DEF v
<1>3. t.checked # 0 => WindowStart(v, now) = t.checked
    BY <1>1 DEF WindowStart
<1>4. t.checked = 0 => WindowStart(v, now) = MinuteOf(now) - 1
    BY <1>1 DEF WindowStart
<1>5. CASE now > WindowStart(v, now)
  <2>1. Advance(v, now) = [v EXCEPT !.checked = now]
      BY <1>5 DEF Advance
  <2>2. Advance(v, now) \in Tracker /\ Advance(v, now).checked = now /\ Advance(v, now).backlog = t.backlog
      BY <1>1, <2>1 DEF Tracker
  <2>3. t.checked <= now
      BY <1>1, <1>3, <1>5
  <2> QED BY <1>1, <1>3, <1>4, <2>2, <2>3 DEF v
<1>6. CASE ~(now > WindowStart(v, now))
  <2>1. Advance(v, now) = v /\ t.checked # 0
      BY <1>2, <1>4, <1>6 DEF Advance
  <2>2. now <= t.checked
      BY <1>1, <1>3, <1>6, <2>1
  <2> QED BY <1>1, <1>3, <1>4, <2>1, <2>2 DEF v
<1> QED BY <1>5, <1>6

LEMMA CheckScheduleKeeps == ScheduleInv /\ CheckSchedule => ScheduleInv'
<1> SUFFICES ASSUME ScheduleInv, CheckSchedule PROVE ScheduleInv'
    OBVIOUS
<1>c. PICK c \in ArchiveCameras : c = round.camera
    BY DEF CheckSchedule, Here
<1>s. PICK s \in Settings : s = round.rows[c]
    BY DEF ScheduleInv, ScheduleTypes, Round
<1>n. PICK now \in Nat : now = round.now
    BY DEF ScheduleInv, ScheduleTypes, Round
<1> DEFINE t == EnsureTracker(tracker[c], s)
           due == IsDue(t, now)
           past == {i \in Occurs[t.schedule] : i <= now}
           u == Advance(t, now)
<1>0. /\ UNCHANGED <<clock, latest, setting, waiting>> /\ ScheduleTypes /\ RoundStands
      /\ round.step = "check" /\ s \in Schedules
      /\ tracker' = [tracker EXCEPT ![c] = u]
      /\ round' = IF due \/ t.backlog THEN [round EXCEPT !.step = "run", !.due = due] ELSE NextCamera
      /\ settled' = [settled EXCEPT ![c] = @ \cup past]
      /\ owed' = [owed EXCEPT ![c] = @ \ past]
      /\ promised' = IF due THEN [promised EXCEPT ![c] = waiting[c]] ELSE promised
    BY <1>c, <1>s, <1>n DEF CheckSchedule, Here, ScheduleInv
<1>1. now \in Nat /\ 2 <= now /\ now <= latest /\ latest \in Nat /\ tracker[c] \in Tracker /\ round \in Round
    BY <1>0, <1>n DEF ScheduleTypes, RoundStands, Round
<1>2. /\ u \in Tracker /\ u.checked # 0 /\ now <= u.checked /\ tracker[c].checked <= u.checked
      /\ u.checked \in {now, tracker[c].checked} /\ t.schedule = s
    BY <1>0, <1>1, AdvanceIs
<1>3. past = {i \in Occurs[s] : i <= now} /\ Occurs[s] \subseteq Nat
    BY <1>0, <1>2, ScheduleAssumption, ConstantsOfSchedule
<1>4. due \in BOOLEAN
    BY DEF IsDue
<1> HIDE DEF t, due, past, u
<1>5. /\ round' \in Round /\ round'.step \in {"check", "run"} /\ round'.rows = round.rows /\ round'.now = round.now
      /\ (round'.step = "run" => round'.camera = c)
  <2>1. CASE due \/ t.backlog
      BY <1>0, <1>1, <1>4, <1>c, <2>1 DEF Round
  <2>2. CASE ~(due \/ t.backlog)
      BY <1>0, <1>1, <2>2, NextCameraIs
  <2> QED BY <2>1, <2>2
<1>6. /\ tracker'[c] = u /\ owed'[c] = owed[c] \ past /\ settled'[c] = settled[c] \cup past
      /\ \A d \in ArchiveCameras \ {c} :
              tracker'[d] = tracker[d] /\ owed'[d] = owed[d] /\ settled'[d] = settled[d]
    BY <1>0 DEF ScheduleTypes
<1>7. ScheduleTypes'
  <2>1. /\ tracker' \in [ArchiveCameras -> Tracker] /\ owed' \in [ArchiveCameras -> SUBSET Nat]
        /\ settled' \in [ArchiveCameras -> SUBSET Nat] /\ promised' \in [ArchiveCameras -> SUBSET Footage]
      BY <1>0, <1>2, <1>3 DEF ScheduleTypes
  <2> QED BY <1>0, <1>5, <2>1 DEF ScheduleTypes
<1>8. RoundStands'
    BY <1>0, <1>1, <1>2, <1>5, <1>6, <1>n DEF RoundStands
<1>9. u.checked \in Nat /\ u.checked <= latest /\ tracker[c].checked \in Nat
  <2>1. TrackerStands(c)
      BY <1>0 DEF ScheduleInv
  <2> QED BY <1>1, <1>2, <2>1 DEF TrackerStands, Tracker
<1>u. PICK w \in Tracker : w = u
    BY <1>2
<1>w. /\ tracker'[c] = w /\ w.checked # 0 /\ now <= w.checked /\ tracker[c].checked <= w.checked
      /\ w.checked \in {now, tracker[c].checked} /\ w.checked \in Nat /\ w.checked <= latest
    BY <1>2, <1>6, <1>9, <1>u
<1>10. (TrackerStands(c) /\ OwedStands(c) /\ SettledStands(c))'
  <2>1. TrackerStands(c) /\ OwedStands(c) /\ SettledStands(c)
      BY <1>0 DEF ScheduleInv
  <2>2. TrackerStands(c)'
      BY <1>0, <1>w, <1>5, <2>1 DEF TrackerStands
  <2>3. OwedStands(c)'
    <3> SUFFICES ASSUME NEW i \in owed'[c]
                 PROVE  /\ setting[c] \in Schedules /\ i \in Occurs[setting[c]]
                        /\ w.checked # 0 /\ w.checked < i /\ 0 < i /\ i <= latest
                        /\ i <= round.now => round.rows[c] = setting[c]
        BY <1>0, <1>5, <1>6, <1>w DEF OwedStands
    <3>1. /\ i \in owed[c] /\ i \notin past /\ i \in Nat
        BY <1>0, <1>6 DEF ScheduleTypes
    <3>2. /\ setting[c] \in Schedules /\ i \in Occurs[setting[c]]
          /\ tracker[c].checked < i /\ 0 < i /\ i <= latest
          /\ i <= now => s = setting[c]
        BY <1>0, <1>n, <1>s, <2>1, <3>1 DEF OwedStands
    <3>3. i > now
        BY <1>1, <1>3, <3>1, <3>2
    <3> QED BY <1>1, <1>w, <1>9, <3>1, <3>2, <3>3, <1>n
  <2>4. SettledStands(c)'
    <3>1. ~Departed(c)
        BY <1>0, <1>s, ConstantsOfSchedule DEF Departed
    <3>2. ASSUME NEW i \in settled'[c] PROVE i <= w.checked
      <4>1. i \in Nat
          BY <1>0, <1>3, <1>6 DEF ScheduleTypes
      <4>2. CASE i \in settled[c]
          BY <1>w, <1>9, <2>1, <3>1, <4>1, <4>2 DEF SettledStands
      <4>3. CASE i \in past
          BY <1>1, <1>w, <1>3, <1>9, <4>1, <4>3
      <4> QED BY <1>6, <4>2, <4>3
    <3> QED BY <1>w, <1>6, <3>2 DEF SettledStands
  <2> QED BY <2>2, <2>3, <2>4
<1> QED BY <1>0, <1>5, <1>6, <1>7, <1>8, <1>10, OneTracker

\* What a camera's turn at moving footage leaves: its tracker's window, and a tick that goes on.
LEMMA MoveKeeps ==
    ASSUME ScheduleInv, round.step = "run", NEW b \in BOOLEAN, NEW left \in 0..Budget,
           tracker' = [tracker EXCEPT ![round.camera].backlog = b],
           round' = [NextCamera EXCEPT !.left = left],
           UNCHANGED <<clock, latest, setting, owed, settled>>,
           waiting' \in [ArchiveCameras -> SUBSET Footage], promised' \in [ArchiveCameras -> SUBSET Footage]
    PROVE  ScheduleInv'
<1>c. PICK c \in ArchiveCameras : c = round.camera
    BY DEF ScheduleInv, RoundStands
<1>0. ScheduleTypes /\ RoundStands /\ tracker' = [tracker EXCEPT ![c].backlog = b] /\ tracker[c].checked # 0
    BY <1>c DEF ScheduleInv, RoundStands
<1>1. round' \in Round /\ round'.step = "check" /\ round'.rows = round.rows /\ round'.now = round.now
  <2>1. NextCamera \in Round /\ NextCamera.step = "check" /\ NextCamera.rows = round.rows /\ NextCamera.now = round.now
      BY <1>0, NextCameraIs DEF ScheduleTypes
  <2> QED BY <2>1 DEF Round
<1>2. /\ tracker' \in [ArchiveCameras -> Tracker] /\ tracker'[c].checked = tracker[c].checked
      /\ \A d \in ArchiveCameras \ {c} : tracker'[d] = tracker[d]
  <2>1. tracker[c] \in Tracker /\ tracker \in [ArchiveCameras -> Tracker]
      BY <1>0 DEF ScheduleTypes
  <2> DEFINE u == [tracker[c] EXCEPT !.backlog = b]
  <2>2. u \in Tracker /\ u.checked = tracker[c].checked
      BY <2>1 DEF Tracker
  <2>3. tracker' = [tracker EXCEPT ![c] = u]
      BY <1>0, <2>1
  <2> HIDE DEF u
  <2> QED BY <2>1, <2>2, <2>3
<1>3. ScheduleTypes'
    BY <1>0, <1>1, <1>2 DEF ScheduleTypes
<1>4. RoundStands'
    BY <1>0, <1>1 DEF RoundStands
<1>5. (TrackerStands(c) /\ OwedStands(c) /\ SettledStands(c))'
  <2>1. TrackerStands(c) /\ OwedStands(c) /\ SettledStands(c)
      BY DEF ScheduleInv
  <2> QED BY <1>0, <1>1, <1>2, <2>1 DEF TrackerStands, OwedStands, SettledStands, Departed
<1> QED BY <1>0, <1>1, <1>2, <1>3, <1>4, <1>5, OneTracker

LEMMA SetupFailsKeeps == ScheduleInv /\ SetupFails => ScheduleInv'
<1> SUFFICES ASSUME ScheduleInv, SetupFails PROVE ScheduleInv'
    OBVIOUS
<1>1. /\ round.step = "run" /\ round' = NextCamera /\ tracker' = [tracker EXCEPT ![round.camera].backlog = FALSE]
      /\ promised' = [promised EXCEPT ![round.camera] = {}]
      /\ UNCHANGED <<clock, latest, setting, waiting, owed, settled>> /\ ScheduleTypes
    BY DEF SetupFails, ScheduleInv
<1>2. PICK left \in 0..Budget : left = round.left
    BY <1>1 DEF ScheduleTypes, Round
<1>3. round' = [NextCamera EXCEPT !.left = left]
  <2>1. NextCamera \in Round /\ NextCamera.left = left
      BY <1>1, <1>2, NextCameraIs DEF ScheduleTypes
  <2> QED BY <1>1, <2>1 DEF Round
<1>4. promised' \in [ArchiveCameras -> SUBSET Footage] /\ waiting' \in [ArchiveCameras -> SUBSET Footage]
    BY <1>1 DEF ScheduleTypes
<1>5. FALSE \in BOOLEAN
    OBVIOUS
<1> QED BY <1>1, <1>3, <1>4, <1>5, MoveKeeps

\* The greatest number of a finite set of them.
LEMMA GreatestIs ==
    ASSUME NEW S, S \subseteq Footage, S # {}
    PROVE  \E m \in S : \A j \in S : j <= m
<1>1. PICK n \in Nat : Footage = 1..n
    BY ScheduleAssumption, FS_CardinalityType
<1> DEFINE T == {n - x : x \in S}
<1>2. T \subseteq Nat /\ T # {}
  <2>1. \A x \in S : x \in Nat /\ x <= n
      BY <1>1
  <2>2. \A x \in S : n - x \in Nat
      BY <2>1
  <2> QED BY <2>2
<1>3. PICK i \in T : \A j \in T : ~(<<j, i>> \in OpToRel(<, Nat))
  <2> HIDE DEF T
  <2> QED BY <1>2, NatLessThanWellFounded, WFMin, Zenon
<1>4. \A j \in T : ~(j < i)
    BY <1>2, <1>3 DEF OpToRel
<1>5. PICK x \in S : i = n - x
    OBVIOUS
<1>6. \A j \in S : j <= x
  <2> TAKE j \in S
  <2>1. n - j \in T /\ ~(n - j < n - x)
      BY <1>4, <1>5
  <2>2. j \in Nat /\ x \in Nat
      BY <1>1
  <2> QED BY <1>1, <2>1, <2>2
<1> QED BY <1>6

\* The oldest n are at most n.
LEMMA OldestAre ==
    ASSUME NEW S, S \subseteq Footage, NEW n \in Nat
    PROVE  /\ OldestOf(S, n) \subseteq S /\ IsFiniteSet(OldestOf(S, n))
           /\ Cardinality(OldestOf(S, n)) \in Nat /\ Cardinality(OldestOf(S, n)) <= n
<1> DEFINE O == OldestOf(S, n)
           Below(s) == {t \in S : t < s}
<1>1. O \subseteq S /\ \A s \in O : Cardinality(Below(s)) < n
    BY DEF OldestOf
<1>2. IsFiniteSet(S) /\ IsFiniteSet(O) /\ Cardinality(O) \in Nat
  <2> HIDE DEF O
  <2> QED BY <1>1, ConstantsOfSchedule, FS_Subset, FS_CardinalityType
<1> HIDE DEF O
<1>3. CASE O = {}
    BY <1>1, <1>2, <1>3, FS_EmptySet DEF O
<1>4. CASE O # {}
  <2>1. PICK m \in O : \A j \in O : j <= m
      BY <1>1, <1>4, GreatestIs
  <2>2. O \ {m} \subseteq Below(m)
    <3> SUFFICES ASSUME NEW j \in O, j # m PROVE j \in S /\ j < m
        OBVIOUS
    <3>1. j \in Nat /\ m \in Nat /\ j <= m
        BY <1>1, <2>1, ConstantsOfSchedule
    <3> QED BY <1>1, <3>1
  <2>3. IsFiniteSet(Below(m)) /\ Cardinality(Below(m)) \in Nat /\ Cardinality(Below(m)) < n
    <3>1. Below(m) \subseteq S
        OBVIOUS
    <3>2. Cardinality(Below(m)) < n
        BY <1>1
    <3> HIDE DEF Below
    <3> QED BY <1>2, <3>1, <3>2, FS_Subset, FS_CardinalityType
  <2> HIDE DEF Below
  <2>4. Cardinality(O \ {m}) = Cardinality(O) - 1
      BY <1>2, <2>1, FS_RemoveElement
  <2>5. Cardinality(O \ {m}) <= Cardinality(Below(m))
      BY <2>2, <2>3, FS_Subset
  <2>6. Cardinality(O) <= n
      BY <1>2, <2>3, <2>4, <2>5
  <2> QED BY <1>1, <1>2, <2>6 DEF O
<1> QED BY <1>3, <1>4

LEMMA ArchiveKeeps ==
    ASSUME ScheduleInv, round.step = "run", NEW tried, NEW stay, Archive(tried, stay),
           tried \subseteq Footage, IsFiniteSet(tried), Cardinality(tried) <= round.left
    PROVE  ScheduleInv'
<1>1. /\ tracker' = [tracker EXCEPT ![round.camera].backlog = Pending(Listed, tried)]
      /\ UNCHANGED <<clock, latest, setting, owed, settled>> /\ ScheduleTypes
    BY DEF Archive, ScheduleInv
<1>2. PICK b \in BOOLEAN : b = Pending(Listed, tried)
    BY DEF Pending
<1>3. round.left - Cardinality(tried) \in 0..Budget
  <2>1. Cardinality(tried) \in Nat
      BY FS_CardinalityType
  <2> QED BY <1>1, <2>1, ConstantsOfSchedule DEF ScheduleTypes, Round
<1>4. round' = [NextCamera EXCEPT !.left = round.left - Cardinality(tried)]
  <2>1. NextCamera \in Round /\ NextCamera.left = round.left
      BY <1>1, NextCameraIs DEF ScheduleTypes
  <2> QED BY <2>1 DEF Archive, Round
<1>5. PICK left \in 0..Budget : left = round.left - Cardinality(tried)
    BY <1>3
<1>6. promised' \in [ArchiveCameras -> SUBSET Footage] /\ waiting' \in [ArchiveCameras -> SUBSET Footage]
    BY <1>1 DEF Archive, ScheduleTypes
<1>7. tracker' = [tracker EXCEPT ![round.camera].backlog = b] /\ round' = [NextCamera EXCEPT !.left = left]
    BY <1>1, <1>2, <1>4, <1>5
<1> QED BY <1>1, <1>6, <1>7, MoveKeeps

LEMMA ListedIs ==
    ASSUME ScheduleInv, round.step = "run"
    PROVE  /\ Listed \subseteq Footage /\ round.left \in Nat
           /\ Tried(Listed) \subseteq Footage /\ IsFiniteSet(Tried(Listed))
           /\ Cardinality(Tried(Listed)) \in Nat /\ Cardinality(Tried(Listed)) <= round.left
<1>1. waiting[round.camera] \subseteq Footage /\ round.left \in Nat
    BY ConstantsOfSchedule DEF ScheduleInv, ScheduleTypes, RoundStands, Round
<1>2. Listed \subseteq Footage
    BY <1>1, OldestAre, ConstantsOfSchedule DEF Listed
<1> HIDE DEF Listed
<1>3. /\ Tried(Listed) \subseteq Listed /\ IsFiniteSet(Tried(Listed))
      /\ Cardinality(Tried(Listed)) \in Nat /\ Cardinality(Tried(Listed)) <= round.left
    BY <1>1, <1>2, OldestAre DEF Tried
<1> QED BY <1>1, <1>2, <1>3

LEMMA RunsKeep == ScheduleInv /\ (RunArchive \/ DestinationFull) => ScheduleInv'
<1> SUFFICES ASSUME ScheduleInv, RunArchive \/ DestinationFull PROVE ScheduleInv'
    OBVIOUS
<1>1. CASE RunArchive
  <2>1. round.step = "run" /\ Archive(Tried(Listed), Unmovable)
      BY <1>1 DEF RunArchive
  <2> QED BY <2>1, ListedIs, ArchiveKeeps
<1>2. CASE DestinationFull
  <2>1. PICK n \in 1..Cardinality(Tried(Listed)) :
            LET tried == OldestOf(Listed, n)
            IN  Archive(tried, Unmovable \cup (tried \ OldestOf(tried, n - 1)))
      BY <1>2 DEF DestinationFull
  <2>2. round.step = "run"
      BY <1>2 DEF DestinationFull
  <2>3. /\ Listed \subseteq Footage /\ round.left \in Nat
        /\ Cardinality(Tried(Listed)) \in Nat /\ Cardinality(Tried(Listed)) <= round.left
      BY <2>2, ListedIs
  <2>4. n \in Nat /\ n <= round.left
      BY <2>3
  <2> DEFINE tried == OldestOf(Listed, n)
  <2>5. /\ tried \subseteq Footage /\ IsFiniteSet(tried)
        /\ Cardinality(tried) \in Nat /\ Cardinality(tried) <= n
      BY <2>3, <2>4, OldestAre
  <2>6. Archive(tried, Unmovable \cup (tried \ OldestOf(tried, n - 1)))
      BY <2>1
  <2> HIDE DEF tried
  <2>7. Cardinality(tried) <= round.left
      BY <2>3, <2>4, <2>5
  <2> QED BY <2>2, <2>5, <2>6, <2>7, ArchiveKeeps
<1> QED BY <1>1, <1>2

LEMMA EndTickKeeps == ScheduleInv /\ EndTick => ScheduleInv'
<1> SUFFICES ASSUME ScheduleInv, EndTick PROVE ScheduleInv'
    OBVIOUS
<1>0. /\ UNCHANGED <<clock, latest, setting, waiting, owed, settled>> /\ ScheduleTypes
      /\ round.step = "check" /\ round' = IdleRound
    BY DEF EndTick, ScheduleInv
<1>1. ASSUME NEW c \in ArchiveCameras
      PROVE  /\ tracker'[c] = IF round.rows[c] = "deleted" THEN NoTracker ELSE tracker[c]
             /\ promised'[c] \in SUBSET Footage
  <2>1. promised[c] \in SUBSET Footage
      BY <1>0 DEF ScheduleTypes
  <2> QED BY <2>1 DEF EndTick
<1>2. tracker' \in [ArchiveCameras -> Tracker] /\ promised' \in [ArchiveCameras -> SUBSET Footage]
  <2>1. tracker' = [c \in ArchiveCameras |-> tracker'[c]] /\ promised' = [c \in ArchiveCameras |-> promised'[c]]
      BY DEF EndTick
  <2>2. \A c \in ArchiveCameras : tracker'[c] \in Tracker
      BY <1>0, <1>1, ConstantsOfSchedule DEF ScheduleTypes
  <2> QED BY <1>1, <2>1, <2>2
<1>3. ScheduleTypes' /\ RoundStands'
    BY <1>0, <1>2, ConstantsOfSchedule DEF ScheduleTypes, RoundStands
<1>4. ASSUME NEW c \in ArchiveCameras PROVE (TrackerStands(c) /\ OwedStands(c) /\ SettledStands(c))'
  <2>1. TrackerStands(c) /\ OwedStands(c) /\ SettledStands(c)
      BY DEF ScheduleInv
  <2>2. round'.step = "idle" /\ round'.now = 0 /\ latest \in Nat
      BY <1>0, ConstantsOfSchedule DEF ScheduleTypes
  <2>3. CASE round.rows[c] = "deleted"
    <3>1. setting[c] = "deleted" /\ tracker'[c] = NoTracker
        BY <1>0, <1>1, <2>1, <2>3 DEF TrackerStands
    <3>2. owed[c] = {}
        BY <2>1, <3>1, ConstantsOfSchedule DEF OwedStands
    <3> QED BY <1>0, <2>2, <3>1, <3>2, ConstantsOfSchedule DEF TrackerStands, OwedStands, SettledStands, Departed
  <2>4. CASE round.rows[c] # "deleted"
    <3>1. tracker'[c] = tracker[c]
        BY <1>1, <2>4
    <3> QED BY <1>0, <2>1, <2>2, <2>4, <3>1 DEF TrackerStands, OwedStands, SettledStands, Departed
  <2> QED BY <2>3, <2>4
<1> QED BY <1>3, <1>4 DEF ScheduleInv

LEMMA ScheduleStep == ScheduleInv /\ [ScheduleNext]_schedule => ScheduleInv'
<1> SUFFICES ASSUME ScheduleInv, [ScheduleNext]_schedule PROVE ScheduleInv'
    OBVIOUS
<1>1. CASE UNCHANGED schedule
  <2>1. ASSUME NEW c \in ArchiveCameras PROVE (TrackerStands(c) /\ OwedStands(c) /\ SettledStands(c))'
      BY <1>1 DEF schedule, ScheduleInv, TrackerStands, OwedStands, SettledStands, Departed
  <2> QED BY <1>1, <2>1 DEF schedule, ScheduleInv, ScheduleTypes, RoundStands
<1> QED BY <1>1, PassTimeKeeps, StepBackKeeps, RescheduleKeeps, RestartKeeps, ListCamerasKeeps, TakeNowKeeps,
           SkipCameraKeeps, DropTrackerKeeps, CheckScheduleKeeps, SetupFailsKeeps, RunsKeep, EndTickKeeps
        DEF ScheduleNext, TickStep

LEMMA ScheduleMeans == ScheduleInv => ScheduleTypeOK
<1> SUFFICES ASSUME ScheduleInv PROVE ScheduleTypeOK
    OBVIOUS
<1>1. ScheduleTypes /\ MaxClock \in Nat
    BY ConstantsOfSchedule DEF ScheduleInv
<1>2. clock \in 2..MaxClock /\ latest \in clock..MaxClock
    BY <1>1 DEF ScheduleTypes
<1>3. round.left \in 0..Budget /\ round.now <= latest /\ round.step \in {"idle", "listed", "check", "run"}
    BY <1>1 DEF ScheduleTypes, Round
<1>4. ASSUME NEW c \in ArchiveCameras
      PROVE  /\ tracker[c].schedule \in Schedules \cup {"none"}
             /\ tracker[c].checked \in 0..latest /\ tracker[c].backlog \in BOOLEAN
             /\ owed[c] \subseteq 1..latest /\ promised[c] \subseteq Footage
  <2>1. TrackerStands(c) /\ OwedStands(c) /\ latest \in Nat /\ tracker[c] \in Tracker
      BY <1>1 DEF ScheduleInv, ScheduleTypes
  <2>2. tracker[c].schedule \in Schedules \cup {"none"} /\ tracker[c].backlog \in BOOLEAN /\ tracker[c].checked \in Nat
      BY <2>1 DEF Tracker
  <2>3. tracker[c].checked \in 0..latest
      BY <2>1, <2>2 DEF TrackerStands
  <2>4. owed[c] \subseteq 1..latest
      BY <1>1, <2>1 DEF OwedStands, ScheduleTypes
  <2> QED BY <1>1, <2>2, <2>3, <2>4 DEF ScheduleTypes
<1> QED BY <1>1, <1>2, <1>3, <1>4 DEF ScheduleTypes, ScheduleTypeOK

-----------------------------------------------------------------------------
(* Each occurrence fires once. *)

FiresOnce ==
    \A c \in ArchiveCameras : Checks(c) =>
          LET past == {i \in Occurs[round.rows[c]] : i <= round.now} IN
          /\ \A i \in owed[c] : i <= round.now => Fires
          /\ Fires => \E i \in past \ settled[c] :
                tracker[c] = NoTracker => i >= MinuteOf(round.now)

\* A check is a CheckSchedule, nothing else changes the tick there.
LEMMA ChecksIs ==
    ASSUME ScheduleInv, [ScheduleNext]_schedule, NEW c \in ArchiveCameras, Checks(c)
    PROVE  CheckSchedule /\ c = round.camera
<1>0. /\ round.step = "check" /\ round.camera = c /\ round.rows[c] \in Schedules
      /\ round' # round /\ round'.step # "idle"
    BY DEF Checks, Here
<1>1. ~(UNCHANGED round)
    BY <1>0
<1>2. ~SkipCamera /\ ~DropTracker
    BY <1>0, ConstantsOfSchedule DEF SkipCamera, DropTracker
<1>3. ~EndTick /\ ~RestartScheduler
    BY <1>0, ConstantsOfSchedule DEF EndTick, RestartScheduler
<1>4. ~ListCameras /\ ~TakeNow /\ ~SetupFails /\ ~RunArchive /\ ~DestinationFull
    BY <1>0 DEF ListCameras, TakeNow, SetupFails, RunArchive, DestinationFull
<1>5. ~PassTime /\ ~StepBack /\ \A d \in ArchiveCameras, s \in Settings : ~Reschedule(d, s)
    BY <1>1 DEF PassTime, StepBack, Reschedule
<1> QED BY <1>0, <1>1, <1>2, <1>3, <1>4, <1>5 DEF ScheduleNext, TickStep, schedule

LEMMA FiresOnceHolds == ScheduleInv /\ [ScheduleNext]_schedule => FiresOnce
<1> SUFFICES ASSUME ScheduleInv, [ScheduleNext]_schedule, NEW c \in ArchiveCameras, Checks(c)
             PROVE  /\ \A i \in owed[c] : i <= round.now => Fires
                    /\ Fires => \E i \in {i \in Occurs[round.rows[c]] : i <= round.now} \ settled[c] :
                          tracker[c] = NoTracker => i >= MinuteOf(round.now)
    BY DEF FiresOnce
<1>1. CheckSchedule /\ c = round.camera
    BY ChecksIs
<1>2. PICK s \in Schedules : s = round.rows[c]
    BY <1>1 DEF CheckSchedule
<1>3. PICK now \in Nat : now = round.now
    BY DEF ScheduleInv, ScheduleTypes, Round
<1>4. /\ 2 <= now /\ tracker[c] \in Tracker /\ tracker[c].checked \in Nat
      /\ TrackerStands(c) /\ OwedStands(c) /\ SettledStands(c) /\ round \in Round /\ round.step = "check"
    BY <1>1, <1>3 DEF CheckSchedule, Here, ScheduleInv, ScheduleTypes, RoundStands, Tracker
<1> DEFINE t == EnsureTracker(tracker[c], s)
           due == IsDue(t, now)
<1>5. /\ tracker[c].checked # 0 => WindowStart(t, now) = tracker[c].checked
      /\ tracker[c].checked = 0 => WindowStart(t, now) = MinuteOf(now) - 1
      /\ t.schedule = s
    BY <1>4, AdvanceIs
<1>6. round' = IF due \/ t.backlog THEN [round EXCEPT !.step = "run", !.due = due] ELSE NextCamera
    BY <1>1, <1>2, <1>3 DEF CheckSchedule
<1>7. due <=> \E i \in Occurs[s] : WindowStart(t, now) < i /\ i <= now
    BY <1>5 DEF IsDue
<1>8. Occurs[s] \subseteq Nat
    BY ScheduleAssumption, ConstantsOfSchedule
<1>9. PICK b \in BOOLEAN : b = due
    BY DEF IsDue
<1> HIDE DEF t, due
<1>10. Fires <=> due
  <2>1. CASE due \/ t.backlog
    <3>1. round' = [round EXCEPT !.step = "run", !.due = b]
        BY <1>6, <1>9, <2>1
    <3>2. round'.step = "run" /\ round'.due = b
        BY <1>4, <3>1 DEF Round
    <3>3. Fires <=> b
        BY <3>2, Zenon DEF Fires
    <3> QED BY <1>9, <3>3
  <2>2. CASE ~(due \/ t.backlog)
    <3>1. round'.step = "check"
        BY <1>4, <1>6, <2>2, NextCameraIs
    <3> QED BY <2>2, <3>1 DEF Fires
  <2> QED BY <2>1, <2>2
<1>11. ASSUME NEW i \in owed[c], i <= round.now PROVE due
  <2>1. /\ i \in Nat /\ i \in Occurs[s] /\ tracker[c].checked # 0 /\ tracker[c].checked < i
      BY <1>2, <1>4, <1>11 DEF OwedStands, ScheduleInv, ScheduleTypes
  <2> QED BY <1>3, <1>5, <1>7, <1>11, <2>1
<1>12. ASSUME due
       PROVE  \E i \in {i \in Occurs[round.rows[c]] : i <= round.now} \ settled[c] :
                  tracker[c] = NoTracker => i >= MinuteOf(round.now)
  <2>1. PICK i \in Occurs[s] : WindowStart(t, now) < i /\ i <= now
      BY <1>7, <1>12
  <2>2. i \in Nat /\ MinuteOf(now) \in Int
      BY <1>8, MinuteIs
  <2>3. i \notin settled[c]
    <3>1. ~Departed(c)
        BY <1>2, <1>4, ConstantsOfSchedule DEF Departed
    <3>2. i \in settled[c] => tracker[c].checked # 0 /\ i <= tracker[c].checked
        BY <1>4, <3>1 DEF SettledStands
    <3> QED BY <1>4, <1>5, <2>1, <2>2, <3>2
  <2>4. tracker[c] = NoTracker => i >= MinuteOf(now)
      BY <1>5, <2>1, <2>2, ConstantsOfSchedule
  <2> QED BY <1>2, <1>3, <2>1, <2>3, <2>4
<1> QED BY <1>10, <1>11, <1>12

-----------------------------------------------------------------------------
(* The walk over the files: the inductive invariant. *)

\* What the archiver makes of a file, the files the index may have both of, and the steps at
\* which the pass has a file in hand.
FreshCopy == [root |-> "archive", loser |-> FALSE]
LoserCopy == [root |-> "archive", loser |-> TRUE]
Size(f) == tree[f].size
Both == Exists(Fresh) /\ Exists(FreshCopy)
InHand == {"judge", "insert", "confirm", "park"}

\* Types, part by part. That the row is one is said without a cardinality.
TreeTyped == DOMAIN tree \subseteq Files /\ tree \in [DOMAIN tree -> Stat]
RowTyped == index \subseteq Row /\ \A x, y \in index : x = y
WorldTyped ==
    /\ parked \subseteq Parked
    /\ camera \in BOOLEAN /\ born \in BOOLEAN /\ closing \subseteq {Fresh, Loser}
    /\ events \in Nat /\ events <= MaxEvents
MoveTyped == transfer \in [src : {Fresh, Loser}, step : {"none", "copied", "flipped"}, row : BOOLEAN]
PageTyped == page \in [rows : SUBSET Row, same : BOOLEAN] /\ \A x, y \in page.rows : x = y
CursorTyped ==
    /\ pc \in {"rest", "row", "unlinked", "roots", "listed", "offer",
               "judge", "insert", "confirm", "park", "purge"}
    /\ roots \in Walks \cup {<<"live">>, <<"archive">>, <<>>}
    /\ pc \in {"roots", "listed", "offer"} \cup InHand => roots # <<>>
    /\ offers \subseteq Files /\ cand \in Files /\ weight \in Sizes

WalkTypes == TreeTyped /\ RowTyped /\ WorldTyped /\ MoveTyped /\ PageTyped /\ CursorTyped

\* The segment of the plain name is not written to any more: it keeps its size, or is gone. It
\* has come to this before anything else is made of the start time: a copy, a loser, an orphan.
Done == born /\ (Exists(Fresh) => tree[Fresh].age # "young")

Begun ==
    \/ \E f \in DOMAIN tree : f # Fresh
    \/ \E x \in index \cup page.rows : x.at # Fresh
    \/ transfer.step # "none"
    \/ pc \in InHand \cup {"unlinked"}
    \/ Loser \in closing

DoneStands ==
    /\ Begun => Done
    /\ DOMAIN tree # {} \/ offers # {} => born
    /\ \A f \in DOMAIN tree : tree[f].open => f = Fresh /\ tree[f].age = "young"

\* A suffixed file that is on its way into the index is young.
LosersStand ==
    /\ Loser \in closing /\ Exists(Loser) => tree[Loser].age = "young"
    /\ Exists(Loser) => Size(Loser) = MaxSize
    /\ transfer.step = "copied" /\ transfer.src = Loser =>
          /\ Exists(LoserCopy) => tree[LoserCopy].age = "young" /\ Size(LoserCopy) = MaxSize
          /\ \A x \in index : x.at # LoserCopy
          /\ camera => ~Both
          /\ transfer.row => \A x \in index : x.at \in {Loser, Fresh} /\ (x.at = Fresh /\ Exists(Fresh) => Size(Fresh) > 0)
    /\ \A x \in index \cup page.rows : x.at = LoserCopy /\ Exists(LoserCopy) => Size(LoserCopy) = MaxSize

\* While the plain file and its copy are both there, the row is at one of them, and they are of
\* one size if it is at the copy: what the pass takes for a duplicate is one.
CopiesStand ==
    /\ ~camera => index = {}
    /\ transfer.step = "copied" /\ transfer.row => index # {}
    /\ camera /\ Both => \E x \in index : x.at \in {Fresh, FreshCopy}
    /\ Both => \A x \in index : x.at = FreshCopy => Size(FreshCopy) = Size(Fresh)
    /\ Both /\ transfer.step = "copied" /\ transfer.src = Fresh =>
          Size(FreshCopy) = Size(Fresh) /\ \A x \in index : x.at = Fresh

\* The row the pass has read, against what has become of it.
PageStands ==
    page.same =>
        /\ index # {} /\ page.rows # {}
        /\ \A r \in page.rows, x \in index :
              /\ x.at = Loser => r.at = Loser
              /\ x.at = LoserCopy => r.at \in {LoserCopy, Loser, Fresh}
              /\ x.at = LoserCopy /\ r.at = Fresh /\ Exists(Fresh) => Size(Fresh) > 0
              /\ x.at = Fresh /\ r.at = FreshCopy =>
                    /\ Exists(Fresh) => Size(Fresh) > 0
                    /\ Exists(FreshCopy) => Size(FreshCopy) > 0
                    /\ Both => Size(FreshCopy) = Size(Fresh)
              /\ transfer.step = "copied" /\ transfer.src = Loser /\ transfer.row => r.at \in {Loser, Fresh}

\* Between the removal of a stub and that of its row.
UnlinkedStands ==
    pc = "unlinked" /\ page.same =>
        /\ \A r \in page.rows : r.at \in {Fresh, FreshCopy} /\ ~Exists(r.at)
        /\ \A x \in index : /\ Exists(x.at) => Size(x.at) = 0
                            /\ FreshCopy \in {r.at : r \in page.rows} => x.at = FreshCopy
        /\ Exists(Fresh) => Size(Fresh) = 0
        /\ transfer.step = "copied" /\ transfer.row =>
              transfer.src = Fresh /\ (Exists(FreshCopy) => Size(FreshCopy) = 0)

\* The file the pass has in hand.
CandStands ==
    /\ pc \in {"judge", "confirm", "park"} /\ Exists(cand) => tree[cand].age # "young"
    /\ pc \in {"listed", "offer"} \cup InHand => \A f \in offers : f.root = roots[1]
    /\ pc \in InHand => cand.root = roots[1]
    /\ pc = "confirm" => cand.loser
    /\ pc = "insert" => ~cand.loser
    /\ pc = "park" /\ Exists(cand) =>
          IF cand.loser THEN \A x \in index : x.at # cand ELSE index = {} \/ Size(cand) = 0
    /\ pc = "park" /\ ~cand.loser => ~camera \/ (Exists(cand) => Size(cand) = 0)

ParkedStands == \A q \in parked : q.age = "old" => q.reviewed

WalkInv ==
    /\ WalkTypes /\ DoneStands /\ LosersStand /\ CopiesStand /\ PageStands /\ UnlinkedStands
    /\ CandStands /\ ParkedStands

\* The four files of a start time.
LEMMA FilesAre ==
    /\ Files = {Fresh, Loser, FreshCopy, LoserCopy}
    /\ Fresh # Loser /\ Fresh # FreshCopy /\ Fresh # LoserCopy
    /\ Loser # FreshCopy /\ Loser # LoserCopy /\ FreshCopy # LoserCopy
    /\ ~Fresh.loser /\ ~FreshCopy.loser /\ Loser.loser /\ LoserCopy.loser
    /\ Fresh.root = "live" /\ Loser.root = "live"
    /\ FreshCopy.root = "archive" /\ LoserCopy.root = "archive"
    /\ Away(Fresh) = FreshCopy /\ Away(Loser) = LoserCopy
    /\ Away(FreshCopy) = FreshCopy /\ Away(LoserCopy) = LoserCopy
<1> USE DEF Fresh, Loser, FreshCopy, LoserCopy, Away, Files
<1>1. ASSUME NEW f \in Files PROVE f \in {Fresh, Loser, FreshCopy, LoserCopy}
    <2>1. f = [root |-> f.root, loser |-> f.loser] /\ f.root \in {"live", "archive"} /\ f.loser \in BOOLEAN
        OBVIOUS
    <2> QED BY <2>1
<1>2. {Fresh, Loser, FreshCopy, LoserCopy} \subseteq Files
    OBVIOUS
<1>3. Fresh # Loser /\ Fresh # FreshCopy /\ Fresh # LoserCopy
      /\ Loser # FreshCopy /\ Loser # LoserCopy /\ FreshCopy # LoserCopy
    OBVIOUS
<1>4. \A f \in Files : Away(f) = [root |-> "archive", loser |-> f.loser]
    OBVIOUS
<1>5. /\ ~Fresh.loser /\ ~FreshCopy.loser /\ Loser.loser /\ LoserCopy.loser
      /\ Fresh.root = "live" /\ Loser.root = "live"
      /\ FreshCopy.root = "archive" /\ LoserCopy.root = "archive"
    OBVIOUS
<1>6. /\ Away(Fresh) = FreshCopy /\ Away(Loser) = LoserCopy
      /\ Away(FreshCopy) = FreshCopy /\ Away(LoserCopy) = LoserCopy
    <2> HIDE DEF Away
    <2> QED BY <1>2, <1>4
<1> HIDE DEF Fresh, Loser, FreshCopy, LoserCopy, Away, Files
<1> QED BY <1>1, <1>2, <1>3, <1>5, <1>6

LEMMA WalkStart == WalkInit => WalkInv
<1> SUFFICES ASSUME WalkInit PROVE WalkInv
    OBVIOUS
<1>0. 0 \in Sizes /\ MaxEvents \in Nat
    BY WalkAssumption DEF Sizes
<1>1. WalkTypes
    <2>1. TreeTyped
        <3>1. CASE tree = [g \in {} |-> g]
            BY <3>1 DEF TreeTyped
        <3>2. ASSUME NEW n \in Sizes, tree = [g \in {Fresh} |-> [size |-> n, open |-> FALSE, age |-> "old"]] PROVE TreeTyped
            BY <3>2, FilesAre DEF TreeTyped, Stat, Ages
        <3> QED BY <3>1, <3>2 DEF WalkInit
    <2>2. RowTyped
        BY FilesAre DEF WalkInit, Row, RowTyped
    <2>3. MoveTyped
        BY DEF WalkInit, NoMove, MoveTyped
    <2>4. PageTyped
        BY DEF WalkInit, NoPage, PageTyped
    <2>5. WorldTyped
        <3>1. events \in Nat /\ events <= MaxEvents
            BY <1>0 DEF WalkInit
        <3> QED BY <3>1 DEF WalkInit, WorldTyped
    <2>6. CursorTyped
        BY <1>0, FilesAre DEF WalkInit, CursorTyped, InHand
    <2> QED BY <2>1, <2>2, <2>3, <2>4, <2>5, <2>6 DEF WalkTypes
<1>2. DoneStands
    BY <1>1, FilesAre DEF WalkInit, DoneStands, Begun, Done, Exists, NoMove, NoPage, InHand
<1>3. LosersStand /\ CopiesStand
    BY <1>1, FilesAre DEF WalkInit, LosersStand, CopiesStand, Exists, NoMove, NoPage, Both, Size
<1>4. PageStands /\ UnlinkedStands /\ CandStands /\ ParkedStands
    BY <1>1, FilesAre DEF WalkInit, PageStands, UnlinkedStands, CandStands, ParkedStands, NoPage, InHand
<1> QED BY <1>1, <1>2, <1>3, <1>4 DEF WalkInv

-----------------------------------------------------------------------------
(* The steps of the pass. *)

LEMMA NoMoveIs ==
    /\ NoMove \in [src : {Fresh, Loser}, step : {"none", "copied", "flipped"}, row : BOOLEAN]
    /\ NoMove.step = "none"
BY DEF NoMove

\* What only reads leaves the files, the row and what others do with them as they were.
LEMMA ReadingKeeps ==
    ASSUME WalkInv, UNCHANGED <<tree, index, parked, camera, born>>,
           closing' \subseteq closing, transfer' = transfer \/ transfer' = NoMove,
           events' \in Nat /\ events' <= MaxEvents,
           PageTyped', CursorTyped',
           page' = page \/ page' = NoPage \/ page' = [rows |-> index, same |-> index # {}],
           pc' = "unlinked" => pc = "unlinked" /\ page' = page,
           pc' \in InHand => pc \in InHand \/ Done,
           offers' \subseteq offers \/ born,
           CandStands'
    PROVE  WalkInv'
<1>1. WalkTypes'
    <2>1. TreeTyped' /\ RowTyped'
        BY DEF WalkInv, WalkTypes, TreeTyped, RowTyped
    <2>3. MoveTyped'
        BY NoMoveIs DEF WalkInv, WalkTypes, MoveTyped
    <2>2. WorldTyped'
        BY DEF WalkInv, WalkTypes, WorldTyped
    <2> QED BY <2>1, <2>2, <2>3 DEF WalkTypes
<1>2. DoneStands'
    <2>1. Done' = Done /\ (Done \in BOOLEAN)
        BY DEF Done, Exists
    <2>2. page'.rows \subseteq page.rows \cup index
        BY DEF NoPage
    <2>3. Begun' => Begun \/ Done
        BY <2>2, NoMoveIs DEF Begun
    <2>4. pc' \in InHand \cup {"unlinked"} => Begun \/ Done
        BY DEF Begun
    <2> QED BY <2>1, <2>2, <2>3, <2>4 DEF WalkInv, DoneStands
<1>3. LosersStand'
    BY NoMoveIs DEF WalkInv, LosersStand, Exists, Size, Both, NoPage
<1>4. CopiesStand'
    BY NoMoveIs DEF WalkInv, CopiesStand, Exists, Size, Both
<1>5. PageStands'
    <2>1. CASE page' = page
        BY <2>1, NoMoveIs DEF WalkInv, PageStands, Exists, Size, Both
    <2>2. CASE page' = NoPage
        BY <2>2 DEF PageStands, NoPage
    <2>3. CASE page' = [rows |-> index, same |-> index # {}]
        <3>1. page'.rows = index
            BY <2>3
        <3>2. \A r, x \in index : r = x
            BY DEF WalkInv, WalkTypes, RowTyped
        <3>3. ASSUME NEW x \in index
              PROVE  /\ ~(x.at = LoserCopy /\ x.at = Fresh) /\ ~(x.at = Fresh /\ x.at = FreshCopy)
                     /\ transfer'.step = "copied" /\ transfer'.src = Loser /\ transfer'.row => x.at \in {Loser, Fresh}
            BY FilesAre, NoMoveIs DEF WalkInv, LosersStand
        <3> QED BY <2>3, <3>1, <3>2, <3>3 DEF PageStands
    <2> QED BY <2>1, <2>2, <2>3
<1>6. UnlinkedStands' /\ ParkedStands'
    BY NoMoveIs DEF WalkInv, UnlinkedStands, ParkedStands, Exists, Size
<1> QED BY <1>1, <1>2, <1>3, <1>4, <1>5, <1>6 DEF WalkInv

LEMMA ReadRowsKeeps == WalkInv /\ ReadRows => WalkInv'
<1> SUFFICES ASSUME WalkInv, ReadRows PROVE WalkInv'
    OBVIOUS
<1>1. PageTyped' /\ CursorTyped' /\ CandStands' /\ page' = [rows |-> index, same |-> index # {}]
    BY DEF ReadRows, WalkInv, WalkTypes, PageTyped, CursorTyped, CandStands, InHand, RowTyped
<1> QED BY <1>1, ReadingKeeps DEF ReadRows, WalkInv, WalkTypes, WorldTyped, world, InHand

LEMMA NothingIndexedKeeps == WalkInv /\ NothingIndexed => WalkInv'
<1> SUFFICES ASSUME WalkInv, NothingIndexed PROVE WalkInv'
    OBVIOUS
<1>1. PageTyped' /\ CursorTyped' /\ CandStands' /\ page' = NoPage
    BY DEF NothingIndexed, RowsDone, NoPage, WalkInv, WalkTypes, PageTyped, CursorTyped, CandStands, InHand, Walks
<1> QED BY <1>1, ReadingKeeps DEF NothingIndexed, RowsDone, WalkInv, WalkTypes, WorldTyped, world, InHand

LEMMA ListKeeps == WalkInv /\ List => WalkInv'
<1> SUFFICES ASSUME WalkInv, List PROVE WalkInv'
    OBVIOUS
<1>1. PageTyped' /\ CursorTyped' /\ CandStands'
    BY DEF List, Lists, WalkInv, WalkTypes, TreeTyped, PageTyped, CursorTyped, CandStands, InHand
<1>2. offers' \subseteq DOMAIN tree /\ (DOMAIN tree # {} => born)
    BY DEF List, Lists, WalkInv, DoneStands
<1> QED BY <1>1, <1>2, ReadingKeeps DEF List, WalkInv, WalkTypes, WorldTyped, world, InHand

LEMMA CompareKeeps == WalkInv /\ Compare => WalkInv'
<1> SUFFICES ASSUME WalkInv, Compare PROVE WalkInv'
    OBVIOUS
<1>1. PageTyped' /\ CursorTyped' /\ CandStands' /\ offers' \subseteq offers
    BY DEF Compare, WalkInv, WalkTypes, PageTyped, CursorTyped, CandStands, InHand
<1> QED BY <1>1, ReadingKeeps DEF Compare, WalkInv, WalkTypes, WorldTyped, world, InHand

LEMMA GateKeeps == ASSUME WalkInv, NEW f \in offers, Gate(f) PROVE WalkInv'
<1>1. PageTyped' /\ CursorTyped' /\ CandStands' /\ offers' \subseteq offers
    BY DEF Gate, Exists, InFlight, WalkInv, WalkTypes, PageTyped, CursorTyped, CandStands, InHand
<1>2. pc' \in InHand => Done
    BY FilesAre DEF Gate, Exists, InFlight, InHand, WalkInv, WalkTypes, CursorTyped, DoneStands, Begun, Done
<1> QED BY <1>1, <1>2, ReadingKeeps DEF Gate, WalkInv, WalkTypes, WorldTyped, world, InHand

LEMMA JudgeKeeps == WalkInv /\ Judge => WalkInv'
<1> SUFFICES ASSUME WalkInv, Judge PROVE WalkInv'
    OBVIOUS
<1>1. Exists(cand) => tree[cand].size \in Sizes
    BY DEF Exists, WalkInv, WalkTypes, TreeTyped, Stat
<1>2. PageTyped' /\ CursorTyped' /\ offers' \subseteq offers
    BY <1>1 DEF Judge, Verdict, WalkInv, WalkTypes, PageTyped, CursorTyped, InHand
<1>3. CandStands'
    <2>1. CASE cand.loser
        BY <2>1 DEF Judge, Verdict, Exists, WalkInv, CandStands, InHand
    <2>2. CASE ~cand.loser /\ ~camera
        <3>1. pc = "judge" /\ pc' = "park" /\ index = {} /\ UNCHANGED <<tree, index, camera, cand, offers, roots>>
            BY <2>2 DEF Judge, Verdict, WalkInv, CopiesStand, world
        <3> QED BY <2>2, <3>1 DEF Exists, WalkInv, CandStands, InHand
    <2>3. CASE ~cand.loser /\ camera
        BY <2>3 DEF Judge, Verdict, Exists, Size, WalkInv, CandStands, InHand
    <2> QED BY <2>1, <2>2, <2>3
<1> QED BY <1>2, <1>3, ReadingKeeps DEF Judge, Verdict, WalkInv, WalkTypes, WorldTyped, world, InHand

LEMMA ConfirmKeeps == WalkInv /\ Confirm => WalkInv'
<1> SUFFICES ASSUME WalkInv, Confirm PROVE WalkInv'
    OBVIOUS
<1>1. PageTyped' /\ CursorTyped' /\ CandStands'
    BY DEF Confirm, Indexed, Exists, WalkInv, WalkTypes, PageTyped, CursorTyped, CandStands, InHand
<1> QED BY <1>1, ReadingKeeps DEF Confirm, WalkInv, WalkTypes, WorldTyped, world, InHand

LEMMA NextRootKeeps == WalkInv /\ NextRoot => WalkInv'
<1> SUFFICES ASSUME WalkInv, NextRoot PROVE WalkInv'
    OBVIOUS
<1>0. roots' \in {<<"live">>, <<"archive">>, <<>>}
    <2>1. roots \in {<<"live", "archive">>, <<"archive", "live">>, <<"live">>, <<"archive">>}
        BY DEF NextRoot, WalkInv, WalkTypes, CursorTyped, Walks, InHand
    <2>2. roots' = Tail(roots)
        BY DEF NextRoot
    <2>3. Tail(<<"live", "archive">>) = <<"archive">> /\ Tail(<<"archive", "live">>) = <<"live">>
        OBVIOUS
    <2>4. Tail(<<"live">>) = <<>> /\ Tail(<<"archive">>) = <<>>
        OBVIOUS
    <2> QED BY <2>1, <2>2, <2>3, <2>4
<1>1. PageTyped' /\ CursorTyped'
    BY <1>0, FilesAre DEF NextRoot, WalkInv, WalkTypes, PageTyped, CursorTyped, Walks, InHand
<1>2. CandStands'
    BY DEF NextRoot, CandStands, InHand
<1> QED BY <1>1, <1>2, ReadingKeeps DEF NextRoot, WalkInv, WalkTypes, WorldTyped, world, InHand

LEMMA WalkFailsKeeps == WalkInv /\ WalkFails => WalkInv'
<1> SUFFICES ASSUME WalkInv, WalkFails PROVE WalkInv'
    OBVIOUS
<1>0. 0 \in Sizes /\ events' \in Nat /\ events' <= MaxEvents
    BY WalkAssumption DEF WalkFails, Interferes, Sizes, WalkInv, WalkTypes, WorldTyped
<1>1. PageTyped' /\ CursorTyped' /\ CandStands' /\ offers' \subseteq offers
    BY <1>0 DEF WalkFails, WalkInv, WalkTypes, PageTyped, CursorTyped, CandStands, InHand
<1> QED BY <1>0, <1>1, ReadingKeeps DEF WalkFails, InHand

\* A file goes; every other stays as it is.
LEMMA WithoutIs ==
    ASSUME WalkInv, NEW f \in Files, tree' = Without(f)
    PROVE  /\ TreeTyped' /\ DOMAIN tree' = DOMAIN tree \ {f}
           /\ \A g \in DOMAIN tree' : tree'[g] = tree[g]
BY DEF Without, WalkInv, WalkTypes, TreeTyped

\* The removal of a file keeps what is said of the files that are there.
LEMMA RemovalKeeps ==
    ASSUME WalkInv, NEW f \in Files, tree' = Without(f),
           UNCHANGED <<index, camera, born, closing, page>>,
           transfer' = transfer \/ transfer' = NoMove,
           WorldTyped', CursorTyped', offers' \subseteq offers,
           pc' \in InHand \cup {"unlinked"} => pc \in InHand \cup {"unlinked"} \/ Done,
           pc' # pc => UnlinkedStands' /\ CandStands',
           pc' = pc => UNCHANGED <<offers, cand, roots>>,
           ParkedStands'
    PROVE  WalkInv'
<1>0. /\ TreeTyped' /\ DOMAIN tree' \subseteq DOMAIN tree
      /\ \A g \in DOMAIN tree' : tree'[g] = tree[g]
    BY WithoutIs
<1>1. WalkTypes'
    <2>1. RowTyped' /\ PageTyped'
        BY DEF WalkInv, WalkTypes, RowTyped, PageTyped
    <2>2. MoveTyped'
        BY NoMoveIs DEF WalkInv, WalkTypes, MoveTyped
    <2> QED BY <1>0, <2>1, <2>2 DEF WalkTypes
<1>2. DoneStands'
    <2>1. Begun' => Begun \/ Done
        BY <1>0 DEF Begun, NoMove
    <2>2. Done => Done'
        BY <1>0 DEF Done, Exists
    <2>3. DOMAIN tree' # {} \/ offers' # {} => born'
        BY <1>0 DEF WalkInv, DoneStands
    <2>4. \A g \in DOMAIN tree' : tree'[g].open => g = Fresh /\ tree'[g].age = "young"
        BY <1>0 DEF WalkInv, DoneStands
    <2> QED BY <2>1, <2>2, <2>3, <2>4 DEF WalkInv, DoneStands
<1>3. LosersStand'
    BY <1>0 DEF WalkInv, LosersStand, Exists, Size, Both, NoMove
<1>4. CopiesStand'
    BY <1>0 DEF WalkInv, CopiesStand, Exists, Size, Both, NoMove
<1>5. PageStands'
    BY <1>0 DEF WalkInv, PageStands, Exists, Size, Both, NoMove
<1>6. UnlinkedStands'
    BY <1>0 DEF WalkInv, UnlinkedStands, Exists, Size, NoMove
<1>7. CandStands'
    BY <1>0 DEF WalkInv, CandStands, Exists, Size
<1> QED BY <1>1, <1>2, <1>3, <1>4, <1>5, <1>6, <1>7 DEF WalkInv

LEMMA AdoptFileKeeps == WalkInv /\ AdoptFile => WalkInv'
<1> SUFFICES ASSUME WalkInv, AdoptFile PROVE WalkInv'
    OBVIOUS
<1>0. 0 \in Sizes
    BY WalkAssumption DEF Sizes
<1>1. CASE UNCHANGED index
    <2>1. PageTyped' /\ CursorTyped' /\ CandStands'
        BY <1>0, <1>1 DEF AdoptFile, WalkInv, WalkTypes, PageTyped, CursorTyped, CandStands, InHand
    <2> QED BY <1>1, <2>1, ReadingKeeps DEF AdoptFile, WalkInv, WalkTypes, WorldTyped, world, InHand
<1>2. CASE index = {} /\ camera /\ index' = {Found}
    <2>1. ~page.same /\ ~Both /\ Done /\ ~(transfer.step = "copied" /\ transfer.row)
        BY <1>2 DEF AdoptFile, WalkInv, PageStands, CopiesStand, DoneStands, Begun, InHand
    <2>2. Found \in Row /\ cand \in {Fresh, FreshCopy} /\ Found.at = cand
        BY FilesAre DEF Found, AdoptFile, WalkInv, WalkTypes, CursorTyped, CandStands, Row
    <2>3. WalkTypes'
        BY <1>0, <1>2, <2>2 DEF AdoptFile, world, WalkInv, WalkTypes, TreeTyped, RowTyped, WorldTyped, MoveTyped, PageTyped, CursorTyped, InHand
    <2>4. DoneStands'
        BY <2>1 DEF AdoptFile, world, WalkInv, DoneStands, Done, Exists
    <2>5. LosersStand' /\ CopiesStand'
        BY <1>2, <2>1, <2>2, FilesAre DEF AdoptFile, world, WalkInv, LosersStand, CopiesStand, Both, Exists, Size
    <2>6. PageStands' /\ UnlinkedStands' /\ ParkedStands'
        BY <2>1 DEF AdoptFile, world, WalkInv, PageStands, UnlinkedStands, ParkedStands
    <2>7. CandStands'
        BY DEF AdoptFile, WalkInv, CandStands, InHand
    <2> QED BY <2>3, <2>4, <2>5, <2>6, <2>7 DEF WalkInv
<1> QED BY <1>1, <1>2 DEF AdoptFile

LEMMA ParkKeeps == WalkInv /\ Park => WalkInv'
<1> SUFFICES ASSUME WalkInv, Park PROVE WalkInv'
    OBVIOUS
<1>1. PageTyped' /\ CursorTyped'
    BY DEF Park, WalkInv, WalkTypes, PageTyped, CursorTyped, InHand
<1>2. UnlinkedStands'
    BY DEF Park, UnlinkedStands
<1>3. CandStands'
    BY DEF Park, WalkInv, CandStands, InHand
<1>4. CASE Exists(cand)
    <2>1. Entry(cand) \in Parked /\ Entry(cand).age = "young"
        BY DEF Entry, Parked, Ages, Plain, WalkInv, WalkTypes, CursorTyped
    <2>2. WorldTyped' /\ ParkedStands'
        BY <1>4, <2>1 DEF Park, world, WalkInv, WalkTypes, WorldTyped, ParkedStands
    <2> QED BY <1>1, <1>2, <1>3, <1>4, <2>2, RemovalKeeps DEF Park, world, WalkInv, WalkTypes, CursorTyped, InHand
<1>5. CASE ~Exists(cand)
    BY <1>1, <1>3, <1>5, ReadingKeeps DEF Park, world, WalkInv, WalkTypes, WorldTyped, InHand
<1> QED BY <1>4, <1>5

LEMMA PurgeKeeps == WalkInv /\ Purge => WalkInv'
<1> SUFFICES ASSUME WalkInv, Purge PROVE WalkInv'
    OBVIOUS
<1>1. WalkTypes'
    BY DEF Purge, world, WalkInv, WalkTypes, TreeTyped, RowTyped, WorldTyped, MoveTyped, PageTyped, CursorTyped, InHand
<1>2. DoneStands' /\ ParkedStands'
    BY DEF Purge, world, WalkInv, DoneStands, Begun, Done, Exists, ParkedStands, InHand
<1>3. LosersStand' /\ CopiesStand' /\ PageStands'
    BY DEF Purge, world, WalkInv, LosersStand, CopiesStand, PageStands, Exists, Size, Both
<1>4. UnlinkedStands' /\ CandStands'
    BY DEF Purge, UnlinkedStands, CandStands, InHand
<1> QED BY <1>1, <1>2, <1>3, <1>4 DEF WalkInv

\* The row goes, and with it what others know of it.
LEMMA RowGoesKeeps ==
    ASSUME WalkInv, index' = {}, transfer' = [transfer EXCEPT !.row = FALSE], ~page'.same,
           TreeTyped', DOMAIN tree' \subseteq DOMAIN tree, \A g \in DOMAIN tree' : tree'[g] = tree[g],
           UNCHANGED <<parked, born, closing>>,
           camera' \in BOOLEAN, camera' => camera /\ ~Both',
           events' \in Nat /\ events' <= MaxEvents, PageTyped', CursorTyped',
           page'.rows \subseteq page.rows,
           pc' \in InHand \cup {"unlinked"} => pc \in InHand \cup {"unlinked"},
           offers' \subseteq offers, CandStands'
    PROVE  WalkInv'
<1>0. /\ transfer' \in [src : {Fresh, Loser}, step : {"none", "copied", "flipped"}, row : BOOLEAN]
      /\ transfer'.src = transfer.src /\ transfer'.step = transfer.step /\ ~transfer'.row
    BY DEF WalkInv, WalkTypes, MoveTyped
<1>1. WalkTypes'
    <2>1. RowTyped' /\ MoveTyped'
        BY <1>0 DEF WalkInv, WalkTypes, RowTyped, MoveTyped
    <2>2. WorldTyped'
        BY DEF WalkInv, WalkTypes, WorldTyped
    <2> QED BY <2>1, <2>2 DEF WalkTypes
<1>2. DoneStands'
    <2>1. Begun' => Begun
        BY <1>0 DEF Begun
    <2> QED BY <2>1 DEF WalkInv, DoneStands, Done, Exists
<1>3. LosersStand' /\ CopiesStand'
    BY <1>0 DEF WalkInv, LosersStand, CopiesStand, Exists, Size, Both
<1>4. PageStands' /\ UnlinkedStands' /\ ParkedStands'
    BY DEF WalkInv, PageStands, UnlinkedStands, ParkedStands
<1> QED BY <1>1, <1>2, <1>3, <1>4 DEF WalkInv

LEMMA RowsDoneIs ==
    ASSUME WalkInv, RowsDone
    PROVE  /\ PageTyped' /\ CursorTyped' /\ CandStands' /\ page' = NoPage /\ ~page'.same /\ page'.rows = {}
           /\ pc' = "roots" /\ offers' = offers
BY FilesAre DEF RowsDone, NoPage, WalkInv, WalkTypes, PageTyped, CursorTyped, CandStands, Walks, InHand

LEMMA PruneRowKeeps == ASSUME WalkInv, NEW r \in page.rows, PruneRow(r) PROVE WalkInv'
<1>1. RowsDone
    BY DEF PruneRow
<1>2. CASE UNCHANGED <<index, transfer>>
    BY <1>1, <1>2, RowsDoneIs, ReadingKeeps DEF PruneRow, WalkInv, WalkTypes, WorldTyped, InHand
<1>3. CASE DropRow /\ \E x \in index : ~Exists(x.at)
    <2>1. camera => ~Both
        BY <1>3 DEF WalkInv, WalkTypes, RowTyped, CopiesStand, Both
    <2> QED BY <1>1, <1>3, <2>1, RowsDoneIs, RowGoesKeeps DEF PruneRow, DropRow, WalkInv, WalkTypes, WorldTyped, TreeTyped, Both, Exists, InHand
<1> QED BY <1>2, <1>3 DEF PruneRow

LEMMA DropStubRowKeeps == WalkInv /\ DropStubRow => WalkInv'
<1> SUFFICES ASSUME WalkInv, DropStubRow PROVE WalkInv'
    OBVIOUS
<1>1. RowsDone
    BY DEF DropStubRow
<1>2. CASE UNCHANGED <<index, transfer>>
    BY <1>1, <1>2, RowsDoneIs, ReadingKeeps DEF DropStubRow, WalkInv, WalkTypes, WorldTyped, InHand
<1>3. CASE DropRow /\ page.same
    <2>1. ~Both
        BY <1>3 DEF DropStubRow, WalkInv, PageStands, UnlinkedStands, Both
    <2> QED BY <1>1, <1>3, <2>1, RowsDoneIs, RowGoesKeeps DEF DropStubRow, DropRow, WalkInv, WalkTypes, WorldTyped, TreeTyped, Both, Exists, InHand
<1> QED BY <1>2, <1>3 DEF DropStubRow

LEMMA RemoveStubKeeps == ASSUME WalkInv, NEW r \in page.rows, RemoveStub(r) PROVE WalkInv'
<1>0. /\ r.at \in Files /\ r.at \in DOMAIN tree /\ tree[r.at].age # "young" /\ Size(r.at) = 0
      /\ \A q \in page.rows : q = r
      /\ tree' = Without(r.at) /\ pc' = "unlinked"
      /\ UNCHANGED <<index, parked, camera, born, closing, transfer, events, page, roots, offers, cand, weight>>
    BY DEF RemoveStub, Exists, InFlight, BelowFloor, Size, world, WalkInv, WalkTypes, PageTyped, Row
<1>1. Done
    <2>1. CASE r.at = Fresh
        BY <1>0, <2>1 DEF Done, WalkInv, DoneStands
    <2>2. CASE r.at # Fresh
        BY <1>0, <2>2 DEF WalkInv, DoneStands, Begun
    <2> QED BY <2>1, <2>2
<1>2. WorldTyped' /\ CursorTyped' /\ ParkedStands' /\ CandStands'
    BY <1>0 DEF WalkInv, WalkTypes, WorldTyped, CursorTyped, CandStands, ParkedStands, InHand
<1>3. UnlinkedStands'
    <2>0. /\ DOMAIN tree' = DOMAIN tree \ {r.at} /\ \A g \in DOMAIN tree' : tree'[g] = tree[g]
        BY <1>0, WithoutIs
    <2> SUFFICES ASSUME page.same PROVE UnlinkedStands'
        BY <1>0 DEF UnlinkedStands
    <2>1. MaxSize # 0
        BY WalkAssumption
    <2>2. r.at \in {Fresh, FreshCopy}
        BY <1>0, <2>1, FilesAre DEF WalkInv, LosersStand, Exists, Size
    <2>3. ~Exists(r.at)'
        BY <2>0 DEF Exists
    <2>4. \A g \in Files : Exists(g)' => Exists(g) /\ g # r.at /\ Size(g)' = Size(g)
        BY <2>0 DEF Exists, Size
    <2>5. ASSUME NEW x \in index
          PROVE  /\ Exists(x.at)' => Size(x.at)' = 0
                 /\ r.at = FreshCopy => x.at = FreshCopy
                 /\ Exists(Fresh)' => Size(Fresh)' = 0
        <3>1. x.at \in {Fresh, FreshCopy, Loser, LoserCopy}
            BY FilesAre DEF WalkInv, WalkTypes, RowTyped, Row
        <3>2. x.at \in {Fresh, FreshCopy} /\ ~(x.at = Fresh /\ r.at = FreshCopy)
            BY <1>0, <2>2, <3>1, FilesAre DEF WalkInv, PageStands, Exists
        <3>3. x.at = FreshCopy /\ Both => Size(FreshCopy) = Size(Fresh)
            BY DEF WalkInv, CopiesStand
        <3> QED BY <1>0, <2>2, <2>4, <3>2, <3>3, FilesAre DEF Both, Exists
    <2>6. transfer.step = "copied" /\ transfer.row => transfer.src = Fresh /\ (Exists(FreshCopy)' => Size(FreshCopy)' = 0)
        <3> SUFFICES ASSUME transfer.step = "copied", transfer.row
                     PROVE  transfer.src = Fresh /\ (Exists(FreshCopy)' => Size(FreshCopy)' = 0)
            OBVIOUS
        <3>1. PICK x \in index : TRUE
            BY DEF WalkInv, CopiesStand
        <3>2. transfer.src \in {Fresh, Loser}
            BY DEF WalkInv, WalkTypes, MoveTyped
        <3>3. transfer.src # Loser
            <4> SUFFICES ASSUME transfer.src = Loser PROVE FALSE
                OBVIOUS
            <4>1. r.at = Fresh
                BY <1>0, <2>2, <3>1, FilesAre DEF WalkInv, PageStands
            <4>2. x.at \in {Loser, Fresh} /\ ~(x.at = Loser) /\ ~(x.at = Fresh)
                BY <1>0, <4>1, FilesAre DEF WalkInv, PageStands, LosersStand, Exists
            <4> QED BY <4>2
        <3>4. Both => Size(FreshCopy) = Size(Fresh)
            BY <3>2, <3>3 DEF WalkInv, CopiesStand
        <3> QED BY <1>0, <2>2, <2>4, <3>2, <3>3, <3>4, FilesAre DEF Both, Exists
    <2>7. index # {}
        BY DEF WalkInv, PageStands
    <2> QED BY <1>0, <2>2, <2>3, <2>5, <2>6, <2>7 DEF UnlinkedStands
<1> QED BY <1>0, <1>1, <1>2, <1>3, RemovalKeeps DEF InHand

LEMMA RemoveMovedKeeps == WalkInv /\ RemoveMoved => WalkInv'
<1> SUFFICES ASSUME WalkInv, RemoveMoved PROVE WalkInv'
    OBVIOUS
<1>1. transfer.src \in Files
    BY FilesAre DEF WalkInv, WalkTypes, MoveTyped
<1>2. WorldTyped' /\ CursorTyped' /\ ParkedStands'
    BY DEF RemoveMoved, cursor, WalkInv, WalkTypes, WorldTyped, CursorTyped, ParkedStands, InHand
<1> QED BY <1>1, <1>2, RemovalKeeps DEF RemoveMoved, cursor

LEMMA RemoveFileKeeps == ASSUME WalkInv, NEW f \in Files, RemoveFile(f) PROVE WalkInv'
<1>1. events' \in Nat /\ events' <= MaxEvents
    BY WalkAssumption DEF RemoveFile, Interferes, WalkInv, WalkTypes, WorldTyped
<1>2. WorldTyped' /\ CursorTyped' /\ ParkedStands'
    BY <1>1 DEF RemoveFile, cursor, WalkInv, WalkTypes, WorldTyped, CursorTyped, ParkedStands, InHand
<1> QED BY <1>2, RemovalKeeps DEF RemoveFile, cursor

LEMMA ExpireSegmentKeeps == WalkInv /\ ExpireSegment => WalkInv'
<1> SUFFICES ASSUME WalkInv, ExpireSegment PROVE WalkInv'
    OBVIOUS
<1>1. PICK r \in index : Exists(r.at) /\ tree' = Without(r.at)
    BY DEF ExpireSegment
<1>2. r.at \in Files /\ \A x \in index : x = r
    BY DEF WalkInv, WalkTypes, RowTyped, Row
<1>3. /\ TreeTyped' /\ DOMAIN tree' = DOMAIN tree \ {r.at}
      /\ \A g \in DOMAIN tree' : tree'[g] = tree[g]
    BY <1>1, <1>2, WithoutIs
<1>4. camera => ~Both'
    BY <1>2, <1>3 DEF WalkInv, CopiesStand, Both, Exists
<1>5. events' \in Nat /\ events' <= MaxEvents
    BY WalkAssumption DEF ExpireSegment, Interferes, WalkInv, WalkTypes, WorldTyped
<1>6. PageTyped' /\ CursorTyped' /\ ~page'.same /\ page'.rows = page.rows
    BY DEF ExpireSegment, LosesId, WalkInv, WalkTypes, PageTyped, CursorTyped, InHand
<1>7. CandStands'
    BY <1>3 DEF ExpireSegment, DropRow, WalkInv, CandStands, Exists, Size, InHand
<1> QED BY <1>3, <1>4, <1>5, <1>6, <1>7, RowGoesKeeps DEF ExpireSegment, DropRow, WalkInv, WalkTypes, WorldTyped

LEMMA DeleteCameraKeeps == WalkInv /\ DeleteCamera => WalkInv'
<1> SUFFICES ASSUME WalkInv, DeleteCamera PROVE WalkInv'
    OBVIOUS
<1>5. events' \in Nat /\ events' <= MaxEvents
    BY WalkAssumption DEF DeleteCamera, Interferes, WalkInv, WalkTypes, WorldTyped
<1>6. PageTyped' /\ CursorTyped' /\ ~page'.same /\ page'.rows = page.rows
    BY DEF DeleteCamera, LosesId, WalkInv, WalkTypes, PageTyped, CursorTyped, InHand
<1>7. CandStands'
    BY DEF DeleteCamera, DropRow, WalkInv, CandStands, Exists, Size, InHand
<1>8. TreeTyped'
    BY DEF DeleteCamera, WalkInv, WalkTypes, TreeTyped
<1> QED BY <1>5, <1>6, <1>7, <1>8, RowGoesKeeps DEF DeleteCamera, DropRow

LEMMA CheckSizeKeeps == ASSUME WalkInv, NEW r \in page.rows, CheckSize(r) PROVE WalkInv'
<1>0. RowsDone /\ UNCHANGED <<tree, parked, camera, born, closing, transfer, events>>
    BY DEF CheckSize, world
<1>1. CASE UNCHANGED index
    BY <1>0, <1>1, RowsDoneIs, ReadingKeeps DEF WalkInv, WalkTypes, WorldTyped, InHand
<1>2. CASE index' = {[x EXCEPT !.size = tree[r.at].size] : x \in index}
    <2>1. tree[r.at].size \in Sizes
        BY DEF CheckSize, Exists, WalkInv, WalkTypes, TreeTyped, Stat
    <2>2. \A x \in index : /\ [x EXCEPT !.size = tree[r.at].size] \in Row
                           /\ [x EXCEPT !.size = tree[r.at].size].at = x.at
        BY <2>1 DEF WalkInv, WalkTypes, RowTyped, Row
    <2>3. /\ RowTyped' /\ (index # {} => index' # {}) /\ (index = {} => index' = {})
          /\ \A y \in index' : \E x \in index : y.at = x.at
        <3>1. \A y \in index' : \E x \in index : y = [x EXCEPT !.size = tree[r.at].size]
            BY <1>2
        <3>2. \A x, y \in index : x = y
            BY DEF WalkInv, WalkTypes, RowTyped
        <3>3. index' \subseteq Row /\ \A y \in index' : \E x \in index : y.at = x.at
            BY <2>2, <3>1
        <3>4. \A x, y \in index' : x = y
            BY <3>1, <3>2
        <3> QED BY <1>2, <3>3, <3>4 DEF RowTyped
    <2>4. /\ PageTyped' /\ CursorTyped' /\ CandStands' /\ page' = NoPage /\ ~page'.same /\ page'.rows = {}
          /\ pc' = "roots" /\ offers' = offers
        BY <1>0, RowsDoneIs
    <2>5. WalkTypes'
        BY <1>0, <2>3, <2>4 DEF WalkInv, WalkTypes, TreeTyped, WorldTyped, MoveTyped
    <2>6. DoneStands'
        <3>1. Begun' => Begun
            BY <1>0, <2>3, <2>4 DEF Begun, InHand
        <3> QED BY <1>0, <2>4, <3>1 DEF WalkInv, DoneStands, Done, Exists
    <2>7. LosersStand'
        BY <1>0, <2>3, <2>4 DEF WalkInv, LosersStand, Exists, Size, Both
    <2>9. CopiesStand'
        <3>1. \A x \in index : \E y \in index' : y.at = x.at
            BY <1>2, <2>2
        <3> QED BY <1>0, <2>3, <3>1 DEF WalkInv, CopiesStand, Exists, Size, Both
    <2>8. PageStands' /\ UnlinkedStands' /\ ParkedStands'
        BY <1>0, <2>4 DEF WalkInv, PageStands, UnlinkedStands, ParkedStands
    <2> QED BY <2>4, <2>5, <2>6, <2>7, <2>8, <2>9 DEF WalkInv
<1> QED BY <1>1, <1>2 DEF CheckSize

\* A row is recorded that lies at a file of some use.
LEMMA IndexFileKeeps == ASSUME WalkInv, NEW f \in Files, IndexFile(f) PROVE WalkInv'
<1>0. f \in {Fresh, Loser} /\ f \in closing /\ closing' = closing \ {f}
      /\ UNCHANGED <<tree, parked, camera, born, transfer, events, pc, page, roots, offers, cand, weight>>
    BY DEF IndexFile, cursor, WalkInv, WalkTypes, WorldTyped
<1>1. CASE UNCHANGED index
    <2>1. PageTyped' /\ CursorTyped' /\ CandStands'
        BY <1>0, <1>1 DEF WalkInv, WalkTypes, PageTyped, CursorTyped, CandStands, Exists, Size
    <2> QED BY <1>0, <1>1, <2>1, ReadingKeeps DEF IndexFile, WalkInv, WalkTypes, WorldTyped
<1>2. CASE /\ Exists(f) /\ camera /\ Size(f) > 0 /\ ~(f.loser /\ index # {})
           /\ \E n \in Sizes : index' = {[at |-> f, size |-> n]}
    <2>1. PICK y \in Row : y.at = f /\ index' = {y}
        BY <1>2 DEF Row
    <2>2. WalkTypes'
        <3>1. RowTyped'
            BY <2>1 DEF RowTyped
        <3>2. TreeTyped' /\ WorldTyped' /\ MoveTyped' /\ PageTyped' /\ CursorTyped'
            BY <1>0 DEF WalkInv, WalkTypes, TreeTyped, WorldTyped, MoveTyped, PageTyped, CursorTyped
        <3> QED BY <3>1, <3>2 DEF WalkTypes
    <2>3. DoneStands'
        <3>1. Begun' => Begun
            BY <1>0, <2>1 DEF Begun
        <3> QED BY <1>0, <3>1 DEF WalkInv, DoneStands, Done, Exists
    <2>4. CASE f = Loser
        <3>1. index = {} /\ ~page.same /\ ~Both /\ ~(transfer.step = "copied" /\ transfer.row)
            BY <1>2, <2>4, FilesAre DEF WalkInv, PageStands, CopiesStand
        <3>2. LosersStand' /\ CopiesStand'
            BY <1>0, <1>2, <2>1, <2>4, <3>1, FilesAre DEF WalkInv, LosersStand, CopiesStand, Exists, Size, Both
        <3>3. PageStands' /\ UnlinkedStands' /\ ParkedStands'
            BY <1>0, <3>1 DEF WalkInv, PageStands, UnlinkedStands, ParkedStands
        <3>4. CandStands'
            <4>1. pc = "park" /\ Exists(cand) => cand # Loser
                BY <1>0, <2>4 DEF WalkInv, CandStands, LosersStand
            <4> QED BY <1>0, <1>2, <2>1, <2>4, <3>1, <4>1 DEF WalkInv, CandStands, Exists, Size
        <3> QED BY <2>2, <2>3, <3>2, <3>3, <3>4 DEF WalkInv
    <2>5. CASE f = Fresh
        <3>1. LosersStand' /\ CopiesStand'
            BY <1>0, <1>2, <2>1, <2>5, FilesAre DEF WalkInv, LosersStand, CopiesStand, Exists, Size, Both
        <3>2. PageStands'
            <4> SUFFICES ASSUME page.same PROVE PageStands'
                BY <1>0 DEF PageStands
            <4>1. PICK x \in index : TRUE
                BY DEF WalkInv, PageStands
            <4>2. x.at \in {Fresh, Loser, FreshCopy, LoserCopy}
                BY FilesAre DEF WalkInv, WalkTypes, RowTyped, Row
            <4>3. ASSUME NEW r \in page.rows, r.at = FreshCopy, Both PROVE Size(FreshCopy) = Size(Fresh)
                BY <4>2, <4>3, FilesAre DEF WalkInv, PageStands, CopiesStand
            <4>4. \A r \in page.rows : transfer.step = "copied" /\ transfer.src = Loser /\ transfer.row => r.at \in {Loser, Fresh}
                BY <4>1 DEF WalkInv, PageStands
            <4>5. page.rows # {}
                BY DEF WalkInv, PageStands
            <4>6. \A r \in page.rows : r.at = FreshCopy =>
                        /\ Exists(Fresh) => Size(Fresh) > 0
                        /\ Exists(FreshCopy) => Size(FreshCopy) > 0
                        /\ Both => Size(FreshCopy) = Size(Fresh)
                BY <1>2, <2>5, <4>3 DEF Both
            <4> QED BY <1>0, <2>1, <2>5, <4>4, <4>5, <4>6, FilesAre DEF PageStands, Exists, Size, Both
        <3>3. UnlinkedStands'
            <4>1. ~(pc = "unlinked" /\ page.same)
                BY <1>2, <2>5 DEF WalkInv, UnlinkedStands, Size
            <4> QED BY <1>0, <4>1 DEF UnlinkedStands
        <3>4. CandStands'
            <4>1. pc = "park" /\ ~cand.loser /\ Exists(cand) => Size(cand) = 0
                BY <1>2 DEF WalkInv, CandStands
            <4>2. pc = "park" /\ cand.loser => cand # Fresh
                BY FilesAre
            <4> QED BY <1>0, <2>1, <2>5, <4>1, <4>2 DEF WalkInv, CandStands, Exists, Size
        <3>5. ParkedStands'
            BY <1>0 DEF WalkInv, ParkedStands
        <3> QED BY <2>2, <2>3, <3>1, <3>2, <3>3, <3>4, <3>5 DEF WalkInv
    <2> QED BY <1>0, <2>4, <2>5
<1>3. index' = index \/
      (/\ Exists(f) /\ camera /\ Size(f) > 0 /\ ~(f.loser /\ index # {})
       /\ \E n \in Sizes : index' = {[at |-> f, size |-> n]})
    <2>1. Exists(f) => Largest({tree[f].size} \cup {r.size : r \in index}) \in Sizes
        <3> SUFFICES ASSUME Exists(f) PROVE Largest({tree[f].size} \cup {r.size : r \in index}) \in Sizes
            OBVIOUS
        <3>1. tree[f].size \in Sizes /\ \A r \in index : r.size \in Sizes
            BY DEF Exists, WalkInv, WalkTypes, TreeTyped, Stat, RowTyped, Row
        <3>2. Sizes \subseteq Int
            BY WalkAssumption DEF Sizes
        <3>3. \A r, s \in index : r = s
            BY DEF WalkInv, WalkTypes, RowTyped
        <3> DEFINE S == {tree[f].size} \cup {r.size : r \in index}
        <3>4. \E n \in S : \A m \in S : m <= n
            <4>0. \A i, j \in Int : \E n \in {i, j} : \A m \in {i, j} : m <= n
                OBVIOUS
            <4>1. CASE index = {}
                <5>1. S = {tree[f].size, tree[f].size}
                    BY <4>1
                <5>2. tree[f].size \in Int
                    BY <3>1, <3>2
                <5> HIDE DEF S
                <5> QED BY <4>0, <5>1, <5>2
            <4>2. CASE index # {}
                <5>1. PICK r \in index : TRUE
                    BY <4>2
                <5>2. S = {tree[f].size, r.size}
                    BY <3>3
                <5>3. tree[f].size \in Int /\ r.size \in Int
                    BY <3>1, <3>2
                <5> HIDE DEF S
                <5> QED BY <4>0, <5>2, <5>3
            <4> QED BY <4>1, <4>2
        <3>5. Largest(S) \in S
            BY <3>4 DEF Largest
        <3> QED BY <3>1, <3>5
    <2> QED BY <2>1 DEF IndexFile, Size
<1> QED BY <1>1, <1>2, <1>3

\* The archiver's copy.
LEMMA WithIs ==
    ASSUME WalkInv, NEW f \in Files, NEW s \in Stat, tree' = With(f, s)
    PROVE  /\ TreeTyped' /\ DOMAIN tree' = DOMAIN tree \cup {f} /\ tree'[f] = s
           /\ \A g \in DOMAIN tree \ {f} : tree'[g] = tree[g]
BY DEF With, WalkInv, WalkTypes, TreeTyped

LEMMA CopyKeeps == ASSUME WalkInv, NEW f \in Files, Copy(f) PROVE WalkInv'
<1>0. /\ f \in {Fresh, Loser} /\ Exists(f) /\ tree[f].age # "young"
      /\ Away(f) \in {FreshCopy, LoserCopy} /\ Away(f) # f
      /\ UNCHANGED <<index, parked, camera, born, closing, pc, page, roots, offers, cand, weight>>
    BY FilesAre DEF Copy, InFlight, cursor
<1>1. /\ transfer' \in [src : {Fresh, Loser}, step : {"none", "copied", "flipped"}, row : BOOLEAN]
      /\ transfer'.src = f /\ transfer'.step = "copied" /\ transfer'.row
    BY <1>0 DEF Copy
<1>2. PICK x \in index : x.at = f /\ \A y \in index : y = x
    BY DEF Copy, WalkInv, WalkTypes, RowTyped
<1>3. /\ TreeTyped' /\ DOMAIN tree' = DOMAIN tree \cup {Away(f)}
      /\ tree'[Away(f)] = [size |-> tree[f].size, open |-> FALSE, age |-> "young"]
      /\ \A g \in DOMAIN tree \ {Away(f)} : tree'[g] = tree[g]
    <2>1. [size |-> tree[f].size, open |-> FALSE, age |-> "young"] \in Stat
        BY <1>0 DEF Exists, WalkInv, WalkTypes, TreeTyped, Stat, Ages
    <2>2. Away(f) \in Files
        BY <1>0, FilesAre
    <2> QED BY <2>1, <2>2, WithIs DEF Copy
<1>4. /\ \A g \in Files : g # Away(f) => (Exists(g)' <=> Exists(g)) /\ (Exists(g) => tree'[g] = tree[g])
      /\ Exists(Away(f))' /\ Size(Away(f))' = Size(f) /\ tree'[Away(f)].age = "young"
    BY <1>3 DEF Exists, Size
<1>5. Done /\ Done'
    <2>1. Done
        BY <1>0, FilesAre DEF WalkInv, DoneStands, Begun, Done, Exists
    <2> QED BY <1>0, <1>4, <2>1, FilesAre DEF Done
<1>6. WalkTypes'
    <2>1. events' \in Nat /\ events' <= MaxEvents
        BY WalkAssumption DEF Copy, Interferes, WalkInv, WalkTypes, WorldTyped
    <2>2. RowTyped' /\ PageTyped' /\ CursorTyped' /\ MoveTyped'
        BY <1>0, <1>1 DEF WalkInv, WalkTypes, RowTyped, PageTyped, CursorTyped, MoveTyped
    <2>3. WorldTyped'
        BY <1>0, <2>1 DEF WalkInv, WalkTypes, WorldTyped
    <2> QED BY <1>3, <2>2, <2>3 DEF WalkTypes
<1>7. DoneStands'
    <2>1. \A g \in DOMAIN tree' : tree'[g].open => g = Fresh /\ tree'[g].age = "young"
        BY <1>3 DEF WalkInv, DoneStands
    <2> QED BY <1>0, <1>5, <2>1 DEF DoneStands, Done
<1>8. ParkedStands'
    BY <1>0 DEF WalkInv, ParkedStands
<1>9. CandStands'
    <2>1. pc \in {"judge", "confirm", "park"} => cand # Away(f) /\ cand \in Files
        BY DEF Copy, WalkInv, WalkTypes, CursorTyped
    <2> QED BY <1>0, <1>4, <2>1 DEF WalkInv, CandStands, Size
<1>10. CASE f = Loser
    <2>1. camera => ~Both
        BY <1>2, <1>10, FilesAre DEF WalkInv, CopiesStand
    <2>2. Both' <=> Both
        BY <1>4, <1>10, FilesAre DEF Both
    <2>3. Size(Loser) = MaxSize
        BY <1>0, <1>10 DEF WalkInv, LosersStand
    <2>4. LosersStand'
        BY <1>0, <1>1, <1>2, <1>4, <1>10, <2>1, <2>2, <2>3, FilesAre DEF WalkInv, LosersStand, Size
    <2>5. CopiesStand'
        BY <1>0, <1>1, <1>2, <1>4, <1>10, <2>1, <2>2, FilesAre DEF WalkInv, CopiesStand, Size, Both
    <2>6. page.same => \A r \in page.rows : r.at = Loser
        BY <1>2, <1>10 DEF WalkInv, PageStands
    <2>7. PageStands'
        BY <1>0, <1>2, <1>10, <2>6, FilesAre DEF WalkInv, PageStands
    <2>8. UnlinkedStands'
        <3>1. ~(pc = "unlinked" /\ page.same)
            BY <2>6, FilesAre DEF WalkInv, PageStands, UnlinkedStands
        <3> QED BY <1>0, <3>1 DEF UnlinkedStands
    <2> QED BY <1>6, <1>7, <1>8, <1>9, <2>4, <2>5, <2>7, <2>8 DEF WalkInv
<1>11. CASE f = Fresh
    <2>1. Size(FreshCopy)' = Size(Fresh) /\ Size(Fresh)' = Size(Fresh) /\ Exists(Fresh)'
        BY <1>0, <1>4, <1>11, FilesAre DEF Size
    <2>4. LosersStand'
        BY <1>0, <1>1, <1>2, <1>4, <1>11, FilesAre DEF WalkInv, LosersStand, Size
    <2>5. CopiesStand'
        BY <1>0, <1>1, <1>2, <1>11, <2>1, FilesAre DEF WalkInv, CopiesStand
    <2>7. PageStands'
        <3>1. \A r \in page.rows : page.same /\ r.at = FreshCopy => Size(Fresh) > 0
            BY <1>0, <1>2, <1>11 DEF WalkInv, PageStands
        <3> QED BY <1>0, <1>1, <1>2, <1>11, <2>1, <3>1, FilesAre DEF WalkInv, PageStands
    <2>8. UnlinkedStands'
        <3>1. ~(pc = "unlinked" /\ page.same)
            <4> SUFFICES ASSUME pc = "unlinked", page.same PROVE FALSE
                OBVIOUS
            <4>1. PICK r \in page.rows : TRUE
                BY DEF WalkInv, PageStands
            <4>2. r.at \in {Fresh, FreshCopy} /\ ~Exists(r.at)
                BY DEF WalkInv, UnlinkedStands
            <4>3. r.at = FreshCopy => x.at = FreshCopy
                BY DEF WalkInv, UnlinkedStands
            <4> QED BY <1>0, <1>2, <1>11, <4>2, <4>3, FilesAre
        <3> QED BY <1>0, <3>1 DEF UnlinkedStands
    <2> QED BY <1>6, <1>7, <1>8, <1>9, <2>4, <2>5, <2>7, <2>8 DEF WalkInv
<1> QED BY <1>0, <1>10, <1>11

LEMMA FlipRowKeeps == WalkInv /\ FlipRow => WalkInv'
<1> SUFFICES ASSUME WalkInv, FlipRow PROVE WalkInv'
    OBVIOUS
<1>0. UNCHANGED <<tree, parked, camera, born, closing, events, pc, page, roots, offers, cand, weight>>
    BY DEF FlipRow, cursor
<1>1. CASE ~transfer.row
    <2>1. transfer' = NoMove /\ index' = index
        BY <1>1 DEF FlipRow
    <2>2. PageTyped' /\ CursorTyped' /\ CandStands'
        BY <1>0, <2>1 DEF WalkInv, WalkTypes, PageTyped, CursorTyped, CandStands, Exists, Size
    <2> QED BY <1>0, <2>1, <2>2, ReadingKeeps DEF WalkInv, WalkTypes, WorldTyped
<1>2. CASE transfer.row
    <2>0. /\ transfer.src \in {Fresh, Loser} /\ Away(transfer.src) \in {FreshCopy, LoserCopy}
          /\ transfer.step = "copied"
        BY FilesAre DEF FlipRow, WalkInv, WalkTypes, MoveTyped
    <2>1. /\ transfer' \in [src : {Fresh, Loser}, step : {"none", "copied", "flipped"}, row : BOOLEAN]
          /\ transfer'.step = "flipped"
        BY <1>2 DEF FlipRow, WalkInv, WalkTypes, MoveTyped
    <2>2. PICK x \in index : \A y \in index : y = x
        BY <1>2 DEF FlipRow, WalkInv, WalkTypes, RowTyped, CopiesStand
    <2>3. /\ [x EXCEPT !.at = Away(transfer.src)] \in Row
          /\ [x EXCEPT !.at = Away(transfer.src)].at = Away(transfer.src)
        BY <2>0, FilesAre DEF WalkInv, WalkTypes, RowTyped, Row
    <2>4. index' = {[x EXCEPT !.at = Away(transfer.src)]}
        BY <1>2, <2>2 DEF FlipRow
    <2>5. /\ index' # {} /\ RowTyped' /\ \A y \in index' : y.at = Away(transfer.src)
        BY <2>3, <2>4 DEF RowTyped
    <2>6. WalkTypes'
        <3>1. TreeTyped' /\ PageTyped' /\ CursorTyped' /\ MoveTyped'
            BY <1>0, <2>1 DEF WalkInv, WalkTypes, TreeTyped, PageTyped, CursorTyped, MoveTyped
        <3>2. WorldTyped'
            BY <1>0 DEF WalkInv, WalkTypes, WorldTyped
        <3> QED BY <2>5, <3>1, <3>2 DEF WalkTypes
    <2>7. DoneStands'
        <3>1. Done
            BY <2>0 DEF WalkInv, DoneStands, Begun
        <3> QED BY <1>0, <3>1 DEF WalkInv, DoneStands, Done, Exists
    <2>8. ParkedStands'
        BY <1>0 DEF WalkInv, ParkedStands
    <2>9. CASE transfer.src = Fresh
        <3>1. \A y \in index' : y.at = FreshCopy
            BY <2>5, <2>9, FilesAre
        <3>2. LosersStand'
            BY <1>0, <2>1, <3>1, FilesAre DEF WalkInv, LosersStand, Exists, Size
        <3>3. CopiesStand'
            <4>1. Both => Size(FreshCopy) = Size(Fresh)
                BY <2>0, <2>9 DEF WalkInv, CopiesStand
            <4> QED BY <1>0, <2>1, <2>2, <2>5, <3>1, <4>1 DEF WalkInv, CopiesStand, Both, Exists, Size
        <3>4. PageStands'
            BY <1>0, <2>1, <2>5, <3>1, FilesAre DEF WalkInv, PageStands
        <3>5. UnlinkedStands'
            BY <1>0, <1>2, <2>0, <2>1, <2>9, <3>1, FilesAre DEF WalkInv, UnlinkedStands, Exists, Size
        <3>6. CandStands'
            <4>1. index # {}
                BY <2>2
            <4>2. pc = "park" /\ cand.loser => cand # FreshCopy
                BY FilesAre
            <4> QED BY <1>0, <3>1, <4>1, <4>2 DEF WalkInv, CandStands, Exists, Size
        <3> QED BY <2>6, <2>7, <2>8, <3>2, <3>3, <3>4, <3>5, <3>6 DEF WalkInv
    <2>10. CASE transfer.src = Loser
        <3>1. \A y \in index' : y.at = LoserCopy
            BY <2>5, <2>10, FilesAre
        <3>0. x.at \in {Loser, Fresh} /\ (x.at = Fresh /\ Exists(Fresh) => Size(Fresh) > 0)
            BY <1>2, <2>0, <2>10 DEF WalkInv, LosersStand
        <3>2. LosersStand'
            BY <1>0, <2>0, <2>1, <2>10, <3>1, FilesAre DEF WalkInv, LosersStand, Exists, Size
        <3>3. CopiesStand'
            BY <1>0, <2>0, <2>1, <2>2, <2>5, <2>10, <3>1, FilesAre DEF WalkInv, CopiesStand, LosersStand, Both, Exists, Size
        <3>4. PageStands'
            <4>1. \A r \in page.rows : page.same => r.at \in {Loser, Fresh} /\ (x.at = Loser => r.at = Loser)
                BY <1>2, <2>0, <2>10 DEF WalkInv, PageStands
            <4>2. \A r \in page.rows : page.same /\ r.at = Fresh /\ Exists(Fresh) => Size(Fresh) > 0
                BY <3>0, <4>1, FilesAre
            <4>3. page.same => page.rows # {}
                BY DEF WalkInv, PageStands
            <4> QED BY <1>0, <2>1, <2>5, <3>1, <4>1, <4>2, <4>3, FilesAre DEF PageStands, Exists, Size
        <3>5. UnlinkedStands'
            <4>1. ~(pc = "unlinked" /\ page.same)
                BY <1>2, <2>0, <2>10, FilesAre DEF WalkInv, UnlinkedStands
            <4> QED BY <1>0, <4>1 DEF UnlinkedStands
        <3>6. CandStands'
            <4>1. index # {}
                BY <2>2
            <4>2. pc = "park" /\ Exists(cand) => cand # LoserCopy
                BY <2>0, <2>10 DEF WalkInv, CandStands, LosersStand
            <4> QED BY <1>0, <3>1, <4>1, <4>2 DEF WalkInv, CandStands, Exists, Size
        <3> QED BY <2>6, <2>7, <2>8, <3>2, <3>3, <3>4, <3>5, <3>6 DEF WalkInv
    <2> QED BY <2>0, <2>9, <2>10
<1> QED BY <1>1, <1>2 DEF WalkInv, WalkTypes, MoveTyped

\* The segment of the plain name is opened or closed: nothing has come of it yet.
LEMMA WritingKeeps ==
    ASSUME WalkInv, ~Begun, NEW s \in Stat, tree' = With(Fresh, s), s.age = "young",
           UNCHANGED <<index, parked, camera, transfer, pc, page, roots, offers, cand, weight>>,
           born' = TRUE, closing' \in {closing, closing \cup {Fresh}},
           events' \in Nat /\ events' <= MaxEvents
    PROVE  WalkInv'
<1>0. TreeTyped' /\ DOMAIN tree' = {Fresh} /\ tree'[Fresh] = s
    BY WithIs, FilesAre DEF Begun
<1>1. ~Begun'
    BY <1>0, FilesAre DEF Begun
<1>2. /\ transfer.step = "none" /\ pc \notin InHand \cup {"unlinked"} /\ Loser \notin closing'
      /\ \A y \in index \cup page.rows : y.at = Fresh
    BY FilesAre DEF Begun
<1>3. WalkTypes'
    <2>1. RowTyped' /\ PageTyped' /\ CursorTyped' /\ MoveTyped'
        BY DEF WalkInv, WalkTypes, RowTyped, PageTyped, CursorTyped, MoveTyped
    <2>2. WorldTyped'
        <3>1. closing' \subseteq {Fresh, Loser} /\ parked' \subseteq Parked
            BY DEF WalkInv, WalkTypes, WorldTyped
        <3>2. camera' \in BOOLEAN /\ born' \in BOOLEAN
            BY DEF WalkInv, WalkTypes, WorldTyped
        <3> QED BY <3>1, <3>2 DEF WorldTyped
    <2> QED BY <1>0, <2>1, <2>2 DEF WalkTypes
<1>4. DoneStands'
    BY <1>0, <1>1 DEF DoneStands
<1>5. LosersStand' /\ CopiesStand'
    BY <1>0, <1>2, FilesAre DEF WalkInv, LosersStand, CopiesStand, Exists, Both
<1>6. PageStands'
    BY <1>2, FilesAre DEF WalkInv, PageStands
<1>7. UnlinkedStands' /\ CandStands' /\ ParkedStands'
    BY <1>2 DEF WalkInv, UnlinkedStands, CandStands, ParkedStands, InHand
<1> QED BY <1>3, <1>4, <1>5, <1>6, <1>7 DEF WalkInv

LEMMA OpenKeeps == WalkInv /\ Open => WalkInv'
<1> SUFFICES ASSUME WalkInv, Open PROVE WalkInv'
    OBVIOUS
<1>1. ~Begun
    BY DEF Open, WalkInv, DoneStands, Done
<1>2. [size |-> 0, open |-> TRUE, age |-> "young"] \in Stat
    BY WalkAssumption DEF Stat, Sizes, Ages
<1>3. events' \in Nat /\ events' <= MaxEvents
    BY WalkAssumption DEF Open, Interferes, WalkInv, WalkTypes, WorldTyped
<1> QED BY <1>1, <1>2, <1>3, WritingKeeps DEF Open, cursor

LEMMA CloseKeeps == ASSUME WalkInv, NEW f \in Files, Close(f) PROVE WalkInv'
<1>1. f = Fresh /\ Exists(Fresh) /\ tree[Fresh].age = "young" /\ born
    BY DEF Close, Exists, WalkInv, DoneStands
<1>2. ~Begun
    BY <1>1 DEF WalkInv, DoneStands, Done
<1>3. PICK n \in Sizes : tree' = With(Fresh, [tree[Fresh] EXCEPT !.size = n, !.open = FALSE])
    BY <1>1 DEF Close
<1>4. /\ [tree[Fresh] EXCEPT !.size = n, !.open = FALSE] \in Stat
      /\ [tree[Fresh] EXCEPT !.size = n, !.open = FALSE].age = "young"
    BY <1>1 DEF Exists, WalkInv, WalkTypes, TreeTyped, Stat
<1>5. events' \in Nat /\ events' <= MaxEvents
    BY DEF Close, WalkInv, WalkTypes, WorldTyped
<1> QED BY <1>1, <1>2, <1>3, <1>4, <1>5, WritingKeeps DEF Close, cursor

LEMMA CollideKeeps == WalkInv /\ Collide => WalkInv'
<1> SUFFICES ASSUME WalkInv, Collide PROVE WalkInv'
    OBVIOUS
<1>0. /\ UNCHANGED <<index, parked, camera, born, transfer, pc, page, roots, offers, cand, weight>>
      /\ closing' = closing \cup {Loser}
      /\ pc \in {"judge", "confirm", "park"} => cand # Loser
    BY DEF Collide, cursor
<1>1. /\ TreeTyped' /\ DOMAIN tree' = DOMAIN tree \cup {Loser}
      /\ tree'[Loser] = [size |-> MaxSize, open |-> FALSE, age |-> "young"]
      /\ \A g \in DOMAIN tree \ {Loser} : tree'[g] = tree[g]
    <2>1. [size |-> MaxSize, open |-> FALSE, age |-> "young"] \in Stat /\ Loser \in Files
        BY WalkAssumption, FilesAre DEF Stat, Sizes, Ages
    <2> QED BY <2>1, WithIs DEF Collide
<1>2. /\ \A g \in Files : g # Loser => (Exists(g)' <=> Exists(g)) /\ (Exists(g) => tree'[g] = tree[g])
      /\ Size(Loser)' = MaxSize /\ tree'[Loser].age = "young"
    BY <1>1 DEF Exists, Size
<1>3. Done /\ Done'
    <2>1. Done
        BY DEF Collide, InFlight, Exists, WalkInv, DoneStands, Done
    <2> QED BY <1>0, <1>2, <2>1, FilesAre DEF Done
<1>4. WalkTypes'
    <2>1. events' \in Nat /\ events' <= MaxEvents
        BY WalkAssumption DEF Collide, Interferes, WalkInv, WalkTypes, WorldTyped
    <2>2. RowTyped' /\ PageTyped' /\ CursorTyped' /\ MoveTyped'
        BY <1>0 DEF WalkInv, WalkTypes, RowTyped, PageTyped, CursorTyped, MoveTyped
    <2>3. WorldTyped'
        BY <1>0, <2>1 DEF WalkInv, WalkTypes, WorldTyped
    <2> QED BY <1>1, <2>2, <2>3 DEF WalkTypes
<1>5. DoneStands'
    <2>1. \A g \in DOMAIN tree' : tree'[g].open => g = Fresh /\ tree'[g].age = "young"
        BY <1>1 DEF WalkInv, DoneStands
    <2> QED BY <1>0, <1>3, <2>1 DEF DoneStands, Done
<1>6. LosersStand'
    BY <1>0, <1>2, FilesAre DEF WalkInv, LosersStand, Both, Size
<1>7. CopiesStand'
    BY <1>0, <1>2, FilesAre DEF WalkInv, CopiesStand, Both, Size
<1>8. PageStands'
    <2>1. /\ Exists(Fresh)' <=> Exists(Fresh)
          /\ Exists(FreshCopy)' <=> Exists(FreshCopy)
          /\ Exists(Fresh) => Size(Fresh)' = Size(Fresh)
          /\ Exists(FreshCopy) => Size(FreshCopy)' = Size(FreshCopy)
        BY <1>2, FilesAre DEF Size
    <2> QED BY <1>0, <2>1 DEF WalkInv, PageStands, Both
<1>9. UnlinkedStands'
    <2> SUFFICES ASSUME pc = "unlinked", page.same PROVE UnlinkedStands'
        BY <1>0 DEF UnlinkedStands
    <2>1. PICK r \in page.rows : r.at \in {Fresh, FreshCopy}
        BY DEF WalkInv, PageStands, UnlinkedStands
    <2>2. \A x \in index : x.at # Loser /\ x.at \in Files
        BY <2>1, FilesAre DEF WalkInv, PageStands, WalkTypes, RowTyped, Row
    <2> QED BY <1>0, <1>2, <2>2, FilesAre DEF WalkInv, UnlinkedStands, Size
<1>10. CandStands'
    BY <1>0, <1>2 DEF WalkInv, CandStands, WalkTypes, CursorTyped, Size
<1>11. ParkedStands'
    BY <1>0 DEF WalkInv, ParkedStands
<1> QED BY <1>4, <1>5, <1>6, <1>7, <1>8, <1>9, <1>10, <1>11 DEF WalkInv

\* A crash cuts short what was being written: the segment of the plain name, or a copy the row
\* does not yet lead to.
LEMMA CrashKeeps == WalkInv /\ Crash => WalkInv'
<1> SUFFICES ASSUME WalkInv, Crash PROVE WalkInv'
    OBVIOUS
<1>0. /\ UNCHANGED <<index, parked, camera, born>> /\ closing' = {} /\ transfer' = NoMove
      /\ pc' = "rest" /\ page' = NoPage /\ roots' = <<>> /\ offers' = {} /\ cand' = Fresh /\ weight' = 0
      /\ page'.rows = {} /\ ~page'.same
    BY DEF Crash, NoPage
<1>1. PICK n \in Sizes : tree' = [f \in DOMAIN tree |->
            IF Writes(f) /\ (tree[f].open \/ n <= tree[f].size)
            THEN [tree[f] EXCEPT !.open = FALSE, !.size = n] ELSE tree[f]]
    BY DEF Crash
<1>2. /\ TreeTyped' /\ DOMAIN tree' = DOMAIN tree
      /\ \A g \in DOMAIN tree : /\ tree'[g].age = tree[g].age /\ ~tree'[g].open
                                /\ ~Writes(g) => tree'[g] = tree[g]
    <2>1. \A g \in DOMAIN tree : /\ [tree[g] EXCEPT !.open = FALSE, !.size = n] \in Stat
                                 /\ [tree[g] EXCEPT !.open = FALSE, !.size = n].age = tree[g].age
                                 /\ ~[tree[g] EXCEPT !.open = FALSE, !.size = n].open
        BY DEF WalkInv, WalkTypes, TreeTyped, Stat
    <2>2. TreeTyped' /\ DOMAIN tree' = DOMAIN tree
        BY <1>1, <2>1 DEF WalkInv, WalkTypes, TreeTyped
    <2>3. \A g \in DOMAIN tree : ~Writes(g) => ~tree[g].open
        BY DEF Writes
    <2>4. ASSUME NEW g \in DOMAIN tree
          PROVE  tree'[g] = tree[g] \/ (Writes(g) /\ tree'[g] = [tree[g] EXCEPT !.open = FALSE, !.size = n])
        BY <1>1
    <2>5. ASSUME NEW g \in DOMAIN tree, tree[g].open
          PROVE  tree'[g] = [tree[g] EXCEPT !.open = FALSE, !.size = n]
        BY <1>1, <2>5 DEF Writes
    <2>6. \A g \in DOMAIN tree : tree[g].open \in BOOLEAN
        BY DEF WalkInv, WalkTypes, TreeTyped, Stat
    <2> QED BY <2>1, <2>2, <2>4, <2>5, <2>6
<1>3. \A g \in DOMAIN tree : Writes(g) => g = Fresh \/ (transfer.step = "copied" /\ g = Away(transfer.src))
    BY DEF Writes, WalkInv, DoneStands
<1>4. transfer.src \in {Fresh, Loser} /\ Away(transfer.src) \in {FreshCopy, LoserCopy}
    BY FilesAre DEF WalkInv, WalkTypes, MoveTyped
<1>5. WalkTypes'
    <2>1. 0 \in Sizes
        BY WalkAssumption DEF Sizes
    <2>6. events' \in Nat /\ events' <= MaxEvents
        <3>1. events < MaxEvents /\ events' = events + 1
            BY DEF Crash, Interferes
        <3> QED BY <3>1, WalkAssumption DEF WalkInv, WalkTypes, WorldTyped
    <2>2. RowTyped'
        BY <1>0 DEF WalkInv, WalkTypes, RowTyped
    <2>3. PageTyped' /\ MoveTyped'
        BY <1>0, NoMoveIs DEF NoPage, PageTyped, MoveTyped
    <2>4. CursorTyped'
        BY <1>0, <2>1, FilesAre DEF CursorTyped, InHand
    <2>5. WorldTyped'
        BY <1>0, <2>6 DEF WalkInv, WalkTypes, WorldTyped
    <2> QED BY <1>2, <2>2, <2>3, <2>4, <2>5 DEF WalkTypes
<1>6. DoneStands'
    <2>1. Begun' => Begun
        BY <1>0, <1>2, NoMoveIs DEF Begun, InHand
    <2>2. Done => Done'
        BY <1>0, <1>2 DEF Done, Exists
    <2>3. DOMAIN tree' # {} \/ offers' # {} => born'
        BY <1>0, <1>2 DEF WalkInv, DoneStands
    <2> QED BY <1>2, <2>1, <2>2, <2>3 DEF WalkInv, DoneStands
<1>7. LosersStand'
    <2>1. Exists(Loser) => ~Writes(Loser)
        BY <1>3, <1>4, FilesAre DEF Exists
    <2>2. ASSUME NEW x \in index, x.at = LoserCopy, Exists(LoserCopy) PROVE ~Writes(LoserCopy)
        BY <1>3, <1>4, <2>2, FilesAre DEF Exists, WalkInv, LosersStand
    <2> QED BY <1>0, <1>2, <2>1, <2>2, NoMoveIs DEF WalkInv, LosersStand, Exists, Size
<1>9. CopiesStand'
    <2>1. ASSUME NEW x \in index, x.at = FreshCopy, Both PROVE ~Writes(FreshCopy) /\ ~Writes(Fresh)
        <3>1. tree[Fresh].age # "young"
            BY <2>1, FilesAre DEF WalkInv, DoneStands, Begun, Done, Both
        <3>2. ~Writes(Fresh)
            BY <1>4, <2>1, <3>1, FilesAre DEF Writes, Both, Exists, WalkInv, DoneStands
        <3>3. ~Writes(FreshCopy)
            BY <1>3, <1>4, <2>1, FilesAre DEF WalkInv, CopiesStand, Both, Exists
        <3> QED BY <3>2, <3>3
    <2> QED BY <1>0, <1>2, <2>1, NoMoveIs DEF WalkInv, CopiesStand, Both, Exists, Size
<1>8. PageStands' /\ UnlinkedStands' /\ CandStands' /\ ParkedStands'
    BY <1>0 DEF WalkInv, PageStands, UnlinkedStands, CandStands, ParkedStands, InHand
<1> QED BY <1>5, <1>6, <1>7, <1>8, <1>9 DEF WalkInv

\* Time: a file that is under way stays young, and none becomes young.
LEMMA AgesKeep ==
    ASSUME WalkInv, TreeTyped', DOMAIN tree' = DOMAIN tree,
           \A g \in DOMAIN tree :
              /\ tree'[g].size = tree[g].size /\ tree'[g].open = tree[g].open
              /\ UnderWay(g) /\ tree[g].age = "young" => tree'[g].age = "young"
              /\ tree[g].age # "young" => tree'[g].age # "young",
           UNCHANGED <<index, camera, born, closing, transfer, pc, page, roots, offers, cand, weight>>,
           WorldTyped', ParkedStands'
    PROVE  WalkInv'
<1>1. WalkTypes'
    BY DEF WalkInv, WalkTypes, RowTyped, PageTyped, CursorTyped, MoveTyped
<1>2. DoneStands'
    <2>1. Begun' => Begun
        BY DEF Begun
    <2>2. Done => Done'
        BY DEF Done, Exists
    <2>3. \A g \in DOMAIN tree' : tree'[g].open => g = Fresh /\ tree'[g].age = "young"
        BY DEF WalkInv, DoneStands, UnderWay
    <2> QED BY <2>1, <2>2, <2>3 DEF WalkInv, DoneStands
<1>3. LosersStand'
    <2>1. Loser \in closing => UnderWay(Loser)
        BY FilesAre DEF UnderWay
    <2>2. transfer.step = "copied" /\ transfer.src = Loser => UnderWay(LoserCopy)
        BY FilesAre DEF UnderWay
    <2>3. \A g \in Files : (Exists(g)' <=> Exists(g)) /\ (Exists(g) => Size(g)' = Size(g))
        BY DEF Exists, Size
    <2>4. \A g \in Files : UnderWay(g) /\ Exists(g) /\ tree[g].age = "young" => tree'[g].age = "young"
        BY DEF Exists
    <2>5. Both' <=> Both
        BY DEF Both, Exists
    <2> QED BY <2>1, <2>2, <2>3, <2>4, <2>5, FilesAre DEF WalkInv, LosersStand
<1>4. CopiesStand' /\ PageStands'
    BY DEF WalkInv, CopiesStand, PageStands, Both, Exists, Size
<1>5. UnlinkedStands' /\ CandStands'
    BY DEF WalkInv, UnlinkedStands, CandStands, Exists, Size
<1> QED BY <1>1, <1>2, <1>3, <1>4, <1>5 DEF WalkInv

LEMMA SettleKeeps == WalkInv /\ Settle => WalkInv'
<1> SUFFICES ASSUME WalkInv, Settle PROVE WalkInv'
    OBVIOUS
<1> DEFINE now == {f \in DOMAIN tree : tree[f].age = "young" /\ ~UnderWay(f)}
<1>1. tree' = [f \in DOMAIN tree |-> IF f \in now THEN [tree[f] EXCEPT !.age = "settled"] ELSE tree[f]]
    BY DEF Settle
<1>2. \A g \in DOMAIN tree : /\ [tree[g] EXCEPT !.age = "settled"] \in Stat
                             /\ [tree[g] EXCEPT !.age = "settled"].age = "settled"
                             /\ [tree[g] EXCEPT !.age = "settled"].size = tree[g].size
                             /\ [tree[g] EXCEPT !.age = "settled"].open = tree[g].open
    BY DEF WalkInv, WalkTypes, TreeTyped, Stat, Ages
<1>3. TreeTyped' /\ DOMAIN tree' = DOMAIN tree
    BY <1>1, <1>2 DEF WalkInv, WalkTypes, TreeTyped
<1>4. \A g \in DOMAIN tree :
              /\ tree'[g].size = tree[g].size /\ tree'[g].open = tree[g].open
              /\ UnderWay(g) /\ tree[g].age = "young" => tree'[g].age = "young"
              /\ tree[g].age # "young" => tree'[g].age # "young"
    BY <1>1, <1>2
<1>5. WorldTyped' /\ ParkedStands'
    BY DEF Settle, world, WalkInv, WalkTypes, WorldTyped, ParkedStands
<1> QED BY <1>3, <1>4, <1>5, AgesKeep DEF Settle, world, cursor

LEMMA WindowPassesKeeps == WalkInv /\ WindowPasses => WalkInv'
<1> SUFFICES ASSUME WalkInv, WindowPasses PROVE WalkInv'
    OBVIOUS
<1>1. tree' = [f \in DOMAIN tree |-> IF tree[f].age = "settled" THEN [tree[f] EXCEPT !.age = "old"] ELSE tree[f]]
    BY DEF WindowPasses
<1>2. \A g \in DOMAIN tree : /\ [tree[g] EXCEPT !.age = "old"] \in Stat
                             /\ [tree[g] EXCEPT !.age = "old"].age = "old"
                             /\ [tree[g] EXCEPT !.age = "old"].size = tree[g].size
                             /\ [tree[g] EXCEPT !.age = "old"].open = tree[g].open
    BY DEF WalkInv, WalkTypes, TreeTyped, Stat, Ages
<1>3. TreeTyped' /\ DOMAIN tree' = DOMAIN tree
    BY <1>1, <1>2 DEF WalkInv, WalkTypes, TreeTyped
<1>4. \A g \in DOMAIN tree :
              /\ tree'[g].size = tree[g].size /\ tree'[g].open = tree[g].open
              /\ UnderWay(g) /\ tree[g].age = "young" => tree'[g].age = "young"
              /\ tree[g].age # "young" => tree'[g].age # "young"
    BY <1>1, <1>2
<1>5. \A q \in parked : /\ [q EXCEPT !.reviewed = TRUE, !.age = IF @ = "future" THEN @ ELSE "old"] \in Parked
                        /\ [q EXCEPT !.reviewed = TRUE, !.age = IF @ = "future" THEN @ ELSE "old"].reviewed
    BY DEF WalkInv, WalkTypes, WorldTyped, Parked, Ages
<1>6. parked' \subseteq Parked /\ \A q \in parked' : q.reviewed
    BY <1>5 DEF WindowPasses
<1>7. WorldTyped' /\ ParkedStands'
    BY <1>6 DEF WindowPasses, world, WalkInv, WalkTypes, WorldTyped, ParkedStands
<1> QED BY <1>3, <1>4, <1>7, AgesKeep DEF WindowPasses, world, cursor

LEMMA ClockBackKeeps == WalkInv /\ ClockBack => WalkInv'
<1> SUFFICES ASSUME WalkInv, ClockBack PROVE WalkInv'
    OBVIOUS
<1>1. tree' = [f \in DOMAIN tree |-> IF UnderWay(f) THEN tree[f] ELSE [tree[f] EXCEPT !.age = "future"]]
    BY DEF ClockBack
<1>2. \A g \in DOMAIN tree : /\ [tree[g] EXCEPT !.age = "future"] \in Stat
                             /\ [tree[g] EXCEPT !.age = "future"].age = "future"
                             /\ [tree[g] EXCEPT !.age = "future"].size = tree[g].size
                             /\ [tree[g] EXCEPT !.age = "future"].open = tree[g].open
    BY DEF WalkInv, WalkTypes, TreeTyped, Stat, Ages
<1>3. TreeTyped' /\ DOMAIN tree' = DOMAIN tree
    BY <1>1, <1>2 DEF WalkInv, WalkTypes, TreeTyped
<1>4. \A g \in DOMAIN tree :
              /\ tree'[g].size = tree[g].size /\ tree'[g].open = tree[g].open
              /\ UnderWay(g) /\ tree[g].age = "young" => tree'[g].age = "young"
              /\ tree[g].age # "young" => tree'[g].age # "young"
    BY <1>1, <1>2
<1>5. \A q \in parked : [q EXCEPT !.age = "future"] \in Parked /\ [q EXCEPT !.age = "future"].age = "future"
    BY DEF WalkInv, WalkTypes, WorldTyped, Parked, Ages
<1>6. parked' \subseteq Parked /\ \A q \in parked' : q.age = "future"
    BY <1>5 DEF ClockBack
<1>7. events' \in Nat /\ events' <= MaxEvents
    BY WalkAssumption DEF ClockBack, Interferes, WalkInv, WalkTypes, WorldTyped
<1>8. WorldTyped' /\ ParkedStands'
    BY <1>6, <1>7 DEF ClockBack, WalkInv, WalkTypes, WorldTyped, ParkedStands
<1> QED BY <1>3, <1>4, <1>8, AgesKeep DEF ClockBack, cursor

-----------------------------------------------------------------------------
(* The walk as a whole. *)

LEMMA PassKeeps == WalkInv /\ PassMoves => WalkInv'
<1> SUFFICES ASSUME WalkInv, PassMoves PROVE WalkInv'
    OBVIOUS
<1>1. CASE ReadRows \/ NothingIndexed \/ DropStubRow \/ List \/ Compare
    BY <1>1, ReadRowsKeeps, NothingIndexedKeeps, DropStubRowKeeps, ListKeeps, CompareKeeps
<1>2. CASE Judge \/ AdoptFile \/ Confirm \/ Park \/ NextRoot \/ Purge
    BY <1>2, JudgeKeeps, AdoptFileKeeps, ConfirmKeeps, ParkKeeps, NextRootKeeps, PurgeKeeps
<1>3. CASE \E r \in page.rows : PruneRow(r) \/ RemoveStub(r) \/ CheckSize(r)
    BY <1>3, PruneRowKeeps, RemoveStubKeeps, CheckSizeKeeps
<1>4. CASE \E f \in offers : Gate(f)
    BY <1>4, GateKeeps
<1> QED BY <1>1, <1>2, <1>3, <1>4 DEF PassMoves

\* Whatever anybody does next, the invariant is kept.
LEMMA WalkStep == WalkInv /\ [WalkNext]_walk => WalkInv'
<1> SUFFICES ASSUME WalkInv, [WalkNext]_walk PROVE WalkInv'
    OBVIOUS
<1>1. CASE PassMoves \/ WalkFails
    BY <1>1, PassKeeps, WalkFailsKeeps
<1>2. CASE RecorderMoves
    BY <1>2, CloseKeeps, IndexFileKeeps DEF RecorderMoves
<1>3. CASE FlipRow \/ RemoveMoved \/ Open \/ Collide \/ ExpireSegment \/ DeleteCamera \/ Crash
    BY <1>3, FlipRowKeeps, RemoveMovedKeeps, OpenKeeps, CollideKeeps, ExpireSegmentKeeps, DeleteCameraKeeps, CrashKeeps
<1>4. CASE \E f \in Files : Copy(f) \/ RemoveFile(f)
    BY <1>4, CopyKeeps, RemoveFileKeeps
<1>5. CASE Settle \/ WindowPasses \/ ClockBack
    BY <1>5, SettleKeeps, WindowPassesKeeps, ClockBackKeeps
<1>6. CASE UNCHANGED walk
    <2>1. UNCHANGED <<tree, index, parked, camera, born, closing, transfer, events, pc, page, roots, offers, cand, weight>>
        BY <1>6 DEF walk, world, cursor
    <2>2. PageTyped' /\ CursorTyped' /\ CandStands'
        BY <2>1 DEF WalkInv, WalkTypes, PageTyped, CursorTyped, CandStands, Exists, Size
    <2> QED BY <2>1, <2>2, ReadingKeeps DEF WalkInv, WalkTypes, WorldTyped
<1> QED BY <1>1, <1>2, <1>3, <1>4, <1>5, <1>6 DEF WalkNext

\* What a pass does then loses nothing.
LEMMA PassLosesNothing == WalkInv /\ PassMoves => KeepsRows /\ OnlyParks /\ OnlyReviewed
<1> SUFFICES ASSUME WalkInv, PassMoves PROVE KeepsRows /\ OnlyParks /\ OnlyReviewed
    OBVIOUS
<1>0. \A x, y \in index : x = y
    BY DEF WalkInv, WalkTypes, RowTyped
<1>1. ASSUME UNCHANGED <<tree, parked>>, UNCHANGED index \/ index = {} PROVE KeepsRows /\ OnlyParks /\ OnlyReviewed
    BY <1>0, <1>1 DEF KeepsRows, OnlyParks, OnlyReviewed, Exists
<1>2. ASSUME UNCHANGED <<tree, parked>>, index' = {}, \A x \in index : ~Exists(x.at) \/ tree[x.at].size = 0
      PROVE  KeepsRows /\ OnlyParks /\ OnlyReviewed
    BY <1>2 DEF KeepsRows, OnlyParks, OnlyReviewed, Exists
<1>3. CASE ReadRows \/ NothingIndexed \/ List \/ Compare \/ Judge \/ Confirm \/ NextRoot \/ AdoptFile
    BY <1>1, <1>3 DEF ReadRows, NothingIndexed, List, Compare, Judge, Confirm, NextRoot, AdoptFile
<1>4. CASE \E f \in offers : Gate(f)
    BY <1>1, <1>4 DEF Gate
<1>5. CASE \E r \in page.rows : PruneRow(r)
    BY <1>0, <1>1, <1>2, <1>5 DEF PruneRow, DropRow
<1>6. CASE DropStubRow
    <2>1. CASE page.same
        <3>1. \A x \in index : Exists(x.at) => tree[x.at].size = 0
            BY <1>6, <2>1 DEF DropStubRow, WalkInv, UnlinkedStands, Size
        <3> QED BY <1>2, <1>6, <2>1, <3>1 DEF DropStubRow, DropRow
    <2>2. CASE ~page.same
        BY <1>1, <1>6, <2>2 DEF DropStubRow
    <2> QED BY <2>1, <2>2
<1>7. CASE \E r \in page.rows : CheckSize(r)
    <2>1. PICK r \in page.rows : CheckSize(r)
        BY <1>7
    <2>2. UNCHANGED <<tree, parked>>
        BY <2>1 DEF CheckSize
    <2>3. CASE UNCHANGED index
        BY <1>1, <2>2, <2>3
    <2>4. CASE index' = {[x EXCEPT !.size = tree[r.at].size] : x \in index}
        <3>1. \A x \in index : [x EXCEPT !.size = tree[r.at].size].at = x.at
            BY DEF WalkInv, WalkTypes, RowTyped, Row
        <3>3. \A y \in index' : \E x \in index : y.at = x.at
            BY <2>4, <3>1
        <3>4. index' = {} => index = {}
            BY <2>4
        <3>2. KeepsRows
            BY <1>0, <2>2, <3>3, <3>4 DEF KeepsRows, Exists
        <3> QED BY <2>2, <3>2 DEF OnlyParks, OnlyReviewed
    <2> QED BY <2>1, <2>3, <2>4 DEF CheckSize
<1>8. CASE \E r \in page.rows : RemoveStub(r)
    <2>1. PICK r \in page.rows : RemoveStub(r)
        BY <1>8
    <2>2. /\ r.at \in Files /\ tree[r.at].size = 0 /\ tree' = Without(r.at) /\ UNCHANGED <<index, parked>>
        BY <2>1 DEF RemoveStub, BelowFloor, WalkInv, WalkTypes, PageTyped, Row
    <2>3. DOMAIN tree' = DOMAIN tree \ {r.at}
        BY <2>2, WithoutIs
    <2> QED BY <1>0, <2>2, <2>3 DEF KeepsRows, OnlyParks, OnlyReviewed, Exists
<1>9. CASE Park
    <2>1. CASE ~Exists(cand)
        BY <1>1, <1>9, <2>1 DEF Park
    <2>2. CASE Exists(cand)
        <3>1. /\ cand \in Files /\ tree' = Without(cand) /\ parked' = parked \cup {Entry(cand)} /\ UNCHANGED index
            BY <1>9, <2>2 DEF Park, WalkInv, WalkTypes, CursorTyped
        <3>2. DOMAIN tree' = DOMAIN tree \ {cand}
            BY <3>1, WithoutIs
        <3>3. Entry(cand).file = cand /\ ~Entry(cand).reviewed
            BY DEF Entry
        <3>4. \A x \in index : x.at = cand => tree[cand].size = 0
            BY <1>9, <2>2 DEF Park, WalkInv, CandStands, Size
        <3>5. KeepsRows
            <4>1. \A n \in Sizes : n > 0 => n # 0
                BY DEF Sizes
            <4>2. \A x \in index : Exists(x.at) /\ tree[x.at].size > 0 => x.at # cand
                <5>1. tree[cand].size \in Sizes
                    BY <2>2 DEF Exists, WalkInv, WalkTypes, TreeTyped, Stat
                <5> QED BY <3>4, <4>1, <5>1
            <4> QED BY <1>0, <3>1, <3>2, <4>2 DEF KeepsRows, Exists
        <3>6. OnlyParks
            BY <3>1, <3>2, <3>3 DEF OnlyParks
        <3> QED BY <3>1, <3>5, <3>6 DEF OnlyReviewed
    <2> QED BY <2>1, <2>2
<1>10. CASE Purge
    <2>1. UNCHANGED <<tree, index>> /\ \A q \in parked \ parked' : Aged(q)
        BY <1>10 DEF Purge
    <2>2. KeepsRows /\ OnlyParks
        BY <1>0, <2>1 DEF KeepsRows, OnlyParks, Exists
    <2>3. OnlyReviewed
        BY <2>1 DEF OnlyReviewed, Aged, WalkInv, ParkedStands
    <2> QED BY <2>2, <2>3
<1> QED BY <1>3, <1>4, <1>5, <1>6, <1>7, <1>8, <1>9, <1>10 DEF PassMoves

LEMMA WalkMeans == WalkInv => WalkTypeOK
<1> SUFFICES ASSUME WalkInv PROVE WalkTypeOK
    OBVIOUS
<1>1. \A S : (\A x, y \in S : x = y) /\ S # {} => Cardinality(S) = 1
    <2> SUFFICES ASSUME NEW S, \A x, y \in S : x = y, S # {} PROVE Cardinality(S) = 1
        OBVIOUS
    <2>1. PICK x \in S : S = {x}
        OBVIOUS
    <2> QED BY <2>1, FS_Singleton
<1>2. Cardinality(index) <= 1
    <2>1. CASE index = {}
        BY <2>1, FS_EmptySet
    <2>2. CASE index # {}
        <3>1. Cardinality(index) = 1
            BY <1>1, <2>2 DEF WalkInv, WalkTypes, RowTyped
        <3> QED BY <3>1
    <2> QED BY <2>1, <2>2
<1>3. page.rows # {} => Cardinality(page.rows) = 1
    BY <1>1 DEF WalkInv, WalkTypes, PageTyped
<1>4. {<<"live">>, <<"archive">>} \subseteq {Tail(w) : w \in Walks}
    <2>1. <<"archive">> = Tail(<<"live", "archive">>) /\ <<"live">> = Tail(<<"archive", "live">>)
        OBVIOUS
    <2> QED BY <2>1 DEF Walks
<1>5. events \in 0..MaxEvents
    BY WalkAssumption DEF WalkInv, WalkTypes, WorldTyped
<1>6. transfer \in [src : Files, step : {"none", "copied", "flipped"}, row : BOOLEAN]
    BY FilesAre DEF WalkInv, WalkTypes, MoveTyped
<1>7. closing \subseteq Files
    BY FilesAre DEF WalkInv, WalkTypes, WorldTyped
<1>8. DOMAIN tree \subseteq Files /\ (\A f \in DOMAIN tree : tree[f] \in Stat) /\ index \subseteq Row /\ parked \subseteq Parked
    BY DEF WalkInv, WalkTypes, TreeTyped, RowTyped, WorldTyped
<1>9. camera \in BOOLEAN /\ born \in BOOLEAN /\ page \in [rows : SUBSET Row, same : BOOLEAN]
    BY DEF WalkInv, WalkTypes, WorldTyped, PageTyped
<1>10. /\ pc \in {"rest", "row", "unlinked", "roots", "listed", "offer", "judge", "insert", "confirm", "park", "purge"}
       /\ roots \in Walks \cup {Tail(w) : w \in Walks} \cup {<<>>} /\ offers \subseteq Files
       /\ cand \in Files /\ weight \in Sizes
    BY <1>4 DEF WalkInv, WalkTypes, CursorTyped
<1> QED BY <1>2, <1>3, <1>5, <1>6, <1>7, <1>8, <1>9, <1>10 DEF WalkTypeOK

-----------------------------------------------------------------------------
(* The whole. *)

LEMMA MovesStand == Init /\ [][Next]_vars => []TypeOK
BY InitType, NextType, PTL

LEMMA ScheduleStands == ScheduleInit /\ [][ScheduleNext]_schedule => []ScheduleInv
BY ScheduleStart, ScheduleStep, PTL

LEMMA WalkStands == WalkInit /\ [][WalkNext]_walk => []WalkInv
BY WalkStart, WalkStep, PTL

\* Whichever part moves, each is a behaviour of its own specification, fairness aside.
LEMMA PartsRun ==
    MCSpec => /\ Init /\ [][Next]_vars
              /\ ScheduleInit /\ [][ScheduleNext]_schedule
              /\ WalkInit /\ [][WalkNext]_walk
<1>1. MCInit => Init /\ ScheduleInit /\ WalkInit
    BY DEF MCInit
<1>2. [MCNext]_<<part, vars, schedule, walk>> => [Next]_vars /\ [ScheduleNext]_schedule /\ [WalkNext]_walk
    BY DEF MCNext
<1> QED BY <1>1, <1>2, PTL DEF MCSpec

\* Every occurrence of a cron schedule fires exactly once, whatever ticks are slow, whatever is
\* edited and however the clock steps: no check leaves one owed that is due, and none fires for
\* what a check has ruled on before (archive.rs CronTracker, run_tick).
THEOREM EachFiresOnce == ScheduleSpec => OccurrencesFireOnce
<1>1. ScheduleInv /\ [ScheduleNext]_schedule => [FiresOnce]_schedule
    BY FiresOnceHolds
<1> QED BY <1>1, ScheduleStands, PTL DEF ScheduleSpec, OccurrencesFireOnce, FiresOnce

\* A pass loses no footage, whatever the recorder, the archiver, retention and an operator do
\* between two of its steps, and however often: it repoints no row, takes no file from a row, and
\* a file of some use leaves only for _quarantine, and that only after a window in which it could
\* be seen there (reconcile.rs orphan_pass, offer_orphan, prune_quarantine).
THEOREM NoFootageIsLost == WalkSpec => WalkLosesNothing
<1>1. WalkInv /\ [WalkNext]_walk => [PassMoves => KeepsRows /\ OnlyParks /\ OnlyReviewed]_walk
    BY PassLosesNothing
<1> QED BY <1>1, WalkStands, PTL DEF WalkSpec, WalkLosesNothing

\* Moves, schedule and walk keep their types; of the walk that a start time has one row, of the
\* drain that nothing is in its batch between two batches.
THEOREM StorageTypeCorrect == MCSpec => []StorageTypeOK
<1>1. TypeOK /\ ScheduleInv /\ WalkInv => StorageTypeOK
    BY ScheduleMeans, WalkMeans DEF StorageTypeOK
<1> QED BY <1>1, PartsRun, MovesStand, ScheduleStands, WalkStands, PTL
===============================================================================
