------------------------------- MODULE Sweeps -------------------------------
(* One policy under the archive scheduler's tick (archive.rs): live retention, the *)
(* archive floor, the archive drain, size and free-space eviction, the archive cap *)
(* and the age ceiling, one after the other for ever. Segments are numbered oldest *)
(* first and have size one; recording and pinning go on between any two steps.     *)
EXTENDS Naturals, FiniteSets

CONSTANTS
    Segs,       \* segments, 1..N
    Disks,      \* filesystems
    Capacity,   \* what each holds
    Floor,      \* free space that must remain
    Policies,   \* records: archiving, live and archive disk, caps, spill, ceiling
    Batch,      \* EVICTION_BATCH_LIMIT, MAX_RETENTION_BATCH_LIMIT
    Born,       \* bound: segments there are at first
    MaxPins,    \* bound: bookmarks set or dropped
    MaxErrors   \* bound: deletions and moves that fail

ASSUME SweepsAssumption ==
    /\ IsFiniteSet(Segs) /\ Segs = 1..Cardinality(Segs) /\ Born \in 0..Cardinality(Segs)
    /\ Capacity \in [Disks -> Nat] /\ Floor \in Nat /\ Batch \in Nat \ {0}
    /\ Policies \subseteq [archiving : BOOLEAN, live : Disks, archive : Disks,
                           cap : Nat, archiveCap : Nat, spill : Nat, ceiling : BOOLEAN]

VARIABLES
    policy,     \* chosen at first; a cap of zero is none
    away,       \* disks that cannot be confirmed: no marker, or the breaker is latched
    stage,      \* rows: "unborn", "live", "archive", "gone"
    disk,       \* where a row's storage is
    files,      \* segments whose file exists
    pinned,     \* segments under an active bookmark
    aged,       \* segments up to here are older than CAP_EVICTION_MIN_AGE_SECS
    expired,    \* ... and up to here older than the retention and the ceiling
    job,        \* the sweep: pass, list still to do, used, deficit, moves blocked
    pins, errors

sweeps == <<policy, away, stage, disk, files, pinned, aged, expired, job, pins, errors>>

Recorded == {s \in Segs : stage[s] # "unborn"}
Rows(stages) == {s \in Segs : stage[s] \in stages}
Free(d) == Capacity[d] - Cardinality({s \in files : disk[s] = d})
Missing(s) == s \notin files \/ disk[s] \in away
Least(S) == CHOOSE s \in S : \A t \in S : s <= t

\* free_floor_decision: how much must be freed.
Short(d) == IF Free(d) < Floor THEN Floor - Free(d) ELSE 0

\* A spill that meets the cap is none.
Target(cap) == IF policy.spill < cap THEN cap - policy.spill ELSE cap
Stages == IF policy.archiving THEN {"live"} ELSE {"live", "archive"}

NoJob == [pass |-> "retention", read |-> FALSE, list |-> {}, used |-> 0, deficit |-> 0,
          blocked |-> FALSE, held |-> {}]

SweepsInit ==
    /\ policy \in Policies
    /\ away \in SUBSET (Disks \ {policy.live})
    /\ stage \in {f \in [Segs -> {"unborn", "live", "archive"}] :
                    \A s \in Segs : f[s] = "unborn" <=> s > Born}
    /\ disk \in {f \in [Segs -> Disks] : \A s \in Segs :
                    /\ stage[s] = "unborn" => f[s] = policy.live
                    /\ stage[s] = "archive" => f[s] = policy.archive}
    /\ files \in {F \in SUBSET (1..Born) : Born - Cardinality(F) <= 1}
    /\ \A d \in Disks : Cardinality({s \in files : disk[s] = d}) <= Capacity[d]
    /\ pinned = {} /\ aged = Born /\ expired = 0 /\ job = NoJob /\ pins = 0 /\ errors = 0

-----------------------------------------------------------------------------
(* The world.                                                                  *)

RecordSegment(s) ==
    /\ stage[s] = "unborn" /\ \A t \in Segs : t < s => stage[t] # "unborn"
    /\ Free(policy.live) > 0
    /\ stage' = [stage EXCEPT ![s] = "live"] /\ files' = files \cup {s}
    /\ UNCHANGED <<policy, away, disk, pinned, aged, expired, job, pins, errors>>

GrowOlder ==
    /\ \/ aged' = aged + 1 /\ aged' \in Recorded /\ UNCHANGED expired
       \/ expired' = expired + 1 /\ expired' <= aged /\ UNCHANGED aged
    /\ UNCHANGED <<policy, away, stage, disk, files, pinned, job, pins, errors>>

Bookmark(s) ==
    /\ s \in Rows({"live", "archive"}) /\ pins < MaxPins /\ pins' = pins + 1
    /\ pinned' = IF s \in pinned THEN pinned \ {s} ELSE pinned \cup {s}
    /\ UNCHANGED <<policy, away, stage, disk, files, aged, expired, job, errors>>

-----------------------------------------------------------------------------
(* What each pass lists, oldest first, and never a pinned segment.             *)

Past(stages) == {s \in Rows(stages) \ pinned : s <= expired}

\* Mutant: like the sweeps of one tier, the ceiling leaves live footage to the archiver.
CeilingOfTier == IF policy.ceiling THEN Past({"archive"}) ELSE {}

CeilingList == IF policy.ceiling THEN Past({"live", "archive"}) ELSE {}

Candidates(pass) ==
    CASE pass = "retention" -> IF policy.archiving THEN {} ELSE Past({"live"})
      [] pass = "archivefloor" -> {s \in Rows({"archive"}) \ pinned : disk[s] = policy.archive}
      [] pass = "drain" -> Past({"archive"})
      [] pass = "move" -> Rows({"live"}) \ pinned
      [] pass = "floor" -> {s \in Rows({"live", "archive"}) \ pinned : disk[s] = policy.live}
      [] pass = "cap" -> Rows({"live", "archive"}) \ pinned
      [] pass = "archivecap" -> Rows({"archive"}) \ pinned
      [] pass = "ceiling" -> CeilingList

\* The drain alone has no limit.
Limited(pass) ==
    LET all == Candidates(pass) IN
    IF pass = "drain" THEN all
    ELSE {s \in all : Cardinality({t \in all : t < s}) < Batch}

Following(pass) ==
    CASE pass = "retention" -> IF policy.archiving THEN "archivefloor" ELSE "drain"
      [] pass = "archivefloor" -> "drain"
      [] pass = "drain" -> "live"
      [] pass = "floor" -> "cap"
      [] pass \in {"live", "move", "cap"} -> IF policy.archiving THEN "archivecap" ELSE "ceiling"
      [] pass = "archivecap" -> "ceiling"
      [] pass = "ceiling" -> "retention"

Goto(pass) == job' = [NoJob EXCEPT !.pass = pass]

\* The cap pass goes on with what the floor pass has left.
NextPass(now) ==
    IF now.pass = "floor" THEN job' = [now EXCEPT !.pass = "cap", !.read = FALSE, !.list = {}, !.deficit = 0]
    ELSE Goto(Following(now.pass))

\* Mutant: pinned footage counts toward the cap.
MeasureEverything ==
    /\ job.pass = "live"
    /\ LET used == Cardinality(Rows(Stages))
           short == Short(policy.live)
           over == policy.cap > 0 /\ used > policy.cap
       IN IF ~over /\ short = 0 THEN Goto(Following("live"))
          ELSE job' = [NoJob EXCEPT !.pass = IF policy.archiving THEN "move" ELSE "floor",
                                    !.used = used, !.held = pinned,
                                    !.deficit = IF short > 0 THEN short + policy.spill ELSE 0,
                                    !.blocked = policy.archiving /\ policy.archive \in away]
    /\ UNCHANGED <<policy, away, stage, disk, files, pinned, aged, expired, pins, errors>>

\* Over the cap, or below the floor; a destination that is not confirmed blocks the moves.
Measure ==
    /\ job.pass = "live"
    /\ LET used == Cardinality(Rows(Stages) \ pinned)
           short == Short(policy.live)
           over == policy.cap > 0 /\ used > policy.cap
       IN IF ~over /\ short = 0 THEN Goto(Following("live"))
          ELSE job' = [NoJob EXCEPT !.pass = IF policy.archiving THEN "move" ELSE "floor",
                                    !.used = used, !.held = pinned,
                                    !.deficit = IF short > 0 THEN short + policy.spill ELSE 0,
                                    !.blocked = policy.archiving /\ policy.archive \in away]
    /\ UNCHANGED <<policy, away, stage, disk, files, pinned, aged, expired, pins, errors>>

\* A list that is empty, or a budget that is kept, ends the pass.
ReadList ==
    /\ job.pass # "live" /\ ~job.read
    /\ LET used == Cardinality(Rows({"archive"}) \ pinned)
           listed == [job EXCEPT !.read = TRUE, !.list = Limited(job.pass)]
           read == CASE job.pass = "archivefloor" -> [listed EXCEPT !.deficit = Short(policy.archive)]
                     [] job.pass = "archivecap" ->
                          IF policy.archiveCap > 0 /\ used > policy.archiveCap
                          THEN [listed EXCEPT !.used = used, !.held = pinned] ELSE [listed EXCEPT !.list = {}]
                     [] OTHER -> listed
       IN IF read.list = {} THEN NextPass(read) ELSE job' = read
    /\ UNCHANGED <<policy, away, stage, disk, files, pinned, aged, expired, pins, errors>>

-----------------------------------------------------------------------------
(* The loops.                                                                  *)

\* Caps spare footage younger than CAP_EVICTION_MIN_AGE_SECS.
Satisfied ==
    LET over(cap) == cap > 0 /\ job.used > Target(cap) IN
    CASE job.pass \in {"archivefloor", "floor"} -> job.deficit = 0
      [] job.pass = "move" -> ~over(policy.cap) /\ job.deficit = 0
      [] job.pass = "cap" -> ~over(policy.cap) \/ \A s \in job.list : s > aged
      [] job.pass = "archivecap" -> ~over(policy.archiveCap) \/ \A s \in job.list : s > aged
      [] OTHER -> FALSE

Working == job.read /\ job.list # {} /\ ~Satisfied

EndPass ==
    /\ job.read /\ (job.list = {} \/ Satisfied) /\ NextPass(job)
    /\ UNCHANGED <<policy, away, stage, disk, files, pinned, aged, expired, pins, errors>>

Leave(s) == job' = [job EXCEPT !.list = @ \ {s}] /\ UNCHANGED <<stage, files, disk, errors>>

\* A pass that counts has `used' go down with the row, the deficit with the bytes.
Account(s, freed) ==
    job' = [job EXCEPT !.list = @ \ {s},
                       !.used = IF job.pass \in {"move", "floor", "cap", "archivecap"} /\ @ > 0 THEN @ - 1 ELSE @,
                       !.deficit = IF freed /\ @ > 0 THEN @ - 1 ELSE @]

PruneRow(s) == Account(s, FALSE) /\ stage' = [stage EXCEPT ![s] = "gone"] /\ UNCHANGED <<files, disk, errors>>

\* delete_segment_file_then_row: deleted, pruned, kept, or failed before or after the file
\* was gone.
DeleteFileThenRow(s) ==
    \/ /\ ~Missing(s) /\ Account(s, TRUE)
       /\ stage' = [stage EXCEPT ![s] = "gone"] /\ files' = files \ {s} /\ UNCHANGED <<disk, errors>>
    \/ Missing(s) /\ disk[s] \notin away /\ PruneRow(s)
    \/ Missing(s) /\ disk[s] \in away /\ Leave(s)
    \/ /\ ~Missing(s) /\ errors < MaxErrors /\ errors' = errors + 1
       /\ job' = [job EXCEPT !.list = @ \ {s}] /\ files' \in {files, files \ {s}}
       /\ UNCHANGED <<stage, disk>>

Dispose ==
    /\ Working /\ job.pass # "move" /\ DeleteFileThenRow(Least(job.list))
    /\ UNCHANGED <<policy, away, pinned, aged, expired, pins>>

OnFloor(s) == job.deficit > 0 /\ disk[s] = policy.live

\* Mutant: failing moves are waited for.
SameDiskOnly(s) == OnFloor(s) /\ disk[s] = policy.archive

\* Mutant: whatever is oldest is deleted, on any disk.
AnyDisk(s) == job.deficit > 0 /\ (job.blocked \/ disk[s] = policy.archive)

\* A move would free nothing, or moves are failing.
Rescued(s) == OnFloor(s) /\ (job.blocked \/ disk[s] = policy.archive)

Rescue ==
    /\ Working /\ job.pass = "move" /\ Rescued(Least(job.list))
    /\ DeleteFileThenRow(Least(job.list))
    /\ UNCHANGED <<policy, away, pinned, aged, expired, pins>>

\* Footage on another disk would free nothing; for a cap alone nothing is deleted.
Refused ==
    /\ Working /\ job.pass = "move"
    /\ LET s == Least(job.list) IN
       /\ job.blocked /\ ~Rescued(s)
       /\ IF job.deficit > 0 THEN Leave(s)
          ELSE job' = [job EXCEPT !.list = {}] /\ UNCHANGED <<stage, files, disk, errors>>
    /\ UNCHANGED <<policy, away, pinned, aged, expired, pins>>

\* Mutant: the row is not told where the file has gone.
FlipStage(s) == stage' = [stage EXCEPT ![s] = "archive"] /\ UNCHANGED disk

FlipRow(s) ==
    /\ stage' = [stage EXCEPT ![s] = "archive"] /\ disk' = [disk EXCEPT ![s] = policy.archive]

\* move_segment_to_archive: copied and flipped; its file is missing; or the archive is full
\* or refuses, and every later move of this sweep counts as failing.
Move ==
    /\ Working /\ job.pass = "move" /\ ~job.blocked
    /\ LET s == Least(job.list) IN
       /\ ~Rescued(s)
       /\ \/ /\ ~Missing(s) /\ Free(policy.archive) > 0 /\ Account(s, OnFloor(s))
             /\ FlipRow(s) /\ UNCHANGED <<files, errors>>
          \/ Missing(s) /\ disk[s] \notin away /\ PruneRow(s)
          \/ Missing(s) /\ disk[s] \in away /\ Leave(s)
          \/ /\ ~Missing(s)
             /\ \/ Free(policy.archive) = 0 /\ UNCHANGED errors
                \/ errors < MaxErrors /\ errors' = errors + 1
             /\ job' = [job EXCEPT !.blocked = TRUE]
             /\ UNCHANGED <<stage, files, disk>>
    /\ UNCHANGED <<policy, away, pinned, aged, expired, pins>>

SweepStep == Measure \/ ReadList \/ EndPass \/ Dispose \/ Rescue \/ Refused \/ Move

SweepsNext ==
    \/ SweepStep \/ GrowOlder
    \/ \E s \in Segs : RecordSegment(s) \/ Bookmark(s)

\* The scheduler ticks for ever, and time passes.
SweepsSpec ==
    SweepsInit /\ [][SweepsNext]_sweeps /\ WF_sweeps(SweepStep) /\ WF_sweeps(GrowOlder)

-----------------------------------------------------------------------------
(* Properties.                                                                 *)

SweepsTypeOK ==
    /\ policy \in Policies /\ away \subseteq Disks \ {policy.live}
    /\ stage \in [Segs -> {"unborn", "live", "archive", "gone"}] /\ disk \in [Segs -> Disks]
    /\ \A s \in Rows({"archive"}) : disk[s] = policy.archive
    /\ files \subseteq Recorded /\ pinned \subseteq Recorded
    /\ expired <= aged /\ job.list \subseteq Recorded
    /\ \A d \in Disks : Cardinality({s \in files : disk[s] = d}) <= Capacity[d]

\* The segments whose file a step deletes.
Deleted == files \ files'

\* The recording disk is below floor and spill; a file that goes while its row stays is not
\* counted, and one more may go.
Needed == Free(policy.live) < Floor + policy.spill + errors

\* policy_size_eviction_sweep's safety invariant, against the disks: unarchived footage of an
\* archiving policy is deleted only at the age ceiling, or where that gives the recording
\* disk bytes it needs and moving it would not.
UnarchivedStays ==
    policy.archiving /\ job.pass # "ceiling" =>
        \A s \in Deleted : stage[s] = "live" =>
            /\ disk[s] = policy.live /\ Needed
            /\ disk[s] = policy.archive \/ job.blocked

\* Whatever its counters say, size eviction takes no more than what is over: bytes of a disk
\* below floor and spill, else footage above the target that was not pinned when it was
\* counted, and that is of the minimum age where it is deleted.
NothingMoreIsEvicted ==
    job.pass \in {"move", "floor", "cap"} =>
        /\ Deleted # {} /\ job.pass # "cap" => Needed
        /\ ~(Rows(Stages) \subseteq Rows(Stages)') /\ job.deficit = 0 =>
              Cardinality(Rows(Stages) \ job.held) > Target(policy.cap)
        /\ job.pass = "cap" => \A s \in Deleted : s <= aged

\* No sweep deletes what it need not delete.
EvictionsAreNeeded == [][UnarchivedStays /\ NothingMoreIsEvicted]_sweeps

\* The recording disk gets back above its floor in the end, whatever the archive does, or
\* nothing is left on it that may go.
FloorRelieved ==
    <>[](\/ Free(policy.live) >= Floor
         \/ \A s \in Rows(Stages) \ pinned : disk[s] # policy.live \/ s \notin files)

\* max_retention_sweep, "a HARD CEILING": footage past it goes in the end, unless pinned or
\* on a disk that cannot be confirmed.
CeilingHolds ==
    policy.ceiling => <>[](\A s \in Rows({"live", "archive"}) \ pinned : s <= expired => Missing(s))
=============================================================================
