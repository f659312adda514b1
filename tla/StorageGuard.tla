---------------------------- MODULE StorageGuard ----------------------------
(* Reconcile may prune a storage's segment index only when it is looking at the *)
(* right disk (reconcile.rs, issue #504; recording.rs, audit R9): the marker     *)
(* file, its two writers, the dangling pass and its latching circuit breaker.    *)
(* One live storage root whose disk may be unmounted, showing the bare mountpoint*)
(* directory instead, and one archive storage that is always there.              *)
(*                                                                               *)
(* A segment is named by its start time. Its row says at which storage its file  *)
(* is: "unborn" before it is recorded, "gone" after the row was deleted.         *)
EXTENDS Integers, FiniteSets

CONSTANTS
    Segs, Old,       \* the segments, and those recorded before the first process
    MinMissing,      \* DANGLING_BREAKER_MIN_MISSING
    MissingPct,      \* DANGLING_BREAKER_MISSING_PCT
    Sample,          \* MARKER_CONFIRM_SAMPLE, STORAGE_MARKER_CONFIRM_SAMPLE
    MaxFlips, MaxRestarts,   \* bounds: mounts and unmounts, process restarts
    NoSeg

ASSUME GuardAssumption ==
    /\ IsFiniteSet(Segs) /\ Segs \subseteq Nat /\ Old \subseteq Segs
    /\ NoSeg \notin Segs \cup (Segs \X BOOLEAN)
    /\ \A o \in Old, s \in Segs \ Old : o < s
    /\ MinMissing \in Nat /\ MissingPct \in 0..100 /\ Sample \in Nat \ {0}
    /\ MaxFlips \in Nat /\ MaxRestarts \in Nat

VARIABLES
    mounted, flips, restarts,
    files,     \* the segments' files in each directory
    marker,    \* the directories that hold .crumb-storage
    row,       \* the segments table: where each row points
    own,       \* recorded by this process (start_ts >= recorder_process_start)
    vouch,     \* each marker writer: nothing to do, about to look, about to write
    latched,   \* TRIPPED_STORAGE_ROOTS names the root
    stage,     \* where the reconcile task is
    todo,      \* rows of the page not yet visited
    guard,     \* the pass's StorageGuard for the live root
    seg, step, at,   \* the row being visited, and where it was last seen to point
    steady,    \* history: the mount has not changed during this pass
    lost,      \* history: rows this pass pruned whose file is on the disk
    stray,     \* history: segments recorded onto the bare mountpoint
    moving     \* the archive move under way: <<segment, row already flipped>>

env == <<mounted, flips, restarts>>
marking == <<own, vouch>>
visit == <<seg, step, at>>
pass == <<stage, todo, guard, visit, steady, lost>>
vars == <<env, files, marker, row, marking, latched, pass, moving, stray>>

Dirs == {"disk", "bare", "archive"}
Writers == {"record", "seed"}
Places == {"unborn", "live", "archive", "gone"}
Guard == [marker : {"unread", "absent", "present"}, rows : Nat, checked : Nat,
          missing : Nat, tripped : BOOLEAN]
NewGuard(n) == [marker |-> "unread", rows |-> n, checked |-> 0, missing |-> 0, tripped |-> FALSE]

TypeOK ==
    /\ mounted \in BOOLEAN /\ flips \in 0..MaxFlips /\ restarts \in 0..MaxRestarts
    /\ files \in [Dirs -> SUBSET Segs] /\ marker \subseteq Dirs
    /\ row \in [Segs -> Places] /\ own \subseteq Segs
    /\ vouch \in [Writers -> {"rest", "look", "write"}] /\ latched \in BOOLEAN
    /\ stage \in {"asleep", "seed", "rows", "orphans"} /\ todo \subseteq Segs
    /\ guard \in Guard /\ seg \in Segs \cup {NoSeg}
    /\ step \in {"next", "refetch", "restat", "delete"} /\ at \in {"live", "archive"}
    /\ steady \in BOOLEAN /\ lost \subseteq Segs
    /\ moving \in (Segs \X BOOLEAN) \cup {NoSeg} /\ stray \subseteq Segs

\* The directory the live root's path leads to.
Root == IF mounted THEN "disk" ELSE "bare"
DirAt(place) == IF place = "live" THEN Root ELSE "archive"
LiveRows == {s \in Segs : row[s] = "live"}
Newest(S) == {s \in S : Cardinality({t \in S : t > s}) < Sample}

\* An install that has recorded before: every old segment is on the mounted, marked disk.
Init ==
    /\ mounted = TRUE /\ flips = 0 /\ restarts = 0
    /\ files = [d \in Dirs |-> IF d = "disk" THEN Old ELSE {}] /\ marker = {"disk", "archive"}
    /\ row = [s \in Segs |-> IF s \in Old THEN "live" ELSE "unborn"]
    /\ own = {} /\ vouch = [w \in Writers |-> "rest"] /\ latched = FALSE
    /\ stage = "asleep" /\ todo = {} /\ guard = NewGuard(0)
    /\ seg = NoSeg /\ step = "next" /\ at = "live"
    /\ steady = TRUE /\ lost = {} /\ moving = NoSeg /\ stray = {}

(***************************************************************************)
(* The world: the mount, an operator, and the end of the process.           *)
(***************************************************************************)
Flip ==
    /\ flips < MaxFlips /\ flips' = flips + 1
    /\ mounted' = ~mounted /\ steady' = FALSE
    /\ UNCHANGED <<restarts, files, marker, row, marking, latched, stage, todo, guard, visit, lost, moving, stray>>

\* A file is removed behind the recorder's back, but not one that is being moved.
LoseFile(s) ==
    /\ s \in files["disk"] /\ moving \notin {<<s, FALSE>>, <<s, TRUE>>}
    /\ files' = [files EXCEPT !["disk"] = @ \ {s}]
    /\ UNCHANGED <<env, marker, row, marking, latched, pass, moving, stray>>

Restart ==
    /\ restarts < MaxRestarts /\ restarts' = restarts + 1
    /\ own' = {} /\ vouch' = [w \in Writers |-> "rest"]
    /\ latched' = FALSE /\ moving' = NoSeg
    /\ stage' = "asleep" /\ todo' = {} /\ guard' = NewGuard(0)
    /\ seg' = NoSeg /\ step' = "next" /\ at' = "live" /\ steady' = TRUE /\ lost' = {}
    /\ UNCHANGED <<mounted, flips, files, marker, row, stray>>

(***************************************************************************)
(* The recording path, and the archiver moving a segment away.              *)
(***************************************************************************)
\* The next segment is written under the root, whichever directory that is, indexed,
\* and the storage it went to is to be confirmed.
Record(s) ==
    /\ row[s] = "unborn" /\ \A t \in Segs : t < s => row[t] # "unborn"
    /\ vouch["record"] = "rest"
    /\ files' = [files EXCEPT ![Root] = @ \cup {s}]
    /\ row' = [row EXCEPT ![s] = "live"] /\ own' = own \cup {s}
    /\ vouch' = [vouch EXCEPT !["record"] = "look"]
    /\ stray' = IF mounted THEN stray ELSE stray \cup {s}
    /\ UNCHANGED <<env, marker, latched, pass, moving>>

\* Copy, verify, flip the row, remove the source (move_segment_to_archive).
MoveCopy(s) ==
    /\ moving = NoSeg /\ row[s] = "live" /\ s \in files[Root]
    /\ files' = [files EXCEPT !["archive"] = @ \cup {s}] /\ moving' = <<s, FALSE>>
    /\ UNCHANGED <<env, marker, row, marking, latched, pass, stray>>

\* A row that is gone fails the move: the copy stays, and the source.
MoveRow ==
    /\ moving # NoSeg /\ ~moving[2]
    /\ IF row[moving[1]] = "gone" THEN moving' = NoSeg /\ UNCHANGED row
       ELSE moving' = <<moving[1], TRUE>> /\ row' = [row EXCEPT ![moving[1]] = "archive"]
    /\ UNCHANGED <<env, files, marker, marking, latched, pass, stray>>

MoveDelete ==
    /\ moving # NoSeg /\ moving[2] /\ moving' = NoSeg
    /\ files' = [files EXCEPT ![Root] = @ \ {moving[1]}]
    /\ UNCHANGED <<env, marker, row, marking, latched, pass, stray>>

\* Retention removes a file it finds, then its row.
Expire(s) ==
    /\ row[s] \in {"live", "archive"} /\ s \in files[DirAt(row[s])] /\ moving \notin {<<s, FALSE>>, <<s, TRUE>>}
    /\ files' = [files EXCEPT ![DirAt(row[s])] = @ \ {s}] /\ row' = [row EXCEPT ![s] = "gone"]
    /\ UNCHANGED <<env, marker, marking, latched, pass, moving, stray>>

(***************************************************************************)
(* The two marker writers. They look first and write later.                 *)
(***************************************************************************)
\* The sample each writer compares the root with: the recording path leaves out what
\* this process recorded, the seed pass does not.
History(w) == IF w = "record" THEN Newest(LiveRows \ own) ELSE Newest(LiveRows)

\* marker_write_confirmed: no older history, or some of it is here.  The seed pass
\* requires some of it to be here.
Confirmed(w) ==
    \/ History(w) \cap files[Root] # {}
    \/ w = "record" /\ History(w) = {}

Look(w) ==
    /\ vouch[w] = "look"
    /\ \/ /\ Root \notin marker /\ Confirmed(w)
          /\ vouch' = [vouch EXCEPT ![w] = "write"]
       \/ vouch' = [vouch EXCEPT ![w] = "rest"]  \* not so, the query failed, or just refused
    /\ UNCHANGED <<env, files, marker, row, own, latched, pass, moving, stray>>

EnsureMarker(w) ==
    /\ vouch[w] = "write" /\ vouch' = [vouch EXCEPT ![w] = "rest"]
    /\ marker' = marker \cup {Root}
    /\ UNCHANGED <<env, files, row, own, latched, pass, moving, stray>>

(***************************************************************************)
(* One reconcile pass: seed the markers, visit every row, adopt orphans.     *)
(***************************************************************************)
StartPass ==
    /\ stage = "asleep" /\ stage' = "seed" /\ vouch' = [vouch EXCEPT !["seed"] = "look"]
    /\ steady' = TRUE /\ lost' = {}
    /\ UNCHANGED <<env, files, marker, row, own, latched, todo, guard, visit, moving, stray>>

\* One page holds every row; rows that point to the archive are found there and left.
ReadPage ==
    /\ stage = "seed" /\ vouch["seed"] = "rest"
    /\ stage' = "rows" /\ todo' = LiveRows /\ guard' = NewGuard(Cardinality(LiveRows))
    /\ UNCHANGED <<env, files, marker, row, marking, latched, visit, steady, lost, moving, stray>>

\* Mutant: the latch is not consulted.
LoadGuardUnlatched ==
    /\ stage = "rows" /\ guard.marker = "unread" /\ todo # {}
    /\ guard' = [guard EXCEPT !.marker = IF Root \in marker THEN "present" ELSE "absent"]
    /\ UNCHANGED <<env, files, marker, row, marking, latched, stage, todo, visit, steady, lost, moving, stray>>

\* The first row of the root decides for the whole pass.
LoadGuard ==
    /\ stage = "rows" /\ guard.marker = "unread" /\ todo # {}
    /\ guard' = [guard EXCEPT !.marker = IF ~latched /\ Root \in marker THEN "present" ELSE "absent"]
    /\ UNCHANGED <<env, files, marker, row, marking, latched, stage, todo, visit, steady, lost, moving, stray>>

\* A row of an unconfirmed storage is skipped; a file that is there is left alone; a
\* missing one is counted and its row read again.
Visit(s) ==
    /\ stage = "rows" /\ seg = NoSeg /\ s \in todo /\ guard.marker # "unread"
    /\ todo' = todo \ {s}
    /\ LET gone == guard.marker = "present" /\ s \notin files[Root]
       IN  /\ guard' = IF guard.marker = "absent" THEN guard
                       ELSE [guard EXCEPT !.checked = @ + 1, !.missing = IF gone THEN @ + 1 ELSE @]
           /\ IF gone THEN seg' = s /\ step' = "refetch" ELSE UNCHANGED <<seg, step>>
    /\ UNCHANGED <<env, files, marker, row, marking, latched, stage, at, steady, lost, moving, stray>>

Leave == seg' = NoSeg /\ step' = "next" /\ at' = "live"

\* Mutant: the row may be gone.
RefetchUnchecked ==
    /\ step = "refetch" /\ step' = "restat" /\ at' = row[seg] /\ UNCHANGED seg
    /\ UNCHANGED <<env, files, marker, row, marking, latched, stage, todo, guard, steady, lost, moving, stray>>

\* Mutant: the stale location of the page is looked at again.
RefetchNothing ==
    /\ step = "refetch" /\ step' = "restat" /\ UNCHANGED <<seg, at>>
    /\ UNCHANGED <<env, files, marker, row, marking, latched, stage, todo, guard, steady, lost, moving, stray>>

Refetch ==
    /\ step = "refetch"
    /\ IF row[seg] = "gone" THEN Leave
       ELSE step' = "restat" /\ at' = row[seg] /\ UNCHANGED seg
    /\ UNCHANGED <<env, files, marker, row, marking, latched, stage, todo, guard, steady, lost, moving, stray>>

\* Mutant: counts that do not include the row about to be deleted.
TripsLate(g) == g.missing - 1 > MinMissing /\ (g.missing - 1) * 100 > g.checked * MissingPct

\* dangling_breaker_trips; its counts include the row about to be deleted.
Trips(g) == g.missing > MinMissing /\ g.missing * 100 > g.checked * MissingPct

Restat ==
    /\ step = "restat"
    /\ IF seg \in files[DirAt(at)] \/ guard.tripped THEN Leave /\ UNCHANGED <<guard, latched>>
       ELSE IF Trips(guard) THEN Leave /\ guard' = [guard EXCEPT !.tripped = TRUE] /\ latched' = TRUE
       ELSE step' = "delete" /\ UNCHANGED <<seg, at, guard, latched>>
    /\ UNCHANGED <<env, files, marker, row, marking, stage, todo, steady, lost, moving, stray>>

DeleteRow ==
    /\ step = "delete" /\ Leave
    /\ row' = [row EXCEPT ![seg] = "gone"]
    /\ lost' = IF seg \in files["disk"] THEN lost \cup {seg} ELSE lost
    /\ UNCHANGED <<env, files, marker, marking, latched, stage, todo, guard, steady, moving, stray>>

DeleteFails ==
    /\ step = "delete" /\ Leave
    /\ UNCHANGED <<env, files, marker, row, marking, latched, stage, todo, guard, steady, lost, moving, stray>>

EndRows ==
    /\ stage = "rows" /\ todo = {} /\ seg = NoSeg /\ stage' = "orphans"
    /\ UNCHANGED <<env, files, marker, row, marking, latched, todo, guard, visit, steady, lost, moving, stray>>

\* A pruned row comes back from its file, without its motion history.
Adopt(s, place) ==
    /\ stage = "orphans" /\ row[s] = "gone" /\ s \in files[DirAt(place)]
    /\ row' = [row EXCEPT ![s] = place]
    /\ UNCHANGED <<env, files, marker, marking, latched, pass, moving, stray>>

\* Mutant: reconcile is a single startup pass.
EndForGood ==
    /\ stage = "orphans" /\ UNCHANGED vars

EndPass ==
    /\ stage = "orphans" /\ stage' = "asleep"
    /\ UNCHANGED <<env, files, marker, row, marking, latched, todo, guard, visit, steady, lost, moving, stray>>

Next ==
    \/ Flip \/ Restart \/ \E s \in Segs : LoseFile(s)
    \/ \E s \in Segs : Record(s) \/ MoveCopy(s) \/ Expire(s)
    \/ MoveRow \/ MoveDelete
    \/ \E w \in Writers : Look(w) \/ EnsureMarker(w)
    \/ StartPass \/ ReadPage \/ LoadGuard \/ \E s \in Segs : Visit(s)
    \/ Refetch \/ Restat \/ DeleteRow \/ DeleteFails \/ EndRows
    \/ \E s \in Segs, place \in {"live", "archive"} : Adopt(s, place)
    \/ EndPass

Spec == Init /\ [][Next]_vars

\* The reconcile task runs pass after pass, and a delete does not fail for ever.
PassStep ==
    \/ StartPass \/ Look("seed") \/ EnsureMarker("seed") \/ ReadPage \/ LoadGuard
    \/ (\E s \in Segs : Visit(s)) \/ Refetch \/ Restat \/ EndRows \/ EndPass

FairSpec == Spec /\ WF_vars(PassStep) /\ SF_vars(DeleteRow)

(***************************************************************************)
(* Properties.                                                              *)
(***************************************************************************)
Pruned(s) == step = "delete" /\ seg = s /\ row[s] # "gone" /\ row'[s] = "gone"

\* A pass during which the mount does not change prunes no row whose file is where the
\* row points, wherever the archiver has moved it since the page was read, unless the
\* bare mountpoint has been given a marker or the footage itself was recorded there
\* (reconcile.rs, run_background: the marker layer and the re-verify).
HasFile(s) == s \in files[IF row[s] = "archive" THEN "archive" ELSE "disk"]

SteadyMountKeepsRows ==
    [][\A s \in Segs : Pruned(s) /\ HasFile(s) => ~steady \/ "bare" \in marker \/ s \in stray]_vars

\* A disk that goes away under a pass costs at most MinMissing rows, or the share
\* MissingPct of the rows the pass visits, whichever is more (dangling_breaker_trips).
LossBounded ==
    \/ Cardinality(lost) <= MinMissing
    \/ Cardinality(lost) * 100 <= guard.rows * MissingPct

\* Once the breaker has tripped nothing is pruned until the process restarts
\* (latch_storage_breaker).
LatchedIsNotPruned == [][\A s \in Segs : Pruned(s) => ~latched]_vars

\* No row goes that either layer of the guard speaks for: marker and re-verify while the
\* mount is steady, the latch whatever the mount does.
PrunesAreJustified == SteadyMountKeepsRows /\ LatchedIsNotPruned

\* Once the disk stays mounted, the index comes to agree with it again and again: no row
\* whose file is gone, unless the breaker has tripped (run_periodic).
IndexConverges ==
    <>[]mounted => []<>(latched \/ \A s \in LiveRows : s \in files["disk"])
=============================================================================
