----------------------------- MODULE OrphanWalk -----------------------------
(* What a reconcile pass does to the files (reconcile.rs): it repairs the size of *)
(* rows, removes files below the playable floor, walks the storage roots for      *)
(* files no row references, adopts them or moves them to _quarantine, and purges  *)
(* that. Next to it the recorder, the archiver, retention and an operator, who    *)
(* change files and rows between any two of its steps.                            *)
(*                                                                                *)
(* The files of one camera whose names carry one start time: in either storage    *)
(* the one named for that time and the one with a -rN suffix, the loser of a      *)
(* clock collision. The prune of rows without file, its marker and its breaker    *)
(* are in StorageGuard; here it is one step.                                      *)
EXTENDS Integers, Sequences, FiniteSets

CONSTANTS
    MaxEvents,     \* bound: openings, collisions, moves, deletions, clock steps, crashes, failures
    MaxSize        \* bound: size of a file; 0 is below SUB_FLOOR_BYTES

ASSUME WalkAssumption == MaxEvents \in Nat /\ MaxSize \in Nat \ {0}

VARIABLES
    tree,       \* the files in the camera's directories
    index,      \* the segments table: the row of this start time, if there is one
    parked,     \* what lies in _quarantine
    camera,     \* the camera exists
    born,       \* the recorder has written this start time
    closing,    \* files the recorder has closed and is about to index
    transfer,   \* the archive move under way
    events,     \* how many times the world has interfered
    pc,         \* where the pass is
    page,       \* the row as the pass read it, and whether its id is still in the table
    roots,      \* storage roots still to be walked, the one being walked first
    offers,     \* files listed there and not yet dealt with
    cand,       \* the file being dealt with
    weight      \* its size as it was looked up

cursor == <<pc, page, roots, offers, cand, weight>>
world == <<camera, born, closing, transfer, events>>
walk == <<tree, index, parked, world, cursor>>

Files == [root : {"live", "archive"}, loser : BOOLEAN]
Fresh == [root |-> "live", loser |-> FALSE]
Loser == [root |-> "live", loser |-> TRUE]
Sizes == 0..MaxSize
Walks == {<<"live", "archive">>, <<"archive", "live">>}
Ages == {"young", "settled", "old", "future"}   \* of the mtime: see InFlight, WindowPasses
Stat == [size : Sizes, open : BOOLEAN, age : Ages]
Row == [at : Files, size : Sizes]
Parked == [file : Files, plain : BOOLEAN, age : Ages, reviewed : BOOLEAN]
NoMove == [src |-> Fresh, step |-> "none", row |-> FALSE]

WalkTypeOK ==
    /\ DOMAIN tree \subseteq Files /\ \A f \in DOMAIN tree : tree[f] \in Stat
    /\ index \subseteq Row /\ Cardinality(index) <= 1
    /\ parked \subseteq Parked
    /\ camera \in BOOLEAN /\ born \in BOOLEAN /\ closing \subseteq Files
    /\ transfer \in [src : Files, step : {"none", "copied", "flipped"}, row : BOOLEAN]
    /\ events \in 0..MaxEvents
    /\ pc \in {"rest", "row", "unlinked", "roots", "listed", "offer",
               "judge", "insert", "confirm", "park", "purge"}
    /\ page \in [rows : SUBSET Row, same : BOOLEAN] /\ page.rows # {} => Cardinality(page.rows) = 1
    /\ roots \in Walks \cup {Tail(w) : w \in Walks} \cup {<<>>} /\ offers \subseteq Files
    /\ cand \in Files /\ weight \in Sizes

With(f, stat) == [g \in DOMAIN tree \cup {f} |-> IF g = f THEN stat ELSE tree[g]]
Without(f) == [g \in DOMAIN tree \ {f} |-> tree[g]]
Exists(f) == f \in DOMAIN tree
Away(f) == [f EXCEPT !.root = "archive"]
NoPage == [rows |-> {}, same |-> FALSE]

\* A new install, one that has recorded this start time, one with a row of the time
\* before the floor, and one whose database lost the row.
WalkInit ==
    /\ \/ tree = [g \in {} |-> g] /\ index = {} /\ born = FALSE
       \/ \E n \in Sizes :
            /\ tree = [g \in {Fresh} |-> [size |-> n, open |-> FALSE, age |-> "old"]]
            /\ index \in {{}, {[at |-> Fresh, size |-> n]}} /\ born = TRUE
    /\ parked = {} /\ camera = TRUE /\ closing = {} /\ transfer = NoMove /\ events = 0
    /\ pc = "rest" /\ page = NoPage /\ roots = <<>> /\ offers = {} /\ cand = Fresh /\ weight = 0

Interferes == events < MaxEvents /\ events' = events + 1

\* The row goes: who remembers its id finds no row.
DropRow == index' = {} /\ transfer' = [transfer EXCEPT !.row = FALSE]
LosesId == page' = [page EXCEPT !.same = FALSE]

-----------------------------------------------------------------------------
(* Time.                                                                       *)

\* Mutant: the difference to an mtime in the future is negative, so always small.
InFlightForGood(f) == tree[f].age \in {"young", "future"}

\* mtime_in_flight: written within two segment lengths; a time in the future is no such time.
InFlight(f) == tree[f].age = "young"

\* An open file is written to again and again; the row of a suffixed one is written, or
\* flipped by its move, within two segment lengths.
UnderWay(f) ==
    \/ tree[f].open
    \/ f.loser /\ (f \in closing \/ (transfer.step = "copied" /\ f = Away(transfer.src)))

\* Two segment lengths pass.
Settle ==
    /\ LET now == {f \in DOMAIN tree : tree[f].age = "young" /\ ~UnderWay(f)}
       IN  /\ now # {}
           /\ tree' = [f \in DOMAIN tree |-> IF f \in now THEN [tree[f] EXCEPT !.age = "settled"] ELSE tree[f]]
    /\ UNCHANGED <<index, parked, world, cursor>>

\* quarantine_retention_days pass: who looks into _quarantine has seen what is there.
WindowPasses ==
    /\ tree' = [f \in DOMAIN tree |->
                  IF tree[f].age = "settled" THEN [tree[f] EXCEPT !.age = "old"] ELSE tree[f]]
    /\ parked' = {[q EXCEPT !.reviewed = TRUE, !.age = IF @ = "future" THEN @ ELSE "old"] : q \in parked}
    /\ <<tree', parked'>> # <<tree, parked>>
    /\ UNCHANGED <<index, world, cursor>>

\* The clock steps back: whatever was written before is of the future.
ClockBack ==
    /\ Interferes
    /\ tree' = [f \in DOMAIN tree |-> IF UnderWay(f) THEN tree[f] ELSE [tree[f] EXCEPT !.age = "future"]]
    /\ parked' = {[q EXCEPT !.age = "future"] : q \in parked}
    /\ UNCHANGED <<index, camera, born, closing, transfer, cursor>>

-----------------------------------------------------------------------------
(* The recorder, and what else changes files and rows.                         *)

\* ffmpeg opens the segment of this start time, or opens the name again after a restart
\* within the second, truncating it.
Open ==
    /\ Interferes /\ camera
    /\ \/ ~born
       \/ Exists(Fresh) /\ tree[Fresh].age = "young" /\ ~tree[Fresh].open /\ Fresh \notin closing
    /\ born' = TRUE /\ tree' = With(Fresh, [size |-> 0, open |-> TRUE, age |-> "young"])
    /\ UNCHANGED <<index, parked, camera, closing, transfer, cursor>>

\* The start time comes again after a clock step; the name is taken, the suffix is not.
\* Not in the instant in which the pass has an earlier file of that suffix in hand.
Collide ==
    /\ Interferes /\ camera /\ Exists(Fresh) /\ ~InFlight(Fresh) /\ ~Exists(Loser)
    /\ pc \in {"judge", "confirm", "park"} => cand # Loser
    /\ tree' = With(Loser, [size |-> MaxSize, open |-> FALSE, age |-> "young"])
    /\ closing' = closing \cup {Loser}
    /\ UNCHANGED <<index, parked, camera, born, transfer, cursor>>

Close(f) ==
    /\ Exists(f) /\ tree[f].open
    /\ \E n \in Sizes : tree' = With(f, [tree[f] EXCEPT !.size = n, !.open = FALSE])
    /\ closing' = closing \cup {f}
    /\ UNCHANGED <<index, parked, camera, born, transfer, events, cursor>>

Largest(S) == CHOOSE n \in S : \A m \in S : m <= n

\* index_segment: not below the floor, not if the file cannot be synced, not without a
\* camera. A suffixed file never takes an existing row; another repoints it.
IndexFile(f) ==
    /\ f \in closing /\ closing' = closing \ {f}
    /\ index' = IF Exists(f) /\ camera /\ tree[f].size > 0 /\ ~(f.loser /\ index # {})
                THEN {[at |-> f, size |-> Largest({tree[f].size} \cup {r.size : r \in index})]}
                ELSE index
    /\ UNCHANGED <<tree, parked, camera, born, transfer, events, cursor>>

\* move_segment_to_archive: copy and verify, flip the row by its id, remove the source. The
\* copy overwrites what an earlier move has left there, though not within the instant in which
\* the pass has that in hand. A row that is gone fails the move: the copy stays, and the source.
Copy(f) ==
    /\ Interferes /\ transfer = NoMove
    /\ Exists(f) /\ ~InFlight(f) /\ f.root = "live"
    /\ pc \in {"judge", "confirm", "park"} => cand # Away(f)
    /\ [at |-> f, size |-> tree[f].size] \in index
    /\ tree' = With(Away(f), [size |-> tree[f].size, open |-> FALSE, age |-> "young"])
    /\ transfer' = [src |-> f, step |-> "copied", row |-> TRUE]
    /\ UNCHANGED <<index, parked, camera, born, closing, cursor>>

FlipRow ==
    /\ transfer.step = "copied"
    /\ IF ~transfer.row THEN transfer' = NoMove /\ UNCHANGED index
       ELSE /\ transfer' = [transfer EXCEPT !.step = "flipped"]
            /\ index' = {[r EXCEPT !.at = Away(transfer.src)] : r \in index}
    /\ UNCHANGED <<tree, parked, camera, born, closing, events, cursor>>

RemoveMoved ==
    /\ transfer.step = "flipped" /\ transfer' = NoMove
    /\ tree' = Without(transfer.src)
    /\ UNCHANGED <<index, parked, camera, born, closing, events, cursor>>

\* Retention removes the file of the row, then the row.
ExpireSegment ==
    /\ Interferes
    /\ \E r \in index : Exists(r.at) /\ tree' = Without(r.at)
    /\ DropRow /\ LosesId
    /\ UNCHANGED <<parked, camera, born, closing, pc, roots, offers, cand, weight>>

RemoveFile(f) ==
    /\ Interferes /\ Exists(f) /\ ~tree[f].open /\ tree' = Without(f)
    /\ UNCHANGED <<index, parked, camera, born, closing, transfer, cursor>>

\* delete_camera: its rows go with it, its files stay.
DeleteCamera ==
    /\ Interferes /\ camera /\ camera' = FALSE /\ DropRow /\ LosesId
    /\ UNCHANGED <<tree, parked, born, closing, pc, roots, offers, cand, weight>>

\* What the process was writing: a segment, or the copy of a move.
Writes(f) == tree[f].open \/ (transfer.step = "copied" /\ f = Away(transfer.src) /\ InFlight(f))

\* The process dies with all it was doing; a file it was writing stays as short as it is.
Crash ==
    /\ Interferes
    /\ \E n \in Sizes : tree' = [f \in DOMAIN tree |->
            IF Writes(f) /\ (tree[f].open \/ n <= tree[f].size)
            THEN [tree[f] EXCEPT !.open = FALSE, !.size = n] ELSE tree[f]]
    /\ closing' = {} /\ transfer' = NoMove
    /\ pc' = "rest" /\ page' = NoPage /\ roots' = <<>> /\ offers' = {} /\ cand' = Fresh /\ weight' = 0
    /\ UNCHANGED <<index, parked, camera, born>>

-----------------------------------------------------------------------------
(* The rows of one pass.                                                       *)
ReadRows ==
    /\ pc = "rest" /\ pc' = "row" /\ page' = [rows |-> index, same |-> index # {}]
    /\ UNCHANGED <<tree, index, parked, world, roots, offers, cand, weight>>

RowsDone ==
    /\ pc' = "roots" /\ roots' \in Walks /\ page' = NoPage
    /\ UNCHANGED <<offers, cand, weight>>

NothingIndexed ==
    /\ pc = "row" /\ page.rows = {} /\ RowsDone
    /\ UNCHANGED <<tree, index, parked, world>>

\* The file is missing, also where the row is now: StorageGuard has the steps.
PruneRow(r) ==
    /\ pc = "row" /\ r \in page.rows /\ ~Exists(r.at) /\ RowsDone
    /\ IF page.same /\ \E x \in index : ~Exists(x.at) THEN DropRow ELSE UNCHANGED <<index, transfer>>
    /\ UNCHANGED <<tree, parked, camera, born, closing, events>>

\* Mutant: the floor is looked at only if the size has drifted.
DriftedStub(r) == tree[r.at].size = 0 /\ r.size # 0

\* The floor is checked whatever the row claims.
BelowFloor(r) == tree[r.at].size = 0

RemoveStub(r) ==
    /\ pc = "row" /\ r \in page.rows /\ Exists(r.at) /\ ~InFlight(r.at) /\ BelowFloor(r)
    /\ tree' = Without(r.at) /\ pc' = "unlinked"
    /\ UNCHANGED <<index, parked, world, page, roots, offers, cand, weight>>

DropStubRow ==
    /\ pc = "unlinked" /\ RowsDone
    /\ IF page.same THEN DropRow ELSE UNCHANGED <<index, transfer>>
    /\ UNCHANGED <<tree, parked, camera, born, closing, events>>

\* A file in flight is left to a later pass, another's size is put into the row.
CheckSize(r) ==
    /\ pc = "row" /\ r \in page.rows /\ Exists(r.at) /\ (InFlight(r.at) \/ ~BelowFloor(r)) /\ RowsDone
    /\ index' = IF InFlight(r.at) \/ ~page.same THEN index
                ELSE {[x EXCEPT !.size = tree[r.at].size] : x \in index}
    /\ UNCHANGED <<tree, parked, world>>

-----------------------------------------------------------------------------
(* The walk.                                                                   *)

\* Mutant: another storage lies inside this one and is walked with it.
ListsAll(root) == DOMAIN tree

\* The directory's files, never those under another storage's root.
Lists(root) == {f \in DOMAIN tree : f.root = root}

\* No other storage's row is asked for.
Indexed(f) == f.root = roots[1] /\ \E r \in index : r.at = f

List ==
    /\ pc = "roots" /\ pc' = "listed" /\ offers' = Lists(roots[1])
    /\ UNCHANGED <<tree, index, parked, world, page, roots, cand, weight>>

\* The rows of the dated files on this storage; a suffixed name is of no known date.
Compare ==
    /\ pc = "listed" /\ pc' = "offer"
    /\ offers' = {f \in offers : f.loser \/ ~Indexed(f)}
    /\ UNCHANGED <<tree, index, parked, world, page, roots, cand, weight>>

Offered(f) == f \in offers /\ (f.loser => \A g \in offers : g.loser)

Gate(f) ==
    /\ pc = "offer" /\ Offered(f) /\ offers' = offers \ {f}
    /\ IF Exists(f) /\ ~InFlight(f) THEN cand' = f /\ pc' = "judge" ELSE UNCHANGED <<cand, pc>>
    /\ UNCHANGED <<tree, index, parked, world, page, roots, weight>>

\* What becomes of the candidate: its name, its camera and its size, in this order.
Verdict ==
    IF cand.loser THEN "confirm"
    ELSE IF ~camera THEN "park"
    ELSE IF ~Exists(cand) THEN "offer"
    ELSE IF tree[cand].size = 0 THEN "park"
    ELSE "insert"

Judge ==
    /\ pc = "judge" /\ pc' = Verdict
    /\ weight' = IF Verdict = "insert" THEN tree[cand].size ELSE weight
    /\ UNCHANGED <<tree, index, parked, world, page, roots, offers, cand>>

Found == [at |-> cand, size |-> weight]

\* Mutant: a stream of its own in the key, so that nothing is found there.
AdoptBeside ==
    /\ pc = "insert" /\ pc' = "offer" /\ weight' = 0
    /\ index' = IF camera THEN index \cup {Found} ELSE index
    /\ UNCHANGED <<tree, parked, world, page, roots, offers, cand>>

\* Mutant: the recorder's insert, which repoints a row that is there.
AdoptAnyway ==
    /\ pc = "insert" /\ pc' = "offer" /\ weight' = 0
    /\ index' = IF camera THEN {Found} ELSE index
    /\ UNCHANGED <<tree, parked, world, page, roots, offers, cand>>

\* Mutant: "already indexed" is taken for junk.
AdoptOrPark ==
    /\ pc = "insert" /\ weight' = 0
    /\ IF index = {} /\ camera THEN index' = {Found} /\ pc' = "offer"
       ELSE pc' = "park" /\ UNCHANGED index
    /\ UNCHANGED <<tree, parked, world, page, roots, offers, cand>>

\* insert_segment_if_absent: a row that is there stays, and the file too.
AdoptFile ==
    /\ pc = "insert" /\ pc' = "offer" /\ weight' = 0
    /\ index' = IF index = {} /\ camera THEN {Found} ELSE index
    /\ UNCHANGED <<tree, parked, world, page, roots, offers, cand>>

\* Mutant: a name of no date is nobody's.
ConfirmNothing ==
    /\ pc = "confirm" /\ pc' = "park"
    /\ UNCHANGED <<tree, index, parked, world, page, roots, offers, cand, weight>>

\* A name that was not compared is looked up before the file is moved.
Confirm ==
    /\ pc = "confirm" /\ pc' = IF Indexed(cand) THEN "offer" ELSE "park"
    /\ UNCHANGED <<tree, index, parked, world, page, roots, offers, cand, weight>>

Plain(f) == \A q \in parked : q.file = f => ~q.plain

\* Mutant: the file keeps the time of its recording.
EntryUnstamped(f) == [file |-> f, plain |-> Plain(f), age |-> tree[f].age, reviewed |-> FALSE]

\* A name that is taken gets the time appended; the mtime is that of the entry.
Entry(f) == [file |-> f, plain |-> Plain(f), age |-> "young", reviewed |-> FALSE]

Park ==
    /\ pc = "park" /\ pc' = "offer"
    /\ IF Exists(cand) THEN tree' = Without(cand) /\ parked' = parked \cup {Entry(cand)}
       ELSE UNCHANGED <<tree, parked>>
    /\ UNCHANGED <<index, world, page, roots, offers, cand, weight>>

NextRoot ==
    /\ pc = "offer" /\ offers = {}
    /\ roots' = Tail(roots) /\ cand' = Fresh
    /\ pc' = IF roots' = <<>> THEN "purge" ELSE "roots"
    /\ UNCHANGED <<tree, index, parked, world, page, offers, weight>>

\* A query or a rename fails: the candidate, or the chunk, is left to the next pass.
WalkFails ==
    /\ Interferes /\ pc \in {"listed", "judge", "insert", "confirm", "park"}
    /\ pc' = "offer" /\ weight' = 0
    /\ offers' = IF pc = "listed" THEN {f \in offers : f.loser} ELSE offers
    /\ UNCHANGED <<tree, index, parked, camera, born, closing, transfer, page, roots, cand>>

\* Mutant: suffixed names are not exempt.
AgedAll(q) == q.age = "old"

\* prune_quarantine: what is older than the window; a name that ends in -rN never.
Aged(q) == q.age = "old" /\ ~(q.file.loser /\ q.plain)

\* The retention is read for each pass; 0, or an error, purges nothing.
Purge ==
    /\ pc = "purge" /\ pc' = "rest"
    /\ parked' \in {parked, {q \in parked : ~Aged(q)}}
    /\ UNCHANGED <<tree, index, world, page, roots, offers, cand, weight>>

PassMoves ==
    \/ ReadRows \/ NothingIndexed \/ DropStubRow
    \/ \E r \in page.rows : PruneRow(r) \/ RemoveStub(r) \/ CheckSize(r)
    \/ \E f \in offers : Gate(f)
    \/ List \/ Compare \/ Judge \/ AdoptFile \/ Confirm \/ Park \/ NextRoot \/ Purge

RecorderMoves == \E f \in Files : Close(f) \/ IndexFile(f)

WalkNext ==
    \/ PassMoves \/ WalkFails
    \/ RecorderMoves \/ FlipRow \/ RemoveMoved
    \/ Open \/ Collide \/ ExpireSegment \/ DeleteCamera \/ Crash
    \/ \E f \in Files : Copy(f) \/ RemoveFile(f)
    \/ Settle \/ WindowPasses \/ ClockBack

WalkSpec ==
    /\ WalkInit /\ [][WalkNext]_walk
    /\ WF_walk(PassMoves) /\ WF_walk(RecorderMoves) /\ WF_walk(FlipRow \/ RemoveMoved) /\ WF_walk(Settle)

-----------------------------------------------------------------------------
(* Properties.                                                                 *)

\* A pass repoints no row, takes no file from a row, and drops a row only if its file is
\* missing or of no use.
KeepsRows ==
    \A r \in index :
        /\ Exists(r.at) /\ tree[r.at].size > 0 => r.at \in DOMAIN tree'
        /\ index' = {} => ~Exists(r.at) \/ tree[r.at].size = 0
        /\ \A x \in index' : x.at = r.at

\* A file of some use leaves the directories only for _quarantine.
OnlyParks ==
    \A f \in DOMAIN tree \ DOMAIN tree' :
        tree[f].size > 0 => \E q \in parked' : q.file = f /\ ~q.reviewed

\* It leaves _quarantine after a whole window in which an operator could see it there; the
\* loser of a collision stays, unless its name was taken when it came.
OnlyReviewed == \A q \in parked \ parked' : q.reviewed /\ ~(q.file.loser /\ q.plain)

\* Whatever the recorder, the archiver and retention do between two of its steps, a pass
\* loses no footage (orphan_pass, offer_orphan, prune_quarantine; DECISIONS.md:4508-4515).
WalkLosesNothing == [][PassMoves => KeepsRows /\ OnlyParks /\ OnlyReviewed]_walk

\* Once the world lets it alone, the index agrees with the files for good: a row has a
\* usable file of its size, a usable file's time has a row, and nothing else is left in the
\* directories; an mtime of the future or a size the row already claims hide nothing.
InOrder(f) ==
    /\ tree[f].size > 0
    /\ camera /\ \E r \in index : f.loser => r.at = f

IndexAgrees ==
    /\ \A r \in index : Exists(r.at) /\ tree[r.at].size = r.size
    /\ \A f \in DOMAIN tree : InOrder(f)

WalkConverges == <>[]IndexAgrees
=============================================================================
