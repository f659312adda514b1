------------------------------ MODULE MCStorage -------------------------------
(* When the archiver runs, what its moves and the drain's do to the rows, and what  *)
(* reconcile's walk does to the files: three parts that share no state here. A      *)
(* behaviour is one of them, the others stand still.                                *)
EXTENDS MCStorageMoves, ArchiveSchedule, OrphanWalk

VARIABLE part

MCOccurs == [s \in Schedules |-> IF s = "early" THEN {4, 6} ELSE {5}]

\* Two valid schedules, or one, with one that is invalid or missing.
FewSettings ==
    /\ clock = 3
    /\ setting \in {<<"early", "late">>, <<"bad", "late">>, <<"none", "early">>}

MCInit ==
    /\ part \in {"moves", "schedule", "walk"}
    /\ Init /\ (part # "moves" => <<dir, from>> = CHOOSE j \in Jobs : TRUE)
    /\ ScheduleInit /\ FewSettings /\ (part # "schedule" => setting[1] = "none")
    /\ WalkInit /\ (part # "walk" => index # {} /\ DOMAIN tree # {} /\ tree[Fresh].size = 0)

MCNext ==
    /\ \/ part = "moves" /\ Next /\ UNCHANGED <<schedule, walk>>
       \/ part = "schedule" /\ ScheduleNext /\ UNCHANGED <<vars, walk>>
       \/ part = "walk" /\ WalkNext /\ UNCHANGED <<vars, schedule>>
    /\ UNCHANGED part

\* The fairness each part states for itself, of the part that moves.
MCSpec ==
    /\ MCInit /\ [][MCNext]_<<part, vars, schedule, walk>>
    /\ WF_vars(part = "moves" /\ DrainStep) /\ WF_vars(part = "moves" /\ MoveStep)
    /\ SF_vars(part = "moves" /\ Flip)
    /\ WF_schedule(part = "schedule" /\ TickStep)
    /\ WF_walk(part = "walk" /\ PassMoves) /\ WF_walk(part = "walk" /\ RecorderMoves)
    /\ WF_walk(part = "walk" /\ (FlipRow \/ RemoveMoved)) /\ WF_walk(part = "walk" /\ Settle)

StorageTypeOK == TypeOK /\ ScheduleTypeOK /\ WalkTypeOK

\* Neither a drain nor the archiver's backlog goes on for ever, and in the end the index
\* agrees with the files.
StorageSettles ==
    /\ part = "moves" => DrainEnds
    /\ part = "schedule" => BacklogsEnd
    /\ part = "walk" => WalkConverges
===============================================================================
