----------------------------- MODULE MotionUnion -----------------------------
(***************************************************************************)
(* The union of the START/STOP edges of a camera's additive motion sources *)
(* (recording.rs, `MotionUnion'): the buffer is to see a START only when    *)
(* the first source opens and a STOP only when the last one closes.         *)
(*                                                                          *)
(* An event is keyed by its `started_at'.  The code relies on distinct      *)
(* sources having distinct wall-clock start times; the key here is the pair  *)
(* of the source and the (coarse) time, which makes them so.                *)
(***************************************************************************)
EXTENDS MotionBuffer

CONSTANT Sources                     \* the enabled motion sources

Signal == [src : Sources, start : Nat, stop : StopTime]
EventKey == Sources \X Nat
KeyOf(sig) == <<sig.src, sig.start>>

NoEdge == [start |-> 0, stop |-> -2]
Union == [open : SUBSET EventKey,
          since : Nat,               \* union_started_at, 0 while nothing is open
          replay : Edge \cup {NoEdge}]

EmptyUnion == [open |-> {}, since |-> 0, replay |-> NoEdge]

\* Mutant: any source's STOP stops the recording.
AnyStopEdge(u, sig) ==
    IF IsStart(sig)
    THEN IF u.open = {} THEN [start |-> sig.start, stop |-> Ongoing] ELSE NoEdge
    ELSE IF u.open # {} THEN [start |-> u.since, stop |-> sig.stop] ELSE NoEdge

\* The synthetic edge `sig' produces, NoEdge when the union does not change.
FoldEdge(u, sig) ==
    IF IsStart(sig)
    THEN IF u.open = {} THEN [start |-> sig.start, stop |-> Ongoing] ELSE NoEdge
    ELSE IF u.open = {KeyOf(sig)} THEN [start |-> u.since, stop |-> sig.stop] ELSE NoEdge

Fold(u, sig) ==
    IF IsStart(sig)
    THEN [u EXCEPT !.open = @ \cup {KeyOf(sig)},
                   !.since = IF u.open = {} THEN sig.start ELSE @]
    ELSE [u EXCEPT !.open = @ \ {KeyOf(sig)},
                   !.since = IF u.open = {KeyOf(sig)} THEN 0 ELSE @]

\* A STOP whose START never reached the union, while nothing else is open.
UnmatchedStop(u, sig) == ~IsStart(sig) /\ u.open = {}

\* Mutant: the first edge of a freeze wins, not the last.
StashFirst(u, e) ==
    IF u.replay # NoEdge /\ e # NoEdge THEN u ELSE [u EXCEPT !.replay = e]

\* The edge to replay at thaw: the latest of a freeze wins.
StashReplay(u, e) == [u EXCEPT !.replay = e]
=============================================================================
