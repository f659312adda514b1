---------------------------- MODULE MotionBuffer ----------------------------
(***************************************************************************)
(* The keep/discard state machine of one Motion-mode camera                *)
(* (recording.rs, `MotionBuffer`).  Pure operators: a buffer is a record,   *)
(* an operation returns the new buffer with the segments it keeps and the   *)
(* segments it drops.                                                       *)
(*                                                                          *)
(* The ring is a SET of segments.  In the code it is a VecDeque that is      *)
(* only ever pushed at the back, so it is ordered by start time and          *)
(* dropping from the front while `start_ts < cutoff' removes exactly the     *)
(* segments that satisfy the test.                                           *)
(***************************************************************************)
EXTENDS Integers

CONSTANTS Pre,    \* motion_pre_seconds
          Post,   \* motion_post_seconds
          Slack   \* RING_SLACK_SECS

ASSUME BufferAssumption == Pre \in Nat /\ Post \in Nat /\ Slack \in Nat

Ongoing == -1                       \* `stopped_at = None'
StopTime == Nat \cup {Ongoing}

Dirs == {"cache", "storage"}        \* where the segment's file was written
Segment == [start : Nat, end : Nat, dir : Dirs]
Edge == [start : Nat, stop : StopTime]
IsStart(e) == e.stop = Ongoing

Buffer == [state : {"Idle", "Recording", "PostBuffer"},
           stopped : Nat,           \* motion_stopped, 0 outside PostBuffer
           ring : SUBSET Segment]

EmptyBuffer == [state |-> "Idle", stopped |-> 0, ring |-> {}]

Outcome(b, persist, discard) == [buf |-> b, persist |-> persist, discard |-> discard]

Aged(ring, at) == {s \in ring : s.start < at - (Pre + Slack)}

\* Mutant: eviction that reports nothing to delete or index.
HoldForgets(b, seg) ==
    Outcome([state |-> "Idle", stopped |-> 0,
             ring |-> (b.ring \ Aged(b.ring, seg.start)) \cup {seg}], {}, {})

\* Idle, or a post-roll that has run out: age the ring, then buffer `seg'.
Hold(b, seg) ==
    LET old == Aged(b.ring, seg.start)
    IN  Outcome([state |-> "Idle", stopped |-> 0, ring |-> (b.ring \ old) \cup {seg}],
                {}, old)

Wanted(b, seg) == \/ b.state = "Recording"
                  \/ b.state = "PostBuffer" /\ seg.start <= b.stopped + Post

PushSegment(b, seg) == IF Wanted(b, seg) THEN Outcome(b, {seg}, {}) ELSE Hold(b, seg)

\* Mutant: the window is compared with the segment's start.
FlushByStart(b, start) ==
    LET late == {s \in b.ring : s.start > start - Pre}
    IN  Outcome([state |-> "Recording", stopped |-> 0, ring |-> {}], late, b.ring \ late)

\* START: flush the ring, keeping what overlaps the pre-roll window.
Flush(b, start) ==
    LET late == {s \in b.ring : s.end > start - Pre}
    IN  Outcome([state |-> "Recording", stopped |-> 0, ring |-> {}], late, b.ring \ late)

PostRoll(b, stop) == Outcome([b EXCEPT !.state = "PostBuffer", !.stopped = stop], {}, {})

ApplySignal(b, e) ==
    IF IsStart(e)
    THEN IF b.state = "Recording" THEN Outcome(b, {}, {}) ELSE Flush(b, e.start)
    ELSE IF b.state = "Idle" THEN Outcome(b, {}, {}) ELSE PostRoll(b, e.stop)

\* Mutant: a replayed STOP is treated as a live one, ignored while idle.
ReplayAsLive(b, e) == ApplySignal(b, e)

\* As ApplySignal, except that a replayed STOP arms the post-roll of an idle buffer.
ApplyReplayedEdge(b, e) ==
    IF ~IsStart(e) /\ b.state = "Idle" THEN PostRoll(b, e.stop) ELSE ApplySignal(b, e)

DrainRing(b) == [b EXCEPT !.ring = {}]
=============================================================================
