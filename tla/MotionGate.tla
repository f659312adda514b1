----------------------------- MODULE MotionGate -----------------------------
(***************************************************************************)
(* Motion-gated recording of one camera, from the edges its motion sources *)
(* send to the keep/discard verdict on every segment ffmpeg lists:          *)
(*   - the source loops and their MotionTx handles (main.rs), with the       *)
(*     bounded channel and the debt a lost signal leaves behind;             *)
(*   - the health forwarder (main.rs, `forward_motion_health');              *)
(*   - the recording task (recording.rs): the segment-list reader, the four  *)
(*     parts of `finish_completed_segment', reconnects, the fall-back to     *)
(*     direct-to-storage recording and the flip-guard.                       *)
(* The tasks interleave; the recording task is itself split wherever another *)
(* task can run between two of its reads.  One behaviour is the life of one  *)
(* camera worker: a respawn starts again from Init.                          *)
(***************************************************************************)
EXTENDS MotionUnion, Sequences, FiniteSets

CONSTANTS Cap,          \* MOTION_CHANNEL_CAPACITY
          SegLen,       \* segment duration
          ListLag,      \* ffmpeg lists a segment ListLag after it starts
          MaxTime, MaxFlips, MaxRuns,  \* bounds: clock, health flips, ffmpeg runs
          MaxEvents,                   \* bound: motion events
          CacheFills                   \* can the cache filesystem run out of space?

ASSUME GateAssumption ==
    /\ Cap \in Nat \ {0}
    /\ SegLen \in Nat \ {0}
    /\ ListLag \in 0..SegLen
    /\ {MaxTime, MaxFlips, MaxRuns, MaxEvents} \subseteq Nat
    /\ CacheFills \in BOOLEAN

NoSeg == [start |-> 0, end |-> 0, dir |-> "none"]
Idle == -1                              \* a source with no open event

VARIABLES
    now, flips, runs,
    active,       \* source -> start of its open event, or Idle
    lost,         \* sources whose handle has an un-resynced loss
    chan,         \* the motion-signal channel
    det,          \* detector health, as the aggregator publishes it
    rec,          \* health as the recording task reads it
    up,           \* an ffmpeg run is in progress
    listAt,       \* start of the segment ffmpeg lists next; when down, when it ended
    prev,         \* prev_segment: listed, waiting for the next boundary
    caching,      \* caching_active of this run
    cacheOff,     \* cache_disabled
    pc, cur, h, batch,   \* finish_completed_segment: where it is and its locals
    buf, union,
    kept, discarded,     \* segments given their verdict
    listed,       \* history: the start of every segment ffmpeg has listed
    events        \* history: every event a source opened, and if its START got through

sources == <<active, lost, chan, events>>
worker == <<up, listAt, prev, caching, cacheOff>>
call == <<pc, cur, h, batch>>
motion == <<buf, union>>
fate == <<kept, discarded>>
vars == <<now, flips, runs, sources, det, rec, worker, call, motion, fate, listed>>

Event == [src : Sources, start : Nat, stop : StopTime, heard : BOOLEAN]

TypeOK ==
    /\ now \in Nat /\ flips \in Nat /\ runs \in Nat
    /\ active \in [Sources -> Nat \cup {Idle}]
    /\ lost \subseteq Sources
    /\ chan \in Seq(Signal) /\ batch \in Seq(Signal)
    /\ det \in BOOLEAN /\ rec \in BOOLEAN /\ h \in BOOLEAN
    /\ up \in BOOLEAN /\ caching \in BOOLEAN /\ cacheOff \in BOOLEAN
    /\ listAt \in Nat
    /\ prev \in Segment \cup {NoSeg} /\ cur \in Segment \cup {NoSeg}
    /\ pc \in {"wait", "drain", "apply"}
    /\ pc # "wait" => cur \in Segment
    /\ buf \in Buffer
    /\ union \in Union
    /\ kept \subseteq Segment /\ discarded \subseteq Segment
    /\ events \subseteq Event /\ listed \subseteq Nat

Init ==
    /\ now = 0 /\ flips = 0 /\ runs = 0
    /\ active = [s \in Sources |-> Idle]
    /\ lost = {} /\ chan = <<>> /\ events = {}
    /\ det = FALSE /\ rec = FALSE
    /\ up = FALSE /\ listAt = 0 /\ prev = NoSeg
    /\ caching = FALSE /\ cacheOff = FALSE
    /\ pc = "wait" /\ cur = NoSeg /\ h = FALSE /\ batch = <<>>
    /\ buf = EmptyBuffer /\ union = EmptyUnion
    /\ kept = {} /\ discarded = {} /\ listed = {}

Trusted == det /\ lost = {}             \* what the forwarder publishes
ListDue == up /\ now = listAt + ListLag

(***************************************************************************)
(* Time.  A wake-up of the forwarder and the handling of a listed segment   *)
(* take far less than a tick; nothing else bounds when they run.            *)
(***************************************************************************)
Tick ==
    /\ now < MaxTime
    /\ pc = "wait" /\ rec = Trusted /\ ~ListDue
    /\ now' = now + 1
    /\ UNCHANGED <<flips, runs, sources, det, rec, worker, call, motion, fate, listed>>

(***************************************************************************)
(* The source loops: MotionTx::try_send, the detector's health and the      *)
(* forwarder.  While the recording task works through a drained batch it    *)
(* reads nothing that these tasks write, so their steps are interleaved only *)
(* where the order can matter.                                              *)
(***************************************************************************)
Visible == pc # "apply"

Accepts == Len(chan) < Cap

\* Mutant: one loss flag for the camera, so that any accepted STOP clears it.
TrySendSharedDebt(sig) ==
    /\ chan' = IF Accepts THEN Append(chan, sig) ELSE chan
    /\ lost' = IF ~Accepts THEN lost \cup {sig.src} ELSE IF IsStart(sig) THEN lost ELSE {}

TrySend(sig) ==
    /\ chan' = IF Accepts THEN Append(chan, sig) ELSE chan
    /\ lost' = IF ~Accepts THEN lost \cup {sig.src}
               ELSE IF IsStart(sig) THEN lost ELSE lost \ {sig.src}

SourceStart(s) ==
    /\ Visible /\ active[s] = Idle /\ Cardinality(events) < MaxEvents
    /\ \A e \in events : e.src = s => e.stop < now
    /\ TrySend([src |-> s, start |-> now, stop |-> Ongoing])
    /\ active' = [active EXCEPT ![s] = now]
    /\ events' = events \cup {[src |-> s, start |-> now, stop |-> Ongoing, heard |-> Accepts]}
    /\ UNCHANGED <<now, flips, runs, det, rec, worker, call, motion, fate, listed>>

SourceStop(s) ==
    /\ Visible /\ active[s] \in Nat /\ active[s] < now
    /\ TrySend([src |-> s, start |-> active[s], stop |-> now])
    /\ active' = [active EXCEPT ![s] = Idle]
    /\ events' = {IF e.src = s /\ e.stop = Ongoing THEN [e EXCEPT !.stop = now] ELSE e : e \in events}
    /\ UNCHANGED <<now, flips, runs, det, rec, worker, call, motion, fate, listed>>

DetectorFlips ==
    /\ Visible /\ flips < MaxFlips
    /\ flips' = flips + 1 /\ det' = ~det
    /\ UNCHANGED <<now, runs, sources, rec, worker, call, motion, fate, listed>>

ForwardHealth ==
    /\ Visible /\ rec # Trusted /\ rec' = Trusted
    /\ UNCHANGED <<now, flips, runs, sources, det, worker, call, motion, fate, listed>>

(***************************************************************************)
(* ffmpeg runs: start (with the cache directory's outcome and the           *)
(* flip-guard), the listing of a segment, and every way a run ends.          *)
(***************************************************************************)
DirOf(c) == IF c THEN "cache" ELSE "storage"
\* The flip-guard's victims: ring segments of the other kind of run.
Foreign(c) == {s \in buf.ring : s.dir # DirOf(c)}

StartRun ==
    /\ ~up /\ pc = "wait"
    /\ runs > 0 => now > listAt           \* the reconnect backs off
    /\ runs' = runs + 1 /\ up' = TRUE /\ listAt' = now
    /\ \E c \in IF cacheOff THEN {FALSE} ELSE BOOLEAN :
          /\ caching' = c
          /\ buf' = [buf EXCEPT !.ring = @ \ Foreign(c)]
          /\ kept' = IF c THEN kept ELSE kept \cup Foreign(c)
    /\ UNCHANGED <<now, flips, sources, det, rec, prev, cacheOff, call, union, discarded, listed>>

Listed == [start |-> listAt, end |-> listAt, dir |-> DirOf(caching)]  \* end: placeholder

ListFirst ==
    /\ ListDue /\ pc = "wait" /\ prev = NoSeg
    /\ prev' = Listed /\ listAt' = listAt + SegLen /\ listed' = listed \cup {listAt}
    /\ UNCHANGED <<now, flips, runs, sources, det, rec, up, caching, cacheOff, call, motion, fate>>

\* Mutant: prev_segment is read after it was taken.
FinishTaken(seg) ==
    /\ cur' = NoSeg /\ prev' = NoSeg
    /\ h' = rec /\ pc' = "drain" /\ UNCHANGED batch

\* The call begins: the segment is no longer prev_segment, health is read once.
Finish(seg) ==
    /\ cur' = seg /\ prev' = NoSeg
    /\ h' = rec /\ pc' = "drain" /\ UNCHANGED batch

ListNext ==
    /\ ListDue /\ pc = "wait" /\ prev # NoSeg
    /\ Finish([prev EXCEPT !.end = listAt]) /\ listed' = listed \cup {listAt}
    /\ UNCHANGED <<now, flips, runs, sources, det, rec, up, listAt, caching, cacheOff,
                   motion, fate>>

\* EOF, read error, stall watchdog: the in-flight segment is finished after the kill.
RunEnds ==
    /\ up /\ pc = "wait" /\ runs < MaxRuns
    /\ up' = FALSE /\ listAt' = now
    /\ IF prev = NoSeg
       THEN UNCHANGED <<prev, call>>
       ELSE Finish([prev EXCEPT !.end = IF now < @ + SegLen THEN now ELSE @ + SegLen])
    /\ UNCHANGED <<now, flips, runs, sources, det, rec, caching, cacheOff, motion, fate, listed>>

(***************************************************************************)
(* The rest of finish_completed_segment, which uses that one reading `h'.    *)
(***************************************************************************)
Frozen == caching /\ ~h                  \* unhealthy_while_caching
Gated == caching /\ h                    \* the buffer's decisions are the real ones

\* The outcome `r' of feeding the buffer: a shadow verdict unless Gated.
Decide(r) ==
    /\ buf' = r.buf
    /\ kept' = IF Gated THEN kept \cup r.persist ELSE kept
    /\ discarded' = IF Gated THEN discarded \cup r.discard ELSE discarded

DrainChannel ==
    /\ pc = "drain" /\ pc' = "apply"
    /\ batch' = chan /\ chan' = <<>>
    /\ IF Frozen \/ union.replay = NoEdge
       THEN UNCHANGED <<motion, fate>>
       ELSE /\ Decide(ApplyReplayedEdge(buf, union.replay))
            /\ union' = StashReplay(union, NoEdge)
    /\ UNCHANGED <<now, flips, runs, active, lost, events, det, rec, worker, cur, h, listed>>

NextSignal ==
    /\ pc = "apply" /\ batch # <<>>
    /\ batch' = Tail(batch)
    /\ UNCHANGED <<now, flips, runs, sources, det, rec, worker, pc, cur, h, listed>>

RawEdge(sig) == [start |-> sig.start, stop |-> sig.stop]

FoldFrozen ==
    /\ NextSignal /\ Frozen
    /\ LET sig == Head(batch)
           edge == FoldEdge(union, sig)
       IN  union' = IF edge # NoEdge THEN StashReplay(Fold(union, sig), edge)
                    ELSE IF UnmatchedStop(union, sig) THEN StashReplay(union, RawEdge(sig))
                    ELSE Fold(union, sig)
    /\ UNCHANGED <<buf, fate>>

FoldDriven ==
    /\ NextSignal /\ ~Frozen
    /\ LET sig == Head(batch)
           edge == FoldEdge(union, sig)
       IN  /\ union' = Fold(union, sig)
           /\ IF edge # NoEdge THEN Decide(ApplySignal(buf, edge))
              ELSE IF UnmatchedStop(union, sig) /\ buf.state = "Idle"
                   THEN Decide(ApplyReplayedEdge(buf, RawEdge(sig)))
                   ELSE UNCHANGED <<buf, fate>>

\* Back in run_ffmpeg_loop after the call: `prev_segment = Some(new)', unless the
\* cache cannot take another segment, which ends the run with the cache latched off.
Resume ==
    /\ pc' = "wait" /\ cur' = NoSeg /\ h' = FALSE
    /\ \/ up /\ prev' = Listed /\ listAt' = listAt + SegLen /\ UNCHANGED <<up, cacheOff>>
       \/ up /\ caching /\ CacheFills /\ runs < MaxRuns /\ up' = FALSE /\ cacheOff' = TRUE /\ listAt' = now /\ UNCHANGED prev
       \/ ~up /\ UNCHANGED <<up, prev, listAt, cacheOff>>

PushReady ==
    /\ pc = "apply" /\ batch = <<>> /\ Resume
    /\ UNCHANGED <<now, flips, runs, sources, det, rec, caching, batch, union, listed>>

PushUngated ==                           \* no cache: keep, and run the shadow verdict
    /\ PushReady /\ ~caching
    /\ buf' = PushSegment(buf, cur).buf
    /\ kept' = kept \cup {cur} /\ UNCHANGED discarded

PushFailOpen ==                          \* unhealthy: keep it and the whole ring
    /\ PushReady /\ Frozen
    /\ buf' = DrainRing(buf)
    /\ kept' = kept \cup buf.ring \cup {cur} /\ UNCHANGED discarded

PushGated ==                             \* the real verdict, then maybe a spill
    /\ PushReady /\ Gated
    /\ LET r == PushSegment(buf, cur)
       IN  /\ discarded' = discarded \cup r.discard
           /\ \/ buf' = r.buf /\ kept' = kept \cup r.persist
              \/ /\ r.buf.state = "Idle"
                 /\ buf' = DrainRing(r.buf)
                 /\ kept' = kept \cup r.persist \cup r.buf.ring

Next ==
    \/ Tick \/ DetectorFlips \/ ForwardHealth
    \/ \E s \in Sources : SourceStart(s) \/ SourceStop(s)
    \/ StartRun \/ ListFirst \/ ListNext \/ RunEnds
    \/ DrainChannel \/ FoldFrozen \/ FoldDriven
    \/ PushUngated \/ PushFailOpen \/ PushGated

Spec == Init /\ [][Next]_vars

(***************************************************************************)
(* Properties.                                                              *)
(***************************************************************************)

\* `s' lies in the window an event obliges the recorder to keep: from its pre-roll
\* to the end of its post-roll.
Owed(e, s) == s.end > e.start - Pre /\ (e.stop = Ongoing \/ s.start <= e.stop + Post)

\* No segment in the window of any event a source reported is ever discarded, even
\* when the edges were lost, late or drained while the buffer was frozen
\* (docs/MOTION-RECORDING.md section 4; RECORDER-CORRECTNESS.md 19, 25, 26).
NoMotionDiscarded == \A e \in events, s \in discarded : ~Owed(e, s)

\* The same for the events whose START the channel accepted, which must hold even
\* while the channel overflows and STOPs are lost.
NoHeardMotionDiscarded == \A e \in events, s \in discarded : e.heard => ~Owed(e, s)

\* #74: the buffer records exactly while the union is open, or the stashed edge that
\* will be replayed brings it there, across every freeze and thaw.
RegimeAgrees ==
    IF union.replay = NoEdge
    THEN buf.state = "Recording" <=> union.open # {}
    ELSE IsStart(union.replay) <=> union.open # {}

\* An event whose START was lost fails open: a segment that ffmpeg finished and
\* listed while the event was open is kept, whatever other sources get through.
LostStartFailsOpen ==
    \A e \in events, s \in discarded :
        ~e.heard /\ e.start < s.end =>
            e.stop # Ongoing /\ e.stop <= s.end + ListLag

\* Whatever the channel lost, what a source reported is kept or fails open.
ReportedMotionIsKept == NoHeardMotionDiscarded /\ LostStartFailsOpen

\* Every segment ffmpeg listed is waiting somewhere or has its verdict: neither a
\* boundary, a reconnect nor a fall-back loses track of one.
NothingUntracked ==
    \A t \in listed :
        \/ \E s \in kept \cup discarded \cup buf.ring \cup {prev, cur} : s # NoSeg /\ s.start = t
        \/ pc # "wait" /\ up /\ t = listAt

\* The gate implements SegmentVerdict.  What waits is the ring of a caching run; the
\* ring of a direct-to-storage run is bookkeeping for the shadow verdict.
Verdict == INSTANCE SegmentVerdict
             WITH waiting <- IF caching THEN buf.ring ELSE {}, dropped <- discarded
VerdictSpec == Verdict!Spec
=============================================================================
