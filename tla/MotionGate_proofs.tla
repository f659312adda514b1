-------------------------- MODULE MotionGate_proofs --------------------------
(***************************************************************************)
(* What holds of the motion gate for every set of sources, every timing     *)
(* constant and every bound.                                                *)
(***************************************************************************)
EXTENDS MotionGate, FiniteSetTheorems, TLAPS

-----------------------------------------------------------------------------
(* The buffer's and the union's operations. *)

\* An outcome of a buffer operation: the buffer it leaves, what it keeps and what it discards.
Typed(r) == r.buf \in Buffer /\ r.persist \subseteq Segment /\ r.discard \subseteq Segment

\* push_segment maps buffers to buffers and decides on segments only.
LEMMA PushSegmentType ==
    ASSUME NEW b \in Buffer, NEW seg \in Segment
    PROVE  Typed(PushSegment(b, seg))
<1>1. CASE Wanted(b, seg)
    BY <1>1 DEF Typed, PushSegment, Outcome
<1>2. CASE ~Wanted(b, seg)
    BY <1>2 DEF Typed, PushSegment, Hold, Aged, Outcome, Buffer
<1> QED BY <1>1, <1>2

\* apply_signal and apply_replayed_edge do so too.
LEMMA ApplySignalType ==
    ASSUME NEW b \in Buffer, NEW e \in Edge
    PROVE  Typed(ApplySignal(b, e)) /\ Typed(ApplyReplayedEdge(b, e))
<1>1. IsStart(e) => Typed(Flush(b, e.start))
    BY DEF Typed, Flush, Outcome, Buffer, Edge, IsStart
<1>2. ~IsStart(e) => Typed(PostRoll(b, e.stop))
    BY DEF Typed, PostRoll, Outcome, Buffer, Edge, IsStart, StopTime
<1>3. Typed(Outcome(b, {}, {}))
    BY DEF Typed, Outcome
<1> QED BY <1>1, <1>2, <1>3 DEF ApplySignal, ApplyReplayedEdge

\* Folding a signal keeps the union well formed; what it emits is an edge or nothing.
LEMMA FoldType ==
    ASSUME NEW u \in Union, NEW sig \in Signal
    PROVE  /\ Fold(u, sig) \in Union
           /\ FoldEdge(u, sig) \in Edge \cup {NoEdge}
           /\ RawEdge(sig) \in Edge
           /\ Fold(u, sig).replay = u.replay
<1> USE DEF Union, Signal, Edge
<1>1. KeyOf(sig) \in EventKey
    BY DEF KeyOf, EventKey
<1>2. Fold(u, sig) \in Union /\ Fold(u, sig).replay = u.replay
    BY <1>1 DEF Fold
<1>3. Ongoing \in StopTime
    BY DEF StopTime
<1>4. FoldEdge(u, sig) \in Edge \cup {NoEdge}
    BY <1>3 DEF FoldEdge
<1>5. RawEdge(sig) \in Edge
    BY DEF RawEdge
<1> QED BY <1>2, <1>4, <1>5

\* "Nothing to emit" is not one of the edges of the Option<MotionSignal> fold_edge returns.
LEMMA NoEdgeIsNone == NoEdge \notin Edge
BY DEF NoEdge, Edge, StopTime, Ongoing

\* Stashing an edge, or clearing the stash, keeps the union well formed (stash_replay).
LEMMA StashType ==
    ASSUME NEW u \in Union, NEW e \in Edge \cup {NoEdge}
    PROVE  StashReplay(u, e) \in Union
BY DEF StashReplay, Union

-----------------------------------------------------------------------------
(* Type correctness. *)

\* A send changes the channel and the debt only, and keeps both well formed (try_send_motion).
LEMMA TrySendType ==
    ASSUME TypeOK, NEW sig \in Signal, TrySend(sig)
    PROVE  chan' \in Seq(Signal) /\ lost' \subseteq Sources
<1>1. chan' \in Seq(Signal)
    BY DEF TypeOK, TrySend
<1>2. lost' \subseteq Sources
    BY DEF TypeOK, TrySend, Signal
<1> QED BY <1>1, <1>2

\* A verdict, real or shadow, leaves a well-formed buffer and sets of segments.
LEMMA DecideType ==
    ASSUME TypeOK, NEW r, Typed(r), Decide(r)
    PROVE  buf' \in Buffer /\ kept' \subseteq Segment /\ discarded' \subseteq Segment
BY DEF TypeOK, Decide, Typed

\* A worker starts type correct.
LEMMA InitTypeOK == Init => TypeOK
<1> SUFFICES ASSUME Init PROVE TypeOK
    OBVIOUS
<1>1. EmptyBuffer \in Buffer /\ EmptyUnion \in Union
    BY DEF EmptyBuffer, Buffer, EmptyUnion, Union, EventKey
<1>2. <<>> \in Seq(Signal)
    OBVIOUS
<1> QED BY <1>1, <1>2 DEF Init, TypeOK

\* What ffmpeg's list names is a segment of the running kind.
LEMMA ListedType == TypeOK => Listed \in Segment
BY DEF TypeOK, Listed, Segment, DirOf, Dirs

\* Returning to the read loop keeps the run's own variables type correct, whichever way
\* the run goes on (the tail of run_ffmpeg_loop's boundary handling).
LEMMA ResumeType ==
    ASSUME TypeOK, Resume
    PROVE  /\ prev' \in Segment \cup {NoSeg} /\ cur' = NoSeg /\ pc' = "wait"
           /\ listAt' \in Nat /\ up' \in BOOLEAN /\ cacheOff' \in BOOLEAN /\ h' \in BOOLEAN
<1>1. Listed \in Segment /\ listAt + SegLen \in Nat
    BY ListedType, GateAssumption DEF TypeOK
<1> QED BY <1>1 DEF TypeOK, Resume

\* Every step preserves the type invariant.
LEMMA NextTypeOK == TypeOK /\ [Next]_vars => TypeOK'
<1> SUFFICES ASSUME TypeOK, [Next]_vars PROVE TypeOK'
    OBVIOUS
<1> USE GateAssumption
<1>1. CASE Tick
    BY <1>1 DEF Tick, TypeOK, sources, worker, call, motion, fate
<1>2. CASE DetectorFlips
    BY <1>2 DEF DetectorFlips, TypeOK, sources, worker, call, motion, fate
<1>3. CASE ForwardHealth
    BY <1>3 DEF ForwardHealth, Trusted, TypeOK, sources, worker, call, motion, fate
<1>4. ASSUME NEW s \in Sources, SourceStart(s) PROVE TypeOK'
  <2>1. [src |-> s, start |-> now, stop |-> Ongoing] \in Signal
      BY DEF TypeOK, Signal, StopTime, Ongoing
  <2>2. chan' \in Seq(Signal) /\ lost' \subseteq Sources
      BY <1>4, <2>1, TrySendType DEF SourceStart
  <2>3. [src |-> s, start |-> now, stop |-> Ongoing, heard |-> Accepts] \in Event
      BY DEF TypeOK, Event, StopTime, Ongoing, Accepts
  <2> QED BY <1>4, <2>2, <2>3 DEF SourceStart, TypeOK, worker, call, motion, fate
<1>5. ASSUME NEW s \in Sources, SourceStop(s) PROVE TypeOK'
  <2>1. [src |-> s, start |-> active[s], stop |-> now] \in Signal
      BY <1>5 DEF SourceStop, TypeOK, Signal, StopTime
  <2>2. chan' \in Seq(Signal) /\ lost' \subseteq Sources
      BY <1>5, <2>1, TrySendType DEF SourceStop
  <2>3. events' \subseteq Event
      BY <1>5 DEF SourceStop, TypeOK, Event, StopTime
  <2> QED BY <1>5, <2>2, <2>3 DEF SourceStop, TypeOK, worker, call, motion, fate
<1>6. CASE StartRun
  <2>1. PICK c \in BOOLEAN :
            /\ caching' = c
            /\ buf' = [buf EXCEPT !.ring = @ \ Foreign(c)]
            /\ kept' = IF c THEN kept ELSE kept \cup Foreign(c)
      BY <1>6 DEF StartRun
  <2>2. buf' \in Buffer /\ kept' \subseteq Segment
      BY <2>1 DEF TypeOK, Buffer, Foreign
  <2> QED BY <1>6, <2>1, <2>2 DEF StartRun, TypeOK, sources, call
<1>7. CASE ListFirst
  <2>1. Listed \in Segment /\ listAt + SegLen \in Nat
      BY ListedType DEF TypeOK
  <2> QED BY <1>7, <2>1 DEF ListFirst, TypeOK, sources, call, motion, fate
<1>8. CASE ListNext
  <2>1. [prev EXCEPT !.end = listAt] \in Segment
      BY <1>8 DEF ListNext, TypeOK, Segment
  <2> QED BY <1>8, <2>1 DEF ListNext, Finish, TypeOK, sources, motion, fate
<1>9. CASE RunEnds
  <2>1. CASE prev = NoSeg
      BY <1>9, <2>1 DEF RunEnds, TypeOK, sources, call, motion, fate
  <2>2. CASE prev # NoSeg
    <3> DEFINE end == IF now < prev.end + SegLen THEN now ELSE prev.end + SegLen
    <3>1. prev \in Segment /\ end \in Nat
        BY <2>2 DEF TypeOK, Segment
    <3>2. [prev EXCEPT !.end = end] \in Segment
        BY <3>1 DEF Segment
    <3> QED BY <1>9, <2>2, <3>2 DEF RunEnds, Finish, TypeOK, sources, motion, fate
  <2> QED BY <2>1, <2>2
<1>10. CASE DrainChannel
  <2>1. CASE Frozen \/ union.replay = NoEdge
      BY <1>10, <2>1 DEF DrainChannel, TypeOK, worker, motion, fate
  <2>2. CASE ~(Frozen \/ union.replay = NoEdge)
    <3>1. union.replay \in Edge
        BY <2>2 DEF TypeOK, Union
    <3>2. buf' \in Buffer /\ kept' \subseteq Segment /\ discarded' \subseteq Segment
        BY <1>10, <2>2, <3>1, ApplySignalType, DecideType DEF DrainChannel, TypeOK
    <3>3. union' \in Union
        BY <1>10, <2>2, StashType DEF DrainChannel, TypeOK
    <3> QED BY <1>10, <3>2, <3>3 DEF DrainChannel, TypeOK, worker
  <2> QED BY <2>1, <2>2
<1>11. ASSUME NextSignal PROVE Head(batch) \in Signal /\ batch' \in Seq(Signal)
    BY <1>11 DEF NextSignal, TypeOK
<1>12. CASE FoldFrozen
  <2>1. union' \in Union
      BY <1>11, <1>12, FoldType, StashType DEF FoldFrozen, TypeOK
  <2> QED BY <1>11, <1>12, <2>1 DEF FoldFrozen, NextSignal, TypeOK, sources, worker, fate
<1>13. CASE FoldDriven
  <2> DEFINE edge == FoldEdge(union, Head(batch))
  <2>1. union' \in Union /\ edge \in Edge \cup {NoEdge} /\ RawEdge(Head(batch)) \in Edge
      BY <1>11, <1>13, FoldType DEF FoldDriven, TypeOK
  <2>2. buf' \in Buffer /\ kept' \subseteq Segment /\ discarded' \subseteq Segment
    <3>1. CASE edge # NoEdge
        BY <1>13, <2>1, <3>1, ApplySignalType, DecideType DEF FoldDriven, TypeOK
    <3>2. CASE edge = NoEdge /\ UnmatchedStop(union, Head(batch)) /\ buf.state = "Idle"
        BY <1>13, <2>1, <3>2, ApplySignalType, DecideType DEF FoldDriven, TypeOK
    <3>3. CASE edge = NoEdge /\ ~(UnmatchedStop(union, Head(batch)) /\ buf.state = "Idle")
        BY <1>13, <3>3 DEF FoldDriven, TypeOK, fate
    <3> QED BY <3>1, <3>2, <3>3
  <2> QED BY <1>11, <1>13, <2>1, <2>2 DEF FoldDriven, NextSignal, TypeOK, sources, worker
<1>14. ASSUME PushReady, buf' \in Buffer, kept' \subseteq Segment, discarded' \subseteq Segment
       PROVE  TypeOK'
    BY <1>14, ResumeType DEF PushReady, TypeOK, sources
<1>15. CASE PushUngated
    BY <1>14, <1>15, PushSegmentType DEF PushUngated, PushReady, Typed, TypeOK
<1>16. CASE PushFailOpen
    BY <1>14, <1>16 DEF PushFailOpen, PushReady, DrainRing, Buffer, TypeOK
<1>17. CASE PushGated
  <2>1. Typed(PushSegment(buf, cur))
      BY <1>17, PushSegmentType DEF PushGated, PushReady, TypeOK
  <2>2. DrainRing(PushSegment(buf, cur).buf) \in Buffer
      BY <2>1 DEF DrainRing, Typed, Buffer
  <2> QED BY <1>14, <1>17, <2>1, <2>2 DEF PushGated, Typed, TypeOK, Buffer
<1>18. CASE UNCHANGED vars
    BY <1>18 DEF vars, TypeOK, sources, worker, call, motion, fate
<1> QED
    BY <1>1, <1>2, <1>3, <1>4, <1>5, <1>6, <1>7, <1>8, <1>9, <1>10, <1>12, <1>13,
       <1>15, <1>16, <1>17, <1>18 DEF Next

\* The motion gate is type correct.
THEOREM TypeCorrect == Spec => []TypeOK
BY InitTypeOK, NextTypeOK, PTL DEF Spec

-----------------------------------------------------------------------------
(***************************************************************************)
(* The buffer follows the union.  RegimeAgrees is inductive once one knows   *)
(* that a driven call has taken the stashed edge before it folds a signal.   *)
(***************************************************************************)

\* An edge stashed during a freeze is gone before an unfrozen call applies signals: this
\* is what makes RegimeAgrees inductive.
ReplayTaken == pc = "apply" /\ ~Frozen => union.replay = NoEdge
RegimeInv == RegimeAgrees /\ ReplayTaken

\* How a decision of the buffer moves it between recording and not.
LEMMA BufferRegime ==
    ASSUME NEW b \in Buffer
    PROVE  /\ \A seg \in Segment :
                 PushSegment(b, seg).buf.state = "Recording" <=> b.state = "Recording"
           /\ \A e \in Edge : IsStart(e) => ApplySignal(b, e).buf.state = "Recording"
           /\ \A e \in Edge : ~IsStart(e) => ApplySignal(b, e).buf.state # "Recording"
           /\ \A e \in Edge : ApplyReplayedEdge(b, e).buf.state = "Recording" <=> IsStart(e)
BY DEF PushSegment, Wanted, Hold, ApplySignal, ApplyReplayedEdge, Flush, PostRoll, Outcome,
       Buffer

\* A folded signal opens the union exactly when it emits a START, closes it exactly
\* when it emits a STOP, and leaves it as it was when it emits nothing.
LEMMA FoldRegime ==
    ASSUME NEW u \in Union, NEW sig \in Signal
    PROVE  /\ FoldEdge(u, sig) = NoEdge => (Fold(u, sig).open = {} <=> u.open = {})
           /\ FoldEdge(u, sig) # NoEdge =>
                 /\ IsStart(FoldEdge(u, sig)) <=> Fold(u, sig).open # {}
                 /\ IsStart(FoldEdge(u, sig)) <=> u.open = {}
<1>1. Fold(u, sig).open = IF IsStart(sig) THEN u.open \cup {KeyOf(sig)} ELSE u.open \ {KeyOf(sig)}
    BY DEF Fold, Union
<1>2. CASE IsStart(sig)
    BY <1>1, <1>2 DEF FoldEdge, IsStart, Ongoing, NoEdge
<1>3. CASE ~IsStart(sig)
  <2>1. sig.stop \in Nat
      BY <1>3 DEF Signal, StopTime, IsStart
  <2>2. CASE u.open = {KeyOf(sig)}
      BY <1>1, <1>3, <2>1, <2>2 DEF FoldEdge, IsStart, Ongoing, NoEdge
  <2>3. CASE u.open # {KeyOf(sig)}
      BY <1>1, <1>3, <2>3 DEF FoldEdge
  <2> QED BY <2>2, <2>3
<1> QED BY <1>2, <1>3

\* A step that touches neither the buffer's state nor the union, and does not move
\* the call to "apply", preserves the invariant.
LEMMA RegimeFrame ==
    ASSUME RegimeInv, buf'.state = buf.state, union' = union,
           pc' # "apply" \/ (pc' = pc /\ caching' = caching /\ h' = h)
    PROVE  RegimeInv'
BY DEF RegimeInv, RegimeAgrees, ReplayTaken, Frozen

\* Every step preserves the strengthened invariant.
LEMMA NextRegime == TypeOK /\ RegimeInv /\ [Next]_vars => RegimeInv'
<1> SUFFICES ASSUME TypeOK, RegimeInv, [Next]_vars PROVE RegimeInv'
    OBVIOUS
<1> USE DEF motion, call, worker
<1>1. CASE Tick \/ DetectorFlips \/ ForwardHealth \/ ListFirst
    BY <1>1, RegimeFrame DEF Tick, DetectorFlips, ForwardHealth, ListFirst
<1>2. ASSUME NEW s \in Sources, SourceStart(s) \/ SourceStop(s) PROVE RegimeInv'
    BY <1>2, RegimeFrame DEF SourceStart, SourceStop
<1>3. CASE StartRun
    BY <1>3, RegimeFrame DEF StartRun, TypeOK, Buffer
<1>4. CASE ListNext \/ RunEnds
    BY <1>4, RegimeFrame DEF ListNext, RunEnds, Finish
<1>5. CASE DrainChannel
  <2>1. CASE Frozen \/ union.replay = NoEdge
      BY <1>5, <2>1 DEF DrainChannel, RegimeInv, RegimeAgrees, ReplayTaken, Frozen
  <2>2. CASE ~(Frozen \/ union.replay = NoEdge)
    <3>1. union.replay \in Edge /\ buf \in Buffer /\ union \in Union
        BY <2>2 DEF TypeOK, Union
    <3>2. union'.replay = NoEdge /\ union'.open = union.open
        BY <1>5, <2>2, <3>1 DEF DrainChannel, StashReplay, Union
    <3>3. buf'.state = "Recording" <=> IsStart(union.replay)
        BY <1>5, <2>2, <3>1, BufferRegime DEF DrainChannel, Decide
    <3> QED BY <2>2, <3>2, <3>3 DEF RegimeInv, RegimeAgrees, ReplayTaken
  <2> QED BY <2>1, <2>2
<1>6. ASSUME NextSignal
      PROVE  Head(batch) \in Signal /\ union \in Union /\ buf \in Buffer /\ pc = "apply"
    BY <1>6 DEF NextSignal, TypeOK
<1>7. CASE FoldFrozen
  <2> DEFINE sig == Head(batch)
             edge == FoldEdge(union, sig)
             folded == Fold(union, sig)
  <2>1. /\ sig \in Signal /\ union \in Union /\ folded \in Union /\ folded.replay = union.replay
        /\ RawEdge(sig) \in Edge /\ edge \in Edge \cup {NoEdge}
      BY <1>6, <1>7, FoldType DEF FoldFrozen
  <2>2. CASE edge # NoEdge
    <3>1. union'.open = folded.open /\ union'.replay = edge
        BY <1>7, <2>1, <2>2 DEF FoldFrozen, StashReplay, Union
    <3> QED BY <1>6, <1>7, <2>1, <2>2, <3>1, FoldRegime
            DEF RegimeInv, RegimeAgrees, ReplayTaken, FoldFrozen, NextSignal, Frozen
  <2>3. CASE edge = NoEdge /\ UnmatchedStop(union, sig)
    <3>1. union'.open = {} /\ union'.replay = RawEdge(sig)
        BY <1>7, <2>1, <2>3 DEF FoldFrozen, StashReplay, Union, UnmatchedStop
    <3>2. ~IsStart(RawEdge(sig)) /\ RawEdge(sig) # NoEdge
        BY <2>1, <2>3, NoEdgeIsNone DEF UnmatchedStop, RawEdge, IsStart
    <3> QED BY <1>6, <1>7, <3>1, <3>2
            DEF RegimeInv, RegimeAgrees, ReplayTaken, FoldFrozen, NextSignal, Frozen
  <2>4. CASE edge = NoEdge /\ ~UnmatchedStop(union, sig)
    <3>1. union' = folded /\ buf' = buf
        BY <1>7, <2>4 DEF FoldFrozen
    <3> QED BY <1>6, <1>7, <2>1, <2>4, <3>1, FoldRegime
            DEF RegimeInv, RegimeAgrees, ReplayTaken, FoldFrozen, NextSignal, Frozen
  <2> QED BY <2>2, <2>3, <2>4
<1>8. CASE FoldDriven
  <2> DEFINE sig == Head(batch)
             edge == FoldEdge(union, sig)
  <2>1. /\ sig \in Signal /\ union \in Union /\ buf \in Buffer
        /\ edge \in Edge \cup {NoEdge} /\ RawEdge(sig) \in Edge
        /\ union' = Fold(union, sig) /\ union'.replay = NoEdge /\ union.replay = NoEdge
      BY <1>6, <1>8, FoldType DEF FoldDriven, RegimeInv, ReplayTaken
  <2>2. CASE edge # NoEdge
    <3>1. buf'.state = "Recording" <=> IsStart(edge)
        BY <1>8, <2>1, <2>2, BufferRegime DEF FoldDriven, Decide
    <3> QED BY <2>1, <2>2, <3>1, FoldRegime DEF RegimeInv, RegimeAgrees, ReplayTaken
  <2>3. CASE edge = NoEdge
    <3>1. buf'.state = "Recording" <=> buf.state = "Recording"
      <4>1. CASE UnmatchedStop(union, sig) /\ buf.state = "Idle"
        <5>1. ~IsStart(RawEdge(sig))
            BY <4>1 DEF UnmatchedStop, RawEdge, IsStart
        <5> QED BY <1>8, <2>1, <2>3, <4>1, <5>1, BufferRegime DEF FoldDriven, Decide
      <4>2. CASE ~(UnmatchedStop(union, sig) /\ buf.state = "Idle")
          BY <1>8, <2>3, <4>2 DEF FoldDriven
      <4> QED BY <4>1, <4>2
    <3> QED BY <2>1, <2>3, <3>1, FoldRegime DEF RegimeInv, RegimeAgrees, ReplayTaken
  <2> QED BY <2>2, <2>3
<1>9. ASSUME PushReady PROVE cur \in Segment /\ buf \in Buffer /\ union' = union /\ pc' = "wait"
    BY <1>9 DEF PushReady, Resume, TypeOK
<1>10. ASSUME PushReady, buf'.state = "Recording" <=> buf.state = "Recording" PROVE RegimeInv'
    BY <1>9, <1>10 DEF RegimeInv, RegimeAgrees, ReplayTaken
<1>11. CASE PushUngated
    BY <1>9, <1>10, <1>11, BufferRegime DEF PushUngated
<1>12. CASE PushFailOpen
    BY <1>9, <1>10, <1>12 DEF PushFailOpen, DrainRing, Buffer
<1>13. CASE PushGated
  <2>1. Typed(PushSegment(buf, cur))
      BY <1>9, <1>13, PushSegmentType DEF PushGated
  <2>2. DrainRing(PushSegment(buf, cur).buf).state = PushSegment(buf, cur).buf.state
      BY <2>1 DEF DrainRing, Typed, Buffer
  <2> QED BY <1>9, <1>10, <1>13, <2>2, BufferRegime DEF PushGated
<1>14. CASE UNCHANGED vars
    BY <1>14, RegimeFrame DEF vars
<1> QED
    BY <1>1, <1>2, <1>3, <1>4, <1>5, <1>7, <1>8, <1>11, <1>12, <1>13, <1>14 DEF Next

\* #74: across every freeze, thaw, loss and reconnect the buffer records exactly
\* while the union is open, or the edge waiting to be replayed brings it there.
THEOREM RegimeFollowsUnion == Spec => []RegimeAgrees
<1>1. Init => RegimeInv
    BY DEF Init, RegimeInv, RegimeAgrees, ReplayTaken, EmptyUnion, EmptyBuffer
<1>2. RegimeInv => RegimeAgrees
    BY DEF RegimeInv
<1> QED BY <1>1, <1>2, NextRegime, TypeCorrect, PTL DEF Spec

-----------------------------------------------------------------------------
(***************************************************************************)
(* Every segment gets one verdict and none is lost track of.                *)
(***************************************************************************)

\* The segments that wait in the ring or have their verdict.
Known == kept \cup discarded \cup buf.ring

\* The ring holds segments of the run's own kind: without a verdict in a caching run, kept
\* already in any other. What ffmpeg lists, or a call is about, is later than all that is known.
TrackInv ==
    /\ \A s \in buf.ring : s.dir = DirOf(caching)
    /\ caching => buf.ring \cap (kept \cup discarded) = {}
    /\ ~caching => buf.ring \subseteq kept
    /\ \A s \in Known : s.start <= now /\ (IF up THEN s.start < listAt ELSE s.start <= listAt)
    /\ pc = "wait" => cur = NoSeg
    /\ pc # "wait" =>
          /\ prev = NoSeg /\ cur.dir = DirOf(caching) /\ cur.start <= now
          /\ \A s \in Known : s.start < cur.start
          /\ IF up THEN cur.start < listAt /\ listAt <= now ELSE cur.start <= listAt
    /\ prev # NoSeg =>
          /\ up /\ prev.dir = DirOf(caching) /\ prev.start < listAt /\ prev.start <= now
          /\ \A s \in Known : s.start < prev.start
    /\ runs = 0 => ~up /\ Known = {} /\ pc = "wait"

\* What an operation of the buffer returns is what went in, each segment once.
Splits(r, in) ==
    /\ r.persist \cup r.discard \cup r.buf.ring = in
    /\ r.persist \cap r.discard = {} /\ (r.persist \cup r.discard) \cap r.buf.ring = {}

LEMMA SignalsSplit ==
    ASSUME NEW b \in Buffer, NEW e \in Edge
    PROVE  Splits(ApplySignal(b, e), b.ring) /\ Splits(ApplyReplayedEdge(b, e), b.ring)
BY DEF Splits, ApplySignal, ApplyReplayedEdge, Flush, PostRoll, Outcome, Buffer

LEMMA PushSplits ==
    ASSUME NEW b \in Buffer, NEW seg, seg \notin b.ring
    PROVE  Splits(PushSegment(b, seg), b.ring \cup {seg})
           /\ PushSegment(b, seg).discard \subseteq b.ring
<1>1. CASE Wanted(b, seg)
    BY <1>1 DEF Splits, PushSegment, Outcome, Buffer
<1>2. CASE ~Wanted(b, seg)
    BY <1>2 DEF Splits, PushSegment, Hold, Aged, Outcome, Buffer
<1> QED BY <1>1, <1>2

\* A step that touches neither the ring nor a verdict.
LEMMA UntouchedIsVerdict ==
    ASSUME UNCHANGED <<caching, buf, kept, discarded>>
    PROVE  Verdict!Step
BY DEF Verdict!Step, Verdict!Keeps, Verdict!Drops, Verdict!Arrives

\* A decision on the ring, real in a caching run and a shadow in any other.
LEMMA DecisionIsVerdict ==
    ASSUME TypeOK, TrackInv, NEW r, Typed(r), Splits(r, buf.ring), Decide(r), ~Frozen, caching' = caching
    PROVE  /\ Verdict!Step
           /\ Known' = Known /\ buf'.ring \subseteq buf.ring
           /\ caching => buf'.ring \cap (kept' \cup discarded') = {}
           /\ ~caching => buf'.ring \subseteq kept'
<1>1. CASE caching
  <2>1. /\ buf'.ring = r.buf.ring /\ kept' = kept \cup r.persist
        /\ discarded' = discarded \cup r.discard
      BY <1>1 DEF Decide, Gated, Frozen
  <2> QED BY <1>1, <2>1 DEF Splits, TrackInv, Known, Verdict!Step, Verdict!Keeps, Verdict!Drops, Verdict!Arrives
<1>2. CASE ~caching
  <2>1. buf'.ring = r.buf.ring /\ kept' = kept /\ discarded' = discarded
      BY <1>2 DEF Decide, Gated
  <2> QED BY <1>2, <2>1 DEF Splits, TrackInv, Known, Verdict!Step, Verdict!Keeps, Verdict!Drops, Verdict!Arrives
<1> QED BY <1>1, <1>2

\* The segment of the call gets its verdict or waits.
LEMMA PushIsVerdict ==
    ASSUME TypeOK, TrackInv, PushUngated \/ PushFailOpen \/ PushGated
    PROVE  /\ Verdict!Step
           /\ Known' = Known \cup {cur} /\ buf'.ring \subseteq buf.ring \cup {cur}
           /\ caching => buf'.ring \cap (kept' \cup discarded') = {}
           /\ ~caching => buf'.ring \subseteq kept'
<1>1. PushReady /\ cur \in Segment /\ buf \in Buffer /\ caching' = caching
    BY DEF PushUngated, PushFailOpen, PushGated, PushReady, TypeOK
<1>2. cur \notin Known
    BY <1>1 DEF PushReady, TrackInv, Segment, TypeOK
<1> DEFINE r == PushSegment(buf, cur)
<1>3. Splits(r, buf.ring \cup {cur}) /\ r.discard \subseteq buf.ring /\ Typed(r)
    BY <1>1, <1>2, PushSplits, PushSegmentType DEF Known
<1> HIDE DEF r
<1> USE DEF Verdict!Step, Verdict!Keeps, Verdict!Drops, Verdict!Arrives
<1>4. CASE PushUngated
  <2>1. /\ ~caching /\ buf'.ring = r.buf.ring /\ kept' = kept \cup {cur} /\ discarded' = discarded
      BY <1>4 DEF PushUngated, r
  <2> QED BY <1>1, <1>2, <1>3, <2>1 DEF Splits, Known, TrackInv
<1>5. CASE PushFailOpen
  <2>1. /\ caching /\ buf'.ring = {} /\ kept' = kept \cup buf.ring \cup {cur} /\ discarded' = discarded
      BY <1>1, <1>5 DEF PushFailOpen, Frozen, DrainRing, Buffer
  <2> QED BY <1>1, <1>2, <2>1 DEF Known, TrackInv
<1>6. CASE PushGated
  <2>1. caching /\ discarded' = discarded \cup r.discard
      BY <1>6 DEF PushGated, Gated, r
  <2>2. CASE buf' = r.buf /\ kept' = kept \cup r.persist
      BY <1>1, <1>2, <1>3, <2>1, <2>2 DEF Splits, Known, TrackInv
  <2>3. CASE buf' = DrainRing(r.buf) /\ kept' = kept \cup r.persist \cup r.buf.ring
    <3>1. buf'.ring = {}
        BY <1>3, <2>3 DEF DrainRing, Typed, Buffer
    <3> QED BY <1>1, <1>2, <1>3, <2>1, <2>3, <3>1 DEF Splits, Known, TrackInv
  <2> QED BY <1>6, <2>2, <2>3 DEF PushGated, r
<1> QED BY <1>4, <1>5, <1>6

\* The flip-guard: a change of directory decides on the ring it leaves behind.
LEMMA StartIsVerdict ==
    ASSUME TypeOK, TrackInv, StartRun
    PROVE  /\ Verdict!Step
           /\ Known' = Known /\ buf'.ring \subseteq buf.ring
           /\ \A s \in buf'.ring : s.dir = DirOf(caching')
           /\ caching' => buf'.ring \cap (kept' \cup discarded') = {}
           /\ ~caching' => buf'.ring \subseteq kept'
<1>1. PICK c \in BOOLEAN :
          /\ caching' = c
          /\ buf' = [buf EXCEPT !.ring = @ \ Foreign(c)]
          /\ kept' = IF c THEN kept ELSE kept \cup Foreign(c)
    BY DEF StartRun
<1>2. /\ buf'.ring = buf.ring \ Foreign(c) /\ discarded' = discarded /\ caching \in BOOLEAN
      /\ Foreign(c) = IF c = caching THEN {} ELSE buf.ring
    BY <1>1 DEF StartRun, TypeOK, Buffer, Foreign, TrackInv, DirOf
<1> USE DEF Verdict!Step, Verdict!Keeps, Verdict!Drops, Verdict!Arrives
<1>3. CASE c = caching
    BY <1>1, <1>2, <1>3 DEF Known, TrackInv
<1>4. CASE c # caching
    BY <1>1, <1>2, <1>4 DEF Known, TrackInv
<1> QED BY <1>3, <1>4

\* Draining and folding decide on the ring or leave it alone.
LEMMA FoldIsVerdict ==
    ASSUME TypeOK, TrackInv, DrainChannel \/ FoldFrozen \/ FoldDriven
    PROVE  /\ Verdict!Step
           /\ Known' = Known /\ buf'.ring \subseteq buf.ring
           /\ caching => buf'.ring \cap (kept' \cup discarded') = {}
           /\ ~caching => buf'.ring \subseteq kept'
<1>0. caching' = caching /\ buf \in Buffer
    BY DEF DrainChannel, FoldFrozen, FoldDriven, NextSignal, worker, TypeOK
<1>1. CASE UNCHANGED <<buf, fate>>
    BY <1>0, <1>1, UntouchedIsVerdict DEF fate, Known, TrackInv
<1>2. CASE DrainChannel /\ ~(Frozen \/ union.replay = NoEdge)
  <2>1. union.replay \in Edge /\ Decide(ApplyReplayedEdge(buf, union.replay))
      BY <1>2 DEF DrainChannel, TypeOK, Union
  <2> QED BY <1>0, <1>2, <2>1, ApplySignalType, SignalsSplit, DecisionIsVerdict
<1>3. CASE FoldDriven /\ ~UNCHANGED <<buf, fate>>
  <2> DEFINE sig == Head(batch)
             edge == FoldEdge(union, sig)
  <2>1. sig \in Signal /\ union \in Union /\ ~Frozen
      BY <1>3 DEF FoldDriven, NextSignal, TypeOK
  <2>2. edge \in Edge \cup {NoEdge} /\ RawEdge(sig) \in Edge
      BY <2>1, FoldType
  <2>3. CASE edge # NoEdge
    <3>1. Decide(ApplySignal(buf, edge))
        BY <1>3, <2>3 DEF FoldDriven
    <3> QED BY <1>0, <2>1, <2>2, <2>3, <3>1, ApplySignalType, SignalsSplit, DecisionIsVerdict
  <2>4. CASE edge = NoEdge
    <3>1. Decide(ApplyReplayedEdge(buf, RawEdge(sig)))
        BY <1>3, <2>4 DEF FoldDriven
    <3> QED BY <1>0, <2>1, <2>2, <3>1, ApplySignalType, SignalsSplit, DecisionIsVerdict
  <2> QED BY <2>2, <2>3, <2>4
<1> QED BY <1>1, <1>2, <1>3 DEF DrainChannel, FoldFrozen, motion

\* The clock, sources, health and the listing touch no verdict.
LEMMA QuietIsVerdict ==
    ASSUME \/ Tick \/ DetectorFlips \/ ForwardHealth \/ (\E s \in Sources : SourceStart(s) \/ SourceStop(s))
           \/ ListFirst \/ ListNext \/ RunEnds \/ UNCHANGED vars
    PROVE  UNCHANGED <<caching, buf, kept, discarded>> /\ Verdict!Step
<1>1. UNCHANGED <<caching, buf, kept, discarded>>
    BY DEF Tick, DetectorFlips, ForwardHealth, SourceStart, SourceStop, ListFirst, ListNext, RunEnds, vars,
           motion, fate, worker
<1> QED BY <1>1, UntouchedIsVerdict

LEMMA StepIsVerdict == TypeOK /\ TrackInv /\ [Next]_vars => Verdict!Step
BY QuietIsVerdict, StartIsVerdict, FoldIsVerdict, PushIsVerdict DEF Next

LEMMA NextTrack == TypeOK /\ TrackInv /\ [Next]_vars => TrackInv'
<1> SUFFICES ASSUME TypeOK, TrackInv, [Next]_vars PROVE TrackInv'
    OBVIOUS
<1> USE GateAssumption
<1>0. \A s \in Known : s \in Segment /\ s.start \in Nat
    BY DEF Known, TypeOK, Buffer, Segment
<1>1. CASE \/ Tick \/ DetectorFlips \/ ForwardHealth \/ (\E s \in Sources : SourceStart(s) \/ SourceStop(s))
           \/ UNCHANGED vars
  <2>1. UNCHANGED <<caching, buf, kept, discarded, up, listAt, prev, pc, cur, runs>>
      BY <1>1 DEF Tick, DetectorFlips, ForwardHealth, SourceStart, SourceStop, vars, worker, call, motion, fate
  <2>2. now' = now \/ (now' = now + 1 /\ pc = "wait")
      BY <1>1 DEF Tick, DetectorFlips, ForwardHealth, SourceStart, SourceStop, vars
  <2>3. Known' = Known /\ DirOf(caching)' = DirOf(caching)
      BY <2>1 DEF Known, DirOf
  <2>4. CASE now' = now
      BY <2>1, <2>3, <2>4 DEF TrackInv
  <2>5. CASE now' = now + 1 /\ pc = "wait"
    <3>1. now \in Nat /\ prev.start \in Nat /\ \A s \in Known : s.start <= now'
        BY <1>0, <2>5 DEF TypeOK, Segment, NoSeg, TrackInv
    <3>2. prev # NoSeg => prev.start <= now'
        BY <2>5, <3>1 DEF TrackInv
    <3> QED BY <2>1, <2>3, <2>5, <3>1, <3>2 DEF TrackInv
  <2> QED BY <2>2, <2>4, <2>5
<1>2. CASE StartRun
  <2>1. /\ ~up /\ pc = "wait" /\ prev = NoSeg /\ (runs > 0 => now > listAt) /\ up' /\ listAt' = now
        /\ UNCHANGED <<now, pc, prev, cur>> /\ runs' = runs + 1 /\ runs' # 0
      BY <1>2 DEF StartRun, TrackInv, call, TypeOK
  <2>2. \A s \in Known : s.start < now
      BY <1>0, <2>1 DEF TrackInv, TypeOK
  <2> QED BY <1>0, <1>2, <2>1, <2>2, StartIsVerdict DEF TrackInv
<1>3. CASE ListFirst \/ ListNext \/ RunEnds
  <2>1. Known' = Known /\ UNCHANGED <<now, runs, caching, buf, kept, discarded>> /\ up /\ pc = "wait"
      BY <1>3, QuietIsVerdict DEF Known, ListFirst, ListNext, RunEnds, ListDue
  <2>2. prev.start \in Nat
      BY DEF TypeOK, Segment, NoSeg
  <2>3. CASE ListFirst
      BY <1>0, <2>1, <2>3 DEF ListFirst, ListDue, Listed, TrackInv, TypeOK, call
  <2>4. CASE (ListNext \/ RunEnds) /\ prev # NoSeg
    <3>1. /\ prev' = NoSeg /\ cur'.start = prev.start /\ cur'.dir = prev.dir /\ pc' = "drain"
          /\ \/ up' /\ listAt' = listAt /\ now = listAt + ListLag
             \/ ~up' /\ listAt' = now
        BY <2>4 DEF ListNext, RunEnds, Finish, ListDue, TypeOK, Segment
    <3> QED BY <1>0, <2>1, <2>2, <2>4, <3>1 DEF TrackInv, TypeOK
  <2>5. CASE RunEnds /\ prev = NoSeg
      BY <1>0, <2>1, <2>5 DEF RunEnds, TrackInv, TypeOK, call
  <2> QED BY <1>3, <2>3, <2>4, <2>5 DEF ListNext
<1>4. CASE DrainChannel \/ FoldFrozen \/ FoldDriven
  <2>1. pc # "wait" /\ pc' # "wait" /\ UNCHANGED <<now, runs, up, listAt, prev, caching, cur>>
      BY <1>4 DEF DrainChannel, FoldFrozen, FoldDriven, NextSignal, worker
  <2> QED BY <1>4, <2>1, FoldIsVerdict DEF TrackInv
<1>5. CASE PushUngated \/ PushFailOpen \/ PushGated
  <2>1. PushReady /\ cur \in Segment
      BY <1>5 DEF PushUngated, PushFailOpen, PushGated, PushReady, TypeOK
  <2>2. /\ pc # "wait" /\ pc' = "wait" /\ cur' = NoSeg /\ UNCHANGED <<now, runs, caching>>
        /\ \/ up /\ up' /\ prev' = Listed /\ listAt' = listAt + SegLen
           \/ ~up' /\ prev' = prev /\ listAt' \in {now, listAt} /\ (up => listAt' = now)
      BY <2>1 DEF PushReady, Resume
  <2>3. cur.start \in Nat /\ Listed.start = listAt /\ Listed.dir = DirOf(caching)
      BY <2>1 DEF Segment, Listed
  <2>4. \A s \in Known' : s.start \in Nat /\ s.start <= cur.start
      BY <1>0, <1>5, <2>2, <2>3, PushIsVerdict DEF TrackInv, TypeOK
  <2>5. CASE up /\ up' /\ prev' = Listed /\ listAt' = listAt + SegLen
      BY <1>5, <2>2, <2>3, <2>4, <2>5, PushIsVerdict DEF TrackInv, TypeOK
  <2>6. CASE ~up' /\ prev' = prev /\ listAt' \in {now, listAt} /\ (up => listAt' = now)
      BY <1>5, <2>2, <2>3, <2>4, <2>6, PushIsVerdict DEF TrackInv, TypeOK
  <2> QED BY <2>2, <2>5, <2>6
<1> QED BY <1>1, <1>2, <1>3, <1>4, <1>5 DEF Next

LEMMA TrackHolds == Spec => [](TypeOK /\ TrackInv)
<1>1. Init => TrackInv
    BY DEF Init, TrackInv, Known, EmptyBuffer
<1> QED BY <1>1, NextTrack, TypeCorrect, PTL DEF Spec

\* RECORDER-CORRECTNESS.md 20 (recording.rs finish_completed_segment, the flip-guard and the drains):
\* the gate implements SegmentVerdict: whatever edges, health and reconnects do, a segment waits
\* until it gets exactly one verdict, and none is taken back.
THEOREM GateGivesOneVerdict == Spec => VerdictSpec
<1>1. Init => Verdict!Init
    BY DEF Init, Verdict!Init, EmptyBuffer
<1>2. TypeOK /\ TrackInv /\ [Next]_vars => [Verdict!Step]_(Verdict!vars)
    BY StepIsVerdict
<1> QED BY <1>1, <1>2, TrackHolds, PTL DEF Spec, VerdictSpec, Verdict!Spec

LEMMA NextTracked ==
    ASSUME CacheFills = FALSE, TypeOK, TrackInv, NothingUntracked, [Next]_vars
    PROVE  NothingUntracked'
<1> DEFINE Here(t) == \/ \E s \in Known \cup {prev, cur} : s # NoSeg /\ s.start = t
                      \/ pc # "wait" /\ up /\ t = listAt
<1>1. \A t \in listed : Here(t)
    BY DEF NothingUntracked, Known
<1>2. SUFFICES ASSUME NEW t \in listed' PROVE Here(t)'
    BY DEF NothingUntracked, Known
<1>3. CASE \/ Tick \/ DetectorFlips \/ ForwardHealth \/ (\E s \in Sources : SourceStart(s) \/ SourceStop(s))
           \/ UNCHANGED vars
  <2>1. UNCHANGED <<buf, kept, discarded, up, listAt, prev, pc, cur, listed>>
      BY <1>3 DEF Tick, DetectorFlips, ForwardHealth, SourceStart, SourceStop, vars, worker, call, motion, fate
  <2> QED BY <1>1, <2>1 DEF Known
<1>4. CASE StartRun
  <2>1. pc = "wait" /\ UNCHANGED <<prev, pc, cur, listed>>
      BY <1>4 DEF StartRun, call
  <2> QED BY <1>1, <1>4, <2>1, StartIsVerdict
<1>5. CASE ListFirst
  <2>1. UNCHANGED <<buf, kept, discarded, pc, cur>> /\ listed' = listed \cup {listAt}
        /\ pc = "wait" /\ prev = NoSeg /\ prev' = Listed
      BY <1>5 DEF ListFirst, call, motion, fate
  <2>2. Listed.start = listAt /\ Listed # NoSeg
      BY DEF Listed, NoSeg, DirOf
  <2> QED BY <1>1, <2>1, <2>2 DEF Known
<1>6. CASE (ListNext \/ RunEnds) /\ prev # NoSeg
  <2>1. /\ UNCHANGED <<buf, kept, discarded>> /\ pc = "wait" /\ pc' = "drain"
        /\ cur'.start = prev.start /\ cur'.dir = prev.dir
        /\ listed' = listed \/ (listed' = listed \cup {listAt} /\ up' /\ listAt' = listAt)
      BY <1>6 DEF ListNext, RunEnds, Finish, motion, fate, TypeOK, Segment, ListDue
  <2>2. cur' # NoSeg
      BY <1>6, <2>1 DEF TypeOK, Segment, NoSeg, Dirs
  <2>3. t \in listed => \E s \in Known \cup {prev, cur} : s # NoSeg /\ s.start = t
      BY <1>1, <2>1
  <2>4. cur = NoSeg
      BY <2>1 DEF TrackInv
  <2> QED BY <2>1, <2>2, <2>3, <2>4 DEF Known
<1>7. CASE RunEnds /\ prev = NoSeg
  <2>1. UNCHANGED <<buf, kept, discarded, prev, pc, cur, listed>> /\ pc = "wait"
      BY <1>7 DEF RunEnds, call, motion, fate
  <2> QED BY <1>1, <2>1 DEF Known
<1>8. CASE DrainChannel \/ FoldFrozen \/ FoldDriven
  <2>1. pc # "wait" /\ pc' # "wait" /\ UNCHANGED <<up, listAt, prev, cur, listed>>
      BY <1>8 DEF DrainChannel, FoldFrozen, FoldDriven, NextSignal, worker
  <2> QED BY <1>1, <1>8, <2>1, FoldIsVerdict
<1>9. CASE PushUngated \/ PushFailOpen \/ PushGated
  <2>1. PushReady /\ prev = NoSeg /\ Known' = Known \cup {cur}
      BY <1>9, PushIsVerdict DEF PushUngated, PushFailOpen, PushGated, PushReady, TrackInv
  <2>2. listed' = listed /\ (up => prev' = Listed)
      BY <2>1 DEF PushReady, Resume
  <2>3. Listed.start = listAt /\ Listed # NoSeg
      BY DEF Listed, NoSeg, DirOf
  <2> QED BY <1>1, <2>1, <2>2, <2>3
<1> QED BY <1>3, <1>4, <1>5, <1>6, <1>7, <1>8, <1>9 DEF Next, ListNext

\* Items 20 and 25 (recording.rs run_ffmpeg_loop, finish_completed_segment): unless the cache runs
\* full at a boundary, no segment that ffmpeg listed is lost track of.
THEOREM NoSegmentIsLost == ASSUME CacheFills = FALSE PROVE Spec => []NothingUntracked
<1>1. Init => NothingUntracked
    BY DEF Init, NothingUntracked
<1>2. TypeOK /\ TrackInv /\ NothingUntracked /\ [Next]_vars => NothingUntracked'
    BY NextTracked
<1> QED BY <1>1, <1>2, TrackHolds, PTL DEF Spec

-----------------------------------------------------------------------------
(***************************************************************************)
(* No motion a source reported is discarded.  TimeInv places segments, runs  *)
(* and calls on the clock; EventInv and QueueInv tie the events to the        *)
(* signals on their way; FoldInv says what the union and the buffer know of   *)
(* an event whose signals have arrived; RingInv carries that to the segments  *)
(* that wait, DiscardInv to those discarded.  LostInv is the other half: an   *)
(* event whose START was lost is covered by the health the call read.         *)
(***************************************************************************)

\* When segments begin and end, and when ffmpeg lists them.
TimeInv ==
    /\ \A s \in Known : s.end <= now /\ s.end <= s.start + SegLen
    /\ pc # "wait" =>
          /\ cur.end <= now /\ cur.end <= cur.start + SegLen
          /\ cur.start + ListLag <= now /\ now <= cur.end + ListLag
          /\ up => listAt + ListLag <= now
    /\ prev # NoSeg =>
          prev.end = prev.start /\ listAt = prev.start + SegLen /\ prev.start + ListLag <= now
    /\ up => now <= listAt + ListLag
    /\ prev = NoSeg => listAt <= now

\* What a finish call is about when it begins: a segment that has just ended, or that
\* ffmpeg has just listed the successor of.
LEMMA FinishedTime ==
    ASSUME TypeOK, TrackInv, TimeInv, (ListNext \/ RunEnds) /\ prev # NoSeg
    PROVE  /\ cur'.start = prev.start /\ cur'.end \in Nat /\ prev.start \in Nat
           /\ cur'.end <= now /\ cur'.end <= prev.start + SegLen
           /\ prev.start + ListLag <= now /\ now <= cur'.end + ListLag
           /\ pc' = "drain" /\ prev' = NoSeg /\ h' = rec
           /\ \/ up' /\ listAt' = listAt /\ now = listAt + ListLag
              \/ ~up' /\ listAt' = now
<1> USE GateAssumption
<1>1. prev \in Segment /\ now \in Nat /\ listAt \in Nat
    BY DEF TypeOK
<1>2. prev.start \in Nat /\ prev.end = prev.start /\ up
      /\ listAt = prev.start + SegLen /\ prev.start + ListLag <= now /\ now <= listAt + ListLag
    BY <1>1 DEF TimeInv, TrackInv, Segment
<1>3. CASE ListNext
  <2>1. cur' = [prev EXCEPT !.end = listAt] /\ now = listAt + ListLag
      BY <1>3 DEF ListNext, Finish, ListDue
  <2>2. cur'.start = prev.start /\ cur'.end = listAt
      BY <1>1, <2>1 DEF Segment
  <2> QED BY <1>1, <1>2, <1>3, <2>1, <2>2 DEF ListNext, Finish
<1>4. CASE RunEnds
  <2> DEFINE end == IF now < prev.end + SegLen THEN now ELSE prev.end + SegLen
  <2>1. cur' = [prev EXCEPT !.end = end] /\ pc' = "drain" /\ prev' = NoSeg /\ h' = rec /\ ~up' /\ listAt' = now
      BY <1>1, <1>4 DEF RunEnds, Finish, Segment
  <2>2. cur'.start = prev.start /\ cur'.end = end
      BY <1>1, <2>1 DEF Segment
  <2>3. end \in Nat /\ end <= now /\ end <= prev.start + SegLen /\ now <= end + ListLag
      BY <1>1, <1>2
  <2> QED BY <1>2, <2>1, <2>2, <2>3
<1> QED BY <1>3, <1>4

LEMMA NextTime == TypeOK /\ TrackInv /\ TimeInv /\ [Next]_vars => TimeInv'
<1> SUFFICES ASSUME TypeOK, TrackInv, TimeInv, [Next]_vars PROVE TimeInv'
    OBVIOUS
<1> USE GateAssumption
<1>0. /\ now \in Nat /\ listAt \in Nat
      /\ \A s \in Known : s \in Segment /\ s.start \in Nat /\ s.end \in Nat
    BY DEF Known, TypeOK, Buffer, Segment
<1>1. CASE DetectorFlips \/ ForwardHealth \/ (\E s \in Sources : SourceStart(s) \/ SourceStop(s)) \/ UNCHANGED vars
  <2>1. UNCHANGED <<now, up, listAt, prev, pc, cur, buf, kept, discarded>>
      BY <1>1 DEF DetectorFlips, ForwardHealth, SourceStart, SourceStop, vars, worker, call, motion, fate
  <2> QED BY <2>1 DEF TimeInv, Known
<1>2. CASE Tick
  <2>1. UNCHANGED <<up, listAt, prev, pc, cur, buf, kept, discarded>> /\ now' = now + 1 /\ pc = "wait" /\ ~ListDue
      BY <1>2 DEF Tick, worker, call, motion, fate
  <2>2. Known' = Known
      BY <2>1 DEF Known
  <2>3. prev # NoSeg => prev.start \in Nat
      BY DEF TypeOK, Segment
  <2> QED BY <1>0, <2>1, <2>2, <2>3 DEF TimeInv, ListDue
<1>3. CASE StartRun
  <2>1. ~up /\ up' /\ listAt' = now /\ UNCHANGED <<now, prev, pc, cur>> /\ prev = NoSeg /\ pc = "wait"
      BY <1>3 DEF StartRun, call, TrackInv
  <2>2. Known' = Known
      BY <1>3, StartIsVerdict
  <2> QED BY <1>0, <2>1, <2>2 DEF TimeInv
<1>4. CASE (ListNext \/ RunEnds) /\ prev # NoSeg
  <2>1. Known' = Known /\ now' = now
      BY <1>4, QuietIsVerdict DEF Known, ListNext, RunEnds
  <2> QED BY <1>0, <1>4, <2>1, FinishedTime DEF TimeInv
<1>5. CASE ListFirst
  <2>1. /\ UNCHANGED <<now, up, pc, cur, buf, kept, discarded>> /\ up /\ pc = "wait"
        /\ now = listAt + ListLag /\ prev' = Listed /\ listAt' = listAt + SegLen
      BY <1>5 DEF ListFirst, ListDue, call, motion, fate
  <2>2. Known' = Known /\ prev'.start = listAt /\ prev'.end = listAt /\ prev' # NoSeg
      BY <2>1 DEF Known, Listed, DirOf, NoSeg
  <2> QED BY <1>0, <2>1, <2>2 DEF TimeInv
<1>6. CASE RunEnds /\ prev = NoSeg
  <2>1. UNCHANGED <<now, prev, pc, cur, buf, kept, discarded>> /\ ~up' /\ listAt' = now /\ pc = "wait"
      BY <1>6 DEF RunEnds, call, motion, fate
  <2>2. Known' = Known
      BY <2>1 DEF Known
  <2> QED BY <1>0, <1>6, <2>1, <2>2 DEF TimeInv
<1>7. CASE DrainChannel \/ FoldFrozen \/ FoldDriven
  <2>1. pc # "wait" /\ pc' # "wait" /\ UNCHANGED <<now, up, listAt, prev, cur>>
      BY <1>7 DEF DrainChannel, FoldFrozen, FoldDriven, NextSignal, worker
  <2>2. Known' = Known
      BY <1>7, FoldIsVerdict
  <2> QED BY <2>1, <2>2 DEF TimeInv
<1>8. CASE PushUngated \/ PushFailOpen \/ PushGated
  <2>1. PushReady /\ cur \in Segment /\ Known' = Known \cup {cur}
      BY <1>8, PushIsVerdict DEF PushUngated, PushFailOpen, PushGated, PushReady, TypeOK
  <2>2. pc # "wait" /\ pc' = "wait" /\ cur' = NoSeg /\ now' = now /\ prev = NoSeg
        /\ \/ up /\ up' /\ prev' = Listed /\ listAt' = listAt + SegLen
           \/ up /\ ~up' /\ prev' = prev /\ listAt' = now
           \/ ~up /\ ~up' /\ prev' = prev /\ listAt' = listAt
      BY <2>1 DEF PushReady, Resume, TrackInv
  <2>3. cur.start \in Nat /\ cur.end \in Nat /\ Listed.start = listAt /\ Listed.end = listAt
        /\ Listed # NoSeg
      BY <2>1 DEF Segment, Listed, DirOf, NoSeg
  <2>4. \A s \in Known' : s.end <= now /\ s.end <= s.start + SegLen
      BY <2>1, <2>2 DEF TimeInv
  <2>5. /\ up => now <= listAt + ListLag /\ listAt + ListLag <= now
        /\ listAt <= now
      BY <2>2 DEF TimeInv
  <2> QED BY <1>0, <2>2, <2>3, <2>4, <2>5 DEF TimeInv
<1> QED BY <1>1, <1>2, <1>3, <1>4, <1>5, <1>6, <1>7, <1>8 DEF Next, ListNext

\* Events are told apart by source and start, and a source has at most one open.
EventInv ==
    /\ \A e, f \in events : e.src = f.src /\ e.start = f.start => e = f
    /\ \A e \in events :
          /\ e.start <= now
          /\ IF e.stop = Ongoing THEN active[e.src] = e.start ELSE e.start < e.stop /\ e.stop <= now
    /\ \A s \in Sources : active[s] # Idle =>
          \E e \in events : e.src = s /\ e.start = active[s] /\ e.stop = Ongoing

\* What is on its way to the union, in the order it was sent in, and when it was.
Pending == IF pc = "apply" THEN batch ELSE chan
SentAt(sig) == IF IsStart(sig) THEN sig.start ELSE sig.stop

QueueInv ==
    /\ IF pc = "apply" THEN chan = <<>> ELSE batch = <<>>
    /\ \A i \in DOMAIN Pending :
          /\ SentAt(Pending[i]) <= now
          /\ ~IsStart(Pending[i]) =>
                \E e \in events : <<e.src, e.start>> = KeyOf(Pending[i]) /\ e.stop = Pending[i].stop
    /\ \A i, j \in DOMAIN Pending : i < j => SentAt(Pending[i]) <= SentAt(Pending[j])

\* What a source does to its event.
LEMMA StartedEvent ==
    ASSUME TypeOK, EventInv, NEW s \in Sources, SourceStart(s)
    PROVE  LET e == [src |-> s, start |-> now, stop |-> Ongoing, heard |-> Accepts] IN
           /\ events' = events \cup {e} /\ e \in Event
           /\ \A f \in events : f.src = s => f.stop # Ongoing /\ f.stop < now /\ f.start < now
           /\ now' = now /\ active' = [active EXCEPT ![s] = now]
<1>1. \A f \in events : f.src = s => f.stop # Ongoing
    BY DEF SourceStart, EventInv, TypeOK, Event, Idle, Ongoing
<1>2. \A f \in events : f.src = s => f.stop < now
    BY DEF SourceStart
<1>3. \A f \in events : f.start \in Nat /\ f.stop \in StopTime
    BY DEF TypeOK, Event
<1>4. now \in Nat /\ Accepts \in BOOLEAN
    BY DEF TypeOK, Accepts
<1>5. \A f \in events : f.src = s => f.start < now
    BY <1>1, <1>2, <1>3, <1>4 DEF EventInv, StopTime
<1>6. [src |-> s, start |-> now, stop |-> Ongoing, heard |-> Accepts] \in Event
    BY <1>4 DEF Event, StopTime
<1> QED BY <1>1, <1>2, <1>5, <1>6 DEF SourceStart

\* The event that a source ends.
LEMMA StoppedEvent ==
    ASSUME TypeOK, EventInv, NEW s \in Sources, SourceStop(s)
    PROVE  \E e \in events :
           /\ e.src = s /\ e.start = active[s] /\ e.stop = Ongoing /\ e.start < now
           /\ events' = (events \ {e}) \cup {[e EXCEPT !.stop = now]}
           /\ \A f \in events \ {e} : f.src = s => f.stop # Ongoing
           /\ now' = now /\ active' = [active EXCEPT ![s] = Idle]
<1>1. active[s] \in Nat /\ active[s] # Idle /\ active[s] < now
    BY DEF SourceStop, Idle, TypeOK
<1>2. PICK e \in events : e.src = s /\ e.start = active[s] /\ e.stop = Ongoing
    BY <1>1 DEF EventInv
<1>3. \A f \in events : f.src = s /\ f.stop = Ongoing => f = e
    BY <1>2 DEF EventInv
<1>4. events' = {IF f.src = s /\ f.stop = Ongoing THEN [f EXCEPT !.stop = now] ELSE f : f \in events}
    BY DEF SourceStop
<1>5. events' = (events \ {e}) \cup {[e EXCEPT !.stop = now]}
    BY <1>2, <1>3, <1>4
<1> QED BY <1>1, <1>2, <1>3, <1>5 DEF SourceStop

LEMMA NextEvents == TypeOK /\ EventInv /\ [Next]_vars => EventInv'
<1> SUFFICES ASSUME TypeOK, EventInv, [Next]_vars PROVE EventInv'
    OBVIOUS
<1>0. /\ now \in Nat /\ active \in [Sources -> Nat \cup {Idle}]
      /\ \A e \in events : e.src \in Sources /\ e.start \in Nat /\ e.stop \in StopTime
    BY DEF TypeOK, Event
<1>1. ASSUME NEW s \in Sources, SourceStart(s) PROVE EventInv'
  <2> DEFINE e == [src |-> s, start |-> now, stop |-> Ongoing, heard |-> Accepts]
  <2>1. /\ events' = events \cup {e} /\ now' = now
        /\ \A f \in events : f.src = s => f.stop # Ongoing /\ f.stop < now /\ f.start < now
        /\ active' = [active EXCEPT ![s] = now]
      BY <1>1, StartedEvent
  <2>2. e.src = s /\ e.start = now /\ e.stop = Ongoing
      OBVIOUS
  <2> HIDE DEF e
  <2>3. \A f, g \in events' : f.src = g.src /\ f.start = g.start => f = g
      BY <1>0, <2>1, <2>2 DEF EventInv
  <2>4. \A f \in events' : /\ f.start <= now'
                          /\ IF f.stop = Ongoing THEN active'[f.src] = f.start
                                                 ELSE f.start < f.stop /\ f.stop <= now'
      BY <1>0, <2>1, <2>2 DEF EventInv
  <2>5. \A t \in Sources : active'[t] # Idle =>
            \E f \in events' : f.src = t /\ f.start = active'[t] /\ f.stop = Ongoing
      BY <1>0, <2>1, <2>2 DEF EventInv
  <2> QED BY <2>3, <2>4, <2>5 DEF EventInv
<1>2. ASSUME NEW s \in Sources, SourceStop(s) PROVE EventInv'
  <2>1. PICK e \in events :
           /\ e.src = s /\ e.start = active[s] /\ e.stop = Ongoing /\ e.start < now
           /\ events' = (events \ {e}) \cup {[e EXCEPT !.stop = now]}
           /\ \A f \in events \ {e} : f.src = s => f.stop # Ongoing
           /\ now' = now /\ active' = [active EXCEPT ![s] = Idle]
      BY <1>2, StoppedEvent
  <2> DEFINE g == [e EXCEPT !.stop = now]
  <2>2. g.src = s /\ g.start = e.start /\ g.stop = now /\ now # Ongoing
      BY <1>0, <2>1 DEF TypeOK, Event, Ongoing
  <2>3. events' = (events \ {e}) \cup {g}
      BY <2>1
  <2> HIDE DEF g
  <2>4. \A f, k \in events' : f.src = k.src /\ f.start = k.start => f = k
      BY <2>1, <2>2, <2>3 DEF EventInv
  <2>5. \A f \in events' : /\ f.start <= now'
                          /\ IF f.stop = Ongoing THEN active'[f.src] = f.start
                                                 ELSE f.start < f.stop /\ f.stop <= now'
      BY <1>0, <2>1, <2>2, <2>3 DEF EventInv
  <2>6. \A t \in Sources : active'[t] # Idle =>
            \E f \in events' : f.src = t /\ f.start = active'[t] /\ f.stop = Ongoing
      BY <1>0, <2>1, <2>2, <2>3 DEF EventInv
  <2> QED BY <2>4, <2>5, <2>6 DEF EventInv
<1>3. ASSUME UNCHANGED <<active, events>>, now' = now \/ now' = now + 1 PROVE EventInv'
  <2>1. \A e \in events : e.stop # Ongoing => e.stop \in Nat
      BY <1>0 DEF StopTime
  <2> QED BY <1>0, <1>3, <2>1 DEF EventInv
<1>4. CASE ~(\E s \in Sources : SourceStart(s) \/ SourceStop(s))
  <2>1. UNCHANGED <<active, events>> /\ (now' = now \/ now' = now + 1)
      BY <1>4 DEF Next, Tick, DetectorFlips, ForwardHealth, StartRun, ListFirst, ListNext, RunEnds, DrainChannel,
             FoldFrozen, FoldDriven, NextSignal, PushUngated, PushFailOpen, PushGated, PushReady, sources, vars
  <2> QED BY <1>3, <2>1
<1> QED BY <1>1, <1>2, <1>4

\* A send appends at most, and what it appends is sent now.
LEMMA SentLast ==
    ASSUME TypeOK, NEW sig \in Signal, TrySend(sig), pc # "apply", pc' = pc
    PROVE  \/ Pending' = Pending /\ ~Accepts
           \/ Pending' = Append(Pending, sig) /\ Accepts
BY DEF TrySend, Pending

\* QueueInv after a step, said of the new values.
LEMMA QueueAfter ==
    ASSUME IF pc' = "apply" THEN chan' = <<>> ELSE batch' = <<>>,
           \A i \in DOMAIN Pending' : SentAt(Pending'[i]) <= now',
           \A i \in DOMAIN Pending' : ~IsStart(Pending'[i]) =>
                \E e \in events' : <<e.src, e.start>> = KeyOf(Pending'[i]) /\ e.stop = Pending'[i].stop,
           \A i, j \in DOMAIN Pending' : i < j => SentAt(Pending'[i]) <= SentAt(Pending'[j])
    PROVE  QueueInv'
<1>1. (\A i \in DOMAIN Pending : SentAt(Pending[i]) <= now)'
    BY DEF SentAt, IsStart
<1>2. (\A i \in DOMAIN Pending : ~IsStart(Pending[i]) =>
          \E e \in events : <<e.src, e.start>> = KeyOf(Pending[i]) /\ e.stop = Pending[i].stop)'
    BY DEF KeyOf, IsStart
<1>3. (\A i, j \in DOMAIN Pending : i < j => SentAt(Pending[i]) <= SentAt(Pending[j]))'
    BY DEF SentAt, IsStart
<1> QED BY <1>1, <1>2, <1>3 DEF QueueInv

LEMMA NextQueue == TypeOK /\ EventInv /\ QueueInv /\ [Next]_vars => QueueInv'
<1> SUFFICES ASSUME TypeOK, EventInv, QueueInv, [Next]_vars PROVE QueueInv'
    OBVIOUS
<1>0. now \in Nat /\ Pending \in Seq(Signal) /\ \A i \in DOMAIN Pending : SentAt(Pending[i]) \in Nat
  <2>1. Pending \in Seq(Signal)
      BY DEF TypeOK, Pending
  <2>2. \A sig \in Signal : SentAt(sig) \in Nat
      BY DEF SentAt, Signal, StopTime, IsStart
  <2>3. \A i \in DOMAIN Pending : Pending[i] \in Signal
      BY <2>1
  <2> QED BY <2>1, <2>2, <2>3 DEF TypeOK
<1>1. ASSUME NEW sig \in Signal, TrySend(sig), pc # "apply", pc' = pc, now' = now, batch' = batch,
             SentAt(sig) = now,
             ~IsStart(sig) => \E e \in events' : <<e.src, e.start>> = KeyOf(sig) /\ e.stop = sig.stop,
             \A e \in events : e.stop # Ongoing => e \in events'
      PROVE  QueueInv'
  <2>1. IF pc' = "apply" THEN chan' = <<>> ELSE batch' = <<>>
      BY <1>1 DEF QueueInv
  <2>2. \A i \in DOMAIN Pending : ~IsStart(Pending[i]) =>
            \E e \in events' : <<e.src, e.start>> = KeyOf(Pending[i]) /\ e.stop = Pending[i].stop
      BY <1>1 DEF QueueInv, IsStart
  <2>3. CASE Pending' = Pending
      BY <1>1, <2>1, <2>2, <2>3 DEF QueueInv, SentAt
  <2>4. CASE Pending' = Append(Pending, sig)
    <3>1. /\ Len(Pending) \in Nat /\ DOMAIN Pending' = 1..(Len(Pending) + 1) /\ Pending'[Len(Pending) + 1] = sig
          /\ \A i \in DOMAIN Pending : i \in 1..Len(Pending) /\ Pending'[i] = Pending[i]
          /\ \A i \in DOMAIN Pending' : i \in DOMAIN Pending \/ i = Len(Pending) + 1
        BY <1>0, <2>4
    <3>2. \A i \in DOMAIN Pending' : SentAt(Pending'[i]) <= now'
        BY <1>0, <1>1, <3>1 DEF QueueInv
    <3>3. \A i \in DOMAIN Pending' : ~IsStart(Pending'[i]) =>
              \E e \in events' : <<e.src, e.start>> = KeyOf(Pending'[i]) /\ e.stop = Pending'[i].stop
        BY <1>1, <2>2, <3>1
    <3>4. \A i, j \in DOMAIN Pending' : i < j => SentAt(Pending'[i]) <= SentAt(Pending'[j])
        BY <1>0, <1>1, <3>1 DEF QueueInv
    <3> QED BY <2>1, <3>2, <3>3, <3>4, QueueAfter
  <2> QED BY <1>1, <2>3, <2>4, SentLast
<1>2. ASSUME NEW s \in Sources, SourceStart(s) PROVE QueueInv'
  <2> DEFINE sig == [src |-> s, start |-> now, stop |-> Ongoing]
  <2>1. sig \in Signal /\ TrySend(sig) /\ SentAt(sig) = now /\ IsStart(sig)
      BY <1>2 DEF SourceStart, Signal, StopTime, SentAt, IsStart, TypeOK
  <2>2. events \subseteq events' /\ pc # "apply" /\ pc' = pc /\ now' = now /\ batch' = batch
      BY <1>2 DEF SourceStart, Visible, call
  <2> QED BY <1>1, <2>1, <2>2
<1>3. ASSUME NEW s \in Sources, SourceStop(s) PROVE QueueInv'
  <2> DEFINE sig == [src |-> s, start |-> active[s], stop |-> now]
  <2>1. sig \in Signal /\ TrySend(sig) /\ SentAt(sig) = now /\ sig.stop = now /\ KeyOf(sig) = <<s, active[s]>>
      BY <1>3, <1>0 DEF SourceStop, Signal, StopTime, SentAt, IsStart, Ongoing, KeyOf
  <2>2. pc # "apply" /\ pc' = pc /\ now' = now /\ batch' = batch
      BY <1>3 DEF SourceStop, Visible, call
  <2>3. PICK e \in events :
           /\ e.src = s /\ e.start = active[s] /\ e.stop = Ongoing
           /\ events' = (events \ {e}) \cup {[e EXCEPT !.stop = now]}
      BY <1>3, StoppedEvent
  <2>4. LET g == [e EXCEPT !.stop = now] IN g \in events' /\ g.src = s /\ g.start = active[s] /\ g.stop = now
      BY <2>3 DEF TypeOK, Event
  <2>5. \A f \in events : f.stop # Ongoing => f \in events'
      BY <2>3
  <2> HIDE DEF sig
  <2> QED BY <1>1, <2>1, <2>2, <2>4, <2>5
<1>4. ASSUME Pending' = Pending, UNCHANGED events, now' = now \/ now' = now + 1,
             IF pc' = "apply" THEN chan' = <<>> ELSE batch' = <<>>
      PROVE  QueueInv'
    BY <1>0, <1>4 DEF QueueInv, SentAt
<1>5. CASE \/ Tick \/ DetectorFlips \/ ForwardHealth \/ StartRun \/ ListFirst \/ ListNext \/ RunEnds
           \/ DrainChannel \/ UNCHANGED vars
  <2>1. /\ UNCHANGED events /\ (now' = now \/ now' = now + 1)
        /\ (pc' = pc /\ UNCHANGED <<batch, chan>>) \/ (pc = "wait" /\ pc' = "drain" /\ UNCHANGED <<batch, chan>>)
             \/ (pc = "drain" /\ pc' = "apply" /\ batch' = chan /\ chan' = <<>>)
      BY <1>5 DEF Tick, DetectorFlips, ForwardHealth, StartRun, ListFirst, ListNext, RunEnds, Finish, DrainChannel,
             sources, call, vars
  <2> QED BY <1>4, <2>1 DEF Pending, QueueInv
<1>6. CASE PushUngated \/ PushFailOpen \/ PushGated
  <2>1. pc = "apply" /\ pc' = "wait" /\ batch = <<>> /\ UNCHANGED <<events, now, batch, chan>>
      BY <1>6 DEF PushUngated, PushFailOpen, PushGated, PushReady, Resume, sources
  <2> QED BY <1>4, <2>1 DEF Pending, QueueInv
<1>7. CASE FoldFrozen \/ FoldDriven
  <2>1. pc = "apply" /\ pc' = pc /\ UNCHANGED <<events, now, chan>> /\ batch # <<>> /\ batch' = Tail(batch)
      BY <1>7 DEF FoldFrozen, FoldDriven, NextSignal, sources
  <2>2. Pending' = Tail(Pending) /\ Pending # <<>>
      BY <2>1 DEF Pending
  <2>3. \A i \in DOMAIN Pending' : i + 1 \in DOMAIN Pending /\ Pending'[i] = Pending[i + 1] /\ i \in Nat
      BY <1>0, <2>2
  <2>4. \A i \in DOMAIN Pending' : SentAt(Pending'[i]) <= now'
      BY <2>1, <2>3 DEF QueueInv
  <2>7. \A i \in DOMAIN Pending' : ~IsStart(Pending'[i]) =>
                \E e \in events' : <<e.src, e.start>> = KeyOf(Pending'[i]) /\ e.stop = Pending'[i].stop
      BY <2>1, <2>3 DEF QueueInv
  <2>5. \A i, j \in DOMAIN Pending' : i < j => SentAt(Pending'[i]) <= SentAt(Pending'[j])
      BY <2>3 DEF QueueInv
  <2>6. IF pc' = "apply" THEN chan' = <<>> ELSE batch' = <<>>
      BY <2>1 DEF QueueInv
  <2> QED BY <2>4, <2>5, <2>6, <2>7, QueueAfter
<1> QED BY <1>2, <1>3, <1>5, <1>6, <1>7 DEF Next

\* The events a source was heard to open whose signals have all been folded: their START is
\* no longer on its way, and their key is not open.
StartOf(e) == [src |-> e.src, start |-> e.start, stop |-> Ongoing]
Over == {e \in events : /\ e.heard
                        /\ \A i \in DOMAIN Pending : Pending[i] # StartOf(e)
                        /\ <<e.src, e.start>> \notin union.open}

\* They have ended, before any signal that is still to come; so the edge to replay, or the
\* post-roll, covers them, and what an idle buffer is given next starts after their own.
FoldInv ==
    /\ \A e \in Over : e.stop # Ongoing /\ \A i \in DOMAIN Pending : e.stop <= SentAt(Pending[i])
    /\ union.replay # NoEdge /\ ~IsStart(union.replay) => \A e \in Over : e.stop <= union.replay.stop
    /\ union.replay = NoEdge /\ buf.state = "PostBuffer" => \A e \in Over : e.stop <= buf.stopped
    /\ union.replay = NoEdge /\ buf.state = "Idle" => \A e \in Over :
          /\ e.stop + Post < listAt
          /\ pc # "wait" => e.stop + Post < cur.start
          /\ prev # NoSeg => e.stop + Post < prev.start

\* What a source does changes no event whose signals have been folded.
LEMMA SourcesLeaveOver ==
    ASSUME TypeOK, EventInv, FoldInv, NEW s \in Sources, SourceStart(s) \/ SourceStop(s)
    PROVE  Over' = Over
<1>0. Pending \in Seq(Signal) /\ union' = union /\ pc # "apply" /\ pc' = pc
    BY DEF TypeOK, Pending, SourceStart, SourceStop, Visible, call, motion
<1>1. ASSUME NEW sig \in Signal, TrySend(sig)
      PROVE  \A x : (\A i \in DOMAIN Pending : Pending[i] # x) /\ (Accepts => x # sig)
                    <=> (\A i \in DOMAIN Pending' : Pending'[i] # x)
  <2>1. CASE Pending' = Pending /\ ~Accepts
      BY <2>1
  <2>2. CASE Pending' = Append(Pending, sig) /\ Accepts
    <3>1. /\ Len(Pending) \in Nat /\ DOMAIN Pending' = 1..(Len(Pending) + 1) /\ Pending'[Len(Pending) + 1] = sig
          /\ \A i \in DOMAIN Pending : i \in DOMAIN Pending' /\ Pending'[i] = Pending[i]
          /\ \A i \in DOMAIN Pending' : i \in DOMAIN Pending \/ i = Len(Pending) + 1
        BY <1>0, <2>2
    <3> QED BY <2>2, <3>1
  <2> QED BY <1>0, <1>1, <2>1, <2>2, SentLast
<1>2. CASE SourceStart(s)
  <2> DEFINE e == [src |-> s, start |-> now, stop |-> Ongoing, heard |-> Accepts]
             sig == [src |-> s, start |-> now, stop |-> Ongoing]
  <2>1. sig \in Signal /\ TrySend(sig)
      BY <1>2 DEF SourceStart, Signal, StopTime, TypeOK
  <2>2. events' = events \cup {e} /\ \A f \in events : f.src = s => f.start < now
      BY <1>2, StartedEvent
  <2>3. StartOf(e) = sig /\ e.heard = Accepts
      BY DEF StartOf
  <2>4. \A f \in events : StartOf(f) # sig
      BY <2>2 DEF StartOf, TypeOK, Event
  <2>5. \A f : (\A i \in DOMAIN Pending : Pending[i] # StartOf(f)) /\ (Accepts => StartOf(f) # sig)
                    <=> (\A i \in DOMAIN Pending' : Pending'[i] # StartOf(f))
      BY <1>1, <2>1
  <2> HIDE DEF e, sig
  <2> QED BY <1>0, <2>2, <2>3, <2>4, <2>5 DEF Over, StartOf
<1>3. CASE SourceStop(s)
  <2> DEFINE sig == [src |-> s, start |-> active[s], stop |-> now]
  <2>1. sig \in Signal /\ TrySend(sig) /\ sig.stop # Ongoing
      BY <1>3 DEF SourceStop, Signal, StopTime, TypeOK, Ongoing
  <2>2. PICK e \in events :
           /\ e.src = s /\ e.start = active[s] /\ e.stop = Ongoing
           /\ events' = (events \ {e}) \cup {[e EXCEPT !.stop = now]}
      BY <1>3, StoppedEvent
  <2> DEFINE g == [e EXCEPT !.stop = now]
  <2>3. g.src = e.src /\ g.start = e.start /\ g.heard = e.heard
      BY <2>2 DEF TypeOK, Event
  <2>4. \A f : StartOf(f) # sig
      BY <2>1 DEF StartOf
  <2>5. \A f : (\A i \in DOMAIN Pending : Pending[i] # StartOf(f))
                    <=> (\A i \in DOMAIN Pending' : Pending'[i] # StartOf(f))
      BY <1>1, <2>1, <2>4
  <2>6. e \notin Over
      BY <2>2 DEF FoldInv
  <2>7. StartOf(g) = StartOf(e) /\ events' = (events \ {e}) \cup {g}
      BY <2>2, <2>3 DEF StartOf
  <2> HIDE DEF g, sig
  <2>8. ~(g.heard /\ (\A i \in DOMAIN Pending : Pending[i] # StartOf(g)) /\ <<g.src, g.start>> \notin union.open)
      BY <2>2, <2>3, <2>6, <2>7 DEF Over
  <2> QED BY <1>0, <2>2, <2>5, <2>6, <2>7, <2>8 DEF Over, StartOf
<1> QED BY <1>2, <1>3

\* What folding a signal does to the open events.
LEMMA FoldedUnion ==
    ASSUME TypeOK, FoldFrozen \/ FoldDriven
    PROVE  LET sig == Head(batch) IN
           /\ sig \in Signal /\ buf \in Buffer /\ union \in Union
           /\ union'.open = IF IsStart(sig) THEN union.open \cup {KeyOf(sig)} ELSE union.open \ {KeyOf(sig)}
<1> DEFINE sig == Head(batch)
<1>1. sig \in Signal /\ buf \in Buffer /\ union \in Union
    BY DEF FoldFrozen, FoldDriven, NextSignal, TypeOK
<1>2. Fold(union, sig) \in Union /\ RawEdge(sig) \in Edge
    BY <1>1, FoldType
<1>3. Fold(union, sig).open = IF IsStart(sig) THEN union.open \cup {KeyOf(sig)} ELSE union.open \ {KeyOf(sig)}
    BY <1>1 DEF Fold, Union
<1>4. \A u \in Union : \A e : StashReplay(u, e).open = u.open
    BY DEF StashReplay, Union
<1>5. CASE FoldDriven
    BY <1>1, <1>3, <1>5 DEF FoldDriven
<1>6. CASE FoldFrozen
  <2>1. CASE FoldEdge(union, sig) # NoEdge
    <3>1. union' = StashReplay(Fold(union, sig), FoldEdge(union, sig))
        BY <1>6, <2>1 DEF FoldFrozen
    <3> QED BY <1>1, <1>2, <1>3, <1>4, <3>1
  <2>2. CASE FoldEdge(union, sig) = NoEdge /\ UnmatchedStop(union, sig)
    <3>1. union' = StashReplay(union, RawEdge(sig))
        BY <1>6, <2>2 DEF FoldFrozen
    <3>2. union'.open = union.open /\ ~IsStart(sig) /\ union.open = {}
        BY <1>1, <1>4, <2>2, <3>1 DEF UnmatchedStop
    <3> QED BY <1>1, <3>2
  <2>3. CASE FoldEdge(union, sig) = NoEdge /\ ~UnmatchedStop(union, sig)
    <3>1. union' = Fold(union, sig)
        BY <1>6, <2>3 DEF FoldFrozen
    <3> QED BY <1>1, <1>3, <3>1
  <2> QED BY <2>1, <2>2, <2>3
<1> QED BY <1>5, <1>6

\* Folding a signal: what is over afterwards was so before, or ends with this very STOP.
LEMMA FoldedOver ==
    ASSUME TypeOK, EventInv, QueueInv, FoldInv, FoldFrozen \/ FoldDriven
    PROVE  LET sig == Head(batch) IN
           /\ \A e \in Over' : e \in events /\ e.stop \in Nat /\ e.stop <= SentAt(sig)
           /\ \A e \in Over' : \A i \in DOMAIN Pending' : e.stop <= SentAt(Pending'[i])
           /\ \A e \in Over' : e \in Over \/ (~IsStart(sig) /\ KeyOf(sig) \in union.open)
<1> DEFINE sig == Head(batch)
<1>1. /\ pc = "apply" /\ pc' = pc /\ batch # <<>> /\ batch' = Tail(batch) /\ events' = events
    BY DEF FoldFrozen, FoldDriven, NextSignal, sources
<1>2. /\ Pending \in Seq(Signal) /\ Pending' = Tail(Pending) /\ Pending # <<>>
      /\ sig = Pending[1] /\ 1 \in DOMAIN Pending /\ sig \in Signal
    BY <1>1 DEF Pending, TypeOK
<1>3. \A i \in DOMAIN Pending : i = 1 \/ (i \in Nat /\ i > 1 /\ i - 1 \in DOMAIN Pending' /\ Pending'[i - 1] = Pending[i])
    BY <1>2
<1>4. \A i \in DOMAIN Pending' : i + 1 \in DOMAIN Pending /\ Pending'[i] = Pending[i + 1] /\ i \in Nat /\ 1 < i + 1
    BY <1>2
<1>6. union'.open = IF IsStart(sig) THEN union.open \cup {KeyOf(sig)} ELSE union.open \ {KeyOf(sig)}
    BY FoldedUnion
<1>7. \A i \in DOMAIN Pending' : SentAt(sig) <= SentAt(Pending'[i])
    BY <1>2, <1>4 DEF QueueInv
<1>8. \A x \in Signal : SentAt(x) \in Nat /\ (~IsStart(x) => SentAt(x) = x.stop)
    BY DEF Signal, SentAt, StopTime, IsStart
<1>9. \A e \in events : e.start \in Nat /\ e.src \in Sources /\ e.stop \in StopTime
    BY DEF TypeOK, Event
<1> HIDE DEF sig
<1>10. ASSUME NEW e \in Over'
       PROVE  \/ e \in Over
              \/ ~IsStart(sig) /\ KeyOf(sig) \in union.open /\ e.stop = sig.stop
  <2>1. e \in events /\ e.heard /\ <<e.src, e.start>> \notin union'.open
        /\ \A i \in DOMAIN Pending' : Pending'[i] # StartOf(e)
      BY <1>1, <1>10 DEF Over, StartOf
  <2>2. \A i \in DOMAIN Pending : i # 1 => Pending[i] # StartOf(e)
      BY <1>3, <2>1
  <2>3. CASE IsStart(sig)
    <3>1. sig # StartOf(e)
        BY <1>6, <2>1, <2>3 DEF StartOf, KeyOf
    <3> QED BY <1>2, <1>6, <2>1, <2>2, <2>3, <3>1 DEF Over
  <2>4. CASE ~IsStart(sig)
    <3>1. sig # StartOf(e)
        BY <2>4 DEF StartOf, IsStart
    <3>2. CASE <<e.src, e.start>> \notin union.open
        BY <1>2, <2>1, <2>2, <3>1, <3>2 DEF Over
    <3>3. CASE <<e.src, e.start>> \in union.open
      <4>1. <<e.src, e.start>> = KeyOf(sig)
          BY <1>6, <2>1, <2>4, <3>3
      <4>2. PICK f \in events : <<f.src, f.start>> = KeyOf(sig) /\ f.stop = sig.stop
          BY <1>2, <2>4 DEF QueueInv
      <4>3. f = e
          BY <2>1, <4>1, <4>2 DEF EventInv
      <4> QED BY <2>4, <3>3, <4>1, <4>2, <4>3
    <3> QED BY <3>2, <3>3
  <2> QED BY <2>3, <2>4
<1>11. \A e \in Over' : e \in events /\ e.stop \in Nat /\ e.stop <= SentAt(sig)
  <2>1. \A e \in Over : e \in events /\ e.stop # Ongoing /\ e.stop <= SentAt(sig)
      BY <1>2 DEF Over, FoldInv
  <2>2. Over' \subseteq events
      BY <1>1 DEF Over
  <2> QED BY <1>2, <1>8, <1>9, <1>10, <2>1, <2>2 DEF StopTime, IsStart
<1>12. \A e \in Over' : \A i \in DOMAIN Pending' : e.stop <= SentAt(Pending'[i])
    BY <1>2, <1>4, <1>7, <1>8, <1>11
<1> QED BY <1>10, <1>11, <1>12 DEF sig

\* FoldInv after a step, said of the new values.
LEMMA FoldAfter ==
    ASSUME \A e \in Over' : e.stop # Ongoing /\ \A i \in DOMAIN Pending' : e.stop <= SentAt(Pending'[i]),
           union'.replay # NoEdge /\ ~IsStart(union'.replay) => \A e \in Over' : e.stop <= union'.replay.stop,
           union'.replay = NoEdge /\ buf'.state = "PostBuffer" => \A e \in Over' : e.stop <= buf'.stopped,
           union'.replay = NoEdge /\ buf'.state = "Idle" => \A e \in Over' :
               /\ e.stop + Post < listAt'
               /\ pc' # "wait" => e.stop + Post < cur'.start
               /\ prev' # NoSeg => e.stop + Post < prev'.start
    PROVE  FoldInv'
<1>1. (\A e \in Over : e.stop # Ongoing /\ \A i \in DOMAIN Pending : e.stop <= SentAt(Pending[i]))'
    BY DEF SentAt, IsStart
<1>2. (union.replay # NoEdge /\ ~IsStart(union.replay) => \A e \in Over : e.stop <= union.replay.stop)'
    BY DEF IsStart
<1> QED BY <1>1, <1>2 DEF FoldInv

\* A run that starts, lists or ends only moves the idle buffer's next segment later.
LEMMA RunKeepsFold ==
    ASSUME TypeOK, TrackInv, TimeInv, EventInv, QueueInv, FoldInv,
           StartRun \/ ListFirst \/ ListNext \/ RunEnds
    PROVE  FoldInv'
<1> USE GateAssumption
<1>1. /\ UNCHANGED <<union, events, chan, batch, now>> /\ buf'.state = buf.state /\ buf'.stopped = buf.stopped
      /\ pc # "apply" /\ pc' # "apply"
    BY DEF StartRun, ListFirst, ListNext, RunEnds, Finish, sources, call, motion, TypeOK, Buffer
<1>2. Pending' = Pending /\ Over' = Over
  <2>1. Pending' = Pending
      BY <1>1 DEF Pending
  <2> QED BY <1>1, <2>1 DEF Over
<1>3. /\ now \in Nat /\ listAt \in Nat /\ Post \in Nat
      /\ \A e \in Over : e.stop \in Nat
    BY BufferAssumption DEF TypeOK, Over, Event, FoldInv, StopTime
<1>4. ASSUME NEW e \in Over, e.stop + Post < listAt, prev # NoSeg => e.stop + Post < prev.start
      PROVE  /\ e.stop + Post < listAt'
             /\ pc' # "wait" => e.stop + Post < cur'.start
             /\ prev' # NoSeg => e.stop + Post < prev'.start
  <2>1. CASE StartRun
    <3>1. listAt' = now /\ UNCHANGED <<prev, pc, cur>> /\ prev = NoSeg /\ pc = "wait"
        BY <2>1 DEF StartRun, call, TrackInv
    <3>2. listAt <= now
        BY <3>1 DEF TimeInv
    <3> QED BY <1>3, <1>4, <3>1, <3>2
  <2>2. CASE ListFirst
    <3>1. prev' = Listed /\ listAt' = listAt + SegLen /\ pc' = "wait" /\ Listed.start = listAt
        BY <2>2 DEF ListFirst, call, Listed
    <3> QED BY <1>3, <1>4, <3>1
  <2>3. CASE (ListNext \/ RunEnds) /\ prev # NoSeg
    <3>1. /\ cur'.start = prev.start /\ prev.start \in Nat /\ prev.start <= now /\ prev' = NoSeg
          /\ listAt' = listAt \/ listAt' = now
        BY <2>3, <1>3, FinishedTime
    <3> QED BY <1>3, <1>4, <2>3, <3>1
  <2>4. CASE RunEnds /\ prev = NoSeg
    <3>1. listAt' = now /\ listAt <= now /\ UNCHANGED <<prev, pc>> /\ pc' = "wait"
        BY <2>4 DEF RunEnds, call, TimeInv
    <3> QED BY <1>3, <1>4, <2>4, <3>1
  <2> QED BY <2>1, <2>2, <2>3, <2>4 DEF ListNext
<1>5. union.replay = NoEdge /\ buf.state = "Idle" => \A e \in Over : e.stop + Post < listAt /\ (prev # NoSeg => e.stop + Post < prev.start)
    BY DEF FoldInv
<1>6. \A e \in Over : e.stop # Ongoing /\ \A i \in DOMAIN Pending : e.stop <= SentAt(Pending[i])
    BY DEF FoldInv
<1>7. union.replay # NoEdge /\ ~IsStart(union.replay) => \A e \in Over : e.stop <= union.replay.stop
    BY DEF FoldInv
<1>8. union.replay = NoEdge /\ buf.state = "PostBuffer" => \A e \in Over : e.stop <= buf.stopped
    BY DEF FoldInv
<1> QED BY <1>1, <1>2, <1>4, <1>5, <1>6, <1>7, <1>8, FoldAfter

\* What a STOP does to the buffer it reaches, live or replayed.
LEMMA StopArms ==
    ASSUME NEW b \in Buffer, NEW e \in Edge, ~IsStart(e)
    PROVE  /\ b.state # "Idle" => ApplySignal(b, e).buf.state = "PostBuffer" /\ ApplySignal(b, e).buf.stopped = e.stop
           /\ ApplyReplayedEdge(b, e).buf.state = "PostBuffer" /\ ApplyReplayedEdge(b, e).buf.stopped = e.stop
BY DEF ApplySignal, ApplyReplayedEdge, PostRoll, Outcome, Buffer

\* Taking the stashed edge puts it in the buffer.
LEMMA DrainKeepsFold ==
    ASSUME TypeOK, QueueInv, FoldInv, DrainChannel
    PROVE  FoldInv'
<1>1. /\ pc = "drain" /\ pc' = "apply" /\ batch' = chan /\ UNCHANGED <<events, listAt, prev, cur>>
      /\ buf \in Buffer /\ union \in Union
    BY DEF DrainChannel, worker, TypeOK
<1>2. union'.open = union.open
    BY DEF DrainChannel, motion, StashReplay, TypeOK, Union
<1>3. Pending' = Pending /\ Over' = Over
  <2>1. Pending' = Pending
      BY <1>1 DEF Pending
  <2> QED BY <1>1, <1>2, <2>1 DEF Over
<1>4. \A e \in Over : e.stop # Ongoing /\ \A i \in DOMAIN Pending : e.stop <= SentAt(Pending[i])
    BY DEF FoldInv
<1>5. CASE UNCHANGED motion
    BY <1>1, <1>3, <1>4, <1>5, FoldAfter DEF FoldInv, motion
<1>6. CASE ~(Frozen \/ union.replay = NoEdge)
  <2>1. union.replay \in Edge /\ buf' = ApplyReplayedEdge(buf, union.replay).buf /\ union'.replay = NoEdge
      BY <1>1, <1>6 DEF DrainChannel, Union, StashReplay, Decide
  <2>2. CASE IsStart(union.replay)
    <3>1. buf'.state = "Recording"
        BY <1>1, <2>1, <2>2, BufferRegime
    <3> QED BY <1>3, <1>4, <2>1, <3>1, FoldAfter
  <2>3. CASE ~IsStart(union.replay)
    <3>1. buf'.state = "PostBuffer" /\ buf'.stopped = union.replay.stop
        BY <1>1, <2>1, <2>3, StopArms
    <3>2. \A e \in Over : e.stop <= union.replay.stop
        BY <1>6, <2>3 DEF FoldInv
    <3> QED BY <1>3, <1>4, <2>1, <3>1, <3>2, FoldAfter
  <2> QED BY <2>2, <2>3
<1> QED BY <1>5, <1>6 DEF DrainChannel

\* A segment that an idle buffer takes, or one past the post-roll, starts after what is over.
LEMMA PushKeepsFold ==
    ASSUME TypeOK, TrackInv, TimeInv, QueueInv, FoldInv, PushUngated \/ PushFailOpen \/ PushGated
    PROVE  FoldInv'
<1> USE GateAssumption
<1>1. /\ pc = "apply" /\ pc' = "wait" /\ batch = <<>> /\ UNCHANGED <<events, chan, batch, union, now>>
      /\ cur \in Segment /\ buf \in Buffer /\ Resume
    BY DEF PushUngated, PushFailOpen, PushGated, PushReady, Resume, sources, TypeOK
<1>2. Pending' = Pending /\ Over' = Over
  <2>1. Pending' = Pending
      BY <1>1 DEF Pending, QueueInv
  <2> QED BY <1>1, <2>1 DEF Over
<1>3. /\ now \in Nat /\ listAt \in Nat /\ Post \in Nat /\ cur.start \in Nat
      /\ \A e \in Over : e.stop \in Nat
    BY <1>1, BufferAssumption DEF TypeOK, Over, Event, FoldInv, StopTime, Segment
<1>4. ASSUME NEW e \in Over, e.stop + Post < cur.start
      PROVE  e.stop + Post < listAt' /\ (prev' # NoSeg => e.stop + Post < prev'.start)
  <2>1. cur.start <= listAt /\ prev = NoSeg /\ listAt <= now
      BY <1>1, <1>3 DEF TrackInv, TimeInv
  <2>2. Listed.start = listAt
      BY DEF Listed
  <2>3. \/ prev' = Listed /\ listAt' = listAt + SegLen
        \/ prev' = prev /\ listAt' = now
        \/ prev' = prev /\ listAt' = listAt
      BY <1>1 DEF Resume
  <2> QED BY <1>3, <1>4, <2>1, <2>2, <2>3
<1>5. \/ buf'.state = buf.state /\ buf'.stopped = buf.stopped
      \/ buf'.state = "Idle" /\ ~Wanted(buf, cur) /\ buf.state # "Recording"
  <2>1. \/ PushSegment(buf, cur).buf = buf
        \/ PushSegment(buf, cur).buf.state = "Idle" /\ ~Wanted(buf, cur)
      BY DEF PushSegment, Hold, Outcome
  <2>2. PushSegment(buf, cur).buf \in Buffer
      BY <1>1, PushSegmentType DEF Typed
  <2>3. \/ buf' = PushSegment(buf, cur).buf
        \/ buf' = DrainRing(PushSegment(buf, cur).buf)
        \/ buf' = DrainRing(buf)
      BY DEF PushUngated, PushFailOpen, PushGated
  <2>4. \A b \in Buffer : DrainRing(b).state = b.state /\ DrainRing(b).stopped = b.stopped
      BY DEF DrainRing, Buffer
  <2> QED BY <1>1, <2>1, <2>2, <2>3, <2>4 DEF Wanted
<1>6. ASSUME union.replay = NoEdge, buf'.state = "Idle", NEW e \in Over
      PROVE  e.stop + Post < cur.start
  <2>1. CASE buf.state = "Idle"
      BY <1>1, <1>6, <2>1 DEF FoldInv
  <2>2. CASE buf.state = "PostBuffer"
    <3>1. e.stop <= buf.stopped /\ ~(cur.start <= buf.stopped + Post) /\ buf.stopped \in Nat
        BY <1>1, <1>5, <1>6, <2>2 DEF FoldInv, Wanted, Buffer
    <3> QED BY <1>3, <3>1
  <2> QED BY <1>1, <1>5, <1>6, <2>1, <2>2 DEF Buffer
<1>7. \A e \in Over : e.stop # Ongoing /\ \A i \in DOMAIN Pending : e.stop <= SentAt(Pending[i])
    BY DEF FoldInv
<1>8. union.replay # NoEdge /\ ~IsStart(union.replay) => \A e \in Over : e.stop <= union.replay.stop
    BY DEF FoldInv
<1>9. union.replay = NoEdge /\ buf'.state = "PostBuffer" => \A e \in Over : e.stop <= buf'.stopped
    BY <1>5 DEF FoldInv
<1> QED BY <1>1, <1>2, <1>4, <1>6, <1>7, <1>8, <1>9, FoldAfter

\* A folded signal: what it starts is recorded, what it ends is covered by its own stop time.
LEMMA FoldingKeepsFold ==
    ASSUME TypeOK, RegimeInv, EventInv, QueueInv, FoldInv, FoldFrozen \/ FoldDriven
    PROVE  FoldInv'
<1> DEFINE sig == Head(batch)
           edge == FoldEdge(union, sig)
<1>1. /\ pc = "apply" /\ pc' = "apply" /\ UNCHANGED <<listAt, prev, cur>>
    BY DEF FoldFrozen, FoldDriven, NextSignal, worker
<1>2. /\ sig \in Signal /\ buf \in Buffer /\ union \in Union
      /\ union'.open = IF IsStart(sig) THEN union.open \cup {KeyOf(sig)} ELSE union.open \ {KeyOf(sig)}
    BY FoldedUnion
<1>3. /\ \A e \in Over' : e \in events /\ e.stop \in Nat /\ e.stop <= SentAt(sig)
      /\ \A e \in Over' : \A i \in DOMAIN Pending' : e.stop <= SentAt(Pending'[i])
      /\ \A e \in Over' : e \in Over \/ (~IsStart(sig) /\ KeyOf(sig) \in union.open)
    BY FoldedOver
<1>4. \A e \in Over' : e.stop # Ongoing /\ \A i \in DOMAIN Pending' : e.stop <= SentAt(Pending'[i])
    BY <1>3 DEF Ongoing
<1>5. edge \in Edge \cup {NoEdge} /\ RawEdge(sig) \in Edge /\ Fold(union, sig) \in Union
      /\ Fold(union, sig).replay = union.replay
    BY <1>2, FoldType
<1>6. ~IsStart(sig) => SentAt(sig) = sig.stop /\ RawEdge(sig).stop = sig.stop /\ ~IsStart(RawEdge(sig))
    BY DEF SentAt, RawEdge, IsStart
<1>7. edge # NoEdge /\ ~IsStart(edge) => ~IsStart(sig) /\ edge.stop = sig.stop /\ union.open # {}
    BY DEF FoldEdge, IsStart
<1>8. edge = NoEdge => \/ union.open # {} /\ (~IsStart(sig) => union.open # {KeyOf(sig)})
                       \/ UnmatchedStop(union, sig)
  <2>1. [start |-> sig.start, stop |-> Ongoing] # NoEdge
      BY DEF NoEdge, Ongoing
  <2>2. ~IsStart(sig) => sig.stop \in Nat
      BY <1>2 DEF IsStart, Signal, StopTime
  <2>3. ~IsStart(sig) => [start |-> union.since, stop |-> sig.stop] # NoEdge
      BY <2>2 DEF NoEdge
  <2> QED BY <2>1, <2>3 DEF FoldEdge, UnmatchedStop
<1> HIDE DEF edge, sig
<1>9. ASSUME buf' = buf, union'.replay = union.replay, edge = NoEdge,
             UnmatchedStop(union, sig) => union.replay = NoEdge
      PROVE  FoldInv'
  <2>1. CASE union.open # {}
    <3>1. /\ union.replay = NoEdge => buf.state = "Recording"
          /\ union.replay # NoEdge => IsStart(union.replay)
        BY <2>1 DEF RegimeInv, RegimeAgrees
    <3> QED BY <1>4, <1>9, <3>1, FoldAfter
  <2>2. CASE union.open = {}
    <3>1. Over' \subseteq Over /\ union.replay = NoEdge
        BY <1>3, <1>8, <1>9, <2>2
    <3> QED BY <1>1, <1>4, <1>9, <3>1, FoldAfter DEF FoldInv
  <2> QED BY <2>1, <2>2
<1>10. CASE FoldDriven
  <2>1. union.replay = NoEdge /\ union' = Fold(union, sig) /\ union'.replay = NoEdge
      BY <1>1, <1>5, <1>10 DEF FoldDriven, RegimeInv, ReplayTaken, sig
  <2>2. CASE edge # NoEdge
    <3>1. buf' = ApplySignal(buf, edge).buf
        BY <1>10, <2>2 DEF FoldDriven, Decide, edge, sig
    <3>2. CASE IsStart(edge)
      <4>1. buf'.state = "Recording"
          BY <1>2, <1>5, <2>2, <3>1, <3>2, BufferRegime
      <4> QED BY <1>4, <2>1, <4>1, FoldAfter
    <3>3. CASE ~IsStart(edge)
      <4>1. buf.state = "Recording" /\ edge \in Edge
          BY <1>5, <1>7, <2>1, <2>2, <3>3 DEF RegimeInv, RegimeAgrees
      <4>2. buf'.state = "PostBuffer" /\ buf'.stopped = edge.stop
          BY <1>2, <3>1, <3>3, <4>1, StopArms
      <4>3. \A e \in Over' : e.stop <= edge.stop
          BY <1>3, <1>6, <1>7, <2>2, <3>3
      <4> QED BY <1>4, <2>1, <4>2, <4>3, FoldAfter
    <3> QED BY <3>2, <3>3
  <2>3. CASE edge = NoEdge /\ UnmatchedStop(union, sig) /\ buf.state = "Idle"
    <3>1. buf' = ApplyReplayedEdge(buf, RawEdge(sig)).buf /\ ~IsStart(sig)
        BY <1>10, <2>3 DEF FoldDriven, Decide, edge, sig, UnmatchedStop
    <3>2. buf'.state = "PostBuffer" /\ buf'.stopped = sig.stop
        BY <1>2, <1>5, <1>6, <3>1, StopArms
    <3>3. \A e \in Over' : e.stop <= sig.stop
        BY <1>3, <1>6, <3>1
    <3> QED BY <1>4, <2>1, <3>2, <3>3, FoldAfter
  <2>4. CASE edge = NoEdge /\ ~(UnmatchedStop(union, sig) /\ buf.state = "Idle")
    <3>1. buf' = buf
        BY <1>10, <2>4 DEF FoldDriven, edge, sig
    <3> QED BY <1>9, <2>1, <2>4, <3>1
  <2> QED BY <2>2, <2>3, <2>4
<1>11. CASE FoldFrozen
  <2>0. buf' = buf
      BY <1>11 DEF FoldFrozen
  <2>1. CASE edge # NoEdge
    <3>1. union'.replay = edge
        BY <1>5, <1>11, <2>1 DEF FoldFrozen, StashReplay, Union, edge, sig
    <3>2. ~IsStart(edge) => \A e \in Over' : e.stop <= edge.stop
        BY <1>3, <1>6, <1>7, <2>1
    <3> QED BY <1>4, <2>1, <3>1, <3>2, FoldAfter
  <2>2. CASE edge = NoEdge /\ UnmatchedStop(union, sig)
    <3>1. union'.replay = RawEdge(sig)
        BY <1>2, <1>11, <2>2 DEF FoldFrozen, StashReplay, Union, edge, sig
    <3>2. RawEdge(sig) # NoEdge /\ RawEdge(sig).stop = sig.stop /\ \A e \in Over' : e.stop <= sig.stop
        BY <1>3, <1>5, <1>6, <2>2, NoEdgeIsNone DEF UnmatchedStop
    <3> QED BY <1>4, <3>1, <3>2, FoldAfter
  <2>3. CASE edge = NoEdge /\ ~UnmatchedStop(union, sig)
    <3>1. union' = Fold(union, sig)
        BY <1>11, <2>3 DEF FoldFrozen, edge, sig
    <3> QED BY <1>5, <1>9, <2>0, <2>3, <3>1
  <2> QED BY <2>1, <2>2, <2>3
<1> QED BY <1>10, <1>11

LEMMA NextFold ==
    TypeOK /\ TrackInv /\ TimeInv /\ RegimeInv /\ EventInv /\ QueueInv /\ FoldInv /\ [Next]_vars => FoldInv'
<1> SUFFICES ASSUME TypeOK, TrackInv, TimeInv, RegimeInv, EventInv, QueueInv, FoldInv, [Next]_vars PROVE FoldInv'
    OBVIOUS
<1>1. CASE Tick \/ DetectorFlips \/ ForwardHealth \/ UNCHANGED vars
  <2>1. UNCHANGED <<chan, batch, pc, events, union, buf, listAt, prev, cur>>
      BY <1>1 DEF Tick, DetectorFlips, ForwardHealth, sources, call, motion, worker, vars
  <2>2. Pending' = Pending /\ Over' = Over
      BY <2>1 DEF Over, Pending
  <2> QED BY <2>1, <2>2, FoldAfter DEF FoldInv
<1>2. ASSUME NEW s \in Sources, SourceStart(s) \/ SourceStop(s) PROVE FoldInv'
  <2>1. Over' = Over /\ UNCHANGED <<pc, union, buf, listAt, prev, cur>> /\ pc # "apply"
      BY <1>2, SourcesLeaveOver DEF SourceStart, SourceStop, call, motion, worker, Visible
  <2>2. PICK sig \in Signal : TrySend(sig) /\ SentAt(sig) = now
    <3>1. ASSUME SourceStart(s) PROVE [src |-> s, start |-> now, stop |-> Ongoing] \in Signal
        BY DEF Signal, StopTime, TypeOK
    <3>2. ASSUME SourceStop(s) PROVE [src |-> s, start |-> active[s], stop |-> now] \in Signal
        BY <3>2 DEF Signal, StopTime, TypeOK, SourceStop
    <3>3. now # Ongoing
        BY DEF TypeOK, Ongoing
    <3> QED BY <1>2, <3>1, <3>2, <3>3 DEF SourceStart, SourceStop, SentAt, IsStart
  <2>3. \A e \in Over : e.stop # Ongoing /\ e.stop <= now
      BY DEF EventInv, FoldInv, Over
  <2>4. \A e \in Over' : e.stop # Ongoing /\ \A i \in DOMAIN Pending' : e.stop <= SentAt(Pending'[i])
    <3>1. CASE Pending' = Pending
        BY <2>1, <3>1 DEF FoldInv
    <3>2. CASE Pending' = Append(Pending, sig)
      <4>1. Pending \in Seq(Signal)
          BY DEF TypeOK, Pending
      <4>2. \A i \in DOMAIN Pending' : (i \in DOMAIN Pending /\ Pending'[i] = Pending[i]) \/ Pending'[i] = sig
          BY <3>2, <4>1
      <4> QED BY <2>1, <2>2, <2>3, <4>2 DEF FoldInv
    <3> QED BY <2>1, <2>2, <3>1, <3>2, SentLast
  <2> QED BY <2>1, <2>4, FoldAfter DEF FoldInv
<1> QED BY <1>1, <1>2, RunKeepsFold, DrainKeepsFold, FoldingKeepsFold, PushKeepsFold DEF Next

\* What waits in the ring of a caching run is in no window of an event that is over, and a
\* recording buffer, or one that has an edge to replay, has nothing waiting.
RingInv ==
    /\ buf.state = "Recording" => buf.ring = {}
    /\ union.replay # NoEdge /\ ~(pc = "apply" /\ Frozen) => buf.ring = {}
    /\ caching /\ ~(pc = "apply" /\ Frozen) => \A e \in Over, s \in buf.ring : ~Owed(e, s)

\* Only a buffer that flushed its ring starts recording.
LEMMA RecordingIsFlushed ==
    ASSUME NEW b \in Buffer, NEW e \in Edge,
           NEW r \in {ApplySignal(b, e), ApplyReplayedEdge(b, e)}, r.buf.state = "Recording"
    PROVE  r.buf.ring = {} \/ (b.state = "Recording" /\ r.buf.ring = b.ring)
<1>1. ~IsStart(e) => PostRoll(b, e.stop).buf.state # "Recording"
    BY DEF PostRoll, Outcome, Buffer
<1>2. IsStart(e) => Flush(b, e.start).buf.ring = {}
    BY DEF Flush, Outcome
<1>3. Outcome(b, {}, {}).buf = b
    BY DEF Outcome
<1> QED BY <1>1, <1>2, <1>3 DEF ApplySignal, ApplyReplayedEdge

\* A segment the buffer would hold starts after the post-roll of all that is over.
LEMMA HeldIsLate ==
    ASSUME TypeOK, FoldInv, pc # "wait", union.replay = NoEdge, buf.state # "Recording", ~Wanted(buf, cur)
    PROVE  \A e \in Over : ~Owed(e, cur)
<1>1. /\ Post \in Nat /\ cur.start \in Nat /\ buf \in Buffer
      /\ \A e \in Over : e.stop \in Nat
    BY BufferAssumption DEF TypeOK, Over, Event, FoldInv, StopTime, Segment
<1>2. CASE buf.state = "Idle"
    BY <1>1, <1>2 DEF FoldInv, Owed, Ongoing
<1>3. CASE buf.state = "PostBuffer"
    BY <1>1, <1>3 DEF FoldInv, Wanted, Buffer, Owed, Ongoing
<1> QED BY <1>1, <1>2, <1>3 DEF Buffer

\* Everything but folding and sending leaves what is over as it is.
LEMMA OverFrame ==
    ASSUME TypeOK, QueueInv,
           \/ Tick \/ DetectorFlips \/ ForwardHealth \/ StartRun \/ ListFirst \/ ListNext \/ RunEnds
           \/ DrainChannel \/ PushUngated \/ PushFailOpen \/ PushGated \/ UNCHANGED vars
    PROVE  Over' = Over
<1>1. /\ UNCHANGED events
      /\ \/ pc' = pc /\ UNCHANGED <<batch, chan>>
         \/ pc = "wait" /\ pc' = "drain" /\ UNCHANGED <<batch, chan>>
         \/ pc = "drain" /\ pc' = "apply" /\ batch' = chan
         \/ pc = "apply" /\ pc' = "wait" /\ batch = <<>> /\ UNCHANGED <<batch, chan>>
    BY DEF Tick, DetectorFlips, ForwardHealth, StartRun, ListFirst, ListNext, RunEnds, Finish, DrainChannel,
           PushUngated, PushFailOpen, PushGated, PushReady, Resume, sources, call, vars
<1>2. Pending' = Pending
    BY <1>1 DEF Pending, QueueInv
<1>3. union'.open = union.open
    BY DEF Tick, DetectorFlips, ForwardHealth, StartRun, ListFirst, ListNext, RunEnds, DrainChannel,
           PushUngated, PushFailOpen, PushGated, PushReady, motion, vars, StashReplay, TypeOK, Union
<1> QED BY <1>1, <1>2, <1>3 DEF Over

LEMMA NextRing ==
    TypeOK /\ TrackInv /\ TimeInv /\ RegimeInv /\ EventInv /\ QueueInv /\ FoldInv /\ RingInv /\ [Next]_vars => RingInv'
<1> SUFFICES ASSUME TypeOK, TrackInv, TimeInv, RegimeInv, EventInv, QueueInv, FoldInv, RingInv, [Next]_vars
             PROVE  RingInv'
    OBVIOUS
<1>1. ASSUME Over' = Over, UNCHANGED <<union, buf, caching, h>>, pc # "apply", pc' # "apply"
      PROVE  RingInv'
    BY <1>1 DEF RingInv, Frozen
<1>2. CASE Tick \/ DetectorFlips \/ ForwardHealth \/ UNCHANGED vars
    BY <1>2, OverFrame DEF RingInv, Frozen, Tick, DetectorFlips, ForwardHealth, call, motion, worker, vars
<1>3. ASSUME NEW s \in Sources, SourceStart(s) \/ SourceStop(s) PROVE RingInv'
    BY <1>1, <1>3, SourcesLeaveOver DEF SourceStart, SourceStop, call, motion, worker, Visible
<1>4. CASE ListFirst \/ ListNext \/ RunEnds
  <2>1. Over' = Over /\ UNCHANGED <<union, buf, caching>> /\ pc # "apply" /\ pc' # "apply"
      BY <1>4, OverFrame DEF ListFirst, ListNext, RunEnds, Finish, call, motion
  <2> QED BY <2>1 DEF RingInv
<1>5. CASE StartRun
  <2>1. Over' = Over /\ union' = union /\ pc = "wait" /\ pc' = "wait"
      BY <1>5, OverFrame DEF StartRun, call
  <2>2. buf'.ring \subseteq buf.ring /\ (\A s \in buf'.ring : s.dir = DirOf(caching')) /\ buf'.state = buf.state
      BY <1>5, StartIsVerdict DEF StartRun, TypeOK, Buffer
  <2>3. caching' # caching => buf'.ring = {}
    <3>1. caching \in BOOLEAN /\ caching' \in BOOLEAN /\ \A s \in buf'.ring : s.dir = DirOf(caching)
        BY <1>5, <2>2 DEF TrackInv, StartRun, TypeOK
    <3>2. ASSUME NEW s \in buf'.ring PROVE caching' <=> caching
        BY <2>2, <3>1 DEF DirOf
    <3> QED BY <3>1, <3>2
  <2> QED BY <2>1, <2>2, <2>3 DEF RingInv
<1>6. CASE DrainChannel
  <2>1. Over' = Over /\ pc = "drain" /\ pc' = "apply" /\ UNCHANGED <<caching, h>> /\ buf'.ring \subseteq buf.ring
      BY <1>6, OverFrame, FoldIsVerdict DEF DrainChannel, worker
  <2>2. CASE Frozen \/ union.replay = NoEdge
      BY <1>6, <2>1, <2>2 DEF RingInv, Frozen, DrainChannel, motion
  <2>3. CASE ~(Frozen \/ union.replay = NoEdge)
    <3>1. buf.ring = {}
        BY <2>1, <2>3 DEF RingInv
    <3> QED BY <2>1, <3>1 DEF RingInv
  <2> QED BY <2>2, <2>3
<1>7. CASE FoldFrozen
  <2>1. buf' = buf /\ pc' = "apply" /\ Frozen'
      BY <1>7 DEF FoldFrozen, NextSignal, Frozen, worker
  <2> QED BY <2>1 DEF RingInv
<1>8. CASE FoldDriven
  <2> DEFINE sig == Head(batch)
             edge == FoldEdge(union, sig)
  <2>1. /\ pc = "apply" /\ pc' = "apply" /\ UNCHANGED <<caching, h>> /\ ~Frozen
        /\ union.replay = NoEdge /\ buf'.ring \subseteq buf.ring
      BY <1>8, FoldIsVerdict DEF FoldDriven, NextSignal, worker, RegimeInv, ReplayTaken
  <2>2. /\ sig \in Signal /\ buf \in Buffer /\ union \in Union
        /\ edge \in Edge \cup {NoEdge} /\ RawEdge(sig) \in Edge /\ union'.replay = NoEdge
      BY <1>8, <2>1, FoldedUnion, FoldType DEF FoldDriven
  <2>3. buf'.state = "Recording" => buf'.ring = {}
    <3>1. CASE edge # NoEdge
        BY <1>8, <2>2, <3>1, RecordingIsFlushed DEF FoldDriven, Decide, RingInv
    <3>2. CASE edge = NoEdge /\ UnmatchedStop(union, sig) /\ buf.state = "Idle"
        BY <1>8, <2>2, <3>2, RecordingIsFlushed DEF FoldDriven, Decide, RingInv
    <3>3. CASE edge = NoEdge /\ ~(UnmatchedStop(union, sig) /\ buf.state = "Idle")
        BY <1>8, <3>3 DEF FoldDriven, RingInv
    <3> QED BY <3>1, <3>2, <3>3
  <2>4. \A e \in Over' : e \in Over \/ (~IsStart(sig) /\ KeyOf(sig) \in union.open)
      BY <1>8, FoldedOver
  <2>5. union.open # {} => buf'.ring = {}
      BY <2>1 DEF RegimeInv, RegimeAgrees, RingInv
  <2>6. caching => \A e \in Over', s \in buf'.ring : ~Owed(e, s)
      BY <2>1, <2>4, <2>5 DEF RingInv
  <2> QED BY <2>1, <2>2, <2>3, <2>6 DEF RingInv
<1>9. ASSUME PushUngated \/ PushFailOpen \/ PushGated
      PROVE  /\ pc = "apply" /\ pc' = "wait" /\ UNCHANGED <<union, caching>> /\ Over' = Over
             /\ buf \in Buffer /\ cur \in Segment /\ PushSegment(buf, cur).buf \in Buffer
  <2>1. pc = "apply" /\ pc' = "wait" /\ UNCHANGED <<union, caching>> /\ Over' = Over
      BY <1>9, OverFrame DEF PushUngated, PushFailOpen, PushGated, PushReady, Resume
  <2>2. buf \in Buffer /\ cur \in Segment
      BY <2>1 DEF TypeOK
  <2> QED BY <2>1, <2>2, PushSegmentType DEF Typed
<1>10. CASE PushFailOpen
  <2>1. buf'.ring = {}
      BY <1>9, <1>10 DEF PushFailOpen, DrainRing, Buffer
  <2> QED BY <2>1 DEF RingInv
<1>11. CASE PushUngated \/ PushGated
  <2> DEFINE b == PushSegment(buf, cur).buf
  <2>1. ~Frozen /\ union.replay = NoEdge
      BY <1>9, <1>11 DEF PushUngated, PushGated, Gated, Frozen, RegimeInv, ReplayTaken
  <2>2. buf'.state = b.state /\ buf'.ring \subseteq b.ring /\ (PushUngated => ~caching)
      BY <1>9, <1>11 DEF PushUngated, PushGated, DrainRing, Buffer
  <2>3. CASE Wanted(buf, cur)
    <3>1. b = buf
        BY <2>3 DEF PushSegment, Outcome
    <3> QED BY <1>9, <1>11, <2>1, <2>2, <3>1 DEF RingInv
  <2>4. CASE ~Wanted(buf, cur)
    <3>1. b.state = "Idle" /\ b.ring \subseteq buf.ring \cup {cur} /\ buf.state # "Recording"
        BY <2>4 DEF PushSegment, Hold, Outcome, Wanted
    <3>2. \A e \in Over : ~Owed(e, cur)
        BY <1>9, <1>11, <2>1, <2>4, <3>1, HeldIsLate
    <3> HIDE DEF b
    <3>3. caching => \A e \in Over', s \in buf'.ring : ~Owed(e, s)
        BY <1>9, <1>11, <2>1, <2>2, <3>1, <3>2 DEF RingInv
    <3> QED BY <1>9, <1>11, <2>1, <2>2, <3>1, <3>3 DEF RingInv
  <2> QED BY <2>3, <2>4
<1> QED BY <1>2, <1>3, <1>4, <1>5, <1>6, <1>7, <1>8, <1>10, <1>11 DEF Next

\* What an operation that buffers `seg' discards has aged out of the ring.
LEMMA PushDiscards ==
    ASSUME NEW b \in Buffer, NEW seg
    PROVE  \A s \in PushSegment(b, seg).discard :
               ~Wanted(b, seg) /\ s \in b.ring /\ s.start < seg.start - (Pre + Slack)
BY DEF PushSegment, Hold, Aged, Outcome

\* A signal makes the buffer discard only as a START that it was not recording for, and only
\* what ends before the pre-roll.
LEMMA SignalDiscards ==
    ASSUME NEW b \in Buffer, NEW e \in Edge, NEW s
    PROVE  /\ s \in ApplySignal(b, e).discard =>
                  IsStart(e) /\ b.state # "Recording" /\ s \in b.ring /\ ~(s.end > e.start - Pre)
           /\ s \in ApplyReplayedEdge(b, e).discard => IsStart(e) /\ s \in b.ring
<1>1. PostRoll(b, e.stop).discard = {} /\ Outcome(b, {}, {}).discard = {}
    BY DEF PostRoll, Outcome
<1>2. s \in Flush(b, e.start).discard => s \in b.ring /\ ~(s.end > e.start - Pre)
    BY DEF Flush, Outcome
<1> QED BY <1>1, <1>2 DEF ApplySignal, ApplyReplayedEdge

\* Where a new discard comes from: a START that finds nothing open, or a push that finds nothing
\* open and ages the ring.
LEMMA DiscardedAt ==
    ASSUME TypeOK, TrackInv, RegimeInv, QueueInv, RingInv, [Next]_vars,
           NEW s \in discarded', s \notin discarded
    PROVE  /\ s \in buf.ring /\ Gated /\ pc = "apply" /\ union.open = {} /\ UNCHANGED <<events, now>>
           /\ \/ /\ PushGated /\ Pending = <<>> /\ s.start < cur.start - (Pre + Slack)
              \/ /\ Pending # <<>> /\ Pending[1] \in Signal /\ IsStart(Pending[1])
                 /\ ~(s.end > Pending[1].start - Pre)
<1>1. DrainChannel \/ FoldDriven \/ PushGated
    BY DEF Next, Tick, DetectorFlips, ForwardHealth, SourceStart, SourceStop, StartRun, ListFirst, ListNext, RunEnds,
           FoldFrozen, PushUngated, PushFailOpen, fate, vars
<1>2. CASE DrainChannel
  <2>1. /\ ~(Frozen \/ union.replay = NoEdge) /\ s \in ApplyReplayedEdge(buf, union.replay).discard
        /\ pc = "drain"
      BY <1>2 DEF DrainChannel, Decide, fate
  <2>2. buf.ring = {} /\ buf \in Buffer /\ union.replay \in Edge
      BY <2>1 DEF RingInv, TypeOK, Union
  <2> QED BY <2>1, <2>2, SignalDiscards
<1>3. CASE FoldDriven
  <2> DEFINE sig == Head(batch)
             edge == FoldEdge(union, sig)
  <2>1. /\ pc = "apply" /\ batch # <<>> /\ batch \in Seq(Signal) /\ UNCHANGED <<events, now>>
        /\ union.replay = NoEdge /\ buf \in Buffer
      BY <1>3 DEF FoldDriven, NextSignal, sources, RegimeInv, ReplayTaken, TypeOK
  <2>2. sig = Pending[1] /\ Pending # <<>> /\ sig \in Signal /\ RawEdge(sig) \in Edge /\ edge \in Edge \cup {NoEdge}
      BY <2>1, FoldType DEF Pending, TypeOK
  <2>3. CASE edge # NoEdge
    <3>1. Gated /\ s \in ApplySignal(buf, edge).discard
        BY <1>3, <2>3 DEF FoldDriven, Decide
    <3>2. IsStart(edge) /\ buf.state # "Recording" /\ s \in buf.ring /\ ~(s.end > edge.start - Pre)
        BY <2>1, <2>2, <2>3, <3>1, SignalDiscards
    <3>3. union.open = {}
        BY <2>1, <3>2 DEF RegimeInv, RegimeAgrees
    <3>4. IsStart(sig) /\ edge.start = sig.start
        BY <2>3, <3>2, <3>3 DEF FoldEdge
    <3> QED BY <2>1, <2>2, <3>1, <3>2, <3>3, <3>4
  <2>4. CASE edge = NoEdge
    <3>1. UnmatchedStop(union, sig) /\ s \in ApplyReplayedEdge(buf, RawEdge(sig)).discard
        BY <1>3, <2>4 DEF FoldDriven, Decide, fate
    <3>2. ~IsStart(RawEdge(sig))
        BY <3>1 DEF UnmatchedStop, IsStart, RawEdge
    <3> QED BY <2>1, <2>2, <3>1, <3>2, SignalDiscards
  <2> QED BY <2>3, <2>4
<1>4. CASE PushGated
  <2>1. /\ s \in PushSegment(buf, cur).discard /\ Gated /\ pc = "apply" /\ batch = <<>> /\ UNCHANGED <<events, now>>
        /\ buf \in Buffer
      BY <1>4 DEF PushGated, PushReady, sources, TypeOK
  <2>2. ~Wanted(buf, cur) /\ s \in buf.ring /\ s.start < cur.start - (Pre + Slack)
      BY <2>1, PushDiscards
  <2>3. union.open = {} /\ Pending = <<>>
      BY <2>1, <2>2 DEF Wanted, RegimeInv, RegimeAgrees, ReplayTaken, Gated, Frozen, Pending
  <2> QED BY <1>4, <2>1, <2>2, <2>3
<1> QED BY <1>1, <1>2, <1>3, <1>4

\* A segment is discarded only once its pre-roll distance has passed: no event that opens
\* later can want it.
DiscardInv ==
    /\ \A s \in discarded : s.end + Pre <= now
    /\ NoHeardMotionDiscarded

LEMMA NextDiscard ==
    ASSUME SegLen =< Slack + ListLag + 1,
           TypeOK, TrackInv, TimeInv, RegimeInv, EventInv, QueueInv, FoldInv, RingInv, DiscardInv, [Next]_vars
    PROVE  DiscardInv'
<1> USE GateAssumption, BufferAssumption
<1>1. /\ now \in Nat /\ (now' = now \/ now' = now + 1)
      /\ \A s \in discarded \cup buf.ring : s.start \in Nat /\ s.end \in Nat
    BY DEF TypeOK, Buffer, Segment, Next, Tick, DetectorFlips, ForwardHealth, SourceStart, SourceStop, StartRun,
           ListFirst, ListNext, RunEnds, DrainChannel, FoldFrozen, FoldDriven, NextSignal,
           PushUngated, PushFailOpen, PushGated, PushReady, vars
<1>2. ASSUME NEW s \in discarded', s \notin discarded
      PROVE  s.end + Pre <= now /\ \A e \in events : e.heard => ~Owed(e, s)
  <2>1. /\ s \in buf.ring /\ Gated /\ pc = "apply" /\ union.open = {}
        /\ \/ /\ PushGated /\ Pending = <<>> /\ s.start < cur.start - (Pre + Slack)
           \/ /\ Pending # <<>> /\ Pending[1] \in Signal /\ IsStart(Pending[1])
              /\ ~(s.end > Pending[1].start - Pre)
      BY <1>2, DiscardedAt
  <2>2. s.start \in Nat /\ s.end \in Nat /\ \A e \in Over : ~Owed(e, s)
      BY <1>1, <2>1 DEF RingInv, Gated, Frozen
  <2>3. CASE PushGated /\ Pending = <<>> /\ s.start < cur.start - (Pre + Slack)
    <3>1. cur.start \in Nat /\ cur.start + ListLag <= now /\ s.end <= s.start + SegLen
        BY <2>1 DEF TimeInv, TypeOK, Segment, Known
    <3>2. s.end + Pre <= now
      <4>1. \A a, b, c, n \in Int : a <= b + SegLen /\ b < c - (Pre + Slack) /\ c + ListLag <= n => a + Pre <= n
          OBVIOUS
      <4>2. s.start \in Int /\ s.end \in Int /\ cur.start \in Int /\ now \in Int
          BY <1>1, <2>2, <3>1
      <4> QED BY <2>3, <3>1, <4>1, <4>2
    <3>3. \A e \in events : e.heard => e \in Over
        BY <2>1, <2>3 DEF Over
    <3> QED BY <2>2, <3>2, <3>3
  <2>4. CASE Pending # <<>> /\ Pending[1] \in Signal /\ IsStart(Pending[1]) /\ ~(s.end > Pending[1].start - Pre)
    <3>0. Pending \in Seq(Signal)
        BY DEF TypeOK, Pending
    <3>1. Pending[1].start \in Nat /\ 1 \in DOMAIN Pending /\ SentAt(Pending[1]) = Pending[1].start
        BY <2>4, <3>0 DEF Signal, SentAt
    <3>2. Pending[1].start <= now
        BY <3>1 DEF QueueInv
    <3>3. s.end + Pre <= now
        BY <1>1, <2>2, <2>4, <3>1, <3>2
    <3>4. ASSUME NEW e \in events, e.heard, e \notin Over PROVE ~Owed(e, s)
      <4>1. PICK i \in DOMAIN Pending : Pending[i] = StartOf(e)
          BY <2>1, <3>4 DEF Over
      <4>2. SentAt(Pending[i]) = e.start /\ e.start \in Nat
          BY <4>1 DEF SentAt, StartOf, IsStart, TypeOK, Event
      <4>3. Pending[1].start <= e.start
        <5>1. i = 1 \/ 1 < i
            BY <3>0
        <5>2. 1 < i => SentAt(Pending[1]) <= SentAt(Pending[i])
            BY <3>1 DEF QueueInv
        <5> QED BY <3>1, <4>2, <5>1, <5>2
      <4> QED BY <2>2, <2>4, <3>1, <4>2, <4>3 DEF Owed
    <3> QED BY <2>2, <3>3, <3>4
  <2> QED BY <2>1, <2>3, <2>4
<1>3. \A s \in discarded' : s.end + Pre <= now'
    BY <1>1, <1>2, DiscardedAt DEF DiscardInv
<1>4. \A e \in events', s \in discarded' : e.heard => ~Owed(e, s)
  <2>1. ASSUME NEW x \in Sources, SourceStart(x) PROVE \A e \in events', s \in discarded' : e.heard => ~Owed(e, s)
    <3>1. /\ events' = events \cup {[src |-> x, start |-> now, stop |-> Ongoing, heard |-> Accepts]}
          /\ discarded' = discarded
        BY <2>1, StartedEvent DEF SourceStart, fate
    <3>2. \A s \in discarded : ~(s.end > now - Pre) /\ \A e \in events : e.heard => ~Owed(e, s)
        BY <1>1 DEF DiscardInv, NoHeardMotionDiscarded
    <3> QED BY <3>1, <3>2 DEF Owed
  <2>2. ASSUME NEW x \in Sources, SourceStop(x) PROVE \A e \in events', s \in discarded' : e.heard => ~Owed(e, s)
    <3>1. PICK e \in events : e.stop = Ongoing /\ events' = (events \ {e}) \cup {[e EXCEPT !.stop = now]}
        BY <2>2, StoppedEvent
    <3> DEFINE g == [e EXCEPT !.stop = now]
    <3>2. g.start = e.start /\ g.heard = e.heard /\ events' = (events \ {e}) \cup {g}
        BY <3>1 DEF TypeOK, Event
    <3>3. discarded' = discarded
        BY <2>2 DEF SourceStop, fate
    <3>4. \A f \in events, s \in discarded : f.heard => ~Owed(f, s)
        BY DEF DiscardInv, NoHeardMotionDiscarded
    <3>5. \A s : Owed(g, s) => Owed(e, s)
        BY <3>1, <3>2 DEF Owed
    <3> HIDE DEF g
    <3> QED BY <3>1, <3>2, <3>3, <3>4, <3>5
  <2>3. CASE ~(\E x \in Sources : SourceStart(x) \/ SourceStop(x))
    <3>1. events' = events
        BY <2>3 DEF Next, Tick, DetectorFlips, ForwardHealth, StartRun,
           ListFirst, ListNext, RunEnds, DrainChannel, FoldFrozen, FoldDriven, NextSignal,
           PushUngated, PushFailOpen, PushGated, PushReady, sources, vars
    <3> QED BY <1>2, <3>1 DEF DiscardInv, NoHeardMotionDiscarded
  <2> QED BY <2>1, <2>2, <2>3
<1> QED BY <1>3, <1>4 DEF DiscardInv, NoHeardMotionDiscarded, Owed

\* What is not kept: discarded, waiting in the ring of a caching run, or about to be given the
\* buffer's verdict.
HeldBack == discarded \cup (IF caching THEN buf.ring ELSE {})
                      \cup (IF pc # "wait" /\ Gated THEN {cur} ELSE {})

\* A lost START marks its source for as long as the event lasts: the health the recorder reads
\* says so by the next tick. So nothing is held back that ended while the event was open and
\* was listed while it still was.
LostInv ==
    /\ \A e \in events : ~e.heard /\ e.stop = Ongoing =>
          e.src \in lost /\ (e.start < now => ~rec) /\ (pc # "wait" /\ Gated => e.start = now)
    /\ \A e \in events, s \in HeldBack : ~e.heard /\ e.start < s.end =>
          e.stop # Ongoing /\ e.stop <= s.end + ListLag

\* Only a finish call that begins holds anything more back.
LEMMA HeldBackShrinks ==
    ASSUME TypeOK, TrackInv, [Next]_vars, ~((ListNext \/ RunEnds) /\ prev # NoSeg)
    PROVE  HeldBack' \subseteq HeldBack
<1>1. CASE Tick \/ DetectorFlips \/ ForwardHealth \/ (\E s \in Sources : SourceStart(s) \/ SourceStop(s))
           \/ ListFirst \/ ListNext \/ RunEnds \/ UNCHANGED vars
  <2>1. UNCHANGED <<discarded, buf, caching, pc, cur, h>>
      BY <1>1 DEF Tick, DetectorFlips, ForwardHealth, SourceStart, SourceStop, ListFirst, ListNext, RunEnds,
             worker, call, motion, fate, vars
  <2> QED BY <2>1 DEF HeldBack, Gated
<1>2. CASE StartRun
  <2>1. pc = "wait" /\ pc' = "wait" /\ discarded' = discarded /\ caching \in BOOLEAN /\ caching' \in BOOLEAN
      BY <1>2 DEF StartRun, call, TypeOK
  <2>2. buf'.ring \subseteq buf.ring /\ (\A s \in buf'.ring : s.dir = DirOf(caching')) /\ \A s \in buf.ring : s.dir = DirOf(caching)
      BY <1>2, StartIsVerdict DEF TrackInv
  <2>3. ASSUME NEW s \in buf'.ring PROVE caching' <=> caching
      BY <2>1, <2>2 DEF DirOf
  <2> QED BY <2>1, <2>2, <2>3 DEF HeldBack
<1>3. CASE DrainChannel \/ FoldFrozen \/ FoldDriven
  <2>1. UNCHANGED <<caching, cur, h>> /\ pc # "wait" /\ pc' # "wait" /\ Known' = Known /\ buf'.ring \subseteq buf.ring
      BY <1>3, FoldIsVerdict DEF DrainChannel, FoldFrozen, FoldDriven, NextSignal, worker
  <2>2. discarded' \subseteq discarded \cup buf.ring /\ (~caching => discarded' = discarded)
    <3>1. CASE UNCHANGED <<buf, fate>>
        BY <3>1 DEF fate
    <3>2. CASE DrainChannel /\ ~(Frozen \/ union.replay = NoEdge)
      <4>1. union.replay \in Edge /\ buf \in Buffer /\ Decide(ApplyReplayedEdge(buf, union.replay))
          BY <3>2 DEF DrainChannel, TypeOK, Union
      <4> QED BY <4>1, SignalDiscards DEF Decide, Gated
    <3>3. CASE FoldDriven /\ ~UNCHANGED <<buf, fate>>
      <4> DEFINE sig == Head(batch)
                 edge == FoldEdge(union, sig)
      <4>1. edge \in Edge \cup {NoEdge} /\ RawEdge(sig) \in Edge /\ buf \in Buffer
          BY <3>3, FoldedUnion, FoldType
      <4>2. \/ edge \in Edge /\ Decide(ApplySignal(buf, edge))
            \/ Decide(ApplyReplayedEdge(buf, RawEdge(sig)))
          BY <3>3, <4>1 DEF FoldDriven
      <4> QED BY <4>1, <4>2, SignalDiscards DEF Decide, Gated
    <3> QED BY <1>3, <3>1, <3>2, <3>3 DEF DrainChannel, FoldFrozen, motion, fate
  <2> QED BY <2>1, <2>2 DEF HeldBack, Gated
<1>4. CASE PushUngated \/ PushFailOpen \/ PushGated
  <2>1. pc = "apply" /\ pc' = "wait" /\ caching' = caching /\ buf \in Buffer /\ cur \notin buf.ring
      BY <1>4 DEF PushUngated, PushFailOpen, PushGated, PushReady, Resume, TypeOK, TrackInv, Known, Buffer, Segment
  <2>2. CASE PushUngated
      BY <2>1, <2>2 DEF PushUngated, HeldBack, Gated
  <2>3. CASE PushFailOpen
      BY <2>1, <2>3 DEF PushFailOpen, HeldBack, Gated, DrainRing, Buffer
  <2>4. CASE PushGated
    <3> DEFINE r == PushSegment(buf, cur)
    <3>1. Splits(r, buf.ring \cup {cur})
        BY <2>1, PushSplits
    <3>2. discarded' = discarded \cup r.discard /\ Gated /\ (buf' = r.buf \/ buf' = DrainRing(r.buf)) /\ r.buf \in Buffer
        BY <2>1, <2>4, PushSegmentType DEF PushGated, Typed, TypeOK
    <3>3. buf'.ring \subseteq r.buf.ring
        BY <3>2 DEF DrainRing, Buffer
    <3> HIDE DEF r
    <3> QED BY <2>1, <3>1, <3>2, <3>3 DEF Splits, HeldBack, Gated
  <2> QED BY <1>4, <2>2, <2>3, <2>4
<1> QED BY <1>1, <1>2, <1>3, <1>4 DEF Next

LEMMA NextLost ==
    ASSUME TypeOK, TrackInv, TimeInv, EventInv, LostInv, [Next]_vars
    PROVE  LostInv'
<1> USE GateAssumption
<1>0. /\ now \in Nat /\ \A s \in HeldBack : s.end \in Nat /\ s.end <= now
      /\ \A e \in events : e.start \in Nat /\ e.src \in Sources /\ e.stop \in StopTime
  <2>1. \A s \in Known : s.end \in Nat /\ s.end <= now
      BY DEF TimeInv, Known, TypeOK, Segment, Buffer
  <2>2. pc # "wait" => cur.end \in Nat /\ cur.end <= now
      BY DEF TimeInv, TypeOK, Segment
  <2> QED BY <2>1, <2>2 DEF HeldBack, Known, TypeOK, Event
<1>1. ASSUME NEW s \in Sources, SourceStart(s) PROVE LostInv'
  <2> DEFINE e == [src |-> s, start |-> now, stop |-> Ongoing, heard |-> Accepts]
  <2>1. events' = events \cup {e} /\ UNCHANGED <<now, rec, pc, caching, h>>
      BY <1>1, StartedEvent DEF SourceStart, call, worker
  <2>2. e.start = now /\ e.src = s /\ e.heard = Accepts
      OBVIOUS
  <2>3. lost \subseteq lost' /\ (~Accepts => s \in lost')
      BY <1>1 DEF SourceStart, TrySend, IsStart
  <2>4. HeldBack' \subseteq HeldBack
      BY <1>1, HeldBackShrinks DEF SourceStart, call, worker, motion, fate, HeldBack, Gated
  <2> HIDE DEF e
  <2> QED BY <1>0, <2>1, <2>2, <2>3, <2>4 DEF LostInv, Gated
<1>2. ASSUME NEW s \in Sources, SourceStop(s) PROVE LostInv'
  <2>1. PICK e \in events :
           /\ e.src = s /\ e.stop = Ongoing
           /\ events' = (events \ {e}) \cup {[e EXCEPT !.stop = now]}
           /\ \A f \in events \ {e} : f.src = s => f.stop # Ongoing
      BY <1>2, StoppedEvent
  <2> DEFINE g == [e EXCEPT !.stop = now]
  <2>2. g.start = e.start /\ g.heard = e.heard /\ g.stop # Ongoing /\ events' = (events \ {e}) \cup {g}
      BY <1>0, <2>1 DEF TypeOK, Event, Ongoing
  <2>3. lost \ {s} \subseteq lost' /\ UNCHANGED <<now, rec, pc, caching, h>>
      BY <1>2 DEF SourceStop, TrySend, IsStart, call, worker
  <2>4. HeldBack' \subseteq HeldBack
      BY <1>2 DEF SourceStop, call, worker, motion, fate, HeldBack, Gated
  <2> HIDE DEF g
  <2>5. \A f \in events' : ~f.heard /\ f.stop = Ongoing =>
          f.src \in lost' /\ (f.start < now' => ~rec') /\ (pc' # "wait" /\ Gated' => f.start = now')
      BY <2>1, <2>2, <2>3 DEF LostInv, Gated
  <2>6. \A f \in events', x \in HeldBack' : ~f.heard /\ f.start < x.end =>
          f.stop # Ongoing /\ f.stop <= x.end + ListLag
      BY <2>1, <2>2, <2>4 DEF LostInv
  <2> QED BY <2>5, <2>6 DEF LostInv
<1>3. CASE Tick
  <2>1. /\ UNCHANGED <<events, lost, rec, pc>> /\ now' = now + 1 /\ pc = "wait" /\ rec = Trusted
      BY <1>3 DEF Tick, sources, call
  <2>2. HeldBack' = HeldBack
      BY <1>3 DEF Tick, worker, call, motion, fate, HeldBack, Gated
  <2> QED BY <1>0, <2>1, <2>2 DEF LostInv, Trusted
<1>4. CASE ForwardHealth
  <2>1. /\ UNCHANGED <<events, lost, now, pc, caching, h>> /\ rec' = Trusted
      BY <1>4 DEF ForwardHealth, sources, call, worker
  <2>2. HeldBack' = HeldBack
      BY <1>4 DEF ForwardHealth, worker, call, motion, fate, HeldBack, Gated
  <2> QED BY <1>0, <2>1, <2>2 DEF LostInv, Trusted, Gated
<1>5. CASE (ListNext \/ RunEnds) /\ prev # NoSeg
  <2>1. /\ UNCHANGED <<events, lost, now, rec, caching>> /\ h' = rec /\ pc' # "wait" /\ pc = "wait"
      BY <1>5, FinishedTime DEF ListNext, RunEnds, sources
  <2>2. cur'.end \in Nat /\ cur'.end <= now /\ now <= cur'.end + ListLag
      BY <1>5, FinishedTime
  <2>3. /\ HeldBack' \subseteq HeldBack \cup {cur'}
        /\ (pc # "wait" /\ Gated)' => rec
        /\ ~(pc # "wait" /\ Gated)' => HeldBack' \subseteq HeldBack
      BY <1>5, <2>1 DEF ListNext, RunEnds, motion, fate, HeldBack, Gated
  <2>4. \A e \in events : ~e.heard /\ e.stop = Ongoing => (rec => e.start = now) /\ e.start <= now
      BY <1>0, <2>1 DEF LostInv, EventInv
  <2>5. \A e \in events : e.stop # Ongoing => e.stop \in Nat /\ e.stop <= now
      BY <1>0 DEF EventInv, StopTime
  <2>6. ASSUME rec, NEW e \in events, ~e.heard, e.start < cur'.end PROVE e.stop # Ongoing /\ e.stop <= cur'.end + ListLag
      BY <1>0, <2>2, <2>4, <2>5, <2>6
  <2>7. \A e \in events', s \in HeldBack' : ~e.heard /\ e.start < s.end => e.stop # Ongoing /\ e.stop <= s.end + ListLag
      BY <2>1, <2>3, <2>6 DEF LostInv
  <2>8. \A e \in events' : ~e.heard /\ e.stop = Ongoing =>
          e.src \in lost' /\ (e.start < now' => ~rec') /\ ((pc # "wait" /\ Gated)' => e.start = now')
      BY <2>1, <2>3, <2>4 DEF LostInv
  <2> QED BY <2>7, <2>8 DEF LostInv
<1>6. ASSUME UNCHANGED <<events, lost, now, rec>>, HeldBack' \subseteq HeldBack,
             (pc # "wait" /\ Gated)' => pc # "wait" /\ Gated
      PROVE  LostInv'
    BY <1>6 DEF LostInv
<1>7. CASE \/ DetectorFlips \/ StartRun \/ ListFirst \/ (RunEnds /\ prev = NoSeg) \/ DrainChannel \/ FoldFrozen \/ FoldDriven
           \/ PushUngated \/ PushFailOpen \/ PushGated \/ UNCHANGED vars
  <2>1. /\ UNCHANGED <<events, lost, now, rec>>
        /\ pc' = "wait" \/ (UNCHANGED <<caching, h>> /\ (pc' = pc \/ (pc = "drain" /\ pc' = "apply")))
      BY <1>7 DEF DetectorFlips, StartRun, ListFirst, RunEnds, DrainChannel, FoldFrozen, FoldDriven, NextSignal,
             PushUngated, PushFailOpen, PushGated, PushReady, Resume, sources, worker, call, vars
  <2>2. ~((ListNext \/ RunEnds) /\ prev # NoSeg) => HeldBack' \subseteq HeldBack
      BY HeldBackShrinks
  <2>3. CASE (ListNext \/ RunEnds) /\ prev # NoSeg
      BY <1>5, <2>3
  <2> QED BY <1>6, <2>1, <2>2, <2>3 DEF Gated
<1>8. ListNext => prev # NoSeg
    BY DEF ListNext
<1> QED BY <1>1, <1>2, <1>3, <1>4, <1>5, <1>7, <1>8 DEF Next

\* The inductive invariant behind both: the clock, the events and their signals, the buffer and
\* its ring, and what the lost signals leave behind.
GateInv == TimeInv /\ EventInv /\ QueueInv /\ FoldInv /\ RingInv /\ DiscardInv /\ LostInv

LEMMA GateHolds == ASSUME SegLen =< Slack + ListLag + 1 PROVE Spec => []GateInv
<1>1. Init => GateInv
  <2> SUFFICES ASSUME Init PROVE GateInv
      OBVIOUS
  <2> USE GateAssumption
  <2>1. TimeInv /\ EventInv /\ QueueInv
    <3>1. Known = {} /\ Pending = <<>> /\ DOMAIN Pending = {}
        BY DEF Init, Known, EmptyBuffer, Pending
    <3> QED BY <3>1 DEF Init, TimeInv, EventInv, QueueInv, Idle
  <2>2. Over = {} /\ HeldBack = {}
      BY DEF Init, Over, HeldBack
  <2>3. FoldInv /\ RingInv
      BY <2>2 DEF Init, FoldInv, RingInv, EmptyBuffer, EmptyUnion
  <2>4. DiscardInv /\ LostInv
      BY <2>2 DEF Init, DiscardInv, NoHeardMotionDiscarded, LostInv
  <2> QED BY <2>1, <2>3, <2>4 DEF GateInv
<1>2. TypeOK /\ TrackInv /\ RegimeInv /\ GateInv /\ [Next]_vars => GateInv'
  <2> SUFFICES ASSUME TypeOK, TrackInv, RegimeInv, GateInv, [Next]_vars PROVE GateInv'
      OBVIOUS
  <2>1. TimeInv /\ EventInv /\ QueueInv /\ FoldInv /\ RingInv /\ DiscardInv /\ LostInv
      BY DEF GateInv
  <2>2. TimeInv' /\ EventInv' /\ QueueInv' /\ FoldInv' /\ RingInv'
      BY <2>1, NextTime, NextEvents, NextQueue, NextFold, NextRing
  <2>3. DiscardInv' /\ LostInv'
      BY <2>1, NextDiscard, NextLost
  <2> QED BY <2>2, <2>3 DEF GateInv
<1>3. Init => RegimeInv
    BY DEF Init, RegimeInv, RegimeAgrees, ReplayTaken, EmptyUnion, EmptyBuffer
<1> QED BY <1>1, <1>2, <1>3, NextRegime, TypeCorrect, TrackHolds, PTL DEF Spec

\* docs/MOTION-RECORDING.md section 4, RECORDER-CORRECTNESS.md 19, 25 and 26 (recording.rs MotionBuffer,
\* MotionUnion, finish_completed_segment; main.rs MotionTx, forward_motion_health): as long as the ring's
\* slack covers a segment, no segment in the window of an event whose START was accepted is discarded, and
\* none that was finished and listed during an event whose START was lost.
THEOREM ReportedMotionStays == ASSUME SegLen =< Slack + ListLag + 1 PROVE Spec => []ReportedMotionIsKept
<1>1. GateInv => ReportedMotionIsKept
  <2> SUFFICES ASSUME GateInv PROVE ReportedMotionIsKept
      OBVIOUS
  <2>1. discarded \subseteq HeldBack
      BY DEF HeldBack
  <2> QED BY <2>1 DEF GateInv, DiscardInv, LostInv, ReportedMotionIsKept, LostStartFailsOpen
<1> QED BY <1>1, GateHolds, PTL

\* The events a source has closed.
Closed == {e \in events : e.stop # Ongoing}

\* A channel that has room for the signals of all events never loses a START.
RoomInv ==
    /\ IsFiniteSet(events) /\ Cardinality(events) <= MaxEvents
    /\ Len(chan) <= Cardinality(events) + Cardinality(Closed)
    /\ \A e \in events : e.heard

LEMMA NextRoom ==
    ASSUME 2 * MaxEvents =< Cap, TypeOK, EventInv, RoomInv, [Next]_vars
    PROVE  RoomInv'
<1> USE GateAssumption
<1>0. /\ Cap \in Nat /\ MaxEvents \in Nat /\ Len(chan) \in Nat /\ chan \in Seq(Signal)
      /\ IsFiniteSet(Closed) /\ Cardinality(Closed) \in Nat /\ Cardinality(events) \in Nat
      /\ Cardinality(Closed) <= Cardinality(events)
  <2>1. Closed \in SUBSET events
      BY DEF Closed
  <2>2. IsFiniteSet(Closed) /\ Cardinality(Closed) <= Cardinality(events)
      BY <2>1, FS_Subset DEF RoomInv
  <2> QED BY <2>2, FS_CardinalityType DEF RoomInv, TypeOK
<1>1. ASSUME NEW s \in Sources, SourceStart(s) PROVE RoomInv'
  <2> DEFINE e == [src |-> s, start |-> now, stop |-> Ongoing, heard |-> Accepts]
  <2>1. events' = events \cup {e} /\ \A f \in events : f.src = s => f.stop # Ongoing
      BY <1>1, StartedEvent
  <2>2. Cardinality(events) < MaxEvents /\ Len(chan) < Cap
      BY <1>0, <1>1 DEF SourceStart, RoomInv
  <2>3. e.heard /\ e.stop = Ongoing /\ e.src = s
      BY <2>2 DEF Accepts
  <2> HIDE DEF e
  <2>4. e \notin events
      BY <2>1, <2>3
  <2>5. IsFiniteSet(events') /\ Cardinality(events') = Cardinality(events) + 1
      BY <2>1, <2>4, FS_AddElement DEF RoomInv
  <2>6. Closed' = Closed
      BY <2>1, <2>3 DEF Closed
  <2>7. Len(chan') <= Len(chan) + 1
      BY <1>0, <1>1 DEF SourceStart, TrySend
  <2>8. Len(chan') \in Nat
      BY <1>0, <1>1 DEF SourceStart, TrySend
  <2> QED BY <1>0, <2>1, <2>2, <2>3, <2>5, <2>6, <2>7, <2>8 DEF RoomInv
<1>2. ASSUME NEW s \in Sources, SourceStop(s) PROVE RoomInv'
  <2>1. PICK e \in events :
           /\ e.src = s /\ e.stop = Ongoing
           /\ events' = (events \ {e}) \cup {[e EXCEPT !.stop = now]}
      BY <1>2, StoppedEvent
  <2> DEFINE g == [e EXCEPT !.stop = now]
  <2>2. g.src = e.src /\ g.start = e.start /\ g.heard = e.heard /\ g.stop # Ongoing
        /\ events' = (events \ {e}) \cup {g}
      BY <2>1 DEF TypeOK, Event, Ongoing
  <2> HIDE DEF g
  <2>3. g \notin events
      BY <2>1, <2>2 DEF EventInv
  <2>4. IsFiniteSet(events \ {e}) /\ Cardinality(events \ {e}) = Cardinality(events) - 1
      BY FS_RemoveElement DEF RoomInv
  <2>5. IsFiniteSet(events') /\ Cardinality(events') = Cardinality(events)
    <3> DEFINE T == events \ {e}
    <3>1. IsFiniteSet(T) /\ g \notin T /\ events' = T \cup {g}
        BY <2>2, <2>3, <2>4
    <3>2. IsFiniteSet(T \cup {g}) /\ Cardinality(T \cup {g}) = Cardinality(T) + 1
        BY <3>1, FS_AddElement
    <3> QED BY <1>0, <2>4, <3>1, <3>2
  <2>6. Closed' = Closed \cup {g} /\ g \notin Closed
      BY <2>1, <2>2, <2>3 DEF Closed
  <2>7. Cardinality(Closed') = Cardinality(Closed) + 1
      BY <1>0, <2>6, FS_AddElement
  <2>8. Len(chan') <= Len(chan) + 1 /\ Len(chan') \in Nat
      BY <1>0, <1>2 DEF SourceStop, TrySend
  <2>9. \A f \in events' : f.heard
      BY <2>1, <2>2 DEF RoomInv
  <2> QED BY <1>0, <2>5, <2>7, <2>8, <2>9 DEF RoomInv
<1>3. ASSUME events' = events, chan' = chan \/ chan' = <<>> PROVE RoomInv'
  <2>1. Closed' = Closed /\ Len(chan') <= Len(chan)
      BY <1>0, <1>3 DEF Closed
  <2>2. Len(chan') \in Nat
      BY <1>0, <1>3
  <2> QED BY <1>0, <1>3, <2>1, <2>2 DEF RoomInv
<1>4. CASE ~(\E s \in Sources : SourceStart(s) \/ SourceStop(s))
  <2>1. events' = events /\ (chan' = chan \/ chan' = <<>>)
      BY <1>4 DEF Next, Tick, DetectorFlips, ForwardHealth, StartRun,
           ListFirst, ListNext, RunEnds, DrainChannel, FoldFrozen, FoldDriven, NextSignal,
           PushUngated, PushFailOpen, PushGated, PushReady, sources, vars
  <2> QED BY <1>3, <2>1
<1> QED BY <1>1, <1>2, <1>4

\* The same of every event a source reports, when the channel has room for all their signals (main.rs
\* MOTION_CHANNEL_CAPACITY): no motion is discarded, whatever reconnects, freezes and health flips do.
THEOREM NoMotionIsDiscarded ==
    ASSUME SegLen =< Slack + ListLag + 1, 2 * MaxEvents =< Cap
    PROVE  Spec => []NoMotionDiscarded
<1>1. Init => RoomInv
  <2> SUFFICES ASSUME Init PROVE RoomInv
      OBVIOUS
  <2>1. events = {} /\ Closed = {} /\ Len(chan) = 0
      BY DEF Init, Closed
  <2> QED BY <2>1, FS_EmptySet, GateAssumption DEF RoomInv
<1>2. TypeOK /\ GateInv /\ RoomInv /\ [Next]_vars => RoomInv'
    BY NextRoom DEF GateInv
<1>3. GateInv /\ RoomInv => NoMotionDiscarded
    BY DEF GateInv, RoomInv, DiscardInv, NoHeardMotionDiscarded, NoMotionDiscarded
<1> QED BY <1>1, <1>2, <1>3, GateHolds, TypeCorrect, PTL DEF Spec
=============================================================================
