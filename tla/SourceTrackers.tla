--------------------------- MODULE SourceTrackers ---------------------------
(* The event state a motion source keeps, as operators on records: CameraTracker *)
(* (frigate_motion.rs), HaTracker (ha_motion.rs), the pixel session's Idle and    *)
(* Active (motion.rs), and the edge detection of HaPollSource (common/ha.rs).     *)
(* A tracker that opens an event sends START, one that closes it sends STOP.      *)
EXTENDS Naturals, FiniteSets, FiniteSetsExt

CONSTANTS
    Items,      \* objects Frigate tracks; sensors Home Assistant polls
    TTL,        \* OBJECT_TTL
    StopGrace   \* STOP_GRACE

ASSUME TrackerAssumption == TTL \in Nat /\ StopGrace \in Nat

\* Times are positive; 0 stands for None.
\* open: when the event began. seen: when each active item was last heard of.
\* empty: when the active set last became empty.
Tracker == [open : Nat, seen : [Items -> Nat], empty : Nat]

Idle == [open |-> 0, seen |-> [i \in Items |-> 0], empty |-> 0]

Active(t) == {i \in Items : t.seen[i] # 0}

\* The last item has gone: the grace runs from `since`.
Emptied(t, since) ==
    IF Active(t) = {} /\ t.open # 0 /\ t.empty = 0 THEN [t EXCEPT !.empty = since] ELSE t

Gone(t, i, now) == Emptied([t EXCEPT !.seen[i] = 0], now)

Present(t, i, now) ==
    [t EXCEPT !.seen[i] = now, !.empty = 0,
              !.open = IF Active(t) = {} /\ t.open = 0 THEN now ELSE t.open]

Observe(t, i, ended, now) == IF ended THEN Gone(t, i, now) ELSE Present(t, i, now)

\* The edges of one poll, up and down, in whatever order they are folded in. A sensor is on
\* until it reads as off; since when does not matter.
HaObserve(t, on, off, now) ==
    LET seen == [i \in Items |-> IF i \in on THEN 1 ELSE IF i \in off THEN 0 ELSE t.seen[i]] IN
    IF on # {}
    THEN [t EXCEPT !.seen = seen, !.empty = 0,
                   !.open = IF Active(t) = {} /\ t.open = 0 THEN now ELSE t.open]
    ELSE IF off # {} THEN Emptied([t EXCEPT !.seen = seen], now) ELSE t

\* Mutant: objects whose end was lost stay.
ExpireNever(t, now) == t

\* Objects Frigate has stopped updating are gone since the last update of any of them.
Expire(t, now) ==
    IF Active(t) = {} THEN t
    ELSE Emptied([t EXCEPT !.seen = [i \in Items |->
                     IF t.seen[i] # 0 /\ now - t.seen[i] <= TTL THEN t.seen[i] ELSE 0]],
                 Max({t.seen[i] : i \in Active(t)}))

Settle(t, now) ==
    IF Active(t) = {} /\ t.open # 0 /\ t.empty # 0 /\ now - t.empty >= StopGrace THEN Idle ELSE t

CameraTick(t, now) == Settle(Expire(t, now), now)

HaTick(t, now) == Settle(t, now)

\* Mutant: the loop ends without a word.
LeaveOpen(t) == t

ForceStop(t) == Idle

\* Whether a transition of the tracker sends START, or STOP.
Starts(t, u) == t.open = 0 /\ u.open # 0
Stops(t, u) == t.open # 0 /\ u.open = 0

-----------------------------------------------------------------------------
(* HaPollSource: the states read become edges.                                *)

Reading == {"on", "off", "unavailable"}
NoReading == [i \in Items |-> "none"]

\* The items whose state has changed since it was last known. A first reading is not an
\* edge; an indeterminate one is no reading at all.
Edges(last, reading) ==
    {i \in Items : reading[i] # "unavailable" /\ last[i] # "none" /\ last[i] # reading[i]}

\* Mutant: what cannot be told is remembered too.
LearnedRaw(last, reading) == reading

Learned(last, reading) ==
    [i \in Items |-> IF reading[i] = "unavailable" THEN last[i] ELSE reading[i]]
=============================================================================
