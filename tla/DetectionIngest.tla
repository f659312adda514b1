-------------------------- MODULE DetectionIngest --------------------------
(* How what Frigate, the plate-reading worker and the recorder report becomes rows: *)
(* the provider with its backfill, the channel, the ingester with its plate reads   *)
(* and watchlist alerts, the janitor that closes what nobody ended, and the cursor  *)
(* of the notification engine. The database is shared; channel, provider, ingester  *)
(* and cursor live in the API's memory.                                             *)
EXTENDS Integers, Sequences, FiniteSetsExt

CONSTANTS
    Things,     \* numbers of what is seen, in the order of its start times
    Sightings,  \* who reports it, as functions of Things
    Texts,      \* plate texts, in the order in which reads improve
    Watched,    \* texts on the watchlist, to be notified
    Slots,      \* slots of the channel; a provider waits while they are taken
    PollBatch,  \* ENGINE_BATCH
    MaxMishaps  \* bound: failed calls, settings changed, restarts

\* Frigate of a car or a plate, the worker of a pass, the recorder of motion; or nothing comes.
Reporters == {"car", "plate", "pass", "motion", "none"}

ASSUME DetectionAssumption ==
    /\ Things \subseteq Nat \ {0} /\ \A n \in Things : 1..n \subseteq Things
    /\ Sightings \subseteq [Things -> Reporters]
    /\ Texts \subseteq Nat \ {0} /\ Watched \subseteq Texts
    /\ {Slots, PollBatch} \subseteq Nat \ {0} /\ MaxMishaps \in Nat

VARIABLES
    kind, seen,    \* who reports each; how many have started
    thing,         \* [text, said]: what was read off it, what its reporter has said of it
    session,       \* the provider: "off", "fetching", "sending", "live"
    pending,       \* its backfill, not yet sent
    stray, late,   \* what stopped providers still have to send; one still has to fetch
    channel, work, \* messages; the one the ingester is at, with its next step
    ignored, lpr,  \* texts on the ignore list; capture is on and the engine accepts
    silent,        \* notifications_enabled is off
    events_row,    \* rows of events
    read,          \* rows of plate_reads
    cursor_ts,     \* last_ts of the engine
    mishaps,
    \* history: watchlist alerts, those whose latch was lost, reads whose alert failed,
    \* rows processed as a start
    alarms, unlatched, unfired, heeded

detections == <<kind, seen, thing, session, pending, stray, late, channel, work, ignored, lpr, silent,
                events_row, read, cursor_ts, mishaps, alarms, unlatched, unfired, heeded>>

world == <<kind, seen, thing>>
provider == <<session, pending, stray, late>>
controls == <<ignored, lpr, silent>>
tables == <<events_row, read>>
fired == <<alarms, unlatched, unfired>>
poller == <<cursor_ts, heeded>>

NoText == 0
NoRow == [life |-> "none", end |-> "open", text |-> NoText, fresh |-> FALSE]
NoRead == [text |-> NoText, alerted |-> FALSE]
NoMessage == [of |-> 0, life |-> "none", text |-> NoText, raw |-> FALSE]
Resting == [at |-> "idle", msg |-> NoMessage, barred |-> {}]

DetectionsInit ==
    /\ kind \in Sightings /\ seen = 0
    /\ thing = [o \in Things |-> [text |-> NoText, said |-> {}]]
    /\ session = "fetching" /\ pending = {} /\ stray = {} /\ late = FALSE
    /\ channel = <<>> /\ work = Resting
    /\ ignored \in {{}, Texts \ Watched} /\ lpr = TRUE /\ silent = FALSE
    /\ events_row = [o \in Things |-> NoRow] /\ read = [o \in Things |-> NoRead]
    /\ cursor_ts = 0 /\ mishaps = 0
    /\ alarms = [o \in Things |-> 0] /\ unlatched = alarms /\ unfired = {}
    /\ heeded = {}

Mishap == mishaps < MaxMishaps /\ mishaps' = mishaps + 1

HasRoom == Len(channel) < Slots

FromFrigate(o) == kind[o] \in {"car", "plate"}

Gone(o) == "end" \in thing[o].said

\* "raw": the payload that is stored carries the text.
Message(o, life, text, raw) ==
    [of |-> o, life |-> life, text |-> text, raw |-> raw]

-----------------------------------------------------------------------------
(* What happens in front of the cameras, and who hears of it.                  *)

Appears ==
    /\ seen + 1 \in Things /\ kind[seen + 1] # "none" /\ seen' = seen + 1
    /\ UNCHANGED <<kind, thing, provider, channel, work, controls, tables, poller, mishaps, fired>>

\* The next thing its reporter says of it: "new", the "update" that brings the snapshot, "end".
\* The text is filled in or refined as it goes.
Says(o, life, text) ==
    /\ o <= seen /\ ~Gone(o) /\ life \notin thing[o].said
    /\ life = "start" => thing[o].said = {}
    /\ text >= thing[o].text
    /\ thing' = [thing EXCEPT ![o] = [text |-> text, said |-> @.said \cup {life}]]

\* process_mqtt_payload. A message may be filtered for its score, its camera unmapped, the
\* connection down: with a clean session it is not sent again.
Publishes(o, life, text) ==
    /\ FromFrigate(o) /\ Says(o, life, text)
    /\ \/ session = "live" /\ HasRoom /\ channel' = Append(channel, Message(o, life, text, TRUE))
       \/ UNCHANGED channel
    /\ UNCHANGED <<kind, seen, provider, work, controls, tables, poller, mishaps, fired>>

\* post_lpr_read: nothing is taken from an engine the camera does not use.
Posts(o, text) ==
    /\ kind[o] = "pass" /\ HasRoom /\ text # NoText /\ Says(o, "end", text)
    /\ channel' = IF lpr THEN Append(channel, Message(o, "end", text, TRUE)) ELSE channel
    /\ UNCHANGED <<kind, seen, provider, work, controls, tables, poller, mishaps, fired>>

-----------------------------------------------------------------------------
(* FrigateProvider and its supervisor.                                         *)

\* GET /api/events: what passes the score, with or without its end.
Listing == {Message(o, IF Gone(o) THEN "end" ELSE "update", thing[o].text, FALSE) :
               o \in {o \in 1..seen : FromFrigate(o)}}

Fetches ==
    /\ session = "fetching" /\ session' = "sending"
    /\ pending' \in SUBSET Listing
    /\ UNCHANGED <<world, stray, late, channel, work, controls, tables, poller, mishaps, fired>>

\* A provider looks at its stop signal in the MQTT loop only.
StoppedFetches ==
    /\ late /\ late' = FALSE
    /\ \E more \in SUBSET Listing : stray' = stray \cup more
    /\ UNCHANGED <<world, session, pending, channel, work, controls, tables, poller, mishaps, fired>>

Backfills ==
    /\ HasRoom
    /\ \E m \in pending \cup stray :
          /\ channel' = Append(channel, m)
          /\ \/ pending' = pending \ {m} /\ m \in pending /\ UNCHANGED stray
             \/ stray' = stray \ {m} /\ m \in stray /\ UNCHANGED pending
    /\ UNCHANGED <<world, session, late, work, controls, tables, poller, mishaps, fired>>

Subscribes ==
    /\ session = "sending" /\ pending = {} /\ session' = "live"
    /\ UNCHANGED <<world, pending, stray, late, channel, work, controls, tables, poller, mishaps, fired>>

\* frigate_config_version has moved: the old provider is stopped, wherever it is.
Reconfigures ==
    /\ Mishap /\ session' \in {"fetching", "off"}
    /\ stray' = stray \cup pending /\ pending' = {}
    /\ late' = (late \/ session = "fetching")
    /\ UNCHANGED <<world, channel, work, controls, tables, poller, fired>>

-----------------------------------------------------------------------------
(* detection_ingester::run, message by message.                                *)

GoesOn(at) == work' = [work EXCEPT !.at = at]
Rests == work' = Resting

Begins(m) == work' = [at |-> "write", msg |-> m, barred |-> ignored]

\* A plate event is dropped, an event of something else loses its plate.
Withholds(m) == IF kind[m.of] = "car" THEN Begins([m EXCEPT !.text = NoText]) ELSE Rests

\* Mutant: what could not be checked goes through.
LetsPass(m) == Begins(m)

\* Fail closed: as if it were ignored.
Unchecked(m) == Withholds(m)

\* The ignore list, before anything is written.
Takes ==
    /\ work.at = "idle" /\ channel # <<>> /\ channel' = Tail(channel)
    /\ LET m == Head(channel)
       IN  \/ m.text \notin ignored /\ Begins(m) /\ UNCHANGED mishaps
           \/ m.text \in ignored /\ Withholds(m) /\ UNCHANGED mishaps
           \/ m.text # NoText /\ Mishap /\ Unchecked(m)
    /\ UNCHANGED <<world, provider, controls, tables, poller, fired>>

\* Mutant: the end of the last message, given or not.
LastEnd(old, m) == IF m.life = "end" THEN "real" ELSE "open"

\* end_ts = COALESCE(EXCLUDED.end_ts, events.end_ts)
KeptEnd(old, m) == IF m.life = "end" THEN "real" ELSE old.end

Upserted(old, m) ==
    [life |-> m.life, end |-> KeptEnd(old, m), text |-> IF m.raw THEN m.text ELSE NoText, fresh |-> TRUE]

WritesEvent ==
    /\ work.at = "write"
    /\ LET m == work.msg
       IN  \/ /\ events_row' = [events_row EXCEPT ![m.of] = Upserted(@, m)]
              /\ IF m.text # NoText THEN GoesOn("gate") ELSE Rests
              /\ UNCHANGED mishaps
           \/ Mishap /\ Rests /\ UNCHANGED events_row
    /\ UNCHANGED <<world, provider, channel, controls, read, poller, fired>>

\* maybe_record_plate: settings, engine, and the ignore list once more, failing closed.
Gates ==
    /\ work.at = "gate"
    /\ \/ /\ lpr /\ work.msg.text \notin ignored /\ UNCHANGED mishaps
          /\ work' = [work EXCEPT !.at = "store", !.barred = ignored]
       \/ (~lpr \/ work.msg.text \in ignored) /\ Rests /\ UNCHANGED mishaps
       \/ Mishap /\ Rests
    /\ UNCHANGED <<world, provider, channel, controls, tables, poller, fired>>

\* Mutant: the watchlist is looked at for new rows only.
StoresNew ==
    /\ work.at = "store"
    /\ LET m == work.msg
       IN  \/ /\ read' = [read EXCEPT ![m.of].text = m.text] /\ UNCHANGED mishaps
              /\ IF read[m.of] = NoRead THEN GoesOn("alert") ELSE Rests
           \/ Mishap /\ Rests /\ UNCHANGED read
    /\ UNCHANGED <<world, provider, channel, controls, events_row, poller, fired>>

\* upsert_plate_read. The watchlist is looked at until an alert is latched.
StoresRead ==
    /\ work.at = "store"
    /\ LET m == work.msg
       IN  \/ /\ read' = [read EXCEPT ![m.of].text = m.text] /\ UNCHANGED mishaps
              /\ IF read[m.of].alerted THEN Rests ELSE GoesOn("alert")
           \/ Mishap /\ Rests /\ UNCHANGED read
    /\ UNCHANGED <<world, provider, channel, controls, events_row, poller, fired>>

\* match_watchlist and insert_system_event_full.
Alerts ==
    /\ work.at = "alert"
    /\ LET o == work.msg.of
       IN  \/ work.msg.text \notin Watched /\ Rests /\ UNCHANGED <<fired, mishaps>>
           \/ /\ work.msg.text \in Watched /\ GoesOn("latch")
              /\ alarms' = [alarms EXCEPT ![o] = @ + 1] /\ UNCHANGED <<unlatched, unfired, mishaps>>
           \/ /\ work.msg.text \in Watched /\ Mishap /\ Rests
              /\ unfired' = unfired \cup {o} /\ UNCHANGED <<alarms, unlatched>>
    /\ UNCHANGED <<world, provider, channel, controls, tables, poller>>

\* Mutant: no latch.
LatchesNot == work.at = "latch" /\ Rests
    /\ UNCHANGED <<world, provider, channel, controls, tables, poller, fired, mishaps>>

\* mark_plate_alerted.
Latches ==
    /\ work.at = "latch" /\ Rests
    /\ LET o == work.msg.of
       IN  \/ read' = [read EXCEPT ![o].alerted = TRUE] /\ UNCHANGED <<mishaps, unlatched>>
           \/ Mishap /\ unlatched' = [unlatched EXCEPT ![o] = @ + 1] /\ UNCHANGED read
    /\ UNCHANGED <<world, provider, channel, controls, events_row, poller, alarms, unfired>>

\* upsert_motion_event by the recorder, best effort.
Records(o, life) ==
    /\ kind[o] = "motion" /\ Says(o, life, NoText)
    /\ \/ /\ events_row' = [events_row EXCEPT ![o] = Upserted(@, Message(o, life, NoText, TRUE))]
          /\ UNCHANGED mishaps
       \/ Mishap /\ UNCHANGED events_row
    /\ UNCHANGED <<kind, seen, provider, channel, work, controls, read, poller, fired>>

-----------------------------------------------------------------------------
(* The event janitor.                                                          *)

Open(o) == events_row[o] # NoRow /\ events_row[o].end = "open"

\* STALE_EVENT_CUTOFF_MINS without a message outlast whatever is under way.
GrowsStale ==
    /\ work.at = "idle" /\ channel = <<>> /\ pending \cup stray = {} /\ ~late /\ session # "fetching"
    /\ \E o \in Things : Open(o) /\ events_row[o].fresh
    /\ events_row' = [o \in Things |-> [events_row[o] EXCEPT !.fresh = FALSE]]
    /\ UNCHANGED <<world, provider, channel, work, controls, read, poller, mishaps, fired>>

\* Mutant: only what is still a start is closed.
StaleStart(o) == Open(o) /\ ~events_row[o].fresh /\ events_row[o].life = "start"

Stale(o) == Open(o) /\ ~events_row[o].fresh

\* close_stale_open_events
JanitorCloses ==
    /\ \E o \in Things : Stale(o)
    /\ events_row' = [o \in Things |->
                         IF Stale(o) THEN [events_row[o] EXCEPT !.end = "guess", !.life = "end"]
                         ELSE events_row[o]]
    /\ UNCHANGED <<world, provider, channel, work, controls, read, poller, mishaps, fired>>

-----------------------------------------------------------------------------
(* run_notification_engine, the camera events.                                 *)

Ahead == {o \in Things : events_row[o] # NoRow /\ o > cursor_ts}

\* events_since: the oldest rows past the cursor, whatever their lifecycle.
Polled == {o \in Ahead : Cardinality({p \in Ahead : p <= o}) <= PollBatch}

\* Mutant: the cursor goes to the newest row there is.
LastOfAll == Max(Ahead)

LastPolled == Max(Polled)

\* "Only fire on START lifecycle": of the rest the cursor is all that remembers. With the
\* switch off, or nobody to tell, the rows are consumed.
Polls ==
    /\ Ahead # {}
    /\ heeded' = heeded \cup {o \in Polled : ~silent /\ events_row[o].life = "start"}
    /\ cursor_ts' = LastPolled
    /\ UNCHANGED <<world, provider, channel, work, controls, tables, mishaps, fired>>

-----------------------------------------------------------------------------

\* Ignore list, capture and engine, the master switch, in the admin's hands.
Administers ==
    /\ Mishap
    /\ \/ /\ \E text \in Texts :
                ignored' = IF text \in ignored THEN ignored \ {text} ELSE ignored \cup {text}
          /\ UNCHANGED <<lpr, silent>>
       \/ lpr' = ~lpr /\ UNCHANGED <<ignored, silent>>
       \/ silent' = ~silent /\ UNCHANGED <<ignored, lpr>>
    /\ work' = [work EXCEPT !.barred = @ \cap ignored']
    /\ UNCHANGED <<world, provider, channel, tables, poller, fired>>

\* The API restarts: the engine does not replay, the provider catches up over HTTP.
ApiComesBack ==
    /\ Mishap
    /\ session' = IF session = "off" THEN "off" ELSE "fetching"
    /\ pending' = {} /\ stray' = {} /\ late' = FALSE
    /\ channel' = <<>> /\ Rests
    /\ cursor_ts' = seen /\ UNCHANGED heeded
    /\ unlatched' = IF work.at = "latch" THEN [unlatched EXCEPT ![work.msg.of] = @ + 1] ELSE unlatched
    /\ unfired' = unfired \cup (IF work.at = "alert" THEN {work.msg.of} ELSE {})
    /\ UNCHANGED <<world, controls, tables, alarms>>

IngestStep == Takes \/ WritesEvent \/ Gates \/ StoresRead \/ Alerts \/ Latches
ProviderStep == Fetches \/ StoppedFetches \/ Backfills \/ Subscribes
Reports(o) ==
    \/ \E text \in Texts \cup {NoText} :
          \/ Posts(o, text)
          \/ \E life \in {"start", "update", "end"} : Publishes(o, life, text)
    \/ \E life \in {"start", "end"} : Records(o, life)

ApiTaskStep == ProviderStep \/ IngestStep \/ JanitorCloses \/ Polls

DetectionsNext ==
    \/ Appears \/ (\E o \in Things : Reports(o))
    \/ ApiTaskStep \/ GrowsStale
    \/ Reconfigures \/ Administers \/ ApiComesBack

\* Provider, ingester, janitor and engine are loops of the API, and time passes.
DetectionsFairness ==
    /\ WF_detections(ProviderStep) /\ WF_detections(IngestStep)
    /\ WF_detections(GrowsStale) /\ WF_detections(JanitorCloses) /\ WF_detections(Polls)

DetectionsSpec == DetectionsInit /\ [][DetectionsNext]_detections /\ DetectionsFairness

-----------------------------------------------------------------------------
(* Properties.                                                                 *)

DetectionsTypeOK ==
    /\ kind \in Sightings /\ seen \in Things \cup {0}
    /\ \A o \in Things : thing[o].said # {} => o <= seen
    /\ \A o \in Things : events_row[o].end = "real" => Gone(o)
    /\ \A o \in Things : read[o] # NoRead => events_row[o] # NoRow /\ read[o].text \in Texts
    /\ work.at \in {"idle", "write", "gate", "store", "alert", "latch"} /\ cursor_ts \in 0..seen
    /\ \A o \in Things : unlatched[o] <= alarms[o]

EndRank == [open |-> 0, guess |-> 1, real |-> 2]

\* "A late genuine provider `end` self-heals; a late mid-event `update` keeps the janitor's
\* close": whatever order live messages, the backfills of two providers and the janitor
\* reach a row in, its end only gets better.
EndsOnlyImprove == \A o \in Things : EndRank[events_row'[o].end] >= EndRank[events_row[o].end]

\* A text the ingester's last look at the ignore list found there, and that stayed there, is
\* written neither to the event nor to a plate read, though the look may fail.
IgnoredStaysOut ==
    \A o \in Things :
        /\ events_row'[o].text # events_row[o].text => events_row'[o].text \notin work.barred
        /\ read'[o].text # read[o].text => read'[o].text \notin work.barred

\* The cursor passes no row that is still a start without its being processed, unless nobody
\* is to be told or a new engine sets out from the present.
StartsAreHeeded ==
    \A o \in Ahead :
        events_row[o].life = "start" /\ o <= cursor_ts' => o \in heeded' \/ silent \/ ApiComesBack

DetectionsKeepTheirWord == [][EndsOnlyImprove /\ IgnoredStaysOut /\ StartsAreHeeded]_detections

\* The alert "fires exactly once per read" but for latches that were lost, "AND catches a
\* plate that only becomes the watchlisted value on a later refinement".
AlertsMatchReads ==
    \A o \in Things :
        /\ alarms[o] <= 1 + unlatched[o]
        /\ read[o].text \in Watched /\ ~(work.msg.of = o /\ work.at = "alert")
              => alarms[o] > 0 \/ o \in unfired

\* Again and again every row has its end, and none is left in front of the engine's cursor.
DetectionsConverge == []<>(Ahead = {} /\ \A o \in Things : ~Open(o))
=============================================================================
