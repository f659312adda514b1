---------------------------- MODULE MotionSources ----------------------------
(* The motion task of one camera (motion.rs, frigate_motion.rs, ha_motion.rs,     *)
(* source_health.rs): one supervised session per enabled source, the health each  *)
(* of them publishes, and the aggregator that turns these into the one flag the   *)
(* recording task gates on.                                                       *)
EXTENDS SourceTrackers

CONSTANTS
    Sensors,    \* the items that are sensors of Home Assistant
    Enabled,    \* the sets of sources an instance may have enabled
    DownGrace,  \* DEFAULT_SOURCE_DOWN_GRACE
    Lag,        \* ticks that a telemetry write may hold the aggregator
    MaxNow,     \* bound: the clock
    MaxFaults   \* bound: broken connections, reloads, panics and silent sessions

Kinds == {"pixel", "frigate", "ha"}

ASSUME SourcesAssumption ==
    /\ Sensors \subseteq Items
    /\ Enabled \subseteq (SUBSET Kinds) \ {{}}
    /\ {DownGrace, Lag, MaxFaults} \subseteq Nat /\ MaxNow \in Nat \ {0}

VARIABLES
    enabled,    \* the sources of this camera
    now,        \* the clock
    served,     \* sources whose janitor has run since the clock moved
    phase,      \* where the task of each source is
    backend,    \* whether camera, broker or Home Assistant answers
    tracker,    \* each source's event state
    last,       \* HaPollSource.last
    watch,      \* the per-source health watches
    heard,      \* the events of each source that START opened and STOP has not closed
    seenUp,     \* aggregate_health: last_healthy
    downSince,  \* aggregate_health: down_since
    health,     \* the camera's health as the recording task reads it
    late,       \* ticks since the aggregator last looked
    faults,     \* faults so far
    stranded,   \* history: events of tasks that panicked
    lastUp      \* history: when each source was last reported healthy

session == <<phase, tracker, last, heard>>
aggregator == <<seenUp, downSince, health, late>>
sources == <<enabled, now, served, session, backend, watch, aggregator, faults, stranded, lastUp>>

Phases == {"ready", "connecting", "up", "degraded", "silent", "exiting", "backoff", "dead", "respawn"}
Live == {"connecting", "up", "degraded", "silent"}

SourcesInit ==
    /\ enabled \in Enabled
    /\ now = 1 /\ served = {} /\ late = 0 /\ faults = 0
    /\ phase = [s \in enabled |-> "ready"]
    /\ backend = [s \in enabled |-> TRUE]
    /\ tracker = [s \in enabled |-> Idle]
    /\ last = NoReading
    /\ watch = [s \in enabled |-> FALSE] /\ seenUp = [s \in enabled |-> FALSE]
    /\ heard = [s \in enabled |-> {}] /\ stranded = [s \in enabled |-> {}]
    /\ downSince = [s \in enabled |-> 1] /\ lastUp = [s \in enabled |-> 1]
    /\ health = FALSE

\* report_health: the watch changes, and with it the time the source was last up.
Publish(s, healthy) ==
    /\ watch' = [watch EXCEPT ![s] = healthy]
    /\ lastUp' = IF healthy \/ watch[s] THEN [lastUp EXCEPT ![s] = now] ELSE lastUp

KeepHealth == UNCHANGED <<watch, lastUp>>

\* The tracker of s becomes t, and what that means is sent. Two events of one source do
\* not begin in the same instant.
Emit(s, t) ==
    /\ Starts(tracker[s], t) => now \notin heard[s]
    /\ tracker' = [tracker EXCEPT ![s] = t]
    /\ heard' = [heard EXCEPT ![s] = (@ \ (IF Stops(tracker[s], t) THEN {tracker[s].open} ELSE {}))
                                     \cup (IF Starts(tracker[s], t) THEN {now} ELSE {})]

Goes(s, p) == phase' = [phase EXCEPT ![s] = p]

Fault == faults < MaxFaults /\ faults' = faults + 1

-----------------------------------------------------------------------------
(* A session of a source.                                                      *)

\* run_one_source calls the loop of the source, which starts pessimistic and with a new
\* tracker. A pixel session may be connected and yet never deliver a frame that counts.
Connect(s) ==
    /\ phase[s] = "ready" /\ Publish(s, FALSE)
    /\ last' = IF s = "ha" THEN NoReading ELSE last
    /\ \/ Goes(s, "connecting") /\ UNCHANGED faults
       \/ s = "pixel" /\ Goes(s, "silent") /\ Fault
    /\ tracker' = [tracker EXCEPT ![s] = Idle]
    /\ UNCHANGED <<enabled, now, served, backend, heard, aggregator, stranded>>

\* The broker grants the subscription, or the pixel detector is past its warm-up.
Granted(s) ==
    /\ s # "ha" /\ phase[s] \in {"connecting", "degraded"} /\ backend[s]
    /\ Goes(s, "up") /\ Publish(s, TRUE)
    /\ UNCHANGED <<enabled, now, served, backend, tracker, last, heard, aggregator, faults, stranded>>

\* An MQTT message about an object.
Message(i, ended) ==
    /\ "frigate" \in enabled /\ phase["frigate"] = "up"
    /\ Emit("frigate", Observe(tracker["frigate"], i, ended, now))
    /\ KeepHealth
    /\ UNCHANGED <<enabled, now, served, phase, backend, last, aggregator, faults, stranded>>

\* A poll of Home Assistant that succeeds: it proves the source healthy, and its edges are
\* folded in.
Folded(t, edges, reading) ==
    LET on == {i \in edges : reading[i] = "on"} IN HaObserve(t, on, edges \ on, now)

Readings == {r \in [Items -> Reading] : \A i \in Items \ Sensors : r[i] = "unavailable"}

Poll(reading) ==
    /\ "ha" \in enabled /\ phase["ha"] \in {"connecting", "up"} /\ backend["ha"]
    /\ Goes("ha", "up") /\ Publish("ha", TRUE)
    /\ last' = Learned(last, reading)
    /\ Emit("ha", Folded(tracker["ha"], Edges(last, reading), reading))
    /\ UNCHANGED <<enabled, now, served, backend, aggregator, faults, stranded>>

\* MOTION_START_FRAMES frames above the floor, or MOTION_STOP_HYSTERESIS below it.
PixelVerdict ==
    /\ "pixel" \in enabled /\ phase["pixel"] = "up"
    /\ LET t == tracker["pixel"] IN
       Emit("pixel", IF t.open = 0 THEN [t EXCEPT !.open = now] ELSE Idle)
    /\ KeepHealth
    /\ UNCHANGED <<enabled, now, served, phase, backend, last, aggregator, faults, stranded>>

\* Duplicates dominate a window of frames: no verdicts until distinct ones return. The
\* event in progress stays open.
Degrade ==
    /\ "pixel" \in enabled /\ phase["pixel"] = "up" /\ Fault
    /\ Goes("pixel", "degraded") /\ Publish("pixel", FALSE)
    /\ UNCHANGED <<enabled, now, served, backend, tracker, last, heard, aggregator, stranded>>

\* The janitor of the Frigate loop, and the tick between two polls. The pixel detector has none.
Janitor(s) ==
    /\ phase[s] \in Live /\ s \notin served
    /\ served' = served \cup {s}
    /\ Emit(s, CASE s = "frigate" -> CameraTick(tracker[s], now)
                 [] s = "ha" -> HaTick(tracker[s], now)
                 [] s = "pixel" -> tracker[s])
    /\ KeepHealth
    /\ UNCHANGED <<enabled, now, phase, backend, last, aggregator, faults, stranded>>

-----------------------------------------------------------------------------
(* How a session ends.                                                         *)

\* Every end of a loop closes the event in progress.
Leave(s, p) == Goes(s, p) /\ Emit(s, ForceStop(tracker[s]))

\* The connection is lost, or a poll fails: the loop ends with an error. Its caller reports
\* that; the pixel loop has none that would.
Lose(s) ==
    /\ phase[s] \in Live /\ ~backend[s]
    /\ IF s = "pixel" THEN Leave(s, "backoff") ELSE Leave(s, "exiting")
    /\ KeepHealth
    /\ UNCHANGED <<enabled, now, served, backend, last, aggregator, faults, stranded>>

\* The frame watchdogs, and the guard against a session without a verdict: they have
\* reported the source unhealthy, or it never was healthy.
Watchdog ==
    /\ "pixel" \in enabled
    /\ phase["pixel"] \in {"silent", "degraded"} \/ (phase["pixel"] \in Live /\ ~backend["pixel"])
    /\ Leave("pixel", "backoff") /\ Publish("pixel", FALSE)
    /\ UNCHANGED <<enabled, now, served, backend, last, aggregator, faults, stranded>>

\* The settings have a new version: the loop ends without an error.
Reload(s) ==
    /\ s # "pixel" /\ phase[s] \in Live /\ Fault
    /\ Leave(s, "exiting") /\ KeepHealth
    /\ UNCHANGED <<enabled, now, served, backend, last, aggregator, stranded>>

\* run_one_source after the loop: unhealthy, then the next attempt.
Report(s) ==
    /\ phase[s] = "exiting" /\ Goes(s, "backoff") /\ Publish(s, FALSE)
    /\ UNCHANGED <<enabled, now, served, backend, tracker, last, heard, aggregator, faults, stranded>>

BackOffOver(s) ==
    /\ phase[s] = "backoff" /\ Goes(s, "ready") /\ KeepHealth
    /\ UNCHANGED <<enabled, now, served, backend, tracker, last, heard, aggregator, faults, stranded>>

\* The task panics: nothing is reported and no event closed.
Panic(s) ==
    /\ phase[s] \in Live /\ Fault /\ Goes(s, "dead")
    /\ stranded' = [stranded EXCEPT ![s] = heard[s]]
    /\ tracker' = [tracker EXCEPT ![s] = Idle]
    /\ KeepHealth
    /\ UNCHANGED <<enabled, now, served, backend, last, heard, aggregator>>

\* Mutant: the death is logged, and the task started again.
NoticeLogsOnly(s) ==
    /\ phase[s] = "dead" /\ Goes(s, "dead") /\ KeepHealth
    /\ UNCHANGED <<enabled, now, served, backend, tracker, last, heard, aggregator, faults, stranded>>

\* The supervision loop of run: force the watch down, pause, and start the source again.
Notice(s) ==
    /\ phase[s] = "dead" /\ Goes(s, "respawn") /\ Publish(s, FALSE)
    /\ UNCHANGED <<enabled, now, served, backend, tracker, last, heard, aggregator, faults, stranded>>

Respawn(s) ==
    /\ phase[s] = "respawn" /\ Goes(s, "ready") /\ KeepHealth
    /\ UNCHANGED <<enabled, now, served, backend, tracker, last, heard, aggregator, faults, stranded>>

-----------------------------------------------------------------------------
(* The aggregator.                                                             *)

\* Mutant: the time of the latest look, not of the transition.
SinceNow(s) == IF watch[s] THEN downSince[s] ELSE now

\* The grace runs from the first look that found the source down.
Since(s) == IF ~watch[s] /\ seenUp[s] THEN now ELSE downSince[s]

\* FailOpenGate::healthy.
Healthy(since) ==
    /\ \E s \in enabled : watch[s]
    /\ \A s \in enabled : watch[s] \/ now - since[s] < DownGrace

Aggregate ==
    /\ downSince' = [s \in enabled |-> Since(s)]
    /\ seenUp' = watch
    /\ health' = Healthy(downSince')
    /\ late' = 0
    /\ UNCHANGED <<enabled, now, served, session, backend, watch, faults, stranded, lastUp>>

-----------------------------------------------------------------------------
(* The world.                                                                  *)

Break(s) ==
    /\ IF backend[s] THEN Fault ELSE UNCHANGED faults
    /\ backend' = [backend EXCEPT ![s] = ~@]
    /\ KeepHealth
    /\ UNCHANGED <<enabled, now, served, session, aggregator, stranded>>

\* A tick stands for seconds: the janitors have run, deaths are noticed and loops that end
\* have said so, and the aggregator has looked unless a telemetry write holds it.
Tick ==
    /\ now < MaxNow /\ now' = now + 1
    /\ \A s \in enabled : /\ phase[s] \in Live => s \in served
                          /\ phase[s] \notin {"exiting", "dead"}
    /\ late <= Lag /\ late' = late + 1
    /\ served' = {}
    /\ lastUp' = [s \in enabled |-> IF watch[s] THEN now' ELSE lastUp[s]]
    /\ UNCHANGED <<enabled, session, backend, watch, seenUp, downSince, health, faults, stranded>>

SourceStep(s) ==
    \/ Connect(s) \/ Granted(s) \/ Janitor(s) \/ Lose(s) \/ Reload(s) \/ Report(s)
    \/ BackOffOver(s) \/ Panic(s) \/ Notice(s) \/ Respawn(s) \/ Break(s)

SourcesNext ==
    \/ \E s \in enabled : SourceStep(s)
    \/ \E i \in Items, ended \in BOOLEAN : Message(i, ended)
    \/ \E reading \in Readings : Poll(reading)
    \/ PixelVerdict \/ Degrade \/ Watchdog
    \/ Aggregate \/ Tick

SourcesSpec == SourcesInit /\ [][SourcesNext]_sources

\* Sessions are driven by their tasks and the aggregator by its ticker; back-offs end. The
\* world owes nothing.
Polled == \E reading \in Readings : Poll(reading)
Recovers(s) == Connect(s) \/ Granted(s) \/ Report(s) \/ BackOffOver(s) \/ Notice(s) \/ Respawn(s) \/ Lose(s)

SourcesFairness ==
    /\ WF_sources(Aggregate) /\ WF_sources(Polled) /\ WF_sources(Watchdog)
    /\ \A s \in Kinds : WF_sources(s \in enabled /\ Recovers(s))

-----------------------------------------------------------------------------
(* Properties.                                                                 *)

SourcesTypeOK ==
    /\ enabled \in Enabled /\ now \in 1..MaxNow /\ served \subseteq enabled
    /\ phase \in [enabled -> Phases] /\ backend \in [enabled -> BOOLEAN]
    /\ tracker \in [enabled -> [open : 0..MaxNow, seen : [Items -> 0..MaxNow], empty : 0..MaxNow]]
    /\ last \in [Items -> {"none", "on", "off"}]
    /\ watch \in [enabled -> BOOLEAN] /\ seenUp \in [enabled -> BOOLEAN]
    /\ heard \in [enabled -> SUBSET (1..MaxNow)] /\ stranded \in [enabled -> SUBSET (1..MaxNow)]
    /\ downSince \in [enabled -> 1..MaxNow] /\ lastUp \in [enabled -> 1..MaxNow]
    /\ health \in BOOLEAN /\ late \in 0..Lag + 1 /\ faults \in 0..MaxFaults

\* What MotionUnion relies on, as it never expires a key: every START is followed by its
\* STOP, whatever ends the session, and only a task that panics leaves an event open.
OpenKeysAreEvents ==
    \A s \in enabled : heard[s] \ stranded[s] = {tracker[s].open} \ {0}

\* OBJECT_TTL: a lost end message cannot hold an event open. Frigate's event is over one
\* tick after the TTL of the last thing heard of any object.
SilentObjectsEnd ==
    "frigate" \in enabled /\ tracker["frigate"].open # 0 =>
        LET t == tracker["frigate"] IN
        now - (IF t.empty # 0 THEN t.empty ELSE Max({t.seen[i] : i \in Items})) <= TTL + 1

\* No event stays open for want of a STOP.
EventsEnd == OpenKeysAreEvents /\ SilentObjectsEnd

\* Item 19: the camera is trusted only while some source was up a moment ago and none has
\* been down for longer than its grace, flaps and panics included; a moment is what a
\* telemetry write may hold the aggregator for.
FailsOpenInTime ==
    health => /\ \E s \in enabled : now - lastUp[s] <= Lag + 1
              /\ \A s \in enabled : now - lastUp[s] <= DownGrace + 2 * (Lag + 1)

\* Once everything answers for good, every source is back and the camera is gated again.
SourcesRecover == <>[](\A s \in enabled : backend[s]) => <>[]health

\* RECORDER-CORRECTNESS.md item 19: a source is reported healthy for no longer than a
\* detector is at work. What the code does within a tick does not count.
NoBlindTrust == [][now' > now => \A s \in enabled : watch[s] => phase[s] \in Live]_sources
=============================================================================
