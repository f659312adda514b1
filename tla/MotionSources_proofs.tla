-------------------------- MODULE MotionSources_proofs --------------------------
(* A camera whose detectors are gone is trusted for a bounded time only, every event *)
(* that was begun is ended and every outage that lasts is told of, whatever constants. *)
EXTENDS MCMotionTask, WellFoundedInduction, TLAPS

Flags == [enabled -> BOOLEAN]
Times == [enabled -> Nat]

Typed ==
    /\ now \in Nat /\ late \in 0..(Lag + 1) /\ health \in BOOLEAN
    /\ watch \in Flags /\ seenUp \in Flags /\ downSince \in Times /\ lastUp \in Times

\* A source that is up was up now; one the aggregator saw up was so when it looked; the time it
\* has for one it saw down is at most a look after the source was last up.
Sighted(s) ==
    /\ lastUp[s] <= now /\ downSince[s] <= now
    /\ watch[s] => lastUp[s] = now
    /\ seenUp[s] => now - lastUp[s] <= late
    /\ ~seenUp[s] => downSince[s] <= lastUp[s] + Lag + 1

\* What the verdict of the last look is worth by now.
Trusted ==
    health => /\ \E s \in enabled : now - lastUp[s] <= late
              /\ \A s \in enabled : now - lastUp[s] <= DownGrace + Lag + 1 + late

GateInv == Typed /\ (\A s \in enabled : Sighted(s)) /\ Trusted

\* A report makes a source up now, or down as of now.
LEMMA PublishKeepsInv ==
    ASSUME GateInv, NEW s \in enabled, NEW healthy \in BOOLEAN, Publish(s, healthy),
           UNCHANGED <<enabled, now, aggregator>>
    PROVE  GateInv'
<1>1. Typed'
    BY DEF GateInv, Typed, Publish, Flags, Times, aggregator
<1>2. \A t \in enabled : lastUp'[t] = IF t = s /\ (healthy \/ watch[s]) THEN now ELSE lastUp[t]
    BY DEF GateInv, Typed, Publish, Times
<1>3. \A t \in enabled : watch'[t] = IF t = s THEN healthy ELSE watch[t]
    BY DEF GateInv, Typed, Publish, Flags
<1>4. ASSUME NEW t \in enabled PROVE Sighted(t)' /\ lastUp'[t] >= lastUp[t]
    BY <1>2, <1>3, SourcesAssumption DEF GateInv, Typed, Sighted, aggregator, Flags, Times
<1>5. Trusted'
    BY <1>1, <1>4, SourcesAssumption DEF GateInv, Typed, Trusted, aggregator, Times
<1> QED BY <1>1, <1>4, <1>5 DEF GateInv, aggregator

\* A step of a session, of the supervision or of the world reports at most one source.
LEMMA OthersReport ==
    ASSUME GateInv, [SourcesNext]_sources, ~Aggregate, ~Tick
    PROVE  /\ UNCHANGED <<enabled, now, aggregator>>
           /\ \/ KeepHealth
              \/ \E s \in enabled, healthy \in BOOLEAN : Publish(s, healthy)
<1>1. CASE UNCHANGED sources
    BY <1>1 DEF sources, KeepHealth
<1>2. ASSUME NEW s \in enabled, SourceStep(s)
      PROVE  /\ UNCHANGED <<enabled, now, aggregator>>
             /\ KeepHealth \/ \E healthy \in BOOLEAN : Publish(s, healthy)
    BY <1>2 DEF SourceStep, Connect, Granted, Janitor, Lose, Reload, Report, BackOffOver, Panic, Notice,
                Respawn, Break, session
<1>3. CASE \E i \in Items, ended \in BOOLEAN : Message(i, ended)
    BY <1>3 DEF Message
<1>4. CASE \E reading \in Readings : Poll(reading)
    BY <1>4 DEF Poll
<1>5. CASE PixelVerdict \/ Degrade \/ Watchdog
    BY <1>5 DEF PixelVerdict, Degrade, Watchdog
<1> QED BY <1>1, <1>2, <1>3, <1>4, <1>5 DEF SourcesNext

\* A look: the verdict is worth what the sources are now.
LEMMA LookKeepsInv == GateInv /\ Aggregate => GateInv'
<1> SUFFICES ASSUME GateInv, Aggregate PROVE GateInv'
    OBVIOUS
<1>1. /\ UNCHANGED <<enabled, now, watch, lastUp>> /\ late' = 0 /\ seenUp' = watch
      /\ downSince' = [s \in enabled |-> Since(s)] /\ health' = Healthy(downSince')
    BY DEF Aggregate
<1>2. \A s \in enabled : downSince'[s] = IF ~watch[s] /\ seenUp[s] THEN now ELSE downSince[s]
    BY <1>1 DEF Since
<1>3. Typed'
    BY <1>1, <1>2, SourcesAssumption DEF GateInv, Typed, Times, Flags, Healthy, Since
<1>4. ASSUME NEW s \in enabled PROVE Sighted(s)'
    BY <1>1, <1>2, SourcesAssumption DEF GateInv, Typed, Sighted, Flags, Times
<1>5. Trusted'
  <2> SUFFICES ASSUME Healthy(downSince')
               PROVE  /\ \E s \in enabled : now - lastUp[s] <= 0
                      /\ \A s \in enabled : now - lastUp[s] <= DownGrace + Lag + 1
      BY <1>1, SourcesAssumption DEF Trusted, GateInv, Typed, Times
  <2>1. \A s \in enabled : watch[s] => now - lastUp[s] <= 0
      BY DEF GateInv, Typed, Sighted, Times
  <2>2. ASSUME NEW s \in enabled PROVE now - lastUp[s] <= DownGrace + Lag + 1
    <3>1. CASE watch[s]
        BY <2>1, <3>1, SourcesAssumption DEF GateInv, Typed, Times
    <3>2. CASE ~watch[s]
      <4>1. now - downSince'[s] < DownGrace
          BY <3>2 DEF Healthy
      <4>2. downSince'[s] <= lastUp[s] + Lag + 1 /\ downSince'[s] \in Nat
          BY <1>2, <3>2, SourcesAssumption DEF GateInv, Typed, Sighted, Flags, Times
      <4> QED BY <4>1, <4>2, SourcesAssumption DEF GateInv, Typed, Times
    <3> QED BY <3>1, <3>2
  <2> QED BY <2>1, <2>2 DEF Healthy
<1> QED BY <1>1, <1>3, <1>4, <1>5 DEF GateInv

\* The clock moves on, with it the age of the last look.
LEMMA TickKeepsInv == GateInv /\ Tick => GateInv'
<1> SUFFICES ASSUME GateInv, Tick PROVE GateInv'
    OBVIOUS
<1>1. /\ now' = now + 1 /\ late <= Lag /\ late' = late + 1
      /\ UNCHANGED <<enabled, watch, seenUp, downSince, health>>
      /\ lastUp' = [s \in enabled |-> IF watch[s] THEN now' ELSE lastUp[s]]
    BY DEF Tick
<1>2. \A s \in enabled : lastUp'[s] = IF watch[s] THEN now + 1 ELSE lastUp[s]
    BY <1>1
<1>3. Typed'
    BY <1>1, <1>2, SourcesAssumption DEF GateInv, Typed, Times, Flags
<1>4. ASSUME NEW s \in enabled PROVE Sighted(s)' /\ lastUp'[s] >= lastUp[s]
    BY <1>1, <1>2, SourcesAssumption DEF GateInv, Typed, Sighted, Flags, Times
<1>5. Trusted'
    BY <1>1, <1>3, <1>4, SourcesAssumption DEF GateInv, Typed, Trusted, Times
<1> QED BY <1>1, <1>3, <1>4, <1>5 DEF GateInv

LEMMA NextGate == GateInv /\ [SourcesNext]_sources => GateInv'
<1> SUFFICES ASSUME GateInv, [SourcesNext]_sources, ~Aggregate, ~Tick PROVE GateInv'
    BY LookKeepsInv, TickKeepsInv
<1>1. CASE KeepHealth /\ UNCHANGED <<enabled, now, aggregator>>
    BY <1>1 DEF KeepHealth, aggregator, GateInv, Typed, Sighted, Trusted, Flags, Times
<1> QED BY <1>1, OthersReport, PublishKeepsInv

LEMMA InitGate == SourcesInit => GateInv
<1> SUFFICES ASSUME SourcesInit PROVE GateInv
    OBVIOUS
<1>1. /\ now = 1 /\ late = 0 /\ health = FALSE /\ watch = [s \in enabled |-> FALSE]
      /\ seenUp = [s \in enabled |-> FALSE] /\ downSince = [s \in enabled |-> 1]
      /\ lastUp = [s \in enabled |-> 1]
    BY DEF SourcesInit
<1>2. Typed
  <2>0. health \in BOOLEAN
      BY <1>1
  <2>1. now \in Nat /\ late \in 0..(Lag + 1)
      BY <1>1, SourcesAssumption
  <2>2. watch \in Flags /\ seenUp \in Flags
      BY <1>1 DEF Flags
  <2>3. downSince \in Times /\ lastUp \in Times
      BY <1>1 DEF Times
  <2> QED BY <2>0, <2>1, <2>2, <2>3 DEF Typed
<1>3. ASSUME NEW s \in enabled PROVE Sighted(s)
    BY <1>1, SourcesAssumption DEF Sighted
<1> QED BY <1>1, <1>2, <1>3 DEF GateInv, Trusted

\* RECORDER-CORRECTNESS.md item 19 (motion.rs aggregate_health, source_health.rs FailOpenGate): the
\* camera is trusted only while some source was up a moment ago and none has been down for longer
\* than its grace, whatever sessions, panics, flaps and a slow aggregator do.
THEOREM DeadSourcesFailOpen == SourcesSpec => []FailsOpenInTime
<1>1. GateInv => FailsOpenInTime
  <2> SUFFICES ASSUME GateInv, health PROVE FailsOpenInTime
      BY DEF FailsOpenInTime
  <2>1. \A s \in enabled : now - lastUp[s] \in Int
      BY DEF GateInv, Typed, Times
  <2> QED BY <2>1, SourcesAssumption DEF GateInv, Typed, Trusted, FailsOpenInTime
<1> QED BY <1>1, InitGate, NextGate, PTL DEF SourcesSpec

-----------------------------------------------------------------------------
(* Every START gets its STOP.                                                  *)

\* A tracker is a record of three fields.
IsTracker(t) == t = [open |-> t.open, seen |-> t.seen, empty |-> t.empty]

\* What an operation leaves open is nothing, what was open, or an event that begins now.
Follows(t, u) ==
    /\ IsTracker(u)
    /\ u.open = 0 \/ u.open = t.open \/ (t.open = 0 /\ u.open = now)

\* The events heard of and not closed are the open one and those of sessions that panicked;
\* a task outside its session has none open.
Keyed(s) ==
    /\ IsTracker(tracker[s]) /\ tracker[s].open \in Nat
    /\ stranded[s] \subseteq heard[s] /\ 0 \notin heard[s]
    /\ heard[s] \ stranded[s] = {tracker[s].open} \ {0}
    /\ phase[s] \notin Live => tracker[s].open = 0

PerSource(f) == f = [s \in enabled |-> f[s]]

KeysInv ==
    /\ now \in Nat \ {0} /\ enabled \in Enabled
    /\ PerSource(tracker) /\ PerSource(heard) /\ PerSource(stranded) /\ PerSource(phase)
    /\ \A s \in enabled : Keyed(s)

\* The operations of a tracker.
LEMMA IdleFollows == ASSUME NEW t PROVE Follows(t, Idle)
BY DEF Follows, Idle, IsTracker

LEMMA EmptiedFollows ==
    ASSUME NEW t, IsTracker(t), NEW since
    PROVE  IsTracker(Emptied(t, since)) /\ Emptied(t, since).open = t.open
BY DEF Emptied, IsTracker

LEMMA ObserveFollows ==
    ASSUME NEW t, IsTracker(t), NEW i, NEW ended
    PROVE  Follows(t, Observe(t, i, ended, now))
<1>1. Follows(t, Gone(t, i, now))
  <2> DEFINE u == [t EXCEPT !.seen[i] = 0]
  <2>1. IsTracker(u) /\ u.open = t.open
      BY DEF IsTracker
  <2> QED BY <2>1, EmptiedFollows DEF Gone, Follows
<1>2. Follows(t, Present(t, i, now))
  <2> DEFINE o == IF Active(t) = {} /\ t.open = 0 THEN now ELSE t.open
             v == [t EXCEPT !.seen[i] = now]
             w == [v EXCEPT !.empty = 0]
             u == [w EXCEPT !.open = o]
  <2>1. Present(t, i, now) = u
      BY DEF Present
  <2>2. IsTracker(v)
      BY DEF IsTracker
  <2> HIDE DEF o, v
  <2>3. IsTracker(w)
      BY <2>2 DEF IsTracker
  <2> HIDE DEF w
  <2>4. IsTracker(u) /\ u.open = o
      BY <2>3 DEF IsTracker
  <2> QED BY <2>1, <2>4 DEF Follows, o
<1> QED BY <1>1, <1>2 DEF Observe

LEMMA HaObserveFollows ==
    ASSUME NEW t, IsTracker(t), NEW on, NEW off
    PROVE  Follows(t, HaObserve(t, on, off, now))
<1> DEFINE seen == [i \in Items |-> IF i \in on THEN 1 ELSE IF i \in off THEN 0 ELSE t.seen[i]]
           o == IF Active(t) = {} /\ t.open = 0 THEN now ELSE t.open
           u == [t EXCEPT !.seen = seen]
           v == [u EXCEPT !.empty = 0]
           w == [v EXCEPT !.open = o]
<1>1. HaObserve(t, on, off, now) = IF on # {} THEN w ELSE IF off # {} THEN Emptied(u, now) ELSE t
    BY DEF HaObserve
<1> HIDE DEF seen, o
<1>2. IsTracker(u) /\ u.open = t.open
    BY DEF IsTracker
<1> HIDE DEF u
<1>3. IsTracker(v)
    BY <1>2 DEF IsTracker
<1> HIDE DEF v
<1>4. IsTracker(w) /\ w.open = o
    BY <1>3 DEF IsTracker
<1> QED BY <1>1, <1>2, <1>4, EmptiedFollows DEF Follows, o

LEMMA CameraTickFollows ==
    ASSUME NEW t, IsTracker(t)
    PROVE  Follows(t, CameraTick(t, now))
<1>1. IsTracker(Expire(t, now)) /\ Expire(t, now).open = t.open
  <2> DEFINE u == [t EXCEPT !.seen = [i \in Items |->
                     IF t.seen[i] # 0 /\ now - t.seen[i] <= TTL THEN t.seen[i] ELSE 0]]
  <2>1. IsTracker(u) /\ u.open = t.open
      BY DEF IsTracker
  <2>2. Expire(t, now) = IF Active(t) = {} THEN t ELSE Emptied(u, Max({t.seen[i] : i \in Active(t)}))
      BY DEF Expire
  <2> HIDE DEF u
  <2> QED BY <2>1, <2>2, EmptiedFollows
<1> QED BY <1>1, IdleFollows DEF CameraTick, Settle, Follows

\* A tracker's transition and what it sends agree.
LEMMA EmitKeepsKeys ==
    ASSUME KeysInv, NEW s \in enabled, NEW t, Follows(tracker[s], t), Emit(s, t),
           UNCHANGED <<enabled, now, stranded>>,
           \A r \in enabled \ {s} : phase'[r] = phase[r], PerSource(phase)',
           phase'[s] \in Live \/ t.open = 0
    PROVE  KeysInv'
<1>1. /\ tracker' = [tracker EXCEPT ![s] = t]
      /\ heard' = [heard EXCEPT ![s] = (@ \ (IF Stops(tracker[s], t) THEN {tracker[s].open} ELSE {}))
                                       \cup (IF Starts(tracker[s], t) THEN {now} ELSE {})]
      /\ Starts(tracker[s], t) => now \notin heard[s]
    BY DEF Emit
<1>2. PerSource(tracker)' /\ PerSource(heard)' /\ PerSource(stranded)'
    BY <1>1 DEF KeysInv, PerSource
<1>3. tracker'[s] = t /\ \A r \in enabled \ {s} : tracker'[r] = tracker[r] /\ heard'[r] = heard[r]
    BY <1>1 DEF KeysInv, PerSource
<1>4. heard'[s] = (heard[s] \ (IF Stops(tracker[s], t) THEN {tracker[s].open} ELSE {}))
                  \cup (IF Starts(tracker[s], t) THEN {now} ELSE {})
    BY <1>1 DEF KeysInv, PerSource
<1>5. Keyed(s)'
  <2>1. /\ IsTracker(tracker[s]) /\ tracker[s].open \in Nat /\ now \in Nat \ {0}
        /\ stranded[s] \subseteq heard[s] /\ 0 \notin heard[s]
        /\ heard[s] \ stranded[s] = {tracker[s].open} \ {0}
      BY DEF KeysInv, Keyed
  <2>2. CASE Starts(tracker[s], t)
      BY <1>1, <1>3, <1>4, <2>1, <2>2 DEF Keyed, Follows, Starts, Stops, IsTracker
  <2>3. CASE Stops(tracker[s], t)
      BY <1>3, <1>4, <2>1, <2>3 DEF Keyed, Follows, Starts, Stops, IsTracker
  <2>4. CASE ~Starts(tracker[s], t) /\ ~Stops(tracker[s], t)
      BY <1>3, <1>4, <2>1, <2>4 DEF Keyed, Follows, Starts, Stops, IsTracker
  <2> QED BY <2>2, <2>3, <2>4
<1>6. ASSUME NEW r \in enabled \ {s} PROVE Keyed(r)'
    BY <1>3 DEF KeysInv, Keyed, IsTracker
<1> QED BY <1>2, <1>5, <1>6 DEF KeysInv

\* A step that sends nothing and moves no task out of its session.
LEMMA SilentKeepsKeys ==
    ASSUME KeysInv, UNCHANGED <<enabled, tracker, heard, stranded>>, now' \in Nat \ {0},
           PerSource(phase)', \A s \in enabled : phase'[s] \in Live \/ phase[s] \notin Live
    PROVE  KeysInv'
BY DEF KeysInv, PerSource, Keyed, IsTracker

\* The steps of the task of one source.
LEMMA TaskKeepsKeys ==
    ASSUME KeysInv, NEW s \in enabled, s \in Kinds, SourceStep(s)
    PROVE  KeysInv'
<1>1. \A p : Goes(s, p) => /\ PerSource(phase)' /\ phase'[s] = p
                          /\ \A r \in enabled \ {s} : phase'[r] = phase[r]
  <2> SUFFICES ASSUME NEW p, Goes(s, p)
               PROVE  /\ PerSource(phase)' /\ phase'[s] = p
                      /\ \A r \in enabled \ {s} : phase'[r] = phase[r]
      OBVIOUS
  <2>1. UNCHANGED enabled /\ phase' = [phase EXCEPT ![s] = p]
      BY DEF Goes, SourceStep, Connect, Granted, Janitor, Lose, Reload, Report, BackOffOver, Panic, Notice,
             Respawn, Break
  <2> QED BY <2>1 DEF KeysInv, PerSource
<1>2. IsTracker(tracker[s]) /\ Keyed(s) /\ PerSource(tracker)
    BY DEF KeysInv, Keyed
<1>3. CASE Connect(s)
  <2>1. phase[s] = "ready" /\ \E p \in {"connecting", "silent"} : Goes(s, p)
      BY <1>3 DEF Connect
  <2>2. tracker[s].open = 0 /\ heard[s] \ stranded[s] = {}
      BY <1>2, <2>1 DEF Keyed, Live
  <2>3. UNCHANGED <<enabled, now, heard, stranded>> /\ tracker' = [tracker EXCEPT ![s] = Idle]
      BY <1>3 DEF Connect
  <2>4. PerSource(tracker)' /\ tracker'[s] = Idle /\ \A r \in enabled \ {s} : tracker'[r] = tracker[r]
      BY <1>2, <2>3 DEF PerSource
  <2>5. IsTracker(Idle) /\ Idle.open = 0
      BY DEF IsTracker, Idle
  <2>6. Keyed(s)'
      BY <1>2, <2>2, <2>3, <2>4, <2>5 DEF Keyed, IsTracker
  <2>7. ASSUME NEW r \in enabled \ {s} PROVE Keyed(r)'
      BY <1>1, <2>1, <2>3, <2>4 DEF KeysInv, Keyed, IsTracker
  <2> QED BY <1>1, <2>1, <2>3, <2>4, <2>6, <2>7 DEF KeysInv, PerSource
<1>4. CASE Janitor(s)
  <2> DEFINE t == CASE s = "frigate" -> CameraTick(tracker[s], now)
                    [] s = "ha" -> HaTick(tracker[s], now)
                    [] s = "pixel" -> tracker[s]
  <2>1. Follows(tracker[s], t)
    <3>1. CASE s = "frigate"
        BY <1>2, <3>1, CameraTickFollows
    <3>2. CASE s = "pixel"
        BY <1>2, <3>2 DEF Follows
    <3>3. CASE s = "ha"
        BY <1>2, <3>3, IdleFollows DEF Follows, HaTick, Settle
    <3> QED BY <3>1, <3>2, <3>3 DEF Kinds
  <2>2. Emit(s, t) /\ UNCHANGED <<enabled, now, stranded, phase>> /\ phase[s] \in Live
      BY <1>4 DEF Janitor
  <2> HIDE DEF t
  <2> QED BY <2>1, <2>2, EmitKeepsKeys DEF KeysInv, PerSource
<1>5. CASE Lose(s) \/ Reload(s)
  <2>1. PICK p : Goes(s, p) /\ Emit(s, Idle)
      BY <1>5 DEF Lose, Reload, Leave, ForceStop
  <2>2. UNCHANGED <<enabled, now, stranded>>
      BY <1>5 DEF Lose, Reload
  <2>3. Follows(tracker[s], Idle) /\ Idle.open = 0
      BY IdleFollows DEF Idle
  <2> QED BY <1>1, <2>1, <2>2, <2>3, EmitKeepsKeys
<1>6. CASE Granted(s) \/ Report(s) \/ BackOffOver(s) \/ Notice(s) \/ Respawn(s)
  <2>1. UNCHANGED <<enabled, now, tracker, heard, stranded>>
      BY <1>6 DEF Granted, Report, BackOffOver, Notice, Respawn
  <2>2. PICK p : Goes(s, p) /\ (p \in Live \/ phase[s] \notin Live)
      BY <1>6 DEF Granted, Report, BackOffOver, Notice, Respawn, Live
  <2> QED BY <1>1, <2>1, <2>2, SilentKeepsKeys DEF KeysInv
<1>7. CASE Break(s)
  <2>1. UNCHANGED <<enabled, now, tracker, heard, stranded, phase>>
      BY <1>7 DEF Break, session
  <2> QED BY <2>1, SilentKeepsKeys DEF KeysInv, PerSource
<1>8. CASE Panic(s)
  <2>1. /\ Goes(s, "dead") /\ UNCHANGED <<enabled, now, heard>>
        /\ tracker' = [tracker EXCEPT ![s] = Idle] /\ stranded' = [stranded EXCEPT ![s] = heard[s]]
      BY <1>8 DEF Panic
  <2>2. /\ PerSource(tracker)' /\ tracker'[s] = Idle /\ PerSource(stranded)' /\ stranded'[s] = heard[s]
        /\ \A r \in enabled \ {s} : tracker'[r] = tracker[r] /\ stranded'[r] = stranded[r]
      BY <2>1 DEF PerSource, KeysInv
  <2>3. IsTracker(Idle) /\ Idle.open = 0
      BY DEF IsTracker, Idle
  <2>4. Keyed(s)'
      BY <1>2, <2>1, <2>2, <2>3 DEF Keyed, IsTracker
  <2>5. ASSUME NEW r \in enabled \ {s} PROVE Keyed(r)'
      BY <1>1, <2>1, <2>2 DEF KeysInv, Keyed, IsTracker
  <2> QED BY <1>1, <2>1, <2>2, <2>4, <2>5 DEF KeysInv, PerSource
<1> QED BY <1>3, <1>4, <1>5, <1>6, <1>7, <1>8 DEF SourceStep

LEMMA NextKeys ==
    ASSUME KeysInv, [SourcesNext]_sources
    PROVE  KeysInv'
<1>0. enabled \subseteq Kinds
    BY SourcesAssumption DEF KeysInv
<1>1. CASE UNCHANGED sources
    BY <1>1, SilentKeepsKeys DEF sources, session, KeysInv, PerSource
<1>2. ASSUME NEW s \in enabled, SourceStep(s) PROVE KeysInv'
    BY <1>0, <1>2, TaskKeepsKeys
<1>3. ASSUME NEW i \in Items, NEW ended \in BOOLEAN, Message(i, ended) PROVE KeysInv'
  <2>1. /\ "frigate" \in enabled /\ phase["frigate"] = "up" /\ UNCHANGED <<enabled, now, stranded, phase>>
        /\ Emit("frigate", Observe(tracker["frigate"], i, ended, now))
      BY <1>3 DEF Message
  <2>2. Follows(tracker["frigate"], Observe(tracker["frigate"], i, ended, now))
      BY <2>1, ObserveFollows DEF KeysInv, Keyed
  <2>3. phase'["frigate"] \in Live
      BY <2>1 DEF Live
  <2> QED BY <2>1, <2>2, <2>3, EmitKeepsKeys DEF KeysInv, PerSource
<1>4. CASE PixelVerdict
  <2> DEFINE t == tracker["pixel"]
             u == IF t.open = 0 THEN [t EXCEPT !.open = now] ELSE Idle
  <2>1. /\ "pixel" \in enabled /\ phase["pixel"] = "up" /\ UNCHANGED <<enabled, now, stranded, phase>>
        /\ Emit("pixel", u)
      BY <1>4 DEF PixelVerdict
  <2>2. IsTracker(t)
      BY <2>1 DEF KeysInv, Keyed
  <2>3. t.open = 0 => IsTracker([t EXCEPT !.open = now]) /\ [t EXCEPT !.open = now].open = now
      BY <2>2 DEF IsTracker
  <2>4. Follows(t, u)
      BY <2>2, <2>3, IdleFollows DEF Follows
  <2>5. phase'["pixel"] \in Live
      BY <2>1 DEF Live
  <2> HIDE DEF u
  <2> QED BY <2>1, <2>4, <2>5, EmitKeepsKeys DEF KeysInv, PerSource
<1>5. CASE Degrade
  <2>1. /\ UNCHANGED <<enabled, now, tracker, heard, stranded>>
        /\ phase' = [phase EXCEPT !["pixel"] = "degraded"]
      BY <1>5 DEF Degrade, Goes
  <2> QED BY <2>1, SilentKeepsKeys DEF KeysInv, PerSource, Live
<1>6. CASE Watchdog
  <2>1. /\ "pixel" \in enabled /\ phase' = [phase EXCEPT !["pixel"] = "backoff"] /\ Emit("pixel", Idle)
        /\ UNCHANGED <<enabled, now, stranded>>
      BY <1>6 DEF Watchdog, Leave, Goes, ForceStop
  <2>2. Follows(tracker["pixel"], Idle) /\ Idle.open = 0
      BY IdleFollows DEF Idle
  <2>3. PerSource(phase)' /\ \A r \in enabled \ {"pixel"} : phase'[r] = phase[r]
      BY <2>1 DEF KeysInv, PerSource
  <2> QED BY <2>1, <2>2, <2>3, EmitKeepsKeys
<1>7. CASE Aggregate \/ Tick
  <2>1. UNCHANGED <<enabled, tracker, heard, stranded, phase>> /\ now' \in {now, now + 1}
      BY <1>7 DEF Aggregate, Tick, session
  <2> QED BY <2>1, SilentKeepsKeys DEF KeysInv, PerSource
<1>8. ASSUME NEW reading \in Readings, Poll(reading) PROVE KeysInv'
  <2> DEFINE t == Folded(tracker["ha"], Edges(last, reading), reading)
  <2>1. /\ "ha" \in enabled /\ phase' = [phase EXCEPT !["ha"] = "up"] /\ Emit("ha", t)
        /\ UNCHANGED <<enabled, now, stranded>>
      BY <1>8 DEF Poll, Goes
  <2>2. Follows(tracker["ha"], t)
      BY <2>1, HaObserveFollows DEF KeysInv, Keyed, Folded
  <2>3. PerSource(phase)' /\ phase'["ha"] \in Live /\ \A r \in enabled \ {"ha"} : phase'[r] = phase[r]
      BY <2>1 DEF KeysInv, PerSource, Live
  <2> HIDE DEF t
  <2> QED BY <2>1, <2>2, <2>3, EmitKeepsKeys
<1> QED BY <1>1, <1>2, <1>3, <1>4, <1>5, <1>6, <1>7, <1>8 DEF SourcesNext

LEMMA InitKeys == SourcesInit => KeysInv
BY DEF SourcesInit, KeysInv, PerSource, Keyed, IsTracker, Idle

\* What MotionUnion relies on (motion.rs, frigate_motion.rs and ha_motion.rs, every end of a
\* session): every START is followed by its STOP, and only a task that panics leaves an event open.
THEOREM EventsAreClosed == SourcesSpec => []OpenKeysAreEvents
<1>1. KeysInv => OpenKeysAreEvents
    BY DEF KeysInv, Keyed, OpenKeysAreEvents
<1>2. KeysInv /\ [SourcesNext]_sources => KeysInv'
    BY NextKeys
<1> QED BY <1>1, <1>2, InitKeys, PTL DEF SourcesSpec

-----------------------------------------------------------------------------
(* Types, and the events of objects nobody hears of any more.                  *)

Moments == 0..MaxNow
TrackerType == [open : Moments, seen : [Items -> Moments], empty : Moments]

\* A bounded set of numbers has a greatest one.
LEMMA MaxIsGreatest ==
    ASSUME NEW b \in Nat, NEW S, S \subseteq 0..b, S # {}
    PROVE  Max(S) \in S /\ \A y \in S : y <= Max(S)
<1> DEFINE D == {b - x : x \in S}
<1>0. \A x \in S : b - x \in Nat
    OBVIOUS
<1>1. D \subseteq Nat /\ D # {}
    BY <1>0
<1> HIDE DEF D
<1>2. PICK d \in D : \A e \in D : ~(<<e, d>> \in OpToRel(<, Nat))
    BY <1>1, NatLessThanWellFounded, WFMin
<1>3. \A e \in D : ~(e < d)
    BY <1>1, <1>2 DEF OpToRel
<1> USE DEF D
<1>4. PICK x \in S : d = b - x
    OBVIOUS
<1>5. \A y \in S : x >= y
    BY <1>3, <1>4
<1> QED BY <1>4, <1>5 DEF Max

LEMMA IdleTyped == Idle \in TrackerType
<1>1. 0 \in Moments
    BY SourcesAssumption DEF Moments
<1> QED BY <1>1 DEF Idle, TrackerType

LEMMA EmptiedTyped ==
    ASSUME NEW t \in TrackerType, NEW since \in Moments
    PROVE  /\ Emptied(t, since) \in TrackerType /\ Emptied(t, since).seen = t.seen
           /\ Emptied(t, since).empty = IF Active(t) = {} /\ t.open # 0 /\ t.empty = 0 THEN since ELSE t.empty
<1> DEFINE u == [t EXCEPT !.empty = since]
<1>1. u \in TrackerType /\ u.seen = t.seen /\ u.empty = since
    BY DEF TrackerType
<1> HIDE DEF u
<1>2. Emptied(t, since) = IF Active(t) = {} /\ t.open # 0 /\ t.empty = 0 THEN u ELSE t
    BY DEF Emptied, u
<1> QED BY <1>1, <1>2

LEMMA SettleTyped ==
    ASSUME NEW t \in TrackerType, NEW m
    PROVE  Settle(t, m) \in TrackerType
BY IdleTyped DEF Settle

LEMMA GoneIs ==
    ASSUME NEW t \in TrackerType, NEW i \in Items, now \in 1..MaxNow
    PROVE  LET u == [t EXCEPT !.seen[i] = 0] IN
           /\ u \in TrackerType /\ u.open = t.open /\ u.empty = t.empty
           /\ u.seen = [t.seen EXCEPT ![i] = 0]
           /\ Gone(t, i, now) = Emptied(u, now) /\ Gone(t, i, now) \in TrackerType
<1> DEFINE u == [t EXCEPT !.seen[i] = 0]
<1>1. 0 \in Moments /\ now \in Moments
    BY SourcesAssumption DEF Moments
<1>2. u \in TrackerType /\ u.open = t.open /\ u.empty = t.empty /\ u.seen = [t.seen EXCEPT ![i] = 0]
    BY <1>1 DEF TrackerType
<1>3. Gone(t, i, now) = Emptied(u, now)
    BY DEF Gone
<1> HIDE DEF u
<1>4. Emptied(u, now) \in TrackerType
    BY <1>1, <1>2, EmptiedTyped
<1> QED BY <1>2, <1>3, <1>4 DEF u

LEMMA PresentIs ==
    ASSUME NEW t \in TrackerType, NEW i \in Items, now \in 1..MaxNow
    PROVE  /\ Present(t, i, now) \in TrackerType
           /\ Present(t, i, now).open = IF Active(t) = {} /\ t.open = 0 THEN now ELSE t.open
           /\ Present(t, i, now).seen = [t.seen EXCEPT ![i] = now]
           /\ Present(t, i, now).empty = 0
<1> DEFINE o == IF Active(t) = {} /\ t.open = 0 THEN now ELSE t.open
           e == [t.seen EXCEPT ![i] = now]
<1>1. 0 \in Moments /\ now \in Moments /\ o \in Moments
    BY SourcesAssumption DEF Moments, TrackerType
<1>2. e \in [Items -> Moments]
    BY <1>1 DEF TrackerType
<1>3. Present(t, i, now) = [open |-> o, seen |-> e, empty |-> 0]
  <2> DEFINE v == [t EXCEPT !.seen[i] = now]
             w == [v EXCEPT !.empty = 0]
  <2>1. v = [open |-> t.open, seen |-> e, empty |-> t.empty]
      BY DEF TrackerType
  <2>2. Present(t, i, now) = [w EXCEPT !.open = o]
      BY DEF Present
  <2> HIDE DEF v, o, e
  <2>3. w = [open |-> t.open, seen |-> e, empty |-> 0]
      BY <2>1
  <2> HIDE DEF w
  <2> QED BY <2>2, <2>3
<1> HIDE DEF o, e
<1>4. [open |-> o, seen |-> e, empty |-> 0] \in TrackerType
    BY <1>1, <1>2 DEF TrackerType
<1> QED BY <1>3, <1>4 DEF o, e

LEMMA HaObserveTyped ==
    ASSUME NEW t \in TrackerType, NEW on, NEW off, now \in 1..MaxNow
    PROVE  HaObserve(t, on, off, now) \in TrackerType
<1> DEFINE seen == [i \in Items |-> IF i \in on THEN 1 ELSE IF i \in off THEN 0 ELSE t.seen[i]]
           o == IF Active(t) = {} /\ t.open = 0 THEN now ELSE t.open
           u == [open |-> t.open, seen |-> seen, empty |-> t.empty]
<1>1. 0 \in Moments /\ 1 \in Moments /\ now \in Moments /\ o \in Moments
    BY SourcesAssumption DEF Moments, TrackerType
<1>2. seen \in [Items -> Moments]
    BY <1>1 DEF TrackerType
<1>3. HaObserve(t, on, off, now) = IF on # {} THEN [open |-> o, seen |-> seen, empty |-> 0]
                                  ELSE IF off # {} THEN Emptied(u, now) ELSE t
  <2> DEFINE v == [t EXCEPT !.seen = seen]
             w == [v EXCEPT !.empty = 0]
  <2>1. HaObserve(t, on, off, now) = IF on # {} THEN [w EXCEPT !.open = o]
                                     ELSE IF off # {} THEN Emptied(v, now) ELSE t
      BY DEF HaObserve
  <2> HIDE DEF seen, o
  <2>2. v = u
      BY DEF TrackerType
  <2> HIDE DEF v
  <2>3. w = [open |-> t.open, seen |-> seen, empty |-> 0]
      BY <2>2
  <2> HIDE DEF w
  <2> QED BY <2>1, <2>2, <2>3
<1> HIDE DEF o, seen
<1>4. u \in TrackerType /\ [open |-> o, seen |-> seen, empty |-> 0] \in TrackerType
    BY <1>1, <1>2 DEF TrackerType
<1> HIDE DEF u
<1> QED BY <1>1, <1>3, <1>4, EmptiedTyped

LEMMA ExpireIs ==
    ASSUME NEW t \in TrackerType, now \in 1..MaxNow, Active(t) # {}
    PROVE  LET kept == [i \in Items |-> IF t.seen[i] # 0 /\ now - t.seen[i] <= TTL THEN t.seen[i] ELSE 0]
               u == [open |-> t.open, seen |-> kept, empty |-> t.empty]
               m == Max({t.seen[i] : i \in Active(t)})
           IN  /\ Expire(t, now) = Emptied(u, m) /\ u \in TrackerType /\ m \in Moments \ {0}
               /\ m \in {t.seen[i] : i \in Active(t)}
<1> DEFINE kept == [i \in Items |-> IF t.seen[i] # 0 /\ now - t.seen[i] <= TTL THEN t.seen[i] ELSE 0]
           u == [open |-> t.open, seen |-> kept, empty |-> t.empty]
           S == {t.seen[i] : i \in Active(t)}
<1>1. t.seen \in [Items -> Moments] /\ 0 \in Moments /\ MaxNow \in Nat
    BY SourcesAssumption DEF TrackerType, Moments
<1>2. kept \in [Items -> Moments]
    BY <1>1
<1>3. Expire(t, now) = Emptied(u, Max(S))
    BY DEF Expire, TrackerType
<1>4. S # {} /\ S \subseteq 0..MaxNow /\ 0 \notin S
    BY <1>1 DEF Active, Moments
<1> HIDE DEF kept, S
<1>5. Max(S) \in S
    BY <1>1, <1>4, MaxIsGreatest
<1>6. u \in TrackerType
    BY <1>2 DEF TrackerType
<1> QED BY <1>3, <1>4, <1>5, <1>6 DEF kept, S, Moments

LEMMA ExpireTyped ==
    ASSUME NEW t \in TrackerType, now \in 1..MaxNow
    PROVE  Expire(t, now) \in TrackerType
<1>1. CASE Active(t) = {}
    BY <1>1 DEF Expire
<1>2. CASE Active(t) # {}
    BY <1>2, ExpireIs, EmptiedTyped
<1> QED BY <1>1, <1>2

PhaseTyped == phase \in [enabled -> Phases]
EventsTyped == tracker \in [enabled -> TrackerType] /\ heard \in [enabled -> SUBSET (1..MaxNow)]
HealthTyped == watch \in [enabled -> BOOLEAN] /\ lastUp \in [enabled -> 1..MaxNow]
RestTyped ==
    /\ enabled \in Enabled /\ now \in 1..MaxNow /\ served \subseteq enabled
    /\ backend \in [enabled -> BOOLEAN]
    /\ last \in [Items -> {"none", "on", "off"}]
    /\ seenUp \in [enabled -> BOOLEAN] /\ stranded \in [enabled -> SUBSET (1..MaxNow)]
    /\ downSince \in [enabled -> 1..MaxNow]
    /\ health \in BOOLEAN /\ late \in 0..Lag + 1 /\ faults \in 0..MaxFaults

SourcesTypes == PhaseTyped /\ EventsTyped /\ HealthTyped /\ RestTyped

LEMMA TypesMean == SourcesTypes <=> SourcesTypeOK
BY DEF SourcesTypes, PhaseTyped, EventsTyped, HealthTyped, RestTyped, SourcesTypeOK, TrackerType, Moments

LEMMA PublishTyped ==
    ASSUME SourcesTypes, NEW s, NEW healthy \in BOOLEAN, UNCHANGED <<enabled, now>>,
           Publish(s, healthy) \/ KeepHealth
    PROVE  HealthTyped'
BY DEF SourcesTypes, HealthTyped, RestTyped, Publish, KeepHealth

LEMMA GoesTyped ==
    ASSUME SourcesTypes, NEW s, NEW p \in Phases, UNCHANGED enabled, Goes(s, p)
    PROVE  PhaseTyped'
BY DEF SourcesTypes, PhaseTyped, Goes

LEMMA EmitTyped ==
    ASSUME SourcesTypes, NEW s, NEW t \in TrackerType, UNCHANGED <<enabled, now>>, Emit(s, t)
    PROVE  EventsTyped'
BY DEF SourcesTypes, EventsTyped, RestTyped, Emit

LEMMA TaskKeepsTypes ==
    ASSUME SourcesTypes, NEW s \in enabled, SourceStep(s)
    PROVE  SourcesTypes'
<1> USE SourcesAssumption
<1>0. Idle \in TrackerType
    BY IdleTyped
<1>1. CASE Connect(s)
  <2>1. PhaseTyped' /\ HealthTyped'
      BY <1>1, PublishTyped, GoesTyped DEF Connect, Phases
  <2>2. EventsTyped'
      BY <1>0, <1>1 DEF Connect, SourcesTypes, EventsTyped
  <2>3. RestTyped'
      BY <1>1 DEF Connect, SourcesTypes, RestTyped, aggregator, Fault, NoReading
  <2> QED BY <2>1, <2>2, <2>3 DEF SourcesTypes
<1>2. CASE Granted(s) \/ Report(s) \/ BackOffOver(s) \/ Notice(s) \/ Respawn(s)
  <2>1. PhaseTyped' /\ HealthTyped'
      BY <1>2, PublishTyped, GoesTyped DEF Granted, Report, BackOffOver, Notice, Respawn, Phases
  <2>2. EventsTyped'
      BY <1>2 DEF Granted, Report, BackOffOver, Notice, Respawn, SourcesTypes, EventsTyped
  <2>3. RestTyped'
      BY <1>2 DEF Granted, Report, BackOffOver, Notice, Respawn, SourcesTypes, RestTyped, aggregator
  <2> QED BY <2>1, <2>2, <2>3 DEF SourcesTypes
<1>3. CASE Janitor(s)
  <2> DEFINE t == CASE s = "frigate" -> CameraTick(tracker[s], now)
                    [] s = "ha" -> HaTick(tracker[s], now)
                    [] s = "pixel" -> tracker[s]
  <2>0. tracker[s] \in TrackerType /\ now \in 1..MaxNow /\ s \in Kinds
      BY DEF SourcesTypes, EventsTyped, RestTyped
  <2>1. t \in TrackerType
      BY <2>0, SettleTyped, ExpireTyped DEF CameraTick, HaTick, Kinds
  <2>2. Emit(s, t)
      BY <1>3 DEF Janitor
  <2> HIDE DEF t
  <2>3. EventsTyped' /\ HealthTyped'
      BY <1>3, <2>1, <2>2, EmitTyped, PublishTyped DEF Janitor
  <2>4. PhaseTyped' /\ RestTyped'
      BY <1>3 DEF Janitor, SourcesTypes, PhaseTyped, RestTyped, aggregator
  <2> QED BY <2>3, <2>4 DEF SourcesTypes
<1>4. CASE Lose(s) \/ Reload(s)
  <2>1. PICK p \in Phases : Goes(s, p) /\ Emit(s, Idle)
      BY <1>4 DEF Lose, Reload, Leave, ForceStop, Phases
  <2>2. PhaseTyped' /\ EventsTyped' /\ HealthTyped'
      BY <1>0, <1>4, <2>1, PublishTyped, GoesTyped, EmitTyped DEF Lose, Reload
  <2>3. RestTyped'
      BY <1>4 DEF Lose, Reload, SourcesTypes, RestTyped, aggregator, Fault
  <2> QED BY <2>2, <2>3 DEF SourcesTypes
<1>5. CASE Panic(s)
  <2>1. PhaseTyped' /\ HealthTyped'
      BY <1>5, PublishTyped, GoesTyped DEF Panic, Phases
  <2>2. EventsTyped'
      BY <1>0, <1>5 DEF Panic, SourcesTypes, EventsTyped
  <2>3. RestTyped'
      BY <1>5 DEF Panic, SourcesTypes, EventsTyped, RestTyped, aggregator, Fault
  <2> QED BY <2>1, <2>2, <2>3 DEF SourcesTypes
<1>6. CASE Break(s)
  <2>1. HealthTyped'
      BY <1>6, PublishTyped DEF Break
  <2>2. PhaseTyped' /\ EventsTyped'
      BY <1>6 DEF Break, session, SourcesTypes, PhaseTyped, EventsTyped
  <2>3. RestTyped'
      BY <1>6 DEF Break, session, SourcesTypes, RestTyped, aggregator, Fault
  <2> QED BY <2>1, <2>2, <2>3 DEF SourcesTypes
<1> QED BY <1>1, <1>2, <1>3, <1>4, <1>5, <1>6 DEF SourceStep

LEMMA SourcesStepTypes ==
    ASSUME SourcesTypes, [SourcesNext]_sources
    PROVE  SourcesTypes'
<1> USE SourcesAssumption
<1>0. /\ now \in 1..MaxNow /\ Idle \in TrackerType /\ 0 \in Moments /\ now \in Moments
      /\ \A s \in enabled : tracker[s] \in TrackerType
    BY IdleTyped DEF SourcesTypes, RestTyped, EventsTyped, Moments
<1>1. CASE UNCHANGED sources
    BY <1>1 DEF sources, session, aggregator, SourcesTypes, PhaseTyped, EventsTyped, HealthTyped, RestTyped
<1>2. ASSUME NEW s \in enabled, SourceStep(s) PROVE SourcesTypes'
    BY <1>2, TaskKeepsTypes
<1>3. ASSUME NEW i \in Items, NEW ended \in BOOLEAN, Message(i, ended) PROVE SourcesTypes'
  <2> DEFINE t == Observe(tracker["frigate"], i, ended, now)
  <2>1. t \in TrackerType
      BY <1>0, <1>3, GoneIs, PresentIs DEF Message, Observe
  <2>2. Emit("frigate", t)
      BY <1>3 DEF Message
  <2> HIDE DEF t
  <2>3. EventsTyped' /\ HealthTyped'
      BY <1>3, <2>1, <2>2, EmitTyped, PublishTyped DEF Message
  <2>4. PhaseTyped' /\ RestTyped'
      BY <1>3 DEF Message, SourcesTypes, PhaseTyped, RestTyped, aggregator
  <2> QED BY <2>3, <2>4 DEF SourcesTypes
<1>4. ASSUME NEW reading \in Readings, Poll(reading) PROVE SourcesTypes'
  <2> DEFINE t == Folded(tracker["ha"], Edges(last, reading), reading)
  <2>1. t \in TrackerType
      BY <1>0, <1>4, HaObserveTyped DEF Poll, Folded
  <2>2. Emit("ha", t)
      BY <1>4 DEF Poll
  <2> HIDE DEF t
  <2>3. EventsTyped' /\ HealthTyped' /\ PhaseTyped'
      BY <1>4, <2>1, <2>2, EmitTyped, PublishTyped, GoesTyped DEF Poll, Phases
  <2>4. Learned(last, reading) \in [Items -> {"none", "on", "off"}]
      BY DEF SourcesTypes, RestTyped, Learned, Readings, Reading
  <2>5. RestTyped'
      BY <1>4, <2>4 DEF Poll, SourcesTypes, RestTyped, aggregator
  <2> QED BY <2>3, <2>5 DEF SourcesTypes
<1>5. CASE PixelVerdict
  <2> DEFINE t == tracker["pixel"]
             u == IF t.open = 0 THEN [t EXCEPT !.open = now] ELSE Idle
  <2>1. u \in TrackerType
      BY <1>0, <1>5 DEF PixelVerdict, TrackerType
  <2>2. Emit("pixel", u)
      BY <1>5 DEF PixelVerdict
  <2> HIDE DEF u
  <2>3. EventsTyped' /\ HealthTyped'
      BY <1>5, <2>1, <2>2, EmitTyped, PublishTyped DEF PixelVerdict
  <2>4. PhaseTyped' /\ RestTyped'
      BY <1>5 DEF PixelVerdict, SourcesTypes, PhaseTyped, RestTyped, aggregator
  <2> QED BY <2>3, <2>4 DEF SourcesTypes
<1>6. CASE Degrade \/ Watchdog
  <2>1. PhaseTyped' /\ HealthTyped'
      BY <1>6, PublishTyped, GoesTyped DEF Degrade, Watchdog, Leave, Phases
  <2>2. EventsTyped'
      BY <1>0, <1>6, EmitTyped DEF Degrade, Watchdog, Leave, ForceStop, SourcesTypes, EventsTyped
  <2>3. /\ UNCHANGED <<enabled, now, served, backend, last, aggregator, stranded>>
        /\ UNCHANGED faults \/ Fault
      BY <1>6 DEF Degrade, Watchdog
  <2>4. RestTyped'
      BY <2>3 DEF SourcesTypes, RestTyped, aggregator, Fault
  <2> QED BY <2>1, <2>2, <2>4 DEF SourcesTypes
<1>7. CASE Aggregate
  <2>1. PhaseTyped' /\ EventsTyped' /\ HealthTyped'
      BY <1>7 DEF Aggregate, session, SourcesTypes, PhaseTyped, EventsTyped, HealthTyped
  <2>2. downSince' \in [enabled -> 1..MaxNow] /\ health' \in BOOLEAN
      BY <1>7 DEF Aggregate, Since, Healthy, SourcesTypes, RestTyped
  <2>3. RestTyped'
      BY <1>7, <2>2 DEF Aggregate, session, SourcesTypes, HealthTyped, RestTyped
  <2> QED BY <2>1, <2>3 DEF SourcesTypes
<1>8. CASE Tick
  <2>1. now' \in 1..MaxNow /\ late' \in 0..Lag + 1
      BY <1>8 DEF Tick, SourcesTypes, RestTyped
  <2>2. PhaseTyped' /\ EventsTyped' /\ HealthTyped'
      BY <1>8, <2>1 DEF Tick, session, SourcesTypes, PhaseTyped, EventsTyped, HealthTyped
  <2>3. RestTyped'
      BY <1>8, <2>1 DEF Tick, session, SourcesTypes, RestTyped
  <2> QED BY <2>2, <2>3 DEF SourcesTypes
<1> QED BY <1>1, <1>2, <1>3, <1>4, <1>5, <1>6, <1>7, <1>8 DEF SourcesNext

LEMMA SourcesStartTyped == SourcesInit => SourcesTypes
<1> SUFFICES ASSUME SourcesInit PROVE SourcesTypes
    OBVIOUS
<1> USE SourcesAssumption
<1>1. PhaseTyped /\ HealthTyped
    BY DEF SourcesInit, PhaseTyped, HealthTyped, Phases
<1>2. EventsTyped
    BY IdleTyped DEF SourcesInit, EventsTyped
<1>3. /\ now \in 1..MaxNow /\ late \in 0..Lag + 1 /\ faults \in 0..MaxFaults
      /\ last \in [Items -> {"none", "on", "off"}] /\ downSince \in [enabled -> 1..MaxNow]
      /\ enabled \in Enabled /\ served \subseteq enabled
    BY DEF SourcesInit, NoReading
<1>4. health \in BOOLEAN /\ backend \in [enabled -> BOOLEAN] /\ seenUp \in [enabled -> BOOLEAN]
    BY Zenon DEF SourcesInit
<1>5. stranded \in [enabled -> SUBSET (1..MaxNow)]
    BY DEF SourcesInit
<1>6. RestTyped
    BY <1>3, <1>4, <1>5 DEF RestTyped
<1> QED BY <1>1, <1>2, <1>6 DEF SourcesTypes

\* What the tracker of Frigate has open at time m was heard of no longer ago than d, the last
\* item to go included.
Fresh(t, m, d) ==
    t.open # 0 =>
        /\ \A i \in Items : t.seen[i] # 0 => t.seen[i] <= m /\ m - t.seen[i] <= d
        /\ t.empty # 0 <=> Active(t) = {}
        /\ t.empty # 0 => t.empty <= m /\ m - t.empty <= d

\* The janitor has run since the clock moved, or is due.
Patience == TTL + (IF "frigate" \in served THEN 0 ELSE 1)

SilentInv == "frigate" \in enabled => Fresh(tracker["frigate"], now, Patience)

LEMMA ObserveFresh ==
    ASSUME NEW t \in TrackerType, NEW i \in Items, NEW ended, NEW d \in Nat,
           now \in 1..MaxNow, Fresh(t, now, d)
    PROVE  Fresh(Observe(t, i, ended, now), now, d)
<1> USE SourcesAssumption
<1>0. now \in Moments /\ MaxNow \in Nat /\ t.open \in Nat /\ t.seen \in [Items -> Nat] /\ t.empty \in Nat
    BY DEF Moments, TrackerType
<1>1. Fresh(Gone(t, i, now), now, d)
  <2> DEFINE u == [t EXCEPT !.seen[i] = 0]
             g == Gone(t, i, now)
  <2>1. /\ u \in TrackerType /\ u.open = t.open /\ u.empty = t.empty /\ g = Emptied(u, now)
        /\ u.seen = [t.seen EXCEPT ![i] = 0]
      BY GoneIs
  <2>2. \A j \in Items : u.seen[j] = IF j = i THEN 0 ELSE t.seen[j]
      BY <1>0, <2>1
  <2> HIDE DEF u, g
  <2>3. g.open = u.open
      BY <2>1 DEF Emptied, TrackerType
  <2>4. g.seen = u.seen /\ g.empty = IF Active(u) = {} /\ u.open # 0 /\ u.empty = 0 THEN now ELSE u.empty
      BY <1>0, <2>1, EmptiedTyped
  <2>5. Active(g) = Active(u) /\ Active(u) \subseteq Active(t)
      BY <2>2, <2>4 DEF Active
  <2>6. Fresh(g, now, d)
      BY <1>0, <2>1, <2>2, <2>3, <2>4, <2>5 DEF Fresh
  <2> QED BY <2>6 DEF g
<1>2. Fresh(Present(t, i, now), now, d)
  <2> DEFINE p == Present(t, i, now)
  <2>1. /\ p.open = IF Active(t) = {} /\ t.open = 0 THEN now ELSE t.open
        /\ p.seen = [t.seen EXCEPT ![i] = now] /\ p.empty = 0
      BY PresentIs
  <2> HIDE DEF p
  <2>2. \A j \in Items : p.seen[j] = IF j = i THEN now ELSE t.seen[j]
      BY <1>0, <2>1
  <2>3. i \in Active(p)
      BY <1>0, <2>2 DEF Active
  <2>4. p.open # 0 => t.open # 0 \/ \A j \in Items : t.seen[j] = 0
      BY <2>1 DEF Active
  <2>5. Fresh(p, now, d)
      BY <1>0, <2>1, <2>2, <2>3, <2>4 DEF Fresh
  <2> QED BY <2>5 DEF p
<1> QED BY <1>1, <1>2 DEF Observe

LEMMA CameraTickFresh ==
    ASSUME StopGrace <= TTL + 1, NEW t \in TrackerType, now \in 1..MaxNow, Fresh(t, now, TTL + 1)
    PROVE  Fresh(CameraTick(t, now), now, TTL)
<1> USE SourcesAssumption, TrackerAssumption
<1>0. t.open \in Nat /\ t.seen \in [Items -> Nat] /\ t.empty \in Nat /\ now \in Nat
    BY DEF TrackerType, Moments
<1> DEFINE x == Expire(t, now)
<1>1. x \in TrackerType
    BY ExpireTyped
<1>2. x.open # 0 => /\ \A i \in Items : x.seen[i] # 0 => x.seen[i] <= now /\ now - x.seen[i] <= TTL
                    /\ x.empty # 0 <=> Active(x) = {}
                    /\ x.empty # 0 => x.empty <= now
  <2>1. CASE Active(t) = {}
    <3>1. x = t /\ \A i \in Items : t.seen[i] = 0
        BY <2>1 DEF Expire, Active
    <3> QED BY <2>1, <3>1 DEF Fresh
  <2>2. CASE Active(t) # {}
    <3> DEFINE kept == [i \in Items |-> IF t.seen[i] # 0 /\ now - t.seen[i] <= TTL THEN t.seen[i] ELSE 0]
               u == [open |-> t.open, seen |-> kept, empty |-> t.empty]
               m == Max({t.seen[i] : i \in Active(t)})
    <3>1. x = Emptied(u, m) /\ u \in TrackerType /\ m \in Moments \ {0} /\ \E i \in Active(t) : m = t.seen[i]
        BY <2>2, ExpireIs
    <3>2. \A i \in Items : u.seen[i] = IF t.seen[i] # 0 /\ now - t.seen[i] <= TTL THEN t.seen[i] ELSE 0
        OBVIOUS
    <3>3. u.open = t.open /\ u.empty = t.empty
        OBVIOUS
    <3> HIDE DEF x, u, m
    <3>4. x.open = u.open
        BY <3>1 DEF Emptied, TrackerType
    <3>5. x.seen = u.seen /\ x.empty = IF Active(u) = {} /\ u.open # 0 /\ u.empty = 0 THEN m ELSE u.empty
        BY <3>1, EmptiedTyped
    <3>6. Active(x) = Active(u)
        BY <3>5 DEF Active
    <3>7. m \in Nat \ {0} /\ \E i \in Items : t.seen[i] # 0 /\ m = t.seen[i]
        BY <3>1 DEF Moments, Active
    <3>8. t.open # 0 => t.empty = 0
        BY <2>2 DEF Fresh
    <3> QED BY <1>0, <3>2, <3>3, <3>4, <3>5, <3>6, <3>7, <3>8 DEF Fresh
  <2> QED BY <2>1, <2>2
<1>3. CameraTick(t, now) = Settle(x, now)
    BY DEF CameraTick
<1> HIDE DEF x
<1>4. x.empty \in Nat
    BY <1>1 DEF TrackerType, Moments
<1>5. Idle.open = 0
    BY DEF Idle
<1>6. CASE Active(x) = {} /\ x.open # 0 /\ x.empty # 0 /\ now - x.empty >= StopGrace
    BY <1>3, <1>5, <1>6 DEF Settle, Fresh
<1>7. CASE ~(Active(x) = {} /\ x.open # 0 /\ x.empty # 0 /\ now - x.empty >= StopGrace)
  <2>1. Settle(x, now) = x
      BY <1>7 DEF Settle
  <2>2. x.open # 0 /\ x.empty # 0 => now - x.empty <= TTL
      BY <1>0, <1>2, <1>4, <1>7
  <2> QED BY <1>2, <1>3, <2>1, <2>2 DEF Fresh
<1> QED BY <1>6, <1>7

\* What a step does to the tracker of Frigate, and to the janitor's turn.
LEMMA FrigateMoves ==
    ASSUME SourcesTypes, "frigate" \in enabled, [SourcesNext]_sources, ~Tick
    PROVE  /\ UNCHANGED <<enabled, now>>
           /\ \/ /\ "frigate" \in served' <=> "frigate" \in served
                 /\ \/ tracker'["frigate"] \in {tracker["frigate"], Idle}
                    \/ \E i \in Items, ended \in BOOLEAN :
                          tracker'["frigate"] = Observe(tracker["frigate"], i, ended, now)
              \/ tracker'["frigate"] = CameraTick(tracker["frigate"], now)
<1>0. tracker = [s \in enabled |-> tracker[s]]
    BY DEF SourcesTypes, EventsTyped
<1>1. ASSUME NEW s \in enabled, NEW t, Emit(s, t)
      PROVE  tracker'["frigate"] = IF s = "frigate" THEN t ELSE tracker["frigate"]
    BY <1>0, <1>1 DEF Emit
<1>2. ASSUME NEW s \in enabled, tracker' = [tracker EXCEPT ![s] = Idle]
      PROVE  tracker'["frigate"] \in {tracker["frigate"], Idle}
    BY <1>0, <1>2
<1>3. CASE UNCHANGED sources
    BY <1>3 DEF sources, session
<1>4. ASSUME NEW s \in enabled, SourceStep(s), ~Janitor(s)
      PROVE  /\ UNCHANGED <<enabled, now, served>>
             /\ tracker'["frigate"] \in {tracker["frigate"], Idle}
  <2>1. CASE Lose(s) \/ Reload(s)
    <3>1. Emit(s, Idle) /\ UNCHANGED <<enabled, now, served>>
        BY <2>1 DEF Lose, Reload, Leave, ForceStop
    <3> QED BY <1>1, <3>1
  <2>2. CASE Connect(s) \/ Panic(s)
    <3>1. tracker' = [tracker EXCEPT ![s] = Idle] /\ UNCHANGED <<enabled, now, served>>
        BY <2>2 DEF Connect, Panic
    <3> QED BY <1>2, <3>1
  <2>3. CASE Granted(s) \/ Report(s) \/ BackOffOver(s) \/ Notice(s) \/ Respawn(s) \/ Break(s)
      BY <2>3 DEF Granted, Report, BackOffOver, Notice, Respawn, Break, session
  <2> QED BY <1>4, <2>1, <2>2, <2>3 DEF SourceStep
<1>5. ASSUME NEW s \in enabled, Janitor(s)
      PROVE  /\ UNCHANGED <<enabled, now>>
             /\ \/ tracker'["frigate"] = CameraTick(tracker["frigate"], now)
                \/ /\ "frigate" \in served' <=> "frigate" \in served
                   /\ tracker'["frigate"] = tracker["frigate"]
  <2>1. UNCHANGED <<enabled, now>> /\ served' = served \cup {s}
      BY <1>5 DEF Janitor
  <2>2. CASE s = "frigate"
    <3>1. Emit(s, CameraTick(tracker[s], now))
        BY <1>5, <2>2 DEF Janitor
    <3> QED BY <1>1, <2>1, <2>2, <3>1
  <2>3. CASE s # "frigate"
    <3>1. \E t : Emit(s, t)
        BY <1>5 DEF Janitor
    <3> QED BY <1>1, <2>1, <2>3, <3>1
  <2> QED BY <2>2, <2>3
<1>6. ASSUME NEW i \in Items, NEW ended \in BOOLEAN, Message(i, ended)
      PROVE  /\ UNCHANGED <<enabled, now, served>>
             /\ tracker'["frigate"] = Observe(tracker["frigate"], i, ended, now)
    BY <1>1, <1>6 DEF Message
<1>7. ASSUME NEW reading \in Readings, Poll(reading)
      PROVE  UNCHANGED <<enabled, now, served>> /\ tracker'["frigate"] = tracker["frigate"]
  <2>1. UNCHANGED <<enabled, now, served>> /\ "ha" \in enabled /\ \E t : Emit("ha", t)
      BY <1>7 DEF Poll
  <2> QED BY <1>1, <2>1
<1>8. CASE PixelVerdict \/ Watchdog
  <2>1. UNCHANGED <<enabled, now, served>> /\ "pixel" \in enabled /\ \E t : Emit("pixel", t)
      BY <1>8 DEF PixelVerdict, Watchdog, Leave
  <2> QED BY <1>1, <2>1
<1>9. CASE Degrade \/ Aggregate
    BY <1>9 DEF Degrade, Aggregate, session
<1> QED BY <1>3, <1>4, <1>5, <1>6, <1>7, <1>8, <1>9 DEF SourcesNext

LEMMA SilentStep ==
    ASSUME StopGrace <= TTL + 1, SourcesTypes, KeysInv, SilentInv, [SourcesNext]_sources
    PROVE  SilentInv'
<1> USE TrackerAssumption
<1>0. enabled' = enabled
  <2>1. CASE Tick
      BY <2>1 DEF Tick
  <2>2. CASE ~Tick
    <3>1. [SourcesNext]_sources /\ ~Tick => enabled' = enabled
        BY DEF SourcesNext, SourceStep, Connect, Granted, Janitor, Lose, Reload, Report, BackOffOver, Panic,
               Notice, Respawn, Break, Message, Poll, PixelVerdict, Degrade, Watchdog, Aggregate, sources
    <3> QED BY <2>2, <3>1
  <2> QED BY <2>1, <2>2
<1> SUFFICES ASSUME "frigate" \in enabled PROVE Fresh(tracker["frigate"], now, Patience)'
    BY <1>0 DEF SilentInv
<1> DEFINE t == tracker["frigate"]
<1>1. t \in TrackerType /\ now \in 1..MaxNow /\ Fresh(t, now, Patience) /\ Patience \in {TTL, TTL + 1}
    BY DEF SilentInv, SourcesTypes, EventsTyped, RestTyped, Patience
<1>2. t.seen \in [Items -> Nat] /\ t.empty \in Nat /\ now \in Nat
    BY <1>1, SourcesAssumption DEF TrackerType, Moments
<1>3. Fresh(t, now, TTL + 1)
    BY <1>1, <1>2 DEF Fresh
<1> HIDE DEF t
<1>4. CASE Tick
  <2>1. now' = now + 1 /\ served' = {} /\ tracker' = tracker
      BY <1>4 DEF Tick, session
  <2>2. t.open # 0 => "frigate" \in served
      BY <1>4 DEF Tick, KeysInv, Keyed, t
  <2>3. t.open # 0 => Fresh(t, now, TTL)
      BY <1>1, <2>2 DEF Patience
  <2>4. Fresh(t, now + 1, TTL + 1)
      BY <1>2, <2>3 DEF Fresh
  <2>5. Patience' = TTL + 1 /\ tracker'["frigate"] = t
      BY <2>1 DEF Patience, t
  <2> QED BY <2>1, <2>4, <2>5 DEF Fresh, Active
<1>5. CASE ~Tick
  <2>1. now' = now
      BY <1>5, FrigateMoves
  <2>2. ASSUME "frigate" \in served' <=> "frigate" \in served, Fresh(tracker'["frigate"], now, Patience)
        PROVE  Fresh(tracker["frigate"], now, Patience)'
      BY <2>1, <2>2 DEF Fresh, Patience, Active
  <2>3. CASE "frigate" \in served' <=> "frigate" \in served
    <3>1. Fresh(Idle, now, Patience)
        BY DEF Fresh, Idle
    <3>2. \A i \in Items, ended \in BOOLEAN : Fresh(Observe(t, i, ended, now), now, Patience)
        BY <1>1, ObserveFresh
    <3>3. CASE tracker'["frigate"] = CameraTick(t, now)
      <4>1. Fresh(tracker'["frigate"], now, TTL)
          BY <1>1, <1>3, <3>3, CameraTickFresh
      <4>2. Fresh(tracker'["frigate"], now, Patience)
        <5>1. tracker'["frigate"] \in TrackerType
            BY <1>0, SourcesStepTypes DEF SourcesTypes, EventsTyped
        <5> QED BY <1>1, <1>2, <4>1, <5>1, SourcesAssumption DEF Fresh, TrackerType, Moments
      <4> QED BY <2>2, <2>3, <4>2
    <3>4. CASE tracker'["frigate"] # CameraTick(t, now)
      <4>1. Fresh(tracker'["frigate"], now, Patience)
          BY <1>1, <1>5, <3>1, <3>2, <3>4, FrigateMoves DEF t
      <4> QED BY <2>2, <2>3, <4>1
    <3> QED BY <3>3, <3>4
  <2>4. CASE ~("frigate" \in served' <=> "frigate" \in served)
    <3>1. tracker'["frigate"] = CameraTick(t, now)
        BY <1>5, <2>4, FrigateMoves DEF t
    <3>2. Fresh(tracker'["frigate"], now, TTL)
        BY <1>1, <1>3, <3>1, CameraTickFresh
    <3>3. tracker'["frigate"] \in TrackerType
        BY <1>0, SourcesStepTypes DEF SourcesTypes, EventsTyped
    <3>4. Patience' \in {TTL, TTL + 1}
        BY DEF Patience
    <3> QED BY <1>2, <2>1, <3>2, <3>3, <3>4, SourcesAssumption DEF Fresh, Active, TrackerType, Moments
  <2> QED BY <2>3, <2>4
<1> QED BY <1>4, <1>5

LEMMA SilentMeans == SourcesTypes /\ SilentInv => SilentObjectsEnd
<1> SUFFICES ASSUME SourcesTypes, SilentInv, "frigate" \in enabled, tracker["frigate"].open # 0
             PROVE  LET t == tracker["frigate"] IN
                    now - (IF t.empty # 0 THEN t.empty ELSE Max({t.seen[i] : i \in Items})) <= TTL + 1
    BY DEF SilentObjectsEnd
<1> USE TrackerAssumption
<1> DEFINE t == tracker["frigate"]
           S == {t.seen[i] : i \in Items}
<1>1. t \in TrackerType /\ now \in Nat /\ Fresh(t, now, Patience) /\ Patience \in {TTL, TTL + 1}
    BY DEF SilentInv, SourcesTypes, EventsTyped, RestTyped, Patience
<1>2. t.seen \in [Items -> 0..MaxNow] /\ t.empty \in Nat /\ MaxNow \in Nat /\ t.open # 0
    BY <1>1, SourcesAssumption DEF TrackerType, Moments
<1> HIDE DEF t
<1>3. CASE t.empty # 0
    BY <1>1, <1>2, <1>3 DEF Fresh, t
<1>4. CASE t.empty = 0
  <2>1. PICK j \in Items : t.seen[j] # 0
      BY <1>1, <1>2, <1>4 DEF Fresh, Active
  <2>2. S # {} /\ S \subseteq 0..MaxNow
      BY <1>2, <2>1
  <2>3. Max(S) \in S /\ \A y \in S : y <= Max(S)
      BY <1>2, <2>2, MaxIsGreatest
  <2>4. PICK i \in Items : Max(S) = t.seen[i]
      BY <2>3
  <2>5. t.seen[i] # 0
    <3>1. t.seen[j] <= Max(S)
        BY <2>1, <2>3
    <3>2. t.seen[i] \in Nat /\ t.seen[j] \in Nat
        BY <1>2
    <3> HIDE DEF S
    <3> QED BY <2>1, <2>4, <3>1, <3>2
  <2> HIDE DEF S
  <2>6. now - Max(S) <= TTL + 1
      BY <1>1, <1>2, <2>4, <2>5 DEF Fresh
  <2> QED BY <1>4, <2>6 DEF t, S
<1> QED BY <1>3, <1>4

LEMMA SilentStart == SourcesInit => SilentInv
BY DEF SourcesInit, SilentInv, Fresh, Idle
-----------------------------------------------------------------------------
(* The alerts.                                                                 *)

Episodes == [gen : Nat, armed : Nat, due : Nat, n : Nat]

AlertsTypes ==
    /\ alertAfter \in AlertAfters /\ disabled \in BOOLEAN
    /\ clock \in 1..MaxClock /\ worker \in {"running", "dead", "paused", "gone"}
    /\ sourceUp \in BOOLEAN /\ gen \in Nat /\ flips \in 0..MaxFlips
    /\ episodes \subseteq Episodes /\ alerts \subseteq [at : Nat, since : Nat, n : Nat]
    /\ upUntil \in 1..clock

\* An episode is one of the generations so far, has not slept past its time, and woke up once at
\* most for each minute since it was armed; teardown may add one generation to the flips.
EpisodesInv ==
    /\ gen <= flips + (IF worker = "gone" THEN 1 ELSE 0)
    /\ \A e \in episodes : e.gen <= gen /\ e.armed <= clock /\ clock <= e.due /\ e.n < e.due
                           /\ e.n <= clock /\ e.armed + alertAfter <= e.due
    /\ \A a \in alerts : 1 <= a.since /\ a.at <= clock /\ a.since + alertAfter <= a.at

\* An episode of the current generation was armed when its outage had begun.
ArmedInv ==
    /\ sourceUp => upUntil = clock /\ \A e \in episodes : e.gen # gen
    /\ ~sourceUp => \A e \in episodes : e.gen = gen => upUntil <= e.armed
    /\ worker = "paused" => ~sourceUp
    /\ disabled => episodes = {} /\ alerts = {} /\ ~sourceUp

\* An outage of a worker that is there has been told of, or has an episode asleep that will, or
\* has just begun with a panic, after which the source's new task arms one.
ToldInv ==
    worker # "gone" /\ ~disabled /\ ~sourceUp =>
        \/ \E a \in alerts : a.since = upUntil
        \/ worker = "paused" /\ upUntil = clock
        \/ \E e \in episodes : e.gen = gen /\ e.n = 0 /\ e.due <= upUntil + alertAfter

AlertsInv == AlertsTypes /\ EpisodesInv /\ ArmedInv /\ ToldInv

LEMMA AlertConstants == AlertAfters \subseteq Nat /\ RepeatEvery \in Nat \ {0} /\ MaxClock \in Nat \ {0} /\ MaxFlips \in Nat
BY AlertsAssumption

LEMMA AlertsStart == AlertsInit => AlertsInv
<1> SUFFICES ASSUME AlertsInit PROVE AlertsInv
    OBVIOUS
<1> USE AlertConstants
<1> DEFINE first == [gen |-> 0, armed |-> 1, due |-> 1 + alertAfter, n |-> 0]
<1>1. /\ alertAfter \in AlertAfters /\ disabled \in BOOLEAN
      /\ clock = 1 /\ worker = "running" /\ sourceUp = FALSE /\ gen = 0 /\ alerts = {} /\ flips = 0 /\ upUntil = 1
      /\ episodes = IF disabled THEN {} ELSE {first}
    BY DEF AlertsInit
<1>2. alertAfter \in Nat /\ first \in Episodes /\ first.gen = 0 /\ first.armed = 1 /\ first.due = 1 + alertAfter /\ first.n = 0
    BY <1>1 DEF Episodes
<1> HIDE DEF first
<1>4. AlertsTypes
  <2>1. clock \in 1..MaxClock /\ upUntil \in 1..clock /\ flips \in 0..MaxFlips /\ gen \in Nat
      BY <1>1
  <2>2. episodes \subseteq Episodes /\ alerts \subseteq [at : Nat, since : Nat, n : Nat]
      BY <1>1, <1>2
  <2> QED BY <1>1, <2>1, <2>2, Zenon DEF AlertsTypes
<1>5. EpisodesInv
    BY <1>1, <1>2 DEF EpisodesInv
<1>6. ArmedInv
    BY <1>1, <1>2 DEF ArmedInv
<1>7. ToldInv
    BY <1>1, <1>2 DEF ToldInv
<1> QED BY <1>4, <1>5, <1>6, <1>7 DEF AlertsInv

\* What a step to another generation adds: a change of health, or the last words of a source.
LEMMA TransitionKeeps ==
    ASSUME AlertsInv, NEW up \in BOOLEAN, up # sourceUp, Transition(up), upUntil' = clock, ~disabled,
           UNCHANGED <<alertAfter, disabled, clock>>,
           \/ flips' = flips + 1 /\ flips < MaxFlips /\ worker = "running" /\ worker' = worker
           \/ flips' = flips /\ worker # "gone" /\ worker' = "gone"
    PROVE  AlertsInv'
<1> USE AlertConstants
<1>0. /\ alertAfter \in Nat /\ clock \in Nat /\ clock >= 1 /\ upUntil \in Nat /\ upUntil >= 1 /\ upUntil <= clock
      /\ gen \in Nat /\ clock \in 1..MaxClock /\ flips \in Nat /\ flips <= MaxFlips
      /\ \A e \in episodes : e \in Episodes /\ e.gen \in Nat /\ e.armed \in Nat /\ e.due \in Nat /\ e.n \in Nat
    BY DEF AlertsInv, AlertsTypes, Episodes
<1>1. gen' = gen + 1 /\ sourceUp' = up
    BY DEF Transition
<1> DEFINE new == [gen |-> gen + 1, armed |-> clock, due |-> clock + alertAfter, n |-> 0]
           told == [at |-> clock, since |-> upUntil, n |-> 1]
<1>2. new \in Episodes /\ new.gen = gen + 1 /\ new.armed = clock /\ new.due = clock + alertAfter /\ new.n = 0
    BY <1>0 DEF Episodes
<1>3. told \in [at : Nat, since : Nat, n : Nat] /\ told.at = clock /\ told.since = upUntil
    BY <1>0
<1>4. /\ episodes' = IF up \/ alertAfter = 0 THEN episodes ELSE episodes \cup {new}
      /\ alerts' = IF ~up /\ alertAfter = 0 THEN alerts \cup {told} ELSE alerts
    BY <1>1 DEF Transition, Episode, EmitAlert
<1>5. ~up => upUntil = clock
    BY DEF AlertsInv, ArmedInv, AlertsTypes
<1> HIDE DEF new, told
<1>6. AlertsTypes'
    BY <1>0, <1>1, <1>2, <1>3, <1>4 DEF AlertsInv, AlertsTypes
<1>7. EpisodesInv'
  <2>1. gen' <= flips' + (IF worker' = "gone" THEN 1 ELSE 0)
      BY <1>0, <1>1 DEF AlertsInv, EpisodesInv
  <2>2. \A e \in episodes' : e.gen <= gen' /\ e.armed <= clock' /\ clock' <= e.due /\ e.n < e.due
                           /\ e.n <= clock' /\ e.armed + alertAfter' <= e.due
      BY <1>0, <1>1, <1>2, <1>4 DEF AlertsInv, EpisodesInv
  <2>3. \A a \in alerts' : 1 <= a.since /\ a.at <= clock' /\ a.since + alertAfter' <= a.at
      BY <1>0, <1>3, <1>4 DEF AlertsInv, EpisodesInv
  <2> QED BY <2>1, <2>2, <2>3 DEF EpisodesInv
<1>8. ArmedInv'
  <2>1. \A e \in episodes : e.gen # gen + 1
      BY <1>0 DEF AlertsInv, EpisodesInv
  <2>2. worker' # "paused"
      OBVIOUS
  <2> QED BY <1>0, <1>1, <1>2, <1>4, <2>1, <2>2 DEF ArmedInv
<1>9. ToldInv'
    BY <1>0, <1>1, <1>2, <1>3, <1>4, <1>5 DEF ToldInv
<1> QED BY <1>6, <1>7, <1>8, <1>9 DEF AlertsInv

LEMMA AlertsStep == AlertsInv /\ [AlertsNext]_alerting => AlertsInv'
<1> SUFFICES ASSUME AlertsInv, [AlertsNext]_alerting PROVE AlertsInv'
    OBVIOUS
<1> USE AlertConstants
<1>0. /\ alertAfter \in Nat /\ clock \in Nat /\ clock >= 1 /\ upUntil \in Nat /\ upUntil >= 1 /\ upUntil <= clock
      /\ gen \in Nat /\ clock \in 1..MaxClock /\ flips \in Nat /\ flips <= MaxFlips
      /\ \A e \in episodes : e \in Episodes /\ e.gen \in Nat /\ e.armed \in Nat /\ e.due \in Nat /\ e.n \in Nat
    BY DEF AlertsInv, AlertsTypes, Episodes
<1>1. CASE ReportHealth
  <2>1. sourceUp \in BOOLEAN /\ ~disabled /\ Transition(~sourceUp)
      BY <1>1 DEF ReportHealth, AlertsInv, AlertsTypes
  <2> QED BY <1>1, <2>1, TransitionKeeps DEF ReportHealth
<1>2. CASE SourcePanics
    BY <1>0, <1>2 DEF SourcePanics, AlertsInv, AlertsTypes, EpisodesInv, ArmedInv, ToldInv
<1>3. CASE ForceUnhealthy
  <2>1. /\ worker = "dead" /\ worker' = "paused" /\ sourceUp' = FALSE
        /\ upUntil' = IF sourceUp THEN clock ELSE upUntil
        /\ UNCHANGED <<alertAfter, disabled, clock, gen, episodes, alerts, flips>>
      BY <1>3 DEF ForceUnhealthy
  <2>5. upUntil' \in 1..clock'
      BY <1>0, <2>1
  <2>2. AlertsTypes'
      BY <2>1, <2>5, Zenon DEF AlertsInv, AlertsTypes
  <2>4. EpisodesInv'
      BY <1>0, <2>1 DEF AlertsInv, EpisodesInv
  <2>3. ArmedInv' /\ ToldInv'
      BY <1>0, <2>1 DEF AlertsInv, ArmedInv, ToldInv
  <2> QED BY <2>2, <2>3, <2>4 DEF AlertsInv
<1>4. CASE SourceRespawns
  <2> DEFINE new == [gen |-> gen, armed |-> clock, due |-> clock + alertAfter, n |-> 0]
  <2>1. new \in Episodes /\ new.gen = gen /\ new.armed = clock /\ new.due = clock + alertAfter /\ new.n = 0
      BY <1>0 DEF Episodes
  <2>2. /\ worker = "paused" /\ worker' = "running"
        /\ episodes' = IF disabled THEN episodes ELSE episodes \cup {new}
        /\ UNCHANGED <<alertAfter, disabled, clock, sourceUp, gen, alerts, flips, upUntil>>
      BY <1>4 DEF SourceRespawns, StartupEpisode, Episode
  <2>3. ~sourceUp
      BY <2>2 DEF AlertsInv, ArmedInv
  <2> HIDE DEF new
  <2>4. AlertsTypes'
      BY <1>0, <2>1, <2>2 DEF AlertsInv, AlertsTypes
  <2>5. EpisodesInv'
      BY <1>0, <2>1, <2>2 DEF AlertsInv, EpisodesInv
  <2>6. ArmedInv'
      BY <1>0, <2>1, <2>2, <2>3 DEF AlertsInv, ArmedInv
  <2>7. ToldInv'
    <3>1. ~disabled => new \in episodes'
        BY <2>2
    <3>2. CASE \E a \in alerts : a.since = upUntil
        BY <2>2, <3>2 DEF ToldInv
    <3>3. CASE upUntil = clock
        BY <1>0, <2>1, <2>2, <3>1, <3>3 DEF ToldInv
    <3>4. CASE \E e \in episodes : e.gen = gen /\ e.n = 0 /\ e.due <= upUntil + alertAfter
        BY <2>2, <3>4 DEF ToldInv
    <3>5. disabled => ToldInv'
        BY <2>2 DEF ToldInv
    <3> QED BY <2>2, <2>3, <3>2, <3>3, <3>4, <3>5 DEF AlertsInv, ToldInv
  <2> QED BY <2>4, <2>5, <2>6, <2>7 DEF AlertsInv
<1>5. CASE TearDown
  <2>1. CASE sourceUp /\ Transition(FALSE) /\ upUntil' = clock
    <3>1. ~disabled
        BY <2>1 DEF AlertsInv, ArmedInv
    <3> QED BY <1>5, <2>1, <3>1, TransitionKeeps DEF TearDown
  <2>2. CASE UNCHANGED <<sourceUp, gen, alerts, episodes, upUntil>>
      BY <1>0, <1>5, <2>2 DEF TearDown, AlertsInv, AlertsTypes, EpisodesInv, ArmedInv, ToldInv
  <2> QED BY <1>5, <2>1, <2>2 DEF TearDown
<1>6. ASSUME NEW e \in episodes, Wake(e) PROVE AlertsInv'
  <2> DEFINE later == [e EXCEPT !.n = @ + 1, !.due = clock + RepeatEvery]
             told == [at |-> clock, since |-> upUntil, n |-> e.n + 1]
  <2>0. e.due <= clock /\ UNCHANGED <<alertAfter, disabled, clock, worker, sourceUp, gen, flips, upUntil>>
      BY <1>6 DEF Wake
  <2>1. /\ later \in Episodes /\ later.gen = e.gen /\ later.armed = e.armed
        /\ later.due = clock + RepeatEvery /\ later.n = e.n + 1
    <3>1. e \in [gen : Nat, armed : Nat, due : Nat, n : Nat] /\ e.n + 1 \in Nat /\ clock + RepeatEvery \in Nat
        BY <1>0 DEF Episodes
    <3>2. later \in [gen : Nat, armed : Nat, due : Nat, n : Nat]
        BY <3>1
    <3> QED BY <3>1, <3>2 DEF Episodes
  <2>2. told \in [at : Nat, since : Nat, n : Nat] /\ told.at = clock /\ told.since = upUntil
      BY <1>0
  <2>3. \/ /\ e.gen = gen /\ ~sourceUp
           /\ episodes' = (episodes \ {e}) \cup {later} /\ alerts' = alerts \cup {told}
        \/ /\ e.n = 0 => e.gen # gen \/ sourceUp
           /\ episodes' = episodes \ {e} /\ alerts' = alerts
      BY <1>6 DEF Wake, MayAlert, MayRepeat, Superseded, EmitAlert
  <2> HIDE DEF later, told
  <2>4. e.n + 1 <= clock /\ e.armed + alertAfter <= clock /\ e.gen <= gen /\ e.armed <= clock
      BY <1>0, <2>0 DEF AlertsInv, EpisodesInv
  <2>5. AlertsTypes'
      BY <1>0, <2>0, <2>1, <2>2, <2>3 DEF AlertsInv, AlertsTypes
  <2>6. e.gen = gen /\ ~sourceUp => upUntil + alertAfter <= clock
      BY <1>0, <2>4 DEF AlertsInv, ArmedInv
  <2>7. EpisodesInv'
    <3>1. \A x \in episodes' : x.gen <= gen' /\ x.armed <= clock' /\ clock' <= x.due /\ x.n < x.due
                           /\ x.n <= clock' /\ x.armed + alertAfter' <= x.due
        BY <1>0, <2>0, <2>1, <2>3, <2>4 DEF AlertsInv, EpisodesInv
    <3>2. \A a \in alerts' : 1 <= a.since /\ a.at <= clock' /\ a.since + alertAfter' <= a.at
        BY <1>0, <2>0, <2>2, <2>3, <2>6 DEF AlertsInv, EpisodesInv
    <3> QED BY <2>0, <3>1, <3>2 DEF AlertsInv, EpisodesInv
  <2>8. ArmedInv'
      BY <2>0, <2>1, <2>3 DEF AlertsInv, ArmedInv
  <2>9. ToldInv'
    <3>1. told \in alerts' \/ (\A x \in episodes : x.gen = gen /\ x.n = 0 /\ ~sourceUp => x \in episodes')
        BY <2>3
    <3> QED BY <2>0, <2>2, <2>3, <3>1 DEF AlertsInv, ToldInv
  <2> QED BY <2>5, <2>7, <2>8, <2>9 DEF AlertsInv
<1>7. CASE AlertTick
  <2>1. /\ clock < MaxClock /\ clock' = clock + 1 /\ \A e \in episodes : e.due > clock
        /\ worker \in {"running", "gone"} /\ upUntil' = IF sourceUp THEN clock' ELSE upUntil
        /\ UNCHANGED <<alertAfter, disabled, worker, sourceUp, gen, episodes, alerts, flips>>
      BY <1>7 DEF AlertTick
  <2>2. AlertsTypes'
      BY <1>0, <2>1 DEF AlertsInv, AlertsTypes
  <2>3. EpisodesInv'
    <3>1. \A a \in alerts : a.at \in Nat
        BY DEF AlertsInv, AlertsTypes
    <3> QED BY <1>0, <2>1, <3>1 DEF AlertsInv, EpisodesInv
  <2>4. ArmedInv' /\ ToldInv'
      BY <1>0, <2>1 DEF AlertsInv, ArmedInv, ToldInv
  <2> QED BY <2>2, <2>3, <2>4 DEF AlertsInv
<1>8. CASE UNCHANGED alerting
    BY <1>8 DEF alerting, AlertsInv, AlertsTypes, EpisodesInv, ArmedInv, ToldInv
<1> QED BY <1>1, <1>2, <1>3, <1>4, <1>5, <1>6, <1>7, <1>8 DEF AlertsNext

LEMMA AlertsInvImplies == AlertsInv => AlertsTypeOK /\ OutagesAlert
<1> SUFFICES ASSUME AlertsInv PROVE AlertsTypeOK /\ OutagesAlert
    OBVIOUS
<1> USE AlertConstants
<1>0. /\ alertAfter \in Nat /\ clock \in Nat /\ clock >= 1 /\ upUntil \in Nat /\ gen \in Nat /\ flips \in Nat
      /\ \A e \in episodes : e \in Episodes /\ e.gen \in Nat /\ e.armed \in Nat /\ e.due \in Nat /\ e.n \in Nat
      /\ \A a \in alerts : a.at \in Nat /\ a.since \in Nat
    BY DEF AlertsInv, AlertsTypes, Episodes
<1>1. \A e \in episodes : e.gen \in 0..gen /\ e.armed <= clock /\ e.due > e.armed - 1
    BY <1>0 DEF AlertsInv, EpisodesInv
<1>2. \A a \in alerts : a.at \in 1..clock /\ a.since \in 1..a.at /\ a.at - a.since >= alertAfter
    BY <1>0 DEF AlertsInv, EpisodesInv
<1>3. OutagesAlert
  <2>1. OnlyOutagesAlert
      BY <1>2 DEF OnlyOutagesAlert, AlertsInv, ArmedInv
  <2>2. LongOutagesAlert
      BY <1>0 DEF LongOutagesAlert, AlertsInv, ToldInv, EpisodesInv
  <2> QED BY <2>1, <2>2 DEF OutagesAlert
<1> QED BY <1>0, <1>1, <1>2, <1>3 DEF AlertsTypeOK, AlertsInv, AlertsTypes, EpisodesInv

-----------------------------------------------------------------------------
(* The task.                                                                   *)

\* A behaviour of the two halves is one of each.
LEMMA HalvesStand ==
    Spec => /\ SourcesInit /\ [][SourcesNext]_sources
            /\ AlertsInit /\ [][AlertsNext]_alerting
<1>1. Init => SourcesInit /\ AlertsInit
    BY DEF Init
<1>2. [Next]_vars => [SourcesNext]_sources /\ [AlertsNext]_alerting
    BY DEF Next, vars
<1> QED BY <1>1, <1>2, PTL DEF Spec

\* Whatever mixes of sessions, deaths, looks and timers a task goes through, its state keeps its
\* shape: the events are times, a sensor's last reading is one that can be told, an alert is not
\* older than its outage.
THEOREM TaskStaysTyped == Spec => []TaskTypeOK
<1>1. SourcesTypes /\ [SourcesNext]_sources => SourcesTypes'
    BY SourcesStepTypes
<1>2. AlertsInv /\ [AlertsNext]_alerting => AlertsInv'
    BY AlertsStep
<1>3. SourcesTypes /\ AlertsInv => TaskTypeOK
    BY TypesMean, AlertsInvImplies DEF TaskTypeOK
<1> QED BY <1>1, <1>2, <1>3, HalvesStand, SourcesStartTyped, AlertsStart, PTL

\* No event stays open for want of a STOP (motion.rs, frigate_motion.rs, ha_motion.rs): every end
\* of a session closes its event, a panic apart, and one of Frigate's whose end was lost is over a
\* tick after OBJECT_TTL. STOP_GRACE is 5 seconds and OBJECT_TTL 30.
THEOREM NoEventIsStuck ==
    ASSUME StopGrace <= TTL + 1
    PROVE  Spec => []EventsEnd
<1>1. SourcesTypes /\ [SourcesNext]_sources => SourcesTypes'
    BY SourcesStepTypes
<1>2. KeysInv /\ [SourcesNext]_sources => KeysInv'
    BY NextKeys
<1>3. SourcesTypes /\ KeysInv /\ SilentInv /\ [SourcesNext]_sources => SilentInv'
    BY SilentStep
<1>4. SourcesTypes /\ KeysInv /\ SilentInv => EventsEnd
    BY SilentMeans DEF EventsEnd, KeysInv, Keyed, OpenKeysAreEvents
<1> QED BY <1>1, <1>2, <1>3, <1>4, HalvesStand, SourcesStartTyped, InitKeys, SilentStart, PTL

\* Issue 411 and its opposite (motion.rs report_health, run_unhealthy_alert_episode): while the
\* source's task runs, an outage that lasts is told of, and nothing else ever is, whatever timers
\* of earlier outages, restarts and panics are still asleep.
THEOREM OutagesAreTold == Spec => []OutagesAlert
<1>1. AlertsInv /\ [AlertsNext]_alerting => AlertsInv'
    BY AlertsStep
<1>2. AlertsInv => OutagesAlert
    BY AlertsInvImplies
<1> QED BY <1>1, <1>2, HalvesStand, AlertsStart, PTL
=================================================================================
