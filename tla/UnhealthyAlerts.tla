--------------------------- MODULE UnhealthyAlerts ---------------------------
(* The operator's alert about one motion source that stays unhealthy (motion.rs:  *)
(* UnhealthyAlertGate, report_health, run_unhealthy_alert_episode), next to the   *)
(* supervisor that restarts the source and the teardown of its worker. Every      *)
(* timer task is an episode of its own; nothing cancels it but what it reads when *)
(* it wakes up.                                                                   *)
EXTENDS Naturals, FiniteSets

CONSTANTS
    AlertAfters,    \* the values of MOTION_UNHEALTHY_ALERT_SECS an instance allows
    RepeatEvery,    \* UNHEALTHY_REALERT_INTERVAL_SECS
    MaxClock,       \* bound: the clock
    MaxFlips        \* bound: transitions and panics

ASSUME AlertsAssumption ==
    /\ AlertAfters \subseteq Nat
    /\ RepeatEvery \in Nat \ {0} /\ MaxClock \in Nat \ {0} /\ MaxFlips \in Nat

VARIABLES
    alertAfter, \* alert_after_secs
    disabled,   \* the settings rule the source out for good (structural_disable_reason)
    clock,
    worker,     \* "running"; "dead", "paused": the source's task; "gone": torn down
    sourceUp,   \* the health watch of the source
    gen,        \* UnhealthyAlertGate.generation
    episodes,   \* the timer tasks: generation, when armed, when due, alerts so far
    alerts,     \* motion_detector_unhealthy rows: when, and since when the source was down
    flips,      \* transitions and panics so far
    upUntil     \* history: when the source was last healthy

alerting == <<alertAfter, disabled, clock, worker, sourceUp, gen, episodes, alerts, flips, upUntil>>

Episode(g) == [gen |-> g, armed |-> clock, due |-> clock + alertAfter, n |-> 0]

\* insert_system_event.
EmitAlert(e) == alerts' = alerts \cup {[at |-> clock, since |-> upUntil, n |-> e.n + 1]}

\* Mutant: the timer is armed whatever the settings say.
ArmAnyway == {Episode(gen)}

\* should_arm_startup_alert: run_one_source arms an episode of the current generation.
StartupEpisode == IF disabled THEN {} ELSE {Episode(gen)}

AlertsInit ==
    /\ alertAfter \in AlertAfters /\ disabled \in BOOLEAN
    /\ clock = 1 /\ worker = "running" /\ sourceUp = FALSE /\ gen = 0
    /\ episodes = IF disabled THEN {} ELSE {[gen |-> 0, armed |-> 1, due |-> 1 + alertAfter, n |-> 0]}
    /\ alerts = {} /\ flips = 0 /\ upUntil = 1

-----------------------------------------------------------------------------

\* Mutant: fetch_add returns the value before.
TransitionOldGen(healthy) ==
    /\ sourceUp' = healthy
    /\ gen' = gen + 1
    /\ IF ~healthy /\ alertAfter = 0 THEN EmitAlert([n |-> 0]) ELSE UNCHANGED alerts
    /\ episodes' = IF healthy \/ alertAfter = 0 THEN episodes ELSE episodes \cup {Episode(gen)}

\* Mutant: the generation is counted twice.
TransitionAhead(healthy) ==
    /\ sourceUp' = healthy
    /\ gen' = gen + 1
    /\ IF ~healthy /\ alertAfter = 0 THEN EmitAlert([n |-> 0]) ELSE UNCHANGED alerts
    /\ episodes' = IF healthy \/ alertAfter = 0 THEN episodes ELSE episodes \cup {Episode(gen' + 1)}

\* report_health past its early return: a transition retires every episode under way, and
\* one to unhealthy arms its own, or alerts at once.
Transition(healthy) ==
    /\ sourceUp' = healthy
    /\ gen' = gen + 1
    /\ IF ~healthy /\ alertAfter = 0 THEN EmitAlert([n |-> 0]) ELSE UNCHANGED alerts
    /\ episodes' = IF healthy \/ alertAfter = 0 THEN episodes ELSE episodes \cup {Episode(gen')}

\* The source's task reports a change of its health.
ReportHealth ==
    /\ worker = "running" /\ ~disabled
    /\ flips < MaxFlips /\ flips' = flips + 1
    /\ Transition(~sourceUp)
    /\ upUntil' = clock
    /\ UNCHANGED <<alertAfter, disabled, clock, worker>>

SourcePanics ==
    /\ worker = "running"
    /\ flips < MaxFlips /\ flips' = flips + 1
    /\ worker' = "dead"
    /\ UNCHANGED <<alertAfter, disabled, clock, sourceUp, gen, episodes, alerts, upUntil>>

\* The supervision loop forces the watch down, past report_health and its gate.
ForceUnhealthy ==
    /\ worker = "dead" /\ worker' = "paused"
    /\ sourceUp' = FALSE
    /\ upUntil' = IF sourceUp THEN clock ELSE upUntil
    /\ UNCHANGED <<alertAfter, disabled, clock, gen, episodes, alerts, flips>>

\* After its pause it starts the task again, with the same gate.
SourceRespawns ==
    /\ worker = "paused" /\ worker' = "running"
    /\ episodes' = episodes \cup StartupEpisode
    /\ UNCHANGED <<alertAfter, disabled, clock, sourceUp, gen, alerts, flips, upUntil>>

\* The worker is cancelled, and its tasks end in any order: the source's task reports
\* "motion source exiting" unless the aggregator, the watch's only listener, has gone first.
\* Episodes are tasks of their own.
TearDown ==
    /\ worker # "gone" /\ worker' = "gone"
    /\ \/ worker = "running" /\ sourceUp /\ Transition(FALSE) /\ upUntil' = clock
       \/ UNCHANGED <<sourceUp, gen, alerts, episodes, upUntil>>
    /\ UNCHANGED <<alertAfter, disabled, clock, flips>>

-----------------------------------------------------------------------------
(* run_unhealthy_alert_episode.                                                *)

Superseded(e) == gen # e.gen

\* should_repeat_unhealthy_alert.
MayRepeat(e) == ~Superseded(e) /\ ~sourceUp /\ worker # "gone"

\* should_emit_unhealthy_alert: the first alert does not ask who listens.
MayAlert(e) == ~Superseded(e) /\ ~sourceUp

Wake(e) ==
    /\ e.due <= clock
    /\ IF IF e.n = 0 THEN MayAlert(e) ELSE MayRepeat(e)
       THEN /\ EmitAlert(e)
            /\ episodes' = (episodes \ {e}) \cup {[e EXCEPT !.n = @ + 1, !.due = clock + RepeatEvery]}
       ELSE /\ episodes' = episodes \ {e}
            /\ UNCHANGED alerts
    /\ UNCHANGED <<alertAfter, disabled, clock, worker, sourceUp, gen, flips, upUntil>>

\* A tick stands for a minute: timers that are due have run, and a task that died is back,
\* one second after it was noticed.
AlertTick ==
    /\ clock < MaxClock /\ clock' = clock + 1
    /\ \A e \in episodes : e.due > clock
    /\ worker \in {"running", "gone"}
    /\ upUntil' = IF sourceUp THEN clock' ELSE upUntil
    /\ UNCHANGED <<alertAfter, disabled, worker, sourceUp, gen, episodes, alerts, flips>>

AlertsNext ==
    \/ ReportHealth \/ SourcePanics \/ ForceUnhealthy \/ SourceRespawns \/ TearDown
    \/ \E e \in episodes : Wake(e)
    \/ AlertTick

-----------------------------------------------------------------------------
(* Properties.                                                                 *)

AlertsTypeOK ==
    /\ alertAfter \in AlertAfters /\ disabled \in BOOLEAN
    /\ clock \in 1..MaxClock /\ worker \in {"running", "dead", "paused", "gone"}
    /\ sourceUp \in BOOLEAN /\ gen \in 0..MaxFlips + 1 /\ flips \in 0..MaxFlips
    /\ \A e \in episodes : e.gen \in 0..gen /\ e.armed <= clock /\ e.due > e.armed - 1 /\ e.n <= clock
    /\ \A a \in alerts : a.at \in 1..clock /\ a.since \in 1..a.at
    /\ upUntil \in 1..clock

\* Blips page nobody, nor does a camera whose settings rule motion out: whatever episodes of
\* earlier outages, restarts and panics are still asleep, an alert is about an outage that
\* has lasted alert_after_secs.
OnlyOutagesAlert ==
    /\ disabled => alerts = {}
    /\ \A a \in alerts : a.at - a.since >= alertAfter

\* Issue 411: an outage that lasts is told of, from boot, after a transition, and after a
\* panic that bypassed the gate.
LongOutagesAlert ==
    worker = "running" /\ ~disabled /\ ~sourceUp /\ clock - upUntil > alertAfter
        => \E a \in alerts : a.since = upUntil

\* An outage is told of if and only if it lasts.
OutagesAlert == OnlyOutagesAlert /\ LongOutagesAlert
=============================================================================
