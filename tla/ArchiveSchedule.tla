---------------------------- MODULE ArchiveSchedule ----------------------------
(* When the archiver runs (archive.rs: run_scheduler, tick, CronTracker): each      *)
(* tick reads the cameras, then the clock, asks every camera's tracker whether its  *)
(* schedule has an occurrence since the last check, and moves what one shared       *)
(* budget allows. The clock may step back, schedules are edited at any time.        *)
EXTENDS Naturals, FiniteSets

CONSTANTS
    ArchiveCameras, \* 1..N, in the order they are listed
    Schedules,      \* valid expressions
    Occurs,         \* the instants of each, two to a minute
    Footage,        \* a camera's live segments past live_retention_hours, oldest first
    Unmovable,      \* those whose move always fails
    ListLimit,      \* ARCHIVE_LIST_LIMIT
    Budget,         \* moves a tick has time for: archive_tick_budget
    MaxClock,       \* bound: the last instant
    MaxScheduleEdits, MaxUpsets \* bounds

\* Were there as many unmovable rows as one list or one tick takes, they would be all it tries.
ASSUME ScheduleAssumption ==
    /\ Schedules \cap {"bad", "none", "deleted"} = {} /\ IsFiniteSet(Footage)
    /\ Budget \in Nat /\ ListLimit \in Nat /\ MaxClock \in Nat /\ MaxClock > 2
    /\ ArchiveCameras = 1..Cardinality(ArchiveCameras) /\ Footage = 1..Cardinality(Footage)
    /\ Occurs \in [Schedules -> SUBSET (1..MaxClock)]
    /\ Unmovable \subseteq Footage
    /\ Cardinality(Unmovable) * Cardinality(ArchiveCameras) < Budget
    /\ Cardinality(Unmovable) < ListLimit

VARIABLES
    clock,      \* what Utc::now() says
    latest,     \* history: the highest it said
    setting,    \* archive_schedule: valid, "bad", "none" (or archiving off), "deleted"
    tracker,    \* cron_trackers; schedule "none" where there is no entry
    round,      \* the tick: step, rows it read, its now, camera it is at, due, budget left
    waiting,    \* footage still in the live tier
    owed,       \* history: instants that came while the schedule was set and tracked
    settled,    \* history: instants of its schedule that a check has ruled on
    promised,   \* history: footage that waited when its schedule fired, not tried since
    reschedules, upsets

schedule == <<clock, latest, setting, tracker, round, waiting, owed, settled, promised,
              reschedules, upsets>>

Settings == Schedules \cup {"bad", "none", "deleted"}
NoTracker == [schedule |-> "none", checked |-> 0, backlog |-> FALSE]
IdleRound == [step |-> "idle", rows |-> [c \in ArchiveCameras |-> "none"], now |-> 0,
              camera |-> 1, due |-> FALSE, left |-> Budget]
MinuteOf(t) == t - (t % 2)
Forget(c) ==
    /\ owed' = [owed EXCEPT ![c] = {}] /\ promised' = [promised EXCEPT ![c] = {}]
    /\ settled' = [settled EXCEPT ![c] = {}]

ScheduleInit ==
    /\ clock \in {2, 3} /\ latest = clock
    /\ setting \in [ArchiveCameras -> Settings \ {"deleted"}]
    /\ tracker = [c \in ArchiveCameras |-> NoTracker] /\ round = IdleRound
    /\ waiting = [c \in ArchiveCameras |-> Footage]
    /\ owed = [c \in ArchiveCameras |-> {}] /\ settled = owed /\ promised = owed
    /\ reschedules = 0 /\ upsets = 0

-----------------------------------------------------------------------------
(* The world.                                                                  *)

PassTime ==
    /\ clock < MaxClock /\ clock' = clock + 1
    /\ IF clock' > latest
       THEN /\ latest' = clock'
            /\ owed' = [c \in ArchiveCameras |->
                          IF /\ tracker[c] # NoTracker /\ setting[c] \in Schedules
                             /\ clock' \in Occurs[setting[c]]
                          THEN owed[c] \cup {clock'} ELSE owed[c]]
       ELSE UNCHANGED <<latest, owed>>
    /\ UNCHANGED <<setting, tracker, round, waiting, settled, promised, reschedules, upsets>>

StepBack ==
    /\ upsets < MaxUpsets /\ upsets' = upsets + 1
    /\ clock' \in {clock - 1, clock - 2} /\ clock' > 1
    /\ UNCHANGED <<latest, setting, tracker, round, waiting, owed, settled, promised, reschedules>>

\* What the old schedule owed is owed no more.
Reschedule(c, s) ==
    /\ setting[c] \notin {s, "deleted"}
    /\ reschedules < MaxScheduleEdits /\ reschedules' = reschedules + 1
    /\ setting' = [setting EXCEPT ![c] = s] /\ owed' = [owed EXCEPT ![c] = {}]
    /\ waiting' = IF s = "deleted" THEN [waiting EXCEPT ![c] = {}] ELSE waiting
    /\ UNCHANGED <<clock, latest, tracker, round, settled, promised, upsets>>

\* The trackers, and the backlog flags in them, are in memory only.
RestartScheduler ==
    /\ upsets < MaxUpsets /\ upsets' = upsets + 1
    /\ tracker' = [c \in ArchiveCameras |-> NoTracker] /\ round' = IdleRound
    /\ owed' = [c \in ArchiveCameras |-> {}] /\ promised' = owed'
    /\ settled' = owed'
    /\ UNCHANGED <<clock, latest, setting, waiting, reschedules>>

-----------------------------------------------------------------------------
(* One tick. A list that fails skips it.                                       *)

ListCameras ==
    /\ round.step = "idle" /\ round' = [round EXCEPT !.step = "listed", !.rows = setting]
    /\ UNCHANGED <<clock, latest, setting, tracker, waiting, owed, settled, promised,
                   reschedules, upsets>>

\* An edit since the list is not known to this tick, which yet takes this instant as checked.
TakeNow ==
    /\ round.step = "listed" /\ round' = [round EXCEPT !.step = "check", !.now = clock]
    /\ owed' = [c \in ArchiveCameras |-> IF round.rows[c] = setting[c] THEN owed[c] ELSE {}]
    /\ UNCHANGED <<clock, latest, setting, tracker, waiting, settled, promised, reschedules, upsets>>

\* Mutant: a schedule that was edited starts afresh.
EnsureFreshTracker(t, s) == IF t.schedule = s THEN t ELSE [NoTracker EXCEPT !.schedule = s]

\* A schedule that was edited keeps the window and the backlog.
EnsureTracker(t, s) == [t EXCEPT !.schedule = s]

\* Mutant: the instants of the current minute.
CurrentMinute(t, now) == MinuteOf(now) - 1

\* After the last check; the first one takes the current minute.
WindowStart(t, now) == IF t.checked = 0 THEN MinuteOf(now) - 1 ELSE t.checked

\* Mutant: a clock that stepped back moves the window back.
AdvanceAnyway(t, now) == [t EXCEPT !.checked = now]

\* The window never moves back.
Advance(t, now) == IF now > WindowStart(t, now) THEN [t EXCEPT !.checked = now] ELSE t

\* is_due: an instant in the window up to now.
IsDue(t, now) == \E i \in Occurs[t.schedule] : WindowStart(t, now) < i /\ i <= now

NextCamera == [round EXCEPT !.step = "check", !.camera = @ + 1, !.due = FALSE]

Here == round.step = "check" /\ round.camera \in ArchiveCameras

\* Archiving is off, there is no schedule, or there is no camera any more.
SkipCamera ==
    /\ Here /\ round.rows[round.camera] \in {"none", "deleted"} /\ round' = NextCamera
    /\ UNCHANGED <<clock, latest, setting, tracker, waiting, owed, settled, promised,
                   reschedules, upsets>>

\* ensure_cron_tracker drops the tracker of an invalid schedule.
DropTracker ==
    /\ Here /\ round.rows[round.camera] = "bad" /\ round' = NextCamera
    /\ tracker' = [tracker EXCEPT ![round.camera] = NoTracker] /\ Forget(round.camera)
    /\ UNCHANGED <<clock, latest, setting, waiting, reschedules, upsets>>

CheckSchedule ==
    /\ Here /\ round.rows[round.camera] \in Schedules
    /\ LET c == round.camera
           t == EnsureTracker(tracker[c], round.rows[c])
           due == IsDue(t, round.now)
           past == {i \in Occurs[t.schedule] : i <= round.now}
       IN /\ tracker' = [tracker EXCEPT ![c] = Advance(t, round.now)]
          /\ round' = IF due \/ t.backlog THEN [round EXCEPT !.step = "run", !.due = due]
                      ELSE NextCamera
          /\ settled' = [settled EXCEPT ![c] = @ \cup past]
          /\ owed' = [owed EXCEPT ![c] = @ \ past]
          /\ promised' = IF due THEN [promised EXCEPT ![c] = waiting[c]] ELSE promised
    /\ UNCHANGED <<clock, latest, setting, waiting, reschedules, upsets>>

-----------------------------------------------------------------------------
(* archive_camera.                                                             *)

OldestOf(S, n) == {s \in S : Cardinality({t \in S : t < s}) < n}

\* Mutant: a list that was cut short is not a backlog.
PendingDeferred(listed, tried) == tried # listed

\* backlog_pending: some of the list was left, or there may be more than it shows.
Pending(listed, tried) == tried # listed \/ Cardinality(listed) >= ListLimit

SetupFails ==
    /\ round.step = "run" /\ upsets < MaxUpsets /\ upsets' = upsets + 1 /\ round' = NextCamera
    /\ tracker' = [tracker EXCEPT ![round.camera].backlog = FALSE]
    /\ promised' = [promised EXCEPT ![round.camera] = {}]
    /\ UNCHANGED <<clock, latest, setting, waiting, owed, settled, reschedules>>

\* Mutant: the whole list, however long it takes.
TriedAll(listed) == listed

\* No move begins past the tick's deadline.
Tried(listed) == OldestOf(listed, round.left)

Listed == OldestOf(waiting[round.camera], ListLimit)

Archive(tried, failed) ==
    /\ waiting' = [waiting EXCEPT ![round.camera] = @ \ (tried \ failed)]
    /\ promised' = [promised EXCEPT ![round.camera] = @ \ tried]
    /\ tracker' = [tracker EXCEPT ![round.camera].backlog = Pending(Listed, tried)]
    /\ round' = [NextCamera EXCEPT !.left = @ - Cardinality(tried)]
    /\ UNCHANGED <<clock, latest, setting, owed, settled, reschedules>>

\* What is listed is tried, oldest first; a move that fails is passed over.
RunArchive ==
    /\ round.step = "run" /\ Archive(Tried(Listed), Unmovable) /\ UNCHANGED upsets

\* A move that finds the destination full is the last one of the run.
DestinationFull ==
    /\ round.step = "run" /\ upsets < MaxUpsets /\ upsets' = upsets + 1
    /\ \E n \in 1..Cardinality(Tried(Listed)) :
          LET tried == OldestOf(Listed, n)
          IN Archive(tried, Unmovable \cup (tried \ OldestOf(tried, n - 1)))

\* The trackers of cameras that are no more go.
EndTick ==
    /\ round.step = "check" /\ round.camera \notin ArchiveCameras /\ round' = IdleRound
    /\ LET gone == {c \in ArchiveCameras : round.rows[c] = "deleted"} IN
       /\ tracker' = [c \in ArchiveCameras |-> IF c \in gone THEN NoTracker ELSE tracker[c]]
       /\ promised' = [c \in ArchiveCameras |-> IF c \in gone THEN {} ELSE promised[c]]
    /\ UNCHANGED <<clock, latest, setting, waiting, owed, settled, reschedules, upsets>>

TickStep ==
    \/ ListCameras \/ TakeNow \/ SkipCamera \/ DropTracker \/ CheckSchedule
    \/ SetupFails \/ RunArchive \/ DestinationFull \/ EndTick

ScheduleNext ==
    \/ TickStep \/ PassTime \/ StepBack \/ RestartScheduler
    \/ \E c \in ArchiveCameras, s \in Settings : Reschedule(c, s)

\* The interval ticks on, whatever the clock says.
ScheduleSpec == ScheduleInit /\ [][ScheduleNext]_schedule /\ WF_schedule(TickStep)

-----------------------------------------------------------------------------
(* Properties.                                                                 *)

ScheduleTypeOK ==
    /\ clock \in 2..MaxClock /\ latest \in clock..MaxClock
    /\ setting \in [ArchiveCameras -> Settings]
    /\ \A c \in ArchiveCameras :
         /\ tracker[c].schedule \in Schedules \cup {"none"}
         /\ tracker[c].checked \in 0..latest /\ tracker[c].backlog \in BOOLEAN
         /\ owed[c] \subseteq 1..latest /\ promised[c] \subseteq Footage
    /\ round.left \in 0..Budget /\ round.now <= latest
    /\ round.step \in {"idle", "listed", "check", "run"}

Checks(c) ==
    /\ Here /\ round.camera = c /\ round.rows[c] \in Schedules
    /\ round' # round /\ round'.step # "idle"
Fires == round'.step = "run" /\ round'.due

\* CronTracker, "each cron occurrence fires exactly once, no matter how the scheduler ticks
\* land around it": a check leaves no instant owed that is not after its now, whatever ticks
\* were slow and whatever was edited; the run it starts is for an instant no check has ruled on
\* before, however the clock stepped, and, if it is the first, for one of this minute.
OccurrencesFireOnce ==
    [][\A c \in ArchiveCameras : Checks(c) =>
          LET past == {i \in Occurs[round.rows[c]] : i <= round.now} IN
          /\ \A i \in owed[c] : i <= round.now => Fires
          /\ Fires => \E i \in past \ settled[c] :
                tracker[c] = NoTracker => i >= MinuteOf(round.now)]_schedule

\* archive_camera, "until the backlog drains": all that waited when the schedule fired is tried
\* in the end, with no other occurrence and whatever the other cameras have to move.
BacklogsEnd ==
    \A c \in ArchiveCameras :
        promised[c] # {} ~> (promised[c] = {} \/ setting[c] \notin Schedules)
=============================================================================
