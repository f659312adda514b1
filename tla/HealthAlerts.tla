---------------------------- MODULE HealthAlerts ----------------------------
(* How an outage of a camera reaches the operator: the watchdog of alerts.rs with *)
(* its latch and graces, the rows of system_events, and the notification engine   *)
(* with its cursor and gates. Latch, cursor, cooldown and maintenance window live *)
(* in the API's memory.                                                           *)
EXTENDS Integers, FiniteSetsExt

CONSTANTS
    Outages,     \* numbers of the outages, in order
    Batch,       \* ENGINE_BATCH
    MaxOthers,   \* bound: rows of other writers
    MaxChanges   \* bound: settings changed, restarts, failures

ASSUME HealthAssumption ==
    /\ Outages \subseteq Nat \ {0} /\ \A n \in Outages : 1..n \subseteq Outages
    /\ Batch \in Nat \ {0} /\ MaxOthers \in Nat /\ MaxChanges \in Nat

VARIABLES
    outage,   \* the outage under way, 0 while the camera reports
    outages,  \* outages so far
    stale,    \* the age of the last sign of life is over the threshold
    grace,    \* within_boot_grace, within_camera_create_grace
    rule,     \* system_alert_rules: camera_offline is enabled
    latch,    \* was_offline
    insert,   \* the row the watchdog is inserting, if any
    stamps,   \* time, as the last stamp given to a row
    flying,   \* rows of other writers, stamped and not committed
    events,   \* committed rows
    cursor,   \* sys_last_ts
    batch,    \* dispatch_system_events_tick: the rows it goes through
    muted,    \* "maintenance": the window is armed; "off": the master switch
    quiet,    \* quiet hours, not bypassed
    cooling,  \* cooldown_map has the camera
    changes,
    told, dropped  \* history: outages dispatched; whose row a gate, a failure or the cursor passed over

health == <<outage, outages, stale, grace, rule, latch, insert, stamps, flying, events, cursor, batch,
            muted, quiet, cooling, changes, told, dropped>>

camera == <<outage, outages, stale>>
watchdog == <<grace, latch, insert>>
table == <<stamps, flying, events>>
engine == <<cursor, batch, cooling, told, dropped>>
settings == <<rule, muted, quiet>>

NoBatch == [rows |-> {}, last |-> 0, open |-> FALSE]

HealthInit ==
    /\ outage = 0 /\ outages = 0 /\ stale = FALSE
    /\ grace = TRUE /\ latch = FALSE /\ insert = {}
    /\ stamps = 0 /\ flying = {} /\ events = {}
    /\ cursor = 0 /\ batch = NoBatch /\ cooling = FALSE /\ told = {} /\ dropped = {}
    /\ rule = TRUE /\ muted = {} /\ quiet = FALSE
    /\ changes = 0

Change == changes < MaxChanges /\ changes' = changes + 1

\* Rows the cursor had passed before they were committed: nobody will read them.
Overtaken(landed) == {r.of : r \in {r \in landed : r.ts <= cursor}} \ {0}

-----------------------------------------------------------------------------
(* The camera, the clock and the operator.                                     *)

CameraFails ==
    /\ outage = 0 /\ outages + 1 \in Outages
    /\ outages' = outages + 1 /\ outage' = outages'
    /\ UNCHANGED <<stale, watchdog, table, engine, settings, changes>>

CameraReturns ==
    /\ outage # 0 /\ outage' = 0 /\ stale' = FALSE
    /\ UNCHANGED <<outages, watchdog, table, engine, settings, changes>>

\* The threshold is longer than the watchdog's period: of the last outage nothing is left to do.
GoesStale ==
    /\ outage # 0 /\ ~stale /\ ~latch /\ insert = {} /\ stale' = TRUE
    /\ UNCHANGED <<outage, outages, watchdog, table, engine, settings, changes>>

GraceEnds ==
    /\ grace /\ grace' = FALSE
    /\ UNCHANGED <<camera, latch, insert, table, engine, settings, changes>>

\* Another pid in the heartbeat.
RecorderRestarts ==
    /\ ~grace /\ Change /\ grace' = TRUE
    /\ UNCHANGED <<camera, latch, insert, table, engine, settings>>

CooldownEnds ==
    /\ cooling /\ cooling' = FALSE
    /\ UNCHANGED <<camera, watchdog, table, cursor, batch, told, dropped, settings, changes>>

\* The rule, the quiet hours, the master switch, arm_maintenance and its expiry.
SettingsChange ==
    /\ Change
    /\ \/ rule' = ~rule /\ UNCHANGED <<muted, quiet>>
       \/ quiet' = ~quiet /\ UNCHANGED <<rule, muted>>
       \/ /\ \E m \in {"maintenance", "off"} :
                muted' = IF m \in muted THEN muted \ {m} ELSE muted \cup {m}
          /\ UNCHANGED <<rule, quiet>>
    /\ UNCHANGED <<camera, watchdog, table, engine>>

-----------------------------------------------------------------------------
(* check_camera_offline.                                                       *)

\* A disabled rule, or a fresh sign of life, clears the latch.
CheckClears ==
    /\ insert = {} /\ latch /\ (~rule \/ ~stale)
    /\ latch' = FALSE
    /\ UNCHANGED <<camera, grace, insert, table, engine, settings, changes>>

\* In a grace the transition is held and not latched. insert_system_event_full: the stamp ...
CheckFires ==
    /\ insert = {} /\ rule /\ stale /\ ~latch /\ ~grace
    /\ stamps' = stamps + 1
    /\ insert' = {[ts |-> stamps', of |-> outage]}
    /\ UNCHANGED <<camera, grace, latch, flying, events, engine, settings, changes>>

\* Mutant: the outage is latched although its row could not be written.
LatchesAnyway ==
    /\ insert # {} /\ insert' = {} /\ latch' = TRUE
    /\ \/ /\ events' = events \cup insert
          /\ dropped' = dropped \cup Overtaken(insert)
          /\ UNCHANGED changes
       \/ Change /\ UNCHANGED <<events, dropped>>
    /\ UNCHANGED <<camera, grace, stamps, flying, cursor, batch, cooling, told, settings>>

\* ... and the commit, after which the outage is latched. A failed insert is tried again.
InsertEnds ==
    /\ insert # {} /\ insert' = {}
    /\ \/ /\ events' = events \cup insert /\ latch' = TRUE
          /\ dropped' = dropped \cup Overtaken(insert)
          /\ UNCHANGED changes
       \/ Change /\ UNCHANGED <<events, latch, dropped>>
    /\ UNCHANGED <<camera, grace, stamps, flying, cursor, batch, cooling, told, settings>>

\* The other writers of the table: recorder, ingester, the other checks.
OtherStamps ==
    /\ Cardinality({r \in flying \cup events : r.of = 0}) < MaxOthers
    /\ stamps' = stamps + 1
    /\ flying' = flying \cup {[ts |-> stamps', of |-> 0]}
    /\ UNCHANGED <<camera, watchdog, events, engine, settings, changes>>

OtherLands ==
    /\ \E r \in flying : flying' = flying \ {r} /\ events' = events \cup {r}
    /\ UNCHANGED <<camera, watchdog, stamps, engine, settings, changes>>

-----------------------------------------------------------------------------
(* dispatch_system_events_tick.                                                *)

\* system_events_since: the oldest rows past the cursor.
Since == {r \in events : r.ts > cursor /\ Cardinality({q \in events : q.ts \in cursor + 1..r.ts}) <= Batch}

\* Muted, the batch is consumed as it is. Switches, channels, rules and quiet hours are read
\* once, before the first row is dispatched.
Reads ==
    /\ batch = NoBatch /\ Since # {}
    /\ IF muted # {}
       THEN /\ cursor' = Max({r.ts : r \in Since})
            /\ dropped' = dropped \cup ({r.of : r \in Since} \ {0})
            /\ UNCHANGED batch
       ELSE /\ batch' = [rows |-> Since, last |-> Max({r.ts : r \in Since}), open |-> rule /\ ~quiet]
            /\ UNCHANGED <<cursor, dropped>>
    /\ UNCHANGED <<camera, watchdog, table, cooling, told, settings, changes>>

\* Rows behind the end of the batch that were committed after it was read: the cursor passes them.
Missed(r) ==
    IF batch.rows # {r} THEN {}
    ELSE {q.of : q \in {q \in events : q.ts \in cursor + 1..batch.last}} \ (told \cup {0, r.of})

\* The next row of the batch: rule and quiet hours, cooldown, the channels. Cooling starts
\* before anything is sent, and a delivery that fails is logged, not repeated.
Dispatches ==
    /\ \E r \in batch.rows :
          /\ \A q \in batch.rows : r.ts <= q.ts
          /\ IF r.of # 0 /\ batch.open /\ ~cooling
             THEN /\ cooling' = TRUE
                  /\ \/ told' = told \cup {r.of} /\ UNCHANGED changes
                     \/ Change /\ UNCHANGED told
             ELSE UNCHANGED <<cooling, told, changes>>
          /\ dropped' = dropped \cup Missed(r) \cup ({r.of} \ (told' \cup {0}))
          /\ IF batch.rows = {r}
             THEN batch' = NoBatch /\ cursor' = batch.last
             ELSE batch' = [batch EXCEPT !.rows = @ \ {r}] /\ UNCHANGED cursor
    /\ UNCHANGED <<camera, watchdog, table, settings>>

-----------------------------------------------------------------------------

\* Mutant: the latch is kept over a restart.
Remembered == latch

\* was_offline of a new process.
Forgotten == FALSE

\* The API restarts: "history is not replayed", what was latched is checked again, and the
\* environment says whether a maintenance window is armed.
ApiRestarts ==
    /\ Change
    /\ latch' = Forgotten /\ insert' = {} /\ grace' = TRUE
    /\ events' \in {events, events \cup insert}
    /\ cursor' = stamps /\ batch' = NoBatch /\ cooling' = FALSE
    /\ muted' \in {muted \ {"maintenance"}, muted \cup {"maintenance"}}
    /\ UNCHANGED <<camera, stamps, flying, told, dropped, rule, quiet>>

WatchStep == CheckClears \/ CheckFires \/ InsertEnds
EngineStep == Reads \/ Dispatches
TimePasses == GoesStale \/ GraceEnds

HealthNext ==
    \/ CameraFails \/ CameraReturns \/ TimePasses \/ CooldownEnds
    \/ RecorderRestarts \/ SettingsChange \/ ApiRestarts
    \/ WatchStep \/ OtherStamps \/ OtherLands \/ EngineStep

\* Watchdog and engine are loops of the API.
HealthFairness ==
    /\ WF_health(WatchStep) /\ WF_health(EngineStep)
    /\ WF_health(GoesStale) /\ WF_health(GraceEnds)

HealthSpec == HealthInit /\ [][HealthNext]_health /\ HealthFairness

-----------------------------------------------------------------------------
(* Properties.                                                                 *)

HealthTypeOK ==
    /\ outage \in {0, outages} /\ outages \in Outages \cup {0} /\ (stale => outage # 0)
    /\ insert \cup flying \cup events \subseteq [ts : 1..stamps, of : 0..outages]
    /\ \A q, r \in insert \cup flying \cup events : q.ts = r.ts => q = r
    /\ cursor <= stamps /\ \A r \in batch.rows : r.ts \in cursor + 1..batch.last
    /\ told \cup dropped \subseteq 1..outages

\* "never silently missing a still-ongoing outage": while the rule is on, an outage that lasts
\* is sent to the channels, whatever restarts and graces come in between, or its row met a
\* gate, a failed delivery, or a cursor that had already passed.
OutagesAreTold ==
    \A n \in Outages :
        outage = n /\ rule ~> outage # n \/ ~rule \/ n \in told \cup dropped
=============================================================================
