----------------------------- MODULE Supervisor -----------------------------
(* RecorderSupervisor (main.rs): the poll that holds the running camera workers   *)
(* against the rows and restarts what ended by itself, one camera at a time, and   *)
(* the shutdown. Administrators edit between any two steps.                        *)
EXTENDS Naturals

CONSTANTS
    Cameras,
    Configs,     \* what a worker is configured by
    Backends,    \* motion-decode backends; "env" is the one of the environment
    Services,    \* archive scheduler, heartbeat, ...
    MaxEdits,    \* bound: edits of rows and settings
    MaxFaults    \* bound: panics, hangs, reads that fail, signals, crashes

ASSUME SupervisorAssumption ==
    /\ "off" \notin Configs /\ "-" \notin Cameras /\ "env" \in Backends
    /\ MaxEdits \in Nat /\ MaxFaults \in Nat

VARIABLES
    rows,       \* each camera's effective configuration, "off" where it is not enabled
    backend,    \* server_settings.motion_hwaccel; "env" where it is empty
    workers,    \* the map: each worker's number and fingerprint, number 0 for no worker
    recording,  \* recording tasks that run: camera and number of the worker
    motion,     \* motion tasks that run
    hung,       \* workers that do not react to their cancellation
    sync,       \* sync_cameras: where, what it has read, cameras to do, the one at hand
    services,   \* service tasks that run
    phase,      \* "up", "term" (the token is cancelled), "down"
    edits, faults

supervisor == <<rows, backend, workers, recording, motion, hung, sync, services, phase, edits, faults>>

Numbers == {1, 2}
NoWorker == [n |-> 0, config |-> "off", backend |-> "env"]
NoSync == [step |-> "idle", rows |-> [c \in Cameras |-> "off"], backend |-> "env",
           todo |-> {}, camera |-> "-", stopping |-> 0]

Fault == faults < MaxFaults /\ faults' = faults + 1

SupervisorInit ==
    /\ rows \in [Cameras -> Configs \cup {"off"}] /\ backend = "env"
    /\ workers = [c \in Cameras |-> NoWorker]
    /\ recording = {} /\ motion = {} /\ hung = {}
    /\ sync = NoSync /\ services = Services /\ phase = "up" /\ edits = 0 /\ faults = 0

-----------------------------------------------------------------------------
(* The world.                                                                  *)

Edit ==
    /\ edits < MaxEdits /\ edits' = edits + 1
    /\ \/ \E c \in Cameras, v \in Configs \cup {"off"} :
            rows' = [rows EXCEPT ![c] = v] /\ UNCHANGED backend
       \/ backend' \in Backends /\ UNCHANGED rows
    /\ UNCHANGED <<workers, recording, motion, hung, sync, services, phase, faults>>

TaskPanics ==
    /\ Fault
    /\ \/ \E t \in recording : recording' = recording \ {t} /\ UNCHANGED <<motion, services>>
       \/ \E t \in motion : motion' = motion \ {t} /\ UNCHANGED <<recording, services>>
       \/ \E s \in services : services' = services \ {s} /\ UNCHANGED <<recording, motion>>
    /\ UNCHANGED <<rows, backend, workers, hung, sync, phase, edits>>

TaskHangs ==
    /\ Fault /\ \E t \in recording : hung' = hung \cup {t}
    /\ UNCHANGED <<rows, backend, workers, recording, motion, sync, services, phase, edits>>

Sigterm ==
    /\ Fault /\ phase = "up" /\ phase' = "term"
    /\ UNCHANGED <<rows, backend, workers, recording, motion, hung, sync, services, edits>>

-----------------------------------------------------------------------------
(* One tick: respawn_dead_services, then sync_cameras.                         *)

Enabled(table) == {c \in Cameras : table[c] # "off"}

\* Mutant: a camera that is not enabled is not told apart.
TickAll ==
    /\ phase # "down" /\ sync.step = "idle"
    /\ services' = IF phase = "up" THEN Services ELSE services
    /\ sync' = [NoSync EXCEPT !.step = "settings", !.rows = rows, !.todo = Cameras]
    /\ UNCHANGED <<rows, backend, workers, recording, motion, hung, phase, edits, faults>>

\* Without the list of cameras there is no sync.
Tick ==
    /\ phase # "down" /\ sync.step = "idle"
    /\ services' = IF phase = "up" THEN Services ELSE services
    /\ \/ /\ sync' = [NoSync EXCEPT !.step = "settings", !.rows = rows, !.todo = Enabled(rows)]
          /\ UNCHANGED faults
       \/ Fault /\ UNCHANGED sync
    /\ UNCHANGED <<rows, backend, workers, recording, motion, hung, phase, edits>>

\* effective_hwaccel: settings that cannot be read count as empty.
ReadBackend ==
    /\ sync.step = "settings"
    /\ \/ sync' = [sync EXCEPT !.step = "workers", !.backend = backend] /\ UNCHANGED faults
       \/ sync' = [sync EXCEPT !.step = "workers", !.backend = "env"] /\ Fault
    /\ UNCHANGED <<rows, backend, workers, recording, motion, hung, services, phase, edits>>

Alive(c) == <<c, workers[c].n>> \in recording \cap motion
Running(c) == workers[c] # NoWorker
Removed == {c \in Cameras : Running(c) /\ sync.rows[c] = "off"}

TakeOut(c) ==
    /\ workers' = [workers EXCEPT ![c] = NoWorker]
    /\ sync' = [sync EXCEPT !.camera = c, !.stopping = workers[c].n]

StopRemoved(c) ==
    /\ sync.step = "workers" /\ sync.camera = "-" /\ c \in Removed /\ TakeOut(c)
    /\ UNCHANGED <<rows, backend, recording, motion, hung, services, phase, edits, faults>>

Unchanged(c) == workers[c].config = sync.rows[c] /\ workers[c].backend = sync.backend

\* Mutant: a worker that is dead anyway is replaced without being stopped.
DropDead(c) ==
    /\ sync.step = "workers" /\ sync.camera = "-" /\ Removed = {} /\ c \in sync.todo
    /\ IF ~Running(c) \/ ~Alive(c)
       THEN sync' = [sync EXCEPT !.camera = c] /\ workers' = [workers EXCEPT ![c] = NoWorker]
       ELSE IF Unchanged(c) THEN sync' = [sync EXCEPT !.todo = @ \ {c}] /\ UNCHANGED workers
            ELSE TakeOut(c)
    /\ UNCHANGED <<rows, backend, recording, motion, hung, services, phase, edits, faults>>

\* After the removals, a camera at a time: left alone, to be started, or to be stopped first.
TakeUp(c) ==
    /\ sync.step = "workers" /\ sync.camera = "-" /\ Removed = {} /\ c \in sync.todo
    /\ IF ~Running(c) THEN sync' = [sync EXCEPT !.camera = c] /\ UNCHANGED workers
       ELSE IF Unchanged(c) /\ Alive(c) THEN sync' = [sync EXCEPT !.todo = @ \ {c}] /\ UNCHANGED workers
       ELSE TakeOut(c)
    /\ UNCHANGED <<rows, backend, recording, motion, hung, services, phase, edits, faults>>

\* Mutant: the join has no timeout.
JoinForever ==
    /\ sync.stopping # 0 /\ <<sync.camera, sync.stopping>> \notin hung
    /\ LET stopped == {<<sync.camera, sync.stopping>>} IN
       recording' = recording \ stopped /\ motion' = motion \ stopped /\ hung' = hung \ stopped
    /\ sync' = [sync EXCEPT !.stopping = 0, !.camera = IF sync.rows[@] = "off" THEN "-" ELSE @]
    /\ UNCHANGED <<rows, backend, workers, services, phase, edits, faults>>

\* CameraWorker::stop, after the cancellation: both tasks are joined within eight seconds,
\* or aborted.
StopEnds ==
    /\ sync.stopping # 0
    /\ LET stopped == {<<sync.camera, sync.stopping>>} IN
       recording' = recording \ stopped /\ motion' = motion \ stopped /\ hung' = hung \ stopped
    /\ sync' = [sync EXCEPT !.stopping = 0, !.camera = IF sync.rows[@] = "off" THEN "-" ELSE @]
    /\ UNCHANGED <<rows, backend, workers, services, phase, edits, faults>>

Spawn(how) ==
    /\ sync.camera # "-" /\ sync.stopping = 0
    /\ LET c == sync.camera
           n == CHOOSE i \in Numbers : <<c, i>> \notin recording \cup motion
       IN /\ workers' = [workers EXCEPT ![c] = [n |-> n, config |-> sync.rows[c], backend |-> how]]
          /\ recording' = recording \cup {<<c, n>>} /\ motion' = motion \cup {<<c, n>>}
          /\ sync' = [sync EXCEPT !.camera = "-", !.todo = @ \ {c}]
    /\ UNCHANGED <<rows, backend, hung, services, phase, edits, faults>>

\* Mutant: the worker is given the process's configuration as it is.
SpawnPlain == Spawn("env")

\* The configuration of the spawn holds the effective backend, and so does the fingerprint.
SpawnWorker == Spawn(sync.backend)

SyncEnds ==
    /\ sync.step = "workers" /\ sync.camera = "-" /\ Removed = {} /\ sync.todo = {}
    /\ sync' = NoSync
    /\ UNCHANGED <<rows, backend, workers, recording, motion, hung, services, phase, edits, faults>>

-----------------------------------------------------------------------------
(* The end of the process.                                                     *)

Gone ==
    /\ workers' = [c \in Cameras |-> NoWorker]
    /\ recording' = {} /\ motion' = {} /\ hung' = {} /\ services' = {} /\ sync' = NoSync
    /\ phase' = "down" /\ UNCHANGED <<rows, backend, edits>>

\* The token is looked at between two syncs: stop_all_workers, then the services.
StopAll == phase = "term" /\ sync.step = "idle" /\ Gone /\ UNCHANGED faults

Crashes == Fault /\ phase # "down" /\ Gone

Starts ==
    /\ phase = "down" /\ phase' = "up" /\ services' = Services
    /\ UNCHANGED <<rows, backend, workers, recording, motion, hung, sync, edits, faults>>

-----------------------------------------------------------------------------

SyncStep ==
    \/ Tick \/ ReadBackend \/ StopEnds \/ SpawnWorker \/ SyncEnds
    \/ \E c \in Cameras : StopRemoved(c) \/ TakeUp(c)

SupervisorNext ==
    \/ Edit \/ TaskPanics \/ TaskHangs \/ Sigterm \/ Crashes
    \/ SyncStep \/ StopAll \/ Starts

\* The poll goes on; between a tick that is due and the token select! chooses at random; the
\* container is started again.
SupervisorSpec ==
    /\ SupervisorInit /\ [][SupervisorNext]_supervisor
    /\ WF_supervisor(SyncStep) /\ SF_supervisor(StopAll) /\ WF_supervisor(Starts)

-----------------------------------------------------------------------------
(* Properties.                                                                 *)

SupervisorTypeOK ==
    /\ rows \in [Cameras -> Configs \cup {"off"}] /\ backend \in Backends
    /\ \A c \in Cameras : Running(c) =>
          workers[c].n \in Numbers /\ workers[c].config \in Configs /\ workers[c].backend \in Backends
    /\ recording \cup motion \cup hung \subseteq Cameras \X Numbers
    /\ services \subseteq Services /\ phase \in {"up", "term", "down"}
    /\ sync.step \in {"idle", "settings", "workers"} /\ sync.todo \subseteq Enabled(sync.rows)

\* A task that runs belongs to the worker of the map or to the one that is being stopped:
\* two recorders of a camera would write the same cache names, and one of nobody's could
\* not be stopped. Panics of one task out of two, hangs, edits and a shutdown come between.
TasksAreOwned ==
    \A t \in recording \cup motion :
        workers[t[1]].n = t[2] \/ (sync.camera = t[1] /\ sync.stopping = t[2])

\* Correctness item 14 and audit 2026-07-05: when the edits and the faults are over, every
\* enabled camera has, and keeps, a live worker of its latest configuration, no other one has
\* any, and every service runs.
WorkersConverge ==
    <>[](/\ services = Services
         /\ \A c \in Cameras :
              IF rows[c] = "off" THEN ~Running(c)
              ELSE Running(c) /\ Alive(c) /\ workers[c].config = rows[c] /\ workers[c].backend = backend)

\* Correctness item 6: a shutdown ends, whatever hangs and whatever the sync was about.
ShutdownEnds == phase = "term" ~> phase = "down"
=============================================================================
