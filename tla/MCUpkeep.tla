------------------------------- MODULE MCUpkeep -------------------------------
(* Three jobs of the recorder that share no state: the stream table, the sweeps of  *)
(* one policy, the supervisor. A behaviour is one of any of them, the others stand  *)
(* still.                                                                          *)
EXTENDS StreamRegistry, Sweeps, Supervisor

VARIABLE part

Two == [d \in Disks |-> 2]

Policy(archiving, live, archive, cap, archiveCap, spill, ceiling) ==
    [archiving |-> archiving, live |-> live, archive |-> archive, cap |-> cap,
     archiveCap |-> archiveCap, spill |-> spill, ceiling |-> ceiling]

\* Moves to another disk under the floor; size caps where both tiers share a disk; no archive.
MCPolicies ==
    { Policy(TRUE, "main", "second", 0, 0, 1, FALSE),
      Policy(TRUE, "main", "main", 1, 1, 0, TRUE),
      Policy(FALSE, "main", "second", 2, 0, 1, FALSE) }

vars == <<part, registry, sweeps, supervisor>>

\* Where the sweeps stand still, whatever the rest of their state is.
Standing ==
    /\ policy = CHOOSE p \in Policies : TRUE
    /\ away = {} /\ files = 1..Born
    /\ stage = [s \in Segs |-> IF s > Born THEN "unborn" ELSE "live"]
    /\ disk = [s \in Segs |-> policy.live]

\* One camera has a stream to register, the other one is yet to be added.
OneCamera == \E n \in Names : cameras = [None EXCEPT ![n] = CHOOSE s \in Sources : TRUE]

Init ==
    /\ part \in {"streams", "sweeps", "supervisor"}
    /\ RegistryInit /\ OneCamera /\ (part # "streams" => cameras["a"] # "none")
    /\ SweepsInit /\ (part # "sweeps" => Standing)
    /\ SupervisorInit /\ (part # "supervisor" => rows = [c \in Cameras |-> "off"])

Next ==
    /\ UNCHANGED part
    /\ \/ part = "streams" /\ RegistryNext /\ UNCHANGED <<sweeps, supervisor>>
       \/ part = "sweeps" /\ SweepsNext /\ UNCHANGED <<registry, supervisor>>
       \/ part = "supervisor" /\ SupervisorNext /\ UNCHANGED <<registry, sweeps>>

\* The fairness each part states for itself, of the part that moves.
Fairness ==
    /\ WF_registry(part = "streams" /\ EnsureStep)
    /\ WF_sweeps(part = "sweeps" /\ SweepStep)
    /\ WF_sweeps(part = "sweeps" /\ GrowOlder)
    /\ WF_supervisor(part = "supervisor" /\ SyncStep)
    /\ SF_supervisor(part = "supervisor" /\ StopAll)
    /\ WF_supervisor(part = "supervisor" /\ Starts)

Spec == Init /\ [][Next]_vars /\ Fairness

UpkeepTypeOK == RegistryTypeOK /\ SweepsTypeOK /\ SupervisorTypeOK

\* What each part promises in the end: streams for the cameras and the right ones, room on
\* the recording disk and nothing past the ceiling, one running worker for each camera and,
\* once shutdown has begun, an end.
UpkeepConverges ==
    /\ part = "streams" => CamerasGetStreams /\ SourcesConverge
    /\ part = "sweeps" => FloorRelieved /\ CeilingHolds
    /\ part = "supervisor" => WorkersConverge /\ ShutdownEnds
=============================================================================
