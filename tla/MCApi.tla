------------------------------- MODULE MCApi -------------------------------
(* Three parts of the API that share nothing, checked in one run.             *)
EXTENDS ExportJobs, HealthAlerts, DetectionIngest

VARIABLE part

\* One Frigate object or one read of the worker, which share nothing but the cursor; two
\* events of the recorder for the cursor. An event of a plate differs from one of a car when
\* texts are ignored.
MCSightings == {<<"car", "none">>, <<"plate", "none">>, <<"pass", "none">>, <<"motion", "motion">>}
MCNothing == {<<>>}

Init ==
    /\ part \in {"exports", "alerts", "detections"}
    /\ ExportsInit /\ HealthInit
    /\ DetectionsInit /\ (part # "detections" => kind = CHOOSE k \in Sightings : TRUE)
    /\ (part # "detections" => ignored = {})
    /\ ("plate" \in {kind[o] : o \in Things} => ignored # {})

Next ==
    /\ \/ part = "exports" /\ ExportsNext /\ UNCHANGED <<health, detections>>
       \/ part = "alerts" /\ HealthNext /\ UNCHANGED <<exports, detections>>
       \/ part = "detections" /\ DetectionsNext /\ UNCHANGED <<exports, health>>
    /\ UNCHANGED part

vars == <<part, exports, health, detections>>

\* Of the last two parts: that some loop of the API, or time, makes a step. It is less than
\* what their specifications assume, and enough.
Spec ==
    /\ Init /\ [][Next]_vars
    /\ \A j \in Jobs : SF_exports(part = "exports" /\ WorkerStep(j))
    /\ WF_exports(part = "exports" /\ SweeperStep)
    /\ WF_health(part = "alerts" /\ (WatchStep \/ EngineStep \/ TimePasses))
    /\ WF_detections(part = "detections" /\ (ApiTaskStep \/ GrowsStale))

\* Entries, rows, tokens and workers of the jobs fit together; latch, rows and cursor of the
\* alerts; things, messages, rows and reads of the detections.
ApiTypeOK == ExportsTypeOK /\ HealthTypeOK /\ DetectionsTypeOK

\* What the jobs and the detections keep: no live work is evicted, a cancel takes effect, an
\* end is only improved upon, an ignored text stays out, no start is passed over.
ApiKeepsItsWord == JobsKeepTheirWord /\ DetectionsKeepTheirWord

\* wait_or_cancel: no job stays queued or running.
EveryExportEnds == part = "exports" => EveryJobEnds

\* No job stays queued or running, an outage that lasts is announced, and no event stays open
\* or in front of the engine's cursor.
ApiConverges ==
    /\ EveryExportEnds
    /\ part = "alerts" => OutagesAreTold
    /\ part = "detections" => DetectionsConverge
=============================================================================
