---------------------------- MODULE MCMotionTask ----------------------------
(* The two halves of a camera's motion task that share no state once a source has *)
(* changed its health: the sources with the aggregator, and the alert about one   *)
(* of them. A behaviour is one of either half, the other one stands still.        *)
EXTENDS MotionSources, UnhealthyAlerts

VARIABLE half

MCEnabled == {{"frigate"}, {"pixel", "ha"}}
MCPixel == {{"pixel"}}

vars == <<half, sources, alerting>>

Init ==
    /\ half \in {"sources", "alerts"}
    /\ SourcesInit /\ (half # "sources" => enabled = CHOOSE e \in Enabled : TRUE)
    /\ AlertsInit /\ (half # "alerts" => ~disabled /\ alertAfter = CHOOSE a \in AlertAfters : TRUE)

Next ==
    /\ UNCHANGED half
    /\ \/ half = "sources" /\ SourcesNext /\ UNCHANGED alerting
       \/ half = "alerts" /\ AlertsNext /\ UNCHANGED sources

\* The fairness of the half that moves.
Spec == Init /\ [][Next]_vars /\ (half = "sources" => SourcesFairness)

TaskTypeOK == SourcesTypeOK /\ AlertsTypeOK

\* Once everything answers for good, every source is back and the camera is gated again.
MotionTaskRecovers == half = "sources" => SourcesRecover
=============================================================================
