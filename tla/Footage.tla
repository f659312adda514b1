------------------------------ MODULE Footage ------------------------------
(* What the recorder promises about one camera's segments: a segment is judged, *)
(* a kept one reaches storage, and nothing that has reached storage goes away.  *)
(* PersistPath implements this specification.                                   *)
CONSTANT Segments
VARIABLE status

Stages == {"pending", "kept", "stored"}

Init == status = [s \in Segments |-> "pending"]

Keep(judged) ==
    /\ judged \subseteq {s \in Segments : status[s] = "pending"}
    /\ status' = [s \in Segments |-> IF s \in judged THEN "kept" ELSE status[s]]

\* A segment the cache holds under a name another one was kept under may reach
\* storage together with it, so one step may store several.
Store(some) ==
    /\ some \subseteq {s \in Segments : status[s] = "kept"}
    /\ status' = [s \in Segments |-> IF s \in some THEN "stored" ELSE status[s]]

Next == \E S \in SUBSET Segments : Keep(S) \/ Store(S)

EveryKeptSegmentIsStored == \A s \in Segments : status[s] = "kept" ~> status[s] = "stored"

Spec == Init /\ [][Next]_status /\ EveryKeptSegmentIsStored
=============================================================================
