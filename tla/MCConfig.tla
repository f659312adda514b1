------------------------------ MODULE MCConfig ------------------------------
(***************************************************************************)
(* The policies and the storage locations, which share no row that their   *)
(* handlers write: a behaviour is one of the one part or of the other.     *)
(***************************************************************************)
EXTENDS RecordingPolicies, StorageLocations, TLC

CONSTANTS c1, c2, g1, a1, a2, p1, p2, v1, v2, v3

VARIABLE part

MCSymmetry == Permutations(Cameras) \cup Permutations(Admins) \cup Permutations(Values)
                \cup Permutations(PolicyIds \ {Default})

\* /data/live, a folder in it, and disks of their own.
MCNested == {<<p, p>> : p \in Paths} \cup {<<"live", "live/old">>, <<"live/old", "live">>}

ConfigInit == Init /\ LocationsInit /\ part \in {"policies", "locations"}
ConfigNext ==
    /\ \/ part = "policies" /\ Next /\ UNCHANGED locations
       \/ part = "locations" /\ LocationsNext /\ UNCHANGED vars
    /\ UNCHANGED part
ConfigSpec == ConfigInit /\ [][ConfigNext]_<<vars, locations, part>>

ConfigTypeOK == TypeOK /\ LocationsTypeOK
=============================================================================
