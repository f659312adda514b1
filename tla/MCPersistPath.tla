--------------------------- MODULE MCPersistPath ---------------------------
(* Small instances of PersistPath for TLC: segments and start times are numbers. *)
EXTENDS PersistPath

\* A clock that only goes forward.
Forward == [s \in Segments |-> s]

\* A clock stepped back between the first two segments.
SteppedBack == [s \in Segments |-> IF s = 1 THEN 1 ELSE s - 1]

\* Everything but the clock goes wrong; or the clock does, even onto names that the cache
\* still holds.
Hostile ==
    { [segs |-> {1, 2}, faults |-> AllFaults \ {"overwrite"}, startOf |-> Forward, survives |-> TRUE],
      [segs |-> Segments, faults |-> {"copy", "partial", "index", "overwrite"}, startOf |-> SteppedBack,
       survives |-> FALSE] }

\* Failures that stop some time.
Transient ==
    {[segs |-> Segments, faults |-> {"copy", "index", "sync"}, startOf |-> Forward, survives |-> FALSE]}

Circumstances == Hostile \cup Transient
=============================================================================
