---------------------------- MODULE MCStorageMoves ----------------------------
(* Small instances of StorageMoves for TLC: what the three storages lead to.     *)
EXTENDS StorageMoves

\* Directories are numbers.
Leads(l, a, t) ==
    [st \in Storages |-> CASE st = "live" -> l [] st = "archive" -> a [] st = "target" -> t]

\* The archive has a directory to itself; the target is a new disk, or another name of the
\* live one.
Apart == {<<Leads(1, 2, 3), "live">>, <<Leads(1, 2, 3), "archive">>, <<Leads(1, 2, 1), "live">>}

\* The target is the archive's directory: the live disk is given up for it.
Shared == {<<Leads(1, 2, 2), "live">>}
===============================================================================
