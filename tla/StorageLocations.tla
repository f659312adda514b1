-------------------------- MODULE StorageLocations --------------------------
(***************************************************************************)
(* The storage locations: the console creates, repoints and deletes them   *)
(* (services/api/src/config_routes.rs), a recording worker writes under    *)
(* the folder it resolved when it last connected (recorder, recording.rs), *)
(* and a segment's row says only which storage it is on.                   *)
(*                                                                         *)
(* A handler checks in one statement and writes in another.                *)
(***************************************************************************)
EXTENDS FiniteSets

CONSTANTS
    Storages,       \* rows that may exist
    Paths,          \* folders under MEDIA_ROOT, canonical
    Nested,         \* pairs of folders of which one contains the other
    Sessions,       \* console sessions, each with one request at a time
    Careful,        \* operators repoint only storages that nothing records to,
                    \* and delete none that a worker is still writing to
    Nil

ASSUME LocationsAssumption ==
    /\ Nil \notin Storages \cup Paths
    /\ \A p \in Paths : <<p, p>> \in Nested
    /\ \A p, q \in Paths : <<p, q>> \in Nested => <<q, p>> \in Nested

VARIABLES
    root,       \* storages.path, Nil if there is no such row
    live,       \* live_storage_id of the policy, Nil if unset
    worker,     \* the worker's storage and the folder it resolved, or Nil
    pending,    \* segments written and not yet indexed: storage and folder
    indexed,    \* indexed segments: storage, and the folder their bytes are in
    request     \* what each session's handler is doing

locations == <<root, live, worker, pending, indexed, request>>
recorder == <<worker, pending, indexed>>

Places == [storage : Storages, folder : Paths]
Existing == {s \in Storages : root[s] # Nil}
NoRequest == [kind |-> "idle"]

\* Mutant: only the very same folder is refused.
FreeUnlessEqual(path, exclude) == \A s \in Existing \ {exclude} : path # root[s]

\* check_storage_path_overlap, against every row but the edited one.
Free(path, exclude) ==
    \A s \in Existing \ {exclude} : <<path, root[s]>> \notin Nested

On(s) == {x \in indexed : x.storage = s}

Reply(i) == request' = [request EXCEPT ![i] = NoRequest]
Proceed(i, step) == request' = [request EXCEPT ![i].step = step]
Stands(i, kind, step) == request[i].kind = kind /\ request[i].step = step

(***************************************************************************)
(* The console.                                                            *)
(***************************************************************************)

\* No worker has anything of the storage in hand.
Quiet(s) ==
    /\ worker # Nil => worker.storage # s
    /\ \A x \in pending : x.storage # s

Ask(i) ==
    /\ request[i] = NoRequest
    /\ \E s \in Storages :
        \/ /\ root[s] = Nil
           /\ \E p \in Paths :
                request' = [request EXCEPT ![i] =
                    [kind |-> "create", step |-> "check", storage |-> s, path |-> p]]
        \/ /\ root[s] # Nil /\ (Careful => Quiet(s))
           /\ \/ /\ Careful => live # s
                 /\ \E p \in Paths \ {root[s]} :
                      request' = [request EXCEPT ![i] =
                        [kind |-> "repoint", step |-> "count", storage |-> s, path |-> p]]
              \/ request' = [request EXCEPT ![i] =
                    [kind |-> "delete", step |-> "count", storage |-> s]]
    /\ UNCHANGED <<root, live, recorder>>

\* Mutant: a storage that the console has listed, and that may be gone.
ChangeLiveListed(s) ==
    /\ live # s /\ \E i \in Sessions : request[i] = NoRequest
    /\ live' = s
    /\ UNCHANGED <<root, recorder, request>>

\* The policy update that names another live storage: its foreign key holds.
ChangeLive(s) ==
    /\ s \in Existing /\ live # s
    /\ \E i \in Sessions : request[i] = NoRequest
    /\ live' = s
    /\ UNCHANGED <<root, recorder, request>>

\* create_storage: the overlap check reads the rows, then the row is inserted.
StorageCheck(i) ==
    /\ Stands(i, "create", "check")
    /\ IF Free(request[i].path, Nil) THEN Proceed(i, "insert") ELSE Reply(i)
    /\ UNCHANGED <<root, live, recorder>>

StorageInsert(i) ==
    /\ Stands(i, "create", "insert")
    /\ root' = [root EXCEPT ![request[i].storage] = IF @ = Nil THEN request[i].path ELSE @]
    /\ Reply(i)
    /\ UNCHANGED <<live, recorder>>

\* Mutant: a folder that is free is enough.
RepointUncounted(i) == Stands(i, "repoint", "count") /\ Proceed(i, "check")
    /\ UNCHANGED <<root, live, recorder>>

\* update_storage with another folder: refused while there are rows, and when
\* the folder overlaps; then the row is updated.
RepointCount(i) ==
    /\ Stands(i, "repoint", "count")
    /\ IF root[request[i].storage] # Nil /\ On(request[i].storage) = {}
       THEN Proceed(i, "check") ELSE Reply(i)
    /\ UNCHANGED <<root, live, recorder>>

RepointCheck(i) ==
    /\ Stands(i, "repoint", "check")
    /\ IF Free(request[i].path, request[i].storage) THEN Proceed(i, "write") ELSE Reply(i)
    /\ UNCHANGED <<root, live, recorder>>

RepointWrite(i) ==
    /\ Stands(i, "repoint", "write")
    /\ root' = [root EXCEPT ![request[i].storage] = IF @ = Nil THEN @ ELSE request[i].path]
    /\ Reply(i)
    /\ UNCHANGED <<live, recorder>>

\* delete_storage: refused while there are rows, then while a policy names it;
\* the foreign keys repeat both checks at the delete.
RemoveCount(i) ==
    /\ Stands(i, "delete", "count")
    /\ IF On(request[i].storage) = {} THEN Proceed(i, "policies") ELSE Reply(i)
    /\ UNCHANGED <<root, live, recorder>>

RemovePolicies(i) ==
    /\ Stands(i, "delete", "policies")
    /\ IF live # request[i].storage THEN Proceed(i, "delete") ELSE Reply(i)
    /\ UNCHANGED <<root, live, recorder>>

DeleteStorage(i) ==
    /\ Stands(i, "delete", "delete")
    /\ LET s == request[i].storage IN
       root' = IF On(s) = {} /\ live # s THEN [root EXCEPT ![s] = Nil] ELSE root
    /\ Reply(i)
    /\ UNCHANGED <<live, recorder>>

(***************************************************************************)
(* The recorder.                                                           *)
(***************************************************************************)

\* The supervisor sees another live storage and replaces the worker, or the
\* worker connects again: resolve_live_storage reads the row.
Resolve ==
    /\ live \in Existing
    /\ worker' = [storage |-> live, folder |-> root[live]]
    /\ worker' # worker
    /\ UNCHANGED <<root, live, pending, indexed, request>>

Record ==
    /\ worker # Nil /\ worker \notin pending
    /\ pending' = pending \cup {worker}
    /\ UNCHANGED <<root, live, worker, indexed, request>>

\* insert_segment: the foreign key asks for the storage; otherwise it is tried again.
Index(x) ==
    /\ x \in pending /\ root[x.storage] # Nil
    /\ pending' = pending \ {x}
    /\ indexed' = indexed \cup {x}
    /\ UNCHANGED <<root, live, worker, request>>

\* Retention removes the file and then the row.
Expire(x) ==
    /\ x \in indexed
    /\ indexed' = indexed \ {x}
    /\ UNCHANGED <<root, live, worker, pending, request>>

(***************************************************************************)
(* The specification.                                                      *)
(***************************************************************************)
LocationsInit ==
    /\ root = [s \in Storages |-> Nil]
    /\ live = Nil /\ worker = Nil
    /\ pending = {} /\ indexed = {}
    /\ request = [i \in Sessions |-> NoRequest]

Serve(i) ==
    \/ StorageCheck(i) \/ StorageInsert(i)
    \/ RepointCount(i) \/ RepointCheck(i) \/ RepointWrite(i)
    \/ RemoveCount(i) \/ RemovePolicies(i) \/ DeleteStorage(i)

LocationsNext ==
    \/ \E i \in Sessions : Ask(i) \/ Serve(i)
    \/ \E s \in Storages : ChangeLive(s)
    \/ Resolve \/ Record
    \/ \E x \in Places : Index(x) \/ Expire(x)

LocationsSpec == LocationsInit /\ [][LocationsNext]_locations

(***************************************************************************)
(* Correctness.                                                            *)
(***************************************************************************)
LocationsTypeOK ==
    /\ root \in [Storages -> Paths \cup {Nil}]
    /\ live \in Existing \cup {Nil}
    /\ worker \in Places \cup {Nil}
    /\ pending \subseteq Places /\ indexed \subseteq Places

\* No storage's folder is, contains or lies inside another's.
RootsDisjoint == \A s, t \in Existing : s # t => <<root[s], root[t]>> \notin Nested

\* Every row leads to its footage, and to nobody else's: the bytes are in the folder
\* that its storage has now, whatever was repointed since they were written, and no
\* other storage, whose walk would index or park them, has that folder in its tree.
FootageResolves == \A x \in indexed :
    /\ root[x.storage] = x.folder
    /\ \A t \in Existing \ {x.storage} : <<x.folder, root[t]>> \notin Nested

=============================================================================
