--------------------------- MODULE StreamRegistry ---------------------------
(* Two writers of go2rtc's stream table: the API's reconcile pass with the         *)
(* requests that edit and delete cameras (go2rtc.rs, config_routes.rs), and the    *)
(* recorder's create-if-missing pass (stream_registry.rs), which takes no lock     *)
(* with the API. go2rtc keeps the table in memory only. One stream stands for the  *)
(* streams of a camera.                                                            *)
EXTENDS Naturals

CONSTANTS
    Names,        \* stream names of cameras
    Sources,      \* camera URLs
    Requests,     \* admin requests that may be under way at the same time, on different cameras
    MaxRequests,  \* bound: requests in all
    MaxMishaps    \* bound: restarts of go2rtc or the API, calls and reads that fail

ASSUME RegistryAssumption ==
    /\ "none" \notin Sources /\ "-" \notin Names /\ {"loop", "nobody"} \cap Requests = {}
    /\ MaxRequests \in Nat /\ MaxMishaps \in Nat

VARIABLES
    cameras,    \* rows: the source of each stream, "none" where there is no camera
    streams,    \* go2rtc: the source of each stream it has, else "none"
    pass,       \* reconcile: for whom, where, the rows and names it has read, what is left
    request,    \* each request: where it is, the camera it edits, the stream it takes away
    ensure,     \* ensure_once: where, missing at first, the rows read, left to do, created
    skipped,    \* streams whose removal failed or was cut short
    requested, mishaps

registry == <<cameras, streams, pass, request, ensure, skipped, requested, mishaps>>

None == [n \in Names |-> "none"]
Known(table) == {n \in Names : table[n] # "none"}

NoPass == [for |-> "nobody", step |-> "idle", rows |-> None, has |-> {}, todo |-> {}]
NoRequest == [step |-> "idle", name |-> "-", old |-> "-"]
NoEnsure == [step |-> "idle", missing |-> {}, rows |-> None, todo |-> {}, created |-> {}]

RegistryInit ==
    /\ cameras \in [Names -> Sources \cup {"none"}]
    /\ streams = None /\ skipped = {}
    /\ pass = NoPass /\ request = [r \in Requests |-> NoRequest] /\ ensure = NoEnsure
    /\ requested = 0 /\ mishaps = 0

Mishap == mishaps < MaxMishaps /\ mishaps' = mishaps + 1

Put(n, src) == streams' = [streams EXCEPT ![n] = src]

\* PATCH sets the source of the stream there is; without one it may or may not create it.
Patch(n, src) == \/ Put(n, src)
                 \/ streams[n] = "none" /\ UNCHANGED streams

-----------------------------------------------------------------------------
(* The API: reconcile, under the lock from its first read to its last call.    *)

\* The lock is held by a pass, or by a removal under way.
Unlocked == pass.step = "idle" /\ \A r \in Requests : request[r].step # "removing"

Begin(who) == Unlocked /\ pass' = [NoPass EXCEPT !.for = who, !.step = "rows"]

LoopPass == Begin("loop") /\ UNCHANGED <<cameras, streams, request, ensure, skipped, requested, mishaps>>

PassOver ==
    /\ pass' = NoPass
    /\ request' = [r \in Requests |-> IF r = pass.for THEN NoRequest ELSE request[r]]

PassReadsRows ==
    /\ pass.step = "rows"
    /\ \/ pass' = [pass EXCEPT !.step = "index", !.rows = cameras] /\ UNCHANGED <<request, mishaps>>
       \/ Mishap /\ PassOver
    /\ UNCHANGED <<cameras, streams, ensure, skipped, requested>>

\* An index that cannot be read counts as empty.
PassReadsIndex ==
    /\ pass.step = "index"
    /\ \/ pass' = [pass EXCEPT !.step = "apply", !.has = Known(streams), !.todo = Known(pass.rows)]
          /\ UNCHANGED mishaps
       \/ pass' = [pass EXCEPT !.step = "apply", !.todo = Known(pass.rows)] /\ Mishap
    /\ UNCHANGED <<cameras, streams, request, ensure, skipped, requested>>

\* Mutant: what go2rtc already has is left alone.
OnlyNew(n) ==
    /\ pass.step = "apply" /\ n \in pass.todo
    /\ \/ (IF n \in pass.has THEN UNCHANGED streams ELSE Put(n, pass.rows[n])) /\ UNCHANGED mishaps
       \/ Mishap /\ UNCHANGED streams
    /\ pass' = [pass EXCEPT !.todo = @ \ {n}]
    /\ UNCHANGED <<cameras, request, ensure, skipped, requested>>

\* choose_verb: by what the pass has read, not by what is there now. A failed call is logged.
PassApplies(n) ==
    /\ pass.step = "apply" /\ n \in pass.todo
    /\ \/ (IF n \in pass.has THEN Patch(n, pass.rows[n]) ELSE Put(n, pass.rows[n])) /\ UNCHANGED mishaps
       \/ Mishap /\ UNCHANGED streams
    /\ pass' = [pass EXCEPT !.todo = @ \ {n}]
    /\ UNCHANGED <<cameras, request, ensure, skipped, requested>>

PassEnds ==
    /\ pass.step = "apply" /\ pass.todo = {} /\ PassOver
    /\ UNCHANGED <<cameras, streams, ensure, skipped, requested, mishaps>>

-----------------------------------------------------------------------------
(* Admin requests. Two of them may run at the same time, on different cameras. *)

Request(r, step, name, old) == request' = [request EXCEPT ![r] = [step |-> step, name |-> name, old |-> old]]
At(r, step) == request' = [request EXCEPT ![r].step = step]

Admits(r, n) ==
    /\ request[r].step = "idle" /\ \A q \in Requests : request[q].name # n
    /\ requested < MaxRequests /\ requested' = requested + 1
    /\ UNCHANGED <<streams, pass, ensure, skipped, mishaps>>

AddCamera(r, n, src) ==
    /\ Admits(r, n) /\ cameras[n] = "none"
    /\ cameras' = [cameras EXCEPT ![n] = src]
    /\ Request(r, "reconcile", n, "-")

DeleteCamera(r, n) ==
    /\ Admits(r, n) /\ cameras[n] # "none"
    /\ cameras' = [cameras EXCEPT ![n] = "none"]
    /\ Request(r, "remove", "-", n)

\* plan_camera_sync: a new source is a reconnect, a new name takes the old stream away.
ChangeSource(r, n, src) ==
    /\ Admits(r, n) /\ cameras[n] \notin {"none", src}
    /\ cameras' = [cameras EXCEPT ![n] = src]
    /\ Request(r, "drop", n, n)

Rename(r, n, new) ==
    /\ Admits(r, n) /\ cameras[n] # "none" /\ cameras[new] = "none"
    /\ cameras' = [cameras EXCEPT ![n] = "none", ![new] = cameras[n]]
    /\ Request(r, "remove", new, n)

\* reconnect: without the lock; a failure is ignored, the pass that follows patches.
Drop(r) ==
    /\ request[r].step = "drop"
    /\ \/ Put(request[r].old, "none") /\ UNCHANGED mishaps
       \/ Mishap /\ UNCHANGED streams
    /\ At(r, "reconcile")
    /\ UNCHANGED <<cameras, pass, ensure, skipped, requested>>

\* Mutant: remove does not take the lock.
RemoveUnlocked(r) ==
    /\ request[r].step = "remove" /\ At(r, "removing")
    /\ UNCHANGED <<cameras, streams, pass, ensure, skipped, requested, mishaps>>

\* remove waits for the lock.
RemoveLocks(r) ==
    /\ request[r].step = "remove" /\ Unlocked /\ At(r, "removing")
    /\ UNCHANGED <<cameras, streams, pass, ensure, skipped, requested, mishaps>>

\* A removal that fails is logged and not tried again.
Remove(r) ==
    /\ request[r].step = "removing"
    /\ \/ Put(request[r].old, "none") /\ skipped' = skipped \ {request[r].old} /\ UNCHANGED mishaps
       \/ Mishap /\ skipped' = skipped \cup {request[r].old} /\ UNCHANGED streams
    /\ IF request[r].name = "-" THEN request' = [request EXCEPT ![r] = NoRequest] ELSE At(r, "reconcile")
    /\ UNCHANGED <<cameras, pass, ensure, requested>>

RequestReconciles(r) ==
    /\ request[r].step = "reconcile" /\ Begin(r) /\ At(r, "waiting")
    /\ UNCHANGED <<cameras, streams, ensure, skipped, requested, mishaps>>

\* The API stops: its requests and its pass are gone.
ApiRestarts ==
    /\ Mishap /\ pass' = NoPass /\ request' = [r \in Requests |-> NoRequest]
    /\ skipped' = skipped \cup {request[r].old : r \in {q \in Requests : request[q].step \in {"remove", "removing"}}}
    /\ UNCHANGED <<cameras, streams, ensure, requested>>

-----------------------------------------------------------------------------
(* The recorder: ensure_once.                                                  *)

FirstLook ==
    /\ ensure.step = "idle"
    /\ ensure' = [NoEnsure EXCEPT !.step = "first", !.missing = Names \ Known(streams)]
    /\ UNCHANGED <<cameras, streams, pass, request, skipped, requested, mishaps>>

FirstRows ==
    /\ ensure.step = "first"
    /\ LET missing == ensure.missing \cap Known(cameras) IN
       ensure' = IF missing = {} THEN NoEnsure ELSE [ensure EXCEPT !.step = "confirm", !.missing = missing]
    /\ UNCHANGED <<cameras, streams, pass, request, skipped, requested, mishaps>>

\* Mutant: the confirmation keeps the wrong ones.
KeepPresent ==
    /\ ensure.step = "confirm"
    /\ ensure' = [ensure EXCEPT !.step = "rows", !.todo = ensure.missing \cap Known(streams)]
    /\ UNCHANGED <<cameras, streams, pass, request, skipped, requested, mishaps>>

\* Mutant: the second look does not ask what was missing before.
ConfirmAfresh ==
    /\ ensure.step = "confirm"
    /\ ensure' = [ensure EXCEPT !.step = "rows", !.todo = Names \ Known(streams)]
    /\ UNCHANGED <<cameras, streams, pass, request, skipped, requested, mishaps>>

\* After CONFIRM_DELAY: what go2rtc still does not have.
SecondLook ==
    /\ ensure.step = "confirm"
    /\ ensure' = [ensure EXCEPT !.step = "rows", !.todo = ensure.missing \ Known(streams)]
    /\ UNCHANGED <<cameras, streams, pass, request, skipped, requested, mishaps>>

SecondRows ==
    /\ ensure.step = "rows"
    /\ ensure' = [ensure EXCEPT !.step = "create", !.rows = cameras, !.todo = @ \cap Known(cameras)]
    /\ UNCHANGED <<cameras, streams, pass, request, skipped, requested, mishaps>>

\* A stream that go2rtc refuses is left for the next pass.
Create(n) ==
    /\ ensure.step = "create" /\ n \in ensure.todo
    /\ \/ /\ Put(n, ensure.rows[n]) /\ UNCHANGED mishaps
          /\ ensure' = [ensure EXCEPT !.todo = @ \ {n}, !.created = @ \cup {n}]
       \/ Mishap /\ ensure' = [ensure EXCEPT !.todo = @ \ {n}] /\ UNCHANGED streams
    /\ UNCHANGED <<cameras, pass, request, skipped, requested>>

\* Mutant: what was created stays.
TrustCreated ==
    /\ ensure.step = "create" /\ ensure.todo = {} /\ ensure' = NoEnsure
    /\ UNCHANGED <<cameras, streams, pass, request, skipped, requested, mishaps>>

\* The rows are read again for what this pass has created.
Reread ==
    /\ ensure.step = "create" /\ ensure.todo = {}
    /\ LET gone == ensure.created \ Known(cameras) IN
       ensure' = IF gone = {} THEN NoEnsure ELSE [ensure EXCEPT !.step = "prune", !.todo = gone]
    /\ UNCHANGED <<cameras, streams, pass, request, skipped, requested, mishaps>>

Prune(n) ==
    /\ ensure.step = "prune" /\ n \in ensure.todo
    /\ \/ Put(n, "none") /\ UNCHANGED <<skipped, mishaps>>
       \/ Mishap /\ skipped' = skipped \cup {n} /\ UNCHANGED streams
    /\ ensure' = IF ensure.todo = {n} THEN NoEnsure ELSE [ensure EXCEPT !.todo = @ \ {n}]
    /\ UNCHANGED <<cameras, pass, request, requested>>

\* A read fails, or the recorder restarts: the pass ends where it is.
EnsureFails ==
    /\ ensure.step # "idle" /\ Mishap
    /\ ensure' = NoEnsure /\ skipped' = skipped \cup ensure.created
    /\ UNCHANGED <<cameras, streams, pass, request, requested>>

Go2rtcRestarts ==
    /\ Mishap /\ streams' = None /\ skipped' = {}
    /\ UNCHANGED <<cameras, pass, request, ensure, requested>>

-----------------------------------------------------------------------------

EnsureStep ==
    \/ FirstLook \/ FirstRows \/ SecondLook \/ SecondRows \/ Reread
    \/ \E n \in Names : Create(n) \/ Prune(n)

PassStep == PassReadsRows \/ PassReadsIndex \/ PassEnds \/ \E n \in Names : PassApplies(n)

RequestStep(r) == Drop(r) \/ RemoveLocks(r) \/ Remove(r) \/ RequestReconciles(r)

Submit(r) ==
    \E n \in Names :
        \/ DeleteCamera(r, n)
        \/ \E src \in Sources : AddCamera(r, n, src) \/ ChangeSource(r, n, src)
        \/ \E new \in Names : Rename(r, n, new)

RegistryNext ==
    \/ LoopPass \/ PassStep \/ EnsureStep \/ EnsureFails \/ ApiRestarts \/ Go2rtcRestarts
    \/ \E r \in Requests : Submit(r) \/ RequestStep(r)

\* The recorder's loop and the requests of its pass always go on.
RegistrySpec == RegistryInit /\ [][RegistryNext]_registry /\ WF_registry(EnsureStep)

\* The API is up: its loop runs, and what it has begun goes on.
ApiRuns ==
    /\ WF_registry(LoopPass) /\ WF_registry(PassStep)
    /\ \A r \in Requests : SF_registry(RequestStep(r))

-----------------------------------------------------------------------------
(* Properties.                                                                 *)

RegistryTypeOK ==
    /\ {cameras, streams, pass.rows, ensure.rows} \subseteq [Names -> Sources \cup {"none"}]
    /\ pass.step \in {"idle", "rows", "index", "apply"} /\ pass.todo \subseteq Known(pass.rows)
    /\ pass.for \in Requests \cup {"loop", "nobody"}
    /\ ensure.step \in {"idle", "first", "confirm", "rows", "create", "prune"}
    /\ ensure.step = "create" => ensure.todo \subseteq ensure.missing \ ensure.created
    /\ skipped \subseteq Names

Quiet == pass.step = "idle" /\ ensure.step = "idle" /\ \A r \in Requests : request[r].step = "idle"

\* Issue 294 and the recorder's re-read: once everybody is done, a camera that was deleted
\* or renamed has no stream, whichever pass had read its row before; one remains only
\* where the call that takes it away failed or was cut short.
NoZombieStreams == Quiet => Known(streams) \subseteq Known(cameras) \cup skipped

\* stream_registry.rs: with the API stopped at any point and go2rtc restarted, every
\* camera has a stream to record from in the end.
CamerasGetStreams == <>[](Known(cameras) \subseteq Known(streams))

\* go2rtc.rs: while the API runs, every camera's stream ends up with the camera's source,
\* whoever registered an older one after the edit.
SourcesConverge == ApiRuns => <>[](\A n \in Known(cameras) : streams[n] = cameras[n])
=============================================================================
