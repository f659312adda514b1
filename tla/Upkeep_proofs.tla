---------------------------- MODULE Upkeep_proofs ----------------------------
(* The stream table, the sweeps of a policy and the supervisor, for every value of *)
(* their constants: no stream without a camera once things are quiet, no eviction  *)
(* that is not needed, no task nobody could stop. Each part has an inductive       *)
(* invariant of its own; together they are the types of the whole.                 *)
EXTENDS MCUpkeep, FiniteSetTheorems, WellFoundedInduction, TLAPS

-----------------------------------------------------------------------------
(* The stream table.                                                           *)

Table == [Names -> Sources \cup {"none"}]
Pass == [for : Requests \cup {"loop", "nobody"}, step : {"idle", "rows", "index", "apply"},
         rows : Table, has : SUBSET Names, todo : SUBSET Names]
Job == [step : {"idle", "reconcile", "drop", "remove", "removing", "waiting"},
        name : Names \cup {"-"}, old : Names \cup {"-"}]
Look == [step : {"idle", "first", "confirm", "rows", "create", "prune"}, missing : SUBSET Names,
         rows : Table, todo : SUBSET Names, created : SUBSET Names]

RegistryTypes ==
    /\ cameras \in Table /\ streams \in Table /\ skipped \subseteq Names
    /\ pass \in Pass /\ request \in [Requests -> Job] /\ ensure \in Look

\* What the recorder's pass still has to do follows from what it found missing.
LookStands ==
    /\ ensure.step \in {"first", "confirm", "rows"} => ensure.created = {}
    /\ ensure.step = "rows" => ensure.todo \subseteq ensure.missing
    /\ ensure.step = "create" => ensure.todo \subseteq ensure.missing \ ensure.created
    /\ ensure.step = "prune" => ensure.todo \subseteq ensure.created

\* Somebody is going to take the stream away, or has the lock to do so.
Leaving(n, steps) == \E r \in Requests : request[r].step \in steps /\ request[r].old = n

\* The pass that has the lock: nobody is removing a stream, the request it serves waits, and the
\* row of a stream it will apply is there, or whoever deleted it waits for the lock.
PassStands ==
    pass.step # "idle" =>
        /\ \A r \in Requests : request[r].step # "removing"
        /\ pass.for \in Requests => request[pass.for].step = "waiting"
        /\ pass.todo \subseteq Known(pass.rows) /\ (pass.step # "apply" => pass.todo = {})
        /\ pass.step \in {"index", "apply"} =>
              \A n \in Known(pass.rows) : cameras[n] = "none" => Leaving(n, {"remove"})

\* A stream without a camera has somebody who will take it away, or whose call failed.
Covered(n) ==
    \/ n \in skipped
    \/ Leaving(n, {"remove", "removing"})
    \/ ensure.step = "create" /\ n \in ensure.created
    \/ ensure.step = "prune" /\ n \in ensure.todo

StreamsStand == \A n \in Names : streams[n] # "none" /\ cameras[n] = "none" => Covered(n)

OldsStand ==
    \A r \in Requests : request[r].step \in {"drop", "remove", "removing"} => request[r].old \in Names

PassIdle == pass.step = "idle" => pass = NoPass

RegistryInv == RegistryTypes /\ LookStands /\ PassStands /\ StreamsStand /\ OldsStand /\ PassIdle

\* What the operations on one stream or one request make of the table.
LEMMA PutIs ==
    ASSUME RegistryTypes, NEW n, NEW src \in Sources \cup {"none"}, Put(n, src)
    PROVE  /\ streams' \in Table
           /\ \A m \in Names : streams'[m] = IF m = n THEN src ELSE streams[m]
BY DEF RegistryTypes, Table, Put

LEMMA AtIs ==
    ASSUME RegistryTypes, NEW r \in Requests, NEW step \in {"reconcile", "removing", "waiting"}, At(r, step)
    PROVE  /\ request' \in [Requests -> Job]
           /\ request'[r].step = step /\ request'[r].old = request[r].old
           /\ \A q \in Requests \ {r} : request'[q] = request[q]
<1>1. request' = [request EXCEPT ![r] = [step |-> step, name |-> request[r].name, old |-> request[r].old]]
  <2>1. request' = [request EXCEPT ![r] = [request[r] EXCEPT !.step = step]]
      BY DEF At, RegistryTypes
  <2>2. request[r] \in Job
      BY DEF RegistryTypes
  <2>3. [request[r] EXCEPT !.step = step] = [step |-> step, name |-> request[r].name, old |-> request[r].old]
      BY <2>2 DEF Job
  <2> QED BY <2>1, <2>3
<1>2. [step |-> step, name |-> request[r].name, old |-> request[r].old] \in Job
    BY DEF RegistryTypes, Job
<1> QED BY <1>1, <1>2 DEF RegistryTypes

LEMMA RequestIs ==
    ASSUME RegistryTypes, NEW r \in Requests, NEW step \in {"reconcile", "drop", "remove"},
           NEW name \in Names \cup {"-"}, NEW old \in Names \cup {"-"}, Request(r, step, name, old)
    PROVE  /\ request' \in [Requests -> Job]
           /\ request'[r].step = step /\ request'[r].old = old
           /\ \A q \in Requests \ {r} : request'[q] = request[q]
BY DEF Request, RegistryTypes, Job

LEMMA NothingIs ==
    /\ NoPass \in Pass /\ NoRequest \in Job /\ NoEnsure \in Look /\ None \in Table
    /\ NoPass.step = "idle" /\ NoRequest.step = "idle" /\ NoEnsure.step = "idle"
    /\ NoEnsure.created = {}
BY DEF NoPass, NoRequest, NoEnsure, None, Pass, Job, Look, Table

\* The steps of the recorder's pass that only look.
LEMMA LooksKeep ==
    ASSUME RegistryInv, FirstLook \/ FirstRows \/ SecondLook \/ SecondRows \/ Reread
    PROVE  RegistryInv'
<1>0. UNCHANGED <<cameras, streams, pass, request, skipped>>
    BY DEF FirstLook, FirstRows, SecondLook, SecondRows, Reread
<1>1. PassStands' /\ OldsStand' /\ PassIdle'
    BY <1>0 DEF RegistryInv, PassStands, OldsStand, PassIdle, Leaving, Known
<1>2. ensure \in Look /\ cameras \in Table /\ LookStands /\ StreamsStand
    BY DEF RegistryInv, RegistryTypes
<1>3. ASSUME ensure' \in Look, LookStands', \A n \in Names : Covered(n) /\ cameras[n] = "none" => Covered(n)'
      PROVE  RegistryInv'
    BY <1>0, <1>1, <1>3 DEF RegistryInv, RegistryTypes, StreamsStand
<1>4. CASE FirstLook
  <2>1. /\ ensure.step = "idle" /\ ensure' \in Look /\ ensure'.step = "first" /\ ensure'.created = {}
    <3>1. ensure' = [NoEnsure EXCEPT !.step = "first", !.missing = Names \ Known(streams)] /\ ensure.step = "idle"
        BY <1>4 DEF FirstLook
    <3> QED BY <3>1 DEF NoEnsure, Look, Table, None
  <2>2. LookStands'
      BY <2>1 DEF LookStands
  <2> QED BY <1>0, <1>3, <2>1, <2>2 DEF Covered, Leaving
<1>5. CASE FirstRows
  <2>1. /\ ensure.step = "first" /\ ensure' \in Look /\ ensure'.step \in {"idle", "confirm"}
        /\ ensure'.created = {}
    <3> DEFINE m == ensure.missing \cap Known(cameras)
    <3>1. ensure' = (IF m = {} THEN NoEnsure ELSE [ensure EXCEPT !.step = "confirm", !.missing = m])
          /\ ensure.step = "first"
        BY <1>5 DEF FirstRows
    <3>2. m \subseteq Names
        BY <1>2 DEF Look
    <3>3. ensure.created = {}
        BY <1>2, <3>1 DEF LookStands
    <3> HIDE DEF m
    <3> QED BY <1>2, <3>1, <3>2, <3>3, NothingIs DEF Look
  <2>2. LookStands'
      BY <2>1 DEF LookStands
  <2> QED BY <1>0, <1>3, <2>1, <2>2 DEF Covered, Leaving
<1>6. CASE SecondLook
  <2>1. /\ ensure.step = "confirm" /\ ensure.created = {}
        /\ ensure' = [ensure EXCEPT !.step = "rows", !.todo = ensure.missing \ Known(streams)]
      BY <1>2, <1>6 DEF SecondLook, LookStands
  <2>2. /\ ensure' \in Look /\ ensure'.step = "rows" /\ ensure'.created = {} /\ ensure'.missing = ensure.missing
        /\ ensure'.todo = ensure.missing \ Known(streams)
      BY <1>2, <2>1 DEF Look
  <2>3. LookStands'
      BY <2>2 DEF LookStands
  <2> QED BY <1>0, <1>3, <2>1, <2>2, <2>3 DEF Covered, Leaving
<1>7. CASE SecondRows
  <2>1. /\ ensure.step = "rows" /\ ensure.created = {} /\ ensure.todo \subseteq ensure.missing
        /\ ensure' = [ensure EXCEPT !.step = "create", !.rows = cameras, !.todo = @ \cap Known(cameras)]
      BY <1>2, <1>7 DEF SecondRows, LookStands
  <2>2. /\ ensure' \in Look /\ ensure'.step = "create" /\ ensure'.created = {} /\ ensure'.missing = ensure.missing
        /\ ensure'.todo = ensure.todo \cap Known(cameras)
      BY <1>2, <2>1 DEF Look
  <2>3. LookStands'
      BY <2>1, <2>2 DEF LookStands
  <2> QED BY <1>0, <1>3, <2>1, <2>2, <2>3 DEF Covered, Leaving
<1>8. CASE Reread
  <2> DEFINE gone == ensure.created \ Known(cameras)
  <2>1. /\ ensure.step = "create"
        /\ ensure' = IF gone = {} THEN NoEnsure ELSE [ensure EXCEPT !.step = "prune", !.todo = gone]
      BY <1>8 DEF Reread
  <2>2. gone \subseteq ensure.created /\ gone \subseteq Names
      BY <1>2 DEF Look
  <2>3. \A n \in Names : cameras[n] = "none" /\ n \in ensure.created => n \in gone
      BY DEF Known
  <2> HIDE DEF gone
  <2>4. /\ ensure' \in Look
        /\ gone = {} => ensure'.step = "idle"
        /\ gone # {} => ensure'.step = "prune" /\ ensure'.todo = gone /\ ensure'.created = ensure.created
      BY <1>2, <2>1, <2>2, NothingIs DEF Look
  <2>5. LookStands'
      BY <2>2, <2>4 DEF LookStands
  <2> QED BY <1>0, <1>3, <2>1, <2>3, <2>4, <2>5 DEF Covered, Leaving
<1> QED BY <1>4, <1>5, <1>6, <1>7, <1>8

\* The recorder creates a stream, takes one away, or its pass ends where it is.
LEMMA CreateKeeps ==
    ASSUME RegistryInv, NEW n \in Names, Create(n)
    PROVE  RegistryInv'
<1>0. /\ UNCHANGED <<cameras, pass, request, skipped>> /\ ensure.step = "create" /\ n \in ensure.todo
      /\ ensure \in Look /\ cameras \in Table /\ streams \in Table /\ LookStands /\ StreamsStand
    BY DEF RegistryInv, RegistryTypes, Create
<1>1. PassStands' /\ OldsStand' /\ PassIdle'
    BY <1>0 DEF RegistryInv, PassStands, OldsStand, PassIdle, Leaving, Known
<1>2. CASE Put(n, ensure.rows[n]) /\ ensure' = [ensure EXCEPT !.todo = @ \ {n}, !.created = @ \cup {n}]
  <2>1. streams' \in Table /\ \A m \in Names \ {n} : streams'[m] = streams[m]
      BY <1>0, <1>2, PutIs DEF RegistryInv, Look, Table
  <2>2. /\ ensure' \in Look /\ ensure'.step = "create" /\ ensure'.missing = ensure.missing
        /\ ensure'.todo = ensure.todo \ {n} /\ ensure'.created = ensure.created \cup {n}
      BY <1>0, <1>2 DEF Look
  <2>3. LookStands'
      BY <1>0, <2>2 DEF LookStands
  <2>4. StreamsStand'
      BY <1>0, <2>1, <2>2 DEF StreamsStand, Covered, Leaving
  <2>5. RegistryTypes'
      BY <1>0, <2>1, <2>2 DEF RegistryInv, RegistryTypes
  <2> QED BY <1>1, <2>3, <2>4, <2>5 DEF RegistryInv
<1>3. CASE UNCHANGED streams /\ ensure' = [ensure EXCEPT !.todo = @ \ {n}]
  <2>2. /\ ensure' \in Look /\ ensure'.step = "create" /\ ensure'.missing = ensure.missing
        /\ ensure'.todo = ensure.todo \ {n} /\ ensure'.created = ensure.created
      BY <1>0, <1>3 DEF Look
  <2>3. LookStands'
      BY <1>0, <2>2 DEF LookStands
  <2>4. StreamsStand'
      BY <1>0, <1>3, <2>2 DEF StreamsStand, Covered, Leaving
  <2>5. RegistryTypes'
      BY <1>0, <1>3, <2>2 DEF RegistryInv, RegistryTypes
  <2> QED BY <1>1, <2>3, <2>4, <2>5 DEF RegistryInv
<1> QED BY <1>2, <1>3 DEF Create

LEMMA PruneKeeps ==
    ASSUME RegistryInv, NEW n \in Names, Prune(n)
    PROVE  RegistryInv'
<1>0. /\ UNCHANGED <<cameras, pass, request>> /\ ensure.step = "prune" /\ n \in ensure.todo
      /\ ensure \in Look /\ cameras \in Table /\ streams \in Table /\ LookStands /\ StreamsStand
    BY DEF RegistryInv, RegistryTypes, Prune
<1>1. PassStands' /\ OldsStand' /\ PassIdle'
    BY <1>0 DEF RegistryInv, PassStands, OldsStand, PassIdle, Leaving, Known
<1>2. /\ streams' \in Table /\ skipped' \subseteq Names /\ skipped \subseteq skipped'
      /\ \A m \in Names : streams'[m] # "none" => streams[m] # "none"
      /\ streams'[n] = "none" \/ n \in skipped'
  <2>1. CASE Put(n, "none") /\ UNCHANGED skipped
      BY <2>1, PutIs DEF RegistryInv, RegistryTypes
  <2>2. CASE UNCHANGED streams /\ skipped' = skipped \cup {n}
      BY <2>2 DEF RegistryInv, RegistryTypes
  <2> QED BY <2>1, <2>2 DEF Prune
<1>3. /\ ensure' \in Look
      /\ \/ ensure.todo = {n} /\ ensure'.step = "idle"
         \/ ensure'.step = "prune" /\ ensure'.todo = ensure.todo \ {n} /\ ensure'.created = ensure.created
    BY <1>0, NothingIs DEF Prune, Look
<1>4. LookStands'
    BY <1>0, <1>3 DEF LookStands
<1>5. StreamsStand'
    BY <1>0, <1>2, <1>3 DEF StreamsStand, Covered, Leaving
<1> QED BY <1>0, <1>1, <1>2, <1>3, <1>4, <1>5 DEF RegistryInv, RegistryTypes

LEMMA EndsKeep ==
    ASSUME RegistryInv, EnsureFails \/ Go2rtcRestarts
    PROVE  RegistryInv'
<1>1. CASE EnsureFails
  <2>1. /\ UNCHANGED <<cameras, streams, pass, request>> /\ ensure' = NoEnsure
        /\ skipped' = skipped \cup ensure.created /\ ensure \in Look /\ LookStands /\ StreamsStand
      BY <1>1 DEF EnsureFails, RegistryInv, RegistryTypes
  <2>2. PassStands' /\ OldsStand' /\ PassIdle'
      BY <2>1 DEF RegistryInv, PassStands, OldsStand, PassIdle, Leaving, Known
  <2>3. RegistryTypes' /\ LookStands'
      BY <2>1, NothingIs DEF RegistryInv, RegistryTypes, LookStands, Look
  <2>4. StreamsStand'
      BY <2>1 DEF StreamsStand, Covered, Leaving, LookStands
  <2> QED BY <2>2, <2>3, <2>4 DEF RegistryInv
<1>2. CASE Go2rtcRestarts
  <2>1. UNCHANGED <<cameras, pass, request, ensure>> /\ streams' = None /\ skipped' = {}
      BY <1>2 DEF Go2rtcRestarts
  <2>2. PassStands' /\ OldsStand' /\ PassIdle' /\ LookStands'
      BY <2>1 DEF RegistryInv, PassStands, OldsStand, PassIdle, Leaving, Known, LookStands
  <2>3. RegistryTypes' /\ StreamsStand'
      BY <2>1, NothingIs DEF RegistryInv, RegistryTypes, StreamsStand, None
  <2> QED BY <2>2, <2>3 DEF RegistryInv
<1> QED BY <1>1, <1>2

\* The passes of the API.
LEMMA BeginKeeps ==
    ASSUME RegistryInv, NEW who \in Requests \cup {"loop"}, Begin(who),
           UNCHANGED <<cameras, streams, ensure, skipped>>,
           \/ who = "loop" /\ UNCHANGED request
           \/ who \in Requests /\ request[who].step = "reconcile" /\ At(who, "waiting")
    PROVE  RegistryInv'
<1>0. /\ RegistryTypes /\ LookStands /\ StreamsStand /\ OldsStand
      /\ pass.step = "idle" /\ \A r \in Requests : request[r].step # "removing"
    BY DEF RegistryInv, Begin, Unlocked
<1>1. /\ pass' \in Pass /\ pass'.step = "rows" /\ pass'.for = who /\ pass'.todo = {}
    BY NothingIs DEF Begin, NoPass, Pass
<1>2. /\ request' \in [Requests -> Job]
      /\ \A r \in Requests : \/ request'[r] = request[r]
                             \/ r = who /\ request[r].step = "reconcile" /\ request'[r].step = "waiting"
      /\ who \in Requests => request'[who].step = "waiting"
    BY <1>0, AtIs, RegistryAssumption DEF RegistryTypes
<1>3. PassStands'
    BY <1>0, <1>1, <1>2, RegistryAssumption DEF PassStands
<1>4. StreamsStand'
    BY <1>0, <1>2 DEF StreamsStand, Covered, Leaving
<1>5. OldsStand' /\ PassIdle' /\ LookStands' /\ RegistryTypes'
    BY <1>0, <1>1, <1>2 DEF OldsStand, PassIdle, LookStands, RegistryTypes
<1> QED BY <1>3, <1>4, <1>5 DEF RegistryInv

LEMMA PassOverKeeps ==
    ASSUME RegistryInv, PassOver, pass.step # "idle", UNCHANGED <<cameras, streams, ensure, skipped>>
    PROVE  RegistryInv'
<1>0. RegistryTypes /\ LookStands /\ StreamsStand /\ OldsStand /\ PassStands
    BY DEF RegistryInv
<1>1. /\ pass' = NoPass /\ request' \in [Requests -> Job]
      /\ \A r \in Requests : \/ request'[r] = request[r]
                             \/ request'[r].step = "idle" /\ request[r].step = "waiting"
    BY <1>0, NothingIs DEF PassOver, RegistryTypes, PassStands
<1>2. PassStands' /\ PassIdle'
    BY <1>1, NothingIs DEF PassStands, PassIdle
<1>3. StreamsStand'
    BY <1>0, <1>1 DEF StreamsStand, Covered, Leaving
<1>4. OldsStand' /\ LookStands' /\ RegistryTypes'
    BY <1>0, <1>1, NothingIs DEF OldsStand, LookStands, RegistryTypes
<1> QED BY <1>2, <1>3, <1>4 DEF RegistryInv

LEMMA PassStepKeeps ==
    ASSUME RegistryInv, PassReadsRows \/ PassReadsIndex \/ PassEnds
    PROVE  RegistryInv'
<1>0. /\ RegistryTypes /\ LookStands /\ StreamsStand /\ OldsStand /\ PassStands /\ PassIdle
      /\ UNCHANGED <<cameras, streams, ensure, skipped>>
    BY DEF RegistryInv, PassReadsRows, PassReadsIndex, PassEnds
<1>1. CASE PassOver
  <2>1. pass.step # "idle"
      BY <1>1 DEF PassReadsRows, PassReadsIndex, PassEnds
  <2> QED BY <1>0, <1>1, <2>1, PassOverKeeps
<1>2. ASSUME UNCHANGED request, pass' \in Pass, pass'.for = pass.for, pass.step # "idle",
             pass'.step # "idle", pass'.todo \subseteq Known(pass'.rows), pass'.step # "apply" => pass'.todo = {},
             pass'.step \in {"index", "apply"} =>
                \A n \in Known(pass'.rows) : cameras[n] = "none" => Leaving(n, {"remove"})
      PROVE  RegistryInv'
  <2>1. PassStands' /\ PassIdle'
      BY <1>0, <1>2 DEF PassStands, PassIdle, Leaving, Known
  <2>2. StreamsStand' /\ OldsStand' /\ LookStands' /\ RegistryTypes'
      BY <1>0, <1>2 DEF StreamsStand, Covered, Leaving, OldsStand, LookStands, RegistryTypes
  <2> QED BY <2>1, <2>2 DEF RegistryInv
<1>3. CASE PassReadsRows /\ ~PassOver
  <2>1. pass.step = "rows" /\ pass' = [pass EXCEPT !.step = "index", !.rows = cameras] /\ UNCHANGED request
      BY <1>3 DEF PassReadsRows
  <2>2. /\ pass' \in Pass /\ pass'.for = pass.for /\ pass'.step = "index" /\ pass'.rows = cameras
        /\ pass'.todo = pass.todo
      BY <1>0, <2>1 DEF RegistryTypes, Pass
  <2>3. pass.todo = {}
      BY <1>0, <2>1 DEF PassStands
  <2> QED BY <1>2, <2>1, <2>2, <2>3 DEF Known
<1>4. CASE PassReadsIndex
  <2>1. PICK has \in SUBSET Names :
            /\ pass.step = "index" /\ UNCHANGED request
            /\ pass' = [for |-> pass.for, step |-> "apply", rows |-> pass.rows, has |-> has, todo |-> Known(pass.rows)]
      BY <1>0, <1>4 DEF PassReadsIndex, RegistryTypes, Pass, Known
  <2>2. /\ pass' \in Pass /\ pass'.for = pass.for /\ pass'.step = "apply" /\ pass'.rows = pass.rows
        /\ pass'.todo = Known(pass.rows)
      BY <1>0, <2>1 DEF RegistryTypes, Pass, Known
  <2> QED BY <1>0, <1>2, <2>1, <2>2 DEF PassStands
<1> QED BY <1>1, <1>3, <1>4 DEF PassEnds

LEMMA PassApplyKeeps ==
    ASSUME RegistryInv, NEW n \in Names, PassApplies(n)
    PROVE  RegistryInv'
<1>0. /\ RegistryTypes /\ LookStands /\ StreamsStand /\ OldsStand /\ PassStands /\ PassIdle
      /\ UNCHANGED <<cameras, request, ensure, skipped>>
      /\ pass.step = "apply" /\ n \in pass.todo /\ pass' = [pass EXCEPT !.todo = @ \ {n}]
    BY DEF RegistryInv, PassApplies
<1>1. /\ pass' \in Pass /\ pass'.for = pass.for /\ pass'.step = "apply" /\ pass'.rows = pass.rows
      /\ pass'.todo = pass.todo \ {n}
    BY <1>0 DEF RegistryTypes, Pass
<1>2. streams' \in Table /\ \A m \in Names \ {n} : streams'[m] = streams[m]
  <2>1. pass.rows[n] \in Sources \cup {"none"}
      BY <1>0 DEF RegistryTypes, Pass, Table
  <2>2. UNCHANGED streams \/ Put(n, pass.rows[n])
      BY DEF PassApplies, Patch
  <2> QED BY <1>0, <2>1, <2>2, PutIs DEF RegistryTypes
<1>3. cameras[n] = "none" => Leaving(n, {"remove"})
    BY <1>0 DEF PassStands
<1>4. StreamsStand'
    BY <1>0, <1>2, <1>3 DEF StreamsStand, Covered, Leaving
<1>5. PassStands' /\ PassIdle'
    BY <1>0, <1>1 DEF PassStands, PassIdle, Leaving, Known
<1>6. OldsStand' /\ LookStands' /\ RegistryTypes'
    BY <1>0, <1>1, <1>2 DEF OldsStand, LookStands, RegistryTypes
<1> QED BY <1>4, <1>5, <1>6 DEF RegistryInv

-----------------------------------------------------------------------------

\* A request is admitted: its row is written, and whoever deletes one is to take its stream away.
LEMMA SubmitKeeps ==
    ASSUME RegistryInv, NEW r \in Requests, Submit(r)
    PROVE  RegistryInv'
<1>0. RegistryTypes /\ LookStands /\ StreamsStand /\ OldsStand /\ PassStands /\ PassIdle
    BY DEF RegistryInv
<1>1. ASSUME NEW step \in {"reconcile", "drop", "remove"}, NEW name \in Names \cup {"-"}, NEW old \in Names \cup {"-"},
             Request(r, step, name, old), \E n \in Names : Admits(r, n), cameras' \in Table,
             step = "reconcile" \/ old \in Names,
             \A n \in Names : cameras'[n] = "none" => cameras[n] = "none" \/ (step = "remove" /\ n = old)
      PROVE  RegistryInv'
  <2>1. request[r].step = "idle" /\ UNCHANGED <<streams, pass, ensure, skipped>>
      BY <1>1 DEF Admits
  <2>2. /\ request' \in [Requests -> Job] /\ request'[r].step = step /\ request'[r].old = old
        /\ \A q \in Requests \ {r} : request'[q] = request[q]
      BY <1>0, <1>1, RequestIs
  <2>3. \A n \in Names : cameras'[n] = "none" => cameras[n] = "none" \/ Leaving(n, {"remove"})'
      BY <1>1, <2>2 DEF Leaving
  <2>4. \A n, S : Leaving(n, S) /\ "idle" \notin S => \E q \in Requests : request'[q].step \in S /\ request'[q].old = n
      BY <2>1, <2>2 DEF Leaving
  <2>5. \A n \in Names : cameras[n] = "none" /\ Leaving(n, {"remove"}) => Leaving(n, {"remove"})'
      BY <2>4 DEF Leaving
  <2>6. \A n \in Names : Leaving(n, {"remove", "removing"}) \/ Leaving(n, {"remove"})'
                            => Leaving(n, {"remove", "removing"})'
      BY <2>4 DEF Leaving
  <2>7. StreamsStand'
      BY <1>0, <2>1, <2>3, <2>6 DEF StreamsStand, Covered
  <2>8. PassStands'
      BY <1>0, <1>1, <2>1, <2>2, <2>3, <2>5 DEF PassStands, Known, RegistryTypes, Pass
  <2>9. OldsStand' /\ PassIdle' /\ LookStands' /\ RegistryTypes'
      BY <1>0, <1>1, <2>1, <2>2 DEF OldsStand, PassIdle, LookStands, RegistryTypes
  <2> QED BY <2>7, <2>8, <2>9 DEF RegistryInv
<1>2. PICK n \in Names : \/ DeleteCamera(r, n)
                         \/ \E src \in Sources : AddCamera(r, n, src) \/ ChangeSource(r, n, src)
                         \/ \E new \in Names : Rename(r, n, new)
    BY DEF Submit
<1>3. CASE DeleteCamera(r, n)
  <2>1. Admits(r, n) /\ cameras' = [cameras EXCEPT ![n] = "none"] /\ Request(r, "remove", "-", n)
      BY <1>3 DEF DeleteCamera
  <2>2. cameras' \in Table /\ \A m \in Names : cameras'[m] = "none" => cameras[m] = "none" \/ m = n
      BY <1>0, <2>1 DEF RegistryTypes, Table
  <2> QED BY <1>1, <2>1, <2>2
<1>4. ASSUME NEW src \in Sources, AddCamera(r, n, src) PROVE RegistryInv'
  <2>1. Admits(r, n) /\ cameras' = [cameras EXCEPT ![n] = src] /\ Request(r, "reconcile", n, "-")
      BY <1>4 DEF AddCamera
  <2>2. cameras' \in Table /\ \A m \in Names : cameras'[m] = "none" => cameras[m] = "none"
      BY <1>0, <2>1, RegistryAssumption DEF RegistryTypes, Table
  <2> QED BY <1>1, <2>1, <2>2
<1>5. ASSUME NEW src \in Sources, ChangeSource(r, n, src) PROVE RegistryInv'
  <2>1. Admits(r, n) /\ cameras' = [cameras EXCEPT ![n] = src] /\ Request(r, "drop", n, n)
      BY <1>5 DEF ChangeSource
  <2>2. cameras' \in Table /\ \A m \in Names : cameras'[m] = "none" => cameras[m] = "none"
      BY <1>0, <2>1, RegistryAssumption DEF RegistryTypes, Table
  <2> QED BY <1>1, <2>1, <2>2
<1>6. ASSUME NEW new \in Names, Rename(r, n, new) PROVE RegistryInv'
  <2>1. /\ Admits(r, n) /\ cameras' = [cameras EXCEPT ![n] = "none", ![new] = cameras[n]]
        /\ Request(r, "remove", new, n) /\ cameras[n] # "none" /\ cameras[new] = "none"
      BY <1>6 DEF Rename
  <2>2. cameras' \in Table /\ \A m \in Names : cameras'[m] = "none" => cameras[m] = "none" \/ m = n
      BY <1>0, <2>1 DEF RegistryTypes, Table
  <2> QED BY <1>1, <2>1, <2>2
<1> QED BY <1>2, <1>3, <1>4, <1>5, <1>6

LEMMA RequestKeeps ==
    ASSUME RegistryInv, NEW r \in Requests, RequestStep(r)
    PROVE  RegistryInv'
<1>0. RegistryTypes /\ LookStands /\ StreamsStand /\ OldsStand /\ PassStands /\ PassIdle
    BY DEF RegistryInv
<1>1. CASE Drop(r)
  <2>1. /\ request[r].step = "drop" /\ request[r].old \in Names /\ At(r, "reconcile")
        /\ UNCHANGED streams \/ Put(request[r].old, "none")
        /\ UNCHANGED <<cameras, pass, ensure, skipped>>
      BY <1>0, <1>1 DEF Drop, OldsStand
  <2>2. streams' \in Table /\ \A m \in Names : streams'[m] # "none" => streams[m] # "none"
      BY <1>0, <2>1, PutIs DEF RegistryTypes
  <2>3. /\ request' \in [Requests -> Job] /\ request'[r].step = "reconcile"
        /\ \A q \in Requests \ {r} : request'[q] = request[q]
      BY <1>0, <2>1, AtIs
  <2>4. StreamsStand'
      BY <1>0, <2>1, <2>2, <2>3 DEF StreamsStand, Covered, Leaving
  <2>5. PassStands' /\ PassIdle'
      BY <1>0, <2>1, <2>3 DEF PassStands, PassIdle, Leaving, Known
  <2>6. OldsStand' /\ LookStands' /\ RegistryTypes'
      BY <1>0, <2>1, <2>2, <2>3 DEF OldsStand, LookStands, RegistryTypes
  <2> QED BY <2>4, <2>5, <2>6 DEF RegistryInv
<1>2. CASE RemoveLocks(r)
  <2>1. /\ request[r].step = "remove" /\ pass.step = "idle" /\ At(r, "removing")
        /\ UNCHANGED <<cameras, streams, pass, ensure, skipped>>
      BY <1>2 DEF RemoveLocks, Unlocked
  <2>3. /\ request' \in [Requests -> Job] /\ request'[r].step = "removing" /\ request'[r].old = request[r].old
        /\ \A q \in Requests \ {r} : request'[q] = request[q]
      BY <1>0, <2>1, AtIs
  <2>4. StreamsStand'
      BY <1>0, <2>1, <2>3 DEF StreamsStand, Covered, Leaving
  <2>5. PassStands' /\ PassIdle'
      BY <1>0, <2>1 DEF PassStands, PassIdle
  <2>6. OldsStand' /\ LookStands' /\ RegistryTypes'
      BY <1>0, <2>1, <2>3 DEF OldsStand, LookStands, RegistryTypes
  <2> QED BY <2>4, <2>5, <2>6 DEF RegistryInv
<1>3. CASE Remove(r)
  <2> DEFINE old == request[r].old
  <2>1. /\ request[r].step = "removing" /\ old \in Names
        /\ \/ Put(old, "none") /\ skipped' = skipped \ {old}
           \/ UNCHANGED streams /\ skipped' = skipped \cup {old}
        /\ UNCHANGED <<cameras, pass, ensure>>
        /\ request' = [request EXCEPT ![r] = NoRequest] \/ At(r, "reconcile")
      BY <1>0, <1>3 DEF Remove, OldsStand
  <2> HIDE DEF old
  <2>2. /\ streams' \in Table /\ \A m \in Names : streams'[m] # "none" => streams[m] # "none"
        /\ streams'[old] = "none" \/ old \in skipped'
        /\ skipped' \subseteq Names /\ skipped \subseteq skipped' \cup {old}
      BY <1>0, <2>1, PutIs DEF RegistryTypes
  <2>3. /\ request' \in [Requests -> Job] /\ request'[r].step \in {"idle", "reconcile"}
        /\ \A q \in Requests \ {r} : request'[q] = request[q]
    <3>1. CASE request' = [request EXCEPT ![r] = NoRequest]
        BY <1>0, <3>1, NothingIs DEF RegistryTypes
    <3>2. CASE At(r, "reconcile")
        BY <1>0, <3>2, AtIs
    <3> QED BY <2>1, <3>1, <3>2
  <2>4. StreamsStand'
    <3>1. \A q \in Requests : q # r \/ request[q].old = old
        BY DEF old
    <3> QED BY <1>0, <2>1, <2>2, <2>3, <3>1 DEF StreamsStand, Covered, Leaving
  <2>5. pass.step = "idle"
      BY <1>0, <2>1 DEF PassStands
  <2>6. PassStands' /\ PassIdle'
      BY <1>0, <2>1, <2>5 DEF PassStands, PassIdle
  <2>7. OldsStand' /\ LookStands' /\ RegistryTypes'
      BY <1>0, <2>1, <2>2, <2>3 DEF OldsStand, LookStands, RegistryTypes
  <2> QED BY <2>4, <2>6, <2>7 DEF RegistryInv
<1>4. CASE RequestReconciles(r)
    BY <1>4, BeginKeeps DEF RequestReconciles
<1> QED BY <1>1, <1>2, <1>3, <1>4 DEF RequestStep

LEMMA ApiRestartKeeps == RegistryInv /\ ApiRestarts => RegistryInv'
<1> SUFFICES ASSUME RegistryInv, ApiRestarts PROVE RegistryInv'
    OBVIOUS
<1>0. /\ RegistryTypes /\ LookStands /\ StreamsStand /\ OldsStand
      /\ pass' = NoPass /\ request' = [r \in Requests |-> NoRequest] /\ UNCHANGED <<cameras, streams, ensure>>
    BY DEF RegistryInv, ApiRestarts
<1>1. /\ skipped \subseteq skipped' /\ skipped' \subseteq Names
      /\ \A n : Leaving(n, {"remove", "removing"}) => n \in skipped'
    BY <1>0 DEF ApiRestarts, Leaving, OldsStand, RegistryTypes
<1>2. StreamsStand'
    BY <1>0, <1>1 DEF StreamsStand, Covered
<1>3. PassStands' /\ PassIdle' /\ OldsStand' /\ LookStands' /\ RegistryTypes'
    BY <1>0, <1>1, NothingIs DEF PassStands, PassIdle, OldsStand, LookStands, RegistryTypes
<1> QED BY <1>2, <1>3 DEF RegistryInv

LEMMA RegistryStep == RegistryInv /\ [RegistryNext]_registry => RegistryInv'
<1> SUFFICES ASSUME RegistryInv, [RegistryNext]_registry PROVE RegistryInv'
    OBVIOUS
<1>1. CASE UNCHANGED registry
    BY <1>1 DEF registry, RegistryInv, RegistryTypes, LookStands, PassStands, StreamsStand, OldsStand, PassIdle,
                Covered, Leaving, Known
<1>2. CASE LoopPass
    BY <1>2, BeginKeeps DEF LoopPass
<1>3. CASE PassStep
    BY <1>3, PassStepKeeps, PassApplyKeeps DEF PassStep
<1>4. CASE EnsureStep
    BY <1>4, LooksKeep, CreateKeeps, PruneKeeps DEF EnsureStep
<1> QED BY <1>1, <1>2, <1>3, <1>4, EndsKeep, ApiRestartKeeps, SubmitKeeps, RequestKeeps DEF RegistryNext

LEMMA RegistryStart == RegistryInit => RegistryInv
<1> SUFFICES ASSUME RegistryInit PROVE RegistryInv
    OBVIOUS
<1>1. RegistryTypes
    BY NothingIs DEF RegistryInit, RegistryTypes, Table
<1>2. LookStands /\ PassStands /\ PassIdle /\ OldsStand
    BY NothingIs DEF RegistryInit, LookStands, PassStands, PassIdle, OldsStand
<1>3. StreamsStand
    BY DEF RegistryInit, StreamsStand, None
<1> QED BY <1>1, <1>2, <1>3 DEF RegistryInv

LEMMA RegistryMeans == RegistryInv => RegistryTypeOK /\ NoZombieStreams
<1> SUFFICES ASSUME RegistryInv PROVE RegistryTypeOK /\ NoZombieStreams
    OBVIOUS
<1>1. RegistryTypeOK
    BY NothingIs DEF RegistryInv, RegistryTypes, LookStands, PassStands, PassIdle, RegistryTypeOK, Table, Pass, Look,
                     NoPass
<1>2. NoZombieStreams
  <2> SUFFICES ASSUME Quiet, NEW n \in Known(streams), n \notin Known(cameras) PROVE n \in skipped
      BY DEF NoZombieStreams
  <2>1. n \in Names /\ streams[n] # "none" /\ cameras[n] = "none"
      BY DEF Known
  <2> QED BY <2>1 DEF RegistryInv, StreamsStand, Covered, Leaving, Quiet
<1> QED BY <1>1, <1>2

-----------------------------------------------------------------------------
(* The sweeps of one policy.                                                   *)

Passes == {"retention", "archivefloor", "drain", "live", "move", "floor", "cap", "archivecap", "ceiling"}
SweepJob == [pass : Passes, read : BOOLEAN, list : SUBSET Segs, used : Nat, deficit : Nat,
             blocked : BOOLEAN, held : SUBSET Segs]
PolicyType == [archiving : BOOLEAN, live : Disks, archive : Disks,
               cap : Nat, archiveCap : Nat, spill : Nat, ceiling : BOOLEAN]

SweepsTypes ==
    /\ policy \in Policies /\ policy \in PolicyType /\ away \subseteq Disks \ {policy.live}
    /\ stage \in [Segs -> {"unborn", "live", "archive", "gone"}] /\ disk \in [Segs -> Disks]
    /\ files \subseteq Recorded /\ pinned \subseteq Recorded
    /\ aged \in Nat /\ expired \in Nat /\ expired <= aged /\ errors \in Nat
    /\ job \in SweepJob /\ job.list \subseteq Recorded /\ job.held \subseteq Segs

\* Where a segment is: what is to come will be on the recording disk, what the archive has is
\* on the archive's.
Placed(s) ==
    /\ stage[s] = "unborn" => disk[s] = policy.live
    /\ stage[s] = "archive" => disk[s] = policy.archive

On(d) == {s \in files : disk[s] = d}

\* What is on the list of a pass.
ListStands ==
    /\ job.pass = "live" => job.list = {}
    /\ job.pass = "move" => policy.archiving
    /\ job.pass \in {"floor", "cap"} => ~policy.archiving
    /\ job.pass = "retention" /\ policy.archiving => job.list = {}
    /\ job.pass \in {"archivefloor", "drain", "archivecap"} =>
          \A s \in job.list : stage[s] \in {"archive", "gone"}
    /\ job.pass = "floor" => \A s \in job.list : disk[s] = policy.live

Fitting == \A d \in Disks : Cardinality(On(d)) <= Capacity[d]

Size == Cardinality(On(policy.live))

\* What is still to be freed is no more than what the recording disk lacks.
Owing ==
    job.pass \in {"move", "floor"} /\ job.deficit > 0 =>
        Capacity[policy.live] + job.deficit <= Floor + policy.spill + errors + Size

\* What counts toward the cap.
Counted == Rows(Stages) \ job.held
Counting == job.pass \in {"move", "floor", "cap"} => job.used <= Cardinality(Counted)

SweepsInv ==
    /\ SweepsTypes /\ (\A s \in Segs : Placed(s)) /\ ListStands /\ Fitting
    /\ Owing /\ Counting

LEMMA SegsCount ==
    ASSUME NEW S, S \subseteq Segs
    PROVE  IsFiniteSet(S) /\ Cardinality(S) \in Nat
BY SweepsAssumption, FS_Subset, FS_CardinalityType

LEMMA LeastIs ==
    ASSUME NEW S, S \subseteq Segs, S # {}
    PROVE  Least(S) \in S /\ \A t \in S : Least(S) <= t
<1>0. S \subseteq Nat
  <2>1. Cardinality(Segs) \in Nat
      BY SegsCount
  <2> QED BY <2>1, SweepsAssumption
<1>1. PICK i \in S : \A j \in S : ~(<<j, i>> \in OpToRel(<, Nat))
    BY <1>0, NatLessThanWellFounded, WFMin, Zenon
<1>2. \A j \in S : ~(j < i)
    BY <1>0, <1>1 DEF OpToRel
<1>3. \A j \in S : i <= j
    BY <1>0, <1>2
<1> QED BY <1>3 DEF Least

\* A file that goes, comes or moves to another disk counts for one.
LEMMA FilesCount ==
    ASSUME SweepsTypes
    PROVE  /\ \A d \in Disks : IsFiniteSet(On(d)) /\ Cardinality(On(d)) \in Nat
           /\ \A s \in files : files' = files \ {s} /\ disk' = disk =>
                \A d \in Disks : Cardinality(On(d)') = Cardinality(On(d)) - (IF disk[s] = d THEN 1 ELSE 0)
           /\ \A s \in Segs \ files : files' = files \cup {s} /\ disk' = disk =>
                \A d \in Disks : Cardinality(On(d)') = Cardinality(On(d)) + (IF disk[s] = d THEN 1 ELSE 0)
           /\ \A s \in files, a \in Disks : files' = files /\ disk' = [disk EXCEPT ![s] = a] =>
                \A d \in Disks : Cardinality(On(d)') =
                    Cardinality(On(d)) - (IF disk[s] = d THEN 1 ELSE 0) + (IF a = d THEN 1 ELSE 0)
<1>0. files \subseteq Segs /\ disk \in [Segs -> Disks]
    BY DEF SweepsTypes, Recorded
<1>1. \A d \in Disks : IsFiniteSet(On(d)) /\ Cardinality(On(d)) \in Nat
  <2> TAKE d \in Disks
  <2>1. On(d) \subseteq Segs
      BY <1>0 DEF On
  <2> QED BY <2>1, SegsCount
<1>2. ASSUME NEW s \in files, files' = files \ {s} /\ disk' = disk, NEW d \in Disks
      PROVE  Cardinality(On(d)') = Cardinality(On(d)) - (IF disk[s] = d THEN 1 ELSE 0)
  <2>1. On(d)' = On(d) \ {s} /\ (s \in On(d) <=> disk[s] = d)
      BY <1>2 DEF On
  <2>2. Cardinality(On(d) \ {s}) = IF s \in On(d) THEN Cardinality(On(d)) - 1 ELSE Cardinality(On(d))
      BY <1>1, FS_RemoveElement
  <2> QED BY <1>1, <2>1, <2>2
<1>3. ASSUME NEW s \in Segs \ files, files' = files \cup {s} /\ disk' = disk, NEW d \in Disks
      PROVE  Cardinality(On(d)') = Cardinality(On(d)) + (IF disk[s] = d THEN 1 ELSE 0)
  <2>1. On(d)' = IF disk[s] = d THEN On(d) \cup {s} ELSE On(d)
      BY <1>3 DEF On
  <2>2. s \notin On(d)
      BY DEF On
  <2>3. Cardinality(On(d) \cup {s}) = Cardinality(On(d)) + 1
      BY <1>1, <2>2, FS_AddElement
  <2> QED BY <1>1, <2>1, <2>3
<1>4. ASSUME NEW s \in files, NEW a \in Disks, files' = files /\ disk' = [disk EXCEPT ![s] = a], NEW d \in Disks
      PROVE  Cardinality(On(d)') =
                    Cardinality(On(d)) - (IF disk[s] = d THEN 1 ELSE 0) + (IF a = d THEN 1 ELSE 0)
  <2> DEFINE R == On(d) \ {s}
  <2>1. On(d)' = IF a = d THEN R \cup {s} ELSE R
      BY <1>0, <1>4 DEF On
  <2>2. IsFiniteSet(R) /\ Cardinality(R) = Cardinality(On(d)) - (IF disk[s] = d THEN 1 ELSE 0)
    <3>1. s \in On(d) <=> disk[s] = d
        BY DEF On
    <3>2. Cardinality(R) = IF s \in On(d) THEN Cardinality(On(d)) - 1 ELSE Cardinality(On(d))
        BY <1>1, FS_RemoveElement
    <3>3. IsFiniteSet(R)
        BY <1>1, FS_RemoveElement
    <3> HIDE DEF R
    <3> QED BY <1>1, <3>1, <3>2, <3>3
  <2>3. s \notin R
      OBVIOUS
  <2> HIDE DEF R
  <2>4. Cardinality(R \cup {s}) = Cardinality(R) + 1
      BY <2>2, <2>3, FS_AddElement
  <2> QED BY <1>1, <2>1, <2>2, <2>4
<1> QED BY <1>1, <1>2, <1>3, <1>4

\* A row that leaves what is counted is one of them.
LEMMA RowsCount ==
    ASSUME SweepsTypes, NEW s, Counted \ {s} \subseteq Counted', Counted' \subseteq Segs
    PROVE  /\ Cardinality(Counted) \in Nat /\ Cardinality(Counted') \in Nat
           /\ Cardinality(Counted) <= Cardinality(Counted') + 1
           /\ Counted \subseteq Counted' => Cardinality(Counted) <= Cardinality(Counted')
<1> DEFINE A == Counted
           B == Counted'
<1>1. A \subseteq Segs
    BY DEF Counted, Rows
<1>2. A \ {s} \subseteq B /\ B \subseteq Segs
    OBVIOUS
<1> HIDE DEF A, B
<1>3. /\ IsFiniteSet(A) /\ Cardinality(A) \in Nat /\ IsFiniteSet(B) /\ Cardinality(B) \in Nat
    BY <1>1, <1>2, SegsCount
<1>4. Cardinality(A \ {s}) <= Cardinality(B) /\ (A \subseteq B => Cardinality(A) <= Cardinality(B))
    BY <1>2, <1>3, FS_Subset
<1>5. Cardinality(A \ {s}) = IF s \in A THEN Cardinality(A) - 1 ELSE Cardinality(A)
    BY <1>3, FS_RemoveElement
<1>6. Cardinality(A) <= Cardinality(B) + 1
    BY <1>3, <1>4, <1>5
<1> QED BY <1>3, <1>4, <1>6 DEF A, B

-----------------------------------------------------------------------------
(* What the loops do to a segment.                                             *)

LEMMA AccountIs ==
    ASSUME SweepsTypes, NEW s, NEW freed \in BOOLEAN, Account(s, freed)
    PROVE  /\ job' \in SweepJob /\ job'.pass = job.pass /\ job'.held = job.held /\ job'.blocked = job.blocked
           /\ job'.list = job.list \ {s}
           /\ job.pass \in {"move", "floor", "cap"} => job'.used = (IF job.used > 0 THEN job.used - 1 ELSE 0)
           /\ job'.deficit = IF freed /\ job.deficit > 0 THEN job.deficit - 1 ELSE job.deficit
<1> DEFINE u == IF job.pass \in {"move", "floor", "cap", "archivecap"} /\ job.used > 0 THEN job.used - 1 ELSE job.used
           f == IF freed /\ job.deficit > 0 THEN job.deficit - 1 ELSE job.deficit
<1>1. job \in SweepJob /\ job.used \in Nat /\ job.deficit \in Nat
    BY DEF SweepsTypes, SweepJob
<1>2. u \in Nat /\ f \in Nat
    BY <1>1
<1>3. job' = [pass |-> job.pass, read |-> job.read, list |-> job.list \ {s}, used |-> u, deficit |-> f,
              blocked |-> job.blocked, held |-> job.held]
  <2> DEFINE j1 == [job EXCEPT !.list = @ \ {s}]
             j2 == [j1 EXCEPT !.used = u]
  <2>1. job' = [j2 EXCEPT !.deficit = f]
      BY <1>1 DEF Account, SweepJob
  <2>2. j1 = [pass |-> job.pass, read |-> job.read, list |-> job.list \ {s}, used |-> job.used,
              deficit |-> job.deficit, blocked |-> job.blocked, held |-> job.held]
      BY <1>1 DEF SweepJob
  <2> HIDE DEF j1, u, f
  <2>3. j2 = [pass |-> job.pass, read |-> job.read, list |-> job.list \ {s}, used |-> u,
              deficit |-> job.deficit, blocked |-> job.blocked, held |-> job.held]
      BY <2>2
  <2> HIDE DEF j2
  <2> QED BY <2>1, <2>3
<1>4. job.pass \in {"move", "floor", "cap"} => u = IF job.used > 0 THEN job.used - 1 ELSE 0
    BY <1>1
<1> HIDE DEF u
<1>5. job' \in SweepJob
    BY <1>1, <1>2, <1>3 DEF SweepJob
<1> QED BY <1>3, <1>4, <1>5

\* What is left of the list, of the rows and of the budget.
Handled(s) ==
    /\ job' \in SweepJob /\ job'.pass = job.pass /\ job'.held = job.held /\ job'.blocked = job.blocked
    /\ job'.list \subseteq job.list \ {s}
    /\ \/ stage' = stage /\ job'.used <= job.used
       \/ /\ stage' \in {[stage EXCEPT ![s] = "gone"], [stage EXCEPT ![s] = "archive"]}
          /\ job.pass \in {"move", "floor", "cap"} => job'.used = (IF job.used > 0 THEN job.used - 1 ELSE 0)

LEMMA LeaveIs ==
    ASSUME SweepsTypes, NEW s, job' = [job EXCEPT !.list = @ \ {s}], stage' = stage
    PROVE  Handled(s) /\ job'.deficit = job.deficit
<1>1. /\ job' \in SweepJob /\ job'.pass = job.pass /\ job'.held = job.held /\ job'.blocked = job.blocked
      /\ job'.list = job.list \ {s} /\ job'.used = job.used /\ job'.deficit = job.deficit
    BY DEF SweepsTypes, SweepJob
<1>2. job'.used <= job.used
    BY <1>1 DEF SweepJob
<1> QED BY <1>1, <1>2, Zenon DEF Handled

LEMMA DisposalIs ==
    ASSUME SweepsTypes, NEW s \in Segs, DeleteFileThenRow(s)
    PROVE  /\ Handled(s) /\ UNCHANGED disk /\ stage' \in {stage, [stage EXCEPT ![s] = "gone"]}
           /\ \/ /\ s \in files /\ files' = files \ {s} /\ errors' = errors
                 /\ job'.deficit = IF job.deficit > 0 THEN job.deficit - 1 ELSE job.deficit
              \/ /\ s \in files /\ files' = files \ {s} /\ errors' = errors + 1 /\ job'.deficit = job.deficit
              \/ files' = files /\ errors' \in {errors, errors + 1} /\ job'.deficit = job.deficit
<1>0. job.used \in Nat /\ job.deficit \in Nat
    BY DEF SweepsTypes, SweepJob
<1>1. CASE /\ ~Missing(s) /\ Account(s, TRUE)
           /\ stage' = [stage EXCEPT ![s] = "gone"] /\ files' = files \ {s} /\ UNCHANGED <<disk, errors>>
    BY <1>0, <1>1, AccountIs DEF Handled, Missing
<1>2. CASE PruneRow(s)
    BY <1>0, <1>2, AccountIs DEF Handled, PruneRow
<1>3. CASE Leave(s)
    BY <1>3, LeaveIs DEF Leave
<1>4. CASE /\ ~Missing(s) /\ errors' = errors + 1
           /\ job' = [job EXCEPT !.list = @ \ {s}] /\ files' \in {files, files \ {s}}
           /\ UNCHANGED <<stage, disk>>
  <2>1. Handled(s) /\ job'.deficit = job.deficit
      BY <1>4, LeaveIs
  <2> QED BY <1>4, <2>1 DEF Missing
<1> QED BY <1>1, <1>2, <1>3, <1>4 DEF DeleteFileThenRow

LEMMA MoveIs ==
    ASSUME SweepsTypes, NEW s \in Segs, job.pass = "move", s = Least(job.list), Move
    PROVE  /\ ~job.blocked /\ ~Rescued(s) /\ UNCHANGED files
           /\ \/ /\ Handled(s) /\ s \in files /\ FlipRow(s) /\ Free(policy.archive) > 0 /\ errors' = errors
                 /\ job'.deficit = IF OnFloor(s) /\ job.deficit > 0 THEN job.deficit - 1 ELSE job.deficit
              \/ /\ Handled(s) /\ stage' \in {stage, [stage EXCEPT ![s] = "gone"]}
                 /\ UNCHANGED disk /\ errors' = errors /\ job'.deficit = job.deficit
              \/ /\ UNCHANGED <<stage, disk>> /\ errors' \in {errors, errors + 1}
                 /\ job' = [job EXCEPT !.blocked = TRUE]
<1>0. job.used \in Nat /\ job.deficit \in Nat
    BY DEF SweepsTypes, SweepJob
<1>1. CASE /\ ~Missing(s) /\ Free(policy.archive) > 0 /\ Account(s, OnFloor(s))
           /\ FlipRow(s) /\ UNCHANGED <<files, errors>>
  <2>1. OnFloor(s) \in BOOLEAN
      BY DEF OnFloor
  <2> QED BY <1>0, <1>1, <2>1, AccountIs DEF Handled, Missing, FlipRow, Move
<1>2. CASE PruneRow(s)
    BY <1>0, <1>2, AccountIs DEF Handled, PruneRow, Move
<1>3. CASE Leave(s)
  <2>1. ~job.blocked /\ ~Rescued(s) /\ UNCHANGED <<stage, files, disk, errors>>
      BY <1>3 DEF Leave, Move
  <2>2. Handled(s) /\ job'.deficit = job.deficit
      BY <1>3, <2>1, LeaveIs DEF Leave
  <2> QED BY <2>1, <2>2
<1>4. CASE /\ errors' \in {errors, errors + 1} /\ job' = [job EXCEPT !.blocked = TRUE]
           /\ UNCHANGED <<stage, files, disk>>
    BY <1>4 DEF Move
<1> QED BY <1>1, <1>2, <1>3, <1>4 DEF Move

\* A segment that is dealt with leaves the lists and the count as they should be.
LEMMA HandledKeeps ==
    ASSUME SweepsInv, NEW s \in job.list, Handled(s), UNCHANGED <<policy, away, pinned, aged, expired>>,
           files' \subseteq files, errors' \in Nat,
           \/ disk' = disk /\ stage' \in {stage, [stage EXCEPT ![s] = "gone"]}
           \/ job.pass = "move" /\ FlipRow(s)
    PROVE  SweepsTypes' /\ (\A t \in Segs : Placed(t))' /\ ListStands' /\ Counting'
<1>0. SweepsTypes /\ (\A t \in Segs : Placed(t)) /\ ListStands /\ Counting /\ s \in Segs /\ s \in Recorded
    BY DEF SweepsInv, SweepsTypes, Recorded
<1>1. /\ stage \in [Segs -> {"unborn", "live", "archive", "gone"}] /\ disk \in [Segs -> Disks]
      /\ policy \in PolicyType /\ job \in SweepJob
    BY <1>0 DEF SweepsTypes
<1>2. /\ stage' \in [Segs -> {"unborn", "live", "archive", "gone"}]
      /\ \A t \in Segs : t # s => stage'[t] = stage[t]
      /\ stage'[s] \in {stage[s], "gone", "archive"}
    BY <1>0, <1>1 DEF FlipRow
<1>3. /\ disk' \in [Segs -> Disks] /\ \A t \in Segs : t # s => disk'[t] = disk[t]
      /\ \/ disk'[s] = disk[s] /\ stage'[s] \in {stage[s], "gone"}
         \/ disk'[s] = policy.archive /\ stage'[s] = "archive" /\ job.pass = "move"
    BY <1>0, <1>1 DEF FlipRow, PolicyType
<1>4. Recorded' = Recorded
    BY <1>0, <1>2 DEF Recorded
<1>5. SweepsTypes'
  <2>1. job' \in SweepJob /\ job'.list \subseteq job.list /\ job'.held = job.held
      BY DEF Handled
  <2> QED BY <1>0, <1>2, <1>3, <1>4, <2>1 DEF SweepsTypes
<1>6. (\A t \in Segs : Placed(t))'
    BY <1>0, <1>2, <1>3 DEF Placed
<1>7. ListStands'
  <2>1. job'.pass = job.pass /\ job'.list \subseteq job.list \ {s}
      BY DEF Handled
  <2>2. job'.list \subseteq Segs
      BY <2>1, <1>1 DEF SweepJob
  <2> QED BY <1>0, <1>1, <1>2, <1>3, <2>1, <2>2 DEF ListStands, SweepJob
<1>8. Counting'
  <2> SUFFICES ASSUME job'.pass \in {"move", "floor", "cap"} PROVE job'.used <= Cardinality(Counted')
      BY DEF Counting
  <2>1. job'.pass = job.pass /\ job'.held = job.held /\ Stages' = Stages
      BY DEF Handled, Stages
  <2>2. Counted' \subseteq Segs /\ Counted \ {s} \subseteq Counted' /\ (stage' = stage => Counted' = Counted)
      BY <1>2, <2>1 DEF Counted, Rows
  <2>3. /\ Cardinality(Counted) \in Nat /\ Cardinality(Counted') \in Nat
        /\ Cardinality(Counted) <= Cardinality(Counted') + 1
        /\ stage' = stage => Cardinality(Counted) <= Cardinality(Counted')
      BY <1>0, <2>2, RowsCount
  <2>4. job.used <= Cardinality(Counted) /\ job.used \in Nat /\ job'.used \in Nat
      BY <1>0, <1>1, <2>1 DEF Counting, Handled, SweepJob
  <2>5. \/ stage' = stage /\ job'.used <= job.used
        \/ job'.used = IF job.used > 0 THEN job.used - 1 ELSE 0
      BY <2>1 DEF Handled
  <2> QED BY <2>3, <2>4, <2>5
<1> QED BY <1>5, <1>6, <1>7, <1>8

\* The disks and the budgets as numbers.
LEMMA SizesAre ==
    ASSUME SweepsInv
    PROVE  /\ policy.live \in Disks /\ policy.archive \in Disks /\ policy.spill \in Nat /\ policy.cap \in Nat
           /\ Floor \in Nat /\ errors \in Nat /\ job.deficit \in Nat /\ job.used \in Nat
           /\ \A d \in Disks : Capacity[d] \in Nat /\ Cardinality(On(d)) \in Nat /\ Cardinality(On(d)) <= Capacity[d]
           /\ \A d \in Disks : Free(d) = Capacity[d] - Cardinality(On(d))
           /\ job.list \subseteq Segs
<1>1. \A d \in Disks : Cardinality(On(d)) \in Nat
    BY FilesCount DEF SweepsInv
<1> QED BY <1>1, SweepsAssumption DEF SweepsInv, SweepsTypes, PolicyType, SweepJob, Fitting, Free, On

LEMMA DisposalKeeps ==
    ASSUME SweepsInv, NEW s \in job.list, DeleteFileThenRow(s), UNCHANGED <<policy, away, pinned, aged, expired>>,
           job.pass \in {"move", "floor"} => disk[s] = policy.live
    PROVE  SweepsInv'
<1>0. s \in Segs /\ SweepsTypes /\ Fitting /\ Owing
    BY SizesAre DEF SweepsInv
<1>1. /\ Handled(s) /\ UNCHANGED disk /\ stage' \in {stage, [stage EXCEPT ![s] = "gone"]}
      /\ \/ /\ s \in files /\ files' = files \ {s} /\ errors' = errors
            /\ job'.deficit = IF job.deficit > 0 THEN job.deficit - 1 ELSE job.deficit
         \/ /\ s \in files /\ files' = files \ {s} /\ errors' = errors + 1 /\ job'.deficit = job.deficit
         \/ files' = files /\ errors' \in {errors, errors + 1} /\ job'.deficit = job.deficit
    BY <1>0, DisposalIs
<1>2. SweepsTypes' /\ (\A t \in Segs : Placed(t))' /\ ListStands' /\ Counting'
    BY <1>1, SizesAre, HandledKeeps
<1>3. \/ /\ s \in files
         /\ \A d \in Disks : Cardinality(On(d)') = Cardinality(On(d)) - (IF disk[s] = d THEN 1 ELSE 0)
      \/ files' = files /\ \A d \in Disks : On(d)' = On(d)
    BY <1>0, <1>1, FilesCount DEF On
<1>4. Fitting'
    BY <1>0, <1>3, SizesAre DEF Fitting
<1>5. Owing'
  <2> SUFFICES ASSUME job'.pass \in {"move", "floor"}, job'.deficit > 0
               PROVE  Capacity[policy.live] + job'.deficit <= Floor + policy.spill + errors' + Size'
      BY DEF Owing
  <2>1. job.pass \in {"move", "floor"} /\ disk[s] = policy.live
      BY <1>1 DEF Handled
  <2>2. Size' = Cardinality(On(policy.live)') /\ Size = Cardinality(On(policy.live)) /\ Size \in Nat
      BY SizesAre DEF Size, On
  <2>3. Capacity[policy.live] \in Nat /\ job.deficit \in Nat /\ errors \in Nat /\ policy.spill \in Nat /\ Floor \in Nat
      BY SizesAre
  <2>4. job.deficit > 0 => Capacity[policy.live] + job.deficit <= Floor + policy.spill + errors + Size
      BY <1>0, <2>1 DEF Owing
  <2>5. CASE s \in files /\ files' = files \ {s}
    <3>1. Size' = Size - 1
        BY <1>0, <2>1, <2>2, <2>5, <1>1, FilesCount, SizesAre
    <3> QED BY <1>1, <2>2, <2>3, <2>4, <2>5, <3>1
  <2>6. CASE files' = files
    <3>1. Size' = Size /\ job'.deficit = job.deficit
        BY <1>1, <2>2, <2>6 DEF On
    <3> QED BY <1>1, <2>2, <2>3, <2>4, <3>1
  <2> QED BY <1>1, <2>5, <2>6
<1> QED BY <1>2, <1>4, <1>5 DEF SweepsInv

LEMMA LeastListed ==
    ASSUME SweepsInv, Working
    PROVE  /\ Least(job.list) \in job.list /\ Least(job.list) \in Segs
           /\ \A t \in job.list : Least(job.list) <= t
BY SizesAre, LeastIs DEF Working

LEMMA DisposeKeeps ==
    ASSUME SweepsInv, Dispose \/ Rescue
    PROVE  SweepsInv'
<1> DEFINE s == Least(job.list)
<1>1. s \in job.list
    BY LeastListed DEF Dispose, Rescue
<1>2. CASE Dispose
    BY <1>1, <1>2, DisposalKeeps DEF Dispose, SweepsInv, ListStands
<1>3. CASE Rescue
    BY <1>1, <1>3, DisposalKeeps DEF Rescue, Rescued, OnFloor
<1> QED BY <1>2, <1>3

LEMMA MoveKeeps ==
    ASSUME SweepsInv, Move
    PROVE  SweepsInv'
<1> DEFINE s == Least(job.list)
<1>0. /\ SweepsTypes /\ (\A t \in Segs : Placed(t)) /\ Fitting /\ Owing /\ ListStands /\ Counting
      /\ job.pass = "move" /\ UNCHANGED <<policy, away, pinned, aged, expired>>
    BY DEF SweepsInv, Move
<1>1. s \in job.list /\ s \in Segs
    BY LeastListed DEF Move
<1> HIDE DEF s
<1>2. /\ ~job.blocked /\ ~Rescued(s) /\ UNCHANGED files
      /\ \/ /\ Handled(s) /\ s \in files /\ FlipRow(s) /\ Free(policy.archive) > 0 /\ errors' = errors
            /\ job'.deficit = IF OnFloor(s) /\ job.deficit > 0 THEN job.deficit - 1 ELSE job.deficit
         \/ /\ Handled(s) /\ stage' \in {stage, [stage EXCEPT ![s] = "gone"]}
            /\ UNCHANGED disk /\ errors' = errors /\ job'.deficit = job.deficit
         \/ /\ UNCHANGED <<stage, disk>> /\ errors' \in {errors, errors + 1}
            /\ job' = [job EXCEPT !.blocked = TRUE]
    BY <1>0, <1>1, MoveIs DEF s
<1>3. /\ Size \in Nat /\ \A d \in Disks : d = policy.live => Size = Cardinality(On(d))
      /\ \A d \in Disks : d = policy.live => Size' = Cardinality(On(d)')
    BY <1>0, SizesAre DEF Size, On
<1>4. /\ Capacity[policy.live] \in Nat /\ job.deficit \in Nat /\ errors \in Nat /\ policy.spill \in Nat
      /\ Floor \in Nat /\ policy.live \in Disks /\ policy.archive \in Disks
    BY SizesAre
<1>5. CASE /\ Handled(s) /\ s \in files /\ FlipRow(s) /\ Free(policy.archive) > 0 /\ errors' = errors
           /\ job'.deficit = IF OnFloor(s) /\ job.deficit > 0 THEN job.deficit - 1 ELSE job.deficit
  <2>1. SweepsTypes' /\ (\A t \in Segs : Placed(t))' /\ ListStands' /\ Counting'
      BY <1>0, <1>1, <1>2, <1>4, <1>5, HandledKeeps
  <2>2. \A d \in Disks : Cardinality(On(d)') =
            Cardinality(On(d)) - (IF disk[s] = d THEN 1 ELSE 0) + (IF policy.archive = d THEN 1 ELSE 0)
      BY <1>0, <1>2, <1>4, <1>5, FilesCount DEF FlipRow
  <2>3. Fitting'
      BY <1>0, <1>4, <1>5, <2>2, SizesAre DEF Fitting
  <2>4. OnFloor(s) <=> job.deficit > 0 /\ disk[s] = policy.live
      BY DEF OnFloor
  <2>5. disk[s] = policy.live /\ job.deficit > 0 => policy.archive # policy.live
      BY <1>2, <2>4 DEF Rescued
  <2>6. Size' >= Size - (IF disk[s] = policy.live THEN 1 ELSE 0) /\ Size' \in Nat
        /\ (disk[s] = policy.live /\ policy.archive # policy.live => Size' = Size - 1)
    <3>1. PICK d \in Disks : d = policy.live
        BY <1>4
    <3>2. Size = Cardinality(On(d)) /\ Size' = Cardinality(On(d)')
        BY <1>3, <3>1
    <3>3. Size' = Size - (IF disk[s] = d THEN 1 ELSE 0) + (IF policy.archive = d THEN 1 ELSE 0)
        BY <2>2, <3>2
    <3>4. Size - 1 \in Nat \/ disk[s] # d
      <4>1. disk[s] = d => s \in On(d)
          BY <1>5 DEF On
      <4>2. IsFiniteSet(On(d))
          BY <1>0, FilesCount
      <4>3. Cardinality(On(d)) = 0 => On(d) = {}
          BY <4>2, FS_EmptySet
      <4> QED BY <1>3, <3>2, <4>1, <4>3
    <3> QED BY <1>3, <3>1, <3>3, <3>4
  <2>7. Owing'
      BY <1>0, <1>3, <1>4, <1>5, <2>4, <2>5, <2>6 DEF Owing, Handled
  <2> QED BY <2>1, <2>3, <2>7 DEF SweepsInv
<1>6. CASE /\ Handled(s) /\ stage' \in {stage, [stage EXCEPT ![s] = "gone"]}
           /\ UNCHANGED disk /\ errors' = errors /\ job'.deficit = job.deficit
  <2>1. SweepsTypes' /\ (\A t \in Segs : Placed(t))' /\ ListStands' /\ Counting'
      BY <1>0, <1>1, <1>2, <1>4, <1>6, HandledKeeps
  <2>2. \A d \in Disks : On(d)' = On(d)
      BY <1>2, <1>6 DEF On
  <2>3. Fitting'
      BY <1>0, <2>2 DEF Fitting
  <2>4. Size' = Size /\ job'.pass = job.pass
      BY <1>3, <1>4, <2>2, <1>6 DEF Handled
  <2>5. Owing'
      BY <1>0, <1>6, <2>4 DEF Owing
  <2> QED BY <2>1, <2>3, <2>5 DEF SweepsInv
<1>7. CASE /\ UNCHANGED <<stage, disk>> /\ errors' \in {errors, errors + 1}
           /\ job' = [job EXCEPT !.blocked = TRUE]
  <2>1. /\ job' \in SweepJob /\ job'.pass = job.pass /\ job'.list = job.list /\ job'.used = job.used
        /\ job'.deficit = job.deficit /\ job'.held = job.held
      BY <1>0, <1>7 DEF SweepsTypes, SweepJob
  <2>2. \A d \in Disks : On(d)' = On(d)
      BY <1>2, <1>7 DEF On
  <2>3. Size' = Size
      BY <1>3, <1>4, <2>2
  <2>4. SweepsTypes'
      BY <1>0, <1>2, <1>4, <1>7, <2>1 DEF SweepsTypes, Recorded
  <2>5. (\A t \in Segs : Placed(t))' /\ ListStands' /\ Fitting'
      BY <1>0, <1>7, <2>1, <2>2 DEF Placed, ListStands, Fitting
  <2>6. Owing'
      BY <1>0, <1>3, <1>4, <1>7, <2>1, <2>3 DEF Owing
  <2>7. Counting'
      BY <1>0, <1>7, <2>1 DEF Counting, Counted, Rows, Stages
  <2> QED BY <2>4, <2>5, <2>6, <2>7 DEF SweepsInv
<1> QED BY <1>2, <1>5, <1>6, <1>7

\* Recording, time and bookmarks leave the sweep alone.
LEMMA RecordSegmentKeeps ==
    ASSUME SweepsInv, NEW s \in Segs, RecordSegment(s)
    PROVE  SweepsInv'
<1>0. /\ SweepsTypes /\ (\A t \in Segs : Placed(t)) /\ ListStands /\ Fitting /\ Owing /\ Counting
      /\ stage \in [Segs -> {"unborn", "live", "archive", "gone"}] /\ job \in SweepJob
    BY DEF SweepsInv, SweepsTypes
<1>1. /\ stage[s] = "unborn" /\ Free(policy.live) > 0 /\ stage' = [stage EXCEPT ![s] = "live"]
      /\ files' = files \cup {s} /\ UNCHANGED <<policy, away, disk, pinned, aged, expired, job, pins, errors>>
    BY DEF RecordSegment
<1>2. s \notin Recorded /\ s \notin files /\ s \notin job.list /\ disk[s] = policy.live
    BY <1>0, <1>1 DEF SweepsTypes, Recorded, Placed
<1>3. Recorded' = Recorded \cup {s} /\ stage'[s] = "live" /\ \A t \in Segs : t # s => stage'[t] = stage[t]
    BY <1>0, <1>1 DEF Recorded
<1>4. SweepsTypes'
    BY <1>0, <1>1, <1>3 DEF SweepsTypes
<1>5. (\A t \in Segs : Placed(t))'
    BY <1>0, <1>1, <1>2, <1>3 DEF Placed
<1>6. ListStands'
  <2>1. job.list \subseteq Segs
      BY <1>0 DEF SweepJob
  <2> QED BY <1>0, <1>1, <1>2, <1>3, <2>1 DEF ListStands
<1>7. \A d \in Disks : Cardinality(On(d)') = Cardinality(On(d)) + (IF disk[s] = d THEN 1 ELSE 0)
    BY <1>0, <1>1, <1>2, FilesCount
<1>8. Fitting'
    BY <1>0, <1>1, <1>2, <1>7, SizesAre DEF Fitting
<1>9. Owing'
  <2>1. PICK d \in Disks : d = policy.live
      BY SizesAre
  <2>2. Size = Cardinality(On(d)) /\ Size' = Cardinality(On(d)') /\ Size \in Nat
      BY <1>1, <2>1, SizesAre DEF Size, On
  <2>3. Size' = Size + 1
      BY <1>2, <1>7, <2>1, <2>2
  <2> QED BY <1>0, <1>1, <2>2, <2>3, SizesAre DEF Owing
<1>10. Counting'
  <2>1. Counted \subseteq Counted' /\ Counted' \subseteq Segs
      BY <1>0, <1>1, <1>3 DEF Counted, Rows, Stages
  <2>2. Cardinality(Counted) \in Nat /\ Cardinality(Counted') \in Nat /\ Cardinality(Counted) <= Cardinality(Counted')
      BY <1>0, <2>1, RowsCount
  <2> QED BY <1>0, <1>1, <2>2, SizesAre DEF Counting
<1> QED BY <1>4, <1>5, <1>6, <1>8, <1>9, <1>10 DEF SweepsInv

\* What only the time, the bookmarks and the bounds tell apart.
LEMMA WorldKeeps ==
    ASSUME SweepsInv, UNCHANGED <<policy, away, stage, disk, files, job, errors>>,
           aged' \in Nat, expired' \in Nat, expired' <= aged', pinned' \subseteq Recorded
    PROVE  SweepsInv'
<1>1. SweepsTypes'
    BY DEF SweepsInv, SweepsTypes, Recorded
<1>2. (\A t \in Segs : Placed(t))' /\ ListStands' /\ Fitting'
    BY DEF SweepsInv, Placed, ListStands, Fitting, On
<1>3. Owing' /\ Counting'
    BY DEF SweepsInv, Owing, Counting, Size, On, Counted, Rows, Stages
<1> QED BY <1>1, <1>2, <1>3 DEF SweepsInv

\* A sweep that only turns to another pass, list or budget.
LEMMA TurnKeeps ==
    ASSUME SweepsInv, UNCHANGED <<policy, away, stage, disk, files, pinned, aged, expired, errors>>,
           job' \in SweepJob, job'.list \subseteq Recorded, ListStands', Owing', Counting'
    PROVE  SweepsInv'
<1>1. SweepsTypes'
    BY DEF SweepsInv, SweepsTypes, Recorded, SweepJob
<1>2. (\A t \in Segs : Placed(t))' /\ Fitting'
    BY DEF SweepsInv, Placed, Fitting, On
<1> QED BY <1>1, <1>2 DEF SweepsInv

LEMMA GotoIs ==
    ASSUME NEW p \in Passes, Goto(p)
    PROVE  job' = [pass |-> p, read |-> FALSE, list |-> {}, used |-> 0, deficit |-> 0,
                   blocked |-> FALSE, held |-> {}] /\ job' \in SweepJob
BY DEF Goto, NoJob, SweepJob

\* A new pass of the tick owes nothing and has counted nothing.
LEMMA GotoKeeps ==
    ASSUME SweepsInv, UNCHANGED <<policy, away, stage, disk, files, pinned, aged, expired, errors>>,
           NEW p \in Passes \ {"move", "floor", "cap"}, Goto(p)
    PROVE  SweepsInv'
<1>1. /\ job' \in SweepJob /\ job'.pass = p /\ job'.list = {} /\ p \in Passes
      /\ p \notin {"move", "floor", "cap"}
    BY GotoIs
<1>2. ListStands' /\ Owing' /\ Counting'
    BY <1>1 DEF ListStands, Owing, Counting
<1> QED BY <1>1, <1>2, TurnKeeps

LEMMA FollowingIs ==
    ASSUME NEW p \in Passes \ {"floor"}
    PROVE  Following(p) \in Passes \ {"move", "floor", "cap"}
BY DEF Following, Passes

\* The floor pass ends in the cap pass, that goes on counting.
LEMMA NextPassKeeps ==
    ASSUME SweepsInv, UNCHANGED <<policy, away, stage, disk, files, pinned, aged, expired, errors>>,
           NEW now \in SweepJob, now.pass = job.pass, now.used = job.used, now.held = job.held, NextPass(now)
    PROVE  SweepsInv'
<1>0. job \in SweepJob /\ job.pass \in Passes /\ ListStands /\ Counting
    BY DEF SweepsInv, SweepsTypes, SweepJob
<1>1. CASE now.pass = "floor"
  <2>1. job' = [now EXCEPT !.pass = "cap", !.read = FALSE, !.list = {}, !.deficit = 0]
      BY <1>1 DEF NextPass
  <2>2. job' \in SweepJob /\ job'.pass = "cap" /\ job'.list = {} /\ job'.used = job.used /\ job'.held = job.held
      BY <2>1 DEF SweepJob, Passes
  <2>3. ListStands' /\ Owing'
      BY <1>0, <1>1, <2>2 DEF ListStands, Owing
  <2>4. Counting'
      BY <1>0, <1>1, <2>2 DEF Counting, Counted, Rows, Stages
  <2> QED BY <2>2, <2>3, <2>4, TurnKeeps
<1>2. CASE now.pass # "floor"
  <2>1. Goto(Following(now.pass)) /\ now.pass \in Passes \ {"floor"}
      BY <1>2 DEF NextPass, SweepJob
  <2> QED BY <2>1, FollowingIs, GotoKeeps
<1> QED BY <1>1, <1>2

LEMMA EndPassKeeps ==
    ASSUME SweepsInv, EndPass
    PROVE  SweepsInv'
BY NextPassKeeps DEF EndPass, SweepsInv, SweepsTypes

\* What is measured is owed and counted.
LEMMA MeasureKeeps ==
    ASSUME SweepsInv, Measure
    PROVE  SweepsInv'
<1> DEFINE used == Cardinality(Rows(Stages) \ pinned)
           short == Short(policy.live)
           size == [pass |-> IF policy.archiving THEN "move" ELSE "floor", read |-> FALSE, list |-> {},
                    used |-> used, deficit |-> IF short > 0 THEN short + policy.spill ELSE 0,
                    blocked |-> policy.archiving /\ policy.archive \in away, held |-> pinned]
<1>0. /\ job.pass = "live" /\ policy.archiving \in BOOLEAN /\ pinned \subseteq Segs
      /\ UNCHANGED <<policy, away, stage, disk, files, pinned, aged, expired, errors>>
    BY DEF Measure, SweepsInv, SweepsTypes, PolicyType, Recorded
<1>1. used \in Nat
  <2>1. Rows(Stages) \ pinned \subseteq Segs
      BY DEF Rows
  <2> QED BY <2>1, SegsCount
<1>2. PICK d \in Disks : d = policy.live
    BY SizesAre
<1>3. /\ Size \in Nat /\ Capacity[policy.live] \in Nat /\ Floor \in Nat /\ errors \in Nat /\ policy.spill \in Nat
      /\ Free(policy.live) = Capacity[policy.live] - Size
    BY <1>2, SizesAre DEF Size
<1>4. short \in Nat /\ (short > 0 => short = Floor + Size - Capacity[policy.live])
    BY <1>3 DEF Short
<1>5. CASE Goto(Following("live"))
  <2>1. Following("live") \in Passes \ {"move", "floor", "cap"}
      BY FollowingIs DEF Passes
  <2> QED BY <1>0, <1>5, <2>1, GotoKeeps
<1>6. CASE job' = size
  <2>0. (IF short > 0 THEN short + policy.spill ELSE 0) \in Nat
      BY <1>3, <1>4
  <2>1. job' \in SweepJob
      BY <1>0, <1>1, <1>6, <2>0 DEF SweepJob, Passes
  <2>2. /\ job'.pass = (IF policy.archiving THEN "move" ELSE "floor") /\ job'.list = {} /\ job'.held = pinned
        /\ job'.used = used
      BY <1>6
  <2>3. ListStands'
      BY <1>0, <2>2 DEF ListStands
  <2>4. job'.deficit = IF short > 0 THEN short + policy.spill ELSE 0
      BY <1>6
  <2> HIDE DEF short
  <2>5. Size' = Size
      BY <1>0 DEF Size, On
  <2>6. Owing'
      BY <1>0, <1>3, <1>4, <2>4, <2>5 DEF Owing
  <2>7. Counted' = Rows(Stages) \ pinned
      BY <1>0, <2>2 DEF Counted, Rows, Stages
  <2>8. Counting'
      BY <1>1, <2>2, <2>7 DEF Counting
  <2> QED BY <1>0, <2>1, <2>2, <2>3, <2>6, <2>8, TurnKeeps
<1>7. \/ Goto(Following("live"))
      \/ job' = [NoJob EXCEPT !.pass = IF policy.archiving THEN "move" ELSE "floor",
                              !.used = used, !.held = pinned,
                              !.deficit = IF short > 0 THEN short + policy.spill ELSE 0,
                              !.blocked = policy.archiving /\ policy.archive \in away]
    BY Zenon DEF Measure
<1>8. [NoJob EXCEPT !.pass = IF policy.archiving THEN "move" ELSE "floor",
                              !.used = used, !.held = pinned,
                              !.deficit = IF short > 0 THEN short + policy.spill ELSE 0,
                              !.blocked = policy.archiving /\ policy.archive \in away] = size
  <2> DEFINE p == IF policy.archiving THEN "move" ELSE "floor"
             due == IF short > 0 THEN short + policy.spill ELSE 0
             b == policy.archiving /\ policy.archive \in away
             j == [NoJob EXCEPT !.pass = p, !.used = used, !.held = pinned, !.deficit = due, !.blocked = b]
  <2>1. p \in Passes /\ used \in Nat /\ pinned \in SUBSET Segs /\ due \in Nat /\ b \in BOOLEAN
      BY <1>0, <1>1, <1>3, <1>4 DEF Passes
  <2>2. j = [pass |-> p, read |-> FALSE, list |-> {}, used |-> used, deficit |-> due, blocked |-> b, held |-> pinned]
    <3> HIDE DEF p, used, due, b
    <3>1. NoJob \in SweepJob /\ NoJob.read = FALSE /\ NoJob.list = {}
        BY DEF NoJob, SweepJob, Passes
    <3>2. j \in SweepJob /\ j.pass = p /\ j.used = used /\ j.held = pinned /\ j.deficit = due /\ j.blocked = b
          /\ j.read = NoJob.read /\ j.list = NoJob.list
        BY <2>1, <3>1 DEF SweepJob
    <3> HIDE DEF j
    <3> QED BY <3>1, <3>2 DEF SweepJob
  <2> QED BY <2>2
<1> QED BY <1>5, <1>6, <1>7, <1>8

LEMMA LimitedIs ==
    ASSUME NEW p \in Passes
    PROVE  Limited(p) \subseteq Candidates(p)
BY DEF Limited

\* What a pass lists are recorded segments of the tier, or of the disk, it is about.
LEMMA CandidatesAre ==
    ASSUME SweepsInv, NEW p \in Passes \ {"live"}
    PROVE  /\ Candidates(p) \subseteq Recorded
           /\ p = "retention" /\ policy.archiving => Candidates(p) = {}
           /\ p \in {"archivefloor", "drain", "archivecap"} =>
                 \A s \in Candidates(p) : stage[s] = "archive"
           /\ p = "floor" => \A s \in Candidates(p) : disk[s] = policy.live
<1>1. \A stages : "unborn" \notin stages => Rows(stages) \subseteq Recorded /\ \A s \in Rows(stages) : stage[s] \in stages
    BY DEF Rows, Recorded
<1>2. Past({"live"}) \subseteq Rows({"live"}) /\ Past({"archive"}) \subseteq Rows({"archive"})
      /\ Past({"live", "archive"}) \subseteq Rows({"live", "archive"})
    BY DEF Past
<1>3. CASE p \in {"retention", "archivefloor", "drain", "move"}
    BY <1>1, <1>2, <1>3 DEF Candidates
<1>4. CASE p \in {"floor", "cap", "archivecap"}
    BY <1>1, <1>2, <1>4 DEF Candidates
<1>5. CASE p = "ceiling"
    BY <1>1, <1>2, <1>5 DEF Candidates, CeilingList
<1> QED BY <1>3, <1>4, <1>5 DEF Passes

LEMMA ReadKeeps ==
    ASSUME SweepsInv, job.pass # "live",
           UNCHANGED <<policy, away, stage, disk, files, pinned, aged, expired, errors>>,
           job' \in SweepJob, job'.pass = job.pass, job'.list \subseteq Limited(job.pass),
           job.pass \in {"move", "floor", "cap"} =>
              job'.used = job.used /\ job'.held = job.held /\ job'.deficit = job.deficit
    PROVE  SweepsInv'
<1>0. job.pass \in Passes /\ ListStands /\ Owing /\ Counting /\ SweepsTypes
    BY DEF SweepsInv, SweepsTypes, SweepJob
<1>1. job'.list \subseteq Candidates(job.pass) /\ Candidates(job.pass) \subseteq Recorded
    BY <1>0, LimitedIs, CandidatesAre
<1>2. ListStands'
    BY <1>0, <1>1, CandidatesAre DEF ListStands
<1>3. Owing'
    BY <1>0 DEF Owing, Size, On
<1>4. Counting'
    BY <1>0 DEF Counting, Counted, Rows, Stages
<1> QED BY <1>1, <1>2, <1>3, <1>4, TurnKeeps

LEMMA ReadListKeeps ==
    ASSUME SweepsInv, ReadList
    PROVE  SweepsInv'
<1> DEFINE used == Cardinality(Rows({"archive"}) \ pinned)
           listed == [job EXCEPT !.read = TRUE, !.list = Limited(job.pass)]
           read == CASE job.pass = "archivefloor" -> [listed EXCEPT !.deficit = Short(policy.archive)]
                     [] job.pass = "archivecap" ->
                          IF policy.archiveCap > 0 /\ used > policy.archiveCap
                          THEN [listed EXCEPT !.used = used, !.held = pinned] ELSE [listed EXCEPT !.list = {}]
                     [] OTHER -> listed
<1>0. /\ job \in SweepJob /\ job.pass # "live" /\ job.pass \in Passes /\ pinned \subseteq Segs
      /\ UNCHANGED <<policy, away, stage, disk, files, pinned, aged, expired, errors>>
    BY DEF ReadList, SweepsInv, SweepsTypes, SweepJob, Recorded
<1>1. used \in Nat
  <2>1. Rows({"archive"}) \ pinned \subseteq Segs
      BY DEF Rows
  <2> QED BY <2>1, SegsCount
<1>2. Short(policy.archive) \in Nat
  <2>1. PICK d \in Disks : d = policy.archive
      BY SizesAre
  <2> QED BY <2>1, SizesAre DEF Short
<1>3. Limited(job.pass) \subseteq Segs
    BY <1>0, LimitedIs, CandidatesAre DEF Recorded
<1>4. /\ listed \in SweepJob /\ listed.pass = job.pass /\ listed.list = Limited(job.pass)
      /\ listed.used = job.used /\ listed.held = job.held /\ listed.deficit = job.deficit
    BY <1>0, <1>3 DEF SweepJob
<1> HIDE DEF listed, used
<1>5. read \in SweepJob /\ read.pass = job.pass /\ read.list \subseteq Limited(job.pass)
      /\ (job.pass \notin {"archivefloor", "archivecap"} => read = listed)
  <2>1. CASE job.pass = "archivefloor"
    <3>1. read = [listed EXCEPT !.deficit = Short(policy.archive)]
        BY <2>1
    <3>2. /\ read.pass = listed.pass /\ read.list = listed.list /\ read \in SweepJob
        BY <1>2, <1>4, <3>1 DEF SweepJob
    <3> QED BY <1>4, <2>1, <3>2
  <2>2. CASE job.pass = "archivecap"
    <3>1. read = [listed EXCEPT !.used = used, !.held = pinned] \/ read = [listed EXCEPT !.list = {}]
        BY <2>2
    <3>2. [listed EXCEPT !.list = {}] \in SweepJob /\ [listed EXCEPT !.list = {}].pass = job.pass
          /\ [listed EXCEPT !.list = {}].list = {}
        BY <1>4 DEF SweepJob
    <3>3. DEFINE w == [listed EXCEPT !.used = used, !.held = pinned]
    <3>4. w \in SweepJob /\ w.pass = job.pass /\ w.list = Limited(job.pass)
        BY <1>0, <1>1, <1>4 DEF SweepJob
    <3> QED BY <2>2, <3>1, <3>2, <3>4
  <2>3. CASE job.pass \notin {"archivefloor", "archivecap"}
    <3>1. read = listed
        BY <2>3
    <3> QED BY <1>4, <3>1
  <2> QED BY <2>1, <2>2, <2>3
<1>6. IF read.list = {} THEN NextPass(read) ELSE job' = read
    BY DEF ReadList, read, listed, used
<1> HIDE DEF read
<1>7. CASE job' = read
    BY <1>0, <1>4, <1>5, <1>7, ReadKeeps
<1>8. CASE NextPass(read)
  <2>1. CASE job.pass \in {"archivefloor", "archivecap"}
    <3>1. Goto(Following(job.pass)) /\ Following(job.pass) \in Passes \ {"move", "floor", "cap"}
        BY <1>0, <1>5, <1>8, <2>1, FollowingIs DEF NextPass
    <3> QED BY <1>0, <3>1, GotoKeeps
  <2>2. CASE job.pass \notin {"archivefloor", "archivecap"}
      BY <1>0, <1>4, <1>5, <1>8, <2>2, NextPassKeeps
  <2> QED BY <2>1, <2>2
<1> QED BY <1>6, <1>7, <1>8

LEMMA RefusedKeeps ==
    ASSUME SweepsInv, Refused
    PROVE  SweepsInv'
<1> DEFINE s == Least(job.list)
<1>0. job \in SweepJob /\ job.list \subseteq Recorded /\ ListStands /\ Owing /\ Counting
    BY DEF SweepsInv, SweepsTypes
<1>1. UNCHANGED <<policy, away, stage, disk, files, pinned, aged, expired, errors>> /\ job.pass = "move"
      /\ (job' = [job EXCEPT !.list = @ \ {s}] \/ job' = [job EXCEPT !.list = {}])
    BY DEF Refused, Leave
<1> HIDE DEF s
<1>2. /\ job' \in SweepJob /\ job'.pass = job.pass /\ job'.list \subseteq job.list /\ job'.used = job.used
      /\ job'.held = job.held /\ job'.deficit = job.deficit
    BY <1>0, <1>1 DEF SweepJob
<1>3. ListStands' /\ Owing'
    BY <1>0, <1>1, <1>2 DEF ListStands, Owing, Size, On
<1>4. Counting'
    BY <1>0, <1>1, <1>2 DEF Counting, Counted, Rows, Stages
<1> QED BY <1>0, <1>1, <1>2, <1>3, <1>4, TurnKeeps

LEMMA SweepsStart ==
    ASSUME SweepsInit
    PROVE  SweepsInv
<1>1. /\ Born \in Nat /\ Born <= Cardinality(Segs) /\ 1..Born \subseteq Segs
      /\ \A s \in Segs : s > Born <=> s \notin 1..Born
  <2>1. Cardinality(Segs) \in Nat
      BY SegsCount
  <2> QED BY <2>1, SweepsAssumption
<1>2. /\ policy \in Policies /\ policy \in PolicyType /\ away \subseteq Disks \ {policy.live}
      /\ stage \in [Segs -> {"unborn", "live", "archive", "gone"}] /\ disk \in [Segs -> Disks]
      /\ \A s \in Segs : Placed(s)
    BY SweepsAssumption DEF SweepsInit, PolicyType, Placed
<1>3. files \subseteq Recorded /\ pinned \subseteq Recorded
    BY <1>1 DEF SweepsInit, Recorded
<1>4. /\ job = [pass |-> "retention", read |-> FALSE, list |-> {}, used |-> 0, deficit |-> 0,
                blocked |-> FALSE, held |-> {}]
      /\ aged = Born /\ expired = 0 /\ errors = 0
    BY DEF SweepsInit, NoJob
<1>5. job \in SweepJob /\ job.list = {} /\ job.held = {} /\ job.pass = "retention"
    BY <1>4 DEF SweepJob, Passes
<1>6. SweepsTypes
    BY <1>1, <1>2, <1>3, <1>4, <1>5 DEF SweepsTypes
<1>7. ListStands /\ Owing /\ Counting
    BY <1>5 DEF ListStands, Owing, Counting
<1>8. Fitting
    BY DEF SweepsInit, Fitting, On
<1> QED BY <1>2, <1>6, <1>7, <1>8 DEF SweepsInv

LEMMA SweepsStep ==
    ASSUME SweepsInv, [SweepsNext]_sweeps
    PROVE  SweepsInv'
<1>0. /\ aged \in Nat /\ expired \in Nat /\ expired <= aged /\ pinned \subseteq Recorded
      /\ Recorded \subseteq Nat
  <2>1. Segs \subseteq Nat
    <3>1. Cardinality(Segs) \in Nat
        BY SegsCount
    <3> QED BY <3>1, SweepsAssumption
  <2> QED BY <2>1 DEF SweepsInv, SweepsTypes, Recorded
<1>1. CASE UNCHANGED sweeps
    BY <1>0, <1>1, WorldKeeps DEF sweeps
<1>2. CASE GrowOlder
  <2>1. aged' \in Nat /\ expired' \in Nat /\ expired' <= aged'
      BY <1>0, <1>2 DEF GrowOlder
  <2> QED BY <1>0, <1>2, <2>1, WorldKeeps DEF GrowOlder
<1>3. ASSUME NEW s \in Segs, RecordSegment(s) PROVE SweepsInv'
    BY <1>3, RecordSegmentKeeps
<1>4. ASSUME NEW s \in Segs, Bookmark(s) PROVE SweepsInv'
  <2>1. s \in Recorded
      BY <1>4 DEF Bookmark, Rows, Recorded
  <2>2. pinned' \subseteq Recorded
      BY <1>0, <1>4, <2>1 DEF Bookmark
  <2> QED BY <1>0, <1>4, <2>2, WorldKeeps DEF Bookmark
<1> QED BY <1>1, <1>2, <1>3, <1>4, MeasureKeeps, ReadListKeeps, EndPassKeeps, DisposeKeeps, RefusedKeeps, MoveKeeps
        DEF SweepsNext, SweepStep

LEMMA SweepsMeans ==
    ASSUME SweepsInv
    PROVE  SweepsTypeOK
<1>1. \A s \in Rows({"archive"}) : disk[s] = policy.archive
    BY DEF SweepsInv, Placed, Rows
<1>2. \A d \in Disks : Cardinality({s \in files : disk[s] = d}) <= Capacity[d]
    BY DEF SweepsInv, Fitting, On
<1> QED BY <1>1, <1>2 DEF SweepsInv, SweepsTypes, SweepsTypeOK

-----------------------------------------------------------------------------
(* What a step deletes.                                                        *)

\* Only the loops take files or rows.
LEMMA LoopsAlone ==
    ASSUME SweepsInv, [SweepsNext]_sweeps, ~Dispose, ~Rescue
    PROVE  Deleted = {} /\ (~Move => Rows(Stages) \subseteq Rows(Stages)')
<1>0. stage \in [Segs -> {"unborn", "live", "archive", "gone"}]
    BY DEF SweepsInv, SweepsTypes
<1>1. CASE UNCHANGED <<policy, stage, files>>
    BY <1>1 DEF Deleted, Rows, Stages
<1>2. ASSUME NEW s \in Segs, RecordSegment(s)
      PROVE  Deleted = {} /\ Rows(Stages) \subseteq Rows(Stages)'
    BY <1>0, <1>2 DEF RecordSegment, Deleted, Rows, Stages
<1>3. CASE Move
    BY <1>3 DEF Move, Deleted, PruneRow, Leave
<1>4. CASE Measure \/ ReadList \/ EndPass \/ Refused \/ GrowOlder \/ UNCHANGED sweeps
    BY <1>1, <1>4, Zenon DEF Measure, ReadList, EndPass, Refused, Leave, GrowOlder, sweeps
<1>5. ASSUME NEW s \in Segs, Bookmark(s)
      PROVE  Deleted = {} /\ Rows(Stages) \subseteq Rows(Stages)'
    BY <1>5 DEF Bookmark, Deleted, Rows, Stages
<1> QED BY <1>2, <1>3, <1>4, <1>5 DEF SweepsNext, SweepStep

\* A deletion that is owed is needed.
LEMMA OwedIsNeeded ==
    ASSUME SweepsInv, job.pass \in {"move", "floor"}, job.deficit # 0
    PROVE  Needed
<1>1. PICK d \in Disks : d = policy.live
    BY SizesAre
<1>2. /\ Size \in Nat /\ Capacity[policy.live] \in Nat /\ Floor \in Nat /\ errors \in Nat /\ policy.spill \in Nat
      /\ Free(policy.live) = Capacity[policy.live] - Size /\ job.deficit \in Nat
    BY <1>1, SizesAre DEF Size
<1>3. Capacity[policy.live] + job.deficit <= Floor + policy.spill + errors + Size
    BY <1>2 DEF SweepsInv, Owing
<1>4. job.deficit >= 1
    BY <1>2
<1>5. Capacity[policy.live] - Size < Floor + policy.spill + errors
    BY <1>2, <1>3, <1>4
<1> QED BY <1>2, <1>5 DEF Needed

\* What is over the cap is so in truth.
LEMMA OverIsCounted ==
    ASSUME SweepsInv, Working, job.pass \in {"move", "floor", "cap"}, job.deficit = 0
    PROVE  Cardinality(Rows(Stages) \ job.held) > Target(policy.cap)
<1>1. job.used > Target(policy.cap)
    BY DEF Working, Satisfied
<1>2. Target(policy.cap) \in Nat /\ job.used \in Nat
    BY SizesAre DEF Target
<1>3. Cardinality(Counted) \in Nat
  <2>1. Counted \subseteq Segs
      BY DEF Counted, Rows
  <2> QED BY <2>1, SegsCount
<1>4. job.used <= Cardinality(Counted)
    BY DEF SweepsInv, Counting
<1>5. Cardinality(Counted) > Target(policy.cap)
    BY <1>1, <1>2, <1>3, <1>4
<1> QED BY <1>5 DEF Counted

\* The cap pass takes what is of age.
LEMMA CapTakesAged ==
    ASSUME SweepsInv, Working, job.pass = "cap"
    PROVE  Least(job.list) <= aged
<1>1. PICK t \in job.list : ~(t > aged)
    BY DEF Working, Satisfied
<1>2. Least(job.list) \in Segs /\ Least(job.list) <= t /\ t \in Segs /\ aged \in Nat
    BY LeastListed, SizesAre DEF SweepsInv, SweepsTypes
<1>3. Segs \subseteq Nat
  <2>1. Cardinality(Segs) \in Nat
      BY SegsCount
  <2> QED BY <2>1, SweepsAssumption
<1>4. t \in Nat /\ Least(job.list) \in Nat
    BY <1>2, <1>3
<1>5. t <= aged
    BY <1>1, <1>2, <1>4
<1> QED BY <1>2, <1>4, <1>5

LEMMA DeletedIs ==
    ASSUME NEW s, DeleteFileThenRow(s)
    PROVE  Deleted \subseteq {s}
BY DEF DeleteFileThenRow, Deleted, PruneRow, Leave

LEMMA EvictionsJustified ==
    ASSUME SweepsInv, [SweepsNext]_sweeps
    PROVE  UnarchivedStays /\ NothingMoreIsEvicted
<1> DEFINE s == Least(job.list)
<1>0. ListStands /\ job.pass \in Passes
    BY DEF SweepsInv, SweepsTypes, SweepJob
<1>1. CASE ~Dispose /\ ~Rescue
  <2>1. Deleted = {} /\ (~Move => Rows(Stages) \subseteq Rows(Stages)')
      BY <1>1, LoopsAlone
  <2>2. Move => Working /\ job.pass = "move"
      BY DEF Move
  <2> QED BY <2>1, <2>2, OverIsCounted DEF UnarchivedStays, NothingMoreIsEvicted
<1>2. CASE Dispose
  <2>1. Working /\ job.pass # "move" /\ Deleted \subseteq {s} /\ s \in job.list
      BY <1>2, DeletedIs, LeastListed DEF Dispose
  <2> HIDE DEF s
  <2>2. UnarchivedStays
      BY <1>0, <2>1 DEF UnarchivedStays, ListStands, Passes
  <2>3. CASE job.pass = "floor"
    <3>1. job.deficit # 0
        BY <2>1, <2>3 DEF Working, Satisfied
    <3> QED BY <2>2, <2>3, <3>1, OwedIsNeeded DEF NothingMoreIsEvicted
  <2>4. CASE job.pass = "cap"
      BY <2>1, <2>2, <2>4, OverIsCounted, CapTakesAged DEF NothingMoreIsEvicted, s
  <2>5. CASE job.pass \notin {"move", "floor", "cap"}
      BY <2>2, <2>5 DEF NothingMoreIsEvicted
  <2> QED BY <2>1, <2>3, <2>4, <2>5
<1>3. CASE Rescue
  <2>1. /\ Working /\ job.pass = "move" /\ Deleted \subseteq {s} /\ job.deficit > 0 /\ disk[s] = policy.live
        /\ (job.blocked \/ disk[s] = policy.archive)
      BY <1>3, DeletedIs DEF Rescue, Rescued, OnFloor
  <2>2. job.deficit # 0
      BY <2>1, SizesAre
  <2>3. Needed
      BY <2>1, <2>2, OwedIsNeeded
  <2> HIDE DEF s
  <2> QED BY <2>1, <2>2, <2>3 DEF UnarchivedStays, NothingMoreIsEvicted
<1> QED BY <1>1, <1>2, <1>3

-----------------------------------------------------------------------------
(* The supervisor.                                                             *)

Tables == [Cameras -> Configs \cup {"off"}]
Worker == {NoWorker} \cup [n : Numbers, config : Configs, backend : Backends]
Sync == [step : {"idle", "settings", "workers"}, rows : Tables, backend : Backends,
         todo : SUBSET Cameras, camera : Cameras \cup {"-"}, stopping : {0} \cup Numbers]

Tasks == recording \cup motion

WorldOK ==
    /\ rows \in Tables /\ backend \in Backends
    /\ services \subseteq Services /\ phase \in {"up", "term", "down"}

TasksOK ==
    /\ recording \subseteq Cameras \X Numbers /\ motion \subseteq Cameras \X Numbers
    /\ hung \subseteq Cameras \X Numbers

\* The camera at hand has no worker in the map, is dealt with in the workers stage only, and
\* once nothing of it is being stopped it is to be started.
AtHand ==
    /\ sync.stopping # 0 => sync.camera # "-"
    /\ sync.camera # "-" => sync.step = "workers" /\ workers[sync.camera] = NoWorker
    /\ sync.camera # "-" /\ sync.stopping = 0 => sync.rows[sync.camera] # "off"

SyncOK ==
    /\ sync \in Sync /\ sync.todo \subseteq Enabled(sync.rows)
    /\ AtHand

SupervisorInv ==
    /\ WorldOK /\ workers \in [Cameras -> Worker] /\ TasksOK /\ SyncOK
    /\ TasksAreOwned

\* The record of no sync is one, with nothing at hand.
LEMMA NoSyncIsIdle ==
    /\ NoSync \in Sync /\ NoSync.todo = {} /\ NoSync.camera = "-" /\ NoSync.stopping = 0
BY SupervisorAssumption DEF NoSync, Sync, Tables

\* A process starts with no worker and no task.
LEMMA InitInv == SupervisorInit => SupervisorInv
<1> SUFFICES ASSUME SupervisorInit PROVE SupervisorInv
    OBVIOUS
<1>1. WorldOK /\ TasksOK
    BY SupervisorAssumption DEF SupervisorInit, WorldOK, Tables, TasksOK
<1>2. workers \in [Cameras -> Worker] /\ TasksAreOwned
    BY DEF SupervisorInit, Worker, TasksAreOwned
<1>3. SyncOK
    BY NoSyncIsIdle DEF SupervisorInit, SyncOK, AtHand
<1> QED BY <1>1, <1>2, <1>3 DEF SupervisorInv

\* Without a camera at hand every task is its worker's.
LEMMA OwnedByWorkers ==
    ASSUME SupervisorInv, sync.camera = "-"
    PROVE  sync.stopping = 0 /\ \A t \in Tasks : t[1] \in Cameras /\ workers[t[1]].n = t[2]
<1>1. \A t \in Tasks : t[1] \in Cameras
    BY DEF SupervisorInv, TasksOK, Tasks
<1> QED BY <1>1, SupervisorAssumption DEF SupervisorInv, SyncOK, AtHand, TasksAreOwned, Tasks

\* Taking a worker out of the map leaves its tasks to the stop.
LEMMA TakeOutKeeps ==
    ASSUME SupervisorInv, NEW c \in Cameras, sync.step = "workers", sync.camera = "-",
           Running(c), TakeOut(c)
    PROVE  /\ workers' \in [Cameras -> Worker]
           /\ sync' \in Sync /\ sync'.todo = sync.todo /\ sync'.rows = sync.rows
           /\ sync'.step = "workers" /\ sync'.camera = c
           /\ sync'.stopping = workers[c].n /\ sync'.stopping \in Numbers
           /\ workers'[c] = NoWorker
           /\ \A t \in Tasks :
                 \/ workers'[t[1]].n = t[2]
                 \/ sync'.camera = t[1] /\ sync'.stopping = t[2]
<1>1. workers[c].n \in Numbers
    BY DEF SupervisorInv, Running, Worker
<1>2. workers' \in [Cameras -> Worker] /\ workers'[c] = NoWorker
      /\ \A d \in Cameras \ {c} : workers'[d] = workers[d]
    BY DEF SupervisorInv, TakeOut, Worker
<1>3. sync' \in Sync /\ sync'.todo = sync.todo /\ sync'.rows = sync.rows
      /\ sync'.step = "workers" /\ sync'.camera = c /\ sync'.stopping = workers[c].n
    BY <1>1 DEF SupervisorInv, SyncOK, TakeOut, Sync
<1> QED BY <1>1, <1>2, <1>3, OwnedByWorkers

-----------------------------------------------------------------------------

\* The steps of the world: edits, faults, signals.
LEMMA WorldKeepsInv ==
    SupervisorInv /\ (Edit \/ TaskPanics \/ TaskHangs \/ Sigterm) => SupervisorInv'
<1> SUFFICES ASSUME SupervisorInv, Edit \/ TaskPanics \/ TaskHangs \/ Sigterm
             PROVE  SupervisorInv'
    OBVIOUS
<1> USE DEF SupervisorInv
<1>1. CASE Edit
  <2>1. rows' \in Tables /\ backend' \in Backends
      BY <1>1 DEF Edit, WorldOK, Tables
  <2> QED BY <1>1, <2>1 DEF Edit, WorldOK, TasksOK, SyncOK, AtHand, TasksAreOwned, Enabled
<1>2. CASE TaskPanics
  <2>1. /\ recording' \subseteq recording /\ motion' \subseteq motion /\ services' \subseteq services
        /\ UNCHANGED <<rows, backend, workers, hung, sync, phase>>
      BY <1>2 DEF TaskPanics
  <2>2. WorldOK' /\ TasksOK'
      BY <2>1 DEF WorldOK, TasksOK
  <2>3. SyncOK'
      BY <2>1 DEF SyncOK, AtHand, Enabled
  <2>4. TasksAreOwned'
      BY <2>1 DEF TasksAreOwned
  <2> QED BY <2>1, <2>2, <2>3, <2>4
<1>3. CASE TaskHangs
  <2>1. hung' \subseteq Cameras \X Numbers
      BY <1>3 DEF TaskHangs, TasksOK
  <2> QED BY <1>3, <2>1 DEF TaskHangs, WorldOK, TasksOK, SyncOK, AtHand, TasksAreOwned, Enabled
<1>4. CASE Sigterm
  BY <1>4 DEF Sigterm, WorldOK, TasksOK, SyncOK, AtHand, TasksAreOwned, Enabled
<1> QED BY <1>1, <1>2, <1>3, <1>4

\* A tick and the reads of a sync leave workers and tasks alone.
LEMMA ReadsKeepInv ==
    SupervisorInv /\ (Tick \/ ReadBackend \/ SyncEnds) => SupervisorInv'
<1> SUFFICES ASSUME SupervisorInv, Tick \/ ReadBackend \/ SyncEnds PROVE SupervisorInv'
    OBVIOUS
<1> USE DEF SupervisorInv
<1>1. UNCHANGED <<rows, backend, workers, recording, motion, hung, phase>> /\ services' \subseteq Services
    BY DEF Tick, ReadBackend, SyncEnds, WorldOK
<1>2. sync.camera = "-" /\ sync'.camera = "-" /\ sync'.stopping = 0
  <2>1. CASE Tick
      BY <2>1, NoSyncIsIdle, OwnedByWorkers DEF Tick, SyncOK, AtHand, NoSync
  <2>2. CASE ReadBackend
      BY <2>2, OwnedByWorkers DEF ReadBackend, SyncOK, AtHand, Sync
  <2>3. CASE SyncEnds
      BY <2>3, NoSyncIsIdle DEF SyncEnds
  <2> QED BY <2>1, <2>2, <2>3
<1>3. sync' \in Sync /\ sync'.todo \subseteq Enabled(sync'.rows)
  <2>1. CASE Tick
    <3>1. CASE sync' = sync
        BY <3>1 DEF SyncOK
    <3>2. CASE sync' = [NoSync EXCEPT !.step = "settings", !.rows = rows, !.todo = Enabled(rows)]
        BY <3>2, NoSyncIsIdle DEF Sync, WorldOK, Enabled
    <3> QED BY <2>1, <3>1, <3>2 DEF Tick
  <2>2. CASE ReadBackend
      BY <2>2, SupervisorAssumption DEF ReadBackend, SyncOK, Sync, WorldOK, Enabled
  <2>3. CASE SyncEnds
      BY <2>3, NoSyncIsIdle DEF SyncEnds
  <2> QED BY <2>1, <2>2, <2>3
<1>4. WorldOK' /\ TasksOK'
    BY <1>1 DEF WorldOK, TasksOK
<1>5. SyncOK'
    BY <1>2, <1>3 DEF SyncOK, AtHand
<1>6. TasksAreOwned'
    BY <1>1, <1>2, OwnedByWorkers DEF TasksAreOwned, Tasks
<1> QED BY <1>1, <1>4, <1>5, <1>6

\* A camera that is gone, and one that is taken up, is at hand without a worker.
LEMMA CameraKeepsInv ==
    ASSUME SupervisorInv, NEW c \in Cameras, StopRemoved(c) \/ TakeUp(c)
    PROVE  SupervisorInv'
<1> USE DEF SupervisorInv
<1>0. /\ sync.step = "workers" /\ sync.camera = "-"
      /\ UNCHANGED <<rows, backend, recording, motion, hung, services, phase>>
    BY DEF StopRemoved, TakeUp
<1>1. WorldOK' /\ TasksOK'
    BY <1>0 DEF WorldOK, TasksOK
<1>2. CASE Running(c) /\ TakeOut(c)
  <2>1. 0 \notin Numbers
      BY DEF Numbers
  <2>2. SyncOK'
      BY <1>0, <1>2, <2>1, TakeOutKeeps, SupervisorAssumption DEF SyncOK, AtHand, Enabled
  <2>3. TasksAreOwned'
      BY <1>0, <1>2, TakeOutKeeps DEF TasksAreOwned, Tasks
  <2> QED BY <1>0, <1>1, <1>2, <2>2, <2>3, TakeOutKeeps
<1>3. CASE c \in sync.todo /\ ~Running(c) /\ sync' = [sync EXCEPT !.camera = c] /\ UNCHANGED workers
  <2>1. sync' \in Sync /\ sync'.camera = c /\ sync'.stopping = 0 /\ sync'.step = "workers"
        /\ sync'.rows = sync.rows /\ sync'.todo = sync.todo
      BY <1>0, <1>3, OwnedByWorkers DEF SyncOK, Sync
  <2>2. sync.rows[c] # "off"
      BY <1>3 DEF SyncOK, Enabled
  <2>3. SyncOK'
      BY <1>3, <2>1, <2>2 DEF SyncOK, AtHand, Enabled, Running
  <2>4. TasksAreOwned'
      BY <1>0, <1>3, OwnedByWorkers DEF TasksAreOwned, Tasks
  <2> QED BY <1>1, <1>3, <2>3, <2>4
<1>4. CASE sync' = [sync EXCEPT !.todo = @ \ {c}] /\ UNCHANGED workers
  <2>1. sync' \in Sync /\ sync'.camera = "-" /\ sync'.stopping = 0
        /\ sync'.rows = sync.rows /\ sync'.todo = sync.todo \ {c}
      BY <1>0, <1>4, OwnedByWorkers DEF SyncOK, Sync
  <2>2. SyncOK'
      BY <2>1 DEF SyncOK, AtHand, Enabled
  <2>3. TasksAreOwned'
      BY <1>0, <1>4, OwnedByWorkers DEF TasksAreOwned, Tasks
  <2> QED BY <1>1, <1>4, <2>2, <2>3
<1> QED BY <1>2, <1>3, <1>4 DEF StopRemoved, TakeUp, Removed

-----------------------------------------------------------------------------

\* The end of a stop takes the tasks it was about.
LEMMA StopKeepsInv == SupervisorInv /\ StopEnds => SupervisorInv'
<1> SUFFICES ASSUME SupervisorInv, StopEnds PROVE SupervisorInv'
    OBVIOUS
<1> USE DEF SupervisorInv
<1>1. /\ UNCHANGED <<rows, backend, workers, services, phase>>
      /\ recording' = recording \ {<<sync.camera, sync.stopping>>}
      /\ motion' = motion \ {<<sync.camera, sync.stopping>>} /\ hung' \subseteq hung
    BY DEF StopEnds
<1>2. /\ sync' \in Sync /\ sync'.stopping = 0 /\ sync'.step = sync.step
      /\ sync'.rows = sync.rows /\ sync'.todo = sync.todo
      /\ sync'.camera = IF sync.rows[sync.camera] = "off" THEN "-" ELSE sync.camera
    BY DEF StopEnds, SyncOK, Sync
<1>3. WorldOK' /\ TasksOK'
    BY <1>1 DEF WorldOK, TasksOK
<1>4. SyncOK'
    BY <1>1, <1>2 DEF SyncOK, AtHand, Enabled
<1>5. TasksAreOwned'
  <2> SUFFICES ASSUME NEW t \in recording' \cup motion' PROVE workers[t[1]].n = t[2]
      BY <1>1 DEF TasksAreOwned
  <2>1. t \in Tasks /\ t # <<sync.camera, sync.stopping>> /\ t = <<t[1], t[2]>>
      BY <1>1 DEF TasksOK, Tasks
  <2> QED BY <2>1 DEF TasksAreOwned, Tasks
<1> QED BY <1>1, <1>3, <1>4, <1>5

\* A worker is started where no task of its camera runs.
LEMMA SpawnKeepsInv == SupervisorInv /\ SpawnWorker => SupervisorInv'
<1> SUFFICES ASSUME SupervisorInv, SpawnWorker PROVE SupervisorInv'
    OBVIOUS
<1> USE DEF SupervisorInv
<1> DEFINE c == sync.camera
           n == CHOOSE i \in Numbers : <<c, i>> \notin recording \cup motion
           worker == [n |-> n, config |-> sync.rows[c], backend |-> sync.backend]
<1>1. /\ c # "-" /\ sync.stopping = 0
      /\ workers' = [workers EXCEPT ![c] = worker]
      /\ recording' = recording \cup {<<c, n>>} /\ motion' = motion \cup {<<c, n>>}
      /\ sync' = [sync EXCEPT !.camera = "-", !.todo = @ \ {c}]
      /\ UNCHANGED <<rows, backend, hung, services, phase>>
    BY DEF SpawnWorker, Spawn
<1>2. c \in Cameras /\ workers[c].n = 0 /\ sync.rows[c] \in Configs /\ sync.backend \in Backends
    BY <1>1 DEF SyncOK, AtHand, Sync, Tables, NoWorker
<1>3. \A i \in Numbers : <<c, i>> \notin recording \cup motion
  <2> SUFFICES ASSUME NEW i \in Numbers, <<c, i>> \in recording \cup motion PROVE FALSE
      OBVIOUS
  <2>1. workers[c].n = i \/ sync.stopping = i
      BY DEF TasksAreOwned
  <2> QED BY <1>1, <1>2, <2>1 DEF Numbers
<1>4. n \in Numbers
    BY <1>3 DEF Numbers
<1> HIDE DEF c, n
<1>5. worker \in Worker
    BY <1>2, <1>4 DEF Worker, c
<1>6. workers' \in [Cameras -> Worker] /\ workers'[c].n = n
      /\ \A d \in Cameras \ {c} : workers'[d] = workers[d]
    BY <1>1, <1>2, <1>5
<1>7. WorldOK' /\ TasksOK'
    BY <1>1, <1>2, <1>4 DEF WorldOK, TasksOK
<1>8. SyncOK'
  <2>1. sync' \in Sync /\ sync'.camera = "-" /\ sync'.stopping = 0 /\ sync'.rows = sync.rows
        /\ sync'.todo \subseteq sync.todo
      BY <1>1 DEF SyncOK, Sync
  <2> QED BY <2>1 DEF SyncOK, AtHand, Enabled
<1>9. TasksAreOwned'
  <2> SUFFICES ASSUME NEW t \in recording' \cup motion' PROVE workers'[t[1]].n = t[2]
      BY DEF TasksAreOwned
  <2>1. CASE t = <<c, n>>
      BY <1>6, <2>1
  <2>2. CASE t \in recording \cup motion
    <3>1. t[1] \in Cameras /\ t[2] \in Numbers /\ t = <<t[1], t[2]>>
        BY <2>2 DEF TasksOK
    <3>2. t[1] # c
        BY <1>3, <2>2, <3>1
    <3> QED BY <1>6, <2>2, <3>1, <3>2 DEF TasksAreOwned, c
  <2> QED BY <1>1, <2>1, <2>2
<1> QED BY <1>6, <1>7, <1>8, <1>9

\* With the process everything of it is gone, and it starts without.
LEMMA ProcessKeepsInv == SupervisorInv /\ (Crashes \/ StopAll \/ Starts) => SupervisorInv'
<1> SUFFICES ASSUME SupervisorInv, Crashes \/ StopAll \/ Starts PROVE SupervisorInv'
    OBVIOUS
<1> USE DEF SupervisorInv
<1>1. CASE Gone
  <2>1. WorldOK' /\ TasksOK' /\ workers' \in [Cameras -> Worker] /\ TasksAreOwned'
      BY <1>1 DEF Gone, WorldOK, TasksOK, Worker, TasksAreOwned
  <2>2. SyncOK'
      BY <1>1, NoSyncIsIdle DEF Gone, SyncOK, AtHand
  <2> QED BY <2>1, <2>2
<1>2. CASE Starts
  BY <1>2 DEF Starts, WorldOK, TasksOK, SyncOK, AtHand, TasksAreOwned, Enabled
<1> QED BY <1>1, <1>2 DEF Crashes, StopAll

\* Every step preserves the invariant.
LEMMA NextInv == SupervisorInv /\ [SupervisorNext]_supervisor => SupervisorInv'
<1> SUFFICES ASSUME SupervisorInv, [SupervisorNext]_supervisor PROVE SupervisorInv'
    OBVIOUS
<1>1. CASE UNCHANGED supervisor
  BY <1>1 DEF supervisor, SupervisorInv, WorldOK, TasksOK, SyncOK, AtHand, TasksAreOwned, Enabled
<1>2. CASE SyncStep
  BY <1>2, ReadsKeepInv, StopKeepsInv, SpawnKeepsInv, CameraKeepsInv DEF SyncStep
<1> QED BY <1>1, <1>2, WorldKeepsInv, ProcessKeepsInv DEF SupervisorNext

LEMMA SupervisorStands == SupervisorInit /\ [][SupervisorNext]_supervisor => []SupervisorInv
BY InitInv, NextInv, PTL

LEMMA RegistryStands == RegistryInit /\ [][RegistryNext]_registry => []RegistryInv
BY RegistryStart, RegistryStep, PTL

LEMMA SweepsStand == SweepsInit /\ [][SweepsNext]_sweeps => []SweepsInv
BY SweepsStart, SweepsStep, PTL

\* Whichever part moves, each is a behaviour of its own specification, fairness aside.
LEMMA PartsRun ==
    Spec => /\ RegistryInit /\ [][RegistryNext]_registry
            /\ SweepsInit /\ [][SweepsNext]_sweeps
            /\ SupervisorInit /\ [][SupervisorNext]_supervisor
<1>1. Init => RegistryInit /\ SweepsInit /\ SupervisorInit
    BY DEF Init
<1>2. [Next]_vars => [RegistryNext]_registry /\ [SweepsNext]_sweeps /\ [SupervisorNext]_supervisor
    BY DEF Next, vars
<1> QED BY <1>1, <1>2, PTL DEF Spec

-----------------------------------------------------------------------------

\* Type correctness, of the map of workers (main.rs CameraWorker) in particular: a worker in
\* it has a number, an enabled camera's configuration and a backend.
THEOREM SupervisorTypeCorrect == SupervisorSpec => []SupervisorTypeOK
<1>1. SupervisorInv => SupervisorTypeOK
  BY DEF SupervisorInv, SupervisorTypeOK, WorldOK, TasksOK, SyncOK, Sync, Worker, Tables, Running
<1> QED BY <1>1, SupervisorStands, PTL DEF SupervisorSpec

\* A camera never has two recorders, nor one nobody could stop (main.rs sync_cameras): each
\* task is of the worker in the map or of the one that is being stopped.
THEOREM NoTaskIsOrphaned == SupervisorSpec => []TasksAreOwned
<1>1. SupervisorInv => TasksAreOwned
  BY DEF SupervisorInv
<1> QED BY <1>1, SupervisorStands, PTL DEF SupervisorSpec

\* When reconciles and requests have run their course, go2rtc has no stream that no camera
\* asks for, save those whose removal failed (reconcile.rs reconcile_streams_best_effort): no
\* interleaving of the API's requests, its passes and the recorder's own registration leaves one.
THEOREM NoStreamIsZombie == RegistrySpec => []NoZombieStreams
BY RegistryMeans, RegistryStands, PTL DEF RegistrySpec

\* The size and floor evictions of archive.rs delete only what they need to: no unarchived
\* footage of an archiving policy, short of the ceiling or of a recording disk that lacks the
\* bytes; and no more than is over the floor or the cap as the disks have it, though the sweep
\* goes by counters it read earlier.
THEOREM NoEvictionIsIdle == SweepsSpec => EvictionsAreNeeded
<1>1. SweepsInv /\ [SweepsNext]_sweeps => [UnarchivedStays /\ NothingMoreIsEvicted]_sweeps
    BY EvictionsJustified
<1> QED BY <1>1, SweepsStand, PTL DEF SweepsSpec, EvictionsAreNeeded

\* The recorder's upkeep keeps its types: stream table, sweeps and supervisor. That what is
\* listed was recorded, that an archived row is on the archive's disk and that no disk holds
\* more than its capacity are among them.
THEOREM UpkeepTypeCorrect == Spec => []UpkeepTypeOK
<1>1. RegistryInv /\ SweepsInv /\ SupervisorInv => UpkeepTypeOK
  <2>1. SupervisorInv => SupervisorTypeOK
    BY DEF SupervisorInv, SupervisorTypeOK, WorldOK, TasksOK, SyncOK, Sync, Worker, Tables, Running
  <2> QED BY <2>1, RegistryMeans, SweepsMeans DEF UpkeepTypeOK
<1> QED BY <1>1, PartsRun, RegistryStands, SweepsStand, SupervisorStands, PTL
=============================================================================
