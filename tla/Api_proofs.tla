------------------------------ MODULE Api_proofs ------------------------------
(* The three parts of the API, for every value of their constants. Export jobs: what *)
(* the map says is true, and live work is neither evicted nor finished against its *)
(* cancel. Detections: what the rows say only improves, and each alert is accounted *)
(* for. Outage alerts: latch, rows and cursor fit together. Each part has an *)
(* inductive invariant of its own.                                             *)
EXTENDS MCApi, FiniteSetTheorems, WellFoundedInduction, TLAPS

-----------------------------------------------------------------------------
(* The export jobs.                                                            *)

Statuses == Active \cup Terminal \cup {"none"}
Worker == [at : {"none", "starting", "opening", "listing", "encoding", "packaging",
                 "packaged", "finishing", "cleaning"},
           left : Int, some : BOOLEAN]
Sweep == [step : {"idle", "ttl", "measuring", "budget"}, list : SUBSET Jobs,
          victim : {0} \cup Jobs, at : {"none", "files", "row", "entry"}]

Types ==
    /\ job \in [Jobs -> Statuses] /\ rows \in [Jobs -> SUBSET Statuses]
    /\ token \in [Jobs -> {"none", "armed", "fired", "late"}]
    /\ worker \in [Jobs -> Worker]
    /\ marks \subseteq Jobs /\ dir \subseteq Jobs /\ stuck \subseteq Jobs
    /\ sweep \in Sweep /\ born \in Nat

\* The sweep is about to take the job's entry, directory or row.
InHand(j) == j \in sweep.list \/ j = sweep.victim

\* Steps of a worker that has opened the directory.
Opened == {"listing", "encoding", "packaging", "packaged", "finishing", "cleaning"}

\* Nothing is there of a job before it is created.
Unborn(j) ==
    /\ job[j] = "none" /\ rows[j] = {"none"} /\ worker[j].at = "none"
    /\ j \notin dir /\ j \notin marks /\ ~InHand(j)

\* Entry and row of a job: under way it has a worker, and once it may be read back as done it
\* has its files and no worker any more.
Told(j) ==
    /\ job[j] \in Active => worker[j].at # "none"
    /\ rows[j] # {} /\ (job[j] = "done" => "done" \in rows[j])
    /\ "done" \in rows[j] => worker[j].at = "none"
    /\ "done" \in rows[j] \/ worker[j].at \in Opened => j \in dir \cup swept

\* The token: it comes and goes with the worker, fires before the last look or after it, and
\* what a cancel has marked stays cancelled although the worker says otherwise.
Armed(j) ==
    /\ token[j] = "none" <=> worker[j].at = "none"
    /\ worker[j].at = "finishing" => token[j] # "fired"
    /\ worker[j].at = "cleaning" => token[j] = "fired"
    /\ token[j] = "late" => worker[j].at = "finishing"
    /\ j \in marks => token[j] # "armed"
    /\ worker[j].at = "starting" /\ job[j] \in Terminal => token[j] = "fired"
    /\ job[j] \in Active /\ InHand(j) => token[j] = "fired"

JobInv(j) == (j > born => Unborn(j)) /\ Told(j) /\ Armed(j)

ExportsInv == Types /\ \A j \in Jobs : JobInv(j)

\* At first there is nothing.
LEMMA InitInv == ExportsInit => ExportsInv
<1> SUFFICES ASSUME ExportsInit PROVE ExportsInv
    OBVIOUS
<1>1. Types
  BY ExportsAssumption DEF ExportsInit, Types, Statuses, Active, Terminal, Worker, Off, Sweep, Asleep
<1>2. ASSUME NEW j \in Jobs PROVE JobInv(j)
  <2>1. j # 0 /\ ~InHand(j)
      BY ExportsAssumption DEF ExportsInit, InHand, Asleep
  <2> QED BY <2>1 DEF ExportsInit, JobInv, Unborn, Told, Armed, Active, Terminal, Opened, Off
<1> QED BY <1>1, <1>2 DEF ExportsInv

\* Put changes the entry and the row of its job only, and neither if there is no entry.
LEMMA PutSays ==
    ASSUME Types, NEW j \in Jobs, NEW s \in Statuses, Put(j, s)
    PROVE  /\ job' \in [Jobs -> Statuses] /\ rows' \in [Jobs -> SUBSET Statuses]
           /\ \A k \in Jobs \ {j} : job'[k] = job[k] /\ rows'[k] = rows[k]
           /\ job[j] = "none" => job'[j] = "none" /\ rows'[j] = rows[j]
           /\ job[j] # "none" => job'[j] = s /\ rows'[j] = rows[j] \cup {s}
BY DEF Put, Types

\* A step that leaves the other jobs alone has to be shown right for its own job only.
LEMMA OneJob ==
    ASSUME ExportsInv, NEW j \in Jobs, Types', JobInv(j)', UNCHANGED <<born, sweep>>,
           \A k \in Jobs \ {j} :
              /\ job'[k] = job[k] /\ rows'[k] = rows[k]
              /\ token'[k] = token[k] /\ worker'[k] = worker[k]
              /\ k \in marks' <=> k \in marks
              /\ k \in dir' <=> k \in dir
              /\ k \in swept => k \in swept'
    PROVE  ExportsInv'
<1>1. ASSUME NEW k \in Jobs \ {j} PROVE JobInv(k)'
  BY <1>1 DEF ExportsInv, JobInv, Unborn, Told, Armed, InHand
<1> QED BY <1>1 DEF ExportsInv

-----------------------------------------------------------------------------

LEMMA CreateKeepsInv == ExportsInv /\ Create => ExportsInv'
<1> SUFFICES ASSUME ExportsInv, Create PROVE ExportsInv'
    OBVIOUS
<1>1. PICK n \in Jobs :
          /\ n = born + 1 /\ born' = n
          /\ job' = [job EXCEPT ![n] = "queued"] /\ rows' = [rows EXCEPT ![n] = @ \cup {"queued"}]
          /\ token' = [token EXCEPT ![n] = "armed"]
          /\ worker' = [worker EXCEPT ![n] = [at |-> "starting", left |-> Clips, some |-> FALSE]]
          /\ UNCHANGED <<marks, dir, sweep, stuck, swept>>
  BY DEF Create
<1>2. Types'
  BY <1>1, ExportsAssumption DEF ExportsInv, Types, Statuses, Active, Worker
<1>3. Unborn(n)
  BY <1>1, ExportsAssumption DEF ExportsInv, Types, JobInv
<1>4. JobInv(n)'
  <2>1. /\ job'[n] = "queued" /\ rows'[n] = {"none", "queued"}
        /\ token'[n] = "armed" /\ worker'[n].at = "starting" /\ n \notin marks' /\ ~InHand(n)'
      BY <1>1, <1>3 DEF ExportsInv, Types, Unborn, InHand
  <2>2. ~(n > born')
      BY <1>1 DEF ExportsInv, Types
  <2> QED BY <2>1, <2>2 DEF JobInv, Told, Armed, Active, Terminal, Opened
<1>5. ASSUME NEW k \in Jobs \ {n} PROVE JobInv(k)'
  <2>1. k > born' => k > born
      BY <1>1, ExportsAssumption DEF ExportsInv, Types
  <2>2. UNCHANGED <<job[k], rows[k], token[k], worker[k], marks, dir, swept, sweep>>
      BY <1>1 DEF ExportsInv, Types
  <2>3. JobInv(k)
      BY DEF ExportsInv
  <2> QED BY <2>1, <2>2, <2>3 DEF JobInv, Unborn, Told, Armed, InHand
<1> QED BY <1>2, <1>4, <1>5 DEF ExportsInv

LEMMA CancelKeepsInv ==
    ASSUME ExportsInv, NEW j \in Jobs, Cancels(j) \/ Marks(j)
    PROVE  ExportsInv'
<1> USE DEF ExportsInv
<1>0. JobInv(j)
    OBVIOUS
<1>1. CASE Cancels(j)
  <2>1. /\ job[j] \in Active /\ marks' = marks \cup {j}
        /\ token' = [token EXCEPT ![j] = token'[j]]
        /\ token'[j] = CASE token[j] = "none" -> "none"
                         [] worker[j].at = "finishing" -> "late"
                         [] OTHER -> "fired"
        /\ UNCHANGED <<job, rows, worker, dir, sweep, stuck, born, swept>>
      BY <1>1 DEF Cancels, Types
  <2>2. token[j] # "none" /\ worker[j].at = "finishing" => token'[j] = "late"
      BY <2>1
  <2>3. token[j] # "none" /\ worker[j].at # "finishing" => token'[j] = "fired"
      BY <2>1
  <2>4. token[j] # "none"
      BY <1>0, <2>1 DEF JobInv, Told, Armed
  <2>5. Types'
      BY <2>1, <2>2, <2>3, <2>4 DEF Types
  <2>6. JobInv(j)'
      BY <1>0, <2>1, <2>2, <2>3, <2>4 DEF JobInv, Unborn, Told, Armed, InHand, Active
  <2> QED BY <2>1, <2>5, <2>6, OneJob DEF Types
<1>2. CASE Marks(j)
  <2>1. /\ j \in marks /\ marks' = marks \ {j}
        /\ UNCHANGED <<token, worker, dir, sweep, stuck, born, swept>>
      BY <1>2 DEF Marks
  <2> DEFINE s == IF job[j] \in Active THEN "cancelled" ELSE job[j]
  <2>2. s \in Statuses /\ Put(j, s)
      BY <1>2 DEF Marks, Types, Statuses, Terminal
  <2>3. Types'
      BY <2>1, <2>2, PutSays DEF Types
  <2>4. s \notin Active /\ (s = "done" => job[j] = "done")
      BY DEF Active
  <2> HIDE DEF s
  <2>5. JobInv(j)'
    <3>1. Unborn(j) => Unborn(j)'
        BY <2>1, <2>2, PutSays DEF Unborn, InHand
    <3>2. Told(j)'
        BY <1>0, <2>1, <2>2, <2>4, PutSays DEF JobInv, Told, Active
    <3>3. Armed(j)'
        BY <1>0, <2>1, <2>2, <2>4, PutSays DEF Types, JobInv, Armed, InHand, Active
    <3> QED BY <1>0, <2>1, <3>1, <3>2, <3>3 DEF JobInv
  <2> QED BY <2>1, <2>2, <2>3, <2>5, PutSays, OneJob
<1> QED BY <1>1, <1>2

-----------------------------------------------------------------------------

\* The worker fails: the end of the job.
LEMMA FailsKeepInv ==
    ASSUME ExportsInv, NEW j \in Jobs, Fails(j), worker[j].at # "none"
    PROVE  ExportsInv'
<1> USE DEF ExportsInv
<1>1. /\ token' = [token EXCEPT ![j] = "none"] /\ worker' = [worker EXCEPT ![j] = Off]
      /\ UNCHANGED <<marks, dir, sweep, stuck, born, swept>>
  BY DEF Fails
<1>2. "failed" \in Statuses /\ Put(j, "failed")
  BY DEF Fails, Statuses, Terminal
<1>3. Types'
  BY <1>1, <1>2, PutSays DEF Types, Off, Worker
<1>4. JobInv(j)'
  <2>1. worker'[j].at = "none" /\ token'[j] = "none"
      BY <1>1 DEF Types, Off
  <2>2. JobInv(j) /\ ~Unborn(j)
      BY DEF Unborn
  <2> QED BY <1>1, <1>2, <2>1, <2>2, PutSays DEF JobInv, Told, Armed, InHand, Active, Terminal, Opened
<1> QED BY <1>1, <1>2, <1>3, <1>4, PutSays, OneJob DEF Types

\* A worker goes on: entry, row and token as they are.
LEMMA GoesOnKeepsInv ==
    ASSUME ExportsInv, NEW j \in Jobs,
           Opens(j) \/ Lists(j) \/ Encoded(j) \/ Stops(j) \/ Packages(j) \/ Looks(j)
    PROVE  ExportsInv'
<1> USE DEF ExportsInv
<1>0. JobInv(j)
    OBVIOUS
<1>1. /\ worker[j].at \in {"opening", "listing", "encoding", "packaging", "packaged"}
      /\ worker'[j].at \in Opened
      /\ UNCHANGED <<job, rows, token, marks, sweep, stuck, born, swept>>
      /\ worker' \in [Jobs -> Worker] /\ \A k \in Jobs \ {j} : worker'[k] = worker[k]
      /\ dir' \in {dir, dir \cup {j}} /\ (worker[j].at = "opening" => dir' = dir \cup {j})
      /\ worker'[j].at = "finishing" => token[j] # "fired"
      /\ worker'[j].at = "cleaning" => token[j] = "fired"
  <2>1. CASE Opens(j)
      BY <2>1 DEF Opens, Goes, Types, Worker, Opened
  <2>2. CASE Lists(j)
      BY <2>2 DEF Lists, Goes, Types, Worker, Opened
  <2>3. CASE Encoded(j)
      BY <2>3 DEF Encoded, Types, Worker, Opened
  <2>4. CASE Stops(j)
      BY <2>4 DEF Stops, Goes, Types, Worker, Opened
  <2>5. CASE Packages(j)
      BY <2>5 DEF Packages, Goes, Types, Worker, Opened
  <2>6. CASE Looks(j)
      BY <2>6 DEF Looks, Goes, Types, Worker, Opened
  <2> QED BY <2>1, <2>2, <2>3, <2>4, <2>5, <2>6
<1>2. Types'
  BY <1>1 DEF Types
<1>3. JobInv(j)'
  BY <1>0, <1>1 DEF JobInv, Unborn, Told, Armed, InHand, Opened
<1> QED BY <1>1, <1>2, <1>3, OneJob

\* It starts, and it ends well or cancelled.
LEMMA StartsKeepsInv ==
    ASSUME ExportsInv, NEW j \in Jobs, Starts(j)
    PROVE  ExportsInv'
<1> USE DEF ExportsInv
<1>1. /\ worker[j].at = "starting" /\ worker' = [worker EXCEPT ![j].at = "opening"]
      /\ UNCHANGED <<token, marks, dir, sweep, stuck, born, swept>>
  BY DEF Starts, Goes
<1>2. "running" \in Statuses /\ Put(j, "running")
  BY DEF Starts, Statuses, Active
<1>3. Types' /\ worker'[j].at = "opening"
  BY <1>1, <1>2, PutSays DEF Types, Worker
<1>4. JobInv(j)'
  <2>1. JobInv(j) /\ ~Unborn(j)
      BY <1>1 DEF Unborn
  <2>2. job[j] \in Active \cup Terminal \cup {"none"}
      BY DEF Types, Statuses
  <2> QED BY <1>1, <1>2, <1>3, <2>1, <2>2, PutSays
             DEF JobInv, Told, Armed, InHand, Active, Terminal, Opened
<1> QED BY <1>1, <1>2, <1>3, <1>4, PutSays, OneJob DEF Types

LEMMA EndsKeepInv ==
    ASSUME ExportsInv, NEW j \in Jobs, Cleans(j) \/ Finishes(j)
    PROVE  ExportsInv'
<1> USE DEF ExportsInv
<1> DEFINE s == IF worker[j].at = "cleaning" THEN "cancelled" ELSE "done"
<1>1. /\ worker[j].at \in {"cleaning", "finishing"}
      /\ token' = [token EXCEPT ![j] = "none"] /\ worker' = [worker EXCEPT ![j] = Off]
      /\ dir' \in {dir, dir \ {j}} /\ (worker[j].at = "finishing" => dir' = dir)
      /\ UNCHANGED <<marks, sweep, stuck, born, swept>>
  BY DEF Cleans, Finishes
<1>2. s \in Statuses /\ Put(j, s)
  BY DEF Cleans, Finishes, Statuses, Terminal
<1>3. Types' /\ worker'[j].at = "none" /\ token'[j] = "none"
  BY <1>1, <1>2, PutSays DEF Types, Off, Worker
<1>4. JobInv(j)'
  <2>1. JobInv(j) /\ ~Unborn(j)
      BY <1>1 DEF Unborn
  <2> QED BY <1>1, <1>2, <1>3, <2>1, PutSays DEF JobInv, Told, Armed, InHand, Active, Terminal, Opened
<1> QED BY <1>1, <1>2, <1>3, <1>4, PutSays, OneJob DEF Types

LEMMA WorkerKeepsInv ==
    ASSUME ExportsInv, NEW j \in Jobs, WorkerStep(j) \/ Encoded(j)
    PROVE  ExportsInv'
<1>1. CASE FindsNothing(j) \/ TimesOut(j) \/ GoesWrong(j)
  <2>1. Fails(j) /\ worker[j].at # "none"
      BY <1>1 DEF FindsNothing, TimesOut, GoesWrong
  <2> QED BY <2>1, FailsKeepInv
<1> QED BY <1>1, GoesOnKeepsInv, StartsKeepsInv, EndsKeepInv DEF WorkerStep

-----------------------------------------------------------------------------

\* A restart: whatever the rows say, nothing is under way, and what is done has its files.
LEMMA RestartKeepsInv == ExportsInv /\ Restarts => ExportsInv'
<1> SUFFICES ASSUME ExportsInv, Restarts PROVE ExportsInv'
    OBVIOUS
<1> USE DEF ExportsInv
<1>1. PICK row \in [Jobs -> UNION {rows[j] : j \in Jobs}] :
          /\ \A j \in Jobs : row[j] \in rows[j]
          /\ \/ /\ job' = [j \in Jobs |-> Rehydrated(row[j])]
                /\ \/ rows' = [j \in Jobs |-> {row[j]}]
                   \/ rows' = [j \in Jobs |-> {job'[j]}]
             \/ job' = [j \in Jobs |-> "none"] /\ rows' = [j \in Jobs |-> {row[j]}]
  BY DEF Restarts
<1>2. /\ token' = [j \in Jobs |-> "none"] /\ worker' = [j \in Jobs |-> Off]
      /\ marks' = {} /\ sweep' = Asleep /\ stuck' = {} /\ UNCHANGED <<dir, born, swept>>
  BY DEF Restarts
<1>3. ASSUME NEW j \in Jobs
      PROVE  /\ job'[j] \in {"none", Rehydrated(row[j])}
             /\ rows'[j] \in {{row[j]}, {Rehydrated(row[j])}}
             /\ (job'[j] = "none" \/ job'[j] = row[j] \/ (job'[j] = "failed" /\ row[j] \in Active))
             /\ job'[j] = "done" => rows'[j] = {"done"}
             /\ row[j] \in Statuses /\ Rehydrated(row[j]) \in Statuses \ Active
  <2>1. row[j] \in Statuses
      BY <1>1 DEF Types
  <2>2. Rehydrated(row[j]) \in Statuses \ Active
      BY <2>1 DEF Rehydrated, Statuses, Active, Terminal
  <2> QED BY <1>1, <2>1, <2>2 DEF Rehydrated, Active
<1>4. Types'
  <2>1. job' \in [Jobs -> Statuses]
      BY <1>1, <1>3 DEF Statuses
  <2>2. rows' \in [Jobs -> SUBSET Statuses]
      BY <1>1, <1>3
  <2>3. sweep' \in Sweep /\ worker' \in [Jobs -> Worker]
      BY <1>2 DEF Asleep, Sweep, Off, Worker
  <2> QED BY <1>2, <2>1, <2>2, <2>3 DEF Types
<1>5. ASSUME NEW j \in Jobs PROVE JobInv(j)'
  <2>1. worker'[j].at = "none" /\ token'[j] = "none" /\ ~InHand(j)' /\ j \notin marks'
      BY <1>2, ExportsAssumption DEF Off, InHand, Asleep
  <2>2. JobInv(j) /\ row[j] \in rows[j]
      BY <1>1
  <2>3. "done" \in rows'[j] => "done" \in rows[j]
      BY <1>3, <2>2 DEF Rehydrated, Active
  <2>4. Told(j)'
      BY <1>2, <1>3, <2>1, <2>2, <2>3 DEF JobInv, Told, Opened, Active
  <2>5. Armed(j)'
      BY <1>3, <2>1 DEF Armed, Active
  <2>6. Unborn(j) => Unborn(j)'
      BY <1>2, <1>3, <2>1, <2>2 DEF Unborn, Rehydrated, Active
  <2> QED BY <1>2, <2>2, <2>4, <2>5, <2>6 DEF JobInv
<1> QED BY <1>4, <1>5

\* A step of the sweep: entries only go, files go to swept, rows may say "none" as well, and
\* what is newly in hand has ended.
LEMMA SweepStepKeeps ==
    ASSUME ExportsInv, UNCHANGED <<token, worker, marks, born>>, sweep' \in Sweep, stuck' \subseteq Jobs,
           dir' \subseteq dir, swept \subseteq swept', dir \ dir' \subseteq swept',
           job' \in [Jobs -> Statuses], rows' \in [Jobs -> SUBSET Statuses],
           \A j \in Jobs :
              /\ job'[j] \in {job[j], "none"} /\ rows'[j] \in {rows[j], rows[j] \cup {"none"}}
              /\ InHand(j)' => InHand(j) \/ job[j] \in Terminal
    PROVE  ExportsInv'
<1>1. Types'
  BY DEF ExportsInv, Types
<1>2. ASSUME NEW j \in Jobs PROVE JobInv(j)'
  <2>1. JobInv(j)
      BY DEF ExportsInv
  <2>2. Told(j)'
      BY <2>1 DEF JobInv, Told, Active
  <2>3. Armed(j)'
      BY <2>1 DEF JobInv, Armed, Active, Terminal
  <2>4. Unborn(j) => Unborn(j)'
      BY DEF Unborn, Terminal
  <2> QED BY <2>1, <2>2, <2>3, <2>4 DEF JobInv
<1> QED BY <1>1, <1>2 DEF ExportsInv

LEMMA SweeperKeepsInv == ExportsInv /\ SweeperStep => ExportsInv'
<1> SUFFICES ASSUME ExportsInv, SweeperStep PROVE ExportsInv'
    OBVIOUS
<1> USE DEF ExportsInv
<1>1. Excess \subseteq Ended /\ Ended \subseteq Jobs /\ \A j \in Ended : job[j] \in Terminal
  BY DEF Excess, Ended
<1>2. sweep \in Sweep /\ job \in [Jobs -> Statuses] /\ rows \in [Jobs -> SUBSET Statuses]
  BY DEF Types
<1>3. CASE Ticks
  <2>1. PICK l \in SUBSET Ended : sweep' = [sweep EXCEPT !.step = "ttl", !.list = l]
      BY <1>3 DEF Ticks
  <2>2. sweep' \in Sweep /\ sweep'.list = l /\ sweep'.victim = sweep.victim
      BY <1>1, <1>2, <2>1 DEF Sweep
  <2> QED BY <1>1, <1>2, <1>3, <2>2, SweepStepKeeps DEF Ticks, InHand, Types
<1>4. CASE ForgetsExpired
  <2>1. PICK v \in sweep.list :
            /\ job' = [job EXCEPT ![v] = "none"]
            /\ sweep' = [sweep EXCEPT !.list = @ \ {v}, !.victim = IF job[v] = "none" THEN 0 ELSE v,
                                      !.at = "files"]
      BY <1>4 DEF ForgetsExpired
  <2>2. sweep' \in Sweep /\ sweep'.list \subseteq sweep.list /\ sweep'.victim \in {0, v}
      BY <1>2, <2>1 DEF Sweep
  <2>3. job' \in [Jobs -> Statuses] /\ \A j \in Jobs : job'[j] \in {job[j], "none"}
      BY <1>2, <2>1 DEF Statuses
  <2>4. \A j \in Jobs : InHand(j)' => InHand(j)
      BY <2>2, ExportsAssumption DEF InHand
  <2> QED BY <1>2, <1>4, <2>2, <2>3, <2>4, SweepStepKeeps DEF ForgetsExpired, Types
<1>5. CASE Measures
  <2>1. sweep' \in Sweep /\ sweep'.list = sweep.list /\ sweep'.victim = sweep.victim
      BY <1>2, <1>5 DEF Measures, Sweep
  <2> QED BY <1>2, <1>5, <2>1, SweepStepKeeps DEF Measures, InHand, Types
<1>6. CASE Plans
  <2>1. sweep' \in Sweep /\ sweep'.list = Excess /\ sweep'.victim = sweep.victim
      BY <1>1, <1>2, <1>6 DEF Plans, Sweep
  <2> QED BY <1>1, <1>2, <1>6, <2>1, SweepStepKeeps DEF Plans, InHand, Types
<1>7. CASE TakesOldest
  <2>1. PICK v \in sweep.list : sweep' = [sweep EXCEPT !.list = @ \ {v}, !.victim = v, !.at = "files"]
      BY <1>7 DEF TakesOldest
  <2>2. sweep' \in Sweep /\ sweep'.list \subseteq sweep.list /\ sweep'.victim = v
      BY <1>2, <2>1 DEF Sweep
  <2> QED BY <1>2, <1>7, <2>2, SweepStepKeeps DEF TakesOldest, InHand, Types
<1>8. CASE RemovesFiles
  <2>1. /\ UNCHANGED <<job, rows, token, worker, marks, stuck, born>>
        /\ dir' \subseteq dir /\ swept \subseteq swept' /\ dir \ dir' \subseteq swept'
        /\ \/ sweep' = [sweep EXCEPT !.at = IF sweep.step = "ttl" THEN "row" ELSE "entry"]
           \/ sweep' = [sweep EXCEPT !.at = "row"]
           \/ sweep' = [sweep EXCEPT !.victim = 0]
      BY <1>8 DEF RemovesFiles
  <2>2. sweep' \in Sweep /\ sweep'.list = sweep.list /\ sweep'.victim \in {0, sweep.victim}
      BY <1>2, <2>1 DEF Sweep
  <2>3. \A j \in Jobs : InHand(j)' => InHand(j)
      BY <2>2, ExportsAssumption DEF InHand
  <2> QED BY <1>2, <2>1, <2>2, <2>3, SweepStepKeeps DEF Types
<1>9. CASE ForgetsEvicted
  <2>1. sweep' \in Sweep /\ sweep'.list = sweep.list /\ sweep'.victim = sweep.victim
      BY <1>2, <1>9 DEF ForgetsEvicted, Sweep
  <2>2. job' \in [Jobs -> Statuses] /\ \A j \in Jobs : job'[j] \in {job[j], "none"}
      BY <1>2, <1>9 DEF ForgetsEvicted, Statuses
  <2> QED BY <1>2, <1>9, <2>1, <2>2, SweepStepKeeps DEF ForgetsEvicted, InHand, Types
<1>10. CASE DropsRow
  <2>1. sweep' \in Sweep /\ sweep'.list = sweep.list /\ sweep'.victim = 0
      BY <1>2, <1>10 DEF DropsRow, Sweep
  <2>2. rows' \in [Jobs -> SUBSET Statuses]
        /\ \A j \in Jobs : rows'[j] \in {rows[j], rows[j] \cup {"none"}}
      BY <1>2, <1>10 DEF DropsRow, Statuses
  <2>3. \A j \in Jobs : InHand(j)' => InHand(j)
      BY <2>1, ExportsAssumption DEF InHand
  <2> QED BY <1>2, <1>10, <2>1, <2>2, <2>3, SweepStepKeeps DEF DropsRow, Types
<1>11. CASE SweepEnds
  <2>1. sweep' \in Sweep /\ \A j \in Jobs : ~InHand(j)'
      BY <1>11, ExportsAssumption DEF SweepEnds, Sweep, Asleep, InHand
  <2> QED BY <1>2, <1>11, <2>1, SweepStepKeeps DEF SweepEnds, Types
<1> QED BY <1>3, <1>4, <1>5, <1>6, <1>7, <1>8, <1>9, <1>10, <1>11 DEF SweeperStep

\* Every step preserves the invariant.
LEMMA NextInv == ExportsInv /\ [ExportsNext]_exports => ExportsInv'
<1> SUFFICES ASSUME ExportsInv, [ExportsNext]_exports PROVE ExportsInv'
    OBVIOUS
<1>1. CASE UNCHANGED exports
  <2>1. ASSUME NEW j \in Jobs PROVE JobInv(j)'
      BY <1>1 DEF exports, ExportsInv, JobInv, Unborn, Told, Armed, InHand
  <2> QED BY <1>1, <2>1 DEF exports, ExportsInv, Types
<1>2. ASSUME NEW j \in Jobs, Waits(j) PROVE ExportsInv'
  <2>1. ASSUME NEW k \in Jobs PROVE JobInv(k)'
      BY <1>2 DEF Waits, ExportsInv, JobInv, Unborn, Told, Armed, InHand
  <2> QED BY <1>2, <2>1 DEF Waits, ExportsInv, Types
<1> QED BY <1>1, <1>2, CreateKeepsInv, RestartKeepsInv, SweeperKeepsInv, CancelKeepsInv, WorkerKeepsInv
        DEF ExportsNext

LEMMA ExportsStand == ExportsInit /\ [][ExportsNext]_exports => []ExportsInv
BY InitInv, NextInv, PTL

\* The invariant is the types, and more.
LEMMA ExportsMean == ExportsInv => ExportsTypeOK
<1> SUFFICES ASSUME ExportsInv PROVE ExportsTypeOK
    OBVIOUS
<1>1. \A j \in Jobs : ~Unborn(j) => j \in 1..born
    BY ExportsAssumption DEF ExportsInv, JobInv, Types
<1>2. marks \subseteq 1..born /\ sweep.list \subseteq 1..born
    BY <1>1 DEF ExportsInv, Types, Sweep, Unborn, InHand
<1>3. \A j \in Jobs : /\ rows[j] \subseteq Statuses /\ rows[j] # {}
                      /\ token[j] # "none" <=> worker[j].at # "none"
                      /\ j > born => Unborn(j)
    BY DEF ExportsInv, Types, JobInv, Told, Armed
<1> QED BY <1>2, <1>3 DEF ExportsInv, Types, ExportsTypeOK, Statuses, Unborn

\* What failed, was cancelled or restarted is counted.
Counted == trouble \in Nat

LEMMA TroubleCounts == ExportsInit /\ [][ExportsNext]_exports => []Counted
<1>1. ExportsInit => Counted
  BY DEF Counted, ExportsInit
<1>2. Counted /\ [ExportsNext]_exports => Counted'
  <2> SUFFICES ASSUME trouble \in Nat, [ExportsNext]_exports PROVE trouble' \in Nat
      BY DEF Counted
  <2>1. Trouble => trouble' \in Nat
      BY DEF Trouble
  <2>2. ASSUME NEW j \in Jobs, Cancels(j) \/ Marks(j) \/ WorkerStep(j) \/ Encoded(j) \/ Waits(j)
        PROVE  trouble' \in Nat
      BY <2>1, <2>2 DEF Cancels, Marks, WorkerStep, Starts, Opens, Lists, FindsNothing, TimesOut,
                        Stops, Packages, Looks, Cleans, Finishes, GoesWrong, Encoded, Waits
  <2>3. SweeperStep => trouble' \in Nat
      BY <2>1 DEF SweeperStep, Ticks, ForgetsExpired, Measures, Plans, TakesOldest, RemovesFiles,
                  ForgetsEvicted, DropsRow, SweepEnds
  <2>4. Create \/ Restarts \/ UNCHANGED exports => trouble' \in Nat
      BY <2>1 DEF exports, Create, Restarts
  <2> QED BY <2>2, <2>3, <2>4 DEF ExportsNext
<1> QED BY <1>1, <1>2, PTL

\* What a worker's step says of the jobs, and what it takes away.
LEMMA WorkerSays ==
    ASSUME ExportsInv, NEW k \in Jobs, WorkerStep(k) \/ Encoded(k), NEW j \in Jobs
    PROVE  /\ job[j] \in Active => job'[j] # "none"
           /\ job[j] # "done" /\ job'[j] = "done" => token[j] # "fired"
           /\ j \in dir \ dir' => token[j] = "fired"
<1> USE DEF ExportsInv
<1>1. Armed(k)
  BY DEF JobInv
<1>2. CASE Fails(k)
  <2>1. Put(k, "failed") /\ "failed" \in Statuses /\ dir' = dir
      BY <1>2 DEF Fails, Statuses, Terminal
  <2> QED BY <2>1, PutSays DEF Active
<1>3. CASE Starts(k)
  <2>1. Put(k, "running") /\ "running" \in Statuses /\ dir' = dir
      BY <1>3 DEF Starts, Statuses, Active
  <2> QED BY <2>1, PutSays DEF Active
<1>4. CASE Cleans(k)
  <2>1. Put(k, "cancelled") /\ "cancelled" \in Statuses /\ dir' \in {dir, dir \ {k}} /\ token[k] = "fired"
      BY <1>1, <1>4 DEF Cleans, Statuses, Terminal, Armed
  <2> QED BY <2>1, PutSays DEF Active
<1>5. CASE Finishes(k)
  <2>1. Put(k, "done") /\ "done" \in Statuses /\ dir' = dir /\ token[k] # "fired"
      BY <1>1, <1>5 DEF Finishes, Statuses, Terminal, Armed
  <2> QED BY <2>1, PutSays DEF Active
<1>6. CASE Opens(k) \/ Lists(k) \/ Encoded(k) \/ Stops(k) \/ Packages(k) \/ Looks(k)
  <2>1. job' = job /\ dir \subseteq dir'
      BY <1>6 DEF Opens, Lists, Encoded, Stops, Packages, Looks
  <2> QED BY <2>1 DEF Active
<1> QED BY <1>2, <1>3, <1>4, <1>5, <1>6 DEF WorkerStep, FindsNothing, TimesOut, GoesWrong

\* What a step of the sweep takes away was in its hands.
LEMMA SweeperTakes ==
    ASSUME ExportsInv, SweeperStep, NEW j \in Jobs
    PROVE  /\ job'[j] \in {job[j], "none"}
           /\ job[j] \in Active /\ (job'[j] = "none" \/ j \in dir \ dir') => token[j] = "fired"
<1>1. job \in [Jobs -> Statuses] /\ (job[j] \in Active /\ InHand(j) => token[j] = "fired")
  BY DEF ExportsInv, Types, JobInv, Armed
<1>2. CASE ForgetsExpired
  BY <1>1, <1>2 DEF ForgetsExpired, InHand, Active
<1>3. CASE ForgetsEvicted
  BY <1>1, <1>3 DEF ForgetsEvicted, InHand, Active
<1>4. CASE RemovesFiles
  <2>1. job' = job /\ dir' \in {dir, dir \ {sweep.victim}}
      BY <1>4 DEF RemovesFiles
  <2> QED BY <1>1, <2>1 DEF InHand, Active
<1>5. CASE Ticks \/ Measures \/ Plans \/ TakesOldest \/ DropsRow \/ SweepEnds
  <2>1. job' = job /\ dir' = dir
      BY <1>5 DEF Ticks, Measures, Plans, TakesOldest, DropsRow, SweepEnds
  <2> QED BY <2>1 DEF Active
<1> QED BY <1>2, <1>3, <1>4, <1>5 DEF SweeperStep

\* A restart reads a job back as done only where nothing of it was under way.
LEMMA RestartReadsBack ==
    ASSUME ExportsInv, Restarts, NEW j \in Jobs, job'[j] = "done"
    PROVE  token[j] # "fired"
<1>1. "done" \in rows[j]
  BY DEF Restarts, Rehydrated, Active
<1> QED BY <1>1 DEF ExportsInv, JobInv, Told, Armed

\* Every step but a failure, a cancel or a restart leaves live work alone, and none finishes
\* what was cancelled.
LEMMA NextKeepsWord ==
    ExportsInv /\ Counted /\ [ExportsNext]_exports
        => EvictsNoLiveWork /\ CancelsTakeEffect
<1> SUFFICES ASSUME ExportsInv, Counted, [ExportsNext]_exports, NEW j \in Jobs
             PROVE  /\ job[j] \in Active /\ trouble' = trouble
                          /\ (job'[j] = "none" \/ j \in dir \ dir') => token[j] = "fired"
                    /\ job[j] # "done" /\ job'[j] = "done" => token[j] # "fired"
    BY DEF EvictsNoLiveWork, CancelsTakeEffect
<1>1. CASE Create
  <2>1. job'[j] \in {job[j], "queued"} /\ dir' = dir
      BY <1>1 DEF Create, ExportsInv, Types
  <2> QED BY <2>1 DEF Active
<1>2. CASE Restarts
  <2>1. trouble' # trouble
      BY <1>2 DEF Restarts, Trouble, Counted
  <2> QED BY <1>2, <2>1, RestartReadsBack
<1>3. ASSUME NEW k \in Jobs, Marks(k)
      PROVE  (job[j] \in Active => job'[j] # "none") /\ (job'[j] = "done" => job[j] = "done") /\ dir' = dir
  <2> DEFINE s == IF job[k] \in Active THEN "cancelled" ELSE job[k]
  <2>1. s \in Statuses /\ Put(k, s) /\ dir' = dir /\ Types
      BY <1>3 DEF Marks, ExportsInv, Types, Statuses, Terminal
  <2> QED BY <2>1, PutSays DEF Active
<1>4. ASSUME NEW k \in Jobs, Cancels(k) \/ Waits(k) PROVE job' = job /\ dir' = dir
  BY <1>4 DEF Cancels, Waits
<1>5. CASE UNCHANGED exports
  BY <1>5 DEF exports, Active
<1>6. CASE SweeperStep
  BY <1>6, SweeperTakes
<1>7. CASE \E k \in Jobs : WorkerStep(k) \/ Encoded(k)
  BY <1>7, WorkerSays
<1>8. CASE \E k \in Jobs : Cancels(k) \/ Waits(k)
  BY <1>4, <1>8 DEF Active
<1>9. CASE \E k \in Jobs : Marks(k)
  BY <1>3, <1>9
<1> QED BY <1>1, <1>2, <1>5, <1>6, <1>7, <1>8, <1>9 DEF ExportsNext

LEMMA JobsKeepWord == ExportsInit /\ [][ExportsNext]_exports => JobsKeepTheirWord
<1>1. ExportsInv /\ Counted /\ [ExportsNext]_exports
        => [EvictsNoLiveWork /\ CancelsTakeEffect]_exports
  BY NextKeepsWord
<1> QED BY <1>1, ExportsStand, TroubleCounts, PTL DEF JobsKeepTheirWord

-----------------------------------------------------------------------------
(* The detections.                                                             *)

Lives == {"start", "update", "end"}
Text == Texts \cup {NoText}
Messages == [of : Things, life : Lives, text : Text, raw : BOOLEAN]
EventRow == [life : Lives, end : {"open", "guess", "real"}, text : Text, fresh : BOOLEAN]
Work == [at : {"idle", "write", "gate", "store", "alert", "latch"}, msg : Messages \cup {NoMessage},
             barred : SUBSET Texts]

DetectionsTypes ==
    /\ kind \in Sightings /\ seen \in Things \cup {0}
    /\ thing \in [Things -> [text : Text, said : SUBSET Lives]]
    /\ session \in {"off", "fetching", "sending", "live"} /\ late \in BOOLEAN
    /\ pending \subseteq Messages /\ stray \subseteq Messages /\ channel \in Seq(Messages)
    /\ work \in Work /\ ignored \subseteq Texts /\ lpr \in BOOLEAN /\ silent \in BOOLEAN
    /\ events_row \in [Things -> EventRow \cup {NoRow}]
    /\ read \in [Things -> [text : Text, alerted : BOOLEAN]]
    /\ cursor_ts \in Nat /\ cursor_ts <= seen
    /\ alarms \in [Things -> Nat] /\ unlatched \in [Things -> Nat]

\* What a message says has been said.
Said(m) == m.of <= seen /\ (m.life = "end" => Gone(m.of))

MessagesStand ==
    /\ \A m \in pending \cup stray : Said(m)
    /\ \A i \in 1..Len(channel) : Said(channel[i])
    /\ IF work.at = "idle" THEN work.msg = NoMessage ELSE work.msg \in Messages /\ Said(work.msg)

\* Rows are of what was seen, and a genuine end was reported.
RowsStand ==
    \A o \in Things :
        /\ thing[o].said # {} \/ events_row[o] # NoRow => o <= seen
        /\ events_row[o].end = "real" => Gone(o)
        /\ read[o] # NoRead => events_row[o] # NoRow /\ read[o].text \in Texts

\* The message at hand: its row is written before its read, its text is not on the list the
\* ingester has last looked at.
WorkStands ==
    /\ work.msg.text \notin work.barred
    /\ work.at \in {"gate", "store", "alert", "latch"} =>
          events_row[work.msg.of] # NoRow /\ work.msg.text \in Texts
    /\ work.at \in {"alert", "latch"} =>
          read[work.msg.of].text = work.msg.text /\ ~read[work.msg.of].alerted

At(o, step) == work.at = step /\ work.msg.of = o

\* Each alert was latched, is about to be, or its latch was lost.
Latched(o) == read[o].alerted \/ At(o, "latch")

Alarmed(o) ==
    /\ ~Latched(o) => alarms[o] = unlatched[o]
    /\ Latched(o) => alarms[o] = unlatched[o] + 1
    /\ read[o].text \in Watched /\ ~At(o, "alert") => alarms[o] > 0 \/ o \in unfired

AlarmsStand == \A o \in Things : Alarmed(o)

DetectionsInv == DetectionsTypes /\ MessagesStand /\ RowsStand /\ WorkStands /\ AlarmsStand

-----------------------------------------------------------------------------

\* Rows and records of nothing.
LEMMA BlanksAre ==
    /\ NoText = 0 /\ NoText \notin Texts /\ NoMessage.text = NoText /\ NoMessage.of = 0 /\ 0 \notin Things
    /\ NoRow.end = "open" /\ NoRow.text = NoText /\ NoRead.text = NoText /\ NoRead.alerted = FALSE
    /\ Resting \in Work /\ Resting.at = "idle" /\ Resting.msg = NoMessage /\ Resting.barred = {}
<1>1. NoMessage.text = NoText /\ NoMessage.of = 0 /\ NoText = 0
    BY DEF NoMessage, NoText
<1>2. NoText \notin Texts /\ 0 \notin Things
    BY DetectionAssumption DEF NoText
<1>3. /\ NoRow.end = "open" /\ NoRow.text = NoText /\ NoRead.text = NoText /\ NoRead.alerted = FALSE
    BY DEF NoRow, NoRead
<1>4. Resting \in Work /\ Resting.at = "idle" /\ Resting.msg = NoMessage /\ Resting.barred = {}
    BY DEF Resting, Work
<1> QED BY <1>1, <1>2, <1>3, <1>4

LEMMA DetectionsStart == DetectionsInit => DetectionsInv
<1> SUFFICES ASSUME DetectionsInit PROVE DetectionsInv
    OBVIOUS
<1>1. events_row \in [Things -> EventRow \cup {NoRow}] /\ \A o \in Things : events_row[o] = NoRow
    BY DEF DetectionsInit
<1>2. read \in [Things -> [text : Text, alerted : BOOLEAN]] /\ \A o \in Things : read[o] = NoRead
    BY DEF DetectionsInit, NoRead, Text
<1>3. thing \in [Things -> [text : Text, said : SUBSET Lives]] /\ \A o \in Things : thing[o].said = {}
    BY DEF DetectionsInit, Text
<1>4. /\ alarms \in [Things -> Nat] /\ unlatched \in [Things -> Nat]
      /\ \A o \in Things : alarms[o] = 0 /\ unlatched[o] = 0
    BY DEF DetectionsInit
<1>5. /\ kind \in Sightings /\ seen = 0 /\ session = "fetching" /\ pending = {} /\ stray = {} /\ late = FALSE
      /\ channel = <<>> /\ work = Resting /\ ignored \subseteq Texts /\ lpr = TRUE /\ silent = FALSE
      /\ cursor_ts = 0 /\ unfired = {}
    BY DEF DetectionsInit
<1>6. DetectionsTypes
  <2>1. channel \in Seq(Messages) /\ seen \in Things \cup {0} /\ cursor_ts <= seen /\ cursor_ts \in Nat
      BY <1>5
  <2> QED BY <1>1, <1>2, <1>3, <1>4, <1>5, <2>1, BlanksAre DEF DetectionsTypes
<1>7. MessagesStand
    BY <1>5, BlanksAre DEF MessagesStand
<1>8. RowsStand
    BY <1>1, <1>2, <1>3, BlanksAre DEF RowsStand
<1>9. WorkStands
    BY <1>5, BlanksAre DEF WorkStands
<1>10. AlarmsStand
  <2> SUFFICES ASSUME NEW o \in Things PROVE Alarmed(o)
      BY DEF AlarmsStand
  <2>1. ~Latched(o) /\ read[o].text \notin Watched
      BY <1>2, <1>5, BlanksAre, DetectionAssumption DEF At, Latched
  <2> QED BY <1>4, <2>1 DEF Alarmed
<1> QED BY <1>6, <1>7, <1>8, <1>9, <1>10 DEF DetectionsInv

\* What a reporter says of a thing is said of it for good.
LEMMA SaysIs ==
    ASSUME DetectionsTypes, NEW o \in Things, NEW life \in Lives, NEW text \in Text, Says(o, life, text)
    PROVE  /\ thing' \in [Things -> [text : Text, said : SUBSET Lives]] /\ o <= seen
           /\ \A p \in Things : p # o => thing'[p] = thing[p]
           /\ \A p \in Things : Gone(p) => Gone(p)'
           /\ life = "end" => Gone(o)'
<1>1. thing' = [thing EXCEPT ![o] = [text |-> text, said |-> thing[o].said \cup {life}]] /\ o <= seen
    BY DEF Says
<1>2. thing \in [Things -> [text : Text, said : SUBSET Lives]]
    BY DEF DetectionsTypes
<1>3. [text |-> text, said |-> thing[o].said \cup {life}] \in [text : Text, said : SUBSET Lives]
    BY <1>2
<1>4. thing'[o] = [text |-> text, said |-> thing[o].said \cup {life}] /\ \A p \in Things : p # o => thing'[p] = thing[p]
    BY <1>1, <1>2
<1> QED BY <1>1, <1>2, <1>3, <1>4 DEF Gone

LEMMA MessageIs ==
    ASSUME NEW o \in Things, NEW life \in Lives, NEW text \in Text, NEW raw \in BOOLEAN
    PROVE  /\ Message(o, life, text, raw) \in Messages /\ Message(o, life, text, raw).of = o
           /\ Message(o, life, text, raw).life = life /\ Message(o, life, text, raw).text = text
BY DEF Message, Messages

LEMMA QueuedIs ==
    ASSUME channel \in Seq(Messages), NEW m \in Messages, channel' = Append(channel, m)
    PROVE  /\ channel' \in Seq(Messages)
           /\ \A i \in 1..Len(channel)' : channel'[i] = m \/ (i \in 1..Len(channel) /\ channel'[i] = channel[i])
<1>1. Len(channel)' = Len(channel) + 1 /\ Len(channel) \in Nat /\ channel' \in Seq(Messages)
    OBVIOUS
<1>2. \A i \in 1..Len(channel) : channel'[i] = channel[i]
    OBVIOUS
<1>3. channel'[Len(channel) + 1] = m
    OBVIOUS
<1> QED BY <1>1, <1>2, <1>3

\* What has been said stays so; with the rows alone the rest stands.
LEMMA SaidStays ==
    ASSUME seen' >= seen, seen \in Nat, seen' \in Nat, \A p \in Things : Gone(p) => Gone(p)',
           NEW m \in Messages, Said(m)
    PROVE  Said(m)'
<1>1. m.of \in Things /\ m.of \in Nat
    BY DetectionAssumption DEF Messages
<1> QED BY <1>1 DEF Said

LEMMA SeenIs == DetectionsTypes => seen \in Nat /\ Things \subseteq Nat
BY DetectionAssumption DEF DetectionsTypes

\* Only what is seen, said, queued or listed changes.
LEMMA ReportKeeps ==
    ASSUME DetectionsInv, UNCHANGED <<kind, work, controls, tables, poller, fired>>,
           seen' \in Things \cup {0}, seen' >= seen,
           thing' \in [Things -> [text : Text, said : SUBSET Lives]],
           \A p \in Things : (Gone(p) => Gone(p)') /\ (thing'[p].said # {} => thing[p].said # {} \/ p <= seen),
           session' \in {"off", "fetching", "sending", "live"}, late' \in BOOLEAN,
           pending' \subseteq Messages, stray' \subseteq Messages, channel' \in Seq(Messages),
           \A m \in pending' \cup stray' : Said(m)',
           \A i \in 1..Len(channel)' : Said(channel[i])'
    PROVE  DetectionsInv'
<1> USE DEF DetectionsInv, controls, tables, poller, fired
<1>0. seen \in Nat /\ seen' \in Nat /\ Things \subseteq Nat
    BY SeenIs, DetectionAssumption DEF DetectionsTypes
<1>1. DetectionsTypes'
  <2>1. cursor_ts \in Nat /\ cursor_ts <= seen'
      BY <1>0 DEF DetectionsTypes
  <2> QED BY <2>1 DEF DetectionsTypes
<1>2. MessagesStand'
  <2>1. work.at # "idle" => work.msg \in Messages /\ Said(work.msg)'
      BY <1>0, SaidStays DEF MessagesStand
  <2>2. \A i \in 1..Len(channel)' : Said(channel[i])'
      OBVIOUS
  <2>3. IF work.at = "idle" THEN work.msg = NoMessage ELSE work.msg \in Messages /\ Said(work.msg)'
      BY <2>1 DEF MessagesStand
  <2> QED BY <2>2, <2>3 DEF MessagesStand
<1>3. RowsStand'
    BY <1>0 DEF RowsStand
<1>4. WorkStands' /\ AlarmsStand'
    BY DEF WorkStands, AlarmsStand, Alarmed, Latched, At
<1> QED BY <1>1, <1>2, <1>3, <1>4

LEMMA AppearsKeeps == DetectionsInv /\ Appears => DetectionsInv'
<1> SUFFICES ASSUME DetectionsInv, Appears PROVE DetectionsInv'
    OBVIOUS
<1>0. /\ seen \in Nat /\ seen' = seen + 1 /\ seen' \in Things
      /\ UNCHANGED <<kind, thing, provider, channel, work, controls, tables, poller, mishaps, fired>>
    BY SeenIs DEF DetectionsInv, Appears
<1>1. /\ thing \in [Things -> [text : Text, said : SUBSET Lives]] /\ channel \in Seq(Messages)
      /\ session \in {"off", "fetching", "sending", "live"} /\ late \in BOOLEAN
      /\ pending \subseteq Messages /\ stray \subseteq Messages
      /\ \A i \in 1..Len(channel) : channel[i] \in Messages
    BY DEF DetectionsInv, DetectionsTypes
<1>2. UNCHANGED <<thing, session, pending, stray, late, channel>>
    BY <1>0 DEF provider
<1>3. \A p \in Things : Gone(p)' = Gone(p)
    BY <1>2 DEF Gone
<1>4. \A m \in Messages : Said(m) => Said(m)'
    BY <1>0, <1>3, SaidStays
<1>5. /\ \A m \in pending' \cup stray' : Said(m)'
      /\ \A i \in 1..Len(channel)' : Said(channel[i])'
  <2>1. \A i \in 1..Len(channel) : Said(channel[i])'
      BY <1>1, <1>2, <1>4 DEF DetectionsInv, MessagesStand
  <2>2. \A m \in pending \cup stray : Said(m)'
      BY <1>1, <1>4 DEF DetectionsInv, MessagesStand
  <2> QED BY <1>2, <2>1, <2>2
<1>6. seen' >= seen /\ seen' \in Things \cup {0}
    BY <1>0
<1> QED BY <1>0, <1>1, <1>2, <1>3, <1>5, <1>6, ReportKeeps

\* Publishes and Posts: what is said may come into the channel.
LEMMA TellsKeeps ==
    ASSUME DetectionsInv, NEW o \in Things, NEW life \in Lives, NEW text \in Text, Says(o, life, text),
           channel' \in {channel, Append(channel, Message(o, life, text, TRUE))},
           UNCHANGED <<kind, seen, provider, work, controls, tables, poller, fired>>
    PROVE  DetectionsInv'
<1>0. /\ DetectionsTypes /\ seen \in Nat /\ seen' = seen /\ UNCHANGED <<session, pending, stray, late>>
      /\ seen \in Things \cup {0} /\ channel \in Seq(Messages)
      /\ session \in {"off", "fetching", "sending", "live"} /\ late \in BOOLEAN
      /\ pending \subseteq Messages /\ stray \subseteq Messages
      /\ \A i \in 1..Len(channel) : channel[i] \in Messages
    BY SeenIs DEF DetectionsInv, DetectionsTypes, provider
<1>1. /\ thing' \in [Things -> [text : Text, said : SUBSET Lives]] /\ o <= seen
      /\ \A p \in Things : p # o => thing'[p] = thing[p]
      /\ \A p \in Things : Gone(p) => Gone(p)'
      /\ life = "end" => Gone(o)'
    BY <1>0, SaysIs
<1>2. \A m \in Messages : Said(m) => Said(m)'
    BY <1>0, <1>1, SaidStays
<1> DEFINE m == Message(o, life, text, TRUE)
<1>9. m \in Messages /\ m.of = o /\ m.life = life
    BY MessageIs
<1> HIDE DEF m
<1>3. m \in Messages /\ Said(m)'
    BY <1>0, <1>1, <1>9 DEF Said
<1>4. /\ channel' \in Seq(Messages)
      /\ \A i \in 1..Len(channel)' : channel'[i] = m \/ (i \in 1..Len(channel) /\ channel'[i] = channel[i])
  <2>1. CASE channel' = channel
      BY <1>0, <2>1
  <2>2. CASE channel' = Append(channel, m)
      BY <1>0, <1>3, <2>2, QueuedIs
  <2> QED BY <2>1, <2>2 DEF m
<1>5. \A i \in 1..Len(channel)' : Said(channel[i])'
  <2> SUFFICES ASSUME NEW i \in 1..Len(channel)' PROVE Said(channel[i])'
      OBVIOUS
  <2>1. CASE channel'[i] = m
      BY <1>3, <2>1 DEF Said, Gone
  <2>2. CASE i \in 1..Len(channel) /\ channel'[i] = channel[i]
    <3>1. Said(channel[i]) /\ channel[i] \in Messages
        BY <1>0, <2>2 DEF DetectionsInv, MessagesStand
    <3>2. \A n \in Messages : n = channel[i] => Said(n)'
        BY <1>2, <3>1
    <3> QED BY <2>2, <3>1, <3>2 DEF Said, Gone
  <2> QED BY <1>4, <2>1, <2>2
<1>6. \A n \in pending' \cup stray' : Said(n)'
    BY <1>0, <1>2 DEF DetectionsInv, MessagesStand
<1>7. \A p \in Things : thing'[p].said # {} => thing[p].said # {} \/ p <= seen
    BY <1>1
<1>8. seen' \in Things \cup {0} /\ seen' >= seen
    BY <1>0
<1> QED BY <1>0, <1>1, <1>4, <1>5, <1>6, <1>7, <1>8, ReportKeeps

\* The provider only hands on what was listed.
LEMMA ProviderKeeps ==
    ASSUME DetectionsInv, ProviderStep \/ Reconfigures
    PROVE  DetectionsInv'
<1>a. seen \in Nat /\ Things \subseteq Nat /\ 1..seen \subseteq Things
  <2>1. seen \in Things => 1..seen \subseteq Things
      BY DetectionAssumption
  <2>2. seen = 0 => 1..seen = {}
      OBVIOUS
  <2> QED BY <2>1, <2>2, SeenIs DEF DetectionsInv, DetectionsTypes
<1>0. /\ DetectionsTypes /\ seen \in Things \cup {0} /\ channel \in Seq(Messages)
      /\ session \in {"off", "fetching", "sending", "live"} /\ late \in BOOLEAN
      /\ pending \subseteq Messages /\ stray \subseteq Messages
      /\ \A i \in 1..Len(channel) : channel[i] \in Messages
      /\ thing \in [Things -> [text : Text, said : SUBSET Lives]]
      /\ \A n \in pending \cup stray : Said(n)
      /\ \A i \in 1..Len(channel) : Said(channel[i])
    BY DEF DetectionsInv, DetectionsTypes, MessagesStand
<1>1. UNCHANGED <<kind, seen, thing, work, controls, tables, poller, fired>>
    BY DEF ProviderStep, Fetches, StoppedFetches, Backfills, Subscribes, Reconfigures, world
<1>2. \A n : Said(n)' = Said(n)
    BY <1>1 DEF Said, Gone
<1>3. Listing \subseteq Messages /\ \A n \in Listing : Said(n)
  <2> SUFFICES ASSUME NEW o \in 1..seen PROVE
          LET m == Message(o, IF Gone(o) THEN "end" ELSE "update", thing[o].text, FALSE) IN m \in Messages /\ Said(m)
      BY DEF Listing
  <2>1. o \in Things /\ o <= seen
      BY <1>a
  <2>2. thing[o].text \in Text /\ (IF Gone(o) THEN "end" ELSE "update") \in Lives
      BY <1>0, <2>1 DEF Lives
  <2> QED BY <2>1, <2>2, MessageIs DEF Said
<1>4. /\ session' \in {"off", "fetching", "sending", "live"} /\ late' \in BOOLEAN
      /\ pending' \cup stray' \subseteq pending \cup stray \cup Listing
      /\ \/ channel' = channel
         \/ \E n \in pending \cup stray : channel' = Append(channel, n)
  <2>1. CASE Fetches
      BY <1>0, <2>1 DEF Fetches
  <2>2. CASE StoppedFetches
      BY <1>0, <2>2 DEF StoppedFetches
  <2>3. CASE Backfills
      BY <1>0, <2>3 DEF Backfills
  <2>4. CASE Subscribes
      BY <1>0, <2>4 DEF Subscribes
  <2>5. CASE Reconfigures
      BY <1>0, <2>5 DEF Reconfigures
  <2> QED BY <2>1, <2>2, <2>3, <2>4, <2>5 DEF ProviderStep
<1>5. pending' \subseteq Messages /\ stray' \subseteq Messages /\ \A n \in pending' \cup stray' : Said(n)'
    BY <1>0, <1>2, <1>3, <1>4
<1>6. channel' \in Seq(Messages) /\ \A i \in 1..Len(channel)' : Said(channel'[i])
  <2>1. CASE channel' = channel
      BY <1>0, <2>1
  <2>2. ASSUME NEW n \in pending \cup stray, channel' = Append(channel, n)
        PROVE  channel' \in Seq(Messages) /\ \A i \in 1..Len(channel)' : Said(channel'[i])
    <3>1. /\ n \in Messages /\ channel' \in Seq(Messages)
          /\ \A i \in 1..Len(channel)' : channel'[i] = n \/ (i \in 1..Len(channel) /\ channel'[i] = channel[i])
        BY <1>0, <2>2, QueuedIs
    <3> QED BY <1>0, <3>1
  <2> QED BY <1>4, <2>1, <2>2
<1>7. \A i \in 1..Len(channel)' : Said(channel[i])'
    BY <1>1, <1>6 DEF Said, Gone
<1>8. seen' \in Things \cup {0} /\ seen' >= seen /\ thing' = thing
    BY <1>a, <1>0, <1>1
<1>9. \A p \in Things : (Gone(p) => Gone(p)') /\ (thing'[p].said # {} => thing[p].said # {} \/ p <= seen)
    BY <1>8 DEF Gone
<1> QED BY <1>0, <1>1, <1>4, <1>5, <1>6, <1>7, <1>8, <1>9, ReportKeeps

-----------------------------------------------------------------------------
(* The ingester.                                                               *)

LEMMA GoesOnIs ==
    ASSUME work \in Work, NEW step \in {"idle", "write", "gate", "store", "alert", "latch"}, GoesOn(step)
    PROVE  work' \in Work /\ work'.at = step /\ work'.msg = work.msg /\ work'.barred = work.barred
BY DEF GoesOn, Work

LEMMA BeginsIs ==
    ASSUME ignored \subseteq Texts, NEW m \in Messages, Begins(m)
    PROVE  work' \in Work /\ work'.at = "write" /\ work'.msg = m /\ work'.barred = ignored
BY DEF Begins, Work

LEMMA RestsIs ==
    ASSUME Rests
    PROVE  work' \in Work /\ work'.at = "idle" /\ work'.msg = NoMessage /\ work'.barred = {}
BY BlanksAre DEF Rests

LEMMA WithholdsIs ==
    ASSUME ignored \subseteq Texts, NEW m \in Messages, Withholds(m)
    PROVE  \/ Rests
           \/ \E n \in Messages : Begins(n) /\ n.of = m.of /\ n.life = m.life /\ n.text = NoText
<1> DEFINE n == [m EXCEPT !.text = NoText]
<1>1. n \in Messages /\ n.of = m.of /\ n.life = m.life /\ n.text = NoText
    BY DEF Messages, Text
<1> QED BY <1>1 DEF Withholds

\* The steps at the message before its read is stored touch neither reads nor alerts.
LEMMA EarlyKeeps ==
    ASSUME DetectionsInv, UNCHANGED <<world, provider, controls, read, poller, fired>>,
           work' \in Work, channel' \in Seq(Messages), \A i \in 1..Len(channel)' : Said(channel'[i]),
           work.at \in {"idle", "write", "gate"}, work'.at \in {"idle", "write", "gate", "store"},
           IF work'.at = "idle" THEN work'.msg = NoMessage ELSE work'.msg \in Messages /\ Said(work'.msg),
           work'.msg.text \notin work'.barred,
           work'.at \in {"gate", "store"} => events_row'[work'.msg.of] # NoRow /\ work'.msg.text \in Texts,
           events_row' \in [Things -> EventRow \cup {NoRow}],
           \A o \in Things : /\ events_row'[o] # NoRow => o <= seen
                             /\ events_row'[o].end = "real" => Gone(o)
                             /\ events_row[o] # NoRow => events_row'[o] # NoRow
    PROVE  DetectionsInv'
<1> USE DEF DetectionsInv, world, provider, controls, poller, fired
<1>1. DetectionsTypes'
    BY DEF DetectionsTypes
<1>2. \A n : Said(n)' = Said(n)
    BY DEF Said, Gone
<1>3. MessagesStand'
  <2>1. \A n \in pending' \cup stray' : Said(n)'
      BY <1>2 DEF MessagesStand
  <2>2. \A i \in 1..Len(channel)' : Said(channel[i])'
      BY DEF Said, Gone
  <2>3. IF work'.at = "idle" THEN work'.msg = NoMessage ELSE work'.msg \in Messages /\ Said(work.msg)'
      BY DEF Said, Gone
  <2> QED BY <2>1, <2>2, <2>3 DEF MessagesStand
<1>4. RowsStand'
    BY DEF RowsStand, Gone
<1>5. WorkStands'
    BY DEF WorkStands
<1>6. AlarmsStand'
    BY DEF AlarmsStand, Alarmed, Latched, At
<1> QED BY <1>1, <1>3, <1>4, <1>5, <1>6

LEMMA TakesKeeps == DetectionsInv /\ Takes => DetectionsInv'
<1> SUFFICES ASSUME DetectionsInv, Takes PROVE DetectionsInv'
    OBVIOUS
<1> DEFINE m == Head(channel)
<1>0. /\ channel \in Seq(Messages) /\ work.at = "idle" /\ channel # <<>> /\ channel' = Tail(channel)
      /\ ignored \subseteq Texts /\ \A i \in 1..Len(channel) : Said(channel[i])
      /\ UNCHANGED <<world, provider, controls, read, events_row, poller, fired>>
    BY DEF DetectionsInv, DetectionsTypes, MessagesStand, Takes, tables
<1>1. m \in Messages /\ Said(m)
  <2>1. m = channel[1] /\ 1 \in 1..Len(channel) /\ channel[1] \in Messages
      BY <1>0
  <2> QED BY <1>0, <2>1
<1>2. channel' \in Seq(Messages) /\ \A i \in 1..Len(channel)' : Said(channel'[i])
  <2>1. channel' \in Seq(Messages) /\ \A i \in 1..Len(channel)' : i + 1 \in 1..Len(channel) /\ channel'[i] = channel[i + 1]
      BY <1>0
  <2> QED BY <1>0, <2>1
<1>3. \/ Rests
      \/ \E n \in Messages : Begins(n) /\ n.of = m.of /\ n.life = m.life /\ n.text \notin ignored
  <2>1. NoText \notin ignored
      BY <1>0, BlanksAre
  <2>2. (m.text \notin ignored /\ Begins(m)) \/ Withholds(m)
      BY DEF Takes, Unchecked
  <2> HIDE DEF m
  <2> QED BY <1>0, <1>1, <2>1, <2>2, WithholdsIs
<1> HIDE DEF m
<1>4. /\ work' \in Work /\ work'.at \in {"idle", "write"} /\ work'.msg.text \notin work'.barred
      /\ IF work'.at = "idle" THEN work'.msg = NoMessage ELSE work'.msg \in Messages /\ Said(work'.msg)
  <2>1. CASE Rests
      BY <2>1, RestsIs
  <2>2. ASSUME NEW n \in Messages, Begins(n), n.of = m.of, n.life = m.life, n.text \notin ignored
        PROVE  work' \in Work /\ work'.at = "write" /\ work'.msg = n /\ work'.barred = ignored /\ Said(n)
    <3>1. work' \in Work /\ work'.at = "write" /\ work'.msg = n /\ work'.barred = ignored
        BY <1>0, <2>2, BeginsIs
    <3> QED BY <1>1, <2>2, <3>1 DEF Said
  <2> QED BY <1>3, <2>1, <2>2
<1>5. \A o \in Things : /\ events_row'[o] # NoRow => o <= seen
                        /\ events_row'[o].end = "real" => Gone(o)
                        /\ events_row[o] # NoRow => events_row'[o] # NoRow
    BY <1>0 DEF DetectionsInv, RowsStand
<1>6. events_row' \in [Things -> EventRow \cup {NoRow}]
    BY <1>0 DEF DetectionsInv, DetectionsTypes
<1> QED BY <1>0, <1>2, <1>4, <1>5, <1>6, EarlyKeeps

LEMMA UpsertedIs ==
    ASSUME NEW old \in EventRow \cup {NoRow}, NEW m \in Messages
    PROVE  /\ Upserted(old, m) \in EventRow /\ Upserted(old, m) # NoRow
           /\ Upserted(old, m).end \in {old.end, "real"} /\ (m.life # "end" => Upserted(old, m).end = old.end)
           /\ Upserted(old, m).text \in {m.text, NoText}
<1>1. old.end \in {"open", "guess", "real"}
    BY BlanksAre DEF EventRow
<1>2. m.life \in Lives /\ m.text \in Text
    BY DEF Messages
<1>3. KeptEnd(old, m) \in {old.end, "real"} /\ (m.life # "end" => KeptEnd(old, m) = old.end)
    BY DEF KeptEnd
<1> DEFINE x == IF m.raw THEN m.text ELSE NoText
<1>4. x \in {m.text, NoText} /\ x \in Text
    BY <1>2 DEF Text
<1>5. /\ Upserted(old, m) = [life |-> m.life, end |-> KeptEnd(old, m), text |-> x, fresh |-> TRUE]
    BY DEF Upserted
<1> HIDE DEF x
<1>6. Upserted(old, m) \in EventRow
    BY <1>1, <1>2, <1>3, <1>4, <1>5 DEF EventRow
<1>7. Upserted(old, m).life # NoRow.life
    BY <1>2, <1>5 DEF NoRow, Lives
<1> QED BY <1>3, <1>4, <1>5, <1>6, <1>7

LEMMA WritesEventKeeps == DetectionsInv /\ WritesEvent => DetectionsInv'
<1> SUFFICES ASSUME DetectionsInv, WritesEvent PROVE DetectionsInv'
    OBVIOUS
<1> DEFINE m == work.msg
<1>0. /\ work.at = "write" /\ work \in Work /\ m \in Messages /\ Said(m) /\ m.text \notin work.barred
      /\ UNCHANGED <<world, provider, channel, controls, read, poller, fired>>
      /\ channel \in Seq(Messages) /\ \A i \in 1..Len(channel) : Said(channel[i])
      /\ events_row \in [Things -> EventRow \cup {NoRow}]
    BY DEF DetectionsInv, DetectionsTypes, MessagesStand, WorkStands, WritesEvent
<1>1. /\ \A o \in Things : /\ events_row[o] # NoRow => o <= seen
                           /\ events_row[o].end = "real" => Gone(o)
    BY DEF DetectionsInv, RowsStand
<1>2. m.of \in Things /\ m.text \in Text
    BY <1>0 DEF Messages
<1> HIDE DEF m
<1>3. CASE /\ events_row' = [events_row EXCEPT ![m.of] = Upserted(@, m)]
           /\ IF m.text # NoText THEN GoesOn("gate") ELSE Rests
  <2> DEFINE row == Upserted(events_row[m.of], m)
  <2>1. /\ row \in EventRow /\ row # NoRow /\ row.end \in {events_row[m.of].end, "real"}
        /\ m.life # "end" => row.end = events_row[m.of].end
      BY <1>0, <1>2, UpsertedIs
  <2>2. /\ events_row' \in [Things -> EventRow \cup {NoRow}] /\ events_row'[m.of] = row
        /\ \A o \in Things : o # m.of => events_row'[o] = events_row[o]
      BY <1>0, <1>2, <1>3, <2>1
  <2> HIDE DEF row
  <2>3. \A o \in Things : /\ events_row'[o] # NoRow => o <= seen
                          /\ events_row'[o].end = "real" => Gone(o)
                          /\ events_row[o] # NoRow => events_row'[o] # NoRow
      BY <1>0, <1>1, <2>1, <2>2 DEF Said
  <2>4. /\ work' \in Work /\ work'.at \in {"idle", "gate"} /\ work'.msg.text \notin work'.barred
        /\ IF work'.at = "idle" THEN work'.msg = NoMessage ELSE work'.msg \in Messages /\ Said(work'.msg)
        /\ work'.at = "gate" => events_row'[work'.msg.of] # NoRow /\ work'.msg.text \in Texts
    <3>1. CASE GoesOn("gate") /\ m.text # NoText
      <4>1. work' \in Work /\ work'.at = "gate" /\ work'.msg = m /\ work'.barred = work.barred
          BY <1>0, <3>1, GoesOnIs DEF m
      <4> QED BY <1>0, <1>2, <2>1, <2>2, <3>1, <4>1 DEF Text
    <3>2. CASE Rests
        BY <3>2, RestsIs
    <3> QED BY <1>3, <3>1, <3>2
  <2> QED BY <1>0, <2>2, <2>3, <2>4, EarlyKeeps
<1>4. CASE Rests /\ UNCHANGED events_row
  <2>1. work' \in Work /\ work'.at = "idle" /\ work'.msg = NoMessage /\ work'.barred = {}
      BY <1>4, RestsIs
  <2> QED BY <1>0, <1>1, <1>4, <2>1, EarlyKeeps
<1> QED BY <1>3, <1>4 DEF WritesEvent, m

LEMMA GatesKeeps == DetectionsInv /\ Gates => DetectionsInv'
<1> SUFFICES ASSUME DetectionsInv, Gates PROVE DetectionsInv'
    OBVIOUS
<1>0. /\ work.at = "gate" /\ work \in Work /\ work.msg \in Messages /\ Said(work.msg)
      /\ events_row[work.msg.of] # NoRow /\ work.msg.text \in Texts /\ ignored \subseteq Texts
      /\ UNCHANGED <<world, provider, channel, controls, read, events_row, poller, fired>>
      /\ channel \in Seq(Messages) /\ \A i \in 1..Len(channel) : Said(channel[i])
      /\ events_row \in [Things -> EventRow \cup {NoRow}]
    BY DEF DetectionsInv, DetectionsTypes, MessagesStand, WorkStands, Gates, tables
<1>1. /\ \A o \in Things : /\ events_row[o] # NoRow => o <= seen
                           /\ events_row[o].end = "real" => Gone(o)
    BY DEF DetectionsInv, RowsStand
<1>2. CASE work' = [work EXCEPT !.at = "store", !.barred = ignored] /\ work.msg.text \notin ignored
  <2>1. work' \in Work /\ work'.at = "store" /\ work'.msg = work.msg /\ work'.barred = ignored
      BY <1>0, <1>2 DEF Work
  <2> QED BY <1>0, <1>1, <1>2, <2>1, EarlyKeeps
<1>3. CASE Rests
  <2>1. work' \in Work /\ work'.at = "idle" /\ work'.msg = NoMessage /\ work'.barred = {}
      BY <1>3, RestsIs
  <2> QED BY <1>0, <1>1, <2>1, EarlyKeeps
<1> QED BY <1>2, <1>3 DEF Gates

\* The last steps at the message touch its own read and alerts only.
LEMMA LateKeeps ==
    ASSUME DetectionsInv, UNCHANGED <<world, provider, channel, controls, events_row, poller>>,
           work.at \in {"store", "alert", "latch"}, NEW o \in Things, o = work.msg.of,
           read' \in [Things -> [text : Text, alerted : BOOLEAN]],
           alarms' \in [Things -> Nat], unlatched' \in [Things -> Nat],
           \A p \in Things : p # o => /\ read'[p] = read[p] /\ alarms'[p] = alarms[p]
                                      /\ unlatched'[p] = unlatched[p] /\ (p \in unfired => p \in unfired'),
           read'[o] = read[o] \/ read'[o].text \in Texts,
           \/ Rests
           \/ \E step \in {"alert", "latch"} :
                 GoesOn(step) /\ read'[o].text = work.msg.text /\ ~read'[o].alerted,
           Alarmed(o)'
    PROVE  DetectionsInv'
<1>0. /\ DetectionsTypes /\ MessagesStand /\ RowsStand /\ WorkStands /\ AlarmsStand
      /\ work \in Work /\ work.msg \in Messages /\ Said(work.msg) /\ work.msg.text \notin work.barred
      /\ events_row[o] # NoRow /\ work.msg.text \in Texts
    BY DEF DetectionsInv, DetectionsTypes, MessagesStand, WorkStands
<1>1. /\ work' \in Work
      /\ \/ work'.at = "idle" /\ work'.msg = NoMessage /\ work'.barred = {}
         \/ /\ work'.at \in {"alert", "latch"} /\ work'.msg = work.msg /\ work'.barred = work.barred
            /\ read'[o].text = work.msg.text /\ ~read'[o].alerted
  <2>1. CASE Rests
      BY <2>1, RestsIs
  <2>2. ASSUME NEW step \in {"alert", "latch"}, GoesOn(step)
        PROVE  work' \in Work /\ work'.at = step /\ work'.msg = work.msg /\ work'.barred = work.barred
      BY <1>0, <2>2, GoesOnIs
  <2> QED BY <2>1, <2>2
<1>2. DetectionsTypes'
    BY <1>0, <1>1 DEF DetectionsTypes, world, provider, controls, poller
<1>3. MessagesStand'
    BY <1>0, <1>1 DEF MessagesStand, Said, Gone, world, provider
<1>4. RowsStand'
    BY <1>0 DEF RowsStand, Gone, world
<1>5. WorkStands'
    BY <1>0, <1>1, BlanksAre DEF WorkStands
<1>6. AlarmsStand'
  <2> SUFFICES ASSUME NEW p \in Things PROVE Alarmed(p)'
      BY DEF AlarmsStand
  <2>1. CASE p = o
      BY <2>1
  <2>2. CASE p # o
    <3>1. /\ read'[p] = read[p] /\ alarms'[p] = alarms[p] /\ unlatched'[p] = unlatched[p]
          /\ p \in unfired => p \in unfired'
        BY <2>2
    <3>2. ~At(p, "latch") /\ ~At(p, "alert") /\ ~At(p, "latch")' /\ ~At(p, "alert")'
        BY <1>1, <2>2, BlanksAre DEF At
    <3>3. Alarmed(p) /\ (Latched(p)' <=> Latched(p))
        BY <1>0, <3>1, <3>2 DEF AlarmsStand, Latched
    <3> QED BY <3>1, <3>2, <3>3 DEF Alarmed
  <2> QED BY <2>1, <2>2
<1> QED BY <1>2, <1>3, <1>4, <1>5, <1>6 DEF DetectionsInv

\* What the late steps have in hand.
LEMMA InHandIs ==
    ASSUME DetectionsInv, work.at \in {"store", "alert", "latch"}
    PROVE  /\ work.msg.of \in Things /\ work.msg.text \in Texts /\ work \in Work /\ Alarmed(work.msg.of)
           /\ read \in [Things -> [text : Text, alerted : BOOLEAN]]
           /\ alarms \in [Things -> Nat] /\ unlatched \in [Things -> Nat]
           /\ work.at \in {"alert", "latch"} =>
                 read[work.msg.of].text = work.msg.text /\ ~read[work.msg.of].alerted
<1>1. work.msg \in Messages
    BY DEF DetectionsInv, MessagesStand
<1>2. work.msg.of \in Things
    BY <1>1 DEF Messages
<1> QED BY <1>2 DEF DetectionsInv, DetectionsTypes, WorkStands, AlarmsStand, Alarmed

LEMMA StoresReadKeeps == DetectionsInv /\ StoresRead => DetectionsInv'
<1> SUFFICES ASSUME DetectionsInv, StoresRead PROVE DetectionsInv'
    OBVIOUS
<1>z. PICK o \in Things : o = work.msg.of
    BY InHandIs DEF StoresRead
<1>0. /\ o \in Things /\ work.msg.text \in Texts /\ work \in Work /\ Alarmed(o) /\ work.at = "store"
      /\ read \in [Things -> [text : Text, alerted : BOOLEAN]]
      /\ alarms \in [Things -> Nat] /\ unlatched \in [Things -> Nat]
      /\ UNCHANGED <<world, provider, channel, controls, events_row, poller, alarms, unlatched, unfired>>
    BY <1>z, InHandIs DEF StoresRead, fired
<1>1. \/ /\ read' = [read EXCEPT ![o].text = work.msg.text]
         /\ IF read[o].alerted THEN Rests ELSE GoesOn("alert")
      \/ Rests /\ UNCHANGED read
    BY <1>z DEF StoresRead
<1>2. \/ Rests
      \/ work' \in Work /\ work'.at = "alert" /\ work'.msg = work.msg /\ GoesOn("alert")
    BY <1>0, <1>1, GoesOnIs
<1>3. /\ read' \in [Things -> [text : Text, alerted : BOOLEAN]]
      /\ \A p \in Things : p # o => read'[p] = read[p]
      /\ read'[o] = read[o] \/ (read'[o].text = work.msg.text /\ read'[o].alerted = read[o].alerted)
  <2>1. CASE read' = [read EXCEPT ![o].text = work.msg.text]
    <3> DEFINE r == [read[o] EXCEPT !.text = work.msg.text]
    <3>1. r \in [text : Text, alerted : BOOLEAN] /\ r.text = work.msg.text /\ r.alerted = read[o].alerted
        BY <1>0 DEF Text
    <3>2. read' = [read EXCEPT ![o] = r]
        BY <1>0, <2>1
    <3> HIDE DEF r
    <3> QED BY <1>0, <3>1, <3>2
  <2>2. CASE read' = read
      BY <1>0, <2>2
  <2> QED BY <1>1, <2>1, <2>2
<1>4. \/ Rests
      \/ /\ GoesOn("alert") /\ read'[o].text = work.msg.text /\ ~read'[o].alerted
         /\ work'.at = "alert" /\ work'.msg = work.msg
  <2>1. CASE Rests
      BY <2>1
  <2>2. CASE GoesOn("alert") /\ ~read[o].alerted /\ read' = [read EXCEPT ![o].text = work.msg.text]
    <3>1. read'[o].text = work.msg.text /\ read'[o].alerted = read[o].alerted
        BY <1>0, <2>2
    <3>2. work'.at = "alert" /\ work'.msg = work.msg
        BY <1>0, <2>2, GoesOnIs
    <3> QED BY <2>2, <3>1, <3>2
  <2> QED BY <1>1, <2>1, <2>2
<1>5. Alarmed(o)'
  <2>1. ~At(o, "latch") /\ ~At(o, "latch")' /\ ~At(o, "alert")
    <3>1. CASE Rests
        BY <1>0, <3>1, RestsIs DEF At
    <3>2. CASE work'.at = "alert"
        BY <1>0, <3>2 DEF At
    <3> QED BY <1>4, <3>1, <3>2
  <2>2. Latched(o)' <=> Latched(o)
      BY <1>3, <2>1 DEF Latched
  <2>3. alarms' = alarms /\ unlatched' = unlatched /\ unfired' = unfired
      BY <1>0
  <2>4. CASE read' = read
      BY <1>0, <2>1, <2>2, <2>3, <2>4 DEF Alarmed
  <2>5. CASE read[o].alerted
    <3>1. Latched(o)
        BY <2>5 DEF Latched
    <3>2. alarms[o] > 0
        BY <1>0, <3>1 DEF Alarmed
    <3> QED BY <1>0, <2>2, <2>3, <3>2 DEF Alarmed
  <2>6. CASE GoesOn("alert") /\ work'.at = "alert" /\ work'.msg = work.msg
    <3>1. At(o, "alert")'
        BY <1>z, <2>6 DEF At
    <3> QED BY <1>0, <2>2, <2>3, <3>1 DEF Alarmed
  <2>7. GoesOn("alert") => work'.at = "alert" /\ work'.msg = work.msg
      BY <1>0, GoesOnIs
  <2> QED BY <1>1, <2>4, <2>5, <2>6, <2>7
<1>6. read'[o] = read[o] \/ read'[o].text \in Texts
    BY <1>0, <1>3
<1>7. \A p \in Things : p # o => /\ read'[p] = read[p] /\ alarms'[p] = alarms[p]
                                 /\ unlatched'[p] = unlatched[p] /\ (p \in unfired => p \in unfired')
    BY <1>0, <1>3
<1>8. alarms' \in [Things -> Nat] /\ unlatched' \in [Things -> Nat] /\ o = work.msg.of
    BY <1>0, <1>z
<1> QED BY <1>0, <1>3, <1>4, <1>5, <1>6, <1>7, <1>8, LateKeeps

LEMMA AlertsKeeps == DetectionsInv /\ Alerts => DetectionsInv'
<1> SUFFICES ASSUME DetectionsInv, Alerts PROVE DetectionsInv'
    OBVIOUS
<1>z. PICK o \in Things : o = work.msg.of
    BY InHandIs DEF Alerts
<1>0. /\ o \in Things /\ work.msg.text \in Texts /\ work \in Work /\ Alarmed(o) /\ work.at = "alert"
      /\ read \in [Things -> [text : Text, alerted : BOOLEAN]] /\ read[o].text = work.msg.text /\ ~read[o].alerted
      /\ alarms \in [Things -> Nat] /\ unlatched \in [Things -> Nat]
      /\ UNCHANGED <<world, provider, channel, controls, events_row, poller, read, unlatched>>
    BY <1>z, InHandIs DEF Alerts, fired, tables
<1>a. ~Latched(o) /\ alarms[o] = unlatched[o] /\ alarms[o] \in Nat
  <2>1. ~Latched(o)
      BY <1>0 DEF Latched, At
  <2> QED BY <1>0, <2>1 DEF Alarmed
<1>1. \/ work.msg.text \notin Watched /\ Rests /\ UNCHANGED <<alarms, unfired>>
      \/ /\ work.msg.text \in Watched /\ GoesOn("latch")
         /\ alarms' = [alarms EXCEPT ![o] = @ + 1] /\ UNCHANGED unfired
      \/ Rests /\ unfired' = unfired \cup {o} /\ UNCHANGED alarms
    BY <1>z DEF Alerts, fired
<1>2. /\ \/ Rests
         \/ GoesOn("latch") /\ read'[o].text = work.msg.text /\ ~read'[o].alerted
      /\ alarms' \in [Things -> Nat] /\ \A p \in Things : p # o => alarms'[p] = alarms[p]
      /\ \A p \in Things : p \in unfired => p \in unfired'
    BY <1>0, <1>1
<1>3. Alarmed(o)'
  <2>1. CASE Rests
    <3>1. ~Latched(o)' /\ ~At(o, "alert")'
        BY <1>0, <2>1, RestsIs DEF At, Latched
    <3>2. alarms' = alarms /\ (o \in unfired' \/ read[o].text \notin Watched)
      <4>1. work'.at = "idle"
          BY <2>1, RestsIs
      <4>2. ~GoesOn("latch")
          BY <1>0, <4>1, GoesOnIs
      <4> QED BY <1>0, <1>1, <4>2
    <3> QED BY <1>0, <1>a, <3>1, <3>2 DEF Alarmed
  <2>2. CASE GoesOn("latch") /\ alarms' = [alarms EXCEPT ![o] = @ + 1]
    <3>1. work'.at = "latch" /\ work'.msg = work.msg
        BY <1>0, <2>2, GoesOnIs
    <3>2. Latched(o)'
        BY <1>z, <3>1 DEF At, Latched
    <3>3. alarms'[o] = unlatched[o] + 1 /\ alarms'[o] > 0
        BY <1>0, <1>a, <2>2
    <3> QED BY <1>0, <3>2, <3>3 DEF Alarmed
  <2> QED BY <1>1, <2>1, <2>2
<1>4. /\ read' \in [Things -> [text : Text, alerted : BOOLEAN]] /\ unlatched' \in [Things -> Nat]
      /\ o = work.msg.of /\ read'[o] = read[o]
    BY <1>0, <1>z
<1>5. \A p \in Things : p # o => /\ read'[p] = read[p] /\ alarms'[p] = alarms[p]
                                 /\ unlatched'[p] = unlatched[p] /\ (p \in unfired => p \in unfired')
    BY <1>0, <1>2
<1> QED BY <1>0, <1>2, <1>3, <1>4, <1>5, LateKeeps

LEMMA LatchesKeeps == DetectionsInv /\ Latches => DetectionsInv'
<1> SUFFICES ASSUME DetectionsInv, Latches PROVE DetectionsInv'
    OBVIOUS
<1>z. PICK o \in Things : o = work.msg.of
    BY InHandIs DEF Latches
<1>0. /\ o \in Things /\ work.msg.text \in Texts /\ work \in Work /\ Alarmed(o) /\ work.at = "latch" /\ Rests
      /\ read \in [Things -> [text : Text, alerted : BOOLEAN]] /\ read[o].text = work.msg.text /\ ~read[o].alerted
      /\ alarms \in [Things -> Nat] /\ unlatched \in [Things -> Nat]
      /\ UNCHANGED <<world, provider, channel, controls, events_row, poller, alarms, unfired>>
    BY <1>z, InHandIs DEF Latches
<1>a. alarms[o] = unlatched[o] + 1 /\ unlatched[o] \in Nat
  <2>1. Latched(o)
      BY <1>0, <1>z DEF Latched, At
  <2> QED BY <1>0, <2>1 DEF Alarmed
<1>b. ~At(o, "latch")' /\ ~At(o, "alert")'
    BY <1>0, RestsIs DEF At
<1>1. \/ read' = [read EXCEPT ![o].alerted = TRUE] /\ UNCHANGED unlatched
      \/ unlatched' = [unlatched EXCEPT ![o] = @ + 1] /\ UNCHANGED read
    BY <1>z DEF Latches
<1>2. CASE read' = [read EXCEPT ![o].alerted = TRUE] /\ UNCHANGED unlatched
  <2> DEFINE r == [read[o] EXCEPT !.alerted = TRUE]
  <2>1. r \in [text : Text, alerted : BOOLEAN] /\ r.text = work.msg.text /\ r.alerted
      BY <1>0
  <2>2. read' = [read EXCEPT ![o] = r]
      BY <1>0, <1>2
  <2> HIDE DEF r
  <2>3. /\ read' \in [Things -> [text : Text, alerted : BOOLEAN]] /\ read'[o].text \in Texts /\ read'[o].alerted
        /\ \A p \in Things : p # o => read'[p] = read[p]
      BY <1>0, <2>1, <2>2
  <2>7. Latched(o)'
      BY <2>3 DEF Latched
  <2>4. Alarmed(o)'
      BY <1>0, <1>2, <1>a, <1>b, <2>7 DEF Alarmed
  <2>5. \A p \in Things : p # o => /\ read'[p] = read[p] /\ alarms'[p] = alarms[p]
                                   /\ unlatched'[p] = unlatched[p] /\ (p \in unfired => p \in unfired')
      BY <1>0, <1>2, <2>3
  <2>6. alarms' \in [Things -> Nat] /\ unlatched' \in [Things -> Nat] /\ o = work.msg.of
      BY <1>0, <1>2, <1>z
  <2> QED BY <1>0, <2>3, <2>4, <2>5, <2>6, LateKeeps
<1>3. CASE unlatched' = [unlatched EXCEPT ![o] = @ + 1] /\ UNCHANGED read
  <2>1. /\ unlatched' \in [Things -> Nat] /\ unlatched'[o] = unlatched[o] + 1
        /\ \A p \in Things : p # o => unlatched'[p] = unlatched[p]
      BY <1>0, <1>3
  <2>5. ~Latched(o)'
      BY <1>0, <1>3, <1>b DEF Latched
  <2>2. Alarmed(o)'
      BY <1>0, <1>3, <1>a, <1>b, <2>1, <2>5 DEF Alarmed
  <2>3. \A p \in Things : p # o => /\ read'[p] = read[p] /\ alarms'[p] = alarms[p]
                                   /\ unlatched'[p] = unlatched[p] /\ (p \in unfired => p \in unfired')
      BY <1>0, <1>3, <2>1
  <2>4. alarms' \in [Things -> Nat] /\ o = work.msg.of /\ read' = read
      BY <1>0, <1>3, <1>z
  <2> QED BY <1>0, <2>1, <2>2, <2>3, <2>4, LateKeeps
<1> QED BY <1>1, <1>2, <1>3

-----------------------------------------------------------------------------
(* Recorder, janitor, engine, admin.                                           *)

LEMMA RowsKeep ==
    ASSUME DetectionsInv, UNCHANGED <<kind, seen, provider, channel, work, controls, read, poller, fired>>,
           thing' \in [Things -> [text : Text, said : SUBSET Lives]],
           events_row' \in [Things -> EventRow \cup {NoRow}],
           \A o \in Things :
              /\ (Gone(o) => Gone(o)') /\ (thing'[o].said # {} => thing[o].said # {} \/ o <= seen)
              /\ (events_row[o] # NoRow => events_row'[o] # NoRow)
              /\ (events_row'[o] # NoRow => o <= seen) /\ (events_row'[o].end = "real" => Gone(o)')
    PROVE  DetectionsInv'
<1> USE DEF DetectionsInv, provider, controls, poller, fired
<1>0. seen \in Nat /\ DetectionsTypes /\ seen' = seen
    BY SeenIs
<1>1. DetectionsTypes'
    BY DEF DetectionsTypes
<1>2. \A m \in Messages : Said(m) => Said(m)'
    BY <1>0, SaidStays
<1>3. MessagesStand'
  <2>1. \A m \in pending' \cup stray' : Said(m)'
      BY <1>2 DEF MessagesStand, DetectionsTypes
  <2>2. \A i \in 1..Len(channel)' : Said(channel[i])'
    <3> SUFFICES ASSUME NEW i \in 1..Len(channel) PROVE Said(channel[i])'
        OBVIOUS
    <3>1. channel[i] \in Messages /\ Said(channel[i])
        BY DEF MessagesStand, DetectionsTypes
    <3>2. PICK n \in Messages : n = channel[i]
        BY <3>1
    <3> QED BY <1>2, <3>1, <3>2 DEF Said, Gone
  <2>3. work.at # "idle" => Said(work.msg)'
    <3> SUFFICES ASSUME work.at # "idle" PROVE Said(work.msg)'
        OBVIOUS
    <3>1. work.msg \in Messages /\ Said(work.msg)
        BY DEF MessagesStand
    <3>2. PICK n \in Messages : n = work.msg
        BY <3>1
    <3> QED BY <1>2, <3>1, <3>2 DEF Said, Gone
  <2> QED BY <2>1, <2>2, <2>3 DEF MessagesStand
<1>4. RowsStand'
    BY <1>0 DEF RowsStand
<1>5. WorkStands'
  <2>1. work.at \in {"gate", "store", "alert", "latch"} => work.msg.of \in Things
      BY DEF MessagesStand, Messages
  <2> QED BY <2>1 DEF WorkStands
<1>6. AlarmsStand'
    BY DEF AlarmsStand, Alarmed, Latched, At
<1> QED BY <1>1, <1>3, <1>4, <1>5, <1>6

LEMMA RecordsKeeps ==
    ASSUME DetectionsInv, NEW o \in Things, NEW life \in {"start", "end"}, Records(o, life)
    PROVE  DetectionsInv'
<1>0. /\ DetectionsTypes /\ Says(o, life, NoText) /\ life \in Lives /\ NoText \in Text
      /\ UNCHANGED <<kind, seen, provider, channel, work, controls, read, poller, fired>>
      /\ events_row \in [Things -> EventRow \cup {NoRow}]
      /\ \A p \in Things : (events_row[p] # NoRow => p <= seen) /\ (events_row[p].end = "real" => Gone(p))
    BY DEF DetectionsInv, DetectionsTypes, RowsStand, Records, Lives, Text
<1>1. /\ thing' \in [Things -> [text : Text, said : SUBSET Lives]] /\ o <= seen
      /\ \A p \in Things : p # o => thing'[p] = thing[p]
      /\ \A p \in Things : Gone(p) => Gone(p)'
      /\ life = "end" => Gone(o)'
    BY <1>0, SaysIs
<1>2. /\ Message(o, life, NoText, TRUE) \in Messages /\ Message(o, life, NoText, TRUE).life = life
    BY <1>0, MessageIs
<1> DEFINE row == Upserted(events_row[o], Message(o, life, NoText, TRUE))
<1>3. /\ row \in EventRow /\ row # NoRow /\ row.end \in {events_row[o].end, "real"}
      /\ life # "end" => row.end = events_row[o].end
    BY <1>0, <1>2, UpsertedIs
<1>4. events_row' = [events_row EXCEPT ![o] = row] \/ events_row' = events_row
    BY DEF Records
<1> HIDE DEF row
<1>5. /\ events_row' \in [Things -> EventRow \cup {NoRow}]
      /\ \A p \in Things : events_row'[p] = events_row[p] \/ (p = o /\ events_row'[p] = row)
    BY <1>0, <1>3, <1>4
<1>6. \A p \in Things :
              /\ (Gone(p) => Gone(p)') /\ (thing'[p].said # {} => thing[p].said # {} \/ p <= seen)
              /\ (events_row[p] # NoRow => events_row'[p] # NoRow)
              /\ (events_row'[p] # NoRow => p <= seen) /\ (events_row'[p].end = "real" => Gone(p)')
    BY <1>0, <1>1, <1>3, <1>5
<1> QED BY <1>0, <1>1, <1>5, <1>6, RowsKeep

LEMMA JanitorKeeps ==
    ASSUME DetectionsInv, GrowsStale \/ JanitorCloses
    PROVE  DetectionsInv'
<1>0. /\ UNCHANGED <<kind, seen, thing, provider, channel, work, controls, read, poller, fired>>
      /\ events_row \in [Things -> EventRow \cup {NoRow}]
      /\ thing \in [Things -> [text : Text, said : SUBSET Lives]]
      /\ \A p \in Things : (events_row[p] # NoRow => p <= seen) /\ (events_row[p].end = "real" => Gone(p))
    BY DEF DetectionsInv, DetectionsTypes, RowsStand, GrowsStale, JanitorCloses, world
<1>1. \A x \in EventRow : x # NoRow
    BY DEF EventRow, NoRow, Lives
<1>2. /\ events_row' \in [Things -> EventRow \cup {NoRow}]
      /\ \A p \in Things : /\ events_row[p] = NoRow <=> events_row'[p] = NoRow
                           /\ events_row'[p].end = "real" => events_row[p].end = "real"
  <2>1. CASE GrowsStale
    <3>1. events_row' = [o \in Things |-> [events_row[o] EXCEPT !.fresh = FALSE]]
        BY <2>1 DEF GrowsStale
    <3>2. \A x \in EventRow : [x EXCEPT !.fresh = FALSE] \in EventRow /\ [x EXCEPT !.fresh = FALSE].end = x.end
        BY DEF EventRow
    <3>3. [NoRow EXCEPT !.fresh = FALSE] = NoRow
      <4>1. NoRow \in [life : {"none"}, end : {"open"}, text : {NoText}, fresh : BOOLEAN] /\ NoRow.fresh = FALSE
          BY DEF NoRow
      <4> QED BY <4>1
    <3>4. \A p \in Things : /\ events_row[p] = NoRow => events_row'[p] = NoRow
                            /\ events_row[p] # NoRow => events_row'[p] \in EventRow /\ events_row'[p].end = events_row[p].end
        BY <1>0, <3>1, <3>2, <3>3
    <3>5. events_row' \in [Things -> EventRow \cup {NoRow}]
        BY <3>1, <3>4
    <3> QED BY <1>1, <3>4, <3>5
  <2>2. CASE JanitorCloses
    <3>1. events_row' = [o \in Things |-> IF Stale(o) THEN [events_row[o] EXCEPT !.end = "guess", !.life = "end"]
                                          ELSE events_row[o]]
        BY <2>2 DEF JanitorCloses
    <3>2. \A x \in EventRow : /\ [x EXCEPT !.end = "guess", !.life = "end"] \in EventRow
                              /\ [x EXCEPT !.end = "guess", !.life = "end"].end = "guess"
        BY DEF EventRow, Lives
    <3>3. \A p \in Things : \/ events_row'[p] = events_row[p]
                            \/ events_row[p] # NoRow /\ events_row'[p] \in EventRow /\ events_row'[p].end = "guess"
        BY <1>0, <3>1, <3>2 DEF Stale, Open
    <3>4. events_row' \in [Things -> EventRow \cup {NoRow}]
        BY <1>0, <3>1, <3>3
    <3> QED BY <1>1, <3>3, <3>4
  <2> QED BY <2>1, <2>2
<1>3. \A o \in Things :
              /\ (Gone(o) => Gone(o)') /\ (thing'[o].said # {} => thing[o].said # {} \/ o <= seen)
              /\ (events_row[o] # NoRow => events_row'[o] # NoRow)
              /\ (events_row'[o] # NoRow => o <= seen) /\ (events_row'[o].end = "real" => Gone(o)')
    BY <1>0, <1>2 DEF Gone
<1> QED BY <1>0, <1>2, <1>3, RowsKeep

\* Of a set of numbers up to n there is a least and a greatest.
LEMMA LeastIs ==
    ASSUME NEW S, S \subseteq Nat, S # {}
    PROVE  \E i \in S : \A j \in S : i <= j
<1>1. PICK i \in S : \A j \in S : ~(<<j, i>> \in OpToRel(<, Nat))
    BY NatLessThanWellFounded, WFMin, Zenon
<1>2. \A j \in S : ~(j < i)
    BY <1>1 DEF OpToRel
<1> QED BY <1>2

LEMMA MaxIs ==
    ASSUME NEW n \in Nat, NEW S, S \subseteq 0..n, S # {}
    PROVE  Max(S) \in S /\ \A j \in S : j <= Max(S)
<1> DEFINE T == {n - x : x \in S}
<1>1. T \subseteq Nat /\ T # {}
    OBVIOUS
<1>2. PICK i \in T : \A j \in T : i <= j
  <2> HIDE DEF T
  <2> QED BY <1>1, LeastIs
<1>3. PICK x \in S : i = n - x
    OBVIOUS
<1>4. \A j \in S : x >= j
    BY <1>2, <1>3
<1>5. \E y \in S : \A j \in S : y >= j
    BY <1>4
<1>6. Max(S) \in S /\ \A j \in S : Max(S) >= j
    BY <1>5 DEF Max
<1> QED BY <1>6

\* The rows ahead of the cursor are of what was seen; a poll takes the oldest of them.
LEMMA PolledIs ==
    ASSUME DetectionsInv, Ahead # {}
    PROVE  /\ Ahead \subseteq 1..seen /\ Polled \subseteq Ahead /\ seen \in Nat
           /\ LastPolled \in Polled /\ LastPolled \in Nat /\ LastPolled <= seen
           /\ \A o \in Ahead : o <= LastPolled => o \in Polled
<1>1. seen \in Nat /\ Things \subseteq Nat /\ 0 \notin Things /\ PollBatch \in Nat \ {0}
    BY SeenIs, BlanksAre, DetectionAssumption DEF DetectionsInv
<1>a. /\ \A o \in Ahead : o \in Things /\ o <= seen
      /\ Polled \subseteq Ahead
    BY DEF Ahead, Polled, DetectionsInv, RowsStand
<1>2. Ahead \subseteq 1..seen /\ Polled \subseteq Ahead /\ Ahead \subseteq Nat
  <2>1. \A o \in Ahead : o \in Nat /\ o # 0 /\ o <= seen
      BY <1>1, <1>a
  <2>2. \A o \in Ahead : o \in 1..seen
      BY <1>1, <2>1
  <2> HIDE DEF Ahead, Polled
  <2> QED BY <1>a, <2>1, <2>2
<1> DEFINE Before(o) == {p \in Ahead : p <= o}
<1>3. \A o \in Ahead : IsFiniteSet(Before(o)) /\ Cardinality(Before(o)) \in Nat
  <2> TAKE o \in Ahead
  <2>1. IsFiniteSet(1..seen)
      BY <1>1, FS_Interval
  <2>2. Before(o) \subseteq 1..seen
      BY <1>2
  <2> HIDE DEF Before
  <2> QED BY <2>1, <2>2, FS_Subset, FS_CardinalityType
<1>4. \A o \in Ahead : o \in Polled <=> Cardinality(Before(o)) <= PollBatch
    BY DEF Polled
<1>5. Polled # {}
  <2>1. PICK a \in Ahead : \A p \in Ahead : a <= p
    <3> HIDE DEF Ahead
    <3> QED BY <1>2, LeastIs
  <2>2. Before(a) = {a}
    <3>1. \A p \in Before(a) : p \in Nat /\ a \in Nat /\ p <= a /\ a <= p
        BY <1>2, <2>1
    <3>2. \A p \in Before(a) : p = a
        BY <3>1
    <3>3. a \in Before(a)
        BY <1>2
    <3> QED BY <3>2, <3>3
  <2>3. Cardinality({a}) = 1
      BY FS_Singleton
  <2> QED BY <1>1, <1>4, <2>2, <2>3
<1>6. LastPolled \in Polled /\ \A o \in Polled : o <= LastPolled
  <2>1. Polled \subseteq 0..seen
      BY <1>1, <1>2
  <2> QED BY <1>1, <1>5, <2>1, MaxIs DEF LastPolled
<1>7. ASSUME NEW o \in Ahead, o <= LastPolled PROVE o \in Polled
  <2>1. LastPolled \in Ahead /\ LastPolled \in Nat /\ o \in Nat
      BY <1>1, <1>2, <1>6
  <2>2. Before(o) \subseteq Before(LastPolled)
    <3> SUFFICES ASSUME NEW p \in Ahead, p <= o PROVE p <= LastPolled
        OBVIOUS
    <3>1. p \in Nat
        BY <1>2
    <3> QED BY <1>7, <2>1, <3>1
  <2>3. Cardinality(Before(o)) <= Cardinality(Before(LastPolled))
    <3> HIDE DEF Before
    <3> QED BY <1>3, <2>1, <2>2, FS_Subset
  <2> QED BY <1>1, <1>3, <1>4, <1>6, <2>1, <2>3
<1> QED BY <1>1, <1>2, <1>6, <1>7

LEMMA PollsKeeps == DetectionsInv /\ Polls => DetectionsInv'
<1> SUFFICES ASSUME DetectionsInv, Polls PROVE DetectionsInv'
    OBVIOUS
<1>1. /\ cursor_ts' = LastPolled /\ cursor_ts' \in Nat /\ cursor_ts' <= seen
      /\ UNCHANGED <<world, provider, channel, work, controls, tables, mishaps, fired>>
    BY PolledIs DEF Polls
<1> USE DEF DetectionsInv, world, provider, controls, tables, fired
<1>2. DetectionsTypes' /\ MessagesStand'
    BY <1>1 DEF DetectionsTypes, MessagesStand, Said, Gone
<1>3. RowsStand' /\ WorkStands' /\ AlarmsStand'
    BY <1>1 DEF RowsStand, Gone, WorkStands, AlarmsStand, Alarmed, Latched, At
<1> QED BY <1>2, <1>3

LEMMA AdministersKeeps == DetectionsInv /\ Administers => DetectionsInv'
<1> SUFFICES ASSUME DetectionsInv, Administers PROVE DetectionsInv'
    OBVIOUS
<1> USE DEF DetectionsInv, world, provider, tables, poller, fired
<1>1. /\ work \in Work /\ ignored' \subseteq Texts /\ lpr' \in BOOLEAN /\ silent' \in BOOLEAN
      /\ work' = [work EXCEPT !.barred = work.barred \cap ignored']
      /\ UNCHANGED <<world, provider, channel, tables, poller, fired>>
  <2>1. ignored \subseteq Texts /\ lpr \in BOOLEAN /\ silent \in BOOLEAN /\ work \in Work
      BY DEF DetectionsTypes
  <2>2. ignored' \subseteq Texts /\ lpr' \in BOOLEAN /\ silent' \in BOOLEAN
    <3>1. CASE UNCHANGED <<lpr, silent>>
        BY <2>1, <3>1 DEF Administers
    <3>2. CASE UNCHANGED <<ignored, silent>> /\ lpr' = ~lpr
        BY <2>1, <3>2
    <3>3. CASE UNCHANGED <<ignored, lpr>> /\ silent' = ~silent
        BY <2>1, <3>3
    <3> QED BY <3>1, <3>2, <3>3 DEF Administers
  <2> QED BY <2>1, <2>2 DEF Administers
<1>2. work' \in Work /\ work'.at = work.at /\ work'.msg = work.msg /\ work'.barred \subseteq work.barred
    BY <1>1 DEF Work
<1>3. DetectionsTypes'
    BY <1>1, <1>2 DEF DetectionsTypes
<1>4. MessagesStand'
    BY <1>1, <1>2 DEF MessagesStand, Said, Gone
<1>5. RowsStand' /\ WorkStands'
    BY <1>1, <1>2 DEF RowsStand, Gone, WorkStands
<1>6. AlarmsStand'
    BY <1>1, <1>2 DEF AlarmsStand, Alarmed, Latched, At
<1> QED BY <1>3, <1>4, <1>5, <1>6

\* A restart forgets what is under way; an alert at the latch is then one whose latch is lost.
LEMMA ApiComesBackKeeps == DetectionsInv /\ ApiComesBack => DetectionsInv'
<1> SUFFICES ASSUME DetectionsInv, ApiComesBack PROVE DetectionsInv'
    OBVIOUS
<1>0. /\ DetectionsTypes /\ MessagesStand /\ RowsStand /\ WorkStands /\ AlarmsStand
      /\ UNCHANGED <<kind, seen, thing, controls, tables, alarms>>
      /\ session' \in {"off", "fetching"} /\ pending' = {} /\ stray' = {} /\ late' = FALSE
      /\ channel' = <<>> /\ cursor_ts' = seen
      /\ work' \in Work /\ work'.at = "idle" /\ work'.msg = NoMessage /\ work'.barred = {}
  <2>1. Rests => work' \in Work /\ work'.at = "idle" /\ work'.msg = NoMessage /\ work'.barred = {}
      BY RestsIs
  <2> QED BY <2>1 DEF DetectionsInv, ApiComesBack, world
<1>1. seen \in Nat /\ channel' \in Seq(Messages) /\ Len(channel)' = 0
    BY <1>0, SeenIs
<1>2. /\ unlatched' = IF work.at = "latch" THEN [unlatched EXCEPT ![work.msg.of] = @ + 1] ELSE unlatched
      /\ unfired' = unfired \cup (IF work.at = "alert" THEN {work.msg.of} ELSE {})
    BY DEF ApiComesBack
<1>3. unlatched' \in [Things -> Nat] /\ alarms' \in [Things -> Nat]
  <2>1. unlatched \in [Things -> Nat] /\ alarms \in [Things -> Nat]
      BY <1>0 DEF DetectionsTypes
  <2>2. CASE work.at = "latch"
    <3>1. work.msg.of \in Things
        BY <1>0, <2>2 DEF MessagesStand, Messages
    <3> QED BY <1>0, <1>2, <2>1, <2>2, <3>1
  <2>3. CASE work.at # "latch"
      BY <1>0, <1>2, <2>1, <2>3
  <2> QED BY <2>2, <2>3
<1>4. DetectionsTypes'
  <2>1. cursor_ts' \in Nat /\ cursor_ts' <= seen'
      BY <1>0, <1>1
  <2> QED BY <1>0, <1>1, <1>3, <2>1 DEF DetectionsTypes, controls, tables
<1>5. MessagesStand'
    BY <1>0, <1>1 DEF MessagesStand
<1>6. RowsStand' /\ WorkStands'
    BY <1>0, BlanksAre DEF RowsStand, WorkStands, Gone, tables
<1>7. AlarmsStand'
  <2> SUFFICES ASSUME NEW o \in Things PROVE Alarmed(o)'
      BY DEF AlarmsStand
  <2>1. /\ ~At(o, "latch")' /\ ~At(o, "alert")' /\ (Latched(o)' <=> read[o].alerted)
      BY <1>0 DEF At, Latched, tables
  <2>2. /\ Alarmed(o) /\ alarms[o] \in Nat /\ unlatched[o] \in Nat /\ alarms' = alarms /\ read' = read
      BY <1>0 DEF AlarmsStand, DetectionsTypes, tables
  <2>3. CASE At(o, "latch")
    <3>1. ~read[o].alerted /\ Latched(o) /\ ~At(o, "alert")
        BY <1>0, <2>3 DEF WorkStands, At, Latched
    <3>2. unlatched'[o] = unlatched[o] + 1
        BY <1>0, <1>2, <2>3 DEF At, DetectionsTypes
    <3>3. alarms[o] > 0
        BY <2>2, <3>1 DEF Alarmed
    <3> QED BY <2>1, <2>2, <3>1, <3>2, <3>3 DEF Alarmed
  <2>4. CASE ~At(o, "latch")
    <3>1. unlatched'[o] = unlatched[o]
        BY <1>0, <1>2, <2>4 DEF At, DetectionsTypes
    <3>2. Latched(o)' <=> Latched(o)
        BY <2>1, <2>4 DEF Latched
    <3>3. (At(o, "alert") => o \in unfired') /\ (o \in unfired => o \in unfired')
        BY <1>2 DEF At
    <3> QED BY <2>1, <2>2, <3>1, <3>2, <3>3 DEF Alarmed
  <2> QED BY <2>3, <2>4
<1> QED BY <1>4, <1>5, <1>6, <1>7 DEF DetectionsInv

LEMMA DetectionsStep == DetectionsInv /\ [DetectionsNext]_detections => DetectionsInv'
<1> SUFFICES ASSUME DetectionsInv, [DetectionsNext]_detections PROVE DetectionsInv'
    OBVIOUS
<1>1. CASE UNCHANGED detections
  <2> USE <1>1 DEF detections
  <2>1. DetectionsTypes' /\ MessagesStand'
      BY DEF DetectionsInv, DetectionsTypes, MessagesStand, Said, Gone
  <2>2. RowsStand' /\ WorkStands' /\ AlarmsStand'
      BY DEF DetectionsInv, RowsStand, Gone, WorkStands, AlarmsStand, Alarmed, Latched, At
  <2> QED BY <2>1, <2>2 DEF DetectionsInv
<1>2. ASSUME NEW o \in Things, Reports(o) PROVE DetectionsInv'
  <2>1. ASSUME NEW text \in Texts \cup {NoText}, Posts(o, text) PROVE DetectionsInv'
    <3>1. "end" \in Lives /\ text \in Text
        BY DEF Lives, Text
    <3> QED BY <2>1, <3>1, TellsKeeps DEF Posts
  <2>2. ASSUME NEW text \in Texts \cup {NoText}, NEW life \in Lives, Publishes(o, life, text) PROVE DetectionsInv'
    <3>1. text \in Text
        BY DEF Text
    <3> QED BY <2>2, <3>1, TellsKeeps DEF Publishes
  <2> QED BY <1>2, <2>1, <2>2, RecordsKeeps DEF Reports, Lives
<1>3. CASE IngestStep
    BY <1>3, TakesKeeps, WritesEventKeeps, GatesKeeps, StoresReadKeeps, AlertsKeeps, LatchesKeeps DEF IngestStep
<1> QED BY <1>1, <1>2, <1>3, AppearsKeeps, ProviderKeeps, JanitorKeeps, PollsKeeps, AdministersKeeps, ApiComesBackKeeps
        DEF DetectionsNext, ApiTaskStep

LEMMA DetectionsMean == DetectionsInv => DetectionsTypeOK /\ AlertsMatchReads
<1> SUFFICES ASSUME DetectionsInv PROVE DetectionsTypeOK /\ AlertsMatchReads
    OBVIOUS
<1>1. \A o \in Things : alarms[o] \in Nat /\ unlatched[o] \in Nat /\ Alarmed(o)
    BY DEF DetectionsInv, DetectionsTypes, AlarmsStand
<1>2. \A o \in Things : unlatched[o] <= alarms[o] /\ alarms[o] <= 1 + unlatched[o]
    BY <1>1 DEF Alarmed
<1>3. cursor_ts \in 0..seen
    BY SeenIs DEF DetectionsInv, DetectionsTypes
<1>4. DetectionsTypeOK
    BY <1>2, <1>3 DEF DetectionsInv, DetectionsTypes, Work, RowsStand, DetectionsTypeOK
<1>5. AlertsMatchReads
    BY <1>1, <1>2 DEF Alarmed, At, AlertsMatchReads
<1> QED BY <1>4, <1>5

-----------------------------------------------------------------------------

LEMMA EndsImprove ==
    ASSUME DetectionsInv, [DetectionsNext]_detections
    PROVE  EndsOnlyImprove
<1>0. /\ events_row \in [Things -> EventRow \cup {NoRow}]
      /\ \A o \in Things : events_row[o].end \in {"open", "guess", "real"}
    BY BlanksAre DEF DetectionsInv, DetectionsTypes, EventRow
<1>1. \A o \in Things : \/ events_row'[o].end = events_row[o].end \/ events_row'[o].end = "real"
                        \/ events_row[o].end = "open" /\ events_row'[o].end = "guess"
  <2>1. CASE UNCHANGED events_row
      BY <1>0, <2>1
  <2>2. ASSUME NEW o \in Things, NEW m \in Messages, events_row' = [events_row EXCEPT ![o] = Upserted(@, m)]
        PROVE  \A p \in Things : events_row'[p].end = events_row[p].end \/ events_row'[p].end = "real"
    <3>1. Upserted(events_row[o], m).end \in {events_row[o].end, "real"}
        BY <1>0, UpsertedIs
    <3> QED BY <1>0, <2>2, <3>1
  <2>3. CASE WritesEvent
    <3>1. work.msg \in Messages /\ work.msg.of \in Things
        BY <2>3 DEF WritesEvent, DetectionsInv, MessagesStand, Messages
    <3>2. \/ events_row' = [events_row EXCEPT ![work.msg.of] = Upserted(@, work.msg)]
          \/ UNCHANGED events_row
        BY <2>3 DEF WritesEvent
    <3> QED BY <2>1, <2>2, <3>1, <3>2
  <2>4. ASSUME NEW o \in Things, NEW life \in {"start", "end"}, Records(o, life)
        PROVE  \A p \in Things : events_row'[p].end = events_row[p].end \/ events_row'[p].end = "real"
    <3>1. Message(o, life, NoText, TRUE) \in Messages
      <4>1. life \in Lives /\ NoText \in Text
          BY DEF Lives, Text
      <4> QED BY <4>1, MessageIs
    <3> QED BY <2>1, <2>2, <2>4, <3>1 DEF Records
  <2>5. CASE GrowsStale
    <3>1. \A x \in EventRow \cup {NoRow} : [x EXCEPT !.fresh = FALSE].end = x.end
        BY DEF EventRow, NoRow
    <3> QED BY <1>0, <2>5, <3>1 DEF GrowsStale
  <2>6. CASE JanitorCloses
    <3>1. \A x \in EventRow : [x EXCEPT !.end = "guess", !.life = "end"].end = "guess"
        BY DEF EventRow
    <3>2. \A o \in Things : Stale(o) => events_row[o] \in EventRow /\ events_row[o].end = "open"
        BY <1>0 DEF Stale, Open
    <3> QED BY <1>0, <2>6, <3>1, <3>2 DEF JanitorCloses
  <2>7. \/ UNCHANGED events_row \/ WritesEvent \/ GrowsStale \/ JanitorCloses
        \/ \E o \in Things, life \in {"start", "end"} : Records(o, life)
      BY Zenon DEF DetectionsNext, ApiTaskStep, ProviderStep, IngestStep, Reports, detections, tables, Appears, Posts,
         Publishes, Fetches, StoppedFetches, Backfills, Subscribes, Reconfigures, Takes, Gates, StoresRead, Alerts, Latches,
         Polls, Administers, ApiComesBack
  <2> QED BY <2>1, <2>3, <2>4, <2>5, <2>6, <2>7
<1> QED BY <1>0, <1>1 DEF EndsOnlyImprove, EndRank

LEMMA IgnoredIsKeptOut ==
    ASSUME DetectionsInv, [DetectionsNext]_detections
    PROVE  IgnoredStaysOut
<1>0. /\ events_row \in [Things -> EventRow \cup {NoRow}]
      /\ read \in [Things -> [text : Text, alerted : BOOLEAN]]
      /\ NoText \notin work.barred /\ work.msg.text \notin work.barred
    BY BlanksAre DEF DetectionsInv, DetectionsTypes, WorkStands, Work
<1>1. ASSUME NEW o \in Things, NEW m \in Messages, m.text \notin work.barred,
             events_row' = [events_row EXCEPT ![o] = Upserted(@, m)], NEW p \in Things,
             events_row'[p].text # events_row[p].text
      PROVE  events_row'[p].text \notin work.barred
  <2>1. Upserted(events_row[o], m).text \in {m.text, NoText}
      BY <1>0, UpsertedIs
  <2> QED BY <1>0, <1>1, <2>1
<1>2. ASSUME NEW o \in Things, events_row'[o].text # events_row[o].text
      PROVE  events_row'[o].text \notin work.barred
  <2>1. CASE WritesEvent
    <3>1. work.msg \in Messages /\ work.msg.of \in Things
        BY <2>1 DEF WritesEvent, DetectionsInv, MessagesStand, Messages
    <3> QED BY <1>0, <1>1, <1>2, <2>1, <3>1 DEF WritesEvent
  <2>2. ASSUME NEW q \in Things, NEW life \in {"start", "end"}, Records(q, life)
        PROVE  events_row'[o].text \notin work.barred
    <3>1. Message(q, life, NoText, TRUE) \in Messages /\ Message(q, life, NoText, TRUE).text = NoText
      <4>1. life \in Lives /\ NoText \in Text
          BY DEF Lives, Text
      <4> QED BY <4>1, MessageIs
    <3> QED BY <1>0, <1>1, <1>2, <2>2, <3>1 DEF Records
  <2>3. CASE GrowsStale
    <3>1. \A x \in EventRow \cup {NoRow} : [x EXCEPT !.fresh = FALSE].text = x.text
        BY DEF EventRow, NoRow
    <3> QED BY <1>0, <1>2, <2>3, <3>1 DEF GrowsStale
  <2>4. CASE JanitorCloses
    <3>1. \A x \in EventRow : [x EXCEPT !.end = "guess", !.life = "end"].text = x.text
        BY DEF EventRow
    <3>2. \A q \in Things : Stale(q) => events_row[q] \in EventRow
        BY <1>0 DEF Stale, Open
    <3> QED BY <1>0, <1>2, <2>4, <3>1, <3>2 DEF JanitorCloses
  <2>5. \/ UNCHANGED events_row \/ WritesEvent \/ GrowsStale \/ JanitorCloses
        \/ \E q \in Things, life \in {"start", "end"} : Records(q, life)
      BY Zenon DEF DetectionsNext, ApiTaskStep, ProviderStep, IngestStep, Reports, detections, tables, Appears, Posts,
         Publishes, Fetches, StoppedFetches, Backfills, Subscribes, Reconfigures, Takes, Gates, StoresRead, Alerts, Latches,
         Polls, Administers, ApiComesBack
  <2> QED BY <1>2, <2>1, <2>2, <2>3, <2>4, <2>5
<1>3. ASSUME NEW o \in Things, read'[o].text # read[o].text
      PROVE  read'[o].text \notin work.barred
  <2>1. CASE StoresRead
    <3>1. read' = [read EXCEPT ![work.msg.of].text = work.msg.text] \/ UNCHANGED read
        BY <2>1 DEF StoresRead
    <3> QED BY <1>0, <1>3, <3>1
  <2>2. CASE Latches
    <3>1. read' = [read EXCEPT ![work.msg.of].alerted = TRUE] \/ UNCHANGED read
        BY <2>2 DEF Latches
    <3> QED BY <1>0, <1>3, <3>1
  <2>3. UNCHANGED read \/ StoresRead \/ Latches
      BY Zenon DEF DetectionsNext, ApiTaskStep, ProviderStep, IngestStep, Reports, detections, tables, Appears, Posts,
         Publishes, Fetches, StoppedFetches, Backfills, Subscribes, Reconfigures, Takes, WritesEvent, Gates, Alerts,
         GrowsStale, JanitorCloses, Records, Polls, Administers, ApiComesBack
  <2> QED BY <1>3, <2>1, <2>2, <2>3
<1> QED BY <1>2, <1>3 DEF IgnoredStaysOut

LEMMA StartsHeeded ==
    ASSUME DetectionsInv, [DetectionsNext]_detections
    PROVE  StartsAreHeeded
<1> SUFFICES ASSUME NEW o \in Ahead, events_row[o].life = "start", o <= cursor_ts', ~silent, ~ApiComesBack
             PROVE  o \in heeded'
    BY DEF StartsAreHeeded
<1>1. CASE Polls
  <2>1. o \in Polled
      BY <1>1, PolledIs DEF Polls
  <2> QED BY <1>1, <2>1 DEF Polls
<1>2. CASE UNCHANGED cursor_ts
  <2>1. o > cursor_ts /\ o \in Nat /\ cursor_ts \in Nat
      BY SeenIs DEF Ahead, DetectionsInv, DetectionsTypes
  <2> QED BY <1>2, <2>1
<1>3. Polls \/ UNCHANGED cursor_ts
    BY Zenon DEF DetectionsNext, ApiTaskStep, ProviderStep, IngestStep, Reports, detections, poller, Appears, Posts,
       Publishes, Fetches, StoppedFetches, Backfills, Subscribes, Reconfigures, Takes, WritesEvent, Gates, StoresRead,
       Alerts, Latches, GrowsStale, JanitorCloses, Records, Administers
<1> QED BY <1>1, <1>2, <1>3

LEMMA DetectionsKeepWord ==
    DetectionsInv /\ [DetectionsNext]_detections
        => [EndsOnlyImprove /\ IgnoredStaysOut /\ StartsAreHeeded]_detections
BY EndsImprove, IgnoredIsKeptOut, StartsHeeded

-----------------------------------------------------------------------------
(* The outage alerts.                                                          *)

LEMMA DetectionsStand == DetectionsInit /\ [][DetectionsNext]_detections => []DetectionsInv
BY DetectionsStart, DetectionsStep, PTL

LEMMA DetectionsKeepWordAlways == DetectionsInit /\ [][DetectionsNext]_detections => DetectionsKeepTheirWord
BY DetectionsStand, DetectionsKeepWord, PTL DEF DetectionsKeepTheirWord

-----------------------------------------------------------------------------
(* The outage alerts.                                                          *)

AllRows == insert \cup flying \cup events
AlertRow == [ts : 1..stamps, of : 0..outages]

HealthTypes ==
    /\ outages \in Outages \cup {0} /\ outage \in {0, outages} /\ (stale => outage # 0)
    /\ stamps \in Nat /\ cursor \in Nat /\ cursor <= stamps
    /\ insert \subseteq AlertRow /\ flying \subseteq AlertRow /\ events \subseteq AlertRow
    /\ told \subseteq 1..outages /\ dropped \subseteq 1..outages

OneStampEach == \A q, r \in AllRows : q.ts = r.ts => q = r

\* The rows of a batch lie between the cursor and where it goes when the batch is done.
BatchStands ==
    /\ batch \in [rows : SUBSET AlertRow, last : Nat, open : BOOLEAN] /\ batch.last <= stamps
    /\ \A r \in batch.rows : r.ts \in cursor + 1..batch.last

HealthInv == HealthTypes /\ OneStampEach /\ BatchStands

LEMMA OutagesCount == HealthTypes => outages \in Nat
BY HealthAssumption DEF HealthTypes

LEMMA HealthStart == HealthInit => HealthInv
<1> SUFFICES ASSUME HealthInit PROVE HealthInv
    OBVIOUS
<1>1. HealthTypes /\ OneStampEach
    BY DEF HealthInit, HealthTypes, OneStampEach, AllRows
<1>2. batch.rows = {} /\ batch.last = 0 /\ batch.open = FALSE /\ batch \in [rows : SUBSET AlertRow, last : Nat, open : BOOLEAN]
    BY DEF HealthInit, NoBatch
<1>3. BatchStands
    BY <1>2 DEF HealthInit, BatchStands
<1> QED BY <1>1, <1>3 DEF HealthInv

\* No batch, or one that is read afresh.
LEMMA NoBatchIs == NoBatch.rows = {} /\ NoBatch.last = 0 /\ NoBatch \in [rows : SUBSET AlertRow, last : Nat, open : BOOLEAN]
BY DEF NoBatch

\* What happens to camera, settings and graces leaves the rows alone.
LEMMA WorldKeepsHealth ==
    ASSUME HealthInv, UNCHANGED <<table, insert, cursor, batch, told, dropped>>,
           outages' \in Outages \cup {0}, outages' >= outages, outage' \in {0, outages'}, stale' => outage' # 0
    PROVE  HealthInv'
<1>1. outages \in Nat /\ outages' \in Nat
    BY OutagesCount, HealthAssumption DEF HealthInv
<1>2. AlertRow \subseteq AlertRow' /\ 1..outages \subseteq 1..outages'
    BY <1>1 DEF AlertRow, table
<1>3. HealthTypes'
    BY <1>2 DEF HealthInv, HealthTypes, table
<1>4. OneStampEach'
    BY DEF HealthInv, OneStampEach, AllRows, table
<1>5. BatchStands'
    BY <1>2 DEF HealthInv, BatchStands, table
<1> QED BY <1>3, <1>4, <1>5 DEF HealthInv

\* A row gets a stamp no other has.
LEMMA StampKeeps ==
    ASSUME HealthInv, UNCHANGED <<camera, events, cursor, batch, told, dropped>>, stamps' = stamps + 1,
           NEW of \in 0..outages,
           \/ insert' = {[ts |-> stamps', of |-> of]} /\ UNCHANGED flying
           \/ flying' = flying \cup {[ts |-> stamps', of |-> of]} /\ UNCHANGED insert
    PROVE  HealthInv'
<1> DEFINE new == [ts |-> stamps + 1, of |-> of]
<1>0. outages \in Nat /\ outages' = outages /\ stamps \in Nat /\ HealthTypes
    BY OutagesCount DEF HealthInv, HealthTypes, camera
<1>1. AlertRow \subseteq AlertRow' /\ new \in AlertRow' /\ new.ts = stamps + 1
      /\ \A r \in AlertRow : r.ts <= stamps /\ r.ts \in Nat
    BY <1>0 DEF AlertRow
<1>2. AllRows' \subseteq AllRows \cup {new} /\ AllRows \subseteq AlertRow
    BY <1>0 DEF AllRows, HealthTypes
<1>3. insert' \subseteq AlertRow' /\ flying' \subseteq AlertRow'
    BY <1>0, <1>1 DEF HealthTypes
<1> HIDE DEF new
<1>4. HealthTypes'
    BY <1>0, <1>1, <1>3 DEF HealthTypes, camera
<1>5. OneStampEach'
    BY <1>0, <1>1, <1>2 DEF HealthInv, OneStampEach
<1>6. BatchStands'
    BY <1>0, <1>1 DEF HealthInv, BatchStands
<1> QED BY <1>4, <1>5, <1>6 DEF HealthInv

\* Rows are committed, or lost with the call that brought them.
LEMMA RowsMoveKeeps ==
    ASSUME HealthInv, UNCHANGED <<camera, stamps>>, AllRows' \subseteq AllRows,
           cursor' \in Nat, cursor' <= stamps, told' \subseteq 1..outages, dropped' \subseteq 1..outages, BatchStands'
    PROVE  HealthInv'
<1>1. AlertRow' = AlertRow
    BY DEF AlertRow, camera
<1>2. HealthTypes'
    BY <1>1 DEF HealthInv, HealthTypes, AllRows, camera
<1>3. OneStampEach'
    BY DEF HealthInv, OneStampEach
<1> QED BY <1>2, <1>3 DEF HealthInv

\* Whom a row is of.
LEMMA OwnersAre ==
    ASSUME HealthInv, NEW S, S \subseteq AlertRow
    PROVE  {r.of : r \in S} \ {0} \subseteq 1..outages
<1>1. outages \in Nat
    BY OutagesCount DEF HealthInv
<1> QED BY <1>1 DEF AlertRow

LEMMA InsertEndsKeeps == HealthInv /\ InsertEnds => HealthInv'
<1> SUFFICES ASSUME HealthInv, InsertEnds PROVE HealthInv'
    OBVIOUS
<1>0. HealthTypes /\ BatchStands
    BY DEF HealthInv
<1>1. UNCHANGED <<camera, stamps, cursor, batch, told>> /\ AllRows' \subseteq AllRows
    BY DEF InsertEnds, AllRows
<1>2. Overtaken(insert) \subseteq 1..outages
  <2>1. {r \in insert : r.ts <= cursor} \subseteq AlertRow
      BY <1>0 DEF HealthTypes
  <2> QED BY <2>1, OwnersAre DEF Overtaken
<1>3. dropped' \subseteq 1..outages
    BY <1>0, <1>2 DEF InsertEnds, HealthTypes
<1>4. BatchStands'
    BY <1>0, <1>1 DEF BatchStands, AlertRow, camera
<1> QED BY <1>0, <1>1, <1>3, <1>4, RowsMoveKeeps DEF HealthTypes

LEMMA OtherLandsKeeps == HealthInv /\ OtherLands => HealthInv'
<1> SUFFICES ASSUME HealthInv, OtherLands PROVE HealthInv'
    OBVIOUS
<1>1. UNCHANGED <<camera, stamps, cursor, batch, told, dropped>> /\ AllRows' \subseteq AllRows
    BY DEF OtherLands, AllRows, watchdog, engine
<1>2. BatchStands'
    BY <1>1 DEF HealthInv, BatchStands, AlertRow, camera
<1> QED BY <1>1, <1>2, RowsMoveKeeps DEF HealthInv, HealthTypes

\* What is read lies past the cursor, the last of it is where the cursor goes.
LEMMA SinceIs ==
    ASSUME HealthInv, Since # {}
    PROVE  LET last == Max({r.ts : r \in Since})
           IN  /\ last \in Nat /\ last <= stamps /\ Since \subseteq AlertRow
               /\ \A r \in Since : r.ts \in cursor + 1..last
<1> DEFINE S == {r.ts : r \in Since}
<1>1. /\ stamps \in Nat /\ cursor \in Nat /\ Since \subseteq AlertRow /\ \A r \in Since : r.ts > cursor
    BY DEF HealthInv, HealthTypes, Since
<1>2. S \subseteq 0..stamps /\ S # {}
  <2>1. \A r \in Since : r.ts \in 0..stamps
      BY <1>1 DEF AlertRow
  <2> HIDE DEF Since
  <2> QED BY <2>1
<1>3. \A r \in Since : r.ts \in S
    OBVIOUS
<1>n. \A x \in S : x \in Nat /\ x <= stamps
  <2> HIDE DEF S
  <2> QED BY <1>1, <1>2
<1> HIDE DEF S
<1>4. Max(S) \in S /\ \A j \in S : j <= Max(S)
    BY <1>1, <1>2, MaxIs
<1>5. Max(S) \in Nat /\ Max(S) <= stamps
    BY <1>n, <1>4
<1>6. \A r \in Since : r.ts \in cursor + 1..Max(S)
  <2> SUFFICES ASSUME NEW r \in Since PROVE r.ts \in cursor + 1..Max(S)
      OBVIOUS
  <2>1. r.ts \in S /\ r.ts <= Max(S) /\ r.ts > cursor
      BY <1>1, <1>3, <1>4
  <2>2. r.ts \in Nat
      BY <1>n, <2>1
  <2> QED BY <1>1, <1>5, <2>1, <2>2
<1> QED BY <1>1, <1>5, <1>6 DEF S

LEMMA ReadsKeeps == HealthInv /\ Reads => HealthInv'
<1> SUFFICES ASSUME HealthInv, Reads PROVE HealthInv'
    OBVIOUS
<1> DEFINE last == Max({r.ts : r \in Since})
<1>0. /\ UNCHANGED <<camera, stamps, told>> /\ AllRows' = AllRows /\ HealthTypes /\ BatchStands
      /\ batch = NoBatch /\ Since # {}
    BY DEF Reads, watchdog, table, AllRows, HealthInv
<1>1. last \in Nat /\ last <= stamps /\ Since \subseteq AlertRow /\ \A r \in Since : r.ts \in cursor + 1..last
    BY <1>0, SinceIs
<1>2. {r.of : r \in Since} \ {0} \subseteq 1..outages
    BY <1>1, OwnersAre
<1>3. AlertRow' = AlertRow
    BY <1>0 DEF AlertRow, camera
<1>4. CASE /\ cursor' = last /\ dropped' = dropped \cup ({r.of : r \in Since} \ {0}) /\ UNCHANGED batch
  <2> HIDE DEF last
  <2>1. BatchStands'
      BY <1>0, <1>3, <1>4, NoBatchIs DEF BatchStands
  <2> QED BY <1>0, <1>1, <1>2, <1>4, <2>1, RowsMoveKeeps DEF HealthTypes
<1>5. CASE batch' = [rows |-> Since, last |-> last, open |-> rule /\ ~quiet] /\ UNCHANGED <<cursor, dropped>>
  <2> DEFINE open == rule /\ ~quiet
  <2>1. open \in BOOLEAN
      OBVIOUS
  <2> HIDE DEF last, open, Since
  <2>2. batch' = [rows |-> Since, last |-> last, open |-> open]
      BY <1>5 DEF open
  <2>3. batch'.rows = Since /\ batch'.last = last /\ batch' \in [rows : SUBSET AlertRow, last : Nat, open : BOOLEAN]
      BY <1>1, <2>1, <2>2
  <2>4. BatchStands'
      BY <1>0, <1>1, <1>3, <1>5, <2>3 DEF BatchStands
  <2> QED BY <1>0, <1>5, <2>4, RowsMoveKeeps DEF HealthTypes
<1> QED BY <1>4, <1>5 DEF Reads

LEMMA DispatchesKeeps == HealthInv /\ Dispatches => HealthInv'
<1> SUFFICES ASSUME HealthInv, Dispatches PROVE HealthInv'
    OBVIOUS
<1>0. /\ UNCHANGED <<camera, stamps>> /\ AllRows' = AllRows /\ HealthTypes /\ BatchStands
      /\ outages \in Nat /\ AlertRow' = AlertRow
    BY OutagesCount DEF Dispatches, watchdog, table, AllRows, HealthInv, AlertRow, camera
<1>1. PICK r \in batch.rows :
          /\ told' \in {told, told \cup {r.of}} /\ (told' # told => r.of # 0)
          /\ dropped' = dropped \cup Missed(r) \cup ({r.of} \ (told' \cup {0}))
          /\ \/ batch' = NoBatch /\ cursor' = batch.last
             \/ batch' = [batch EXCEPT !.rows = @ \ {r}] /\ UNCHANGED cursor
    BY DEF Dispatches
<1>2. r \in AlertRow /\ r.of \in 0..outages
    BY <1>0 DEF BatchStands, AlertRow
<1>3. Missed(r) \subseteq 1..outages
  <2>1. {q \in events : q.ts \in cursor + 1..batch.last} \subseteq AlertRow
      BY <1>0 DEF HealthTypes
  <2>2. {q.of : q \in {q \in events : q.ts \in cursor + 1..batch.last}} \ {0} \subseteq 1..outages
      BY <2>1, OwnersAre
  <2>3. Missed(r) \subseteq {q.of : q \in {q \in events : q.ts \in cursor + 1..batch.last}} \ {0}
      BY DEF Missed
  <2> QED BY <2>2, <2>3
<1>4. told' \subseteq 1..outages /\ dropped' \subseteq 1..outages
    BY <1>0, <1>1, <1>2, <1>3 DEF HealthTypes
<1>5. CASE batch' = NoBatch /\ cursor' = batch.last
  <2>0. batch'.rows = {} /\ batch'.last = 0 /\ batch' \in [rows : SUBSET AlertRow, last : Nat, open : BOOLEAN]
      BY <1>5, NoBatchIs
  <2>1. BatchStands'
      BY <1>0, <2>0 DEF BatchStands, HealthTypes
  <2>2. cursor' \in Nat /\ cursor' <= stamps
      BY <1>0, <1>5 DEF BatchStands
  <2> QED BY <1>0, <1>4, <2>1, <2>2, RowsMoveKeeps
<1>6. CASE batch' = [batch EXCEPT !.rows = @ \ {r}] /\ UNCHANGED cursor
  <2>1. /\ batch' \in [rows : SUBSET AlertRow, last : Nat, open : BOOLEAN] /\ batch'.last = batch.last
        /\ batch'.rows \subseteq batch.rows
      BY <1>0, <1>6 DEF BatchStands
  <2>2. BatchStands'
      BY <1>0, <1>6, <2>1 DEF BatchStands
  <2> QED BY <1>0, <1>4, <1>6, <2>2, RowsMoveKeeps DEF HealthTypes
<1> QED BY <1>1, <1>5, <1>6

LEMMA ApiRestartsKeeps == HealthInv /\ ApiRestarts => HealthInv'
<1> SUFFICES ASSUME HealthInv, ApiRestarts PROVE HealthInv'
    OBVIOUS
<1>1. /\ UNCHANGED <<camera, stamps, told, dropped>> /\ AllRows' \subseteq AllRows /\ cursor' = stamps /\ batch' = NoBatch
      /\ stamps \in Nat /\ HealthTypes
    BY DEF ApiRestarts, AllRows, HealthInv, HealthTypes
<1>2. AlertRow' = AlertRow
    BY <1>1 DEF AlertRow, camera
<1>3. BatchStands'
    BY <1>1, <1>2, NoBatchIs DEF BatchStands
<1> QED BY <1>1, <1>3, RowsMoveKeeps DEF HealthTypes

LEMMA HealthStep == HealthInv /\ [HealthNext]_health => HealthInv'
<1> SUFFICES ASSUME HealthInv, [HealthNext]_health PROVE HealthInv'
    OBVIOUS
<1>0. /\ outages \in Nat /\ outages \in Outages \cup {0} /\ outage \in {0, outages} /\ (stale => outage # 0)
    BY OutagesCount DEF HealthInv, HealthTypes
<1>1. CASE UNCHANGED <<camera, table, insert, cursor, batch, told, dropped>>
    BY <1>0, <1>1, WorldKeepsHealth DEF camera
<1>2. CASE CameraFails
    BY <1>0, <1>2, WorldKeepsHealth DEF CameraFails, watchdog, engine
<1>3. CASE CameraReturns
    BY <1>0, <1>3, WorldKeepsHealth DEF CameraReturns, watchdog, engine
<1>4. CASE GoesStale
    BY <1>0, <1>4, WorldKeepsHealth DEF GoesStale, watchdog, engine
<1>5. CASE UNCHANGED health \/ GraceEnds \/ RecorderRestarts \/ CooldownEnds \/ SettingsChange \/ CheckClears
    BY <1>1, <1>5, Zenon DEF health, camera, table, GraceEnds, RecorderRestarts, CooldownEnds, SettingsChange,
       CheckClears, watchdog, engine
<1>6. CASE CheckFires
  <2>1. outage \in 0..outages
      BY <1>0
  <2> QED BY <1>6, <2>1, StampKeeps DEF CheckFires, engine
<1>7. CASE OtherStamps
  <2>1. 0 \in 0..outages
      BY <1>0
  <2> QED BY <1>7, <2>1, StampKeeps DEF OtherStamps, engine, watchdog
<1> QED BY <1>2, <1>3, <1>4, <1>5, <1>6, <1>7, InsertEndsKeeps, OtherLandsKeeps, ReadsKeeps, DispatchesKeeps,
           ApiRestartsKeeps DEF HealthNext, TimePasses, WatchStep, EngineStep

LEMMA HealthMeans == HealthInv => HealthTypeOK
<1> SUFFICES ASSUME HealthInv PROVE HealthTypeOK
    OBVIOUS
<1>1. insert \cup flying \cup events \subseteq [ts : 1..stamps, of : 0..outages]
    BY DEF HealthInv, HealthTypes, AlertRow
<1> QED BY <1>1 DEF HealthInv, HealthTypes, OneStampEach, AllRows, BatchStands, HealthTypeOK

LEMMA HealthStands == HealthInit /\ [][HealthNext]_health => []HealthInv
BY HealthStart, HealthStep, PTL

-----------------------------------------------------------------------------
(* The whole.                                                                  *)

\* Whichever part moves, each is a behaviour of its own specification, fairness aside.
LEMMA PartsRun ==
    Spec => /\ ExportsInit /\ [][ExportsNext]_exports
            /\ HealthInit /\ [][HealthNext]_health
            /\ DetectionsInit /\ [][DetectionsNext]_detections
<1>1. Init => ExportsInit /\ HealthInit /\ DetectionsInit
    BY DEF Init
<1>2. [Next]_vars => [ExportsNext]_exports /\ [HealthNext]_health /\ [DetectionsNext]_detections
    BY DEF Next, vars
<1> QED BY <1>1, <1>2, PTL DEF Spec

\* Type correctness: tokens and workers come and go together, and nothing is there of a job
\* that has not been created (export.rs create_export, cancel_job, fail_job).
THEOREM ExportsTypeCorrect == ExportsSpec => []ExportsTypeOK
BY ExportsMean, ExportsStand, PTL DEF ExportsSpec

\* A client that polls a job sees the truth (export.rs run_export_job, main.rs rehydration): a
\* job under way has a worker that will end it, and one that is done has its files unless a
\* sweep took them, through cancels, failures, restarts with stale rows, and sweeps.
THEOREM MapIsTrue == ExportsSpec => []JobsAreTrue
<1>1. ExportsInv => JobsAreTrue
  BY DEF ExportsInv, JobInv, Told, JobsAreTrue, ActiveHasWorker, DoneHasFiles
<1> QED BY <1>1, ExportsStand, PTL DEF ExportsSpec

\* export.rs plan_export_evictions ("running jobs are never evicted") and wait_or_cancel: of a job
\* under way that nobody has cancelled no sweep takes entry or files, though it lists the jobs
\* some steps before it takes them, and a cancel that comes before the last look is honoured.
THEOREM LiveWorkIsKept == ExportsSpec => JobsKeepTheirWord
BY JobsKeepWord, PTL DEF ExportsSpec

\* detection_ingester.rs, db.rs upsert_plate_read: an alert "fires exactly once per read", and once
\* more for each latch that was lost; a watched text is passed over only if its alert failed or was
\* cut short, whichever updates refine the read and in whatever order they arrive.
THEOREM AlertsAreExact == DetectionsSpec => []AlertsMatchReads
BY DetectionsMean, DetectionsStand, PTL DEF DetectionsSpec

\* db.rs upsert_detection_event, the janitor and the engine's cursor: whatever order live messages, backfills, the janitor and
\* restarts reach a row in, its end only gets better, no ignored text enters it, and the engine
\* passes no start over.
THEOREM DetectionsAreKept == DetectionsSpec => DetectionsKeepTheirWord
BY DetectionsKeepWordAlways, PTL DEF DetectionsSpec

\* The API keeps its types: entries, rows, tokens and workers of the jobs, latch, rows and
\* cursor of the alerts, things, rows and reads of the detections.
THEOREM ApiTypeCorrect == Spec => []ApiTypeOK
<1>1. ExportsInv /\ HealthInv /\ DetectionsInv => ApiTypeOK
    BY ExportsMean, HealthMeans, DetectionsMean DEF ApiTypeOK
<1> QED BY <1>1, PartsRun, ExportsStand, HealthStands, DetectionsStand, PTL

\* Jobs and detections keep their word side by side.
THEOREM WordIsKept == Spec => ApiKeepsItsWord
BY PartsRun, JobsKeepWord, DetectionsKeepWordAlways, PTL DEF ApiKeepsItsWord
=============================================================================
