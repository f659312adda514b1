----------------------------- MODULE ExportJobs -----------------------------
(* The export jobs of the API (export.rs, export_store.rs, main.rs): the map the  *)
(* clients poll, the row behind each job, the worker that runs ffmpeg, cancelling, *)
(* the two sweeps of a tick, and the restart.                                     *)
EXTENDS Integers, FiniteSets

CONSTANTS
    Jobs,        \* 1..n, oldest first
    Clips,       \* clips, or cameras, of a job
    MaxActive,   \* EXPORT_MAX_CONCURRENT
    Budget,      \* EXPORT_CACHE_MAX_BYTES, in directories
    Threads,     \* worker threads of the runtime
    MaxTrouble   \* failures, restarts and cancel requests

ASSUME ExportsAssumption ==
    /\ Jobs \subseteq Nat \ {0} /\ \A j \in Jobs : 1..j \subseteq Jobs
    /\ Clips \in Nat /\ MaxActive \in Nat /\ Budget \in Nat
    /\ Threads \in Nat \ {0} /\ MaxTrouble \in Nat

VARIABLES
    job,      \* AppState.export_jobs: a job's status, "none" without an entry
    rows,     \* what its row may say: upserts are tasks, late or lost
    token,    \* export_cancels; "late" is fired after the worker's last look (history)
    worker,   \* run_export_job, run_batch_export_job
    marks,    \* cancel requests that have fired the token and not marked the job yet
    dir,      \* jobs that have a directory
    sweep,    \* export_ttl_sweeper
    stuck,    \* threads of the runtime that wait for the map
    born, trouble,
    swept     \* history: jobs whose directory a sweep took

exports == <<job, rows, token, worker, marks, dir, sweep, stuck, born, trouble, swept>>

Active == {"queued", "running"}
Terminal == {"done", "failed", "cancelled"}

Off == [at |-> "none", left |-> 0, some |-> FALSE]
Asleep == [step |-> "idle", list |-> {}, victim |-> 0, at |-> "none"]

ExportsInit ==
    /\ job = [j \in Jobs |-> "none"] /\ rows = [j \in Jobs |-> {"none"}]
    /\ token = job /\ worker = [j \in Jobs |-> Off]
    /\ marks = {} /\ dir = {} /\ sweep = Asleep /\ stuck = {}
    /\ born = 0 /\ trouble = 0 /\ swept = {}

Trouble == trouble < MaxTrouble /\ trouble' = trouble + 1

\* Some thread is left to poll tasks.
Runs == Cardinality(stuck) < Threads

\* sweep_export_budget iterates over the map and awaits the size of each directory with
\* the shard of the entry locked for reading; a writer's thread waits, it does not yield.
\* All jobs are taken to be in one shard, as a job and itself always are.
MapIsFree == Runs /\ sweep.step # "measuring"

\* set_job_status and the like: the entry, where there still is one, and persist_job_async,
\* whose task writes a copy of it whenever it gets a connection, or fails: from then on the
\* row may say so, and may still say what it said before.
Put(j, s) ==
    IF job[j] = "none" THEN UNCHANGED <<job, rows>>
    ELSE job' = [job EXCEPT ![j] = s] /\ rows' = [rows EXCEPT ![j] = @ \cup {s}]

-----------------------------------------------------------------------------
(* Requests.                                                                   *)

\* create_export, create_batch_export. Requests are not counted while another one is.
Create ==
    /\ MapIsFree /\ born + 1 \in Jobs /\ born' = born + 1
    /\ Cardinality({j \in Jobs : job[j] \in Active}) < MaxActive
    /\ job' = [job EXCEPT ![born'] = "queued"]
    /\ rows' = [rows EXCEPT ![born'] = @ \cup {"queued"}]
    /\ token' = [token EXCEPT ![born'] = "armed"]
    /\ worker' = [worker EXCEPT ![born'] = [at |-> "starting", left |-> Clips, some |-> FALSE]]
    /\ UNCHANGED <<marks, dir, sweep, stuck, trouble, swept>>

\* Mutant: cancel_export removes the files itself.
CancelsEagerly(j) ==
    /\ Runs /\ Trouble /\ job[j] \in Active
    /\ token' = [token EXCEPT ![j] = CASE @ = "none" -> "none"
                                       [] worker[j].at = "finishing" -> "late"
                                       [] OTHER -> "fired"]
    /\ marks' = marks \cup {j} /\ dir' = dir \ {j}
    /\ UNCHANGED <<job, rows, worker, sweep, stuck, born, swept>>

\* cancel_export as far as the token ...
Cancels(j) ==
    /\ Runs /\ Trouble /\ job[j] \in Active
    /\ token' = [token EXCEPT ![j] = CASE @ = "none" -> "none"
                                       [] worker[j].at = "finishing" -> "late"
                                       [] OTHER -> "fired"]
    /\ marks' = marks \cup {j}
    /\ UNCHANGED <<job, rows, worker, dir, sweep, stuck, born, swept>>

\* ... and the entry, unless the job has ended meanwhile.
Marks(j) ==
    /\ MapIsFree /\ j \in marks /\ marks' = marks \ {j}
    /\ Put(j, IF job[j] \in Active THEN "cancelled" ELSE job[j])
    /\ UNCHANGED <<token, worker, dir, sweep, stuck, born, trouble, swept>>

-----------------------------------------------------------------------------
(* The worker of a job.                                                        *)

Goes(j, at) == worker' = [worker EXCEPT ![j].at = at]

\* fail_job.
Fails(j) ==
    /\ Put(j, "failed")
    /\ token' = [token EXCEPT ![j] = "none"] /\ worker' = [worker EXCEPT ![j] = Off]
    /\ UNCHANGED <<marks, dir, sweep, stuck, born, swept>>

\* Whatever the job has become since it was created, it is running now.
Starts(j) ==
    /\ MapIsFree /\ worker[j].at = "starting"
    /\ Goes(j, "opening") /\ Put(j, "running")
    /\ UNCHANGED <<token, marks, dir, sweep, stuck, born, trouble, swept>>

Opens(j) ==
    /\ Runs /\ worker[j].at = "opening"
    /\ Goes(j, "listing") /\ dir' = dir \cup {j}
    /\ UNCHANGED <<job, rows, token, marks, sweep, stuck, born, trouble, swept>>

\* The next clip; one without footage is skipped.
Lists(j) ==
    /\ Runs /\ worker[j].at = "listing"
    /\ \/ /\ worker[j].left > 0
          /\ \/ Goes(j, "encoding")
             \/ worker' = [worker EXCEPT ![j].left = @ - 1]
       \/ worker[j].left = 0 /\ Goes(j, "packaging")
    /\ UNCHANGED <<job, rows, token, marks, dir, sweep, stuck, born, trouble, swept>>

\* A batch, unlike a single export, fails where no clip has footage.
FindsNothing(j) ==
    /\ MapIsFree /\ worker[j].at = "listing" /\ worker[j].left = 0 /\ ~worker[j].some
    /\ Fails(j) /\ UNCHANGED trouble

\* ffmpeg exits by itself; it cannot write where the directory is gone.
Encoded(j) ==
    /\ Runs /\ worker[j].at = "encoding" /\ j \in dir
    /\ worker' = [worker EXCEPT ![j].at = "listing", ![j].left = @ - 1, ![j].some = TRUE]
    /\ UNCHANGED <<job, rows, token, marks, dir, sweep, stuck, born, trouble, swept>>

\* Mutant: no budget.
NeverTimesOut(j) == FALSE /\ Fails(j) /\ UNCHANGED trouble

\* wait_or_cancel's budget ends.
TimesOut(j) == MapIsFree /\ worker[j].at = "encoding" /\ Fails(j) /\ UNCHANGED trouble

\* wait_or_cancel's token fires.
Stops(j) ==
    /\ Runs /\ worker[j].at = "encoding" /\ token[j] = "fired"
    /\ Goes(j, "cleaning")
    /\ UNCHANGED <<job, rows, token, marks, dir, sweep, stuck, born, trouble, swept>>

\* Directory, database, ffmpeg or zip fail.
GoesWrong(j) ==
    /\ MapIsFree /\ worker[j].at \in {"opening", "listing", "encoding", "packaging"}
    /\ Trouble \/ (worker[j].at # "opening" /\ j \notin dir /\ UNCHANGED trouble)
    /\ Fails(j)

\* package_outputs, if asked for, which cannot be interrupted.
Packages(j) ==
    /\ Runs /\ worker[j].at = "packaging"
    /\ Goes(j, "packaged")
    /\ UNCHANGED <<job, rows, token, marks, dir, sweep, stuck, born, trouble, swept>>

\* Mutant: a cancel that came while packaging is overlooked.
LooksAway(j) ==
    /\ Runs /\ worker[j].at = "packaged" /\ Goes(j, "finishing")
    /\ UNCHANGED <<job, rows, token, marks, dir, sweep, stuck, born, trouble, swept>>

\* The last look at the token.
Looks(j) ==
    /\ Runs /\ worker[j].at = "packaged"
    /\ Goes(j, IF token[j] = "fired" THEN "cleaning" ELSE "finishing")
    /\ UNCHANGED <<job, rows, token, marks, dir, sweep, stuck, born, trouble, swept>>

\* cancel_job: a directory that cannot be removed is left.
Cleans(j) ==
    /\ MapIsFree /\ worker[j].at = "cleaning"
    /\ Put(j, "cancelled")
    /\ token' = [token EXCEPT ![j] = "none"] /\ worker' = [worker EXCEPT ![j] = Off]
    /\ \/ dir' = dir \ {j} /\ UNCHANGED trouble
       \/ Trouble /\ UNCHANGED dir
    /\ UNCHANGED <<marks, sweep, stuck, born, swept>>

\* Mutant: the token stays.
FinishesArmed(j) ==
    /\ MapIsFree /\ worker[j].at = "finishing"
    /\ Put(j, "done") /\ worker' = [worker EXCEPT ![j] = Off]
    /\ UNCHANGED <<token, marks, dir, sweep, stuck, born, trouble, swept>>

Finishes(j) ==
    /\ MapIsFree /\ worker[j].at = "finishing"
    /\ Put(j, "done")
    /\ token' = [token EXCEPT ![j] = "none"] /\ worker' = [worker EXCEPT ![j] = Off]
    /\ UNCHANGED <<marks, dir, sweep, stuck, born, trouble, swept>>

-----------------------------------------------------------------------------
(* The restart.                                                              *)

\* Mutant: what the rows say is taken over as it is.
Believed(s) == s

\* main: what was under way has ended with the process.
Rehydrated(s) == IF s \in Active THEN "failed" ELSE s

\* Unless the table cannot be read. The rows of interrupted jobs are written anew, if possible.
Restarts ==
    /\ Trouble
    /\ \E row \in [Jobs -> UNION {rows[j] : j \in Jobs}] :
          /\ \A j \in Jobs : row[j] \in rows[j]
          /\ \/ /\ job' = [j \in Jobs |-> Rehydrated(row[j])]
                /\ \/ rows' = [j \in Jobs |-> {row[j]}]
                   \/ rows' = [j \in Jobs |-> {job'[j]}]
             \/ job' = [j \in Jobs |-> "none"] /\ rows' = [j \in Jobs |-> {row[j]}]
    /\ token' = [j \in Jobs |-> "none"] /\ worker' = [j \in Jobs |-> Off]
    /\ marks' = {} /\ sweep' = Asleep /\ stuck' = {}
    /\ UNCHANGED <<dir, born, swept>>

-----------------------------------------------------------------------------
(* A tick of the sweeper: first what is too old, then what is too much.         *)

\* Mutant: everything but what is queued.
AnyStarted == {j \in Jobs : job[j] \in Terminal \cup {"running"}}

Ended == {j \in Jobs : job[j] \in Terminal}

\* The jobs up to k are older than the TTL.
Ticks ==
    /\ Runs /\ sweep.step = "idle"
    /\ \E k \in {0} \cup Jobs : sweep' = [sweep EXCEPT !.step = "ttl", !.list = {j \in Ended : j <= k}]
    /\ UNCHANGED <<job, rows, token, worker, marks, dir, stuck, born, trouble, swept>>

\* The entry goes first, whatever it says by now.
ForgetsExpired ==
    /\ Runs /\ sweep.step = "ttl" /\ sweep.victim = 0
    /\ \E j \in sweep.list :
          /\ job' = [job EXCEPT ![j] = "none"]
          /\ sweep' = [sweep EXCEPT !.list = @ \ {j}, !.victim = IF job[j] = "none" THEN 0 ELSE j,
                                    !.at = "files"]
    /\ UNCHANGED <<rows, token, worker, marks, dir, stuck, born, trouble, swept>>

Measures ==
    /\ Runs /\ sweep.step = "ttl" /\ sweep.victim = 0 /\ sweep.list = {}
    /\ sweep' = [sweep EXCEPT !.step = "measuring"]
    /\ UNCHANGED <<job, rows, token, worker, marks, dir, stuck, born, trouble, swept>>

\* plan_export_evictions: the oldest go until the rest fits in what jobs under way leave.
Excess ==
    LET room == Budget - Cardinality(dir \cap {j \in Jobs : job[j] \in Active}) IN
    {j \in Ended : Cardinality({k \in Ended : k >= j} \cap dir) > (IF room > 0 THEN room ELSE 0)}

\* The sizes are there, and a thread to go on with.
Plans ==
    /\ Runs /\ sweep.step = "measuring"
    /\ sweep' = [sweep EXCEPT !.step = "budget", !.list = Excess] /\ stuck' = {}
    /\ UNCHANGED <<job, rows, token, worker, marks, dir, born, trouble, swept>>

TakesOldest ==
    /\ Runs /\ sweep.step = "budget" /\ sweep.victim = 0
    /\ \E j \in sweep.list :
          /\ \A k \in sweep.list : j <= k
          /\ sweep' = [sweep EXCEPT !.list = @ \ {j}, !.victim = j, !.at = "files"]
    /\ UNCHANGED <<job, rows, token, worker, marks, dir, stuck, born, trouble, swept>>

\* remove_dir_all: if it fails, the budget sweep leaves the job alone, the TTL sweep goes on.
RemovesFiles ==
    /\ Runs /\ sweep.victim # 0 /\ sweep.at = "files"
    /\ \/ /\ dir' = dir \ {sweep.victim} /\ swept' = swept \cup {sweep.victim}
          /\ sweep' = [sweep EXCEPT !.at = IF sweep.step = "ttl" THEN "row" ELSE "entry"]
          /\ UNCHANGED trouble
       \/ /\ sweep.victim \in dir /\ Trouble
          /\ sweep' = IF sweep.step = "ttl" THEN [sweep EXCEPT !.at = "row"] ELSE [sweep EXCEPT !.victim = 0]
          /\ UNCHANGED <<dir, swept>>
    /\ UNCHANGED <<job, rows, token, worker, marks, stuck, born>>

ForgetsEvicted ==
    /\ Runs /\ sweep.victim # 0 /\ sweep.at = "entry"
    /\ job' = [job EXCEPT ![sweep.victim] = "none"] /\ sweep' = [sweep EXCEPT !.at = "row"]
    /\ UNCHANGED <<rows, token, worker, marks, dir, stuck, born, trouble, swept>>

\* delete_export_job, which may fail, and of which a late upsert knows nothing.
DropsRow ==
    /\ Runs /\ sweep.victim # 0 /\ sweep.at = "row"
    /\ sweep' = [sweep EXCEPT !.victim = 0]
    /\ rows' = [rows EXCEPT ![sweep.victim] = @ \cup {"none"}]
    /\ UNCHANGED <<job, token, worker, marks, dir, stuck, born, trouble, swept>>

SweepEnds ==
    /\ Runs /\ sweep.step = "budget" /\ sweep.victim = 0 /\ sweep.list = {}
    /\ sweep' = Asleep
    /\ UNCHANGED <<job, rows, token, worker, marks, dir, stuck, born, trouble, swept>>

\* While the shard is locked a worker, or the task that reads its ffmpeg's progress, writes
\* to the map, and its thread waits.
Waits(j) ==
    /\ Runs /\ sweep.step = "measuring" /\ j \notin stuck
    /\ worker[j].at \in {"starting", "encoding", "cleaning", "finishing"}
    /\ stuck' = stuck \cup {j}
    /\ UNCHANGED <<job, rows, token, worker, marks, dir, sweep, born, trouble, swept>>

-----------------------------------------------------------------------------

WorkerStep(j) ==
    Starts(j) \/ Opens(j) \/ Lists(j) \/ FindsNothing(j) \/ TimesOut(j) \/ Stops(j)
    \/ Packages(j) \/ Looks(j) \/ Cleans(j) \/ Finishes(j) \/ GoesWrong(j)

SweeperStep ==
    Ticks \/ ForgetsExpired \/ Measures \/ Plans \/ TakesOldest \/ RemovesFiles
    \/ ForgetsEvicted \/ DropsRow \/ SweepEnds

ExportsNext ==
    \/ Create \/ Restarts \/ SweeperStep
    \/ \E j \in Jobs : \/ Cancels(j) \/ Marks(j) \/ WorkerStep(j) \/ Encoded(j) \/ Waits(j)

\* Worker and sweeper are tasks, and the sweeper does not hold the map for ever; nothing says
\* that ffmpeg ever exits.
ExportsFairness == (\A j \in Jobs : SF_exports(WorkerStep(j))) /\ WF_exports(SweeperStep)

ExportsSpec == ExportsInit /\ [][ExportsNext]_exports /\ ExportsFairness

-----------------------------------------------------------------------------
(* Properties.                                                                 *)

\* The tokens are those of the jobs that have a worker, however it ends.
ExportsTypeOK ==
    /\ job \in [Jobs -> Active \cup Terminal \cup {"none"}]
    /\ \A j \in Jobs : rows[j] \subseteq Active \cup Terminal \cup {"none"} /\ rows[j] # {}
    /\ \A j \in Jobs : token[j] # "none" <=> worker[j].at # "none"
    /\ \A j \in Jobs : j > born => job[j] = "none" /\ rows[j] = {"none"} /\ j \notin dir
    /\ marks \subseteq 1..born /\ stuck \subseteq Jobs /\ sweep.list \subseteq 1..born

\* "clients see a terminal state instead of a stuck job": what is queued or running has a
\* worker, across restarts too.
ActiveHasWorker == \A j \in Jobs : job[j] \in Active => worker[j].at # "none"

\* A job that says it is done has its files, whatever cancels and restarts it went through,
\* unless a sweep took them.
DoneHasFiles == \A j \in Jobs : job[j] = "done" => j \in dir \cup swept

\* What the map says of a job is so.
JobsAreTrue == ActiveHasWorker /\ DoneHasFiles

\* "running jobs are never evicted": of a job under way the sweeps take neither entry nor
\* files, unless somebody has cancelled it.
EvictsNoLiveWork ==
    \A j \in Jobs : job[j] \in Active /\ trouble' = trouble =>
        (job'[j] = "none" \/ j \in dir \ dir' => token[j] = "fired")

\* A cancel that comes before the worker's last look is honoured, at whatever step it comes.
CancelsTakeEffect == \A j \in Jobs : job[j] # "done" /\ job'[j] = "done" => token[j] # "fired"

JobsKeepTheirWord == [][EvictsNoLiveWork /\ CancelsTakeEffect]_exports

\* wait_or_cancel: "A wedged child must never leave a job Running forever, because that
\* permanently consumes one of EXPORT_MAX_CONCURRENT slots."
EveryJobEnds == \A j \in Jobs : job[j] \in Active ~> job[j] \notin Active
=============================================================================
