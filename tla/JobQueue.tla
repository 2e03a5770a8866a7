------------------------------ MODULE JobQueue ------------------------------
(***************************************************************************)
(* The job queue (store/jobs.py) over the jobs table.  The API enqueues;   *)
(* the workers of the module's docstring ("Workers poll for queued jobs by *)
(* kind, claim one atomically, run it, and update status") are not part of *)
(* the repository, and neither is a caller of cancel(): both are modelled  *)
(* from the functions they would call.  Each SQL statement is one step, so *)
(* fail(), which reads and then writes, is two.                            *)
(***************************************************************************)
EXTENDS Naturals

CONSTANTS
  Workers,     \* threads or processes that run jobs
  MaxJobs,     \* bound on the AUTOINCREMENT id
  RetryLimits, \* the values of max_retries that are asked for
  MaxCancels,  \* bound on cancel()
  MaxDeaths    \* bound on workers that die in the middle of a job

ASSUME JobAssumption ==
  /\ MaxJobs \in Nat
  /\ RetryLimits \subseteq Nat
  /\ MaxCancels \in Nat
  /\ MaxDeaths \in Nat

VARIABLES
  job,     \* job[j]: the jobs row with id j, and how often it was claimed
  worker,  \* worker[w]: where worker w is, and the job it has
  cancels, \* how many cancels there have been
  deaths   \* how many workers have died

jobVars == <<job, worker, cancels, deaths>>

-----------------------------------------------------------------------------
JobId == 1 .. MaxJobs

JobStatus == {"queued", "running", "completed", "failed", "cancelled"}

JobEnded == {"completed", "failed", "cancelled"}

\* attempts is history: nothing in the code counts the claims of a job.
Job == [status : JobStatus \cup {"unused"}, retries : Nat, limit : Nat, attempts : Nat]

NoJob == [status |-> "unused", retries |-> 0, limit |-> 0, attempts |-> 0]

\* seen is what fail() has read: are there retries left?
Worker == [pc : {"idle", "working", "failing"}, job : 0 .. MaxJobs, seen : BOOLEAN]

Resting == [pc |-> "idle", job |-> 0, seen |-> FALSE]

HasJob(w, j) == worker[w].pc # "idle" /\ worker[w].job = j

\* Mutant: the comparison lets one more retry through.
RetriesLeftOneMore(j) == job[j].retries <= job[j].limit

\* row["retries"] + 1 < row["max_retries"]
RetriesLeft(j) == job[j].retries + 1 < job[j].limit

-----------------------------------------------------------------------------
\* POST /api/jobs
Enqueue(limit) ==
  \E j \in JobId :
    /\ job[j].status = "unused" /\ \A k \in JobId : k < j => job[k].status # "unused"
    /\ job' = [job EXCEPT ![j] = [NoJob EXCEPT !.status = "queued", !.limit = limit]]
    /\ UNCHANGED <<worker, cancels, deaths>>

\* Mutant: a job that was started is still up for grabs.
ClaimNextRunning(w) ==
  \E j \in JobId :
    /\ worker[w].pc = "idle"
    /\ job[j].status \in {"queued", "running"}
    /\ job' = [job EXCEPT ![j].status = "running", ![j].attempts = @ + 1]
    /\ worker' = [worker EXCEPT ![w] = [pc |-> "working", job |-> j, seen |-> FALSE]]
    /\ UNCHANGED <<cancels, deaths>>

\* UPDATE ... WHERE id = (SELECT ... ORDER BY id LIMIT 1) RETURNING *: one statement.
ClaimNext(w) ==
  \E j \in JobId :
    /\ worker[w].pc = "idle"
    /\ job[j].status = "queued" /\ \A k \in JobId : k < j => job[k].status # "queued"
    /\ job' = [job EXCEPT ![j].status = "running", ![j].attempts = @ + 1]
    /\ worker' = [worker EXCEPT ![w] = [pc |-> "working", job |-> j, seen |-> FALSE]]
    /\ UNCHANGED <<cancels, deaths>>

\* complete(): by id alone, whatever the job's status has become.
CompleteJob(w) ==
  /\ worker[w].pc = "working"
  /\ job' = [job EXCEPT ![worker[w].job].status = "completed"]
  /\ worker' = [worker EXCEPT ![w] = Resting]
  /\ UNCHANGED <<cancels, deaths>>

\* fail() reads retries and max_retries ...
ReadRetries(w, retry) ==
  /\ worker[w].pc = "working"
  /\ worker' = [worker EXCEPT ![w].pc = "failing",
                              ![w].seen = retry /\ RetriesLeft(worker[w].job)]
  /\ UNCHANGED <<job, cancels, deaths>>

\* Mutant: fail() returns once the retries are used up.
WriteFailureUnless(w) ==
  /\ worker[w].pc = "failing"
  /\ LET j == worker[w].job IN
       job' = IF worker[w].seen
                THEN [job EXCEPT ![j].status = "queued", ![j].retries = @ + 1]
                ELSE job
  /\ worker' = [worker EXCEPT ![w] = Resting]
  /\ UNCHANGED <<cancels, deaths>>

\* ... and then writes, by id alone: back into the queue, or failed for good.
WriteFailure(w) ==
  /\ worker[w].pc = "failing"
  /\ LET j == worker[w].job IN
       job' = IF worker[w].seen
                THEN [job EXCEPT ![j].status = "queued", ![j].retries = @ + 1]
                ELSE [job EXCEPT ![j].status = "failed"]
  /\ worker' = [worker EXCEPT ![w] = Resting]
  /\ UNCHANGED <<cancels, deaths>>

\* cancel(): by id alone, be the job queued, running or over.
Cancel(j) ==
  /\ job[j].status # "unused"
  /\ cancels < MaxCancels /\ cancels' = cancels + 1
  /\ job' = [job EXCEPT ![j].status = "cancelled"]
  /\ UNCHANGED <<worker, deaths>>

\* A worker dies: its job stays RUNNING, as nothing ever looks for it.
WorkerDies(w) ==
  /\ worker[w].pc # "idle"
  /\ deaths < MaxDeaths /\ deaths' = deaths + 1
  /\ worker' = [worker EXCEPT ![w] = Resting]
  /\ UNCHANGED <<job, cancels>>

-----------------------------------------------------------------------------
JobInit ==
  /\ job = [j \in JobId |-> NoJob]
  /\ worker = [w \in Workers |-> Resting]
  /\ cancels = 0
  /\ deaths = 0

\* What a worker does with its job.
Run(w) ==
  \/ CompleteJob(w)
  \/ \E retry \in BOOLEAN : ReadRetries(w, retry)
  \/ WriteFailure(w)

JobNext ==
  \/ \E limit \in RetryLimits : Enqueue(limit)
  \/ \E w \in Workers : ClaimNext(w) \/ Run(w) \/ WorkerDies(w)
  \/ \E j \in JobId : Cancel(j)

\* Workers poll, and a worker that lives ends its job.
JobFairness == \A w \in Workers : WF_jobVars(ClaimNext(w)) /\ WF_jobVars(Run(w))

JobSpec == JobInit /\ [][JobNext]_jobVars /\ JobFairness

-----------------------------------------------------------------------------
(* Properties. *)

\* The jobs table and its workers hold what their columns and code allow.
JobTypeOK ==
  /\ job \in [JobId -> Job]
  /\ worker \in [Workers -> Worker]
  /\ cancels \in 0 .. MaxCancels
  /\ deaths \in 0 .. MaxDeaths

\* A job is tried at most max_retries times (once if that is zero), although
\* fail() decides on what it read before a cancel or another write.
AttemptsBounded ==
  \A j \in JobId : job[j].attempts <= IF job[j].limit = 0 THEN 1 ELSE job[j].limit

\* No two workers ever have the same job, although a cancelled job that its
\* worker then fails goes back into the queue.
OneWorkerPerJob ==
  \A w1, w2 \in Workers, j \in JobId : HasJob(w1, j) /\ HasJob(w2, j) => w1 = w2

\* A RUNNING job loses its worker only by the worker's death: every way out of
\* complete() and fail() leaves the status something else.
OnlyDeathStrands ==
  [][\A j \in JobId :
       (\E w \in Workers : HasJob(w, j)) /\ job'[j].status = "running"
         => (\E w \in Workers : HasJob(w, j)') \/ deaths' # deaths]_jobVars

\* As long as no worker dies, every job that was queued ends, retries, late
\* failures and cancels notwithstanding.
JobsEnd ==
  \A j \in JobId :
    job[j].status = "queued" ~> job[j].status \in JobEnded \/ deaths > 0

-----------------------------------------------------------------------------
(* The inductive invariant. *)

\* A worker that is at work has a job.
HoldsId == \A w \in Workers : worker[w].pc # "idle" => worker[w].job \in JobId

\* A job that a worker has is not up for grabs.
HeldNotQueued ==
  \A w \in Workers, j \in JobId :
    HasJob(w, j) => job[j].status \notin {"queued", "unused"}

\* Every claim but the one under way has cost a retry.
AttemptsCounted ==
  \A j \in JobId :
    job[j].attempts <= job[j].retries
                       + (IF job[j].status \in {"queued", "unused"} THEN 0 ELSE 1)

\* What fail() has read is still so when it writes.
RetriesAsRead ==
  \A w \in Workers, j \in JobId :
    HasJob(w, j) /\ worker[w].pc = "failing" /\ worker[w].seen => RetriesLeft(j)

RetriesBounded == \A j \in JobId : job[j].retries = 0 \/ job[j].retries < job[j].limit

JobInv ==
  /\ JobTypeOK /\ HoldsId /\ OneWorkerPerJob /\ HeldNotQueued
  /\ AttemptsCounted /\ RetriesAsRead /\ RetriesBounded
=============================================================================
