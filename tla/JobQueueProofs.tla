--------------------------- MODULE JobQueueProofs ---------------------------
(* Theorems about JobQueue, for any workers, jobs, limits and bounds. *)
EXTENDS JobQueue, TLAPS

USE JobAssumption

-----------------------------------------------------------------------------
(* Types. *)

LEMMA JobTypes ==
  /\ NoJob \in Job /\ Resting \in Worker /\ Resting.pc = "idle"
  /\ JobId \subseteq Nat /\ JobId \subseteq 0 .. MaxJobs
  BY DEF NoJob, Job, JobStatus, Resting, Worker, JobId

\* What an UPDATE of a row's status and of one count makes of it.
LEMMA Requeued ==
  ASSUME NEW d \in Job, NEW r, r = [d EXCEPT !.status = "queued", !.retries = @ + 1]
  PROVE  /\ r \in Job /\ r.status = "queued" /\ r.retries = d.retries + 1
         /\ r.attempts = d.attempts /\ r.limit = d.limit
  <1> DEFINE q == [d EXCEPT !.status = "queued"]
  <1>1. q \in Job /\ q.status = "queued" /\ q.retries = d.retries /\ q.attempts = d.attempts /\ q.limit = d.limit
    BY DEF Job, JobStatus
  <1>2. r = [q EXCEPT !.retries = d.retries + 1]
    OBVIOUS
  <1> HIDE DEF q
  <1>3. d.retries + 1 \in Nat
    BY DEF Job
  <1>4. QED BY <1>1, <1>2, <1>3 DEF Job

LEMMA Claimed ==
  ASSUME NEW d \in Job, NEW r, r = [d EXCEPT !.status = "running", !.attempts = @ + 1]
  PROVE  /\ r \in Job /\ r.status = "running" /\ r.attempts = d.attempts + 1
         /\ r.retries = d.retries /\ r.limit = d.limit
  <1> DEFINE q == [d EXCEPT !.status = "running"]
  <1>1. q \in Job /\ q.status = "running" /\ q.attempts = d.attempts /\ q.retries = d.retries /\ q.limit = d.limit
    BY DEF Job, JobStatus
  <1>2. r = [q EXCEPT !.attempts = d.attempts + 1]
    OBVIOUS
  <1> HIDE DEF q
  <1>3. d.attempts + 1 \in Nat
    BY DEF Job
  <1>4. QED BY <1>1, <1>2, <1>3 DEF Job

LEMMA JobInvInit == JobInit => JobInv
  <1> SUFFICES ASSUME JobInit PROVE JobInv
    OBVIOUS
  <1>1. JobTypeOK
    BY JobTypes DEF JobInit, JobTypeOK
  <1>2. OneWorkerPerJob /\ HeldNotQueued /\ RetriesAsRead /\ HoldsId
    BY DEF JobInit, OneWorkerPerJob, HeldNotQueued, RetriesAsRead, HasJob, Resting, HoldsId
  <1>3. AttemptsCounted /\ RetriesBounded
    BY DEF JobInit, AttemptsCounted, RetriesBounded, NoJob
  <1>4. QED BY <1>1, <1>2, <1>3 DEF JobInv

-----------------------------------------------------------------------------
(* One lemma for each way a step may touch a job. *)

\* Worker w gives its job back, or dies, and the job is left as it may be.
LEMMA LetsGo ==
  ASSUME JobInv, NEW w \in Workers, worker[w].pc # "idle",
         worker' = [worker EXCEPT ![w] = Resting],
         NEW r \in Job, job' = [job EXCEPT ![worker[w].job] = r],
         r.attempts <= r.retries + (IF r.status \in {"queued", "unused"} THEN 0 ELSE 1),
         r.retries = 0 \/ r.retries < r.limit,
         cancels' \in 0 .. MaxCancels, deaths' \in 0 .. MaxDeaths
  PROVE  JobInv'
  <1> DEFINE j == worker[w].job
  <1>1. j \in JobId /\ worker \in [Workers -> Worker] /\ job \in [JobId -> Job]
    BY DEF HoldsId, JobInv, JobTypeOK
  <1>2. JobTypeOK'
    BY <1>1, JobTypes DEF JobTypeOK
  <1>3. \A v \in Workers, k \in JobId :
          HasJob(v, k)' => v # w /\ HasJob(v, k) /\ k # j /\ job'[k] = job[k]
                           /\ worker'[v] = worker[v]
    BY <1>1, JobTypes DEF HasJob, JobInv, OneWorkerPerJob
  <1>4. OneWorkerPerJob' /\ HeldNotQueued' /\ RetriesAsRead'
    BY <1>3 DEF OneWorkerPerJob, HeldNotQueued, RetriesAsRead, RetriesLeft, JobInv
  <1>5. AttemptsCounted' /\ RetriesBounded'
    BY <1>1 DEF AttemptsCounted, RetriesBounded, JobInv
  <1>6. HoldsId'
    BY <1>1, JobTypes DEF HoldsId, JobInv
  <1>7. QED BY <1>2, <1>4, <1>5, <1>6 DEF JobInv

LEMMA EnqueueStep ==
  ASSUME JobInv, NEW limit \in RetryLimits, Enqueue(limit)
  PROVE  JobInv'
  <1>1. PICK j \in JobId :
          /\ job[j].status = "unused"
          /\ job' = [job EXCEPT ![j] = [NoJob EXCEPT !.status = "queued", !.limit = limit]]
          /\ UNCHANGED <<worker, cancels, deaths>>
    BY DEF Enqueue
  <1> DEFINE r == [NoJob EXCEPT !.status = "queued", !.limit = limit]
  <1>2. r \in Job /\ r.attempts = 0 /\ r.retries = 0
    BY DEF NoJob, Job, JobStatus
  <1>3. job \in [JobId -> Job] /\ JobTypeOK'
    BY <1>1, <1>2 DEF JobInv, JobTypeOK
  <1>4. \A w \in Workers, k \in JobId : HasJob(w, k)' => HasJob(w, k) /\ k # j
    BY <1>1 DEF HasJob, JobInv, HeldNotQueued
  <1>5. OneWorkerPerJob' /\ HeldNotQueued' /\ RetriesAsRead'
    BY <1>1, <1>3, <1>4
       DEF OneWorkerPerJob, HeldNotQueued, RetriesAsRead, RetriesLeft, JobInv
  <1>6. AttemptsCounted' /\ RetriesBounded'
    BY <1>1, <1>2, <1>3 DEF AttemptsCounted, RetriesBounded, JobInv
  <1>7. HoldsId'
    BY <1>1 DEF HoldsId, JobInv
  <1>8. QED BY <1>3, <1>5, <1>6, <1>7 DEF JobInv

LEMMA ClaimNextStep ==
  ASSUME JobInv, NEW w \in Workers, ClaimNext(w)
  PROVE  JobInv'
  <1>1. PICK j \in JobId :
          /\ worker[w].pc = "idle" /\ job[j].status = "queued"
          /\ job' = [job EXCEPT ![j].status = "running", ![j].attempts = @ + 1]
          /\ worker' = [worker EXCEPT ![w] = [pc |-> "working", job |-> j, seen |-> FALSE]]
          /\ UNCHANGED <<cancels, deaths>>
    BY DEF ClaimNext
  <1>2. /\ job \in [JobId -> Job] /\ job[j] \in Job /\ worker \in [Workers -> Worker]
        /\ \A k \in JobId \ {j} : job'[k] = job[k]
    BY <1>1 DEF JobInv, JobTypeOK
  <1>3. job'[j] = [job[j] EXCEPT !.status = "running", !.attempts = @ + 1]
    BY <1>1, <1>2
  <1>4. /\ job'[j] \in Job /\ job'[j].status = "running"
        /\ job'[j].attempts = job[j].attempts + 1
        /\ job'[j].retries = job[j].retries /\ job'[j].limit = job[j].limit
    BY <1>2, <1>3, Claimed
  <1>5. job' \in [JobId -> Job]
    BY <1>1, <1>2, <1>4
  <1>6. worker'[w] = [pc |-> "working", job |-> j, seen |-> FALSE]
        /\ worker' \in [Workers -> Worker] /\ \A v \in Workers \ {w} : worker'[v] = worker[v]
    BY <1>1, <1>2, JobTypes DEF Worker
  <1>7. JobTypeOK'
    BY <1>1, <1>5, <1>6 DEF JobTypeOK, JobInv
  <1>8. \A v \in Workers, k \in JobId :
          HasJob(v, k)' => \/ v = w /\ k = j
                           \/ v # w /\ k # j /\ HasJob(v, k)
    BY <1>1, <1>6 DEF HasJob, JobInv, HeldNotQueued
  <1>9. OneWorkerPerJob' /\ HeldNotQueued' /\ RetriesAsRead'
    BY <1>2, <1>4, <1>6, <1>8
       DEF OneWorkerPerJob, HeldNotQueued, RetriesAsRead, RetriesLeft, JobInv
  <1>10. AttemptsCounted'
    <2> SUFFICES ASSUME NEW k \in JobId
                 PROVE  job'[k].attempts <= job'[k].retries
                          + (IF job'[k].status \in {"queued", "unused"} THEN 0 ELSE 1)
      BY DEF AttemptsCounted
    <2>1. CASE k = j
      <3>1. job[j].attempts \in Nat /\ job[j].retries \in Nat
            /\ job[j].attempts <= job[j].retries + 0
        BY <1>1, <1>2 DEF JobInv, AttemptsCounted, Job
      <3>2. QED BY <1>4, <2>1, <3>1
    <2>2. CASE k # j
      BY <1>2, <2>2 DEF JobInv, AttemptsCounted
    <2>3. QED BY <2>1, <2>2
  <1>11. RetriesBounded' /\ HoldsId'
    BY <1>2, <1>4, <1>6 DEF RetriesBounded, HoldsId, JobInv
  <1>12. QED BY <1>7, <1>9, <1>10, <1>11 DEF JobInv

LEMMA ReadRetriesStep ==
  ASSUME JobInv, NEW w \in Workers, NEW retry \in BOOLEAN, ReadRetries(w, retry)
  PROVE  JobInv'
  <1> DEFINE j == worker[w].job
  <1>1. j \in JobId /\ worker \in [Workers -> Worker] /\ job' = job /\ worker[w].pc = "working"
    BY DEF ReadRetries, HoldsId, JobInv, JobTypeOK
  <1>2. /\ worker'[w].pc = "failing" /\ worker'[w].job = j /\ worker'[w] \in Worker
        /\ worker'[w].seen => RetriesLeft(j)
        /\ \A v \in Workers \ {w} : worker'[v] = worker[v]
    BY <1>1 DEF ReadRetries, Worker, RetriesLeft
  <1>3. JobTypeOK'
    BY <1>1, <1>2 DEF ReadRetries, JobTypeOK, JobInv
  <1>4. \A v \in Workers, k \in JobId : HasJob(v, k)' => HasJob(v, k)
    BY <1>1, <1>2 DEF HasJob
  <1>5. OneWorkerPerJob' /\ HeldNotQueued' /\ AttemptsCounted' /\ RetriesBounded'
    BY <1>1, <1>4
       DEF OneWorkerPerJob, HeldNotQueued, AttemptsCounted, RetriesBounded, JobInv
  <1>6. RetriesAsRead' /\ HoldsId'
    BY <1>1, <1>2, <1>4 DEF RetriesAsRead, RetriesLeft, HasJob, HoldsId, JobInv
  <1>7. QED BY <1>3, <1>5, <1>6 DEF JobInv

LEMMA WriteFailureStep ==
  ASSUME JobInv, NEW w \in Workers, WriteFailure(w)
  PROVE  JobInv'
  <1> DEFINE j == worker[w].job
             r == IF worker[w].seen
                    THEN [job[j] EXCEPT !.status = "queued", !.retries = @ + 1]
                    ELSE [job[j] EXCEPT !.status = "failed"]
  <1>1. worker[w].pc = "failing" /\ j \in JobId /\ HasJob(w, j)
    BY DEF WriteFailure, JobInv, HoldsId, HasJob
  <1>2. /\ job \in [JobId -> Job] /\ job[j] \in Job
        /\ job[j].status \notin {"queued", "unused"}
        /\ cancels \in 0 .. MaxCancels /\ deaths \in 0 .. MaxDeaths
    BY <1>1 DEF JobInv, JobTypeOK, HeldNotQueued
  <1>3. job' = [job EXCEPT ![j] = r]
    BY <1>1, <1>2 DEF WriteFailure
  <1>4. job[j].attempts <= job[j].retries + 1 /\ (job[j].retries = 0 \/ job[j].retries < job[j].limit)
    BY <1>1, <1>2 DEF JobInv, AttemptsCounted, RetriesBounded
  <1>5. worker[w].seen => job[j].retries + 1 < job[j].limit
    BY <1>1 DEF JobInv, RetriesAsRead, RetriesLeft
  <1>6. CASE worker[w].seen
    <2>1. r = [job[j] EXCEPT !.status = "queued", !.retries = @ + 1]
      BY <1>6
    <2> HIDE DEF r
    <2>2. /\ r \in Job /\ r.status = "queued" /\ r.retries = job[j].retries + 1
          /\ r.attempts = job[j].attempts /\ r.limit = job[j].limit
      BY <1>2, <2>1, Requeued
    <2>3. job[j].attempts \in Nat /\ job[j].retries \in Nat /\ job[j].limit \in Nat
      BY <1>2 DEF Job
    <2>4. /\ r.attempts <= r.retries + (IF r.status \in {"queued", "unused"} THEN 0 ELSE 1)
          /\ r.retries = 0 \/ r.retries < r.limit
      BY <1>4, <1>5, <1>6, <2>2, <2>3
    <2>5. QED BY <1>1, <1>2, <1>3, <2>2, <2>4, LetsGo DEF WriteFailure
  <1>7. CASE ~worker[w].seen
    <2>1. r = [job[j] EXCEPT !.status = "failed"]
      BY <1>7
    <2>2. /\ r \in Job /\ r.status = "failed" /\ r.retries = job[j].retries
          /\ r.attempts = job[j].attempts /\ r.limit = job[j].limit
      BY <1>2, <2>1 DEF Job, JobStatus
    <2> HIDE DEF r
    <2>3. /\ r.attempts <= r.retries + (IF r.status \in {"queued", "unused"} THEN 0 ELSE 1)
          /\ r.retries = 0 \/ r.retries < r.limit
      BY <1>4, <2>2
    <2>4. QED BY <1>1, <1>2, <1>3, <2>2, <2>3, LetsGo DEF WriteFailure
  <1>8. QED BY <1>6, <1>7

LEMMA CompleteJobStep ==
  ASSUME JobInv, NEW w \in Workers, CompleteJob(w)
  PROVE  JobInv'
  <1> DEFINE j == worker[w].job
             r == [job[j] EXCEPT !.status = "completed"]
  <1>1. worker[w].pc = "working" /\ j \in JobId /\ HasJob(w, j)
    BY DEF CompleteJob, JobInv, HoldsId, HasJob
  <1>2. /\ job \in [JobId -> Job] /\ job[j] \in Job
        /\ job[j].status \notin {"queued", "unused"}
        /\ cancels \in 0 .. MaxCancels /\ deaths \in 0 .. MaxDeaths
    BY <1>1 DEF JobInv, JobTypeOK, HeldNotQueued
  <1>3. job' = [job EXCEPT ![j] = r]
    BY <1>1, <1>2 DEF CompleteJob
  <1>4. /\ r \in Job /\ r.status = "completed" /\ r.retries = job[j].retries
        /\ r.attempts = job[j].attempts /\ r.limit = job[j].limit
    BY <1>2 DEF Job, JobStatus
  <1>5. job[j].attempts <= job[j].retries + 1 /\ (job[j].retries = 0 \/ job[j].retries < job[j].limit)
    BY <1>1, <1>2 DEF JobInv, AttemptsCounted, RetriesBounded
  <1> HIDE DEF r
  <1>6. /\ r.attempts <= r.retries + (IF r.status \in {"queued", "unused"} THEN 0 ELSE 1)
        /\ r.retries = 0 \/ r.retries < r.limit
    BY <1>4, <1>5
  <1>7. QED BY <1>1, <1>2, <1>3, <1>4, <1>6, LetsGo DEF CompleteJob

LEMMA WorkerDiesStep ==
  ASSUME JobInv, NEW w \in Workers, WorkerDies(w)
  PROVE  JobInv'
  <1> DEFINE j == worker[w].job
  <1>1. worker[w].pc # "idle" /\ j \in JobId /\ job \in [JobId -> Job] /\ job[j] \in Job
    BY DEF WorkerDies, HoldsId, JobInv, JobTypeOK
  <1>2. job' = [job EXCEPT ![j] = job[j]]
    BY <1>1 DEF WorkerDies
  <1>3. cancels' \in 0 .. MaxCancels /\ deaths' \in 0 .. MaxDeaths
    BY DEF WorkerDies, JobInv, JobTypeOK
  <1>4. /\ job[j].attempts <= job[j].retries
                              + (IF job[j].status \in {"queued", "unused"} THEN 0 ELSE 1)
        /\ job[j].retries = 0 \/ job[j].retries < job[j].limit
    BY <1>1 DEF JobInv, AttemptsCounted, RetriesBounded
  <1>5. QED BY <1>1, <1>2, <1>3, <1>4, LetsGo DEF WorkerDies

LEMMA CancelStep ==
  ASSUME JobInv, NEW j \in JobId, Cancel(j)
  PROVE  JobInv'
  <1>1. job \in [JobId -> Job] /\ job[j] \in Job /\ job[j].status # "unused"
    BY DEF Cancel, JobInv, JobTypeOK
  <1>2. /\ job'[j] = [job[j] EXCEPT !.status = "cancelled"]
        /\ \A k \in JobId \ {j} : job'[k] = job[k]
        /\ worker' = worker
    BY <1>1 DEF Cancel
  <1>3. /\ job'[j] \in Job /\ job'[j].status = "cancelled"
        /\ job'[j].attempts = job[j].attempts
        /\ job'[j].retries = job[j].retries /\ job'[j].limit = job[j].limit
    BY <1>1, <1>2 DEF Job, JobStatus
  <1>4. JobTypeOK'
    BY <1>1, <1>2, <1>3 DEF Cancel, JobTypeOK, JobInv
  <1>5. OneWorkerPerJob' /\ HoldsId'
    BY <1>2 DEF OneWorkerPerJob, HasJob, HoldsId, JobInv
  <1>6. HeldNotQueued'
    BY <1>2, <1>3 DEF HeldNotQueued, HasJob, JobInv
  <1>7. RetriesAsRead' /\ RetriesBounded'
    BY <1>2, <1>3 DEF RetriesAsRead, RetriesBounded, RetriesLeft, HasJob, JobInv
  <1>8. AttemptsCounted'
    <2> SUFFICES ASSUME NEW k \in JobId
                 PROVE  job'[k].attempts <= job'[k].retries
                          + (IF job'[k].status \in {"queued", "unused"} THEN 0 ELSE 1)
      BY DEF AttemptsCounted
    <2>1. job[k].attempts \in Nat /\ job[k].retries \in Nat
      BY <1>1 DEF Job
    <2>2. job[k].attempts <= job[k].retries
                             + (IF job[k].status \in {"queued", "unused"} THEN 0 ELSE 1)
      BY DEF JobInv, AttemptsCounted
    <2>3. CASE k = j
      BY <1>3, <2>1, <2>2, <2>3
    <2>4. CASE k # j
      BY <1>2, <2>2, <2>4
    <2>5. QED BY <2>3, <2>4
  <1>9. QED BY <1>4, <1>5, <1>6, <1>7, <1>8 DEF JobInv

-----------------------------------------------------------------------------
LEMMA JobInvNext == JobInv /\ [JobNext]_jobVars => JobInv'
  <1> SUFFICES ASSUME JobInv, [JobNext]_jobVars PROVE JobInv'
    OBVIOUS
  <1>1. CASE UNCHANGED jobVars
    BY <1>1 DEF jobVars, JobInv, JobTypeOK, OneWorkerPerJob, HeldNotQueued,
         AttemptsCounted, RetriesAsRead, RetriesBounded, RetriesLeft, HasJob, HoldsId
  <1>2. CASE \E limit \in RetryLimits : Enqueue(limit)
    BY <1>2, EnqueueStep
  <1>3. CASE \E w \in Workers : ClaimNext(w) \/ Run(w) \/ WorkerDies(w)
    BY <1>3, ClaimNextStep, CompleteJobStep, ReadRetriesStep, WriteFailureStep, WorkerDiesStep
       DEF Run
  <1>4. CASE \E j \in JobId : Cancel(j)
    BY <1>4, CancelStep
  <1>5. QED BY <1>1, <1>2, <1>3, <1>4 DEF JobNext

LEMMA JobInvariance == JobSpec => []JobInv
  BY JobInvInit, JobInvNext, PTL DEF JobSpec

\* The jobs table and its workers keep their types.
THEOREM JobTypeCorrect == JobSpec => []JobTypeOK
  <1>1. JobInv => JobTypeOK
    BY DEF JobInv
  <1>2. QED BY <1>1, JobInvariance, PTL

\* No two workers ever have the same job, for any number of workers: what goes
\* back into the queue has left its worker.
THEOREM OneWorkerPerJobHolds == JobSpec => []OneWorkerPerJob
  <1>1. JobInv => OneWorkerPerJob
    BY DEF JobInv
  <1>2. QED BY <1>1, JobInvariance, PTL

\* A job is tried at most max_retries times, or once: each claim but the first
\* has cost a retry, and fail() grants none that what it has read does not allow.
THEOREM AttemptsBoundedHolds == JobSpec => []AttemptsBounded
  <1>1. JobInv => AttemptsBounded
    <2> SUFFICES ASSUME JobInv, NEW j \in JobId
                 PROVE  job[j].attempts <= IF job[j].limit = 0 THEN 1 ELSE job[j].limit
      BY DEF AttemptsBounded
    <2>1. job[j].attempts \in Nat /\ job[j].retries \in Nat /\ job[j].limit \in Nat
      BY DEF JobInv, JobTypeOK, Job
    <2>2. job[j].attempts <= job[j].retries
                             + (IF job[j].status \in {"queued", "unused"} THEN 0 ELSE 1)
      BY DEF JobInv, AttemptsCounted
    <2>3. job[j].retries = 0 \/ job[j].retries < job[j].limit
      BY DEF JobInv, RetriesBounded
    <2>4. QED BY <2>1, <2>2, <2>3
  <1>2. QED BY <1>1, JobInvariance, PTL

\* A RUNNING job loses its worker by nothing but the worker's death.
THEOREM OnlyDeathStrandsHolds == JobSpec => OnlyDeathStrands
  <1> DEFINE Kept == \A j \in JobId :
               (\E w \in Workers : HasJob(w, j)) /\ job'[j].status = "running"
                 => (\E w \in Workers : HasJob(w, j)') \/ deaths' # deaths
  <1>1. ASSUME JobInv, [JobNext]_jobVars, NEW j \in JobId, NEW w \in Workers, HasJob(w, j),
               job'[j].status = "running", deaths' = deaths
        PROVE  \E v \in Workers : HasJob(v, j)'
    <2>1. /\ worker \in [Workers -> Worker] /\ worker[w].job = j /\ worker[w].pc # "idle"
          /\ job \in [JobId -> Job] /\ job[j] \in Job /\ deaths \in Nat
      BY <1>1 DEF HasJob, JobInv, JobTypeOK
    <2>2. CASE worker'[w] = worker[w]
      BY <1>1, <2>2 DEF HasJob
    <2>3. CASE \E retry \in BOOLEAN : ReadRetries(w, retry)
      BY <2>1, <2>3 DEF ReadRetries, HasJob, Worker
    <2>4. ~CompleteJob(w) /\ ~WriteFailure(w)
      <3>1. CompleteJob(w) => job'[j].status = "completed"
        BY <2>1 DEF CompleteJob, Job
      <3>2. WriteFailure(w) => job'[j].status \in {"queued", "failed"}
        BY <2>1 DEF WriteFailure, Job
      <3>3. QED BY <1>1, <3>1, <3>2
    <2>5. ~(\E v \in Workers : WorkerDies(v)) /\ ~ClaimNext(w)
      <3>1. deaths' = deaths + 1 => FALSE
        BY <1>1, <2>1
      <3>2. QED BY <2>1, <3>1 DEF WorkerDies, ClaimNext
    <2>6. ASSUME NEW v \in Workers, ClaimNext(v) \/ Run(v), v # w PROVE worker'[w] = worker[w]
      BY <2>1, <2>6 DEF ClaimNext, Run, CompleteJob, ReadRetries, WriteFailure
    <2>7. CASE \/ UNCHANGED jobVars \/ \E limit \in RetryLimits : Enqueue(limit)
               \/ \E k \in JobId : Cancel(k)
      BY <2>2, <2>7 DEF jobVars, Enqueue, Cancel
    <2>8. QED BY <1>1, <2>2, <2>3, <2>4, <2>5, <2>6, <2>7 DEF JobNext, Run
  <1>2. JobInv /\ [JobNext]_jobVars => Kept
    BY <1>1
  <1>3. QED BY <1>2, JobInvariance, PTL DEF JobSpec, OnlyDeathStrands
=============================================================================
