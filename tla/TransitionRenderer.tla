------------------------- MODULE TransitionRenderer -------------------------
(***************************************************************************)
(* Transition renders: POST .../render, the reading routes that recover    *)
(* stale rows, cancel and delete (api/main.py), over transition_renderer.py*)
(* and the render_artifacts table (store/render_artifacts.py), called by   *)
(* the threads of FastAPI's pool; ffmpeg runs as a child process.          *)
(*                                                                         *)
(* Each SQL statement and each transaction is one step; everything a       *)
(* thread does between two of them (a subprocess, a file, a lock) is a     *)
(* step of its own.  A row's claim token is written once, with its id, so  *)
(* WHERE id=? AND claim_token=? says no more than WHERE id=? and the model *)
(* leaves the token out.  QUEUED rows are created by no route.             *)
(*                                                                         *)
(* A tick is MAX_EXPECTED_RENDER_TIME_SEC / EncodeLimit.  A row's age is   *)
(* the number of ticks since its started_at, saturating one past the       *)
(* threshold; a phase with limit n sees at most n ticks.                   *)
(***************************************************************************)
EXTENDS Naturals, FiniteSets

CONSTANTS
  Pairs,        \* (candidate, technique): what a render is a render of
  Threads,      \* threads of the pool
  MaxRenders,   \* bound on the AUTOINCREMENT id
  MeasureLimit, \* ticks both loudness measurements may take (_measure_loudness)
  EncodeLimit,  \* ticks ffmpeg may take (MAX_EXPECTED_RENDER_TIME_SEC)
  VerifyLimit,  \* ticks probing and measuring the output may take
  Forces,       \* the values of the request's force flag
  Stalls,       \* may a thread be held up for a tick between two steps?
  MaxFaults     \* bound on crashes and uncaught errors

ASSUME RenderAssumption ==
  /\ MaxRenders \in Nat
  /\ MeasureLimit \in Nat
  /\ EncodeLimit \in Nat
  /\ VerifyLimit \in Nat
  /\ Forces \subseteq BOOLEAN
  /\ Stalls \in BOOLEAN
  /\ MaxFaults \in Nat

VARIABLES
  up,      \* is the backend process running?
  pairs,   \* the pairs whose candidate is in the candidates table
  row,     \* row[i]: the render_artifacts row with id i
  last,    \* the last id AUTOINCREMENT gave out
  file,    \* file[i]: the output of render i under the store root
  encoder, \* encoder[i]: the ffmpeg process of render i
  owned,   \* _processes: the renders whose process is registered
  permits, \* _render_semaphore
  thread,  \* thread[t]: where thread t is in its handler
  faults   \* how many faults there have been

table == <<pairs, row, last>>
processes == <<file, encoder, owned>>
vars == <<up, table, processes, permits, thread, faults>>

-----------------------------------------------------------------------------
Id == 1 .. MaxRenders

\* STALE_RUNNING_AFTER_SEC = 2.0 * MAX_EXPECTED_RENDER_TIME_SEC
StaleAfter == 2 * EncodeLimit

Ages == 0 .. StaleAfter + 1

Older(age) == IF age > StaleAfter THEN age ELSE age + 1

Ended == {"completed", "failed", "cancelled"}

\* age is kept only while the row is running: nothing looks at it later.
Row == [status : {"unused", "running", "gone"} \cup Ended,
        pair : Pairs \cup {"none"}, age : Ages]

Unused == [status |-> "unused", pair |-> "none", age |-> 0]

Gone == [status |-> "gone", pair |-> "none", age |-> 0]

InTable(i) == row[i].status \in {"running"} \cup Ended

\* UPDATE ... SET status=how WHERE id=i
With(i, how) == [row EXCEPT ![i].status = how, ![i].age = 0]

RunningOf(p) == {i \in Id : row[i].status = "running" /\ row[i].pair = p}

\* Mutant: the comparison is off by one.
StaleEarly == {i \in Id : row[i].status = "running" /\ row[i].age >= StaleAfter}

\* Mutant: the threshold is doubled twice.
StaleLate == {i \in Id : row[i].status = "running" /\ row[i].age > 2 * StaleAfter}

\* The rows recover_stale_running reads and finds stale.
Stale == {i \in Id : row[i].status = "running" /\ row[i].age > StaleAfter}

Alive(i) == encoder[i] \in {"running", "stopping"}

-----------------------------------------------------------------------------
(* Threads: id is the render the thread works on, todo the stale rows it    *)
(* has still to mark failed, left what remains of the current time limit.   *)

RenderPC == {"recovering", "checking", "looking", "acquiring", "creating",
             "measuring", "encoding", "encoded", "verifying", "writing", "reading"}

OtherPC == {"sweeping", "cancelling", "stopped", "unlinking", "deleting"}

Thread == [pc : RenderPC \cup OtherPC, pair : Pairs \cup {"none"}, force : BOOLEAN,
           id : 0 .. MaxRenders, todo : SUBSET Id, left : Nat,
           outcome : {"completed", "failed"}]

\* Every thread with nothing to do looks the same.
Idle == [pc |-> "idle"]

Fresh == [pc |-> "sweeping", pair |-> "none", force |-> FALSE, id |-> 0,
          todo |-> {}, left |-> 0, outcome |-> "failed"]

At(t, pc) == thread[t].pc = pc

Busy(t) == ~At(t, "idle")

\* t holds the semaphore.
Holding(t) == thread[t].pc \in
  {"creating", "measuring", "encoding", "encoded", "verifying", "writing", "reading"}

\* t has a row that it has not yet written the outcome of.
Executing(t) == thread[t].pc \in {"measuring", "encoding", "encoded", "verifying", "writing"}

Worked(i) == \E t \in Threads : Executing(t) /\ thread[t].id = i

Deleting(i) == \E t \in Threads : At(t, "deleting") /\ thread[t].id = i

Goto(t, pc) == thread' = [thread EXCEPT ![t].pc = pc]

Return(t) == thread' = [thread EXCEPT ![t] = Idle]

Fault == faults < MaxFaults /\ faults' = faults + 1

-----------------------------------------------------------------------------
(* recover_stale_running: one SELECT, then one UPDATE per stale row.        *)

\* render_candidate begins with it ...
AskRender(t, p, force) ==
  /\ up /\ ~Busy(t)
  /\ thread' = [thread EXCEPT ![t] =
       [Fresh EXCEPT !.pc = "recovering", !.pair = p, !.force = force, !.todo = Stale]]
  /\ UNCHANGED <<up, table, processes, permits, faults>>

\* ... and so do the routes that list, get and stream renders.  When nothing
\* is stale they change nothing.
AskRead(t) ==
  /\ up /\ ~Busy(t)
  /\ Stale # {}
  /\ thread' = [thread EXCEPT ![t] = [Fresh EXCEPT !.todo = Stale]]
  /\ UNCHANGED <<up, table, processes, permits, faults>>

\* The UPDATE names the row by its id alone, whatever has become of it since.
RecoverOne(t) ==
  /\ thread[t].pc \in {"recovering", "sweeping"}
  /\ \E i \in thread[t].todo :
       /\ row' = IF InTable(i) THEN With(i, "failed") ELSE row
       /\ thread' = [thread EXCEPT ![t].todo = @ \ {i}]
  /\ UNCHANGED <<up, pairs, last, processes, permits, faults>>

Recovered(t) ==
  /\ thread[t].pc \in {"recovering", "sweeping"}
  /\ thread[t].todo = {}
  /\ IF At(t, "recovering") THEN Goto(t, "checking") ELSE Return(t)
  /\ UNCHANGED <<up, table, processes, permits, faults>>

-----------------------------------------------------------------------------
(* render_candidate *)

\* prepare_render finds the candidate (otherwise 404) and its sources fit to
\* render (otherwise 400).
Prepare(t) ==
  /\ At(t, "checking")
  /\ \/ thread[t].pair \in pairs /\ Goto(t, "looking")
     \/ Return(t)
  /\ UNCHANGED <<up, table, processes, permits, faults>>

\* Unless forced, a completed render of the pair is the answer.
LatestCompleted(t) ==
  /\ At(t, "looking")
  /\ IF ~thread[t].force /\ \E i \in Id : row[i].status = "completed"
                                          /\ row[i].pair = thread[t].pair
       THEN Return(t)
       ELSE Goto(t, "acquiring")
  /\ UNCHANGED <<up, table, processes, permits, faults>>

\* Mutant: the refusal releases a semaphore it has not acquired.
ConflictReleases(t) ==
  /\ At(t, "acquiring")
  /\ RunningOf(thread[t].pair) # {}
  /\ permits' = permits + 1
  /\ Return(t)
  /\ UNCHANGED <<up, table, processes, faults>>

\* find_running: 409 with the active render's id.
Conflict(t) ==
  /\ At(t, "acquiring")
  /\ RunningOf(thread[t].pair) # {}
  /\ Return(t)
  /\ UNCHANGED <<up, table, processes, permits, faults>>

\* Mutant: the answer of acquire(blocking=False) is ignored.
AcquireIgnored(t) ==
  /\ At(t, "acquiring")
  /\ permits' = IF permits > 0 THEN permits - 1 ELSE permits
  /\ Goto(t, "creating")
  /\ UNCHANGED <<up, table, processes, faults>>

\* find_running saw none, perhaps a while ago: acquire(blocking=False).
Acquire(t) ==
  /\ At(t, "acquiring")
  /\ permits > 0
  /\ permits' = permits - 1
  /\ Goto(t, "creating")
  /\ UNCHANGED <<up, table, processes, faults>>

\* 409: another render is already running.
Unavailable(t) ==
  /\ At(t, "acquiring")
  /\ permits = 0
  /\ Return(t)
  /\ UNCHANGED <<up, table, processes, permits, faults>>

\* Mutant: the transaction does not look for a RUNNING row again.
CreateUnchecked(t) ==
  LET p == thread[t].pair IN
  /\ At(t, "creating")
  /\ p \in pairs
  /\ last < MaxRenders
  /\ last' = last + 1
  /\ row' = [row EXCEPT ![last + 1] = [status |-> "running", pair |-> p, age |-> 0]]
  /\ thread' = [thread EXCEPT ![t].pc = "measuring", ![t].id = last + 1,
                              ![t].left = MeasureLimit, ![t].force = FALSE]
  /\ UNCHANGED <<up, pairs, processes, permits, faults>>

\* create_running: the transaction inserts the RUNNING row.
CreateRunning(t) ==
  LET p == thread[t].pair IN
  /\ At(t, "creating")
  /\ p \in pairs /\ RunningOf(p) = {}
  /\ last < MaxRenders
  /\ last' = last + 1
  /\ row' = [row EXCEPT ![last + 1] = [status |-> "running", pair |-> p, age |-> 0]]
  /\ thread' = [thread EXCEPT ![t].pc = "measuring", ![t].id = last + 1,
                              ![t].left = MeasureLimit, ![t].force = FALSE]
  /\ UNCHANGED <<up, pairs, processes, permits, faults>>

\* RunningRenderExists, or a candidate that is gone: the finally clause
\* releases the semaphore.  (At MaxRenders the model stops rendering.)
CreateRefused(t) ==
  LET p == thread[t].pair IN
  /\ At(t, "creating")
  /\ p \notin pairs \/ RunningOf(p) # {} \/ last = MaxRenders
  /\ permits' = permits + 1
  /\ Return(t)
  /\ UNCHANGED <<up, table, processes, faults>>

-----------------------------------------------------------------------------
(* _execute_render *)

\* Both sources are measured, ffmpeg is started and registered.
StartEncoder(t) ==
  LET i == thread[t].id IN
  /\ At(t, "measuring")
  /\ file' = [file EXCEPT ![i] = "partial"]
  /\ encoder' = [encoder EXCEPT ![i] = "running"]
  /\ owned' = owned \cup {i}
  /\ thread' = [thread EXCEPT ![t].pc = "encoding", ![t].left = EncodeLimit]
  /\ UNCHANGED <<up, table, permits, faults>>

\* communicate() returns; the finally clause pops the process.
Collect(t) ==
  LET i == thread[t].id IN
  /\ At(t, "encoding")
  /\ encoder[i] \in {"succeeded", "broke"}
  /\ encoder' = [encoder EXCEPT ![i] = "none"]
  /\ owned' = owned \ {i}
  /\ thread' = [thread EXCEPT ![t].pc = "encoded", ![t].left = 0,
       ![t].outcome = IF encoder[i] = "succeeded" THEN "completed" ELSE "failed"]
  /\ UNCHANGED <<up, table, file, permits, faults>>

\* Mutant: communicate() without a timeout.
EncodeTimesOutNever(t) == FALSE

\* TimeoutExpired: kill and wait.  The process is popped only after fail().
EncodeTimesOut(t) ==
  LET i == thread[t].id IN
  /\ At(t, "encoding")
  /\ thread[t].left = 0
  /\ Alive(i)
  /\ encoder' = [encoder EXCEPT ![i] = "none"]
  /\ thread' = [thread EXCEPT ![t].pc = "writing", ![t].outcome = "failed"]
  /\ UNCHANGED <<up, table, file, owned, permits, faults>>

\* Mutant: the render is answered as it is when ffmpeg failed, too.
RereadReturnsFailed(t) ==
  /\ At(t, "encoded")
  /\ IF thread[t].outcome = "failed"
       THEN Return(t) /\ permits' = permits + 1
       ELSE /\ thread' = [thread EXCEPT ![t].pc = "verifying", ![t].left = VerifyLimit]
            /\ UNCHANGED permits
  /\ UNCHANGED <<up, table, processes, faults>>

\* Mutant: the exit code is not looked at.
RereadIgnoresExit(t) ==
  LET i == thread[t].id IN
  /\ At(t, "encoded")
  /\ IF row[i].status = "cancelled"
       THEN Return(t) /\ permits' = permits + 1
       ELSE /\ thread' = [thread EXCEPT ![t].pc = "verifying", ![t].left = VerifyLimit,
                                        ![t].outcome = "completed"]
            /\ UNCHANGED permits
  /\ UNCHANGED <<up, table, processes, faults>>

\* Re-read the row: a cancelled render is answered as it is.
Reread(t) ==
  LET i == thread[t].id IN
  /\ At(t, "encoded")
  /\ IF row[i].status = "cancelled"
       THEN Return(t) /\ permits' = permits + 1
       ELSE /\ IF thread[t].outcome = "completed"
                 THEN thread' = [thread EXCEPT ![t].pc = "verifying", ![t].left = VerifyLimit]
                 ELSE Goto(t, "writing")
            /\ UNCHANGED permits
  /\ UNCHANGED <<up, table, processes, faults>>

\* Probe and measure the output: it passes only if it is there, and not silent.
\* That it is whole is known from ffmpeg's exit code alone.
Verify(t) ==
  /\ At(t, "verifying")
  /\ \/ thread' = [thread EXCEPT ![t].pc = "writing", ![t].left = 0]
        /\ file[thread[t].id] # "none"
     \/ thread' = [thread EXCEPT ![t].pc = "writing", ![t].left = 0, ![t].outcome = "failed"]
  /\ UNCHANGED <<up, table, processes, permits, faults>>

\* An exception nothing catches (no ffmpeg to run, a database error at the re-read
\* or in the terminal write, a probe that hangs past its own timeout): the
\* semaphore is released, the row stays RUNNING.
Raises(t) ==
  /\ thread[t].pc \in {"measuring", "encoded", "verifying", "writing"}
  /\ Fault
  /\ owned' = owned \ {thread[t].id}
  /\ permits' = permits + 1
  /\ Return(t)
  /\ UNCHANGED <<up, table, file, encoder>>

\* Mutant: UPDATE ... WHERE id AND claim_token, whatever the status.
TerminalWriteUnguarded(t) ==
  LET i == thread[t].id IN
  /\ At(t, "writing")
  /\ row' = IF InTable(i) THEN With(i, thread[t].outcome) ELSE row
  /\ Goto(t, "reading")
  /\ UNCHANGED <<up, pairs, last, processes, permits, faults>>

\* complete / fail: UPDATE ... WHERE id AND claim_token AND status='running'.
TerminalWrite(t) ==
  LET i == thread[t].id IN
  /\ At(t, "writing")
  /\ row' = IF row[i].status = "running" THEN With(i, thread[t].outcome) ELSE row
  /\ Goto(t, "reading")
  /\ UNCHANGED <<up, pairs, last, processes, permits, faults>>

\* Re-read for the answer; without a row that is a RuntimeError.  Either way
\* the process is no longer registered and the semaphore is released.
ReadBack(t) ==
  /\ At(t, "reading")
  /\ owned' = owned \ {thread[t].id}
  /\ permits' = permits + 1
  /\ Return(t)
  /\ UNCHANGED <<up, table, file, encoder, faults>>

-----------------------------------------------------------------------------
(* cancel_render: otherwise 404 or 409 and nothing changes. *)

AskCancel(t, i) ==
  /\ up /\ ~Busy(t)
  /\ row[i].status = "running"
  /\ thread' = [thread EXCEPT ![t] = [Fresh EXCEPT !.pc = "cancelling", !.id = i]]
  /\ UNCHANGED <<up, table, processes, permits, faults>>

\* 409: "running render is not owned by this backend worker".
CancelRefused(t) ==
  /\ At(t, "cancelling")
  /\ thread[t].id \notin owned
  /\ Return(t)
  /\ UNCHANGED <<up, table, processes, permits, faults>>

Terminate(t) ==
  LET i == thread[t].id IN
  /\ At(t, "cancelling")
  /\ i \in owned
  /\ encoder' = IF encoder[i] = "running" THEN [encoder EXCEPT ![i] = "stopping"] ELSE encoder
  /\ Goto(t, "stopped")
  /\ UNCHANGED <<up, table, file, owned, permits, faults>>

\* UPDATE ... SET status='cancelled' WHERE id AND status IN ('queued', 'running').
CancelWrite(t) ==
  LET i == thread[t].id IN
  /\ At(t, "stopped")
  /\ row' = IF row[i].status = "running" THEN With(i, "cancelled") ELSE row
  /\ Return(t)
  /\ UNCHANGED <<up, pairs, last, processes, permits, faults>>

-----------------------------------------------------------------------------
(* DELETE /api/renders/{id}: the file first, then the row. *)

AskDelete(t, i) ==
  /\ up /\ ~Busy(t)
  /\ InTable(i)
  /\ thread' = [thread EXCEPT ![t] = [Fresh EXCEPT !.pc = "unlinking", !.id = i]]
  /\ UNCHANGED <<up, table, processes, permits, faults>>

\* An encoder that has the file open goes on writing to it, but to no path.  An
\* OSError is logged, and the row goes all the same.
Unlink(t) ==
  /\ At(t, "unlinking")
  /\ \/ file' = [file EXCEPT ![thread[t].id] = "none"]
     \/ UNCHANGED file
  /\ Goto(t, "deleting")
  /\ UNCHANGED <<up, table, encoder, owned, permits, faults>>

DeleteRow(t) ==
  LET i == thread[t].id IN
  /\ At(t, "deleting")
  /\ row' = IF InTable(i) THEN [row EXCEPT ![i] = Gone] ELSE row
  /\ Return(t)
  /\ UNCHANGED <<up, pairs, last, processes, permits, faults>>

\* A graph rebuild no longer produces the candidate, or its project is deleted:
\* the renders cascade, their files stay.  The pair never comes back, as a
\* candidate built later has another id.
DropCandidate(p) ==
  /\ up
  /\ p \in pairs
  /\ pairs' = pairs \ {p}
  /\ row' = [i \in Id |-> IF InTable(i) /\ row[i].pair = p THEN Gone ELSE row[i]]
  /\ UNCHANGED <<up, last, processes, permits, thread, faults>>

-----------------------------------------------------------------------------
(* ffmpeg, the process and time. *)

\* A terminated ffmpeg exits with an error; otherwise it succeeds or not.  The
\* process of a backend that crashed goes on alone.
EncoderExits(i, how) ==
  /\ Alive(i)
  /\ how = "succeeded" => encoder[i] = "running"
  /\ encoder' = [encoder EXCEPT ![i] = IF i \in owned THEN how ELSE "none"]
  /\ file' = IF how = "succeeded" /\ file[i] = "partial"
               THEN [file EXCEPT ![i] = "whole"] ELSE file
  /\ UNCHANGED <<up, table, owned, permits, thread, faults>>

\* The process dies: threads, semaphore and _processes with it, of the encoders
\* any that do not survive it.
Crash ==
  /\ up /\ Fault
  /\ up' = FALSE
  /\ thread' = [t \in Threads |-> Idle]
  /\ permits' = 1
  /\ owned' = {}
  /\ \E survivors \in SUBSET {i \in Id : Alive(i)} :
       encoder' = [i \in Id |-> IF i \in survivors THEN encoder[i] ELSE "none"]
  /\ UNCHANGED <<table, file>>

\* lifespan recovers before the first request is served.
Restart ==
  /\ ~up
  /\ up' = TRUE
  /\ row' = [i \in Id |-> IF i \in Stale THEN [row[i] EXCEPT !.status = "failed", !.age = 0]
                                         ELSE row[i]]
  /\ UNCHANGED <<pairs, last, processes, permits, thread, faults>>

\* t is where it is because it waits for a request or for a subprocess.
Settled(t) ==
  \/ thread[t].pc \in {"idle", "measuring", "verifying"}
  \/ At(t, "encoding") /\ Alive(thread[t].id)

\* Time passes, never past the limit of a phase in progress.
Tick ==
  LET timed == {t \in Threads : thread[t].pc \in {"measuring", "encoding", "verifying"}} IN
  /\ \A t \in timed : thread[t].left > 0
  /\ Stalls \/ \A t \in Threads : Settled(t)
  /\ row' = [i \in Id |-> IF row[i].status = "running"
                            THEN [row[i] EXCEPT !.age = Older(@)] ELSE row[i]]
  /\ thread' = [t \in Threads |-> IF t \in timed
                            THEN [thread[t] EXCEPT !.left = @ - 1] ELSE thread[t]]
  /\ UNCHANGED <<up, pairs, last, processes, permits, faults>>

-----------------------------------------------------------------------------
Init ==
  /\ up = TRUE
  /\ pairs = Pairs
  /\ row = [i \in Id |-> Unused]
  /\ last = 0
  /\ file = [i \in Id |-> "none"]
  /\ encoder = [i \in Id |-> "none"]
  /\ owned = {}
  /\ permits = 1
  /\ thread = [t \in Threads |-> Idle]
  /\ faults = 0

Begin(t) ==
  \/ \E p \in Pairs, force \in Forces : AskRender(t, p, force)
  \/ AskRead(t)
  \/ \E i \in Id : AskCancel(t, i)
  \/ \E i \in Id : AskDelete(t, i)

\* The steps a thread takes on its own, once its handler has begun.
Continue(t) ==
  \/ RecoverOne(t)
  \/ Recovered(t)
  \/ Prepare(t)
  \/ LatestCompleted(t)
  \/ Conflict(t)
  \/ Acquire(t)
  \/ Unavailable(t)
  \/ CreateRunning(t)
  \/ CreateRefused(t)
  \/ StartEncoder(t)
  \/ Collect(t)
  \/ EncodeTimesOut(t)
  \/ Reread(t)
  \/ Verify(t)
  \/ TerminalWrite(t)
  \/ ReadBack(t)
  \/ CancelRefused(t)
  \/ Terminate(t)
  \/ CancelWrite(t)
  \/ Unlink(t)
  \/ DeleteRow(t)

Next ==
  \/ \E t \in Threads : Begin(t) \/ Continue(t) \/ Raises(t)
  \/ \E p \in Pairs : DropCandidate(p)
  \/ \E i \in Id, how \in {"succeeded", "broke"} : EncoderExits(i, how)
  \/ Crash
  \/ Restart
  \/ Tick

Spec == Init /\ [][Next]_vars

-----------------------------------------------------------------------------
(* Fairness.  A thread runs its handler to the end, as every subprocess it   *)
(* waits for has a timeout; time passes; a backend that is down is started.  *)

HandlerFairness ==
  /\ \A t \in Threads : WF_vars(Continue(t))
  /\ WF_vars(Tick)
  /\ WF_vars(Restart)

\* The library page lists its renders every five seconds (LibraryPage.tsx 173).
PagesKeepPolling == SF_vars(\E t \in Threads : AskRead(t))

FairSpec == Spec /\ HandlerFairness /\ PagesKeepPolling

-----------------------------------------------------------------------------
(* Properties. *)

\* The variables are what the tables, the file system and the process can hold.
TypeOK ==
  /\ up \in BOOLEAN
  /\ pairs \subseteq Pairs
  /\ row \in [Id -> Row]
  /\ last \in 0 .. MaxRenders
  /\ file \in [Id -> {"none", "partial", "whole"}]
  /\ encoder \in [Id -> {"none", "running", "stopping", "succeeded", "broke"}]
  /\ owned \subseteq Id
  /\ permits \in 0 .. 1
  /\ thread \in [Threads -> Thread \cup {Idle}]
  /\ faults \in 0 .. MaxFaults

\* One RUNNING row per candidate and technique, however requests, orphans of a
\* crash and recoveries interleave (render_artifacts.py 128-132).
OneRunningPerPair ==
  \A i, j \in Id : row[i].status = "running" /\ row[j].status = "running" /\ i # j
                     => row[i].pair # row[j].pair

\* This process runs one ffmpeg at a time, also after renders that were refused,
\* cancelled, timed out, or raised (transition_renderer.py 73).
OneEncoder ==
  \A i, j \in Id : Alive(i) /\ Alive(j) /\ Worked(i) /\ Worked(j) => i = j

\* A row becomes COMPLETED only with its file in place, unless a delete that has
\* taken the file already is about to take the row.
CompletedWithFile ==
  [][\A i \in Id : row[i].status # "completed" /\ row'[i].status = "completed"
                     => file'[i] = "whole" \/ Deleting(i)]_vars

\* No late worker undoes a cancel: a cancelled render never becomes COMPLETED,
\* whatever the time limits are (test_render_store.py 238-263).
CancelStands ==
  [][\A i \in Id : row[i].status = "cancelled" => row'[i].status # "completed"]_vars

\* Only a fault leaves a RUNNING row behind: a thread whose row is still RUNNING
\* does not otherwise stop working on it and leave it so.
OnlyFaultsOrphan ==
  [][\A t \in Threads :
       Executing(t) /\ ~Executing(t)' /\ faults' = faults
         => row'[thread[t].id].status # "running"]_vars

\* Every request ends.
RequestsEnd == \A t \in Threads : Busy(t) ~> ~Busy(t)

\* A RUNNING row that no thread works on is recovered by the pages' polling, and
\* so does not block its pair for good (render_artifacts.py 286-287).
OrphanRecovered ==
  \A i \in Id : row[i].status = "running" /\ ~Worked(i) ~> row[i].status # "running"

\* Recovery marks RUNNING rows failed (render_artifacts.py 287), so a COMPLETED
\* render stays COMPLETED until it is deleted.  Not kept: a live render may take
\* longer than STALE_RUNNING_AFTER_SEC, and the UPDATE does not test the status.
CompletedStays ==
  [][\A i \in Id : row[i].status = "completed"
                     => row'[i].status \in {"completed", "gone"}]_vars

-----------------------------------------------------------------------------
(* The inductive invariant behind OneEncoder and OnlyFaultsOrphan. *)

\* The semaphore counts its holders: one of them, or the one permit.
SemaphoreHeld ==
  /\ \A t, u \in Threads : Holding(t) /\ Holding(u) => t = u
  /\ permits = 1 => \A t \in Threads : ~Holding(t)

\* A thread past its first look works on a render that has an id.
OnRender(t) ==
  Executing(t) \/ thread[t].pc \in {"reading", "cancelling", "stopped", "unlinking", "deleting"}

WorksOnId == \A t \in Threads : OnRender(t) => thread[t].id \in Id

IInv == TypeOK /\ SemaphoreHeld /\ WorksOnId /\ OneRunningPerPair

-----------------------------------------------------------------------------
Lifecycle == INSTANCE RenderLifecycle WITH render <- [i \in Id |-> row[i].status]

\* Refinement: see RenderLifecycle.  It holds as long as no live render outlasts
\* STALE_RUNNING_AFTER_SEC.
ImplementsRenderLifecycle == Lifecycle!Spec
=============================================================================
