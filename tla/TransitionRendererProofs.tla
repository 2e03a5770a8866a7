---------------------- MODULE TransitionRendererProofs ----------------------
(* Theorems about TransitionRenderer, for any pairs, threads and limits. *)
EXTENDS TransitionRenderer, TLAPS

USE RenderAssumption

-----------------------------------------------------------------------------
(* Types. *)

LEMMA IdleFacts == Idle \notin Thread /\ Idle.pc = "idle"
  BY DEF Idle, Thread

\* A thread that is busy has every field of a thread.
LEMMA BusyType ==
  ASSUME TypeOK, NEW t \in Threads, thread[t].pc # "idle"
  PROVE  thread[t] \in Thread
  BY IdleFacts DEF TypeOK

LEMMA AgeTypes == 0 \in Ages /\ \A a \in Ages : Older(a) \in Ages
  BY DEF Ages, Older, StaleAfter

LEMMA RowTypes == Unused \in Row /\ Gone \in Row
  BY AgeTypes DEF Unused, Gone, Row

LEMMA ZeroId == 0 \in 0 .. MaxRenders /\ 0 \in Nat /\ Id \subseteq 0 .. MaxRenders
  BY DEF Id

LEMMA StaleType == Stale \in SUBSET Id
  BY DEF Stale

LEMMA WithType ==
  ASSUME TypeOK, NEW i \in Id, NEW how \in Ended
  PROVE  With(i, how) \in [Id -> Row]
  BY AgeTypes DEF TypeOK, With, Row

LEMMA InvInit == Init => IInv
  <1> SUFFICES ASSUME Init PROVE IInv
    OBVIOUS
  <1>1. TypeOK
    BY RowTypes DEF Init, TypeOK
  <1>2. SemaphoreHeld /\ WorksOnId
    BY DEF Init, SemaphoreHeld, WorksOnId, OnRender, Holding, Executing, Idle
  <1>3. OneRunningPerPair
    BY DEF Init, OneRunningPerPair, Unused
  <1>4. QED BY <1>1, <1>2, <1>3 DEF IInv

-----------------------------------------------------------------------------
(* How a step may disturb the invariant. *)

\* Thread t moves without touching the semaphore, unless to let go of it.
LEMMA Moves ==
  ASSUME IInv, NEW t \in Threads,
         \A u \in Threads \ {t} : thread'[u] = thread[u],
         permits' = permits, Holding(t)' => Holding(t),
         OnRender(t)' => thread'[t].id \in Id
  PROVE  SemaphoreHeld' /\ WorksOnId'
  BY DEF IInv, SemaphoreHeld, WorksOnId, Holding, OnRender, Executing

\* Thread t releases the semaphore.
LEMMA Releases ==
  ASSUME IInv, NEW t \in Threads,
         \A u \in Threads \ {t} : thread'[u] = thread[u],
         Holding(t), permits' = permits + 1, thread'[t] = Idle
  PROVE  permits' \in 0 .. 1 /\ SemaphoreHeld' /\ WorksOnId'
  <1>1. permits = 0
    BY DEF IInv, SemaphoreHeld, TypeOK
  <1>2. ~Holding(t)' /\ ~OnRender(t)'
    BY DEF Holding, OnRender, Executing, Idle
  <1>3. QED
    BY <1>1, <1>2 DEF IInv, SemaphoreHeld, WorksOnId, Holding, OnRender, Executing

\* No row starts to run.
LEMMA NoneStarts ==
  ASSUME IInv,
         \A i \in Id : row'[i].status = "running"
                         => row[i].status = "running" /\ row'[i].pair = row[i].pair
  PROVE  OneRunningPerPair'
  BY DEF IInv, OneRunningPerPair

\* A row is updated to an end, or not at all.
LEMMA Updates ==
  ASSUME IInv, NEW i \in Id, NEW how \in Ended, row' = With(i, how) \/ row' = row
  PROVE  row' \in [Id -> Row] /\ OneRunningPerPair'
  <1>1. row' \in [Id -> Row]
    BY WithType DEF IInv, TypeOK
  <1>2. \A j \in Id : row'[j].status = "running"
                        => row[j].status = "running" /\ row'[j].pair = row[j].pair
    BY DEF With, IInv, TypeOK, Row, Ended
  <1>3. QED BY <1>1, <1>2, NoneStarts

-----------------------------------------------------------------------------
(* The steps, one lemma per handler. *)

LEMMA InvBegin ==
  ASSUME IInv, NEW t \in Threads, Begin(t)
  PROVE  IInv'
  <1>1. PICK r \in Thread : /\ thread' = [thread EXCEPT ![t] = r]
                            /\ r.pc \in {"recovering", "sweeping", "cancelling", "unlinking"}
                            /\ r.pc \in {"cancelling", "unlinking"} => r.id \in Id
    <2>1. CASE \E p \in Pairs, force \in Forces : AskRender(t, p, force)
      <3>1. PICK p \in Pairs, force \in Forces : AskRender(t, p, force)
        BY <2>1
      <3> DEFINE r == [Fresh EXCEPT !.pc = "recovering", !.pair = p, !.force = force,
                                    !.todo = Stale]
      <3>2. r \in Thread /\ r.pc = "recovering"
        BY StaleType, ZeroId DEF Thread, RenderPC, Fresh
      <3>3. QED BY <3>1, <3>2 DEF AskRender
    <2>2. CASE AskRead(t)
      <3> DEFINE r == [Fresh EXCEPT !.todo = Stale]
      <3>1. r \in Thread /\ r.pc = "sweeping"
        BY StaleType, ZeroId DEF Thread, OtherPC, Fresh
      <3>2. QED BY <2>2, <3>1 DEF AskRead
    <2>3. CASE \E i \in Id : AskCancel(t, i)
      <3>1. PICK i \in Id : AskCancel(t, i)
        BY <2>3
      <3> DEFINE r == [Fresh EXCEPT !.pc = "cancelling", !.id = i]
      <3>2. r \in Thread /\ r.pc = "cancelling" /\ r.id = i
        BY ZeroId DEF Thread, OtherPC, Fresh
      <3>3. QED BY <3>1, <3>2 DEF AskCancel
    <2>4. CASE \E i \in Id : AskDelete(t, i)
      <3>1. PICK i \in Id : AskDelete(t, i)
        BY <2>4
      <3> DEFINE r == [Fresh EXCEPT !.pc = "unlinking", !.id = i]
      <3>2. r \in Thread /\ r.pc = "unlinking" /\ r.id = i
        BY ZeroId DEF Thread, OtherPC, Fresh
      <3>3. QED BY <3>1, <3>2 DEF AskDelete
    <2>5. QED BY <2>1, <2>2, <2>3, <2>4 DEF Begin
  <1>2. UNCHANGED <<up, table, processes, permits, faults>>
    BY DEF Begin, AskRender, AskRead, AskCancel, AskDelete
  <1>3. TypeOK'
    BY <1>1, <1>2 DEF IInv, TypeOK, table, processes
  <1>4. thread'[t] = r /\ \A u \in Threads \ {t} : thread'[u] = thread[u]
    BY <1>1 DEF IInv, TypeOK
  <1>5. SemaphoreHeld' /\ WorksOnId'
    BY <1>1, <1>2, <1>4, Moves DEF Holding, OnRender, Executing
  <1>6. OneRunningPerPair'
    BY <1>2, NoneStarts DEF table
  <1>7. QED BY <1>3, <1>5, <1>6 DEF IInv

\* A thread that only looks at the tables and goes on, or returns.
LEMMA InvLooks ==
  ASSUME IInv, NEW t \in Threads,
         \/ Recovered(t) \/ Prepare(t) \/ LatestCompleted(t)
         \/ Conflict(t) \/ Unavailable(t) \/ CancelRefused(t)
  PROVE  IInv'
  <1>1. UNCHANGED <<up, table, processes, permits, faults>>
    BY DEF Recovered, Prepare, LatestCompleted, Conflict, Unavailable, CancelRefused
  <1>2. ~Holding(t) /\ Busy(t)
    BY DEF Recovered, Prepare, LatestCompleted, Conflict, Unavailable, CancelRefused,
           At, Busy, Holding
  <1>3. thread[t] \in Thread
    BY <1>2, BusyType DEF Busy, At, IInv
  <1>4. PICK r \in Thread \cup {Idle} : /\ thread' = [thread EXCEPT ![t] = r]
                            /\ r.pc \in {"checking", "looking", "acquiring", "idle"}
    <2>1. CASE \E pc \in {"checking", "looking", "acquiring"} : Goto(t, pc)
      <3>1. PICK pc \in {"checking", "looking", "acquiring"} : Goto(t, pc)
        BY <2>1
      <3> DEFINE r == [thread[t] EXCEPT !.pc = pc]
      <3>2. r \in Thread /\ r.pc = pc
        BY <1>3 DEF Thread, RenderPC
      <3>3. QED BY <3>1, <3>2 DEF Goto
    <2>2. CASE Return(t)
      BY <2>2, IdleFacts DEF Return
    <2>3. QED BY <2>1, <2>2
           DEF Recovered, Prepare, LatestCompleted, Conflict, Unavailable, CancelRefused
  <1>5. TypeOK'
    BY <1>1, <1>4 DEF IInv, TypeOK, table, processes
  <1>6. thread'[t] = r /\ \A u \in Threads \ {t} : thread'[u] = thread[u]
    BY <1>4 DEF IInv, TypeOK
  <1>7. SemaphoreHeld' /\ WorksOnId'
    BY <1>1, <1>4, <1>6, Moves DEF Holding, OnRender, Executing
  <1>8. OneRunningPerPair'
    BY <1>1, NoneStarts DEF table
  <1>9. QED BY <1>5, <1>7, <1>8 DEF IInv

LEMMA InvAcquire ==
  ASSUME IInv, NEW t \in Threads, Acquire(t)
  PROVE  IInv'
  <1>1. thread[t] \in Thread
    BY BusyType DEF Acquire, At, IInv
  <1>2. /\ thread'[t] = [thread[t] EXCEPT !.pc = "creating"]
        /\ \A u \in Threads \ {t} : thread'[u] = thread[u]
    BY DEF Acquire, Goto, IInv, TypeOK
  <1>3. permits = 1 /\ permits' = 0 /\ UNCHANGED <<up, table, processes, faults>>
    BY DEF Acquire, IInv, TypeOK
  <1>4. thread' \in [Threads -> Thread \cup {Idle}]
    BY <1>1 DEF Acquire, Goto, IInv, TypeOK, Thread, RenderPC
  <1>5. TypeOK'
    BY <1>3, <1>4 DEF IInv, TypeOK, table, processes
  <1>6. SemaphoreHeld' /\ WorksOnId'
    BY <1>1, <1>2, <1>3
       DEF IInv, SemaphoreHeld, WorksOnId, Holding, OnRender, Executing, Thread
  <1>7. OneRunningPerPair'
    BY <1>3, NoneStarts DEF table
  <1>8. QED BY <1>5, <1>6, <1>7 DEF IInv

LEMMA InvCreate ==
  ASSUME IInv, NEW t \in Threads, CreateRunning(t)
  PROVE  IInv'
  <1> DEFINE p == thread[t].pair
             new == [status |-> "running", pair |-> p, age |-> 0]
  <1>1. thread[t] \in Thread
    BY BusyType DEF CreateRunning, At, IInv
  <1>2. last + 1 \in Id
    BY DEF CreateRunning, IInv, TypeOK, Id
  <1>3. new \in Row
    BY <1>1, AgeTypes DEF Row, Thread
  <1>4. row' \in [Id -> Row] /\ last' \in 0 .. MaxRenders
    BY <1>2, <1>3 DEF CreateRunning, IInv, TypeOK
  <1>5. /\ thread'[t] = [thread[t] EXCEPT !.pc = "measuring", !.id = last + 1,
                                          !.left = MeasureLimit, !.force = FALSE]
        /\ \A u \in Threads \ {t} : thread'[u] = thread[u]
    BY DEF CreateRunning, IInv, TypeOK
  <1>6. thread'[t] \in Thread /\ thread'[t].pc = "measuring" /\ thread'[t].id = last + 1
    BY <1>1, <1>2, <1>5, ZeroId DEF Thread, RenderPC
  <1>7. thread' \in [Threads -> Thread \cup {Idle}]
    BY <1>5, <1>6 DEF CreateRunning, IInv, TypeOK
  <1>8. TypeOK'
    BY <1>4, <1>7 DEF CreateRunning, IInv, TypeOK, processes
  <1>9. Holding(t) /\ permits' = permits
    BY DEF CreateRunning, At, Holding
  <1>10. SemaphoreHeld' /\ WorksOnId'
    BY <1>2, <1>5, <1>6, <1>9, Moves
  <1>11. OneRunningPerPair'
    <2>1. /\ row'[last + 1].pair = p
          /\ \A i \in Id \ {last + 1} : row'[i] = row[i]
      BY <1>2 DEF CreateRunning, IInv, TypeOK
    <2>2. \A i \in Id : row[i].status = "running" => row[i].pair # p
      BY DEF CreateRunning, RunningOf
    <2>3. QED BY <2>1, <2>2 DEF IInv, OneRunningPerPair
  <1>12. QED BY <1>8, <1>10, <1>11 DEF IInv

\* The steps that end a render and let go of the semaphore.
LEMMA InvReleases ==
  ASSUME IInv, NEW t \in Threads,
         CreateRefused(t) \/ ReadBack(t) \/ Raises(t) \/ (Reread(t) /\ Return(t))
  PROVE  IInv'
  <1>1. Holding(t) /\ Return(t) /\ permits' = permits + 1
    <2>1. CASE Reread(t) /\ Return(t)
      <3>1. thread[t] \in Thread
        BY <2>1, BusyType DEF Reread, At, IInv
      <3>2. thread'[t] = Idle
        BY <2>1 DEF Return, IInv, TypeOK
      <3>3. row[thread[t].id].status = "cancelled"
        <4> SUFFICES ASSUME row[thread[t].id].status # "cancelled" PROVE FALSE
          OBVIOUS
        <4>1. thread'[t] \in Thread
          BY <2>1, <3>1 DEF Reread, Goto, IInv, TypeOK, Thread, RenderPC
        <4>2. QED BY <3>2, <4>1, IdleFacts
      <3>4. QED BY <2>1, <3>3 DEF Reread, At, Holding
    <2>2. CASE CreateRefused(t) \/ ReadBack(t) \/ Raises(t)
      BY <2>2 DEF CreateRefused, ReadBack, Raises, At, Holding
    <2>3. QED BY <2>1, <2>2
  <1>2. thread'[t] = Idle /\ \A u \in Threads \ {t} : thread'[u] = thread[u]
    BY <1>1 DEF Return, IInv, TypeOK
  <1>3. permits' \in 0 .. 1 /\ SemaphoreHeld' /\ WorksOnId'
    BY <1>1, <1>2, Releases
  <1>4. UNCHANGED <<up, table, file, encoder>> /\ owned' \subseteq owned
    BY DEF CreateRefused, ReadBack, Raises, Reread, processes
  <1>5. faults' \in 0 .. MaxFaults
    BY DEF CreateRefused, ReadBack, Raises, Reread, Fault, IInv, TypeOK
  <1>6. TypeOK'
    BY <1>1, <1>3, <1>4, <1>5 DEF IInv, TypeOK, table, Return
  <1>7. OneRunningPerPair'
    BY <1>4, NoneStarts DEF table
  <1>8. QED BY <1>3, <1>6, <1>7 DEF IInv

\* A thread that goes on with its render, its row and the semaphore as they are.
LEMMA InvRenders ==
  ASSUME IInv, NEW t \in Threads,
         \/ StartEncoder(t) \/ Collect(t) \/ EncodeTimesOut(t) \/ Verify(t)
         \/ (Reread(t) /\ ~Return(t)) \/ Terminate(t) \/ Unlink(t)
  PROVE  IInv'
  <1>1. OnRender(t) /\ thread[t] \in Thread /\ thread[t].id \in Id
    <2>1. OnRender(t)
      BY DEF StartEncoder, Collect, EncodeTimesOut, Verify, Reread, Terminate, Unlink,
             At, OnRender, Executing
    <2>2. thread[t].pc # "idle"
      BY <2>1 DEF OnRender, Executing
    <2>3. QED BY <2>1, <2>2, BusyType DEF IInv, WorksOnId
  <1>2. UNCHANGED <<up, table, permits, faults>>
    BY DEF StartEncoder, Collect, EncodeTimesOut, Verify, Reread, Terminate, Unlink
  <1>3. /\ file' \in [Id -> {"none", "partial", "whole"}]
        /\ encoder' \in [Id -> {"none", "running", "stopping", "succeeded", "broke"}]
        /\ owned' \subseteq Id
    BY <1>1 DEF StartEncoder, Collect, EncodeTimesOut, Verify, Reread, Terminate, Unlink,
                processes, IInv, TypeOK
  <1>4. PICK r \in Thread : /\ thread' = [thread EXCEPT ![t] = r]
                            /\ r.id = thread[t].id
                            /\ Holding(t) \/ r.pc \in {"stopped", "deleting"}
    <2>1. CASE StartEncoder(t)
      <3> DEFINE r == [thread[t] EXCEPT !.pc = "encoding", !.left = EncodeLimit]
      <3>1. r \in Thread /\ r.id = thread[t].id
        BY <1>1 DEF Thread, RenderPC
      <3>2. QED BY <2>1, <3>1 DEF StartEncoder, At, Holding
    <2>2. CASE Collect(t)
      <3> DEFINE r == [thread[t] EXCEPT !.pc = "encoded", !.left = 0,
            !.outcome = IF encoder[thread[t].id] = "succeeded" THEN "completed" ELSE "failed"]
      <3>1. r \in Thread /\ r.id = thread[t].id
        BY <1>1 DEF Thread, RenderPC
      <3>2. QED BY <2>2, <3>1 DEF Collect, At, Holding
    <2>3. CASE EncodeTimesOut(t)
      <3> DEFINE r == [thread[t] EXCEPT !.pc = "writing", !.outcome = "failed"]
      <3>1. r \in Thread /\ r.id = thread[t].id
        BY <1>1 DEF Thread, RenderPC
      <3>2. QED BY <2>3, <3>1 DEF EncodeTimesOut, At, Holding
    <2>4. CASE Verify(t)
      <3> DEFINE r1 == [thread[t] EXCEPT !.pc = "writing", !.left = 0]
                 r2 == [thread[t] EXCEPT !.pc = "writing", !.left = 0, !.outcome = "failed"]
      <3>1. r1 \in Thread /\ r1.id = thread[t].id /\ r2 \in Thread /\ r2.id = thread[t].id
        BY <1>1 DEF Thread, RenderPC
      <3>2. QED BY <2>4, <3>1 DEF Verify, At, Holding
    <2>5. CASE Reread(t) /\ ~Return(t)
      <3> DEFINE r1 == [thread[t] EXCEPT !.pc = "verifying", !.left = VerifyLimit]
                 r2 == [thread[t] EXCEPT !.pc = "writing"]
      <3>1. r1 \in Thread /\ r1.id = thread[t].id /\ r2 \in Thread /\ r2.id = thread[t].id
        BY <1>1 DEF Thread, RenderPC
      <3>2. QED BY <2>5, <3>1 DEF Reread, Goto, At, Holding
    <2>6. CASE Terminate(t)
      <3> DEFINE r == [thread[t] EXCEPT !.pc = "stopped"]
      <3>1. r \in Thread /\ r.id = thread[t].id /\ r.pc = "stopped"
        BY <1>1 DEF Thread, OtherPC
      <3>2. QED BY <2>6, <3>1 DEF Terminate, Goto
    <2>7. CASE Unlink(t)
      <3> DEFINE r == [thread[t] EXCEPT !.pc = "deleting"]
      <3>1. r \in Thread /\ r.id = thread[t].id /\ r.pc = "deleting"
        BY <1>1 DEF Thread, OtherPC
      <3>2. QED BY <2>7, <3>1 DEF Unlink, Goto
    <2>8. QED BY <2>1, <2>2, <2>3, <2>4, <2>5, <2>6, <2>7
  <1>5. TypeOK'
    BY <1>2, <1>3, <1>4 DEF IInv, TypeOK, table
  <1>6. thread'[t] = r /\ \A u \in Threads \ {t} : thread'[u] = thread[u]
    BY <1>4 DEF IInv, TypeOK
  <1>7. SemaphoreHeld' /\ WorksOnId'
    BY <1>1, <1>2, <1>4, <1>6, Moves DEF Holding
  <1>8. OneRunningPerPair'
    BY <1>2, NoneStarts DEF table
  <1>9. QED BY <1>5, <1>7, <1>8 DEF IInv

\* A thread that updates or deletes one row by its id.
LEMMA InvWrites ==
  ASSUME IInv, NEW t \in Threads,
         RecoverOne(t) \/ TerminalWrite(t) \/ CancelWrite(t) \/ DeleteRow(t)
  PROVE  IInv'
  <1>1. thread[t] \in Thread /\ Busy(t)
    BY BusyType DEF RecoverOne, TerminalWrite, CancelWrite, DeleteRow, At, Busy, IInv
  <1>2. UNCHANGED <<up, pairs, last, processes, permits, faults>>
    BY DEF RecoverOne, TerminalWrite, CancelWrite, DeleteRow
  <1>3. OnRender(t) => thread[t].id \in Id
    BY DEF IInv, WorksOnId
  <1>4. row' \in [Id -> Row] /\ OneRunningPerPair'
    <2>1. CASE RecoverOne(t)
      <3>1. PICK i \in thread[t].todo : row' = IF InTable(i) THEN With(i, "failed") ELSE row
        BY <2>1 DEF RecoverOne
      <3>2. i \in Id
        BY <1>1 DEF Thread
      <3>3. QED BY <3>1, <3>2, Updates DEF Ended
    <2>2. CASE TerminalWrite(t)
      <3>1. thread[t].id \in Id /\ thread[t].outcome \in Ended
        BY <1>1, <1>3, <2>2 DEF TerminalWrite, At, OnRender, Executing, Thread, Ended
      <3>2. QED BY <2>2, <3>1, Updates DEF TerminalWrite
    <2>3. CASE CancelWrite(t)
      <3>1. thread[t].id \in Id
        BY <1>3, <2>3 DEF CancelWrite, At, OnRender
      <3>2. QED BY <2>3, <3>1, Updates DEF CancelWrite, Ended
    <2>4. CASE DeleteRow(t)
      <3>1. thread[t].id \in Id
        BY <1>3, <2>4 DEF DeleteRow, At, OnRender
      <3>2. row' \in [Id -> Row]
        BY <2>4, <3>1, RowTypes DEF DeleteRow, IInv, TypeOK
      <3>3. \A i \in Id : row'[i] = row[i] \/ row'[i].status = "gone"
        BY <2>4, <3>1 DEF DeleteRow, IInv, TypeOK, Gone
      <3>4. QED BY <3>2, <3>3, NoneStarts
    <2>5. QED BY <2>1, <2>2, <2>3, <2>4
  <1>5. PICK r \in Thread \cup {Idle} :
          /\ thread' = [thread EXCEPT ![t] = r]
          /\ \/ r.pc \in {"idle", "recovering", "sweeping"}
             \/ r.pc = "reading" /\ Holding(t) /\ r.id \in Id
    <2>1. CASE RecoverOne(t)
      <3>1. PICK i \in thread[t].todo : thread' = [thread EXCEPT ![t].todo = @ \ {i}]
        BY <2>1 DEF RecoverOne
      <3> DEFINE r == [thread[t] EXCEPT !.todo = @ \ {i}]
      <3>2. r \in Thread /\ r.pc = thread[t].pc /\ r.id = thread[t].id
        BY <1>1 DEF Thread
      <3>3. QED BY <2>1, <3>1, <3>2 DEF RecoverOne
    <2>2. CASE TerminalWrite(t)
      <3> DEFINE r == [thread[t] EXCEPT !.pc = "reading"]
      <3>1. r \in Thread /\ r.pc = "reading" /\ r.id = thread[t].id
        BY <1>1 DEF Thread, RenderPC
      <3>2. OnRender(t)
        BY <2>2 DEF TerminalWrite, At, OnRender, Executing
      <3>3. QED BY <1>3, <2>2, <3>1, <3>2 DEF TerminalWrite, Goto, At, Holding
    <2>3. CASE CancelWrite(t) \/ DeleteRow(t)
      BY <2>3, IdleFacts DEF CancelWrite, DeleteRow, Return
    <2>4. QED BY <2>1, <2>2, <2>3
  <1>6. TypeOK'
    BY <1>2, <1>4, <1>5 DEF IInv, TypeOK, processes
  <1>7. thread'[t] = r /\ \A u \in Threads \ {t} : thread'[u] = thread[u]
    BY <1>5 DEF IInv, TypeOK
  <1>8. OnRender(t)' => thread'[t].id \in Id
    BY <1>5, <1>7 DEF OnRender, Executing
  <1>9. Holding(t)' => Holding(t)
    BY <1>5, <1>7 DEF Holding
  <1>10. SemaphoreHeld' /\ WorksOnId'
    BY <1>2, <1>7, <1>8, <1>9, Moves
  <1>11. QED BY <1>4, <1>6, <1>10 DEF IInv

\* The steps no thread takes.
LEMMA InvSurroundings ==
  ASSUME IInv,
         \/ \E p \in Pairs : DropCandidate(p)
         \/ \E i \in Id, how \in {"succeeded", "broke"} : EncoderExits(i, how)
         \/ Crash
         \/ Restart
  PROVE  IInv'
  <1>1. ASSUME NEW p \in Pairs, DropCandidate(p) PROVE IInv'
    <2>1. \A i \in Id : row'[i] = row[i] \/ row'[i] = Gone
      BY <1>1 DEF DropCandidate
    <2>2. TypeOK'
      BY <1>1, <2>1, RowTypes DEF DropCandidate, IInv, TypeOK, processes
    <2>3. OneRunningPerPair'
      BY <2>1, NoneStarts DEF Gone
    <2>4. SemaphoreHeld' /\ WorksOnId'
      BY <1>1 DEF DropCandidate, IInv, SemaphoreHeld, WorksOnId, Holding, OnRender, Executing
    <2>5. QED BY <2>2, <2>3, <2>4 DEF IInv
  <1>2. ASSUME NEW i \in Id, NEW how \in {"succeeded", "broke"}, EncoderExits(i, how) PROVE IInv'
    <2>1. TypeOK'
      BY <1>2 DEF EncoderExits, IInv, TypeOK, table
    <2>2. OneRunningPerPair'
      BY <1>2, NoneStarts DEF EncoderExits, table
    <2>3. SemaphoreHeld' /\ WorksOnId'
      BY <1>2 DEF EncoderExits, IInv, SemaphoreHeld, WorksOnId, Holding, OnRender, Executing
    <2>4. QED BY <2>1, <2>2, <2>3 DEF IInv
  <1>3. CASE Crash
    <2>1. TypeOK'
      <3>1. encoder' \in [Id -> {"none", "running", "stopping", "succeeded", "broke"}]
        BY <1>3 DEF Crash, IInv, TypeOK
      <3>2. up' \in BOOLEAN
        BY <1>3 DEF Crash
      <3>3. permits' \in 0 .. 1 /\ owned' \subseteq Id
        BY <1>3 DEF Crash
      <3>4. UNCHANGED <<pairs, row, last, file>>
        BY <1>3 DEF Crash, table
      <3>5. thread' \in [Threads -> Thread \cup {Idle}] /\ faults' \in 0 .. MaxFaults
        BY <1>3 DEF Crash, Fault, IInv, TypeOK
      <3>6. QED BY <3>1, <3>2, <3>3, <3>4, <3>5 DEF IInv, TypeOK
    <2>2. OneRunningPerPair'
      BY <1>3, NoneStarts DEF Crash, table
    <2>3. SemaphoreHeld' /\ WorksOnId'
      BY <1>3, IdleFacts DEF Crash, SemaphoreHeld, WorksOnId, Holding, OnRender, Executing
    <2>4. QED BY <2>1, <2>2, <2>3 DEF IInv
  <1>4. CASE Restart
    <2>1. row' \in [Id -> Row]
      BY <1>4, AgeTypes DEF Restart, IInv, TypeOK, Row, Ended
    <2>2. TypeOK'
      BY <1>4, <2>1 DEF Restart, IInv, TypeOK, processes
    <2>3. \A i \in Id : row'[i] = row[i] \/ row'[i].status = "failed"
      BY <1>4 DEF Restart, IInv, TypeOK, Row
    <2>4. OneRunningPerPair'
      BY <2>3, NoneStarts
    <2>5. SemaphoreHeld' /\ WorksOnId'
      BY <1>4 DEF Restart, IInv, SemaphoreHeld, WorksOnId, Holding, OnRender, Executing
    <2>6. QED BY <2>2, <2>4, <2>5 DEF IInv
  <1>5. QED BY <1>1, <1>2, <1>3, <1>4

LEMMA InvTick ==
  ASSUME IInv, Tick
  PROVE  IInv'
  <1> DEFINE Timed(t) == thread[t].pc \in {"measuring", "encoding", "verifying"}
  <1>1. \A i \in Id : /\ row'[i] \in Row
                      /\ row'[i].status = row[i].status
                      /\ row'[i].pair = row[i].pair
    BY AgeTypes DEF Tick, IInv, TypeOK, Row
  <1>2. \A t \in Threads : Timed(t) => thread[t] \in Thread /\ thread[t].left > 0
    BY BusyType DEF Tick, IInv
  <1>3. \A t \in Threads : thread'[t] = IF Timed(t) THEN [thread[t] EXCEPT !.left = @ - 1]
                                                    ELSE thread[t]
    BY DEF Tick
  <1>4. \A t \in Threads : /\ thread'[t] \in Thread \cup {Idle}
                           /\ thread'[t].pc = thread[t].pc
                           /\ OnRender(t) => thread'[t].id = thread[t].id
    <2> TAKE t \in Threads
    <2>1. CASE Timed(t)
      <3> DEFINE r == [thread[t] EXCEPT !.left = @ - 1]
      <3>1. thread[t] \in Thread /\ thread[t].left > 0 /\ thread'[t] = r
        BY <1>2, <1>3, <2>1
      <3>2. thread[t].left - 1 \in Nat
        BY <3>1 DEF Thread
      <3>3. r \in Thread /\ r.pc = thread[t].pc /\ r.id = thread[t].id
        BY <3>1, <3>2 DEF Thread
      <3>4. QED BY <3>1, <3>3
    <2>2. CASE ~Timed(t)
      BY <1>3, <2>2 DEF IInv, TypeOK
    <2>3. QED BY <2>1, <2>2
  <1>5. row' \in [Id -> Row] /\ thread' \in [Threads -> Thread \cup {Idle}]
    BY <1>1, <1>4 DEF Tick
  <1>6. TypeOK'
    BY <1>5 DEF Tick, IInv, TypeOK, processes
  <1>7. SemaphoreHeld' /\ WorksOnId'
    BY <1>4 DEF Tick, IInv, SemaphoreHeld, WorksOnId, Holding, OnRender, Executing
  <1>8. OneRunningPerPair'
    BY <1>1, NoneStarts
  <1>9. QED BY <1>6, <1>7, <1>8 DEF IInv

LEMMA InvStep == IInv /\ [Next]_vars => IInv'
  <1> SUFFICES ASSUME IInv, [Next]_vars PROVE IInv'
    OBVIOUS
  <1>1. ASSUME NEW t \in Threads, Continue(t) PROVE IInv'
    BY <1>1, InvLooks, InvAcquire, InvCreate, InvReleases, InvRenders, InvWrites DEF Continue
  <1>2. ASSUME NEW t \in Threads, Begin(t) \/ Raises(t) PROVE IInv'
    BY <1>2, InvBegin, InvReleases
  <1>3. CASE UNCHANGED vars
    BY <1>3 DEF vars, table, processes, IInv, TypeOK, SemaphoreHeld, WorksOnId,
                OneRunningPerPair, Holding, OnRender, Executing
  <1>4. QED BY <1>1, <1>2, <1>3, InvSurroundings, InvTick DEF Next

-----------------------------------------------------------------------------
(* Theorems. *)

\* The inductive invariant holds in every reachable state.
THEOREM RendererInvariance == Spec => []IInv
  BY InvInit, InvStep, PTL DEF Spec

\* Every reachable state is one the tables and the process can hold; with it,
\* release() never finds the bounded semaphore released already.
THEOREM RendererTypeCorrect == Spec => []TypeOK
  <1>1. IInv => TypeOK
    BY DEF IInv
  <1>2. QED BY <1>1, RendererInvariance, PTL

\* However requests, crashes and recoveries interleave, a candidate and technique
\* have at most one RUNNING row.
THEOREM OneRunningPerPairHolds == Spec => []OneRunningPerPair
  <1>1. IInv => OneRunningPerPair
    BY DEF IInv
  <1>2. QED BY <1>1, RendererInvariance, PTL

\* The threads of one process never have two encoders running.
THEOREM OneEncoderHolds == Spec => []OneEncoder
  <1>1. IInv => OneEncoder
    BY DEF IInv, SemaphoreHeld, OneEncoder, Worked, Executing, Holding
  <1>2. QED BY <1>1, RendererInvariance, PTL

\* Whatever the time limits, a worker that comes late never turns a cancelled
\* render into a COMPLETED one: the status guard of the terminal write, alone.
THEOREM CancelStandsHolds == Spec => CancelStands
  <1> DEFINE Kept == \A i \in Id : row[i].status = "cancelled" => row'[i].status # "completed"
  <1>1. ASSUME IInv, [Next]_vars PROVE Kept
    <2> SUFFICES ASSUME NEW i \in Id, row[i].status = "cancelled" PROVE row'[i].status # "completed"
      OBVIOUS
    <2>1. CASE row' = row
      BY <2>1
    <2>2. row \in [Id -> Row] /\ row[i] \in Row
      BY <1>1 DEF IInv, TypeOK
    <2>3. ASSUME NEW t \in Threads, TerminalWrite(t) \/ CancelWrite(t)
          PROVE  row'[i].status # "completed"
      BY <2>2, <2>3 DEF TerminalWrite, CancelWrite, With, Row
    <2>4. ASSUME NEW t \in Threads, RecoverOne(t) PROVE row'[i].status # "completed"
      <3>1. PICK j \in thread[t].todo : row' = IF InTable(j) THEN With(j, "failed") ELSE row
        BY <2>4 DEF RecoverOne
      <3>2. QED BY <2>2, <3>1 DEF With, Row
    <2>5. ASSUME NEW t \in Threads, DeleteRow(t) \/ CreateRunning(t)
          PROVE  row'[i].status # "completed"
      BY <2>2, <2>5 DEF DeleteRow, CreateRunning, Gone
    <2>6. ASSUME NEW p \in Pairs, DropCandidate(p) PROVE row'[i].status # "completed"
      BY <2>6 DEF DropCandidate, Gone
    <2>7. CASE Restart
      BY <2>2, <2>7 DEF Restart, Row
    <2>8. CASE Tick
      BY <2>2, <2>8 DEF Tick, Row
    <2>9. QED
      BY <1>1, <2>1, <2>3, <2>4, <2>5, <2>6, <2>7, <2>8
         DEF Next, Begin, Continue, vars, table, AskRender, AskRead, AskCancel, AskDelete,
             Recovered, Prepare, LatestCompleted, Conflict, Acquire, Unavailable, CreateRefused,
             StartEncoder, Collect, EncodeTimesOut, Reread, Verify, Raises, ReadBack,
             CancelRefused, Terminate, Unlink, EncoderExits, Crash
  <1>2. QED BY <1>1, RendererInvariance, PTL DEF Spec, CancelStands

\* Without a fault a thread leaves its render only once the row is not RUNNING:
\* every other way out of _execute_render passes the terminal write or finds the
\* row cancelled.
THEOREM OnlyFaultsOrphanHolds == Spec => OnlyFaultsOrphan
  <1> DEFINE Ends == \A t \in Threads :
               Executing(t) /\ ~Executing(t)' /\ faults' = faults
                 => row'[thread[t].id].status # "running"
  <1>1. ASSUME IInv, [Next]_vars, NEW t \in Threads,
               Executing(t), ~Executing(t)', faults' = faults
        PROVE  row'[thread[t].id].status # "running"
    <2> DEFINE i == thread[t].id
    <2>1. thread[t] \in Thread /\ i \in Id /\ row \in [Id -> Row] /\ row[i] \in Row
      BY <1>1, BusyType DEF IInv, TypeOK, WorksOnId, OnRender, Executing
    <2>2. faults \in Nat /\ thread'[t].pc # thread[t].pc
      BY <1>1 DEF IInv, TypeOK, Executing
    <2>3. ASSUME NEW u \in Threads, Begin(u) \/ Continue(u) \/ Raises(u), u # t PROVE FALSE
      <3>1. thread'[t] = thread[t]
        BY <1>1, <2>3
           DEF Begin, Continue, AskRender, AskRead, AskCancel, AskDelete, RecoverOne, Recovered,
               Prepare, LatestCompleted, Conflict, Acquire, Unavailable, CreateRunning,
               CreateRefused, StartEncoder, Collect, EncodeTimesOut, Reread, Verify, Raises,
               TerminalWrite, ReadBack, CancelRefused, Terminate, CancelWrite, Unlink, DeleteRow,
               Goto, Return, IInv, TypeOK
      <3>2. QED BY <2>2, <3>1
    <2>4. CASE TerminalWrite(t)
      BY <2>1, <2>4 DEF TerminalWrite, With, Row, Thread
    <2>5. CASE Reread(t)
      <3>1. row[i].status = "cancelled"
        <4> SUFFICES ASSUME row[i].status # "cancelled" PROVE FALSE
          OBVIOUS
        <4>1. thread'[t].pc \in {"verifying", "writing"}
          BY <1>1, <2>1, <2>5 DEF Reread, Goto, IInv, TypeOK, Thread
        <4>2. QED BY <1>1, <4>1 DEF Executing
      <3>2. QED BY <2>5, <3>1 DEF Reread, table
    <2>6. CASE StartEncoder(t) \/ Collect(t) \/ EncodeTimesOut(t) \/ Verify(t)
      <3>1. thread'[t].pc \in {"encoding", "encoded", "writing"}
        BY <1>1, <2>1, <2>6 DEF StartEncoder, Collect, EncodeTimesOut, Verify, IInv, TypeOK, Thread
      <3>2. QED BY <1>1, <3>1 DEF Executing
    <2>7. ~Raises(t) /\ ~Crash
      BY <1>1, <2>2 DEF Raises, Crash, Fault
    <2>8. ~Begin(t) /\ (Continue(t) =>
             \/ TerminalWrite(t) \/ Reread(t) \/ StartEncoder(t) \/ Collect(t)
             \/ EncodeTimesOut(t) \/ Verify(t))
      BY <1>1 DEF Executing, Begin, Continue, AskRender, AskRead, AskCancel, AskDelete,
           RecoverOne, Recovered, Prepare, LatestCompleted, Conflict, Acquire, Unavailable,
           CreateRunning, CreateRefused, ReadBack, CancelRefused, Terminate, CancelWrite,
           Unlink, DeleteRow, At, Busy
    <2>9. CASE \/ UNCHANGED vars \/ Restart
               \/ \E p \in Pairs : DropCandidate(p)
               \/ \E j \in Id, how \in {"succeeded", "broke"} : EncoderExits(j, how)
      BY <2>2, <2>9 DEF vars, Restart, DropCandidate, EncoderExits
    <2>10. CASE Tick
      BY <2>1, <2>2, <2>10 DEF Tick, Thread
    <2>11. QED
      BY <1>1, <2>3, <2>4, <2>5, <2>6, <2>7, <2>8, <2>9, <2>10 DEF Next
  <1>2. IInv /\ [Next]_vars => Ends
    BY <1>1
  <1>3. QED BY <1>2, RendererInvariance, PTL DEF Spec, OnlyFaultsOrphan

-----------------------------------------------------------------------------
(* What a step may do: to the other threads, to its own, and to a row. *)

LEMMA OthersStay ==
  ASSUME IInv, NEW u \in Threads, Begin(u) \/ Continue(u) \/ Raises(u),
         NEW t \in Threads \ {u}
  PROVE  thread'[t] = thread[t]
  BY DEF Begin, Continue, AskRender, AskRead, AskCancel, AskDelete, RecoverOne, Recovered,
         Prepare, LatestCompleted, Conflict, Acquire, Unavailable, CreateRunning, CreateRefused,
         StartEncoder, Collect, EncodeTimesOut, Reread, Verify, Raises, TerminalWrite, ReadBack,
         CancelRefused, Terminate, CancelWrite, Unlink, DeleteRow, Goto, Return, IInv, TypeOK

\* The steps of a thread that has a row ...
LEMMA ExecutingSteps ==
  ASSUME NEW t \in Threads, Executing(t), Begin(t) \/ Continue(t) \/ Raises(t)
  PROVE  \/ StartEncoder(t) \/ Collect(t) \/ EncodeTimesOut(t) \/ Reread(t) \/ Verify(t)
         \/ TerminalWrite(t) \/ Raises(t)
  BY DEF Executing, Begin, Continue, AskRender, AskRead, AskCancel, AskDelete, RecoverOne,
         Recovered, Prepare, LatestCompleted, Conflict, Acquire, Unavailable, CreateRunning,
         CreateRefused, ReadBack, CancelRefused, Terminate, CancelWrite, Unlink, DeleteRow, At,
         Busy

\* ... what they make of it ...
LEMMA ExecutingGoesOn ==
  ASSUME IInv, NEW t \in Threads,
         \/ StartEncoder(t) \/ Collect(t) \/ EncodeTimesOut(t) \/ Verify(t)
         \/ Reread(t) /\ row[thread[t].id].status # "cancelled"
  PROVE  Executing(t)' /\ thread'[t].id = thread[t].id
  <1>1. thread[t] \in Thread
    BY BusyType DEF StartEncoder, Collect, EncodeTimesOut, Verify, Reread, At, IInv
  <1>2. CASE StartEncoder(t) \/ Collect(t) \/ EncodeTimesOut(t) \/ Verify(t)
    BY <1>1, <1>2
       DEF StartEncoder, Collect, EncodeTimesOut, Verify, IInv, TypeOK, Thread, Executing
  <1>3. CASE Reread(t) /\ row[thread[t].id].status # "cancelled"
    BY <1>1, <1>3 DEF Reread, Goto, IInv, TypeOK, Thread, Executing
  <1>4. QED BY <1>2, <1>3

\* ... and the only step by which a thread gets one.
LEMMA StartsToExecute ==
  ASSUME IInv, NEW t \in Threads, ~Executing(t), Executing(t)',
         Begin(t) \/ Continue(t) \/ Raises(t)
  PROVE  CreateRunning(t)
  <1>1. CASE Begin(t)
    <2>1. thread'[t].pc \in {"recovering", "sweeping", "cancelling", "unlinking"}
      <3>1. ASSUME NEW p \in Pairs, NEW force \in Forces, AskRender(t, p, force)
            PROVE  thread'[t].pc = "recovering"
        BY <3>1 DEF AskRender, Fresh, IInv, TypeOK
      <3>2. ASSUME AskRead(t) PROVE thread'[t].pc = "sweeping"
        BY <3>2 DEF AskRead, Fresh, IInv, TypeOK
      <3>3. ASSUME NEW i \in Id, AskCancel(t, i) PROVE thread'[t].pc = "cancelling"
        BY <3>3 DEF AskCancel, Fresh, IInv, TypeOK
      <3>4. ASSUME NEW i \in Id, AskDelete(t, i) PROVE thread'[t].pc = "unlinking"
        BY <3>4 DEF AskDelete, Fresh, IInv, TypeOK
      <3>5. QED BY <1>1, <3>1, <3>2, <3>3, <3>4 DEF Begin
    <2>2. QED BY <2>1 DEF Executing
  <1>2. ASSUME Busy(t), NEW pc, Goto(t, pc) PROVE thread'[t].pc = pc
    <2>1. thread[t] \in Thread
      BY <1>2, BusyType DEF Busy, At, IInv
    <2>2. QED BY <1>2, <2>1 DEF Goto, IInv, TypeOK, Thread
  <1>3. ~Return(t)
    BY DEF Return, Idle, Executing, IInv, TypeOK
  <1>4. CASE Recovered(t) \/ Prepare(t) \/ LatestCompleted(t) \/ Acquire(t)
    <2>1. \E pc \in {"checking", "looking", "acquiring", "creating"} : Goto(t, pc)
      BY <1>3, <1>4 DEF Recovered, Prepare, LatestCompleted, Acquire
    <2>2. Busy(t)
      BY <1>4 DEF Recovered, Prepare, LatestCompleted, Acquire, Busy, At
    <2>3. QED BY <1>2, <2>1, <2>2 DEF Executing
  <1>5. CASE Terminate(t) \/ Unlink(t)
    <2>1. \E pc \in {"stopped", "deleting"} : Goto(t, pc)
      BY <1>5 DEF Terminate, Unlink
    <2>2. Busy(t)
      BY <1>5 DEF Terminate, Unlink, Busy, At
    <2>3. QED BY <1>2, <2>1, <2>2 DEF Executing
  <1>6. CASE RecoverOne(t)
    <2>1. thread[t] \in Thread
      BY <1>6, BusyType DEF RecoverOne, IInv
    <2>2. thread'[t].pc = thread[t].pc
      BY <1>6, <2>1 DEF RecoverOne, IInv, TypeOK, Thread
    <2>3. QED BY <2>2 DEF Executing
  <1>7. QED
    BY <1>1, <1>3, <1>4, <1>5, <1>6
       DEF Continue, Raises, Conflict, Unavailable, CreateRefused, ReadBack, CancelRefused,
           CancelWrite, DeleteRow, StartEncoder, Collect, EncodeTimesOut, Reread, Verify,
           TerminalWrite, Executing, At

\* What a step may do to row i.
RowStarts(i) == /\ \E u \in Threads : CreateRunning(u)
                /\ i = last + 1 /\ row'[i].status = "running" /\ row'[i].age = 0

RowRecovered(i) == /\ \E u \in Threads : RecoverOne(u) /\ i \in thread[u].todo
                   /\ InTable(i) /\ row'[i].status = "failed"

RowWritten(i) == \E u \in Threads :
  /\ TerminalWrite(u) /\ thread[u].id = i /\ row[i].status = "running"
  /\ row'[i].status = thread[u].outcome

RowCancelled(i) == \E u \in Threads :
  /\ CancelWrite(u) /\ thread[u].id = i /\ row[i].status = "running"
  /\ row'[i].status = "cancelled"

LEMMA RowStep ==
  ASSUME IInv, [Next]_vars, NEW i \in Id
  PROVE  \/ row'[i] = row[i]
         \/ Tick /\ row'[i].status = row[i].status
         \/ RowStarts(i) \/ RowRecovered(i) \/ RowWritten(i) \/ RowCancelled(i)
         \/ InTable(i) /\ row'[i] = Gone
         \/ row[i].status = "running" /\ row'[i].status = "failed"
  <1>0. row \in [Id -> Row] /\ row[i] \in Row
    BY DEF IInv, TypeOK
  <1>1. ASSUME NEW j \in Id, NEW how, row' = With(j, how), i # j PROVE row'[i] = row[i]
    BY <1>0, <1>1 DEF With
  <1>2. ASSUME NEW how, row' = With(i, how) PROVE row'[i].status = how
    BY <1>0, <1>2 DEF With, Row
  <1>3. ASSUME NEW u \in Threads, RecoverOne(u) PROVE row'[i] = row[i] \/ RowRecovered(i)
    <2>1. PICK j \in thread[u].todo : row' = IF InTable(j) THEN With(j, "failed") ELSE row
      BY <1>3 DEF RecoverOne
    <2>2. j \in Id
      BY <1>3, BusyType DEF RecoverOne, IInv, Thread
    <2>3. QED BY <1>1, <1>2, <1>3, <2>1, <2>2 DEF RowRecovered
  <1>4. ASSUME NEW u \in Threads, TerminalWrite(u) PROVE row'[i] = row[i] \/ RowWritten(i)
    <2>1. thread[u].id \in Id
      BY <1>4 DEF TerminalWrite, IInv, WorksOnId, OnRender, Executing, At
    <2>2. QED BY <1>1, <1>2, <1>4, <2>1 DEF RowWritten, TerminalWrite
  <1>5. ASSUME NEW u \in Threads, CancelWrite(u) PROVE row'[i] = row[i] \/ RowCancelled(i)
    <2>1. thread[u].id \in Id
      BY <1>5 DEF CancelWrite, IInv, WorksOnId, OnRender, At
    <2>2. QED BY <1>1, <1>2, <1>5, <2>1 DEF RowCancelled, CancelWrite
  <1>6. ASSUME NEW u \in Threads, CreateRunning(u) PROVE row'[i] = row[i] \/ RowStarts(i)
    BY <1>0, <1>6 DEF CreateRunning, RowStarts
  <1>7. ASSUME NEW u \in Threads, DeleteRow(u)
        PROVE  row'[i] = row[i] \/ (InTable(i) /\ row'[i] = Gone)
    BY <1>0, <1>7 DEF DeleteRow
  <1>8. ASSUME NEW p \in Pairs, DropCandidate(p)
        PROVE  row'[i] = row[i] \/ (InTable(i) /\ row'[i] = Gone)
    BY <1>8 DEF DropCandidate
  <1>9. CASE Restart
    BY <1>0, <1>9 DEF Restart, Stale, Row
  <1>10. CASE Tick
    BY <1>0, <1>10 DEF Tick, Row
  <1>11. CASE row' = row
    BY <1>11
  <1>12. QED
    BY <1>3, <1>4, <1>5, <1>6, <1>7, <1>8, <1>9, <1>10, <1>11
       DEF Next, Begin, Continue, vars, table, AskRender, AskRead, AskCancel, AskDelete,
           Recovered, Prepare, LatestCompleted, Conflict, Acquire, Unavailable, CreateRefused,
           StartEncoder, Collect, EncodeTimesOut, Reread, Verify, Raises, ReadBack,
           CancelRefused, Terminate, Unlink, EncoderExits, Crash

-----------------------------------------------------------------------------
(* Files. *)

\* The file a render is about to be COMPLETED with: from the encoder on it is
\* whole once the outcome is good, unless a delete has taken it, and with the
\* file the row.
FileInPlace(t) ==
  LET i == thread[t].id IN
  \/ ~InTable(i) \/ Deleting(i)
  \/ IF At(t, "encoding")
       THEN file[i] # "none" /\ (encoder[i] = "succeeded" => file[i] = "whole")
       ELSE thread[t].outcome = "completed" => file[i] = "whole"

FilesInPlace ==
  \A t \in Threads :
    thread[t].pc \in {"encoding", "encoded", "verifying", "writing"} => FileInPlace(t)

LEMMA FilesInit == Init => FilesInPlace
  BY DEF Init, FilesInPlace, Idle

LEMMA DeletingStays ==
  ASSUME IInv, Next, ~Crash, NEW i \in Id, Deleting(i), InTable(i)'
  PROVE  Deleting(i)'
  <1>1. PICK d \in Threads : At(d, "deleting") /\ thread[d].id = i
    BY DEF Deleting
  <1>2. CASE thread'[d] = thread[d]
    BY <1>1, <1>2 DEF Deleting, At
  <1>3. ASSUME Begin(d) \/ Continue(d) \/ Raises(d) PROVE FALSE
    <2>1. DeleteRow(d)
      BY <1>1, <1>3
         DEF Begin, Continue, AskRender, AskRead, AskCancel, AskDelete, RecoverOne, Recovered,
             Prepare, LatestCompleted, Conflict, Acquire, Unavailable, CreateRunning,
             CreateRefused, StartEncoder, Collect, EncodeTimesOut, Reread, Verify, Raises,
             TerminalWrite, ReadBack, CancelRefused, Terminate, CancelWrite, Unlink, At, Busy
    <2>2. ~InTable(i)'
      BY <1>1, <2>1 DEF DeleteRow, InTable, Gone, Ended, IInv, TypeOK
    <2>3. QED BY <2>2
  <1>4. ASSUME NEW u \in Threads, u # d, Begin(u) \/ Continue(u) \/ Raises(u)
        PROVE  thread'[d] = thread[d]
    BY <1>4, OthersStay
  <1>5. CASE \/ Restart
             \/ \E p \in Pairs : DropCandidate(p)
             \/ \E j \in Id, how \in {"succeeded", "broke"} : EncoderExits(j, how)
    BY <1>2, <1>5 DEF Restart, DropCandidate, EncoderExits
  <1>6. CASE Tick
    BY <1>1, <1>2, <1>6 DEF Tick, At
  <1>7. QED BY <1>2, <1>3, <1>4, <1>5, <1>6 DEF Next

\* A row outside the table gets there only by being created.
LEMMA OutsideStays ==
  ASSUME IInv, [Next]_vars, NEW i \in Id, ~InTable(i),
         ~(\E u \in Threads : CreateRunning(u))
  PROVE  ~InTable(i)'
  BY RowStep DEF InTable, Ended, RowStarts, RowRecovered, RowWritten, RowCancelled

\* What a step of another does to the file and the encoder of a render at work.
LEMMA FileSpared ==
  ASSUME IInv, Next, ~Crash, NEW t \in Threads, Holding(t), NEW i \in Id, thread[t].id = i,
         ~(Begin(t) \/ Continue(t) \/ Raises(t))
  PROVE  \/ Deleting(i)'
         \/ /\ file'[i] = file[i] \/ (file[i] = "partial" /\ file'[i] = "whole")
            /\ encoder'[i] = "succeeded" =>
                 encoder[i] = "succeeded" \/ file[i] = "none" \/ file'[i] = "whole"
  <1>1. CASE file' = file /\ encoder' = encoder
    BY <1>1
  <1>2. file \in [Id -> {"none", "partial", "whole"}]
        /\ encoder \in [Id -> {"none", "running", "stopping", "succeeded", "broke"}]
    BY DEF IInv, TypeOK
  <1>3. ASSUME NEW j \in Id, NEW how \in {"succeeded", "broke"}, EncoderExits(j, how)
        PROVE  /\ file'[i] = file[i] \/ (file[i] = "partial" /\ file'[i] = "whole")
               /\ encoder'[i] = "succeeded" =>
                    encoder[i] = "succeeded" \/ file[i] = "none" \/ file'[i] = "whole"
    BY <1>2, <1>3 DEF EncoderExits
  <1>4. ASSUME NEW u \in Threads, Begin(u) \/ Continue(u) \/ Raises(u)
        PROVE  \/ Deleting(i)'
               \/ /\ file'[i] = file[i]
                  /\ encoder'[i] = "succeeded" => encoder[i] = "succeeded"
    <2>1. u # t /\ ~Holding(u)
      BY <1>4 DEF IInv, SemaphoreHeld
    <2>2. ~(StartEncoder(u) \/ Collect(u) \/ EncodeTimesOut(u))
      BY <2>1 DEF StartEncoder, Collect, EncodeTimesOut, Holding, At
    <2>3. CASE Unlink(u)
      <3>1. thread[u] \in Thread /\ thread[u].id \in Id
        BY <2>3, BusyType DEF Unlink, At, IInv, WorksOnId, OnRender
      <3>2. CASE thread[u].id = i
        <4>1. thread'[u].pc = "deleting" /\ thread'[u].id = i
          BY <2>3, <3>1, <3>2 DEF Unlink, Goto, IInv, TypeOK, Thread
        <4>2. QED BY <4>1 DEF Deleting, At
      <3>3. CASE thread[u].id # i
        BY <1>2, <2>3, <3>1, <3>3 DEF Unlink
      <3>4. QED BY <3>2, <3>3
    <2>4. CASE Terminate(u)
      BY <1>2, <2>4 DEF Terminate
    <2>5. CASE file' = file /\ encoder' = encoder
      BY <2>5
    <2>6. QED
      BY <1>4, <2>2, <2>3, <2>4, <2>5
         DEF Begin, Continue, AskRender, AskRead, AskCancel, AskDelete, RecoverOne, Recovered,
             Prepare, LatestCompleted, Conflict, Acquire, Unavailable, CreateRunning,
             CreateRefused, Reread, Verify, Raises, TerminalWrite, ReadBack, CancelRefused,
             CancelWrite, DeleteRow, processes
  <1>5. CASE Restart \/ Tick \/ \E p \in Pairs : DropCandidate(p)
    BY <1>1, <1>5 DEF Restart, Tick, DropCandidate, processes
  <1>6. QED BY <1>3, <1>4, <1>5 DEF Next

LEMMA FilesStep == IInv /\ FilesInPlace /\ [Next]_vars => FilesInPlace'
  <1> SUFFICES ASSUME IInv, FilesInPlace, Next, NEW t \in Threads,
                      thread'[t].pc \in {"encoding", "encoded", "verifying", "writing"}
               PROVE  FileInPlace(t)'
    <2>1. CASE UNCHANGED vars
      BY <2>1 DEF vars, table, processes, FilesInPlace, FileInPlace, InTable, Deleting, At
    <2>2. QED BY <2>1 DEF FilesInPlace
  <1> DEFINE i == thread[t].id
             Late == thread[t].pc \in {"encoding", "encoded", "verifying", "writing"}
  <1>0. ~Crash
    BY DEF Crash, Idle
  <1>1. CASE Begin(t) \/ Continue(t) \/ Raises(t)
    <2>1. Executing(t)
      <3>1. SUFFICES ASSUME ~Executing(t) PROVE FALSE
        OBVIOUS
      <3>2. CreateRunning(t)
        BY <1>1, <3>1, StartsToExecute DEF Executing
      <3>3. thread[t] \in Thread
        BY <3>2, BusyType DEF CreateRunning, At, IInv
      <3>4. thread'[t].pc = "measuring"
        BY <3>2, <3>3 DEF CreateRunning, IInv, TypeOK, Thread
      <3>5. QED BY <3>4
    <2>2. thread[t] \in Thread /\ i \in Id
      BY <2>1, BusyType DEF Executing, IInv, WorksOnId, OnRender
    <2>3. CASE StartEncoder(t)
      <3>1. thread'[t].pc = "encoding" /\ thread'[t].id = i
        BY <2>2, <2>3 DEF StartEncoder, IInv, TypeOK, Thread
      <3>2. file'[i] = "partial" /\ encoder'[i] = "running"
        BY <2>2, <2>3 DEF StartEncoder, IInv, TypeOK
      <3>3. QED BY <3>1, <3>2 DEF FileInPlace, At
    <2>4. ASSUME Late, row' = row, file' = file, thread'[t].id = i,
                 thread'[t].pc # "encoding",
                 \/ thread'[t].outcome # "completed"
                 \/ thread[t].pc # "encoding" /\ thread'[t].outcome = thread[t].outcome
                 \/ thread[t].pc = "encoding" /\ encoder[i] = "succeeded"
          PROVE  FileInPlace(t)'
      <3>1. FileInPlace(t)
        BY <2>4 DEF FilesInPlace
      <3>2. Deleting(i) /\ InTable(i) => \E d \in Threads : At(d, "deleting")' /\ thread'[d].id = i
        <4>1. SUFFICES ASSUME NEW d \in Threads, At(d, "deleting"), thread[d].id = i
                       PROVE  At(d, "deleting")' /\ thread'[d].id = i
          BY DEF Deleting
        <4>2. d # t
          BY <2>4, <4>1 DEF At
        <4>3. thread'[d] = thread[d]
          BY <1>1, <4>2, OthersStay
        <4>4. QED BY <4>1, <4>3 DEF At
      <3>3. CASE ~InTable(i)
        BY <2>4, <3>3 DEF FileInPlace, InTable
      <3>4. CASE Deleting(i) /\ InTable(i)
        BY <2>4, <3>2, <3>4 DEF FileInPlace, Deleting
      <3>5. CASE ~Deleting(i) /\ InTable(i)
        BY <2>4, <3>1, <3>5 DEF FileInPlace, At
      <3>6. QED BY <3>3, <3>4, <3>5
    <2>5. CASE Collect(t)
      BY <2>2, <2>4, <2>5 DEF Collect, At, IInv, TypeOK, Thread, table
    <2>6. CASE EncodeTimesOut(t)
      BY <2>2, <2>4, <2>6 DEF EncodeTimesOut, At, IInv, TypeOK, Thread, table
    <2>7. CASE Reread(t)
      <3>1. row[i].status # "cancelled"
        BY <2>7 DEF Reread, Return, Idle, IInv, TypeOK
      <3>2. thread'[t].id = i /\ thread'[t].outcome = thread[t].outcome
            /\ thread'[t].pc # "encoding"
        BY <2>2, <2>7, <3>1 DEF Reread, Goto, IInv, TypeOK, Thread
      <3>3. QED BY <2>4, <2>7, <3>2 DEF Reread, At, table, processes
    <2>8. CASE Verify(t)
      BY <2>2, <2>4, <2>8 DEF Verify, At, IInv, TypeOK, Thread, table, processes
    <2>9. ~TerminalWrite(t) /\ ~Raises(t)
      BY <2>2 DEF TerminalWrite, Raises, Goto, Return, Idle, IInv, TypeOK, Thread
    <2>10. QED BY <1>1, <2>1, <2>3, <2>5, <2>6, <2>7, <2>8, <2>9, ExecutingSteps
  <1>2. CASE ~(Begin(t) \/ Continue(t) \/ Raises(t))
    <2>1. /\ thread'[t].pc = thread[t].pc /\ thread'[t].id = i
          /\ thread'[t].outcome = thread[t].outcome
      <3>1. CASE thread'[t] = thread[t]
        BY <3>1
      <3>2. ASSUME NEW u \in Threads, Begin(u) \/ Continue(u) \/ Raises(u)
            PROVE  thread'[t] = thread[t]
        BY <1>2, <3>2, OthersStay
      <3>3. CASE Tick
        <4>1. CASE thread[t].pc \in {"measuring", "encoding", "verifying"}
          <5>1. thread[t] \in Thread
            BY <4>1, BusyType DEF IInv
          <5>2. QED BY <3>3, <4>1, <5>1 DEF Tick, Thread
        <4>2. CASE thread[t].pc \notin {"measuring", "encoding", "verifying"}
          BY <3>1, <3>3, <4>2 DEF Tick
        <4>3. QED BY <4>1, <4>2
      <3>4. CASE \/ Restart
                 \/ \E p \in Pairs : DropCandidate(p)
                 \/ \E j \in Id, how \in {"succeeded", "broke"} : EncoderExits(j, how)
        BY <3>1, <3>4 DEF Restart, DropCandidate, EncoderExits
      <3>5. QED BY <1>0, <3>1, <3>2, <3>3, <3>4 DEF Next
    <2>2. Late /\ Holding(t) /\ i \in Id
      BY <2>1 DEF Holding, IInv, WorksOnId, OnRender, Executing
    <2>3. FileInPlace(t)
      BY <2>2 DEF FilesInPlace
    <2>4. ~(\E u \in Threads : CreateRunning(u))
      <3>1. SUFFICES ASSUME NEW u \in Threads, CreateRunning(u) PROVE FALSE
        OBVIOUS
      <3>2. Holding(u)
        BY <3>1 DEF CreateRunning, At, Holding
      <3>3. u = t
        BY <2>2, <3>2 DEF IInv, SemaphoreHeld
      <3>4. QED BY <2>2, <3>1, <3>3 DEF CreateRunning, At
    <2> HIDE DEF i
    <2>5. PICK j \in Id : j = i
      BY <2>2
    <2>6. thread[t].id = j /\ thread'[t].id = j
      BY <2>1, <2>5 DEF i
    <2>7. CASE ~InTable(j)'
      BY <2>6, <2>7 DEF FileInPlace, InTable
    <2>8. CASE Deleting(j)'
      BY <2>6, <2>8 DEF FileInPlace, Deleting, At
    <2>9. CASE InTable(j)' /\ ~Deleting(j)'
      <3>1. InTable(j) /\ ~Deleting(j)
        BY <1>0, <2>4, <2>9, OutsideStays, DeletingStays
      <3>2. /\ file'[j] = file[j] \/ (file[j] = "partial" /\ file'[j] = "whole")
            /\ encoder'[j] = "succeeded" =>
                 encoder[j] = "succeeded" \/ file[j] = "none" \/ file'[j] = "whole"
        BY <1>0, <1>2, <2>2, <2>6, <2>9, FileSpared
      <3>3. IF At(t, "encoding")
              THEN file[j] # "none" /\ (encoder[j] = "succeeded" => file[j] = "whole")
              ELSE thread[t].outcome = "completed" => file[j] = "whole"
        BY <2>3, <2>6, <3>1 DEF FileInPlace
      <3>4. IF At(t, "encoding")'
              THEN file'[j] # "none" /\ (encoder'[j] = "succeeded" => file'[j] = "whole")
              ELSE thread'[t].outcome = "completed" => file'[j] = "whole"
        BY <2>1, <3>2, <3>3 DEF At
      <3>5. QED BY <2>6, <3>4 DEF FileInPlace, At
    <2>10. QED BY <2>7, <2>8, <2>9
  <1>3. QED BY <1>1, <1>2

\* A row becomes COMPLETED only with its file in place, unless a delete that has
\* taken the file is about to take the row: after an orphan's encoder, a late
\* recovery and any number of deletes at once, too.
THEOREM CompletedWithFileHolds == Spec => CompletedWithFile
  <1> DEFINE Filed == \A i \in Id : row[i].status # "completed" /\ row'[i].status = "completed"
                                      => file'[i] = "whole" \/ Deleting(i)
  <1>1. Init => FilesInPlace
    BY FilesInit
  <1>2. IInv /\ FilesInPlace /\ [Next]_vars => FilesInPlace'
    BY FilesStep
  <1>3. ASSUME IInv, FilesInPlace, [Next]_vars PROVE Filed
    <2> SUFFICES ASSUME NEW i \in Id, row[i].status # "completed", row'[i].status = "completed"
                 PROVE  file'[i] = "whole" \/ Deleting(i)
      OBVIOUS
    <2>1. RowWritten(i)
      BY <1>3, RowStep DEF RowStarts, RowRecovered, RowCancelled, Gone
    <2>2. PICK u \in Threads : /\ TerminalWrite(u) /\ thread[u].id = i
                               /\ row[i].status = "running" /\ thread[u].outcome = "completed"
      BY <2>1 DEF RowWritten
    <2>3. FileInPlace(u) /\ ~At(u, "encoding")
      BY <1>3, <2>2 DEF FilesInPlace, TerminalWrite, At
    <2>4. InTable(i)
      BY <2>2 DEF InTable
    <2>5. file'[i] = file[i]
      BY <2>2 DEF TerminalWrite, processes
    <2>6. QED BY <2>2, <2>3, <2>4, <2>5 DEF FileInPlace
  <1>4. IInv /\ FilesInPlace /\ [Next]_vars => Filed
    BY <1>3
  <1>5. QED BY <1>1, <1>2, <1>4, RendererInvariance, PTL DEF Spec, CompletedWithFile

-----------------------------------------------------------------------------
(* The refinement of RenderLifecycle, where no render outlasts the age at     *)
(* which its row is taken for an orphan's.                                    *)

InTime == MeasureLimit + EncodeLimit + VerifyLimit <= StaleAfter /\ ~Stalls

\* Ids that have not been given out are unused.
IdsAscend == \A i \in Id : i > last => row[i].status = "unused"

\* The phases behind a thread, and what has passed of the present one.
AgeLimit(t) ==
  CASE At(t, "measuring") -> MeasureLimit - thread[t].left
    [] At(t, "encoding") -> MeasureLimit + EncodeLimit - thread[t].left
    [] At(t, "encoded") -> MeasureLimit + EncodeLimit
    [] At(t, "verifying") -> MeasureLimit + EncodeLimit + VerifyLimit - thread[t].left
    [] OTHER -> MeasureLimit + EncodeLimit + VerifyLimit

\* No row at work is older.
RunsInTime ==
  \A t \in Threads : LET i == thread[t].id IN
    Executing(t) /\ row[i].status = "running" => row[i].age <= AgeLimit(t)

\* A RUNNING row with a process registered has a thread that works on it.
OwnedAtWork == \A i \in owned : row[i].status = "running" => Worked(i)

\* A cancel about to be written is one of a row that is not stale ...
CancelsInTime ==
  \A t \in Threads : LET i == thread[t].id IN
    At(t, "stopped") /\ row[i].status = "running" => row[i].age <= StaleAfter

\* ... and a recovery about to be written is one of a row that is, or has ended
\* as a recovery ends it.
RecoversStale ==
  \A t \in Threads : thread[t].pc \in {"recovering", "sweeping"} =>
    \A i \in thread[t].todo :
      \/ row[i].status \in {"failed", "gone"}
      \/ row[i].status = "running" /\ row[i].age > StaleAfter

PunctualInv == IdsAscend /\ RunsInTime /\ OwnedAtWork /\ CancelsInTime /\ RecoversStale

LEMMA PunctualInit == Init => PunctualInv
  BY IdleFacts DEF Init, PunctualInv, IdsAscend, RunsInTime, OwnedAtWork, CancelsInTime,
     RecoversStale, Executing, At, Idle, Unused

LEMMA IdsStep ==
  ASSUME IInv, IdsAscend, [Next]_vars
  PROVE  IdsAscend'
  <1> SUFFICES ASSUME NEW i \in Id, i > last' PROVE row'[i].status = "unused"
    BY DEF IdsAscend
  <1>1. last \in Nat /\ i \in Nat
    BY DEF IInv, TypeOK, Id
  <1>2. last' = last \/ (last' = last + 1 /\ \E u \in Threads : CreateRunning(u))
    <2>1. ASSUME NEW u \in Threads, Begin(u) \/ Raises(u) PROVE last' = last
      BY <2>1 DEF Begin, AskRender, AskRead, AskCancel, AskDelete, Raises, table
    <2>2. ASSUME NEW u \in Threads, Continue(u) PROVE last' = last \/ CreateRunning(u)
      BY <2>2
         DEF Continue, table, Recovered, Prepare, LatestCompleted, Conflict, Acquire,
             Unavailable, CreateRefused, StartEncoder, Collect, EncodeTimesOut, Reread, Verify,
             ReadBack, CancelRefused, Terminate, Unlink, RecoverOne, TerminalWrite, CancelWrite,
             DeleteRow
    <2>3. ASSUME NEW u \in Threads, CreateRunning(u) PROVE last' = last + 1
      BY <2>3 DEF CreateRunning
    <2>4. ASSUME UNCHANGED vars PROVE last' = last
      BY <2>4 DEF vars, table
    <2>5. ASSUME NEW p \in Pairs, DropCandidate(p) PROVE last' = last
      BY <2>5 DEF DropCandidate
    <2>6. ASSUME NEW j \in Id, NEW how \in {"succeeded", "broke"}, EncoderExits(j, how)
          PROVE  last' = last
      BY <2>6 DEF EncoderExits, table
    <2>7. ASSUME Crash \/ Restart \/ Tick PROVE last' = last
      BY <2>7 DEF Crash, Restart, Tick, table
    <2>8. CASE Next
      BY <2>1, <2>2, <2>3, <2>5, <2>6, <2>7, <2>8 DEF Next
    <2>9. QED BY <2>4, <2>8
  <1>3. i > last /\ row[i].status = "unused"
    BY <1>1, <1>2 DEF IdsAscend
  <1>4. ~RowStarts(i)
    <2>1. ASSUME NEW u \in Threads, CreateRunning(u) PROVE last' = last + 1
      BY <2>1 DEF CreateRunning
    <2>2. QED BY <1>1, <2>1 DEF RowStarts
  <1>5. QED
    BY <1>3, <1>4, RowStep DEF RowRecovered, RowWritten, RowCancelled, InTable, Ended

\* Without a crash, the steps of others leave a thread where it is, and a tick
\* only brings its time limit nearer.
LEMMA ThreadStays ==
  ASSUME IInv, [Next]_vars, ~Crash, NEW t \in Threads, ~(Begin(t) \/ Continue(t) \/ Raises(t))
  PROVE  \/ thread'[t] = thread[t]
         \/ /\ Tick /\ thread[t].pc \in {"measuring", "encoding", "verifying"}
            /\ thread[t].left > 0 /\ thread'[t] = [thread[t] EXCEPT !.left = @ - 1]
  <1>1. ASSUME NEW u \in Threads, Begin(u) \/ Continue(u) \/ Raises(u)
        PROVE  thread'[t] = thread[t]
    BY <1>1, OthersStay
  <1>2. CASE Tick
    BY <1>2 DEF Tick
  <1>3. CASE \/ UNCHANGED vars \/ Restart
             \/ \E p \in Pairs : DropCandidate(p)
             \/ \E j \in Id, how \in {"succeeded", "broke"} : EncoderExits(j, how)
    BY <1>3 DEF vars, Restart, DropCandidate, EncoderExits
  <1>4. QED BY <1>1, <1>2, <1>3 DEF Next

\* No time passes while a thread is between two statements.
LEMMA NoTick ==
  ASSUME InTime, NEW t \in Threads, Tick
  PROVE  Settled(t)
  BY DEF InTime, Tick

LEMMA AgeLimitBounded ==
  ASSUME IInv, InTime, NEW t \in Threads, Executing(t)
  PROVE  AgeLimit(t) <= StaleAfter
  <1>1. thread[t] \in Thread
    BY BusyType DEF Executing, IInv
  <1>2. thread[t].left \in Nat /\ StaleAfter \in Nat
    BY <1>1 DEF Thread, StaleAfter
  <1>3. QED BY <1>2 DEF AgeLimit, InTime, Executing, At

LEMMA OwnStepInTime ==
  ASSUME IInv, RunsInTime, NEW t \in Threads, Begin(t) \/ Continue(t) \/ Raises(t),
         Executing(t)', NEW i, i = thread'[t].id, row'[i].status = "running"
  PROVE  row'[i].age <= AgeLimit(t)'
  <1>1. CASE ~Executing(t)
    <2>1. CreateRunning(t)
      BY <1>1, StartsToExecute
    <2>2. thread[t] \in Thread /\ last + 1 \in Id
      BY <2>1, BusyType DEF CreateRunning, At, IInv, TypeOK, Id
    <2>3. /\ thread'[t].pc = "measuring" /\ thread'[t].left = MeasureLimit
          /\ thread'[t].id = last + 1
      BY <2>1, <2>2 DEF CreateRunning, IInv, TypeOK, Thread
    <2>4. row'[i].age = 0
      BY <2>1, <2>2, <2>3 DEF CreateRunning, IInv, TypeOK
    <2>5. QED BY <2>3, <2>4 DEF AgeLimit, At
  <1>2. CASE Executing(t)
    <2>1. thread[t] \in Thread /\ thread[t].id \in Id /\ row \in [Id -> Row]
      BY <1>2, BusyType DEF Executing, IInv, TypeOK, WorksOnId, OnRender
    <2>2. ~TerminalWrite(t) /\ ~Raises(t)
      BY <2>1 DEF TerminalWrite, Raises, Goto, Return, Idle, IInv, TypeOK, Thread, Executing
    <2>3. /\ \/ StartEncoder(t) \/ Collect(t) \/ EncodeTimesOut(t) \/ Verify(t)
             \/ Reread(t) /\ row[thread[t].id].status # "cancelled"
          /\ row' = row
      <3>1. Reread(t) => row[thread[t].id].status # "cancelled"
        BY DEF Reread, Return, Idle, Executing, IInv, TypeOK
      <3>2. QED
        BY <1>2, <2>2, <3>1, ExecutingSteps
           DEF StartEncoder, Collect, EncodeTimesOut, Verify, Reread, table
    <2>4. i = thread[t].id
      BY <2>3, ExecutingGoesOn
    <2>5. row[i].age \in Nat /\ row[i].age <= AgeLimit(t) /\ thread[t].left \in Nat
      <3>1. row[i] \in Row /\ thread[t].left \in Nat
        BY <2>1, <2>4 DEF Thread
      <3>2. row[i].age \in Nat
        BY <3>1 DEF Row, Ages, StaleAfter
      <3>3. QED BY <1>2, <2>3, <2>4, <3>1, <3>2 DEF RunsInTime
    <2>6. CASE StartEncoder(t)
      <3>1. thread'[t].pc = "encoding" /\ thread'[t].left = EncodeLimit
        BY <2>1, <2>6 DEF StartEncoder, IInv, TypeOK, Thread
      <3>2. QED BY <2>3, <2>5, <2>6, <3>1 DEF AgeLimit, At, StartEncoder
    <2>7. CASE Collect(t)
      <3>1. thread'[t].pc = "encoded"
        BY <2>1, <2>7 DEF Collect, IInv, TypeOK, Thread
      <3>2. QED BY <2>3, <2>5, <2>7, <3>1 DEF AgeLimit, At, Collect
    <2>8. CASE EncodeTimesOut(t)
      <3>1. thread'[t].pc = "writing"
        BY <2>1, <2>8 DEF EncodeTimesOut, IInv, TypeOK, Thread
      <3>2. QED BY <2>3, <2>5, <2>8, <3>1 DEF AgeLimit, At, EncodeTimesOut
    <2>9. CASE Verify(t)
      <3>1. thread'[t].pc = "writing"
        BY <2>1, <2>9 DEF Verify, IInv, TypeOK, Thread
      <3>2. QED BY <2>3, <2>5, <2>9, <3>1 DEF AgeLimit, At, Verify
    <2>10. CASE Reread(t) /\ row[thread[t].id].status # "cancelled"
      <3>1. \/ thread'[t].pc = "verifying" /\ thread'[t].left = VerifyLimit
            \/ thread'[t].pc = "writing"
        BY <2>1, <2>10 DEF Reread, Goto, IInv, TypeOK, Thread
      <3>2. QED BY <2>3, <2>5, <2>10, <3>1 DEF AgeLimit, At, Reread
    <2>11. QED BY <2>3, <2>6, <2>7, <2>8, <2>9, <2>10
  <1>3. QED BY <1>1, <1>2

LEMMA InTimeStep ==
  ASSUME IInv, RunsInTime, InTime, [Next]_vars
  PROVE  RunsInTime'
  <1> SUFFICES ASSUME NEW t \in Threads, Executing(t)', NEW i, i = thread'[t].id,
                      row'[i].status = "running"
               PROVE  row'[i].age <= AgeLimit(t)'
    BY DEF RunsInTime
  <1>1. CASE Begin(t) \/ Continue(t) \/ Raises(t)
    BY <1>1, OwnStepInTime
  <1>2. CASE ~(Begin(t) \/ Continue(t) \/ Raises(t))
    <2>1. ~Crash
      BY DEF Crash, Idle, Executing
    <2>2. \/ thread'[t] = thread[t]
          \/ /\ Tick /\ thread[t].pc \in {"measuring", "encoding", "verifying"}
             /\ thread[t].left > 0 /\ thread'[t] = [thread[t] EXCEPT !.left = @ - 1]
      BY <1>2, <2>1, ThreadStays
    <2>3. Executing(t) /\ thread[t] \in Thread
      <3>1. CASE thread'[t] = thread[t]
        BY <3>1, BusyType DEF Executing, IInv
      <3>2. CASE thread[t].pc \in {"measuring", "encoding", "verifying"}
        BY <3>2, BusyType DEF Executing, IInv
      <3>3. QED BY <2>2, <3>1, <3>2
    <2>4. i = thread[t].id /\ i \in Id
      <3>1. i = thread[t].id
        BY <2>2, <2>3 DEF Thread
      <3>2. QED BY <2>3, <3>1 DEF IInv, WorksOnId, OnRender
    <2>5. row[i] \in Row /\ row[i].age \in Nat /\ thread[t].left \in Nat
      <3>1. row[i] \in Row /\ thread[t].left \in Nat
        BY <2>3, <2>4 DEF Thread, IInv, TypeOK
      <3>2. QED BY <3>1 DEF Row, Ages, StaleAfter
    <2>6. ~RowStarts(i)
      <3>1. SUFFICES ASSUME NEW u \in Threads, CreateRunning(u) PROVE FALSE
        BY DEF RowStarts
      <3>2. Holding(u) /\ Holding(t)
        BY <2>3, <3>1 DEF CreateRunning, At, Holding, Executing
      <3>3. QED BY <1>2, <3>1, <3>2 DEF IInv, SemaphoreHeld, Continue
    <2>7. CASE row'[i] = row[i] /\ ~Tick
      <3>1. row[i].age <= AgeLimit(t)
        BY <2>3, <2>4, <2>7 DEF RunsInTime
      <3>2. thread'[t] = thread[t]
        BY <2>2, <2>7
      <3>3. QED BY <2>7, <3>1, <3>2 DEF AgeLimit, At
    <2>8. CASE Tick
      <3>1. row[i].status = "running" /\ row'[i].age <= row[i].age + 1
        BY <2>4, <2>5, <2>8 DEF Tick, IInv, TypeOK, Row, Older, StaleAfter
      <3>2. row'[i].age \in Nat
        BY <2>4, <2>5, <2>8 DEF Tick, IInv, TypeOK, Row, Older, StaleAfter
      <3>3. row[i].age <= AgeLimit(t)
        BY <2>3, <2>4, <3>1 DEF RunsInTime
      <3>4. thread[t].pc \in {"measuring", "encoding", "verifying"}
        BY <2>3, <2>8, NoTick DEF Settled, Executing, At
      <3>5. thread'[t].pc = thread[t].pc /\ thread'[t].left = thread[t].left - 1
        BY <2>3, <2>8, <3>4 DEF Tick, Thread
      <3>6. QED BY <2>5, <3>1, <3>2, <3>3, <3>4, <3>5 DEF AgeLimit, At
    <2>9. CASE ~Tick /\ row'[i] # row[i]
      <3>1. ~RowWritten(i)
        BY BusyType DEF RowWritten, TerminalWrite, At, IInv, Thread
      <3>2. QED
        BY <2>4, <2>6, <2>9, <3>1, RowStep DEF RowRecovered, RowCancelled, Gone
    <2>10. QED BY <2>7, <2>8, <2>9
  <1>3. QED BY <1>1, <1>2

LEMMA OwnedStep ==
  ASSUME IInv, IdsAscend, OwnedAtWork, [Next]_vars
  PROVE  OwnedAtWork'
  <1> SUFFICES ASSUME NEW i \in owned', row'[i].status = "running" PROVE Worked(i)'
    BY DEF OwnedAtWork
  <1>1. i \in Id /\ row[i] \in Row
    BY InvStep DEF IInv, TypeOK
  <1>2. ASSUME NEW u \in Threads, CreateRunning(u), i = last + 1 PROVE Worked(i)'
    <2>1. thread[u] \in Thread
      BY <1>2, BusyType DEF CreateRunning, At, IInv
    <2>2. thread'[u].pc = "measuring" /\ thread'[u].id = i
      BY <1>2, <2>1 DEF CreateRunning, IInv, TypeOK, Thread
    <2>3. QED BY <2>2 DEF Worked, Executing
  <1>3. ASSUME NEW u \in Threads, StartEncoder(u), i = thread[u].id PROVE Worked(i)'
    BY <1>3, ExecutingGoesOn DEF Worked
  <1>4. CASE row[i].status = "running" /\ i \in owned
    <2>1. PICK w \in Threads : Executing(w) /\ thread[w].id = i
      BY <1>4 DEF OwnedAtWork, Worked
    <2>2. thread[w] \in Thread
      BY <2>1, BusyType DEF Executing, IInv
    <2>3. CASE Begin(w) \/ Continue(w) \/ Raises(w)
      <3>1. ~TerminalWrite(w)
        BY <1>1, <2>1, <2>2 DEF TerminalWrite, With, IInv, TypeOK, Row, Thread
      <3>2. ~Raises(w)
        BY <2>1 DEF Raises
      <3>3. QED
        BY <1>4, <2>1, <2>3, <3>1, <3>2, ExecutingSteps, ExecutingGoesOn DEF Worked
    <2>4. CASE ~(Begin(w) \/ Continue(w) \/ Raises(w))
      <3>1. ~Crash
        BY DEF Crash
      <3>2. thread'[w].pc = thread[w].pc /\ thread'[w].id = thread[w].id
        BY <2>2, <2>4, <3>1, ThreadStays DEF Thread
      <3>3. QED BY <2>1, <3>2 DEF Worked, Executing
    <2>5. QED BY <2>3, <2>4
  <1>5. row[i].status = "running" \/ RowStarts(i)
    <2>1. ~RowWritten(i)
      BY BusyType DEF RowWritten, TerminalWrite, At, IInv, Thread
    <2>2. QED
      BY <1>1, <2>1, RowStep DEF RowRecovered, RowCancelled, Gone
  <1>6. i \in owned \/ \E u \in Threads : StartEncoder(u) /\ i = thread[u].id
    <2>1. ASSUME NEW u \in Threads, Begin(u) \/ Raises(u) PROVE i \in owned
      BY <2>1 DEF Begin, AskRender, AskRead, AskCancel, AskDelete, Raises, processes
    <2>2. ASSUME NEW u \in Threads, Continue(u)
          PROVE  i \in owned \/ (StartEncoder(u) /\ i = thread[u].id)
      BY <2>2
         DEF Continue, processes, Recovered, Prepare, LatestCompleted, Conflict, Acquire,
             Unavailable, CreateRunning, CreateRefused, StartEncoder, Collect, EncodeTimesOut,
             Reread, Verify, ReadBack, CancelRefused, Terminate, Unlink, RecoverOne,
             TerminalWrite, CancelWrite, DeleteRow
    <2>3. ASSUME UNCHANGED vars PROVE i \in owned
      BY <2>3 DEF vars, processes
    <2>4. ASSUME NEW p \in Pairs, DropCandidate(p) PROVE i \in owned
      BY <2>4 DEF DropCandidate, processes
    <2>5. ASSUME NEW j \in Id, NEW how \in {"succeeded", "broke"}, EncoderExits(j, how)
          PROVE  i \in owned
      BY <2>5 DEF EncoderExits
    <2>6. ASSUME Crash \/ Restart \/ Tick PROVE i \in owned
      BY <2>6 DEF Crash, Restart, Tick, processes
    <2>7. CASE Next
      BY <2>1, <2>2, <2>4, <2>5, <2>6, <2>7 DEF Next
    <2>8. QED BY <2>3, <2>7
  <1>7. QED BY <1>2, <1>3, <1>4, <1>5, <1>6 DEF RowStarts

\* What brings a thread to where it writes a cancel, or marks a stale row.
LEMMA WhereStepsLead ==
  ASSUME IInv, NEW t \in Threads, Begin(t) \/ Continue(t) \/ Raises(t),
         thread'[t].pc \in {"stopped", "recovering", "sweeping"}
  PROVE  \/ Terminate(t) /\ thread'[t].id = thread[t].id
         \/ /\ thread'[t].pc # "stopped" /\ thread'[t].pc = thread[t].pc
            /\ thread'[t].todo \subseteq thread[t].todo
            /\ \A i \in thread'[t].todo : row'[i] = row[i]
         \/ thread'[t].pc # "stopped" /\ thread'[t].todo = Stale /\ row' = row
  <1>1. ASSUME Busy(t), NEW pc, Goto(t, pc)
        PROVE  thread'[t].pc = pc /\ thread'[t].id = thread[t].id
    <2>1. thread[t] \in Thread
      BY <1>1, BusyType DEF Busy, At, IInv
    <2>2. QED BY <1>1, <2>1 DEF Goto, IInv, TypeOK, Thread
  <1>2. ~Return(t)
    BY DEF Return, Idle, IInv, TypeOK
  <1>3. CASE Begin(t)
    <2>1. ASSUME NEW p \in Pairs, NEW force \in Forces, AskRender(t, p, force)
          PROVE  thread'[t].pc = "recovering" /\ thread'[t].todo = Stale /\ row' = row
      BY <2>1 DEF AskRender, Fresh, IInv, TypeOK, table
    <2>2. ASSUME AskRead(t)
          PROVE  thread'[t].pc = "sweeping" /\ thread'[t].todo = Stale /\ row' = row
      BY <2>2 DEF AskRead, Fresh, IInv, TypeOK, table
    <2>3. ASSUME NEW i \in Id, AskCancel(t, i) PROVE thread'[t].pc = "cancelling"
      BY <2>3 DEF AskCancel, Fresh, IInv, TypeOK
    <2>4. ASSUME NEW i \in Id, AskDelete(t, i) PROVE thread'[t].pc = "unlinking"
      BY <2>4 DEF AskDelete, Fresh, IInv, TypeOK
    <2>5. QED BY <1>3, <2>1, <2>2, <2>3, <2>4 DEF Begin
  <1>4. CASE Recovered(t) \/ Prepare(t) \/ LatestCompleted(t) \/ Acquire(t) \/ Unlink(t)
    <2>1. \E pc \in {"checking", "looking", "acquiring", "creating", "deleting"} : Goto(t, pc)
      BY <1>2, <1>4 DEF Recovered, Prepare, LatestCompleted, Acquire, Unlink
    <2>2. Busy(t)
      BY <1>4 DEF Recovered, Prepare, LatestCompleted, Acquire, Unlink, Busy, At
    <2>3. QED BY <1>1, <2>1, <2>2
  <1>5. CASE Terminate(t)
    <2>1. Busy(t) /\ Goto(t, "stopped")
      BY <1>5 DEF Terminate, Busy, At
    <2>2. QED BY <1>1, <1>5, <2>1
  <1>6. CASE RecoverOne(t)
    <2>1. thread[t] \in Thread
      BY <1>6, BusyType DEF RecoverOne, IInv
    <2>2. PICK j \in thread[t].todo : /\ row' = IF InTable(j) THEN With(j, "failed") ELSE row
                                      /\ thread' = [thread EXCEPT ![t].todo = @ \ {j}]
      BY <1>6 DEF RecoverOne
    <2>3. /\ thread'[t].todo = thread[t].todo \ {j} /\ thread[t].todo \subseteq Id
          /\ thread'[t].pc = thread[t].pc
      BY <2>1, <2>2 DEF IInv, TypeOK, Thread
    <2>4. ASSUME NEW i \in thread'[t].todo PROVE row'[i] = row[i]
      BY <2>2, <2>3, <2>4 DEF With, IInv, TypeOK
    <2>5. QED BY <1>6, <2>3, <2>4 DEF RecoverOne
  <1>7. CASE Executing(t) /\ ~Raises(t)
    <2>1. CASE TerminalWrite(t)
      BY <1>1, <1>7, <2>1 DEF TerminalWrite, Busy, At
    <2>2. CASE Reread(t) /\ row[thread[t].id].status = "cancelled"
      BY <1>2, <2>2 DEF Reread
    <2>3. CASE ~(Reread(t) /\ row[thread[t].id].status = "cancelled") /\ ~TerminalWrite(t)
      BY <1>7, <2>3, ExecutingSteps, ExecutingGoesOn DEF Executing
    <2>4. QED BY <2>1, <2>2, <2>3
  <1>8. CASE CreateRunning(t)
    <2>1. thread[t] \in Thread
      BY <1>8, BusyType DEF CreateRunning, At, IInv
    <2>2. QED BY <1>8, <2>1 DEF CreateRunning, IInv, TypeOK, Thread
  <1>9. QED
    BY <1>2, <1>3, <1>4, <1>5, <1>6, <1>7, <1>8
       DEF Continue, Raises, Conflict, Unavailable, CreateRefused, ReadBack, CancelRefused,
           CancelWrite, DeleteRow, StartEncoder, Collect, EncodeTimesOut, Reread, Verify,
           TerminalWrite, Executing, At


\* A cancel is asked of a process that is registered, and so of a row that a
\* thread of this process works on.
LEMMA CancelsStep ==
  ASSUME IInv, RunsInTime, OwnedAtWork, CancelsInTime, InTime, [Next]_vars
  PROVE  CancelsInTime'
  <1> SUFFICES ASSUME NEW t \in Threads, thread'[t].pc = "stopped", NEW i, i = thread'[t].id,
                      row'[i].status = "running"
               PROVE  row'[i].age <= StaleAfter
    BY DEF CancelsInTime, At
  <1>1. CASE Begin(t) \/ Continue(t) \/ Raises(t)
    <2>1. Terminate(t) /\ i = thread[t].id
      BY <1>1, WhereStepsLead
    <2>2. i \in owned /\ row' = row
      BY <2>1 DEF Terminate, table
    <2>3. PICK w \in Threads : Executing(w) /\ thread[w].id = i
      BY <2>2 DEF OwnedAtWork, Worked
    <2>4. row[i].age <= AgeLimit(w) /\ AgeLimit(w) <= StaleAfter
      BY <2>2, <2>3, AgeLimitBounded DEF RunsInTime
    <2>5. thread[w] \in Thread /\ row[i] \in Row
      BY <2>2, <2>3, BusyType DEF Executing, IInv, TypeOK
    <2>6. row[i].age \in Nat /\ StaleAfter \in Nat /\ thread[w].left \in Nat
      BY <2>5 DEF Row, Ages, StaleAfter, Thread
    <2>7. QED BY <2>2, <2>4, <2>6 DEF AgeLimit
  <1>2. CASE ~(Begin(t) \/ Continue(t) \/ Raises(t))
    <2>1. ~Crash
      BY DEF Crash, Idle, IInv, TypeOK
    <2>2. ~Tick /\ thread'[t] = thread[t]
      <3>1. thread'[t] = thread[t]
        <4>1. CASE thread[t].pc \in {"measuring", "encoding", "verifying"}
          <5>1. thread[t] \in Thread
            BY <4>1, BusyType DEF IInv
          <5>2. QED BY <1>2, <2>1, <4>1, <5>1, ThreadStays DEF Thread
        <4>2. QED BY <1>2, <2>1, <4>1, ThreadStays
      <3>2. QED BY <3>1, NoTick DEF Settled, At
    <2>3. i \in Id
      BY <2>2 DEF IInv, WorksOnId, OnRender
    <2>4. CASE row'[i] = row[i]
      BY <2>2, <2>4 DEF CancelsInTime, At
    <2>5. CASE row'[i] # row[i]
      <3>1. ~RowWritten(i)
        BY BusyType DEF RowWritten, TerminalWrite, At, IInv, Thread
      <3>2. row'[i].age = 0
        BY <2>2, <2>3, <2>5, <3>1, RowStep DEF RowRecovered, RowCancelled, RowStarts, Gone
      <3>3. QED BY <3>2 DEF StaleAfter
    <2>6. QED BY <2>4, <2>5
  <1>3. QED BY <1>1, <1>2

LEMMA RecoversStep ==
  ASSUME IInv, IdsAscend, RunsInTime, CancelsInTime, RecoversStale, InTime, [Next]_vars
  PROVE  RecoversStale'
  <1> SUFFICES ASSUME NEW t \in Threads, thread'[t].pc \in {"recovering", "sweeping"},
                      NEW i \in thread'[t].todo
               PROVE  \/ row'[i].status \in {"failed", "gone"}
                      \/ row'[i].status = "running" /\ row'[i].age > StaleAfter
    BY DEF RecoversStale
  <1>1. CASE Begin(t) \/ Continue(t) \/ Raises(t)
    <2>1. ~Terminate(t) \/ thread'[t].pc = "stopped"
      <3>1. ASSUME Terminate(t) PROVE thread'[t].pc = "stopped"
        <4>1. thread[t] \in Thread
          BY <3>1, BusyType DEF Terminate, At, IInv
        <4>2. QED BY <3>1, <4>1 DEF Terminate, Goto, IInv, TypeOK, Thread
      <3>2. QED BY <3>1
    <2>2. CASE thread'[t].todo = Stale /\ row' = row
      BY <2>2 DEF Stale
    <2>3. CASE /\ thread'[t].pc = thread[t].pc /\ thread'[t].todo \subseteq thread[t].todo
               /\ \A j \in thread'[t].todo : row'[j] = row[j]
      BY <2>3 DEF RecoversStale
    <2>4. QED BY <1>1, <2>1, <2>2, <2>3, WhereStepsLead
  <1>2. CASE ~(Begin(t) \/ Continue(t) \/ Raises(t))
    <2>1. ~Crash
      BY DEF Crash, Idle, IInv, TypeOK
    <2>2. ~Tick /\ thread'[t] = thread[t]
      <3>1. thread'[t] = thread[t]
        <4>1. CASE thread[t].pc \in {"measuring", "encoding", "verifying"}
          <5>1. thread[t] \in Thread
            BY <4>1, BusyType DEF IInv
          <5>2. QED BY <1>2, <2>1, <4>1, <5>1, ThreadStays DEF Thread
        <4>2. QED BY <1>2, <2>1, <4>1, ThreadStays
      <3>2. QED BY <3>1, NoTick DEF Settled, At
    <2>3. thread[t] \in Thread
      BY <2>2, BusyType DEF IInv
    <2>4. i \in Id /\ row[i] \in Row
      BY <2>2, <2>3 DEF Thread, IInv, TypeOK
    <2>5. \/ row[i].status \in {"failed", "gone"}
          \/ row[i].status = "running" /\ row[i].age > StaleAfter
      BY <2>2 DEF RecoversStale
    <2>6. ~RowStarts(i)
      BY <2>4, <2>5 DEF RowStarts, IdsAscend, IInv, TypeOK, Id
    <2>7. ~RowWritten(i)
      <3>1. SUFFICES ASSUME NEW u \in Threads, At(u, "writing"), thread[u].id = i,
                            row[i].status = "running"
                     PROVE  FALSE
        BY DEF RowWritten, TerminalWrite
      <3>2. Executing(u)
        BY <3>1 DEF Executing, At
      <3>3. row[i].age <= AgeLimit(u) /\ AgeLimit(u) <= StaleAfter
        BY <3>1, <3>2, AgeLimitBounded DEF RunsInTime
      <3>4. row[i].age \in Nat /\ StaleAfter \in Nat /\ row[i].age > StaleAfter
        BY <2>4, <2>5, <3>1 DEF Row, Ages, StaleAfter
      <3>5. AgeLimit(u) = MeasureLimit + EncodeLimit + VerifyLimit
        BY <3>1 DEF AgeLimit, At
      <3>6. QED BY <3>3, <3>4, <3>5
    <2>8. ~RowCancelled(i)
      <3>1. SUFFICES ASSUME NEW u \in Threads, At(u, "stopped"), thread[u].id = i,
                            row[i].status = "running"
                     PROVE  FALSE
        BY DEF RowCancelled, CancelWrite
      <3>2. row[i].age <= StaleAfter
        BY <3>1 DEF CancelsInTime
      <3>3. row[i].age \in Nat /\ StaleAfter \in Nat /\ row[i].age > StaleAfter
        BY <2>4, <2>5, <3>1 DEF Row, Ages, StaleAfter
      <3>4. QED BY <3>2, <3>3
    <2>9. QED
      BY <2>2, <2>4, <2>5, <2>6, <2>7, <2>8, RowStep DEF RowRecovered, Gone
  <1>3. QED BY <1>1, <1>2

LEMMA PunctualStep ==
  ASSUME InTime
  PROVE  IInv /\ PunctualInv /\ [Next]_vars => PunctualInv'
  BY IdsStep, InTimeStep, OwnedStep, CancelsStep, RecoversStep DEF PunctualInv

Bar == [i \in Id |-> row[i].status]

\* When the UPDATE of a recovery reaches its row, the row is RUNNING still, or
\* failed or gone by another recovery or a delete: no outcome is overwritten.
LEMMA LifecycleStep ==
  ASSUME IInv, PunctualInv, InTime, [Next]_vars
  PROVE  [Lifecycle!Next]_Bar
  <1> SUFFICES ASSUME row' # row PROVE Lifecycle!Next \/ Bar' = Bar
    BY DEF Bar
  <1>0. row \in [Id -> Row] /\ row' \in [Id -> Row]
    BY InvStep DEF IInv, TypeOK
  <1>1. ASSUME NEW i \in Id, NEW how \in Ended, row' = With(i, how), row[i].status = "running"
        PROVE  Lifecycle!Next
    <2>1. Bar' = [j \in Id |-> IF j \in {i} THEN how ELSE Bar[j]]
      BY <1>0, <1>1 DEF Bar, With, Row
    <2>2. Lifecycle!End({i})
      BY <1>1, <2>1 DEF Lifecycle!End, Lifecycle!Ended, Ended, Bar
    <2>3. QED BY <2>2 DEF Lifecycle!Next
  <1>2. ASSUME NEW S \in SUBSET Id, \A i \in S : InTable(i),
               row' = [i \in Id |-> IF i \in S THEN Gone ELSE row[i]]
        PROVE  Lifecycle!Next
    <2>1. Bar' = [i \in Id |-> IF i \in S THEN "gone" ELSE Bar[i]]
      BY <1>0, <1>2 DEF Bar, Gone
    <2>2. Lifecycle!Remove(S)
      BY <1>2, <2>1 DEF Lifecycle!Remove, InTable, Ended, Bar
    <2>3. QED BY <2>2 DEF Lifecycle!Next
  <1>3. ASSUME NEW u \in Threads, RecoverOne(u) PROVE Lifecycle!Next \/ Bar' = Bar
    <2>1. PICK j \in thread[u].todo : row' = IF InTable(j) THEN With(j, "failed") ELSE row
      BY <1>3 DEF RecoverOne
    <2>2. j \in Id
      BY <1>3, BusyType DEF RecoverOne, IInv, Thread
    <2>3. InTable(j) /\ row' = With(j, "failed")
      BY <2>1
    <2>4. CASE row[j].status = "running"
      BY <1>1, <2>2, <2>3, <2>4 DEF Ended
    <2>5. CASE row[j].status = "failed"
      BY <1>0, <2>2, <2>3, <2>5 DEF Bar, With, Row
    <2>6. row[j].status \in {"failed", "gone", "running"}
      BY <1>3 DEF PunctualInv, RecoversStale, RecoverOne
    <2>7. QED BY <2>3, <2>4, <2>5, <2>6 DEF InTable, Ended
  <1>4. ASSUME NEW u \in Threads, CreateRunning(u) PROVE Lifecycle!Next
    <2>1. last + 1 \in Id /\ last + 1 > last
      BY <1>4 DEF CreateRunning, IInv, TypeOK, Id
    <2>2. PICK i \in Id : i = last + 1
      BY <2>1
    <2>3. row[i].status = "unused"
      BY <2>1, <2>2 DEF PunctualInv, IdsAscend
    <2>4. Bar' = [Bar EXCEPT ![i] = "running"]
      BY <1>0, <1>4, <2>2 DEF CreateRunning, Bar
    <2>5. Lifecycle!Start(i)
      BY <2>3, <2>4 DEF Lifecycle!Start, Bar
    <2>6. QED BY <2>5 DEF Lifecycle!Next
  <1>5. ASSUME NEW u \in Threads, TerminalWrite(u) PROVE Lifecycle!Next
    <2>1. thread[u] \in Thread /\ thread[u].id \in Id
      BY <1>5, BusyType DEF TerminalWrite, IInv, WorksOnId, OnRender, Executing, At
    <2>2. thread[u].outcome \in Ended
      BY <2>1 DEF Thread, Ended
    <2>3. QED BY <1>1, <1>5, <2>1, <2>2 DEF TerminalWrite
  <1>6. ASSUME NEW u \in Threads, CancelWrite(u) PROVE Lifecycle!Next
    <2>1. thread[u].id \in Id
      BY <1>6 DEF CancelWrite, IInv, WorksOnId, OnRender, At
    <2>2. QED BY <1>1, <1>6, <2>1 DEF CancelWrite, Ended
  <1>7. ASSUME NEW u \in Threads, DeleteRow(u) PROVE Lifecycle!Next
    <2>1. thread[u].id \in Id /\ InTable(thread[u].id)
      BY <1>7 DEF DeleteRow, IInv, WorksOnId, OnRender, At
    <2>2. row' = [i \in Id |-> IF i \in {thread[u].id} THEN Gone ELSE row[i]]
      BY <1>0, <1>7, <2>1 DEF DeleteRow
    <2>3. QED BY <1>2, <2>1, <2>2
  <1>8. ASSUME NEW p \in Pairs, DropCandidate(p) PROVE Lifecycle!Next
    <2> DEFINE S == {i \in Id : InTable(i) /\ row[i].pair = p}
    <2>1. row' = [i \in Id |-> IF i \in S THEN Gone ELSE row[i]]
      BY <1>8 DEF DropCandidate
    <2>2. S \in SUBSET Id /\ \A i \in S : InTable(i)
      OBVIOUS
    <2> HIDE DEF S
    <2>3. QED BY <1>2, <2>1, <2>2
  <1>9. CASE Restart
    <2>1. PICK S \in SUBSET Id : S = Stale
      BY StaleType
    <2>2. Bar' = [i \in Id |-> IF i \in S THEN "failed" ELSE Bar[i]]
      BY <1>0, <1>9, <2>1 DEF Restart, Bar, Row
    <2>3. Lifecycle!End(S)
      BY <2>1, <2>2 DEF Lifecycle!End, Lifecycle!Ended, Bar, Stale
    <2>4. QED BY <2>3 DEF Lifecycle!Next
  <1>10. CASE Tick
    BY <1>0, <1>10 DEF Tick, Bar, Row
  <1>11. QED
    BY <1>3, <1>4, <1>5, <1>6, <1>7, <1>8, <1>9, <1>10
       DEF Next, Begin, Continue, vars, table, AskRender, AskRead, AskCancel, AskDelete,
           Recovered, Prepare, LatestCompleted, Conflict, Acquire, Unavailable, CreateRefused,
           StartEncoder, Collect, EncodeTimesOut, Reread, Verify, Raises, ReadBack,
           CancelRefused, Terminate, Unlink, EncoderExits, Crash

\* A render id is used once, and a render keeps the way it ended until it is
\* deleted, as long as no thread is held up between two statements and the
\* phases of a render take less, together, than STALE_RUNNING_AFTER_SEC.  (The
\* run of CompletedStays shows what happens when they take longer.)
THEOREM RendersImplementLifecycle ==
  ASSUME MeasureLimit + EncodeLimit + VerifyLimit <= StaleAfter, ~Stalls
  PROVE  Spec => ImplementsRenderLifecycle
  <1>1. InTime
    BY DEF InTime
  <1>2. Init => PunctualInv /\ Lifecycle!Init
    BY PunctualInit DEF Init, Lifecycle!Init, Unused
  <1>3. IInv /\ PunctualInv /\ [Next]_vars => PunctualInv' /\ [Lifecycle!Next]_Bar
    BY <1>1, PunctualStep, LifecycleStep
  <1>4. QED
    BY <1>2, <1>3, RendererInvariance, PTL
       DEF Spec, ImplementsRenderLifecycle, Lifecycle!Spec, Bar

\* Under the same limits a COMPLETED render stays COMPLETED until it is deleted:
\* what render_artifacts.py 287 takes for granted is kept by the limits, not by
\* the UPDATE.
THEOREM CompletedStaysInTime ==
  ASSUME MeasureLimit + EncodeLimit + VerifyLimit <= StaleAfter, ~Stalls
  PROVE  Spec => CompletedStays
  <1> DEFINE Stays == \A i \in Id : row[i].status = "completed"
                                      => row'[i].status \in {"completed", "gone"}
  <1>1. InTime
    BY DEF InTime
  <1>2. Init => PunctualInv
    BY PunctualInit
  <1>3. IInv /\ PunctualInv /\ [Next]_vars => PunctualInv'
    BY <1>1, PunctualStep
  <1>4. ASSUME IInv, PunctualInv, [Next]_vars PROVE Stays
    <2> SUFFICES ASSUME NEW i \in Id, row[i].status = "completed"
                 PROVE  row'[i].status \in {"completed", "gone"}
      OBVIOUS
    <2>1. ~RowRecovered(i)
      BY <1>4 DEF RowRecovered, RecoverOne, PunctualInv, RecoversStale
    <2>2. ~RowStarts(i)
      BY <1>4 DEF RowStarts, PunctualInv, IdsAscend, IInv, TypeOK, Id
    <2>3. QED BY <1>4, <2>1, <2>2, RowStep DEF RowWritten, RowCancelled, Gone
  <1>5. IInv /\ PunctualInv /\ [Next]_vars => Stays
    BY <1>4
  <1>6. QED
    BY <1>2, <1>3, <1>5, RendererInvariance, PTL DEF Spec, CompletedStays
=============================================================================
