------------------------ MODULE PluginRuntimeProofs ------------------------
(***************************************************************************)
(* Proofs about PluginRuntime: an answer goes to the request it was        *)
(* written for, a process has two requests only after a line without an id,*)
(* and one is forgotten while it runs only when its reader has ended; for  *)
(* any number of threads, calls and processes.                             *)
(***************************************************************************)
EXTENDS PluginRuntime, SequenceTheorems, TLAPS

-----------------------------------------------------------------------------
(* Pipes and queues. *)

\* What is in a sequence, as one is put at its end or taken from its front.
LEMMA InSequence ==
  /\ \A S : \A q \in Seq(S) : \A x \in S :
       Append(q, x) \in Seq(S) /\ Range(Append(q, x)) = Range(q) \cup {x}
  /\ \A S : \A q \in Seq(S) : q # <<>> =>
       /\ Head(q) \in S /\ Head(q) \in Range(q)
       /\ Tail(q) \in Seq(S) /\ Range(Tail(q)) \subseteq Range(q)
  /\ \A S : \A q \in Seq(S) : Range(q) \subseteq S
  /\ \A S : <<>> \in Seq(S)
  /\ Range(<<>>) = {}
  <1>1. ASSUME NEW S, NEW q \in Seq(S), NEW x \in S
        PROVE  Append(q, x) \in Seq(S) /\ Range(Append(q, x)) = Range(q) \cup {x}
    <2>1. /\ DOMAIN q = 1 .. Len(q) /\ Len(q) \in Nat
          /\ Append(q, x) \in Seq(S) /\ DOMAIN Append(q, x) = 1 .. Len(q) + 1
          /\ \A k \in 1 .. Len(q) : Append(q, x)[k] = q[k]
          /\ Append(q, x)[Len(q) + 1] = x
      OBVIOUS
    <2>2. ASSUME NEW e \in Range(q) \cup {x} PROVE e \in Range(Append(q, x))
      BY <2>1 DEF Range
    <2>3. ASSUME NEW e \in Range(Append(q, x)) PROVE e \in Range(q) \cup {x}
      BY <2>1 DEF Range
    <2>4. QED BY <2>1, <2>2, <2>3
  <1>2. ASSUME NEW S, NEW q \in Seq(S), q # <<>>
        PROVE  /\ Head(q) \in S /\ Head(q) \in Range(q)
               /\ Tail(q) \in Seq(S) /\ Range(Tail(q)) \subseteq Range(q)
    <2>1. /\ Head(q) \in S /\ Tail(q) \in Seq(S) /\ Len(Tail(q)) = Len(q) - 1
          /\ \A k \in 1 .. Len(Tail(q)) : Tail(q)[k] = q[k + 1]
          /\ DOMAIN q = 1 .. Len(q) /\ DOMAIN Tail(q) = 1 .. Len(Tail(q))
          /\ Len(q) \in Nat \ {0}
      BY <1>2, HeadTailProperties, EmptySeq, LenProperties
    <2>2. Head(q) = q[1]
      BY <1>2
    <2>3. QED BY <2>1, <2>2 DEF Range
  <1>3. ASSUME NEW S, NEW q \in Seq(S) PROVE Range(q) \subseteq S
    BY LenProperties DEF Range
  <1>4. Range(<<>>) = {} /\ \A S : <<>> \in Seq(S)
    BY DEF Range
  <1>5. QED BY <1>1, <1>2, <1>3, <1>4

\* A sequence whose elements differ goes on to be one.
LEMMA Distinct ==
  ASSUME NEW S, NEW q \in Seq(S), \A k, l \in DOMAIN q : q[k] = q[l] => k = l
  PROVE  /\ \A x \in S : x \notin Range(q) =>
              \A k, l \in DOMAIN Append(q, x) : Append(q, x)[k] = Append(q, x)[l] => k = l
         /\ q # <<>> =>
              /\ \A k, l \in DOMAIN Tail(q) : Tail(q)[k] = Tail(q)[l] => k = l
              /\ Head(q) \notin Range(Tail(q))
  <1>1. DOMAIN q = 1 .. Len(q) /\ Len(q) \in Nat
    BY LenProperties
  <1>2. ASSUME NEW x \in S, x \notin Range(q), NEW k \in DOMAIN Append(q, x),
               NEW l \in DOMAIN Append(q, x), Append(q, x)[k] = Append(q, x)[l]
        PROVE  k = l
    <2>1. /\ DOMAIN Append(q, x) = 1 .. Len(q) + 1
          /\ \A j \in 1 .. Len(q) : Append(q, x)[j] = q[j]
          /\ Append(q, x)[Len(q) + 1] = x
      OBVIOUS
    <2>2. \A j \in 1 .. Len(q) : q[j] # x
      BY <1>1, <1>2 DEF Range
    <2>3. QED BY <1>1, <1>2, <2>1, <2>2
  <1>3. ASSUME q # <<>>
        PROVE  /\ \A k, l \in DOMAIN Tail(q) : Tail(q)[k] = Tail(q)[l] => k = l
               /\ Head(q) \notin Range(Tail(q))
    <2>1. /\ Tail(q) \in Seq(S) /\ Len(Tail(q)) = Len(q) - 1
          /\ \A k \in 1 .. Len(Tail(q)) : Tail(q)[k] = q[k + 1]
          /\ DOMAIN Tail(q) = 1 .. Len(Tail(q))
          /\ Len(q) \in Nat \ {0}
      BY <1>3, HeadTailProperties, EmptySeq, LenProperties
    <2>2. Head(q) = q[1]
      BY <1>3
    <2>3. QED BY <1>1, <2>1, <2>2 DEF Range
  <1>4. QED BY <1>2, <1>3

-----------------------------------------------------------------------------
LEMMA InitInv == Init => IInv
  <1> SUFFICES ASSUME Init PROVE IInv
    OBVIOUS
  <1>1. TypeOK
    BY BoundAssumption DEF Init, TypeOK, ProcState, Proc
  <1>2. LockExcludes /\ WaitsForNewest /\ OnlyPending
    BY DEF Init, LockExcludes, Locked, WaitsForNewest, At, Idle, OnlyPending
  <1>3. UnbornSilent /\ LinesWritten /\ SentOnce
    BY InSequence DEF Init, UnbornSilent, LinesWritten, Unread, Lines, SentOnce
  <1>4. AnswersOwnRequest /\ OneRequestAtATime /\ NoForgottenProcess
    BY InSequence DEF Init, AnswersOwnRequest, At, Idle, OneRequestAtATime, Unread, NoForgottenProcess
  <1>5. QED BY <1>1, <1>2, <1>3, <1>4 DEF IInv

\* The record of a thread that is in call or stop.
LEMMA ThreadType ==
  ASSUME TypeOK, NEW t \in Threads, thread[t].pc # "idle"
  PROVE  /\ thread[t] \in Thread
         /\ thread[t].pc \in PC /\ thread[t].id \in 0 .. MaxCalls
         /\ thread[t].proc \in 0 .. MaxProcs /\ thread[t].got \in 0 .. MaxCalls
  BY DEF TypeOK, Thread, Idle

LEMMA BoundedTypes ==
  ASSUME TypeOK
  PROVE  /\ nextId \in Nat /\ nextId <= MaxCalls /\ nextId \in Int
         /\ current \in Nat /\ current <= MaxProcs
         /\ current # 0 => current \in Proc
         /\ \A g \in Proc : g # 0
  BY BoundAssumption DEF TypeOK, Proc

\* "exited" is said of a process.
LEMMA ExitedProc ==
  ASSUME TypeOK, WaitsForNewest, NEW t \in Threads, At(t, "done"), thread[t].how = "exited"
  PROVE  thread[t].proc \in Proc
  BY ThreadType DEF WaitsForNewest, At, Proc

-----------------------------------------------------------------------------
(* Steps of a thread that change nothing but the thread itself. *)

\* A thread that is about to have no request, and leaves with no answer, disturbs nothing.
LEMMA ThreadStep ==
  ASSUME IInv, NEW t \in Threads, UNCHANGED <<plugin, child, history>>,
         NEW r \in Thread \cup {Idle}, thread' = [thread EXCEPT ![t] = r],
         \/ r = Idle
         \/ r.pc \in {"calling", "stopping"}
         \/ r.pc = "done" /\ r.how \in {"failed", "none"}
         \/ r.pc = "starting" /\ nextId < MaxCalls /\ \A u \in Threads : ~Locked(u),
         ~At(t, "waiting"), ~At(t, "writing")
  PROVE  IInv'
  <1> USE DEF IInv
  <1>1. UNCHANGED <<current, nextId, proc, inbox, pipe, reader, queue, strays, unnamed>>
    BY DEF plugin, child, pipes, history
  <1>2. TypeOK'
    BY <1>1 DEF TypeOK
  <1>3. LockExcludes'
    BY DEF LockExcludes, Locked, Idle, TypeOK
  <1>4. WaitsForNewest' /\ AnswersOwnRequest'
    BY <1>1 DEF WaitsForNewest, AnswersOwnRequest, At, Idle, TypeOK
  <1>5. UnbornSilent' /\ LinesWritten' /\ SentOnce' /\ OneRequestAtATime' /\ NoForgottenProcess'
    BY <1>1 DEF UnbornSilent, LinesWritten, Lines, Unread, SentOnce, OneRequestAtATime, NoForgottenProcess
  <1>6. OnlyPending'
    <2>1. \A u \in Threads : /\ At(u, "waiting")' <=> At(u, "waiting")
                             /\ At(u, "writing")' <=> At(u, "writing")
      BY DEF At, Idle, TypeOK
    <2>2. Unread(current)' = Unread(current) /\ Lines(current)' = Lines(current)
      BY <1>1 DEF Unread, Lines
    <2>3. QED BY <1>1, <2>1, <2>2 DEF OnlyPending
  <1>7. QED BY <1>2, <1>3, <1>4, <1>5, <1>6

\* What leaving the with block makes of the thread's record.
LEMMA Leaving ==
  ASSUME TypeOK, NEW t \in Threads, thread[t] \in Thread,
         NEW how \in {"none", "answered", "unnamed", "failed", "exited"}, NEW got \in 0 .. MaxCalls,
         Leave(t, how, got)
  PROVE  \E r \in Thread :
           /\ thread' = [thread EXCEPT ![t] = r]
           /\ r.pc = "done" /\ r.how = how /\ r.got = got
           /\ r.id = thread[t].id /\ r.proc = thread[t].proc
  <1> DEFINE r == [thread[t] EXCEPT !.pc = "done", !.how = how, !.got = got]
  <1>1. /\ r \in Thread
        /\ r.pc = "done" /\ r.how = how /\ r.got = got
        /\ r.id = thread[t].id /\ r.proc = thread[t].proc
    BY DEF Thread, PC
  <1>2. thread' = [thread EXCEPT ![t] = r]
    BY DEF Leave
  <1> HIDE DEF r
  <1>3. QED BY <1>1, <1>2

LEMMA CallInv == ASSUME IInv, NEW t \in Threads, Call(t) PROVE IInv'
  <1>1. Fresh \in Thread /\ Fresh.pc = "calling"
    BY BoundAssumption DEF Fresh, Thread, PC
  <1>2. QED BY <1>1, ThreadStep DEF Call, At

LEMMA AskStopInv == ASSUME IInv, NEW t \in Threads, AskStop(t) PROVE IInv'
  <1> DEFINE r == [Fresh EXCEPT !.pc = "stopping"]
  <1>1. r \in Thread /\ r.pc = "stopping"
    BY BoundAssumption DEF Fresh, Thread, PC
  <1>2. /\ thread' = [thread EXCEPT ![t] = r] /\ UNCHANGED <<plugin, child, history>>
        /\ ~At(t, "waiting") /\ ~At(t, "writing")
    BY DEF AskStop, At
  <1> HIDE DEF r
  <1>3. QED BY <1>1, <1>2, ThreadStep

LEMMA ReturnInv == ASSUME IInv, NEW t \in Threads, Return(t) PROVE IInv'
  BY ThreadStep DEF Return, At

LEMMA LockInv == ASSUME IInv, NEW t \in Threads, Lock(t) PROVE IInv'
  <1>1. thread[t] \in Thread
    BY ThreadType DEF Lock, At, IInv
  <1>2. /\ UNCHANGED <<plugin, child, history>> /\ ~At(t, "waiting") /\ ~At(t, "writing")
        /\ \A u \in Threads : ~Locked(u)
    BY DEF Lock, At
  <1>3. CASE nextId < MaxCalls
    <2> DEFINE r == [thread[t] EXCEPT !.pc = "starting"]
    <2>1. r \in Thread /\ r.pc = "starting" /\ thread' = [thread EXCEPT ![t] = r]
      BY <1>1, <1>3 DEF Lock, Goto, Thread, PC
    <2> HIDE DEF r
    <2>2. QED BY <1>2, <1>3, <2>1, ThreadStep
  <1>4. CASE ~(nextId < MaxCalls)
    <2>1. Leave(t, "failed", 0)
      BY <1>4 DEF Lock
    <2>2. PICK r \in Thread : /\ thread' = [thread EXCEPT ![t] = r]
                              /\ r.pc = "done" /\ r.how = "failed"
      BY <1>1, <2>1, Leaving, BoundAssumption DEF IInv
    <2>3. QED BY <1>2, <2>2, ThreadStep
  <1>5. QED BY <1>3, <1>4

LEMMA StartFailsInv == ASSUME IInv, NEW t \in Threads, StartFails(t) PROVE IInv'
  <1>1. thread[t] \in Thread
    BY ThreadType DEF StartFails, At, IInv
  <1>2. PICK r \in Thread : /\ thread' = [thread EXCEPT ![t] = r]
                            /\ r.pc = "done" /\ r.how = "failed"
    BY <1>1, Leaving, BoundAssumption DEF IInv, StartFails
  <1>3. UNCHANGED <<plugin, child, history>> /\ ~At(t, "waiting") /\ ~At(t, "writing")
    BY DEF StartFails, At
  <1>4. QED BY <1>2, <1>3, ThreadStep

-----------------------------------------------------------------------------
(* Steps of a thread that has the lock, or stops the plugin. *)

\* Taking a line off the queue of the current process.
Taken == queue' = [queue EXCEPT ![current] = Tail(@)]

\* It leaves no line that was not there.
LEMMA TakenLess ==
  ASSUME TypeOK, current \in Proc, queue[current] # <<>>, Taken, UNCHANGED pipe
  PROVE  /\ queue' \in [Proc -> Seq(Line \cup {Unnamed, Eof})]
         /\ \A g \in Proc : /\ Range(queue'[g]) \subseteq Range(queue[g])
                            /\ Lines(g)' \subseteq Lines(g)
  <1>1. \A g \in Proc : queue'[g] = IF g = current THEN Tail(queue[g]) ELSE queue[g]
    BY DEF TypeOK, Taken
  <1>2. /\ Tail(queue[current]) \in Seq(Line \cup {Unnamed, Eof})
        /\ Range(Tail(queue[current])) \subseteq Range(queue[current])
    BY InSequence DEF TypeOK
  <1>3. queue' \in [Proc -> Seq(Line \cup {Unnamed, Eof})]
    BY <1>2 DEF TypeOK, Taken
  <1>4. \A g \in Proc : Range(queue'[g]) \subseteq Range(queue[g])
    BY <1>1, <1>2
  <1>5. QED BY <1>3, <1>4 DEF Lines

\* What Kill may do to the processes: it ends the one that is current.
ProcLeft ==
  \/ proc' = proc /\ (current # 0 => proc[current] # "alive" \/ reader[current] = "over")
  \/ /\ current # 0 /\ proc[current] = "alive"
     /\ \E left \in {"dead", "orphan"} : proc' = [proc EXCEPT ![current] = left]

LEMMA KillLeaves == ASSUME Kill PROVE ProcLeft /\ current' = 0
  BY DEF Kill, Forget, IsAlive, ProcLeft

\* Leaving the plugin with nothing current.
LEMMA LeaveStep ==
  ASSUME IInv, NEW t \in Threads, NEW r \in Thread,
         thread' = [thread EXCEPT ![t] = r],
         r.pc = "done",
         \/ r.how \in {"failed", "none"}
         \/ r.how = "exited" /\ r.proc \in Proc /\ reader[r.proc] = "over",
         \A u \in Threads : Locked(u) => u = t,
         current' = 0, ProcLeft,
         UNCHANGED <<inbox, pipe, reader, history>>,
         nextId' \in Int, nextId <= nextId', nextId' <= MaxCalls,
         \/ queue' = queue
         \/ current \in Proc /\ queue[current] # <<>> /\ Taken
  PROVE  IInv'
  <1> USE DEF IInv
  <1>1. proc' \in [Proc -> ProcState]
        /\ \A g \in Proc : /\ proc'[g] = "unborn" <=> proc[g] = "unborn"
                           /\ proc'[g] = "alive" => reader[g] = "over"
    BY BoundedTypes DEF ProcLeft, TypeOK, ProcState, NoForgottenProcess
  <1>2. /\ queue' \in [Proc -> Seq(Line \cup {Unnamed, Eof})]
        /\ \A g \in Proc : /\ Range(queue'[g]) \subseteq Range(queue[g])
                           /\ Lines(g)' \subseteq Lines(g)
    <2>1. CASE queue' = queue
      BY <2>1 DEF TypeOK, Lines
    <2>2. CASE current \in Proc /\ queue[current] # <<>> /\ Taken
      BY <2>2, TakenLess
    <2>3. QED BY <2>1, <2>2
  <1>3. TypeOK'
    BY <1>1, <1>2, BoundedTypes, BoundAssumption DEF TypeOK, history
  <1>4. LockExcludes'
    BY DEF LockExcludes, Locked, TypeOK
  <1>5. ASSUME NEW u \in Threads, u # t
        PROVE  /\ ~At(u, "starting")' /\ ~At(u, "sending")'
               /\ ~At(u, "writing")' /\ ~At(u, "waiting")'
               /\ thread'[u] = thread[u]
    BY <1>5 DEF Locked, At, TypeOK
  <1>6. /\ ~At(t, "starting")' /\ ~At(t, "sending")'
        /\ ~At(t, "writing")' /\ ~At(t, "waiting")'
        /\ thread'[t] = r
    BY DEF At, TypeOK
  <1>7. WaitsForNewest'
    BY <1>5, <1>6, BoundedTypes DEF WaitsForNewest, At
  <1>8. AnswersOwnRequest'
    BY <1>5, <1>6 DEF AnswersOwnRequest, At
  <1>9. OnlyPending'
    BY DEF OnlyPending
  <1>10. UnbornSilent' /\ SentOnce' /\ OneRequestAtATime' /\ NoForgottenProcess'
    BY <1>1 DEF UnbornSilent, SentOnce, OneRequestAtATime, Unread, NoForgottenProcess, history
  <1>11. LinesWritten'
    <2>1. \A g \in Proc : Unread(g)' = Unread(g)
      BY DEF Unread
    <2>2. ASSUME NEW g \in Proc, NEW line \in Lines(g)', line.kind = "line"
          PROVE  line.wire = line.for /\ line.wire <= nextId'
      <3>1. line \in Lines(g) /\ line \in Line \cup {Unnamed, Garbled, Eof}
        BY <1>2, <2>2, InSequence DEF Lines, TypeOK
      <3>2. line.wire \in Int /\ line.wire = line.for /\ line.wire <= nextId
        BY <2>2, <3>1, BoundAssumption DEF LinesWritten, Line, Unnamed, Garbled, Eof
      <3>3. QED BY <3>2, BoundedTypes
    <2>3. QED BY <1>2, <2>1, <2>2, BoundedTypes DEF LinesWritten
  <1>12. QED BY <1>3, <1>4, <1>7, <1>8, <1>9, <1>10, <1>11

LEMMA SendFailsInv == ASSUME IInv, NEW t \in Threads, SendFails(t) PROVE IInv'
  <1>1. thread[t] \in Thread /\ (At(t, "sending") => nextId < MaxCalls)
    BY ThreadType DEF SendFails, At, IInv, WaitsForNewest
  <1>2. PICK r \in Thread : /\ thread' = [thread EXCEPT ![t] = r]
                            /\ r.pc = "done" /\ r.how = "failed"
    BY <1>1, Leaving, BoundAssumption DEF IInv, SendFails
  <1>3. \A u \in Threads : Locked(u) => u = t
    BY DEF SendFails, At, Locked, IInv, LockExcludes
  <1>4. /\ nextId' \in Int /\ nextId <= nextId' /\ nextId' <= MaxCalls
        /\ UNCHANGED <<inbox, pipe, reader, queue, history>>
    BY <1>1, BoundedTypes, BoundAssumption DEF SendFails, pipes, IInv
  <1>5. ProcLeft /\ current' = 0
    BY KillLeaves DEF SendFails
  <1>6. QED BY <1>2, <1>3, <1>4, <1>5, LeaveStep

LEMMA TakeStrayInv == ASSUME IInv, NEW t \in Threads, TakeStray(t) PROVE IInv'
  <1>1. thread[t] \in Thread /\ current \in Proc
    BY ThreadType, BoundedTypes DEF TakeStray, At, IInv, WaitsForNewest
  <1>2. PICK r \in Thread : /\ thread' = [thread EXCEPT ![t] = r]
                            /\ r.pc = "done" /\ r.how = "failed"
    BY <1>1, Leaving, BoundAssumption DEF IInv, TakeStray
  <1>3. \A u \in Threads : Locked(u) => u = t
    BY DEF TakeStray, At, Locked, IInv, LockExcludes
  <1>4. /\ nextId' \in Int /\ nextId <= nextId' /\ nextId' <= MaxCalls
        /\ UNCHANGED <<inbox, pipe, reader, history>>
        /\ queue[current] # <<>> /\ Taken
    BY <1>1, BoundedTypes, BoundAssumption DEF TakeStray, Taken, IInv
  <1>5. ProcLeft /\ current' = 0
    BY KillLeaves DEF TakeStray
  <1>6. QED BY <1>1, <1>2, <1>3, <1>4, <1>5, LeaveStep

LEMMA TimesOutInv == ASSUME IInv, NEW t \in Threads, TimesOut(t) PROVE IInv'
  <1>1. thread[t] \in Thread
    BY ThreadType DEF TimesOut, At, IInv
  <1>2. PICK r \in Thread : /\ thread' = [thread EXCEPT ![t] = r]
                            /\ r.pc = "done" /\ r.how = "failed"
    BY <1>1, Leaving, BoundAssumption DEF IInv, TimesOut
  <1>3. \A u \in Threads : Locked(u) => u = t
    BY DEF TimesOut, At, Locked, IInv, LockExcludes
  <1>4. /\ nextId' \in Int /\ nextId <= nextId' /\ nextId' <= MaxCalls
        /\ UNCHANGED <<inbox, pipe, reader, queue, history>>
    BY BoundedTypes DEF TimesOut, pipes, IInv
  <1>5. ProcLeft /\ current' = 0
    BY KillLeaves DEF TimesOut
  <1>6. QED BY <1>2, <1>3, <1>4, <1>5, LeaveStep

LEMMA StopInv == ASSUME IInv, NEW t \in Threads, Stop(t) PROVE IInv'
  <1>1. thread[t] \in Thread
    BY ThreadType DEF Stop, At, IInv
  <1>2. PICK r \in Thread : /\ thread' = [thread EXCEPT ![t] = r]
                            /\ r.pc = "done" /\ r.how = "none"
    BY <1>1, Leaving, BoundAssumption DEF IInv, Stop
  <1>3. \A u \in Threads : Locked(u) => u = t
    BY DEF Stop
  <1>4. /\ nextId' \in Int /\ nextId <= nextId' /\ nextId' <= MaxCalls
        /\ UNCHANGED <<inbox, pipe, reader, queue, history>>
    BY BoundedTypes DEF Stop, pipes, IInv
  <1>5. ProcLeft /\ current' = 0
    BY KillLeaves DEF Stop
  <1>6. QED BY <1>2, <1>3, <1>4, <1>5, LeaveStep

\* None is in the queue of a process only when its reader has ended.
LEMMA TakeEofInv == ASSUME IInv, NEW t \in Threads, TakeEof(t) PROVE IInv'
  <1>1. thread[t] \in Thread /\ current \in Proc /\ thread[t].proc = current
    BY ThreadType, BoundedTypes DEF TakeEof, At, IInv, WaitsForNewest
  <1>2. PICK r \in Thread : /\ thread' = [thread EXCEPT ![t] = r]
                            /\ r.pc = "done" /\ r.how = "exited" /\ r.proc = current
    BY <1>1, Leaving, BoundAssumption DEF IInv, TakeEof
  <1>3. \A u \in Threads : Locked(u) => u = t
    BY DEF TakeEof, At, Locked, IInv, LockExcludes
  <1>4. reader[current] = "over"
    <2>1. Head(queue[current]) \in Range(queue[current])
      BY <1>1, InSequence DEF TakeEof, TypeOK, IInv
    <2>2. QED BY <1>1, <2>1 DEF TakeEof, LinesWritten, IInv
  <1>5. /\ nextId' \in Int /\ nextId <= nextId' /\ nextId' <= MaxCalls
        /\ UNCHANGED <<inbox, pipe, reader, history, proc>> /\ current' = 0
        /\ queue[current] # <<>> /\ Taken
    BY BoundedTypes DEF TakeEof, Forget, Taken, IInv
  <1>6. ProcLeft
    BY <1>4, <1>5 DEF ProcLeft
  <1>7. QED BY <1>1, <1>2, <1>3, <1>4, <1>5, <1>6, LeaveStep

-----------------------------------------------------------------------------
(* A lock holder that goes on, or is answered. *)

\* The other threads stay where they are, without the lock.
LEMMA HolderStep ==
  ASSUME IInv, NEW t \in Threads, Locked(t), NEW r, thread' = [thread EXCEPT ![t] = r]
  PROVE  /\ thread'[t] = r
         /\ \A u \in Threads : u # t => thread'[u] = thread[u] /\ ~Locked(u) /\ ~Locked(u)'
         /\ LockExcludes'
  <1>1. thread'[t] = r /\ \A u \in Threads : u # t => thread'[u] = thread[u]
    BY DEF IInv, TypeOK
  <1>2. \A u \in Threads : u # t => ~Locked(u)
    BY DEF IInv, LockExcludes
  <1>3. \A u \in Threads : u # t => ~Locked(u)'
    BY <1>1, <1>2 DEF Locked
  <1>4. QED BY <1>1, <1>2, <1>3 DEF LockExcludes

LEMMA StartInv == ASSUME IInv, NEW t \in Threads, Start(t) PROVE IInv'
  <1> USE DEF IInv
  <1> DEFINE r == [thread[t] EXCEPT !.pc = "sending"]
  <1>1. thread[t] \in Thread /\ At(t, "starting") /\ Locked(t)
    BY ThreadType DEF Start, At, Locked
  <1>2. /\ r \in Thread /\ r.pc = "sending"
        /\ thread' = [thread EXCEPT ![t] = r]
        /\ UNCHANGED <<nextId, inbox, pipe, reader, queue, strays, unnamed>>
    BY <1>1 DEF Start, Goto, Thread, PC, pipes, history
  <1> HIDE DEF r
  <1>3. \/ current # 0 /\ proc[current] = "alive" /\ UNCHANGED <<current, proc>>
        \/ /\ ~IsAlive
           /\ \E g \in Proc : /\ proc[g] = "unborn" /\ current' = g
                              /\ proc' = [proc EXCEPT ![g] = "alive"]
    BY DEF Start, IsAlive
  <1>4. /\ current' # 0 /\ current' \in Proc
        /\ proc' \in [Proc -> ProcState]
        /\ \A g \in Proc : /\ proc'[g] = "unborn" => proc[g] = "unborn"
                           /\ proc'[g] = "alive" => g = current' \/ reader[g] = "over"
    BY <1>3, BoundedTypes DEF TypeOK, ProcState, NoForgottenProcess, IsAlive
  <1>5. TypeOK'
    BY <1>2, <1>4 DEF TypeOK, Proc
  <1>6. /\ thread'[t] = r /\ LockExcludes'
        /\ \A u \in Threads : u # t => thread'[u] = thread[u] /\ ~Locked(u)
    BY <1>1, <1>2, HolderStep
  <1>7. WaitsForNewest'
    BY <1>1, <1>2, <1>4, <1>6 DEF WaitsForNewest, At, Locked
  <1>8. AnswersOwnRequest'
    BY <1>2, <1>6 DEF AnswersOwnRequest, At
  <1>9. UnbornSilent' /\ OneRequestAtATime' /\ SentOnce' /\ NoForgottenProcess' /\ LinesWritten'
    BY <1>2, <1>4 DEF UnbornSilent, OneRequestAtATime, SentOnce, Unread, NoForgottenProcess,
       LinesWritten, Lines
  <1>10. \A u \in Threads : /\ ~At(u, "waiting") /\ ~At(u, "waiting")'
                            /\ ~At(u, "writing") /\ ~At(u, "writing")'
    BY <1>1, <1>2, <1>6 DEF At, Locked
  <1>11. OnlyPending'
    <2>1. CASE current' = current
      BY <1>2, <1>10, <2>1 DEF OnlyPending, Unread, Lines
    <2>2. CASE current' # current
      <3>1. inbox'[current'] = <<>>
        BY <1>2, <1>3, <2>2 DEF UnbornSilent
      <3>2. Unread(current)' = {}
        BY <3>1, InSequence DEF Unread
      <3>3. QED BY <1>10, <3>2 DEF OnlyPending
    <2>3. QED BY <2>1, <2>2
  <1>12. QED BY <1>5, <1>6, <1>7, <1>8, <1>9, <1>11

\* What the next id is given to: the process has no request but those whose calls
\* took a line without an id, and no line has that id.
LEMMA NextRequest ==
  ASSUME IInv, NEW t \in Threads, At(t, "sending"), nextId' = nextId + 1
  PROVE  /\ thread[t] \in Thread /\ Locked(t)
         /\ current \in Proc /\ current # 0 /\ nextId < MaxCalls
         /\ nextId' \in Id /\ nextId' \in 0 .. MaxCalls /\ nextId' # 0
         /\ Unread(current) \subseteq unnamed
         /\ \A g \in Proc : /\ nextId' \notin Unread(g)
                            /\ Unread(g) \subseteq 1 .. nextId'
                            /\ \A line \in Lines(g) : line.kind = "line" =>
                                 line.wire = line.for /\ line.wire <= nextId' /\ line.wire # nextId'
  <1> USE DEF IInv
  <1>1. /\ thread[t] \in Thread /\ Locked(t)
        /\ current \in Proc /\ current # 0 /\ nextId < MaxCalls
    BY ThreadType, BoundedTypes DEF At, Locked, WaitsForNewest
  <1>2. nextId \in Nat /\ nextId' \in Id /\ nextId' \in 0 .. MaxCalls /\ nextId' # 0
    BY <1>1, BoundedTypes, BoundAssumption DEF Id
  <1>3. Unread(current) \subseteq unnamed
    <2>1. \A u \in Threads : ~At(u, "waiting")
      BY DEF At, Locked, LockExcludes
    <2>2. QED BY <1>1, <2>1 DEF OnlyPending
  <1>4. ASSUME NEW g \in Proc
        PROVE  /\ nextId' \notin Unread(g)
               /\ Unread(g) \subseteq 1 .. nextId'
    BY <1>2 DEF LinesWritten
  <1>5. ASSUME NEW g \in Proc, NEW line \in Lines(g), line.kind = "line"
        PROVE  line.wire = line.for /\ line.wire <= nextId' /\ line.wire # nextId'
    <2>1. line \in Line \cup {Unnamed, Garbled, Eof}
      <3>1. /\ pipe[g] \in Seq(Line \cup {Unnamed, Garbled})
            /\ queue[g] \in Seq(Line \cup {Unnamed, Eof})
        BY DEF TypeOK
      <3>2. /\ Range(pipe[g]) \subseteq Line \cup {Unnamed, Garbled}
            /\ Range(queue[g]) \subseteq Line \cup {Unnamed, Eof}
        BY <3>1, InSequence
      <3>3. QED BY <3>2 DEF Lines
    <2>2. line.wire \in Int /\ line.wire = line.for /\ line.wire <= nextId
      BY <1>5, <2>1, BoundAssumption DEF LinesWritten, Line, Unnamed, Garbled, Eof
    <2>3. QED BY <1>2, <2>2
  <1>6. QED BY <1>1, <1>2, <1>3, <1>4, <1>5

LEMMA SendInv == ASSUME IInv, NEW t \in Threads, Send(t) PROVE IInv'
  <1> USE DEF IInv
  <1> DEFINE r == [thread[t] EXCEPT !.pc = "waiting", !.id = nextId + 1, !.proc = current]
  <1>1. /\ At(t, "sending") /\ nextId' = nextId + 1 /\ proc[current] # "unborn"
        /\ inbox' = [inbox EXCEPT ![current] = Append(@, nextId')]
        /\ thread' = [thread EXCEPT ![t] = r]
        /\ UNCHANGED <<current, proc, pipe, reader, queue, strays, unnamed>>
    BY DEF Send, Running, history
  <1>2. /\ thread[t] \in Thread /\ Locked(t)
        /\ current \in Proc /\ current # 0 /\ nextId < MaxCalls
        /\ nextId' \in Id /\ nextId' \in 0 .. MaxCalls /\ nextId' # 0
        /\ Unread(current) \subseteq unnamed
    BY <1>1, NextRequest
  <1>3. /\ r \in Thread /\ r.pc = "waiting" /\ r.id = nextId' /\ r.proc = current
    <2>1. current \in 0 .. MaxProcs /\ nextId + 1 \in 0 .. MaxCalls
      BY <1>1, <1>2 DEF TypeOK
    <2>2. QED BY <1>1, <1>2, <2>1 DEF Thread, PC
  <1> HIDE DEF r
  <1>4. /\ inbox' \in [Proc -> Seq(Id)]
        /\ inbox'[current] = Append(inbox[current], nextId')
        /\ Unread(current)' = Unread(current) \cup {nextId'}
        /\ \A g \in Proc : g # current => inbox'[g] = inbox[g] /\ Unread(g)' = Unread(g)
    <2>1. inbox[current] \in Seq(Id)
      BY <1>2 DEF TypeOK
    <2>2. /\ Append(inbox[current], nextId') \in Seq(Id)
          /\ Range(Append(inbox[current], nextId')) = Range(inbox[current]) \cup {nextId'}
      BY <1>2, <2>1, InSequence
    <2>3. /\ inbox'[current] = Append(inbox[current], nextId')
          /\ \A g \in Proc : g # current => inbox'[g] = inbox[g]
      BY <1>1, <1>2 DEF TypeOK
    <2>4. inbox' \in [Proc -> Seq(Id)]
      BY <1>1, <1>2, <2>2 DEF TypeOK
    <2>5. Unread(current)' = Range(inbox'[current])
      BY <1>1 DEF Unread
    <2>6. QED BY <2>2, <2>3, <2>4, <2>5 DEF Unread
  <1>5. TypeOK'
    BY <1>1, <1>2, <1>3, <1>4 DEF TypeOK
  <1>6. /\ thread'[t] = r /\ LockExcludes'
        /\ \A u \in Threads : u # t => thread'[u] = thread[u] /\ ~Locked(u)
    BY <1>1, <1>2, HolderStep
  <1>7. WaitsForNewest'
    BY <1>1, <1>2, <1>3, <1>6 DEF WaitsForNewest, At, Locked
  <1>8. AnswersOwnRequest'
    BY <1>1, <1>3, <1>6 DEF AnswersOwnRequest, At
  <1>9. NoForgottenProcess' /\ UnbornSilent'
    BY <1>1, <1>4 DEF NoForgottenProcess, UnbornSilent
  <1>10. \A g \in Proc : Lines(g)' = Lines(g)
    BY <1>1 DEF Lines
  <1>11. LinesWritten'
    <2>1. \A g \in Proc : Unread(g)' \subseteq 1 .. nextId'
      BY <1>1, <1>2, <1>4, NextRequest DEF Id
    <2>2. \A g \in Proc : \A line \in Lines(g)' : line.kind = "line" =>
            line.wire = line.for /\ line.wire <= nextId'
      BY <1>1, <1>10, NextRequest
    <2>3. QED BY <1>1, <2>1, <2>2 DEF LinesWritten
  <1>12. SentOnce'
    <2>1. inbox[current] \in Seq(Id) /\ nextId' \notin Range(inbox[current])
      BY <1>1, <1>2, NextRequest DEF TypeOK, Unread
    <2>2. \A k, l \in DOMAIN inbox[current] : inbox[current][k] = inbox[current][l] => k = l
      BY <1>2 DEF SentOnce
    <2> DEFINE q == inbox'[current]
    <2>3. \A k, l \in DOMAIN q : q[k] = q[l] => k = l
      <3>1. q = Append(inbox[current], nextId')
        BY <1>4
      <3> HIDE DEF q
      <3>2. \A k, l \in DOMAIN Append(inbox[current], nextId') :
              Append(inbox[current], nextId')[k] = Append(inbox[current], nextId')[l] => k = l
        <4>1. PICK s, x : s = inbox[current] /\ x = nextId'
          OBVIOUS
        <4>2. s \in Seq(Id) /\ x \in Id /\ x \notin Range(s)
              /\ \A k, l \in DOMAIN s : s[k] = s[l] => k = l
          BY <1>2, <2>1, <2>2, <4>1
        <4>3. \A k, l \in DOMAIN Append(s, x) : Append(s, x)[k] = Append(s, x)[l] => k = l
          BY <4>2, Distinct
        <4>4. QED BY <4>1, <4>3
      <3>3. QED BY <3>1, <3>2
    <2>4. QED BY <1>4, <2>3 DEF SentOnce
  <1>13. OneRequestAtATime'
    BY <1>1, <1>2, <1>4 DEF OneRequestAtATime
  <1>14. OnlyPending'
    <2>1. At(t, "waiting")' /\ \A line \in Lines(current)' : line.kind = "line" => line.wire # nextId'
      BY <1>1, <1>2, <1>3, <1>6, <1>10, NextRequest DEF At
    <2>2. \A i \in Unread(current)' : i \in unnamed \/ i = nextId'
      BY <1>2, <1>4
    <2>3. \A u \in Threads : ~At(u, "writing")'
      BY <1>3, <1>6 DEF At, Locked
    <2>4. QED BY <1>1, <2>1, <2>2, <2>3 DEF OnlyPending
  <1>15. QED BY <1>5, <1>6, <1>7, <1>8, <1>9, <1>11, <1>12, <1>13, <1>14

LEMMA BlockInv == ASSUME IInv, NEW t \in Threads, Block(t) PROVE IInv'
  <1> USE DEF IInv
  <1> DEFINE r == [thread[t] EXCEPT !.pc = "writing", !.id = nextId + 1, !.proc = current]
  <1>1. /\ At(t, "sending") /\ nextId' = nextId + 1
        /\ thread' = [thread EXCEPT ![t] = r]
        /\ UNCHANGED <<current, proc, inbox, pipe, reader, queue, strays, unnamed>>
    BY DEF Block, child, pipes, history
  <1>2. /\ thread[t] \in Thread /\ Locked(t)
        /\ current \in Proc /\ current # 0 /\ nextId < MaxCalls
        /\ nextId' \in Id /\ nextId' \in 0 .. MaxCalls /\ nextId' # 0
        /\ Unread(current) \subseteq unnamed
    BY <1>1, NextRequest
  <1>3. /\ r \in Thread /\ r.pc = "writing" /\ r.id = nextId' /\ r.proc = current
    <2>1. current \in 0 .. MaxProcs /\ nextId + 1 \in 0 .. MaxCalls
      BY <1>1, <1>2 DEF TypeOK
    <2>2. QED BY <1>1, <1>2, <2>1 DEF Thread, PC
  <1> HIDE DEF r
  <1>4. TypeOK'
    BY <1>1, <1>2, <1>3 DEF TypeOK
  <1>5. /\ thread'[t] = r /\ LockExcludes'
        /\ \A u \in Threads : u # t => thread'[u] = thread[u] /\ ~Locked(u)
    BY <1>1, <1>2, HolderStep
  <1>6. WaitsForNewest'
    BY <1>1, <1>2, <1>3, <1>5 DEF WaitsForNewest, At, Locked
  <1>7. AnswersOwnRequest'
    BY <1>1, <1>3, <1>5 DEF AnswersOwnRequest, At
  <1>8. NoForgottenProcess' /\ UnbornSilent' /\ SentOnce' /\ OneRequestAtATime'
    BY <1>1 DEF NoForgottenProcess, UnbornSilent, SentOnce, OneRequestAtATime, Unread
  <1>9. \A g \in Proc : Unread(g)' = Unread(g) /\ Lines(g)' = Lines(g)
    BY <1>1 DEF Unread, Lines
  <1>10. LinesWritten'
    BY <1>1, <1>9, NextRequest DEF LinesWritten
  <1>11. OnlyPending'
    <2>1. \A line \in Lines(current)' : line.kind = "line" => line.wire # nextId'
      BY <1>1, <1>2, <1>9, NextRequest
    <2>2. nextId' \notin Unread(current)
      BY <1>1, <1>2, NextRequest
    <2>3. QED BY <1>1, <1>2, <1>9, <2>1, <2>2 DEF OnlyPending
  <1>12. QED BY <1>4, <1>5, <1>6, <1>7, <1>8, <1>10, <1>11

\* The thread goes with an answer and the process is kept: what it has still to
\* read is of calls that took a line without an id.
LEMMA AnswerStep ==
  ASSUME IInv, NEW t \in Threads, At(t, "waiting"), queue[current] # <<>>, Taken,
         NEW r \in Thread, thread' = [thread EXCEPT ![t] = r], r.pc = "done",
         \/ r.how = "answered" /\ r.got = r.id
         \/ r.how = "unnamed",
         UNCHANGED <<current, nextId, proc, inbox, pipe, reader, strays>>,
         unnamed \subseteq unnamed', unnamed' \subseteq Id,
         nextId \in Unread(current) => nextId \in unnamed'
  PROVE  IInv'
  <1> USE DEF IInv
  <1>1. current \in Proc /\ current # 0 /\ Locked(t)
    BY BoundedTypes DEF At, WaitsForNewest, Locked
  <1>2. /\ queue' \in [Proc -> Seq(Line \cup {Unnamed, Eof})]
        /\ \A g \in Proc : /\ Range(queue'[g]) \subseteq Range(queue[g])
                           /\ Lines(g)' \subseteq Lines(g)
    BY <1>1, TakenLess
  <1>3. TypeOK'
    BY <1>2 DEF TypeOK
  <1>4. /\ thread'[t] = r /\ LockExcludes'
        /\ \A u \in Threads : u # t => thread'[u] = thread[u] /\ ~Locked(u)
    BY <1>1, HolderStep
  <1>5. WaitsForNewest'
    BY <1>4 DEF WaitsForNewest, At, Locked
  <1>6. AnswersOwnRequest'
    BY <1>4 DEF AnswersOwnRequest, At
  <1>7. \A g \in Proc : Unread(g)' = Unread(g)
    BY DEF Unread
  <1>8. NoForgottenProcess' /\ UnbornSilent' /\ SentOnce' /\ OneRequestAtATime'
    BY <1>7 DEF NoForgottenProcess, UnbornSilent, SentOnce, OneRequestAtATime
  <1>9. LinesWritten'
    BY <1>2, <1>7 DEF LinesWritten
  <1>10. OnlyPending'
    <2>1. \A u \in Threads : ~At(u, "writing")'
      BY <1>4 DEF At, Locked
    <2>2. Unread(current) \subseteq unnamed'
      BY <1>1 DEF OnlyPending
    <2>3. nextId \in Unread(current) =>
            \A line \in Lines(current)' : line.kind = "line" => line.wire # nextId
      BY <1>1, <1>2 DEF OnlyPending
    <2>4. QED BY <1>1, <1>7, <2>1, <2>2, <2>3 DEF OnlyPending
  <1>11. QED BY <1>3, <1>4, <1>5, <1>6, <1>8, <1>9, <1>10

\* An answer with the newest id is on the queue only once the request has left
\* the inbox.
LEMMA TakeAnswerInv == ASSUME IInv, NEW t \in Threads, TakeAnswer(t) PROVE IInv'
  <1> USE DEF IInv
  <1> DEFINE line == Head(queue[current])
  <1>1. /\ thread[t] \in Thread /\ At(t, "waiting") /\ thread[t].id = nextId
        /\ current \in Proc /\ current # 0
    BY ThreadType, BoundedTypes DEF TakeAnswer, At, WaitsForNewest
  <1>2. /\ queue[current] # <<>> /\ line.kind = "line" /\ line.wire = nextId /\ Taken
        /\ UNCHANGED <<current, nextId, proc, inbox, pipe, reader, strays, unnamed>>
        /\ Leave(t, "answered", line.for)
    BY DEF TakeAnswer, plugin, history, Taken
  <1>3. line \in Lines(current)
    BY <1>1, <1>2, InSequence DEF Lines, TypeOK
  <1> HIDE DEF line
  <1>4. line.for = nextId /\ nextId \in 0 .. MaxCalls /\ nextId \notin Unread(current)
    BY <1>1, <1>2, <1>3 DEF LinesWritten, OnlyPending, TypeOK
  <1>5. PICK r \in Thread : /\ thread' = [thread EXCEPT ![t] = r]
                            /\ r.pc = "done" /\ r.how = "answered"
                            /\ r.got = nextId /\ r.id = nextId
    BY <1>1, <1>2, <1>4, Leaving
  <1>6. unnamed' \subseteq Id
    BY <1>2 DEF TypeOK
  <1>7. QED BY <1>1, <1>2, <1>4, <1>5, <1>6, AnswerStep

LEMMA TakeUnnamedInv == ASSUME IInv, NEW t \in Threads, TakeUnnamed(t) PROVE IInv'
  <1> USE DEF IInv
  <1>1. thread[t] \in Thread /\ At(t, "waiting") /\ nextId # 0
    BY ThreadType DEF TakeUnnamed, At, WaitsForNewest
  <1>2. /\ queue[current] # <<>> /\ Taken
        /\ UNCHANGED <<current, nextId, proc, inbox, pipe, reader, strays>>
        /\ unnamed' = unnamed \cup {nextId}
        /\ Leave(t, "unnamed", 0)
    BY DEF TakeUnnamed, plugin, Taken
  <1>3. PICK r \in Thread : /\ thread' = [thread EXCEPT ![t] = r]
                            /\ r.pc = "done" /\ r.how = "unnamed"
    BY <1>1, <1>2, Leaving, BoundAssumption
  <1>4. unnamed' \subseteq Id
    BY <1>1, <1>2, BoundedTypes, BoundAssumption DEF TypeOK, Id
  <1>5. QED BY <1>1, <1>2, <1>3, <1>4, AnswerStep

-----------------------------------------------------------------------------
(* The plugin process and its reader. *)

\* What the threads rely on holds as long as no process comes back and no reader
\* that has ended goes on.
LEMMA ChildStep ==
  ASSUME IInv, UNCHANGED <<current, nextId, thread>>,
         \A g \in Proc : /\ proc'[g] = "unborn" => proc[g] = "unborn" /\ inbox'[g] = inbox[g]
                         /\ proc'[g] = "alive" => proc[g] = "alive"
                         /\ reader[g] = "over" => reader'[g] = "over"
  PROVE  LockExcludes' /\ WaitsForNewest' /\ UnbornSilent' /\ AnswersOwnRequest' /\ NoForgottenProcess'
  <1> USE DEF IInv
  <1>1. LockExcludes' /\ WaitsForNewest'
    BY DEF LockExcludes, Locked, WaitsForNewest, At
  <1>2. UnbornSilent' /\ NoForgottenProcess'
    BY DEF UnbornSilent, NoForgottenProcess
  <1>3. AnswersOwnRequest'
    BY ExitedProc DEF AnswersOwnRequest, At
  <1>4. QED BY <1>1, <1>2, <1>3

\* What is written is of the request it carries the id of, and one with the newest
\* id comes from a process that has nothing more of that request to read.
LEMMA LinesStep ==
  ASSUME IInv, UNCHANGED <<current, nextId, thread, unnamed>>,
         \A g \in Proc :
           /\ Unread(g)' \subseteq Unread(g)
           /\ Eof \in Range(queue'[g]) => reader'[g] = "over"
           /\ \A line \in Lines(g)' :
                \/ line \in Lines(g)
                \/ line.kind # "line"
                \/ /\ line.wire = line.for /\ line.wire <= nextId
                   /\ line.wire = nextId /\ g = current =>
                        nextId \notin Unread(g)' /\ \A t \in Threads : ~At(t, "writing")
  PROVE  LinesWritten' /\ OnlyPending' /\ OneRequestAtATime'
  <1> USE DEF IInv
  <1>1. LinesWritten'
    BY DEF LinesWritten
  <1>2. OneRequestAtATime'
    BY DEF OneRequestAtATime
  <1>3. OnlyPending'
    <2>1. SUFFICES ASSUME current # 0
                   PROVE  /\ \A i \in Unread(current)' :
                               i \in unnamed \/ (i = nextId /\ \E t \in Threads : At(t, "waiting"))
                          /\ \A t \in Threads : At(t, "writing") => nextId \notin Unread(current)'
                          /\ nextId \in Unread(current)' \/ (\E t \in Threads : At(t, "writing")) =>
                               \A line \in Lines(current)' : line.kind = "line" => line.wire # nextId
      BY DEF OnlyPending, At, Unread, Lines
    <2>2. current \in Proc
      BY <2>1, BoundedTypes
    <2>3. QED BY <2>1, <2>2 DEF OnlyPending
  <1>4. QED BY <1>1, <1>2, <1>3

LEMMA DieInv == ASSUME IInv, NEW g \in Proc, Die(g) PROVE IInv'
  <1> USE DEF IInv
  <1>1. /\ proc[g] \in {"alive", "orphan"}
        /\ \A h \in Proc : proc'[h] = IF h = g THEN "dead" ELSE proc[h]
        /\ UNCHANGED <<current, nextId, inbox, pipe, reader, queue, thread, strays, unnamed>>
    BY DEF Die, Running, plugin, pipes, history, TypeOK
  <1>2. TypeOK'
    BY <1>1 DEF Die, TypeOK, ProcState
  <1>3. LockExcludes' /\ WaitsForNewest' /\ UnbornSilent' /\ AnswersOwnRequest' /\ NoForgottenProcess'
    BY <1>1, ChildStep
  <1>4. LinesWritten' /\ SentOnce' /\ OnlyPending' /\ OneRequestAtATime'
    BY <1>1 DEF LinesWritten, SentOnce, OnlyPending, OneRequestAtATime, Unread, Lines, At
  <1>5. QED BY <1>2, <1>3, <1>4

\* A request leaves the inbox as its answer comes into the pipe.
LEMMA ServeInv == ASSUME IInv, NEW g \in Proc, Serve(g) PROVE IInv'
  <1> USE DEF IInv
  <1> DEFINE i == Head(inbox[g])
  <1>1. /\ proc[g] # "unborn" /\ inbox[g] # <<>>
        /\ inbox' = [inbox EXCEPT ![g] = Tail(@)]
        /\ pipe' = [pipe EXCEPT ![g] = Append(@, Answer(i))]
        /\ UNCHANGED <<current, nextId, proc, reader, queue, thread, strays, unnamed>>
    BY DEF Serve, Running, plugin, history
  <1>2. inbox[g] \in Seq(Id) /\ pipe[g] \in Seq(Line \cup {Unnamed, Garbled})
    BY DEF TypeOK
  <1>3. /\ i \in Id /\ i \in Unread(g)
        /\ Tail(inbox[g]) \in Seq(Id) /\ Range(Tail(inbox[g])) \subseteq Unread(g)
    BY <1>1, <1>2, InSequence DEF Unread
  <1>4. /\ \A k, l \in DOMAIN Tail(inbox[g]) : Tail(inbox[g])[k] = Tail(inbox[g])[l] => k = l
        /\ i \notin Range(Tail(inbox[g]))
    <2>1. \A k, l \in DOMAIN inbox[g] : inbox[g][k] = inbox[g][l] => k = l
      BY DEF SentOnce
    <2>2. PICK s : s = inbox[g]
      OBVIOUS
    <2>3. s \in Seq(Id) /\ s # <<>> /\ \A k, l \in DOMAIN s : s[k] = s[l] => k = l
      BY <1>1, <1>2, <2>1, <2>2
    <2>4. /\ \A k, l \in DOMAIN Tail(s) : Tail(s)[k] = Tail(s)[l] => k = l
          /\ Head(s) \notin Range(Tail(s))
      BY <2>3, Distinct
    <2>5. QED BY <2>2, <2>4
  <1> HIDE DEF i
  <1>5. i \in 1 .. nextId /\ i \in 0 .. MaxCalls
    BY <1>3, BoundedTypes, BoundAssumption DEF LinesWritten
  <1>6. /\ Answer(i) \in Line /\ Answer(i).kind = "line"
        /\ Answer(i).wire = i /\ Answer(i).for = i
    BY <1>5 DEF Answer, Line
  <1>7. /\ Append(pipe[g], Answer(i)) \in Seq(Line \cup {Unnamed, Garbled})
        /\ Range(Append(pipe[g], Answer(i))) = Range(pipe[g]) \cup {Answer(i)}
    BY <1>2, <1>6, InSequence
  <1>8. TypeOK'
    BY <1>1, <1>3, <1>7 DEF TypeOK
  <1>9. /\ inbox'[g] = Tail(inbox[g]) /\ pipe'[g] = Append(pipe[g], Answer(i))
        /\ \A h \in Proc : h # g => inbox'[h] = inbox[h] /\ pipe'[h] = pipe[h]
    BY <1>1 DEF TypeOK
  <1>10. LockExcludes' /\ WaitsForNewest' /\ UnbornSilent' /\ AnswersOwnRequest' /\ NoForgottenProcess'
    BY <1>1, <1>9, ChildStep
  <1>11. SentOnce'
    BY <1>4, <1>9 DEF SentOnce
  <1>12. LinesWritten' /\ OnlyPending' /\ OneRequestAtATime'
    <2>1. ASSUME NEW h \in Proc, h # g
          PROVE  Unread(h)' = Unread(h) /\ Lines(h)' = Lines(h)
      BY <1>1, <1>9, <2>1 DEF Unread, Lines
    <2>2. /\ Unread(g)' \subseteq Unread(g) /\ i \notin Unread(g)'
          /\ Lines(g)' = Lines(g) \cup {Answer(i)}
      BY <1>1, <1>3, <1>4, <1>7, <1>9 DEF Unread, Lines
    <2>3. i = nextId /\ g = current => \A t \in Threads : ~At(t, "writing")
      BY <1>3, BoundedTypes DEF OnlyPending
    <2>4. \A h \in Proc : Eof \in Range(queue'[h]) => reader'[h] = "over"
      BY <1>1 DEF LinesWritten
    <2>5. i <= nextId
      BY <1>5
    <2>6. ASSUME NEW h \in Proc
          PROVE  /\ Unread(h)' \subseteq Unread(h)
                 /\ \A line \in Lines(h)' :
                      \/ line \in Lines(h)
                      \/ line.kind # "line"
                      \/ /\ line.wire = line.for /\ line.wire <= nextId
                         /\ line.wire = nextId /\ h = current =>
                              nextId \notin Unread(h)' /\ \A t \in Threads : ~At(t, "writing")
      <3>1. CASE h # g
        BY <2>1, <3>1
      <3>2. CASE h = g
        BY <1>6, <2>2, <2>3, <2>5, <3>2
      <3>3. QED BY <3>1, <3>2
    <2>7. QED BY <1>1, <2>4, <2>6, LinesStep
  <1>13. QED BY <1>8, <1>10, <1>11, <1>12

\* A process that is written to reads, and has the newest request.
LEMMA AcceptInv == ASSUME IInv, NEW g \in Proc, Accept(g) PROVE IInv'
  <1> USE DEF IInv
  <1>1. PICK t \in Threads :
          /\ At(t, "writing") /\ current = g /\ proc[g] # "unborn"
          /\ inbox[g] = <<>> /\ inbox' = [inbox EXCEPT ![g] = <<nextId>>]
          /\ Goto(t, "waiting")
          /\ UNCHANGED <<current, nextId, proc, pipe, reader, queue, strays, unnamed>>
    BY DEF Accept, Running, plugin, history
  <1> DEFINE r == [thread[t] EXCEPT !.pc = "waiting"]
  <1>2. /\ thread[t] \in Thread /\ Locked(t) /\ nextId # 0 /\ current # 0
        /\ thread[t].proc = current /\ thread[t].id = nextId
    BY <1>1, ThreadType DEF At, Locked, WaitsForNewest
  <1>3. /\ r \in Thread /\ r.pc = "waiting" /\ r.id = nextId /\ r.proc = current
        /\ thread' = [thread EXCEPT ![t] = r]
    BY <1>1, <1>2 DEF Goto, Thread, PC
  <1> HIDE DEF r
  <1>4. nextId \in Id
    BY <1>2, BoundedTypes, BoundAssumption DEF Id
  <1>5. <<nextId>> \in Seq(Id) /\ Range(<<nextId>>) = {nextId}
    BY <1>4 DEF Range
  <1>6. /\ inbox'[g] = <<nextId>> /\ Unread(g)' = {nextId}
        /\ \A h \in Proc : h # g => inbox'[h] = inbox[h] /\ Unread(h)' = Unread(h)
        /\ \A h \in Proc : Lines(h)' = Lines(h)
    BY <1>1, <1>5 DEF TypeOK, Unread, Lines
  <1>7. TypeOK'
    BY <1>1, <1>3, <1>5 DEF TypeOK
  <1>8. /\ thread'[t] = r /\ LockExcludes'
        /\ \A u \in Threads : u # t => thread'[u] = thread[u] /\ ~Locked(u)
    BY <1>2, <1>3, HolderStep
  <1>9. WaitsForNewest'
    BY <1>1, <1>2, <1>3, <1>8 DEF WaitsForNewest, At, Locked
  <1>10. AnswersOwnRequest'
    BY <1>1, <1>3, <1>8 DEF AnswersOwnRequest, At
  <1>11. NoForgottenProcess' /\ UnbornSilent'
    BY <1>1, <1>6 DEF NoForgottenProcess, UnbornSilent
  <1>12. SentOnce' /\ OneRequestAtATime'
    BY <1>1, <1>6 DEF SentOnce, OneRequestAtATime
  <1>13. LinesWritten'
    <2>1. Unread(g)' \subseteq 1 .. nextId
      BY <1>2, <1>6, BoundedTypes
    <2>2. QED BY <1>1, <1>6, <2>1 DEF LinesWritten
  <1>14. OnlyPending'
    <2>1. \A line \in Lines(current)' : line.kind = "line" => line.wire # nextId
      BY <1>1, <1>2, <1>6 DEF OnlyPending
    <2>2. At(t, "waiting")' /\ \A u \in Threads : ~At(u, "writing")'
      BY <1>3, <1>8 DEF At, Locked
    <2>3. QED BY <1>1, <1>6, <2>1, <2>2 DEF OnlyPending
  <1>15. QED BY <1>7, <1>8, <1>9, <1>10, <1>11, <1>12, <1>13, <1>14

\* A line out of turn is not the answer to a request that is still to be read.
LEMMA StrayInv == ASSUME IInv, NEW g \in Proc, Stray(g) PROVE IInv'
  <1> USE DEF IInv
  <1>1. PICK line \in {Noise, Unnamed, Garbled} \cup {Answer(i) : i \in Received(g)} :
          pipe' = [pipe EXCEPT ![g] = Append(@, line)]
    BY DEF Stray
  <1>2. /\ strays' = strays + 1 /\ strays < MaxStrays
        /\ UNCHANGED <<current, nextId, proc, inbox, reader, queue, thread, unnamed>>
    BY DEF Stray, plugin
  <1>3. /\ line \in Line \cup {Unnamed, Garbled}
        /\ \/ line.kind # "line"
           \/ /\ line.wire = line.for /\ line.wire <= nextId
              /\ line.wire = nextId /\ g = current =>
                   nextId \notin Unread(g) /\ \A t \in Threads : ~At(t, "writing")
    <2>1. CASE line = Noise
      <3>1. line.wire = 0 /\ line.for = 0 /\ line \in Line
        BY <2>1, BoundAssumption DEF Noise, Line
      <3>2. nextId = 0 /\ g = current => nextId \notin Unread(g) /\ \A t \in Threads : ~At(t, "writing")
        BY DEF LinesWritten, WaitsForNewest
      <3>3. QED BY <3>1, <3>2, BoundedTypes
    <2>2. CASE line \in {Unnamed, Garbled}
      BY <2>2 DEF Unnamed, Garbled
    <2>3. CASE line \in {Answer(i) : i \in Received(g)}
      <3>1. PICK i \in Received(g) : line = Answer(i)
        BY <2>3
      <3>2. i \in 1 .. nextId /\ i \in 0 .. MaxCalls /\ i \notin Unread(g)
            /\ \A t \in Threads : At(t, "writing") => thread[t].id # i
        BY BoundedTypes, BoundAssumption DEF Received
      <3>3. line \in Line /\ line.wire = i /\ line.for = i
        BY <3>1, <3>2 DEF Answer, Line
      <3>4. \A t \in Threads : At(t, "writing") => thread[t].id = nextId
        BY DEF WaitsForNewest
      <3>5. QED BY <3>2, <3>3, <3>4
    <2>4. QED BY <2>1, <2>2, <2>3
  <1>4. /\ Append(pipe[g], line) \in Seq(Line \cup {Unnamed, Garbled})
        /\ Range(Append(pipe[g], line)) = Range(pipe[g]) \cup {line}
    <2>1. pipe[g] \in Seq(Line \cup {Unnamed, Garbled})
      BY DEF TypeOK
    <2>2. QED BY <1>3, <2>1, InSequence
  <1>5. TypeOK'
    BY <1>1, <1>2, <1>4, BoundAssumption DEF TypeOK
  <1>6. LockExcludes' /\ WaitsForNewest' /\ UnbornSilent' /\ AnswersOwnRequest' /\ NoForgottenProcess'
    BY <1>2, ChildStep
  <1>7. SentOnce'
    BY <1>2 DEF SentOnce
  <1>8. LinesWritten' /\ OnlyPending' /\ OneRequestAtATime'
    <2>1. \A h \in Proc : Unread(h)' = Unread(h)
      BY <1>2 DEF Unread
    <2>2. /\ \A h \in Proc : h # g => Lines(h)' = Lines(h)
          /\ Lines(g)' = Lines(g) \cup {line}
      BY <1>1, <1>2, <1>4 DEF Lines, TypeOK
    <2>3. \A h \in Proc : Eof \in Range(queue'[h]) => reader'[h] = "over"
      BY <1>2 DEF LinesWritten
    <2>4. QED BY <1>2, <1>3, <2>1, <2>2, <2>3, LinesStep
  <1>9. QED BY <1>5, <1>6, <1>7, <1>8

LEMMA ReadInv == ASSUME IInv, NEW g \in Proc, Read(g) PROVE IInv'
  <1> USE DEF IInv
  <1> DEFINE line == Head(pipe[g])
  <1>1. /\ pipe[g] # <<>> /\ line # Garbled
        /\ pipe' = [pipe EXCEPT ![g] = Tail(@)]
        /\ queue' = [queue EXCEPT ![g] = Append(@, line)]
        /\ UNCHANGED <<current, nextId, proc, inbox, reader, thread, strays, unnamed>>
    BY DEF Read, plugin, history
  <1>2. /\ pipe[g] \in Seq(Line \cup {Unnamed, Garbled})
        /\ queue[g] \in Seq(Line \cup {Unnamed, Eof})
    BY DEF TypeOK
  <1>3. /\ line \in Line \cup {Unnamed, Garbled} /\ line \in Range(pipe[g])
        /\ Tail(pipe[g]) \in Seq(Line \cup {Unnamed, Garbled})
        /\ Range(Tail(pipe[g])) \subseteq Range(pipe[g])
    BY <1>1, <1>2, InSequence
  <1> HIDE DEF line
  <1>4. line \in Line \cup {Unnamed, Eof} /\ line # Eof
    BY <1>1, <1>3 DEF Line, Unnamed, Eof
  <1>5. /\ Append(queue[g], line) \in Seq(Line \cup {Unnamed, Eof})
        /\ Range(Append(queue[g], line)) = Range(queue[g]) \cup {line}
    BY <1>2, <1>4, InSequence
  <1>6. TypeOK'
    BY <1>1, <1>3, <1>5 DEF TypeOK
  <1>7. LockExcludes' /\ WaitsForNewest' /\ UnbornSilent' /\ AnswersOwnRequest' /\ NoForgottenProcess'
    BY <1>1, ChildStep
  <1>8. SentOnce'
    BY <1>1 DEF SentOnce
  <1>9. /\ pipe'[g] = Tail(pipe[g]) /\ queue'[g] = Append(queue[g], line)
        /\ \A h \in Proc : h # g => pipe'[h] = pipe[h] /\ queue'[h] = queue[h]
    BY <1>1 DEF TypeOK
  <1>10. LinesWritten' /\ OnlyPending' /\ OneRequestAtATime'
    <2>1. \A h \in Proc : Unread(h)' = Unread(h)
      BY <1>1 DEF Unread
    <2>2. \A h \in Proc : Lines(h)' \subseteq Lines(h)
      BY <1>3, <1>5, <1>9 DEF Lines
    <2>3. \A h \in Proc : Eof \in Range(queue'[h]) => reader'[h] = "over"
      BY <1>1, <1>4, <1>5, <1>9 DEF LinesWritten
    <2>4. QED BY <1>1, <2>1, <2>2, <2>3, LinesStep
  <1>11. QED BY <1>6, <1>7, <1>8, <1>10

LEMMA ReadEndsInv == ASSUME IInv, NEW g \in Proc, ReadEnds(g) PROVE IInv'
  <1> USE DEF IInv
  <1>1. /\ reader' = [reader EXCEPT ![g] = "over"]
        /\ pipe' = [pipe EXCEPT ![g] = <<>>]
        /\ queue' = [queue EXCEPT ![g] = Append(@, Eof)]
        /\ UNCHANGED <<current, nextId, proc, inbox, thread, strays, unnamed>>
    BY DEF ReadEnds, plugin, history
  <1>2. /\ Append(queue[g], Eof) \in Seq(Line \cup {Unnamed, Eof})
        /\ Range(Append(queue[g], Eof)) = Range(queue[g]) \cup {Eof}
    <2>1. queue[g] \in Seq(Line \cup {Unnamed, Eof}) /\ Eof \in Line \cup {Unnamed, Eof}
      BY DEF TypeOK
    <2>2. QED BY <2>1, InSequence
  <1>3. TypeOK'
    BY <1>1, <1>2, InSequence DEF TypeOK
  <1>4. /\ reader'[g] = "over" /\ pipe'[g] = <<>> /\ queue'[g] = Append(queue[g], Eof)
        /\ \A h \in Proc : h # g =>
             reader'[h] = reader[h] /\ pipe'[h] = pipe[h] /\ queue'[h] = queue[h]
    BY <1>1 DEF TypeOK
  <1>5. LockExcludes' /\ WaitsForNewest' /\ UnbornSilent' /\ AnswersOwnRequest' /\ NoForgottenProcess'
    BY <1>1, <1>4, ChildStep
  <1>6. SentOnce'
    BY <1>1 DEF SentOnce
  <1>7. LinesWritten' /\ OnlyPending' /\ OneRequestAtATime'
    <2>1. \A h \in Proc : Unread(h)' = Unread(h)
      BY <1>1 DEF Unread
    <2>2. \A h \in Proc : Lines(h)' \subseteq Lines(h) \cup {Eof}
      BY <1>2, <1>4, InSequence DEF Lines
    <2>3. \A h \in Proc : Eof \in Range(queue'[h]) => reader'[h] = "over"
      BY <1>4 DEF LinesWritten
    <2>4. Eof.kind # "line"
      BY DEF Eof
    <2>5. QED BY <1>1, <2>1, <2>2, <2>3, <2>4, LinesStep
  <1>8. QED BY <1>3, <1>5, <1>6, <1>7

-----------------------------------------------------------------------------
LEMMA NextInv == IInv /\ [Next]_vars => IInv'
  <1> SUFFICES ASSUME IInv, [Next]_vars PROVE IInv'
    OBVIOUS
  <1>1. ASSUME NEW t \in Threads, Call(t) \/ AskStop(t) \/ Lock(t) \/ Stop(t) PROVE IInv'
    BY <1>1, CallInv, AskStopInv, LockInv, StopInv
  <1>2. ASSUME NEW t \in Threads, Continue(t) PROVE IInv'
    BY <1>2, StartInv, StartFailsInv, SendInv, BlockInv, SendFailsInv, TakeAnswerInv, TakeUnnamedInv,
       TakeStrayInv, TakeEofInv, TimesOutInv, ReturnInv DEF Continue
  <1>3. ASSUME NEW g \in Proc, Serve(g) \/ Accept(g) \/ Stray(g) \/ Die(g) \/ Read(g) \/ ReadEnds(g)
        PROVE  IInv'
    BY <1>3, ServeInv, AcceptInv, StrayInv, DieInv, ReadInv, ReadEndsInv
  <1>4. CASE UNCHANGED vars
    BY <1>4 DEF vars, plugin, child, pipes, history, IInv, TypeOK, LockExcludes, Locked,
       WaitsForNewest, At, UnbornSilent, LinesWritten, Lines, Unread, SentOnce, OnlyPending,
       AnswersOwnRequest, OneRequestAtATime, NoForgottenProcess
  <1>5. QED BY <1>1, <1>2, <1>3, <1>4 DEF Next

LEMMA Invariance == Spec => []IInv
  BY InitInv, NextInv, PTL DEF Spec

\* The plugin object, its processes and its threads keep their types.
THEOREM TypeCorrect == Spec => []TypeOK
  <1>1. IInv => TypeOK
    BY DEF IInv
  <1>2. QED BY <1>1, Invariance, PTL

\* An answer that call() takes by its id is that of its own request, whatever timed
\* out before it and whatever is printed, and it says "exited" only when the reader
\* of the process it asked has ended: the id tells every line written for another
\* request, and a process that is replaced takes its queue with it.
THEOREM AnswersOwnRequestHolds == Spec => []AnswersOwnRequest
  <1>1. IInv => AnswersOwnRequest
    BY DEF IInv
  <1>2. QED BY <1>1, Invariance, PTL

\* Two requests are in a process only where the call of one took a line without an
\* id: every other way out of call() either has the request read or drops its process.
THEOREM OneRequestAtATimeHolds == Spec => []OneRequestAtATime
  <1>1. IInv => OneRequestAtATime
    BY DEF IInv
  <1>2. QED BY <1>1, Invariance, PTL

\* No process is replaced or dropped while it runs under the backend, but one
\* whose reader has ended before it.
THEOREM NoForgottenProcessHolds == Spec => []NoForgottenProcess
  <1>1. IInv => NoForgottenProcess
    BY DEF IInv
  <1>2. QED BY <1>1, Invariance, PTL
=============================================================================
