--------------------------- MODULE PluginRuntime ---------------------------
(***************************************************************************)
(* The plugin runtime: Plugin.call and Plugin.stop (plugins/runtime.py),   *)
(* the reader thread that fills the queue of each plugin process, and the  *)
(* plugin's side of the pipe, the SDK's serve loop (serve.py).  There is   *)
(* one Plugin object; its callers are the threads of FastAPI's pool.       *)
(*                                                                         *)
(* A process is known by its number, so that a successor is told from the  *)
(* process it replaces; each has its own pipes and its own queue.  What a  *)
(* line says is abstracted to whether it is text, whether it carries an id,*)
(* and the request it really answers.  A timeout may strike whenever the   *)
(* queue is empty; there is none on writing a request.                     *)
(***************************************************************************)
EXTENDS Naturals, Sequences, Functions

CONSTANTS
  Threads,    \* callers of the plugin
  MaxCalls,   \* bound on _next_id
  MaxProcs,   \* bound on the processes started
  MaxStrays   \* bound on the lines that no request asked for

ASSUME BoundAssumption ==
  /\ MaxCalls \in Nat
  /\ MaxProcs \in Nat
  /\ MaxStrays \in Nat

VARIABLES
  current, \* _proc, with _stdout_q and _reader_thread: a process, or 0 for None
  nextId,  \* _next_id
  proc,    \* proc[g]: the state of process g
  inbox,   \* inbox[g]: the requests in its stdin
  pipe,    \* pipe[g]: the lines in its stdout
  reader,  \* reader[g]: whether its reader thread goes on, or has put None and ended
  queue,   \* queue[g]: the queue that thread fills
  thread,  \* thread[t]: where thread t is in call or stop
  strays,  \* how many lines no request asked for have been written
  unnamed  \* history: the requests whose calls took a line without an id

plugin == <<current, nextId>>
pipes == <<inbox, pipe, reader, queue>>
child == <<proc, pipes>>
history == <<strays, unnamed>>
vars == <<plugin, child, thread, history>>

-----------------------------------------------------------------------------
Id == 1 .. MaxCalls

Proc == 1 .. MaxProcs

\* An orphan goes on after uv, its parent and all that kill() reaches, is dead.
ProcState == {"unborn", "alive", "orphan", "dead"}

\* wire is the id in the line (0: no JSON object, or one with neither result nor
\* error), for the request the line was written for.
Line == [kind : {"line"}, wire : 0 .. MaxCalls, for : 0 .. MaxCalls]

Answer(i) == [kind |-> "line", wire |-> i, for |-> i]

Noise == [kind |-> "line", wire |-> 0, for |-> 0]

\* An object with a result or an error and no id, or a null one.
Unnamed == [kind |-> "unnamed"]

\* Bytes that are no text: readline() raises.
Garbled == [kind |-> "garbled"]

\* None
Eof == [kind |-> "eof"]

\* The requests in a process's stdin.
Unread(g) == Range(inbox[g])

Running(g) == proc[g] \in {"alive", "orphan"}

\* is_alive
IsAlive == current # 0 /\ proc[current] = "alive"

PC == {"calling", "stopping", "starting", "sending", "writing", "waiting", "done"}

\* id and proc are the request's; got is the request whose answer came back.
Thread == [pc : PC, id : 0 .. MaxCalls, proc : 0 .. MaxProcs, got : 0 .. MaxCalls,
           how : {"none", "answered", "unnamed", "failed", "exited"}]

Idle == [pc |-> "idle"]

Fresh == [pc |-> "calling", id |-> 0, proc |-> 0, got |-> 0, how |-> "none"]

At(t, pc) == thread[t].pc = pc

\* What a process can answer once more: no request that it has still to read.
Received(g) ==
  {i \in 1 .. nextId : i \notin Unread(g) /\ \A t \in Threads : At(t, "writing") => thread[t].id # i}

\* Plugin._lock is taken.
Locked(t) == thread[t].pc \in {"starting", "sending", "writing", "waiting"}

Goto(t, pc) == thread' = [thread EXCEPT ![t].pc = pc]

\* call() leaves the with block.
Leave(t, how, got) ==
  thread' = [thread EXCEPT ![t].pc = "done", ![t].how = how, ![t].got = got]

\* _cleanup_after_exit
Forget == current' = 0

\* _force_kill_locked: uv is dead, the Python process it started perhaps not.
Kill ==
  /\ Forget
  /\ \E left \in {"dead", "orphan"} :
       proc' = IF IsAlive THEN [proc EXCEPT ![current] = left] ELSE proc

-----------------------------------------------------------------------------
(* call() *)

Call(t) ==
  /\ At(t, "idle")
  /\ thread' = [thread EXCEPT ![t] = Fresh]
  /\ UNCHANGED <<plugin, child, history>>

\* (At MaxCalls the model makes no more calls.)
Lock(t) ==
  /\ At(t, "calling")
  /\ \A u \in Threads : ~Locked(u)
  /\ IF nextId < MaxCalls THEN Goto(t, "starting") ELSE Leave(t, "failed", 0)
  /\ UNCHANGED <<plugin, child, history>>

\* _start_locked
Start(t) ==
  /\ At(t, "starting")
  /\ Goto(t, "sending")
  /\ IF IsAlive
       THEN UNCHANGED <<current, proc>>
       ELSE \E g \in Proc :
              /\ proc[g] = "unborn" /\ \A h \in Proc : h < g => proc[h] # "unborn"
              /\ current' = g
              /\ proc' = [proc EXCEPT ![g] = "alive"]
  /\ UNCHANGED <<nextId, pipes, history>>

\* Popen raises: error -32002.
StartFails(t) ==
  /\ At(t, "starting")
  /\ ~IsAlive
  /\ Leave(t, "failed", 0)
  /\ UNCHANGED <<plugin, child, history>>

\* The request fits into the pipe.
Send(t) ==
  /\ At(t, "sending")
  /\ Running(current)
  /\ nextId' = nextId + 1
  /\ inbox' = [inbox EXCEPT ![current] = Append(@, nextId + 1)]
  /\ thread' = [thread EXCEPT ![t].pc = "waiting", ![t].id = nextId + 1, ![t].proc = current]
  /\ UNCHANGED <<current, proc, pipe, reader, queue, history>>

\* It does not: write() waits, without a timeout, until the process reads.
Block(t) ==
  /\ At(t, "sending")
  /\ Running(current)
  /\ nextId' = nextId + 1
  /\ thread' = [thread EXCEPT ![t].pc = "writing", ![t].id = nextId + 1, ![t].proc = current]
  /\ UNCHANGED <<current, child, history>>

\* BrokenPipeError, as the process is gone: error -32099.
SendFails(t) ==
  /\ At(t, "sending") \/ At(t, "writing")
  /\ ~Running(current)
  /\ nextId' = IF At(t, "sending") THEN nextId + 1 ELSE nextId
  /\ Kill
  /\ Leave(t, "failed", 0)
  /\ UNCHANGED <<pipes, history>>

\* Mutant: a response is taken for the answer whatever id it carries.
TakeAnswerAnyId(t) ==
  LET line == Head(queue[current]) IN
  /\ At(t, "waiting")
  /\ queue[current] # <<>> /\ line.kind = "line"
  /\ line.wire # 0
  /\ queue' = [queue EXCEPT ![current] = Tail(@)]
  /\ Leave(t, "answered", line.for)
  /\ UNCHANGED <<plugin, proc, inbox, pipe, reader, history>>

\* A result, or an error of the plugin's, with the id: the process is kept.
TakeAnswer(t) ==
  LET line == Head(queue[current]) IN
  /\ At(t, "waiting")
  /\ queue[current] # <<>> /\ line.kind = "line"
  /\ line.wire = nextId
  /\ queue' = [queue EXCEPT ![current] = Tail(@)]
  /\ Leave(t, "answered", line.for)
  /\ UNCHANGED <<plugin, proc, inbox, pipe, reader, history>>

\* One without an id passes the same test, as what the SDK says of a request that
\* does not parse.  The process is kept too, whatever has become of the request.
TakeUnnamed(t) ==
  /\ At(t, "waiting")
  /\ queue[current] # <<>> /\ Head(queue[current]) = Unnamed
  /\ queue' = [queue EXCEPT ![current] = Tail(@)]
  /\ unnamed' = unnamed \cup {nextId}
  /\ Leave(t, "unnamed", 0)
  /\ UNCHANGED <<plugin, proc, inbox, pipe, reader, strays>>

\* Mutant: the process that wrote it is forgotten but not killed.
TakeStrayUnkilled(t) ==
  LET line == Head(queue[current]) IN
  /\ At(t, "waiting")
  /\ queue[current] # <<>> /\ line.kind = "line"
  /\ line.wire # nextId
  /\ queue' = [queue EXCEPT ![current] = Tail(@)]
  /\ Forget
  /\ Leave(t, "failed", 0)
  /\ UNCHANGED <<nextId, proc, inbox, pipe, reader, history>>

\* No JSON, no object, neither result nor error, or the id of another request:
\* errors -32700, -32600, -32603.
TakeStray(t) ==
  LET line == Head(queue[current]) IN
  /\ At(t, "waiting")
  /\ queue[current] # <<>> /\ line.kind = "line"
  /\ line.wire # nextId
  /\ queue' = [queue EXCEPT ![current] = Tail(@)]
  /\ Kill
  /\ Leave(t, "failed", 0)
  /\ UNCHANGED <<nextId, inbox, pipe, reader, history>>

\* None: error -32099, "exited before responding".  Nothing is killed here.
TakeEof(t) ==
  /\ At(t, "waiting")
  /\ queue[current] # <<>> /\ Head(queue[current]) = Eof
  /\ queue' = [queue EXCEPT ![current] = Tail(@)]
  /\ Forget
  /\ Leave(t, "exited", 0)
  /\ UNCHANGED <<nextId, proc, inbox, pipe, reader, history>>

\* Mutant: get() without a timeout.
TimesOutNever(t) == FALSE

\* Mutant: the timeout is reported and the process kept.
TimesOutUnkilled(t) ==
  /\ At(t, "waiting")
  /\ queue[current] = <<>>
  /\ Leave(t, "failed", 0)
  /\ UNCHANGED <<plugin, child, history>>

\* queue.Empty: error -32001.
TimesOut(t) ==
  /\ At(t, "waiting")
  /\ queue[current] = <<>>
  /\ Kill
  /\ Leave(t, "failed", 0)
  /\ UNCHANGED <<nextId, pipes, history>>

Return(t) ==
  /\ At(t, "done")
  /\ thread' = [thread EXCEPT ![t] = Idle]
  /\ UNCHANGED <<plugin, child, history>>

-----------------------------------------------------------------------------
(* stop(), which tests and the shutdown of the backend call. *)

AskStop(t) ==
  /\ At(t, "idle")
  /\ current # 0
  /\ thread' = [thread EXCEPT ![t] = [Fresh EXCEPT !.pc = "stopping"]]
  /\ UNCHANGED <<plugin, child, history>>

\* stdin is closed; a process that does not exit in time is killed.
Stop(t) ==
  /\ At(t, "stopping")
  /\ \A u \in Threads : ~Locked(u)
  /\ Kill
  /\ Leave(t, "none", 0)
  /\ UNCHANGED <<nextId, pipes, history>>

-----------------------------------------------------------------------------
(* The plugin process and its reader thread. *)

\* serve: one line per request, with its id, be it a result or an error.
Serve(g) ==
  /\ Running(g)
  /\ inbox[g] # <<>>
  /\ inbox' = [inbox EXCEPT ![g] = Tail(@)]
  /\ pipe' = [pipe EXCEPT ![g] = Append(@, Answer(Head(inbox[g])))]
  /\ UNCHANGED <<plugin, proc, reader, queue, thread, history>>

\* It reads on, and with that the rest of a request beyond the pipe's buffer.
Accept(g) ==
  \E t \in Threads :
    /\ At(t, "writing") /\ current = g
    /\ Running(g) /\ inbox[g] = <<>>
    /\ inbox' = [inbox EXCEPT ![g] = <<nextId>>]
    /\ Goto(t, "waiting")
    /\ UNCHANGED <<plugin, proc, pipe, reader, queue, history>>

\* A line no request asked for: something printed, which plugins are told not
\* to do, be it JSON, other text or neither; or an earlier answer once more.
Stray(g) ==
  /\ Running(g)
  /\ strays < MaxStrays /\ strays' = strays + 1
  /\ \E line \in {Noise, Unnamed, Garbled} \cup {Answer(i) : i \in Received(g)} :
       pipe' = [pipe EXCEPT ![g] = Append(@, line)]
  /\ UNCHANGED <<plugin, proc, inbox, reader, queue, thread, unnamed>>

\* It crashes, or ends because uv did, or because its stdin was closed.
Die(g) ==
  /\ Running(g)
  /\ proc' = [proc EXCEPT ![g] = "dead"]
  /\ UNCHANGED <<plugin, pipes, thread, history>>

\* _reader_loop: every line ...
Read(g) ==
  /\ reader[g] = "reading"
  /\ pipe[g] # <<>> /\ Head(pipe[g]) # Garbled
  /\ pipe' = [pipe EXCEPT ![g] = Tail(@)]
  /\ queue' = [queue EXCEPT ![g] = Append(@, Head(pipe[g]))]
  /\ UNCHANGED <<plugin, proc, inbox, reader, thread, history>>

\* ... and None after the last, or when readline() raises: of a block that is no
\* text the lines before are lost too, and nobody reads what comes after.
ReadEnds(g) ==
  /\ reader[g] = "reading"
  /\ \/ proc[g] = "dead" /\ pipe[g] = <<>>
     \/ Garbled \in Range(pipe[g])
  /\ reader' = [reader EXCEPT ![g] = "over"]
  /\ pipe' = [pipe EXCEPT ![g] = <<>>]
  /\ queue' = [queue EXCEPT ![g] = Append(@, Eof)]
  /\ UNCHANGED <<plugin, proc, inbox, thread, history>>

-----------------------------------------------------------------------------
Init ==
  /\ current = 0
  /\ nextId = 0
  /\ proc = [g \in Proc |-> "unborn"]
  /\ inbox = [g \in Proc |-> <<>>]
  /\ pipe = [g \in Proc |-> <<>>]
  /\ reader = [g \in Proc |-> "reading"]
  /\ queue = [g \in Proc |-> <<>>]
  /\ thread = [t \in Threads |-> Idle]
  /\ strays = 0
  /\ unnamed = {}

\* What a thread does inside call() once it has the lock, and on its way out.
Continue(t) ==
  \/ Start(t)
  \/ StartFails(t)
  \/ Send(t)
  \/ Block(t)
  \/ SendFails(t)
  \/ TakeAnswer(t)
  \/ TakeUnnamed(t)
  \/ TakeStray(t)
  \/ TakeEof(t)
  \/ TimesOut(t)
  \/ Return(t)

Next ==
  \/ \E t \in Threads : Call(t) \/ AskStop(t) \/ Lock(t) \/ Stop(t) \/ Continue(t)
  \/ \E g \in Proc : Serve(g) \/ Accept(g) \/ Stray(g) \/ Die(g) \/ Read(g) \/ ReadEnds(g)

Spec == Init /\ [][Next]_vars

\* Fairness.  A thread that can go on does; get() gives up at its timeout.  The lock
\* is not fair: SF assumes only that no caller loses every race for it.  Nothing is
\* assumed of the plugin process, not even that it reads.  A thread waits to call or
\* to stop, never for both, so that one condition says it of either.
FairSpec ==
  /\ Spec
  /\ \A t \in Threads : WF_vars(Continue(t)) /\ SF_vars(Lock(t) \/ Stop(t))

-----------------------------------------------------------------------------
(* Properties. *)

\* The variables are what the plugin object, its process and its pipes can hold.
TypeOK ==
  /\ current \in 0 .. MaxProcs
  /\ nextId \in 0 .. MaxCalls
  /\ proc \in [Proc -> ProcState]
  /\ inbox \in [Proc -> Seq(Id)]
  /\ pipe \in [Proc -> Seq(Line \cup {Unnamed, Garbled})]
  /\ reader \in [Proc -> {"reading", "over"}]
  /\ queue \in [Proc -> Seq(Line \cup {Unnamed, Eof})]
  /\ thread \in [Threads -> Thread \cup {Idle}]
  /\ strays \in 0 .. MaxStrays
  /\ unnamed \subseteq Id

\* What a line with an id brings back is the answer to the call's own request,
\* whatever earlier calls timed out or took for theirs, and whatever is printed
\* (runtime.py 242-254); and "exited before responding" is said only when the
\* reader of the process that got the request has ended, never because that of
\* one killed earlier does.
AnswersOwnRequest ==
  \A t \in Threads : At(t, "done") =>
    /\ thread[t].how = "answered" => thread[t].got = thread[t].id
    /\ thread[t].how = "exited" => reader[thread[t].proc] = "over"

\* A process is given a request while another is unread only after the call of
\* that one took a line without an id: not after a timeout, an error, a wrong id
\* or a repeated answer (plugins/README.md 274).
OneRequestAtATime ==
  \A g \in Proc : \A i, j \in Unread(g) : i = j \/ i \in unnamed \/ j \in unnamed

\* A process that runs under the backend is the plugin's current one, unless its
\* reader thread has ended on output that is no text: no other process is
\* replaced, or dropped after an error, while it is still running.
NoForgottenProcess ==
  \A g \in Proc : proc[g] = "alive" => g = current \/ reader[g] = "over"

\* Every call and every stop ends, if no request is written for ever to a process
\* that does not read: every other wait has an end (runtime.py 6-10).
CallsEnd ==
  (\A t \in Threads : []<>~At(t, "writing"))
    => \A t \in Threads : ~At(t, "idle") ~> At(t, "idle")

-----------------------------------------------------------------------------
(* The inductive invariant. *)

\* The lines of a process that have been written and not taken.
Lines(g) == Range(pipe[g]) \cup Range(queue[g])

\* No two threads have the lock.
LockExcludes == \A t, u \in Threads : Locked(t) /\ Locked(u) => t = u

\* A thread that is to send a request has an id left for it and a process; once it
\* writes or has written, it holds the newest id, and the process is not replaced.
WaitsForNewest ==
  \A t \in Threads :
    /\ At(t, "starting") \/ At(t, "sending") => nextId < MaxCalls
    /\ At(t, "sending") => current # 0
    /\ At(t, "writing") \/ At(t, "waiting") =>
         current # 0 /\ thread[t].proc = current /\ nextId # 0 /\ thread[t].id = nextId
    /\ At(t, "done") /\ thread[t].how = "exited" => thread[t].proc # 0

\* A process that has not been started has no requests.
UnbornSilent == \A g \in Proc : proc[g] = "unborn" => inbox[g] = <<>>

\* Lines carry ids that have been given out, of the requests they were written
\* for; None comes when the reader ends.
LinesWritten ==
  \A g \in Proc :
    /\ Unread(g) \subseteq 1 .. nextId
    /\ \A line \in Lines(g) : line.kind = "line" => line.wire = line.for /\ line.wire <= nextId
    /\ Eof \in Range(queue[g]) => reader[g] = "over"

\* No request is sent twice.
SentOnce ==
  \A g \in Proc : \A k, l \in DOMAIN inbox[g] : inbox[g][k] = inbox[g][l] => k = l

\* The current process has no requests but that of the thread that waits, and those
\* whose calls took a line without an id; and while it has not read the newest
\* request there is no line with its id.
OnlyPending ==
  current # 0 =>
    /\ \A i \in Unread(current) :
         i \in unnamed \/ (i = nextId /\ \E t \in Threads : At(t, "waiting"))
    /\ \A t \in Threads : At(t, "writing") => nextId \notin Unread(current)
    /\ nextId \in Unread(current) \/ (\E t \in Threads : At(t, "writing")) =>
         \A line \in Lines(current) : line.kind = "line" => line.wire # nextId

IInv ==
  /\ TypeOK
  /\ LockExcludes
  /\ WaitsForNewest
  /\ UnbornSilent
  /\ LinesWritten
  /\ SentOnce
  /\ OnlyPending
  /\ AnswersOwnRequest
  /\ OneRequestAtATime
  /\ NoForgottenProcess
=============================================================================
