---------------------------- MODULE AnalysisRuns ----------------------------
(***************************************************************************)
(* Analysis runs: the claim / execute / decide protocol of                 *)
(* POST /api/tracks/{hash}/analyze/{analyzer}  (api/main.py) over the      *)
(* analysis_runs table (store/analysis_runs.py), called by the threads of  *)
(* FastAPI's pool.  Every SQL statement, and every BEGIN IMMEDIATE block,  *)
(* is one atomic step: store/db.py serialises them with _db_lock.          *)
(*                                                                         *)
(* Time is a number of ticks.  Only ages matter to the code, so the model  *)
(* keeps ages instead of a clock, and lets them saturate one past the      *)
(* staleness threshold, beyond which the code cannot tell them apart.      *)
(***************************************************************************)
EXTENDS Naturals

CONSTANTS
  Tracks,         \* content hashes
  Analyzers,      \* plugin names, each at its manifest's version
  Callers,        \* threads of the pool
  Tokens,         \* claim tokens: uuid4 hex strings
  NoToken,        \* SQL NULL: a row written outside the claim protocol
  Forces,         \* the values of the request's force flag
  DefaultTimeout, \* plugin.default_timeout, in ticks
  Timeouts,       \* the call timeouts requests ask for, the default among them
  Stalls,         \* may a thread be held up for a tick between two statements?
  MaxFaults       \* bound on crashes, uncaught errors and administration

ASSUME TimeAssumption ==
  /\ DefaultTimeout \in Nat \ {0}
  /\ Timeouts \subseteq Nat \ {0}

ASSUME TokenAssumption == NoToken \notin Tokens

ASSUME FlagAssumption == Forces \subseteq BOOLEAN /\ Stalls \in BOOLEAN

ASSUME FaultAssumption == MaxFaults \in Nat

VARIABLES
  tracks,  \* the tracks table
  row,     \* row[s]: the analysis_runs row of slot s
  caller,  \* caller[c]: where thread c is in analyze_track
  faults   \* how many faults and administrative writes there have been

vars == <<tracks, row, caller, faults>>

-----------------------------------------------------------------------------
(* The table. *)

Slot == Tracks \X Analyzers

\* _STALE_TIMEOUT_MULTIPLIER * plugin.default_timeout
StaleAfter == 2 * DefaultTimeout

Ages == 0 .. StaleAfter + 1

Older(age) == IF age > StaleAfter THEN age ELSE age + 1

Status == {"absent", "pending", "running", "completed", "failed"}

Decided == {"completed", "failed"}

\* result stands for output_json / error: the claim whose plugin call made it.
\* age is that of started_at, kept only while the code may still look at it.
Row == [status : Status, token : Tokens \cup {NoToken},
        result : Tokens \cup {NoToken}, age : Ages]

Absent == [status |-> "absent", token |-> NoToken, result |-> NoToken, age |-> 0]

\* Mutant: the multiplier applied twice.
IsStaleRunningLate(r) == r.age > 2 * StaleAfter

\* age > stale_after_sec, or no started_at, which a claim never leaves.
IsStaleRunning(r) == r.age > StaleAfter

\* Mutant: a completed run is claimed without force.
MayClaimCompleted(r, force) == r.status = "running" => force \/ IsStaleRunning(r)

\* The decision matrix of claim_running: does this request get the slot?
MayClaim(r, force) ==
  /\ r.status = "running" => force \/ IsStaleRunning(r)
  /\ r.status = "completed" => force

-----------------------------------------------------------------------------
(* The callers. *)

PC == {"idle", "claiming", "queued", "calling", "writing", "reading"}

\* left is what remains of the call's timeout.
Caller == [pc : PC, slot : Slot, force : BOOLEAN, left : Nat,
           token : Tokens \cup {NoToken}, outcome : Decided]

\* Every thread with nothing to do looks the same.
Idle == [pc |-> "idle"]

InFlight(c) == caller[c].pc # "idle"

\* c holds a claim it has not yet written the outcome of.
Executing(c) == caller[c].pc \in {"queued", "calling", "writing"}

\* c holds a claim, its outcome written or not.
Holding(c) == Executing(c) \/ caller[c].pc = "reading"

Owned(s) == \E c \in Callers :
  Executing(c) /\ caller[c].slot = s /\ caller[c].token = row[s].token

\* uuid4: a token no row and no thread still knows.
FreshTokens ==
  Tokens \ ({row[s].token : s \in Slot} \cup {row[s].result : s \in Slot}
            \cup {caller[c].token : c \in {d \in Callers : Holding(d)}})

PluginBusy(analyzer) ==
  \E c \in Callers : caller[c].pc = "calling" /\ caller[c].slot[2] = analyzer

Fault == faults < MaxFaults /\ faults' = faults + 1

-----------------------------------------------------------------------------
(* The handler, one thread at a time. *)

\* tracks.get and registry().get succeed (otherwise 404 and nothing changes);
\* the request goes on to claim_running.
Request(c, s, force, limit) ==
  /\ ~InFlight(c)
  /\ s[1] \in tracks
  /\ caller' = [caller EXCEPT ![c] =
       [pc |-> "claiming", slot |-> s, force |-> force, left |-> limit,
        token |-> NoToken, outcome |-> "failed"]]
  /\ UNCHANGED <<tracks, row, faults>>

\* The BEGIN IMMEDIATE block grants the slot: the row is upserted in place.
ClaimRunning(c) ==
  /\ caller[c].pc = "claiming"
  /\ caller[c].slot[1] \in tracks
  /\ MayClaim(row[caller[c].slot], caller[c].force)
  /\ \E t \in FreshTokens :
       /\ row' = [row EXCEPT ![caller[c].slot] =
            [status |-> "running", token |-> t, result |-> NoToken, age |-> 0]]
       /\ caller' = [caller EXCEPT ![c].pc = "queued", ![c].token = t, ![c].force = FALSE]
  /\ UNCHANGED <<tracks, faults>>

\* The block leaves the row alone, and analyze_track returns it.
HandsOff(c) ==
  /\ caller[c].pc = "claiming"
  /\ ~MayClaim(row[caller[c].slot], caller[c].force)
  /\ caller' = [caller EXCEPT ![c] = Idle]
  /\ UNCHANGED <<tracks, row, faults>>

\* The track went away after tracks.get: the INSERT breaks the foreign key.
ClaimOrphaned(c) ==
  /\ caller[c].pc = "claiming"
  /\ caller[c].slot[1] \notin tracks
  /\ caller' = [caller EXCEPT ![c] = Idle]
  /\ UNCHANGED <<tracks, row, faults>>

\* Plugin.call takes the plugin's lock; its timeout starts to run only now.
StartCall(c) ==
  /\ caller[c].pc = "queued"
  /\ ~PluginBusy(caller[c].slot[2])
  /\ caller' = [caller EXCEPT ![c].pc = "calling"]
  /\ UNCHANGED <<tracks, row, faults>>

\* Mutant: an output that breaks its schema is reported but not persisted.
CallReturnsUnwritten(c, outcome) ==
  /\ caller[c].pc = "calling"
  /\ caller' = [caller EXCEPT ![c] =
       IF outcome = "failed" THEN Idle ELSE [@ EXCEPT !.pc = "writing", !.outcome = outcome]]
  /\ UNCHANGED <<tracks, row, faults>>

\* The call returns: an output that validates, or a PluginError or an output
\* that breaks its schema, both of which are persisted as a failed run.
CallReturns(c, outcome) ==
  /\ caller[c].pc = "calling"
  /\ caller' = [caller EXCEPT ![c].pc = "writing", ![c].outcome = outcome, ![c].left = 0]
  /\ UNCHANGED <<tracks, row, faults>>

\* Mutant: the timeout is answered without fail_run.
CallTimesOutUnwritten(c) ==
  /\ caller[c].pc = "calling"
  /\ caller[c].left = 0
  /\ caller' = [caller EXCEPT ![c].pc = "reading", ![c].outcome = "failed"]
  /\ UNCHANGED <<tracks, row, faults>>

\* Mutant: the call waits for the plugin without a timeout.
CallTimesOutNever(c) == FALSE

\* PluginError -32001 once the timeout is up.
CallTimesOut(c) ==
  /\ caller[c].pc = "calling"
  /\ caller[c].left = 0
  /\ caller' = [caller EXCEPT ![c].pc = "writing", ![c].outcome = "failed"]
  /\ UNCHANGED <<tracks, row, faults>>

\* An exception that is not a PluginError (a database error in the terminal
\* write, say) leaves the handler with a 500, and the row as it was.
Raises(c) ==
  /\ caller[c].pc \in {"calling", "writing"}
  /\ Fault
  /\ caller' = [caller EXCEPT ![c] = Idle]
  /\ UNCHANGED <<tracks, row>>

\* Mutant: UPDATE ... WHERE key, without the claim token.
TerminalWriteByKey(c) ==
  LET s == caller[c].slot IN
  /\ caller[c].pc = "writing"
  /\ row' = [row EXCEPT ![s].status = caller[c].outcome, ![s].result = caller[c].token]
  /\ caller' = [caller EXCEPT ![c].pc = "reading"]
  /\ UNCHANGED <<tracks, faults>>

\* complete_run / fail_run: UPDATE ... WHERE key AND claim_token = ours.
TerminalWrite(c) ==
  LET s == caller[c].slot  me == caller[c].token IN
  /\ caller[c].pc = "writing"
  /\ row' = IF row[s].token = me
              THEN [row EXCEPT ![s] = [status |-> caller[c].outcome, token |-> me,
                                       result |-> me, age |-> 0]]
              ELSE row
  /\ caller' = [caller EXCEPT ![c].pc = "reading"]
  /\ UNCHANGED <<tracks, faults>>

\* _terminal_write re-reads the row for the answer; if it is gone, the
\* RuntimeError ends the request all the same.
ReadBack(c) ==
  /\ caller[c].pc = "reading"
  /\ caller' = [caller EXCEPT ![c] = Idle]
  /\ UNCHANGED <<tracks, row, faults>>

-----------------------------------------------------------------------------
(* The surroundings. *)

Ingest(t) ==
  /\ t \notin tracks
  /\ tracks' = tracks \cup {t}
  /\ UNCHANGED <<row, caller, faults>>

\* tracks.delete: the foreign key takes the track's rows with it.
DeleteTrack(t) ==
  /\ t \in tracks
  /\ Fault
  /\ tracks' = tracks \ {t}
  /\ row' = [s \in Slot |-> IF s[1] = t THEN Absent ELSE row[s]]
  /\ UNCHANGED caller

\* analysis_runs.delete
DeleteRun(s) ==
  /\ row[s].status # "absent"
  /\ Fault
  /\ row' = [row EXCEPT ![s] = Absent]
  /\ UNCHANGED <<tracks, caller>>

\* analysis_runs.upsert, the unconditional write of administrative imports: no
\* token, as nothing gives it one, and any started_at; none is stale at once.
Import(s, status) ==
  /\ s[1] \in tracks
  /\ Fault
  /\ \E age \in IF status = "running" THEN Ages ELSE {0} :
       row' = [row EXCEPT ![s] =
         [status |-> status, token |-> NoToken, result |-> NoToken, age |-> age]]
  /\ UNCHANGED <<tracks, caller>>

\* The process dies and starts again: the rows stay, every thread is gone.
Crash ==
  /\ \E c \in Callers : InFlight(c)
  /\ Fault
  /\ caller' = [c \in Callers |-> Idle]
  /\ UNCHANGED <<tracks, row>>

\* c is where it stands because it waits for a request, a plugin or its lock.
Settled(c) ==
  \/ caller[c].pc \in {"idle", "calling"}
  \/ caller[c].pc = "queued" /\ PluginBusy(caller[c].slot[2])

\* Time passes, never past the timeout of a call in progress.
Tick ==
  /\ \A c \in Callers : caller[c].pc = "calling" => caller[c].left > 0
  /\ Stalls \/ \A c \in Callers : Settled(c)
  /\ row' = [s \in Slot |-> IF row[s].status = "running"
                              THEN [row[s] EXCEPT !.age = Older(@)] ELSE row[s]]
  /\ caller' = [c \in Callers |-> IF caller[c].pc = "calling"
                              THEN [caller[c] EXCEPT !.left = @ - 1] ELSE caller[c]]
  /\ UNCHANGED <<tracks, faults>>

-----------------------------------------------------------------------------
Init ==
  /\ tracks = {}
  /\ row = [s \in Slot |-> Absent]
  /\ caller = [c \in Callers |-> Idle]
  /\ faults = 0

Next ==
  \/ \E c \in Callers, s \in Slot, force \in Forces, limit \in Timeouts :
       Request(c, s, force, limit)
  \/ \E c \in Callers : ClaimRunning(c)
  \/ \E c \in Callers : HandsOff(c)
  \/ \E c \in Callers : ClaimOrphaned(c)
  \/ \E c \in Callers : StartCall(c)
  \/ \E c \in Callers, outcome \in Decided : CallReturns(c, outcome)
  \/ \E c \in Callers : CallTimesOut(c)
  \/ \E c \in Callers : Raises(c)
  \/ \E c \in Callers : TerminalWrite(c)
  \/ \E c \in Callers : ReadBack(c)
  \/ \E t \in Tracks : Ingest(t)
  \/ \E t \in Tracks : DeleteTrack(t)
  \/ \E s \in Slot : DeleteRun(s)
  \/ \E s \in Slot, status \in Status \ {"absent"} : Import(s, status)
  \/ Crash
  \/ Tick

Spec == Init /\ [][Next]_vars

-----------------------------------------------------------------------------
(* Fairness.  A thread of the pool runs its handler to the end; Plugin.call  *)
(* gives up at its timeout whether or not the plugin answers; time passes.   *)

HandlerFairness ==
  /\ \A c \in Callers :
       /\ WF_vars(ClaimRunning(c) \/ HandsOff(c) \/ ClaimOrphaned(c))
       /\ WF_vars(StartCall(c)) /\ WF_vars(CallTimesOut(c))
       /\ WF_vars(TerminalWrite(c)) /\ WF_vars(ReadBack(c))
  /\ WF_vars(Tick)

\* Clients that keep asking for every slot, without force.
ClientsKeepAsking ==
  \A s \in Slot : SF_vars(\E c \in Callers, limit \in Timeouts :
                            FALSE \in Forces /\ Request(c, s, FALSE, limit))

\* threading.Lock is not fair.  Under contention that never ends a queued call
\* could starve; SF assumes only that it does not lose the race forever.
LockFairness == \A c \in Callers : SF_vars(StartCall(c))

FairSpec == Spec /\ HandlerFairness /\ LockFairness /\ ClientsKeepAsking

-----------------------------------------------------------------------------
(* Properties. *)

\* The variables are what the code's tables and threads can hold.
TypeOK ==
  /\ tracks \subseteq Tracks
  /\ row \in [Slot -> Row]
  /\ caller \in [Callers -> Caller \cup {Idle}]
  /\ faults \in 0 .. MaxFaults

\* A decided row shows what the current claim's own plugin call produced, never
\* the late result of a claim that was displaced by force or by recovery
\* (analysis_runs.py 16-21: a late analyzer must not clobber a newer claim).
DecidedByCurrentClaim ==
  \A s \in Slot : row[s].status \in Decided => row[s].result = row[s].token

\* Once its claim has decided a row, the row changes only under a newer claim or
\* by administration.  _terminal_write does not test the status, so this rests
\* on every path through _execute_with_claim writing at most once.
DecisionIsFinal ==
  [][\A s \in Slot :
       row[s].status \in Decided /\ row'[s].token = row[s].token /\ faults' = faults
         => row'[s] = row[s]]_vars

\* A cached result is given up only to a caller that asked for it with force.
CachedResultKept ==
  [][\A s \in Slot :
       row[s].status = "completed" /\ row'[s] # row[s] /\ faults' = faults
         => \E c \in Callers : caller[c].pc = "claiming" /\ caller[c].slot = s
                               /\ caller[c].force /\ caller'[c].token = row'[s].token]_vars

\* Only a fault orphans a claim: a thread that is still the owner of a running
\* row does not go away and leave the row running (every branch of
\* _execute_with_claim ends in complete_run or fail_run).
OnlyFaultsOrphan ==
  [][\A s \in Slot :
       Owned(s) /\ row'[s] = row[s] /\ row[s].status = "running" /\ faults' = faults
         => \E c \in Callers : caller'[c].pc \in {"queued", "calling", "writing"}
                               /\ caller'[c].token = row[s].token]_vars

\* The answer a thread is about to read is its own outcome, or belongs to a
\* newer claim or to administration: never its own row still running.
AnswerIsOutcomeOrNewer ==
  \A c \in Callers :
    caller[c].pc = "reading" /\ row[caller[c].slot].token = caller[c].token
      => row[caller[c].slot].status = caller[c].outcome

\* Threads holding a claim hold different ones, and none holds NULL.
HoldersDistinct ==
  \A c \in Callers : Holding(c) =>
    /\ caller[c].token # NoToken
    /\ \A d \in Callers : Holding(d) /\ d # c => caller[d].token # caller[c].token

\* A row whose claim a thread is still executing has not been decided yet.
ExecutedRowRunning ==
  \A c \in Callers : Executing(c) /\ row[caller[c].slot].token = caller[c].token
    => row[caller[c].slot].status = "running"

\* The inductive invariant: DecidedByCurrentClaim rests on nothing but the token
\* guard, DecisionIsFinal and the refinement on the two conjuncts above.
IInv ==
  /\ TypeOK
  /\ HoldersDistinct
  /\ ExecutedRowRunning
  /\ DecidedByCurrentClaim
  /\ AnswerIsOutcomeOrNewer

\* Two requests that did not force never both have the plugin to invoke
\* (analysis_runs.py 97-98).  The code does not keep this: see the README.
OneExecutorPerSlot ==
  \A c, d \in Callers :
    c # d /\ Executing(c) /\ Executing(d) => caller[c].slot # caller[d].slot

\* Every request ends: with an answer, an error, or the process.
RequestsEnd == \A c \in Callers : InFlight(c) ~> ~InFlight(c)

\* A row that a crash left RUNNING does not block its slot forever: given
\* clients that ask, it is taken over (analysis_runs.py 157-158).
OrphanRecovered ==
  \A s \in Slot : row[s].status = "running" /\ ~Owned(s)
                    ~> row[s].status # "running" \/ Owned(s)

-----------------------------------------------------------------------------
(* The table and its threads implement ClaimedSlots. *)

AbstractSlot ==
  [s \in Slot |-> [claim  |-> row[s].token,
                   state  |-> CASE row[s].status \in {"absent", "pending"} -> "empty"
                                [] row[s].status = "running" -> "open"
                                [] OTHER -> "decided",
                   result |-> row[s].result]]

Slots == INSTANCE ClaimedSlots
  WITH Slot <- Slot, Claim <- Tokens, NoClaim <- NoToken, slot <- AbstractSlot

\* Refinement: see ClaimedSlots.
ImplementsClaimedSlots == Slots!Spec
=============================================================================
