------------------------- MODULE AnalysisRunsProofs -------------------------
(* Theorems about AnalysisRuns, for any tracks, callers, tokens and bounds. *)
EXTENDS AnalysisRuns, TLAPS

USE TokenAssumption, TimeAssumption, FlagAssumption, FaultAssumption

-----------------------------------------------------------------------------
(* Types. *)

LEMMA IdleFacts == Idle \notin Caller /\ Idle.pc = "idle"
  BY DEF Idle, Caller

\* A thread that is in flight has every field of a caller.
LEMMA InFlightType ==
  ASSUME TypeOK, NEW c \in Callers, caller[c].pc # "idle"
  PROVE  caller[c] \in Caller
  BY IdleFacts DEF TypeOK

LEMMA ZeroAge == 0 \in Ages
  BY DEF Ages, StaleAfter

LEMMA OlderType == \A a \in Ages : Older(a) \in Ages
  BY DEF Ages, Older, StaleAfter

LEMMA TypeInit == Init => TypeOK
  BY ZeroAge DEF Init, TypeOK, Absent, Row, Status

LEMMA TypeStep == TypeOK /\ [Next]_vars => TypeOK'
  <1> SUFFICES ASSUME TypeOK, [Next]_vars PROVE TypeOK'
    OBVIOUS
  <1> USE DEF TypeOK
  <1>1. ASSUME NEW c \in Callers, NEW s \in Slot, NEW force \in Forces, NEW limit \in Timeouts,
               Request(c, s, force, limit)
        PROVE  TypeOK'
    BY <1>1 DEF Request, Caller, PC, Decided
  <1>2. ASSUME NEW c \in Callers, ClaimRunning(c) PROVE TypeOK'
    <2>1. caller[c] \in Caller
      BY <1>2, InFlightType DEF ClaimRunning
    <2>2. PICK t \in FreshTokens :
            /\ row' = [row EXCEPT ![caller[c].slot] =
                 [status |-> "running", token |-> t, result |-> NoToken, age |-> 0]]
            /\ caller' = [caller EXCEPT ![c].pc = "queued", ![c].token = t, ![c].force = FALSE]
      BY <1>2 DEF ClaimRunning
    <2>3. t \in Tokens
      BY DEF FreshTokens
    <2>4. row' \in [Slot -> Row]
      BY <2>1, <2>2, <2>3, ZeroAge DEF Caller, Row, Status
    <2>5. caller' \in [Callers -> Caller \cup {Idle}]
      BY <2>1, <2>2, <2>3 DEF Caller, PC
    <2>6. QED BY <1>2, <2>4, <2>5 DEF ClaimRunning
  <1>3. ASSUME NEW c \in Callers, HandsOff(c) \/ ClaimOrphaned(c) \/ ReadBack(c) PROVE TypeOK'
    BY <1>3 DEF HandsOff, ClaimOrphaned, ReadBack
  <1>4. ASSUME NEW c \in Callers, Raises(c) PROVE TypeOK'
    BY <1>4 DEF Raises, Fault
  <1>5. ASSUME NEW c \in Callers, StartCall(c) PROVE TypeOK'
    <2>1. caller[c] \in Caller
      BY <1>5, InFlightType DEF StartCall
    <2>2. QED BY <1>5, <2>1 DEF StartCall, Caller, PC
  <1>6. ASSUME NEW c \in Callers, NEW outcome \in Decided, CallReturns(c, outcome) PROVE TypeOK'
    <2>1. caller[c] \in Caller
      BY <1>6, InFlightType DEF CallReturns
    <2>2. QED BY <1>6, <2>1 DEF CallReturns, Caller, PC
  <1>7. ASSUME NEW c \in Callers, CallTimesOut(c) PROVE TypeOK'
    <2>1. caller[c] \in Caller
      BY <1>7, InFlightType DEF CallTimesOut
    <2>2. QED BY <1>7, <2>1 DEF CallTimesOut, Caller, PC, Decided
  <1>8. ASSUME NEW c \in Callers, TerminalWrite(c) PROVE TypeOK'
    <2>1. caller[c] \in Caller
      BY <1>8, InFlightType DEF TerminalWrite
    <2>2. row' \in [Slot -> Row]
      BY <1>8, <2>1, ZeroAge DEF TerminalWrite, Caller, Row, Decided, Status
    <2>3. caller' \in [Callers -> Caller \cup {Idle}]
      BY <1>8, <2>1 DEF TerminalWrite, Caller, PC
    <2>4. QED BY <1>8, <2>2, <2>3 DEF TerminalWrite
  <1>9. ASSUME NEW t \in Tracks, Ingest(t) PROVE TypeOK'
    BY <1>9 DEF Ingest
  <1>10. ASSUME NEW t \in Tracks, DeleteTrack(t) PROVE TypeOK'
    BY <1>10, ZeroAge DEF DeleteTrack, Fault, Absent, Row, Status
  <1>11. ASSUME NEW s \in Slot, DeleteRun(s) PROVE TypeOK'
    BY <1>11, ZeroAge DEF DeleteRun, Fault, Absent, Row, Status
  <1>12. ASSUME NEW s \in Slot, NEW status \in Status \ {"absent"}, Import(s, status)
         PROVE  TypeOK'
    BY <1>12, ZeroAge DEF Import, Fault, Row
  <1>13. CASE Crash
    BY <1>13 DEF Crash, Fault
  <1>14. CASE Tick
    <2>1. row' \in [Slot -> Row]
      BY <1>14, OlderType DEF Tick, Row
    <2>2. ASSUME NEW c \in Callers, caller[c].pc = "calling"
          PROVE  [caller[c] EXCEPT !.left = @ - 1] \in Caller
      <3>1. caller[c] \in Caller /\ caller[c].left > 0
        BY <1>14, <2>2, InFlightType DEF Tick
      <3>2. caller[c].left \in Nat /\ caller[c].left - 1 \in Nat
        BY <3>1 DEF Caller
      <3>3. QED BY <3>1, <3>2 DEF Caller
    <2>3. caller' \in [Callers -> Caller \cup {Idle}]
      BY <1>14, <2>2 DEF Tick
    <2>4. QED BY <1>14, <2>1, <2>3 DEF Tick
  <1>15. CASE UNCHANGED vars
    BY <1>15 DEF vars
  <1>16. QED
    BY <1>1, <1>2, <1>3, <1>4, <1>5, <1>6, <1>7, <1>8, <1>9, <1>10, <1>11, <1>12, <1>13,
       <1>14, <1>15 DEF Next

\* Type correctness, for every value of the constants.
THEOREM TypeCorrect == Spec => []TypeOK
  BY TypeInit, TypeStep, PTL DEF Spec

-----------------------------------------------------------------------------
(* The inductive invariant. *)

LEMMA InvInit == Init => IInv
  <1> SUFFICES ASSUME Init PROVE IInv
    OBVIOUS
  <1>1. \A c \in Callers : caller[c].pc = "idle"
    BY IdleFacts DEF Init
  <1>2. \A s \in Slot : row[s].status = "absent"
    BY DEF Init, Absent
  <1>3. QED
    BY <1>1, <1>2, TypeInit DEF IInv, HoldersDistinct, ExecutedRowRunning, Holding, Executing,
       DecidedByCurrentClaim, AnswerIsOutcomeOrNewer, Decided

\* A step that touches neither rows nor the claims threads hold keeps IInv.
LEMMA InvQuiet ==
  ASSUME IInv, TypeOK', row' = row,
         \A c \in Callers : Holding(c)' =>
           /\ Holding(c)
           /\ Executing(c)' => Executing(c)
           /\ caller'[c].pc = "reading" => caller[c].pc = "reading"
           /\ caller'[c].token = caller[c].token
           /\ caller'[c].slot = caller[c].slot
           /\ caller[c].pc = "reading" => caller'[c].outcome = caller[c].outcome
  PROVE  IInv'
  <1>1. HoldersDistinct'
    BY DEF IInv, HoldersDistinct
  <1>2. ExecutedRowRunning'
    BY DEF IInv, ExecutedRowRunning, Holding
  <1>3. DecidedByCurrentClaim'
    BY DEF IInv, DecidedByCurrentClaim
  <1>4. AnswerIsOutcomeOrNewer'
    BY DEF IInv, AnswerIsOutcomeOrNewer, Holding
  <1>5. QED BY <1>1, <1>2, <1>3, <1>4 DEF IInv

\* A step that leaves the threads alone, and each row either alone up to its age
\* or without a token and a result, keeps IInv.
LEMMA InvRows ==
  ASSUME IInv, TypeOK', caller' = caller,
         \A s \in Slot :
           \/ /\ row'[s].status = row[s].status
              /\ row'[s].token = row[s].token
              /\ row'[s].result = row[s].result
           \/ row'[s].token = NoToken /\ row'[s].result = NoToken
  PROVE  IInv'
  <1>1. HoldersDistinct'
    BY DEF IInv, HoldersDistinct, Holding, Executing
  <1>2. \A c \in Callers : Holding(c) => caller[c].slot \in Slot /\ caller[c].token # NoToken
    BY InFlightType DEF IInv, HoldersDistinct, Holding, Executing, Caller
  <1>3. ExecutedRowRunning'
    BY <1>2 DEF IInv, ExecutedRowRunning, Holding, Executing
  <1>4. DecidedByCurrentClaim'
    BY DEF IInv, DecidedByCurrentClaim
  <1>5. AnswerIsOutcomeOrNewer'
    BY <1>2 DEF IInv, AnswerIsOutcomeOrNewer, Holding
  <1>6. QED BY <1>1, <1>3, <1>4, <1>5 DEF IInv

LEMMA InvClaim ==
  ASSUME IInv, TypeOK', NEW c \in Callers, ClaimRunning(c)
  PROVE  IInv'
  <1> DEFINE s == caller[c].slot
  <1>1. PICK t \in FreshTokens :
          /\ row' = [row EXCEPT ![s] =
               [status |-> "running", token |-> t, result |-> NoToken, age |-> 0]]
          /\ caller' = [caller EXCEPT ![c].pc = "queued", ![c].token = t, ![c].force = FALSE]
    BY DEF ClaimRunning
  <1>2. caller[c] \in Caller /\ s \in Slot
    BY InFlightType DEF IInv, ClaimRunning, Caller
  <1>3. /\ t \in Tokens /\ t # NoToken
        /\ \A d \in Callers : Holding(d) => caller[d].token # t
    BY DEF FreshTokens
  <1>4. /\ row'[s] = [status |-> "running", token |-> t, result |-> NoToken, age |-> 0]
        /\ \A x \in Slot \ {s} : row'[x] = row[x]
    BY <1>1, <1>2 DEF IInv, TypeOK
  <1>5. /\ caller'[c].pc = "queued" /\ caller'[c].token = t /\ caller'[c].slot = s
        /\ \A d \in Callers \ {c} : caller'[d] = caller[d]
    BY <1>1, <1>2 DEF IInv, TypeOK, Caller
  <1>6. HoldersDistinct'
    BY <1>3, <1>5 DEF IInv, HoldersDistinct, Holding, Executing
  <1>7. \A d \in Callers : Holding(d) => caller[d].slot \in Slot
    BY InFlightType DEF IInv, Holding, Executing, Caller
  <1>8. ExecutedRowRunning'
    BY <1>3, <1>4, <1>5, <1>7 DEF IInv, ExecutedRowRunning, Holding, Executing
  <1>9. DecidedByCurrentClaim'
    BY <1>2, <1>4 DEF IInv, DecidedByCurrentClaim, Decided
  <1>10. AnswerIsOutcomeOrNewer'
    BY <1>3, <1>4, <1>5, <1>7 DEF IInv, AnswerIsOutcomeOrNewer, Holding
  <1>11. QED BY <1>6, <1>8, <1>9, <1>10 DEF IInv

LEMMA InvTerminalWrite ==
  ASSUME IInv, TypeOK', NEW c \in Callers, TerminalWrite(c)
  PROVE  IInv'
  <1> DEFINE s == caller[c].slot
             me == caller[c].token
  <1>1. caller[c] \in Caller /\ s \in Slot /\ caller[c].outcome \in Decided
    BY InFlightType DEF IInv, TerminalWrite, Caller
  <1>2. Executing(c) /\ Holding(c)
    BY DEF TerminalWrite, Executing, Holding
  <1>3. /\ caller'[c].pc = "reading" /\ caller'[c].token = me /\ caller'[c].slot = s
        /\ caller'[c].outcome = caller[c].outcome
        /\ \A d \in Callers \ {c} : caller'[d] = caller[d]
    BY <1>1 DEF TerminalWrite, IInv, TypeOK, Caller
  <1>4. \/ row[s].token # me /\ row' = row
        \/ /\ row[s].token = me
           /\ row'[s] = [status |-> caller[c].outcome, token |-> me, result |-> me, age |-> 0]
           /\ \A x \in Slot \ {s} : row'[x] = row[x]
    BY <1>1 DEF TerminalWrite, IInv, TypeOK
  <1>5. HoldersDistinct'
    BY <1>2, <1>3 DEF IInv, HoldersDistinct, Holding, Executing
  <1>6. \A d \in Callers : Holding(d) => caller[d].slot \in Slot
    BY InFlightType DEF IInv, Holding, Executing, Caller
  <1>7. \A d \in Callers \ {c} : Holding(d) => caller[d].token # me
    BY <1>2 DEF IInv, HoldersDistinct
  <1>8. ExecutedRowRunning'
    BY <1>3, <1>4, <1>6, <1>7 DEF IInv, ExecutedRowRunning, Holding, Executing
  <1>9. DecidedByCurrentClaim'
    BY <1>1, <1>4 DEF IInv, DecidedByCurrentClaim
  <1>10. AnswerIsOutcomeOrNewer'
    BY <1>3, <1>4, <1>6, <1>7 DEF IInv, AnswerIsOutcomeOrNewer, Holding
  <1>11. QED BY <1>5, <1>8, <1>9, <1>10 DEF IInv

LEMMA InvTick ==
  ASSUME IInv, TypeOK', Tick
  PROVE  IInv'
  <1>1. \A s \in Slot : /\ row'[s].status = row[s].status
                        /\ row'[s].token = row[s].token
                        /\ row'[s].result = row[s].result
    BY DEF Tick, IInv, TypeOK, Row
  <1>2. \A c \in Callers : /\ caller'[c].pc = caller[c].pc
                           /\ Holding(c) => /\ caller'[c].token = caller[c].token
                                            /\ caller'[c].slot = caller[c].slot
                                            /\ caller'[c].outcome = caller[c].outcome
    <2> TAKE c \in Callers
    <2>1. CASE caller[c].pc = "calling"
      BY <2>1, InFlightType DEF Tick, IInv, Caller
    <2>2. CASE caller[c].pc # "calling"
      BY <2>2 DEF Tick
    <2>3. QED BY <2>1, <2>2
  <1>3. \A c \in Callers : Holding(c) => caller[c].slot \in Slot
    BY InFlightType DEF IInv, Holding, Executing, Caller
  <1>4. HoldersDistinct'
    BY <1>2 DEF IInv, HoldersDistinct, Holding, Executing
  <1>5. ExecutedRowRunning'
    BY <1>1, <1>2, <1>3 DEF IInv, ExecutedRowRunning, Holding, Executing
  <1>6. DecidedByCurrentClaim'
    BY <1>1 DEF IInv, DecidedByCurrentClaim
  <1>7. AnswerIsOutcomeOrNewer'
    BY <1>1, <1>2, <1>3 DEF IInv, AnswerIsOutcomeOrNewer, Holding
  <1>8. QED BY <1>4, <1>5, <1>6, <1>7 DEF IInv

LEMMA InvStep == IInv /\ [Next]_vars => IInv'
  <1> SUFFICES ASSUME IInv, [Next]_vars PROVE IInv'
    OBVIOUS
  <1>0. TypeOK /\ TypeOK'
    BY TypeStep DEF IInv
  <1>1. ASSUME NEW c \in Callers, NEW s \in Slot, NEW force \in Forces, NEW limit \in Timeouts,
               Request(c, s, force, limit)
        PROVE  IInv'
    BY <1>0, <1>1, InvQuiet DEF Request, Holding, Executing, TypeOK
  <1>2. ASSUME NEW c \in Callers, ClaimRunning(c) PROVE IInv'
    BY <1>0, <1>2, InvClaim
  <1>3. ASSUME NEW c \in Callers,
               HandsOff(c) \/ ClaimOrphaned(c) \/ ReadBack(c) \/ Raises(c)
        PROVE  IInv'
    BY <1>0, <1>3, InvQuiet, IdleFacts
       DEF HandsOff, ClaimOrphaned, ReadBack, Raises, Holding, Executing, TypeOK
  <1>4. ASSUME NEW c \in Callers, StartCall(c) PROVE IInv'
    <2>1. caller[c] \in Caller
      BY <1>0, <1>4, InFlightType DEF StartCall
    <2>2. QED
      BY <1>0, <1>4, <2>1, InvQuiet DEF StartCall, Holding, Executing, TypeOK, Caller
  <1>5. ASSUME NEW c \in Callers, NEW outcome \in Decided, CallReturns(c, outcome) PROVE IInv'
    <2>1. caller[c] \in Caller
      BY <1>0, <1>5, InFlightType DEF CallReturns
    <2>2. QED
      BY <1>0, <1>5, <2>1, InvQuiet DEF CallReturns, Holding, Executing, TypeOK, Caller
  <1>6. ASSUME NEW c \in Callers, CallTimesOut(c) PROVE IInv'
    <2>1. caller[c] \in Caller
      BY <1>0, <1>6, InFlightType DEF CallTimesOut
    <2>2. QED
      BY <1>0, <1>6, <2>1, InvQuiet DEF CallTimesOut, Holding, Executing, TypeOK, Caller
  <1>7. ASSUME NEW c \in Callers, TerminalWrite(c) PROVE IInv'
    BY <1>0, <1>7, InvTerminalWrite
  <1>8. ASSUME NEW t \in Tracks, Ingest(t) \/ DeleteTrack(t) PROVE IInv'
    BY <1>0, <1>8, InvRows DEF Ingest, DeleteTrack, Absent
  <1>9. ASSUME NEW s \in Slot, NEW status \in Status \ {"absent"},
               DeleteRun(s) \/ Import(s, status)
        PROVE  IInv'
    BY <1>0, <1>9, InvRows DEF DeleteRun, Import, Absent, TypeOK
  <1>10. CASE Crash
    BY <1>0, <1>10, InvQuiet, IdleFacts DEF Crash, Holding, Executing
  <1>11. CASE Tick
    BY <1>0, <1>11, InvTick
  <1>12. CASE UNCHANGED vars
    BY <1>0, <1>12, InvQuiet DEF vars, Holding, Executing
  <1>13. PICK status \in Status \ {"absent"} : TRUE
    BY DEF Status
  <1>14. QED
    BY <1>1, <1>2, <1>3, <1>4, <1>5, <1>6, <1>7, <1>8, <1>9, <1>10, <1>11, <1>12, <1>13
       DEF Next

LEMMA Invariance == Spec => []IInv
  BY InvInit, InvStep, PTL DEF Spec

\* A decided row always shows the result of its current claim's own call: no
\* late analyzer clobbers a newer claim, whatever forces, recoveries, crashes
\* and deletions happen.
THEOREM DecidedByCurrentClaimHolds == Spec => []DecidedByCurrentClaim
  <1>1. IInv => DecidedByCurrentClaim
    BY DEF IInv
  <1>2. QED BY <1>1, Invariance, PTL

\* What a thread is about to answer with is its own outcome or a newer claim's row.
THEOREM AnswerIsOutcomeOrNewerHolds == Spec => []AnswerIsOutcomeOrNewer
  <1>1. IInv => AnswerIsOutcomeOrNewer
    BY DEF IInv
  <1>2. QED BY <1>1, Invariance, PTL

-----------------------------------------------------------------------------
(* What a step may do to a decided row. *)

\* A row that is decided and keeps its claim is left alone by every step that
\* is not a fault: each claim decides its row once.
THEOREM DecisionIsFinalHolds == Spec => DecisionIsFinal
  <1> DEFINE Final(s) ==
        row[s].status \in Decided /\ row'[s].token = row[s].token /\ faults' = faults
          => row'[s] = row[s]
  <1>1. IInv /\ [Next]_vars => [\A s \in Slot : Final(s)]_vars
    <2> SUFFICES ASSUME IInv, Next, NEW s \in Slot, row[s].status \in Decided,
                        row'[s].token = row[s].token, faults' = faults
                 PROVE  row'[s] = row[s]
      BY DEF vars
    <2> USE DEF IInv, TypeOK
    <2>1. faults \in Nat
      BY DEF IInv, TypeOK
    <2>2. ASSUME NEW c \in Callers, ClaimRunning(c) PROVE row'[s] = row[s]
      <3>1. PICK t \in FreshTokens :
              row' = [row EXCEPT ![caller[c].slot] =
                [status |-> "running", token |-> t, result |-> NoToken, age |-> 0]]
        BY <2>2 DEF ClaimRunning
      <3>2. row[s].token # t
        BY DEF FreshTokens
      <3>3. QED BY <3>1, <3>2
    <2>3. ASSUME NEW c \in Callers, TerminalWrite(c) PROVE row'[s] = row[s]
      <3>1. Executing(c) /\ caller[c].slot \in Slot
        BY <2>3, InFlightType DEF TerminalWrite, Executing, Caller
      <3>2. row[caller[c].slot].token = caller[c].token => s # caller[c].slot
        BY <3>1 DEF ExecutedRowRunning, Decided
      <3>3. QED BY <2>3, <3>1, <3>2 DEF TerminalWrite
    <2>4. ASSUME Tick PROVE row'[s] = row[s]
      BY <2>4 DEF Tick, Decided
    <2>5. ~Fault
      BY <2>1 DEF Fault
    <2>6. CASE UNCHANGED row
      BY <2>6
    <2>7. QED
      BY <2>2, <2>3, <2>4, <2>5, <2>6
         DEF Next, Request, HandsOff, ClaimOrphaned, StartCall, CallReturns, CallTimesOut,
             Raises, ReadBack, Ingest, DeleteTrack, DeleteRun, Import, Crash
  <1>2. QED BY <1>1, Invariance, PTL DEF Spec, DecisionIsFinal

\* Only a caller who forces it takes a completed row, and then the row is its own:
\* a decided row is out of reach of every terminal write, its claim's own included.
THEOREM CachedResultKeptHolds == Spec => CachedResultKept
  <1> DEFINE Taken(s) == \E c \in Callers : caller[c].pc = "claiming" /\ caller[c].slot = s
                           /\ caller[c].force /\ caller'[c].token = row'[s].token
             Kept(s) == row[s].status = "completed" /\ row'[s] # row[s] /\ faults' = faults
                          => Taken(s)
  <1>1. IInv /\ [Next]_vars => [\A s \in Slot : Kept(s)]_vars
    <2> SUFFICES ASSUME IInv, Next, NEW s \in Slot, row[s].status = "completed",
                        row'[s] # row[s], faults' = faults
                 PROVE  Taken(s)
      BY DEF vars
    <2> USE DEF IInv, TypeOK
    <2>1. ASSUME NEW c \in Callers, ClaimRunning(c) PROVE Taken(s)
      <3>1. PICK t \in FreshTokens :
              /\ row' = [row EXCEPT ![caller[c].slot] =
                   [status |-> "running", token |-> t, result |-> NoToken, age |-> 0]]
              /\ caller' = [caller EXCEPT ![c].pc = "queued", ![c].token = t, ![c].force = FALSE]
        BY <2>1 DEF ClaimRunning
      <3>2. caller[c] \in Caller
        BY <2>1, InFlightType DEF ClaimRunning
      <3>3. caller[c].slot = s
        BY <3>1
      <3>4. caller[c].pc = "claiming" /\ caller[c].force
        BY <2>1, <3>3 DEF ClaimRunning, MayClaim
      <3>5. caller'[c].token = t /\ row'[s].token = t
        BY <3>1, <3>2, <3>3 DEF Caller
      <3>6. QED BY <3>3, <3>4, <3>5
    <2>2. ASSUME NEW c \in Callers, TerminalWrite(c) PROVE FALSE
      <3>1. Executing(c) /\ caller[c].slot \in Slot
        BY <2>2, InFlightType DEF TerminalWrite, Executing, Caller
      <3>2. row[caller[c].slot].token = caller[c].token => s # caller[c].slot
        BY <3>1 DEF ExecutedRowRunning
      <3>3. QED BY <2>2, <3>1, <3>2 DEF TerminalWrite
    <2>3. ~Tick
      BY DEF Tick
    <2>4. ~Fault
      BY DEF Fault
    <2>5. row' # row
      OBVIOUS
    <2>6. QED
      BY <2>1, <2>2, <2>3, <2>4, <2>5
         DEF Next, Request, HandsOff, ClaimOrphaned, StartCall, CallReturns, CallTimesOut,
             Raises, ReadBack, Ingest, DeleteTrack, DeleteRun, Import, Crash
  <1>2. QED BY <1>1, Invariance, PTL DEF Spec, CachedResultKept

\* A thread that owns a running row goes on owning it until it decides it, or
\* someone else writes the row, or a fault takes the thread: no path through the
\* handler drops the claim.
THEOREM OnlyFaultsOrphanHolds == Spec => OnlyFaultsOrphan
  <1> DEFINE At(c, s) == caller'[c].pc \in {"queued", "calling", "writing"}
                           /\ caller'[c].token = row[s].token
             Manned(s) ==
               Owned(s) /\ row'[s] = row[s] /\ row[s].status = "running" /\ faults' = faults
                 => \E c \in Callers : At(c, s)
  <1>1. IInv /\ [Next]_vars => [\A s \in Slot : Manned(s)]_vars
    <2> SUFFICES ASSUME IInv, Next, NEW s \in Slot, row'[s] = row[s],
                        row[s].status = "running", faults' = faults,
                        NEW c \in Callers, Executing(c), caller[c].slot = s,
                        caller[c].token = row[s].token
                 PROVE  At(c, s)
      BY DEF vars, Owned
    <2> USE DEF IInv, TypeOK
    <2>1. caller[c] \in Caller /\ caller[c].pc \in {"queued", "calling", "writing"}
      BY InFlightType DEF Executing
    <2>2. CASE caller'[c] = caller[c]
      BY <2>1, <2>2
    <2>3. CASE \/ StartCall(c) \/ CallTimesOut(c)
               \/ \E outcome \in Decided : CallReturns(c, outcome)
      <3>1. CASE StartCall(c) \/ CallTimesOut(c)
        BY <2>1, <3>1 DEF StartCall, CallTimesOut, Caller
      <3>2. ASSUME NEW outcome \in Decided, CallReturns(c, outcome) PROVE At(c, s)
        BY <2>1, <3>2 DEF CallReturns, Caller
      <3>3. QED BY <2>3, <3>1, <3>2
    <2>4. ~TerminalWrite(c)
      <3>1. SUFFICES ASSUME TerminalWrite(c) PROVE FALSE
        OBVIOUS
      <3>2. row'[s].status = caller[c].outcome
        BY <3>1 DEF TerminalWrite
      <3>3. caller[c].outcome # "running"
        BY <2>1 DEF Caller, Decided
      <3>4. QED BY <3>2, <3>3
    <2>5. CASE Tick
      <3>1. caller'[c].pc = caller[c].pc /\ caller'[c].token = caller[c].token
        BY <2>1, <2>5 DEF Tick, Caller
      <3>2. QED BY <2>1, <3>1
    <2>6. ~Fault
      BY DEF Fault
    <2>7. ASSUME NEW d \in Callers,
                 \/ \E x \in Slot, force \in Forces, limit \in Timeouts :
                      Request(d, x, force, limit)
                 \/ ClaimRunning(d) \/ HandsOff(d) \/ ClaimOrphaned(d) \/ ReadBack(d)
          PROVE  caller'[c] = caller[c]
      <3>1. d # c
        BY <2>1, <2>7 DEF Request, InFlight, ClaimRunning, HandsOff, ClaimOrphaned, ReadBack
      <3>2. QED
        BY <2>7, <3>1 DEF Request, ClaimRunning, HandsOff, ClaimOrphaned, ReadBack
    <2>8. ASSUME NEW d \in Callers, d # c,
                 \/ StartCall(d) \/ CallTimesOut(d) \/ TerminalWrite(d)
                 \/ \E outcome \in Decided : CallReturns(d, outcome)
          PROVE  caller'[c] = caller[c]
      BY <2>8 DEF StartCall, CallTimesOut, TerminalWrite, CallReturns
    <2>9. QED
      BY <2>2, <2>3, <2>4, <2>5, <2>6, <2>7, <2>8
         DEF Next, Raises, Ingest, DeleteTrack, DeleteRun, Import, Crash
  <1>2. QED BY <1>1, Invariance, PTL DEF Spec, OnlyFaultsOrphan

-----------------------------------------------------------------------------
(* The protocol implements ClaimedSlots. *)

LEMMA RefinementInit == Init => Slots!Init
  BY DEF Init, Slots!Init, Slots!Free, AbstractSlot, Absent

LEMMA RefinementStep == IInv /\ [Next]_vars => [Slots!Next]_AbstractSlot
  <1> SUFFICES ASSUME IInv, [Next]_vars PROVE Slots!Next \/ UNCHANGED AbstractSlot
    OBVIOUS
  <1> USE DEF IInv, TypeOK
  <1> DEFINE Abstraction(r) ==
        [claim  |-> r.token,
         state  |-> CASE r.status \in {"absent", "pending"} -> "empty"
                      [] r.status = "running" -> "open"
                      [] OTHER -> "decided",
         result |-> r.result]
  <1>a. /\ AbstractSlot = [s \in Slot |-> Abstraction(row[s])]
        /\ AbstractSlot' = [s \in Slot |-> Abstraction(row'[s])]
    BY DEF AbstractSlot
  <1> HIDE DEF Abstraction
  <1>1. ASSUME row' = row PROVE UNCHANGED AbstractSlot
    BY <1>1 DEF AbstractSlot
  <1>2. ASSUME NEW c \in Callers, ClaimRunning(c) PROVE Slots!Next
    <2> DEFINE s == caller[c].slot
    <2>1. PICK t \in FreshTokens :
            row' = [row EXCEPT ![s] =
              [status |-> "running", token |-> t, result |-> NoToken, age |-> 0]]
      BY <1>2 DEF ClaimRunning
    <2>2. s \in Slot
      BY <1>2, InFlightType DEF ClaimRunning, Caller
    <2>3. t \in Tokens /\ t \notin {AbstractSlot[x].claim : x \in Slot}
      BY DEF FreshTokens, AbstractSlot
    <2>4. Abstraction([status |-> "running", token |-> t, result |-> NoToken, age |-> 0])
            = [claim |-> t, state |-> "open", result |-> NoToken]
      BY DEF Abstraction
    <2>5. AbstractSlot' =
            [AbstractSlot EXCEPT ![s] = [claim |-> t, state |-> "open", result |-> NoToken]]
      BY <1>a, <2>1, <2>2, <2>4
    <2>6. QED BY <2>2, <2>3, <2>5 DEF Slots!Next, Slots!Take
  <1>3. ASSUME NEW c \in Callers, TerminalWrite(c) PROVE Slots!Next \/ UNCHANGED AbstractSlot
    <2> DEFINE s == caller[c].slot
               me == caller[c].token
               new == [status |-> caller[c].outcome, token |-> me, result |-> me, age |-> 0]
    <2>1. /\ s \in Slot /\ caller[c].outcome \in Decided /\ me # NoToken
          /\ row[s].token = me => row[s].status = "running"
      BY <1>3, InFlightType
         DEF TerminalWrite, Caller, ExecutedRowRunning, HoldersDistinct, Holding, Executing
    <2>2. CASE row[s].token # me
      BY <1>1, <1>3, <2>2 DEF TerminalWrite
    <2>3. CASE row[s].token = me
      <3>1. row' = [row EXCEPT ![s] = new]
        BY <1>3, <2>3 DEF TerminalWrite
      <3>2. /\ AbstractSlot[s].state = "open" /\ AbstractSlot[s].claim = me
            /\ Abstraction(new) = [claim |-> me, state |-> "decided", result |-> me]
        BY <2>1, <2>3 DEF AbstractSlot, Abstraction, Decided
      <3>3. AbstractSlot' =
              [AbstractSlot EXCEPT ![s] = [claim |-> me, state |-> "decided", result |-> me]]
        BY <1>a, <2>1, <3>1, <3>2
      <3>4. AbstractSlot[s] = [claim |-> me, state |-> "open", result |-> row[s].result]
        BY <2>1, <2>3 DEF AbstractSlot
      <3>5. AbstractSlot' = [AbstractSlot EXCEPT ![s].state = "decided",
                                                 ![s].result = AbstractSlot[s].claim]
        BY <1>a, <2>1, <3>3, <3>4
      <3>6. QED BY <2>1, <3>2, <3>5 DEF Slots!Next, Slots!Decide
    <2>4. QED BY <2>2, <2>3
  <1>4. Abstraction(Absent) = Slots!Free
    BY DEF Abstraction, Absent, Slots!Free
  <1>5. ASSUME NEW t \in Tracks, DeleteTrack(t) PROVE Slots!Next
    <2>1. AbstractSlot' = [s \in Slot |-> IF s \in {x \in Slot : x[1] = t}
                                            THEN Slots!Free ELSE AbstractSlot[s]]
      BY <1>a, <1>4, <1>5 DEF DeleteTrack
    <2>2. {x \in Slot : x[1] = t} \in SUBSET Slot
      OBVIOUS
    <2>3. QED BY <2>1, <2>2 DEF Slots!Next, Slots!Reset
  <1>6. ASSUME NEW s \in Slot, DeleteRun(s) PROVE Slots!Next
    <2>1. AbstractSlot' = [x \in Slot |-> IF x \in {s} THEN Slots!Free ELSE AbstractSlot[x]]
      BY <1>a, <1>4, <1>6 DEF DeleteRun
    <2>2. QED BY <2>1 DEF Slots!Next, Slots!Reset
  <1>7. ASSUME NEW s \in Slot, NEW status \in Status \ {"absent"}, Import(s, status)
        PROVE  Slots!Next
    <2>0. PICK age : row' = [row EXCEPT ![s] = [status |-> status, token |-> NoToken,
                                                result |-> NoToken, age |-> age]]
      BY <1>7 DEF Import
    <2> DEFINE new == [status |-> status, token |-> NoToken, result |-> NoToken, age |-> age]
    <2>1. PICK state \in Slots!ClaimState :
            Abstraction(new) = [claim |-> NoToken, state |-> state, result |-> NoToken]
      BY DEF Abstraction, Slots!ClaimState
    <2>2. AbstractSlot' =
            [AbstractSlot EXCEPT ![s] = [claim |-> NoToken, state |-> state, result |-> NoToken]]
      BY <1>a, <2>0, <2>1
    <2>3. QED BY <2>2 DEF Slots!Next, Slots!Import
  <1>8. ASSUME Tick PROVE UNCHANGED AbstractSlot
    <2>1. \A s \in Slot : Abstraction(row'[s]) = Abstraction(row[s])
      BY <1>8 DEF Tick, Abstraction, Row
    <2>2. QED BY <1>a, <2>1
  <1>9. QED
    BY <1>1, <1>2, <1>3, <1>5, <1>6, <1>7, <1>8
       DEF Next, vars, Request, HandsOff, ClaimOrphaned, StartCall, CallReturns, CallTimesOut,
           Raises, ReadBack, Ingest, Crash

\* The table with its threads keeps the store's promise: at most one current
\* claim per slot, decided once, by that claim, until the next one.
THEOREM Refinement == Spec => ImplementsClaimedSlots
  BY RefinementInit, RefinementStep, Invariance, PTL
     DEF Spec, ImplementsClaimedSlots, Slots!Spec
=============================================================================
