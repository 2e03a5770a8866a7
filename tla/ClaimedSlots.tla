---------------------------- MODULE ClaimedSlots ----------------------------
(***************************************************************************)
(* What the analysis-run store promises (store/analysis_runs.py 8-22),     *)
(* with no callers, clock, plugin or staleness rule in it.  A slot has at  *)
(* most one current claim.  A claim may be displaced by a newer one at any *)
(* time, but only the current claim can decide the slot, it decides it     *)
(* once, and what it decided stays until the next claim.                   *)
(***************************************************************************)
CONSTANTS
  Slot,       \* the slots: one per (track, analyzer, version)
  Claim,      \* the tokens that name claims
  NoClaim     \* no claim: an absent or an imported row

VARIABLE slot \* slot[s]: its current claim and what is known of its outcome

ClaimState == {"empty", "open", "decided"}

Free == [claim |-> NoClaim, state |-> "empty", result |-> NoClaim]

Init == slot = [s \in Slot |-> Free]

\* A claim nobody holds takes the slot over and forgets its outcome.
Take(s, t) ==
  /\ t \notin {slot[x].claim : x \in Slot}
  /\ slot' = [slot EXCEPT ![s] = [claim |-> t, state |-> "open", result |-> NoClaim]]

\* The current claim, still open, decides the slot with its own result.
Decide(s) ==
  /\ slot[s].claim # NoClaim
  /\ slot[s].state = "open"
  /\ slot' = [slot EXCEPT ![s].state = "decided", ![s].result = slot[s].claim]

\* Administration empties slots, or sets one to a state no claim stands for.
Reset(S) == slot' = [s \in Slot |-> IF s \in S THEN Free ELSE slot[s]]

Import(s, state) ==
  slot' = [slot EXCEPT ![s] = [claim |-> NoClaim, state |-> state, result |-> NoClaim]]

Next ==
  \/ \E s \in Slot, t \in Claim : Take(s, t)
  \/ \E s \in Slot : Decide(s)
  \/ \E S \in SUBSET Slot : Reset(S)
  \/ \E s \in Slot, state \in ClaimState : Import(s, state)

Spec == Init /\ [][Next]_slot
=============================================================================
