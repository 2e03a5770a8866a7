--------------------------- MODULE RenderLifecycle ---------------------------
(***************************************************************************)
(* What a reader of render_artifacts (store/db.py 105-138) relies on: a    *)
(* render id is used once, a render that ended keeps the way it ended, and *)
(* only deletion takes it away.                                            *)
(***************************************************************************)
EXTENDS Naturals

CONSTANT Id \* render ids

VARIABLE render \* render[i]: how far render i has got

Ended == {"completed", "failed", "cancelled"}

LifecycleState == {"unused", "running", "gone"} \cup Ended

Init == render = [i \in Id |-> "unused"]

Start(i) ==
  /\ render[i] = "unused"
  /\ render' = [render EXCEPT ![i] = "running"]

End(S) ==
  /\ \A i \in S : render[i] = "running"
  /\ \E how \in Ended : render' = [i \in Id |-> IF i \in S THEN how ELSE render[i]]

\* One render is deleted, or all of a candidate's at once.
Remove(S) ==
  /\ \A i \in S : render[i] \notin {"unused", "gone"}
  /\ render' = [i \in Id |-> IF i \in S THEN "gone" ELSE render[i]]

Next ==
  \/ \E i \in Id : Start(i)
  \/ \E S \in SUBSET Id : End(S) \/ Remove(S)

Spec == Init /\ [][Next]_render
=============================================================================
