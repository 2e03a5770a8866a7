---------------------------- MODULE StableGraph ----------------------------
(***************************************************************************)
(* What the candidate store promises (store/candidates.py 46-54), with no  *)
(* builds, profiles or feedback in it: renders and their labels refer to   *)
(* candidates by id, so an id stays with its natural key for as long as    *)
(* the candidate is in the graph, whatever builds overlap, and the id of   *)
(* a candidate that left the graph never names another one.                *)
(***************************************************************************)
EXTENDS Naturals

CONSTANTS
  Project,  \* the projects; each owns a graph of its own
  Track     \* the tracks the edges join

VARIABLES
  graph,    \* the candidates: natural key and id
  last      \* no id so far is greater

vars == <<graph, last>>

SameKey(e, f) ==
  /\ e.project = f.project
  /\ e.from = f.from /\ e.to = f.to
  /\ e.fromBar = f.fromBar /\ e.toBar = f.toBar

Init == graph = {} /\ last = 0

\* One build of project p takes effect, as a whole: what it does not produce
\* any more is gone, what it produces again keeps its id, what is new gets a
\* new one.  No other project notices.
Rebuild(p) ==
  /\ last' \in {last, last + 1}
  /\ \A e \in graph \ graph' :
       e.project = p /\ ~(\E f \in graph' : SameKey(e, f))
  /\ \A e \in graph' \ graph :
       /\ e.project = p
       /\ e.id = last + 1 /\ last' = last + 1
       /\ ~(\E f \in graph : SameKey(e, f))

\* Deleting a project or a track takes its candidates along, and no other.
RemoveProject(p) ==
  /\ graph' = {e \in graph : e.project # p}
  /\ UNCHANGED last

RemoveTrack(t) ==
  /\ graph' = {e \in graph : t \notin {e.from, e.to}}
  /\ UNCHANGED last

Next ==
  \/ \E p \in Project : Rebuild(p) \/ RemoveProject(p)
  \/ \E t \in Track : RemoveTrack(t)

Spec == Init /\ [][Next]_vars
=============================================================================
