------------------------ MODULE MCTransitionRenderer ------------------------
(* The instances TLC checks; the .cfg files give the constants their values. *)
EXTENDS TransitionRenderer, TLC

\* Threads and pairs are interchangeable.
Symmetry == Permutations(Threads) \cup Permutations(Pairs)
=============================================================================
