-------------------------- MODULE MCAnalysisRuns --------------------------
(* Small instances of AnalysisRuns for TLC. *)
EXTENDS AnalysisRuns, TLC

\* Tracks, threads and tokens are interchangeable where nothing temporal is checked.
Symmetry ==
  Permutations(Tracks) \cup Permutations(Callers) \cup Permutations(Tokens)
=============================================================================
