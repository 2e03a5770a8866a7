-------------------------- MODULE MCCandidateGraph --------------------------
(* Small instances of CandidateGraph for TLC. *)
EXTENDS CandidateGraph, TLC

CONSTANTS t1, t2, t3

Order == [t \in Tracks |-> CASE t = t1 -> 1 [] t = t2 -> 2 [] OTHER -> 3]

\* One phrase or three, another beat source, and tempi 11 per cent apart: within
\* reach, but for an echo out only.
Short == [bpm |-> 100, bars |-> 8, source |-> "allin1"]
Fast == [bpm |-> 111, bars |-> 8, source |-> "allin1"]
LongFast == [bpm |-> 111, bars |-> 17, source |-> "librosa"]
Renamed == [bpm |-> 100, bars |-> 8, source |-> "librosa"]

ShortOrFast == {Short, Fast}
ShortOrLongFast == {Short, LongFast}
ShortOrRenamed == {Short, Renamed}

AllTracks == {Tracks}
AllOrTwo == {Tracks, {t1, t2}}

\* Threads are interchangeable.
Symmetry == Permutations(Builders)
=============================================================================
