----------------------------- MODULE MCServices -----------------------------
(***************************************************************************)
(* The services that share no state with each other, checked in one run:   *)
(* one of them moves, and the others stay as they were created.            *)
(***************************************************************************)
EXTENDS JobQueue, PeaksCache, DbMigration, TrackProfiles, PollingPages, RenderTiming

VARIABLE part

servicesVars == <<part, jobVars, peakVars, dbVars, profileVars, pageVars, timingVars>>

-----------------------------------------------------------------------------
\* Anywhere but where candidates has been dropped and its copy not yet renamed:
\* there the rows are lost (see the README).
NotBetweenTables == Stages \ {"down", "rename"}

TwoAnalyzers == {<<"allin1", 1>>, <<"librosa", 1>>}

\* A beat before the track, no duration; a track shorter than its beats.
NoDuration == [tempo |-> TRUE, beats |-> {-1, 0, 2}, duration |-> Missing]
TooShort == [tempo |-> TRUE, beats |-> {0, 2}, duration |-> 1]
TwoOutputs == {NoDuration, TooShort}

AtOddTempi == {[num |-> 1, den |-> 1], [num |-> 9, den |-> 10], [num |-> 11, den |-> 10]}

ManyCues == {-1, 0, 5, 60}
TwoCues == {-1, 0}

FirstCut == CHOOSE c \in Cut : TRUE

-----------------------------------------------------------------------------
ServicesInit ==
  /\ part \in {"jobs", "peaks", "db", "profiles", "pages", "timing"}
  /\ IF part = "peaks" THEN TRUE ELSE pcm = 0
  /\ IF part = "db" THEN TRUE ELSE disk = NewDatabase
  /\ IF part = "pages" THEN TRUE
                       ELSE page = [kind |-> "library", strict |-> FALSE, rows |-> "lists"]
  /\ IF part = "timing" THEN TRUE ELSE cut = FirstCut
  /\ JobInit /\ PeaksInit /\ DbInit /\ ProfilesInit /\ PagesInit /\ TimingInit

ServicesNext ==
  \/ /\ part = "jobs" /\ JobNext
     /\ UNCHANGED <<part, peakVars, dbVars, profileVars, pageVars, timingVars>>
  \/ /\ part = "peaks" /\ PeaksNext
     /\ UNCHANGED <<part, jobVars, dbVars, profileVars, pageVars, timingVars>>
  \/ /\ part = "db" /\ DbNext
     /\ UNCHANGED <<part, jobVars, peakVars, profileVars, pageVars, timingVars>>
  \/ /\ part = "profiles" /\ ProfilesNext
     /\ UNCHANGED <<part, jobVars, peakVars, dbVars, pageVars, timingVars>>
  \/ /\ part = "pages" /\ PagesNext
     /\ UNCHANGED <<part, jobVars, peakVars, dbVars, profileVars, timingVars>>
  \/ /\ part = "timing" /\ TimingNext
     /\ UNCHANGED <<part, jobVars, peakVars, dbVars, profileVars, pageVars>>

ServicesSpec == ServicesInit /\ [][ServicesNext]_servicesVars /\ JobFairness

-----------------------------------------------------------------------------
\* The type invariants of all of them.
ServicesTypeOK ==
  JobTypeOK /\ PeaksTypeOK /\ DbTypeOK /\ ProfilesTypeOK /\ PagesTypeOK /\ TimingTypeOK
=============================================================================
