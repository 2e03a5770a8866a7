--------------------------- MODULE TrackProfiles ---------------------------
(***************************************************************************)
(* The profile of one track (profile_builder.py, store/track_profiles.py)  *)
(* and the labels on its runs (store/analysis_labels.py, api/main.py),     *)
(* while analyses are claimed and decided and the track itself may be      *)
(* deleted and ingested again.  A builder reads and writes the database    *)
(* statement by statement, so every one of them is a step.                 *)
(*                                                                         *)
(* How a run is claimed and decided is AnalysisRuns' subject: here a slot  *)
(* goes from claim to decision and may be claimed again, which keeps its   *)
(* row.  The key, of one source, is built like the grid and from the same  *)
(* reading; it is left out.                                                *)
(***************************************************************************)
EXTENDS Integers, Sequences

CONSTANTS
  Builders,   \* threads in build_profile
  Slots,      \* (analyzer_name, analyzer_version)
  Outputs,    \* what an analyzer may put into output_json
  Missing,    \* a duration that is None, or no number
  MaxNow,     \* bound on the clock, in whole seconds
  MaxRuns,    \* bound on the AUTOINCREMENT id of analysis_runs
  MaxClaims,  \* bound on claims of a slot, forced ones included
  MaxDeletes  \* bound on deletions of the track or of a run

ASSUME ProfilesAssumption ==
  /\ Missing \notin Int
  /\ MaxNow \in Nat \ {0}
  /\ MaxRuns \in Nat
  /\ MaxClaims \in Nat
  /\ MaxDeletes \in Nat

\* beats is a list of numbers: if there are any, one is the last.
ASSUME OutputsAssumption ==
  \A output \in Outputs :
    /\ output \in [tempo : BOOLEAN, beats : SUBSET Int, duration : Int \cup {Missing}]
    /\ output.beats # {} => \E last \in output.beats : \A t \in output.beats : t <= last

VARIABLES
  now,     \* utc_now_iso(), which has no fraction
  track,   \* is the track in its table?
  run,     \* run[s]: the row of analysis_runs for slot s, NoRun if none
  born,    \* how many runs there have been: sqlite_sequence
  claims,  \* how many claims there have been
  deletes, \* how many deletions there have been
  profile, \* the row of track_profiles, NoProfileRow if none
  builder, \* builder[b]: where thread b is, and what it has read
  labeller,\* the request to label a run
  labels,  \* the runs that have a label
  decided  \* history: the runs that were decided at some time

profileVars == <<now, track, run, born, claims, deletes, profile, builder, labeller,
                 labels, decided>>

requests == <<builder, labeller>>

-----------------------------------------------------------------------------
(* Rows. *)

BEAT_GRID_SOURCE_PRIORITY == <<"allin1_remote", "allin1", "librosa">>

\* serial is history: it tells apart runs which the id need not.
RunRow(id, serial, status, output, started, finished) ==
  [id |-> id, serial |-> serial, status |-> status, output |-> output,
   started |-> started, finished |-> finished]

NoOutput == [tempo |-> FALSE, beats |-> {}, duration |-> Missing]

NoRun == RunRow(0, 0, "none", NoOutput, 0, 0)

Present == {s \in Slots : run[s].id # 0}

\* Mutant: the id of a deleted run is given out again.
NextRunIdReused ==
  CHOOSE n \in 1 .. MaxRuns + 1 :
    /\ \A s \in Slots : run[s].id < n
    /\ n = 1 \/ \E s \in Slots : run[s].id = n - 1

\* INTEGER PRIMARY KEY AUTOINCREMENT
NextRunId == born + 1

-----------------------------------------------------------------------------
(* The grid of a run: _parse_beat_grid_blocks. *)

NoGrid == [beats |-> {}, duration |-> 0]

LastOf(beats) == CHOOSE t \in beats : \A u \in beats : u <= t

\* Mutant: no fallback check against the last beat.
DurationUnchecked(reported, beats) ==
  IF reported = Missing THEN LastOf(beats) ELSE reported

\* _coerce_duration, and 0 for what its caller rejects.
Duration(reported, beats) ==
  CASE reported = Missing -> LastOf(beats)
    [] reported # Missing /\ reported > 0 /\ reported >= LastOf(beats) -> reported
    [] OTHER -> 0

\* Beats that are not at a finite time from 0 on are dropped, and two moments
\* are needed; times are ticks, and a negative one stands for a bad beat.
Grid(output) ==
  LET beats == {t \in output.beats : t >= 0}
      duration == IF beats = {} THEN 0 ELSE Duration(output.duration, beats)
      twoMoments == \E t, u \in beats : t # u
  IN
  IF output.tempo /\ twoMoments /\ duration > 0
    THEN [beats |-> beats, duration |-> duration]
    ELSE NoGrid

-----------------------------------------------------------------------------
(* The choice of a source. *)

\* ORDER BY COALESCE(started_at, created_at) DESC, id DESC
Newer(r, s) == r.started > s.started \/ (r.started = s.started /\ r.id > s.id)

\* The rows _newest_completed_by_analyzer keeps.
NewestCompleted(rows) ==
  {s \in Slots : /\ rows[s].status = "completed"
                 /\ \A o \in Slots \ {s} :
                      o[1] = s[1] /\ rows[o].status = "completed" => Newer(rows[s], rows[o])}

\* _select_beat_grid: the run that becomes the source, NoRun if there is none.
SelectBeatGrid(rows) ==
  LET priority == BEAT_GRID_SOURCE_PRIORITY
      usable(i) == {s \in NewestCompleted(rows) :
                      s[1] = priority[i] /\ Grid(rows[s].output) # NoGrid}
      ranks == {i \in DOMAIN priority : usable(i) # {}}
  IN
  IF ranks = {} THEN NoRun
  ELSE rows[CHOOSE s \in Slots : \E i \in ranks : s \in usable(i) /\ \A j \in ranks : i <= j]

-----------------------------------------------------------------------------
(* Profiles. *)

\* source and serial are 0 in a profile that is blocked.
ProfileRow(source, at) ==
  [source |-> source.id, serial |-> source.serial, grid |-> Grid(source.output), builtAt |-> at]

NoProfileRow == [source |-> -1, serial |-> 0, grid |-> NoGrid, builtAt |-> 0]

Readiness(p) ==
  CASE p = NoProfileRow -> "missing"
    [] p # NoProfileRow /\ p.grid = NoGrid -> "blocked"
    [] OTHER -> "partial"

\* A profile that points at a run that is not there.
MissingSource(p) == p.source > 0 /\ \A s \in Present : run[s].id # p.source

\* Second-resolution strings, compared strictly.
FinishedSince(p) == \E s \in Present : run[s].finished > p.builtAt

\* is_stale, were it one statement.
Stale(p) == p = NoProfileRow \/ MissingSource(p) \/ FinishedSince(p)

\* may is history: the sources the runs have yielded since it was asked.
BuilderState == {"idle", "existing", "row", "sources", "finished", "reading", "stamping",
                 "storing", "done"}

\* read is the profile the builder has read or made, row is_stale's reading.
NotBuilding == [pc |-> "idle", force |-> FALSE, read |-> NoProfileRow,
                row |-> NoProfileRow, may |-> {}]

BuilderAt(b, pc) == builder[b].pc = pc

\* What a change of the runs means to the history of builders.
Observe ==
  builder' = [b \in Builders |->
    IF BuilderAt(b, "idle") THEN builder[b]
    ELSE [builder[b] EXCEPT !.may = @ \cup {SelectBeatGrid(run').serial}]]

-----------------------------------------------------------------------------
(* The track and its runs. *)

TickProfiles ==
  /\ now < MaxNow /\ now' = now + 1
  /\ UNCHANGED <<track, run, born, claims, deletes, profile, requests, labels, decided>>

\* DELETE FROM tracks, and what ON DELETE CASCADE takes along.
DeleteTrack ==
  /\ track /\ track' = FALSE
  /\ deletes < MaxDeletes /\ deletes' = deletes + 1
  /\ run' = [s \in Slots |-> NoRun]
  /\ profile' = NoProfileRow
  /\ labels' = {}
  /\ Observe
  /\ UNCHANGED <<now, born, claims, labeller, decided>>

\* tracks.ingest, of the same content again.
IngestAgain ==
  /\ ~track /\ track' = TRUE
  /\ UNCHANGED <<now, run, born, claims, deletes, profile, requests, labels, decided>>

\* analysis_runs.delete, and the labels of the run.
DeleteRun(s) ==
  /\ s \in Present
  /\ deletes < MaxDeletes /\ deletes' = deletes + 1
  /\ run' = [run EXCEPT ![s] = NoRun]
  /\ labels' = labels \ {run[s].serial}
  /\ Observe
  /\ UNCHANGED <<now, track, born, claims, profile, labeller, decided>>

\* claim_running: a new row, or the row that is there, emptied: of a run that is
\* over, or, by force or because it is stale, of one that is running.  started_at
\* was taken before the transaction had to wait for the database.
ClaimRun(s) ==
  /\ track
  /\ claims < MaxClaims /\ claims' = claims + 1
  /\ \E at \in {now - 1, now} \ {0} :
       IF s \in Present
         THEN /\ run' = [run EXCEPT ![s] =
                           RunRow(@.id, @.serial, "running", NoOutput, at, 0)]
              /\ UNCHANGED born
         ELSE /\ born < MaxRuns /\ born' = born + 1
              /\ run' = [run EXCEPT ![s] =
                           RunRow(NextRunId, born + 1, "running", NoOutput, at, 0)]
  /\ Observe
  /\ UNCHANGED <<now, track, deletes, profile, labeller, labels, decided>>

\* complete_run or fail_run.  finished_at was taken before the statement had to
\* wait for the database.
DecideRun(s, status, output) ==
  /\ run[s].status = "running"
  /\ \E at \in {now - 1, now} :
       /\ at >= run[s].started
       /\ run' = [run EXCEPT ![s].status = status, ![s].finished = at,
                             ![s].output = IF status = "completed" THEN output ELSE NoOutput]
  /\ decided' = decided \cup {run[s].serial}
  /\ Observe
  /\ UNCHANGED <<now, track, born, claims, deletes, profile, labeller, labels>>

-----------------------------------------------------------------------------
(* build_profile. *)

BuilderSteps == UNCHANGED <<now, track, run, born, claims, deletes, labeller, labels, decided>>

Move(b, pc) == builder' = [builder EXCEPT ![b].pc = pc]

\* Mutant: the argument is overlooked.
AskProfileUnforced(b, force) ==
  /\ BuilderAt(b, "idle")
  /\ track
  /\ builder' = [builder EXCEPT ![b] =
       [pc |-> "existing", force |-> force, read |-> NoProfileRow,
        row |-> NoProfileRow, may |-> {SelectBeatGrid(run).serial}]]
  /\ BuilderSteps /\ UNCHANGED profile

\* tracks.get finds the track; a forced build goes straight to the runs.
AskProfile(b, force) ==
  /\ BuilderAt(b, "idle")
  /\ track
  /\ builder' = [builder EXCEPT ![b] =
       [pc |-> IF force THEN "reading" ELSE "existing", force |-> force,
        read |-> NoProfileRow, row |-> NoProfileRow, may |-> {SelectBeatGrid(run).serial}]]
  /\ BuilderSteps /\ UNCHANGED profile

\* existing = track_profiles.get
ReadExisting(b) ==
  /\ BuilderAt(b, "existing")
  /\ builder' = [builder EXCEPT ![b].pc = IF profile = NoProfileRow THEN "reading" ELSE "row",
                                ![b].read = profile]
  /\ BuilderSteps /\ UNCHANGED profile

\* is_stale reads the row again; its other statements are about that reading ...
ReadRow(b) ==
  /\ BuilderAt(b, "row")
  /\ builder' = [builder EXCEPT ![b].pc = IF profile = NoProfileRow THEN "reading" ELSE "sources",
                                ![b].row = profile]
  /\ BuilderSteps /\ UNCHANGED profile

\* ... _has_missing_source_run ...
CheckSources(b) ==
  /\ BuilderAt(b, "sources")
  /\ Move(b, IF MissingSource(builder[b].row) THEN "reading" ELSE "finished")
  /\ BuilderSteps /\ UNCHANGED profile

\* ... and MAX(finished_at).  What is returned is the profile read before.
CheckFinished(b) ==
  /\ BuilderAt(b, "finished")
  /\ Move(b, IF FinishedSince(builder[b].row) THEN "reading" ELSE "done")
  /\ BuilderSteps /\ UNCHANGED profile

\* _newest_completed_by_analyzer, one statement, and the choice.
ReadRuns(b) ==
  /\ BuilderAt(b, "reading")
  /\ builder' = [builder EXCEPT ![b].pc = "stamping",
                                ![b].read = ProfileRow(SelectBeatGrid(run), 0)]
  /\ BuilderSteps /\ UNCHANGED profile

\* built_at=utc_now_iso(), after the reading.
StampProfile(b) ==
  /\ BuilderAt(b, "stamping")
  /\ builder' = [builder EXCEPT ![b].pc = "storing", ![b].read.builtAt = now]
  /\ BuilderSteps /\ UNCHANGED profile

\* track_profiles.upsert: the row is replaced, whatever it has become.
StoreProfile(b) ==
  /\ BuilderAt(b, "storing")
  /\ track
  /\ profile' = builder[b].read
  /\ Move(b, "done")
  /\ BuilderSteps

\* The track is gone: the foreign key is violated.
StoreRefused(b) ==
  /\ BuilderAt(b, "storing")
  /\ ~track
  /\ builder' = [builder EXCEPT ![b] = NotBuilding]
  /\ BuilderSteps /\ UNCHANGED profile

ReturnProfile(b) ==
  /\ BuilderAt(b, "done")
  /\ builder' = [builder EXCEPT ![b] = NotBuilding]
  /\ BuilderSteps /\ UNCHANGED profile

-----------------------------------------------------------------------------
(* add_analysis_label, delete_analysis_label. *)

LabelSteps == UNCHANGED <<now, track, run, born, claims, deletes, profile, builder, decided>>

\* Mutant: the status is not looked at.
AskLabelAnyStatus(s) ==
  /\ labeller = 0
  /\ s \in Present
  /\ labeller' = run[s].id
  /\ LabelSteps /\ UNCHANGED labels

\* _get_run_or_404 and _TERMINAL_STATUSES
AskLabel(s) ==
  /\ labeller = 0
  /\ run[s].status \in {"completed", "failed"}
  /\ labeller' = run[s].id
  /\ LabelSteps /\ UNCHANGED labels

\* analysis_labels.add: by id alone; the foreign key wants a run of that id.
AddLabel ==
  /\ labeller # 0
  /\ labeller' = 0
  /\ labels' = labels \cup {run[s].serial : s \in {t \in Present : run[t].id = labeller}}
  /\ LabelSteps

DeleteLabel(serial) ==
  /\ labels' = labels \ {serial}
  /\ LabelSteps /\ UNCHANGED labeller

-----------------------------------------------------------------------------
ProfilesInit ==
  /\ now = 1
  /\ track = TRUE
  /\ run = [s \in Slots |-> NoRun]
  /\ born = 0 /\ claims = 0 /\ deletes = 0
  /\ profile = NoProfileRow
  /\ builder = [b \in Builders |-> NotBuilding]
  /\ labeller = 0
  /\ labels = {}
  /\ decided = {}

ProfilesNext ==
  \/ TickProfiles \/ DeleteTrack \/ IngestAgain
  \/ \E s \in Slots : DeleteRun(s) \/ ClaimRun(s) \/ AskLabel(s)
  \/ \E s \in Slots, output \in Outputs : DecideRun(s, "completed", output)
  \/ \E s \in Slots : DecideRun(s, "failed", NoOutput)
  \/ \E b \in Builders, force \in BOOLEAN : AskProfile(b, force)
  \/ \E b \in Builders :
       \/ ReadExisting(b) \/ ReadRow(b) \/ CheckSources(b) \/ CheckFinished(b)
       \/ ReadRuns(b) \/ StampProfile(b)
       \/ StoreProfile(b) \/ StoreRefused(b) \/ ReturnProfile(b)
  \/ AddLabel
  \/ \E serial \in labels : DeleteLabel(serial)

ProfilesSpec == ProfilesInit /\ [][ProfilesNext]_profileVars

-----------------------------------------------------------------------------
(* Properties. *)

\* A grid has two moments and ends within its duration, or there is none.
GridCoversBeats(grid) ==
  grid # NoGrid =>
    /\ grid.beats \subseteq 0 .. grid.duration
    /\ \E t, u \in grid.beats : t < u

\* Rows, readings and history are what the code can make of them; whatever the
\* analyzers put out, a stored grid covers its beats.
ProfilesTypeOK ==
  /\ now \in 1 .. MaxNow /\ track \in BOOLEAN
  /\ born \in 0 .. MaxRuns /\ claims \in 0 .. MaxClaims /\ deletes \in 0 .. MaxDeletes
  /\ \A s \in Slots :
       /\ run[s].status \in {"none", "running", "completed", "failed"}
       /\ run[s].output \in Outputs \cup {NoOutput}
       /\ run[s].status = "none" <=> run[s] = NoRun
       /\ run[s].finished # 0 <=> run[s].status \in {"completed", "failed"}
  /\ ~track => profile = NoProfileRow /\ Present = {}
  /\ Readiness(profile) \in {"missing", "blocked", "partial"}
  /\ GridCoversBeats(profile.grid)
  /\ \A b \in Builders : builder[b].pc \in BuilderState /\ builder[b].force \in BOOLEAN
  /\ labels \cup decided \subseteq 1 .. born

\* What a forced build returns is the choice the runs yielded at some moment
\* between the request and the answer, never an older one (main.py 831-837
\* forces the build because "is it stale?" is decided on whole seconds).
ForcedBuildIsCurrent ==
  \A b \in Builders :
    BuilderAt(b, "done") /\ builder[b].force => builder[b].read.serial \in builder[b].may

\* A stored profile whose source has been deleted is stale, although a slow
\* builder may store it after the track was deleted and ingested again: the new
\* runs never get the ids of the old (track_profiles.py 18-19).
BrokenProvenanceIsStale ==
  profile.serial # 0 /\ (\A s \in Present : run[s].serial # profile.serial) => Stale(profile)

\* Every label is on a run that was decided at some time, although label and
\* check are two statements (main.py 755-757).
LabelledRunWasDecided == labels \subseteq decided

-----------------------------------------------------------------------------
(* The inductive invariant. *)

RunRows == [id : Nat, serial : Nat, status : {"none", "running", "completed", "failed"},
            output : Outputs \cup {NoOutput}, started : Nat, finished : Nat]

ProfileRows == [source : Nat \cup {-1}, serial : Nat,
                grid : [beats : SUBSET Nat, duration : Nat], builtAt : Nat]

BuilderRows == [pc : BuilderState, force : BOOLEAN, read : ProfileRows, row : ProfileRows,
                may : SUBSET Nat]

\* What every variable is a function or a record of.
ProfilesShape ==
  /\ run \in [Slots -> RunRows]
  /\ profile \in ProfileRows
  /\ builder \in [Builders -> BuilderRows]
  /\ \A s \in Slots : run[s].status = "running" => run[s].started > 0

\* AUTOINCREMENT makes an id say which run it is: none is given out twice.
IdsAreSerials ==
  /\ \A s \in Slots : /\ run[s].id = run[s].serial /\ run[s].id \in 0 .. born
                      /\ run[s].id = 0 <=> run[s].status = "none"
  /\ labeller \in 0 .. born

\* A run that is over has been decided, and one that is to be labelled.
OverWasDecided ==
  /\ \A s \in Slots : run[s].status \in {"completed", "failed"} => run[s].serial \in decided
  /\ labeller # 0 => labeller \in decided

\* The source of a profile, and whether its grid is one.
SoundProfile(p) ==
  /\ p.serial # 0 => p.source = p.serial /\ p.serial \in 1 .. born
  /\ GridCoversBeats(p.grid)

ProfilesSound ==
  /\ SoundProfile(profile)
  /\ \A b \in Builders : SoundProfile(builder[b].read)

\* A builder has seen what the runs yield now, and a forced one goes by that.
ReadingsAllowed ==
  \A b \in Builders :
    /\ ~BuilderAt(b, "idle") => SelectBeatGrid(run).serial \in builder[b].may
    /\ builder[b].force => builder[b].pc \in {"reading", "stamping", "storing", "done"}
    /\ builder[b].force /\ builder[b].pc \in {"stamping", "storing", "done"} =>
         builder[b].read.serial \in builder[b].may

ProfilesInv ==
  /\ ProfilesTypeOK
  /\ ProfilesShape
  /\ IdsAreSerials
  /\ OverWasDecided
  /\ ProfilesSound
  /\ ReadingsAllowed
  /\ LabelledRunWasDecided
=============================================================================
