---------------------------- MODULE DbMigration ----------------------------
(***************************************************************************)
(* The bootstrap of the database (get_conn, _bootstrap, _migrate_in_place, *)
(* store/db.py), run by the backend before it serves its first request, on *)
(* a database file that any earlier version may have left.  The connection *)
(* has isolation_level=None and executescript opens no transaction, so     *)
(* every statement commits by itself and the process may die between two.  *)
(*                                                                         *)
(* Of a table only what the migration looks at is kept: whether it is there*)
(* and of which shape, and the rows of candidates.  Plain indexes, which   *)
(* hold nothing, are left out.  Before version 6 there were no renders, so *)
(* what DROP TABLE would cascade to is empty.                              *)
(***************************************************************************)
EXTENDS Integers, FiniteSets

CONSTANTS
  RowIds,    \* ids of candidates
  Edges,     \* (project_id, from_track, to_track)
  LiveEdges, \* those whose project and tracks are in their tables
  Cues,      \* (from_cue_bar, to_cue_bar), none of them NULL
  NullCue,   \* (from_cue_bar, to_cue_bar) with a NULL, which equals nothing
  Scores,    \* $.score of scores_json, -1 if there is none
  CrashAt,   \* the statements before which the process may die
  MaxCrashes \* bound on crashes

ASSUME MigrationAssumption ==
  /\ RowIds \subseteq Nat
  /\ LiveEdges \subseteq Edges
  /\ NullCue \notin Cues
  /\ Scores \subseteq Int
  /\ MaxCrashes \in Nat

VARIABLES
  disk,    \* the database file
  stage,   \* the statement the process executes next
  legacy,  \* history: the rows of candidates in the file that was found
  crashes  \* how many crashes there have been

dbVars == <<disk, stage, legacy, crashes>>

-----------------------------------------------------------------------------
SCHEMA_VERSION == 7

Stages == {"down", "schema", "columns", "rebuild", "create", "copy", "drop", "rename",
           "dedupe", "index", "version", "serving", "refused"}

Candidate == [id : RowIds, edge : Edges, cue : Cues \cup {NullCue}, score : Scores]

\* Shapes: "none" if the table is missing, "old" if it lacks what a later
\* version added (a column; ON DELETE CASCADE of the track keys), else "new".
Shape == {"none", "old", "new"}

\* spare is candidates_new; unique is idx_candidates_stable_natural_key.
Database == [version : 0 .. SCHEMA_VERSION, runs : Shape, tracks : Shape,
             candidates : Shape, rows : SUBSET Candidate,
             spare : BOOLEAN, spareRows : SUBSET Candidate, unique : BOOLEAN]

NewDatabase == [version |-> 0, runs |-> "none", tracks |-> "none", candidates |-> "none",
                rows |-> {}, spare |-> FALSE, spareRows |-> {}, unique |-> FALSE]

\* The comparison of five columns by =, which no NULL satisfies.
SameKey(r, s) == r.edge = s.edge /\ r.cue = s.cue /\ r.cue # NullCue

UniqueKeys(rows) == \A r, s \in rows : SameKey(r, s) => r = s

PrimaryKey(rows) == \A r, s \in rows : r.id = s.id => r = s

\* A file that version v of the backend has left: genre came with version 4,
\* the cascades with 6, the unique key with 7.  (The comment on claim_token
\* names no version.)
LeftBy(v, rows) ==
  [version |-> v, runs |-> IF v < 3 THEN "old" ELSE "new",
   tracks |-> IF v < 4 THEN "old" ELSE "new", candidates |-> IF v < 6 THEN "old" ELSE "new",
   rows |-> rows, spare |-> FALSE, spareRows |-> {}, unique |-> v = 7]

\* Orphaned edges can only be left by a connection that did not switch the
\* foreign keys on, which the rebuild's JOINs provide for.
Legacy ==
  {NewDatabase} \cup
  {LeftBy(v, rows) : v \in 1 .. 7, rows \in {R \in SUBSET Candidate : PrimaryKey(R)}}

WellFormed(d) == d.unique => UniqueKeys(d.rows)

-----------------------------------------------------------------------------
At(s) == stage = s

Go(s) == stage' = s /\ UNCHANGED <<legacy, crashes>>

\* Uvicorn starts the backend; lifespan calls get_conn.
Boot ==
  /\ stage \in {"down", "refused"}
  /\ Go("schema")
  /\ UNCHANGED disk

\* SCHEMA_SQL: CREATE TABLE IF NOT EXISTS, for one table after the other.
CreateMissing ==
  LET made(shape) == IF shape = "none" THEN "new" ELSE shape IN
  /\ At("schema")
  /\ disk' = [disk EXCEPT !.runs = made(@), !.tracks = made(@), !.candidates = made(@)]
  /\ Go("columns")

\* ALTER TABLE ... ADD COLUMN claim_token, genre, where they are missing.
AddColumns ==
  /\ At("columns")
  /\ disk' = [disk EXCEPT !.runs = "new", !.tracks = "new"]
  /\ Go("rebuild")

\* Mutant: only a database whose version says so is rebuilt.
CheckCascadeByVersion ==
  /\ At("rebuild")
  /\ IF disk.version \in 1 .. 4 THEN Go("create") ELSE Go("dedupe")
  /\ UNCHANGED disk

\* _candidates_need_track_cascade
CheckCascade ==
  /\ At("rebuild")
  /\ IF disk.candidates = "old" THEN Go("create") ELSE Go("dedupe")
  /\ UNCHANGED disk

\* CREATE TABLE candidates_new, without IF NOT EXISTS.
CreateNew ==
  /\ At("create")
  /\ ~disk.spare
  /\ disk' = [disk EXCEPT !.spare = TRUE]
  /\ Go("copy")

\* The table is there already: OperationalError, get_conn raises, no startup.
CreateRefused ==
  /\ At("create")
  /\ disk.spare
  /\ Go("refused")
  /\ UNCHANGED disk

\* INSERT INTO candidates_new ... SELECT ... JOIN projects, tracks, tracks.
CopyRows ==
  /\ At("copy")
  /\ disk' = [disk EXCEPT !.spareRows = {r \in disk.rows : r.edge \in LiveEdges}]
  /\ Go("drop")

\* DROP TABLE candidates, and its indexes with it.
DropOld ==
  /\ At("drop")
  /\ disk' = [disk EXCEPT !.candidates = "none", !.rows = {}, !.unique = FALSE]
  /\ Go("rename")

\* ALTER TABLE candidates_new RENAME TO candidates
RenameNew ==
  /\ At("rename")
  /\ disk' = [disk EXCEPT !.candidates = "new", !.rows = disk.spareRows,
                          !.spare = FALSE, !.spareRows = {}]
  /\ Go("dedupe")

\* The row that ORDER BY score DESC, id DESC LIMIT 1 keeps of a natural key.
Kept(r, rows) ==
  \A s \in rows : SameKey(r, s) =>
    \/ s.score < r.score
    \/ s.score = r.score /\ s.id <= r.id

\* Mutant: the newest is kept, whatever its score.
DedupeNewest ==
  /\ At("dedupe")
  /\ IF UniqueKeys(disk.rows)
       THEN Go("index") /\ UNCHANGED disk
       ELSE /\ \E r \in disk.rows :
                 /\ \A s \in disk.rows : SameKey(r, s) => s.id <= r.id
                 /\ \E s \in disk.rows : s # r /\ SameKey(r, s)
                 /\ disk' = [disk EXCEPT !.rows = {s \in @ : SameKey(r, s) => s = r}]
            /\ Go("dedupe")

\* _dedupe_candidate_natural_keys, one key of the GROUP BY after the other.
Dedupe ==
  /\ At("dedupe")
  /\ IF UniqueKeys(disk.rows)
       THEN Go("index") /\ UNCHANGED disk
       ELSE /\ \E r \in disk.rows :
                 /\ Kept(r, disk.rows)
                 /\ \E s \in disk.rows : s # r /\ SameKey(r, s)
                 /\ disk' = [disk EXCEPT !.rows = {s \in @ : SameKey(r, s) => s = r}]
            /\ Go("dedupe")

\* CREATE UNIQUE INDEX IF NOT EXISTS: NULLs are distinct to it as well.
CreateIndex ==
  /\ At("index")
  /\ UniqueKeys(disk.rows)
  /\ disk' = [disk EXCEPT !.unique = TRUE]
  /\ Go("version")

\* INSERT OR REPLACE INTO schema_meta, and _bootstrap is done.
WriteVersion ==
  /\ At("version")
  /\ disk' = [disk EXCEPT !.version = SCHEMA_VERSION]
  /\ Go("serving")

\* The process ends, while serving or in the middle.
CrashDb ==
  /\ stage \in CrashAt
  /\ crashes < MaxCrashes /\ crashes' = crashes + 1
  /\ stage' = "down"
  /\ UNCHANGED <<disk, legacy>>

-----------------------------------------------------------------------------
DbInit ==
  /\ disk \in {d \in Legacy : WellFormed(d)}
  /\ legacy = disk.rows
  /\ stage = "down"
  /\ crashes = 0

DbNext ==
  \/ Boot \/ CreateMissing \/ AddColumns \/ CheckCascade
  \/ CreateNew \/ CreateRefused \/ CopyRows \/ DropOld \/ RenameNew
  \/ Dedupe \/ CreateIndex \/ WriteVersion \/ CrashDb

DbSpec == DbInit /\ [][DbNext]_dbVars

-----------------------------------------------------------------------------
(* Properties. *)

\* The file, and the stage of the bootstrap, are what the code can leave.
DbTypeOK ==
  /\ disk \in Database
  /\ stage \in Stages
  /\ legacy \subseteq Candidate
  /\ crashes \in 0 .. MaxCrashes

\* A backend that serves has every table in its present shape, as the version
\* it reports says, wherever earlier starts were interrupted.
ServesPresentShape ==
  At("serving") =>
    /\ disk.version = SCHEMA_VERSION
    /\ {disk.runs, disk.tracks, disk.candidates} = {"new"}
    /\ disk.unique /\ UniqueKeys(disk.rows)

\* The migration loses no candidate with both its ends and its project: it is
\* there with its id, unless a better scored or a later one of the same natural
\* key is; of each such key one row is left, and nothing is invented.  Only a
\* table that had to be rebuilt loses rows without their ends.
CandidatesKept ==
  At("serving") =>
    /\ disk.rows \subseteq legacy
    /\ \A r \in legacy : r.edge \in LiveEdges /\ Kept(r, legacy) => r \in disk.rows
    /\ \A r \in disk.rows : Kept(r, legacy)

\* A start is never refused for what an interrupted one has left (db.py 247:
\* the migration is "idempotent").  The code does not keep this: see the README.
RestartNeverRefused == stage # "refused"

-----------------------------------------------------------------------------
(* The inductive invariant. *)

\* From the first statement on no table is missing, but between DROP and RENAME.
TablesPresent ==
  /\ stage \notin {"down", "refused", "schema"} =>
       disk.runs # "none" /\ disk.tracks # "none" /\ (~At("rename") => disk.candidates # "none")
  /\ stage \notin {"down", "refused", "schema", "columns"} =>
       disk.runs = "new" /\ disk.tracks = "new"
  /\ stage \in {"dedupe", "index", "version", "serving"} => disk.candidates = "new"

\* The rows of candidates, or of the table that is about to be.
Survivors == IF At("rename") THEN disk.spareRows ELSE disk.rows

\* The unique index is right wherever it is, and there when the version is written.
IndexTells ==
  /\ WellFormed(disk)
  /\ At("rename") => ~disk.unique
  /\ At("index") => UniqueKeys(disk.rows)
  /\ stage \in {"version", "serving"} => disk.unique
  /\ At("serving") => disk.version = SCHEMA_VERSION

\* DbTypeOK, and what the shape of the tables rests on.
ShapeInv == DbTypeOK /\ TablesPresent /\ IndexTells

\* s is not preferred to r.
NotBefore(r, s) == s.score < r.score \/ (s.score = r.score /\ s.id <= r.id)

\* What the copy has made, while nothing has been dropped.
CopyMade == At("drop") => disk.spareRows = {r \in disk.rows : r.edge \in LiveEdges}

\* A row that was found gives way only to one of its key that is as good, and
\* where one row of a key has survived there is such a one for all of that key.
BestSurvive ==
  /\ PrimaryKey(legacy)
  /\ Survivors \subseteq legacy
  /\ \A r \in legacy : r.edge \in LiveEdges /\ Kept(r, legacy) => r \in Survivors
  /\ \A r \in Survivors, s \in legacy :
       SameKey(r, s) => \E k \in Survivors : SameKey(r, k) /\ NotBefore(k, s)

RowsInv == ShapeInv /\ CopyMade /\ BestSurvive
=============================================================================
