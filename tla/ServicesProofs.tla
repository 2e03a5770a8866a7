--------------------------- MODULE ServicesProofs ---------------------------
(***************************************************************************)
(* The migration of the database, the profiles and labels of a track and   *)
(* the pages of the frontend: for any files, builders, slots, analyzers'   *)
(* outputs, refreshes and bounds.  Last, that the services run side by side*)
(* keep what each of them keeps alone.                                     *)
(***************************************************************************)
EXTENDS MCServices, JobQueueProofs, PeaksCacheProofs, RenderTimingProofs, TLAPS

-----------------------------------------------------------------------------
(* The migration: the shape of the tables. *)

\* A legacy file is a database file.
LEMMA LegacyType ==
  ASSUME NEW d \in Legacy
  PROVE  /\ d \in Database /\ PrimaryKey(d.rows)
  <1>1. CASE d = NewDatabase
    BY <1>1 DEF NewDatabase, Database, Shape, SCHEMA_VERSION, PrimaryKey
  <1>2. CASE d # NewDatabase
    <2>1. PICK v \in 1 .. 7, rows \in {R \in SUBSET Candidate : PrimaryKey(R)} : d = LeftBy(v, rows)
      BY <1>2 DEF Legacy
    <2>2. rows \in SUBSET Candidate /\ PrimaryKey(rows)
      OBVIOUS
    <2>3. v \in 0 .. 7
      OBVIOUS
    <2>4. d \in Database
      BY <2>1, <2>2, <2>3 DEF LeftBy, Database, Shape, SCHEMA_VERSION
    <2>5. QED BY <2>1, <2>2, <2>4 DEF LeftBy
  <1>3. QED BY <1>1, <1>2

LEMMA ShapeInit == DbInit => ShapeInv
  <1> SUFFICES ASSUME DbInit PROVE ShapeInv
    OBVIOUS
  <1>1. disk \in Legacy /\ WellFormed(disk) /\ legacy = disk.rows /\ stage = "down"
        /\ crashes = 0
    BY DEF DbInit
  <1>2. disk \in Database
    BY <1>1, LegacyType
  <1>3. DbTypeOK
    BY <1>1, <1>2, MigrationAssumption DEF DbTypeOK, Database, Stages
  <1>4. QED BY <1>1, <1>3 DEF ShapeInv, TablesPresent, IndexTells, At

LEMMA ShapeNext == ShapeInv /\ [DbNext]_dbVars => ShapeInv'
  <1> SUFFICES ASSUME ShapeInv, [DbNext]_dbVars PROVE ShapeInv'
    OBVIOUS
  <1> USE DEF ShapeInv, DbTypeOK, TablesPresent, IndexTells, WellFormed, At, Go
  <1>0. /\ disk \in [version : 0 .. SCHEMA_VERSION, runs : Shape, tracks : Shape,
             candidates : Shape, rows : SUBSET Candidate,
             spare : BOOLEAN, spareRows : SUBSET Candidate, unique : BOOLEAN]
        /\ \A s \in Shape : s \in {"none", "old", "new"}
    BY DEF Database, Shape
  <1>1. CASE Boot
    BY <1>1 DEF Boot, Stages
  <1>2. CASE CreateMissing
    <2> DEFINE made(shape) == IF shape = "none" THEN "new" ELSE shape
    <2>1.
          /\ disk' = [disk EXCEPT !.runs = made(@), !.tracks = made(@), !.candidates = made(@)]
          /\ stage = "schema" /\ stage' = "columns" /\ UNCHANGED <<legacy, crashes>>
      BY <1>2 DEF CreateMissing
    <2>2. \A s \in Shape : made(s) \in Shape /\ made(s) # "none"
      BY DEF Shape
    <2> HIDE DEF made
    <2>3. disk' \in Database
      BY <1>0, <2>1, <2>2 DEF Database
    <2>4. /\ disk'.runs # "none" /\ disk'.tracks # "none" /\ disk'.candidates # "none"
          /\ disk'.unique = disk.unique /\ disk'.rows = disk.rows
      BY <1>0, <2>1, <2>2
    <2>5. QED BY <2>1, <2>3, <2>4 DEF Stages
  <1>3. CASE AddColumns
    <2>1. disk' \in Database /\ disk'.runs = "new" /\ disk'.tracks = "new"
          /\ disk'.candidates = disk.candidates /\ disk'.unique = disk.unique
          /\ disk'.rows = disk.rows
      BY <1>0, <1>3 DEF AddColumns, Database, Shape
    <2>2. QED BY <1>3, <2>1 DEF AddColumns, Stages
  <1>4. CASE CheckCascade
    BY <1>0, <1>4 DEF CheckCascade, Stages
  <1>5. CASE CreateNew
    <2>1. disk' \in Database /\ disk'.runs = disk.runs /\ disk'.tracks = disk.tracks
          /\ disk'.candidates = disk.candidates /\ disk'.unique = disk.unique
          /\ disk'.rows = disk.rows
      BY <1>0, <1>5 DEF CreateNew, Database, Shape
    <2>2. QED BY <1>5, <2>1 DEF CreateNew, Stages
  <1>6. CASE CreateRefused
    BY <1>6 DEF CreateRefused, Stages
  <1>7. CASE CopyRows
    <2>1. disk' \in Database /\ disk'.runs = disk.runs /\ disk'.tracks = disk.tracks
          /\ disk'.candidates = disk.candidates /\ disk'.unique = disk.unique
          /\ disk'.rows = disk.rows
      BY <1>0, <1>7 DEF CopyRows, Database, Shape
    <2>2. QED BY <1>7, <2>1 DEF CopyRows, Stages
  <1>8. CASE DropOld
    <2>1. disk' \in Database /\ disk'.runs = disk.runs /\ disk'.tracks = disk.tracks
          /\ ~disk'.unique
      BY <1>0, <1>8 DEF DropOld, Database, Shape
    <2>2. QED BY <1>8, <2>1 DEF DropOld, Stages
  <1>9. CASE RenameNew
    <2>1. disk' \in Database /\ disk'.runs = disk.runs /\ disk'.tracks = disk.tracks
          /\ disk'.candidates = "new" /\ ~disk'.unique
      BY <1>0, <1>9 DEF RenameNew, Database, Shape
    <2>2. QED BY <1>9, <2>1 DEF RenameNew, Stages
  <1>10. CASE Dedupe
    <2>1. CASE UniqueKeys(disk.rows)
      BY <1>10, <2>1 DEF Dedupe, Stages
    <2>2. CASE ~UniqueKeys(disk.rows)
      <3>1. PICK r \in disk.rows : disk' = [disk EXCEPT !.rows = {s \in @ : SameKey(r, s) => s = r}]
        BY <1>10, <2>2 DEF Dedupe
      <3>2. disk' \in Database /\ disk'.runs = disk.runs /\ disk'.tracks = disk.tracks
            /\ disk'.candidates = disk.candidates /\ disk'.unique = disk.unique
        BY <1>0, <3>1 DEF Database
      <3>3. QED BY <1>10, <2>2, <3>2 DEF Dedupe, Stages
    <2>3. QED BY <2>1, <2>2
  <1>11. CASE CreateIndex
    <2>1. disk' \in Database /\ disk'.runs = disk.runs /\ disk'.tracks = disk.tracks
          /\ disk'.candidates = disk.candidates /\ disk'.unique /\ disk'.rows = disk.rows
      BY <1>0, <1>11 DEF CreateIndex, Database, Shape
    <2>2. QED BY <1>11, <2>1 DEF CreateIndex, Stages
  <1>12. CASE WriteVersion
    <2>1. disk' \in Database /\ disk'.runs = disk.runs /\ disk'.tracks = disk.tracks
          /\ disk'.candidates = disk.candidates /\ disk'.unique = disk.unique
          /\ disk'.rows = disk.rows
          /\ disk'.version = SCHEMA_VERSION
      BY <1>0, <1>12 DEF WriteVersion, Database, Shape, SCHEMA_VERSION
    <2>2. QED BY <1>12, <2>1 DEF WriteVersion, Stages
  <1>13. CASE CrashDb
    BY <1>13, MigrationAssumption DEF CrashDb, Stages
  <1>14. CASE UNCHANGED dbVars
    BY <1>14 DEF dbVars
  <1>15. QED
    BY <1>1, <1>2, <1>3, <1>4, <1>5, <1>6, <1>7, <1>8, <1>9, <1>10, <1>11, <1>12, <1>13, <1>14
    DEF DbNext

LEMMA ShapeInvariance == DbSpec => []ShapeInv
  BY ShapeInit, ShapeNext, PTL DEF DbSpec

\* Wherever the bootstrap is interrupted, a backend that serves has every table in its
\* present shape and the unique key on it, as the version in the file says.
THEOREM ServesPresentShapeHolds == DbSpec => []ServesPresentShape
  <1>1. ShapeInv => ServesPresentShape
    BY DEF ShapeInv, TablesPresent, IndexTells, WellFormed, ServesPresentShape, At
  <1>2. QED BY <1>1, ShapeInvariance, PTL
-----------------------------------------------------------------------------
(* The rows: what the migration keeps of a table that is not lost. *)

\* To be at least as good is transitive, and both ways only between rows of one id.
LEMMA Preference ==
  ASSUME NEW r \in Candidate, NEW s \in Candidate, NEW k \in Candidate
  PROVE  /\ NotBefore(r, r)
         /\ NotBefore(r, s) /\ NotBefore(s, k) => NotBefore(r, k)
         /\ NotBefore(r, s) /\ NotBefore(s, r) => r.id = s.id
  <1>1. /\ r.score \in Int /\ s.score \in Int /\ k.score \in Int
        /\ r.id \in Int /\ s.id \in Int /\ k.id \in Int
    <2>1. ASSUME NEW c \in Candidate PROVE c.score \in Scores /\ c.id \in RowIds
      BY DEF Candidate
    <2>2. Scores \subseteq Int /\ RowIds \subseteq Int
      BY MigrationAssumption
    <2>3. QED BY <2>1, <2>2
  <1>2. QED BY <1>1 DEF NotBefore

\* To have one natural key is symmetric and transitive.
LEMMA SameKeys ==
  ASSUME NEW r, NEW s, NEW k
  PROVE  /\ SameKey(r, s) => SameKey(s, r) /\ SameKey(r, r)
         /\ SameKey(r, s) /\ SameKey(s, k) => SameKey(r, k)
  BY DEF SameKey

\* A step that leaves the survivors, and what the copy has made, keeps them kept.
LEMMA RowsKept ==
  ASSUME RowsInv, legacy' = legacy, Survivors' = Survivors
  PROVE  BestSurvive'
  BY DEF RowsInv, BestSurvive, PrimaryKey

\* The copy loses the rows without their ends, and with a row all of its key.
LEMMA LiveSurvive ==
  ASSUME RowsInv, legacy' = legacy,
         Survivors' = {r \in Survivors : r.edge \in LiveEdges}
  PROVE  BestSurvive'
  <1>1. Survivors' \subseteq legacy /\ PrimaryKey(legacy)'
    BY DEF RowsInv, BestSurvive, PrimaryKey
  <1>2. \A r \in legacy' : r.edge \in LiveEdges /\ Kept(r, legacy') => r \in Survivors'
    BY DEF RowsInv, BestSurvive
  <1>3. ASSUME NEW r \in Survivors', NEW s \in legacy', SameKey(r, s)
        PROVE  \E k \in Survivors' : SameKey(r, k) /\ NotBefore(k, s)
    <2>1. PICK k \in Survivors : SameKey(r, k) /\ NotBefore(k, s)
      BY <1>3 DEF RowsInv, BestSurvive
    <2>2. k.edge = r.edge
      BY <2>1 DEF SameKey
    <2>3. QED BY <2>1, <2>2
  <1>4. QED BY <1>1, <1>2, <1>3 DEF BestSurvive

\* Of each key the best survives.
LEMMA DedupeSurvive ==
  ASSUME RowsInv, legacy' = legacy, At("dedupe"), ~At("rename")',
         NEW best \in disk.rows, Kept(best, disk.rows),
         disk'.rows = {s \in disk.rows : SameKey(best, s) => s = best}
  PROVE  BestSurvive'
  <1>1. Survivors = disk.rows /\ Survivors' = {s \in disk.rows : SameKey(best, s) =>
          s = best}
    BY DEF Survivors, At
  <1>2. /\ Survivors' \subseteq legacy /\ PrimaryKey(legacy)' /\ PrimaryKey(legacy)
        /\ disk.rows \subseteq legacy /\ legacy \subseteq Candidate
    BY <1>1 DEF RowsInv, BestSurvive, PrimaryKey, ShapeInv, DbTypeOK
  <1>3. ASSUME NEW r \in legacy, r.edge \in LiveEdges, Kept(r, legacy)
        PROVE  r \in Survivors'
    <2>1. r \in disk.rows
      BY <1>1, <1>3 DEF RowsInv, BestSurvive
    <2>2. CASE ~SameKey(best, r)
      BY <1>1, <2>1, <2>2
    <2>3. CASE SameKey(best, r)
      <3>1. NotBefore(best, r)
        BY <2>1, <2>3 DEF Kept, NotBefore
      <3>2. NotBefore(r, best)
        BY <1>2, <1>3, <2>3, SameKeys DEF Kept, NotBefore
      <3>3. r = best
        BY <1>2, <3>1, <3>2, Preference DEF PrimaryKey
      <3>4. QED BY <1>1, <2>1, <3>3
    <2>4. QED BY <2>2, <2>3
  <1>4. ASSUME NEW r \in Survivors', NEW s \in legacy, SameKey(r, s)
        PROVE  \E k \in Survivors' : SameKey(r, k) /\ NotBefore(k, s)
    <2>1. PICK k \in disk.rows : SameKey(r, k) /\ NotBefore(k, s)
      BY <1>1, <1>4 DEF RowsInv, BestSurvive
    <2>2. CASE SameKey(best, k)
      <3>1. NotBefore(best, k)
        BY <2>2 DEF Kept, NotBefore
      <3>2. NotBefore(best, s)
        BY <1>2, <2>1, <3>1, Preference
      <3>3. SameKey(r, best)
        BY <2>1, <2>2, SameKeys
      <3>4. best \in Survivors'
        BY <1>1
      <3>5. QED BY <3>2, <3>3, <3>4
    <2>3. CASE ~SameKey(best, k)
      BY <1>1, <2>1, <2>3
    <2>4. QED BY <2>2, <2>3
  <1>5. QED BY <1>2, <1>3, <1>4 DEF BestSurvive

LEMMA RowsInit == DbInit => RowsInv
  <1> SUFFICES ASSUME DbInit PROVE RowsInv
    OBVIOUS
  <1>1. ShapeInv
    BY ShapeInit
  <1>2. disk \in Legacy /\ legacy = disk.rows /\ stage = "down"
    BY DEF DbInit
  <1>3. PrimaryKey(legacy) /\ Survivors = legacy /\ CopyMade
    BY <1>2, LegacyType DEF Survivors, CopyMade, At
  <1>4. legacy \subseteq Candidate
    BY <1>1 DEF ShapeInv, DbTypeOK
  <1>5. \A r \in legacy, s \in legacy :
          SameKey(r, s) => SameKey(r, s) /\ NotBefore(s, s)
    BY <1>4, Preference
  <1>6. QED BY <1>1, <1>3, <1>5 DEF RowsInv, BestSurvive

LEMMA RowsNext ==
  ASSUME "rename" \notin CrashAt, RowsInv, [DbNext]_dbVars
  PROVE  RowsInv'
  <1> USE DEF At, Go
  <1>1. ShapeInv' /\ ShapeInv /\ disk \in Database
    BY ShapeNext DEF RowsInv, ShapeInv, DbTypeOK
  <1>2. disk \in [version : 0 .. SCHEMA_VERSION, runs : Shape, tracks : Shape,
             candidates : Shape, rows : SUBSET Candidate,
             spare : BOOLEAN, spareRows : SUBSET Candidate, unique : BOOLEAN]
    BY <1>1 DEF Database
  <1>3. CASE Boot \/ CreateMissing \/ AddColumns \/ CheckCascade \/ CreateNew \/ CreateRefused
             \/ CreateIndex \/ WriteVersion \/ CrashDb
    <2>1. /\ disk'.rows = disk.rows /\ disk'.spareRows = disk.spareRows /\ legacy' = legacy
          /\ stage # "rename" /\ stage' \notin {"rename", "drop"}
      BY <1>2, <1>3, "rename" \notin CrashAt
      DEF Boot, CreateMissing, AddColumns, CheckCascade, CreateNew, CreateRefused,
          CreateIndex, WriteVersion, CrashDb
    <2>2. Survivors' = Survivors
      BY <2>1 DEF Survivors
    <2>3. QED BY <1>1, <2>1, <2>2, RowsKept DEF RowsInv, CopyMade
  <1>4. CASE CopyRows
    <2>1. /\ disk'.rows = disk.rows /\ legacy' = legacy /\ stage = "copy" /\ stage' = "drop"
          /\ disk'.spareRows = {r \in disk.rows : r.edge \in LiveEdges}
      BY <1>2, <1>4 DEF CopyRows
    <2>2. Survivors' = Survivors /\ CopyMade'
      BY <2>1 DEF Survivors, CopyMade
    <2>3. QED BY <1>1, <2>1, <2>2, RowsKept DEF RowsInv
  <1>5. CASE DropOld
    <2>1. /\ disk'.spareRows = disk.spareRows /\ legacy' = legacy
          /\ stage = "drop" /\ stage' = "rename"
      BY <1>2, <1>5 DEF DropOld
    <2>2. Survivors' = {r \in Survivors : r.edge \in LiveEdges}
      BY <2>1 DEF Survivors, CopyMade, RowsInv
    <2>3. BestSurvive'
      BY <2>1, <2>2, LiveSurvive
    <2>4. QED BY <1>1, <2>1, <2>3 DEF RowsInv, CopyMade
  <1>6. CASE RenameNew
    <2>1. /\ disk'.rows = disk.spareRows /\ legacy' = legacy
          /\ stage = "rename" /\ stage' = "dedupe"
      BY <1>2, <1>6 DEF RenameNew
    <2>2. Survivors' = Survivors
      BY <2>1 DEF Survivors
    <2>3. QED BY <1>1, <2>1, <2>2, RowsKept DEF RowsInv, CopyMade
  <1>7. CASE Dedupe
    <2>1. legacy' = legacy /\ stage = "dedupe" /\ stage' \in {"dedupe", "index"}
      BY <1>7 DEF Dedupe
    <2>2. CASE UniqueKeys(disk.rows)
      <3>1. Survivors' = Survivors
        BY <1>7, <2>1, <2>2 DEF Dedupe, Survivors
      <3>2. QED BY <1>1, <2>1, <3>1, RowsKept DEF RowsInv, CopyMade
    <2>3. CASE ~UniqueKeys(disk.rows)
      <3>1. PICK r \in disk.rows :
              /\ Kept(r, disk.rows)
              /\ disk' = [disk EXCEPT !.rows = {s \in @ : SameKey(r, s) => s = r}]
        BY <1>7, <2>3 DEF Dedupe
      <3>2. disk'.rows = {s \in disk.rows : SameKey(r, s) => s = r}
        BY <1>2, <3>1
      <3>3. BestSurvive'
        BY <2>1, <3>1, <3>2, DedupeSurvive
      <3>4. QED BY <1>1, <2>1, <3>3 DEF RowsInv, CopyMade
    <2>4. QED BY <2>2, <2>3
  <1>8. CASE UNCHANGED dbVars
    <2>1. Survivors' = Survivors /\ legacy' = legacy /\ CopyMade'
      BY <1>8 DEF dbVars, Survivors, CopyMade, RowsInv
    <2>2. QED BY <1>1, <2>1, RowsKept DEF RowsInv
  <1>9. QED BY <1>3, <1>4, <1>5, <1>6, <1>7, <1>8 DEF DbNext

\* Unless the process dies between DROP TABLE and RENAME, where the table is lost, a
\* backend that serves has of each natural key the best row and no other, and every
\* row of a live edge that is the best of its key or has none: whatever file is found
\* and wherever else, and however often, the bootstrap is interrupted.
THEOREM CandidatesKeptHolds ==
  ASSUME "rename" \notin CrashAt
  PROVE  DbSpec => []CandidatesKept
  <1>1. RowsInv /\ [DbNext]_dbVars => RowsInv'
    BY RowsNext
  <1>2. RowsInv => CandidatesKept
    <2> SUFFICES ASSUME RowsInv, At("serving") PROVE CandidatesKept
      BY DEF CandidatesKept
    <2>1. Survivors = disk.rows /\ UniqueKeys(disk.rows)
      BY DEF Survivors, RowsInv, ShapeInv, IndexTells, WellFormed, At
    <2>2. /\ disk.rows \subseteq legacy
          /\ \A r \in legacy : r.edge \in LiveEdges /\ Kept(r, legacy) => r \in disk.rows
      BY <2>1 DEF RowsInv, BestSurvive
    <2>3. ASSUME NEW r \in disk.rows, NEW s \in legacy, SameKey(r, s) PROVE NotBefore(r, s)
      <3>1. PICK k \in disk.rows : SameKey(r, k) /\ NotBefore(k, s)
        BY <2>1, <2>3 DEF RowsInv, BestSurvive
      <3>2. k = r
        BY <2>1, <3>1 DEF UniqueKeys
      <3>3. QED BY <3>1, <3>2
    <2>4. \A r \in disk.rows : Kept(r, legacy)
      BY <2>3 DEF Kept, NotBefore
    <2>5. QED BY <2>2, <2>4 DEF CandidatesKept
  <1>3. QED BY <1>1, <1>2, RowsInit, PTL DEF DbSpec

-----------------------------------------------------------------------------
(* The migration: restarts. *)

\* candidates_new outlives a bootstrap only where candidates needs no rebuild.
SpareInWork ==
  /\ ShapeInv
  /\ disk.spare => stage \in {"copy", "drop"} \/ disk.candidates # "old"
  /\ At("create") => disk.candidates = "old"
  /\ At("rename") => disk.candidates = "none"
  /\ ~At("refused")

LEMMA SpareInit == DbInit => SpareInWork
  <1> SUFFICES ASSUME DbInit PROVE SpareInWork
    OBVIOUS
  <1>1. ShapeInv /\ stage = "down" /\ disk \in Legacy
    BY ShapeInit DEF DbInit
  <1>2. disk.spare = FALSE
    BY <1>1 DEF Legacy, LeftBy, NewDatabase
  <1>3. QED BY <1>1, <1>2 DEF SpareInWork, At

LEMMA SpareNext ==
  ASSUME CrashAt \cap {"copy", "drop"} = {}, SpareInWork, [DbNext]_dbVars
  PROVE  SpareInWork'
  <1> USE DEF SpareInWork, At, Go
  <1>0. ShapeInv'
    BY ShapeNext
  <1>1. disk \in [version : 0 .. SCHEMA_VERSION, runs : Shape, tracks : Shape,
             candidates : Shape, rows : SUBSET Candidate,
             spare : BOOLEAN, spareRows : SUBSET Candidate, unique : BOOLEAN]
    BY DEF ShapeInv, DbTypeOK, Database
  <1>2. CASE Boot \/ CheckCascade \/ CreateRefused
    BY <1>0, <1>2 DEF Boot, CheckCascade, CreateRefused
  <1>3. CASE CreateMissing
    <2>1. /\ disk'.spare = disk.spare
          /\ disk.candidates # "old" => disk'.candidates # "old"
      BY <1>1, <1>3 DEF CreateMissing
    <2>2. QED BY <1>0, <1>3, <2>1 DEF CreateMissing
  <1>4. CASE AddColumns \/ CreateIndex \/ WriteVersion
    <2>1. disk'.spare = disk.spare /\ disk'.candidates = disk.candidates
      BY <1>1, <1>4 DEF AddColumns, CreateIndex, WriteVersion
    <2>2. QED BY <1>0, <1>4, <2>1 DEF AddColumns, CreateIndex, WriteVersion
  <1>5. CASE CreateNew \/ CopyRows
    BY <1>0, <1>5 DEF CreateNew, CopyRows
  <1>6. CASE DropOld \/ RenameNew
    <2>1. disk'.candidates # "old" /\ (DropOld => disk'.candidates = "none")
      BY <1>1, <1>6 DEF DropOld, RenameNew
    <2>2. QED BY <1>0, <1>6, <2>1 DEF DropOld, RenameNew
  <1>7. CASE Dedupe
    <2>1. disk'.spare = disk.spare /\ disk'.candidates = disk.candidates
      BY <1>1, <1>7 DEF Dedupe
    <2>2. QED BY <1>0, <1>7, <2>1 DEF Dedupe
  <1>8. CASE CrashDb
    BY <1>0, <1>8 DEF CrashDb
  <1>9. CASE UNCHANGED dbVars
    BY <1>0, <1>9 DEF dbVars
  <1>10. QED
    BY <1>2, <1>3, <1>4, <1>5, <1>6, <1>7, <1>8, <1>9 DEF DbNext

\* A start is refused only after a death between CREATE TABLE candidates_new and
\* DROP TABLE candidates: with the old table still there the rebuild begins again,
\* and meets its own leftovers.  A death at any other statement is recovered from.
THEOREM RestartNeverRefusedElsewhere ==
  ASSUME CrashAt \cap {"copy", "drop"} = {}
  PROVE  DbSpec => []RestartNeverRefused
  <1>1. SpareInWork /\ [DbNext]_dbVars => SpareInWork'
    BY SpareNext
  <1>2. SpareInWork => RestartNeverRefused
    BY DEF SpareInWork, RestartNeverRefused, At
  <1>3. QED BY <1>1, <1>2, SpareInit, PTL DEF DbSpec

-----------------------------------------------------------------------------
(* The profile of a track and the labels of its runs. *)

\* A grid is none, or has two moments within its duration, whatever was reported.
LEMMA GridSound ==
  ASSUME NEW output \in Outputs \cup {NoOutput}
  PROVE  Grid(output) \in [beats : SUBSET Nat, duration : Nat]
  /\ GridCoversBeats(Grid(output))
  <1> DEFINE beats == {t \in output.beats : t >= 0}
             reported == output.duration
             duration == IF beats = {} THEN 0 ELSE Duration(reported, beats)
             twoMoments == \E t, u \in beats : t # u
  <1>1. /\ output.beats \subseteq Int /\ reported \in Int \cup {Missing}
        /\ output.beats # {} => \E last \in output.beats : \A t \in output.beats : t <= last
    BY OutputsAssumption DEF NoOutput
  <1>2. beats \in SUBSET Nat
    BY <1>1
  <1>3. ASSUME beats # {}
        PROVE  LastOf(beats) \in beats /\ \A t \in beats : t <= LastOf(beats)
    <2>1. PICK last \in output.beats : \A t \in output.beats : t <= last
      BY <1>1, <1>3
    <2>2. last \in beats /\ \A t \in beats : t <= last
      BY <1>1, <1>3, <2>1
    <2>3. QED BY <2>2 DEF LastOf
  <1>4. ASSUME beats # {}, duration > 0
        PROVE  duration \in Nat /\ beats \subseteq 0 .. duration
    <2>1. LastOf(beats) \in Nat /\ \A t \in beats : t \in Nat /\ t <= LastOf(beats)
      BY <1>2, <1>3, <1>4
    <2>2. duration = Duration(reported, beats)
      BY <1>4
    <2> HIDE DEF beats, duration
    <2>3. CASE reported = Missing
      <3>1. duration = LastOf(beats)
        BY <2>2, <2>3 DEF Duration
      <3>2. QED BY <2>1, <3>1
    <2>4. CASE reported # Missing /\ reported > 0 /\ reported >= LastOf(beats)
      <3>1. duration = reported
        BY <2>2, <2>4 DEF Duration
      <3>2. reported \in Int
        BY <1>1, <2>4
      <3>3. QED BY <2>1, <2>4, <3>1, <3>2
    <2>5. CASE reported # Missing /\ ~(reported > 0 /\ reported >= LastOf(beats))
      <3>1. duration = 0
        BY <2>2, <2>5 DEF Duration
      <3>2. QED BY <1>4, <3>1
    <2>6. QED BY <2>3, <2>4, <2>5
  <1>5. Grid(output) = IF output.tempo /\ twoMoments /\ duration > 0
                         THEN [beats |-> beats, duration |-> duration]
                         ELSE NoGrid
    BY DEF Grid
  <1>6. CASE output.tempo /\ twoMoments /\ duration > 0
    <2>1. Grid(output) = [beats |-> beats, duration |-> duration]
      BY <1>5, <1>6
    <2>2. beats # {}
      BY <1>6
    <2>3. duration \in Nat /\ beats \subseteq 0 .. duration
      BY <1>4, <1>6, <2>2
    <2>4. \E t, u \in beats : t < u
      BY <1>2, <1>6
    <2> HIDE DEF beats, duration
    <2>5. QED BY <1>2, <2>1, <2>3, <2>4 DEF GridCoversBeats
  <1>7. CASE ~(output.tempo /\ twoMoments /\ duration > 0)
    BY <1>5, <1>7 DEF GridCoversBeats, NoGrid
  <1>8. QED BY <1>6, <1>7

\* The source is a row of a slot, or there is none.
LEMMA SourceIsRow ==
  ASSUME NEW rows \in [Slots -> RunRows]
  PROVE  SelectBeatGrid(rows) = NoRun \/ \E s \in Slots : SelectBeatGrid(rows) = rows[s]
  <1> DEFINE priority == BEAT_GRID_SOURCE_PRIORITY
             usable(i) == {s \in NewestCompleted(rows) :
                             s[1] = priority[i] /\ Grid(rows[s].output) # NoGrid}
             ranks == {i \in DOMAIN priority : usable(i) # {}}
             chosen(s) == \E i \in ranks : s \in usable(i) /\ \A j \in ranks : i <= j
  <1>1. SelectBeatGrid(rows) = IF ranks = {} THEN NoRun ELSE rows[CHOOSE s \in Slots : chosen(s)]
    BY DEF SelectBeatGrid
  <1>2. DOMAIN priority = 1 .. 3
    BY DEF BEAT_GRID_SOURCE_PRIORITY
  <1>3. \A i : usable(i) \subseteq Slots
    BY DEF NewestCompleted
  <1> HIDE DEF priority, usable
  <1>4. ASSUME ranks # {} PROVE \E s \in Slots : chosen(s)
    <2>1. ranks \subseteq 1 .. 3
      BY <1>2
    <2>2. \E i \in ranks : \A j \in ranks : i <= j
      <3>1. CASE 1 \in ranks
        BY <2>1, <3>1
      <3>2. CASE 1 \notin ranks /\ 2 \in ranks
        BY <2>1, <3>2
      <3>3. CASE 1 \notin ranks /\ 2 \notin ranks
        BY <1>4, <2>1, <3>3
      <3>4. QED BY <3>1, <3>2, <3>3
    <2>3. PICK i \in ranks : \A j \in ranks : i <= j
      BY <2>2
    <2>4. PICK s \in usable(i) : TRUE
      OBVIOUS
    <2>5. s \in Slots /\ chosen(s)
      BY <1>3, <2>3, <2>4
    <2>6. QED BY <2>5
  <1> HIDE DEF ranks, chosen
  <1>5. QED BY <1>1, <1>4

LEMMA ProfileTypes ==
  ASSUME ProfilesInv
  PROVE  /\ run \in [Slots -> RunRows] /\ profile \in ProfileRows
         /\ builder \in [Builders -> BuilderRows]
         /\ now \in Nat /\ now > 0 /\ born \in Nat /\ born <= MaxRuns
         /\ MaxRuns \in Nat /\ MaxClaims \in Nat /\ MaxDeletes \in Nat
         /\ MaxNow \in Nat \ {0}
  BY ProfilesAssumption DEF ProfilesInv, ProfilesShape, ProfilesTypeOK

LEMMA RowTypes ==
  /\ NoRun \in RunRows /\ NoRun.id = 0 /\ NoRun.serial = 0 /\ NoRun.status = "none"
  /\ NoRun.output = NoOutput /\ NoRun.finished = 0 /\ NoRun.started = 0
  /\ NoProfileRow \in ProfileRows /\ NoProfileRow.serial = 0 /\ NoProfileRow.grid = NoGrid
  /\ NoProfileRow.source = -1
  /\ NotBuilding \in BuilderRows /\ NotBuilding.pc = "idle" /\ NotBuilding.force = FALSE
  /\ NotBuilding.read = NoProfileRow
  /\ GridCoversBeats(NoGrid)
  BY DEF NoRun, RunRow, RunRows, NoProfileRow, ProfileRows, NoGrid, NotBuilding, BuilderRows,
         BuilderState, GridCoversBeats

\* The source the runs yield is known by its id, and its grid is one.
LEMMA Selected ==
  ASSUME NEW rows \in [Slots -> RunRows], NEW n \in Nat,
         \A s \in Slots : rows[s].id = rows[s].serial /\ rows[s].id \in 0 .. n
  PROVE  /\ SelectBeatGrid(rows).serial = SelectBeatGrid(rows).id
         /\ SelectBeatGrid(rows).id \in 0 .. n
         /\ SelectBeatGrid(rows).output \in Outputs \cup {NoOutput}
  <1>1. CASE SelectBeatGrid(rows) = NoRun
    BY <1>1, RowTypes
  <1>2. ASSUME NEW s \in Slots, SelectBeatGrid(rows) = rows[s]
        PROVE  /\ SelectBeatGrid(rows).serial = SelectBeatGrid(rows).id
               /\ SelectBeatGrid(rows).id \in 0 .. n
               /\ SelectBeatGrid(rows).output \in Outputs \cup {NoOutput}
    BY <1>2 DEF RunRows
  <1>3. QED BY <1>1, <1>2, SourceIsRow

LEMMA ProfilesInvInit == ProfilesInit => ProfilesInv
  <1> SUFFICES ASSUME ProfilesInit PROVE ProfilesInv
    OBVIOUS
  <1>1. /\ now = 1 /\ track = TRUE /\ run = [s \in Slots |-> NoRun]
        /\ born = 0 /\ claims = 0 /\ deletes = 0 /\ profile = NoProfileRow
        /\ builder = [b \in Builders |-> NotBuilding]
        /\ labeller = 0 /\ labels = {} /\ decided = {}
    BY DEF ProfilesInit
  <1>2. ProfilesShape
    BY <1>1, RowTypes DEF ProfilesShape
  <1>3. IdsAreSerials /\ OverWasDecided /\ LabelledRunWasDecided
    BY <1>1, RowTypes DEF IdsAreSerials, OverWasDecided, LabelledRunWasDecided
  <1>4. ProfilesSound /\ ReadingsAllowed
    BY <1>1, RowTypes DEF ProfilesSound, SoundProfile, ReadingsAllowed, BuilderAt
  <1>5. ProfilesTypeOK
    <2>1. /\ now \in 1 .. MaxNow /\ born \in 0 .. MaxRuns
          /\ claims \in 0 .. MaxClaims /\ deletes \in 0 .. MaxDeletes
      BY <1>1, ProfilesAssumption
    <2>2. \A s \in Slots : run[s] = NoRun
      BY <1>1
    <2>3. \A b \in Builders : builder[b].pc \in BuilderState /\ builder[b].force \in BOOLEAN
      BY <1>1, RowTypes DEF BuilderState
    <2>4. Readiness(profile) \in {"missing", "blocked", "partial"}
          /\ GridCoversBeats(profile.grid)
      BY <1>1, RowTypes DEF Readiness
    <2>5. QED BY <1>1, <2>1, <2>2, <2>3, <2>4, RowTypes DEF ProfilesTypeOK
  <1>6. QED BY <1>2, <1>3, <1>4, <1>5 DEF ProfilesInv

-----------------------------------------------------------------------------
\* What a change of the runs leaves of the builders' readings.
LEMMA ObserveKeeps ==
  ASSUME ProfilesInv, Observe, run' \in [Slots -> RunRows], born' \in Nat, born <= born',
         IdsAreSerials', profile' = profile \/ profile' = NoProfileRow
  PROVE  /\ builder' \in [Builders -> BuilderRows]
         /\ \A b \in Builders : builder'[b].pc = builder[b].pc
            /\ builder'[b].force = builder[b].force
         /\ profile' \in ProfileRows /\ ProfilesSound' /\ ReadingsAllowed'
  <1> DEFINE yielded == SelectBeatGrid(run').serial
  <1>1. yielded \in Nat
    <2>1. \A s \in Slots : run'[s].id = run'[s].serial /\ run'[s].id \in 0 .. born'
      BY DEF IdsAreSerials
    <2>2. \A rows \in [Slots -> RunRows], n \in Nat :
            (\A s \in Slots : rows[s].id = rows[s].serial /\ rows[s].id \in 0 .. n) =>
              SelectBeatGrid(rows).serial = SelectBeatGrid(rows).id
              /\ SelectBeatGrid(rows).id \in 0 .. n
      BY Selected
    <2>3. SelectBeatGrid(run').serial \in 0 .. born'
      BY <2>1, <2>2
    <2>4. QED BY <2>3
  <1>2. builder' = [b \in Builders |->
          IF BuilderAt(b, "idle") THEN builder[b] ELSE [builder[b] EXCEPT !.may = @ \cup {yielded}]]
    BY DEF Observe
  <1> HIDE DEF yielded
  <1>3. ASSUME NEW b \in Builders
        PROVE  /\ builder'[b] \in BuilderRows
               /\ builder'[b].pc = builder[b].pc /\ builder'[b].force = builder[b].force
               /\ builder'[b].read = builder[b].read
               /\ builder[b].may \subseteq builder'[b].may
               /\ builder[b].pc # "idle" => yielded \in builder'[b].may
    <2>1. builder[b] \in [pc : BuilderState, force : BOOLEAN, read : ProfileRows, row : ProfileRows,
                          may : SUBSET Nat]
      BY ProfileTypes DEF BuilderRows
    <2>2. CASE builder[b].pc = "idle"
      BY <1>2, <2>1, <2>2 DEF BuilderAt, BuilderRows
    <2>3. CASE builder[b].pc # "idle"
      <3>1. builder'[b] = [builder[b] EXCEPT !.may = @ \cup {yielded}]
        BY <1>2, <2>3 DEF BuilderAt
      <3>2. QED BY <1>1, <2>1, <3>1 DEF BuilderRows
    <2>4. QED BY <2>2, <2>3
  <1>4. builder' \in [Builders -> BuilderRows]
    BY <1>2, <1>3
  <1>5. profile' \in ProfileRows /\ ProfilesSound'
    <2>1. 1 .. born \subseteq 1 .. born'
      BY ProfileTypes
    <2>2. SoundProfile(profile)'
      BY <2>1, RowTypes, ProfileTypes DEF ProfilesInv, ProfilesSound, SoundProfile
    <2>3. \A b \in Builders : SoundProfile(builder[b].read)'
      BY <1>3, <2>1 DEF ProfilesInv, ProfilesSound, SoundProfile
    <2>4. QED BY <2>2, <2>3, RowTypes, ProfileTypes DEF ProfilesSound
  <1>6. ReadingsAllowed'
    BY <1>3 DEF ProfilesInv, ReadingsAllowed, BuilderAt, yielded
  <1>7. QED BY <1>3, <1>4, <1>5, <1>6

LEMMA DeleteTrackInv == ASSUME ProfilesInv, DeleteTrack PROVE ProfilesInv'
  <1>1. /\ track' = FALSE /\ deletes' \in 0 .. MaxDeletes
        /\ run' = [s \in Slots |-> NoRun] /\ profile' = NoProfileRow /\ labels' = {}
        /\ Observe
        /\ UNCHANGED <<now, born, claims, labeller, decided>>
    BY ProfileTypes DEF DeleteTrack, ProfilesInv, ProfilesTypeOK
  <1>2. run' \in [Slots -> RunRows] /\ IdsAreSerials' /\ born' \in Nat /\ born <= born'
    BY <1>1, RowTypes, ProfileTypes DEF ProfilesInv, IdsAreSerials
  <1>3. /\ builder' \in [Builders -> BuilderRows]
        /\ \A b \in Builders : builder'[b].pc = builder[b].pc
           /\ builder'[b].force = builder[b].force
        /\ profile' \in ProfileRows /\ ProfilesSound' /\ ReadingsAllowed'
    BY <1>1, <1>2, ObserveKeeps
  <1>4. ProfilesShape' /\ OverWasDecided' /\ LabelledRunWasDecided'
    BY <1>1, <1>2, <1>3, RowTypes
    DEF ProfilesInv, ProfilesShape, OverWasDecided, LabelledRunWasDecided
  <1>5. ProfilesTypeOK'
    BY <1>1, <1>3, RowTypes DEF ProfilesInv, ProfilesTypeOK, Present, Readiness
  <1>6. QED BY <1>2, <1>3, <1>4, <1>5 DEF ProfilesInv

\* What one row of a run may become, and what that means to everything else.
LEMMA RunChanges ==
  ASSUME ProfilesInv, NEW s \in Slots, NEW r \in RunRows, Observe,
         run' = [run EXCEPT ![s] = r],
         born' \in 0 .. MaxRuns, born <= born', r.id = r.serial, r.id \in 0 .. born',
         r.id = 0 <=> r.status = "none",
         r.status = "none" => r = NoRun,
         r.status = "running" => r.started > 0,
         r.finished # 0 <=> r.status \in {"completed", "failed"},
         r.status \in {"completed", "failed"} => r.serial \in decided',
         decided \subseteq decided', decided' \subseteq 1 .. born',
         labels' \subseteq labels,
         claims' \in 0 .. MaxClaims, deletes' \in 0 .. MaxDeletes,
         r # NoRun => track,
         UNCHANGED <<now, track, profile, labeller>>
  PROVE  ProfilesInv'
  <1>1. /\ run' \in [Slots -> RunRows] /\ run'[s] = r
        /\ \A o \in Slots : o # s => run'[o] = run[o]
    BY ProfileTypes
  <1>2. 0 .. born \subseteq 0 .. born' /\ 1 .. born \subseteq 1 .. born' /\ born' \in Nat
    BY ProfileTypes
  <1>3. IdsAreSerials'
    BY <1>1, <1>2 DEF ProfilesInv, IdsAreSerials
  <1>4. /\ builder' \in [Builders -> BuilderRows]
        /\ \A b \in Builders : builder'[b].pc = builder[b].pc
           /\ builder'[b].force = builder[b].force
        /\ profile' \in ProfileRows /\ ProfilesSound' /\ ReadingsAllowed'
    BY <1>1, <1>2, <1>3, ObserveKeeps
  <1>5. ProfilesShape'
    BY <1>1, <1>4 DEF ProfilesInv, ProfilesShape
  <1>6. OverWasDecided' /\ LabelledRunWasDecided'
    BY <1>1 DEF ProfilesInv, OverWasDecided, LabelledRunWasDecided
  <1>7. ProfilesTypeOK'
    <2>1. \A o \in Slots :
       /\ run'[o].status \in {"none", "running", "completed", "failed"}
       /\ run'[o].output \in Outputs \cup {NoOutput}
       /\ run'[o].status = "none" <=> run'[o] = NoRun
       /\ run'[o].finished # 0 <=> run'[o].status \in {"completed", "failed"}
      <3>1. /\ r.status \in {"none", "running", "completed", "failed"}
            /\ r.output \in Outputs \cup {NoOutput}
            /\ r.status = "none" <=> r = NoRun
        BY RowTypes DEF RunRows
      <3>2. QED BY <1>1, <3>1 DEF ProfilesInv, ProfilesTypeOK
    <2>2. ~track' => profile' = NoProfileRow /\ Present' = {}
      BY <1>1, RowTypes DEF ProfilesInv, ProfilesTypeOK, Present
    <2>3. labels' \cup decided' \subseteq 1 .. born'
      BY <1>2 DEF ProfilesInv, ProfilesTypeOK
    <2>4. Readiness(profile') \in {"missing", "blocked", "partial"}
          /\ GridCoversBeats(profile'.grid)
      BY DEF ProfilesInv, ProfilesTypeOK
    <2>5. now' \in 1 .. MaxNow /\ track' \in BOOLEAN
      BY DEF ProfilesInv, ProfilesTypeOK
    <2>6. \A b \in Builders : builder'[b].pc \in BuilderState
          /\ builder'[b].force \in BOOLEAN
      BY <1>4 DEF ProfilesInv, ProfilesTypeOK
    <2>7. QED BY <2>1, <2>2, <2>3, <2>4, <2>5, <2>6 DEF ProfilesTypeOK
  <1>8. QED BY <1>3, <1>4, <1>5, <1>6, <1>7 DEF ProfilesInv

LEMMA DeleteRunInv == ASSUME ProfilesInv, NEW s \in Slots, DeleteRun(s) PROVE ProfilesInv'
  <1>1. /\ run' = [run EXCEPT ![s] = NoRun] /\ deletes' \in 0 .. MaxDeletes
        /\ labels' \subseteq labels /\ Observe
        /\ UNCHANGED <<now, track, born, claims, profile, labeller, decided>>
    BY ProfileTypes DEF DeleteRun, ProfilesInv, ProfilesTypeOK
  <1>2. /\ born' \in 0 .. MaxRuns /\ born <= born' /\ 0 \in 0 .. born'
        /\ decided' \subseteq 1 .. born' /\ claims' \in 0 .. MaxClaims
    BY <1>1, ProfileTypes DEF ProfilesInv, ProfilesTypeOK
  <1>3. QED BY <1>1, <1>2, RowTypes, RunChanges

LEMMA ClaimRunInv == ASSUME ProfilesInv, NEW s \in Slots, ClaimRun(s) PROVE ProfilesInv'
  <1>1. PICK at \in {now - 1, now} \ {0} :
          IF s \in Present
            THEN /\ run' = [run EXCEPT ![s] =
                              RunRow(@.id, @.serial, "running", NoOutput, at, 0)]
                 /\ UNCHANGED born
            ELSE /\ born < MaxRuns /\ born' = born + 1
                 /\ run' = [run EXCEPT ![s] =
                              RunRow(NextRunId, born + 1, "running", NoOutput, at, 0)]
    BY DEF ClaimRun
  <1>2. at \in Nat /\ at > 0
    BY <1>1, ProfileTypes
  <1> DEFINE again == RunRow(run[s].id, run[s].serial, "running", NoOutput, at, 0)
             new == RunRow(born + 1, born + 1, "running", NoOutput, at, 0)
  <1>3. /\ track /\ claims' \in 0 .. MaxClaims /\ Observe
        /\ UNCHANGED <<now, track, deletes, profile, labeller, labels, decided>>
    BY ProfileTypes DEF ClaimRun, ProfilesInv, ProfilesTypeOK
  <1>4. /\ deletes' \in 0 .. MaxDeletes /\ labels' \subseteq labels
        /\ decided \subseteq decided' /\ decided \subseteq 1 .. born
    BY <1>3 DEF ProfilesInv, ProfilesTypeOK
  <1>5. run[s].id \in Nat /\ run[s].id = run[s].serial /\ run[s].id \in 0 .. born
    BY ProfileTypes DEF ProfilesInv, IdsAreSerials
  <1>6. CASE s \in Present
    <2>1. run' = [run EXCEPT ![s] = again] /\ born' = born
      BY <1>1, <1>6, ProfileTypes
    <2>2. /\ again \in RunRows /\ again.id = run[s].id /\ again.serial = run[s].id
          /\ again.status = "running" /\ again.started > 0 /\ again.finished = 0
      BY <1>5, <1>2, ProfileTypes DEF RunRow, RunRows
    <2> HIDE DEF again
    <2>3. again.id # 0 /\ again # NoRun
      BY <1>6, <2>2, RowTypes DEF Present
    <2>4. /\ born' \in 0 .. MaxRuns /\ born <= born' /\ decided' \subseteq 1 .. born'
          /\ again.id \in 0 .. born'
      BY <1>3, <1>4, <1>5, <2>1, <2>2, ProfileTypes
    <2>5. QED BY <1>3, <1>4, <2>1, <2>2, <2>3, <2>4, ProfileTypes, RunChanges
  <1>7. CASE s \notin Present
    <2>1. run' = [run EXCEPT ![s] = new] /\ born' = born + 1 /\ born < MaxRuns
      BY <1>1, <1>7, ProfileTypes DEF NextRunId
    <2>2. /\ new \in RunRows /\ new.id = born + 1 /\ new.serial = born + 1
          /\ new.status = "running" /\ new.started > 0 /\ new.finished = 0
      BY <1>2, ProfileTypes DEF RunRow, RunRows
    <2> HIDE DEF new
    <2>3. new.id # 0 /\ new # NoRun
      BY <2>2, RowTypes, ProfileTypes
    <2>4. /\ born' \in 0 .. MaxRuns /\ born <= born' /\ decided' \subseteq 1 .. born'
          /\ new.id \in 0 .. born'
      BY <1>3, <1>4, <2>1, <2>2, ProfileTypes
    <2>5. QED BY <1>3, <1>4, <2>1, <2>2, <2>3, <2>4, ProfileTypes, RunChanges
  <1>8. QED BY <1>6, <1>7

LEMMA DecideRunInv ==
  ASSUME ProfilesInv, NEW s \in Slots, NEW status \in {"completed", "failed"},
         NEW output \in Outputs \cup {NoOutput}, DecideRun(s, status, output)
  PROVE  ProfilesInv'
  <1>1. PICK at \in {now - 1, now} :
          /\ at >= run[s].started
          /\ run' = [run EXCEPT ![s].status = status, ![s].finished = at,
                       ![s].output = IF status = "completed" THEN output ELSE NoOutput]
    BY DEF DecideRun
  <1>2. /\ run[s].status = "running" /\ decided' = decided \cup {run[s].serial} /\ Observe
        /\ UNCHANGED <<now, track, born, claims, deletes, profile, labeller, labels>>
    BY DEF DecideRun
  <1>3.
        /\ run[s] \in [id : Nat, serial : Nat, status : {"none", "running", "completed", "failed"},
                       output : Outputs \cup {NoOutput}, started : Nat, finished : Nat]
        /\ run[s].id = run[s].serial /\ run[s].id \in 0 .. born /\ run[s].id # 0
        /\ run[s].started > 0
    BY <1>2, ProfileTypes DEF ProfilesInv, IdsAreSerials, ProfilesShape, RunRows
  <1>4. at \in Nat /\ at > 0
    BY <1>1, <1>3, ProfileTypes
  <1> DEFINE r == [run[s] EXCEPT !.status = status, !.finished = at,
                     !.output = IF status = "completed" THEN output ELSE NoOutput]
  <1>5. /\ r \in RunRows /\ r.id = run[s].id /\ r.serial = run[s].serial
        /\ r.status = status /\ r.finished = at
    BY <1>3, <1>4 DEF RunRows
  <1>6. run' = [run EXCEPT ![s] = r]
    BY <1>1, ProfileTypes
  <1> HIDE DEF r
  <1>7. track /\ r # NoRun
    BY <1>3, <1>5, RowTypes DEF ProfilesInv, ProfilesTypeOK, Present
  <1>8. /\ born' \in 0 .. MaxRuns /\ born <= born' /\ decided' \subseteq 1 .. born'
        /\ claims' \in 0 .. MaxClaims /\ deletes' \in 0 .. MaxDeletes
        /\ labels' \subseteq labels
    BY <1>2, <1>3, ProfileTypes DEF ProfilesInv, ProfilesTypeOK
  <1>9. /\ r.id = r.serial /\ r.id \in 0 .. born' /\ r.id # 0
        /\ r.status # "none" /\ r.status # "running" /\ r.finished # 0
        /\ r.serial \in decided' /\ decided \subseteq decided'
    BY <1>2, <1>3, <1>4, <1>5
  <1>10. QED BY <1>2, <1>5, <1>6, <1>7, <1>8, <1>9, RunChanges

-----------------------------------------------------------------------------
\* A step of a builder, and what its record must be.
LEMMA BuilderChanges ==
  ASSUME ProfilesInv, BuilderSteps, NEW b \in Builders, NEW r \in BuilderRows,
         builder' = [builder EXCEPT ![b] = r],
         SoundProfile(r.read),
         r.pc # "idle" => SelectBeatGrid(run).serial \in r.may,
         r.force => r.pc \in {"reading", "stamping", "storing", "done"},
         r.force /\ r.pc \in {"stamping", "storing", "done"} => r.read.serial \in r.may,
         profile' = profile \/ (track /\ profile' = builder[b].read)
  PROVE  ProfilesInv'
  <1>1. UNCHANGED <<now, track, run, born, claims, deletes, labeller, labels, decided>>
    BY DEF BuilderSteps
  <1>2. /\ builder' \in [Builders -> BuilderRows] /\ builder'[b] = r
        /\ \A o \in Builders : o # b => builder'[o] = builder[o]
    BY ProfileTypes
  <1>3. /\ profile' \in ProfileRows /\ SoundProfile(profile)'
        /\ ~track' => profile' = NoProfileRow
    BY <1>1, ProfileTypes
    DEF ProfilesInv, ProfilesSound, SoundProfile, ProfilesTypeOK, BuilderRows
  <1>4. ProfilesSound'
    BY <1>1, <1>2, <1>3 DEF ProfilesInv, ProfilesSound, SoundProfile
  <1>5. ReadingsAllowed'
    BY <1>1, <1>2 DEF ProfilesInv, ReadingsAllowed, BuilderAt
  <1>6. ProfilesShape' /\ IdsAreSerials' /\ OverWasDecided' /\ LabelledRunWasDecided'
    BY <1>1, <1>2, <1>3
    DEF ProfilesInv, ProfilesShape, IdsAreSerials, OverWasDecided, LabelledRunWasDecided
  <1>7. ProfilesTypeOK'
    <2>1. Readiness(profile') \in {"missing", "blocked", "partial"}
          /\ GridCoversBeats(profile'.grid)
      BY <1>3 DEF Readiness, SoundProfile
    <2>2. \A o \in Builders : builder'[o].pc \in BuilderState
          /\ builder'[o].force \in BOOLEAN
      BY <1>2 DEF BuilderRows
    <2>3. QED BY <1>1, <1>3, <2>1, <2>2 DEF ProfilesInv, ProfilesTypeOK, Present
  <1>8. QED BY <1>4, <1>5, <1>6, <1>7 DEF ProfilesInv

\* What the runs yield is a sound profile to be.
LEMMA ReadingSound ==
  ASSUME ProfilesInv, NEW at \in Nat
  PROVE  /\ ProfileRow(SelectBeatGrid(run), at) \in ProfileRows
         /\ SoundProfile(ProfileRow(SelectBeatGrid(run), at))
         /\ ProfileRow(SelectBeatGrid(run), at).serial = SelectBeatGrid(run).serial
         /\ SelectBeatGrid(run).serial \in Nat
  <1> DEFINE source == SelectBeatGrid(run)
  <1>1. /\ source.serial = source.id /\ source.id \in 0 .. born
        /\ source.output \in Outputs \cup {NoOutput}
    BY Selected, ProfileTypes DEF ProfilesInv, IdsAreSerials
  <1> HIDE DEF source
  <1>2. Grid(source.output) \in [beats : SUBSET Nat, duration : Nat]
        /\ GridCoversBeats(Grid(source.output))
    BY <1>1, GridSound
  <1>3. /\ ProfileRow(source, at) \in ProfileRows
        /\ ProfileRow(source, at).serial = source.serial
        /\ ProfileRow(source, at).source = source.id
        /\ ProfileRow(source, at).grid = Grid(source.output)
    BY <1>1, <1>2, ProfileTypes DEF ProfileRow, ProfileRows
  <1>4. SoundProfile(ProfileRow(source, at)) /\ source.serial \in Nat
    BY <1>1, <1>2, <1>3, ProfileTypes DEF SoundProfile
  <1>5. QED BY <1>3, <1>4 DEF source

LEMMA BuilderStepInv ==
  ASSUME ProfilesInv, NEW b \in Builders,
         \/ \E force \in BOOLEAN : AskProfile(b, force)
         \/ ReadExisting(b) \/ ReadRow(b) \/ CheckSources(b) \/ CheckFinished(b)
         \/ ReadRuns(b) \/ StampProfile(b)
         \/ StoreProfile(b) \/ StoreRefused(b) \/ ReturnProfile(b)
  PROVE  ProfilesInv'
  <1> DEFINE old == builder[b]
  <1>1.
        /\ old \in [pc : BuilderState, force : BOOLEAN, read : ProfileRows, row : ProfileRows,
                    may : SUBSET Nat]
        /\ SoundProfile(old.read) /\ SoundProfile(profile)
        /\ profile \in ProfileRows /\ SelectBeatGrid(run).serial \in Nat
    BY ProfileTypes, ReadingSound DEF BuilderRows, ProfilesInv, ProfilesSound
  <1>2. /\ old.pc # "idle" => SelectBeatGrid(run).serial \in old.may
        /\ old.force => old.pc \in {"reading", "stamping", "storing", "done"}
        /\ old.force /\ old.pc \in {"stamping", "storing", "done"} =>
             old.read.serial \in old.may
    BY DEF ProfilesInv, ReadingsAllowed, BuilderAt
  <1>3. /\ NotBuilding \in BuilderRows /\ NotBuilding.pc = "idle" /\ ~NotBuilding.force
        /\ SoundProfile(NotBuilding.read)
    BY RowTypes DEF SoundProfile
  <1> DEFINE Step(r) == /\ r \in BuilderRows /\ SoundProfile(r.read)
                        /\ r.pc # "idle" => SelectBeatGrid(run).serial \in r.may
                        /\ r.force => r.pc \in {"reading", "stamping", "storing", "done"}
                        /\ r.force /\ r.pc \in {"stamping", "storing", "done"} =>
                             r.read.serial \in r.may
                        /\ builder' = [builder EXCEPT ![b] = r]
                        /\ BuilderSteps
                        /\ profile' = profile \/ (track /\ profile' = old.read)
  <1>4. ASSUME NEW r, Step(r) PROVE ProfilesInv'
    BY <1>4, BuilderChanges
  <1>5. ASSUME NEW pc \in BuilderState, builder' = [builder EXCEPT ![b].pc = pc],
               pc # "idle", old.pc # "idle", BuilderSteps,
               profile' = profile \/ (track /\ profile' = old.read),
               old.force => pc \in {"reading", "stamping", "storing", "done"},
               old.force /\ pc \in {"stamping", "storing", "done"} =>
                 old.pc \in {"stamping", "storing", "done"}
        PROVE  ProfilesInv'
    <2> DEFINE r == [old EXCEPT !.pc = pc]
    <2>1. /\ r \in BuilderRows /\ r.pc = pc /\ r.force = old.force /\ r.read = old.read
          /\ r.may = old.may
      BY <1>1 DEF BuilderRows
    <2>2. builder' = [builder EXCEPT ![b] = r]
      BY <1>5
    <2> HIDE DEF r
    <2>3. Step(r)
      BY <1>1, <1>2, <1>5, <2>1, <2>2
    <2>4. QED BY <1>4, <2>3
  <1>6. ASSUME NEW force \in BOOLEAN, AskProfile(b, force) PROVE ProfilesInv'
    <2> DEFINE r == [pc |-> IF force THEN "reading" ELSE "existing", force |-> force,
                     read |-> NoProfileRow, row |-> NoProfileRow,
                     may |-> {SelectBeatGrid(run).serial}]
    <2>1. /\ r \in BuilderRows /\ r.pc = (IF force THEN "reading" ELSE "existing")
          /\ r.force = force /\ r.read = NoProfileRow
          /\ r.may = {SelectBeatGrid(run).serial}
      BY <1>1, RowTypes DEF BuilderRows, BuilderState
    <2>2. builder' = [builder EXCEPT ![b] = r] /\ BuilderSteps /\ profile' = profile
      BY <1>6 DEF AskProfile
    <2> HIDE DEF r
    <2>3. SoundProfile(r.read)
      BY <2>1, RowTypes DEF SoundProfile
    <2>4. Step(r)
      BY <2>1, <2>2, <2>3
    <2>5. QED BY <1>4, <2>4
  <1>7. CASE ReadExisting(b)
    <2> DEFINE r == [old EXCEPT !.pc = IF profile = NoProfileRow THEN "reading" ELSE "row",
                                !.read = profile]
    <2>1. /\ r \in BuilderRows /\ r.pc \in {"reading", "row"} /\ r.force = old.force
          /\ r.read = profile /\ r.may = old.may
      BY <1>1 DEF BuilderRows, BuilderState
    <2>2. /\ builder' = [builder EXCEPT ![b] = r] /\ BuilderSteps /\ profile' = profile
          /\ old.pc = "existing"
      BY <1>7 DEF ReadExisting, BuilderAt
    <2> HIDE DEF r
    <2>3. Step(r)
      BY <1>1, <1>2, <2>1, <2>2
    <2>4. QED BY <1>4, <2>3
  <1>8. CASE ReadRow(b)
    <2> DEFINE r == [old EXCEPT !.pc = IF profile = NoProfileRow THEN "reading" ELSE "sources",
                                !.row = profile]
    <2>1. /\ r \in BuilderRows /\ r.pc \in {"reading", "sources"} /\ r.force = old.force
          /\ r.read = old.read /\ r.may = old.may
      BY <1>1 DEF BuilderRows, BuilderState
    <2>2. /\ builder' = [builder EXCEPT ![b] = r] /\ BuilderSteps /\ profile' = profile
          /\ old.pc = "row"
      BY <1>8 DEF ReadRow, BuilderAt
    <2> HIDE DEF r
    <2>3. Step(r)
      BY <1>1, <1>2, <2>1, <2>2
    <2>4. QED BY <1>4, <2>3
  <1>9. CASE CheckSources(b)
    <2>1. PICK pc \in {"reading", "finished"} : builder' = [builder EXCEPT ![b].pc = pc]
      BY <1>9 DEF CheckSources, Move
    <2>2. old.pc = "sources" /\ BuilderSteps /\ profile' = profile
      BY <1>9 DEF CheckSources, BuilderAt
    <2>3. QED BY <1>2, <1>5, <2>1, <2>2 DEF BuilderState
  <1>10. CASE CheckFinished(b)
    <2>1. PICK pc \in {"reading", "done"} : builder' = [builder EXCEPT ![b].pc = pc]
      BY <1>10 DEF CheckFinished, Move
    <2>2. old.pc = "finished" /\ BuilderSteps /\ profile' = profile
      BY <1>10 DEF CheckFinished, BuilderAt
    <2>3. QED BY <1>2, <1>5, <2>1, <2>2 DEF BuilderState
  <1>11. CASE ReadRuns(b)
    <2> DEFINE source == ProfileRow(SelectBeatGrid(run), 0)
               r == [old EXCEPT !.pc = "stamping", !.read = source]
    <2>1. /\ source \in ProfileRows /\ SoundProfile(source)
          /\ source.serial = SelectBeatGrid(run).serial
      BY ReadingSound
    <2> HIDE DEF source
    <2>2. /\ r \in BuilderRows /\ r.pc = "stamping" /\ r.force = old.force
          /\ r.read = source /\ r.may = old.may
      BY <1>1, <2>1 DEF BuilderRows, BuilderState
    <2>3. /\ builder' = [builder EXCEPT ![b] = r] /\ BuilderSteps /\ profile' = profile
          /\ old.pc = "reading"
      BY <1>11 DEF ReadRuns, BuilderAt, source
    <2> HIDE DEF r
    <2>4. Step(r)
      BY <1>1, <1>2, <2>1, <2>2, <2>3
    <2>5. QED BY <1>4, <2>4
  <1>12. CASE StampProfile(b)
    <2> DEFINE r == [old EXCEPT !.pc = "storing", !.read.builtAt = now]
    <2>1. old.read \in [source : Nat \cup {-1}, serial : Nat,
                        grid : [beats : SUBSET Nat, duration : Nat], builtAt : Nat]
      BY <1>1 DEF ProfileRows
    <2>2. /\ r \in BuilderRows /\ r.pc = "storing" /\ r.force = old.force /\ r.may = old.may
          /\ r.read.serial = old.read.serial /\ r.read.source = old.read.source
          /\ r.read.grid = old.read.grid
      BY <1>1, <2>1, ProfileTypes DEF BuilderRows, BuilderState, ProfileRows
    <2>3. /\ builder' = [builder EXCEPT ![b] = r] /\ BuilderSteps /\ profile' = profile
          /\ old.pc = "stamping"
      BY <1>12 DEF StampProfile, BuilderAt
    <2> HIDE DEF r
    <2>4. SoundProfile(r.read)
      BY <1>1, <2>2 DEF SoundProfile
    <2>5. Step(r)
      BY <1>2, <2>2, <2>3, <2>4
    <2>6. QED BY <1>4, <2>5
  <1>13. CASE StoreProfile(b)
    <2>1. /\ builder' = [builder EXCEPT ![b].pc = "done"] /\ old.pc = "storing"
          /\ BuilderSteps /\ track /\ profile' = old.read
      BY <1>13 DEF StoreProfile, Move, BuilderAt
    <2>2. QED BY <1>5, <2>1 DEF BuilderState
  <1>14. CASE StoreRefused(b) \/ ReturnProfile(b)
    <2>1. builder' = [builder EXCEPT ![b] = NotBuilding] /\ BuilderSteps
          /\ profile' = profile
      BY <1>14 DEF StoreRefused, ReturnProfile
    <2>2. Step(NotBuilding)
      BY <1>3, <2>1
    <2>3. QED BY <1>4, <2>2
  <1>15. QED
    BY <1>6, <1>7, <1>8, <1>9, <1>10, <1>11, <1>12, <1>13, <1>14

-----------------------------------------------------------------------------
\* A request to label is for a run that was over when it was asked, and the label
\* goes to the run of that id, which is the same run.
LEMMA LabelInv ==
  ASSUME ProfilesInv,
         \/ \E s \in Slots : AskLabel(s)
         \/ AddLabel
         \/ \E serial \in labels : DeleteLabel(serial)
  PROVE  ProfilesInv'
  <1>1. UNCHANGED <<now, track, run, born, claims, deletes, profile, builder, decided>>
    BY DEF AskLabel, AddLabel, DeleteLabel, LabelSteps
  <1>2. labeller' \in 0 .. born /\ (labeller' # 0 => labeller' \in decided)
    <2>1. ASSUME NEW s \in Slots, AskLabel(s)
          PROVE  labeller' \in 0 .. born /\ labeller' \in decided
      BY <2>1 DEF AskLabel, ProfilesInv, IdsAreSerials, OverWasDecided
    <2>2. CASE AddLabel
      BY <2>2, ProfileTypes DEF AddLabel
    <2>3. CASE \E serial \in labels : DeleteLabel(serial)
      BY <2>3 DEF DeleteLabel, ProfilesInv, IdsAreSerials, OverWasDecided
    <2>4. QED BY <2>1, <2>2, <2>3
  <1>3. labels' \subseteq decided
    <2>1. CASE AddLabel
      <3>1. \A s \in Present : run[s].id = labeller => run[s].serial \in decided
        BY <2>1 DEF AddLabel, ProfilesInv, IdsAreSerials, OverWasDecided, Present
      <3>2. QED BY <2>1, <3>1 DEF AddLabel, ProfilesInv, LabelledRunWasDecided
    <2>2. CASE ~AddLabel
      <3>1. labels' \subseteq labels
        BY <2>2 DEF AskLabel, DeleteLabel
      <3>2. QED BY <3>1 DEF ProfilesInv, LabelledRunWasDecided
    <2>3. QED BY <2>1, <2>2
  <1>4. ProfilesTypeOK'
    BY <1>1, <1>3 DEF ProfilesInv, ProfilesTypeOK, Present
  <1>5. IdsAreSerials' /\ OverWasDecided' /\ LabelledRunWasDecided'
    BY <1>1, <1>2, <1>3 DEF ProfilesInv, IdsAreSerials, OverWasDecided, LabelledRunWasDecided
  <1>6. ProfilesShape' /\ ProfilesSound' /\ ReadingsAllowed'
    BY <1>1
    DEF ProfilesInv, ProfilesShape, ProfilesSound, SoundProfile, ReadingsAllowed, BuilderAt
  <1>7. QED BY <1>4, <1>5, <1>6 DEF ProfilesInv

\* The clock, and a track that comes back, touch nothing that is kept of either.
LEMMA ClockInv ==
  ASSUME ProfilesInv, TickProfiles \/ IngestAgain \/ UNCHANGED profileVars
  PROVE  ProfilesInv'
  <1>1.
        /\ UNCHANGED <<run, born, claims, deletes, profile, builder, labeller, labels, decided>>
        /\ now' \in 1 .. MaxNow /\ track' \in BOOLEAN /\ (~track' => ~track)
    <2>1. now \in 1 .. MaxNow /\ track \in BOOLEAN /\ MaxNow \in Nat
      BY ProfileTypes DEF ProfilesInv, ProfilesTypeOK
    <2>2. CASE TickProfiles
      BY <2>1, <2>2 DEF TickProfiles, requests
    <2>3. CASE IngestAgain
      BY <2>1, <2>3 DEF IngestAgain, requests
    <2>4. CASE UNCHANGED profileVars
      BY <2>1, <2>4 DEF profileVars
    <2>5. QED BY <2>2, <2>3, <2>4
  <1>2. ProfilesTypeOK'
    BY <1>1 DEF ProfilesInv, ProfilesTypeOK, Present
  <1>3. QED
    BY <1>1, <1>2
    DEF ProfilesInv, ProfilesShape, IdsAreSerials, OverWasDecided, LabelledRunWasDecided,
        ProfilesSound, SoundProfile, ReadingsAllowed, BuilderAt

LEMMA ProfilesInvNext == ProfilesInv /\ [ProfilesNext]_profileVars => ProfilesInv'
  <1> SUFFICES ASSUME ProfilesInv, [ProfilesNext]_profileVars PROVE ProfilesInv'
    OBVIOUS
  <1>1. CASE TickProfiles \/ IngestAgain \/ UNCHANGED profileVars
    BY <1>1, ClockInv
  <1>2. CASE DeleteTrack
    BY <1>2, DeleteTrackInv
  <1>3. ASSUME NEW s \in Slots, DeleteRun(s) \/ ClaimRun(s) PROVE ProfilesInv'
    BY <1>3, DeleteRunInv, ClaimRunInv
  <1>4. ASSUME NEW s \in Slots, NEW output \in Outputs, DecideRun(s, "completed", output)
        PROVE  ProfilesInv'
    BY <1>4, DecideRunInv
  <1>5. ASSUME NEW s \in Slots, DecideRun(s, "failed", NoOutput) PROVE ProfilesInv'
    BY <1>5, DecideRunInv
  <1>6. ASSUME NEW b \in Builders,
               \/ \E force \in BOOLEAN : AskProfile(b, force)
               \/ ReadExisting(b) \/ ReadRow(b) \/ CheckSources(b) \/ CheckFinished(b)
               \/ ReadRuns(b) \/ StampProfile(b)
               \/ StoreProfile(b) \/ StoreRefused(b) \/ ReturnProfile(b)
        PROVE  ProfilesInv'
    BY <1>6, BuilderStepInv
  <1>7. CASE \/ \E s \in Slots : AskLabel(s)
             \/ AddLabel
             \/ \E serial \in labels : DeleteLabel(serial)
    BY <1>7, LabelInv
  <1>8. QED BY <1>1, <1>2, <1>3, <1>4, <1>5, <1>6, <1>7 DEF ProfilesNext

LEMMA ProfilesInvariance == ProfilesSpec => []ProfilesInv
  BY ProfilesInvInit, ProfilesInvNext, PTL DEF ProfilesSpec

\* A forced build returns what the runs yielded at some moment after it was asked.
THEOREM ForcedBuildIsCurrentHolds == ProfilesSpec => []ForcedBuildIsCurrent
  <1>1. ProfilesInv => ForcedBuildIsCurrent
    BY DEF ProfilesInv, ReadingsAllowed, ForcedBuildIsCurrent, BuilderAt
  <1>2. QED BY <1>1, ProfilesInvariance, PTL

\* A stored profile whose source is gone is stale, whoever stored it and when: an id
\* that no run has any more is never given to another.
THEOREM BrokenProvenanceIsStaleHolds == ProfilesSpec => []BrokenProvenanceIsStale
  <1>1. ProfilesInv => BrokenProvenanceIsStale
    <2> SUFFICES ASSUME ProfilesInv, profile.serial # 0,
                        \A s \in Present : run[s].serial # profile.serial
                 PROVE  MissingSource(profile)
      BY DEF BrokenProvenanceIsStale, Stale
    <2>1. profile.source = profile.serial /\ profile.source > 0
      BY ProfileTypes DEF ProfilesInv, ProfilesSound, SoundProfile
    <2>2. QED BY <2>1 DEF MissingSource, ProfilesInv, IdsAreSerials, Present
  <1>2. QED BY <1>1, ProfilesInvariance, PTL

\* Every label is on a run that was decided, although the check and the insertion are
\* two statements and the run may be deleted and another made between them.
THEOREM LabelledRunWasDecidedHolds == ProfilesSpec => []LabelledRunWasDecided
  <1>1. ProfilesInv => LabelledRunWasDecided
    BY DEF ProfilesInv
  <1>2. QED BY <1>1, ProfilesInvariance, PTL

-----------------------------------------------------------------------------
(* The pages that poll. *)

LEMMA PageTypes ==
  ASSUME PagesInv
  PROVE  /\ seq \in 0 .. MaxRefreshes /\ server \in 1 .. MaxChanges + 1
         /\ refresh \in [Refreshes -> Refresh]
         /\ shown \in [Asked -> 0 .. server]
         /\ page \in Pages
         /\ graph \in [building : BOOLEAN, base : 0 .. server, project : 0 .. server,
                       put : 0 .. server]
         /\ MaxRefreshes \in Nat \ {0, 1} /\ MaxChanges \in Nat
         /\ \A a \in Asked : shown[a] \in Nat
  BY PagesAssumption DEF PagesInv, PagesTypeOK

\* A refresh as it begins, one that has returned, and a list of them aborted.
LEMMA Beginnings ==
  /\ Over \in Refresh /\ Over.pc = "over" /\ Over.signal = "none" /\ Unused \in Refresh
  /\ \A a \in Asked : Over.got[a] = -1 /\ Unused.got[a] = -1
  /\ Unused.signal = "none" /\ Unused.pc = "unused"
  /\ \A signal \in {"none", "live"} :
       /\ Begun(signal, "asking") \in Refresh
       /\ Begun(signal, "asking").pc = "asking"
       /\ Begun(signal, "asking").signal = signal
       /\ \A a \in Asked : Begun(signal, "asking").got[a] = -1
  BY DEF Over, Unused, Begun, Refresh, Pending

LEMMA Aborted ==
  ASSUME NEW f \in [Refreshes -> Refresh]
  PROVE  /\ Abort(f) \in [Refreshes -> Refresh]
         /\ \A r \in Refreshes : Abort(f)[r].pc = f[r].pc /\ Abort(f)[r].got = f[r].got
         /\ \A r \in Refreshes : f[r].signal = "none" => Abort(f)[r] = f[r]
  BY DEF Abort, Refresh

LEMMA PagesInit0 == PagesInit => PagesInv
  <1> SUFFICES ASSUME PagesInit PROVE PagesInv
    OBVIOUS
  <1>1. /\ page \in Pages /\ graph = Idle
        /\ screen = "before" /\ mounted = TRUE /\ seq = 0
        /\ refresh = [r \in Refreshes |-> Unused]
        /\ shown = [a \in Asked |-> 0]
        /\ server = 1 /\ saving = 0
    BY DEF PagesInit
  <1>2. PagesTypeOK
    BY <1>1, Beginnings, PagesAssumption DEF PagesTypeOK, Idle
  <1>3. MountedOnScreen
    BY <1>1 DEF MountedOnScreen
  <1>4. AnswersOfServer
    BY <1>1, Beginnings DEF AnswersOfServer
  <1>5. NewestIsAhead
    BY <1>1, Beginnings DEF NewestIsAhead
  <1>6. QED
    BY <1>1, <1>2, <1>3, <1>4, <1>5
    DEF PagesInv, OnlyTrackSaves, OnlyProjectsBuilt, Idle

\* What the newest refresh brings is not older than what is shown.
LEMMA PatchForward ==
  ASSUME PagesInv, NEW r \in Refreshes, r = seq,
         \A a \in Asked : refresh[r].got[a] # Pending
  PROVE  /\ Patched(r) \in [Asked -> 0 .. server]
         /\ \A a \in Asked : Library \/ a = "rows" =>
              \/ Patched(r)[a] = 0 \/ shown[a] <= Patched(r)[a]
              \/ a = "rows" /\ shown[a] = graph.put
         /\ \A a \in Asked : refresh[r].got[a] # Failed \/ a = "status" =>
              Patched(r)[a] = refresh[r].got[a]
  <1>1. \A a \in Asked : refresh[r].got[a] \in 0 .. server /\ shown[a] \in 0 .. server
    BY PageTypes DEF PagesInv, AnswersOfServer, Pending
  <1>2. \A a \in Asked : Patched(r)[a] = IF refresh[r].got[a] # Failed \/ a = "status"
                                       THEN refresh[r].got[a] ELSE shown[a]
    BY DEF Patched
  <1>3. Patched(r) \in [Asked -> 0 .. server]
    BY <1>1 DEF Patched
  <1>4. ASSUME NEW a \in Asked, Library \/ a = "rows"
        PROVE  \/ Patched(r)[a] = 0 \/ shown[a] <= Patched(r)[a]
               \/ a = "rows" /\ shown[a] = graph.put
    <2>1. CASE refresh[r].got[a] > 0
      BY <1>1, <1>2, <1>4, <2>1 DEF PagesInv, NewestIsAhead, Failed
    <2>2. CASE ~(refresh[r].got[a] > 0)
      BY <1>1, <1>2, <2>2 DEF Failed
    <2>3. QED BY <2>1, <2>2
  <1>5. QED BY <1>2, <1>3, <1>4

\* A refresh that is over has brought all it will; the others go on as they were.
LEMMA ReturnsKeep ==
  ASSUME PagesInv, NEW r \in Refreshes,
         refresh' = [refresh EXCEPT ![r] = Over],
         UNCHANGED <<page, screen, mounted, seq, server, saving, graph>>,
         shown' \in [Asked -> 0 .. server],
         shown' = shown \/ r = seq
  PROVE  PagesInv'
  <1>1. /\ refresh' \in [Refreshes -> Refresh] /\ refresh'[r] = Over
        /\ \A q \in Refreshes : q # r => refresh'[q] = refresh[q]
    BY PageTypes, Beginnings
  <1>2. PagesTypeOK'
    BY <1>1 DEF PagesInv, PagesTypeOK
  <1>3. MountedOnScreen'
    <2>1. ASSUME screen = "on" PROVE refresh'[seq].signal # "aborted"
      <3>1. seq \in Refreshes
        BY <2>1, PageTypes DEF PagesInv, MountedOnScreen, Refreshes
      <3>2. QED BY <1>1, <2>1, <3>1, Beginnings DEF PagesInv, MountedOnScreen
    <2>2. QED BY <2>1 DEF PagesInv, MountedOnScreen, Library
  <1>4. AnswersOfServer'
    BY <1>1, PageTypes, Beginnings DEF PagesInv, AnswersOfServer
  <1>5. NewestIsAhead'
    BY <1>1, PageTypes, Beginnings DEF PagesInv, NewestIsAhead, Library
  <1>6. QED
    BY <1>2, <1>3, <1>4, <1>5
    DEF PagesInv, OnlyTrackSaves, OnlyProjectsBuilt, Library

LEMMA MountInv == ASSUME PagesInv, MountPage PROVE PagesInv'
  <1> DEFINE first == Begun(EffectSignal, "asking")
             once == [refresh EXCEPT ![1] = first]
             last == IF page.strict THEN 2 ELSE 1
  <1>1. EffectSignal \in {"none", "live"} /\ (~Library => EffectSignal = "none")
    BY DEF EffectSignal
  <1>2. /\ screen = "before" /\ screen' = "on"
        /\ mounted' = (Library \/ ~page.strict)
        /\ seq' = last
        /\ refresh' = IF page.strict THEN [Abort(once) EXCEPT ![2] = IF Library THEN first ELSE Over]
                                     ELSE once
        /\ UNCHANGED <<page, shown, server, saving, graph>>
    BY DEF MountPage
  <1>3. /\ first \in Refresh /\ first.signal # "aborted"
           /\ \A a \in Asked : first.got[a] = -1
    BY <1>1, Beginnings
  <1> HIDE DEF first
  <1>4. 1 \in Refreshes /\ 2 \in Refreshes
    BY PageTypes DEF Refreshes
  <1>5. /\ once \in [Refreshes -> Refresh]
        /\ once[1] = first /\ \A q \in Refreshes : q # 1 => once[q] = refresh[q]
    BY <1>3, <1>4, PageTypes
  <1> HIDE DEF once
  <1>6. /\ refresh' \in [Refreshes -> Refresh]
        /\ refresh'[last] \in {first, Over}
        /\ \A q \in Refreshes : \E was \in {first, Over, refresh[q]} :
             refresh'[q].pc = was.pc /\ refresh'[q].got = was.got
    <2>1. CASE page.strict
      <3>1. /\ Abort(once) \in [Refreshes -> Refresh]
            /\ \A q \in Refreshes : Abort(once)[q].pc = once[q].pc
               /\ Abort(once)[q].got = once[q].got
        BY <1>5, Aborted
      <3>2. /\ refresh' = [Abort(once) EXCEPT ![2] = IF Library THEN first ELSE Over]
            /\ last = 2
        BY <1>2, <2>1
      <3>3. (IF Library THEN first ELSE Over) \in Refresh
        BY <1>3, Beginnings
      <3>4. /\ refresh' \in [Refreshes -> Refresh] /\ refresh'[2] \in {first, Over}
            /\ \A q \in Refreshes : q # 2 => refresh'[q] = Abort(once)[q]
        BY <1>4, <3>1, <3>2, <3>3
      <3>5. QED BY <1>4, <1>5, <3>1, <3>2, <3>4
    <2>2. CASE ~page.strict
      <3>1. refresh' = once /\ last = 1
        BY <1>2, <2>2
      <3>2. QED BY <1>4, <1>5, <3>1
    <2>3. QED BY <2>1, <2>2
  <1>7. last \in {1, 2} /\ last \in Refreshes /\ last \in 0 .. MaxRefreshes /\ last > 0
    BY <1>4, PageTypes DEF Refreshes
  <1> HIDE DEF last
  <1>8. PagesTypeOK'
    BY <1>2, <1>6, <1>7 DEF PagesInv, PagesTypeOK, Library
  <1>9. MountedOnScreen'
    BY <1>2, <1>3, <1>6, <1>7, Beginnings DEF MountedOnScreen, Library
  <1>10. first.pc = "asking"
    BY <1>1, Beginnings DEF first
  <1>11. AnswersOfServer'
    <2>1. -1 \in -1 .. server
      BY PageTypes
    <2>2. \A q \in Refreshes : \A a \in Asked :
            refresh'[q].got[a] = -1 \/ refresh'[q].got[a] = refresh[q].got[a]
      BY <1>3, <1>6, Beginnings
    <2>3. \A q \in Refreshes : \A a \in Asked :
            refresh'[q].pc = "listing" => refresh'[q].got[a] # Pending
      BY <1>3, <1>6, <1>10, Beginnings DEF PagesInv, AnswersOfServer
    <2>4. QED BY <1>2, <2>1, <2>2, <2>3 DEF PagesInv, AnswersOfServer
  <1>12. NewestIsAhead'
    <2>1. \A a \in Asked : refresh'[last].got[a] = -1
      BY <1>3, <1>6, Beginnings
    <2>2. QED BY <1>2, <2>1 DEF NewestIsAhead
  <1>13. QED
    BY <1>2, <1>8, <1>9, <1>11, <1>12
    DEF PagesInv, OnlyTrackSaves, OnlyProjectsBuilt, Library

LEMMA StartInv ==
  ASSUME PagesInv, NEW signal \in {"none", "live"}, StartRefresh(signal)
  PROVE  PagesInv'
  <1> DEFINE next == IF Library \/ mounted THEN Begun(signal, "asking") ELSE Over
  <1>1. /\ screen = "on" \/ screen = "off"
        /\ seq < MaxRefreshes /\ seq' = seq + 1
        /\ refresh' = [refresh EXCEPT ![seq + 1] = next]
        /\ UNCHANGED <<page, screen, mounted, shown, server, saving, graph>>
    BY DEF StartRefresh
  <1>2. /\ next \in Refresh /\ next.pc # "listing" /\ next.signal # "aborted"
        /\ \A a \in Asked : next.got[a] = -1
    BY Beginnings
  <1> HIDE DEF next
  <1>3. seq + 1 \in Refreshes /\ seq + 1 \in 0 .. MaxRefreshes /\ seq + 1 > 0
    BY <1>1, PageTypes DEF Refreshes
  <1>4. /\ refresh' \in [Refreshes -> Refresh] /\ refresh'[seq + 1] = next
        /\ \A q \in Refreshes : q # seq + 1 => refresh'[q] = refresh[q]
    BY <1>1, <1>2, <1>3, PageTypes
  <1>5. PagesTypeOK'
    BY <1>1, <1>3, <1>4 DEF PagesInv, PagesTypeOK
  <1>6. MountedOnScreen'
    BY <1>1, <1>2, <1>3, <1>4 DEF PagesInv, MountedOnScreen, Library
  <1>7. AnswersOfServer'
    BY <1>1, <1>2, <1>4, PageTypes DEF PagesInv, AnswersOfServer
  <1>8. NewestIsAhead'
    BY <1>1, <1>2, <1>3, <1>4 DEF NewestIsAhead
  <1>9. QED
    BY <1>1, <1>5, <1>6, <1>7, <1>8
    DEF PagesInv, OnlyTrackSaves, OnlyProjectsBuilt, Library

LEMMA AnsweredInv ==
  ASSUME PagesInv, NEW r \in Refreshes, NEW a \in Asked, Answered(r, a)
  PROVE  PagesInv'
  <1>1. PICK answer \in {server, Failed} :
          /\ refresh[r].pc = "asking"
          /\ refresh' = [refresh EXCEPT ![r].got[a] = answer]
          /\ UNCHANGED <<page, screen, mounted, seq, shown, server, saving, graph>>
    BY DEF Answered
  <1>2. answer \in Int /\ answer \in 0 .. server /\ (answer > 0 => answer = server)
    BY PageTypes DEF Failed
  <1>3. refresh[r] \in [pc : {"unused", "asking", "listing", "over"},
                        signal : {"none", "live", "aborted"}, got : [Asked -> Int]]
    BY PageTypes DEF Refresh
  <1>4. /\ refresh' \in [Refreshes -> Refresh]
        /\ refresh'[r].pc = "asking" /\ refresh'[r].signal = refresh[r].signal
        /\ refresh'[r].got[a] = answer
        /\ \A b \in Asked : b # a => refresh'[r].got[b] = refresh[r].got[b]
        /\ \A q \in Refreshes : q # r => refresh'[q] = refresh[q]
    <2>1. [refresh[r] EXCEPT !.got[a] = answer] \in Refresh
      BY <1>2, <1>3 DEF Refresh
    <2>2. refresh' = [refresh EXCEPT ![r] = [refresh[r] EXCEPT !.got[a] = answer]]
      BY <1>1, PageTypes
    <2>3. refresh' \in [Refreshes -> Refresh]
          /\ refresh'[r] = [refresh[r] EXCEPT !.got[a] = answer]
          /\ \A q \in Refreshes : q # r => refresh'[q] = refresh[q]
      BY <2>1, <2>2, PageTypes
    <2>4. QED BY <1>1, <1>3, <2>3
  <1>5. PagesTypeOK'
    BY <1>1, <1>4 DEF PagesInv, PagesTypeOK
  <1>6. MountedOnScreen'
    <2>1. seq > 0 => seq \in Refreshes
      BY PageTypes DEF Refreshes
    <2>2. seq \in Refreshes => refresh'[seq].signal = refresh[seq].signal
      BY <1>4
    <2>3. QED BY <1>1, <2>1, <2>2 DEF PagesInv, MountedOnScreen, Library
  <1>7. AnswersOfServer'
    <2>1. ASSUME NEW q \in Refreshes, NEW b \in Asked
          PROVE  /\ refresh'[q].got[b] \in -1 .. server
                 /\ refresh'[q].pc = "listing" => refresh'[q].got[b] # Pending
      <3>1. CASE q = r /\ b = a
        BY <1>2, <1>4, <3>1
      <3>2. CASE ~(q = r /\ b = a)
        BY <1>4, <3>2 DEF PagesInv, AnswersOfServer
      <3>3. QED BY <3>1, <3>2
    <2>2. QED BY <1>1, <2>1 DEF AnswersOfServer
  <1>8. NewestIsAhead'
    <2>1. ASSUME NEW q \in Refreshes, q = seq, NEW b \in Asked, Library \/ b = "rows",
                 refresh'[q].got[b] > 0
          PROVE  /\ shown[b] <= refresh'[q].got[b] \/ (b = "rows" /\ shown[b] = graph.put)
                 /\ (graph.building /\ b = "rows") =>
                      graph.base <= refresh'[q].got[b] \/ graph.base = graph.put
      <3>1. CASE q = r /\ b = a
        BY <1>2, <1>4, <2>1, <3>1, PageTypes
      <3>2. CASE ~(q = r /\ b = a)
        BY <1>4, <2>1, <3>2 DEF PagesInv, NewestIsAhead
      <3>3. QED BY <3>1, <3>2
    <2>2. QED BY <1>1, <2>1 DEF NewestIsAhead, Library
  <1>9. QED
    BY <1>1, <1>5, <1>6, <1>7, <1>8
    DEF PagesInv, OnlyTrackSaves, OnlyProjectsBuilt, Library

\* The two steps that write, and when they do.
LEMMA Writes ==
  ASSUME PagesInv, NEW r \in Refreshes, Settle(r) \/ DispatchPatch(r)
  PROVE  /\ refresh[r].pc \in {"asking", "listing"}
         /\ \A a \in Asked : refresh[r].got[a] # Pending
         /\ UNCHANGED <<page, screen, mounted, seq, server, saving, graph>>
         /\ \/ refresh' = [refresh EXCEPT ![r] = Over]
            \/ /\ Library /\ shown' = shown
               /\ refresh' = [refresh EXCEPT ![r].pc = "listing"]
         /\ \/ shown' = shown
            \/ Fresh(r) /\ shown' = Patched(r)
         /\ refresh' = [refresh EXCEPT ![r] = Over] /\ Fresh(r) => shown' = Patched(r)
  <1>1. CASE Settle(r)
    <2>1. CASE Library /\ Fresh(r)
      <3>1. refresh' = [refresh EXCEPT ![r].pc = "listing"] /\ shown' = shown
        BY <1>1, <2>1, PageTypes DEF Settle
      <3>2. refresh' # [refresh EXCEPT ![r] = Over]
        <4>1. refresh'[r].pc = "listing"
          BY <3>1, PageTypes DEF Refresh
        <4>2. QED BY <4>1, PageTypes, Beginnings
      <3>3. QED BY <1>1, <2>1, <3>1, <3>2 DEF Settle
    <2>2. CASE ~(Library /\ Fresh(r))
      BY <1>1, <2>2 DEF Settle
    <2>3. QED BY <2>1, <2>2
  <1>2. CASE DispatchPatch(r)
    BY <1>2 DEF DispatchPatch, PagesInv, AnswersOfServer
  <1>3. QED BY <1>1, <1>2

LEMMA WritesInv ==
  ASSUME PagesInv, NEW r \in Refreshes, Settle(r) \/ DispatchPatch(r)
  PROVE  PagesInv'
  <1>1. CASE refresh' = [refresh EXCEPT ![r] = Over]
    <2>1. shown' \in [Asked -> 0 .. server] /\ (shown' = shown \/ r = seq)
      BY Writes, PatchForward, PageTypes DEF Fresh
    <2>2. QED BY <1>1, <2>1, Writes, ReturnsKeep
  <1>2. CASE refresh' = [refresh EXCEPT ![r].pc = "listing"] /\ shown' = shown
    <2>1. /\ refresh' \in [Refreshes -> Refresh]
          /\ \A q \in Refreshes : /\ refresh'[q].got = refresh[q].got
                                  /\ refresh'[q].signal = refresh[q].signal
                                  /\ q # r => refresh'[q].pc = refresh[q].pc
      BY <1>2, PageTypes DEF Refresh
    <2>2. UNCHANGED <<page, screen, mounted, seq, server, saving, graph>>
      BY Writes
    <2>3. PagesTypeOK'
      BY <1>2, <2>1, <2>2 DEF PagesInv, PagesTypeOK
    <2>4. MountedOnScreen'
      <3>1. seq > 0 => seq \in Refreshes
        BY PageTypes DEF Refreshes
      <3>2. QED BY <2>1, <2>2, <3>1 DEF PagesInv, MountedOnScreen, Library
    <2>5. AnswersOfServer'
      BY <2>1, <2>2, Writes DEF PagesInv, AnswersOfServer
    <2>6. NewestIsAhead'
      BY <1>2, <2>1, <2>2 DEF PagesInv, NewestIsAhead, Library
    <2>7. QED
      BY <2>2, <2>3, <2>4, <2>5, <2>6
      DEF PagesInv, OnlyTrackSaves, OnlyProjectsBuilt, Library
  <1>3. QED BY <1>1, <1>2, Writes

LEMMA UnmountInv == ASSUME PagesInv, Unmount PROVE PagesInv'
  <1>1. /\ screen' = "off" /\ mounted' = FALSE /\ refresh' = Abort(refresh)
        /\ UNCHANGED <<page, seq, shown, server, saving, graph>>
    BY DEF Unmount
  <1>2. /\ refresh' \in [Refreshes -> Refresh]
        /\ \A q \in Refreshes : refresh'[q].pc = refresh[q].pc
           /\ refresh'[q].got = refresh[q].got
    BY <1>1, Aborted, PageTypes
  <1>3. PagesTypeOK' /\ MountedOnScreen' /\ AnswersOfServer'
    BY <1>1, <1>2 DEF PagesInv, PagesTypeOK, MountedOnScreen, AnswersOfServer, Library
  <1>4. NewestIsAhead'
    BY <1>1, <1>2 DEF PagesInv, NewestIsAhead, Library
  <1>5. QED
    BY <1>1, <1>3, <1>4 DEF PagesInv, OnlyTrackSaves, OnlyProjectsBuilt, Library

\* The backend may have a newer version at any time, and saveGenre brings one.
LEMMA OthersInv ==
  ASSUME PagesInv, ServerChanges \/ SetGenre \/ GenreSaved
  PROVE  PagesInv'
  <1>1. /\ UNCHANGED <<page, screen, mounted, seq, refresh, graph>>
        /\ server' \in 1 .. MaxChanges + 1 /\ server <= server'
        /\ saving' \in 0 .. server'
    <2>1. saving \in 0 .. server /\ server \in 1 .. MaxChanges + 1 /\ MaxChanges \in Nat
      BY PageTypes DEF PagesInv, PagesTypeOK
    <2>2. CASE ServerChanges
      BY <2>1, <2>2 DEF ServerChanges
    <2>3. CASE SetGenre
      BY <2>1, <2>3 DEF SetGenre
    <2>4. CASE GenreSaved
      BY <2>1, <2>4 DEF GenreSaved
    <2>5. QED BY <2>2, <2>3, <2>4
  <1>2. /\ shown' = shown \/ (~Library /\ shown' = [shown EXCEPT !["status"] = saving])
        /\ OnlyTrackSaves' /\ OnlyProjectsBuilt'
    BY DEF ServerChanges, SetGenre, GenreSaved, PagesInv, OnlyTrackSaves, OnlyProjectsBuilt,
           Library
  <1>3. /\ shown' \in [Asked -> 0 .. server']
        /\ \A a \in Asked : Library \/ a = "rows" => shown'[a] = shown[a]
    <2>1. saving \in 0 .. server' /\ shown \in [Asked -> 0 .. server']
      BY <1>1, PageTypes DEF PagesInv, PagesTypeOK
    <2>2. QED BY <1>2, <2>1 DEF Asked
  <1>4. PagesTypeOK'
    <2>1. 0 .. server \subseteq 0 .. server'
      BY <1>1, PageTypes
    <2>2. graph \in [building : BOOLEAN, base : 0 .. server', project : 0 .. server',
                    put : 0 .. server']
      BY <2>1, PageTypes
    <2>3. QED BY <1>1, <1>3, <2>2 DEF PagesInv, PagesTypeOK
  <1>5. MountedOnScreen' /\ NewestIsAhead'
    BY <1>1, <1>3 DEF PagesInv, MountedOnScreen, NewestIsAhead, Library
  <1>6. AnswersOfServer'
    <2>1. -1 .. server \subseteq -1 .. server'
      BY <1>1, PageTypes
    <2>2. QED BY <1>1, <2>1 DEF PagesInv, AnswersOfServer
  <1>7. QED BY <1>2, <1>4, <1>5, <1>6 DEF PagesInv

\* buildGraph writes the projects of its click, or those with its own, and no other list.
LEMMA BuildInv ==
  ASSUME PagesInv, BuildGraph \/ CreateProject \/ GraphBuilt \/ GraphFailed
  PROVE  PagesInv'
  <1>1. /\ UNCHANGED <<page, screen, mounted, seq, refresh, saving>>
        /\ server' \in 1 .. MaxChanges + 1 /\ server <= server'
    BY PageTypes DEF BuildGraph, CreateProject, GraphBuilt, GraphFailed
  <1>2. /\ server \in Nat /\ server' \in Nat /\ 0 .. server \subseteq 0 .. server'
        /\ -1 .. server \subseteq -1 .. server'
    BY <1>1, PageTypes
  <1>3. page.rows = "projects" /\ Library /\ saving = 0
    <2>1. page.rows = "projects"
      BY DEF BuildGraph, CreateProject, GraphBuilt, GraphFailed, PagesInv, OnlyProjectsBuilt
    <2>2. QED BY <2>1, PageTypes DEF Pages, Library, PagesInv, OnlyTrackSaves
  <1> DEFINE Typed == /\ shown' \in [Asked -> 0 .. server']
                      /\ graph' \in [building : BOOLEAN, base : 0 .. server',
                                     project : 0 .. server', put : 0 .. server']
             Ahead == \A r \in Refreshes, a \in Asked :
                        r = seq /\ refresh[r].got[a] > 0 =>
                          /\ \/ shown'[a] <= refresh[r].got[a]
                             \/ a = "rows" /\ shown'[a] = graph'.put
                          /\ (graph'.building /\ a = "rows") =>
                               \/ graph'.base <= refresh[r].got[a]
                               \/ graph'.base = graph'.put
  <1>4. \A r \in Refreshes, a \in Asked :
          r = seq /\ refresh[r].got[a] > 0 =>
            /\ shown[a] <= refresh[r].got[a] \/ (a = "rows" /\ shown[a] = graph.put)
            /\ (graph.building /\ a = "rows") =>
                 graph.base <= refresh[r].got[a] \/ graph.base = graph.put
    BY <1>3 DEF PagesInv, NewestIsAhead
  <1>5. ASSUME BuildGraph PROVE Typed /\ Ahead
    <2>1. /\ shown' = shown /\ server' = server
          /\ graph' = [graph EXCEPT !.building = TRUE, !.base = shown["rows"]]
      BY <1>5 DEF BuildGraph
    <2>2. /\ graph'.base = shown["rows"] /\ graph'.put = graph.put
          /\ graph' \in [building : BOOLEAN, base : 0 .. server', project : 0 .. server',
                         put : 0 .. server']
      BY <2>1, PageTypes DEF Asked
    <2>3. Typed
      BY <2>1, <2>2, PageTypes
    <2>4. Ahead
      BY <1>4, <2>1, <2>2
    <2>5. QED BY <2>3, <2>4
  <1>6. ASSUME CreateProject PROVE Typed /\ Ahead
    <2>1. /\ shown' = shown /\ server' = server + 1
          /\ graph' = [graph EXCEPT !.project = server + 1]
      BY <1>6 DEF CreateProject
    <2>2. /\ graph'.base = graph.base /\ graph'.put = graph.put
          /\ graph'.building = graph.building
          /\ graph' \in [building : BOOLEAN, base : 0 .. server', project : 0 .. server',
                         put : 0 .. server']
      BY <1>2, <2>1, PageTypes
    <2>3. Typed
      BY <1>2, <2>1, <2>2, PageTypes
    <2>4. Ahead
      BY <1>4, <2>1, <2>2
    <2>5. QED BY <2>3, <2>4
  <1>7. ASSUME GraphBuilt PROVE Typed /\ Ahead
    <2>1. PICK list \in {graph.project, graph.base} :
            /\ shown' = [shown EXCEPT !["rows"] = list]
            /\ graph' = [Idle EXCEPT !.put = IF graph.project # 0 THEN list ELSE graph.put]
            /\ graph.project = 0 => list = graph.base
      BY <1>7 DEF GraphBuilt
    <2>2. server' = server /\ graph.building
      BY <1>7 DEF GraphBuilt
    <2> DEFINE put == IF graph.project # 0 THEN list ELSE graph.put
    <2>3. list \in 0 .. server /\ put \in 0 .. server /\ 0 \in 0 .. server
      BY <1>2, <2>1, PageTypes
    <2>4. graph' = [building |-> FALSE, base |-> 0, project |-> 0, put |-> put]
      BY <2>1 DEF Idle
    <2>5. /\ list \in 0 .. server /\ ~graph'.building
          /\ graph'.put = IF graph.project # 0 THEN list ELSE graph.put
          /\ graph' \in [building : BOOLEAN, base : 0 .. server, project : 0 .. server,
                         put : 0 .. server]
      BY <2>3, <2>4
    <2>6. /\ shown' \in [Asked -> 0 .. server] /\ shown'["rows"] = list
          /\ \A a \in Asked : a # "rows" => shown'[a] = shown[a]
      BY <2>1, <2>5, PageTypes DEF Asked
    <2>7. Typed
      BY <2>2, <2>5, <2>6
    <2>8. Ahead
      BY <1>4, <2>1, <2>2, <2>5, <2>6
    <2>9. QED BY <2>7, <2>8
  <1>8. ASSUME GraphFailed PROVE Typed /\ Ahead
    <2>1. /\ shown' = shown /\ server' = server /\ graph' = [Idle EXCEPT !.put = graph.put]
      BY <1>8 DEF GraphFailed
    <2>2. graph.put \in 0 .. server /\ 0 \in 0 .. server
      BY <1>2, PageTypes
    <2>3. graph' = [building |-> FALSE, base |-> 0, project |-> 0, put |-> graph.put]
      BY <2>1 DEF Idle
    <2>4. /\ graph'.put = graph.put /\ ~graph'.building
          /\ graph' \in [building : BOOLEAN, base : 0 .. server, project : 0 .. server,
                         put : 0 .. server]
      BY <2>2, <2>3
    <2>5. Typed
      BY <2>1, <2>4, PageTypes
    <2>6. Ahead
      BY <1>4, <2>1, <2>4
    <2>7. QED BY <2>5, <2>6
  <1>9. Typed /\ Ahead
    BY <1>5, <1>6, <1>7, <1>8
  <1>10. PagesTypeOK'
    BY <1>1, <1>3, <1>9 DEF PagesInv, PagesTypeOK
  <1>11. MountedOnScreen' /\ NewestIsAhead'
    BY <1>1, <1>9 DEF PagesInv, MountedOnScreen, NewestIsAhead, Library
  <1>12. AnswersOfServer'
    BY <1>1, <1>2 DEF PagesInv, AnswersOfServer
  <1>13. QED
    BY <1>1, <1>3, <1>10, <1>11, <1>12 DEF PagesInv, OnlyTrackSaves, OnlyProjectsBuilt

LEMMA PagesInvNext == PagesInv /\ [PagesNext]_pageVars => PagesInv'
  <1> SUFFICES ASSUME PagesInv, [PagesNext]_pageVars PROVE PagesInv'
    OBVIOUS
  <1>1. CASE MountPage \/ Unmount
    BY <1>1, MountInv, UnmountInv
  <1>2. CASE ServerChanges \/ SetGenre \/ GenreSaved
    BY <1>2, OthersInv
  <1>3. CASE StartRefresh(EffectSignal) \/ StartRefresh("none")
    BY <1>3, StartInv DEF EffectSignal
  <1>4. CASE \E r \in Refreshes, a \in Asked : Answered(r, a)
    BY <1>4, AnsweredInv
  <1>5. CASE \E r \in Refreshes : Settle(r) \/ DispatchPatch(r)
    BY <1>5, WritesInv
  <1>6. CASE UNCHANGED pageVars
    BY <1>6 DEF pageVars, PagesInv, PagesTypeOK, MountedOnScreen, AnswersOfServer,
       NewestIsAhead, Library, OnlyTrackSaves, OnlyProjectsBuilt
  <1>7. CASE BuildGraph \/ CreateProject \/ GraphBuilt \/ GraphFailed
    BY <1>7, BuildInv
  <1>8. QED BY <1>1, <1>2, <1>3, <1>4, <1>5, <1>6, <1>7 DEF PagesNext

LEMMA PagesInvariance == PagesSpec => []PagesInv
  BY PagesInit0, PagesInvNext, PTL DEF PagesSpec

\* However late an answer comes, a refresh never brings a page back to something older,
\* but for the list a build has put its own project into, and writes nothing to a page
\* that has gone; the end of a build brings the projects back no further than its click.
THEOREM ShownNeverGoesBackHolds == PagesSpec => ShownNeverGoesBack
  <1> DEFINE Back == /\ shown'["status"] = shown["status"]
                     /\ shown' = shown \/ graph.base <= shown'["rows"]
             Forward == /\ \A a \in Asked :
                             (Library \/ a = "rows") =>
                               \/ shown'[a] = 0 \/ shown[a] <= shown'[a]
                               \/ a = "rows" /\ shown[a] = graph.put
                        /\ screen = "off" => shown' = shown
             Step == IF BuildEnds THEN Back ELSE Forward
  <1>1. ASSUME PagesInv, PagesNext PROVE Step
    <2>0. ASSUME shown' = shown PROVE Step
      <3>1. \A a \in Asked : shown[a] <= shown[a]
        BY <1>1, PageTypes
      <3>2. QED BY <2>0, <3>1
    <2>1. CASE MountPage \/ Unmount \/ ServerChanges \/ SetGenre
                 \/ StartRefresh(EffectSignal) \/ StartRefresh("none")
      BY <2>0, <2>1 DEF MountPage, Unmount, ServerChanges, SetGenre, StartRefresh
    <2>2. CASE GenreSaved
      <3>1. ~Library /\ (screen = "off" => shown' = shown)
        BY <1>1, <2>2 DEF GenreSaved, PagesInv, OnlyTrackSaves, MountedOnScreen
      <3>2. shown'["rows"] = shown["rows"] /\ shown["rows"] <= shown["rows"]
        BY <1>1, <2>2, PageTypes DEF GenreSaved, Asked
      <3>3. ~BuildEnds
        BY <2>2 DEF GenreSaved, BuildEnds
      <3>4. QED BY <3>1, <3>2, <3>3
    <2>3. CASE \E r \in Refreshes, a \in Asked : Answered(r, a)
      BY <2>0, <2>3 DEF Answered
    <2>4. ASSUME NEW r \in Refreshes, Settle(r) \/ DispatchPatch(r) PROVE Step
      <3>1. CASE shown' = shown
        BY <2>0, <3>1
      <3>2. CASE Fresh(r) /\ shown' = Patched(r)
        <4>1. r = seq /\ screen # "off" /\ \A a \in Asked : refresh[r].got[a] # Pending
          BY <1>1, <2>4, <3>2, Writes DEF Fresh, PagesInv, MountedOnScreen
        <4>2. ~BuildEnds
          BY <1>1, <2>4, Writes DEF BuildEnds
        <4>3. QED BY <1>1, <3>2, <4>1, <4>2, PatchForward
      <3>3. QED BY <1>1, <2>4, <3>1, <3>2, Writes
    <2>5. CASE BuildGraph \/ CreateProject \/ GraphFailed
      BY <2>0, <2>5 DEF BuildGraph, CreateProject, GraphFailed
    <2>6. CASE GraphBuilt
      <3>1. PICK list : /\ shown' = [shown EXCEPT !["rows"] = list]
                        /\ list = graph.base \/ (list = graph.project
                                                /\ graph.base = graph.project - 1)
        BY <2>6 DEF GraphBuilt
      <3>2. shown'["rows"] = list /\ shown'["status"] = shown["status"]
        BY <1>1, <3>1, PageTypes DEF Asked
      <3>3. graph.base <= list
        BY <1>1, <3>1, PageTypes
      <3>4. BuildEnds
        BY <2>6 DEF GraphBuilt, BuildEnds, Idle
      <3>5. QED BY <3>2, <3>3, <3>4
    <2>7. QED BY <1>1, <2>1, <2>2, <2>3, <2>4, <2>5, <2>6 DEF PagesNext
  <1>2. ASSUME PagesInv, UNCHANGED pageVars PROVE Step \/ UNCHANGED pageVars
    BY <1>2
  <1>3. PagesInv /\ [PagesNext]_pageVars => [Step]_pageVars
    BY <1>1, <1>2
  <1>4. QED BY <1>3, PagesInvariance, PTL DEF PagesSpec, ShownNeverGoesBack

\* What the newest refresh has brought is shown when it is over, as it is not aborted
\* and nothing is unmounted: a failed probe clears the status it did not confirm.
THEOREM NewestRefreshCountsHolds == PagesSpec => NewestRefreshCounts
  <1> DEFINE Step == \A r \in Refreshes :
       (r = seq /\ screen = "on" /\ refresh[r].pc \in {"asking", "listing"}
          /\ refresh'[r].pc = "over" /\ (Library \/ ~page.strict))
       => \A a \in Asked :
            (refresh[r].got[a] # Failed \/ a = "status") => shown'[a] = refresh[r].got[a]
  <1>1. ASSUME PagesInv, PagesNext PROVE Step
    <2> SUFFICES ASSUME NEW r \in Refreshes,
                        r = seq, screen = "on", refresh[r].pc \in {"asking", "listing"},
                        refresh'[r].pc = "over", Library \/ ~page.strict,
                        NEW a \in Asked, refresh[r].got[a] # Failed \/ a = "status"
                 PROVE  shown'[a] = refresh[r].got[a]
      OBVIOUS
    <2> USE <1>1
    <2>1. Fresh(r)
      BY DEF Fresh, PagesInv, MountedOnScreen
    <2>2. Settle(r) \/ DispatchPatch(r)
      <3>1. ~MountPage
        BY DEF MountPage
      <3>2. ~Unmount
        BY Aborted, PageTypes DEF Unmount
      <3>3. ~(ServerChanges \/ SetGenre \/ GenreSaved)
        BY DEF ServerChanges, SetGenre, GenreSaved
      <3>4. ~StartRefresh("none") /\ ~StartRefresh("live")
        <4>1. r # seq + 1
          BY PageTypes
        <4>2. QED BY <4>1, PageTypes DEF StartRefresh
      <3>5. ASSUME NEW q \in Refreshes, NEW b \in Asked, Answered(q, b) PROVE FALSE
        <4>1. refresh'[r].pc = refresh[r].pc
          BY <3>5, PageTypes DEF Answered, Refresh
        <4>2. QED BY <4>1
      <3>6. ASSUME NEW q \in Refreshes, q # r, Settle(q) \/ DispatchPatch(q) PROVE FALSE
        <4>1. \/ refresh' = [refresh EXCEPT ![q] = Over]
              \/ refresh' = [refresh EXCEPT ![q].pc = "listing"]
          BY <3>6, Writes
        <4>2. refresh'[r] = refresh[r]
          BY <3>6, <4>1, PageTypes
        <4>3. QED BY <4>2
      <3>7. ~(BuildGraph \/ CreateProject \/ GraphBuilt \/ GraphFailed)
        BY DEF BuildGraph, CreateProject, GraphBuilt, GraphFailed
      <3>8. QED
        BY <3>1, <3>2, <3>3, <3>4, <3>5, <3>6, <3>7 DEF PagesNext, EffectSignal
    <2>3. refresh' = [refresh EXCEPT ![r] = Over]
      <3>1. refresh' # [refresh EXCEPT ![r].pc = "listing"]
        BY PageTypes DEF Refresh
      <3>2. QED BY <2>2, <3>1, Writes
    <2>4. shown' = Patched(r) /\ \A b \in Asked : refresh[r].got[b] # Pending
      BY <2>1, <2>2, <2>3, Writes
    <2>5. QED BY <2>4, PatchForward
  <1>2. PagesInv /\ [PagesNext]_pageVars => [Step]_pageVars
    BY <1>1
  <1>3. QED BY <1>2, PagesInvariance, PTL DEF PagesSpec, NewestRefreshCounts

-----------------------------------------------------------------------------
(* The services side by side. *)

\* A step of one service is a step or a stutter of every other: what each keeps alone
\* it keeps beside the others, here the types of all of them.
THEOREM ServicesTypeCorrect == ServicesSpec => []ServicesTypeOK
  <1>1. ServicesInit => JobInit /\ PeaksInit /\ DbInit /\ ProfilesInit /\ PagesInit
        /\ TimingInit
    BY DEF ServicesInit
  <1>2. [ServicesNext]_servicesVars =>
          /\ [JobNext]_jobVars /\ [PeaksNext]_peakVars /\ [DbNext]_dbVars
          /\ [ProfilesNext]_profileVars /\ [PagesNext]_pageVars /\ [TimingNext]_timingVars
    BY DEF ServicesNext, servicesVars
  <1>3. ServicesSpec => JobSpec /\ PeaksSpec /\ DbSpec /\ ProfilesSpec /\ PagesSpec
        /\ TimingSpec
    BY <1>1, <1>2, PTL
    DEF ServicesSpec, JobSpec, PeaksSpec, DbSpec, ProfilesSpec, PagesSpec, TimingSpec
  <1>4. /\ ShapeInv => DbTypeOK
        /\ ProfilesInv => ProfilesTypeOK
        /\ PagesInv => PagesTypeOK
    BY DEF ShapeInv, ProfilesInv, PagesInv
  <1>5. JobTypeOK /\ PeaksTypeOK /\ DbTypeOK /\ ProfilesTypeOK /\ PagesTypeOK
        /\ TimingTypeOK
          => ServicesTypeOK
    BY DEF ServicesTypeOK
  <1>6. QED
    BY <1>3, <1>4, <1>5, JobTypeCorrect, PeaksTypeCorrect, ShapeInvariance, ProfilesInvariance,
       PagesInvariance, TimingTypeCorrect, PTL
=============================================================================
