# Open Jockey in TLA+

A verification project kept beside the Open Jockey backend: TLA+ modules of its
stateful parts, TLC configurations that check them on small instances, and
TLAPS proofs of the properties that matter most, for every value of the
constants. `PROJECT.json` maps every definition to the source lines it models.

## The system

Open Jockey analyses audio files and renders transitions between them. One
FastAPI process serves a React front end from a thread pool, over one SQLite
connection. Analyzers run as plugin processes, transitions are rendered by
ffmpeg as a child process.

| Component | State it keeps | Operations | What is hard | What makes it correct |
|---|---|---|---|---|
| Analysis runs `store/analysis_runs.py`, `analyze_track` in `api/main.py` | `analysis_runs`: one row per (track, analyzer, version), with status, `claim_token`, `started_at`, result | claim, complete, fail, upsert, delete | concurrent requests, force, staleness, late results, crashes | a row shows its current claim's outcome; every request ends; orphans are recovered |
| Transition renderer `transition_renderer.py`, `store/render_artifacts.py`, the render routes | `render_artifacts`; the output files; `_render_semaphore`, `_processes` | render, cancel, delete, recover, read | ffmpeg beside the table, time limits against the staleness threshold, cancel and delete against a running worker | one render per candidate and technique, one ffmpeg; an ended render stays as it ended |
| Plugin runtime `plugins/runtime.py`, SDK `serve.py` | `_proc`, `_stdout_q`, `_next_id`, `_lock`; the process and its pipes | call, stop, reader thread, serve loop | late answers, dead or orphaned processes, stray output | an answer goes to the request it was written for; a call ends, unless its plugin does not read; a process is forgotten only with a broken reader |
| Registry `plugins/registry.py` | discovered manifests, `Plugin` objects | get, stop_all | lazy construction | one object per plugin |
| Analysis labels `store/analysis_labels.py` | `analysis_labels`, bound to a run id | add, delete, list | a forced re-run keeps the id | a label stands only on a run that was decided |
| Render labels `store/render_labels.py` | `render_labels`, cascading with the renders | add, delete, roll up | deletion of the evidence; families keyed by what was recorded then and what holds now | feedback meets the candidates it was given for, and outlives the filtering |
| Candidate graph `candidate_graph.py`, `store/candidates.py` | `candidates`, with ids stable over rebuilds | build, replace | builds that overlap and read stale data; tracks and projects deleted meanwhile; feedback that removes its own evidence | ids survive; only removed candidates lose renders; the table is never a mixture of builds |
| Projects `store/projects.py` | `projects` | create, delete | cascades under builds and renders | nothing outlives its project |
| Track profiles `profile_builder.py`, `store/track_profiles.py` | `track_profiles` | build, upsert, is_stale | analyses that finish meanwhile; deletion and ingestion again; second-resolution time | a forced build is no older than its request; a profile whose source is gone is stale; a grid fits its track |
| Job queue `store/jobs.py` | `jobs` | enqueue, claim, complete, fail, cancel | unconditional updates, a read before a write, no recovery | tries are bounded; one worker has a job; every job ends |
| Database `store/db.py` | schema version, the shared connection | transaction, migrate | crash between migration statements | whatever file is found, the present shape is served and no candidate lost |
| Peaks and cache `audio/peaks.py`, `store/cache.py` | files by content hash | extract, put, get | boundaries of the bucket arithmetic; non-atomic write | whole answers of the width asked for, with at most the samples asked for |
| Front end `frontend/src` | page state, refs | polling, commands | overlapping refreshes, a command that writes what it saw before, unmounting, StrictMode | the newest refresh counts; no refresh writes to a page that has gone |
| Analyzer plugins, CLI, configuration, models | none that outlives a call | | | |

How they interact: a request thread calls the store, one SQL statement or one
`BEGIN IMMEDIATE` block at a time, serialised by `_db_lock`; between statements
other threads run. An analyze request calls `Plugin.call`, which holds the
plugin's lock until the answer or the timeout. A render request waits for
ffmpeg; cancel and delete requests act on its process and its row meanwhile.
Deleting tracks, projects or candidates cascades to runs and renders by foreign
keys. The pages poll every five seconds, and reading renders also recovers
stale ones.

## The modules

| Module | Models | Checked by | Proved in |
|---|---|---|---|
| `ClaimedSlots` | what the analysis-run store promises (abstract) | through `AnalysisRuns` | |
| `AnalysisRuns` | the claim / execute / decide protocol of the analyze endpoint | `MCAnalysisRuns*.cfg` | `AnalysisRunsProofs` |
| `RenderLifecycle` | what a reader of `render_artifacts` relies on (abstract) | through `TransitionRenderer` | |
| `TransitionRenderer` | render, recover, cancel, delete; the table, the files, ffmpeg | `MCTransitionRenderer*.cfg` | `TransitionRendererProofs` |
| `StableGraph` | what the candidate store promises about ids (abstract) | through `CandidateGraph` | |
| `CandidateGraph` | build, reconcile, render, label; the cascades from tracks and projects | `MCCandidateGraph*.cfg` | `CandidateGraphProofs` |
| `PluginRuntime` | `Plugin.call`, `stop`, the reader thread, the SDK loop | `MCPluginRuntime.cfg` | `PluginRuntimeProofs` |
| `JobQueue` | the jobs table and its (external) workers | `MCServices.cfg` | `JobQueueProofs` |
| `PeaksCache` | `get_or_compute_peaks`, the cache files, the bucket arithmetic | `MCServices.cfg` | `PeaksCacheProofs` |
| `RenderTiming` | `_derive_timing`: where a render cuts its tracks | `MCServices.cfg` | `RenderTimingProofs` |
| `DbMigration` | `_bootstrap` and `_migrate_in_place`, statement by statement | `MCServices.cfg`, `MCDbMigrationInterrupted.cfg` | `ServicesProofs` |
| `TrackProfiles` | `build_profile`, `is_stale`, labels on runs, under analyses and deletions | `MCServices.cfg` | `ServicesProofs` |
| `PollingPages` | `refresh()` of the two pages that poll, `saveGenre` and `buildGraph` | `MCServices.cfg` | `ServicesProofs` |
| `MCServices` | the six modules above, in one run | `MCServices.cfg` | `ServicesProofs` |

### AnalysisRuns

`row[s]` is the row of slot `s`; `result` stands for `output_json` or `error`
and records the claim whose plugin call produced it, so that "a late result
clobbered a newer claim" can be said. `caller[c]` is where a pool thread stands:

| `pc` | the thread is about to | code |
|---|---|---|
| `claiming` | run the claim's transaction | `claim_running` |
| `queued` | take the plugin's lock | `Plugin.call`, `with self._lock` |
| `calling` | get the answer, an error, or the timeout | `_execute_with_claim` |
| `writing` | run the terminal UPDATE | `_terminal_write` |
| `reading` | re-read the row for the answer | `_terminal_write` |

`DeleteTrack`, `DeleteRun`, `Import`, `Crash` and `Raises` (an exception that is
no `PluginError`) count as faults, bounded by `MaxFaults`. Time is a `Tick` that
ages running rows and uses up call timeouts; it never passes a timeout, and with
`Stalls = FALSE` it passes only while every thread waits for a call or a lock.

### TransitionRenderer

`row[i]` is the row with id `i`; ids are never reused. `file[i]` is its output,
`encoder[i]` its ffmpeg, `owned` the process registry, `permits` the semaphore.
`thread[t].pc` names the next step of a handler: `recovering`, `checking`,
`looking`, `acquiring`, `creating`, `measuring`, `encoding`, `encoded`,
`verifying`, `writing`, `reading` for a render; `sweeping` for a read that
recovers; `cancelling`, `stopped` for a cancel; `unlinking`, `deleting` for a
delete. The claim token of a row is written once, with its id, so `WHERE id AND
claim_token` says what `WHERE id` says and the token is left out. A tick is
`MAX_EXPECTED_RENDER_TIME_SEC / EncodeLimit`. With limits 1, 1, 1 it is 300 s: two
loudness measurements and `ffmpeg -version` (250 s), ffmpeg (300 s), probe, decode
and output loudness (210 s) each fit in a tick or less, so that a phase sees at most
one boundary, and a live row may see three, against a threshold of two (600 s);
the sum of the real limits, 760 s, is beyond it too. `MeasureLimit = 0` is the
case that loudness is cached: then no live render outlasts the threshold.

### PluginRuntime

`current` is `_proc`, by number; each process has its own `inbox` (stdin),
`pipe` (stdout), `reader` and `queue`. Killing reaches uv; the Python process below
it may survive as an `orphan`, with its pipe and reader. The process may answer,
die, repeat an old answer, or print something of its own; what comes of a line is

| line | what it is | what `call()` does |
|---|---|---|
| `Answer(i)` | an object with the id `i` (`wire`), for request `i` (`for`) | takes it if `i` is its own id (`TakeAnswer`), else kills (`TakeStray`) |
| `Noise` | no JSON, no object, or neither a result nor an error | kills (`TakeStray`) |
| `Unnamed` | a result or an error with a null id, or none | takes it for its own and keeps the process (`TakeUnnamed`) |
| `Garbled` | bytes that are no text | never sees it: the reader ends (`ReadEnds`) |
| `Eof` | the `None` a reader puts when it ends, on a dead process or not | forgets the process, without a kill (`TakeEof`) |

`thread[t].pc` is `calling` or `stopping` before the lock; `starting`, `sending`,
`writing`, `waiting` under it; `done` after it. `writing` is a `stdin.write` that the
pipe's buffer has no room for (`Block`): it has no timeout, and goes on when the
process reads (`Accept`) or is gone (`SendFails`). `unnamed` is a history of the
requests whose calls took an `Unnamed`.

### CandidateGraph

`candidates` and `renders` are the rows of their tables, `project`, `library`
(the genre, or `NoTrack`) and `profile` those the graph depends on. `builder[b].pc`
is where a thread stands in `build_candidate_graph`:

| `pc` | the thread is about to | code |
|---|---|---|
| `looking` | read the existing candidates | `candidates.list_for_project` |
| `profiling` | read one more profile, or the labels | `_usable_profiles`, `_labels_for_profiles` |
| `rating` | read one more genre, or the feedback | `_genres_for_profiles`, `rollup_by_technique_and_pair` |
| `replacing` | compute the candidates and run the transaction | `replace_for_project` |

`renderer[w].pc` is `preparing` or `creating`, between the three moments at which
a render looks at its candidate, at the profiles, and inserts its row; what
happens to the row then is TransitionRenderer's. What the builder computes is
there in full where it decides which candidates exist: tempo distance over half
and double time (on integers, where the code has floats), techniques, nearest
targets, phrase cues, feedback filter. Scores only sort, and within a pair they
are all equal, so they are left out. An id is the number of the commit that
inserted the row, unique next to the natural key.

`dropped` is a history variable for one property. Clients may stop asking, and
the bounds on builds, renders and edits run out, so deadlock is not checked here.

### JobQueue

`job[j]` is the row with id `j`, `worker[w]` where a worker stands. Each function
of `store/jobs.py` is one statement and one step, but for `fail()`: `ReadRetries`
and `WriteFailure`. `complete`, `cancel` and the write of `fail` go by id alone, and
so do the actions. No worker of the repository calls these functions; workers and
callers of `cancel` are modelled from the functions they would call. `attempts`,
how often a job was claimed, is history.

### PeaksCache

A file is the set of the chunks in it. `put_bytes` empties it (`Truncate`) and
fills it chunk by chunk (`WriteChunk`) in place, while other threads of the pool
look, write or die; `Parses` is what `json.loads` and `PeaksData` accept.
`BucketSize` and `NBuckets` are the arithmetic of `extract_peaks`. The audio does
not change: the key of a file is the hash of its content.

### RenderTiming

`RenderTimingOf` and `Unusable` are `_derive_timing` over integer ticks and a
fraction for the tempo ratio. It is a function: the module's one action computes
it for every `Cut`.

### DbMigration

`stage` is the next statement of the bootstrap, `disk` what the file holds of what
the migration looks at: the shapes of `analysis_runs`, `tracks` and `candidates`,
the rows of the latter and of its copy. The initial states are no file, and every
file that version 1 to 7 may have left, with natural keys duplicated or NULL and
edges orphaned. `CrashDb` ends the process before the statements in `CrashAt`.

### TrackProfiles

One track. `run[s]` is the row of slot `s`, claimed and decided as AnalysisRuns
says in detail; `serial` tells apart runs whatever their ids. `builder[b].pc` is
where a thread stands:

| `pc` | the thread is about to | code |
|---|---|---|
| `existing` | read the profile there is | `track_profiles.get` in `build_profile` |
| `row`, `sources`, `finished` | run the three statements of the staleness check | `is_stale` |
| `reading` | read the runs and choose | `_newest_completed_by_analyzer`, `_select_beat_grid` |
| `stamping` | take `built_at` | `utc_now_iso()` |
| `storing` | run the upsert | `track_profiles.upsert` |

The clock counts whole seconds, as the timestamps do. `labeller` is a request
between its check of the run and the insertion of the label.

### PollingPages

`refresh[r]` is the r-th call of `refresh()`, `seq` and `mounted` the refs it
tests after every await, `signal` its AbortController. `page` chooses the library
or the track page, plain or under StrictMode, where `MountPage` runs the effects
twice on the same refs, as React does in development, and what the rows stand for:
the lists that only a refresh writes, or the projects.

`graph` is `buildGraph()` between its click and its dispatch: `base` is the version of
the projects in its closure, `project` the version its own project made. `GraphBuilt`
writes without testing the refs, after an unmount as well, as the code dispatches
(`LibraryPage.tsx` 217-224); React then drops it, for the page has gone. Its button is
disabled while it runs. A list of its click with its own project in front, when other
changes lie between, is counted as the version of the click. `put` is history.

### MCServices

These six share no variable with one another: labels and profiles, which share the
runs, are one module. The run therefore needs none of their interleavings: `part`
says which of them moves, and the others stay in their initial states.

## What the runs check

| Run | Bounds | Shows |
|---|---|---|
| `analysis_claims` | 1 track, 2 callers, 4 tokens, 3 faults, force or not, stalls, fair | decided rows belong to their claims, cached results are kept, only faults orphan, `ClaimedSlots` is implemented (a claim decides its slot once); requests end, orphans are taken over |
| `analysis_exclusive` (violated) | 2 tracks, 3 callers, 5 tokens, no fault, no force, no stall | two requests execute one slot |
| `renders` | 1 pair, 3 threads, 2 renders, 1 fault, force, stalls | one running row, one ffmpeg, completed with file, cancel stands, only faults orphan |
| `renders_punctual` | 2 pairs, 2 threads, 2 renders, 1 fault, force or not, limits 0, 1, 1 | `RenderLifecycle` is implemented |
| `renders_progress` | 1 pair, 2 threads, 2 renders, 1 fault, no force, fair | requests end, orphans are recovered |
| `renders_overwritten` (violated) | 1 pair, 2 threads, 1 render, no fault, no stall | a completed render turns failed |
| `plugin_calls` | 2 callers, 2 calls, 2 processes, 1 stray line, fair | answers with an id go to their requests, one request at a time but after a line without an id, no forgotten process but one whose reader has ended; calls and stops end where no write is blocked for ever |
| `graph_builds` | 3 tracks, 1 target each, 2 builders, 2 builds, 1 render, 1 edit, all tracks or two | nothing hangs, the graph stays one build's size, renders outlive rebuilds, `StableGraph` is implemented |
| `graph_feedback` | 2 tracks, 2 genres, 2 beat sources, 1 builder, 2 builds, 1 render with up to 4 labels, 1 edit | feedback is heeded |
| `graph_dropped` (violated) | 2 tracks, 1 builder, 3 builds, 1 render with 3 labels, no edit | what feedback dropped comes back |
| `store_services` | jobs: 2 workers, 2 jobs, `max_retries` 0 or 3, 2 cancels, 1 death, fair | tries are bounded, one worker has a job, jobs end |
| | peaks: 2 threads, 2 widths, audio of 0 to 7 samples, 2 chunks, 1 mishap | answers are whole, of the width asked for, and within it |
| | migration: files of any version with any rows over 2 ids, 2 edges, 1 crash, not between DROP and RENAME | the present shape is served, no candidate is lost |
| | profiles: 1 builder, 2 analyzers, 2 outputs, 2 runs, 2 claims, 1 deletion, clock of 2 s | forced builds are current, broken provenance is stale, labels stand on decided runs, grids fit |
| | pages: either page, StrictMode or not, lists or projects, 2 refreshes, 2 changes | no refresh brings back what is older, or writes after unmounting; a build brings the projects back no further than its click; the newest refresh counts |
| | timing: every technique, 4 cues, 5 lengths, 4 rooms, 3 tempo ratios | cuts lie within both tracks |
| `migration_interrupted` (violated) | the migration, 1 crash anywhere | a start is refused for what a crash has left |

Why these bounds are enough to be interesting: a displaced claim needs two callers
and a third token for the claim after it; the fourth lets that one be orphaned and
taken over in turn. One track is enough for it: slots share nothing but the
plugin's lock, and forced requests meet there on one slot as well. Staleness is
reached at age 3 with a threshold of 2. The race of a cancel, a recovery and a
worker needs three threads; a row that is recovered, rendered again and deleted
needs two ids. A late answer of a killed process needs two processes, and a
shifted one a stray line and two calls. A mixture of builds needs two threads, a
third track to be the other target, and one change of a profile between their
readings; three tracks with one target each is the smallest case in which the
limit on targets binds, and a long track one in which cues move. A technique fails
with three labels; the fourth can be a good one. Builds are numbered by commit, so
a third one adds no new overlap. A job that is cancelled and then failed by its
worker is queued again within two cancels; a second worker is there to get it. Two
chunks and a second writer make every kind of hole in a file; the sizes lie below,
at and between multiples of both widths. Two rows make a duplicate key, two edges
an orphan. A profile that outlives its source needs a deletion between a builder's
reading and its upsert, and a second run after it. Two refreshes overlap, and under
StrictMode they are those of the two mountings. Tokens, threads, tracks and pairs are
interchangeable; symmetry is used only where safety alone is checked and the
properties do not tell them apart. Every property has a mutant in `PROJECT.json`:
a plausible bug in the modelled code under which its run fails.

## Fairness

- A thread that can take its next step takes it (weak fairness): handlers run
  to the end, and time passes. The waits for an answer and for ffmpeg have timeouts
  (`queue.get(timeout)`, `communicate(timeout)`). Writing a request has none: there
  `PluginRuntime` assumes nothing, and `CallsEnd` is about the behaviours in which no
  write is blocked for ever. `AnalysisRuns` leaves that case out: its requests are a
  path, far below a pipe's buffer, and it has no direct calls of the plugin. Nothing
  is assumed of plugins or ffmpeg.
- `LockFairness` and the `SF` on `Lock` and `Stop`: `threading.Lock` is not
  fair, but no thread loses every race for it. Without it a request could starve
  behind endless others, which the code does not rule out.
- `ClientsKeepAsking`, `PagesKeepPolling`: recovery happens only when somebody
  asks. `OrphanRecovered` says what the code can promise: given requests, the
  row is taken over. The library page polls every five seconds.
- `JobFairness`: workers poll, and a worker that has a job completes it or fails
  it. Workers are not part of the repository; this is what its docstring says of
  them ("poll for queued jobs by kind"). A worker that dies gives no such
  promise, and `JobsEnd` excepts it.
- `Restart`: a backend that is down is started again.

## What is proved

Every safety invariant, action property and refinement that a passing run checks
is also proved, so that what the runs show on small instances holds for any
numbers of tracks, analyzers, callers, tokens, pairs, threads, renders, faults,
projects, profiles, genres, builds, labels, plugin processes, calls, lines,
workers, jobs, files, widths, slots, refreshes and changes, any time limits and
any lengths of audio. Where a property is true only under a condition the theorem
says so, and a run that violates it elsewhere, or a note below, shows that the
condition is needed.

The proofs use the `ASSUME`s of the modules and nothing else. These type the
constants; keep placeholders (`NoToken`, `NoProfile`, `NoTrack`, `NoOutput`) apart
from real values; order the hashes; make a library finite (`IsFiniteSet(Tracks)`)
and the set of limits that requests ask for not empty; let the clock of
`TrackProfiles` have at least one second; and give every analyzer output the
beats and duration that it is read for.

- `AnalysisRunsProofs`: `TypeOK`, `DecidedByCurrentClaim`,
  `AnswerIsOutcomeOrNewer`, `DecisionIsFinal`, `CachedResultKept`,
  `OnlyFaultsOrphan`, and that `AnalysisRuns` implements `ClaimedSlots`. The
  invariant is `IInv`. `DecidedByCurrentClaim` alone rests on the token guard of the
  UPDATE; the rest needs more, because the UPDATE does not test the status:
  `ExecutedRowRunning` (a row whose current claim is still being executed is
  undecided) makes the first terminal write of a claim its last, and
  `HoldersDistinct` (no two threads hold one token, none holds NULL) makes the
  claim's owner unique. Fresh tokens keep the latter inductive.
- `TransitionRendererProofs`: `TypeOK`, `OneRunningPerPair`, `OneEncoder`,
  `CancelStands`, `OnlyFaultsOrphan`, `CompletedWithFile`. `IInv` adds
  `SemaphoreHeld` (one thread holds the semaphore, or there is a permit: never
  both) and `WorksOnId` (a thread past its first look works on an id). `OneEncoder`
  follows because encoders of this process belong to threads that hold the
  semaphore; `CancelStands` because the terminal UPDATE tests the status;
  `CompletedWithFile` from `FilesInPlace`: only a delete takes the file of a row
  that a thread is verifying or about to complete, and the row goes next. None of
  these needs a limit on time.

  `RendersImplementLifecycle` and `CompletedStaysInTime` do. Their hypotheses are
  `MeasureLimit + EncodeLimit + VerifyLimit <= StaleAfter` and `~Stalls`; where the
  first fails, as it does with the limits in the code, `renders_overwritten`
  violates `CompletedStays`. `PunctualInv` says that a row at work is no older than the
  phases behind its thread allow (`RunsInTime`), so that no thread that
  recovers has found it stale (`RecoversStale`), and no cancel outlasts it
  (`CancelsInTime`).
- `PluginRuntimeProofs`: `TypeOK`, `AnswersOwnRequest`, `OneRequestAtATime`,
  `NoForgottenProcess`. `LockExcludes` makes one thread the only one to write
  and to read; `WaitsForNewest` says that it holds the newest id and the current
  process, so that the id which `call()` compares is its own; `LinesWritten`, that
  a line carries an id given out before, and None comes only from a reader that
  has ended. `OneRequestAtATime` needs `OnlyPending`: what the current process has
  still to read is the request of the thread that waits, or of a call that took a
  line without an id; and while it has not read the newest request no line with its
  id is on the way, so a call that takes an answer by its id leaves nothing behind.
  `SentOnce` makes that inductive: with its answer a request is gone from the inbox.
  Every other way out of `call()` drops the process.
- `CandidateGraphProofs`: `TypeOK`, `EdgesHaveEnds`, `RendersOutliveRebuilds`,
  `GraphBounded`, `FeedbackHeeded`, and that `CandidateGraph` implements
  `StableGraph`. `IInv` joins the types and foreign keys with `UniqueKeys`, the
  unique index: an upsert finds the one row with its key, so that row keeps its id
  and no render of it is in the surplus. `BuiltUnique` makes the index inductive:
  a build produces one row for each key, whatever it has read. Types need the
  foreign keys too, because feedback reads the genres of the tracks that renders
  join. `SizeInv` says of a build under way that the limit it was asked for is one
  of `Limits`, and `GraphBounded` that a project's rows are what some build
  produced: targets are counted by their ranks, rows of a pair by their numbers.
  `FeedbackHeeded` compares two keys computed at different times from different
  tables; the proof shows that they agree wherever the readings still hold
  (`ThreeBadFail`, `ReplaceOffers`), and that the labels counted are finitely
  many (`EvidenceFinite`).
- `JobQueueProofs`: `JobTypeOK`, `AttemptsBounded`, `OneWorkerPerJob`,
  `OnlyDeathStrands`. `JobInv` says that every claim but the one under way has cost a
  retry (`AttemptsCounted`), that a job which a worker has is not in the queue
  (`HeldNotQueued`), and that what `fail()` has read still holds when it writes
  (`RetriesAsRead`): only the job's own worker counts its retries, so the write
  by id is safe although the status may have changed.
- `PeaksCacheProofs`: `PeaksTypeOK`, `AnswersAsAsked`, `PeaksFit`. A file of one
  name never holds another width (`FilesOfOneWidth`), so that whole means right.
  The lemma `Buckets` is the arithmetic for every size and width.
- `RenderTimingProofs`: `TimingTypeOK`, and `TimingFits` for any lengths, cues and
  ratio: a crossfade plus a tail that is cut to what is left is no longer than the
  room.
- `ServicesProofs`, which joins the six parts of `MCServices`:
  - the migration: `ServesPresentShape`, wherever starts die, from `ShapeInv` (each
    stage with the shapes that the file has there; `IndexTells`: the unique
    index is right, and there before the version is written). `CandidatesKept`
    under `"rename" \notin CrashAt`, from `RowsInv`: what the copy made is what is
    alive while the old table is there (`CopyMade`), and of each natural key the
    preferred row survives (`BestSurvive`). `RestartNeverRefusedElsewhere`
    under `CrashAt \cap {"copy", "drop"} = {}`, from `SpareInWork`: a copy is there
    only while it is being used. So the windows in which a death loses candidates
    or the backend are exactly those of the findings below.
  - profiles: `ForcedBuildIsCurrent`, `BrokenProvenanceIsStale`,
    `LabelledRunWasDecided`, from `ProfilesInv`. AUTOINCREMENT makes ids as good as
    serials (`IdsAreSerials`), so a deleted source is never found again; a run that
    is over has been decided (`OverWasDecided`); what a builder has read was the
    choice at some time since its request (`ReadingsAllowed`).
  - pages: `ShownNeverGoesBack`, `NewestRefreshCounts`, from `PagesInv`. The
    newest refresh has nothing older than what is shown, nor than what a build under
    way may bring back, but for a list with a build's own project (`NewestIsAhead`);
    and a page that has gone is not mounted (`MountedOnScreen`).
  - `ServicesTypeOK` of the composition.

Three of these are in no run of their own: `AnalysisRuns.TypeOK`;
`DecisionIsFinal`, which `ImplementsClaimedSlots` checks with more; and
`OnlyDeathStrands`, without which `JobsEnd` would fail. (`JobTypeOK`,
`PeaksTypeOK` and `TimingTypeOK` are parts of `ServicesTypeOK`, and so are the
types of the other three; `PluginRuntime.TypeOK` is a part of its `IInv`.)

Only model-checked is liveness, which TLAPS cannot prove under fairness:
`RequestsEnd` and `OrphanRecovered` of `AnalysisRuns` and of `TransitionRenderer`,
`CallsEnd` of `PluginRuntime`, `JobsEnd`. `OneExecutorPerSlot` and
`DroppedStaysDropped`, which the code does not keep, are violated by their runs and
have no conditional theorem yet.

## Findings

- `analysis_exclusive`: `claim_running` says that two callers can never both
  proceed to the plugin. They can, without force: `started_at` is stamped before
  the wait for the plugin's lock, the call timeout starts after it. The token
  keeps the table right; the cost is an analysis done twice.
- `renders_overwritten`: recovery is for renders that a crash left behind, but a
  live render may take 760 s and is found stale after 600 s; and recovery updates
  by id without testing the status, and so turns a render that has been COMPLETED
  meanwhile into a FAILED one, with no crash anywhere.
- `graph_dropped`: a pair whose techniques have all failed loses its candidates,
  these their renders, these their labels; with the evidence gone the next
  rebuild offers the failed technique again. The test of the feature keeps other
  techniques in the pair.
- `migration_interrupted`: the migration calls itself idempotent, but rebuilds
  `candidates` outside a transaction, beginning with a `CREATE TABLE` that may not
  be there twice. After a crash between it and the `DROP` every later start fails.

Seen while modelling:

- A crash between `DROP` and `RENAME` of the same rebuild is worse and silent: the
  next start creates an empty `candidates`. `CandidatesKept` is checked without that
  crash (`NotBetweenTables`). And `get_conn` assigns `_conn` before `_bootstrap`, so
  that after a bootstrap that failed the process goes on with what it left.
- `TrackDetailPage` never sets `mountedRef` back to true, and `main.tsx` always has
  StrictMode: in development the cleanup of the first mounting leaves it false, and the
  page never shows an answer. `NewestRefreshCounts` excepts this case.
- A result or an error without an id passes the test of the id (`runtime.py` 246),
  is given to whoever waits, and leaves its request with the process. The SDK writes
  one for input that does not parse, the runtime writes no such input, and plugins
  are told not to print; after one, the process may have two requests, which the
  plugins' README says it never has, and the answer to the first ends it.
- The reader thread puts `None` also when `readline()` raises, as it does on output
  that is not UTF-8. `call()` then says that the plugin exited, of one that runs on,
  and forgets it without killing it, so that the next call starts a second one beside
  it. (It loses its pipes when its `Popen` is collected.) `NoForgottenProcess`
  excepts this case.
- The timeout that keeps a hung plugin from wedging the lock is on the answer only. A
  request beyond the pipe's buffer, which `POST /plugins/{name}/call` accepts, is
  written under the lock without one, and a plugin that does not read holds up every
  call. `CallsEnd` excepts this case.
- `buildGraph` writes the projects of its click after its requests, with no test of
  `mountedRef` or the sequence: a newer list that a poll has shown goes back, until the
  next refresh. `ShownNeverGoesBack` says no more than how far. The list of renders is
  patched in the same way by several buttons.
- A track that `saveGenre` has patched, or the list with a build's own project, may be
  brought back by a refresh begun before; refreshes that take longer than the five
  seconds between them are all dropped.
- A profile built from older runs may replace one built from newer; an analysis
  that finishes between the reading of the runs and the stamp, or in its second,
  does not make the profile stale; an unforced build returns the profile it read
  before it asked whether it is stale. A label may land on a row that a forced
  re-run has just reset.
- A job cancelled while its worker fails goes back into the queue; the job of a dead
  worker stays RUNNING. A failed loudness measurement is cached like a good one.
- A cancel during measuring or verifying is refused as "not owned by this backend
  worker", though it is; a worker whose row was deleted meets the branch marked
  "row pre-existed" and answers 500; two builds without `force` that both find no
  candidates both build.

## Not modelled, and the plan

Left out for good: signal processing and ffmpeg command lines (data without
state), the analyzer plugins behind `handle()`, the plugin registry (nothing of it
changes after start-up), configuration, CLI, logging, wording of messages,
`create_queued` and `cleanup_orphan_render_files` (called by tests only), the
roll-ups and lists that only display. Left out of the modules: the loudness cache,
which no later step depends on; the list of renders on the library page, which
buttons patch unguarded; the key and sections of a profile, chosen as the grid is;
scores of candidates. One statement, or one transaction, of `store/db.py` is one
step: `_db_lock` and SQLite are the atomicity assumption of every module.

Three simplifications that no property depends on: recovery decides row by row after
its SELECT which renders are stale, `Stale` decides all of them at the SELECT;
`analysis_runs.upsert` could be given a claim token, and nothing gives it one; a
profile a build cannot use counts as one without a grid.

Next, in this order:

1. The condition under which `OneExecutorPerSlot` holds, as a theorem: at most two
   callers, no force, no fault, and call timeouts within the staleness threshold.
   Likewise for `DroppedStaysDropped`: a pair that keeps one technique keeps its
   evidence.
2. An abstract specification of serial calls, which `PluginRuntime` implements and
   the call steps of `AnalysisRuns` rely on.
3. An abstract migration, one atomic step from what was found to what is served,
   implemented where no start dies in the two windows.
4. The facts that liveness rests on and that are safety: every waiting thread has
   a step that ends its wait, or time that does.
