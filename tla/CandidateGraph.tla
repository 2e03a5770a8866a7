--------------------------- MODULE CandidateGraph ---------------------------
(***************************************************************************)
(* The transition candidate graph: build_candidate_graph                   *)
(* (candidate_graph.py) over the candidates table (store/candidates.py),   *)
(* with the renders that hang on candidates, the labels listeners give     *)
(* them, and the feedback those labels are to the next build               *)
(* (store/render_labels.py).                                               *)
(*                                                                         *)
(* A build reads project, candidates, profiles, genres and feedback one    *)
(* statement at a time and then reconciles the table in one transaction;   *)
(* builds, renders, labels and deletions go on in between.                 *)
(*                                                                         *)
(* Scores, keys and listening labels of analyses say how good a candidate  *)
(* is, never which candidates there are: within a pair every candidate     *)
(* has the same score, and the sort is stable.  They are left out.         *)
(***************************************************************************)
EXTENDS Integers, FiniteSets, FiniteSetsExt

CONSTANTS
  Projects,    \* project ids; deleted ones do not come back
  Tracks,      \* content hashes
  HashOrder,   \* HashOrder[t]: the place of t in the order of the hashes
  Profiles,    \* usable profiles: [bpm, bars, source]
  NoProfile,   \* missing, blocked, without tempo or grid, or without cues
  Genres,      \* genres after normalize_family
  Untagged,    \* UNTAGGED_GENRE
  NoTrack,     \* the track is not in the library
  Builders,    \* threads in build_project_candidates
  Renderers,   \* threads in render_project_candidate
  Forces,      \* the values of a build's force flag
  Limits,      \* the values of max_candidates_per_pair
  Requests,    \* the sets of tracks that builds ask for
  MaxTargets,  \* MAX_TARGETS_PER_TRACK
  MaxBuilds,   \* bound on builds
  MaxRenders,  \* bound on renders
  MaxLabels,   \* bound on the labels of one render
  MaxEdits     \* bound on changes to tracks, profiles, genres and projects

ASSUME ProfileAssumption ==
  /\ \A f \in Profiles : /\ f.bpm \in Nat \ {0}
                         /\ f.bars \in Nat \ {0}
  /\ NoProfile \notin Profiles

ASSUME LibraryAssumption ==
  /\ IsFiniteSet(Tracks)
  /\ Untagged \in Genres /\ NoTrack \notin Genres
  /\ HashOrder \in [Tracks -> Nat]
  /\ \A t, u \in Tracks : HashOrder[t] = HashOrder[u] => t = u

ASSUME RequestAssumption ==
  /\ Forces \subseteq BOOLEAN
  /\ Limits \subseteq 1 .. 5 /\ Limits # {}
  /\ Requests \subseteq SUBSET Tracks

ASSUME BoundAssumption ==
  {MaxTargets, MaxBuilds, MaxRenders, MaxLabels, MaxEdits} \subseteq Nat

VARIABLES
  project,     \* project[p]: is it not yet, in, or no longer in the table?
  library,     \* library[t]: the genre of track t, or NoTrack
  profile,     \* the track_profiles table
  candidates,  \* the rows of the candidates table
  commits,     \* builds that reached the table
  renders,     \* the rows of render_artifacts, each with its labels counted
  lastRender,  \* the last id of a render
  builder,     \* builder[b]: where thread b is in build_candidate_graph
  renderer,    \* renderer[w]: where thread w is in render_candidate
  begun,       \* builds so far
  edits,       \* changes so far
  dropped      \* history: what the builds left out because of feedback, as far
               \* as no user has changed anything since

store == <<project, library, profile>>
graph == <<candidates, commits>>
evidence == <<renders, lastRender>>
vars == <<store, graph, evidence, builder, renderer, begun, edits, dropped>>

-----------------------------------------------------------------------------
(* What the builder computes. *)

Technique == {"phrase_swap", "filter_blend", "long_crossfade", "echo_out"}

Distance(x, y) == IF x < y THEN y - x ELSE x - y

\* How far apart two tempi are over half and double time, times 2 * from.
TempoOffset(from, to) == Min({Distance(2 * from, k * to) : k \in {1, 2, 4}})

\* _tempo_delta_pct(from, to) <= percent
TempoWithin(from, to, percent) == 100 * TempoOffset(from, to) <= percent * 2 * from

AllowedTechniques(from, to) ==
  {q \in Technique :
     CASE q = "phrase_swap" -> TempoWithin(from, to, 3)
       [] q = "filter_blend" -> TempoWithin(from, to, 6)
       [] q = "long_crossfade" -> TempoWithin(from, to, 10)
       [] q = "echo_out" -> TempoWithin(from, to, 12) /\ ~TempoWithin(from, to, 10)}

\* The usable tracks in reach of s, and of those the nearest MaxTargets.
InReach(s, seen) ==
  {t \in Tracks \ {s} : /\ seen[t] # NoProfile
                        /\ TempoWithin(seen[s].bpm, seen[t].bpm, 12)}

Nearer(s, t, u, seen) ==
  LET offset(x) == TempoOffset(seen[s].bpm, seen[x].bpm)
  IN  \/ offset(t) < offset(u)
      \/ offset(t) = offset(u) /\ HashOrder[t] < HashOrder[u]

CandidateTargets(s, seen) ==
  {t \in InReach(s, seen) :
     Cardinality({u \in InReach(s, seen) : Nearer(s, u, t, seen)}) < MaxTargets}

\* Cues sit on the first bars of phrases of 8.  The last two phrases of the
\* source, the later first, meet the first two of the target; of these pairs,
\* which score alike, the first n stay.
Phrases(f) == (f.bars - 1) \div 8 + 1

\* Mutant: the phrases of the source counted from one, its bars from zero.
CuePairsShifted(source, target, n) ==
  LET out == {i \in {1, 2} : i <= Phrases(source)}
      into == {j \in {1, 2} : j <= Phrases(target)}
  IN  {<<8 * (Phrases(source) - c[1] - 1), 8 * (c[2] - 1)>> :
         c \in {d \in out \X into : (d[1] - 1) * Cardinality(into) + d[2] <= n}}

CuePairs(source, target, n) ==
  LET out == {i \in {1, 2} : i <= Phrases(source)}
      into == {j \in {1, 2} : j <= Phrases(target)}
  IN  {<<8 * (Phrases(source) - c[1]), 8 * (c[2] - 1)>> :
         c \in {d \in out \X into : (d[1] - 1) * Cardinality(into) + d[2] <= n}}

SourcePairs == {f.source : f \in Profiles} \X {f.source : f \in Profiles}

Families == SourcePairs \X Genres \X Genres

\* pair_family_key
Family(sources, fromGenre, toGenre) == <<sources, fromGenre, toGenre>>

-----------------------------------------------------------------------------
(* The tables. *)

\* The AUTOINCREMENT id is the number of the commit that inserted the row:
\* next to the natural key, which is unique, that is as good as an id.
Key == [project : Projects, from : Tracks, to : Tracks, fromBar : Nat, toBar : Nat]

KeyOf(r) == [project |-> r.project, from |-> r.from, to |-> r.to,
             fromBar |-> r.fromBar, toBar |-> r.toBar]

\* techniques is allowed_techniques; sources is scores.from_source, to_source.
Row == [id : Nat, project : Projects, from : Tracks, to : Tracks, fromBar : Nat, toBar : Nat,
        techniques : SUBSET Technique, sources : SourcePairs]

Render == [id : Nat, of : [key : Key, id : Nat], technique : Technique,
           sources : SourcePairs, good : Nat, bad : Nat]

\* What a foreign key on candidates(id) holds.
Ref(r) == [key |-> KeyOf(r), id |-> r.id]

Refs == {Ref(r) : r \in candidates}

GraphOf(p) == {r \in candidates : r.project = p}

RendersOf(rows) == {x \in renders : x.of \in {Ref(r) : r \in rows}}

FamilyOf(x) == Family(x.sources, library[x.of.key.from], library[x.of.key.to])

\* rollup_by_technique_and_pair, over the kinds of label that are bad and over all:
\* the rows of render_labels that join the renders of a verdict.  (A genre spelled
\* like UNTAGGED_GENRE, which the rollup confuses with none, is left out.)
LabelsOf(verdict) ==
  LET judging == {x \in renders : <<x.technique, FamilyOf(x)>> = verdict}
      bad == UNION {{x} \X (1 .. x.bad) : x \in judging}
      good == UNION {{x} \X (1 .. x.good) : x \in judging}
  IN  [bad |-> Cardinality(bad), total |-> Cardinality(bad) + Cardinality(good)]

TechniqueHardFailed(counts) ==
  counts.bad >= 3 /\ counts.total > 0 /\ 10 * counts.bad >= 6 * counts.total

\* The verdicts of the feedback: techniques that failed for a family.
HardFailed ==
  {v \in {<<x.technique, FamilyOf(x)>> : x \in renders} : TechniqueHardFailed(LabelsOf(v))}

-----------------------------------------------------------------------------
(* A build, one thread and one statement at a time. *)

\* Every thread with nothing to do looks the same.
Idle == [pc |-> "idle"]

Unseen == [t \in Tracks |-> NoProfile]

Unread == [t \in Tracks |-> NoTrack]

BuildPC == {"looking", "profiling", "rating", "replacing"}

\* todo: tracks still to be read; seen, genre, feedback: what has been read.
Build == [pc : BuildPC, project : Projects, force : BOOLEAN, limit : 1 .. 5,
          todo : SUBSET Tracks, seen : [Tracks -> Profiles \cup {NoProfile}],
          genre : [Tracks -> Genres \cup {NoTrack}],
          feedback : SUBSET (Technique \X Families)]

Usable(b) == {t \in Tracks : builder[b].seen[t] # NoProfile}

\* projects.get finds the project (otherwise 404).  The request names the
\* tracks, or list_all does: some of them may be missing.
Begin(b, p, force, limit, asked) ==
  /\ builder[b].pc = "idle" /\ begun < MaxBuilds
  /\ project[p] = "live"
  /\ builder' = [builder EXCEPT ![b] =
       [pc |-> "looking", project |-> p, force |-> force, limit |-> limit, todo |-> asked,
        seen |-> Unseen, genre |-> Unread, feedback |-> {}]]
  /\ begun' = begun + 1
  /\ UNCHANGED <<store, graph, evidence, renderer, edits, dropped>>

\* candidates.list_for_project: without force, existing candidates are returned.
Look(b) ==
  /\ builder[b].pc = "looking"
  /\ builder' = [builder EXCEPT ![b] =
       IF GraphOf(@.project) # {} /\ ~@.force THEN Idle ELSE [@ EXCEPT !.pc = "profiling"]]
  /\ UNCHANGED <<store, graph, evidence, renderer, begun, edits, dropped>>

\* tracks.get and track_profiles.get of one track.
ReadProfile(b, t) ==
  /\ builder[b].pc = "profiling" /\ t \in builder[b].todo
  /\ builder' = [builder EXCEPT ![b].todo = @ \ {t}, ![b].seen[t] = profile[t]]
  /\ UNCHANGED <<store, graph, evidence, renderer, begun, edits, dropped>>

\* All profiles are read; the labels that follow only weigh in the scores.
ReadLabels(b) ==
  /\ builder[b].pc = "profiling" /\ builder[b].todo = {}
  /\ builder' = [builder EXCEPT ![b].pc = "rating", ![b].todo = Usable(b)]
  /\ UNCHANGED <<store, graph, evidence, renderer, begun, edits, dropped>>

\* A track that has gone meanwhile counts as untagged.
ReadGenre(b, t) ==
  /\ builder[b].pc = "rating" /\ t \in builder[b].todo
  /\ builder' = [builder EXCEPT ![b].todo = @ \ {t},
       ![b].genre[t] = IF library[t] = NoTrack THEN Untagged ELSE library[t]]
  /\ UNCHANGED <<store, graph, evidence, renderer, begun, edits, dropped>>

ReadFeedback(b) ==
  /\ builder[b].pc = "rating" /\ builder[b].todo = {}
  /\ builder' = [builder EXCEPT ![b].pc = "replacing", ![b].feedback = HardFailed]
  /\ UNCHANGED <<store, graph, evidence, renderer, begun, edits, dropped>>

\* The sources and the family of a pair as the build has read them.
Sources(b, s, t) == <<builder[b].seen[s].source, builder[b].seen[t].source>>

FamilyRead(b, s, t) == Family(Sources(b, s, t), builder[b].genre[s], builder[b].genre[t])

TechniquesInReach(b, s, t) ==
  AllowedTechniques(builder[b].seen[s].bpm, builder[b].seen[t].bpm)

\* Mutant: the family looked up the wrong way round.
FilteredSwapped(b, s, t) ==
  {q \in TechniquesInReach(b, s, t) : <<q, FamilyRead(b, t, s)>> \notin builder[b].feedback}

\* _filter_techniques_by_render_feedback
Filtered(b, s, t) ==
  {q \in TechniquesInReach(b, s, t) : <<q, FamilyRead(b, s, t)>> \notin builder[b].feedback}

Pairs(b) ==
  {e \in Usable(b) \X Usable(b) : e[2] \in CandidateTargets(e[1], builder[b].seen)}

\* What the build produces: no candidate for a pair without a technique.
Built(b) ==
  UNION {{[project |-> builder[b].project, from |-> e[1], to |-> e[2],
           fromBar |-> c[1], toBar |-> c[2],
           techniques |-> Filtered(b, e[1], e[2]), sources |-> Sources(b, e[1], e[2])] :
             c \in CuePairs(builder[b].seen[e[1]], builder[b].seen[e[2]], builder[b].limit)} :
         e \in {d \in Pairs(b) : Filtered(b, d[1], d[2]) # {}}}

WithId(o, id) == [id |-> id, project |-> o.project, from |-> o.from, to |-> o.to,
                  fromBar |-> o.fromBar, toBar |-> o.toBar,
                  techniques |-> o.techniques, sources |-> o.sources]

\* Mutant: the conflict clause missing, or INSERT OR REPLACE: a new id each time.
UpsertedAnew(o) == WithId(o, commits + 1)

\* INSERT ... ON CONFLICT(natural key) DO UPDATE keeps the id of the row it meets.
Upserted(o) ==
  IF \E r \in candidates : KeyOf(r) = KeyOf(o)
  THEN WithId(o, (CHOOSE r \in candidates : KeyOf(r) = KeyOf(o)).id)
  ELSE WithId(o, commits + 1)

\* Mutant: the table emptied and filled again.
SurplusAll(p, built) == GraphOf(p)

\* Mutant: rows no build produces any more are left in the table.
SurplusKept(p, built) == {}

\* The rows of the project the build did not produce.
Surplus(p, built) ==
  {r \in GraphOf(p) : KeyOf(r) \notin {KeyOf(o) : o \in built}}

\* Mutant: rows are not checked against the tables they refer to.
EndsExistUnchecked(built) == TRUE

\* The foreign keys of what is inserted.
EndsExist(built) ==
  \A o \in built : /\ project[o.project] = "live"
                   /\ library[o.from] # NoTrack /\ library[o.to] # NoTrack

\* Deleting candidates takes their renders and the labels of these along.
DropCandidates(gone) == renders' = renders \ RendersOf(gone)

\* The transaction of replace_for_project.
Replace(b) ==
  LET p == builder[b].project
      built == Built(b)
      surplus == Surplus(p, built)
  IN  /\ builder[b].pc = "replacing"
      /\ EndsExist(built)
      /\ candidates' = {r \in candidates \ surplus : KeyOf(r) \notin {KeyOf(o) : o \in built}}
                       \cup {Upserted(o) : o \in built}
      /\ DropCandidates(surplus)
      /\ commits' = commits + 1
      /\ dropped' = dropped \cup
           UNION {{<<p, e[1], e[2], q>> :
                     q \in TechniquesInReach(b, e[1], e[2]) \ Filtered(b, e[1], e[2])} :
                  e \in Pairs(b)}
      /\ builder' = [builder EXCEPT ![b] = Idle]
      /\ UNCHANGED <<store, lastRender, renderer, begun, edits>>

\* A foreign key fails, the transaction rolls back, and the answer is a 500.
ReplaceFails(b) ==
  /\ builder[b].pc = "replacing" /\ ~EndsExist(Built(b))
  /\ builder' = [builder EXCEPT ![b] = Idle]
  /\ UNCHANGED <<store, graph, evidence, renderer, begun, edits, dropped>>

-----------------------------------------------------------------------------
(* Renders and labels. *)

\* prepare_render: the candidate, and one of the techniques it allows.
AskRender(w, r, q) ==
  /\ renderer[w].pc = "idle" /\ lastRender < MaxRenders
  /\ q \in r.techniques
  /\ renderer' = [renderer EXCEPT ![w] =
       [pc |-> "preparing", of |-> Ref(r), technique |-> q, sources |-> r.sources]]
  /\ UNCHANGED <<store, graph, evidence, builder, begun, edits, dropped>>

SourceNow(t, fallback) == IF profile[t] = NoProfile THEN fallback ELSE profile[t].source

\* _confidence_snapshot: the sources of the profiles as they are by now.  (A
\* profile that is not usable is taken for one that has no grid.)
Snapshot(w) ==
  /\ renderer[w].pc = "preparing"
  /\ renderer' = [renderer EXCEPT ![w].pc = "creating",
       ![w].sources = <<SourceNow(renderer[w].of.key.from, @[1]),
                        SourceNow(renderer[w].of.key.to, @[2])>>]
  /\ UNCHANGED <<store, graph, evidence, builder, begun, edits, dropped>>

\* create_running: the INSERT finds its candidate.
CreateRender(w) ==
  /\ renderer[w].pc = "creating" /\ lastRender < MaxRenders
  /\ renderer[w].of \in Refs
  /\ renders' = renders \cup
       {[id |-> lastRender + 1, of |-> renderer[w].of, technique |-> renderer[w].technique,
         sources |-> renderer[w].sources, good |-> 0, bad |-> 0]}
  /\ lastRender' = lastRender + 1
  /\ renderer' = [renderer EXCEPT ![w] = Idle]
  /\ UNCHANGED <<store, graph, builder, begun, edits, dropped>>

\* A cached render, a conflict, an invalid request, or a candidate that has gone.
RenderComesToNothing(w) ==
  /\ renderer[w].pc # "idle"
  /\ renderer' = [renderer EXCEPT ![w] = Idle]
  /\ UNCHANGED <<store, graph, evidence, builder, begun, edits, dropped>>

RendererState == [pc : {"preparing", "creating"}, of : [key : Key, id : Nat],
                  technique : Technique, sources : SourcePairs]

\* What a user does makes the history start afresh.
UserActs == dropped' = {}

\* A label is added to, or taken from, a render that is there.
Relabel(x, good, bad) ==
  /\ good + bad <= MaxLabels
  /\ renders' = (renders \ {x}) \cup {[x EXCEPT !.good = good, !.bad = bad]}
  /\ UserActs
  /\ UNCHANGED <<store, graph, lastRender, builder, renderer, begun, edits>>

AddLabel(x) == Relabel(x, x.good + 1, x.bad) \/ Relabel(x, x.good, x.bad + 1)

DeleteLabel(x) ==
  \/ x.good > 0 /\ Relabel(x, x.good - 1, x.bad)
  \/ x.bad > 0 /\ Relabel(x, x.good, x.bad - 1)

DeleteRender(x) ==
  /\ renders' = renders \ {x}
  /\ UserActs
  /\ UNCHANGED <<store, graph, lastRender, builder, renderer, begun, edits>>

-----------------------------------------------------------------------------
(* Tracks, profiles and projects, which others change. *)

Edit ==
  /\ edits < MaxEdits /\ edits' = edits + 1
  /\ UserActs
  /\ UNCHANGED <<commits, lastRender, builder, renderer, begun>>

CreateProject(p) ==
  /\ project[p] = "new"
  /\ project' = [project EXCEPT ![p] = "live"]
  /\ Edit /\ UNCHANGED <<library, profile, candidates, renders>>

\* Candidates go with their project, renders with their candidates.
DeleteProject(p) ==
  /\ project[p] = "live"
  /\ project' = [project EXCEPT ![p] = "deleted"]
  /\ candidates' = candidates \ GraphOf(p)
  /\ DropCandidates(GraphOf(p))
  /\ Edit /\ UNCHANGED <<library, profile>>

\* (Every ingestion follows a deletion, and needs no bound of its own.)
Ingest(t) ==
  /\ library[t] = NoTrack
  /\ library' = [library EXCEPT ![t] = Untagged]
  /\ UserActs
  /\ UNCHANGED <<project, profile, graph, evidence, builder, renderer, begun, edits>>

SetGenre(t, g) ==
  /\ library[t] \notin {NoTrack, g}
  /\ library' = [library EXCEPT ![t] = g]
  /\ Edit /\ UNCHANGED <<project, profile, candidates, renders>>

\* build_profile replaces the profile, by a blocked one perhaps.
Reprofile(t, f) ==
  /\ library[t] # NoTrack /\ f # profile[t]
  /\ profile' = [profile EXCEPT ![t] = f]
  /\ Edit /\ UNCHANGED <<project, library, candidates, renders>>

EdgesOf(t) == {r \in candidates : t \in {r.from, r.to}}

\* Profile, candidates and renders go with the track.
DeleteTrack(t) ==
  /\ library[t] # NoTrack
  /\ library' = [library EXCEPT ![t] = NoTrack]
  /\ profile' = [profile EXCEPT ![t] = NoProfile]
  /\ candidates' = candidates \ EdgesOf(t)
  /\ DropCandidates(EdgesOf(t))
  /\ Edit /\ UNCHANGED project

-----------------------------------------------------------------------------
(* The specification. *)

\* A store with tracks already analysed, projects or not, and no graph yet.
Init ==
  /\ project \in [Projects -> {"new", "live"}]
  /\ library = [t \in Tracks |-> Untagged]
  /\ profile \in [Tracks -> Profiles]
  /\ candidates = {} /\ commits = 0
  /\ renders = {} /\ lastRender = 0
  /\ builder = [b \in Builders |-> Idle]
  /\ renderer = [w \in Renderers |-> Idle]
  /\ begun = 0 /\ edits = 0
  /\ dropped = {}

BuildStep(b) ==
  \/ \E p \in Projects, force \in Forces, limit \in Limits, asked \in Requests :
       Begin(b, p, force, limit, asked)
  \/ Look(b)
  \/ \E t \in Tracks : ReadProfile(b, t) \/ ReadGenre(b, t)
  \/ ReadLabels(b)
  \/ ReadFeedback(b)
  \/ Replace(b)
  \/ ReplaceFails(b)

RenderStep(w) ==
  \/ \E r \in candidates : \E q \in r.techniques : AskRender(w, r, q)
  \/ Snapshot(w)
  \/ CreateRender(w)
  \/ RenderComesToNothing(w)

Listen == \E x \in renders : AddLabel(x) \/ DeleteLabel(x) \/ DeleteRender(x)

Change ==
  \/ \E p \in Projects : CreateProject(p) \/ DeleteProject(p)
  \/ \E t \in Tracks : \/ Ingest(t)
                       \/ DeleteTrack(t)
                       \/ \E g \in Genres : SetGenre(t, g)
                       \/ \E f \in Profiles \cup {NoProfile} : Reprofile(t, f)

Next ==
  \/ \E b \in Builders : BuildStep(b)
  \/ \E w \in Renderers : RenderStep(w)
  \/ Listen
  \/ Change

Spec == Init /\ [][Next]_vars

-----------------------------------------------------------------------------
(* Properties. *)

\* Every variable has its type.
TypeOK ==
  /\ project \in [Projects -> {"new", "live", "deleted"}]
  /\ library \in [Tracks -> Genres \cup {NoTrack}]
  /\ profile \in [Tracks -> Profiles \cup {NoProfile}]
  /\ candidates \subseteq Row /\ commits \in Nat
  /\ renders \subseteq Render /\ lastRender \in Nat
  /\ builder \in [Builders -> Build \cup {Idle}]
  /\ renderer \in [Renderers -> RendererState \cup {Idle}]
  /\ begun \in Nat /\ edits \in Nat
  /\ dropped \subseteq Projects \X Tracks \X Tracks \X Technique

\* No candidate joins a track that has been deleted while a build was at work,
\* or belongs to a project that was, and no render hangs on a candidate that a
\* build took away while the render was prepared.
EdgesHaveEnds ==
  /\ \A r \in candidates : /\ project[r.project] = "live"
                           /\ library[r.from] # NoTrack /\ library[r.to] # NoTrack
  /\ \A x \in renders : x.of \in Refs

\* The graph never grows into a mixture of builds: however builds overlap and
\* profiles move, a source keeps to MAX_TARGETS_PER_TRACK targets, and a pair
\* to the largest max_candidates_per_pair anyone asked for.
GraphBounded ==
  \A p \in Projects, s \in Tracks :
    LET edges == {r \in GraphOf(p) : r.from = s}
    IN  /\ Cardinality({r.to : r \in edges}) <= MaxTargets
        /\ \A t \in Tracks : Cardinality({r \in edges : r.to = t}) <= Max(Limits)

\* A render and its labels outlive every change of the graph that keeps the
\* candidate's natural key: only genuinely removed candidates cost evidence
\* (replace_for_project).
RendersOutliveRebuilds ==
  [][candidates' # candidates =>
       \A x \in renders :
         (\E r \in candidates' : KeyOf(r) = x.of.key) => x \in renders']_vars

\* Feedback meets the candidates it was given for: labels count by the sources
\* a render recorded and the genres of now, candidates by what their build has
\* read, and yet a technique with three bad labels and no good one in its family
\* is not offered by a build all of whose readings still hold.
FeedbackHeeded ==
  [][\A b \in Builders :
       (/\ builder[b].pc = "replacing" /\ commits' # commits /\ builder'[b] = Idle
        /\ builder[b].feedback = HardFailed
        /\ \A t \in Usable(b) : /\ builder[b].seen[t] = profile[t]
                                /\ builder[b].genre[t] = library[t])
       => \A x \in renders, r \in candidates' :
            (/\ x.bad >= 3 /\ \A y \in renders : y.good = 0
             /\ r.project = builder[b].project
             /\ <<profile[r.from].source, profile[r.to].source>> = x.sources
             /\ library[r.from] = library[x.of.key.from]
             /\ library[r.to] = library[x.of.key.to])
            => x.technique \notin r.techniques]_vars

\* The ids that renders refer to stay with their natural keys.
Edge(r) == [id |-> r.id, project |-> r.project, from |-> r.from, to |-> r.to,
            fromBar |-> r.fromBar, toBar |-> r.toBar]

Stable == INSTANCE StableGraph WITH
  Project <- Projects, Track <- Tracks, last <- commits,
  graph <- {Edge(r) : r \in candidates}

ImplementsStableGraph == Stable!Spec

\* Claimed by tests/test_candidate_graph.py 352, "stops advertising hard failed
\* render technique": what a build left out for its failures, no build brings
\* back before a user has changed something.  (Violated: with the candidate go
\* its renders and their labels.)
DroppedStaysDropped ==
  \A r \in candidates : \A q \in r.techniques :
    <<r.project, r.from, r.to, q>> \notin dropped
=============================================================================
