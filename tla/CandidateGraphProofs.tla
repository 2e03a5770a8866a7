------------------------ MODULE CandidateGraphProofs ------------------------
(* Theorems about CandidateGraph, for any tracks, profiles, threads, bounds. *)
EXTENDS CandidateGraph, FiniteSetTheorems, TLAPS

USE ProfileAssumption, LibraryAssumption, RequestAssumption, BoundAssumption

-----------------------------------------------------------------------------
(* What a build produces. *)

\* The rows of Built(b), which have no id yet.
Produced == [project : Projects, from : Tracks, to : Tracks, fromBar : Nat, toBar : Nat,
             techniques : SUBSET Technique, sources : SourcePairs]

LEMMA IdleFacts == Idle \notin Build /\ Idle \notin RendererState /\ Idle.pc = "idle"
  BY DEF Idle, Build, RendererState

LEMMA BusyBuild ==
  ASSUME TypeOK, NEW b \in Builders, builder[b].pc # "idle"
  PROVE  builder[b] \in Build
  BY IdleFacts DEF TypeOK

LEMMA BusyRenderer ==
  ASSUME TypeOK, NEW w \in Renderers, renderer[w].pc # "idle"
  PROVE  renderer[w] \in RendererState
  BY IdleFacts DEF TypeOK

\* A profile has one phrase at least.
LEMMA PhrasesType ==
  ASSUME NEW f \in Profiles
  PROVE  Phrases(f) \in Nat
  BY DEF Phrases

LEMMA CuePairsType ==
  ASSUME NEW f \in Profiles, NEW g \in Profiles, NEW n, NEW c \in CuePairs(f, g, n)
  PROVE  c[1] \in Nat /\ c[2] \in Nat
  <1> DEFINE out == {i \in {1, 2} : i <= Phrases(f)}
             into == {j \in {1, 2} : j <= Phrases(g)}
  <1>1. PICK d \in out \X into : c = <<8 * (Phrases(f) - d[1]), 8 * (d[2] - 1)>>
    BY DEF CuePairs
  <1>2. d[1] \in {1, 2} /\ d[1] <= Phrases(f) /\ d[2] \in {1, 2}
    OBVIOUS
  <1>3. Phrases(f) - d[1] \in Nat /\ d[2] - 1 \in Nat
    BY <1>2, PhrasesType
  <1>4. QED BY <1>1, <1>3

\* Where a row of Built(b) comes from.
LEMMA BuiltFrom ==
  ASSUME NEW b, NEW o \in Built(b)
  PROVE  \E s \in Usable(b), t \in Usable(b) :
           \E c \in CuePairs(builder[b].seen[s], builder[b].seen[t], builder[b].limit) :
             o = [project |-> builder[b].project, from |-> s, to |-> t,
                  fromBar |-> c[1], toBar |-> c[2],
                  techniques |-> Filtered(b, s, t), sources |-> Sources(b, s, t)]
  BY DEF Built, Pairs

LEMMA BuiltType ==
  ASSUME TypeOK, NEW b \in Builders, builder[b].pc = "replacing", NEW o \in Built(b)
  PROVE  o \in Produced /\ o.project = builder[b].project
  <1>1. builder[b] \in Build
    BY BusyBuild
  <1>2. PICK s \in Usable(b), t \in Usable(b) :
          \E c \in CuePairs(builder[b].seen[s], builder[b].seen[t], builder[b].limit) :
             o = [project |-> builder[b].project, from |-> s, to |-> t,
                  fromBar |-> c[1], toBar |-> c[2],
                  techniques |-> Filtered(b, s, t), sources |-> Sources(b, s, t)]
    BY BuiltFrom
  <1>3. s \in Tracks /\ t \in Tracks /\ builder[b].seen[s] \in Profiles
        /\ builder[b].seen[t] \in Profiles
    BY <1>1 DEF Usable, Build
  <1>4. PICK c \in CuePairs(builder[b].seen[s], builder[b].seen[t], builder[b].limit) :
             o = [project |-> builder[b].project, from |-> s, to |-> t,
                  fromBar |-> c[1], toBar |-> c[2],
                  techniques |-> Filtered(b, s, t), sources |-> Sources(b, s, t)]
    BY <1>2
  <1>5. c[1] \in Nat /\ c[2] \in Nat
    BY <1>3, CuePairsType
  <1>6. Filtered(b, s, t) \in SUBSET Technique
    BY DEF Filtered, TechniquesInReach, AllowedTechniques
  <1>7. Sources(b, s, t) \in SourcePairs
    BY <1>3 DEF Sources, SourcePairs
  <1>8. builder[b].project \in Projects
    BY <1>1 DEF Build
  <1>9. QED BY <1>3, <1>4, <1>5, <1>6, <1>7, <1>8 DEF Produced

\* One row for a natural key: what a row carries depends on its pair alone.
LEMMA BuiltUnique ==
  ASSUME NEW b, NEW o \in Built(b), NEW q \in Built(b), KeyOf(o) = KeyOf(q)
  PROVE  o = q
  <1>1. o.from = q.from /\ o.to = q.to /\ o.fromBar = q.fromBar /\ o.toBar = q.toBar
    BY DEF KeyOf
  <1>2. /\ o = [project |-> builder[b].project, from |-> o.from, to |-> o.to,
                fromBar |-> o.fromBar, toBar |-> o.toBar,
                techniques |-> Filtered(b, o.from, o.to), sources |-> Sources(b, o.from, o.to)]
        /\ q = [project |-> builder[b].project, from |-> q.from, to |-> q.to,
                fromBar |-> q.fromBar, toBar |-> q.toBar,
                techniques |-> Filtered(b, q.from, q.to), sources |-> Sources(b, q.from, q.to)]
    BY BuiltFrom
  <1>3. QED BY <1>1, <1>2

-----------------------------------------------------------------------------
(* What the transaction does to the table. *)

\* The unique index on the natural key.
UniqueKeys == \A r, q \in candidates : KeyOf(r) = KeyOf(q) => r = q

LEMMA WithIdFacts ==
  ASSUME NEW o, NEW id
  PROVE  WithId(o, id).id = id /\ KeyOf(WithId(o, id)) = KeyOf(o)
  BY DEF WithId, KeyOf

LEMMA WithIdType ==
  ASSUME NEW o \in Produced, NEW id \in Nat
  PROVE  WithId(o, id) \in Row
  BY DEF WithId, Produced, Row

\* The conflict clause: the row it meets keeps its id.
LEMMA UpsertedKeeps ==
  ASSUME UniqueKeys, NEW o, NEW r \in candidates, KeyOf(r) = KeyOf(o)
  PROVE  Upserted(o).id = r.id /\ KeyOf(Upserted(o)) = KeyOf(o)
  <1> DEFINE found == CHOOSE q \in candidates : KeyOf(q) = KeyOf(o)
  <1>1. \E q \in candidates : KeyOf(q) = KeyOf(o)
    OBVIOUS
  <1>2. found \in candidates /\ KeyOf(found) = KeyOf(o)
    BY <1>1
  <1>3. found = r
    BY <1>2 DEF UniqueKeys
  <1>4. Upserted(o) = WithId(o, found.id)
    BY <1>1 DEF Upserted
  <1> HIDE DEF found
  <1>5. Upserted(o) = WithId(o, r.id)
    BY <1>3, <1>4
  <1>6. QED BY <1>5, WithIdFacts

LEMMA UpsertedNew ==
  ASSUME NEW o, \A r \in candidates : KeyOf(r) # KeyOf(o)
  PROVE  Upserted(o).id = commits + 1 /\ KeyOf(Upserted(o)) = KeyOf(o)
  BY WithIdFacts DEF Upserted

LEMMA UpsertedKey ==
  ASSUME UniqueKeys, NEW o
  PROVE  KeyOf(Upserted(o)) = KeyOf(o)
  BY UpsertedKeeps, UpsertedNew

LEMMA UpsertedType ==
  ASSUME TypeOK, NEW o \in Produced
  PROVE  Upserted(o) \in Row
  <1>1. CASE \E r \in candidates : KeyOf(r) = KeyOf(o)
    <2> DEFINE found == CHOOSE q \in candidates : KeyOf(q) = KeyOf(o)
    <2>1. found \in candidates
      BY <1>1
    <2>2. found.id \in Nat
      BY <2>1 DEF TypeOK, Row
    <2>3. Upserted(o) = WithId(o, found.id)
      BY <1>1 DEF Upserted
    <2>4. QED BY <2>2, <2>3, WithIdType
  <1>2. CASE ~(\E r \in candidates : KeyOf(r) = KeyOf(o))
    <2>1. Upserted(o) = WithId(o, commits + 1) /\ commits + 1 \in Nat
      BY <1>2 DEF Upserted, TypeOK
    <2>2. QED BY <2>1, WithIdType
  <1>3. QED BY <1>1, <1>2

\* Rows of other projects stay, and so does a row whose key is produced again,
\* under the id it had.
LEMMA ReplaceKeeps ==
  ASSUME TypeOK, UniqueKeys, NEW b \in Builders, Replace(b), NEW r \in candidates,
         \/ r.project # builder[b].project
         \/ \E o \in Built(b) : KeyOf(o) = KeyOf(r)
  PROVE  \E q \in candidates' : Edge(q) = Edge(r) /\ Ref(q) = Ref(r)
  <1> DEFINE built == Built(b)
             surplus == Surplus(builder[b].project, built)
  <1>1. candidates' = {q \in candidates \ surplus : KeyOf(q) \notin {KeyOf(o) : o \in built}}
                      \cup {Upserted(o) : o \in built}
    BY DEF Replace
  <1>2. CASE \E o \in built : KeyOf(o) = KeyOf(r)
    <2>1. PICK o \in built : KeyOf(o) = KeyOf(r)
      BY <1>2
    <2>2. Upserted(o) \in candidates'
      BY <1>1, <2>1
    <2>3. Upserted(o).id = r.id /\ KeyOf(Upserted(o)) = KeyOf(r)
      BY <2>1, UpsertedKeeps
    <2>4. Edge(Upserted(o)) = Edge(r) /\ Ref(Upserted(o)) = Ref(r)
      BY <2>3 DEF Edge, Ref, KeyOf
    <2>5. QED BY <2>2, <2>4
  <1>3. CASE ~(\E o \in built : KeyOf(o) = KeyOf(r))
    <2>1. r \notin surplus
      BY <1>3 DEF Surplus, GraphOf
    <2>2. r \in candidates'
      BY <1>1, <1>3, <2>1
    <2>3. QED BY <2>2
  <1>4. QED BY <1>2, <1>3

\* Every row afterwards is one of another project, or produced by the build,
\* with the id its key had, or else the new one.
LEMMA ReplaceGives ==
  ASSUME TypeOK, UniqueKeys, NEW b \in Builders, Replace(b), NEW q \in candidates'
  PROVE  \/ q \in candidates /\ q.project # builder[b].project
         \/ /\ \E o \in Built(b) : q = Upserted(o) /\ KeyOf(q) = KeyOf(o)
            /\ q.project = builder[b].project
            /\ \/ \E r \in candidates : Edge(r) = Edge(q)
               \/ q.id = commits + 1 /\ \A r \in candidates : KeyOf(r) # KeyOf(q)
  <1> DEFINE built == Built(b)
             surplus == Surplus(builder[b].project, built)
  <1>1. candidates' = {r \in candidates \ surplus : KeyOf(r) \notin {KeyOf(o) : o \in built}}
                      \cup {Upserted(o) : o \in built}
    BY DEF Replace
  <1>2. CASE q \in {r \in candidates \ surplus : KeyOf(r) \notin {KeyOf(o) : o \in built}}
    BY <1>2 DEF Surplus, GraphOf
  <1>3. CASE q \in {Upserted(o) : o \in built}
    <2>1. PICK o \in built : q = Upserted(o)
      BY <1>3
    <2>2. KeyOf(q) = KeyOf(o)
      BY <2>1, UpsertedKey
    <2>3. o.project = builder[b].project
      BY BuiltType DEF Replace
    <2>4. q.project = builder[b].project
      BY <2>2, <2>3 DEF KeyOf
    <2>5. CASE \E r \in candidates : KeyOf(r) = KeyOf(o)
      <3>1. PICK r \in candidates : KeyOf(r) = KeyOf(o)
        BY <2>5
      <3>2. q.id = r.id
        BY <2>1, <3>1, UpsertedKeeps
      <3>3. Edge(r) = Edge(q)
        BY <2>2, <3>1, <3>2 DEF Edge, KeyOf
      <3>4. QED BY <2>1, <2>2, <2>4, <3>3
    <2>6. CASE ~(\E r \in candidates : KeyOf(r) = KeyOf(o))
      <3>1. q.id = commits + 1
        BY <2>1, <2>6, UpsertedNew
      <3>2. QED BY <2>1, <2>2, <2>4, <2>6, <3>1
    <2>7. QED BY <2>5, <2>6
  <1>4. QED BY <1>1, <1>2, <1>3

-----------------------------------------------------------------------------
(* Types. *)

\* IInv: the foreign keys, and the unique index they are looked up by.  The
\* types rest on the former, for the feedback reads the genres of the tracks
\* that renders join.
IInv == TypeOK /\ EdgesHaveEnds /\ UniqueKeys

LEMMA HardFailedType ==
  ASSUME TypeOK, EdgesHaveEnds
  PROVE  HardFailed \subseteq Technique \X Families
  <1>1. ASSUME NEW x \in renders
        PROVE  <<x.technique, FamilyOf(x)>> \in Technique \X Families
    <2>1. x \in Render /\ x.of \in Refs
      BY DEF TypeOK, EdgesHaveEnds
    <2>2. PICK r \in candidates : x.of = Ref(r)
      BY <2>1 DEF Refs
    <2>3. x.of.key.from = r.from /\ x.of.key.to = r.to
      BY <2>2 DEF Ref, KeyOf
    <2>4. library[r.from] \in Genres /\ library[r.to] \in Genres
      BY DEF TypeOK, EdgesHaveEnds, Row
    <2>5. FamilyOf(x) \in Families
      BY <2>1, <2>3, <2>4 DEF FamilyOf, Family, Families, Render
    <2>6. QED BY <2>1, <2>5 DEF Render
  <1>2. QED BY <1>1 DEF HardFailed

LEMMA RefType ==
  ASSUME TypeOK, NEW r \in candidates
  PROVE  Ref(r) \in [key : Key, id : Nat] /\ r.sources \in SourcePairs
         /\ r.techniques \subseteq Technique
  BY DEF TypeOK, Row, Ref, KeyOf, Key

LEMMA TypeInit == Init => TypeOK
  BY DEF Init, TypeOK

LEMMA TypeStep == IInv /\ [Next]_vars => TypeOK'
  <1> SUFFICES ASSUME IInv, [Next]_vars PROVE TypeOK'
    OBVIOUS
  <1>0. TypeOK /\ EdgesHaveEnds /\ UniqueKeys
    BY DEF IInv
  <1> USE DEF store, graph, evidence
  <1>1. ASSUME NEW b \in Builders, NEW p \in Projects, NEW force \in Forces,
               NEW limit \in Limits, NEW asked \in Requests, Begin(b, p, force, limit, asked)
        PROVE  TypeOK'
    <2> DEFINE new == [pc |-> "looking", project |-> p, force |-> force, limit |-> limit,
                       todo |-> asked, seen |-> Unseen, genre |-> Unread, feedback |-> {}]
    <2>1. new \in Build
      BY DEF Build, BuildPC, Unseen, Unread
    <2>2. builder' = [builder EXCEPT ![b] = new]
      BY <1>1 DEF Begin
    <2>3. builder' \in [Builders -> Build \cup {Idle}]
      BY <1>0, <2>1, <2>2 DEF TypeOK
    <2>4. QED BY <1>0, <1>1, <2>3 DEF TypeOK, Begin
  <1>2. ASSUME NEW b \in Builders, Look(b) PROVE TypeOK'
    <2>1. builder[b] \in Build
      BY <1>0, <1>2, BusyBuild DEF Look
    <2>2. [builder[b] EXCEPT !.pc = "profiling"] \in Build
      BY <2>1 DEF Build, BuildPC
    <2>3. builder' \in [Builders -> Build \cup {Idle}]
      BY <1>0, <1>2, <2>2 DEF TypeOK, Look
    <2>4. QED BY <1>0, <1>2, <2>3 DEF TypeOK, Look
  <1>3. ASSUME NEW b \in Builders, NEW t \in Tracks, ReadProfile(b, t) PROVE TypeOK'
    <2>1. builder[b] \in Build
      BY <1>0, <1>3, BusyBuild DEF ReadProfile
    <2>2. [builder[b] EXCEPT !.todo = @ \ {t}, !.seen[t] = profile[t]] \in Build
      BY <1>0, <2>1 DEF TypeOK, Build
    <2>3. builder' \in [Builders -> Build \cup {Idle}]
      BY <1>0, <1>3, <2>2 DEF TypeOK, ReadProfile
    <2>4. QED BY <1>0, <1>3, <2>3 DEF TypeOK, ReadProfile
  <1>4. ASSUME NEW b \in Builders, NEW t \in Tracks, ReadGenre(b, t) PROVE TypeOK'
    <2> DEFINE g == IF library[t] = NoTrack THEN Untagged ELSE library[t]
    <2>1. builder[b] \in Build
      BY <1>0, <1>4, BusyBuild DEF ReadGenre
    <2>2. g \in Genres
      BY <1>0 DEF TypeOK
    <2>3. [builder[b] EXCEPT !.todo = @ \ {t}, !.genre[t] = g] \in Build
      BY <2>1, <2>2 DEF Build
    <2>4. builder' \in [Builders -> Build \cup {Idle}]
      BY <1>0, <1>4, <2>3 DEF TypeOK, ReadGenre
    <2>5. QED BY <1>0, <1>4, <2>4 DEF TypeOK, ReadGenre
  <1>5. ASSUME NEW b \in Builders, ReadLabels(b) PROVE TypeOK'
    <2>1. builder[b] \in Build
      BY <1>0, <1>5, BusyBuild DEF ReadLabels
    <2>2. [builder[b] EXCEPT !.pc = "rating", !.todo = Usable(b)] \in Build
      BY <2>1 DEF Build, BuildPC, Usable
    <2>3. builder' \in [Builders -> Build \cup {Idle}]
      BY <1>0, <1>5, <2>2 DEF TypeOK, ReadLabels
    <2>4. QED BY <1>0, <1>5, <2>3 DEF TypeOK, ReadLabels
  <1>6. ASSUME NEW b \in Builders, ReadFeedback(b) PROVE TypeOK'
    <2>1. builder[b] \in Build
      BY <1>0, <1>6, BusyBuild DEF ReadFeedback
    <2>2. [builder[b] EXCEPT !.pc = "replacing", !.feedback = HardFailed] \in Build
      BY <1>0, <2>1, HardFailedType DEF Build, BuildPC
    <2>3. builder' \in [Builders -> Build \cup {Idle}]
      BY <1>0, <1>6, <2>2 DEF TypeOK, ReadFeedback
    <2>4. QED BY <1>0, <1>6, <2>3 DEF TypeOK, ReadFeedback
  <1>7. ASSUME NEW b \in Builders, Replace(b) PROVE TypeOK'
    <2>1. builder[b] \in Build /\ builder[b].pc = "replacing"
      BY <1>0, <1>7, BusyBuild DEF Replace
    <2>2. candidates' \subseteq Row
      <3>1. ASSUME NEW q \in candidates' PROVE q \in Row
        <4>1. CASE q \in candidates
          BY <1>0, <4>1 DEF TypeOK
        <4>2. ASSUME NEW o \in Built(b), q = Upserted(o) PROVE q \in Row
          BY <1>0, <2>1, <4>2, BuiltType, UpsertedType
        <4>3. QED BY <1>0, <1>7, <4>1, <4>2, ReplaceGives
      <3>2. QED BY <3>1
    <2>3. renders' \subseteq Render
      BY <1>0, <1>7 DEF TypeOK, Replace, DropCandidates
    <2>4. dropped' \subseteq Projects \X Tracks \X Tracks \X Technique
      <3>1. \A e \in Pairs(b) : e[1] \in Tracks /\ e[2] \in Tracks
        BY DEF Pairs, Usable
      <3>2. \A e \in Pairs(b) : TechniquesInReach(b, e[1], e[2]) \subseteq Technique
        BY DEF TechniquesInReach, AllowedTechniques
      <3>3. builder[b].project \in Projects
        BY <2>1 DEF Build
      <3>4. dropped' = dropped \cup
              UNION {{<<builder[b].project, e[1], e[2], q>> :
                        q \in TechniquesInReach(b, e[1], e[2]) \ Filtered(b, e[1], e[2])} :
                     e \in Pairs(b)}
        BY <1>7 DEF Replace
      <3>5. QED BY <1>0, <3>1, <3>2, <3>3, <3>4 DEF TypeOK
    <2>5. commits' \in Nat
      BY <1>0, <1>7 DEF TypeOK, Replace
    <2>6. builder' \in [Builders -> Build \cup {Idle}]
      BY <1>0, <1>7 DEF TypeOK, Replace
    <2>7. QED BY <1>0, <1>7, <2>2, <2>3, <2>4, <2>5, <2>6 DEF TypeOK, Replace
  <1>8. ASSUME NEW b \in Builders, ReplaceFails(b) PROVE TypeOK'
    BY <1>0, <1>8 DEF TypeOK, ReplaceFails
  <1>9. ASSUME NEW w \in Renderers, NEW r \in candidates, NEW q \in r.techniques,
               AskRender(w, r, q)
        PROVE  TypeOK'
    <2> DEFINE new == [pc |-> "preparing", of |-> Ref(r), technique |-> q, sources |-> r.sources]
    <2>1. new \in RendererState
      BY <1>0, RefType DEF RendererState
    <2>2. renderer' \in [Renderers -> RendererState \cup {Idle}]
      BY <1>0, <1>9, <2>1 DEF TypeOK, AskRender
    <2>3. QED BY <1>0, <1>9, <2>2 DEF TypeOK, AskRender
  <1>10. ASSUME NEW w \in Renderers, Snapshot(w) PROVE TypeOK'
    <2>1. renderer[w] \in RendererState
      BY <1>0, <1>10, BusyRenderer DEF Snapshot
    <2> DEFINE key == renderer[w].of.key
               srcs == <<SourceNow(key.from, renderer[w].sources[1]),
                         SourceNow(key.to, renderer[w].sources[2])>>
    <2>2. key.from \in Tracks /\ key.to \in Tracks
      BY <2>1 DEF RendererState, Key
    <2>3. srcs \in SourcePairs
      BY <1>0, <2>1, <2>2 DEF TypeOK, SourceNow, SourcePairs, RendererState
    <2>4. [renderer[w] EXCEPT !.pc = "creating", !.sources = srcs] \in RendererState
      BY <2>1, <2>3 DEF RendererState
    <2>5. renderer' \in [Renderers -> RendererState \cup {Idle}]
      BY <1>0, <1>10, <2>4 DEF TypeOK, Snapshot
    <2>6. QED BY <1>0, <1>10, <2>5 DEF TypeOK, Snapshot
  <1>11. ASSUME NEW w \in Renderers, CreateRender(w) PROVE TypeOK'
    <2>1. renderer[w] \in RendererState
      BY <1>0, <1>11, BusyRenderer DEF CreateRender
    <2>2. lastRender + 1 \in Nat
      BY <1>0 DEF TypeOK
    <2>3. renders' \subseteq Render
      BY <1>0, <1>11, <2>1, <2>2 DEF TypeOK, CreateRender, Render, RendererState
    <2>4. QED BY <1>0, <1>11, <2>2, <2>3 DEF TypeOK, CreateRender
  <1>12. ASSUME NEW w \in Renderers, RenderComesToNothing(w) PROVE TypeOK'
    BY <1>0, <1>12 DEF TypeOK, RenderComesToNothing
  <1>13. ASSUME NEW x \in renders, NEW good \in Nat, NEW bad \in Nat, Relabel(x, good, bad)
         PROVE  TypeOK'
    <2>1. x \in Render
      BY <1>0 DEF TypeOK
    <2>2. [x EXCEPT !.good = good, !.bad = bad] \in Render
      BY <2>1 DEF Render
    <2>3. renders' \subseteq Render
      BY <1>0, <1>13, <2>2 DEF TypeOK, Relabel
    <2>4. QED BY <1>0, <1>13, <2>3 DEF TypeOK, Relabel, UserActs
  <1>14. ASSUME NEW x \in renders, AddLabel(x) \/ DeleteLabel(x) PROVE TypeOK'
    <2>1. x.good \in Nat /\ x.bad \in Nat
      BY <1>0 DEF TypeOK, Render
    <2>2. \E good \in Nat, bad \in Nat : Relabel(x, good, bad)
      BY <1>14, <2>1 DEF AddLabel, DeleteLabel
    <2>3. QED BY <1>13, <2>2
  <1>15. ASSUME NEW x \in renders, DeleteRender(x) PROVE TypeOK'
    BY <1>0, <1>15 DEF TypeOK, DeleteRender, UserActs
  <1>16. ASSUME NEW p \in Projects, CreateProject(p) PROVE TypeOK'
    BY <1>0, <1>16 DEF TypeOK, CreateProject, Edit, UserActs
  <1>17. ASSUME NEW p \in Projects, DeleteProject(p) PROVE TypeOK'
    BY <1>0, <1>17 DEF TypeOK, DeleteProject, Edit, UserActs, DropCandidates
  <1>18. ASSUME NEW t \in Tracks, Ingest(t) PROVE TypeOK'
    BY <1>0, <1>18 DEF TypeOK, Ingest, Edit, UserActs
  <1>19. ASSUME NEW t \in Tracks, DeleteTrack(t) PROVE TypeOK'
    BY <1>0, <1>19 DEF TypeOK, DeleteTrack, Edit, UserActs, DropCandidates
  <1>20. ASSUME NEW t \in Tracks, NEW g \in Genres, SetGenre(t, g) PROVE TypeOK'
    BY <1>0, <1>20 DEF TypeOK, SetGenre, Edit, UserActs
  <1>21. ASSUME NEW t \in Tracks, NEW f \in Profiles \cup {NoProfile}, Reprofile(t, f)
         PROVE  TypeOK'
    BY <1>0, <1>21 DEF TypeOK, Reprofile, Edit, UserActs
  <1>22. CASE UNCHANGED vars
    BY <1>0, <1>22 DEF TypeOK, vars
  <1>23. QED
    BY <1>1, <1>2, <1>3, <1>4, <1>5, <1>6, <1>7, <1>8, <1>9, <1>10, <1>11, <1>12, <1>14,
       <1>15, <1>16, <1>17, <1>18, <1>19, <1>20, <1>21, <1>22
       DEF Next, BuildStep, RenderStep, Listen, Change

-----------------------------------------------------------------------------
(* Foreign keys and the unique index. *)

LEMMA EndsInit == Init => EdgesHaveEnds /\ UniqueKeys
  BY DEF Init, EdgesHaveEnds, UniqueKeys

\* Rows taken away leave no render behind.
LEMMA DropKeepsRefs ==
  ASSUME EdgesHaveEnds, NEW gone, DropCandidates(gone), candidates' = candidates \ gone
  PROVE  \A x \in renders' : x.of \in Refs'
  <1> SUFFICES ASSUME NEW x \in renders' PROVE x.of \in Refs'
    OBVIOUS
  <1>1. x \in renders /\ x \notin RendersOf(gone)
    BY DEF DropCandidates
  <1>2. PICK r \in candidates : x.of = Ref(r)
    BY <1>1 DEF EdgesHaveEnds, Refs
  <1>3. r \notin gone
    BY <1>1, <1>2 DEF RendersOf
  <1>4. QED BY <1>2, <1>3 DEF Refs

LEMMA EndsStep == IInv /\ [Next]_vars => EdgesHaveEnds' /\ UniqueKeys'
  <1> SUFFICES ASSUME IInv, [Next]_vars PROVE EdgesHaveEnds' /\ UniqueKeys'
    OBVIOUS
  <1>0. TypeOK /\ EdgesHaveEnds /\ UniqueKeys
    BY DEF IInv
  <1> USE DEF store, graph, evidence
  <1>1. CASE UNCHANGED <<project, library, candidates, renders>>
    BY <1>0, <1>1 DEF EdgesHaveEnds, UniqueKeys, Refs
  <1>2. ASSUME NEW b \in Builders, Replace(b) PROVE EdgesHaveEnds' /\ UniqueKeys'
    <2> DEFINE surplus == Surplus(builder[b].project, Built(b))
    <2>1. ASSUME NEW q \in candidates'
          PROVE  /\ project'[q.project] = "live"
                 /\ library'[q.from] # NoTrack /\ library'[q.to] # NoTrack
      <3>1. CASE q \in candidates
        BY <1>0, <1>2, <3>1 DEF EdgesHaveEnds, Replace
      <3>2. ASSUME NEW o \in Built(b), KeyOf(q) = KeyOf(o)
            PROVE  /\ project'[q.project] = "live"
                   /\ library'[q.from] # NoTrack /\ library'[q.to] # NoTrack
        BY <1>2, <3>2 DEF Replace, EndsExist, KeyOf
      <3>3. q \in candidates \/ \E o \in Built(b) : KeyOf(q) = KeyOf(o)
        BY <1>0, <1>2, ReplaceGives
      <3>4. QED BY <3>1, <3>2, <3>3
    <2>2. ASSUME NEW x \in renders' PROVE x.of \in Refs'
      <3>1. x \in renders /\ x \notin RendersOf(surplus)
        BY <1>2 DEF Replace, DropCandidates
      <3>2. PICK r \in candidates : x.of = Ref(r)
        BY <1>0, <3>1 DEF EdgesHaveEnds, Refs
      <3>3. r \notin surplus
        BY <3>1, <3>2 DEF RendersOf
      <3>4. r.project # builder[b].project \/ \E o \in Built(b) : KeyOf(o) = KeyOf(r)
        BY <3>3 DEF Surplus, GraphOf
      <3>5. \E q \in candidates' : Ref(q) = Ref(r)
        BY <1>0, <1>2, <3>4, ReplaceKeeps
      <3>6. QED BY <3>2, <3>5 DEF Refs
    <2>3. ASSUME NEW q \in candidates', NEW r \in candidates', KeyOf(q) = KeyOf(r)
          PROVE  q = r
      <3>1. q.project = r.project
        BY <2>3 DEF KeyOf
      <3>2. CASE q.project # builder[b].project
        <4>1. q \in candidates /\ r \in candidates
          BY <1>0, <1>2, <3>1, <3>2, ReplaceGives
        <4>2. QED BY <1>0, <2>3, <4>1 DEF UniqueKeys
      <3>3. CASE q.project = builder[b].project
        <4>1. PICK o \in Built(b) : q = Upserted(o) /\ KeyOf(q) = KeyOf(o)
          BY <1>0, <1>2, <3>3, ReplaceGives
        <4>2. r.project = builder[b].project
          BY <3>1, <3>3
        <4>3. \E n \in Built(b) : r = Upserted(n) /\ KeyOf(r) = KeyOf(n)
          BY <1>0, <1>2, <4>2, ReplaceGives
        <4>4. PICK n \in Built(b) : r = Upserted(n) /\ KeyOf(r) = KeyOf(n)
          BY <4>3
        <4>5. o = n
          BY <2>3, <4>1, <4>4, BuiltUnique
        <4>6. QED BY <4>1, <4>4, <4>5
      <3>4. QED BY <3>2, <3>3
    <2>4. QED BY <2>1, <2>2, <2>3 DEF EdgesHaveEnds, UniqueKeys
  <1>3. ASSUME NEW w \in Renderers, CreateRender(w) PROVE EdgesHaveEnds' /\ UniqueKeys'
    BY <1>0, <1>3 DEF EdgesHaveEnds, UniqueKeys, Refs, CreateRender
  <1>4. ASSUME NEW x \in renders, NEW good, NEW bad, Relabel(x, good, bad)
        PROVE  EdgesHaveEnds' /\ UniqueKeys'
    <2>1. [x EXCEPT !.good = good, !.bad = bad].of = x.of
      <3>1. x \in Render
        BY <1>0 DEF TypeOK
      <3>2. QED BY <3>1 DEF Render
    <2>2. \A y \in renders' : y.of \in Refs
      BY <1>0, <1>4, <2>1 DEF EdgesHaveEnds, Relabel
    <2>3. QED BY <1>0, <1>4, <2>2 DEF EdgesHaveEnds, UniqueKeys, Refs, Relabel
  <1>5. ASSUME NEW x \in renders, AddLabel(x) \/ DeleteLabel(x)
        PROVE  EdgesHaveEnds' /\ UniqueKeys'
    BY <1>4, <1>5 DEF AddLabel, DeleteLabel
  <1>6. ASSUME NEW x \in renders, DeleteRender(x) PROVE EdgesHaveEnds' /\ UniqueKeys'
    BY <1>0, <1>6 DEF EdgesHaveEnds, UniqueKeys, Refs, DeleteRender
  <1>7. ASSUME NEW p \in Projects, CreateProject(p) PROVE EdgesHaveEnds' /\ UniqueKeys'
    <2>1. \A r \in candidates : r.project # p
      BY <1>0, <1>7 DEF EdgesHaveEnds, CreateProject
    <2>2. \A r \in candidates : project'[r.project] = "live"
      BY <1>0, <1>7, <2>1 DEF EdgesHaveEnds, CreateProject, TypeOK, Row
    <2>3. QED BY <1>0, <1>7, <2>2 DEF EdgesHaveEnds, UniqueKeys, Refs, CreateProject
  <1>8. ASSUME NEW p \in Projects, DeleteProject(p) PROVE EdgesHaveEnds' /\ UniqueKeys'
    <2>1. \A r \in candidates' : r \in candidates /\ r.project # p
      BY <1>8 DEF DeleteProject, GraphOf
    <2>2. \A r \in candidates' : project'[r.project] = "live"
      BY <1>0, <1>8, <2>1 DEF EdgesHaveEnds, DeleteProject, TypeOK, Row
    <2>3. \A x \in renders' : x.of \in Refs'
      BY <1>0, <1>8, DropKeepsRefs DEF DeleteProject
    <2>4. QED BY <1>0, <1>8, <2>1, <2>2, <2>3 DEF EdgesHaveEnds, UniqueKeys, DeleteProject
  <1>9. ASSUME NEW t \in Tracks, Ingest(t) PROVE EdgesHaveEnds' /\ UniqueKeys'
    <2>1. \A r \in candidates : library'[r.from] # NoTrack /\ library'[r.to] # NoTrack
      BY <1>0, <1>9 DEF EdgesHaveEnds, Ingest, TypeOK, Row
    <2>2. QED BY <1>0, <1>9, <2>1 DEF EdgesHaveEnds, UniqueKeys, Refs, Ingest
  <1>10. ASSUME NEW t \in Tracks, NEW g \in Genres, SetGenre(t, g)
         PROVE  EdgesHaveEnds' /\ UniqueKeys'
    <2>1. \A r \in candidates : library'[r.from] # NoTrack /\ library'[r.to] # NoTrack
      BY <1>0, <1>10 DEF EdgesHaveEnds, SetGenre, TypeOK, Row
    <2>2. QED BY <1>0, <1>10, <2>1 DEF EdgesHaveEnds, UniqueKeys, Refs, SetGenre
  <1>11. ASSUME NEW t \in Tracks, DeleteTrack(t) PROVE EdgesHaveEnds' /\ UniqueKeys'
    <2>1. \A r \in candidates' : r \in candidates /\ r.from # t /\ r.to # t
      BY <1>11 DEF DeleteTrack, EdgesOf
    <2>2. \A r \in candidates' : library'[r.from] # NoTrack /\ library'[r.to] # NoTrack
      BY <1>0, <1>11, <2>1 DEF EdgesHaveEnds, DeleteTrack, TypeOK, Row
    <2>3. \A x \in renders' : x.of \in Refs'
      BY <1>0, <1>11, DropKeepsRefs DEF DeleteTrack
    <2>4. QED BY <1>0, <1>11, <2>1, <2>2, <2>3 DEF EdgesHaveEnds, UniqueKeys, DeleteTrack
  <1>12. CASE UNCHANGED vars
    BY <1>1, <1>12 DEF vars
  <1>13. ASSUME NEW b \in Builders, BuildStep(b), ~Replace(b)
         PROVE  UNCHANGED <<project, library, candidates, renders>>
    BY <1>13 DEF BuildStep, Begin, Look, ReadProfile, ReadGenre, ReadLabels, ReadFeedback,
                 ReplaceFails
  <1>14. ASSUME NEW w \in Renderers, RenderStep(w), ~CreateRender(w)
         PROVE  UNCHANGED <<project, library, candidates, renders>>
    BY <1>14 DEF RenderStep, AskRender, Snapshot, RenderComesToNothing
  <1>15. ASSUME NEW t \in Tracks, NEW f, Reprofile(t, f)
         PROVE  UNCHANGED <<project, library, candidates, renders>>
    BY <1>15 DEF Reprofile
  <1>16. QED
    BY <1>1, <1>2, <1>3, <1>5, <1>6, <1>7, <1>8, <1>9, <1>10, <1>11, <1>12, <1>13, <1>14,
       <1>15 DEF Next, Listen, Change

THEOREM Invariance == Spec => []IInv
  <1>1. Init => IInv
    BY TypeInit, EndsInit DEF IInv
  <1>2. IInv /\ [Next]_vars => IInv'
    BY TypeStep, EndsStep DEF IInv
  <1>3. QED BY <1>1, <1>2, PTL DEF Spec

\* Every variable keeps its type.
THEOREM TypeCorrect == Spec => []TypeOK
  <1>1. IInv => TypeOK
    BY DEF IInv
  <1>2. QED BY <1>1, Invariance, PTL

\* No candidate and no render is left hanging, whatever is deleted while builds
\* and renders are under way.
THEOREM EndsAlways == Spec => []EdgesHaveEnds
  <1>1. IInv => EdgesHaveEnds
    BY DEF IInv
  <1>2. QED BY <1>1, Invariance, PTL

-----------------------------------------------------------------------------
(* Identity: the ids that renders and labels rest on. *)

\* A render whose candidate's key is there afterwards is not deleted.
LEMMA ReplaceSpares ==
  ASSUME IInv, NEW b \in Builders, Replace(b), NEW x \in renders,
         NEW q \in candidates', KeyOf(q) = x.of.key
  PROVE  x \in renders'
  <1> DEFINE surplus == Surplus(builder[b].project, Built(b))
  <1>1. TypeOK /\ UniqueKeys /\ EdgesHaveEnds
    BY DEF IInv
  <1>2. PICK r \in candidates : x.of = Ref(r)
    BY <1>1 DEF EdgesHaveEnds, Refs
  <1>3. KeyOf(r) = KeyOf(q)
    BY <1>2 DEF Ref
  <1>4. r \notin surplus
    <2>1. CASE q.project # builder[b].project
      BY <1>3, <2>1 DEF Surplus, GraphOf, KeyOf
    <2>2. CASE q.project = builder[b].project
      <3>1. \E o \in Built(b) : KeyOf(q) = KeyOf(o)
        BY <1>1, <2>2, ReplaceGives
      <3>2. QED BY <1>3, <3>1 DEF Surplus
    <2>3. QED BY <2>1, <2>2
  <1>5. \A s \in surplus : s \in candidates
    BY DEF Surplus, GraphOf
  <1>6. x \notin RendersOf(surplus)
    <2>1. SUFFICES ASSUME NEW s \in surplus, x.of = Ref(s) PROVE FALSE
      BY DEF RendersOf
    <2>2. KeyOf(s) = KeyOf(r)
      BY <1>2, <2>1 DEF Ref
    <2>3. s = r
      BY <1>1, <1>2, <1>5, <2>2 DEF UniqueKeys
    <2>4. QED BY <1>4, <2>3
  <1>7. renders' = renders \ RendersOf(surplus)
    BY DEF Replace, DropCandidates
  <1>8. QED BY <1>6, <1>7

\* What a deletion leaves of the candidates keeps its renders.
LEMMA DropSpares ==
  ASSUME IInv, NEW gone \in SUBSET candidates, DropCandidates(gone),
         candidates' = candidates \ gone,
         NEW x \in renders, NEW q \in candidates', KeyOf(q) = x.of.key
  PROVE  x \in renders'
  <1>1. PICK r \in candidates : x.of = Ref(r)
    BY DEF IInv, EdgesHaveEnds, Refs
  <1>2. q = r
    BY <1>1 DEF IInv, UniqueKeys, Ref
  <1>3. x \notin RendersOf(gone)
    <2>1. SUFFICES ASSUME NEW s \in gone, x.of = Ref(s) PROVE FALSE
      BY DEF RendersOf
    <2>2. KeyOf(s) = KeyOf(r)
      BY <1>1, <2>1 DEF Ref
    <2>3. s = r
      BY <1>1, <2>2 DEF IInv, UniqueKeys
    <2>4. QED BY <1>2, <2>3
  <1>4. QED BY <1>3 DEF DropCandidates

\* Only these actions touch the candidates.
LEMMA CandidatesChange ==
  ASSUME [Next]_vars
  PROVE  \/ UNCHANGED <<candidates, commits>>
         \/ \E b \in Builders : Replace(b)
         \/ \E p \in Projects : DeleteProject(p)
         \/ \E t \in Tracks : DeleteTrack(t)
  <1> USE DEF store, graph, evidence
  <1>1. CASE UNCHANGED vars
    BY <1>1 DEF vars
  <1>2. ASSUME NEW b \in Builders, BuildStep(b), ~Replace(b)
        PROVE  UNCHANGED <<candidates, commits>>
    BY <1>2 DEF BuildStep, Begin, Look, ReadProfile, ReadGenre, ReadLabels, ReadFeedback,
                ReplaceFails
  <1>3. ASSUME NEW w \in Renderers, RenderStep(w) PROVE UNCHANGED <<candidates, commits>>
    BY <1>3 DEF RenderStep, AskRender, Snapshot, CreateRender, RenderComesToNothing
  <1>4. CASE Listen
    BY <1>4 DEF Listen, AddLabel, DeleteLabel, DeleteRender, Relabel
  <1>5. ASSUME NEW p \in Projects, CreateProject(p) PROVE UNCHANGED <<candidates, commits>>
    BY <1>5 DEF CreateProject, Edit
  <1>6. ASSUME NEW t \in Tracks, Ingest(t) PROVE UNCHANGED <<candidates, commits>>
    BY <1>6 DEF Ingest, Edit
  <1>7. ASSUME NEW t \in Tracks, NEW g, SetGenre(t, g) PROVE UNCHANGED <<candidates, commits>>
    BY <1>7 DEF SetGenre, Edit
  <1>8. ASSUME NEW t \in Tracks, NEW f, Reprofile(t, f) PROVE UNCHANGED <<candidates, commits>>
    BY <1>8 DEF Reprofile, Edit
  <1>9. QED
    BY <1>1, <1>2, <1>3, <1>4, <1>5, <1>6, <1>7, <1>8 DEF Next, Change

\* The labels of listeners outlive every rebuild that produces their candidate
\* again: whatever builds, renders and deletions overlap.
THEOREM RendersOutlive == Spec => RendersOutliveRebuilds
  <1> DEFINE Spares == candidates' # candidates =>
               \A x \in renders :
                 (\E r \in candidates' : KeyOf(r) = x.of.key) => x \in renders'
  <1>1. IInv /\ [Next]_vars => Spares
    <2> SUFFICES ASSUME IInv, [Next]_vars, candidates' # candidates, NEW x \in renders,
                        NEW q \in candidates', KeyOf(q) = x.of.key
                 PROVE  x \in renders'
      OBVIOUS
    <2>1. ASSUME NEW b \in Builders, Replace(b) PROVE x \in renders'
      BY <2>1, ReplaceSpares
    <2>2. ASSUME NEW p \in Projects, DeleteProject(p) PROVE x \in renders'
      <3>1. GraphOf(p) \in SUBSET candidates
        BY DEF GraphOf
      <3>2. DropCandidates(GraphOf(p)) /\ candidates' = candidates \ GraphOf(p)
        BY <2>2 DEF DeleteProject
      <3>3. QED BY <3>1, <3>2, DropSpares
    <2>3. ASSUME NEW t \in Tracks, DeleteTrack(t) PROVE x \in renders'
      <3>1. EdgesOf(t) \in SUBSET candidates
        BY DEF EdgesOf
      <3>2. DropCandidates(EdgesOf(t)) /\ candidates' = candidates \ EdgesOf(t)
        BY <2>3 DEF DeleteTrack
      <3>3. QED BY <3>1, <3>2, DropSpares
    <2>4. QED BY <2>1, <2>2, <2>3, CandidatesChange
  <1>2. IInv /\ [Next]_vars => [Spares]_vars
    BY <1>1
  <1>3. QED BY <1>2, Invariance, PTL DEF Spec, RendersOutliveRebuilds

LEMMA EdgeFacts ==
  ASSUME NEW r, NEW q
  PROVE  /\ Edge(r).id = r.id /\ Edge(r).project = r.project
         /\ Edge(r).from = r.from /\ Edge(r).to = r.to
         /\ Stable!SameKey(Edge(r), Edge(q)) <=> KeyOf(r) = KeyOf(q)
  BY DEF Edge, KeyOf, Stable!SameKey

\* The transaction of a build is one Rebuild of its project.
LEMMA ReplaceRebuilds ==
  ASSUME IInv, NEW b \in Builders, Replace(b)
  PROVE  Stable!Rebuild(builder[b].project)
  <1> DEFINE p == builder[b].project
             old == {Edge(r) : r \in candidates}
             new == {Edge(r) : r \in candidates'}
  <1>0. TypeOK /\ UniqueKeys
    BY DEF IInv
  <1>1. commits' = commits + 1
    BY DEF Replace
  <1>2. ASSUME NEW e \in old \ new
        PROVE  e.project = p /\ ~(\E f \in new : Stable!SameKey(e, f))
    <2>1. PICK r \in candidates : e = Edge(r)
      OBVIOUS
    <2>2. ~(\E q \in candidates' : Edge(q) = Edge(r))
      BY <1>2, <2>1
    <2>3. r.project = p /\ ~(\E o \in Built(b) : KeyOf(o) = KeyOf(r))
      BY <1>0, <2>2, ReplaceKeeps
    <2>4. ASSUME NEW q \in candidates', Stable!SameKey(e, Edge(q)) PROVE FALSE
      <3>1. KeyOf(r) = KeyOf(q)
        BY <2>1, <2>4, EdgeFacts
      <3>2. q.project = p
        BY <2>3, <3>1 DEF KeyOf
      <3>3. \E o \in Built(b) : KeyOf(q) = KeyOf(o)
        BY <1>0, <3>2, ReplaceGives
      <3>4. QED BY <2>3, <3>1, <3>3
    <2>5. QED BY <2>1, <2>3, <2>4, EdgeFacts
  <1>3. ASSUME NEW e \in new \ old
        PROVE  /\ e.project = p /\ e.id = commits + 1
               /\ ~(\E f \in old : Stable!SameKey(e, f))
    <2>1. PICK q \in candidates' : e = Edge(q)
      OBVIOUS
    <2>2. ~(\E r \in candidates : Edge(r) = Edge(q))
      BY <1>3, <2>1
    <2>3. /\ q.project = p /\ q.id = commits + 1
          /\ \A r \in candidates : KeyOf(r) # KeyOf(q)
      BY <1>0, <2>2, ReplaceGives
    <2>4. ASSUME NEW r \in candidates, Stable!SameKey(e, Edge(r)) PROVE FALSE
      BY <2>1, <2>3, <2>4, EdgeFacts
    <2>5. QED BY <2>1, <2>3, <2>4, EdgeFacts
  <1>4. QED BY <1>1, <1>2, <1>3 DEF Stable!Rebuild

\* The candidate table keeps the promise its docstring makes: every history of
\* it is one of StableGraph.
THEOREM Refinement == Spec => ImplementsStableGraph
  <1>1. Init => Stable!Init
    BY DEF Init, Stable!Init
  <1>2. IInv /\ [Next]_vars => [Stable!Next]_(Stable!vars)
    <2> SUFFICES ASSUME IInv, [Next]_vars
                 PROVE  Stable!Next \/ UNCHANGED Stable!vars
      OBVIOUS
    <2>1. CASE UNCHANGED <<candidates, commits>>
      BY <2>1 DEF Stable!vars
    <2>2. ASSUME NEW b \in Builders, Replace(b) PROVE Stable!Next
      <3>1. builder[b].project \in Projects
        BY <2>2, BusyBuild DEF IInv, Replace, Build
      <3>2. QED BY <2>2, <3>1, ReplaceRebuilds DEF Stable!Next
    <2>3. ASSUME NEW p \in Projects, DeleteProject(p) PROVE Stable!Next
      <3>1. candidates' = {r \in candidates : r.project # p} /\ commits' = commits
        BY <2>3 DEF DeleteProject, GraphOf, Edit
      <3>2. {Edge(r) : r \in candidates'}
              = {e \in {Edge(r) : r \in candidates} : e.project # p}
        BY <3>1, EdgeFacts
      <3>3. Stable!RemoveProject(p)
        BY <3>1, <3>2 DEF Stable!RemoveProject
      <3>4. QED BY <3>3 DEF Stable!Next
    <2>4. ASSUME NEW t \in Tracks, DeleteTrack(t) PROVE Stable!Next
      <3>1. candidates' = {r \in candidates : t \notin {r.from, r.to}} /\ commits' = commits
        BY <2>4 DEF DeleteTrack, EdgesOf, Edit
      <3>2. {Edge(r) : r \in candidates'}
              = {e \in {Edge(r) : r \in candidates} : t \notin {e.from, e.to}}
        BY <3>1, EdgeFacts
      <3>3. Stable!RemoveTrack(t)
        BY <3>1, <3>2 DEF Stable!RemoveTrack
      <3>4. QED BY <3>3 DEF Stable!Next
    <2>5. QED BY <2>1, <2>2, <2>3, <2>4, CandidatesChange
  <1>3. QED BY <1>1, <1>2, Invariance, PTL DEF Spec, ImplementsStableGraph, Stable!Spec

-----------------------------------------------------------------------------
(* Sizes: what one build produces keeps to the limits... *)

\* How far two tempi are apart has a value.
LEMMA TempoOffsetType ==
  ASSUME NEW x \in Nat, NEW y \in Nat
  PROVE  TempoOffset(x, y) \in Nat
  <1> DEFINE S == {Distance(2 * x, k * y) : k \in {1, 2, 4}}
  <1>1. S \in SUBSET Nat
    BY DEF Distance
  <1>2. \E m \in S : \A n \in S : m <= n
    <2> DEFINE u == Distance(2 * x, 1 * y)
               v == Distance(2 * x, 2 * y)
               w == Distance(2 * x, 4 * y)
    <2>1. u \in S /\ v \in S /\ w \in S /\ \A n \in S : n = u \/ n = v \/ n = w
      OBVIOUS
    <2>2. u \in Nat /\ v \in Nat /\ w \in Nat
      BY <1>1, <2>1
    <2> HIDE DEF S, u, v, w
    <2>3. CASE u <= v /\ u <= w
      BY <2>1, <2>2, <2>3
    <2>4. CASE v <= u /\ v <= w
      BY <2>1, <2>2, <2>4
    <2>5. CASE w <= u /\ w <= v
      BY <2>1, <2>2, <2>5
    <2>6. QED BY <2>2, <2>3, <2>4, <2>5
  <1>3. QED BY <1>1, <1>2 DEF TempoOffset, Min

LEMMA LargestLimit ==
  ASSUME NEW n \in Limits
  PROVE  n <= Max(Limits) /\ Max(Limits) \in Nat
  <1>1. \E m \in Limits : \A k \in Limits : m >= k
    <2>1. CASE 5 \in Limits
      BY <2>1
    <2>2. CASE 5 \notin Limits /\ 4 \in Limits
      BY <2>2
    <2>3. CASE 5 \notin Limits /\ 4 \notin Limits /\ 3 \in Limits
      BY <2>3
    <2>4. CASE 5 \notin Limits /\ 4 \notin Limits /\ 3 \notin Limits /\ 2 \in Limits
      BY <2>4
    <2>5. CASE 5 \notin Limits /\ 4 \notin Limits /\ 3 \notin Limits /\ 2 \notin Limits
      BY <2>5
    <2>6. QED BY <2>1, <2>2, <2>3, <2>4, <2>5
  <1>2. Max(Limits) \in Limits /\ \A k \in Limits : Max(Limits) >= k
    BY <1>1 DEF Max
  <1>3. Max(Limits) \in 1 .. 5 /\ n \in 1 .. 5 /\ Max(Limits) >= n
    BY <1>2
  <1> DEFINE m == Max(Limits)
  <1> HIDE DEF m
  <1>4. m \in Nat /\ n <= m
    BY <1>3 DEF m
  <1>5. QED BY <1>4 DEF m

\* A source keeps to the limit of its targets: their places in the order of
\* nearness differ, for no two tracks are equally near.
LEMMA TargetsBounded ==
  ASSUME NEW seen \in [Tracks -> Profiles \cup {NoProfile}], NEW s \in Tracks,
         seen[s] # NoProfile
  PROVE  /\ IsFiniteSet(CandidateTargets(s, seen))
         /\ Cardinality(CandidateTargets(s, seen)) <= MaxTargets
  <1> DEFINE reach == InReach(s, seen)
             Before(t) == {u \in reach : Nearer(s, u, t, seen)}
             targets == CandidateTargets(s, seen)
             place == [t \in targets |-> Cardinality(Before(t))]
             offset(t) == TempoOffset(seen[s].bpm, seen[t].bpm)
  <1>1. ASSUME NEW t \in reach
        PROVE  offset(t) \in Nat /\ HashOrder[t] \in Nat
    <2>1. t \in Tracks /\ seen[t] \in Profiles /\ seen[s] \in Profiles
      BY DEF InReach
    <2>2. QED BY <2>1, TempoOffsetType
  <1>2. ASSUME NEW t \in reach, NEW u \in reach
        PROVE  Nearer(s, t, u, seen) <=> \/ offset(t) < offset(u)
                                         \/ offset(t) = offset(u) /\ HashOrder[t] < HashOrder[u]
    BY DEF Nearer
  <1>3. ASSUME NEW t \in reach
        PROVE  IsFiniteSet(Before(t)) /\ Cardinality(Before(t)) \in Nat
    <2>1. Before(t) \in SUBSET Tracks
      BY DEF InReach
    <2>2. QED BY <2>1, FS_Subset, FS_CardinalityType
  <1>4. ASSUME NEW t \in reach, NEW u \in reach, Nearer(s, t, u, seen)
        PROVE  Cardinality(Before(t)) < Cardinality(Before(u))
    <2> HIDE DEF offset
    <2>1. t \in Before(u) /\ t \notin Before(t)
      BY <1>1, <1>2, <1>4
    <2>2. Before(t) \in SUBSET Before(u)
      BY <1>1, <1>2, <1>4
    <2>3. Cardinality(Before(t)) <= Cardinality(Before(u))
          /\ Cardinality(Before(u)) # Cardinality(Before(t))
      BY <1>3, <2>1, <2>2, FS_Subset
    <2>4. QED BY <1>3, <2>3
  <1>5. ASSUME NEW t \in reach, NEW u \in reach, t # u
        PROVE  Cardinality(Before(t)) # Cardinality(Before(u))
    <2> HIDE DEF offset
    <2>1. t \in Tracks /\ u \in Tracks
      BY DEF InReach
    <2>2. HashOrder[t] # HashOrder[u]
      BY <1>5, <2>1
    <2>3. Nearer(s, t, u, seen) \/ Nearer(s, u, t, seen)
      BY <1>1, <1>2, <2>2
    <2> HIDE DEF Before, reach
    <2>4. Cardinality(Before(t)) \in Nat /\ Cardinality(Before(u)) \in Nat
      BY <1>3
    <2>5. Cardinality(Before(t)) < Cardinality(Before(u))
          \/ Cardinality(Before(u)) < Cardinality(Before(t))
      BY <1>4, <2>3
    <2>6. QED BY <2>4, <2>5
  <1>6. targets \subseteq reach /\ \A t \in targets : Cardinality(Before(t)) < MaxTargets
    BY DEF CandidateTargets
  <1> HIDE DEF reach, Before, targets
  <1>7. place \in Injection(targets, 0 .. (MaxTargets - 1))
    <2>1. \A t \in targets : place[t] \in 0 .. (MaxTargets - 1)
      BY <1>3, <1>6
    <2>2. \A t, u \in targets : place[t] = place[u] => t = u
      BY <1>5, <1>6
    <2>3. QED BY <2>1, <2>2 DEF Injection, IsInjective
  <1>8. IsFiniteSet(0 .. (MaxTargets - 1)) /\ Cardinality(0 .. (MaxTargets - 1)) = MaxTargets
    <2>1. 0 \in Int /\ MaxTargets - 1 \in Int
      OBVIOUS
    <2>2. /\ IsFiniteSet(0 .. (MaxTargets - 1))
          /\ Cardinality(0 .. (MaxTargets - 1))
               = IF 0 > MaxTargets - 1 THEN 0 ELSE (MaxTargets - 1) - 0 + 1
      BY <2>1, FS_Interval
    <2>3. QED BY <2>2
  <1>9. IsFiniteSet(targets) /\ Cardinality(targets) <= MaxTargets
    BY <1>7, <1>8, FS_Injection
  <1>10. QED BY <1>9 DEF targets

\* A pair keeps to the limit of the build: its cue pairs are numbered.
LEMMA CuePairsBounded ==
  ASSUME NEW f \in Profiles, NEW g \in Profiles, NEW n \in Nat
  PROVE  /\ IsFiniteSet(CuePairs(f, g, n))
         /\ Cardinality(CuePairs(f, g, n)) <= n
  <1> DEFINE out == {i \in {1, 2} : i <= Phrases(f)}
             into == {j \in {1, 2} : j <= Phrases(g)}
             width == Cardinality(into)
             best == {d \in out \X into : (d[1] - 1) * width + d[2] <= n}
             Pair(d) == <<8 * (Phrases(f) - d[1]), 8 * (d[2] - 1)>>
             pairs == CuePairs(f, g, n)
             which == [c \in pairs |-> CHOOSE d \in best : c = Pair(d)]
             number == [d \in best |-> (d[1] - 1) * width + d[2]]
  <1>1. pairs = {Pair(d) : d \in best}
    BY DEF CuePairs
  <1>2. \/ into = {1} /\ width = 1
        \/ into = {1, 2} /\ width = 2
    <2>1. Phrases(g) \in Nat /\ 1 <= Phrases(g)
      BY DEF Phrases
    <2>2. into = {1} \/ into = {1, 2}
      BY <2>1
    <2>3. Cardinality({1}) = 1
      BY FS_Singleton
    <2>4. 1 \in Int /\ 2 \in Int /\ 1 .. 2 = {1, 2}
      OBVIOUS
    <2>5. Cardinality(1 .. 2) = IF 1 > 2 THEN 0 ELSE 2 - 1 + 1
      BY <2>4, FS_Interval
    <2>6. Cardinality({1, 2}) = 2
      BY <2>4, <2>5
    <2> HIDE DEF into
    <2>7. QED BY <2>2, <2>3, <2>6 DEF width
  <1>3. \A d \in best : /\ d[1] \in {1, 2} /\ d[2] \in into /\ d = <<d[1], d[2]>>
                        /\ (d[1] - 1) * width + d[2] <= n
    OBVIOUS
  <1> HIDE DEF into, width, best, Pair, pairs
  <1>4. number \in Injection(best, 1 .. n)
    <2>1. ASSUME NEW d \in best PROVE number[d] \in 1 .. n
      <3>1. number[d] = (d[1] - 1) * width + d[2]
        OBVIOUS
      <3>2. CASE into = {1} /\ width = 1
        BY <1>3, <3>1, <3>2
      <3>3. CASE into = {1, 2} /\ width = 2
        BY <1>3, <3>1, <3>3
      <3>4. QED BY <1>2, <3>2, <3>3
    <2>2. ASSUME NEW d \in best, NEW e \in best, number[d] = number[e] PROVE d = e
      <3>1. (d[1] - 1) * width + d[2] = (e[1] - 1) * width + e[2]
        BY <2>2
      <3>2. CASE into = {1} /\ width = 1
        BY <1>3, <3>1, <3>2
      <3>3. CASE into = {1, 2} /\ width = 2
        <4>1. d[1] \in {1, 2} /\ d[2] \in {1, 2} /\ e[1] \in {1, 2} /\ e[2] \in {1, 2}
          BY <1>3, <3>3
        <4>2. d[1] = e[1] /\ d[2] = e[2]
          BY <3>1, <3>3, <4>1
        <4>3. QED BY <1>3, <4>2
      <3>4. QED BY <1>2, <3>2, <3>3
    <2>3. QED BY <2>1, <2>2 DEF Injection, IsInjective
  <1>5. IsFiniteSet(best) /\ Cardinality(best) <= n
    <2>1. 1 \in Int /\ n \in Int
      OBVIOUS
    <2>2. IsFiniteSet(1 .. n) /\ Cardinality(1 .. n) = IF 1 > n THEN 0 ELSE n - 1 + 1
      BY <2>1, FS_Interval
    <2>3. Cardinality(1 .. n) = n
      BY <2>2
    <2>4. IsFiniteSet(best) /\ Cardinality(best) <= Cardinality(1 .. n)
      BY <1>4, <2>2, FS_Injection
    <2>5. QED BY <2>3, <2>4
  <1>6. which \in Injection(pairs, best)
    <2>1. \A c \in pairs : which[c] \in best /\ c = Pair(which[c])
      BY <1>1
    <2>2. QED BY <2>1 DEF Injection, IsInjective
  <1>7. IsFiniteSet(pairs) /\ Cardinality(pairs) <= Cardinality(best)
    BY <1>5, <1>6, FS_Injection
  <1>8. Cardinality(pairs) <= n
    BY <1>5, <1>7, FS_CardinalityType
  <1>9. QED BY <1>7, <1>8 DEF pairs

-----------------------------------------------------------------------------
(* ... and the table never holds a mixture of builds. *)

\* The targets of a source, and the rows of a pair.
Targets(p, s) == {r.to : r \in {q \in GraphOf(p) : q.from = s}}

PairRows(p, s, t) == {r \in {q \in GraphOf(p) : q.from = s} : r.to = t}

\* A build at work has been asked for a limit, and what it keeps to is finite.
LimitsAsked == \A b \in Builders : builder[b].pc # "idle" => builder[b].limit \in Limits

SizeInv ==
  /\ LimitsAsked
  /\ \A p \in Projects, s \in Tracks :
       /\ Cardinality(Targets(p, s)) <= MaxTargets
       /\ \A t \in Tracks : /\ IsFiniteSet(PairRows(p, s, t))
                            /\ Cardinality(PairRows(p, s, t)) <= Max(Limits)

LEMMA SizeInit == Init => SizeInv
  <1> SUFFICES ASSUME Init PROVE SizeInv
    OBVIOUS
  <1>1. LimitsAsked
    BY IdleFacts DEF Init, LimitsAsked
  <1>2. \A p \in Projects, s \in Tracks : Targets(p, s) = {}
    BY DEF Init, Targets, GraphOf
  <1>3. \A p \in Projects, s \in Tracks, t \in Tracks : PairRows(p, s, t) = {}
    BY DEF Init, PairRows, GraphOf
  <1>4. IsFiniteSet({}) /\ Cardinality({}) = 0
    BY FS_EmptySet
  <1>5. 0 <= Max(Limits)
    <2>1. PICK n \in Limits : TRUE
      OBVIOUS
    <2>2. Max(Limits) \in Nat
      BY <2>1, LargestLimit
    <2>3. QED BY <2>2
  <1>6. 0 <= MaxTargets
    OBVIOUS
  <1>7. QED BY <1>1, <1>2, <1>3, <1>4, <1>5, <1>6 DEF SizeInv

LEMMA SmallerStays ==
  ASSUME NEW S, IsFiniteSet(S), NEW T \in SUBSET S, NEW n \in Nat, Cardinality(S) <= n
  PROVE  IsFiniteSet(T) /\ Cardinality(T) <= n
  BY FS_Subset, FS_CardinalityType

\* Deletions keep every limit.
LEMMA FewerSized ==
  ASSUME TypeOK, SizeInv, NEW p \in Projects, NEW s \in Tracks,
         \A r \in candidates' : r.project = p => r \in candidates
  PROVE  /\ Cardinality(Targets(p, s)') <= MaxTargets
         /\ \A t \in Tracks : /\ IsFiniteSet(PairRows(p, s, t)')
                              /\ Cardinality(PairRows(p, s, t)') <= Max(Limits)
  <1>1. Max(Limits) \in Nat
    BY LargestLimit
  <1>2. Targets(p, s)' \in SUBSET Targets(p, s)
    BY DEF Targets, GraphOf
  <1>3. Targets(p, s) \in SUBSET Tracks
    BY DEF Targets, GraphOf, TypeOK, Row
  <1>4. IsFiniteSet(Targets(p, s)) /\ Cardinality(Targets(p, s)) <= MaxTargets
    BY <1>3, FS_Subset DEF SizeInv
  <1>5. Cardinality(Targets(p, s)') <= MaxTargets
    BY <1>2, <1>4, SmallerStays
  <1>6. ASSUME NEW t \in Tracks
        PROVE  /\ IsFiniteSet(PairRows(p, s, t)')
               /\ Cardinality(PairRows(p, s, t)') <= Max(Limits)
    <2>1. PairRows(p, s, t)' \in SUBSET PairRows(p, s, t)
      BY DEF PairRows, GraphOf
    <2>2. IsFiniteSet(PairRows(p, s, t)) /\ Cardinality(PairRows(p, s, t)) <= Max(Limits)
      BY DEF SizeInv
    <2>3. QED BY <1>1, <2>1, <2>2, SmallerStays
  <1>7. QED BY <1>5, <1>6

\* Where the ends and the bars of a row of Built(b) lie.
LEMMA BuiltWithin ==
  ASSUME NEW b, NEW o \in Built(b)
  PROVE  /\ o.from \in Usable(b) /\ o.to \in Usable(b)
         /\ o.to \in CandidateTargets(o.from, builder[b].seen)
         /\ <<o.fromBar, o.toBar>>
              \in CuePairs(builder[b].seen[o.from], builder[b].seen[o.to], builder[b].limit)
  <1>1. PICK e \in Pairs(b) :
          \E c \in CuePairs(builder[b].seen[e[1]], builder[b].seen[e[2]], builder[b].limit) :
             o = [project |-> builder[b].project, from |-> e[1], to |-> e[2],
                  fromBar |-> c[1], toBar |-> c[2],
                  techniques |-> Filtered(b, e[1], e[2]), sources |-> Sources(b, e[1], e[2])]
    BY DEF Built
  <1>2. PICK c \in CuePairs(builder[b].seen[e[1]], builder[b].seen[e[2]], builder[b].limit) :
             o = [project |-> builder[b].project, from |-> e[1], to |-> e[2],
                  fromBar |-> c[1], toBar |-> c[2],
                  techniques |-> Filtered(b, e[1], e[2]), sources |-> Sources(b, e[1], e[2])]
    BY <1>1
  <1>3. o.from = e[1] /\ o.to = e[2] /\ o.fromBar = c[1] /\ o.toBar = c[2]
    BY <1>2
  <1>4. c = <<c[1], c[2]>>
    <2> DEFINE f == builder[b].seen[e[1]]
               g == builder[b].seen[e[2]]
               into == {j \in {1, 2} : j <= Phrases(g)}
    <2>1. PICK d \in {i \in {1, 2} : i <= Phrases(f)} \X into :
            c = <<8 * (Phrases(f) - d[1]), 8 * (d[2] - 1)>>
      BY DEF CuePairs
    <2>2. QED BY <2>1
  <1>5. e[1] \in Usable(b) /\ e[2] \in Usable(b)
        /\ e[2] \in CandidateTargets(e[1], builder[b].seen)
    BY DEF Pairs
  <1>6. QED BY <1>2, <1>3, <1>4, <1>5

\* After the transaction the rows of its project are the build's alone.
LEMMA ReplaceSized ==
  ASSUME IInv, UniqueKeys', SizeInv, NEW b \in Builders, Replace(b),
         NEW p \in Projects, NEW s \in Tracks
  PROVE  /\ Cardinality(Targets(p, s)') <= MaxTargets
         /\ \A t \in Tracks : /\ IsFiniteSet(PairRows(p, s, t)')
                              /\ Cardinality(PairRows(p, s, t)') <= Max(Limits)
  <1>0. TypeOK /\ UniqueKeys
    BY DEF IInv
  <1>1. builder[b] \in Build /\ builder[b].limit \in Limits
    BY <1>0, BusyBuild DEF SizeInv, LimitsAsked, Replace
  <1> DEFINE seen == builder[b].seen
             limit == builder[b].limit
  <1>2. limit \in Nat /\ limit <= Max(Limits) /\ Max(Limits) \in Nat
    BY <1>1, LargestLimit
  <1>3. IsFiniteSet({}) /\ Cardinality({}) = 0 /\ 0 <= MaxTargets /\ 0 <= Max(Limits)
    BY <1>2, FS_EmptySet
  <1>4. CASE p # builder[b].project
    <2>1. \A r \in candidates' : r.project = p => r \in candidates
      BY <1>0, <1>4, ReplaceGives
    <2>2. QED BY <1>0, <2>1, FewerSized
  <1>5. CASE p = builder[b].project
    <2>1. ASSUME NEW r \in candidates', r.project = p
          PROVE  /\ r.from \in Usable(b) /\ r.to \in Usable(b)
                 /\ r.to \in CandidateTargets(r.from, seen)
                 /\ <<r.fromBar, r.toBar>> \in CuePairs(seen[r.from], seen[r.to], limit)
      <3>1. PICK o \in Built(b) : KeyOf(r) = KeyOf(o)
        BY <1>0, <1>5, <2>1, ReplaceGives
      <3>2. r.from = o.from /\ r.to = o.to /\ r.fromBar = o.fromBar /\ r.toBar = o.toBar
        BY <3>1 DEF KeyOf
      <3>3. QED BY <3>2, BuiltWithin
    <2>2. \A t \in Usable(b) : t \in Tracks /\ seen[t] # NoProfile /\ seen[t] \in Profiles
      BY <1>1 DEF Usable, Build
    <2>3. Cardinality(Targets(p, s)') <= MaxTargets
      <3>1. CASE Targets(p, s)' = {}
        BY <1>3, <3>1
      <3>2. CASE Targets(p, s)' # {}
        <4> DEFINE edges == {r \in candidates' : r.project = p /\ r.from = s}
        <4>0. Targets(p, s)' = {r.to : r \in edges}
          BY DEF Targets, GraphOf
        <4>1. s \in Usable(b)
          <5>1. PICK r \in edges : TRUE
            BY <3>2, <4>0
          <5>2. r \in candidates' /\ r.project = p /\ r.from = s
            OBVIOUS
          <5>3. QED BY <2>1, <5>2
        <4>2. Targets(p, s)' \in SUBSET CandidateTargets(s, seen)
          <5>1. ASSUME NEW r \in edges PROVE r.to \in CandidateTargets(s, seen)
            BY <2>1
          <5>2. QED BY <4>0, <5>1
        <4>3. seen \in [Tracks -> Profiles \cup {NoProfile}]
          BY <1>1 DEF Build
        <4>4. /\ IsFiniteSet(CandidateTargets(s, seen))
              /\ Cardinality(CandidateTargets(s, seen)) <= MaxTargets
          BY <2>2, <4>1, <4>3, TargetsBounded
        <4>5. QED BY <4>2, <4>4, SmallerStays
      <3>3. QED BY <3>1, <3>2
    <2>4. ASSUME NEW t \in Tracks
          PROVE  /\ IsFiniteSet(PairRows(p, s, t)')
                 /\ Cardinality(PairRows(p, s, t)') <= Max(Limits)
      <3> DEFINE rows == PairRows(p, s, t)'
                 cues == CuePairs(seen[s], seen[t], limit)
                 bars == [r \in rows |-> <<r.fromBar, r.toBar>>]
      <3>1. CASE rows = {}
        BY <1>3, <3>1
      <3>2. CASE rows # {}
        <4>1. \A r \in rows : /\ r \in candidates'
                              /\ r.project = p /\ r.from = s /\ r.to = t
          BY DEF PairRows, GraphOf
        <4>2. s \in Usable(b) /\ t \in Usable(b)
          <5>1. PICK r \in rows : TRUE
            BY <3>2
          <5>2. r \in candidates' /\ r.project = p /\ r.from = s /\ r.to = t
            BY <4>1
          <5>3. QED BY <2>1, <5>2
        <4>3. IsFiniteSet(cues) /\ Cardinality(cues) <= limit
          BY <1>2, <2>2, <4>2, CuePairsBounded
        <4> HIDE DEF rows, cues
        <4>4. \A r \in rows : bars[r] \in cues
          BY <2>1, <4>1 DEF cues
        <4>5. \A r, q \in rows : bars[r] = bars[q] => r = q
          <5> SUFFICES ASSUME NEW r \in rows, NEW q \in rows, bars[r] = bars[q]
                       PROVE  r = q
            OBVIOUS
          <5>1. r.fromBar = q.fromBar /\ r.toBar = q.toBar
            OBVIOUS
          <5>2. KeyOf(r) = KeyOf(q)
            BY <4>1, <5>1 DEF KeyOf
          <5>3. r \in candidates' /\ q \in candidates'
            BY <4>1
          <5>4. QED BY <5>2, <5>3 DEF UniqueKeys, KeyOf
        <4>6. bars \in Injection(rows, cues)
          BY <4>4, <4>5 DEF Injection, IsInjective
        <4>7. IsFiniteSet(rows) /\ Cardinality(rows) <= Cardinality(cues)
          BY <4>3, <4>6, FS_Injection
        <4>8. Cardinality(rows) \in Nat /\ Cardinality(cues) \in Nat
          BY <4>3, <4>7, FS_CardinalityType
        <4>9. Cardinality(rows) <= Max(Limits)
          BY <1>2, <4>3, <4>7, <4>8
        <4>10. QED BY <4>7, <4>9 DEF rows
      <3>3. QED BY <3>1, <3>2
    <2>5. QED BY <2>3, <2>4
  <1>6. QED BY <1>4, <1>5

LEMMA LimitsStep == IInv /\ LimitsAsked /\ [Next]_vars => LimitsAsked'
  <1> SUFFICES ASSUME IInv, LimitsAsked, [Next]_vars, NEW b \in Builders,
                      builder'[b].pc # "idle"
               PROVE  builder'[b].limit \in Limits
    BY DEF LimitsAsked
  <1>0. TypeOK
    BY DEF IInv
  <1>1. CASE builder'[b] = builder[b]
    BY <1>1 DEF LimitsAsked
  <1>2. ASSUME NEW p \in Projects, NEW force \in Forces, NEW limit \in Limits,
               NEW asked \in Requests, Begin(b, p, force, limit, asked)
        PROVE  builder'[b].limit \in Limits
    BY <1>0, <1>2 DEF Begin, TypeOK
  <1>3. CASE builder[b].pc # "idle" /\ builder'[b].limit = builder[b].limit
    BY <1>3 DEF LimitsAsked
  <1>4. ASSUME \/ Look(b) \/ ReadLabels(b) \/ ReadFeedback(b) \/ Replace(b) \/ ReplaceFails(b)
               \/ \E t \in Tracks : ReadProfile(b, t) \/ ReadGenre(b, t)
        PROVE  builder[b].pc # "idle" /\ builder'[b].limit = builder[b].limit
    <2>1. builder[b].pc # "idle"
      BY <1>4 DEF Look, ReadLabels, ReadFeedback, Replace, ReplaceFails, ReadProfile, ReadGenre
    <2>2. builder[b] \in Build
      BY <1>0, <2>1, BusyBuild
    <2>3. builder'[b] # Idle
      BY IdleFacts
    <2>4. CASE Look(b)
      BY <1>0, <2>2, <2>3, <2>4 DEF TypeOK, Build, Look
    <2>5. CASE ReadLabels(b) \/ ReadFeedback(b)
      BY <1>0, <2>2, <2>5 DEF TypeOK, Build, ReadLabels, ReadFeedback
    <2>6. CASE Replace(b) \/ ReplaceFails(b)
      BY <1>0, <2>3, <2>6 DEF TypeOK, Replace, ReplaceFails
    <2>7. CASE \E t \in Tracks : ReadProfile(b, t) \/ ReadGenre(b, t)
      BY <1>0, <2>2, <2>7 DEF TypeOK, Build, ReadProfile, ReadGenre
    <2>8. QED BY <1>4, <2>1, <2>4, <2>5, <2>6, <2>7
  <1>5. ASSUME NEW a \in Builders, a # b, BuildStep(a) PROVE builder'[b] = builder[b]
    BY <1>0, <1>5 DEF TypeOK, BuildStep, Begin, Look, ReadProfile, ReadGenre, ReadLabels,
                      ReadFeedback, Replace, ReplaceFails
  <1>6. ASSUME NEW w \in Renderers, RenderStep(w) PROVE builder'[b] = builder[b]
    BY <1>6 DEF RenderStep, AskRender, Snapshot, CreateRender, RenderComesToNothing
  <1>7. CASE Listen
    BY <1>1, <1>7 DEF Listen, AddLabel, DeleteLabel, DeleteRender, Relabel
  <1>8. CASE Change
    BY <1>1, <1>8 DEF Change, CreateProject, DeleteProject, Ingest, DeleteTrack, SetGenre,
                      Reprofile, Edit
  <1>9. CASE UNCHANGED vars
    BY <1>1, <1>9 DEF vars
  <1>10. QED
    BY <1>1, <1>2, <1>3, <1>4, <1>5, <1>6, <1>7, <1>8, <1>9 DEF Next, BuildStep

LEMMA SizeStep == IInv /\ SizeInv /\ [Next]_vars => SizeInv'
  <1> SUFFICES ASSUME IInv, SizeInv, [Next]_vars PROVE SizeInv'
    OBVIOUS
  <1>0. UniqueKeys' /\ LimitsAsked'
    BY EndsStep, LimitsStep DEF SizeInv
  <1>1. ASSUME NEW p \in Projects, NEW s \in Tracks
        PROVE  /\ Cardinality(Targets(p, s)') <= MaxTargets
               /\ \A t \in Tracks : /\ IsFiniteSet(PairRows(p, s, t)')
                                    /\ Cardinality(PairRows(p, s, t)') <= Max(Limits)
    <2>1. ASSUME NEW b \in Builders, Replace(b)
          PROVE  /\ Cardinality(Targets(p, s)') <= MaxTargets
                 /\ \A t \in Tracks : /\ IsFiniteSet(PairRows(p, s, t)')
                                      /\ Cardinality(PairRows(p, s, t)') <= Max(Limits)
      BY <1>0, <2>1, ReplaceSized
    <2>2. ASSUME candidates' \subseteq candidates
          PROVE  /\ Cardinality(Targets(p, s)') <= MaxTargets
                 /\ \A t \in Tracks : /\ IsFiniteSet(PairRows(p, s, t)')
                                      /\ Cardinality(PairRows(p, s, t)') <= Max(Limits)
      BY <2>2, FewerSized DEF IInv
    <2>3. ASSUME NEW q \in Projects, DeleteProject(q) PROVE candidates' \subseteq candidates
      BY <2>3 DEF DeleteProject
    <2>4. ASSUME NEW t \in Tracks, DeleteTrack(t) PROVE candidates' \subseteq candidates
      BY <2>4 DEF DeleteTrack
    <2>5. QED BY <2>1, <2>2, <2>3, <2>4, CandidatesChange
  <1>2. QED BY <1>0, <1>1 DEF SizeInv

\* However builds overlap and profiles move, the graph is never a mixture of
\* them: a source keeps to its limit of targets, and a pair to its limit of rows.
THEOREM GraphBoundedHolds == Spec => []GraphBounded
  <1>1. Init => SizeInv
    BY SizeInit
  <1>2. IInv /\ SizeInv /\ [Next]_vars => SizeInv'
    BY SizeStep
  <1>3. SizeInv => GraphBounded
    BY DEF SizeInv, GraphBounded, Targets, PairRows
  <1>4. QED BY <1>1, <1>2, <1>3, Invariance, PTL DEF Spec

-----------------------------------------------------------------------------
(* Feedback. *)

\* There are finitely many renders, and finitely many labels of each.
EvidenceFinite ==
  IsFiniteSet(renders) /\ \A x \in renders : x.good + x.bad <= MaxLabels

\* What a step may do to the renders.
LEMMA RendersChange ==
  ASSUME TypeOK, [Next]_vars
  PROVE  \/ renders' \subseteq renders
         \/ \E w \in Renderers : CreateRender(w)
         \/ \E x \in renders, good \in Nat, bad \in Nat : Relabel(x, good, bad)
  <1> USE DEF store, graph, evidence
  <1>1. CASE UNCHANGED vars
    BY <1>1 DEF vars
  <1>2. ASSUME NEW b \in Builders, BuildStep(b) PROVE renders' \subseteq renders
    BY <1>2 DEF BuildStep, Begin, Look, ReadProfile, ReadGenre, ReadLabels, ReadFeedback,
                Replace, ReplaceFails, DropCandidates
  <1>3. ASSUME NEW w \in Renderers, RenderStep(w), ~CreateRender(w)
        PROVE  renders' \subseteq renders
    BY <1>3 DEF RenderStep, AskRender, Snapshot, RenderComesToNothing
  <1>4. ASSUME NEW x \in renders, AddLabel(x) \/ DeleteLabel(x)
        PROVE  \E good \in Nat, bad \in Nat : Relabel(x, good, bad)
    <2>1. x.good \in Nat /\ x.bad \in Nat
      BY DEF TypeOK, Render
    <2>2. QED BY <1>4, <2>1 DEF AddLabel, DeleteLabel
  <1>5. ASSUME NEW x \in renders, DeleteRender(x) PROVE renders' \subseteq renders
    BY <1>5 DEF DeleteRender
  <1>6. CASE Change
    BY <1>6 DEF Change, CreateProject, DeleteProject, Ingest, DeleteTrack, SetGenre, Reprofile,
                Edit, DropCandidates
  <1>7. QED BY <1>1, <1>2, <1>3, <1>4, <1>5, <1>6 DEF Next, Listen

LEMMA EvidenceStep == IInv /\ EvidenceFinite /\ [Next]_vars => EvidenceFinite'
  <1> SUFFICES ASSUME IInv, EvidenceFinite, [Next]_vars PROVE EvidenceFinite'
    OBVIOUS
  <1>1. CASE renders' \subseteq renders
    BY <1>1, FS_Subset DEF EvidenceFinite
  <1>2. ASSUME NEW w \in Renderers, CreateRender(w) PROVE EvidenceFinite'
    <2> DEFINE x == [id |-> lastRender + 1, of |-> renderer[w].of,
                     technique |-> renderer[w].technique, sources |-> renderer[w].sources,
                     good |-> 0, bad |-> 0]
    <2>0. renders' = renders \cup {x}
      BY <1>2 DEF CreateRender
    <2>1. x.good = 0 /\ x.bad = 0
      OBVIOUS
    <2> HIDE DEF x
    <2>2. IsFiniteSet(renders')
      BY <2>0, FS_AddElement DEF EvidenceFinite
    <2>3. QED BY <2>0, <2>1, <2>2 DEF EvidenceFinite
  <1>3. ASSUME NEW x \in renders, NEW good \in Nat, NEW bad \in Nat, Relabel(x, good, bad)
        PROVE  EvidenceFinite'
    <2>1. x \in Render
      BY DEF IInv, TypeOK
    <2> DEFINE y == [x EXCEPT !.good = good, !.bad = bad]
    <2>2. renders' = (renders \ {x}) \cup {y} /\ good + bad <= MaxLabels
      BY <1>3 DEF Relabel
    <2>0. y.good = good /\ y.bad = bad
      BY <2>1 DEF Render
    <2> HIDE DEF y
    <2>3. IsFiniteSet(renders \ {x})
      BY FS_RemoveElement DEF EvidenceFinite
    <2>4. IsFiniteSet(renders')
      BY <2>2, <2>3, FS_AddElement
    <2>5. QED BY <2>0, <2>2, <2>4 DEF EvidenceFinite
  <1>4. QED BY <1>1, <1>2, <1>3, RendersChange DEF IInv

LEMMA Three ==
  ASSUME NEW a, NEW b, NEW c, a # b, a # c, b # c
  PROVE  Cardinality({a, b, c}) = 3
  <1>1. ASSUME NEW S, NEW x, IsFiniteSet(S), x \notin S
        PROVE  IsFiniteSet(S \cup {x}) /\ Cardinality(S \cup {x}) = Cardinality(S) + 1
    <2>1. Cardinality(S \cup {x}) = IF x \in S THEN Cardinality(S) ELSE Cardinality(S) + 1
      BY <1>1, FS_AddElement, Zenon
    <2>2. IsFiniteSet(S \cup {x})
      BY <1>1, FS_AddElement, Zenon
    <2>3. QED BY <1>1, <2>1, <2>2
  <1>2. IsFiniteSet({a}) /\ Cardinality({a}) = 1
    BY FS_Singleton
  <1>3. IsFiniteSet({a} \cup {b}) /\ Cardinality({a} \cup {b}) = Cardinality({a}) + 1
    BY <1>1, <1>2, Zenon
  <1>4. Cardinality(({a} \cup {b}) \cup {c}) = Cardinality({a} \cup {b}) + 1
    <2>1. c \notin {a} \cup {b}
      OBVIOUS
    <2>2. QED BY <1>1, <1>3, <2>1, Zenon
  <1>5. {a, b, c} = ({a} \cup {b}) \cup {c}
    OBVIOUS
  <1>6. Cardinality({a, b, c}) = Cardinality({a}) + 1 + 1
    BY <1>3, <1>4, <1>5, Zenon
  <1>7. QED BY <1>2, <1>6

\* A technique with a render of three bad labels, in a family without a good
\* one, has failed.
LEMMA ThreeBadFail ==
  ASSUME TypeOK, EvidenceFinite, NEW x \in renders, x.bad >= 3,
         \A y \in renders : y.good = 0
  PROVE  <<x.technique, FamilyOf(x)>> \in HardFailed
  <1> DEFINE v == <<x.technique, FamilyOf(x)>>
             judging == {y \in renders : <<y.technique, FamilyOf(y)>> = v}
             bad == UNION {{y} \X (1 .. y.bad) : y \in judging}
             good == UNION {{y} \X (1 .. y.good) : y \in judging}
  <1>1. \A y \in renders : y.bad \in Nat /\ y.bad <= MaxLabels
    <2>1. \A y \in renders : y.good \in Nat /\ y.bad \in Nat /\ y.good + y.bad <= MaxLabels
      BY DEF TypeOK, Render, EvidenceFinite
    <2>2. QED BY <2>1
  <1>2. IsFiniteSet(bad)
    <2>1. MaxLabels \in Int /\ 1 \in Int
      OBVIOUS
    <2>2. IsFiniteSet(1 .. MaxLabels)
      BY <2>1, FS_Interval
    <2>3. IsFiniteSet(renders \X (1 .. MaxLabels))
      BY <2>2, FS_Product DEF EvidenceFinite
    <2>4. bad \in SUBSET (renders \X (1 .. MaxLabels))
      BY <1>1
    <2>5. QED BY <2>3, <2>4, FS_Subset
  <1>3. good = {}
    OBVIOUS
  <1>4. Cardinality(bad) \in Nat /\ Cardinality(bad) >= 3
    <2> DEFINE three == {<<x, 1>>, <<x, 2>>, <<x, 3>>}
    <2>1. x \in judging /\ {1, 2, 3} \subseteq 1 .. x.bad
      BY <1>1
    <2>2. three \in SUBSET bad
      BY <2>1
    <2>3. Cardinality(three) = 3
      <3>1. <<x, 1>> # <<x, 2>> /\ <<x, 1>> # <<x, 3>> /\ <<x, 2>> # <<x, 3>>
        OBVIOUS
      <3>2. QED BY <3>1, Three, Zenon
    <2> HIDE DEF three, bad
    <2>4. Cardinality(three) <= Cardinality(bad) /\ Cardinality(bad) \in Nat
      BY <1>2, <2>2, FS_Subset, FS_CardinalityType
    <2>5. QED BY <2>3, <2>4
  <1>5. LabelsOf(v) = [bad |-> Cardinality(bad), total |-> Cardinality(bad) + Cardinality(good)]
    BY DEF LabelsOf
  <1>6. Cardinality(good) = 0
    BY <1>3, FS_EmptySet
  <1> HIDE DEF bad, good
  <1>7. TechniqueHardFailed(LabelsOf(v))
    BY <1>4, <1>5, <1>6 DEF TechniqueHardFailed
  <1>8. QED BY <1>7 DEF HardFailed

\* A row of the project, after a build, offers what the build has filtered.
LEMMA ReplaceOffers ==
  ASSUME IInv, NEW b \in Builders, Replace(b), NEW r \in candidates',
         r.project = builder[b].project
  PROVE  /\ r.from \in Usable(b) /\ r.to \in Usable(b)
         /\ r.techniques = Filtered(b, r.from, r.to)
  <1>1. TypeOK /\ UniqueKeys
    BY DEF IInv
  <1>2. PICK o \in Built(b) : r = Upserted(o)
    BY <1>1, ReplaceGives
  <1>3. r.from = o.from /\ r.to = o.to /\ r.techniques = o.techniques
    BY <1>2 DEF Upserted, WithId
  <1>4. QED BY <1>2, <1>3, BuiltFrom

\* Feedback meets the candidates it was given for, by however many sources,
\* genres and labels: a technique that failed in a pair's family is not offered
\* by a build all of whose readings still hold.
THEOREM FeedbackHeededHolds == Spec => FeedbackHeeded
  <1> DEFINE Current(b) ==
               /\ builder[b].pc = "replacing" /\ commits' # commits /\ builder'[b] = Idle
               /\ builder[b].feedback = HardFailed
               /\ \A t \in Usable(b) : /\ builder[b].seen[t] = profile[t]
                                       /\ builder[b].genre[t] = library[t]
             Meets(b, x, r) ==
               /\ x.bad >= 3 /\ \A y \in renders : y.good = 0
               /\ r.project = builder[b].project
               /\ <<profile[r.from].source, profile[r.to].source>> = x.sources
               /\ library[r.from] = library[x.of.key.from]
               /\ library[r.to] = library[x.of.key.to]
             Heeded == \A b \in Builders : Current(b) =>
               \A x \in renders, r \in candidates' :
                 Meets(b, x, r) => x.technique \notin r.techniques
  <1>1. Init => EvidenceFinite
    BY FS_EmptySet DEF Init, EvidenceFinite
  <1>2. ASSUME IInv, EvidenceFinite, [Next]_vars PROVE Heeded
    <2> SUFFICES ASSUME NEW b \in Builders, Current(b), NEW x \in renders,
                        NEW r \in candidates', Meets(b, x, r)
                 PROVE  x.technique \notin r.techniques
      OBVIOUS
    <2>1. Replace(b)
      <3>1. builder'[b] # builder[b]
        BY IdleFacts
      <3>2. PICK a \in Builders : Replace(a)
        BY <1>2, CandidatesChange DEF DeleteProject, DeleteTrack, Edit
      <3>3. a = b
        BY <1>2, <3>1, <3>2 DEF Replace, IInv, TypeOK
      <3>4. QED BY <3>2, <3>3
    <2>2. /\ r.from \in Usable(b) /\ r.to \in Usable(b)
          /\ r.techniques = Filtered(b, r.from, r.to)
      BY <1>2, <2>1, ReplaceOffers
    <2>3. FamilyRead(b, r.from, r.to) = FamilyOf(x)
      BY <2>2 DEF FamilyRead, FamilyOf, Family, Sources
    <2>4. <<x.technique, FamilyOf(x)>> \in builder[b].feedback
      BY <1>2, ThreeBadFail DEF IInv
    <2>5. QED BY <2>2, <2>3, <2>4 DEF Filtered
  <1>3. IInv /\ EvidenceFinite /\ [Next]_vars => Heeded
    BY <1>2
  <1>4. QED
    BY <1>1, <1>3, EvidenceStep, Invariance, PTL DEF Spec, FeedbackHeeded
=============================================================================
