---------------------------- MODULE PollingPages ----------------------------
(***************************************************************************)
(* The two pages of the frontend that poll the backend: refresh() and its  *)
(* effects in LibraryPage.tsx and in TrackDetailPage.tsx.  A refresh sends *)
(* its requests together and may write what they answer only if it is still*)
(* the newest of a page that is still mounted.                             *)
(*                                                                         *)
(* Of what is asked two things are kept: the "status", which a failed      *)
(* request clears (health; the track), and the "rows", which it leaves as  *)
(* they were.  "rows" stands for the lists that only a refresh writes      *)
(* (tracks, jobs, plugins; analyses) or for the projects of the library    *)
(* page, which buildGraph() writes too, without any of these checks.  The  *)
(* list of renders, which several buttons patch so, is left out.           *)
(***************************************************************************)
EXTENDS Integers

CONSTANTS
  MaxRefreshes, \* bound on refreshes of a page
  MaxChanges    \* bound on changes of what the backend answers

ASSUME PagesAssumption == MaxRefreshes \in Nat \ {0, 1} /\ MaxChanges \in Nat

VARIABLES
  page,    \* [kind, strict, rows]: which page, whether under <StrictMode> in development,
           \* and what the rows are
  screen,  \* "before", "on" or "off": has the page been mounted, is it still?
  mounted, \* mountedRef.current
  seq,     \* refreshSeqRef.current
  refresh, \* refresh[r]: where the r-th refresh is, and its answers so far
  shown,   \* what the page shows: the version of each answer, 0 for none
  server,  \* the version of what the backend answers now
  saving,  \* the answer to saveGenre that is under way, 0 if none is
  graph    \* [building, base, project, put]: is buildGraph() under way, the version of the
           \* projects in its closure, the version its own project made, 0 for none; put is
           \* history, the version of the last list a build has put its project into

pageVars == <<page, screen, mounted, seq, refresh, shown, server, saving, graph>>

-----------------------------------------------------------------------------
Asked == {"status", "rows"}

Refreshes == 1 .. MaxRefreshes

Pending == -1

Failed == 0

\* signal: "none", or the state of the AbortController it was called with.
Refresh == [pc : {"unused", "asking", "listing", "over"}, signal : {"none", "live", "aborted"},
            got : [Asked -> Int]]

Begun(signal, pc) == [pc |-> pc, signal |-> signal, got |-> [a \in Asked |-> Pending]]

Unused == Begun("none", "unused")

\* A refresh that has returned: its locals are gone.
Over == Begun("none", "over")

Library == page.kind = "library"

Pages ==
  [kind : {"library", "track"}, strict : BOOLEAN, rows : {"lists"}]
    \cup [kind : {"library"}, strict : BOOLEAN, rows : {"projects"}]

Idle == [building |-> FALSE, base |-> 0, project |-> 0, put |-> 0]

\* Only the library page has a controller to pass on.
EffectSignal == IF Library THEN "live" ELSE "none"

Abort(refreshes) ==
  [r \in Refreshes |->
    IF refreshes[r].signal = "live" THEN [refreshes[r] EXCEPT !.signal = "aborted"]
                                    ELSE refreshes[r]]

\* Mutant: an older refresh may write as well.
FreshAnySeq(r) == mounted /\ refresh[r].signal # "aborted"

\* The condition after every await; isFresh() of the track page.
Fresh(r) == mounted /\ r = seq /\ refresh[r].signal # "aborted"

\* The patch: what has failed leaves the page as it was, but for the status.
Patched(r) ==
  [a \in Asked |->
    IF refresh[r].got[a] # Failed \/ a = "status" THEN refresh[r].got[a] ELSE shown[a]]

-----------------------------------------------------------------------------
\* Mutant: the effect does not set the flag again, as the track page's does not.
MountPageOnce ==
  LET first == Begun(EffectSignal, "asking") IN
  /\ screen = "before" /\ screen' = "on"
  /\ mounted' = ~page.strict
  /\ IF page.strict
       THEN /\ seq' = 2
            /\ refresh' = [Abort([refresh EXCEPT ![1] = first]) EXCEPT
                 ![2] = IF Library THEN first ELSE Over]
       ELSE /\ seq' = 1
            /\ refresh' = [refresh EXCEPT ![1] = first]
  /\ UNCHANGED <<page, shown, server, saving, graph>>

\* The effects run: a first refresh.  Under StrictMode React runs the cleanups
\* and the effects once more, with the same refs: a second refresh, which on the
\* track page finds mountedRef false, as nothing sets it again.
MountPage ==
  LET first == Begun(EffectSignal, "asking") IN
  /\ screen = "before" /\ screen' = "on"
  /\ mounted' = (Library \/ ~page.strict)
  /\ IF page.strict
       THEN /\ seq' = 2
            /\ refresh' = [Abort([refresh EXCEPT ![1] = first]) EXCEPT
                 ![2] = IF Library THEN first ELSE Over]
       ELSE /\ seq' = 1
            /\ refresh' = [refresh EXCEPT ![1] = first]
  /\ UNCHANGED <<page, shown, server, saving, graph>>

\* The interval of five seconds, or a handler (ingest, runAnalyzer, ...) that
\* calls refresh() without a signal when its own request is answered, be the
\* page on screen or not.  The track page returns at once if it is not mounted.
StartRefresh(signal) ==
  /\ screen = "on" \/ (screen = "off" /\ signal = "none")
  /\ seq < MaxRefreshes /\ seq' = seq + 1
  /\ refresh' = [refresh EXCEPT ![seq + 1] =
       IF Library \/ mounted THEN Begun(signal, "asking") ELSE Over]
  /\ UNCHANGED <<page, screen, mounted, shown, server, saving, graph>>

\* A request is answered, or fails.
Answered(r, a) ==
  /\ refresh[r].pc = "asking" /\ refresh[r].got[a] = Pending
  /\ \E answer \in {server, Failed} : refresh' = [refresh EXCEPT ![r].got[a] = answer]
  /\ UNCHANGED <<page, screen, mounted, seq, shown, server, saving, graph>>

\* Promise.allSettled: the library page goes on to ask for the renders, the
\* track page writes.
Settle(r) ==
  /\ refresh[r].pc = "asking"
  /\ \A a \in Asked : refresh[r].got[a] # Pending
  /\ refresh' = [refresh EXCEPT ![r] =
       IF Library /\ Fresh(r) THEN [@ EXCEPT !.pc = "listing"] ELSE Over]
  /\ shown' = IF ~Library /\ Fresh(r) THEN Patched(r) ELSE shown
  /\ UNCHANGED <<page, screen, mounted, seq, server, saving, graph>>

\* The renders and their labels have come, or failed: the same check again.
DispatchPatch(r) ==
  /\ refresh[r].pc = "listing"
  /\ refresh' = [refresh EXCEPT ![r] = Over]
  /\ shown' = IF Fresh(r) THEN Patched(r) ELSE shown
  /\ UNCHANGED <<page, screen, mounted, seq, server, saving, graph>>

\* The cleanups run for good.
Unmount ==
  /\ screen = "on" /\ screen' = "off"
  /\ mounted' = FALSE
  /\ refresh' = Abort(refresh)
  /\ UNCHANGED <<page, seq, shown, server, saving, graph>>

ServerChanges ==
  /\ server <= MaxChanges /\ server' = server + 1
  /\ UNCHANGED <<page, screen, mounted, seq, refresh, shown, saving, graph>>

\* saveGenre of the track page: the request changes the track ...
SetGenre ==
  /\ ~Library /\ screen = "on" /\ shown["status"] # 0
  /\ saving = 0
  /\ server <= MaxChanges /\ server' = server + 1
  /\ saving' = server + 1
  /\ UNCHANGED <<page, screen, mounted, seq, refresh, shown, graph>>

\* ... and its answer is shown, whatever refresh is under way.
GenreSaved ==
  /\ saving # 0 /\ saving' = 0
  /\ shown' = IF mounted THEN [shown EXCEPT !["status"] = saving] ELSE shown
  /\ UNCHANGED <<page, screen, mounted, seq, refresh, server, graph>>

\* buildGraph of the library page: a click, which the button takes while no build
\* is under way, closes over the projects that are shown ...
BuildGraph ==
  /\ page.rows = "projects" /\ screen = "on" /\ ~graph.building
  /\ graph' = [graph EXCEPT !.building = TRUE, !.base = shown["rows"]]
  /\ UNCHANGED <<page, screen, mounted, seq, refresh, shown, server, saving>>

\* ... makes a project if there was none in them ...
CreateProject ==
  /\ graph.building /\ graph.project = 0
  /\ server <= MaxChanges /\ server' = server + 1
  /\ graph' = [graph EXCEPT !.project = server + 1]
  /\ UNCHANGED <<page, screen, mounted, seq, refresh, shown, saving>>

\* ... and, when the build and the renders have come, puts those projects back with
\* its own in front, whatever refresh has written since and be the page mounted or
\* not: the newest list if only its own project has been new, else the list of the
\* click but for it.
GraphBuilt ==
  LET newest == graph.project # 0 /\ graph.base = graph.project - 1
      list   == IF newest THEN graph.project ELSE graph.base
  IN
  /\ graph.building /\ (graph.base = 0 => graph.project # 0)
  /\ shown' = [shown EXCEPT !["rows"] = list]
  /\ graph' = [Idle EXCEPT !.put = IF graph.project # 0 THEN list ELSE graph.put]
  /\ UNCHANGED <<page, screen, mounted, seq, refresh, server, saving>>

\* A request of the build fails: its error is shown, and the lists stay.
GraphFailed ==
  /\ graph.building
  /\ graph' = [Idle EXCEPT !.put = graph.put]
  /\ UNCHANGED <<page, screen, mounted, seq, refresh, shown, server, saving>>

-----------------------------------------------------------------------------
PagesInit ==
  /\ page \in Pages
  /\ screen = "before"
  /\ mounted = TRUE
  /\ seq = 0
  /\ refresh = [r \in Refreshes |-> Unused]
  /\ shown = [a \in Asked |-> 0]
  /\ server = 1
  /\ saving = 0
  /\ graph = Idle

PagesNext ==
  \/ MountPage \/ Unmount \/ ServerChanges \/ SetGenre \/ GenreSaved
  \/ BuildGraph \/ CreateProject \/ GraphBuilt \/ GraphFailed
  \/ StartRefresh(EffectSignal) \/ StartRefresh("none")
  \/ \E r \in Refreshes, a \in Asked : Answered(r, a)
  \/ \E r \in Refreshes : Settle(r) \/ DispatchPatch(r)

PagesSpec == PagesInit /\ [][PagesNext]_pageVars

-----------------------------------------------------------------------------
(* Properties. *)

\* The refs, the requests and the page hold what the code puts there.
PagesTypeOK ==
  /\ page \in Pages
  /\ screen \in {"before", "on", "off"} /\ mounted \in BOOLEAN
  /\ seq \in 0 .. MaxRefreshes /\ server \in 1 .. MaxChanges + 1
  /\ refresh \in [Refreshes -> Refresh]
  /\ shown \in [Asked -> 0 .. server] /\ saving \in 0 .. server
  /\ graph \in [building : BOOLEAN, base : 0 .. server, project : 0 .. server,
               put : 0 .. server]

\* A build is over: it has been built, or has failed.
BuildEnds == graph.building /\ ~graph'.building

\* What a page shows never gives way to something older, however long an answer
\* has taken, and to nothing at all once the page has gone, whoever asked and
\* with or without a signal (LibraryPage.tsx 56-60).  Two commands that patch what
\* they did themselves are outside: the track saved by saveGenre, and the list
\* with a build's own project, may be brought back by a refresh begun before.  And
\* the end of a build, which tests nothing, may bring the projects back, but to no
\* older list than that of its click (LibraryPage.tsx 217-224).
ShownNeverGoesBack ==
  [][IF BuildEnds
       THEN /\ shown'["status"] = shown["status"]
            /\ shown' = shown \/ graph.base <= shown'["rows"]
       ELSE /\ \A a \in Asked :
                 (Library \/ a = "rows") =>
                   \/ shown'[a] = 0 \/ shown[a] <= shown'[a]
                   \/ a = "rows" /\ shown[a] = graph.put
            /\ screen = "off" => shown' = shown]_pageVars

\* When the newest refresh of a page on screen is over, the page shows what it
\* brought and no status the latest probe did not confirm.  The track page does
\* not keep this under StrictMode: see the README.
NewestRefreshCounts ==
  [][\A r \in Refreshes :
       (r = seq /\ screen = "on" /\ refresh[r].pc \in {"asking", "listing"}
          /\ refresh'[r].pc = "over" /\ (Library \/ ~page.strict))
       => \A a \in Asked :
            (refresh[r].got[a] # Failed \/ a = "status") => shown'[a] = refresh[r].got[a]]_pageVars

-----------------------------------------------------------------------------
(* The inductive invariant. *)

\* The effects have run on a page on screen; a page that has gone is not mounted.
MountedOnScreen ==
  /\ screen = "before" => seq = 0
  /\ screen = "on" => /\ seq > 0 /\ refresh[seq].signal # "aborted"
                      /\ Library \/ ~page.strict => mounted
  /\ screen = "off" => ~mounted

\* An answer is a version the backend has had, and a refresh that goes on has all.
AnswersOfServer ==
  \A r \in Refreshes : \A a \in Asked :
    /\ refresh[r].got[a] \in -1 .. server
    /\ refresh[r].pc = "listing" => refresh[r].got[a] # Pending

\* The newest refresh has nothing older than what is shown, which only a refresh
\* before it can have brought, nor than what a build may bring back; only the list
\* with a build's own project may be newer.
NewestIsAhead ==
  \A r \in Refreshes : r = seq =>
    \A a \in Asked : (Library \/ a = "rows") /\ refresh[r].got[a] > 0 =>
      /\ shown[a] <= refresh[r].got[a] \/ (a = "rows" /\ shown[a] = graph.put)
      /\ (graph.building /\ a = "rows") =>
           graph.base <= refresh[r].got[a] \/ graph.base = graph.put

OnlyTrackSaves == saving # 0 => ~Library

OnlyProjectsBuilt == graph.building => page.rows = "projects"

PagesInv ==
  /\ PagesTypeOK /\ MountedOnScreen /\ AnswersOfServer /\ NewestIsAhead
  /\ OnlyTrackSaves /\ OnlyProjectsBuilt
=============================================================================
