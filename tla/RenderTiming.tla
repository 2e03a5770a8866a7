---------------------------- MODULE RenderTiming ----------------------------
(***************************************************************************)
(* Where a render cuts its two tracks: _derive_timing and _timing_defaults *)
(* (transition_renderer.py), for every technique.  Times are integers, in  *)
(* ticks of a quarter of a second, so that the defaults are whole.  The    *)
(* tempo ratio is a fraction, and the audio of the target from its cue on  *)
(* is room * num ticks long, so that it plays for room * den ticks.        *)
(***************************************************************************)
EXTENDS Integers

CONSTANTS
  FromCues, FromDurations, \* of the source
  ToCues, Rooms,           \* of the target
  Ratios                   \* tempo_match_ratio, as [num, den]

ASSUME TimingAssumption ==
  /\ FromCues \subseteq Int /\ FromDurations \subseteq Int
  /\ ToCues \subseteq Int /\ Rooms \subseteq Int
  /\ Ratios \subseteq [num : Nat \ {0}, den : Nat \ {0}]

VARIABLES
  cut,   \* what _derive_timing is asked
  timing \* what it has answered

timingVars == <<cut, timing>>

-----------------------------------------------------------------------------
RenderTechnique == {"phrase_swap", "filter_blend", "long_crossfade", "echo_out"}

Cut == [technique : RenderTechnique, fromCue : FromCues, fromDuration : FromDurations,
        toCue : ToCues, room : Rooms, ratio : Ratios]

\* _timing_defaults: the last is what every other technique gets.
TimingDefaults(technique) ==
  CASE technique = "phrase_swap" -> [transition |-> 3, least |-> 1, lead |-> 16, tail |-> 48]
    [] technique = "echo_out" -> [transition |-> 16, least |-> 8, lead |-> 8, tail |-> 72]
    [] OTHER -> [transition |-> 32, least |-> 8, lead |-> 48, tail |-> 96]

Smaller(a, b) == IF a <= b THEN a ELSE b

SourcePost(c) == c.fromDuration - c.fromCue

\* (to_duration_sec - to_cue_sec) / tempo_match_ratio
TargetPostOutput(c) == c.room * c.ratio.den

Transition(c) ==
  Smaller(TimingDefaults(c.technique).transition, Smaller(SourcePost(c), TargetPostOutput(c)))

\* The RenderValidationErrors: a cue outside its audio, or no room around it.
Unusable(c) ==
  \/ c.fromCue < 0 \/ c.toCue < 0
  \/ c.fromCue >= c.fromDuration
  \/ c.room <= 0
  \/ Transition(c) < TimingDefaults(c.technique).least

\* Mutant: the tail is what the target has left from its cue on.
TargetTailFromCue(c) == Smaller(TimingDefaults(c.technique).tail, TargetPostOutput(c))

\* The target plays on when the transition is over, if there is anything left.
TargetTail(c) ==
  LET left == TargetPostOutput(c) - Transition(c) IN
  Smaller(TimingDefaults(c.technique).tail, IF left > 0 THEN left ELSE 0)

SourceLead(c) == Smaller(TimingDefaults(c.technique).lead, c.fromCue)

\* target_output_duration_sec; what is cut of the target is num / den of it.
RenderTimingOf(c) ==
  [sourceStart |-> c.fromCue - SourceLead(c),
   sourceDuration |-> SourceLead(c) + Transition(c),
   targetOutput |-> Transition(c) + TargetTail(c),
   transition |-> Transition(c)]

Undecided == [sourceStart |-> -1, sourceDuration |-> -1, targetOutput |-> -1, transition |-> -1]

Refused == [Undecided EXCEPT !.transition = 0]

-----------------------------------------------------------------------------
DeriveTiming ==
  /\ timing = Undecided
  /\ timing' = IF Unusable(cut) THEN Refused ELSE RenderTimingOf(cut)
  /\ UNCHANGED cut

TimingInit == cut \in Cut /\ timing = Undecided

TimingNext == DeriveTiming

TimingSpec == TimingInit /\ [][TimingNext]_timingVars

-----------------------------------------------------------------------------
(* Properties. *)

\* Cuts are those asked for; what is answered is in whole ticks.
TimingTypeOK ==
  /\ cut \in Cut
  /\ timing \in [sourceStart : Int, sourceDuration : Int, targetOutput : Int, transition : Int]

\* Whatever is rendered lies within both tracks, however short, and at any
\* tempo ratio; the crossfade is in the range of its technique and no longer
\* than either of its inputs, which is what ffmpeg's acrossfade asks for.
TimingFits ==
  timing \notin {Undecided, Refused} =>
    /\ 0 <= timing.sourceStart
    /\ timing.sourceStart + timing.sourceDuration <= cut.fromDuration
    /\ timing.targetOutput * cut.ratio.num <= cut.room * cut.ratio.num * cut.ratio.den
    /\ TimingDefaults(cut.technique).least <= timing.transition
    /\ timing.transition <= TimingDefaults(cut.technique).transition
    /\ timing.transition <= timing.sourceDuration
    /\ timing.transition <= timing.targetOutput
=============================================================================
