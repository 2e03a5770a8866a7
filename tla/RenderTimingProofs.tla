------------------------- MODULE RenderTimingProofs -------------------------
(***************************************************************************)
(* Proofs about RenderTiming: what is rendered lies within both tracks,    *)
(* whatever their lengths, the cues and the tempo ratio.                   *)
(***************************************************************************)
EXTENDS RenderTiming, TLAPS

\* The fields that _derive_timing reads have values it can compute with.
LEMMA CutTypes ==
  ASSUME NEW c \in Cut
  PROVE  /\ c.technique \in RenderTechnique
         /\ c.fromCue \in Int /\ c.fromDuration \in Int
         /\ c.toCue \in Int /\ c.room \in Int
         /\ c.ratio.num \in Nat \ {0} /\ c.ratio.den \in Nat \ {0}
         /\ TargetPostOutput(c) \in Int
  <1>1. c.fromCue \in FromCues /\ c.fromDuration \in FromDurations
        /\ c.toCue \in ToCues /\ c.room \in Rooms /\ c.ratio \in Ratios
        /\ c.technique \in RenderTechnique
    BY DEF Cut
  <1>2. c.room \in Int /\ c.ratio.num \in Nat \ {0} /\ c.ratio.den \in Nat \ {0}
    BY <1>1, TimingAssumption
  <1>3. TargetPostOutput(c) \in Int
    BY <1>2 DEF TargetPostOutput
  <1>4. QED BY <1>1, <1>2, <1>3, TimingAssumption

\* Every technique has a shortest and a longest crossfade.
LEMMA Defaults ==
  ASSUME NEW t \in RenderTechnique
  PROVE  /\ TimingDefaults(t).transition \in Nat /\ TimingDefaults(t).least \in Nat
         /\ TimingDefaults(t).lead \in Nat /\ TimingDefaults(t).tail \in Nat
         /\ 1 <= TimingDefaults(t).least
  <1>1. CASE t = "phrase_swap"
    BY <1>1 DEF TimingDefaults
  <1>2. CASE t = "echo_out"
    BY <1>2 DEF TimingDefaults
  <1>3. CASE t \in {"filter_blend", "long_crossfade"}
    <2>1. TimingDefaults(t) = [transition |-> 32, least |-> 8, lead |-> 48, tail |-> 96]
      BY <1>3 DEF TimingDefaults
    <2>2. QED BY <2>1
  <1>4. QED BY <1>1, <1>2, <1>3 DEF RenderTechnique

\* A longer stretch of the target stays longer when it is cut at its own tempo.
LEMMA Scaled ==
  ASSUME NEW x \in Int, NEW r \in Int, NEW d \in Nat, NEW k \in Nat \ {0}, x <= r * d
  PROVE  x * k <= r * k * d
  <1>1. r * d \in Int
    OBVIOUS
  <1>2. ASSUME NEW y \in Int, x <= y PROVE x * k <= y * k
    <2>1. (y - x) * k >= 0
      BY <1>2, SMT
    <2>2. (y - x) * k = y * k - x * k
      BY <1>2, SMT
    <2>3. QED BY <1>2, <2>1, <2>2, SMT
  <1>3. x * k <= (r * d) * k
    BY <1>1, <1>2
  <1>4. (r * d) * k = r * k * d
    BY SMT
  <1>5. QED BY <1>3, <1>4

-----------------------------------------------------------------------------
\* What is rendered of a cut that is not refused.
LEMMA CutFits ==
  ASSUME NEW c \in Cut, ~Unusable(c)
  PROVE  LET t == RenderTimingOf(c) IN
         /\ t \in [sourceStart : Int, sourceDuration : Int, targetOutput : Int, transition : Int]
         /\ 0 <= t.sourceStart
         /\ t.sourceStart + t.sourceDuration <= c.fromDuration
         /\ t.targetOutput * c.ratio.num <= c.room * c.ratio.num * c.ratio.den
         /\ TimingDefaults(c.technique).least <= t.transition
         /\ t.transition <= TimingDefaults(c.technique).transition
         /\ t.transition <= t.sourceDuration
         /\ t.transition <= t.targetOutput
  <1> DEFINE t == RenderTimingOf(c)
             d == TimingDefaults(c.technique)
             left == TargetPostOutput(c) - Transition(c)
             rest == IF left > 0 THEN left ELSE 0
  <1>1. /\ d.transition \in Nat /\ d.least \in Nat /\ d.lead \in Nat /\ d.tail \in Nat
        /\ 1 <= d.least
    BY CutTypes, Defaults
  <1>2. c.fromCue \in Int /\ c.fromDuration \in Int /\ TargetPostOutput(c) \in Int
        /\ SourcePost(c) \in Int /\ SourcePost(c) = c.fromDuration - c.fromCue
    BY CutTypes DEF SourcePost
  <1>3. /\ Transition(c) \in Int
        /\ Transition(c) <= d.transition
        /\ Transition(c) <= SourcePost(c) /\ Transition(c) <= TargetPostOutput(c)
    <2> DEFINE m == Smaller(SourcePost(c), TargetPostOutput(c))
    <2>1. m \in Int /\ m <= SourcePost(c) /\ m <= TargetPostOutput(c)
      BY <1>2 DEF Smaller
    <2>2. Transition(c) = Smaller(d.transition, m)
      BY DEF Transition
    <2> HIDE DEF m, d
    <2>3. QED BY <1>1, <1>2, <2>1, <2>2 DEF Smaller
  <1>4. 0 <= c.fromCue /\ d.least <= Transition(c)
    BY <1>1, <1>2, <1>3 DEF Unusable
  <1>5. SourceLead(c) \in Int /\ 0 <= SourceLead(c) /\ SourceLead(c) <= c.fromCue
    <2>1. SourceLead(c) = Smaller(d.lead, c.fromCue)
      BY DEF SourceLead
    <2> HIDE DEF d
    <2>2. QED BY <1>1, <1>2, <1>4, <2>1 DEF Smaller
  <1>6. /\ TargetTail(c) \in Int /\ 0 <= TargetTail(c)
        /\ Transition(c) + TargetTail(c) <= TargetPostOutput(c)
    <2>1. rest \in Int /\ 0 <= rest /\ rest = TargetPostOutput(c) - Transition(c)
      BY <1>2, <1>3
    <2>2. TargetTail(c) = Smaller(d.tail, rest)
      BY DEF TargetTail
    <2> HIDE DEF d, rest
    <2>3. QED BY <1>1, <1>2, <1>3, <2>1, <2>2 DEF Smaller
  <1>7. /\ t.sourceStart = c.fromCue - SourceLead(c)
        /\ t.sourceDuration = SourceLead(c) + Transition(c)
        /\ t.targetOutput = Transition(c) + TargetTail(c)
        /\ t.transition = Transition(c)
    BY DEF RenderTimingOf
  <1>8. t \in [sourceStart : Int, sourceDuration : Int, targetOutput : Int, transition : Int]
    BY <1>2, <1>3, <1>5, <1>6 DEF RenderTimingOf
  <1>9. t.targetOutput * c.ratio.num <= c.room * c.ratio.num * c.ratio.den
    <2>1. t.targetOutput \in Int /\ t.targetOutput <= c.room * c.ratio.den
      BY <1>3, <1>6, <1>7 DEF TargetPostOutput
    <2> HIDE DEF t
    <2>2. QED BY <2>1, CutTypes, Scaled
  <1> HIDE DEF t, d
  <1>10. /\ 0 <= t.sourceStart
         /\ t.sourceStart + t.sourceDuration <= c.fromDuration
         /\ d.least <= t.transition /\ t.transition <= d.transition
         /\ t.transition <= t.sourceDuration
         /\ t.transition <= t.targetOutput
    BY <1>1, <1>2, <1>3, <1>4, <1>5, <1>6, <1>7
  <1>11. QED BY <1>8, <1>9, <1>10 DEF t, d

-----------------------------------------------------------------------------
\* An answer is the timing of the cut, or there is none.
TimingInv ==
  /\ cut \in Cut
  /\ \/ timing \in {Undecided, Refused}
     \/ timing = RenderTimingOf(cut) /\ ~Unusable(cut)

LEMMA TimingInvariance == TimingSpec => []TimingInv
  <1>1. TimingInit => TimingInv
    BY DEF TimingInit, TimingInv
  <1>2. TimingInv /\ [TimingNext]_timingVars => TimingInv'
    <2> SUFFICES ASSUME TimingInv, [TimingNext]_timingVars PROVE TimingInv'
      OBVIOUS
    <2>1. CASE TimingNext
      BY <2>1 DEF TimingNext, DeriveTiming, TimingInv
    <2>2. CASE UNCHANGED timingVars
      BY <2>2 DEF timingVars, TimingInv
    <2>3. QED BY <2>1, <2>2
  <1>3. QED BY <1>1, <1>2, PTL DEF TimingSpec

\* What is answered is in whole ticks.
THEOREM TimingTypeCorrect == TimingSpec => []TimingTypeOK
  <1>1. TimingInv => TimingTypeOK
    <2> SUFFICES ASSUME TimingInv PROVE TimingTypeOK
      OBVIOUS
    <2>1. CASE timing \in {Undecided, Refused}
      BY <2>1 DEF TimingInv, TimingTypeOK, Undecided, Refused
    <2>2. CASE timing = RenderTimingOf(cut) /\ ~Unusable(cut)
      BY <2>2, CutFits DEF TimingInv, TimingTypeOK
    <2>3. QED BY <2>1, <2>2 DEF TimingInv
  <1>2. QED BY <1>1, TimingInvariance, PTL

\* For any lengths, cues and tempo ratio, what a render cuts lies within both
\* tracks, and its crossfade is in range and no longer than either input.
THEOREM TimingFitsHolds == TimingSpec => []TimingFits
  <1>1. TimingInv => TimingFits
    <2> SUFFICES ASSUME TimingInv, timing \notin {Undecided, Refused}
                 PROVE  /\ 0 <= timing.sourceStart
                        /\ timing.sourceStart + timing.sourceDuration <= cut.fromDuration
                        /\ timing.targetOutput * cut.ratio.num
                             <= cut.room * cut.ratio.num * cut.ratio.den
                        /\ TimingDefaults(cut.technique).least <= timing.transition
                        /\ timing.transition <= TimingDefaults(cut.technique).transition
                        /\ timing.transition <= timing.sourceDuration
                        /\ timing.transition <= timing.targetOutput
      BY DEF TimingFits
    <2>1. cut \in Cut /\ timing = RenderTimingOf(cut) /\ ~Unusable(cut)
      BY DEF TimingInv
    <2>2. QED BY <2>1, CutFits
  <1>2. QED BY <1>1, TimingInvariance, PTL
=============================================================================
