-------------------------- MODULE PeaksCacheProofs --------------------------
(* Theorems about PeaksCache, for any threads, widths, lengths and chunks. *)
EXTENDS PeaksCache, TLAPS

USE PeaksAssumption

-----------------------------------------------------------------------------
(* The arithmetic. *)

LEMMA Quotient ==
  ASSUME NEW a \in Nat, NEW b \in Nat \ {0}
  PROVE  a \div b \in Nat /\ (a \div b) * b <= a /\ a < (a \div b) * b + b
  BY SMT

LEMMA FewerBuckets ==
  ASSUME NEW n \in Nat, NEW s \in Nat \ {0}, NEW b \in Nat \ {0}, n * b <= s * b
  PROVE  n <= s
  <1>1. SUFFICES ASSUME n >= s + 1 PROVE FALSE
    OBVIOUS
  <1>2. n * b = (n - s - 1) * b + s * b + b
    BY SMT
  <1>3. (n - s - 1) * b >= 0
    BY <1>1, SMT
  <1>4. QED BY <1>2, <1>3, SMT

\* Rounding the size of a bucket up keeps their number within what was asked,
\* leaves at least one bucket, and loses less than one bucket at the end.
LEMMA Buckets ==
  ASSUME NEW size \in Nat, NEW s \in Nat \ {0}
  PROVE  LET b == BucketSize(size, s)
             n == NBuckets(size, s)
         IN  /\ b \in Nat \ {0} /\ n \in Nat /\ n <= s
             /\ n = 0 <=> size = 0
             /\ n * b <= size /\ size < (n + 1) * b
  <1> DEFINE b == BucketSize(size, s)
             n == NBuckets(size, s)
  <1>1. CASE size = 0
    <2>1. b = 1 /\ n = 0
      BY <1>1, SMT DEF BucketSize, NBuckets
    <2>2. QED BY <1>1, <2>1, SMT
  <1>2. CASE size # 0
    <2>1. b = (size + s - 1) \div s
      BY <1>2 DEF BucketSize
    <2>2. b \in Nat /\ b * s <= size + s - 1 /\ size <= b * s
      <3>1. size + s - 1 \in Nat
        BY <1>2
      <3>2. b \in Nat /\ b * s <= size + s - 1 /\ size + s - 1 < b * s + s
        BY <2>1, <3>1, Quotient
      <3> HIDE DEF b
      <3>3. b * s \in Nat
        BY <3>2, SMT
      <3>4. QED BY <3>2, <3>3
    <2>3. n = size \div b
      BY DEF NBuckets
    <2> HIDE DEF b
    <2>4. b # 0
      BY <1>2, <2>2, SMT
    <2>5. n \in Nat /\ n * b <= size /\ size < n * b + b
      BY <2>2, <2>3, <2>4, Quotient
    <2> HIDE DEF n
    <2>6. n * b <= s * b
      BY <2>2, <2>5, SMT
    <2>7. n <= s
      BY <2>2, <2>4, <2>5, <2>6, FewerBuckets
    <2>8. n # 0
      <3>1. SUFFICES ASSUME n = 0 PROVE FALSE
        OBVIOUS
      <3>2. b >= size + 1
        BY <2>2, <2>5, <3>1, SMT
      <3>3. b * s >= (size + 1) * s
        BY <2>2, <3>2, SMT
      <3>4. size * s >= size
        BY SMT
      <3>5. QED BY <1>2, <2>2, <3>3, <3>4, SMT
    <2>9. size < (n + 1) * b
      BY <2>2, <2>5, SMT
    <2>10. QED BY <1>2, <2>2, <2>4, <2>5, <2>7, <2>8, <2>9 DEF b, n
  <1>3. QED BY <1>1, <1>2

-----------------------------------------------------------------------------
(* The cache. *)

LEMMA PeakTypes ==
  /\ \A n \in Sizes, w \in Widths : NBuckets(n, w) \in Nat
  /\ NotAsking.pc = "idle" /\ 1 \in Chunk /\ 1 \in 1 .. Chunks + 1
  BY Buckets DEF NotAsking, Chunk

\* A thread that is asking has every field of one.
LEMMA AskingType ==
  ASSUME PeaksTypeOK, NEW a \in Askers, asker[a].pc # "idle"
  PROVE  asker[a] \in Asker
  BY PeakTypes DEF PeaksTypeOK

\* What parses as an array is of the width in the file's name.
LEMMA ParsesNamed ==
  ASSUME PeaksInv, NEW n \in Widths, NEW w \in Widths, Parses(n, w)
  PROVE  w = n
  <1>1. <<w, 1>> \in file[n]
    BY PeakTypes DEF Parses
  <1>2. QED BY <1>1 DEF PeaksInv, FilesOfOneWidth

LEMMA PeaksInvInit == PeaksInit => PeaksInv
  BY PeakTypes DEF PeaksInit, PeaksInv, PeaksTypeOK, FilesOfOneWidth, AnswersAsAsked,
     AnswersFull, AskerAt

\* Thread a moves, and only a new answer has to be looked at.
LEMMA Asks ==
  ASSUME PeaksInv, NEW a \in Askers, NEW r \in Asker \cup {NotAsking},
         asker' = [asker EXCEPT ![a] = r],
         r.pc = "done" => r.got = r.samples /\ r.len = NBuckets(pcm, r.got),
         pcm' = pcm, mishaps' \in 0 .. MaxMishaps,
         file' \in [Widths -> SUBSET (Widths \X Chunk)],
         \A n \in Widths : file'[n] \subseteq {n} \X Chunk
  PROVE  PeaksInv'
  <1>1. asker \in [Askers -> Asker \cup {NotAsking}] /\ pcm \in Sizes
    BY DEF PeaksInv, PeaksTypeOK
  <1>2. PeaksTypeOK' /\ FilesOfOneWidth'
    BY <1>1 DEF PeaksTypeOK, FilesOfOneWidth
  <1>3. \A b \in Askers : asker'[b] = IF b = a THEN r ELSE asker[b]
    BY <1>1
  <1>4. AnswersAsAsked' /\ AnswersFull'
    BY <1>3 DEF PeaksInv, AnswersAsAsked, AnswersFull, AskerAt
  <1>5. QED BY <1>2, <1>4 DEF PeaksInv

LEMMA PeaksInvNext == PeaksInv /\ [PeaksNext]_peakVars => PeaksInv'
  <1> SUFFICES ASSUME PeaksInv, [PeaksNext]_peakVars PROVE PeaksInv'
    OBVIOUS
  <1>1. /\ asker \in [Askers -> Asker \cup {NotAsking}] /\ pcm \in Sizes
        /\ file \in [Widths -> SUBSET (Widths \X Chunk)] /\ mishaps \in 0 .. MaxMishaps
        /\ \A n \in Widths : file[n] \subseteq {n} \X Chunk
    BY DEF PeaksInv, PeaksTypeOK, FilesOfOneWidth
  <1>2. ASSUME NEW a \in Askers, NEW samples \in Widths, AskPeaks(a, samples) PROVE PeaksInv'
    <2> DEFINE r == [pc |-> "looking", samples |-> samples, next |-> 1, got |-> 0, len |-> 0]
    <2>1. r \in Asker /\ r.pc = "looking"
      BY PeakTypes DEF Asker
    <2>2. asker' = [asker EXCEPT ![a] = r]
      BY <1>2 DEF AskPeaks
    <2> HIDE DEF r
    <2>3. QED BY <1>1, <1>2, <2>1, <2>2, Asks DEF AskPeaks
  <1>3. ASSUME NEW a \in Askers, asker[a].pc # "idle", NEW w \in Widths,
               w = asker[a].samples, Answer(a, w), UNCHANGED <<pcm, file, mishaps>>
        PROVE  PeaksInv'
    <2> DEFINE r == [asker[a] EXCEPT !.pc = "done", !.got = w, !.len = NBuckets(pcm, w)]
    <2>1. asker[a] \in Asker /\ NBuckets(pcm, w) \in Nat
      BY <1>1, <1>3, AskingType, PeakTypes DEF PeaksInv
    <2>2. r \in Asker /\ r.samples = w /\ r.got = w /\ r.len = NBuckets(pcm, w)
      BY <2>1, <1>3 DEF Asker
    <2>3. asker' = [asker EXCEPT ![a] = r]
      BY <1>1, <1>3 DEF Answer
    <2> HIDE DEF r
    <2>4. QED BY <1>1, <1>3, <2>2, <2>3, Asks
  <1>4. ASSUME NEW a \in Askers, Hit(a) PROVE PeaksInv'
    <2>1. asker[a] \in Asker /\ asker[a].samples \in Widths /\ asker[a].pc # "idle"
      BY <1>4, AskingType DEF Hit, AskerAt, PeaksInv, Asker
    <2>2. PICK w \in Widths : Parses(Filename(asker[a].samples), w) /\ Answer(a, w)
      BY <1>4 DEF Hit
    <2>3. w = asker[a].samples
      BY <2>1, <2>2, ParsesNamed DEF Filename
    <2>4. QED BY <1>3, <1>4, <2>1, <2>2, <2>3 DEF Hit
  <1>5. ASSUME NEW a \in Askers, Written(a) PROVE PeaksInv'
    <2>1. asker[a] \in Asker /\ asker[a].samples \in Widths /\ asker[a].pc # "idle"
      BY <1>5, AskingType DEF Written, AskerAt, PeaksInv, Asker
    <2>2. QED BY <1>3, <1>5, <2>1 DEF Written
  <1>6. ASSUME NEW a \in Askers, Miss(a) PROVE PeaksInv'
    <2> DEFINE r == [asker[a] EXCEPT !.pc = "extracting"]
    <2>1. r \in Asker /\ r.pc = "extracting"
      BY <1>6, AskingType DEF Miss, AskerAt, PeaksInv, Asker
    <2>2. asker' = [asker EXCEPT ![a] = r]
      BY <1>1, <1>6 DEF Miss
    <2> HIDE DEF r
    <2>3. QED BY <1>1, <1>6, <2>1, <2>2, Asks DEF Miss
  <1>7. ASSUME NEW a \in Askers, Truncate(a) PROVE PeaksInv'
    <2> DEFINE r == [asker[a] EXCEPT !.pc = "writing"]
    <2>1. r \in Asker /\ r.pc = "writing"
      BY <1>7, AskingType DEF Truncate, AskerAt, PeaksInv, Asker
    <2>2. asker' = [asker EXCEPT ![a] = r]
      BY <1>1, <1>7 DEF Truncate
    <2>3. /\ file' \in [Widths -> SUBSET (Widths \X Chunk)]
          /\ \A n \in Widths : file'[n] \subseteq {n} \X Chunk
      BY <1>1, <1>7 DEF Truncate
    <2> HIDE DEF r
    <2>4. QED BY <1>1, <1>7, <2>1, <2>2, <2>3, Asks DEF Truncate
  <1>8. ASSUME NEW a \in Askers, WriteChunk(a) PROVE PeaksInv'
    <2> DEFINE k == asker[a].next
               n == asker[a].samples
               r == [asker[a] EXCEPT !.next = k + 1]
    <2>1. asker[a] \in Asker /\ asker[a].pc = "writing"
      BY <1>8, AskingType DEF WriteChunk, AskerAt, PeaksInv
    <2>2. k \in Chunk /\ k + 1 \in 1 .. Chunks + 1 /\ n \in Widths
      BY <1>8, <2>1 DEF WriteChunk, Chunk, Asker
    <2>3. r \in Asker /\ r.pc = "writing"
      BY <2>1, <2>2 DEF Asker
    <2>4. asker' = [asker EXCEPT ![a] = r]
      BY <1>1, <1>8 DEF WriteChunk
    <2>5. file' = [file EXCEPT ![n] = {c \in file[n] : c[2] # k} \cup {<<n, k>>}]
      BY <1>1, <1>8, <2>2 DEF WriteChunk, Filename
    <2>6. <<n, k>> \in {n} \X Chunk /\ <<n, k>> \in Widths \X Chunk
      BY <2>2
    <2>7. /\ file' \in [Widths -> SUBSET (Widths \X Chunk)]
          /\ \A q \in Widths : file'[q] \subseteq {q} \X Chunk
      BY <1>1, <2>2, <2>5, <2>6
    <2> HIDE DEF r
    <2>8. QED BY <1>1, <1>8, <2>3, <2>4, <2>7, Asks DEF WriteChunk
  <1>9. ASSUME NEW a \in Askers, PeaksFail(a) \/ PeaksReturn(a) PROVE PeaksInv'
    <2>1. asker' = [asker EXCEPT ![a] = NotAsking] /\ UNCHANGED <<pcm, file>>
          /\ mishaps' \in 0 .. MaxMishaps
      BY <1>1, <1>9 DEF PeaksFail, PeaksReturn, Mishap
    <2>2. QED BY <1>1, <2>1, PeakTypes, Asks
  <1>10. CASE PeaksCrash
    <2>1. asker' = [a \in Askers |-> NotAsking] /\ UNCHANGED <<pcm, file>>
          /\ mishaps' \in 0 .. MaxMishaps
      BY <1>1, <1>10 DEF PeaksCrash, Mishap
    <2>2. QED BY <1>1, <2>1, PeakTypes
             DEF PeaksInv, PeaksTypeOK, FilesOfOneWidth, AnswersAsAsked, AnswersFull, AskerAt
  <1>11. CASE UNCHANGED peakVars
    BY <1>11 DEF peakVars, PeaksInv, PeaksTypeOK, FilesOfOneWidth, AnswersAsAsked,
       AnswersFull, AskerAt
  <1>12. QED
    BY <1>2, <1>4, <1>5, <1>6, <1>7, <1>8, <1>9, <1>10, <1>11 DEF PeaksNext

LEMMA PeaksInvariance == PeaksSpec => []PeaksInv
  BY PeaksInvInit, PeaksInvNext, PTL DEF PeaksSpec

\* The files and the threads keep their types.
THEOREM PeaksTypeCorrect == PeaksSpec => []PeaksTypeOK
  <1>1. PeaksInv => PeaksTypeOK
    BY DEF PeaksInv
  <1>2. QED BY <1>1, PeaksInvariance, PTL

\* Every answer is one whole array of the width that was asked for, however many
\* chunks a file takes and whatever threads write it together or die: a file of
\* one name never holds another width, and less than all of it does not parse.
THEOREM AnswersAsAskedHolds == PeaksSpec => []AnswersAsAsked
  <1>1. PeaksInv => AnswersAsAsked
    BY DEF PeaksInv
  <1>2. QED BY <1>1, PeaksInvariance, PTL

\* For audio of any length and any width, an answer has at most the values asked
\* for, none only for no audio, and trims less than a bucket.
THEOREM PeaksFitHolds == PeaksSpec => []PeaksFit
  <1>1. PeaksInv => PeaksFit
    <2> SUFFICES ASSUME PeaksInv, NEW a \in Askers, AskerAt(a, "done")
                 PROVE  LET bucket == BucketSize(pcm, asker[a].samples) IN
                        /\ asker[a].len <= asker[a].samples
                        /\ asker[a].len = 0 <=> pcm = 0
                        /\ pcm < (asker[a].len + 1) * bucket
                        /\ asker[a].len * bucket <= pcm
      BY DEF PeaksFit
    <2>1. asker[a] \in Asker /\ pcm \in Nat /\ asker[a].samples \in Nat \ {0}
      BY AskingType DEF AskerAt, PeaksInv, PeaksTypeOK, Asker
    <2>2. asker[a].len = NBuckets(pcm, asker[a].samples)
      BY DEF PeaksInv, AnswersAsAsked, AnswersFull
    <2> DEFINE n == NBuckets(pcm, asker[a].samples)
               b == BucketSize(pcm, asker[a].samples)
    <2>3. /\ n <= asker[a].samples
          /\ n = 0 <=> pcm = 0
          /\ pcm < (n + 1) * b
          /\ n * b <= pcm
      BY <2>1, Buckets
    <2> HIDE DEF n, b
    <2>4. QED BY <2>2, <2>3 DEF n, b
  <1>2. QED BY <1>1, PeaksInvariance, PTL
=============================================================================
