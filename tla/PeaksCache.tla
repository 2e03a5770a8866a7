----------------------------- MODULE PeaksCache -----------------------------
(***************************************************************************)
(* Waveform peaks: GET .../peaks (api/main.py) over audio/peaks.py and the *)
(* files of store/cache.py, for one track whose audio does not change (its *)
(* key is the hash of its content).  put_bytes truncates the file and then *)
(* writes it chunk by chunk in place, while other threads read it or write *)
(* it too, and the process may die or the disk be full in between.         *)
(*                                                                         *)
(* A file is the set of the chunks in it, each at its own offset and known *)
(* by the width whose array it is a part of.  Chunks of one array are the  *)
(* same bytes whoever writes them; anything short of one whole array, as a *)
(* prefix, or a hole left by a second truncation, is no JSON object.       *)
(***************************************************************************)
EXTENDS Naturals

CONSTANTS
  Askers,     \* threads of the pool
  Widths,     \* the values of the request's samples parameter
  Sizes,      \* how many PCM samples the decoder may find in the audio
  Chunks,     \* how many writes a file takes
  MaxMishaps  \* bound on crashes and on writes and decodes that fail

ASSUME PeaksAssumption ==
  /\ Widths \subseteq Nat \ {0}
  /\ Sizes \subseteq Nat
  /\ Chunks \in Nat \ {0}
  /\ MaxMishaps \in Nat

VARIABLES
  pcm,    \* pcm.size of the track
  file,   \* file[n]: the chunks in the cache file named n; {} if there is none
  asker,  \* asker[a]: where thread a is in get_or_compute_peaks
  mishaps \* how many mishaps there have been

peakVars == <<pcm, file, asker, mishaps>>

-----------------------------------------------------------------------------
(* The arithmetic of extract_peaks. *)

\* Mutant: floor instead of ceil.
BucketSizeFloor(size, samples) == IF size \div samples = 0 THEN 1 ELSE size \div samples

\* max(1, ceil(pcm.size / samples))
BucketSize(size, samples) ==
  IF size = 0 THEN 1 ELSE (size + samples - 1) \div samples

\* n_buckets: what is left over at the end is trimmed.
NBuckets(size, samples) == size \div BucketSize(size, samples)

-----------------------------------------------------------------------------
(* The cache. *)

Chunk == 1 .. Chunks

\* "peaks-v{PEAKS_FORMAT_VERSION}-{samples}.json"
Filename(samples) == samples

\* json.loads and PeaksData(**data) accept the file as the array of width w.
Parses(n, w) == file[n] = {w} \X Chunk

\* got is the width of the array in the answer, len its length.
Asker == [pc : {"looking", "extracting", "writing", "done"}, samples : Widths,
          next : 1 .. Chunks + 1, got : Widths \cup {0}, len : Nat]

NotAsking == [pc |-> "idle"]

AskerAt(a, pc) == asker[a].pc = pc

Answer(a, w) ==
  asker' = [asker EXCEPT ![a].pc = "done", ![a].got = w, ![a].len = NBuckets(pcm, w)]

Mishap == mishaps < MaxMishaps /\ mishaps' = mishaps + 1

-----------------------------------------------------------------------------
\* get_track_peaks: the track is known and its source file is there.
AskPeaks(a, samples) ==
  /\ AskerAt(a, "idle")
  /\ asker' = [asker EXCEPT ![a] =
       [pc |-> "looking", samples |-> samples, next |-> 1, got |-> 0, len |-> 0]]
  /\ UNCHANGED <<pcm, file, mishaps>>

\* cache.get_bytes finds an array that parses.
Hit(a) ==
  /\ AskerAt(a, "looking")
  /\ \E w \in Widths : Parses(Filename(asker[a].samples), w) /\ Answer(a, w)
  /\ UNCHANGED <<pcm, file, mishaps>>

\* Mutant: whatever is there is taken for the array.
MissIfEmpty(a) ==
  LET n == Filename(asker[a].samples) IN
  /\ AskerAt(a, "looking")
  /\ \A w \in Widths : ~Parses(n, w)
  /\ IF file[n] = {} THEN asker' = [asker EXCEPT ![a].pc = "extracting"]
                     ELSE asker' = [asker EXCEPT ![a].pc = "done"]
  /\ UNCHANGED <<pcm, file, mishaps>>

\* There is no file, or it is "dropped" as malformed.
Miss(a) ==
  /\ AskerAt(a, "looking")
  /\ \A w \in Widths : ~Parses(Filename(asker[a].samples), w)
  /\ asker' = [asker EXCEPT ![a].pc = "extracting"]
  /\ UNCHANGED <<pcm, file, mishaps>>

\* extract_peaks succeeds and put_bytes opens the file, which empties it.
Truncate(a) ==
  /\ AskerAt(a, "extracting")
  /\ file' = [file EXCEPT ![Filename(asker[a].samples)] = {}]
  /\ asker' = [asker EXCEPT ![a].pc = "writing"]
  /\ UNCHANGED <<pcm, mishaps>>

\* The next chunk goes to its offset, whatever else has happened to the file.
WriteChunk(a) ==
  LET n == Filename(asker[a].samples)
      k == asker[a].next
  IN
  /\ AskerAt(a, "writing")
  /\ k \in Chunk
  /\ file' = [file EXCEPT ![n] = {c \in @ : c[2] # k} \cup {<<asker[a].samples, k>>}]
  /\ asker' = [asker EXCEPT ![a].next = k + 1]
  /\ UNCHANGED <<pcm, mishaps>>

\* The file is closed; the answer is the array that was computed.
Written(a) ==
  /\ AskerAt(a, "writing")
  /\ asker[a].next = Chunks + 1
  /\ Answer(a, asker[a].samples)
  /\ UNCHANGED <<pcm, file, mishaps>>

\* ffmpeg or ffprobe fails (PeaksError, 503), or the disk is full (500).
PeaksFail(a) ==
  /\ asker[a].pc \in {"extracting", "writing"}
  /\ Mishap
  /\ asker' = [asker EXCEPT ![a] = NotAsking]
  /\ UNCHANGED <<pcm, file>>

PeaksReturn(a) ==
  /\ AskerAt(a, "done")
  /\ asker' = [asker EXCEPT ![a] = NotAsking]
  /\ UNCHANGED <<pcm, file, mishaps>>

\* The process dies; the files stay as they are.
PeaksCrash ==
  /\ \E a \in Askers : ~AskerAt(a, "idle")
  /\ Mishap
  /\ asker' = [a \in Askers |-> NotAsking]
  /\ UNCHANGED <<pcm, file>>

-----------------------------------------------------------------------------
PeaksInit ==
  /\ pcm \in Sizes
  /\ file = [n \in Widths |-> {}]
  /\ asker = [a \in Askers |-> NotAsking]
  /\ mishaps = 0

PeaksNext ==
  \/ \E a \in Askers, samples \in Widths : AskPeaks(a, samples)
  \/ \E a \in Askers :
       \/ Hit(a) \/ Miss(a) \/ Truncate(a) \/ WriteChunk(a) \/ Written(a)
       \/ PeaksFail(a) \/ PeaksReturn(a)
  \/ PeaksCrash

PeaksSpec == PeaksInit /\ [][PeaksNext]_peakVars

-----------------------------------------------------------------------------
(* Properties. *)

\* The cache's files and its readers hold what the code puts there.
PeaksTypeOK ==
  /\ pcm \in Sizes
  /\ file \in [Widths -> SUBSET (Widths \X Chunk)]
  /\ asker \in [Askers -> Asker \cup {NotAsking}]
  /\ mishaps \in 0 .. MaxMishaps

\* Every answer is one whole array, of the width that was asked for, whatever
\* half-written files crashes and concurrent writers leave (peaks.py 188-192).
AnswersAsAsked == \A a \in Askers : AskerAt(a, "done") => asker[a].got = asker[a].samples

\* An answer has at most as many values as were asked for (peaks.py 82-84: the
\* count is "always <= samples"), none only for silence of no length, and what
\* is trimmed at the end is less than one bucket.
PeaksFit ==
  \A a \in Askers : AskerAt(a, "done") =>
    LET bucket == BucketSize(pcm, asker[a].samples) IN
    /\ asker[a].len <= asker[a].samples
    /\ asker[a].len = 0 <=> pcm = 0
    /\ pcm < (asker[a].len + 1) * bucket
    /\ asker[a].len * bucket <= pcm

-----------------------------------------------------------------------------
(* The inductive invariant. *)

\* A file holds chunks of no other width than its name says.
FilesOfOneWidth == \A n \in Widths : file[n] \subseteq {n} \X Chunk

\* The length of an answer is that of the width it was made for.
AnswersFull == \A a \in Askers : AskerAt(a, "done") => asker[a].len = NBuckets(pcm, asker[a].got)

PeaksInv == PeaksTypeOK /\ FilesOfOneWidth /\ AnswersAsAsked /\ AnswersFull
=============================================================================
