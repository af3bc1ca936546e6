------------------------------ MODULE VadTimeline ------------------------------
(***************************************************************************)
(* The speech detector together with what its callbacks do: the callback   *)
(* of MainActivity.startAsrThread and the counters and the offset map of   *)
(* wenet.cc.  The recogniser hears a pipeline from which silence has been  *)
(* taken out and padding put in; the offset map turns a time in it back    *)
(* into a time in the recording.                                           *)
(***************************************************************************)
EXTENDS SileroVad, Sequences

CONSTANTS SamplesPerMs,   \* kSampleRate / 1000
          SilencePad,     \* samples pushed by add_skipped_samples (8000)
          TimeStampGap    \* AsrDecoder's time_stamp_gap_, in milliseconds

ASSUME TimelineAssumption ==
  /\ SamplesPerMs \in Nat \ {0} /\ TimeStampGap \in Nat
  /\ SilencePad \in Nat /\ SilencePad >= SamplesPerMs
  /\ ~MayResize

VARIABLES
  call,                     \* the native call the callback still has to make
  needSnapshot,
  total_samples, total_fed_samples, skipped_samples_offset, pushed_silence_total,
  offset_map,
  heard,                    \* history: where forwarded audio is in the pipeline
  pushedBeforeGap           \* history: pushed_silence_total when audio last came

nativeVars == <<total_samples, total_fed_samples, skipped_samples_offset,
                pushed_silence_total, offset_map, heard, pushedBeforeGap>>
timelineVars == <<vars, call, needSnapshot, nativeVars>>

\* Division of C++, which truncates.
CDiv(a, b) == IF a >= 0 THEN a \div b ELSE -((-a) \div b)

TimelineInit ==
  /\ Init
  /\ call = "none"
  /\ needSnapshot = TRUE
  /\ total_samples = 0 /\ total_fed_samples = 0
  /\ skipped_samples_offset = 0 /\ pushed_silence_total = 0
  /\ offset_map = <<>>
  /\ heard = <<>> /\ pushedBeforeGap = 0

--------------------------------------------------------------------------------
\* Mutant: reset() forgets one of the counters.
Mut_ResetKeepsSkipped ==
  /\ call = "none"
  /\ Reset
  /\ needSnapshot' = TRUE
  /\ total_samples' = 0 /\ total_fed_samples' = 0
  /\ pushed_silence_total' = 0
  /\ offset_map' = <<>>
  /\ heard' = <<>> /\ pushedBeforeGap' = 0
  /\ UNCHANGED <<call, skipped_samples_offset>>

\* Recognize.reset(), and a new ASR thread, which resets its detector.
StartRecording ==
  /\ call = "none"
  /\ Reset
  /\ needSnapshot' = TRUE
  /\ total_samples' = 0 /\ total_fed_samples' = 0
  /\ skipped_samples_offset' = 0 /\ pushed_silence_total' = 0
  /\ offset_map' = <<>>
  /\ heard' = <<>> /\ pushedBeforeGap' = 0
  /\ UNCHANGED call

\* The settings screen, between recordings.
ChangeSettings ==
  /\ call = "none"
  /\ \E slots \in SlotChoices : SetPreBufferSlots(slots)
  /\ UNCHANGED <<call, needSnapshot, nativeVars>>

\* The detector's next step, up to the callback it makes.
Detect ==
  /\ call = "none"
  /\ pc # "off"
  /\ Next
  /\ call' = CASE callback'.kind = "none" -> "none"
               [] callback'.kind = "skipped" -> "addSkippedSamples"
               [] callback'.kind = "speech" ->
                    IF needSnapshot THEN "snapshotOffset" ELSE "acceptWaveform"
  /\ UNCHANGED <<needSnapshot, nativeVars>>

\* snapshot_offset; the callback goes on with the audio.
snapshot_offset ==
  /\ call = "snapshotOffset"
  /\ offset_map' = Append(offset_map,
       [pipeline_ms |-> total_fed_samples \div SamplesPerMs,
        skip_samples |-> skipped_samples_offset - pushed_silence_total])
  /\ needSnapshot' = FALSE
  /\ call' = "acceptWaveform"
  /\ UNCHANGED <<vars, total_samples, total_fed_samples, skipped_samples_offset,
                 pushed_silence_total, heard, pushedBeforeGap>>

accept_waveform ==
  /\ call = "acceptWaveform"
  /\ total_samples' = total_samples + callback.n
  /\ total_fed_samples' = total_fed_samples + callback.n
  /\ heard' = Append(heard, [at |-> total_fed_samples, first |-> callback.first - 1,
                             n |-> callback.n])
  /\ pushedBeforeGap' = pushed_silence_total
  /\ call' = "none"
  /\ UNCHANGED <<vars, needSnapshot, skipped_samples_offset, pushed_silence_total,
                 offset_map>>

\* Mutant: the padding is not counted, so snapshots take it for recorded time.
Mut_PaddingUncounted ==
  /\ call = "addSkippedSamples"
  /\ total_fed_samples' = total_fed_samples + SilencePad
  /\ total_samples' = total_samples + callback.n
  /\ skipped_samples_offset' = skipped_samples_offset + callback.n
  /\ needSnapshot' = TRUE
  /\ call' = "none"
  /\ UNCHANGED <<vars, pushed_silence_total, offset_map, heard, pushedBeforeGap>>

\* Mutant: the padding is counted as recorded.
Mut_PaddingRecorded ==
  /\ call = "addSkippedSamples"
  /\ total_fed_samples' = total_fed_samples + SilencePad
  /\ pushed_silence_total' = pushed_silence_total + SilencePad
  /\ total_samples' = total_samples + callback.n + SilencePad
  /\ skipped_samples_offset' = skipped_samples_offset + callback.n
  /\ needSnapshot' = TRUE
  /\ call' = "none"
  /\ UNCHANGED <<vars, offset_map, heard, pushedBeforeGap>>

\* add_skipped_samples(count), for count > 0: one second of silence, every time.
add_skipped_samples ==
  /\ call = "addSkippedSamples"
  /\ total_fed_samples' = total_fed_samples + SilencePad
  /\ pushed_silence_total' = pushed_silence_total + SilencePad
  /\ total_samples' = total_samples + callback.n
  /\ skipped_samples_offset' = skipped_samples_offset + callback.n
  /\ needSnapshot' = TRUE
  /\ call' = "none"
  /\ UNCHANGED <<vars, offset_map, heard, pushedBeforeGap>>

TimelineNext ==
  \/ StartRecording \/ ChangeSettings \/ Detect
  \/ snapshot_offset \/ accept_waveform \/ add_skipped_samples

TimelineSpec == TimelineInit /\ [][TimelineNext]_timelineVars

--------------------------------------------------------------------------------
\* LookupOffsetMs: the last entry of the leading run of entries not after the time.
LookupOffsetMs(ms) ==
  LET After == {i \in DOMAIN offset_map : offset_map[i].pipeline_ms > ms}
      last == IF After = {} THEN Len(offset_map)
              ELSE (CHOOSE i \in After : \A j \in After : i <= j) - 1
  IN IF last = 0 THEN 0 ELSE CDiv(offset_map[last].skip_samples, SamplesPerMs)

\* AppendWordPiecesToJson: a time in the pipeline as it is written to the result.
Adjusted(ms) == ms + LookupOffsetMs(ms)

\* The times at which the decode thread may find a word in forwarded audio: in the
\* pipeline and in the recording.
Heard == UNION {{<<(h.at + i) \div SamplesPerMs, (h.first + i) \div SamplesPerMs>> :
                   i \in 0..(h.n - 1)} : h \in {heard[k] : k \in DOMAIN heard}}

Within(a, b, tolerance) == a - b <= tolerance /\ b - a <= tolerance

TimelineTypeOK ==
  /\ call \in {"none", "snapshotOffset", "acceptWaveform", "addSkippedSamples"}
  /\ needSnapshot \in BOOLEAN
  /\ total_samples \in Nat /\ total_fed_samples \in Nat
  /\ skipped_samples_offset \in 0..MaxFed /\ pushed_silence_total \in Nat
  /\ offset_map \in Seq([pipeline_ms : Nat, skip_samples : Int])

\* A word heard anywhere in forwarded audio is written with the time at which it was
\* recorded, up to the millisecond lost in the two divisions, whenever the decode
\* thread looks it up: at once, or after later snapshots.
WordTimesAreRecordingTimes ==
  \A w \in Heard : Within(Adjusted(w[1]), w[2], 1)

\* total_samples, from which the result's "[start-end]" tags are made, is the length
\* of the recording so far, padding apart and skipped audio included.
TotalIsRecordedTime ==
  call = "none" => total_samples = elapsed

\* Times in the result are times of the recording: those of words, through the offset
\* map, and those of its tags, through the counters (wenet.cc).
TimesAreRecordingTimes ==
  TimelineTypeOK /\ WordTimesAreRecordingTimes /\ TotalIsRecordedTime

--------------------------------------------------------------------------------
\* What the callback still has to do for the samples the detector has just let go.
Pending == IF call = "none" THEN 0 ELSE callback.n
Calls ==
  /\ call = "addSkippedSamples" => callback.kind = "skipped"
  /\ call \in {"snapshotOffset", "acceptWaveform"} =>
       callback.kind = "speech" /\ callback.first \in Int
  /\ call = "snapshotOffset" => needSnapshot
  /\ call = "acceptWaveform" => ~needSnapshot
  /\ call # "none" => callback.n \in Nat \ {0}

\* The pipeline holds the recording without what was skipped, and the padding.
Counters ==
  /\ total_samples + Pending = elapsed
  /\ total_fed_samples - pushed_silence_total = total_samples - skipped_samples_offset
  /\ skipped_samples_offset <= total_samples

\* Once a gap has begun, its padding lies behind all that was forwarded before.
Pieces ==
  /\ heard \in Seq([at : Nat, first : Nat, n : Nat \ {0}])
  /\ \A k \in DOMAIN heard :
       /\ heard[k].at + heard[k].n <= total_fed_samples
       /\ needSnapshot => heard[k].at + heard[k].n + SilencePad <= total_fed_samples

\* The map is in order, and its last entry is that of the audio which comes next.
MapSorted ==
  /\ \A i, j \in DOMAIN offset_map :
       i <= j => offset_map[i].pipeline_ms <= offset_map[j].pipeline_ms
  /\ \A i \in DOMAIN offset_map :
       offset_map[i].pipeline_ms <= total_fed_samples \div SamplesPerMs
  /\ ~needSnapshot =>
       /\ offset_map # <<>>
       /\ offset_map[Len(offset_map)].skip_samples
            = skipped_samples_offset - pushed_silence_total

\* Each piece lies between the entry that holds its offset and the next one.
Governs(j, h) ==
  /\ offset_map[j].skip_samples = h.first - h.at
  /\ offset_map[j].pipeline_ms <= h.at \div SamplesPerMs
  /\ \A i \in DOMAIN offset_map :
       i > j => offset_map[i].pipeline_ms > (h.at + h.n - 1) \div SamplesPerMs

Governed == \A k \in DOMAIN heard : \E j \in DOMAIN offset_map : Governs(j, heard[k])

TimelineInv ==
  IInv /\ TimelineTypeOK /\ Calls /\ Counters /\ Pieces /\ MapSorted /\ Governed

\* The decoder's words get their start TimeStampGap before their peak, their end at
\* it.  wenet.cc:56: "Decode thread looks up correct offset per word_piece timestamp."
\* TLC refutes it: see the README, "Findings".
StartsBeforeEnd ==
  \A w \in Heard : w[1] >= TimeStampGap => Adjusted(w[1] - TimeStampGap) <= Adjusted(w[1])

\* wenet.cc:155: silence is pushed when "no silence pushed yet in this gap".
\* TLC refutes it: see the README, "Findings".
OneSilencePerGap == pushed_silence_total - pushedBeforeGap <= SilencePad
================================================================================
