------------------------------ MODULE PersonalVad ------------------------------
(***************************************************************************)
(* PersonalVadProcessor.java: finds the stretches of a recording in which  *)
(* the enrolled speaker talks.  Audio is counted in units of which a chunk *)
(* has NEW_SAMPLES_PER_CHUNK; times are units too.  Of the model's answer  *)
(* only its place among the two thresholds matters.  Its features, its     *)
(* LSTM state and the periodic reset of that are data and left out.        *)
(***************************************************************************)
EXTENDS Integers, Sequences

CONSTANTS
    NEW_SAMPLES_PER_CHUNK,
    HANGOVER_FRAMES,        \* chunks of silence that do not end a segment
    MaxAudio                \* bound on the recording, in units

ASSUME PersonalVadAssumption ==
    NEW_SAMPLES_PER_CHUNK \in Nat \ {0} /\ HANGOVER_FRAMES \in Nat /\ MaxAudio \in Nat

\* At least THRESHOLD_ON, below THRESHOLD_OFF, or between them.
Probs == {"on", "mid", "off"}

None == -1

VARIABLES
    stage,                   \* the ASR thread: "listening", "flushed", "saved"
    accumLen,                \* units waiting in accumBuf
    totalSamplesProcessed,
    inMyVoice, hangoverCount, segmentStart,
    segments,                \* <<start, end>> pairs
    savedSegments,           \* my_voice_segments.json
    recorded,                \* history: units fed
    probs                    \* history: the answer to every chunk

pvad_vars == <<stage, accumLen, totalSamplesProcessed, inMyVoice, hangoverCount,
               segmentStart, segments, savedSegments, recorded, probs>>

PersonalVadInit ==
    /\ stage = "listening"
    /\ accumLen = 0
    /\ totalSamplesProcessed = 0
    /\ inMyVoice = FALSE
    /\ hangoverCount = 0
    /\ segmentStart = None
    /\ segments = <<>>
    /\ savedSegments = <<>>
    /\ recorded = 0
    /\ probs = <<>>

Hysteresis == [in |-> inMyVoice, hangover |-> hangoverCount, start |-> segmentStart,
               segments |-> segments]

\* Mutant: silence is counted over a whole segment, not in a row.
Mut_HangoverKept(prob, startMs) ==
    LET v == Hysteresis
    IN  IF ~v.in THEN
            IF prob = "on" THEN [v EXCEPT !.in = TRUE, !.start = startMs, !.hangover = 0] ELSE v
        ELSE IF prob # "off" THEN v
        ELSE IF v.hangover < HANGOVER_FRAMES THEN [v EXCEPT !.hangover = @ + 1]
        ELSE [in |-> FALSE, hangover |-> 0, start |-> None,
              segments |-> Append(v.segments, <<v.start, startMs>>)]

\* The chunk that exceeds the hangover is where the segment ends.
updateHysteresis(prob, startMs) ==
    LET v == Hysteresis
    IN  IF ~v.in THEN
            IF prob = "on" THEN [v EXCEPT !.in = TRUE, !.start = startMs, !.hangover = 0] ELSE v
        ELSE IF prob # "off" THEN [v EXCEPT !.hangover = 0]
        ELSE IF v.hangover < HANGOVER_FRAMES THEN [v EXCEPT !.hangover = @ + 1]
        ELSE [in |-> FALSE, hangover |-> 0, start |-> None,
              segments |-> Append(v.segments, <<v.start, startMs>>)]

SetHysteresis(v) ==
    /\ inMyVoice' = v.in
    /\ hangoverCount' = v.hangover
    /\ segmentStart' = v.start
    /\ segments' = v.segments

\* process(): n units more; every full chunk is answered.  More than a chunk at
\* once is the same as several calls.
Process(n) ==
    /\ stage = "listening"
    /\ recorded + n <= MaxAudio
    /\ recorded' = recorded + n
    /\ IF accumLen + n < NEW_SAMPLES_PER_CHUNK
       THEN /\ accumLen' = accumLen + n
            /\ UNCHANGED <<totalSamplesProcessed, inMyVoice, hangoverCount, segmentStart,
                           segments, probs>>
       ELSE \E prob \in Probs :
            /\ SetHysteresis(updateHysteresis(prob, totalSamplesProcessed))
            /\ totalSamplesProcessed' = totalSamplesProcessed + NEW_SAMPLES_PER_CHUNK
            /\ accumLen' = accumLen + n - NEW_SAMPLES_PER_CHUNK
            /\ probs' = Append(probs, prob)
    /\ UNCHANGED <<stage, savedSegments>>

\* flush() closes an open segment with what was processed so far.
Closed(v, end) ==
    IF v.in
    THEN [v EXCEPT !.in = FALSE, !.start = None, !.segments = Append(@, <<v.start, end>>)]
    ELSE v

\* Mutant: the rest of a chunk is dropped.
Mut_RestDropped ==
    /\ stage = "listening"
    /\ stage' = "flushed"
    /\ SetHysteresis(Closed(Hysteresis, totalSamplesProcessed))
    /\ accumLen' = 0
    /\ UNCHANGED <<totalSamplesProcessed, probs, savedSegments, recorded>>

\* flush(): a rest of a chunk is padded with silence and answered as well.
Flush ==
    /\ stage = "listening"
    /\ stage' = "flushed"
    /\ IF accumLen = 0
       THEN /\ SetHysteresis(Closed(Hysteresis, totalSamplesProcessed))
            /\ UNCHANGED <<accumLen, totalSamplesProcessed, probs>>
       ELSE \E prob \in Probs :
            LET end == totalSamplesProcessed + NEW_SAMPLES_PER_CHUNK
            IN  /\ SetHysteresis(Closed(updateHysteresis(prob, totalSamplesProcessed), end))
                /\ totalSamplesProcessed' = end
                /\ accumLen' = 0
                /\ probs' = Append(probs, prob)
    /\ UNCHANGED <<savedSegments, recorded>>

\* saveMyVoiceSegments() and reset(), once recognition has finished.
Save ==
    /\ stage = "flushed"
    /\ stage' = "saved"
    /\ savedSegments' = segments
    /\ accumLen' = 0
    /\ totalSamplesProcessed' = 0
    /\ inMyVoice' = FALSE
    /\ hangoverCount' = 0
    /\ segmentStart' = None
    /\ segments' = <<>>
    /\ UNCHANGED <<recorded, probs>>

PersonalVadNext == (\E n \in 1 .. NEW_SAMPLES_PER_CHUNK : Process(n)) \/ Flush \/ Save
--------------------------------------------------------------------------------
\* Chunk i belongs to the speaker: it or an earlier chunk was surely theirs, and
\* since then silence never lasted longer than the hangover.
IsVoice(i) ==
    \E j \in 1 .. i :
        /\ probs[j] = "on"
        /\ \A k \in j + 1 .. i :
            k - HANGOVER_FRAMES > j =>
                \E m \in k - HANGOVER_FRAMES .. k : probs[m] # "off"

ChunkStart(i) == (i - 1) * NEW_SAMPLES_PER_CHUNK

Covers(segs, time) == \E k \in DOMAIN segs : segs[k][1] <= time /\ time < segs[k][2]

\* The saved segments are in order and apart, and cover exactly the speaker's
\* chunks: a segment closed by flush, by the hangover, or begun by the padded
\* rest of the recording is neither lost nor cut short (updateHysteresis, flush).
SegmentsAreVoice ==
    stage = "saved" =>
        /\ \A i \in DOMAIN probs : Covers(savedSegments, ChunkStart(i)) <=> IsVoice(i)
        /\ \A k \in DOMAIN savedSegments :
            /\ savedSegments[k][1] < savedSegments[k][2]
            /\ k > 1 => savedSegments[k - 1][2] < savedSegments[k][1]

\* All audio is answered for, and no segment reaches further than the padding
\* of the last chunk.
AllAudioAnswered ==
    /\ stage = "listening" =>
        totalSamplesProcessed + accumLen = recorded /\ accumLen < NEW_SAMPLES_PER_CHUNK
    /\ stage = "saved" =>
        /\ Len(probs) * NEW_SAMPLES_PER_CHUNK \in recorded .. recorded + NEW_SAMPLES_PER_CHUNK - 1
        /\ \A k \in DOMAIN savedSegments :
            savedSegments[k][2] < recorded + NEW_SAMPLES_PER_CHUNK
================================================================================
