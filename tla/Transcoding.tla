------------------------------ MODULE Transcoding ------------------------------
(***************************************************************************)
(* The loops that push a whole recording through a codec: compressToAac,   *)
(* decodeOpusToPcm and decodeOggEnergyBars of MainActivity.java and        *)
(* AudioConverter.java.  In turn they offer the codec input and take what  *)
(* it has; either side may have nothing to offer.  MediaCodec (a FIFO that *)
(* announces its format first), MediaExtractor and MediaMuxer are external.*)
(* A sample is its number in the recording, a time the number of samples   *)
(* before it; a decoder puts out Decimation samples for each one wanted.   *)
(***************************************************************************)
EXTENDS Integers, Sequences

CONSTANTS
    RecordingLengths,  \* samples of the file that is read
    FRAME,             \* samples that pcmBuf or readBuf takes
    PACKET,            \* samples of a packet of the compressed file
    Decimation,        \* the rate put out over SAMPLE_RATE
    MAX_BARS, MinSamplesPerBar

\* A packet of 20 ms at 48 kHz is a whole number of samples at 8 kHz.
ASSUME TranscodingAssumption ==
    /\ RecordingLengths \subseteq Nat
    /\ FRAME \in Nat \ {0} /\ PACKET \in Nat \ {0} /\ Decimation \in Nat \ {0}
    /\ PACKET % Decimation = 0
    /\ MAX_BARS \in Nat \ {0} /\ MinSamplesPerBar \in Nat \ {0}

VARIABLES
    routine, total,    \* which loop, and samples of the file it reads
    position,          \* samples read
    presentationUs,
    pending,           \* pieces in the codec
    formatKnown,       \* the format was announced (muxerStarted)
    inputDone, outputDone,
    file,              \* what was written: pieces, samples, or bars of samples
    bar,               \* samples of the bar under way
    pcmFile,           \* is the source there?
    finished,          \* muxer.stop worked
    transcoder         \* where the thread is

transcoding_vars ==
    <<routine, total, position, presentationUs, pending, formatKnown, inputDone, outputDone,
      file, bar, pcmFile, finished, transcoder>>

Compressing == routine \in {"compressToAac", "convertPcmToM4a"}
AtMost(a, b) == IF a < b THEN a ELSE b

TranscodingInit ==
    /\ routine \in {"compressToAac", "convertPcmToM4a", "decodeOpusToPcm", "decodeOggEnergyBars"}
    /\ total \in RecordingLengths /\ (routine = "compressToAac" => total > 0)
    /\ position = 0 /\ presentationUs = 0
    /\ pending = <<>> /\ formatKnown = FALSE
    /\ inputDone = FALSE /\ outputDone = FALSE
    /\ file = <<>> /\ bar = <<>>
    /\ pcmFile = TRUE /\ finished = FALSE
    /\ transcoder = "input"
--------------------------------------------------------------------------------
unread == total - position

\* One buffer for the codec; an empty one ends the stream.
QueueInput(n, time, passed) ==
    /\ transcoder = "input" /\ ~inputDone
    /\ pending' = Append(pending, [first |-> position, size |-> n, time |-> time, eos |-> n = 0])
    /\ position' = position + n
    /\ presentationUs' = presentationUs + passed
    /\ inputDone' = (n = 0)
    /\ transcoder' = "output"
    /\ UNCHANGED <<routine, total, formatKnown, outputDone, file, bar, pcmFile, finished>>

\* readPcmChunk goes on until its buffer is full or the file ends.
CompressChunk ==
    routine = "compressToAac" /\ LET n == AtMost(FRAME, unread) IN QueueInput(n, presentationUs, n)

\* Mutant: the time goes on by a whole buffer, however much was read.
Mut_ConvertRead ==
    /\ routine = "convertPcmToM4a"
    /\ \E n \in IF unread = 0 THEN {0} ELSE 1 .. AtMost(FRAME, unread) : QueueInput(n, presentationUs, FRAME)

\* A single read may bring less than there is.
ConvertRead ==
    /\ routine = "convertPcmToM4a"
    /\ \E n \in IF unread = 0 THEN {0} ELSE 1 .. AtMost(FRAME, unread) : QueueInput(n, presentationUs, n)

DecodePacket == routine = "decodeOpusToPcm" /\ QueueInput(AtMost(PACKET, unread), position, 0)
MeasurePacket == routine = "decodeOggEnergyBars" /\ QueueInput(AtMost(PACKET, unread), position, 0)

\* No input buffer, or nothing left to put in one.
NoInput ==
    /\ transcoder = "input" /\ transcoder' = "output"
    /\ UNCHANGED <<routine, total, position, presentationUs, pending, formatKnown, inputDone,
                   outputDone, file, bar, pcmFile, finished>>

NoOutput ==
    /\ transcoder = "output" /\ transcoder' = "input"
    /\ UNCHANGED <<routine, total, position, presentationUs, pending, formatKnown, inputDone,
                   outputDone, file, bar, pcmFile, finished>>

FormatChanged ==
    /\ transcoder = "output" /\ ~formatKnown /\ pending # <<>>
    /\ formatKnown' = TRUE /\ transcoder' = "input"
    /\ UNCHANGED <<routine, total, position, presentationUs, pending, inputDone, outputDone,
                   file, bar, pcmFile, finished>>

\* MediaCodec: the mark of the end comes alone or with the last piece.
Outputs ==
    (IF pending = <<>> THEN {} ELSE {<<Head(pending), Tail(pending)>>}) \cup
    (IF Len(pending) = 2 /\ pending[2].eos THEN {<<[pending[1] EXCEPT !.eos = TRUE], <<>>>>} ELSE {})

\* One sample in Decimation, beginning with the first of the piece.
Decimated(piece) ==
    [k \in 1 .. (piece.size + Decimation - 1) \div Decimation |-> piece.first + (k - 1) * Decimation]

samplesPerBar == IF (total \div Decimation) \div MAX_BARS > MinSamplesPerBar
                 THEN (total \div Decimation) \div MAX_BARS ELSE MinSamplesPerBar
barCount == IF (total \div Decimation) \div samplesPerBar = 0 THEN 1
            ELSE (total \div Decimation) \div samplesPerBar

\* Mutant: each piece begins a bar.
Mut_Bars(piece) ==
    LET samples == Decimated(piece)
        full == Len(samples) \div samplesPerBar
    IN  [file |-> file \o [k \in 1 .. AtMost(full, barCount - Len(file)) |->
                    SubSeq(samples, (k - 1) * samplesPerBar + 1, k * samplesPerBar)],
         bar |-> <<>>]

\* The bars that a piece completes, and what it leaves for the next.
Bars(piece) ==
    LET samples == bar \o Decimated(piece)
        full == Len(samples) \div samplesPerBar
    IN  [file |-> file \o [k \in 1 .. AtMost(full, barCount - Len(file)) |->
                    SubSeq(samples, (k - 1) * samplesPerBar + 1, k * samplesPerBar)],
         bar |-> SubSeq(samples, full * samplesPerBar + 1, Len(samples))]

WriteSampleData(piece) ==
    /\ file' = IF piece.size = 0 THEN file
               ELSE Append(file, [first |-> piece.first, size |-> piece.size, time |-> piece.time])
    /\ UNCHANGED bar

WritePcm(piece) == file' = file \o Decimated(piece) /\ UNCHANGED bar
WriteBars(piece) == file' = Bars(piece).file /\ bar' = Bars(piece).bar

\* One buffer from the codec; the loop ends with the stream.
Output(piece, rest, enough) ==
    /\ transcoder = "output" /\ formatKnown
    /\ pending' = rest
    /\ outputDone' = piece.eos
    /\ transcoder' = IF piece.eos \/ enough THEN "done" ELSE "input"
    /\ UNCHANGED <<routine, total, position, presentationUs, formatKnown, inputDone, pcmFile, finished>>

Compressed ==
    /\ routine = "compressToAac"
    /\ \E o \in Outputs : WriteSampleData(o[1]) /\ Output(o[1], o[2], FALSE)

Converted ==
    /\ routine = "convertPcmToM4a"
    /\ \E o \in Outputs : WriteSampleData(o[1]) /\ Output(o[1], o[2], FALSE)

Decoded ==
    /\ routine = "decodeOpusToPcm"
    /\ \E o \in Outputs : WritePcm(o[1]) /\ Output(o[1], o[2], FALSE)

Measured ==
    /\ routine = "decodeOggEnergyBars"
    /\ \E o \in Outputs : WriteBars(o[1]) /\ Output(o[1], o[2], Len(file') = barCount)

\* Mutant: the source goes although nothing says that the file is written.
Mut_Throw ==
    /\ transcoder \in {"input", "output"}
    /\ file' = IF routine \in {"compressToAac", "decodeOpusToPcm"} THEN <<>> ELSE file
    /\ pcmFile' = (routine # "compressToAac")
    /\ transcoder' = "failed"
    /\ UNCHANGED <<routine, total, position, presentationUs, pending, formatKnown, inputDone,
                   outputDone, bar, finished>>

\* The codec or a file fails: what was begun is deleted, but by AudioConverter;
\* the bars that are full are shown.
Throw ==
    /\ transcoder \in {"input", "output"}
    /\ file' = IF routine \in {"compressToAac", "decodeOpusToPcm"} THEN <<>> ELSE file
    /\ transcoder' = "failed"
    /\ UNCHANGED <<routine, total, position, presentationUs, pending, formatKnown, inputDone,
                   outputDone, bar, pcmFile, finished>>

\* compressToAac deletes its source before it closes what it wrote.
DeleteSource ==
    /\ transcoder = "done"
    /\ pcmFile' = ~(routine = "compressToAac" /\ file # <<>>)
    /\ transcoder' = "closing"
    /\ UNCHANGED <<routine, total, position, presentationUs, pending, formatKnown, inputDone,
                   outputDone, file, bar, finished>>

\* What muxer.stop throws is ignored.
CloseAll ==
    /\ transcoder \in {"closing", "failed"}
    /\ finished' \in (IF Compressing /\ formatKnown THEN BOOLEAN ELSE {FALSE})
    /\ transcoder' = IF transcoder = "closing" THEN "true" ELSE "false"
    /\ UNCHANGED <<routine, total, position, presentationUs, pending, formatKnown, inputDone,
                   outputDone, file, bar, pcmFile>>

TranscodingNext ==
    \/ CompressChunk \/ ConvertRead \/ DecodePacket \/ MeasurePacket \/ NoInput
    \/ NoOutput \/ FormatChanged \/ Compressed \/ Converted \/ Decoded \/ Measured
    \/ Throw \/ DeleteSource \/ CloseAll
--------------------------------------------------------------------------------
Places2 == {"input", "output", "done", "failed", "closing", "true", "false"}

SoFar(k) == IF k = 0 THEN 0 ELSE file[k].first + file[k].size

\* What is written is what was recorded: pieces without a gap, each at its time;
\* one sample in Decimation, or bars of as many of them each, all in order.
WrittenInPlace ==
    CASE Compressing ->
            \A k \in DOMAIN file : file[k].first = SoFar(k - 1) /\ file[k].time = SoFar(k - 1)
      [] routine = "decodeOpusToPcm" -> \A k \in DOMAIN file : file[k] = (k - 1) * Decimation
      [] OTHER ->
            \A k \in DOMAIN file : file[k] = [i \in 1 .. samplesPerBar |->
                ((k - 1) * samplesPerBar + i - 1) * Decimation]

\* A loop that ends well has written all there is.
WrittenCompletely ==
    transcoder \in {"done", "closing", "true"} =>
        LET wanted == (total + Decimation - 1) \div Decimation
        IN  CASE Compressing -> SoFar(Len(file)) = total
              [] routine = "decodeOpusToPcm" -> Len(file) = wanted
              [] OTHER -> Len(file) = AtMost(barCount, wanted \div samplesPerBar)

\* A recording is converted whole and in place, however the codec delays its
\* input and output, and its source is deleted only when all of it was written.
TranscodedIsTheRecording ==
    /\ transcoder \in Places2 /\ position <= total
    /\ WrittenInPlace /\ WrittenCompletely
    /\ pcmFile \/ SoFar(Len(file)) = total

\* MainActivity.java:1062: "Delete original PCM after successful compression".
\* TLC refutes it: see the README, "Findings".
DeletesOnlyCompressed == transcoder = "true" /\ ~pcmFile => finished
================================================================================
