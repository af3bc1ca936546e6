--------------------------- MODULE RecordingEncoder ---------------------------
(***************************************************************************)
(* RealtimeEncoder.java and the threads of MainActivity around it: while a *)
(* recorder thread feeds the encoder in the field realtimeEncoder, the     *)
(* codec works on its own, and when recognition has finished the UI opens  *)
(* the file and lets a new recording begin, whether or not the last one's  *)
(* recorder thread has released its encoder.  A recorder thread that       *)
(* cannot record returns early and leaves its encoder as it is.            *)
(*                                                                         *)
(* Audio is read in halves of a codec frame.  A recording has a recorder   *)
(* thread and an encoder, both named by its number.  MediaCodec and        *)
(* MediaMuxer are external: input buffers may run out, answers may be late.*)
(***************************************************************************)
EXTENDS Integers, Sequences, FiniteSets

CONSTANTS
    InputBuffers,    \* of the codec
    MaxRecordings,   \* bound: presses of Record
    MaxReads         \* bound: buffers read in a recording

ASSUME EncoderAssumption ==
    InputBuffers \in Nat \ {0} /\ MaxRecordings \in Nat /\ MaxReads \in Nat

Recording == 1 .. MaxRecordings
FRAME_SAMPLES == 2
NoFrame == -1        \* an empty buffer that only ends the stream

\* Two threads met in an encoder; a frame was dropped; the codec could not be
\* had, or its answers came too late; the microphone could not be had.
Mishaps == {"mixed", "dropped", "unstarted", "late", "unrecorded"}

VARIABLES
    startRecord,
    button,            \* is the Record/Stop button enabled?
    realtimeEncoder,   \* the encoder in the field, the last recording's
    record,            \* the recording whose AudioRecord is in the field, 0 for null
    codec,             \* per encoder: "none", "open", "closed"
    accumFilled,
    taken,             \* frames filled, whether or not the codec got them
    presentation,      \* frames given a time stamp
    queued, encoded,   \* frames before and behind the codec: [frame, time, eos]
    muxer,             \* what is in the file: the same
    recorder,          \* per recorder thread, where it is
    inside,            \* per recorder thread, the encoder it is in a method of
    read,              \* history: buffers read, per recorder thread
    mishaps            \* history, per recording: subset of Mishaps

appVars == <<startRecord, button, realtimeEncoder, record>>
inputVars == <<accumFilled, taken, presentation, queued>>
outputVars == <<encoded, muxer>>
vars == <<appVars, codec, inputVars, outputVars, recorder, inside, read, mishaps>>

Init ==
    /\ startRecord = FALSE
    /\ button = TRUE
    /\ realtimeEncoder = 0
    /\ record = 0
    /\ codec = [e \in Recording |-> "none"]
    /\ accumFilled = [e \in Recording |-> 0]
    /\ taken = [e \in Recording |-> 0]
    /\ presentation = [e \in Recording |-> 0]
    /\ queued = [e \in Recording |-> <<>>]
    /\ encoded = [e \in Recording |-> <<>>]
    /\ muxer = [e \in Recording |-> <<>>]
    /\ recorder = [r \in Recording |-> "off"]
    /\ inside = [r \in Recording |-> 0]
    /\ read = [r \in Recording |-> 0]
    /\ mishaps = [e \in Recording |-> {}]

Mishap(e, what) == mishaps' = [mishaps EXCEPT ![e] = @ \cup {what}]

\* A thread that is in another recording's encoder mixes the two up.
Meet(r, e, drops) ==
    mishaps' = [x \in Recording |->
        mishaps[x] \cup (IF r # e /\ x \in {r, e} THEN {"mixed"} ELSE {})
                   \cup (IF drops /\ x = e THEN {"dropped"} ELSE {})]

At(r, place) == recorder' = [recorder EXCEPT ![r] = place]
--------------------------------------------------------------------------------
(***************************************************************************)
(* The UI thread.                                                          *)
(***************************************************************************)
\* A codec that cannot be had leaves an encoder that takes nothing.
PressRecord ==
    LET r == realtimeEncoder + 1
    IN  /\ button /\ ~startRecord
        /\ r \in Recording
        /\ startRecord' = TRUE
        /\ button' = FALSE
        /\ realtimeEncoder' = r
        /\ \/ codec' = [codec EXCEPT ![r] = "open"] /\ UNCHANGED mishaps
           \/ Mishap(r, "unstarted") /\ UNCHANGED codec
        /\ At(r, "init")
        /\ UNCHANGED <<record, inputVars, outputVars, inside, read>>

PressStop ==
    /\ button /\ startRecord
    /\ startRecord' = FALSE
    /\ button' = FALSE
    /\ UNCHANGED <<realtimeEncoder, record, codec, inputVars, outputVars, recorder, inside, read,
                   mishaps>>

\* A runnable posted in the recorder's loop, when it cannot record, or at the end
\* of recognition, which waits for no recorder thread.  It may come late.
EnableButton ==
    /\ ~button
    /\ \E r \in Recording : recorder[r] \notin {"off", "init", "begin"}
    /\ button' = TRUE
    /\ UNCHANGED <<startRecord, realtimeEncoder, record, codec, inputVars, outputVars, recorder,
                   inside, read, mishaps>>

Encode(e) ==
    /\ queued[e] # <<>>
    /\ queued' = [queued EXCEPT ![e] = Tail(@)]
    /\ encoded' = [encoded EXCEPT ![e] = Append(@, Head(queued[e]))]
    /\ UNCHANGED <<appVars, codec, accumFilled, taken, presentation, muxer, recorder, inside, read,
                   mishaps>>
--------------------------------------------------------------------------------
(***************************************************************************)
(* A recorder thread.                                                      *)
(***************************************************************************)
\* initRecorder(): a new AudioRecord replaces the one in the field, if it can be had.
InitRecorder(r) ==
    /\ recorder[r] = "init"
    /\ \/ At(r, "begin") /\ record' = r /\ UNCHANGED mishaps
       \/ At(r, "failing") /\ record' \in {0, r} /\ Mishap(r, "unrecorded")
    /\ UNCHANGED <<startRecord, button, realtimeEncoder, codec, inputVars, outputVars, inside, read>>

InitRecorderFailed(r) ==
    /\ recorder[r] = "failing"
    /\ At(r, "failed")
    /\ startRecord' = FALSE
    /\ UNCHANGED <<button, realtimeEncoder, record, codec, inputVars, outputVars, inside, read,
                   mishaps>>

\* Another recorder thread may have taken the AudioRecord out of the field: then
\* this one returns as it does when the recording cannot be started, and says nothing.
StartRecording(r) ==
    /\ recorder[r] = "begin"
    /\ \/ record # 0 /\ At(r, "loop") /\ UNCHANGED <<startRecord, mishaps>>
       \/ record # 0 /\ At(r, "failed") /\ startRecord' = FALSE /\ Mishap(r, "unrecorded")
       \/ record = 0 /\ At(r, "failed") /\ UNCHANGED startRecord /\ Mishap(r, "unrecorded")
    /\ UNCHANGED <<button, realtimeEncoder, record, codec, inputVars, outputVars, inside, read>>

HasInputBuffer(e) == Len(queued[e]) < InputBuffers

\* Mutant: a frame is queued without waiting for a buffer.
Mut_NoWait(r, e, eos) ==
    /\ taken' = [taken EXCEPT ![e] = @ + 1]
    /\ accumFilled' = [accumFilled EXCEPT ![e] = 0]
    /\ Meet(r, e, FALSE)
    /\ queued' = [queued EXCEPT ![e] =
            Append(@, [frame |-> taken[e], time |-> presentation[e], eos |-> eos])]
    /\ presentation' = [presentation EXCEPT ![e] = @ + 1]

\* Mutant: a frame that is dropped uses up its time.
Mut_TimeGoesOn(r, e, eos) ==
    /\ taken' = [taken EXCEPT ![e] = @ + 1]
    /\ accumFilled' = [accumFilled EXCEPT ![e] = 0]
    /\ Meet(r, e, ~HasInputBuffer(e))
    /\ presentation' = [presentation EXCEPT ![e] = @ + 1]
    /\ queued' = IF HasInputBuffer(e)
                 THEN [queued EXCEPT ![e] =
                    Append(@, [frame |-> taken[e], time |-> presentation[e], eos |-> eos])]
                 ELSE queued

\* submitFrame(): a frame that gets no input buffer in time is gone, and the
\* frame after it gets its time.
SubmitFrame(r, e, eos) ==
    /\ taken' = [taken EXCEPT ![e] = @ + 1]
    /\ accumFilled' = [accumFilled EXCEPT ![e] = 0]
    /\ Meet(r, e, ~HasInputBuffer(e))
    /\ IF HasInputBuffer(e)
       THEN /\ queued' = [queued EXCEPT ![e] =
                    Append(@, [frame |-> taken[e], time |-> presentation[e], eos |-> eos])]
            /\ presentation' = [presentation EXCEPT ![e] = @ + 1]
       ELSE UNCHANGED <<queued, presentation>>

\* feed() up to its draining.  The loop looks at startRecord only, and takes
\* the encoder from the field for each buffer.
Feed(r) ==
    LET e == realtimeEncoder
    IN  /\ recorder[r] = "loop"
        /\ startRecord /\ record # 0
        /\ read[r] < MaxReads
        /\ read' = [read EXCEPT ![r] = @ + 1]
        /\ IF codec[e] # "open"
           THEN UNCHANGED <<inputVars, mishaps, recorder, inside>>
           ELSE /\ At(r, "draining")
                /\ inside' = [inside EXCEPT ![r] = e]
                /\ IF accumFilled[e] + 1 = FRAME_SAMPLES
                   THEN SubmitFrame(r, e, FALSE)
                   ELSE /\ accumFilled' = [accumFilled EXCEPT ![e] = @ + 1]
                        /\ Meet(r, e, FALSE)
                        /\ UNCHANGED <<taken, presentation, queued>>
        /\ UNCHANGED <<appVars, codec, outputVars>>

\* What of the outputs goes to the file: an empty buffer does not.
Frames(outputs) ==
    LET frames[n \in 0 .. Len(outputs)] ==
            IF n = 0 THEN <<>>
            ELSE IF outputs[n].frame = NoFrame THEN frames[n - 1]
            ELSE Append(frames[n - 1], outputs[n])
    IN  frames[Len(outputs)]

WriteOutputs(e) ==
    /\ muxer' = [muxer EXCEPT ![e] = @ \o Frames(encoded[e])]
    /\ encoded' = [encoded EXCEPT ![e] = <<>>]

\* drain(0) writes what is there.  When another thread has released the encoder
\* since, this one returns, or dies if it was past the test already.
DrainFed(r) ==
    LET e == inside[r]
    IN  /\ recorder[r] = "draining"
        /\ IF codec[e] = "open"
           THEN WriteOutputs(e) /\ At(r, "loop")
           ELSE (At(r, "loop") \/ At(r, "crashed")) /\ UNCHANGED outputVars
        /\ UNCHANGED <<appVars, codec, inputVars, inside, read, mishaps>>

LeaveLoop(r) ==
    /\ recorder[r] = "loop"
    /\ ~startRecord
    /\ At(r, "leaving")
    /\ UNCHANGED <<appVars, codec, inputVars, outputVars, inside, read, mishaps>>

\* Whose AudioRecord is in the field by now is of no account.
ReleaseRecord(r) ==
    /\ recorder[r] = "leaving"
    /\ At(r, "stopping")
    /\ record' = 0
    /\ UNCHANGED <<startRecord, button, realtimeEncoder, codec, inputVars, outputVars, inside, read,
                   mishaps>>

\* Mutant: the rest of a frame is not encoded.
Mut_RestDropped(r) ==
    LET e == realtimeEncoder
        end == [frame |-> NoFrame, time |-> presentation[e], eos |-> TRUE]
    IN  /\ recorder[r] = "stopping"
        /\ inside' = [inside EXCEPT ![r] = e]
        /\ At(r, IF codec[e] = "open" THEN "finalizing" ELSE "done")
        /\ Meet(r, e, FALSE)
        /\ queued' = IF codec[e] = "open" /\ HasInputBuffer(e)
                     THEN [queued EXCEPT ![e] = Append(@, end)] ELSE queued
        /\ UNCHANGED <<appVars, codec, outputVars, read, accumFilled, taken, presentation>>

\* release() of the encoder that is in the field by now: a rest of a frame is
\* padded and ends the stream, or an empty buffer does.
Release(r) ==
    LET e == realtimeEncoder
        end == [frame |-> NoFrame, time |-> presentation[e], eos |-> TRUE]
    IN  /\ recorder[r] = "stopping"
        /\ inside' = [inside EXCEPT ![r] = e]
        /\ At(r, IF codec[e] = "open" THEN "finalizing" ELSE "done")
        /\ IF codec[e] = "open" /\ accumFilled[e] > 0
           THEN SubmitFrame(r, e, TRUE)
           ELSE /\ Meet(r, e, FALSE)
                /\ queued' = IF codec[e] = "open" /\ HasInputBuffer(e)
                             THEN [queued EXCEPT ![e] = Append(@, end)] ELSE queued
                /\ UNCHANGED <<accumFilled, taken, presentation>>
        /\ UNCHANGED <<appVars, codec, outputVars, read>>

Ended(outputs) == \E i \in DOMAIN outputs : outputs[i].eos

Close(r, e) == At(r, "done") /\ codec' = [codec EXCEPT ![e] = "closed"]

\* Mutant: draining goes on until the end of the stream is seen.
Mut_WaitsForEnd(r) ==
    LET e == inside[r]
    IN  /\ recorder[r] = "finalizing"
        /\ \/ codec[e] # "open" /\ At(r, "done") /\ UNCHANGED <<codec, outputVars, mishaps>>
           \/ codec[e] = "open" /\ WriteOutputs(e) /\ UNCHANGED mishaps
                /\ IF Ended(encoded[e]) THEN Close(r, e) ELSE UNCHANGED <<codec, recorder>>
        /\ UNCHANGED <<appVars, inputVars, inside, read>>

\* drain(5000): outputs are written as they come, to the end of the stream or
\* until the codec takes too long; then codec and file are closed.
Finalize(r) ==
    LET e == inside[r]
    IN  /\ recorder[r] = "finalizing"
        /\ \/ codec[e] # "open" /\ At(r, "done") /\ UNCHANGED <<codec, outputVars, mishaps>>
           \/ /\ codec[e] = "open"
              /\ WriteOutputs(e)
              /\ \/ Ended(encoded[e]) /\ Close(r, e) /\ UNCHANGED mishaps
                 \/ ~Ended(encoded[e]) /\ Close(r, e) /\ Mishap(e, "late")
                 \/ ~Ended(encoded[e]) /\ encoded[e] # <<>> /\ UNCHANGED <<codec, mishaps, recorder>>
        /\ UNCHANGED <<appVars, inputVars, inside, read>>

RecorderThread(r) ==
    \/ InitRecorder(r) \/ InitRecorderFailed(r) \/ StartRecording(r)
    \/ Feed(r) \/ DrainFed(r)
    \/ LeaveLoop(r) \/ ReleaseRecord(r) \/ Release(r) \/ Finalize(r)

Next == \/ PressRecord \/ PressStop \/ EnableButton
        \/ \E e \in Recording : Encode(e) \/ RecorderThread(e)

\* The threads and the codec go on; nobody has to press a button.
Fairness == \A r \in Recording : WF_vars(RecorderThread(r)) /\ WF_vars(Encode(r))

FairSpec == Init /\ [][Next]_vars /\ Fairness
--------------------------------------------------------------------------------
Places == {"off", "init", "begin", "failing", "failed", "loop", "draining", "leaving", "stopping",
           "finalizing", "done", "crashed"}

TypeOK ==
    /\ \A r \in Recording :
        /\ recorder[r] \in Places
        /\ codec[r] \in {"none", "open", "closed"}
        /\ accumFilled[r] \in 0 .. FRAME_SAMPLES - 1
        /\ Len(queued[r]) <= InputBuffers
        /\ presentation[r] <= taken[r]
    /\ realtimeEncoder \in 0 .. MaxRecordings

\* Where a recording is played is where it was recorded: the k-th frame of the
\* file has the k-th time and, unless a frame was dropped, is the k-th frame
\* recorded.  (After a dropped frame every later word is played too early.)
PositionsAreRecordingTimes ==
    \A e \in Recording : \A k \in DOMAIN muxer[e] :
        /\ muxer[e][k].time = k - 1
        /\ muxer[e][k].frame >= k - 1
        /\ "dropped" \notin mishaps[e] => muxer[e][k].frame = k - 1

\* A recorder thread that has finished has closed a file with all it has read,
\* up to the padding, unless a frame was dropped, the codec could not be had or
\* was too slow at the end, or the next recording had begun by then.
FinishedFileIsComplete ==
    \A r \in Recording :
        recorder[r] = "done" /\ mishaps[r] = {} =>
            codec[r] = "closed" /\ FRAME_SAMPLES * Len(muxer[r]) \in read[r] .. read[r] + 1

\* The file is the recording: every frame at its time, up to the last one.
FileIsTheRecording == TypeOK /\ PositionsAreRecordingTimes /\ FinishedFileIsComplete

\* An encoder that is open when the recording is stopped is closed before long,
\* unless recording begins again first: then its thread may go on.  It stays open for
\* good only where another recording's thread or encoder has come between, and where
\* its own thread could not record and returned early.
EncoderIsClosed ==
    \A r \in Recording :
        codec[r] = "open" /\ ~startRecord ~>
            \/ codec[r] = "closed" \/ startRecord
            \/ "mixed" \in mishaps[r] \/ "unrecorded" \in mishaps[r]
================================================================================
