--------------------------- MODULE RecordingSession ----------------------------
(***************************************************************************)
(* One recording of the Android app: MainActivity's UI handlers, its       *)
(* recorder thread and its recogniser ("ASR") thread, and the decode       *)
(* thread of wenet.cc, around bufferQueue and the feature pipeline.  The   *)
(* pipeline is used through its contract (FrameStream): what was accepted  *)
(* is read in order, and the end is reported when it is finished and       *)
(* empty.                                                                  *)
(*                                                                         *)
(* startRecord is a plain field that all threads poll.  Each step below is *)
(* one access to it, to the queue or to the native layer.  Threads are     *)
(* indexed by the session that started them, because nothing waits for the *)
(* threads of the last session before the next one starts.                 *)
(***************************************************************************)
EXTENDS Integers, Sequences

CONSTANTS QueueCapacity,  \* capacity of bufferQueue (MAX_QUEUE_SIZE)
          Failures,       \* which recorder failures may occur
          MaxSessions,    \* bound: presses of Record
          MaxChunks,      \* bound: buffers read in a session
          MaxPosted       \* bound: runnables waiting for the UI thread

ASSUME SessionAssumption ==
  /\ QueueCapacity \in Nat \ {0}
  /\ Failures \subseteq {"init", "start"}
  /\ MaxSessions \in Nat /\ MaxChunks \in Nat /\ MaxPosted \in Nat \ {0}

Session == 1..MaxSessions
Chunk == Session \X (1..MaxChunks)   \* a buffer: its session and its number
NotSaved == [saved |-> FALSE, text |-> <<>>]

VARIABLES
  ui,           \* the UI thread: "idle", or inside the handler of Stop or Play
  startRecord,
  enabled,      \* is the Record/Stop button enabled?
  posted,       \* runnables queued for the UI thread; each enables the button
  session,      \* sessions started; currentRecordingName is the last one's
  rec, asr, dec, \* where each session's threads are
  record,       \* the session whose AudioRecord is in the field, 0 for null
  recHand,      \* the buffer a recorder thread is about to put
  asrHand,      \* the buffer an ASR thread has taken
  bufferQueue,
  useVad,       \* the setting: is the speech detector in front of the pipeline?
  held,         \* samples the speech detector has not forwarded yet
  pipeline,     \* accepted and not yet read by the decoder
  input_finished,
  decode_thread_done,
  decoded,      \* decoded, and not yet in timed_result_json
  timed,        \* what timed_result_json covers
  saved,        \* per recording, what result.json covers
  captured,     \* history: buffers read, per session
  due           \* history: what had been accepted when the input was finished

uiVars     == <<ui, enabled, posted, session>>
recVars    == <<rec, record, recHand, captured>>
asrVars    == <<asr, asrHand, held, saved, useVad>>
nativeVars == <<dec, pipeline, input_finished, decode_thread_done, decoded, timed, due>>
vars == <<uiVars, startRecord, recVars, asrVars, bufferQueue, nativeVars>>

Init ==
  /\ ui = "idle"
  /\ startRecord = FALSE
  /\ enabled = TRUE           \* the model is loaded
  /\ posted = 0
  /\ session = 0
  /\ rec = [s \in Session |-> "off"]
  /\ asr = [s \in Session |-> "off"]
  /\ dec = [s \in Session |-> "off"]
  /\ record = 0
  /\ recHand = [s \in Session |-> <<>>]
  /\ asrHand = [s \in Session |-> <<>>]
  /\ bufferQueue = <<>>
  /\ useVad \in BOOLEAN
  /\ held = <<>>
  /\ pipeline = <<>>
  /\ input_finished = FALSE
  /\ decode_thread_done = FALSE
  /\ decoded = <<>>
  /\ timed = <<>>
  /\ due = <<>>
  /\ saved = [s \in Session |-> NotSaved]
  /\ captured = [s \in Session |-> <<>>]

--------------------------------------------------------------------------------
(***************************************************************************)
(* UI thread.  Record: reset the native layer and start the three threads. *)
(***************************************************************************)
PressRecord ==
  LET s == session + 1
  IN /\ ui = "idle" /\ enabled
     /\ ~startRecord
     /\ session < MaxSessions
     /\ session' = s
     /\ startRecord' = TRUE
     /\ pipeline' = <<>>
     /\ input_finished' = FALSE
     /\ decode_thread_done' = FALSE
     /\ decoded' = <<>>
     /\ timed' = <<>>
     /\ due' = <<>>
     /\ rec' = [rec EXCEPT ![s] = "init"]
     /\ asr' = [asr EXCEPT ![s] = "start"]
     /\ dec' = [dec EXCEPT ![s] = "read"]
     /\ enabled' = FALSE
     /\ UNCHANGED <<ui, posted, record, recHand, captured, asrHand, held, saved, useVad,
                    bufferQueue>>

PressStop ==
  /\ ui = "idle" /\ enabled
  /\ startRecord
  /\ startRecord' = FALSE
  /\ ui' = "stopping"
  /\ UNCHANGED <<enabled, posted, session, recVars, asrVars, bufferQueue, nativeVars>>

\* Mutant: Play finishes the input and lets the session run on.
Mut_PlayKeepsRecording ==
  /\ ui = "idle"
  /\ startRecord
  /\ ui' = "playing"
  /\ UNCHANGED <<startRecord, enabled, posted, session, recVars, asrVars, bufferQueue,
                 nativeVars>>

\* Play, with another recording open (resumePlayback), stops the session as well,
\* and leaves the button as it is.
PressPlay ==
  /\ ui = "idle"
  /\ startRecord
  /\ startRecord' = FALSE
  /\ ui' = "playing"
  /\ UNCHANGED <<enabled, posted, session, recVars, asrVars, bufferQueue, nativeVars>>

\* The rest of both handlers: Recognize.setInputFinished(), whose CHECK aborts the
\* process if the input is already finished; Stop then disables the button.
FinishInput ==
  /\ ui # "idle"
  /\ ~input_finished
  /\ input_finished' = TRUE
  /\ due' = timed \o decoded \o pipeline
  /\ enabled' = (enabled /\ ui = "playing")
  /\ ui' = "idle"
  /\ UNCHANGED <<posted, session, startRecord, recVars, asrVars, bufferQueue, dec,
                 pipeline, decode_thread_done, decoded, timed>>

\* Every posted runnable of a session enables the button.
RunPosted ==
  /\ ui = "idle"
  /\ posted > 0
  /\ posted' = posted - 1
  /\ enabled' = TRUE
  /\ UNCHANGED <<ui, session, startRecord, recVars, asrVars, bufferQueue, nativeVars>>

Post == posted < MaxPosted /\ posted' = posted + 1

--------------------------------------------------------------------------------
(***************************************************************************)
(* Recorder thread.                                                        *)
(***************************************************************************)
RecGoto(s, from, to) == rec[s] = from /\ rec' = [rec EXCEPT ![s] = to]

\* initRecorder(): a new AudioRecord replaces the one in the field, if any.
InitRecorder(s) ==
  /\ \/ /\ RecGoto(s, "init", "begin")
        /\ record' = s
        /\ UNCHANGED posted
     \/ /\ "init" \in Failures
        /\ RecGoto(s, "init", "failed")
        /\ Post
        /\ record' \in {0, s}     \* not created, or created and not initialised
  /\ UNCHANGED <<ui, enabled, session, startRecord, recHand, captured, asrVars,
                 bufferQueue, nativeVars>>

InitRecorderFailed(s) ==
  /\ RecGoto(s, "failed", "done")
  /\ startRecord' = FALSE
  /\ UNCHANGED <<uiVars, record, recHand, captured, asrVars, bufferQueue, nativeVars>>

StartRecording(s) ==
  /\ \/ /\ record # 0
        /\ RecGoto(s, "begin", "loop")
        /\ UNCHANGED startRecord
     \/ /\ record = 0
        /\ RecGoto(s, "begin", "done")
        /\ UNCHANGED startRecord
     \/ /\ record # 0 /\ "start" \in Failures
        /\ RecGoto(s, "begin", "done")
        /\ startRecord' = FALSE
  /\ UNCHANGED <<uiVars, record, recHand, captured, asrVars, bufferQueue, nativeVars>>

\* while (startRecord)
RecTest(s) ==
  /\ RecGoto(s, "loop", IF startRecord THEN "read" ELSE "release")
  /\ UNCHANGED <<uiVars, startRecord, record, recHand, captured, asrVars, bufferQueue,
                 nativeVars>>

\* record.read and realtimeEncoder.feed; a read may return nothing.
RecRead(s) ==
  /\ \/ /\ record # 0
        /\ Len(captured[s]) < MaxChunks
        /\ LET c == <<s, Len(captured[s]) + 1>>
           IN /\ captured' = [captured EXCEPT ![s] = Append(@, c)]
              /\ recHand' = [recHand EXCEPT ![s] = <<c>>]
        /\ RecGoto(s, "read", "put")
     \/ /\ RecGoto(s, "read", "button")
        /\ UNCHANGED <<captured, recHand>>
  /\ UNCHANGED <<uiVars, startRecord, record, asrVars, bufferQueue, nativeVars>>

\* bufferQueue.put blocks while the queue is full.
RecPut(s) ==
  /\ RecGoto(s, "put", "button")
  /\ Len(bufferQueue) < QueueCapacity
  /\ bufferQueue' = bufferQueue \o recHand[s]
  /\ recHand' = [recHand EXCEPT ![s] = <<>>]
  /\ UNCHANGED <<uiVars, startRecord, record, captured, asrVars, nativeVars>>

\* if (!button.isEnabled() && startRecord), and then the post.
RecButton(s) ==
  /\ RecGoto(s, "button", IF ~enabled /\ startRecord THEN "post" ELSE "loop")
  /\ UNCHANGED <<uiVars, startRecord, record, recHand, captured, asrVars, bufferQueue,
                 nativeVars>>

RecPost(s) ==
  /\ RecGoto(s, "post", "loop")
  /\ Post
  /\ UNCHANGED <<ui, enabled, session, startRecord, record, recHand, captured, asrVars,
                 bufferQueue, nativeVars>>

RecRelease(s) ==
  /\ RecGoto(s, "release", "done")
  /\ record' = 0
  /\ UNCHANGED <<uiVars, startRecord, recHand, captured, asrVars, bufferQueue,
                 nativeVars>>

Recorder(s) ==
  \/ InitRecorder(s) \/ InitRecorderFailed(s) \/ StartRecording(s) \/ RecTest(s)
  \/ RecRead(s) \/ RecPut(s) \/ RecButton(s) \/ RecPost(s) \/ RecRelease(s)

--------------------------------------------------------------------------------
(***************************************************************************)
(* ASR thread.                                                             *)
(***************************************************************************)
AsrGoto(s, from, to) == asr[s] = from /\ asr' = [asr EXCEPT ![s] = to]

\* sileroVad.reset()
AsrStart(s) ==
  /\ AsrGoto(s, "start", "test")
  /\ held' = IF useVad THEN <<>> ELSE held
  /\ UNCHANGED <<uiVars, startRecord, recVars, asrHand, saved, useVad, bufferQueue,
                 nativeVars>>

\* while (startRecord || bufferQueue.size() > 0)
AsrTest(s) ==
  /\ AsrGoto(s, "test", IF startRecord \/ bufferQueue # <<>> THEN "take" ELSE "flush")
  /\ UNCHANGED <<uiVars, startRecord, recVars, asrHand, held, saved, useVad, bufferQueue,
                 nativeVars>>

\* bufferQueue.take() blocks while the queue is empty.
AsrTake(s) ==
  /\ AsrGoto(s, "take", "accept")
  /\ bufferQueue # <<>>
  /\ asrHand' = [asrHand EXCEPT ![s] = <<Head(bufferQueue)>>]
  /\ bufferQueue' = Tail(bufferQueue)
  /\ UNCHANGED <<uiVars, startRecord, recVars, held, saved, useVad, nativeVars>>

\* Mutant: the speech detector drops what it held back.
Mut_VadForgetsHeld(s) ==
  /\ AsrGoto(s, "accept", "test")
  /\ IF useVad
     THEN pipeline' = pipeline /\ held' = asrHand[s]
     ELSE pipeline' = pipeline \o asrHand[s] /\ held' = held
  /\ asrHand' = [asrHand EXCEPT ![s] = <<>>]
  /\ UNCHANGED <<uiVars, startRecord, recVars, saved, useVad, bufferQueue, dec,
                 input_finished, decode_thread_done, decoded, timed, due>>

\* Recognize.acceptWaveform, directly or through the speech detector, which keeps
\* the last samples until more arrive (its residual).
AsrAccept(s) ==
  /\ AsrGoto(s, "accept", "test")
  /\ IF useVad
     THEN pipeline' = pipeline \o held /\ held' = asrHand[s]
     ELSE pipeline' = pipeline \o asrHand[s] /\ held' = held
  /\ asrHand' = [asrHand EXCEPT ![s] = <<>>]
  /\ UNCHANGED <<uiVars, startRecord, recVars, saved, useVad, bufferQueue, dec,
                 input_finished, decode_thread_done, decoded, timed, due>>

\* sileroVad.flush()
AsrFlush(s) ==
  /\ AsrGoto(s, "flush", "poll")
  /\ IF useVad
     THEN pipeline' = pipeline \o held /\ held' = <<>>
     ELSE UNCHANGED <<pipeline, held>>
  /\ UNCHANGED <<uiVars, startRecord, recVars, asrHand, saved, useVad, bufferQueue, dec,
                 input_finished, decode_thread_done, decoded, timed, due>>

\* Mutant: the state is tested instead of the flag that is set after everything else.
Mut_FinishedByState(s) ==
  /\ AsrGoto(s, "poll", "save")
  /\ dec[session] \in {"end", "done"}
  /\ UNCHANGED <<uiVars, startRecord, recVars, asrHand, held, saved, useVad, bufferQueue,
                 nativeVars>>

\* while (true): Recognize.getFinished()
AsrPoll(s) ==
  /\ decode_thread_done
  /\ AsrGoto(s, "poll", "save")
  /\ UNCHANGED <<uiVars, startRecord, recVars, asrHand, held, saved, useVad, bufferQueue,
                 nativeVars>>

\* saveTimedResult() writes under currentRecordingName.
AsrSave(s) ==
  /\ AsrGoto(s, "save", "post")
  /\ saved' = [saved EXCEPT ![session] = [saved |-> TRUE, text |-> timed]]
  /\ UNCHANGED <<uiVars, startRecord, recVars, asrHand, held, useVad, bufferQueue,
                 nativeVars>>

AsrPost(s) ==
  /\ AsrGoto(s, "post", "done")
  /\ Post
  /\ UNCHANGED <<ui, enabled, session, startRecord, recVars, asrHand, held, saved, useVad,
                 bufferQueue, nativeVars>>

Asr(s) ==
  \/ AsrStart(s) \/ AsrTest(s) \/ AsrTake(s) \/ AsrAccept(s) \/ AsrFlush(s)
  \/ AsrPoll(s) \/ AsrSave(s) \/ AsrPost(s)

--------------------------------------------------------------------------------
(***************************************************************************)
(* Decode thread (wenet.cc decode_thread_func): decode what has been       *)
(* accepted.  Words reach timed_result_json at an endpoint and at the end; *)
(* decode_thread_done is set after that.                                   *)
(***************************************************************************)
Decode(s) ==
  /\ dec[s] = "read"
  /\ pipeline # <<>>
  /\ pipeline' = Tail(pipeline)
  /\ LET words == Append(decoded, Head(pipeline))
     IN \/ decoded' = words /\ timed' = timed
        \/ decoded' = <<>> /\ timed' = timed \o words     \* kEndpoint
  /\ UNCHANGED <<uiVars, startRecord, recVars, asrVars, bufferQueue, dec,
                 input_finished, decode_thread_done, due>>

DecodeEnd(s) ==
  /\ dec[s] = "read"
  /\ pipeline = <<>>
  /\ input_finished
  /\ dec' = [dec EXCEPT ![s] = "end"]
  /\ UNCHANGED <<uiVars, startRecord, recVars, asrVars, bufferQueue, pipeline,
                 input_finished, decode_thread_done, decoded, timed, due>>

\* Mutant: the thread returns without telling anybody.
Mut_DecodeEndsSilently(s) ==
  /\ dec[s] = "end"
  /\ dec' = [dec EXCEPT ![s] = "done"]
  /\ timed' = timed \o decoded
  /\ decoded' = <<>>
  /\ UNCHANGED <<uiVars, startRecord, recVars, asrVars, bufferQueue, pipeline,
                 input_finished, decode_thread_done, due>>

DecodeDone(s) ==
  /\ dec[s] = "end"
  /\ dec' = [dec EXCEPT ![s] = "done"]
  /\ timed' = timed \o decoded
  /\ decoded' = <<>>
  /\ decode_thread_done' = TRUE
  /\ UNCHANGED <<uiVars, startRecord, recVars, asrVars, bufferQueue, pipeline,
                 input_finished, due>>

Decoder(s) == Decode(s) \/ DecodeEnd(s) \/ DecodeDone(s)

--------------------------------------------------------------------------------
Next ==
  \/ PressRecord \/ PressStop \/ PressPlay \/ FinishInput \/ RunPosted
  \/ \E s \in Session : Recorder(s) \/ Asr(s) \/ Decoder(s)

(***************************************************************************)
(* Fairness: the operating system runs every thread that can run, and the  *)
(* UI thread finishes its handlers and runs what is posted.  The user need *)
(* not press anything.                                                     *)
(***************************************************************************)
Fairness ==
  /\ WF_vars(FinishInput) /\ WF_vars(RunPosted)
  /\ \A s \in Session :
       WF_vars(Recorder(s)) /\ WF_vars(Asr(s)) /\ WF_vars(Decoder(s))

Spec == Init /\ [][Next]_vars
FairSpec == Spec /\ Fairness

--------------------------------------------------------------------------------
Threads == {"off", "init", "begin", "failed", "loop", "read", "put", "button",
            "post", "release", "start", "test", "take", "accept", "flush", "poll",
            "save", "end", "done"}

FlagsTyped ==
  /\ ui \in {"idle", "stopping", "playing"}
  /\ startRecord \in BOOLEAN /\ enabled \in BOOLEAN /\ useVad \in BOOLEAN
  /\ input_finished \in BOOLEAN /\ decode_thread_done \in BOOLEAN

ThreadsTyped ==
  /\ posted \in 0..MaxPosted
  /\ session \in 0..MaxSessions /\ record \in 0..MaxSessions
  /\ rec \in [Session -> Threads]
  /\ asr \in [Session -> Threads]
  /\ dec \in [Session -> Threads]

BuffersTyped ==
  /\ recHand \in [Session -> Seq(Chunk)]
  /\ asrHand \in [Session -> Seq(Chunk)]
  /\ captured \in [Session -> Seq(Chunk)]
  /\ bufferQueue \in Seq(Chunk) /\ Len(bufferQueue) <= QueueCapacity
  /\ pipeline \in Seq(Chunk) /\ decoded \in Seq(Chunk) /\ timed \in Seq(Chunk)
  /\ held \in Seq(Chunk)

TypeOK == FlagsTyped /\ ThreadsTyped /\ BuffersTyped

\* In a first session, every buffer the recorder read is in exactly one place
\* between the microphone and the result, in the order it was read: the queue, the
\* hands of the two threads, the speech detector, the pipeline and the decode
\* thread lose nothing by themselves.
Conserved ==
  session = 1 =>
    timed \o decoded \o pipeline \o held \o asrHand[1] \o bufferQueue \o recHand[1]
      = captured[1]

\* set_input_finished's CHECK(!input_finished_) (feature_pipeline.cc:59) never
\* aborts the app: whichever of Stop and Play ends a session, and however sessions
\* overlap, there is one call per reset.
FinishNeverAborts == ui # "idle" => ~input_finished

\* The inductive invariant behind the two: a thread holds a buffer only between the
\* steps that take and pass it on; threads exist for sessions that were started; the
\* detector holds nothing when it is off or just reset; and before the first session
\* there is nothing anywhere.
Hands ==
  \A s \in Session :
    /\ Len(recHand[s]) <= 1
    /\ rec[s] # "put" => recHand[s] = <<>>
    /\ asr[s] # "accept" => asrHand[s] = <<>>
    /\ session < s => rec[s] = "off" /\ asr[s] = "off" /\ dec[s] = "off"

Detector ==
  /\ ~useVad => held = <<>>
  /\ session = 1 /\ asr[1] = "start" => held = <<>>

BeforeFirst ==
  session = 0 =>
    /\ bufferQueue = <<>> /\ held = <<>> /\ pipeline = <<>> /\ decoded = <<>>
    /\ timed = <<>>
    /\ \A s \in Session : captured[s] = <<>>

Recording == startRecord => ui = "idle" /\ ~input_finished

IInv ==
  /\ TypeOK /\ Hands /\ Detector /\ BeforeFirst
  /\ Recording /\ FinishNeverAborts /\ Conserved

\* The result of a session that was alone holds everything that had been accepted
\* when the input was finished, and goes on in order from there: the ASR thread
\* does not save before the decode thread has appended its last words.
SavedCoversAccepted ==
  session = 1 /\ saved[1].saved =>
    LET text == saved[1].text
    IN /\ Len(text) >= Len(due)
       /\ SubSeq(text, 1, Len(due)) = due
       /\ SubSeq(captured[1], 1, Len(text)) = text

\* The inductive invariant behind it: what was due is at the front of what the
\* decoder has and will get; at the end of the decode thread it is at the front of
\* timed_result_json; and nobody saves before decode_thread_done.
StartsWith(t, s) == Len(s) <= Len(t) /\ \A i \in 1..Len(s) : t[i] = s[i]

ResultTyped ==
  /\ due \in Seq(Chunk)
  /\ saved \in [Session -> [saved : BOOLEAN, text : Seq(Chunk)]]
  /\ session = 0 => \A s \in Session : ~saved[s].saved

DueIsAhead ==
  session = 1 =>
    /\ ~input_finished => due = <<>>
    /\ StartsWith(timed \o decoded \o pipeline, due)
    /\ dec[1] \in {"end", "done"} => input_finished /\ StartsWith(timed \o decoded, due)
    /\ dec[1] = "done" => decoded = <<>>
    /\ decode_thread_done => dec[1] = "done"

SavedAfterAll ==
  session = 1 =>
    /\ asr[1] = "save" => decode_thread_done
    /\ saved[1].saved => /\ decode_thread_done
                         /\ StartsWith(saved[1].text, due)
                         /\ StartsWith(captured[1], saved[1].text)

ResultInv == ResultTyped /\ DueIsAhead /\ SavedAfterAll

\* feature_pipeline.h:112: "Never call AcceptWaveform() after calling
\* set_input_finished() !"
\* TLC refutes it: see the README, "Findings".
NeverAcceptAfterFinish ==
  [][Len(pipeline') > Len(pipeline) => ~input_finished]_pipeline

\* An ASR thread in take() with nothing queued, and no recorder to queue anything.
StuckInTake(s) ==
  /\ asr[s] = "take"
  /\ bufferQueue = <<>>
  /\ rec[s] = "done"

\* README.md:54 of the Android app: after Stop the result is saved to result.json.
\* TLC refutes it: see the README, "Findings".
StopSaves == \A s \in Session :
  (ui = "stopping" /\ session = s) ~> saved[s].saved

\* The only way a stopped session can fail to be saved is the ASR thread having
\* entered take() before Stop while the recorder leaves without another buffer.
StopSavesUnlessStuck == \A s \in Session :
  (ui # "idle" /\ session = s) ~> (saved[s].saved \/ StuckInTake(s))
================================================================================
