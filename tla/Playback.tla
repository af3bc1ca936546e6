-------------------------------- MODULE Playback -------------------------------
(***************************************************************************)
(* OggStreamPlayer.java under PlaybackController.java: the UI thread, the  *)
(* decoder thread and the player thread around pcmQueue, the volatile      *)
(* flags and the pending seek they share.  MediaExtractor, MediaCodec and  *)
(* AudioTrack are external: a file of chunks, a FIFO, and a count.         *)
(*                                                                         *)
(* A position is the number of chunks before it; chunk p follows position  *)
(* p - 1.  One step is an access to a shared field, a queue operation, or  *)
(* a run of accesses between which nothing can tell a difference.          *)
(***************************************************************************)
EXTENDS Integers, Sequences

CONSTANTS Chunks,          \* decoded chunks of the recording
          QUEUE_CAPACITY,
          SeekTargets      \* bound: positions the user seeks to

ASSUME PlaybackAssumption == /\ Chunks \in Nat \ {0} /\ QUEUE_CAPACITY \in Nat \ {0}
                             /\ SeekTargets \subseteq 0..Chunks

EOF_SENTINEL == 0
None == -1

VARIABLES
  ui, then,                       \* the UI thread in a call, and what seekTo does next
  playing, positionMs, posted,    \* PlaybackController; onPlaybackComplete to be run
  active, paused, seekTargetUs, needsReinit, pcmQueue,
  playbackStartMs, head,          \* where playback began, chunks the track got since
  dec, seekUs, out, interrupted,  \* decoder thread
  extractor, codec, inputDone, released,
  player, chunk,                  \* player thread
  lastWritten, sinceJump,         \* history: last chunk written; how many since a jump?
  mishap                          \* history: an end reported after a restart, a sentinel cleared

uiVars == <<ui, then, playing, positionMs>>
decVars == <<dec, seekUs, out, extractor, codec, inputDone>>
playVars == <<player, chunk>>
trackVars == <<playbackStartMs, head, lastWritten>>
history == <<lastWritten, sinceJump, mishap>>
vars == <<uiVars, posted, active, paused, seekTargetUs, needsReinit, pcmQueue, trackVars,
          decVars, interrupted, released, playVars, sinceJump, mishap>>

\* A player that has been prepared.
Init ==
  /\ ui = "idle" /\ then = "none"
  /\ playing = FALSE /\ positionMs = 0 /\ posted = FALSE
  /\ active = FALSE /\ paused = FALSE /\ seekTargetUs = None /\ needsReinit = FALSE
  /\ pcmQueue = <<>>
  /\ playbackStartMs = 0 /\ head = 0
  /\ dec = "none" /\ seekUs = None /\ out = 0 /\ interrupted = FALSE
  /\ extractor = 0 /\ codec = <<>> /\ inputDone = FALSE /\ released = FALSE
  /\ player = "none" /\ chunk = 0
  /\ lastWritten = 0 /\ sinceJump = 0 /\ mishap = "none"

getCurrentPositionMs == playbackStartMs + head
InFile(p) == IF p < Chunks THEN p ELSE Chunks

--------------------------------------------------------------------------------
(***************************************************************************)
(* UI thread: PlaybackController, and pause, resume, start and release.    *)
(***************************************************************************)

\* The Play button, or a seek of a player that is not playing followed by it.
Resume ==
  /\ ui = "idle" /\ ~playing
  /\ playing' = TRUE
  /\ ui' = "resume"
  /\ positionMs' \in {positionMs} \cup SeekTargets
  /\ mishap' = "none"
  /\ UNCHANGED <<then, posted, active, paused, seekTargetUs, needsReinit, pcmQueue,
                 trackVars, decVars, interrupted, released, playVars, sinceJump>>

\* The Pause button, and a seek while playing, which pauses, moves and resumes.
Pause ==
  /\ ui = "idle" /\ playing
  /\ paused' = TRUE
  /\ ui' = "pause"
  /\ then' \in {"none", "seek"}
  /\ mishap' = "none"
  /\ UNCHANGED <<playing, positionMs, posted, active, seekTargetUs, needsReinit, pcmQueue,
                 trackVars, decVars, interrupted, released, playVars, sinceJump>>

\* Mutant: the flag is cleared with the queue.
Mut_PauseEnds ==
  /\ ui = "pause"
  /\ head' = 0 /\ then' = "none" /\ paused' = FALSE
  /\ pcmQueue' = <<>>
  /\ sinceJump' = 0 /\ lastWritten' = 0
  /\ IF then = "seek"
     THEN /\ positionMs' \in SeekTargets /\ ui' = "resume" /\ UNCHANGED playing
     ELSE /\ positionMs' = getCurrentPositionMs /\ ui' = "idle" /\ playing' = FALSE
  /\ UNCHANGED <<mishap, posted, active, seekTargetUs, needsReinit, playbackStartMs,
                 decVars, interrupted, released, playVars>>

PauseFlush ==
  /\ ui = "pause"
  /\ head' = 0 /\ then' = "none"
  /\ pcmQueue' = <<>>
  /\ sinceJump' = 0 /\ lastWritten' = 0
  /\ IF then = "seek"
     THEN /\ positionMs' \in SeekTargets /\ ui' = "resume" /\ UNCHANGED playing
     ELSE /\ positionMs' = getCurrentPositionMs /\ ui' = "idle" /\ playing' = FALSE
  /\ UNCHANGED <<mishap, posted, active, paused, seekTargetUs, needsReinit, playbackStartMs,
                 decVars, interrupted, released, playVars>>

\* OggStreamPlayer.resume of a player that is not active: start.
Start ==
  /\ ui = "resume" /\ ~active
  /\ active' = TRUE /\ paused' = FALSE
  /\ needsReinit' = FALSE
  /\ pcmQueue' = <<>>
  /\ playbackStartMs' = positionMs /\ head' = 0
  /\ extractor' = InFile(positionMs) /\ codec' = <<>> /\ inputDone' = FALSE
  /\ dec' = "loop" /\ player' = "take"
  /\ sinceJump' = 0 /\ lastWritten' = 0
  /\ ui' = "idle"
  /\ UNCHANGED <<mishap, then, playing, positionMs, posted, seekTargetUs, seekUs, out,
                 interrupted, released, chunk>>

\* The file cannot be opened again: the old codec is gone, and threads are not started.
StartFails ==
  /\ ui = "resume" /\ ~active /\ needsReinit
  /\ paused' = FALSE /\ needsReinit' = FALSE /\ released' = TRUE
  /\ playbackStartMs' = positionMs
  /\ pcmQueue' = <<>>
  /\ ui' = "idle"
  /\ UNCHANGED <<mishap, then, playing, positionMs, posted, active, seekTargetUs, head,
                 lastWritten, decVars, interrupted, playVars, sinceJump>>

\* ... and of one that is: the seek is left to the decoder thread, ...
ResumeClear ==
  /\ ui = "resume" /\ active
  /\ pcmQueue' = <<>>
  /\ playbackStartMs' = positionMs
  /\ seekTargetUs' = positionMs
  /\ sinceJump' = 0 /\ lastWritten' = 0
  /\ ui' = "play"
  /\ UNCHANGED <<mishap, then, playing, positionMs, posted, active, paused, needsReinit, head,
                 decVars, interrupted, released, playVars>>

\* ... and the threads go on.
ResumePlay ==
  /\ ui = "play"
  /\ head' = 0
  /\ paused' = FALSE
  /\ ui' = "idle"
  /\ UNCHANGED <<mishap, then, playing, positionMs, posted, active, seekTargetUs, needsReinit,
                 pcmQueue, playbackStartMs, lastWritten, decVars, interrupted, released,
                 playVars, sinceJump>>

OnPlaybackComplete ==
  /\ ui = "idle" /\ posted
  /\ mishap' = IF active THEN "late end" ELSE "none"
  /\ posted' = FALSE
  /\ playing' = FALSE
  /\ positionMs' = 0
  /\ UNCHANGED <<ui, then, active, paused, seekTargetUs, needsReinit, pcmQueue, trackVars,
                 decVars, interrupted, released, playVars, sinceJump>>

\* Mutant: nothing is put for the player thread.
Mut_NoSentinel ==
  /\ ui = "idle"
  /\ active' = FALSE /\ paused' = FALSE
  /\ pcmQueue' = <<>>
  /\ interrupted' = (dec \notin {"none", "exit"})
  /\ playing' = FALSE
  /\ sinceJump' = 0 /\ lastWritten' = 0
  /\ ui' = "release"
  /\ UNCHANGED <<mishap, then, positionMs, posted, seekTargetUs, needsReinit, playbackStartMs, head, decVars,
                 released, playVars>>

\* release: tells both threads, waits for the player thread, but not for ever, ...
Release ==
  /\ ui = "idle"
  /\ active' = FALSE /\ paused' = FALSE
  /\ pcmQueue' = <<EOF_SENTINEL>>
  /\ interrupted' = (dec \notin {"none", "exit"})
  /\ playing' = FALSE
  /\ sinceJump' = 0 /\ lastWritten' = 0
  /\ ui' = "release"
  /\ UNCHANGED <<mishap, then, positionMs, posted, seekTargetUs, needsReinit, playbackStartMs, head, decVars,
                 released, playVars>>

\* ... and releases codec and extractor, whatever the decoder thread does.
ReleaseCodec ==
  /\ ui = "release"
  /\ released' = TRUE
  /\ ui' = "released"
  /\ UNCHANGED <<mishap, then, playing, positionMs, posted, active, paused, seekTargetUs,
                 needsReinit, pcmQueue, trackVars, decVars, interrupted, playVars, sinceJump>>

--------------------------------------------------------------------------------
(***************************************************************************)
(* Decoder thread, runDecoder.                                             *)
(***************************************************************************)
decRest == <<uiVars, posted, active, paused, needsReinit, playbackStartMs, head,
             released, playVars>>

\* A paused decoder sleeps, until it is interrupted, and tests again.
PausedOr(next) ==
  /\ dec' = IF ~paused THEN next ELSE IF interrupted THEN "eof" ELSE "loop"
  /\ interrupted' = (interrupted /\ ~paused)

\* The loop's condition, and the pending seek: read ...
DecoderLoop ==
  /\ dec = "loop"
  /\ seekUs' = IF active THEN seekTargetUs ELSE None
  /\ IF ~active THEN dec' = "eof" /\ UNCHANGED interrupted
     ELSE IF seekUs' # None THEN dec' = "seek" /\ UNCHANGED interrupted
     ELSE PausedOr("codec")
  /\ UNCHANGED <<out, extractor, codec, inputDone, seekTargetUs, pcmQueue,
                 history, decRest>>

\* Mutant: the codec is not flushed.
Mut_NoFlush ==
  /\ dec = "seek"
  /\ seekTargetUs' = None
  /\ IF released THEN dec' = "crashed" /\ UNCHANGED <<extractor, codec, inputDone>>
     ELSE /\ extractor' = InFile(seekUs) /\ inputDone' = FALSE
          /\ dec' = "clear" /\ UNCHANGED codec
  /\ UNCHANGED <<seekUs, out, interrupted, pcmQueue, history, decRest>>

\* ... and then served.  Codec and extractor that were released throw.
Crash == dec' = "crashed" /\ UNCHANGED <<extractor, codec, inputDone>>

DecoderSeek ==
  /\ dec = "seek"
  /\ seekTargetUs' = None
  /\ IF released THEN Crash
     ELSE /\ extractor' = InFile(seekUs) /\ codec' = <<>> /\ inputDone' = FALSE
          /\ dec' = "clear"
  /\ UNCHANGED <<seekUs, out, interrupted, pcmQueue, history, decRest>>

DecoderClear ==
  /\ dec = "clear"
  /\ pcmQueue' = <<>>
  /\ mishap' = IF ui \in {"release", "released"} THEN "sentinel" ELSE mishap
  /\ sinceJump' = 0 /\ lastWritten' = 0
  /\ PausedOr("codec")
  /\ seekUs' = None
  /\ UNCHANGED <<out, extractor, codec, inputDone, seekTargetUs, decRest>>

\* Feed and drain: the codec may keep what it is fed until later, or return a chunk of it.
End == Chunks + 1
Fed == IF inputDone THEN codec ELSE Append(codec, extractor + 1)

\* Mutant: the flag of the end is tested before the data that comes with it.
Mut_EndBeforeData ==
  /\ dec = "codec"
  /\ IF released THEN Crash /\ UNCHANGED out
     ELSE /\ inputDone' = (inputDone \/ extractor = Chunks)
          /\ extractor' = IF inputDone' THEN extractor ELSE extractor + 1
          /\ \/ /\ Len(Fed) < 2 /\ ~inputDone'
                /\ codec' = Fed /\ dec' = "loop" /\ UNCHANGED out
             \/ /\ codec' = Tail(Fed)
                /\ IF Head(Fed) >= Chunks THEN dec' = "eof" /\ UNCHANGED out
                   ELSE dec' = "put" /\ out' = Head(Fed)
  /\ UNCHANGED <<seekUs, interrupted, seekTargetUs, pcmQueue, history, decRest>>

DecoderCodec ==
  /\ dec = "codec"
  /\ IF released THEN Crash /\ UNCHANGED out
     ELSE /\ inputDone' = (inputDone \/ extractor = Chunks)
          /\ extractor' = IF inputDone' THEN extractor ELSE extractor + 1
          /\ \/ /\ Len(Fed) < 2 /\ ~inputDone'
                /\ codec' = Fed /\ dec' = "loop" /\ UNCHANGED out
             \/ /\ codec' = Tail(Fed)
                /\ IF Head(Fed) = End THEN dec' = "eof" /\ UNCHANGED out
                   ELSE dec' = "put" /\ out' = Head(Fed)
  /\ UNCHANGED <<seekUs, interrupted, seekTargetUs, pcmQueue, history, decRest>>

\* Mutant: the queue has no capacity.
Mut_PutUnbounded ==
  /\ dec = "put"
  /\ IF interrupted
     THEN dec' = "eof" /\ interrupted' = FALSE /\ UNCHANGED pcmQueue
     ELSE /\ pcmQueue' = Append(pcmQueue, out)
          /\ dec' = "loop" /\ UNCHANGED interrupted
  /\ out' = 0
  /\ UNCHANGED <<seekUs, extractor, codec, inputDone, seekTargetUs, history, decRest>>

\* pcmQueue.put, which blocks while the queue is full and an interrupt ends.
DecoderPut ==
  /\ dec = "put"
  /\ IF interrupted
     THEN dec' = "eof" /\ interrupted' = FALSE /\ UNCHANGED pcmQueue
     ELSE /\ Len(pcmQueue) < QUEUE_CAPACITY
          /\ pcmQueue' = Append(pcmQueue, out)
          /\ dec' = "loop" /\ UNCHANGED interrupted
  /\ out' = 0
  /\ UNCHANGED <<seekUs, extractor, codec, inputDone, seekTargetUs, history, decRest>>

DecoderEof ==
  /\ dec = "eof"
  /\ interrupted' = FALSE
  /\ IF interrupted THEN UNCHANGED pcmQueue
     ELSE /\ Len(pcmQueue) < QUEUE_CAPACITY
          /\ pcmQueue' = Append(pcmQueue, EOF_SENTINEL)
  /\ dec' = "exit"
  /\ UNCHANGED <<seekUs, out, extractor, codec, inputDone, seekTargetUs, history, decRest>>

DecoderThread == \/ DecoderLoop \/ DecoderSeek \/ DecoderClear
                 \/ DecoderCodec \/ DecoderPut \/ DecoderEof

--------------------------------------------------------------------------------
(***************************************************************************)
(* Player thread, runPlayer.                                               *)
(***************************************************************************)
playRest == <<uiVars, mishap, paused, seekTargetUs, decVars, interrupted, released>>

\* The loop, with its test of active, and take.
Again == player' = IF active THEN "take" ELSE "exit"

PlayerTake ==
  /\ player = "take" /\ pcmQueue # <<>>
  /\ chunk' = Head(pcmQueue)
  /\ pcmQueue' = Tail(pcmQueue)
  /\ player' = IF chunk' = EOF_SENTINEL THEN "complete" ELSE "chunk"
  /\ UNCHANGED <<posted, active, needsReinit, trackVars, sinceJump, playRest>>

\* Mutant: nobody is told.
Mut_NotReported ==
  /\ player = "complete"
  /\ needsReinit' = TRUE /\ active' = FALSE
  /\ UNCHANGED posted
  /\ player' = "exit"
  /\ UNCHANGED <<chunk, pcmQueue, trackVars, sinceJump, playRest>>

PlayerComplete ==
  /\ player = "complete"
  /\ needsReinit' = TRUE /\ active' = FALSE
  /\ posted' = TRUE
  /\ player' = "exit"
  /\ UNCHANGED <<chunk, pcmQueue, trackVars, sinceJump, playRest>>

\* The write loop tests active and paused, and then writes.
PlayerTest ==
  /\ player = "chunk"
  /\ IF active /\ ~paused THEN player' = "write" /\ UNCHANGED chunk
     ELSE Again /\ chunk' = 0
  /\ UNCHANGED <<posted, active, needsReinit, pcmQueue, trackVars, sinceJump, playRest>>

PlayerWrite ==
  /\ player = "write"
  /\ head' = head + 1
  /\ lastWritten' = chunk /\ chunk' = 0
  /\ sinceJump' = IF sinceJump < 2 THEN sinceJump + 1 ELSE 2
  /\ Again
  /\ UNCHANGED <<posted, active, needsReinit, pcmQueue, playbackStartMs, playRest>>

PlayerThread == PlayerTake \/ PlayerComplete \/ PlayerTest \/ PlayerWrite

--------------------------------------------------------------------------------
UiGoesOn == \/ PauseFlush \/ Start \/ StartFails \/ ResumeClear \/ ResumePlay \/ ReleaseCodec
            \/ OnPlaybackComplete
\* An exception on the decoder thread ends the app.
Next == /\ dec # "crashed"
        /\ UiGoesOn \/ Resume \/ Pause \/ Release \/ DecoderThread \/ PlayerThread
Spec == Init /\ [][Next]_vars

\* The UI thread ends its calls and runs what was posted; nobody need press a button.
FairSpec == /\ Spec
            /\ WF_vars(dec # "crashed" /\ UiGoesOn)
            /\ WF_vars(DecoderThread)
            /\ WF_vars(dec # "crashed" /\ PlayerThread)

--------------------------------------------------------------------------------
TypeOK ==
  /\ ui \in {"idle", "pause", "resume", "play", "release", "released"}
  /\ then \in {"none", "seek"} /\ playing \in BOOLEAN /\ posted \in BOOLEAN
  /\ active \in BOOLEAN /\ paused \in BOOLEAN /\ needsReinit \in BOOLEAN
  /\ seekTargetUs \in {None} \cup Nat /\ positionMs \in Nat
  /\ pcmQueue \in Seq(0..Chunks) /\ Len(pcmQueue) <= QUEUE_CAPACITY /\ chunk \in 0..Chunks
  /\ dec \in {"none", "loop", "seek", "clear", "codec", "put", "eof", "exit", "crashed"}
  /\ player \in {"none", "take", "complete", "chunk", "write", "exit"}
  /\ extractor \in 0..Chunks /\ Len(codec) <= 1 /\ head \in Nat /\ playbackStartMs \in Nat

\* What is heard is the recording without a gap or a repetition; after a start, a pause or
\* a seek, at most the one chunk the threads had in hands is heard out of place.
HeardInOrder ==
  player = "write" /\ player' # "write" /\ sinceJump = 2 => chunk = lastWritten + 1

\* The end is reported when the last chunk has been heard, unless nothing has been since
\* the last jump but the chunk out of place, or a pause has yet to clear the queue, which
\* the player thread empties meanwhile.
CompleteMeansHeard ==
  posted' /\ ~posted /\ sinceJump = 2 /\ ui # "pause" => lastWritten = Chunks

\* The order of what is heard, and the end with it.
HeardToTheEnd == [][HeardInOrder /\ CompleteMeansHeard]_vars

\* Nothing is heard while the button says Play, unless a seek has restarted the player
\* between its end and the callback that reports it.
ButtonAgrees == (ui = "idle" /\ ~playing) => (paused \/ ~active \/ mishap = "late end")

\* The button and the bounded queue agree with the threads (PlaybackController.playing,
\* pcmQueue).
ShownIsHeard == TypeOK /\ ButtonAgrees

--------------------------------------------------------------------------------
\* A player that is being released only comes to its end.
Releasing == ui \in {"release", "released"}
ReleaseInv ==
  Releasing => /\ ~active
               /\ sinceJump = 0 \/ (sinceJump = 1 /\ player = "exit")

\* The next chunk out of the codec, and what the decoder thread puts next; End stands for
\* the sentinel.
FromCodec == IF codec = <<>> THEN extractor + 1 ELSE codec[1]
Ahead == IF dec = "put" THEN out
         ELSE IF dec = "eof" THEN End
         ELSE IF dec = "exit" THEN End + 1 ELSE FromCodec

DecoderInv ==
  /\ seekUs \in {None} \cup Nat /\ (dec = "seek" => seekUs # None)
  /\ extractor \in 0..Chunks /\ inputDone \in BOOLEAN
  /\ inputDone => extractor = Chunks
  /\ codec \in {<<>>, <<IF inputDone THEN End ELSE extractor>>}
  /\ ~inputDone /\ codec # <<>> => extractor > 0
  /\ inputDone /\ dec \in {"loop", "seek", "clear", "codec", "put"} => codec # <<>>
  /\ dec = "put" => out \in 1..Chunks /\ out + 1 = FromCodec

\* The queue holds consecutive chunks, up to the one that comes next; only a seek that is
\* served changes that, until the queue is cleared.
Number(c) == IF c = EOF_SENTINEL THEN End ELSE c
QueueInv ==
  ~Releasing =>
    /\ \A i \in 1..(Len(pcmQueue) - 1) : Number(pcmQueue[i + 1]) = Number(pcmQueue[i]) + 1
    /\ pcmQueue # <<>> /\ dec # "clear" => Number(pcmQueue[Len(pcmQueue)]) + 1 = Ahead
    /\ \A i \in DOMAIN pcmQueue : pcmQueue[i] = EOF_SENTINEL => dec = "exit"
    /\ ~interrupted

\* Both threads of a player that is not active have ended, or were never started.
ActiveInv ==
  ~Releasing => /\ ~active => player \in {"none", "exit"} /\ dec \in {"none", "exit", "crashed"}
                /\ player = "complete" => dec = "exit"

\* What the player thread takes next, if it can be told.
Upcoming == IF pcmQueue = <<>> THEN Ahead ELSE Number(pcmQueue[1])
Known == dec # "clear" \/ pcmQueue # <<>>

\* The chunk in hand is followed by what is taken next, unless it is older than the last
\* jump, and follows the one written last.
PlayerInv ==
  /\ sinceJump \in 0..2 /\ lastWritten \in 0..Chunks
  /\ player \in {"chunk", "write"} => chunk \in 1..Chunks
  /\ ~Releasing =>
       /\ player \in {"chunk", "write"} /\ sinceJump >= 1 /\ Known => Upcoming = chunk + 1
       /\ sinceJump = 2 /\ (player = "write" \/ (player = "chunk" /\ ui # "pause")) =>
            chunk = lastWritten + 1
       /\ sinceJump = 2 /\ player = "take" /\ ui # "pause" /\ Known =>
            Upcoming = lastWritten + 1
       /\ sinceJump = 2 /\ player = "complete" /\ ui # "pause" => lastWritten = Chunks
       /\ paused /\ ui # "pause" => sinceJump = 0 \/ (sinceJump = 1 /\ player # "write")

ButtonInv ==
  /\ ui = "pause" => paused
  /\ ui \in {"pause", "resume", "play"} => playing

PlaybackInv == /\ TypeOK /\ ButtonAgrees /\ ButtonInv /\ ReleaseInv /\ DecoderInv /\ QueueInv
               /\ ActiveInv /\ PlayerInv

\* The player thread waits for what no thread is left to put, or nothing was started.
Stuck == player = "take" /\ pcmQueue = <<>> /\ dec = "exit"
NotStarted == ~active /\ released

\* Who plays comes to the end, or does something else first, unless the player is stuck.
PlaysOrIsStuck == []<>(~playing \/ ui # "idle" \/ Stuck \/ NotStarted \/ dec = "crashed")

\* The threads of a player that is released end, the decoder thread perhaps with an
\* exception, unless the decoder, serving a seek, has cleared the sentinel that release put
\* for the player thread.
ReleaseEndsThreads ==
  (ui = "released") ~> (\/ dec = "crashed"
                        \/ Stuck /\ mishap = "sentinel"
                        \/ dec \in {"none", "exit"} /\ player \in {"none", "exit"})

\* What is played comes to its end, and so do the threads (pause, seekTo, release).
PlayingGoesOn == PlaysOrIsStuck /\ ReleaseEndsThreads

\* android/README.md:37: a word that is touched is moved to and played.
\* TLC refutes it: see the README, "Findings".
TouchedWordPlays == []<>(~playing \/ ui # "idle" \/ NotStarted \/ dec = "crashed")
================================================================================
