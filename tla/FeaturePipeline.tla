---------------------------- MODULE FeaturePipeline ----------------------------
(***************************************************************************)
(* core/frontend/feature_pipeline.{h,cc} over core/utils/blocking_queue.h. *)
(* A writer thread feeds audio with AcceptWaveform and ends it with        *)
(* set_input_finished; a reader thread (the decoder) takes frames with     *)
(* Read.  Steps are as fine as the locks: one step per critical section of *)
(* the queue's own mutex, and the pipeline's mutex_ and finish_condition_  *)
(* are modelled explicitly, because AcceptWaveform notifies without        *)
(* holding mutex_.                                                         *)
(*                                                                         *)
(* A sample is its position in the audio fed so far, and a frame is the    *)
(* window of samples it was computed from.                                 *)
(***************************************************************************)
EXTENDS Integers, Sequences

CONSTANTS FrameLength,  \* samples in a frame           (config frame_length)
          FrameShift,   \* samples between two frames   (config frame_shift)
          ChunkSizes,   \* sizes AcceptWaveform is called with
          ReadSizes,    \* numbers of frames Read is called with
          MaxSamples,   \* bound: samples fed in a behaviour
          MaxResets     \* bound: calls of Reset in a behaviour

ASSUME FramingAssumption ==
  /\ FrameShift \in Nat \ {0}
  /\ FrameLength \in Nat
  /\ FrameLength >= FrameShift

ASSUME SizesAssumption ==
  /\ ChunkSizes \subseteq Nat
  /\ ReadSizes \subseteq Nat \ {0}
  /\ MaxSamples \in Nat
  /\ MaxResets \in Nat

Frame == [1..FrameLength -> Nat]

VARIABLES
  feature_queue,    \* frames extracted and not yet popped
  remained_wav,     \* samples kept for the next AcceptWaveform
  num_frames,       \* frames extracted in this utterance
  input_finished,
  mutex,            \* who holds mutex_: "free", "reader" or "writer"
  wpc,              \* where the writer is
  rpc,              \* where the reader is
  want,             \* the reader's num_frames argument
  count,            \* the argument of the Pop the reader is about to make
  accepted,         \* samples fed since the program started
  resets,           \* calls of Reset so far
  origin,           \* history: samples fed before this utterance
  produced,         \* history: frames extracted in this utterance
  delivered,        \* history: frames Read has returned in this utterance
  ended             \* history: Read has returned false in this utterance

pipe    == <<feature_queue, remained_wav, num_frames, input_finished>>
history == <<accepted, resets, origin, produced, delivered, ended>>
vars    == <<pipe, mutex, wpc, rpc, want, count, history>>

--------------------------------------------------------------------------------
(***************************************************************************)
(* Framing: how many frames Fbank::Compute cuts out of n samples, and the  *)
(* k-th of them (from 0).                                                  *)
(***************************************************************************)
NumFrames(n) ==
  IF n < FrameLength THEN 0 ELSE 1 + ((n - FrameLength) \div FrameShift)

FrameAt(waves, k) == [i \in 1..FrameLength |-> waves[k * FrameShift + i]]

Fbank(waves) == [j \in 1..NumFrames(Len(waves)) |-> FrameAt(waves, j - 1)]

\* Mutant: keep only what no frame has touched, losing the overlap.
Mut_LeftWithoutOverlap(waves, n) == SubSeq(waves, FrameLength * n + 1, Len(waves))

\* Mutant: copy one sample too many (the range of std::copy ends late).
Mut_LeftPastEnd(waves, n) ==
  [i \in 1..(Len(waves) - FrameShift * n + 1) |-> IF FrameShift * n + i \in 1..Len(waves)
                                                  THEN waves[FrameShift * n + i] ELSE -1]

\* The samples AcceptWaveform keeps in remained_wav_ after n frames.
LeftSamples(waves, n) == SubSeq(waves, FrameShift * n + 1, Len(waves))

--------------------------------------------------------------------------------
Init ==
  /\ feature_queue = <<>>
  /\ remained_wav = <<>>
  /\ num_frames = 0
  /\ input_finished = FALSE
  /\ mutex = "free"
  /\ wpc = "idle"
  /\ rpc = "idle"
  /\ want = 0
  /\ count = 0
  /\ accepted = 0
  /\ resets = 0
  /\ origin = 0
  /\ produced = <<>>
  /\ delivered = <<>>
  /\ ended = FALSE

--------------------------------------------------------------------------------
(***************************************************************************)
(* The writer.  AcceptWaveform(pcm, size): the frames of the kept samples  *)
(* and the new ones are pushed under the queue's lock (the queue is built  *)
(* with capacity INT_MAX, so the push never waits); num_frames_ and        *)
(* remained_wav_ belong to the writer.  The notification is a later step   *)
(* and holds no lock.  feature_pipeline.h:112 forbids the call once the    *)
(* input is finished.                                                      *)
(***************************************************************************)
AcceptWaveform(size) ==
  LET waves  == remained_wav \o [i \in 1..size |-> accepted + i]
      frames == Fbank(waves)
  IN /\ wpc = "idle"
     /\ ~input_finished
     /\ accepted + size <= MaxSamples
     /\ feature_queue' = feature_queue \o frames
     /\ num_frames' = num_frames + Len(frames)
     /\ remained_wav' = LeftSamples(waves, Len(frames))
     /\ accepted' = accepted + size
     /\ produced' = produced \o frames
     /\ wpc' = "notify"
     /\ UNCHANGED <<input_finished, mutex, rpc, want, count,
                    resets, origin, delivered, ended>>

\* set_input_finished, after its CHECK(!input_finished_): wait for mutex_.
FinishCall ==
  /\ wpc = "idle"
  /\ ~input_finished
  /\ wpc' = "finish"
  /\ UNCHANGED <<pipe, mutex, rpc, want, count, history>>

\* Mutant: input_finished_ set without taking mutex_.
Mut_SetFinishedUnlocked ==
  /\ wpc = "finish"
  /\ input_finished' = TRUE
  /\ wpc' = "notify"
  /\ UNCHANGED <<feature_queue, remained_wav, num_frames, mutex, rpc, want,
                 count, history>>

\* The block of set_input_finished that holds mutex_.
SetInputFinished ==
  /\ wpc = "finish"
  /\ mutex = "free"
  /\ input_finished' = TRUE
  /\ wpc' = "notify"
  /\ UNCHANGED <<feature_queue, remained_wav, num_frames, mutex, rpc, want,
                 count, history>>

\* finish_condition_.notify_one(): wakes the reader if it is waiting now.
NotifyOne ==
  /\ wpc = "notify"
  /\ rpc' = IF rpc = "wait" THEN "wake" ELSE rpc
  /\ wpc' = "idle"
  /\ UNCHANGED <<pipe, mutex, want, count, history>>

--------------------------------------------------------------------------------
\* Mutant: the unlocked test lets a Read start one frame short.
Mut_ReadOneShort(n) ==
  /\ rpc = "idle"
  /\ ~ended
  /\ want' = n
  /\ IF Len(feature_queue) + 1 >= n
     THEN rpc' = "pop" /\ count' = n
     ELSE rpc' = "lock" /\ UNCHANGED count
  /\ UNCHANGED <<pipe, mutex, wpc, history>>

(***************************************************************************)
(* The reader.  Read(n) first compares the queue's size with n without     *)
(* holding mutex_.                                                         *)
(***************************************************************************)
ReadCall(n) ==
  /\ rpc = "idle"
  /\ ~ended
  /\ want' = n
  /\ IF Len(feature_queue) >= n
     THEN rpc' = "pop" /\ count' = n
     ELSE rpc' = "lock" /\ UNCHANGED count
  /\ UNCHANGED <<pipe, mutex, wpc, history>>

LockMutex ==
  /\ mutex = "free"
  /\ \/ rpc = "lock" /\ rpc' = "test"      \* entering the slow path
     \/ rpc = "wake" /\ rpc' = "woken"     \* wait() returns
  /\ mutex' = "reader"
  /\ UNCHANGED <<pipe, wpc, want, count, history>>

\* while (!input_finished_)
TestFinished ==
  /\ rpc = "test"
  /\ rpc' = IF input_finished THEN "last" ELSE "sleep"
  /\ UNCHANGED <<pipe, mutex, wpc, want, count, history>>

\* Mutant: waiting without releasing mutex_.
Mut_WaitHoldsMutex ==
  /\ rpc = "sleep"
  /\ rpc' = "wait"
  /\ UNCHANGED <<pipe, mutex, wpc, want, count, history>>

\* finish_condition_.wait(lock) releases mutex_ and starts waiting in one step.
Wait ==
  /\ rpc = "sleep"
  /\ rpc' = "wait"
  /\ mutex' = "free"
  /\ UNCHANGED <<pipe, wpc, want, count, history>>

\* std::condition_variable may wake a waiter with no notification.
SpuriousWake ==
  /\ rpc = "wait"
  /\ rpc' = "wake"
  /\ UNCHANGED <<pipe, mutex, wpc, want, count, history>>

\* Mutant: no second size test once the input is finished (before issue 893).
Mut_NoSecondTest ==
  /\ rpc \in {"woken", "last"}
  /\ IF rpc = "woken" /\ Len(feature_queue) >= want
     THEN rpc' = "popLocked" /\ count' = want
     ELSE IF rpc = "woken"
          THEN rpc' = "test" /\ UNCHANGED count
          ELSE rpc' = "popRest" /\ count' = 0
  /\ UNCHANGED <<pipe, mutex, wpc, want, history>>

\* The size tests made while mutex_ is held: in the loop, and after it.
TestSize ==
  /\ rpc \in {"woken", "last"}
  /\ IF Len(feature_queue) >= want
     THEN rpc' = "popLocked" /\ count' = want
     ELSE IF rpc = "woken"
          THEN rpc' = "test" /\ UNCHANGED count
          ELSE rpc' = "popRest" /\ count' = Len(feature_queue)
  /\ UNCHANGED <<pipe, mutex, wpc, want, history>>

\* Mutant: every Read that took the slow path reports the end of the input.
Mut_SlowPathEnds ==
  /\ rpc \in {"pop", "popLocked", "popRest"}
  /\ Len(feature_queue) >= count
  /\ delivered' = delivered \o SubSeq(feature_queue, 1, count)
  /\ feature_queue' = SubSeq(feature_queue, count + 1, Len(feature_queue))
  /\ ended' = (rpc # "pop")
  /\ mutex' = IF rpc = "pop" THEN mutex ELSE "free"
  /\ rpc' = "idle"
  /\ UNCHANGED <<remained_wav, num_frames, input_finished, wpc, want, count,
                 accepted, resets, origin, produced>>

\* Pop(count), which ends the call: true for all want frames, false for the
\* rest of a finished input.  BlockingQueue::Pop would wait for missing frames,
\* holding mutex_ on the slow path: PopNeverBlocks says it does not.
Pop ==
  /\ rpc \in {"pop", "popLocked", "popRest"}
  /\ Len(feature_queue) >= count
  /\ delivered' = delivered \o SubSeq(feature_queue, 1, count)
  /\ feature_queue' = SubSeq(feature_queue, count + 1, Len(feature_queue))
  /\ ended' = (rpc = "popRest")
  /\ mutex' = IF rpc = "pop" THEN mutex ELSE "free"
  /\ rpc' = "idle"
  /\ UNCHANGED <<remained_wav, num_frames, input_finished, wpc, want, count,
                 accepted, resets, origin, produced>>

--------------------------------------------------------------------------------
\* Mutant: Reset leaves the frames of the last utterance in the queue.
Mut_ResetKeepsQueue ==
  /\ wpc = "idle" /\ rpc = "idle"
  /\ resets < MaxResets
  /\ input_finished' = FALSE
  /\ num_frames' = 0
  /\ remained_wav' = <<>>
  /\ resets' = resets + 1
  /\ origin' = accepted
  /\ produced' = <<>>
  /\ delivered' = <<>>
  /\ ended' = FALSE
  /\ UNCHANGED <<feature_queue, mutex, wpc, rpc, want, count, accepted>>

(***************************************************************************)
(* Reset(), which takes no lock: its callers (AsrDecoder::Reset, from      *)
(* WenetApi Reset and the Android reset) make no other call at that time.  *)
(***************************************************************************)
Reset ==
  /\ wpc = "idle" /\ rpc = "idle"
  /\ resets < MaxResets
  /\ input_finished' = FALSE
  /\ num_frames' = 0
  /\ remained_wav' = <<>>
  /\ feature_queue' = <<>>
  /\ resets' = resets + 1
  /\ origin' = accepted
  /\ produced' = <<>>
  /\ delivered' = <<>>
  /\ ended' = FALSE
  /\ UNCHANGED <<mutex, wpc, rpc, want, count, accepted>>

--------------------------------------------------------------------------------
WriterInCall == SetInputFinished \/ NotifyOne
Writer == (\E size \in ChunkSizes : AcceptWaveform(size)) \/ FinishCall \/ WriterInCall
Reader == (\E n \in ReadSizes : ReadCall(n))
            \/ LockMutex \/ TestFinished \/ Wait \/ TestSize \/ Pop

Next == Writer \/ Reader \/ SpuriousWake \/ Reset

(***************************************************************************)
(* Fairness: a thread inside a call keeps running, and the decode thread   *)
(* calls Read again until it returns false (DecodeThreadFunc's loop).      *)
(* Taking mutex_ is strongly fair: a thread waiting for a mutex that is    *)
(* released again and again gets it.  Nothing makes the user speak, finish *)
(* or reset, and nothing makes a wait end spuriously.                      *)
(***************************************************************************)
Fairness ==
  /\ WF_vars(Reader)
  /\ WF_vars(NotifyOne)
  /\ SF_vars(SetInputFinished)
  /\ SF_vars(LockMutex)

Spec == Init /\ [][Next]_vars
FairSpec == Spec /\ Fairness

--------------------------------------------------------------------------------
TypeOK ==
  /\ feature_queue \in Seq(Frame)
  /\ remained_wav \in Seq(Nat)
  /\ num_frames \in Nat
  /\ input_finished \in BOOLEAN
  /\ mutex \in {"free", "reader"}
  /\ wpc \in {"idle", "notify", "finish"}
  /\ rpc \in {"idle", "pop", "lock", "test", "sleep", "wait", "wake", "woken",
              "last", "popLocked", "popRest"}
  /\ want \in Nat
  /\ count \in Nat
  /\ accepted \in Nat
  /\ resets \in Nat
  /\ origin \in Nat
  /\ produced \in Seq(Frame)
  /\ delivered \in Seq(Frame)
  /\ ended \in BOOLEAN

\* Frames leave in the order they were extracted, none lost, none read twice,
\* whatever the interleaving of pushes, size tests and pops.
NothingLost == delivered \o feature_queue = produced

\* However the audio is cut into AcceptWaveform calls, and whatever an earlier
\* utterance left behind, the frames are those of the utterance's audio taken as
\* a whole: frame j is the window that starts (j-1) shifts into it.
WindowOf(j) == [i \in 1..FrameLength |-> origin + (j - 1) * FrameShift + i]
FramesAreWindows ==
  /\ \A j \in 1..Len(produced) : produced[j] = WindowOf(j)
  /\ Len(produced) = NumFrames(accepted - origin)

\* Read returns false only when every frame of the utterance has been delivered,
\* the last partial chunk included (the reason for the second size test that
\* feature_pipeline.cc:111 attributes to issue 893).
EndMeansAll == ended => /\ input_finished
                        /\ delivered = produced

\* BlockingQueue::Pop(n) is never called with fewer than n frames queued, so Read
\* never blocks inside it: on the slow path it would hold mutex_ for ever, and
\* set_input_finished with it.
PopNeverBlocks ==
  rpc \in {"pop", "popLocked", "popRest"} => Len(feature_queue) >= count

\* feature_pipeline.h:126: Read "is a blocking method when there is no feature in
\* feature_queue_": with the writer outside its calls, a reader that is asleep is
\* short of frames.
\* TLC refutes it: see the README, "Findings".
AsleepOnlyIfStarved ==
  rpc = "wait" /\ wpc = "idle" => Len(feature_queue) < want

\* Once the input is finished, a decoder that keeps calling Read is told so: the
\* notification cannot be lost between its test of input_finished_ and its wait.
FinishReachesReader == (input_finished /\ ~ended) ~> (ended \/ ~input_finished)

\* The inductive invariant behind the four invariants above.  Control: who holds
\* mutex_, and what each point of Read knows.  Framing: the kept samples are the
\* ones that follow the last frame's shift.
Control ==
  /\ mutex = "reader" <=> rpc \in {"test", "sleep", "woken", "last",
                                   "popLocked", "popRest"}
  /\ rpc # "idle" => ~ended /\ want \in ReadSizes
  /\ rpc \in {"last", "popRest"} => input_finished
  /\ rpc \in {"pop", "popLocked"} => count = want /\ want <= Len(feature_queue)
  /\ rpc = "popRest" => count = Len(feature_queue) /\ count < want

Framing ==
  /\ num_frames = Len(produced)
  /\ origin <= accepted
  /\ Len(remained_wav) = accepted - origin - FrameShift * num_frames
  /\ \A i \in 1..Len(remained_wav) :
       remained_wav[i] = origin + FrameShift * num_frames + i

IInv ==
  /\ TypeOK
  /\ NothingLost
  /\ FramesAreWindows
  /\ EndMeansAll
  /\ Control
  /\ Framing

\* The pipeline implements the abstract stream of frames.
Stream == INSTANCE FrameStream
            WITH produced <- produced, delivered <- delivered,
                 finished <- input_finished, ended <- ended
StreamSpec == Stream!Spec
================================================================================
