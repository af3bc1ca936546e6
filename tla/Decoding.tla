------------------------------- MODULE Decoding --------------------------------
(***************************************************************************)
(* The two kinds of client AsrDecoder has.                                 *)
(*   "thread": wenet.cc's decode thread, which blocks in Decode, publishes *)
(*      words at endpoints and at the end, and goes on after endpoints,    *)
(*      while other threads feed the pipeline;                             *)
(*   "api": wenet_decode, which feeds the pipeline itself and decodes      *)
(*      without blocking until it has to wait or has a final result, with  *)
(*      continuous decoding off or on.                                     *)
(***************************************************************************)
EXTENDS AsrDecoder

CONSTANTS Lengths,        \* frames that a call of AcceptWaveform makes
          MaxFrames       \* bound: frames of an utterance

\* An utterance is shorter than what a decoder that does not stream asks for at once,
\* which is the largest int (asr_model.cc:9-23): 248 days.
ASSUME ClientAssumption ==
  Lengths \subseteq Nat /\ MaxFrames \in Nat /\ MaxFrames < MaxInt

VARIABLES
  client,      \* "thread" or "api"
  continuous_decoding_,
  pc,          \* where the client is
  reply,       \* api: the result type the last call returned
  published    \* the words of all final results of the utterance

clientVars == <<client, continuous_decoding_>>
vars == <<pipelineVars, chunk_size_, decoderVars, clientVars, pc, reply, published>>

Init ==
  /\ DecoderInit
  /\ \/ client = "thread" /\ continuous_decoding_ = TRUE /\ pc = "decode"
     \/ client = "api" /\ continuous_decoding_ \in BOOLEAN /\ pc = "idle"
  /\ reply = "none"
  /\ published = <<>>

--------------------------------------------------------------------------------
(***************************************************************************)
(* Feeding: by other threads, or by the call itself.                       *)
(***************************************************************************)
Accept(n) ==
  /\ produced + n <= MaxFrames
  /\ produced' = produced + n

FeedThread ==
  /\ client = "thread"
  /\ pc # "done" /\ ~input_finished
  /\ \/ (\E n \in Lengths : Accept(n)) /\ UNCHANGED input_finished
     \/ input_finished' = TRUE /\ UNCHANGED produced
  /\ UNCHANGED <<delivered, chunk_size_, decoderVars, clientVars, pc, reply, published>>

\* wenet_decode(data, len, last), up to its loop; there is no call after the last
\* one but wenet_reset.
Call ==
  /\ client = "api"
  /\ pc = "idle" /\ ~input_finished
  /\ \E n \in Lengths \cup {0} : Accept(n)
  /\ input_finished' \in BOOLEAN
  /\ pc' = "decode"
  /\ UNCHANGED <<delivered, chunk_size_, decoderVars, clientVars, reply, published>>

--------------------------------------------------------------------------------
(***************************************************************************)
(* Decoding.                                                               *)
(***************************************************************************)
\* Does the client rescore and publish when Decode has returned s?
Publishes(s) == s = "kEndFeats" \/ (s = "kEndpoint" /\ continuous_decoding_)

\* Decode(false) with too few frames: the call returns a partial result.
Wait ==
  /\ pc = "decode"
  /\ client = "api"
  /\ WaitFeats
  /\ reply' = "partial_result"
  /\ pc' = "idle"
  /\ UNCHANGED <<clientVars, published>>

Decode ==
  /\ pc = "decode"
  /\ AdvanceDecoding
  /\ pc' = IF Publishes(state') THEN "rescore" ELSE "decode"
  /\ UNCHANGED <<clientVars, reply, published>>

Rescore ==
  /\ pc = "rescore"
  /\ Rescoring
  /\ pc' = "publish"
  /\ UNCHANGED <<clientVars, reply, published>>

\* Mutant: the loop does not end with the features.
Mut_NoBreakAtEnd ==
  /\ pc = "publish"
  /\ published' = published \o WordPieces
  /\ IF state = "kEndpoint" THEN ResetContinuousDecoding
     ELSE UNCHANGED <<pipelineVars, chunk_size_, decoderVars>>
  /\ reply' = IF client = "api" THEN "final_result" ELSE reply
  /\ pc' = IF client = "api" /\ state = "kEndpoint" THEN "idle" ELSE "decode"
  /\ UNCHANGED clientVars

\* Words go out; then the next segment, or the end.  The call of wenet_decode
\* returns in both cases.
Publish ==
  /\ pc = "publish"
  /\ published' = published \o WordPieces
  /\ IF state = "kEndpoint" THEN ResetContinuousDecoding
     ELSE UNCHANGED <<pipelineVars, chunk_size_, decoderVars>>
  /\ reply' = IF client = "api" THEN "final_result" ELSE reply
  /\ pc' = IF client = "api" THEN "idle"
           ELSE IF state = "kEndpoint" THEN "decode" ELSE "done"
  /\ UNCHANGED clientVars

\* The next utterance: wenet.cc's reset and start_decode, or wenet_reset.
NextUtterance ==
  /\ pc \in {"done", "idle"}
  /\ Reset
  /\ pc' = IF client = "thread" THEN "decode" ELSE "idle"
  /\ reply' = "none"
  /\ published' = <<>>
  /\ UNCHANGED clientVars

Next ==
  \/ FeedThread \/ Call
  \/ Wait \/ Decode \/ Rescore \/ Publish
  \/ NextUtterance

(***************************************************************************)
(* Fairness: the decode thread, and the thread inside a call, go on.       *)
(***************************************************************************)
Fairness == WF_vars(Wait \/ Decode \/ Rescore \/ Publish)

Spec == Init /\ [][Next]_vars
FairSpec == Spec /\ Fairness

--------------------------------------------------------------------------------
TypeOK ==
  /\ DecoderTypeOK
  /\ client \in {"thread", "api"} /\ continuous_decoding_ \in BOOLEAN
  /\ pc \in {"idle", "decode", "rescore", "publish", "done"}
  /\ reply \in {"none", "partial_result", "final_result"}
  /\ published \in Seq(Nat \X Nat)
  /\ produced <= MaxFrames

\* Decoding ends, and a call with last > 0 returns without continuous decoding,
\* only after every frame of the audio has been decoded (the end of the features is
\* reported by the Read that takes the rest).
EndCoversAll ==
  \/ pc = "done"
  \/ pc = "idle" /\ input_finished /\ ~continuous_decoding_
  => delivered = produced /\ reply # "partial_result"

\* From the first frame to the end that a client is told of, every frame is encoded
\* once, at the place its time says (Decode over chunks, endpoints and resets).
EveryFrameDecoded == TypeOK /\ EncodedInPlace /\ NothingUnencoded /\ EndCoversAll

\* An endpoint is reported exactly when the outputs of the segment, and of this
\* segment only, satisfy one of the three rules (ctc_endpoint.h:44-49).
EndpointsByRule ==
  LET spoken == {k \in DOMAIN outputs : ~outputs[k].blank}
      trailing == Len(outputs) - Max(spoken \cup {0})
  IN pc \in {"decode", "rescore"} /\ outputs # <<>> /\ state \in {"kEndBatch", "kEndpoint"}
     => (state = "kEndpoint"
           <=> RuleActivated(DecodedSomething(result_), trailing, Len(outputs)))

\* The words of an utterance, over all its segments, do not run backwards, do not
\* overlap and do not lie after the audio decoded so far.
WordsInOrder ==
  \A i \in DOMAIN published :
    /\ published[i][1] <= published[i][2]
    /\ i > 1 => published[i - 1][2] <= published[i][1]
    /\ published[i][2] <= num_frames_ * FrameShift

\* Every call of wenet_decode returns, and the decode thread ends once the input is
\* finished.
ClientFinishes ==
  /\ (client = "api" /\ pc = "decode") ~> pc = "idle"
  /\ (client = "thread" /\ input_finished) ~> pc = "done"

(***************************************************************************)
(* The inductive invariant behind EveryFrameDecoded, EndpointsByRule,      *)
(* WordsInOrder and ModelKeepsTheSegment.                                  *)
(***************************************************************************)
\* The features of the utterance have ended, and nothing has been reset since.
Ended == start_ /\ state = "kEndFeats"

FrameCounts ==
  /\ produced \in 0 .. MaxFrames /\ delivered \in 0 .. produced /\ input_finished \in BOOLEAN
  /\ num_frames_ = delivered /\ global_frame_offset_ \in 0 .. delivered
  /\ chunk_size_ \in ChunkSizes /\ start_ \in BOOLEAN
  /\ state \in {"kEndBatch", "kEndpoint", "kEndFeats", "kWaitFeats"}

\* Where the client is, and what the last Decode returned.
ClientInPhase ==
  /\ client \in {"thread", "api"} /\ continuous_decoding_ \in BOOLEAN
  /\ pc \in {"idle", "decode", "rescore", "publish", "done"}
  /\ client = "thread" => continuous_decoding_ /\ pc # "idle" /\ reply = "none"
  /\ client = "api" => pc # "done" /\ reply \in {"none", "partial_result", "final_result"}
  /\ pc \in {"rescore", "publish"} => start_ /\ Publishes(state)
  /\ Ended => input_finished /\ delivered = produced /\ pc # "decode"
  /\ pc = "done" => Ended
  /\ pc = "idle" /\ input_finished /\ ~continuous_decoding_ => Ended /\ reply # "partial_result"

CacheSize == 1 + right_context_ - subsampling_rate_

\* Before a segment starts there is nothing of it; then whole chunks have been read, and
\* the frames are cached that the next window begins with.
SegmentInPhase ==
  /\ outputs \in Seq(Window) /\ cached_feature_ \in Seq(Nat) /\ Len(cached_feature_) <= right_context_
  /\ ~start_ => delivered = global_frame_offset_ /\ outputs = <<>> /\ cached_feature_ = <<>>
  /\ start_ /\ ~Ended =>
       /\ chunk_size_ > 0
       /\ \E c \in 1 .. Len(outputs) : Len(outputs) = c * chunk_size_
       /\ delivered - global_frame_offset_ = Len(outputs) * subsampling_rate_ + CacheSize
       /\ cached_feature_ = [i \in 1 .. CacheSize |-> delivered - CacheSize + i - 1]

Spoken == {k \in DOMAIN outputs : ~outputs[k].blank}

\* The endpointer counts the outputs of this segment.
EndpointerCounts ==
  /\ num_frames_decoded_ \in Nat /\ num_frames_trailing_blank_ \in 0 .. num_frames_decoded_
  /\ ~Ended => /\ num_frames_decoded_ = Len(outputs)
               /\ num_frames_trailing_blank_ = Len(outputs) - Max(Spoken \cup {0})
  /\ result_ \subseteq 0 .. Len(outputs) - 1
  /\ pc \in {"idle", "decode", "rescore"} /\ outputs # <<>> /\ state \in {"kEndBatch", "kEndpoint"}
     => (state = "kEndpoint" <=> RuleActivated(DecodedSomething(result_),
                                               num_frames_trailing_blank_, Len(outputs)))

\* The columns of the cache are the last outputs, behind zeros if it is of a fixed size.
CacheHolds ==
  LET n == Len(outputs)
      size == Len(att_cache_)
  IN /\ engine \in {"onnx", "torch"} /\ num_left_chunks_ \in Int /\ att_cache_ \in Seq(Nat)
     /\ FixedCache => chunk_size_ > 0 /\ size = required_cache_size
     /\ offset_ = n + (IF FixedCache THEN size ELSE 0)
     /\ \A i \in 1 .. size :
          att_cache_[i] = IF n - size + i > 0 THEN n - size + i ELSE Zeros
     /\ ~FixedCache => size <= n
     /\ ~FixedCache /\ start_ /\ ~Ended =>
          size = IF num_left_chunks_ < 0 \/ n < required_cache_size THEN n ELSE required_cache_size

\* What is published is of the segments before, until the last one is.
PublishedBefore ==
  /\ published \in Seq(Nat \X Nat)
  /\ WordsInOrder
  /\ ~(Ended /\ pc \in {"idle", "done"}) =>
       \A i \in DOMAIN published : published[i][2] <= global_frame_offset_ * FrameShift

DecodeInv ==
  /\ FrameCounts /\ ClientInPhase /\ SegmentInPhase /\ EncodedInPlace /\ NothingUnencoded
  /\ EndpointerCounts /\ RescoresTheSegment /\ AttendsToSegment /\ CacheHolds /\ PublishedBefore
================================================================================
