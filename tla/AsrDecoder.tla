------------------------------ MODULE AsrDecoder -------------------------------
(***************************************************************************)
(* AsrDecoder: chunks of feature frames are read from the pipeline, given  *)
(* to the encoder together with the frames cached from the chunk before,   *)
(* searched, and tested for an endpoint; after an endpoint decoding goes   *)
(* on in a new segment.                                                    *)
(*                                                                         *)
(* A frame is its number in the utterance.  An encoder output is the       *)
(* window of frames it was computed from and whether blank won it.  The    *)
(* searcher is used through its contract: a hypothesis is a set of output  *)
(* indices of the segment, the times of its tokens.  The pipeline is used  *)
(* through FrameStream: frames in order, all of them before the end.       *)
(*                                                                         *)
(* What OnnxAsrModel and TorchAsrModel keep of a segment between chunks:   *)
(* the attention cache, the offset, and the outputs for rescoring.  To     *)
(* them an output is its number in the segment, from 1 on; Zeros is a      *)
(* column of the cache that Reset has filled.  The network is used through *)
(* its interface: forward_encoder_chunk attends from the new outputs to    *)
(* themselves and to the columns of the cache that the mask leaves, and    *)
(* keeps of both the last required_cache_size columns, all if that is      *)
(* negative, none if it is 0.                                              *)
(***************************************************************************)
EXTENDS Integers, Sequences, FiniteSetsExt

CONSTANTS Models   \* <<engine, num_left_chunks>> that may be configured; below 0: all

ASSUME EncoderAssumption == Models \subseteq {"onnx", "torch"} \X Int

VARIABLES
    engine, chunk_size_,
    num_left_chunks_,
    offset_,
    att_cache_,       \* the columns of the cache
    encoder_outs_,
    attended          \* history: outputs before the last chunk, and those of them it attended to

modelVars == <<engine, num_left_chunks_, offset_, att_cache_, encoder_outs_, attended>>

Zeros == 0

\* Only an ONNX encoder exported for left chunks has a cache of a fixed size.
FixedCache == engine = "onnx" /\ num_left_chunks_ > 0

required_cache_size == chunk_size_ * num_left_chunks_

\* A fixed cache is filled with zeros, which count as outputs.
ZeroCache == IF FixedCache THEN [i \in 1 .. required_cache_size |-> Zeros] ELSE <<>>

\* As Copy leaves the model: the options are those an ONNX model was exported for.
ModelInit ==
    /\ \E m \in Models : engine = m[1] /\ num_left_chunks_ = m[2]
    /\ FixedCache => chunk_size_ > 0
    /\ att_cache_ = ZeroCache
    /\ offset_ = Len(ZeroCache)
    /\ encoder_outs_ = <<>>
    /\ attended = [before |-> 0, keys |-> {}]

\* Mutant: the offset starts at 0 although the cache is full of zeros.
Mut_ZerosNotCounted ==
    /\ att_cache_' = ZeroCache
    /\ offset_' = 0
    /\ encoder_outs_' = <<>>
    /\ attended' = [before |-> 0, keys |-> {}]
    /\ UNCHANGED <<engine, num_left_chunks_>>

\* Mutant: the outputs for rescoring are kept.
Mut_OutsKept ==
    /\ att_cache_' = ZeroCache
    /\ offset_' = Len(att_cache_')
    /\ attended' = [before |-> 0, keys |-> {}]
    /\ UNCHANGED <<engine, num_left_chunks_, encoder_outs_>>

ResetModel ==
    /\ att_cache_' = ZeroCache
    /\ offset_' = Len(att_cache_')
    /\ encoder_outs_' = <<>>
    /\ attended' = [before |-> 0, keys |-> {}]
    /\ UNCHANGED <<engine, num_left_chunks_>>

\* Mutant: the zeros are taken for chunks.
Mut_ZerosShown ==
    LET chunk_idx == offset_ \div chunk_size_
    IN  IF FixedCache /\ chunk_idx < num_left_chunks_ THEN (num_left_chunks_ - chunk_idx) * chunk_size_
        ELSE 0

\* The columns of the cache that the mask hides: those of Reset, by the offset.
Masked ==
    LET chunk_idx == offset_ \div chunk_size_ - num_left_chunks_
    IN  IF FixedCache /\ chunk_idx < num_left_chunks_ THEN (num_left_chunks_ - chunk_idx) * chunk_size_
        ELSE 0

\* The encoder's new cache, given the columns it attended to.
NextCache(columns, required) ==
    IF required < 0 THEN columns
    ELSE SubSeq(columns, IF Len(columns) > required THEN Len(columns) - required + 1 ELSE 1, Len(columns))

\* ForwardEncoderFunc with n outputs; without any it is not called.
ForwardEncoder(n) ==
    LET new == [i \in 1 .. n |-> Len(encoder_outs_) + i]
    IN  IF n = 0 THEN UNCHANGED modelVars
        ELSE /\ attended' = [before |-> Len(encoder_outs_),
                             keys |-> {att_cache_[i] : i \in Masked + 1 .. Len(att_cache_)}]
             /\ att_cache_' = NextCache(att_cache_ \o new, required_cache_size)
             /\ offset_' = offset_ + n
             /\ encoder_outs_' = encoder_outs_ \o new
             /\ UNCHANGED <<engine, num_left_chunks_>>
--------------------------------------------------------------------------------
\* The encoder attends to the outputs of this segment before the chunk, to as many
\* of them as the left chunks have, and to nothing else: whatever the mask, the
\* zeros, the number of chunks so far and the endpoints before.
AttendsToSegment ==
    attended.keys = {k \in 1 .. attended.before :
                       num_left_chunks_ < 0 \/ k > attended.before - required_cache_size}

\* The place that the encoder takes a cached output for, counted back from the
\* offset, is the one the output had when it was new.
CacheInPosition ==
    \A i \in DOMAIN att_cache_ : att_cache_[i] # Zeros =>
        offset_ - Len(att_cache_) + i =
            att_cache_[i] + (IF FixedCache THEN required_cache_size ELSE 0)
--------------------------------------------------------------------------------
CONSTANTS subsampling_rate_, right_context_,
          FrameShift,       \* feature_frame_shift_in_ms()
          TimeStampGap,     \* time_stamp_gap_
          Silence1, Silence2, Length3,  \* ms in the three endpoint rules
          ChunkSizes        \* settings of chunk_size; 0 or less: not streaming

\* A chunk is at least as long as what is cached of it (asr_model.cc:28): the network
\* and the chunk sizes have to fit.
ASSUME DecoderAssumption ==
  /\ subsampling_rate_ \in Nat \ {0} /\ right_context_ \in Nat
  /\ right_context_ + 1 >= subsampling_rate_
  /\ \A c \in ChunkSizes : c > 0 => c * subsampling_rate_ >= 1 + right_context_ - subsampling_rate_
  /\ FrameShift \in Nat \ {0} /\ TimeStampGap \in Nat
  /\ Silence1 \in Nat /\ Silence2 \in Nat /\ Length3 \in Nat
  /\ ChunkSizes \subseteq Int

VARIABLES
  produced, delivered, input_finished,     \* the pipeline: frames put in and read
  start_, num_frames_, global_frame_offset_,
  cached_feature_,                         \* frames kept for the next chunk
  num_frames_decoded_, num_frames_trailing_blank_,   \* the endpointer
  outputs,                                 \* the encoder's outputs of the segment
  result_,                                 \* times of the best hypothesis
  state                                    \* the DecodeState Decode returned last

pipelineVars == <<produced, delivered, input_finished>>
endpointVars == <<num_frames_decoded_, num_frames_trailing_blank_>>
decoderVars  == <<start_, num_frames_, global_frame_offset_, cached_feature_,
                  modelVars, endpointVars, outputs, result_, state>>

Window == [first : Nat, last : Nat, blank : BOOLEAN]

DecoderInit ==
  /\ produced = 0 /\ delivered = 0 /\ input_finished = FALSE
  /\ chunk_size_ \in ChunkSizes
  /\ ModelInit
  /\ start_ = FALSE
  /\ num_frames_ = 0
  /\ global_frame_offset_ = 0
  /\ cached_feature_ = <<>>
  /\ num_frames_decoded_ = 0
  /\ num_frames_trailing_blank_ = 0
  /\ outputs = <<>>
  /\ result_ = {}
  /\ state = "kEndBatch"

--------------------------------------------------------------------------------
MaxInt == 2147483647   \* std::numeric_limits<int>::max()

num_frames_for_chunk(start) ==
  IF chunk_size_ <= 0 THEN MaxInt
  ELSE IF start THEN chunk_size_ * subsampling_rate_
       ELSE (chunk_size_ - 1) * subsampling_rate_ + right_context_ + 1

Queued == produced - delivered
NumRequired == num_frames_for_chunk(start_)
NumRead == Min({Queued, NumRequired})
ChunkFeats == [i \in 1..NumRead |-> delivered + i - 1]

\* Outputs of a convolution over n frames: a window of right_context_ + 1 frames
\* every subsampling_rate_ frames.
WindowsIn(n) ==
  IF n > right_context_ THEN (n - right_context_ - 1) \div subsampling_rate_ + 1 ELSE 0

EncoderInput == cached_feature_ \o ChunkFeats
NumOutputs == WindowsIn(Len(EncoderInput))

\* What ForwardEncoder adds, given which outputs are blank.
EncoderOutputs(blanks) ==
  LET feats == EncoderInput
      From(k) == (k - 1) * subsampling_rate_ + 1
  IN [k \in DOMAIN blanks |->
        [first |-> feats[From(k)], last |-> feats[From(k) + right_context_],
         blank |-> blanks[k]]]

\* Mutant: one frame more is kept than the next window needs.
Mut_CacheOneMore(feats) ==
  LET size == 2 + right_context_ - subsampling_rate_
  IN IF NumOutputs > 0 /\ Len(feats) >= size
     THEN SubSeq(feats, Len(feats) - size + 1, Len(feats)) ELSE cached_feature_

\* Called by ForwardEncoder when there was enough to encode.
CacheFeature(feats) ==
  LET size == 1 + right_context_ - subsampling_rate_
  IN IF NumOutputs > 0 /\ Len(feats) >= size
     THEN SubSeq(feats, Len(feats) - size + 1, Len(feats)) ELSE cached_feature_

--------------------------------------------------------------------------------
frame_shift_in_ms == subsampling_rate_ * FrameShift

DecodedSomething(hypothesis) == hypothesis # {}

TrailingBlanks(blanks) ==
  LET spoken == {k \in DOMAIN blanks : ~blanks[k]}
  IN IF spoken = {} THEN num_frames_trailing_blank_ + Len(blanks)
     ELSE Len(blanks) - Max(spoken)

\* The three rules of CtcEndpointConfig.
RuleActivated(decoded_something, trailing, length) ==
  \/ trailing * frame_shift_in_ms >= Silence1
  \/ decoded_something /\ trailing * frame_shift_in_ms >= Silence2
  \/ length * frame_shift_in_ms >= Length3

IsEndpoint(blanks, hypothesis) ==
  RuleActivated(DecodedSomething(hypothesis), TrailingBlanks(blanks),
                num_frames_decoded_ + Len(blanks))

\* Does Read return, and does it return false?
ReadReturns == Queued >= NumRequired \/ input_finished

\* Mutant: a finished input ends decoding with the next chunk.
Mut_FailsWhenFinished == input_finished

ReadFails == Queued < NumRequired

\* Search: of a partial hypothesis only matters whether it has a token.
PartialHypotheses(n) == IF n = 0 THEN {result_} ELSE {{}, 0..(Len(outputs) + n - 1)}

\* AdvanceDecoding once Read returns.
AdvanceDecoding ==
  /\ ReadReturns
  /\ delivered' = delivered + NumRead
  /\ num_frames_' = num_frames_ + NumRead
  /\ start_' = TRUE
  /\ cached_feature_' = CacheFeature(ChunkFeats)
  /\ ForwardEncoder(NumOutputs)
  /\ \E blanks \in [1..NumOutputs -> BOOLEAN] :
       /\ outputs' = outputs \o EncoderOutputs(blanks)
       /\ result_' \in PartialHypotheses(Len(blanks))
       /\ IF ReadFails
          THEN state' = "kEndFeats" /\ UNCHANGED endpointVars
          ELSE /\ num_frames_decoded_' = num_frames_decoded_ + Len(blanks)
               /\ num_frames_trailing_blank_' = TrailingBlanks(blanks)
               /\ state' = IF IsEndpoint(blanks, result_') THEN "kEndpoint" ELSE "kEndBatch"
  /\ UNCHANGED <<produced, input_finished, chunk_size_, global_frame_offset_>>

\* Decode(false) before there are enough frames.
WaitFeats ==
  /\ ~input_finished /\ Queued < NumRequired
  /\ state' = "kWaitFeats"
  /\ UNCHANGED <<pipelineVars, chunk_size_, start_, num_frames_, global_frame_offset_,
                 cached_feature_, modelVars, endpointVars, outputs, result_>>

\* The final hypothesis; rescoring may put any of the n-best list first.
Rescoring ==
  /\ result_' \in IF outputs = <<>> THEN {result_} ELSE SUBSET (0..(Len(outputs) - 1))
  /\ UNCHANGED <<pipelineVars, chunk_size_, start_, num_frames_, global_frame_offset_,
                 cached_feature_, modelVars, endpointVars, outputs, state>>

\* model_->Reset(), searcher_->Reset(), and the result.
ClearSegment ==
  /\ ResetModel
  /\ start_' = FALSE
  /\ cached_feature_' = <<>>
  /\ outputs' = <<>>
  /\ result_' = {}

\* Mutant: the trailing blanks of the last segment stay.
Mut_TrailingKept ==
  /\ num_frames_decoded_' = 0
  /\ UNCHANGED num_frames_trailing_blank_

ResetEndpointer ==
  /\ num_frames_decoded_' = 0
  /\ num_frames_trailing_blank_' = 0

\* Mutant: the endpointer goes on counting.
Mut_EndpointerGoesOn ==
  /\ ClearSegment
  /\ UNCHANGED endpointVars
  /\ global_frame_offset_' = num_frames_
  /\ UNCHANGED <<pipelineVars, chunk_size_, num_frames_, state>>

\* Mutant: the times of the new segment start where the last one started.
Mut_OffsetKept ==
  /\ ClearSegment
  /\ ResetEndpointer
  /\ UNCHANGED <<pipelineVars, chunk_size_, num_frames_, global_frame_offset_, state>>

\* Mutant: the model keeps the frames cached from the segment before.
Mut_ModelNotReset ==
  /\ start_' = FALSE /\ outputs' = <<>> /\ result_' = {}
  /\ ResetEndpointer
  /\ global_frame_offset_' = num_frames_
  /\ UNCHANGED <<pipelineVars, chunk_size_, num_frames_, cached_feature_, modelVars, state>>

ResetContinuousDecoding ==
  /\ ClearSegment
  /\ ResetEndpointer
  /\ global_frame_offset_' = num_frames_
  /\ UNCHANGED <<pipelineVars, chunk_size_, num_frames_, state>>

\* Reset, the pipeline included.
Reset ==
  /\ ClearSegment
  /\ ResetEndpointer
  /\ num_frames_' = 0
  /\ global_frame_offset_' = 0
  /\ produced' = 0 /\ delivered' = 0 /\ input_finished' = FALSE
  /\ UNCHANGED <<chunk_size_, state>>

--------------------------------------------------------------------------------
Ascending(S) ==
  [j \in 1..Cardinality(S) |-> CHOOSE x \in S : Cardinality({y \in S : y < x}) = j - 1]

\* UpdateResult(true): start and end, in ms, of the tokens at these times.
TokenTimes(time, offset) ==
  LET Close(j) == (time[j + 1] - time[j]) * frame_shift_in_ms < TimeStampGap
      Middle(j) == ((time[j + 1] + time[j]) \div 2) * frame_shift_in_ms
      Start(j) == IF j > 1 /\ Close(j - 1) THEN Middle(j - 1)
                  ELSE Max({time[j] * frame_shift_in_ms - TimeStampGap, 0})
      End(j) == IF j < Len(time) /\ Close(j) THEN Middle(j)
                ELSE time[j] * frame_shift_in_ms
  IN [j \in DOMAIN time |-> <<offset + Start(j), offset + End(j)>>]

\* Of the best hypothesis.
WordPieces == TokenTimes(Ascending(result_), global_frame_offset_ * FrameShift)

--------------------------------------------------------------------------------
DecoderTypeOK ==
  /\ produced \in Nat /\ delivered \in 0..produced /\ input_finished \in BOOLEAN
  /\ chunk_size_ \in ChunkSizes
  /\ start_ \in BOOLEAN /\ num_frames_ \in Nat
  /\ global_frame_offset_ \in 0..num_frames_
  /\ cached_feature_ \in Seq(Nat) /\ Len(cached_feature_) <= right_context_
  /\ num_frames_decoded_ \in Nat
  /\ num_frames_trailing_blank_ \in 0..num_frames_decoded_   \* CHECK_GE in IsEndpoint
  /\ outputs \in Seq(Window)
  /\ result_ \subseteq 0..(Len(outputs) - 1)
  /\ state \in {"kEndBatch", "kEndpoint", "kEndFeats", "kWaitFeats"}

\* The time the decoder gives an output, its index in the segment behind
\* global_frame_offset_, is the place in the recording of the frames it was computed
\* from, and these frames follow each other without a gap: over chunks, cached
\* frames and endpoints (num_frames_for_chunk, CacheFeature, ResetContinuousDecoding).
EncodedInPlace ==
  \A k \in DOMAIN outputs :
    /\ outputs[k].first = global_frame_offset_ + (k - 1) * subsampling_rate_
    /\ outputs[k].last = outputs[k].first + right_context_

\* Chunking loses nothing: the outputs of a segment are as many as the encoder would
\* give for all its frames at once.
NothingUnencoded ==
  Len(outputs) = WindowsIn(delivered - global_frame_offset_)

\* The attention decoder rescores with the encoder's outputs of the whole segment and
\* of no other (encoder_outs_ over chunks, endpoints and Reset).
RescoresTheSegment == encoder_outs_ = [k \in DOMAIN outputs |-> k]

\* What the model keeps between chunks is what it needs of the segment and nothing
\* else: the outputs attended to, their places, and those to rescore with.
ModelKeepsTheSegment == AttendsToSegment /\ CacheInPosition /\ RescoresTheSegment
================================================================================
