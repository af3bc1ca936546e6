------------------------------- MODULE SileroVad -------------------------------
(***************************************************************************)
(* The speech detector in front of the recogniser (SileroVad.java), as the *)
(* ASR thread drives it: reset, process for every buffer, and at the end   *)
(* flush and flushRemainingAsSkipped.  The settings screen may change the  *)
(* number of pre-buffer slots from the UI thread.                          *)
(*                                                                         *)
(* A sample is its position in the recording, from 1.  A step makes at     *)
(* most one callback, which is left in the variable callback.  What the    *)
(* network says of a chunk is a free choice.                               *)
(***************************************************************************)
EXTENDS Integers, FiniteSets

CONSTANTS CHUNK_SIZE,
          TrailingSilenceChunks,
          SlotChoices,   \* what the settings screen offers for the pre-buffer
          MayResize,     \* may the settings change during a recording?
          Lengths,       \* lengths of the buffers given to process
          MaxFed         \* bound: samples in a recording

ASSUME VadAssumption ==
  /\ CHUNK_SIZE \in Nat \ {0}
  /\ TrailingSilenceChunks \in Nat \ {0}
  /\ SlotChoices \subseteq Nat \ {0} /\ SlotChoices # {}
  /\ MayResize \in BOOLEAN
  /\ Lengths \subseteq Nat \ {0}
  /\ MaxFed \in Nat

VARIABLES
  pc,            \* where the ASR thread is
  vadState, trailingSilenceCount,
  preBuffer,     \* the array: a function on 0 .. length - 1
  preBufferHead, preBufferCount, preBufferSlots,
  residual,      \* the array residual: the position of the sample in each cell
  residualLen,
  fed,           \* samples given to process in this recording
  taken,         \* those copied out of the caller's buffer
  chunk,         \* the parameter of processChunk
  flushed,       \* the loop counter of flushPreBuffer
  callback,      \* the callback made by the last step
  elapsed        \* history: samples forwarded or reported as skipped

ringVars == <<preBuffer, preBufferHead, preBufferCount>>
vars == <<pc, vadState, trailingSilenceCount, ringVars, preBufferSlots, residual,
          residualLen, fed, taken, chunk, flushed, callback, elapsed>>

--------------------------------------------------------------------------------
\* An array of CHUNK_SIZE samples: the position of the first one it was made of,
\* and whether it is the array residual itself or a copy.
NoChunk == [first |-> 0, isResidual |-> FALSE]
Cells == 1..CHUNK_SIZE
Own(p) == [first |-> p, isResidual |-> FALSE]
Residual(p) == [first |-> p, isResidual |-> TRUE]

\* What an array holds now.
Content(c) == IF c.isResidual THEN residual ELSE [i \in Cells |-> c.first + i - 1]

\* The remainder as Java computes it.
Rem(a, b) == IF a >= 0 THEN a % b ELSE -((-a) % b)
InBounds(i) == i \in DOMAIN preBuffer

Silent == callback' = [kind |-> "none", n |-> 0] /\ elapsed' = elapsed

Speech(c) ==
  /\ callback' = [kind |-> "speech", n |-> CHUNK_SIZE, first |-> c.first,
                  data |-> Content(c)]
  /\ elapsed' = elapsed + CHUNK_SIZE

Skipped(n) ==
  /\ callback' = [kind |-> "skipped", n |-> n]
  /\ elapsed' = elapsed + n

NewRing(slots) == [i \in 0..(slots - 1) |-> NoChunk]

Init ==
  /\ pc = "off"
  /\ vadState = "IDLE" /\ trailingSilenceCount = 0
  /\ preBufferSlots \in SlotChoices
  /\ preBuffer = NewRing(preBufferSlots)
  /\ preBufferHead = 0 /\ preBufferCount = 0
  /\ residual = [i \in Cells |-> 0] /\ residualLen = 0
  /\ fed = 0 /\ taken = 0
  /\ chunk = NoChunk /\ flushed = 0
  /\ callback = [kind |-> "none", n |-> 0]
  /\ elapsed = 0

--------------------------------------------------------------------------------
\* Mutant: the ring keeps its old size when the setting has changed.
Mut_ResetKeepsRing ==
  /\ pc = "off"
  /\ pc' = "ready"
  /\ vadState' = "IDLE" /\ trailingSilenceCount' = 0
  /\ preBufferHead' = 0 /\ preBufferCount' = 0
  /\ residualLen' = 0
  /\ fed' = 0 /\ taken' = 0 /\ elapsed' = 0
  /\ callback' = [kind |-> "none", n |-> 0]
  /\ UNCHANGED <<preBuffer, preBufferSlots, residual, chunk, flushed>>

\* reset(), at the start of a recording; the ring takes the size of the setting.
Reset ==
  /\ pc = "off"
  /\ pc' = "ready"
  /\ vadState' = "IDLE" /\ trailingSilenceCount' = 0
  /\ preBuffer' = NewRing(preBufferSlots)
  /\ preBufferHead' = 0 /\ preBufferCount' = 0
  /\ residualLen' = 0
  /\ fed' = 0 /\ taken' = 0 /\ elapsed' = 0
  /\ callback' = [kind |-> "none", n |-> 0]
  /\ UNCHANGED <<preBufferSlots, residual, chunk, flushed>>

\* setPreBufferSlots(), on the UI thread: the setting changes, the ring does not.
SetPreBufferSlots(slots) ==
  /\ MayResize \/ pc = "off"
  /\ preBufferSlots' = slots
  /\ UNCHANGED <<pc, vadState, trailingSilenceCount, ringVars, residual, residualLen,
                 fed, taken, chunk, flushed, callback, elapsed>>

\* process(data, length)
Process(length) ==
  /\ pc = "ready"
  /\ fed + length <= MaxFed
  /\ fed' = fed + length
  /\ pc' = IF residualLen > 0 THEN "fill" ELSE "chunks"
  /\ Silent
  /\ UNCHANGED <<vadState, trailingSilenceCount, ringVars, preBufferSlots, residual,
                 residualLen, taken, chunk, flushed>>

\* System.arraycopy(data, offset, residual, at, n)
CopyToResidual(at, n) ==
  residual' = [i \in Cells |->
                 IF i \in (at + 1)..(at + n) THEN taken + i - at ELSE residual[i]]

\* The residual of the last call is completed first; the array itself is passed on.
FillResidual ==
  LET needed == CHUNK_SIZE - residualLen
      length == fed - taken
      toCopy == IF needed < length THEN needed ELSE length
  IN /\ pc = "fill"
     /\ CopyToResidual(residualLen, toCopy)
     /\ residualLen' = residualLen + toCopy
     /\ taken' = taken + toCopy
     /\ IF residualLen' = CHUNK_SIZE
        THEN pc' = "infer" /\ chunk' = Residual(taken' - CHUNK_SIZE + 1)
        ELSE pc' = "chunks" /\ chunk' = chunk
     /\ Silent
     /\ UNCHANGED <<vadState, trailingSilenceCount, ringVars, preBufferSlots, fed,
                    flushed>>

TakeChunk ==
  /\ pc = "chunks"
  /\ taken + CHUNK_SIZE <= fed
  /\ chunk' = Own(taken + 1)
  /\ taken' = taken + CHUNK_SIZE
  /\ pc' = "infer"
  /\ Silent
  /\ UNCHANGED <<vadState, trailingSilenceCount, ringVars, preBufferSlots, residual,
                 residualLen, fed, flushed>>

SaveResidual ==
  /\ pc = "chunks"
  /\ taken + CHUNK_SIZE > fed
  /\ IF taken < fed
     THEN CopyToResidual(0, fed - taken) /\ residualLen' = fed - taken
     ELSE UNCHANGED <<residual, residualLen>>
  /\ taken' = fed
  /\ pc' = "ready"
  /\ Silent
  /\ UNCHANGED <<vadState, trailingSilenceCount, ringVars, preBufferSlots, fed, chunk,
                 flushed>>

--------------------------------------------------------------------------------
\* processChunk returns to process, which empties the residual it passed, if any.
ReturnFromChunk ==
  /\ pc' = "chunks"
  /\ residualLen' = IF chunk.isResidual THEN 0 ELSE residualLen
  /\ UNCHANGED <<preBufferSlots, residual, fed, taken, chunk>>

\* An index outside the ring: the exception ends the ASR thread.
Throw ==
  /\ pc' = "thrown"
  /\ Silent
  /\ UNCHANGED <<vadState, trailingSilenceCount, ringVars, preBufferSlots, residual,
                 residualLen, fed, taken, chunk, flushed>>

\* Mutant: the oldest chunk is overwritten without being reported.
Mut_EvictSilently ==
  /\ pc = "infer" /\ vadState = "IDLE"
  /\ IF ~InBounds(preBufferHead) THEN Throw
     ELSE /\ Silent
          /\ preBuffer' = [preBuffer EXCEPT ![preBufferHead] = chunk]
          /\ preBufferHead' = (preBufferHead + 1) % preBufferSlots
          /\ preBufferCount' =
               IF preBufferCount < preBufferSlots THEN preBufferCount + 1 ELSE preBufferCount
          /\ ReturnFromChunk
          /\ UNCHANGED <<vadState, trailingSilenceCount, flushed>>

\* IDLE and no speech: addToPreBuffer, which reports the chunk it evicts.
AddToPreBuffer ==
  /\ pc = "infer" /\ vadState = "IDLE"
  /\ IF ~InBounds(preBufferHead) THEN Throw
     ELSE /\ IF preBufferCount = preBufferSlots THEN Skipped(CHUNK_SIZE) ELSE Silent
          /\ preBuffer' = [preBuffer EXCEPT ![preBufferHead] = chunk]
          /\ preBufferHead' = (preBufferHead + 1) % preBufferSlots
          /\ preBufferCount' =
               IF preBufferCount < preBufferSlots THEN preBufferCount + 1 ELSE preBufferCount
          /\ ReturnFromChunk
          /\ UNCHANGED <<vadState, trailingSilenceCount, flushed>>

\* IDLE and speech: flushPreBuffer is called first.
SpeechBegins ==
  /\ pc = "infer" /\ vadState = "IDLE"
  /\ pc' = "flush"
  /\ flushed' = 0
  /\ Silent
  /\ UNCHANGED <<vadState, trailingSilenceCount, ringVars, preBufferSlots, residual,
                 residualLen, fed, taken, chunk>>

Oldest == Rem(preBufferHead - preBufferCount + preBufferSlots, preBufferSlots)

\* Mutant: from the place the next chunk would be written to.
Mut_FlushFromHead ==
  LET idx == Rem(preBufferHead + flushed, preBufferSlots)
  IN /\ pc = "flush"
     /\ flushed < preBufferCount
     /\ IF ~InBounds(idx) THEN Throw
        ELSE /\ Speech(preBuffer[idx])
             /\ flushed' = flushed + 1
             /\ UNCHANGED <<pc, vadState, trailingSilenceCount, ringVars, preBufferSlots,
                            residual, residualLen, fed, taken, chunk>>

\* The loop of flushPreBuffer, from the oldest chunk to the newest.
FlushPreBuffer ==
  LET idx == Rem(Oldest + flushed, preBufferSlots)
  IN /\ pc = "flush"
     /\ flushed < preBufferCount
     /\ IF ~InBounds(idx) THEN Throw
        ELSE /\ Speech(preBuffer[idx])
             /\ flushed' = flushed + 1
             /\ UNCHANGED <<pc, vadState, trailingSilenceCount, ringVars, preBufferSlots,
                            residual, residualLen, fed, taken, chunk>>

\* The rest of SpeechBegins: the chunk that woke the detector.
FirstSpeech ==
  /\ pc = "flush"
  /\ flushed >= preBufferCount
  /\ Speech(chunk)
  /\ vadState' = "SPEAKING"
  /\ preBufferCount' = 0 /\ preBufferHead' = 0
  /\ ReturnFromChunk
  /\ UNCHANGED <<preBuffer, trailingSilenceCount, flushed>>

\* SPEAKING: the chunk is forwarded, whatever it is.
Speaking ==
  /\ pc = "infer" /\ vadState = "SPEAKING"
  /\ Speech(chunk)
  /\ \/ UNCHANGED <<vadState, trailingSilenceCount>>
     \/ vadState' = "TRAILING_SILENCE" /\ trailingSilenceCount' = 1
  /\ ReturnFromChunk
  /\ UNCHANGED <<ringVars, flushed>>

\* Mutant: the count is tested before it is incremented.
Mut_TrailingOneMore ==
  /\ pc = "infer" /\ vadState = "TRAILING_SILENCE"
  /\ Speech(chunk)
  /\ \/ vadState' = "SPEAKING" /\ trailingSilenceCount' = 0
     \/ IF trailingSilenceCount > TrailingSilenceChunks
        THEN vadState' = "IDLE" /\ trailingSilenceCount' = 0
        ELSE vadState' = vadState /\ trailingSilenceCount' = trailingSilenceCount + 1
  /\ ReturnFromChunk
  /\ UNCHANGED <<ringVars, flushed>>

\* TRAILING_SILENCE: forwarded as well; enough of it ends the segment.
TrailingSilence ==
  /\ pc = "infer" /\ vadState = "TRAILING_SILENCE"
  /\ Speech(chunk)
  /\ \/ vadState' = "SPEAKING" /\ trailingSilenceCount' = 0
     \/ IF trailingSilenceCount + 1 > TrailingSilenceChunks
        THEN vadState' = "IDLE" /\ trailingSilenceCount' = 0
        ELSE vadState' = vadState /\ trailingSilenceCount' = trailingSilenceCount + 1
  /\ ReturnFromChunk
  /\ UNCHANGED <<ringVars, flushed>>

--------------------------------------------------------------------------------
\* flush(), when the loop of the ASR thread has ended.
Flush ==
  /\ pc = "ready"
  /\ pc' = "remaining"
  /\ residualLen' = 0
  /\ flushed' = 0
  /\ CASE residualLen = 0 -> Silent
       [] residualLen > 0 /\ vadState # "IDLE" ->
            /\ callback' = [kind |-> "speech", n |-> residualLen,
                            first |-> taken - residualLen + 1,
                            data |-> [i \in 1..residualLen |-> residual[i]]]
            /\ elapsed' = elapsed + residualLen
       [] residualLen > 0 /\ vadState = "IDLE" -> Skipped(residualLen)
  /\ UNCHANGED <<vadState, trailingSilenceCount, ringVars, preBufferSlots, residual, fed,
                 taken, chunk>>

\* The loop of flushRemainingAsSkipped().
FlushRemainingAsSkipped ==
  LET idx == Rem(Oldest + flushed, preBufferSlots)
  IN /\ pc = "remaining"
     /\ vadState = "IDLE" /\ flushed < preBufferCount
     /\ IF ~InBounds(idx) THEN Throw
        ELSE /\ Skipped(CHUNK_SIZE)
             /\ flushed' = flushed + 1
             /\ UNCHANGED <<pc, vadState, trailingSilenceCount, ringVars, preBufferSlots,
                            residual, residualLen, fed, taken, chunk>>

EndOfRecording ==
  /\ pc = "remaining"
  /\ vadState = "IDLE" => flushed >= preBufferCount
  /\ pc' = "off"
  /\ IF vadState = "IDLE" /\ preBufferCount > 0
     THEN preBufferCount' = 0 /\ preBufferHead' = 0
     ELSE UNCHANGED <<preBufferCount, preBufferHead>>
  /\ Silent
  /\ UNCHANGED <<vadState, trailingSilenceCount, preBuffer, preBufferSlots, residual,
                 residualLen, fed, taken, chunk, flushed>>

--------------------------------------------------------------------------------
Next ==
  \/ Reset
  \/ \E slots \in SlotChoices : SetPreBufferSlots(slots)
  \/ \E length \in Lengths : Process(length)
  \/ FillResidual \/ TakeChunk \/ SaveResidual
  \/ AddToPreBuffer \/ SpeechBegins \/ FlushPreBuffer \/ FirstSpeech
  \/ Speaking \/ TrailingSilence
  \/ Flush \/ FlushRemainingAsSkipped \/ EndOfRecording

Spec == Init /\ [][Next]_vars

--------------------------------------------------------------------------------
ChunkOrNone == [first : 0..MaxFed, isResidual : BOOLEAN]
Rings == UNION {[0..(slots - 1) -> ChunkOrNone] : slots \in SlotChoices}

TypeOK ==
  /\ pc \in {"off", "ready", "fill", "chunks", "infer", "flush", "remaining", "thrown"}
  /\ vadState \in {"IDLE", "SPEAKING", "TRAILING_SILENCE"}
  /\ trailingSilenceCount \in 0..TrailingSilenceChunks
  /\ preBufferSlots \in SlotChoices
  /\ preBuffer \in Rings
  /\ preBufferHead \in Nat
  /\ preBufferCount \in Nat
  /\ residual \in [Cells -> 0..MaxFed]
  /\ residualLen \in 0..CHUNK_SIZE
  /\ fed \in 0..MaxFed /\ taken \in 0..fed
  /\ chunk \in ChunkOrNone
  /\ flushed \in Nat
  /\ elapsed \in 0..MaxFed

\* The samples in the detector's own buffers: the ring, less what a loop over it has
\* already handed out, the chunk at hand, and the residual.
Out == IF pc \in {"flush", "remaining"} THEN flushed ELSE 0
AtHand == IF pc \in {"infer", "flush"} /\ ~chunk.isResidual THEN 1 ELSE 0
Held == (preBufferCount - Out + AtHand) * CHUNK_SIZE + residualLen

\* Every sample that was fed is exactly once forwarded, reported as skipped, or still
\* held, in every state and so after the last flush too; wenet.cc computes the length
\* of the recording and the times of its words from these two counts.
Conserved ==
  pc # "thrown" =>
    /\ elapsed + Held + (fed - taken) = fed
    /\ pc = "off" => elapsed = fed

\* Forwarded samples come in the order of the recording, and when one is forwarded all
\* before it have been forwarded or reported as skipped: its position in the recording
\* is what the counts of both say, which is what word times are computed from.
Timeline ==
  callback.kind = "speech" => callback.first + callback.n - 1 = elapsed

\* The array accesses of the ring stay inside it.
NeverThrows == pc # "thrown"

\* What process, flush and flushRemainingAsSkipped owe to the counters of wenet.cc: each
\* sample goes out once, at its place, and no access leaves the ring.
EverySampleInPlace == TypeOK /\ Conserved /\ Timeline /\ NeverThrows

--------------------------------------------------------------------------------
\* Between recordings the ring is empty, and it has the size of the setting as long as
\* settings change between recordings.  The k-th chunk of the ring, from the oldest, is the
\* k-th of those that come next; at the end the residual goes out before them.
Place(k) ==
  LET oldest == IF preBufferHead >= preBufferCount THEN preBufferHead - preBufferCount
                ELSE preBufferHead - preBufferCount + preBufferSlots
  IN IF oldest + k < preBufferSlots THEN oldest + k ELSE oldest + k - preBufferSlots

Ring ==
  /\ pc = "off" \/ vadState # "IDLE" => preBufferCount = 0
  /\ pc # "off" =>
       /\ preBuffer \in [0..(preBufferSlots - 1) -> ChunkOrNone]
       /\ preBufferHead < preBufferSlots /\ preBufferCount <= preBufferSlots
       /\ Out <= preBufferCount
       /\ pc # "remaining" => \A k \in Out..(preBufferCount - 1) :
            preBuffer[Place(k)].first = elapsed + 1 + (k - Out) * CHUNK_SIZE

\* What the caller's buffer, the residual and the chunk at hand are at each point of process.
Points ==
  /\ pc \in {"off", "ready", "remaining"} => taken = fed
  /\ pc \in {"off", "remaining"} => residualLen = 0
  /\ pc \in {"ready", "fill", "chunks"} => residualLen < CHUNK_SIZE
  /\ pc = "fill" => residualLen > 0
  /\ pc = "chunks" => residualLen = 0 \/ taken = fed
  /\ pc \in {"infer", "flush"} =>
       /\ residualLen = IF chunk.isResidual THEN CHUNK_SIZE ELSE 0
       /\ chunk.first = taken - CHUNK_SIZE + 1
  /\ pc = "flush" => vadState = "IDLE"

IInv == EverySampleInPlace /\ Ring /\ Points

\* SileroVad.java:221: "Read from oldest to newest".  What is forwarded are the samples
\* that were recorded at that point.
ForwardsTheAudio ==
  callback.kind = "speech" =>
    \A i \in DOMAIN callback.data : callback.data[i] = callback.first + i - 1
================================================================================
