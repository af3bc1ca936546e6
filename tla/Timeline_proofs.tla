---------------------------- MODULE Timeline_proofs ----------------------------
(***************************************************************************)
(* The way of a sample and of a word, in three parts.                      *)
(*   SileroVad: every sample given to the detector is forwarded or         *)
(*   reported as skipped once, at its place, for every size of chunks,     *)
(*   buffers and ring, as long as the setting of the ring changes between  *)
(*   recordings only.                                                      *)
(*   VadTimeline: the times that wenet.cc gives to words are times of the  *)
(*   recording, for every rate and every padding of a millisecond or more. *)
(*   TimedResult: all words reach the saved result and the display, for    *)
(*   every number of segments and of words.                                *)
(***************************************************************************)
EXTENDS VadTimeline, TimedResult, SequenceTheorems, FiniteSetTheorems, TLAPS

(***************************************************************************)
(* SileroVad.                                                              *)
(***************************************************************************)
USE VadAssumption

\* The two places where the ring's indices wrap around.
LEMMA RemOnce ==
  ASSUME NEW slots \in Nat \ {0}, NEW i \in Nat, i < 2 * slots
  PROVE  /\ i % slots = IF i < slots THEN i ELSE i - slots
         /\ Rem(i, slots) = i % slots
BY DEF Rem

\* The index that flushPreBuffer and flushRemainingAsSkipped compute is Place.
LEMMA IndexIsPlace ==
  ASSUME preBufferSlots \in Nat \ {0}, preBufferHead \in Nat, preBufferCount \in Nat,
         preBufferHead < preBufferSlots, preBufferCount <= preBufferSlots,
         NEW k \in Nat, k < preBufferSlots
  PROVE  /\ Rem(Oldest + k, preBufferSlots) = Place(k)
         /\ Place(k) \in 0..(preBufferSlots - 1)
<1> DEFINE around == preBufferHead - preBufferCount + preBufferSlots
           oldest == IF around < preBufferSlots THEN around ELSE around - preBufferSlots
<1>1. around \in Nat /\ around < 2 * preBufferSlots
  OBVIOUS
<1>2. Oldest = oldest
  <2>1. Rem(around, preBufferSlots) = oldest
    BY <1>1, RemOnce
  <2> QED BY <2>1 DEF Oldest
<1>3. oldest \in Nat /\ oldest + k \in Nat /\ oldest + k < 2 * preBufferSlots
  BY <1>1
<1>4. Rem(oldest + k, preBufferSlots)
        = IF oldest + k < preBufferSlots THEN oldest + k ELSE oldest + k - preBufferSlots
  <2> HIDE DEF oldest
  <2> QED BY <1>3, RemOnce
<1>5. oldest = IF preBufferHead >= preBufferCount THEN preBufferHead - preBufferCount
               ELSE preBufferHead - preBufferCount + preBufferSlots
  BY <1>1
<1> QED BY <1>2, <1>3, <1>4, <1>5 DEF Place

LEMMA ChunksAdd ==
  ASSUME NEW k \in Nat
  PROVE  k * CHUNK_SIZE \in Nat /\ (k + 1) * CHUNK_SIZE = k * CHUNK_SIZE + CHUNK_SIZE
OBVIOUS

LEMMA Times ==
  ASSUME NEW n \in Int
  PROVE  /\ n * CHUNK_SIZE \in Int
         /\ (n + 1) * CHUNK_SIZE = n * CHUNK_SIZE + CHUNK_SIZE
         /\ (n - 1) * CHUNK_SIZE = n * CHUNK_SIZE - CHUNK_SIZE
OBVIOUS

LEMMA InitIInv == Init => IInv
<1> SUFFICES ASSUME Init PROVE IInv
  OBVIOUS
<1> USE DEF Init
<1>1. preBufferSlots \in Nat \ {0} /\ 0 \in 0..MaxFed
  OBVIOUS
<1>2. NewRing(preBufferSlots) \in [0..(preBufferSlots - 1) -> ChunkOrNone]
  BY <1>1 DEF NewRing, NoChunk, ChunkOrNone
<1>3. TypeOK
  <2>1. preBuffer \in Rings
    BY <1>2 DEF Rings
  <2> QED BY <1>1, <2>1 DEF TypeOK, ChunkOrNone, NoChunk
<1>4. Conserved /\ Timeline /\ NeverThrows
  <2>1. preBufferCount - Out + AtHand = 0
    BY DEF Out, AtHand
  <2>2. Held = 0
    BY <2>1 DEF Held
  <2> QED BY <2>2 DEF Conserved, Timeline, NeverThrows
<1>5. Ring /\ Points
  BY DEF Ring, Points
<1> QED BY <1>3, <1>4, <1>5 DEF IInv, EverySampleInPlace

--------------------------------------------------------------------------------
LEMMA Shapes ==
  ASSUME TypeOK
  PROVE  /\ preBufferSlots \in Nat \ {0} /\ preBufferHead \in Nat /\ preBufferCount \in Nat
         /\ fed \in Nat /\ fed <= MaxFed /\ taken \in Nat /\ taken <= fed
         /\ residualLen \in 0..CHUNK_SIZE /\ elapsed \in 0..MaxFed /\ flushed \in Nat
         /\ chunk.first \in 0..MaxFed /\ chunk.isResidual \in BOOLEAN
BY DEF TypeOK, ChunkOrNone

\* The samples taken are those that went out, the chunks of the ring, the chunk at hand
\* and the residual.
LEMMA Account ==
  ASSUME TypeOK
  PROVE  /\ preBufferCount - Out + AtHand \in Int /\ Held \in Int
         /\ Conserved /\ NeverThrows <=> pc # "thrown" /\ taken = elapsed + Held
                                          /\ (pc = "off" => elapsed = fed)
<1>1. Out \in Nat /\ AtHand \in {0, 1}
  BY Shapes DEF Out, AtHand
<1> DEFINE n == preBufferCount - Out + AtHand
<1>2. n \in Int
  BY <1>1, Shapes
<1>3. n * CHUNK_SIZE \in Int
  BY <1>2
<1>4. Held \in Int
  BY <1>3, Shapes DEF Held
<1> HIDE DEF n
<1>5. Conserved /\ NeverThrows <=> pc # "thrown" /\ taken = elapsed + Held
                                    /\ (pc = "off" => elapsed = fed)
  BY <1>4, Shapes DEF Conserved, NeverThrows
<1> QED BY <1>2, <1>4, <1>5 DEF n

\* A step that leaves the ring and what it has handed out alone keeps Ring.
LEMMA SameRing ==
  ASSUME Ring, TypeOK, pc # "off", pc # "remaining", pc' # "off", Out' = Out,
         UNCHANGED <<preBuffer, preBufferHead, preBufferCount, preBufferSlots>>,
         elapsed' = elapsed \/ preBufferCount = 0 \/ pc' = "remaining",
         vadState' # "IDLE" => preBufferCount = 0
  PROVE  Ring'
<1>1. ASSUME NEW k PROVE Place(k)' = Place(k)
  BY DEF Place
<1>2. ASSUME pc' # "remaining", NEW k \in Out..(preBufferCount - 1)
      PROVE  preBuffer[Place(k)].first = elapsed' + 1 + (k - Out) * CHUNK_SIZE
  <2>1. Out \in Nat
    BY Shapes DEF Out
  <2>2. elapsed' = elapsed
    BY <1>2, <2>1, Shapes
  <2>3. preBuffer[Place(k)].first = elapsed + 1 + (k - Out) * CHUNK_SIZE
    BY <1>2 DEF Ring
  <2> QED BY <2>2, <2>3
<1>3. (pc # "remaining" => \A k \in Out..(preBufferCount - 1) :
            preBuffer[Place(k)].first = elapsed + 1 + (k - Out) * CHUNK_SIZE)'
  BY <1>1, <1>2
<1>4. /\ preBuffer \in [0..(preBufferSlots - 1) -> ChunkOrNone]
      /\ preBufferHead < preBufferSlots /\ preBufferCount <= preBufferSlots
      /\ Out <= preBufferCount
  BY DEF Ring
<1>5. (ChunkOrNone = ChunkOrNone')
  BY DEF ChunkOrNone
<1> QED BY <1>3, <1>4, <1>5 DEF Ring

\* The balance after a step that hands out or takes up chunks and other samples.
LEMMA Sums ==
  ASSUME NEW t \in Int, NEW l \in Int, NEW l1 \in Int, NEW r \in Int, NEW r1 \in Int,
         NEW p \in Int, NEW d \in Int, t = l + (p + r)
  PROVE  t + (l1 - l) + d + (r1 - r) = l1 + ((p + d) + r1)
OBVIOUS

LEMMA Balance ==
  ASSUME TypeOK, TypeOK', Conserved, NeverThrows,
         NEW e \in {-1, 0, 1},
         preBufferCount' - Out' + AtHand' = preBufferCount - Out + AtHand + e,
         pc' \notin {"off", "thrown"},
         taken' = taken + (elapsed' - elapsed) + e * CHUNK_SIZE + (residualLen' - residualLen)
  PROVE  Conserved' /\ NeverThrows'
<1> DEFINE n == preBufferCount - Out + AtHand
<1>1. n \in Int /\ taken = elapsed + (n * CHUNK_SIZE + residualLen)
  BY Account DEF Held
<1>2. Held' = (n + e) * CHUNK_SIZE + residualLen'
  BY DEF Held
<1> HIDE DEF n
<1>3. n * CHUNK_SIZE \in Int /\ (n + e) * CHUNK_SIZE = n * CHUNK_SIZE + e * CHUNK_SIZE
      /\ e * CHUNK_SIZE \in Int
  BY <1>1, Times
<1>4. /\ taken \in Int /\ elapsed \in Int /\ residualLen \in Int
      /\ taken' \in Int /\ elapsed' \in Int /\ residualLen' \in Int /\ fed' \in Int
  BY Shapes DEF TypeOK
<1>5. PICK t \in Int, l \in Int, l1 \in Int, r \in Int, r1 \in Int, p \in Int, d \in Int :
        /\ t = taken /\ l = elapsed /\ l1 = elapsed' /\ r = residualLen
        /\ r1 = residualLen' /\ p = n * CHUNK_SIZE /\ d = e * CHUNK_SIZE
  BY <1>3, <1>4
<1>6. t = l + (p + r)
  BY <1>1, <1>5
<1>7. taken' = t + (l1 - l) + d + (r1 - r)
  BY <1>5
<1>8. taken' = l1 + ((p + d) + r1)
  BY ONLY <1>6, <1>7, Sums
<1>9. Held' = (p + d) + r1
  BY <1>2, <1>3, <1>5
<1>10. taken' = elapsed' + Held'
  BY <1>5, <1>8, <1>9
<1>11. Held' \in Int
  BY ONLY <1>9
<1>12. PICK u \in Int, h \in Int, f \in Int, v \in Int :
         u = elapsed' /\ h = Held' /\ f = fed' /\ v = taken'
  BY <1>4, <1>11
<1>13. v = u + h
  BY <1>10, <1>12
<1>14. u + h + (f - v) = f
  BY ONLY <1>13
<1>15. elapsed' + Held' + (fed' - taken') = fed'
  BY <1>12, <1>14
<1> QED BY <1>15 DEF Conserved, NeverThrows

LEMMA ResetKeepsIInv ==
  ASSUME IInv, Reset PROVE IInv'
<1> USE DEF Reset
<1>0. TypeOK /\ pc = "off" /\ pc' = "ready"
  BY DEF IInv, EverySampleInPlace
<1>1. NewRing(preBufferSlots) \in [0..(preBufferSlots - 1) -> ChunkOrNone]
  BY <1>0, Shapes DEF NewRing, NoChunk, ChunkOrNone
<1>2. TypeOK'
  <2>1. preBufferSlots \in SlotChoices
    BY <1>0 DEF TypeOK
  <2>2. preBuffer' \in Rings
    BY <1>1, <2>1 DEF Rings
  <2> QED BY <1>0, <2>1, <2>2 DEF TypeOK, ChunkOrNone
<1>3. (Conserved /\ Timeline /\ NeverThrows)'
  <2>1. (preBufferCount - Out + AtHand)' = 0
    BY <1>0 DEF Out, AtHand
  <2>2. Held' = 0
    BY <2>1 DEF Held
  <2> QED BY <1>0, <2>2 DEF Conserved, Timeline, NeverThrows
<1>4. Ring'
  BY <1>0, <1>1, Shapes DEF Ring, Out, ChunkOrNone
<1>5. Points'
  BY <1>0 DEF Points
<1> QED BY <1>2, <1>3, <1>4, <1>5 DEF IInv, EverySampleInPlace

LEMMA ResizeKeepsIInv ==
  ASSUME IInv, ~MayResize, NEW slots \in SlotChoices, SetPreBufferSlots(slots)
  PROVE  IInv'
<1> USE DEF SetPreBufferSlots
<1>0. TypeOK /\ pc = "off" /\ pc' = "off"
  BY DEF IInv, EverySampleInPlace
<1>1. TypeOK'
  BY <1>0 DEF TypeOK, ringVars, ChunkOrNone
<1>2. (Conserved /\ Timeline /\ NeverThrows)'
  <2>1. Held' = Held
    BY <1>0 DEF Held, Out, AtHand, ringVars
  <2> QED BY <1>0, <2>1 DEF IInv, EverySampleInPlace, Conserved, Timeline, NeverThrows
<1>3. Ring' /\ Points'
  BY <1>0 DEF IInv, Ring, Points, ringVars
<1> QED BY <1>1, <1>2, <1>3 DEF IInv, EverySampleInPlace

LEMMA ProcessKeepsIInv ==
  ASSUME IInv, NEW length \in Lengths, Process(length)
  PROVE  IInv'
<1> USE DEF Process, Silent
<1>0. /\ TypeOK /\ Conserved /\ NeverThrows /\ Ring /\ Points /\ pc = "ready"
      /\ pc' \in {"fill", "chunks"} /\ length \in Nat
  BY DEF IInv, EverySampleInPlace
<1>1. TypeOK'
  BY <1>0, Shapes DEF TypeOK, ringVars, ChunkOrNone
<1>2. (Conserved /\ Timeline /\ NeverThrows)'
  <2>1. preBufferCount' - Out' + AtHand' = preBufferCount - Out + AtHand + 0
    BY <1>0, Shapes DEF Out, AtHand, ringVars
  <2>2. (Conserved /\ NeverThrows)'
    BY <1>0, <1>1, <2>1, Balance, Shapes
  <2> QED BY <2>2 DEF Timeline
<1>3. Ring'
  <2>1. Out' = Out
    BY <1>0 DEF Out
  <2>2. vadState' # "IDLE" => preBufferCount = 0
    BY <1>0 DEF Ring
  <2> QED BY <1>0, <2>1, <2>2, SameRing DEF ringVars
<1>4. Points'
  BY <1>0, Shapes DEF Points
<1> QED BY <1>1, <1>2, <1>3, <1>4 DEF IInv, EverySampleInPlace

--------------------------------------------------------------------------------
LEMMA Conjuncts ==
  ASSUME IInv
  PROVE  TypeOK /\ Conserved /\ NeverThrows /\ Timeline /\ Ring /\ Points
BY DEF IInv, EverySampleInPlace

\* Whatever is held has been taken: the chunks of the ring, the chunk at hand, the residual.
LEMMA HeldWasTaken ==
  ASSUME IInv, pc # "off",
         NEW m \in Nat, preBufferCount - Out + AtHand >= m
  PROVE  elapsed + m * CHUNK_SIZE + residualLen <= taken
<1> DEFINE n == preBufferCount - Out + AtHand
<1>1. n \in Int /\ taken = elapsed + (n * CHUNK_SIZE + residualLen)
  BY Conjuncts, Account DEF Held
<1>2. n >= m
  OBVIOUS
<1> HIDE DEF n
<1>3. n * CHUNK_SIZE \in Int /\ m * CHUNK_SIZE \in Int /\ n * CHUNK_SIZE >= m * CHUNK_SIZE
  <2>1. PICK j \in Nat : n = m + j
    <3>1. n - m \in Nat /\ n = m + (n - m)
      BY <1>1, <1>2
    <3> QED BY <3>1
  <2>2. n * CHUNK_SIZE = m * CHUNK_SIZE + j * CHUNK_SIZE /\ j * CHUNK_SIZE \in Nat
        /\ m * CHUNK_SIZE \in Nat
    BY <2>1
  <2> QED BY <2>2
<1>4. PICK a \in Int, b \in Int, r \in Int, l \in Int :
        a = n * CHUNK_SIZE /\ b = m * CHUNK_SIZE /\ r = residualLen /\ l = elapsed
  BY <1>3, Conjuncts, Shapes
<1>5. l + b + r <= l + (a + r)
  BY <1>3, <1>4
<1> QED BY <1>1, <1>4, <1>5

\* System.arraycopy into the residual copies samples of the recording.
LEMMA CopyKeepsType ==
  ASSUME TypeOK, NEW at \in Nat, NEW n \in Nat, taken + n <= fed, CopyToResidual(at, n)
  PROVE  residual' \in [Cells -> 0..MaxFed]
<1>1. ASSUME NEW i \in Cells
      PROVE  (IF i \in (at + 1)..(at + n) THEN taken + i - at ELSE residual[i]) \in 0..MaxFed
  <2>1. residual[i] \in 0..MaxFed /\ i \in Int
    BY <1>1 DEF TypeOK, Cells
  <2>2. CASE i \in (at + 1)..(at + n)
    BY <2>2, <2>1, Shapes
  <2> QED BY <2>1, <2>2
<1> QED BY <1>1 DEF CopyToResidual

LEMMA MadeOfSamples ==
  ASSUME NEW p \in 0..MaxFed
  PROVE  Own(p) \in ChunkOrNone /\ Residual(p) \in ChunkOrNone
BY DEF Own, Residual, ChunkOrNone

LEMMA FillKeepsIInv ==
  ASSUME IInv, FillResidual PROVE IInv'
<1> DEFINE needed == CHUNK_SIZE - residualLen
           length == fed - taken
           toCopy == IF needed < length THEN needed ELSE length
<1>1. /\ pc = "fill" /\ CopyToResidual(residualLen, toCopy)
      /\ residualLen' = residualLen + toCopy /\ taken' = taken + toCopy
      /\ IF residualLen' = CHUNK_SIZE
         THEN pc' = "infer" /\ chunk' = Residual(taken' - CHUNK_SIZE + 1)
         ELSE pc' = "chunks" /\ chunk' = chunk
      /\ Silent
      /\ UNCHANGED <<vadState, trailingSilenceCount, ringVars, preBufferSlots, fed, flushed>>
  BY DEF FillResidual
<1>2. /\ TypeOK /\ Conserved /\ NeverThrows /\ Ring /\ Points
      /\ residualLen \in 1..(CHUNK_SIZE - 1)
  BY <1>1, Conjuncts, Shapes DEF Points
<1>3. /\ toCopy \in Nat /\ toCopy <= needed /\ toCopy <= length
      /\ toCopy = needed \/ (toCopy = length /\ toCopy < needed)
      /\ taken + toCopy <= fed
  <2>1. needed \in Nat /\ length \in Nat /\ taken + length = fed
    BY <1>2, Shapes
  <2>2. taken \in Nat /\ fed \in Nat
    BY <1>2, Shapes
  <2> HIDE DEF needed, length
  <2>3. toCopy \in Nat /\ toCopy <= needed /\ toCopy <= length
        /\ (toCopy = needed \/ (toCopy = length /\ toCopy < needed))
    BY <2>1
  <2> HIDE DEF toCopy
  <2>4. taken + toCopy <= fed
    BY <2>1, <2>2, <2>3
  <2> QED BY <2>3, <2>4
<1> HIDE DEF toCopy
<1>4. residualLen' \in 1..CHUNK_SIZE /\ taken' \in 0..fed
      /\ (residualLen' # CHUNK_SIZE => taken' = fed)
  BY <1>1, <1>2, <1>3, Shapes
<1>5. residualLen' = CHUNK_SIZE => taken' - CHUNK_SIZE + 1 \in 1..MaxFed
  <2>1. Out = 0 /\ AtHand = 0 /\ 0 * CHUNK_SIZE = 0
    BY <1>1 DEF Out, AtHand
  <2>2. elapsed + 0 + residualLen <= taken
    BY <1>1, <1>2, <2>1, HeldWasTaken, Shapes
  <2> QED BY <1>1, <1>2, <1>3, <1>4, <2>2, Shapes
<1>6. chunk' \in ChunkOrNone /\ AtHand' = 0 /\ Out' = 0 /\ Out = 0 /\ AtHand = 0
  <2>1. chunk \in ChunkOrNone
    BY <1>2 DEF TypeOK
  <2>2. AtHand' = 0 /\ Out' = 0 /\ Out = 0 /\ AtHand = 0
    BY <1>1 DEF Out, AtHand, Residual
  <2>3. CASE residualLen' = CHUNK_SIZE
    <3>1. taken' - CHUNK_SIZE + 1 \in 0..MaxFed
      BY <1>5, <2>3
    <3> QED BY <1>1, <2>2, <2>3, <3>1, MadeOfSamples
  <2> QED BY <1>1, <2>1, <2>2, <2>3
<1>7. TypeOK'
  <2>1. residual' \in [Cells -> 0..MaxFed]
    <3>1. residualLen \in Nat
      BY <1>2
    <3>2. /\ TypeOK /\ toCopy \in Nat /\ taken + toCopy <= fed
          /\ CopyToResidual(residualLen, toCopy)
      BY <1>1, <1>2, <1>3
    <3> QED BY ONLY <3>1, <3>2, CopyKeepsType, Zenon
  <2> QED BY <1>1, <1>2, <1>4, <1>6, <2>1 DEF TypeOK, ringVars, Silent
<1>8. (Conserved /\ NeverThrows)'
  <2>1. preBufferCount' - Out' + AtHand' = preBufferCount - Out + AtHand + 0
    BY <1>1, <1>2, <1>6, Shapes DEF ringVars
  <2>2. taken' = taken + (elapsed' - elapsed) + 0 * CHUNK_SIZE + (residualLen' - residualLen)
    BY <1>1, <1>2, <1>3, Shapes DEF Silent
  <2> QED BY <1>1, <1>2, <1>7, <2>1, <2>2, Balance
<1>9. Timeline'
  BY <1>1 DEF Silent, Timeline
<1>10. Ring'
  <2>1. vadState' # "IDLE" => preBufferCount = 0
    BY <1>1, <1>2 DEF Ring
  <2> QED BY <1>1, <1>2, <1>6, <2>1, SameRing DEF ringVars, Silent
<1>11. Points'
  BY <1>1, <1>2, <1>4 DEF Points, Residual
<1> QED BY <1>7, <1>8, <1>9, <1>10, <1>11 DEF IInv, EverySampleInPlace

LEMMA TakeKeepsIInv ==
  ASSUME IInv, TakeChunk PROVE IInv'
<1> USE DEF TakeChunk, Silent
<1>1. /\ TypeOK /\ Conserved /\ NeverThrows /\ Ring /\ Points
      /\ pc = "chunks" /\ pc' = "infer" /\ residualLen = 0
      /\ taken + 1 \in 0..MaxFed /\ taken' \in 0..fed /\ taken' = taken + CHUNK_SIZE
  BY Conjuncts, Shapes DEF Points
<1>2. chunk' \in ChunkOrNone /\ chunk'.isResidual = FALSE /\ chunk'.first = taken + 1
  BY <1>1, MadeOfSamples DEF Own
<1>3. AtHand' = 1 /\ AtHand = 0 /\ Out' = 0 /\ Out = 0
  BY <1>1, <1>2 DEF Out, AtHand
<1>4. TypeOK'
  BY <1>1, <1>2 DEF TypeOK, ringVars
<1>5. (Conserved /\ NeverThrows)'
  <2>1. preBufferCount' - Out' + AtHand' = preBufferCount - Out + AtHand + 1
    BY <1>1, <1>3, Shapes DEF ringVars
  <2>2. taken' = taken + (elapsed' - elapsed) + 1 * CHUNK_SIZE + (residualLen' - residualLen)
    BY <1>1, Shapes
  <2> QED BY <1>1, <1>4, <2>1, <2>2, Balance
<1>6. Timeline'
  BY DEF Timeline
<1>7. Ring'
  <2>1. vadState' # "IDLE" => preBufferCount = 0
    BY <1>1 DEF Ring
  <2> QED BY <1>1, <1>3, <2>1, SameRing DEF ringVars
<1>8. Points'
  <2>1. chunk'.first = taken' - CHUNK_SIZE + 1
    BY <1>1, <1>2, Shapes
  <2> QED BY <1>1, <1>2, <2>1 DEF Points
<1> QED BY <1>4, <1>5, <1>6, <1>7, <1>8 DEF IInv, EverySampleInPlace

LEMMA SaveKeepsIInv ==
  ASSUME IInv, SaveResidual PROVE IInv'
<1> USE DEF SaveResidual, Silent
<1>1. /\ TypeOK /\ Conserved /\ NeverThrows /\ Ring /\ Points
      /\ pc = "chunks" /\ pc' = "ready" /\ taken' = fed /\ taken + CHUNK_SIZE > fed
  BY Conjuncts
<1>2. /\ residual' \in [Cells -> 0..MaxFed]
      /\ residualLen' \in 0..(CHUNK_SIZE - 1)
      /\ residualLen' - residualLen = fed - taken
  <2>1. CASE taken < fed
    <3>1. residualLen = 0 /\ residualLen' = fed - taken /\ CopyToResidual(0, fed - taken)
      BY <1>1, <2>1, Shapes DEF Points
    <3>2. fed - taken \in Nat /\ taken + (fed - taken) <= fed /\ fed - taken < CHUNK_SIZE
      BY <1>1, <2>1, Shapes
    <3>3. residual' \in [Cells -> 0..MaxFed]
      BY ONLY <1>1, <3>1, <3>2, CopyKeepsType, Zenon
    <3> QED BY <3>1, <3>2, <3>3
  <2>2. CASE taken = fed
    <3>1. residual' = residual /\ residualLen' = residualLen /\ residualLen < CHUNK_SIZE
      BY <1>1, <2>2, Shapes DEF Points
    <3>2. residual \in [Cells -> 0..MaxFed]
      BY <1>1 DEF TypeOK
    <3> QED BY <1>1, <2>2, <3>1, <3>2, Shapes
  <2> QED BY <1>1, <2>1, <2>2, Shapes
<1>3. AtHand' = 0 /\ AtHand = 0 /\ Out' = 0 /\ Out = 0
  BY <1>1 DEF Out, AtHand
<1>4. TypeOK'
  <2>1. fed \in 0..MaxFed /\ residualLen' \in 0..CHUNK_SIZE /\ taken' \in 0..fed
    BY <1>1, <1>2, Shapes
  <2> QED BY <1>1, <1>2, <2>1 DEF TypeOK, ringVars
<1>5. (Conserved /\ NeverThrows)'
  <2>1. preBufferCount' - Out' + AtHand' = preBufferCount - Out + AtHand + 0
    BY <1>1, <1>3, Shapes DEF ringVars
  <2>2. taken' = taken + (elapsed' - elapsed) + 0 * CHUNK_SIZE + (residualLen' - residualLen)
    BY <1>1, <1>2, Shapes
  <2> QED BY <1>1, <1>4, <2>1, <2>2, Balance
<1>6. Timeline'
  BY DEF Timeline
<1>7. Ring'
  <2>1. vadState' # "IDLE" => preBufferCount = 0
    BY <1>1 DEF Ring
  <2> QED BY <1>1, <1>3, <2>1, SameRing DEF ringVars
<1>8. Points'
  BY <1>1, <1>2 DEF Points
<1> QED BY <1>4, <1>5, <1>6, <1>7, <1>8 DEF IInv, EverySampleInPlace

LEMMA BeginsKeepsIInv ==
  ASSUME IInv, SpeechBegins PROVE IInv'
<1> USE DEF SpeechBegins, Silent
<1>1. /\ TypeOK /\ Conserved /\ NeverThrows /\ Ring /\ Points
      /\ pc = "infer" /\ pc' = "flush" /\ flushed' = 0 /\ vadState = "IDLE"
  BY Conjuncts
<1>2. AtHand' = AtHand /\ Out' = 0 /\ Out = 0
  BY <1>1 DEF Out, AtHand
<1>3. TypeOK'
  BY <1>1 DEF TypeOK, ringVars
<1>4. (Conserved /\ NeverThrows)'
  <2>1. preBufferCount' - Out' + AtHand' = preBufferCount - Out + AtHand + 0
    BY <1>1, <1>2, Account DEF ringVars
  <2>2. taken' = taken + (elapsed' - elapsed) + 0 * CHUNK_SIZE + (residualLen' - residualLen)
    BY <1>1, Shapes
  <2> QED BY <1>1, <1>3, <2>1, <2>2, Balance
<1>5. Timeline'
  BY DEF Timeline
<1>6. Ring'
  <2>1. vadState' # "IDLE" => preBufferCount = 0
    BY <1>1 DEF Ring
  <2> QED BY <1>1, <1>2, <2>1, SameRing DEF ringVars
<1>7. Points'
  BY <1>1 DEF Points
<1> QED BY <1>3, <1>4, <1>5, <1>6, <1>7 DEF IInv, EverySampleInPlace

--------------------------------------------------------------------------------
\* The chunk at hand goes out when nothing else of the ring is left, and process goes on:
\* the end of flushPreBuffer, SPEAKING and TRAILING_SILENCE.
LEMMA ForwardKeepsIInv ==
  ASSUME IInv, pc \in {"infer", "flush"}, preBufferCount = Out,
         Speech(chunk), ReturnFromChunk,
         preBuffer' = preBuffer, preBufferCount' = 0,
         preBufferHead' \in {0, preBufferHead}, flushed' = flushed,
         vadState' \in {"IDLE", "SPEAKING", "TRAILING_SILENCE"},
         trailingSilenceCount' \in 0..TrailingSilenceChunks
  PROVE  IInv'
<1> USE DEF Speech, ReturnFromChunk
<1>1. /\ TypeOK /\ Conserved /\ NeverThrows /\ Ring /\ Points
      /\ pc' = "chunks" /\ elapsed' = elapsed + CHUNK_SIZE
      /\ chunk.isResidual \in BOOLEAN
  BY Conjuncts, Shapes
<1>2. Out' = 0 /\ AtHand' = 0 /\ AtHand = IF chunk.isResidual THEN 0 ELSE 1
  BY <1>1 DEF Out, AtHand
<1>3. /\ residualLen = IF chunk.isResidual THEN CHUNK_SIZE ELSE 0
      /\ residualLen' = 0 /\ chunk.first = taken - CHUNK_SIZE + 1
  BY <1>1 DEF Points
<1>4. taken = elapsed + CHUNK_SIZE
  <2>1. preBufferCount - Out + AtHand = AtHand /\ taken = elapsed + Held
    BY <1>1, <1>2, Account, Shapes
  <2>2. Held = CHUNK_SIZE
    BY <1>2, <1>3, <2>1 DEF Held
  <2> QED BY <2>1, <2>2
<1>5. TypeOK'
  <2>1. elapsed' \in 0..MaxFed /\ preBufferHead' \in Nat /\ residualLen' \in 0..CHUNK_SIZE
    BY <1>1, <1>3, <1>4, Shapes
  <2> QED BY <1>1, <2>1 DEF TypeOK
<1>6. (Conserved /\ NeverThrows)'
  <2>1. preBufferCount' - Out' + AtHand' = preBufferCount - Out + AtHand + (-AtHand)
    BY <1>1, <1>2, Shapes
  <2>2. taken' = taken + (elapsed' - elapsed) + (-AtHand) * CHUNK_SIZE
                   + (residualLen' - residualLen)
    <3>1. CASE chunk.isResidual
      <4>1. (-AtHand) * CHUNK_SIZE = 0 /\ residualLen = CHUNK_SIZE
        BY <1>2, <1>3, <3>1
      <4> QED BY <1>1, <1>3, <4>1, Shapes
    <3>2. CASE ~chunk.isResidual
      <4>1. (-AtHand) * CHUNK_SIZE = -CHUNK_SIZE /\ residualLen = 0
        BY <1>2, <1>3, <3>2
      <4> QED BY <1>1, <1>3, <4>1, Shapes
    <3> QED BY <1>1, <3>1, <3>2
  <2>3. -AtHand \in {-1, 0, 1}
    <3>1. AtHand = 0 \/ AtHand = 1
      BY DEF AtHand
    <3> QED BY <3>1
  <2> QED BY <1>1, <1>5, <2>1, <2>2, <2>3, Balance
<1>7. Timeline'
  BY <1>1, <1>3, <1>4, Shapes DEF Timeline
<1>8. Ring'
  <2>1. preBuffer \in [0..(preBufferSlots - 1) -> ChunkOrNone] /\ preBufferHead' < preBufferSlots
    BY SMTT(30), <1>1, Shapes DEF Ring
  <2>2. 0 <= preBufferSlots /\ Out' = preBufferCount'
    BY <1>1, <1>2, Shapes
  <2> QED BY <1>1, <1>2, <2>1, <2>2 DEF Ring, ChunkOrNone
<1>9. Points'
  BY <1>1, <1>3 DEF Points
<1> QED BY <1>5, <1>6, <1>7, <1>8, <1>9 DEF IInv, EverySampleInPlace

LEMMA FirstKeepsIInv ==
  ASSUME IInv, FirstSpeech PROVE IInv'
<1>1. preBufferCount = Out
  BY Conjuncts, Shapes DEF FirstSpeech, Ring, Out
<1>2. trailingSilenceCount' \in 0..TrailingSilenceChunks
  BY Conjuncts DEF FirstSpeech, TypeOK
<1> QED BY <1>1, <1>2, ForwardKeepsIInv DEF FirstSpeech

LEMMA SpeakingKeepsIInv ==
  ASSUME IInv, Speaking PROVE IInv'
<1>1. preBufferCount = 0 /\ Out = 0 /\ trailingSilenceCount \in 0..TrailingSilenceChunks
  BY Conjuncts DEF Speaking, Ring, Out, TypeOK
<1>2. vadState' \in {"SPEAKING", "TRAILING_SILENCE"}
      /\ trailingSilenceCount' \in 0..TrailingSilenceChunks
  BY <1>1 DEF Speaking
<1> QED BY <1>1, <1>2, ForwardKeepsIInv DEF Speaking, ringVars

LEMMA TrailingKeepsIInv ==
  ASSUME IInv, TrailingSilence PROVE IInv'
<1>1. preBufferCount = 0 /\ Out = 0 /\ trailingSilenceCount \in 0..TrailingSilenceChunks
  BY Conjuncts DEF TrailingSilence, Ring, Out, TypeOK
<1>2. vadState' \in {"IDLE", "SPEAKING", "TRAILING_SILENCE"}
      /\ trailingSilenceCount' \in 0..TrailingSilenceChunks
  BY <1>1 DEF TrailingSilence
<1> QED BY <1>1, <1>2, ForwardKeepsIInv DEF TrailingSilence, ringVars

--------------------------------------------------------------------------------
\* The loops over the ring, from the oldest chunk.
LEMMA NextOfRing ==
  ASSUME IInv, pc \in {"flush", "remaining"}, flushed < preBufferCount
  PROVE  /\ Rem(Oldest + flushed, preBufferSlots) = Place(flushed)
         /\ InBounds(Place(flushed))
         /\ elapsed + CHUNK_SIZE <= taken
<1>1. TypeOK /\ Ring /\ flushed \in Nat /\ Out = flushed
  BY Conjuncts, Shapes DEF Out
<1>2. /\ preBufferSlots \in Nat \ {0} /\ preBufferHead \in Nat /\ preBufferCount \in Nat
      /\ preBufferHead < preBufferSlots /\ preBufferCount <= preBufferSlots
      /\ flushed < preBufferSlots /\ DOMAIN preBuffer = 0..(preBufferSlots - 1)
  BY <1>1, Shapes DEF Ring
<1>3. Rem(Oldest + flushed, preBufferSlots) = Place(flushed)
      /\ Place(flushed) \in 0..(preBufferSlots - 1)
  BY <1>1, <1>2, IndexIsPlace
<1>4. elapsed + 1 * CHUNK_SIZE + residualLen <= taken
  <2>1. AtHand \in {0, 1}
    BY DEF AtHand
  <2>2. preBufferCount - Out + AtHand >= 1
    BY <1>1, <1>2, <2>1
  <2> QED BY <2>2, HeldWasTaken
<1>5. elapsed + CHUNK_SIZE <= taken
  BY <1>1, <1>4, Shapes
<1> QED BY <1>2, <1>3, <1>5 DEF InBounds

LEMMA FlushRingKeepsIInv ==
  ASSUME IInv, FlushPreBuffer PROVE IInv'
<1>1. /\ TypeOK /\ Conserved /\ NeverThrows /\ Ring /\ Points
      /\ pc = "flush" /\ flushed < preBufferCount
  BY Conjuncts DEF FlushPreBuffer
<1>2. /\ Speech(preBuffer[Place(flushed)]) /\ flushed' = flushed + 1
      /\ UNCHANGED <<pc, vadState, trailingSilenceCount, ringVars, preBufferSlots,
                     residual, residualLen, fed, taken, chunk>>
  BY <1>1, NextOfRing DEF FlushPreBuffer
<1>3. /\ elapsed' = elapsed + CHUNK_SIZE /\ elapsed' \in 0..MaxFed /\ flushed' \in Nat
      /\ Out = flushed /\ Out' = flushed + 1 /\ AtHand' = AtHand
  BY <1>1, <1>2, NextOfRing, Shapes DEF Speech, Out, AtHand
<1>4. preBuffer[Place(flushed)].first = elapsed + 1
  <2>1. flushed \in Out..(preBufferCount - 1)
    BY <1>1, <1>3, Shapes
  <2>2. preBuffer[Place(flushed)].first = elapsed + 1 + (flushed - Out) * CHUNK_SIZE
    BY <1>1, <2>1 DEF Ring
  <2>3. (flushed - Out) * CHUNK_SIZE = 0
    BY <1>1, <1>3, Shapes
  <2> QED BY <1>1, <2>2, <2>3, Shapes
<1>5. TypeOK'
  BY <1>1, <1>2, <1>3 DEF TypeOK, ringVars
<1>6. (Conserved /\ NeverThrows)'
  <2>1. preBufferCount' - Out' + AtHand' = preBufferCount - Out + AtHand + (-1)
    <3>1. AtHand \in Int
      BY DEF AtHand
    <3> QED BY <1>1, <1>2, <1>3, <3>1, Shapes DEF ringVars
  <2>2. taken' = taken + (elapsed' - elapsed) + (-1) * CHUNK_SIZE + (residualLen' - residualLen)
    BY <1>1, <1>2, <1>3, Shapes
  <2>3. pc' \notin {"off", "thrown"}
    BY <1>1, <1>2
  <2> QED BY <1>1, <1>5, <2>1, <2>2, <2>3, Balance
<1>7. Timeline'
  BY <1>1, <1>2, <1>3, <1>4, Shapes DEF Timeline, Speech
<1>8. Ring'
  <2>1. ASSUME NEW k \in Out'..(preBufferCount' - 1)
        PROVE  (preBuffer[Place(k)].first = elapsed + 1 + (k - Out) * CHUNK_SIZE)'
    <3>1. Place(k)' = Place(k) /\ preBuffer' = preBuffer
      BY <1>2 DEF Place, ringVars
    <3>2. k \in Out..(preBufferCount - 1) /\ k - flushed - 1 \in Nat
      BY <1>1, <1>2, <1>3, Shapes DEF ringVars
    <3>3. preBuffer[Place(k)].first = elapsed + 1 + (k - Out) * CHUNK_SIZE
      BY <1>1, <3>2 DEF Ring
    <3>4. (k - flushed) * CHUNK_SIZE = (k - flushed - 1) * CHUNK_SIZE + CHUNK_SIZE
          /\ (k - flushed - 1) * CHUNK_SIZE \in Int
      BY <3>2, <1>1, Shapes, Times
    <3>5. k - Out' = k - flushed - 1
      BY <1>1, <1>3, Shapes
    <3>6. preBuffer[Place(k)].first = elapsed' + 1 + (k - flushed - 1) * CHUNK_SIZE
      BY <1>1, <1>3, <3>3, <3>4, Shapes
    <3> QED BY <3>1, <3>5, <3>6
  <2>2. Out' <= preBufferCount'
    BY <1>1, <1>2, <1>3, Shapes DEF ringVars
  <2>3. vadState = "IDLE" /\ pc # "off"
    BY <1>1 DEF Points
  <2> QED BY <1>1, <1>2, <2>1, <2>2, <2>3 DEF Ring, ringVars, ChunkOrNone
<1>9. Points'
  BY <1>1, <1>2 DEF Points
<1> QED BY <1>5, <1>6, <1>7, <1>8, <1>9 DEF IInv, EverySampleInPlace

--------------------------------------------------------------------------------
\* The places of a ring of s slots with c chunks whose next one goes to h.
PlaceIn(s, h, c, k) ==
  LET oldest == IF h >= c THEN h - c ELSE h - c + s
  IN IF oldest + k < s THEN oldest + k ELSE oldest + k - s

LEMMA PlacesAfterAdd ==
  ASSUME NEW s \in Nat \ {0}, NEW h \in Nat, NEW c \in Nat, h < s, c <= s,
         NEW h1 \in Nat, h1 = IF h + 1 < s THEN h + 1 ELSE 0,
         NEW k \in Nat
  PROVE  /\ c < s /\ k < c => PlaceIn(s, h1, c + 1, k) = PlaceIn(s, h, c, k)
         /\ c < s => PlaceIn(s, h1, c + 1, c) = h
         /\ c = s /\ k < s - 1 => PlaceIn(s, h1, c, k) = PlaceIn(s, h, c, k + 1)
         /\ c = s => PlaceIn(s, h1, c, s - 1) = h
         /\ c < s /\ k < c => PlaceIn(s, h, c, k) # h
         /\ c = s /\ k < s - 1 => PlaceIn(s, h, c, k + 1) # h
<1>1. CASE c < s
  BY <1>1 DEF PlaceIn
<1>2. CASE c = s
  BY <1>2 DEF PlaceIn
<1> QED BY <1>1, <1>2

\* What a chunk does to the accounts when it is put into the ring.
LEMMA AddKeepsIInv ==
  ASSUME IInv, AddToPreBuffer PROVE IInv'
<1>1. /\ TypeOK /\ Conserved /\ NeverThrows /\ Ring /\ Points
      /\ pc = "infer" /\ vadState = "IDLE" /\ Out = 0
      /\ preBufferSlots \in Nat \ {0} /\ preBufferHead \in Nat /\ preBufferCount \in Nat
      /\ preBufferHead < preBufferSlots /\ preBufferCount <= preBufferSlots
      /\ preBuffer \in [0..(preBufferSlots - 1) -> ChunkOrNone]
      /\ chunk \in ChunkOrNone /\ chunk.isResidual \in BOOLEAN
  BY Conjuncts, Shapes DEF AddToPreBuffer, Ring, Out, TypeOK
<1> DEFINE full == preBufferCount = preBufferSlots
<1>2. /\ IF full THEN Skipped(CHUNK_SIZE) ELSE Silent
      /\ preBuffer' = [preBuffer EXCEPT ![preBufferHead] = chunk]
      /\ preBufferHead' = (preBufferHead + 1) % preBufferSlots
      /\ preBufferCount' =
           IF preBufferCount < preBufferSlots THEN preBufferCount + 1 ELSE preBufferCount
      /\ ReturnFromChunk
      /\ UNCHANGED <<vadState, trailingSilenceCount, flushed>>
  <2>1. InBounds(preBufferHead)
    BY <1>1 DEF InBounds
  <2> QED BY <2>1 DEF AddToPreBuffer
<1>3. /\ pc' = "chunks" /\ preBufferSlots' = preBufferSlots /\ fed' = fed /\ taken' = taken
      /\ residual' = residual /\ chunk' = chunk /\ vadState' = "IDLE"
      /\ residualLen' = 0 /\ residualLen = (IF chunk.isResidual THEN CHUNK_SIZE ELSE 0)
      /\ chunk.first = taken - CHUNK_SIZE + 1
  BY <1>1, <1>2 DEF ReturnFromChunk, Points
<1>4. Out' = 0 /\ AtHand' = 0 /\ AtHand = IF chunk.isResidual THEN 0 ELSE 1
  BY <1>1, <1>3 DEF Out, AtHand
<1>5. preBufferHead' \in Nat /\ preBufferHead' < preBufferSlots
      /\ preBufferHead' = IF preBufferHead + 1 < preBufferSlots THEN preBufferHead + 1 ELSE 0
  <2>1. PICK i \in Nat : i = preBufferHead + 1
    BY <1>1
  <2>2. i < 2 * preBufferSlots
    BY <1>1, <2>1
  <2>3. i % preBufferSlots = IF i < preBufferSlots THEN i ELSE i - preBufferSlots
    BY <1>1, <2>2, RemOnce
  <2>4. preBufferHead' = i % preBufferSlots
    BY <1>2, <2>1
  <2> QED BY <1>1, <2>1, <2>3, <2>4
<1>6. taken = elapsed + preBufferCount * CHUNK_SIZE + CHUNK_SIZE
      /\ preBufferCount * CHUNK_SIZE \in Nat
  <2>1. taken = elapsed + Held
    BY <1>1, Account
  <2>2. Held = preBufferCount * CHUNK_SIZE + CHUNK_SIZE
    <3>1. CASE chunk.isResidual
      <4>1. preBufferCount - Out + AtHand = preBufferCount /\ residualLen = CHUNK_SIZE
        BY <1>1, <1>3, <1>4, <3>1
      <4> QED BY <4>1 DEF Held
    <3>2. CASE ~chunk.isResidual
      <4>1. preBufferCount - Out + AtHand = preBufferCount + 1 /\ residualLen = 0
        BY <1>1, <1>3, <1>4, <3>2
      <4>2. (preBufferCount + 1) * CHUNK_SIZE = preBufferCount * CHUNK_SIZE + CHUNK_SIZE
            /\ preBufferCount * CHUNK_SIZE \in Nat
        BY <1>1, ChunksAdd
      <4> QED BY <4>1, <4>2 DEF Held
    <3> QED BY <1>1, <3>1, <3>2
  <2>3. preBufferCount * CHUNK_SIZE \in Nat
    BY <1>1, ChunksAdd
  <2> QED BY <1>1, <2>1, <2>2, <2>3, Shapes
<1>7. /\ elapsed' = elapsed + (IF full THEN CHUNK_SIZE ELSE 0)
      /\ elapsed' \in 0..MaxFed
  BY <1>1, <1>2, <1>6, Shapes DEF Skipped, Silent
<1>8. preBuffer' \in [0..(preBufferSlots - 1) -> ChunkOrNone]
  BY <1>1, <1>2
<1>9. TypeOK'
  <2>1. preBuffer' \in Rings
    <3>1. preBufferSlots \in SlotChoices
      BY <1>1 DEF TypeOK
    <3> QED BY <1>8, <3>1 DEF Rings
  <2>2. preBufferCount' \in Nat /\ residualLen' \in 0..CHUNK_SIZE
    BY <1>1, <1>2, <1>3
  <2> QED BY <1>1, <1>2, <1>3, <1>5, <1>7, <2>1, <2>2 DEF TypeOK
<1>10. (Conserved /\ NeverThrows)'
  <2> DEFINE e == (IF full THEN 0 ELSE 1) - AtHand
  <2>1. e \in {-1, 0, 1}
    <3>1. AtHand = 0 \/ AtHand = 1
      BY DEF AtHand
    <3> QED BY <3>1
  <2>0. ASSUME NEW x \in Int, taken' = taken,
               (elapsed' - elapsed) + e * CHUNK_SIZE = x, residualLen' - residualLen = -x
        PROVE  taken' = taken + (elapsed' - elapsed) + e * CHUNK_SIZE
                          + (residualLen' - residualLen)
    <3>1. e * CHUNK_SIZE \in Int
      <4> HIDE DEF e
      <4> QED BY <2>1
    <3>2. PICK d \in Int, t \in Int, l \in Int, l1 \in Int, r \in Int, r1 \in Int :
            /\ d = e * CHUNK_SIZE /\ t = taken /\ l = elapsed /\ l1 = elapsed'
            /\ r = residualLen /\ r1 = residualLen'
      BY <1>1, <1>3, <1>7, <3>1, Shapes
    <3> HIDE DEF e
    <3>3. (l1 - l) + d = x /\ r1 - r = -x
      BY <2>0, <3>2
    <3>4. t = t + (l1 - l) + d + (r1 - r)
      BY ONLY <3>3
    <3> QED BY <2>0, <3>2, <3>4
  <2>2. preBufferCount' - Out' + AtHand' = preBufferCount - Out + AtHand + e
    <3>1. AtHand \in Int
      BY DEF AtHand
    <3> QED BY <1>1, <1>2, <1>4, <3>1
  <2>3. taken' = taken + (elapsed' - elapsed) + e * CHUNK_SIZE + (residualLen' - residualLen)
    <3>1. CASE chunk.isResidual
      <4>1. residualLen' - residualLen = -CHUNK_SIZE
        BY <1>1, <1>3, <3>1
      <4>2. (elapsed' - elapsed) + e * CHUNK_SIZE = CHUNK_SIZE
        BY <1>1, <1>4, <1>7, <3>1, Shapes
      <4> QED BY <1>3, <2>0, <4>1, <4>2
    <3>2. CASE ~chunk.isResidual
      <4>1. residualLen' - residualLen = 0
        <5>1. residualLen' = 0 /\ residualLen = 0
          BY <1>3, <3>2
        <5> QED BY <5>1
      <4>2. (elapsed' - elapsed) + e * CHUNK_SIZE = 0
        BY <1>1, <1>4, <1>7, <3>2, Shapes
      <4> QED BY <1>3, <2>0, <4>1, <4>2
    <3> QED BY <1>1, <3>1, <3>2
  <2>4. pc' \notin {"off", "thrown"}
    BY <1>3
  <2> HIDE DEF e
  <2> QED BY <1>1, <1>9, <2>1, <2>2, <2>3, <2>4, Balance
<1>11. Timeline'
  BY <1>2 DEF Timeline, Skipped, Silent
<1>12. Ring'
  <2>a. PICK s \in Nat \ {0}, h \in Nat, c \in Nat, h1 \in Nat :
          s = preBufferSlots /\ h = preBufferHead /\ c = preBufferCount /\ h1 = preBufferHead'
    BY <1>1, <1>5
  <2>0. \A k \in Nat :
         /\ c < s /\ k < c => PlaceIn(s, h1, c + 1, k) = PlaceIn(s, h, c, k)
         /\ c < s => PlaceIn(s, h1, c + 1, c) = h
         /\ c = s /\ k < s - 1 => PlaceIn(s, h1, c, k) = PlaceIn(s, h, c, k + 1)
         /\ c = s => PlaceIn(s, h1, c, s - 1) = h
         /\ c < s /\ k < c => PlaceIn(s, h, c, k) # h
         /\ c = s /\ k < s - 1 => PlaceIn(s, h, c, k + 1) # h
    <3>1. h < s /\ c <= s /\ h1 = IF h + 1 < s THEN h + 1 ELSE 0
      BY <1>1, <1>5, <2>a
    <3> QED BY ONLY <3>1, PlacesAfterAdd
  <2>1. ASSUME NEW k \in 0..(preBufferCount' - 1)
        PROVE  preBuffer'[Place(k)'].first = elapsed' + 1 + k * CHUNK_SIZE
    <3>1. /\ Place(k)' = PlaceIn(preBufferSlots, preBufferHead', preBufferCount', k)
          /\ \A j : Place(j) = PlaceIn(preBufferSlots, preBufferHead, preBufferCount, j)
      BY <1>3 DEF Place, PlaceIn
    <3>2. ASSUME NEW j \in 0..(preBufferCount - 1)
          PROVE  /\ Place(j) \in 0..(preBufferSlots - 1)
                 /\ preBuffer[Place(j)].first = elapsed + 1 + j * CHUNK_SIZE
      <4>1. j \in Nat /\ j < preBufferSlots /\ j \in Out..(preBufferCount - 1)
        BY <1>1
      <4>2. Place(j) \in 0..(preBufferSlots - 1)
        BY <1>1, <4>1, IndexIsPlace
      <4>3. preBuffer[Place(j)].first = elapsed + 1 + (j - Out) * CHUNK_SIZE
        BY <1>1, <4>1 DEF Ring
      <4>4. j - Out = j
        BY <1>1, <4>1
      <4> QED BY <4>2, <4>3, <4>4
    <3>3. preBuffer'[preBufferHead] = chunk
      BY <1>1, <1>2
    <3>4. CASE preBufferCount < preBufferSlots
      <4>1. elapsed' = elapsed /\ preBufferCount' = preBufferCount + 1
        BY <1>1, <1>2, <1>7, <3>4, Shapes
      <4>2. CASE k < preBufferCount
        <5>1. Place(k)' = Place(k) /\ Place(k) # preBufferHead
          BY <1>1, <1>2, <2>a, <2>0, <3>1, <3>4, <4>1, <4>2
        <5>2. k \in 0..(preBufferCount - 1)
          BY <1>1, <4>2
        <5>3. preBuffer'[Place(k)] = preBuffer[Place(k)]
          BY <1>1, <1>2, <3>2, <5>1, <5>2
        <5> QED BY <3>2, <4>1, <5>1, <5>2, <5>3
      <4>3. CASE k = preBufferCount
        <5>1. Place(k)' = preBufferHead
          BY <1>1, <1>2, <2>a, <2>0, <3>1, <3>4, <4>1, <4>3
        <5>2. chunk.first = elapsed + 1 + preBufferCount * CHUNK_SIZE
          <6>1. PICK p \in Nat, l \in Nat : p = preBufferCount * CHUNK_SIZE /\ l = elapsed
            BY <1>1, <1>6, Shapes
          <6>2. taken = l + p + CHUNK_SIZE
            BY <1>6, <6>1
          <6>3. chunk.first = l + 1 + p
            BY <1>3, <6>2
          <6> QED BY <6>1, <6>3
        <5> QED BY <3>3, <4>1, <4>3, <5>1, <5>2
      <4> QED BY <1>1, <4>1, <4>2, <4>3
    <3>5. CASE preBufferCount = preBufferSlots
      <4>1. elapsed' = elapsed + CHUNK_SIZE /\ preBufferCount' = preBufferCount
        BY <1>1, <1>2, <1>7, <3>5, Shapes
      <4>2. CASE k < preBufferSlots - 1
        <5>1. Place(k)' = Place(k + 1) /\ Place(k + 1) # preBufferHead
          BY <1>1, <1>2, <2>a, <2>0, <3>1, <3>5, <4>1, <4>2
        <5>2. k + 1 \in 0..(preBufferCount - 1) /\ k \in Nat
          BY <1>1, <3>5, <4>2
        <5>3. preBuffer'[Place(k + 1)] = preBuffer[Place(k + 1)]
          BY <1>1, <1>2, <3>2, <5>1, <5>2
        <5>4. preBuffer[Place(k + 1)].first = elapsed + 1 + (k + 1) * CHUNK_SIZE
          BY <3>2, <5>2
        <5>5. (k + 1) * CHUNK_SIZE = k * CHUNK_SIZE + CHUNK_SIZE /\ k * CHUNK_SIZE \in Nat
          BY <5>2, ChunksAdd
        <5>6. preBuffer[Place(k + 1)].first = elapsed' + 1 + k * CHUNK_SIZE
          BY <1>1, <4>1, <5>4, <5>5, Shapes, SMTT(30)
        <5> QED BY <5>1, <5>3, <5>6
      <4>3. CASE k = preBufferSlots - 1
        <5>1. Place(k)' = preBufferHead
          BY <1>1, <1>2, <2>a, <2>0, <3>1, <3>5, <4>1, <4>3
        <5>2. preBufferCount * CHUNK_SIZE = k * CHUNK_SIZE + CHUNK_SIZE
              /\ k * CHUNK_SIZE \in Nat
          <6>1. k \in Nat /\ preBufferCount = k + 1
            BY <1>1, <3>5, <4>3
          <6> QED BY <6>1, ChunksAdd
        <5>3. PICK p \in Nat, l \in Nat : p = k * CHUNK_SIZE /\ l = elapsed
          BY <1>1, <5>2, Shapes
        <5>4. taken = l + (p + CHUNK_SIZE) + CHUNK_SIZE
          BY <1>6, <5>2, <5>3
        <5>5. chunk.first = l + CHUNK_SIZE + 1 + p
          BY <1>3, <5>4
        <5>6. chunk.first = elapsed' + 1 + k * CHUNK_SIZE
          BY <4>1, <5>3, <5>5
        <5> QED BY <3>3, <5>1, <5>6
      <4> QED BY <1>1, <3>5, <4>1, <4>2, <4>3
    <3> QED BY <1>1, <3>4, <3>5
  <2>2. preBufferCount' <= preBufferSlots /\ preBufferCount' \in Nat
    BY <1>1, <1>2
  <2>3. \A k \in 0..(preBufferCount' - 1) :
           preBuffer'[Place(k)'].first = elapsed' + 1 + (k - Out') * CHUNK_SIZE
    <3>1. ASSUME NEW k \in 0..(preBufferCount' - 1) PROVE k - Out' = k
      BY <1>4, <2>2
    <3> QED BY <2>1, <3>1
  <2>4. Out' <= preBufferCount'
    BY <1>4, <2>2
  <2>5. /\ pc' = "chunks" /\ vadState' = "IDLE" /\ Out' = 0
        /\ preBufferHead' < preBufferSlots' /\ preBufferCount' <= preBufferSlots'
        /\ preBuffer' \in [0..(preBufferSlots' - 1) -> ChunkOrNone]
    BY <1>3, <1>4, <1>5, <1>8, <2>2
  <2> QED BY <2>3, <2>4, <2>5 DEF Ring
<1>13. Points'
  BY <1>3, Shapes DEF Points
<1> QED BY <1>9, <1>10, <1>11, <1>12, <1>13 DEF IInv, EverySampleInPlace

--------------------------------------------------------------------------------
LEMMA FlushKeepsIInv ==
  ASSUME IInv, Flush PROVE IInv'
<1>1. /\ TypeOK /\ Conserved /\ NeverThrows /\ Ring /\ Points
      /\ pc = "ready" /\ pc' = "remaining" /\ residualLen' = 0 /\ flushed' = 0
      /\ UNCHANGED <<vadState, trailingSilenceCount, ringVars, preBufferSlots, residual,
                     fed, taken, chunk>>
  BY Conjuncts DEF Flush
<1>2. /\ elapsed' = elapsed + residualLen
      /\ callback'.kind = "speech" =>
           /\ vadState # "IDLE"
           /\ callback'.first = taken - residualLen + 1 /\ callback'.n = residualLen
  <2>1. CASE residualLen = 0
    BY <1>1, <2>1, Shapes DEF Flush, Silent
  <2>2. CASE residualLen > 0 /\ vadState # "IDLE"
    <3>1. residualLen # 0 /\ residualLen \in Nat
      BY <1>1, <2>2, Shapes
    <3>2. /\ callback' = [kind |-> "speech", n |-> residualLen,
                           first |-> taken - residualLen + 1,
                           data |-> [i \in 1..residualLen |-> residual[i]]]
          /\ elapsed' = elapsed + residualLen
      BY <2>2, <3>1 DEF Flush
    <3> QED BY <2>2, <3>2
  <2>3. CASE residualLen > 0 /\ vadState = "IDLE"
    BY <1>1, <2>3, Shapes DEF Flush, Skipped
  <2> QED BY <1>1, <2>1, <2>2, <2>3, Shapes
<1>3. AtHand' = 0 /\ AtHand = 0 /\ Out' = 0 /\ Out = 0
  BY <1>1 DEF Out, AtHand
<1>4. elapsed' \in 0..MaxFed
  <2>1. elapsed + 0 * CHUNK_SIZE + residualLen <= taken
    BY <1>1, <1>3, HeldWasTaken, Shapes
  <2> QED BY <1>1, <1>2, <2>1, Shapes
<1>5. TypeOK'
  <2>1. residualLen' \in 0..CHUNK_SIZE /\ flushed' \in Nat
    BY <1>1
  <2> QED BY <1>1, <1>4, <2>1 DEF TypeOK, ringVars
<1>6. (Conserved /\ NeverThrows)'
  <2>1. preBufferCount' - Out' + AtHand' = preBufferCount - Out + AtHand + 0
    BY <1>1, <1>3, Shapes DEF ringVars
  <2>2. taken' = taken + (elapsed' - elapsed) + 0 * CHUNK_SIZE + (residualLen' - residualLen)
    BY <1>1, <1>2, Shapes
  <2> QED BY <1>1, <1>5, <2>1, <2>2, Balance
<1>7. Timeline'
  <2>1. ASSUME vadState # "IDLE" PROVE elapsed' = taken
    <3>1. preBufferCount = 0
      BY <1>1, <2>1 DEF Ring
    <3>2. Held = residualLen
      BY <1>1, <1>3, <3>1, Shapes DEF Held
    <3> QED BY <1>1, <1>2, <3>2, Account
  <2> QED BY <1>1, <1>2, <2>1, Shapes DEF Timeline
<1>8. Ring'
  <2>1. vadState' # "IDLE" => preBufferCount = 0
    BY <1>1 DEF Ring
  <2> QED BY <1>1, <1>3, <2>1, SameRing DEF ringVars
<1>9. Points'
  BY <1>1 DEF Points
<1> QED BY <1>5, <1>6, <1>7, <1>8, <1>9 DEF IInv, EverySampleInPlace

LEMMA RemainingKeepsIInv ==
  ASSUME IInv, FlushRemainingAsSkipped PROVE IInv'
<1>1. /\ TypeOK /\ Conserved /\ NeverThrows /\ Ring /\ Points
      /\ pc = "remaining" /\ flushed < preBufferCount /\ vadState = "IDLE"
  BY Conjuncts DEF FlushRemainingAsSkipped
<1>2. /\ Skipped(CHUNK_SIZE) /\ flushed' = flushed + 1
      /\ UNCHANGED <<pc, vadState, trailingSilenceCount, ringVars, preBufferSlots,
                     residual, residualLen, fed, taken, chunk>>
  BY <1>1, NextOfRing DEF FlushRemainingAsSkipped
<1>3. /\ elapsed' = elapsed + CHUNK_SIZE /\ elapsed' \in 0..MaxFed /\ flushed' \in Nat
      /\ Out = flushed /\ Out' = flushed + 1 /\ AtHand' = 0 /\ AtHand = 0
  BY <1>1, <1>2, NextOfRing, Shapes DEF Skipped, Out, AtHand
<1>4. TypeOK'
  BY <1>1, <1>2, <1>3 DEF TypeOK, ringVars
<1>5. (Conserved /\ NeverThrows)'
  <2>1. preBufferCount' - Out' + AtHand' = preBufferCount - Out + AtHand + (-1)
    BY <1>1, <1>2, <1>3, Shapes DEF ringVars
  <2>2. taken' = taken + (elapsed' - elapsed) + (-1) * CHUNK_SIZE + (residualLen' - residualLen)
    BY <1>1, <1>2, <1>3, Shapes
  <2>3. pc' \notin {"off", "thrown"}
    BY <1>1, <1>2
  <2> QED BY <1>1, <1>4, <2>1, <2>2, <2>3, Balance
<1>6. Timeline'
  BY <1>2 DEF Timeline, Skipped
<1>7. Ring'
  <2>1. Out' <= preBufferCount'
    BY <1>1, <1>2, <1>3, Shapes DEF ringVars
  <2> QED BY <1>1, <1>2, <2>1 DEF Ring, ringVars, ChunkOrNone
<1>8. Points'
  BY <1>1, <1>2 DEF Points
<1> QED BY <1>4, <1>5, <1>6, <1>7, <1>8 DEF IInv, EverySampleInPlace

LEMMA EndKeepsIInv ==
  ASSUME IInv, EndOfRecording PROVE IInv'
<1>1. /\ TypeOK /\ Conserved /\ NeverThrows /\ Ring /\ Points
      /\ pc = "remaining" /\ pc' = "off" /\ Silent
      /\ UNCHANGED <<vadState, trailingSilenceCount, preBuffer, preBufferSlots, residual,
                     residualLen, fed, taken, chunk, flushed>>
  BY Conjuncts DEF EndOfRecording
<1>2. preBufferCount = Out /\ preBufferCount' = 0 /\ preBufferHead' \in Nat
  <2>1. Out = flushed /\ Out <= preBufferCount
    BY <1>1 DEF Out, Ring
  <2>2. CASE vadState = "IDLE"
    BY <1>1, <2>1, <2>2, Shapes DEF EndOfRecording
  <2>3. CASE vadState # "IDLE"
    BY <1>1, <2>1, <2>3, Shapes DEF EndOfRecording, Ring
  <2> QED BY <2>2, <2>3
<1>3. residualLen = 0 /\ taken = fed /\ AtHand = 0 /\ AtHand' = 0 /\ Out' = 0
  BY <1>1 DEF Points, AtHand, Out
<1>4. elapsed' = fed' /\ fed' \in Nat /\ taken' = fed'
  <2>1. preBufferCount - Out + AtHand = 0
    BY <1>1, <1>2, <1>3, Shapes
  <2>2. Held = 0
    BY <1>3, <2>1 DEF Held
  <2> QED BY <1>1, <1>3, <2>2, Account, Shapes DEF Silent
<1>5. TypeOK'
  BY <1>1, <1>2 DEF TypeOK, Silent
<1>6. (Conserved /\ Timeline /\ NeverThrows)'
  <2>1. preBufferCount' - Out' + AtHand' = 0
    BY <1>2, <1>3
  <2>2. Held' = 0
    BY <1>1, <1>3, <2>1 DEF Held
  <2> QED BY <1>1, <1>4, <2>2 DEF Conserved, Timeline, NeverThrows, Silent
<1>7. Ring' /\ Points'
  BY <1>1, <1>2, <1>3, <1>4 DEF Ring, Points
<1> QED BY <1>5, <1>6, <1>7 DEF IInv, EverySampleInPlace

LEMMA StutterKeepsIInv ==
  ASSUME IInv, UNCHANGED vars PROVE IInv'
<1>1. UNCHANGED <<pc, vadState, trailingSilenceCount, preBuffer, preBufferHead,
                  preBufferCount, preBufferSlots, residual, residualLen, fed, taken, chunk,
                  flushed, callback, elapsed>>
  BY DEF vars, ringVars
<1>2. (TypeOK /\ Ring /\ Points)'
  BY <1>1, Conjuncts DEF TypeOK, Ring, Points, Place, Out
<1>3. (Conserved /\ Timeline /\ NeverThrows)'
  BY <1>1, Conjuncts DEF Conserved, Timeline, NeverThrows, Held, Out, AtHand
<1> QED BY <1>2, <1>3 DEF IInv, EverySampleInPlace

LEMMA NextKeepsIInv ==
  ASSUME ~MayResize, IInv, [Next]_vars PROVE IInv'
BY ResetKeepsIInv, ResizeKeepsIInv, ProcessKeepsIInv, FillKeepsIInv, TakeKeepsIInv,
   SaveKeepsIInv, AddKeepsIInv, BeginsKeepsIInv, FlushRingKeepsIInv, FirstKeepsIInv,
   SpeakingKeepsIInv, TrailingKeepsIInv, FlushKeepsIInv, RemainingKeepsIInv, EndKeepsIInv,
   StutterKeepsIInv
   DEF Next

--------------------------------------------------------------------------------
\* The inductive invariant holds, whatever the sizes of chunks, buffers and ring, as long as
\* setPreBufferSlots is not called during a recording.
THEOREM InvariantHolds == ASSUME ~MayResize PROVE Spec => []IInv
<1>1. Init => IInv
  BY InitIInv
<1>2. IInv /\ [Next]_vars => IInv'
  BY NextKeepsIInv
<1>3. QED BY <1>1, <1>2, PTL DEF Spec

\* Every sample given to process goes out exactly once, at its place in the recording, and no
\* access leaves the ring.
THEOREM EverySampleOnce == ASSUME ~MayResize PROVE Spec => []EverySampleInPlace
<1>1. IInv => EverySampleInPlace
  BY DEF IInv
<1>2. QED BY <1>1, InvariantHolds, PTL

--------------------------------------------------------------------------------
(***************************************************************************)
(* VadTimeline: milliseconds of samples.                                   *)
(***************************************************************************)
LEMMA Quotient ==
  ASSUME NEW a \in Nat, NEW m \in Nat \ {0}
  PROVE  /\ a \div m \in Nat /\ (a \div m) * m \in Nat
         /\ (a \div m) * m <= a /\ a < (a \div m) * m + m
BY Z3

LEMMA TimesGrow ==
  ASSUME NEW x \in Int, NEW y \in Int, NEW m \in Nat, x <= y
  PROVE  x * m \in Int /\ y * m \in Int /\ x * m <= y * m
<1>1. x * m \in Int /\ y * m \in Int /\ (y - x) * m = y * m - x * m
  BY Z3
<1>2. (y - x) * m >= 0
  <2>1. y - x \in Nat
    OBVIOUS
  <2>2. QED BY <2>1, Z3
<1>3. QED BY <1>1, <1>2

LEMMA TimesNext ==
  ASSUME NEW x \in Int, NEW m \in Nat
  PROVE  x * m \in Int /\ (x + 1) * m = x * m + m
BY Z3

\* A smaller multiple than the next one is not more.
LEMMA TimesLess ==
  ASSUME NEW x \in Int, NEW y \in Int, NEW m \in Nat \ {0}, x * m < y * m + m
  PROVE  x <= y
<1> SUFFICES ASSUME y + 1 <= x PROVE FALSE
  OBVIOUS
<1>1. (y + 1) * m <= x * m
  BY TimesGrow
<1>2. (y + 1) * m = y * m + m /\ y * m \in Int /\ x * m \in Int
  BY TimesNext
<1> QED BY <1>1, <1>2

LEMMA QuotientGrows ==
  ASSUME NEW a \in Nat, NEW b \in Nat, NEW m \in Nat \ {0}, a <= b
  PROVE  a \div m <= b \div m
<1> DEFINE x == a \div m
           y == b \div m
<1>1. x \in Nat /\ x * m \in Nat /\ x * m <= a
  BY Quotient
<1>2. y \in Nat /\ y * m \in Nat /\ b < y * m + m
  BY Quotient
<1> HIDE DEF x, y
<1>3. x * m < y * m + m
  BY <1>1, <1>2
<1>4. x <= y
  BY <1>1, <1>2, <1>3, TimesLess
<1> QED BY <1>4 DEF x, y

LEMMA QuotientNext ==
  ASSUME NEW a \in Nat, NEW b \in Nat, NEW m \in Nat \ {0}, a + m <= b
  PROVE  a \div m < b \div m
<1> DEFINE x == a \div m
           y == b \div m
<1>1. x \in Nat /\ x * m \in Nat /\ x * m <= a
  BY Quotient
<1>2. y \in Nat /\ y * m \in Nat /\ b < y * m + m
  BY Quotient
<1> HIDE DEF x, y
<1>3. (x + 1) * m = x * m + m
  BY <1>1, TimesNext
<1>4. (x + 1) * m < y * m + m
  BY <1>1, <1>2, <1>3
<1>5. x + 1 <= y
  BY <1>1, <1>2, <1>4, TimesLess
<1> QED BY <1>1, <1>2, <1>5 DEF x, y

\* What the two divisions lose of a time and its offset is a millisecond at most.
LEMMA LostInDivisions ==
  ASSUME NEW a \in Nat, NEW s \in Int, a + s \in Nat, NEW m \in Nat \ {0}
  PROVE  /\ a \div m + CDiv(s, m) \in Int
         /\ Within(a \div m + CDiv(s, m), (a + s) \div m, 1)
<1> DEFINE x == a \div m
           z == (a + s) \div m
<1>1. x \in Nat /\ x * m \in Nat /\ x * m <= a /\ a < x * m + m
  BY Quotient
<1>2. z \in Nat /\ z * m \in Nat /\ z * m <= a + s /\ a + s < z * m + m
  BY Quotient
<1>3. CASE s >= 0
  <2> DEFINE y == s \div m
  <2>1. y \in Nat /\ y * m \in Nat /\ y * m <= s /\ s < y * m + m
    BY <1>3, Quotient
  <2>2. CDiv(s, m) = y
    BY <1>3 DEF CDiv
  <2> HIDE DEF x, y, z
  <2>3. (x + y) * m = x * m + y * m /\ (x + y + 1) * m = x * m + y * m + m
        /\ (z + 1) * m = z * m + m
    BY <1>1, <1>2, <2>1, Z3
  <2>4. x + y <= z
    <3>1. (x + y) * m < z * m + m
      BY <1>1, <1>2, <2>1, <2>3
    <3> QED BY <1>1, <1>2, <2>1, <3>1, TimesLess
  <2>5. z <= x + y + 1
    <3>1. z * m < (x + y + 1) * m + m
      BY <1>1, <1>2, <2>1, <2>3
    <3> QED BY <1>1, <1>2, <2>1, <3>1, TimesLess
  <2>6. Within(x + CDiv(s, m), z, 1) /\ x + CDiv(s, m) \in Int
    BY <1>1, <1>2, <2>1, <2>2, <2>4, <2>5 DEF Within
  <2> QED BY <2>6 DEF x, z
<1>4. CASE s < 0
  <2> DEFINE y == (-s) \div m
  <2>1. y \in Nat /\ y * m \in Nat /\ y * m <= -s /\ -s < y * m + m
    BY <1>4, Quotient
  <2>2. CDiv(s, m) = -y
    BY <1>4 DEF CDiv
  <2> HIDE DEF x, y, z
  <2>3. (x - y) * m = x * m - y * m /\ (z + 1) * m = z * m + m
    BY <1>1, <1>2, <2>1, Z3
  <2>4. x - y <= z + 1
    <3>1. (x - y) * m < (z + 1) * m + m
      BY <1>1, <1>2, <2>1, <2>3
    <3> QED BY <1>1, <1>2, <2>1, <3>1, TimesLess
  <2>5. z <= x - y
    <3>1. z * m < (x - y) * m + m
      BY <1>1, <1>2, <2>1, <2>3
    <3> QED BY <1>1, <1>2, <2>1, <3>1, TimesLess
  <2>6. Within(x + CDiv(s, m), z, 1) /\ x + CDiv(s, m) \in Int
    BY <1>1, <1>2, <2>1, <2>2, <2>4, <2>5 DEF Within
  <2> QED BY <2>6 DEF x, z
<1> QED BY <1>3, <1>4

(***************************************************************************)
(* The map gives every piece of the recording its own offset.              *)
(***************************************************************************)
LEMMA MapTyped ==
  ASSUME TimelineTypeOK, NEW j \in DOMAIN offset_map
  PROVE  /\ j \in Nat \ {0} /\ j <= Len(offset_map) /\ Len(offset_map) \in Nat
         /\ DOMAIN offset_map = 1..Len(offset_map)
         /\ offset_map[j].pipeline_ms \in Nat /\ offset_map[j].skip_samples \in Int
<1>1. offset_map \in Seq([pipeline_ms : Nat, skip_samples : Int])
  BY DEF TimelineTypeOK
<1>2. Len(offset_map) \in Nat /\ DOMAIN offset_map = 1..Len(offset_map)
  BY <1>1, LenProperties
<1>3. offset_map[j] \in [pipeline_ms : Nat, skip_samples : Int]
  BY <1>1, <1>2, ElementOfSeq
<1> QED BY <1>2, <1>3

LEMMA LookupFinds ==
  ASSUME TimelineTypeOK, MapSorted, NEW j \in DOMAIN offset_map, NEW ms \in Int,
         offset_map[j].pipeline_ms <= ms,
         \A i \in DOMAIN offset_map : i > j => offset_map[i].pipeline_ms > ms
  PROVE  LookupOffsetMs(ms) = CDiv(offset_map[j].skip_samples, SamplesPerMs)
<1> DEFINE After == {i \in DOMAIN offset_map : offset_map[i].pipeline_ms > ms}
           found == IF After = {} THEN Len(offset_map)
                   ELSE (CHOOSE i \in After : \A k \in After : i <= k) - 1
<1>1. /\ j \in Nat \ {0} /\ j <= Len(offset_map) /\ Len(offset_map) \in Nat
      /\ DOMAIN offset_map = 1..Len(offset_map)
  BY MapTyped
<1>2. ASSUME NEW i \in DOMAIN offset_map PROVE i \in After <=> i > j
  <2>1. offset_map[i].pipeline_ms \in Nat /\ i \in Nat
    BY MapTyped
  <2>2. offset_map[j].pipeline_ms \in Nat
    BY MapTyped
  <2>3. CASE i <= j
    <3>1. offset_map[i].pipeline_ms <= offset_map[j].pipeline_ms
      BY <2>3 DEF MapSorted
    <3>2. QED BY <2>1, <2>2, <2>3, <3>1, <1>1
  <2>4. CASE i > j
    BY <2>4
  <2> QED BY <1>1, <2>1, <2>3, <2>4
<1>3. found = j
  <2>1. CASE j = Len(offset_map)
    <3>1. After = {}
      BY <1>1, <1>2, <2>1
    <3> QED BY <2>1, <3>1
  <2>2. CASE j # Len(offset_map)
    <3> HIDE DEF After
    <3>1. j + 1 \in After /\ \A k \in After : k \in Nat /\ j + 1 <= k
      <4>1. j + 1 \in DOMAIN offset_map
        BY <1>1, <2>2
      <4>2. \A k \in After : k \in DOMAIN offset_map
        BY DEF After
      <4> QED BY <1>1, <1>2, <4>1, <4>2
    <3>2. \A i \in After : (\A k \in After : i <= k) => i = j + 1
      BY <1>1, <3>1
    <3>3. (CHOOSE i \in After : \A k \in After : i <= k) = j + 1
      BY <3>1, <3>2
    <3> QED BY <1>1, <3>1, <3>3
  <2> QED BY <2>1, <2>2
<1>4. LookupOffsetMs(ms) = IF found = 0 THEN 0
                           ELSE CDiv(offset_map[found].skip_samples, SamplesPerMs)
  BY DEF LookupOffsetMs
<1> HIDE DEF found
<1> QED BY <1>1, <1>3, <1>4

LEMMA HeardFacts ==
  ASSUME Pieces, NEW k \in DOMAIN heard
  PROVE  /\ heard[k] \in [at : Nat, first : Nat, n : Nat \ {0}]
         /\ heard[k].at \in Nat /\ heard[k].first \in Nat /\ heard[k].n \in Nat \ {0}
<1> DEFINE Piece == [at : Nat, first : Nat, n : Nat \ {0}]
<1>1. heard \in Seq(Piece)
  BY DEF Pieces
<1>2. heard[k] \in Piece
  <2> HIDE DEF Piece
  <2>1. k \in 1..Len(heard)
    BY <1>1, LenProperties
  <2> QED BY <1>1, <2>1, ElementOfSeq
<1> QED BY <1>2

LEMMA WordsInPlace == TimelineInv => WordTimesAreRecordingTimes
<1> SUFFICES ASSUME TimelineInv, NEW w \in Heard PROVE Within(Adjusted(w[1]), w[2], 1)
  BY DEF WordTimesAreRecordingTimes
<1> DEFINE m == SamplesPerMs
<1>0. m \in Nat \ {0} /\ TimelineTypeOK /\ MapSorted /\ Pieces
  BY TimelineAssumption DEF TimelineInv
<1>1. PICK k \in DOMAIN heard : \E i \in 0..(heard[k].n - 1) :
        w = <<(heard[k].at + i) \div m, (heard[k].first + i) \div m>>
  BY DEF Heard
<1> DEFINE h == heard[k]
<1>2. PICK i \in 0..(h.n - 1) : w = <<(h.at + i) \div m, (h.first + i) \div m>>
  BY <1>1
<1>3. PICK j \in DOMAIN offset_map : Governs(j, h)
  BY DEF TimelineInv, Governed
<1>4. h.at \in Nat /\ h.first \in Nat /\ h.n \in Nat \ {0}
  BY <1>0, HeardFacts
<1> DEFINE a == h.at + i
           s == offset_map[j].skip_samples
<1>5. /\ s = h.first - h.at
      /\ offset_map[j].pipeline_ms <= h.at \div m
      /\ \A l \in DOMAIN offset_map : l > j => offset_map[l].pipeline_ms > (h.at + h.n - 1) \div m
  BY <1>3 DEF Governs
<1> HIDE DEF h
<1>6. a \in Nat /\ s \in Int /\ a + s = h.first + i /\ a + s \in Nat
  BY <1>2, <1>4, <1>5
<1>7. h.at \div m <= a \div m /\ a \div m <= (h.at + h.n - 1) \div m
  <2>1. h.at <= a /\ a <= h.at + h.n - 1 /\ h.at + h.n - 1 \in Nat
    BY <1>2, <1>4
  <2> HIDE DEF a, m
  <2> QED BY <1>0, <1>4, <1>6, <2>1, QuotientGrows
<1>8. /\ h.at \div m \in Nat /\ a \div m \in Nat /\ (h.at + h.n - 1) \div m \in Nat
  <2>1. h.at + h.n - 1 \in Nat
    BY <1>4
  <2> HIDE DEF a, m
  <2> QED BY <1>0, <1>4, <1>6, <2>1, Quotient
<1>9. \A l \in DOMAIN offset_map : offset_map[l].pipeline_ms \in Nat
  BY <1>0, MapTyped
<1>10. LookupOffsetMs(a \div m) = CDiv(s, m)
  <2>1. offset_map[j].pipeline_ms <= a \div m
    <3> HIDE DEF a, m
    <3> QED BY <1>5, <1>7, <1>8, <1>9
  <2>2. \A l \in DOMAIN offset_map : l > j => offset_map[l].pipeline_ms > a \div m
    <3> HIDE DEF a, m
    <3> QED BY <1>5, <1>7, <1>8, <1>9
  <2>3. a \div m \in Int
    BY <1>8
  <2> HIDE DEF a
  <2> QED BY <1>0, <2>1, <2>2, <2>3, LookupFinds
<1>11. w[1] = a \div m /\ w[2] = (a + s) \div m
  BY <1>2, <1>6
<1> HIDE DEF a, s, m
<1>12. Adjusted(w[1]) = a \div m + CDiv(s, m)
  BY <1>10, <1>11 DEF Adjusted
<1> QED BY <1>0, <1>6, <1>11, <1>12, LostInDivisions

(***************************************************************************)
(* The detector's steps, as the callback sees them.                        *)
(***************************************************************************)
LetsGo(n) == callback'.n = n /\ n \in Nat \ {0} /\ elapsed' = elapsed + n

Forwards ==
  callback'.kind = "speech" /\ callback'.first \in Int /\ LetsGo(callback'.n)
Skips == callback'.kind = "skipped" /\ LetsGo(callback'.n)
Keeps == callback'.kind = "none" /\ elapsed' = elapsed

LEMMA SilentKeeps == Silent => Keeps
BY DEF Silent, Keeps

LEMMA SpeechForwards ==
  ASSUME NEW c, c.first \in Int, Speech(c) PROVE Forwards
BY DEF Speech, Forwards, LetsGo

LEMMA SkippedSkips ==
  ASSUME NEW n \in Nat \ {0}, Skipped(n) PROVE Skips
BY DEF Skipped, Skips, LetsGo

LEMMA DetectorSteps ==
  ASSUME IInv, Next, pc # "off", ~MayResize
  PROVE  Forwards \/ Skips \/ Keeps
<1>1. TypeOK
  BY DEF IInv, EverySampleInPlace
<1>2. ASSUME NEW i, InBounds(i) PROVE preBuffer[i].first \in Int
  <2>1. PICK slots \in SlotChoices : preBuffer \in [0..(slots - 1) -> ChunkOrNone]
    BY <1>1 DEF TypeOK, Rings
  <2>2. preBuffer[i] \in ChunkOrNone
    BY <1>2, <2>1 DEF InBounds
  <2> QED BY <2>2 DEF ChunkOrNone
<1>3. chunk.first \in Int /\ CHUNK_SIZE \in Nat \ {0} /\ residualLen \in Nat /\ taken \in Nat
  BY <1>1, Shapes
<1>4. CASE \/ \E length \in Lengths : Process(length)
           \/ FillResidual \/ TakeChunk \/ SaveResidual \/ SpeechBegins \/ EndOfRecording
  <2>1. Silent
    BY <1>4 DEF Process, FillResidual, TakeChunk, SaveResidual, SpeechBegins, EndOfRecording
  <2> QED BY <2>1, SilentKeeps
<1>5. CASE AddToPreBuffer
  <2>1. Silent \/ Skipped(CHUNK_SIZE)
    BY <1>5 DEF AddToPreBuffer, Throw
  <2> QED BY <1>3, <2>1, SilentKeeps, SkippedSkips
<1>6. CASE FlushPreBuffer
  <2>1. Silent \/ \E i : InBounds(i) /\ Speech(preBuffer[i])
    BY <1>6 DEF FlushPreBuffer, Throw
  <2> QED BY <1>2, <2>1, SilentKeeps, SpeechForwards
<1>7. CASE FirstSpeech \/ Speaking \/ TrailingSilence
  <2>1. Speech(chunk)
    BY <1>7 DEF FirstSpeech, Speaking, TrailingSilence
  <2> QED BY <1>3, <2>1, SpeechForwards
<1>8. CASE Flush
  <2>1. \/ Silent
        \/ /\ residualLen > 0
           /\ callback' = [kind |-> "speech", n |-> residualLen,
                           first |-> taken - residualLen + 1,
                           data |-> [i \in 1..residualLen |-> residual[i]]]
           /\ elapsed' = elapsed + residualLen
        \/ residualLen > 0 /\ Skipped(residualLen)
    <3>1. CASE residualLen = 0
      BY <1>8, <3>1 DEF Flush
    <3>2. CASE residualLen > 0 /\ vadState # "IDLE"
      BY <1>8, <3>2 DEF Flush
    <3>3. CASE residualLen > 0 /\ vadState = "IDLE"
      BY <1>8, <3>3 DEF Flush
    <3> QED BY <1>3, <3>1, <3>2, <3>3
  <2>2. CASE /\ residualLen > 0
             /\ callback' = [kind |-> "speech", n |-> residualLen,
                             first |-> taken - residualLen + 1,
                             data |-> [i \in 1..residualLen |-> residual[i]]]
             /\ elapsed' = elapsed + residualLen
    BY <1>3, <2>2 DEF Forwards, LetsGo
  <2> QED BY <1>3, <2>1, <2>2, SilentKeeps, SkippedSkips
<1>9. CASE FlushRemainingAsSkipped
  <2>1. Silent \/ Skipped(CHUNK_SIZE)
    BY <1>9 DEF FlushRemainingAsSkipped, Throw
  <2> QED BY <1>3, <2>1, SilentKeeps, SkippedSkips
<1>10. ~Reset /\ \A slots \in SlotChoices : ~SetPreBufferSlots(slots)
  BY DEF Reset, SetPreBufferSlots
<1> QED BY <1>4, <1>5, <1>6, <1>7, <1>8, <1>9, <1>10 DEF Next

(***************************************************************************)
(* Every step keeps the invariant.                                         *)
(***************************************************************************)
LEMMA Elapsed == ASSUME IInv PROVE elapsed \in Nat /\ elapsed <= MaxFed
BY Shapes DEF IInv, EverySampleInPlace

LEMMA InitTimelineInv == TimelineInit => TimelineInv
<1> SUFFICES ASSUME TimelineInit PROVE TimelineInv
  OBVIOUS
<1> USE DEF TimelineInit
<1>1. IInv
  BY InitIInv
<1>2. elapsed = 0
  BY DEF Init
<1>3. TimelineTypeOK
  BY EmptySeq DEF TimelineTypeOK
<1>4. Calls /\ Counters
  BY <1>2 DEF Calls, Counters, Pending
<1>5. DOMAIN heard = {} /\ DOMAIN offset_map = {}
  BY LenProperties, EmptySeq
<1>6. Pieces /\ MapSorted /\ Governed
  BY <1>5, EmptySeq DEF Pieces, MapSorted, Governed
<1> QED BY <1>1, <1>3, <1>4, <1>6 DEF TimelineInv

\* A step that leaves the counters and the map alone keeps what is said of them.
LEMMA NativeStays ==
  ASSUME TimelineInv, UNCHANGED <<needSnapshot, nativeVars>>
  PROVE  Pieces' /\ MapSorted' /\ Governed'
BY DEF TimelineInv, Pieces, MapSorted, Governed, Governs, nativeVars

LEMMA StartRecordingKeeps == ASSUME TimelineInv, StartRecording PROVE TimelineInv'
<1> USE DEF StartRecording
<1>1. IInv'
  BY TimelineAssumption, NextKeepsIInv DEF TimelineInv, Next
<1>2. elapsed' = 0
  BY DEF Reset
<1>3. TimelineTypeOK'
  BY EmptySeq DEF TimelineTypeOK
<1>4. Calls' /\ Counters'
  BY <1>2 DEF Calls, Counters, Pending
<1>5. DOMAIN heard' = {} /\ DOMAIN offset_map' = {}
  BY LenProperties, EmptySeq
<1>6. Pieces' /\ MapSorted' /\ Governed'
  BY <1>5, EmptySeq DEF Pieces, MapSorted, Governed
<1> QED BY <1>1, <1>3, <1>4, <1>6 DEF TimelineInv

LEMMA ChangeSettingsKeeps == ASSUME TimelineInv, ChangeSettings PROVE TimelineInv'
<1> USE DEF ChangeSettings
<1>1. PICK slots \in SlotChoices : SetPreBufferSlots(slots)
  OBVIOUS
<1>2. IInv'
  BY <1>1, TimelineAssumption, NextKeepsIInv DEF TimelineInv, Next
<1>3. UNCHANGED <<callback, elapsed, call, needSnapshot, nativeVars>>
  BY <1>1 DEF SetPreBufferSlots
<1>4. TimelineTypeOK' /\ Calls' /\ Counters'
  BY <1>3 DEF TimelineInv, TimelineTypeOK, Calls, Counters, Pending, nativeVars
<1> QED BY <1>2, <1>3, <1>4, NativeStays DEF TimelineInv

LEMMA NothingKeepsTimeline == ASSUME TimelineInv, UNCHANGED timelineVars PROVE TimelineInv'
<1>1. IInv'
  BY TimelineAssumption, NextKeepsIInv DEF TimelineInv, timelineVars
<1>2. UNCHANGED <<callback, elapsed, call, needSnapshot, nativeVars>>
  BY DEF timelineVars, vars
<1>3. TimelineTypeOK' /\ Calls' /\ Counters'
  BY <1>2 DEF TimelineInv, TimelineTypeOK, Calls, Counters, Pending, nativeVars
<1> QED BY <1>1, <1>2, <1>3, NativeStays DEF TimelineInv

LEMMA DetectKeeps == ASSUME TimelineInv, Detect PROVE TimelineInv'
<1>1. IInv'
  BY TimelineAssumption, NextKeepsIInv DEF TimelineInv, Detect
<1>2. Forwards \/ Skips \/ Keeps
  BY TimelineAssumption, DetectorSteps DEF TimelineInv, Detect
<1>3. UNCHANGED <<needSnapshot, nativeVars>> /\ call = "none"
  BY DEF Detect
<1>0. /\ total_samples = elapsed /\ elapsed \in Nat /\ skipped_samples_offset <= total_samples
      /\ total_fed_samples - pushed_silence_total = total_samples - skipped_samples_offset
  BY <1>3, Elapsed DEF TimelineInv, TimelineTypeOK, Counters, Pending
<1>4. CASE Forwards
  <2>1. call' = IF needSnapshot THEN "snapshotOffset" ELSE "acceptWaveform"
    BY <1>4 DEF Forwards, Detect
  <2>2. callback'.n \in Nat \ {0} /\ elapsed' = elapsed + callback'.n
    BY <1>4 DEF Forwards, LetsGo
  <2>3. TimelineTypeOK'
    BY <1>3, <2>1 DEF TimelineInv, TimelineTypeOK, nativeVars
  <2>4. Calls'
    BY <1>3, <1>4, <2>1, <2>2 DEF Forwards, Calls, TimelineInv, TimelineTypeOK
  <2>5. Counters'
    BY <1>0, <1>3, <2>1, <2>2 DEF Counters, Pending, nativeVars
  <2> QED BY <1>1, <1>3, <2>3, <2>4, <2>5, NativeStays DEF TimelineInv
<1>5. CASE Skips
  <2>1. call' = "addSkippedSamples"
    BY <1>5 DEF Skips, Detect
  <2>2. callback'.n \in Nat \ {0} /\ elapsed' = elapsed + callback'.n
    BY <1>5 DEF Skips, LetsGo
  <2>3. TimelineTypeOK'
    BY <1>3, <2>1 DEF TimelineInv, TimelineTypeOK, nativeVars
  <2>4. Calls'
    BY <1>5, <2>1, <2>2 DEF Skips, Calls
  <2>5. Counters'
    BY <1>0, <1>3, <2>1, <2>2 DEF Counters, Pending, nativeVars
  <2> QED BY <1>1, <1>3, <2>3, <2>4, <2>5, NativeStays DEF TimelineInv
<1>6. CASE Keeps
  <2>1. call' = "none" /\ elapsed' = elapsed
    BY <1>6 DEF Keeps, Detect
  <2>3. TimelineTypeOK'
    BY <1>3, <2>1 DEF TimelineInv, TimelineTypeOK, nativeVars
  <2>4. Calls'
    BY <2>1 DEF Calls
  <2>5. Counters'
    BY <1>0, <1>3, <2>1 DEF Counters, Pending, nativeVars
  <2> QED BY <1>1, <1>3, <2>3, <2>4, <2>5, NativeStays DEF TimelineInv
<1> QED BY <1>2, <1>4, <1>5, <1>6

\* The last sample of a piece, and the padding behind it.
LEMMA EndBeforePad ==
  ASSUME NEW a \in Nat, NEW n \in Nat \ {0}, NEW m \in Nat, NEW p \in Nat, NEW t \in Nat,
         m <= p, a + n + p <= t
  PROVE  a + n - 1 \in Nat /\ a + n - 1 + m <= t
OBVIOUS

LEMMA snapshot_offsetKeeps == ASSUME TimelineInv, snapshot_offset PROVE TimelineInv'
<1> DEFINE entry == [pipeline_ms |-> total_fed_samples \div SamplesPerMs,
                     skip_samples |-> skipped_samples_offset - pushed_silence_total]
           now == total_fed_samples \div SamplesPerMs
<1>0. /\ UNCHANGED vars /\ offset_map' = Append(offset_map, entry)
      /\ call = "snapshotOffset" /\ call' = "acceptWaveform" /\ needSnapshot' = FALSE
      /\ UNCHANGED <<callback, elapsed, total_samples, total_fed_samples,
                     skipped_samples_offset, pushed_silence_total, heard, pushedBeforeGap>>
  BY DEF snapshot_offset, vars
<1>1. IInv'
  BY <1>0, StutterKeepsIInv DEF TimelineInv
<1>2. /\ offset_map \in Seq([pipeline_ms : Nat, skip_samples : Int]) /\ needSnapshot
      /\ total_fed_samples \in Nat /\ skipped_samples_offset \in Nat
      /\ pushed_silence_total \in Nat
  BY <1>0 DEF TimelineInv, TimelineTypeOK, Calls
<1>3. SamplesPerMs \in Nat \ {0} /\ SilencePad \in Nat /\ SilencePad >= SamplesPerMs
  BY TimelineAssumption
<1>4. now \in Nat
  BY <1>2, <1>3, Quotient
<1> DEFINE k == Len(offset_map)
<1>5. entry \in [pipeline_ms : Nat, skip_samples : Int]
  <2> HIDE DEF now
  <2>1. entry = [pipeline_ms |-> now,
                 skip_samples |-> skipped_samples_offset - pushed_silence_total]
    BY DEF now
  <2> QED BY <1>2, <1>4, <2>1
<1>6. /\ entry.pipeline_ms = now
      /\ entry.skip_samples = skipped_samples_offset - pushed_silence_total
  OBVIOUS
<1> HIDE DEF entry, now
<1>7. /\ k \in Nat /\ DOMAIN offset_map = 1..k /\ DOMAIN offset_map' = 1..(k + 1)
      /\ Len(offset_map') = k + 1
      /\ offset_map' \in Seq([pipeline_ms : Nat, skip_samples : Int])
      /\ \A i \in 1..k : offset_map'[i] = offset_map[i]
      /\ offset_map'[k + 1] = entry
  BY <1>0, <1>2, <1>5, AppendProperties, LenProperties
<1>8. TimelineTypeOK' /\ Calls' /\ Counters' /\ Pieces'
  <2>1. TimelineTypeOK'
    BY <1>0, <1>7 DEF TimelineInv, TimelineTypeOK
  <2>2. Calls'
    BY <1>0 DEF TimelineInv, Calls
  <2>3. Counters'
    BY <1>0 DEF TimelineInv, Counters, Pending
  <2>4. Pieces'
    BY <1>0 DEF TimelineInv, Pieces
  <2> QED BY <2>1, <2>2, <2>3, <2>4
<1>9. \A i \in 1..k : offset_map[i].pipeline_ms \in Nat /\ offset_map[i].pipeline_ms <= now
  <2>1. \A i \in 1..k : offset_map[i].pipeline_ms \in Nat
    BY <1>7, MapTyped DEF TimelineInv
  <2>2. \A i \in 1..k : offset_map[i].pipeline_ms <= now
    BY <1>7 DEF TimelineInv, MapSorted, now
  <2> QED BY <2>1, <2>2
<1>10. MapSorted'
  <2>1. (\A i, j \in DOMAIN offset_map :
           i <= j => offset_map[i].pipeline_ms <= offset_map[j].pipeline_ms)'
    <3> SUFFICES ASSUME NEW i \in 1..(k + 1), NEW j \in 1..(k + 1), i <= j
                 PROVE  offset_map'[i].pipeline_ms <= offset_map'[j].pipeline_ms
      BY <1>7
    <3>1. CASE j \in 1..k
      <4>1. i \in 1..k
        BY <1>7, <3>1
      <4> QED BY <1>7, <3>1, <4>1 DEF TimelineInv, MapSorted
    <3>2. CASE i \in 1..k /\ j = k + 1
      BY <1>6, <1>7, <1>9, <3>2
    <3>3. CASE i = k + 1 /\ j = k + 1
      BY <1>4, <1>6, <1>7, <3>3
    <3> QED BY <1>7, <3>1, <3>2, <3>3
  <2>2. \A i \in 1..(k + 1) : offset_map'[i].pipeline_ms <= now
    <3> SUFFICES ASSUME NEW i \in 1..(k + 1) PROVE offset_map'[i].pipeline_ms <= now
      OBVIOUS
    <3>1. CASE i \in 1..k
      BY <1>7, <1>9, <3>1
    <3>2. CASE i = k + 1
      BY <1>4, <1>6, <1>7, <3>2
    <3>3. k \in Nat
      BY <1>7
    <3> HIDE DEF k
    <3> QED BY <3>1, <3>2, <3>3
  <2>3. offset_map' # <<>>
    BY <1>7, EmptySeq
  <2>4. offset_map'[Len(offset_map')].skip_samples = skipped_samples_offset - pushed_silence_total
    BY <1>6, <1>7
  <2> QED BY <1>0, <1>7, <2>1, <2>2, <2>3, <2>4 DEF MapSorted, now
<1>11. Governed'
  <2> SUFFICES ASSUME NEW l \in DOMAIN heard
               PROVE  \E j \in 1..(k + 1) : Governs(j, heard[l])'
    BY <1>0, <1>7 DEF Governed
  <2>1. PICK j \in DOMAIN offset_map : Governs(j, heard[l])
    BY DEF TimelineInv, Governed
  <2> DEFINE end == heard[l].at + heard[l].n - 1
  <2>2. end \in Nat /\ end + SamplesPerMs <= total_fed_samples
    <3>1. heard[l].at \in Nat /\ heard[l].n \in Nat \ {0}
      BY HeardFacts DEF TimelineInv
    <3>2. heard[l].at + heard[l].n + SilencePad <= total_fed_samples
      BY <1>2 DEF TimelineInv, Pieces
    <3> QED BY <1>2, <1>3, <3>1, <3>2, EndBeforePad
  <2>3. end \div SamplesPerMs < now
    <3> HIDE DEF end
    <3> QED BY <1>2, <1>3, <2>2, QuotientNext DEF now
  <2>4. Governs(j, heard[l])'
    <3>1. j \in 1..k
      BY <1>7
    <3>2. /\ offset_map[j].skip_samples = heard[l].first - heard[l].at
          /\ offset_map[j].pipeline_ms <= heard[l].at \div SamplesPerMs
          /\ \A i \in 1..k : i > j => offset_map[i].pipeline_ms > end \div SamplesPerMs
      BY <1>7, <2>1 DEF Governs
    <3> HIDE DEF end
    <3>3. \A i \in 1..(k + 1) : i > j => offset_map'[i].pipeline_ms > end \div SamplesPerMs
      <4> DEFINE q == end \div SamplesPerMs
      <4> HIDE DEF q
      <4> SUFFICES ASSUME NEW i \in 1..(k + 1), i > j PROVE offset_map'[i].pipeline_ms > q
        BY DEF q
      <4>1. CASE i \in 1..k
        BY <1>7, <3>2, <4>1 DEF q
      <4>2. CASE i = k + 1
        BY <1>6, <1>7, <2>3, <4>2 DEF q
      <4> QED BY <1>7, <4>1, <4>2
    <3> QED BY <1>0, <1>7, <3>1, <3>2, <3>3 DEF Governs, end
  <2> QED BY <1>7, <2>4
<1> QED BY <1>1, <1>8, <1>10, <1>11 DEF TimelineInv

LEMMA SameDifference ==
  ASSUME NEW f \in Int, NEW p \in Int, NEW t \in Int, NEW s \in Int, f - p = t - s
  PROVE  s - p = t - f
OBVIOUS

LEMMA accept_waveformKeeps == ASSUME TimelineInv, accept_waveform PROVE TimelineInv'
<1> DEFINE piece == [at |-> total_fed_samples, first |-> callback.first - 1, n |-> callback.n]
           n == callback.n
           k == Len(heard)
           d == Len(offset_map)
<1>0. /\ UNCHANGED vars /\ call = "acceptWaveform" /\ call' = "none"
      /\ heard' = Append(heard, piece)
      /\ total_samples' = total_samples + n
      /\ total_fed_samples' = total_fed_samples + n
      /\ UNCHANGED <<callback, elapsed, needSnapshot, skipped_samples_offset,
                     pushed_silence_total, offset_map>>
  BY DEF accept_waveform, vars
<1>1. IInv'
  BY <1>0, StutterKeepsIInv DEF TimelineInv
<1>2. /\ TimelineTypeOK /\ ~needSnapshot /\ callback.kind = "speech" /\ callback.first \in Int /\ n \in Nat \ {0}
      /\ total_fed_samples \in Nat /\ total_samples \in Nat
      /\ skipped_samples_offset \in Nat /\ pushed_silence_total \in Nat
      /\ elapsed \in Nat
  BY <1>0, Elapsed DEF TimelineInv, TimelineTypeOK, Calls
<1>3. /\ total_samples + n = elapsed
      /\ total_fed_samples - pushed_silence_total = total_samples - skipped_samples_offset
      /\ skipped_samples_offset <= total_samples
  BY <1>0 DEF TimelineInv, Counters, Pending
<1>4. callback.first + n - 1 = elapsed
  BY <1>2 DEF TimelineInv, IInv, EverySampleInPlace, Timeline
<1> HIDE DEF n
<1>5. callback.first - 1 = total_samples
  BY <1>2, <1>3, <1>4
<1>6. piece.first = total_samples /\ piece.at = total_fed_samples /\ piece.n = n
  BY <1>5 DEF n
<1>7. piece \in [at : Nat, first : Nat, n : Nat \ {0}]
  BY <1>2, <1>5 DEF n
<1> HIDE DEF piece
<1>8. heard \in Seq([at : Nat, first : Nat, n : Nat \ {0}])
  BY DEF TimelineInv, Pieces
<1>9. /\ k \in Nat /\ DOMAIN heard = 1..k /\ DOMAIN heard' = 1..(k + 1)
      /\ heard' \in Seq([at : Nat, first : Nat, n : Nat \ {0}])
      /\ \A i \in 1..k : heard'[i] = heard[i]
      /\ heard'[k + 1] = piece
  BY <1>0, <1>7, <1>8, AppendProperties, LenProperties
<1>10. SamplesPerMs \in Nat \ {0}
  BY TimelineAssumption
<1>11. total_fed_samples' \in Nat /\ total_fed_samples <= total_fed_samples'
  BY <1>0, <1>2
<1>12. TimelineTypeOK'
  <2>1. total_samples' \in Nat
    BY <1>0, <1>2
  <2> QED BY <1>0, <1>11, <2>1 DEF TimelineInv, TimelineTypeOK
<1>13. Calls' /\ Counters'
  <2>1. Calls'
    BY <1>0 DEF Calls
  <2>2. total_samples' = elapsed /\ skipped_samples_offset <= total_samples'
        /\ total_fed_samples' - pushed_silence_total = total_samples' - skipped_samples_offset
    BY <1>0, <1>2, <1>3
  <2>3. Pending' = 0
    BY <1>0 DEF Pending
  <2>4. total_samples' + Pending' = elapsed
    BY <1>0, <1>2, <2>2, <2>3
  <2> QED BY <1>0, <2>1, <2>2, <2>4 DEF Counters
<1>14. Pieces'
  <2> SUFFICES ASSUME NEW i \in 1..(k + 1)
               PROVE  heard'[i].at + heard'[i].n <= total_fed_samples'
    BY <1>0, <1>2, <1>9 DEF Pieces
  <2>1. CASE i \in 1..k
    <3>1. heard[i].at + heard[i].n <= total_fed_samples
      BY <1>9, <2>1 DEF TimelineInv, Pieces
    <3>2. heard[i].at \in Nat /\ heard[i].n \in Nat
      BY <1>9, <2>1, HeardFacts DEF TimelineInv
    <3>3. PICK e \in Nat : e = heard[i].at + heard[i].n
      BY <3>2
    <3>4. e <= total_fed_samples'
      BY <1>2, <1>11, <3>1, <3>3
    <3> QED BY <1>9, <2>1, <3>3, <3>4
  <2>2. CASE i = k + 1
    BY <1>0, <1>2, <1>6, <1>9, <2>2
  <2> QED BY <1>9, <2>1, <2>2
<1>15. total_fed_samples \div SamplesPerMs <= total_fed_samples' \div SamplesPerMs
       /\ total_fed_samples \div SamplesPerMs \in Nat
       /\ total_fed_samples' \div SamplesPerMs \in Nat
  BY <1>2, <1>10, <1>11, Quotient, QuotientGrows
<1>16. /\ offset_map # <<>> /\ d \in DOMAIN offset_map
       /\ offset_map[d].skip_samples = skipped_samples_offset - pushed_silence_total
       /\ d \in Nat /\ DOMAIN offset_map = 1..d
       /\ \A i \in DOMAIN offset_map : offset_map[i].pipeline_ms \in Nat
       /\ \A i \in DOMAIN offset_map :
            offset_map[i].pipeline_ms <= total_fed_samples \div SamplesPerMs
  <2>1. offset_map \in Seq([pipeline_ms : Nat, skip_samples : Int]) /\ offset_map # <<>>
    BY <1>2 DEF TimelineTypeOK, TimelineInv, MapSorted
  <2>2. d \in Nat /\ DOMAIN offset_map = 1..d /\ d \in 1..d
    BY <2>1, LenProperties, EmptySeq
  <2> QED BY <1>2, <2>1, <2>2, MapTyped DEF TimelineInv, MapSorted
<1>17. MapSorted'
  <2>1. \A i \in DOMAIN offset_map :
          offset_map[i].pipeline_ms <= total_fed_samples' \div SamplesPerMs
    BY <1>15, <1>16
  <2> QED BY <1>0, <2>1 DEF TimelineInv, MapSorted
<1>18. Governed'
  <2> SUFFICES ASSUME NEW i \in 1..(k + 1)
               PROVE  \E j \in DOMAIN offset_map : Governs(j, heard'[i])
    BY <1>0, <1>9 DEF Governed, Governs
  <2>1. CASE i \in 1..k
    BY <1>9, <2>1 DEF TimelineInv, Governed
  <2>2. CASE i = k + 1
    <3>1. offset_map[d].skip_samples = piece.first - piece.at
      <4>1. skipped_samples_offset - pushed_silence_total = total_samples - total_fed_samples
        BY <1>2, <1>3, SameDifference
      <4> QED BY <1>6, <1>16, <4>1
    <3>2. offset_map[d].pipeline_ms <= piece.at \div SamplesPerMs
      BY <1>6, <1>16
    <3>3. \A l \in DOMAIN offset_map : ~(l > d)
      BY <1>16
    <3> QED BY <1>9, <1>16, <2>2, <3>1, <3>2, <3>3 DEF Governs
  <2> QED BY <1>9, <2>1, <2>2
<1> QED BY <1>1, <1>12, <1>13, <1>14, <1>17, <1>18 DEF TimelineInv

LEMMA add_skipped_samplesKeeps == ASSUME TimelineInv, add_skipped_samples PROVE TimelineInv'
<1>0. /\ UNCHANGED vars /\ call = "addSkippedSamples" /\ call' = "none" /\ needSnapshot' = TRUE
      /\ total_fed_samples' = total_fed_samples + SilencePad
      /\ pushed_silence_total' = pushed_silence_total + SilencePad
      /\ total_samples' = total_samples + callback.n
      /\ skipped_samples_offset' = skipped_samples_offset + callback.n
      /\ UNCHANGED <<callback, elapsed, offset_map, heard>>
  BY DEF add_skipped_samples, vars
<1>1. IInv'
  BY <1>0, StutterKeepsIInv DEF TimelineInv
<1>2. /\ TimelineTypeOK /\ callback.n \in Nat \ {0}
      /\ total_fed_samples \in Nat /\ total_samples \in Nat
      /\ skipped_samples_offset \in Nat /\ pushed_silence_total \in Nat
      /\ elapsed \in Nat /\ elapsed <= MaxFed
  BY <1>0, Elapsed DEF TimelineInv, TimelineTypeOK, Calls
<1>3. /\ total_samples + callback.n = elapsed
      /\ total_fed_samples - pushed_silence_total = total_samples - skipped_samples_offset
      /\ skipped_samples_offset <= total_samples
  BY <1>0 DEF TimelineInv, Counters, Pending
<1>4. SilencePad \in Nat /\ SamplesPerMs \in Nat \ {0}
  BY TimelineAssumption
<1>5. /\ total_samples' = elapsed /\ skipped_samples_offset' <= total_samples'
      /\ total_fed_samples' - pushed_silence_total' = total_samples' - skipped_samples_offset'
      /\ total_fed_samples' \in Nat /\ total_fed_samples <= total_fed_samples'
      /\ pushed_silence_total' \in Nat /\ skipped_samples_offset' \in Nat
  BY <1>0, <1>2, <1>3, <1>4
<1>6. TimelineTypeOK'
  <2>1. skipped_samples_offset' \in 0..MaxFed /\ total_samples' \in Nat
    BY <1>2, <1>5
  <2> QED BY <1>0, <1>5, <2>1 DEF TimelineInv, TimelineTypeOK
<1>7. Calls' /\ Counters'
  <2>1. Calls'
    BY <1>0 DEF Calls
  <2>2. Pending' = 0
    BY <1>0 DEF Pending
  <2>3. total_samples' + Pending' = elapsed
    BY <1>2, <1>5, <2>2
  <2> QED BY <1>0, <1>5, <2>1, <2>3 DEF Counters
<1>8. Pieces'
  <2> SUFFICES ASSUME NEW i \in DOMAIN heard
               PROVE  /\ heard[i].at + heard[i].n <= total_fed_samples'
                      /\ heard[i].at + heard[i].n + SilencePad <= total_fed_samples'
    BY <1>0 DEF TimelineInv, Pieces
  <2>1. heard[i].at \in Nat /\ heard[i].n \in Nat
    BY HeardFacts DEF TimelineInv
  <2>2. heard[i].at + heard[i].n <= total_fed_samples
    BY DEF TimelineInv, Pieces
  <2>3. PICK e \in Nat : e = heard[i].at + heard[i].n
    BY <2>1
  <2>4. e + SilencePad <= total_fed_samples'
    BY <1>0, <1>2, <1>4, <2>2, <2>3
  <2>5. heard[i].at + heard[i].n + SilencePad = e + SilencePad
    BY <1>4, <2>1, <2>3
  <2> QED BY <1>2, <1>5, <2>2, <2>1, <2>4, <2>5
<1>9. MapSorted'
  <2>1. total_fed_samples \div SamplesPerMs <= total_fed_samples' \div SamplesPerMs
        /\ total_fed_samples \div SamplesPerMs \in Nat
        /\ total_fed_samples' \div SamplesPerMs \in Nat
    BY <1>2, <1>4, <1>5, Quotient, QuotientGrows
  <2>2. \A i \in DOMAIN offset_map :
          offset_map[i].pipeline_ms <= total_fed_samples' \div SamplesPerMs
    <3>1. \A i \in DOMAIN offset_map : offset_map[i].pipeline_ms \in Nat
      BY <1>2, MapTyped
    <3>2. \A i \in DOMAIN offset_map :
            offset_map[i].pipeline_ms <= total_fed_samples \div SamplesPerMs
      BY DEF TimelineInv, MapSorted
    <3> QED BY <2>1, <3>1, <3>2
  <2> QED BY <1>0, <2>2 DEF TimelineInv, MapSorted
<1>10. Governed'
  BY <1>0 DEF TimelineInv, Governed, Governs
<1> QED BY <1>1, <1>6, <1>7, <1>8, <1>9, <1>10 DEF TimelineInv

LEMMA NextKeepsTimelineInv == TimelineInv /\ [TimelineNext]_timelineVars => TimelineInv'
BY StartRecordingKeeps, ChangeSettingsKeeps, DetectKeeps, snapshot_offsetKeeps,
   accept_waveformKeeps, add_skipped_samplesKeeps, NothingKeepsTimeline DEF TimelineNext

\* The counters and the map of wenet.cc: for every length of chunk, ring, buffer and
\* silence, TimelineInv holds of every state.
THEOREM TimelineInvHolds == TimelineSpec => []TimelineInv
<1> QED BY InitTimelineInv, NextKeepsTimelineInv, PTL DEF TimelineSpec

\* Word times in the result are times of the recording, to the millisecond lost in the two
\* divisions, and its total is the length recorded.
THEOREM TimesAreOfTheRecording == TimelineSpec => []TimesAreRecordingTimes
<1>1. TimelineInv => TotalIsRecordedTime
  BY DEF TimelineInv, Counters, Pending, TotalIsRecordedTime, TimelineTypeOK
<1>2. TimelineInv => TimesAreRecordingTimes
  BY <1>1, WordsInPlace DEF TimelineInv, TimesAreRecordingTimes
<1> QED BY <1>2, TimelineInvHolds, PTL

--------------------------------------------------------------------------------
(***************************************************************************)
(* TimedResult.                                                            *)
(***************************************************************************)
HIDE VadAssumption
USE ResultAssumption

LEMMA TokenFacts ==
  /\ Comma \in Token /\ Newline \in Token /\ Newline # Comma
  /\ \A s \in 1..MaxSegments, i \in 1..MaxWords : Word(s, i) \in Token /\ Word(s, i) # Comma
BY DEF Token, Comma, Newline, Word

LEMMA SeqFacts ==
  ASSUME NEW S, NEW s \in Seq(S)
  PROVE  /\ Len(s) \in Nat /\ DOMAIN s = 1..Len(s)
         /\ \A i \in 1..Len(s) : s[i] \in S
BY LenProperties, ElementOfSeq

(***************************************************************************)
(* Markers in the beginning of a sequence of tokens.                       *)
(***************************************************************************)
In(s, n) == {i \in 1..n : s[i] = Newline}

LEMMA MarkersFinite ==
  ASSUME NEW s, NEW n \in Nat
  PROVE  IsFiniteSet(In(s, n)) /\ Cardinality(In(s, n)) \in Nat
<1>1. IsFiniteSet(1..n)
  BY FS_Interval
<1>2. IsFiniteSet(In(s, n))
  BY <1>1, FS_Subset DEF In
<1> QED BY <1>2, FS_CardinalityType

LEMMA MarkersSame ==
  ASSUME NEW s, NEW t, NEW n \in Nat, \A i \in 1..n : t[i] = s[i]
  PROVE  In(t, n) = In(s, n)
BY DEF In

LEMMA MarkersMore ==
  ASSUME NEW s, NEW t, NEW n \in Nat, \A i \in 1..n : t[i] = s[i]
  PROVE  /\ Cardinality(In(t, n + 1)) >= Cardinality(In(s, n))
         /\ t[n + 1] = Newline => Cardinality(In(t, n + 1)) = Cardinality(In(s, n)) + 1
<1>1. In(t, n) = In(s, n) /\ IsFiniteSet(In(s, n)) /\ Cardinality(In(s, n)) \in Nat
  BY MarkersSame, MarkersFinite
<1>2. CASE t[n + 1] = Newline
  <2>1. In(t, n + 1) = In(t, n) \cup {n + 1} /\ n + 1 \notin In(t, n)
    BY <1>2 DEF In
  <2>2. Cardinality(In(t, n + 1)) = Cardinality(In(t, n)) + 1
    BY <1>1, <2>1, FS_AddElement
  <2> QED BY <1>1, <2>2
<1>3. CASE t[n + 1] # Newline
  <2>1. In(t, n + 1) = In(t, n)
    BY <1>3 DEF In
  <2> QED BY <1>1, <1>3, <2>1
<1> QED BY <1>2, <1>3

LEMMA UpToIsIn ==
  /\ \A n : MarkersUpTo(n) = Cardinality(In(timed_result_json, n))
  /\ \A n : MarkersUpTo(n)' = Cardinality(In(timed_result_json', n'))
BY DEF MarkersUpTo, In

(***************************************************************************)
(* The invariant.                                                          *)
(***************************************************************************)
LEMMA InitResultInv == ResultInit => ResultInv
<1> SUFFICES ASSUME ResultInit PROVE ResultInv
  OBVIOUS
<1> USE DEF ResultInit
<1>1. ResultTypeOK
  <2>1. Len(timed_result_json) = 0
    OBVIOUS
  <2>2. cur_len \in 0..Len(timed_result_json) /\ timed_result_sent_pos \in 0..Len(timed_result_json)
    BY <2>1
  <2>3. segments \in 0..MaxSegments
    OBVIOUS
  <2> QED BY <2>2, <2>3 DEF ResultTypeOK
<1>2. Appended = 0
  BY EmptySeq DEF Appended
<1>3. Progress
  BY <1>2, EmptySeq DEF Progress
<1>4. \A n \in Nat : MarkersUpTo(n) \in Nat
  BY MarkersFinite, UpToIsIn
<1>5. Announced /\ Fetched
  BY <1>4, EmptySeq DEF Announced, Fetched
<1>6. DeltasMissNothing /\ EndpointIsFetched
  BY <1>4 DEF DeltasMissNothing, EndpointIsFetched
<1> QED BY <1>1, <1>3, <1>5, <1>6 DEF ResultInv

\* What the display has is not disturbed by a string that grows and by endpoints which are
\* announced, as long as the flag is set for them.
LEMMA DisplayStays ==
  ASSUME ResultInv, UNCHANGED asrVars, dec # "exit",
         timed_result_json' \in Seq(Token),
         Len(timed_result_json) <= Len(timed_result_json'),
         \A i \in 1..Len(timed_result_json) : timed_result_json'[i] = timed_result_json[i],
         endpoints' \in Nat, endpoints <= endpoints',
         has_new_endpoint' \/ (has_new_endpoint' = has_new_endpoint /\ endpoints' = endpoints)
  PROVE  Fetched' /\ DeltasMissNothing' /\ EndpointIsFetched'
<1>1. /\ cur_len \in 0..Len(timed_result_json)
      /\ timed_result_sent_pos \in 0..Len(timed_result_json)
      /\ Len(timed_result_json) \in Nat
      /\ seen \in Nat /\ endpoints \in Nat
  BY SeqFacts DEF ResultInv, ResultTypeOK, Progress, Fetched, Announced
<1>2. UNCHANGED <<asr, last, cur_len, delta, timed_result_sent_pos, returned, seen, saved>>
  BY DEF asrVars
<1>3. ASSUME NEW n \in 0..Len(timed_result_json), n' = n
      PROVE  MarkersUpTo(n)' = MarkersUpTo(n)
  <2>1. In(timed_result_json', n) = In(timed_result_json, n)
    BY <1>1, MarkersSame
  <2> QED BY <1>3, <2>1, UpToIsIn
<1>4. MarkersUpTo(cur_len)' = MarkersUpTo(cur_len)
      /\ MarkersUpTo(timed_result_sent_pos)' = MarkersUpTo(timed_result_sent_pos)
  BY <1>1, <1>2, <1>3
<1>5. Fetched'
  <2>1. seen' <= endpoints' /\ (~has_new_endpoint' => seen' = endpoints')
    BY <1>1, <1>2 DEF ResultInv, Fetched
  <2>2. asr' # "exit"
    BY <1>2 DEF ResultInv, Fetched
  <2>3. asr = "return" => \A i \in 1..cur_len : timed_result_json'[i] = timed_result_json[i]
    BY <1>1
  <2> QED BY <1>2, <1>4, <2>1, <2>2, <2>3 DEF ResultInv, Fetched
<1>6. DeltasMissNothing'
  <2>1. \A i \in 1..timed_result_sent_pos : timed_result_json'[i] = timed_result_json[i]
    BY <1>1
  <2> QED BY <1>2, <2>1 DEF ResultInv, DeltasMissNothing
<1>7. EndpointIsFetched'
  BY <1>2, <1>4 DEF ResultInv, EndpointIsFetched
<1> QED BY <1>5, <1>6, <1>7

\* What the decode thread has is not disturbed by the display.
LEMMA DecodeStays ==
  ASSUME ResultInv, UNCHANGED decVars
  PROVE  Progress' /\ Announced'
BY DEF ResultInv, Progress, Announced, Appended, MarkersUpTo, decVars

\* Decode: a segment's word pieces and its marker are what is to be appended next.
LEMMA DecodeKeeps == ASSUME ResultInv, Decode PROVE ResultInv'
<1>0. ResultTypeOK /\ Progress /\ Announced
  BY DEF ResultInv
<1>1. PICK n \in 0..MaxWords :
        \/ /\ segments + 1 < MaxSegments
           /\ state' = "kEndpoint"
           /\ tokens' = Append(Words(n), Newline)
        \/ /\ state' = "kEndFeats"
           /\ tokens' = Words(n)
  BY DEF Decode
<1>2. /\ dec = "decode" /\ dec' = "append" /\ segments' = segments + 1
      /\ decoded' = decoded \o tokens'
      /\ UNCHANGED <<timed_result_json, decode_thread_done, endpoints, has_new_endpoint,
                     asrVars>>
  BY DEF Decode
<1>3. segments \in Nat /\ segments < MaxSegments
  BY <1>0, <1>2 DEF ResultTypeOK, Progress
<1>4. Words(n) \in Seq(Token \ {Comma})
  <2>1. \A i \in 1..n : Word(segments + 1, i) \in Token \ {Comma}
    BY <1>3, TokenFacts
  <2>2. Words(n) = [i \in 1..n |-> Word(segments + 1, i)]
    BY DEF Words
  <2> QED BY <2>1, <2>2, IsASeq
<1>5. /\ tokens' \in Seq(Token \ {Comma})
      /\ state' = "kEndpoint" =>
           /\ tokens' # <<>> /\ tokens'[Len(tokens')] = Newline
           /\ segments + 1 < MaxSegments
      /\ state' \in {"kEndpoint", "kEndFeats"}
  <2>1. CASE state' = "kEndFeats"
    BY <1>1, <1>4, <2>1
  <2>2. CASE state' # "kEndFeats"
    <3>1. tokens' = Append(Words(n), Newline) /\ segments + 1 < MaxSegments
          /\ state' = "kEndpoint"
      BY <1>1, <2>2
    <3>2. Newline \in Token \ {Comma}
      BY TokenFacts
    <3> QED BY <1>4, <3>1, <3>2, AppendProperties
  <2> QED BY <2>1, <2>2
<1>6. /\ decoded \in Seq(Token \ {Comma}) /\ tokens = <<>>
      /\ Len(decoded) \in Nat /\ Len(tokens') \in Nat /\ Len(tokens) = 0
      /\ DOMAIN tokens' = 1..Len(tokens') /\ Appended = Len(decoded)
  <2>1. decoded \in Seq(Token \ {Comma}) /\ tokens = <<>>
    BY <1>0, <1>2 DEF Progress
  <2>2. Len(decoded) \in Nat /\ Len(tokens') \in Nat /\ DOMAIN tokens' = 1..Len(tokens')
    BY <1>5, <2>1, SeqFacts
  <2> QED BY <2>1, <2>2 DEF Appended
<1>7. /\ decoded' \in Seq(Token \ {Comma}) /\ Len(decoded') = Len(decoded) + Len(tokens')
      /\ \A i \in 1..Len(decoded) : decoded'[i] = decoded[i]
      /\ \A i \in 1..Len(tokens') : decoded'[Len(decoded) + i] = tokens'[i]
  <2>1. decoded' \in Seq(Token \ {Comma}) /\ Len(decoded') = Len(decoded) + Len(tokens')
        /\ \A i \in 1..(Len(decoded) + Len(tokens')) :
             decoded'[i] = IF i <= Len(decoded) THEN decoded[i] ELSE tokens'[i - Len(decoded)]
    BY <1>2, <1>5, <1>6, ConcatProperties
  <2>2. \A i \in 1..Len(decoded) : decoded'[i] = decoded[i]
    BY <1>6, <2>1
  <2>3. ASSUME NEW i \in 1..Len(tokens') PROVE decoded'[Len(decoded) + i] = tokens'[i]
    <3> DEFINE j == Len(decoded) + i
    <3>1. j \in 1..(Len(decoded) + Len(tokens')) /\ ~(j <= Len(decoded)) /\ j - Len(decoded) = i
      BY <1>6
    <3> HIDE DEF j
    <3>2. decoded'[j] = tokens'[j - Len(decoded)]
      BY <2>1, <3>1
    <3> QED BY <3>1, <3>2 DEF j
  <2> QED BY <2>1, <2>2, <2>3
<1>8. Appended' = Appended
  BY <1>6, <1>7 DEF Appended
<1>9. ResultTypeOK'
  BY <1>0, <1>2, <1>3, <1>5 DEF ResultTypeOK, asrVars
<1>10. Progress'
  <2>1. \A i \in DOMAIN tokens' : tokens'[i] = decoded'[Appended' + i]
    BY <1>6, <1>7, <1>8
  <2>2. \A i \in 1..Appended : timed_result_json[2 * i - 1] = decoded'[i]
    BY <1>0, <1>6, <1>7 DEF Progress
  <2> QED BY <1>0, <1>2, <1>5, <1>7, <1>8, <2>1, <2>2 DEF Progress
<1>11. Announced'
  BY <1>0, <1>2, <1>5 DEF Announced, MarkersUpTo
<1>12. Fetched' /\ DeltasMissNothing' /\ EndpointIsFetched'
  <2>1. timed_result_json' \in Seq(Token) /\ Len(timed_result_json) <= Len(timed_result_json')
        /\ endpoints' \in Nat /\ endpoints <= endpoints'
    BY <1>0, <1>2, SeqFacts DEF Progress, Announced
  <2> QED BY <1>2, <2>1, DisplayStays
<1> QED BY <1>9, <1>10, <1>11, <1>12 DEF ResultInv

\* The numbers of tokens and of elements of the string.
LEMMA Positions ==
  ASSUME Progress
  PROVE  /\ Appended \in Nat /\ Len(timed_result_json) \in Nat
         /\ timed_result_json = <<>> <=> Appended = 0
         /\ Len(timed_result_json) = IF Appended = 0 THEN 0
                                     ELSE IF dec = "token" THEN 2 * Appended
                                     ELSE 2 * Appended - 1
<1>1. timed_result_json \in Seq(Token) /\ Appended \in Nat
      /\ Len(timed_result_json) = IF Appended = 0 THEN 0
                                  ELSE IF dec = "token" THEN 2 * Appended ELSE 2 * Appended - 1
  BY DEF Progress
<1>2. Len(timed_result_json) \in Nat /\ (Len(timed_result_json) = 0 <=> timed_result_json = <<>>)
  BY <1>1, SeqFacts, EmptySeq
<1> HIDE DEF Appended
<1> QED BY <1>1, <1>2

LEMMA AppendCommaKeeps == ASSUME ResultInv, AppendComma PROVE ResultInv'
<1> DEFINE a == Appended
           k == Len(timed_result_json)
<1>0. ResultTypeOK /\ Progress /\ Announced
  BY DEF ResultInv
<1>1. /\ dec = "append" /\ tokens # <<>> /\ dec' = "token"
      /\ timed_result_json' = IF timed_result_json = <<>> THEN timed_result_json
                              ELSE Append(timed_result_json, Comma)
      /\ UNCHANGED <<state, tokens, segments, decoded, decode_thread_done, endpoints,
                     has_new_endpoint, asrVars>>
  BY DEF AppendComma
<1>2. /\ a \in Nat /\ k \in Nat /\ (timed_result_json = <<>> <=> a = 0)
      /\ k = IF a = 0 THEN 0 ELSE 2 * a - 1
      /\ timed_result_json \in Seq(Token)
  BY <1>0, <1>1, Positions DEF Progress
<1>3. /\ timed_result_json' \in Seq(Token)
      /\ Len(timed_result_json') = IF a = 0 THEN 0 ELSE 2 * a
      /\ k <= Len(timed_result_json') /\ Len(timed_result_json') <= k + 1
      /\ \A i \in 1..k : timed_result_json'[i] = timed_result_json[i]
      /\ a # 0 => timed_result_json'[2 * a] = Comma
  <2>1. CASE a = 0
    BY <1>1, <1>2, <2>1
  <2>2. CASE a # 0
    <3>1. timed_result_json' = Append(timed_result_json, Comma) /\ Comma \in Token
      BY <1>1, <1>2, <2>2, TokenFacts
    <3>2. timed_result_json' \in Seq(Token) /\ Len(timed_result_json') = k + 1
          /\ \A i \in 1..k : timed_result_json'[i] = timed_result_json[i]
          /\ timed_result_json'[k + 1] = Comma
      BY <1>2, <3>1, AppendProperties
    <3>3. k + 1 = 2 * a
      BY <1>2, <2>2
    <3> QED BY <1>2, <2>2, <3>2, <3>3
  <2> QED BY <2>1, <2>2
<1>4. Appended' = a
  BY <1>1 DEF Appended
<1>5. ResultTypeOK'
  <2>1. UNCHANGED <<asr, cur_len, timed_result_sent_pos>>
    BY <1>1 DEF asrVars
  <2>2. cur_len \in 0..Len(timed_result_json') /\ timed_result_sent_pos \in 0..Len(timed_result_json')
    BY <1>0, <1>2, <1>3 DEF ResultTypeOK
  <2> QED BY <1>0, <1>1, <2>1, <2>2 DEF ResultTypeOK
<1>6. Progress'
  <2> HIDE DEF a
  <2>1. \A i \in 1..a : timed_result_json'[2 * i - 1] = decoded[i]
    <3> SUFFICES ASSUME NEW i \in 1..a PROVE timed_result_json'[2 * i - 1] = decoded[i]
      OBVIOUS
    <3>1. 2 * i - 1 \in 1..k
      BY <1>2
    <3>2. timed_result_json[2 * i - 1] = decoded[i]
      BY <1>0 DEF Progress, a
    <3> QED BY <1>3, <3>1, <3>2
  <2>2. \A i \in 1..a : 2 * i <= Len(timed_result_json') => timed_result_json'[2 * i] = Comma
    <3> SUFFICES ASSUME NEW i \in 1..a PROVE timed_result_json'[2 * i] = Comma
      OBVIOUS
    <3>1. CASE i = a
      BY <1>2, <1>3, <3>1
    <3>2. CASE i # a
      <4>1. 2 * i <= k /\ 2 * i \in 1..k
        BY <1>2, <3>2
      <4>2. timed_result_json[2 * i] = Comma
        BY <1>0, <4>1 DEF Progress, a
      <4> QED BY <1>3, <4>1, <4>2
    <3> QED BY <3>1, <3>2
  <2>3. \A i \in DOMAIN tokens : tokens[i] = decoded[a + i]
    BY <1>0 DEF Progress, a
  <2>4. /\ decoded \in Seq(Token \ {Comma}) /\ tokens \in Seq(Token \ {Comma})
        /\ ~decode_thread_done /\ (state = "kEndpoint" => segments < MaxSegments)
    BY <1>0, <1>1 DEF Progress
  <2> QED BY <1>1, <1>2, <1>3, <1>4, <2>1, <2>2, <2>3, <2>4 DEF Progress
<1>7. MarkersUpTo(Len(timed_result_json))' >= MarkersUpTo(k)
  <2>1. MarkersUpTo(k) = Cardinality(In(timed_result_json, k))
        /\ MarkersUpTo(Len(timed_result_json))'
             = Cardinality(In(timed_result_json', Len(timed_result_json')))
    BY UpToIsIn
  <2>2. Cardinality(In(timed_result_json, k)) \in Nat
    BY <1>2, MarkersFinite
  <2>3. CASE Len(timed_result_json') = k
    BY <1>2, <1>3, <2>1, <2>2, <2>3, MarkersSame
  <2>4. CASE Len(timed_result_json') = k + 1
    BY <1>2, <1>3, <2>1, <2>2, <2>4, MarkersMore
  <2>5. Len(timed_result_json') \in Nat
    BY <1>3, SeqFacts
  <2> QED BY <1>2, <1>3, <2>3, <2>4, <2>5
<1>8. MarkersUpTo(k) \in Nat /\ MarkersUpTo(Len(timed_result_json))' \in Nat
  <2>1. Len(timed_result_json') \in Nat
    BY <1>3, SeqFacts
  <2> QED BY <1>2, <2>1, MarkersFinite, UpToIsIn
<1>9. Announced'
  BY <1>0, <1>1, <1>7, <1>8 DEF Announced
<1>10. Fetched' /\ DeltasMissNothing' /\ EndpointIsFetched'
  BY <1>0, <1>1, <1>3, DisplayStays DEF Announced
<1> QED BY <1>5, <1>6, <1>9, <1>10 DEF ResultInv

LEMMA AppendTokenKeeps == ASSUME ResultInv, AppendToken PROVE ResultInv'
<1> DEFINE a == Appended
           k == Len(timed_result_json)
           t == Head(tokens)
<1>0. ResultTypeOK /\ Progress /\ Announced
  BY DEF ResultInv
<1>1. /\ dec = "token" /\ dec' = "append"
      /\ timed_result_json' = Append(timed_result_json, t)
      /\ tokens' = Tail(tokens)
      /\ UNCHANGED <<state, segments, decoded, decode_thread_done, endpoints,
                     has_new_endpoint, asrVars>>
  BY DEF AppendToken
<1>2. /\ a \in Nat /\ k \in Nat /\ k = 2 * a
      /\ timed_result_json \in Seq(Token)
      /\ tokens \in Seq(Token \ {Comma}) /\ decoded \in Seq(Token \ {Comma}) /\ tokens # <<>>
  <2>1. a \in Nat /\ k \in Nat /\ k = 2 * a
    <3> HIDE DEF a
    <3>1. a \in Nat /\ k \in Nat /\ k = IF a = 0 THEN 0 ELSE 2 * a
      BY <1>0, <1>1, Positions DEF a
    <3> QED BY <3>1
  <2> QED BY <1>0, <1>1, <2>1 DEF Progress
<1>3. /\ Len(tokens) \in Nat \ {0} /\ Len(decoded) \in Nat /\ DOMAIN tokens = 1..Len(tokens)
      /\ t = tokens[1] /\ t \in Token \ {Comma}
      /\ tokens' \in Seq(Token \ {Comma}) /\ Len(tokens') = Len(tokens) - 1
      /\ DOMAIN tokens' = 1..(Len(tokens) - 1)
      /\ \A i \in 1..(Len(tokens) - 1) : tokens'[i] = tokens[i + 1]
  BY <1>1, <1>2, HeadTailProperties, SeqFacts, EmptySeq
<1>4. /\ timed_result_json' \in Seq(Token) /\ Len(timed_result_json') = k + 1
      /\ \A i \in 1..k : timed_result_json'[i] = timed_result_json[i]
      /\ timed_result_json'[k + 1] = t
  <2>1. t \in Token
    BY <1>3
  <2> HIDE DEF t
  <2> QED BY <1>1, <1>2, <2>1, AppendProperties
<1>5. Len(tokens) \in Nat \ {0} /\ Len(tokens') = Len(tokens) - 1
  BY <1>3
<1>6. Appended' = a + 1 /\ a = Len(decoded) - Len(tokens)
  BY <1>1, <1>3 DEF Appended
<1> HIDE DEF a, t
<1>7. ResultTypeOK'
  <2>1. UNCHANGED <<asr, cur_len, timed_result_sent_pos>>
    BY <1>1 DEF asrVars
  <2>2. cur_len \in 0..Len(timed_result_json') /\ timed_result_sent_pos \in 0..Len(timed_result_json')
    BY <1>0, <1>2, <1>4 DEF ResultTypeOK
  <2> QED BY <1>0, <1>1, <2>1, <2>2 DEF ResultTypeOK
<1>8. Progress'
  <2>1. ASSUME NEW i \in 1..(a + 1) PROVE timed_result_json'[2 * i - 1] = decoded[i]
    <3>1. CASE i \in 1..a
      <4>1. 2 * i - 1 \in 1..k
        BY <1>2, <3>1
      <4>2. timed_result_json[2 * i - 1] = decoded[i]
        BY <1>0, <3>1 DEF Progress, a
      <4> QED BY <1>4, <4>1, <4>2
    <3>2. CASE i = a + 1
      <4>1. tokens[1] = decoded[a + 1]
        BY <1>0, <1>3 DEF Progress, a
      <4>2. 2 * i - 1 = k + 1
        BY <1>2, <3>2
      <4> QED BY <1>3, <1>4, <3>2, <4>1, <4>2
    <3> QED BY <1>2, <3>1, <3>2
  <2>2. ASSUME NEW i \in 1..(a + 1), 2 * i <= k + 1 PROVE timed_result_json'[2 * i] = Comma
    <3>1. i \in 1..a /\ 2 * i \in 1..k
      BY <1>2, <2>2
    <3>2. timed_result_json[2 * i] = Comma
      BY <1>0, <3>1 DEF Progress, a
    <3> QED BY <1>4, <3>1, <3>2
  <2>3. ASSUME NEW i \in 1..(Len(tokens) - 1) PROVE tokens'[i] = decoded[(a + 1) + i]
    <3>1. tokens[i + 1] = decoded[a + (i + 1)]
      <4>1. i + 1 \in DOMAIN tokens
        BY <1>3
      <4>2. \A j \in DOMAIN tokens : tokens[j] = decoded[a + j]
        BY <1>0 DEF Progress, a
      <4> QED BY <4>1, <4>2
    <3>2. a + (i + 1) = (a + 1) + i
      BY <1>2, <1>3
    <3> QED BY <1>3, <3>1, <3>2
  <2>4. ~decode_thread_done
    BY <1>0, <1>1 DEF Progress
  <2>5. a + 1 \in Nat /\ a + 1 # 0 /\ k + 1 = 2 * (a + 1) - 1
    BY <1>2
  <2>6. Appended' = a + 1 /\ Len(timed_result_json') = k + 1
        /\ timed_result_json' \in Seq(Token) /\ decoded' = decoded /\ dec' = "append"
        /\ tokens' \in Seq(Token \ {Comma}) /\ ~decode_thread_done'
        /\ DOMAIN tokens' = 1..(Len(tokens) - 1)
    BY <1>1, <1>3, <1>4, <1>6, <2>4
  <2>11. (state = "kEndpoint" => segments < MaxSegments)'
    BY <1>0, <1>1 DEF Progress
  <2>7. \A i \in DOMAIN tokens' : tokens'[i] = decoded'[Appended' + i]
    BY <2>3, <2>6
  <2>8. \A i \in 1..Appended' : timed_result_json'[2 * i - 1] = decoded'[i]
    BY <2>1, <2>6
  <2>9. \A i \in 1..Appended' :
          2 * i <= Len(timed_result_json') => timed_result_json'[2 * i] = Comma
    BY <2>2, <2>6
  <2>10. Appended' \in Nat /\ Appended' # 0 /\ Len(timed_result_json') = 2 * Appended' - 1
    BY <2>5, <2>6
  <2> QED BY <1>2, <2>6, <2>7, <2>8, <2>9, <2>10, <2>11 DEF Progress
<1>9. /\ MarkersUpTo(k) \in Nat /\ MarkersUpTo(Len(timed_result_json))' \in Nat
      /\ MarkersUpTo(Len(timed_result_json))' >= MarkersUpTo(k)
      /\ t = Newline => MarkersUpTo(Len(timed_result_json))' = MarkersUpTo(k) + 1
  <2>1. MarkersUpTo(k) = Cardinality(In(timed_result_json, k))
        /\ MarkersUpTo(Len(timed_result_json))' = Cardinality(In(timed_result_json', k + 1))
    BY <1>4, UpToIsIn
  <2>2. Cardinality(In(timed_result_json, k)) \in Nat
        /\ Cardinality(In(timed_result_json', k + 1)) \in Nat
    BY <1>2, MarkersFinite
  <2>3. /\ Cardinality(In(timed_result_json', k + 1)) >= Cardinality(In(timed_result_json, k))
        /\ timed_result_json'[k + 1] = Newline =>
             Cardinality(In(timed_result_json', k + 1)) = Cardinality(In(timed_result_json, k)) + 1
    BY <1>2, <1>4, MarkersMore
  <2>4. timed_result_json'[k + 1] = t
    BY <1>4
  <2> QED BY <2>1, <2>2, <2>3, <2>4
<1>10. Announced'
  <2>1. endpoints' \in Nat /\ endpoints' <= MarkersUpTo(Len(timed_result_json))'
    BY <1>0, <1>1, <1>9 DEF Announced
  <2>2. ASSUME state = "kEndpoint"
        PROVE  IF tokens' = <<>> THEN endpoints + 1 <= MarkersUpTo(Len(timed_result_json))'
               ELSE tokens'[Len(tokens')] = Newline
    <3>1. tokens[Len(tokens)] = Newline /\ endpoints \in Nat /\ endpoints <= MarkersUpTo(k)
      BY <1>0, <1>1, <1>2, <2>2 DEF Announced
    <3>2. CASE tokens' = <<>>
      <4>1. Len(tokens) = 1
        <5>1. Len(tokens') = 0
          BY <3>2
        <5> QED BY <1>5, <5>1
      <4>2. t = Newline
        BY <1>3, <3>1, <4>1
      <4> QED BY <1>9, <3>1, <3>2, <4>2
    <3>3. CASE tokens' # <<>>
      <4>1. Len(tokens) - 1 \in 1..(Len(tokens) - 1)
        <5>1. Len(tokens') # 0
          BY <1>3, <3>3, EmptySeq
        <5> QED BY <1>3, <5>1
      <4>2. tokens'[Len(tokens) - 1] = tokens[(Len(tokens) - 1) + 1]
        BY <1>3, <4>1
      <4>3. (Len(tokens) - 1) + 1 = Len(tokens)
        BY <1>3
      <4> QED BY <1>3, <3>1, <3>3, <4>2, <4>3
    <3> QED BY <3>2, <3>3
  <2> QED BY <1>1, <2>1, <2>2 DEF Announced
<1>11. Fetched' /\ DeltasMissNothing' /\ EndpointIsFetched'
  <2>1. k <= Len(timed_result_json') /\ dec # "exit" /\ endpoints' \in Nat /\ endpoints <= endpoints'
    BY <1>0, <1>1, <1>2, <1>4 DEF Announced
  <2> QED BY <1>1, <1>4, <2>1, DisplayStays
<1> QED BY <1>7, <1>8, <1>10, <1>11 DEF ResultInv

LEMMA AnnounceEndpointKeeps == ASSUME ResultInv, AnnounceEndpoint PROVE ResultInv'
<1>0. ResultTypeOK /\ Progress /\ Announced
  BY DEF ResultInv
<1>1. /\ dec = "append" /\ tokens = <<>> /\ state = "kEndpoint"
      /\ has_new_endpoint' = TRUE /\ endpoints' = endpoints + 1 /\ dec' = "decode"
      /\ UNCHANGED <<state, tokens, segments, decoded, timed_result_json, decode_thread_done,
                     asrVars>>
  BY DEF AnnounceEndpoint
<1>2. segments < MaxSegments
  BY <1>0, <1>1 DEF Announced, Progress
<1>3. ResultTypeOK'
  BY <1>0, <1>1 DEF ResultTypeOK, asrVars
<1>4. Progress'
  BY <1>0, <1>1, <1>2 DEF Progress, Appended
<1>5. Announced'
  BY <1>0, <1>1 DEF Announced, MarkersUpTo
<1>6. Fetched' /\ DeltasMissNothing' /\ EndpointIsFetched'
  <2>1. timed_result_json' \in Seq(Token) /\ Len(timed_result_json) <= Len(timed_result_json')
        /\ endpoints' \in Nat /\ endpoints <= endpoints'
    BY <1>0, <1>1, SeqFacts DEF Progress, Announced
  <2> QED BY <1>1, <2>1, DisplayStays
<1> QED BY <1>3, <1>4, <1>5, <1>6 DEF ResultInv

LEMMA DecodeThreadDoneKeeps == ASSUME ResultInv, DecodeThreadDone PROVE ResultInv'
<1>0. ResultTypeOK /\ Progress /\ Announced
  BY DEF ResultInv
<1>1. /\ dec = "append" /\ tokens = <<>> /\ state = "kEndFeats"
      /\ decode_thread_done' = TRUE /\ dec' = "exit"
      /\ UNCHANGED <<state, tokens, segments, decoded, timed_result_json, endpoints,
                     has_new_endpoint, asrVars>>
  BY DEF DecodeThreadDone
<1>3. ResultTypeOK'
  BY <1>0, <1>1 DEF ResultTypeOK, asrVars
<1>4. Progress'
  BY <1>0, <1>1 DEF Progress, Appended
<1>5. Announced'
  BY <1>0, <1>1 DEF Announced, MarkersUpTo
<1>6. Fetched' /\ DeltasMissNothing' /\ EndpointIsFetched'
  <2>1. timed_result_json' \in Seq(Token) /\ Len(timed_result_json) <= Len(timed_result_json')
        /\ endpoints' \in Nat /\ endpoints <= endpoints'
    BY <1>0, <1>1, SeqFacts DEF Progress, Announced
  <2> QED BY <1>1, <2>1, DisplayStays
<1> QED BY <1>3, <1>4, <1>5, <1>6 DEF ResultInv

LEMMA HasNewEndpointKeeps == ASSUME ResultInv, HasNewEndpoint PROVE ResultInv'
<1>0. ResultTypeOK /\ Announced /\ Fetched
  BY DEF ResultInv
<1>1. /\ asr = "loop" /\ has_new_endpoint' = FALSE /\ seen' = endpoints
      /\ asr' \in {"delta", "loop"} /\ (asr' = "loop" => ~has_new_endpoint)
      /\ UNCHANGED <<decVars, cur_len, delta, timed_result_sent_pos, returned, saved>>
  BY DEF HasNewEndpoint
<1>2. ResultTypeOK'
  BY <1>0, <1>1 DEF ResultTypeOK, decVars
<1>3. Progress' /\ Announced'
  BY <1>1, DecodeStays
<1>4. Fetched'
  BY <1>0, <1>1 DEF Fetched, Announced, decVars
<1>5. DeltasMissNothing'
  BY <1>1 DEF ResultInv, DeltasMissNothing, decVars
<1>6. EndpointIsFetched'
  BY <1>0, <1>1 DEF ResultInv, EndpointIsFetched, Fetched, MarkersUpTo, decVars
<1> QED BY <1>2, <1>3, <1>4, <1>5, <1>6 DEF ResultInv

\* After the update the display goes on or waits for the end: in each case it is none of the
\* points at which something is known of cur_len and delta.
LEMMA DeltaLengthKeeps == ASSUME ResultInv, DeltaLength PROVE ResultInv'
<1>0. ResultTypeOK /\ Progress /\ Announced /\ Fetched
  BY DEF ResultInv
<1>1. /\ asr = "delta" /\ cur_len' = Len(timed_result_json)
      /\ asr' \in {"loop", "wait", "substr"}
      /\ asr' = "substr" <=> Len(timed_result_json) # timed_result_sent_pos
      /\ UNCHANGED <<decVars, has_new_endpoint, delta, timed_result_sent_pos, returned, seen,
                     saved>>
  BY DEF DeltaLength, DisplayDone
<1>2. /\ Len(timed_result_json) \in Nat /\ endpoints \in Nat /\ seen \in Nat
      /\ timed_result_sent_pos \in 0..Len(timed_result_json)
      /\ endpoints <= MarkersUpTo(Len(timed_result_json)) /\ seen <= endpoints
      /\ MarkersUpTo(Len(timed_result_json)) \in Nat
  BY <1>0, SeqFacts, MarkersFinite, UpToIsIn DEF ResultTypeOK, Progress, Announced, Fetched
<1>3. MarkersUpTo(Len(timed_result_json)) >= seen
  BY <1>2
<1>4. UNCHANGED timed_result_json
  BY <1>1 DEF decVars
<1>5. ResultTypeOK'
  <2>1. cur_len' \in 0..Len(timed_result_json)
    BY <1>1, <1>2
  <2> QED BY <1>0, <1>1, <2>1 DEF ResultTypeOK, decVars
<1>6. Progress' /\ Announced'
  BY <1>1, DecodeStays
<1>7. Fetched'
  <2>1. asr' \in {"substr", "return"} =>
          timed_result_sent_pos' < cur_len' /\ MarkersUpTo(cur_len)' >= seen'
    BY <1>1, <1>2, <1>3, <1>4 DEF MarkersUpTo
  <2>2. UNCHANGED <<delta, seen, endpoints, has_new_endpoint>> /\ asr' # "return" /\ asr' # "exit"
    BY <1>1 DEF decVars
  <2> QED BY <1>0, <2>1, <2>2 DEF Fetched
<1>8. DeltasMissNothing'
  BY <1>1 DEF ResultInv, DeltasMissNothing, decVars
<1>9. EndpointIsFetched'
  BY <1>1, <1>3, <1>4 DEF EndpointIsFetched, MarkersUpTo
<1> QED BY <1>5, <1>6, <1>7, <1>8, <1>9 DEF ResultInv

LEMMA DeltaSubstrKeeps == ASSUME ResultInv, DeltaSubstr PROVE ResultInv'
<1> DEFINE k == Len(timed_result_json)
           p == timed_result_sent_pos
<1>0. ResultTypeOK /\ Progress /\ Announced /\ Fetched
  BY DEF ResultInv
<1>1. /\ asr = "substr" /\ asr' = "return"
      /\ delta' = SubSeq(timed_result_json, p + 1, k)
      /\ UNCHANGED <<decVars, has_new_endpoint, cur_len, timed_result_sent_pos, returned, seen,
                     saved>>
  BY DEF DeltaSubstr
<1>2. /\ timed_result_json \in Seq(Token) /\ k \in Nat /\ p \in Nat /\ p < cur_len
      /\ cur_len \in Nat /\ cur_len <= k
  BY <1>0, <1>1, SeqFacts DEF ResultTypeOK, Progress, Fetched
<1>3. /\ delta' \in Seq(Token) /\ Len(delta') = k - p /\ DOMAIN delta' = 1..(k - p)
      /\ \A i \in 1..(k - p) : delta'[i] = timed_result_json[p + i]
  <2>1. p + 1 \in 1..(k + 1) /\ k \in p..k /\ k - (p + 1) + 1 = k - p
    BY <1>2
  <2>2. /\ delta' \in Seq(Token) /\ Len(delta') = k - p
        /\ \A i \in 1..(k - p) : delta'[i] = timed_result_json[p + i]
    <3>1. \A i \in (p + 1)..k : timed_result_json[i] \in Token
      BY <1>2, SeqFacts
    <3>2. delta' = [i \in 1..(k - p) |-> timed_result_json[p + i]]
      <4>1. delta' = [i \in 1..(1 + k - (p + 1)) |-> timed_result_json[i + (p + 1) - 1]]
        BY <1>1, <1>2
      <4>2. 1 + k - (p + 1) = k - p /\ \A i \in 1..(k - p) : i + (p + 1) - 1 = p + i
        BY <1>2
      <4> QED BY <4>1, <4>2
    <3>3. k - p \in Nat /\ \A i \in 1..(k - p) : timed_result_json[p + i] \in Token
      BY <1>2, <3>1
    <3> QED BY <3>2, <3>3, IsASeq
  <2> QED BY <2>2, SeqFacts
<1>4. delta' # <<>>
  BY <1>2, <1>3, EmptySeq
<1>5. ASSUME NEW i \in 1..cur_len, IsToken(timed_result_json[i])
      PROVE  timed_result_json[i] \in returned \cup ToSet(delta')
  <2>1. CASE i <= p
    BY <1>2, <1>5, <2>1 DEF ResultInv, DeltasMissNothing
  <2>2. CASE i > p
    <3>1. i - p \in 1..(k - p) /\ p + (i - p) = i
      BY <1>2, <2>2
    <3>2. delta'[i - p] = timed_result_json[i] /\ i - p \in DOMAIN delta'
      BY <1>3, <3>1
    <3> QED BY <3>2 DEF ToSet
  <2> QED BY <1>2, <2>1, <2>2
<1>6. ResultTypeOK'
  BY <1>0, <1>1 DEF ResultTypeOK, decVars
<1>7. Progress' /\ Announced'
  BY <1>1, DecodeStays
<1>8. Fetched'
  <2>1. UNCHANGED <<timed_result_json, endpoints>>
    BY <1>1 DEF decVars
  <2> QED BY <1>0, <1>1, <1>3, <1>4, <1>5, <2>1 DEF Fetched, MarkersUpTo
<1>9. DeltasMissNothing' /\ EndpointIsFetched'
  BY <1>1 DEF ResultInv, DeltasMissNothing, EndpointIsFetched, decVars
<1> QED BY <1>6, <1>7, <1>8, <1>9 DEF ResultInv

\* Only a comma is left out of what the delta returns.
LEMMA DeltaTokens ==
  ASSUME delta \in Seq(Token), delta # <<>>, NEW t \in ToSet(delta), IsToken(t)
  PROVE  t \in ToSet(Delta)
<1>1. CASE Head(delta) # Comma
  BY <1>1 DEF Delta
<1>2. CASE Head(delta) = Comma
  <2>1. PICK i \in DOMAIN delta : delta[i] = t
    BY DEF ToSet
  <2>2. i \in 1..Len(delta) /\ Head(delta) = delta[1] /\ Len(delta) \in Nat
    BY <2>1, SeqFacts
  <2>3. i # 1
    BY <1>2, <2>1, <2>2 DEF IsToken
  <2>4. /\ Tail(delta) \in Seq(Token) /\ Len(Tail(delta)) = Len(delta) - 1
        /\ \A j \in 1..Len(Tail(delta)) : Tail(delta)[j] = delta[j + 1]
    BY HeadTailProperties
  <2>5. DOMAIN Tail(delta) = 1..(Len(delta) - 1)
    BY <2>4, SeqFacts
  <2>6. i - 1 \in 1..(Len(delta) - 1) /\ (i - 1) + 1 = i
    BY <2>2, <2>3
  <2>7. Tail(delta)[i - 1] = t
    BY <2>1, <2>4, <2>6
  <2> QED BY <1>2, <2>5, <2>6, <2>7 DEF Delta, ToSet
<1> QED BY <1>1, <1>2

LEMMA DeltaReturnKeeps == ASSUME ResultInv, DeltaReturn PROVE ResultInv'
<1>0. ResultTypeOK /\ Progress /\ Announced /\ Fetched
  BY DEF ResultInv
<1>1. /\ asr = "return" /\ asr' \in {"loop", "wait"} /\ timed_result_sent_pos' = cur_len
      /\ returned' = returned \cup ToSet(Delta)
      /\ UNCHANGED <<decVars, has_new_endpoint, cur_len, delta, seen, saved>>
  BY DEF DeltaReturn, DisplayDone
<1>2. ResultTypeOK'
  BY <1>0, <1>1 DEF ResultTypeOK, decVars
<1>3. Progress' /\ Announced'
  BY <1>1, DecodeStays
<1>4. Fetched'
  BY <1>0, <1>1 DEF Fetched, decVars
<1>5. DeltasMissNothing'
  <2>1. ASSUME NEW i \in 1..cur_len, IsToken(timed_result_json[i])
        PROVE  timed_result_json[i] \in returned'
    <3>1. timed_result_json[i] \in returned \cup ToSet(delta) /\ delta \in Seq(Token) /\ delta # <<>>
      BY <1>0, <1>1, <2>1 DEF Fetched
    <3> QED BY <1>1, <2>1, <3>1, DeltaTokens
  <2> QED BY <1>1, <2>1 DEF DeltasMissNothing, decVars
<1>6. EndpointIsFetched'
  BY <1>0, <1>1 DEF EndpointIsFetched, Fetched, MarkersUpTo, decVars
<1> QED BY <1>2, <1>3, <1>4, <1>5, <1>6 DEF ResultInv

LEMMA SaveKeeps == ASSUME ResultInv, Save PROVE ResultInv'
<1>0. ResultTypeOK /\ Progress /\ Announced /\ Fetched
  BY DEF ResultInv
<1>1. /\ asr = "wait" /\ asr' = "exit" /\ decode_thread_done /\ saved' = timed_result_json
      /\ UNCHANGED <<decVars, has_new_endpoint, cur_len, delta, timed_result_sent_pos, returned,
                     seen>>
  BY DEF Save
<1>2. ResultTypeOK'
  BY <1>0, <1>1 DEF ResultTypeOK, decVars
<1>3. Progress' /\ Announced'
  BY <1>1, DecodeStays
<1>4. Fetched'
  BY <1>0, <1>1 DEF Fetched, Progress, decVars
<1>5. DeltasMissNothing'
  BY <1>1 DEF ResultInv, DeltasMissNothing, decVars
<1>6. EndpointIsFetched'
  BY <1>1 DEF ResultInv, EndpointIsFetched, MarkersUpTo, decVars
<1> QED BY <1>2, <1>3, <1>4, <1>5, <1>6 DEF ResultInv

LEMMA NothingKeepsResult == ASSUME ResultInv, UNCHANGED resultVars PROVE ResultInv'
<1>1. Progress' /\ Announced'
  BY DecodeStays DEF resultVars
<1>2. ResultTypeOK' /\ Fetched'
  BY DEF ResultInv, ResultTypeOK, Fetched, MarkersUpTo, resultVars, decVars, asrVars
<1>3. DeltasMissNothing' /\ EndpointIsFetched'
  BY DEF ResultInv, DeltasMissNothing, EndpointIsFetched, MarkersUpTo, resultVars, decVars, asrVars
<1> QED BY <1>1, <1>2, <1>3 DEF ResultInv

LEMMA NextKeepsResultInv == ResultInv /\ [ResultNext]_resultVars => ResultInv'
BY DecodeKeeps, AppendCommaKeeps, AppendTokenKeeps, AnnounceEndpointKeeps,
   DecodeThreadDoneKeeps, HasNewEndpointKeeps, DeltaLengthKeeps, DeltaSubstrKeeps,
   DeltaReturnKeeps, SaveKeeps, NothingKeepsResult DEF ResultNext, DecodeThread, AsrThread

LEMMA ResultInvHolds == ResultSpec => []ResultInv
<1> QED BY InitResultInv, NextKeepsResultInv, PTL DEF ResultSpec

\* When the thread is done, nothing is left to append.
LEMMA DoneIsComplete == ResultInv => SavedIsComplete
<1> SUFFICES ASSUME ResultInv, asr = "exit"
             PROVE  dec = "exit" /\ saved = timed_result_json /\ IsArrayOf(saved, decoded)
  BY DEF SavedIsComplete
<1> DEFINE n == Len(decoded)
<1>1. Progress /\ dec = "exit" /\ saved = timed_result_json /\ tokens = <<>>
  BY DEF ResultInv, Fetched, Progress
<1>2. decoded \in Seq(Token \ {Comma}) /\ Len(tokens) = 0
  BY <1>1 DEF Progress
<1>3. n \in Nat /\ DOMAIN decoded = 1..n /\ (decoded = <<>> <=> n = 0)
  BY <1>2, SeqFacts, EmptySeq
<1>4. Appended = n
  BY <1>2, <1>3 DEF Appended
<1>5. Len(timed_result_json) = IF n = 0 THEN 0 ELSE 2 * n - 1
  BY <1>1, <1>4 DEF Progress
<1>6. \A i \in 1..n : timed_result_json[2 * i - 1] = decoded[i]
  BY <1>1, <1>4 DEF Progress
<1>7. ASSUME NEW i \in 1..(n - 1) PROVE timed_result_json[2 * i] = Comma
  <2>1. i \in 1..n /\ 2 * i <= Len(timed_result_json)
    BY <1>3, <1>5
  <2> QED BY <1>1, <1>4, <2>1 DEF Progress
<1> QED BY <1>1, <1>3, <1>5, <1>6, <1>7 DEF IsArrayOf

\* Whatever the order of the threads' accesses, and however many words and segments there are:
\* the saved result has all that was decoded, the deltas miss no word, and an endpoint that
\* was announced has been fetched when the display is done.
THEOREM ResultIsComplete == ResultSpec => []ResultsAreComplete
<1>1. ResultInv => ResultsAreComplete
  BY DoneIsComplete DEF ResultInv, ResultsAreComplete
<1> QED BY <1>1, ResultInvHolds, PTL
================================================================================
