------------------------- MODULE FeaturePipeline_proofs -------------------------
(***************************************************************************)
(* Proofs about FeaturePipeline for every frame length and shift, every    *)
(* choice of chunk and read sizes and every interleaving.                  *)
(***************************************************************************)
EXTENDS FeaturePipeline, SequenceTheorems, TLAPS

--------------------------------------------------------------------------------
(***************************************************************************)
(* Sequences and division.                                                 *)
(***************************************************************************)

\* Cutting a queue in two loses nothing and keeps the order.
LEMMA SplitQueue ==
  ASSUME NEW S, NEW q \in Seq(S), NEW k \in 0..Len(q)
  PROVE  /\ SubSeq(q, 1, k) \in Seq(S)
         /\ SubSeq(q, k + 1, Len(q)) \in Seq(S)
         /\ Len(SubSeq(q, 1, k)) = k
         /\ Len(SubSeq(q, k + 1, Len(q))) = Len(q) - k
         /\ \A i \in 1..(Len(q) - k) : SubSeq(q, k + 1, Len(q))[i] = q[k + i]
         /\ SubSeq(q, 1, k) \o SubSeq(q, k + 1, Len(q)) = q
<1> DEFINE front == SubSeq(q, 1, k)
           back  == SubSeq(q, k + 1, Len(q))
<1>1. /\ front \in Seq(S) /\ Len(front) = k
      /\ \A i \in 1..k : front[i] = q[i]
  OBVIOUS
<1>2. /\ back \in Seq(S) /\ Len(back) = Len(q) - k
      /\ \A i \in 1..(Len(q) - k) : back[i] = q[k + i]
  OBVIOUS
<1>3. front \o back = q
  <2> HIDE DEF front, back
  <2>1. /\ front \o back \in Seq(S)
        /\ Len(front \o back) = k + (Len(q) - k)
        /\ \A i \in 1..Len(q) : (front \o back)[i] = IF i <= k THEN front[i] ELSE back[i - k]
    BY <1>1, <1>2, ConcatProperties
  <2>2. \A i \in 1..Len(q) : (front \o back)[i] = q[i]
    <3>1. TAKE i \in 1..Len(q)
    <3>2. CASE i <= k
      BY <1>1, <2>1, <3>2
    <3>3. CASE ~(i <= k)
      <4>1. i - k \in 1..(Len(q) - k) /\ k + (i - k) = i
        BY <3>3
      <4>2. QED BY <1>2, <2>1, <3>3, <4>1
    <3>4. QED BY <3>2, <3>3
  <2>3. Len(front \o back) = Len(q)
    BY <2>1
  <2>4. QED BY <2>1, <2>2, <2>3, SeqEqual
<1>4. QED
  BY <1>1, <1>2, <1>3

LEMMA EmptyQueue ==
  ASSUME NEW S, NEW q \in Seq(S), Len(q) = 0
  PROVE  q = <<>>
BY EmptySeq

LEMMA ProductNat == \A a, b \in Nat : a * b \in Nat
  BY SMT

\* A frame count never claims more samples than there are.
LEMMA NumFramesBound ==
  ASSUME NEW n \in Nat
  PROVE  /\ NumFrames(n) \in Nat
         /\ FrameShift * NumFrames(n) <= n
         /\ \A k \in 0..(NumFrames(n) - 1) : k * FrameShift + FrameLength <= n
         /\ n < FrameLength + FrameShift * NumFrames(n)
<1> USE FramingAssumption DEF NumFrames
<1>1. CASE n < FrameLength
  BY <1>1
<1>2. CASE n >= FrameLength
  <2> DEFINE d == n - FrameLength
             q == d \div FrameShift
  <2>1. d \in Nat /\ q \in Nat /\ FrameShift * q <= d /\ d < FrameShift * (q + 1)
    BY <1>2
  <2> QED BY <1>2, <2>1
<1>3. QED
  BY <1>1, <1>2

\* Cutting the stream in two does not change the number of frames: the samples
\* kept after NumFrames(m) frames, with the next ones, give the remaining frames.
LEMMA NumFramesIncremental ==
  ASSUME NEW m \in Nat, NEW size \in Nat
  PROVE  NumFrames(m + size)
           = NumFrames(m) + NumFrames(m - FrameShift * NumFrames(m) + size)
<1> USE FramingAssumption
<1>1. CASE m < FrameLength
  BY <1>1 DEF NumFrames
<1>2. CASE ~(m < FrameLength)
  <2> DEFINE q == (m - FrameLength) \div FrameShift
             r == m - FrameLength - FrameShift * q
  <2>1. q \in Nat /\ r \in 0..(FrameShift - 1) /\ m = FrameLength + FrameShift * q + r
    BY <1>2
  <2>2. NumFrames(m) = 1 + q
    BY <1>2 DEF NumFrames
  <2> HIDE DEF q, r
  <2>3. FrameShift * NumFrames(m) = FrameShift + FrameShift * q
    BY <2>1, <2>2
  <2>4. m - FrameShift * NumFrames(m) + size = FrameLength - FrameShift + r + size
    BY <2>1, <2>3
  <2>5. NumFrames(m + size) = 1 + ((FrameShift * q + r + size) \div FrameShift)
    BY <1>2, <2>1 DEF NumFrames
  <2>6. (FrameShift * q + r + size) \div FrameShift = q + ((r + size) \div FrameShift)
    BY <2>1
  <2>7. NumFrames(FrameLength - FrameShift + r + size) = (r + size) \div FrameShift
    <3>1. CASE r + size < FrameShift
      <4>1. (r + size) \div FrameShift = 0
        BY <2>1, <3>1
      <4>2. QED BY <2>1, <3>1, <4>1 DEF NumFrames
    <3>2. CASE ~(r + size < FrameShift)
      <4>1. (r + size) \div FrameShift = 1 + ((r + size - FrameShift) \div FrameShift)
        BY <2>1, <3>2
      <4>2. FrameLength - FrameShift + r + size - FrameLength = r + size - FrameShift
        BY <2>1
      <4>3. QED BY <2>1, <3>2, <4>1, <4>2 DEF NumFrames
    <3>3. QED BY <3>1, <3>2
  <2>8. (r + size) \div FrameShift \in Int /\ q \in Int
    BY <2>1
  <2>9. NumFrames(m + size) = 1 + (q + ((r + size) \div FrameShift))
    BY <2>5, <2>6
  <2>10. QED
    BY <2>2, <2>4, <2>7, <2>8, <2>9
<1>3. QED
  BY <1>1, <1>2

--------------------------------------------------------------------------------
(***************************************************************************)
(* AcceptWaveform.                                                         *)
(***************************************************************************)

\* The frames cut out of a sequence of samples.
LEMMA FbankFrames ==
  ASSUME NEW waves \in Seq(Nat)
  PROVE  /\ Fbank(waves) \in Seq(Frame)
         /\ Len(Fbank(waves)) = NumFrames(Len(waves))
         /\ \A j \in 1..NumFrames(Len(waves)) :
              Fbank(waves)[j] = FrameAt(waves, j - 1)
<1> DEFINE N == NumFrames(Len(waves))
<1>1. /\ N \in Nat
      /\ \A k \in 0..(N - 1) : k * FrameShift + FrameLength <= Len(waves)
  BY NumFramesBound
<1>2. ASSUME NEW j \in 1..N
      PROVE  FrameAt(waves, j - 1) \in Frame
  <2> DEFINE k == j - 1
             off == k * FrameShift
  <2>1. /\ k \in Nat /\ off \in Nat
        /\ off + FrameLength <= Len(waves)
    <3>1. k \in 0..(N - 1) /\ k \in Nat
      BY <1>1
    <3>2. QED BY <1>1, <3>1, ProductNat, FramingAssumption
  <2> HIDE DEF k, off
  <2>2. \A i \in 1..FrameLength : waves[off + i] \in Nat
    <3>1. TAKE i \in 1..FrameLength
    <3>2. off + i \in 1..Len(waves)
      BY <2>1, FramingAssumption
    <3>3. QED BY <3>2, ElementOfSeq
  <2>3. QED BY <2>2 DEF FrameAt, Frame, k, off
<1> HIDE DEF N
<1>3. [j \in 1..N |-> FrameAt(waves, j - 1)] \in Seq(Frame)
  BY <1>1, <1>2, IsASeq
<1>4. QED
  BY <1>1, <1>2, <1>3 DEF Fbank, N

\* The samples kept after those frames.
LEMMA LeftSamplesKept ==
  ASSUME NEW waves \in Seq(Nat), NEW n, n = NumFrames(Len(waves))
  PROVE  /\ LeftSamples(waves, n) \in Seq(Nat)
         /\ Len(LeftSamples(waves, n)) = Len(waves) - FrameShift * n
         /\ \A i \in 1..(Len(waves) - FrameShift * n) :
              LeftSamples(waves, n)[i] = waves[FrameShift * n + i]
<1> DEFINE k == FrameShift * n
<1>1. k \in 0..Len(waves)
  <2>1. Len(waves) \in Nat
    BY LenProperties
  <2>2. n \in Nat /\ k <= Len(waves)
    BY <2>1, NumFramesBound
  <2>3. QED BY <2>1, <2>2, ProductNat, FramingAssumption
<1> HIDE DEF k
<1>2. QED
  BY <1>1, SplitQueue DEF LeftSamples, k

\* AcceptWaveform keeps the framing exact: the kept samples and the new ones are
\* consecutive, so their windows continue those already produced.
LEMMA AcceptKeepsIInv ==
  ASSUME IInv, NEW size \in ChunkSizes, AcceptWaveform(size)
  PROVE  IInv'
<1> DEFINE new    == [i \in 1..size |-> accepted + i]
           waves  == remained_wav \o new
           frames == Fbank(waves)
           base   == origin + FrameShift * num_frames
           m      == accepted - origin
           n      == NumFrames(Len(waves))
<1> USE SizesAssumption
<1>1. /\ TypeOK /\ size \in Nat
      /\ m \in Nat
      /\ FrameShift * num_frames \in Nat
      /\ base \in Nat
  <2>1. TypeOK /\ size \in Nat
    BY DEF IInv
  <2>2. m \in Nat
    BY <2>1 DEF IInv, Framing, TypeOK
  <2>3. FrameShift * num_frames \in Nat
    BY <2>1, ProductNat, FramingAssumption DEF TypeOK
  <2>4. QED BY <2>1, <2>2, <2>3 DEF TypeOK
<1>2. /\ waves \in Seq(Nat)
      /\ Len(waves) = m - FrameShift * num_frames + size
      /\ \A i \in 1..Len(waves) : waves[i] = base + i
  <2>1. /\ new \in Seq(Nat) /\ Len(new) = size
        /\ \A i \in 1..size : new[i] = accepted + i
    BY <1>1 DEF TypeOK
  <2>2. /\ remained_wav \in Seq(Nat)
        /\ Len(remained_wav) = m - FrameShift * num_frames
        /\ \A i \in 1..Len(remained_wav) : remained_wav[i] = base + i
    BY <1>1 DEF IInv, Framing, TypeOK
  <2> HIDE DEF new
  <2>3. /\ waves \in Seq(Nat)
        /\ Len(waves) = Len(remained_wav) + size
        /\ \A i \in 1..Len(waves) :
             waves[i] = IF i <= Len(remained_wav) THEN remained_wav[i]
                                                  ELSE new[i - Len(remained_wav)]
    <3>1. /\ waves \in Seq(Nat)
          /\ Len(waves) = Len(remained_wav) + Len(new)
          /\ \A i \in 1..Len(remained_wav) + Len(new) :
               waves[i] = IF i <= Len(remained_wav) THEN remained_wav[i]
                                                    ELSE new[i - Len(remained_wav)]
      <4>1. new \in Seq(Nat) /\ remained_wav \in Seq(Nat)
        BY <2>1, <2>2
      <4>2. QED BY ONLY <4>1, ConcatProperties DEF waves
    <3>2. QED BY <2>1, <3>1
  <2>4. ASSUME NEW i \in 1..Len(waves)
        PROVE  waves[i] = base + i
    <3>1. CASE i <= Len(remained_wav)
      BY <2>2, <2>3, <3>1
    <3>2. CASE ~(i <= Len(remained_wav))
      <4>1. i - Len(remained_wav) \in 1..size
        BY <1>1, <2>2, <2>3, <3>2
      <4>2. waves[i] = accepted + (i - Len(remained_wav))
        BY <2>1, <2>3, <3>2, <4>1
      <4>3. accepted = base + Len(remained_wav)
        BY SMTT(30), <1>1, <2>2 DEF TypeOK
      <4>4. QED BY SMTT(30), <1>1, <2>2, <2>3, <4>2, <4>3 DEF TypeOK
    <3>3. QED BY <3>1, <3>2
  <2>5. QED BY <1>1, <2>2, <2>3, <2>4
<1> HIDE DEF waves
<1>3. /\ frames \in Seq(Frame) /\ Len(frames) = n /\ n \in Nat
      /\ \A j \in 1..n : frames[j] = FrameAt(waves, j - 1)
      /\ \A k \in 0..(n - 1) : k * FrameShift + FrameLength <= Len(waves)
      /\ LeftSamples(waves, n) \in Seq(Nat)
      /\ Len(LeftSamples(waves, n)) = Len(waves) - FrameShift * n
      /\ \A i \in 1..(Len(waves) - FrameShift * n) :
           LeftSamples(waves, n)[i] = waves[FrameShift * n + i]
      /\ FrameShift * n \in Nat /\ FrameShift * n <= Len(waves)
  <2>1. Len(waves) \in Nat
    BY <1>2, LenProperties
  <2>2. n \in Nat /\ FrameShift * n <= Len(waves)
        /\ \A k \in 0..(n - 1) : k * FrameShift + FrameLength <= Len(waves)
    BY <2>1, NumFramesBound
  <2>3. FrameShift * n \in Nat
    BY <2>2, ProductNat, FramingAssumption
  <2>4. QED
    BY <1>2, <2>2, <2>3, FbankFrames, LeftSamplesKept
<1>4. /\ feature_queue' = feature_queue \o frames
      /\ produced' = produced \o frames
      /\ num_frames' = num_frames + n
      /\ remained_wav' = LeftSamples(waves, n)
      /\ accepted' = accepted + size
      /\ wpc' = "notify"
      /\ ~input_finished
      /\ UNCHANGED <<input_finished, mutex, rpc, want, count, resets, origin,
                     delivered, ended>>
  BY <1>3 DEF AcceptWaveform, waves
<1> HIDE DEF frames, n
<1>5. TypeOK'
  <2>1. /\ feature_queue \o frames \in Seq(Frame)
        /\ produced \o frames \in Seq(Frame)
    BY <1>1, <1>3, ConcatProperties DEF TypeOK
  <2>2. accepted + size \in Nat /\ num_frames + n \in Nat
    BY <1>1, <1>3 DEF TypeOK
  <2>3. QED
    BY <1>1, <1>3, <1>4, <2>1, <2>2 DEF TypeOK
<1>6. NothingLost'
  <2>1. (delivered \o feature_queue) \o frames = delivered \o (feature_queue \o frames)
    <3>1. /\ delivered \in Seq(Frame) /\ feature_queue \in Seq(Frame)
          /\ frames \in Seq(Frame)
      BY <1>1, <1>3 DEF TypeOK
    <3>2. QED BY ONLY <3>1, ConcatAssociative
  <2>2. QED BY <1>4, <2>1 DEF IInv, NothingLost
<1>7. Len(produced') = num_frames' /\ Len(feature_queue') >= Len(feature_queue)
  <2>1. /\ feature_queue \in Seq(Frame) /\ produced \in Seq(Frame)
        /\ num_frames = Len(produced)
    BY <1>1 DEF IInv, Framing, TypeOK
  <2>2. /\ Len(feature_queue \o frames) = Len(feature_queue) + n
        /\ Len(produced \o frames) = Len(produced) + n
    <3>1. frames \in Seq(Frame) /\ Len(frames) = n
      BY <1>3
    <3>2. QED BY ONLY <2>1, <3>1, ConcatProperties
  <2>3. QED BY <1>3, <1>4, <2>1, <2>2, LenProperties
<1>8. FrameShift * (num_frames + n) = FrameShift * num_frames + FrameShift * n
  BY <1>1, <1>3, FramingAssumption DEF TypeOK
<1>9. Framing'
  <2>1. origin' <= accepted'
    BY <1>1, <1>4 DEF TypeOK
  <2>2. Len(remained_wav') = accepted' - origin' - FrameShift * num_frames'
    <3> DEFINE A == FrameShift * num_frames
               B == FrameShift * n
    <3>1. /\ Len(waves) = m - A + size
          /\ Len(remained_wav') = Len(waves) - B
          /\ FrameShift * num_frames' = A + B
          /\ accepted' = accepted + size /\ origin' = origin
          /\ A \in Nat /\ B \in Nat /\ accepted \in Nat /\ origin \in Nat
      BY <1>1, <1>2, <1>3, <1>4, <1>8 DEF TypeOK
    <3> HIDE DEF A, B
    <3>2. QED BY <1>1, <3>1
  <2>3. ASSUME NEW i \in 1..Len(remained_wav')
        PROVE  remained_wav'[i] = origin' + FrameShift * num_frames' + i
    <3>1. FrameShift * n + i \in 1..Len(waves)
      <4> DEFINE b == FrameShift * n
      <4>1. b \in Nat /\ Len(waves) \in Nat /\ Len(remained_wav') = Len(waves) - b
        BY <1>2, <1>3, <1>4
      <4> HIDE DEF b
      <4>2. b + i \in 1..Len(waves)
        BY ONLY <4>1, i \in 1..Len(remained_wav')
      <4> QED BY <4>2 DEF b
    <3>2. remained_wav'[i] = base + (FrameShift * n + i)
      BY <1>2, <1>3, <1>4, <3>1
    <3>3. i \in Nat
      OBVIOUS
    <3> DEFINE A == FrameShift * num_frames
               B == FrameShift * n
    <3>4. /\ A \in Nat /\ B \in Nat /\ origin \in Nat /\ origin' = origin
          /\ FrameShift * num_frames' = A + B
          /\ remained_wav'[i] = origin + A + (B + i)
      BY <1>1, <1>3, <1>4, <1>8, <3>2 DEF TypeOK
    <3> HIDE DEF A, B
    <3>5. QED BY <3>3, <3>4
  <2>4. QED BY <1>7, <2>1, <2>2, <2>3 DEF Framing
<1>10. FramesAreWindows'
  <2>1. Len(produced') = NumFrames(accepted' - origin')
    <3>1. num_frames = NumFrames(m)
      BY DEF IInv, FramesAreWindows, Framing
    <3>2. NumFrames(m + size) = num_frames + n
      BY <1>1, <1>2, <3>1, NumFramesIncremental DEF n
    <3>3. accepted' - origin' = m + size
      BY <1>1, <1>4 DEF TypeOK
    <3>4. QED BY <1>4, <1>7, <3>2, <3>3
  <2>2. ASSUME NEW j \in 1..Len(produced')
        PROVE  produced'[j] = WindowOf(j)'
    <3>1. /\ j \in Nat /\ j \in 1..(num_frames + n) /\ num_frames = Len(produced)
          /\ WindowOf(j)' = [i \in 1..FrameLength |-> origin + (j - 1) * FrameShift + i]
      BY <1>1, <1>3, <1>4, <1>7 DEF IInv, Framing, TypeOK, WindowOf
    <3>2. produced'[j] = IF j <= num_frames THEN produced[j] ELSE frames[j - num_frames]
      <4>1. /\ produced \in Seq(Frame) /\ frames \in Seq(Frame)
            /\ j \in 1..(Len(produced) + Len(frames))
        BY <1>1, <1>3, <3>1 DEF TypeOK
      <4>2. (produced \o frames)[j] = IF j <= Len(produced) THEN produced[j]
                                       ELSE frames[j - Len(produced)]
        BY ONLY <4>1, ConcatProperties
      <4>3. QED BY <1>4, <3>1, <4>2
    <3>3. CASE j <= num_frames
      <4>1. produced[j] = WindowOf(j)
        BY <3>1, <3>3 DEF IInv, FramesAreWindows
      <4>2. QED BY <3>1, <3>2, <3>3, <4>1 DEF WindowOf
    <3>4. CASE ~(j <= num_frames)
      <4> DEFINE k == j - num_frames - 1
      <4>1. k \in 0..(n - 1) /\ k \in Nat /\ j - num_frames \in 1..n
        BY <1>1, <1>3, <3>1, <3>4 DEF TypeOK
      <4>2. produced'[j] = FrameAt(waves, k)
        BY <1>3, <3>2, <3>4, <4>1
      <4>3. (j - 1) * FrameShift = FrameShift * num_frames + k * FrameShift
        BY <1>1, <3>1, <4>1, FramingAssumption DEF TypeOK
      <4>4. k * FrameShift \in Nat /\ k * FrameShift + FrameLength <= Len(waves)
        BY <1>3, <4>1, ProductNat, FramingAssumption
      <4> HIDE DEF k
      <4>5. ASSUME NEW i \in 1..FrameLength
            PROVE  waves[k * FrameShift + i] = origin + (j - 1) * FrameShift + i
        <5>1. k * FrameShift + i \in 1..Len(waves)
          BY <1>2, <4>4, FramingAssumption
        <5>2. waves[k * FrameShift + i] = base + (k * FrameShift + i)
          BY <1>2, <5>1
        <5> DEFINE A == FrameShift * num_frames
                   B == k * FrameShift
        <5>3. /\ A \in Nat /\ B \in Nat /\ origin \in Nat /\ i \in Nat
              /\ (j - 1) * FrameShift = A + B
              /\ waves[k * FrameShift + i] = origin + A + (B + i)
          BY <1>1, <4>3, <4>4, <5>2, FramingAssumption DEF TypeOK
        <5> HIDE DEF A, B
        <5>4. QED BY <5>3
      <4>6. QED BY <3>1, <4>2, <4>5 DEF FrameAt
    <3>5. QED BY <3>3, <3>4
  <2>3. QED BY <2>1, <2>2 DEF FramesAreWindows
<1>11. EndMeansAll'
  BY <1>4 DEF IInv, EndMeansAll
<1>12. Control'
  BY <1>1, <1>4, <1>7 DEF IInv, Control, TypeOK
<1>13. QED
  BY <1>5, <1>6, <1>9, <1>10, <1>11, <1>12 DEF IInv

--------------------------------------------------------------------------------
(***************************************************************************)
(* The other steps.                                                        *)
(***************************************************************************)

LEMMA InitIInv == Init => IInv
<1> SUFFICES ASSUME Init PROVE IInv
  OBVIOUS
<1>1. TypeOK
  BY EmptySeq DEF Init, TypeOK
<1>2. NothingLost
  BY ConcatEmptySeq, EmptySeq DEF Init, NothingLost
<1>3. NumFrames(0) = 0
  BY FramingAssumption DEF NumFrames
<1>4. FramesAreWindows /\ Framing
  <2>1. FrameShift * 0 = 0 /\ accepted - origin = 0 /\ Len(produced) = 0
    BY FramingAssumption DEF Init
  <2>2. QED BY <1>3, <2>1 DEF Init, FramesAreWindows, Framing
<1>5. EndMeansAll /\ Control
  BY DEF Init, EndMeansAll, Control
<1>6. QED
  BY <1>1, <1>2, <1>4, <1>5 DEF IInv

LEMMA ResetKeepsIInv ==
  ASSUME IInv, Reset
  PROVE  IInv'
<1>1. TypeOK'
  <2>1. TypeOK
    BY DEF IInv
  <2>2. <<>> \in Seq(Frame) /\ <<>> \in Seq(Nat)
    BY EmptySeq
  <2>3. /\ feature_queue' = <<>> /\ remained_wav' = <<>>
        /\ produced' = <<>> /\ delivered' = <<>>
        /\ num_frames' \in Nat /\ resets' \in Nat /\ origin' \in Nat
        /\ input_finished' = FALSE /\ ended' = FALSE
        /\ UNCHANGED <<mutex, wpc, rpc, want, count, accepted>>
    BY <2>1 DEF Reset, TypeOK
  <2>4. QED BY <2>1, <2>2, <2>3 DEF TypeOK
<1>2. NothingLost'
  <2>1. <<>> \o <<>> = <<>>
    BY ConcatEmptySeq, EmptySeq
  <2>2. QED BY <2>1 DEF Reset, NothingLost
<1>3. NumFrames(0) = 0
  BY FramingAssumption DEF NumFrames
<1>4. accepted \in Nat
  BY DEF IInv, TypeOK
<1>5. FramesAreWindows' /\ Framing'
  BY <1>3, <1>4, FramingAssumption DEF Reset, FramesAreWindows, Framing
<1>6. EndMeansAll' /\ Control'
  BY DEF IInv, Reset, EndMeansAll, Control
<1>7. QED
  BY <1>1, <1>2, <1>5, <1>6 DEF IInv

\* A pop moves the head of the queue to the end of what was delivered.
LEMMA PopKeepsIInv ==
  ASSUME IInv, Pop
  PROVE  IInv'
<1> DEFINE front == SubSeq(feature_queue, 1, count)
           back  == SubSeq(feature_queue, count + 1, Len(feature_queue))
<1>1. /\ TypeOK
      /\ count \in 0..Len(feature_queue)
  BY DEF IInv, TypeOK, Pop
<1>2. /\ front \in Seq(Frame) /\ back \in Seq(Frame)
      /\ front \o back = feature_queue
      /\ Len(back) = Len(feature_queue) - count
  BY <1>1, SplitQueue DEF TypeOK
<1>3. /\ delivered' = delivered \o front
      /\ feature_queue' = back
      /\ rpc' = "idle"
      /\ ended' = (rpc = "popRest")
      /\ mutex' = IF rpc = "pop" THEN mutex ELSE "free"
      /\ rpc \in {"pop", "popLocked", "popRest"}
      /\ UNCHANGED <<remained_wav, num_frames, input_finished, wpc, want, count,
                     accepted, resets, origin, produced>>
  BY DEF Pop
<1> HIDE DEF front, back
<1>4. /\ delivered \o front \in Seq(Frame)
      /\ (delivered \o front) \o back = delivered \o feature_queue
  <2>1. delivered \in Seq(Frame)
    BY <1>1 DEF TypeOK
  <2>2. /\ delivered \o front \in Seq(Frame)
        /\ (delivered \o front) \o back = delivered \o (front \o back)
    <3>1. front \in Seq(Frame) /\ back \in Seq(Frame) /\ delivered \in Seq(Frame)
      BY <1>2, <2>1
    <3>2. delivered \o front \in Seq(Frame)
      BY ONLY <3>1, ConcatProperties
    <3>3. (delivered \o front) \o back = delivered \o (front \o back)
      BY ONLY <3>1, ConcatAssociative
    <3>4. QED BY <3>2, <3>3
  <2>3. QED BY <1>2, <2>2
<1>5. TypeOK'
  BY <1>1, <1>2, <1>3, <1>4 DEF TypeOK
<1>6. NothingLost'
  BY <1>3, <1>4 DEF IInv, NothingLost
<1>7. FramesAreWindows' /\ Framing'
  BY <1>3 DEF IInv, FramesAreWindows, Framing, WindowOf
<1>8. EndMeansAll'
  <2>1. SUFFICES ASSUME rpc = "popRest"
                 PROVE  input_finished /\ delivered' = produced
    BY <1>3 DEF EndMeansAll
  <2>2. input_finished /\ count = Len(feature_queue)
    BY <2>1 DEF IInv, Control
  <2>3. back = <<>>
    <3>1. Len(back) = 0
      BY <1>1, <1>2, <2>2
    <3>2. QED BY ONLY <1>2, <3>1, EmptyQueue
  <2>4. delivered' = produced
    <3>1. delivered' \in Seq(Frame)
      BY <1>3, <1>4
    <3>2. delivered' \o <<>> = delivered'
      BY ONLY <3>1, ConcatEmptySeq
    <3>3. QED BY <1>3, <1>6, <2>3, <3>2 DEF NothingLost
  <2>5. QED BY <2>2, <2>4
<1>9. Control'
  BY <1>3 DEF IInv, Control
<1>10. QED
  BY <1>5, <1>6, <1>7, <1>8, <1>9 DEF IInv

\* The remaining steps move control only.
LEMMA StepKeepsIInv ==
  ASSUME IInv, [Next]_vars
  PROVE  IInv'
<1> USE DEF vars, pipe, history
<1>1. ASSUME NEW size \in ChunkSizes, AcceptWaveform(size) PROVE IInv'
  BY <1>1, AcceptKeepsIInv
<1>2. ASSUME \/ FinishCall \/ SetInputFinished \/ NotifyOne
             \/ LockMutex \/ TestFinished \/ Wait \/ SpuriousWake
             \/ TestSize \/ UNCHANGED vars
             \/ \E n \in ReadSizes : ReadCall(n)
      PROVE  IInv'
  <2>1. /\ UNCHANGED <<feature_queue, remained_wav, num_frames, history>>
        /\ input_finished => input_finished'
        /\ input_finished' \in BOOLEAN
    BY <1>2 DEF FinishCall, SetInputFinished, NotifyOne, LockMutex, TestFinished,
       Wait, SpuriousWake, TestSize, ReadCall, IInv, TypeOK
  <2>2. NothingLost' /\ FramesAreWindows' /\ EndMeansAll' /\ Framing'
    BY <2>1 DEF IInv, NothingLost, FramesAreWindows, EndMeansAll, Framing, WindowOf
  <2>3. TypeOK'
    <3>1. /\ mutex' \in {"free", "reader"}
          /\ wpc' \in {"idle", "notify", "finish"}
          /\ rpc' \in {"idle", "pop", "lock", "test", "sleep", "wait", "wake",
                       "woken", "last", "popLocked", "popRest"}
      BY <1>2 DEF FinishCall, SetInputFinished, NotifyOne, LockMutex, TestFinished,
         Wait, SpuriousWake, TestSize, ReadCall, IInv, TypeOK
    <3>2. want' \in Nat /\ count' \in Nat
      BY <1>2, SizesAssumption, LenProperties DEF FinishCall, SetInputFinished,
         NotifyOne, LockMutex, TestFinished, Wait, SpuriousWake, TestSize, ReadCall,
         IInv, TypeOK
    <3>3. QED BY <2>1, <3>1, <3>2 DEF IInv, TypeOK
  <2>4. Control'
    <3> USE DEF IInv, Control, TypeOK
    <3>1. CASE FinishCall \/ SetInputFinished \/ UNCHANGED vars
      BY <3>1 DEF FinishCall, SetInputFinished
    <3>2. CASE NotifyOne \/ SpuriousWake
      BY <3>2 DEF NotifyOne, SpuriousWake
    <3>3. CASE LockMutex \/ TestFinished \/ Wait
      BY <3>3 DEF LockMutex, TestFinished, Wait
    <3>4. CASE TestSize
      BY <3>4, SizesAssumption, LenProperties DEF TestSize
    <3>5. ASSUME NEW n \in ReadSizes, ReadCall(n) PROVE Control'
      BY <3>5, SizesAssumption, LenProperties DEF ReadCall
    <3>6. QED BY <1>2, <3>1, <3>2, <3>3, <3>4, <3>5
  <2>5. QED BY <2>2, <2>3, <2>4 DEF IInv
<1>3. CASE Pop
  BY <1>3, PopKeepsIInv
<1>4. CASE Reset
  BY <1>4, ResetKeepsIInv
<1>5. QED
  BY <1>1, <1>2, <1>3, <1>4 DEF Next, Writer, WriterInCall, Reader

--------------------------------------------------------------------------------
(***************************************************************************)
(* Safety, for every value of the constants.                               *)
(***************************************************************************)

\* The inductive invariant holds in every reachable state.
THEOREM InvariantHolds == Spec => []IInv
<1>1. Init => IInv
  BY InitIInv
<1>2. IInv /\ [Next]_vars => IInv'
  BY StepKeepsIInv
<1>3. QED
  BY <1>1, <1>2, PTL DEF Spec

\* Every variable keeps its type.
THEOREM TypeCorrect == Spec => []TypeOK
<1>1. IInv => TypeOK
  BY DEF IInv
<1>2. QED
  BY <1>1, InvariantHolds, PTL

\* No interleaving of AcceptWaveform and Read loses, repeats or reorders a frame.
THEOREM NoFrameLost == Spec => []NothingLost
<1>1. IInv => NothingLost
  BY DEF IInv
<1>2. QED
  BY <1>1, InvariantHolds, PTL

\* Feeding audio piece by piece yields the frames of the whole audio.
THEOREM StreamingFraming == Spec => []FramesAreWindows
<1>1. IInv => FramesAreWindows
  BY DEF IInv
<1>2. QED
  BY <1>1, InvariantHolds, PTL

\* When Read returns false the reader has everything.
THEOREM EndAfterEverything == Spec => []EndMeansAll
<1>1. IInv => EndMeansAll
  BY DEF IInv
<1>2. QED
  BY <1>1, InvariantHolds, PTL

\* The reader never blocks inside BlockingQueue::Pop.
THEOREM PopAlwaysServed == Spec => []PopNeverBlocks
<1>1. IInv => PopNeverBlocks
  BY LenProperties DEF IInv, Control, PopNeverBlocks, TypeOK
<1>2. QED
  BY <1>1, InvariantHolds, PTL

--------------------------------------------------------------------------------
(***************************************************************************)
(* Refinement.                                                             *)
(***************************************************************************)

\* What the abstract stream sees of a pop: the next count frames of produced.
LEMMA PopTakesNext ==
  ASSUME IInv, Pop
  PROVE  /\ delivered' = SubSeq(produced, 1, Len(delivered) + count)
         /\ Len(delivered) + count <= Len(produced)
         /\ Len(produced) - Len(delivered) = Len(feature_queue)
<1> DEFINE front == SubSeq(feature_queue, 1, count)
<1>1. /\ delivered \in Seq(Frame) /\ feature_queue \in Seq(Frame)
      /\ produced = delivered \o feature_queue
      /\ count \in 0..Len(feature_queue)
      /\ delivered' = delivered \o front
  BY DEF IInv, TypeOK, NothingLost, Pop
<1>2. /\ front \in Seq(Frame) /\ Len(front) = count
      /\ \A i \in 1..count : front[i] = feature_queue[i]
  BY <1>1
<1> HIDE DEF front
<1> DEFINE n == Len(delivered) + count
<1>3. /\ produced \in Seq(Frame)
      /\ Len(produced) = Len(delivered) + Len(feature_queue)
      /\ \A i \in 1..Len(delivered) + Len(feature_queue) :
           produced[i] = IF i <= Len(delivered) THEN delivered[i]
                                                ELSE feature_queue[i - Len(delivered)]
  <2>1. delivered \in Seq(Frame) /\ feature_queue \in Seq(Frame)
    BY <1>1
  <2>2. /\ delivered \o feature_queue \in Seq(Frame)
        /\ Len(delivered \o feature_queue) = Len(delivered) + Len(feature_queue)
        /\ \A i \in 1..Len(delivered) + Len(feature_queue) :
             (delivered \o feature_queue)[i]
               = IF i <= Len(delivered) THEN delivered[i]
                                        ELSE feature_queue[i - Len(delivered)]
    BY ONLY <2>1, ConcatProperties
  <2>3. QED BY <1>1, <2>2
<1>4. /\ delivered' \in Seq(Frame)
      /\ Len(delivered') = n
      /\ \A i \in 1..n : delivered'[i] = IF i <= Len(delivered) THEN delivered[i]
                                                   ELSE front[i - Len(delivered)]
  <2>1. delivered \in Seq(Frame) /\ front \in Seq(Frame)
    BY <1>1, <1>2
  <2>2. /\ delivered \o front \in Seq(Frame)
        /\ Len(delivered \o front) = Len(delivered) + Len(front)
        /\ \A i \in 1..Len(delivered) + Len(front) :
             (delivered \o front)[i] = IF i <= Len(delivered) THEN delivered[i]
                                       ELSE front[i - Len(delivered)]
    BY ONLY <2>1, ConcatProperties
  <2>3. QED BY <1>1, <1>2, <2>2
<1>5. /\ n \in 0..Len(produced) /\ n \in Nat
      /\ Len(delivered) \in Nat /\ Len(feature_queue) \in Nat
  BY <1>1, <1>3, LenProperties
<1>6. ASSUME NEW i \in 1..n
      PROVE  delivered'[i] = produced[i]
  <2>1. CASE i <= Len(delivered)
    BY <1>3, <1>4, <1>5, <2>1
  <2>2. CASE ~(i <= Len(delivered))
    <3>1. i - Len(delivered) \in 1..count
      BY <1>1, <1>5, <2>2
    <3>2. delivered'[i] = front[i - Len(delivered)]
      BY <1>4, <2>2
    <3>3. front[i - Len(delivered)] = feature_queue[i - Len(delivered)]
      BY <1>2, <3>1
    <3>4. i \in 1..(Len(delivered) + Len(feature_queue))
      BY <1>1, <1>5
    <3>5. produced[i] = feature_queue[i - Len(delivered)]
      BY <1>3, <2>2, <3>4
    <3>6. QED BY <3>2, <3>3, <3>5
  <2>3. QED BY <2>1, <2>2
<1>7. delivered' = SubSeq(produced, 1, n)
  <2>1. /\ SubSeq(produced, 1, n) \in Seq(Frame)
        /\ Len(SubSeq(produced, 1, n)) = n
        /\ \A i \in 1..n : SubSeq(produced, 1, n)[i] = produced[i]
    BY <1>3, <1>5
  <2>2. QED BY <1>4, <1>5, <1>6, <2>1, SeqEqual
<1>8. QED
  BY <1>1, <1>3, <1>5, <1>7

\* A pop is Deliver(want) when Read returns true and End(want) when it returns
\* false.
LEMMA PopRefines ==
  ASSUME IInv, Pop
  PROVE  \E n \in ReadSizes : Stream!Deliver(n) \/ Stream!End(n)
<1>1. /\ want \in ReadSizes /\ ~ended
      /\ UNCHANGED <<produced, input_finished>>
      /\ ended' = (rpc = "popRest")
      /\ rpc \in {"pop", "popLocked", "popRest"}
  BY DEF IInv, Control, Pop
<1>2. /\ delivered' = SubSeq(produced, 1, Len(delivered) + count)
      /\ Len(delivered) + count <= Len(produced)
      /\ Len(produced) - Len(delivered) = Len(feature_queue)
  BY PopTakesNext
<1>3. CASE rpc # "popRest"
  <2>1. count = want
    BY <1>1, <1>3 DEF IInv, Control
  <2>2. UNCHANGED ended
    BY <1>1, <1>3 DEF IInv, TypeOK
  <2>3. Stream!Deliver(want)
    BY <1>1, <1>2, <2>1, <2>2 DEF Stream!Deliver
  <2>4. QED BY <1>1, <2>3
<1>4. CASE rpc = "popRest"
  <2>1. input_finished /\ count = Len(feature_queue) /\ count < want
    BY <1>4 DEF IInv, Control
  <2>2. EndMeansAll'
    BY PopKeepsIInv DEF IInv
  <2>3. delivered' = produced
    BY <1>1, <1>4, <2>2 DEF EndMeansAll
  <2>4. Stream!End(want)
    BY <1>1, <1>2, <1>4, <2>1, <2>3 DEF Stream!End
  <2>5. QED BY <1>1, <2>4
<1>5. QED
  BY <1>3, <1>4

\* Extending produced is a Produce step.
LEMMA AcceptRefines ==
  ASSUME IInv, NEW size \in ChunkSizes, AcceptWaveform(size)
  PROVE  Stream!Produce
<1> DEFINE frames == Fbank(remained_wav \o [i \in 1..size |-> accepted + i])
<1>1. /\ produced' = produced \o frames
      /\ ~input_finished
      /\ UNCHANGED <<delivered, input_finished, ended>>
  BY DEF AcceptWaveform
<1>2. produced \in Seq(Frame) /\ frames \in Seq(Frame)
  <2>1. produced \in Seq(Frame) /\ remained_wav \in Seq(Nat)
        /\ accepted \in Nat /\ size \in Nat
    BY SizesAssumption DEF IInv, TypeOK
  <2>2. [i \in 1..size |-> accepted + i] \in Seq(Nat)
    BY <2>1
  <2>3. remained_wav \o [i \in 1..size |-> accepted + i] \in Seq(Nat)
    BY <2>1, <2>2, ConcatProperties
  <2>4. QED BY <2>1, <2>3, FbankFrames
<1> HIDE DEF frames
<1>3. /\ produced' \in Seq(Frame)
      /\ Len(produced') = Len(produced) + Len(frames)
      /\ \A i \in 1..Len(produced) + Len(frames) :
           produced'[i] = IF i <= Len(produced) THEN produced[i]
                                                ELSE frames[i - Len(produced)]
  <2>1. /\ produced \o frames \in Seq(Frame)
        /\ Len(produced \o frames) = Len(produced) + Len(frames)
        /\ \A i \in 1..Len(produced) + Len(frames) :
             (produced \o frames)[i] = IF i <= Len(produced) THEN produced[i]
                                       ELSE frames[i - Len(produced)]
    BY ONLY <1>2, ConcatProperties
  <2>2. QED BY <1>1, <2>1
<1>4. Len(produced) \in Nat /\ Len(frames) \in Nat
  BY <1>2, LenProperties
<1>5. SubSeq(produced', 1, Len(produced)) = produced
  <2>1. /\ SubSeq(produced', 1, Len(produced)) \in Seq(Frame)
        /\ Len(SubSeq(produced', 1, Len(produced))) = Len(produced)
        /\ \A i \in 1..Len(produced) :
             SubSeq(produced', 1, Len(produced))[i] = produced'[i]
    BY <1>3, <1>4
  <2>2. \A i \in 1..Len(produced) : produced'[i] = produced[i]
    BY <1>3, <1>4
  <2>3. QED BY <1>2, <1>4, <2>1, <2>2, SeqEqual
<1>6. QED
  BY <1>1, <1>3, <1>4, <1>5 DEF Stream!Produce

\* FeaturePipeline, locks and all, implements the abstract stream of frames.
THEOREM PipelineImplementsStream == Spec => StreamSpec
<1>1. Init => Stream!Init
  BY DEF Init, Stream!Init
<1>2. IInv /\ [Next]_vars => [Stream!Next]_(Stream!vars)
  <2> SUFFICES ASSUME IInv, [Next]_vars
               PROVE  [Stream!Next]_(Stream!vars)
    OBVIOUS
  <2> USE DEF Stream!Next, Stream!vars
  <2>1. ASSUME NEW size \in ChunkSizes, AcceptWaveform(size)
        PROVE  Stream!Next
    BY <2>1, AcceptRefines
  <2>2. ASSUME Pop
        PROVE  Stream!Next
    BY <2>2, PopRefines
  <2>3. ASSUME Reset
        PROVE  Stream!Next
    BY <2>3 DEF Reset, Stream!Restart
  <2>4. ASSUME SetInputFinished
        PROVE  [Stream!Next]_(Stream!vars)
    <3>1. /\ input_finished' = TRUE /\ input_finished \in BOOLEAN
          /\ UNCHANGED <<produced, delivered, ended>>
      BY <2>4 DEF SetInputFinished, history, IInv, TypeOK
    <3>2. CASE input_finished
      BY <3>1, <3>2
    <3>3. CASE ~input_finished
      BY <3>1, <3>3 DEF Stream!Finish
    <3>4. QED BY <3>2, <3>3
  <2>5. ASSUME \/ FinishCall \/ NotifyOne \/ LockMutex \/ TestFinished \/ Wait
               \/ SpuriousWake \/ TestSize \/ UNCHANGED vars
               \/ \E n \in ReadSizes : ReadCall(n)
        PROVE  UNCHANGED Stream!vars
    BY <2>5 DEF FinishCall, NotifyOne, LockMutex, TestFinished, Wait, SpuriousWake,
       TestSize, ReadCall, vars, pipe, history
  <2>6. QED
    BY <2>1, <2>2, <2>3, <2>4, <2>5 DEF Next, Writer, WriterInCall, Reader
<1>3. QED
  BY <1>1, <1>2, InvariantHolds, PTL DEF Spec, StreamSpec, Stream!Spec
================================================================================
