---------------------------- MODULE Playback_proofs ----------------------------
(***************************************************************************)
(* What a recording that is played back sounds like and looks like.        *)
(* Whatever is pressed while two threads decode and play, for a recording  *)
(* and a queue of any length and any positions the user may seek to,       *)
(* chunks are heard in order, the end is reported when all was heard, and  *)
(* the button agrees with what is heard.  And whatever is opened, scrolled *)
(* or stopped while threads load a picture, what is seen of a recording is *)
(* that recording.                                                         *)
(*                                                                         *)
(* The invariant of the sound follows the numbers of chunks backwards      *)
(* through the threads: the chunk in the player thread's hand, those in    *)
(* the queue, the one the decoder thread is about to put, the one in the   *)
(* codec, and the place in the file.  A jump breaks the chain at one place *)
(* at most, where a thread still has a chunk of the old position in hand.  *)
(***************************************************************************)
EXTENDS Playback, Spectrogram, SequenceTheorems, TLAPS

(***************************************************************************)
(* The codec, which holds one chunk at most, and is fed one more.          *)
(***************************************************************************)
\* An empty codec that is fed returns what it was fed.
LEMMA FedOne ==
  ASSUME NEW c
  PROVE  /\ Append(<<>>, c) = <<c>> /\ <<c>> # <<>> /\ Len(<<c>>) = 1 /\ <<c>>[1] = c
         /\ Head(<<c>>) = c /\ Tail(<<c>>) = <<>>
OBVIOUS

\* A sequence of one element is that element's.
LEMMA OneOf ==
  ASSUME NEW S, NEW f \in Seq(S), NEW d \in S, Len(f) = 1, f[1] = d
  PROVE  f = <<d>>
OBVIOUS

\* What is left of two elements.
LEMMA TailOfTwo ==
  ASSUME NEW S, NEW s \in Seq(S), NEW d \in S, Len(s) = 1
  PROVE  Tail(Append(s, d)) = <<d>>
<1> DEFINE f == Append(s, d)
<1>1. f \in Seq(S)
  OBVIOUS
<1>2. Len(f) = 2
  OBVIOUS
<1>3. f[2] = d
  BY AppendProperties
<1> HIDE DEF f
<1>4. f # <<>>
  BY <1>2
<1>5. Tail(f) \in Seq(S) /\ Len(Tail(f)) = 1
  BY <1>1, <1>2, <1>4, HeadTailProperties
<1>6. Tail(f)[1] = d
  <2>1. \A i \in 1..Len(Tail(f)) : Tail(f)[i] = f[i + 1]
    BY <1>1, <1>4, HeadTailProperties
  <2>2. 1 \in 1..Len(Tail(f)) /\ 1 + 1 = 2
    BY <1>5
  <2>3. Tail(f)[1] = f[1 + 1]
    BY <2>1, <2>2
  <2> QED BY <1>3, <2>2, <2>3
<1>7. Tail(f) = <<d>>
  BY <1>5, <1>6, OneOf
<1> QED BY <1>7 DEF f

\* A codec that holds a chunk and is fed another returns the first and keeps the second.
LEMMA FedTwo ==
  ASSUME NEW S, NEW c \in S, NEW d \in S
  PROVE  LET f == Append(<<c>>, d) IN Len(f) = 2 /\ Head(f) = c /\ Tail(f) = <<d>>
<1>1. <<c>> \in Seq(S) /\ Len(<<c>>) = 1
  OBVIOUS
<1>2. Len(Append(<<c>>, d)) = 2
  OBVIOUS
<1>3. Head(Append(<<c>>, d)) = c
  OBVIOUS
<1>4. Tail(Append(<<c>>, d)) = <<d>>
  BY <1>1, TailOfTwo
<1> QED BY <1>2, <1>3, <1>4

(***************************************************************************)
(* Chunks, and sequences of them.                                          *)
(***************************************************************************)
USE PlaybackAssumption DEF EOF_SENTINEL, None

\* The cleared queue is within its capacity, ...
LEMMA NoChunks == <<>> \in Seq(0..Chunks) /\ Len(<<>>) = 0 /\ Len(<<>>) <= QUEUE_CAPACITY
OBVIOUS

\* ... and so is the one that release leaves.
LEMMA OneSentinel ==
  LET q == <<EOF_SENTINEL>> IN q \in Seq(0..Chunks) /\ Len(q) = 1 /\ Len(q) <= QUEUE_CAPACITY
OBVIOUS

\* A seek ends in the file.
LEMMA InFileTyped == ASSUME NEW p \in Nat PROVE InFile(p) \in 0..Chunks
BY DEF InFile

\* The numbers of the chunks in a queue.
LEMMA ChunkFacts ==
  ASSUME NEW q \in Seq(0..Chunks)
  PROVE  /\ Len(q) \in Nat /\ DOMAIN q = 1..Len(q)
         /\ \A i \in 1..Len(q) : q[i] \in 0..Chunks /\ Number(q[i]) \in 1..End
         /\ q # <<>> => Len(q) > 0
<1>1. Len(q) \in Nat /\ DOMAIN q = 1..Len(q) /\ \A i \in 1..Len(q) : q[i] \in 0..Chunks
  BY LenProperties, ElementOfSeq
<1>2. q # <<>> => Len(q) > 0
  BY EmptySeq
<1> QED BY <1>1, <1>2 DEF Number, End

\* put, ...
LEMMA AppendFacts ==
  ASSUME NEW q \in Seq(0..Chunks), NEW c \in 0..Chunks
  PROVE  /\ Append(q, c) \in Seq(0..Chunks) /\ Len(Append(q, c)) = Len(q) + 1
         /\ Append(q, c) # <<>> /\ DOMAIN Append(q, c) = 1..(Len(q) + 1)
         /\ \A i \in 1..Len(q) : Append(q, c)[i] = q[i]
         /\ Append(q, c)[Len(q) + 1] = c
<1>1. Append(q, c) \in Seq(0..Chunks) /\ Len(Append(q, c)) = Len(q) + 1
  BY AppendProperties
<1>2. Len(q) \in Nat
  BY LenProperties
<1> QED BY <1>1, <1>2, AppendProperties, LenProperties, EmptySeq

\* ... and take.
LEMMA TailFacts ==
  ASSUME NEW q \in Seq(0..Chunks), q # <<>>
  PROVE  /\ Head(q) = q[1] /\ Head(q) \in 0..Chunks
         /\ Tail(q) \in Seq(0..Chunks) /\ Len(Tail(q)) = Len(q) - 1
         /\ DOMAIN Tail(q) = 1..(Len(q) - 1)
         /\ \A i \in 1..(Len(q) - 1) : Tail(q)[i] = q[i + 1]
         /\ Tail(q) = <<>> <=> Len(q) = 1
<1>1. /\ Tail(q) \in Seq(0..Chunks) /\ Len(Tail(q)) = Len(q) - 1
      /\ \A i \in 1..Len(Tail(q)) : Tail(q)[i] = q[i + 1]
  BY HeadTailProperties
<1>2. Head(q) = q[1] /\ Head(q) \in 0..Chunks
  BY HeadTailProperties
<1>3. Len(q) \in Nat \ {0}
  BY EmptySeq, LenProperties
<1>4. Tail(q) = <<>> <=> Len(q) = 1
  <2> DEFINE t == Tail(q)
  <2>1. t \in Seq(0..Chunks) /\ Len(t) = Len(q) - 1
    BY <1>1
  <2> HIDE DEF t
  <2>2. ASSUME t = <<>> PROVE Len(t) = 0
    BY <2>2, EmptySeq
  <2>3. ASSUME t # <<>> PROVE Len(t) # 0
    BY <2>1, <2>3, EmptySeq
  <2>4. t = <<>> <=> Len(q) = 1
    BY <1>3, <2>1, <2>2, <2>3
  <2> QED BY <2>4 DEF t
<1> QED BY <1>1, <1>2, <1>3, <1>4, LenProperties

(***************************************************************************)
(* The queue between the threads.                                          *)
(***************************************************************************)
\* What is taken next stays what it is while the queue and what is put next do.
LEMMA UpcomingStays ==
  ASSUME ~Releasing' => (Ahead' = Ahead /\ (Known' => Known)), UNCHANGED pcmQueue
  PROVE  ~Releasing' /\ Known' => Known /\ Upcoming' = Upcoming
BY DEF Upcoming, Number

\* The chunk, or the sentinel, that comes next is put behind the others: the queue stays in
\* order, and what is taken next stays what it was.
LEMMA PutsInOrder ==
  ASSUME TypeOK, QueueInv, NEW c \in 0..Chunks, pcmQueue' = Append(pcmQueue, c),
         ~Releasing, dec # "clear", dec # "exit", Number(c) = Ahead, Ahead' = Ahead + 1,
         c = EOF_SENTINEL => dec' = "exit", ~interrupted'
  PROVE  QueueInv' /\ Known /\ Upcoming' = Upcoming
<1> DEFINE q == pcmQueue
           n == Len(pcmQueue)
<1>1. /\ q \in Seq(0..Chunks) /\ n \in Nat /\ DOMAIN q = 1..n /\ (q # <<>> => n > 0)
      /\ \A i \in 1..n : q[i] \in 0..Chunks /\ Number(q[i]) \in 1..End
  BY ChunkFacts DEF TypeOK
<1>2. /\ q' # <<>> /\ Len(q') = n + 1 /\ DOMAIN q' = 1..(n + 1)
      /\ (\A i \in 1..n : q'[i] = q[i]) /\ q'[n + 1] = c
  BY <1>1, AppendFacts
<1>3. /\ \A i \in 1..(n - 1) : Number(q[i + 1]) = Number(q[i]) + 1
      /\ q # <<>> => Number(q[n]) + 1 = Number(c)
      /\ \A i \in 1..n : q[i] # EOF_SENTINEL
  BY <1>1 DEF QueueInv
<1>4. q = <<>> => n = 0
  OBVIOUS
<1> HIDE DEF q, n
<1>5. \A i \in 1..n : Number(q'[i + 1]) = Number(q'[i]) + 1
  <2> SUFFICES ASSUME NEW i \in 1..n PROVE Number(q'[i + 1]) = Number(q'[i]) + 1
    OBVIOUS
  <2>1. CASE i = n
    BY <1>1, <1>2, <1>3, <1>4, <2>1
  <2>2. CASE i # n
    <3>1. i \in 1..(n - 1) /\ i + 1 \in 1..n
      BY <1>1, <2>2
    <3> QED BY <1>2, <1>3, <3>1
  <2> QED BY <2>1, <2>2
<1>6. Number(q'[n + 1]) + 1 = Ahead'
  BY <1>2
<1>7. \A i \in 1..(n + 1) : q'[i] = EOF_SENTINEL => dec' = "exit"
  <2> SUFFICES ASSUME NEW i \in 1..(n + 1), q'[i] = EOF_SENTINEL PROVE dec' = "exit"
    OBVIOUS
  <2>1. CASE i = n + 1
    BY <1>2, <2>1
  <2>2. CASE i \in 1..n
    BY <1>2, <1>3, <2>2
  <2> QED BY <1>1, <2>1, <2>2
<1>8. QueueInv'
  <2>1. Len(q') = n + 1 /\ (n + 1) - 1 = n
    BY <1>1, <1>2
  <2> QED BY <1>2, <1>5, <1>6, <1>7, <2>1 DEF QueueInv, q
<1>9. Upcoming' = Upcoming
  <2>1. CASE q = <<>>
    BY <1>2, <1>4, <2>1 DEF Upcoming, q
  <2>2. CASE q # <<>>
    <3>1. 1 \in 1..n
      BY <1>1, <2>2
    <3> QED BY <1>2, <2>2, <3>1 DEF Upcoming, q
  <2> QED BY <2>1, <2>2
<1> QED BY <1>8, <1>9 DEF Known

\* The first chunk is taken: the queue stays in order, and what is taken next has the next number.
LEMMA TakesInOrder ==
  ASSUME TypeOK, QueueInv, ~Releasing, pcmQueue # <<>>, pcmQueue' = Tail(pcmQueue),
         UNCHANGED <<dec, out, codec, extractor, interrupted, ui>>
  PROVE  /\ QueueInv'
         /\ Head(pcmQueue) \in 0..Chunks
         /\ Head(pcmQueue) = EOF_SENTINEL => dec = "exit"
         /\ Known /\ Upcoming = Number(Head(pcmQueue))
         /\ Known' => Upcoming' = Number(Head(pcmQueue)) + 1
<1> DEFINE q == pcmQueue
           n == Len(pcmQueue)
<1>1. /\ q \in Seq(0..Chunks) /\ n \in Nat /\ DOMAIN q = 1..n /\ n > 0
      /\ \A i \in 1..n : q[i] \in 0..Chunks /\ Number(q[i]) \in 1..End
  BY ChunkFacts DEF TypeOK
<1>2. /\ Head(q) = q[1] /\ Len(q') = n - 1 /\ DOMAIN q' = 1..(n - 1)
      /\ (\A i \in 1..(n - 1) : q'[i] = q[i + 1]) /\ (q' = <<>> <=> n = 1)
  BY <1>1, TailFacts
<1>3. /\ \A i \in 1..(n - 1) : Number(q[i + 1]) = Number(q[i]) + 1
      /\ dec # "clear" => Number(q[n]) + 1 = Ahead
      /\ \A i \in 1..n : q[i] = EOF_SENTINEL => dec = "exit"
      /\ ~interrupted
  BY <1>1 DEF QueueInv
<1>4. Ahead' = Ahead /\ dec' = dec /\ interrupted' = interrupted
  BY DEF Ahead, FromCodec
<1>5. Upcoming = Number(q[1])
  BY DEF Upcoming
<1>6. Upcoming' = IF q' = <<>> THEN Ahead ELSE Number(q'[1])
  BY <1>4 DEF Upcoming, Number
<1> HIDE DEF q, n
<1>7. QueueInv'
  <2>1. \A i \in 1..(n - 1 - 1) : Number(q'[i + 1]) = Number(q'[i]) + 1
    <3> SUFFICES ASSUME NEW i \in 1..(n - 1 - 1) PROVE Number(q'[i + 1]) = Number(q'[i]) + 1
      OBVIOUS
    <3>1. i \in 1..(n - 1) /\ i + 1 \in 1..(n - 1)
      BY <1>1
    <3> QED BY <1>2, <1>3, <3>1
  <2>2. q' # <<>> /\ dec # "clear" => Number(q'[n - 1]) + 1 = Ahead
    <3> SUFFICES ASSUME n # 1, dec # "clear" PROVE Number(q'[n - 1]) + 1 = Ahead
      BY <1>2
    <3>1. n - 1 \in 1..(n - 1) /\ (n - 1) + 1 = n
      BY <1>1
    <3> QED BY <1>2, <1>3, <3>1
  <2>3. \A i \in 1..(n - 1) : q'[i] = EOF_SENTINEL => dec = "exit"
    <3> SUFFICES ASSUME NEW i \in 1..(n - 1), q'[i] = EOF_SENTINEL PROVE dec = "exit"
      OBVIOUS
    <3>1. i + 1 \in 1..n
      BY <1>1
    <3> QED BY <1>2, <1>3, <3>1
  <2> QED BY <1>2, <1>3, <1>4, <2>1, <2>2, <2>3, SMTT(30) DEF QueueInv, Number, q
<1>8. Known' => Upcoming' = Number(q[1]) + 1
  <2>1. CASE n = 1
    BY <1>2, <1>3, <1>4, <1>6, <2>1 DEF Known, q
  <2>2. CASE n # 1
    <3>1. 1 \in 1..(n - 1)
      BY <1>1, <2>2
    <3> QED BY <1>2, <1>3, <1>6, <2>2, <3>1
  <2> QED BY <2>1, <2>2
<1>9. q[1] \in 0..Chunks /\ (q[1] = EOF_SENTINEL => dec = "exit")
  BY <1>1, <1>3
<1> QED BY <1>2, <1>5, <1>7, <1>8, <1>9 DEF q, Known

(***************************************************************************)
(* Every step keeps the invariant.                                         *)
(***************************************************************************)

(***************************************************************************)
(* The UI thread.                                                          *)
(***************************************************************************)
\* The button says Pause before the player is told.
LEMMA ResumeKeeps == ASSUME PlaybackInv, Resume PROVE PlaybackInv'
<1>1. TypeOK'
  BY SMTT(30) DEF PlaybackInv, TypeOK, Resume, trackVars, decVars, playVars
<1>2. ButtonAgrees'
  BY DEF PlaybackInv, ButtonAgrees, ButtonInv, Resume, trackVars, decVars, playVars
<1>3. ButtonInv'
  BY DEF PlaybackInv, ButtonInv, Resume, trackVars, decVars, playVars
<1>4. ReleaseInv'
  BY DEF PlaybackInv, ReleaseInv, Releasing, Resume, trackVars, decVars, playVars
<1>5. DecoderInv'
  BY DEF PlaybackInv, DecoderInv, FromCodec, TypeOK, Resume, trackVars, decVars, playVars
<1>6. QueueInv'
  BY DEF PlaybackInv, QueueInv, TypeOK, Releasing, Number, Ahead, FromCodec, Resume, trackVars,
     decVars, playVars
<1>7. ActiveInv'
  BY DEF PlaybackInv, ActiveInv, Releasing, Resume, trackVars, decVars, playVars
<1>8. PlayerInv'
  BY DEF PlaybackInv, PlayerInv, Releasing, Upcoming, Known, Ahead, FromCodec, Number, Resume,
     trackVars, decVars, playVars
<1> QED BY <1>1, <1>2, <1>3, <1>4, <1>5, <1>6, <1>7, <1>8 DEF PlaybackInv

\* paused is set first: ui = "pause" until the queue is cleared.
LEMMA PauseKeeps == ASSUME PlaybackInv, Pause PROVE PlaybackInv'
<1>1. TypeOK'
  BY ZenonT(60) DEF PlaybackInv, TypeOK, Pause, trackVars, decVars, playVars
<1>2. ButtonAgrees'
  BY DEF PlaybackInv, ButtonAgrees, ButtonInv, Pause, trackVars, decVars, playVars
<1>3. ButtonInv'
  BY DEF PlaybackInv, ButtonInv, Pause, trackVars, decVars, playVars
<1>4. ReleaseInv'
  BY DEF PlaybackInv, ReleaseInv, Releasing, Pause, trackVars, decVars, playVars
<1>5. DecoderInv'
  BY DEF PlaybackInv, DecoderInv, FromCodec, TypeOK, Pause, trackVars, decVars, playVars
<1>6. QueueInv'
  BY DEF PlaybackInv, QueueInv, TypeOK, Releasing, Number, Ahead, FromCodec, Pause, trackVars,
     decVars, playVars
<1>7. ActiveInv'
  BY DEF PlaybackInv, ActiveInv, Releasing, Pause, trackVars, decVars, playVars
<1>8. PlayerInv'
  BY DEF PlaybackInv, PlayerInv, Releasing, Upcoming, Known, Ahead, FromCodec, Number, Pause,
     trackVars, decVars, playVars
<1> QED BY <1>1, <1>2, <1>3, <1>4, <1>5, <1>6, <1>7, <1>8 DEF PlaybackInv

\* The queue is cleared, and the count of what was heard since the jump with it.
LEMMA PauseFlushKeeps == ASSUME PlaybackInv, PauseFlush PROVE PlaybackInv'
<1>1. TypeOK'
  <2>1. pcmQueue' \in Seq(0..Chunks) /\ Len(pcmQueue') <= QUEUE_CAPACITY
    <3>1. pcmQueue' = <<>>
      BY DEF PauseFlush
    <3> QED BY <3>1, NoChunks
  <2>2. CASE then = "seek"
    <3>1. positionMs' \in SeekTargets
      BY <2>2 DEF PauseFlush
    <3>2. positionMs' \in Nat
      BY <3>1
    <3> QED BY <2>1, <2>2, <3>2, ZenonT(60) DEF PlaybackInv, TypeOK, PauseFlush, decVars,
       playVars
  <2>3. CASE then # "seek"
    <3>1. positionMs' \in Nat
      <4>1. playbackStartMs \in Nat /\ head \in Nat
        BY DEF PlaybackInv, TypeOK
      <4>2. positionMs' = playbackStartMs + head
        BY <2>3 DEF PauseFlush, getCurrentPositionMs
      <4> QED BY <4>1, <4>2, SMTT(30)
    <3> QED BY <2>1, <2>3, <3>1, ZenonT(60) DEF PlaybackInv, TypeOK, PauseFlush, decVars,
       playVars
  <2> QED BY <2>2, <2>3
<1>2. ButtonAgrees'
  BY DEF PlaybackInv, ButtonAgrees, ButtonInv, PauseFlush, getCurrentPositionMs, decVars,
     playVars
<1>3. ButtonInv'
  BY DEF PlaybackInv, ButtonInv, PauseFlush, getCurrentPositionMs, decVars, playVars
<1>4. ReleaseInv'
  BY DEF PlaybackInv, ReleaseInv, Releasing, PauseFlush, getCurrentPositionMs, decVars, playVars
<1>5. DecoderInv'
  BY DEF PlaybackInv, DecoderInv, FromCodec, TypeOK, PauseFlush, getCurrentPositionMs, decVars,
     playVars
<1>6. QueueInv'
  BY DEF PlaybackInv, QueueInv, TypeOK, Releasing, Number, Ahead, FromCodec, PauseFlush,
     getCurrentPositionMs, decVars, playVars
<1>7. ActiveInv'
  BY DEF PlaybackInv, ActiveInv, Releasing, PauseFlush, getCurrentPositionMs, decVars, playVars
<1>8. PlayerInv'
  BY DEF PlaybackInv, PlayerInv, Releasing, Upcoming, Known, Ahead, FromCodec, Number,
     PauseFlush, getCurrentPositionMs, decVars, playVars
<1> QED BY <1>1, <1>2, <1>3, <1>4, <1>5, <1>6, <1>7, <1>8 DEF PlaybackInv

\* Both threads begin at the position; none is left of the last start.
LEMMA StartKeeps == ASSUME PlaybackInv, Start PROVE PlaybackInv'
<1>0. extractor' \in 0..Chunks
  <2>1. positionMs \in Nat /\ extractor' = InFile(positionMs)
    BY DEF PlaybackInv, TypeOK, Start
  <2> QED BY <2>1, InFileTyped
<1>1. TypeOK'
  <2>1. pcmQueue' \in Seq(0..Chunks) /\ Len(pcmQueue') <= QUEUE_CAPACITY /\ Len(codec') <= 1
    BY NoChunks DEF Start
  <2> QED BY <1>0, <2>1 DEF PlaybackInv, TypeOK, Start
<1>2. ButtonAgrees'
  BY DEF PlaybackInv, ButtonAgrees, ButtonInv, Start, InFile
<1>3. ButtonInv'
  BY DEF PlaybackInv, ButtonInv, Start, InFile
<1>4. ReleaseInv'
  BY DEF PlaybackInv, ReleaseInv, Releasing, Start, InFile
<1>5. DecoderInv'
  BY <1>0 DEF PlaybackInv, DecoderInv, Start
<1>6. QueueInv'
  BY DEF PlaybackInv, QueueInv, TypeOK, Releasing, Number, Ahead, FromCodec, Start, InFile
<1>7. ActiveInv'
  BY DEF PlaybackInv, ActiveInv, Releasing, Start, InFile
<1>8. PlayerInv'
  BY DEF PlaybackInv, PlayerInv, Releasing, Upcoming, Known, Ahead, FromCodec, Number, Start,
     InFile
<1> QED BY <1>1, <1>2, <1>3, <1>4, <1>5, <1>6, <1>7, <1>8 DEF PlaybackInv

\* No thread is left that could hear or decode.
LEMMA StartFailsKeeps == ASSUME PlaybackInv, StartFails PROVE PlaybackInv'
<1>1. TypeOK'
  BY NoChunks, ZenonT(60) DEF PlaybackInv, TypeOK, StartFails, decVars, playVars
<1>2. ButtonAgrees'
  BY DEF PlaybackInv, ButtonAgrees, ButtonInv, StartFails, decVars, playVars
<1>3. ButtonInv'
  BY DEF PlaybackInv, ButtonInv, StartFails, decVars, playVars
<1>4. ReleaseInv'
  BY DEF PlaybackInv, ReleaseInv, Releasing, StartFails, decVars, playVars
<1>5. DecoderInv'
  BY DEF PlaybackInv, DecoderInv, FromCodec, TypeOK, StartFails, decVars, playVars
<1>6. QueueInv'
  BY DEF PlaybackInv, QueueInv, TypeOK, Releasing, Number, Ahead, FromCodec, StartFails,
     decVars, playVars
<1>7. ActiveInv'
  BY DEF PlaybackInv, ActiveInv, Releasing, StartFails, decVars, playVars
<1>8. PlayerInv'
  BY DEF PlaybackInv, PlayerInv, Releasing, Upcoming, Known, Ahead, FromCodec, Number,
     ActiveInv, StartFails, decVars, playVars
<1> QED BY <1>1, <1>2, <1>3, <1>4, <1>5, <1>6, <1>7, <1>8 DEF PlaybackInv

\* The chunks of the old position are dropped, but for those in hand.
LEMMA ResumeClearKeeps == ASSUME PlaybackInv, ResumeClear PROVE PlaybackInv'
<1>1. TypeOK'
  BY NoChunks, ZenonT(60) DEF PlaybackInv, TypeOK, ResumeClear, decVars, playVars
<1>2. ButtonAgrees'
  BY DEF PlaybackInv, ButtonAgrees, ButtonInv, ResumeClear, decVars, playVars
<1>3. ButtonInv'
  BY DEF PlaybackInv, ButtonInv, ResumeClear, decVars, playVars
<1>4. ReleaseInv'
  BY DEF PlaybackInv, ReleaseInv, Releasing, ResumeClear, decVars, playVars
<1>5. DecoderInv'
  BY DEF PlaybackInv, DecoderInv, FromCodec, TypeOK, ResumeClear, decVars, playVars
<1>6. QueueInv'
  BY DEF PlaybackInv, QueueInv, TypeOK, Releasing, Number, Ahead, FromCodec, ResumeClear,
     decVars, playVars
<1>7. ActiveInv'
  BY DEF PlaybackInv, ActiveInv, Releasing, ResumeClear, decVars, playVars
<1>8. PlayerInv'
  BY DEF PlaybackInv, PlayerInv, Releasing, Upcoming, Known, Ahead, FromCodec, Number,
     ResumeClear, decVars, playVars
<1> QED BY <1>1, <1>2, <1>3, <1>4, <1>5, <1>6, <1>7, <1>8 DEF PlaybackInv

\* The threads go on; paused may be cleared now, since playing is set.
LEMMA ResumePlayKeeps == ASSUME PlaybackInv, ResumePlay PROVE PlaybackInv'
<1>1. TypeOK'
  BY ZenonT(60) DEF PlaybackInv, TypeOK, ResumePlay, decVars, playVars
<1>2. ButtonAgrees'
  BY DEF PlaybackInv, ButtonAgrees, ButtonInv, ResumePlay, decVars, playVars
<1>3. ButtonInv'
  BY DEF PlaybackInv, ButtonInv, ResumePlay, decVars, playVars
<1>4. ReleaseInv'
  BY DEF PlaybackInv, ReleaseInv, Releasing, ResumePlay, decVars, playVars
<1>5. DecoderInv'
  BY DEF PlaybackInv, DecoderInv, FromCodec, TypeOK, ResumePlay, decVars, playVars
<1>6. QueueInv'
  BY DEF PlaybackInv, QueueInv, TypeOK, Releasing, Number, Ahead, FromCodec, ResumePlay,
     decVars, playVars
<1>7. ActiveInv'
  BY DEF PlaybackInv, ActiveInv, Releasing, ResumePlay, decVars, playVars
<1>8. PlayerInv'
  BY DEF PlaybackInv, PlayerInv, Releasing, Upcoming, Known, Ahead, FromCodec, Number,
     ResumePlay, decVars, playVars
<1> QED BY <1>1, <1>2, <1>3, <1>4, <1>5, <1>6, <1>7, <1>8 DEF PlaybackInv

\* The callback changes the button, and says so when the player was restarted.
LEMMA OnPlaybackCompleteKeeps == ASSUME PlaybackInv, OnPlaybackComplete PROVE PlaybackInv'
<1>1. TypeOK'
  BY ZenonT(60) DEF PlaybackInv, TypeOK, OnPlaybackComplete, trackVars, decVars, playVars
<1>2. ButtonAgrees'
  BY DEF PlaybackInv, ButtonAgrees, ButtonInv, OnPlaybackComplete, trackVars, decVars, playVars
<1>3. ButtonInv'
  BY DEF PlaybackInv, ButtonInv, OnPlaybackComplete, trackVars, decVars, playVars
<1>4. ReleaseInv'
  BY DEF PlaybackInv, ReleaseInv, Releasing, OnPlaybackComplete, trackVars, decVars, playVars
<1>5. DecoderInv'
  BY DEF PlaybackInv, DecoderInv, FromCodec, TypeOK, OnPlaybackComplete, trackVars, decVars,
     playVars
<1>6. QueueInv'
  BY DEF PlaybackInv, QueueInv, TypeOK, Releasing, Number, Ahead, FromCodec,
     OnPlaybackComplete, trackVars, decVars, playVars
<1>7. ActiveInv'
  BY DEF PlaybackInv, ActiveInv, Releasing, OnPlaybackComplete, trackVars, decVars, playVars
<1>8. PlayerInv'
  BY DEF PlaybackInv, PlayerInv, Releasing, Upcoming, Known, Ahead, FromCodec, Number,
     OnPlaybackComplete, trackVars, decVars, playVars
<1> QED BY <1>1, <1>2, <1>3, <1>4, <1>5, <1>6, <1>7, <1>8 DEF PlaybackInv

\* From here on only ReleaseInv is claimed of the threads.
LEMMA ReleaseKeeps == ASSUME PlaybackInv, Release PROVE PlaybackInv'
<1>1. TypeOK'
  BY OneSentinel, ZenonT(60) DEF PlaybackInv, TypeOK, Release, decVars, playVars
<1>2. ButtonAgrees'
  BY DEF PlaybackInv, ButtonAgrees, ButtonInv, Release, decVars, playVars
<1>3. ButtonInv'
  BY DEF PlaybackInv, ButtonInv, Release, decVars, playVars
<1>4. ReleaseInv'
  BY DEF PlaybackInv, ReleaseInv, Releasing, Release, decVars, playVars
<1>5. DecoderInv'
  BY DEF PlaybackInv, DecoderInv, FromCodec, TypeOK, Release, decVars, playVars
<1>6. QueueInv'
  BY DEF PlaybackInv, QueueInv, TypeOK, Releasing, Number, Ahead, FromCodec, Release, decVars,
     playVars
<1>7. ActiveInv'
  BY DEF PlaybackInv, ActiveInv, Releasing, Release, decVars, playVars
<1>8. PlayerInv'
  BY DEF PlaybackInv, PlayerInv, Releasing, Upcoming, Known, Ahead, FromCodec, Number, Release,
     decVars, playVars
<1> QED BY <1>1, <1>2, <1>3, <1>4, <1>5, <1>6, <1>7, <1>8 DEF PlaybackInv

\* The codec is gone, nothing else.
LEMMA ReleaseCodecKeeps == ASSUME PlaybackInv, ReleaseCodec PROVE PlaybackInv'
<1>1. TypeOK'
  BY SMTT(30) DEF PlaybackInv, TypeOK, ReleaseCodec, trackVars, decVars, playVars
<1>2. ButtonAgrees'
  BY DEF PlaybackInv, ButtonAgrees, ButtonInv, ReleaseCodec, trackVars, decVars, playVars
<1>3. ButtonInv'
  BY DEF PlaybackInv, ButtonInv, ReleaseCodec, trackVars, decVars, playVars
<1>4. ReleaseInv'
  BY DEF PlaybackInv, ReleaseInv, Releasing, ReleaseCodec, trackVars, decVars, playVars
<1>5. DecoderInv'
  BY DEF PlaybackInv, DecoderInv, FromCodec, TypeOK, ReleaseCodec, trackVars, decVars, playVars
<1>6. QueueInv'
  BY DEF PlaybackInv, QueueInv, TypeOK, Releasing, Number, Ahead, FromCodec, ReleaseCodec,
     trackVars, decVars, playVars
<1>7. ActiveInv'
  BY DEF PlaybackInv, ActiveInv, Releasing, ReleaseCodec, trackVars, decVars, playVars
<1>8. PlayerInv'
  BY DEF PlaybackInv, PlayerInv, Releasing, Upcoming, Known, Ahead, FromCodec, Number,
     ReleaseCodec, trackVars, decVars, playVars
<1> QED BY <1>1, <1>2, <1>3, <1>4, <1>5, <1>6, <1>7, <1>8 DEF PlaybackInv

(***************************************************************************)
(* The decoder thread.                                                     *)
(***************************************************************************)
\* Nothing is put next but what was to be put next, or a seek is about to be served.
LEMMA DecoderLoopKeeps == ASSUME PlaybackInv, DecoderLoop PROVE PlaybackInv'
<1>0. /\ UNCHANGED <<ui, pcmQueue, paused, player, chunk, sinceJump, lastWritten>>
      /\ ~Releasing' => /\ Ahead' = Ahead /\ ~interrupted' /\ dec # "clear" /\ dec # "exit"
                        /\ dec' \in {"loop", "seek", "codec"}
  BY DEF PlaybackInv, QueueInv, ActiveInv, Releasing, Ahead, FromCodec, DecoderLoop, PausedOr,
     uiVars, history, playVars, decRest
<1>1. TypeOK'
  BY DEF PlaybackInv, TypeOK, DecoderInv, DecoderLoop, PausedOr, history, decRest, uiVars,
     playVars
<1>2. ButtonAgrees'
  BY DEF PlaybackInv, ButtonAgrees, ButtonInv, DecoderLoop, PausedOr, history, decRest, uiVars,
     playVars
<1>3. ButtonInv'
  BY DEF PlaybackInv, ButtonInv, DecoderLoop, PausedOr, history, decRest, uiVars, playVars
<1>4. ReleaseInv'
  BY DEF PlaybackInv, ReleaseInv, Releasing, DecoderLoop, PausedOr, history, decRest, uiVars,
     playVars
<1>5. DecoderInv'
  BY DEF PlaybackInv, DecoderInv, FromCodec, TypeOK, DecoderLoop, PausedOr, history, decRest,
     uiVars, playVars
<1>6. QueueInv'
  BY <1>0 DEF PlaybackInv, QueueInv, Releasing, Number
<1>7. ActiveInv'
  BY DEF PlaybackInv, ActiveInv, Releasing, DecoderLoop, PausedOr, history, decRest, uiVars,
     playVars
<1>8. PlayerInv'
  BY <1>0, UpcomingStays DEF PlaybackInv, PlayerInv, Releasing, Known
<1> QED BY <1>1, <1>2, <1>3, <1>4, <1>5, <1>6, <1>7, <1>8 DEF PlaybackInv

\* The codec is flushed: until the queue is cleared nothing is claimed of what follows it.
LEMMA DecoderSeekKeeps == ASSUME PlaybackInv, DecoderSeek PROVE PlaybackInv'
<1>1. TypeOK'
  BY DEF PlaybackInv, TypeOK, DecoderInv, DecoderSeek, Crash, InFile, history, decRest, uiVars,
     playVars
<1>2. ButtonAgrees'
  BY DEF PlaybackInv, ButtonAgrees, ButtonInv, DecoderSeek, Crash, InFile, history, decRest,
     uiVars, playVars
<1>3. ButtonInv'
  BY DEF PlaybackInv, ButtonInv, DecoderSeek, Crash, InFile, history, decRest, uiVars, playVars
<1>4. ReleaseInv'
  BY DEF PlaybackInv, ReleaseInv, Releasing, DecoderSeek, Crash, InFile, history, decRest,
     uiVars, playVars
<1>5. DecoderInv'
  <2>1. CASE released
    BY <2>1 DEF PlaybackInv, DecoderInv, FromCodec, DecoderSeek, Crash
  <2>2. CASE ~released
    <3>1. seekUs \in Nat /\ extractor' = InFile(seekUs)
      BY <2>2 DEF PlaybackInv, DecoderInv, DecoderSeek
    <3>2. extractor' \in 0..Chunks
      BY <3>1, InFileTyped
    <3> QED BY <2>2, <3>2 DEF PlaybackInv, DecoderInv, DecoderSeek
  <2> QED BY <2>1, <2>2
<1>6. QueueInv'
  BY DEF PlaybackInv, QueueInv, TypeOK, Releasing, Number, Ahead, FromCodec, DecoderSeek,
     Crash, InFile, history, decRest, uiVars, playVars
<1>7. ActiveInv'
  BY DEF PlaybackInv, ActiveInv, Releasing, DecoderSeek, Crash, InFile, history, decRest,
     uiVars, playVars
<1>8. PlayerInv'
  BY DEF PlaybackInv, PlayerInv, Releasing, Upcoming, Known, Ahead, FromCodec, Number,
     DecoderSeek, Crash, InFile, history, decRest, uiVars, playVars
<1> QED BY <1>1, <1>2, <1>3, <1>4, <1>5, <1>6, <1>7, <1>8 DEF PlaybackInv

\* The queue is empty and the next chunk is that of the new position.
LEMMA DecoderClearKeeps == ASSUME PlaybackInv, DecoderClear PROVE PlaybackInv'
<1>1. TypeOK'
  BY NoChunks, SMTT(30) DEF PlaybackInv, TypeOK, DecoderInv, DecoderClear, PausedOr, decRest,
     uiVars, playVars
<1>2. ButtonAgrees'
  BY DEF PlaybackInv, ButtonAgrees, ButtonInv, DecoderClear, PausedOr, decRest, uiVars, playVars
<1>3. ButtonInv'
  BY DEF PlaybackInv, ButtonInv, DecoderClear, PausedOr, decRest, uiVars, playVars
<1>4. ReleaseInv'
  BY DEF PlaybackInv, ReleaseInv, Releasing, DecoderClear, PausedOr, decRest, uiVars, playVars
<1>5. DecoderInv'
  BY DEF PlaybackInv, DecoderInv, FromCodec, TypeOK, DecoderClear, PausedOr, decRest, uiVars,
     playVars
<1>6. QueueInv'
  <2>1. pcmQueue' = <<>> /\ (~Releasing' => ~interrupted')
    BY DEF PlaybackInv, QueueInv, Releasing, DecoderClear, PausedOr, uiVars, decRest
  <2> QED BY <2>1, NoChunks DEF QueueInv
<1>7. ActiveInv'
  BY DEF PlaybackInv, ActiveInv, Releasing, DecoderClear, PausedOr, decRest, uiVars, playVars
<1>8. PlayerInv'
  BY DEF PlaybackInv, PlayerInv, Releasing, Upcoming, Known, Ahead, FromCodec, Number,
     DecoderClear, PausedOr, decRest, uiVars, playVars
<1> QED BY <1>1, <1>2, <1>3, <1>4, <1>5, <1>6, <1>7, <1>8 DEF PlaybackInv

\* The chunk that comes next stays the same, in the codec or out of it.
LEMMA DecoderCodecKeeps == ASSUME PlaybackInv, DecoderCodec PROVE PlaybackInv'
<1>0. /\ UNCHANGED <<ui, pcmQueue, paused, player, chunk, sinceJump, lastWritten, interrupted>>
      /\ dec = "codec" /\ dec' \in {"loop", "put", "eof", "crashed"}
      /\ DecoderInv' /\ Ahead' = Ahead
  <2>0. dec = "codec" /\ Ahead = FromCodec
    BY DEF DecoderCodec, Ahead
  <2>1. UNCHANGED <<ui, pcmQueue, paused, player, chunk, sinceJump, lastWritten, interrupted>>
    BY DEF DecoderCodec, uiVars, history, playVars, decRest
  <2>c. ~released => /\ inputDone' = (inputDone \/ extractor = Chunks)
                     /\ extractor' = IF inputDone' THEN extractor ELSE extractor + 1
                     /\ UNCHANGED seekUs
                     /\ \/ /\ Len(Fed) < 2 /\ ~inputDone'
                           /\ codec' = Fed /\ dec' = "loop" /\ UNCHANGED out
                        \/ /\ codec' = Tail(Fed) /\ Head(Fed) = End
                           /\ dec' = "eof" /\ UNCHANGED out
                        \/ /\ codec' = Tail(Fed) /\ Head(Fed) # End
                           /\ dec' = "put" /\ out' = Head(Fed)
    BY DEF DecoderCodec
  <2>2. CASE released
    BY <2>0, <2>1, <2>2 DEF PlaybackInv, DecoderInv, Ahead, FromCodec, DecoderCodec, Crash
  <2>3. CASE ~released /\ inputDone
    <3>1. codec = <<End>> /\ Fed = codec /\ extractor = Chunks
      BY <2>0, <2>3 DEF PlaybackInv, DecoderInv, Fed
    <3>2. Head(Fed) = End /\ Tail(Fed) = <<>> /\ FromCodec = End
      BY <3>1, FedOne DEF FromCodec
    <3>3. codec' = <<>> /\ dec' = "eof" /\ UNCHANGED <<out, extractor, inputDone, seekUs>>
      BY <2>3, <2>c, <3>1, <3>2
    <3> QED BY <2>0, <2>1, <2>3, <3>1, <3>2, <3>3 DEF PlaybackInv, DecoderInv, Ahead
  <2>4. CASE ~released /\ ~inputDone /\ codec = <<>>
    <3>1. /\ Fed = <<extractor + 1>> /\ FromCodec = extractor + 1 /\ extractor \in 0..Chunks
          /\ Len(Fed) = 1 /\ Tail(Fed) = <<>> /\ Head(Fed) = extractor + 1
      BY <2>4, FedOne DEF PlaybackInv, DecoderInv, Fed, FromCodec
    <3>a. inputDone' \in BOOLEAN
      BY <2>4, <2>c DEF PlaybackInv, DecoderInv
    <3>2. CASE extractor = Chunks
      <4>1. codec' = <<>> /\ dec' = "eof" /\ inputDone' /\ extractor' = Chunks
            /\ UNCHANGED <<out, seekUs>>
        BY <2>4, <2>c, <3>1, <3>2 DEF End
      <4> QED BY <2>0, <2>1, <3>1, <3>2, <4>1 DEF PlaybackInv, DecoderInv, Ahead, End
    <3>3. CASE extractor # Chunks
      <4>1. ~inputDone' /\ extractor' = extractor + 1 /\ UNCHANGED seekUs
        BY <2>4, <2>c, <3>3
      <4>2. extractor' \in 1..Chunks /\ extractor + 1 # End
        BY <3>1, <3>3, <4>1 DEF End
      <4>3. CASE codec' = <<extractor'>> /\ dec' = "loop"
        <5>1. FromCodec' = extractor'
          BY <4>3, FedOne DEF FromCodec
        <5>2. DecoderInv'
          BY <3>a, <4>1, <4>2, <4>3 DEF PlaybackInv, DecoderInv
        <5>3. Ahead' = Ahead
          BY <2>0, <3>1, <4>1, <4>3, <5>1 DEF Ahead
        <5> QED BY <2>0, <2>1, <4>3, <5>2, <5>3
      <4>4. CASE codec' = <<>> /\ dec' = "put" /\ out' = extractor'
        <5>1. FromCodec' = extractor' + 1
          BY <4>4 DEF FromCodec
        <5>2. DecoderInv'
          BY <3>a, <4>1, <4>2, <4>4, <5>1 DEF PlaybackInv, DecoderInv
        <5>3. Ahead' = Ahead
          BY <2>0, <3>1, <4>1, <4>4 DEF Ahead
        <5> QED BY <2>0, <2>1, <4>4, <5>2, <5>3
      <4> QED BY <2>4, <2>c, <3>1, <4>1, <4>2, <4>3, <4>4
    <3> QED BY <3>2, <3>3
  <2>5. CASE ~released /\ ~inputDone /\ codec # <<>>
    <3>1. codec = <<extractor>> /\ extractor \in 1..Chunks
      BY <2>5 DEF PlaybackInv, DecoderInv
    <3>2. /\ Len(Fed) = 2 /\ Tail(Fed) = <<extractor + 1>> /\ Head(Fed) = extractor
          /\ FromCodec = extractor
      <4>1. Fed = Append(<<extractor>>, extractor + 1)
        BY <2>5, <3>1 DEF Fed
      <4> QED BY <3>1, <4>1, FedOne, FedTwo DEF FromCodec
    <3>3. extractor # End /\ ~(Len(Fed) < 2)
      BY <3>1, <3>2 DEF End
    <3>4. /\ codec' = <<extractor + 1>> /\ dec' = "put" /\ out' = extractor /\ UNCHANGED seekUs
      BY <2>5, <2>c, <3>2, <3>3
    <3>5. FromCodec' = extractor + 1
      BY <3>4, FedOne DEF FromCodec
    <3>a. inputDone' \in BOOLEAN
      BY <2>5, <2>c DEF PlaybackInv, DecoderInv
    <3>6. ASSUME extractor = Chunks PROVE DecoderInv'
      <4>1. inputDone' /\ extractor' = extractor /\ codec' = <<End>>
        BY <2>5, <2>c, <3>4, <3>6 DEF End
      <4> QED BY <3>a, <3>1, <3>4, <3>5, <3>6, <4>1 DEF PlaybackInv, DecoderInv
    <3>7. ASSUME extractor # Chunks PROVE DecoderInv'
      <4>1. ~inputDone' /\ extractor' = extractor + 1
        BY <2>5, <2>c, <3>7
      <4> QED BY <3>a, <3>1, <3>4, <3>5, <3>7, <4>1 DEF PlaybackInv, DecoderInv
    <3>8. Ahead' = Ahead
      BY <2>0, <3>2, <3>4 DEF Ahead
    <3> QED BY <2>0, <2>1, <3>4, <3>6, <3>7, <3>8
  <2>6. codec = <<>> \/ codec # <<>>
    OBVIOUS
  <2> QED BY <2>0, <2>1, <2>2, <2>3, <2>4, <2>5, <2>6
<1>1. TypeOK'
  <2>1. extractor' \in 0..Chunks /\ codec' \in {<<>>, <<IF inputDone' THEN End ELSE extractor'>>}
    BY <1>0 DEF DecoderInv
  <2>2. Len(codec') <= 1
    <3> DEFINE c == IF inputDone' THEN End ELSE extractor'
    <3>1. codec' = <<>> \/ codec' = <<c>>
      BY <2>1
    <3>2. Len(<<c>>) = 1
      BY FedOne
    <3> HIDE DEF c
    <3>3. ASSUME codec' = <<>> PROVE Len(codec') <= 1
      BY <3>3, NoChunks
    <3>4. ASSUME codec' = <<c>> PROVE Len(codec') <= 1
      BY <3>2, <3>4
    <3> QED BY <3>1, <3>3, <3>4
  <2>3. pcmQueue' = pcmQueue /\ dec' \in {"loop", "put", "eof", "crashed"}
    BY <1>0
  <2> QED BY <2>1, <2>2, <2>3 DEF PlaybackInv, TypeOK, DecoderCodec, history, decRest, uiVars,
     playVars
<1>2. ButtonAgrees'
  BY DEF PlaybackInv, ButtonAgrees, ButtonInv, DecoderCodec, Crash, Fed, history, decRest,
     uiVars, playVars
<1>3. ButtonInv'
  BY DEF PlaybackInv, ButtonInv, DecoderCodec, Crash, Fed, history, decRest, uiVars, playVars
<1>4. ReleaseInv'
  BY DEF PlaybackInv, ReleaseInv, Releasing, DecoderCodec, Crash, Fed, history, decRest,
     uiVars, playVars
<1>5. DecoderInv'
  BY <1>0
<1>6. QueueInv'
  BY <1>0 DEF PlaybackInv, QueueInv, Releasing, Number
<1>7. ActiveInv'
  BY DEF PlaybackInv, ActiveInv, Releasing, DecoderCodec, Crash, Fed, history, decRest, uiVars,
     playVars
<1>8. PlayerInv'
  BY <1>0, UpcomingStays DEF PlaybackInv, PlayerInv, Releasing, Known
<1> QED BY <1>1, <1>2, <1>3, <1>4, <1>5, <1>6, <1>7, <1>8 DEF PlaybackInv

\* It is put behind the others, ...
LEMMA DecoderPutKeeps == ASSUME PlaybackInv, DecoderPut PROVE PlaybackInv'
<1>0. UNCHANGED <<ui, paused, player, chunk, sinceJump, lastWritten, codec, extractor>>
  BY DEF DecoderPut, uiVars, history, playVars, decRest
<1>a. ASSUME ~Releasing PROVE QueueInv' /\ Known /\ Upcoming' = Upcoming
  <2>1. /\ dec = "put" /\ dec' = "loop" /\ pcmQueue' = Append(pcmQueue, out) /\ ~interrupted'
        /\ out \in 1..Chunks /\ FromCodec = out + 1
    BY <1>a DEF PlaybackInv, QueueInv, DecoderInv, DecoderPut
  <2>2. Number(out) = Ahead /\ Ahead' = out + 1 /\ Ahead = out /\ out # EOF_SENTINEL
    BY <1>0, <2>1 DEF Ahead, FromCodec, Number
  <2> QED BY <1>a, <2>1, <2>2, PutsInOrder DEF PlaybackInv
<1>b. pcmQueue' \in Seq(0..Chunks) /\ Len(pcmQueue') <= QUEUE_CAPACITY
  <2>1. out \in 0..Chunks
    BY DEF PlaybackInv, DecoderInv, DecoderPut
  <2>2. pcmQueue \in Seq(0..Chunks) /\ Len(pcmQueue) <= QUEUE_CAPACITY /\ Len(pcmQueue) \in Nat
    BY ChunkFacts DEF PlaybackInv, TypeOK
  <2>3. \/ pcmQueue' = pcmQueue
        \/ pcmQueue' = Append(pcmQueue, out) /\ Len(pcmQueue) < QUEUE_CAPACITY
    BY DEF DecoderPut
  <2>4. /\ Append(pcmQueue, out) \in Seq(0..Chunks)
        /\ Len(Append(pcmQueue, out)) = Len(pcmQueue) + 1
    BY <2>1, <2>2, AppendFacts
  <2> QED BY <2>2, <2>3, <2>4
<1>1. TypeOK'
  BY <1>b DEF PlaybackInv, TypeOK, DecoderPut, history, decRest, uiVars, playVars
<1>2. ButtonAgrees'
  BY DEF PlaybackInv, ButtonAgrees, ButtonInv, DecoderPut, history, decRest, uiVars, playVars
<1>3. ButtonInv'
  BY DEF PlaybackInv, ButtonInv, DecoderPut, history, decRest, uiVars, playVars
<1>4. ReleaseInv'
  BY DEF PlaybackInv, ReleaseInv, Releasing, DecoderPut, history, decRest, uiVars, playVars
<1>5. DecoderInv'
  BY DEF PlaybackInv, DecoderInv, FromCodec, TypeOK, DecoderPut, history, decRest, uiVars,
     playVars
<1>6. QueueInv'
  BY <1>0, <1>a DEF QueueInv, Releasing
<1>7. ActiveInv'
  BY DEF PlaybackInv, ActiveInv, Releasing, DecoderPut, history, decRest, uiVars, playVars
<1>8. PlayerInv'
  BY <1>0, <1>a DEF PlaybackInv, PlayerInv, Releasing
<1> QED BY <1>1, <1>2, <1>3, <1>4, <1>5, <1>6, <1>7, <1>8 DEF PlaybackInv

\* ... and after the last the sentinel.
LEMMA DecoderEofKeeps == ASSUME PlaybackInv, DecoderEof PROVE PlaybackInv'
<1>0. UNCHANGED <<ui, paused, player, chunk, sinceJump, lastWritten>>
  BY DEF DecoderEof, uiVars, history, playVars, decRest
<1>a. ASSUME ~Releasing PROVE QueueInv' /\ Known /\ Upcoming' = Upcoming
  <2>1. /\ dec = "eof" /\ dec' = "exit" /\ ~interrupted'
        /\ pcmQueue' = Append(pcmQueue, EOF_SENTINEL)
    BY <1>a DEF PlaybackInv, QueueInv, DecoderEof
  <2>2. Number(EOF_SENTINEL) = Ahead /\ Ahead' = Ahead + 1 /\ EOF_SENTINEL \in 0..Chunks
    BY <2>1 DEF Ahead, Number
  <2> QED BY <1>a, <2>1, <2>2, PutsInOrder DEF PlaybackInv
<1>b. pcmQueue' \in Seq(0..Chunks) /\ Len(pcmQueue') <= QUEUE_CAPACITY
  <2>1. EOF_SENTINEL \in 0..Chunks
    OBVIOUS
  <2>2. pcmQueue \in Seq(0..Chunks) /\ Len(pcmQueue) <= QUEUE_CAPACITY /\ Len(pcmQueue) \in Nat
    BY ChunkFacts DEF PlaybackInv, TypeOK
  <2>3. \/ pcmQueue' = pcmQueue
        \/ pcmQueue' = Append(pcmQueue, EOF_SENTINEL) /\ Len(pcmQueue) < QUEUE_CAPACITY
    BY DEF DecoderEof
  <2>4. /\ Append(pcmQueue, EOF_SENTINEL) \in Seq(0..Chunks)
        /\ Len(Append(pcmQueue, EOF_SENTINEL)) = Len(pcmQueue) + 1
    BY <2>1, <2>2, AppendFacts
  <2> QED BY <2>2, <2>3, <2>4
<1>1. TypeOK'
  BY <1>b DEF PlaybackInv, TypeOK, DecoderEof, history, decRest, uiVars, playVars
<1>2. ButtonAgrees'
  BY DEF PlaybackInv, ButtonAgrees, ButtonInv, DecoderEof, history, decRest, uiVars, playVars
<1>3. ButtonInv'
  BY DEF PlaybackInv, ButtonInv, DecoderEof, history, decRest, uiVars, playVars
<1>4. ReleaseInv'
  BY DEF PlaybackInv, ReleaseInv, Releasing, DecoderEof, history, decRest, uiVars, playVars
<1>5. DecoderInv'
  BY DEF PlaybackInv, DecoderInv, FromCodec, TypeOK, DecoderEof, history, decRest, uiVars,
     playVars
<1>6. QueueInv'
  BY <1>0, <1>a DEF QueueInv, Releasing
<1>7. ActiveInv'
  BY DEF PlaybackInv, ActiveInv, Releasing, DecoderEof, history, decRest, uiVars, playVars
<1>8. PlayerInv'
  BY <1>0, <1>a DEF PlaybackInv, PlayerInv, Releasing
<1> QED BY <1>1, <1>2, <1>3, <1>4, <1>5, <1>6, <1>7, <1>8 DEF PlaybackInv

(***************************************************************************)
(* The player thread.                                                      *)
(***************************************************************************)
\* The chunk in hand is the one that came next.
LEMMA PlayerTakeKeeps == ASSUME PlaybackInv, PlayerTake PROVE PlaybackInv'
<1>0. /\ UNCHANGED <<dec, out, codec, extractor, interrupted, ui, paused, sinceJump, lastWritten>>
      /\ pcmQueue # <<>> /\ pcmQueue' = Tail(pcmQueue) /\ chunk' = Head(pcmQueue)
      /\ player = "take" /\ player' = IF chunk' = EOF_SENTINEL THEN "complete" ELSE "chunk"
  BY DEF PlayerTake, playRest, uiVars, decVars, trackVars
<1>a. ASSUME ~Releasing
      PROVE  /\ QueueInv'
             /\ chunk' = EOF_SENTINEL => dec = "exit"
             /\ Known /\ Upcoming = Number(chunk')
             /\ Known' => Upcoming' = Number(chunk') + 1
  BY <1>0, <1>a, TakesInOrder DEF PlaybackInv
<1>b. chunk' \in 0..Chunks /\ pcmQueue' \in Seq(0..Chunks) /\ Len(pcmQueue') <= QUEUE_CAPACITY
  <2>1. pcmQueue \in Seq(0..Chunks) /\ Len(pcmQueue) <= QUEUE_CAPACITY /\ Len(pcmQueue) \in Nat
    BY ChunkFacts DEF PlaybackInv, TypeOK
  <2> QED BY <1>0, <2>1, TailFacts
<1>1. TypeOK'
  BY <1>0, <1>b DEF PlaybackInv, TypeOK, PlayerTake, playRest, uiVars, decVars, trackVars
<1>2. ButtonAgrees'
  BY DEF PlaybackInv, ButtonAgrees, ButtonInv, PlayerTake, trackVars, playRest, uiVars, decVars
<1>3. ButtonInv'
  BY DEF PlaybackInv, ButtonInv, PlayerTake, trackVars, playRest, uiVars, decVars
<1>4. ReleaseInv'
  BY DEF PlaybackInv, ReleaseInv, Releasing, PlayerTake, trackVars, playRest, uiVars, decVars
<1>5. DecoderInv'
  BY DEF PlaybackInv, DecoderInv, FromCodec, TypeOK, PlayerTake, trackVars, playRest, uiVars,
     decVars
<1>6. QueueInv'
  BY <1>0, <1>a DEF QueueInv, Releasing
<1>7. ActiveInv'
  BY <1>0, <1>a DEF PlaybackInv, ActiveInv, Releasing, PlayerTake
<1>8. PlayerInv'
  <2>1. chunk' # EOF_SENTINEL => Number(chunk') = chunk' /\ chunk' \in 1..Chunks
    BY <1>b DEF Number
  <2>2. chunk' = EOF_SENTINEL => Number(chunk') = Chunks + 1
    BY DEF Number, End
  <2> QED BY <1>0, <1>a, <2>1, <2>2 DEF PlaybackInv, PlayerInv, Releasing
<1> QED BY <1>1, <1>2, <1>3, <1>4, <1>5, <1>6, <1>7, <1>8 DEF PlaybackInv

\* The sentinel came after the last chunk: the decoder thread has ended too.
LEMMA PlayerCompleteKeeps == ASSUME PlaybackInv, PlayerComplete PROVE PlaybackInv'
<1>1. TypeOK'
  BY ZenonT(60) DEF PlaybackInv, TypeOK, PlayerComplete, trackVars, playRest, uiVars, decVars
<1>2. ButtonAgrees'
  BY DEF PlaybackInv, ButtonAgrees, ButtonInv, PlayerComplete, trackVars, playRest, uiVars,
     decVars
<1>3. ButtonInv'
  BY DEF PlaybackInv, ButtonInv, PlayerComplete, trackVars, playRest, uiVars, decVars
<1>4. ReleaseInv'
  BY DEF PlaybackInv, ReleaseInv, Releasing, PlayerComplete, trackVars, playRest, uiVars,
     decVars
<1>5. DecoderInv'
  BY DEF PlaybackInv, DecoderInv, FromCodec, TypeOK, PlayerComplete, trackVars, playRest,
     uiVars, decVars
<1>6. QueueInv'
  BY DEF PlaybackInv, QueueInv, TypeOK, Releasing, Number, Ahead, FromCodec, PlayerComplete,
     trackVars, playRest, uiVars, decVars
<1>7. ActiveInv'
  BY DEF PlaybackInv, ActiveInv, Releasing, PlayerComplete, trackVars, playRest, uiVars, decVars
<1>8. PlayerInv'
  BY DEF PlaybackInv, PlayerInv, Releasing, Upcoming, Known, Ahead, FromCodec, Number,
     PlayerComplete, trackVars, playRest, uiVars, decVars
<1> QED BY <1>1, <1>2, <1>3, <1>4, <1>5, <1>6, <1>7, <1>8 DEF PlaybackInv

\* A paused player drops the chunk in hand.
LEMMA PlayerTestKeeps == ASSUME PlaybackInv, PlayerTest PROVE PlaybackInv'
<1>1. TypeOK'
  BY SMTT(30) DEF PlaybackInv, TypeOK, PlayerTest, Again, trackVars, playRest, uiVars, decVars
<1>2. ButtonAgrees'
  BY DEF PlaybackInv, ButtonAgrees, ButtonInv, PlayerTest, Again, trackVars, playRest, uiVars,
     decVars
<1>3. ButtonInv'
  BY DEF PlaybackInv, ButtonInv, PlayerTest, Again, trackVars, playRest, uiVars, decVars
<1>4. ReleaseInv'
  BY DEF PlaybackInv, ReleaseInv, Releasing, PlayerTest, Again, trackVars, playRest, uiVars,
     decVars
<1>5. DecoderInv'
  BY DEF PlaybackInv, DecoderInv, FromCodec, TypeOK, PlayerTest, Again, trackVars, playRest,
     uiVars, decVars
<1>6. QueueInv'
  BY DEF PlaybackInv, QueueInv, TypeOK, Releasing, Number, Ahead, FromCodec, PlayerTest, Again,
     trackVars, playRest, uiVars, decVars
<1>7. ActiveInv'
  BY DEF PlaybackInv, ActiveInv, Releasing, PlayerTest, Again, trackVars, playRest, uiVars,
     decVars
<1>8. PlayerInv'
  <2>1. CASE active /\ ~paused
    <3>1. /\ UNCHANGED <<ui, chunk, sinceJump, lastWritten, paused>>
          /\ Upcoming' = Upcoming /\ (Known' <=> Known) /\ (Releasing' <=> Releasing)
          /\ player = "chunk" /\ player' = "write" /\ ~paused
      BY <2>1 DEF PlayerTest, Upcoming, Known, Releasing, Ahead, FromCodec, Number, trackVars,
         uiVars,
         decVars, playRest
    <3>2. ~Releasing /\ ui # "pause"
      BY <2>1 DEF PlaybackInv, ReleaseInv, ButtonInv
    <3> QED BY <3>1, <3>2 DEF PlaybackInv, PlayerInv
  <2>2. CASE ~(active /\ ~paused)
    BY <2>2 DEF PlaybackInv, PlayerInv, ActiveInv, Releasing, PlayerTest, Again, trackVars,
       uiVars,
       playRest
  <2> QED BY <2>1, <2>2
<1> QED BY <1>1, <1>2, <1>3, <1>4, <1>5, <1>6, <1>7, <1>8 DEF PlaybackInv

\* It is written after the one before it.
LEMMA PlayerWriteKeeps == ASSUME PlaybackInv, PlayerWrite PROVE PlaybackInv'
<1>1. TypeOK'
  BY SMTT(30) DEF PlaybackInv, TypeOK, PlayerWrite, Again, playRest, uiVars, decVars
<1>2. ButtonAgrees'
  BY DEF PlaybackInv, ButtonAgrees, ButtonInv, PlayerWrite, Again, playRest, uiVars, decVars
<1>3. ButtonInv'
  BY DEF PlaybackInv, ButtonInv, PlayerWrite, Again, playRest, uiVars, decVars
<1>4. ReleaseInv'
  BY DEF PlaybackInv, ReleaseInv, Releasing, PlayerWrite, Again, playRest, uiVars, decVars
<1>5. DecoderInv'
  BY DEF PlaybackInv, DecoderInv, FromCodec, TypeOK, PlayerWrite, Again, playRest, uiVars,
     decVars
<1>6. QueueInv'
  BY DEF PlaybackInv, QueueInv, TypeOK, Releasing, Number, Ahead, FromCodec, PlayerWrite,
     Again, playRest, uiVars, decVars
<1>7. ActiveInv'
  BY DEF PlaybackInv, ActiveInv, Releasing, PlayerWrite, Again, playRest, uiVars, decVars
<1>8. PlayerInv'
  BY DEF PlaybackInv, PlayerInv, Releasing, Upcoming, Known, Ahead, FromCodec, Number,
     PlayerWrite, Again, playRest, uiVars, decVars
<1> QED BY <1>1, <1>2, <1>3, <1>4, <1>5, <1>6, <1>7, <1>8 DEF PlaybackInv

(***************************************************************************)
(* The specification.                                                      *)
(***************************************************************************)
\* A prepared player: nothing is queued, decoded or heard.
LEMMA InitPlaybackInv == Init => PlaybackInv
<1> SUFFICES ASSUME Init PROVE PlaybackInv
  OBVIOUS
<1>1. TypeOK
  <2>1. pcmQueue = <<>> /\ codec = <<>>
    BY DEF Init
  <2>2. pcmQueue \in Seq(0..Chunks) /\ Len(pcmQueue) <= QUEUE_CAPACITY
    BY <2>1, NoChunks
  <2>3. Len(codec) <= 1
    BY <2>1, NoChunks
  <2>4. chunk \in 0..Chunks /\ extractor \in 0..Chunks
    BY DEF Init
  <2>5. /\ seekTargetUs \in {None} \cup Nat
        /\ positionMs \in Nat /\ head \in Nat /\ playbackStartMs \in Nat
    BY DEF Init
  <2> QED BY <2>2, <2>3, <2>4, <2>5 DEF Init, TypeOK
<1>2. ButtonAgrees /\ ButtonInv /\ ReleaseInv /\ ActiveInv
  BY DEF Init, ButtonAgrees, ButtonInv, ReleaseInv, Releasing, ActiveInv
<1>3. DecoderInv
  <2>1. codec = <<>> /\ dec = "none" /\ inputDone = FALSE /\ seekUs = None /\ extractor = 0
    BY DEF Init
  <2>2. seekUs \in {None} \cup Nat /\ extractor \in 0..Chunks
    BY <2>1
  <2> QED BY <2>1, <2>2 DEF DecoderInv
<1>4. QueueInv
  <2>1. pcmQueue = <<>> /\ ~interrupted
    BY DEF Init
  <2> QED BY <2>1, NoChunks DEF QueueInv
<1>5. PlayerInv
  BY DEF Init, PlayerInv
<1> QED BY <1>1, <1>2, <1>3, <1>4, <1>5 DEF PlaybackInv

\* A step of something else.
LEMMA StutterKeeps == ASSUME PlaybackInv, UNCHANGED vars PROVE PlaybackInv'
<1>1. TypeOK'
  BY DEF PlaybackInv, TypeOK, vars, uiVars, decVars, playVars, trackVars
<1>2. ButtonAgrees'
  BY DEF PlaybackInv, ButtonAgrees, vars, uiVars, decVars, playVars, trackVars
<1>3. ButtonInv'
  BY DEF PlaybackInv, ButtonInv, vars, uiVars, decVars, playVars, trackVars
<1>4. ReleaseInv'
  BY DEF PlaybackInv, ReleaseInv, Releasing, vars, uiVars, decVars, playVars, trackVars
<1>5. DecoderInv'
  BY DEF PlaybackInv, DecoderInv, FromCodec, vars, uiVars, decVars, playVars, trackVars
<1>6. QueueInv'
  BY DEF PlaybackInv, QueueInv, Releasing, Number, Ahead, FromCodec, vars, uiVars, decVars,
     playVars, trackVars
<1>7. ActiveInv'
  BY DEF PlaybackInv, ActiveInv, Releasing, vars, uiVars, decVars, playVars, trackVars
<1>8. PlayerInv'
  BY DEF PlaybackInv, PlayerInv, Releasing, Upcoming, Known, Number, Ahead, FromCodec, vars,
     uiVars, decVars, playVars, trackVars
<1> QED BY <1>1, <1>2, <1>3, <1>4, <1>5, <1>6, <1>7, <1>8 DEF PlaybackInv

\* Every step of the three threads.
LEMMA NextKeeps == ASSUME PlaybackInv, Next PROVE PlaybackInv'
<1>1. ASSUME UiGoesOn PROVE PlaybackInv'
  BY <1>1, PauseFlushKeeps, StartKeeps, StartFailsKeeps, ResumeClearKeeps, ResumePlayKeeps,
     ReleaseCodecKeeps, OnPlaybackCompleteKeeps DEF UiGoesOn
<1>2. ASSUME DecoderThread PROVE PlaybackInv'
  BY <1>2, DecoderLoopKeeps, DecoderSeekKeeps, DecoderClearKeeps, DecoderCodecKeeps,
     DecoderPutKeeps, DecoderEofKeeps DEF DecoderThread
<1>3. ASSUME PlayerThread PROVE PlaybackInv'
  BY <1>3, PlayerTakeKeeps, PlayerCompleteKeeps, PlayerTestKeeps, PlayerWriteKeeps
     DEF PlayerThread
<1> QED BY <1>1, <1>2, <1>3, ResumeKeeps, PauseKeeps, ReleaseKeeps DEF Next

\* The inductive invariant: where each chunk between file and loudspeaker is, and which calls and
\* threads of the player can be under way together.
THEOREM PlaybackInvHolds == Spec => []PlaybackInv
<1>1. PlaybackInv /\ [Next]_vars => PlaybackInv'
  BY NextKeeps, StutterKeeps
<1> QED BY <1>1, InitPlaybackInv, PTL DEF Spec

\* Nothing is heard while the button says Play, but for the restart that ButtonAgrees names, and
\* the queue never holds more than its capacity (PlaybackController.playing, pcmQueue).
THEOREM PlayerShowsWhatIsHeard == Spec => []ShownIsHeard
<1>1. PlaybackInv => ShownIsHeard
  BY DEF PlaybackInv, ShownIsHeard
<1> QED BY <1>1, PlaybackInvHolds, PTL

\* A chunk written after two others since the last jump follows the one before it.
LEMMA WritesInOrder == ASSUME PlaybackInv, Next PROVE HeardInOrder
<1> SUFFICES ASSUME player = "write", player' # "write", sinceJump = 2
             PROVE  chunk = lastWritten + 1
  BY DEF HeardInOrder
<1>1. ~Releasing
  BY DEF PlaybackInv, ReleaseInv
<1> QED BY <1>1 DEF PlaybackInv, PlayerInv

\* Only the player thread that has taken the sentinel reports the end, after the last chunk.
LEMMA EndsWhenHeard == ASSUME PlaybackInv, Next PROVE CompleteMeansHeard
<1> SUFFICES ASSUME posted', ~posted, sinceJump = 2, ui # "pause"
             PROVE  lastWritten = Chunks
  BY DEF CompleteMeansHeard
<1>1. ~Releasing
  BY DEF PlaybackInv, ReleaseInv
<1>2. player = "complete"
  BY DEF Next, UiGoesOn, PauseFlush, Start, StartFails, ResumeClear, ResumePlay, ReleaseCodec,
     OnPlaybackComplete, Resume, Pause, Release, DecoderThread, DecoderLoop, DecoderSeek,
     DecoderClear, DecoderCodec, DecoderPut, DecoderEof, decRest, PlayerThread, PlayerTake,
     PlayerComplete, PlayerTest, PlayerWrite, playRest
<1> QED BY <1>1, <1>2 DEF PlaybackInv, PlayerInv

\* What is heard is the recording without a gap or a repetition, and its end is reported when the
\* last chunk has been heard (runDecoder, runPlayer, resume, pause).
THEOREM HeardInOrderToTheEnd == Spec => HeardToTheEnd
<1>1. PlaybackInv /\ [Next]_vars => [HeardInOrder /\ CompleteMeansHeard]_vars
  BY WritesInOrder, EndsWhenHeard
<1> QED BY <1>1, PlaybackInvHolds, PTL DEF Spec, HeardToTheEnd

--------------------------------------------------------------------------------
(***************************************************************************)
(* The picture.  A load is sound while nobody has decoded side by side     *)
(* with a reader of it and its source is still the view's: then the cache  *)
(* is what it is said to be, a reader on its way to a column has before it *)
(* all the samples the column is computed from, or a decoder has failed,   *)
(* and the columns behind it are drawn.  A recording that has left the     *)
(* view does not come back, so a load that stops being sound stays so.     *)
(***************************************************************************)
Readers == {0} \cup Workers

Sound(l) == "torn" \notin flaws[l] /\ src[l] = dataSource

FirstCol(x) == (x - 1) * ColsPerThread

Full(p) == Smaller(FFT_SIZE, TotalSamples - p)

\* A recording is shown, posted or still loaded, one after the other.
ScreenInv ==
    /\ events \in 0 .. MaxEvents /\ opened \in 0 .. events /\ shown \in {0, opened}
    /\ vizThreads \subseteq 1 .. opened /\ runnables \in Seq(1 .. opened)
    /\ \A i \in 1 .. Len(runnables) :
         /\ runnables[i] \notin vizThreads /\ runnables[i] # dataSource
         /\ \A j \in 1 .. Len(runnables) : runnables[i] = runnables[j] => i = j
    /\ dataSource \in 0 .. opened /\ dataSource \notin vizThreads
    /\ playbackMode \in BOOLEAN /\ (playbackMode <=> dataSource # 0)
    /\ scrollOffset \in Offsets \cup {0} /\ (dataSource # 0 => scrollOffset \in Offsets)
    /\ windowLoading \in BOOLEAN
    /\ mishaps \subseteq {"closed", "overtaken", "reloaded"} /\ excuses \subseteq {"late", "torn", "failed"}

Stages == {"none", "snapshot", "warm", "await", "loaded"}
Places == {"done", "test", "decode", "decoded", "get", "length", "copy"}
Reader == [at : Places, col : Nat, rel : Int, n : Nat]
Bitmap == [Columns -> [rec : Nat, pos : Int, n : Nat]]

LoadsTyped ==
    /\ loader \in [Loads -> Stages] /\ offset \in [Loads -> Offsets \cup {0}] /\ src \in [Loads -> Nat]
    /\ bmp \in [Loads -> Bitmap \cup {NoBitmap}] /\ readers \in [Loads -> [Readers -> Reader]]
    /\ flaws \in [Loads -> SUBSET {"torn", "failed"}]

LoaderInv(l) ==
    /\ loader[l] \in {"snapshot", "warm", "await"} => offset[l] \in Offsets
    /\ Loading(l) => /\ src[l] \in 1 .. opened /\ src[l] \notin vizThreads
                     /\ \A i \in 1 .. Len(runnables) : runnables[i] # src[l]
                     /\ src[l] = dataSource \/ "closed" \in mishaps
                     /\ bmp[l] \in Bitmap
    /\ ~Loading(l) => src[l] = 0

ReadersInv(l) ==
    /\ \A x \in Workers : readers[l][x].at # "done" =>
         loader[l] = "await" /\ FirstCol(x) <= readers[l][x].col /\ readers[l][x].col < EndCol(x)
    /\ readers[l][0].at # "done" => loader[l] = "warm"

CacheTyped ==
    /\ cacheStartSample \in [Recording -> Int]
    /\ cacheData \in [Recording -> [from : Nat, len : Nat]]
    /\ \A o \in Recording : cacheData[o] # NoData =>
         /\ cacheData[o].from < TotalSamples
         /\ cacheData[o].len = Smaller(WINDOW_SAMPLES, TotalSamples - cacheData[o].from)

\* All the samples of x's column are in the cache.
Covers(l, x) ==
    LET data == cacheData[src[l]]
        rel == SampleOffset(l, x) - data.from
    IN /\ 0 <= rel /\ rel < data.len
       /\ Smaller(FFT_SIZE, data.len - rel) = Full(SampleOffset(l, x))

\* One reader is between the two assignments of decodeWindow, or the cache agrees with itself.
CacheAgrees(l) ==
    /\ \A x \in Readers : readers[l][x].at = "decoded" =>
         /\ \A y \in Readers : y # x => readers[l][y].at = "done"
         /\ cacheStartSample[src[l]] = WindowStart(l, x)
    /\ Mixed(src[l]) => \E x \in Readers : readers[l][x].at = "decoded"

OnItsWay(l, x) ==
    /\ readers[l][x].at \in {"length", "copy"} =>
         /\ cacheData[src[l]] # NoData
         /\ readers[l][x].rel = SampleOffset(l, x) - cacheData[src[l]].from
    /\ readers[l][x].at = "copy" =>
         /\ 0 <= readers[l][x].rel /\ readers[l][x].rel < cacheData[src[l]].len
         /\ readers[l][x].n = Smaller(FFT_SIZE, cacheData[src[l]].len - readers[l][x].rel)
    /\ readers[l][x].at \in {"get", "length", "copy"} /\ flaws[l] = {} =>
         cacheData[src[l]] # NoData /\ Covers(l, x)

CacheInv(l) == Loading(l) /\ Sound(l) => CacheAgrees(l) /\ \A x \in Readers : OnItsWay(l, x)

Sizes(f, p) == IF f = {} THEN {Full(p)} ELSE 1 .. Full(p)

Good(column, f, o, p) == column \in [rec : {o}, pos : {p}, n : Sizes(f, p)]

\* The columns of x that it has been to.
Behind(l, x, c) ==
    /\ FirstCol(x) <= c /\ c < EndCol(x)
    /\ readers[l][x].at = "done" \/ c < readers[l][x].col

Drawn(l) ==
    /\ \A c \in Columns : bmp[l][c] = Black \/ Good(bmp[l][c], flaws[l], src[l], offset[l] + c)
    /\ loader[l] = "await" /\ flaws[l] = {} =>
         \A x \in Workers : \A c \in Columns :
            Behind(l, x, c) => Good(bmp[l][c], flaws[l], src[l], offset[l] + c)

BitmapInv(l) == Loading(l) /\ Sound(l) => Drawn(l)

LoadInv(l) == LoaderInv(l) /\ ReadersInv(l) /\ CacheInv(l) /\ BitmapInv(l)

WindowInv ==
    windowBitmap # NoBitmap /\ excuses \subseteq {"failed"} =>
        \A c \in Columns :
            \/ Good(windowBitmap[c], excuses, dataSource, lastRenderedOffset + c)
            \/ excuses # {} /\ windowBitmap[c] = Black

PictureInv ==
    /\ ScreenInv /\ LoadsTyped /\ CacheTyped /\ (\A l \in Loads : LoadInv(l))
    /\ WindowInv /\ DiesOnlyIfRaced /\ OneLoad

\* What a step leaves alone of a load, or only makes unsound.
LEMMA LoadStays ==
    ASSUME PictureInv, NEW k \in Loads,
           UNCHANGED <<loader[k], offset[k], src[k], bmp[k], readers[k]>>,
           \/ Loading(k) => "torn" \in flaws'[k]
           \/ Loading(k) => src[k] # dataSource'
           \/ UNCHANGED <<flaws[k], cacheStartSample[src[k]], cacheData[src[k]], dataSource>>
    PROVE  ReadersInv(k)' /\ CacheInv(k)' /\ BitmapInv(k)'
<1>1. ReadersInv(k)'
  BY DEF PictureInv, LoadInv, ReadersInv, FirstCol, EndCol
<1>2. Loading(k)' <=> Loading(k)
  BY DEF Loading
<1>3. CASE (Loading(k) => "torn" \in flaws'[k]) \/ (Loading(k) => src[k] # dataSource')
  BY <1>1, <1>2, <1>3 DEF CacheInv, BitmapInv, Sound
<1>4. CASE UNCHANGED <<flaws[k], cacheStartSample[src[k]], cacheData[src[k]], dataSource>>
  <2>1. Sound(k)' <=> Sound(k)
    BY <1>4 DEF Sound
  <2>2. Drawn(k) => Drawn(k)'
    BY <1>4 DEF Drawn, Behind
  <2>3. \A x : SampleOffset(k, x)' = SampleOffset(k, x) /\ WindowStart(k, x)' = WindowStart(k, x)
    BY DEF SampleOffset, WindowStart
  <2>4. Mixed(src[k])' <=> Mixed(src[k])
    BY <1>4 DEF Mixed
  <2>5. CacheAgrees(k) => CacheAgrees(k)'
    BY <1>4, <2>3, <2>4 DEF CacheAgrees
  <2>6. ASSUME NEW x \in Readers PROVE OnItsWay(k, x) => OnItsWay(k, x)'
    BY <1>4, <2>3 DEF OnItsWay, Covers
  <2>7. CacheInv(k) /\ BitmapInv(k)
    BY DEF PictureInv, LoadInv
  <2>8. QED BY <1>1, <1>2, <2>1, <2>2, <2>5, <2>6, <2>7 DEF CacheInv, BitmapInv
<1>5. QED BY <1>3, <1>4

LEMMA LoaderStays ==
    ASSUME PictureInv, NEW k \in Loads,
           UNCHANGED <<loader[k], offset[k], src[k], bmp[k]>>, opened' \in {opened, opened + 1},
           Loading(k) => /\ src[k] \notin vizThreads'
                         /\ \A i \in 1 .. Len(runnables') : runnables'[i] # src[k]
                         /\ src[k] = dataSource' \/ "closed" \in mishaps'
    PROVE  LoaderInv(k)'
<1>1. Loading(k)' <=> Loading(k)
  BY DEF Loading
<1>2. opened \in Nat
  BY DEF PictureInv, ScreenInv
<1>3. Loading(k) => src[k] \in 1 .. opened'
  BY <1>2 DEF PictureInv, LoadInv, LoaderInv
<1>4. QED BY <1>1, <1>3 DEF PictureInv, LoadInv, LoaderInv

\* A step that has nothing to do with the loads.
LEMMA LoadsStay ==
    ASSUME PictureInv, UNCHANGED <<loader, offset, src, bmp, readers, flaws, cacheStartSample>>,
           opened' \in {opened, opened + 1},
           \/ UNCHANGED <<cacheData, dataSource>>
           \/ \A k \in Loads : Loading(k) => src[k] # dataSource',
           \A k \in Loads : Loading(k) =>
              /\ src[k] \notin vizThreads'
              /\ \A i \in 1 .. Len(runnables') : runnables'[i] # src[k]
              /\ src[k] = dataSource' \/ "closed" \in mishaps'
    PROVE  LoadsTyped' /\ \A k \in Loads : LoadInv(k)'
<1>1. LoadsTyped'
  BY DEF PictureInv, LoadsTyped
<1>2. ASSUME NEW k \in Loads PROVE LoadInv(k)'
  <2>1. UNCHANGED <<loader[k], offset[k], src[k], bmp[k], readers[k], flaws[k], cacheStartSample[src[k]]>>
    OBVIOUS
  <2>2. \/ UNCHANGED <<cacheData[src[k]], dataSource>>
        \/ Loading(k) => src[k] # dataSource'
    BY <2>1
  <2>3. ReadersInv(k)' /\ CacheInv(k)' /\ BitmapInv(k)'
    BY <2>1, <2>2, LoadStays
  <2>4. LoaderInv(k)'
    BY <2>1, LoaderStays
  <2>5. QED BY <2>3, <2>4 DEF LoadInv
<1>3. QED BY <1>1, <1>2

\* The source of a load is neither being prepared nor posted.
LEMMA SourceIsOut ==
    ASSUME PictureInv, NEW k \in Loads, Loading(k)
    PROVE  /\ src[k] \in 1 .. opened /\ src[k] # 0 /\ src[k] \notin vizThreads
           /\ \A i \in 1 .. Len(runnables) : runnables[i] # src[k]
           /\ src[k] = dataSource \/ "closed" \in mishaps
<1>1. LoaderInv(k) /\ opened \in Nat
  BY DEF PictureInv, LoadInv, ScreenInv
<1>2. QED BY <1>1 DEF LoaderInv

LEMMA ClosingKeepsTypes ==
    ASSUME PictureInv, Close(dataSource), UNCHANGED cacheStartSample
    PROVE  CacheTyped'
<1>1. dataSource \in Nat /\ cacheData \in [Recording -> [from : Nat, len : Nat]]
  BY DEF PictureInv, CacheTyped, ScreenInv
<1>2. NoData \in [from : Nat, len : Nat]
  BY DEF NoData
<1>3. /\ cacheData' \in [Recording -> [from : Nat, len : Nat]]
      /\ \A o \in Recording : cacheData'[o] = cacheData[o] \/ cacheData'[o] = NoData
  BY <1>1, <1>2 DEF Close
<1>4. QED BY <1>3 DEF PictureInv, CacheTyped

LEMMA InitPictureInv == PictureInit => PictureInv
<1> SUFFICES ASSUME PictureInit PROVE PictureInv
  OBVIOUS
<1> USE DEF PictureInit
<1>1. ScreenInv
  <2>1. runnables \in Seq(1 .. opened) /\ 1 .. Len(runnables) = {}
    OBVIOUS
  <2>2. events \in 0 .. MaxEvents /\ opened \in 0 .. events /\ dataSource \in 0 .. opened
    BY SpectrogramAssumption
  <2>3. QED BY <2>1, <2>2 DEF ScreenInv
<1>2. LoadsTyped
  <2>1. Idle \in Reader
    BY DEF Idle, Places, Reader
  <2>2. QED BY <2>1 DEF LoadsTyped, Stages, Readers
<1>3. ASSUME NEW l \in Loads PROVE LoadInv(l)
  <2>1. ~Loading(l) /\ \A x \in Readers : readers[l][x].at = "done"
    BY DEF Loading, Readers, Idle
  <2>2. QED BY <2>1 DEF LoadInv, LoaderInv, ReadersInv, CacheInv, BitmapInv, Readers
<1>4. CacheTyped
  <2>1. NoData \in [from : Nat, len : Nat]
    BY DEF NoData
  <2>2. QED BY <2>1 DEF CacheTyped
<1>5. WindowInv /\ DiesOnlyIfRaced /\ OneLoad
  BY DEF WindowInv, DiesOnlyIfRaced, OneLoad
<1>6. QED BY <1>1, <1>2, <1>3, <1>4, <1>5 DEF PictureInv

--------------------------------------------------------------------------------
(***************************************************************************)
(* The steps of the UI thread                                              *)
(***************************************************************************)
USE DEF viewVars, loadVars, cacheVars, screenVars

LEMMA StopPlaybackKeeps == ASSUME PictureInv, StopPlayback PROVE PictureInv'
<1>1. /\ Close(dataSource) /\ dataSource' = 0 /\ windowBitmap' = NoBitmap
      /\ mishaps' = IF Reading(dataSource) THEN mishaps \cup {"closed"} ELSE mishaps
      /\ UNCHANGED <<loader, offset, src, bmp, readers, flaws, cacheStartSample, crashed, windowLoading,
                     opened, vizThreads, runnables>>
  BY DEF StopPlayback, Note
<1>2. LoadsTyped' /\ \A k \in Loads : LoadInv(k)'
  <2>1. ASSUME NEW k \in Loads, Loading(k)
        PROVE  /\ src[k] # dataSource' /\ src[k] \notin vizThreads'
               /\ \A i \in 1 .. Len(runnables') : runnables'[i] # src[k]
               /\ src[k] = dataSource' \/ "closed" \in mishaps'
    BY <1>1, <2>1, SourceIsOut DEF Reading
  <2>2. QED BY <1>1, <2>1, LoadsStay
<1>4. CacheTyped'
  BY <1>1, ClosingKeepsTypes
<1>5. ScreenInv'
  <2>1. runnables \in Seq(1 .. opened) /\ opened \in Nat
    BY DEF PictureInv, ScreenInv
  <2>2. \A i \in 1 .. Len(runnables) : runnables[i] # 0
    BY <2>1
  <2>3. 0 \notin vizThreads
    BY DEF PictureInv, ScreenInv
  <2>4. 0 \in 0 .. opened
    BY <2>1
  <2>5. QED BY <1>1, <2>2, <2>3, <2>4 DEF StopPlayback, PictureInv, ScreenInv
<1>6. WindowInv' /\ OneLoad' /\ DiesOnlyIfRaced'
  BY <1>1 DEF PictureInv, WindowInv, OneLoad, DiesOnlyIfRaced
<1>9. QED BY <1>2, <1>4, <1>5, <1>6 DEF PictureInv

LEMMA EnterPlaybackKeeps == ASSUME PictureInv, EnterPlayback PROVE PictureInv'
<1>1. /\ events' = events + 1 /\ events < MaxEvents /\ opened' = opened + 1 /\ shown' = opened'
      /\ vizThreads' = vizThreads \cup {opened'}
      /\ UNCHANGED <<loader, offset, src, bmp, readers, flaws, cacheStartSample, cacheData, crashed,
                     dataSource, runnables, windowBitmap, lastRenderedOffset, excuses, mishaps,
                     windowLoading>>
  BY DEF EnterPlayback, Event
<1>2. /\ opened \in Nat /\ events \in Nat /\ opened <= events /\ runnables \in Seq(1 .. opened)
      /\ events' \in 0 .. MaxEvents /\ opened' \in 0 .. events'
  BY <1>1, SpectrogramAssumption DEF PictureInv, ScreenInv
<1>3. LoadsTyped' /\ \A k \in Loads : LoadInv(k)'
  <2>1. ASSUME NEW k \in Loads, Loading(k)
        PROVE  /\ src[k] \notin vizThreads'
               /\ \A i \in 1 .. Len(runnables') : runnables'[i] # src[k]
               /\ src[k] = dataSource' \/ "closed" \in mishaps'
    BY <1>1, <1>2, <2>1, SourceIsOut
  <2>2. QED BY <1>1, <2>1, LoadsStay
<1>4. CacheTyped'
  BY <1>1 DEF PictureInv, CacheTyped
<1>5. /\ Len(runnables) \in Nat
      /\ \A i \in 1 .. Len(runnables) : runnables[i] \in 1 .. opened /\ runnables[i] # opened'
  BY <1>1, <1>2
<1>6. ScreenInv'
  <2>1. runnables' \in Seq(1 .. opened')
    <3>1. runnables \in [1 .. Len(runnables) -> 1 .. opened']
      BY <1>1, <1>2, <1>5
    <3>2. QED BY <1>1, <1>5, <3>1
  <2>2. vizThreads' \subseteq 1 .. opened' /\ dataSource \in 0 .. opened' /\ dataSource \notin vizThreads'
    BY <1>1, <1>2 DEF PictureInv, ScreenInv
  <2>3. \A i \in 1 .. Len(runnables) :
          /\ runnables[i] \notin vizThreads' /\ runnables[i] # dataSource
          /\ \A j \in 1 .. Len(runnables) : runnables[i] = runnables[j] => i = j
    BY <1>1, <1>5 DEF PictureInv, ScreenInv
  <2>4. QED BY <1>1, <1>2, <2>1, <2>2, <2>3 DEF EnterPlayback, PictureInv, ScreenInv
<1>7. WindowInv' /\ OneLoad' /\ DiesOnlyIfRaced'
  BY <1>1 DEF PictureInv, WindowInv, OneLoad, DiesOnlyIfRaced
<1>10. QED BY <1>3, <1>4, <1>6, <1>7 DEF PictureInv

\* The picture of a recording arrives, as the source of the window or as a waveform.
LEMMA RunPostedKeeps == ASSUME PictureInv, RunPosted PROVE PictureInv'
<1> DEFINE o == Head(runnables)
<1>1. /\ runnables # <<>> /\ runnables' = Tail(runnables)
      /\ UNCHANGED <<loader, offset, src, bmp, readers, flaws, cacheStartSample, crashed, events,
                     opened, shown, vizThreads, windowLoading, excuses>>
      /\ \/ SetDataSource(o) \/ SetFullWaveform(o)
  BY DEF RunPosted
<1>2. /\ runnables \in Seq(1 .. opened) /\ opened \in Nat
      /\ \A i \in 1 .. Len(runnables) :
           /\ runnables[i] \notin vizThreads /\ runnables[i] # dataSource
           /\ \A j \in 1 .. Len(runnables) : runnables[i] = runnables[j] => i = j
  BY DEF PictureInv, ScreenInv
<1>3. /\ Tail(runnables) \in Seq(1 .. opened) /\ o = runnables[1] /\ Len(runnables) \in Nat \ {0}
      /\ Len(Tail(runnables)) = Len(runnables) - 1
      /\ \A i \in 1 .. (Len(runnables) - 1) : Tail(runnables)[i] = runnables[i + 1]
  BY <1>1, <1>2
<1> HIDE DEF o
<1>4. /\ 1 \in 1 .. Len(runnables)
      /\ \A i \in 1 .. Len(Tail(runnables)) : i + 1 \in 1 .. Len(runnables) /\ i + 1 # 1
  BY <1>3
<1>5. o \in 1 .. opened /\ o \notin vizThreads
  BY <1>2, <1>3, <1>4
<1>6. \A i \in 1 .. Len(Tail(runnables)) :
        /\ Tail(runnables)[i] \notin vizThreads /\ Tail(runnables)[i] # dataSource
        /\ Tail(runnables)[i] # o
        /\ \A j \in 1 .. Len(Tail(runnables)) : Tail(runnables)[i] = Tail(runnables)[j] => i = j
  <2>1. ASSUME NEW i \in 1 .. Len(Tail(runnables))
        PROVE  /\ Tail(runnables)[i] = runnables[i + 1] /\ i + 1 \in 1 .. Len(runnables)
               /\ i \in Int
    BY <1>3
  <2>2. QED BY <1>2, <1>3, <1>4, <2>1
<1>7. ASSUME NEW k \in Loads, Loading(k)
      PROVE  /\ src[k] # o /\ src[k] \notin vizThreads' /\ src[k] # 0
             /\ \A i \in 1 .. Len(runnables') : runnables'[i] # src[k]
             /\ src[k] = dataSource \/ "closed" \in mishaps
  BY <1>1, <1>3, <1>4, <1>7, SourceIsOut
<1>8. CASE SetDataSource(o)
  <2>1. /\ Close(dataSource) /\ dataSource' = o /\ windowBitmap' = NoBitmap
        /\ Reading(dataSource) => "closed" \in mishaps'
        /\ mishaps \subseteq mishaps' /\ mishaps' \subseteq mishaps \cup {"closed", "overtaken"}
        /\ playbackMode' = TRUE /\ scrollOffset' \in Offsets
    BY <1>8 DEF SetDataSource
  <2>2. LoadsTyped' /\ \A k \in Loads : LoadInv(k)'
    <3>1. ASSUME NEW k \in Loads, Loading(k)
          PROVE  src[k] # dataSource' /\ "closed" \in mishaps'
      BY <1>7, <2>1, <3>1 DEF Reading
    <3>2. QED BY <1>1, <1>7, <3>1, LoadsStay
  <2>3. CacheTyped'
    BY <1>1, <2>1, ClosingKeepsTypes
  <2>4. ScreenInv'
    <3>1. dataSource' \in 0 .. opened /\ dataSource' # 0
      BY <1>5, <2>1
    <3>2. QED BY <1>1, <1>3, <1>5, <1>6, <2>1, <3>1 DEF PictureInv, ScreenInv
  <2>5. WindowInv' /\ OneLoad' /\ DiesOnlyIfRaced'
    BY <1>1, <2>1 DEF PictureInv, WindowInv, OneLoad, DiesOnlyIfRaced
  <2>8. QED BY <2>2, <2>3, <2>4, <2>5 DEF PictureInv
<1>9. CASE SetFullWaveform(o)
  <2>1. /\ UNCHANGED <<dataSource, windowBitmap, lastRenderedOffset, cacheData, playbackMode, scrollOffset>>
        /\ mishaps \subseteq mishaps' /\ mishaps' \subseteq mishaps \cup {"overtaken"}
    BY <1>9 DEF SetFullWaveform, Note
  <2>2. LoadsTyped' /\ \A k \in Loads : LoadInv(k)'
    <3>1. ASSUME NEW k \in Loads, Loading(k) PROVE src[k] = dataSource' \/ "closed" \in mishaps'
      BY <1>7, <2>1, <3>1
    <3>2. QED BY <1>1, <1>7, <2>1, <3>1, LoadsStay
  <2>3. CacheTyped'
    BY <1>1, <2>1 DEF PictureInv, CacheTyped
  <2>4. ScreenInv'
    BY <1>1, <1>3, <1>6, <2>1 DEF PictureInv, ScreenInv
  <2>5. WindowInv' /\ OneLoad' /\ DiesOnlyIfRaced'
    BY <1>1, <2>1 DEF PictureInv, WindowInv, OneLoad, DiesOnlyIfRaced
  <2>8. QED BY <2>2, <2>3, <2>4, <2>5 DEF PictureInv
<1>10. QED BY <1>1, <1>8, <1>9

LEMMA ScrollKeeps == ASSUME PictureInv, Scroll PROVE PictureInv'
<1>1. /\ events' = events + 1 /\ events < MaxEvents /\ scrollOffset' \in Offsets
      /\ UNCHANGED <<loader, offset, src, bmp, readers, flaws, cacheStartSample, cacheData, crashed,
                     dataSource, runnables, windowBitmap, lastRenderedOffset, excuses, mishaps,
                     opened, shown, vizThreads, playbackMode, windowLoading>>
  BY DEF Scroll, Event
<1>2. LoadsTyped' /\ \A k \in Loads : LoadInv(k)'
  BY <1>1, SourceIsOut, LoadsStay
<1>3. events' \in 0 .. MaxEvents /\ opened \in 0 .. events'
  BY <1>1, SpectrogramAssumption DEF PictureInv, ScreenInv
<1>4. ScreenInv'
  BY <1>1, <1>3 DEF PictureInv, ScreenInv
<1>5. CacheTyped' /\ WindowInv' /\ OneLoad' /\ DiesOnlyIfRaced'
  BY <1>1 DEF PictureInv, CacheTyped, WindowInv, OneLoad, DiesOnlyIfRaced
<1>6. QED BY <1>2, <1>4, <1>5 DEF PictureInv

\* A load is started, beside others or not.
LEMMA LoadStarts ==
    ASSUME PictureInv, LoadWindowAsync, dataSource # 0,
           windowLoading => "reloaded" \in mishaps', mishaps' \subseteq mishaps \cup {"reloaded"},
           mishaps \subseteq mishaps',
           UNCHANGED <<src, bmp, readers, flaws, cacheStartSample, cacheData, opened, vizThreads,
                       runnables, dataSource>>
    PROVE  LoadsTyped' /\ OneLoad' /\ windowLoading' = TRUE /\ \A k \in Loads : LoadInv(k)'
<1>1. PICK l \in Loads :
        /\ loader[l] = "none" /\ windowLoading' = TRUE
        /\ loader' = [loader EXCEPT ![l] = "snapshot"] /\ offset' = [offset EXCEPT ![l] = scrollOffset]
  BY DEF LoadWindowAsync
<1>2. scrollOffset \in Offsets
  BY DEF PictureInv, ScreenInv
<1>3. LoadsTyped'
  BY <1>1, <1>2 DEF PictureInv, LoadsTyped, Stages
<1>4. /\ loader'[l] = "snapshot" /\ offset'[l] = scrollOffset
      /\ \A k \in Loads : k # l => loader'[k] = loader[k] /\ offset'[k] = offset[k]
  BY <1>1 DEF PictureInv, LoadsTyped
<1>5. LoadInv(l)'
  <2>1. ~Loading(l) /\ ~Loading(l)'
    BY <1>1, <1>4 DEF Loading
  <2>2. src[l] = 0 /\ ReadersInv(l)
    BY <2>1 DEF PictureInv, LoadInv, LoaderInv
  <2>3. ReadersInv(l)'
    BY <1>1, <2>2 DEF ReadersInv
  <2>4. LoaderInv(l)'
    BY <1>2, <1>4, <2>1, <2>2 DEF LoaderInv
  <2>5. QED BY <2>1, <2>3, <2>4 DEF LoadInv, CacheInv, BitmapInv
<1>6. ASSUME NEW k \in Loads, k # l PROVE LoadInv(k)'
  <2>1. UNCHANGED <<loader[k], offset[k], src[k], bmp[k], readers[k], flaws[k]>>
    BY <1>4, <1>6
  <2>2. ReadersInv(k)' /\ CacheInv(k)' /\ BitmapInv(k)'
    BY <2>1, LoadStays
  <2>3. LoaderInv(k)'
    BY <2>1, SourceIsOut, LoaderStays
  <2>4. QED BY <2>2, <2>3 DEF LoadInv
<1>7. OneLoad'
  <2>1. SUFFICES ASSUME "reloaded" \notin mishaps' PROVE \A k \in Loads : loader[k] = "none"
    BY <1>1, <1>4 DEF OneLoad
  <2>2. QED BY <2>1 DEF PictureInv, OneLoad
<1>8. QED BY <1>1, <1>3, <1>5, <1>6, <1>7

LEMMA DrawKeeps == ASSUME PictureInv, Draw PROVE PictureInv'
<1>1. /\ UNCHANGED <<src, bmp, readers, flaws, cacheStartSample, cacheData, crashed, events, scrollOffset,
                     dataSource, runnables, windowBitmap, lastRenderedOffset, excuses, mishaps,
                     opened, shown, vizThreads, playbackMode>>
      /\ \/ UNCHANGED <<windowLoading, loader, offset>>
         \/ ~windowLoading /\ dataSource # 0 /\ LoadWindowAsync
  BY DEF Draw, OutOfDate
<1>2. CacheTyped' /\ WindowInv' /\ DiesOnlyIfRaced'
  BY <1>1 DEF PictureInv, CacheTyped, WindowInv, DiesOnlyIfRaced
<1>3. CASE UNCHANGED <<windowLoading, loader, offset>>
  <2>1. LoadsTyped' /\ \A k \in Loads : LoadInv(k)'
    BY <1>1, <1>3, SourceIsOut, LoadsStay
  <2>2. OneLoad' /\ ScreenInv'
    BY <1>1, <1>3 DEF PictureInv, OneLoad, ScreenInv
  <2>3. QED BY <1>2, <2>1, <2>2 DEF PictureInv
<1>4. CASE ~windowLoading /\ dataSource # 0 /\ LoadWindowAsync
  <2>1. LoadsTyped' /\ OneLoad' /\ windowLoading' = TRUE /\ \A k \in Loads : LoadInv(k)'
    BY <1>1, <1>4, LoadStarts
  <2>2. ScreenInv'
    BY <1>1, <2>1 DEF PictureInv, ScreenInv
  <2>3. QED BY <1>2, <2>1, <2>2 DEF PictureInv
<1>5. QED BY <1>1, <1>3, <1>4

\* A new range: the load that goes on is forgotten, and another may be started.
LEMMA SetDbRangeKeeps == ASSUME PictureInv, SetDbRange PROVE PictureInv'
<1>1. /\ UNCHANGED <<src, bmp, readers, flaws, cacheStartSample, cacheData, crashed, scrollOffset,
                     dataSource, runnables, windowBitmap, lastRenderedOffset, excuses,
                     opened, shown, vizThreads, playbackMode>>
      /\ events' = events + 1 /\ events < MaxEvents
      /\ mishaps \subseteq mishaps' /\ mishaps' \subseteq mishaps \cup {"reloaded"}
      /\ \/ UNCHANGED <<windowLoading, loader, offset, mishaps>>
         \/ /\ windowLoading => "reloaded" \in mishaps'
            /\ \/ dataSource # 0 /\ LoadWindowAsync
               \/ windowLoading' = FALSE /\ UNCHANGED <<loader, offset>>
  BY DEF SetDbRange, OutOfDate, Event, Note
<1>2. CacheTyped' /\ WindowInv' /\ DiesOnlyIfRaced'
  BY <1>1 DEF PictureInv, CacheTyped, WindowInv, DiesOnlyIfRaced
<1>3. events' \in 0 .. MaxEvents /\ opened \in 0 .. events'
  BY <1>1, SpectrogramAssumption DEF PictureInv, ScreenInv
<1>4. ASSUME windowLoading' \in BOOLEAN PROVE ScreenInv'
  BY <1>1, <1>3, <1>4 DEF PictureInv, ScreenInv
<1>5. CASE UNCHANGED <<loader, offset>>
  <2>1. LoadsTyped' /\ \A k \in Loads : LoadInv(k)'
    BY <1>1, <1>5, SourceIsOut, LoadsStay
  <2>2. windowLoading' \in BOOLEAN /\ OneLoad'
    <3>1. windowLoading \in BOOLEAN /\ OneLoad
      BY DEF PictureInv, ScreenInv
    <3>2. CASE UNCHANGED <<windowLoading, mishaps>>
      BY <1>5, <3>1, <3>2 DEF OneLoad
    <3>3. CASE (windowLoading => "reloaded" \in mishaps') /\ windowLoading' = FALSE
      BY <1>1, <1>5, <3>1, <3>3 DEF OneLoad
    <3>4. CASE (windowLoading => "reloaded" \in mishaps') /\ dataSource # 0 /\ LoadWindowAsync
      BY <1>1, <3>4, LoadStarts
    <3>5. QED BY <1>1, <3>2, <3>3, <3>4
  <2>3. QED BY <1>2, <1>4, <2>1, <2>2 DEF PictureInv
<1>6. CASE (windowLoading => "reloaded" \in mishaps') /\ dataSource # 0 /\ LoadWindowAsync
  <2>1. LoadsTyped' /\ OneLoad' /\ windowLoading' = TRUE /\ \A k \in Loads : LoadInv(k)'
    BY <1>1, <1>6, LoadStarts
  <2>2. QED BY <1>2, <1>4, <2>1 DEF PictureInv
<1>7. QED BY <1>1, <1>5, <1>6

LEMMA LoadVisualizationKeeps == ASSUME PictureInv, LoadVisualization PROVE PictureInv'
<1>1. PICK o \in vizThreads : vizThreads' = vizThreads \ {o} /\ runnables' = Append(runnables, o)
  BY DEF LoadVisualization
<1>2. UNCHANGED <<loader, offset, src, bmp, readers, flaws, cacheStartSample, cacheData, crashed,
                  dataSource, windowBitmap, lastRenderedOffset, excuses, mishaps, scrollOffset,
                  opened, shown, playbackMode, windowLoading, events>>
  BY DEF LoadVisualization
<1>4. CacheTyped' /\ WindowInv' /\ OneLoad' /\ DiesOnlyIfRaced'
  BY <1>2 DEF PictureInv, CacheTyped, WindowInv, OneLoad, DiesOnlyIfRaced
<1>5. /\ runnables \in Seq(1 .. opened) /\ o \in 1 .. opened /\ o # dataSource
      /\ \A i \in 1 .. Len(runnables) :
           /\ runnables[i] \notin vizThreads /\ runnables[i] # dataSource
           /\ \A j \in 1 .. Len(runnables) : runnables[i] = runnables[j] => i = j
  BY DEF PictureInv, ScreenInv
<1>6. /\ runnables' \in Seq(1 .. opened) /\ Len(runnables') = Len(runnables) + 1
      /\ Len(runnables) \in Nat /\ runnables'[Len(runnables) + 1] = o
      /\ \A i \in 1 .. Len(runnables) : runnables'[i] = runnables[i]
  BY <1>1, <1>5
<1>7. \A i \in 1 .. Len(runnables') : i \in 1 .. Len(runnables) \/ i = Len(runnables) + 1
  BY <1>6
<1>8. ScreenInv'
  <2>1. \A i \in 1 .. Len(runnables') :
          /\ runnables'[i] \notin vizThreads' /\ runnables'[i] # dataSource
          /\ \A j \in 1 .. Len(runnables') : runnables'[i] = runnables'[j] => i = j
    BY <1>1, <1>5, <1>6, <1>7
  <2>2. vizThreads' \subseteq vizThreads
    BY <1>1
  <2>3. QED BY <1>2, <1>6, <2>1, <2>2 DEF PictureInv, ScreenInv
<1>9. LoadsTyped' /\ \A k \in Loads : LoadInv(k)'
  <2>1. ASSUME NEW k \in Loads, Loading(k)
        PROVE  /\ src[k] \notin vizThreads'
               /\ src[k] = dataSource' \/ "closed" \in mishaps'
               /\ \A i \in 1 .. Len(runnables') : runnables'[i] # src[k]
    BY <1>1, <1>2, <1>6, <1>7, <2>1, SourceIsOut
  <2>2. QED BY <1>2, <2>1, LoadsStay
<1>10. QED BY <1>4, <1>8, <1>9 DEF PictureInv


--------------------------------------------------------------------------------
(***************************************************************************)
(* The loader                                                              *)
(***************************************************************************)

\* The workers share out the columns: none is left out.
LEMMA ColumnsShared ==
    /\ ColsPerThread \in Nat \ {0} /\ Workers \subseteq Nat \ {0}
    /\ \A c \in Columns : \E x \in Workers : FirstCol(x) <= c /\ c < EndCol(x)
<1>1. PICK n \in 1 .. 4 : Workers = 1 .. n
  BY WorkersAssumption
<1>2. (CHOOSE m \in Workers : \A w \in Workers : w <= m) = n
  BY <1>1
<1>3. ColsPerThread = (Width + n - 1) \div n
  BY <1>2 DEF ColsPerThread
<1>4. Width \in Nat \ {0}
  BY SpectrogramAssumption
<1>5. /\ ColsPerThread \in Nat \ {0}
      /\ n = 1 => ColsPerThread >= Width
      /\ n = 2 => 2 * ColsPerThread >= Width
      /\ n = 3 => 3 * ColsPerThread >= Width
      /\ n = 4 => 4 * ColsPerThread >= Width
  <2>1. CASE n = 1
    BY <1>3, <1>4, <2>1
  <2>2. CASE n = 2
    BY <1>3, <1>4, <2>2
  <2>3. CASE n = 3
    BY <1>3, <1>4, <2>3
  <2>4. CASE n = 4
    BY <1>3, <1>4, <2>4
  <2>5. QED BY <1>1, <2>1, <2>2, <2>3, <2>4
<1>6. ASSUME NEW c \in Columns
      PROVE  \E x \in Workers : FirstCol(x) <= c /\ c < EndCol(x)
  <2> DEFINE k == ColsPerThread
  <2>1. c \in Nat /\ c < Width /\ k \in Nat \ {0}
    BY <1>4, <1>5 DEF Columns
  <2>2. \A x \in Workers : FirstCol(x) = (x - 1) * k /\ EndCol(x) = IF x * k < Width THEN x * k ELSE Width
    BY DEF FirstCol, EndCol, Smaller
  <2>3. /\ FirstCol(1) = 0 /\ 1 \in Workers
        /\ EndCol(1) = IF k < Width THEN k ELSE Width
    BY <1>1, <2>1, <2>2
  <2>4. 2 \in Workers => FirstCol(2) = k /\ EndCol(2) = IF 2 * k < Width THEN 2 * k ELSE Width
    BY <2>1, <2>2
  <2>5. 3 \in Workers => FirstCol(3) = 2 * k /\ EndCol(3) = IF 3 * k < Width THEN 3 * k ELSE Width
    BY <2>1, <2>2
  <2>6. 4 \in Workers => FirstCol(4) = 3 * k /\ EndCol(4) = IF 4 * k < Width THEN 4 * k ELSE Width
    BY <2>1, <2>2
  <2>7. /\ n >= 2 <=> 2 \in Workers
        /\ n >= 3 <=> 3 \in Workers
        /\ n >= 4 <=> 4 \in Workers
    BY <1>1
  <2> HIDE DEF k
  <2>8. /\ n = 1 => k >= Width
        /\ n = 2 => 2 * k >= Width
        /\ n = 3 => 3 * k >= Width
        /\ n = 4 => 4 * k >= Width
    BY <1>5 DEF k
  <2>9. CASE c < k
    BY <1>4, <2>1, <2>3, <2>9
  <2>10. CASE k <= c /\ c < 2 * k
    <3>1. 2 \in Workers
      BY <1>1, <1>4, <2>1, <2>7, <2>8, <2>10
    <3>2. QED BY <1>4, <2>1, <2>4, <2>10, <3>1
  <2>11. CASE 2 * k <= c /\ c < 3 * k
    <3>1. 3 \in Workers
      BY <1>1, <1>4, <2>1, <2>7, <2>8, <2>11
    <3>2. QED BY <1>4, <2>1, <2>5, <2>11, <3>1
  <2>12. CASE 3 * k <= c
    <3>1. 4 \in Workers /\ c < 4 * k
      BY <1>1, <1>4, <2>1, <2>7, <2>8, <2>12
    <3>2. QED BY <1>4, <2>1, <2>6, <2>12, <3>1
  <2>13. QED BY <2>1, <2>9, <2>10, <2>11, <2>12
<1>7. QED BY <1>1, <1>5, <1>6

\* What holds of one load.
LEMMA OfLoad ==
    ASSUME PictureInv, NEW l \in Loads
    PROVE  /\ LoaderInv(l) /\ ReadersInv(l) /\ CacheInv(l) /\ BitmapInv(l)
           /\ loader[l] \in Stages /\ offset[l] \in Offsets \cup {0} /\ src[l] \in Nat
           /\ bmp[l] \in Bitmap \cup {NoBitmap} /\ readers[l] \in [Readers -> Reader]
           /\ flaws[l] \subseteq {"torn", "failed"}
  BY DEF PictureInv, LoadInv, LoadsTyped

\* The loads beside the one that takes a step.
LEMMA OthersStay ==
    ASSUME PictureInv, NEW k \in Loads,
           UNCHANGED <<loader[k], offset[k], src[k], bmp[k], readers[k]>>,
           UNCHANGED <<opened, vizThreads, runnables, dataSource, mishaps>>,
           \/ Loading(k) => "torn" \in flaws'[k]
           \/ UNCHANGED <<flaws[k], cacheStartSample[src[k]], cacheData[src[k]]>>
    PROVE  LoadInv(k)'
<1>1. ReadersInv(k)' /\ CacheInv(k)' /\ BitmapInv(k)'
  BY LoadStays
<1>2. opened' \in {opened, opened + 1}
  OBVIOUS
<1>3. LoaderInv(k)'
  BY <1>2, SourceIsOut, LoaderStays
<1>4. QED BY <1>1, <1>3 DEF LoadInv

LEMMA LoadSnapshotKeeps ==
    ASSUME PictureInv, ~crashed, NEW l \in Loads, LoadSnapshot(l) PROVE PictureInv'
<1>1. /\ loader[l] = "snapshot" /\ src' = [src EXCEPT ![l] = dataSource]
      /\ UNCHANGED <<cacheStartSample, cacheData, crashed, events, scrollOffset, windowLoading,
                     dataSource, runnables, windowBitmap, lastRenderedOffset, excuses, mishaps,
                     opened, shown, vizThreads, playbackMode>>
      /\ \/ /\ dataSource = 0 /\ loader' = [loader EXCEPT ![l] = "loaded"]
            /\ offset' = [offset EXCEPT ![l] = 0] /\ UNCHANGED <<bmp, readers, flaws>>
         \/ /\ dataSource # 0 /\ loader' = [loader EXCEPT ![l] = "warm"] /\ offset' = offset
            /\ flaws' = [flaws EXCEPT ![l] = IF Mixed(dataSource) THEN {"torn"} ELSE {}]
            /\ bmp' = [bmp EXCEPT ![l] = [c \in Columns |-> Black]]
            /\ readers' = [readers EXCEPT ![l][0] = [at |-> "test", col |-> 0, rel |-> 0, n |-> 0]]
  BY DEF LoadSnapshot
<1>2. ~Loading(l) /\ \A x \in Readers : readers[l][x].at = "done"
  BY <1>1, OfLoad DEF ReadersInv, Loading, Readers
<1>3. CacheTyped' /\ WindowInv' /\ ScreenInv' /\ DiesOnlyIfRaced'
  BY <1>1 DEF PictureInv, CacheTyped, WindowInv, ScreenInv, DiesOnlyIfRaced
<1>4. dataSource \in Nat
  BY DEF PictureInv, ScreenInv
<1>5. CASE dataSource = 0
  <2>1. /\ loader' = [loader EXCEPT ![l] = "loaded"] /\ offset' = [offset EXCEPT ![l] = 0]
        /\ UNCHANGED <<bmp, readers, flaws>>
    BY <1>1, <1>5
  <2>2. LoadsTyped'
    BY <1>1, <1>4, <2>1 DEF PictureInv, LoadsTyped, Stages
  <2>3. /\ loader'[l] = "loaded" /\ src'[l] = 0
        /\ \A k \in Loads : k # l => UNCHANGED <<loader[k], offset[k], src[k]>>
    BY <1>1, <1>5, <2>1 DEF PictureInv, LoadsTyped
  <2>4. LoadInv(l)'
    BY <1>2, <2>1, <2>3 DEF LoadInv, LoaderInv, ReadersInv, CacheInv, BitmapInv, Loading, Readers
  <2>5. ASSUME NEW k \in Loads, k # l PROVE LoadInv(k)'
    <3>1. UNCHANGED <<flaws[k], cacheStartSample[src[k]], cacheData[src[k]]>>
      BY <1>1, <2>1, <2>3, <2>5
    <3>2. QED BY <1>1, <2>1, <2>3, <2>5, <3>1, OthersStay
  <2>6. OneLoad'
    BY <1>1, <2>3 DEF PictureInv, OneLoad
  <2>7. QED BY <1>3, <2>2, <2>4, <2>5, <2>6 DEF PictureInv
<1>6. CASE dataSource # 0
  <2> DEFINE first == [at |-> "test", col |-> 0, rel |-> 0, n |-> 0]
             torn == IF Mixed(dataSource) THEN {"torn"} ELSE {}
             blank == [c \in Columns |-> Black]
  <2>1. /\ loader' = [loader EXCEPT ![l] = "warm"] /\ offset' = offset
        /\ flaws' = [flaws EXCEPT ![l] = torn] /\ bmp' = [bmp EXCEPT ![l] = blank]
        /\ readers' = [readers EXCEPT ![l] = [readers[l] EXCEPT ![0] = first]]
    BY <1>1, <1>6
  <2>2. /\ first \in Reader /\ first.at = "test" /\ torn \subseteq {"torn", "failed"}
        /\ blank \in Bitmap /\ \A c \in Columns : blank[c] = Black
    BY DEF Places, Reader, Bitmap, Black
  <2>3. Mixed(dataSource) => "torn" \in torn
    OBVIOUS
  <2> HIDE DEF first, torn, blank
  <2>4. LoadsTyped'
    <3>1. 0 \in Readers
      BY DEF Readers
    <3>2. [readers[l] EXCEPT ![0] = first] \in [Readers -> Reader]
      BY <2>2, <3>1, OfLoad
    <3>3. QED BY <1>1, <1>4, <2>1, <2>2, <3>2 DEF PictureInv, LoadsTyped, Stages
  <2>5. /\ loader'[l] = "warm" /\ src'[l] = dataSource /\ offset'[l] = offset[l]
        /\ flaws'[l] = torn /\ bmp'[l] = blank /\ readers'[l] = [readers[l] EXCEPT ![0] = first]
        /\ \A k \in Loads : k # l =>
             UNCHANGED <<loader[k], offset[k], src[k], bmp[k], readers[k], flaws[k]>>
    BY <1>1, <2>1 DEF PictureInv, LoadsTyped
  <2>6. \A x \in Readers : readers'[l][x].at = IF x = 0 THEN "test" ELSE "done"
    BY <1>2, <2>2, <2>5, OfLoad
  <2>7. ReadersInv(l)'
    <3>1. Workers \subseteq Readers /\ 0 \notin Workers /\ 0 \in Readers
      BY ColumnsShared DEF Readers
    <3>2. QED BY <2>5, <2>6, <3>1 DEF ReadersInv
  <2>8. LoaderInv(l)'
    <3>1. dataSource \in 1 .. opened /\ dataSource \notin vizThreads
      BY <1>6 DEF PictureInv, ScreenInv
    <3>2. \A i \in 1 .. Len(runnables) : runnables[i] # dataSource
      BY DEF PictureInv, ScreenInv
    <3>3. offset[l] \in Offsets
      BY <1>1, OfLoad DEF LoaderInv
    <3>4. QED BY <1>1, <2>2, <2>5, <3>1, <3>2, <3>3 DEF LoaderInv, Loading
  <2>9. CacheInv(l)'
    <3>1. Sound(l)' => ~Mixed(src[l])'
      BY <1>1, <2>3, <2>5 DEF Sound, Mixed
    <3>2. QED BY <2>6, <3>1 DEF CacheInv, CacheAgrees, OnItsWay
  <2>10. BitmapInv(l)'
    BY <2>2, <2>5 DEF BitmapInv, Drawn
  <2>11. ASSUME NEW k \in Loads, k # l PROVE LoadInv(k)'
    <3>1. UNCHANGED <<flaws[k], cacheStartSample[src[k]], cacheData[src[k]]>>
      BY <1>1, <2>5, <2>11
    <3>2. QED BY <1>1, <2>5, <2>11, <3>1, OthersStay
  <2>12. OneLoad'
    BY <1>1, <2>5 DEF PictureInv, OneLoad
  <2>13. LoadInv(l)'
    BY <2>7, <2>8, <2>9, <2>10 DEF LoadInv
  <2>14. QED BY <1>3, <2>4, <2>11, <2>12, <2>13 DEF PictureInv
<1>7. QED BY <1>5, <1>6

LEMMA StartWorkersKeeps == ASSUME PictureInv, NEW l \in Loads, StartWorkers(l) PROVE PictureInv'
<1> DEFINE first(x) == [at |-> "test", col |-> (x - 1) * ColsPerThread, rel |-> 0, n |-> 0]
           started == [x \in Readers |->
                         IF x = 0 \/ (x - 1) * ColsPerThread >= EndCol(x) THEN Idle ELSE first(x)]
<1>1. /\ loader[l] = "warm" /\ readers[l][0].at = "done" /\ loader' = [loader EXCEPT ![l] = "await"]
      /\ readers' = [readers EXCEPT ![l] = started]
      /\ UNCHANGED <<cacheStartSample, cacheData, crashed, events, scrollOffset, windowLoading,
                     dataSource, runnables, windowBitmap, lastRenderedOffset, excuses, mishaps,
                     opened, shown, vizThreads, playbackMode, offset, src, bmp, flaws>>
  BY DEF StartWorkers, Readers
<1>2. \A x \in Readers : readers[l][x].at = "done"
  BY <1>1, OfLoad DEF ReadersInv, Readers
<1>3. CacheTyped' /\ WindowInv' /\ DiesOnlyIfRaced' /\ ScreenInv'
  BY <1>1 DEF PictureInv, CacheTyped, WindowInv, DiesOnlyIfRaced, ScreenInv
<1>4. \A x \in Workers : (x - 1) * ColsPerThread \in Nat /\ EndCol(x) \in Nat /\ x # 0
  <2>1. ASSUME NEW x \in Workers, NEW k \in Nat PROVE (x - 1) * k \in Nat /\ x * k \in Nat
    BY ColumnsShared
  <2>2. QED BY <2>1, ColumnsShared, SpectrogramAssumption DEF EndCol, Smaller
<1>5. /\ Idle \in Reader /\ Idle.at = "done"
      /\ \A x \in Workers : /\ first(x) \in Reader
                            /\ first(x).at = "test" /\ first(x).col = FirstCol(x)
  BY <1>4 DEF Idle, Places, FirstCol, Reader
<1> HIDE DEF first
<1>6. /\ started[0] = Idle
      /\ \A x \in Workers : \/ started[x] = Idle /\ FirstCol(x) >= EndCol(x)
                            \/ started[x] = first(x) /\ ~(FirstCol(x) >= EndCol(x))
  BY <1>1, <1>4 DEF Readers, FirstCol
<1>7. started \in [Readers -> Reader]
  <2>1. \A x \in Readers : started[x] \in Reader
    BY <1>5, <1>6 DEF Readers
  <2>2. QED BY <2>1
<1> HIDE DEF started
<1>8. /\ loader'[l] = "await" /\ readers'[l] = started
      /\ \A k \in Loads : k # l => UNCHANGED <<loader[k], readers[k]>>
  BY <1>1 DEF PictureInv, LoadsTyped
<1>9. LoadsTyped'
  BY <1>1, <1>7 DEF PictureInv, LoadsTyped, Stages
<1>10. ReadersInv(l)'
  <2>1. \A x \in Workers : FirstCol(x) \in Nat /\ EndCol(x) \in Nat
    BY <1>4 DEF FirstCol
  <2>2. \A x \in Workers : started[x].at # "done" =>
           FirstCol(x) <= started[x].col /\ started[x].col < EndCol(x)
    BY <1>5, <1>6, <2>1
  <2>3. QED BY <1>5, <1>6, <1>8, <2>2 DEF ReadersInv, FirstCol, EndCol
<1>11. \A x \in Readers : started[x].at \in {"done", "test"}
  BY <1>5, <1>6 DEF Readers
<1>12. LoaderInv(l)'
  BY <1>1, <1>8, OfLoad DEF LoaderInv, Loading
<1>13. CacheInv(l)'
  <2>1. SUFFICES ASSUME Sound(l) PROVE CacheAgrees(l)' /\ \A x \in Readers : OnItsWay(l, x)'
    BY <1>1 DEF CacheInv, Sound
  <2>2. CacheAgrees(l)
    BY <1>1, <2>1, OfLoad DEF CacheInv, Loading
  <2>3. ~Mixed(src[l])'
    BY <1>1, <1>2, <2>2 DEF CacheAgrees, Mixed
  <2>4. QED BY <1>8, <1>11, <2>3 DEF CacheAgrees, OnItsWay
<1>14. BitmapInv(l)'
  <2>1. SUFFICES ASSUME Sound(l) PROVE Drawn(l)'
    BY <1>1 DEF BitmapInv, Sound
  <2>2. Drawn(l)
    BY <1>1, <2>1, OfLoad DEF BitmapInv, Loading
  <2>3. ASSUME NEW x \in Workers, NEW c \in Columns PROVE ~Behind(l, x, c)'
    <3>1. FirstCol(x) \in Nat /\ EndCol(x) \in Nat /\ c \in Int
      BY <1>4 DEF FirstCol, Columns
    <3>2. Behind(l, x, c)' <=> /\ FirstCol(x) <= c /\ c < EndCol(x)
                               /\ started[x].at = "done" \/ c < started[x].col
      BY <1>8 DEF Behind, FirstCol, EndCol
    <3>3. QED BY <1>5, <1>6, <3>1, <3>2
  <2>4. QED BY <1>1, <2>2, <2>3 DEF Drawn
<1>15. ASSUME NEW k \in Loads, k # l PROVE LoadInv(k)'
  <2>1. UNCHANGED <<flaws[k], cacheStartSample[src[k]], cacheData[src[k]]>>
    BY <1>1
  <2>2. QED BY <1>1, <1>8, <1>15, <2>1, OthersStay
<1>16. OneLoad'
  BY <1>1, <1>8 DEF PictureInv, OneLoad
<1>17. LoadInv(l)'
  BY <1>10, <1>12, <1>13, <1>14 DEF LoadInv
<1>18. QED BY <1>3, <1>9, <1>15, <1>16, <1>17 DEF PictureInv

\* The columns of all the workers are the window.
LEMMA PublishKeeps == ASSUME PictureInv, ~crashed, NEW l \in Loads, Publish(l) PROVE PictureInv'
<1>1. /\ loader[l] = "await" /\ \A x \in Workers : readers[l][x].at = "done"
      /\ loader' = [loader EXCEPT ![l] = "loaded"]
      /\ windowBitmap' = bmp[l] /\ lastRenderedOffset' = offset[l]
      /\ excuses' = flaws[l] \cup (IF src[l] # dataSource THEN {"late"} ELSE {})
      /\ src' = [src EXCEPT ![l] = 0] /\ offset' = [offset EXCEPT ![l] = 0]
      /\ bmp' = [bmp EXCEPT ![l] = NoBitmap] /\ flaws' = [flaws EXCEPT ![l] = {}]
      /\ UNCHANGED <<cacheStartSample, cacheData, crashed, events, scrollOffset, windowLoading,
                     dataSource, runnables, mishaps, readers,
                     opened, shown, vizThreads, playbackMode>>
  BY DEF Publish
<1>2. Loading(l) /\ readers[l][0].at = "done"
  BY <1>1, OfLoad DEF ReadersInv, Loading
<1>3. /\ loader'[l] = "loaded" /\ src'[l] = 0
      /\ \A k \in Loads : k # l => UNCHANGED <<loader[k], offset[k], src[k], bmp[k], flaws[k]>>
  BY <1>1 DEF PictureInv, LoadsTyped
<1>4. CacheTyped' /\ DiesOnlyIfRaced'
  BY <1>1 DEF PictureInv, CacheTyped, DiesOnlyIfRaced
<1>5. ScreenInv'
  <2>1. excuses' \subseteq {"late", "torn", "failed"}
    BY <1>1, OfLoad
  <2>2. QED BY <1>1, <2>1 DEF PictureInv, ScreenInv
<1>6. LoadsTyped'
  BY <1>1 DEF PictureInv, LoadsTyped, Stages
<1>7. LoadInv(l)'
  BY <1>1, <1>2, <1>3 DEF LoadInv, LoaderInv, ReadersInv, CacheInv, BitmapInv, Loading
<1>8. WindowInv'
  <2>1. SUFFICES ASSUME excuses' \subseteq {"failed"}, NEW c \in Columns
                 PROVE  \/ Good(bmp[l][c], flaws[l], src[l], offset[l] + c)
                        \/ flaws[l] # {} /\ bmp[l][c] = Black
    BY <1>1 DEF WindowInv
  <2>2. Sound(l)
    BY <1>1, <2>1 DEF Sound
  <2>3. Drawn(l)
    BY <1>2, <2>2, OfLoad DEF BitmapInv
  <2>4. PICK x \in Workers : FirstCol(x) <= c /\ c < EndCol(x)
    BY ColumnsShared
  <2>5. Behind(l, x, c)
    BY <1>1, <2>4 DEF Behind
  <2>6. QED BY <1>1, <2>3, <2>5 DEF Drawn
<1>9. ASSUME NEW k \in Loads, k # l PROVE LoadInv(k)'
  <2>1. UNCHANGED <<flaws[k], cacheStartSample[src[k]], cacheData[src[k]]>>
    BY <1>1, <1>3, <1>9
  <2>2. QED BY <1>1, <1>3, <1>9, <2>1, OthersStay
<1>10. OneLoad'
  BY <1>1, <1>3 DEF PictureInv, OneLoad
<1>11. QED BY <1>4, <1>5, <1>6, <1>7, <1>8, <1>9, <1>10 DEF PictureInv

LEMMA LoadEndsKeeps == ASSUME PictureInv, NEW l \in Loads, LoadEnds(l) PROVE PictureInv'
<1>1. /\ UNCHANGED <<cacheStartSample, cacheData, crashed, events, scrollOffset, bmp, src, offset, flaws,
                     dataSource, runnables, windowBitmap, lastRenderedOffset, excuses, mishaps, readers,
                     opened, shown, vizThreads, playbackMode>>
      /\ loader[l] = "loaded" /\ loader' = [loader EXCEPT ![l] = "none"] /\ windowLoading' = FALSE
  BY DEF LoadEnds
<1>2. CacheTyped' /\ WindowInv' /\ DiesOnlyIfRaced' /\ ScreenInv'
  BY <1>1 DEF PictureInv, CacheTyped, WindowInv, DiesOnlyIfRaced, ScreenInv
<1>3. loader'[l] = "none" /\ \A k \in Loads : k # l => UNCHANGED loader[k]
  BY <1>1 DEF PictureInv, LoadsTyped
<1>4. LoadsTyped'
  BY <1>1 DEF PictureInv, LoadsTyped, Stages
<1>5. LoadInv(l)'
  BY <1>1, <1>3, OfLoad DEF LoadInv, LoaderInv, ReadersInv, CacheInv, BitmapInv, Loading
<1>6. ASSUME NEW k \in Loads, k # l PROVE LoadInv(k)'
  <2>1. UNCHANGED <<flaws[k], cacheStartSample[src[k]], cacheData[src[k]]>>
    BY <1>1
  <2>2. QED BY <1>1, <1>3, <1>6, <2>1, OthersStay
<1>7. OneLoad'
  <2>1. SUFFICES ASSUME "reloaded" \notin mishaps PROVE \A k \in Loads : loader'[k] = "none"
    BY <1>1 DEF OneLoad
  <2>2. \A k \in Loads : k # l => loader[k] = "none"
    BY <1>1, <2>1 DEF PictureInv, OneLoad
  <2>3. QED BY <1>3, <2>2
<1>8. QED BY <1>2, <1>4, <1>5, <1>6, <1>7 DEF PictureInv

LEMMA PostInvalidateKeeps == ASSUME PictureInv, PostInvalidate PROVE PictureInv'
<1>1. UNCHANGED <<loader, offset, src, bmp, readers, flaws, cacheStartSample, cacheData, crashed,
                  events, dataSource, runnables, windowBitmap, lastRenderedOffset, excuses, mishaps,
                  opened, shown, vizThreads, playbackMode, windowLoading, scrollOffset>>
  BY DEF PostInvalidate
<1>2. LoadsTyped' /\ \A k \in Loads : LoadInv(k)'
  BY <1>1, SourceIsOut, LoadsStay
<1>3. ScreenInv' /\ CacheTyped' /\ WindowInv' /\ OneLoad' /\ DiesOnlyIfRaced'
  BY <1>1 DEF PictureInv, ScreenInv, CacheTyped, WindowInv, OneLoad, DiesOnlyIfRaced
<1>4. QED BY <1>2, <1>3 DEF PictureInv

--------------------------------------------------------------------------------
(***************************************************************************)
(* The readers                                                             *)
(***************************************************************************)

\* What is asked for lies in the recording.
LEMMA AskedIsThere ==
    ASSUME PictureInv, NEW l \in Loads, Loading(l), NEW x \in Readers, readers[l][x].at # "done"
    PROVE  /\ SampleOffset(l, x) \in Nat /\ SampleOffset(l, x) < TotalSamples
           /\ Full(SampleOffset(l, x)) \in Nat \ {0}
           /\ WindowStart(l, x) \in Nat /\ WindowStart(l, x) <= SampleOffset(l, x)
           /\ SampleOffset(l, x) - WindowStart(l, x) <= OUTPUT_SAMPLE_RATE
           /\ x # 0 => readers[l][x].col \in Columns /\ SampleOffset(l, x) = offset[l] + readers[l][x].col
<1>1. offset[l] \in Offsets /\ offset[l] \in Nat /\ offset[l] + Width <= TotalSamples /\ TotalSamples \in Nat
  <2>1. offset[l] \in Offsets
    BY OfLoad DEF LoaderInv, Loading
  <2>2. ASSUME NEW o \in Offsets
        PROVE  o \in Nat /\ o + Width <= TotalSamples /\ TotalSamples \in Nat
    BY SpectrogramAssumption
  <2>3. QED BY <2>1, <2>2
<1>2. /\ x = 0 => SampleOffset(l, x) = offset[l]
      /\ x # 0 => SampleOffset(l, x) = offset[l] + readers[l][x].col
  BY DEF SampleOffset
<1>3. x # 0 => readers[l][x].col \in Columns
  <2>1. SUFFICES ASSUME x \in Workers PROVE readers[l][x].col \in Columns
    BY DEF Readers
  <2>2. readers[l][x].col \in Nat /\ readers[l][x].col < EndCol(x)
    <3>1. ReadersInv(l) /\ readers[l] \in [Readers -> Reader]
      BY OfLoad
    <3>2. QED BY <2>1, <3>1 DEF ReadersInv, Readers, Reader
  <2>3. EndCol(x) \in Int /\ EndCol(x) <= Width
    <3>1. ASSUME NEW k \in Nat PROVE x * k \in Int
      BY <2>1, ColumnsShared
    <3>2. QED BY <3>1, ColumnsShared, SpectrogramAssumption DEF EndCol, Smaller
  <2>4. QED BY <2>2, <2>3, SpectrogramAssumption DEF Columns
<1>4. SampleOffset(l, x) \in Nat /\ SampleOffset(l, x) < TotalSamples
  BY <1>1, <1>2, <1>3, SpectrogramAssumption DEF Columns
<1>5. Full(SampleOffset(l, x)) \in Nat \ {0}
  BY <1>1, <1>4, SpectrogramAssumption DEF Full, Smaller
<1>6. WindowStart(l, x) \in Nat /\ WindowStart(l, x) <= SampleOffset(l, x)
      /\ SampleOffset(l, x) - WindowStart(l, x) <= OUTPUT_SAMPLE_RATE
  BY <1>4, SpectrogramAssumption DEF WindowStart
<1>7. QED BY <1>2, <1>3, <1>4, <1>5, <1>6

\* What an access of a reader has to keep of its own load, and of the cache.
OwnInv(l) ==
    /\ ReadersInv(l) /\ CacheInv(l) /\ BitmapInv(l)
    /\ readers[l] \in [Readers -> Reader] /\ bmp[l] \in Bitmap /\ CacheTyped

\* A reader that has gone to another place, with the rest of its variables typed.
LEMMA GoneKeepsReaders ==
    ASSUME PictureInv, NEW l \in Loads, NEW x \in Readers, readers[l][x].at # "done",
           loader'[l] = loader[l],
           NEW r \in Reader, readers'[l] = [readers[l] EXCEPT ![x] = r],
           r.at # "done" /\ x # 0 => FirstCol(x) <= r.col /\ r.col < EndCol(x)
    PROVE  ReadersInv(l)' /\ readers'[l] \in [Readers -> Reader]
<1>1. /\ readers'[l] \in [Readers -> Reader]
      /\ readers'[l][x] = r /\ \A y \in Readers : y # x => readers'[l][y] = readers[l][y]
  BY OfLoad DEF ReadersInv
<1>2. 0 \in Readers /\ Workers \subseteq Readers /\ 0 \notin Workers
  BY ColumnsShared DEF Readers
<1>3. x = 0 => loader[l] = "warm"
  BY OfLoad DEF ReadersInv
<1>4. x # 0 => x \in Workers /\ loader[l] = "await"
  BY OfLoad DEF ReadersInv, Readers
<1>5. /\ \A y \in Workers : FirstCol(y)' = FirstCol(y) /\ EndCol(y)' = EndCol(y)
  BY DEF FirstCol, EndCol
<1>6. \A y \in Workers : readers'[l][y].at # "done" =>
         loader'[l] = "await" /\ FirstCol(y) <= readers'[l][y].col /\ readers'[l][y].col < EndCol(y)
  BY <1>1, <1>2, <1>4, OfLoad DEF ReadersInv
<1>7. readers'[l][0].at # "done" => loader'[l] = "warm"
  BY <1>1, <1>2, <1>3, OfLoad DEF ReadersInv
<1>8. QED BY <1>1, <1>5, <1>6, <1>7 DEF ReadersInv

\* A step of one reader over a cache it leaves alone.
LEMMA StepKeepsCache ==
    ASSUME PictureInv, NEW l \in Loads, NEW x \in Readers, readers[l][x].at \notin {"done", "decoded"},
           NEW r, readers'[l] = [readers[l] EXCEPT ![x] = r], r.at # "decoded",
           UNCHANGED <<src[l], offset[l], dataSource, cacheStartSample, cacheData, flaws[l], loader[l]>>,
           Loading(l) /\ Sound(l) => OnItsWay(l, x)'
    PROVE  CacheInv(l)'
<1>1. SUFFICES ASSUME Loading(l), Sound(l) PROVE CacheAgrees(l)' /\ \A y \in Readers : OnItsWay(l, y)'
  BY DEF CacheInv, Loading, Sound
<1>2. /\ CacheAgrees(l) /\ \A y \in Readers : OnItsWay(l, y)
  BY <1>1, OfLoad DEF CacheInv
<1>3. /\ readers'[l][x] = r /\ \A y \in Readers : y # x => readers'[l][y] = readers[l][y]
  BY OfLoad DEF ReadersInv
<1>4. \A y \in Readers : readers[l][y].at # "decoded"
  BY <1>2 DEF CacheAgrees
<1>5. ~Mixed(src[l])'
  BY <1>2, <1>4 DEF CacheAgrees, Mixed
<1>6. CacheAgrees(l)'
  BY <1>3, <1>4, <1>5 DEF CacheAgrees
<1>7. ASSUME NEW y \in Readers, y # x PROVE OnItsWay(l, y)'
  <2>1. readers'[l][y] = readers[l][y] /\ SampleOffset(l, y)' = SampleOffset(l, y)
    BY <1>3, <1>7 DEF SampleOffset
  <2>2. OnItsWay(l, y)
    BY <1>2
  <2>3. QED BY <2>1, <2>2 DEF OnItsWay, Covers
<1>8. QED BY <1>1, <1>6, <1>7

LEMMA ColumnIsThere ==
    ASSUME PictureInv, NEW l \in Loads, Loading(l), NEW c \in Columns
    PROVE  Full(offset[l] + c) \in Nat \ {0}
<1>1. offset[l] \in Offsets
  BY OfLoad DEF LoaderInv, Loading
<1>2. ASSUME NEW o \in Offsets PROVE TotalSamples - (o + c) \in Nat \ {0}
  BY SpectrogramAssumption DEF Columns
<1>3. TotalSamples - (offset[l] + c) \in Nat \ {0}
  BY <1>1, <1>2
<1>4. QED BY <1>3, SpectrogramAssumption DEF Full, Smaller

LEMMA StepKeepsBitmap ==
    ASSUME PictureInv, NEW l \in Loads, Loading(l), NEW x \in Readers, readers[l][x].at # "done",
           NEW r, readers'[l] = [readers[l] EXCEPT ![x] = r], r.at # "done", r.col = readers[l][x].col,
           UNCHANGED <<src[l], offset[l], dataSource, bmp[l], loader[l]>>,
           flaws'[l] \in {flaws[l], flaws[l] \cup {"failed"}, flaws[l] \cup {"torn"}}
    PROVE  BitmapInv(l)'
<1>1. SUFFICES ASSUME Sound(l)' PROVE Drawn(l)'
  BY DEF BitmapInv
<1>2. Sound(l) /\ Drawn(l)
  BY <1>1, OfLoad DEF Sound, BitmapInv
<1>3. /\ readers'[l][x] = r /\ \A y \in Readers : y # x => readers'[l][y] = readers[l][y]
  BY OfLoad DEF ReadersInv
<1>4. \A y \in Workers, c \in Columns : Behind(l, y, c)' <=> Behind(l, y, c)
  BY <1>3 DEF Behind, FirstCol, EndCol, Readers
<1>5. CASE flaws'[l] = flaws[l]
  BY <1>2, <1>4, <1>5 DEF Drawn
<1>6. CASE flaws'[l] = flaws[l] \cup {"failed"}
  <2>1. ASSUME NEW c \in Columns, Good(bmp[l][c], flaws[l], src[l], offset[l] + c)
        PROVE  Good(bmp[l][c], flaws'[l], src[l], offset[l] + c)
    <3>1. Full(offset[l] + c) \in Nat \ {0}
      BY ColumnIsThere
    <3>2. Sizes(flaws[l], offset[l] + c) \subseteq Sizes(flaws'[l], offset[l] + c)
      BY <1>6, <3>1 DEF Sizes
    <3>3. QED BY <2>1, <3>2 DEF Good
  <2>2. QED BY <1>2, <1>6, <2>1 DEF Drawn
<1>7. QED BY <1>1, <1>5, <1>6 DEF Sound

\* read has returned: a column is drawn of the samples there are.
LEMMA ReturnsKeeps ==
    ASSUME PictureInv, NEW l \in Loads, Loading(l), NEW x \in Readers,
           readers[l][x].at \notin {"done", "decoded"},
           NEW pos \in Int, NEW n \in Nat, Returns(l, x, pos, n),
           Sound(l) /\ x # 0 /\ n # 0 => /\ pos = offset[l] + readers[l][x].col
                                         /\ n \in Sizes(flaws[l], pos),
           Sound(l) /\ flaws[l] = {} => n # 0,
           UNCHANGED <<src[l], offset[l], dataSource, cacheStartSample, cacheData, flaws[l], loader[l]>>
    PROVE  /\ ReadersInv(l)' /\ CacheInv(l)' /\ BitmapInv(l)'
           /\ readers'[l] \in [Readers -> Reader] /\ bmp'[l] \in Bitmap
<1> DEFINE next == [at |-> "test", col |-> readers[l][x].col + 1, rel |-> 0, n |-> 0]
           r == IF x # 0 /\ n # 0 /\ readers[l][x].col + 1 < EndCol(x) THEN next ELSE Idle
           drawn == [rec |-> src[l], pos |-> pos, n |-> n]
<1>1. /\ readers'[l] = [readers[l] EXCEPT ![x] = r]
      /\ bmp'[l] = IF x = 0 \/ n = 0 THEN bmp[l] ELSE [bmp[l] EXCEPT ![readers[l][x].col] = drawn]
  <2>1. DOMAIN readers = Loads /\ DOMAIN bmp = Loads /\ DOMAIN readers[l] = Readers
    BY OfLoad DEF PictureInv, LoadsTyped
  <2>2. CASE x = 0 \/ n = 0
    BY <2>1, <2>2 DEF Returns
  <2>3. CASE ~(x = 0 \/ n = 0)
    BY <2>1, <2>3 DEF Returns
  <2>4. QED BY <2>2, <2>3
<1>2. /\ readers[l] \in [Readers -> Reader]
      /\ src[l] \in Nat /\ bmp[l] \in Bitmap
  BY OfLoad DEF LoaderInv
<1>3. drawn \in [rec : Nat, pos : Int, n : Nat]
  BY <1>2
<1>4. /\ next \in Reader /\ next.at = "test"
      /\ next.col = readers[l][x].col + 1
      /\ Idle \in Reader /\ Idle.at = "done"
  <2>1. readers[l][x].col \in Nat
    BY <1>2 DEF Reader
  <2>2. QED BY <2>1 DEF Idle, Places, Reader
<1> HIDE DEF next
<1>5. /\ r \in Reader /\ r.at \in {"done", "test"}
      /\ r.at = "done" <=> ~(x # 0 /\ n # 0 /\ readers[l][x].col + 1 < EndCol(x))
      /\ r.at # "done" => r.col = readers[l][x].col + 1
  BY <1>4
<1> HIDE DEF r
<1>6. x # 0 => /\ x \in Workers /\ readers[l][x].col \in Columns /\ readers[l][x].col \in Nat
               /\ FirstCol(x) \in Int /\ FirstCol(x) <= readers[l][x].col
               /\ EndCol(x) \in Int /\ readers[l][x].col < EndCol(x)
  <2>1. SUFFICES ASSUME x \in Workers, x # 0
                 PROVE  /\ readers[l][x].col \in Columns /\ readers[l][x].col \in Nat
                        /\ FirstCol(x) \in Int /\ FirstCol(x) <= readers[l][x].col
                        /\ EndCol(x) \in Int /\ readers[l][x].col < EndCol(x)
    BY DEF Readers
  <2>2. readers[l][x].col \in Columns
    BY <2>1, AskedIsThere
  <2>3. ASSUME NEW k \in Nat PROVE x * k \in Int /\ (x - 1) * k \in Int
    BY <2>1, ColumnsShared
  <2>4. FirstCol(x) \in Int /\ EndCol(x) \in Int
    BY <2>3, ColumnsShared, SpectrogramAssumption DEF FirstCol, EndCol, Smaller
  <2>5. FirstCol(x) <= readers[l][x].col /\ readers[l][x].col < EndCol(x)
    BY <2>1, OfLoad DEF ReadersInv
  <2>6. readers[l][x].col \in Nat
    BY <1>2 DEF Reader
  <2>7. QED BY <2>2, <2>4, <2>5, <2>6
<1>7. ReadersInv(l)' /\ readers'[l] \in [Readers -> Reader]
  <2>1. r.at # "done" /\ x # 0 => FirstCol(x) <= r.col /\ r.col < EndCol(x)
    BY <1>5, <1>6
  <2>2. /\ r \in Reader /\ loader'[l] = loader[l]
        /\ readers'[l] = [readers[l] EXCEPT ![x] = r] /\ readers[l][x].at # "done"
    BY <1>1, <1>5
  <2>3. QED BY ONLY PictureInv, l \in Loads, x \in Readers, <2>1, <2>2, GoneKeepsReaders
<1>8. bmp'[l] \in Bitmap
  BY <1>1, <1>2, <1>3, <1>6 DEF Bitmap
<1>9. /\ readers'[l][x] = r /\ \A y \in Readers : y # x => readers'[l][y] = readers[l][y]
  BY <1>1, <1>2
<1>10. CacheInv(l)'
  <2>1. OnItsWay(l, x)'
    BY <1>5, <1>9 DEF OnItsWay
  <2>2. QED BY <1>1, <1>5, <2>1, StepKeepsCache
<1>11. BitmapInv(l)'
  <2>1. SUFFICES ASSUME Sound(l) PROVE Drawn(l)'
    BY DEF BitmapInv, Sound
  <2>2. Drawn(l)
    BY <2>1, OfLoad DEF BitmapInv
  <2>3. x # 0 /\ n # 0 => Good(drawn, flaws[l], src[l], offset[l] + readers[l][x].col)
    BY <2>1 DEF Good
  <2>4. \A c \in Columns : bmp'[l][c] = bmp[l][c] \/ Good(bmp'[l][c], flaws[l], src[l], offset[l] + c)
    BY <1>1, <1>2, <1>6, <2>3
  <2>5. \A c \in Columns : bmp'[l][c] = Black \/ Good(bmp'[l][c], flaws[l], src[l], offset[l] + c)
    BY <2>2, <2>4 DEF Drawn
  <2>6. ASSUME loader[l] = "await", flaws[l] = {}, NEW y \in Workers, NEW c \in Columns, Behind(l, y, c)'
        PROVE  Good(bmp'[l][c], flaws[l], src[l], offset[l] + c)
    <3>1. CASE y # x
      <4>1. Behind(l, y, c)
        BY <1>9, <2>6, <3>1 DEF Behind, FirstCol, EndCol, Readers
      <4>2. QED BY <2>2, <2>4, <2>6, <4>1 DEF Drawn
    <3>2. CASE y = x
      <4>1. x # 0 /\ n # 0
        BY <2>1, <2>6, <3>2, ColumnsShared
      <4>2. c = readers[l][x].col \/ Behind(l, x, c)
        <5>1. /\ FirstCol(x) <= c /\ c < EndCol(x)
              /\ r.at = "done" \/ c < r.col
          BY <1>9, <2>6, <3>2 DEF Behind, FirstCol, EndCol
        <5>2. c \in Int
          BY DEF Columns
        <5>3. c < readers[l][x].col + 1
          BY <1>5, <1>6, <4>1, <5>1, <5>2
        <5>4. QED BY <1>6, <4>1, <5>1, <5>2, <5>3 DEF Behind
      <4>3. CASE c = readers[l][x].col
        BY <1>1, <1>2, <1>6, <2>3, <4>1, <4>3 DEF Bitmap
      <4>4. CASE Behind(l, x, c)
        BY <2>2, <2>4, <2>6, <3>2, <4>4 DEF Drawn
      <4>5. QED BY <4>2, <4>3, <4>4
    <3>3. QED BY <3>1, <3>2
  <2>7. QED BY <2>5, <2>6 DEF Drawn
<1>12. QED BY <1>7, <1>8, <1>10, <1>11

LEMMA SourceTyped ==
    ASSUME PictureInv, NEW l \in Loads, Loading(l)
    PROVE  /\ src[l] \in Recording
           /\ cacheData[src[l]].from \in Nat /\ cacheData[src[l]].len \in Nat
           /\ cacheStartSample[src[l]] \in Int
<1>1. src[l] \in 1 .. opened /\ opened \in 0 .. events /\ events \in 0 .. MaxEvents
  BY OfLoad DEF LoaderInv, PictureInv, ScreenInv
<1>2. src[l] \in Recording
  BY <1>1, SpectrogramAssumption DEF Recording
<1>3. QED BY <1>2 DEF PictureInv, CacheTyped

\* What is in the cache of a sound load.
LEMMA SoundCache ==
    ASSUME PictureInv, NEW l \in Loads, Loading(l), Sound(l), NEW x \in Readers,
           readers[l][x].at \notin {"done", "decoded"}
    PROVE  /\ OnItsWay(l, x) /\ ~Mixed(src[l]) /\ CacheAgrees(l)
           /\ cacheData[src[l]].from \in Nat /\ cacheData[src[l]].len \in Nat
           /\ cacheStartSample[src[l]] \in Int
           /\ cacheData[src[l]] # NoData =>
                /\ cacheData[src[l]].from = cacheStartSample[src[l]]
                /\ cacheData[src[l]].from < TotalSamples
                /\ cacheData[src[l]].len = Smaller(WINDOW_SAMPLES, TotalSamples - cacheData[src[l]].from)
<1>1. CacheAgrees(l) /\ OnItsWay(l, x)
  BY OfLoad DEF CacheInv
<1>2. ~Mixed(src[l])
  BY <1>1 DEF CacheAgrees
<1>3. src[l] \in Recording
  BY SourceTyped
<1>4. QED BY <1>1, <1>2, <1>3 DEF PictureInv, CacheTyped, Mixed

LEMMA ReadTestKeeps ==
    ASSUME PictureInv, NEW l \in Loads, Loading(l), NEW x \in Readers, Read(l, x), ReadTest(l, x),
           UNCHANGED <<cacheVars, bmp[l], flaws[l], crashed, events>>
    PROVE  OwnInv(l)'
<1> DEFINE r == [readers[l][x] EXCEPT !.at = IF Cached(l, x) THEN "get" ELSE "decode"]
<1>1. readers[l][x].at = "test" /\ readers'[l] = [readers[l] EXCEPT ![x] = r]
  BY DEF ReadTest, At, Goes, PictureInv, LoadsTyped
<1>2. readers[l][x] \in Reader
  BY OfLoad
<1>3. /\ r \in Reader /\ r.col = readers[l][x].col
      /\ r.at = "get" \/ r.at = "decode"
      /\ r.at = "get" => Cached(l, x)
  BY <1>2 DEF Places, Reader
<1> HIDE DEF r
<1>4. UNCHANGED <<screenVars, viewVars, windowLoading, invalid, notifying, loader, offset, src,
                  excuses, mishaps>>
  BY DEF Read
<1>5. bmp'[l] \in Bitmap /\ (Loading(l)' <=> Loading(l))
  BY <1>4, OfLoad DEF LoaderInv, Loading
<1>6. ReadersInv(l)' /\ readers'[l] \in [Readers -> Reader]
  <2>1. r.at # "done" /\ x # 0 => FirstCol(x) <= r.col /\ r.col < EndCol(x)
    BY <1>1, <1>3, OfLoad DEF ReadersInv, Readers
  <2>2. QED BY <1>1, <1>3, <1>4, <2>1, GoneKeepsReaders
<1>7. BitmapInv(l)'
  BY <1>1, <1>3, <1>4, StepKeepsBitmap
<1>8. readers'[l][x] = r /\ SampleOffset(l, x)' = SampleOffset(l, x)
  BY <1>1, <1>3, <1>4, OfLoad DEF ReadersInv, SampleOffset
<1>9. ASSUME Sound(l) PROVE OnItsWay(l, x)'
  <2>1. SUFFICES ASSUME Cached(l, x) PROVE cacheData[src[l]] # NoData /\ Covers(l, x)
    BY <1>3, <1>4, <1>8 DEF OnItsWay, Covers
  <2>2. /\ cacheData[src[l]].from \in Nat /\ cacheData[src[l]].len \in Nat
        /\ cacheData[src[l]].from = cacheStartSample[src[l]]
        /\ cacheData[src[l]].from < TotalSamples
        /\ cacheData[src[l]].len = Smaller(WINDOW_SAMPLES, TotalSamples - cacheData[src[l]].from)
    BY <1>1, <1>9, <2>1, SoundCache DEF Cached
  <2>3. /\ SampleOffset(l, x) >= cacheData[src[l]].from
        /\ SampleOffset(l, x) + FFT_SIZE <= cacheData[src[l]].from + cacheData[src[l]].len
    BY <2>1, <2>2 DEF Cached
  <2>4. SampleOffset(l, x) \in Nat /\ SampleOffset(l, x) < TotalSamples
    BY <1>1, AskedIsThere
  <2>5. cacheData[src[l]].len <= TotalSamples - cacheData[src[l]].from
    BY <2>2, SpectrogramAssumption DEF Smaller
  <2>6. Covers(l, x)
    BY <2>2, <2>3, <2>4, <2>5, SpectrogramAssumption DEF Covers, Smaller, Full
  <2>7. QED BY <2>1, <2>6 DEF Cached
<1>10. CacheInv(l)'
  BY <1>1, <1>3, <1>4, <1>9, StepKeepsCache
<1>11. CacheTyped'
  BY <1>4 DEF PictureInv, CacheTyped
<1>12. QED BY <1>5, <1>6, <1>7, <1>10, <1>11 DEF OwnInv

\* A decoder that fails leaves the cache as it was.
LEMMA DecodeFailsKeeps ==
    ASSUME PictureInv, NEW l \in Loads, Loading(l), NEW x \in Readers, Read(l, x),
           readers[l][x].at = "decode", Event, flaws'[l] = flaws[l] \cup {"failed"}, Goes(l, x, "get"),
           UNCHANGED <<cacheVars, bmp[l], crashed>>
    PROVE  OwnInv(l)'
<1> DEFINE r == [readers[l][x] EXCEPT !.at = "get"]
<1>1. readers'[l] = [readers[l] EXCEPT ![x] = r]
  BY DEF Goes, PictureInv, LoadsTyped
<1>2. readers[l][x] \in Reader
  BY OfLoad
<1>3. /\ r \in Reader /\ r.col = readers[l][x].col
      /\ r.at = "get"
  BY <1>2 DEF Places, Reader
<1> HIDE DEF r
<1>4. UNCHANGED <<screenVars, viewVars, windowLoading, invalid, notifying, loader, offset, src,
                  excuses, mishaps>>
  BY DEF Read
<1>5. bmp'[l] \in Bitmap /\ (Loading(l)' <=> Loading(l))
  BY <1>4, OfLoad DEF LoaderInv, Loading
<1>6. ReadersInv(l)' /\ readers'[l] \in [Readers -> Reader]
  <2>1. r.at # "done" /\ x # 0 => FirstCol(x) <= r.col /\ r.col < EndCol(x)
    BY <1>3, OfLoad DEF ReadersInv, Readers
  <2>2. QED BY <1>1, <1>3, <1>4, <2>1, GoneKeepsReaders
<1>7. BitmapInv(l)'
  BY <1>1, <1>3, <1>4, StepKeepsBitmap
<1>8. /\ readers'[l][x] = r /\ \A y \in Readers : y # x => readers'[l][y] = readers[l][y]
  BY <1>1, OfLoad DEF ReadersInv
<1>9. CacheInv(l)'
  <2>1. SUFFICES ASSUME Sound(l) PROVE CacheAgrees(l)' /\ \A y \in Readers : OnItsWay(l, y)'
    BY <1>4 DEF CacheInv, Sound
  <2>2. CacheAgrees(l) /\ ~Mixed(src[l]) /\ \A y \in Readers : OnItsWay(l, y)
    BY <2>1, SoundCache, OfLoad DEF CacheInv
  <2>3. \A y \in Readers : readers'[l][y].at # "decoded"
    BY <1>3, <1>8, <2>2 DEF CacheAgrees
  <2>4. ~Mixed(src[l])'
    BY <1>4, <2>2 DEF Mixed
  <2>5. CacheAgrees(l)'
    BY <2>3, <2>4 DEF CacheAgrees
  <2>6. OnItsWay(l, x)'
    BY <1>3, <1>8 DEF OnItsWay
  <2>7. ASSUME NEW y \in Readers, y # x PROVE OnItsWay(l, y)'
    <3>1. readers'[l][y] = readers[l][y] /\ SampleOffset(l, y)' = SampleOffset(l, y)
      BY <1>4, <1>8, <2>7 DEF SampleOffset
    <3>2. flaws'[l] # {}
      OBVIOUS
    <3>3. QED BY <1>4, <2>2, <3>1, <3>2 DEF OnItsWay
  <2>8. QED BY <2>5, <2>6, <2>7
<1>10. CacheTyped'
  BY <1>4 DEF PictureInv, CacheTyped
<1>11. QED BY <1>5, <1>6, <1>7, <1>9, <1>10 DEF OwnInv

\* The first assignment of decodeWindow: from here on a second reader makes the load torn.
LEMMA DecodeStartsKeeps ==
    ASSUME PictureInv, NEW l \in Loads, Loading(l), NEW x \in Readers, Read(l, x),
           readers[l][x].at = "decode",
           cacheStartSample' = [cacheStartSample EXCEPT ![src[l]] = WindowStart(l, x)],
           flaws'[l] = IF \E y \in Readers \ {x} : readers[l][y].at # "done"
                       THEN flaws[l] \cup {"torn"} ELSE flaws[l],
           Goes(l, x, "decoded"), UNCHANGED <<cacheData, bmp[l], crashed, events>>
    PROVE  OwnInv(l)'
<1> DEFINE r == [readers[l][x] EXCEPT !.at = "decoded"]
<1>1. readers'[l] = [readers[l] EXCEPT ![x] = r]
  BY DEF Goes, PictureInv, LoadsTyped
<1>2. readers[l][x] \in Reader
  BY OfLoad
<1>3. /\ r \in Reader /\ r.col = readers[l][x].col
      /\ r.at = "decoded"
  BY <1>2 DEF Places, Reader
<1> HIDE DEF r
<1>4. UNCHANGED <<screenVars, viewVars, windowLoading, invalid, notifying, loader, offset, src,
                  excuses, mishaps>>
  BY DEF Read
<1>5. bmp'[l] \in Bitmap /\ (Loading(l)' <=> Loading(l))
  BY <1>4, OfLoad DEF LoaderInv, Loading
<1>6. ReadersInv(l)' /\ readers'[l] \in [Readers -> Reader]
  <2>1. r.at # "done" /\ x # 0 => FirstCol(x) <= r.col /\ r.col < EndCol(x)
    BY <1>3, OfLoad DEF ReadersInv, Readers
  <2>2. QED BY <1>1, <1>3, <1>4, <2>1, GoneKeepsReaders
<1>7. BitmapInv(l)'
  BY <1>1, <1>3, <1>4, StepKeepsBitmap
<1>8. /\ readers'[l][x] = r /\ \A y \in Readers : y # x => readers'[l][y] = readers[l][y]
  BY <1>1, OfLoad DEF ReadersInv
<1>9. CacheTyped'
  <2>1. WindowStart(l, x) \in Int
    BY AskedIsThere
  <2>2. QED BY <2>1 DEF PictureInv, CacheTyped
<1>10. src[l] \in Recording
  BY SourceTyped
<1>11. CacheInv(l)'
  <2>1. SUFFICES ASSUME Sound(l)' PROVE CacheAgrees(l)' /\ \A y \in Readers : OnItsWay(l, y)'
    BY DEF CacheInv
  <2>2. \A y \in Readers : y # x => readers'[l][y].at = "done"
    BY <1>8, <2>1 DEF Sound
  <2>3. cacheStartSample'[src[l]] = WindowStart(l, x)
    BY <1>10 DEF PictureInv, CacheTyped
  <2>4. WindowStart(l, x)' = WindowStart(l, x)
    BY <1>3, <1>4, <1>8 DEF WindowStart, SampleOffset
  <2>5. CacheAgrees(l)'
    BY <1>3, <1>4, <1>8, <2>2, <2>3, <2>4 DEF CacheAgrees
  <2>6. QED BY <1>3, <1>8, <2>2, <2>5 DEF OnItsWay
<1>12. QED BY <1>5, <1>6, <1>7, <1>9, <1>11 DEF OwnInv

\* The second: what was decoded covers what was asked for, up to the end of the recording.
LEMMA DecodeEndsKeeps ==
    ASSUME PictureInv, NEW l \in Loads, Loading(l), NEW x \in Readers, Read(l, x),
           readers[l][x].at = "decoded",
           cacheData' = [cacheData EXCEPT ![src[l]] =
                           [from |-> WindowStart(l, x),
                            len |-> Smaller(WINDOW_SAMPLES, TotalSamples - WindowStart(l, x))]],
           flaws'[l] = IF \E y \in Readers \ {x} : readers[l][y].at # "done"
                       THEN flaws[l] \cup {"torn"} ELSE flaws[l],
           Goes(l, x, "get"), UNCHANGED <<cacheStartSample, bmp[l], crashed, events>>
    PROVE  OwnInv(l)'
<1> DEFINE r == [readers[l][x] EXCEPT !.at = "get"]
           data == [from |-> WindowStart(l, x),
                    len |-> Smaller(WINDOW_SAMPLES, TotalSamples - WindowStart(l, x))]
<1>1. readers'[l] = [readers[l] EXCEPT ![x] = r] /\ cacheData' = [cacheData EXCEPT ![src[l]] = data]
  BY DEF Goes, PictureInv, LoadsTyped
<1>2. readers[l][x] \in Reader
  BY OfLoad
<1>3. /\ r \in Reader /\ r.col = readers[l][x].col
      /\ r.at = "get"
  BY <1>2 DEF Places, Reader
<1> HIDE DEF r
<1>4. UNCHANGED <<screenVars, viewVars, windowLoading, invalid, notifying, loader, offset, src,
                  excuses, mishaps>>
  BY DEF Read
<1>5. bmp'[l] \in Bitmap /\ (Loading(l)' <=> Loading(l))
  BY <1>4, OfLoad DEF LoaderInv, Loading
<1>6. ReadersInv(l)' /\ readers'[l] \in [Readers -> Reader]
  <2>1. r.at # "done" /\ x # 0 => FirstCol(x) <= r.col /\ r.col < EndCol(x)
    BY <1>3, OfLoad DEF ReadersInv, Readers
  <2>2. QED BY <1>1, <1>3, <1>4, <2>1, GoneKeepsReaders
<1>7. BitmapInv(l)'
  BY <1>1, <1>3, <1>4, StepKeepsBitmap
<1>8. /\ readers'[l][x] = r /\ \A y \in Readers : y # x => readers'[l][y] = readers[l][y]
  BY <1>1, OfLoad DEF ReadersInv
<1>9. /\ SampleOffset(l, x) \in Nat /\ SampleOffset(l, x) < TotalSamples
      /\ WindowStart(l, x) \in Nat /\ WindowStart(l, x) <= SampleOffset(l, x)
      /\ SampleOffset(l, x) - WindowStart(l, x) <= OUTPUT_SAMPLE_RATE
  BY AskedIsThere
<1>10. src[l] \in Recording
  BY SourceTyped
<1>11. /\ data.from = WindowStart(l, x) /\ data \in [from : Nat, len : Nat] /\ data.from < TotalSamples
       /\ data.len = Smaller(WINDOW_SAMPLES, TotalSamples - data.from) /\ data.len # 0
  BY <1>9, SpectrogramAssumption DEF Smaller
<1> HIDE DEF data
<1>12. /\ cacheData'[src[l]] = data /\ data # NoData
       /\ \A o \in Recording : o # src[l] => cacheData'[o] = cacheData[o]
  BY <1>1, <1>10, <1>11 DEF PictureInv, CacheTyped, NoData
<1>13. CacheTyped'
  <2>1. cacheData' \in [Recording -> [from : Nat, len : Nat]]
    BY <1>1, <1>11 DEF PictureInv, CacheTyped
  <2>2. QED BY <1>11, <1>12, <2>1 DEF PictureInv, CacheTyped
<1>14. CacheInv(l)'
  <2>1. SUFFICES ASSUME Sound(l), flaws'[l] = flaws[l]
                 PROVE  CacheAgrees(l)' /\ \A y \in Readers : OnItsWay(l, y)'
    BY <1>4 DEF CacheInv, Sound
  <2>2. /\ \A y \in Readers : y # x => readers[l][y].at = "done"
        /\ cacheStartSample[src[l]] = WindowStart(l, x)
    BY <2>1, OfLoad DEF CacheInv, CacheAgrees
  <2>3. \A y \in Readers : y # x => readers'[l][y].at = "done"
    BY <1>8, <2>2
  <2>4. ~Mixed(src[l])'
    BY <1>4, <1>11, <1>12, <2>2 DEF Mixed
  <2>5. CacheAgrees(l)'
    BY <1>3, <1>8, <2>3, <2>4 DEF CacheAgrees
  <2>6. SampleOffset(l, x)' = SampleOffset(l, x)
    BY <1>3, <1>4, <1>8 DEF SampleOffset
  <2>7. Covers(l, x)'
    <3> DEFINE p == SampleOffset(l, x)
               rel == p - data.from
    <3>1. 0 <= rel /\ rel < data.len /\ Smaller(FFT_SIZE, data.len - rel) = Full(p)
      BY <1>9, <1>11, SpectrogramAssumption DEF Smaller, Full
    <3>2. QED BY <1>4, <1>12, <2>6, <3>1 DEF Covers, Full
  <2>8. OnItsWay(l, x)'
    BY <1>3, <1>4, <1>8, <1>12, <2>7 DEF OnItsWay
  <2>9. QED BY <2>3, <2>5, <2>8 DEF OnItsWay
<1>15. QED BY <1>5, <1>6, <1>7, <1>13, <1>14 DEF OwnInv

\* A read that returns, with or without samples.
LEMMA ReadReturnsKeeps ==
    ASSUME PictureInv, NEW l \in Loads, Loading(l), NEW x \in Readers, Read(l, x),
           readers[l][x].at \notin {"done", "decoded"},
           NEW pos \in Int, NEW n \in Nat, Returns(l, x, pos, n),
           Sound(l) /\ x # 0 /\ n # 0 => /\ pos = offset[l] + readers[l][x].col
                                         /\ n \in Sizes(flaws[l], pos),
           Sound(l) /\ flaws[l] = {} => n # 0,
           UNCHANGED <<cacheVars, flaws, events>>
    PROVE  OwnInv(l)'
<1>1. UNCHANGED <<loader, offset, src, dataSource>>
  BY DEF Read
<1>2. /\ ReadersInv(l)' /\ CacheInv(l)' /\ BitmapInv(l)'
      /\ readers'[l] \in [Readers -> Reader] /\ bmp'[l] \in Bitmap
  BY <1>1, ReturnsKeeps
<1>3. CacheTyped'
  BY DEF PictureInv, CacheTyped
<1>4. QED BY <1>2, <1>3 DEF OwnInv

\* A read that goes on to its next access.
LEMMA ReadGoesOnKeeps ==
    ASSUME PictureInv, NEW l \in Loads, Loading(l), NEW x \in Readers, Read(l, x),
           readers[l][x].at \in {"get", "length"},
           NEW r \in Reader,
           readers'[l] = [readers[l] EXCEPT ![x] = r], r.at \in {"length", "copy"},
           r.col = readers[l][x].col,
           Loading(l) /\ Sound(l) => OnItsWay(l, x)',
           UNCHANGED <<cacheVars, flaws, events, bmp>>
    PROVE  OwnInv(l)'
<1>1. UNCHANGED <<loader, offset, src, dataSource>>
  BY DEF Read
<1>2. ReadersInv(l)' /\ readers'[l] \in [Readers -> Reader]
  <2>1. r.at # "done" /\ x # 0 => FirstCol(x) <= r.col /\ r.col < EndCol(x)
    BY OfLoad DEF ReadersInv, Readers
  <2>2. QED BY <1>1, <2>1, GoneKeepsReaders
<1>3. CacheInv(l)'
  BY <1>1, StepKeepsCache
<1>4. BitmapInv(l)'
  BY <1>1, StepKeepsBitmap
<1>5. CacheTyped'
  BY DEF PictureInv, CacheTyped
<1>6. bmp'[l] \in Bitmap
  BY OfLoad DEF LoaderInv
<1>7. QED BY <1>2, <1>3, <1>4, <1>5, <1>6 DEF OwnInv

\* An exception changes nothing else.
LEMMA ThrowsKeeps ==
    ASSUME PictureInv, NEW l \in Loads, Loading(l), NEW x \in Readers, Read(l, x), Throws,
           UNCHANGED <<cacheVars, flaws, events>>
    PROVE  OwnInv(l)'
<1>1. UNCHANGED <<loader, offset, src, dataSource, readers, bmp>>
  BY DEF Read, Throws
<1>2. CacheInv(l)' /\ BitmapInv(l)' /\ ReadersInv(l)'
  BY <1>1, LoadStays
<1>3. CacheTyped'
  BY DEF PictureInv, CacheTyped
<1>4. readers'[l] \in [Readers -> Reader] /\ bmp'[l] \in Bitmap
  BY <1>1, OfLoad DEF LoaderInv
<1>5. QED BY <1>2, <1>3, <1>4 DEF OwnInv

LEMMA ReadGetKeeps ==
    ASSUME PictureInv, NEW l \in Loads, Loading(l), NEW x \in Readers, Read(l, x), ReadGet(l, x),
           UNCHANGED <<cacheVars, flaws, crashed, events>>
    PROVE  OwnInv(l)'
<1>1. readers[l][x].at = "get"
  BY DEF ReadGet, At
<1>2. CASE cacheData[src[l]] = NoData
  <2>1. Returns(l, x, 0, 0)
    BY <1>2 DEF ReadGet
  <2>2. Sound(l) => flaws[l] # {}
    BY <1>1, <1>2, SoundCache DEF OnItsWay
  <2>3. QED BY <1>1, <2>1, <2>2, ReadReturnsKeeps
<1>3. CASE cacheData[src[l]] # NoData
  <2> DEFINE rel == SampleOffset(l, x) - cacheStartSample[src[l]]
             r == [readers[l][x] EXCEPT !.at = "length", !.rel = rel]
  <2>1. readers'[l] = [readers[l] EXCEPT ![x] = r] /\ UNCHANGED bmp
    <3>1. readers'[l] = [readers[l] EXCEPT ![x].at = "length", ![x].rel = rel] /\ UNCHANGED bmp
      BY <1>3 DEF ReadGet, PictureInv, LoadsTyped
    <3>2. QED BY <3>1
  <2>2. readers[l][x] \in Reader
    BY OfLoad
  <2>3. rel \in Int
    BY <1>1, AskedIsThere, SourceTyped
  <2>4. /\ r \in Reader /\ r.col = readers[l][x].col
        /\ r.at = "length" /\ r.rel = rel
    BY <2>2, <2>3 DEF Places, Reader
  <2> HIDE DEF r, rel
  <2>5. readers'[l][x] = r
    BY <2>1, OfLoad DEF ReadersInv
  <2>6. UNCHANGED <<src[l], offset[l]>>
    BY DEF Read
  <2>7. SampleOffset(l, x)' = SampleOffset(l, x)
    BY <2>4, <2>5, <2>6 DEF SampleOffset
  <2>8. ASSUME Sound(l) PROVE OnItsWay(l, x)'
    <3>1. OnItsWay(l, x) /\ cacheData[src[l]].from = cacheStartSample[src[l]]
      BY <1>1, <1>3, <2>8, SoundCache
    <3>2. flaws[l] = {} => Covers(l, x)'
      BY <1>1, <2>6, <2>7, <3>1 DEF OnItsWay, Covers
    <3>3. QED BY <1>3, <2>4, <2>5, <2>6, <2>7, <3>1, <3>2 DEF OnItsWay, rel
  <2>9. QED BY <1>1, <2>1, <2>4, <2>8, ReadGoesOnKeeps
<1>4. QED BY <1>2, <1>3

LEMMA ReadLengthKeeps ==
    ASSUME PictureInv, NEW l \in Loads, Loading(l), NEW x \in Readers, Read(l, x), ReadLength(l, x),
           UNCHANGED <<cacheVars, flaws, events>>
    PROVE  OwnInv(l)' /\ (crashed' => ~Sound(l))
<1> DEFINE data == cacheData[src[l]]
           rel == readers[l][x].rel
           n == Smaller(FFT_SIZE, data.len - rel)
<1>1. /\ readers[l][x].at = "length"
      /\ \/ rel >= 0 /\ data = NoData /\ Throws
         \/ /\ ~(rel >= 0 /\ data = NoData) /\ crashed' = FALSE
            /\ \/ (rel < 0 \/ rel >= data.len) /\ Returns(l, x, 0, 0)
               \/ /\ ~(rel < 0 \/ rel >= data.len)
                  /\ readers'[l] = [readers[l] EXCEPT ![x].at = "copy", ![x].n = n]
                  /\ UNCHANGED bmp
  BY DEF ReadLength, At, PictureInv, LoadsTyped
<1>2. readers[l][x] \in Reader /\ rel \in Int
  BY OfLoad DEF Reader
<1>3. data.from \in Nat /\ data.len \in Nat
  BY SourceTyped
<1>4. Sound(l) => /\ data # NoData /\ rel = SampleOffset(l, x) - data.from
                  /\ flaws[l] = {} => Covers(l, x)
  BY <1>1, SoundCache DEF OnItsWay
<1>5. CASE rel >= 0 /\ data = NoData /\ Throws
  BY <1>4, <1>5, ThrowsKeeps
<1>6. CASE (rel < 0 \/ rel >= data.len) /\ Returns(l, x, 0, 0) /\ crashed' = FALSE
  <2>1. Sound(l) => flaws[l] # {}
    BY <1>2, <1>3, <1>4, <1>6 DEF Covers
  <2>2. readers[l][x].at = "length" /\ crashed' = FALSE /\ Returns(l, x, 0, 0)
    BY <1>1, <1>6
  <2> HIDE DEF data, rel, n
  <2>3. readers[l][x].at \notin {"done", "decoded"} /\ crashed' \in {crashed, FALSE}
    BY <2>2
  <2>4. 0 \in Int /\ 0 \in Nat /\ (Sound(l) /\ flaws[l] = {} => 0 # 0)
    BY <2>1
  <2>5. QED BY <2>2, <2>3, <2>4, ReadReturnsKeeps, ZenonT(30)
<1>7. CASE /\ ~(rel < 0 \/ rel >= data.len) /\ crashed' = FALSE
           /\ readers'[l] = [readers[l] EXCEPT ![x].at = "copy", ![x].n = n]
           /\ UNCHANGED bmp
  <2> DEFINE r == [readers[l][x] EXCEPT !.at = "copy", !.n = n]
  <2>1. readers'[l] = [readers[l] EXCEPT ![x] = r]
    BY <1>7
  <2>2. n \in Nat /\ 0 <= rel /\ rel < data.len
    BY <1>2, <1>3, <1>7, SpectrogramAssumption DEF Smaller
  <2>3. /\ r \in Reader /\ r.col = readers[l][x].col
        /\ r.at = "copy" /\ r.rel = rel /\ r.n = n
    BY <1>2, <2>2 DEF Places, Reader
  <2> HIDE DEF r
  <2>4. readers'[l][x] = r
    BY <2>1, OfLoad DEF ReadersInv
  <2>5. UNCHANGED <<src[l], offset[l]>>
    BY DEF Read
  <2>6. SampleOffset(l, x)' = SampleOffset(l, x)
    BY <2>3, <2>4, <2>5 DEF SampleOffset
  <2>7. ASSUME Sound(l) PROVE OnItsWay(l, x)'
    <3>1. flaws[l] = {} => Covers(l, x)'
      BY <1>4, <2>5, <2>6, <2>7 DEF Covers
    <3>2. QED BY <1>4, <2>2, <2>3, <2>4, <2>5, <2>6, <2>7, <3>1 DEF OnItsWay
  <2>8. QED BY <1>1, <1>7, <2>1, <2>3, <2>7, ReadGoesOnKeeps
<1>8. QED BY <1>1, <1>5, <1>6, <1>7

LEMMA ReadCopyKeeps ==
    ASSUME PictureInv, NEW l \in Loads, Loading(l), NEW x \in Readers, Read(l, x), ReadCopy(l, x),
           UNCHANGED <<cacheVars, flaws, events>>
    PROVE  OwnInv(l)' /\ (crashed' => ~Sound(l))
<1> DEFINE data == cacheData[src[l]]
           rel == readers[l][x].rel
           n == readers[l][x].n
<1>1. /\ readers[l][x].at = "copy"
      /\ \/ rel + n > data.len /\ Throws
         \/ ~(rel + n > data.len) /\ crashed' = FALSE /\ Returns(l, x, data.from + rel, n)
  BY DEF ReadCopy, At
<1>2. rel \in Int /\ n \in Nat
  BY OfLoad DEF Reader
<1>3. data.from \in Nat /\ data.len \in Nat
  BY SourceTyped
<1>4. Sound(l) => /\ data # NoData /\ rel = SampleOffset(l, x) - data.from
                  /\ 0 <= rel /\ rel < data.len /\ n = Smaller(FFT_SIZE, data.len - rel)
                  /\ flaws[l] = {} => Covers(l, x)
                  /\ data.len = Smaller(WINDOW_SAMPLES, TotalSamples - data.from)
  BY <1>1, SoundCache DEF OnItsWay
<1>5. /\ SampleOffset(l, x) \in Nat /\ x # 0 => SampleOffset(l, x) = offset[l] + readers[l][x].col
      /\ Full(SampleOffset(l, x)) \in Nat \ {0}
  BY <1>1, AskedIsThere
<1>6. CASE rel + n > data.len /\ Throws
  <2>1. ~Sound(l)
    BY <1>2, <1>3, <1>4, <1>6, SpectrogramAssumption DEF Smaller
  <2>2. QED BY <1>6, <2>1, ThrowsKeeps
<1>7. CASE crashed' = FALSE /\ Returns(l, x, data.from + rel, n)
  <2>1. Sound(l) => data.from + rel = SampleOffset(l, x) /\ n # 0
    BY <1>2, <1>3, <1>4, <1>5, SpectrogramAssumption, AskedIsThere, <1>1 DEF Smaller
  <2>2. Sound(l) => n \in 1 .. Full(SampleOffset(l, x))
    <3>1. SUFFICES ASSUME Sound(l) PROVE n <= Full(SampleOffset(l, x))
      BY <1>2, <1>5, <2>1
    <3>2. data.len <= TotalSamples - data.from /\ SampleOffset(l, x) \in Nat
      BY <1>1, <1>3, <1>4, <3>1, SpectrogramAssumption, AskedIsThere DEF Smaller
    <3>3. QED BY <1>2, <1>3, <1>4, <3>1, <3>2, SpectrogramAssumption DEF Smaller, Full
  <2>3. Sound(l) /\ flaws[l] = {} => n = Full(SampleOffset(l, x))
    BY <1>4 DEF Covers
  <2>4. Sound(l) /\ x # 0 /\ n # 0 => /\ data.from + rel = offset[l] + readers[l][x].col
                                      /\ n \in Sizes(flaws[l], data.from + rel)
    <3>1. x # 0 => SampleOffset(l, x) = offset[l] + readers[l][x].col
      BY DEF SampleOffset
    <3>2. QED BY <2>1, <2>2, <2>3, <3>1 DEF Sizes
  <2>5. data.from + rel \in Int
    BY <1>2, <1>3
  <2> HIDE DEF data, rel, n
  <2>6. QED BY <1>1, <1>2, <1>7, <2>1, <2>4, <2>5, ReadReturnsKeeps
<1>8. QED BY <1>1, <1>6, <1>7

OnlyOf(l, f, g) == g = [k \in Loads |-> g[k]] /\ \A k \in Loads : k # l => g[k] = f[k]

\* What every access does, whichever it is.
LEMMA ReadOnlyTouches ==
    ASSUME PictureInv, NEW l \in Loads, NEW x \in Readers, Read(l, x)
    PROVE  /\ Loading(l)
           /\ UNCHANGED <<useSpectrogram, opened, shown, vizThreads, runnables, playbackMode, dataSource,
                          scrollOffset, windowBitmap, lastRenderedOffset, windowLoading, loader,
                          offset, src, excuses, mishaps>>
           /\ events' = events \/ Event
           /\ OnlyOf(l, readers, readers') /\ OnlyOf(l, bmp, bmp')
<1>1. Loading(l)
  BY DEF Read, ReadTest, DecodeWindow, ReadGet, ReadLength, ReadCopy, At
<1>2. UNCHANGED <<useSpectrogram, opened, shown, vizThreads, runnables, playbackMode, dataSource,
                  scrollOffset, windowBitmap, lastRenderedOffset, windowLoading, loader,
                  offset, src, excuses, mishaps>>
  BY DEF Read
<1>3. events' = events \/ Event
  BY DEF Read, DecodeWindow
<1>4. DOMAIN readers = Loads /\ DOMAIN bmp = Loads
  BY DEF PictureInv, LoadsTyped
<1>5. ASSUME NEW rs, readers' = [readers EXCEPT ![l] = rs]
      PROVE  OnlyOf(l, readers, readers')
  BY <1>4, <1>5 DEF OnlyOf
<1>6. ASSUME NEW b, bmp' = [bmp EXCEPT ![l] = b] PROVE OnlyOf(l, bmp, bmp')
  BY <1>4, <1>6 DEF OnlyOf
<1>7. /\ UNCHANGED readers => OnlyOf(l, readers, readers')
      /\ UNCHANGED bmp => OnlyOf(l, bmp, bmp')
  BY DEF PictureInv, LoadsTyped, OnlyOf
<1>8. \A where : Goes(l, x, where) => OnlyOf(l, readers, readers')
  BY <1>5 DEF Goes
<1>9. ASSUME NEW pos, NEW n, Returns(l, x, pos, n)
      PROVE  OnlyOf(l, readers, readers') /\ OnlyOf(l, bmp, bmp')
  <2>1. CASE x = 0 \/ n = 0
    BY <1>5, <1>7, <1>9, <2>1 DEF Returns
  <2>2. CASE ~(x = 0 \/ n = 0)
    BY <1>5, <1>6, <1>9, <2>2 DEF Returns
  <2>3. QED BY <2>1, <2>2
<1>10. OnlyOf(l, readers, readers') /\ OnlyOf(l, bmp, bmp')
  <2>1. CASE ReadTest(l, x) /\ UNCHANGED bmp
    BY <1>7, <1>8, <2>1 DEF ReadTest
  <2>2. CASE DecodeWindow(l, x) /\ UNCHANGED bmp
    BY <1>7, <1>8, <2>2 DEF DecodeWindow
  <2>3. CASE ReadGet(l, x)
    <3>1. CASE Returns(l, x, 0, 0)
      BY <1>9, <3>1
    <3>2. CASE /\ readers' = [readers EXCEPT ![l][x].at = "length",
                                ![l][x].rel = SampleOffset(l, x) - cacheStartSample[src[l]]]
               /\ UNCHANGED bmp
      <4>1. OnlyOf(l, readers, readers')
        BY <1>4, <3>2 DEF PictureInv, LoadsTyped, OnlyOf
      <4>2. QED BY <1>7, <3>2, <4>1
    <3>3. QED BY <2>3, <3>1, <3>2 DEF ReadGet
  <2>4. CASE Throws
    BY <1>7, <2>4 DEF Throws
  <2>5. CASE ReadLength(l, x) /\ ~Throws
    <3>1. CASE Returns(l, x, 0, 0)
      BY <1>9, <3>1
    <3>2. CASE /\ readers' = [readers EXCEPT ![l][x].at = "copy",
                                ![l][x].n = Smaller(FFT_SIZE, cacheData[src[l]].len - readers[l][x].rel)]
               /\ UNCHANGED bmp
      <4>1. OnlyOf(l, readers, readers')
        BY <1>4, <3>2 DEF PictureInv, LoadsTyped, OnlyOf
      <4>2. QED BY <1>7, <3>2, <4>1
    <3>3. QED BY <2>5, <3>1, <3>2 DEF ReadLength
  <2>6. CASE ReadCopy(l, x) /\ ~Throws
    BY <1>9, <2>6 DEF ReadCopy
  <2>7. QED BY <2>1, <2>2, <2>3, <2>4, <2>5, <2>6 DEF Read
<1>11. QED BY <1>1, <1>2, <1>3, <1>10

\* What it does to the flaws and the caches of the loads: those beside it on the same
\* source are torn.
LEMMA ReadTears ==
    ASSUME PictureInv, NEW l \in Loads, NEW x \in Readers, Read(l, x)
    PROVE  /\ flaws' \in [Loads -> SUBSET {"torn", "failed"}]
           /\ \A k \in Loads : k # l =>
                \/ Loading(k) => "torn" \in flaws'[k]
                \/ UNCHANGED <<flaws[k], cacheStartSample[src[k]], cacheData[src[k]]>>
<1>1. Loading(l) /\ src[l] \in Recording /\ UNCHANGED src
  BY ReadOnlyTouches, SourceTyped
<1>2. flaws \in [Loads -> SUBSET {"torn", "failed"}]
  BY DEF PictureInv, LoadsTyped
<1>3. CASE UNCHANGED <<cacheVars, flaws>>
  BY <1>1, <1>2, <1>3
<1>4. CASE UNCHANGED cacheVars /\ flaws' = [flaws EXCEPT ![l] = @ \cup {"failed"}]
  BY <1>1, <1>2, <1>4
<1>5. CASE /\ Refills(l, x)
           /\ \A o \in Recording : o # src[l] => UNCHANGED <<cacheStartSample[o], cacheData[o]>>
  <2>1. flaws' \in [Loads -> SUBSET {"torn", "failed"}]
    BY <1>2, <1>5 DEF Refills
  <2>2. ASSUME NEW k \in Loads, k # l, Loading(k)
        PROVE  \/ "torn" \in flaws'[k]
               \/ UNCHANGED <<flaws[k], cacheStartSample[src[k]], cacheData[src[k]]>>
    <3>1. CASE src[k] = src[l]
      <4>1. k \in Beside(l, x)
        BY <2>2, <3>1 DEF Beside
      <4>2. QED BY <1>5, <4>1 DEF Refills
    <3>2. CASE src[k] # src[l]
      <4>1. k \notin Beside(l, x) /\ src[k] \in Recording
        BY <2>2, <3>2, SourceTyped DEF Beside
      <4>2. flaws'[k] = flaws[k]
        BY <1>5, <4>1 DEF Refills
      <4>3. QED BY <1>1, <1>5, <3>2, <4>1, <4>2
    <3>3. QED BY <3>1, <3>2
  <2>3. QED BY <2>1, <2>2
<1>6. CASE DecodeWindow(l, x)
  <2>1. /\ \A v : cacheStartSample' = [cacheStartSample EXCEPT ![src[l]] = v] =>
              \A o \in Recording : o # src[l] => UNCHANGED cacheStartSample[o]
        /\ \A v : cacheData' = [cacheData EXCEPT ![src[l]] = v] =>
              \A o \in Recording : o # src[l] => UNCHANGED cacheData[o]
    BY DEF PictureInv, CacheTyped
  <2>2. CASE Refills(l, x)
    <3>1. \A o \in Recording : o # src[l] => UNCHANGED <<cacheStartSample[o], cacheData[o]>>
      BY <1>6, <2>1 DEF DecodeWindow
    <3>2. QED BY <1>5, <2>2, <3>1
  <2>3. CASE UNCHANGED cacheVars /\ flaws' = [flaws EXCEPT ![l] = @ \cup {"failed"}]
    BY <1>4, <2>3
  <2>4. QED BY <1>6, <2>2, <2>3 DEF DecodeWindow
<1>7. QED BY <1>3, <1>6 DEF Read

\* A reader alone in its load tears it only if another load reads the source.
LEMMA ReadTearsItsOwn ==
    ASSUME PictureInv, NEW l \in Loads, NEW x \in Readers, Loading(l), Refills(l, x),
           readers[l][x].at # "done"
    PROVE  flaws'[l] = IF \E y \in Readers \ {x} : readers[l][y].at # "done"
                       THEN flaws[l] \cup {"torn"} ELSE flaws[l]
<1>1. l \in Beside(l, x) <=> \E y \in Workers \ {x} : readers[l][y].at # "done"
  BY DEF Beside
<1>2. x # 0 => readers[l][0].at = "done"
  BY OfLoad DEF ReadersInv, Readers
<1>3. (\E y \in Readers \ {x} : readers[l][y].at # "done")
        <=> (\E y \in Workers \ {x} : readers[l][y].at # "done")
  BY <1>2 DEF Readers
<1>4. QED BY <1>1, <1>3 DEF Refills

LEMMA OwnReadKeeps ==
    ASSUME PictureInv, ~crashed, NEW l \in Loads, NEW x \in Readers, Read(l, x)
    PROVE  OwnInv(l)' /\ (crashed' => ~Sound(l) /\ UNCHANGED flaws)
<1>1. Loading(l)
  BY ReadOnlyTouches
<1>2. CASE ReadTest(l, x) /\ UNCHANGED <<cacheVars, bmp, flaws, crashed, events>>
  BY <1>1, <1>2, ReadTestKeeps
<1>3. CASE DecodeWindow(l, x) /\ UNCHANGED <<bmp, crashed>>
  <2>1. CASE /\ At(l, x, "decode") /\ Refills(l, x)
             /\ cacheStartSample' = [cacheStartSample EXCEPT ![src[l]] = WindowStart(l, x)]
             /\ Goes(l, x, "decoded") /\ UNCHANGED <<cacheData, events>>
    BY <1>1, <1>3, <2>1, ReadTearsItsOwn, DecodeStartsKeeps DEF At
  <2>2. CASE /\ At(l, x, "decoded") /\ Refills(l, x)
             /\ cacheData' = [cacheData EXCEPT ![src[l]] =
                                [from |-> WindowStart(l, x),
                                 len |-> Smaller(WINDOW_SAMPLES, TotalSamples - WindowStart(l, x))]]
             /\ Goes(l, x, "get") /\ UNCHANGED <<cacheStartSample, events>>
    BY <1>1, <1>3, <2>2, ReadTearsItsOwn, DecodeEndsKeeps DEF At
  <2>3. CASE /\ At(l, x, "decode")
             /\ Event /\ flaws' = [flaws EXCEPT ![l] = @ \cup {"failed"}]
             /\ Goes(l, x, "get") /\ UNCHANGED cacheVars
    <3>1. flaws'[l] = flaws[l] \cup {"failed"}
      BY <2>3 DEF PictureInv, LoadsTyped
    <3>2. QED BY <1>1, <1>3, <2>3, <3>1, DecodeFailsKeeps DEF At
  <2>4. QED BY <1>3, <2>1, <2>2, <2>3 DEF DecodeWindow
<1>4. CASE ReadGet(l, x) /\ UNCHANGED <<cacheVars, flaws, crashed, events>>
  BY <1>1, <1>4, ReadGetKeeps
<1>5. CASE (ReadLength(l, x) \/ ReadCopy(l, x)) /\ UNCHANGED <<cacheVars, flaws, events>>
  BY <1>1, <1>5, ReadLengthKeeps, ReadCopyKeeps
<1>6. QED BY <1>2, <1>3, <1>4, <1>5 DEF Read

LEMMA ReadKeeps ==
    ASSUME PictureInv, ~crashed, NEW l \in Loads, NEW x \in Readers, Read(l, x)
    PROVE  PictureInv'
<1>1. /\ Loading(l)
      /\ UNCHANGED <<useSpectrogram, opened, shown, vizThreads, runnables, playbackMode, dataSource,
                     scrollOffset, windowBitmap, lastRenderedOffset, windowLoading, loader,
                     offset, src, excuses, mishaps>>
      /\ events' = events \/ Event
      /\ OnlyOf(l, readers, readers') /\ OnlyOf(l, bmp, bmp')
  BY ReadOnlyTouches
<1>2. OwnInv(l)' /\ (crashed' => ~Sound(l) /\ UNCHANGED flaws)
  BY OwnReadKeeps
<1>3. /\ flaws' \in [Loads -> SUBSET {"torn", "failed"}]
      /\ \A k \in Loads : k # l =>
           \/ Loading(k) => "torn" \in flaws'[k]
           \/ UNCHANGED <<flaws[k], cacheStartSample[src[k]], cacheData[src[k]]>>
  BY ReadTears
<1>4. readers'[l] \in [Readers -> Reader] /\ bmp'[l] \in Bitmap
  BY <1>2 DEF OwnInv
<1>5. \A k \in Loads : k # l => UNCHANGED <<readers[k], bmp[k]>>
  BY <1>1 DEF OnlyOf
<1>6. ScreenInv'
  <2>1. events' \in 0 .. MaxEvents /\ opened \in 0 .. events'
    BY <1>1, SpectrogramAssumption DEF PictureInv, ScreenInv, Event
  <2>2. QED BY <1>1, <2>1 DEF PictureInv, ScreenInv
<1>7. LoadsTyped'
  <2>1. readers' \in [Loads -> [Readers -> Reader]] /\ bmp' \in [Loads -> Bitmap \cup {NoBitmap}]
    BY <1>1, <1>4 DEF PictureInv, LoadsTyped, OnlyOf
  <2>2. QED BY <1>1, <1>3, <2>1 DEF PictureInv, LoadsTyped
<1>8. LoadInv(l)'
  <2>1. LoaderInv(l)'
    BY <1>1, <1>4, OfLoad DEF LoaderInv, Loading
  <2>2. QED BY <1>2, <2>1 DEF OwnInv, LoadInv
<1>9. ASSUME NEW k \in Loads, k # l PROVE LoadInv(k)'
  BY <1>1, <1>3, <1>5, <1>9, OthersStay
<1>10. CacheTyped' /\ WindowInv' /\ OneLoad'
  BY <1>1, <1>2 DEF PictureInv, OwnInv, WindowInv, OneLoad
<1>11. DiesOnlyIfRaced'
  <2>1. SUFFICES ASSUME crashed' PROVE "closed" \in mishaps \/ "torn" \in flaws[l]
    BY <1>1, <1>2 DEF DiesOnlyIfRaced
  <2>2. QED BY <1>1, <1>2, <2>1, OfLoad DEF LoaderInv, Sound
<1>12. QED BY <1>6, <1>7, <1>8, <1>9, <1>10, <1>11 DEF PictureInv

LEMMA NextKeepsPictureInv == PictureInv /\ [PictureNext]_picture_vars => PictureInv'
<1> SUFFICES ASSUME PictureInv, [PictureNext]_picture_vars PROVE PictureInv'
  OBVIOUS
<1>1. CASE UNCHANGED picture_vars
  <2>1. UNCHANGED <<loader, offset, src, bmp, readers, flaws, cacheStartSample, cacheData, crashed,
                    dataSource, runnables, windowBitmap, lastRenderedOffset, excuses, mishaps, events,
                    opened, shown, vizThreads, playbackMode, windowLoading, scrollOffset>>
    BY <1>1 DEF picture_vars
  <2>2. LoadsTyped' /\ \A k \in Loads : LoadInv(k)'
    BY <2>1, SourceIsOut, LoadsStay
  <2>3. ScreenInv' /\ CacheTyped' /\ WindowInv' /\ OneLoad' /\ DiesOnlyIfRaced'
    BY <2>1 DEF PictureInv, ScreenInv, CacheTyped, WindowInv, OneLoad, DiesOnlyIfRaced
  <2>4. QED BY <2>2, <2>3 DEF PictureInv
<1>2. CASE PictureNext
  <2>1. ~crashed
    BY <1>2 DEF PictureNext
  <2>2. CASE StopPlayback \/ EnterPlayback \/ Scroll \/ SetDbRange
    BY <2>2, StopPlaybackKeeps, EnterPlaybackKeeps, ScrollKeeps, SetDbRangeKeeps
  <2>3. CASE RunPosted \/ Draw \/ LoadVisualization \/ PostInvalidate
    BY <2>3, RunPostedKeeps, DrawKeeps, LoadVisualizationKeeps, PostInvalidateKeeps
  <2>4. ASSUME NEW l \in Loads, Load(l) PROVE PictureInv'
    BY <2>1, <2>4, LoadSnapshotKeeps, StartWorkersKeeps, PublishKeeps, LoadEndsKeeps, ReadKeeps
       DEF Load, Readers
  <2>5. QED BY <1>2, <2>2, <2>3, <2>4 DEF PictureNext, Works
<1>3. QED BY <1>1, <1>2

\* What is seen of a recording is that recording, whatever is opened, scrolled, stopped or
\* set to another range while threads load, for a recording of any length, a window of any
\* width and any number of workers the code makes: every column of a window that has not
\* been published late is the samples at its place, unless its cache was decoded into side
\* by side, by the workers of its load or by those of two loads.  Only such a cache, or a
\* source that is closed while it is read, ends the app; and until the range is set during
\* a load there is one load at a time.
THEOREM SeenIsTheRecording == PictureSpec => []PictureIsTheRecording
<1>1. PictureInit => PictureInv
  BY InitPictureInv
<1>2. PictureInv /\ [PictureNext]_picture_vars => PictureInv'
  BY NextKeepsPictureInv
<1>3. PictureInv => PictureIsTheRecording
  <2> SUFFICES ASSUME PictureInv PROVE PictureIsTheRecording
    OBVIOUS
  <2>1. vizThreads \subseteq Recording
    <3>1. vizThreads \subseteq 1 .. opened /\ opened \in 0 .. events /\ events \in 0 .. MaxEvents
      BY DEF PictureInv, ScreenInv
    <3>2. QED BY <3>1, SpectrogramAssumption DEF Recording
  <2>2. PictureTypeOK
    <3>1. \A l \in Loads, x \in Workers : readers[l][x].at # "done" => loader[l] = "await"
      BY OfLoad DEF ReadersInv
    <3>2. QED BY <2>1, <3>1 DEF PictureInv, ScreenInv, PictureTypeOK
  <2>3. WindowIsTheRecording
    BY DEF PictureInv, WindowInv, WindowIsTheRecording, Good, Sizes, Full
  <2>4. QED BY <2>2, <2>3 DEF PictureInv, PictureIsTheRecording
<1>4. QED BY <1>1, <1>2, <1>3, PTL DEF PictureSpec
================================================================================
