------------------------ MODULE RecordingSession_proofs ------------------------
(***************************************************************************)
(* Proofs about RecordingSession for every queue capacity, every number of *)
(* sessions and buffers, and every choice of recorder failures.            *)
(***************************************************************************)
EXTENDS RecordingSession, SequenceTheorems, TLAPS

--------------------------------------------------------------------------------
(***************************************************************************)
(* Concatenation: a buffer handed on keeps its place.                      *)
(***************************************************************************)
LEMMA Regroup ==
  ASSUME NEW S, NEW a \in Seq(S), NEW b \in Seq(S), NEW c \in Seq(S)
  PROVE  /\ a \o b \in Seq(S)
         /\ (a \o b) \o c = a \o (b \o c)
         /\ a \o <<>> = a
         /\ <<>> \o a = a
BY ConcatProperties, ConcatAssociative, ConcatEmptySeq

LEMMA HeadThenTail ==
  ASSUME NEW S, NEW q \in Seq(S), q # <<>>
  PROVE  /\ <<Head(q)>> \in Seq(S)
         /\ Tail(q) \in Seq(S)
         /\ Len(Tail(q)) = Len(q) - 1
         /\ <<Head(q)>> \o Tail(q) = q
<1>1. Head(q) \in S /\ Tail(q) \in Seq(S) /\ Len(Tail(q)) = Len(q) - 1
      /\ \A i \in 1..Len(Tail(q)) : Tail(q)[i] = q[i + 1]
  BY HeadTailProperties
<1>2. <<Head(q)>> \in Seq(S) /\ Len(<<Head(q)>>) = 1 /\ <<Head(q)>>[1] = q[1]
  BY <1>1
<1>3. /\ <<Head(q)>> \o Tail(q) \in Seq(S)
      /\ Len(<<Head(q)>> \o Tail(q)) = Len(<<Head(q)>>) + Len(Tail(q))
      /\ \A i \in 1..(Len(<<Head(q)>>) + Len(Tail(q))) :
           (<<Head(q)>> \o Tail(q))[i] =
             IF i <= Len(<<Head(q)>>) THEN <<Head(q)>>[i] ELSE Tail(q)[i - Len(<<Head(q)>>)]
  BY <1>1, <1>2, ConcatProperties
<1>4. Len(q) \in Nat /\ Len(<<Head(q)>> \o Tail(q)) = Len(q)
  BY <1>1, <1>2, <1>3, LenProperties
<1>5. \A i \in 1..Len(q) : (<<Head(q)>> \o Tail(q))[i] = q[i]
  <2>1. TAKE i \in 1..Len(q)
  <2>2. CASE i = 1
    BY <1>1, <1>2, <1>3, <1>4, <2>2
  <2>3. CASE ~(i = 1)
    <3>1. i - 1 \in 1..Len(Tail(q)) /\ (i - 1) + 1 = i
      BY <1>1, <1>4, <2>3
    <3>2. QED BY <1>1, <1>2, <1>3, <1>4, <2>3, <3>1
  <2>4. QED BY <2>2, <2>3
<1>6. QED
  BY <1>1, <1>2, <1>3, <1>4, <1>5, SeqEqual

--------------------------------------------------------------------------------
LEMMA InitIInv == Init => IInv
<1>1. SUFFICES ASSUME Init PROVE IInv
  OBVIOUS
<1>2. TypeOK
  <2>1. FlagsTyped
    BY <1>1 DEF Init, FlagsTyped
  <2>2. ThreadsTyped
    BY <1>1, SessionAssumption DEF Init, ThreadsTyped, Threads
  <2>3. BuffersTyped
    BY <1>1, SessionAssumption DEF Init, BuffersTyped
  <2>4. QED BY <2>1, <2>2, <2>3 DEF TypeOK
<1>3. Hands
  BY <1>1 DEF Init, Hands
<1>4. Detector /\ BeforeFirst
  BY <1>1 DEF Init, Detector, BeforeFirst
<1>5. Recording /\ FinishNeverAborts
  BY <1>1 DEF Init, Recording, FinishNeverAborts
<1>6. Conserved
  BY <1>1 DEF Init, Conserved
<1>7. QED BY <1>2, <1>3, <1>4, <1>5, <1>6 DEF IInv

LEMMA StutterKeepsIInv == IInv /\ UNCHANGED vars => IInv'
<1>1. SUFFICES ASSUME IInv, UNCHANGED vars PROVE IInv'
  OBVIOUS
<1>2. /\ UNCHANGED <<ui, enabled, posted, session, startRecord, rec, record, recHand, captured>>
      /\ UNCHANGED <<asr, asrHand, held, saved, useVad, bufferQueue>>
      /\ UNCHANGED <<dec, pipeline, input_finished, decode_thread_done, decoded, timed, due>>
  BY <1>1 DEF vars, uiVars, recVars, asrVars, nativeVars
<1>3. TypeOK'
  BY <1>1, <1>2 DEF IInv, TypeOK, FlagsTyped, ThreadsTyped, BuffersTyped
<1>4. Hands' /\ Detector' /\ BeforeFirst' /\ Conserved'
  BY <1>1, <1>2 DEF IInv, Hands, Detector, BeforeFirst, Conserved
<1>5. Recording' /\ FinishNeverAborts'
  BY <1>1, <1>2 DEF IInv, Recording, FinishNeverAborts
<1>6. QED BY <1>3, <1>4, <1>5 DEF IInv

--------------------------------------------------------------------------------
(***************************************************************************)
(* The UI thread.                                                          *)
(***************************************************************************)
LEMMA RecordKeepsIInv == IInv /\ PressRecord => IInv'
<1>1. SUFFICES ASSUME IInv, PressRecord PROVE IInv'
  OBVIOUS
<1>2. TypeOK'
  <2>1. FlagsTyped'
    BY <1>1 DEF IInv, TypeOK, FlagsTyped, PressRecord
  <2>2. ThreadsTyped'
    BY <1>1, SessionAssumption DEF IInv, TypeOK, ThreadsTyped, PressRecord, Session, Threads
  <2>3. BuffersTyped'
    BY <1>1 DEF IInv, TypeOK, BuffersTyped, PressRecord
  <2>4. QED BY <2>1, <2>2, <2>3 DEF TypeOK
<1>3. Hands'
  BY <1>1, SessionAssumption DEF IInv, TypeOK, ThreadsTyped, BuffersTyped, Hands, PressRecord, Session
<1>4. session' >= 1
  BY <1>1 DEF IInv, TypeOK, ThreadsTyped, PressRecord
<1>5. Detector' /\ BeforeFirst'
  <2>1. BeforeFirst'
    BY <1>4 DEF BeforeFirst
  <2>2. Detector'
    BY <1>1, SessionAssumption DEF IInv, TypeOK, ThreadsTyped, Detector, BeforeFirst, PressRecord
  <2>3. QED BY <2>1, <2>2
<1>6. Recording' /\ FinishNeverAborts'
  BY <1>1 DEF IInv, TypeOK, FlagsTyped, Recording, FinishNeverAborts, PressRecord
<1>7. Conserved'
  <2>1. SUFFICES ASSUME session' = 1 PROVE Conserved'
    BY DEF Conserved
  <2>2. session = 0 /\ 1 \in Session
    BY <1>1, <2>1, SessionAssumption DEF IInv, TypeOK, ThreadsTyped, PressRecord, Session
  <2>3. /\ timed' = <<>> /\ decoded' = <<>> /\ pipeline' = <<>> /\ held' = <<>>
        /\ asrHand'[1] = <<>> /\ bufferQueue' = <<>> /\ recHand'[1] = <<>>
        /\ captured'[1] = <<>>
    BY <1>1, <2>2 DEF IInv, Hands, BeforeFirst, PressRecord
  <2>4. <<>> \in Seq(Chunk)
    OBVIOUS
  <2>5. <<>> \o <<>> = <<>>
    BY <2>4, Regroup
  <2>6. QED BY <2>3, <2>5 DEF Conserved
<1>8. QED BY <1>2, <1>3, <1>5, <1>6, <1>7 DEF IInv

LEMMA OtherUiKeepsIInv ==
  IInv /\ (PressStop \/ PressPlay \/ FinishInput \/ RunPosted) => IInv'
<1>1. SUFFICES ASSUME IInv, PressStop \/ PressPlay \/ FinishInput \/ RunPosted PROVE IInv'
  OBVIOUS
<1>2. /\ session' = session
      /\ rec' = rec /\ record' = record /\ recHand' = recHand /\ captured' = captured
      /\ asr' = asr /\ asrHand' = asrHand /\ held' = held /\ useVad' = useVad
      /\ bufferQueue' = bufferQueue /\ dec' = dec /\ pipeline' = pipeline
      /\ decode_thread_done' = decode_thread_done /\ decoded' = decoded /\ timed' = timed
  BY <1>1 DEF PressStop, PressPlay, FinishInput, RunPosted, recVars, asrVars, nativeVars
<1>3. TypeOK'
  <2>1. FlagsTyped'
    BY <1>1, <1>2 DEF IInv, TypeOK, FlagsTyped, PressStop, PressPlay, FinishInput, RunPosted,
                      nativeVars
  <2>2. posted' \in 0..MaxPosted
    BY <1>1, SessionAssumption DEF IInv, TypeOK, ThreadsTyped, PressStop, PressPlay, FinishInput,
                                   RunPosted
  <2>3. ThreadsTyped' /\ BuffersTyped'
    BY <1>1, <1>2, <2>2 DEF IInv, TypeOK, ThreadsTyped, BuffersTyped
  <2>4. QED BY <2>1, <2>3 DEF TypeOK
<1>4. Hands' /\ Detector' /\ BeforeFirst' /\ Conserved'
  BY <1>1, <1>2 DEF IInv, Hands, Detector, BeforeFirst, Conserved
<1>5. Recording' /\ FinishNeverAborts'
  BY <1>1 DEF IInv, TypeOK, FlagsTyped, Recording, FinishNeverAborts, PressStop, PressPlay, FinishInput,
              RunPosted, nativeVars
<1>6. QED BY <1>3, <1>4, <1>5 DEF IInv

--------------------------------------------------------------------------------
(***************************************************************************)
(* The recorder thread.                                                    *)
(***************************************************************************)
LEMMA QuietRecorderKeepsIInv ==
  ASSUME IInv, NEW s \in Session,
         \/ InitRecorder(s) \/ InitRecorderFailed(s) \/ StartRecording(s) \/ RecTest(s)
         \/ RecButton(s) \/ RecPost(s) \/ RecRelease(s)
  PROVE  IInv'
<1>1. /\ session' = session /\ ui' = ui /\ enabled' = enabled
      /\ recHand' = recHand /\ captured' = captured
      /\ asr' = asr /\ asrHand' = asrHand /\ held' = held /\ useVad' = useVad
      /\ bufferQueue' = bufferQueue /\ dec' = dec /\ pipeline' = pipeline
      /\ input_finished' = input_finished
      /\ decode_thread_done' = decode_thread_done /\ decoded' = decoded /\ timed' = timed
      /\ startRecord' = startRecord \/ startRecord' = FALSE
  BY DEF InitRecorder, InitRecorderFailed, StartRecording, RecTest, RecButton, RecPost,
         RecRelease, RecGoto, Post, uiVars, asrVars, nativeVars
<1>2. PICK p \in Threads : rec[s] \notin {"off", "put"} /\ p # "put" /\ rec' = [rec EXCEPT ![s] = p]
  BY DEF InitRecorder, InitRecorderFailed, StartRecording, RecTest, RecButton, RecPost,
         RecRelease, RecGoto, Threads, IInv, Hands
<1>3. posted' \in 0..MaxPosted /\ record' \in 0..MaxSessions
  BY SessionAssumption DEF InitRecorder, InitRecorderFailed, StartRecording, RecTest, RecButton, RecPost,
         RecRelease, Post, uiVars, IInv, TypeOK, ThreadsTyped, Session
<1>4. TypeOK'
  <2>1. FlagsTyped'
    BY <1>1 DEF IInv, TypeOK, FlagsTyped
  <2>2. ThreadsTyped' /\ BuffersTyped'
    BY <1>1, <1>2, <1>3 DEF IInv, TypeOK, ThreadsTyped, BuffersTyped
  <2>3. QED BY <2>1, <2>2 DEF TypeOK
<1>5. Hands'
  BY <1>1, <1>2 DEF IInv, TypeOK, ThreadsTyped, BuffersTyped, Hands
<1>6. Detector' /\ BeforeFirst' /\ Conserved'
  BY <1>1 DEF IInv, Detector, BeforeFirst, Conserved
<1>7. Recording' /\ FinishNeverAborts'
  BY <1>1 DEF IInv, TypeOK, FlagsTyped, Recording, FinishNeverAborts
<1>8. QED BY <1>4, <1>5, <1>6, <1>7 DEF IInv

\* In a first session the thread that moves is the thread of that session.
LEMMA OnlyFirst ==
  ASSUME IInv, NEW s \in Session, session = 1,
         rec[s] # "off" \/ asr[s] # "off" \/ dec[s] # "off"
  PROVE  s = 1
BY DEF IInv, Hands, Session

LEMMA StartedFirst ==
  ASSUME IInv, NEW s \in Session,
         rec[s] # "off" \/ asr[s] # "off" \/ dec[s] # "off"
  PROVE  session # 0
BY DEF IInv, Hands, Session

LEMMA ChainTyped ==
  ASSUME BuffersTyped, 1 \in Session
  PROVE  /\ timed \o decoded \in Seq(Chunk)
         /\ timed \o decoded \o pipeline \in Seq(Chunk)
         /\ timed \o decoded \o pipeline \o held \in Seq(Chunk)
         /\ timed \o decoded \o pipeline \o held \o asrHand[1] \in Seq(Chunk)
         /\ timed \o decoded \o pipeline \o held \o asrHand[1] \o bufferQueue \in Seq(Chunk)
<1>1. timed \o decoded \in Seq(Chunk)
  BY Regroup DEF BuffersTyped
<1>2. timed \o decoded \o pipeline \in Seq(Chunk)
  BY <1>1, Regroup DEF BuffersTyped
<1>3. timed \o decoded \o pipeline \o held \in Seq(Chunk)
  BY <1>2, Regroup DEF BuffersTyped
<1>4. timed \o decoded \o pipeline \o held \o asrHand[1] \in Seq(Chunk)
  BY <1>3, Regroup DEF BuffersTyped
<1>5. QED
  BY <1>1, <1>2, <1>3, <1>4, Regroup DEF BuffersTyped

LEMMA ReadKeepsIInv ==
  ASSUME IInv, NEW s \in Session, RecRead(s)
  PROVE  IInv'
<1> DEFINE c == <<s, Len(captured[s]) + 1>>
<1>1. /\ rec[s] = "read"
      /\ session' = session /\ ui' = ui /\ enabled' = enabled /\ posted' = posted
      /\ record' = record
      /\ asr' = asr /\ asrHand' = asrHand /\ held' = held /\ useVad' = useVad
      /\ bufferQueue' = bufferQueue /\ dec' = dec /\ pipeline' = pipeline
      /\ input_finished' = input_finished
      /\ decode_thread_done' = decode_thread_done /\ decoded' = decoded /\ timed' = timed
      /\ startRecord' = startRecord
  BY DEF RecRead, RecGoto, uiVars, asrVars, nativeVars
<1>2. recHand[s] = <<>>
  BY <1>1 DEF IInv, Hands
<1>3. \/ /\ c \in Chunk
         /\ captured' = [captured EXCEPT ![s] = Append(@, c)]
         /\ recHand' = [recHand EXCEPT ![s] = <<c>>]
         /\ rec' = [rec EXCEPT ![s] = "put"]
      \/ /\ captured' = captured /\ recHand' = recHand
         /\ rec' = [rec EXCEPT ![s] = "button"]
  BY SMTT(30), SessionAssumption DEF RecRead, RecGoto, Chunk, IInv, TypeOK, BuffersTyped
<1> HIDE DEF c
<1>4. TypeOK'
  <2>1. FlagsTyped'
    BY <1>1 DEF IInv, TypeOK, FlagsTyped
  <2>2. ThreadsTyped'
    BY <1>1, <1>3 DEF IInv, TypeOK, ThreadsTyped, Threads
  <2>3. BuffersTyped'
    <3>1. CASE captured' = captured /\ recHand' = recHand
      BY <1>1, <3>1 DEF IInv, TypeOK, BuffersTyped
    <3>2. CASE /\ c \in Chunk
               /\ captured' = [captured EXCEPT ![s] = Append(@, c)]
               /\ recHand' = [recHand EXCEPT ![s] = <<c>>]
      <4>1. Append(captured[s], c) \in Seq(Chunk) /\ <<c>> \in Seq(Chunk)
        BY <3>2, AppendProperties DEF IInv, TypeOK, BuffersTyped
      <4>2. QED BY <1>1, <3>2, <4>1 DEF IInv, TypeOK, BuffersTyped
    <3>3. QED BY <1>3, <3>1, <3>2
  <2>4. QED BY <2>1, <2>2, <2>3 DEF TypeOK
<1>5. Hands'
  <2>1. CASE captured' = captured /\ recHand' = recHand /\ rec' = [rec EXCEPT ![s] = "button"]
    BY <1>1, <2>1 DEF IInv, TypeOK, ThreadsTyped, BuffersTyped, Hands
  <2>2. CASE recHand' = [recHand EXCEPT ![s] = <<c>>] /\ rec' = [rec EXCEPT ![s] = "put"]
    <3>1. Len(<<c>>) <= 1
      OBVIOUS
    <3>2. QED BY <1>1, <2>2, <3>1 DEF IInv, TypeOK, ThreadsTyped, BuffersTyped, Hands
  <2>3. QED BY <1>3, <2>1, <2>2
<1>6. session # 0
  BY <1>1, StartedFirst
<1>7. Detector' /\ BeforeFirst' /\ Recording' /\ FinishNeverAborts'
  BY <1>1, <1>6 DEF IInv, Detector, BeforeFirst, Recording, FinishNeverAborts
<1>8. Conserved'
  <2>1. SUFFICES ASSUME session = 1 PROVE Conserved'
    BY <1>1 DEF Conserved
  <2>2. s = 1
    BY <1>1, <2>1, OnlyFirst
  <2>3. CASE captured' = captured /\ recHand' = recHand
    BY <1>1, <2>3 DEF IInv, Conserved
  <2>4. CASE /\ c \in Chunk
             /\ captured' = [captured EXCEPT ![s] = Append(@, c)]
             /\ recHand' = [recHand EXCEPT ![s] = <<c>>]
    <3> DEFINE X == timed \o decoded \o pipeline \o held \o asrHand[1] \o bufferQueue
    <3>1. X \in Seq(Chunk)
      BY <2>2, ChainTyped DEF IInv, TypeOK
    <3>2. captured[1] = X \o <<>>
      BY <1>2, <2>1, <2>2 DEF IInv, Conserved
    <3>3. timed' \o decoded' \o pipeline' \o held' \o asrHand'[1] \o bufferQueue' = X
      BY <1>1
    <3>4. captured'[1] = Append(captured[1], c) /\ recHand'[1] = <<c>>
      BY <2>2, <2>4 DEF IInv, TypeOK, BuffersTyped
    <3> HIDE DEF X
    <3>5. captured[1] = X
      BY <3>1, <3>2, Regroup
    <3>6. Append(X, c) = X \o <<c>>
      BY <2>4, <3>1, AppendIsConcat
    <3>7. QED BY <3>3, <3>4, <3>5, <3>6 DEF Conserved
  <2>5. QED BY <1>3, <2>3, <2>4
<1>9. QED BY <1>4, <1>5, <1>7, <1>8 DEF IInv

LEMMA PutKeepsIInv ==
  ASSUME IInv, NEW s \in Session, RecPut(s)
  PROVE  IInv'
<1>1. /\ rec[s] = "put" /\ rec' = [rec EXCEPT ![s] = "button"]
      /\ recHand' = [recHand EXCEPT ![s] = <<>>]
      /\ Len(bufferQueue) < QueueCapacity
      /\ bufferQueue' = bufferQueue \o recHand[s]
      /\ session' = session /\ ui' = ui /\ enabled' = enabled /\ posted' = posted
      /\ record' = record /\ captured' = captured
      /\ asr' = asr /\ asrHand' = asrHand /\ held' = held /\ useVad' = useVad
      /\ dec' = dec /\ pipeline' = pipeline
      /\ input_finished' = input_finished
      /\ decode_thread_done' = decode_thread_done /\ decoded' = decoded /\ timed' = timed
      /\ startRecord' = startRecord
  BY DEF RecPut, RecGoto, uiVars, asrVars, nativeVars
<1>2. /\ bufferQueue \in Seq(Chunk) /\ recHand[s] \in Seq(Chunk)
      /\ recHand[s] \in Seq(Chunk) /\ Len(recHand[s]) <= 1
  BY DEF IInv, TypeOK, BuffersTyped, Hands
<1>3. TypeOK'
  <2>1. FlagsTyped'
    BY <1>1 DEF IInv, TypeOK, FlagsTyped
  <2>2. ThreadsTyped'
    BY <1>1 DEF IInv, TypeOK, ThreadsTyped, Threads
  <2>3. /\ bufferQueue \o recHand[s] \in Seq(Chunk)
        /\ Len(bufferQueue \o recHand[s]) = Len(bufferQueue) + Len(recHand[s])
    BY ONLY <1>2, ConcatProperties
  <2>4. bufferQueue' \in Seq(Chunk) /\ Len(bufferQueue') <= QueueCapacity
    BY <1>1, <1>2, <2>3, LenProperties, SessionAssumption
  <2>5. BuffersTyped'
    BY <1>1, <2>4 DEF IInv, TypeOK, BuffersTyped
  <2>6. QED BY <2>1, <2>2, <2>5 DEF TypeOK
<1>4. Hands'
  BY <1>1 DEF IInv, TypeOK, ThreadsTyped, BuffersTyped, Hands
<1>5. session # 0
  BY <1>1, StartedFirst
<1>6. Detector' /\ BeforeFirst' /\ Recording' /\ FinishNeverAborts'
  BY <1>1, <1>5 DEF IInv, Detector, BeforeFirst, Recording, FinishNeverAborts
<1>7. Conserved'
  <2>1. SUFFICES ASSUME session = 1 PROVE Conserved'
    BY <1>1 DEF Conserved
  <2>2. s = 1
    BY <1>1, <2>1, OnlyFirst
  <2> DEFINE X == timed \o decoded \o pipeline \o held \o asrHand[1]
  <2>3. X \in Seq(Chunk)
    BY <2>2, ChainTyped DEF IInv, TypeOK
  <2>4. captured[1] = (X \o bufferQueue) \o recHand[1]
    BY <2>1 DEF IInv, Conserved
  <2>5. /\ timed' \o decoded' \o pipeline' \o held' \o asrHand'[1] = X
        /\ bufferQueue' = bufferQueue \o recHand[1] /\ recHand'[1] = <<>>
        /\ captured' = captured
    BY <1>1, <2>2 DEF IInv, TypeOK, BuffersTyped
  <2> HIDE DEF X
  <2> DEFINE q == bufferQueue
             r == recHand[1]
  <2>6. q \in Seq(Chunk) /\ r \in Seq(Chunk)
    BY <1>2, <2>2
  <2> HIDE DEF q, r
  <2>7. (X \o q) \o r = X \o (q \o r)
    BY ONLY <2>3, <2>6, ConcatAssociative, SMTT(30)
  <2>8. q \o r \in Seq(Chunk)
    BY ONLY <2>6, ConcatProperties
  <2>9. X \o (q \o r) \in Seq(Chunk)
    BY ONLY <2>3, <2>8, ConcatProperties
  <2>10. (X \o (q \o r)) \o <<>> = X \o (q \o r)
    BY ONLY <2>9, ConcatEmptySeq
  <2>11. QED BY <2>4, <2>5, <2>7, <2>10 DEF Conserved, q, r
<1>8. QED BY <1>3, <1>4, <1>6, <1>7 DEF IInv

LEMMA RecorderKeepsIInv ==
  ASSUME IInv, NEW s \in Session, Recorder(s)
  PROVE  IInv'
BY QuietRecorderKeepsIInv, ReadKeepsIInv, PutKeepsIInv DEF Recorder

--------------------------------------------------------------------------------
(***************************************************************************)
(* The ASR thread.                                                         *)
(***************************************************************************)
LEMMA QuietAsrKeepsIInv ==
  ASSUME IInv, NEW s \in Session,
         AsrStart(s) \/ AsrTest(s) \/ AsrPoll(s) \/ AsrSave(s) \/ AsrPost(s)
  PROVE  IInv'
<1>1. /\ session' = session /\ ui' = ui /\ enabled' = enabled
      /\ startRecord' = startRecord
      /\ rec' = rec /\ record' = record /\ recHand' = recHand /\ captured' = captured
      /\ asrHand' = asrHand /\ useVad' = useVad
      /\ bufferQueue' = bufferQueue /\ dec' = dec /\ pipeline' = pipeline
      /\ input_finished' = input_finished
      /\ decode_thread_done' = decode_thread_done /\ decoded' = decoded /\ timed' = timed
  BY DEF AsrStart, AsrTest, AsrPoll, AsrSave, AsrPost, Post, uiVars, recVars, nativeVars
<1>2. PICK p \in Threads : /\ asr[s] \notin {"off", "accept"} /\ p \notin {"accept", "start"}
                           /\ asr' = [asr EXCEPT ![s] = p]
  BY DEF AsrStart, AsrTest, AsrPoll, AsrSave, AsrPost, AsrGoto, Threads
<1>3. posted' \in 0..MaxPosted
  BY SessionAssumption DEF AsrStart, AsrTest, AsrPoll, AsrSave, AsrPost, Post, uiVars, IInv,
                           TypeOK, ThreadsTyped
<1>4. session # 0
  BY <1>2, StartedFirst
<1>5. held' = held \/ (asr[s] = "start" /\ held' = <<>>)
  BY DEF AsrStart, AsrTest, AsrPoll, AsrSave, AsrPost, AsrGoto
<1>6. TypeOK'
  <2>1. FlagsTyped'
    BY <1>1 DEF IInv, TypeOK, FlagsTyped
  <2>2. ThreadsTyped'
    BY <1>1, <1>2, <1>3 DEF IInv, TypeOK, ThreadsTyped
  <2>3. held \in Seq(Chunk) /\ <<>> \in Seq(Chunk)
    BY DEF IInv, TypeOK, BuffersTyped
  <2>4. held' \in Seq(Chunk)
    BY <1>5, <2>3
  <2>5. BuffersTyped'
    BY <1>1, <2>4 DEF IInv, TypeOK, BuffersTyped
  <2>6. QED BY <2>1, <2>2, <2>5 DEF TypeOK
<1>7. Hands'
  BY <1>1, <1>2 DEF IInv, TypeOK, ThreadsTyped, Hands
<1>8. Detector'
  BY <1>1, <1>2, <1>5 DEF IInv, TypeOK, ThreadsTyped, Detector
<1>9. BeforeFirst' /\ Recording' /\ FinishNeverAborts'
  BY <1>1, <1>4 DEF IInv, BeforeFirst, Recording, FinishNeverAborts
<1>10. Conserved'
  <2>1. SUFFICES ASSUME session = 1 PROVE Conserved'
    BY <1>1 DEF Conserved
  <2>2. s = 1
    BY <1>2, <2>1, OnlyFirst
  <2>3. held' = held
    BY <1>5, <2>1, <2>2 DEF IInv, Detector
  <2>4. QED BY <1>1, <2>3 DEF IInv, Conserved
<1>11. QED BY <1>6, <1>7, <1>8, <1>9, <1>10 DEF IInv

LEMMA TakeKeepsIInv ==
  ASSUME IInv, NEW s \in Session, AsrTake(s)
  PROVE  IInv'
<1>1. /\ asr[s] = "take" /\ asr' = [asr EXCEPT ![s] = "accept"]
      /\ bufferQueue # <<>>
      /\ asrHand' = [asrHand EXCEPT ![s] = <<Head(bufferQueue)>>]
      /\ bufferQueue' = Tail(bufferQueue)
      /\ session' = session /\ ui' = ui /\ enabled' = enabled /\ posted' = posted
      /\ startRecord' = startRecord
      /\ rec' = rec /\ record' = record /\ recHand' = recHand /\ captured' = captured
      /\ held' = held /\ useVad' = useVad
      /\ dec' = dec /\ pipeline' = pipeline
      /\ input_finished' = input_finished
      /\ decode_thread_done' = decode_thread_done /\ decoded' = decoded /\ timed' = timed
  BY DEF AsrTake, AsrGoto, uiVars, recVars, nativeVars
<1>2. /\ bufferQueue \in Seq(Chunk) /\ Len(bufferQueue) <= QueueCapacity
      /\ asrHand[s] = <<>>
  BY <1>1 DEF IInv, TypeOK, BuffersTyped, Hands
<1>3. /\ <<Head(bufferQueue)>> \in Seq(Chunk) /\ Tail(bufferQueue) \in Seq(Chunk)
      /\ Len(Tail(bufferQueue)) = Len(bufferQueue) - 1
      /\ <<Head(bufferQueue)>> \o Tail(bufferQueue) = bufferQueue
  BY <1>1, <1>2, HeadThenTail
<1>4. TypeOK'
  <2>1. FlagsTyped'
    BY <1>1 DEF IInv, TypeOK, FlagsTyped
  <2>2. ThreadsTyped'
    BY <1>1 DEF IInv, TypeOK, ThreadsTyped, Threads
  <2>3. Len(bufferQueue') <= QueueCapacity
    BY <1>1, <1>2, <1>3, LenProperties, SessionAssumption
  <2>4. BuffersTyped'
    BY <1>1, <1>3, <2>3 DEF IInv, TypeOK, BuffersTyped
  <2>5. QED BY <2>1, <2>2, <2>4 DEF TypeOK
<1>5. Hands'
  BY <1>1 DEF IInv, TypeOK, ThreadsTyped, BuffersTyped, Hands
<1>6. session # 0
  BY <1>1, StartedFirst
<1>7. Detector' /\ BeforeFirst' /\ Recording' /\ FinishNeverAborts'
  BY <1>1, <1>6 DEF IInv, TypeOK, ThreadsTyped, Detector, BeforeFirst, Recording,
                    FinishNeverAborts
<1>8. Conserved'
  <2>1. SUFFICES ASSUME session = 1 PROVE Conserved'
    BY <1>1 DEF Conserved
  <2>2. s = 1
    BY <1>1, <2>1, OnlyFirst
  <2> DEFINE X == timed \o decoded \o pipeline \o held
             h == <<Head(bufferQueue)>>
             q == Tail(bufferQueue)
  <2>3. X \in Seq(Chunk)
    BY <2>2, ChainTyped DEF IInv, TypeOK
  <2>4. captured[1] = ((X \o <<>>) \o bufferQueue) \o recHand[1]
    BY <1>2, <2>1, <2>2 DEF IInv, Conserved
  <2>5. /\ timed' \o decoded' \o pipeline' \o held' = X
        /\ bufferQueue' = q /\ asrHand'[1] = h
        /\ captured' = captured /\ recHand' = recHand
    BY <1>1, <2>2 DEF IInv, TypeOK, BuffersTyped
  <2>6. h \in Seq(Chunk) /\ q \in Seq(Chunk)
    BY <1>3
  <2>7. h \o q = bufferQueue
    BY <1>3
  <2> HIDE DEF X, h, q
  <2>8. (X \o h) \o q = X \o (h \o q)
    BY ONLY <2>3, <2>6, ConcatAssociative, SMTT(30)
  <2>9. X \o <<>> = X
    BY ONLY <2>3, ConcatEmptySeq
  <2>10. QED BY <2>4, <2>5, <2>7, <2>8, <2>9 DEF Conserved
<1>9. QED BY <1>4, <1>5, <1>7, <1>8 DEF IInv

LEMMA AcceptKeepsIInv ==
  ASSUME IInv, NEW s \in Session, AsrAccept(s)
  PROVE  IInv'
<1>1. /\ asr[s] = "accept" /\ asr' = [asr EXCEPT ![s] = "test"]
      /\ asrHand' = [asrHand EXCEPT ![s] = <<>>]
      /\ session' = session /\ ui' = ui /\ enabled' = enabled /\ posted' = posted
      /\ startRecord' = startRecord
      /\ rec' = rec /\ record' = record /\ recHand' = recHand /\ captured' = captured
      /\ useVad' = useVad /\ bufferQueue' = bufferQueue
      /\ dec' = dec /\ input_finished' = input_finished
      /\ decode_thread_done' = decode_thread_done /\ decoded' = decoded /\ timed' = timed
  BY DEF AsrAccept, AsrGoto, uiVars, recVars
<1>2. /\ pipeline \in Seq(Chunk) /\ held \in Seq(Chunk) /\ asrHand[s] \in Seq(Chunk)
      /\ asrHand \in [Session -> Seq(Chunk)] /\ asr \in [Session -> Threads]
      /\ useVad \in BOOLEAN
  BY DEF IInv, TypeOK, FlagsTyped, ThreadsTyped, BuffersTyped
<1>3. \/ useVad /\ pipeline' = pipeline \o held /\ held' = asrHand[s]
      \/ ~useVad /\ held = <<>> /\ held' = <<>> /\ pipeline' = pipeline \o asrHand[s]
  BY <1>2 DEF AsrAccept, IInv, Detector
<1>4. pipeline' \in Seq(Chunk) /\ held' \in Seq(Chunk)
  <2>1. pipeline \o held \in Seq(Chunk) /\ pipeline \o asrHand[s] \in Seq(Chunk)
    BY ONLY <1>2, ConcatProperties
  <2>2. QED BY <1>2, <1>3, <2>1
<1>5. TypeOK'
  <2>1. FlagsTyped'
    BY <1>1 DEF IInv, TypeOK, FlagsTyped
  <2>2. ThreadsTyped'
    BY <1>1 DEF IInv, TypeOK, ThreadsTyped, Threads
  <2>3. BuffersTyped'
    BY <1>1, <1>4 DEF IInv, TypeOK, BuffersTyped
  <2>4. QED BY <2>1, <2>2, <2>3 DEF TypeOK
<1>6. Hands'
  BY <1>1 DEF IInv, TypeOK, ThreadsTyped, BuffersTyped, Hands
<1>7. session # 0 /\ (session = 1 => s = 1)
  BY <1>1, StartedFirst, OnlyFirst
<1>8. Detector'
  BY <1>1, <1>2, <1>3, <1>7 DEF Detector
<1>9. BeforeFirst' /\ Recording' /\ FinishNeverAborts'
  BY <1>1, <1>7 DEF IInv, BeforeFirst, Recording, FinishNeverAborts
<1>10. Conserved'
  <2>1. SUFFICES ASSUME session = 1 PROVE Conserved'
    BY <1>1 DEF Conserved
  <2> DEFINE T == timed \o decoded
             p == pipeline
             a == asrHand[1]
  <2>2. s = 1
    BY <1>7, <2>1
  <2>3. T \in Seq(Chunk) /\ p \in Seq(Chunk) /\ held \in Seq(Chunk) /\ a \in Seq(Chunk)
    BY <1>2, <2>2, ChainTyped DEF IInv, TypeOK
  <2>4. captured[1] = T \o p \o held \o a \o bufferQueue \o recHand[1]
    BY <2>1 DEF IInv, Conserved
  <2>5. /\ timed' \o decoded' = T /\ asrHand'[1] = <<>>
        /\ bufferQueue' = bufferQueue /\ captured' = captured /\ recHand' = recHand
    BY <1>1, <1>2, <2>2
  <2>6. \/ pipeline' = p \o held /\ held' = a
        \/ held = <<>> /\ held' = <<>> /\ pipeline' = p \o a
    BY <1>3, <2>2
  <2> HIDE DEF T, p, a
  <2>7. T \o (p \o held) \o a \o <<>> = T \o p \o held \o a
    <3>1. T \o (p \o held) = T \o p \o held
      <4>1. T \in Seq(Chunk) /\ p \in Seq(Chunk) /\ held \in Seq(Chunk)
        BY <2>3
      <4>2. QED BY ONLY <4>1, ConcatAssociative, SMTT(30)
    <3>2. T \o p \in Seq(Chunk)
      BY ONLY <2>3, ConcatProperties
    <3>3. T \o p \o held \in Seq(Chunk)
      BY ONLY <2>3, <3>2, ConcatProperties
    <3>4. T \o p \o held \o a \in Seq(Chunk)
      BY ONLY <2>3, <3>3, ConcatProperties
    <3>5. T \o p \o held \o a \o <<>> = T \o p \o held \o a
      BY ONLY <3>4, ConcatEmptySeq
    <3>6. QED BY ONLY <3>1, <3>5
  <2>8. T \o (p \o a) \o <<>> \o <<>> = T \o p \o <<>> \o a
    <3>1. T \in Seq(Chunk) /\ p \in Seq(Chunk)
      BY <2>3
    <3>2. ASSUME NEW u \in Seq(Chunk) PROVE T \o (p \o u) = T \o p \o u
      BY ONLY u \in Seq(Chunk), <3>1, ConcatAssociative, SMTT(30)
    <3>3. T \o p \in Seq(Chunk)
      BY ONLY <3>1, ConcatProperties
    <3>4. T \o p \o a \in Seq(Chunk)
      BY ONLY <2>3, <3>3, ConcatProperties
    <3>5. T \o p \o a \o <<>> = T \o p \o a
      BY ONLY <3>4, ConcatEmptySeq
    <3>6. T \o p \o <<>> = T \o p
      BY ONLY <3>3, ConcatEmptySeq
    <3>7. QED BY ONLY <2>3, <3>2, <3>5, <3>6
  <2>9. timed' \o decoded' \o pipeline' \o held' \o asrHand'[1] = T \o p \o held \o a
    BY <2>5, <2>6, <2>7, <2>8
  <2>10. QED BY <2>4, <2>5, <2>9 DEF Conserved
<1>11. QED BY <1>5, <1>6, <1>8, <1>9, <1>10 DEF IInv

LEMMA FlushKeepsIInv ==
  ASSUME IInv, NEW s \in Session, AsrFlush(s)
  PROVE  IInv'
<1>1. /\ asr[s] = "flush" /\ asr' = [asr EXCEPT ![s] = "poll"]
      /\ asrHand' = asrHand
      /\ session' = session /\ ui' = ui /\ enabled' = enabled /\ posted' = posted
      /\ startRecord' = startRecord
      /\ rec' = rec /\ record' = record /\ recHand' = recHand /\ captured' = captured
      /\ useVad' = useVad /\ bufferQueue' = bufferQueue
      /\ dec' = dec /\ input_finished' = input_finished
      /\ decode_thread_done' = decode_thread_done /\ decoded' = decoded /\ timed' = timed
  BY DEF AsrFlush, AsrGoto, uiVars, recVars
<1>2. /\ pipeline \in Seq(Chunk) /\ held \in Seq(Chunk) /\ asr \in [Session -> Threads]
      /\ <<>> \in Seq(Chunk)
  BY DEF IInv, TypeOK, ThreadsTyped, BuffersTyped
<1>3. \/ pipeline' = pipeline \o held /\ held' = <<>>
      \/ pipeline' = pipeline /\ held' = held
  BY DEF AsrFlush
<1>4. pipeline' \in Seq(Chunk) /\ held' \in Seq(Chunk)
  <2>1. pipeline \o held \in Seq(Chunk)
    BY ONLY <1>2, ConcatProperties
  <2>2. QED BY <1>2, <1>3, <2>1
<1>5. TypeOK'
  <2>1. FlagsTyped'
    BY <1>1 DEF IInv, TypeOK, FlagsTyped
  <2>2. ThreadsTyped'
    BY <1>1 DEF IInv, TypeOK, ThreadsTyped, Threads
  <2>3. BuffersTyped'
    BY <1>1, <1>4 DEF IInv, TypeOK, BuffersTyped
  <2>4. QED BY <2>1, <2>2, <2>3 DEF TypeOK
<1>6. Hands'
  BY <1>1 DEF IInv, TypeOK, ThreadsTyped, Hands
<1>7. session # 0 /\ (session = 1 => s = 1)
  BY <1>1, StartedFirst, OnlyFirst
<1>8. Detector'
  BY <1>1, <1>2, <1>3, <1>7 DEF IInv, Detector
<1>9. BeforeFirst' /\ Recording' /\ FinishNeverAborts'
  BY <1>1, <1>7 DEF IInv, BeforeFirst, Recording, FinishNeverAborts
<1>10. Conserved'
  <2>1. SUFFICES ASSUME session = 1 PROVE Conserved'
    BY <1>1 DEF Conserved
  <2> DEFINE T == timed \o decoded
             p == pipeline
  <2>2. s = 1
    BY <1>7, <2>1
  <2>3. T \in Seq(Chunk) /\ p \in Seq(Chunk) /\ held \in Seq(Chunk)
    BY <1>2, <2>2, ChainTyped DEF IInv, TypeOK
  <2>4. asrHand[1] = <<>>
    BY <1>1, <2>2 DEF IInv, Hands
  <2>5. captured[1] = T \o p \o held \o <<>> \o bufferQueue \o recHand[1]
    BY <2>1, <2>4 DEF IInv, Conserved
  <2>6. \/ pipeline' = p \o held /\ held' = <<>>
        \/ pipeline' = p /\ held' = held
    BY <1>3
  <2>7. timed' \o decoded' = T
    BY <1>1
  <2> HIDE DEF T, p
  <2>8. T \o (p \o held) \o <<>> \o <<>> = T \o p \o held \o <<>>
    <3>1. T \o (p \o held) = T \o p \o held
      <4>1. T \in Seq(Chunk) /\ p \in Seq(Chunk) /\ held \in Seq(Chunk)
        BY <2>3
      <4>2. QED BY ONLY <4>1, ConcatAssociative, SMTT(30)
    <3>2. T \o p \in Seq(Chunk)
      BY ONLY <2>3, ConcatProperties
    <3>3. T \o p \o held \in Seq(Chunk)
      BY ONLY <2>3, <3>2, ConcatProperties
    <3>4. T \o p \o held \o <<>> = T \o p \o held
      BY ONLY <3>3, ConcatEmptySeq
    <3>5. QED BY ONLY <3>1, <3>4
  <2>9. timed' \o decoded' \o pipeline' \o held' \o <<>> = T \o p \o held \o <<>>
    BY <2>6, <2>7, <2>8
  <2>10. QED BY <1>1, <2>4, <2>5, <2>9 DEF Conserved
<1>11. QED BY <1>5, <1>6, <1>8, <1>9, <1>10 DEF IInv

LEMMA AsrKeepsIInv ==
  ASSUME IInv, NEW s \in Session, Asr(s)
  PROVE  IInv'
BY QuietAsrKeepsIInv, TakeKeepsIInv, AcceptKeepsIInv, FlushKeepsIInv DEF Asr

--------------------------------------------------------------------------------
(***************************************************************************)
(* The decode thread.                                                      *)
(***************************************************************************)
\* What is decoded moves from the pipeline to the words, or with them to the result.
LEMMA DecodeMovesText ==
  ASSUME BuffersTyped, NEW s \in Session, Decode(s)
  PROVE  /\ pipeline' \in Seq(Chunk) /\ decoded' \in Seq(Chunk) /\ timed' \in Seq(Chunk)
         /\ timed' \o decoded' \o pipeline' = timed \o decoded \o pipeline
<1> DEFINE w == Append(decoded, Head(pipeline))
           h == <<Head(pipeline)>>
           r == Tail(pipeline)
           T == timed
           D == decoded
<1>1. pipeline # <<>> /\ pipeline' = r
  BY DEF Decode
<1>2. \/ decoded' = w /\ timed' = timed
      \/ decoded' = <<>> /\ timed' = timed \o w
  BY DEF Decode
<1>3. T \in Seq(Chunk) /\ D \in Seq(Chunk) /\ <<>> \in Seq(Chunk)
  BY DEF BuffersTyped
<1>4. /\ h \in Seq(Chunk) /\ r \in Seq(Chunk)
      /\ h \o r = pipeline /\ w = D \o h
  <2>1. pipeline \in Seq(Chunk) /\ pipeline # <<>>
    BY <1>1 DEF BuffersTyped
  <2>2. Head(pipeline) \in Chunk
    BY <2>1, HeadTailProperties
  <2>3. QED BY <1>3, <2>1, <2>2, HeadThenTail, AppendIsConcat
<1>5. /\ w \in Seq(Chunk) /\ timed \o w \in Seq(Chunk)
      /\ timed \o w \o r = timed \o decoded \o pipeline
      /\ timed \o w \o <<>> \o r = timed \o decoded \o pipeline
  <2>1. h \in Seq(Chunk) /\ r \in Seq(Chunk)
    BY <1>4
  <2> HIDE DEF w, h, r, T, D
  <2>2. D \o h \in Seq(Chunk) /\ T \o D \in Seq(Chunk)
    BY ONLY <1>3, <2>1, ConcatProperties
  <2>3. T \o (D \o h) \in Seq(Chunk)
    BY ONLY <1>3, <2>2, ConcatProperties
  <2>4. T \o (D \o h) = T \o D \o h
    BY ONLY <1>3, <2>1, ConcatAssociative, SMTT(30)
  <2>5. ASSUME NEW u \in Seq(Chunk) PROVE u \o h \o r = u \o (h \o r)
    BY ONLY u \in Seq(Chunk), <2>1, ConcatAssociative, SMTT(30)
  <2>6. T \o D \o h \o r = T \o D \o (h \o r)
    BY ONLY <2>2, <2>5
  <2>7. T \o (D \o h) \o <<>> = T \o (D \o h)
    BY ONLY <2>3, ConcatEmptySeq
  <2>8. w = D \o h /\ h \o r = pipeline
    BY <1>4
  <2>9. QED BY ONLY <2>2, <2>3, <2>4, <2>6, <2>7, <2>8 DEF T, D
<1> HIDE DEF w, h, r
<1>6. QED BY <1>1, <1>2, <1>3, <1>4, <1>5

LEMMA DecodeKeepsIInv ==
  ASSUME IInv, NEW s \in Session, Decode(s)
  PROVE  IInv'
<1>1. /\ dec[s] = "read" /\ dec' = dec
      /\ session' = session /\ ui' = ui /\ enabled' = enabled /\ posted' = posted
      /\ startRecord' = startRecord
      /\ rec' = rec /\ record' = record /\ recHand' = recHand /\ captured' = captured
      /\ asr' = asr /\ asrHand' = asrHand /\ held' = held /\ useVad' = useVad
      /\ bufferQueue' = bufferQueue /\ input_finished' = input_finished
      /\ decode_thread_done' = decode_thread_done
  BY DEF Decode, uiVars, recVars, asrVars
<1>2. /\ pipeline' \in Seq(Chunk) /\ decoded' \in Seq(Chunk) /\ timed' \in Seq(Chunk)
      /\ timed' \o decoded' \o pipeline' = timed \o decoded \o pipeline
  BY DecodeMovesText DEF IInv, TypeOK
<1>3. TypeOK'
  <2>1. FlagsTyped'
    BY <1>1 DEF IInv, TypeOK, FlagsTyped
  <2>2. ThreadsTyped'
    BY <1>1 DEF IInv, TypeOK, ThreadsTyped
  <2>3. BuffersTyped'
    BY <1>1, <1>2 DEF IInv, TypeOK, BuffersTyped
  <2>4. QED BY <2>1, <2>2, <2>3 DEF TypeOK
<1>4. Hands' /\ Detector' /\ Recording' /\ FinishNeverAborts'
  BY <1>1 DEF IInv, Hands, Detector, Recording, FinishNeverAborts
<1>5. session # 0
  BY <1>1, StartedFirst
<1>6. BeforeFirst'
  BY <1>1, <1>5 DEF BeforeFirst
<1>7. Conserved'
  BY <1>1, <1>2 DEF IInv, Conserved
<1>8. QED BY <1>3, <1>4, <1>6, <1>7 DEF IInv

LEMMA EndKeepsIInv ==
  ASSUME IInv, NEW s \in Session, DecodeEnd(s) \/ DecodeDone(s)
  PROVE  IInv'
<1>1. /\ dec[s] # "off" /\ pipeline' = pipeline
      /\ session' = session /\ ui' = ui /\ enabled' = enabled /\ posted' = posted
      /\ startRecord' = startRecord
      /\ rec' = rec /\ record' = record /\ recHand' = recHand /\ captured' = captured
      /\ asr' = asr /\ asrHand' = asrHand /\ held' = held /\ useVad' = useVad
      /\ bufferQueue' = bufferQueue /\ input_finished' = input_finished
  BY DEF DecodeEnd, DecodeDone, uiVars, recVars, asrVars
<1>2. PICK p \in Threads : dec' = [dec EXCEPT ![s] = p]
  BY DEF DecodeEnd, DecodeDone, Threads
<1>3. decode_thread_done' \in BOOLEAN
  BY DEF DecodeEnd, DecodeDone, IInv, TypeOK, FlagsTyped
<1>4. \/ timed' = timed /\ decoded' = decoded
      \/ timed' = timed \o decoded /\ decoded' = <<>>
  BY DEF DecodeEnd, DecodeDone
<1>5. timed \in Seq(Chunk) /\ decoded \in Seq(Chunk) /\ <<>> \in Seq(Chunk)
  BY DEF IInv, TypeOK, BuffersTyped
<1>6. timed \o decoded \in Seq(Chunk) /\ timed \o decoded \o <<>> = timed \o decoded
  <2>1. timed \o decoded \in Seq(Chunk)
    BY ONLY <1>5, ConcatProperties
  <2>2. QED BY <2>1, ConcatEmptySeq
<1>7. TypeOK'
  <2>1. FlagsTyped'
    BY <1>1, <1>3 DEF IInv, TypeOK, FlagsTyped
  <2>2. ThreadsTyped'
    BY <1>1, <1>2 DEF IInv, TypeOK, ThreadsTyped
  <2>3. decoded' \in Seq(Chunk) /\ timed' \in Seq(Chunk)
    BY <1>4, <1>5, <1>6
  <2>4. BuffersTyped'
    BY <1>1, <2>3 DEF IInv, TypeOK, BuffersTyped
  <2>5. QED BY <2>1, <2>2, <2>4 DEF TypeOK
<1>8. Hands'
  BY <1>1, <1>2 DEF IInv, TypeOK, ThreadsTyped, Hands
<1>9. Detector' /\ Recording' /\ FinishNeverAborts'
  BY <1>1 DEF IInv, Detector, Recording, FinishNeverAborts
<1>10. session # 0
  BY <1>1, StartedFirst
<1>11. BeforeFirst'
  BY <1>1, <1>10 DEF BeforeFirst
<1>12. timed' \o decoded' = timed \o decoded
  BY <1>4, <1>6
<1>13. Conserved'
  BY <1>1, <1>12 DEF IInv, Conserved
<1>14. QED BY <1>7, <1>8, <1>9, <1>11, <1>13 DEF IInv

LEMMA DecoderKeepsIInv ==
  ASSUME IInv, NEW s \in Session, Decoder(s)
  PROVE  IInv'
BY DecodeKeepsIInv, EndKeepsIInv DEF Decoder

--------------------------------------------------------------------------------
(***************************************************************************)
(* The result of a first session.                                          *)
(***************************************************************************)
LEMMA StartsWithMore ==
  ASSUME NEW S, NEW a \in Seq(S), NEW b \in Seq(S), NEW c \in Seq(S), StartsWith(a, c)
  PROVE  a \o b \in Seq(S) /\ StartsWith(a \o b, c)
<1>1. /\ a \o b \in Seq(S) /\ Len(a \o b) = Len(a) + Len(b)
      /\ \A i \in 1..(Len(a) + Len(b)) : (a \o b)[i] = IF i <= Len(a) THEN a[i] ELSE b[i - Len(a)]
  BY ConcatProperties
<1>2. Len(a) \in Nat /\ Len(b) \in Nat /\ Len(c) \in Nat
  BY LenProperties
<1>3. QED BY <1>1, <1>2 DEF StartsWith

LEMMA StartsWithItself ==
  ASSUME NEW S, NEW a \in Seq(S)
  PROVE  StartsWith(a, a) /\ StartsWith(a, <<>>)
BY LenProperties DEF StartsWith

LEMMA FrontIsPrefix ==
  ASSUME NEW S, NEW t \in Seq(S), NEW s \in Seq(S), StartsWith(t, s)
  PROVE  SubSeq(t, 1, Len(s)) = s
<1>1. Len(s) \in Nat /\ Len(t) \in Nat /\ Len(s) <= Len(t)
  BY LenProperties DEF StartsWith
<1>2. /\ SubSeq(t, 1, Len(s)) \in Seq(S) /\ Len(SubSeq(t, 1, Len(s))) = Len(s)
      /\ \A i \in 1..Len(s) : SubSeq(t, 1, Len(s))[i] = t[i]
  BY <1>1
<1>3. QED BY <1>1, <1>2, SeqEqual DEF StartsWith

\* The read end of the chain of Conserved.
LEMMA CapturedStartsWithTimed ==
  ASSUME IInv, session = 1
  PROVE  StartsWith(captured[1], timed)
<1>1. 1 \in Session
  BY SessionAssumption DEF IInv, TypeOK, ThreadsTyped, Session
<1>2. /\ timed \in Seq(Chunk) /\ decoded \in Seq(Chunk) /\ pipeline \in Seq(Chunk)
      /\ held \in Seq(Chunk) /\ asrHand[1] \in Seq(Chunk) /\ bufferQueue \in Seq(Chunk)
      /\ recHand[1] \in Seq(Chunk)
  BY <1>1 DEF IInv, TypeOK, BuffersTyped
<1>3. /\ timed \o decoded \in Seq(Chunk)
      /\ StartsWith(timed \o decoded, timed)
  BY <1>2, StartsWithItself, StartsWithMore
<1>4. /\ timed \o decoded \o pipeline \in Seq(Chunk)
      /\ StartsWith(timed \o decoded \o pipeline, timed)
  BY <1>2, <1>3, StartsWithMore
<1>5. /\ timed \o decoded \o pipeline \o held \in Seq(Chunk)
      /\ StartsWith(timed \o decoded \o pipeline \o held, timed)
  BY <1>2, <1>4, StartsWithMore
<1>6. /\ timed \o decoded \o pipeline \o held \o asrHand[1] \in Seq(Chunk)
      /\ StartsWith(timed \o decoded \o pipeline \o held \o asrHand[1], timed)
  BY <1>2, <1>5, StartsWithMore
<1>7. /\ timed \o decoded \o pipeline \o held \o asrHand[1] \o bufferQueue \in Seq(Chunk)
      /\ StartsWith(timed \o decoded \o pipeline \o held \o asrHand[1] \o bufferQueue, timed)
  BY <1>2, <1>6, StartsWithMore
<1>8. StartsWith(timed \o decoded \o pipeline \o held \o asrHand[1] \o bufferQueue \o recHand[1], timed)
  BY <1>2, <1>7, StartsWithMore
<1>9. QED BY <1>8 DEF IInv, Conserved

LEMMA InitResultInv == Init => ResultInv
<1> SUFFICES ASSUME Init PROVE ResultInv
  OBVIOUS
<1>1. <<>> \in Seq(Chunk)
  OBVIOUS
<1>2. ResultTyped
  BY <1>1 DEF Init, ResultTyped, NotSaved
<1>3. DueIsAhead /\ SavedAfterAll
  BY DEF Init, DueIsAhead, SavedAfterAll
<1>4. QED BY <1>2, <1>3 DEF ResultInv

\* A session that starts finds nothing saved, nothing due and nothing decoded.
LEMMA RecordKeepsResult ==
  ASSUME IInv, ResultInv, PressRecord
  PROVE  ResultInv'
<1>1. ResultTyped'
  BY DEF IInv, TypeOK, ThreadsTyped, ResultInv, ResultTyped, PressRecord, Session
<1>2. SUFFICES ASSUME session' = 1 PROVE DueIsAhead' /\ SavedAfterAll'
  BY <1>1 DEF ResultInv, DueIsAhead, SavedAfterAll
<1>3. session = 0 /\ 1 \in Session
  BY <1>2, SessionAssumption DEF IInv, TypeOK, ThreadsTyped, PressRecord, Session
<1>4. /\ timed' = <<>> /\ decoded' = <<>> /\ pipeline' = <<>> /\ due' = <<>>
      /\ ~input_finished' /\ ~decode_thread_done'
      /\ dec'[1] = "read" /\ asr'[1] = "start" /\ saved' = saved
  BY <1>3 DEF PressRecord, IInv, TypeOK, ThreadsTyped
<1>5. ~saved[1].saved
  BY <1>3 DEF ResultInv, ResultTyped
<1>6. <<>> \o <<>> \o <<>> = <<>> /\ StartsWith(<<>>, <<>>)
  BY DEF StartsWith
<1>7. QED BY <1>4, <1>5, <1>6 DEF DueIsAhead, SavedAfterAll

\* What is accepted when the input is finished is all there is.
LEMMA FinishKeepsResult ==
  ASSUME IInv, ResultInv, FinishInput
  PROVE  ResultInv'
<1>1. /\ ~input_finished /\ input_finished' /\ due' = timed \o decoded \o pipeline
      /\ session' = session /\ dec' = dec /\ asr' = asr /\ saved' = saved
      /\ timed' = timed /\ decoded' = decoded /\ pipeline' = pipeline
      /\ decode_thread_done' = decode_thread_done /\ captured' = captured
  BY DEF FinishInput, recVars, asrVars
<1>2. timed \o decoded \o pipeline \in Seq(Chunk)
  BY Regroup DEF IInv, TypeOK, BuffersTyped
<1>3. ResultTyped'
  BY <1>1, <1>2 DEF ResultInv, ResultTyped
<1>4. SUFFICES ASSUME session = 1 PROVE DueIsAhead' /\ SavedAfterAll'
  BY <1>1, <1>3 DEF ResultInv, DueIsAhead, SavedAfterAll
<1>5. dec[1] \notin {"end", "done"} /\ ~decode_thread_done
  BY <1>1, <1>4 DEF ResultInv, DueIsAhead
<1>6. StartsWith(timed \o decoded \o pipeline, timed \o decoded \o pipeline)
  BY <1>2, StartsWithItself
<1>7. QED BY <1>1, <1>4, <1>5, <1>6 DEF ResultInv, DueIsAhead, SavedAfterAll

\* The steps that touch neither the words nor the result; the recorder may read on.
LEMMA QuietKeepsResult ==
  ASSUME IInv, ResultInv, session' = session,
         due' = due, saved' = saved, timed' = timed, decoded' = decoded,
         pipeline' = pipeline, input_finished' = input_finished, dec' = dec,
         decode_thread_done' = decode_thread_done,
         \A s \in Session : asr'[s] = "save" => asr[s] = "save" \/ decode_thread_done,
         \A s \in Session : captured'[s] = captured[s]
           \/ \E c \in Chunk : captured'[s] = Append(captured[s], c)
  PROVE  ResultInv'
<1>1. ResultTyped'
  BY DEF ResultInv, ResultTyped
<1>2. DueIsAhead'
  BY DEF ResultInv, DueIsAhead
<1>3. ASSUME session = 1 PROVE SavedAfterAll'
  <2>1. 1 \in Session /\ captured[1] \in Seq(Chunk)
    BY <1>3, SessionAssumption DEF IInv, TypeOK, ThreadsTyped, BuffersTyped, Session
  <2>2. ASSUME saved[1].saved PROVE StartsWith(captured'[1], saved[1].text)
    <3>1. StartsWith(captured[1], saved[1].text) /\ saved[1].text \in Seq(Chunk)
      BY <1>3, <2>1, <2>2 DEF ResultInv, SavedAfterAll, ResultTyped
    <3>2. ASSUME NEW c \in Chunk, captured'[1] = Append(captured[1], c)
          PROVE  StartsWith(captured'[1], saved[1].text)
      <4>1. <<c>> \in Seq(Chunk) /\ captured'[1] = captured[1] \o <<c>>
        BY <2>1, <3>2, AppendIsConcat
      <4>2. StartsWith(captured[1] \o <<c>>, saved[1].text)
        BY ONLY <2>1, <3>1, <4>1, StartsWithMore
      <4>3. QED BY ONLY <4>1, <4>2
    <3>3. QED BY <2>1, <3>1, <3>2
  <2>3. QED BY <1>3, <2>1, <2>2 DEF ResultInv, SavedAfterAll
<1>4. QED BY <1>1, <1>2, <1>3 DEF ResultInv, SavedAfterAll

LEMMA UiKeepsResult ==
  ASSUME IInv, ResultInv, PressStop \/ PressPlay \/ RunPosted
  PROVE  ResultInv'
<1>1. /\ session' = session /\ due' = due /\ saved' = saved /\ timed' = timed
      /\ decoded' = decoded /\ pipeline' = pipeline /\ input_finished' = input_finished
      /\ dec' = dec /\ decode_thread_done' = decode_thread_done
      /\ asr' = asr /\ captured' = captured
  BY DEF PressStop, PressPlay, RunPosted, recVars, asrVars, nativeVars
<1>2. QED BY <1>1, QuietKeepsResult

LEMMA RecorderKeepsResult ==
  ASSUME IInv, ResultInv, NEW s \in Session, Recorder(s)
  PROVE  ResultInv'
<1>1. /\ session' = session /\ due' = due /\ saved' = saved /\ timed' = timed
      /\ decoded' = decoded /\ pipeline' = pipeline /\ input_finished' = input_finished
      /\ dec' = dec /\ decode_thread_done' = decode_thread_done
      /\ asr' = asr
  BY DEF Recorder, InitRecorder, InitRecorderFailed, StartRecording, RecTest, RecRead, RecPut,
         RecButton, RecPost, RecRelease, Post, uiVars, asrVars, nativeVars
<1>2. CASE RecRead(s)
  <2>1. captured \in [Session -> Seq(Chunk)]
    BY DEF IInv, TypeOK, BuffersTyped
  <2>2. \/ captured' = captured
        \/ /\ Len(captured[s]) < MaxChunks
           /\ captured' = [captured EXCEPT ![s] = Append(@, <<s, Len(captured[s]) + 1>>)]
    BY <1>2 DEF RecRead
  <2>3. CASE captured' = captured
    BY <1>1, <2>3, QuietKeepsResult
  <2>4. CASE /\ Len(captured[s]) < MaxChunks
             /\ captured' = [captured EXCEPT ![s] = Append(@, <<s, Len(captured[s]) + 1>>)]
    <3>1. <<s, Len(captured[s]) + 1>> \in Chunk
      BY <2>1, <2>4, SessionAssumption DEF Chunk
    <3>2. \A r \in Session : captured'[r] = captured[r]
            \/ \E c \in Chunk : captured'[r] = Append(captured[r], c)
      BY <2>1, <2>4, <3>1
    <3>3. QED BY <1>1, <3>2, QuietKeepsResult
  <2>5. QED BY <2>2, <2>3, <2>4
<1>3. CASE ~RecRead(s)
  <2>1. captured' = captured
    BY <1>3 DEF Recorder, InitRecorder, InitRecorderFailed, StartRecording, RecTest, RecPut,
                RecButton, RecPost, RecRelease
  <2>2. QED BY <1>1, <2>1, QuietKeepsResult
<1>4. QED BY <1>2, <1>3

\* The ASR thread leaves its poll when decode_thread_done is set, not before.
LEMMA QuietAsrKeepsResult ==
  ASSUME IInv, ResultInv, NEW s \in Session,
         AsrStart(s) \/ AsrTest(s) \/ AsrTake(s) \/ AsrPoll(s) \/ AsrPost(s)
  PROVE  ResultInv'
<1>1. /\ session' = session /\ due' = due /\ saved' = saved /\ timed' = timed
      /\ decoded' = decoded /\ pipeline' = pipeline /\ input_finished' = input_finished
      /\ dec' = dec /\ decode_thread_done' = decode_thread_done
      /\ captured' = captured
  BY DEF AsrStart, AsrTest, AsrTake, AsrPoll, AsrPost, Post, uiVars, recVars, nativeVars
<1>2. PICK p : asr' = [asr EXCEPT ![s] = p] /\ (p = "save" => decode_thread_done)
  BY DEF AsrStart, AsrTest, AsrTake, AsrPoll, AsrPost, AsrGoto
<1>3. \A r \in Session : asr'[r] = "save" => asr[r] = "save" \/ decode_thread_done
  BY <1>2 DEF IInv, TypeOK, ThreadsTyped
<1>4. QED BY <1>1, <1>3, QuietKeepsResult

\* What is accepted goes behind what was due.
LEMMA AcceptKeepsResult ==
  ASSUME IInv, ResultInv, NEW s \in Session, AsrAccept(s) \/ AsrFlush(s)
  PROVE  ResultInv'
<1>1. /\ session' = session /\ due' = due /\ saved' = saved /\ timed' = timed
      /\ decoded' = decoded /\ input_finished' = input_finished
      /\ dec' = dec /\ decode_thread_done' = decode_thread_done
      /\ captured' = captured
  BY DEF AsrAccept, AsrFlush, uiVars, recVars
<1>2. PICK p : asr' = [asr EXCEPT ![s] = p] /\ p # "save"
  BY DEF AsrAccept, AsrFlush, AsrGoto
<1>3. \E u \in Seq(Chunk) : pipeline' = pipeline \o u \/ pipeline' = pipeline
  BY DEF AsrAccept, AsrFlush, IInv, TypeOK, BuffersTyped
<1>4. ResultTyped'
  BY <1>1 DEF ResultInv, ResultTyped
<1>5. SavedAfterAll'
  BY <1>1, <1>2 DEF IInv, TypeOK, ThreadsTyped, Session, ResultInv, SavedAfterAll
<1>6. ASSUME session = 1, NEW u \in Seq(Chunk), pipeline' = pipeline \o u
      PROVE  StartsWith(timed \o decoded \o pipeline', due)
  <2>1. /\ timed \o decoded \in Seq(Chunk) /\ pipeline \in Seq(Chunk)
        /\ timed \o decoded \o pipeline \in Seq(Chunk) /\ due \in Seq(Chunk)
    BY Regroup DEF IInv, TypeOK, BuffersTyped, ResultInv, ResultTyped
  <2>2. StartsWith(timed \o decoded \o pipeline, due)
    BY <1>6 DEF ResultInv, DueIsAhead
  <2>3. StartsWith(timed \o decoded \o pipeline \o u, due)
    BY ONLY <2>1, <2>2, u \in Seq(Chunk), StartsWithMore
  <2> DEFINE T == timed \o decoded
  <2> HIDE DEF T
  <2>4. T \o pipeline \o u = T \o (pipeline \o u)
    <3>1. T \in Seq(Chunk) /\ pipeline \in Seq(Chunk) /\ u \in Seq(Chunk)
      BY <2>1 DEF T
    <3>2. QED BY ONLY <3>1, ConcatAssociative, SMTT(30)
  <2>5. QED BY <1>6, <2>3, <2>4 DEF T
<1>7. DueIsAhead'
  <2>1. SUFFICES ASSUME session = 1 PROVE DueIsAhead'
    BY <1>1 DEF DueIsAhead
  <2>2. StartsWith(timed \o decoded \o pipeline', due)
    BY <1>3, <1>6, <2>1 DEF ResultInv, DueIsAhead
  <2>3. QED BY <1>1, <2>1, <2>2 DEF ResultInv, DueIsAhead
<1>8. QED BY <1>4, <1>5, <1>7 DEF ResultInv

\* saveTimedResult writes what timed_result_json holds after the decode thread's end.
LEMMA SaveKeepsResult ==
  ASSUME IInv, ResultInv, NEW s \in Session, AsrSave(s)
  PROVE  ResultInv'
<1>1. /\ session' = session /\ due' = due /\ timed' = timed
      /\ decoded' = decoded /\ input_finished' = input_finished /\ pipeline' = pipeline
      /\ dec' = dec /\ decode_thread_done' = decode_thread_done
      /\ captured' = captured
      /\ asr[s] = "save" /\ asr' = [asr EXCEPT ![s] = "post"]
      /\ saved' = [saved EXCEPT ![session] = [saved |-> TRUE, text |-> timed]]
  BY DEF AsrSave, AsrGoto, uiVars, recVars, nativeVars
<1>2. session # 0 /\ (session = 1 => s = 1)
  BY <1>1, StartedFirst, OnlyFirst
<1>3. session \in Session /\ timed \in Seq(Chunk)
  BY <1>2, SessionAssumption DEF IInv, TypeOK, ThreadsTyped, BuffersTyped, Session
<1>4. ResultTyped'
  BY <1>1, <1>2, <1>3 DEF ResultInv, ResultTyped
<1>5. DueIsAhead'
  BY <1>1 DEF ResultInv, DueIsAhead
<1>6. SavedAfterAll'
  <2>1. SUFFICES ASSUME session = 1 PROVE SavedAfterAll'
    BY <1>1 DEF SavedAfterAll
  <2>2. decode_thread_done /\ dec[1] = "done" /\ decoded = <<>>
    BY <1>1, <1>2, <2>1 DEF ResultInv, DueIsAhead, SavedAfterAll
  <2>3. StartsWith(timed, due)
    <3>1. timed \o <<>> = timed
      BY <1>3, ConcatEmptySeq
    <3>2. QED BY <2>1, <2>2, <3>1 DEF ResultInv, DueIsAhead
  <2>4. saved'[1] = [saved |-> TRUE, text |-> timed]
    BY <1>1, <1>3, <2>1 DEF ResultInv, ResultTyped
  <2>5. StartsWith(captured[1], timed)
    BY <2>1, CapturedStartsWithTimed
  <2>6. asr'[1] = "post"
    BY <1>1, <1>2, <2>1 DEF IInv, TypeOK, ThreadsTyped
  <2>7. QED BY <1>1, <2>2, <2>3, <2>4, <2>5, <2>6 DEF SavedAfterAll
<1>7. QED BY <1>4, <1>5, <1>6 DEF ResultInv

\* Decoding moves words, and what was due stays in front.
LEMMA DecodeKeepsResult ==
  ASSUME IInv, ResultInv, NEW s \in Session, Decode(s)
  PROVE  ResultInv'
<1>1. /\ dec[s] = "read" /\ dec' = dec
      /\ session' = session /\ due' = due /\ saved' = saved
      /\ input_finished' = input_finished /\ decode_thread_done' = decode_thread_done
      /\ captured' = captured /\ asr' = asr
  BY DEF Decode, uiVars, recVars, asrVars
<1>2. timed' \o decoded' \o pipeline' = timed \o decoded \o pipeline
  BY DecodeMovesText DEF IInv, TypeOK
<1>3. ResultTyped' /\ SavedAfterAll'
  BY <1>1 DEF ResultInv, ResultTyped, SavedAfterAll
<1>4. DueIsAhead'
  <2>1. SUFFICES ASSUME session = 1 PROVE DueIsAhead'
    BY <1>1 DEF DueIsAhead
  <2>2. dec[1] = "read"
    BY <1>1, <2>1, OnlyFirst
  <2>3. ~decode_thread_done
    BY <2>1, <2>2 DEF ResultInv, DueIsAhead
  <2>4. QED BY <1>1, <1>2, <2>1, <2>2, <2>3 DEF ResultInv, DueIsAhead
<1>5. QED BY <1>3, <1>4 DEF ResultInv

\* The decode thread ends with an empty pipeline, and then hands over its last words.
LEMMA EndKeepsResult ==
  ASSUME IInv, ResultInv, NEW s \in Session, DecodeEnd(s) \/ DecodeDone(s)
  PROVE  ResultInv'
<1>1. /\ session' = session /\ due' = due /\ saved' = saved /\ pipeline' = pipeline
      /\ input_finished' = input_finished
      /\ captured' = captured /\ asr' = asr
      /\ dec[s] # "off"
  BY DEF DecodeEnd, DecodeDone, uiVars, recVars, asrVars
<1>2. decode_thread_done => decode_thread_done'
  BY DEF DecodeEnd, DecodeDone
<1>3. ResultTyped' /\ SavedAfterAll'
  BY <1>1, <1>2 DEF ResultInv, ResultTyped, SavedAfterAll
<1>4. session = 1 => s = 1
  BY <1>1, OnlyFirst
<1>5. /\ dec \in [Session -> Threads] /\ timed \o decoded \in Seq(Chunk)
      /\ due \in Seq(Chunk)
  BY Regroup DEF IInv, TypeOK, ThreadsTyped, BuffersTyped, ResultInv, ResultTyped
<1>6. ASSUME session = 1, DecodeEnd(s) PROVE DueIsAhead'
  <2>1. /\ dec[1] = "read" /\ dec'[1] = "end" /\ pipeline = <<>> /\ input_finished
        /\ timed' = timed /\ decoded' = decoded /\ decode_thread_done' = decode_thread_done
    BY <1>4, <1>5, <1>6 DEF DecodeEnd
  <2>2. timed \o decoded \o pipeline = timed \o decoded
    BY <1>5, <2>1, ConcatEmptySeq
  <2>3. QED BY <1>1, <1>6, <2>1, <2>2 DEF ResultInv, DueIsAhead
<1>7. ASSUME session = 1, DecodeDone(s) PROVE DueIsAhead'
  <2>1. /\ dec[1] = "end" /\ dec'[1] = "done" /\ decode_thread_done'
        /\ timed' = timed \o decoded /\ decoded' = <<>>
    BY <1>4, <1>5, <1>7 DEF DecodeDone
  <2>2. timed' \o decoded' = timed \o decoded
    BY <1>5, <2>1, ConcatEmptySeq
  <2>3. QED BY <1>1, <1>7, <2>1, <2>2 DEF ResultInv, DueIsAhead
<1>8. DueIsAhead'
  BY <1>1, <1>6, <1>7 DEF DueIsAhead
<1>9. QED BY <1>3, <1>8 DEF ResultInv

LEMMA NextKeepsResultInv == IInv /\ ResultInv /\ [Next]_vars => ResultInv'
<1> SUFFICES ASSUME IInv, ResultInv, [Next]_vars PROVE ResultInv'
  OBVIOUS
<1>1. CASE UNCHANGED vars
  BY <1>1, QuietKeepsResult DEF vars, uiVars, recVars, asrVars, nativeVars
<1>2. CASE PressRecord
  BY <1>2, RecordKeepsResult
<1>3. CASE FinishInput
  BY <1>3, FinishKeepsResult
<1>4. CASE PressStop \/ PressPlay \/ RunPosted
  BY <1>4, UiKeepsResult
<1>5. ASSUME NEW s \in Session, Recorder(s) PROVE ResultInv'
  BY <1>5, RecorderKeepsResult
<1>6. ASSUME NEW s \in Session, Asr(s) PROVE ResultInv'
  BY <1>6, QuietAsrKeepsResult, AcceptKeepsResult, SaveKeepsResult DEF Asr
<1>7. ASSUME NEW s \in Session, Decoder(s) PROVE ResultInv'
  BY <1>7, DecodeKeepsResult, EndKeepsResult DEF Decoder
<1>8. QED BY <1>1, <1>2, <1>3, <1>4, <1>5, <1>6, <1>7 DEF Next

--------------------------------------------------------------------------------
LEMMA NextKeepsIInv == IInv /\ [Next]_vars => IInv'
<1>1. ASSUME IInv, Next PROVE IInv'
  <2>1. CASE PressRecord
    BY <1>1, <2>1, RecordKeepsIInv
  <2>2. CASE PressStop \/ PressPlay \/ FinishInput \/ RunPosted
    BY <1>1, <2>2, OtherUiKeepsIInv
  <2>3. ASSUME NEW s \in Session, Recorder(s) PROVE IInv'
    BY <1>1, <2>3, RecorderKeepsIInv
  <2>4. ASSUME NEW s \in Session, Asr(s) PROVE IInv'
    BY <1>1, <2>4, AsrKeepsIInv
  <2>5. ASSUME NEW s \in Session, Decoder(s) PROVE IInv'
    BY <1>1, <2>5, DecoderKeepsIInv
  <2>6. QED BY <1>1, <2>1, <2>2, <2>3, <2>4, <2>5 DEF Next
<1>2. QED BY <1>1, StutterKeepsIInv

\* The inductive invariant holds of every recording session, whatever the queue's
\* capacity, the number of sessions and the failures of the recorder.
THEOREM InvariantHolds == Spec => []IInv
<1>1. Init => IInv
  BY InitIInv
<1>2. IInv /\ [Next]_vars => IInv'
  BY NextKeepsIInv
<1>3. QED BY <1>1, <1>2, PTL DEF Spec

\* MainActivity's and wenet.cc's state keeps its types, bufferQueue its bound, and
\* at most MaxPosted runnables wait.
THEOREM TypeCorrect == Spec => []TypeOK
<1>1. IInv => TypeOK
  BY DEF IInv
<1>2. QED BY <1>1, InvariantHolds, PTL

\* Between the microphone and the result of a first session every buffer is in
\* exactly one place and none overtakes another (recording thread, bufferQueue, ASR
\* thread, speech detector, pipeline, decode thread).
THEOREM NothingLostInASession == Spec => []Conserved
<1>1. IInv => Conserved
  BY DEF IInv
<1>2. QED BY <1>1, InvariantHolds, PTL

\* However Stop, Play and Record follow each other, set_input_finished's CHECK
\* holds when it is called.
THEOREM FinishOnce == Spec => []FinishNeverAborts
<1>1. IInv => FinishNeverAborts
  BY DEF IInv
<1>2. QED BY <1>1, InvariantHolds, PTL
\* saveTimedResult writes a first session's result.json after the decode thread has
\* appended its last words: it holds, in order, all that had been accepted when Stop
\* or Play finished the input, and nothing that was not read from the microphone.
THEOREM SavedResultIsComplete == Spec => []SavedCoversAccepted
<1>1. Init => IInv /\ ResultInv
  BY InitIInv, InitResultInv
<1>2. IInv /\ ResultInv /\ [Next]_vars => IInv' /\ ResultInv'
  BY NextKeepsIInv, NextKeepsResultInv
<1>3. IInv /\ ResultInv => SavedCoversAccepted
  <2>1. SUFFICES ASSUME IInv, ResultInv, session = 1, saved[1].saved
                 PROVE  /\ Len(saved[1].text) >= Len(due)
                        /\ SubSeq(saved[1].text, 1, Len(due)) = due
                        /\ SubSeq(captured[1], 1, Len(saved[1].text)) = saved[1].text
    BY DEF SavedCoversAccepted
  <2>2. 1 \in Session
    BY <2>1, SessionAssumption DEF IInv, TypeOK, ThreadsTyped, Session
  <2>3. /\ due \in Seq(Chunk) /\ saved[1].text \in Seq(Chunk) /\ captured[1] \in Seq(Chunk)
        /\ StartsWith(saved[1].text, due) /\ StartsWith(captured[1], saved[1].text)
    BY <2>1, <2>2 DEF IInv, TypeOK, BuffersTyped, ResultInv, ResultTyped, SavedAfterAll
  <2>4. QED BY <2>3, FrontIsPrefix DEF StartsWith
<1>4. QED BY <1>1, <1>2, <1>3, PTL DEF Spec
================================================================================
