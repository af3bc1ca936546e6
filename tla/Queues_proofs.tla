----------------------------- MODULE Queues_proofs -----------------------------
(***************************************************************************)
(* What goes through a queue comes out of it, once and in order, in four   *)
(* parts.                                                                  *)
(*   BlockingQueue: any number of threads, any capacity, any vectors and   *)
(*   any mixture of calls.  The invariant has two halves that disturb each *)
(*   other little, the values (Data) and the threads (Control), and the    *)
(*   steps touch the values by Put and Take only.                          *)
(*   DecoderMain: any list, any number of workers and any warm-up.         *)
(*   RecordingEncoder: any number of recordings, of any length.            *)
(*   Transcoding: files of any length, rate, packet and number of bars.    *)
(***************************************************************************)
EXTENDS BlockingQueue, DecoderMain, MCRecordingEncoder,
        SequenceTheorems, FiniteSetTheorems, WellFoundedInduction, TLAPS

Data ==
    /\ queue_ \in Seq(Values) /\ Len(queue_) <= Capacity
    /\ pushed \in Seq(Values) /\ popped \in Seq(Values)
    /\ pushed = popped \o queue_

Control ==
    /\ users \in Groups
    /\ not_full \subseteq Threads /\ not_empty \subseteq Threads
    /\ call \in [Threads -> Calls]
    /\ calls \in 0 .. MaxCalls

QueueIInv == Data /\ Control

--------------------------------------------------------------------------------
(***************************************************************************)
(* Values                                                                  *)
(***************************************************************************)

LEMMA Associative ==
    ASSUME NEW S, NEW a \in Seq(S), NEW b \in Seq(S), NEW c \in Seq(S)
    PROVE  (a \o b) \o c = a \o (b \o c)
BY ConcatAssociative, SMTT(30)

\* A queue cut in two is its two parts, in order.
LEMMA CutQueue ==
    ASSUME NEW S, NEW q \in Seq(S), NEW k \in 0 .. Len(q)
    PROVE  /\ SubSeq(q, 1, k) \in Seq(S) /\ Len(SubSeq(q, 1, k)) = k
           /\ SubSeq(q, k + 1, Len(q)) \in Seq(S)
           /\ Len(SubSeq(q, k + 1, Len(q))) = Len(q) - k
           /\ SubSeq(q, 1, k) \o SubSeq(q, k + 1, Len(q)) = q
<1> DEFINE front == SubSeq(q, 1, k)
           back  == SubSeq(q, k + 1, Len(q))
<1>1. /\ front \in Seq(S) /\ Len(front) = k
      /\ \A i \in 1 .. k : front[i] = q[i]
  OBVIOUS
<1>2. /\ back \in Seq(S) /\ Len(back) = Len(q) - k
      /\ \A i \in 1 .. (Len(q) - k) : back[i] = q[k + i]
  OBVIOUS
<1> HIDE DEF front, back
<1>3. /\ front \o back \in Seq(S)
      /\ Len(front \o back) = Len(q)
      /\ \A i \in 1 .. Len(q) :
           (front \o back)[i] = IF i <= k THEN front[i] ELSE back[i - k]
  BY <1>1, <1>2, ConcatProperties
<1>4. ASSUME NEW i \in 1 .. Len(q)
      PROVE  (front \o back)[i] = q[i]
  <2>1. CASE i <= k
    BY <1>1, <1>3, <2>1
  <2>2. CASE ~(i <= k)
    <3>1. i - k \in 1 .. (Len(q) - k) /\ k + (i - k) = i
      BY <2>2
    <3>2. QED BY <1>2, <1>3, <2>2, <3>1
  <2>3. QED BY <2>1, <2>2
<1>5. front \o back = q
  BY <1>3, <1>4, SeqEqual
<1>6. QED BY <1>1, <1>2, <1>5 DEF front, back

\* Values that fit go behind all others, in the queue and in the history.
LEMMA PutKeepsData ==
    ASSUME Data, NEW s \in Seq(Values), Len(s) <= Room, Put(s)
    PROVE  Data'
<1>1. /\ queue_' = queue_ \o s /\ pushed' = pushed \o s /\ popped' = popped
  BY DEF Put
<1>2. /\ queue_ \in Seq(Values) /\ pushed \in Seq(Values) /\ popped \in Seq(Values)
      /\ pushed = popped \o queue_ /\ Len(queue_) <= Capacity
  BY DEF Data
<1>3. /\ queue_' \in Seq(Values) /\ Len(queue_') = Len(queue_) + Len(s)
      /\ pushed' \in Seq(Values)
  BY <1>1, <1>2, ConcatProperties
<1>4. Len(queue_') <= Capacity
  BY <1>2, <1>3, LenProperties, CapacityAssumption DEF Room
<1>5. (popped \o queue_) \o s = popped \o (queue_ \o s)
  BY <1>2, Associative
<1>6. QED BY <1>1, <1>2, <1>3, <1>4, <1>5 DEF Data

\* What is taken is the oldest there is and stays the last of the history.
LEMMA TakeKeepsData ==
    ASSUME Data, NEW n \in 0 .. Len(queue_), Take(n)
    PROVE  Data'
<1> DEFINE front == SubSeq(queue_, 1, n)
           back  == SubSeq(queue_, n + 1, Len(queue_))
<1>1. /\ queue_' = back /\ popped' = popped \o front /\ pushed' = pushed
  BY DEF Take
<1>2. /\ queue_ \in Seq(Values) /\ pushed \in Seq(Values) /\ popped \in Seq(Values)
      /\ pushed = popped \o queue_ /\ Len(queue_) <= Capacity
  BY DEF Data
<1>3. /\ front \in Seq(Values) /\ back \in Seq(Values)
      /\ Len(back) = Len(queue_) - n
      /\ front \o back = queue_
  BY <1>2, CutQueue
<1> HIDE DEF front, back
<1>4. popped \o front \in Seq(Values)
  BY <1>2, <1>3, ConcatProperties
<1>5. Len(back) <= Capacity
  <2>1. Len(queue_) \in Nat /\ n \in 0 .. Len(queue_) /\ Capacity \in Nat
    BY <1>2, LenProperties, CapacityAssumption
  <2>2. QED BY ONLY <1>2, <1>3, <2>1
<1>6. (popped \o front) \o back = popped \o queue_
  <2>1. popped \in Seq(Values) /\ front \in Seq(Values) /\ back \in Seq(Values)
    BY <1>2, <1>3
  <2>2. (popped \o front) \o back = popped \o (front \o back)
    BY ONLY <2>1, ConcatAssociative, SMTT(30)
  <2>3. QED BY <1>3, <2>2
<1>7. QED BY <1>1, <1>2, <1>3, <1>4, <1>5, <1>6 DEF Data

LEMMA KeepsData == Data /\ UNCHANGED_Queue => Data'
BY DEF Data, UNCHANGED_Queue

\* While the limit holds the room is the number of values that still fit.
LEMMA RoomIsNat == Data => Room \in Nat /\ Len(queue_) \in Nat
BY LenProperties, CapacityAssumption DEF Data, Room

--------------------------------------------------------------------------------
(***************************************************************************)
(* Threads                                                                 *)
(***************************************************************************)
LEMMA PushCall ==
    ASSUME NEW c \in Calls, c.op = "Push"
    PROVE  c.value \in Values
BY DEF Calls, NoCall

LEMMA PushAllCall ==
    ASSUME NEW c \in Calls, c.op = "PushAll"
    PROVE  /\ c.values \in Seq(Values)
           /\ \A s \in Seq(Values) : [c EXCEPT !.values = s] \in Calls
<1>1. c \in [op : {"PushAll"}, values : Seq(Values), unlocks : BOOLEAN]
  BY DEF Calls, NoCall
<1>2. ASSUME NEW s \in Seq(Values)
      PROVE  [c EXCEPT !.values = s]
               \in [op : {"PushAll"}, values : Seq(Values), unlocks : BOOLEAN]
  BY <1>1, Zenon
<1>3. QED BY <1>1, <1>2 DEF Calls

LEMMA PopNumCall ==
    ASSUME NEW c \in Calls, c.op = "PopNum"
    PROVE  /\ c.num \in Nat
           /\ \A n \in Nat : [c EXCEPT !.num = n] \in Calls
BY DEF Calls, NoCall

\* Every call that is started, and every stage between two locks, is one of Calls.
LEMMA SmallCalls ==
    /\ NoCall \in Calls /\ [op |-> "notify"] \in Calls /\ [op |-> "Pop"] \in Calls
    /\ [op |-> "Clear"] \in Calls /\ [op |-> "ClearPop"] \in Calls
    /\ \A v \in Values : [op |-> "Push", value |-> v] \in Calls
    /\ \A s \in Seq(Values), u \in BOOLEAN :
         [op |-> "PushAll", values |-> s, unlocks |-> u] \in Calls
    /\ \A n \in Nat : [op |-> "PopNum", num |-> n] \in Calls
BY DEF Calls, NoCall

LEMMA GoesKeepsCalls ==
    ASSUME Control, NEW t \in Threads, NEW c \in Calls, Goes(t, c)
    PROVE  call' \in [Threads -> Calls]
BY DEF Control, Goes

LEMMA NotifyTakesOut ==
    ASSUME NEW W, NEW L, W \subseteq Threads, NotifyOne(W, L)
    PROVE  L \subseteq Threads
BY DEF NotifyOne

--------------------------------------------------------------------------------
(***************************************************************************)
(* Steps                                                                   *)
(***************************************************************************)
LEMMA InitQueueIInv == QueueInit => QueueIInv
<1> SUFFICES ASSUME QueueInit PROVE QueueIInv
  OBVIOUS
<1>1. Data
  <2>1. <<>> \in Seq(Values) /\ <<>> \o <<>> = <<>> /\ Len(<<>>) = 0
    BY EmptySeq, ConcatEmptySeq
  <2>2. QED BY <2>1, CapacityAssumption DEF QueueInit, Data
<1>2. Control
  BY SmallCalls, MaxCallsAssumption DEF QueueInit, Control
<1>3. QED BY <1>1, <1>2 DEF QueueIInv

LEMMA StartKeepsIInv ==
    ASSUME QueueIInv, NEW t \in Threads, NEW c \in Calls, Start(t, c)
    PROVE  QueueIInv'
<1>1. Data'
  BY KeepsData DEF QueueIInv, Start
<1>2. call' \in [Threads -> Calls]
  BY GoesKeepsCalls DEF QueueIInv, Start
<1>3. calls' \in 0 .. MaxCalls
  BY MaxCallsAssumption DEF QueueIInv, Control, Start
<1>4. QED BY <1>1, <1>2, <1>3 DEF QueueIInv, Control, Start

LEMMA PushKeepsIInv ==
    ASSUME QueueIInv, NEW t \in Threads, Push(t)
    PROVE  QueueIInv'
<1>1. Data /\ Control /\ call[t] \in Calls /\ call[t].op = "Push"
  BY DEF QueueIInv, Control, Push, Running
<1>2. CASE Full /\ not_full' = not_full \cup {t} /\ UNCHANGED call /\ UNCHANGED_Queue
  <2>1. Data'
    BY <1>1, <1>2, KeepsData
  <2>2. Control'
    BY <1>1, <1>2 DEF Control, Push
  <2>3. QED BY <2>1, <2>2 DEF QueueIInv
<1>3. CASE /\ ~Full /\ Put(<<call[t].value>>) /\ Goes(t, [op |-> "notify"])
           /\ UNCHANGED not_full
  <2>1. Data'
    <3>1. <<call[t].value>> \in Seq(Values) /\ Len(<<call[t].value>>) = 1
      BY <1>1, PushCall
    <3>2. Len(<<call[t].value>>) <= Room
      BY <1>1, <1>3, <3>1, RoomIsNat, CapacityAssumption DEF Full, Room
    <3>3. QED BY <1>1, <1>3, <3>1, <3>2, PutKeepsData
  <2>2. Control'
    BY <1>1, <1>3, SmallCalls, GoesKeepsCalls DEF Control, Push
  <2>3. QED BY <2>1, <2>2 DEF QueueIInv
<1>4. QED BY <1>2, <1>3 DEF Push

LEMMA PushAllKeepsIInv ==
    ASSUME QueueIInv, NEW t \in Threads, PushAll(t)
    PROVE  QueueIInv'
<1> DEFINE s == call[t].values
<1>1. Data /\ Control /\ call[t] \in Calls /\ call[t].op = "PushAll"
  BY DEF QueueIInv, Control, PushAll, Running
<1>2. s \in Seq(Values) /\ \A r \in Seq(Values) : [call[t] EXCEPT !.values = r] \in Calls
  BY <1>1, PushAllCall
<1>3. Room \in Nat /\ Len(s) \in Nat
  BY <1>1, <1>2, RoomIsNat, LenProperties
<1>4. users' = users /\ calls' = calls
  BY DEF PushAll
<1>5. CASE /\ Len(s) > Room
           /\ Put(SubSeq(s, 1, Room))
           /\ Goes(t, [call[t] EXCEPT !.values = SubSeq(s, Room + 1, Len(s))])
           /\ not_full' = not_full \cup {t}
           /\ NotifyOne(not_empty, not_empty')
  <2>1. /\ SubSeq(s, 1, Room) \in Seq(Values) /\ Len(SubSeq(s, 1, Room)) = Room
        /\ SubSeq(s, Room + 1, Len(s)) \in Seq(Values)
    <3>1. Room \in 0 .. Len(s)
      BY <1>3, <1>5
    <3>2. QED BY <1>2, <3>1, CutQueue
  <2>2. Data'
    <3>1. Len(SubSeq(s, 1, Room)) <= Room
      BY ONLY <1>3, <2>1
    <3>2. QED BY ONLY <1>1, <1>5, <2>1, <3>1, PutKeepsData
  <2>3. call' \in [Threads -> Calls]
    BY <1>1, <1>2, <1>5, <2>1, GoesKeepsCalls
  <2>4. not_empty' \subseteq Threads
    BY <1>1, <1>5, NotifyTakesOut DEF Control
  <2>5. QED BY <1>1, <1>4, <1>5, <2>2, <2>3, <2>4 DEF QueueIInv, Control
<1>6. CASE /\ Len(s) <= Room
           /\ Put(s)
           /\ UNCHANGED not_full
           /\ \/ call[t].unlocks /\ Goes(t, [op |-> "notify"]) /\ UNCHANGED not_empty
              \/ ~call[t].unlocks /\ Goes(t, NoCall) /\ NotifyOne(not_empty, not_empty')
  <2>1. Data'
    BY <1>1, <1>2, <1>6, PutKeepsData
  <2>2. call' \in [Threads -> Calls]
    BY <1>1, <1>6, SmallCalls, GoesKeepsCalls
  <2>3. not_empty' \subseteq Threads
    BY <1>1, <1>6, NotifyTakesOut DEF Control
  <2>4. QED BY <1>1, <1>4, <1>6, <2>1, <2>2, <2>3 DEF QueueIInv, Control
<1>7. QED BY <1>5, <1>6 DEF PushAll

LEMMA PopOneKeepsIInv ==
    ASSUME QueueIInv, NEW t \in Threads, NEW c \in Calls, PopOne(t, c)
    PROVE  QueueIInv'
<1>1. Data /\ Control
  BY DEF QueueIInv
<1>2. CASE /\ queue_ = <<>> /\ not_empty' = not_empty \cup {t}
           /\ UNCHANGED <<not_full, call>> /\ UNCHANGED_Queue
  <2>1. Data'
    BY <1>1, <1>2, KeepsData
  <2>2. QED BY <1>1, <1>2, <2>1 DEF QueueIInv, Control, PopOne
<1>3. CASE /\ queue_ # <<>> /\ Take(1) /\ NotifyOne(not_full, not_full')
           /\ Goes(t, c) /\ UNCHANGED not_empty
  <2>1. 1 \in 0 .. Len(queue_)
    <3>1. queue_ \in Seq(Values) /\ Len(queue_) \in Nat
      BY <1>1, RoomIsNat DEF Data
    <3>2. Len(queue_) # 0
      BY <1>3, <3>1, EmptySeq
    <3>3. QED BY <3>1, <3>2
  <2>2. Data'
    BY <1>1, <1>3, <2>1, TakeKeepsData
  <2>3. not_full' \subseteq Threads
    BY <1>1, <1>3, NotifyTakesOut DEF Control
  <2>4. call' \in [Threads -> Calls]
    BY <1>1, <1>3, GoesKeepsCalls
  <2>5. QED BY <1>1, <1>3, <2>2, <2>3, <2>4 DEF QueueIInv, Control, PopOne
<1>4. QED BY <1>2, <1>3 DEF PopOne

LEMMA PopNumKeepsIInv ==
    ASSUME QueueIInv, NEW t \in Threads, PopNum(t)
    PROVE  QueueIInv'
<1> DEFINE n == call[t].num
<1>1. Data /\ Control /\ call[t] \in Calls /\ call[t].op = "PopNum"
  BY DEF QueueIInv, Control, PopNum, Running
<1>2. n \in Nat /\ \A k \in Nat : [call[t] EXCEPT !.num = k] \in Calls
  BY <1>1, PopNumCall
<1>3. Len(queue_) \in Nat
  BY <1>1, RoomIsNat
<1>4. not_full' \subseteq Threads
  BY <1>1, NotifyTakesOut DEF Control, PopNum
<1>5. CASE /\ n > Len(queue_) /\ Take(Len(queue_))
           /\ Goes(t, [call[t] EXCEPT !.num = n - Len(queue_)])
           /\ not_empty' = not_empty \cup {t}
  <2>1. Data'
    BY <1>1, <1>3, <1>5, TakeKeepsData
  <2>2. call' \in [Threads -> Calls]
    <3>1. n - Len(queue_) \in Nat
      BY <1>2, <1>3, <1>5
    <3>2. QED BY <1>1, <1>2, <1>5, <3>1, GoesKeepsCalls
  <2>3. QED BY <1>1, <1>4, <1>5, <2>1, <2>2 DEF QueueIInv, Control, PopNum
<1>6. CASE n <= Len(queue_) /\ Take(n) /\ Goes(t, NoCall) /\ UNCHANGED not_empty
  <2>1. Data'
    BY <1>1, <1>2, <1>3, <1>6, TakeKeepsData
  <2>2. call' \in [Threads -> Calls]
    BY <1>1, <1>6, SmallCalls, GoesKeepsCalls
  <2>3. QED BY <1>1, <1>4, <1>6, <2>1, <2>2 DEF QueueIInv, Control, PopNum
<1>7. QED BY <1>5, <1>6 DEF PopNum

\* The steps that leave the values alone.
LEMMA QuietKeepsIInv ==
    ASSUME QueueIInv, NEW t \in Threads,
           NotifyNotEmpty(t) \/ ClearTest(t) \/ SpuriousWakeUp(t)
    PROVE  QueueIInv'
<1>1. Data /\ Control
  BY DEF QueueIInv
<1>2. Data'
  BY <1>1, KeepsData DEF NotifyNotEmpty, ClearTest, SpuriousWakeUp
<1>3. CASE NotifyNotEmpty(t)
  <2>1. call' \in [Threads -> Calls]
    BY <1>1, <1>3, SmallCalls, GoesKeepsCalls DEF NotifyNotEmpty
  <2>2. not_empty' \subseteq Threads
    BY <1>1, <1>3, NotifyTakesOut DEF Control, NotifyNotEmpty
  <2>3. QED BY <1>1, <1>2, <1>3, <2>1, <2>2 DEF QueueIInv, Control, NotifyNotEmpty
<1>4. CASE ClearTest(t)
  <2>1. call' \in [Threads -> Calls]
    BY <1>1, <1>4, SmallCalls, GoesKeepsCalls DEF ClearTest
  <2>2. QED BY <1>1, <1>2, <1>4, <2>1 DEF QueueIInv, Control, ClearTest
<1>5. CASE SpuriousWakeUp(t)
  BY <1>1, <1>2, <1>5 DEF QueueIInv, Control, SpuriousWakeUp
<1>6. QED BY <1>3, <1>4, <1>5

LEMMA NextKeepsQueueIInv == QueueIInv /\ [QueueNext]_queue_vars => QueueIInv'
<1> SUFFICES ASSUME QueueIInv, [QueueNext]_queue_vars PROVE QueueIInv'
  OBVIOUS
<1>1. CASE UNCHANGED queue_vars
  BY <1>1 DEF QueueIInv, Data, Control, queue_vars
<1>2. ASSUME NEW t \in Threads,
             \/ CallPush(t) \/ CallPushAll(t) \/ CallPop(t) \/ CallPopNum(t) \/ CallClear(t)
             \/ Push(t) \/ PushAll(t) \/ NotifyNotEmpty(t)
             \/ Pop(t) \/ PopNum(t) \/ ClearTest(t) \/ ClearPop(t)
             \/ SpuriousWakeUp(t)
      PROVE  QueueIInv'
  <2>1. CASE CallPush(t)
    BY <2>1, SmallCalls, StartKeepsIInv DEF CallPush
  <2>2. CASE CallPushAll(t)
    BY <2>2, SmallCalls, StartKeepsIInv, BatchesAssumption DEF CallPushAll
  <2>3. CASE CallPop(t)
    BY <2>3, SmallCalls, StartKeepsIInv DEF CallPop
  <2>4. CASE CallPopNum(t)
    BY <2>4, SmallCalls, StartKeepsIInv, PopSizesAssumption DEF CallPopNum
  <2>5. CASE CallClear(t)
    BY <2>5, SmallCalls, StartKeepsIInv DEF CallClear
  <2>6. CASE Push(t)
    BY <2>6, PushKeepsIInv
  <2>7. CASE PushAll(t)
    BY <2>7, PushAllKeepsIInv
  <2>8. CASE Pop(t)
    BY <2>8, SmallCalls, PopOneKeepsIInv DEF Pop
  <2>9. CASE PopNum(t)
    BY <2>9, PopNumKeepsIInv
  <2>10. CASE ClearPop(t)
    BY <2>10, SmallCalls, PopOneKeepsIInv DEF ClearPop
  <2>11. CASE NotifyNotEmpty(t) \/ ClearTest(t) \/ SpuriousWakeUp(t)
    BY <2>11, QuietKeepsIInv
  <2>12. QED
    BY <1>2, <2>1, <2>2, <2>3, <2>4, <2>5, <2>6, <2>7, <2>8, <2>9, <2>10, <2>11
<1>3. QED BY <1>1, <1>2 DEF QueueNext

--------------------------------------------------------------------------------
LEMMA QueueInvariant == QueueSpec => []QueueIInv
<1>1. QueueInit => QueueIInv
  BY InitQueueIInv
<1>2. QueueIInv /\ [QueueNext]_queue_vars => QueueIInv'
  BY NextKeepsQueueIInv
<1>3. QED BY <1>1, <1>2, PTL DEF QueueSpec

\* The types and the limit: whoever pushes whatever, the queue never holds more
\* than its capacity.
THEOREM QueueTypeCorrect == QueueSpec => []QueueTypeOK
<1>1. QueueIInv => QueueTypeOK
  BY DEF QueueIInv, Data, Control, QueueTypeOK
<1>2. QED BY <1>1, QueueInvariant, PTL

\* First in, first out, for any number of producers and consumers that push and
\* pop values, vectors and blocks longer than the capacity, and clear the queue.
THEOREM QueueKeepsOrder == QueueSpec => []FirstInFirstOut
<1>1. QueueIInv => FirstInFirstOut
  BY DEF QueueIInv, Data, FirstInFirstOut
<1>2. QED BY <1>1, QueueInvariant, PTL

--------------------------------------------------------------------------------
(***************************************************************************)
(* Nobody is left asleep beside work.                                      *)
(***************************************************************************)
LEMMA AwakeIsFinite ==
    ASSUME NEW ops
    PROVE  IsFiniteSet(Awake(ops)) /\ Cardinality(Awake(ops)) \in Nat
<1>1. Awake(ops) \subseteq Threads
  BY DEF Awake
<1>2. QED BY <1>1, ThreadsAssumption, FS_Subset, FS_CardinalityType

LEMMA AwakeIsFiniteNext ==
    ASSUME NEW ops
    PROVE  IsFiniteSet(Awake(ops)') /\ Cardinality(Awake(ops)') \in Nat
<1>1. Awake(ops)' \subseteq Threads
  BY DEF Awake
<1>2. QED BY <1>1, ThreadsAssumption, FS_Subset, FS_CardinalityType

\* One producer and one consumer in the vector calls.
LEMMA OneEach ==
    ASSUME QueueIInv, WhoWaits, users.batch
    PROVE  \E p, c \in Threads :
             /\ not_full \subseteq {p} /\ not_empty \subseteq {c}
             /\ \A t \in Threads : /\ call[t].op \in PushOps => t = p
                                   /\ call[t].op \in PopOps => t = c
<1>1. PICK p, c \in Threads : users.push = {p} /\ users.pop = {c}
  BY GroupsAssumption DEF QueueIInv, Control
<1>2. not_full \subseteq {p} /\ not_empty \subseteq {c}
  BY <1>1 DEF QueueIInv, Control, WhoWaits, PushOps, PopOps
<1>3. QED BY <1>1, <1>2 DEF WhoWaits

\* With more threads awake, and the same queue and waiters or fewer, enough are awake.
LEMMA MoreAwake ==
    ASSUME QueueIInv, EnoughAwake, OtherAwake,
           users' = users, queue_' = queue_,
           not_full' \subseteq not_full, not_empty' \subseteq not_empty,
           \A ops \in {{"notify", "Pop", "ClearPop"}, {"Push"}, {"notify"}} :
             Awake(ops) \subseteq Awake(ops)'
    PROVE  EnoughAwake' /\ OtherAwake'
<1>1. Room' = Room /\ Full' = Full /\ Room \in Int /\ Len(queue_) \in Nat
  BY RoomIsNat DEF Room, Full, QueueIInv
<1>2. ASSUME NEW ops \in {{"notify", "Pop", "ClearPop"}, {"Push"}}
      PROVE  /\ Cardinality(Awake(ops)) <= Cardinality(Awake(ops)')
             /\ Cardinality(Awake(ops)) \in Nat /\ Cardinality(Awake(ops)') \in Nat
  BY AwakeIsFinite, AwakeIsFiniteNext, FS_Subset
<1>3. EnoughAwake'
  <2>1. SUFFICES ASSUME ~users.batch
        PROVE  /\ not_empty' # {} => Len(queue_) <= Cardinality(Awake({"notify", "Pop", "ClearPop"})')
               /\ not_full' # {} => Room <= Cardinality(Awake({"Push"})')
    BY <1>1 DEF EnoughAwake
  <2>2. /\ not_empty # {} => Len(queue_) <= Cardinality(Awake({"notify", "Pop", "ClearPop"}))
        /\ not_full # {} => Room <= Cardinality(Awake({"Push"}))
    BY <2>1 DEF EnoughAwake
  <2>3. /\ Cardinality(Awake({"notify", "Pop", "ClearPop"})) <= Cardinality(Awake({"notify", "Pop", "ClearPop"})')
        /\ Cardinality(Awake({"Push"})) <= Cardinality(Awake({"Push"})')
        /\ Cardinality(Awake({"notify", "Pop", "ClearPop"})) \in Nat
        /\ Cardinality(Awake({"notify", "Pop", "ClearPop"})') \in Nat
        /\ Cardinality(Awake({"Push"})) \in Nat /\ Cardinality(Awake({"Push"})') \in Nat
    BY <1>2
  <2>4. QED BY <1>1, <2>2, <2>3
<1>4. OtherAwake'
  BY <1>1 DEF OtherAwake
<1>5. QED BY <1>3, <1>4

LEMMA StartKeepsWake ==
    ASSUME QueueIInv, WakeInv, NEW t \in Threads, NEW c, Start(t, c),
           c.op \in PushOps => t \in users.push,
           c.op \in PopOps => t \in users.pop,
           c.op \in {"PushAll", "PopNum"} => users.batch
    PROVE  WakeInv'
<1>1. /\ call[t].op = "none" /\ t \notin not_full \cup not_empty
      /\ call' = [call EXCEPT ![t] = c] /\ call \in [Threads -> Calls]
      /\ UNCHANGED <<users, queue_, not_full, not_empty>>
  BY DEF QueueIInv, Control, WakeInv, WhoWaits, Start, NoCall, Goes, UNCHANGED_Queue
<1>2. WhoWaits'
  BY <1>1 DEF WakeInv, WhoWaits
<1>3. ASSUME NEW ops \in {{"notify", "Pop", "ClearPop"}, {"Push"}, {"notify"}}
      PROVE  Awake(ops) \subseteq Awake(ops)'
  BY <1>1, <1>3 DEF Awake
<1>4. QED BY <1>1, <1>2, <1>3, MoreAwake DEF WakeInv

LEMMA PushKeepsWake ==
    ASSUME QueueIInv, WakeInv, NEW t \in Threads, Push(t)
    PROVE  WakeInv'
<1>1. /\ call \in [Threads -> Calls] /\ call[t].op = "Push"
      /\ t \notin not_full \cup not_empty /\ t \in users.push
      /\ UNCHANGED <<users, not_empty>> /\ Len(queue_) \in Nat /\ queue_ \in Seq(Values)
      /\ WhoWaits /\ EnoughAwake /\ OtherAwake /\ Capacity \in Nat
  BY RoomIsNat, CapacityAssumption
     DEF QueueIInv, Data, Control, WakeInv, WhoWaits, PushOps, Push, Running
<1>2. CASE Full /\ not_full' = not_full \cup {t} /\ UNCHANGED call /\ UNCHANGED_Queue
  <2>1. WhoWaits'
    BY <1>1, <1>2 DEF WhoWaits
  <2>2. /\ Awake({"notify", "Pop", "ClearPop"})' = Awake({"notify", "Pop", "ClearPop"})
        /\ Awake({"notify"})' = Awake({"notify"})
    BY <1>1, <1>2 DEF Awake
  <2>3. Room' <= Cardinality(Awake({"Push"})') /\ Full'
    BY <1>1, <1>2, AwakeIsFiniteNext DEF Full, Room, UNCHANGED_Queue
  <2>4. QED BY <1>1, <1>2, <2>1, <2>2, <2>3 DEF WakeInv, EnoughAwake, OtherAwake, UNCHANGED_Queue
<1>3. CASE /\ ~Full /\ Put(<<call[t].value>>) /\ Goes(t, [op |-> "notify"])
           /\ UNCHANGED not_full
  <2>1. call' = [call EXCEPT ![t] = [op |-> "notify"]] /\ UNCHANGED not_full
    BY <1>3 DEF Goes
  <2>2. WhoWaits'
    BY <1>1, <2>1 DEF WhoWaits, PushOps, PopOps
  <2>3. Len(queue_') = Len(queue_) + 1
    BY <1>1, <1>3, PushCall, ConcatProperties DEF Put
  <2>4. /\ Awake({"notify", "Pop", "ClearPop"})' = Awake({"notify", "Pop", "ClearPop"}) \cup {t}
        /\ t \notin Awake({"notify", "Pop", "ClearPop"})
        /\ Awake({"Push"})' = Awake({"Push"}) \ {t} /\ t \in Awake({"Push"})
        /\ Awake({"notify"})' # {}
    BY <1>1, <2>1 DEF Awake
  <2>5. /\ Cardinality(Awake({"notify", "Pop", "ClearPop"})')
             = Cardinality(Awake({"notify", "Pop", "ClearPop"})) + 1
        /\ Cardinality(Awake({"Push"})') = Cardinality(Awake({"Push"})) - 1
    BY <2>4, AwakeIsFinite, FS_AddElement, FS_RemoveElement
  <2>6. /\ Cardinality(Awake({"notify", "Pop", "ClearPop"})) \in Nat
        /\ Cardinality(Awake({"Push"})) \in Nat
    BY AwakeIsFinite
  <2>7. EnoughAwake'
    BY <1>1, <2>1, <2>3, <2>5, <2>6 DEF EnoughAwake, Room
  <2>8. OtherAwake'
    BY <1>1, <1>3, <2>4 DEF OtherAwake
  <2>9. QED BY <2>2, <2>7, <2>8 DEF WakeInv
<1>4. QED BY <1>2, <1>3 DEF Push

\* A waiter of its own is the only one notify_one can take out.
LEMMA NotifiesTheOther ==
    ASSUME NEW W, NEW L, NEW x, W \subseteq {x}, NotifyOne(W, L)
    PROVE  L = {}
BY DEF NotifyOne

\* A shorter rest of a vector, or of a block, is the same call.
LEMMA RestIsSameCall ==
    ASSUME NEW c \in Calls
    PROVE  /\ c.op = "PushAll" => \A s : [c EXCEPT !.values = s].op = "PushAll"
           /\ c.op = "PopNum" => \A n : [c EXCEPT !.num = n].op = "PopNum"
<1>1. ASSUME c.op = "PushAll"
      PROVE  \A s : [c EXCEPT !.values = s].op = "PushAll"
  <2>1. c \in [op : {"PushAll"}, values : Seq(Values), unlocks : BOOLEAN]
    BY <1>1 DEF Calls, NoCall
  <2>2. QED BY <2>1
<1>2. ASSUME c.op = "PopNum"
      PROVE  \A n : [c EXCEPT !.num = n].op = "PopNum"
  <2>1. c \in [op : {"PopNum"}, num : Nat]
    BY <1>2 DEF Calls, NoCall
  <2>2. QED BY <2>1
<1>3. QED BY <1>1, <1>2

LEMMA PushAllKeepsWake ==
    ASSUME QueueIInv, WakeInv, NEW t \in Threads, PushAll(t)
    PROVE  WakeInv'
<1> DEFINE s == call[t].values
<1>1. /\ call \in [Threads -> Calls] /\ call[t].op = "PushAll" /\ call[t] \in Calls
      /\ t \notin not_full \cup not_empty /\ t \in users.push /\ users.batch
      /\ users' = users /\ WhoWaits /\ OtherAwake
  BY DEF QueueIInv, Control, WakeInv, WhoWaits, PushOps, PushAll, Running
<1>2. PICK p, c \in Threads : not_full \subseteq {p} /\ not_empty \subseteq {c} /\ t = p
  BY <1>1, OneEach DEF PushOps
<1>3. not_full = {}
  BY <1>1, <1>2
<1>4. /\ queue_ \in Seq(Values) /\ Room \in Nat /\ Len(queue_) \in Nat
      /\ s \in Seq(Values) /\ Len(s) \in Nat /\ Capacity \in Nat
  BY <1>1, RoomIsNat, PushAllCall, LenProperties, CapacityAssumption DEF QueueIInv, Data
<1>5. EnoughAwake'
  BY <1>1 DEF EnoughAwake
<1>6. CASE /\ Len(s) > Room
           /\ Put(SubSeq(s, 1, Room))
           /\ Goes(t, [call[t] EXCEPT !.values = SubSeq(s, Room + 1, Len(s))])
           /\ not_full' = not_full \cup {t}
           /\ NotifyOne(not_empty, not_empty')
  <2>1. not_empty' = {}
    BY <1>2, <1>6, NotifiesTheOther
  <2>2. Full'
    <3>1. SubSeq(s, 1, Room) \in Seq(Values) /\ Len(SubSeq(s, 1, Room)) = Room
      <4>1. Room \in 0 .. Len(s)
        BY <1>4, <1>6
      <4>2. QED BY <1>4, <4>1, CutQueue
    <3>2. queue_' = queue_ \o SubSeq(s, 1, Room)
      BY <1>6 DEF Put
    <3>3. Len(queue_') = Len(queue_) + Room
      BY <1>4, <3>1, <3>2, ConcatProperties
    <3>4. QED BY <1>4, <3>3 DEF Full, Room
  <2>3. \E r : call' = [call EXCEPT ![t] = r] /\ r.op = "PushAll"
    BY ZenonT(30), <1>1, <1>6, RestIsSameCall DEF Goes
  <2>4. WhoWaits'
    BY <1>1, <1>3, <1>6, <2>1, <2>3 DEF WhoWaits, PushOps, PopOps
  <2>5. QED BY <1>5, <2>1, <2>2, <2>4 DEF WakeInv, OtherAwake
<1>7. CASE /\ UNCHANGED not_full /\ UNCHANGED not_empty
           /\ Goes(t, [op |-> "notify"])
  <2>1. call' = [call EXCEPT ![t] = [op |-> "notify"]]
    BY <1>7 DEF Goes
  <2>2. WhoWaits'
    BY <1>1, <1>7, <2>1 DEF WhoWaits, PushOps, PopOps
  <2>3. Awake({"notify"})' # {}
    BY <1>1, <1>7, <2>1 DEF Awake
  <2>4. QED BY <1>3, <1>5, <1>7, <2>2, <2>3 DEF WakeInv, OtherAwake
<1>8. CASE UNCHANGED not_full /\ Goes(t, NoCall) /\ NotifyOne(not_empty, not_empty')
  <2>1. not_empty' = {} /\ call' = [call EXCEPT ![t] = NoCall]
    BY <1>2, <1>8, NotifiesTheOther DEF Goes
  <2>2. WhoWaits'
    BY <1>1, <1>8, <2>1 DEF WhoWaits, PushOps, PopOps, NoCall
  <2>3. QED BY <1>3, <1>5, <1>8, <2>1, <2>2 DEF WakeInv, OtherAwake
<1>9. QED BY <1>6, <1>7, <1>8 DEF PushAll

\* The consumer that is woken takes the place of the one that wakes it.
LEMMA NotifyNotEmptyKeepsWake ==
    ASSUME QueueIInv, WakeInv, NEW t \in Threads, NotifyNotEmpty(t)
    PROVE  WakeInv'
<1>1. /\ call \in [Threads -> Calls] /\ call[t].op = "notify"
      /\ t \notin not_full \cup not_empty /\ t \in users.push
      /\ not_full \subseteq Threads /\ not_empty \subseteq Threads
      /\ call' = [call EXCEPT ![t] = NoCall]
      /\ UNCHANGED <<users, not_full, queue_>> /\ NotifyOne(not_empty, not_empty')
      /\ WhoWaits /\ EnoughAwake /\ OtherAwake
  BY DEF QueueIInv, Control, WakeInv, WhoWaits, PushOps, NotifyNotEmpty, Running, Goes, UNCHANGED_Queue
<1>2. WhoWaits'
  BY <1>1 DEF WhoWaits, PushOps, PopOps, NoCall, NotifyOne
<1>3. Awake({"Push"}) \subseteq Awake({"Push"})'
  BY <1>1 DEF Awake, NotifyOne
<1>4. /\ Cardinality(Awake({"Push"})) <= Cardinality(Awake({"Push"})')
      /\ Cardinality(Awake({"Push"})) \in Nat /\ Cardinality(Awake({"Push"})') \in Nat
      /\ Room \in Int /\ Len(queue_) \in Nat
  BY <1>3, AwakeIsFinite, AwakeIsFiniteNext, FS_Subset, RoomIsNat DEF QueueIInv
<1>5. CASE not_empty' = {}
  BY <1>1, <1>2, <1>4, <1>5 DEF WakeInv, EnoughAwake, OtherAwake, Room, Full
<1>6. CASE not_empty' # {} /\ ~users.batch
  <2> DEFINE ops == {"notify", "Pop", "ClearPop"}
             A == Awake(ops)
             B == Awake(ops)'
  <2>1. PICK w \in not_empty : not_empty' = not_empty \ {w}
    BY <1>1, <1>6 DEF NotifyOne
  <2>2. w \in Threads /\ w # t /\ w \notin not_full /\ call[w].op \in {"Pop", "ClearPop"}
    BY <1>1, <1>6, <2>1 DEF WhoWaits, PushOps, PopOps
  <2>3. B = (A \ {t}) \cup {w} /\ t \in A /\ w \notin A
    BY <1>1, <2>1, <2>2 DEF Awake, NoCall
  <2>4. IsFiniteSet(A) /\ Cardinality(A) \in Nat
    BY AwakeIsFinite
  <2> HIDE DEF A, B
  <2>5. IsFiniteSet(A \ {t}) /\ Cardinality(A \ {t}) = Cardinality(A) - 1
    BY <2>3, <2>4, FS_RemoveElement
  <2>6. Cardinality(B) = Cardinality(A)
    <3>1. w \notin A \ {t}
      BY <2>3
    <3>2. Cardinality(B) = Cardinality(A \ {t}) + 1
      BY <2>3, <2>5, <3>1, FS_AddElement
    <3>3. QED BY ONLY <2>4, <2>5, <3>2
  <2>7. QED BY <1>1, <1>2, <1>4, <1>6, <2>1, <2>6 DEF WakeInv, EnoughAwake, OtherAwake, Room, A, B
<1>7. CASE not_empty' # {} /\ users.batch
  BY <1>1, <1>7, OneEach, NotifiesTheOther DEF WakeInv
<1>8. QED BY <1>5, <1>6, <1>7

\* Every value taken costs an awake consumer and gains the room an awake producer.
LEMMA PopOneKeepsWake ==
    ASSUME QueueIInv, WakeInv, NEW t \in Threads, NEW next, PopOne(t, next),
           \/ Running(t, "Pop") /\ next = NoCall
           \/ Running(t, "ClearPop") /\ next = [op |-> "Clear"]
    PROVE  WakeInv'
<1>1. /\ call \in [Threads -> Calls] /\ call[t].op \in {"Pop", "ClearPop"}
      /\ t \notin not_full \cup not_empty /\ t \in users.pop
      /\ not_full \subseteq Threads /\ not_empty \subseteq Threads
      /\ next.op \in {"none", "Clear"} /\ users' = users
      /\ WhoWaits /\ EnoughAwake /\ OtherAwake
      /\ queue_ \in Seq(Values) /\ Len(queue_) \in Nat /\ Capacity \in Nat
  BY RoomIsNat, CapacityAssumption
     DEF QueueIInv, Data, Control, WakeInv, WhoWaits, PopOps, PopOne, Running, NoCall
<1>2. CASE /\ queue_ = <<>> /\ not_empty' = not_empty \cup {t}
           /\ UNCHANGED <<not_full, call>> /\ UNCHANGED_Queue
  <2>1. WhoWaits'
    BY <1>1, <1>2 DEF WhoWaits
  <2>2. Awake({"Push"})' = Awake({"Push"})
    BY <1>1, <1>2 DEF Awake
  <2>3. queue_' = <<>> /\ Len(queue_') = 0 /\ Room' = Room /\ Full' = Full
    BY <1>1, <1>2 DEF UNCHANGED_Queue, Room, Full
  <2>4. Len(queue_') <= Cardinality(Awake({"notify", "Pop", "ClearPop"})')
    BY <2>3, AwakeIsFiniteNext
  <2>5. QED BY <1>1, <1>2, <2>1, <2>2, <2>3, <2>4 DEF WakeInv, EnoughAwake, OtherAwake
<1>3. CASE /\ queue_ # <<>> /\ Take(1) /\ NotifyOne(not_full, not_full')
           /\ Goes(t, next) /\ UNCHANGED not_empty
  <2>1. call' = [call EXCEPT ![t] = next] /\ not_empty' = not_empty
    BY <1>3 DEF Goes
  <2>2. WhoWaits'
    BY <1>1, <1>3, <2>1 DEF WhoWaits, PushOps, PopOps, NotifyOne
  <2>3. Len(queue_') = Len(queue_) - 1
    <3>1. 1 \in 0 .. Len(queue_)
      BY <1>1, <1>3, EmptySeq
    <3>2. QED BY ZenonT(30), <1>1, <1>3, <3>1, CutQueue DEF Take
  <2>4. CASE users.batch
    <3>1. not_full' = {} /\ not_empty = {}
      BY <1>1, <1>3, <2>4, OneEach, NotifiesTheOther DEF PopOps
    <3>2. QED BY <1>1, <2>1, <2>2, <2>4, <3>1 DEF WakeInv, EnoughAwake, OtherAwake
  <2>5. CASE ~users.batch
    <3> DEFINE A == Awake({"notify", "Pop", "ClearPop"})
               B == Awake({"notify", "Pop", "ClearPop"})'
               C == Awake({"Push"})
               D == Awake({"Push"})'
    <3>1. B = A \ {t} /\ t \in A
      BY <1>1, <1>3, <2>1, <2>5 DEF Awake, NotifyOne, WhoWaits
    <3>2. not_full' # {} => \E w : w \notin C /\ D = C \cup {w}
      <4>1. ASSUME not_full' # {}
            PROVE  \E w \in not_full : not_full' = not_full \ {w}
        BY <1>3, <4>1 DEF NotifyOne
      <4>2. ASSUME NEW w \in not_full, not_full' = not_full \ {w}
            PROVE  w \notin C /\ D = C \cup {w}
        <5>1. call[w].op = "Push" /\ w \in Threads /\ w # t /\ w \notin not_empty
          BY <1>1, <2>5, <4>2 DEF WhoWaits
        <5>2. QED BY <1>1, <2>1, <4>2, <5>1 DEF Awake
      <4>3. QED BY <4>1, <4>2
    <3>3. IsFiniteSet(A) /\ Cardinality(A) \in Nat /\ IsFiniteSet(C) /\ Cardinality(C) \in Nat
      BY AwakeIsFinite
    <3>4. /\ not_empty # {} => Len(queue_) <= Cardinality(A)
          /\ not_full # {} => Room <= Cardinality(C)
      BY <1>1, <2>5 DEF EnoughAwake
    <3> HIDE DEF A, B, C, D
    <3>5. Cardinality(B) = Cardinality(A) - 1
      BY <3>1, <3>3, FS_RemoveElement
    <3>6. not_full' # {} => Cardinality(D) = Cardinality(C) + 1
      BY <3>2, <3>3, FS_AddElement
    <3>7. not_full' # {} => not_full # {}
      BY <1>3 DEF NotifyOne
    <3>8. /\ not_empty' # {} => Len(queue_') <= Cardinality(B)
          /\ not_full' # {} => Room' <= Cardinality(D)
      BY <1>1, <2>1, <2>3, <3>3, <3>4, <3>5, <3>6, <3>7 DEF Room
    <3>9. QED BY <1>1, <2>2, <2>5, <3>8 DEF WakeInv, EnoughAwake, OtherAwake, B, D
  <2>6. QED BY <2>4, <2>5
<1>4. QED BY <1>2, <1>3 DEF PopOne

LEMMA PopNumKeepsWake ==
    ASSUME QueueIInv, WakeInv, NEW t \in Threads, PopNum(t)
    PROVE  WakeInv'
<1> DEFINE n == call[t].num
<1>1. /\ call \in [Threads -> Calls] /\ call[t].op = "PopNum" /\ call[t] \in Calls
      /\ t \notin not_full \cup not_empty /\ t \in users.pop /\ users.batch
      /\ users' = users /\ WhoWaits /\ OtherAwake /\ NotifyOne(not_full, not_full')
      /\ queue_ \in Seq(Values) /\ Len(queue_) \in Nat
  BY RoomIsNat DEF QueueIInv, Data, Control, WakeInv, WhoWaits, PopOps, PopNum, Running
<1>2. not_full' = {} /\ not_empty = {}
  BY <1>1, OneEach, NotifiesTheOther DEF PopOps
<1>3. EnoughAwake'
  BY <1>1 DEF EnoughAwake
<1>4. CASE /\ Take(Len(queue_))
           /\ Goes(t, [call[t] EXCEPT !.num = n - Len(queue_)])
           /\ not_empty' = not_empty \cup {t}
  <2>1. \E r : call' = [call EXCEPT ![t] = r] /\ r.op = "PopNum"
    <3>1. [call[t] EXCEPT !.num = n - Len(queue_)].op = "PopNum"
      BY <1>1, RestIsSameCall
    <3>2. QED BY <1>4, <3>1 DEF Goes
  <2>2. WhoWaits'
    BY <1>1, <1>2, <1>4, <2>1 DEF WhoWaits, PushOps, PopOps
  <2>3. queue_' = <<>>
    <3>1. queue_' \in Seq(Values) /\ Len(queue_') = Len(queue_) - Len(queue_)
      BY <1>1, <1>4, CutQueue DEF Take
    <3>2. QED BY <1>1, <3>1, EmptySeq
  <2>4. QED BY <1>2, <1>3, <2>2, <2>3 DEF WakeInv, OtherAwake
<1>5. CASE Goes(t, NoCall) /\ UNCHANGED not_empty
  <2>1. call' = [call EXCEPT ![t] = NoCall]
    BY <1>5 DEF Goes
  <2>2. WhoWaits'
    BY <1>1, <1>2, <1>5, <2>1 DEF WhoWaits, PushOps, PopOps, NoCall
  <2>3. QED BY <1>2, <1>3, <1>5, <2>2 DEF WakeInv, OtherAwake
<1>6. QED BY <1>4, <1>5 DEF PopNum

LEMMA ClearTestKeepsWake ==
    ASSUME QueueIInv, WakeInv, NEW t \in Threads, ClearTest(t)
    PROVE  WakeInv'
<1>1. PICK c \in {NoCall, [op |-> "ClearPop"]} :
        /\ call' = [call EXCEPT ![t] = c] /\ call[t].op = "Clear"
        /\ call \in [Threads -> Calls] /\ t \in users.pop
        /\ UNCHANGED <<users, not_full, not_empty, queue_>>
  BY DEF QueueIInv, Control, WakeInv, WhoWaits, PopOps, ClearTest, Running, Goes, UNCHANGED_Queue
<1>2. c.op \in {"none", "ClearPop"}
  BY DEF NoCall
<1>3. WhoWaits'
  BY <1>1, <1>2 DEF WakeInv, WhoWaits, PushOps, PopOps
<1>4. ASSUME NEW ops \in {{"notify", "Pop", "ClearPop"}, {"Push"}, {"notify"}}
      PROVE  Awake(ops) \subseteq Awake(ops)'
  BY <1>1, <1>4 DEF Awake
<1>5. QED BY <1>1, <1>3, <1>4, MoreAwake DEF WakeInv

LEMMA SpuriousWakeUpKeepsWake ==
    ASSUME QueueIInv, WakeInv, NEW t \in Threads, SpuriousWakeUp(t)
    PROVE  WakeInv'
<1>1. /\ not_full' = not_full \ {t} /\ not_empty' = not_empty \ {t}
      /\ UNCHANGED <<users, call, queue_>>
  BY DEF SpuriousWakeUp, UNCHANGED_Queue
<1>2. WhoWaits'
  BY <1>1 DEF WakeInv, WhoWaits
<1>3. ASSUME NEW ops PROVE Awake(ops) \subseteq Awake(ops)'
  BY <1>1 DEF Awake
<1>4. QED BY <1>1, <1>2, <1>3, MoreAwake DEF WakeInv

LEMMA InitWakeInv == QueueInit => WakeInv
<1> SUFFICES ASSUME QueueInit PROVE WakeInv
  OBVIOUS
<1>1. \A t \in Threads : call[t].op = "none"
  BY DEF QueueInit, NoCall
<1>2. WhoWaits
  BY <1>1 DEF QueueInit, WhoWaits, PushOps, PopOps
<1>3. QED BY <1>2 DEF QueueInit, WakeInv, EnoughAwake, OtherAwake

LEMMA NextKeepsWakeInv == QueueIInv /\ WakeInv /\ [QueueNext]_queue_vars => WakeInv'
<1> SUFFICES ASSUME QueueIInv, WakeInv, [QueueNext]_queue_vars PROVE WakeInv'
  OBVIOUS
<1>1. CASE UNCHANGED queue_vars
  <2>1. ASSUME NEW ops PROVE Awake(ops)' = Awake(ops)
    BY <1>1 DEF Awake, queue_vars
  <2>2. QED BY <1>1, <2>1 DEF queue_vars, WakeInv, WhoWaits, EnoughAwake, OtherAwake, Room, Full
<1>2. ASSUME NEW t \in Threads,
             \/ CallPush(t) \/ CallPushAll(t) \/ CallPop(t) \/ CallPopNum(t) \/ CallClear(t)
             \/ Push(t) \/ PushAll(t) \/ NotifyNotEmpty(t)
             \/ Pop(t) \/ PopNum(t) \/ ClearTest(t) \/ ClearPop(t)
             \/ SpuriousWakeUp(t)
      PROVE  WakeInv'
  <2>1. CASE CallPush(t)
    BY <2>1, StartKeepsWake DEF CallPush, PushOps, PopOps
  <2>2. CASE CallPushAll(t)
    BY <2>2, StartKeepsWake DEF CallPushAll, PushOps, PopOps
  <2>3. CASE CallPop(t)
    BY <2>3, StartKeepsWake DEF CallPop, PushOps, PopOps
  <2>4. CASE CallPopNum(t)
    BY <2>4, StartKeepsWake DEF CallPopNum, PushOps, PopOps
  <2>5. CASE CallClear(t)
    BY <2>5, StartKeepsWake DEF CallClear, PushOps, PopOps
  <2>6. CASE Push(t)
    BY <2>6, PushKeepsWake
  <2>7. CASE PushAll(t)
    BY <2>7, PushAllKeepsWake
  <2>8. CASE NotifyNotEmpty(t)
    BY <2>8, NotifyNotEmptyKeepsWake
  <2>9. CASE Pop(t)
    BY <2>9, PopOneKeepsWake DEF Pop
  <2>10. CASE PopNum(t)
    BY <2>10, PopNumKeepsWake
  <2>11. CASE ClearTest(t)
    BY <2>11, ClearTestKeepsWake
  <2>12. CASE ClearPop(t)
    BY <2>12, PopOneKeepsWake DEF ClearPop
  <2>13. CASE SpuriousWakeUp(t)
    BY <2>13, SpuriousWakeUpKeepsWake
  <2>14. QED
    BY <1>2, <2>1, <2>2, <2>3, <2>4, <2>5, <2>6, <2>7, <2>8, <2>9, <2>10, <2>11, <2>12, <2>13
<1>3. QED BY <1>1, <1>2 DEF QueueNext

\* Nobody is left asleep beside work, whatever the number of threads and the capacity:
\* single values between any producers and consumers, vectors between one of each.
THEOREM NobodyIsStranded == QueueSpec => []NobodyStranded
<1>1. QueueInit => QueueIInv /\ WakeInv
  BY InitQueueIInv, InitWakeInv
<1>2. QueueIInv /\ WakeInv /\ [QueueNext]_queue_vars => (QueueIInv /\ WakeInv)'
  BY NextKeepsQueueIInv, NextKeepsWakeInv
<1>3. ASSUME QueueIInv, WakeInv
      PROVE  NobodyStranded
  <2>1. SUFFICES ASSUME \A t \in Threads : call[t] = NoCall \/ t \in not_full \cup not_empty
                 PROVE  (not_empty # {} => queue_ = <<>>) /\ (not_full # {} => Full)
    BY DEF NobodyStranded
  <2>2. ASSUME NEW ops, "none" \notin ops PROVE Awake(ops) = {}
    BY <2>1, <2>2 DEF Awake, NoCall
  <2>3. CASE users.batch
    BY <1>3, <2>2, <2>3 DEF WakeInv, OtherAwake
  <2>4. CASE ~users.batch
    <3>1. /\ Cardinality(Awake({"notify", "Pop", "ClearPop"})) = 0
          /\ Cardinality(Awake({"Push"})) = 0
      BY <2>2, FS_EmptySet
    <3>2. /\ queue_ \in Seq(Values) /\ Len(queue_) \in Nat /\ Room \in Nat /\ Capacity \in Nat
      BY <1>3, RoomIsNat, CapacityAssumption DEF QueueIInv, Data
    <3>3. /\ not_empty # {} => Len(queue_) <= 0
          /\ not_full # {} => Room <= 0
      BY <1>3, <2>4, <3>1 DEF WakeInv, EnoughAwake
    <3>4. QED BY <3>2, <3>3, EmptySeq DEF Full, Room
  <2>5. QED BY <2>3, <2>4
<1>4. QED BY <1>1, <1>2, <1>3, PTL DEF QueueSpec

--------------------------------------------------------------------------------
(***************************************************************************)
(* decoder_main.  The waves are dealt out in the order of the list: Left   *)
(* are still main's, the ones before them wait in the pool, and of the     *)
(* first Taken ones each is in one place: run by one worker, written in    *)
(* one line, or failed.                                                    *)
(***************************************************************************)
Tasks == [wav : Nat, warmup : BOOLEAN]

Runs(w) == running[w] # NoTask

MainTypes ==
    /\ workers \in [Workers -> {"none", "wakes", "waits", "runs", "returned"}]
    /\ running \in [Workers -> Tasks \cup {NoTask}]
    /\ \A w \in Workers : workers[w] = "runs" <=> Runs(w)
    /\ tasks \in Seq(Tasks) /\ left \in Seq(Tasks)
    /\ stop \in BOOLEAN
    /\ phase \in {"start", "warmup", "decode", "total"}
    /\ at \in {"enqueue", "notify", "stop", "notify_all", "join", "joined"}
    /\ waves \in WaveCounts /\ warmups \in Warmups
    /\ failed \subseteq 1 .. waves
    /\ g_result \in Seq(1 .. waves)

Orderly ==
    /\ phase = "start" => /\ at = "join" /\ left = <<>> /\ tasks = <<>> /\ ~stop
                          /\ \A w \in Workers : workers[w] = "none"
    /\ phase = "total" => at = "joined"
    /\ phase # "start" =>
         /\ at = "enqueue" => left # <<>>
         /\ at \notin {"enqueue", "notify"} => left = <<>>
         /\ stop => at \in {"notify_all", "join", "joined"}
    /\ \A w \in Workers : workers[w] = "returned" => stop /\ tasks = <<>>
    /\ at = "joined" => AllJoined

OnlyWarmups ==
    phase \in {"start", "warmup"} =>
      /\ \A i \in 1 .. Len(left) : left[i].warmup
      /\ \A i \in 1 .. Len(tasks) : tasks[i].warmup
      /\ \A w \in Workers : Runs(w) => running[w].warmup
      /\ g_result = <<>> /\ failed = {}

Taken == waves - Len(left) - Len(tasks)

\* The tasks that are still main's and the pool's are the end of the list, in order.
Dealt ==
    /\ Len(left) + Len(tasks) <= waves
    /\ \A i \in 1 .. Len(left) : left[i] = Task(waves - Len(left) + i, FALSE)
    /\ \A i \in 1 .. Len(tasks) : tasks[i] = Task(Taken + i, FALSE)

\* No wave is in two places.
Apart ==
    /\ \A w \in Workers : Runs(w) => ~running[w].warmup /\ running[w].wav \in 1 .. Taken
    /\ \A v, w \in Workers : Runs(v) /\ Runs(w) /\ running[v].wav = running[w].wav => v = w
    /\ \A i \in 1 .. Len(g_result) :
         /\ g_result[i] \in 1 .. Taken /\ g_result[i] \notin failed
         /\ \A w \in Workers : Runs(w) => running[w].wav # g_result[i]
    /\ \A i, j \in 1 .. Len(g_result) : g_result[i] = g_result[j] => i = j
    /\ \A n \in failed : n <= Taken /\ \A w \in Workers : Runs(w) => running[w].wav # n

\* And every one that was taken is in one.
Placed ==
    \A n \in 1 .. Taken :
      \/ n \in failed
      \/ \E i \in 1 .. Len(g_result) : g_result[i] = n
      \/ \E w \in Workers : Runs(w) /\ running[w].wav = n

EachOnce == phase \in {"decode", "total"} => Dealt /\ Apart /\ Placed

Summed == g_total_waves_dur = TotalDur(g_result)

MainIInv == MainTypes /\ Orderly /\ OnlyWarmups /\ EachOnce /\ Summed

LEMMA TaskIsNotNoTask == \A t \in Tasks : t # NoTask
BY DEF Tasks, NoTask

(***************************************************************************)
(* The sum over a list exists and grows by the wave that is added to it:   *)
(* by the least length, or the least place, where it would not.            *)
(***************************************************************************)
LEMMA LeastNumber ==
    ASSUME NEW S \in SUBSET Nat, S # {}
    PROVE  \E m \in S : \A k \in S : m <= k
<1> DEFINE R == {ss \in Nat \X Nat : ss[1] < ss[2]}
<1>1. IsWellFoundedOn(R, Nat)
  BY NatLessThanWellFounded DEF OpToRel
<1>2. \A x, y \in Nat : x < y => <<x, y>> \in R
  OBVIOUS
<1> HIDE DEF R
<1>3. \E x \in S : \A y \in S : ~(<<y, x>> \in R)
  BY <1>1, WFMin
<1>4. PICK x \in S : \A y \in S : ~(<<y, x>> \in R)
  BY <1>3
<1>5. ASSUME NEW y \in S PROVE x <= y
  <2>1. x \in Nat /\ y \in Nat /\ ~(y < x)
    BY <1>2, <1>4
  <2>2. QED BY <2>1
<1>6. QED BY <1>5

IsSum(sum, result) ==
    sum = [i \in 0 .. Len(result) |->
             IF i = 0 THEN 0 ELSE sum[i - 1] + WaveDur[result[i]]]

LEMMA SumExists ==
    ASSUME NEW S, NEW result \in Seq(S)
    PROVE  \E sum : IsSum(sum, result)
<1> DEFINE Add(sum, i) == IF i = 0 THEN 0 ELSE sum[i - 1] + WaveDur[result[i]]
           Upto(sum, k) == sum = [i \in 0 .. k |-> Add(sum, i)]
           Bad == {k \in 0 .. Len(result) : ~\E sum : Upto(sum, k)}
<1>1. Len(result) \in Nat
  BY LenProperties
<1>2. SUFFICES Bad = {}
  <2>1. Bad = {} => \E sum : Upto(sum, Len(result))
    BY <1>1
  <2>2. (\E sum : Upto(sum, Len(result))) => \E sum : IsSum(sum, result)
    BY DEF IsSum
  <2>3. QED BY <2>1, <2>2
<1>3. SUFFICES ASSUME Bad # {} PROVE FALSE
  OBVIOUS
<1>4. Bad \in SUBSET Nat
  BY <1>1
<1>5. PICK k \in Bad : \A j \in Bad : k <= j
  <2> HIDE DEF Bad
  <2>1. QED BY <1>3, <1>4, LeastNumber
<1>6. k \in 0 .. Len(result) /\ ~\E sum : Upto(sum, k)
  BY <1>5
<1>7. k # 0
  <2>1. Upto([i \in 0 .. 0 |-> 0], 0)
    OBVIOUS
  <2>2. QED BY <1>6, <2>1
<1>8. k - 1 \in 0 .. Len(result) /\ k - 1 \notin Bad
  <2>1. k \in Nat /\ k \in 0 .. Len(result)
    BY <1>1, <1>6
  <2>2. \A j \in Bad : k <= j
    BY <1>5
  <2> HIDE DEF Bad
  <2>3. QED BY <1>1, <1>7, <2>1, <2>2
<1>9. PICK sum : Upto(sum, k - 1)
  BY <1>8
<1> DEFINE more == [i \in 0 .. k |-> IF i = k THEN sum[k - 1] + WaveDur[result[k]] ELSE sum[i]]
<1>10. ASSUME NEW i \in 0 .. k PROVE more[i] = Add(more, i)
  <2>1. CASE i = k
    BY <1>1, <1>6, <1>7, <2>1
  <2>2. CASE i # k
    <3>1. i \in 0 .. (k - 1) /\ more[i] = sum[i]
      BY <1>1, <1>6, <2>2
    <3>2. sum[i] = Add(sum, i)
      BY <1>9, <3>1
    <3>3. CASE i = 0
      BY <3>1, <3>2, <3>3
    <3>4. CASE i # 0
      <4>1. i - 1 \in 0 .. k /\ i - 1 # k
        BY <1>1, <1>6, <3>1, <3>4
      <4>2. more[i - 1] = sum[i - 1]
        BY <4>1
      <4>3. QED BY <3>1, <3>2, <3>4, <4>2
    <3>5. QED BY <3>3, <3>4
  <2>3. QED BY <2>1, <2>2
<1>11. Upto(more, k)
  <2>1. more = [i \in 0 .. k |-> more[i]]
    OBVIOUS
  <2> HIDE DEF more, Add
  <2>2. [i \in 0 .. k |-> more[i]] = [i \in 0 .. k |-> Add(more, i)]
    BY <1>10
  <2>3. QED BY <2>1, <2>2
<1>12. QED BY <1>6, <1>11

\* The sum of a longer list starts with that of the shorter.
LEMMA SumsAgree ==
    ASSUME NEW S, NEW result \in Seq(S), NEW n \in S, NEW f, NEW g,
           IsSum(f, result), IsSum(g, Append(result, n))
    PROVE  g[Len(result) + 1] = f[Len(result)] + WaveDur[n]
<1> DEFINE k == Len(result)
           more == Append(result, n)
<1>1. /\ k \in Nat /\ Len(more) = k + 1 /\ more[k + 1] = n
      /\ \A i \in 1 .. k : more[i] = result[i]
  BY LenProperties, AppendProperties
<1>2. /\ \A i \in 0 .. k : f[i] = IF i = 0 THEN 0 ELSE f[i - 1] + WaveDur[result[i]]
  BY <1>1 DEF IsSum
<1>3. \A i \in 0 .. (k + 1) : g[i] = IF i = 0 THEN 0 ELSE g[i - 1] + WaveDur[more[i]]
  BY <1>1 DEF IsSum
<1> HIDE DEF more, k
<1> DEFINE Bad == {i \in 0 .. k : g[i] # f[i]}
<1>4. Bad = {}
  <2>1. SUFFICES ASSUME Bad # {} PROVE FALSE
    OBVIOUS
  <2>2. Bad \in SUBSET Nat
    BY <1>1
  <2>3. PICK i \in Bad : \A j \in Bad : i <= j
    <3> HIDE DEF Bad
    <3>1. QED BY <2>1, <2>2, LeastNumber
  <2>4. i \in 0 .. k /\ g[i] # f[i]
    BY <2>3
  <2>5. i # 0
    BY <1>1, <1>2, <1>3, <2>4
  <2>6. i - 1 \in 0 .. k /\ i - 1 \notin Bad
    BY <1>1, <2>3, <2>4, <2>5
  <2>7. g[i - 1] = f[i - 1]
    BY <2>6
  <2>8. more[i] = result[i]
    BY <1>1, <2>4, <2>5
  <2>9. g[i] = g[i - 1] + WaveDur[more[i]]
    BY <1>1, <1>3, <2>4, <2>5
  <2>10. f[i] = f[i - 1] + WaveDur[result[i]]
    BY <1>1, <1>2, <2>4, <2>5
  <2>11. QED BY <2>4, <2>7, <2>8, <2>9, <2>10
<1>5. g[k] = f[k]
  BY <1>1, <1>4
<1>6. g[k + 1] = g[k] + WaveDur[n]
  BY <1>1, <1>3
<1>7. QED BY <1>5, <1>6 DEF k

LEMMA TotalDurGrows ==
    ASSUME NEW S, NEW result \in Seq(S), NEW n \in S
    PROVE  TotalDur(Append(result, n)) = TotalDur(result) + WaveDur[n]
<1> DEFINE f == CHOOSE sum : IsSum(sum, result)
           g == CHOOSE sum : IsSum(sum, Append(result, n))
<1>1. Append(result, n) \in Seq(S) /\ Len(Append(result, n)) = Len(result) + 1
  BY AppendProperties
<1>2. IsSum(f, result)
  BY SumExists
<1>3. IsSum(g, Append(result, n))
  BY <1>1, SumExists
<1>4. TotalDur(result) = f[Len(result)]
  BY DEF TotalDur, IsSum
<1>5. TotalDur(Append(result, n)) = g[Len(Append(result, n))]
  BY DEF TotalDur, IsSum
<1> HIDE DEF f, g
<1>6. QED BY <1>1, <1>2, <1>3, <1>4, <1>5, SumsAgree

LEMMA NoneSumsToZero == TotalDur(<<>>) = 0
<1> DEFINE f == CHOOSE sum : IsSum(sum, <<>>)
<1>1. IsSum(f, <<>>)
  <2>1. <<>> \in Seq({})
    OBVIOUS
  <2>2. QED BY <2>1, SumExists
<1>2. TotalDur(<<>>) = f[Len(<<>>)]
  BY DEF TotalDur, IsSum
<1> HIDE DEF f
<1>3. QED BY <1>1, <1>2 DEF IsSum

--------------------------------------------------------------------------------
(***************************************************************************)
(* The steps of decoder_main                                               *)
(***************************************************************************)

LEMMA InitMainIInv == MainInit => MainIInv
<1> SUFFICES ASSUME MainInit PROVE MainIInv
  OBVIOUS
<1>1. /\ workers = [w \in Workers |-> "none"] /\ running = [w \in Workers |-> NoTask]
      /\ tasks = <<>> /\ left = <<>> /\ stop = FALSE /\ phase = "start" /\ at = "join"
      /\ waves \in WaveCounts /\ warmups \in Warmups
      /\ g_result = <<>> /\ g_total_waves_dur = 0 /\ failed = {}
  BY DEF MainInit, PoolInit
<1>2. \A w \in Workers : ~Runs(w) /\ workers[w] = "none"
  BY <1>1 DEF Runs
<1>3. MainTypes
  <2>1. tasks \in Seq(Tasks) /\ left \in Seq(Tasks) /\ g_result \in Seq(1 .. waves)
    BY <1>1
  <2>2. running \in [Workers -> Tasks \cup {NoTask}]
    BY <1>1
  <2>3. QED BY <1>1, <1>2, <2>1, <2>2 DEF MainTypes
<1>4. Orderly
  BY <1>1, <1>2 DEF Orderly
<1>5. OnlyWarmups
  BY <1>1, <1>2 DEF OnlyWarmups
<1>6. EachOnce /\ Summed
  BY <1>1, NoneSumsToZero DEF EachOnce, Summed
<1>7. QED BY <1>3, <1>4, <1>5, <1>6 DEF MainIInv

\* What a step leaves alone that touches no task and no line.
LEMMA QuietKeepsWaves ==
    ASSUME MainIInv, UNCHANGED <<running, tasks, left, waves, warmups, g_result,
                                 g_total_waves_dur, failed>>,
           workers' \in [Workers -> {"none", "wakes", "waits", "runs", "returned"}],
           \A w \in Workers : workers'[w] = "runs" <=> workers[w] = "runs",
           phase' \in {"start", "warmup", "decode", "total"},
           phase' \in {"start", "warmup"} <=> phase \in {"start", "warmup"},
           at' \in {"enqueue", "notify", "stop", "notify_all", "join", "joined"},
           stop' \in BOOLEAN
    PROVE  MainTypes' /\ OnlyWarmups' /\ EachOnce' /\ Summed'
<1>1. \A w : Runs(w)' <=> Runs(w)
  BY DEF Runs
<1>2. MainTypes'
  BY <1>1 DEF MainIInv, MainTypes
<1>3. OnlyWarmups'
  BY <1>1 DEF MainIInv, OnlyWarmups
<1>4. phase' \in {"decode", "total"} => phase \in {"decode", "total"}
  BY DEF MainIInv, MainTypes
<1>5. Taken' = Taken
  BY DEF Taken
<1>6. /\ Dealt => Dealt'
      /\ Placed => Placed'
  BY <1>1, <1>5 DEF Dealt, Placed
<1>7. Apart => Apart'
  BY <1>1, <1>5 DEF Apart
<1>8. EachOnce'
  BY <1>4, <1>6, <1>7 DEF MainIInv, EachOnce
<1>9. Summed'
  BY DEF MainIInv, Summed
<1>10. QED BY <1>2, <1>3, <1>8, <1>9

\* A pool is made with all its workers awake; its tasks are main's to hand over.
LEMMA NewPoolKeepsIInv ==
    ASSUME MainIInv, NEW name \in {"warmup", "decode"}, NEW list \in Seq(Tasks), list # <<>>,
           StartPool(name, list)
    PROVE  /\ MainTypes' /\ Orderly' /\ Summed'
           /\ \A w \in Workers : ~Runs(w)'
           /\ tasks' = <<>> /\ left' = list /\ phase' = name
           /\ UNCHANGED <<waves, g_result, failed>>
<1>1. /\ workers' = [w \in Workers |-> "wakes"] /\ running' = [w \in Workers |-> NoTask]
      /\ tasks' = <<>> /\ left' = list /\ stop' = FALSE /\ phase' = name /\ at' = "enqueue"
      /\ UNCHANGED <<waves, warmups, g_result, g_total_waves_dur, failed>>
  BY DEF StartPool, NewPool, MainUnchanged
<1>2. \A w \in Workers : ~Runs(w)' /\ workers'[w] = "wakes"
  BY <1>1 DEF Runs
<1>3. MainTypes'
  <2>1. tasks' \in Seq(Tasks) /\ left' \in Seq(Tasks)
    BY <1>1
  <2>2. running' \in [Workers -> Tasks \cup {NoTask}]
    BY <1>1
  <2>3. QED BY <1>1, <1>2, <2>1, <2>2 DEF MainIInv, MainTypes
<1>4. Orderly'
  BY <1>1, <1>2 DEF Orderly
<1>5. Summed'
  BY <1>1 DEF MainIInv, Summed
<1>6. QED BY <1>1, <1>2, <1>3, <1>4, <1>5

LEMMA WarmupKeepsIInv ==
    ASSUME MainIInv, Warmup
    PROVE  MainIInv'
<1> DEFINE list == [n \in 1 .. warmups |-> Task(1, TRUE)]
<1>1. warmups \in Int /\ warmups > 0 /\ phase = "start"
  BY WarmupsAssumption DEF Warmup, MainIInv, MainTypes
<1>2. list \in Seq(Tasks) /\ Len(list) = warmups /\ \A i \in 1 .. Len(list) : list[i].warmup
  BY <1>1 DEF Tasks, Task
<1>3. StartPool("warmup", list)
  BY DEF Warmup
<1> HIDE DEF list
<1>4. list # <<>>
  BY <1>1, <1>2
<1>5. /\ MainTypes' /\ Orderly' /\ Summed'
      /\ \A w \in Workers : ~Runs(w)'
      /\ tasks' = <<>> /\ left' = list /\ phase' = "warmup"
      /\ UNCHANGED <<waves, g_result, failed>>
  BY <1>2, <1>3, <1>4, NewPoolKeepsIInv
<1>6. OnlyWarmups'
  BY <1>1, <1>2, <1>5 DEF OnlyWarmups, MainIInv
<1>7. EachOnce'
  BY <1>5 DEF EachOnce
<1>8. QED BY <1>5, <1>6, <1>7 DEF MainIInv

LEMMA DecodeAllKeepsIInv ==
    ASSUME MainIInv, DecodeAll
    PROVE  MainIInv'
<1>1. phase \in {"start", "warmup"} /\ StartPool("decode", AllWaves)
  BY DEF DecodeAll
<1>2. waves \in Nat \ {0}
  BY WaveCountsAssumption DEF MainIInv, MainTypes
<1>3. /\ AllWaves \in Seq(Tasks) /\ Len(AllWaves) = waves
      /\ \A i \in 1 .. waves : AllWaves[i] = Task(i, FALSE)
  BY <1>2 DEF Tasks, Task, AllWaves
<1>4. AllWaves # <<>>
  BY <1>2, <1>3
<1>5. /\ MainTypes' /\ Orderly' /\ Summed'
      /\ \A w \in Workers : ~Runs(w)'
      /\ tasks' = <<>> /\ left' = AllWaves /\ phase' = "decode"
      /\ UNCHANGED <<waves, g_result, failed>>
  BY <1>1, <1>3, <1>4, NewPoolKeepsIInv
<1>6. OnlyWarmups'
  BY <1>5 DEF OnlyWarmups
<1>7. g_result' = <<>> /\ failed' = {}
  BY <1>1, <1>5 DEF MainIInv, OnlyWarmups
<1>8. Len(left') = waves' /\ Len(tasks') = 0 /\ Taken' = 0
  BY <1>2, <1>3, <1>5 DEF Taken
<1>9. Dealt'
  <2>1. ASSUME NEW i \in 1 .. Len(left')
        PROVE  left'[i] = Task(waves' - Len(left') + i, FALSE)
    <3>1. waves' - Len(left') + i = i /\ i \in 1 .. waves
      BY <1>2, <1>3, <1>5, <1>8
    <3>2. QED BY <1>3, <1>5, <3>1
  <2>2. Len(left') + Len(tasks') <= waves'
    BY <1>2, <1>3, <1>5, <1>8
  <2>3. 1 .. Len(tasks') = {}
    BY <1>8
  <2>4. QED BY <2>1, <2>2, <2>3 DEF Dealt
<1>10. Apart' /\ Placed'
  BY <1>5, <1>7, <1>8 DEF Apart, Placed
<1>11. QED BY <1>5, <1>6, <1>9, <1>10 DEF MainIInv, EachOnce

\* The next task goes from main's list to the end of the pool's.
LEMMA MainEnqueueKeepsIInv ==
    ASSUME MainIInv, MainEnqueue
    PROVE  MainIInv'
<1>1. /\ at = "enqueue" /\ ~stop /\ at' = "notify"
      /\ tasks' = Append(tasks, Head(left)) /\ left' = Tail(left)
      /\ UNCHANGED <<workers, running, stop, phase, waves, warmups, g_result,
                     g_total_waves_dur, failed>>
  BY DEF MainEnqueue, Enqueue, MainUnchanged
<1>2. /\ left \in Seq(Tasks) /\ tasks \in Seq(Tasks) /\ left # <<>> /\ phase # "start"
      /\ stop \in BOOLEAN
  BY <1>1 DEF MainIInv, MainTypes, Orderly
<1>3. /\ left' \in Seq(Tasks) /\ Len(left') = Len(left) - 1 /\ Len(left) \in Nat \ {0}
      /\ \A i \in 1 .. Len(left') : left'[i] = left[i + 1]
  BY <1>1, <1>2
<1>4. /\ tasks' \in Seq(Tasks) /\ Len(tasks') = Len(tasks) + 1 /\ Len(tasks) \in Nat
      /\ \A i \in 1 .. Len(tasks) : tasks'[i] = tasks[i]
      /\ tasks'[Len(tasks) + 1] = left[1]
  BY <1>1, <1>2
<1>5. \A w : Runs(w)' <=> Runs(w)
  BY <1>1 DEF Runs
<1>6. MainTypes'
  BY <1>1, <1>3, <1>4, <1>5 DEF MainIInv, MainTypes
<1>7. Orderly'
  BY <1>1, <1>2 DEF MainIInv, Orderly, MainTypes
<1>8. OnlyWarmups'
  <2>1. SUFFICES ASSUME phase \in {"start", "warmup"}
                 PROVE  /\ \A i \in 1 .. Len(left') : left'[i].warmup
                        /\ \A i \in 1 .. Len(tasks') : tasks'[i].warmup
    BY <1>1, <1>5 DEF MainIInv, OnlyWarmups
  <2>2. /\ \A i \in 1 .. Len(left) : left[i].warmup
        /\ \A i \in 1 .. Len(tasks) : tasks[i].warmup
    BY <2>1 DEF MainIInv, OnlyWarmups
  <2>3. \A i \in 1 .. Len(left') : left'[i].warmup
    BY <1>3, <2>2
  <2>4. ASSUME NEW i \in 1 .. Len(tasks') PROVE tasks'[i].warmup
    <3>1. i \in 1 .. Len(tasks) \/ i = Len(tasks) + 1
      BY <1>4
    <3>2. 1 \in 1 .. Len(left)
      BY <1>3
    <3>3. QED BY <1>4, <2>2, <3>1, <3>2
  <2>5. QED BY <2>3, <2>4
<1>9. waves \in Nat
  BY WaveCountsAssumption DEF MainIInv, MainTypes
<1>10. Taken' = Taken /\ Taken = waves - Len(left) - Len(tasks)
  BY <1>1, <1>3, <1>4, <1>9 DEF Taken
<1>11. EachOnce'
  <2>1. SUFFICES ASSUME phase \in {"decode", "total"} PROVE Dealt' /\ Apart' /\ Placed'
    BY <1>1 DEF EachOnce
  <2>2. Dealt /\ Apart /\ Placed
    BY <2>1 DEF MainIInv, EachOnce
  <2>3. Apart' /\ Placed'
    BY <1>1, <1>5, <1>10, <2>2 DEF Apart, Placed
  <2>4. Len(left') + Len(tasks') <= waves'
    BY <1>1, <1>3, <1>4, <1>9, <2>2 DEF Dealt
  <2>5. ASSUME NEW i \in 1 .. Len(left')
        PROVE  left'[i] = Task(waves' - Len(left') + i, FALSE)
    <3>1. left[i + 1] = Task(waves - Len(left) + (i + 1), FALSE)
      <4>1. i + 1 \in 1 .. Len(left)
        BY <1>3
      <4>2. QED BY <2>2, <4>1 DEF Dealt
    <3>2. waves - Len(left) + (i + 1) = waves' - Len(left') + i
      BY <1>1, <1>3, <1>9
    <3>3. QED BY <1>3, <3>1, <3>2
  <2>6. ASSUME NEW i \in 1 .. Len(tasks')
        PROVE  tasks'[i] = Task(Taken' + i, FALSE)
    <3>1. CASE i \in 1 .. Len(tasks)
      BY <1>4, <1>10, <2>2, <3>1 DEF Dealt
    <3>2. CASE i = Len(tasks) + 1
      <4>1. left[1] = Task(waves - Len(left) + 1, FALSE)
        <5>1. 1 \in 1 .. Len(left)
          BY <1>3
        <5>2. QED BY <2>2, <5>1 DEF Dealt
      <4>2. waves - Len(left) + 1 = Taken' + i
        BY <1>3, <1>4, <1>9, <1>10, <3>2
      <4>3. QED BY <1>4, <3>2, <4>1, <4>2
    <3>3. i \in 1 .. Len(tasks) \/ i = Len(tasks) + 1
      BY <1>4
    <3>4. QED BY <3>1, <3>2, <3>3
  <2>7. Dealt'
    BY <2>4, <2>5, <2>6 DEF Dealt
  <2>8. QED BY <2>3, <2>7
<1>12. Summed'
  BY <1>1 DEF MainIInv, Summed
<1>13. QED BY <1>6, <1>7, <1>8, <1>11, <1>12 DEF MainIInv

LEMMA MainNotifyKeepsIInv ==
    ASSUME MainIInv, MainNotify \/ MainNotifyAll
    PROVE  MainIInv'
<1>1. /\ at \in {"notify", "notify_all"}
      /\ UNCHANGED <<running, tasks, left, waves, warmups, g_result, g_total_waves_dur,
                     failed, phase, stop>>
      /\ at = "notify" => at' = IF left = <<>> THEN "stop" ELSE "enqueue"
      /\ at = "notify_all" => at' = "join"
  BY DEF MainNotify, NotifyOneWorker, MainNotifyAll, NotifyAllWorkers, MainUnchanged
<1>2. /\ workers' \in [Workers -> {"none", "wakes", "waits", "runs", "returned"}]
      /\ \A w \in Workers : workers'[w] = workers[w] \/ (workers[w] = "waits" /\ workers'[w] = "wakes")
  BY DEF MainNotify, NotifyOneWorker, MainNotifyAll, NotifyAllWorkers, Waiting, MainIInv, MainTypes
<1>3. \A w \in Workers : /\ workers'[w] = "runs" <=> workers[w] = "runs"
                         /\ workers'[w] = "returned" <=> workers[w] = "returned"
  BY <1>2
<1>4. phase # "start" /\ phase # "total"
  BY <1>1 DEF MainIInv, Orderly
<1>5. MainTypes' /\ OnlyWarmups' /\ EachOnce' /\ Summed'
  <2>1. /\ phase' \in {"start", "warmup", "decode", "total"} /\ stop' \in BOOLEAN
        /\ phase' \in {"start", "warmup"} <=> phase \in {"start", "warmup"}
        /\ at' \in {"enqueue", "notify", "stop", "notify_all", "join", "joined"}
    BY <1>1 DEF MainIInv, MainTypes
  <2>2. QED BY <1>1, <1>2, <1>3, <2>1, QuietKeepsWaves
<1>6. Orderly'
  BY <1>1, <1>3, <1>4 DEF MainIInv, Orderly
<1>7. QED BY <1>5, <1>6 DEF MainIInv

LEMMA MainGoesOnKeepsIInv ==
    ASSUME MainIInv, MainStop \/ MainJoin \/ Total
    PROVE  MainIInv'
<1>1. /\ at \in {"stop", "join", "joined"} /\ phase # "start"
      /\ UNCHANGED <<workers, running, tasks, left, waves, warmups, g_result,
                     g_total_waves_dur, failed>>
      /\ at = "stop" => at' = "notify_all" /\ stop' = TRUE /\ phase' = phase
      /\ at # "stop" => at' = "joined" /\ AllJoined /\ stop' = stop
      /\ phase' = phase \/ (phase = "decode" /\ phase' = "total" /\ at' = "joined")
  BY DEF MainStop, Stop, MainJoin, Total, MainUnchanged, pool_vars, MainIInv, Orderly
<1>2. MainTypes' /\ OnlyWarmups' /\ EachOnce' /\ Summed'
  <2>1. /\ phase' \in {"start", "warmup", "decode", "total"} /\ stop' \in BOOLEAN
        /\ phase' \in {"start", "warmup"} <=> phase \in {"start", "warmup"}
        /\ at' \in {"enqueue", "notify", "stop", "notify_all", "join", "joined"}
        /\ workers' \in [Workers -> {"none", "wakes", "waits", "runs", "returned"}]
        /\ \A w \in Workers : workers'[w] = "runs" <=> workers[w] = "runs"
    BY <1>1 DEF MainIInv, MainTypes
  <2>2. QED BY <1>1, <2>1, QuietKeepsWaves
<1>3. AllJoined' <=> AllJoined
  BY <1>1 DEF AllJoined
<1>4. phase = "total" => at = "joined"
  BY DEF MainIInv, Orderly
<1>5. Orderly'
  BY <1>1, <1>3, <1>4 DEF MainIInv, Orderly
<1>6. QED BY <1>2, <1>5 DEF MainIInv

LEMMA SpuriousKeepsIInv ==
    ASSUME MainIInv, NEW w \in Workers, Spurious(w)
    PROVE  MainIInv'
<1>1. /\ workers[w] = "waits" /\ workers' = [workers EXCEPT ![w] = "wakes"]
      /\ UNCHANGED <<running, tasks, stop, phase, at, left, waves, warmups, g_result,
                     g_total_waves_dur, failed>>
  BY DEF Spurious, SpuriousWake, main_vars
<1>2. /\ workers' \in [Workers -> {"none", "wakes", "waits", "runs", "returned"}]
      /\ \A v \in Workers : /\ workers'[v] = "runs" <=> workers[v] = "runs"
                            /\ workers'[v] = "returned" <=> workers[v] = "returned"
                            /\ workers'[v] = "none" <=> workers[v] = "none"
  BY <1>1 DEF MainIInv, MainTypes
<1>3. MainTypes' /\ OnlyWarmups' /\ EachOnce' /\ Summed'
  <2>1. /\ phase' \in {"start", "warmup", "decode", "total"} /\ stop' \in BOOLEAN
        /\ phase' \in {"start", "warmup"} <=> phase \in {"start", "warmup"}
        /\ at' \in {"enqueue", "notify", "stop", "notify_all", "join", "joined"}
    BY <1>1 DEF MainIInv, MainTypes
  <2>2. QED BY <1>1, <1>2, <2>1, QuietKeepsWaves
<1>4. AllJoined' <=> AllJoined
  BY <1>2 DEF AllJoined
<1>5. Orderly'
  BY <1>1, <1>2, <1>4 DEF MainIInv, Orderly
<1>6. QED BY <1>3, <1>5 DEF MainIInv

\* A worker takes the oldest task, or waits or returns when there is none.
LEMMA WorkerKeepsIInv ==
    ASSUME MainIInv, NEW w \in Workers, Worker(w)
    PROVE  MainIInv'
<1>1. /\ workers[w] = "wakes"
      /\ UNCHANGED <<stop, phase, at, left, waves, warmups, g_result,
                     g_total_waves_dur, failed>>
      /\ \/ /\ tasks # <<>>
            /\ workers' = [workers EXCEPT ![w] = "runs"]
            /\ running' = [running EXCEPT ![w] = Head(tasks)]
            /\ tasks' = Tail(tasks)
         \/ /\ tasks = <<>>
            /\ workers' = [workers EXCEPT ![w] = IF stop THEN "returned" ELSE "waits"]
            /\ UNCHANGED <<running, tasks>>
  BY DEF Worker, TakeTask, main_vars
<1>2. at # "joined" /\ phase # "start" /\ phase # "total"
  BY <1>1 DEF MainIInv, Orderly, AllJoined
<1>3. /\ tasks \in Seq(Tasks) /\ left \in Seq(Tasks) /\ waves \in Nat /\ ~Runs(w)
      /\ running \in [Workers -> Tasks \cup {NoTask}]
      /\ workers \in [Workers -> {"none", "wakes", "waits", "runs", "returned"}]
      /\ \A v \in Workers : workers[v] = "runs" <=> Runs(v)
      /\ stop \in BOOLEAN
  BY <1>1, WaveCountsAssumption DEF MainIInv, MainTypes
<1>4. CASE tasks = <<>>
  <2>1. /\ workers' = [workers EXCEPT ![w] = IF stop THEN "returned" ELSE "waits"]
        /\ UNCHANGED <<running, tasks>>
    BY <1>1, <1>4
  <2>2. /\ workers' \in [Workers -> {"none", "wakes", "waits", "runs", "returned"}]
        /\ \A v \in Workers : /\ workers'[v] = "runs" <=> workers[v] = "runs"
                              /\ workers'[v] = "returned" => workers[v] = "returned" \/ stop
    BY <1>1, <1>3, <2>1
  <2>3. MainTypes' /\ OnlyWarmups' /\ EachOnce' /\ Summed'
    <3>1. /\ phase' \in {"start", "warmup", "decode", "total"} /\ stop' \in BOOLEAN
          /\ phase' \in {"start", "warmup"} <=> phase \in {"start", "warmup"}
          /\ at' \in {"enqueue", "notify", "stop", "notify_all", "join", "joined"}
      BY <1>1 DEF MainIInv, MainTypes
    <3>2. QED BY <1>1, <2>1, <2>2, <3>1, QuietKeepsWaves
  <2>4. Orderly'
    BY <1>1, <1>2, <1>4, <2>1, <2>2 DEF MainIInv, Orderly
  <2>5. QED BY <2>3, <2>4 DEF MainIInv
<1>5. CASE tasks # <<>>
  <2>1. /\ workers' = [workers EXCEPT ![w] = "runs"]
        /\ running' = [running EXCEPT ![w] = Head(tasks)]
        /\ tasks' = Tail(tasks)
    BY <1>1, <1>5
  <2>2. /\ tasks' \in Seq(Tasks) /\ Len(tasks') = Len(tasks) - 1 /\ Len(tasks) \in Nat \ {0}
        /\ \A i \in 1 .. Len(tasks') : tasks'[i] = tasks[i + 1]
        /\ Head(tasks) = tasks[1] /\ tasks[1] \in Tasks
    BY <1>3, <1>5, <2>1
  <2>3. /\ running'[w] = tasks[1] /\ Runs(w)'
        /\ \A v \in Workers : v # w => running'[v] = running[v] /\ (Runs(v)' <=> Runs(v))
    BY <1>3, <2>1, <2>2, TaskIsNotNoTask DEF Runs
  <2>4. MainTypes'
    <3>1. /\ workers' \in [Workers -> {"none", "wakes", "waits", "runs", "returned"}]
          /\ \A v \in Workers : workers'[v] = "runs" <=> Runs(v)'
      BY <1>3, <2>1, <2>3
    <3>2. running' \in [Workers -> Tasks \cup {NoTask}]
      BY <1>3, <2>1, <2>2
    <3>3. QED BY <1>1, <2>2, <3>1, <3>2 DEF MainIInv, MainTypes
  <2>5. Orderly'
    <3>1. \A v \in Workers : workers'[v] # "returned"
      BY <1>3, <1>5, <2>1 DEF MainIInv, Orderly
    <3>2. QED BY <1>1, <1>2, <3>1 DEF MainIInv, Orderly
  <2>6. OnlyWarmups'
    <3>1. SUFFICES ASSUME phase \in {"start", "warmup"}
                   PROVE  /\ \A i \in 1 .. Len(tasks') : tasks'[i].warmup
                          /\ \A v \in Workers : Runs(v)' => running'[v].warmup
      BY <1>1 DEF MainIInv, OnlyWarmups
    <3>2. /\ \A i \in 1 .. Len(tasks) : tasks[i].warmup
          /\ \A v \in Workers : Runs(v) => running[v].warmup
      BY <3>1 DEF MainIInv, OnlyWarmups
    <3>3. 1 \in 1 .. Len(tasks) /\ \A i \in 1 .. Len(tasks') : i + 1 \in 1 .. Len(tasks)
      BY <2>2
    <3>4. QED BY <2>2, <2>3, <3>2, <3>3
  <2>7. EachOnce'
    <3>1. SUFFICES ASSUME phase \in {"decode", "total"} PROVE Dealt' /\ Apart' /\ Placed'
      BY <1>1 DEF EachOnce
    <3>2. Dealt /\ Apart /\ Placed
      BY <3>1 DEF MainIInv, EachOnce
    <3>3. Len(left) \in Nat
      BY <1>3
    <3>4. Taken' = Taken + 1 /\ Taken \in Int
      BY <1>1, <1>3, <2>2, <3>3 DEF Taken
    <3>5. Taken \in Nat
      BY <1>3, <2>2, <3>2, <3>3 DEF Dealt, Taken
    <3>6. running'[w] = Task(Taken + 1, FALSE)
      <4>1. 1 \in 1 .. Len(tasks)
        BY <2>2
      <4>2. QED BY <2>3, <3>2, <4>1 DEF Dealt
    <3>7. running'[w].wav = Taken + 1 /\ ~running'[w].warmup
      BY <3>6 DEF Task
    <3>8. Dealt'
      <4>1. Len(left') + Len(tasks') <= waves'
        BY <1>1, <1>3, <2>2, <3>2, <3>3 DEF Dealt
      <4>2. \A i \in 1 .. Len(left') : left'[i] = Task(waves' - Len(left') + i, FALSE)
        BY <1>1, <3>2 DEF Dealt
      <4>3. ASSUME NEW i \in 1 .. Len(tasks')
            PROVE  tasks'[i] = Task(Taken' + i, FALSE)
        <5>1. i + 1 \in 1 .. Len(tasks) /\ Taken + (i + 1) = Taken' + i
          <6>1. i + 1 \in 1 .. Len(tasks)
            BY <2>2
          <6>2. QED BY <3>4, <6>1
        <5>2. tasks[i + 1] = Task(Taken + (i + 1), FALSE)
          BY <3>2, <5>1 DEF Dealt
        <5>3. QED BY <2>2, <5>1, <5>2
      <4>4. QED BY <4>1, <4>2, <4>3 DEF Dealt
    <3>9. Apart'
      <4>1. \A v \in Workers : Runs(v)' => ~running'[v].warmup /\ running'[v].wav \in 1 .. Taken'
        BY <2>3, <3>2, <3>4, <3>5, <3>7 DEF Apart
      <4>2. \A u, v \in Workers :
              Runs(u)' /\ Runs(v)' /\ running'[u].wav = running'[v].wav => u = v
        <5>1. \A v \in Workers : Runs(v)' /\ v # w => running'[v].wav # Taken + 1
          BY <2>3, <3>2, <3>5 DEF Apart
        <5>2. QED BY <2>3, <3>2, <3>7, <5>1 DEF Apart
      <4>3. \A i \in 1 .. Len(g_result) :
              /\ g_result[i] \in 1 .. Taken' /\ g_result[i] \notin failed
              /\ \A v \in Workers : Runs(v)' => running'[v].wav # g_result[i]
        BY <2>3, <3>2, <3>4, <3>5, <3>7 DEF Apart
      <4>4. \A n \in failed : n <= Taken' /\ \A v \in Workers : Runs(v)' => running'[v].wav # n
        <5>1. \A n \in failed : n \in Nat
          BY <1>3 DEF MainIInv, MainTypes
        <5>2. QED BY <2>3, <3>2, <3>4, <3>5, <3>7, <5>1 DEF Apart
      <4>5. \A i, j \in 1 .. Len(g_result) : g_result[i] = g_result[j] => i = j
        BY <3>2 DEF Apart
      <4>6. QED BY <1>1, <4>1, <4>2, <4>3, <4>4, <4>5 DEF Apart
    <3>10. Placed'
      <4>1. SUFFICES ASSUME NEW n \in 1 .. Taken'
                     PROVE  \/ n \in failed
                            \/ \E i \in 1 .. Len(g_result) : g_result[i] = n
                            \/ \E v \in Workers : Runs(v)' /\ running'[v].wav = n
        BY <1>1 DEF Placed
      <4>2. CASE n = Taken + 1
        BY <2>3, <3>7, <4>2
      <4>3. CASE n \in 1 .. Taken
        <5>1. \/ n \in failed
              \/ \E i \in 1 .. Len(g_result) : g_result[i] = n
              \/ \E v \in Workers : Runs(v) /\ running[v].wav = n
          BY <3>2, <4>3 DEF Placed
        <5>2. QED BY <1>3, <2>3, <3>2, <5>1
      <4>4. QED BY <3>4, <3>5, <4>2, <4>3
    <3>11. QED BY <3>8, <3>9, <3>10
  <2>8. Summed'
    BY <1>1 DEF MainIInv, Summed
  <2>9. QED BY <2>4, <2>5, <2>6, <2>7, <2>8 DEF MainIInv
<1>6. QED BY <1>4, <1>5

\* What the end of a task is for the pool, whatever became of its wave.
LEMMA EndTaskOfPool ==
    ASSUME MainIInv, NEW w \in Workers, EndTask(w),
           UNCHANGED <<phase, at, left, waves, warmups>>
    PROVE  /\ workers' \in [Workers -> {"none", "wakes", "waits", "runs", "returned"}]
           /\ running' \in [Workers -> Tasks \cup {NoTask}]
           /\ \A v \in Workers : workers'[v] = "runs" <=> Runs(v)'
           /\ Orderly'
           /\ Runs(w) /\ ~Runs(w)' /\ running[w] \in Tasks
           /\ \A v \in Workers : v # w => running'[v] = running[v] /\ (Runs(v)' <=> Runs(v))
           /\ UNCHANGED <<tasks, stop>>
           /\ phase \in {"warmup", "decode"}
<1>1. /\ workers[w] = "runs" /\ workers' = [workers EXCEPT ![w] = "wakes"]
      /\ running' = [running EXCEPT ![w] = NoTask]
      /\ UNCHANGED <<tasks, stop>>
  BY DEF EndTask
<1>2. /\ workers \in [Workers -> {"none", "wakes", "waits", "runs", "returned"}]
      /\ running \in [Workers -> Tasks \cup {NoTask}]
      /\ \A v \in Workers : workers[v] = "runs" <=> Runs(v)
      /\ phase \in {"start", "warmup", "decode", "total"}
  BY DEF MainIInv, MainTypes
<1>3. at # "joined" /\ phase # "start" /\ phase # "total"
  BY <1>1 DEF MainIInv, Orderly, AllJoined
<1>4. /\ running'[w] = NoTask
      /\ \A v \in Workers : v # w => running'[v] = running[v] /\ workers'[v] = workers[v]
      /\ workers'[w] = "wakes"
  BY <1>1, <1>2
<1>5. Runs(w) /\ ~Runs(w)' /\ \A v \in Workers : v # w => (Runs(v)' <=> Runs(v))
  BY <1>1, <1>2, <1>4 DEF Runs
<1>6. running[w] \in Tasks
  BY <1>2, <1>5 DEF Runs
<1>7. running' \in [Workers -> Tasks \cup {NoTask}]
  BY <1>1, <1>2
<1>8. /\ workers' \in [Workers -> {"none", "wakes", "waits", "runs", "returned"}]
      /\ \A v \in Workers : workers'[v] = "runs" <=> Runs(v)'
  BY <1>1, <1>2, <1>4, <1>5
<1>9. Orderly'
  <2>1. \A v \in Workers : workers'[v] = "returned" => workers[v] = "returned"
    BY <1>1, <1>2
  <2>2. QED BY <1>1, <1>3, <2>1 DEF MainIInv, Orderly
<1>10. QED BY <1>1, <1>2, <1>3, <1>4, <1>5, <1>6, <1>7, <1>8, <1>9

\* A wave that leaves its worker for its line or for the failed ones.
LEMMA DecodeKeepsIInv ==
    ASSUME MainIInv, NEW w \in Workers, Decode(w) \/ DecodeThrows(w)
    PROVE  MainIInv'
<1> DEFINE n == running[w].wav
<1>1. /\ EndTask(w) /\ UNCHANGED <<phase, at, left, waves, warmups>>
      /\ \/ /\ ~running[w].warmup
            /\ g_result' = Append(g_result, n)
            /\ g_total_waves_dur' = g_total_waves_dur + WaveDur[n]
            /\ failed' = failed
         \/ /\ ~running[w].warmup
            /\ UNCHANGED <<g_result, g_total_waves_dur>>
            /\ failed' = failed \cup {n}
         \/ /\ running[w].warmup
            /\ UNCHANGED <<g_result, g_total_waves_dur, failed>>
  BY DEF Decode, DecodeThrows
<1> HIDE DEF n
<1>2. /\ workers' \in [Workers -> {"none", "wakes", "waits", "runs", "returned"}]
      /\ running' \in [Workers -> Tasks \cup {NoTask}]
      /\ \A v \in Workers : workers'[v] = "runs" <=> Runs(v)'
      /\ Orderly'
      /\ Runs(w) /\ ~Runs(w)' /\ running[w] \in Tasks
      /\ \A v \in Workers : v # w => running'[v] = running[v] /\ (Runs(v)' <=> Runs(v))
      /\ UNCHANGED <<tasks, stop>>
      /\ phase \in {"warmup", "decode"}
  BY <1>1, EndTaskOfPool
<1>3. /\ tasks \in Seq(Tasks) /\ left \in Seq(Tasks) /\ waves \in WaveCounts /\ waves \in Nat
      /\ warmups \in Warmups
      /\ stop \in BOOLEAN /\ failed \subseteq 1 .. waves /\ g_result \in Seq(1 .. waves)
      /\ at \in {"enqueue", "notify", "stop", "notify_all", "join", "joined"}
  BY WaveCountsAssumption DEF MainIInv, MainTypes
<1>4. Taken' = Taken
  BY <1>1, <1>2 DEF Taken
<1>5. CASE running[w].warmup
  <2>1. UNCHANGED <<g_result, g_total_waves_dur, failed>>
    BY <1>1, <1>5
  <2>2. phase = "warmup"
    BY <1>2, <1>5 DEF MainIInv, EachOnce, Apart
  <2>3. MainTypes'
    BY <1>1, <1>2, <1>3, <2>1 DEF MainTypes
  <2>4. OnlyWarmups'
    BY <1>1, <1>2, <2>1 DEF MainIInv, OnlyWarmups
  <2>5. EachOnce' /\ Summed'
    BY <1>1, <2>1, <2>2 DEF MainIInv, EachOnce, Summed
  <2>6. QED BY <1>2, <2>3, <2>4, <2>5 DEF MainIInv
<1>6. CASE ~running[w].warmup
  <2>1. phase = "decode"
    BY <1>2, <1>6 DEF MainIInv, OnlyWarmups
  <2>2. Dealt /\ Apart /\ Placed
    BY <2>1 DEF MainIInv, EachOnce
  <2>3. /\ n \in 1 .. Taken /\ n \notin failed
        /\ \A v \in Workers : v # w /\ Runs(v) => running[v].wav # n
        /\ \A i \in 1 .. Len(g_result) : g_result[i] # n
    BY <1>2, <2>2 DEF Apart, n
  <2>4. Taken <= waves /\ Taken \in Int
    <3>1. Len(left) \in Nat /\ Len(tasks) \in Nat
      BY <1>3
    <3>2. QED BY <1>3, <3>1 DEF Taken
  <2>5. n \in 1 .. waves
    BY <1>3, <2>3, <2>4
  <2>6. OnlyWarmups'
    BY <1>1, <2>1 DEF OnlyWarmups
  <2>7. Dealt'
    BY <1>1, <1>2, <1>4, <2>2 DEF Dealt
  <2>8. CASE failed' = failed \cup {n} /\ UNCHANGED <<g_result, g_total_waves_dur>>
    <3>1. MainTypes'
      BY <1>1, <1>2, <1>3, <2>1, <2>5, <2>8 DEF MainTypes
    <3>2. Apart'
      <4>1. \A v \in Workers : Runs(v)' => ~running'[v].warmup /\ running'[v].wav \in 1 .. Taken
        BY <1>2, <2>2 DEF Apart
      <4>2. \A u, v \in Workers :
              Runs(u)' /\ Runs(v)' /\ running'[u].wav = running'[v].wav => u = v
        BY <1>2, <2>2 DEF Apart
      <4>3. \A i \in 1 .. Len(g_result) :
              /\ g_result[i] \in 1 .. Taken /\ g_result[i] \notin failed'
              /\ \A v \in Workers : Runs(v)' => running'[v].wav # g_result[i]
        BY <1>2, <2>2, <2>3, <2>8 DEF Apart
      <4>4. \A i, j \in 1 .. Len(g_result) : g_result[i] = g_result[j] => i = j
        BY <2>2 DEF Apart
      <4>5. \A m \in failed' : m <= Taken /\ \A v \in Workers : Runs(v)' => running'[v].wav # m
        BY <1>2, <2>2, <2>3, <2>4, <2>8 DEF Apart
      <4>6. QED BY <1>4, <2>8, <4>1, <4>2, <4>3, <4>4, <4>5 DEF Apart
    <3>3. Placed'
      <4>1. SUFFICES ASSUME NEW m \in 1 .. Taken
                     PROVE  \/ m \in failed'
                            \/ \E i \in 1 .. Len(g_result) : g_result[i] = m
                            \/ \E v \in Workers : Runs(v)' /\ running'[v].wav = m
        BY <1>4, <2>8 DEF Placed
      <4>2. \/ m \in failed
            \/ \E i \in 1 .. Len(g_result) : g_result[i] = m
            \/ \E v \in Workers : Runs(v) /\ running[v].wav = m
        BY <2>2 DEF Placed
      <4>3. QED BY <1>2, <2>8, <4>2 DEF n
    <3>4. EachOnce' /\ Summed'
      BY <2>7, <2>8, <3>2, <3>3 DEF MainIInv, EachOnce, Summed
    <3>5. QED BY <1>2, <2>6, <3>1, <3>4 DEF MainIInv
  <2>9. CASE /\ failed' = failed /\ g_result' = Append(g_result, n)
             /\ g_total_waves_dur' = g_total_waves_dur + WaveDur[n]
    <3>1. /\ g_result' \in Seq(1 .. waves) /\ Len(g_result') = Len(g_result) + 1
          /\ \A i \in 1 .. Len(g_result) : g_result'[i] = g_result[i]
          /\ g_result'[Len(g_result) + 1] = n /\ Len(g_result) \in Nat
      BY <1>3, <2>5, <2>9, AppendProperties, LenProperties
    <3>2. MainTypes'
      BY <1>1, <1>2, <1>3, <2>1, <2>9, <3>1 DEF MainTypes
    <3>3. \A i \in 1 .. Len(g_result') : i \in 1 .. Len(g_result) \/ i = Len(g_result) + 1
      BY <3>1
    <3>4. Apart'
      <4>1. \A v \in Workers : Runs(v)' => ~running'[v].warmup /\ running'[v].wav \in 1 .. Taken
        BY <1>2, <2>2 DEF Apart
      <4>2. \A u, v \in Workers :
              Runs(u)' /\ Runs(v)' /\ running'[u].wav = running'[v].wav => u = v
        BY <1>2, <2>2 DEF Apart
      <4>3. ASSUME NEW i \in 1 .. Len(g_result')
            PROVE  /\ g_result'[i] \in 1 .. Taken /\ g_result'[i] \notin failed
                   /\ \A v \in Workers : Runs(v)' => running'[v].wav # g_result'[i]
        <5>1. CASE i \in 1 .. Len(g_result)
          BY <1>2, <2>2, <3>1, <5>1 DEF Apart
        <5>2. CASE i = Len(g_result) + 1
          BY <1>2, <2>3, <3>1, <5>2
        <5>3. QED BY <3>3, <5>1, <5>2
      <4>4. \A i, j \in 1 .. Len(g_result') : g_result'[i] = g_result'[j] => i = j
        BY <2>2, <2>3, <3>1, <3>3 DEF Apart
      <4>5. \A m \in failed : m <= Taken /\ \A v \in Workers : Runs(v)' => running'[v].wav # m
        BY <1>2, <2>2 DEF Apart
      <4>6. QED BY <1>4, <2>9, <4>1, <4>2, <4>3, <4>4, <4>5 DEF Apart
    <3>5. Placed'
      <4>1. SUFFICES ASSUME NEW m \in 1 .. Taken
                     PROVE  \/ m \in failed
                            \/ \E i \in 1 .. Len(g_result') : g_result'[i] = m
                            \/ \E v \in Workers : Runs(v)' /\ running'[v].wav = m
        BY <1>4, <2>9 DEF Placed
      <4>2. \/ m \in failed
            \/ \E i \in 1 .. Len(g_result) : g_result[i] = m
            \/ \E v \in Workers : Runs(v) /\ running[v].wav = m
        BY <2>2 DEF Placed
      <4>3. CASE \E i \in 1 .. Len(g_result) : g_result[i] = m
        <5>1. \A i \in 1 .. Len(g_result) : i \in 1 .. Len(g_result')
          BY <3>1
        <5>2. QED BY <3>1, <4>3, <5>1
      <4>4. CASE m = n
        <5>1. Len(g_result) + 1 \in 1 .. Len(g_result')
          BY <3>1
        <5>2. QED BY <3>1, <4>4, <5>1
      <4>5. QED BY <1>2, <4>2, <4>3, <4>4 DEF n
    <3>6. EachOnce'
      BY <2>7, <3>4, <3>5 DEF EachOnce
    <3>7. Summed'
      BY <1>3, <2>5, <2>9, TotalDurGrows DEF MainIInv, Summed
    <3>8. QED BY <1>2, <2>6, <3>2, <3>6, <3>7 DEF MainIInv
  <2>10. QED BY <1>1, <1>6, <2>8, <2>9
<1>7. QED BY <1>5, <1>6

LEMMA NextKeepsMainIInv == MainIInv /\ [MainNext]_<<pool_vars, main_vars>> => MainIInv'
<1> SUFFICES ASSUME MainIInv, [MainNext]_<<pool_vars, main_vars>> PROVE MainIInv'
  OBVIOUS
<1>1. CASE UNCHANGED <<pool_vars, main_vars>>
  <2>1. /\ UNCHANGED <<workers, running, tasks, stop, phase, at, left, waves, warmups,
                       g_result, g_total_waves_dur, failed>>
    BY <1>1 DEF pool_vars, main_vars
  <2>2. MainTypes' /\ OnlyWarmups' /\ EachOnce' /\ Summed'
    <3>1. /\ phase' \in {"start", "warmup", "decode", "total"} /\ stop' \in BOOLEAN
          /\ at' \in {"enqueue", "notify", "stop", "notify_all", "join", "joined"}
          /\ workers' \in [Workers -> {"none", "wakes", "waits", "runs", "returned"}]
      BY <2>1 DEF MainIInv, MainTypes
    <3>2. QED BY <2>1, <3>1, QuietKeepsWaves
  <2>3. Orderly'
    BY <2>1 DEF MainIInv, Orderly, AllJoined
  <2>4. QED BY <2>2, <2>3 DEF MainIInv
<1>2. CASE MainStep
  <2>1. \/ Warmup \/ DecodeAll \/ MainEnqueue \/ MainNotify \/ MainStop \/ MainNotifyAll
        \/ MainJoin \/ Total
    BY <1>2 DEF MainStep
  <2>2. QED
    BY <2>1, WarmupKeepsIInv, DecodeAllKeepsIInv, MainEnqueueKeepsIInv,
       MainNotifyKeepsIInv, MainGoesOnKeepsIInv
<1>3. ASSUME NEW w \in Workers, WorkerStep(w) \/ Spurious(w)
      PROVE  MainIInv'
  BY <1>3, WorkerKeepsIInv, DecodeKeepsIInv, SpuriousKeepsIInv DEF WorkerStep
<1>4. QED BY <1>1, <1>2, <1>3 DEF MainNext

(***************************************************************************)
(* The totals                                                              *)
(***************************************************************************)

\* When the workers have returned nothing is left to take, so the lines and the
\* failed waves are the list.
LEMMA TotalsAreTheList ==
    ASSUME MainIInv, phase = "total"
    PROVE  TotalsCoverTheList
<1>1. /\ waves \in Nat /\ failed \subseteq 1 .. waves /\ g_result \in Seq(1 .. waves)
  BY WaveCountsAssumption DEF MainIInv, MainTypes
<1>2. Dealt /\ Apart /\ Placed
  BY DEF MainIInv, EachOnce
<1>3. AllJoined /\ left = <<>>
  BY DEF MainIInv, Orderly
<1>4. tasks = <<>> /\ \A w \in Workers : ~Runs(w)
  <2>1. \A w \in Workers : workers[w] = "returned"
    BY <1>3 DEF AllJoined
  <2>2. \A w \in Workers : ~Runs(w)
    BY <2>1 DEF MainIInv, MainTypes
  <2>3. PICK w \in Workers : workers[w] = "returned"
    BY <2>1, WorkersAssumption
  <2>4. QED BY <2>2, <2>3 DEF MainIInv, Orderly
<1>5. Taken = waves
  BY <1>1, <1>3, <1>4 DEF Taken
<1>6. Len(g_result) \in Nat /\ DOMAIN g_result = 1 .. Len(g_result)
  BY <1>1, LenProperties
<1>7. ASSUME NEW n \in 1 .. waves
      PROVE  Cardinality({i \in DOMAIN g_result : g_result[i] = n})
               = IF n \in failed THEN 0 ELSE 1
  <2> DEFINE lines == {i \in DOMAIN g_result : g_result[i] = n}
  <2>1. CASE n \in failed
    <3>1. lines = {}
      BY <1>2, <1>6, <2>1 DEF Apart
    <3>2. QED BY <2>1, <3>1, FS_EmptySet
  <2>2. CASE n \notin failed
    <3>1. PICK i \in 1 .. Len(g_result) : g_result[i] = n
      BY <1>2, <1>4, <1>5, <2>2 DEF Placed
    <3>2. lines = {i}
      BY <1>2, <1>6, <3>1 DEF Apart
    <3>3. QED BY <2>2, <3>2, FS_Singleton
  <2>3. QED BY <2>1, <2>2
<1>8. Len(g_result) = waves - Cardinality(failed)
  <2> DEFINE kept == (1 .. waves) \ failed
  <2>1. /\ IsFiniteSet(1 .. waves) /\ Cardinality(1 .. waves) = waves
    BY <1>1, FS_Interval
  <2>2. /\ IsFiniteSet(1 .. Len(g_result)) /\ Cardinality(1 .. Len(g_result)) = Len(g_result)
    <3> DEFINE k == Len(g_result)
    <3>1. k \in Nat
      BY <1>6
    <3> HIDE DEF k
    <3>2. IsFiniteSet(1 .. k) /\ Cardinality(1 .. k) = k
      BY <3>1, FS_Interval
    <3>3. QED BY <3>2 DEF k
  <2>3. /\ Cardinality(kept) = waves - Cardinality((1 .. waves) \cap failed)
    BY <2>1, FS_Difference
  <2>4. (1 .. waves) \cap failed = failed
    BY <1>1
  <2>5. g_result \in Bijection(1 .. Len(g_result), kept)
    <3>1. ASSUME NEW n \in kept PROVE \E i \in 1 .. Len(g_result) : g_result[i] = n
      BY <1>2, <1>4, <1>5 DEF Placed
    <3>2. \A i \in 1 .. Len(g_result) : g_result[i] \in kept
      BY <1>2, <1>5 DEF Apart
    <3>3. g_result \in [1 .. Len(g_result) -> kept]
      BY <1>1, <3>2
    <3>4. \A i, j \in 1 .. Len(g_result) : g_result[i] = g_result[j] => i = j
      BY <1>2 DEF Apart
    <3> HIDE DEF kept
    <3>5. QED BY <3>1, <3>3, <3>4 DEF Bijection, Injection, Surjection, IsInjective
  <2>6. Cardinality(1 .. Len(g_result)) = Cardinality(kept)
    BY <2>2, <2>5, FS_Bijection DEF ExistsBijection
  <2>7. QED BY <2>2, <2>3, <2>4, <2>6
<1>9. g_total_waves_dur = TotalDur(g_result)
  BY DEF MainIInv, Summed
<1>10. QED BY <1>7, <1>8, <1>9 DEF TotalsCoverTheList

\* Each wave is counted once and none is given up, for any list, any number of
\* workers, any number of warm-ups and any Decodes that throw.
THEOREM WavesAreCountedOnce == MainSpec => []EveryWaveCountedOnce
<1>1. MainInit => MainIInv
  BY InitMainIInv
<1>2. MainIInv /\ [MainNext]_<<pool_vars, main_vars>> => MainIInv'
  BY NextKeepsMainIInv
<1>3. MainIInv => EveryWaveCountedOnce
  <2> SUFFICES ASSUME MainIInv PROVE EveryWaveCountedOnce
    OBVIOUS
  <2>1. MainTypeOK
    BY DEF MainIInv, MainTypes, MainTypeOK, Runs
  <2>2. TotalsCoverTheList
    <3>1. CASE phase = "total"
      BY <3>1, TotalsAreTheList
    <3>2. CASE phase # "total"
      BY <3>2 DEF TotalsCoverTheList
    <3>3. QED BY <3>1, <3>2
  <2>3. QED BY <2>1, <2>2 DEF EveryWaveCountedOnce
<1>4. QED BY <1>1, <1>2, <1>3, PTL DEF MainSpec
--------------------------------------------------------------------------------
(***************************************************************************)
(* A file made while recording.  The invariant has a part for each encoder *)
(* (Lined): what is in the file, behind the codec and before it is one     *)
(* line, in which each frame has the time that follows the one before; and *)
(* a part for each recording to which nothing has happened (Own): its      *)
(* thread and its encoder know of each other only, so all that was read is *)
(* in the line or in the accumulator, and the end of the stream is last.   *)
(***************************************************************************)
Buffers == [frame : Nat \cup {NoFrame}, time : Nat, eos : BOOLEAN]

EncoderTypes ==
    /\ realtimeEncoder \in 0 .. MaxRecordings
    /\ codec \in [Recording -> {"none", "open", "closed"}]
    /\ accumFilled \in [Recording -> 0 .. 1]
    /\ taken \in [Recording -> Nat] /\ presentation \in [Recording -> Nat]
    /\ queued \in [Recording -> Seq(Buffers)]
    /\ encoded \in [Recording -> Seq(Buffers)]
    /\ muxer \in [Recording -> Seq(Buffers)]
    /\ recorder \in [Recording -> Places]
    /\ inside \in [Recording -> 0 .. MaxRecordings]
    /\ read \in [Recording -> Nat]
    /\ mishaps \in [Recording -> SUBSET Mishaps]

After(x) == IF x.frame = NoFrame THEN x.time ELSE x.time + 1

\* The times of s go on from a to b.
Chained(s, a, b) ==
    /\ s = <<>> => a = b
    /\ s # <<>> => s[1].time = a /\ After(s[Len(s)]) = b
    /\ \A i \in 1 .. Len(s) - 1 : s[i + 1].time = After(s[i])

Ahead(q, p) == IF q = <<>> THEN p ELSE q[1].time

\* A frame is late by the frames dropped before it.
Fits(x, lost) == x.frame # NoFrame => x.frame >= x.time /\ (~lost => x.frame = x.time)
FitAll(s, lost) == \A i \in 1 .. Len(s) : Fits(s[i], lost)
InFile(s, lost) ==
    \A k \in 1 .. Len(s) : s[k].frame # NoFrame /\ s[k].time = k - 1 /\ Fits(s[k], lost)

Lost(e) == "dropped" \in mishaps[e]

\* Before the codec q, behind it d, in the file m; p times given, n frames taken.
InLine(q, d, m, p, n, lost) ==
    /\ Chained(d, Len(m), Ahead(q, p))
    /\ Chained(q, Ahead(q, p), p)
    /\ p <= n /\ (~lost => p = n)
    /\ Len(q) <= InputBuffers
    /\ FitAll(q, lost) /\ FitAll(d, lost) /\ InFile(m, lost)

Lined(e) == InLine(queued[e], encoded[e], muxer[e], presentation[e], taken[e], Lost(e))

Endless(s) == \A i \in 1 .. Len(s) : ~s[i].eos
EndIsLast(s) == \A i \in 1 .. Len(s) : s[i].eos => i = Len(s)

\* Between Record and the release of the encoder, where a thread can record.
Before == {"init", "begin", "loop", "draining", "leaving", "stopping"}

\* Where the thread of a recording is, and what there is of it: n frames taken and
\* acc in the accumulator, of which it knows the encoder in the field (fed).
Kept(place, fed, cdc, acc, n, q, d, m, rd) ==
    /\ place = "off" => rd = 0 /\ n = 0 /\ acc = 0 /\ q = <<>> /\ d = <<>>
    /\ place \in Before \cup {"finalizing"} => cdc = "open"
    /\ place \in Before /\ fed =>
        rd = 2 * n + acc /\ Endless(q) /\ Endless(d)
    /\ place = "finalizing" =>
        /\ rd <= 2 * n /\ 2 * n <= rd + 1
        /\ EndIsLast(q) /\ EndIsLast(d) /\ (~Endless(d) => q = <<>>)
    /\ place \in {"failing", "failed"} => FALSE
    /\ place = "done" => cdc = "closed" /\ rd <= 2 * Len(m) /\ 2 * Len(m) <= rd + 1

Own(r) ==
    mishaps[r] = {} =>
        Kept(recorder[r], realtimeEncoder = r, codec[r], accumFilled[r], taken[r],
             queued[r], encoded[r], muxer[r], read[r])

\* Whoever is in an encoder has been made known to it.
Met(r) ==
    recorder[r] \in {"draining", "finalizing"} =>
        /\ inside[r] \in Recording /\ recorder[inside[r]] # "off"
        /\ inside[r] # r => "mixed" \in mishaps[r] /\ "mixed" \in mishaps[inside[r]]

EncoderIInv ==
    /\ EncoderTypes
    /\ \A r \in Recording : recorder[r] = "off" <=> r > realtimeEncoder
    /\ \A r \in Recording : Lined(r) /\ Own(r) /\ Met(r)

--------------------------------------------------------------------------------
(***************************************************************************)
(* Induction over the places of a list, as two facts about sets and        *)
(* functions: what holds at 0 and of a number after one of which it holds  *)
(* holds up to the end, and what is computed from place to place exists.   *)
(***************************************************************************)
LEMMA Upwards ==
    ASSUME NEW n \in Nat, NEW S, 0 \in S, \A i \in 0 .. n - 1 : i \in S => i + 1 \in S
    PROVE  \A i \in 0 .. n : i \in S
<1> DEFINE Bad == {i \in 0 .. n : i \notin S}
<1>1. SUFFICES ASSUME Bad # {} PROVE FALSE
  OBVIOUS
<1>2. Bad \in SUBSET Nat
  OBVIOUS
<1>3. PICK i \in Bad : \A j \in Bad : i <= j
  <2> HIDE DEF Bad
  <2>1. QED BY <1>1, <1>2, LeastNumber
<1>4. i \in 0 .. n /\ i \notin S /\ i # 0
  BY <1>3
<1>5. i - 1 \in 0 .. n - 1 /\ i - 1 \in 0 .. n /\ (i - 1) + 1 = i /\ ~(i <= i - 1)
  BY <1>4
<1>6. i - 1 \in S
  BY <1>3, <1>5
<1>7. QED BY <1>4, <1>5, <1>6

Computes(f, n, V, z, next) ==
    f \in [0 .. n -> V] /\ f[0] = z /\ \A i \in 1 .. n : f[i] = next[i][f[i - 1]]

LEMMA Recursion ==
    ASSUME NEW n \in Nat, NEW V, NEW z \in V, NEW next \in [1 .. n -> [V -> V]]
    PROVE  \E f : Computes(f, n, V, z, next)
<1> DEFINE Upto(f, k) == f \in [0 .. k -> V] /\ f[0] = z
                         /\ \A i \in 1 .. k : f[i] = next[i][f[i - 1]]
           S == {k \in 0 .. n : \E f : Upto(f, k)}
<1>1. 0 \in S
  <2>1. Upto([i \in 0 .. 0 |-> z], 0)
    OBVIOUS
  <2>2. 0 \in 0 .. n
    OBVIOUS
  <2> HIDE DEF Upto
  <2>3. QED BY <2>1, <2>2
<1>2. ASSUME NEW k \in 0 .. n - 1, k \in S PROVE k + 1 \in S
  <2>1. PICK f : Upto(f, k)
    BY <1>2
  <2> DEFINE more == [i \in 0 .. k + 1 |-> IF i = k + 1 THEN next[k + 1][f[k]] ELSE f[i]]
  <2>2. k \in Nat /\ k + 1 \in 1 .. n /\ k + 1 \in 0 .. n
    OBVIOUS
  <2>3. f[k] \in V /\ next[k + 1] \in [V -> V]
    BY <2>1, <2>2
  <2>4. next[k + 1][f[k]] \in V
    BY <2>3
  <2>5. more \in [0 .. k + 1 -> V]
    <3>1. ASSUME NEW i \in 0 .. k + 1 PROVE more[i] \in V
      <4>1. CASE i = k + 1
        BY <2>4, <4>1
      <4>2. CASE i # k + 1
        <5>1. i \in 0 .. k
          BY <2>2, <4>2
        <5>2. QED BY <2>1, <4>2, <5>1
      <4>3. QED BY <4>1, <4>2
    <3>2. QED BY <3>1
  <2>6. more[0] = z
    BY <2>1, <2>2
  <2>7. ASSUME NEW i \in 1 .. k + 1 PROVE more[i] = next[i][more[i - 1]]
    <3>1. i - 1 \in 0 .. k /\ i - 1 \in 0 .. k + 1 /\ i - 1 # k + 1 /\ i \in 0 .. k + 1
      BY <2>2
    <3>2. more[i - 1] = f[i - 1]
      BY <3>1
    <3>3. CASE i = k + 1
      <4>1. i - 1 = k /\ more[i] = next[k + 1][f[k]]
        BY <2>2, <3>1, <3>3
      <4> HIDE DEF more
      <4>2. QED BY <3>2, <3>3, <4>1
    <3>4. CASE i # k + 1
      <4>1. i \in 1 .. k /\ more[i] = f[i]
        BY <2>2, <3>1, <3>4
      <4>2. f[i] = next[i][f[i - 1]]
        BY <2>1, <4>1
      <4> HIDE DEF more
      <4>3. QED BY <3>2, <4>1, <4>2
    <3>5. QED BY <3>3, <3>4
  <2> HIDE DEF more
  <2>8. Upto(more, k + 1)
    BY <2>5, <2>6, <2>7
  <2> HIDE DEF Upto
  <2>9. QED BY <2>2, <2>8
<1>3. n \in S
  <2> HIDE DEF S
  <2>1. \A i \in 0 .. n : i \in S
    BY <1>1, <1>2, Upwards
  <2>2. QED BY <2>1
<1>4. QED BY <1>3 DEF Computes

(***************************************************************************)
(* Lists of buffers.                                                       *)
(***************************************************************************)
AreFrames(f, s) ==
    f = [n \in 0 .. Len(s) |->
            IF n = 0 THEN <<>>
            ELSE IF s[n].frame = NoFrame THEN f[n - 1]
            ELSE Append(f[n - 1], s[n])]

LEMMA FramesExist ==
    ASSUME NEW s \in Seq(Buffers)
    PROVE  \E f \in [0 .. Len(s) -> Seq(Buffers)] : AreFrames(f, s)
<1> DEFINE V == Seq(Buffers)
           n == Len(s)
           next == [i \in 1 .. n |-> [v \in V |->
                      IF s[i].frame = NoFrame THEN v ELSE Append(v, s[i])]]
<1>1. n \in Nat /\ <<>> \in V /\ \A i \in 1 .. n : s[i] \in Buffers
  BY LenProperties, ElementOfSeq
<1>2. ASSUME NEW i \in 1 .. n, NEW v \in V
      PROVE  (IF s[i].frame = NoFrame THEN v ELSE Append(v, s[i])) \in V
  <2>1. Append(v, s[i]) \in V
    BY <1>1, AppendProperties
  <2>2. QED BY <2>1
<1>3. next \in [1 .. n -> [V -> V]]
  BY <1>2
<1>4. \A i \in 1 .. n : \A v \in V :
        next[i][v] = IF s[i].frame = NoFrame THEN v ELSE Append(v, s[i])
  OBVIOUS
<1> HIDE DEF next, n, V
<1>5. PICK f : Computes(f, n, V, <<>>, next)
  <2>1. n \in Nat /\ <<>> \in V
    BY <1>1
  <2>2. QED BY ONLY <1>3, <2>1, Recursion
<1>6. ASSUME NEW i \in 0 .. n
      PROVE  f[i] = IF i = 0 THEN <<>>
                    ELSE IF s[i].frame = NoFrame THEN f[i - 1] ELSE Append(f[i - 1], s[i])
  <2>1. CASE i = 0
    BY <1>5, <2>1 DEF Computes
  <2>2. CASE i # 0
    <3>1. i \in 1 .. n /\ i - 1 \in 0 .. n
      BY <1>1, <2>2
    <3>2. f[i] = next[i][f[i - 1]] /\ f[i - 1] \in V
      BY <1>5, <3>1 DEF Computes
    <3>3. QED BY <1>4, <2>2, <3>1, <3>2
  <2>3. QED BY <2>1, <2>2
<1>7. f = [i \in 0 .. n |-> IF i = 0 THEN <<>>
                    ELSE IF s[i].frame = NoFrame THEN f[i - 1] ELSE Append(f[i - 1], s[i])]
  <2>1. f \in [0 .. n -> V]
    BY <1>5 DEF Computes
  <2>2. QED BY <1>6, <2>1
<1>8. QED BY <1>5, <1>7 DEF AreFrames, Computes, V, n
\* What goes to the file of a piece of the line has the times from a to b.
LEMMA FramesInOrder ==
    ASSUME NEW s \in Seq(Buffers), NEW a \in Nat, NEW b \in Nat, NEW lost \in BOOLEAN,
           Chained(s, a, b), FitAll(s, lost)
    PROVE  /\ a <= b
           /\ Frames(s) \in Seq(Buffers) /\ Len(Frames(s)) = b - a
           /\ \A k \in 1 .. b - a : /\ Frames(s)[k].frame # NoFrame
                                    /\ Frames(s)[k].time = a + k - 1
                                    /\ Fits(Frames(s)[k], lost)
<1> DEFINE n == Len(s)
           Mark(i) == IF i = 0 THEN a ELSE After(s[i])
           Good(x, k) == x.frame # NoFrame /\ x.time = a + k - 1 /\ Fits(x, lost)
           Right(t, i) == /\ t \in Seq(Buffers) /\ Mark(i) \in Nat
                          /\ Len(t) + a = Mark(i) /\ \A k \in 1 .. Len(t) : Good(t[k], k)
           f == CHOOSE f : AreFrames(f, s)
           S == {i \in 0 .. n : Right(f[i], i)}
<1>1. n \in Nat /\ \A i \in 1 .. n : s[i] \in Buffers
  BY LenProperties, ElementOfSeq
<1>2. AreFrames(f, s)
  BY FramesExist
<1>3. Frames(s) = f[n]
  BY DEF Frames, AreFrames
<1> HIDE DEF f
<1>4. \A i \in 0 .. n : f[i] = IF i = 0 THEN <<>>
                               ELSE IF s[i].frame = NoFrame THEN f[i - 1]
                               ELSE Append(f[i - 1], s[i])
  BY <1>2 DEF AreFrames
<1>5. \A i \in 0 .. n - 1 : s[i + 1].time = Mark(i)
  <2>1. ASSUME NEW i \in 0 .. n - 1 PROVE s[i + 1].time = Mark(i)
    <3>1. CASE i = 0
      <4>1. s # <<>>
        BY <1>1, <3>1, EmptySeq
      <4>2. QED BY <3>1, <4>1 DEF Chained
    <3>2. CASE i # 0
      <4>1. i \in 1 .. Len(s) - 1
        BY <1>1, <3>2
      <4>2. QED BY <3>2, <4>1 DEF Chained
    <3>3. QED BY <3>1, <3>2
  <2>2. QED BY <2>1
<1>6. 0 \in S
  <2>1. f[0] = <<>> /\ Mark(0) = a
    BY <1>1, <1>4
  <2>2. Right(<<>>, 0)
    BY EmptySeq
  <2> HIDE DEF Right
  <2>3. QED BY <1>1, <2>1, <2>2
<1>7. ASSUME NEW i \in 0 .. n - 1, i \in S PROVE i + 1 \in S
  <2> DEFINE x == s[i + 1]
             t == f[i]
  <2>1. i + 1 \in 0 .. n /\ i + 1 \in 1 .. n /\ (i + 1) - 1 = i /\ i + 1 # 0
    BY <1>1
  <2>2. t \in Seq(Buffers) /\ Len(t) \in Nat /\ Len(t) + a = Mark(i)
        /\ \A k \in 1 .. Len(t) : Good(t[k], k)
    BY <1>7, LenProperties
  <2>3. x \in Buffers /\ x.time = Mark(i) /\ Fits(x, lost)
    BY <1>1, <1>5, <2>1 DEF FitAll
  <2>4. x.time \in Nat
    BY <2>3 DEF Buffers
  <2>5. f[i + 1] = IF x.frame = NoFrame THEN t ELSE Append(t, x)
    BY <1>4, <2>1
  <2>6. Mark(i + 1) = After(x)
    BY <2>1
  <2> HIDE DEF x, t, Mark
  <2>7. CASE x.frame = NoFrame
    BY <2>1, <2>2, <2>3, <2>4, <2>5, <2>6, <2>7 DEF After
  <2>8. CASE x.frame # NoFrame
    <3>1. Append(t, x) \in Seq(Buffers) /\ Len(Append(t, x)) = Len(t) + 1
          /\ Append(t, x)[Len(t) + 1] = x /\ \A k \in 1 .. Len(t) : Append(t, x)[k] = t[k]
      BY <2>2, <2>3, AppendProperties
    <3>2. Good(x, Len(t) + 1)
      BY <2>2, <2>3, <2>4, <2>8
    <3>3. ASSUME NEW k \in 1 .. Len(t) + 1 PROVE Good(Append(t, x)[k], k)
      <4>1. CASE k = Len(t) + 1
        BY <3>1, <3>2, <4>1
      <4>2. CASE k # Len(t) + 1
        <5>1. k \in 1 .. Len(t)
          BY <2>2, <4>2
        <5>2. QED BY <2>2, <3>1, <5>1
      <4>3. QED BY <4>1, <4>2
    <3>4. Mark(i + 1) = x.time + 1
      BY <2>6, <2>8 DEF After
    <3>5. Mark(i + 1) \in Nat /\ Len(Append(t, x)) + a = Mark(i + 1)
      BY <2>2, <2>3, <2>4, <3>1, <3>4
    <3> HIDE DEF Good
    <3>6. Right(Append(t, x), i + 1)
      BY <3>1, <3>3, <3>5
    <3> HIDE DEF Right
    <3>7. QED BY <2>1, <2>5, <2>8, <3>6
  <2>9. QED BY <2>7, <2>8
<1>8. n \in S
  <2> HIDE DEF S
  <2>1. \A i \in 0 .. n : i \in S
    BY <1>1, <1>6, <1>7, Upwards
  <2>2. n \in 0 .. n
    BY <1>1
  <2>3. QED BY <2>1, <2>2
<1>9. Mark(n) = b
  <2>1. CASE n = 0
    <3>1. s = <<>>
      BY <2>1, EmptySeq
    <3>2. QED BY <2>1, <3>1 DEF Chained
  <2>2. CASE n # 0
    <3>1. s # <<>>
      BY <2>2, EmptySeq
    <3>2. QED BY <2>2, <3>1 DEF Chained
  <2>3. QED BY <2>1, <2>2
<1>10. Right(f[n], n)
  BY <1>8
<1> HIDE DEF n, Mark
<1>11. f[n] \in Seq(Buffers) /\ Len(f[n]) \in Nat /\ Len(f[n]) + a = b
  BY <1>9, <1>10, LenProperties
<1>12. a <= b /\ Len(f[n]) = b - a
  BY <1>11
<1>13. QED BY <1>3, <1>10, <1>11, <1>12
LEMMA ChainGrows ==
    ASSUME NEW s \in Seq(Buffers), NEW a \in Nat, NEW b \in Nat, Chained(s, a, b),
           NEW x \in Buffers, x.time = b
    PROVE  Chained(Append(s, x), a, After(x))
<1> DEFINE n == Len(s)
           t == Append(s, x)
<1>1. n \in Nat /\ t \in Seq(Buffers) /\ Len(t) = n + 1 /\ t[n + 1] = x
      /\ \A i \in 1 .. n : t[i] = s[i]
  BY LenProperties, AppendProperties
<1>2. t # <<>>
  BY <1>1, EmptySeq
<1> HIDE DEF t
<1>3. t[1].time = a
  <2>1. CASE n = 0
    <3>1. s = <<>>
      BY <2>1, EmptySeq
    <3>2. QED BY <1>1, <2>1, <3>1 DEF Chained
  <2>2. CASE n # 0
    <3>1. s # <<>> /\ 1 \in 1 .. n
      BY <1>1, <2>2, EmptySeq
    <3>2. QED BY <1>1, <3>1 DEF Chained
  <2>3. QED BY <2>1, <2>2
<1>4. ASSUME NEW i \in 1 .. (n + 1) - 1 PROVE t[i + 1].time = After(t[i])
  <2>1. i \in 1 .. n /\ t[i] = s[i]
    BY <1>1
  <2>2. CASE i = n
    <3>1. s # <<>>
      BY <2>1, EmptySeq
    <3>2. After(s[n]) = b
      BY <3>1 DEF Chained
    <3>3. QED BY <1>1, <2>1, <2>2, <3>2
  <2>3. CASE i # n
    <3>1. i \in 1 .. n - 1 /\ i + 1 \in 1 .. n
      BY <1>1, <2>1, <2>3
    <3>2. QED BY <1>1, <2>1, <3>1 DEF Chained
  <2>4. QED BY <2>2, <2>3
<1>5. QED BY <1>1, <1>2, <1>3, <1>4 DEF Chained, t

LEMMA ChainTail ==
    ASSUME NEW s \in Seq(Buffers), NEW a \in Nat, NEW b \in Nat, Chained(s, a, b), s # <<>>
    PROVE  Head(s).time = a /\ Chained(Tail(s), After(Head(s)), b)
<1> DEFINE n == Len(s)
           t == Tail(s)
<1>1. n \in Nat /\ n > 0 /\ t \in Seq(Buffers) /\ Len(t) = n - 1 /\ Head(s) = s[1]
      /\ \A i \in 1 .. n - 1 : t[i] = s[i + 1]
  BY LenProperties, HeadTailProperties, EmptySeq
<1> HIDE DEF t
<1>2. s[1].time = a /\ After(s[n]) = b
  BY DEF Chained
<1>3. CASE n = 1
  <2>1. t = <<>>
    BY <1>1, <1>3, EmptySeq
  <2>2. Chained(<<>>, After(s[1]), b)
    <3>1. Len(<<>>) = 0
      OBVIOUS
    <3>2. QED BY <1>2, <1>3, <3>1 DEF Chained
  <2>3. QED BY <1>1, <1>2, <2>1, <2>2 DEF t
<1>4. CASE n # 1
  <2>1. t # <<>> /\ 1 \in 1 .. n - 1 /\ n - 1 \in 1 .. n - 1 /\ (n - 1) + 1 = n
    BY <1>1, <1>4, EmptySeq
  <2>2. t[1].time = After(s[1])
    BY <1>1, <2>1 DEF Chained
  <2>3. t[n - 1] = s[n]
    BY <1>1, <2>1
  <2>4. ASSUME NEW i \in 1 .. (n - 1) - 1 PROVE t[i + 1].time = After(t[i])
    <3>1. i \in 1 .. n - 1 /\ i + 1 \in 1 .. n - 1
      BY <1>1
    <3>2. s[(i + 1) + 1].time = After(s[i + 1])
      BY <3>1 DEF Chained
    <3>3. QED BY <1>1, <3>1, <3>2
  <2>5. QED BY <1>1, <1>2, <2>1, <2>2, <2>3, <2>4 DEF Chained, t
<1>5. QED BY <1>3, <1>4

LEMMA AheadOfChain ==
    ASSUME NEW s, NEW a, NEW b, Chained(s, a, b)
    PROVE  Ahead(s, b) = a
BY DEF Chained, Ahead

LEMMA AheadIsNat ==
    ASSUME NEW s \in Seq(Buffers), NEW b \in Nat
    PROVE  Ahead(s, b) \in Nat
<1>1. CASE s = <<>>
  BY <1>1 DEF Ahead
<1>2. CASE s # <<>>
  <2>1. 1 \in 1 .. Len(s)
    BY <1>2, EmptySeq, LenProperties
  <2>2. s[1] \in Buffers
    BY <2>1, ElementOfSeq
  <2>3. QED BY <1>2, <2>2 DEF Ahead, Buffers
<1>3. QED BY <1>1, <1>2

LEMMA FitsMore ==
    ASSUME NEW x, NEW lost \in BOOLEAN, NEW more \in BOOLEAN, lost => more, Fits(x, lost)
    PROVE  Fits(x, more)
BY DEF Fits
LEMMA FitAllMore ==
    ASSUME NEW s, NEW lost \in BOOLEAN, NEW more \in BOOLEAN, lost => more
    PROVE  /\ FitAll(s, lost) => FitAll(s, more)
           /\ InFile(s, lost) => InFile(s, more)
BY FitsMore DEF FitAll, InFile

LEMMA FitAllAppend ==
    ASSUME NEW s \in Seq(Buffers), NEW x \in Buffers, NEW lost \in BOOLEAN,
           FitAll(s, lost), Fits(x, lost)
    PROVE  FitAll(Append(s, x), lost)
<1>1. Len(s) \in Nat /\ Len(Append(s, x)) = Len(s) + 1 /\ Append(s, x)[Len(s) + 1] = x
      /\ \A i \in 1 .. Len(s) : Append(s, x)[i] = s[i]
  BY LenProperties, AppendProperties
<1>2. ASSUME NEW i \in 1 .. Len(s) + 1 PROVE Fits(Append(s, x)[i], lost)
  <2>1. CASE i = Len(s) + 1
    BY <1>1, <2>1
  <2>2. CASE i # Len(s) + 1
    <3>1. i \in 1 .. Len(s)
      BY <1>1, <2>2
    <3>2. QED BY <1>1, <3>1 DEF FitAll
  <2>3. QED BY <2>1, <2>2
<1>3. QED BY <1>1, <1>2 DEF FitAll

\* A mishap in the encoder leaves the line as it is.
LEMMA LineOutlives ==
    ASSUME NEW q, NEW d, NEW m, NEW p \in Nat, NEW n \in Nat,
           NEW lost \in BOOLEAN, NEW more \in BOOLEAN, lost => more,
           InLine(q, d, m, p, n, lost)
    PROVE  InLine(q, d, m, p, n, more)
BY FitAllMore DEF InLine

\* A frame that finds no buffer.
LEMMA LineLoses ==
    ASSUME NEW q, NEW d, NEW m, NEW p \in Nat, NEW n \in Nat, NEW lost \in BOOLEAN,
           InLine(q, d, m, p, n, lost)
    PROVE  InLine(q, d, m, p, n + 1, TRUE)
<1>1. InLine(q, d, m, p, n, TRUE)
  BY LineOutlives
<1>2. p <= n
  BY <1>1 DEF InLine
<1>3. p <= n + 1
  BY <1>2
<1>4. QED BY <1>1, <1>3, Zenon DEF InLine

LEMMA LineGrows ==
    ASSUME NEW q \in Seq(Buffers), NEW d, NEW m, NEW p \in Nat, NEW n \in Nat,
           NEW lost \in BOOLEAN, InLine(q, d, m, p, n, lost), Len(q) < InputBuffers,
           NEW x \in Buffers, x.time = p, Fits(x, lost),
           NEW more \in Nat, After(x) <= more, ~lost => After(x) = more
    PROVE  InLine(Append(q, x), d, m, After(x), more, lost)
<1>1. Ahead(q, p) \in Nat /\ Chained(q, Ahead(q, p), p)
  BY AheadIsNat DEF InLine
<1>2. Chained(Append(q, x), Ahead(q, p), After(x))
  BY <1>1, ChainGrows
<1>3. Ahead(Append(q, x), After(x)) = Ahead(q, p)
  BY <1>2, AheadOfChain
<1>4. FitAll(Append(q, x), lost)
  BY FitAllAppend DEF InLine
<1>5. Len(Append(q, x)) <= InputBuffers
  <2>1. Len(q) \in Nat /\ Len(Append(q, x)) = Len(q) + 1
    BY LenProperties, AppendProperties
  <2>2. QED BY <2>1, EncoderAssumption
<1>6. QED BY <1>2, <1>3, <1>4, <1>5 DEF InLine

LEMMA LineEncodes ==
    ASSUME NEW q \in Seq(Buffers), q # <<>>, NEW d \in Seq(Buffers), NEW m \in Seq(Buffers),
           NEW p \in Nat, NEW n \in Nat, NEW lost \in BOOLEAN, InLine(q, d, m, p, n, lost)
    PROVE  InLine(Tail(q), Append(d, Head(q)), m, p, n, lost)
<1> DEFINE x == Head(q)
<1>1. x \in Buffers /\ Tail(q) \in Seq(Buffers) /\ Len(Tail(q)) = Len(q) - 1 /\ Len(q) \in Nat
      /\ Len(m) \in Nat /\ x = q[1] /\ Len(q) > 0
      /\ \A i \in 1 .. Len(q) - 1 : Tail(q)[i] = q[i + 1]
  BY HeadTailProperties, LenProperties, EmptySeq
<1>2. Ahead(q, p) \in Nat /\ Chained(q, Ahead(q, p), p)
  BY AheadIsNat DEF InLine
<1>3. x.time = Ahead(q, p) /\ Chained(Tail(q), After(x), p)
  BY <1>2, ChainTail
<1>4. Ahead(Tail(q), p) = After(x)
  BY <1>3, AheadOfChain
<1>5. Chained(Append(d, x), Len(m), After(x))
  <2>1. Chained(d, Len(m), Ahead(q, p))
    BY DEF InLine
  <2> HIDE DEF x
  <2>2. QED BY <1>1, <1>2, <1>3, <2>1, ChainGrows
<1>6. Fits(x, lost) /\ FitAll(Tail(q), lost)
  <2>1. 1 \in 1 .. Len(q) /\ \A i \in 1 .. Len(q) - 1 : i + 1 \in 1 .. Len(q)
    BY <1>1
  <2>2. \A i \in 1 .. Len(q) : Fits(q[i], lost)
    BY DEF InLine, FitAll
  <2>3. Fits(x, lost)
    BY <1>1, <2>1, <2>2
  <2>4. \A i \in 1 .. Len(Tail(q)) : Fits(Tail(q)[i], lost)
    BY <1>1, <2>1, <2>2
  <2>5. QED BY <2>3, <2>4 DEF FitAll
<1> HIDE DEF x
<1>7. FitAll(Append(d, x), lost)
  BY <1>1, <1>6, FitAllAppend DEF InLine
<1>8. Len(Tail(q)) <= InputBuffers
  BY <1>1, EncoderAssumption DEF InLine
<1>9. InLine(Tail(q), Append(d, x), m, p, n, lost)
  BY <1>3, <1>4, <1>5, <1>6, <1>7, <1>8 DEF InLine
<1>10. QED BY <1>9 DEF x

LEMMA LineWrites ==
    ASSUME NEW q \in Seq(Buffers), NEW d \in Seq(Buffers), NEW m \in Seq(Buffers),
           NEW p \in Nat, NEW n \in Nat, NEW lost \in BOOLEAN, InLine(q, d, m, p, n, lost)
    PROVE  /\ m \o Frames(d) \in Seq(Buffers) /\ Len(m \o Frames(d)) = Ahead(q, p)
           /\ InLine(q, <<>>, m \o Frames(d), p, n, lost)
<1> DEFINE a == Len(m)
           b == Ahead(q, p)
           f == Frames(d)
           t == m \o f
<1>1. a \in Nat /\ b \in Nat /\ Chained(d, a, b) /\ FitAll(d, lost)
  BY AheadIsNat, LenProperties DEF InLine
<1>2. /\ a <= b
      /\ f \in Seq(Buffers) /\ Len(f) = b - a
      /\ \A k \in 1 .. b - a : /\ f[k].frame # NoFrame
                               /\ f[k].time = a + k - 1
                               /\ Fits(f[k], lost)
  <2> HIDE DEF a, b
  <2>1. QED BY <1>1, FramesInOrder
<1> HIDE DEF f
<1>3. /\ t \in Seq(Buffers) /\ Len(t) = a + (b - a)
      /\ \A k \in 1 .. a : t[k] = m[k]
      /\ \A k \in 1 .. b - a : t[a + k] = f[k]
  <2>1. /\ t \in Seq(Buffers) /\ Len(t) = Len(m) + Len(f)
        /\ \A i \in 1 .. Len(m) + Len(f) : t[i] = IF i <= Len(m) THEN m[i] ELSE f[i - Len(m)]
    BY <1>2, ConcatProperties
  <2>2. \A k \in 1 .. a : k \in 1 .. Len(m) + Len(f) /\ k <= Len(m)
    BY <1>1, <1>2
  <2>3. \A k \in 1 .. b - a : a + k \in 1 .. Len(m) + Len(f) /\ ~(a + k <= Len(m)) /\ (a + k) - Len(m) = k
    BY <1>1, <1>2
  <2>4. \A k \in 1 .. a : t[k] = m[k]
    BY <2>1, <2>2
  <2>5. \A k \in 1 .. b - a : t[a + k] = f[k]
    <3>1. ASSUME NEW k \in 1 .. b - a PROVE t[a + k] = f[k]
      <4>1. a + k \in 1 .. Len(m) + Len(f) /\ ~(a + k <= Len(m)) /\ (a + k) - Len(m) = k
        BY <2>3
      <4>2. t[a + k] = f[(a + k) - Len(m)]
        BY <2>1, <4>1
      <4>3. QED BY <4>1, <4>2
    <3>2. QED BY <3>1
  <2>6. QED BY <1>2, <2>1, <2>4, <2>5
<1>4. Len(t) = b
  BY <1>1, <1>2, <1>3
<1> HIDE DEF t, a, b
<1>5. ASSUME NEW k \in 1 .. b
      PROVE  t[k].frame # NoFrame /\ t[k].time = k - 1 /\ Fits(t[k], lost)
  <2>1. CASE k <= a
    <3>1. k \in 1 .. a /\ t[k] = m[k]
      BY <1>1, <1>3, <2>1
    <3>2. QED BY <3>1 DEF InLine, InFile, a
  <2>2. CASE ~(k <= a)
    <3>1. k - a \in 1 .. b - a /\ a + (k - a) = k
      BY <1>1, <1>2, <2>2
    <3>2. t[k] = f[k - a]
      BY <1>3, <3>1
    <3>3. f[k - a].frame # NoFrame /\ f[k - a].time = a + (k - a) - 1 /\ Fits(f[k - a], lost)
      BY <1>2, <3>1
    <3>4. a + (k - a) - 1 = k - 1
      BY <1>1, <1>2
    <3>5. QED BY <3>2, <3>3, <3>4
  <2>3. QED BY <2>1, <2>2
<1>6. InFile(t, lost)
  BY <1>4, <1>5 DEF InFile
<1>7. Chained(<<>>, Len(t), b) /\ FitAll(<<>>, lost)
  BY <1>4 DEF Chained, FitAll
<1>8. InLine(q, <<>>, t, p, n, lost)
  BY <1>6, <1>7 DEF InLine, b
<1>9. QED BY <1>3, <1>4, <1>8 DEF t, f, b
--------------------------------------------------------------------------------
(***************************************************************************)
(* What a step does to one encoder, and leaves of the others.              *)
(***************************************************************************)
MoreMishaps ==
    mishaps' \in [Recording -> SUBSET Mishaps] /\ \A x \in Recording : mishaps[x] \subseteq mishaps'[x]

SameLine(x) ==
    /\ queued'[x] = queued[x] /\ encoded'[x] = encoded[x] /\ muxer'[x] = muxer[x]
    /\ presentation'[x] = presentation[x] /\ taken'[x] = taken[x]

SameKept(x) ==
    /\ recorder'[x] = recorder[x] /\ codec'[x] = codec[x]
    /\ accumFilled'[x] = accumFilled[x] /\ read'[x] = read[x]
    /\ realtimeEncoder' = realtimeEncoder

LEMMA LinedSame ==
    ASSUME EncoderTypes, MoreMishaps, NEW x \in Recording, Lined(x), SameLine(x)
    PROVE  Lined(x)'
<1>1. presentation[x] \in Nat /\ taken[x] \in Nat
  BY DEF EncoderTypes
<1>2. Lost(x) \in BOOLEAN /\ Lost(x)' \in BOOLEAN /\ (Lost(x) => Lost(x)')
  BY DEF Lost, MoreMishaps
<1>3. InLine(queued[x], encoded[x], muxer[x], presentation[x], taken[x], Lost(x)')
  <2> DEFINE lost == Lost(x)
             more == Lost(x)'
  <2>1. lost \in BOOLEAN /\ more \in BOOLEAN /\ (lost => more)
    BY <1>2
  <2>2. InLine(queued[x], encoded[x], muxer[x], presentation[x], taken[x], lost)
    BY DEF Lined
  <2> HIDE DEF lost, more
  <2>3. InLine(queued[x], encoded[x], muxer[x], presentation[x], taken[x], more)
    BY <1>1, <2>1, <2>2, LineOutlives
  <2>4. QED BY <2>3 DEF more
<1>4. QED BY <1>3 DEF SameLine, Lined, Lost

LEMMA OwnSame ==
    ASSUME MoreMishaps, NEW x \in Recording, Own(x), SameLine(x), SameKept(x)
    PROVE  Own(x)'
<1>1. mishaps'[x] = {} => mishaps[x] = {}
  BY DEF MoreMishaps
<1>2. QED BY <1>1 DEF SameLine, SameKept, Own

LEMMA OwnSpoilt ==
    ASSUME NEW x \in Recording, mishaps'[x] # {}
    PROVE  Own(x)'
BY DEF Own

LEMMA MetSame ==
    ASSUME EncoderTypes, MoreMishaps, NEW x \in Recording, Met(x), recorder'[x] = recorder[x],
           inside'[x] = inside[x], \A y \in Recording : recorder[y] # "off" => recorder'[y] # "off"
    PROVE  Met(x)'
BY DEF Met, MoreMishaps

LEMMA MetElsewhere ==
    ASSUME NEW x \in Recording, recorder'[x] \notin {"draining", "finalizing"}
    PROVE  Met(x)'
BY DEF Met

LEMMA MeetFacts ==
    ASSUME EncoderTypes, NEW r \in Recording, NEW e \in Recording, NEW drops \in BOOLEAN,
           Meet(r, e, drops)
    PROVE  /\ MoreMishaps
           /\ r # e => "mixed" \in mishaps'[r] /\ "mixed" \in mishaps'[e]
           /\ Lost(e)' <=> Lost(e) \/ drops
<1>1. ASSUME NEW x \in Recording
      PROVE  mishaps'[x] = mishaps[x] \cup (IF r # e /\ x \in {r, e} THEN {"mixed"} ELSE {})
                                      \cup (IF drops /\ x = e THEN {"dropped"} ELSE {})
  BY DEF Meet
<1>2. mishaps' = [x \in Recording |-> mishaps'[x]]
  BY DEF Meet
<1>3. ASSUME NEW x \in Recording
      PROVE  mishaps'[x] \in SUBSET Mishaps /\ mishaps[x] \subseteq mishaps'[x]
  <2>1. mishaps[x] \in SUBSET Mishaps
    BY DEF EncoderTypes
  <2>2. QED BY <1>1, <2>1 DEF Mishaps
<1>4. MoreMishaps
  BY <1>2, <1>3 DEF MoreMishaps
<1>5. r # e => "mixed" \in mishaps'[r] /\ "mixed" \in mishaps'[e]
  BY <1>1
<1>6. Lost(e)' <=> Lost(e) \/ drops
  BY <1>1 DEF Lost
<1>7. QED BY <1>4, <1>5, <1>6

LEMMA MishapFacts ==
    ASSUME EncoderTypes, NEW e \in Recording, NEW what \in Mishaps, Mishap(e, what)
    PROVE  MoreMishaps /\ mishaps'[e] # {}
<1>1. mishaps' = [mishaps EXCEPT ![e] = @ \cup {what}] /\ mishaps \in [Recording -> SUBSET Mishaps]
  BY DEF Mishap, EncoderTypes
<1>2. mishaps'[e] = mishaps[e] \cup {what} /\ \A x \in Recording : x # e => mishaps'[x] = mishaps[x]
  BY <1>1
<1>3. mishaps' \in [Recording -> SUBSET Mishaps]
  BY <1>1
<1>4. QED BY <1>2, <1>3 DEF MoreMishaps

LEMMA NoMishap ==
    ASSUME EncoderTypes, UNCHANGED mishaps
    PROVE  MoreMishaps
BY DEF EncoderTypes, MoreMishaps

InputTypes ==
    /\ taken \in [Recording -> Nat] /\ presentation \in [Recording -> Nat]
    /\ accumFilled \in [Recording -> 0 .. 1]
    /\ queued \in [Recording -> Seq(Buffers)]

OthersKeepInput(e) ==
    \A x \in Recording : x # e =>
        /\ taken'[x] = taken[x] /\ presentation'[x] = presentation[x]
        /\ accumFilled'[x] = accumFilled[x] /\ queued'[x] = queued[x]

\* A frame goes in at the end of the line, or is dropped.
LEMMA SubmitFacts ==
    ASSUME EncoderTypes, NEW r \in Recording, NEW e \in Recording, Lined(e), NEW eos \in BOOLEAN,
           SubmitFrame(r, e, eos), UNCHANGED outputVars
    PROVE  /\ InputTypes' /\ OthersKeepInput(e) /\ MoreMishaps /\ Lined(e)'
           /\ r # e => "mixed" \in mishaps'[r] /\ "mixed" \in mishaps'[e]
           /\ taken'[e] = taken[e] + 1 /\ accumFilled'[e] = 0
           /\ mishaps'[e] = {} => \E x \in Buffers : x.eos = eos /\ queued'[e] = Append(queued[e], x)
<1> DEFINE x == [frame |-> taken[e], time |-> presentation[e], eos |-> eos]
           lost == Lost(e)
           more == Lost(e)'
<1>1. /\ taken \in [Recording -> Nat] /\ presentation \in [Recording -> Nat]
      /\ accumFilled \in [Recording -> 0 .. 1] /\ queued \in [Recording -> Seq(Buffers)]
      /\ taken[e] \in Nat /\ presentation[e] \in Nat /\ queued[e] \in Seq(Buffers)
  BY DEF EncoderTypes
<1>2. taken' = [taken EXCEPT ![e] = taken[e] + 1] /\ accumFilled' = [accumFilled EXCEPT ![e] = 0]
      /\ Meet(r, e, ~HasInputBuffer(e))
  BY DEF SubmitFrame
<1>3. /\ MoreMishaps
      /\ r # e => "mixed" \in mishaps'[r] /\ "mixed" \in mishaps'[e]
      /\ more <=> lost \/ ~HasInputBuffer(e)
  <2>1. (~HasInputBuffer(e)) \in BOOLEAN
    BY DEF HasInputBuffer
  <2>2. QED BY <1>2, <2>1, MeetFacts
<1>4. /\ taken' \in [Recording -> Nat] /\ taken'[e] = taken[e] + 1
      /\ \A y \in Recording : y # e => taken'[y] = taken[y]
  BY <1>1, <1>2
<1>5. /\ accumFilled' \in [Recording -> 0 .. 1] /\ accumFilled'[e] = 0
      /\ \A y \in Recording : y # e => accumFilled'[y] = accumFilled[y]
  BY <1>1, <1>2
<1>6. encoded' = encoded /\ muxer' = muxer
  BY DEF outputVars
<1>7. InLine(queued[e], encoded[e], muxer[e], presentation[e], taken[e], lost)
      /\ lost \in BOOLEAN
  BY DEF Lined, Lost
<1>8. CASE HasInputBuffer(e)
  <2>1. queued' = [queued EXCEPT ![e] = Append(queued[e], x)]
        /\ presentation' = [presentation EXCEPT ![e] = presentation[e] + 1]
    BY <1>8 DEF SubmitFrame
  <2>2. x \in Buffers /\ x.time = presentation[e] /\ x.frame = taken[e] /\ x.eos = eos
        /\ taken[e] # NoFrame
    BY <1>1 DEF Buffers, NoFrame
  <2>3. After(x) = presentation[e] + 1
    BY <2>2 DEF After
  <2> HIDE DEF x
  <2>4. Append(queued[e], x) \in Seq(Buffers)
    BY <1>1, <2>2, AppendProperties
  <2>5. /\ queued' \in [Recording -> Seq(Buffers)] /\ queued'[e] = Append(queued[e], x)
        /\ \A y \in Recording : y # e => queued'[y] = queued[y]
    BY <1>1, <2>1, <2>4
  <2>6. /\ presentation' \in [Recording -> Nat] /\ presentation'[e] = presentation[e] + 1
        /\ \A y \in Recording : y # e => presentation'[y] = presentation[y]
    BY <1>1, <2>1
  <2>7. presentation[e] <= taken[e] /\ (~lost => presentation[e] = taken[e])
    BY <1>7 DEF InLine
  <2>8. Fits(x, lost)
    BY <1>1, <2>2, <2>7 DEF Fits
  <2>9. After(x) <= taken[e] + 1 /\ (~lost => After(x) = taken[e] + 1) /\ taken[e] + 1 \in Nat
    BY <1>1, <2>3, <2>7
  <2>10. Len(queued[e]) < InputBuffers
    BY <1>8 DEF HasInputBuffer
  <2> HIDE DEF lost, more
  <2>11. InLine(Append(queued[e], x), encoded[e], muxer[e], After(x), taken[e] + 1, lost)
    BY <1>1, <1>7, <2>2, <2>8, <2>9, <2>10, LineGrows
  <2>12. more = lost
    BY <1>3, <1>7, <1>8 DEF more, lost, Lost
  <2>13. InLine(queued'[e], encoded'[e], muxer'[e], presentation'[e], taken'[e], more)
    BY <1>4, <1>6, <2>3, <2>5, <2>6, <2>11, <2>12
  <2>14. Lined(e)'
    BY <2>13 DEF Lined, more
  <2>15. InputTypes' /\ OthersKeepInput(e)
    BY <1>4, <1>5, <2>5, <2>6 DEF InputTypes, OthersKeepInput
  <2>16. QED BY <1>3, <1>4, <1>5, <2>2, <2>5, <2>14, <2>15
<1>9. CASE ~HasInputBuffer(e)
  <2>1. queued' = queued /\ presentation' = presentation
    BY <1>9 DEF SubmitFrame
  <2>2. more = TRUE
    BY <1>3, <1>9 DEF Lost
  <2> HIDE DEF lost
  <2>3. InLine(queued[e], encoded[e], muxer[e], presentation[e], taken[e] + 1, TRUE)
    BY <1>1, <1>7, LineLoses
  <2>4. InLine(queued'[e], encoded'[e], muxer'[e], presentation'[e], taken'[e], Lost(e)')
    BY <1>4, <1>6, <2>1, <2>2, <2>3
  <2>5. Lined(e)'
    BY <2>4 DEF Lined
  <2>6. InputTypes' /\ OthersKeepInput(e)
    BY <1>1, <1>4, <1>5, <2>1 DEF InputTypes, OthersKeepInput
  <2>7. mishaps'[e] # {}
    BY <2>2 DEF Lost
  <2>8. QED BY <1>3, <1>4, <1>5, <2>5, <2>6, <2>7
<1>10. QED BY <1>8, <1>9
\* A thread r at work in encoder e leaves all others alone.
WorksIn(r, e) ==
    /\ recorder[r] # "off" /\ recorder[e] # "off" /\ recorder'[r] # "off"
    /\ realtimeEncoder' = realtimeEncoder
    /\ \A x \in Recording : x # r =>
        recorder'[x] = recorder[x] /\ inside'[x] = inside[x] /\ read'[x] = read[x]
    /\ \A x \in Recording : x # e =>
        SameLine(x) /\ codec'[x] = codec[x] /\ accumFilled'[x] = accumFilled[x]
    /\ r # e => "mixed" \in mishaps'[r] /\ "mixed" \in mishaps'[e]

LEMMA WorkKeepsIInv ==
    ASSUME EncoderIInv, NEW r \in Recording, NEW e \in Recording, EncoderTypes', MoreMishaps,
           WorksIn(r, e), Lined(e)', r = e => Own(r)', Met(r)'
    PROVE  EncoderIInv'
<1>1. \A x \in Recording : Lined(x) /\ Own(x) /\ Met(x)
  BY DEF EncoderIInv
<1>2. EncoderTypes /\ \A x \in Recording : recorder[x] = "off" <=> x > realtimeEncoder
  BY DEF EncoderIInv
<1>3. \A x \in Recording : recorder'[x] = "off" <=> recorder[x] = "off"
  BY DEF WorksIn
<1>4. ASSUME NEW x \in Recording PROVE Lined(x)'
  <2>1. CASE x = e
    BY <2>1
  <2>2. CASE x # e
    <3>1. SameLine(x)
      BY <2>2 DEF WorksIn
    <3>2. QED BY <1>1, <1>2, <3>1, LinedSame
  <2>3. QED BY <2>1, <2>2
<1>5. ASSUME NEW x \in Recording PROVE Own(x)'
  <2>1. CASE x # e /\ x # r
    <3>1. SameLine(x) /\ SameKept(x)
      BY <2>1 DEF WorksIn, SameKept
    <3>2. QED BY <1>1, <3>1, OwnSame
  <2>2. CASE r = e /\ x = e
    BY <2>2
  <2>3. CASE r # e /\ (x = r \/ x = e)
    <3>1. mishaps'[x] # {}
      BY <2>3 DEF WorksIn
    <3>2. QED BY <3>1, OwnSpoilt
  <2>4. QED BY <2>1, <2>2, <2>3
<1>6. ASSUME NEW x \in Recording PROVE Met(x)'
  <2>1. CASE x = r
    BY <2>1
  <2>2. CASE x # r
    <3>1. recorder'[x] = recorder[x] /\ inside'[x] = inside[x]
      BY <2>2 DEF WorksIn
    <3>2. QED BY <1>1, <1>2, <1>3, <3>1, MetSame
  <2>3. QED BY <2>1, <2>2
<1>7. \A x \in Recording : recorder'[x] = "off" <=> x > realtimeEncoder'
  BY <1>2, <1>3 DEF WorksIn
<1>8. QED BY <1>4, <1>5, <1>6, <1>7 DEF EncoderIInv

LEMMA FieldInUse ==
    ASSUME EncoderIInv, NEW r \in Recording, recorder[r] # "off"
    PROVE  realtimeEncoder \in Recording /\ recorder[realtimeEncoder] # "off"
<1>1. /\ ~(r > realtimeEncoder) /\ realtimeEncoder \in 0 .. MaxRecordings
      /\ \A x \in Recording : recorder[x] = "off" <=> x > realtimeEncoder
  BY DEF EncoderIInv, EncoderTypes
<1>2. realtimeEncoder \in Recording /\ ~(realtimeEncoder > realtimeEncoder)
  BY <1>1, EncoderAssumption DEF Recording
<1>3. QED BY <1>1, <1>2

LEMMA AtFacts ==
    ASSUME EncoderTypes, NEW r \in Recording, NEW place \in Places, At(r, place)
    PROVE  /\ recorder' \in [Recording -> Places] /\ recorder'[r] = place
           /\ \A x \in Recording : x # r => recorder'[x] = recorder[x]
BY DEF At, EncoderTypes

LEMMA InsideFacts ==
    ASSUME EncoderTypes, NEW r \in Recording, NEW e \in Recording,
           inside' = [inside EXCEPT ![r] = e]
    PROVE  /\ inside' \in [Recording -> 0 .. MaxRecordings] /\ inside'[r] = e
           /\ \A x \in Recording : x # r => inside'[x] = inside[x]
<1>1. e \in 0 .. MaxRecordings
  BY EncoderAssumption DEF Recording
<1>2. QED BY <1>1 DEF EncoderTypes

LEMMA InitEncoderIInv == Init => EncoderIInv
<1> SUFFICES ASSUME Init PROVE EncoderIInv
  OBVIOUS
<1> USE DEF Init
<1>1. <<>> \in Seq(Buffers) /\ Len(<<>>) = 0
  OBVIOUS
<1>2. MaxRecordings \in Nat /\ InputBuffers \in Nat
  BY EncoderAssumption
<1>3. EncoderTypes
  BY <1>1, <1>2 DEF EncoderTypes, Places, Mishaps
<1>4. ASSUME NEW r \in Recording PROVE recorder[r] = "off" <=> r > realtimeEncoder
  BY <1>2 DEF Recording
<1>5. ASSUME NEW r \in Recording PROVE Lined(r)
  <2>1. InLine(<<>>, <<>>, <<>>, 0, 0, FALSE)
    BY <1>1, <1>2 DEF InLine, Ahead, Chained, FitAll, InFile
  <2>2. ~Lost(r)
    BY DEF Lost
  <2>3. /\ queued[r] = <<>> /\ encoded[r] = <<>> /\ muxer[r] = <<>>
        /\ presentation[r] = 0 /\ taken[r] = 0
    OBVIOUS
  <2>4. Lost(r) = FALSE
    BY <2>2 DEF Lost
  <2> HIDE DEF Init
  <2>5. QED BY <2>1, <2>3, <2>4 DEF Lined
<1>6. ASSUME NEW r \in Recording PROVE Own(r)
  <2>1. /\ recorder[r] = "off" /\ read[r] = 0 /\ taken[r] = 0 /\ accumFilled[r] = 0
        /\ queued[r] = <<>> /\ encoded[r] = <<>>
    OBVIOUS
  <2>2. Kept(recorder[r], realtimeEncoder = r, codec[r], accumFilled[r], taken[r],
             queued[r], encoded[r], muxer[r], read[r])
    BY ONLY <2>1 DEF Kept, Before
  <2>3. QED BY ONLY <2>2 DEF Own
<1>7. ASSUME NEW r \in Recording PROVE Met(r)
  BY DEF Met
<1>8. QED BY <1>3, <1>4, <1>5, <1>6, <1>7 DEF EncoderIInv

LEMMA PressRecordKeepsIInv ==
    ASSUME EncoderIInv, PressRecord
    PROVE  EncoderIInv'
<1> DEFINE r == realtimeEncoder + 1
<1>1. EncoderTypes /\ \A x \in Recording : recorder[x] = "off" <=> x > realtimeEncoder
  BY DEF EncoderIInv
<1>2. \A x \in Recording : Lined(x) /\ Own(x) /\ Met(x)
  BY DEF EncoderIInv
<1>3. r \in Recording /\ realtimeEncoder' = r /\ At(r, "init")
      /\ UNCHANGED <<inputVars, outputVars, inside, read>>
  BY DEF PressRecord
<1>4. realtimeEncoder \in Nat /\ recorder[r] = "off"
  <2>1. realtimeEncoder \in 0 .. MaxRecordings
    BY <1>1 DEF EncoderTypes
  <2>2. realtimeEncoder \in Nat /\ r > realtimeEncoder
    BY <2>1, EncoderAssumption
  <2> HIDE DEF r
  <2>3. QED BY <1>1, <1>3, <2>2
<1>5. PICK ok \in BOOLEAN :
        IF ok THEN codec' = [codec EXCEPT ![r] = "open"] /\ UNCHANGED mishaps
        ELSE Mishap(r, "unstarted") /\ UNCHANGED codec
  <2>1. \/ codec' = [codec EXCEPT ![r] = "open"] /\ UNCHANGED mishaps
        \/ Mishap(r, "unstarted") /\ UNCHANGED codec
    BY DEF PressRecord
  <2>2. QED BY <2>1
<1> HIDE DEF r
<1>6. /\ recorder' \in [Recording -> Places] /\ recorder'[r] = "init"
      /\ \A x \in Recording : x # r => recorder'[x] = recorder[x]
  <2>1. "init" \in Places
    BY DEF Places
  <2>2. QED BY <1>1, <1>3, <2>1, AtFacts
<1>7. MoreMishaps /\ (~ok => mishaps'[r] # {})
  <2>1. CASE ok
    BY <1>1, <1>5, <2>1, NoMishap
  <2>2. CASE ~ok
    <3>1. "unstarted" \in Mishaps
      BY DEF Mishaps
    <3>2. QED BY <1>1, <1>3, <1>5, <2>2, <3>1, MishapFacts
  <2>3. QED BY <2>1, <2>2
<1>8. /\ codec' \in [Recording -> {"none", "open", "closed"}]
      /\ \A x \in Recording : x # r => codec'[x] = codec[x]
      /\ ok => codec'[r] = "open"
  <2>1. codec \in [Recording -> {"none", "open", "closed"}]
    BY <1>1 DEF EncoderTypes
  <2>2. CASE ok
    BY <1>3, <1>5, <2>1, <2>2
  <2>3. CASE ~ok
    BY <1>5, <2>1, <2>3
  <2>4. QED BY <2>2, <2>3
<1>9. EncoderTypes'
  <2>1. realtimeEncoder' \in 0 .. MaxRecordings
    BY <1>3, EncoderAssumption DEF Recording
  <2>2. mishaps' \in [Recording -> SUBSET Mishaps]
    BY <1>7 DEF MoreMishaps
  <2>3. QED BY <1>1, <1>3, <1>6, <1>8, <2>1, <2>2 DEF EncoderTypes, inputVars, outputVars
<1>10. \A x \in Recording : SameLine(x)
  BY <1>3 DEF SameLine, inputVars, outputVars
<1>11. ASSUME NEW x \in Recording PROVE Lined(x)'
  BY <1>1, <1>2, <1>7, <1>10, LinedSame
<1>12. ASSUME NEW x \in Recording PROVE Own(x)'
  <2>1. SUFFICES ASSUME mishaps'[x] = {}
                 PROVE  Kept(recorder'[x], realtimeEncoder' = x, codec'[x], accumFilled'[x],
                             taken'[x], queued'[x], encoded'[x], muxer'[x], read'[x])
    BY DEF Own
  <2>2. mishaps[x] = {}
    BY <1>7, <2>1 DEF MoreMishaps
  <2>3. Kept(recorder[x], realtimeEncoder = x, codec[x], accumFilled[x], taken[x],
             queued[x], encoded[x], muxer[x], read[x])
    BY <1>2, <2>2 DEF Own
  <2>4. /\ accumFilled'[x] = accumFilled[x] /\ read'[x] = read[x] /\ queued'[x] = queued[x]
        /\ encoded'[x] = encoded[x] /\ muxer'[x] = muxer[x] /\ taken'[x] = taken[x]
    BY <1>3 DEF inputVars, outputVars
  <2>5. CASE x # r
    <3>1. Kept(recorder[x], FALSE, codec[x], accumFilled[x], taken[x],
               queued[x], encoded[x], muxer[x], read[x])
      BY <2>3 DEF Kept
    <3>2. recorder'[x] = recorder[x] /\ codec'[x] = codec[x] /\ (realtimeEncoder' = x) = FALSE
      BY <1>3, <1>6, <1>8, <2>5
    <3>3. QED BY <2>4, <3>1, <3>2
  <2>6. CASE x = r
    <3>1. /\ read[r] = 0 /\ taken[r] = 0 /\ accumFilled[r] = 0 /\ queued[r] = <<>>
          /\ encoded[r] = <<>>
      BY <1>4, <2>3, <2>6 DEF Kept
    <3>2. recorder'[r] = "init" /\ codec'[r] = "open"
      BY <1>6, <1>7, <1>8, <2>1, <2>6
    <3>3. Endless(<<>>)
      BY DEF Endless
    <3>4. QED BY <2>4, <2>6, <3>1, <3>2, <3>3 DEF Kept, Before
  <2>7. QED BY <2>5, <2>6
<1>13. ASSUME NEW x \in Recording PROVE Met(x)'
  <2>1. CASE x = r
    BY <1>6, <2>1, MetElsewhere
  <2>2. CASE x # r
    <3>1. \A y \in Recording : recorder[y] # "off" => recorder'[y] # "off"
      BY <1>6
    <3>2. inside'[x] = inside[x] /\ recorder'[x] = recorder[x]
      BY <1>3, <1>6, <2>2
    <3>3. QED BY <1>1, <1>2, <1>7, <3>1, <3>2, MetSame
  <2>3. QED BY <2>1, <2>2
<1>14. ASSUME NEW x \in Recording PROVE recorder'[x] = "off" <=> x > realtimeEncoder'
  <2>1. x \in Int /\ r \in Int /\ r = realtimeEncoder + 1
    BY <1>3, EncoderAssumption DEF Recording, r
  <2>2. CASE x = r
    BY <1>3, <1>6, <2>1, <2>2
  <2>3. CASE x # r
    <3>1. x > realtimeEncoder <=> x > r
      BY <1>4, <2>1, <2>3
    <3>2. QED BY <1>1, <1>3, <1>6, <2>3, <3>1
  <2>4. QED BY <2>2, <2>3
<1>15. QED BY <1>9, <1>11, <1>12, <1>13, <1>14 DEF EncoderIInv
\* The buttons and startRecord are of no account.
LEMMA QuietKeepsEncoderIInv ==
    ASSUME EncoderIInv,
           UNCHANGED <<realtimeEncoder, codec, inputVars, outputVars, recorder, inside, read, mishaps>>
    PROVE  EncoderIInv'
BY DEF EncoderIInv, EncoderTypes, Lined, Own, Met, Lost, inputVars, outputVars

LEMMA EncodeKeepsIInv ==
    ASSUME EncoderIInv, NEW e \in Recording, Encode(e)
    PROVE  EncoderIInv'
<1> DEFINE h == Head(queued[e])
<1>1. EncoderTypes /\ \A x \in Recording : recorder[x] = "off" <=> x > realtimeEncoder
  BY DEF EncoderIInv
<1>2. \A x \in Recording : Lined(x) /\ Own(x) /\ Met(x)
  BY DEF EncoderIInv
<1>3. /\ queued[e] # <<>>
      /\ queued' = [queued EXCEPT ![e] = Tail(queued[e])]
      /\ encoded' = [encoded EXCEPT ![e] = Append(encoded[e], h)]
      /\ UNCHANGED <<appVars, codec, accumFilled, taken, presentation, muxer, recorder, inside,
                     read, mishaps>>
  BY DEF Encode
<1>4. /\ queued[e] \in Seq(Buffers) /\ encoded[e] \in Seq(Buffers) /\ muxer[e] \in Seq(Buffers)
      /\ presentation[e] \in Nat /\ taken[e] \in Nat
      /\ queued \in [Recording -> Seq(Buffers)] /\ encoded \in [Recording -> Seq(Buffers)]
  BY <1>1 DEF EncoderTypes
<1>5. /\ h \in Buffers /\ Tail(queued[e]) \in Seq(Buffers) /\ h = queued[e][1]
      /\ Len(queued[e]) \in Nat /\ Len(queued[e]) > 0 /\ Len(Tail(queued[e])) = Len(queued[e]) - 1
      /\ \A i \in 1 .. Len(queued[e]) - 1 : Tail(queued[e])[i] = queued[e][i + 1]
  BY <1>3, <1>4, HeadTailProperties, LenProperties, EmptySeq
<1> HIDE DEF h
<1>6. /\ Append(encoded[e], h) \in Seq(Buffers) /\ Len(encoded[e]) \in Nat
      /\ Len(Append(encoded[e], h)) = Len(encoded[e]) + 1
      /\ Append(encoded[e], h)[Len(encoded[e]) + 1] = h
      /\ \A i \in 1 .. Len(encoded[e]) : Append(encoded[e], h)[i] = encoded[e][i]
  BY <1>4, <1>5, AppendProperties, LenProperties
<1>7. /\ queued' \in [Recording -> Seq(Buffers)] /\ queued'[e] = Tail(queued[e])
      /\ \A x \in Recording : x # e => queued'[x] = queued[x]
  BY <1>3, <1>4, <1>5
<1>8. /\ encoded' \in [Recording -> Seq(Buffers)] /\ encoded'[e] = Append(encoded[e], h)
      /\ \A x \in Recording : x # e => encoded'[x] = encoded[x]
  BY <1>3, <1>4, <1>6
<1>9. EncoderTypes'
  BY <1>1, <1>3, <1>7, <1>8 DEF EncoderTypes, appVars
<1>10. MoreMishaps
  BY <1>1, <1>3, NoMishap
<1>11. ASSUME NEW x \in Recording, x # e PROVE Lined(x)' /\ Own(x)'
  <2>1. SameLine(x) /\ SameKept(x)
    BY <1>3, <1>7, <1>8, <1>11 DEF SameLine, SameKept, appVars
  <2>2. QED BY <1>1, <1>2, <1>10, <2>1, LinedSame, OwnSame
<1>12. Lined(e)'
  <2>1. Lost(e) \in BOOLEAN
    BY DEF Lost
  <2>2. InLine(queued[e], encoded[e], muxer[e], presentation[e], taken[e], Lost(e))
    BY <1>2 DEF Lined
  <2>3. InLine(Tail(queued[e]), Append(encoded[e], Head(queued[e])), muxer[e],
               presentation[e], taken[e], Lost(e))
    BY <1>3, <1>4, <2>1, <2>2, LineEncodes
  <2>4. QED BY <1>3, <1>7, <1>8, <2>3 DEF Lined, Lost, h
<1>13. Own(e)'
  <2>1. SUFFICES ASSUME mishaps[e] = {}
                 PROVE  Kept(recorder[e], realtimeEncoder = e, codec[e], accumFilled[e], taken[e],
                             Tail(queued[e]), Append(encoded[e], h), muxer[e], read[e])
    BY <1>3, <1>7, <1>8 DEF Own, appVars
  <2>2. Kept(recorder[e], realtimeEncoder = e, codec[e], accumFilled[e], taken[e],
             queued[e], encoded[e], muxer[e], read[e])
    BY <1>2, <2>1 DEF Own
  <2>3. recorder[e] # "off"
    BY <1>3, <2>2 DEF Kept
  <2>4. ASSUME Endless(queued[e]), Endless(encoded[e])
        PROVE  Endless(Tail(queued[e])) /\ Endless(Append(encoded[e], h))
    <3>1. ~h.eos
      <4>1. 1 \in 1 .. Len(queued[e])
        BY <1>5
      <4>2. QED BY <1>5, <2>4, <4>1 DEF Endless
    <3>2. \A i \in 1 .. Len(queued[e]) - 1 : i + 1 \in 1 .. Len(queued[e])
      BY <1>5
    <3>3. Endless(Tail(queued[e]))
      BY <1>5, <2>4, <3>2 DEF Endless
    <3>4. ASSUME NEW i \in 1 .. Len(encoded[e]) + 1 PROVE ~Append(encoded[e], h)[i].eos
      <4>1. CASE i = Len(encoded[e]) + 1
        BY <1>6, <3>1, <4>1
      <4>2. CASE i # Len(encoded[e]) + 1
        <5>1. i \in 1 .. Len(encoded[e])
          BY <1>6, <4>2
        <5>2. QED BY <1>6, <2>4, <5>1 DEF Endless
      <4>3. QED BY <4>1, <4>2
    <3>5. QED BY <1>6, <3>3, <3>4 DEF Endless
  <2>5. ASSUME EndIsLast(queued[e]), EndIsLast(encoded[e]), ~Endless(encoded[e]) => queued[e] = <<>>
        PROVE  /\ EndIsLast(Tail(queued[e])) /\ EndIsLast(Append(encoded[e], h))
               /\ ~Endless(Append(encoded[e], h)) => Tail(queued[e]) = <<>>
    <3>1. Endless(encoded[e])
      BY <1>3, <2>5
    <3>2. ASSUME NEW i \in 1 .. Len(queued[e]) - 1, Tail(queued[e])[i].eos
          PROVE  i = Len(queued[e]) - 1
      <4>1. i + 1 \in 1 .. Len(queued[e])
        BY <1>5
      <4>2. i + 1 = Len(queued[e])
        BY <1>5, <2>5, <3>2, <4>1 DEF EndIsLast
      <4>3. QED BY <1>5, <4>2
    <3>3. EndIsLast(Tail(queued[e]))
      BY <1>5, <3>2 DEF EndIsLast
    <3>4. ASSUME NEW i \in 1 .. Len(encoded[e]) + 1, Append(encoded[e], h)[i].eos
          PROVE  i = Len(encoded[e]) + 1
      <4>1. CASE i # Len(encoded[e]) + 1
        <5>1. i \in 1 .. Len(encoded[e])
          BY <1>6, <4>1
        <5>2. QED BY <1>6, <3>1, <3>4, <5>1 DEF Endless
      <4>2. QED BY <4>1
    <3>5. EndIsLast(Append(encoded[e], h))
      BY <1>6, <3>4 DEF EndIsLast
    <3>6. ASSUME ~Endless(Append(encoded[e], h)) PROVE Tail(queued[e]) = <<>>
      <4>1. PICK i \in 1 .. Len(encoded[e]) + 1 : Append(encoded[e], h)[i].eos
        BY <1>6, <3>6 DEF Endless
      <4>2. i = Len(encoded[e]) + 1
        BY <3>4, <4>1
      <4>3. queued[e][1].eos
        BY <1>5, <1>6, <4>1, <4>2
      <4>4. 1 \in 1 .. Len(queued[e])
        BY <1>5
      <4>5. Len(queued[e]) = 1
        BY <2>5, <4>3, <4>4 DEF EndIsLast
      <4>6. Len(Tail(queued[e])) = 0
        BY <1>5, <4>5
      <4>7. QED BY <1>5, <4>6, EmptySeq
    <3>7. QED BY <3>3, <3>5, <3>6
  <2>6. QED BY <2>2, <2>3, <2>4, <2>5 DEF Kept
<1>14. ASSUME NEW x \in Recording PROVE Met(x)'
  BY <1>1, <1>2, <1>3, <1>10, MetSame
<1>15. \A x \in Recording : recorder'[x] = "off" <=> x > realtimeEncoder'
  BY <1>1, <1>3 DEF appVars
<1>16. \A x \in Recording : Lined(x)' /\ Own(x)' /\ Met(x)'
  BY <1>11, <1>12, <1>13, <1>14
<1>17. QED BY <1>9, <1>15, <1>16 DEF EncoderIInv

\* A thread goes on to where its encoder is still to be released, or gives up.
LEMMA MoveKeepsIInv ==
    ASSUME EncoderIInv, NEW r \in Recording, recorder[r] # "off", MoreMishaps,
           NEW place \in {"begin", "loop", "leaving", "stopping", "failing", "failed"},
           At(r, place), mishaps'[r] = {} => recorder[r] \in Before /\ place \in Before,
           UNCHANGED <<realtimeEncoder, codec, inputVars, outputVars, inside, read>>
    PROVE  EncoderIInv'
<1>1. EncoderTypes /\ Lined(r) /\ Own(r)
  BY DEF EncoderIInv
<1>2. place \in Places /\ place \notin {"off", "draining", "finalizing", "done"}
  BY DEF Places
<1>3. /\ recorder' \in [Recording -> Places] /\ recorder'[r] = place
      /\ \A x \in Recording : x # r => recorder'[x] = recorder[x]
  BY <1>1, <1>2, AtFacts
<1>4. EncoderTypes'
  BY <1>1, <1>3 DEF EncoderTypes, MoreMishaps, inputVars, outputVars
<1>5. \A x \in Recording : SameLine(x)
  BY DEF SameLine, inputVars, outputVars
<1>6. WorksIn(r, r)
  BY <1>2, <1>3, <1>5 DEF WorksIn, inputVars
<1>7. Lined(r)'
  BY <1>1, <1>5, LinedSame
<1>8. Own(r)'
  <2>1. CASE mishaps'[r] # {}
    BY <2>1, OwnSpoilt
  <2>2. CASE mishaps'[r] = {}
    <3>1. mishaps[r] = {} /\ recorder[r] \in Before /\ place \in Before
      BY <2>2 DEF MoreMishaps
    <3>2. Kept(recorder[r], realtimeEncoder = r, codec[r], accumFilled[r], taken[r],
               queued[r], encoded[r], muxer[r], read[r])
      BY <1>1, <3>1 DEF Own
    <3>3. Kept(place, realtimeEncoder = r, codec[r], accumFilled[r], taken[r],
               queued[r], encoded[r], muxer[r], read[r])
      BY <1>2, <3>1, <3>2 DEF Kept, Before
    <3>4. QED BY <1>3, <3>3 DEF Own, inputVars, outputVars
  <2>3. QED BY <2>1, <2>2
<1>9. Met(r)'
  BY <1>2, <1>3, MetElsewhere
<1>10. QED BY <1>4, <1>6, <1>7, <1>8, <1>9, WorkKeepsIInv

LEMMA RecorderStartKeepsIInv ==
    ASSUME EncoderIInv, NEW r \in Recording,
           InitRecorder(r) \/ InitRecorderFailed(r) \/ StartRecording(r)
    PROVE  EncoderIInv'
<1>1. EncoderTypes /\ Own(r)
  BY DEF EncoderIInv
<1>2. "unrecorded" \in Mishaps
  BY DEF Mishaps
<1>3. CASE InitRecorder(r)
  <2>1. /\ recorder[r] = "init"
        /\ UNCHANGED <<realtimeEncoder, codec, inputVars, outputVars, inside, read>>
    BY <1>3 DEF InitRecorder
  <2>2. CASE At(r, "begin") /\ UNCHANGED mishaps
    <3>1. MoreMishaps
      BY <1>1, <2>2, NoMishap
    <3>2. QED BY <2>1, <2>2, <3>1, MoveKeepsIInv DEF Before
  <2>3. CASE At(r, "failing") /\ Mishap(r, "unrecorded")
    <3>1. MoreMishaps /\ mishaps'[r] # {}
      BY <1>1, <1>2, <2>3, MishapFacts
    <3>2. QED BY <2>1, <2>3, <3>1, MoveKeepsIInv
  <2>4. QED BY <1>3, <2>2, <2>3 DEF InitRecorder
<1>4. CASE InitRecorderFailed(r)
  <2>1. /\ recorder[r] = "failing" /\ At(r, "failed") /\ UNCHANGED mishaps
        /\ UNCHANGED <<realtimeEncoder, codec, inputVars, outputVars, inside, read>>
    BY <1>4 DEF InitRecorderFailed
  <2>2. MoreMishaps
    BY <1>1, <2>1, NoMishap
  <2>3. mishaps'[r] # {}
    BY <1>1, <2>1 DEF Own, Kept
  <2>4. QED BY <2>1, <2>2, <2>3, MoveKeepsIInv
<1>5. CASE StartRecording(r)
  <2>1. /\ recorder[r] = "begin"
        /\ UNCHANGED <<realtimeEncoder, codec, inputVars, outputVars, inside, read>>
    BY <1>5 DEF StartRecording
  <2>2. CASE At(r, "loop") /\ UNCHANGED mishaps
    <3>1. MoreMishaps
      BY <1>1, <2>2, NoMishap
    <3>2. QED BY <2>1, <2>2, <3>1, MoveKeepsIInv DEF Before
  <2>3. CASE At(r, "failed") /\ Mishap(r, "unrecorded")
    <3>1. MoreMishaps /\ mishaps'[r] # {}
      BY <1>1, <1>2, <2>3, MishapFacts
    <3>2. QED BY <2>1, <2>3, <3>1, MoveKeepsIInv
  <2>4. QED BY <1>5, <2>2, <2>3 DEF StartRecording
<1>6. QED BY <1>3, <1>4, <1>5

LEMMA LeaveKeepsIInv ==
    ASSUME EncoderIInv, NEW r \in Recording, LeaveLoop(r) \/ ReleaseRecord(r)
    PROVE  EncoderIInv'
<1>1. MoreMishaps
  <2>1. EncoderTypes /\ UNCHANGED mishaps
    BY DEF EncoderIInv, LeaveLoop, ReleaseRecord
  <2>2. QED BY <2>1, NoMishap
<1>2. CASE LeaveLoop(r)
  <2>1. /\ recorder[r] = "loop" /\ At(r, "leaving")
        /\ UNCHANGED <<realtimeEncoder, codec, inputVars, outputVars, inside, read>>
    BY <1>2 DEF LeaveLoop, appVars
  <2>2. QED BY <1>1, <2>1, MoveKeepsIInv DEF Before
<1>3. CASE ReleaseRecord(r)
  <2>1. /\ recorder[r] = "leaving" /\ At(r, "stopping")
        /\ UNCHANGED <<realtimeEncoder, codec, inputVars, outputVars, inside, read>>
    BY <1>3 DEF ReleaseRecord
  <2>2. QED BY <1>1, <2>1, MoveKeepsIInv DEF Before
<1>4. QED BY <1>2, <1>3

LEMMA FeedKeepsIInv ==
    ASSUME EncoderIInv, NEW r \in Recording, Feed(r)
    PROVE  EncoderIInv'
<1>1. EncoderTypes /\ \A x \in Recording : Lined(x) /\ Own(x) /\ Met(x)
  BY DEF EncoderIInv
<1>2. /\ recorder[r] = "loop" /\ read' = [read EXCEPT ![r] = read[r] + 1]
      /\ UNCHANGED <<startRecord, realtimeEncoder, codec, outputVars>>
  BY DEF Feed, appVars
<1>3. PICK e \in Recording : e = realtimeEncoder /\ recorder[e] # "off"
  BY <1>2, FieldInUse
<1>4. /\ read' \in [Recording -> Nat] /\ read'[r] = read[r] + 1 /\ read[r] \in Nat
      /\ \A x \in Recording : x # r => read'[x] = read[x]
  <2>1. read \in [Recording -> Nat] /\ read[r] \in Nat
    BY <1>1 DEF EncoderTypes
  <2>2. QED BY <1>2, <2>1
<1>5. CASE codec[e] # "open"
  <2>1. UNCHANGED <<inputVars, mishaps, recorder, inside>>
    BY <1>3, <1>5 DEF Feed
  <2>2. EncoderTypes'
    BY <1>1, <1>2, <1>4, <2>1 DEF EncoderTypes, inputVars, outputVars
  <2>3. MoreMishaps
    BY <1>1, <2>1, NoMishap
  <2>4. \A x \in Recording : SameLine(x)
    BY <1>2, <2>1 DEF SameLine, inputVars, outputVars
  <2>5. WorksIn(r, r)
    BY <1>2, <1>4, <2>1, <2>4 DEF WorksIn, inputVars
  <2>6. Lined(r)'
    BY <1>1, <2>3, <2>4, LinedSame
  <2>7. Own(r)'
    BY <1>1, <1>2, <1>3, <1>5, <2>1 DEF Own, Kept, inputVars, outputVars
  <2>8. Met(r)'
    BY <1>2, <2>1, MetElsewhere
  <2>9. QED BY <2>2, <2>3, <2>5, <2>6, <2>7, <2>8, WorkKeepsIInv
<1>6. CASE codec[e] = "open"
  <2>1. /\ At(r, "draining") /\ inside' = [inside EXCEPT ![r] = e]
        /\ IF accumFilled[e] + 1 = FRAME_SAMPLES
           THEN SubmitFrame(r, e, FALSE)
           ELSE /\ accumFilled' = [accumFilled EXCEPT ![e] = accumFilled[e] + 1]
                /\ Meet(r, e, FALSE)
                /\ UNCHANGED <<taken, presentation, queued>>
    BY <1>3, <1>6 DEF Feed
  <2>2. /\ recorder' \in [Recording -> Places] /\ recorder'[r] = "draining"
        /\ \A x \in Recording : x # r => recorder'[x] = recorder[x]
    <3>1. "draining" \in Places
      BY DEF Places
    <3>2. QED BY <1>1, <2>1, <3>1, AtFacts
  <2>3. /\ inside' \in [Recording -> 0 .. MaxRecordings] /\ inside'[r] = e
        /\ \A x \in Recording : x # r => inside'[x] = inside[x]
    BY <1>1, <1>3, <2>1, InsideFacts
  <2>4. accumFilled \in [Recording -> 0 .. 1] /\ accumFilled[e] \in 0 .. 1
    BY <1>1, <1>3 DEF EncoderTypes
  <2>5. encoded' = encoded /\ muxer' = muxer /\ UNCHANGED outputVars /\ codec' = codec
        /\ realtimeEncoder' = realtimeEncoder
    BY <1>2 DEF outputVars
  <2>6. /\ InputTypes' /\ OthersKeepInput(e) /\ MoreMishaps /\ Lined(e)'
        /\ r # e => "mixed" \in mishaps'[r] /\ "mixed" \in mishaps'[e]
        /\ mishaps'[e] = {} =>
             /\ 2 * taken'[e] + accumFilled'[e] = 2 * taken[e] + accumFilled[e] + 1
             /\ Endless(queued[e]) => Endless(queued'[e])
    <3>1. CASE accumFilled[e] + 1 = FRAME_SAMPLES
      <4>1. SubmitFrame(r, e, FALSE)
        BY <2>1, <3>1
      <4>2. /\ InputTypes' /\ OthersKeepInput(e) /\ MoreMishaps /\ Lined(e)'
            /\ r # e => "mixed" \in mishaps'[r] /\ "mixed" \in mishaps'[e]
            /\ taken'[e] = taken[e] + 1 /\ accumFilled'[e] = 0
            /\ mishaps'[e] = {} =>
                 \E x \in Buffers : x.eos = FALSE /\ queued'[e] = Append(queued[e], x)
        BY <1>1, <1>3, <2>5, <4>1, SubmitFacts
      <4>3. accumFilled[e] = 1 /\ taken[e] \in Nat
        BY <1>1, <1>3, <2>4, <3>1 DEF FRAME_SAMPLES, EncoderTypes
      <4>4. 2 * taken'[e] + accumFilled'[e] = 2 * taken[e] + accumFilled[e] + 1
        BY <4>2, <4>3
      <4>5. ASSUME mishaps'[e] = {}, Endless(queued[e]) PROVE Endless(queued'[e])
        <5>1. PICK x \in Buffers : x.eos = FALSE /\ queued'[e] = Append(queued[e], x)
          BY <4>2, <4>5
        <5>2. queued[e] \in Seq(Buffers)
          BY <1>1, <1>3 DEF EncoderTypes
        <5>3. Len(queued[e]) \in Nat /\ Len(queued'[e]) = Len(queued[e]) + 1
              /\ queued'[e][Len(queued[e]) + 1] = x
              /\ \A i \in 1 .. Len(queued[e]) : queued'[e][i] = queued[e][i]
          BY <5>1, <5>2, AppendProperties, LenProperties
        <5>4. ASSUME NEW i \in 1 .. Len(queued[e]) + 1 PROVE ~queued'[e][i].eos
          <6>1. CASE i = Len(queued[e]) + 1
            BY <5>1, <5>3, <6>1
          <6>2. CASE i # Len(queued[e]) + 1
            <7>1. i \in 1 .. Len(queued[e])
              BY <5>3, <6>2
            <7>2. QED BY <4>5, <5>3, <7>1 DEF Endless
          <6>3. QED BY <6>1, <6>2
        <5>5. QED BY <5>3, <5>4 DEF Endless
      <4>6. QED BY <4>2, <4>4, <4>5
    <3>2. CASE accumFilled[e] + 1 # FRAME_SAMPLES
      <4>1. /\ accumFilled' = [accumFilled EXCEPT ![e] = accumFilled[e] + 1]
            /\ Meet(r, e, FALSE)
            /\ UNCHANGED <<taken, presentation, queued>>
        BY <2>1, <3>2
      <4>2. accumFilled[e] + 1 \in 0 .. 1 /\ taken[e] \in Nat
        <5>1. accumFilled[e] \in 0 .. 1 /\ taken[e] \in Nat
          BY <1>1, <1>3 DEF EncoderTypes
        <5>2. QED BY <2>4, <3>2, <5>1 DEF FRAME_SAMPLES
      <4>3. /\ accumFilled' \in [Recording -> 0 .. 1] /\ accumFilled'[e] = accumFilled[e] + 1
            /\ \A x \in Recording : x # e => accumFilled'[x] = accumFilled[x]
        BY <1>3, <2>4, <4>1, <4>2
      <4>4. MoreMishaps /\ (r # e => "mixed" \in mishaps'[r] /\ "mixed" \in mishaps'[e])
        <5>1. FALSE \in BOOLEAN
          OBVIOUS
        <5>2. QED BY <1>1, <1>3, <4>1, <5>1, MeetFacts
      <4>5. SameLine(e)
        BY <2>5, <4>1 DEF SameLine
      <4>6. Lined(e)'
        BY <1>1, <1>3, <4>4, <4>5, LinedSame
      <4>7. InputTypes' /\ OthersKeepInput(e)
        BY <1>1, <4>1, <4>3 DEF InputTypes, OthersKeepInput, EncoderTypes
      <4>8. 2 * taken'[e] + accumFilled'[e] = 2 * taken[e] + accumFilled[e] + 1
        BY <2>4, <4>1, <4>2, <4>3
      <4>9. QED BY <4>1, <4>4, <4>6, <4>7, <4>8
    <3>3. QED BY <3>1, <3>2
  <2>7. EncoderTypes'
    BY <1>1, <1>4, <2>2, <2>3, <2>5, <2>6 DEF EncoderTypes, InputTypes, MoreMishaps
  <2>8. WorksIn(r, e)
    BY <1>2, <1>3, <1>4, <2>2, <2>3, <2>5, <2>6 DEF WorksIn, SameLine, OthersKeepInput
  <2>9. ASSUME r = e PROVE Own(r)'
    <3>1. SUFFICES ASSUME mishaps'[r] = {}
                   PROVE  Kept("draining", realtimeEncoder = r, codec[r], accumFilled'[r],
                               taken'[r], queued'[r], encoded[r], muxer[r], read'[r])
      BY <2>2, <2>5 DEF Own
    <3>2. mishaps[r] = {}
      BY <2>6, <3>1 DEF MoreMishaps
    <3>3. Kept("loop", realtimeEncoder = r, codec[r], accumFilled[r],
               taken[r], queued[r], encoded[r], muxer[r], read[r])
      BY <1>1, <1>2, <3>2 DEF Own
    <3>4. realtimeEncoder = r
      BY <1>3, <2>9
    <3>5. /\ codec[r] = "open" /\ read[r] = 2 * taken[r] + accumFilled[r]
          /\ Endless(queued[r]) /\ Endless(encoded[r])
      BY <3>3, <3>4 DEF Kept, Before
    <3>6. read'[r] = 2 * taken'[r] + accumFilled'[r] /\ Endless(queued'[r])
      BY <1>4, <2>6, <2>9, <3>1, <3>5
    <3>7. QED BY <3>5, <3>6 DEF Kept
  <2>10. Met(r)'
    BY <1>3, <2>3, <2>6, <2>8 DEF Met, WorksIn
  <2>11. QED BY <1>3, <2>6, <2>7, <2>8, <2>9, <2>10, WorkKeepsIInv
<1>7. QED BY <1>5, <1>6

\* All that is behind the codec goes to the file.
LEMMA WriteFacts ==
    ASSUME EncoderTypes, NEW e \in Recording, Lined(e), WriteOutputs(e), UNCHANGED inputVars,
           MoreMishaps
    PROVE  /\ encoded' \in [Recording -> Seq(Buffers)] /\ muxer' \in [Recording -> Seq(Buffers)]
           /\ \A x \in Recording : x # e => SameLine(x)
           /\ encoded'[e] = <<>> /\ Len(muxer'[e]) = Ahead(queued[e], presentation[e])
           /\ Lined(e)'
<1> DEFINE m == muxer[e] \o Frames(encoded[e])
<1>1. /\ queued[e] \in Seq(Buffers) /\ encoded[e] \in Seq(Buffers) /\ muxer[e] \in Seq(Buffers)
      /\ presentation[e] \in Nat /\ taken[e] \in Nat
      /\ muxer \in [Recording -> Seq(Buffers)] /\ encoded \in [Recording -> Seq(Buffers)]
  BY DEF EncoderTypes
<1>2. muxer' = [muxer EXCEPT ![e] = m] /\ encoded' = [encoded EXCEPT ![e] = <<>>]
  BY DEF WriteOutputs
<1>3. Lost(e) \in BOOLEAN /\ Lost(e)' \in BOOLEAN /\ (Lost(e) => Lost(e)')
  BY DEF Lost, MoreMishaps
<1>4. InLine(queued[e], encoded[e], muxer[e], presentation[e], taken[e], Lost(e))
  BY DEF Lined
<1>5. /\ m \in Seq(Buffers) /\ Len(m) = Ahead(queued[e], presentation[e])
      /\ InLine(queued[e], <<>>, m, presentation[e], taken[e], Lost(e))
  <2> DEFINE lost == Lost(e)
  <2>1. lost \in BOOLEAN /\ InLine(queued[e], encoded[e], muxer[e], presentation[e], taken[e], lost)
    BY <1>3, <1>4
  <2> HIDE DEF lost
  <2>2. /\ m \in Seq(Buffers) /\ Len(m) = Ahead(queued[e], presentation[e])
        /\ InLine(queued[e], <<>>, m, presentation[e], taken[e], lost)
    BY <1>1, <2>1, LineWrites
  <2>3. QED BY <2>2 DEF lost
<1> HIDE DEF m
<1>6. /\ muxer' \in [Recording -> Seq(Buffers)] /\ muxer'[e] = m
      /\ \A x \in Recording : x # e => muxer'[x] = muxer[x]
  BY <1>1, <1>2, <1>5
<1>7. /\ encoded' \in [Recording -> Seq(Buffers)] /\ encoded'[e] = <<>>
      /\ \A x \in Recording : x # e => encoded'[x] = encoded[x]
  BY <1>1, <1>2
<1>8. InLine(queued[e], <<>>, m, presentation[e], taken[e], Lost(e)')
  <2> DEFINE lost == Lost(e)
             more == Lost(e)'
  <2>1. lost \in BOOLEAN /\ more \in BOOLEAN /\ (lost => more)
        /\ InLine(queued[e], <<>>, m, presentation[e], taken[e], lost)
    BY <1>3, <1>5
  <2> HIDE DEF lost, more
  <2>2. InLine(queued[e], <<>>, m, presentation[e], taken[e], more)
    BY <1>1, <2>1, LineOutlives
  <2>3. QED BY <2>2 DEF more
<1>9. Lined(e)'
  BY <1>6, <1>7, <1>8 DEF Lined, Lost, inputVars
<1>10. QED BY <1>5, <1>6, <1>7, <1>9 DEF SameLine, inputVars

LEMMA DrainFedKeepsIInv ==
    ASSUME EncoderIInv, NEW r \in Recording, DrainFed(r)
    PROVE  EncoderIInv'
<1>1. EncoderTypes /\ \A x \in Recording : Lined(x) /\ Own(x) /\ Met(x)
  BY DEF EncoderIInv
<1>2. /\ recorder[r] = "draining"
      /\ UNCHANGED <<appVars, codec, inputVars, inside, read, mishaps>>
      /\ IF codec[inside[r]] = "open"
         THEN WriteOutputs(inside[r]) /\ At(r, "loop")
         ELSE (At(r, "loop") \/ At(r, "crashed")) /\ UNCHANGED outputVars
  BY DEF DrainFed
<1>3. PICK e \in Recording :
      /\ e = inside[r] /\ recorder[e] # "off"
      /\ r # e => "mixed" \in mishaps[r] /\ "mixed" \in mishaps[e]
  BY <1>1, <1>2 DEF Met
<1>4. MoreMishaps
  BY <1>1, <1>2, NoMishap
<1>5. PICK place \in {"loop", "crashed"} :
        At(r, place) /\ (codec[e] = "open" => place = "loop")
  BY <1>2, <1>3
<1>6. /\ recorder' \in [Recording -> Places] /\ recorder'[r] = place
      /\ \A x \in Recording : x # r => recorder'[x] = recorder[x]
  <2>1. place \in Places
    BY DEF Places
  <2>2. QED BY <1>1, <1>5, <2>1, AtFacts
<1>7. Met(r)'
  BY <1>6, MetElsewhere
<1>8. CASE codec[e] = "open"
  <2>1. WriteOutputs(e)
    BY <1>2, <1>3, <1>8
  <2>2. /\ encoded' \in [Recording -> Seq(Buffers)] /\ muxer' \in [Recording -> Seq(Buffers)]
        /\ \A x \in Recording : x # e => SameLine(x)
        /\ encoded'[e] = <<>>
        /\ Lined(e)'
    BY <1>1, <1>2, <1>3, <1>4, <2>1, WriteFacts
  <2>3. EncoderTypes'
    BY <1>1, <1>2, <1>6, <2>2 DEF EncoderTypes, appVars, inputVars
  <2>4. WorksIn(r, e)
    BY <1>2, <1>3, <1>6, <2>2 DEF WorksIn, appVars, inputVars
  <2>5. ASSUME r = e PROVE Own(r)'
    <3>1. Endless(<<>>)
      BY DEF Endless
    <3>2. place = "loop"
      BY <1>5, <1>8
    <3>3. QED BY <1>1, <1>2, <1>6, <2>2, <2>5, <3>1, <3>2
          DEF Own, Kept, Before, appVars, inputVars
  <2>6. QED BY <1>3, <1>4, <1>7, <2>2, <2>3, <2>4, <2>5, WorkKeepsIInv
<1>9. CASE codec[e] # "open"
  <2>1. UNCHANGED outputVars
    BY <1>2, <1>3, <1>9
  <2>2. EncoderTypes'
    BY <1>1, <1>2, <1>6, <2>1 DEF EncoderTypes, appVars, inputVars, outputVars
  <2>3. \A x \in Recording : SameLine(x)
    BY <1>2, <2>1 DEF SameLine, inputVars, outputVars
  <2>4. WorksIn(r, e)
    BY <1>2, <1>3, <1>6, <2>3 DEF WorksIn, appVars, inputVars
  <2>5. Lined(e)'
    BY <1>1, <1>3, <1>4, <2>3, LinedSame
  <2>6. ASSUME r = e PROVE Own(r)'
    <3>1. mishaps[r] # {}
      BY <1>1, <1>2, <1>9, <2>6 DEF Own, Kept, Before
    <3>2. QED BY <1>2, <3>1, OwnSpoilt
  <2>7. QED BY <1>3, <1>4, <1>7, <2>2, <2>4, <2>5, <2>6, WorkKeepsIInv
<1>10. QED BY <1>8, <1>9
LEMMA EndComesLast ==
    ASSUME NEW s \in Seq(Buffers), NEW x \in Buffers, Endless(s)
    PROVE  EndIsLast(Append(s, x))
<1>1. Len(s) \in Nat /\ Len(Append(s, x)) = Len(s) + 1
      /\ \A i \in 1 .. Len(s) : Append(s, x)[i] = s[i]
  BY AppendProperties, LenProperties
<1>2. ASSUME NEW i \in 1 .. Len(s) + 1, Append(s, x)[i].eos PROVE i = Len(s) + 1
  <2>1. CASE i # Len(s) + 1
    <3>1. i \in 1 .. Len(s)
      BY <1>1, <2>1
    <3>2. QED BY <1>1, <1>2, <3>1 DEF Endless
  <2>2. QED BY <2>1
<1>3. QED BY <1>1, <1>2 DEF EndIsLast

\* An empty buffer that ends the stream has the time of the frame that would follow.
LEMMA EndFacts ==
    ASSUME EncoderTypes, NEW r \in Recording, NEW e \in Recording, Lined(e), MoreMishaps,
           Lost(e)' <=> Lost(e), UNCHANGED <<accumFilled, taken, presentation, outputVars>>,
           HasInputBuffer(e),
           queued' = [queued EXCEPT ![e] =
               Append(queued[e], [frame |-> NoFrame, time |-> presentation[e], eos |-> TRUE])]
    PROVE  /\ InputTypes' /\ OthersKeepInput(e) /\ Lined(e)'
           /\ \E x \in Buffers : queued'[e] = Append(queued[e], x)
<1> DEFINE x == [frame |-> NoFrame, time |-> presentation[e], eos |-> TRUE]
<1>1. /\ taken \in [Recording -> Nat] /\ presentation \in [Recording -> Nat]
      /\ accumFilled \in [Recording -> 0 .. 1] /\ queued \in [Recording -> Seq(Buffers)]
      /\ taken[e] \in Nat /\ presentation[e] \in Nat /\ queued[e] \in Seq(Buffers)
  BY DEF EncoderTypes
<1>2. x \in Buffers /\ x.time = presentation[e] /\ x.frame = NoFrame
  BY <1>1 DEF Buffers
<1>3. queued' = [queued EXCEPT ![e] = Append(queued[e], x)]
  OBVIOUS
<1> HIDE DEF x
<1>4. After(x) = presentation[e] /\ Fits(x, Lost(e))
  BY <1>2 DEF After, Fits
<1>5. Append(queued[e], x) \in Seq(Buffers)
  BY <1>1, <1>2, AppendProperties
<1>6. /\ queued' \in [Recording -> Seq(Buffers)] /\ queued'[e] = Append(queued[e], x)
      /\ \A y \in Recording : y # e => queued'[y] = queued[y]
  BY <1>1, <1>3, <1>5
<1>7. InLine(Append(queued[e], x), encoded[e], muxer[e], presentation[e], taken[e], Lost(e))
  <2> DEFINE lost == Lost(e)
  <2>1. lost \in BOOLEAN /\ Fits(x, lost)
        /\ InLine(queued[e], encoded[e], muxer[e], presentation[e], taken[e], lost)
    BY <1>4 DEF Lined, Lost
  <2> HIDE DEF lost
  <2>2. After(x) <= taken[e] /\ (~lost => After(x) = taken[e])
    BY <1>4, <2>1 DEF InLine
  <2>3. Len(queued[e]) < InputBuffers
    BY DEF HasInputBuffer
  <2>4. InLine(Append(queued[e], x), encoded[e], muxer[e], After(x), taken[e], lost)
    BY <1>1, <1>2, <2>1, <2>2, <2>3, LineGrows
  <2>5. QED BY <1>4, <2>4 DEF lost
<1>8. Lined(e)'
  <2>1. (Lost(e))' = Lost(e)
    BY DEF Lost
  <2>2. QED BY <1>6, <1>7, <2>1 DEF Lined, outputVars
<1>9. InputTypes' /\ OthersKeepInput(e)
  BY <1>1, <1>6 DEF InputTypes, OthersKeepInput
<1>10. QED BY <1>2, <1>6, <1>8, <1>9

LEMMA ReleaseKeepsIInv ==
    ASSUME EncoderIInv, NEW r \in Recording, Release(r)
    PROVE  EncoderIInv'
<1>1. EncoderTypes /\ \A x \in Recording : Lined(x) /\ Own(x) /\ Met(x)
  BY DEF EncoderIInv
<1>2. recorder[r] = "stopping"
  BY DEF Release
<1>3. PICK e \in Recording : e = realtimeEncoder /\ recorder[e] # "off"
  BY <1>2, FieldInUse
<1>4. /\ inside' = [inside EXCEPT ![r] = e]
      /\ At(r, IF codec[e] = "open" THEN "finalizing" ELSE "done")
      /\ UNCHANGED <<appVars, codec, outputVars, read>>
  BY <1>3 DEF Release
<1>5. \/ codec[e] = "open" /\ accumFilled[e] > 0 /\ SubmitFrame(r, e, TRUE)
      \/ /\ ~(codec[e] = "open" /\ accumFilled[e] > 0)
         /\ Meet(r, e, FALSE)
         /\ queued' = IF codec[e] = "open" /\ HasInputBuffer(e)
                      THEN [queued EXCEPT ![e] = Append(queued[e],
                              [frame |-> NoFrame, time |-> presentation[e], eos |-> TRUE])]
                      ELSE queued
         /\ UNCHANGED <<accumFilled, taken, presentation>>
  BY <1>3 DEF Release
<1>6. PICK place \in {"finalizing", "done"} :
        At(r, place) /\ (place = "finalizing" <=> codec[e] = "open")
  BY <1>4
<1>7. /\ recorder' \in [Recording -> Places] /\ recorder'[r] = place
      /\ \A x \in Recording : x # r => recorder'[x] = recorder[x]
  <2>1. place \in Places
    BY DEF Places
  <2>2. QED BY <1>1, <1>6, <2>1, AtFacts
<1>8. /\ inside' \in [Recording -> 0 .. MaxRecordings] /\ inside'[r] = e
      /\ \A x \in Recording : x # r => inside'[x] = inside[x]
  BY <1>1, <1>3, <1>4, InsideFacts
<1>9. accumFilled[e] \in 0 .. 1 /\ taken[e] \in Nat /\ queued[e] \in Seq(Buffers)
      /\ UNCHANGED outputVars
  BY <1>1, <1>4 DEF EncoderTypes
<1>10. /\ InputTypes' /\ OthersKeepInput(e) /\ MoreMishaps /\ Lined(e)'
       /\ r # e => "mixed" \in mishaps'[r] /\ "mixed" \in mishaps'[e]
       /\ mishaps'[e] = {} /\ codec[e] = "open" =>
            /\ accumFilled[e] = 1 => taken'[e] = taken[e] + 1
            /\ accumFilled[e] = 0 => taken'[e] = taken[e]
            /\ Endless(queued[e]) => EndIsLast(queued'[e])
  <2>1. CASE codec[e] = "open" /\ accumFilled[e] > 0
    <3>1. SubmitFrame(r, e, TRUE)
      BY <1>5, <2>1
    <3>2. /\ InputTypes' /\ OthersKeepInput(e) /\ MoreMishaps /\ Lined(e)'
          /\ r # e => "mixed" \in mishaps'[r] /\ "mixed" \in mishaps'[e]
          /\ taken'[e] = taken[e] + 1
          /\ mishaps'[e] = {} =>
               \E x \in Buffers : x.eos = TRUE /\ queued'[e] = Append(queued[e], x)
      <4>1. TRUE \in BOOLEAN
        OBVIOUS
      <4>2. QED BY <1>1, <1>9, <3>1, <4>1, SubmitFacts
    <3>3. accumFilled[e] = 1
      BY <1>9, <2>1
    <3>4. ASSUME mishaps'[e] = {}, Endless(queued[e]) PROVE EndIsLast(queued'[e])
      BY <1>9, <3>2, <3>4, EndComesLast
    <3>5. QED BY <3>2, <3>3, <3>4
  <2>2. CASE ~(codec[e] = "open" /\ accumFilled[e] > 0)
    <3>1. Meet(r, e, FALSE) /\ UNCHANGED <<accumFilled, taken, presentation>>
      BY <1>5, <2>2
    <3>2. /\ MoreMishaps
          /\ r # e => "mixed" \in mishaps'[r] /\ "mixed" \in mishaps'[e]
          /\ Lost(e)' <=> Lost(e)
      <4>1. FALSE \in BOOLEAN
        OBVIOUS
      <4>2. QED BY <1>1, <3>1, <4>1, MeetFacts
    <3>3. codec[e] = "open" => accumFilled[e] # 1
      BY <2>2
    <3>4. CASE codec[e] = "open" /\ HasInputBuffer(e)
      <4>1. queued' = [queued EXCEPT ![e] = Append(queued[e],
                              [frame |-> NoFrame, time |-> presentation[e], eos |-> TRUE])]
        BY <1>5, <2>2, <3>4
      <4>2. UNCHANGED <<accumFilled, taken, presentation, outputVars>>
        BY <1>9, <3>1
      <4>3. /\ InputTypes' /\ OthersKeepInput(e) /\ Lined(e)'
            /\ \E x \in Buffers : queued'[e] = Append(queued[e], x)
        BY <1>1, <3>2, <3>4, <4>1, <4>2, EndFacts
      <4>4. Endless(queued[e]) => EndIsLast(queued'[e])
        BY <1>9, <4>3, EndComesLast
      <4>5. QED BY <3>1, <3>2, <3>3, <4>3, <4>4
    <3>5. CASE ~(codec[e] = "open" /\ HasInputBuffer(e))
      <4>1. queued' = queued
        BY <1>5, <2>2, <3>5
      <4>2. SameLine(e)
        BY <1>9, <3>1, <4>1 DEF SameLine, outputVars
      <4>3. Lined(e)'
        BY <1>1, <3>2, <4>2, LinedSame
      <4>4. InputTypes' /\ OthersKeepInput(e)
        BY <1>1, <3>1, <4>1 DEF InputTypes, OthersKeepInput, EncoderTypes
      <4>5. Endless(queued[e]) => EndIsLast(queued'[e])
        BY <4>1 DEF Endless, EndIsLast
      <4>6. QED BY <3>1, <3>2, <3>3, <4>3, <4>4, <4>5
    <3>6. QED BY <3>4, <3>5
  <2>3. QED BY <2>1, <2>2
<1>11. EncoderTypes'
  BY <1>1, <1>4, <1>7, <1>8, <1>10
  DEF EncoderTypes, InputTypes, MoreMishaps, appVars, outputVars
<1>12. WorksIn(r, e)
  BY <1>2, <1>3, <1>4, <1>7, <1>8, <1>10
  DEF WorksIn, SameLine, OthersKeepInput, appVars, outputVars
<1>13. ASSUME r = e PROVE Own(r)'
  <2>1. SUFFICES ASSUME mishaps'[r] = {}
                 PROVE  Kept(place, realtimeEncoder = r, codec[r], accumFilled'[r],
                             taken'[r], queued'[r], encoded[r], muxer[r], read[r])
    BY <1>4, <1>7 DEF Own, appVars, outputVars
  <2>2. mishaps[r] = {}
    BY <1>10, <2>1 DEF MoreMishaps
  <2>3. Kept("stopping", realtimeEncoder = r, codec[r], accumFilled[r],
             taken[r], queued[r], encoded[r], muxer[r], read[r])
    BY <1>1, <1>2, <2>2 DEF Own
  <2>4. /\ codec[r] = "open" /\ read[r] = 2 * taken[r] + accumFilled[r]
        /\ Endless(queued[r]) /\ Endless(encoded[r])
    BY <1>3, <1>13, <2>3 DEF Kept, Before
  <2>5. place = "finalizing"
    BY <1>6, <1>13, <2>4
  <2>6. EndIsLast(queued'[r]) /\ EndIsLast(encoded[r])
    <3>1. EndIsLast(encoded[r])
      BY <2>4 DEF Endless, EndIsLast
    <3>2. QED BY <1>10, <1>13, <2>1, <2>4, <3>1
  <2>7. read[r] <= 2 * taken'[r] /\ 2 * taken'[r] <= read[r] + 1
    <3>1. accumFilled[r] = 0 \/ accumFilled[r] = 1
      BY <1>9, <1>13
    <3>2. taken'[r] = taken[r] + accumFilled[r]
      BY <1>9, <1>10, <1>13, <2>1, <2>4, <3>1
    <3>3. QED BY <1>9, <1>13, <2>4, <3>1, <3>2
  <2>8. QED BY <2>4, <2>5, <2>6, <2>7 DEF Kept, Before
<1>14. Met(r)'
  BY <1>3, <1>8, <1>10, <1>12 DEF Met, WorksIn
<1>15. QED BY <1>10, <1>11, <1>12, <1>13, <1>14, WorkKeepsIInv

LEMMA FinalizeKeepsIInv ==
    ASSUME EncoderIInv, NEW r \in Recording, Finalize(r)
    PROVE  EncoderIInv'
<1>1. EncoderTypes /\ \A x \in Recording : Lined(x) /\ Own(x) /\ Met(x)
  BY DEF EncoderIInv
<1>2. /\ recorder[r] = "finalizing" /\ UNCHANGED <<appVars, inputVars, inside, read>>
  BY DEF Finalize
<1>3. PICK e \in Recording :
      /\ e = inside[r] /\ recorder[e] # "off"
      /\ r # e => "mixed" \in mishaps[r] /\ "mixed" \in mishaps[e]
  BY <1>1, <1>2 DEF Met
<1>4. \/ codec[e] # "open" /\ At(r, "done") /\ UNCHANGED <<codec, outputVars, mishaps>>
      \/ codec[e] = "open" /\ WriteOutputs(e)
         /\ Ended(encoded[e]) /\ Close(r, e) /\ UNCHANGED mishaps
      \/ codec[e] = "open" /\ WriteOutputs(e) /\ Close(r, e) /\ Mishap(e, "late")
      \/ codec[e] = "open" /\ WriteOutputs(e) /\ UNCHANGED <<codec, mishaps, recorder>>
  BY <1>3 DEF Finalize
<1>5. ASSUME At(r, "done")
      PROVE  /\ recorder' \in [Recording -> Places] /\ recorder'[r] = "done"
             /\ \A x \in Recording : x # r => recorder'[x] = recorder[x]
  <2>1. "done" \in Places
    BY DEF Places
  <2>2. QED BY <1>1, <1>5, <2>1, AtFacts
<1>6. CASE codec[e] # "open" /\ At(r, "done") /\ UNCHANGED <<codec, outputVars, mishaps>>
  <2>1. EncoderTypes'
    BY <1>1, <1>2, <1>5, <1>6 DEF EncoderTypes, appVars, inputVars, outputVars
  <2>2. MoreMishaps
    BY <1>1, <1>6, NoMishap
  <2>3. \A x \in Recording : SameLine(x)
    BY <1>2, <1>6 DEF SameLine, inputVars, outputVars
  <2>4. WorksIn(r, e)
    BY <1>2, <1>3, <1>5, <1>6, <2>3 DEF WorksIn, appVars, inputVars
  <2>5. Lined(e)'
    BY <1>1, <2>2, <2>3, LinedSame
  <2>6. ASSUME r = e PROVE Own(r)'
    <3>1. mishaps[r] # {}
      BY <1>1, <1>2, <1>6, <2>6 DEF Own, Kept
    <3>2. QED BY <1>6, <3>1, OwnSpoilt
  <2>7. Met(r)'
    BY <1>5, <1>6, MetElsewhere
  <2>8. QED BY <2>1, <2>2, <2>4, <2>5, <2>6, <2>7, WorkKeepsIInv
<1>7. CASE codec[e] = "open" /\ WriteOutputs(e) /\ Close(r, e)
           /\ ((Ended(encoded[e]) /\ UNCHANGED mishaps) \/ Mishap(e, "late"))
  <2>1. MoreMishaps /\ ((Ended(encoded[e]) /\ UNCHANGED mishaps) \/ mishaps'[e] # {})
    <3>1. "late" \in Mishaps
      BY DEF Mishaps
    <3>2. QED BY <1>1, <1>7, <3>1, NoMishap, MishapFacts
  <2>2. /\ encoded' \in [Recording -> Seq(Buffers)] /\ muxer' \in [Recording -> Seq(Buffers)]
        /\ \A x \in Recording : x # e => SameLine(x)
        /\ encoded'[e] = <<>> /\ Len(muxer'[e]) = Ahead(queued[e], presentation[e])
        /\ Lined(e)'
    BY <1>1, <1>2, <1>7, <2>1, WriteFacts
  <2>3. At(r, "done") /\ codec' = [codec EXCEPT ![e] = "closed"]
    BY <1>7 DEF Close
  <2>4. /\ codec' \in [Recording -> {"none", "open", "closed"}] /\ codec'[e] = "closed"
        /\ \A x \in Recording : x # e => codec'[x] = codec[x]
    <3>1. codec \in [Recording -> {"none", "open", "closed"}]
      BY <1>1 DEF EncoderTypes
    <3>2. QED BY <2>3, <3>1
  <2>5. /\ recorder' \in [Recording -> Places] /\ recorder'[r] = "done"
        /\ \A x \in Recording : x # r => recorder'[x] = recorder[x]
    BY <1>5, <2>3
  <2>6. EncoderTypes'
    BY <1>1, <1>2, <2>1, <2>2, <2>4, <2>5 DEF EncoderTypes, MoreMishaps, appVars, inputVars
  <2>7. WorksIn(r, e)
    BY <1>2, <1>3, <2>1, <2>2, <2>4, <2>5 DEF WorksIn, MoreMishaps, appVars, inputVars
  <2>8. ASSUME r = e PROVE Own(r)'
    <3>1. SUFFICES ASSUME mishaps'[r] = {}
                   PROVE  read[r] <= 2 * Len(muxer'[r]) /\ 2 * Len(muxer'[r]) <= read[r] + 1
      BY <1>2, <2>4, <2>5, <2>8 DEF Own, Kept, Before
    <3>2. mishaps[r] = {} /\ Ended(encoded[r])
      BY <2>1, <2>8, <3>1 DEF MoreMishaps
    <3>3. Kept("finalizing", realtimeEncoder = r, codec[r], accumFilled[r],
               taken[r], queued[r], encoded[r], muxer[r], read[r])
      BY <1>1, <1>2, <3>2 DEF Own
    <3>4. ~Endless(encoded[r])
      <4>1. encoded[r] \in Seq(Buffers)
        BY <1>1 DEF EncoderTypes
      <4>2. DOMAIN encoded[r] = 1 .. Len(encoded[r])
        BY <4>1, LenProperties
      <4>3. QED BY <3>2, <4>2 DEF Ended, Endless
    <3>5. queued[r] = <<>> /\ read[r] <= 2 * taken[r] /\ 2 * taken[r] <= read[r] + 1
      BY <3>3, <3>4 DEF Kept
    <3>6. Len(muxer'[r]) = presentation[r]
      BY <2>2, <2>8, <3>5 DEF Ahead
    <3>7. presentation[r] = taken[r]
      <4>1. ~Lost(r) /\ Lined(r)
        BY <1>1, <3>2 DEF Lost
      <4>2. QED BY <4>1 DEF Lined, InLine
    <3>8. QED BY <3>5, <3>6, <3>7
  <2>9. Met(r)'
    BY <2>5, MetElsewhere
  <2>10. QED BY <2>1, <2>2, <2>6, <2>7, <2>8, <2>9, WorkKeepsIInv
<1>8. CASE codec[e] = "open" /\ WriteOutputs(e) /\ UNCHANGED <<codec, mishaps, recorder>>
  <2>1. MoreMishaps
    BY <1>1, <1>8, NoMishap
  <2>2. /\ encoded' \in [Recording -> Seq(Buffers)] /\ muxer' \in [Recording -> Seq(Buffers)]
        /\ \A x \in Recording : x # e => SameLine(x)
        /\ encoded'[e] = <<>>
        /\ Lined(e)'
    BY <1>1, <1>2, <1>8, <2>1, WriteFacts
  <2>3. EncoderTypes'
    BY <1>1, <1>2, <1>8, <2>2 DEF EncoderTypes, appVars, inputVars
  <2>4. WorksIn(r, e)
    BY <1>2, <1>3, <1>8, <2>2 DEF WorksIn, appVars, inputVars
  <2>5. ASSUME r = e PROVE Own(r)'
    <3>1. SUFFICES ASSUME mishaps[r] = {}
                   PROVE  Kept("finalizing", realtimeEncoder = r, codec[r], accumFilled[r],
                               taken[r], queued[r], <<>>, muxer'[r], read[r])
      BY <1>2, <1>8, <2>2, <2>5 DEF Own, appVars, inputVars
    <3>2. Kept("finalizing", realtimeEncoder = r, codec[r], accumFilled[r],
               taken[r], queued[r], encoded[r], muxer[r], read[r])
      BY <1>1, <1>2, <3>1 DEF Own
    <3>3. Endless(<<>>) /\ EndIsLast(<<>>)
      BY DEF Endless, EndIsLast
    <3>4. QED BY <3>2, <3>3 DEF Kept
  <2>6. Met(r)'
    BY <1>1, <1>2, <1>8, <2>1, MetSame
  <2>7. QED BY <2>1, <2>2, <2>3, <2>4, <2>5, <2>6, WorkKeepsIInv
<1>9. QED BY <1>4, <1>6, <1>7, <1>8

LEMMA NextKeepsEncoderIInv == EncoderIInv /\ [Next]_vars => EncoderIInv'
<1> SUFFICES ASSUME EncoderIInv, [Next]_vars PROVE EncoderIInv'
  OBVIOUS
<1>1. CASE PressRecord
  BY <1>1, PressRecordKeepsIInv
<1>2. CASE PressStop
  BY <1>2, QuietKeepsEncoderIInv DEF PressStop
<1>3. CASE EnableButton
  BY <1>3, QuietKeepsEncoderIInv DEF EnableButton
<1>4. ASSUME NEW e \in Recording, Encode(e) PROVE EncoderIInv'
  BY <1>4, EncodeKeepsIInv
<1>5. ASSUME NEW r \in Recording, RecorderThread(r) PROVE EncoderIInv'
  <2>1. CASE InitRecorder(r) \/ InitRecorderFailed(r) \/ StartRecording(r)
    BY <2>1, RecorderStartKeepsIInv
  <2>2. CASE LeaveLoop(r) \/ ReleaseRecord(r)
    BY <2>2, LeaveKeepsIInv
  <2>3. CASE Feed(r) \/ DrainFed(r) \/ Release(r) \/ Finalize(r)
    BY <2>3, FeedKeepsIInv, DrainFedKeepsIInv, ReleaseKeepsIInv, FinalizeKeepsIInv
  <2>4. QED BY <1>5, <2>1, <2>2, <2>3 DEF RecorderThread
<1>6. CASE UNCHANGED vars
  BY <1>6, QuietKeepsEncoderIInv DEF vars, appVars
<1>7. QED BY <1>1, <1>2, <1>3, <1>4, <1>5, <1>6 DEF Next

LEMMA FileIsRight == EncoderIInv => FileIsTheRecording
<1> SUFFICES ASSUME EncoderIInv PROVE FileIsTheRecording
  OBVIOUS
<1>1. EncoderTypes /\ \A x \in Recording : Lined(x) /\ Own(x)
  BY DEF EncoderIInv
<1>2. ASSUME NEW e \in Recording
      PROVE  /\ Len(queued[e]) <= InputBuffers /\ presentation[e] <= taken[e]
             /\ \A k \in DOMAIN muxer[e] :
                  /\ muxer[e][k].time = k - 1
                  /\ muxer[e][k].frame >= k - 1
                  /\ "dropped" \notin mishaps[e] => muxer[e][k].frame = k - 1
  <2>1. InLine(queued[e], encoded[e], muxer[e], presentation[e], taken[e], Lost(e))
    BY <1>1 DEF Lined
  <2>2. DOMAIN muxer[e] = 1 .. Len(muxer[e])
    <3>1. muxer[e] \in Seq(Buffers)
      BY <1>1 DEF EncoderTypes
    <3>2. QED BY <3>1, LenProperties
  <2>3. \A k \in 1 .. Len(muxer[e]) :
          muxer[e][k].frame # NoFrame /\ muxer[e][k].time = k - 1 /\ Fits(muxer[e][k], Lost(e))
    BY <2>1 DEF InLine, InFile
  <2>4. QED BY <2>1, <2>2, <2>3 DEF InLine, Fits, Lost
<1>3. ASSUME NEW r \in Recording, recorder[r] = "done", mishaps[r] = {}
      PROVE  codec[r] = "closed" /\ FRAME_SAMPLES * Len(muxer[r]) \in read[r] .. read[r] + 1
  <2>1. Kept("done", realtimeEncoder = r, codec[r], accumFilled[r],
             taken[r], queued[r], encoded[r], muxer[r], read[r])
    BY <1>1, <1>3 DEF Own
  <2>2. codec[r] = "closed" /\ read[r] <= 2 * Len(muxer[r]) /\ 2 * Len(muxer[r]) <= read[r] + 1
    BY <2>1 DEF Kept
  <2>3. read[r] \in Nat /\ Len(muxer[r]) \in Nat
    <3>1. muxer[r] \in Seq(Buffers) /\ read[r] \in Nat
      BY <1>1 DEF EncoderTypes
    <3>2. QED BY <3>1, LenProperties
  <2>4. QED BY <2>2, <2>3 DEF FRAME_SAMPLES
<1>4. TypeOK
  BY <1>1, <1>2 DEF TypeOK, EncoderTypes, FRAME_SAMPLES
<1>5. QED BY <1>2, <1>3, <1>4 DEF FileIsTheRecording, PositionsAreRecordingTimes,
                                  FinishedFileIsComplete
--------------------------------------------------------------------------------
(***************************************************************************)
(* A file made of another.  While the loop runs the pieces in the codec    *)
(* are the next of the recording (InCodec), and the file is the recording  *)
(* up to the first of them (FileUpTo, for each kind of file): that is what *)
(* makes it whole at the end, however input and output alternated.         *)
(***************************************************************************)
Pieces == [first : Nat, size : Nat, time : Nat, eos : BOOLEAN]
Written == [first : Nat, size : Nat, time : Nat]
Routines == {"compressToAac", "convertPcmToM4a", "decodeOpusToPcm", "decodeOggEnergyBars"}

TranscodingTypes ==
    /\ routine \in Routines
    /\ total \in Nat /\ position \in Nat /\ position <= total
    /\ presentationUs \in Nat
    /\ pending \in Seq(Pieces)
    /\ inputDone \in BOOLEAN /\ pcmFile \in BOOLEAN
    /\ transcoder \in Places2

\* How many of the first n samples are wanted, and whether the n-th begins a step.
Wanted(n) == (n + Decimation - 1) \div Decimation
Even(n) == Wanted(n) * Decimation = n

\* The pieces go from a to b.
Adjoin(s, a, b) ==
    /\ s = <<>> => a = b
    /\ s # <<>> => s[1].first = a /\ s[Len(s)].first + s[Len(s)].size = b
    /\ \A i \in 1 .. Len(s) - 1 : s[i + 1].first = s[i].first + s[i].size

Delivered == IF pending = <<>> THEN position ELSE pending[1].first

GoodPiece(x) ==
    /\ Compressing => x.time = x.first
    /\ ~Compressing /\ x.size > 0 => Even(x.first)
    /\ x.eos => x.size = 0 /\ inputDone

InCodec ==
    /\ Adjoin(pending, Delivered, position)
    /\ \A i \in 1 .. Len(pending) : /\ GoodPiece(pending[i])
                                    /\ pending[i].first + pending[i].size <= position
                                    /\ pending[i].eos => i = Len(pending)
    /\ inputDone => position = total
    /\ ~Compressing /\ position < total => Even(position)
    /\ Compressing => presentationUs = position

PiecesUpTo(n) ==
    /\ file \in Seq(Written) /\ SoFar(Len(file)) = n
    /\ \A k \in 1 .. Len(file) : file[k].first = SoFar(k - 1) /\ file[k].time = SoFar(k - 1)

\* The samples that are wanted, from the first, and the bars they make.
Samples == [i \in Nat |-> (i - 1) * Decimation]
BarsOfSamples ==
    [k \in Nat |-> [i \in 1 .. samplesPerBar |-> ((k - 1) * samplesPerBar + i - 1) * Decimation]]

\* s is what comes after the first a of w.
Follows(s, w, a) == \A i \in 1 .. Len(s) : s[i] = w[a + i]

SamplesUpTo(n) == file \in Seq(Nat) /\ Len(file) = Wanted(n) /\ Follows(file, Samples, 0)

BarsUpTo(n) ==
    /\ file \in Seq([1 .. samplesPerBar -> Nat]) /\ Len(file) < barCount
    /\ Follows(file, BarsOfSamples, 0)
    /\ bar \in Seq(Nat) /\ Len(bar) < samplesPerBar
    /\ Len(file) * samplesPerBar + Len(bar) = Wanted(n)
    /\ Follows(bar, Samples, Len(file) * samplesPerBar)

FileUpTo(n) ==
    /\ Compressing => PiecesUpTo(n)
    /\ routine = "decodeOpusToPcm" => SamplesUpTo(n)
    /\ routine = "decodeOggEnergyBars" => BarsUpTo(n)

BarsFull ==
    /\ file \in Seq([1 .. samplesPerBar -> Nat]) /\ Len(file) = barCount
    /\ Follows(file, BarsOfSamples, 0)
    /\ Len(file) * samplesPerBar <= Wanted(total)

FileIsDelivered == \E n \in 0 .. total : n = Delivered /\ FileUpTo(n)
FileIsBegun == \E n \in 0 .. total : FileUpTo(n)
FileIsWhole ==
    \/ \E n \in 0 .. total : n = total /\ FileUpTo(n)
    \/ routine = "decodeOggEnergyBars" /\ BarsFull

TranscodingIInv ==
    /\ TranscodingTypes
    /\ transcoder \in {"input", "output"} => InCodec /\ FileIsDelivered
    /\ transcoder \in {"done", "closing", "true"} => FileIsWhole
    /\ transcoder \in {"failed", "false"} => FileIsBegun
    /\ ~pcmFile => transcoder \in {"closing", "true"} /\ routine = "compressToAac"

(***************************************************************************)
(* Samples that are wanted.                                                *)
(***************************************************************************)
LEMMA QuotientFacts ==
    ASSUME NEW a \in Nat, NEW m \in Nat \ {0}
    PROVE  a \div m \in Nat /\ (a \div m) * m \in Nat
           /\ (a \div m) * m <= a /\ a < (a \div m) * m + m
BY Z3

LEMMA TimesFacts ==
    ASSUME NEW x \in Int, NEW y \in Int, NEW m \in Nat, x <= y
    PROVE  x * m \in Int /\ y * m \in Int /\ x * m <= y * m
<1>1. x * m \in Int /\ y * m \in Int /\ (y - x) * m = y * m - x * m
  BY Z3
<1>2. (y - x) * m >= 0
  <2>1. y - x \in Nat
    OBVIOUS
  <2>2. QED BY <2>1, Z3
<1>3. QED BY <1>1, <1>2

LEMMA TimesMore ==
    ASSUME NEW x \in Int, NEW y \in Int, NEW m \in Int
    PROVE  x * m \in Int /\ y * m \in Int /\ (x + y) * m = x * m + y * m
BY Z3

LEMMA TimesOne ==
    ASSUME NEW x \in Int, NEW m \in Int
    PROVE  x * m \in Int /\ (x + 1) * m = x * m + m /\ 0 * m = 0
BY Z3

LEMMA TimesFewer ==
    ASSUME NEW x \in Int, NEW y \in Int, NEW m \in Nat \ {0}, x * m < y * m + m
    PROVE  x <= y
<1> SUFFICES ASSUME y + 1 <= x PROVE FALSE
  OBVIOUS
<1>1. (y + 1) * m <= x * m
  BY TimesFacts
<1>2. (y + 1) * m = y * m + m /\ y * m \in Int /\ x * m \in Int
  BY TimesOne
<1> QED BY <1>1, <1>2

LEMMA Constants ==
    /\ FRAME \in Nat /\ FRAME > 0 /\ PACKET \in Nat /\ PACKET > 0
    /\ Decimation \in Nat /\ Decimation > 0 /\ Decimation \in Nat \ {0} /\ Decimation \in Int
    /\ MAX_BARS \in Nat \ {0} /\ MinSamplesPerBar \in Nat \ {0}
BY TranscodingAssumption

LEMMA WantedFacts ==
    ASSUME NEW n \in Nat
    PROVE  /\ Wanted(n) \in Nat /\ Wanted(n) * Decimation \in Nat
           /\ n <= Wanted(n) * Decimation /\ Wanted(n) * Decimation < n + Decimation
<1>1. n + Decimation - 1 \in Nat /\ Decimation \in Nat \ {0}
  BY Constants
<1>2. /\ Wanted(n) \in Nat /\ Wanted(n) * Decimation \in Nat
      /\ Wanted(n) * Decimation <= n + Decimation - 1
      /\ n + Decimation - 1 < Wanted(n) * Decimation + Decimation
  BY <1>1, QuotientFacts DEF Wanted
<1>3. QED BY <1>2, Constants

LEMMA WantedIs ==
    ASSUME NEW n \in Nat, NEW w \in Nat, n <= w * Decimation, w * Decimation < n + Decimation
    PROVE  Wanted(n) = w
<1> DEFINE v == Wanted(n)
<1>1. v \in Nat /\ n <= v * Decimation /\ v * Decimation < n + Decimation /\ v * Decimation \in Nat
  BY WantedFacts
<1> HIDE DEF v
<1>2. w * Decimation \in Nat
  BY Constants, TimesOne, n <= w * Decimation
<1>3. v * Decimation < w * Decimation + Decimation /\ w * Decimation < v * Decimation + Decimation
  BY <1>1, <1>2, Constants
<1>4. v <= w /\ w <= v
  BY <1>1, <1>3, Constants, TimesFewer
<1>5. QED BY <1>1, <1>4 DEF v

LEMMA WantedNone == Wanted(0) = 0 /\ Even(0)
<1>1. 0 \in Nat /\ 0 * Decimation = 0
  BY Constants, TimesOne
<1>2. Wanted(0) = 0
  BY <1>1, Constants, WantedIs
<1>3. QED BY <1>1, <1>2 DEF Even

LEMMA WantedMore ==
    ASSUME NEW a \in Nat, Even(a), NEW s \in Nat
    PROVE  Wanted(a + s) = Wanted(a) + Wanted(s)
<1>1. Wanted(a) \in Nat /\ Wanted(a) * Decimation = a
  BY WantedFacts DEF Even
<1>2. /\ Wanted(s) \in Nat /\ Wanted(s) * Decimation \in Nat
      /\ s <= Wanted(s) * Decimation /\ Wanted(s) * Decimation < s + Decimation
  BY WantedFacts
<1> DEFINE x == Wanted(a)
           y == Wanted(s)
<1> HIDE DEF x, y
<1>3. (x + y) * Decimation = x * Decimation + y * Decimation
  BY <1>1, <1>2, Constants, TimesMore DEF x, y
<1>4. a + s \in Nat /\ x + y \in Nat
  BY <1>1, <1>2 DEF x, y
<1>5. a + s <= (x + y) * Decimation /\ (x + y) * Decimation < a + s + Decimation
  BY <1>1, <1>2, <1>3, Constants DEF x, y
<1>6. Wanted(a + s) = x + y
  BY <1>4, <1>5, WantedIs
<1>7. QED BY <1>6 DEF x, y

LEMMA WantedGrows ==
    ASSUME NEW a \in Nat, NEW b \in Nat, a <= b
    PROVE  Wanted(a) <= Wanted(b)
<1> DEFINE x == Wanted(a)
           y == Wanted(b)
<1>1. x \in Nat /\ x * Decimation < a + Decimation /\ x * Decimation \in Nat
      /\ y \in Nat /\ b <= y * Decimation /\ y * Decimation \in Nat
  BY WantedFacts
<1> HIDE DEF x, y
<1>2. x * Decimation < y * Decimation + Decimation
  BY <1>1, Constants
<1>3. x <= y
  BY <1>1, <1>2, Constants, TimesFewer
<1>4. QED BY <1>3 DEF x, y

\* A whole packet goes from an even place to an even place.
LEMMA EvenPacket ==
    ASSUME NEW a \in Nat, Even(a)
    PROVE  Even(a + PACKET)
<1> DEFINE p == PACKET \div Decimation
<1>1. p \in Nat /\ p * Decimation = PACKET
  <2>1. PACKET \in Nat /\ Decimation \in Nat \ {0} /\ PACKET % Decimation = 0
    BY TranscodingAssumption
  <2>2. QED BY <2>1, Z3
<1> HIDE DEF p
<1> DEFINE x == Wanted(a)
<1>2. x \in Nat /\ x * Decimation = a
  BY WantedFacts DEF Even
<1> HIDE DEF x
<1>3. (x + p) * Decimation = a + PACKET /\ x + p \in Nat
  BY <1>1, <1>2, Constants, TimesMore
<1>4. a + PACKET \in Nat /\ a + PACKET < a + PACKET + Decimation
  BY Constants
<1>5. Wanted(a + PACKET) = x + p
  BY <1>3, <1>4, WantedIs
<1>6. QED BY <1>3, <1>5 DEF Even

LEMMA FollowsFirst ==
    ASSUME NEW s, NEW w, Follows(s, w, 0)
    PROVE  \A i \in 1 .. Len(s) : s[i] = w[i]
<1>1. \A i \in 1 .. Len(s) : 0 + i = i
  OBVIOUS
<1>2. QED BY <1>1 DEF Follows

LEMMA BarFacts ==
    ASSUME NEW k \in Nat
    PROVE  BarsOfSamples[k] =
               [i \in 1 .. samplesPerBar |-> ((k - 1) * samplesPerBar + i - 1) * Decimation]
BY DEF BarsOfSamples

LEMMA SamplesFacts ==
    ASSUME NEW i \in Nat \ {0}
    PROVE  Samples[i] = (i - 1) * Decimation /\ Samples[i] \in Nat
<1>1. i - 1 \in Nat
  OBVIOUS
<1>2. PICK j \in Nat : j = i - 1
  BY <1>1
<1>3. 0 * Decimation <= j * Decimation /\ 0 * Decimation = 0 /\ j * Decimation \in Int
  BY Constants, TimesFacts, TimesOne
<1>4. j * Decimation \in Nat
  BY <1>3
<1>5. Samples[i] = (i - 1) * Decimation
  BY DEF Samples
<1>6. QED BY <1>2, <1>4, <1>5

\* One that goes on where another ends.
LEMMA FollowsOn ==
    ASSUME NEW S, NEW r \in Seq(S), NEW t \in Seq(S), NEW w, NEW a \in Nat,
           Follows(r, w, a), Follows(t, w, a + Len(r))
    PROVE  r \o t \in Seq(S) /\ Len(r \o t) = Len(r) + Len(t) /\ Follows(r \o t, w, a)
<1>1. Len(r) \in Nat /\ Len(t) \in Nat
  BY LenProperties
<1>2. /\ r \o t \in Seq(S) /\ Len(r \o t) = Len(r) + Len(t)
      /\ \A i \in 1 .. Len(r) + Len(t) :
            (r \o t)[i] = IF i <= Len(r) THEN r[i] ELSE t[i - Len(r)]
  BY ConcatProperties
<1>3. ASSUME NEW i \in 1 .. Len(r) + Len(t)
      PROVE  (r \o t)[i] = w[a + i]
  <2>1. CASE i <= Len(r)
    <3>1. i \in 1 .. Len(r)
      BY <1>1, <2>1
    <3>2. QED BY <1>2, <2>1, <3>1 DEF Follows
  <2>2. CASE i > Len(r)
    <3>1. i - Len(r) \in 1 .. Len(t) /\ (a + Len(r)) + (i - Len(r)) = a + i
      BY <1>1, <2>2
    <3>2. t[i - Len(r)] = w[(a + Len(r)) + (i - Len(r))]
      BY <3>1 DEF Follows
    <3>3. (r \o t)[i] = t[i - Len(r)]
      BY <1>1, <1>2, <2>2
    <3>4. QED BY <3>1, <3>2, <3>3
  <2>3. QED BY <1>1, <2>1, <2>2
<1>4. QED BY <1>2, <1>3 DEF Follows

\* A part of one.
LEMMA FollowsCut ==
    ASSUME NEW S, NEW s \in Seq(S), NEW w, NEW a \in Nat, Follows(s, w, a),
           NEW p \in Nat, NEW r \in Nat, p + r <= Len(s)
    PROVE  /\ SubSeq(s, p + 1, p + r) \in Seq(S) /\ Len(SubSeq(s, p + 1, p + r)) = r
           /\ Follows(SubSeq(s, p + 1, p + r), w, a + p)
<1>1. PICK u : u = SubSeq(s, p + 1, p + r)
  OBVIOUS
<1>2. \A i \in 1 .. Len(s) : s[i] \in S
  BY ElementOfSeq
<1>3. Len(s) \in Nat
  BY LenProperties
<1>4. \A i \in p + 1 .. p + r : s[i] \in S
  BY <1>2, <1>3
<1>5. p + 1 \in Int /\ p + r \in Int /\ (p + r) - (p + 1) + 1 = r /\ (p + 1 <= p + r \/ r = 0)
  OBVIOUS
<1>6. /\ u \in Seq(S)
      /\ Len(u) = IF p + 1 <= p + r THEN (p + r) - (p + 1) + 1 ELSE 0
      /\ \A i \in 1 .. (p + r) - (p + 1) + 1 : u[i] = s[(p + 1) + i - 1]
  BY <1>1, <1>4, <1>5, SubSeqProperties
<1>7. Len(u) = r
  BY <1>5, <1>6
<1>8. ASSUME NEW i \in 1 .. r
      PROVE  u[i] = w[(a + p) + i]
  <2>1. (p + 1) + i - 1 = p + i /\ p + i \in 1 .. Len(s) /\ a + (p + i) = (a + p) + i
    BY <1>3
  <2>2. u[i] = s[p + i]
    BY <1>5, <1>6, <2>1
  <2>3. s[p + i] = w[a + (p + i)]
    BY <2>1 DEF Follows
  <2>4. QED BY <2>1, <2>2, <2>3
<1>9. QED BY <1>1, <1>6, <1>7, <1>8 DEF Follows

\* The samples that are kept of a piece.
LEMMA DecimatedFacts ==
    ASSUME NEW x \in Pieces, x.size > 0 => Even(x.first)
    PROVE  /\ Decimated(x) \in Seq(Nat) /\ Len(Decimated(x)) = Wanted(x.size)
           /\ Follows(Decimated(x), Samples, Wanted(x.first))
           /\ Wanted(x.first + x.size) = Wanted(x.first) + Wanted(x.size)
<1> DEFINE n == Wanted(x.size)
           a == Wanted(x.first)
           d == [k \in 1 .. n |-> x.first + (k - 1) * Decimation]
<1>1. x.first \in Nat /\ x.size \in Nat
  BY DEF Pieces
<1>2. n \in Nat /\ a \in Nat
  BY <1>1, WantedFacts
<1>3. Decimated(x) = d
  BY DEF Decimated, Wanted
<1>4. x.size = 0 => n = 0
  BY <1>1, WantedNone
<1>5. ASSUME NEW k \in 1 .. n
      PROVE  d[k] \in Nat /\ d[k] = Samples[a + k]
  <2>1. n # 0 /\ x.size > 0
    BY <1>1, <1>2, <1>4, <1>5
  <2>2. a * Decimation = x.first
    BY <2>1 DEF Even
  <2> HIDE DEF n, a
  <2>3. (a + (k - 1)) * Decimation = a * Decimation + (k - 1) * Decimation
    BY <1>2, Constants, TimesMore
  <2>4. a + k \in Nat \ {0} /\ (a + k) - 1 = a + (k - 1)
    BY <1>2
  <2>5. Samples[a + k] = ((a + k) - 1) * Decimation /\ Samples[a + k] \in Nat
    BY <2>4, SamplesFacts
  <2>6. d[k] = x.first + (k - 1) * Decimation
    OBVIOUS
  <2> HIDE DEF d
  <2>7. QED BY <2>2, <2>3, <2>4, <2>5, <2>6
<1>6. Wanted(x.first + x.size) = a + n
  <2>1. CASE x.size = 0
    BY <1>1, <1>2, <1>4, <2>1
  <2>2. CASE x.size # 0
    BY <1>1, <2>2, WantedMore
  <2>3. QED BY <2>1, <2>2
<1> HIDE DEF n, a
<1>7. d \in Seq(Nat) /\ Len(d) = n
  <2>1. \A k \in 1 .. n : d[k] \in Nat
    BY <1>5
  <2>2. d \in [1 .. n -> Nat]
    BY <2>1
  <2>3. QED BY <1>2, <2>2, SeqDef, LenProperties
<1>8. Follows(d, Samples, a)
  BY <1>5, <1>7 DEF Follows
<1>9. QED BY <1>3, <1>6, <1>7, <1>8 DEF n, a

(***************************************************************************)
(* What the file needs of the variables.                                   *)
(***************************************************************************)
LEMMA FileSame ==
    ASSUME UNCHANGED <<file, bar, routine, total>>, NEW n
    PROVE  FileUpTo(n) => FileUpTo(n)'
<1>1. /\ Compressing' = Compressing /\ (\A k : SoFar(k)' = SoFar(k))
      /\ samplesPerBar' = samplesPerBar /\ barCount' = barCount
  BY DEF Compressing, SoFar, samplesPerBar, barCount
<1>2. PiecesUpTo(n) => PiecesUpTo(n)'
  BY <1>1 DEF PiecesUpTo
<1>3. SamplesUpTo(n) => SamplesUpTo(n)'
  BY DEF SamplesUpTo, Wanted, Follows, Samples
<1>4. BarsUpTo(n) => BarsUpTo(n)'
  <2>1. BarsOfSamples' = BarsOfSamples
    BY <1>1 DEF BarsOfSamples
  <2>2. Samples' = Samples
    BY DEF Samples
  <2>3. QED BY <1>1, <2>1, <2>2 DEF BarsUpTo, Wanted, Follows
<1>5. QED BY <1>1, <1>2, <1>3, <1>4 DEF FileUpTo

LEMMA BarNumbers ==
    ASSUME TranscodingTypes
    PROVE  samplesPerBar \in Nat \ {0} /\ barCount \in Nat \ {0}
<1>1. total \in Nat /\ Decimation \in Nat \ {0} /\ MAX_BARS \in Nat \ {0}
      /\ MinSamplesPerBar \in Nat \ {0}
  BY Constants DEF TranscodingTypes
<1>2. total \div Decimation \in Nat
  BY <1>1, QuotientFacts
<1>3. (total \div Decimation) \div MAX_BARS \in Nat
  BY <1>1, <1>2, QuotientFacts
<1>4. samplesPerBar \in Nat \ {0}
  BY <1>1, <1>3 DEF samplesPerBar
<1>5. (total \div Decimation) \div samplesPerBar \in Nat
  BY <1>2, <1>4, QuotientFacts
<1>6. QED BY <1>4, <1>5 DEF barCount

\* The file up to any place is in place.
LEMMA UpToIsInPlace ==
    ASSUME TranscodingTypes, NEW n \in Nat, FileUpTo(n)
    PROVE  WrittenInPlace
<1>1. CASE Compressing
  <2>1. DOMAIN file = 1 .. Len(file)
    BY <1>1, LenProperties DEF FileUpTo, PiecesUpTo
  <2>2. \A k \in 1 .. Len(file) : file[k].first = SoFar(k - 1) /\ file[k].time = SoFar(k - 1)
    BY <1>1 DEF FileUpTo, PiecesUpTo
  <2>3. QED BY <1>1, <2>1, <2>2 DEF WrittenInPlace, Compressing
<1>2. CASE routine = "decodeOpusToPcm"
  <2>1. DOMAIN file = 1 .. Len(file)
    BY <1>2, LenProperties DEF FileUpTo, SamplesUpTo
  <2>2. Follows(file, Samples, 0)
    BY <1>2 DEF FileUpTo, SamplesUpTo
  <2>3. ASSUME NEW k \in 1 .. Len(file)
        PROVE  file[k] = (k - 1) * Decimation
    <3>1. file[k] = Samples[k] /\ k \in Nat \ {0}
      BY <2>2, FollowsFirst
    <3>2. QED BY <3>1, SamplesFacts
  <2>4. QED BY <1>2, <2>1, <2>3 DEF WrittenInPlace, Compressing
<1>3. CASE routine = "decodeOggEnergyBars"
  <2>1. DOMAIN file = 1 .. Len(file)
    BY <1>3, LenProperties DEF FileUpTo, BarsUpTo
  <2>2. Follows(file, BarsOfSamples, 0)
    BY <1>3 DEF FileUpTo, BarsUpTo
  <2>3. ASSUME NEW k \in 1 .. Len(file)
        PROVE  file[k] =
                   [i \in 1 .. samplesPerBar |-> ((k - 1) * samplesPerBar + i - 1) * Decimation]
    <3>1. file[k] = BarsOfSamples[k] /\ k \in Nat
      BY <2>2, FollowsFirst
    <3>2. QED BY <3>1, BarFacts
  <2>4. QED BY <1>3, <2>1, <2>3, Zenon DEF WrittenInPlace, Compressing
<1>4. QED BY <1>1, <1>2, <1>3 DEF TranscodingTypes, Routines, Compressing

\* A whole file is complete.
LEMMA UpToTotalIsComplete ==
    ASSUME TranscodingTypes, FileUpTo(total)
    PROVE  WrittenCompletely
<1>1. CASE Compressing
  BY <1>1 DEF FileUpTo, PiecesUpTo, WrittenCompletely, Compressing
<1>2. CASE routine = "decodeOpusToPcm"
  BY <1>2 DEF FileUpTo, SamplesUpTo, WrittenCompletely, Compressing, Wanted
<1>3. CASE routine = "decodeOggEnergyBars"
  <2> DEFINE w == Wanted(total)
             q == w \div samplesPerBar
  <2>1. samplesPerBar \in Nat \ {0} /\ barCount \in Nat
    BY BarNumbers
  <2>2. /\ Len(file) \in Nat /\ Len(bar) \in Nat /\ Len(file) < barCount
        /\ Len(bar) < samplesPerBar /\ Len(file) * samplesPerBar + Len(bar) = w
    BY <1>3, LenProperties DEF FileUpTo, BarsUpTo
  <2>3. w \in Nat
    BY WantedFacts DEF TranscodingTypes
  <2>4. q \in Nat /\ q * samplesPerBar \in Nat /\ q * samplesPerBar <= w
        /\ w < q * samplesPerBar + samplesPerBar
    BY <2>1, <2>3, QuotientFacts
  <2> HIDE DEF w, q
  <2>5. Len(file) * samplesPerBar \in Int
    BY <2>1, <2>2, TimesOne
  <2>6. Len(file) <= q /\ q <= Len(file)
    <3>1. Len(file) * samplesPerBar < q * samplesPerBar + samplesPerBar
      BY <2>1, <2>2, <2>3, <2>4, <2>5
    <3>2. q * samplesPerBar < Len(file) * samplesPerBar + samplesPerBar
      BY <2>1, <2>2, <2>3, <2>4, <2>5
    <3>3. QED BY <2>1, <2>2, <2>4, <3>1, <3>2, TimesFewer
  <2>7. Len(file) = AtMost(barCount, q)
    BY <2>1, <2>2, <2>4, <2>6 DEF AtMost
  <2>8. QED BY <1>3, <2>7 DEF w, q, WrittenCompletely, Compressing, Wanted
<1>4. QED BY <1>1, <1>2, <1>3 DEF TranscodingTypes, Routines, Compressing

LEMMA FullIsComplete ==
    ASSUME TranscodingTypes, routine = "decodeOggEnergyBars", BarsFull
    PROVE  WrittenInPlace /\ WrittenCompletely
<1> DEFINE w == Wanted(total)
           q == w \div samplesPerBar
<1>1. samplesPerBar \in Nat \ {0} /\ barCount \in Nat
  BY BarNumbers
<1>2. w \in Nat /\ barCount * samplesPerBar <= w
  BY WantedFacts DEF TranscodingTypes, BarsFull
<1>3. q \in Nat /\ q * samplesPerBar \in Nat /\ w < q * samplesPerBar + samplesPerBar
  BY <1>1, <1>2, QuotientFacts
<1> HIDE DEF w, q
<1>4. barCount * samplesPerBar < q * samplesPerBar + samplesPerBar
  <2>1. barCount * samplesPerBar \in Int
    BY <1>1, TimesOne
  <2>2. QED BY <1>1, <1>2, <1>3, <2>1
<1>5. barCount <= q
  BY <1>1, <1>3, <1>4, TimesFewer
<1>6. Len(file) = AtMost(barCount, q)
  BY <1>1, <1>3, <1>5 DEF AtMost, BarsFull
<1>7. WrittenCompletely
  BY <1>6 DEF w, q, WrittenCompletely, Compressing, Wanted
<1>8. WrittenInPlace
  <2>1. DOMAIN file = 1 .. Len(file)
    BY LenProperties DEF BarsFull
  <2>2. Follows(file, BarsOfSamples, 0)
    BY DEF BarsFull
  <2>3. ASSUME NEW k \in 1 .. Len(file)
        PROVE  file[k] =
                   [i \in 1 .. samplesPerBar |-> ((k - 1) * samplesPerBar + i - 1) * Decimation]
    <3>1. file[k] = BarsOfSamples[k] /\ k \in Nat
      BY <2>2, FollowsFirst
    <3>2. QED BY <3>1, BarFacts
  <2>4. QED BY <2>1, <2>3, Zenon DEF WrittenInPlace, Compressing
<1>9. QED BY <1>7, <1>8

\* What the invariant means.
LEMMA TranscodedIsRight ==
    ASSUME TranscodingIInv
    PROVE  TranscodedIsTheRecording
<1>1. TranscodingTypes /\ transcoder \in Places2 /\ position <= total /\ total \in 0 .. total
  BY DEF TranscodingIInv, TranscodingTypes
<1>2. CASE transcoder \in {"done", "closing", "true"}
  <2>1. CASE FileUpTo(total)
    <3>1. WrittenInPlace /\ WrittenCompletely
      BY <1>1, <2>1, UpToIsInPlace, UpToTotalIsComplete
    <3>2. ~pcmFile => SoFar(Len(file)) = total
      BY <2>1 DEF TranscodingIInv, FileUpTo, PiecesUpTo, Compressing
    <3>3. QED BY <1>1, <3>1, <3>2 DEF TranscodedIsTheRecording
  <2>2. CASE routine = "decodeOggEnergyBars" /\ BarsFull
    <3>1. WrittenInPlace /\ WrittenCompletely
      BY <1>1, <2>2, FullIsComplete
    <3>2. pcmFile
      BY <1>1, <2>2 DEF TranscodingIInv, TranscodingTypes
    <3>3. QED BY <1>1, <3>1, <3>2 DEF TranscodedIsTheRecording
  <2>3. QED BY <1>2, <2>1, <2>2 DEF TranscodingIInv, FileIsWhole
<1>3. CASE transcoder \notin {"done", "closing", "true"}
  <2>1. PICK n \in 0 .. total : FileUpTo(n)
    BY <1>1, <1>3 DEF TranscodingIInv, FileIsDelivered, FileIsBegun, Places2
  <2>2. WrittenInPlace
    BY <1>1, <2>1, UpToIsInPlace
  <2>3. WrittenCompletely /\ pcmFile
    BY <1>1, <1>3 DEF TranscodingIInv, TranscodingTypes, WrittenCompletely
  <2>4. QED BY <1>1, <2>2, <2>3 DEF TranscodedIsTheRecording
<1>4. QED BY <1>2, <1>3

LEMMA InitTranscodingIInv ==
    ASSUME TranscodingInit
    PROVE  TranscodingIInv
<1>1. TranscodingTypes
  <2>1. total \in Nat
    BY TranscodingAssumption DEF TranscodingInit
  <2>2. pending \in Seq(Pieces)
    BY EmptySeq DEF TranscodingInit
  <2>3. inputDone \in BOOLEAN /\ pcmFile \in BOOLEAN /\ transcoder \in Places2
    BY DEF TranscodingInit, Places2
  <2>4. routine \in Routines /\ position = 0 /\ presentationUs = 0
    BY DEF TranscodingInit, Routines
  <2>5. QED BY <2>1, <2>2, <2>3, <2>4 DEF TranscodingTypes
<1>2. Delivered = 0 /\ file = <<>> /\ bar = <<>> /\ pending = <<>> /\ Len(<<>>) = 0
  BY EmptySeq DEF TranscodingInit, Delivered
<1>3. InCodec
  <2>1. Adjoin(pending, Delivered, position)
    BY <1>2 DEF TranscodingInit, Adjoin
  <2>2. QED BY <1>2, <2>1, WantedNone DEF InCodec, TranscodingInit
<1>4. FileUpTo(0)
  <2>1. PiecesUpTo(0)
    BY <1>2, EmptySeq DEF PiecesUpTo, SoFar
  <2>2. SamplesUpTo(0)
    BY <1>2, EmptySeq, WantedNone DEF SamplesUpTo, Follows
  <2>3. BarsUpTo(0)
    <3>1. samplesPerBar \in Nat \ {0} /\ barCount \in Nat \ {0} /\ 0 * samplesPerBar = 0
      BY <1>1, BarNumbers, TimesOne
    <3>2. QED BY <1>2, <3>1, EmptySeq, WantedNone DEF BarsUpTo, Follows
  <2>4. QED BY <2>1, <2>2, <2>3 DEF FileUpTo
<1>5. pcmFile = TRUE /\ transcoder = "input"
  BY DEF TranscodingInit
<1>6. FileIsDelivered
  <2>1. 0 \in 0 .. total
    BY <1>1 DEF TranscodingTypes
  <2>2. QED BY <1>2, <1>4, <2>1 DEF FileIsDelivered
<1>7. QED BY <1>1, <1>3, <1>5, <1>6 DEF TranscodingIInv

(***************************************************************************)
(* Input.                                                                  *)
(***************************************************************************)
\* Nothing moves but the thread.
LEMMA QuietKeeps ==
    ASSUME TranscodingIInv, transcoder \in {"input", "output"}, transcoder' \in {"input", "output"},
           UNCHANGED <<routine, total, position, presentationUs, pending, inputDone, file, bar,
                       pcmFile>>
    PROVE  TranscodingIInv'
<1> PICK d \in 0 .. total : d = Delivered /\ FileUpTo(d)
  BY DEF TranscodingIInv, FileIsDelivered
<1>1. TranscodingTypes'
  BY DEF TranscodingIInv, TranscodingTypes, Places2
<1>2. Delivered' = Delivered
  BY DEF Delivered
<1>3. InCodec'
  <2>1. InCodec
    BY DEF TranscodingIInv
  <2>2. QED BY <1>2, <2>1 DEF InCodec, Adjoin, GoodPiece, Even, Wanted, Compressing
<1>4. FileUpTo(d)'
  BY FileSame
<1>5. FileIsDelivered'
  BY <1>2, <1>4 DEF FileIsDelivered
<1>6. pcmFile'
  BY DEF TranscodingIInv
<1>7. QED BY <1>1, <1>3, <1>5, <1>6 DEF TranscodingIInv

\* One more buffer for the codec.
LEMMA QueueInputKeeps ==
    ASSUME TranscodingIInv, NEW n \in Nat, n <= unread, n = 0 => unread = 0,
           NEW time \in Nat, NEW passed \in Nat,
           Compressing => time = position /\ passed = n,
           ~Compressing /\ position + n < total => Even(position + n),
           QueueInput(n, time, passed)
    PROVE  TranscodingIInv'
<1> DEFINE l == Len(pending)
<1> PICK d \in 0 .. total : d = Delivered /\ FileUpTo(d)
  BY DEF TranscodingIInv, QueueInput, FileIsDelivered
<1> PICK x \in Pieces : x = [first |-> position, size |-> n, time |-> time, eos |-> n = 0]
  <2>1. position \in Nat /\ (n = 0) \in BOOLEAN
    BY DEF TranscodingIInv, TranscodingTypes
  <2>2. QED BY <2>1 DEF Pieces
<1>1. TranscodingTypes /\ InCodec /\ FileUpTo(d) /\ pcmFile /\ inputDone = FALSE
  BY DEF TranscodingIInv, QueueInput, TranscodingTypes
<1>2. /\ pending' = Append(pending, x) /\ position' = position + n
      /\ presentationUs' = presentationUs + passed /\ inputDone' = (n = 0)
      /\ transcoder' = "output"
      /\ UNCHANGED <<routine, total, file, bar, pcmFile>>
  BY DEF QueueInput
<1>3. position \in Nat /\ total \in Nat /\ pending \in Seq(Pieces) /\ l \in Nat
      /\ position + n \in Nat /\ position + n <= total /\ (n = 0 => position = total)
  BY <1>1, LenProperties DEF TranscodingTypes, unread
<1>4. pending' \in Seq(Pieces) /\ Len(pending') = l + 1 /\ pending'[l + 1] = x
      /\ (\A i \in 1 .. l : pending'[i] = pending[i]) /\ pending' # <<>>
  <2>1. pending' = Append(pending, x) /\ x \in Pieces /\ pending \in Seq(Pieces) /\ l = Len(pending)
        /\ l \in Nat
    BY <1>2, <1>3
  <2> HIDE DEF l
  <2>2. /\ pending' \in Seq(Pieces) /\ Len(pending') = l + 1 /\ pending'[l + 1] = x
        /\ \A i \in 1 .. l : pending'[i] = pending[i]
    BY ONLY <2>1, AppendProperties
  <2>3. pending' # <<>>
    BY ONLY <2>1, <2>2
  <2>4. QED BY ONLY <2>2, <2>3
<1>5. TranscodingTypes'
  <2>1. inputDone' \in BOOLEAN /\ pcmFile' \in BOOLEAN /\ transcoder' \in Places2
    BY <1>1, <1>2 DEF TranscodingTypes, Places2
  <2>2. presentationUs' \in Nat
    BY <1>1, <1>2 DEF TranscodingTypes
  <2>3. QED BY <1>1, <1>2, <1>3, <1>4, <2>1, <2>2 DEF TranscodingTypes
<1>6. Delivered' = d /\ (pending = <<>> => l = 0 /\ d = position)
      /\ (pending # <<>> => l >= 1 /\ d = pending[1].first)
  <2>1. CASE pending = <<>>
    <3>1. l = 0
      BY <2>1, EmptySeq
    <3>2. QED BY <1>2, <1>4, <2>1, <3>1 DEF Delivered
  <2>2. CASE pending # <<>>
    <3>1. l >= 1
      BY <1>3, <2>2, EmptySeq
    <3>2. 1 \in 1 .. l
      BY <1>3, <3>1
    <3>3. QED BY <1>4, <2>2, <3>1, <3>2 DEF Delivered
  <2>3. QED BY <2>1, <2>2
<1>7. Adjoin(pending, d, position)
  BY <1>1 DEF InCodec
<1>8. Compressing' = Compressing /\ \A y : Even(y)' = Even(y)
  BY <1>2 DEF Compressing, Even, Wanted
<1>9. ASSUME NEW i \in 1 .. l
      PROVE  /\ GoodPiece(pending[i])' /\ pending[i].eos = FALSE
             /\ pending'[i].first + pending'[i].size <= position'
  <2>1. GoodPiece(pending[i]) /\ pending[i] \in Pieces
    BY <1>1, <1>3, ElementOfSeq DEF InCodec
  <2>2. pending[i].eos = FALSE
    BY <1>1, <2>1 DEF GoodPiece, Pieces
  <2>3. pending'[i] = pending[i]
    BY <1>4
  <2>4. GoodPiece(pending[i])'
    BY <1>8, <2>1, <2>2, <2>3 DEF GoodPiece
  <2>5. pending[i].first + pending[i].size <= position
    <3>1. i \in 1 .. Len(pending)
      OBVIOUS
    <3>2. QED BY <1>1, <3>1, Zenon DEF InCodec
  <2>6. pending'[i].first + pending'[i].size <= position'
    <3>1. pending[i].first \in Nat /\ pending[i].size \in Nat
      BY <2>1 DEF Pieces
    <3>2. pending[i].first + pending[i].size <= position + n
      <4>1. position \in Nat
        BY <1>3
      <4>2. QED BY <2>5, <3>1, <4>1
    <3>3. QED BY <1>2, <2>3, <3>2
  <2>7. QED BY <2>2, <2>4, <2>6
<1> HIDE DEF l
<1>10. GoodPiece(x)'
  <2>1. ~Compressing /\ n > 0 => Even(position)
    BY <1>1, <1>3 DEF InCodec
  <2>2. x.first = position /\ x.size = n /\ x.time = time /\ x.eos = (n = 0)
    OBVIOUS
  <2>3. x' = x
    OBVIOUS
  <2>4. QED BY <1>2, <1>8, <2>1, <2>2 DEF GoodPiece
<1>11. InCodec'
  <2>1. Adjoin(pending', d, position')
    <3>1. x.first = position /\ x.first + x.size = position + n
      OBVIOUS
    <3>2. CASE pending = <<>>
      BY <1>2, <1>3, <1>4, <1>6, <3>1, <3>2 DEF Adjoin
    <3>3. CASE pending # <<>>
      <4>1. 1 \in 1 .. l /\ l \in 1 .. l
        BY <1>3, <1>6, <3>3
      <4>2. pending'[1].first = d /\ pending[l].first + pending[l].size = position
        BY <1>4, <1>6, <1>7, <3>3, <4>1 DEF Adjoin, l
      <4>3. ASSUME NEW i \in 1 .. l
            PROVE  pending'[i + 1].first = pending'[i].first + pending'[i].size
        <5>1. CASE i = l
          BY <1>4, <3>1, <4>1, <4>2, <5>1
        <5>2. CASE i # l
          <6>1. i \in 1 .. Len(pending) - 1 /\ i + 1 \in 1 .. l
            BY <1>3, <5>2 DEF l
          <6>2. pending[i + 1].first = pending[i].first + pending[i].size
            BY <1>7, <3>3, <6>1 DEF Adjoin
          <6>3. QED BY <1>4, <4>3, <6>1, <6>2
        <5>3. QED BY <5>1, <5>2
      <4>4. pending'[Len(pending')].first + pending'[Len(pending')].size = position'
        BY <1>2, <1>4, <3>1
      <4>5. \A i \in 1 .. Len(pending') - 1 :
                pending'[i + 1].first = pending'[i].first + pending'[i].size
        <5>1. Len(pending') - 1 = l
          BY <1>3, <1>4
        <5>2. QED BY <4>3, <5>1
      <4>6. QED BY <1>4, <4>2, <4>4, <4>5 DEF Adjoin
    <3>4. QED BY <3>2, <3>3
  <2>2. ASSUME NEW i \in 1 .. l + 1
        PROVE  /\ GoodPiece(pending[i])' /\ (pending'[i].eos => i = l + 1)
               /\ pending'[i].first + pending'[i].size <= position'
    <3>1. CASE i = l + 1
      <4>1. GoodPiece(pending[i])'
        BY <1>4, <1>10, <3>1 DEF GoodPiece, Compressing, Even, Wanted
      <4>2. pending'[i].first + pending'[i].size <= position'
        BY <1>2, <1>3, <1>4, <3>1
      <4>3. QED BY <3>1, <4>1, <4>2
    <3>2. CASE i # l + 1
      <4>1. i \in 1 .. l
        BY <1>3, <3>2
      <4>2. QED BY <1>4, <1>9, <4>1
    <3>3. QED BY <3>1, <3>2
  <2>3. inputDone' => position' = total'
    <3>1. n = 0 => position' = total'
      BY <1>2, <1>3
    <3>2. QED BY <1>2, <3>1, Zenon
  <2>4. ~Compressing' /\ position' < total' => Even(position)'
    BY <1>2, <1>8 DEF Even, Wanted
  <2>5. Compressing' => presentationUs' = position'
    BY <1>1, <1>2, <1>8 DEF InCodec
  <2>6. QED BY <1>4, <1>6, <2>1, <2>2, <2>3, <2>4, <2>5 DEF InCodec, Adjoin
<1>12. FileUpTo(d)'
  BY <1>1, <1>2, FileSame
<1>13. FileIsDelivered'
  BY <1>2, <1>6, <1>12 DEF FileIsDelivered
<1>14. QED BY <1>1, <1>2, <1>5, <1>11, <1>13 DEF TranscodingIInv

LEMMA CompressChunkKeeps ==
    ASSUME TranscodingIInv, CompressChunk
    PROVE  TranscodingIInv'
<1> DEFINE n == AtMost(FRAME, unread)
<1>1. routine = "compressToAac" /\ QueueInput(n, presentationUs, n)
  BY DEF CompressChunk
<1>2. TranscodingTypes /\ InCodec
  BY <1>1 DEF TranscodingIInv, QueueInput
<1>3. unread \in Nat /\ presentationUs \in Nat
  BY <1>2 DEF TranscodingTypes, unread
<1>4. n \in Nat /\ n <= unread /\ (n = 0 => unread = 0)
  BY <1>3, Constants DEF AtMost
<1>5. Compressing /\ presentationUs = position
  BY <1>1, <1>2 DEF InCodec, Compressing
<1> HIDE DEF n
<1>6. QED BY <1>1, <1>3, <1>4, <1>5, QueueInputKeeps

LEMMA ConvertReadKeeps ==
    ASSUME TranscodingIInv, ConvertRead
    PROVE  TranscodingIInv'
<1>1. TranscodingTypes /\ InCodec /\ routine = "convertPcmToM4a"
  BY DEF TranscodingIInv, QueueInput, ConvertRead
<1>2. unread \in Nat /\ presentationUs \in Nat
  BY <1>1 DEF TranscodingTypes, unread
<1>3. PICK n \in IF unread = 0 THEN {0} ELSE 1 .. AtMost(FRAME, unread) :
        QueueInput(n, presentationUs, n)
  BY DEF ConvertRead
<1>4. n \in Nat /\ n <= unread /\ (n = 0 => unread = 0)
  <2>1. CASE unread = 0
    BY <1>3, <2>1
  <2>2. CASE unread # 0
    <3>1. n \in 1 .. AtMost(FRAME, unread)
      BY <2>2
    <3>2. AtMost(FRAME, unread) \in Nat /\ AtMost(FRAME, unread) <= unread
      BY <1>2, Constants DEF AtMost
    <3>3. QED BY <1>2, <3>1, <3>2
  <2>3. QED BY <2>1, <2>2
<1>5. Compressing /\ presentationUs = position
  BY <1>1 DEF InCodec, Compressing
<1>6. QED BY <1>2, <1>3, <1>4, <1>5, QueueInputKeeps

LEMMA PacketKeeps ==
    ASSUME TranscodingIInv, ~Compressing, QueueInput(AtMost(PACKET, unread), position, 0)
    PROVE  TranscodingIInv'
<1> DEFINE n == AtMost(PACKET, unread)
<1>1. TranscodingTypes /\ InCodec
  BY DEF TranscodingIInv, QueueInput
<1>2. unread \in Nat /\ position \in Nat /\ total \in Nat /\ unread = total - position
  BY <1>1 DEF TranscodingTypes, unread
<1>3. n \in Nat /\ n <= unread /\ (n = 0 => unread = 0)
  BY <1>2, Constants DEF AtMost
<1>4. position + n < total => Even(position + n)
  <2> SUFFICES ASSUME position + n < total PROVE Even(position + n)
    OBVIOUS
  <2>1. n = PACKET
    BY <1>2, Constants DEF AtMost
  <2>2. Even(position)
    <3>1. position < total
      BY <1>2, <1>3
    <3>2. QED BY <1>1, <3>1 DEF InCodec
  <2> HIDE DEF n
  <2>3. QED BY <1>2, <2>1, <2>2, EvenPacket
<1>5. 0 \in Nat
  OBVIOUS
<1> HIDE DEF n
<1>6. QueueInput(n, position, 0)
  BY DEF n
<1>7. QED BY <1>2, <1>3, <1>4, <1>5, <1>6, QueueInputKeeps

LEMMA InputKeeps ==
    ASSUME TranscodingIInv, CompressChunk \/ ConvertRead \/ DecodePacket \/ MeasurePacket
    PROVE  TranscodingIInv'
<1>1. CASE DecodePacket
  BY <1>1, PacketKeeps DEF DecodePacket, Compressing
<1>2. CASE MeasurePacket
  BY <1>2, PacketKeeps DEF MeasurePacket, Compressing
<1>3. QED BY <1>1, <1>2, CompressChunkKeeps, ConvertReadKeeps

(***************************************************************************)
(* Output.                                                                 *)
(***************************************************************************)
\* The pieces s are what is in the codec from a on.
InRow(s, a) ==
    /\ s \in Seq(Pieces)
    /\ a = IF s = <<>> THEN position ELSE s[1].first
    /\ Adjoin(s, a, position)
    /\ \A i \in 1 .. Len(s) : /\ GoodPiece(s[i]) /\ s[i].first + s[i].size <= position
                              /\ s[i].eos => i = Len(s)

\* The piece x is the next.
IsNext(x, d) ==
    /\ x \in Pieces /\ x.first = d
    /\ Compressing => x.time = d
    /\ ~Compressing /\ x.size > 0 => Even(d)
    /\ d + x.size \in 0 .. total
    /\ x.eos => d + x.size = total

LEMMA HeadIsNext ==
    ASSUME TranscodingTypes, InCodec, NEW d \in Nat, d = Delivered, pending # <<>>
    PROVE  IsNext(Head(pending), d) /\ InRow(Tail(pending), d + Head(pending).size)
<1> DEFINE l == Len(pending)
           x == Head(pending)
           s == Tail(pending)
<1>1. /\ pending \in Seq(Pieces) /\ l \in Nat /\ l >= 1 /\ x \in Pieces /\ x = pending[1]
      /\ s \in Seq(Pieces) /\ Len(s) = l - 1
      /\ \A i \in 1 .. Len(s) : s[i] = pending[i + 1]
  BY HeadTailProperties, LenProperties, EmptySeq DEF TranscodingTypes
<1>2. x.first \in Nat /\ x.size \in Nat /\ x.time \in Nat /\ x.eos \in BOOLEAN
  BY <1>1 DEF Pieces
<1>3. position \in Nat /\ total \in Nat /\ position <= total
  BY DEF TranscodingTypes
<1>4. \A i \in 1 .. l : /\ GoodPiece(pending[i])
                        /\ pending[i].first + pending[i].size <= position
                        /\ pending[i].eos => i = l
  BY DEF InCodec
<1>5. 1 \in 1 .. l
  BY <1>1
<1>6. GoodPiece(x) /\ x.first + x.size <= position /\ (x.eos => 1 = l)
  BY <1>1, <1>4, <1>5
<1>7. x.first = d /\ pending[l].first + pending[l].size = position
      /\ \A i \in 1 .. l - 1 : pending[i + 1].first = pending[i].first + pending[i].size
  BY <1>1 DEF Delivered, InCodec, Adjoin
<1> HIDE DEF x, s, l
<1>8. IsNext(x, d)
  <2>1. x.eos => d + x.size = total
    <3> SUFFICES ASSUME x.eos PROVE d + x.size = total
      OBVIOUS
    <3>1. l = 1 /\ position = total
      BY <1>6 DEF InCodec, GoodPiece
    <3>2. QED BY <1>1, <1>7, <3>1
  <2>2. d + x.size \in 0 .. total
    BY <1>2, <1>3, <1>6, <1>7
  <2>3. QED BY <1>1, <1>6, <1>7, <2>1, <2>2 DEF IsNext, GoodPiece
<1>9. InRow(s, d + x.size)
  <2>1. CASE l = 1
    <3>1. s = <<>> /\ Len(s) = 0
      BY <1>1, <2>1, EmptySeq
    <3>2. d + x.size = position
      BY <1>1, <1>7, <2>1
    <3>3. QED BY <1>1, <3>1, <3>2 DEF InRow, Adjoin
  <2>2. CASE l # 1
    <3>1. s # <<>> /\ Len(s) >= 1 /\ Len(s) \in Nat
      BY <1>1, <2>2, EmptySeq
    <3>2. s[1].first = d + x.size
      <4>1. 1 \in 1 .. Len(s) /\ 1 \in 1 .. l - 1
        BY <1>1, <3>1
      <4>2. s[1] = pending[2] /\ pending[2].first = pending[1].first + pending[1].size
        BY <1>1, <1>7, <4>1
      <4>3. QED BY <1>1, <1>7, <4>2
    <3>3. s[Len(s)].first + s[Len(s)].size = position
      <4>1. s[Len(s)] = pending[l]
        BY <1>1, <3>1
      <4>2. QED BY <1>7, <4>1
    <3>4. ASSUME NEW i \in 1 .. Len(s) - 1
          PROVE  s[i + 1].first = s[i].first + s[i].size
      <4>1. i \in 1 .. Len(s) /\ i + 1 \in 1 .. Len(s) /\ i + 1 \in 1 .. l - 1
        BY <1>1, <3>1
      <4>2. s[i] = pending[i + 1] /\ s[i + 1] = pending[(i + 1) + 1]
        BY <1>1, <4>1
      <4>3. QED BY <1>7, <4>1, <4>2
    <3>5. ASSUME NEW i \in 1 .. Len(s)
          PROVE  /\ GoodPiece(s[i]) /\ s[i].first + s[i].size <= position
                 /\ s[i].eos => i = Len(s)
      <4>1. i + 1 \in 1 .. l /\ s[i] = pending[i + 1] /\ (i + 1 = l => i = Len(s))
        BY <1>1
      <4>2. QED BY <1>4, <4>1
    <3>6. QED BY <1>1, <3>1, <3>2, <3>3, <3>4, <3>5 DEF InRow, Adjoin
  <2>3. QED BY <2>1, <2>2
<1>10. QED BY <1>8, <1>9 DEF x, s

\* The end comes with the last piece that has samples.
LEMMA LastIsNext ==
    ASSUME TranscodingTypes, InCodec, NEW d \in Nat, d = Delivered,
           Len(pending) = 2, pending[2].eos
    PROVE  IsNext([pending[1] EXCEPT !.eos = TRUE], d) /\ InRow(<<>>, d + pending[1].size)
<1> DEFINE a == pending[1]
           x == [a EXCEPT !.eos = TRUE]
<1>1. pending \in Seq(Pieces) /\ 1 \in 1 .. Len(pending) /\ 2 \in 1 .. Len(pending)
      /\ pending # <<>> /\ 1 \in 1 .. Len(pending) - 1
  <2>1. pending \in Seq(Pieces)
    BY DEF TranscodingTypes
  <2>2. pending # <<>>
    BY EmptySeq
  <2>3. QED BY <2>1, <2>2
<1>2. a \in Pieces /\ pending[2] \in Pieces
  BY <1>1, ElementOfSeq
<1>3. a.first = d /\ pending[2].first + pending[2].size = position
      /\ pending[1 + 1].first = a.first + a.size
  BY <1>1 DEF Delivered, InCodec, Adjoin
<1>4. GoodPiece(a) /\ GoodPiece(pending[2])
  BY <1>1 DEF InCodec
<1>5. pending[2].size = 0 /\ position = total /\ total \in Nat
  BY <1>4 DEF InCodec, GoodPiece, TranscodingTypes
<1>6. a.first \in Nat /\ a.size \in Nat /\ pending[2].first \in Nat
  BY <1>2 DEF Pieces
<1>7. d + a.size = position
  BY <1>3, <1>5, <1>6
<1>8. x \in Pieces /\ x.first = a.first /\ x.size = a.size /\ x.time = a.time
  BY <1>2 DEF Pieces
<1> HIDE DEF x
<1>9. IsNext(x, d)
  <2>1. d + x.size \in 0 .. total /\ d + x.size = total
    BY <1>5, <1>6, <1>7, <1>8
  <2>2. QED BY <1>3, <1>4, <1>8, <2>1 DEF IsNext, GoodPiece
<1>10. InRow(<<>>, d + a.size)
  BY <1>7, EmptySeq DEF InRow, Adjoin
<1>11. QED BY <1>9, <1>10 DEF x

LEMMA OutputIsNext ==
    ASSUME TranscodingTypes, InCodec, NEW d \in Nat, d = Delivered, NEW o \in Outputs
    PROVE  IsNext(o[1], d) /\ InRow(o[2], d + o[1].size)
<1>1. CASE pending # <<>> /\ o = <<Head(pending), Tail(pending)>>
  BY <1>1, HeadIsNext
<1>2. CASE /\ Len(pending) = 2 /\ pending[2].eos
           /\ o = <<[pending[1] EXCEPT !.eos = TRUE], <<>>>>
  <2>1. o[1].size = pending[1].size
    <3>1. pending \in Seq(Pieces) /\ 1 \in 1 .. Len(pending)
      BY <1>2 DEF TranscodingTypes
    <3>2. pending[1] \in Pieces
      BY <3>1, ElementOfSeq
    <3>3. QED BY <1>2, <3>2 DEF Pieces
  <2>2. QED BY <1>2, <2>1, LastIsNext
<1>3. QED BY <1>1, <1>2 DEF Outputs

\* The codec gives out a piece x; rest stays in it.
LEMMA OutputMoves ==
    ASSUME TranscodingTypes, InCodec, NEW d \in Nat, NEW x, NEW rest, NEW enough,
           IsNext(x, d), InRow(rest, d + x.size), Output(x, rest, enough)
    PROVE  TranscodingTypes' /\ InCodec' /\ Delivered' = d + x.size
<1>1. /\ pending' = rest /\ transcoder' \in {"done", "input"}
      /\ UNCHANGED <<routine, total, position, presentationUs, inputDone, pcmFile>>
  BY DEF Output
<1>2. TranscodingTypes'
  BY <1>1 DEF TranscodingTypes, Places2, InRow
<1>3. Delivered' = d + x.size
  BY <1>1 DEF Delivered, InRow
<1>4. Compressing' = Compressing /\ (\A y : Even(y)' = Even(y))
      /\ (\A y \in Pieces : GoodPiece(y) => GoodPiece(y)')
  <2>1. Compressing' = Compressing /\ (\A y : Even(y)' = Even(y))
    BY <1>1 DEF Compressing, Even, Wanted
  <2>2. QED BY <1>1, <2>1 DEF GoodPiece
<1>5. InCodec'
  <2>1. Adjoin(pending, Delivered, position)'
    BY <1>1, <1>3 DEF InRow, Adjoin
  <2>2. ASSUME NEW i \in 1 .. Len(rest)
        PROVE  /\ GoodPiece(rest[i])' /\ rest[i].first + rest[i].size <= position'
               /\ rest[i].eos => i = Len(rest)
    <3>1. rest[i] \in Pieces
      BY ElementOfSeq DEF InRow
    <3>2. QED BY <1>1, <1>4, <3>1 DEF InRow
  <2>3. ASSUME NEW i \in 1 .. Len(pending')
        PROVE  /\ GoodPiece(pending[i])' /\ pending'[i].first + pending'[i].size <= position'
               /\ pending'[i].eos => i = Len(pending')
    BY <1>1, <2>2 DEF GoodPiece, Even, Wanted, Compressing
  <2>4. inputDone' => position' = total'
    BY <1>1 DEF InCodec
  <2>5. ~Compressing' /\ position' < total' => Even(position)'
    BY <1>1, <1>4 DEF InCodec, Even, Wanted
  <2>6. Compressing' => presentationUs' = position'
    BY <1>1, <1>4 DEF InCodec
  <2>7. QED BY <2>1, <2>3, <2>4, <2>5, <2>6 DEF InCodec
<1>6. QED BY <1>2, <1>3, <1>5

\* The piece is written, and the file goes as far as before and the piece together.
LEMMA OutputKeeps ==
    ASSUME TranscodingIInv, NEW o \in Outputs, NEW enough \in BOOLEAN,
           Output(o[1], o[2], enough), enough => routine = "decodeOggEnergyBars" /\ BarsFull',
           \A d \in Nat : FileUpTo(d) /\ IsNext(o[1], d) /\ ~enough => FileUpTo(d + o[1].size)'
    PROVE  TranscodingIInv'
<1>1. TranscodingTypes /\ InCodec /\ FileIsDelivered /\ pcmFile
  BY DEF TranscodingIInv, Output
<1>2. PICK d \in 0 .. total : d = Delivered /\ FileUpTo(d)
  BY <1>1 DEF FileIsDelivered
<1>3. d \in Nat
  BY <1>1, <1>2 DEF TranscodingTypes
<1>4. IsNext(o[1], d) /\ InRow(o[2], d + o[1].size)
  BY <1>1, <1>2, <1>3, OutputIsNext
<1>5. TranscodingTypes' /\ InCodec' /\ Delivered' = d + o[1].size
  BY <1>1, <1>3, <1>4, OutputMoves
<1>6. d + o[1].size \in 0 .. total /\ (o[1].eos => d + o[1].size = total)
  BY <1>4 DEF IsNext
<1>7. /\ total' = total /\ pcmFile' = pcmFile /\ routine' = routine
      /\ transcoder' = IF o[1].eos \/ enough THEN "done" ELSE "input"
  BY DEF Output
<1>8. PICK e \in 0 .. total : e = d + o[1].size
  BY <1>6
<1>9. CASE enough
  <2>1. FileIsWhole'
    BY <1>7, <1>9 DEF FileIsWhole
  <2>2. QED BY <1>1, <1>5, <1>7, <1>9, <2>1 DEF TranscodingIInv
<1>10. CASE ~enough
  <2>1. FileUpTo(e)'
    BY <1>2, <1>3, <1>4, <1>8, <1>10
  <2>2. CASE o[1].eos
    <3>1. e = total
      BY <1>6, <1>8, <2>2
    <3>2. FileIsWhole'
      BY <1>7, <2>1, <3>1 DEF FileIsWhole
    <3>3. QED BY <1>1, <1>5, <1>7, <2>2, <3>2 DEF TranscodingIInv
  <2>3. CASE ~o[1].eos
    <3>1. FileIsDelivered'
      BY <1>5, <1>7, <1>8, <2>1 DEF FileIsDelivered
    <3>2. QED BY <1>1, <1>5, <1>7, <1>10, <2>3, <3>1 DEF TranscodingIInv
  <2>4. QED BY <2>2, <2>3
<1>11. QED BY <1>9, <1>10

\* writeSampleData.
LEMMA PiecesMore ==
    ASSUME TranscodingTypes, Compressing, NEW d \in Nat, FileUpTo(d), NEW x, IsNext(x, d),
           WriteSampleData(x), UNCHANGED routine
    PROVE  FileUpTo(d + x.size)'
<1> DEFINE e == d + x.size
<1> PICK l : l = Len(file)
  OBVIOUS
<1>1. PiecesUpTo(d)
  BY DEF FileUpTo
<1>2. file \in Seq(Written) /\ l \in Nat /\ SoFar(l) = d
      /\ \A k \in 1 .. l : file[k].first = SoFar(k - 1) /\ file[k].time = SoFar(k - 1)
  BY <1>1, LenProperties DEF PiecesUpTo
<1>3. x \in Pieces /\ x.first = d /\ x.time = d
  BY DEF IsNext
<1>4. x.size \in Nat
  BY <1>3 DEF Pieces
<1>5. CASE x.size = 0
  <2>1. file' = file /\ e = d
    BY <1>4, <1>5 DEF WriteSampleData
  <2>2. PiecesUpTo(d)'
    BY <1>1, <2>1 DEF PiecesUpTo, SoFar
  <2>3. Compressing' = Compressing /\ routine' = routine
    BY DEF Compressing
  <2>4. QED BY <2>1, <2>2, <2>3 DEF FileUpTo, Compressing, PiecesUpTo
<1>6. CASE x.size # 0
  <2> PICK w \in Written : w = [first |-> x.first, size |-> x.size, time |-> x.time]
    BY <1>3 DEF Written, Pieces
  <2>1. w.first = d /\ w.size = x.size /\ w.time = d
    BY <1>3
  <2>2. file' = Append(file, w)
    BY <1>6 DEF WriteSampleData
  <2>3. /\ file' \in Seq(Written) /\ Len(file') = l + 1 /\ file'[l + 1] = w
        /\ \A k \in 1 .. l : file'[k] = file[k]
    BY <1>2, <2>2, AppendProperties
  <2>4. \A k \in 0 .. l : SoFar(k)' = SoFar(k)
    BY <1>2, <2>3 DEF SoFar
  <2>5. SoFar(l + 1)' = e
    BY <1>2, <2>1, <2>3 DEF SoFar
  <2>6. ASSUME NEW k \in 1 .. l + 1
        PROVE  file'[k].first = SoFar(k - 1)' /\ file'[k].time = SoFar(k - 1)'
    <3>1. k - 1 \in 0 .. l /\ SoFar(k - 1)' = SoFar(k - 1)
      <4>1. k - 1 \in 0 .. l
        BY <1>2
      <4>2. QED BY <2>4, <4>1
    <3>2. CASE k = l + 1
      <4>1. SoFar(k - 1) = d
        BY <1>2, <3>2
      <4>2. QED BY <2>1, <2>3, <3>1, <3>2, <4>1
    <3>3. CASE k # l + 1
      <4>1. k \in 1 .. l
        BY <1>2, <3>3
      <4>2. QED BY <1>2, <2>3, <3>1, <4>1
    <3>4. QED BY <3>2, <3>3
  <2>7. SoFar(Len(file))' = e
    BY <1>2, <2>1, <2>3 DEF SoFar
  <2>8. Compressing' /\ routine' = routine
    BY DEF Compressing
  <2>9. QED BY <2>3, <2>6, <2>7, <2>8 DEF FileUpTo, Compressing, PiecesUpTo
<1>7. QED BY <1>5, <1>6

\* The samples of a decoded file.
LEMMA SamplesMore ==
    ASSUME TranscodingTypes, routine = "decodeOpusToPcm", NEW d \in Nat, FileUpTo(d), NEW x,
           IsNext(x, d), WritePcm(x), UNCHANGED routine
    PROVE  FileUpTo(d + x.size)'
<1>1. file \in Seq(Nat) /\ Len(file) = Wanted(d) /\ Follows(file, Samples, 0)
  BY DEF FileUpTo, SamplesUpTo
<1>2. x \in Pieces /\ x.first = d /\ (x.size > 0 => Even(x.first))
  BY DEF IsNext, Compressing
<1>3. PICK t \in Seq(Nat) :
        /\ t = Decimated(x) /\ Len(t) = Wanted(x.size) /\ Follows(t, Samples, Wanted(d))
        /\ Wanted(d + x.size) = Wanted(d) + Wanted(x.size)
  BY <1>2, DecimatedFacts
<1>4. 0 + Len(file) = Len(file) /\ 0 \in Nat
  BY <1>1, LenProperties
<1>5. /\ file \o t \in Seq(Nat) /\ Len(file \o t) = Len(file) + Len(t)
      /\ Follows(file \o t, Samples, 0)
  BY <1>1, <1>3, <1>4, FollowsOn
<1>6. file' = file \o t
  BY <1>3 DEF WritePcm
<1>7. Wanted(d + x.size)' = Wanted(d + x.size) /\ Samples' = Samples
  BY DEF Wanted, Samples
<1>8. SamplesUpTo(d + x.size)'
  BY <1>1, <1>3, <1>5, <1>6, <1>7 DEF SamplesUpTo, Follows
<1>9. QED BY <1>8 DEF FileUpTo, Compressing

\* A bar of samples is that of its place.
LEMMA BarOf ==
    ASSUME NEW m \in Nat \ {0}, m = samplesPerBar, NEW u \in Seq(Nat), Len(u) = m,
           NEW k \in Nat \ {0}, NEW a \in Nat, a = (k - 1) * m, Follows(u, Samples, a)
    PROVE  u = BarsOfSamples[k] /\ u \in [1 .. m -> Nat]
<1>1. u \in [1 .. m -> Nat]
  BY LenProperties
<1>2. ASSUME NEW i \in 1 .. m
      PROVE  u[i] = (a + i - 1) * Decimation
  <2>1. u[i] = Samples[a + i]
    BY DEF Follows
  <2>2. a + i \in Nat \ {0} /\ (a + i) - 1 = a + i - 1
    OBVIOUS
  <2>3. QED BY <2>1, <2>2, SamplesFacts
<1>3. u = [i \in 1 .. m |-> (a + i - 1) * Decimation]
  BY <1>1, <1>2
<1>4. BarsOfSamples[k] = [i \in 1 .. m |-> ((k - 1) * m + i - 1) * Decimation]
  BY BarFacts
<1>5. QED BY <1>1, <1>3, <1>4

\* The bars that a piece completes: m samples to a bar, l bars before, b samples left.
LEMMA BarsMore ==
    ASSUME TranscodingTypes, routine = "decodeOggEnergyBars", NEW d \in Nat, FileUpTo(d), NEW x,
           IsNext(x, d), WriteBars(x), UNCHANGED <<routine, total>>
    PROVE  /\ Len(file') = barCount => BarsFull'
           /\ Len(file') # barCount => FileUpTo(d + x.size)'
<1>1. PICK m \in Nat \ {0}, c \in Nat \ {0} : m = samplesPerBar /\ c = barCount
  BY BarNumbers
<1>2. PICK l \in Nat, b \in Nat : l = Len(file) /\ b = Len(bar)
  BY LenProperties DEF FileUpTo, BarsUpTo
<1>3. PICK a \in Nat : a = l * m
  <2>1. 0 * m <= l * m /\ 0 * m = 0 /\ l * m \in Int
    BY TimesFacts, TimesOne
  <2>2. QED BY <2>1
<1>4. /\ file \in Seq([1 .. m -> Nat]) /\ l < c /\ bar \in Seq(Nat) /\ b < m
      /\ a + b = Wanted(d)
      /\ Follows(file, BarsOfSamples, 0) /\ Follows(bar, Samples, a)
  BY <1>1, <1>2, <1>3 DEF FileUpTo, BarsUpTo
<1>5. /\ x \in Pieces /\ x.first = d /\ (x.size > 0 => Even(x.first)) /\ total \in Nat
      /\ d + x.size \in Nat /\ d + x.size <= total
  BY DEF IsNext, Compressing, TranscodingTypes
<1>6. PICK t \in Seq(Nat), n \in Nat :
        /\ t = Decimated(x) /\ Len(t) = n /\ Follows(t, Samples, a + b)
        /\ Wanted(d + x.size) = a + b + n
  <2>1. /\ Decimated(x) \in Seq(Nat) /\ Len(Decimated(x)) = Wanted(x.size)
        /\ Follows(Decimated(x), Samples, Wanted(d))
        /\ Wanted(d + x.size) = Wanted(d) + Wanted(x.size)
    BY <1>5, DecimatedFacts
  <2>2. Len(Decimated(x)) \in Nat
    BY <2>1, LenProperties
  <2>3. QED BY <1>4, <2>1, <2>2
<1>7. PICK s \in Seq(Nat), z \in Nat :
        s = bar \o t /\ z = b + n /\ Len(s) = z /\ Follows(s, Samples, a)
  <2>1. /\ bar \o t \in Seq(Nat) /\ Len(bar \o t) = Len(bar) + Len(t)
        /\ Follows(bar \o t, Samples, a)
    BY <1>2, <1>4, <1>6, FollowsOn
  <2>2. Len(bar \o t) = b + n /\ b + n \in Nat
    BY <1>2, <1>6, <2>1
  <2>3. QED BY <2>1, <2>2
<1>8. PICK f \in Nat, q \in Nat : f = z \div m /\ q = f * m /\ q <= z /\ z < q + m
  BY QuotientFacts
<1>9. PICK r \in Nat : q + r = z /\ r < m
  <2>1. z - q \in Nat /\ q + (z - q) = z /\ z - q < m
    BY <1>8
  <2>2. QED BY <2>1
<1>10. PICK g \in Nat : g = AtMost(f, c - l) /\ g <= f /\ (l + g # c => g = f) /\ l + g <= c
  <2>1. l < c
    BY <1>4
  <2>2. /\ AtMost(f, c - l) \in Nat /\ AtMost(f, c - l) <= f
        /\ (l + AtMost(f, c - l) # c => AtMost(f, c - l) = f) /\ l + AtMost(f, c - l) <= c
    BY <2>1 DEF AtMost
  <2>3. QED BY <2>2
<1>11. PICK h : h = [k \in 1 .. g |-> SubSeq(s, (k - 1) * m + 1, k * m)]
  OBVIOUS
<1>12. file' = file \o h /\ bar' = SubSeq(s, q + 1, q + r)
  <2>1. samplesPerBar = m /\ barCount = c /\ Len(file) = l /\ bar \o Decimated(x) = s
        /\ Len(s) = z /\ z \div m = f /\ f * m = q /\ z = q + r
    BY <1>1, <1>2, <1>6, <1>7, <1>8, <1>9
  <2>2. file' = Bars(x).file /\ bar' = Bars(x).bar
    BY DEF WriteBars
  <2>3. QED BY <1>10, <1>11, <2>1, <2>2 DEF Bars
<1>13. ASSUME NEW k \in 1 .. g
       PROVE  h[k] = BarsOfSamples[l + k] /\ h[k] \in [1 .. m -> Nat]
  <2>1. PICK p \in Nat : p = (k - 1) * m /\ k * m = p + m
    <3>1. 0 * m <= (k - 1) * m /\ 0 * m = 0 /\ (k - 1) * m \in Int
      BY TimesFacts, TimesOne
    <3>2. ((k - 1) + 1) * m = (k - 1) * m + m /\ (k - 1) + 1 = k
      BY TimesOne
    <3>3. QED BY <3>1, <3>2
  <2>2. p + m <= z
    <3>1. k <= f
      BY <1>10
    <3>2. k * m <= f * m
      BY <3>1, TimesFacts
    <3>3. QED BY <1>8, <2>1, <3>2
  <2>3. PICK u : u = SubSeq(s, p + 1, p + m)
    OBVIOUS
  <2>4. u \in Seq(Nat) /\ Len(u) = m /\ Follows(u, Samples, a + p)
    <3>1. p + m <= Len(s) /\ m \in Nat /\ Follows(s, Samples, a)
      BY <1>7, <2>2
    <3>2. /\ SubSeq(s, p + 1, p + m) \in Seq(Nat) /\ Len(SubSeq(s, p + 1, p + m)) = m
          /\ Follows(SubSeq(s, p + 1, p + m), Samples, a + p)
      BY <3>1, FollowsCut, Zenon
    <3>3. QED BY <2>3, <3>2
  <2>5. a + p = ((l + k) - 1) * m /\ l + k \in Nat \ {0} /\ a + p \in Nat
    <3>1. (l + (k - 1)) * m = l * m + (k - 1) * m
      BY TimesMore
    <3>2. l + (k - 1) = (l + k) - 1
      OBVIOUS
    <3>3. QED BY <1>3, <2>1, <3>1, <3>2
  <2>6. u = BarsOfSamples[l + k] /\ u \in [1 .. m -> Nat]
    BY <1>1, <2>4, <2>5, BarOf
  <2>7. h[k] = u
    BY <1>11, <2>1, <2>3
  <2>8. QED BY <2>6, <2>7
<1>14. file' \in Seq([1 .. m -> Nat]) /\ Len(file') = l + g /\ Follows(file', BarsOfSamples, 0)
  <2>1. PICK V : V = [1 .. m -> Nat]
    OBVIOUS
  <2>2. h \in [1 .. g -> V]
    BY <1>11, <1>13, <2>1
  <2>3. h \in Seq(V) /\ Len(h) = g
    BY <2>2, SeqDef, LenProperties
  <2>4. file \in Seq(V) /\ 0 \in Nat /\ 0 + Len(file) = l
    BY <1>2, <1>4, <2>1
  <2>5. Follows(h, BarsOfSamples, l)
    BY <1>13, <2>3 DEF Follows
  <2>6. /\ file \o h \in Seq(V) /\ Len(file \o h) = Len(file) + Len(h)
        /\ Follows(file \o h, BarsOfSamples, 0)
    BY <1>4, <2>3, <2>4, <2>5, FollowsOn
  <2>7. QED BY <1>2, <1>12, <2>1, <2>3, <2>6
<1>15. /\ samplesPerBar' = m /\ barCount' = c
       /\ BarsOfSamples' = BarsOfSamples /\ Samples' = Samples
       /\ Wanted(total)' = Wanted(total) /\ Wanted(d + x.size)' = Wanted(d + x.size)
  BY <1>1 DEF samplesPerBar, barCount, BarsOfSamples, Samples, Wanted
<1>16. CASE l + g = c
  <2>1. c * m <= Wanted(total)
    <3>1. g * m <= f * m /\ g * m \in Int
      <4>1. g \in Int /\ f \in Int /\ m \in Nat
        OBVIOUS
      <4>2. QED BY <1>10, <4>1, TimesFacts
    <3>2. (l + g) * m = l * m + g * m
      BY TimesMore
    <3>3. PICK y \in Int : y = g * m
      BY <3>1
    <3>4. c * m = a + y /\ y <= q
      BY <1>3, <1>8, <1>16, <3>1, <3>2, <3>3
    <3>5. PICK v \in Nat : v = Wanted(total)
      BY <1>5, WantedFacts
    <3>6. a + b + n <= v
      BY <1>5, <1>6, <3>5, WantedGrows
    <3>7. a + y <= v
      BY <1>7, <1>8, <3>4, <3>6
    <3>8. QED BY <3>4, <3>5, <3>7
  <2>2. BarsFull'
    <3>1. Len(file') * m <= Wanted(total)'
      BY <1>14, <1>15, <1>16, <2>1
    <3>2. Follows(file, BarsOfSamples, 0)'
      BY <1>14, <1>15 DEF Follows
    <3>3. QED BY <1>14, <1>15, <1>16, <3>1, <3>2 DEF BarsFull
  <2>3. QED BY <1>1, <1>14, <1>16, <2>2
<1>17. CASE l + g # c
  <2>1. g = f /\ l + g < c
    BY <1>10, <1>17
  <2>2. bar' \in Seq(Nat) /\ Len(bar') = r /\ Follows(bar', Samples, a + q)
    <3>1. q + r <= Len(s) /\ Follows(s, Samples, a)
      BY <1>7, <1>9
    <3>2. /\ SubSeq(s, q + 1, q + r) \in Seq(Nat) /\ Len(SubSeq(s, q + 1, q + r)) = r
          /\ Follows(SubSeq(s, q + 1, q + r), Samples, a + q)
      BY <3>1, FollowsCut, Zenon
    <3>3. QED BY <1>12, <3>2
  <2>3. (l + f) * m = a + q
    <3>1. (l + f) * m = l * m + f * m
      BY TimesMore
    <3>2. QED BY <1>3, <1>8, <3>1
  <2>4. a + q + r = Wanted(d + x.size)
    <3>1. q + r = b + n
      BY <1>7, <1>9
    <3>2. a + q + r = a + b + n
      BY <3>1
    <3>3. QED BY <1>6, <3>2
  <2>5. Len(file') * samplesPerBar' = a + q
    BY <1>14, <1>15, <2>1, <2>3
  <2>6. Follows(bar, Samples, Len(file) * samplesPerBar)'
    BY <1>15, <2>2, <2>5 DEF Follows
  <2>7. Follows(file, BarsOfSamples, 0)'
    BY <1>14, <1>15 DEF Follows
  <2>8. BarsUpTo(d + x.size)'
    BY <1>9, <1>14, <1>15, <2>1, <2>2, <2>4, <2>5, <2>6, <2>7 DEF BarsUpTo
  <2>9. FileUpTo(d + x.size)'
    BY <2>8 DEF FileUpTo, Compressing
  <2>10. QED BY <1>1, <1>14, <1>17, <2>9
<1>18. QED BY <1>16, <1>17

(***************************************************************************)
(* Every step.                                                             *)
(***************************************************************************)
LEMMA CompressedKeeps ==
    ASSUME TranscodingIInv, Compressed \/ Converted
    PROVE  TranscodingIInv'
<1>1. PICK o \in Outputs : WriteSampleData(o[1]) /\ Output(o[1], o[2], FALSE)
  BY DEF Compressed, Converted
<1>2. Compressing /\ TranscodingTypes /\ UNCHANGED routine
  BY <1>1 DEF Compressed, Converted, Compressing, TranscodingIInv, Output
<1>3. \A d \in Nat : FileUpTo(d) /\ IsNext(o[1], d) => FileUpTo(d + o[1].size)'
  BY <1>1, <1>2, PiecesMore
<1>4. FALSE \in BOOLEAN
  OBVIOUS
<1>5. QED BY <1>1, <1>3, <1>4, OutputKeeps

LEMMA DecodedKeeps ==
    ASSUME TranscodingIInv, Decoded
    PROVE  TranscodingIInv'
<1>1. PICK o \in Outputs : WritePcm(o[1]) /\ Output(o[1], o[2], FALSE)
  BY DEF Decoded
<1>2. routine = "decodeOpusToPcm" /\ TranscodingTypes /\ UNCHANGED routine
  BY <1>1 DEF Decoded, TranscodingIInv, Output
<1>3. \A d \in Nat : FileUpTo(d) /\ IsNext(o[1], d) => FileUpTo(d + o[1].size)'
  BY <1>1, <1>2, SamplesMore
<1>4. FALSE \in BOOLEAN
  OBVIOUS
<1>5. QED BY <1>1, <1>3, <1>4, OutputKeeps

LEMMA MeasuredKeeps ==
    ASSUME TranscodingIInv, Measured
    PROVE  TranscodingIInv'
<1>1. PICK o \in Outputs : WriteBars(o[1]) /\ Output(o[1], o[2], Len(file') = barCount)
  BY DEF Measured
<1>2. PICK enough \in BOOLEAN : enough = (Len(file') = barCount)
  OBVIOUS
<1>3. /\ routine = "decodeOggEnergyBars" /\ TranscodingTypes /\ UNCHANGED <<routine, total>>
      /\ InCodec /\ FileIsDelivered
  BY <1>1 DEF Measured, TranscodingIInv, Output
<1>4. \A d \in Nat : FileUpTo(d) /\ IsNext(o[1], d) =>
        /\ Len(file') = barCount => BarsFull'
        /\ Len(file') # barCount => FileUpTo(d + o[1].size)'
  BY <1>1, <1>3, BarsMore
<1>5. PICK d \in Nat : d = Delivered /\ FileUpTo(d)
  BY <1>3 DEF FileIsDelivered, TranscodingTypes
<1>6. IsNext(o[1], d)
  BY <1>3, <1>5, OutputIsNext
<1>7. enough => BarsFull'
  BY <1>2, <1>4, <1>5, <1>6
<1>8. \A e \in Nat : FileUpTo(e) /\ IsNext(o[1], e) /\ ~enough => FileUpTo(e + o[1].size)'
  BY <1>2, <1>4
<1>9. Output(o[1], o[2], enough)
  BY <1>1, <1>2
<1>10. QED BY <1>3, <1>7, <1>8, <1>9, OutputKeeps

LEMMA ThrowKeeps ==
    ASSUME TranscodingIInv, Throw
    PROVE  TranscodingIInv'
<1>1. /\ transcoder \in {"input", "output"} /\ transcoder' = "failed"
      /\ UNCHANGED <<routine, total, position, presentationUs, pending, inputDone, bar, pcmFile>>
      /\ file' = IF routine \in {"compressToAac", "decodeOpusToPcm"} THEN <<>> ELSE file
  BY DEF Throw
<1>2. TranscodingTypes'
  BY <1>1 DEF TranscodingIInv, TranscodingTypes, Places2
<1>3. total \in Nat /\ pcmFile'
  BY <1>1 DEF TranscodingIInv, TranscodingTypes
<1>4. FileIsBegun'
  <2>1. CASE routine \in {"compressToAac", "decodeOpusToPcm"}
    <3>1. file' = <<>> /\ Len(<<>>) = 0
      BY <1>1, <2>1, EmptySeq
    <3>2. PiecesUpTo(0)'
      BY <3>1, EmptySeq DEF PiecesUpTo, SoFar
    <3>3. SamplesUpTo(0)'
      <4>1. Wanted(0)' = 0
        BY WantedNone DEF Wanted
      <4>2. QED BY <3>1, <4>1, EmptySeq DEF SamplesUpTo, Follows
    <3>4. FileUpTo(0)'
      BY <1>1, <2>1, <3>2, <3>3 DEF FileUpTo
    <3>5. 0 \in 0 .. total'
      BY <1>1, <1>3
    <3>6. QED BY <3>4, <3>5 DEF FileIsBegun
  <2>2. CASE routine \notin {"compressToAac", "decodeOpusToPcm"}
    <3>1. PICK n \in 0 .. total : FileUpTo(n)
      BY <1>1 DEF TranscodingIInv, FileIsDelivered
    <3>2. FileUpTo(n)'
      BY <1>1, <2>2, <3>1, FileSame
    <3>3. QED BY <1>1, <3>2 DEF FileIsBegun
  <2>3. QED BY <2>1, <2>2
<1>5. QED BY <1>1, <1>2, <1>3, <1>4 DEF TranscodingIInv

\* What is written stays as it is.
LEMMA WholeSame ==
    ASSUME UNCHANGED <<file, bar, routine, total>>
    PROVE  FileIsWhole => FileIsWhole'
<1>1. (\E n \in 0 .. total : n = total /\ FileUpTo(n)) =>
          \E n \in 0 .. total' : n = total' /\ FileUpTo(n)'
  BY FileSame
<1>2. BarsFull => BarsFull'
  <2>1. samplesPerBar' = samplesPerBar /\ barCount' = barCount
    BY DEF samplesPerBar, barCount
  <2>2. BarsOfSamples' = BarsOfSamples
    BY <2>1 DEF BarsOfSamples
  <2>3. QED BY <2>1, <2>2 DEF BarsFull, Follows, Wanted
<1>3. QED BY <1>1, <1>2 DEF FileIsWhole

LEMMA EndKeeps ==
    ASSUME TranscodingIInv, DeleteSource \/ CloseAll
    PROVE  TranscodingIInv'
<1>1. UNCHANGED <<routine, total, position, presentationUs, pending, inputDone, file, bar>>
  BY DEF DeleteSource, CloseAll
<1>2. FileIsWhole => FileIsWhole'
  BY <1>1, WholeSame
<1>3. FileIsBegun => FileIsBegun'
  BY <1>1, FileSame DEF FileIsBegun
<1>4. CASE DeleteSource
  <2>1. transcoder = "done" /\ transcoder' = "closing"
        /\ pcmFile' = ~(routine = "compressToAac" /\ file # <<>>)
    BY <1>4 DEF DeleteSource
  <2>2. pcmFile' \in BOOLEAN /\ (~pcmFile' => routine' = "compressToAac")
    BY <1>1, <2>1
  <2>3. TranscodingTypes'
    BY <1>1, <2>1, <2>2 DEF TranscodingIInv, TranscodingTypes, Places2
  <2>4. FileIsWhole'
    BY <1>2, <2>1 DEF TranscodingIInv
  <2>5. QED BY <2>1, <2>2, <2>3, <2>4 DEF TranscodingIInv
<1>5. CASE CloseAll
  <2>1. /\ pcmFile' = pcmFile
        /\ \/ transcoder = "closing" /\ transcoder' = "true"
           \/ transcoder = "failed" /\ transcoder' = "false"
    BY <1>5 DEF CloseAll
  <2>2. TranscodingTypes'
    BY <1>1, <2>1 DEF TranscodingIInv, TranscodingTypes, Places2
  <2>3. QED BY <1>1, <1>2, <1>3, <2>1, <2>2 DEF TranscodingIInv
<1>6. QED BY <1>4, <1>5

LEMMA NextKeepsTranscodingIInv ==
    ASSUME TranscodingIInv, [TranscodingNext]_transcoding_vars
    PROVE  TranscodingIInv'
<1>1. CASE NoInput \/ NoOutput \/ FormatChanged
  BY <1>1, QuietKeeps DEF NoInput, NoOutput, FormatChanged
<1>2. CASE UNCHANGED transcoding_vars
  <2>1. UNCHANGED <<routine, total, position, presentationUs, pending, inputDone, file, bar,
                    pcmFile, transcoder>>
    BY <1>2 DEF transcoding_vars
  <2>2. CASE transcoder \in {"input", "output"}
    BY <2>1, <2>2, QuietKeeps
  <2>3. CASE transcoder \notin {"input", "output"}
    <3>1. FileIsWhole => FileIsWhole'
      BY <2>1, WholeSame
    <3>2. FileIsBegun => FileIsBegun'
      BY <2>1, FileSame DEF FileIsBegun
    <3>3. TranscodingTypes'
      BY <2>1 DEF TranscodingIInv, TranscodingTypes
    <3>4. QED BY <2>1, <2>3, <3>1, <3>2, <3>3 DEF TranscodingIInv
  <2>4. QED BY <2>2, <2>3
<1>3. CASE CompressChunk \/ ConvertRead \/ DecodePacket \/ MeasurePacket
  BY <1>3, InputKeeps
<1>4. CASE Compressed \/ Converted \/ Decoded \/ Measured
  BY <1>4, CompressedKeeps, DecodedKeeps, MeasuredKeeps
<1>5. CASE Throw \/ DeleteSource \/ CloseAll
  BY <1>5, ThrowKeeps, EndKeeps
<1>6. QED BY <1>1, <1>2, <1>3, <1>4, <1>5 DEF TranscodingNext

\* FilesAreTheRecording: a file of sound is the recording, however its maker is
\* interrupted, starved or torn down, in recordings of any length and in files
\* of any rate, packet and number of bars.
THEOREM FilesStayTheRecording == MCSpec => []FilesAreTheRecording
<1> DEFINE Both == EncoderIInv /\ TranscodingIInv
<1>1. MCInit => Both
  BY InitEncoderIInv, InitTranscodingIInv DEF MCInit
<1>2. Both /\ [MCNext]_<<vars, transcoding_vars, recorded>> => Both'
  <2> SUFFICES ASSUME Both, [MCNext]_<<vars, transcoding_vars, recorded>> PROVE Both'
    OBVIOUS
  <2>1. [Next]_vars /\ [TranscodingNext]_transcoding_vars
    BY DEF MCNext
  <2>2. QED BY <2>1, NextKeepsEncoderIInv, NextKeepsTranscodingIInv
<1>3. Both => FilesAreTheRecording
  BY FileIsRight, TranscodedIsRight DEF FilesAreTheRecording
<1> HIDE DEF Both
<1>4. QED BY <1>1, <1>2, <1>3, PTL DEF MCSpec
================================================================================
