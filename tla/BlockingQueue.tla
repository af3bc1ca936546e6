----------------------------- MODULE BlockingQueue -----------------------------
(***************************************************************************)
(* utils/blocking_queue.h: a bounded queue under one mutex with the two    *)
(* conditions not_full_condition_ and not_empty_condition_.  A step of a   *)
(* thread is what it does from the moment it has the mutex until it waits  *)
(* or leaves, so threads interleave where the code lets them.  A thread    *)
(* that waits is in the waiting set of its condition; notify_one takes any *)
(* one of them out, a spurious wake-up does as well, and it goes on when   *)
(* it gets the mutex.                                                      *)
(***************************************************************************)
EXTENDS Integers, Sequences, FiniteSets

CONSTANTS Threads,    \* the threads that use the queue
          Values,     \* what is queued
          Capacity,   \* capacity_
          Groups,     \* ways the threads use it: [push, pop : threads, batch : allowed]
          Batches,    \* the vectors pushed
          PopSizes,   \* the numbers asked of Pop(num)
          MaxCalls    \* bound on the calls made

\* The vector calls wake one thread for many values, so they are for one producer and
\* one consumer (feature_pipeline.cc, the only user of the queue, has one of each).
ASSUME ThreadsAssumption == IsFiniteSet(Threads)
ASSUME GroupsAssumption ==
    \A g \in Groups : g.batch => \E p, c \in Threads : g.push = {p} /\ g.pop = {c}
ASSUME CapacityAssumption == Capacity \in Nat \ {0}
ASSUME BatchesAssumption == Batches \subseteq Seq(Values)
ASSUME PopSizesAssumption == PopSizes \subseteq Nat
ASSUME MaxCallsAssumption == MaxCalls \in Nat

VARIABLES users,      \* the member of Groups that is in force
          queue_,
          not_full,   \* threads waiting on not_full_condition_
          not_empty,  \* threads waiting on not_empty_condition_
          call,       \* the call each thread is in, with what is left to do
          pushed,     \* history: every value that entered, in order
          popped,     \* history: every value that left, in order
          calls       \* calls made so far

queue_vars == <<users, queue_, not_full, not_empty, call, pushed, popped, calls>>

NoCall == [op |-> "none"]

\* What is left of a call: the values of a Push still to queue, the block_data
\* of a Pop(num) still to be filled by num values.  "notify" is the time
\* between the end of the scope that holds the mutex and notify_one.
Calls ==
    {NoCall} \cup {[op |-> "notify"]} \cup [op : {"Pop", "Clear", "ClearPop"}]
      \cup [op : {"Push"}, value : Values]
      \cup [op : {"PushAll"}, values : Seq(Values), unlocks : BOOLEAN]
      \cup [op : {"PopNum"}, num : Nat]

QueueInit ==
    /\ users \in Groups
    /\ queue_ = <<>>
    /\ not_full = {}
    /\ not_empty = {}
    /\ call = [t \in Threads |-> NoCall]
    /\ pushed = <<>>
    /\ popped = <<>>
    /\ calls = 0

Full == Len(queue_) >= Capacity

Running(t, op) ==
    /\ call[t].op = op
    /\ t \notin not_full \cup not_empty

\* One waiter, any of them, leaves the set; without waiters nothing happens.
NotifyOne(waiting, rest) ==
    \/ waiting = {} /\ rest = {}
    \/ \E t \in waiting : rest = waiting \ {t}

Put(values) ==
    /\ queue_' = queue_ \o values
    /\ pushed' = pushed \o values
    /\ UNCHANGED popped

Take(n) ==
    /\ queue_' = SubSeq(queue_, n + 1, Len(queue_))
    /\ popped' = popped \o SubSeq(queue_, 1, n)
    /\ UNCHANGED pushed

Goes(t, c) == call' = [call EXCEPT ![t] = c]

UNCHANGED_Queue == UNCHANGED <<queue_, pushed, popped>>

(***************************************************************************)
(* Calls                                                                   *)
(***************************************************************************)
Start(t, c) ==
    /\ call[t] = NoCall
    /\ calls < MaxCalls
    /\ Goes(t, c)
    /\ calls' = calls + 1
    /\ UNCHANGED <<users, not_full, not_empty>>
    /\ UNCHANGED_Queue

CallPush(t) == t \in users.push /\ \E v \in Values : Start(t, [op |-> "Push", value |-> v])

\* The overload for an rvalue notifies before it gives the mutex back.
CallPushAll(t) ==
    /\ t \in users.push /\ users.batch
    /\ \E s \in Batches, u \in BOOLEAN :
         Start(t, [op |-> "PushAll", values |-> s, unlocks |-> u])

CallPop(t) == t \in users.pop /\ Start(t, [op |-> "Pop"])

CallPopNum(t) ==
    /\ t \in users.pop /\ users.batch
    /\ \E n \in PopSizes : Start(t, [op |-> "PopNum", num |-> n])

CallClear(t) == t \in users.pop /\ Start(t, [op |-> "Clear"])

(***************************************************************************)
(* Under the mutex                                                         *)
(***************************************************************************)
\* Push of one value.
Push(t) ==
    /\ Running(t, "Push")
    /\ \/ /\ Full
          /\ not_full' = not_full \cup {t}
          /\ UNCHANGED call
          /\ UNCHANGED_Queue
       \/ /\ ~Full
          /\ Put(<<call[t].value>>)
          /\ Goes(t, [op |-> "notify"])
          /\ UNCHANGED not_full
    /\ UNCHANGED <<users, not_empty, calls>>

Room == Capacity - Len(queue_)

\* Mutant: the producer waits without waking the consumer of what it has queued.
Mut_WaitsUnnoticed(t) ==
    /\ Running(t, "PushAll")
    /\ LET s == call[t].values IN
       \/ /\ Len(s) > Room
          /\ Put(SubSeq(s, 1, Room))
          /\ Goes(t, [call[t] EXCEPT !.values = SubSeq(s, Room + 1, Len(s))])
          /\ not_full' = not_full \cup {t}
          /\ UNCHANGED not_empty
       \/ /\ Len(s) <= Room
          /\ Put(s)
          /\ Goes(t, NoCall)
          /\ NotifyOne(not_empty, not_empty')
          /\ UNCHANGED not_full
    /\ UNCHANGED <<users, calls>>

\* Push of a vector: as many values as there is room for; before it waits for
\* more room a consumer is woken, and one is woken at the end.
PushAll(t) ==
    /\ Running(t, "PushAll")
    /\ LET s == call[t].values IN
       \/ /\ Len(s) > Room
          /\ Put(SubSeq(s, 1, Room))
          /\ Goes(t, [call[t] EXCEPT !.values = SubSeq(s, Room + 1, Len(s))])
          /\ not_full' = not_full \cup {t}
          /\ NotifyOne(not_empty, not_empty')
       \/ /\ Len(s) <= Room
          /\ Put(s)
          /\ UNCHANGED not_full
          /\ \/ call[t].unlocks /\ Goes(t, [op |-> "notify"]) /\ UNCHANGED not_empty
             \/ ~call[t].unlocks /\ Goes(t, NoCall) /\ NotifyOne(not_empty, not_empty')
    /\ UNCHANGED <<users, calls>>

\* notify_one after the mutex was given back.
NotifyNotEmpty(t) ==
    /\ Running(t, "notify")
    /\ NotifyOne(not_empty, not_empty')
    /\ Goes(t, NoCall)
    /\ UNCHANGED <<users, not_full, calls>>
    /\ UNCHANGED_Queue

\* Pop of one value, by itself or in the loop of Clear.
PopOne(t, next) ==
    /\ \/ /\ queue_ = <<>>
          /\ not_empty' = not_empty \cup {t}
          /\ UNCHANGED <<not_full, call>>
          /\ UNCHANGED_Queue
       \/ /\ queue_ # <<>>
          /\ Take(1)
          /\ NotifyOne(not_full, not_full')
          /\ Goes(t, next)
          /\ UNCHANGED not_empty
    /\ UNCHANGED <<users, calls>>

\* Mutant: the lock is taken for one value at a time and the newest is handed out.
Mut_PopNewest(t) ==
    /\ Running(t, "Pop")
    /\ queue_ # <<>>
    /\ queue_' = SubSeq(queue_, 1, Len(queue_) - 1)
    /\ popped' = Append(popped, queue_[Len(queue_)])
    /\ NotifyOne(not_full, not_full')
    /\ Goes(t, NoCall)
    /\ UNCHANGED <<users, not_empty, calls, pushed>>

Pop(t) == Running(t, "Pop") /\ PopOne(t, NoCall)

\* Pop(num): all there is, up to num; with fewer, a producer is woken and the
\* consumer waits for more, holding the ones it has.
PopNum(t) ==
    /\ Running(t, "PopNum")
    /\ LET n == call[t].num IN
       \/ /\ n > Len(queue_)
          /\ Take(Len(queue_))
          /\ Goes(t, [call[t] EXCEPT !.num = n - Len(queue_)])
          /\ not_empty' = not_empty \cup {t}
       \/ /\ n <= Len(queue_)
          /\ Take(n)
          /\ Goes(t, NoCall)
          /\ UNCHANGED not_empty
    /\ NotifyOne(not_full, not_full')
    /\ UNCHANGED <<users, calls>>

\* Clear tests Empty() and calls Pop() under two separate locks.
ClearTest(t) ==
    /\ Running(t, "Clear")
    /\ Goes(t, IF queue_ = <<>> THEN NoCall ELSE [op |-> "ClearPop"])
    /\ UNCHANGED <<users, not_full, not_empty, calls>>
    /\ UNCHANGED_Queue

ClearPop(t) == Running(t, "ClearPop") /\ PopOne(t, [op |-> "Clear"])

SpuriousWakeUp(t) ==
    /\ t \in not_full \cup not_empty
    /\ not_full' = not_full \ {t}
    /\ not_empty' = not_empty \ {t}
    /\ UNCHANGED <<users, call, calls>>
    /\ UNCHANGED_Queue

QueueNext ==
    \E t \in Threads :
      \/ CallPush(t) \/ CallPushAll(t) \/ CallPop(t) \/ CallPopNum(t) \/ CallClear(t)
      \/ Push(t) \/ PushAll(t) \/ NotifyNotEmpty(t)
      \/ Pop(t) \/ PopNum(t) \/ ClearTest(t) \/ ClearPop(t)
      \/ SpuriousWakeUp(t)

QueueSpec == QueueInit /\ [][QueueNext]_queue_vars

(***************************************************************************)
(* Properties                                                              *)
(***************************************************************************)
\* Types, and the limit: no interleaving of pushes takes the queue above its
\* capacity, whether a value or a whole vector is pushed.
QueueTypeOK ==
    /\ users \in Groups
    /\ queue_ \in Seq(Values) /\ Len(queue_) <= Capacity
    /\ not_full \subseteq Threads /\ not_empty \subseteq Threads
    /\ call \in [Threads -> Calls]
    /\ pushed \in Seq(Values) /\ popped \in Seq(Values)
    /\ calls \in 0 .. MaxCalls

\* First in, first out over all threads together: what has left, followed by
\* what is queued, is what entered, in that order; none lost, none doubled.
FirstInFirstOut == pushed = popped \o queue_

\* Nobody is left asleep beside work: when every thread that is in a call
\* waits, no consumer waits at a queue with values and no producer at one with
\* room.  It is what the notify_one before each wait of a vector call is for.
NobodyStranded ==
    (\A t \in Threads : call[t] = NoCall \/ t \in not_full \cup not_empty) =>
      /\ not_empty # {} => queue_ = <<>>
      /\ not_full # {} => Full

(***************************************************************************)
(* The inductive invariant behind NobodyStranded.                          *)
(***************************************************************************)
PushOps == {"Push", "PushAll", "notify"}
PopOps == {"Pop", "PopNum", "Clear", "ClearPop"}

Awake(ops) == {t \in Threads : call[t].op \in ops /\ t \notin not_full \cup not_empty}

\* Who waits where, and who makes which calls.
WhoWaits ==
    \A t \in Threads :
      /\ t \in not_full => call[t].op \in {"Push", "PushAll"}
      /\ t \in not_empty => call[t].op \in {"Pop", "PopNum", "ClearPop"}
      /\ call[t].op \in PushOps => t \in users.push
      /\ call[t].op \in PopOps => t \in users.pop
      /\ call[t].op \in {"PushAll", "PopNum"} => users.batch

\* Single values: while a consumer waits, every value has a consumer that is awake or a
\* notify_one that is still to come; while a producer waits, every free place has a
\* producer that is awake.
EnoughAwake ==
    ~users.batch =>
      /\ not_empty # {} => Len(queue_) <= Cardinality(Awake({"notify", "Pop", "ClearPop"}))
      /\ not_full # {} => Room <= Cardinality(Awake({"Push"}))

\* One producer and one consumer: whoever leaves work behind has woken the other, or will.
OtherAwake ==
    users.batch =>
      /\ not_empty # {} => queue_ = <<>> \/ Awake({"notify"}) # {}
      /\ not_full # {} => Full

WakeInv == WhoWaits /\ EnoughAwake /\ OtherAwake
================================================================================
