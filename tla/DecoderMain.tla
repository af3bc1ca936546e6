------------------------------- MODULE DecoderMain -------------------------------
(***************************************************************************)
(* bin/decoder_main.cc: the wave files of a list are decoded by the        *)
(* workers of a ThreadPool, after a warm-up with a pool of its own that    *)
(* decodes the first wave a few times; every Decode that is not a warm-up  *)
(* writes its line and adds to the totals under g_mutex, and main prints   *)
(* the totals when the pool is gone.                                       *)
(*                                                                         *)
(* The first part is the pool, the second the program.                     *)
(***************************************************************************)
EXTENDS Integers, Sequences, FiniteSets

(***************************************************************************)
(* utils/thread_pool.h: a fixed number of workers, a queue of tasks under  *)
(* queue_mutex, and a destructor that lets the workers empty the queue and *)
(* joins them.  A step of a worker is what it does from the moment it has  *)
(* the mutex until it waits, takes a task or returns.  A task is run       *)
(* outside the mutex; what it does is the user's.                          *)
(***************************************************************************)
CONSTANT Workers   \* the threads of a pool

\* FLAGS_thread_num is 1 if nothing else is asked; a pool of none would join nobody
\* and give up every task.
ASSUME WorkersAssumption == Workers # {}

VARIABLES workers,   \* none | wakes | waits | runs | returned
          running,   \* the task each worker runs
          tasks,
          stop

pool_vars == <<workers, running, tasks, stop>>

NoTask == <<>>

PoolInit ==
    /\ workers = [w \in Workers |-> "none"]
    /\ running = [w \in Workers |-> NoTask]
    /\ tasks = <<>>
    /\ stop = FALSE

\* The constructor.
NewPool ==
    /\ workers' = [w \in Workers |-> "wakes"]
    /\ running' = [w \in Workers |-> NoTask]
    /\ tasks' = <<>>
    /\ stop' = FALSE

Waiting == {w \in Workers : workers[w] = "waits"}

\* Mutant: a stopped pool drops the tasks nobody has taken.
Mut_DropsTasks(w) ==
    /\ workers[w] = "wakes"
    /\ IF stop THEN /\ workers' = [workers EXCEPT ![w] = "returned"]
                    /\ UNCHANGED <<running, tasks>>
       ELSE IF tasks = <<>> THEN /\ workers' = [workers EXCEPT ![w] = "waits"]
                                 /\ UNCHANGED <<running, tasks>>
       ELSE /\ workers' = [workers EXCEPT ![w] = "runs"]
            /\ running' = [running EXCEPT ![w] = Head(tasks)]
            /\ tasks' = Tail(tasks)
    /\ UNCHANGED stop

\* One turn of a worker's loop, from the lock to the wait, the task or the return.
TakeTask(w) ==
    /\ workers[w] = "wakes"
    /\ \/ /\ tasks # <<>>
          /\ workers' = [workers EXCEPT ![w] = "runs"]
          /\ running' = [running EXCEPT ![w] = Head(tasks)]
          /\ tasks' = Tail(tasks)
       \/ /\ tasks = <<>>
          /\ workers' = [workers EXCEPT ![w] = IF stop THEN "returned" ELSE "waits"]
          /\ UNCHANGED <<running, tasks>>
    /\ UNCHANGED stop

\* Mutant: a worker keeps its task for the next turn.
Mut_TaskKept(w) ==
    /\ workers[w] = "runs"
    /\ workers' = [workers EXCEPT ![w] = "wakes"]
    /\ UNCHANGED <<running, tasks, stop>>

\* The task has ended, or has thrown: a packaged_task keeps the exception in
\* its future and the worker goes on.
EndTask(w) ==
    /\ workers[w] = "runs"
    /\ workers' = [workers EXCEPT ![w] = "wakes"]
    /\ running' = [running EXCEPT ![w] = NoTask]
    /\ UNCHANGED <<tasks, stop>>

\* condition.wait may also return by itself; its predicate is then tested again.
SpuriousWake(w) ==
    /\ workers[w] = "waits"
    /\ workers' = [workers EXCEPT ![w] = "wakes"]
    /\ UNCHANGED <<running, tasks, stop>>

\* enqueue, up to the end of the scope that holds the mutex; on a stopped pool
\* it throws.
Enqueue(task) ==
    /\ ~stop
    /\ tasks' = Append(tasks, task)
    /\ UNCHANGED <<workers, running, stop>>

\* notify_one, after the mutex was given back.
NotifyOneWorker ==
    /\ \/ Waiting = {} /\ UNCHANGED workers
       \/ \E w \in Waiting : workers' = [workers EXCEPT ![w] = "wakes"]
    /\ UNCHANGED <<running, tasks, stop>>

Stop ==
    /\ stop' = TRUE
    /\ UNCHANGED <<workers, running, tasks>>

\* Mutant: the destructor wakes one worker only.
Mut_WakesOne == NotifyOneWorker

NotifyAllWorkers ==
    /\ workers' = [w \in Workers |-> IF w \in Waiting THEN "wakes" ELSE workers[w]]
    /\ UNCHANGED <<running, tasks, stop>>

AllJoined == \A w \in Workers : workers[w] = "returned"

--------------------------------------------------------------------------------
(***************************************************************************)
(* decoder_main.cc: main and its tasks.                                    *)
(***************************************************************************)
CONSTANTS WaveCounts,   \* the numbers of waves in the list
          Warmups,      \* the values of FLAGS_warmup
          WaveDur       \* the duration of each wave, as it is added to the total

ASSUME WaveCountsAssumption == WaveCounts \subseteq Nat \ {0}
ASSUME WarmupsAssumption == Warmups \subseteq Int
ASSUME WaveDurAssumption == \A n \in WaveCounts : \A k \in 1 .. n : WaveDur[k] \in Nat

VARIABLES phase,       \* where main is: warmup | decode | total, and in which statement
          at,          \* enqueue | notify | stop | notify_all | join
          left,        \* tasks main has still to enqueue in this pool
          waves,       \* the number of waves in the list
          warmups,
          g_result,    \* the waves whose lines were written, in order
          g_total_waves_dur,
          failed       \* history: waves whose Decode threw

main_vars == <<phase, at, left, waves, warmups, g_result, g_total_waves_dur, failed>>

Task(n, warmup) == [wav |-> n, warmup |-> warmup]

MainInit ==
    /\ PoolInit
    /\ phase = "start" /\ at = "join"
    /\ waves \in WaveCounts
    /\ warmups \in Warmups
    /\ left = <<>>
    /\ g_result = <<>>
    /\ g_total_waves_dur = 0
    /\ failed = {}

MainUnchanged == UNCHANGED <<waves, warmups, g_result, g_total_waves_dur, failed>>

StartPool(name, list) ==
    /\ NewPool
    /\ phase' = name
    /\ at' = IF list = <<>> THEN "stop" ELSE "enqueue"
    /\ left' = list
    /\ MainUnchanged

AllWaves == [n \in 1 .. waves |-> Task(n, FALSE)]

Warmup ==
    /\ phase = "start" /\ warmups > 0
    /\ StartPool("warmup", [n \in 1 .. warmups |-> Task(1, TRUE)])

DecodeAll ==
    /\ \/ phase = "start" /\ warmups <= 0
       \/ phase = "warmup" /\ at = "joined"
    /\ StartPool("decode", AllWaves)

MainEnqueue ==
    /\ at = "enqueue"
    /\ Enqueue(Head(left))
    /\ left' = Tail(left)
    /\ at' = "notify"
    /\ UNCHANGED phase /\ MainUnchanged

MainNotify ==
    /\ at = "notify"
    /\ NotifyOneWorker
    /\ at' = IF left = <<>> THEN "stop" ELSE "enqueue"
    /\ UNCHANGED <<phase, left>> /\ MainUnchanged

\* ~ThreadPool: stop under the mutex, notify_all, join.
MainStop ==
    /\ at = "stop"
    /\ Stop
    /\ at' = "notify_all"
    /\ UNCHANGED <<phase, left>> /\ MainUnchanged

MainNotifyAll ==
    /\ at = "notify_all"
    /\ NotifyAllWorkers
    /\ at' = "join"
    /\ UNCHANGED <<phase, left>> /\ MainUnchanged

MainJoin ==
    /\ at = "join" /\ phase \in {"warmup", "decode"}
    /\ AllJoined
    /\ at' = "joined"
    /\ UNCHANGED <<phase, left>> /\ MainUnchanged /\ UNCHANGED pool_vars

Total ==
    /\ phase = "decode" /\ at = "joined"
    /\ phase' = "total"
    /\ UNCHANGED <<at, left>> /\ MainUnchanged /\ UNCHANGED pool_vars

\* Mutant: a warm-up is counted like any other decoding.
Mut_CountsWarmup(w) ==
    /\ EndTask(w)
    /\ g_result' = Append(g_result, running[w].wav)
    /\ g_total_waves_dur' = g_total_waves_dur + WaveDur[running[w].wav]
    /\ UNCHANGED <<phase, at, left, waves, warmups, failed>>

\* The end of Decode, under g_mutex, and of its task.
Decode(w) ==
    /\ EndTask(w)
    /\ \/ /\ ~running[w].warmup
          /\ g_result' = Append(g_result, running[w].wav)
          /\ g_total_waves_dur' = g_total_waves_dur + WaveDur[running[w].wav]
       \/ /\ running[w].warmup
          /\ UNCHANGED <<g_result, g_total_waves_dur>>
    /\ UNCHANGED <<phase, at, left, waves, warmups, failed>>

\* A Decode that throws ends its task alone: main does not look at the future.
DecodeThrows(w) ==
    /\ EndTask(w)
    /\ failed' = IF running[w].warmup THEN failed ELSE failed \cup {running[w].wav}
    /\ UNCHANGED <<phase, at, left, waves, warmups, g_result, g_total_waves_dur>>

Worker(w) == TakeTask(w) /\ UNCHANGED main_vars

Spurious(w) == SpuriousWake(w) /\ UNCHANGED main_vars

MainStep ==
    Warmup \/ DecodeAll \/ MainEnqueue \/ MainNotify \/ MainStop \/ MainNotifyAll
      \/ MainJoin \/ Total

WorkerStep(w) == Worker(w) \/ Decode(w) \/ DecodeThrows(w)

MainNext == MainStep \/ \E w \in Workers : WorkerStep(w) \/ Spurious(w)

\* The scheduler runs every thread that can go on; nothing else is assumed, no
\* spurious wake-up in particular.
MainFairness ==
    /\ WF_<<pool_vars, main_vars>>(MainStep)
    /\ \A w \in Workers : WF_<<pool_vars, main_vars>>(WorkerStep(w))

MainSpec == MainInit /\ [][MainNext]_<<pool_vars, main_vars>> /\ MainFairness

(***************************************************************************)
(* Properties                                                              *)
(***************************************************************************)
MainTypeOK ==
    /\ workers \in [Workers -> {"none", "wakes", "waits", "runs", "returned"}]
    /\ \A w \in Workers : workers[w] = "runs" <=> running[w] # NoTask
    /\ phase \in {"start", "warmup", "decode", "total"}
    /\ at \in {"enqueue", "notify", "stop", "notify_all", "join", "joined"}

\* The duration of the waves of a list of lines.
TotalDur(result) ==
    LET sum[i \in 0 .. Len(result)] ==
          IF i = 0 THEN 0 ELSE sum[i - 1] + WaveDur[result[i]]
    IN  sum[Len(result)]

\* When the totals are printed every wave of the list has its one line or its
\* Decode threw, and the duration is that of the lines: the destructor gives up
\* no task, a task is taken once, and a warm-up adds nothing.
TotalsCoverTheList ==
    phase = "total" =>
      /\ \A n \in 1 .. waves :
           Cardinality({i \in DOMAIN g_result : g_result[i] = n})
             = IF n \in failed THEN 0 ELSE 1
      /\ Len(g_result) = waves - Cardinality(failed)
      /\ g_total_waves_dur = TotalDur(g_result)

\* Each wave is counted once, and a worker that runs has a task.
EveryWaveCountedOnce == MainTypeOK /\ TotalsCoverTheList

\* A started program ends: no worker sleeps through the stop of its pool, and
\* none through a task while the others are gone.
MainEnds == (phase # "start") ~> (phase = "total")
================================================================================
