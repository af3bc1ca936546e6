-------------------------------- MODULE MCQueues --------------------------------
(***************************************************************************)
(* The two queues between threads for TLC, one of them at a time.  The     *)
(* BlockingQueue is used by threads that pass single values, several on    *)
(* each side, or by one producer and one consumer that pass vectors too;   *)
(* some vectors and requests are longer than the capacity.                 *)
(***************************************************************************)
EXTENDS BlockingQueue, DecoderMain

MCGroups ==
    {[push |-> {1, 2}, pop |-> {3, 4}, batch |-> FALSE],
     [push |-> {1}, pop |-> {3}, batch |-> TRUE]}

MCBatches == {<<>>, <<1, 2>>, <<1, 1, 2>>}

MCWaveDur == <<1, 2, 4>>

VARIABLE pool   \* the thread pool is used, not the queue

MCInit ==
    /\ pool \in BOOLEAN
    /\ QueueInit
    /\ MainInit
    /\ IF pool THEN users.batch ELSE waves = 1 /\ warmups = 0

MCNext ==
    /\ UNCHANGED pool
    /\ \/ pool /\ MainNext /\ UNCHANGED queue_vars
       \/ ~pool /\ QueueNext /\ UNCHANGED <<pool_vars, main_vars>>

MCSpec ==
    /\ MCInit /\ [][MCNext]_<<queue_vars, pool_vars, main_vars, pool>>
    /\ pool => MainFairness
================================================================================
