----------------------------- MODULE MCVadTimeline -----------------------------
(***************************************************************************)
(* SileroVad and VadTimeline with buffers shorter than, equal to and       *)
(* longer than a chunk of two samples, and padding longer than what is     *)
(* skipped at a time, as in the program (1000 ms for 32 ms).  Beside them  *)
(* TimedResult: the times of the words, or the words' way to the screen.   *)
(***************************************************************************)
EXTENDS VadTimeline, TimedResult

BufferLengths == {1, 2, 3, 5}
OneSlot == {1}
Settings == {1, 2, 3}

VARIABLE watched

MCInit ==
  /\ watched \in {"times", "words"}
  /\ TimelineInit
  /\ ResultInit
  /\ watched = "words" => preBufferSlots = 1

\* A result that is saved stays as it is.
Saved == asr = "exit" /\ dec = "exit" /\ UNCHANGED resultVars

MCNext ==
  /\ UNCHANGED watched
  /\ \/ watched = "times" /\ TimelineNext /\ UNCHANGED resultVars
     \/ watched = "words" /\ (ResultNext \/ Saved) /\ UNCHANGED timelineVars

MCSpec == MCInit /\ [][MCNext]_<<timelineVars, resultVars, watched>>
================================================================================
