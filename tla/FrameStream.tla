------------------------------ MODULE FrameStream ------------------------------
(***************************************************************************)
(* What a FeaturePipeline promises its two users, with no queue, no mutex  *)
(* and no condition variable (the contract of feature_pipeline.h:87-128):  *)
(* frames are read in the order they were extracted, each exactly once; a  *)
(* Read either returns all the frames asked for, or, once the input is     *)
(* finished, whatever is left together with the end of the stream.         *)
(***************************************************************************)
EXTENDS Integers, Sequences

CONSTANTS Frame,      \* the values a frame can take
          ReadSizes   \* the numbers of frames a Read asks for

VARIABLES produced,   \* frames extracted in this utterance, oldest first
          delivered,  \* frames the reader has received in this utterance
          finished,   \* no more frames will be produced
          ended       \* the reader has been told the stream is over

vars == <<produced, delivered, finished, ended>>

Init ==
  /\ produced = <<>>
  /\ delivered = <<>>
  /\ finished = FALSE
  /\ ended = FALSE

\* Any number of frames, none included, is added behind those already there.
Produce ==
  /\ ~finished
  /\ produced' \in Seq(Frame)
  /\ Len(produced') >= Len(produced)
  /\ SubSeq(produced', 1, Len(produced)) = produced
  /\ UNCHANGED <<delivered, finished, ended>>

Finish ==
  /\ ~finished
  /\ finished' = TRUE
  /\ UNCHANGED <<produced, delivered, ended>>

\* A Read that returns true: the next n frames, in order.
Deliver(n) ==
  /\ Len(delivered) + n <= Len(produced)
  /\ delivered' = SubSeq(produced, 1, Len(delivered) + n)
  /\ UNCHANGED <<produced, finished, ended>>

\* A Read of n that returns false: fewer than n were left, and all are taken.
End(n) ==
  /\ finished
  /\ Len(produced) - Len(delivered) < n
  /\ delivered' = produced
  /\ ended' = TRUE
  /\ UNCHANGED <<produced, finished>>

Restart ==
  /\ produced' = <<>>
  /\ delivered' = <<>>
  /\ finished' = FALSE
  /\ ended' = FALSE

Next ==
  \/ Produce
  \/ Finish
  \/ \E n \in ReadSizes : Deliver(n) \/ End(n)
  \/ Restart

Spec == Init /\ [][Next]_vars
================================================================================
