------------------------------ MODULE MCDecoding -------------------------------
(***************************************************************************)
(* The subsampling and context of the 4x convolution, with chunks of two   *)
(* outputs (11 frames, then 8) and without chunks, and frames that arrive  *)
(* in pieces smaller than, equal to and between chunks; encoders with all  *)
(* or one left chunk.                                                      *)
(***************************************************************************)
EXTENDS Decoding

StreamingOrNot == {2, -1}
MCModels == {<<"torch", -1>>, <<"torch", 1>>, <<"onnx", 1>>}
Pieces == {4, 11}
================================================================================
