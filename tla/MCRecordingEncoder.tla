--------------------------- MODULE MCRecordingEncoder ---------------------------
(***************************************************************************)
(* Files of sound for TLC: RecordingEncoder, which makes one while the     *)
(* recording goes on, or Transcoding, which makes one of another.          *)
(***************************************************************************)
EXTENDS RecordingEncoder, Transcoding

VARIABLE recorded   \* a recording is made, none is converted

MCInit ==
    /\ recorded \in BOOLEAN
    /\ Init
    /\ TranscodingInit /\ (recorded => routine = "decodeOpusToPcm" /\ total = 0)

MCNext ==
    /\ UNCHANGED recorded
    /\ \/ recorded /\ Next /\ UNCHANGED transcoding_vars
       \/ ~recorded /\ TranscodingNext /\ UNCHANGED vars

\* FairSpec, for the behaviours in which it is the one.
MCSpec ==
    /\ MCInit /\ [][MCNext]_<<vars, transcoding_vars, recorded>>
    /\ \A r \in Recording : WF_vars(recorded /\ RecorderThread(r)) /\ WF_vars(recorded /\ Encode(r))
--------------------------------------------------------------------------------
\* A file of sound is the recording: whole, in order and at its times, whether it
\* was made while recording or of another file.
FilesAreTheRecording == FileIsTheRecording /\ TranscodedIsTheRecording
================================================================================
