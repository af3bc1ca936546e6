------------------------------- MODULE MCPlayback ------------------------------
(***************************************************************************)
(* What a recording that is played back sounds like and looks like, for    *)
(* TLC: Playback or Spectrogram, one of them at a time.  The picture's     *)
(* window is two columns of two samples each.  A decoder decodes three     *)
(* samples, so that at one place the second worker decodes while the first *)
(* reads, and at the other, the end of the recording, both read less.      *)
(* Bounds: only what is on the screen is stopped, and a range is set while *)
(* a window loads only in a playback that is not stopped.                  *)
(***************************************************************************)
EXTENDS Playback, Spectrogram

VARIABLE looking   \* the picture is made, nothing is played

MCInit ==
    /\ looking \in BOOLEAN
    /\ Init /\ PictureInit /\ (useSpectrogram => looking)

MCNext ==
    /\ UNCHANGED looking
    /\ \/ ~looking /\ Next /\ UNCHANGED picture_vars
       \/ /\ looking /\ PictureNext /\ UNCHANGED vars
          /\ StopPlayback => shown # 0
          /\ "reloaded" \in mishaps' => shown' # 0

\* FairSpec and PictureSpec, each for the behaviours in which it is the one.
MCSpec ==
    /\ MCInit /\ [][MCNext]_<<vars, picture_vars, looking>>
    /\ WF_picture_vars(looking /\ ~crashed /\ Works)
    /\ WF_vars(~looking /\ dec # "crashed" /\ UiGoesOn)
    /\ WF_vars(~looking /\ DecoderThread)
    /\ WF_vars(~looking /\ dec # "crashed" /\ PlayerThread)
================================================================================
