----------------------------- MODULE SkippedFrames -----------------------------
(***************************************************************************)
(* core/decoder/ctc_wfst_beam_search.cc: frames that are surely blank are  *)
(* not given to the decoder of Kaldi, which numbers the rest; this is the  *)
(* book of which is which, and what it makes of a path.                    *)
(***************************************************************************)
EXTENDS Integers, Sequences, FiniteSetsExt, Functions

CONSTANTS
    Loglikes,         \* the frames the model may output: unit -> log likelihood
    SURELY_BLANK      \* the blank's log likelihood from which a frame is skipped

Blank == 0

IsSkipped(logp) == logp[Blank] >= SURELY_BLANK

\* The first of the best units.
BestUnit(logp) == Min({u \in DOMAIN logp : logp[u] = Max(Range(logp))})

\* blank_skip_thresh is a probability of more than one half.
ASSUME SkippedAssumption == \A logp \in Loglikes : IsSkipped(logp) => BestUnit(logp) = Blank

VARIABLES
    num_frames, decoded_frames_mapping, is_last_frame_blank, last_best, last_frame_prob,
    accepted,             \* the frames the decoder was given
    heard                 \* history: all frames since Reset

frames_vars == <<num_frames, decoded_frames_mapping, is_last_frame_blank, last_best,
                 last_frame_prob, accepted, heard>>

FramesInit ==
    /\ num_frames = 0
    /\ decoded_frames_mapping = <<>>
    /\ is_last_frame_blank = FALSE
    /\ last_best = 0
    /\ last_frame_prob = <<>>
    /\ accepted = <<>>
    /\ heard = <<>>

\* Mutant: no skipped frame is given back.
Mut_NoBlankAdded(best) == FALSE

\* Two frames with one best symbol and skipped frames in between get the last
\* of the skipped ones back.
AddsBlank(best) == best # Blank /\ is_last_frame_blank /\ best = last_best

\* Mutant: the frame given back gets the number of the one after it.
Mut_SameNumber(logp) ==
    (IF AddsBlank(BestUnit(logp)) THEN <<[logp |-> last_frame_prob, number |-> num_frames]>>
     ELSE <<>>) \o <<[logp |-> logp, number |-> num_frames]>>

\* The frames that go to the decoder for one frame, with their numbers.
Given(logp) ==
    (IF AddsBlank(BestUnit(logp)) THEN <<[logp |-> last_frame_prob, number |-> num_frames - 1]>>
     ELSE <<>>) \o <<[logp |-> logp, number |-> num_frames]>>

GiveFrames(logp) ==
    /\ accepted' = accepted \o [i \in DOMAIN Given(logp) |-> Given(logp)[i].logp]
    /\ decoded_frames_mapping' =
        decoded_frames_mapping \o [i \in DOMAIN Given(logp) |-> Given(logp)[i].number]
    /\ last_best' = BestUnit(logp)
    /\ is_last_frame_blank' = FALSE
    /\ UNCHANGED last_frame_prob

Skip(logp) ==
    /\ is_last_frame_blank' = TRUE
    /\ last_frame_prob' = logp
    /\ UNCHANGED <<accepted, decoded_frames_mapping, last_best>>

\* What Search does with one frame, but for the decoder.
HearFrame(logp) ==
    /\ IF IsSkipped(logp) THEN Skip(logp) ELSE GiveFrames(logp)
    /\ heard' = Append(heard, logp)
    /\ num_frames' = num_frames + 1

\* last_frame_prob keeps its value.
ResetFrames ==
    /\ num_frames' = 0
    /\ decoded_frames_mapping' = <<>>
    /\ is_last_frame_blank' = FALSE
    /\ last_best' = 0
    /\ accepted' = <<>>
    /\ heard' = <<>>
    /\ UNCHANGED last_frame_prob

FramesNext == (\E logp \in Loglikes : HearFrame(logp)) \/ ResetFrames

\* The book alone; CtcWfstBeamSearch takes its steps together with the decoder's.
FramesSpec == FramesInit /\ [][FramesNext]_frames_vars
--------------------------------------------------------------------------------
\* The units that begin in an alignment, and where: blanks and repeats are left out.
Starts(al) ==
    LET starts[cur \in 0 .. Len(al)] ==
            IF cur = 0 THEN <<>>
            ELSE IF al[cur] # Blank /\ (cur = 1 \/ al[cur] # al[cur - 1])
            THEN Append(starts[cur - 1], cur)
            ELSE starts[cur - 1]
    IN  starts[Len(al)]

\* The two outputs of ConvertToInputs.
Inputs(al) == [k \in DOMAIN Starts(al) |-> al[Starts(al)[k]]]
InputTimes(al) == [k \in DOMAIN Starts(al) |-> decoded_frames_mapping[Starts(al)[k]]]
--------------------------------------------------------------------------------
\* What the frames say without any skipping.
Plain == [i \in DOMAIN heard |-> IF IsSkipped(heard[i]) THEN Blank ELSE BestUnit(heard[i])]

\* What the frames the decoder was given say.
AcceptedBest == [i \in DOMAIN accepted |-> BestUnit(accepted[i])]

\* When the best path follows the best symbols, skipping frames changes neither
\* the tokens nor the frames they start at: two equal tokens with only skipped
\* frames between them stay two.
SkippingLosesNothing ==
    /\ Inputs(AcceptedBest) = Inputs(Plain)
    /\ InputTimes(AcceptedBest) = [k \in DOMAIN Starts(Plain) |-> Starts(Plain)[k] - 1]

\* The decoder numbers the frames it is given; each number stands for a frame of
\* its own, the one that was heard then, a frame given back too.
NumbersAreFrames ==
    \A i \in DOMAIN accepted :
        /\ accepted[i] = heard[decoded_frames_mapping[i] + 1]
        /\ i > 1 => decoded_frames_mapping[i - 1] < decoded_frames_mapping[i]

\* Skipped blank frames change neither tokens nor times (decoded_frames_mapping).
FramesAreMapped == SkippingLosesNothing /\ NumbersAreFrames
================================================================================
