------------------------------- MODULE MCMyVoice -------------------------------
(***************************************************************************)
(* A recording made with an enrolled speaker, and then played with its     *)
(* segments: PersonalVad writes the file that Karaoke reads.  The lists of *)
(* words have breaks at either end, two in a row, and pauses between words;*)
(* in the last the times are out of order.                                 *)
(* Or the screens with several Recordings: either the one or the other.    *)
(***************************************************************************)
EXTENDS PersonalVad, Karaoke, Recordings

VARIABLE several   \* there are several recordings, whose audio and words are left out

vars == <<pvad_vars, karaoke_vars, recordings_vars, several>>

W(s, e) == [w |-> "word", s |-> s, e |-> e]
Space(s, e) == [w |-> "space", s |-> s, e |-> e]
NewLine == [w |-> "newline", s |-> 0, e |-> 0]

MCWordLists ==
    {<<>>,
     <<W(0, 1), Space(1, 2), W(2, 3), NewLine, W(5, 7), NewLine>>,
     <<NewLine, W(1, 3), NewLine, NewLine, W(3, 6), Space(6, 7)>>,
     <<Space(2, 3), W(3, 5), W(6, 7)>>,
     <<W(2, 5), W(4, 3), NewLine>>}

\* With one recording less the user has two acts less.
Init ==
    /\ several \in BOOLEAN
    /\ PersonalVadInit /\ KaraokeInit /\ RecordingsInit
    /\ \/ made = Old
       \/ several /\ made = {CHOOSE n \in Old : TRUE}
    /\ actions = 2 * Cardinality(Old \ made)

\* A recording is opened with the segments saved here, or it has none; only after
\* a recording of at most two chunks, as it would be no different after others.
Open ==
    /\ stage = "saved"
    /\ \E file \in WordLists, segs \in {savedSegments, NoSegments} :
        /\ segs = NoSegments => Len(probs) <= 2
        /\ Load(file, segs)
    /\ UNCHANGED pvad_vars

One == \/ PersonalVadNext /\ UNCHANGED karaoke_vars
       \/ Open
       \/ stage = "saved" /\ Playing /\ UNCHANGED pvad_vars

Next ==
    /\ UNCHANGED several
    /\ \/ several /\ RecordingsNext /\ UNCHANGED <<pvad_vars, karaoke_vars>>
       \/ ~several /\ One /\ UNCHANGED recordings_vars

Spec == Init /\ [][Next]_vars

TypeOK ==
    /\ stage \in {"listening", "flushed", "saved"}
    /\ accumLen \in 0 .. NEW_SAMPLES_PER_CHUNK - 1
    /\ hangoverCount \in 0 .. HANGOVER_FRAMES
    /\ inMyVoice <=> segmentStart # None
    /\ gray \subseteq DOMAIN charSpans
    /\ lastHighlightIndex \in 0 .. Len(charSpans)
    /\ wordSpans # <<>> => Len(charSpans) = Len(wordSpans)

\* A word that overlaps a chunk the model was sure of is never grey, and one in
\* a part that was not the speaker's always is, if it takes any time: from the
\* answers over the file to the colours.
MyWordsAreBlack ==
    myVoiceSegments # NoSegments /\ wordSpans # <<>> =>
        \A i \in DOMAIN wordSpans :
          wordSpans[i].w # "newline" /\ wordSpans[i].s < wordSpans[i].e =>
            (i \in gray <=>
                \A k \in DOMAIN probs :
                    IsVoice(k) => \/ wordSpans[i].e <= ChunkStart(k)
                                  \/ ChunkStart(k + 1) <= wordSpans[i].s)

\* From the samples fed to the colours on the screen: all audio is answered for, the
\* segments are the chunks of the speaker, and their words are black.
VoiceFromAudioToText == TypeOK /\ SegmentsAreVoice /\ AllAudioAnswered /\ MyWordsAreBlack
================================================================================
