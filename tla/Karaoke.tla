-------------------------------- MODULE Karaoke --------------------------------
(***************************************************************************)
(* KaraokeController.java: the words of a saved recording as text, with    *)
(* the word that is being played highlighted, words of other speakers in   *)
(* grey, and taps on the text turned into seeks.  A word is its kind and   *)
(* its times; the text is a number of characters, one for each word.       *)
(***************************************************************************)
EXTENDS Integers, Sequences, FiniteSets

CONSTANTS
    WordLists,     \* what result.json may hold: sequences of [w, s, e]
    StampLength,   \* characters of a time stamp
    MaxTime,       \* bound on playback positions
    NoSegments     \* there is no my_voice_segments.json

Words == [w : {"word", "space", "newline"}, s : Nat, e : Nat]

\* Nothing is assumed of the times: those of VadTimeline can be out of order.
ASSUME KaraokeAssumption == WordLists \subseteq Seq(Words) /\ StampLength \in Nat /\ MaxTime \in Nat

VARIABLES
    wordSpans,            \* [w, s, e] with w "word", "space" or "newline"
    charSpans,            \* karaokeSpanStarts and -Ends: [start, end]
    gray,                 \* the words shown in grey
    myVoiceSegments,
    lastHighlightIndex,   \* the highlighted word; 0 for none
    position              \* history: the last position of the player

karaoke_vars == <<wordSpans, charSpans, gray, myVoiceSegments, lastHighlightIndex, position>>

KaraokeInit ==
    /\ wordSpans = <<>>
    /\ charSpans = <<>>
    /\ gray = {}
    /\ myVoiceSegments = NoSegments
    /\ lastHighlightIndex = 0
    /\ position = 0

Untimed(file, i) == file[i].s = 0 /\ file[i].e = 0 /\ i > 1

\* load(): a line break has no times and gets the end of the words before it.
AddWord(before, file, i) ==
    LET word == IF Untimed(file, i)
                THEN [file[i] EXCEPT !.s = before.lastEnd, !.e = before.lastEnd]
                ELSE file[i]
    IN  [words |-> Append(before.words, word),
         lastEnd |-> IF word.e > before.lastEnd THEN word.e ELSE before.lastEnd]

LoadWords(file) ==
    LET load[i \in 0 .. Len(file)] ==
            IF i = 0 THEN [words |-> <<>>, lastEnd |-> 0] ELSE AddWord(load[i - 1], file, i)
    IN  load[Len(file)].words

\* Mutant: line breaks have no place in the text.
Mut_NoSpanForBreak(words) ==
    LET build[i \in 0 .. Len(words)] ==
            IF i = 0 THEN <<>>
            ELSE IF words[i].w = "newline" THEN build[i - 1]
            ELSE Append(build[i - 1], [start |-> i - 1, end |-> i])
    IN  build[Len(words)]

\* buildText(): where each word stands.  A sentence begins with a time stamp,
\* and with a line break unless it is the first.
PlaceWord(t, word) ==
    LET start == t.length + (IF t.inSentence THEN 0
                             ELSE StampLength + (IF t.newLine THEN 1 ELSE 0))
    IN  IF word.w = "newline"
        THEN [t EXCEPT !.inSentence = FALSE, !.newLine = @ \/ t.inSentence,
                       !.spans = Append(@, [start |-> t.length, end |-> t.length])]
        ELSE [t EXCEPT !.length = start + 1, !.inSentence = TRUE,
                       !.spans = Append(@, [start |-> start, end |-> start + 1])]

BuildText(words) ==
    LET build[i \in 0 .. Len(words)] ==
            IF i = 0 THEN [length |-> 0, inSentence |-> FALSE, newLine |-> FALSE, spans |-> <<>>]
            ELSE PlaceWord(build[i - 1], words[i])
    IN  build[Len(words)].spans

\* A turn of the loop of a binary search: it goes to the left of an index in below,
\* to the right of one in above, and stops at any other.
Middle(range) == (range.lo + range.hi) \div 2

Turn(range, below, above) ==
    IF range.lo > range.hi THEN range
    ELSE IF Middle(range) \in below THEN [range EXCEPT !.hi = Middle(range) - 1]
    ELSE IF Middle(range) \in above THEN [range EXCEPT !.lo = Middle(range) + 1]
    ELSE range

\* The range it has left in the end; no search of n indices takes more than n turns.
Narrowed(n, below, above) ==
    LET range[turn \in 0 .. n] ==
            IF turn = 0 THEN [lo |-> 1, hi |-> n] ELSE Turn(range[turn - 1], below, above)
    IN  range[n]

\* An index that is neither in below nor in above; 0 when none is found.
BinarySearch(list, below, above) ==
    LET left == Narrowed(Len(list), below, above)
    IN  IF left.lo > left.hi THEN 0 ELSE Middle(left)

\* Mutant: only a word inside a segment is found.
Mut_InsideOnly(segs, word) ==
    BinarySearch(segs, {k \in DOMAIN segs : word.s < segs[k][1]},
                       {k \in DOMAIN segs : word.e > segs[k][2]}) # 0

\* Mutant: a word's end belongs to it.
Mut_EndIncluded(offset) ==
    BinarySearch(charSpans, {k \in DOMAIN charSpans : charSpans[k].start > offset},
                            {k \in DOMAIN charSpans : charSpans[k].end < offset})

isMyVoiceMs(segs, word) ==
    BinarySearch(segs, {k \in DOMAIN segs : word.e <= segs[k][1]},
                       {k \in DOMAIN segs : word.s >= segs[k][2]}) # 0

findWordAtCharOffset(offset) ==
    BinarySearch(charSpans, {k \in DOMAIN charSpans : charSpans[k].start > offset},
                            {k \in DOMAIN charSpans : charSpans[k].end <= offset})

\* Mutant: between two words nothing is highlighted.
Mut_NoFallback(words, ms) ==
    BinarySearch(words, {k \in DOMAIN words : ms < words[k].s},
                        {k \in DOMAIN words : ms >= words[k].e})

\* The last word that has started, which is always the one before the range left.
LastStarted(words, ms) ==
    LET started == {k \in DOMAIN words : words[k].s <= ms}
    IN  Narrowed(Len(words), DOMAIN words \ started, started).lo - 1

\* The word that contains a position, else the last that started before it.
WordAt(words, ms) ==
    LET containing == BinarySearch(words, {k \in DOMAIN words : ms < words[k].s},
                                          {k \in DOMAIN words : ms >= words[k].e})
    IN  IF containing = 0 /\ ms > 0 THEN LastStarted(words, ms) ELSE containing

\* Line breaks and spaces are passed over to the left.
Visible(words, index) ==
    LET skip[i \in 0 .. index] ==
            IF i = 0 \/ words[i].w = "word" THEN i ELSE skip[i - 1]
    IN  skip[index]

\* updateHighlight(): the two early returns leave everything as it is.
Highlighted(words, last, ms) ==
    IF words = <<>> \/ WordAt(words, ms) = last THEN last ELSE Visible(words, WordAt(words, ms))

Gray(words, segs) ==
    IF segs = NoSegments THEN {}
    ELSE {i \in DOMAIN words : words[i].w # "newline" /\ ~isMyVoiceMs(segs, words[i])}

\* enterPlaybackModeWithOgg(): another recording.  Without words the old text,
\* its spans and its highlight are left alone.
Load(file, segs) ==
    LET words == LoadWords(file)
    IN  /\ wordSpans' = words
        /\ myVoiceSegments' = segs
        /\ position' = 0
        /\ IF words = <<>> THEN UNCHANGED <<charSpans, gray, lastHighlightIndex>>
           ELSE /\ charSpans' = BuildText(words)
                /\ gray' = Gray(words, segs)
                /\ lastHighlightIndex' = Highlighted(words, 0, 0)

\* The player reports a position, or the end as position 0; a seek too.
ShowPosition(ms) ==
    /\ position' = ms
    /\ lastHighlightIndex' = Highlighted(wordSpans, lastHighlightIndex, ms)
    /\ UNCHANGED <<wordSpans, charSpans, gray, myVoiceSegments>>

\* onTouch(): a tap on a character seeks to the word it belongs to.
Tap(offset) ==
    LET idx == findWordAtCharOffset(offset)
    IN  IF idx # 0 /\ idx <= Len(wordSpans) THEN ShowPosition(wordSpans[idx].s)
        ELSE UNCHANGED karaoke_vars

TextLength == IF charSpans = <<>> THEN 0 ELSE charSpans[Len(charSpans)].end

Playing == \/ \E ms \in 0 .. MaxTime : ShowPosition(ms)
           \/ \E offset \in 0 .. TextLength : Tap(offset)
--------------------------------------------------------------------------------
Largest(S) == IF S = {} THEN 0 ELSE CHOOSE i \in S : \A j \in S : j <= i

\* A file in which no word begins before one that is listed earlier has ended.
OrderedTimes(file) ==
    \A j \in DOMAIN file : ~Untimed(file, j) =>
        file[j].s <= file[j].e /\ \A i \in 1 .. j - 1 : file[i].e <= file[j].s

OrderedLists == {LoadWords(file) : file \in {f \in WordLists : OrderedTimes(f)}}

TimesInOrder == wordSpans \in OrderedLists

\* The highlight depends on the position only, in whatever order positions,
\* seeks and taps came: it is the last word that has started, or none before
\* the first (updateHighlight keeps the last index and returns early by it).
HighlightFollowsPosition ==
    wordSpans # <<>> /\ TimesInOrder =>
        LET started == {i \in DOMAIN wordSpans :
                            wordSpans[i].s <= position /\ (position > 0 \/ wordSpans[i].e > 0)}
        IN  lastHighlightIndex =
                Largest({i \in 1 .. Largest(started) : wordSpans[i].w = "word"})

\* A tap on a word plays from that word and highlights it; a tap beside the
\* words, or on a text whose words are gone, does nothing.
TapFindsWord ==
    \A offset \in 0 .. TextLength : Tap(offset) =>
        \/ \E i \in DOMAIN wordSpans :
            /\ charSpans[i].start <= offset /\ offset < charSpans[i].end
            /\ position' = wordSpans[i].s
            /\ TimesInOrder /\ wordSpans[i].w = "word" /\ wordSpans[i].s < wordSpans[i].e =>
                lastHighlightIndex' = i
        \/ /\ UNCHANGED <<position, lastHighlightIndex>>
           /\ \A i \in DOMAIN wordSpans :
                offset < charSpans[i].start \/ charSpans[i].end <= offset

\* The text follows the sound, and the sound the text that is touched.
TextAndSoundAgree == [][HighlightFollowsPosition' /\ TapFindsWord]_karaoke_vars
================================================================================
