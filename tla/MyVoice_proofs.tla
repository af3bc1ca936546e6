----------------------------- MODULE MyVoice_proofs -----------------------------
(***************************************************************************)
(* What no sequence of the user's acts and no order of the threads does to *)
(* the recordings (see Recordings.tla), for every set of names and every   *)
(* bound on the acts; and what becomes of the speaker's voice between the  *)
(* samples and the text (see PersonalVad.tla and Karaoke.tla), for every   *)
(* chunk size, hangover and set of word lists.                             *)
(***************************************************************************)
EXTENDS MCMyVoice, FiniteSetTheorems, SequenceTheorems, WellFoundedInduction, TLAPS

--------------------------------------------------------------------------------
(* 1. The recordings on disk and the screens.                              *)

(***************************************************************************)
(* The operators on files, and on lists.                                   *)
(***************************************************************************)
LEMMA PutFacts ==
  ASSUME NEW f, NEW x, NEW v
  PROVE  /\ DOMAIN Put(f, x, v) = DOMAIN f \cup {x}
         /\ Put(f, x, v)[x] = v
         /\ \A y \in DOMAIN f \ {x} : Put(f, x, v)[y] = f[y]
         /\ Put(f, x, v) = [y \in DOMAIN Put(f, x, v) |-> Put(f, x, v)[y]]
BY DEF Put

LEMMA WithoutFacts ==
  ASSUME NEW f, NEW x
  PROVE  /\ DOMAIN Without(f, x) = DOMAIN f \ {x}
         /\ \A y \in DOMAIN f \ {x} : Without(f, x)[y] = f[y]
         /\ Without(f, x) = [y \in DOMAIN Without(f, x) |-> Without(f, x)[y]]
BY DEF Without, Restrict

LEMMA RemovedFacts ==
  ASSUME NEW S, NEW s \in Seq(S), NEW i \in 1 .. Len(s)
  PROVE  /\ RemovedAt(s, i) \in Seq(S)
         /\ Len(RemovedAt(s, i)) = Len(s) - 1
         /\ \A j \in 1 .. Len(s) - 1 : RemovedAt(s, i)[j] = IF j < i THEN s[j] ELSE s[j + 1]
<1> DEFINE a == SubSeq(s, 1, i - 1)
           b == SubSeq(s, i + 1, Len(s))
<1>1. /\ a \in Seq(S) /\ Len(a) = i - 1
      /\ \A j \in 1 .. i - 1 : a[j] = s[j]
  OBVIOUS
<1>2. /\ b \in Seq(S) /\ Len(b) = Len(s) - i
      /\ \A j \in 1 .. Len(s) - i : b[j] = s[i + j]
  OBVIOUS
<1>3. RemovedAt(s, i) = a \o b
  BY DEF RemovedAt
<1> HIDE DEF a, b
<1>4. /\ a \o b \in Seq(S) /\ Len(a \o b) = Len(s) - 1
      /\ \A j \in 1 .. Len(s) - 1 : (a \o b)[j] = IF j < i THEN a[j] ELSE b[j - (i - 1)]
  <2>1. /\ a \o b \in Seq(S) /\ Len(a \o b) = Len(a) + Len(b)
        /\ \A j \in 1 .. Len(a) + Len(b) : (a \o b)[j] = IF j <= Len(a) THEN a[j] ELSE b[j - Len(a)]
    BY ONLY <1>1, <1>2, ConcatProperties
  <2>2. Len(s) \in Nat /\ i \in Int
    OBVIOUS
  <2>3. QED BY <1>1, <1>2, <2>1, <2>2
<1>5. \A j \in 1 .. Len(s) - 1 : ~(j < i) => b[j - (i - 1)] = s[j + 1]
  <2>1. SUFFICES ASSUME NEW j \in 1 .. Len(s) - 1, ~(j < i)
                 PROVE  b[j - (i - 1)] = s[j + 1]
    OBVIOUS
  <2>2. j - (i - 1) \in 1 .. Len(s) - i /\ i + (j - (i - 1)) = j + 1
    BY <2>1
  <2>3. QED BY <1>2, <2>2
<1>6. QED BY <1>1, <1>3, <1>4, <1>5

(***************************************************************************)
(* What an act leaves alone.                                               *)
(***************************************************************************)
LEMMA DiskStays ==
  ASSUME WholeInv, UNCHANGED <<disk, made, heard, currentRecordingName, confirmed>>,
         mishaps \subseteq mishaps', Recognizing' => Recognizing
  PROVE  /\ DiskTyped' /\ OneDirectoryEach' /\ RecordedInPlace'
         /\ ResultIsOfItsRecording' /\ SummaryIsOfItsRecording'
BY DEF WholeInv, DiskTyped, OneDirectoryEach, RecordedInPlace, ResultIsOfItsRecording,
       SummaryIsOfItsRecording, Never, Exists, Recognizing

LEMMA PlayStays ==
  ASSUME WholeInv,
         UNCHANGED <<disk, currentPlaybackRecording, timestampedResult, listener, opening, ready>>,
         mishaps \subseteq mishaps', Recognizing => Recognizing'
  PROVE  PlayedInPlace' /\ TextIsOfPlayed'
BY DEF WholeInv, PlayedInPlace, TextIsOfPlayed, Never, Exists, Result, Busy, Recognizing

LEMMA AskStays ==
  ASSUME WholeInv, UNCHANGED <<disk, currentPlaybackRecording, asked, opening, ready, asr, posted>>,
         mishaps \subseteq mishaps', ui' = "progress" => ui = "progress"
  PROVE  AskedIsOfPlayed'
BY DEF WholeInv, AskedIsOfPlayed, Never, Exists, Busy, Recognizing

(***************************************************************************)
(* Each act keeps WholeInv.                                                *)
(***************************************************************************)
ListAct ==
    \/ ShowList \/ View \/ ReadDetails \/ PutDetails \/ SearchNothing \/ Search \/ ShowResults
    \/ Cancel \/ LongPress \/ LeaveMenu

LEMMA ListActScreen == ASSUME WholeInv, ListAct PROVE ScreenTyped'
<1> USE DEF WholeInv, ScreenTyped, listVars, detailVars, sessionVars, textVars, prepareVars,
            summaryVars, Act
<1>1. CASE ShowList \/ SearchNothing \/ Search \/ ShowResults \/ LongPress \/ LeaveMenu
  BY <1>1 DEF ShowList, SearchNothing, Search, ShowResults, LongPress, LeaveMenu
<1>2. CASE View
  <2>1. PICK name \in Listing(displayList) :
           /\ loadingSet' = loadingSet \cup {name}
           /\ loads' = loads \cup {[name |-> name, done |-> FALSE, text |-> NoFile]}
    BY <1>2 DEF View
  <2>2. loads \subseteq [name : loadingSet', done : BOOLEAN, text : made' \cup {NoFile}]
    BY <1>2, <2>1 DEF View
  <2>3. [name |-> name, done |-> FALSE, text |-> NoFile]
           \in [name : loadingSet', done : BOOLEAN, text : made' \cup {NoFile}]
    BY <2>1
  <2>4. loads' \subseteq [name : loadingSet', done : BOOLEAN, text : made' \cup {NoFile}]
    BY <2>1, <2>2, <2>3
  <2>5. QED BY <1>2, <2>1, <2>4 DEF View
<1>3. CASE ReadDetails
  <2>1. PICK l \in loads :
           loads' = (loads \ {l}) \cup {[l EXCEPT !.done = TRUE, !.text = Result(l.name)]}
    BY <1>3 DEF ReadDetails
  <2>2. Result(l.name) \in made \cup {NoFile}
    BY DEF DiskTyped, Result, Exists
  <2>3. [l EXCEPT !.done = TRUE, !.text = Result(l.name)]
           \in [name : loadingSet, done : BOOLEAN, text : made \cup {NoFile}]
    BY <2>2
  <2>4. loads' \subseteq [name : loadingSet, done : BOOLEAN, text : made \cup {NoFile}]
    BY <2>1, <2>3
  <2>5. QED BY <1>3, <2>4 DEF ReadDetails
<1>4. CASE PutDetails
  <2>1. PICK l \in loads : /\ loads' = loads \ {l}
                           /\ detailCache' = Put(detailCache, l.name, l.text)
    BY <1>4 DEF PutDetails
  <2>2. l.name \in loadingSet
    OBVIOUS
  <2>3. DOMAIN detailCache' = DOMAIN detailCache \cup {l.name}
    BY ONLY <2>1 DEF Put
  <2>4. QED BY <1>4, <2>1, <2>2, <2>3 DEF PutDetails
<1>5. CASE Cancel
  BY <1>5 DEF Cancel, CloseList, Empty
<1>6. QED BY <1>1, <1>2, <1>3, <1>4, <1>5 DEF ListAct

LEMMA ListActKeepsWhole == ASSUME WholeInv, ListAct PROVE WholeInv'
<1>1. /\ UNCHANGED <<disk, sessionVars, currentPlaybackRecording, textVars, prepareVars, asked,
                     confirmed>>
      /\ mishaps \subseteq mishaps'
      /\ ui' = "progress" <=> ui = "progress"
  BY DEF ListAct, ShowList, View, ReadDetails, PutDetails, SearchNothing, Search, ShowResults,
         Cancel, LongPress, LeaveMenu, Act, Note, historyVars, summaryVars
<1>2. ScreenTyped'
  BY ListActScreen
<1>3. QED BY <1>1, <1>2, DiskStays, PlayStays, AskStays
          DEF WholeInv, Recognizing, sessionVars, textVars, prepareVars

LEMMA OpenFileKeepsWhole == ASSUME WholeInv, OpenFile PROVE WholeInv'
<1> USE DEF OpenFile, sessionVars, summaryVars, textVars
<1>1. PICK i \in DOMAIN opening :
         /\ opening' = RemovedAt(opening, i)
         /\ \/ /\ Exists(opening[i])
               /\ ready' = Append(ready, disk[opening[i]].rec)
               /\ UNCHANGED mishaps
            \/ Note({"notOpened"}) /\ UNCHANGED ready
  OBVIOUS
<1>2. opening \in Seq(Names) /\ ready \in Seq(made) /\ Busy
  BY <1>1 DEF WholeInv, ScreenTyped, Busy
<1>3. opening' \in Seq(Names)
  BY <1>1, <1>2, RemovedFacts
<1>4. /\ mishaps \subseteq mishaps'
      /\ ready' \in Seq(made)
      /\ "notOpened" \in mishaps' \/ ready' # <<>>
  <2>1. CASE Exists(opening[i]) /\ ready' = Append(ready, disk[opening[i]].rec) /\ UNCHANGED mishaps
    <3>1. disk[opening[i]].rec \in made
      BY <2>1 DEF WholeInv, DiskTyped, Exists
    <3>2. QED BY <1>2, <2>1, <3>1, AppendProperties
  <2>2. CASE Note({"notOpened"}) /\ UNCHANGED ready
    BY <1>2, <2>2 DEF Note
  <2>3. QED BY <1>1, <2>1, <2>2
<1>5. ScreenTyped'
  BY <1>3, <1>4 DEF WholeInv, ScreenTyped, listVars, detailVars
<1>6. PlayedInPlace' /\ TextIsOfPlayed' /\ AskedIsOfPlayed'
  BY <1>2, <1>4 DEF WholeInv, PlayedInPlace, TextIsOfPlayed, AskedIsOfPlayed, Never, Busy, Exists,
                    Result, Recognizing
<1>7. QED BY <1>4, <1>5, <1>6, DiskStays DEF WholeInv, Recognizing

LEMMA ReadyKeepsWhole == ASSUME WholeInv, Ready PROVE WholeInv'
<1> USE DEF Ready, ShowWords, sessionVars, summaryVars, historyVars
<1>1. ready \in Seq(made) /\ ready' \in Seq(made) /\ Busy
  BY DEF WholeInv, ScreenTyped, Busy
<1>2. Result(listener) \in made \cup {NoFile}
  BY DEF WholeInv, DiskTyped, Result, Exists
<1>3. ScreenTyped'
  BY <1>1, <1>2 DEF WholeInv, ScreenTyped, listVars, detailVars
<1>4. PlayedInPlace' /\ AskedIsOfPlayed'
  BY <1>1 DEF WholeInv, PlayedInPlace, AskedIsOfPlayed, Never, Busy, Exists, Recognizing
<1>5. TextIsOfPlayed'
  BY <1>1 DEF WholeInv, TextIsOfPlayed, PlayedInPlace, ResultIsOfItsRecording, Never, Busy,
              Exists, Result, Recognizing
<1>6. QED BY <1>3, <1>4, <1>5, DiskStays DEF WholeInv, Recognizing

LEMMA RecordKeepsWhole == ASSUME WholeInv, Record PROVE WholeInv'
<1> USE DEF Record, Act
<1>1. PICK n \in Names \ (made \cup DOMAIN disk) :
         /\ disk' = Put(disk, n, [Directory(n) EXCEPT !.result = NoFile])
         /\ made' = made \cup {n}
         /\ currentRecordingName' = n
         /\ heard' = IF Recognizing THEN heard \cup {n} ELSE {n}
  OBVIOUS
<1>2. /\ DOMAIN disk' = DOMAIN disk \cup {n}
      /\ disk'[n] = [rec |-> n, result |-> NoFile, summary |-> NoFile]
      /\ \A m \in DOMAIN disk : m # n /\ disk'[m] = disk[m]
      /\ disk' = [m \in DOMAIN disk' |-> disk'[m]]
  <2>1. [Directory(n) EXCEPT !.result = NoFile] = [rec |-> n, result |-> NoFile, summary |-> NoFile]
    BY DEF Directory
  <2> DEFINE d == [Directory(n) EXCEPT !.result = NoFile]
  <2> HIDE DEF d
  <2>2. disk' = Put(disk, n, d) /\ d = [rec |-> n, result |-> NoFile, summary |-> NoFile]
    BY <1>1, <2>1 DEF d
  <2>3. QED BY ONLY <1>1, <2>2 DEF Put
<1>3. \A m \in DOMAIN disk : disk[m].rec # n
  BY <1>1 DEF WholeInv, DiskTyped
<1>4. DiskTyped'
  BY <1>1, <1>2, FS_AddElement DEF WholeInv, DiskTyped
<1>5. ScreenTyped'
  <2>1. /\ asr' = asr + 1 /\ posted' = posted /\ heard' = IF Recognizing THEN heard \cup {n} ELSE {n}
        /\ ui = "main" /\ ui' \in {"main", "crashed"} /\ n \in made' /\ n # NoFile
    BY <1>1, RecordingsAssumption
  <2>2. asr' \in Nat /\ asr' # 0 /\ heard' \subseteq made'
    BY <1>1, <2>1 DEF WholeInv, ScreenTyped
  <2>3. QED BY <1>1, <2>1, <2>2
            DEF WholeInv, DiskTyped, ScreenTyped, listVars, detailVars, prepareVars, summaryVars
<1>6. OneDirectoryEach'
  BY <1>1, <1>2, <1>3 DEF WholeInv, DiskTyped, OneDirectoryEach
<1>7. mishaps \subseteq mishaps'
  BY DEF Note
<1>8. ResultIsOfItsRecording' /\ SummaryIsOfItsRecording'
  BY <1>2, <1>7 DEF WholeInv, ResultIsOfItsRecording, SummaryIsOfItsRecording, Never
<1>9. RecordedInPlace' /\ TextIsOfPlayed' /\ AskedIsOfPlayed'
  <2>1. heard' = IF Recognizing THEN heard \cup {n} ELSE {n}
    BY <1>1
  <2>2. Recognizing' /\ ui' # "progress"
    <3>1. asr' = asr + 1 /\ asr \in Nat
      BY DEF WholeInv, ScreenTyped
    <3>2. QED BY <3>1 DEF Recognizing
  <2>3. Never({"overlapped"})' => ~Recognizing
    BY DEF Never, Note, When
  <2>4. QED BY <1>1, <1>2, <2>1, <2>2, <2>3 DEF RecordedInPlace, TextIsOfPlayed, AskedIsOfPlayed, Exists
<1>10. PlayedInPlace'
  BY <1>2, <1>7 DEF WholeInv, PlayedInPlace, Never, Exists, Busy, prepareVars
<1>11. QED BY <1>4, <1>5, <1>6, <1>8, <1>9, <1>10 DEF WholeInv

LEMMA SessionActsKeepWhole == ASSUME WholeInv, Stop \/ Display \/ ShowSummary \/ NoSummary PROVE WholeInv'
<1> USE DEF Stop, Display, ShowSummary, NoSummary, Act, sessionVars, textVars, prepareVars,
            summaryVars, historyVars
<1>1. ScreenTyped'
  BY DEF WholeInv, DiskTyped, ScreenTyped, listVars, detailVars
<1>2. PlayedInPlace' /\ TextIsOfPlayed'
  BY PlayStays DEF Recognizing
<1>3. AskedIsOfPlayed'
  BY DEF WholeInv, AskedIsOfPlayed, Never, Exists, Busy, Recognizing
<1>4. QED BY <1>1, <1>2, <1>3, DiskStays DEF WholeInv, Recognizing

LEMMA SaveTimedResultKeepsWhole == ASSUME WholeInv, SaveTimedResult PROVE WholeInv'
<1> USE DEF SaveTimedResult, AsrEnds, prepareVars, summaryVars, historyVars
<1> DEFINE name == currentRecordingName
<1>1. PICK words \in {NoFile} \cup heard :
         /\ disk' = IF Exists(name) THEN [disk EXCEPT ![name].result = words] ELSE disk
         /\ timestampedResult' \in {words} \cup heard
  OBVIOUS
<1>2. name \in made /\ words \in made \cup {NoFile} /\ timestampedResult' \in made \cup {NoFile}
  BY <1>1 DEF WholeInv, DiskTyped, ScreenTyped
<1>3. /\ DOMAIN disk' = DOMAIN disk
      /\ \A n \in DOMAIN disk : /\ disk'[n].rec = disk[n].rec /\ disk'[n].summary = disk[n].summary
                                /\ disk'[n].result = IF n = name THEN words ELSE disk[n].result
  BY <1>1 DEF WholeInv, DiskTyped, Exists
<1>4. DiskTyped'
  <2>1. disk' \in [DOMAIN disk -> [rec : made, result : made \cup {NoFile}, summary : made \cup {NoFile}]]
    BY <1>1, <1>2 DEF WholeInv, DiskTyped, Exists
  <2>2. QED BY <1>3, <2>1 DEF WholeInv, DiskTyped
<1>5. ScreenTyped' /\ Recognizing /\ Recognizing'
  <2>1. asr \in Nat /\ posted \in Seq(Names) /\ name \in Names
    BY <1>2 DEF WholeInv, DiskTyped, ScreenTyped
  <2>2. asr # 0 /\ asr' = asr - 1 /\ posted' = Append(posted, name)
    BY <2>1
  <2>3. asr' \in Nat /\ posted' \in Seq(Names) /\ posted' # <<>>
    BY <2>1, <2>2, AppendProperties
  <2>4. startRecord => asr' # 0
    BY <2>1, <2>2
  <2>5. QED BY <1>2, <2>2, <2>3, <2>4 DEF WholeInv, ScreenTyped, listVars, detailVars, Recognizing
<1>6. OneDirectoryEach'
  BY <1>3 DEF WholeInv, OneDirectoryEach
<1>7. RecordedInPlace'
  BY <1>3, <1>5 DEF WholeInv, RecordedInPlace, Never, Exists
<1>8. ResultIsOfItsRecording' /\ SummaryIsOfItsRecording'
  <2>1. Never({"moved", "overlapped"}) /\ Exists(name) => words \in {NoFile, disk[name].rec}
    BY <1>5 DEF WholeInv, RecordedInPlace, Never
  <2>2. QED BY <1>3, <2>1 DEF WholeInv, ResultIsOfItsRecording, SummaryIsOfItsRecording, Never, Exists
<1>9. PlayedInPlace'
  BY <1>3 DEF WholeInv, PlayedInPlace, Never, Exists, Busy
<1>10. TextIsOfPlayed' /\ AskedIsOfPlayed'
  BY <1>5 DEF WholeInv, TextIsOfPlayed, AskedIsOfPlayed, Never
<1>11. QED BY <1>4, <1>5, <1>6, <1>7, <1>8, <1>9, <1>10 DEF WholeInv

LEMMA EnterFacts ==
  ASSUME WholeInv, NEW name \in Names, EnterPlaybackMode(name), UNCHANGED <<disk, ready>>
  PROVE  /\ mishaps \subseteq mishaps' /\ opening' \in Seq(Names)
         /\ PlayedInPlace' /\ TextIsOfPlayed'
<1>1. CASE Exists(name)
  <2>1. opening' \in Seq(Names) /\ opening' # <<>>
    <3>1. opening \in Seq(Names) /\ opening' = Append(opening, name)
      BY <1>1 DEF EnterPlaybackMode, WholeInv, ScreenTyped
    <3>2. QED BY ONLY <3>1, name \in Names, AppendProperties
  <2>2. QED BY <1>1, <2>1 DEF EnterPlaybackMode, Note, PlayedInPlace, TextIsOfPlayed, Never, Exists, Busy
<1>2. CASE ~Exists(name)
  <2>1. "notOpened" \in mishaps' /\ mishaps \subseteq mishaps' /\ UNCHANGED opening
    BY <1>2 DEF EnterPlaybackMode, Note, When
  <2>2. QED BY <2>1 DEF WholeInv, ScreenTyped, PlayedInPlace, TextIsOfPlayed, Never, Recognizing
<1>3. QED BY <1>1, <1>2

LEMMA FinishedKeepsWhole == ASSUME WholeInv, Finished PROVE WholeInv'
<1> USE DEF Finished, textVars
<1>1. posted' \in Seq(Names) /\ Head(posted) \in Names /\ Recognizing
  BY HeadTailProperties DEF WholeInv, ScreenTyped, Recognizing
<1>2. mishaps \subseteq mishaps' /\ opening' \in Seq(Names) /\ PlayedInPlace' /\ TextIsOfPlayed'
  BY <1>1, EnterFacts
<1>3. ScreenTyped'
  BY <1>2 DEF WholeInv, ScreenTyped, listVars, detailVars
<1>4. AskedIsOfPlayed'
  BY <1>2 DEF WholeInv, AskedIsOfPlayed, Never, Recognizing
<1>5. QED BY <1>2, <1>3, <1>4, DiskStays DEF WholeInv, Recognizing

LEMMA TapItemKeepsWhole == ASSUME WholeInv, displayList \in Seq(Names), TapItem PROVE WholeInv'
<1> USE DEF TapItem, Act, sessionVars, textVars
<1>1. mishaps \subseteq mishaps' /\ opening' \in Seq(Names) /\ PlayedInPlace' /\ TextIsOfPlayed'
  BY EnterFacts
<1>2. ScreenTyped' /\ AskedIsOfPlayed'
  BY <1>1 DEF WholeInv, ScreenTyped, AskedIsOfPlayed, CloseList, Empty, Recognizing
<1>3. QED BY <1>1, <1>2, DiskStays DEF WholeInv, Recognizing

LEMMA RequestSummaryKeepsWhole == ASSUME WholeInv, RequestSummary PROVE WholeInv'
<1> USE DEF RequestSummary, Act, sessionVars, textVars, prepareVars
<1>1. mishaps \subseteq mishaps'
  BY DEF Note
<1>2. ScreenTyped'
  BY DEF WholeInv, ScreenTyped, listVars, detailVars
<1>3. AskedIsOfPlayed'
  <2>1. SUFFICES ASSUME Never({"askedEarly", "noWords", "notOpened", "moved", "overlapped"})'
                 PROVE  /\ ~Recognizing /\ ~Busy /\ Exists(currentPlaybackRecording)
                        /\ asked' = disk[currentPlaybackRecording].rec
    BY DEF AskedIsOfPlayed, Exists, Busy, Recognizing
  <2>2. ~Recognizing /\ ~Busy /\ Result(currentPlaybackRecording) # NoFile
    BY <2>1 DEF Never, Note, When
  <2>3. Exists(currentPlaybackRecording) /\ disk[currentPlaybackRecording].rec # NoFile
    BY <2>2, RecordingsAssumption DEF WholeInv, DiskTyped, Result, Exists
  <2>4. timestampedResult = disk[currentPlaybackRecording].rec
    BY <1>1, <2>1, <2>2 DEF WholeInv, TextIsOfPlayed, Never, Recognizing
  <2>5. QED BY <2>2, <2>3, <2>4
<1>4. PlayedInPlace' /\ TextIsOfPlayed'
  BY <1>1, PlayStays DEF Recognizing
<1>5. QED BY <1>1, <1>2, <1>3, <1>4, DiskStays DEF WholeInv, Recognizing

LEMMA SaveSummaryKeepsWhole == ASSUME WholeInv, SaveSummary PROVE WholeInv'
<1> USE DEF SaveSummary, sessionVars, textVars, prepareVars, summaryVars, historyVars
<1> DEFINE name == currentPlaybackRecording
<1>1. asked \in made
  BY DEF WholeInv, ScreenTyped
<1>2. disk' = disk \/ (Exists(name) /\ disk' = [disk EXCEPT ![name].summary = asked])
  <2>1. CASE disk' = IF Exists(name) THEN [disk EXCEPT ![name].summary = asked] ELSE disk
    BY <2>1
  <2>2. CASE UNCHANGED disk
    BY <2>2
  <2>3. QED BY <2>1, <2>2
<1>3. /\ DOMAIN disk' = DOMAIN disk
      /\ \A n \in DOMAIN disk : /\ disk'[n].rec = disk[n].rec /\ disk'[n].result = disk[n].result
                                /\ \/ disk'[n].summary = disk[n].summary
                                   \/ n = name /\ disk'[n].summary = asked
  BY <1>2 DEF WholeInv, DiskTyped, Exists
<1>4. DiskTyped'
  <2>1. disk' \in [DOMAIN disk -> [rec : made, result : made \cup {NoFile}, summary : made \cup {NoFile}]]
    BY <1>1, <1>2 DEF WholeInv, DiskTyped, Exists
  <2>2. QED BY <1>3, <2>1 DEF WholeInv, DiskTyped
<1>5. ScreenTyped'
  BY DEF WholeInv, ScreenTyped, listVars, detailVars
<1>6. OneDirectoryEach' /\ RecordedInPlace'
  BY <1>3 DEF WholeInv, OneDirectoryEach, RecordedInPlace, Never, Exists, Recognizing
<1>7. ResultIsOfItsRecording'
  BY <1>3 DEF WholeInv, ResultIsOfItsRecording, Never
<1>8. SummaryIsOfItsRecording'
  BY <1>3 DEF WholeInv, SummaryIsOfItsRecording, AskedIsOfPlayed, Never, Recognizing
<1>9. PlayedInPlace'
  BY <1>3 DEF WholeInv, PlayedInPlace, Never, Exists, Busy
<1>10. TextIsOfPlayed' /\ AskedIsOfPlayed'
  BY <1>3 DEF WholeInv, TextIsOfPlayed, AskedIsOfPlayed, Never, Result, Exists, Busy, Recognizing
<1>11. QED BY <1>4, <1>5, <1>6, <1>7, <1>8, <1>9, <1>10 DEF WholeInv

LEMMA RenameKeepsWhole == ASSUME WholeInv, Rename PROVE WholeInv'
<1> USE DEF Rename, sessionVars, textVars, prepareVars, summaryVars
<1> DEFINE name == menu.name
<1>1. PICK newName \in Names \ {name} :
         /\ RenameRecording(name, newName)
         /\ Changed([displayList EXCEPT ![menu.pos] = newName])
         /\ detailCache' = Without(detailCache, name)
         /\ Current(name, newName)
         /\ Note(Moves(name) \cup When("nameReused", newName \in loadingSet))
  OBVIOUS
<1> HIDE DEF name
<1>2. /\ name \in DOMAIN disk /\ newName \notin DOMAIN disk
      /\ DOMAIN disk' = (DOMAIN disk \ {name}) \cup {newName}
      /\ disk'[newName] = disk[name]
      /\ \A n \in DOMAIN disk \ {name} : disk'[n] = disk[n]
      /\ disk' = [n \in DOMAIN disk' |-> disk'[n]]
  <2>1. RenameRecording(name, newName)
    BY <1>1
  <2>2. QED BY ONLY <2>1, <1>1 DEF RenameRecording, Put, Without, Restrict, Exists
<1>3. DiskTyped'
  <2>1. IsFiniteSet(DOMAIN disk')
    <3>1. IsFiniteSet(DOMAIN disk \ {name})
      BY FS_RemoveElement DEF WholeInv, DiskTyped
    <3>2. QED BY <1>2, <3>1, FS_AddElement
  <2>2. QED BY <1>2, <2>1 DEF WholeInv, DiskTyped
<1>4. ScreenTyped'
  <2>1. DOMAIN detailCache' \subseteq DOMAIN detailCache /\ ui' \in {"list", "crashed"}
    BY ONLY <1>1 DEF Without, Restrict, Changed
  <2>2. QED BY <2>1 DEF WholeInv, ScreenTyped
<1>5. OneDirectoryEach'
  BY <1>2 DEF WholeInv, OneDirectoryEach
<1>6. mishaps \subseteq mishaps'
  BY <1>1 DEF Note
<1>7. Never({"moved"})' => ~Busy /\ (Recognizing => name # currentRecordingName)
  BY <1>1 DEF Never, Note, Moves, When
<1>8. RecordedInPlace'
  BY <1>2, <1>6, <1>7 DEF WholeInv, RecordedInPlace, Never, Exists, Recognizing
<1>9. ResultIsOfItsRecording' /\ SummaryIsOfItsRecording'
  BY <1>2, <1>6 DEF WholeInv, ResultIsOfItsRecording, SummaryIsOfItsRecording, Never
<1>10. currentPlaybackRecording' = IF currentPlaybackRecording = name THEN newName
                                   ELSE currentPlaybackRecording
  BY <1>1 DEF Current
<1>11. PlayedInPlace'
  BY <1>2, <1>6, <1>7, <1>10 DEF WholeInv, PlayedInPlace, Never, Exists, Busy
<1>12. TextIsOfPlayed'
  <2>1. SUFFICES ASSUME Never({"notOpened", "moved", "overlapped"})', ~Recognizing, ~Busy,
                        Result(currentPlaybackRecording)' # NoFile
                 PROVE  timestampedResult = disk'[currentPlaybackRecording'].rec
    BY DEF TextIsOfPlayed, Busy, Recognizing
  <2>2. Never({"notOpened", "moved", "overlapped"}) /\ Never({"notOpened"})
    BY <1>6, <2>1 DEF Never
  <2>3. currentPlaybackRecording = NoFile \/ Exists(currentPlaybackRecording)
    BY <2>2 DEF WholeInv, PlayedInPlace
  <2>4. /\ Result(currentPlaybackRecording) # NoFile
        /\ disk'[currentPlaybackRecording'].rec = disk[currentPlaybackRecording].rec
    BY <1>1, <1>2, <1>10, <2>1, <2>3, RecordingsAssumption DEF WholeInv, DiskTyped, Result, Exists
  <2>5. QED BY <2>1, <2>2, <2>4 DEF WholeInv, TextIsOfPlayed, Recognizing
<1>13. AskedIsOfPlayed'
  BY <1>1 DEF Changed, AskedIsOfPlayed, Recognizing
<1>14. QED BY <1>3, <1>4, <1>5, <1>8, <1>9, <1>11, <1>12, <1>13 DEF WholeInv

LEMMA DeleteKeepsWhole == ASSUME WholeInv, Delete PROVE WholeInv'
<1> USE DEF Delete, sessionVars, textVars, prepareVars, summaryVars
<1> DEFINE name == menu.name
<1>1. /\ disk' = Without(disk, name)
      /\ confirmed' = confirmed \cup {disk[n].rec : n \in DOMAIN disk \cap {name}}
      /\ detailCache' = Without(detailCache, name)
      /\ currentPlaybackRecording' = IF currentPlaybackRecording = name THEN NoFile
                                     ELSE currentPlaybackRecording
      /\ Note(Moves(name))
      /\ ui' \in {"list", "crashed"}
  BY DEF Current, Changed
<1> HIDE DEF name
<1>2. /\ DOMAIN disk' = DOMAIN disk \ {name}
      /\ \A n \in DOMAIN disk \ {name} : disk'[n] = disk[n]
      /\ disk' = [n \in DOMAIN disk' |-> disk'[n]]
  BY ONLY <1>1 DEF Without, Restrict
<1>3. DiskTyped'
  <2>1. IsFiniteSet(DOMAIN disk')
    BY <1>2, FS_RemoveElement DEF WholeInv, DiskTyped
  <2>2. confirmed' \subseteq made
    BY <1>1 DEF WholeInv, DiskTyped
  <2>3. QED BY <1>2, <2>1, <2>2 DEF WholeInv, DiskTyped
<1>4. ScreenTyped'
  <2>1. DOMAIN detailCache' \subseteq DOMAIN detailCache
    BY ONLY <1>1 DEF Without, Restrict
  <2>2. QED BY <1>1, <2>1 DEF WholeInv, ScreenTyped
<1>5. OneDirectoryEach'
  BY <1>1, <1>2 DEF WholeInv, DiskTyped, OneDirectoryEach
<1>6. mishaps \subseteq mishaps'
  BY <1>1 DEF Note
<1>7. Never({"moved"})' => ~Busy /\ (Recognizing => name # currentRecordingName)
  BY <1>1 DEF Never, Note, Moves, When
<1>8. RecordedInPlace'
  BY <1>2, <1>6, <1>7 DEF WholeInv, RecordedInPlace, Never, Exists, Recognizing
<1>9. ResultIsOfItsRecording' /\ SummaryIsOfItsRecording'
  BY <1>2, <1>6 DEF WholeInv, ResultIsOfItsRecording, SummaryIsOfItsRecording, Never
<1>10. PlayedInPlace'
  BY <1>1, <1>2, <1>6, <1>7 DEF WholeInv, PlayedInPlace, Never, Exists, Busy
<1>11. TextIsOfPlayed'
  BY <1>1, <1>2, <1>6, RecordingsAssumption
     DEF WholeInv, DiskTyped, TextIsOfPlayed, Never, Result, Exists, Busy, Recognizing
<1>12. AskedIsOfPlayed'
  BY <1>1 DEF AskedIsOfPlayed, Recognizing
<1>13. QED BY <1>3, <1>4, <1>5, <1>8, <1>9, <1>10, <1>11, <1>12 DEF WholeInv

LEMMA InitWhole == RecordingsInit => WholeInv
<1> SUFFICES ASSUME RecordingsInit PROVE WholeInv
  OBVIOUS
<1> USE RecordingsAssumption DEF RecordingsInit
<1>1. /\ DOMAIN disk = made /\ made \subseteq Old
      /\ \A n \in made : disk[n] = [rec |-> n, result |-> n, summary |-> NoFile]
  BY DEF Directory
<1>2. DiskTyped
  <2>1. disk \in [made -> [rec : made, result : made \cup {NoFile}, summary : made \cup {NoFile}]]
    BY DEF Directory
  <2>2. IsFiniteSet(made)
    BY <1>1, FS_Subset
  <2>3. QED BY <1>1, <2>1, <2>2 DEF DiskTyped
<1>3. ScreenTyped
  BY DEF ScreenTyped, Empty
<1>4. OneDirectoryEach /\ ResultIsOfItsRecording /\ SummaryIsOfItsRecording
  BY <1>1 DEF OneDirectoryEach, ResultIsOfItsRecording, SummaryIsOfItsRecording
<1>5. RecordedInPlace /\ PlayedInPlace /\ TextIsOfPlayed /\ AskedIsOfPlayed
  BY DEF RecordedInPlace, PlayedInPlace, TextIsOfPlayed, AskedIsOfPlayed, Busy, Result, Exists,
         Recognizing
<1>6. QED BY <1>2, <1>3, <1>4, <1>5 DEF WholeInv

(***************************************************************************)
(* Lists of names.                                                         *)
(***************************************************************************)
LEMMA OrdersFacts ==
  ASSUME NEW S, IsFiniteSet(S), NEW s \in Orders(S)
  PROVE  s \in Seq(S) /\ Once(s) /\ Listing(s) = S
<1> DEFINE n == Cardinality(S)
<1>1. n \in Nat /\ IsFiniteSet(1 .. n) /\ Cardinality(1 .. n) = n
  BY FS_CardinalityType, FS_Interval
<1>2. s \in [1 .. n -> S] /\ Listing(s) = S
  BY DEF Orders
<1> HIDE DEF n
<1>3. s \in Surjection(1 .. n, S)
  BY <1>2 DEF Surjection, Listing
<1>4. s \in Injection(1 .. n, S)
  BY <1>1, <1>3, FS_SurjSameCardinalityImpliesInj DEF n
<1>5. Once(s)
  BY <1>2, <1>4 DEF Injection, IsInjective, Once
<1>6. QED BY <1>1, <1>2, <1>5

LEMMA OrdersExist ==
  ASSUME NEW S, IsFiniteSet(S)
  PROVE  \E s : s \in Orders(S)
<1>1. PICK f \in Bijection(1 .. Cardinality(S), S) : TRUE
  BY FS_CardinalityType DEF ExistsBijection
<1>2. f \in [1 .. Cardinality(S) -> S] /\ Listing(f) = S
  BY <1>1 DEF Bijection, Injection, Surjection, Listing
<1>3. QED BY <1>2 DEF Orders

LEMMA ListingTyped ==
  ASSUME NEW S, NEW s \in Seq(S)
  PROVE  Listing(s) \subseteq S
BY DEF Listing

LEMMA ListingFinite ==
  ASSUME NEW S, NEW s \in Seq(S)
  PROVE  IsFiniteSet(Listing(s))
<1> DEFINE T == Listing(s)
<1>1. IsFiniteSet(1 .. Len(s))
  <2>1. Len(s) \in Int /\ 1 \in Int
    OBVIOUS
  <2>2. QED BY ONLY <2>1, FS_Interval
<1>2. s \in Surjection(1 .. Len(s), T)
  <2>1. DOMAIN s = 1 .. Len(s) /\ s \in [1 .. Len(s) -> T]
    BY DEF Listing
  <2>2. QED BY <2>1 DEF Surjection, Listing
<1> HIDE DEF T
<1>3. IsFiniteSet(T)
  BY <1>1, <1>2, FS_Surjection
<1>4. QED BY <1>3 DEF T

(***************************************************************************)
(* What an act leaves alone of the screens.                                *)
(***************************************************************************)
LEMMA PrepareStays ==
  ASSUME ScreenInv, UNCHANGED <<listener, opening, ready>>, mishaps \subseteq mishaps',
         DOMAIN disk \subseteq DOMAIN disk', \A n \in DOMAIN disk : disk'[n].rec = disk[n].rec
  PROVE  OnePrepare'
BY DEF ScreenInv, OnePrepare, Never, Busy, Exists

LEMMA WordsStay ==
  ASSUME ScreenInv, UNCHANGED <<player, shownWords>>, mishaps \subseteq mishaps'
  PROVE  AudioMatchesWords'
BY DEF ScreenInv, AudioMatchesWords, Never

LEMMA ListStays ==
  ASSUME WholeInv, ScreenInv, UNCHANGED listVars, mishaps \subseteq mishaps',
         DOMAIN disk' = DOMAIN disk, \A n \in DOMAIN disk : disk'[n].rec = disk[n].rec,
         UNCHANGED ui \/ {ui, ui'} \subseteq {"main", "progress", "answered"}
  PROVE  /\ ListIsClosed' /\ AnswersAreOfTheName' /\ ListTyped' /\ MenuInPlace'
         /\ DetailsAreOfTheName' /\ ListFollowsDisk'
<1> USE DEF ScreenInv, listVars, detailVars
<1>1. ListIsClosed' /\ ListTyped' /\ MenuInPlace'
  BY DEF ListIsClosed, ListTyped, MenuInPlace, Never
<1>2. AnswersAreOfTheName' /\ DetailsAreOfTheName'
  BY DEF AnswersAreOfTheName, DetailsAreOfTheName, Never, Exists
<1>3. ListFollowsDisk'
  BY DEF ListFollowsDisk, Never, Exists
<1>4. QED BY <1>1, <1>2, <1>3

(***************************************************************************)
(* Each act keeps ScreenInv.                                               *)
(***************************************************************************)
LEMMA OpenFileKeepsScreen == ASSUME WholeInv, ScreenInv, OpenFile PROVE ScreenInv'
<1> USE DEF OpenFile
<1>1. mishaps \subseteq mishaps'
  BY DEF Note
<1>2. OnePrepare'
  <2>1. SUFFICES ASSUME Never({"overtaken", "moved"})', Busy'
                 PROVE  opening' = <<>> /\ ready' = <<disk[listener].rec>> /\ Exists(listener)
    BY DEF OnePrepare, Exists
  <2>2. PICK i \in DOMAIN opening :
           /\ opening' = RemovedAt(opening, i)
           /\ \/ /\ Exists(opening[i])
                 /\ ready' = Append(ready, disk[opening[i]].rec)
              \/ UNCHANGED ready
    OBVIOUS
  <2>3. opening = <<listener>> /\ ready = <<>> /\ Exists(listener)
    BY <1>1, <2>1, <2>2 DEF ScreenInv, OnePrepare, Never, Busy
  <2>4. i = 1 /\ opening[i] = listener
    BY <2>2, <2>3
  <2>5. opening' = <<>>
    <3>1. opening \in Seq(Names) /\ Len(opening) = 1 /\ i \in 1 .. Len(opening)
      BY <2>3, <2>4 DEF WholeInv, ScreenTyped
    <3>2. RemovedAt(opening, i) \in Seq(Names) /\ Len(RemovedAt(opening, i)) = Len(opening) - 1
      BY ONLY <3>1, RemovedFacts
    <3>3. QED BY ONLY <2>2, <3>1, <3>2
  <2>6. ready' = <<disk[listener].rec>>
    BY <2>1, <2>2, <2>3, <2>4, <2>5 DEF Busy
  <2>7. QED BY <2>3, <2>5, <2>6
<1>3. AudioMatchesWords'
  BY <1>1, WordsStay DEF textVars
<1>4. QED BY <1>1, <1>2, <1>3, ListStays DEF ScreenInv

LEMMA ReadyKeepsScreen == ASSUME WholeInv, ScreenInv, Ready PROVE ScreenInv'
<1> USE DEF Ready, ShowWords, historyVars
<1>1. Never({"overtaken", "moved"}) =>
        ready' = <<>> /\ opening = <<>> /\ Exists(listener) /\ player' = disk[listener].rec
  <2>1. SUFFICES ASSUME Never({"overtaken", "moved"})
                 PROVE  ready' = <<>> /\ opening = <<>> /\ Exists(listener) /\ player' = disk[listener].rec
    OBVIOUS
  <2>2. opening = <<>> /\ ready = <<disk[listener].rec>> /\ Exists(listener)
    BY <2>1 DEF ScreenInv, OnePrepare, Busy
  <2>3. ready' = Tail(ready) /\ player' = Head(ready)
    OBVIOUS
  <2>4. QED BY ONLY <2>2, <2>3
<1>2. OnePrepare'
  BY <1>1 DEF OnePrepare, Never, Busy
<1>3. AudioMatchesWords'
  BY <1>1 DEF AudioMatchesWords, WholeInv, ResultIsOfItsRecording, Never, Result, Exists
<1>4. QED BY <1>2, <1>3, ListStays DEF ScreenInv

LEMMA EnterKeepsOnePrepare ==
  ASSUME WholeInv, ScreenInv, NEW name \in Names, EnterPlaybackMode(name), UNCHANGED <<disk, ready>>
  PROVE  OnePrepare'
<1>1. SUFFICES ASSUME Never({"overtaken", "moved"})'
               PROVE  \/ ~Busy'
                      \/ Exists(listener') /\ opening' = <<listener'>> /\ ready = <<>>
  BY DEF OnePrepare, Exists
<1>2. ~Busy
  BY <1>1 DEF EnterPlaybackMode, Never, Note, When
<1>3. opening = <<>> /\ ready = <<>> /\ ready' = <<>>
  BY <1>2 DEF Busy
<1>4. CASE Exists(name)
  <2>1. listener' = name /\ opening' = <<name>> /\ Exists(name)'
    BY <1>3, <1>4 DEF EnterPlaybackMode, Exists
  <2>2. QED BY <1>3, <2>1 DEF Exists
<1>5. CASE ~Exists(name)
  BY <1>3, <1>5 DEF EnterPlaybackMode, Busy
<1>6. QED BY <1>4, <1>5

LEMMA FinishedKeepsScreen == ASSUME WholeInv, ScreenInv, Finished PROVE ScreenInv'
<1> USE DEF Finished
<1>1. Head(posted) \in Names
  BY HeadTailProperties DEF WholeInv, ScreenTyped
<1>2. OnePrepare'
  BY <1>1, EnterKeepsOnePrepare
<1>3. mishaps \subseteq mishaps'
  BY DEF EnterPlaybackMode, Note
<1>4. AudioMatchesWords'
  BY <1>3, WordsStay DEF textVars
<1>5. QED BY <1>2, <1>3, <1>4, ListStays DEF ScreenInv

LEMMA SessionActsKeepScreen ==
  ASSUME WholeInv, ScreenInv,
         \/ Stop \/ Display \/ SaveTimedResult
         \/ RequestSummary \/ SaveSummary \/ ShowSummary \/ NoSummary
  PROVE  ScreenInv'
<1> USE DEF Stop, Display, SaveTimedResult, AsrEnds, RequestSummary, SaveSummary, ShowSummary,
            NoSummary, Act, historyVars
<1>1. /\ mishaps \subseteq mishaps' /\ UNCHANGED <<prepareVars, player, shownWords, listVars>>
      /\ UNCHANGED ui \/ {ui, ui'} \subseteq {"main", "progress", "answered"}
  BY DEF Note, textVars
<1>2. DOMAIN disk' = DOMAIN disk /\ \A n \in DOMAIN disk : disk'[n].rec = disk[n].rec
  <2>1. \/ disk' = disk
        \/ \E n, v : disk' = [disk EXCEPT ![n].result = v]
        \/ \E n, v : disk' = [disk EXCEPT ![n].summary = v]
    OBVIOUS
  <2>2. QED BY <2>1 DEF WholeInv, DiskTyped
<1>3. OnePrepare' /\ AudioMatchesWords'
  BY <1>1, <1>2, PrepareStays, WordsStay DEF prepareVars
<1>4. QED BY <1>1, <1>2, <1>3, ListStays DEF ScreenInv

LEMMA ClosedScreen ==
  ASSUME CloseList
  PROVE  /\ ListIsClosed' /\ AnswersAreOfTheName' /\ ListTyped' /\ DetailsAreOfTheName'
         /\ ui' = "main" => MenuInPlace' /\ ListFollowsDisk'
BY DEF CloseList, ListIsClosed, AnswersAreOfTheName, ListTyped, MenuInPlace, Once, Listing,
       DetailsAreOfTheName, ListFollowsDisk

LEMMA RecordKeepsScreen == ASSUME WholeInv, ScreenInv, Record PROVE ScreenInv'
<1> USE DEF Record, Act
<1>1. PICK n \in Names \ (made \cup DOMAIN disk) :
         disk' = Put(disk, n, [Directory(n) EXCEPT !.result = NoFile])
  OBVIOUS
<1>2. /\ mishaps \subseteq mishaps' /\ ui = "main"
      /\ \/ ui' = "main"
         \/ ui' = "crashed" /\ ~Never({"overlapped"})'
  BY DEF Never, Note, When
<1>3. /\ DOMAIN disk \subseteq DOMAIN disk'
      /\ \A m \in DOMAIN disk : disk'[m].rec = disk[m].rec
  BY ONLY <1>1 DEF Put
<1>4. OnePrepare'
  BY <1>2, <1>3, PrepareStays DEF prepareVars
<1>5. AudioMatchesWords'
  BY DEF AudioMatchesWords
<1>6. allNames = <<>> /\ displayList = <<>> /\ searches = <<>> /\ loadingSet = {} /\ loads = {}
  BY <1>2 DEF ScreenInv, ListIsClosed
<1>7. /\ ListIsClosed' /\ AnswersAreOfTheName' /\ ListTyped' /\ MenuInPlace'
      /\ DetailsAreOfTheName' /\ ListFollowsDisk'
  <2> USE <1>2, <1>6 DEF listVars, detailVars
  <2>1. ListIsClosed' /\ ListTyped' /\ MenuInPlace'
    BY DEF ListIsClosed, ListTyped, MenuInPlace, Once, Listing
  <2>2. AnswersAreOfTheName' /\ DetailsAreOfTheName' /\ ListFollowsDisk'
    BY DEF AnswersAreOfTheName, DetailsAreOfTheName, ListFollowsDisk
  <2>3. QED BY <2>1, <2>2
<1>8. QED BY <1>4, <1>5, <1>7 DEF ScreenInv

LEMMA TapItemKeepsScreen == ASSUME WholeInv, ScreenInv, TapItem PROVE ScreenInv'
<1> USE DEF TapItem
<1>1. displayList \in Seq(Names)
  BY DEF ScreenInv, ListTyped
<1>2. OnePrepare'
  BY <1>1, EnterKeepsOnePrepare
<1>3. AudioMatchesWords'
  BY DEF AudioMatchesWords
<1>4. QED BY <1>2, <1>3, ClosedScreen DEF ScreenInv

LEMMA ListActStays == ASSUME WholeInv, ScreenInv, ListAct PROVE OnePrepare' /\ AudioMatchesWords'
<1>1. UNCHANGED <<disk, prepareVars, player, textVars>> /\ mishaps \subseteq mishaps'
  BY DEF ListAct, ShowList, View, ReadDetails, PutDetails, SearchNothing, Search, ShowResults,
         Cancel, LongPress, LeaveMenu, Note, historyVars
<1>2. QED BY <1>1, PrepareStays, WordsStay DEF prepareVars, textVars

LEMMA ShowListKeepsScreen == ASSUME WholeInv, ScreenInv, ShowList PROVE ScreenInv'
<1> USE DEF ShowList, Act, detailVars
<1>1. allNames' \in Orders(DOMAIN disk)
  BY OrdersExist DEF WholeInv, DiskTyped
<1>2. allNames' \in Seq(DOMAIN disk) /\ Once(allNames')
  BY <1>1, OrdersFacts DEF WholeInv, DiskTyped
<1>3. allNames' \in Seq(Names)
  BY <1>2 DEF WholeInv, DiskTyped
<1>4. searches = <<>> /\ loadingSet = {} /\ loads = {}
  BY DEF ScreenInv, ListIsClosed
<1>5. ListTyped' /\ MenuInPlace' /\ ListIsClosed'
  BY <1>2, <1>3, <1>4 DEF ListTyped, MenuInPlace, ListIsClosed
<1>6. AnswersAreOfTheName' /\ DetailsAreOfTheName'
  BY <1>4 DEF AnswersAreOfTheName, DetailsAreOfTheName
<1>7. ListFollowsDisk'
  <2>1. \A i \in DOMAIN allNames' : allNames'[i] \in DOMAIN disk
    BY <1>2
  <2>2. displayList' = allNames' /\ ui' = "list" /\ disk' = disk
    OBVIOUS
  <2>3. QED BY ONLY <2>1, <2>2 DEF ListFollowsDisk, Exists
<1>8. QED BY <1>5, <1>6, <1>7, ListActStays DEF ScreenInv, ListAct

LEMMA ViewKeepsScreen == ASSUME WholeInv, ScreenInv, View PROVE ScreenInv'
<1> USE DEF View, historyVars
<1>1. PICK name \in Listing(displayList) \ (DOMAIN detailCache \cup loadingSet) :
         /\ loadingSet' = loadingSet \cup {name}
         /\ loads' = loads \cup {[name |-> name, done |-> FALSE, text |-> NoFile]}
  OBVIOUS
<1>2. ListTyped' /\ MenuInPlace' /\ ListFollowsDisk' /\ ListIsClosed'
  BY DEF ScreenInv, ListTyped, MenuInPlace, ListFollowsDisk, ListIsClosed, Never, Exists
<1>3. AnswersAreOfTheName'
  <2>1. \A l \in loads' : l.done => l \in loads
    BY ONLY <1>1
  <2>2. UNCHANGED <<disk, mishaps>>
    OBVIOUS
  <2>3. QED BY ONLY <2>1, <2>2, ScreenInv DEF ScreenInv, AnswersAreOfTheName, Never, Exists
<1>4. DetailsAreOfTheName'
  <2> DEFINE r == [name |-> name, done |-> FALSE, text |-> NoFile]
  <2>1. r.name = name /\ r \in loads'
    BY ONLY <1>1
  <2> HIDE DEF r
  <2>2. loads \subseteq loads' /\ UNCHANGED <<disk, mishaps, detailCache>>
    BY <1>1
  <2>3. QED BY ONLY <1>1, <2>1, <2>2, ScreenInv DEF ScreenInv, DetailsAreOfTheName, Never
<1>5. QED BY <1>2, <1>3, <1>4, ListActStays DEF ScreenInv, ListAct

LEMMA ReadDetailsKeepsScreen == ASSUME WholeInv, ScreenInv, ReadDetails PROVE ScreenInv'
<1> USE DEF ReadDetails, historyVars
<1>1. PICK l \in loads :
         loads' = (loads \ {l}) \cup {[l EXCEPT !.done = TRUE, !.text = Result(l.name)]}
  OBVIOUS
<1>2. ListTyped' /\ MenuInPlace' /\ ListFollowsDisk' /\ ListIsClosed'
  BY DEF ScreenInv, ListTyped, MenuInPlace, ListFollowsDisk, ListIsClosed, Never, Exists
<1> DEFINE r == [l EXCEPT !.done = TRUE, !.text = Result(l.name)]
<1>3. r.name = l.name /\ r.text = Result(l.name)
  <2>1. l \in [name : loadingSet, done : BOOLEAN, text : made \cup {NoFile}]
    BY DEF WholeInv, ScreenTyped
  <2>2. QED BY ONLY <2>1
<1> HIDE DEF r
<1>4. loads' = (loads \ {l}) \cup {r}
  BY <1>1 DEF r
<1>5. AnswersAreOfTheName'
  BY <1>3, <1>4
     DEF ScreenInv, AnswersAreOfTheName, WholeInv, ResultIsOfItsRecording, Never, Exists, Result
<1>6. DetailsAreOfTheName'
  BY <1>3, <1>4 DEF ScreenInv, DetailsAreOfTheName, Never
<1>7. QED BY <1>2, <1>5, <1>6, ListActStays DEF ScreenInv, ListAct

LEMMA PutDetailsKeepsScreen == ASSUME WholeInv, ScreenInv, PutDetails PROVE ScreenInv'
<1> USE DEF PutDetails, historyVars
<1>1. PICK l \in loads : /\ l.done
                         /\ loads' = loads \ {l}
                         /\ detailCache' = Put(detailCache, l.name, l.text)
  OBVIOUS
<1>2. ListTyped' /\ MenuInPlace' /\ ListFollowsDisk' /\ ListIsClosed'
  BY DEF ScreenInv, ListTyped, MenuInPlace, ListFollowsDisk, ListIsClosed, Never, Exists
<1>3. AnswersAreOfTheName'
  BY <1>1 DEF ScreenInv, AnswersAreOfTheName, Never, Exists
<1>4. /\ DOMAIN detailCache' = DOMAIN detailCache \cup {l.name}
      /\ detailCache'[l.name] = l.text
      /\ \A n \in DOMAIN detailCache \ {l.name} : detailCache'[n] = detailCache[n]
  BY ONLY <1>1 DEF Put
<1>5. DetailsAreOfTheName'
  BY <1>1, <1>4 DEF ScreenInv, AnswersAreOfTheName, DetailsAreOfTheName, Never, Exists
<1>6. QED BY <1>2, <1>3, <1>5, ListActStays DEF ScreenInv, ListAct

LEMMA SearchActsKeepScreen ==
  ASSUME WholeInv, ScreenInv, SearchNothing \/ Search \/ ShowResults
  PROVE  ScreenInv'
<1> USE DEF Act, historyVars
<1>1. /\ UNCHANGED <<disk, detailVars, allNames, menu, ui>> /\ mishaps \subseteq mishaps'
  BY DEF SearchNothing, Search, ShowResults, Note
<1>2. AnswersAreOfTheName' /\ DetailsAreOfTheName'
  BY <1>1 DEF ScreenInv, AnswersAreOfTheName, DetailsAreOfTheName, Never, Exists, detailVars
<1>3. CASE SearchNothing
  <2>1. ListTyped' /\ MenuInPlace' /\ ListIsClosed'
    BY <1>3 DEF SearchNothing, ScreenInv, ListTyped, MenuInPlace, ListIsClosed, detailVars
  <2>2. ListFollowsDisk'
    BY <1>3 DEF SearchNothing, ScreenInv, ListFollowsDisk, Never, Note, When, Gone, Exists
  <2>3. QED BY <1>2, <1>3, <2>1, <2>2, ListActStays DEF ScreenInv, ListAct
<1>4. CASE Search
  <2>1. Findable \in SUBSET Listing(allNames) /\ searches' = Append(searches, Findable)
    BY <1>4 DEF Search, Findable
  <2>2. searches' \in Seq(SUBSET Listing(allNames))
    BY <2>1, AppendProperties DEF ScreenInv, ListTyped
  <2>3. ListTyped' /\ MenuInPlace' /\ ListIsClosed'
    BY <1>4, <2>2 DEF Search, ScreenInv, ListTyped, MenuInPlace, ListIsClosed, Never, Listing
  <2>4. ListFollowsDisk'
    BY <1>4 DEF Search, ScreenInv, ListFollowsDisk, Never, Exists
  <2>5. QED BY <1>2, <1>4, <2>3, <2>4, ListActStays DEF ScreenInv, ListAct
<1>5. CASE ShowResults
  <2>0. PICK i \in DOMAIN searches : \E found \in SUBSET (searches[i] \cup Findable) :
           /\ searches' = RemovedAt(searches, i)
           /\ displayList' \in InOrder(found)
           /\ Note(When("gone", Gone(displayList')) \cup When("underMenu", ui = "menu"))
    BY <1>5 DEF ShowResults
  <2>1. PICK found \in SUBSET (searches[i] \cup Findable) :
           /\ searches' = RemovedAt(searches, i)
           /\ displayList' \in InOrder(found)
           /\ Note(When("gone", Gone(displayList')) \cup When("underMenu", ui = "menu"))
    BY <2>0
  <2>2. found \in SUBSET Listing(allNames) /\ searches' \in Seq(SUBSET Listing(allNames))
    <3>1. searches \in Seq(SUBSET Listing(allNames)) /\ i \in 1 .. Len(searches)
      BY DEF ScreenInv, ListTyped
    <3>2. QED BY <2>1, <3>1, RemovedFacts DEF Findable
  <2>3. found \in SUBSET Names /\ IsFiniteSet(found)
    <3>1. allNames \in Seq(Names)
      BY DEF ScreenInv, ListTyped
    <3>2. IsFiniteSet(Listing(allNames))
      BY <3>1, ListingFinite
    <3>3. QED BY <2>2, <3>1, <3>2, ListingTyped, FS_Subset
  <2>4. displayList' \in Seq(found) /\ Once(displayList')
    BY <2>1, <2>3, OrdersFacts DEF InOrder
  <2>5. displayList' \in Seq(Names)
    BY <2>3, <2>4
  <2>6. ListTyped'
    BY <1>1, <2>2, <2>5 DEF ScreenInv, ListTyped, Listing
  <2>7. Never({"gone", "underMenu"})' => ~Gone(displayList)' /\ ui # "menu"
    BY <1>1, <2>1 DEF Never, Note, When, Gone, Exists
  <2>8. MenuInPlace' /\ ListFollowsDisk' /\ ListIsClosed'
    <3>1. ui \in {"list", "menu", "crashed"}
      BY DEF ScreenInv, ListIsClosed
    <3>2. MenuInPlace'
      BY <1>1, <2>4, <2>7 DEF ScreenInv, MenuInPlace
    <3>3. ListFollowsDisk'
      BY <1>1, <2>7 DEF ScreenInv, ListFollowsDisk, Gone, Never
    <3>4. QED BY <1>1, <3>1, <3>2, <3>3 DEF ListIsClosed
  <2>9. QED BY <1>2, <1>5, <2>6, <2>8, ListActStays DEF ScreenInv, ListAct
<1>6. QED BY <1>3, <1>4, <1>5

LEMMA CancelKeepsScreen == ASSUME WholeInv, ScreenInv, Cancel PROVE ScreenInv'
BY ListActStays, ClosedScreen DEF ScreenInv, ListAct, Cancel

LEMMA LongPressKeepsScreen == ASSUME WholeInv, ScreenInv, LongPress PROVE ScreenInv'
<1> USE DEF LongPress, Act
<1>1. PICK pos \in DOMAIN displayList : menu' = [name |-> displayList[pos], pos |-> pos]
  OBVIOUS
<1>2. AnswersAreOfTheName' /\ DetailsAreOfTheName'
  BY DEF ScreenInv, AnswersAreOfTheName, DetailsAreOfTheName, Never, Exists, detailVars
<1>3. ListTyped' /\ ListIsClosed' /\ ListFollowsDisk'
  BY DEF ScreenInv, ListTyped, ListIsClosed, ListFollowsDisk, Never, Exists
<1>4. MenuInPlace'
  <2>1. menu' \in [name : Names, pos : Nat] /\ menu'.pos = pos /\ menu'.name = displayList[pos]
    BY <1>1 DEF ScreenInv, ListTyped
  <2>2. QED BY <2>1 DEF ScreenInv, MenuInPlace, Never
<1>5. QED BY <1>2, <1>3, <1>4, ListActStays DEF ScreenInv, ListAct

LEMMA LeaveMenuKeepsScreen == ASSUME WholeInv, ScreenInv, LeaveMenu PROVE ScreenInv'
<1> USE DEF LeaveMenu, historyVars
<1>1. AnswersAreOfTheName' /\ DetailsAreOfTheName'
  BY DEF ScreenInv, AnswersAreOfTheName, DetailsAreOfTheName, Never, Exists, detailVars
<1>2. ListTyped' /\ ListIsClosed' /\ ListFollowsDisk' /\ MenuInPlace'
  BY DEF ScreenInv, ListTyped, ListIsClosed, ListFollowsDisk, MenuInPlace, Never, Exists
<1>3. QED BY <1>1, <1>2, ListActStays DEF ScreenInv, ListAct

LEMMA RenameKeepsScreen == ASSUME WholeInv, ScreenInv, Rename PROVE ScreenInv'
<1> USE DEF Rename
<1> DEFINE name == menu.name
           pos == menu.pos
<1>1. PICK newName \in Names \ {name} :
         /\ RenameRecording(name, newName)
         /\ Changed([displayList EXCEPT ![pos] = newName])
         /\ detailCache' = Without(detailCache, name)
         /\ Note(Moves(name) \cup When("nameReused", newName \in loadingSet))
  OBVIOUS
<1>2. name \in Names /\ pos \in Nat
  BY DEF ScreenInv, MenuInPlace
<1>3. Never({"gone", "underMenu"}) => pos \in DOMAIN displayList /\ displayList[pos] = name
  BY DEF ScreenInv, MenuInPlace
<1> HIDE DEF name, pos
<1>4. /\ name \in DOMAIN disk /\ newName \notin DOMAIN disk
      /\ DOMAIN disk' = (DOMAIN disk \ {name}) \cup {newName}
      /\ \A n \in DOMAIN disk \ {name} : disk'[n] = disk[n]
  <2>1. RenameRecording(name, newName)
    BY <1>1
  <2>2. QED BY ONLY <2>1, <1>1 DEF RenameRecording, Put, Without, Restrict, Exists
<1>5. /\ DOMAIN detailCache' = DOMAIN detailCache \ {name}
      /\ \A n \in DOMAIN detailCache \ {name} : detailCache'[n] = detailCache[n]
  BY ONLY <1>1 DEF Without, Restrict
<1>6. /\ mishaps \subseteq mishaps'
      /\ Never({"moved"})' => ~Busy
      /\ Never({"nameReused"})' => newName \notin loadingSet
  BY <1>1 DEF Never, Note, Moves, When
<1>7. OnePrepare'
  BY <1>6 DEF OnePrepare, Never, Busy, prepareVars
<1>8. AudioMatchesWords'
  BY <1>6, WordsStay DEF textVars
<1>9. AnswersAreOfTheName' /\ DetailsAreOfTheName'
  <2>1. UNCHANGED <<loads, loadingSet>> /\ \A l \in loads : l.name \in loadingSet
    BY DEF WholeInv, ScreenTyped
  <2>2. Never({"nameReused", "moved", "overlapped"})' =>
          Never({"nameReused", "moved", "overlapped"}) /\ Never({"nameReused"})'
    BY <1>6 DEF Never
  <2>3. AnswersAreOfTheName'
    BY <1>4, <1>6, <2>1, <2>2 DEF ScreenInv, AnswersAreOfTheName, Exists
  <2>4. DetailsAreOfTheName'
    BY <1>4, <1>5, <1>6, <2>1, <2>2 DEF ScreenInv, DetailsAreOfTheName
  <2>5. QED BY <2>3, <2>4
<1>10. \/ /\ ui' = "list" /\ pos \in DOMAIN displayList
          /\ displayList' = [displayList EXCEPT ![pos] = newName]
       \/ /\ ui' = "crashed" /\ displayList' = displayList /\ pos \notin DOMAIN displayList
  BY <1>1 DEF Changed, pos
<1>11. displayList \in Seq(Names) /\ displayList' \in Seq(Names)
  <2>1. displayList \in Seq(Names) /\ newName \in Names
    BY DEF ScreenInv, ListTyped
  <2>2. QED BY ONLY <1>10, <2>1
<1>12. ListTyped' /\ ListIsClosed'
  BY <1>10, <1>11 DEF ScreenInv, ListTyped, ListIsClosed, Listing
<1>13. MenuInPlace' /\ ListFollowsDisk'
  <2>1. SUFFICES ASSUME Never({"gone", "underMenu"})'
                 PROVE  Once(displayList') /\ ui' # "crashed" /\ \A i \in DOMAIN displayList' : displayList'[i] \in DOMAIN disk'
    BY <1>10 DEF MenuInPlace, ListFollowsDisk, Exists
  <2>2. Never({"gone", "underMenu"})
    BY <1>6, <2>1 DEF Never
  <2>3. /\ Once(displayList) /\ pos \in DOMAIN displayList /\ displayList[pos] = name
        /\ \A i \in DOMAIN displayList : displayList[i] \in DOMAIN disk
    BY <1>3, <2>2 DEF ScreenInv, MenuInPlace, ListFollowsDisk, Exists
  <2>4. /\ DOMAIN displayList' = DOMAIN displayList /\ displayList'[pos] = newName
        /\ \A i \in DOMAIN displayList \ {pos} : displayList'[i] = displayList[i]
    BY <1>10, <1>11, <2>3
  <2>5. QED BY ONLY <1>4, <1>10, <2>3, <2>4 DEF Once
<1>14. QED BY <1>7, <1>8, <1>9, <1>12, <1>13 DEF ScreenInv

LEMMA DeleteKeepsScreen == ASSUME WholeInv, ScreenInv, Delete PROVE ScreenInv'
<1> USE DEF Delete
<1> DEFINE name == menu.name
           pos == menu.pos
<1>1. /\ disk' = Without(disk, name) /\ detailCache' = Without(detailCache, name)
      /\ Changed(RemovedAt(displayList, pos)) /\ Note(Moves(name))
  OBVIOUS
<1>2. name \in Names /\ pos \in Nat
  BY DEF ScreenInv, MenuInPlace
<1>3. Never({"gone", "underMenu"}) => pos \in DOMAIN displayList /\ displayList[pos] = name
  BY DEF ScreenInv, MenuInPlace
<1> HIDE DEF name, pos
<1>4. /\ DOMAIN disk' = DOMAIN disk \ {name}
      /\ \A n \in DOMAIN disk \ {name} : disk'[n] = disk[n]
  BY ONLY <1>1 DEF Without, Restrict
<1>5. /\ DOMAIN detailCache' = DOMAIN detailCache \ {name}
      /\ \A n \in DOMAIN detailCache \ {name} : detailCache'[n] = detailCache[n]
  BY ONLY <1>1 DEF Without, Restrict
<1>6. mishaps \subseteq mishaps' /\ (Never({"moved"})' => ~Busy)
  BY <1>1 DEF Never, Note, Moves, When
<1>7. OnePrepare'
  BY <1>6 DEF OnePrepare, Never, Busy, prepareVars
<1>8. AudioMatchesWords'
  BY <1>6, WordsStay DEF textVars
<1>9. AnswersAreOfTheName' /\ DetailsAreOfTheName'
  BY <1>4, <1>5, <1>6 DEF ScreenInv, AnswersAreOfTheName, DetailsAreOfTheName, Never, Exists
<1>10. \/ /\ ui' = "list" /\ pos \in DOMAIN displayList
          /\ displayList' = RemovedAt(displayList, pos)
       \/ /\ ui' = "crashed" /\ displayList' = displayList /\ pos \notin DOMAIN displayList
  BY <1>1 DEF Changed, pos
<1>11. /\ displayList \in Seq(Names) /\ displayList' \in Seq(Names)
       /\ pos \in DOMAIN displayList =>
            /\ Len(displayList') = Len(displayList) - 1
            /\ \A j \in 1 .. Len(displayList) - 1 :
                 displayList'[j] = IF j < pos THEN displayList[j] ELSE displayList[j + 1]
  <2>1. displayList \in Seq(Names) /\ DOMAIN displayList = 1 .. Len(displayList)
    BY DEF ScreenInv, ListTyped
  <2>2. QED BY ONLY <1>10, <2>1, RemovedFacts, ZenonT(40)
<1>12. ListTyped' /\ ListIsClosed'
  BY <1>10, <1>11 DEF ScreenInv, ListTyped, ListIsClosed, Listing
<1>13. MenuInPlace' /\ ListFollowsDisk'
  <2>1. SUFFICES ASSUME Never({"gone", "underMenu"})'
                 PROVE  Once(displayList') /\ ui' # "crashed" /\ \A i \in DOMAIN displayList' : displayList'[i] \in DOMAIN disk'
    BY <1>10 DEF MenuInPlace, ListFollowsDisk, Exists
  <2>2. Never({"gone", "underMenu"})
    BY <1>6, <2>1 DEF Never
  <2>3. /\ Once(displayList) /\ pos \in DOMAIN displayList /\ displayList[pos] = name
        /\ \A i \in DOMAIN displayList : displayList[i] \in DOMAIN disk
    BY <1>3, <2>2 DEF ScreenInv, MenuInPlace, ListFollowsDisk, Exists
  <2>4. /\ DOMAIN displayList = 1 .. Len(displayList) /\ Len(displayList) \in Nat
        /\ DOMAIN displayList' = 1 .. Len(displayList) - 1
    BY ONLY <1>11, <2>3
  <2>5. \A j \in DOMAIN displayList' :
           \E i \in DOMAIN displayList \ {pos} : /\ displayList'[j] = displayList[i]
                                                 /\ i = IF j < pos THEN j ELSE j + 1
    BY ONLY <1>2, <1>11, <2>3, <2>4
  <2>6. Once(displayList')
    BY ONLY <1>2, <2>3, <2>4, <2>5 DEF Once
  <2>7. \A i \in DOMAIN displayList' : displayList'[i] \in DOMAIN disk'
    BY ONLY <1>4, <2>3, <2>5 DEF Once
  <2>8. QED BY <1>10, <2>3, <2>6, <2>7
<1>14. QED BY <1>7, <1>8, <1>9, <1>12, <1>13 DEF ScreenInv

LEMMA InitScreen == RecordingsInit => ScreenInv
BY DEF RecordingsInit, ScreenInv, OnePrepare, ListIsClosed, AnswersAreOfTheName, ListTyped, Once,
       Listing, MenuInPlace, AudioMatchesWords, DetailsAreOfTheName, ListFollowsDisk, Busy

(***************************************************************************)
(* The theorems.                                                           *)
(***************************************************************************)
LEMMA NextKeepsInvariants ==
  ASSUME WholeInv, ScreenInv, [RecordingsNext]_recordings_vars
  PROVE  WholeInv' /\ ScreenInv'
<1>1. CASE RecordingsNext
  <2>1. CASE OpenFile \/ Ready \/ Finished \/ TapItem
    <3>1. displayList \in Seq(Names)
      BY DEF ScreenInv, ListTyped
    <3>2. QED BY <2>1, <3>1, OpenFileKeepsWhole, ReadyKeepsWhole, FinishedKeepsWhole, TapItemKeepsWhole,
                 OpenFileKeepsScreen, ReadyKeepsScreen, FinishedKeepsScreen, TapItemKeepsScreen
  <2>2. CASE \/ Record \/ Stop \/ Display \/ SaveTimedResult
             \/ RequestSummary \/ SaveSummary \/ ShowSummary \/ NoSummary
    BY <2>2, RecordKeepsWhole, SessionActsKeepWhole, SaveTimedResultKeepsWhole,
       RequestSummaryKeepsWhole, SaveSummaryKeepsWhole, RecordKeepsScreen, SessionActsKeepScreen
  <2>3. CASE ListAct
    BY <2>3, ListActKeepsWhole, ShowListKeepsScreen, ViewKeepsScreen, ReadDetailsKeepsScreen,
       PutDetailsKeepsScreen, SearchActsKeepScreen, CancelKeepsScreen, LongPressKeepsScreen,
       LeaveMenuKeepsScreen DEF ListAct
  <2>4. CASE Rename \/ Delete
    BY <2>4, RenameKeepsWhole, RenameKeepsScreen, DeleteKeepsWhole, DeleteKeepsScreen
  <2>5. QED BY <1>1, <2>1, <2>2, <2>3, <2>4 DEF RecordingsNext, ListAct
<1>2. CASE UNCHANGED recordings_vars
  <2> USE DEF recordings_vars, sessionVars, textVars, prepareVars, summaryVars, listVars, detailVars,
              historyVars
  <2>1. ScreenTyped'
    BY <1>2 DEF WholeInv, ScreenTyped
  <2>2. WholeInv'
    BY <1>2, <2>1, DiskStays, PlayStays, AskStays DEF WholeInv, Recognizing
  <2>3. ScreenInv'
    BY <1>2, PrepareStays, WordsStay, ListStays DEF ScreenInv
  <2>4. QED BY <2>2, <2>3
<1>3. QED BY <1>1, <1>2

LEMMA InvariantsHold == RecordingsSpec => [](WholeInv /\ ScreenInv)
<1>1. RecordingsInit => WholeInv /\ ScreenInv
  BY InitWhole, InitScreen
<1>2. WholeInv /\ ScreenInv /\ [RecordingsNext]_recordings_vars => (WholeInv /\ ScreenInv)'
  BY NextKeepsInvariants
<1>3. QED BY <1>1, <1>2, PTL DEF RecordingsSpec

\* Of NothingVanishes: one directory each means that their number is 1 or 0.
LEMMA OneMeansNothingVanishes == ASSUME DiskTyped, OneDirectoryEach PROVE NothingVanishes
<1>1. SUFFICES ASSUME NEW rec \in made
               PROVE  Cardinality({n \in DOMAIN disk : disk[n].rec = rec})
                        = IF rec \in confirmed THEN 0 ELSE 1
  BY DEF NothingVanishes
<1> DEFINE S == {n \in DOMAIN disk : disk[n].rec = rec}
<1>2. CASE rec \in confirmed
  <2>1. S = {}
    BY <1>2 DEF OneDirectoryEach
  <2>2. QED BY <1>2, <2>1, FS_EmptySet
<1>3. CASE rec \notin confirmed
  <2>1. PICK n \in DOMAIN disk : disk[n].rec = rec
    BY <1>3 DEF OneDirectoryEach
  <2>2. S = {n}
    BY <2>1 DEF OneDirectoryEach
  <2>3. QED BY <1>3, <2>2, FS_Singleton
<1>4. QED BY <1>2, <1>3

\* Whatever the user and the threads do and in whatever order, no recording made is
\* lost from the disk or there twice, and its directory holds its own text and
\* summary, but for the mishaps that RecordingsStayWhole names.
THEOREM RecordingsAreWhole == RecordingsSpec => []RecordingsStayWhole
<1>1. WholeInv => RecordingsStayWhole
  <2>1. SUFFICES ASSUME WholeInv PROVE RecordingsStayWhole
    OBVIOUS
  <2>2. RecordingsTypeOK
    BY <2>1 DEF WholeInv, DiskTyped, ScreenTyped, RecordingsTypeOK
  <2>3. NothingVanishes
    BY <2>1, OneMeansNothingVanishes DEF WholeInv
  <2>4. QED BY <2>1, <2>2, <2>3 DEF WholeInv, RecordingsStayWhole
<1>2. QED BY <1>1, InvariantsHold, PTL

\* The words on the screen are those of the audio that is played, and the list, its
\* details and the item of a menu are those of the recordings on disk, but for the
\* mishaps that the parts of ScreensFollowDisk name.
THEOREM ScreensAreOfTheDisk == RecordingsSpec => []ScreensFollowDisk
<1>1. ScreenInv => ScreensFollowDisk
  BY DEF ScreenInv, ScreensFollowDisk
<1>2. QED BY <1>1, InvariantsHold, PTL

--------------------------------------------------------------------------------
(* 2. The speaker's voice, and the text.                                   *)

(***************************************************************************)
(* The speaker's chunks.  IsVoice is about the answers only: Voiced is the *)
(* same of a sequence of answers that does not change.                     *)
(***************************************************************************)
Quiet(p, j, k) == k - HANGOVER_FRAMES > j =>
                      \E m \in k - HANGOVER_FRAMES .. k : p[m] # "off"

Voiced(p, i) == \E j \in 1 .. i : p[j] = "on" /\ \A k \in j + 1 .. i : Quiet(p, j, k)

\* The saved segments, or those so far: their borders are borders of chunks, and
\* they are in order and apart.
Borders(p) == {ChunkStart(i) : i \in 1 .. Len(p) + 1}

Apart(segs) ==
    \A j, k \in DOMAIN segs : /\ segs[k][1] < segs[k][2]
                              /\ j < k => segs[j][2] < segs[k][1]

\* Segments that cover exactly the speaker's chunks.
Settled(segs, p) ==
    /\ segs \in Seq(Borders(p) \X Borders(p))
    /\ Apart(segs)
    /\ \A i \in 1 .. Len(p) : Covers(segs, ChunkStart(i)) <=> Voiced(p, i)

HystTypes(v, p) ==
    /\ v \in [in : BOOLEAN, hangover : 0 .. HANGOVER_FRAMES, start : Int,
              segments : Seq(Borders(p) \X Borders(p))]
    /\ v.in <=> v.start # None
    /\ v.in => v.start \in Borders(p)

\* The segments so far, with the one that is open, cover exactly the speaker's
\* chunks, and the hangover is the number of silent chunks at the end.
Found(v, p) ==
    /\ HystTypes(v, p)
    /\ v.in <=> Len(p) > 0 /\ Voiced(p, Len(p))
    /\ v.in => /\ v.start < ChunkStart(Len(p) + 1)
               /\ \A k \in DOMAIN v.segments : v.segments[k][2] < v.start
               /\ Len(p) - v.hangover \in 1 .. Len(p)
               /\ p[Len(p) - v.hangover] # "off"
               /\ \A m \in Len(p) - v.hangover + 1 .. Len(p) : p[m] = "off"
    /\ ~v.in => \A k \in DOMAIN v.segments : v.segments[k][2] < ChunkStart(Len(p) + 1)
    /\ Apart(v.segments)
    /\ \A i \in 1 .. Len(p) :
          Voiced(p, i) <=> \/ Covers(v.segments, ChunkStart(i))
                           \/ v.in /\ v.start <= ChunkStart(i)

LEMMA ChunkTimes ==
    /\ \A i \in Nat : ChunkStart(i + 1) = i * NEW_SAMPLES_PER_CHUNK /\ ChunkStart(i) \in Int
                      /\ ChunkStart(i + 1) \in Nat
    /\ ChunkStart(1) = 0
    /\ \A i \in Nat : ChunkStart(i + 1) = ChunkStart(i) + NEW_SAMPLES_PER_CHUNK
    /\ \A i, j \in Nat : i < j => ChunkStart(i) + NEW_SAMPLES_PER_CHUNK <= ChunkStart(j)
    /\ \A i, j \in Nat : ChunkStart(i) < ChunkStart(j) => i < j
<1> DEFINE C == NEW_SAMPLES_PER_CHUNK
<1>1. C \in Nat \ {0}
  BY PersonalVadAssumption
<1> HIDE DEF C
<1>2. \A n \in Int : n * C \in Int /\ (n + 1) * C = n * C + C
  BY <1>1
<1>3. \A n \in Nat : n * C \in Nat
  BY <1>1
<1>4. ASSUME NEW i \in Nat, NEW j \in Nat, i < j PROVE (i - 1) * C + C <= (j - 1) * C
  <2>1. PICK d \in Nat : j = i + 1 + d
    <3>1. j - i - 1 \in Nat /\ j = i + 1 + (j - i - 1)
      BY <1>4
    <3>2. QED BY <3>1
  <2>2. d * C \in Nat /\ (j - 1) * C = (i + d) * C
    BY <1>3, <2>1
  <2>3. (i + d) * C = i * C + d * C
    BY <1>1, <2>1
  <2>4. i * C = (i - 1) * C + C /\ (i - 1) * C \in Int
    BY <1>1
  <2>5. QED BY <1>1, <2>2, <2>3, <2>4
<1>5. \A i \in Nat : ChunkStart(i) = (i - 1) * C /\ ChunkStart(i + 1) = i * C
  BY <1>1 DEF ChunkStart, C
<1>6. \A i \in Nat : ChunkStart(i) \in Int /\ ChunkStart(i + 1) \in Nat
                     /\ ChunkStart(i + 1) = ChunkStart(i) + C
  <2> TAKE i \in Nat
  <2>1. (i - 1) * C \in Int /\ i * C = (i - 1) * C + C /\ i * C \in Nat
    BY <1>1, <1>3
  <2>2. QED BY <1>5, <2>1
<1>7. ChunkStart(1) = 0
  BY <1>1, <1>5
<1>8. \A i, j \in Nat : i < j => ChunkStart(i) + C <= ChunkStart(j)
  BY <1>4, <1>5
<1>9. \A i, j \in Nat : ChunkStart(i) < ChunkStart(j) => i < j
  <2> SUFFICES ASSUME NEW i \in Nat, NEW j \in Nat, ChunkStart(i) < ChunkStart(j), ~(i < j)
               PROVE  FALSE
    OBVIOUS
  <2>1. CASE i = j
    BY <2>1, <1>6
  <2>2. CASE j < i
    <3>1. ChunkStart(j) + C <= ChunkStart(i)
      BY <2>2, <1>8
    <3>2. QED BY <3>1, <1>6, <1>1
  <2>3. QED BY <2>1, <2>2
<1>10. QED BY <1>5, <1>6, <1>7, <1>8, <1>9 DEF C

\* The same without products.
LEMMA ChunkOrder ==
    /\ \A i \in Nat : ChunkStart(i) \in Int /\ ChunkStart(i + 1) \in Nat
    /\ \A i, j \in Nat : i < j => ChunkStart(i) < ChunkStart(j)
    /\ \A i, j \in Nat : ChunkStart(i) < ChunkStart(j) => i < j
<1>1. ASSUME NEW i \in Nat, NEW j \in Nat, i < j PROVE ChunkStart(i) < ChunkStart(j)
  <2>1. PICK a \in Int, b \in Int : a = ChunkStart(i) /\ b = ChunkStart(j)
    BY ChunkTimes
  <2>2. a + NEW_SAMPLES_PER_CHUNK <= b
    BY <1>1, <2>1, ChunkTimes, Zenon
  <2>3. NEW_SAMPLES_PER_CHUNK \in Nat /\ NEW_SAMPLES_PER_CHUNK # 0
    BY PersonalVadAssumption
  <2>4. a < b
    BY ONLY <2>2, <2>3, a \in Int, b \in Int
  <2>5. QED BY <2>1, <2>4
<1>2. QED BY <1>1, ChunkTimes

LEMMA IsVoiced == \A i : IsVoice(i) <=> Voiced(probs, i)
BY DEF IsVoice, Voiced, Quiet

\* An answer more says nothing of the chunks before.
LEMMA VoicedBefore ==
    ASSUME NEW p \in Seq(Probs), NEW x \in Probs, NEW i \in 1 .. Len(p)
    PROVE  Voiced(Append(p, x), i) <=> Voiced(p, i)
<1> DEFINE q == Append(p, x)
<1>1. \A m \in 1 .. Len(p) : q[m] = p[m]
  OBVIOUS
<1> HIDE DEF q
<1>2. ASSUME NEW j \in 1 .. i, NEW k \in j + 1 .. i PROVE Quiet(q, j, k) <=> Quiet(p, j, k)
  <2>1. CASE k - HANGOVER_FRAMES > j
    <3>1. \A m \in k - HANGOVER_FRAMES .. k : q[m] = p[m]
      BY <1>1, <2>1, PersonalVadAssumption
    <3>2. QED BY <3>1 DEF Quiet
  <2>2. CASE ~(k - HANGOVER_FRAMES > j)
    BY <2>2 DEF Quiet
  <2>3. QED BY <2>1, <2>2
<1>3. \A j \in 1 .. i : q[j] = p[j]
  BY <1>1
<1>4. Voiced(q, i) <=> Voiced(p, i)
  BY <1>2, <1>3 DEF Voiced
<1>5. QED BY <1>4 DEF q

\* A chunk that was surely the speaker's is theirs.
LEMMA VoicedOn ==
    ASSUME NEW q \in Seq(Probs), NEW n \in Nat, q[n + 1] = "on"
    PROVE  Voiced(q, n + 1)
<1>1. n + 1 \in 1 .. n + 1 /\ \A k \in n + 1 + 1 .. n + 1 : Quiet(q, n + 1, k)
  OBVIOUS
<1>2. QED BY <1>1 DEF Voiced

\* Any other is theirs if the one before was, and there was some sound in the hangover.
LEMMA VoicedNext ==
    ASSUME NEW q \in Seq(Probs), NEW n \in Nat, q[n + 1] # "on"
    PROVE  Voiced(q, n + 1) <=>
             \E j \in 1 .. n : /\ q[j] = "on" /\ \A k \in j + 1 .. n : Quiet(q, j, k)
                               /\ Quiet(q, j, n + 1)
<1>1. ASSUME NEW j \in 1 .. n
      PROVE  (\A k \in j + 1 .. n + 1 : Quiet(q, j, k)) <=>
             (\A k \in j + 1 .. n : Quiet(q, j, k)) /\ Quiet(q, j, n + 1)
  <2>1. j + 1 .. n + 1 = (j + 1 .. n) \cup {n + 1}
    OBVIOUS
  <2>2. QED BY <2>1
<1>2. \A j \in 1 .. n + 1 : q[j] = "on" => j \in 1 .. n
  OBVIOUS
<1>3. 1 .. n \subseteq 1 .. n + 1
  OBVIOUS
<1>4. QED BY <1>1, <1>2, <1>3 DEF Voiced

(***************************************************************************)
(* Segments.                                                               *)
(***************************************************************************)
LEMMA SegmentTypes ==
    ASSUME NEW p \in Seq(Probs), NEW segs \in Seq(Borders(p) \X Borders(p)), NEW k \in DOMAIN segs
    PROVE  segs[k][1] \in Int /\ segs[k][2] \in Int /\ segs[k] = <<segs[k][1], segs[k][2]>>
<1>1. Borders(p) \subseteq Int
  <2>1. \A i \in 1 .. Len(p) + 1 : i \in Nat
    OBVIOUS
  <2>2. QED BY <2>1, ChunkTimes DEF Borders
<1>2. segs[k] \in Borders(p) \X Borders(p)
  OBVIOUS
<1>3. QED BY <1>1, <1>2

LEMMA MoreBorders ==
    ASSUME NEW p \in Seq(Probs), NEW x \in Probs
    PROVE  /\ Borders(p) \subseteq Borders(Append(p, x))
           /\ Seq(Borders(p) \X Borders(p)) \subseteq Seq(Borders(Append(p, x)) \X Borders(Append(p, x)))
<1>1. Len(Append(p, x)) = Len(p) + 1 /\ Len(p) \in Nat
  OBVIOUS
<1>2. Borders(p) \subseteq Borders(Append(p, x))
  <2>1. 1 .. Len(p) + 1 \subseteq 1 .. Len(Append(p, x)) + 1
    BY <1>1
  <2>2. QED BY <2>1 DEF Borders
<1>3. ASSUME NEW S, NEW T, S \subseteq T PROVE Seq(S \X S) \subseteq Seq(T \X T)
  <2>1. S \X S \subseteq T \X T
    BY <1>3
  <2>2. ASSUME NEW A, NEW B, A \subseteq B PROVE Seq(A) \subseteq Seq(B)
    BY <2>2
  <2>3. QED BY <2>1, <2>2
<1>4. QED BY <1>2, <1>3

LEMMA SegmentMore ==
    ASSUME NEW p \in Seq(Probs), NEW segs \in Seq(Borders(p) \X Borders(p)),
           NEW a \in Borders(p), NEW b \in Borders(p)
    PROVE  /\ Append(segs, <<a, b>>) \in Seq(Borders(p) \X Borders(p))
           /\ \A t : Covers(Append(segs, <<a, b>>), t) <=> Covers(segs, t) \/ (a <= t /\ t < b)
           /\ Apart(segs) /\ a < b /\ (\A k \in DOMAIN segs : segs[k][2] < a)
                => Apart(Append(segs, <<a, b>>))
<1> DEFINE S == Borders(p) \X Borders(p)
           more == Append(segs, <<a, b>>)
           n == Len(segs)
<1>1. <<a, b>> \in S /\ n \in Nat /\ segs \in Seq(S)
  OBVIOUS
<1>2. /\ more \in Seq(S) /\ Len(more) = n + 1 /\ more[n + 1] = <<a, b>>
      /\ \A k \in 1 .. n : more[k] = segs[k]
  <2> HIDE DEF S
  <2>1. QED BY <1>1
<1>3. DOMAIN segs = 1 .. n /\ DOMAIN more = 1 .. n + 1
  <2> HIDE DEF S, more
  <2>1. QED BY <1>1, <1>2
<1> HIDE DEF S, more, n
<1>4. /\ \A k \in DOMAIN segs : k \in DOMAIN more /\ more[k] = segs[k]
      /\ \A k \in DOMAIN more : k \in DOMAIN segs \/ k = n + 1
      /\ n + 1 \in DOMAIN more /\ more[n + 1][1] = a /\ more[n + 1][2] = b
  BY <1>1, <1>2, <1>3
<1>5. \A t : Covers(more, t) <=> Covers(segs, t) \/ (a <= t /\ t < b)
  BY <1>4, Zenon DEF Covers
<1>6. ASSUME Apart(segs), a < b, \A k \in DOMAIN segs : segs[k][2] < a PROVE Apart(more)
  <2>1. ASSUME NEW j \in DOMAIN more, NEW k \in DOMAIN more
        PROVE  more[k][1] < more[k][2] /\ (j < k => more[j][2] < more[k][1])
    <3>1. CASE k \in DOMAIN segs /\ j \in DOMAIN segs
      BY <1>4, <1>6, <3>1 DEF Apart
    <3>2. CASE k \in DOMAIN segs /\ j = n + 1
      BY <1>1, <1>3, <1>4, <1>6, <3>2 DEF Apart
    <3>3. CASE k = n + 1 /\ j \in DOMAIN segs
      BY <1>4, <1>6, <3>3
    <3>4. CASE k = n + 1 /\ j = n + 1
      BY <1>1, <1>4, <1>6, <3>4
    <3>5. QED BY <1>4, <3>1, <3>2, <3>3, <3>4
  <2>2. QED BY <2>1 DEF Apart
<1>7. QED BY <1>2, <1>5, <1>6 DEF S, more

LEMMA NotCovered ==
    ASSUME NEW p \in Seq(Probs), NEW segs \in Seq(Borders(p) \X Borders(p)), NEW t \in Int,
           \A k \in DOMAIN segs : segs[k][2] <= t
    PROVE  ~Covers(segs, t)
BY SegmentTypes DEF Covers

(***************************************************************************)
(* updateHysteresis and flush.                                             *)
(***************************************************************************)
LEMMA BordersOf ==
    ASSUME NEW p \in Seq(Probs)
    PROVE  /\ Len(p) \in Nat /\ ChunkStart(Len(p) + 1) \in Nat
           /\ ChunkStart(Len(p) + 1) \in Borders(p) /\ ChunkStart(Len(p) + 1) # None
           /\ \A i \in 1 .. Len(p) : /\ ChunkStart(i) \in Int
                                     /\ ChunkStart(i) < ChunkStart(Len(p) + 1)
           /\ \A b \in Borders(p) : b \in Int /\ b <= ChunkStart(Len(p) + 1)
<1> DEFINE n == Len(p)
<1>1. n \in Nat /\ n + 1 \in Nat /\ n + 1 \in 1 .. n + 1
  OBVIOUS
<1> HIDE DEF n
<1>2. ChunkStart(n + 1) \in Nat /\ ChunkStart(n + 1) # None
  <2>1. ChunkStart(n + 1) \in Nat
    BY <1>1, ChunkTimes
  <2>2. QED BY <2>1 DEF None
<1>3. ASSUME NEW i \in 1 .. n + 1
      PROVE  /\ ChunkStart(i) \in Int /\ ChunkStart(i) <= ChunkStart(n + 1)
             /\ i \in 1 .. n => ChunkStart(i) < ChunkStart(n + 1)
  <2>1. i \in Nat /\ ChunkStart(i) \in Int
    BY <1>1, ChunkTimes
  <2>2. CASE i = n + 1
    BY <1>1, <2>1, <2>2
  <2>3. CASE i < n + 1
    <3>1. ChunkStart(i) + NEW_SAMPLES_PER_CHUNK <= ChunkStart(n + 1)
      BY <1>1, <2>1, <2>3, ChunkTimes
    <3>2. QED BY <1>2, <2>1, <3>1, PersonalVadAssumption
  <2>4. QED BY <1>1, <2>2, <2>3
<1>4. QED BY <1>1, <1>2, <1>3 DEF Borders, n

\* An answer more, for the chunk that begins where the last one ended.
LEMMA Answered ==
    ASSUME NEW p \in Seq(Probs), NEW x \in Probs, NEW v, v = Hysteresis, Found(v, p)
    PROVE  Found(updateHysteresis(x, ChunkStart(Len(p) + 1)), Append(p, x))
<1> DEFINE n == Len(p)
           q == Append(p, x)
           t == ChunkStart(n + 1)
           w == updateHysteresis(x, t)
           S == Seq(Borders(q) \X Borders(q))
<1>1. /\ n \in Nat /\ q \in Seq(Probs) /\ Len(q) = n + 1 /\ q[n + 1] = x
      /\ \A m \in 1 .. n : q[m] = p[m]
  OBVIOUS
<1>2. /\ t \in Nat /\ t \in Borders(q) /\ t # None /\ ChunkStart(n + 2) \in Int /\ t < ChunkStart(n + 2)
      /\ \A i \in 1 .. n : ChunkStart(i) \in Int /\ ChunkStart(i) < t
  <2>1. t \in Nat /\ t \in Borders(p) /\ t # None
        /\ \A i \in 1 .. n : ChunkStart(i) \in Int /\ ChunkStart(i) < t
    BY BordersOf
  <2>2. t \in Borders(q)
    BY <2>1, MoreBorders
  <2>3. n + 1 \in 1 .. n + 1
    BY <1>1
  <2>4. ChunkStart(n + 1) < ChunkStart(n + 1 + 1) /\ ChunkStart(n + 1 + 1) \in Nat
    BY <1>1, <2>3, BordersOf, ChunkTimes
  <2>5. n + 1 + 1 = n + 2
    BY <1>1
  <2>6. QED BY <2>1, <2>2, <2>4, <2>5
<1>3. \A i \in 1 .. n : Voiced(q, i) <=> Voiced(p, i)
  BY VoicedBefore
<1>4. /\ v \in [in : BOOLEAN, hangover : 0 .. HANGOVER_FRAMES, start : Int, segments : S]
      /\ v.in <=> v.start # None
      /\ v.in => v.start \in Borders(p) /\ v.start \in Borders(q)
      /\ v.segments \in Seq(Borders(p) \X Borders(p)) /\ v.segments \in S
  BY MoreBorders DEF Found, HystTypes
<1>5. /\ v.in <=> n > 0 /\ Voiced(p, n)
      /\ v.in => /\ v.start < t
                 /\ \A k \in DOMAIN v.segments : v.segments[k][2] < v.start
                 /\ n - v.hangover \in 1 .. n
                 /\ p[n - v.hangover] # "off"
                 /\ \A m \in n - v.hangover + 1 .. n : p[m] = "off"
      /\ ~v.in => \A k \in DOMAIN v.segments : v.segments[k][2] < t
      /\ Apart(v.segments)
      /\ \A i \in 1 .. n : Voiced(p, i) <=> \/ Covers(v.segments, ChunkStart(i))
                                            \/ v.in /\ v.start <= ChunkStart(i)
  BY DEF Found
<1>6. w = IF ~v.in THEN
              IF x = "on" THEN [v EXCEPT !.in = TRUE, !.start = t, !.hangover = 0] ELSE v
          ELSE IF x # "off" THEN [v EXCEPT !.hangover = 0]
          ELSE IF v.hangover < HANGOVER_FRAMES THEN [v EXCEPT !.hangover = @ + 1]
          ELSE [in |-> FALSE, hangover |-> 0, start |-> None,
                segments |-> Append(v.segments, <<v.start, t>>)]
  BY DEF updateHysteresis
<1> DEFINE segs == v.segments
<1>17. segs \in Seq(Borders(p) \X Borders(p)) /\ segs = v.segments
  BY <1>4
<1> HIDE DEF segs
<1>18. \A k \in DOMAIN segs : segs[k][2] \in Int /\ segs[k][2] <= t
  <2>1. TAKE k \in DOMAIN segs
  <2>2. segs[k][2] \in Int
    BY ONLY <1>17, <2>1, p \in Seq(Probs), SegmentTypes
  <2>3. segs[k][2] < t
    <3>1. CASE v.in
      <4>1. segs[k][2] < v.start /\ v.start < t /\ v.start \in Int
        BY <1>4, <1>5, <1>17, <3>1
      <4>2. QED BY <1>2, <2>2, <4>1
    <3>2. CASE ~v.in
      BY <1>5, <1>17, <3>2
    <3>3. QED BY <3>1, <3>2
  <2>4. QED BY <1>2, <2>2, <2>3
<1>7. ~Covers(v.segments, t)
  <2> HIDE DEF t
  <2>1. t \in Int
    BY <1>2
  <2>2. ~Covers(segs, t)
    BY ONLY <1>17, <1>18, <2>1, p \in Seq(Probs), NotCovered
  <2>3. QED BY <1>17, <2>2
<1>8. \A k \in DOMAIN v.segments : v.segments[k][2] < ChunkStart(n + 2)
  BY <1>2, <1>17, <1>18
<1> HIDE DEF w, q, t, n, S
<1>9. SUFFICES
        /\ w \in [in : BOOLEAN, hangover : 0 .. HANGOVER_FRAMES, start : Int, segments : S]
        /\ w.in <=> w.start # None
        /\ w.in => w.start \in Borders(q)
        /\ w.in <=> Voiced(q, n + 1)
        /\ w.in => /\ w.start < ChunkStart(n + 2)
                   /\ \A k \in DOMAIN w.segments : w.segments[k][2] < w.start
                   /\ n + 1 - w.hangover \in 1 .. n + 1
                   /\ q[n + 1 - w.hangover] # "off"
                   /\ \A m \in n + 1 - w.hangover + 1 .. n + 1 : q[m] = "off"
        /\ ~w.in => \A k \in DOMAIN w.segments : w.segments[k][2] < ChunkStart(n + 2)
        /\ Apart(w.segments)
        /\ \A i \in 1 .. n : Voiced(p, i) <=> \/ Covers(w.segments, ChunkStart(i))
                                              \/ w.in /\ w.start <= ChunkStart(i)
        /\ Voiced(q, n + 1) <=> Covers(w.segments, t) \/ (w.in /\ w.start <= t)
  <2>1. n + 1 > 0 /\ n + 1 + 1 = n + 2 /\ \A i \in 1 .. n + 1 : i \in 1 .. n \/ i = n + 1
    BY <1>1
  <2>2. HystTypes(w, q)
    BY ONLY <1>9 DEF HystTypes, S
  <2>3. Len(q) = n + 1 /\ Len(q) > 0 /\ Len(q) + 1 = n + 2
    BY ONLY <1>1, <2>1
  <2>4. w.in <=> Len(q) > 0 /\ Voiced(q, Len(q))
    BY ONLY <1>9, <2>3
  <2>5. ASSUME w.in
        PROVE  /\ w.start < ChunkStart(Len(q) + 1)
               /\ \A k \in DOMAIN w.segments : w.segments[k][2] < w.start
               /\ Len(q) - w.hangover \in 1 .. Len(q)
               /\ q[Len(q) - w.hangover] # "off"
               /\ \A m \in Len(q) - w.hangover + 1 .. Len(q) : q[m] = "off"
    <3>1. w.start < ChunkStart(Len(q) + 1)
      BY ONLY <1>9, <2>3, <2>5
    <3>2. \A k \in DOMAIN w.segments : w.segments[k][2] < w.start
      BY ONLY <1>9, <2>5
    <3>3. n \in Nat /\ w.hangover \in Int
      <4>1. w.hangover \in 0 .. HANGOVER_FRAMES
        BY ONLY <1>9
      <4>2. HANGOVER_FRAMES \in Nat
        BY PersonalVadAssumption
      <4>3. QED BY <1>1, <4>1, <4>2
    <3>4. Len(q) - w.hangover \in 1 .. Len(q) /\ q[Len(q) - w.hangover] # "off"
      <4>1. n + 1 - w.hangover \in 1 .. n + 1 /\ q[n + 1 - w.hangover] # "off"
        BY ONLY <1>9, <2>5
      <4>2. QED BY ONLY <2>3, <3>3, <4>1
    <3>5. \A m \in Len(q) - w.hangover + 1 .. Len(q) : q[m] = "off"
      <4>1. \A m \in n + 1 - w.hangover + 1 .. n + 1 : q[m] = "off"
        BY ONLY <1>9, <2>5
      <4>2. QED BY ONLY <2>3, <3>3, <4>1
    <3>6. QED BY ONLY <3>1, <3>2, <3>4, <3>5
  <2>6. /\ ~w.in => \A k \in DOMAIN w.segments : w.segments[k][2] < ChunkStart(Len(q) + 1)
        /\ Apart(w.segments)
    BY ONLY <1>9, <2>3
  <2>7. ASSUME NEW i \in 1 .. Len(q)
        PROVE  Voiced(q, i) <=> \/ Covers(w.segments, ChunkStart(i))
                                \/ w.in /\ w.start <= ChunkStart(i)
    <3>1. CASE i \in 1 .. n
      BY ONLY <1>3, <1>9, <3>1
    <3>2. CASE i = n + 1
      BY ONLY <1>9, <3>2 DEF t
    <3>3. i \in 1 .. n \/ i = n + 1
      BY ONLY <2>1, <2>3, i \in 1 .. Len(q)
    <3>4. QED BY <3>1, <3>2, <3>3
  <2>8. Found(w, q)
    BY ONLY <2>2, <2>4, <2>5, <2>6, <2>7 DEF Found
  <2>9. QED BY <2>8 DEF w, q, t, n
<1>10. CASE ~v.in /\ x = "on"
  <2>1. w = [v EXCEPT !.in = TRUE, !.start = t, !.hangover = 0]
    BY <1>6, <1>10
  <2>2. /\ w.in /\ w.start = t /\ w.hangover = 0 /\ w.segments = v.segments
        /\ w \in [in : BOOLEAN, hangover : 0 .. HANGOVER_FRAMES, start : Int, segments : S]
    <3>1. t \in Int /\ 0 \in 0 .. HANGOVER_FRAMES /\ TRUE \in BOOLEAN
      BY <1>2, PersonalVadAssumption
    <3>2. w = [in |-> TRUE, hangover |-> 0, start |-> t, segments |-> v.segments]
      BY ONLY <1>4, <2>1
    <3>3. QED BY ONLY <1>4, <3>1, <3>2
  <2>3. Voiced(q, n + 1)
    BY <1>1, <1>10, VoicedOn
  <2>4. n + 1 - 0 = n + 1 /\ n + 1 \in 1 .. n + 1
    BY <1>1
  <2>5. \A i \in 1 .. n : ~(t <= ChunkStart(i))
    BY <1>2
  <2>6. t <= t
    BY <1>2
  <2>7. QED BY <1>1, <1>2, <1>5, <1>10, <2>2, <2>3, <2>4, <2>5, <2>6
<1>11. CASE ~v.in /\ x # "on"
  <2>1. w = v
    BY <1>6, <1>11
  <2>2. ~Voiced(q, n + 1)
    <3>1. SUFFICES ASSUME NEW j \in 1 .. n, q[j] = "on", \A k \in j + 1 .. n : Quiet(q, j, k)
                   PROVE  FALSE
      BY <1>1, <1>11, VoicedNext
    <3>2. n > 0 /\ n \in 1 .. n
      BY <1>1
    <3>3. Voiced(q, n)
      BY <3>1 DEF Voiced
    <3>4. QED BY <1>3, <1>5, <1>11, <3>2, <3>3
  <2>3. QED BY <1>4, <1>5, <1>7, <1>8, <1>11, <2>1, <2>2
<1>12. CASE v.in /\ x # "off"
  <2>1. w = [v EXCEPT !.hangover = 0]
    BY <1>6, <1>12
  <2>2. /\ w.in /\ w.start = v.start /\ w.hangover = 0 /\ w.segments = v.segments
        /\ w \in [in : BOOLEAN, hangover : 0 .. HANGOVER_FRAMES, start : Int, segments : S]
    BY ONLY <1>4, <1>12, <2>1, PersonalVadAssumption
  <2>3. Voiced(q, n + 1)
    <3>1. CASE x = "on"
      BY <1>1, <3>1, VoicedOn
    <3>2. CASE x # "on"
      <4>1. Voiced(q, n) /\ n \in 1 .. n
        BY <1>1, <1>3, <1>5, <1>12
      <4>2. PICK j \in 1 .. n : q[j] = "on" /\ \A k \in j + 1 .. n : Quiet(q, j, k)
        BY <4>1 DEF Voiced
      <4>3. Quiet(q, j, n + 1)
        <5>1. n + 1 \in (n + 1) - HANGOVER_FRAMES .. n + 1 /\ q[n + 1] # "off"
          BY <1>1, <1>12, PersonalVadAssumption
        <5>2. QED BY <5>1, Zenon DEF Quiet
      <4>4. QED BY <1>1, <3>2, <4>2, <4>3, VoicedNext
    <3>3. QED BY <3>1, <3>2
  <2>4. /\ n + 1 - 0 = n + 1 /\ n + 1 \in 1 .. n + 1
        /\ \A m \in n + 1 - 0 + 1 .. n + 1 : FALSE
    BY <1>1
  <2>5. v.start < ChunkStart(n + 2) /\ v.start <= t
    BY <1>2, <1>4, <1>5, <1>12
  <2>6. QED BY <1>1, <1>4, <1>5, <1>12, <2>2, <2>3, <2>4, <2>5
<1>13. CASE v.in /\ x = "off" /\ v.hangover < HANGOVER_FRAMES
  <2>1. w = [v EXCEPT !.hangover = @ + 1]
    BY <1>6, <1>13
  <2>2. v.hangover + 1 \in 0 .. HANGOVER_FRAMES
    BY <1>4, <1>13, PersonalVadAssumption
  <2>3. /\ w.in /\ w.start = v.start /\ w.hangover = v.hangover + 1 /\ w.segments = v.segments
        /\ w \in [in : BOOLEAN, hangover : 0 .. HANGOVER_FRAMES, start : Int, segments : S]
    BY ONLY <1>4, <1>13, <2>1, <2>2
  <2>4. v.hangover \in Nat /\ v.hangover < HANGOVER_FRAMES /\ n - v.hangover \in 1 .. n
    BY <1>4, <1>5, <1>13
  <2>5. Voiced(q, n + 1)
    <3>1. Voiced(q, n) /\ n \in 1 .. n
      BY <1>1, <1>3, <1>5, <1>13
    <3>2. PICK j \in 1 .. n : q[j] = "on" /\ \A k \in j + 1 .. n : Quiet(q, j, k)
      BY <3>1 DEF Voiced
    <3>3. Quiet(q, j, n + 1)
      <4>1. n - v.hangover \in (n + 1) - HANGOVER_FRAMES .. n + 1 /\ q[n - v.hangover] # "off"
        BY <1>1, <1>5, <1>13, <2>4, PersonalVadAssumption
      <4>2. QED BY <4>1, Zenon DEF Quiet
    <3>4. QED BY <1>1, <1>13, <3>2, <3>3, VoicedNext
  <2>6. /\ n + 1 - (v.hangover + 1) = n - v.hangover /\ n - v.hangover \in 1 .. n + 1
        /\ q[n - v.hangover] = p[n - v.hangover]
    BY <1>1, <2>4
  <2>7. \A m \in n - v.hangover + 1 .. n + 1 : q[m] = "off"
    <3>1. \A m \in n - v.hangover + 1 .. n + 1 :
             m = n + 1 \/ (m \in 1 .. n /\ m \in n - v.hangover + 1 .. n)
      BY <1>1, <2>4
    <3>2. QED BY <1>1, <1>5, <1>13, <3>1
  <2>8. v.start < ChunkStart(n + 2) /\ v.start <= t
    BY <1>2, <1>4, <1>5, <1>13
  <2>9. QED BY <1>4, <1>5, <1>13, <2>3, <2>5, <2>6, <2>7, <2>8
<1>14. CASE v.in /\ x = "off" /\ ~(v.hangover < HANGOVER_FRAMES)
  <2>1. w = [in |-> FALSE, hangover |-> 0, start |-> None,
             segments |-> Append(v.segments, <<v.start, t>>)]
    BY <1>6, <1>14
  <2>2. v.hangover = HANGOVER_FRAMES /\ n - HANGOVER_FRAMES \in 1 .. n
    BY <1>4, <1>5, <1>14, PersonalVadAssumption
  <2>3. /\ Append(v.segments, <<v.start, t>>) \in S
        /\ \A u : Covers(Append(v.segments, <<v.start, t>>), u)
                    <=> Covers(v.segments, u) \/ (v.start <= u /\ u < t)
        /\ Apart(Append(v.segments, <<v.start, t>>))
    <3>1. v.segments \in Seq(Borders(q) \X Borders(q)) /\ v.start \in Borders(q) /\ v.start < t
      BY <1>4, <1>5, <1>14 DEF S
    <3>2. t \in Borders(q) /\ q \in Seq(Probs) /\ Apart(v.segments)
          /\ \A k \in DOMAIN v.segments : v.segments[k][2] < v.start
      BY <1>1, <1>2, <1>5, <1>14
    <3>3. /\ Append(v.segments, <<v.start, t>>) \in Seq(Borders(q) \X Borders(q))
          /\ \A u : Covers(Append(v.segments, <<v.start, t>>), u)
                      <=> Covers(v.segments, u) \/ (v.start <= u /\ u < t)
      BY ONLY <3>1, <3>2, SegmentMore
    <3>4. Apart(Append(v.segments, <<v.start, t>>))
      BY ONLY <3>1, <3>2, SegmentMore
    <3>5. QED BY ONLY <3>3, <3>4 DEF S
  <2>4. /\ ~w.in /\ w.start = None /\ w.hangover = 0
        /\ w.segments = Append(v.segments, <<v.start, t>>)
        /\ w \in [in : BOOLEAN, hangover : 0 .. HANGOVER_FRAMES, start : Int, segments : S]
    <3>1. None \in Int /\ 0 \in 0 .. HANGOVER_FRAMES /\ FALSE \in BOOLEAN
      BY PersonalVadAssumption DEF None
    <3>2. QED BY <2>1, <2>3, <3>1
  <2>5. ~Voiced(q, n + 1)
    <3>1. SUFFICES ASSUME NEW j \in 1 .. n, q[j] = "on", Quiet(q, j, n + 1)
                   PROVE  FALSE
      BY <1>1, <1>14, VoicedNext
    <3>2. \A m \in (n + 1) - HANGOVER_FRAMES .. n + 1 : q[m] = "off"
      <4>1. \A m \in (n + 1) - HANGOVER_FRAMES .. n + 1 :
               m = n + 1 \/ (m \in 1 .. n /\ m \in n - HANGOVER_FRAMES + 1 .. n)
        BY <1>1, <2>2, PersonalVadAssumption
      <4>2. QED BY <1>1, <1>5, <1>14, <2>2, <4>1
    <3>3. ~(j \in (n + 1) - HANGOVER_FRAMES .. n + 1)
      BY <3>1, <3>2
    <3>4. (n + 1) - HANGOVER_FRAMES > j
      BY <1>1, <3>3, PersonalVadAssumption
    <3>5. QED BY <3>1, <3>2, <3>4, Zenon DEF Quiet
  <2>6. \A k \in DOMAIN w.segments : w.segments[k][2] < ChunkStart(n + 2)
    <3>1. v.segments \in Seq(Borders(q) \X Borders(q))
      BY <1>4 DEF S
    <3>2. ASSUME NEW k \in DOMAIN w.segments
          PROVE  w.segments[k] = <<v.start, t>> \/ (k \in DOMAIN v.segments /\ w.segments[k] = v.segments[k])
      <4> DEFINE A == Borders(q) \X Borders(q)
                 z == <<v.start, t>>
      <4> HIDE DEF A, z
      <4>1. v.segments \in Seq(A) /\ w.segments = Append(v.segments, z)
        BY <2>4, <3>1 DEF A, z
      <4>2. w.segments[k] = z \/ (k \in DOMAIN v.segments /\ w.segments[k] = v.segments[k])
        BY <3>2, <4>1
      <4>3. QED BY <4>2 DEF z
    <3>3. QED BY <1>2, <1>8, <3>2
  <2>7. \A i \in 1 .. n : ChunkStart(i) < t
    BY <1>2
  <2>8. ~(t < t)
    BY <1>2
  <2>9. \A i \in 1 .. n : Voiced(p, i) <=> Covers(w.segments, ChunkStart(i))
    <3>1. TAKE i \in 1 .. n
    <3>2. Covers(w.segments, ChunkStart(i))
            <=> Covers(v.segments, ChunkStart(i)) \/ (v.start <= ChunkStart(i) /\ ChunkStart(i) < t)
      BY ONLY <2>3, <2>4
    <3>3. Voiced(p, i) <=> Covers(v.segments, ChunkStart(i)) \/ v.start <= ChunkStart(i)
      BY <1>5, <1>14
    <3>4. QED BY ONLY <2>7, <3>2, <3>3
  <2>10. ~Covers(w.segments, t)
    BY <1>7, <2>3, <2>4, <2>8
  <2>11. QED BY <2>3, <2>4, <2>5, <2>6, <2>9, <2>10
<1>15. v.in \in BOOLEAN
  BY <1>4
<1>16. QED BY <1>10, <1>11, <1>12, <1>13, <1>14

\* flush: the open segment ends with the last chunk.
LEMMA ClosedSettled ==
    ASSUME NEW p \in Seq(Probs), NEW v, Found(v, p)
    PROVE  /\ Settled(Closed(v, ChunkStart(Len(p) + 1)).segments, p)
           /\ Closed(v, ChunkStart(Len(p) + 1)).in = FALSE
           /\ Closed(v, ChunkStart(Len(p) + 1)).start = None
           /\ Closed(v, ChunkStart(Len(p) + 1)).hangover \in 0 .. HANGOVER_FRAMES
<1> DEFINE t == ChunkStart(Len(p) + 1)
           S == Seq(Borders(p) \X Borders(p))
<1>1. /\ v \in [in : BOOLEAN, hangover : 0 .. HANGOVER_FRAMES, start : Int, segments : S]
      /\ v.in <=> v.start # None
      /\ v.in => v.start \in Borders(p)
  BY DEF Found, HystTypes
<1>2. CASE ~v.in
  <2>1. Closed(v, t) = v /\ v.start = None /\ v.in = FALSE
    BY <1>1, <1>2 DEF Closed
  <2>2. Settled(v.segments, p)
    BY <1>1, <1>2 DEF Found, Settled
  <2>3. QED BY <1>1, <2>1, <2>2
<1>3. CASE v.in
  <2>1. t \in Borders(p) /\ \A i \in 1 .. Len(p) : ChunkStart(i) < t
    BY BordersOf
  <2>2. /\ Append(v.segments, <<v.start, t>>) \in S
        /\ \A u : Covers(Append(v.segments, <<v.start, t>>), u)
                    <=> Covers(v.segments, u) \/ (v.start <= u /\ u < t)
        /\ Apart(Append(v.segments, <<v.start, t>>))
    <3>1. v.segments \in S /\ v.start \in Borders(p) /\ v.start < t /\ Apart(v.segments)
          /\ \A k \in DOMAIN v.segments : v.segments[k][2] < v.start
      BY <1>1, <1>3 DEF Found
    <3>2. /\ Append(v.segments, <<v.start, t>>) \in S
          /\ \A u : Covers(Append(v.segments, <<v.start, t>>), u)
                      <=> Covers(v.segments, u) \/ (v.start <= u /\ u < t)
      BY ONLY <2>1, <3>1, p \in Seq(Probs), SegmentMore, SMTT(20)
    <3>3. Apart(Append(v.segments, <<v.start, t>>))
      BY ONLY <2>1, <3>1, p \in Seq(Probs), SegmentMore, SMTT(20)
    <3>4. QED BY ONLY <3>2, <3>3
  <2>3. Settled(Append(v.segments, <<v.start, t>>), p)
    <3>1. \A i \in 1 .. Len(p) : Voiced(p, i) <=> \/ Covers(v.segments, ChunkStart(i))
                                                   \/ v.start <= ChunkStart(i)
      BY <1>3 DEF Found
    <3>2. QED BY <2>1, <2>2, <3>1 DEF Settled
  <2>4. /\ Closed(v, t).segments = Append(v.segments, <<v.start, t>>)
        /\ Closed(v, t).in = FALSE /\ Closed(v, t).start = None
        /\ Closed(v, t).hangover = v.hangover
    BY <1>1, <1>3 DEF Closed
  <2>5. QED BY <1>1, <2>3, <2>4
<1>4. QED BY <1>1, <1>2, <1>3

(***************************************************************************)
(* What a recursive function computes, by the least place where it would   *)
(* not.                                                                    *)
(***************************************************************************)
LEMMA LeastNumber ==
    ASSUME NEW S \in SUBSET Nat, S # {}
    PROVE  \E m \in S : \A k \in S : m <= k
<1> DEFINE R == {ss \in Nat \X Nat : ss[1] < ss[2]}
<1>1. IsWellFoundedOn(R, Nat)
  BY NatLessThanWellFounded DEF OpToRel
<1>2. \A x, y \in Nat : x < y => <<x, y>> \in R
  OBVIOUS
<1> HIDE DEF R
<1>3. \E x \in S : \A y \in S : ~(<<y, x>> \in R)
  BY <1>1, WFMin
<1>4. PICK x \in S : \A y \in S : ~(<<y, x>> \in R)
  BY <1>3
<1>5. ASSUME NEW y \in S PROVE x <= y
  <2>1. x \in Nat /\ y \in Nat /\ ~(y < x)
    BY <1>2, <1>4
  <2>2. QED BY <2>1
<1>6. QED BY <1>5

LEMMA Upwards ==
    ASSUME NEW n \in Nat, NEW S, 0 \in S, \A i \in 0 .. n - 1 : i \in S => i + 1 \in S
    PROVE  \A i \in 0 .. n : i \in S
<1> DEFINE Bad == {i \in 0 .. n : i \notin S}
<1>1. SUFFICES ASSUME Bad # {} PROVE FALSE
  OBVIOUS
<1>2. Bad \in SUBSET Nat
  OBVIOUS
<1>3. PICK i \in Bad : \A j \in Bad : i <= j
  <2> HIDE DEF Bad
  <2>1. QED BY <1>1, <1>2, LeastNumber
<1>4. i \in 0 .. n /\ i \notin S /\ i # 0
  BY <1>3
<1>5. i - 1 \in 0 .. n - 1 /\ i - 1 \in 0 .. n /\ (i - 1) + 1 = i /\ ~(i <= i - 1)
  BY <1>4
<1>6. i - 1 \in S
  BY <1>3, <1>5
<1>7. QED BY <1>4, <1>5, <1>6

Computes(f, n, V, z, next) ==
    f \in [0 .. n -> V] /\ f[0] = z /\ \A i \in 1 .. n : f[i] = next[i][f[i - 1]]

LEMMA Recursion ==
    ASSUME NEW n \in Nat, NEW V, NEW z \in V, NEW next \in [1 .. n -> [V -> V]]
    PROVE  \E f : Computes(f, n, V, z, next)
<1> DEFINE Upto(f, k) == f \in [0 .. k -> V] /\ f[0] = z
                         /\ \A i \in 1 .. k : f[i] = next[i][f[i - 1]]
           S == {k \in 0 .. n : \E f : Upto(f, k)}
<1>1. 0 \in S
  <2>1. Upto([i \in 0 .. 0 |-> z], 0)
    OBVIOUS
  <2>2. 0 \in 0 .. n
    OBVIOUS
  <2> HIDE DEF Upto
  <2>3. QED BY <2>1, <2>2
<1>2. ASSUME NEW k \in 0 .. n - 1, k \in S PROVE k + 1 \in S
  <2>1. PICK f : Upto(f, k)
    BY <1>2
  <2> DEFINE more == [i \in 0 .. k + 1 |-> IF i = k + 1 THEN next[k + 1][f[k]] ELSE f[i]]
  <2>2. k \in Nat /\ k + 1 \in 1 .. n /\ k + 1 \in 0 .. n
    OBVIOUS
  <2>3. f[k] \in V /\ next[k + 1] \in [V -> V]
    BY <2>1, <2>2
  <2>4. next[k + 1][f[k]] \in V
    BY <2>3
  <2>5. more \in [0 .. k + 1 -> V]
    <3>1. ASSUME NEW i \in 0 .. k + 1 PROVE more[i] \in V
      <4>1. CASE i = k + 1
        BY <2>4, <4>1
      <4>2. CASE i # k + 1
        <5>1. i \in 0 .. k
          BY <2>2, <4>2
        <5>2. QED BY <2>1, <4>2, <5>1
      <4>3. QED BY <4>1, <4>2
    <3>2. QED BY <3>1
  <2>6. more[0] = z
    BY <2>1, <2>2
  <2>7. ASSUME NEW i \in 1 .. k + 1 PROVE more[i] = next[i][more[i - 1]]
    <3>1. i - 1 \in 0 .. k /\ i - 1 \in 0 .. k + 1 /\ i - 1 # k + 1 /\ i \in 0 .. k + 1
      BY <2>2
    <3>2. more[i - 1] = f[i - 1]
      BY <3>1
    <3>3. CASE i = k + 1
      <4>1. i - 1 = k /\ more[i] = next[k + 1][f[k]]
        BY <2>2, <3>1, <3>3
      <4> HIDE DEF more
      <4>2. QED BY <3>2, <3>3, <4>1
    <3>4. CASE i # k + 1
      <4>1. i \in 1 .. k /\ more[i] = f[i]
        BY <2>2, <3>1, <3>4
      <4>2. f[i] = next[i][f[i - 1]]
        BY <2>1, <4>1
      <4> HIDE DEF more
      <4>3. QED BY <3>2, <4>1, <4>2
    <3>5. QED BY <3>3, <3>4
  <2> HIDE DEF more
  <2>8. Upto(more, k + 1)
    BY <2>5, <2>6, <2>7
  <2> HIDE DEF Upto
  <2>9. QED BY <2>2, <2>8
<1>3. n \in S
  <2> HIDE DEF S
  <2>1. \A i \in 0 .. n : i \in S
    BY <1>1, <1>2, Upwards
  <2>2. QED BY <2>1
<1>4. QED BY <1>3 DEF Computes


(***************************************************************************)
(* The binary searches.                                                    *)
(***************************************************************************)
Ranges(n) == [lo : 1 .. n + 1, hi : 0 .. n]

IsNarrowing(range, n, below, above) ==
    range = [turn \in 0 .. n |->
                IF turn = 0 THEN [lo |-> 1, hi |-> n] ELSE Turn(range[turn - 1], below, above)]

\* Turns to the left of what is to be found, and to the right.
Sided(n, below, above) ==
    \A i, j \in 1 .. n : i < j => (i \in below => j \in below) /\ (j \in above => i \in above)

Stopped(r, below, above) == r.lo <= r.hi /\ Middle(r) \notin below /\ Middle(r) \notin above

\* What is left after some turns: nothing was passed over.
LeftOver(r, n, below, above) ==
    /\ r \in Ranges(n) /\ r.lo <= r.hi + 1
    /\ Sided(n, below, above) =>
         \A i \in 1 .. n : (i < r.lo => i \in above) /\ (i > r.hi => i \in below)

LEMMA MiddleOf ==
    ASSUME NEW n \in Nat, NEW r \in Ranges(n), r.lo <= r.hi
    PROVE  Middle(r) \in Int /\ r.lo <= Middle(r) /\ Middle(r) <= r.hi /\ Middle(r) \in 1 .. n
<1>1. r.lo \in Nat /\ r.hi \in Nat /\ r.lo >= 1 /\ r.hi <= n
  BY DEF Ranges
<1>2. ASSUME NEW a \in Nat, NEW b \in Nat, a <= b PROVE a <= (a + b) \div 2 /\ (a + b) \div 2 <= b
                                                        /\ (a + b) \div 2 \in Int
  BY <1>2, SMTT(30)
<1>3. QED BY <1>1, <1>2 DEF Middle

LEMMA TurnKeeps ==
    ASSUME NEW n \in Nat, NEW below, NEW above, NEW r, LeftOver(r, n, below, above)
    PROVE  /\ LeftOver(Turn(r, below, above), n, below, above)
           /\ Stopped(r, below, above) \/ r.lo > r.hi => Turn(r, below, above) = r
           /\ ~Stopped(r, below, above) /\ r.lo <= r.hi =>
                Turn(r, below, above).hi - Turn(r, below, above).lo < r.hi - r.lo
<1> DEFINE m == Middle(r)
<1>1. r \in Ranges(n) /\ r.lo \in Int /\ r.hi \in Int /\ r.lo <= r.hi + 1
  BY DEF LeftOver, Ranges
<1>2. CASE r.lo > r.hi
  <2>1. Turn(r, below, above) = r
    BY <1>2 DEF Turn
  <2>2. QED BY <1>1, <1>2, <2>1
<1>3. CASE r.lo <= r.hi
  <2>1. m \in Int /\ r.lo <= m /\ m <= r.hi /\ m \in 1 .. n
    BY <1>1, <1>3, MiddleOf
  <2> HIDE DEF m
  <2>2. CASE m \in below
    <3>1. Turn(r, below, above) = [r EXCEPT !.hi = m - 1]
      BY <1>1, <1>3, <2>2 DEF Turn, m
    <3> DEFINE t == Turn(r, below, above)
    <3> HIDE DEF t
    <3>2. t \in Ranges(n) /\ t.lo = r.lo /\ t.hi = m - 1
      BY <1>1, <2>1, <3>1 DEF Ranges, t
    <3>3. ASSUME Sided(n, below, above), NEW i \in 1 .. n
          PROVE  (i < t.lo => i \in above) /\ (i > t.hi => i \in below)
      <4>1. i < t.lo => i \in above
        BY <3>2, <3>3 DEF LeftOver
      <4>2. i > t.hi => i = m \/ m < i
        BY <2>1, <3>2
      <4>3. m < i => i \in below
        BY <2>1, <2>2, <3>3 DEF Sided
      <4>4. QED BY <2>2, <4>1, <4>2, <4>3
    <3>4. LeftOver(t, n, below, above)
      BY <1>1, <2>1, <3>2, <3>3 DEF LeftOver
    <3>5. t.hi - t.lo < r.hi - r.lo
      BY <1>1, <2>1, <3>2
    <3>6. ~Stopped(r, below, above) /\ ~(r.lo > r.hi)
      BY <1>1, <1>3, <2>2 DEF Stopped, m
    <3>7. QED BY <3>4, <3>5, <3>6 DEF t
  <2>3. CASE m \notin below /\ m \in above
    <3>1. Turn(r, below, above) = [r EXCEPT !.lo = m + 1]
      BY <1>1, <1>3, <2>3 DEF Turn, m
    <3> DEFINE t == Turn(r, below, above)
    <3> HIDE DEF t
    <3>2. t \in Ranges(n) /\ t.lo = m + 1 /\ t.hi = r.hi
      BY <1>1, <2>1, <3>1 DEF Ranges, t
    <3>3. ASSUME Sided(n, below, above), NEW i \in 1 .. n
          PROVE  (i < t.lo => i \in above) /\ (i > t.hi => i \in below)
      <4>1. i > t.hi => i \in below
        BY <3>2, <3>3 DEF LeftOver
      <4>2. i < t.lo => i = m \/ i < m
        BY <2>1, <3>2
      <4>3. i < m => i \in above
        BY <2>1, <2>3, <3>3 DEF Sided
      <4>4. QED BY <2>3, <4>1, <4>2, <4>3
    <3>4. LeftOver(t, n, below, above)
      BY <1>1, <2>1, <3>2, <3>3 DEF LeftOver
    <3>5. t.hi - t.lo < r.hi - r.lo
      BY <1>1, <2>1, <3>2
    <3>6. ~Stopped(r, below, above) /\ ~(r.lo > r.hi)
      BY <1>1, <1>3, <2>3 DEF Stopped, m
    <3>7. QED BY <3>4, <3>5, <3>6 DEF t
  <2>4. CASE m \notin below /\ m \notin above
    <3>1. Turn(r, below, above) = r
      BY <1>1, <1>3, <2>4 DEF Turn, m
    <3>2. Stopped(r, below, above)
      BY <1>3, <2>4 DEF Stopped, m
    <3>3. QED BY <3>1, <3>2
  <2>5. QED BY <2>2, <2>3, <2>4
<1>4. QED BY <1>1, <1>2, <1>3

LEMMA NarrowingExists ==
    ASSUME NEW n \in Nat, NEW below, NEW above
    PROVE  \E range : IsNarrowing(range, n, below, above)
<1> DEFINE V == {r \in Ranges(n) : r.lo <= r.hi + 1}
           first == [lo |-> 1, hi |-> n]
           next == [i \in 1 .. n |-> [r \in V |-> Turn(r, below, above)]]
<1>1. first \in V
  BY DEF Ranges
<1>2. ASSUME NEW r \in V PROVE Turn(r, below, above) \in V
  <2>1. CASE r.lo > r.hi
    BY <2>1 DEF Turn
  <2>2. CASE r.lo <= r.hi
    <3>1. Middle(r) \in Int /\ r.lo <= Middle(r) /\ Middle(r) <= r.hi /\ Middle(r) \in 1 .. n
      BY <2>2, MiddleOf
    <3>2. QED BY <2>2, <3>1 DEF Turn, Ranges
  <2>3. r.lo \in Int /\ r.hi \in Int
    BY DEF Ranges
  <2>4. QED BY <2>1, <2>2, <2>3
<1>3. next \in [1 .. n -> [V -> V]] /\ \A i \in 1 .. n : \A r \in V : next[i][r] = Turn(r, below, above)
  BY <1>2
<1> HIDE DEF next, V, first
<1>4. PICK f : Computes(f, n, V, first, next)
  BY ONLY <1>1, <1>3, n \in Nat, Recursion
<1>5. ASSUME NEW i \in 0 .. n
      PROVE  f[i] = IF i = 0 THEN first ELSE Turn(f[i - 1], below, above)
  <2>1. CASE i = 0
    BY <1>4, <2>1 DEF Computes
  <2>2. CASE i # 0
    <3>1. i \in 1 .. n /\ i - 1 \in 0 .. n
      BY <2>2
    <3>2. f[i] = next[i][f[i - 1]] /\ f[i - 1] \in V
      BY <1>4, <3>1 DEF Computes
    <3>3. QED BY <1>3, <2>2, <3>1, <3>2
  <2>3. QED BY <2>1, <2>2
<1>6. f = [i \in 0 .. n |-> IF i = 0 THEN first ELSE Turn(f[i - 1], below, above)]
  <2>1. f \in [0 .. n -> V]
    BY <1>4 DEF Computes
  <2>2. QED BY <1>5, <2>1
<1>7. QED BY <1>6 DEF IsNarrowing, first

\* The search ends: with nothing left, or at an index on neither side; and it has
\* passed over nothing.
LEMMA NarrowedFacts ==
    ASSUME NEW n \in Nat, NEW below, NEW above
    PROVE  /\ LeftOver(Narrowed(n, below, above), n, below, above)
           /\ \/ Narrowed(n, below, above).lo > Narrowed(n, below, above).hi
              \/ Stopped(Narrowed(n, below, above), below, above)
<1> DEFINE f == CHOOSE range : IsNarrowing(range, n, below, above)
<1>1. Narrowed(n, below, above) = f[n]
  BY DEF Narrowed, IsNarrowing
<1>2. IsNarrowing(f, n, below, above)
  BY NarrowingExists
<1> HIDE DEF f
<1>3. /\ f[0] = [lo |-> 1, hi |-> n]
      /\ \A i \in 0 .. n - 1 : f[i + 1] = Turn(f[i], below, above)
  <2>1. f[0] = [lo |-> 1, hi |-> n]
    BY <1>2 DEF IsNarrowing
  <2>2. ASSUME NEW i \in 0 .. n - 1 PROVE f[i + 1] = Turn(f[i], below, above)
    <3>1. i + 1 \in 0 .. n /\ i + 1 # 0 /\ (i + 1) - 1 = i
      OBVIOUS
    <3>2. f[i + 1] = Turn(f[(i + 1) - 1], below, above)
      BY <1>2, <3>1 DEF IsNarrowing
    <3>3. QED BY <3>1, <3>2
  <2>3. QED BY <2>1, <2>2
<1> DEFINE Ended(r) == r.lo > r.hi \/ Stopped(r, below, above)
           S == {i \in 0 .. n : /\ LeftOver(f[i], n, below, above)
                                /\ Ended(f[i]) \/ f[i].hi - f[i].lo < n - i}
<1>4. 0 \in S
  <2>1. LeftOver(f[0], n, below, above)
    BY <1>3 DEF LeftOver, Ranges
  <2>2. f[0].hi - f[0].lo < n - 0
    BY <1>3
  <2>3. QED BY <2>1, <2>2
<1>5. ASSUME NEW i \in 0 .. n - 1, i \in S PROVE i + 1 \in S
  <2>1. i \in 0 .. n /\ i + 1 \in 0 .. n
    OBVIOUS
  <2> DEFINE r == f[i]
             t == f[i + 1]
  <2>2. LeftOver(r, n, below, above) /\ (Ended(r) \/ r.hi - r.lo < n - i)
    BY <1>5
  <2>3. t = Turn(r, below, above)
    BY <1>3
  <2> HIDE DEF r, t
  <2>4. LeftOver(t, n, below, above)
    BY <2>2, <2>3, TurnKeeps
  <2>5. Ended(t) \/ t.hi - t.lo < n - (i + 1)
    <3>1. CASE Ended(r)
      <4>1. t = r
        BY <2>2, <2>3, <3>1, TurnKeeps
      <4>2. QED BY <3>1, <4>1
    <3>2. CASE ~Ended(r)
      <4>1. r.lo \in Int /\ r.hi \in Int /\ t.lo \in Int /\ t.hi \in Int
        BY <2>2, <2>4 DEF LeftOver, Ranges
      <4>2. ~Stopped(r, below, above) /\ r.lo <= r.hi
        BY <3>2, <4>1
      <4>3. t.hi - t.lo < r.hi - r.lo
        BY <2>2, <2>3, <4>2, TurnKeeps
      <4>4. QED BY <2>2, <3>2, <4>1, <4>3
    <3>3. QED BY <3>1, <3>2
  <2> USE DEF r, t
  <2>6. QED BY <2>1, <2>4, <2>5
<1>6. n \in S
  <2> HIDE DEF S
  <2>1. \A i \in 0 .. n : i \in S
    BY <1>4, <1>5, Upwards
  <2>2. QED BY <2>1
<1>7. LeftOver(f[n], n, below, above) /\ (Ended(f[n]) \/ f[n].hi - f[n].lo < n - n)
  BY <1>6
<1>8. f[n].hi - f[n].lo < n - n => f[n].lo > f[n].hi
  BY <1>7 DEF LeftOver, Ranges
<1>9. QED BY <1>1, <1>7, <1>8

\* What a binary search finds is on neither side, and it finds something if
\* there is something to be found.
LEMMA BinarySearchFinds ==
    ASSUME NEW list, NEW n \in Nat, Len(list) = n, NEW below, NEW above
    PROVE  /\ BinarySearch(list, below, above) \in 0 .. n
           /\ BinarySearch(list, below, above) # 0 =>
                /\ BinarySearch(list, below, above) \notin below
                /\ BinarySearch(list, below, above) \notin above
           /\ Sided(n, below, above) /\ BinarySearch(list, below, above) = 0 =>
                \A i \in 1 .. n : i \in below \/ i \in above
<1> DEFINE r == Narrowed(n, below, above)
<1>1. LeftOver(r, n, below, above) /\ (r.lo > r.hi \/ Stopped(r, below, above))
  BY NarrowedFacts
<1>2. BinarySearch(list, below, above) = IF r.lo > r.hi THEN 0 ELSE Middle(r)
  BY DEF BinarySearch
<1> HIDE DEF r
<1>3. r \in Ranges(n) /\ r.lo \in Int /\ r.hi \in Int
  BY <1>1 DEF LeftOver, Ranges
<1>4. CASE r.lo > r.hi
  <2>1. \A i \in 1 .. n : i < r.lo \/ i > r.hi
    BY <1>3, <1>4
  <2>2. QED BY <1>1, <1>2, <1>4, <2>1 DEF LeftOver
<1>5. CASE r.lo <= r.hi
  <2>1. Middle(r) \in 1 .. n /\ Stopped(r, below, above) /\ ~(r.lo > r.hi)
    BY <1>1, <1>3, <1>5, MiddleOf
  <2>2. QED BY <1>2, <2>1 DEF Stopped
<1>6. QED BY <1>3, <1>4, <1>5

(***************************************************************************)
(* The words and their places.                                             *)
(***************************************************************************)
LEMMA Appended ==
    ASSUME NEW S, NEW q \in Seq(S), NEW x \in S
    PROVE  /\ Append(q, x) \in Seq(S) /\ Len(Append(q, x)) = Len(q) + 1
           /\ Append(q, x)[Len(q) + 1] = x
           /\ \A i \in 1 .. Len(q) : Append(q, x)[i] = q[i]
OBVIOUS

Loads == [words : Seq(Words), lastEnd : Nat]

NothingLoaded == [words |-> <<>>, lastEnd |-> 0]

IsLoading(load, file) ==
    load = [i \in 0 .. Len(file) |->
               IF i = 0 THEN [words |-> <<>>, lastEnd |-> 0] ELSE AddWord(load[i - 1], file, i)]

\* The word that AddWord adds.
Timed(before, file, i) ==
    IF Untimed(file, i) THEN [file[i] EXCEPT !.s = before.lastEnd, !.e = before.lastEnd] ELSE file[i]

LEMMA AddedWord ==
    ASSUME NEW file \in Seq(Words), NEW i \in 1 .. Len(file), NEW b \in Loads
    PROVE  /\ Timed(b, file, i) \in Words /\ Timed(b, file, i).w = file[i].w
           /\ Untimed(file, i) => Timed(b, file, i).s = b.lastEnd /\ Timed(b, file, i).e = b.lastEnd
           /\ ~Untimed(file, i) => Timed(b, file, i) = file[i]
           /\ AddWord(b, file, i) \in Loads
           /\ AddWord(b, file, i).words = Append(b.words, Timed(b, file, i))
           /\ AddWord(b, file, i).lastEnd =
                IF Timed(b, file, i).e > b.lastEnd THEN Timed(b, file, i).e ELSE b.lastEnd
<1> DEFINE word == Timed(b, file, i)
<1>1. file[i] \in Words /\ b.lastEnd \in Nat /\ b.words \in Seq(Words)
  BY DEF Loads
<1>2. word \in Words /\ word.w = file[i].w
      /\ (Untimed(file, i) => word.s = b.lastEnd /\ word.e = b.lastEnd)
      /\ (~Untimed(file, i) => word = file[i])
  BY <1>1 DEF Timed, Words
<1>3. AddWord(b, file, i) = [words |-> Append(b.words, word),
                             lastEnd |-> IF word.e > b.lastEnd THEN word.e ELSE b.lastEnd]
  BY DEF AddWord, Timed
<1> HIDE DEF word
<1>4. Append(b.words, word) \in Seq(Words)
  BY <1>1, <1>2, Appended
<1>5. word.e \in Nat
  BY <1>2 DEF Words
<1>6. AddWord(b, file, i) \in Loads
  BY <1>1, <1>3, <1>4, <1>5 DEF Loads
<1>7. /\ AddWord(b, file, i).words = Append(b.words, word)
      /\ AddWord(b, file, i).lastEnd = IF word.e > b.lastEnd THEN word.e ELSE b.lastEnd
  BY <1>3
<1>8. QED BY <1>2, <1>6, <1>7 DEF word

LEMMA LoadingExists ==
    ASSUME NEW file \in Seq(Words)
    PROVE  \E load : IsLoading(load, file)
<1> DEFINE n == Len(file)
           next == [i \in 1 .. n |-> [b \in Loads |-> AddWord(b, file, i)]]
<1>1. n \in Nat /\ NothingLoaded \in Loads
  BY DEF NothingLoaded, Loads
<1>2. next \in [1 .. n -> [Loads -> Loads]]
      /\ \A i \in 1 .. n : \A b \in Loads : next[i][b] = AddWord(b, file, i)
  BY AddedWord
<1> HIDE DEF next, n
<1>3. PICK f : Computes(f, n, Loads, NothingLoaded, next)
  BY ONLY <1>1, <1>2, Recursion
<1>4. ASSUME NEW i \in 0 .. n
      PROVE  f[i] = IF i = 0 THEN NothingLoaded ELSE AddWord(f[i - 1], file, i)
  <2>1. CASE i = 0
    BY <1>3, <2>1 DEF Computes
  <2>2. CASE i # 0
    <3>1. i \in 1 .. n /\ i - 1 \in 0 .. n
      BY <1>1, <2>2
    <3>2. f[i] = next[i][f[i - 1]] /\ f[i - 1] \in Loads
      BY <1>3, <3>1 DEF Computes
    <3>3. QED BY <1>2, <2>2, <3>1, <3>2
  <2>3. QED BY <2>1, <2>2
<1>5. f = [i \in 0 .. n |-> IF i = 0 THEN NothingLoaded ELSE AddWord(f[i - 1], file, i)]
  <2>1. f \in [0 .. n -> Loads]
    BY <1>3 DEF Computes
  <2>2. QED BY <1>4, <2>1
<1>6. QED BY <1>5 DEF IsLoading, NothingLoaded, n

\* No word begins before one that comes earlier has ended.
Ordered(words) ==
    \A k \in DOMAIN words : /\ words[k].s <= words[k].e
                            /\ \A j \in 1 .. k - 1 : words[j].e <= words[k].s

\* After i words of a file.
LoadedTo(b, file, i) ==
    /\ b \in Loads /\ Len(b.words) = i
    /\ \A k \in 1 .. i : b.words[k].w = file[k].w /\ b.words[k].e <= b.lastEnd
    /\ b.lastEnd = 0 \/ \E k \in 1 .. i : b.lastEnd = file[k].e
    /\ OrderedTimes(file) => Ordered(b.words)

LEMMA LoadMore ==
    ASSUME NEW file \in Seq(Words), NEW i \in 0 .. Len(file) - 1, NEW b, LoadedTo(b, file, i)
    PROVE  LoadedTo(AddWord(b, file, i + 1), file, i + 1)
<1> DEFINE c == AddWord(b, file, i + 1)
           word == Timed(b, file, i + 1)
<1>1. i + 1 \in 1 .. Len(file) /\ i \in Nat /\ file[i + 1] \in Words
  OBVIOUS
<1>2. b \in Loads /\ b.words \in Seq(Words) /\ b.lastEnd \in Nat /\ Len(b.words) = i
  BY DEF LoadedTo, Loads
<1>3. /\ word \in Words /\ word.w = file[i + 1].w
      /\ Untimed(file, i + 1) => word.s = b.lastEnd /\ word.e = b.lastEnd
      /\ ~Untimed(file, i + 1) => word = file[i + 1]
      /\ c \in Loads
      /\ c.words = Append(b.words, word)
      /\ c.lastEnd = IF word.e > b.lastEnd THEN word.e ELSE b.lastEnd
  BY <1>1, <1>2, AddedWord
<1> HIDE DEF c, word
<1>4. /\ c.words \in Seq(Words) /\ Len(c.words) = i + 1 /\ c.words[i + 1] = word
      /\ \A k \in 1 .. i : c.words[k] = b.words[k]
  BY <1>2, <1>3, Appended
<1>5. word.s \in Nat /\ word.e \in Nat /\ \A k \in 1 .. i : b.words[k].e \in Nat
  <2>1. \A k \in 1 .. i : b.words[k] \in Words
    BY <1>2
  <2>2. \A x \in Words : x.s \in Nat /\ x.e \in Nat
    BY DEF Words
  <2>3. QED BY <1>3, <2>1, <2>2
<1>6. \A k \in 1 .. i + 1 : c.words[k].w = file[k].w /\ c.words[k].e <= c.lastEnd
  <2>1. TAKE k \in 1 .. i + 1
  <2>2. CASE k = i + 1
    BY <1>2, <1>3, <1>4, <1>5, <2>2
  <2>3. CASE k \in 1 .. i
    <3>1. c.words[k] = b.words[k] /\ b.words[k].w = file[k].w /\ b.words[k].e <= b.lastEnd
      BY <1>4, <2>3 DEF LoadedTo
    <3>2. b.lastEnd <= c.lastEnd /\ c.lastEnd \in Nat
      BY <1>2, <1>3, <1>5
    <3>3. b.words[k].e \in Nat /\ b.lastEnd \in Nat
      BY <1>2, <1>5, <2>3
    <3>4. b.words[k].e <= c.lastEnd
      BY ONLY <3>1, <3>2, <3>3
    <3>5. QED BY ONLY <3>1, <3>4
  <2>4. QED BY <1>1, <2>2, <2>3
<1>7. c.lastEnd = 0 \/ \E k \in 1 .. i + 1 : c.lastEnd = file[k].e
  <2>1. b.lastEnd = 0 \/ \E k \in 1 .. i + 1 : b.lastEnd = file[k].e
    <3>1. 1 .. i \subseteq 1 .. i + 1
      BY <1>1
    <3>2. b.lastEnd = 0 \/ \E k \in 1 .. i : b.lastEnd = file[k].e
      BY DEF LoadedTo
    <3>3. QED BY <3>1, <3>2
  <2>2. word.e = b.lastEnd \/ word.e = file[i + 1].e
    BY <1>3
  <2>3. CASE c.lastEnd = b.lastEnd
    BY <2>1, <2>3
  <2>4. CASE c.lastEnd = word.e
    BY <1>1, <2>1, <2>2, <2>4
  <2>5. QED BY <1>3, <2>3, <2>4
<1>8. ASSUME OrderedTimes(file) PROVE Ordered(c.words)
  <2>1. DOMAIN c.words = 1 .. i + 1 /\ DOMAIN b.words = 1 .. i
    BY <1>2, <1>4
  <2>2. Ordered(b.words)
    BY <1>8 DEF LoadedTo
  <2>3. b.lastEnd <= word.s /\ word.s <= word.e
    <3>1. CASE Untimed(file, i + 1)
      BY <1>2, <1>3, <3>1
    <3>2. CASE ~Untimed(file, i + 1)
      <4>1. file[i + 1].s <= file[i + 1].e /\ \A k \in 1 .. (i + 1) - 1 : file[k].e <= file[i + 1].s
        BY <1>1, <1>8, <3>2 DEF OrderedTimes
      <4>2. word = file[i + 1] /\ (i + 1) - 1 = i
        BY <1>1, <1>3, <3>2
      <4>3. b.lastEnd = 0 \/ \E k \in 1 .. i : b.lastEnd = file[k].e
        BY DEF LoadedTo
      <4>4. QED BY <1>5, <4>1, <4>2, <4>3
    <3>3. QED BY <3>1, <3>2
  <2>4. \A j \in 1 .. i : b.words[j].e <= word.s
    <3>1. \A j \in 1 .. i : b.words[j].e <= b.lastEnd
      BY DEF LoadedTo
    <3>2. \A j \in 1 .. i : b.words[j].e \in Nat
      BY <1>5
    <3>3. QED BY ONLY <1>2, <1>5, <2>3, <3>1, <3>2
  <2>5. ASSUME NEW k \in 1 .. i + 1
        PROVE  c.words[k].s <= c.words[k].e /\ \A j \in 1 .. k - 1 : c.words[j].e <= c.words[k].s
    <3>1. CASE k = i + 1
      <4>1. \A j \in 1 .. k - 1 : j \in 1 .. i
        BY <3>1
      <4>2. QED BY <1>4, <2>3, <2>4, <3>1, <4>1
    <3>2. CASE k \in 1 .. i
      <4>1. \A j \in 1 .. k - 1 : j \in 1 .. i
        BY <3>2
      <4>2. b.words[k].s <= b.words[k].e /\ \A j \in 1 .. k - 1 : b.words[j].e <= b.words[k].s
        BY <2>1, <2>2, <3>2 DEF Ordered
      <4>3. QED BY <1>4, <3>2, <4>1, <4>2
    <3>3. QED BY <1>1, <3>1, <3>2
  <2>6. QED BY <2>1, <2>5 DEF Ordered
<1>9. LoadedTo(c, file, i + 1)
  BY <1>3, <1>4, <1>6, <1>7, <1>8 DEF LoadedTo
<1>10. QED BY <1>9 DEF c

\* load() keeps the words, and has them in order when the file has.
LEMMA WordsLoaded ==
    ASSUME NEW file \in Seq(Words)
    PROVE  /\ LoadWords(file) \in Seq(Words) /\ Len(LoadWords(file)) = Len(file)
           /\ OrderedTimes(file) => Ordered(LoadWords(file))
<1> DEFINE f == CHOOSE load : IsLoading(load, file)
           n == Len(file)
<1>1. LoadWords(file) = f[n].words
  BY DEF LoadWords, IsLoading
<1>2. IsLoading(f, file)
  BY LoadingExists
<1>3. n \in Nat
  OBVIOUS
<1> HIDE DEF f
<1>4. f[0] = NothingLoaded
  BY <1>2, <1>3 DEF IsLoading, NothingLoaded
<1>5. ASSUME NEW i \in 0 .. n - 1 PROVE f[i + 1] = AddWord(f[i], file, i + 1)
  <2>1. i + 1 \in 0 .. n /\ i + 1 # 0 /\ (i + 1) - 1 = i
    BY <1>3
  <2>2. f[i + 1] = AddWord(f[(i + 1) - 1], file, i + 1)
    BY <1>2, <2>1 DEF IsLoading
  <2>3. QED BY <2>1, <2>2
<1> DEFINE S == {i \in 0 .. n : LoadedTo(f[i], file, i)}
<1>6. 0 \in S
  <2>1. LoadedTo(NothingLoaded, file, 0)
    BY DEF LoadedTo, NothingLoaded, Loads, Ordered
  <2>2. QED BY <1>3, <1>4, <2>1
<1>7. ASSUME NEW i \in 0 .. n - 1, i \in S PROVE i + 1 \in S
  <2>1. LoadedTo(AddWord(f[i], file, i + 1), file, i + 1)
    BY <1>7, LoadMore
  <2>2. i + 1 \in 0 .. n
    BY <1>3
  <2>3. QED BY <1>5, <2>1, <2>2
<1>8. n \in S
  <2> HIDE DEF S, n
  <2>1. \A i \in 0 .. n : i \in S
    BY <1>3, <1>6, <1>7, Upwards
  <2>2. QED BY <1>3, <2>1
<1>9. LoadedTo(f[n], file, n)
  BY <1>8
<1>10. QED BY <1>1, <1>9 DEF LoadedTo, Loads

(***************************************************************************)
(* buildText().                                                            *)
(***************************************************************************)
Spans == [start : Nat, end : Nat]

Texts == [length : Nat, inSentence : BOOLEAN, newLine : BOOLEAN, spans : Seq(Spans)]

NothingPlaced == [length |-> 0, inSentence |-> FALSE, newLine |-> FALSE, spans |-> <<>>]

IsBuilding(build, words) ==
    build = [i \in 0 .. Len(words) |->
                IF i = 0 THEN [length |-> 0, inSentence |-> FALSE, newLine |-> FALSE, spans |-> <<>>]
                ELSE PlaceWord(build[i - 1], words[i])]

\* The places are in the order of the words, and apart.
Placed(spans) ==
    \A k \in DOMAIN spans : /\ spans[k].start <= spans[k].end
                            /\ \A j \in 1 .. k - 1 : spans[j].end <= spans[k].start

\* A text of i words.
PlacedTo(t, i) ==
    /\ t \in Texts /\ Len(t.spans) = i
    /\ Placed(t.spans)
    /\ \A k \in 1 .. i : t.spans[k].end <= t.length

LEMMA PlacedWord ==
    ASSUME NEW t \in Texts, NEW word
    PROVE  \E start, end \in Nat :
              /\ t.length <= start /\ start <= end
              /\ PlaceWord(t, word) \in Texts
              /\ PlaceWord(t, word).length = end
              /\ PlaceWord(t, word).spans = Append(t.spans, [start |-> start, end |-> end])
<1>1. t.length \in Nat /\ t.spans \in Seq(Spans) /\ t.inSentence \in BOOLEAN /\ t.newLine \in BOOLEAN
  BY DEF Texts
<1>2. t = [length |-> t.length, inSentence |-> t.inSentence, newLine |-> t.newLine, spans |-> t.spans]
  BY DEF Texts
<1> DEFINE add == IF t.inSentence THEN 0 ELSE StampLength + (IF t.newLine THEN 1 ELSE 0)
<1>3. add \in Nat
  BY KaraokeAssumption
<1>4. PICK start : start = t.length + add
  OBVIOUS
<1>5. start \in Nat /\ t.length <= start /\ start + 1 \in Nat /\ start <= start + 1
  <2> HIDE DEF add
  <2>1. QED BY <1>1, <1>3, <1>4
<1>6. PlaceWord(t, word) =
        IF word.w = "newline"
        THEN [t EXCEPT !.inSentence = FALSE, !.newLine = @ \/ t.inSentence,
                       !.spans = Append(@, [start |-> t.length, end |-> t.length])]
        ELSE [t EXCEPT !.length = start + 1, !.inSentence = TRUE,
                       !.spans = Append(@, [start |-> start, end |-> start + 1])]
  BY <1>4 DEF PlaceWord
<1> HIDE DEF add
<1>7. CASE word.w = "newline"
  <2> DEFINE span == [start |-> t.length, end |-> t.length]
             nl == t.newLine \/ t.inSentence
  <2>1. span \in Spans /\ nl \in BOOLEAN /\ FALSE \in BOOLEAN
    BY <1>1 DEF Spans
  <2>2. PlaceWord(t, word) = [t EXCEPT !.inSentence = FALSE, !.newLine = @ \/ t.inSentence,
                                       !.spans = Append(@, span)]
    BY <1>6, <1>7
  <2>3. PlaceWord(t, word) = [length |-> t.length, inSentence |-> FALSE, newLine |-> nl,
                              spans |-> Append(t.spans, span)]
    BY ONLY <1>2, <2>2
  <2> HIDE DEF span, nl
  <2>4. Append(t.spans, span) \in Seq(Spans)
    BY <1>1, <2>1, Appended
  <2>5. PlaceWord(t, word) \in Texts /\ PlaceWord(t, word).length = t.length
        /\ PlaceWord(t, word).spans = Append(t.spans, span)
    BY <1>1, <2>1, <2>3, <2>4 DEF Texts
  <2>6. t.length <= t.length
    BY <1>1
  <2>7. QED BY <1>1, <2>5, <2>6 DEF span
<1>8. CASE word.w # "newline"
  <2> DEFINE span == [start |-> start, end |-> start + 1]
  <2>1. span \in Spans /\ TRUE \in BOOLEAN
    BY <1>5 DEF Spans
  <2>2. PlaceWord(t, word) = [t EXCEPT !.length = start + 1, !.inSentence = TRUE,
                                       !.spans = Append(@, span)]
    BY <1>6, <1>8
  <2>3. PlaceWord(t, word) = [length |-> start + 1, inSentence |-> TRUE, newLine |-> t.newLine,
                              spans |-> Append(t.spans, span)]
    BY ONLY <1>2, <2>2
  <2> HIDE DEF span
  <2>4. Append(t.spans, span) \in Seq(Spans)
    BY <1>1, <2>1, Appended
  <2>5. PlaceWord(t, word) \in Texts /\ PlaceWord(t, word).length = start + 1
        /\ PlaceWord(t, word).spans = Append(t.spans, span)
    BY <1>1, <1>5, <2>1, <2>3, <2>4 DEF Texts
  <2>6. QED BY <1>5, <2>5 DEF span
<1>9. QED BY <1>7, <1>8

LEMMA PlaceMore ==
    ASSUME NEW i \in Nat, NEW t, PlacedTo(t, i), NEW word
    PROVE  PlacedTo(PlaceWord(t, word), i + 1)
<1> DEFINE u == PlaceWord(t, word)
<1>1. t \in Texts /\ t.spans \in Seq(Spans) /\ t.length \in Nat /\ Len(t.spans) = i
  BY DEF PlacedTo, Texts
<1>2. PICK start \in Nat, end \in Nat :
              /\ t.length <= start /\ start <= end
              /\ u \in Texts
              /\ u.length = end
              /\ u.spans = Append(t.spans, [start |-> start, end |-> end])
  BY <1>1, PlacedWord
<1> HIDE DEF u
<1>3. [start |-> start, end |-> end] \in Spans
  BY DEF Spans
<1>4. /\ u.spans \in Seq(Spans) /\ Len(u.spans) = i + 1
      /\ u.spans[i + 1] = [start |-> start, end |-> end]
      /\ \A k \in 1 .. i : u.spans[k] = t.spans[k]
  BY <1>1, <1>2, <1>3, Appended
<1>5. u.spans[i + 1].start = start /\ u.spans[i + 1].end = end
  BY <1>4
<1>6. \A k \in 1 .. i : /\ u.spans[k].start = t.spans[k].start /\ u.spans[k].end = t.spans[k].end
                        /\ u.spans[k].end \in Nat /\ u.spans[k].end <= t.length
  <2>1. \A k \in 1 .. i : t.spans[k] \in Spans
    BY <1>1
  <2>2. \A x \in Spans : x.end \in Nat
    BY DEF Spans
  <2>3. QED BY <1>4, <2>1, <2>2 DEF PlacedTo
<1>7. DOMAIN u.spans = 1 .. i + 1 /\ DOMAIN t.spans = 1 .. i
  BY <1>1, <1>4
<1>8. \A k \in 1 .. i : /\ t.spans[k].start <= t.spans[k].end
                        /\ \A j \in 1 .. k - 1 : t.spans[j].end <= t.spans[k].start
  BY <1>7 DEF PlacedTo, Placed
<1>9. ASSUME NEW k \in 1 .. i + 1
      PROVE  /\ u.spans[k].start <= u.spans[k].end
             /\ \A j \in 1 .. k - 1 : u.spans[j].end <= u.spans[k].start
             /\ u.spans[k].end <= u.length
  <2>1. \A j \in 1 .. k - 1 : j \in 1 .. i
    OBVIOUS
  <2>2. CASE k = i + 1
    <3>1. \A j \in 1 .. i : u.spans[j].end <= start
      BY ONLY <1>1, <1>2, <1>6, start \in Nat
    <3>2. end <= end
      OBVIOUS
    <3>3. QED BY ONLY <1>2, <1>5, <2>1, <2>2, <3>1, <3>2
  <2>3. CASE k \in 1 .. i
    <3>1. \A j \in 1 .. k - 1 : u.spans[j].end = t.spans[j].end
      BY <1>6, <2>1
    <3>2. u.spans[k].end <= u.length
      <4>1. u.spans[k].end \in Nat /\ u.spans[k].end <= t.length
        BY <1>6, <2>3
      <4>2. t.length \in Nat /\ t.length <= start /\ start <= end /\ u.length = end
        BY <1>1, <1>2
      <4>3. QED BY ONLY <4>1, <4>2, start \in Nat, end \in Nat
    <3>3. QED BY ONLY <1>6, <1>8, <2>3, <3>1, <3>2
  <2>4. QED BY <2>2, <2>3
<1>10. PlacedTo(u, i + 1)
  BY <1>2, <1>4, <1>7, <1>9 DEF PlacedTo, Placed
<1>11. QED BY <1>10 DEF u

LEMMA BuildingExists ==
    ASSUME NEW words, NEW n \in Nat, Len(words) = n
    PROVE  \E build : IsBuilding(build, words)
<1> DEFINE next == [i \in 1 .. n |-> [t \in Texts |-> PlaceWord(t, words[i])]]
<1>1. NothingPlaced \in Texts
  BY DEF NothingPlaced, Texts
<1>2. \A t \in Texts : \A word : PlaceWord(t, word) \in Texts
  BY PlacedWord
<1>3. next \in [1 .. n -> [Texts -> Texts]]
      /\ \A i \in 1 .. n : \A t \in Texts : next[i][t] = PlaceWord(t, words[i])
  BY <1>2
<1> HIDE DEF next
<1>4. PICK f : Computes(f, n, Texts, NothingPlaced, next)
  BY ONLY <1>1, <1>3, n \in Nat, Recursion
<1>5. ASSUME NEW i \in 0 .. n
      PROVE  f[i] = IF i = 0 THEN NothingPlaced ELSE PlaceWord(f[i - 1], words[i])
  <2>1. CASE i = 0
    BY <1>4, <2>1 DEF Computes
  <2>2. CASE i # 0
    <3>1. i \in 1 .. n /\ i - 1 \in 0 .. n
      BY <2>2
    <3>2. f[i] = next[i][f[i - 1]] /\ f[i - 1] \in Texts
      BY <1>4, <3>1 DEF Computes
    <3>3. QED BY <1>3, <2>2, <3>1, <3>2
  <2>3. QED BY <2>1, <2>2
<1>6. f = [i \in 0 .. n |-> IF i = 0 THEN NothingPlaced ELSE PlaceWord(f[i - 1], words[i])]
  <2>1. f \in [0 .. n -> Texts]
    BY <1>4 DEF Computes
  <2>2. QED BY <1>5, <2>1
<1>7. QED BY <1>6 DEF IsBuilding, NothingPlaced

\* Every word has a place, in their order.
LEMMA TextBuilt ==
    ASSUME NEW words, NEW n \in Nat, Len(words) = n
    PROVE  BuildText(words) \in Seq(Spans) /\ Len(BuildText(words)) = n /\ Placed(BuildText(words))
<1> DEFINE f == CHOOSE build : IsBuilding(build, words)
<1>1. BuildText(words) = f[n].spans
  BY DEF BuildText, IsBuilding
<1>2. IsBuilding(f, words)
  BY BuildingExists
<1> HIDE DEF f
<1>3. f[0] = NothingPlaced
  BY <1>2 DEF IsBuilding, NothingPlaced
<1>4. ASSUME NEW i \in 0 .. n - 1 PROVE f[i + 1] = PlaceWord(f[i], words[i + 1])
  <2>1. i + 1 \in 0 .. n /\ i + 1 # 0 /\ (i + 1) - 1 = i
    OBVIOUS
  <2>2. f[i + 1] = PlaceWord(f[(i + 1) - 1], words[i + 1])
    BY <1>2, <2>1 DEF IsBuilding
  <2>3. QED BY <2>1, <2>2
<1> DEFINE S == {i \in 0 .. n : PlacedTo(f[i], i)}
<1>5. 0 \in S
  <2>1. PlacedTo(NothingPlaced, 0)
    BY DEF PlacedTo, NothingPlaced, Texts, Placed
  <2>2. QED BY <1>3, <2>1
<1>6. ASSUME NEW i \in 0 .. n - 1, i \in S PROVE i + 1 \in S
  <2>1. i \in Nat /\ i + 1 \in 0 .. n
    OBVIOUS
  <2>2. PlacedTo(PlaceWord(f[i], words[i + 1]), i + 1)
    BY <1>6, <2>1, PlaceMore
  <2>3. QED BY <1>4, <2>1, <2>2
<1>7. n \in S
  <2> HIDE DEF S
  <2>1. \A i \in 0 .. n : i \in S
    BY <1>5, <1>6, Upwards
  <2>2. QED BY <2>1
<1>8. PlacedTo(f[n], n)
  BY <1>7
<1>9. QED BY <1>1, <1>8 DEF PlacedTo, Texts

(***************************************************************************)
(* The highlight.                                                          *)
(***************************************************************************)
IsSkipping(skip, words, index) ==
    skip = [i \in 0 .. index |-> IF i = 0 \/ words[i].w = "word" THEN i ELSE skip[i - 1]]

LEMMA SkippingExists ==
    ASSUME NEW words, NEW index \in Nat
    PROVE  \E skip : IsSkipping(skip, words, index)
<1> DEFINE V == 0 .. index
           next == [i \in 1 .. index |-> [v \in V |-> IF words[i].w = "word" THEN i ELSE v]]
<1>1. 0 \in V
  OBVIOUS
<1>2. next \in [1 .. index -> [V -> V]]
      /\ \A i \in 1 .. index : \A v \in V : next[i][v] = IF words[i].w = "word" THEN i ELSE v
  <2>1. 1 .. index \subseteq V
    OBVIOUS
  <2> HIDE DEF V
  <2>2. QED BY <2>1
<1> HIDE DEF next
<1>3. PICK f : Computes(f, index, V, 0, next)
  <2> HIDE DEF V
  <2>1. QED BY ONLY <1>1, <1>2, index \in Nat, Recursion
<1>4. ASSUME NEW i \in 0 .. index
      PROVE  f[i] = IF i = 0 \/ words[i].w = "word" THEN i ELSE f[i - 1]
  <2>1. CASE i = 0
    BY <1>3, <2>1 DEF Computes
  <2>2. CASE i # 0
    <3>1. i \in 1 .. index /\ i - 1 \in 0 .. index
      BY <2>2
    <3>2. f[i] = next[i][f[i - 1]] /\ f[i - 1] \in V
      BY <1>3, <3>1 DEF Computes
    <3>3. QED BY <1>2, <2>2, <3>1, <3>2
  <2>3. QED BY <2>1, <2>2
<1>5. f = [i \in 0 .. index |-> IF i = 0 \/ words[i].w = "word" THEN i ELSE f[i - 1]]
  <2>1. f \in [0 .. index -> V]
    BY <1>3 DEF Computes
  <2>2. QED BY <1>4, <2>1
<1>6. QED BY <1>5 DEF IsSkipping

\* The last that is a word, or none.
LastWord(words, x, index) ==
    /\ x \in 0 .. index
    /\ x # 0 => words[x].w = "word"
    /\ \A k \in x + 1 .. index : words[k].w # "word"

LEMMA VisibleIs ==
    ASSUME NEW words, NEW index \in Nat
    PROVE  LastWord(words, Visible(words, index), index)
<1> DEFINE f == CHOOSE skip : IsSkipping(skip, words, index)
<1>1. Visible(words, index) = f[index]
  BY DEF Visible, IsSkipping
<1>2. IsSkipping(f, words, index)
  BY SkippingExists
<1> HIDE DEF f
<1>3. \A i \in 0 .. index : f[i] = IF i = 0 \/ words[i].w = "word" THEN i ELSE f[i - 1]
  BY <1>2 DEF IsSkipping
<1> DEFINE S == {i \in 0 .. index : LastWord(words, f[i], i)}
<1>4. 0 \in S
  BY <1>3 DEF LastWord
<1>5. ASSUME NEW i \in 0 .. index - 1, i \in S PROVE i + 1 \in S
  <2>1. i + 1 \in 0 .. index /\ (i + 1) - 1 = i /\ i + 1 # 0 /\ i \in Nat
    OBVIOUS
  <2>2. f[i + 1] = IF words[i + 1].w = "word" THEN i + 1 ELSE f[(i + 1) - 1]
    BY <1>3, <2>1
  <2>3. LastWord(words, f[i], i)
    BY <1>5
  <2>4. LastWord(words, f[i + 1], i + 1)
    <3>1. CASE words[i + 1].w = "word"
      <4>1. i + 1 \in 0 .. i + 1 /\ \A k \in i + 1 + 1 .. i + 1 : FALSE
        BY <2>1
      <4>2. QED BY <2>2, <3>1, <4>1 DEF LastWord
    <3>2. CASE words[i + 1].w # "word"
      <4>1. f[i + 1] = f[i]
        BY <2>1, <2>2, <3>2
      <4>2. f[i] \in 0 .. i /\ f[i] \in 0 .. i + 1
        BY <2>1, <2>3 DEF LastWord
      <4>3. \A k \in f[i] + 1 .. i + 1 : k = i + 1 \/ k \in f[i] + 1 .. i
        BY <2>1, <4>2
      <4>4. QED BY <2>3, <3>2, <4>1, <4>2, <4>3 DEF LastWord
    <3>3. QED BY <3>1, <3>2
  <2>5. QED BY <2>1, <2>4
<1>6. index \in S
  <2> HIDE DEF S
  <2>1. \A i \in 0 .. index : i \in S
    BY <1>4, <1>5, Upwards
  <2>2. QED BY <2>1
<1>7. QED BY <1>1, <1>6

LEMMA LargestIs ==
    ASSUME NEW S, S \subseteq Nat, NEW x \in Nat, \A j \in S : j <= x, x # 0 => x \in S, 0 \notin S
    PROVE  Largest(S) = x
<1>1. CASE S = {}
  BY <1>1 DEF Largest
<1>2. CASE S # {}
  <2>1. x \in S
    <3>1. \A j \in S : j # 0 /\ j \in Nat
      OBVIOUS
    <3>2. PICK j \in S : TRUE
      BY <1>2
    <3>3. x # 0
      BY <3>1, <3>2
    <3>4. QED BY <3>3
  <2>2. \A y \in S : (\A j \in S : j <= y) => y = x
    <3>1. SUFFICES ASSUME NEW y \in S, \A j \in S : j <= y PROVE y = x
      OBVIOUS
    <3>2. x <= y /\ y <= x /\ y \in Nat
      BY <2>1, <3>1
    <3>3. QED BY <3>2
  <2>3. Largest(S) = CHOOSE i \in S : \A j \in S : j <= i
    BY <1>2 DEF Largest
  <2>4. QED BY <2>1, <2>2, <2>3
<1>3. QED BY <1>1, <1>2

\* Whatever the times, it is a word of the list that is looked up.
LEMMA WordAtIsThere ==
    ASSUME NEW words, NEW n \in Nat, Len(words) = n, NEW ms
    PROVE  WordAt(words, ms) \in 0 .. n
<1>1. LastStarted(words, ms) \in 0 .. n
  <2> DEFINE started == {k \in DOMAIN words : words[k].s <= ms}
             r == Narrowed(n, DOMAIN words \ started, started)
  <2>1. LastStarted(words, ms) = r.lo - 1
    BY DEF LastStarted
  <2>2. LeftOver(r, n, DOMAIN words \ started, started)
    BY NarrowedFacts
  <2> HIDE DEF r, started
  <2>3. r.lo \in 1 .. n + 1
    BY <2>2 DEF LeftOver, Ranges
  <2>4. QED BY <2>1, <2>3
<1> DEFINE below == {k \in DOMAIN words : ms < words[k].s}
           above == {k \in DOMAIN words : ms >= words[k].e}
<1>2. BinarySearch(words, below, above) \in 0 .. n
  <2> HIDE DEF below, above
  <2>1. QED BY BinarySearchFinds
<1>3. WordAt(words, ms) = IF BinarySearch(words, below, above) = 0 /\ ms > 0
                          THEN LastStarted(words, ms) ELSE BinarySearch(words, below, above)
  BY DEF WordAt
<1>4. QED BY <1>1, <1>2, <1>3

LEMMA Chained ==
    /\ \A a, b, c \in Nat : a <= b /\ b <= c => a <= c
    /\ \A a, b, c \in Nat : a < b /\ b <= c => ~(c <= a)
    /\ \A a, b, c \in Nat : a <= b /\ c < a => c < b
    /\ \A a, b, c \in Nat : a <= b /\ c >= b => c >= a
OBVIOUS

Begun(words, ms) == {i \in DOMAIN words : words[i].s <= ms /\ (ms > 0 \/ words[i].e > 0)}

LEMMA OrderedFacts ==
    ASSUME NEW words \in Seq(Words), Ordered(words)
    PROVE  /\ \A i \in 1 .. Len(words) :
                 words[i].s \in Nat /\ words[i].e \in Nat /\ words[i].s <= words[i].e
           /\ \A i, j \in 1 .. Len(words) : i < j =>
                 /\ words[i].e <= words[j].s /\ words[i].s <= words[j].s /\ words[i].e <= words[j].e
<1>1. DOMAIN words = 1 .. Len(words) /\ Len(words) \in Nat
  OBVIOUS
<1>2. ASSUME NEW i \in 1 .. Len(words)
      PROVE  words[i].s \in Nat /\ words[i].e \in Nat /\ words[i].s <= words[i].e
  <2>1. words[i] \in Words
    BY <1>1
  <2>2. words[i].s \in Nat /\ words[i].e \in Nat
    BY <2>1 DEF Words
  <2>3. QED BY <1>1, <2>2 DEF Ordered
<1>3. ASSUME NEW i \in 1 .. Len(words), NEW j \in 1 .. Len(words), i < j
      PROVE  words[i].e <= words[j].s /\ words[i].s <= words[j].s /\ words[i].e <= words[j].e
  <2>1. i \in 1 .. j - 1
    BY <1>3
  <2>2. words[i].e <= words[j].s
    BY <1>1, <2>1 DEF Ordered
  <2>3. /\ words[i].s \in Nat /\ words[i].e \in Nat /\ words[i].s <= words[i].e
        /\ words[j].s \in Nat /\ words[j].e \in Nat /\ words[j].s <= words[j].e
    BY <1>2
  <2>4. words[i].s <= words[j].s
    BY ONLY <2>2, <2>3, Chained, Zenon
  <2>5. words[i].e <= words[j].e
    BY ONLY <2>2, <2>3, Chained, Zenon
  <2>6. QED BY <2>2, <2>4, <2>5
<1>4. QED BY <1>2, <1>3

\* With the times in order it is the last that has begun.
LEMMA WordAtIsLast ==
    ASSUME NEW words \in Seq(Words), Ordered(words), NEW ms \in Nat
    PROVE  /\ \A j \in Begun(words, ms) : j <= WordAt(words, ms)
           /\ WordAt(words, ms) # 0 => WordAt(words, ms) \in Begun(words, ms)
<1> DEFINE n == Len(words)
           below == {k \in DOMAIN words : ms < words[k].s}
           above == {k \in DOMAIN words : ms >= words[k].e}
           x == BinarySearch(words, below, above)
<1>1. n \in Nat /\ DOMAIN words = 1 .. n /\ Len(words) = n
  OBVIOUS
<1>2. /\ \A i \in 1 .. n : words[i].s \in Nat /\ words[i].e \in Nat /\ words[i].s <= words[i].e
      /\ \A i, j \in 1 .. n : i < j =>
            words[i].e <= words[j].s /\ words[i].s <= words[j].s /\ words[i].e <= words[j].e
  BY OrderedFacts
<1> HIDE DEF n
<1>3. /\ \A i \in 1 .. n : (i \in below <=> ms < words[i].s) /\ (i \in above <=> ms >= words[i].e)
      /\ \A i : i \in Begun(words, ms) <=>
            i \in 1 .. n /\ words[i].s <= ms /\ (ms > 0 \/ words[i].e > 0)
  BY <1>1 DEF Begun
<1>4. Sided(n, below, above)
  <2> HIDE DEF below, above
  <2>1. ASSUME NEW i \in 1 .. n, NEW j \in 1 .. n, i < j
        PROVE  (i \in below => j \in below) /\ (j \in above => i \in above)
    <3>1. words[i].s <= words[j].s /\ words[i].e <= words[j].e
      BY <1>2, <2>1
    <3>2. words[i].s \in Nat /\ words[i].e \in Nat /\ words[j].s \in Nat /\ words[j].e \in Nat
      BY <1>2
    <3>3. i \in below => j \in below
      BY ONLY <1>3, <3>1, <3>2, ms \in Nat, i \in 1 .. n, j \in 1 .. n, Chained, Zenon
    <3>4. j \in above => i \in above
      BY ONLY <1>3, <3>1, <3>2, ms \in Nat, i \in 1 .. n, j \in 1 .. n, Chained, Zenon
    <3>5. QED BY <3>3, <3>4
  <2>2. QED BY <2>1 DEF Sided
<1>5. /\ x \in 0 .. n
      /\ x # 0 => x \notin below /\ x \notin above
      /\ x = 0 => \A i \in 1 .. n : i \in below \/ i \in above
  <2> HIDE DEF below, above
  <2>1. QED BY <1>1, <1>4, BinarySearchFinds
<1>6. WordAt(words, ms) = IF x = 0 /\ ms > 0 THEN LastStarted(words, ms) ELSE x
  BY DEF WordAt
<1> HIDE DEF x, below, above
<1>7. CASE x # 0
  <2>1. x \in 1 .. n /\ words[x].s <= ms /\ ms < words[x].e
    <3>1. x \in 1 .. n
      BY <1>5, <1>7
    <3>2. ~(ms < words[x].s) /\ ~(ms >= words[x].e) /\ words[x].s \in Nat /\ words[x].e \in Nat
      BY <1>2, <1>3, <1>5, <1>7, <3>1
    <3>3. QED BY <3>1, <3>2
  <2>2. x \in Begun(words, ms)
    <3>1. words[x].e > 0
      BY <1>2, <2>1
    <3>2. QED BY <1>3, <2>1, <3>1
  <2>3. ASSUME NEW j \in Begun(words, ms), ~(j <= x) PROVE FALSE
    <3>1. j \in 1 .. n /\ words[j].s <= ms /\ x < j
      BY <1>3, <2>1, <2>3
    <3>2. words[x].e <= words[j].s /\ words[j].s \in Nat /\ words[x].e \in Nat
      BY <1>2, <2>1, <3>1
    <3>3. QED BY ONLY <2>1, <3>1, <3>2, ms \in Nat, Chained, Zenon
  <2>4. QED BY <1>6, <1>7, <2>2, <2>3
<1>8. CASE x = 0 /\ ~(ms > 0)
  <2>1. ASSUME NEW j \in Begun(words, ms) PROVE FALSE
    <3>1. j \in 1 .. n /\ words[j].s <= ms /\ words[j].e > 0 /\ ms = 0
      BY <1>3, <1>8, <2>1
    <3>2. ms < words[j].s \/ ms >= words[j].e
      BY <1>3, <1>5, <1>8, <3>1
    <3>3. words[j].s \in Nat /\ words[j].e \in Nat
      BY <1>2, <3>1
    <3>4. QED BY <3>1, <3>2, <3>3
  <2>2. QED BY <1>6, <1>8, <2>1
<1>9. CASE x = 0 /\ ms > 0
  <2> DEFINE started == {k \in DOMAIN words : words[k].s <= ms}
             before == DOMAIN words \ started
             r == Narrowed(n, before, started)
  <2>1. LastStarted(words, ms) = r.lo - 1
    BY DEF LastStarted, n
  <2>2. LeftOver(r, n, before, started) /\ (r.lo > r.hi \/ Stopped(r, before, started))
    <3> HIDE DEF started, before
    <3>1. QED BY <1>1, NarrowedFacts
  <2>3. \A i \in 1 .. n : (i \in started <=> words[i].s <= ms) /\ (i \in before <=> ~(i \in started))
    BY <1>1
  <2> HIDE DEF r, started, before
  <2>4. r \in Ranges(n) /\ r.lo \in 1 .. n + 1 /\ r.hi \in 0 .. n /\ r.lo <= r.hi + 1
    BY <2>2 DEF LeftOver, Ranges
  <2>5. r.lo > r.hi
    <3>1. SUFFICES ASSUME r.lo <= r.hi, Stopped(r, before, started) PROVE FALSE
      BY <2>2, <2>4
    <3>2. Middle(r) \in 1 .. n
      BY <1>1, <2>4, <3>1, MiddleOf
    <3>3. QED BY <2>3, <3>1, <3>2 DEF Stopped
  <2>6. Sided(n, before, started)
    <3>1. ASSUME NEW i \in 1 .. n, NEW j \in 1 .. n, i < j, j \in started PROVE i \in started
      <4>1. words[i].s <= words[j].s /\ words[i].s \in Nat /\ words[j].s \in Nat /\ words[j].s <= ms
        BY <1>2, <2>3, <3>1
      <4>2. words[i].s <= ms
        BY ONLY <4>1, ms \in Nat
      <4>3. QED BY <2>3, <4>2
    <3>2. QED BY <2>3, <3>1 DEF Sided
  <2>7. \A i \in 1 .. n : (i < r.lo => i \in started) /\ (i > r.hi => i \in before)
    BY <2>2, <2>6 DEF LeftOver
  <2>8. WordAt(words, ms) = r.lo - 1
    BY <1>6, <1>9, <2>1
  <2>9. \A j \in Begun(words, ms) : j <= r.lo - 1
    <3>1. ASSUME NEW j \in Begun(words, ms), ~(j <= r.lo - 1) PROVE FALSE
      <4>1. j \in 1 .. n /\ words[j].s <= ms
        BY <1>3
      <4>2. j > r.hi
        BY <2>4, <2>5, <3>1, <4>1
      <4>3. QED BY <2>3, <2>7, <4>1, <4>2
    <3>2. QED BY <3>1
  <2>10. r.lo - 1 # 0 => r.lo - 1 \in Begun(words, ms)
    <3>1. SUFFICES ASSUME r.lo - 1 # 0 PROVE r.lo - 1 \in Begun(words, ms)
      OBVIOUS
    <3>2. r.lo - 1 \in 1 .. n /\ r.lo - 1 < r.lo
      BY <1>1, <2>4, <3>1
    <3>3. words[r.lo - 1].s <= ms
      BY <2>3, <2>7, <3>2
    <3>4. QED BY <1>3, <1>9, <3>2, <3>3
  <2>11. QED BY <2>8, <2>9, <2>10
<1>10. QED BY <1>7, <1>8, <1>9

\* The highlight of a position, which is 0 or a word.
Marks(words, last, ms) ==
    /\ last \in 0 .. Len(words)
    /\ last # 0 => words[last].w = "word"
    /\ Ordered(words) =>
        last = Largest({i \in 1 .. Largest(Begun(words, ms)) : words[i].w = "word"})

\* It does not depend on the last one.
LEMMA HighlightedMarks ==
    ASSUME NEW words \in Seq(Words), words # <<>>, NEW ms \in Nat,
           NEW last \in 0 .. Len(words), last # 0 => words[last].w = "word"
    PROVE  Marks(words, Highlighted(words, last, ms), ms)
<1> DEFINE n == Len(words)
           x == WordAt(words, ms)
           y == Highlighted(words, last, ms)
<1>1. n \in Nat /\ Len(words) = n /\ DOMAIN words = 1 .. n
  OBVIOUS
<1>2. x \in 0 .. n
  BY <1>1, WordAtIsThere
<1>3. LastWord(words, Visible(words, x), x)
  BY <1>2, VisibleIs
<1>4. LastWord(words, y, x)
  <2>1. CASE x = last
    <3>1. y = last
      BY <2>1 DEF Highlighted
    <3> HIDE DEF x, y
    <3>2. last \in 0 .. last /\ \A k \in last + 1 .. last : FALSE
      OBVIOUS
    <3>3. QED BY <2>1, <3>1, <3>2 DEF LastWord
  <2>2. CASE x # last
    BY <1>3, <2>2 DEF Highlighted
  <2>3. QED BY <2>1, <2>2
<1>5. Ordered(words) => Largest(Begun(words, ms)) = x
  <2>1. SUFFICES ASSUME Ordered(words) PROVE Largest(Begun(words, ms)) = x
    OBVIOUS
  <2>2. (\A j \in Begun(words, ms) : j <= x) /\ (x # 0 => x \in Begun(words, ms))
    BY <2>1, WordAtIsLast
  <2> HIDE DEF x, n
  <2>3. Begun(words, ms) \subseteq Nat /\ 0 \notin Begun(words, ms) /\ x \in Nat
    BY <1>1, <1>2 DEF Begun
  <2>4. QED BY <2>2, <2>3, LargestIs
<1> HIDE DEF x, y, n
<1>6. Largest({i \in 1 .. x : words[i].w = "word"}) = y
  <2> DEFINE S == {i \in 1 .. x : words[i].w = "word"}
  <2>1. y \in 0 .. x /\ (y # 0 => words[y].w = "word") /\ \A k \in y + 1 .. x : words[k].w # "word"
    BY <1>4 DEF LastWord
  <2>2. S \subseteq Nat /\ 0 \notin S /\ y \in Nat /\ (y # 0 => y \in S)
    BY <1>2, <2>1
  <2>3. \A j \in S : j <= y
    <3>1. ASSUME NEW j \in S, ~(j <= y) PROVE FALSE
      <4>1. j \in y + 1 .. x
        BY <1>2, <2>1, <3>1
      <4>2. QED BY <2>1, <4>1
    <3>2. QED BY <3>1
  <2> HIDE DEF S
  <2>4. Largest(S) = y
    BY <2>2, <2>3, LargestIs
  <2>5. QED BY <2>4 DEF S
<1>7. y \in 0 .. n /\ (y # 0 => words[y].w = "word")
  BY <1>1, <1>2, <1>4 DEF LastWord
<1>8. QED BY <1>5, <1>6, <1>7 DEF Marks, n, y

(***************************************************************************)
(* The text on the screen.                                                 *)
(***************************************************************************)
KaraokeTypes ==
    /\ wordSpans \in Seq(Words)
    /\ charSpans \in Seq(Spans)
    /\ position \in Nat
    /\ lastHighlightIndex \in 0 .. Len(charSpans)
    /\ gray \subseteq DOMAIN charSpans

\* A text without words is what is left of the recording before.
Shown ==
    wordSpans # <<>> =>
        /\ Len(charSpans) = Len(wordSpans)
        /\ Marks(wordSpans, lastHighlightIndex, position)
        /\ gray = Gray(wordSpans, myVoiceSegments)

KaraokeInv == KaraokeTypes /\ Placed(charSpans) /\ Shown

LEMMA HighlightFollows ==
    ASSUME KaraokeInv
    PROVE  HighlightFollowsPosition
<1>1. SUFFICES ASSUME wordSpans # <<>>, TimesInOrder
               PROVE  lastHighlightIndex =
                        Largest({i \in 1 .. Largest(Begun(wordSpans, position)) : wordSpans[i].w = "word"})
  BY DEF HighlightFollowsPosition, Begun
<1>2. PICK file \in WordLists : OrderedTimes(file) /\ wordSpans = LoadWords(file)
  BY <1>1 DEF TimesInOrder, OrderedLists
<1>3. Ordered(wordSpans)
  BY <1>2, WordsLoaded, KaraokeAssumption
<1>4. QED BY <1>1, <1>3 DEF KaraokeInv, Shown, Marks

LEMMA KaraokeInitially == KaraokeInit => KaraokeInv
BY DEF KaraokeInit, KaraokeInv, KaraokeTypes, Placed, Shown

LEMMA LoadKeeps ==
    ASSUME KaraokeInv, NEW file \in WordLists, NEW segs, Load(file, segs)
    PROVE  KaraokeInv'
<1> DEFINE words == LoadWords(file)
<1>1. file \in Seq(Words)
  BY KaraokeAssumption
<1>2. words \in Seq(Words) /\ Len(words) \in Nat
  BY <1>1, WordsLoaded
<1>3. /\ wordSpans' = words /\ myVoiceSegments' = segs /\ position' = 0
      /\ words = <<>> => UNCHANGED <<charSpans, gray, lastHighlightIndex>>
      /\ words # <<>> => /\ charSpans' = BuildText(words)
                         /\ gray' = Gray(words, segs)
                         /\ lastHighlightIndex' = Highlighted(words, 0, 0)
  BY DEF Load
<1> HIDE DEF words
<1>4. CASE words = <<>>
  BY <1>2, <1>3, <1>4 DEF KaraokeInv, KaraokeTypes, Shown, Placed
<1>5. CASE words # <<>>
  <2>1. charSpans' \in Seq(Spans) /\ Len(charSpans') = Len(words) /\ Placed(charSpans')
    BY <1>2, <1>3, <1>5, TextBuilt
  <2>2. Marks(words, lastHighlightIndex', 0)
    <3>1. 0 \in 0 .. Len(words) /\ 0 \in Nat
      BY <1>2
    <3>2. Marks(words, Highlighted(words, 0, 0), 0)
      BY <1>2, <1>5, <3>1, HighlightedMarks
    <3>3. QED BY <1>3, <1>5, <3>2
  <2>3. DOMAIN charSpans' = 1 .. Len(words) /\ DOMAIN words = 1 .. Len(words)
    BY <1>2, <2>1
  <2>4. gray' \subseteq DOMAIN words
    BY <1>3, <1>5 DEF Gray
  <2>5. lastHighlightIndex' \in 0 .. Len(charSpans')
    BY <2>1, <2>2 DEF Marks
  <2>6. KaraokeTypes'
    BY <1>2, <1>3, <2>1, <2>3, <2>4, <2>5 DEF KaraokeTypes
  <2>7. Shown'
    BY <1>3, <1>5, <2>1, <2>2 DEF Shown
  <2>8. Placed(charSpans)'
    BY <2>1 DEF Placed
  <2>9. QED BY <2>6, <2>7, <2>8 DEF KaraokeInv
<1>6. QED BY <1>4, <1>5

LEMMA ShowPositionKeeps ==
    ASSUME KaraokeInv, NEW ms \in Nat, ShowPosition(ms)
    PROVE  KaraokeInv'
<1>1. /\ position' = ms /\ lastHighlightIndex' = Highlighted(wordSpans, lastHighlightIndex, ms)
      /\ wordSpans' = wordSpans /\ charSpans' = charSpans /\ gray' = gray
      /\ myVoiceSegments' = myVoiceSegments
  BY DEF ShowPosition
<1>2. CASE wordSpans = <<>>
  <2>1. lastHighlightIndex' = lastHighlightIndex
    BY <1>1, <1>2 DEF Highlighted
  <2>2. QED BY <1>1, <1>2, <2>1 DEF KaraokeInv, KaraokeTypes, Shown, Placed
<1>3. CASE wordSpans # <<>>
  <2>1. /\ Len(charSpans) = Len(wordSpans) /\ gray = Gray(wordSpans, myVoiceSegments)
        /\ lastHighlightIndex \in 0 .. Len(wordSpans)
        /\ lastHighlightIndex # 0 => wordSpans[lastHighlightIndex].w = "word"
    BY <1>3 DEF KaraokeInv, Shown, Marks
  <2>2. wordSpans \in Seq(Words)
    BY DEF KaraokeInv, KaraokeTypes
  <2>3. Marks(wordSpans, lastHighlightIndex', ms)
    BY <1>1, <1>3, <2>1, <2>2, HighlightedMarks
  <2>4. lastHighlightIndex' \in 0 .. Len(charSpans)
    BY <2>1, <2>3 DEF Marks
  <2>5. QED BY <1>1, <2>1, <2>3, <2>4 DEF KaraokeInv, KaraokeTypes, Shown, Placed
<1>4. QED BY <1>2, <1>3

\* Where a tap is looked up.
LEMMA TappedWord ==
    ASSUME KaraokeInv, NEW offset \in Nat
    PROVE  /\ findWordAtCharOffset(offset) \in 0 .. Len(charSpans)
           /\ findWordAtCharOffset(offset) # 0 =>
                /\ charSpans[findWordAtCharOffset(offset)].start <= offset
                /\ offset < charSpans[findWordAtCharOffset(offset)].end
           /\ findWordAtCharOffset(offset) = 0 =>
                \A i \in 1 .. Len(charSpans) : offset < charSpans[i].start \/ charSpans[i].end <= offset
<1> DEFINE n == Len(charSpans)
           below == {k \in DOMAIN charSpans : charSpans[k].start > offset}
           above == {k \in DOMAIN charSpans : charSpans[k].end <= offset}
           x == findWordAtCharOffset(offset)
<1>1. n \in Nat /\ DOMAIN charSpans = 1 .. n /\ charSpans \in Seq(Spans) /\ Placed(charSpans)
  BY DEF KaraokeInv, KaraokeTypes
<1>2. \A i \in 1 .. n : /\ charSpans[i].start \in Nat /\ charSpans[i].end \in Nat
                        /\ charSpans[i].start <= charSpans[i].end
                        /\ \A j \in 1 .. i - 1 : charSpans[j].end <= charSpans[i].start
  <2>1. \A i \in 1 .. n : charSpans[i] \in Spans
    BY <1>1
  <2>2. \A y \in Spans : y.start \in Nat /\ y.end \in Nat
    BY DEF Spans
  <2>3. QED BY <1>1, <2>1, <2>2 DEF Placed
<1>3. \A i \in 1 .. n : (i \in below <=> charSpans[i].start > offset)
                        /\ (i \in above <=> charSpans[i].end <= offset)
  BY <1>1
<1>4. x = BinarySearch(charSpans, below, above)
  BY DEF findWordAtCharOffset
<1> HIDE DEF x, n, below, above
<1>5. Sided(n, below, above)
  <2>1. ASSUME NEW i \in 1 .. n, NEW j \in 1 .. n, i < j
        PROVE  (i \in below => j \in below) /\ (j \in above => i \in above)
    <3>1. i \in 1 .. j - 1
      BY <2>1
    <3>2. PICK a \in Nat, b \in Nat, c \in Nat, d \in Nat :
              a = charSpans[i].start /\ b = charSpans[i].end /\ c = charSpans[j].start /\ d = charSpans[j].end
      BY <1>2
    <3>3. a <= b /\ b <= c /\ c <= d
      BY <1>2, <3>1, <3>2
    <3>4. (i \in below <=> a > offset) /\ (j \in below <=> c > offset)
          /\ (i \in above <=> b <= offset) /\ (j \in above <=> d <= offset)
      BY <1>3, <3>2
    <3>5. QED BY ONLY <3>3, <3>4, a \in Nat, b \in Nat, c \in Nat, d \in Nat, offset \in Nat
  <2>2. QED BY <2>1 DEF Sided
<1>6. /\ x \in 0 .. n
      /\ x # 0 => x \notin below /\ x \notin above
      /\ x = 0 => \A i \in 1 .. n : i \in below \/ i \in above
  BY <1>1, <1>4, <1>5, BinarySearchFinds DEF n
<1>7. ASSUME x # 0 PROVE charSpans[x].start <= offset /\ offset < charSpans[x].end
  <2>1. x \in 1 .. n
    BY <1>1, <1>6, <1>7
  <2>2. ~(charSpans[x].start > offset) /\ ~(charSpans[x].end <= offset)
    BY <1>3, <1>6, <1>7, <2>1
  <2>3. charSpans[x].start \in Nat /\ charSpans[x].end \in Nat
    BY <1>2, <2>1
  <2>4. QED BY <2>2, <2>3
<1>8. ASSUME x = 0, NEW i \in 1 .. n PROVE offset < charSpans[i].start \/ charSpans[i].end <= offset
  <2>1. charSpans[i].start > offset \/ charSpans[i].end <= offset
    BY <1>3, <1>6, <1>8
  <2>2. charSpans[i].start \in Nat
    BY <1>2
  <2>3. QED BY <2>1, <2>2
<1>9. QED BY <1>6, <1>7, <1>8 DEF n, x

LEMMA OffsetsAre ==
    ASSUME KaraokeTypes, NEW offset \in 0 .. TextLength
    PROVE  offset \in Nat
OBVIOUS

LEMMA TapKeeps ==
    ASSUME KaraokeInv, NEW offset \in Nat, Tap(offset)
    PROVE  KaraokeInv'
<1> DEFINE x == findWordAtCharOffset(offset)
<1>1. CASE x # 0 /\ x <= Len(wordSpans)
  <2>1. x \in 0 .. Len(charSpans) /\ wordSpans \in Seq(Words) /\ Len(wordSpans) \in Nat
    BY TappedWord DEF KaraokeInv, KaraokeTypes
  <2>2. x \in 1 .. Len(wordSpans)
    BY <1>1, <2>1
  <2>3. wordSpans[x] \in Words
    BY <2>1, <2>2
  <2>4. wordSpans[x].s \in Nat
    BY <2>3 DEF Words
  <2>5. ShowPosition(wordSpans[x].s)
    BY <1>1 DEF Tap
  <2>6. QED BY <2>4, <2>5, ShowPositionKeeps
<1>2. CASE ~(x # 0 /\ x <= Len(wordSpans))
  BY <1>2 DEF Tap, karaoke_vars, KaraokeInv, KaraokeTypes, Placed, Shown, Gray
<1>3. QED BY <1>1, <1>2

\* A tap finds its word: the last that has begun when it begins, since it takes time.
LEMMA TapFinds ==
    ASSUME KaraokeInv, KaraokeInv'
    PROVE  TapFindsWord
<1> SUFFICES ASSUME NEW offset \in 0 .. TextLength, Tap(offset)
             PROVE  \/ \E i \in DOMAIN wordSpans :
                         /\ charSpans[i].start <= offset /\ offset < charSpans[i].end
                         /\ position' = wordSpans[i].s
                         /\ TimesInOrder /\ wordSpans[i].w = "word" /\ wordSpans[i].s < wordSpans[i].e =>
                              lastHighlightIndex' = i
                    \/ /\ UNCHANGED <<position, lastHighlightIndex>>
                       /\ \A i \in DOMAIN wordSpans :
                            offset < charSpans[i].start \/ charSpans[i].end <= offset
  BY DEF TapFindsWord
<1> DEFINE x == findWordAtCharOffset(offset)
<1>1. offset \in Nat
  BY OffsetsAre DEF KaraokeInv
<1>2. wordSpans \in Seq(Words) /\ Len(wordSpans) \in Nat /\ DOMAIN wordSpans = 1 .. Len(wordSpans)
      /\ Len(charSpans) \in Nat
  BY DEF KaraokeInv, KaraokeTypes
<1>3. /\ x \in 0 .. Len(charSpans)
      /\ x # 0 => charSpans[x].start <= offset /\ offset < charSpans[x].end
      /\ x = 0 => \A i \in 1 .. Len(charSpans) : offset < charSpans[i].start \/ charSpans[i].end <= offset
  BY <1>1, TappedWord
<1>4. IF x # 0 /\ x <= Len(wordSpans) THEN ShowPosition(wordSpans[x].s) ELSE UNCHANGED karaoke_vars
  BY DEF Tap
<1>5. wordSpans # <<>> => Len(charSpans) = Len(wordSpans)
  BY DEF KaraokeInv, Shown
<1>6. wordSpans = <<>> => Len(wordSpans) = 0
  OBVIOUS
<1> HIDE DEF x
<1>7. CASE x # 0 /\ x <= Len(wordSpans)
  <2>1. x \in 1 .. Len(wordSpans)
    BY <1>2, <1>3, <1>7
  <2>2. position' = wordSpans[x].s /\ wordSpans' = wordSpans
    BY <1>4, <1>7 DEF ShowPosition
  <2>3. ASSUME TimesInOrder, wordSpans[x].w = "word", wordSpans[x].s < wordSpans[x].e
        PROVE  lastHighlightIndex' = x
    <3>1. PICK file \in WordLists : OrderedTimes(file) /\ wordSpans = LoadWords(file)
      BY <2>3 DEF TimesInOrder, OrderedLists
    <3>2. Ordered(wordSpans)
      BY <3>1, WordsLoaded, KaraokeAssumption
    <3>3. wordSpans # <<>>
      BY <1>6, <2>1
    <3>4. Marks(wordSpans, lastHighlightIndex', wordSpans[x].s)
      BY <2>2, <3>3 DEF KaraokeInv, Shown
    <3> DEFINE ms == wordSpans[x].s
               B == Begun(wordSpans, ms)
               S == {i \in 1 .. x : wordSpans[i].w = "word"}
    <3>5. /\ \A i \in 1 .. Len(wordSpans) : wordSpans[i].s \in Nat /\ wordSpans[i].e \in Nat
          /\ \A i \in 1 .. Len(wordSpans) : x < i => wordSpans[x].e <= wordSpans[i].s
      BY <1>2, <2>1, <3>2, OrderedFacts
    <3>6. x \in B
      <4>1. wordSpans[x].s \in Nat /\ wordSpans[x].e \in Nat
        BY <2>1, <3>5
      <4>2. ms <= ms /\ wordSpans[x].e > 0
        BY <2>3, <4>1
      <4>3. QED BY <1>2, <2>1, <4>2 DEF Begun
    <3>7. \A j \in B : j \in 1 .. Len(wordSpans) /\ wordSpans[j].s <= ms
      BY <1>2 DEF Begun
    <3>8. \A j \in B : j <= x
      <4>1. ASSUME NEW j \in B, ~(j <= x) PROVE FALSE
        <5>1. j \in 1 .. Len(wordSpans) /\ wordSpans[j].s <= ms
          BY <3>7
        <5>2. wordSpans[x].e <= wordSpans[j].s
          BY <2>1, <3>5, <4>1, <5>1
        <5>3. ms \in Nat /\ wordSpans[x].e \in Nat /\ wordSpans[j].s \in Nat
          BY <2>1, <3>5, <5>1
        <5>4. ms < wordSpans[x].e
          BY <2>3
        <5>5. QED BY ONLY <5>1, <5>2, <5>3, <5>4, Chained, Zenon
      <4>2. QED BY <4>1
    <3>9. B \subseteq Nat /\ 0 \notin B /\ x \in Nat
      BY <1>2, <2>1, <3>7
    <3> HIDE DEF B, ms
    <3>10. Largest(B) = x
      BY <3>6, <3>8, <3>9, LargestIs
    <3>11. S \subseteq Nat /\ 0 \notin S /\ x \in S /\ \A j \in S : j <= x
      BY <2>1, <2>3
    <3> HIDE DEF S
    <3>12. Largest(S) = x
      BY <3>9, <3>11, LargestIs
    <3>13. QED BY <3>2, <3>4, <3>10, <3>12 DEF Marks, B, ms, S
  <2>4. QED BY <1>2, <1>3, <1>7, <2>1, <2>2, <2>3
<1>8. CASE ~(x # 0 /\ x <= Len(wordSpans))
  <2>1. UNCHANGED <<position, lastHighlightIndex>>
    BY <1>4, <1>8 DEF karaoke_vars
  <2>2. CASE wordSpans = <<>>
    <3>1. \A i \in DOMAIN wordSpans : FALSE
      BY <1>2, <1>6, <2>2
    <3>2. QED BY <2>1, <3>1
  <2>3. CASE wordSpans # <<>>
    <3>1. x = 0
      BY <1>2, <1>3, <1>5, <1>8, <2>3
    <3>2. QED BY <1>2, <1>3, <1>5, <2>1, <2>3, <3>1
  <2>4. QED BY <2>2, <2>3
<1>9. QED BY <1>7, <1>8

(***************************************************************************)
(* Words in grey.                                                          *)
(***************************************************************************)
Meets(segs, word) == \E k \in DOMAIN segs : segs[k][1] < word.e /\ word.s < segs[k][2]

LEMMA SegmentsFound ==
    ASSUME NEW p \in Seq(Probs), NEW segs \in Seq(Borders(p) \X Borders(p)), Apart(segs),
           NEW word, word.s \in Nat, word.e \in Nat
    PROVE  isMyVoiceMs(segs, word) <=> Meets(segs, word)
<1> DEFINE n == Len(segs)
           below == {k \in DOMAIN segs : word.e <= segs[k][1]}
           above == {k \in DOMAIN segs : word.s >= segs[k][2]}
           x == BinarySearch(segs, below, above)
<1>1. n \in Nat /\ DOMAIN segs = 1 .. n
  OBVIOUS
<1>2. \A i \in 1 .. n : segs[i][1] \in Int /\ segs[i][2] \in Int
  BY <1>1, SegmentTypes
<1>3. \A i \in 1 .. n : (i \in below <=> word.e <= segs[i][1]) /\ (i \in above <=> word.s >= segs[i][2])
  BY <1>1
<1>4. isMyVoiceMs(segs, word) <=> x # 0
  BY DEF isMyVoiceMs
<1>5. PICK s \in Nat, e \in Nat : s = word.s /\ e = word.e
  OBVIOUS
<1> HIDE DEF below, above
<1>6. Sided(n, below, above)
  <2>1. ASSUME NEW i \in 1 .. n, NEW j \in 1 .. n, i < j
        PROVE  (i \in below => j \in below) /\ (j \in above => i \in above)
    <3>1. PICK a \in Int, b \in Int, c \in Int, d \in Int :
              a = segs[i][1] /\ b = segs[i][2] /\ c = segs[j][1] /\ d = segs[j][2]
      BY <1>2
    <3>2. a < b /\ b < c /\ c < d
      BY <1>1, <2>1, <3>1 DEF Apart
    <3>3. (i \in below <=> e <= a) /\ (j \in below <=> e <= c) /\ (i \in above <=> s >= b)
          /\ (j \in above <=> s >= d)
      BY <1>3, <1>5, <3>1
    <3>4. QED BY ONLY <3>2, <3>3, a \in Int, b \in Int, c \in Int, d \in Int, s \in Nat, e \in Nat
  <2>2. QED BY <2>1 DEF Sided
<1>7. /\ x \in 0 .. n
      /\ x # 0 => x \notin below /\ x \notin above
      /\ x = 0 => \A i \in 1 .. n : i \in below \/ i \in above
  <2>1. Len(segs) = n
    OBVIOUS
  <2> HIDE DEF n
  <2>2. QED BY <1>1, <1>6, <2>1, BinarySearchFinds
<1> HIDE DEF x, n
<1>8. \A i \in 1 .. n : i \notin below /\ i \notin above <=> segs[i][1] < word.e /\ word.s < segs[i][2]
  <2>1. TAKE i \in 1 .. n
  <2>2. PICK a \in Int, b \in Int : a = segs[i][1] /\ b = segs[i][2]
    BY <1>2
  <2>3. (i \in below <=> e <= a) /\ (i \in above <=> s >= b)
    BY <1>3, <1>5, <2>2
  <2>4. i \notin below /\ i \notin above <=> a < e /\ s < b
    BY ONLY <2>3, a \in Int, b \in Int, s \in Nat, e \in Nat
  <2>5. QED BY <1>5, <2>2, <2>4
<1>9. ASSUME x # 0 PROVE Meets(segs, word)
  <2>1. x \in 1 .. n
    BY <1>1, <1>7, <1>9
  <2>2. segs[x][1] < word.e /\ word.s < segs[x][2]
    BY <1>7, <1>8, <1>9, <2>1
  <2>3. QED BY <1>1, <2>1, <2>2 DEF Meets
<1>10. ASSUME x = 0 PROVE ~Meets(segs, word)
  BY <1>1, <1>7, <1>8, <1>10, Zenon DEF Meets
<1>11. QED BY <1>4, <1>9, <1>10

\* A word that takes time meets a segment exactly if it meets a chunk of the speaker's.
LEMMA ChunksMet ==
    ASSUME NEW p \in Seq(Probs), NEW segs, Settled(segs, p),
           NEW s \in Nat, NEW e \in Nat, s < e
    PROVE  (\E k \in DOMAIN segs : segs[k][1] < e /\ s < segs[k][2]) <=>
           (\E i \in 1 .. Len(p) : Voiced(p, i) /\ ChunkStart(i) < e /\ s < ChunkStart(i + 1))
<1> DEFINE n == Len(p)
<1>1. n \in Nat
  OBVIOUS
<1>2. /\ segs \in Seq(Borders(p) \X Borders(p))
      /\ Apart(segs)
      /\ \A i \in 1 .. n : Covers(segs, ChunkStart(i)) <=> Voiced(p, i)
  BY DEF Settled
<1> HIDE DEF n
<1>3. ASSUME NEW k \in DOMAIN segs
      PROVE  \E i0, j0 \in 1 .. n + 1 : segs[k][1] = ChunkStart(i0) /\ segs[k][2] = ChunkStart(j0)
  <2>1. segs[k] \in Borders(p) \X Borders(p)
    BY <1>2
  <2>2. segs[k][1] \in Borders(p) /\ segs[k][2] \in Borders(p)
    BY <2>1
  <2>3. QED BY <2>2 DEF Borders, n
<1>4. \A i \in 1 .. n + 1 : i \in Nat /\ ChunkStart(i) \in Int
  BY <1>1, ChunkOrder
<1>5. ASSUME NEW i \in 1 .. n, Voiced(p, i), ChunkStart(i) < e, s < ChunkStart(i + 1)
      PROVE  \E k \in DOMAIN segs : segs[k][1] < e /\ s < segs[k][2]
  <2>1. PICK k \in DOMAIN segs : segs[k][1] <= ChunkStart(i) /\ ChunkStart(i) < segs[k][2]
    BY <1>2, <1>5 DEF Covers
  <2>2. PICK i0 \in 1 .. n + 1, j0 \in 1 .. n + 1 : segs[k][1] = ChunkStart(i0) /\ segs[k][2] = ChunkStart(j0)
    BY <1>3
  <2>3. i \in Nat /\ i < j0 /\ j0 \in Nat /\ i \in 1 .. n + 1 /\ i + 1 \in 1 .. n + 1
    BY <1>1, <1>4, <2>1, <2>2, ChunkOrder
  <2>4. ChunkStart(i + 1) <= ChunkStart(j0)
    <3>1. PICK c \in Int, d \in Int : c = ChunkStart(i + 1) /\ d = ChunkStart(j0)
      BY <1>4, <2>3
    <3>2. i + 1 = j0 \/ i + 1 < j0
      BY <2>3
    <3>3. CASE i + 1 = j0
      <4>1. c = d
        BY <3>1, <3>3
      <4>2. QED BY <3>1, <4>1
    <3>4. CASE i + 1 < j0
      <4>1. i + 1 \in Nat
        BY <2>3
      <4>2. c < d
        BY ONLY <2>3, <3>1, <3>4, <4>1, ChunkOrder, Zenon
      <4>3. QED BY <3>1, <4>2
    <3>5. QED BY <3>2, <3>3, <3>4
  <2>5. segs[k][1] < e
    BY <1>4, <1>5, <2>1, <2>2, <2>3
  <2>6. s < segs[k][2]
    <3>1. PICK c \in Int, d \in Int : c = ChunkStart(i + 1) /\ d = ChunkStart(j0)
      BY <1>4, <2>3
    <3>2. s < c /\ c <= d /\ d = segs[k][2]
      BY <1>5, <2>2, <2>4, <3>1
    <3>3. s < d
      BY ONLY <3>2, s \in Nat, c \in Int, d \in Int
    <3>4. QED BY <3>2, <3>3
  <2>7. QED BY <2>5, <2>6
<1>6. ASSUME NEW k \in DOMAIN segs, segs[k][1] < e, s < segs[k][2]
      PROVE  \E i \in 1 .. n : Voiced(p, i) /\ ChunkStart(i) < e /\ s < ChunkStart(i + 1)
  <2>1. PICK i0 \in 1 .. n + 1, j0 \in 1 .. n + 1 : segs[k][1] = ChunkStart(i0) /\ segs[k][2] = ChunkStart(j0)
    BY <1>3
  <2>2. PICK a \in Int, b \in Int : a = ChunkStart(i0) /\ b = ChunkStart(j0)
    BY <1>4
  <2>3. a < b /\ a < e /\ s < b
    BY <1>2, <1>6, <2>1, <2>2 DEF Apart
  <2>4. i0 < j0 /\ i0 \in 1 .. n
    <3>1. i0 < j0
      BY <1>4, <2>2, <2>3, ChunkOrder
    <3>2. QED BY <1>1, <3>1
  <2>5. ASSUME NEW i \in 1 .. n, a <= ChunkStart(i), ChunkStart(i) < b PROVE Voiced(p, i)
    <3>1. Covers(segs, ChunkStart(i))
      BY <2>1, <2>2, <2>5 DEF Covers
    <3>2. QED BY <1>2, <3>1
  <2>6. CASE s <= a
    <3>1. i0 \in Nat /\ i0 + 1 \in Nat /\ i0 < i0 + 1
      BY <1>4
    <3>2. PICK d \in Int : d = ChunkStart(i0 + 1) /\ a < d
      BY <2>2, <3>1, ChunkOrder
    <3>3. s < ChunkStart(i0 + 1)
      <4>1. s < d
        BY ONLY <2>6, <3>2, s \in Nat, a \in Int, d \in Int
      <4>2. QED BY <3>2, <4>1
    <3>4. Voiced(p, i0)
      BY <2>2, <2>3, <2>4, <2>5
    <3>5. QED BY <2>2, <2>3, <2>4, <3>3, <3>4
  <2>7. CASE a < s
    <3> DEFINE Later == {j \in Nat : s < ChunkStart(j + 1)}
    <3>1. j0 - 1 \in Later
      <4>1. j0 - 1 \in Nat /\ (j0 - 1) + 1 = j0
        BY <1>4
      <4>2. QED BY <2>2, <2>3, <4>1
    <3>2. PICK m \in Later : \A j \in Later : m <= j
      <4>1. Later \in SUBSET Nat /\ Later # {}
        BY <3>1
      <4> HIDE DEF Later
      <4>2. QED BY <4>1, LeastNumber
    <3>3. m \in Nat /\ s < ChunkStart(m + 1) /\ m <= j0 - 1
      BY <3>1, <3>2
    <3>4. a >= 0
      <4>1. i0 - 1 \in Nat /\ (i0 - 1) + 1 = i0
        BY <1>4
      <4>2. ChunkStart(i0) \in Nat
        BY <4>1, ChunkOrder
      <4>3. QED BY <2>2, <4>2
    <3>5. m # 0
      BY <2>7, <3>3, <3>4, ChunkTimes
    <3>6. m \in 1 .. n
      BY <1>1, <3>3, <3>5
    <3>7. m - 1 \in Nat /\ (m - 1) + 1 = m /\ ~(m <= m - 1)
      BY <3>3, <3>5
    <3>8. ~(s < ChunkStart(m))
      BY <3>2, <3>7
    <3> HIDE DEF Later
    <3>9. PICK c \in Int : c = ChunkStart(m)
      BY <3>3, ChunkOrder
    <3>10. c <= s /\ c < e /\ c < b
      <4>1. c <= s
        BY <3>8, <3>9
      <4>2. QED BY ONLY <4>1, <2>3, c \in Int, b \in Int, s < e, s \in Nat, e \in Nat
    <3>11. a <= c
      <4>1. ChunkStart(i0) < ChunkStart(m + 1)
        <5>1. PICK d \in Int : d = ChunkStart(m + 1)
          BY <3>3, ChunkOrder
        <5>2. s < d
          BY <3>3, <5>1
        <5>3. a < d
          BY ONLY <2>7, <5>2, s \in Nat, a \in Int, d \in Int
        <5>4. QED BY <2>2, <5>1, <5>3
      <4>2. i0 < m + 1 /\ i0 \in Nat
        BY <1>4, <3>3, <4>1, ChunkOrder
      <4>3. CASE i0 = m
        BY <2>2, <3>9, <4>3
      <4>4. CASE i0 < m
        <5>1. a < c
          BY <2>2, <3>3, <3>9, <4>2, <4>4, ChunkOrder
        <5>2. QED BY ONLY <5>1, a \in Int, c \in Int
      <4>5. QED BY <3>3, <4>2, <4>3, <4>4
    <3>12. Voiced(p, m)
      BY <2>5, <3>6, <3>9, <3>10, <3>11
    <3>13. QED BY <3>3, <3>6, <3>9, <3>10, <3>12
  <2>8. QED BY <2>6, <2>7, <2>2
<1>7. QED BY <1>5, <1>6 DEF n

\* The colours of the words are those of the chunks.
LEMMA GrayWords ==
    ASSUME NEW p \in Seq(Probs), NEW segs, Settled(segs, p), segs # NoSegments,
           NEW words \in Seq(Words), NEW i \in DOMAIN words,
           words[i].w # "newline", words[i].s < words[i].e
    PROVE  i \in Gray(words, segs) <=>
             \A k \in DOMAIN p : Voiced(p, k) =>
                 words[i].e <= ChunkStart(k) \/ ChunkStart(k + 1) <= words[i].s
<1>1. words[i] \in Words
  OBVIOUS
<1>2. words[i].s \in Nat /\ words[i].e \in Nat
  BY <1>1 DEF Words
<1>3. PICK s \in Nat, e \in Nat : s = words[i].s /\ e = words[i].e
  BY <1>2
<1>4. i \in Gray(words, segs) <=> ~isMyVoiceMs(segs, words[i])
  BY DEF Gray
<1>5. isMyVoiceMs(segs, words[i]) <=> Meets(segs, words[i])
  BY <1>2, SegmentsFound DEF Settled
<1>6. Meets(segs, words[i]) <=>
        \E k \in 1 .. Len(p) : Voiced(p, k) /\ ChunkStart(k) < e /\ s < ChunkStart(k + 1)
  <2>1. s < e
    BY <1>3
  <2>2. (\E k \in DOMAIN segs : segs[k][1] < e /\ s < segs[k][2]) <=>
        (\E k \in 1 .. Len(p) : Voiced(p, k) /\ ChunkStart(k) < e /\ s < ChunkStart(k + 1))
    BY <2>1, ChunksMet
  <2>3. QED BY <1>3, <2>2 DEF Meets
<1>7. ASSUME NEW k \in 1 .. Len(p)
      PROVE  ChunkStart(k) < e /\ s < ChunkStart(k + 1) <=> ~(e <= ChunkStart(k) \/ ChunkStart(k + 1) <= s)
  <2>1. k \in Nat
    OBVIOUS
  <2>2. ChunkStart(k) \in Int /\ ChunkStart(k + 1) \in Int
    BY <2>1, ChunkOrder
  <2>3. QED BY <2>2
<1>8. DOMAIN p = 1 .. Len(p)
  OBVIOUS
<1>9. QED BY <1>3, <1>4, <1>5, <1>6, <1>7, <1>8, Zenon

(***************************************************************************)
(* From the samples to the colours.                                        *)
(***************************************************************************)
VoiceTypes ==
    /\ stage \in {"listening", "flushed", "saved"}
    /\ probs \in Seq(Probs)
    /\ recorded \in Nat
    /\ accumLen \in 0 .. NEW_SAMPLES_PER_CHUNK - 1
    /\ totalSamplesProcessed \in Nat

\* While it listens, the chunks answered and the rest are what was fed, and the
\* detector has found the speaker in them.
Listening ==
    stage = "listening" =>
        /\ totalSamplesProcessed = ChunkStart(Len(probs) + 1)
        /\ totalSamplesProcessed + accumLen = recorded
        /\ Found(Hysteresis, probs)

\* Then less than a chunk of silence was added, and nothing is open.
AllHeard ==
    stage # "listening" =>
        /\ ChunkStart(Len(probs) + 1) \in recorded .. recorded + NEW_SAMPLES_PER_CHUNK - 1
        /\ inMyVoice = FALSE /\ segmentStart = None
        /\ hangoverCount \in 0 .. HANGOVER_FRAMES

SegmentsSettled ==
    /\ stage = "flushed" => Settled(segments, probs)
    /\ stage = "saved" => Settled(savedSegments, probs)

\* No text is shown before there are segments to show it with.
TextIsOfSaved ==
    /\ stage # "saved" => wordSpans = <<>> /\ myVoiceSegments = NoSegments
    /\ stage = "saved" => myVoiceSegments \in {NoSegments, savedSegments}

VoiceInv == VoiceTypes /\ Listening /\ AllHeard /\ SegmentsSettled /\ TextIsOfSaved

VoiceIInv == VoiceInv /\ KaraokeInv

LEMMA VoiceInitially == PersonalVadInit /\ KaraokeInit => VoiceInv
<1> SUFFICES ASSUME PersonalVadInit, KaraokeInit PROVE VoiceInv
  OBVIOUS
<1>1. /\ stage = "listening" /\ accumLen = 0 /\ totalSamplesProcessed = 0 /\ inMyVoice = FALSE
      /\ hangoverCount = 0 /\ segmentStart = None /\ segments = <<>> /\ recorded = 0 /\ probs = <<>>
      /\ wordSpans = <<>> /\ myVoiceSegments = NoSegments
  BY DEF PersonalVadInit, KaraokeInit
<1>2. Len(probs) = 0 /\ probs \in Seq(Probs) /\ Len(probs) + 1 = 1 /\ 0 \in Nat
  BY <1>1
<1>3. ChunkStart(1) = 0
  BY ChunkTimes
<1>4. VoiceTypes
  BY <1>1, <1>2, PersonalVadAssumption DEF VoiceTypes
<1>5. Found(Hysteresis, probs)
  <2> DEFINE v == [in |-> FALSE, hangover |-> 0, start |-> None, segments |-> <<>>]
  <2>1. Hysteresis = v
    BY <1>1 DEF Hysteresis
  <2>2. v \in [in : BOOLEAN, hangover : 0 .. HANGOVER_FRAMES, start : Int,
               segments : Seq(Borders(probs) \X Borders(probs))]
    <3>1. FALSE \in BOOLEAN /\ 0 \in 0 .. HANGOVER_FRAMES /\ None \in Int
          /\ <<>> \in Seq(Borders(probs) \X Borders(probs))
      BY PersonalVadAssumption DEF None
    <3>2. QED BY <3>1
  <2>3. v.in = FALSE /\ v.start = None /\ v.segments = <<>>
    OBVIOUS
  <2>4. \A k \in DOMAIN v.segments : FALSE
    BY <2>3
  <2> HIDE DEF v
  <2>5. ~(Len(probs) > 0) /\ \A i \in 1 .. Len(probs) : FALSE
    BY <1>2
  <2>6. HystTypes(v, probs)
    BY <2>2, <2>3 DEF HystTypes
  <2>7. Apart(v.segments)
    BY <2>4 DEF Apart
  <2>8. QED BY <2>1, <2>3, <2>4, <2>5, <2>6, <2>7 DEF Found
<1>6. QED BY <1>1, <1>2, <1>3, <1>4, <1>5 DEF VoiceInv, Listening, AllHeard, SegmentsSettled, TextIsOfSaved

\* The variables hold the fields of the detector's state.
LEMMA HysteresisSet ==
    ASSUME NEW v, NEW p, Found(v, p), SetHysteresis(v)
    PROVE  Hysteresis' = v
<1>1. v \in [in : BOOLEAN, hangover : 0 .. HANGOVER_FRAMES, start : Int,
             segments : Seq(Borders(p) \X Borders(p))]
  BY DEF Found, HystTypes
<1>2. v = [in |-> v.in, hangover |-> v.hangover, start |-> v.start, segments |-> v.segments]
  BY ONLY <1>1
<1>3. QED BY <1>2 DEF SetHysteresis, Hysteresis

LEMMA AnsweredMore ==
    ASSUME VoiceInv, stage = "listening", NEW prob \in Probs
    PROVE  /\ Append(probs, prob) \in Seq(Probs)
           /\ Found(updateHysteresis(prob, totalSamplesProcessed), Append(probs, prob))
           /\ totalSamplesProcessed + NEW_SAMPLES_PER_CHUNK = ChunkStart(Len(Append(probs, prob)) + 1)
           /\ totalSamplesProcessed + NEW_SAMPLES_PER_CHUNK \in Nat
<1>1. probs \in Seq(Probs) /\ totalSamplesProcessed = ChunkStart(Len(probs) + 1)
      /\ Found(Hysteresis, probs) /\ totalSamplesProcessed \in Nat
  BY DEF VoiceInv, VoiceTypes, Listening
<1>2. Append(probs, prob) \in Seq(Probs) /\ Len(Append(probs, prob)) = Len(probs) + 1 /\ Len(probs) \in Nat
  BY <1>1, Appended
<1>3. PICK v : v = Hysteresis
  OBVIOUS
<1>4. Found(updateHysteresis(prob, ChunkStart(Len(probs) + 1)), Append(probs, prob))
  BY <1>1, <1>3, Answered
<1>5. ChunkStart((Len(probs) + 1) + 1) = ChunkStart(Len(probs) + 1) + NEW_SAMPLES_PER_CHUNK
  BY <1>2, ChunkTimes
<1>6. QED BY <1>1, <1>2, <1>4, <1>5, PersonalVadAssumption

LEMMA ProcessKeeps ==
    ASSUME VoiceInv, NEW n \in 1 .. NEW_SAMPLES_PER_CHUNK, Process(n),
           UNCHANGED <<wordSpans, myVoiceSegments>>
    PROVE  VoiceInv'
<1> DEFINE C == NEW_SAMPLES_PER_CHUNK
<1>1. /\ stage = "listening" /\ recorded' = recorded + n /\ stage' = stage
  BY DEF Process
<1>2. /\ probs \in Seq(Probs) /\ recorded \in Nat /\ accumLen \in 0 .. C - 1 /\ totalSamplesProcessed \in Nat
      /\ totalSamplesProcessed = ChunkStart(Len(probs) + 1)
      /\ totalSamplesProcessed + accumLen = recorded
      /\ Found(Hysteresis, probs)
      /\ wordSpans = <<>> /\ myVoiceSegments = NoSegments
  BY <1>1 DEF VoiceInv, VoiceTypes, Listening, TextIsOfSaved
<1>3. C \in Nat /\ C # 0
  BY PersonalVadAssumption
<1>4. TextIsOfSaved' /\ AllHeard' /\ SegmentsSettled'
  BY <1>1, <1>2 DEF TextIsOfSaved, AllHeard, SegmentsSettled
<1>5. CASE accumLen + n < C
  <2>1. accumLen' = accumLen + n /\ UNCHANGED <<totalSamplesProcessed, probs, Hysteresis>>
    BY <1>5 DEF Process, Hysteresis
  <2> HIDE DEF C
  <2>2. accumLen' \in 0 .. C - 1 /\ recorded' \in Nat /\ totalSamplesProcessed' + accumLen' = recorded'
    <3>1. PICK acc : acc = accumLen
      OBVIOUS
    <3>2. acc \in 0 .. C - 1 /\ acc + n < C /\ accumLen' = acc + n
          /\ totalSamplesProcessed + acc = recorded /\ totalSamplesProcessed \in Nat
      BY <1>2, <1>5, <2>1, <3>1
    <3>3. acc + n \in 0 .. C - 1 /\ recorded + n \in Nat /\ totalSamplesProcessed + (acc + n) = recorded + n
      BY ONLY <1>3, <3>2, n \in 1 .. NEW_SAMPLES_PER_CHUNK
    <3>4. QED BY <1>1, <2>1, <3>2, <3>3
  <2>3. VoiceTypes'
    BY <1>1, <1>2, <2>1, <2>2 DEF VoiceTypes, C
  <2>4. Listening'
    BY <1>1, <1>2, <2>1, <2>2 DEF Listening
  <2>5. QED BY <1>4, <2>3, <2>4 DEF VoiceInv
<1>6. CASE ~(accumLen + n < C)
  <2>1. PICK prob \in Probs :
            /\ SetHysteresis(updateHysteresis(prob, totalSamplesProcessed))
            /\ totalSamplesProcessed' = totalSamplesProcessed + C
            /\ accumLen' = accumLen + n - C
            /\ probs' = Append(probs, prob)
    BY <1>6 DEF Process
  <2>2. /\ probs' \in Seq(Probs)
        /\ Found(updateHysteresis(prob, totalSamplesProcessed), probs')
        /\ totalSamplesProcessed' = ChunkStart(Len(probs') + 1)
        /\ totalSamplesProcessed' \in Nat
    BY <1>1, <2>1, AnsweredMore
  <2>3. Found(Hysteresis', probs')
    BY <2>1, <2>2, HysteresisSet
  <2> HIDE DEF C
  <2>4. n \in 1 .. C
    BY DEF C
  <2>5. accumLen' \in 0 .. C - 1 /\ recorded' \in Nat /\ totalSamplesProcessed' + accumLen' = recorded'
    <3>1. PICK acc : acc = accumLen
      OBVIOUS
    <3>2. acc \in 0 .. C - 1 /\ ~(acc + n < C) /\ accumLen' = acc + n - C
          /\ totalSamplesProcessed + acc = recorded /\ totalSamplesProcessed \in Nat
      BY <1>2, <1>6, <2>1, <3>1
    <3>3. /\ acc + n - C \in 0 .. C - 1 /\ recorded + n \in Nat
          /\ totalSamplesProcessed + C + (acc + n - C) = recorded + n
      BY ONLY <1>3, <2>4, <3>2
    <3>4. QED BY <1>1, <2>1, <3>2, <3>3
  <2>6. VoiceTypes'
    BY <1>1, <2>2, <2>5, Zenon DEF VoiceTypes, C
  <2>7. Listening'
    BY <2>2, <2>3, <2>5 DEF Listening
  <2>8. QED BY <1>4, <2>6, <2>7 DEF VoiceInv
<1>7. QED BY <1>5, <1>6

LEMMA FlushKeeps ==
    ASSUME VoiceInv, Flush, UNCHANGED <<wordSpans, myVoiceSegments>>
    PROVE  VoiceInv'
<1> DEFINE C == NEW_SAMPLES_PER_CHUNK
           Ends(v, p, end) == /\ p \in Seq(Probs) /\ Found(v, p) /\ end = ChunkStart(Len(p) + 1)
                              /\ end \in recorded .. recorded + C - 1
                              /\ SetHysteresis(Closed(v, end))
                              /\ accumLen' = 0 /\ totalSamplesProcessed' = end /\ probs' = p
<1>1. /\ stage = "listening" /\ recorded' = recorded /\ stage' = "flushed"
  BY DEF Flush
<1>2. /\ probs \in Seq(Probs) /\ recorded \in Nat /\ accumLen \in 0 .. C - 1 /\ totalSamplesProcessed \in Nat
      /\ totalSamplesProcessed = ChunkStart(Len(probs) + 1)
      /\ totalSamplesProcessed + accumLen = recorded
      /\ Found(Hysteresis, probs)
      /\ wordSpans = <<>> /\ myVoiceSegments = NoSegments
  BY <1>1 DEF VoiceInv, VoiceTypes, Listening, TextIsOfSaved
<1>3. C \in Nat /\ C # 0
  BY PersonalVadAssumption
<1>4. \E v, p, end : Ends(v, p, end)
  <2>1. CASE accumLen = 0
    <3>1. /\ SetHysteresis(Closed(Hysteresis, totalSamplesProcessed))
          /\ UNCHANGED <<accumLen, totalSamplesProcessed, probs>>
      BY <2>1 DEF Flush
    <3>2. totalSamplesProcessed \in recorded .. recorded + C - 1
      <4> HIDE DEF C
      <4>1. QED BY <1>2, <1>3, <2>1
    <3>3. Ends(Hysteresis, probs, totalSamplesProcessed)
      BY <1>2, <2>1, <3>1, <3>2
    <3> HIDE DEF Ends
    <3>4. QED BY <3>3
  <2>2. CASE accumLen # 0
    <3> DEFINE end == totalSamplesProcessed + C
    <3>1. PICK prob \in Probs :
              /\ SetHysteresis(Closed(updateHysteresis(prob, totalSamplesProcessed), end))
              /\ totalSamplesProcessed' = end
              /\ accumLen' = 0
              /\ probs' = Append(probs, prob)
      BY <2>2 DEF Flush
    <3>2. /\ Append(probs, prob) \in Seq(Probs)
          /\ Found(updateHysteresis(prob, totalSamplesProcessed), Append(probs, prob))
          /\ end = ChunkStart(Len(Append(probs, prob)) + 1)
      BY <1>1, AnsweredMore
    <3>3. end \in recorded .. recorded + C - 1
      <4> HIDE DEF C
      <4>1. accumLen \in 0 .. C - 1 /\ accumLen # 0 /\ totalSamplesProcessed \in Nat
            /\ totalSamplesProcessed + accumLen = recorded
        BY <1>2, <2>2
      <4>2. QED BY ONLY <1>3, <4>1
    <3>4. Ends(updateHysteresis(prob, totalSamplesProcessed), Append(probs, prob), end)
      BY <3>1, <3>2, <3>3
    <3> HIDE DEF Ends
    <3>5. QED BY <3>4
  <2>3. QED BY <2>1, <2>2
<1>5. PICK v, p, end : Ends(v, p, end)
  BY <1>4
<1>6. /\ Settled(Closed(v, end).segments, p) /\ Closed(v, end).in = FALSE /\ Closed(v, end).start = None
      /\ Closed(v, end).hangover \in 0 .. HANGOVER_FRAMES
  BY <1>5, ClosedSettled
<1>7. /\ inMyVoice' = FALSE /\ segmentStart' = None /\ hangoverCount' \in 0 .. HANGOVER_FRAMES
      /\ Settled(segments', probs')
  BY <1>5, <1>6 DEF SetHysteresis
<1>8. totalSamplesProcessed' \in Nat
  BY <1>2, <1>5
<1>9. VoiceTypes'
  <2>1. 0 \in 0 .. NEW_SAMPLES_PER_CHUNK - 1
    BY <1>3
  <2>2. QED BY <1>1, <1>2, <1>5, <1>8, <2>1 DEF VoiceTypes
<1>10. AllHeard'
  BY <1>1, <1>5, <1>7 DEF AllHeard
<1>11. Listening' /\ SegmentsSettled' /\ TextIsOfSaved'
  BY <1>1, <1>2, <1>7 DEF Listening, SegmentsSettled, TextIsOfSaved
<1>12. QED BY <1>9, <1>10, <1>11 DEF VoiceInv

LEMMA SaveKeeps ==
    ASSUME VoiceInv, Save, UNCHANGED <<wordSpans, myVoiceSegments>>
    PROVE  VoiceInv'
<1>1. /\ stage = "flushed" /\ stage' = "saved" /\ savedSegments' = segments /\ accumLen' = 0
      /\ totalSamplesProcessed' = 0 /\ inMyVoice' = FALSE /\ hangoverCount' = 0 /\ segmentStart' = None
      /\ recorded' = recorded /\ probs' = probs
  BY DEF Save
<1>2. 0 \in 0 .. NEW_SAMPLES_PER_CHUNK - 1 /\ 0 \in 0 .. HANGOVER_FRAMES /\ 0 \in Nat
  BY PersonalVadAssumption
<1>3. VoiceTypes'
  BY <1>1, <1>2 DEF VoiceInv, VoiceTypes
<1>4. AllHeard'
  BY <1>1, <1>2 DEF VoiceInv, AllHeard
<1>5. SegmentsSettled' /\ Listening'
  BY <1>1 DEF VoiceInv, SegmentsSettled, Listening
<1>6. TextIsOfSaved'
  BY <1>1 DEF VoiceInv, TextIsOfSaved
<1>7. QED BY <1>3, <1>4, <1>5, <1>6 DEF VoiceInv

LEMMA PvadStays ==
    ASSUME VoiceInv, UNCHANGED pvad_vars, TextIsOfSaved'
    PROVE  VoiceInv'
<1>1. /\ stage' = stage /\ accumLen' = accumLen /\ totalSamplesProcessed' = totalSamplesProcessed
      /\ inMyVoice' = inMyVoice /\ hangoverCount' = hangoverCount /\ segmentStart' = segmentStart
      /\ segments' = segments /\ savedSegments' = savedSegments /\ recorded' = recorded /\ probs' = probs
  BY DEF pvad_vars
<1>2. Hysteresis' = Hysteresis
  BY <1>1 DEF Hysteresis
<1>3. VoiceTypes' /\ Listening' /\ AllHeard' /\ SegmentsSettled'
  BY <1>1, <1>2 DEF VoiceInv, VoiceTypes, Listening, AllHeard, SegmentsSettled
<1>4. QED BY <1>3 DEF VoiceInv

LEMMA TextStays ==
    ASSUME KaraokeInv, UNCHANGED karaoke_vars
    PROVE  KaraokeInv'
<1>1. /\ wordSpans' = wordSpans /\ charSpans' = charSpans /\ gray' = gray /\ position' = position
      /\ myVoiceSegments' = myVoiceSegments /\ lastHighlightIndex' = lastHighlightIndex
  BY DEF karaoke_vars
<1>2. QED BY <1>1 DEF KaraokeInv, KaraokeTypes, Placed, Shown

LEMMA VoiceInductive == VoiceIInv /\ [Next]_vars => VoiceIInv'
<1> SUFFICES ASSUME VoiceInv, KaraokeInv, [Next]_vars PROVE VoiceInv' /\ KaraokeInv'
  BY DEF VoiceIInv
<1>1. CASE UNCHANGED <<pvad_vars, karaoke_vars>>
  <2>1. UNCHANGED pvad_vars /\ UNCHANGED karaoke_vars
    BY <1>1
  <2>2. TextIsOfSaved'
    BY <2>1 DEF VoiceInv, TextIsOfSaved, pvad_vars, karaoke_vars
  <2>3. QED BY <2>1, <2>2, PvadStays, TextStays
<1>2. CASE PersonalVadNext /\ UNCHANGED karaoke_vars
  <2>1. UNCHANGED <<wordSpans, myVoiceSegments>> /\ UNCHANGED karaoke_vars
    BY <1>2 DEF karaoke_vars
  <2>2. CASE \E n \in 1 .. NEW_SAMPLES_PER_CHUNK : Process(n)
    BY <2>1, <2>2, ProcessKeeps, TextStays
  <2>3. CASE Flush
    BY <2>1, <2>3, FlushKeeps, TextStays
  <2>4. CASE Save
    BY <2>1, <2>4, SaveKeeps, TextStays
  <2>5. QED BY <1>2, <2>2, <2>3, <2>4 DEF PersonalVadNext
<1>3. CASE Open
  <2>1. PICK file \in WordLists, segs \in {savedSegments, NoSegments} : Load(file, segs)
    BY <1>3 DEF Open
  <2>2. stage = "saved" /\ UNCHANGED pvad_vars
    BY <1>3 DEF Open
  <2>3. KaraokeInv'
    BY <2>1, LoadKeeps
  <2>4. TextIsOfSaved'
    <3>1. myVoiceSegments' = segs /\ stage' = stage /\ savedSegments' = savedSegments
      BY <2>1, <2>2 DEF Load, pvad_vars
    <3>2. QED BY <2>1, <2>2, <3>1 DEF TextIsOfSaved
  <2>5. QED BY <2>2, <2>3, <2>4, PvadStays
<1>4. CASE stage = "saved" /\ Playing /\ UNCHANGED pvad_vars
  <2>1. CASE \E ms \in 0 .. MaxTime : ShowPosition(ms)
    <3>1. PICK ms \in 0 .. MaxTime : ShowPosition(ms)
      BY <2>1
    <3>2. ms \in Nat
      BY <3>1, KaraokeAssumption
    <3>3. KaraokeInv' /\ UNCHANGED <<wordSpans, myVoiceSegments>>
      BY <3>1, <3>2, ShowPositionKeeps DEF ShowPosition
    <3>4. TextIsOfSaved'
      BY <1>4, <3>3 DEF VoiceInv, TextIsOfSaved, pvad_vars
    <3>5. QED BY <1>4, <3>3, <3>4, PvadStays
  <2>2. CASE \E offset \in 0 .. TextLength : Tap(offset)
    <3>1. PICK offset \in 0 .. TextLength : Tap(offset)
      BY <2>2
    <3>2. offset \in Nat
      BY OffsetsAre DEF KaraokeInv
    <3>3. KaraokeInv'
      BY <3>1, <3>2, TapKeeps
    <3>4. UNCHANGED <<wordSpans, myVoiceSegments>>
      BY <3>1 DEF Tap, ShowPosition, karaoke_vars
    <3>5. TextIsOfSaved'
      BY <1>4, <3>4 DEF VoiceInv, TextIsOfSaved, pvad_vars
    <3>6. QED BY <1>4, <3>3, <3>5, PvadStays
  <2>3. QED BY <1>4, <2>1, <2>2 DEF Playing
<1>5. CASE UNCHANGED vars
  BY <1>1, <1>5 DEF vars
<1>6. QED BY <1>1, <1>2, <1>3, <1>4, <1>5 DEF Next, One

LEMMA VoiceAlways == Spec => []VoiceIInv
<1>1. Init => VoiceIInv
  BY VoiceInitially, KaraokeInitially DEF Init, VoiceIInv
<1>2. QED BY <1>1, VoiceInductive, PTL DEF Spec

LEMMA VoiceShown == VoiceIInv => VoiceFromAudioToText
<1> SUFFICES ASSUME VoiceInv, KaraokeInv PROVE VoiceFromAudioToText
  BY DEF VoiceIInv
<1>1. VoiceTypes /\ Listening /\ AllHeard /\ SegmentsSettled /\ TextIsOfSaved
  BY DEF VoiceInv
<1>2. /\ stage \in {"listening", "flushed", "saved"} /\ probs \in Seq(Probs) /\ recorded \in Nat
      /\ accumLen \in 0 .. NEW_SAMPLES_PER_CHUNK - 1 /\ DOMAIN probs = 1 .. Len(probs)
  BY <1>1 DEF VoiceTypes
<1>3. NEW_SAMPLES_PER_CHUNK \in Nat /\ NEW_SAMPLES_PER_CHUNK # 0
  BY PersonalVadAssumption
<1>4. TypeOK
  <2>1. (inMyVoice <=> segmentStart # None) /\ hangoverCount \in 0 .. HANGOVER_FRAMES
    <3>1. CASE stage = "listening"
      <4>1. HystTypes(Hysteresis, probs)
        BY <1>1, <3>1 DEF Listening, Found
      <4>2. /\ Hysteresis.in = inMyVoice /\ Hysteresis.start = segmentStart
            /\ Hysteresis.hangover = hangoverCount
        BY DEF Hysteresis
      <4>3. QED BY <4>1, <4>2 DEF HystTypes
    <3>2. CASE stage # "listening"
      BY <1>1, <3>2 DEF AllHeard
    <3>3. QED BY <3>1, <3>2
  <2>2. /\ gray \subseteq DOMAIN charSpans /\ lastHighlightIndex \in 0 .. Len(charSpans)
        /\ wordSpans # <<>> => Len(charSpans) = Len(wordSpans)
    BY DEF KaraokeInv, KaraokeTypes, Shown
  <2>3. QED BY <1>2, <2>1, <2>2 DEF TypeOK
<1>5. SegmentsAreVoice
  <2>1. SUFFICES ASSUME stage = "saved"
                 PROVE  /\ \A i \in DOMAIN probs : Covers(savedSegments, ChunkStart(i)) <=> IsVoice(i)
                        /\ \A k \in DOMAIN savedSegments :
                              /\ savedSegments[k][1] < savedSegments[k][2]
                              /\ k > 1 => savedSegments[k - 1][2] < savedSegments[k][1]
    BY DEF SegmentsAreVoice
  <2>2. Settled(savedSegments, probs)
    BY <1>1, <2>1 DEF SegmentsSettled
  <2>3. \A i \in DOMAIN probs : Covers(savedSegments, ChunkStart(i)) <=> IsVoice(i)
    BY <1>2, <2>2, IsVoiced DEF Settled
  <2>4. Apart(savedSegments) /\ DOMAIN savedSegments = 1 .. Len(savedSegments) /\ Len(savedSegments) \in Nat
    BY <2>2 DEF Settled
  <2>5. ASSUME NEW k \in DOMAIN savedSegments
        PROVE  /\ savedSegments[k][1] < savedSegments[k][2]
               /\ k > 1 => savedSegments[k - 1][2] < savedSegments[k][1]
    <3>1. k > 1 => k - 1 \in DOMAIN savedSegments /\ k - 1 < k
      BY <2>4
    <3>2. QED BY <2>4, <3>1 DEF Apart
  <2>6. QED BY <2>3, <2>5
<1>6. AllAudioAnswered
  <2>1. ASSUME stage = "listening"
        PROVE  totalSamplesProcessed + accumLen = recorded /\ accumLen < NEW_SAMPLES_PER_CHUNK
    BY <1>1, <1>2, <1>3, <2>1 DEF Listening
  <2>2. ASSUME stage = "saved"
        PROVE  /\ Len(probs) * NEW_SAMPLES_PER_CHUNK \in recorded .. recorded + NEW_SAMPLES_PER_CHUNK - 1
               /\ \A k \in DOMAIN savedSegments :
                     savedSegments[k][2] < recorded + NEW_SAMPLES_PER_CHUNK
    <3>1. PICK t : t = ChunkStart(Len(probs) + 1)
      OBVIOUS
    <3>2. t \in recorded .. recorded + NEW_SAMPLES_PER_CHUNK - 1
      BY <1>1, <2>2, <3>1 DEF AllHeard
    <3>3. Len(probs) * NEW_SAMPLES_PER_CHUNK = t
      BY <1>2, <3>1, ChunkTimes
    <3>4. savedSegments \in Seq(Borders(probs) \X Borders(probs))
      BY <1>1, <2>2 DEF SegmentsSettled, Settled
    <3>5. ASSUME NEW k \in DOMAIN savedSegments
          PROVE  savedSegments[k][2] < recorded + NEW_SAMPLES_PER_CHUNK
      <4>1. savedSegments[k] \in Borders(probs) \X Borders(probs)
        BY <3>4
      <4>2. PICK b : b = savedSegments[k][2]
        OBVIOUS
      <4>3. b \in Int /\ b <= t
        BY <1>2, <3>1, <4>1, <4>2, BordersOf
      <4>4. b < recorded + NEW_SAMPLES_PER_CHUNK
        BY ONLY <1>2, <1>3, <3>2, <4>3
      <4>5. QED BY <4>2, <4>4
    <3>6. QED BY <3>2, <3>3, <3>5
  <2>3. QED BY <2>1, <2>2 DEF AllAudioAnswered
<1>7. MyWordsAreBlack
  <2>1. SUFFICES ASSUME myVoiceSegments # NoSegments, wordSpans # <<>>, NEW i \in DOMAIN wordSpans,
                        wordSpans[i].w # "newline", wordSpans[i].s < wordSpans[i].e
                 PROVE  i \in gray <=>
                          \A k \in DOMAIN probs :
                              IsVoice(k) => \/ wordSpans[i].e <= ChunkStart(k)
                                            \/ ChunkStart(k + 1) <= wordSpans[i].s
    BY DEF MyWordsAreBlack
  <2>2. stage = "saved" /\ myVoiceSegments = savedSegments
    BY <1>1, <2>1 DEF TextIsOfSaved
  <2>3. Settled(myVoiceSegments, probs)
    BY <1>1, <2>2 DEF SegmentsSettled
  <2>4. gray = Gray(wordSpans, myVoiceSegments) /\ wordSpans \in Seq(Words)
    BY <2>1 DEF KaraokeInv, KaraokeTypes, Shown
  <2>5. i \in Gray(wordSpans, myVoiceSegments) <=>
           \A k \in DOMAIN probs : Voiced(probs, k) =>
               wordSpans[i].e <= ChunkStart(k) \/ ChunkStart(k + 1) <= wordSpans[i].s
    BY <1>2, <2>1, <2>3, <2>4, GrayWords
  <2>6. QED BY <2>4, <2>5, IsVoiced
<1>8. QED BY <1>4, <1>5, <1>6, <1>7 DEF VoiceFromAudioToText

\* Of every recording made with an enrolled speaker all samples are answered for,
\* the saved segments are in order and cover exactly the chunks that are the
\* speaker's, and of every text shown with them exactly the words of those chunks
\* are black: PersonalVadProcessor and KaraokeController together.
THEOREM SpeakersWordsAreBlack == Spec => []VoiceFromAudioToText
BY VoiceAlways, VoiceShown, PTL

\* After every step of a text on the screen the highlight is that of the position
\* alone, whatever came before, and a tap has found the word that was touched.
THEOREM TextFollowsTheSound == Spec => TextAndSoundAgree
<1>1. VoiceIInv => HighlightFollowsPosition
  BY HighlightFollows DEF VoiceIInv
<1>2. VoiceIInv /\ VoiceIInv' => TapFindsWord
  BY TapFinds DEF VoiceIInv
<1>3. HighlightFollowsPosition' /\ TapFindsWord => [HighlightFollowsPosition' /\ TapFindsWord]_karaoke_vars
  OBVIOUS
<1>4. QED BY <1>1, <1>2, <1>3, VoiceAlways, PTL DEF TextAndSoundAgree
=================================================================================
