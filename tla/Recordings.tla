------------------------------- MODULE Recordings -------------------------------
(***************************************************************************)
(* The recordings on disk and the screens of MainActivity that list, open, *)
(* rename, delete, search and summarise them, while a recording may be     *)
(* going on.  A recording is a directory (RecordingManager.java); its name *)
(* is all that the screens, the session and the background threads keep of *)
(* it, and names change.                                                   *)
(*                                                                         *)
(* A text, its details and a summary are the recording they are of.  What  *)
(* a search finds is a free choice.  A dialog is modal: what is posted to  *)
(* the UI thread runs beneath it, the user acts on it only.                *)
(***************************************************************************)
EXTENDS Integers, Sequences, FiniteSets, Functions

CONSTANTS Names,        \* of directories
          Old,          \* those there may be at the start
          NoFile,       \* no such file, or null
          MaxActions    \* bound: acts of the user

ASSUME RecordingsAssumption ==
    /\ Old \subseteq Names /\ IsFiniteSet(Old)
    /\ NoFile \notin Names /\ MaxActions \in Nat

VARIABLES
    disk,         \* name -> what is in the directory
    made,         \* history: the names recordings were made under, which stand for them
    startRecord,
    input_finished, \* Recognize.setInputFinished() has been called since the last Record
    asr,          \* how many ASR threads have not saved yet
    posted,       \* their last runnables: the names
    heard,        \* the recordings whose sound the threads of recognition may have
    currentRecordingName,
    currentPlaybackRecording,
    timestampedResult, summaryResult,
    textView,     \* the recording whose text is on the screen
    editable,     \* is the text an Editable, as the live text has to be?
    shownWords,    \* the recording whose words karaokeController has
    player,       \* the recording in playbackController.player
    listener,     \* the name playbackController.listener was made for
    opening,      \* threads of PlaybackController.prepare: the names
    ready,        \* their runnables: the recordings opened
    asked,        \* the text a summary is asked of
    ui,           \* what the user is in: "main", "list", "menu", "progress", "answered"
    allNames, displayList,
    hidden,       \* the list is not shown while a search runs
    menu,         \* the item long-pressed: [name, pos]
    detailCache, loadingSet,
    loads,        \* tasks of the executor: [name, done, text]
    searches,     \* of each search whose results are not yet shown: the names it could find at its start
    actions,      \* acts of the user so far
    confirmed,    \* history: recordings whose deletion was confirmed
    mishaps       \* history

sessionVars == <<made, startRecord, input_finished, asr, posted, heard, currentRecordingName>>
textVars == <<timestampedResult, textView, editable, shownWords>>
prepareVars == <<listener, opening, ready>>
summaryVars == <<summaryResult, asked>>
detailVars == <<detailCache, loadingSet, loads>>
listVars == <<allNames, displayList, hidden, menu, searches, detailVars>>
historyVars == <<actions, confirmed, mishaps>>
recordings_vars == <<disk, sessionVars, currentPlaybackRecording, textVars, player, prepareVars, summaryVars,
          ui, listVars, historyVars>>

Empty == [n \in {} |-> NoFile]
Directory(rec) == [rec |-> rec, result |-> rec, summary |-> NoFile]

RecordingsInit ==
    /\ made \in SUBSET Old
    /\ disk = [n \in made |-> Directory(n)]
    /\ startRecord = FALSE /\ input_finished = FALSE
    /\ asr = 0 /\ posted = <<>> /\ heard = {}
    /\ currentRecordingName = NoFile /\ currentPlaybackRecording = NoFile
    /\ timestampedResult = NoFile /\ summaryResult = NoFile
    /\ textView = NoFile /\ editable = TRUE /\ shownWords = NoFile
    /\ player = NoFile /\ listener = NoFile /\ opening = <<>> /\ ready = <<>>
    /\ asked = NoFile
    /\ ui = "main"
    /\ allNames = <<>> /\ displayList = <<>> /\ hidden = FALSE /\ menu = NoFile /\ searches = <<>>
    /\ detailCache = Empty /\ loadingSet = {} /\ loads = {}
    /\ actions \in 0 .. MaxActions /\ confirmed = {} /\ mishaps = {}

\* The user does something on the screen that is on top; to leave a dialog or to
\* choose in a menu is not counted.
Act(screen) ==
    /\ ui = screen
    /\ actions < MaxActions
    /\ actions' = actions + 1

Exists(name) == name \in DOMAIN disk

\* result.json of a directory; one without words is like none.
Result(name) == IF Exists(name) THEN disk[name].result ELSE NoFile

Put(f, x, v) == [y \in DOMAIN f \cup {x} |-> IF y = x THEN v ELSE f[y]]
Without(f, x) == Restrict(f, DOMAIN f \ {x})
RemovedAt(s, i) == SubSeq(s, 1, i - 1) \o SubSeq(s, i + 1, Len(s))

Note(whats) == mishaps' = mishaps \cup whats
When(what, happens) == IF happens THEN {what} ELSE {}
--------------------------------------------------------------------------------
(***************************************************************************)
(* Playback.                                                               *)
(***************************************************************************)
Busy == opening # <<>> \/ ready # <<>>

\* A session's threads are not done, or their last runnable is not.
Recognizing == asr # 0 \/ posted # <<>>

\* enterPlaybackMode, up to the thread of PlaybackController.prepare.
EnterPlaybackMode(name) ==
    /\ Note(When("overtaken", Busy) \cup When("notOpened", ~Exists(name)))
    /\ summaryResult' = IF Exists(name) THEN disk[name].summary ELSE NoFile
    /\ currentPlaybackRecording' = name
    /\ IF Exists(name)
       THEN listener' = name /\ opening' = Append(opening, name)
       ELSE UNCHANGED <<listener, opening>>

\* The threads open their files in any order, by the paths they were given.
OpenFile ==
    /\ \E i \in DOMAIN opening :
         /\ opening' = RemovedAt(opening, i)
         /\ \/ /\ Exists(opening[i])
               /\ ready' = Append(ready, disk[opening[i]].rec)
               /\ UNCHANGED mishaps
            \/ Note({"notOpened"}) /\ UNCHANGED ready
    /\ UNCHANGED <<disk, sessionVars, currentPlaybackRecording, textVars, player, listener,
                   summaryVars, ui, listVars, actions, confirmed>>

\* Mutant: the text that is copied and summarised is left as it is.
Mut_TextStays(name) ==
    /\ shownWords' = Result(name)
    /\ textView' = IF Result(name) = NoFile THEN textView ELSE Result(name)
    /\ editable' = (editable /\ Result(name) = NoFile)
    /\ UNCHANGED timestampedResult

\* enterPlaybackModeWithOgg: a text without words leaves the screen as it is; one
\* with words is a Spannable.
ShowWords(name) ==
    /\ shownWords' = Result(name)
    /\ timestampedResult' = Result(name)
    /\ textView' = IF Result(name) = NoFile THEN textView ELSE Result(name)
    /\ editable' = (editable /\ Result(name) = NoFile)

\* Mutant: a player that is there is kept.
Mut_PlayerKept ==
    /\ ready # <<>>
    /\ ready' = Tail(ready)
    /\ player' = IF player = NoFile THEN Head(ready) ELSE player
    /\ ShowWords(listener)
    /\ UNCHANGED <<disk, sessionVars, currentPlaybackRecording, listener, opening, summaryVars, ui,
                   listVars, historyVars>>

\* The runnable of a prepare: its player is taken, and onReady is called of
\* whichever listener there is by then.
Ready ==
    /\ ready # <<>>
    /\ ready' = Tail(ready)
    /\ player' = Head(ready)
    /\ ShowWords(listener)
    /\ UNCHANGED <<disk, sessionVars, currentPlaybackRecording, listener, opening, summaryVars, ui,
                   listVars, historyVars>>
--------------------------------------------------------------------------------
(***************************************************************************)
(* A recording.                                                            *)
(***************************************************************************)
\* The Record button.  A directory's name is the time, never given before.  The
\* button is on when a recorder thread could not record, which makes startRecord
\* FALSE at once, and when a runnable of the last session turns it on after Stop:
\* then that session's threads are alive, what they still hear goes to this one, and
\* a live text that is posted by then has no place in the text that is cleared here.
Record ==
    /\ Act("main")
    /\ ~startRecord
    /\ \E n \in Names \ (made \cup DOMAIN disk) :
         /\ disk' = Put(disk, n, [Directory(n) EXCEPT !.result = NoFile])
         /\ made' = made \cup {n}
         /\ currentRecordingName' = n
         /\ heard' = IF Recognizing THEN heard \cup {n} ELSE {n}
    /\ startRecord' \in BOOLEAN
    /\ input_finished' = FALSE
    /\ asr' = asr + 1
    /\ player' = NoFile
    /\ textView' = NoFile /\ editable' = TRUE
    /\ \/ ui' = "main"
       \/ Recognizing /\ ui' = "crashed"
    /\ Note(When("overtaken", Busy) \cup When("overlapped", Recognizing))
    /\ UNCHANGED <<posted, currentPlaybackRecording, timestampedResult, shownWords, prepareVars,
                   summaryVars, listVars, confirmed>>

Stop ==
    /\ Act("main")
    /\ startRecord
    /\ startRecord' = FALSE
    /\ input_finished' = TRUE
    /\ UNCHANGED <<disk, made, asr, posted, heard, currentRecordingName, currentPlaybackRecording,
                   textVars, player, prepareVars, summaryVars, ui, listVars, confirmed, mishaps>>

\* updateLiveDisplayIncremental: its runnable comes before the thread's last one.
Display ==
    /\ Recognizing
    /\ editable
    /\ textView' \in heard
    /\ UNCHANGED <<disk, sessionVars, currentPlaybackRecording, timestampedResult, editable,
                   shownWords, player, prepareVars, summaryVars, ui, listVars, historyVars>>

\* An ASR thread is done after Stop; one of an earlier session may find the decode
\* thread of that one done before.
AsrEnds ==
    /\ \/ ~startRecord /\ input_finished /\ asr # 0
       \/ asr > 1
    /\ asr' = asr - 1
    /\ posted' = Append(posted, currentRecordingName)

\* Mutant: the result is written where the recording that is played is.
Mut_SavedWherePlayed ==
    /\ AsrEnds
    /\ disk' = IF Exists(currentPlaybackRecording)
               THEN [disk EXCEPT ![currentPlaybackRecording].result = currentRecordingName]
               ELSE disk
    /\ timestampedResult' = currentRecordingName
    /\ UNCHANGED <<made, startRecord, input_finished, heard, currentRecordingName,
                   currentPlaybackRecording, textView, editable, shownWords, player, prepareVars,
                   summaryVars, ui, listVars, historyVars>>

\* The ASR thread at the end of recognition.  There may be no words; where their
\* times cannot be had the text may.  A directory that is gone gives an exception
\* that is only logged.
SaveTimedResult ==
    /\ AsrEnds
    /\ \E words \in {NoFile} \cup heard :
         /\ disk' = IF Exists(currentRecordingName)
                    THEN [disk EXCEPT ![currentRecordingName].result = words]
                    ELSE disk
         /\ timestampedResult' \in {words} \cup heard
    /\ UNCHANGED <<made, startRecord, input_finished, heard, currentRecordingName,
                   currentPlaybackRecording, textView, editable, shownWords, player, prepareVars,
                   summaryVars, ui, listVars, historyVars>>

\* Its last runnable.
Finished ==
    /\ posted # <<>>
    /\ posted' = Tail(posted)
    /\ EnterPlaybackMode(Head(posted))
    /\ UNCHANGED <<disk, made, startRecord, input_finished, asr, heard, currentRecordingName,
                   textVars, player, ready, asked, ui, listVars, actions, confirmed>>
--------------------------------------------------------------------------------
(***************************************************************************)
(* The summary.                                                            *)
(***************************************************************************)
\* The text of the screen, of whichever recording it is, is sent; a dialog
\* that cannot be left stands until the answer.
RequestSummary ==
    LET text == IF timestampedResult # NoFile THEN timestampedResult ELSE textView
    IN  /\ Act("main")
        /\ summaryResult = NoFile
        /\ text # NoFile
        /\ asked' = text
        /\ ui' = "progress"
        /\ Note(When("askedEarly", Busy \/ Recognizing)
                \cup When("noWords", Result(currentPlaybackRecording) = NoFile))
        /\ UNCHANGED <<disk, sessionVars, currentPlaybackRecording, textVars, player, prepareVars,
                       summaryResult, listVars, confirmed>>

\* The thread puts the answer, unless it is an error's text, into the directory
\* that is played by then.
SaveSummary ==
    LET name == currentPlaybackRecording
    IN  /\ ui = "progress"
        /\ ui' = "answered"
        /\ \/ disk' = IF Exists(name) THEN [disk EXCEPT ![name].summary = asked] ELSE disk
           \/ UNCHANGED disk
        /\ UNCHANGED <<sessionVars, currentPlaybackRecording, textVars, player, prepareVars,
                       summaryVars, listVars, historyVars>>

\* Its runnable.
ShowSummary ==
    /\ ui = "answered"
    /\ ui' = "main"
    /\ summaryResult' = asked
    /\ asked' = NoFile
    /\ UNCHANGED <<disk, sessionVars, currentPlaybackRecording, textVars, player, prepareVars, listVars,
                   historyVars>>

\* Cancelled before it is sent, or the connection failed.
NoSummary ==
    /\ ui = "progress"
    /\ asked' = NoFile
    /\ ui' = "main"
    /\ UNCHANGED <<disk, sessionVars, currentPlaybackRecording, textVars, player, prepareVars,
                   summaryResult, listVars, historyVars>>
--------------------------------------------------------------------------------
(***************************************************************************)
(* The list.                                                               *)
(***************************************************************************)
Listing(s) == {s[i] : i \in DOMAIN s}
Orders(S) == {s \in [1 .. Cardinality(S) -> S] : Listing(s) = S}

CloseList ==
    /\ allNames' = <<>> /\ displayList' = <<>> /\ hidden' = FALSE /\ menu' = NoFile /\ searches' = <<>>
    /\ detailCache' = Empty /\ loadingSet' = {} /\ loads' = {}

\* showRecordingsDialog; the order of the names is that of the directories.
ShowList ==
    /\ Act("main")
    /\ disk # Empty
    /\ allNames' = CHOOSE s \in Orders(DOMAIN disk) : TRUE
    /\ displayList' = allNames'
    /\ ui' = "list"
    /\ UNCHANGED <<disk, sessionVars, currentPlaybackRecording, textVars, player, prepareVars,
                   summaryVars, hidden, menu, searches, detailVars, confirmed, mishaps>>

\* getView of an item without details starts a task to read them, once a name.
View ==
    /\ ui \in {"list", "menu"} /\ ~hidden
    /\ \E name \in Listing(displayList) \ (DOMAIN detailCache \cup loadingSet) :
         /\ loadingSet' = loadingSet \cup {name}
         /\ loads' = loads \cup {[name |-> name, done |-> FALSE, text |-> NoFile]}
    /\ UNCHANGED <<disk, sessionVars, currentPlaybackRecording, textVars, player, prepareVars,
                   summaryVars, ui, allNames, displayList, hidden, menu, searches, detailCache,
                   historyVars>>

ReadDetails ==
    /\ \E l \in loads :
         /\ ~l.done
         /\ loads' = (loads \ {l}) \cup {[l EXCEPT !.done = TRUE, !.text = Result(l.name)]}
    /\ UNCHANGED <<disk, sessionVars, currentPlaybackRecording, textVars, player, prepareVars,
                   summaryVars, ui, allNames, displayList, hidden, menu, searches, detailCache,
                   loadingSet, historyVars>>

\* Mutant: an answer for an item that is not shown is thrown away.
Mut_PutIfShown ==
    /\ \E l \in loads :
         /\ l.done
         /\ loads' = loads \ {l}
         /\ detailCache' = IF l.name \in Listing(displayList)
                           THEN Put(detailCache, l.name, l.text) ELSE detailCache
    /\ UNCHANGED <<disk, sessionVars, currentPlaybackRecording, textVars, player, prepareVars,
                   summaryVars, ui, allNames, displayList, hidden, menu, searches, loadingSet,
                   historyVars>>

PutDetails ==
    /\ \E l \in loads :
         /\ l.done
         /\ loads' = loads \ {l}
         /\ detailCache' = Put(detailCache, l.name, l.text)
    /\ UNCHANGED <<disk, sessionVars, currentPlaybackRecording, textVars, player, prepareVars,
                   summaryVars, ui, allNames, displayList, hidden, menu, searches, loadingSet,
                   historyVars>>

Gone(names) == \E i \in DOMAIN names : ~Exists(names[i])

\* An empty keyword brings the names of the beginning back, at once.
SearchNothing ==
    /\ Act("list")
    /\ displayList' = allNames
    /\ Note(When("gone", Gone(allNames)))
    /\ UNCHANGED <<disk, sessionVars, currentPlaybackRecording, textVars, player, prepareVars,
                   summaryVars, ui, allNames, hidden, menu, searches, detailVars, confirmed>>

\* What a search goes through: the details that are cached, or result.json.
Findable == {n \in Listing(allNames) : n \in DOMAIN detailCache \/ Result(n) # NoFile}

Search ==
    /\ Act("list")
    /\ searches' = Append(searches, Findable)
    /\ hidden' = TRUE
    /\ UNCHANGED <<disk, sessionVars, currentPlaybackRecording, textVars, player, prepareVars,
                   summaryVars, ui, allNames, displayList, menu, detailVars, confirmed, mishaps>>

Place(name) == CHOOSE i \in DOMAIN allNames : allNames[i] = name
InOrder(names) ==
    {s \in Orders(names) : \A i, j \in DOMAIN s : i < j => Place(s[i]) < Place(s[j])}

\* The thread of a search goes through the names of the beginning, and what it
\* finds replaces the list, whatever the user is doing with it.
ShowResults ==
    /\ hidden' = FALSE
    /\ \E i \in DOMAIN searches : \E found \in SUBSET (searches[i] \cup Findable) :
         /\ searches' = RemovedAt(searches, i)
         /\ displayList' \in InOrder(found)
         /\ Note(When("gone", Gone(displayList')) \cup When("underMenu", ui = "menu"))
    /\ UNCHANGED <<disk, sessionVars, currentPlaybackRecording, textVars, player, prepareVars,
                   summaryVars, ui, allNames, menu, detailVars, actions, confirmed>>

\* An item is tapped: the player is released, the executor shut down.
TapItem ==
    /\ Act("list") /\ ~hidden
    /\ \E pos \in DOMAIN displayList : EnterPlaybackMode(displayList[pos])
    /\ player' = NoFile
    /\ ui' = "main"
    /\ CloseList
    /\ UNCHANGED <<disk, sessionVars, textVars, ready, asked, confirmed>>

Cancel ==
    /\ ui = "list"
    /\ ui' = "main"
    /\ CloseList
    /\ UNCHANGED <<disk, sessionVars, currentPlaybackRecording, textVars, player, prepareVars,
                   summaryVars, historyVars>>

LongPress ==
    /\ Act("list") /\ ~hidden
    /\ \E pos \in DOMAIN displayList : menu' = [name |-> displayList[pos], pos |-> pos]
    /\ ui' = "menu"
    /\ UNCHANGED <<disk, sessionVars, currentPlaybackRecording, textVars, player, prepareVars,
                   summaryVars, allNames, displayList, hidden, searches, detailVars, confirmed,
                   mishaps>>

\* Mutant: the list on the screen is not changed.
Mut_ListStays(list) == UNCHANGED displayList /\ ui' = "list"

\* The list has changed at pos, or the list is shorter by now and the app ends.
Changed(list) ==
    IF menu.pos \in DOMAIN displayList
    THEN displayList' = list /\ ui' = "list"
    ELSE UNCHANGED displayList /\ ui' = "crashed"

\* A directory that a session or a player was given by name changes under it.
Moves(name) ==
    When("moved", (Recognizing /\ name = currentRecordingName) \/ Busy)

\* Mutant: a name that is taken is not refused.
Mut_RenameOver(name, newName) ==
    /\ Exists(name)
    /\ disk' = Put(Without(disk, name), newName, disk[name])

\* RecordingManager.renameRecording, where it succeeds.
RenameRecording(name, newName) ==
    /\ Exists(name) /\ ~Exists(newName)
    /\ disk' = Put(Without(disk, name), newName, disk[name])

Current(name, other) ==
    currentPlaybackRecording' = IF currentPlaybackRecording = name THEN other
                                ELSE currentPlaybackRecording

\* Mutant: the details are moved to a name that was not asked for.
Mut_Rename ==
    /\ ui = "menu"
    /\ \E newName \in Names \ {menu.name} :
         /\ RenameRecording(menu.name, newName)
         /\ Changed([displayList EXCEPT ![menu.pos] = newName])
         /\ detailCache' = IF menu.name \in DOMAIN detailCache
                           THEN Put(detailCache, newName, detailCache[menu.name]) ELSE detailCache
         /\ Current(menu.name, newName)
         /\ Note(Moves(menu.name) \cup When("nameReused", newName \in loadingSet))
    /\ menu' = NoFile
    /\ UNCHANGED <<sessionVars, textVars, player, prepareVars, summaryVars, allNames, hidden,
                   searches, loadingSet, loads, actions, confirmed>>

Rename ==
    /\ ui = "menu"
    /\ \E newName \in Names \ {menu.name} :
         /\ RenameRecording(menu.name, newName)
         /\ Changed([displayList EXCEPT ![menu.pos] = newName])
         /\ detailCache' = Without(detailCache, menu.name)
         /\ Current(menu.name, newName)
         /\ Note(Moves(menu.name) \cup When("nameReused", newName \in loadingSet))
    /\ menu' = NoFile
    /\ UNCHANGED <<sessionVars, textVars, player, prepareVars, summaryVars, allNames, hidden,
                   searches, loadingSet, loads, actions, confirmed>>

\* A rename that is refused, or either dialog cancelled.
LeaveMenu ==
    /\ ui = "menu"
    /\ menu' = NoFile
    /\ ui' = "list"
    /\ UNCHANGED <<disk, sessionVars, currentPlaybackRecording, textVars, player, prepareVars,
                   summaryVars, allNames, displayList, hidden, searches, detailVars, historyVars>>

Delete ==
    /\ ui = "menu"
    /\ disk' = Without(disk, menu.name)
    /\ confirmed' = confirmed \cup {disk[n].rec : n \in DOMAIN disk \cap {menu.name}}
    /\ Changed(RemovedAt(displayList, menu.pos))
    /\ detailCache' = Without(detailCache, menu.name)
    /\ Current(menu.name, NoFile)
    /\ Note(Moves(menu.name))
    /\ menu' = NoFile
    /\ UNCHANGED <<sessionVars, textVars, player, prepareVars, summaryVars, allNames, hidden,
                   searches, loadingSet, loads, actions>>

\* A change at a position that is no longer there ends the app.
RecordingsNext ==
    /\ ui # "crashed"
    /\ \/ OpenFile \/ Ready
       \/ Record \/ Stop \/ Display \/ SaveTimedResult \/ Finished
       \/ RequestSummary \/ SaveSummary \/ ShowSummary \/ NoSummary
       \/ ShowList \/ View \/ ReadDetails \/ PutDetails \/ SearchNothing \/ Search \/ ShowResults
       \/ TapItem \/ Cancel \/ LongPress \/ Rename \/ LeaveMenu \/ Delete

RecordingsSpec == RecordingsInit /\ [][RecordingsNext]_recordings_vars
--------------------------------------------------------------------------------
(***************************************************************************)
(* Properties.  Each names the mishaps that break it: without them no      *)
(* sequence of acts and no order of the threads does.                      *)
(***************************************************************************)
Never(whats) == mishaps \cap whats = {}

RecordingsTypeOK ==
    /\ DOMAIN disk \subseteq Names
    /\ \A n \in DOMAIN disk : disk[n] \in [rec : made, result : made \cup {NoFile}, summary : made \cup {NoFile}]
    /\ startRecord => asr # 0
    /\ ui \in {"main", "list", "menu", "progress", "answered", "crashed"}
    /\ ui \in {"progress", "answered"} <=> asked # NoFile
    /\ ui # "menu" => menu = NoFile
    /\ DOMAIN detailCache \subseteq loadingSet

\* Every recording made is on disk under one name, unless its own deletion was
\* confirmed: no renaming hides one, and what is deleted is what the dialog named.
NothingVanishes ==
    \A rec \in made :
        Cardinality({n \in DOMAIN disk : disk[n].rec = rec}) = IF rec \in confirmed THEN 0 ELSE 1

\* A result is in the directory of its own recording, unless that was renamed or
\* deleted while it was recorded: it is then lost, or written over another's; or
\* the next recording had begun before this one's result was saved.
ResultIsOfItsRecording ==
    Never({"moved", "overlapped"}) => \A n \in DOMAIN disk : disk[n].result \in {NoFile, disk[n].rec}

\* The words are those of the audio, unless a recording was opened while another
\* was on its way, a directory was renamed meanwhile, or two sessions overlapped.
AudioMatchesWords ==
    player # NoFile /\ Never({"overtaken", "moved", "overlapped"}) => shownWords \in {NoFile, player}

\* A summary is kept with the recording it is of, provided that it was asked for
\* with the recording opened, with words, and none being made, and that words are
\* their recording's own.
SummaryIsOfItsRecording ==
    Never({"askedEarly", "noWords", "notOpened", "moved", "overlapped"})
      => \A n \in DOMAIN disk : disk[n].summary \in {NoFile, disk[n].rec}

\* The details of an item are those of the recording of that name, or will be:
\* late answers are not taken for another's, as long as no name is used again
\* and no recording is renamed, or the next begun, while it is made.
DetailsAreOfTheName ==
    Never({"nameReused", "moved", "overlapped"}) =>
      \A n \in DOMAIN disk \cap loadingSet :
        IF n \in DOMAIN detailCache THEN detailCache[n] \in {NoFile, disk[n].rec}
        ELSE \E l \in loads : l.name = n

\* The list names what is there and no position in it is out of range, unless a
\* search has brought back names that are gone, or answered while a menu was open.
\* Nothing else ends the app but a live text of the session before.
ListFollowsDisk ==
    Never({"gone", "underMenu"}) =>
      /\ Never({"overlapped"}) => ui # "crashed"
      /\ \A i \in DOMAIN displayList : Exists(displayList[i])

\* On disk: every recording is there once, with its own result and summary.
RecordingsStayWhole ==
    RecordingsTypeOK /\ NothingVanishes /\ ResultIsOfItsRecording /\ SummaryIsOfItsRecording

\* On the screens: the words are those of the audio, the details and the positions
\* those of the recordings listed.
ScreensFollowDisk == AudioMatchesWords /\ DetailsAreOfTheName /\ ListFollowsDisk

(***************************************************************************)
(* The inductive invariant behind RecordingsStayWhole.                     *)
(***************************************************************************)
DiskTyped ==
    /\ IsFiniteSet(DOMAIN disk) /\ DOMAIN disk \subseteq Names /\ made \subseteq Names
    /\ disk \in [DOMAIN disk -> [rec : made, result : made \cup {NoFile}, summary : made \cup {NoFile}]]
    /\ currentRecordingName \in made \cup {NoFile} /\ confirmed \subseteq made

ScreenTyped ==
    /\ asr \in Nat /\ posted \in Seq(Names) /\ heard \subseteq made
    /\ startRecord => asr # 0
    /\ asr # 0 => currentRecordingName # NoFile
    /\ timestampedResult \in made \cup {NoFile} /\ textView \in made \cup {NoFile}
    /\ asked \in made \cup {NoFile}
    /\ ui \in {"main", "list", "menu", "progress", "answered", "crashed"}
    /\ ui \in {"progress", "answered"} <=> asked # NoFile
    /\ opening \in Seq(Names) /\ ready \in Seq(made)
    /\ ui # "menu" => menu = NoFile
    /\ DOMAIN detailCache \subseteq loadingSet
    /\ loads \subseteq [name : loadingSet, done : BOOLEAN, text : made \cup {NoFile}]

\* A recording has one directory until its deletion is confirmed, then none.
OneDirectoryEach ==
    /\ \A n, m \in DOMAIN disk : disk[n].rec = disk[m].rec => n = m
    /\ \A rec \in made : rec \in confirmed <=> \A n \in DOMAIN disk : disk[n].rec # rec

\* What is recorded goes where the session believes it does.
RecordedInPlace ==
    /\ Never({"moved"}) /\ Recognizing =>
         Exists(currentRecordingName) /\ disk[currentRecordingName].rec = currentRecordingName
    /\ Never({"overlapped"}) => heard \subseteq {currentRecordingName}

\* What is played is there; the last prepare is the one of what is played.
PlayedInPlace ==
    /\ Never({"notOpened"}) => currentPlaybackRecording = NoFile \/ Exists(currentPlaybackRecording)
    /\ Never({"notOpened", "moved"}) /\ Busy => listener = currentPlaybackRecording

\* The text on the screen is that of what is played, once it is opened.
TextIsOfPlayed ==
    Never({"notOpened", "moved", "overlapped"}) /\ ~Recognizing /\ ~Busy
      /\ Result(currentPlaybackRecording) # NoFile
    => timestampedResult = disk[currentPlaybackRecording].rec

AskedIsOfPlayed ==
    Never({"askedEarly", "noWords", "notOpened", "moved", "overlapped"}) /\ ui = "progress"
    => /\ ~Recognizing /\ ~Busy /\ Exists(currentPlaybackRecording)
       /\ asked = disk[currentPlaybackRecording].rec

WholeInv ==
    /\ DiskTyped /\ ScreenTyped /\ OneDirectoryEach /\ ResultIsOfItsRecording
    /\ RecordedInPlace /\ PlayedInPlace /\ TextIsOfPlayed /\ AskedIsOfPlayed
    /\ SummaryIsOfItsRecording

(***************************************************************************)
(* The inductive invariant behind ScreensFollowDisk.                       *)
(***************************************************************************)
\* One prepare at a time is that of the listener.
OnePrepare ==
    Never({"overtaken", "moved"}) /\ Busy =>
      /\ Exists(listener)
      /\ \/ opening = <<listener>> /\ ready = <<>>
         \/ opening = <<>> /\ ready = <<disk[listener].rec>>

\* Nothing of the list is left when it is closed.
ListIsClosed ==
    ui \notin {"list", "menu", "crashed"} =>
      allNames = <<>> /\ displayList = <<>> /\ searches = <<>> /\ loadingSet = {} /\ loads = {}

\* An answer that is on its way is one of the recording of that name.
AnswersAreOfTheName ==
    Never({"nameReused", "moved", "overlapped"}) =>
      \A l \in loads : l.done /\ Exists(l.name) => l.text \in {NoFile, disk[l.name].rec}

Once(s) == \A i, j \in DOMAIN s : s[i] = s[j] => i = j

\* The list names nothing twice, and the menu's item is where it was.
ListTyped ==
    /\ allNames \in Seq(Names) /\ Once(allNames)
    /\ displayList \in Seq(Names)
    /\ searches \in Seq(SUBSET Listing(allNames))

MenuInPlace ==
    /\ ui = "menu" => menu \in [name : Names, pos : Nat]
    /\ Never({"gone", "underMenu"}) =>
         /\ Once(displayList)
         /\ ui = "menu" => menu.pos \in DOMAIN displayList /\ displayList[menu.pos] = menu.name

ScreenInv ==
    /\ OnePrepare /\ ListIsClosed /\ AnswersAreOfTheName /\ ListTyped /\ MenuInPlace
    /\ AudioMatchesWords /\ DetailsAreOfTheName /\ ListFollowsDisk
================================================================================
