------------------------------ MODULE Spectrogram ------------------------------
(***************************************************************************)
(* The picture of a recording that is played back: a thread of             *)
(* MainActivity prepares it, and either VoiceRectView gets a waveform, or  *)
(* SpectrogramView a source (PcmDataSource.java) of which it draws the     *)
(* window that is visible.  A window is loaded by a thread and its         *)
(* workers, which read, and decode where they must, through the source's   *)
(* cache.  Nothing guards the cache, and the slider of the dB range can    *)
(* have a second window loaded beside the first.                           *)
(*                                                                         *)
(* A recording is the number of the opening it is played at, a sample its  *)
(* recording and position, a column of the bitmap the samples it was       *)
(* computed from, and one sample lies between two columns.                 *)
(***************************************************************************)
EXTENDS Integers, Sequences

CONSTANTS TotalSamples, WINDOW_SAMPLES,
          OUTPUT_SAMPLE_RATE,  \* samples decoded before the one asked for
          FFT_SIZE,
          Width,               \* columns
          Workers,             \* 1 .. nThreads
          Offsets,             \* places the view can be scrolled to
          MaxEvents            \* bound: openings, scrolls, new ranges, failing decoders

ASSUME SpectrogramAssumption ==
    /\ TotalSamples \in Nat \ {0} /\ WINDOW_SAMPLES \in Nat \ {0} /\ FFT_SIZE \in Nat \ {0}
    /\ OUTPUT_SAMPLE_RATE + FFT_SIZE <= WINDOW_SAMPLES
    /\ Width \in Nat \ {0} /\ Offsets \subseteq 0 .. TotalSamples - Width
    /\ OUTPUT_SAMPLE_RATE \in Nat /\ MaxEvents \in Nat
\* nThreads is at most 4.
ASSUME WorkersAssumption == \E n \in 1 .. 4 : Workers = 1 .. n

VARIABLES
    useSpectrogram,
    opened, shown,   \* the recordings opened so far; the one on the screen, or 0
    vizThreads,      \* threads in loadFullVisualizationOgg: the recordings
    runnables,       \* what they have posted
    waveform,        \* what VoiceRectView shows
    playbackMode, dataSource, scrollOffset,
    windowLoading, windowBitmap, lastRenderedOffset,
    invalid,         \* onDraw will be called
    notifying,       \* threads about to call postInvalidate
    loader,          \* where each thread of loadWindowAsync is
    offset, src, bmp,  \* its variables
    readers,         \* its calls of read: 0 of the loader, the others of the workers
    cacheStartSample, cacheData,   \* of each recording's source
    events,
    crashed,         \* an exception has ended the app
    flaws,           \* history: what has gone wrong in each load
    excuses,         \* history: what is wrong with windowBitmap
    mishaps          \* history

viewVars == <<waveform, playbackMode, dataSource, scrollOffset, windowBitmap, lastRenderedOffset>>
loadVars == <<loader, offset, src, bmp, readers, flaws>>
cacheVars == <<cacheStartSample, cacheData>>
screenVars == <<useSpectrogram, opened, shown, vizThreads, runnables>>
picture_vars == <<screenVars, events, viewVars, windowLoading, invalid, notifying, loadVars, cacheVars, crashed,
                  excuses, mishaps>>

NoBitmap == <<>>
NoData == [from |-> 0, len |-> 0]
Columns == 0 .. Width - 1
Black == [rec |-> 0, pos |-> 0, n |-> 0]
Idle == [at |-> "done", col |-> 0, rel |-> 0, n |-> 0]
Recording == 1 .. MaxEvents
\* A new range starts at most one more load than have ended, and needs an opening first.
Loads == 1 .. MaxEvents
Smaller(a, b) == IF a < b THEN a ELSE b

PictureInit ==
    /\ useSpectrogram \in BOOLEAN
    /\ opened = 0 /\ shown = 0 /\ vizThreads = {} /\ runnables = <<>>
    /\ waveform = 0
    /\ playbackMode = FALSE /\ dataSource = 0 /\ scrollOffset = 0
    /\ windowLoading = FALSE /\ windowBitmap = NoBitmap /\ lastRenderedOffset = -1
    /\ invalid = FALSE /\ notifying = 0
    /\ loader = [l \in Loads |-> "none"] /\ offset = [l \in Loads |-> 0]
    /\ src = [l \in Loads |-> 0] /\ bmp = [l \in Loads |-> NoBitmap]
    /\ readers = [l \in Loads |-> [x \in {0} \cup Workers |-> Idle]]
    /\ flaws = [l \in Loads |-> {}]
    /\ cacheStartSample = [o \in Recording |-> -1] /\ cacheData = [o \in Recording |-> NoData]
    /\ events = 0 /\ crashed = FALSE /\ excuses = {} /\ mishaps = {}

Event == events < MaxEvents /\ events' = events + 1

Note(what, happens) == mishaps' = IF happens THEN mishaps \cup {what} ELSE mishaps
--------------------------------------------------------------------------------
(***************************************************************************)
(* The UI thread.                                                          *)
(***************************************************************************)
\* A source that is being read may be closed.
Loading(l) == loader[l] \in {"warm", "await"}
Reading(o) == o # 0 /\ \E l \in Loads : Loading(l) /\ src[l] = o
Close(o) == cacheData' = IF o = 0 THEN cacheData ELSE [cacheData EXCEPT ![o] = NoData]

\* stopPlayback: clearPlaybackMode of both views.
StopPlayback ==
    /\ shown' = 0
    /\ waveform' = 0
    /\ playbackMode' = FALSE
    /\ Close(dataSource) /\ Note("closed", Reading(dataSource))
    /\ dataSource' = 0 /\ windowBitmap' = NoBitmap /\ scrollOffset' = 0
    /\ invalid' = TRUE
    /\ UNCHANGED <<useSpectrogram, opened, vizThreads, runnables, events, lastRenderedOffset,
                   windowLoading, notifying, loadVars, cacheStartSample, crashed, excuses>>

\* The end of enterPlaybackModeWithOgg: a player is ready, perhaps not the first since
\* stopPlayback.
EnterPlayback ==
    /\ Event
    /\ opened' = opened + 1 /\ shown' = opened'
    /\ vizThreads' = vizThreads \cup {opened'}
    /\ UNCHANGED <<useSpectrogram, runnables, viewVars, windowLoading, invalid, notifying,
                   loadVars, cacheVars, crashed, excuses, mishaps>>

\* Mutant: a source is set without discarding the window of the last.
Mut_WindowKept(o) ==
    /\ Close(dataSource)
    /\ mishaps' = mishaps \cup (IF Reading(dataSource) THEN {"closed"} ELSE {})
                          \cup (IF dataSource = shown THEN {"overtaken"} ELSE {})
    /\ dataSource' = o /\ playbackMode' = TRUE
    /\ scrollOffset' \in Offsets
    /\ UNCHANGED <<windowBitmap, lastRenderedOffset, waveform>>

\* setDataSource: the view scrolls to the cursor, wherever that is.
SetDataSource(o) ==
    /\ Close(dataSource)
    /\ mishaps' = mishaps \cup (IF Reading(dataSource) THEN {"closed"} ELSE {})
                          \cup (IF dataSource = shown THEN {"overtaken"} ELSE {})
    /\ dataSource' = o /\ playbackMode' = TRUE
    /\ scrollOffset' \in Offsets
    /\ windowBitmap' = NoBitmap /\ lastRenderedOffset' = -1
    /\ UNCHANGED waveform

\* setFullWaveform
SetFullWaveform(o) ==
    /\ Note("overtaken", waveform = shown)
    /\ waveform' = o
    /\ UNCHANGED <<playbackMode, dataSource, scrollOffset, windowBitmap, lastRenderedOffset, cacheData>>

\* A runnable of loadFullVisualizationOgg, whatever is on the screen by then.
RunPosted ==
    /\ runnables # <<>>
    /\ runnables' = Tail(runnables)
    /\ IF useSpectrogram THEN SetDataSource(Head(runnables)) ELSE SetFullWaveform(Head(runnables))
    /\ invalid' = TRUE
    /\ UNCHANGED <<useSpectrogram, opened, shown, vizThreads, events, windowLoading, notifying,
                   loadVars, cacheStartSample, crashed, excuses>>

\* Fingers and the cursor move the window.
Scroll ==
    /\ playbackMode /\ Event
    /\ scrollOffset' \in Offsets \ {scrollOffset}
    /\ invalid' = TRUE
    /\ UNCHANGED <<useSpectrogram, opened, shown, vizThreads, runnables, waveform, playbackMode,
                   dataSource, windowBitmap, lastRenderedOffset, windowLoading, notifying, loadVars,
                   cacheVars, crashed, excuses, mishaps>>

\* triggerWindowLoadIfNeeded, and what loadWindowAsync does before the thread runs.
OutOfDate == dataSource # 0 /\ (windowBitmap = NoBitmap \/ lastRenderedOffset # scrollOffset)

LoadWindowAsync ==
    \E l \in Loads :
       /\ loader[l] = "none" /\ \A k \in Loads : k < l => loader[k] # "none"
       /\ windowLoading' = TRUE
       /\ loader' = [loader EXCEPT ![l] = "snapshot"] /\ offset' = [offset EXCEPT ![l] = scrollOffset]

\* Mutant: a window is loaded whether or not one is.
Mut_LoadsAgain ==
    /\ invalid
    /\ invalid' = FALSE
    /\ IF playbackMode /\ OutOfDate
       THEN LoadWindowAsync
       ELSE UNCHANGED <<windowLoading, loader, offset>>
    /\ UNCHANGED <<screenVars, events, viewVars, notifying, src, bmp, readers, flaws, cacheVars, crashed,
                   excuses, mishaps>>

\* onDraw
Draw ==
    /\ invalid
    /\ invalid' = FALSE
    /\ IF playbackMode /\ ~windowLoading /\ OutOfDate
       THEN LoadWindowAsync
       ELSE UNCHANGED <<windowLoading, loader, offset>>
    /\ UNCHANGED <<screenVars, events, viewVars, notifying, src, bmp, readers, flaws, cacheVars, crashed,
                   excuses, mishaps>>

\* setDbRange, when the slider is let go: reloadIfPlayback forgets the load that goes on.
SetDbRange ==
    /\ Event
    /\ IF playbackMode /\ dataSource # 0
       THEN /\ Note("reloaded", windowLoading)
            /\ IF OutOfDate THEN LoadWindowAsync
               ELSE windowLoading' = FALSE /\ UNCHANGED <<loader, offset>>
            /\ UNCHANGED invalid
       ELSE invalid' = TRUE /\ UNCHANGED <<windowLoading, loader, offset, mishaps>>
    /\ UNCHANGED <<screenVars, viewVars, notifying, src, bmp, readers, flaws, cacheVars, crashed, excuses>>
--------------------------------------------------------------------------------
(***************************************************************************)
(* The background threads.                                                 *)
(***************************************************************************)
\* loadFullVisualizationOgg: a waveform takes time, and threads finish in any order.
LoadVisualization ==
    /\ \E o \in vizThreads : vizThreads' = vizThreads \ {o} /\ runnables' = Append(runnables, o)
    /\ UNCHANGED <<useSpectrogram, opened, shown, events, viewVars, windowLoading, invalid, notifying,
                   loadVars, cacheVars, crashed, excuses, mishaps>>

\* What is in a cache is not where it is said to be.
Mixed(o) == cacheData[o] # NoData /\ cacheData[o].from # cacheStartSample[o]

\* loadWindowSync: the source is read under the lock; there may be none by now.
LoadSnapshot(l) ==
    /\ loader[l] = "snapshot"
    /\ src' = [src EXCEPT ![l] = dataSource]
    /\ IF dataSource = 0
       THEN /\ loader' = [loader EXCEPT ![l] = "loaded"] /\ offset' = [offset EXCEPT ![l] = 0]
            /\ UNCHANGED <<bmp, readers, flaws>>
       ELSE /\ loader' = [loader EXCEPT ![l] = "warm"]
            /\ flaws' = [flaws EXCEPT ![l] = IF Mixed(dataSource) THEN {"torn"} ELSE {}]
            /\ bmp' = [bmp EXCEPT ![l] = [c \in Columns |-> Black]]
            /\ readers' = [readers EXCEPT ![l][0] = [at |-> "test", col |-> 0, rel |-> 0, n |-> 0]]
            /\ UNCHANGED offset
    /\ UNCHANGED <<screenVars, events, viewVars, windowLoading, invalid, notifying, cacheVars, crashed,
                   excuses, mishaps>>

ColsPerThread == LET n == CHOOSE n \in Workers : \A w \in Workers : w <= n
                 IN (Width + n - 1) \div n
\* Mutant: the end is taken for the last column.
Mut_LastLeftOut(w) == Smaller(w * ColsPerThread, Width - 1)

EndCol(w) == Smaller(w * ColsPerThread, Width)

\* The workers are started when the first read has filled the cache.
StartWorkers(l) ==
    /\ loader[l] = "warm" /\ readers[l][0].at = "done"
    /\ loader' = [loader EXCEPT ![l] = "await"]
    /\ readers' = [readers EXCEPT ![l] =
                     [x \in {0} \cup Workers |->
                        IF x = 0 \/ (x - 1) * ColsPerThread >= EndCol(x) THEN Idle
                        ELSE [at |-> "test", col |-> (x - 1) * ColsPerThread, rel |-> 0, n |-> 0]]]
    /\ UNCHANGED <<screenVars, events, viewVars, windowLoading, invalid, notifying, offset, src, bmp, flaws,
                   cacheVars, crashed, excuses, mishaps>>

\* latch.await, and the bitmap takes the place of the last under the lock.
Publish(l) ==
    /\ loader[l] = "await" /\ \A x \in Workers : readers[l][x].at = "done"
    /\ loader' = [loader EXCEPT ![l] = "loaded"]
    /\ windowBitmap' = bmp[l] /\ lastRenderedOffset' = offset[l]
    /\ excuses' = flaws[l] \cup (IF src[l] # dataSource THEN {"late"} ELSE {})
    /\ src' = [src EXCEPT ![l] = 0] /\ offset' = [offset EXCEPT ![l] = 0]
    /\ bmp' = [bmp EXCEPT ![l] = NoBitmap] /\ flaws' = [flaws EXCEPT ![l] = {}]
    /\ UNCHANGED <<screenVars, events, waveform, playbackMode, dataSource, scrollOffset, windowLoading, invalid,
                   notifying, readers, cacheVars, crashed, mishaps>>

\* Mutant: the view is told first, and asked to load while a load is still noted.
Mut_InvalidateFirst(l) ==
    /\ \/ /\ loader[l] = "loaded" /\ loader' = [loader EXCEPT ![l] = "told"] /\ invalid' = TRUE
          /\ UNCHANGED windowLoading
       \/ /\ loader[l] = "told" /\ loader' = [loader EXCEPT ![l] = "none"] /\ windowLoading' = FALSE
          /\ UNCHANGED invalid
    /\ UNCHANGED <<screenVars, events, viewVars, notifying, offset, src, bmp, readers, flaws, cacheVars, crashed,
                   excuses, mishaps>>

\* The end of the thread, which notes that none loads, whether or not another does.
LoadEnds(l) ==
    /\ loader[l] = "loaded" /\ loader' = [loader EXCEPT ![l] = "none"] /\ windowLoading' = FALSE
    /\ notifying' = notifying + 1
    /\ UNCHANGED <<screenVars, events, viewVars, invalid, offset, src, bmp, readers, flaws, cacheVars, crashed,
                   excuses, mishaps>>

\* Its postInvalidate.
PostInvalidate ==
    /\ notifying > 0 /\ notifying' = notifying - 1 /\ invalid' = TRUE
    /\ UNCHANGED <<screenVars, events, viewVars, windowLoading, loadVars, cacheVars, crashed, excuses, mishaps>>
--------------------------------------------------------------------------------
(***************************************************************************)
(* OggPcmDataSource.read, by its accesses to the cache.                    *)
(***************************************************************************)
At(l, x, where) == Loading(l) /\ readers[l][x].at = where
SampleOffset(l, x) == IF x = 0 THEN offset[l] ELSE offset[l] + readers[l][x].col
Goes(l, x, where) == readers' = [readers EXCEPT ![l][x].at = where]

\* Mutant: a part of the samples asked for is enough.
Mut_CachedBegin(l, x) ==
    LET data == cacheData[src[l]]
    IN /\ data # NoData
       /\ SampleOffset(l, x) >= cacheStartSample[src[l]]
       /\ SampleOffset(l, x) < cacheStartSample[src[l]] + data.len

Cached(l, x) ==
    LET data == cacheData[src[l]]
    IN /\ data # NoData
       /\ SampleOffset(l, x) >= cacheStartSample[src[l]]
       /\ SampleOffset(l, x) + FFT_SIZE <= cacheStartSample[src[l]] + data.len

ReadTest(l, x) ==
    /\ At(l, x, "test")
    /\ Goes(l, x, IF Cached(l, x) THEN "get" ELSE "decode")

\* decodeWindow ends with two assignments, unless there is an error.
WindowStart(l, x) ==
    LET p == SampleOffset(l, x) IN IF p > OUTPUT_SAMPLE_RATE THEN p - OUTPUT_SAMPLE_RATE ELSE 0

\* The loads that are read for while x refills the cache.
Beside(l, x) ==
    {k \in Loads : /\ Loading(k) /\ src[k] = src[l]
                   /\ k # l \/ \E y \in Workers \ {x} : readers[l][y].at # "done"}
Refills(l, x) == flaws' = [k \in Loads |-> IF k \in Beside(l, x) THEN flaws[k] \cup {"torn"} ELSE flaws[k]]

DecodeWindow(l, x) ==
    \/ /\ At(l, x, "decode") /\ Refills(l, x)
       /\ cacheStartSample' = [cacheStartSample EXCEPT ![src[l]] = WindowStart(l, x)]
       /\ Goes(l, x, "decoded")
       /\ UNCHANGED <<cacheData, events>>
    \/ /\ At(l, x, "decoded") /\ Refills(l, x)
       /\ cacheData' = [cacheData EXCEPT ![src[l]] =
                          [from |-> WindowStart(l, x),
                           len |-> Smaller(WINDOW_SAMPLES, TotalSamples - WindowStart(l, x))]]
       /\ Goes(l, x, "get")
       /\ UNCHANGED <<cacheStartSample, events>>
    \/ /\ At(l, x, "decode")
       /\ Event /\ flaws' = [flaws EXCEPT ![l] = @ \cup {"failed"}]
       /\ Goes(l, x, "get")
       /\ UNCHANGED cacheVars

\* read returns n samples from pos on: a worker goes on to its next column, or leaves
\* its loop if there are none.
Returns(l, x, pos, n) ==
    IF x = 0 \/ n = 0
    THEN readers' = [readers EXCEPT ![l][x] = Idle] /\ UNCHANGED bmp
    ELSE /\ bmp' = [bmp EXCEPT ![l][readers[l][x].col] = [rec |-> src[l], pos |-> pos, n |-> n]]
         /\ readers' = [readers EXCEPT
                          ![l][x] = IF @.col + 1 < EndCol(x)
                                 THEN [at |-> "test", col |-> @.col + 1, rel |-> 0, n |-> 0] ELSE Idle]

ReadGet(l, x) ==
    /\ At(l, x, "get")
    /\ IF cacheData[src[l]] = NoData
       THEN Returns(l, x, 0, 0)
       ELSE /\ readers' = [readers EXCEPT ![l][x].at = "length",
                                          ![l][x].rel = SampleOffset(l, x) - cacheStartSample[src[l]]]
            /\ UNCHANGED bmp

\* The array may be null by now, or have been replaced by a shorter one before it is
\* copied from: the exception ends the app.
Throws == crashed' = TRUE /\ UNCHANGED <<readers, bmp>>

ReadLength(l, x) ==
    LET data == cacheData[src[l]]
        rel == readers[l][x].rel
    IN /\ At(l, x, "length")
       /\ IF rel >= 0 /\ data = NoData THEN Throws
          ELSE /\ crashed' = FALSE
               /\ IF rel < 0 \/ rel >= data.len THEN Returns(l, x, 0, 0)
                  ELSE /\ readers' = [readers EXCEPT ![l][x].at = "copy",
                                                     ![l][x].n = Smaller(FFT_SIZE, data.len - rel)]
                       /\ UNCHANGED bmp

ReadCopy(l, x) ==
    LET data == cacheData[src[l]]
        rel == readers[l][x].rel
    IN /\ At(l, x, "copy")
       /\ IF rel + readers[l][x].n > data.len THEN Throws
          ELSE crashed' = FALSE /\ Returns(l, x, data.from + rel, readers[l][x].n)

Read(l, x) ==
    /\ \/ ReadTest(l, x) /\ UNCHANGED <<cacheVars, bmp, flaws, crashed, events>>
       \/ DecodeWindow(l, x) /\ UNCHANGED <<bmp, crashed>>
       \/ ReadGet(l, x) /\ UNCHANGED <<cacheVars, flaws, crashed, events>>
       \/ (ReadLength(l, x) \/ ReadCopy(l, x)) /\ UNCHANGED <<cacheVars, flaws, events>>
    /\ UNCHANGED <<screenVars, viewVars, windowLoading, invalid, notifying, loader, offset, src,
                   excuses, mishaps>>
--------------------------------------------------------------------------------
Load(l) ==
    \/ LoadSnapshot(l) \/ StartWorkers(l) \/ Publish(l) \/ LoadEnds(l)
    \/ \E x \in {0} \cup Workers : Read(l, x)

\* What goes on without the user.
Works ==
    RunPosted \/ Draw \/ LoadVisualization \/ PostInvalidate \/ \E l \in Loads : Load(l)

PictureNext ==
    /\ ~crashed
    /\ StopPlayback \/ EnterPlayback \/ Scroll \/ SetDbRange \/ Works

\* The threads run, whichever of them; nobody need open, stop, scroll or
\* set the range.
PictureSpec ==
    PictureInit /\ [][PictureNext]_picture_vars /\ WF_picture_vars(~crashed /\ Works)
--------------------------------------------------------------------------------
PictureTypeOK ==
    /\ events \in 0 .. MaxEvents /\ shown \in {0, opened}
    /\ vizThreads \subseteq Recording
    /\ scrollOffset \in Offsets \cup {0}
    /\ \A l \in Loads, x \in Workers : readers[l][x].at # "done" => loader[l] = "await"
    /\ mishaps \subseteq {"closed", "overtaken", "reloaded"} /\ excuses \subseteq {"late", "torn", "failed"}

\* The columns of the window are the samples of the recording at their places, each from
\* as many samples as there are, or from fewer or none where a decoder has failed; except
\* of a window that was loaded of another source than the one there is when it is ready,
\* or from a cache that one thread has filled while another of this load, or any of a
\* second, was at work on it.
WindowIsTheRecording ==
    playbackMode /\ windowBitmap # NoBitmap /\ excuses \subseteq {"failed"} =>
        \A c \in Columns :
            LET p == lastRenderedOffset + c
                full == Smaller(FFT_SIZE, TotalSamples - p)
                sizes == IF excuses = {} THEN {full} ELSE 1 .. full
            IN \/ windowBitmap[c] \in [rec : {dataSource}, pos : {p}, n : sizes]
               \/ excuses # {} /\ windowBitmap[c] = Black

\* Only a source closed while it is read, or decoded into side by side, ends the app.
DiesOnlyIfRaced == crashed => "closed" \in mishaps \/ \E l \in Loads : "torn" \in flaws[l]

\* One window is loaded at a time, and none is asked for while one is; unless the range
\* has been set during a load.
OneLoad ==
    "reloaded" \notin mishaps =>
        /\ \A l, k \in Loads : loader[l] # "none" /\ loader[k] # "none" => l = k
        /\ windowLoading <=> \E l \in Loads : loader[l] # "none"

\* What is seen of a recording is that recording, and the app lives to show it.
PictureIsTheRecording == PictureTypeOK /\ WindowIsTheRecording /\ DiesOnlyIfRaced /\ OneLoad

\* The recording on the screen gets its picture, and the window ends where the view was
\* scrolled to; unless a thread of one opened before it comes last.
Pictured(o) == IF useSpectrogram
               THEN /\ playbackMode /\ dataSource = o /\ ~windowLoading
                    /\ windowBitmap # NoBitmap /\ lastRenderedOffset = scrollOffset
               ELSE waveform = o

PictureAppears == []<>(shown = 0 \/ crashed \/ "overtaken" \in mishaps \/ Pictured(shown))

\* TLC refutes it: a window of the last recording can be published over that of the next,
\* and stays until the view is scrolled.
NoLateWindow == playbackMode /\ windowBitmap # NoBitmap => "late" \notin excuses

\* SpectrogramView.java:258: the first read "triggers decodeWindow once, single-threaded".
\* TLC refutes it: the workers decode the last columns of a recording again.
DecodedOnce == \A l \in Loads, x \in Workers : readers[l][x].at # "decode"

\* TLC refutes it: the array can be replaced by a shorter one between its length and its
\* copy, with the source open.
DiesOnlyIfClosed == crashed => "closed" \in mishaps

\* TLC refutes it: a picture that was being made when playback was stopped comes back over
\* the one of the microphone.
StopsShowing == shown = 0 => ~playbackMode /\ waveform = 0
================================================================================
