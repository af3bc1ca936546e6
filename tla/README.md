# A verification development of the WeNet streaming recogniser and its Android recorder

TLA+ models of the program under `src/wenet/runtime/`: the C++ recognition
runtime (`core/`), its servers and clients, its C API, and the Android app
(`android/`) that records, detects speech, decodes on line, keeps recordings and
plays them back.  Each module models one component at the granularity of its
locks, callbacks and handlers; `MC*` modules and `.cfg` files check small
instances with TLC; the `*_proofs` modules prove safety results with TLAPS for
every value of the constants.  `PROJECT.json` maps every definition to the source
lines it models and lists the runs, mutants, hazards, findings and theorems.

Paths below are relative to `src/wenet/runtime/`; `C/` is `core/` and `J/` is
`android/app/src/main/java/com/mobvoi/wenet/`.

## 1. Inventory

| component | state it keeps | operations | talks to | what is hard | what makes it correct |
|---|---|---|---|---|---|
| feature pipeline, `C/frontend/feature_pipeline.cc` | queued frames, samples kept for the next call, the finished flag | `AcceptWaveform`, `set_input_finished`, `Read`, `ReadOne`, `Reset` | a writer thread and the decoder thread | the writer notifies without the mutex the reader waits with | frames are those of the audio, in order, all delivered before the end is reported |
| blocking queue, `C/utils/blocking_queue.h` | a FIFO, its capacity, two condition variables | `Push` (one, many), `Pop` (one, n), `Size`, `Empty`, `Clear` | feature pipeline | notification by `notify_one` only; vectors longer than the queue; `Clear` tests and pops in two steps | FIFO, capacity respected, nobody sleeps beside work |
| streaming decoder, `C/decoder/asr_decoder.cc`, `asr_model.cc` | chunk position, feature cache, result, frame offsets | `Decode`, `Rescoring`, `ResetContinuousDecoding`, `Reset` | pipeline, model, searcher, endpointer | chunk boundaries, end of input, restarts at endpoints | every frame encoded once, time stamps ordered and on one axis |
| models, `C/decoder/onnx_asr_model.cc`, `torch_asr_model.cc` | attention and convolution caches, the offset, the encoder's outputs | `Reset`, `ForwardEncoder`, `AttentionRescoring` | decoder | a cache of fixed size filled with zeros, or one that grows; masks; what is left after an endpoint | the encoder attends to outputs of the segment only, at their places |
| endpointing, `C/decoder/ctc_endpoint.cc` | frames decoded, trailing blanks | `IsEndpoint`, `Reset` | decoder | three timed rules | fires exactly under the documented rules |
| CTC prefix beam search, `C/decoder/ctc_prefix_beam_search.cc` | hypotheses with blank and non-blank scores, times, contexts | `Search`, `FinalizeSearch`, `Reset` | decoder, context graph | merging of prefixes: scores, times and contexts by a rule each | scores are sums over alignments, times those of one |
| context graph, `C/decoder/context_graph.cc` | an automaton of hot words | `BuildContextGraph`, `GetNextState` | prefix beam search | failure states, scores given back | a match that is given up leaves no reward behind |
| CTC WFST beam search, `C/decoder/ctc_wfst_beam_search.cc` | frames kept after blank skipping, frame map | `Search`, `FinalizeSearch`, `Reset` | lattice decoder | a skipped frame decoded after the fact | times refer to input frames, skipping loses no token |
| lattice decoder, `C/kaldi/decoder` (Kaldi's, changed for hot words) | tokens and links of each frame, cutoffs, cost offsets, final costs | `InitDecoding`, `AdvanceDecoding`, `FinalizeDecoding`, `GetBestPath`, `GetRawLattice` | graph, WFST search | tokens deleted while links and backpointers lead to them; stale extra costs | the lattice is the part of the graph within the beam, the best path its best |
| lattice determinization, `C/kaldi/lat` | subsets of lattice states with their rests, a queue of transitions to process | `DeterminizeLatticePruned`, `ConvertNbestToVector` | lattice decoder, WFST search | states keep the cost of their first arrival; stops when memory is short | one path for each sequence of words, the best one's weight and alignment |
| C API, `C/api/wenet_api.cc` | one decoder without a thread | `wenet_decode`, `wenet_reset`, setters | pipeline, decoder | a non-blocking loop that must notice the end | the final result covers all the audio |
| WebSocket, gRPC and HTTP servers and clients, `C/websocket`, `C/grpc`, `C/http` | per connection: decode thread, flags, pipeline | start signal, audio, end signal; results back | each other, pipeline, decoder | lost connections, endpoints and end signals in any order | messages in order; a final result covers the audio; every connection ends |
| JNI layer, `android/app/src/main/cpp/wenet.cc` | accumulated results, offset map, flags, sample counters | `reset`, `accept_waveform`, `add_skipped_samples`, decode thread, result queries | MainActivity threads, pipeline, decoder | three threads share plain strings and vectors | word times map to times in the recording |
| recording session, `J/MainActivity.java` | `startRecord`, `bufferQueue`, three threads per session | Record/Stop button, recorder, recogniser loop, finish | JNI, detector, encoder, files | threads stop by polling a flag; blocking `take` and `put` | a stopped session finishes, is saved, and holds all its audio |
| speech detector, `J/SileroVad.java` | state, ring of chunks kept before speech, residual samples | `process`, `flush`, `flushRemainingAsSkipped`, `reset` | session thread, JNI | buffers reused across calls | every sample is forwarded once, in order, or counted as skipped |
| speaker gate, `J/PersonalVadProcessor.java`, `SpeakerEnrollment.java` | frame buffer, hysteresis, segments | `process`, `flush`, `reset`, `saveSegments` | session thread, karaoke text | segment borders, the end of a recording | segments ordered, disjoint, those of the speaker |
| recording encoder, `J/RealtimeEncoder.java` | codec, muxer, presentation time | `start`, `feed`, `release` | recorder thread, MediaCodec (external) | codec buffers run out; the next recording begins before the last is closed; the microphone cannot be had | the file holds all the audio fed, at its times |
| sound file conversion, `J/MainActivity.java`, `AudioConverter.java` | codec, muxer or extractor, positions and times of what passes | `compressToAac`, `convertPcmToM4a`, `decodeOpusToPcm`, `decodeOggEnergyBars` | picture of a recording, MediaCodec (external) | both sides of the codec may have nothing to offer; failures before and after deletions | the new file is the old one: whole, in place |
| player, `J/OggStreamPlayer.java`, `PlaybackController.java` | decoder and player threads, a bounded queue, a pause flag | `start`, `pause`, `resume`, `seekTo`, `release` | UI, MediaCodec and AudioTrack (external) | pause and seek while the decoder runs or has ended | a resumed player plays on or completes |
| picture of a recording, `J/SpectrogramView.java`, `PcmDataSource.java` | the source and its cache, the window's bitmap, what is loading | `setDataSource`, `clearPlaybackMode`, `onDraw`, loader and workers | player, MediaCodec (external) | nothing guards the cache; late threads; a load begun while another runs | each column is the recording's at its place, and it appears |
| karaoke text, `J/KaraokeController.java` | words with times and character spans | `load`, `updateHighlight`, taps | player, speaker gate | gaps, line breaks without times | the word highlighted is the one being played |
| recordings on disk, `J/RecordingManager.java`, `MainActivity.java` | directories, the names that screens, threads and tasks keep of them | list, open, search, rename, delete, save, summarise | UI, session, player | late answers about a name that has changed hands | a recording's files stay together, a screen shows one recording |
| thread pool, `C/utils/thread_pool.h`, and `C/bin/decoder_main.cc` | a queue of tasks, a stop flag, totals | enqueue, worker loop, destructor; two pools one after the other | decoder | shutdown against queued work | every task queued before the stop runs once |
| tools that build decoding graphs, `C/kaldi/lmbin`, `fstbin`, `lm`, `fstext` | the graph under construction, histories or subsets and their queue | `arpa2fst`, `fstdeterminizestar`, `fstaddselfloops`, `fsttablecompose`'s matcher, `RemoveEpsLocal` | each other through files, the lattice decoder's graph | states redirected while a walk goes on; better weights that come late | the graph reads as before: same sequences, same costs |
| label checker, `C/bin/label_checker_main.cc` | labels and two graphs for each utterance | `MapToLabel`, `CompileCtcFst`, `CompileAlignFst` | WFST beam search | filler states that all positions share | the path found is an alignment of the text, insertions and deletions marked |
| other programs in `C/bin` | none of their own | command lines | all of the above | - | not modelled |
| text post-processing, FFT, windows, wave files, JSON | none | pure functions on data | - | - | not modelled |
| views, settings, Slack and OpenAI clients, sharing | widgets, HTTP | UI and I/O | session | - | not modelled |
| the other parts of Kaldi and OpenFst, `C/kaldi`, `C/patch` | - | vendored | lattice decoder, tools that build graphs | - | not modelled |

## 2. Plan

Built in this order, the behaviour other parts rest on first:

1. `FrameStream`, `FeaturePipeline` and its proofs: the only channel between the audio
   side and the decoder side of every front end.
2. `RecordingSession` and its proofs: the Android threads around it.
3. `SileroVad`, `VadTimeline`: what reaches the pipeline, and how word times are
   mapped back to the recording.
4. `TimedResult`: how words reach the screen and `result.json`.
5. `AsrDecoder`, `Decoding`: chunks, the encoder's cache, endpoints, word times, with the
   decode thread of `wenet.cc` and the non-blocking loop of `wenet_api.cc` as clients.
6. `ServerSession`: one connection of each of the three servers, with its client.
7. `Playback` and its proofs: `OggStreamPlayer` under `PlaybackController`.
8. `ContextGraph`, `CtcPrefixBeamSearch`, `LatticeFasterDecoder`,
   `LatticeDeterminizerPruned`, `SkippedFrames`, `CtcWfstBeamSearch`: the searchers against definitions over alignments and over paths of the graph.
9. `PersonalVad`, `Karaoke`, `Recordings`, `RecordingEncoder`: what becomes of a recording.
10. `BlockingQueue`, `DecoderMain` and their proofs.
11. `Timeline_proofs`; `Spectrogram`: the picture of a recording that is played.
12. `Transcoding`: other files of sound.
13. `FstTools`, `ArpaLmCompiler`, `TableMatcher`, `DeterminizeStar`, `LabelChecker`: the graphs
    the decoder searches.
14. `FstUtils`: the rest of what Kaldi does to a graph before and after determinization.

All of it is built.  Theorems came in the order of the modules: the pipeline with its
refinement, the recording session, the queue, the speech detector; then the recordings on
disk, the servers, the streaming decoder and the player; then the picture, the pool, the
files, the speaker gate with its text, the hot words, and the frames that are skipped.
What is left is in section 5, under "Only model-checked".

## 3. How the models correspond to the code

Data is abstracted to what the properties tell apart: a sample is its position in
the recording, a frame the window of samples it was computed from, an encoder output
the window of frames or its number, a buffer the session it was recorded in and its
number, a text or a summary the recording it is of.  Lost, repeated, reordered or
misplaced data are then visible as such.  What a network says (speech or not, blank
or not, the best hypothesis) is a free choice.

| module | stands for | variables and steps |
|---|---|---|
| `FrameStream` | what `feature_pipeline.h` promises | frames produced and delivered, finished and ended flags; `Produce`, `Finish`, `Deliver`, `End`, `Restart` |
| `FeaturePipeline` | `feature_pipeline.cc`, the framing of `fbank.h`, the calls made of `blocking_queue.h` | members under their own names; one step per critical section of the queue's mutex and per step on `mutex_` and `finish_condition_`: `AcceptWaveform` (compute, keep samples, push), `NotifyOne`, `FinishCall`, `SetInputFinished`; `ReadCall` (size test), `LockMutex`, `TestFinished`, `Wait`, `SpuriousWake`, `TestSize`, `Pop`; `Reset` |
| `RecordingSession` | the Record/Stop and Play handlers, `startRecordThread` and `startAsrThread` of `MainActivity.java`, `reset`, `start_decode`, `decode_thread_func` of `wenet.cc` | fields under their own names, one program counter per thread and session; one step per access to a shared field, `put`, `take` or JNI call; `RunPosted` for runnables on the UI thread |
| `SileroVad` | `SileroVad.java` | fields under their own names; the residual array is an array with an identity, so that a slot of the ring can refer to it; a step makes at most one callback |
| `VadTimeline` | counters and offset map of `wenet.cc`, `vadCallback` and settings of `MainActivity.java` | extends `SileroVad`; each callback becomes the JNI calls the Java code makes for it, in its order |
| `TimedResult` | `decode_thread_func` and `get_timed_result_delta` of `wenet.cc`, the ASR thread's display loop | the JSON text as a sequence of words, markers and commas; one step per access to the shared string or flag |
| `AsrDecoder` | `asr_decoder.cc`, `asr_model.cc`, `ctc_endpoint.cc`; `Reset`, `ForwardEncoderFunc` and the input of `AttentionRescoring` in `onnx_asr_model.cc` and `torch_asr_model.cc` | members under their own names; `AdvanceDecoding` is a step that ends in one of the states `Decode` returns, `Rescoring`, `ResetContinuousDecoding`, `Reset`; the attention cache as the numbers of the outputs in its columns; the network is external: it attends to what the mask leaves and keeps the last `required_cache_size` columns; the pipeline is used as `FrameStream` describes it |
| `Decoding` | the loop of `decode_thread_func` and of `Recognizer::Decode` in `wenet_api.cc` | extends `AsrDecoder`; which client, with or without continuous decoding, is chosen initially |
| `ServerSession` | `websocket_server.cc`, `grpc_server.cc`, `http_server.cc` and their clients | client main and read loop, handler, decode thread, a connection in both directions that may be lost between any two steps; the protocol is chosen initially; messages are their type and the audio they cover |
| `Playback` | `OggStreamPlayer.java`, `PlaybackController.java` | UI, decoder and player thread by their points; volatile fields and `pcmQueue` under their own names; the codec is a FIFO of one, the track a count |
| `Spectrogram` | `SpectrogramView.java` in playback mode, `OggPcmDataSource` of `PcmDataSource.java`, the threads of `MainActivity.java` that prepare a picture | UI thread, the loaders of windows, of which `reloadIfPlayback` may begin one while another runs, and their workers; `read` by its accesses to the two fields of the cache; a column is the samples it was computed from |
| `ContextGraph` | `context_graph.cc` | a state is the part of a hot word read; failure states found breadth first as in `ConvertToAC`, whose arcs give back what the shorter match does not keep; `GetNextState` |
| `CtcPrefixBeamSearch` | `ctc_prefix_beam_search.cc` | a probability is a whole weight: a sum of logs is a product, `LogAdd` a sum, a reward of n a factor 2^n; one step per frame, the hash map read in any order; `FinalizeSearch`, `Reset` |
| `LatticeFasterDecoder` | `lattice-faster-decoder.cc`, `lattice-faster-online-decoder.cc` | costs are whole numbers; tokens by frame and state with their links and backpointers, the lists in their order; every function of the search an operator on the decoder's members |
| `LatticeDeterminizerPruned` | `determinize-lattice-pruned.cc`, `lattice-weight.h`, `ConvertLattice` | extends `LatticeFasterDecoder`; weights are pairs, strings sequences; `EpsilonClosure`, `NormalizeSubset`, the two hashes as what they remember, the priority queue as a set whose top is any task of the least cost |
| `SkippedFrames` | the frames that `ctc_wfst_beam_search.cc` skips | `decoded_frames_mapping`, the frame given back between equal symbols, `ConvertToInputs`; `HearFrame`, `ResetFrames` |
| `CtcWfstBeamSearch` | the rest of `ctc_wfst_beam_search.cc` | extends `LatticeDeterminizerPruned` and `SkippedFrames`, whose steps are parts of its own; one step per frame, `FinalizeSearch`, `Reset`; one step per task of the determinization, `EndDeterminization` when the queue is empty or memory is short |
| `PersonalVad` | `PersonalVadProcessor.java` | accumulated samples, hysteresis, segments, by chunks; the network's answer is its place among the two thresholds |
| `Karaoke` | `KaraokeController.java` | spans of words in text and time, colours, the highlight, taps; both binary searches |
| `Recordings` | `RecordingManager.java` and the handlers, threads and tasks of `MainActivity.java` around it | directories as a function of names; one step per handler, runnable, thread body or task; a session is its `startRecord` and its ASR thread, `asr` the number of those alive, which may be of several sessions; each mishap that excuses a property is recorded in `mishaps` |
| `RecordingEncoder` | `RealtimeEncoder.java`, the recorder threads | one encoder and one thread per recording; the fields `record` and `realtimeEncoder` they share; one step per call of the codec and per early return of `startRecordThread` |
| `Transcoding` | the codec loops of `MainActivity.java` and `AudioConverter.java` | one step per buffer offered to or taken from the codec, failures, deletion and closing; which loop is chosen initially |
| `BlockingQueue` | `blocking_queue.h` | the two conditions as sets of waiting threads; a step is what a thread does from the moment it has the mutex until it waits or leaves; spurious wake-ups |
| `FstTools` | `remove-eps-local-inl.h`, `AddSelfLoops`, what is used of OpenFst's `VectorFst` | operators on a record of the start, the arcs and final costs of each state |
| `FstUtils` | `fstext-utils-inl.h`, `pre-determinize-inl.h` | operators on the same graphs: labels and weights changed, linear graphs and n-best lists read, symbols put in before determinization and taken out after it, random alignment; `SafeDeterminizeWrapper` by steps |
| `ArpaLmCompiler` | `arpa-file-parser.cc`, `arpa-lm-compiler.cc`, as `arpa2fst` uses them | one step per line of the file, per section, and one when it has been read |
| `TableMatcher` | `table-matcher.h` | a table by label when a state has enough labels, else a search; one step per call of the composition |
| `DeterminizeStar` | `determinize-star-inl.h`, `fstdeterminizestar.cc` | one step per subset taken from the queue, with its epsilon closure as a fold over a queue of its own; a step writes the result |
| `LabelChecker` | `label_checker_main.cc` | the text mapped to labels and both graphs at the start; then the paths through their composition, one arc at a time |
| `DecoderMain` | `thread_pool.h`, `decoder_main.cc` | workers by their points, `tasks`, `stop`; main with its two pools, tasks that may throw |

`FeaturePipeline`'s theorem that it implements `FrameStream` is what allows
`RecordingSession`, `AsrDecoder`, `Decoding` and `ServerSession` to use the pipeline as an
ordered stream that ends after its last element.

## 4. What is checked

`MC*` modules give constants the values that a configuration cannot write.  Seven of them also hold systems that do not
interact, side by side, and choose one initially: `MCGraph` the graph tools, `MCRecordingEncoder` a recording that is encoded or a file that is converted, `MCSearch` the two searchers (the
constructor of `AsrDecoder` does the same), `MCQueues` the queue or the pool, `MCVadTimeline` the times of words or their way to the screen, `MCPlayback` the sound or the picture,
`MCMyVoice` one recording from the speaker gate to the coloured text, or the screens of
several recordings.  A run replaces no definition.

| run | question | result |
|---|---|---|
| `pipeline` | Can any interleaving of writer and reader lose, repeat, reorder or wrongly cut a frame, end early, block in `Pop`, or lose the end? | no; and every behaviour is one of `FrameStream` |
| `session` | From microphone to `result.json`, with and without the speech detector and with recorder failures: is a buffer lost, the input finished twice, a result saved too early, a stopped session not saved? | a stopped session is saved, or its ASR thread is stuck in `take()` (finding 3); nothing else goes wrong |
| `timeline` | Are samples forwarded or reported as skipped exactly once and at their place, and do word times map back to the recording?  Is `result.json` complete and well formed, and no word missed on the screen, whatever the display does? | yes, within the millisecond that the two divisions lose |
| `vad_alias` | Are the forwarded samples those that were recorded? | no: finding 4 |
| `decoding` | Across chunks, endpoints, ends and resets: is every frame encoded, at the place its time says, do endpoints follow the rules, are word times ordered, does the encoder see its segment and no other, does every client finish? | yes |
| `server` | Over a connection that may be lost at any time, are messages in order, does the last result cover the audio, is every client served, does every handler end? | yes, but for a WebSocket handler that joins a decode thread nobody feeds, after a read error other than a close |
| `player` | Whatever is pressed: are chunks heard in order, is the end reported when all was heard, does playing go on, do released threads end; is the picture that of the recording on the screen, and does it appear? | yes, but for a player resumed after the file was decoded to its end (finding 10), a sentinel that a seek clears, and the windows that findings 12 and 13 and the reloading in section 6 are about |
| `search` | Are scores sums over alignments, times those of one alignment, rewards those of the prefix, skipped frames harmless?  With a decoding graph, is the lattice exactly what lies within its beam of the best path, and the best path the best, whatever is pruned on the way?  Whichever of equal tasks is taken first and whenever memory runs out, does the n-best list have each sequence of words once, with its best path's cost and alignment, in order and without gaps? | yes, while frames are searched; findings 8 and 9 are about the end and about which alignment, finding 15 about hot words in the graph, finding 17 about a hot word right behind another |
| `myvoice` | Are the speaker's words black and the highlight where the player is; does a result, a summary, an audio or a detail ever get to another recording? | yes; and only in the mishaps listed in section 6 |
| `encoder` | Is a file the recording, each frame at its time, when its thread has finished? | yes, unless the codec was too slow, the next recording had begun, or the microphone could not be had; a converted file is whole and in place (finding 16 is about its source) |
| `graph` | Does a language model's graph give each sentence what the ARPA file gives it; do determinization, epsilon removal and loops for disambiguation symbols keep what a graph reads and its costs, and symbols put in before determinization come out again; does a table matcher find what a sorted matcher would; is each complete path of the label checker's graph an alignment of the text? | yes, for functional inputs and files whose n-grams' heads are listed; what else was met is in section 6 |
| `queues` | Does the queue keep order and capacity and leave nobody asleep beside work; does the pool run every task once and end? | yes |

Properties are conjunctions of named parts where the parts make one statement
(`EveryFrameDecoded`, `RewardsBelongToPrefix`, ...); each part has its own comment.  The
properties of a part in which something is known to go wrong name it: the history variable
`mishap` or `mishaps` records that it came about, and each exception was checked to
be needed.

### Bounds and why they are enough

- `pipeline`: frames of 3 samples every 2 (so that they overlap), audio in pieces of
  1, 2 and 5 samples (inside a frame, to its border, several frames), reads of 1 and
  2 frames (the one that can be short by a frame, and `ReadOne`), 9 samples and one
  `Reset`: two utterances with up to four frames.  The theorems need none of it.
- `session`: a queue of 2 buffers and up to 3 of them, so that the recorder blocks on a
  full queue and the ASR thread on an empty one; one session, two runnables posted at a
  time, the detector's setting and each failure of the recorder as choices.  Overlapping
  sessions multiply the state space; that they cannot finish the input twice, which aborts
  the app, is proved for any number of them (`FinishOnce`).  What overlapping sessions do to each other's
  data is no property: they share their fields, and no document says they may not.
  `Conserved` and `SavedCoversAccepted` therefore speak of a first session.
- `timeline`: chunks of 2 samples in buffers of 1, 2, 3 and 5 (shorter, equal,
  longer, completed over three buffers); 1 to 3 slots; up to 13 samples, which fill
  and wrap the largest ring, go through speech, trailing silence and back; one
  trailing chunk of silence; 2 samples per millisecond and a padding of 7, so that
  both divisions truncate and padding exceeds what is skipped at a time, as 1000 ms
  exceed 32 ms.  `MayResize` is `FALSE`: settings change between recordings.
  For `TimedResult` up to 2 words in each of 3 segments, so that a delta can begin inside, at
  the border of, and after a segment.
- `decoding`: the real numbers of the model (subsampling 4, context 6 and so 7 frames
  per window; 10 ms per frame; words pulled back by 100 ms), chunks of 2 outputs and
  no chunks, frames in pieces of 4 and 11, 30 frames: three chunks.  The silences of
  the endpoint rules are 160, 80 and 240 ms, four, two and six outputs, so that
  each of them fires first somewhere.  Torch with all and with one left chunk, ONNX
  with one: the second chunk is the first to see a cache, the third the first to
  see one cut off.  There is no bound on the number of utterances.
- `server`: three pieces of audio: one before, one at, one after an endpoint.  Every
  protocol, both values of `continuous`, right and wrong first messages.
- `player`: three chunks and a queue of two, so that the decoder can block on a full
  queue and have ended before the last chunk is heard; seeks to the beginning and
  into the last chunk.  There is no bound on what is pressed.  Or a picture: a window of
  two columns, one per worker, at the end of the recording and one before it; a decoder
  that decodes one sample more than a column needs, so that at one place the second
  worker decodes beside the first, as all do when 40 s of audio are not enough for the
  window, and at the end both.  Two events (openings, scrolls, changes of the
  range of colours, failing decoders) in the
  run; some exceptions of `WindowIsTheRecording` need three, with which TLC finds them.
- `search`: every sequence of up to four frames over two units: `1 blank 1` and a
  frame more, the shortest in which the cases of the token passing meet; beams that cut
  nothing, that cut hypotheses, and that cut units; five lists of hot words that overlap with
  themselves and with each other, are prefixes of each other, have unknown units, or
  follow each other.
  With a decoding graph five frames: enough for pruning at every frame and at every
  second one to meet tokens that a later frame makes useless; one graph of units and
  one of words that share units, with parallel and chained epsilon arcs, and with a
  final state of its own; a wide beam with a narrow lattice, a narrow beam with a wide
  lattice, and at most two active tokens.  Without a list of results five frames; three
  with one (a list of two, of three, and of two with hot words); two where memory may
  run out, which is asked at every second state instead of at every tenth, so that it
  happens between any two tasks, and three tries instead of ten: the first, one on a
  pruned lattice, and the last, which takes what it has.
- `myvoice`: chunks of 2 units, one chunk of hangover, recordings of up to 7 units: three
  chunks and a rest.  Three names, two recordings at the start and so one name to
  record under or to rename to, five acts of the user; or one recording at the start
  and three acts, enough for two sessions that overlap (Record, Stop, Record).  What
  threads and tasks do is not bounded.  A recording without segments is opened only after
  one of at most two chunks was made: what it shows does not depend on what was recorded.
- `encoder`: two recordings of up to 5 reads of half a frame (two frames and a half), a
  codec with one input buffer.  Files of 0 to 13 samples, buffers of 3, packets of 4, one
  sample kept of two, bars of three: a bar ends inside a packet.
- `graph`: more than 1,200 ARPA files of orders 1 to 4 over two words, with unknown words,
  misplaced `<s>` and `</s>`, missing heads and tails, n-grams of an order in two orders of
  lines, and every sentence of up to three words; transducers of four states, one arc and
  up to six of nine others: epsilons with and without output, outputs that come late,
  two ways to a state of which the better comes later, a loop; at most four output states, and two
  where a partial result is allowed.  Sorted states of up to four labels for the matcher,
  with every ratio at which it makes a table.  Texts of up to three labels in
  which a label is repeated or unknown, and paths of up to three frames.
- `queues`: a capacity of 2, two producers and two consumers of single values, one
  each of vectors up to 3, longer than the queue, and requests of 0, 1 and 3; five
  calls.  Two workers, up to three waves, with and without a warm-up.

Deadlock is not checked where the system stops by design: a session that was saved,
audio up to the bound, a thread or connection that has ended.  `timeline` checks it: a
recording can always be followed by another.

### Fairness

- `FeaturePipeline`: a thread inside a call goes on, and the decode thread calls
  `Read` again until it returns false, as `decode_thread_func` does.  Taking `mutex_`
  is strongly fair: the reader releases it whenever it waits or returns, and a thread
  that tries for ever gets it in the end.  Nobody is assumed to speak, to finish
  or to reset, and no wait is assumed to end spuriously.
- `RecordingSession`: every thread that can run does, and the UI thread ends its
  handlers and runs what was posted.  A press of a button is never assumed.  A thread
  in `take()` or `put` is disabled while it is blocked, not forced through.
- `Decoding`: the thread that decodes goes on; audio may stop arriving at any time.
- `ServerSession`: the client program, the handler and the decode thread go on; a
  connection is never assumed to be lost.
- `Playback`: the two threads go on and a posted callback is run; a button is never
  assumed to be pressed, and a call of the UI thread goes on.
- `Spectrogram`: some thread that can go on does; each load and each runnable is finite, so
  that it need not be said of each thread.  Nobody is assumed to open, stop or scroll.
- `RecordingEncoder`: recorder threads and the codec go on; no press is assumed, nor that
  a runnable enables the button.
- `DecoderMain`: main goes on and each worker does when it can; a waiting worker that
  nobody notifies stays where it is, since no spurious wake-up is assumed.

### Findings

The run `vad_alias` checks a sentence of the repository and ends in a violation.  The
others below are kept as definitions, marked "TLC refutes it", in the modules; adding
the definition as the only `INVARIANT` or `PROPERTY` of the configuration named (with
the constants changed as said) shows the counterexample again.

1. `AsleepOnlyIfStarved`, `C/frontend/feature_pipeline.cc:104`: `AcceptWaveform` notifies
   without `mutex_`; a reader between its size test and its wait sleeps beside queued
   frames until the next call.  `feature_pipeline.h:118`: "It will block the thread when
   there is no feature in feature_queue_ and the input is not finished."
   (`FeaturePipeline.cfg` with `ReadSizes <- MCReadOne`.)
2. `NeverAcceptAfterFinish`, `J/MainActivity.java:410`: Stop finishes the input while the ASR
   thread still feeds what is queued; what is accepted after the decoder has seen the
   end is not saved.  `feature_pipeline.h:112`: "Never call AcceptWaveform() after calling
   set_input_finished() !"  (`RecordingSession.cfg`.)
3. `StopSaves`, `J/MainActivity.java:872`: the ASR thread can be in `take()` when the
   recorder has put its last buffer; the session is then never saved, though
   `android/README.md:54` says it is.  (`RecordingSession.cfg`.)
4. `ForwardsTheAudio`, `J/SileroVad.java:140`: the pre-buffer keeps the residual array
   itself, which later calls overwrite.  (Run `vad_alias`.)
5. `StartsBeforeEnd`, `android/app/src/main/cpp/wenet.cc:223`: start and end of a word can
   be given different offsets, and the start then lies after the end.
   (`VadTimeline_alias.cfg` with `MaxFed = 14`.)
6. `OneSilencePerGap`, `wenet.cc:158`: each evicted chunk pushes a second of silence, not
   each gap as the comment at 155 says.  (The same.)
7. `DeltasAreNewArrays`, `wenet.cc:324`: a delta taken while the decode thread appends can
   end in a comma or repeat words.  `wenet.cc:317`: "Returns only NEW timed tokens since
   last call (as JSON array)."  (`VadTimeline.cfg`.)
8. `BacksOffAtEnd`, `C/decoder/ctc_prefix_beam_search.cc:192`: `FinalizeSearch` takes one step
   back with the fallback's weight; a shorter match that the fallback state still is
   keeps its reward, though the comment says that unfinished contexts are backed off.
   (`Search.cfg`.)
9. `TimesAreViterbi`, `C/decoder/ctc_prefix_beam_search.h:42`: `times_ns` may be those of
   another alignment than the one `v_ns` is the score of.  (`Search.cfg`.)
10. `TouchedWordPlays`, `J/OggStreamPlayer.java:200`: `resume` leaves a seek to the decoder
    thread, which has ended once the end of the file is decoded, up to twenty chunks
    before it is heard; the end marker was cleared by `pause`, so that the player waits for
    ever.  `android/README.md:37` says that touching a word plays from there.
    (`Playback.cfg` with `Chunks = 2`, `SeekTargets = {0, 1}`.)
11. `StopsReceiving`, `C/grpc/grpc_server.cc:145`: the handler reads until the stream ends and
    never tests `stop_recognition_`.  `grpc_server.h:53`: "When endpoint is detected, stop
    recognition, and stop receiving data."  (`ServerSession.cfg`.)
12. `DecodedOnce`, `J/SpectrogramView.java:260`: the first read fills the cache, but the workers
    fill it again at the end of a recording, and all along a window of more than 40 s.
    Line 258: "Pre-warm cache for OggPcmDataSource (triggers decodeWindow once,
    single-threaded)".  The two fields of the cache then disagree: columns are drawn from
    the wrong place, also in later windows, and the array can be too short for the copy,
    which ends the app with the source open (`DiesOnlyIfClosed`).  (`Playback.cfg`.)
13. `NoLateWindow`, `StopsShowing`, `J/SpectrogramView.java:297`, `J/MainActivity.java:1582`: a window
    is published over whichever source there is, and stays until the view is scrolled;
    a picture that was being prepared when playback was stopped is shown all the same.
    (`Playback.cfg`.)
14. `NeverThrows` with `MayResize`, `J/SileroVad.java:64`: the settings screen can be used while a
    recording goes on, and `setPreBufferSlots` changes the number of slots but not the
    ring, which has the old size until the next `reset`: with more slots than before the
    next silence goes past its end, and the ASR thread with it.  (`Spec` of `SileroVad`
    alone, `VadTimeline` being about settings that change between recordings, with the
    constants of `VadTimeline.cfg` and `MayResize = TRUE`.)
15. `RepeatsEarnNothing`, `C/kaldi/decoder/lattice-faster-decoder.cc:826`: a label is to earn no
    reward when the line before says "Current ilabel is blank or current ilabel equals to
    previous."; but the label and the context state of a token are never stored where the
    emitting arcs are taken.  A repeated label earns the reward at each frame, the later
    units of a hot word earn none, `UpdateFinalContext` finds no token inside a hot word,
    and the reward is in the links only: the n-best lattice has it, the pruning and the
    path traced back for partial results do not.  (`Search.cfg`.)

16. `DeletesOnlyCompressed`, `J/MainActivity.java:1062`: "Delete original PCM after successful
    compression", but the file is closed after that, in `finally`, where an exception of
    `muxer.stop` is ignored: source and result are then lost.  Nothing calls
    `compressToAac`, `decodeOpusToPcm` or `AudioConverter` at this commit; the recorder
    encodes as it goes.  (`RecordingEncoder.cfg`.)
17. `EveryHotWordIsRewarded`, `C/decoder/context_graph.cc:193`: a final state that fails to the
    start, and one that fails to a leaf, get no arc to fall back by.  `GetNextState` then
    goes to the start and drops the unit it was asked about, so that a hot word which
    begins with that unit right behind another is not rewarded in full: with the words
    `1`, `1 1` and `2 1` the prefix `1 2 1` earns 2 and not 3.  It is rewarded if it is the
    first, or if no hot word is a part of another (`HotWordIsRewarded`).  (`Search.cfg`.)

### Mutants

Each property of a passing run, and nearly each part of one, has a definition `Mut_...`
before the definition it changes, in the way a plausible bug would (a missing overlap, an
early test, a flag set too soon); with it the run finds the property violated.

## 5. What is proved

Eight modules hold theorems; each names the assumptions on constants it rests on.  An
`ASSUME` stands in the module that declares the constant and TLC evaluates it on every run
of a module that extends it.  The proof of an invariant has one lemma for each action and
part of the inductive invariant it can disturb; the modules that prove most begin with
lemmas about sequences, finite sets or the model's own operators.

`FeaturePipeline_proofs`, for every frame length, shift, chunk and read size
(`FramingAssumption`, `SizesAssumption`):

| theorem | states | why |
|---|---|---|
| `InvariantHolds` | `IInv` | inductive: `TypeOK`, `NothingLost`, `FramesAreWindows`, `EndMeansAll`, `Control`, `Framing` |
| `TypeCorrect` | `TypeOK` | a conjunct of `IInv` |
| `NoFrameLost` | `NothingLost` | frames go from the back of `feature_queue_` to the reader in one step; inductive as it stands |
| `StreamingFraming` | `FramesAreWindows` | needs `Framing`: the kept samples are exactly those after the last frame's shift |
| `EndAfterEverything` | `EndMeansAll` | needs `Control`: who holds the mutex at each point of `Read`, and what it has seen there |
| `PopAlwaysServed` | `PopNeverBlocks` | needs `Control`: between the size test and the pop nobody else takes frames |
| `PipelineImplementsStream` | `StreamSpec` | the mapping takes the history of frames, the finished flag and `ended`; every step is a step of `FrameStream` or a stutter, by the invariant |

`RecordingSession_proofs`, for every capacity, number of sessions and buffers, and failure of
the recorder (`SessionAssumption`):

| theorem | states | why |
|---|---|---|
| `InvariantHolds` | `IInv` | `TypeOK`, `Hands`, `Detector`, `BeforeFirst`, `Recording`, `FinishNeverAborts`, `Conserved` together are inductive |
| `TypeCorrect` | `TypeOK` | with it `bufferQueue`'s capacity |
| `NothingLostInASession` | `Conserved` | needs `Hands` (a thread holds a buffer at one point only), `Detector` (what the speech detector holds), `BeforeFirst` (everything is empty before the first session) |
| `SavedResultIsComplete` | `SavedCoversAccepted` | needs `ResultInv`: what is due when the input is finished is ahead in the pipeline, what was decoded and what is on the screen (`DueIsAhead`), and a result is saved after the decode thread's last word (`SavedAfterAll`) |
| `FinishOnce` | `FinishNeverAborts` | needs `Recording`: while `startRecord` is set the UI is idle and the input open |

`Queues_proofs`, about `BlockingQueue`, for any threads, capacity, vectors and blocks
(`CapacityAssumption`, `BatchesAssumption`, `PopSizesAssumption`); the invariant `QueueIInv`
says what is in the queue and how far each thread is with its vector or block, `WakeInv`
who waits, and that enough others are awake:

| theorem | states | why |
|---|---|---|
| `QueueTypeCorrect` | `QueueTypeOK` | a push waits until there is room for one value |
| `QueueKeepsOrder` | `FirstInFirstOut` | what was pushed is what was popped followed by the queue; a step moves values from one to the other under the mutex |
| `NobodyIsStranded` | `NobodyStranded` | needs `WakeInv`: with single values, while a consumer waits there are as many consumers awake, or notifications to come, as values, and while a producer waits as many producers as places; with one thread on each side, whoever leaves work behind has woken the other |

`NobodyIsStranded` is for finitely many threads (`ThreadsAssumption`: the invariant counts
them) and for vectors between one producer and one consumer (`GroupsAssumption`), which is
how the program uses them; with more it is false (section 6).  The same module is about
`DecoderMain`, for any workers, numbers of waves, warm-ups and lengths of waves
(`WorkersAssumption`, `WaveCountsAssumption`, `WarmupsAssumption`, `WaveDurAssumption`):

| theorem | states | why |
|---|---|---|
| `WavesAreCountedOnce` | `EveryWaveCountedOnce` | `MainIInv`: a wave is waiting, in one worker's hands, or done, and in one of these only (`EachOnce`: `Dealt`, `Apart`, `Placed`), and the totals are those of the waves that are done (`Summed`), a sum whose change by one wave is shown by induction on its length |

and about files of sound, for any number of recordings, pieces and samples, codecs of any
depth, and failures at any step (`EncoderAssumption` of `RecordingEncoder`;
`TranscodingAssumption`: a packet of 20 ms at 48 kHz is a whole number of samples at 8 kHz):

| theorem | states | why |
|---|---|---|
| `FilesStayTheRecording` | `FilesAreTheRecording` | for an encoder `EncoderIInv`: what was fed is what is in the file followed by what the codec holds (`Lined`), an encoder meets another one's recording only in a mishap that is recorded (`Met`), and without any mishap a thread has recorded and is in its own encoder (`Own`); for a conversion `TranscodingIInv`: codec and file are what was read, in order and each piece at its time (`InCodec`, `FileIsDelivered`), up to the piece where a loop stops (`FileIsWhole`, `FileIsBegun`) |

`Timeline_proofs` follows a sample and a word through three modules.  `SileroVad`, for every
size of chunk, buffer, ring and silence (`VadAssumption`), when the number of slots is
changed between recordings only (`~MayResize`):

| theorem | states | why |
|---|---|---|
| `InvariantHolds` | `IInv` | inductive: `EverySampleInPlace`; `Ring`, where the k-th oldest chunk of the ring lies and which samples it holds; `Points`, which samples the buffer, the residual and the chunk in hand are at each point of `process` |
| `EverySampleOnce` | `EverySampleInPlace` | a conjunct of `IInv`: every sample is forwarded or reported as skipped once and at its place, and no index leaves the ring |

With the setting changed during a recording it is false: finding 14.  `VadTimeline`, with any
number of samples in a millisecond (`TimelineAssumption`):

| theorem | states | why |
|---|---|---|
| `TimelineInvHolds` | `TimelineInv` | inductive: `Counters` (what is fed is the recording without what was skipped, and the padding), `Pieces` (the pieces of audio heard, each before the padding of the gap behind it), `MapSorted`, and `Governed`: for each piece there is an entry with its offset that begins no later, and no later entry begins before its end |
| `TimesAreOfTheRecording` | `TimesAreRecordingTimes` | `LookupOffsetMs` of a word's time then finds that entry, and each of the two truncating divisions loses less than a millisecond |

A gap's padding must be a millisecond or more (`SilencePad >= SamplesPerMs`; the code pads
8000 samples and has 8 in a millisecond): with less, a new entry could begin in the
millisecond in which the piece before it ends.  `TimedResult`, for any number of segments and
of words (`ResultAssumption`):

| theorem | states | why |
|---|---|---|
| `ResultIsComplete` | `ResultsAreComplete` | `ResultInv` is inductive: `Progress` (the string is what was decoded without what is still to be appended, with a comma after all but the last), `Announced` (`endpoints` never exceeds the markers appended), `Fetched` (what the reader of the delta has seen at each of its three accesses) |

`MyVoice_proofs`, about `Recordings`, for any set of names and any number of acts of the user:

| theorem | states | why |
|---|---|---|
| `RecordingsAreWhole` | `RecordingsStayWhole` | `WholeInv`: one directory for each recording that was made and not deleted with a confirmation (`OneDirectoryEach`), and what each thread, task and open screen may still write, and where; as long as no two sessions overlapped, what is heard is the current recording (`RecordedInPlace`) |
| `ScreensAreOfTheDisk` | `ScreensFollowDisk` | `ScreenInv`: the list, the search's copy of it, the loaded details and the open menu, each with the mishap that excuses it |

and about `PersonalVad` and `Karaoke`, for any chunk, hangover, recording, threshold answers,
list of words and position of the player (`PersonalVadAssumption`, `KaraokeAssumption`: the
lists are lists of words and the times are numbers, in whatever order); `VoiceIInv` is `VoiceInv` of the gate and `KaraokeInv` of the text:

| theorem | states | why |
|---|---|---|
| `SpeakersWordsAreBlack` | `VoiceFromAudioToText` | `AllHeard` and `SegmentsSettled`: every chunk has been judged, and the segments, in order and apart, are the chunks the hysteresis let through; the text has the segments that were saved or none (`TextIsOfSaved`), and a word is gray when its binary search through them finds none that meets it, which is when there is none |
| `TextFollowsTheSound` | `TextAndSoundAgree` | an action property: `Shown` with `Marks` says that the highlight is the word the search finds for the position, by whatever way it came there, if the times are in order; `Placed`, that the words' spans in the text are in order and apart, so that a tap finds at most one |

`ServerSession_proofs`, for a file of any length, each protocol, and a connection that may
be lost between any two steps (`ServerAssumption`); `ServerInv` is inductive:

| theorem | states | why |
|---|---|---|
| `ServerInvHolds` | `ServerInv` | `UpInOrder`, `Opening` (before the first message is read nothing has happened), `Balance` (each piece sent is on its way, in hand, or accepted), `AudioEnds`, `Reported` and `SentInOrder` (where the decode thread is and what it has written), `Covered`, `Delivered` |
| `MessagesAreOfTheAudio` | `MessagesCoverAudioInOrder` | the order is `SentInOrder`; that a last result covers the audio needs `AudioEnds` and `Balance`: an end signal that arrives means that all pieces did, unless an endpoint had ended recognition |

`Decoding_proofs`, for every subsampling, right context, frame shift, silences, chunk sizes,
lengths and models (`DecoderAssumption`, `EncoderAssumption`, `ClientAssumption`), for both
clients and any number of utterances; `DecodeInv` is inductive:

| theorem | states | why |
|---|---|---|
| `FramesAreDecoded` | `EveryFrameDecoded` | needs `SegmentInPhase`: after n outputs of a segment `n * subsampling_rate_` frames and the cached ones have been read, and the cache holds the last of them; the windows of the next chunk then begin where the last ended |
| `EndpointsAreByRule` | `EndpointsByRule` | needs `EndpointerCounts`: the two counters are the number of outputs of the segment and of the blanks at its end |
| `WordsAreInOrder` | `WordsInOrder` | needs `PublishedBefore`: what is published ends before the segment begins; within it `TokenTimes` keeps the order, since two tokens that are close share one border |
| `ModelIsOfTheSegment` | `ModelKeepsTheSegment` | needs `CacheHolds`: the columns of the cache are the last outputs in order, behind zeros when its size is fixed |

`DecoderAssumption` has the context reach over a frame's subsampling
(`right_context_ + 1 >= subsampling_rate_`, else frames would be dropped between windows), and
a chunk at least as long as the features kept for the next one: `CacheFeature` says that it
deals with that case only (`asr_model.cc:30`).  `ClientAssumption` bounds the frames of an
utterance by `INT_MAX`, the number `num_frames_for_chunk` asks for when there are no chunks.

The same module is about hot words in `CtcPrefixBeamSearch`, for any units, frames with any
scores (`LogProbsAssumption`), beams, order of the hash map, and lists of hot words that are
not empty (`ContextSetsAssumption`):

| theorem | states | why |
|---|---|---|
| `RewardsAreThePrefixes` | `RewardsBelongToPrefix` | `CtcInv`: the graph is one that was built, and the state and the score of each hypothesis are those of walking through it with the hypothesis' prefix (`ContextsWalked`), however it was reached and merged |

What a walk does is said by lemmas about `ContextGraph`: the failure state that `ConvertToAC`
finds by following failure states is the longest proper suffix that begins a hot word
(`SuffixMeans`), so that the state after a prefix is the longest suffix of it that does, but
for what finding 17 says, and the arcs back take exactly what the forward arcs of the match
that is given up have paid (`WalkRewarded`, `RewardInFull`).

And about `SkippedFrames`, for any frames and any threshold from which on the blank is the
best unit (`SkippedAssumption`: `blank_skip_thresh` is a probability of 0.98, or of 1 by default on the
command line; with one of a half or less a skipped frame could speak for a unit):

| theorem | states | why |
|---|---|---|
| `SkippedFramesAreMapped` | `FramesAreMapped` | `FramesInv`: what begins in the accepted frames begins in all frames, at the number that is mapped to (`InStep`, `Numbered`), and `last_best`, `is_last_frame_blank` and `last_frame_prob` are those of the last frame accepted and of the last one heard (`LastAccepted`, `LastHeard`); hence the frame that is given back stands between two equal units that both begin |

And about the paths that `LabelChecker` lets the decoder take, for any unit table and texts
(`LabelsAssumption`: a character is a unit or is not in the table), paths of any length and
the default penalties:

| theorem | states | why |
|---|---|---|
| `AlignmentsAreRight` | `AlignmentIsRight` | `LabelIInv` says of every path what the property says of finished ones: the last frames are of the unit being read (`SaysSoFar`); a start that is not closed is the one the filler's states are for, with units only behind it and, at `filler_end`, one at least (`PairedSoFar`); a unit is paid for if and only if it stands behind such a start (`PaidSoFar`, `InsertedMore`); before the first start the state counts the labels (`InOrderSoFar`) |

Recursive functions are reasoned about by the least-number principle: that they exist is the
lemma `Recursion`, and what they compute follows by `StrongInduction`.

`Playback_proofs`, for a recording and a queue of any length and any positions to seek to
(`PlaybackAssumption`), with the user, the decoder thread and the player thread interleaved;
`PlaybackInv` is inductive:

| theorem | states | why |
|---|---|---|
| `PlaybackInvHolds` | `PlaybackInv` | `DecoderInv`, `QueueInv` and `PlayerInv` number the chunks from the file through the codec (`FromCodec`), the decoder thread (`Ahead`) and the queue to the hand of the player thread (`Upcoming`): each is followed by the next, but for what a thread holds of an old position, and while a served seek has not cleared the queue (`Known`); `ActiveInv` and `ReleaseInv` say which threads are left |
| `PlayerShowsWhatIsHeard` | `ShownIsHeard` | needs `ButtonInv`: while a call is under way the button says Pause |
| `HeardInOrderToTheEnd` | `HeardToTheEnd` | an action property: a chunk that is written follows the last one, and the sentinel follows the last chunk, both by `PlayerInv` |

and of the picture, for any recording, width, cache and window (`SpectrogramAssumption`;
`WorkersAssumption`: there are one to four workers):

| theorem | states | why |
|---|---|---|
| `SeenIsTheRecording` | `PictureIsTheRecording` | `PictureInv` follows a load that is sound, one whose source is still the screen's and whose cache no other worker has filled, from the first read (`CacheInv`) through each worker (`ReadersInv`) to the bitmap (`BitmapInv`) and the window (`WindowInv`); while no range is set during a load there is one load at a time (`OneLoad`); what happens to other loads is findings 12 and 13 and the reloading in section 6, and `DiesOnlyIfRaced` says that nothing else ends the app |

What a theorem states for every value of the constants is not repeated by the `session` and
`queues` runs where it is only about types or the shape of the state (`TypeOK`,
`QueueTypeOK`); TLC checked those invariants, and the inductive ones, before they were proved.

Only model-checked:

- liveness, which is out of TLAPS's reach: `FinishReachesReader`, `StopSavesUnlessStuck`,
  `ClientFinishes`, `BothEndsFinish`, `PlayingGoesOn`, `PictureAppears`, `EncoderIsClosed`, `MainEnds`;
- `ScoresAndTimesOfAlignments`: a score is compared with a sum over all alignments of a
  prefix, and a proof would need a theory of such sums over recursively defined sets;
- `LatticeIsRight`, `NbestIsRight` and `GraphsKeepTheirMeaning`: the lattice decoder, the
  determinization and the graph tools walk through queues and graphs by `RECURSIVE`
  operators, which no module with a theorem may reach, and are compared with all paths.

## 6. What is not modelled, and why

- Kaldi and OpenFst under `C/kaldi` and `C/patch` are vendored, and are two thirds of
  the lines under `core/`.  Of them the lattice decoder is modelled, whose search the
  WFST beam search runs at each frame and which was changed for hot words, the
  determinization that makes its n-best lists, and what the tools do that build its graph.  Not in them: `GetRawLatticePruned`, the
  `Output` to an uncompacted lattice, the determinization of phone lattices and the rest
  of `lattice-functions.cc`, which nobody calls; the numbering by `TopSortTokens`, the size
  of the hashes, the memory that strings and subsets share and `RebuildRepository`; costs
  that are rounded (the narrower beam of a further try is rounded up to a whole number).
  After the last try a list may be short: memory that ran out again leaves the part of
  the lattice that was reached, and nothing is claimed of what is missing.
- In the graph tools: composition, minimization, sorting and connecting, which are OpenFst's;
  the log semiring (`--use-log`); `PhiCompose`, `RhoCompose` and `PropagateFinal`; `allow_partial`, which no tool sets, is
  a choice.  In the label checker the loop over files, which calls the modelled parts in a
  fixed order.
- Tensors, features, spectra and networks are numeric; text processing, JSON and wave
  files are pure functions; views, settings, Slack and OpenAI clients and
  sharing are straight-line I/O.  None has control that depends on another part.
- In `FeaturePipeline`: the queue's capacity (it is `INT_MAX`), the per-utterance
  normalisation option of `fbank.h`, which changes values and not frames; `ReadOne`
  is a `Read` of one frame.
- In `RecordingEncoder`: what a `read` of the microphone returns after another thread has
  replaced the `AudioRecord` in the field is what that one records.
- In `RecordingSession`: settings changed during a recording, the live display, the
  speaker gate, audio files; what native code does when Java objects are used by two
  sessions at once beyond the shared fields.
- In `SileroVad`: `init`, `release`, and the pass-through while no network is loaded.
- In `wenet.cc`: `total_result`'s text and partial results.  `last_partial_pieces` is
  never filled, since `UpdateResult` gives word pieces to final results only: its
  fallback is dead code and left out.
- In `Decoding`: the setters of the C API and a call after the last one without
  `wenet_reset`.  With continuous decoding, a last call that meets an endpoint
  returns with frames still queued; `EndCoversAll` is claimed without it.
- In the models: loading, the convolution cache, tensors.  The options are assumed to be
  those an ONNX model was exported for.  Otherwise: a model exported without left
  chunks used with `num_left_chunks > 0` writes before its mask in the first chunks
  (`onnx_asr_model.cc:316`), and one exported with left chunks used with -1 gets no mask.
- In `ServerSession`: messages that cannot be parsed, wrong messages after the first,
  base64, the accept loops, whose connections do not share state.
- In `Playback`: opening a file (`Recordings` has it), position callbacks, the decimation
  of samples.
- In `Spectrogram`: the microphone's picture, zooming, a window longer than the recording,
  a decoder that seeks inexactly, `FilePcmDataSource`, which nobody uses for playback.
  `decodeWindow`'s array is taken to be filled when it is assigned.
  Fields without a lock are read and written one at a time, in the order of the
  program; a weaker memory would add outcomes to those of findings 12 and 13.
- In the searchers: rounding; `SplitContextToUnits`.
  A list of hot words none of which is known leaves a graph whose start has no arc, and
  `GetNextState` then reads one (`context_graph.cc:239`), and an empty hot word fails a `CHECK` (142): neither
  is an input of the model.
- In `Transcoding`: several channels (`decodeOggEnergyBars` takes every file for one channel);
  a codec whose buffers hold no multiple of the decimation, in each of which it begins
  anew.
- In `Recordings`: durations; `searchRecordings`, which nobody calls.
- In `DecoderMain`: an exception of `Decode` stays in the future of its task, which nobody
  reads; the totals then lack the wave (`failed`).
- Data races on plain fields (`total_result`, `timed_result_json`, `useVad`) have no defined
  outcome; where such a field is modelled, readers get one of the values written.

Hazards of this code beside the list in `PROJECT.json`:

- `C/kaldi/base/kaldi-error.h`: `KALDI_ERR` is defined as glog's `ERROR` here: it logs and does not throw.
  `arpa2fst` therefore writes a graph for a file it could not read or that has
  no `<s>` (`errors`), `fstdeterminizestar` one of the outputs of a graph that is
  not functional (`functional`), and `--max-states`, "Maximum number of states in
  determinized FST before it will abort" (`fstdeterminizestar.cc:80`), stops nothing.
- `C/kaldi/lm/arpa-lm-compiler.cc:223`: a highest-order n-gram makes the state of its tail; a
  later one that begins with that tail is then kept although its own head is not listed,
  so that the order of the lines decides (`WellFormed`).
- `C/kaldi/fstext/table-matcher.h`: `TableCompose` ignores the filter type, and so
  `fsttablecompose --compose-filter` has no effect.
- `C/kaldi/fstext/remove-eps-local-inl.h`: an arc into a state whose only arc is in a cycle
  of epsilons is combined for ever; no graph of `arpa2fst` has one.
- `C/bin/label_checker_main.cc:107`: the filler states are shared by all positions, so that after an
  insertion the path may go on at any other one: labels are skipped without a
  `<del>`, or read twice (`AlignmentIsRight` claims the labels' order where nothing was
  inserted).  Line 85: equal units may follow each other without a blank.

- `J/MainActivity.java:93`: a buffer put after the ASR thread has left its loop stays in
  `bufferQueue` and begins the next recording; nothing clears the queue.
- `J/MainActivity.java:473`: `useVad` and the model are changed by the settings screen
  while the ASR thread runs.
- `C/api/wenet_api.cc:158`: with continuous decoding a last call may return at an endpoint.
- `wenet.cc:158`: one second of padding for every 32 ms skipped: the decoder works through
  about 31 times the length of a silence.
- `C/utils/blocking_queue.h:68`: with vectors and two consumers, or two producers of vectors
  and one consumer, one `notify_one` for several values leaves a thread asleep beside work;
  `:121`: `Clear` tests and pops under two locks, and blocks if another consumer comes
  between.  The program has one thread on each side of every queue.
- The mishaps of `Recordings`: prepares that end out of order leave the player of the last
  to finish with the newest listener ("overtaken"); a recording renamed or deleted while it
  is made loses its result, or writes it over another's ("moved"); a summary is saved under
  what is open when the answer comes ("askedEarly", "notOpened"), and a recording
  without words leaves the last text on the screen to be summarised ("noWords");
  `allNames` is never updated, so that an empty search brings back names that are gone
  ("gone"); a recording that begins while the last session's threads are alive shares their
  recogniser and their name ("overlapped"): its text may hold the words of both, either
  result may be saved under the new name, and a live text of the session before, posted but
  not yet run when `Record` clears the text, has a `substring` out of range, which ends the
  app (`J/MainActivity.java:1292`); search results under an open menu make its position stale, and the
  item that is removed another or none ("underMenu"); `loadingSet` is never cleared,
  so that a name used again never loads its details ("nameReused").
- `J/MainActivity.java:705`: a recorder thread that gets no `AudioRecord`, cannot start it or
  finds that another thread has taken it returns without `realtimeEncoder.release()`: codec
  and file stay open ("unrecorded").  In the last of these cases `startRecord` stays set.
- `J/MainActivity.java:942`: `lastDisplayedText` is set by `buildLiveDisplay` only, which nobody
  calls (`updateResultAndScroll` neither), so that the text it is the fallback for stays empty.
- `J/SpectrogramView.java:487`: a new range of colours clears `windowLoading`, also while a load
  runs ("reloaded"): when the window is out of date, as it is until a load has ended, a
  second one begins on the same source and cache, the first to end clears the flag of the
  other, and the last to end is shown, wherever the view is by then.  If the window is up
  to date, nothing is loaded or drawn anew, and the new range is not seen.
- `J/OggStreamPlayer.java`: a start that fails leaves `playing` set; the decoder thread may use a
  codec that `release` has closed; a seek after the last chunk and before its callback
  starts a player that the callback then declares complete.

## 7. Running

In this directory: `tlasany M.tla` parses a module, `tlc -config X.cfg M` checks one
(module and configuration of each run are in `PROJECT.json`), `tlapm M.tla` checks the
proofs of the `*_proofs` modules.  Each run takes about two minutes or less but `player`, `myvoice`
and `decoding`, which take up to four.
