------------------------------ MODULE TimedResult ------------------------------
(***************************************************************************)
(* How words get from the decode thread of wenet.cc to the screen and to   *)
(* result.json: timed_result_json and its read position, shared without a  *)
(* lock, and has_new_endpoint and decode_thread_done, which are atomic.    *)
(*                                                                         *)
(* The string is a sequence of tokens: words, the newline marker of an     *)
(* endpoint, commas.  An access to it is one step; of accesses that        *)
(* overlap only that they happen in some order is assumed.                 *)
(***************************************************************************)
EXTENDS Integers, Sequences, SequencesExt, FiniteSets

CONSTANTS MaxWords,     \* bound: words in a segment
          MaxSegments   \* bound: segments in a recording

ASSUME ResultAssumption == MaxWords \in Nat /\ MaxSegments \in Nat \ {0}

Comma == <<0, 0>>
Newline == <<0, 1>>
Word(segment, i) == <<segment, i>>

VARIABLES
  dec,                \* where the decode thread is
  state,              \* what Decode returned
  tokens,             \* word pieces and marker it has still to append
  segments,           \* segments that have ended
  decoded,            \* history: the word pieces and markers of all of them
  timed_result_json,
  has_new_endpoint, decode_thread_done,
  asr,                \* where the ASR thread is
  last,               \* is it past its loop, in the last update of the display?
  cur_len, delta,     \* local variables of get_timed_result_delta
  timed_result_sent_pos,
  returned,           \* history: the tokens the deltas have returned
  endpoints, seen,    \* history: endpoints announced, and announced when last asked
  saved               \* result.json

decVars == <<dec, state, tokens, segments, decoded, timed_result_json, decode_thread_done,
             endpoints>>
asrVars == <<asr, last, cur_len, delta, timed_result_sent_pos, returned, seen, saved>>
resultVars == <<decVars, has_new_endpoint, asrVars>>

ResultInit ==
  /\ dec = "decode" /\ state = "kEndBatch" /\ tokens = <<>> /\ segments = 0
  /\ decoded = <<>>
  /\ timed_result_json = <<>>
  /\ has_new_endpoint = FALSE /\ decode_thread_done = FALSE
  /\ asr = "loop" /\ last = FALSE /\ cur_len = 0 /\ delta = <<>>
  /\ timed_result_sent_pos = 0
  /\ returned = {} /\ endpoints = 0 /\ seen = 0
  /\ saved = <<>>

--------------------------------------------------------------------------------
(***************************************************************************)
(* Decode thread, decode_thread_func.                                      *)
(***************************************************************************)
Words(n) == [i \in 1..n |-> Word(segments + 1, i)]

\* Decode, up to the end of a segment, and Rescoring, which gives it word pieces.
Decode ==
  /\ dec = "decode"
  /\ \E n \in 0..MaxWords :
       \/ /\ segments + 1 < MaxSegments
          /\ state' = "kEndpoint"
          /\ tokens' = Append(Words(n), Newline)
       \/ /\ state' = "kEndFeats"
          /\ tokens' = Words(n)
  /\ segments' = segments + 1
  /\ decoded' = decoded \o tokens'
  /\ dec' = "append"
  /\ UNCHANGED <<timed_result_json, decode_thread_done, endpoints, has_new_endpoint,
                 asrVars>>

\* AppendWordPiecesToJson, and the marker: a comma if there is something before it ...
AppendComma ==
  /\ dec = "append" /\ tokens # <<>>
  /\ timed_result_json' = IF timed_result_json = <<>> THEN timed_result_json
                          ELSE Append(timed_result_json, Comma)
  /\ dec' = "token"
  /\ UNCHANGED <<state, tokens, segments, decoded, decode_thread_done, endpoints,
                 has_new_endpoint, asrVars>>

\* ... and the object.
AppendToken ==
  /\ dec = "token"
  /\ timed_result_json' = Append(timed_result_json, Head(tokens))
  /\ tokens' = Tail(tokens)
  /\ dec' = "append"
  /\ UNCHANGED <<state, segments, decoded, decode_thread_done, endpoints, has_new_endpoint,
                 asrVars>>

\* Mutant: the endpoint is announced before its words and marker are there.
Mut_AnnounceFirst ==
  /\ dec = "append" /\ state = "kEndpoint"
  /\ IF endpoints < segments
     THEN /\ has_new_endpoint' = TRUE
          /\ endpoints' = endpoints + 1
          /\ dec' = dec
     ELSE /\ tokens = <<>>
          /\ dec' = "decode"
          /\ UNCHANGED <<has_new_endpoint, endpoints>>
  /\ UNCHANGED <<state, tokens, segments, decoded, timed_result_json, decode_thread_done, asrVars>>

AnnounceEndpoint ==
  /\ dec = "append" /\ tokens = <<>> /\ state = "kEndpoint"
  /\ has_new_endpoint' = TRUE
  /\ endpoints' = endpoints + 1
  /\ dec' = "decode"
  /\ UNCHANGED <<state, tokens, segments, decoded, timed_result_json, decode_thread_done, asrVars>>

\* Mutant: done is set when the end is reached, as state is.
Mut_DoneWithState ==
  /\ dec = "append" /\ state = "kEndFeats"
  /\ decode_thread_done' = TRUE
  /\ dec' = IF tokens = <<>> THEN "exit" ELSE "append"
  /\ UNCHANGED <<state, tokens, segments, decoded, timed_result_json, endpoints,
                 has_new_endpoint, asrVars>>

DecodeThreadDone ==
  /\ dec = "append" /\ tokens = <<>> /\ state = "kEndFeats"
  /\ decode_thread_done' = TRUE
  /\ dec' = "exit"
  /\ UNCHANGED <<state, tokens, segments, decoded, timed_result_json, endpoints,
                 has_new_endpoint, asrVars>>

DecodeThread ==
  Decode \/ AppendComma \/ AppendToken \/ AnnounceEndpoint \/ DecodeThreadDone

--------------------------------------------------------------------------------
(***************************************************************************)
(* ASR thread: the live display after each buffer, and the saved result.   *)
(***************************************************************************)

\* hasNewEndpoint clears the flag it reads.  The display is updated for an endpoint,
\* now and then without one, and a last time after the loop.
HasNewEndpoint ==
  /\ asr = "loop"
  /\ has_new_endpoint' = FALSE
  /\ seen' = endpoints
  /\ \/ asr' = "delta" /\ last' = FALSE
     \/ asr' = "loop" /\ last' = FALSE /\ ~has_new_endpoint
     \/ asr' = "delta" /\ last' = TRUE
  /\ UNCHANGED <<decVars, cur_len, delta, timed_result_sent_pos, returned, saved>>

DisplayDone == asr' = IF last THEN "wait" ELSE "loop"

\* get_timed_result_delta: the length is read and compared ...
DeltaLength ==
  /\ asr = "delta"
  /\ cur_len' = Len(timed_result_json)
  /\ IF cur_len' = timed_result_sent_pos THEN DisplayDone ELSE asr' = "substr"
  /\ UNCHANGED <<decVars, has_new_endpoint, last, delta, timed_result_sent_pos,
                 returned, seen, saved>>

\* ... the rest of the string is copied, as long as it is by then ...
DeltaSubstr ==
  /\ asr = "substr"
  /\ delta' = SubSeq(timed_result_json, timed_result_sent_pos + 1, Len(timed_result_json))
  /\ asr' = "return"
  /\ UNCHANGED <<decVars, has_new_endpoint, last, cur_len, timed_result_sent_pos,
                 returned, seen, saved>>

Delta == IF Head(delta) = Comma THEN Tail(delta) ELSE delta

\* Mutant: the position is set to the length of the string instead of cur_len.
Mut_PositionFromSize ==
  /\ asr = "return"
  /\ timed_result_sent_pos' = Len(timed_result_json)
  /\ returned' = returned \cup ToSet(Delta)
  /\ DisplayDone
  /\ UNCHANGED <<decVars, has_new_endpoint, last, cur_len, delta, seen, saved>>

\* Mutant: the position is advanced by what was returned and a comma.
Mut_PositionByDelta ==
  /\ asr = "return"
  /\ timed_result_sent_pos' = timed_result_sent_pos + Len(delta) + 1
  /\ returned' = returned \cup ToSet(Delta)
  /\ DisplayDone
  /\ UNCHANGED <<decVars, has_new_endpoint, last, cur_len, delta, seen, saved>>

\* ... and the position is set to the length read at first.
DeltaReturn ==
  /\ asr = "return"
  /\ timed_result_sent_pos' = cur_len
  /\ returned' = returned \cup ToSet(Delta)
  /\ DisplayDone
  /\ UNCHANGED <<decVars, has_new_endpoint, last, cur_len, delta, seen, saved>>

\* getFinished, and then saveTimedResult, which writes get_timed_result.
Save ==
  /\ asr = "wait"
  /\ decode_thread_done
  /\ saved' = timed_result_json
  /\ asr' = "exit"
  /\ UNCHANGED <<decVars, has_new_endpoint, last, cur_len, delta,
                 timed_result_sent_pos, returned, seen>>

AsrThread == HasNewEndpoint \/ DeltaLength \/ DeltaSubstr \/ DeltaReturn \/ Save

ResultNext == DecodeThread \/ AsrThread
ResultSpec == ResultInit /\ [][ResultNext]_resultVars

--------------------------------------------------------------------------------
ResultTypeOK ==
  /\ dec \in {"decode", "append", "token", "exit"}
  /\ asr \in {"loop", "delta", "substr", "return", "wait", "exit"}
  /\ state \in {"kEndBatch", "kEndpoint", "kEndFeats"}
  /\ segments \in 0..MaxSegments
  /\ has_new_endpoint \in BOOLEAN /\ decode_thread_done \in BOOLEAN
  /\ cur_len \in 0..Len(timed_result_json)
  /\ timed_result_sent_pos \in 0..Len(timed_result_json)

IsToken(t) == t # Comma

\* The tokens with a comma between two of them: the inside of a JSON array.
IsArrayOf(s, ts) ==
  /\ Len(s) = IF ts = <<>> THEN 0 ELSE 2 * Len(ts) - 1
  /\ \A i \in DOMAIN ts : s[2 * i - 1] = ts[i]
  /\ \A i \in 1..(Len(ts) - 1) : s[2 * i] = Comma

\* What result.json gets is a JSON array of all the words and markers of all segments,
\* each once and in order, whatever the display was doing meanwhile.
SavedIsComplete ==
  asr = "exit" => dec = "exit" /\ saved = timed_result_json /\ IsArrayOf(saved, decoded)

\* A delta may repeat a word, but none is missed: what lies before the position kept
\* for the next delta has been returned by an earlier one.
DeltasMissNothing ==
  \A i \in 1..timed_result_sent_pos :
    IsToken(timed_result_json[i]) => timed_result_json[i] \in returned

MarkersUpTo(n) == Cardinality({i \in 1..n : timed_result_json[i] = Newline})

\* When the display has been updated because of an endpoint, the marker of that
\* endpoint, and so all its words, have been fetched.
EndpointIsFetched ==
  asr \in {"loop", "wait", "exit"} =>
    MarkersUpTo(timed_result_sent_pos) >= seen

\* The file and the screen get every word: what is saved once decode_thread_done is seen
\* lacks none, and the screen gets all that get_timed_result_delta may still return,
\* however the decode thread's appends fall between its accesses.
ResultsAreComplete ==
  ResultTypeOK /\ SavedIsComplete /\ DeltasMissNothing /\ EndpointIsFetched

--------------------------------------------------------------------------------
Token == (0..MaxSegments) \X (0..(MaxWords + 1))
Appended == Len(decoded) - Len(tokens)

\* What the decode thread has still to append is the rest of what it has decoded; after
\* AppendComma, and not before the first token, there is a comma for the next one.
Progress ==
  /\ decoded \in Seq(Token \ {Comma}) /\ tokens \in Seq(Token \ {Comma})
  /\ timed_result_json \in Seq(Token)
  /\ Appended \in Nat
  /\ \A i \in DOMAIN tokens : tokens[i] = decoded[Appended + i]
  /\ dec \in {"decode", "exit"} => tokens = <<>>
  /\ dec = "token" => tokens # <<>>
  /\ dec = "decode" \/ state = "kEndpoint" => segments < MaxSegments
  /\ dec = "exit" <=> decode_thread_done
  /\ Len(timed_result_json) = IF Appended = 0 THEN 0
                              ELSE IF dec = "token" THEN 2 * Appended ELSE 2 * Appended - 1
  /\ \A i \in 1..Appended : timed_result_json[2 * i - 1] = decoded[i]
  /\ \A i \in 1..Appended : 2 * i <= Len(timed_result_json) => timed_result_json[2 * i] = Comma

\* An endpoint is announced after its marker, which comes after its words.
Announced ==
  /\ endpoints \in Nat /\ endpoints <= MarkersUpTo(Len(timed_result_json))
  /\ dec \in {"append", "token"} /\ state = "kEndpoint" =>
       IF tokens = <<>> THEN endpoints + 1 <= MarkersUpTo(Len(timed_result_json))
       ELSE tokens[Len(tokens)] = Newline

\* What the display has asked for and what it has got.
Fetched ==
  /\ delta \in Seq(Token)
  /\ seen \in Nat /\ seen <= endpoints
  /\ ~has_new_endpoint => seen = endpoints
  /\ asr \in {"substr", "return"} =>
       timed_result_sent_pos < cur_len /\ MarkersUpTo(cur_len) >= seen
  /\ asr = "return" =>
       /\ delta # <<>>
       /\ \A i \in 1..cur_len : IsToken(timed_result_json[i]) =>
            timed_result_json[i] \in returned \cup ToSet(delta)
  /\ asr = "exit" => dec = "exit" /\ saved = timed_result_json

ResultInv ==
  ResultTypeOK /\ Progress /\ Announced /\ Fetched /\ DeltasMissNothing /\ EndpointIsFetched

\* wenet.cc:317: "Returns only NEW timed tokens since last call (as JSON array)."
\* TLC refutes it: see the README, "Findings".
DeltasAreNewArrays ==
  asr = "return" =>
    /\ Len(Delta) % 2 = 1 /\ \A i \in DOMAIN Delta : IsToken(Delta[i]) <=> i % 2 = 1
    /\ \A t \in ToSet(Delta) \ {Comma, Newline} : t \notin returned
================================================================================
