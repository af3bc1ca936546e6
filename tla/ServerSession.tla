----------------------------- MODULE ServerSession -----------------------------
(***************************************************************************)
(* One connection to websocket_server.cc, grpc_server.cc or http_server.cc,*)
(* with the client of the repository at its other end: the client's main   *)
(* thread and reader, the handler that reads messages, its decode thread,  *)
(* and a connection that can be lost at any time.                          *)
(*                                                                         *)
(* Audio is counted in the pieces the client sends.  The decoder is used   *)
(* as Decoding describes it: it consumes what was accepted, reports        *)
(* endpoints, and reports the end once the input is finished and consumed. *)
(***************************************************************************)
EXTENDS Integers, Sequences, SequencesExt

CONSTANT MaxAudio     \* bound: pieces of audio in the client's file
ASSUME ServerAssumption == MaxAudio \in Nat

VARIABLES
  proto, continuous,  \* "ws", "grpc" or "http"; the client's option
  client, length,     \* where main is; pieces in its file
  audio, done_,       \* pieces sent; has the reader seen speech_end?
  reader, received,   \* ReadLoopFunc; history: what it has read
  conn, up, down,     \* the connection: to the server, to the client
  srv, got_start_tag_, \* where the handler is
  stop_recognition_,
  accepted, finished, \* the pipeline: pieces accepted, is the input finished?
  dec, state,         \* where the decode thread is; what Decode returned
  decoded,            \* pieces the decoder has consumed
  sent                \* history: the messages the server has written

clientVars == <<client, audio, done_, reader, received>>
srvVars == <<srv, got_start_tag_, accepted, finished>>
decVars == <<dec, state, decoded, stop_recognition_>>
choice == <<proto, continuous, length>>
vars == <<choice, clientVars, conn, up, down, srvVars, decVars, sent>>

\* Client to server: the start signal (or first gRPC message), one that is wrong, audio,
\* a whole HTTP request, the end signal (or end of the stream).  Server to client:
Final(to) == [type |-> "final_result", to |-> to]
Answer(type) == [type |-> type, to |-> 0]

\* The client of the repository, or, for the error answers, one whose first message is
\* wrong: audio before the start signal, an option of the wrong type.
Init ==
  /\ proto \in {"ws", "grpc", "http"} /\ continuous \in BOOLEAN
  /\ length \in 0..MaxAudio
  /\ client \in {"start"} \cup (IF proto = "grpc" THEN {} ELSE {"wrong"})
  /\ audio = 0 /\ done_ = FALSE
  /\ reader = "read" /\ received = <<>>
  /\ conn = "open" /\ up = <<>> /\ down = <<>>
  /\ srv = "read" /\ got_start_tag_ = FALSE /\ stop_recognition_ = FALSE
  /\ accepted = 0 /\ finished = FALSE
  /\ dec = "none" /\ state = "kEndBatch" /\ decoded = 0
  /\ sent = <<>>

--------------------------------------------------------------------------------
(***************************************************************************)
(* The connection.                                                         *)
(***************************************************************************)
\* What was on its way arrives up to some message, or not at all.
Lose ==
  /\ conn = "open" /\ srv # "abort"
  /\ conn' = "lost"
  /\ up' \in Prefixes(up) /\ down' \in Prefixes(down)
  /\ UNCHANGED <<choice, clientVars, srvVars, decVars, sent>>

\* A client writes.  When the connection is gone, gRPC and HTTP report it in a result
\* nobody reads; a WebSocket's write throws, which main does not catch, or is buffered
\* and answered by a reset that discards what the client has not read.
ClientWrite(m, next) ==
  IF conn = "open"
  THEN up' = Append(up, m) /\ client' = next /\ UNCHANGED down
  ELSE /\ UNCHANGED up
       /\ client' \in IF proto = "ws" THEN {next, "abort"} ELSE {next}
       /\ down' \in IF proto = "ws" THEN Prefixes(down) ELSE {down}

\* The server writes, and goes on as next says, or, if the write throws, as failed says.
ServerWrite(m, next, failed) ==
  \/ /\ conn = "open"
     /\ down' = Append(down, m)
     /\ sent' = Append(sent, m)
     /\ next
  \/ /\ conn # "open"
     /\ next \/ (proto = "ws" /\ failed)
     /\ UNCHANGED <<down, sent>>

--------------------------------------------------------------------------------
(***************************************************************************)
(* Client: main, and ReadLoopFunc.                                         *)
(***************************************************************************)
clientRest == <<choice, conn, reader, received, done_, srvVars, decVars, sent>>

SendStartSignal ==
  /\ client \in {"start", "wrong"}
  /\ IF client = "wrong" THEN ClientWrite("wrong", "join")
     ELSE IF proto = "http" THEN ClientWrite("request", "join")
     ELSE ClientWrite("start", "data")
  /\ audio' = IF proto = "http" THEN length ELSE audio
  /\ UNCHANGED clientRest

SendBinaryData ==
  /\ client = "data" /\ audio < length /\ ~done_
  /\ ClientWrite("audio", "data")
  /\ audio' = audio + 1
  /\ UNCHANGED clientRest

SendEndSignal ==
  /\ client = "data" /\ (audio = length \/ done_)
  /\ ClientWrite("end", "join")
  /\ UNCHANGED <<audio, clientRest>>

\* A client that closes instead, and does not listen any more.
Close ==
  /\ proto = "ws" /\ client = "data"
  /\ ClientWrite("close", "left")
  /\ reader' = "exit"
  /\ UNCHANGED <<choice, conn, audio, received, done_, srvVars, decVars, sent>>

ClientJoin ==
  /\ client = "join" /\ reader = "exit"
  /\ client' = "exit"
  /\ UNCHANGED <<audio, up, down, clientRest>>

\* The reader stops at a failure and at speech_end; HTTP reads one response.
ReadLoop ==
  /\ reader = "read" /\ client # "abort"
  /\ IF down # <<>>
     THEN LET m == Head(down)
          IN /\ down' = Tail(down)
             /\ received' = Append(received, m)
             /\ done_' = (m.type = "speech_end")
             /\ reader' = IF proto = "http" \/ m.type \in {"failed", "speech_end"}
                          THEN "exit" ELSE "read"
     ELSE /\ conn # "open"
          /\ reader' = "exit"
          /\ UNCHANGED <<down, received, done_>>
  /\ UNCHANGED <<choice, client, audio, conn, up, srvVars, decVars, sent>>

--------------------------------------------------------------------------------
(***************************************************************************)
(* Handler: ConnectionHandler::operator(), OnText.                         *)
(***************************************************************************)
Read(m) == srv = "read" /\ up # <<>> /\ Head(up) = m /\ up' = Tail(up)
handlerRest == <<choice, clientVars, conn>>

\* OnSpeechStart: the answer, ...
OnSpeechStart ==
  /\ proto # "http" /\ Read("start")
  /\ got_start_tag_' = TRUE
  /\ ServerWrite(Answer("server_ready"), srv' = "start", srv' = "join")
  /\ UNCHANGED <<accepted, finished, decVars, handlerRest>>

\* ... pipeline, decoder and decode thread.
StartDecodeThread ==
  /\ srv = "start"
  /\ dec' = "decode"
  /\ srv' = "read"
  /\ UNCHANGED <<got_start_tag_, accepted, finished, state,
                 decoded, stop_recognition_, up, down, sent, handlerRest>>

\* Binary data: a WebSocket stops reading when recognition has stopped.
ReadBinary ==
  /\ Read("audio") /\ got_start_tag_
  /\ IF proto = "ws" /\ stop_recognition_ THEN srv' = "join" ELSE srv' = "data"
  /\ UNCHANGED <<got_start_tag_, accepted, finished, decVars, down, sent,
                 handlerRest>>

\* Mutant: the buffer outlives the loop, and each read is appended to the earlier ones.
Mut_BufferKept ==
  /\ srv = "data"
  /\ accepted' = 2 * accepted + 1
  /\ srv' = "read"
  /\ UNCHANGED <<got_start_tag_, finished, decVars, up, down, sent, handlerRest>>

OnSpeechData ==
  /\ srv = "data"
  /\ accepted' = accepted + 1
  /\ srv' = "read"
  /\ UNCHANGED <<got_start_tag_, finished, decVars, up, down, sent,
                 handlerRest>>

OnSpeechEnd ==
  /\ proto # "http" /\ Read("end")
  /\ finished' = (dec # "none")
  /\ srv' = "join"
  /\ UNCHANGED <<got_start_tag_, accepted, decVars, down, sent, handlerRest>>

\* Mutant: the pipeline is not told that the client has closed.
Mut_CloseIgnored ==
  /\ Read("close")
  /\ srv' = "join" /\ conn' = "closed"
  /\ UNCHANGED <<got_start_tag_, accepted, finished, decVars, down, sent, choice, clientVars>>

\* The client has closed the WebSocket: the read throws websocket::error::closed.
OnClosed ==
  /\ Read("close")
  /\ finished' = (dec # "none")
  /\ srv' = "join" /\ conn' = "closed"
  /\ UNCHANGED <<got_start_tag_, accepted, decVars, down, sent, choice, clientVars>>

\* OnError, with the close of the WebSocket after it, which ends the handler: the next
\* write or read throws.  HTTP shuts its side down and decodes nevertheless.
OnError ==
  /\ Read("wrong")
  /\ IF proto = "ws"
     THEN /\ ServerWrite(Answer("failed"), srv' = "join", srv' = "join")
          /\ UNCHANGED <<accepted, finished, dec>>
     ELSE /\ ServerWrite(Answer("failed"), srv' = "join", srv' = "join")
          /\ accepted' = length /\ finished' = TRUE /\ dec' = "decode"
  /\ conn' = IF conn = "open" THEN "closed" ELSE conn
  /\ UNCHANGED <<got_start_tag_, state, decoded, stop_recognition_,
                 choice, clientVars>>

\* An HTTP request: OnText, OnSpeechStart, OnSpeechData and OnSpeechEnd.
OnRequest ==
  /\ Read("request")
  /\ accepted' = length /\ finished' = TRUE
  /\ dec' = "decode"
  /\ srv' = "join"
  /\ UNCHANGED <<got_start_tag_, state, decoded, stop_recognition_,
                 down, sent, handlerRest>>

\* A read fails.  That is not websocket::error::closed: the input is not finished.  A
\* gRPC stream ends as if the client had ended it, and one without a first message
\* fails the CHECK of OnSpeechEnd, which aborts the server.
ReadFails ==
  /\ srv = "read" /\ up = <<>> /\ (conn = "lost" \/ client = "exit")
  /\ finished' = (proto = "grpc" /\ dec # "none")
  /\ srv' = IF proto = "grpc" /\ dec = "none" THEN "abort" ELSE "join"
  /\ UNCHANGED <<got_start_tag_, accepted, decVars, up, down, sent, handlerRest>>

\* The handler joins the decode thread and is destroyed, its socket with it.  A socket
\* closed with unread data is reset, which discards what the client has not read; a gRPC
\* stream is finished with a status.
HandlerJoin ==
  /\ srv = "join" /\ dec \in {"none", "exit"}
  /\ srv' = "exit"
  /\ conn' = IF conn = "open" THEN "closed" ELSE conn
  /\ up' = <<>>
  /\ down' \in IF proto = "grpc" \/ up = <<>> THEN {down} ELSE Prefixes(down)
  /\ UNCHANGED <<got_start_tag_, accepted, finished, decVars, sent,
                 choice, clientVars>>

--------------------------------------------------------------------------------
(***************************************************************************)
(* DecodeThreadFunc.                                                       *)
(***************************************************************************)
decodeRest == <<choice, clientVars, conn, up, srvVars>>

DecodeBatch ==
  /\ dec = "decode" /\ srv # "abort"
  /\ decoded < accepted
  /\ decoded' \in (decoded + 1)..accepted
  /\ state' = "kEndBatch"
  /\ \/ dec' = dec /\ UNCHANGED <<down, sent>>
     \/ /\ proto # "http"
        /\ ServerWrite(Answer("partial_result"), dec' = dec, dec' = "exit")
  /\ UNCHANGED <<stop_recognition_, decodeRest>>

DecodeEndpoint ==
  /\ dec = "decode" /\ srv # "abort"
  /\ decoded < accepted
  /\ decoded' \in (decoded + 1)..accepted
  /\ state' = "kEndpoint"
  /\ dec' = "final"
  /\ UNCHANGED <<stop_recognition_, down, sent, decodeRest>>

DecodeEndFeats ==
  /\ dec = "decode" /\ srv # "abort" /\ finished
  /\ decoded' = accepted
  /\ state' = "kEndFeats"
  /\ dec' = "final"
  /\ UNCHANGED <<stop_recognition_, down, sent, decodeRest>>

\* Mutant: recognition is continued and stopped as the comment at line 135 has it.
Mut_AfterFinal == IF proto = "http" THEN "exit"
                  ELSE IF state = "kEndpoint" /\ ~continuous THEN "decode" ELSE "finish"

\* Mutant: speech_end is sent at endpoints only.
Mut_NoFinish == IF proto = "http" THEN "exit"
                ELSE IF state = "kEndFeats" THEN "stop"
                ELSE IF continuous THEN "decode" ELSE "finish"

\* Rescoring, the final result, and at an endpoint ResetContinuousDecoding.
AfterFinal == IF proto = "http" THEN "exit"
              ELSE IF state = "kEndpoint" /\ continuous THEN "decode" ELSE "finish"

OnFinalResult ==
  /\ dec = "final" /\ srv # "abort"
  /\ ServerWrite(Final(decoded), dec' = AfterFinal, dec' = "exit")
  /\ UNCHANGED <<state, decoded, stop_recognition_, decodeRest>>

\* OnFinish, ...
OnFinish ==
  /\ dec = "finish" /\ srv # "abort"
  /\ ServerWrite(Answer("speech_end"), dec' = "stop", dec' = "exit")
  /\ UNCHANGED <<state, decoded, stop_recognition_, decodeRest>>

\* Mutant: the loop is not left after the end of the features.
Mut_NoBreak ==
  /\ dec = "stop" /\ srv # "abort"
  /\ stop_recognition_' = TRUE
  /\ dec' = "decode"
  /\ UNCHANGED <<state, decoded, down, sent, decodeRest>>

\* ... after which the handler may see that recognition has stopped.
StopRecognition ==
  /\ dec = "stop" /\ srv # "abort"
  /\ stop_recognition_' = TRUE
  /\ dec' = "exit"
  /\ UNCHANGED <<state, decoded, down, sent, decodeRest>>

--------------------------------------------------------------------------------
ClientMain == SendStartSignal \/ SendBinaryData \/ SendEndSignal \/ Close \/ ClientJoin
Handler == \/ OnSpeechStart \/ StartDecodeThread \/ ReadBinary \/ OnSpeechData
           \/ OnSpeechEnd \/ OnClosed \/ OnError \/ OnRequest \/ ReadFails \/ HandlerJoin
DecodeThread == \/ DecodeBatch \/ DecodeEndpoint \/ DecodeEndFeats
                \/ OnFinalResult \/ OnFinish \/ StopRecognition

Next == ClientMain \/ ReadLoop \/ Handler \/ DecodeThread \/ Lose
Spec == Init /\ [][Next]_vars

\* Every thread that can go on does; a connection need not be lost.
FairSpec == /\ Spec
            /\ WF_vars(ClientMain) /\ WF_vars(ReadLoop)
            /\ WF_vars(Handler) /\ WF_vars(DecodeThread)

--------------------------------------------------------------------------------
TypeOK ==
  /\ client \in {"start", "wrong", "data", "join", "left", "exit", "abort"}
  /\ audio \in 0..length /\ done_ \in BOOLEAN
  /\ reader \in {"read", "exit"}
  /\ conn \in {"open", "lost", "closed"}
  /\ srv \in {"read", "start", "data", "join", "exit", "abort"}
  /\ dec \in {"none", "decode", "final", "finish", "stop", "exit"}
  /\ accepted \in 0..audio /\ decoded \in 0..accepted
  /\ IsPrefix(received, sent)

Types(s) == [i \in DOMAIN s |-> s[i].type]
Finals(s) == {i \in DOMAIN s : s[i].type = "final_result"}

\* What a WebSocket or gRPC client is sent is server_ready, then partial and final
\* results, then speech_end, directly after a final result and once; without continuous
\* decoding there is one final result.  HTTP sends one response, whatever the pauses.
MessagesInOrder ==
  LET t == Types(sent)
  IN IF proto = "http" \/ "failed" \in ToSet(t) THEN Len(t) <= 1
     ELSE /\ \A i \in DOMAIN t : t[i] = "server_ready" <=> i = 1
          /\ \A i \in DOMAIN t :
               t[i] = "speech_end" => i = Len(t) /\ t[i - 1] = "final_result"
          /\ ~continuous => \A i, j \in Finals(sent) : i = j

\* A continuous session that ends has decoded all the audio, though endpoints and the
\* end signal may come in any order; and so has one that met no endpoint.
EndCoversAudio ==
  (/\ "speech_end" \in ToSet(Types(sent))
   /\ continuous \/ state = "kEndFeats"
   /\ conn # "lost")
  => /\ audio = length
     /\ \E i \in Finals(sent) : sent[i].to = audio /\ \A j \in Finals(sent) : j <= i

\* What a connection may write, in which order, and how much audio it stands for.
MessagesCoverAudioInOrder == TypeOK /\ MessagesInOrder /\ EndCoversAudio

(***************************************************************************)
(* The inductive invariant behind it.  What is on its way up: a first      *)
(* message, audio, an end.                                                 *)
(***************************************************************************)
FirstMessages == {"start", "wrong", "request"}
LastMessages == {"end", "close"}
Messages == FirstMessages \cup LastMessages \cup {"audio"}
FromServer == [type : {"server_ready", "partial_result", "final_result", "speech_end", "failed"},
               to : Nat]

FlagsTyped ==
  /\ proto \in {"ws", "grpc", "http"} /\ continuous \in BOOLEAN /\ length \in Nat
  /\ client \in {"start", "wrong", "data", "join", "left", "exit", "abort"}
  /\ audio \in 0..length /\ done_ \in BOOLEAN
  /\ reader \in {"read", "exit"} /\ conn \in {"open", "lost", "closed"}
  /\ srv \in {"read", "start", "data", "join", "exit", "abort"}
  /\ got_start_tag_ \in BOOLEAN /\ finished \in BOOLEAN
  /\ dec \in {"none", "decode", "final", "finish", "stop", "exit"}
  /\ state \in {"kEndBatch", "kEndpoint", "kEndFeats"} /\ stop_recognition_ \in BOOLEAN
  /\ accepted \in Nat /\ decoded \in 0..accepted

SequencesTyped ==
  /\ up \in Seq(Messages) /\ down \in Seq(FromServer)
  /\ received \in Seq(FromServer) /\ sent \in Seq(FromServer)

\* A first message comes first and, wrong or a request, alone; an end comes last.
UpInOrder ==
  \A i \in DOMAIN up :
    /\ up[i] \in FirstMessages => i = 1
    /\ up[i] \in {"wrong", "request"} => Len(up) = 1
    /\ up[i] \in LastMessages => i = Len(up)
    /\ up[i] = "start" => proto # "http"
    /\ up[i] = "audio" => proto # "http"
    /\ up[i] = "wrong" => proto # "grpc"
    /\ up[i] = "request" => proto = "http"
    /\ up[i] = "end" => proto # "http"
    /\ up[i] \in {"end", "wrong", "request"} => client \in {"join", "exit"}
    /\ up[i] = "close" => client = "left"

\* Until the first message is read nothing has happened.
Fresh == dec = "none" /\ sent = <<>> /\ accepted = 0 /\ ~finished /\ ~got_start_tag_
Opening ==
  /\ client \in {"start", "wrong"} =>
       /\ Fresh /\ up = <<>> /\ audio = 0
       /\ srv \notin {"start", "data"} /\ (conn = "open" => srv = "read")
  /\ client = "wrong" => proto # "grpc"
  /\ up # <<>> /\ up[1] \in FirstMessages => Fresh /\ srv = "read"
  /\ dec = "none" => state = "kEndBatch" /\ decoded = 0
  /\ dec = "none" /\ srv = "read" => accepted = 0 /\ (sent = <<>> \/ conn # "open")
  /\ srv = "start" => dec = "none" /\ proto # "http"
  /\ srv = "data" \/ (srv = "read" /\ got_start_tag_) => dec # "none"
  /\ proto = "http" => client \notin {"data", "left"} /\ srv # "data" /\ srv # "start"
  /\ finished => srv \in {"join", "exit"}

\* Where the audio is that was sent.
Opens(u) == IF u # <<>> /\ u[1] \in FirstMessages THEN 1 ELSE 0
Ends(u) == IF u # <<>> /\ u[Len(u)] \in LastMessages THEN 1 ELSE 0
AudioIn(u) == Len(u) - Opens(u) - Ends(u)
AtServer == accepted + (IF srv = "data" THEN 1 ELSE 0)
Balance ==
  /\ AtServer + AudioIn(up) <= audio
  /\ proto # "http" /\ conn = "open" /\ srv \in {"read", "start", "data"} =>
       AtServer + AudioIn(up) = audio
  /\ proto = "http" /\ client \notin {"start", "wrong"} => audio = length

\* When the client has said that the audio ends, it was all sent, or an endpoint had
\* ended recognition; when the input is finished, all was accepted.
Stopped == state # "kEndFeats" /\ ~continuous /\ \E i \in DOMAIN sent : sent[i].type = "speech_end"
AudioEnds ==
  /\ proto # "http" /\ conn = "open" /\ client \in {"join", "exit"} /\ srv \in {"read", "start", "data"}
       => up # <<>> /\ up[Len(up)] \in {"end", "wrong"}
  /\ up # <<>> /\ up[Len(up)] = "end" /\ conn = "open" => audio = length \/ Stopped
  /\ finished /\ conn = "open" /\ proto # "http" =>
       accepted = audio /\ client \in {"join", "exit"} /\ (audio = length \/ Stopped)

\* The decode thread and what it has reported.
Reported ==
  /\ state = "kEndFeats" => dec \notin {"none", "decode"} /\ finished /\ decoded = accepted
  /\ dec \in {"final", "finish", "stop"} => state # "kEndBatch"
  /\ dec \in {"finish", "stop"} => proto # "http"
  /\ dec \in {"finish", "stop"} /\ continuous => state = "kEndFeats"
  /\ ~continuous /\ dec \in {"none", "decode", "final"} => Finals(sent) = {}
  /\ dec = "finish" /\ conn = "open" => sent # <<>> /\ sent[Len(sent)] = Final(decoded)
  /\ (dec # "none" \/ srv = "start") /\ conn = "open" /\ proto # "http" => sent # <<>>

SentInOrder ==
  /\ proto = "http" => Len(sent) <= 1 /\ (sent = <<>> \/ conn # "open" \/ dec = "exit")
  /\ \A i \in DOMAIN sent :
       /\ sent[i].type = "failed" => Len(sent) = 1 /\ conn # "open"
       /\ sent[i].type = "server_ready" => i = 1
       /\ sent[i].type = "speech_end" => i = Len(sent) /\ i > 1 /\ sent[i - 1].type = "final_result"
       /\ sent[i].type = "speech_end" => dec \in {"stop", "exit"} /\ state # "kEndBatch"
                                         /\ (continuous => state = "kEndFeats")
       /\ proto # "http" /\ i = 1 => sent[i].type \in {"server_ready", "failed"}
  /\ ~continuous => \A i, j \in Finals(sent) : i = j

Covered ==
  (/\ \E i \in DOMAIN sent : sent[i].type = "speech_end"
   /\ state = "kEndFeats"
   /\ conn # "lost")
  => /\ audio = length /\ client \in {"join", "exit"}
     /\ sent[Len(sent) - 1] = Final(audio)

\* What the client has read and what is on its way to it are what the server wrote.
Delivered ==
  /\ IsPrefix(received \o down, sent)
  /\ conn = "open" => received \o down = sent
  /\ done_ => \E i \in DOMAIN sent : sent[i].type = "speech_end"

ServerInv ==
  /\ FlagsTyped /\ SequencesTyped /\ UpInOrder /\ Opening /\ Balance
  /\ AudioEnds /\ Reported /\ SentInOrder /\ Covered /\ Delivered

\* A client that is neither cut off nor stopped at an endpoint learns all results and
\* ends; a wrong one learns that it is.  Without continuous decoding, the server closes
\* a WebSocket into which main may still write, and main then aborts.
Served == \/ /\ client = "exit" /\ received = sent /\ sent # <<>>
             /\ Last(sent).type = IF proto = "http" THEN "final_result" ELSE "speech_end"
          \/ client = "exit" /\ received = <<Answer("failed")>>
          \/ conn = "lost" \/ client = "left"
          \/ proto = "ws" /\ ~continuous /\ client \in {"exit", "abort"}
ClientIsServed == <>Served

\* The reading thread of a WebSocket has lost its connection, and waits for a decode thread
\* that waits for audio.
StuckInJoin == /\ proto = "ws" /\ conn = "lost"
               /\ srv = "join" /\ dec = "decode" /\ ~finished /\ decoded = accepted

\* A handler ends, even if the connection is lost, or is stuck in its join; the server
\* aborts only when a gRPC stream is lost before its first message.
HandlerEnds ==
  <>[](\/ srv = "exit" \/ StuckInJoin
       \/ srv = "abort" /\ proto = "grpc" /\ conn = "lost" /\ sent = <<>>)

\* Both ends of a connection finish (main and the handlers of the three protocols).
BothEndsFinish == ClientIsServed /\ HandlerEnds

\* grpc_server.h:53: "When endpoint is detected, stop recognition, and stop receiving data."
\* TLC refutes it: see the README, "Findings".
StopsReceiving == [][stop_recognition_ /\ srv = "read" => srv' # "data"]_vars
================================================================================
