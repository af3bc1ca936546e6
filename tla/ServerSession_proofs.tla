------------------------- MODULE ServerSession_proofs -------------------------
(***************************************************************************)
(* What a connection may write, in which order, and how much audio it      *)
(* stands for, proved for a file of any length.                            *)
(***************************************************************************)
EXTENDS ServerSession, SequenceTheorems, TLAPS

--------------------------------------------------------------------------------
(***************************************************************************)
(* A queue that grows, is read from, or is cut short.                      *)
(***************************************************************************)
LEMMA AppendFacts ==
  ASSUME NEW S, NEW q \in Seq(S), NEW m \in S
  PROVE  /\ Append(q, m) \in Seq(S) /\ Len(Append(q, m)) = Len(q) + 1 /\ Append(q, m) # <<>>
         /\ Len(q) \in Nat /\ DOMAIN Append(q, m) = 1..(Len(q) + 1) /\ DOMAIN q = 1..Len(q)
         /\ \A i \in 1..Len(q) : Append(q, m)[i] = q[i]
         /\ Append(q, m)[Len(q) + 1] = m
OBVIOUS

LEMMA TailFacts ==
  ASSUME NEW S, NEW q \in Seq(S), q # <<>>
  PROVE  /\ Head(q) = q[1] /\ q[1] \in S
         /\ Tail(q) \in Seq(S) /\ Len(Tail(q)) = Len(q) - 1 /\ Len(q) \in Nat \ {0}
         /\ DOMAIN Tail(q) = 1..(Len(q) - 1) /\ DOMAIN q = 1..Len(q)
         /\ \A i \in 1..(Len(q) - 1) : Tail(q)[i] = q[i + 1]
         /\ Tail(q) = <<>> <=> Len(q) = 1
<1>1. /\ Head(q) \in S /\ Tail(q) \in Seq(S) /\ Len(Tail(q)) = Len(q) - 1
      /\ \A i \in 1..Len(Tail(q)) : Tail(q)[i] = q[i + 1]
  BY HeadTailProperties
<1>2. Len(q) \in Nat \ {0} /\ Head(q) = q[1] /\ DOMAIN q = 1..Len(q)
  OBVIOUS
<1>3. DOMAIN Tail(q) = 1..(Len(q) - 1)
  BY <1>1, <1>2, LenProperties
<1>4. Tail(q) = <<>> <=> Len(Tail(q)) = 0
  BY <1>1, EmptySeq
<1>5. QED BY <1>1, <1>2, <1>3, <1>4

LEMMA PrefixFacts ==
  ASSUME NEW S, NEW q \in Seq(S), NEW p \in Prefixes(q)
  PROVE  /\ p \in Seq(S) /\ Len(p) \in Nat /\ Len(q) \in Nat /\ Len(p) <= Len(q)
         /\ DOMAIN p = 1..Len(p) /\ DOMAIN q = 1..Len(q)
         /\ \A i \in 1..Len(p) : p[i] = q[i]
         /\ p = <<>> <=> Len(p) = 0
<1>1. PICK l \in 0..Len(q) : p = SubSeq(q, 1, l)
  BY DEF Prefixes
<1>2. p \in Seq(S) /\ Len(p) = l /\ \A i \in 1..l : p[i] = q[i]
  BY <1>1
<1>3. QED BY <1>1, <1>2

LEMMA IsPrefixFacts ==
  ASSUME NEW S, NEW a \in Seq(S), NEW b \in Seq(S)
  PROVE  IsPrefix(a, b) <=> Len(a) <= Len(b) /\ \A i \in 1..Len(a) : a[i] = b[i]
<1>1. ASSUME Len(a) <= Len(b)
      PROVE  SubSeq(a, 1, Len(a)) = SubSeq(b, 1, Len(a)) <=> \A i \in 1..Len(a) : a[i] = b[i]
  <2>1. /\ SubSeq(a, 1, Len(a)) \in Seq(S) /\ Len(SubSeq(a, 1, Len(a))) = Len(a)
        /\ \A i \in 1..Len(a) : SubSeq(a, 1, Len(a))[i] = a[i]
    OBVIOUS
  <2>2. /\ SubSeq(b, 1, Len(a)) \in Seq(S) /\ Len(SubSeq(b, 1, Len(a))) = Len(a)
        /\ \A i \in 1..Len(a) : SubSeq(b, 1, Len(a))[i] = b[i]
    BY <1>1
  <2>3. QED BY <2>1, <2>2, SeqEqual
<1>2. QED BY <1>1 DEF IsPrefix
--------------------------------------------------------------------------------
(***************************************************************************)
(* What is on its way up.                                                  *)
(***************************************************************************)
LEMMA UpFacts ==
  ASSUME up \in Seq(Messages)
  PROVE  /\ Len(up) \in Nat /\ DOMAIN up = 1..Len(up)
         /\ up = <<>> <=> Len(up) = 0
         /\ \A i \in 1..Len(up) : up[i] \in Messages
OBVIOUS

\* Nothing follows an end, a wrong message or a request.
LEMMA UpGrows ==
  ASSUME up \in Seq(Messages), UpInOrder, proto' = proto,
         NEW m \in Messages, up' = Append(up, m),
         m \in FirstMessages => up = <<>>,
         \A i \in DOMAIN up : up[i] \in {"start", "audio"},
         m \in {"start", "audio", "end"} => proto # "http",
         m = "wrong" => proto # "grpc", m = "request" => proto = "http",
         m \in {"end", "wrong", "request"} => client' = "join", m = "close" => client' = "left"
  PROVE  UpInOrder'
<1>1. /\ DOMAIN up' = 1..(Len(up) + 1) /\ Len(up') = Len(up) + 1 /\ Len(up) \in Nat
      /\ DOMAIN up = 1..Len(up)
      /\ \A i \in 1..Len(up) : up'[i] = up[i]
      /\ up'[Len(up) + 1] = m
      /\ up = <<>> <=> Len(up) = 0
  BY AppendFacts, UpFacts
<1>2. ASSUME NEW i \in DOMAIN up', i <= Len(up)
      PROVE  up'[i] \in {"start", "audio"} /\ up'[i] = up[i] /\ i \in DOMAIN up
  BY <1>1, <1>2
<1>3. ASSUME NEW i \in DOMAIN up', i > Len(up)
      PROVE  up'[i] = m /\ i = Len(up')
  BY <1>1, <1>3
<1>4. QED BY <1>1, <1>2, <1>3 DEF UpInOrder, FirstMessages, LastMessages

LEMMA FirstOrLast ==
  ASSUME NEW m \in Messages
  PROVE  \/ m \in FirstMessages /\ m \notin LastMessages /\ m # "audio"
         \/ m \in LastMessages /\ m \notin FirstMessages /\ m # "audio"
         \/ m = "audio" /\ m \notin FirstMessages /\ m \notin LastMessages
BY DEF Messages, FirstMessages, LastMessages

LEMMA AudioGrows ==
  ASSUME up \in Seq(Messages), NEW m \in Messages,
         m \in FirstMessages => up = <<>>,
         \A i \in DOMAIN up : up[i] \in {"start", "audio"}
  PROVE  AudioIn(Append(up, m)) = AudioIn(up) + IF m = "audio" THEN 1 ELSE 0
<1> DEFINE u == Append(up, m)
<1>1. /\ Len(u) = Len(up) + 1 /\ Len(up) \in Nat /\ u # <<>>
      /\ \A i \in 1..Len(up) : u[i] = up[i]
      /\ u[Len(u)] = m
      /\ up = <<>> <=> Len(up) = 0
      /\ \A i \in 1..Len(up) : up[i] \in {"start", "audio"}
  BY AppendFacts, UpFacts
<1> HIDE DEF u
<1>2. Ends(up) = 0
  BY <1>1 DEF Ends, LastMessages
<1>3. Ends(u) = IF m \in LastMessages THEN 1 ELSE 0
  BY <1>1 DEF Ends
<1>4. CASE up = <<>>
  <2>1. Len(up) = 0 /\ Opens(up) = 0 /\ Opens(u) = IF m \in FirstMessages THEN 1 ELSE 0
    BY <1>1, <1>4 DEF Opens
  <2>2. QED BY <1>1, <1>2, <1>3, <2>1, FirstOrLast DEF AudioIn, u
<1>5. CASE up # <<>>
  <2>1. u[1] = up[1] /\ m \notin FirstMessages
    BY <1>1, <1>5
  <2>2. Opens(u) = Opens(up) /\ Opens(up) \in {0, 1}
    BY <1>1, <1>5, <2>1 DEF Opens
  <2>3. QED BY <1>1, <1>2, <1>3, <2>1, <2>2, FirstOrLast DEF AudioIn, u
<1>6. QED BY <1>4, <1>5

\* Reading takes one piece of audio off the way if the message is one.
LEMMA AudioRead ==
  ASSUME up \in Seq(Messages), UpInOrder, up # <<>>
  PROVE  AudioIn(Tail(up)) = AudioIn(up) - IF Head(up) = "audio" THEN 1 ELSE 0
<1> DEFINE u == Tail(up)
<1>1. /\ Head(up) = up[1] /\ up[1] \in Messages
      /\ Len(u) = Len(up) - 1 /\ Len(up) \in Nat \ {0}
      /\ \A i \in 1..(Len(up) - 1) : u[i] = up[i + 1]
      /\ u = <<>> <=> Len(up) = 1
  BY TailFacts
<1> HIDE DEF u
<1>2. Opens(up) = IF Head(up) \in FirstMessages THEN 1 ELSE 0
  BY <1>1 DEF Opens
<1>3. Opens(u) = 0
  <2>1. ASSUME u # <<>> PROVE u[1] \notin FirstMessages
    <3>1. u[1] = up[2] /\ 2 \in DOMAIN up
      BY <1>1, <2>1, UpFacts
    <3>2. QED BY <3>1 DEF UpInOrder
  <2>2. QED BY <2>1 DEF Opens
<1>4. CASE u = <<>>
  <2>1. Ends(u) = 0 /\ Ends(up) = IF Head(up) \in LastMessages THEN 1 ELSE 0
    BY <1>1, <1>4 DEF Ends
  <2>2. Head(up) \in Messages /\ Len(up) = 1 /\ Len(u) = 0
    BY <1>1, <1>4
  <2>3. \/ Opens(up) = 1 /\ Ends(up) = 0 /\ Head(up) # "audio"
        \/ Opens(up) = 0 /\ Ends(up) = 1 /\ Head(up) # "audio"
        \/ Opens(up) = 0 /\ Ends(up) = 0 /\ Head(up) = "audio"
    BY ONLY <1>2, <2>1, <2>2, FirstOrLast
  <2>4. AudioIn(u) = 0
    BY ONLY <1>3, <2>1, <2>2 DEF AudioIn
  <2>5. AudioIn(up) = IF Head(up) = "audio" THEN 1 ELSE 0
    BY ONLY <2>2, <2>3 DEF AudioIn
  <2>6. QED BY <2>4, <2>5 DEF u
<1>5. CASE u # <<>>
  <2>1. u[Len(u)] = up[Len(up)] /\ Len(up) > 1
    BY <1>1, <1>5
  <2>2. Ends(u) = Ends(up) /\ Ends(u) \in {0, 1}
    BY <1>5, <2>1 DEF Ends
  <2>3. Head(up) \notin LastMessages
    <3>1. 1 \in DOMAIN up
      BY <1>1, UpFacts
    <3>2. QED BY <1>1, <2>1, <3>1 DEF UpInOrder
  <2>4. QED BY <1>1, <1>2, <1>3, <2>2, <2>3, FirstOrLast DEF AudioIn, u
<1>6. QED BY <1>4, <1>5

LEMMA AudioIsNat ==
  ASSUME up \in Seq(Messages), UpInOrder
  PROVE  AudioIn(up) \in Nat /\ (up = <<>> => AudioIn(up) = 0)
<1>1. Len(up) \in Nat /\ DOMAIN up = 1..Len(up) /\ (up = <<>> <=> Len(up) = 0)
  BY UpFacts
<1>2. Opens(up) \in {0, 1} /\ Ends(up) \in {0, 1}
  BY DEF Opens, Ends
<1>3. up = <<>> => Opens(up) = 0 /\ Ends(up) = 0
  BY DEF Opens, Ends
<1>4. Len(up) = 1 => Opens(up) = 0 \/ Ends(up) = 0
  <2>1. up[1] \in FirstMessages => up[1] \notin LastMessages
    BY DEF FirstMessages, LastMessages
  <2>2. QED BY <2>1 DEF Opens, Ends
<1>5. QED BY ONLY <1>1, <1>2, <1>3, <1>4 DEF AudioIn

\* What a lost connection still delivers is no more than what was on its way.
LEMMA AudioCut ==
  ASSUME up \in Seq(Messages), UpInOrder, NEW p \in Prefixes(up)
  PROVE  AudioIn(p) \in Int /\ AudioIn(p) <= AudioIn(up)
<1>1. /\ Len(p) \in Nat /\ Len(up) \in Nat /\ Len(p) <= Len(up)
      /\ DOMAIN up = 1..Len(up)
      /\ \A i \in 1..Len(p) : p[i] = up[i]
      /\ p = <<>> <=> Len(p) = 0
      /\ up = <<>> <=> Len(up) = 0
  BY PrefixFacts, UpFacts
<1>2. CASE p = <<>>
  <2>1. AudioIn(p) = 0
    BY <1>1, <1>2 DEF AudioIn, Opens, Ends
  <2>2. QED BY <2>1, AudioIsNat
<1>3. CASE p # <<>>
  <2>1. up # <<>> /\ p[1] = up[1]
    BY <1>1, <1>3
  <2>2. Opens(p) = Opens(up) /\ Opens(up) \in {0, 1}
    BY <1>3, <2>1 DEF Opens
  <2>3. Ends(p) \in {0, 1} /\ Ends(up) \in {0, 1}
    BY DEF Ends
  <2>4. Len(p) = Len(up) => Ends(p) = Ends(up)
    BY <1>1, <1>3, <2>1 DEF Ends
  <2>5. Opens(p) \in {0, 1}
    BY <2>2
  <2>6. QED BY ONLY <1>1, <2>2, <2>3, <2>4, <2>5 DEF AudioIn
<1>4. QED BY <1>2, <1>3

\* Only a client's first message is one to the server.
LEMMA FirstStays ==
  ASSUME up \in Seq(Messages), NEW m \in Messages, up' = Append(up, m), m \notin FirstMessages,
         up'[1] \in FirstMessages
  PROVE  up # <<>> /\ up[1] \in FirstMessages
<1>1. /\ Len(up) \in Nat /\ up'[Len(up) + 1] = m
      /\ \A i \in 1..Len(up) : up'[i] = up[i]
      /\ up = <<>> <=> Len(up) = 0
  BY AppendFacts, UpFacts
<1>2. QED BY <1>1

LEMMA FirstGone ==
  ASSUME up \in Seq(Messages), UpInOrder, up # <<>>, up' = Tail(up), up' # <<>>
  PROVE  /\ up'[1] \notin FirstMessages
         /\ up'[Len(up')] = up[Len(up)] /\ Len(up) > 1 /\ up[1] \notin LastMessages
<1>1. /\ Len(up') = Len(up) - 1 /\ Len(up) \in Nat \ {0} /\ Len(up) # 1
      /\ \A i \in 1..(Len(up) - 1) : up'[i] = up[i + 1]
      /\ DOMAIN up = 1..Len(up)
  BY TailFacts
<1>2. up'[1] = up[2] /\ up'[Len(up')] = up[Len(up)]
  BY <1>1
<1>3. up[2] \notin FirstMessages /\ up[1] \notin LastMessages
  BY <1>1 DEF UpInOrder
<1>4. QED BY <1>1, <1>2, <1>3

LEMMA NothingUp == AudioIn(<<>>) = 0
<1>1. Len(<<>>) = 0
  OBVIOUS
<1>2. QED BY <1>1 DEF AudioIn, Opens, Ends

LEMMA UpTyped ==
  ASSUME up \in Seq(Messages),
         \/ up' = up \/ up' = <<>> \/ up' \in Prefixes(up)
         \/ up # <<>> /\ up' = Tail(up)
         \/ \E m \in Messages : up' = Append(up, m)
  PROVE  up' \in Seq(Messages)
<1>1. <<>> \in Seq(Messages)
  OBVIOUS
<1>2. ASSUME up' \in Prefixes(up) PROVE up' \in Seq(Messages)
  BY <1>2, PrefixFacts
<1>3. ASSUME up # <<>>, up' = Tail(up) PROVE up' \in Seq(Messages)
  BY <1>3, TailFacts
<1>4. ASSUME NEW m \in Messages, up' = Append(up, m) PROVE up' \in Seq(Messages)
  BY <1>4, AppendFacts
<1>5. QED BY <1>1, <1>2, <1>3, <1>4

\* A message that is read; one that came alone.
LEMMA ReadFacts ==
  ASSUME up \in Seq(Messages), UpInOrder, NEW m, Read(m)
  PROVE  /\ srv = "read" /\ up # <<>> /\ up' = Tail(up) /\ up[1] = m
         /\ 1 \in DOMAIN up /\ Len(up) \in Nat \ {0}
         /\ up' = <<>> <=> Len(up) = 1
         /\ AudioIn(up') = AudioIn(up) - IF m = "audio" THEN 1 ELSE 0
         /\ m \in LastMessages \cup {"wrong", "request"} => up' = <<>>
         /\ m \in LastMessages \cup {"wrong", "request"} => AudioIn(up) = 0 /\ AudioIn(up') = 0
<1>1. srv = "read" /\ up # <<>> /\ up' = Tail(up) /\ Head(up) = m
  BY DEF Read
<1>2. /\ up[1] = m /\ Len(up) \in Nat \ {0} /\ 1 \in DOMAIN up
      /\ up' = <<>> <=> Len(up) = 1
  BY <1>1, TailFacts
<1>3. AudioIn(up') = AudioIn(up) - IF m = "audio" THEN 1 ELSE 0
  BY <1>1, AudioRead
<1>4. m \in LastMessages \cup {"wrong", "request"} => Len(up) = 1 /\ m # "audio"
  BY <1>2 DEF UpInOrder, LastMessages
<1>5. ASSUME m \in LastMessages \cup {"wrong", "request"}
      PROVE  AudioIn(up) = 0 /\ AudioIn(up') = 0
  <2>1. AudioIn(up') = 0
    BY <1>2, <1>4, <1>5, NothingUp
  <2>2. AudioIn(up) \in Nat
    BY AudioIsNat
  <2>3. QED BY ONLY <1>3, <1>4, <1>5, <2>1, <2>2
<1>6. QED BY <1>1, <1>2, <1>3, <1>4, <1>5

LEMMA CutInOrder ==
  ASSUME up \in Seq(Messages), UpInOrder, up' \in Prefixes(up), proto' = proto, client' = client
  PROVE  /\ UpInOrder'
         /\ up' # <<>> => up # <<>> /\ up'[1] = up[1]
<1>1. /\ Len(up') \in Nat /\ Len(up) \in Nat /\ Len(up') <= Len(up)
      /\ DOMAIN up' = 1..Len(up') /\ DOMAIN up = 1..Len(up)
      /\ \A i \in 1..Len(up') : up'[i] = up[i]
      /\ up' = <<>> <=> Len(up') = 0
      /\ up = <<>> <=> Len(up) = 0
  BY PrefixFacts, UpFacts
<1>2. ASSUME NEW i \in DOMAIN up'
      PROVE  /\ i \in DOMAIN up /\ up'[i] = up[i] /\ i \in Nat
             /\ Len(up) = 1 => Len(up') = 1
             /\ i = Len(up) => i = Len(up')
  BY <1>1
<1>3. UpInOrder'
  BY <1>2 DEF UpInOrder
<1>4. QED BY <1>1, <1>3

--------------------------------------------------------------------------------
(***************************************************************************)
(* What is on its way down.                                                *)
(***************************************************************************)
LEMMA PrefixOfItself ==
  ASSUME NEW S, NEW a \in Seq(S)
  PROVE  IsPrefix(a, a)
BY IsPrefixFacts, LenProperties

LEMMA CutIsPrefix ==
  ASSUME NEW S, NEW r \in Seq(S), NEW d \in Seq(S), NEW t \in Seq(S), IsPrefix(r \o d, t),
         NEW p \in Prefixes(d)
  PROVE  p \in Seq(S) /\ IsPrefix(r \o p, t)
<1>1. /\ p \in Seq(S) /\ Len(p) \in Nat /\ Len(d) \in Nat /\ Len(p) <= Len(d)
      /\ \A i \in 1..Len(p) : p[i] = d[i]
  BY PrefixFacts
<1>2. /\ r \o d \in Seq(S) /\ Len(r \o d) = Len(r) + Len(d) /\ Len(r) \in Nat
      /\ \A i \in 1..(Len(r) + Len(d)) : (r \o d)[i] = IF i <= Len(r) THEN r[i] ELSE d[i - Len(r)]
  BY ConcatProperties, LenProperties
<1>3. /\ r \o p \in Seq(S) /\ Len(r \o p) = Len(r) + Len(p)
      /\ \A i \in 1..(Len(r) + Len(p)) : (r \o p)[i] = IF i <= Len(r) THEN r[i] ELSE p[i - Len(r)]
  BY <1>1, ConcatProperties
<1>4. Len(r \o d) <= Len(t) /\ \A i \in 1..Len(r \o d) : (r \o d)[i] = t[i]
  BY <1>2, IsPrefixFacts
<1>5. ASSUME NEW i \in 1..(Len(r) + Len(p)) PROVE (r \o p)[i] = t[i]
  <2>1. i \in 1..(Len(r) + Len(d)) /\ (r \o d)[i] = t[i]
    BY <1>1, <1>2, <1>4
  <2>2. CASE i <= Len(r)
    BY <1>2, <1>3, <2>1, <2>2
  <2>3. CASE ~(i <= Len(r))
    <3>1. i - Len(r) \in 1..Len(p)
      BY <1>1, <1>2, <2>3
    <3>2. QED BY <1>1, <1>2, <1>3, <2>1, <2>3, <3>1
  <2>4. QED BY <2>2, <2>3
<1>6. Len(t) \in Nat
  BY LenProperties
<1>7. Len(r \o p) <= Len(t) /\ \A i \in 1..Len(r \o p) : (r \o p)[i] = t[i]
  BY <1>1, <1>2, <1>3, <1>4, <1>5, <1>6
<1>8. QED BY <1>1, <1>3, <1>7, IsPrefixFacts

\* A step that writes a message, cuts the connection's queue, or neither.
LEMMA DownKeeps ==
  ASSUME SequencesTyped, Delivered, received' = received, done_' = done_,
         \/ down' = down /\ sent' = sent /\ (conn' = "open" => conn = "open")
         \/ conn = "open" /\ \E m \in FromServer : down' = Append(down, m) /\ sent' = Append(sent, m)
         \/ conn' # "open" /\ down' \in Prefixes(down) /\ sent' = sent
  PROVE  /\ Delivered'
         /\ down' \in Seq(FromServer) /\ sent' \in Seq(FromServer) /\ received' \in Seq(FromServer)
<1>1. /\ received \in Seq(FromServer) /\ down \in Seq(FromServer) /\ sent \in Seq(FromServer)
      /\ IsPrefix(received \o down, sent) /\ (conn = "open" => received \o down = sent)
      /\ done_ => \E i \in DOMAIN sent : sent[i].type = "speech_end"
  BY DEF SequencesTyped, Delivered
<1>2. CASE down' = down /\ sent' = sent /\ (conn' = "open" => conn = "open")
  BY <1>1, <1>2 DEF Delivered
<1>3. ASSUME conn = "open", NEW m \in FromServer,
             down' = Append(down, m), sent' = Append(sent, m)
      PROVE  /\ Delivered' /\ down' \in Seq(FromServer) /\ sent' \in Seq(FromServer)
             /\ received' \in Seq(FromServer)
  <2>1. /\ down' \in Seq(FromServer) /\ sent' \in Seq(FromServer)
        /\ <<m>> \in Seq(FromServer) /\ down' = down \o <<m>> /\ sent' = sent \o <<m>>
    BY <1>1, <1>3, AppendIsConcat, AppendFacts
  <2>2. received \o (down \o <<m>>) = (received \o down) \o <<m>>
    <3>1. received \in Seq(FromServer) /\ down \in Seq(FromServer) /\ <<m>> \in Seq(FromServer)
      BY <1>1, <2>1
    <3>2. QED BY ONLY <3>1, ConcatAssociative, SMTT(30)
  <2>3. received' \o down' = sent'
    BY <1>1, <1>3, <2>1, <2>2
  <2>4. IsPrefix(received' \o down', sent')
    BY <2>1, <2>3, PrefixOfItself
  <2>5. done_' => \E i \in DOMAIN sent' : sent'[i].type = "speech_end"
    BY <1>1, <1>3, AppendFacts
  <2>6. QED BY <1>1, <2>1, <2>3, <2>4, <2>5 DEF Delivered
<1>4. CASE conn' # "open" /\ down' \in Prefixes(down) /\ sent' = sent
  BY <1>1, <1>4, CutIsPrefix DEF Delivered
<1>5. QED BY <1>2, <1>3, <1>4

\* What the reader takes off the way down it has received.
LEMMA ReadDelivers ==
  ASSUME SequencesTyped, Delivered, down # <<>>, down' = Tail(down),
         received' = Append(received, Head(down)), sent' = sent, conn' = conn,
         done_' = (Head(down).type = "speech_end")
  PROVE  /\ Delivered'
         /\ down' \in Seq(FromServer) /\ sent' \in Seq(FromServer) /\ received' \in Seq(FromServer)
<1> DEFINE h == Head(down)
           t == Tail(down)
<1>1. /\ received \in Seq(FromServer) /\ down \in Seq(FromServer) /\ sent \in Seq(FromServer)
      /\ IsPrefix(received \o down, sent) /\ (conn = "open" => received \o down = sent)
  BY DEF SequencesTyped, Delivered
<1>2. /\ h \in FromServer /\ h = down[1] /\ t \in Seq(FromServer)
      /\ Len(t) = Len(down) - 1 /\ Len(down) \in Nat \ {0}
      /\ \A i \in 1..(Len(down) - 1) : t[i] = down[i + 1]
  BY <1>1, TailFacts
<1>3. /\ down' = t /\ received' = Append(received, h)
      /\ done_' = (h.type = "speech_end")
  OBVIOUS
<1> HIDE DEF h, t
<1>4. <<h>> \in Seq(FromServer) /\ Len(<<h>>) = 1 /\ <<h>>[1] = h
  BY <1>2
<1>5. down = <<h>> \o t
  <2> DEFINE c == <<h>> \o t
  <2>1. /\ c \in Seq(FromServer) /\ Len(c) = 1 + Len(t)
        /\ \A i \in 1..(1 + Len(t)) : c[i] = IF i <= 1 THEN <<h>>[i] ELSE t[i - 1]
    BY <1>2, <1>4, ConcatProperties
  <2> HIDE DEF c
  <2>2. Len(c) = Len(down)
    BY <1>2, <2>1
  <2>3. ASSUME NEW i \in 1..Len(down) PROVE c[i] = down[i]
    <3>1. CASE i = 1
      BY <1>2, <1>4, <2>1, <3>1
    <3>2. CASE i # 1
      <4>1. i - 1 \in 1..(Len(down) - 1) /\ (i - 1) + 1 = i /\ ~(i <= 1)
        BY <1>2, <3>2
      <4>2. t[i - 1] = down[i]
        BY <1>2, <4>1
      <4>3. QED BY <1>2, <2>1, <4>1, <4>2
    <3>3. QED BY <3>1, <3>2
  <2>4. c = down
    BY <1>1, <2>1, <2>2, <2>3, SeqEqual
  <2>5. QED BY <2>4 DEF c
<1>6. /\ received' \in Seq(FromServer)
      /\ received' = received \o <<h>>
  BY <1>1, <1>2, <1>3, AppendIsConcat, AppendFacts
<1>7. received' \o down' = received \o down
  <2>1. (received \o <<h>>) \o t = received \o (<<h>> \o t)
    BY ONLY <1>1, <1>2, <1>4, ConcatAssociative, SMTT(30)
  <2>2. QED BY <1>3, <1>5, <1>6, <2>1
<1>8. done_' => \E i \in DOMAIN sent' : sent'[i].type = "speech_end"
  <2> DEFINE n == Len(received) + 1
  <2>1. /\ Len(received \o down) = Len(received) + Len(down) /\ received \o down \in Seq(FromServer)
        /\ n \in 1..(Len(received) + Len(down)) /\ (received \o down)[n] = down[1]
    <3>1. Len(received) \in Nat /\ n \in 1..(Len(received) + Len(down))
          /\ ~(n <= Len(received)) /\ n - Len(received) = 1
      BY <1>1, <1>2
    <3>2. QED BY <1>1, <3>1, ConcatProperties
  <2>2. /\ Len(received \o down) <= Len(sent)
        /\ \A i \in 1..Len(received \o down) : (received \o down)[i] = sent[i]
    BY <1>1, <2>1, IsPrefixFacts
  <2>3. /\ DOMAIN sent = 1..Len(sent) /\ Len(sent) \in Nat
        /\ Len(received) + Len(down) \in Nat
    BY <1>1
  <2>4. n \in DOMAIN sent /\ sent[n] = down[1]
    BY ONLY <2>1, <2>2, <2>3
  <2>5. QED BY <1>2, <1>3, <2>4
<1>9. QED BY <1>1, <1>2, <1>3, <1>6, <1>7, <1>8 DEF Delivered

\* A message that the server writes.
LEMMA Written ==
  ASSUME NEW m \in FromServer, sent \in Seq(FromServer), sent' = Append(sent, m)
  PROVE  /\ Len(sent') = Len(sent) + 1 /\ Len(sent) \in Nat /\ sent' # <<>>
         /\ DOMAIN sent = 1..Len(sent) /\ DOMAIN sent' = 1..(Len(sent) + 1)
         /\ \A i \in 1..Len(sent) : sent'[i] = sent[i]
         /\ sent'[Len(sent) + 1] = m
         /\ sent = <<>> <=> Len(sent) = 0
         /\ m.type # "final_result" => Finals(sent') = Finals(sent)
         /\ m.type = "final_result" => Finals(sent') = Finals(sent) \cup {Len(sent) + 1}
<1>1. /\ Len(sent') = Len(sent) + 1 /\ Len(sent) \in Nat /\ sent' # <<>>
      /\ DOMAIN sent = 1..Len(sent) /\ DOMAIN sent' = 1..(Len(sent) + 1)
      /\ \A i \in 1..Len(sent) : sent'[i] = sent[i]
      /\ sent'[Len(sent) + 1] = m
      /\ sent = <<>> <=> Len(sent) = 0
  BY AppendFacts, EmptySeq
<1>2. DOMAIN sent' = DOMAIN sent \cup {Len(sent) + 1}
  BY <1>1
<1>3. QED BY <1>1, <1>2 DEF Finals

--------------------------------------------------------------------------------
(***************************************************************************)
(* The steps of the client.                                                *)
(***************************************************************************)
LEMMA SendStartSignalKeeps == ASSUME ServerInv, SendStartSignal PROVE ServerInv'
<1>1. FlagsTyped'
  BY DEF ServerInv, FlagsTyped, SendStartSignal, ClientWrite, clientRest, choice, srvVars,
         decVars
<1>2. UpInOrder'
  <2>1. client \in {"start", "wrong"} /\ up = <<>> /\ up \in Seq(Messages) /\ proto' = proto
    BY DEF ServerInv, SequencesTyped, Opening, SendStartSignal, clientRest, choice
  <2>2. CASE conn = "open"
    <3>1. \E m \in FirstMessages :
             /\ up' = Append(up, m)
             /\ m = "start" => proto # "http"
             /\ m = "wrong" => proto # "grpc" /\ client' = "join"
             /\ m = "request" => proto = "http" /\ client' = "join"
      BY <2>1, <2>2 DEF ServerInv, Opening, SendStartSignal, ClientWrite, FirstMessages
    <3>2. QED BY <2>1, <3>1, UpGrows DEF ServerInv, Messages, FirstMessages, LastMessages
  <2>3. CASE conn # "open"
    BY <2>1, <2>3 DEF SendStartSignal, ClientWrite, UpInOrder
  <2>4. QED BY <2>2, <2>3
<1>3. Opening'
  BY DEF ServerInv, Opening, Fresh, SendStartSignal, ClientWrite, clientRest, choice, srvVars,
         decVars
<1>4. Balance'
  <2>1. /\ client \in {"start", "wrong"} /\ up = <<>> /\ up \in Seq(Messages)
        /\ accepted = 0 /\ audio = 0 /\ (conn = "open" => srv = "read")
        /\ audio' = (IF proto = "http" THEN length ELSE 0)
        /\ proto' = proto /\ length' = length /\ srv' = srv /\ conn' = conn /\ accepted' = accepted
        /\ length \in Nat /\ srv # "data"
    BY DEF ServerInv, FlagsTyped, SequencesTyped, Opening, Fresh, Balance, AtServer,
           SendStartSignal, clientRest, choice, srvVars
  <2>2. up' = up \/ \E m \in FirstMessages : up' = Append(up, m)
    BY DEF SendStartSignal, ClientWrite, FirstMessages
  <2>3. AudioIn(up') = 0
    BY <2>1, <2>2, AudioGrows, NothingUp DEF Messages, FirstMessages, LastMessages
  <2>4. QED BY <2>1, <2>3 DEF Balance, AtServer
<1>5. AudioEnds'
  <2>1. /\ client \in {"start", "wrong"} /\ up = <<>> /\ up \in Seq(Messages) /\ ~finished
        /\ UNCHANGED <<proto, conn, srv, finished>>
        /\ conn = "open" => srv = "read"
    BY DEF ServerInv, SequencesTyped, Opening, Fresh, SendStartSignal, clientRest, choice,
           srvVars
  <2>2. CASE conn = "open"
    <3>1. \E m \in FirstMessages :
             /\ up' = Append(up, m)
             /\ proto # "http" /\ client' \in {"join", "exit"} => m = "wrong"
      BY <2>2 DEF SendStartSignal, ClientWrite, FirstMessages
    <3>2. \E m \in FirstMessages :
             /\ up' # <<>> /\ up'[Len(up')] = m
             /\ proto # "http" /\ client' \in {"join", "exit"} => m = "wrong"
      BY <2>1, <3>1, AppendFacts DEF Messages
    <3>3. QED BY <2>1, <3>2 DEF AudioEnds, FirstMessages
  <2>3. CASE conn # "open"
    BY <2>1, <2>3 DEF AudioEnds
  <2>4. QED BY <2>2, <2>3
<1>6. Reported'
  BY DEF ServerInv, Reported, SendStartSignal, ClientWrite, clientRest, choice, srvVars, decVars
<1>7. SentInOrder'
  BY DEF ServerInv, SentInOrder, SendStartSignal, ClientWrite, clientRest, choice, decVars
<1>8. Covered'
  BY DEF ServerInv, Covered, SendStartSignal, ClientWrite, clientRest, choice, decVars
<1>9. up' \in Seq(Messages)
  BY UpTyped DEF ServerInv, SequencesTyped, SendStartSignal, ClientWrite, clientRest, Messages,
     FirstMessages
<1>10. /\ Delivered'
       /\ down' \in Seq(FromServer) /\ sent' \in Seq(FromServer) /\ received' \in Seq(FromServer)
  BY DownKeeps DEF ServerInv, SequencesTyped, SendStartSignal, ClientWrite, clientRest
<1>11. QED BY <1>1, <1>2, <1>3, <1>4, <1>5, <1>6, <1>7, <1>8, <1>9, <1>10 DEF ServerInv,
              SequencesTyped

LEMMA SendBinaryDataKeeps == ASSUME ServerInv, SendBinaryData PROVE ServerInv'
<1>1. FlagsTyped'
  BY DEF ServerInv, FlagsTyped, SendBinaryData, ClientWrite, clientRest, choice, srvVars,
         decVars
<1>2. UpInOrder'
  <2>1. /\ up \in Seq(Messages) /\ \A i \in DOMAIN up : up[i] \in {"start", "audio"}
        /\ proto' = proto /\ proto # "http"
    BY UpFacts DEF ServerInv, SequencesTyped, UpInOrder, Opening, SendBinaryData, clientRest,
       choice, Messages, FirstMessages, LastMessages
  <2>2. CASE conn = "open"
    <3>1. up' = Append(up, "audio") /\ client' = "data"
      BY <2>2 DEF SendBinaryData, ClientWrite
    <3>2. QED BY <2>1, <3>1, UpGrows DEF ServerInv, Messages, FirstMessages, LastMessages
  <2>3. CASE conn # "open"
    BY <2>1, <2>3 DEF SendBinaryData, ClientWrite, ServerInv, UpInOrder
  <2>4. QED BY <2>2, <2>3
<1>3. Opening'
  <2>1. /\ up \in Seq(Messages) /\ client = "data" /\ client' \in {"data", "abort"} /\ proto # "http"
        /\ UNCHANGED <<proto, srv, dec, sent, accepted, finished, got_start_tag_, state, decoded, conn>>
    BY DEF ServerInv, SequencesTyped, Opening, SendBinaryData, ClientWrite, clientRest, choice,
           srvVars, decVars
  <2>2. up' = up \/ up' = Append(up, "audio")
    BY DEF SendBinaryData, ClientWrite
  <2>3. up' # <<>> /\ up'[1] \in FirstMessages => up # <<>> /\ up[1] \in FirstMessages
    BY <2>1, <2>2, FirstStays DEF Messages, FirstMessages, LastMessages
  <2>4. QED BY <2>1, <2>3 DEF ServerInv, Opening, Fresh
<1>4. Balance'
  <2>1. /\ up \in Seq(Messages) /\ \A i \in DOMAIN up : up[i] \in {"start", "audio"}
        /\ client = "data" /\ client' \in {"data", "abort"} /\ proto # "http"
        /\ UNCHANGED <<proto, length, srv, accepted, conn>> /\ audio' = audio + 1
        /\ audio \in Nat /\ accepted \in Nat
    BY UpFacts DEF ServerInv, FlagsTyped, SequencesTyped, UpInOrder, Opening, SendBinaryData,
       ClientWrite, clientRest, choice, srvVars, Messages, FirstMessages, LastMessages
  <2>2. AudioIn(up) \in Nat
    BY <2>1, AudioIsNat DEF ServerInv
  <2>3. CASE conn = "open"
    <3>1. AudioIn(up') = AudioIn(up) + 1
      BY <2>1, <2>2, <2>3, AudioGrows DEF SendBinaryData, ClientWrite, Messages, FirstMessages,
         LastMessages
    <3>2. QED BY <2>1, <2>2, <3>1 DEF ServerInv, Balance, AtServer
  <2>4. CASE conn # "open"
    <3>1. up' = up
      BY <2>4 DEF SendBinaryData, ClientWrite
    <3>2. QED BY <2>1, <2>2, <2>4, <3>1 DEF ServerInv, Balance, AtServer
  <2>5. QED BY <2>3, <2>4
<1>5. AudioEnds'
  BY DEF ServerInv, AudioEnds, Stopped, SendBinaryData, ClientWrite, clientRest, choice,
         srvVars, decVars
<1>6. Reported'
  BY DEF ServerInv, Reported, SendBinaryData, ClientWrite, clientRest, choice, srvVars, decVars
<1>7. SentInOrder'
  BY DEF ServerInv, SentInOrder, SendBinaryData, ClientWrite, clientRest, choice, decVars
<1>8. Covered'
  BY DEF ServerInv, Covered, SendBinaryData, ClientWrite, clientRest, choice, decVars
<1>9. up' \in Seq(Messages)
  BY UpTyped DEF ServerInv, SequencesTyped, SendBinaryData, ClientWrite, clientRest, Messages
<1>10. /\ Delivered'
       /\ down' \in Seq(FromServer) /\ sent' \in Seq(FromServer) /\ received' \in Seq(FromServer)
  BY DownKeeps DEF ServerInv, SequencesTyped, SendBinaryData, ClientWrite, clientRest
<1>11. QED BY <1>1, <1>2, <1>3, <1>4, <1>5, <1>6, <1>7, <1>8, <1>9, <1>10 DEF ServerInv,
              SequencesTyped

LEMMA SendEndSignalKeeps == ASSUME ServerInv, SendEndSignal PROVE ServerInv'
<1>1. FlagsTyped'
  BY DEF ServerInv, FlagsTyped, SendEndSignal, ClientWrite, clientRest, choice, srvVars, decVars
<1>2. UpInOrder'
  <2>1. /\ up \in Seq(Messages) /\ \A i \in DOMAIN up : up[i] \in {"start", "audio"}
        /\ proto' = proto /\ proto # "http"
    BY UpFacts DEF ServerInv, SequencesTyped, UpInOrder, Opening, SendEndSignal, clientRest,
       choice, Messages, FirstMessages, LastMessages
  <2>2. CASE conn = "open"
    <3>1. up' = Append(up, "end") /\ client' = "join"
      BY <2>2 DEF SendEndSignal, ClientWrite
    <3>2. QED BY <2>1, <3>1, UpGrows DEF ServerInv, Messages, FirstMessages, LastMessages
  <2>3. CASE conn # "open"
    BY <2>1, <2>3 DEF SendEndSignal, ClientWrite, ServerInv, UpInOrder
  <2>4. QED BY <2>2, <2>3
<1>3. Opening'
  <2>1. /\ up \in Seq(Messages) /\ client = "data" /\ client' \in {"join", "abort"} /\ proto # "http"
        /\ UNCHANGED <<proto, srv, dec, sent, accepted, finished, got_start_tag_, state, decoded, conn>>
    BY DEF ServerInv, SequencesTyped, Opening, SendEndSignal, ClientWrite, clientRest, choice,
           srvVars, decVars
  <2>2. up' = up \/ up' = Append(up, "end")
    BY DEF SendEndSignal, ClientWrite
  <2>3. up' # <<>> /\ up'[1] \in FirstMessages => up # <<>> /\ up[1] \in FirstMessages
    BY <2>1, <2>2, FirstStays DEF Messages, FirstMessages, LastMessages
  <2>4. QED BY <2>1, <2>3 DEF ServerInv, Opening, Fresh
<1>4. Balance'
  <2>1. /\ up \in Seq(Messages) /\ \A i \in DOMAIN up : up[i] \in {"start", "audio"}
        /\ client = "data" /\ client' \in {"join", "abort"} /\ proto # "http"
        /\ UNCHANGED <<proto, length, srv, accepted, conn>> /\ audio' = audio
        /\ audio \in Nat /\ accepted \in Nat
    BY UpFacts DEF ServerInv, FlagsTyped, SequencesTyped, UpInOrder, Opening, SendEndSignal,
       ClientWrite, clientRest, choice, srvVars, Messages, FirstMessages, LastMessages
  <2>2. AudioIn(up) \in Nat
    BY <2>1, AudioIsNat DEF ServerInv
  <2>3. CASE conn = "open"
    <3>1. up' = Append(up, "end") /\ "end" \in Messages /\ "end" \notin FirstMessages /\ "end" # "audio"
      BY <2>3 DEF SendEndSignal, ClientWrite, Messages, FirstMessages, LastMessages
    <3>2. AudioIn(Append(up, "end")) = AudioIn(up) + IF "end" = "audio" THEN 1 ELSE 0
      BY <2>1, <3>1, AudioGrows
    <3>3. AudioIn(up') = AudioIn(up)
      BY ONLY <2>2, <3>1, <3>2
    <3>4. QED BY <2>1, <2>2, <3>3 DEF ServerInv, Balance, AtServer
  <2>4. CASE conn # "open"
    <3>1. up' = up
      BY <2>4 DEF SendEndSignal, ClientWrite
    <3>2. QED BY <2>1, <2>2, <2>4, <3>1 DEF ServerInv, Balance, AtServer
  <2>5. QED BY <2>3, <2>4
<1>5. AudioEnds'
  BY DEF ServerInv, AudioEnds, Stopped, SendEndSignal, ClientWrite, clientRest, choice, srvVars,
         decVars, Reported, SentInOrder, Delivered
<1>6. Reported'
  BY DEF ServerInv, Reported, SendEndSignal, ClientWrite, clientRest, choice, srvVars, decVars
<1>7. SentInOrder'
  BY DEF ServerInv, SentInOrder, SendEndSignal, ClientWrite, clientRest, choice, decVars
<1>8. Covered'
  BY DEF ServerInv, Covered, SendEndSignal, ClientWrite, clientRest, choice, decVars
<1>9. up' \in Seq(Messages)
  BY UpTyped DEF ServerInv, SequencesTyped, SendEndSignal, ClientWrite, clientRest, Messages,
     LastMessages
<1>10. /\ Delivered'
       /\ down' \in Seq(FromServer) /\ sent' \in Seq(FromServer) /\ received' \in Seq(FromServer)
  BY DownKeeps DEF ServerInv, SequencesTyped, SendEndSignal, ClientWrite, clientRest
<1>11. QED BY <1>1, <1>2, <1>3, <1>4, <1>5, <1>6, <1>7, <1>8, <1>9, <1>10 DEF ServerInv,
              SequencesTyped

LEMMA CloseKeeps == ASSUME ServerInv, Close PROVE ServerInv'
<1>1. FlagsTyped'
  BY DEF ServerInv, FlagsTyped, Close, ClientWrite, choice, srvVars, decVars
<1>2. UpInOrder'
  <2>1. /\ up \in Seq(Messages) /\ \A i \in DOMAIN up : up[i] \in {"start", "audio"}
        /\ proto' = proto /\ proto # "http"
    BY UpFacts DEF ServerInv, SequencesTyped, UpInOrder, Opening, Close, choice, Messages,
       FirstMessages, LastMessages
  <2>2. CASE conn = "open"
    <3>1. up' = Append(up, "close") /\ client' = "left"
      BY <2>2 DEF Close, ClientWrite
    <3>2. QED BY <2>1, <3>1, UpGrows DEF ServerInv, Messages, FirstMessages, LastMessages
  <2>3. CASE conn # "open"
    BY <2>1, <2>3 DEF Close, ClientWrite, ServerInv, UpInOrder
  <2>4. QED BY <2>2, <2>3
<1>3. Opening'
  <2>1. /\ up \in Seq(Messages) /\ client = "data" /\ client' \in {"left", "abort"} /\ proto # "http"
        /\ UNCHANGED <<proto, srv, dec, sent, accepted, finished, got_start_tag_, state, decoded, conn>>
    BY DEF ServerInv, SequencesTyped, Opening, Close, ClientWrite, choice, srvVars, decVars
  <2>2. up' = up \/ up' = Append(up, "close")
    BY DEF Close, ClientWrite
  <2>3. up' # <<>> /\ up'[1] \in FirstMessages => up # <<>> /\ up[1] \in FirstMessages
    BY <2>1, <2>2, FirstStays DEF Messages, FirstMessages, LastMessages
  <2>4. QED BY <2>1, <2>3 DEF ServerInv, Opening, Fresh
<1>4. Balance'
  <2>1. /\ up \in Seq(Messages) /\ \A i \in DOMAIN up : up[i] \in {"start", "audio"}
        /\ client = "data" /\ client' \in {"left", "abort"} /\ proto # "http"
        /\ UNCHANGED <<proto, length, srv, accepted, conn>> /\ audio' = audio
        /\ audio \in Nat /\ accepted \in Nat
    BY UpFacts DEF ServerInv, FlagsTyped, SequencesTyped, UpInOrder, Opening, Close,
       ClientWrite, choice, srvVars, Messages, FirstMessages, LastMessages
  <2>2. AudioIn(up) \in Nat
    BY <2>1, AudioIsNat DEF ServerInv
  <2>3. CASE conn = "open"
    <3>1. up' = Append(up, "close") /\ "close" \in Messages /\ "close" \notin FirstMessages /\ "close" # "audio"
      BY <2>3 DEF Close, ClientWrite, Messages, FirstMessages, LastMessages
    <3>2. AudioIn(Append(up, "close")) = AudioIn(up) + IF "close" = "audio" THEN 1 ELSE 0
      BY <2>1, <3>1, AudioGrows
    <3>3. AudioIn(up') = AudioIn(up)
      BY ONLY <2>2, <3>1, <3>2
    <3>4. QED BY <2>1, <2>2, <3>3 DEF ServerInv, Balance, AtServer
  <2>4. CASE conn # "open"
    <3>1. up' = up
      BY <2>4 DEF Close, ClientWrite
    <3>2. QED BY <2>1, <2>2, <2>4, <3>1 DEF ServerInv, Balance, AtServer
  <2>5. QED BY <2>3, <2>4
<1>5. AudioEnds'
  BY DEF ServerInv, AudioEnds, Stopped, Close, ClientWrite, choice, srvVars, decVars
<1>6. Reported'
  BY DEF ServerInv, Reported, Close, ClientWrite, choice, srvVars, decVars
<1>7. SentInOrder'
  BY DEF ServerInv, SentInOrder, Close, ClientWrite, choice, decVars
<1>8. Covered'
  BY DEF ServerInv, Covered, Close, ClientWrite, choice, decVars
<1>9. up' \in Seq(Messages)
  BY UpTyped DEF ServerInv, SequencesTyped, Close, ClientWrite, Messages, LastMessages
<1>10. /\ Delivered'
       /\ down' \in Seq(FromServer) /\ sent' \in Seq(FromServer) /\ received' \in Seq(FromServer)
  BY DownKeeps DEF ServerInv, SequencesTyped, Close, ClientWrite
<1>11. QED BY <1>1, <1>2, <1>3, <1>4, <1>5, <1>6, <1>7, <1>8, <1>9, <1>10 DEF ServerInv,
              SequencesTyped

LEMMA ClientJoinKeeps == ASSUME ServerInv, ClientJoin PROVE ServerInv'
<1>1. FlagsTyped'
  BY DEF ServerInv, FlagsTyped, ClientJoin, clientRest, choice, srvVars, decVars
<1>2. UpInOrder'
  BY DEF ServerInv, UpInOrder, ClientJoin, clientRest, choice
<1>3. Opening'
  BY DEF ServerInv, Opening, Fresh, ClientJoin, clientRest, choice, srvVars, decVars
<1>4. Balance'
  BY DEF ServerInv, Balance, AtServer, ClientJoin, clientRest, choice, srvVars
<1>5. AudioEnds'
  BY DEF ServerInv, AudioEnds, Stopped, ClientJoin, clientRest, choice, srvVars, decVars
<1>6. Reported'
  BY DEF ServerInv, Reported, ClientJoin, clientRest, choice, srvVars, decVars
<1>7. SentInOrder'
  BY DEF ServerInv, SentInOrder, ClientJoin, clientRest, choice, decVars
<1>8. Covered'
  BY DEF ServerInv, Covered, ClientJoin, clientRest, choice, decVars
<1>9. up' \in Seq(Messages)
  BY UpTyped DEF ServerInv, SequencesTyped, ClientJoin, clientRest
<1>10. /\ Delivered'
       /\ down' \in Seq(FromServer) /\ sent' \in Seq(FromServer) /\ received' \in Seq(FromServer)
  BY DownKeeps DEF ServerInv, SequencesTyped, ClientJoin, clientRest
<1>11. QED BY <1>1, <1>2, <1>3, <1>4, <1>5, <1>6, <1>7, <1>8, <1>9, <1>10 DEF ServerInv,
              SequencesTyped

LEMMA ReadLoopKeeps == ASSUME ServerInv, ReadLoop PROVE ServerInv'
<1>1. FlagsTyped'
  <2>1. done_' \in BOOLEAN
    <3>1. down # <<>> => done_' = TRUE \/ done_' = FALSE
      BY DEF ReadLoop
    <3>2. QED BY <3>1 DEF ServerInv, FlagsTyped, ReadLoop
  <2>2. reader' \in {"read", "exit"} /\ UNCHANGED <<choice, client, audio, conn, up, srvVars, decVars, sent>>
    BY DEF ReadLoop
  <2>3. QED BY <2>1, <2>2 DEF ServerInv, FlagsTyped, choice, srvVars, decVars
<1>2. UpInOrder'
  BY DEF ServerInv, UpInOrder, ReadLoop, choice
<1>3. Opening'
  BY DEF ServerInv, Opening, Fresh, ReadLoop, choice, srvVars, decVars
<1>4. Balance'
  BY DEF ServerInv, Balance, AtServer, ReadLoop, choice, srvVars
<1>5. AudioEnds'
  BY DEF ServerInv, AudioEnds, Stopped, ReadLoop, choice, srvVars, decVars
<1>6. Reported'
  BY DEF ServerInv, Reported, ReadLoop, choice, srvVars, decVars
<1>7. SentInOrder'
  BY DEF ServerInv, SentInOrder, ReadLoop, choice, decVars
<1>8. Covered'
  BY DEF ServerInv, Covered, ReadLoop, choice, decVars
<1>9. up' \in Seq(Messages)
  BY UpTyped DEF ServerInv, SequencesTyped, ReadLoop
<1>10. /\ Delivered'
       /\ down' \in Seq(FromServer) /\ sent' \in Seq(FromServer) /\ received' \in Seq(FromServer)
  <2>1. /\ SequencesTyped /\ Delivered
        /\ sent' = sent /\ conn' = conn
    BY DEF ServerInv, ReadLoop
  <2>2. CASE down # <<>>
    BY <2>1, <2>2, ReadDelivers DEF ReadLoop
  <2>3. CASE down = <<>>
    BY <2>1, <2>3, DownKeeps DEF ReadLoop
  <2>4. QED BY <2>2, <2>3
<1>11. QED BY <1>1, <1>2, <1>3, <1>4, <1>5, <1>6, <1>7, <1>8, <1>9, <1>10 DEF ServerInv,
              SequencesTyped

--------------------------------------------------------------------------------
(***************************************************************************)
(* The steps of the handler.                                               *)
(***************************************************************************)
LEMMA OnSpeechStartKeeps == ASSUME ServerInv, OnSpeechStart PROVE ServerInv'
<1>1. FlagsTyped'
  BY DEF ServerInv, FlagsTyped, OnSpeechStart, Read, ServerWrite, handlerRest, choice,
         clientVars, decVars
<1>2. UpInOrder'
  BY DEF ServerInv, UpInOrder, OnSpeechStart, Read, ServerWrite, handlerRest, choice, clientVars
<1>3. Opening'
  <2>1. up' # <<>> => up'[1] \notin FirstMessages
    BY FirstGone DEF ServerInv, SequencesTyped, OnSpeechStart, Read
  <2>2. up # <<>> /\ up[1] = "start"
    BY TailFacts DEF ServerInv, SequencesTyped, OnSpeechStart, Read
  <2>3. QED BY <2>1, <2>2, AppendFacts DEF ServerInv, FlagsTyped, SequencesTyped, UpInOrder,
               Opening, Fresh, OnSpeechStart, Read, ServerWrite, handlerRest, choice,
               clientVars, decVars, FirstMessages
<1>4. Balance'
  BY AudioRead, AudioIsNat DEF ServerInv, Balance, AtServer, OnSpeechStart, Read, ServerWrite,
     handlerRest, choice, clientVars, SequencesTyped
<1>5. AudioEnds'
  <2>1. up' # <<>> => up'[Len(up')] = up[Len(up)]
    BY FirstGone DEF ServerInv, SequencesTyped, OnSpeechStart, Read
  <2>2. /\ up # <<>> /\ up[1] = "start" /\ up \in Seq(Messages)
        /\ 1 \in DOMAIN up /\ (up' = <<>> <=> Len(up) = 1)
    <3>1. up \in Seq(Messages) /\ UpInOrder /\ Read("start")
      BY DEF ServerInv, SequencesTyped, OnSpeechStart
    <3>2. QED BY <3>1, ReadFacts
  <2>3. QED BY <2>1, <2>2, AppendFacts, AudioIsNat, AudioRead, NothingUp
        DEF ServerInv, FlagsTyped, SequencesTyped, UpInOrder, Opening, Fresh, Balance, AtServer, AudioEnds, Stopped,
            SentInOrder, OnSpeechStart, Read, ServerWrite, handlerRest, choice, clientVars, decVars, FirstMessages, FromServer, Answer
<1>6. Reported'
  BY DEF ServerInv, Reported, OnSpeechStart, Read, ServerWrite, handlerRest, decVars, Opening,
         Fresh, Finals, Answer, FirstMessages
<1>7. SentInOrder'
  BY DEF ServerInv, SentInOrder, OnSpeechStart, Read, ServerWrite, handlerRest, choice, Finals,
         Answer, Opening, Fresh, FirstMessages
<1>8. Covered'
  BY DEF ServerInv, Covered, OnSpeechStart, Read, decVars, Opening, Reported
<1>9. up' \in Seq(Messages)
  BY UpTyped DEF ServerInv, SequencesTyped, OnSpeechStart, Read, handlerRest
<1>10. /\ Delivered'
       /\ down' \in Seq(FromServer) /\ sent' \in Seq(FromServer) /\ received' \in Seq(FromServer)
  BY DownKeeps DEF ServerInv, SequencesTyped, OnSpeechStart, Read, ServerWrite, handlerRest,
     clientVars, FromServer, Answer
<1>11. QED BY <1>1, <1>2, <1>3, <1>4, <1>5, <1>6, <1>7, <1>8, <1>9, <1>10 DEF ServerInv,
              SequencesTyped

LEMMA StartDecodeThreadKeeps == ASSUME ServerInv, StartDecodeThread PROVE ServerInv'
<1>1. FlagsTyped'
  BY DEF ServerInv, FlagsTyped, StartDecodeThread, handlerRest, choice, clientVars
<1>2. UpInOrder'
  BY DEF ServerInv, UpInOrder, StartDecodeThread, handlerRest, choice, clientVars
<1>3. Opening'
  BY DEF ServerInv, Opening, Fresh, StartDecodeThread, handlerRest, choice, clientVars
<1>4. Balance'
  BY DEF ServerInv, Balance, AtServer, StartDecodeThread, handlerRest, choice, clientVars
<1>5. AudioEnds'
  BY DEF ServerInv, AudioEnds, Stopped, StartDecodeThread, handlerRest, choice, clientVars
<1>6. Reported'
  BY DEF ServerInv, Reported, Opening, StartDecodeThread, handlerRest, choice
<1>7. SentInOrder'
  BY DEF ServerInv, SentInOrder, Opening, StartDecodeThread, handlerRest, choice
<1>8. Covered'
  BY DEF ServerInv, Covered, StartDecodeThread, handlerRest, choice, clientVars
<1>9. up' \in Seq(Messages)
  BY UpTyped DEF ServerInv, SequencesTyped, StartDecodeThread, handlerRest
<1>10. /\ Delivered'
       /\ down' \in Seq(FromServer) /\ sent' \in Seq(FromServer) /\ received' \in Seq(FromServer)
  BY DownKeeps DEF ServerInv, SequencesTyped, StartDecodeThread, handlerRest, clientVars
<1>11. QED BY <1>1, <1>2, <1>3, <1>4, <1>5, <1>6, <1>7, <1>8, <1>9, <1>10 DEF ServerInv,
              SequencesTyped

LEMMA ReadBinaryKeeps == ASSUME ServerInv, ReadBinary PROVE ServerInv'
<1>1. FlagsTyped'
  BY DEF ServerInv, FlagsTyped, ReadBinary, Read, handlerRest, choice, clientVars, decVars
<1>2. UpInOrder'
  BY DEF ServerInv, UpInOrder, ReadBinary, Read, handlerRest, choice, clientVars
<1>3. Opening'
  <2>1. up' # <<>> => up'[1] \notin FirstMessages
    BY FirstGone DEF ServerInv, SequencesTyped, ReadBinary, Read
  <2>2. up # <<>> /\ up[1] = "audio"
    BY TailFacts DEF ServerInv, SequencesTyped, ReadBinary, Read
  <2>3. QED BY <2>1, <2>2, AppendFacts DEF ServerInv, FlagsTyped, SequencesTyped, UpInOrder,
               Opening, Fresh, ReadBinary, Read, handlerRest, choice, clientVars, decVars,
               FirstMessages
<1>4. Balance'
  BY AudioRead, AudioIsNat DEF ServerInv, Balance, AtServer, ReadBinary, Read, handlerRest,
     choice, clientVars, FlagsTyped, SequencesTyped
<1>5. AudioEnds'
  <2>1. /\ up # <<>> /\ up[1] = "audio" /\ up \in Seq(Messages) /\ srv = "read" /\ up' = Tail(up)
        /\ UpInOrder /\ (up' = <<>> <=> Len(up) = 1)
    BY ReadFacts DEF ServerInv, SequencesTyped, ReadBinary
  <2>2. up' # <<>> => up'[Len(up')] = up[Len(up)]
    BY <2>1, FirstGone
  <2>3. up[Len(up)] \in {"end", "wrong"} => up' # <<>>
    BY <2>1
  <2>4. ~finished /\ UNCHANGED <<proto, conn, client, audio, length, finished, continuous, state, sent>>
    BY <2>1 DEF ServerInv, Opening, FlagsTyped, ReadBinary, handlerRest, choice, clientVars,
       decVars
  <2>5. QED BY <2>1, <2>2, <2>3, <2>4 DEF ServerInv, AudioEnds, Stopped
<1>6. Reported'
  BY DEF ServerInv, Reported, ReadBinary, Read, handlerRest, choice, decVars
<1>7. SentInOrder'
  BY DEF ServerInv, SentInOrder, ReadBinary, Read, handlerRest, choice, decVars
<1>8. Covered'
  BY DEF ServerInv, Covered, ReadBinary, Read, handlerRest, choice, clientVars, decVars
<1>9. up' \in Seq(Messages)
  BY UpTyped DEF ServerInv, SequencesTyped, ReadBinary, Read, handlerRest
<1>10. /\ Delivered'
       /\ down' \in Seq(FromServer) /\ sent' \in Seq(FromServer) /\ received' \in Seq(FromServer)
  BY DownKeeps DEF ServerInv, SequencesTyped, ReadBinary, Read, handlerRest, clientVars
<1>11. QED BY <1>1, <1>2, <1>3, <1>4, <1>5, <1>6, <1>7, <1>8, <1>9, <1>10 DEF ServerInv,
              SequencesTyped

LEMMA OnSpeechDataKeeps == ASSUME ServerInv, OnSpeechData PROVE ServerInv'
<1>1. FlagsTyped'
  BY DEF ServerInv, FlagsTyped, OnSpeechData, handlerRest, choice, clientVars, decVars
<1>2. UpInOrder'
  BY DEF ServerInv, UpInOrder, OnSpeechData, handlerRest, choice, clientVars
<1>3. Opening'
  BY DEF ServerInv, Opening, Fresh, OnSpeechData, handlerRest, choice, clientVars, decVars
<1>4. Balance'
  BY DEF ServerInv, Balance, AtServer, OnSpeechData, handlerRest, choice, clientVars
<1>5. AudioEnds'
  BY DEF ServerInv, AudioEnds, Opening, Stopped, OnSpeechData, handlerRest, choice, clientVars,
         decVars
<1>6. Reported'
  BY DEF ServerInv, Reported, Opening, OnSpeechData, handlerRest, choice, decVars
<1>7. SentInOrder'
  BY DEF ServerInv, SentInOrder, OnSpeechData, handlerRest, choice, decVars
<1>8. Covered'
  BY DEF ServerInv, Covered, OnSpeechData, handlerRest, choice, clientVars, decVars
<1>9. up' \in Seq(Messages)
  BY UpTyped DEF ServerInv, SequencesTyped, OnSpeechData, handlerRest
<1>10. /\ Delivered'
       /\ down' \in Seq(FromServer) /\ sent' \in Seq(FromServer) /\ received' \in Seq(FromServer)
  BY DownKeeps DEF ServerInv, SequencesTyped, OnSpeechData, handlerRest, clientVars
<1>11. QED BY <1>1, <1>2, <1>3, <1>4, <1>5, <1>6, <1>7, <1>8, <1>9, <1>10 DEF ServerInv,
              SequencesTyped

LEMMA OnSpeechEndKeeps == ASSUME ServerInv, OnSpeechEnd PROVE ServerInv'
<1>1. FlagsTyped'
  BY DEF ServerInv, FlagsTyped, OnSpeechEnd, Read, handlerRest, choice, clientVars, decVars
<1>2. UpInOrder'
  BY DEF ServerInv, UpInOrder, OnSpeechEnd, Read, handlerRest, choice, clientVars
<1>3. Opening'
  <2>1. up' # <<>> => up'[1] \notin FirstMessages
    BY FirstGone DEF ServerInv, SequencesTyped, OnSpeechEnd, Read
  <2>2. up # <<>> /\ up[1] = "end"
    BY TailFacts DEF ServerInv, SequencesTyped, OnSpeechEnd, Read
  <2>3. QED BY <2>1, <2>2, AppendFacts DEF ServerInv, FlagsTyped, SequencesTyped, UpInOrder,
               Opening, Fresh, OnSpeechEnd, Read, handlerRest, choice, clientVars, decVars,
               FirstMessages
<1>4. Balance'
  BY AudioRead, AudioIsNat DEF ServerInv, Balance, AtServer, OnSpeechEnd, Read, handlerRest,
     choice, clientVars, SequencesTyped
<1>5. AudioEnds'
  <2>1. /\ up # <<>> /\ up[1] = "end" /\ up \in Seq(Messages) /\ srv = "read"
        /\ 1 \in DOMAIN up /\ Len(up) \in Nat /\ up' = <<>> /\ AudioIn(up) = 0
    BY ReadFacts DEF ServerInv, SequencesTyped, OnSpeechEnd, LastMessages
  <2>2. client \in {"join", "exit"} /\ up[Len(up)] = "end"
    BY <2>1 DEF ServerInv, UpInOrder, LastMessages
  <2>3. conn = "open" => accepted = audio /\ (audio = length \/ Stopped)
    BY <2>1, <2>2 DEF ServerInv, FlagsTyped, Balance, AtServer, AudioEnds, OnSpeechEnd
  <2>4. /\ srv' = "join"
        /\ UNCHANGED <<proto, conn, client, audio, accepted, length, continuous, state, sent>>
    BY DEF OnSpeechEnd, handlerRest, choice, clientVars, decVars
  <2>5. QED BY <2>1, <2>2, <2>3, <2>4 DEF AudioEnds, Stopped
<1>6. Reported'
  BY DEF ServerInv, Reported, OnSpeechEnd, Read, handlerRest, choice, decVars
<1>7. SentInOrder'
  BY DEF ServerInv, SentInOrder, OnSpeechEnd, Read, handlerRest, choice, decVars
<1>8. Covered'
  BY DEF ServerInv, Covered, OnSpeechEnd, Read, handlerRest, choice, clientVars, decVars
<1>9. up' \in Seq(Messages)
  BY UpTyped DEF ServerInv, SequencesTyped, OnSpeechEnd, Read, handlerRest
<1>10. /\ Delivered'
       /\ down' \in Seq(FromServer) /\ sent' \in Seq(FromServer) /\ received' \in Seq(FromServer)
  BY DownKeeps DEF ServerInv, SequencesTyped, OnSpeechEnd, Read, handlerRest, clientVars
<1>11. QED BY <1>1, <1>2, <1>3, <1>4, <1>5, <1>6, <1>7, <1>8, <1>9, <1>10 DEF ServerInv,
              SequencesTyped

LEMMA OnClosedKeeps == ASSUME ServerInv, OnClosed PROVE ServerInv'
<1>1. FlagsTyped'
  BY DEF ServerInv, FlagsTyped, OnClosed, Read, choice, clientVars, decVars
<1>2. UpInOrder'
  BY DEF ServerInv, UpInOrder, OnClosed, Read, choice, clientVars
<1>3. Opening'
  <2>1. up' # <<>> => up'[1] \notin FirstMessages
    BY FirstGone DEF ServerInv, SequencesTyped, OnClosed, Read
  <2>2. up # <<>> /\ up[1] = "close"
    BY TailFacts DEF ServerInv, SequencesTyped, OnClosed, Read
  <2>3. QED BY <2>1, <2>2, AppendFacts DEF ServerInv, FlagsTyped, SequencesTyped, UpInOrder,
               Opening, Fresh, OnClosed, Read, choice, clientVars, decVars, FirstMessages
<1>4. Balance'
  BY AudioRead, AudioIsNat DEF ServerInv, Balance, AtServer, OnClosed, Read, choice, clientVars,
     SequencesTyped
<1>5. AudioEnds'
  BY DEF ServerInv, AudioEnds, Stopped, OnClosed, Read, choice, clientVars, decVars
<1>6. Reported'
  BY DEF ServerInv, Reported, OnClosed, Read, choice, decVars
<1>7. SentInOrder'
  BY DEF ServerInv, SentInOrder, OnClosed, Read, choice, decVars
<1>8. Covered'
  BY DEF ServerInv, Covered, OnClosed, Read, decVars, Opening, Reported
<1>9. up' \in Seq(Messages)
  BY UpTyped DEF ServerInv, SequencesTyped, OnClosed, Read
<1>10. /\ Delivered'
       /\ down' \in Seq(FromServer) /\ sent' \in Seq(FromServer) /\ received' \in Seq(FromServer)
  BY DownKeeps DEF ServerInv, SequencesTyped, OnClosed, Read, clientVars
<1>11. QED BY <1>1, <1>2, <1>3, <1>4, <1>5, <1>6, <1>7, <1>8, <1>9, <1>10 DEF ServerInv,
              SequencesTyped

LEMMA OnErrorKeeps == ASSUME ServerInv, OnError PROVE ServerInv'
<1>1. FlagsTyped'
  <2>1. up # <<>> /\ up[1] = "wrong" /\ up \in Seq(Messages)
    BY ReadFacts DEF ServerInv, SequencesTyped, OnError
  <2>2. dec = "none" /\ decoded = 0
    BY <2>1 DEF ServerInv, Opening, Fresh, FirstMessages
  <2>3. /\ accepted' \in {accepted, length} /\ finished' \in {finished, TRUE}
        /\ dec' \in {dec, "decode"} /\ srv' = "join" /\ conn' \in {conn, "closed"}
        /\ UNCHANGED <<got_start_tag_, state, decoded, stop_recognition_, choice, clientVars>>
    BY DEF OnError, ServerWrite
  <2>4. accepted' \in Nat /\ decoded' \in 0..accepted'
    BY <2>2, <2>3 DEF ServerInv, FlagsTyped
  <2>5. /\ finished' \in BOOLEAN /\ conn' \in {"open", "lost", "closed"}
        /\ dec' \in {"none", "decode", "final", "finish", "stop", "exit"}
    BY DEF ServerInv, FlagsTyped, OnError, ServerWrite
  <2>6. QED BY <2>3, <2>4, <2>5 DEF ServerInv, FlagsTyped, choice, clientVars
<1>2. UpInOrder'
  BY DEF ServerInv, UpInOrder, FlagsTyped, Opening, Fresh, OnError, Read
<1>3. Opening'
  <2>1. up' # <<>> => up'[1] \notin FirstMessages
    BY FirstGone DEF ServerInv, SequencesTyped, OnError, Read
  <2>2. up # <<>> /\ up[1] = "wrong"
    BY TailFacts DEF ServerInv, SequencesTyped, OnError, Read
  <2>3. QED BY <2>1, <2>2, AppendFacts DEF ServerInv, FlagsTyped, SequencesTyped, UpInOrder,
               Opening, Fresh, OnError, Read, ServerWrite, choice, clientVars, decVars,
               FirstMessages
<1>4. Balance'
  <2>1. /\ AudioIn(up') = 0 /\ AudioIn(up) = 0 /\ srv = "read" /\ up # <<>> /\ up[1] = "wrong" /\ 1 \in DOMAIN up
    BY ReadFacts DEF ServerInv, SequencesTyped, OnError
  <2>2. client \in {"join", "exit"} /\ accepted <= audio
    BY <2>1 DEF ServerInv, FlagsTyped, Balance, AtServer, UpInOrder
  <2>3. proto = "http" => audio = length
    BY <2>2 DEF ServerInv, Balance
  <2>4. /\ accepted' = IF proto = "ws" THEN accepted ELSE length
        /\ srv' = "join" /\ UNCHANGED <<proto, length, audio, client>>
    BY DEF OnError, ServerWrite, choice, clientVars
  <2>5. proto \in {"ws", "http"} /\ length \in Nat /\ accepted \in Nat /\ audio \in Nat
    BY <2>1 DEF ServerInv, FlagsTyped, UpInOrder
  <2>6. QED BY <2>1, <2>2, <2>3, <2>4, <2>5 DEF Balance, AtServer
<1>5. AudioEnds'
  BY DEF ServerInv, AudioEnds, Stopped, OnError, Read, ServerWrite, choice, clientVars
<1>6. Reported'
  BY DEF ServerInv, Reported, OnError, Read, ServerWrite, Opening, Fresh, Finals, Answer,
         FirstMessages
<1>7. SentInOrder'
  <2>1. up # <<>> /\ up[1] = "wrong" /\ up \in Seq(Messages)
    BY ReadFacts DEF ServerInv, SequencesTyped, OnError
  <2>2. sent = <<>>
    BY <2>1 DEF ServerInv, Opening, Fresh, FirstMessages
  <2>3. conn' # "open" /\ (sent' = sent \/ sent' = Append(sent, Answer("failed")))
        /\ UNCHANGED <<proto, continuous>>
    BY DEF OnError, ServerWrite, choice
  <2>4. sent' = <<>> \/ (Len(sent') = 1 /\ DOMAIN sent' = {1} /\ sent'[1].type = "failed")
    BY <2>2, <2>3 DEF Answer
  <2>5. Finals(sent') = {}
    BY <2>4 DEF Finals
  <2>6. Len(sent') <= 1 /\ \A i \in DOMAIN sent' : i = 1 /\ Len(sent') = 1 /\ sent'[i].type = "failed"
    <3>1. CASE sent' = <<>>
      BY <3>1
    <3>2. CASE Len(sent') = 1 /\ DOMAIN sent' = {1} /\ sent'[1].type = "failed"
      BY <3>2
    <3>3. QED BY <2>4, <3>1, <3>2
  <2>7. QED BY <2>3, <2>5, <2>6 DEF SentInOrder
<1>8. Covered'
  BY DEF ServerInv, Covered, OnError, Read, Opening, Reported
<1>9. up' \in Seq(Messages)
  BY UpTyped DEF ServerInv, SequencesTyped, OnError, Read
<1>10. /\ Delivered'
       /\ down' \in Seq(FromServer) /\ sent' \in Seq(FromServer) /\ received' \in Seq(FromServer)
  BY DownKeeps DEF ServerInv, SequencesTyped, OnError, Read, ServerWrite, clientVars,
     FromServer, Answer
<1>11. QED BY <1>1, <1>2, <1>3, <1>4, <1>5, <1>6, <1>7, <1>8, <1>9, <1>10 DEF ServerInv,
              SequencesTyped

LEMMA OnRequestKeeps == ASSUME ServerInv, OnRequest PROVE ServerInv'
<1>1. FlagsTyped'
  BY DEF ServerInv, FlagsTyped, OnRequest, Read, handlerRest, choice, clientVars, Opening,
         Fresh, FirstMessages
<1>2. UpInOrder'
  BY DEF ServerInv, UpInOrder, OnRequest, Read, handlerRest, choice, clientVars
<1>3. Opening'
  <2>1. up' # <<>> => up'[1] \notin FirstMessages
    BY FirstGone DEF ServerInv, SequencesTyped, OnRequest, Read
  <2>2. up # <<>> /\ up[1] = "request"
    BY TailFacts DEF ServerInv, SequencesTyped, OnRequest, Read
  <2>3. QED BY <2>1, <2>2, AppendFacts DEF ServerInv, FlagsTyped, SequencesTyped, UpInOrder,
               Opening, Fresh, OnRequest, Read, handlerRest, choice, clientVars, decVars,
               FirstMessages
<1>4. Balance'
  <2>1. AudioIn(up') = 0 /\ up # <<>> /\ up[1] = "request" /\ 1 \in DOMAIN up
    BY ReadFacts DEF ServerInv, SequencesTyped, OnRequest
  <2>2. client \in {"join", "exit"} /\ proto = "http"
    BY <2>1 DEF ServerInv, UpInOrder
  <2>3. audio = length /\ length \in Nat
    BY <2>2 DEF ServerInv, FlagsTyped, Balance
  <2>4. accepted' = length /\ srv' = "join" /\ UNCHANGED <<proto, length, audio, client>>
    BY DEF OnRequest, handlerRest, choice, clientVars
  <2>5. QED BY <2>1, <2>2, <2>3, <2>4 DEF Balance, AtServer
<1>5. AudioEnds'
  BY DEF ServerInv, AudioEnds, OnRequest, Read, handlerRest, choice, UpInOrder
<1>6. Reported'
  <2>1. up # <<>> /\ up[1] = "request" /\ 1 \in DOMAIN up
    BY ReadFacts DEF ServerInv, SequencesTyped, OnRequest
  <2>2. proto = "http" /\ dec = "none" /\ state = "kEndBatch" /\ sent = <<>>
    BY <2>1 DEF ServerInv, UpInOrder, Opening, Fresh, FirstMessages
  <2>3. Finals(sent) = {}
    BY <2>2 DEF Finals
  <2>4. dec' = "decode" /\ UNCHANGED <<proto, state, sent>>
    BY DEF OnRequest, handlerRest, choice
  <2>5. QED BY <2>2, <2>3, <2>4 DEF Reported
<1>7. SentInOrder'
  BY DEF ServerInv, SentInOrder, OnRequest, Read, Finals, Opening, Fresh, FirstMessages
<1>8. Covered'
  BY DEF ServerInv, Covered, OnRequest, Read, handlerRest, choice, clientVars
<1>9. up' \in Seq(Messages)
  BY UpTyped DEF ServerInv, SequencesTyped, OnRequest, Read, handlerRest
<1>10. /\ Delivered'
       /\ down' \in Seq(FromServer) /\ sent' \in Seq(FromServer) /\ received' \in Seq(FromServer)
  BY DownKeeps DEF ServerInv, SequencesTyped, OnRequest, Read, handlerRest, clientVars
<1>11. QED BY <1>1, <1>2, <1>3, <1>4, <1>5, <1>6, <1>7, <1>8, <1>9, <1>10 DEF ServerInv,
              SequencesTyped

LEMMA ReadFailsKeeps == ASSUME ServerInv, ReadFails PROVE ServerInv'
<1>1. FlagsTyped'
  BY DEF ServerInv, FlagsTyped, ReadFails, handlerRest, choice, clientVars, decVars
<1>2. UpInOrder'
  BY DEF ServerInv, UpInOrder, ReadFails, handlerRest, choice, clientVars
<1>3. Opening'
  BY DEF ServerInv, Opening, Fresh, ReadFails, handlerRest, choice, clientVars, decVars
<1>4. Balance'
  BY DEF ServerInv, Balance, AtServer, ReadFails, handlerRest, choice, clientVars
<1>5. AudioEnds'
  BY DEF ServerInv, AudioEnds, Stopped, ReadFails, handlerRest, choice, clientVars, decVars
<1>6. Reported'
  BY DEF ServerInv, Reported, Opening, ReadFails, handlerRest, choice, decVars
<1>7. SentInOrder'
  BY DEF ServerInv, SentInOrder, ReadFails, handlerRest, choice, decVars
<1>8. Covered'
  BY DEF ServerInv, Covered, ReadFails, handlerRest, choice, clientVars, decVars
<1>9. up' \in Seq(Messages)
  BY UpTyped DEF ServerInv, SequencesTyped, ReadFails, handlerRest
<1>10. /\ Delivered'
       /\ down' \in Seq(FromServer) /\ sent' \in Seq(FromServer) /\ received' \in Seq(FromServer)
  BY DownKeeps DEF ServerInv, SequencesTyped, ReadFails, handlerRest, clientVars
<1>11. QED BY <1>1, <1>2, <1>3, <1>4, <1>5, <1>6, <1>7, <1>8, <1>9, <1>10 DEF ServerInv,
              SequencesTyped

LEMMA HandlerJoinKeeps == ASSUME ServerInv, HandlerJoin PROVE ServerInv'
<1>1. FlagsTyped'
  BY DEF ServerInv, FlagsTyped, HandlerJoin, choice, clientVars, decVars
<1>2. UpInOrder'
  BY DEF ServerInv, UpInOrder, HandlerJoin, choice, clientVars
<1>3. Opening'
  BY DEF ServerInv, Opening, Fresh, HandlerJoin, choice, clientVars, decVars
<1>4. Balance'
  <2>1. /\ AudioIn(up) \in Nat /\ up' = <<>> /\ AudioIn(up') = 0
    BY AudioIsNat, NothingUp DEF ServerInv, SequencesTyped, HandlerJoin
  <2>2. /\ srv = "join" /\ srv' = "exit" /\ UNCHANGED <<accepted, proto, length, audio, client>>
    BY DEF HandlerJoin, choice, clientVars
  <2>3. accepted \in Nat /\ audio \in Nat
    BY DEF ServerInv, FlagsTyped
  <2>4. QED BY <2>1, <2>2, <2>3 DEF ServerInv, Balance, AtServer
<1>5. AudioEnds'
  BY DEF ServerInv, AudioEnds, Stopped, HandlerJoin, choice, clientVars, decVars
<1>6. Reported'
  BY DEF ServerInv, Reported, HandlerJoin, choice, decVars
<1>7. SentInOrder'
  BY DEF ServerInv, SentInOrder, HandlerJoin, choice, decVars
<1>8. Covered'
  BY DEF ServerInv, Covered, HandlerJoin, choice, clientVars, decVars
<1>9. up' \in Seq(Messages)
  BY UpTyped DEF ServerInv, SequencesTyped, HandlerJoin
<1>10. /\ Delivered'
       /\ down' \in Seq(FromServer) /\ sent' \in Seq(FromServer) /\ received' \in Seq(FromServer)
  BY DownKeeps DEF ServerInv, SequencesTyped, HandlerJoin, clientVars
<1>11. QED BY <1>1, <1>2, <1>3, <1>4, <1>5, <1>6, <1>7, <1>8, <1>9, <1>10 DEF ServerInv,
              SequencesTyped

--------------------------------------------------------------------------------
(***************************************************************************)
(* The steps of the decode thread.                                         *)
(***************************************************************************)
LEMMA DecodeBatchKeeps == ASSUME ServerInv, DecodeBatch PROVE ServerInv'
<1>1. FlagsTyped'
  BY DEF ServerInv, FlagsTyped, DecodeBatch, ServerWrite, decodeRest, choice, clientVars,
         srvVars
<1>2. UpInOrder'
  BY DEF ServerInv, UpInOrder, DecodeBatch, ServerWrite, decodeRest, choice, clientVars
<1>3. Opening'
  BY DEF ServerInv, Opening, Fresh, DecodeBatch, ServerWrite, decodeRest, choice, clientVars,
         srvVars
<1>4. Balance'
  BY DEF ServerInv, Balance, AtServer, DecodeBatch, ServerWrite, decodeRest, choice, clientVars,
         srvVars
<1>5. AudioEnds'
  BY DEF ServerInv, AudioEnds, Stopped, DecodeBatch, ServerWrite, decodeRest, choice,
         clientVars, srvVars
<1>6. Reported'
  <2>1. /\ dec = "decode" /\ dec' \in {"decode", "exit"} /\ state' = "kEndBatch"
        /\ UNCHANGED <<proto, continuous, conn>> /\ sent \in Seq(FromServer) /\ Reported
    BY DEF ServerInv, SequencesTyped, DecodeBatch, ServerWrite, decodeRest, choice
  <2>2. sent' = sent \/ \E m \in FromServer : m.type # "final_result" /\ sent' = Append(sent, m)
    <3>1. Answer("partial_result") \in FromServer /\ Answer("partial_result").type # "final_result"
      BY DEF Answer, FromServer
    <3>2. QED BY <3>1 DEF DecodeBatch, ServerWrite
  <2>3. Finals(sent') = Finals(sent) /\ (sent # <<>> => sent' # <<>>)
    BY <2>1, <2>2, Written
  <2>4. QED BY <2>1, <2>3 DEF Reported
<1>7. SentInOrder'
  <2>1. /\ dec = "decode" /\ sent \in Seq(FromServer) /\ UNCHANGED <<proto, continuous, conn>>
        /\ SentInOrder /\ Reported
        /\ Len(sent) \in Nat /\ DOMAIN sent = 1..Len(sent) /\ (sent = <<>> <=> Len(sent) = 0)
    BY DEF ServerInv, SequencesTyped, DecodeBatch, decodeRest, choice
  <2>2. \A i \in DOMAIN sent : sent[i].type # "speech_end"
    BY <2>1 DEF SentInOrder
  <2>3. CASE sent' = sent
    BY <2>1, <2>2, <2>3 DEF SentInOrder, DecodeBatch, ServerWrite
  <2>4. CASE conn = "open" /\ proto # "http" /\ sent' = Append(sent, Answer("partial_result"))
    <3>1. Answer("partial_result") \in FromServer /\ Answer("partial_result").type = "partial_result"
      BY DEF Answer, FromServer
    <3>2. /\ Len(sent') = Len(sent) + 1 /\ DOMAIN sent' = 1..(Len(sent) + 1) /\ sent # <<>>
          /\ \A i \in 1..Len(sent) : sent'[i] = sent[i]
          /\ sent'[Len(sent) + 1].type = "partial_result"
          /\ Finals(sent') = Finals(sent)
      BY <2>1, <2>4, <3>1, Written DEF Reported
    <3>3. ASSUME NEW i \in DOMAIN sent'
          PROVE  \/ i = Len(sent) + 1 /\ i # 1 /\ sent'[i].type = "partial_result"
                 \/ i \in DOMAIN sent /\ sent'[i] = sent[i]
      BY <2>1, <3>2
    <3>4. QED BY <2>1, <2>2, <2>4, <3>2, <3>3 DEF SentInOrder
  <2>5. QED BY <2>3, <2>4 DEF DecodeBatch, ServerWrite
<1>8. Covered'
  BY DEF ServerInv, Covered, DecodeBatch, ServerWrite, decodeRest, choice, clientVars
<1>9. up' \in Seq(Messages)
  BY UpTyped DEF ServerInv, SequencesTyped, DecodeBatch, decodeRest
<1>10. /\ Delivered'
       /\ down' \in Seq(FromServer) /\ sent' \in Seq(FromServer) /\ received' \in Seq(FromServer)
  BY DownKeeps DEF ServerInv, SequencesTyped, DecodeBatch, ServerWrite, decodeRest, clientVars,
     FromServer, Answer
<1>11. QED BY <1>1, <1>2, <1>3, <1>4, <1>5, <1>6, <1>7, <1>8, <1>9, <1>10 DEF ServerInv,
              SequencesTyped

LEMMA DecodeEndpointKeeps == ASSUME ServerInv, DecodeEndpoint PROVE ServerInv'
<1>1. FlagsTyped'
  BY DEF ServerInv, FlagsTyped, DecodeEndpoint, decodeRest, choice, clientVars, srvVars
<1>2. UpInOrder'
  BY DEF ServerInv, UpInOrder, DecodeEndpoint, decodeRest, choice, clientVars
<1>3. Opening'
  BY DEF ServerInv, Opening, Fresh, DecodeEndpoint, decodeRest, choice, clientVars, srvVars
<1>4. Balance'
  BY DEF ServerInv, Balance, AtServer, DecodeEndpoint, decodeRest, choice, clientVars, srvVars
<1>5. AudioEnds'
  BY DEF ServerInv, AudioEnds, Stopped, DecodeEndpoint, decodeRest, choice, clientVars, srvVars
<1>6. Reported'
  BY DEF ServerInv, Reported, DecodeEndpoint, decodeRest, choice, srvVars
<1>7. SentInOrder'
  BY DEF ServerInv, SentInOrder, DecodeEndpoint, decodeRest, choice
<1>8. Covered'
  BY DEF ServerInv, Covered, DecodeEndpoint, decodeRest, choice, clientVars
<1>9. up' \in Seq(Messages)
  BY UpTyped DEF ServerInv, SequencesTyped, DecodeEndpoint, decodeRest
<1>10. /\ Delivered'
       /\ down' \in Seq(FromServer) /\ sent' \in Seq(FromServer) /\ received' \in Seq(FromServer)
  BY DownKeeps DEF ServerInv, SequencesTyped, DecodeEndpoint, decodeRest, clientVars
<1>11. QED BY <1>1, <1>2, <1>3, <1>4, <1>5, <1>6, <1>7, <1>8, <1>9, <1>10 DEF ServerInv,
              SequencesTyped

LEMMA DecodeEndFeatsKeeps == ASSUME ServerInv, DecodeEndFeats PROVE ServerInv'
<1>1. FlagsTyped'
  BY DEF ServerInv, FlagsTyped, DecodeEndFeats, decodeRest, choice, clientVars, srvVars
<1>2. UpInOrder'
  BY DEF ServerInv, UpInOrder, DecodeEndFeats, decodeRest, choice, clientVars
<1>3. Opening'
  BY DEF ServerInv, Opening, Fresh, DecodeEndFeats, decodeRest, choice, clientVars, srvVars
<1>4. Balance'
  BY DEF ServerInv, Balance, AtServer, DecodeEndFeats, decodeRest, choice, clientVars, srvVars
<1>5. AudioEnds'
  BY DEF ServerInv, AudioEnds, Stopped, DecodeEndFeats, decodeRest, choice, clientVars, srvVars,
         SentInOrder
<1>6. Reported'
  BY DEF ServerInv, Reported, DecodeEndFeats, decodeRest, choice, srvVars
<1>7. SentInOrder'
  BY DEF ServerInv, SentInOrder, DecodeEndFeats, decodeRest, choice
<1>8. Covered'
  BY DEF ServerInv, Covered, DecodeEndFeats, SentInOrder
<1>9. up' \in Seq(Messages)
  BY UpTyped DEF ServerInv, SequencesTyped, DecodeEndFeats, decodeRest
<1>10. /\ Delivered'
       /\ down' \in Seq(FromServer) /\ sent' \in Seq(FromServer) /\ received' \in Seq(FromServer)
  BY DownKeeps DEF ServerInv, SequencesTyped, DecodeEndFeats, decodeRest, clientVars
<1>11. QED BY <1>1, <1>2, <1>3, <1>4, <1>5, <1>6, <1>7, <1>8, <1>9, <1>10 DEF ServerInv,
              SequencesTyped

LEMMA OnFinalResultKeeps == ASSUME ServerInv, OnFinalResult PROVE ServerInv'
<1>1. FlagsTyped'
  BY DEF ServerInv, FlagsTyped, OnFinalResult, ServerWrite, AfterFinal, decodeRest, choice,
         clientVars, srvVars
<1>2. UpInOrder'
  BY DEF ServerInv, UpInOrder, OnFinalResult, ServerWrite, AfterFinal, decodeRest, choice,
         clientVars
<1>3. Opening'
  BY DEF ServerInv, Opening, Fresh, OnFinalResult, ServerWrite, AfterFinal, decodeRest, choice,
         clientVars, srvVars
<1>4. Balance'
  BY DEF ServerInv, Balance, AtServer, OnFinalResult, ServerWrite, AfterFinal, decodeRest,
         choice, clientVars, srvVars
<1>5. AudioEnds'
  BY SMTT(30) DEF ServerInv, AudioEnds, Stopped, OnFinalResult, ServerWrite, AfterFinal, decodeRest,
         choice, clientVars, srvVars
<1>6. Reported'
  <2>1. /\ dec = "final" /\ sent \in Seq(FromServer) /\ Reported /\ decoded \in Nat
        /\ state \in {"kEndBatch", "kEndpoint", "kEndFeats"} /\ continuous \in BOOLEAN
        /\ UNCHANGED <<proto, continuous, conn, state, decoded, finished, accepted, srv>>
    BY DEF ServerInv, FlagsTyped, SequencesTyped, OnFinalResult, decodeRest, choice, srvVars
  <2>2. state \in {"kEndpoint", "kEndFeats"}
    BY <2>1 DEF Reported
  <2>3. dec' \in {"exit", AfterFinal}
    BY DEF OnFinalResult, ServerWrite
  <2>4. /\ dec' \in {"exit", "decode", "finish"}
        /\ dec' = "decode" => continuous /\ state = "kEndpoint"
        /\ dec' = "finish" => proto # "http" /\ (continuous => state = "kEndFeats")
    BY <2>1, <2>2, <2>3 DEF AfterFinal
  <2>5. conn = "open" => sent' # <<>> /\ sent'[Len(sent')] = Final(decoded)
    BY <2>1, AppendFacts DEF OnFinalResult, ServerWrite, Final, FromServer
  <2>6. QED BY <2>1, <2>2, <2>4, <2>5 DEF Reported
<1>7. SentInOrder'
  <2>1. /\ dec = "final" /\ sent \in Seq(FromServer) /\ UNCHANGED <<proto, continuous, conn>>
        /\ SentInOrder /\ Reported
        /\ Len(sent) \in Nat /\ DOMAIN sent = 1..Len(sent) /\ (sent = <<>> <=> Len(sent) = 0)
    BY DEF ServerInv, SequencesTyped, OnFinalResult, decodeRest, choice
  <2>2. \A i \in DOMAIN sent : sent[i].type # "speech_end"
    BY <2>1 DEF SentInOrder
  <2>3. CASE sent' = sent
    <3>1. proto = "http" /\ conn = "open" => sent' # sent
      BY <2>1, AppendFacts, Written DEF ServerInv, FlagsTyped, OnFinalResult, ServerWrite,
         Final, FromServer
    <3>2. QED BY <2>1, <2>2, <2>3, <3>1 DEF SentInOrder
  <2>4. CASE conn = "open" /\ sent' = Append(sent, Final(decoded))
    <3>1. Final(decoded) \in FromServer /\ Final(decoded).type = "final_result"
      BY DEF Final, FromServer, ServerInv, FlagsTyped
    <3>2. /\ Len(sent') = Len(sent) + 1 /\ DOMAIN sent' = 1..(Len(sent) + 1)
          /\ \A i \in 1..Len(sent) : sent'[i] = sent[i]
          /\ sent'[Len(sent) + 1].type = "final_result"
          /\ Finals(sent') = Finals(sent) \cup {Len(sent) + 1}
      BY <2>1, <2>4, <3>1, Written
    <3>3. ASSUME NEW i \in DOMAIN sent'
          PROVE  \/ i = Len(sent) + 1 /\ sent'[i].type = "final_result"
                 \/ i \in DOMAIN sent /\ sent'[i] = sent[i]
      BY <2>1, <3>2
    <3>4. proto = "http" => sent = <<>> /\ dec' = "exit"
      BY <2>1, <2>4 DEF SentInOrder, OnFinalResult, ServerWrite, AfterFinal
    <3>5. proto # "http" => sent # <<>>
      BY <2>1, <2>4 DEF Reported
    <3>6. ~continuous => Finals(sent) = {}
      BY <2>1 DEF Reported
    <3>7. QED BY <2>1, <2>2, <2>4, <3>2, <3>3, <3>4, <3>5, <3>6 DEF SentInOrder
  <2>5. QED BY <2>3, <2>4 DEF OnFinalResult, ServerWrite
<1>8. Covered'
  <2>1. /\ dec = "final" /\ sent \in Seq(FromServer) /\ UNCHANGED <<proto, continuous, conn>>
        /\ SentInOrder /\ Reported
        /\ Len(sent) \in Nat /\ DOMAIN sent = 1..Len(sent) /\ (sent = <<>> <=> Len(sent) = 0)
    BY DEF ServerInv, SequencesTyped, OnFinalResult, decodeRest, choice
  <2>2. \A i \in DOMAIN sent : sent[i].type # "speech_end"
    BY <2>1 DEF SentInOrder
  <2>3. \A i \in DOMAIN sent' : sent'[i].type # "speech_end"
    <3>1. Final(decoded) \in FromServer /\ Final(decoded).type = "final_result"
      BY DEF Final, FromServer, ServerInv, FlagsTyped
    <3>2. sent' = sent \/ sent' = Append(sent, Final(decoded))
      BY DEF OnFinalResult, ServerWrite
    <3>3. QED BY <2>1, <2>2, <3>1, <3>2, AppendFacts
  <2>4. QED BY <2>3 DEF Covered
<1>9. up' \in Seq(Messages)
  BY UpTyped DEF ServerInv, SequencesTyped, OnFinalResult, decodeRest
<1>10. /\ Delivered'
       /\ down' \in Seq(FromServer) /\ sent' \in Seq(FromServer) /\ received' \in Seq(FromServer)
  BY SMTT(30), DownKeeps DEF ServerInv, SequencesTyped, OnFinalResult, ServerWrite, decodeRest,
     clientVars, FromServer, FlagsTyped, Final
<1>11. QED BY <1>1, <1>2, <1>3, <1>4, <1>5, <1>6, <1>7, <1>8, <1>9, <1>10 DEF ServerInv,
              SequencesTyped

LEMMA OnFinishKeeps == ASSUME ServerInv, OnFinish PROVE ServerInv'
<1>1. FlagsTyped'
  BY DEF ServerInv, FlagsTyped, OnFinish, ServerWrite, decodeRest, choice, clientVars, srvVars
<1>2. UpInOrder'
  BY DEF ServerInv, UpInOrder, OnFinish, ServerWrite, decodeRest, choice, clientVars
<1>3. Opening'
  BY DEF ServerInv, Opening, Fresh, OnFinish, ServerWrite, decodeRest, choice, clientVars,
         srvVars
<1>4. Balance'
  BY DEF ServerInv, Balance, AtServer, OnFinish, ServerWrite, decodeRest, choice, clientVars,
         srvVars
<1>5. AudioEnds'
  BY DEF ServerInv, AudioEnds, Stopped, OnFinish, ServerWrite, decodeRest, choice, clientVars,
         srvVars
<1>6. Reported'
  BY DEF ServerInv, Reported, OnFinish, ServerWrite, decodeRest, choice, srvVars
<1>7. SentInOrder'
  <2>1. /\ dec = "finish" /\ sent \in Seq(FromServer) /\ UNCHANGED <<proto, continuous, conn>>
        /\ SentInOrder /\ Reported
        /\ Len(sent) \in Nat /\ DOMAIN sent = 1..Len(sent) /\ (sent = <<>> <=> Len(sent) = 0)
    BY DEF ServerInv, SequencesTyped, OnFinish, decodeRest, choice
  <2>2. \A i \in DOMAIN sent : sent[i].type # "speech_end"
    BY <2>1 DEF SentInOrder
  <2>3. proto # "http" /\ state # "kEndBatch" /\ (continuous => state = "kEndFeats") /\ state' = state
    BY <2>1 DEF Reported, OnFinish
  <2>4. CASE sent' = sent
    BY <2>1, <2>2, <2>3, <2>4 DEF SentInOrder
  <2>5. CASE conn = "open" /\ sent' = Append(sent, Answer("speech_end"))
    <3>1. Answer("speech_end") \in FromServer /\ Answer("speech_end").type = "speech_end"
      BY DEF Answer, FromServer
    <3>2. /\ Len(sent') = Len(sent) + 1 /\ DOMAIN sent' = 1..(Len(sent) + 1)
          /\ \A i \in 1..Len(sent) : sent'[i] = sent[i]
          /\ sent'[Len(sent) + 1].type = "speech_end"
          /\ Finals(sent') = Finals(sent)
      BY <2>1, <2>5, <3>1, Written
    <3>3. sent # <<>> /\ sent[Len(sent)].type = "final_result" /\ dec' = "stop"
      BY <2>1, <2>5, AppendFacts, <3>1, <3>2 DEF Reported, Final, OnFinish, ServerWrite
    <3>4. ASSUME NEW i \in DOMAIN sent'
          PROVE  \/ i = Len(sent') /\ i > 1 /\ sent'[i].type = "speech_end" /\ sent'[i - 1].type = "final_result"
                 \/ i \in DOMAIN sent /\ sent'[i] = sent[i]
      BY <2>1, <3>2, <3>3
    <3>5. QED BY <2>1, <2>2, <2>3, <2>5, <3>2, <3>3, <3>4 DEF SentInOrder
  <2>6. QED BY <2>4, <2>5 DEF OnFinish, ServerWrite
<1>8. Covered'
  <2>1. /\ dec = "finish" /\ sent \in Seq(FromServer) /\ UNCHANGED <<proto, continuous, conn>>
        /\ SentInOrder /\ Reported
        /\ Len(sent) \in Nat /\ DOMAIN sent = 1..Len(sent) /\ (sent = <<>> <=> Len(sent) = 0)
    BY DEF ServerInv, SequencesTyped, OnFinish, decodeRest, choice
  <2>2. \A i \in DOMAIN sent : sent[i].type # "speech_end"
    BY <2>1 DEF SentInOrder
  <2>3. CASE sent' = sent
    BY <2>2, <2>3 DEF Covered
  <2>4. CASE conn = "open" /\ sent' = Append(sent, Answer("speech_end")) /\ state = "kEndFeats"
    <3>1. Answer("speech_end") \in FromServer
      BY DEF Answer, FromServer
    <3>2. sent # <<>> /\ sent[Len(sent)] = Final(decoded) /\ proto # "http" /\ finished /\ decoded = accepted
      BY <2>1, <2>4 DEF Reported
    <3>3. accepted = audio /\ client \in {"join", "exit"} /\ audio = length
      BY <2>4, <3>2 DEF ServerInv, AudioEnds, Stopped
    <3>4. Len(sent') = Len(sent) + 1 /\ \A i \in 1..Len(sent) : sent'[i] = sent[i]
      BY <2>1, <2>4, <3>1, Written
    <3>5. Len(sent') - 1 = Len(sent) /\ sent'[Len(sent)] = Final(audio)
      BY <2>1, <3>2, <3>3, <3>4
    <3>6. QED BY <3>3, <3>5 DEF Covered, OnFinish, decodeRest, choice, clientVars
  <2>5. CASE state # "kEndFeats"
    BY <2>5 DEF Covered, OnFinish
  <2>6. QED BY <2>3, <2>4, <2>5 DEF OnFinish, ServerWrite
<1>9. up' \in Seq(Messages)
  BY UpTyped DEF ServerInv, SequencesTyped, OnFinish, decodeRest
<1>10. /\ Delivered'
       /\ down' \in Seq(FromServer) /\ sent' \in Seq(FromServer) /\ received' \in Seq(FromServer)
  BY DownKeeps DEF ServerInv, SequencesTyped, OnFinish, ServerWrite, decodeRest, clientVars,
     FromServer, Answer
<1>11. QED BY <1>1, <1>2, <1>3, <1>4, <1>5, <1>6, <1>7, <1>8, <1>9, <1>10 DEF ServerInv,
              SequencesTyped

LEMMA StopRecognitionKeeps == ASSUME ServerInv, StopRecognition PROVE ServerInv'
<1>1. FlagsTyped'
  BY DEF ServerInv, FlagsTyped, StopRecognition, decodeRest, choice, clientVars, srvVars
<1>2. UpInOrder'
  BY DEF ServerInv, UpInOrder, StopRecognition, decodeRest, choice, clientVars
<1>3. Opening'
  BY DEF ServerInv, Opening, Fresh, StopRecognition, decodeRest, choice, clientVars, srvVars
<1>4. Balance'
  BY DEF ServerInv, Balance, AtServer, StopRecognition, decodeRest, choice, clientVars, srvVars
<1>5. AudioEnds'
  BY DEF ServerInv, AudioEnds, Stopped, StopRecognition, decodeRest, choice, clientVars, srvVars
<1>6. Reported'
  BY DEF ServerInv, Reported, StopRecognition, decodeRest, choice, srvVars
<1>7. SentInOrder'
  BY DEF ServerInv, SentInOrder, StopRecognition, decodeRest, choice
<1>8. Covered'
  BY DEF ServerInv, Covered, StopRecognition, decodeRest, choice, clientVars
<1>9. up' \in Seq(Messages)
  BY UpTyped DEF ServerInv, SequencesTyped, StopRecognition, decodeRest
<1>10. /\ Delivered'
       /\ down' \in Seq(FromServer) /\ sent' \in Seq(FromServer) /\ received' \in Seq(FromServer)
  BY DownKeeps DEF ServerInv, SequencesTyped, StopRecognition, decodeRest, clientVars
<1>11. QED BY <1>1, <1>2, <1>3, <1>4, <1>5, <1>6, <1>7, <1>8, <1>9, <1>10 DEF ServerInv,
              SequencesTyped

--------------------------------------------------------------------------------
(***************************************************************************)
(* The connection is lost.                                                 *)
(***************************************************************************)
LEMMA LoseKeeps == ASSUME ServerInv, Lose PROVE ServerInv'
<1>1. FlagsTyped'
  BY DEF ServerInv, FlagsTyped, Lose, choice, clientVars, srvVars, decVars
<1>2. UpInOrder'
  <2>1. /\ up \in Seq(Messages) /\ UpInOrder /\ up' \in Prefixes(up)
        /\ conn = "open" /\ conn' = "lost" /\ UNCHANGED <<choice, clientVars, srvVars, decVars, sent>>
    BY DEF ServerInv, SequencesTyped, Lose
  <2>2. QED BY <2>1, CutInOrder DEF choice, clientVars
<1>3. Opening'
  <2>1. /\ up \in Seq(Messages) /\ UpInOrder /\ up' \in Prefixes(up)
        /\ conn = "open" /\ conn' = "lost" /\ UNCHANGED <<choice, clientVars, srvVars, decVars, sent>>
    BY DEF ServerInv, SequencesTyped, Lose
  <2>2. up' # <<>> => up # <<>> /\ up'[1] = up[1]
    BY <2>1, CutInOrder DEF choice, clientVars
  <2>3. up = <<>> => up' = <<>>
    BY <2>2
  <2>4. QED BY <2>1, <2>2, <2>3 DEF ServerInv, Opening, Fresh, choice, clientVars, srvVars,
               decVars
<1>4. Balance'
  <2>1. /\ up \in Seq(Messages) /\ UpInOrder /\ up' \in Prefixes(up)
        /\ conn = "open" /\ conn' = "lost" /\ UNCHANGED <<choice, clientVars, srvVars, decVars, sent>>
    BY DEF ServerInv, SequencesTyped, Lose
  <2>2. /\ AudioIn(up') <= AudioIn(up) /\ AudioIn(up) \in Nat /\ AudioIn(up') \in Int
    BY <2>1, AudioCut, AudioIsNat
  <2>3. /\ accepted \in Nat /\ audio \in Nat
        /\ UNCHANGED <<accepted, srv, audio, proto, length, client>>
    BY <2>1 DEF ServerInv, FlagsTyped, choice, clientVars, srvVars
  <2>4. QED BY <2>1, <2>2, <2>3 DEF ServerInv, Balance, AtServer
<1>5. AudioEnds'
  BY DEF ServerInv, AudioEnds, Stopped, Lose, choice, clientVars, srvVars, decVars
<1>6. Reported'
  BY DEF ServerInv, Reported, Lose, choice, srvVars, decVars
<1>7. SentInOrder'
  BY DEF ServerInv, SentInOrder, Lose, choice, decVars
<1>8. Covered'
  BY DEF ServerInv, Covered, Lose, choice, clientVars, decVars
<1>9. up' \in Seq(Messages)
  BY UpTyped DEF ServerInv, SequencesTyped, Lose
<1>10. /\ Delivered'
       /\ down' \in Seq(FromServer) /\ sent' \in Seq(FromServer) /\ received' \in Seq(FromServer)
  BY DownKeeps DEF ServerInv, SequencesTyped, Lose, clientVars
<1>11. QED BY <1>1, <1>2, <1>3, <1>4, <1>5, <1>6, <1>7, <1>8, <1>9, <1>10 DEF ServerInv,
              SequencesTyped

--------------------------------------------------------------------------------
(***************************************************************************)
(* The invariant, and what it says of the messages and the audio.          *)
(***************************************************************************)
LEMMA InitServerInv == Init => ServerInv
<1> SUFFICES ASSUME Init PROVE ServerInv
  OBVIOUS
<1>1. length \in Nat /\ audio \in 0..length /\ accepted \in Nat /\ decoded \in 0..accepted
  BY ServerAssumption DEF Init
<1>2. FlagsTyped
  <2>1. client \in {"start", "wrong"}
    BY DEF Init
  <2>2. QED BY <1>1, <2>1 DEF Init, FlagsTyped
<1>3. SequencesTyped
  BY DEF Init, SequencesTyped
<1>4. UpInOrder /\ Opening
  BY DEF Init, UpInOrder, Opening, Fresh
<1>5. Balance
  BY NothingUp DEF Init, Balance, AtServer
<1>6. AudioEnds /\ Reported
  BY DEF Init, AudioEnds, Reported, Finals
<1>7. SentInOrder /\ Covered
  BY DEF Init, SentInOrder, Covered, Finals
<1>8. Delivered
  <2>1. received = <<>> /\ down = <<>> /\ sent = <<>> /\ done_ = FALSE
    BY DEF Init
  <2>2. received \o down = sent /\ sent \in Seq(FromServer)
    BY <2>1, ConcatEmptySeq
  <2>3. QED BY <2>1, <2>2, PrefixOfItself DEF Delivered
<1>9. QED BY <1>2, <1>3, <1>4, <1>5, <1>6, <1>7, <1>8 DEF ServerInv

LEMMA NothingKeeps == ASSUME ServerInv, UNCHANGED vars PROVE ServerInv'
<1>1. FlagsTyped' /\ SequencesTyped' /\ UpInOrder' /\ Opening'
  BY DEF ServerInv, FlagsTyped, SequencesTyped, UpInOrder, Opening, Fresh, vars, choice, clientVars,
         srvVars, decVars
<1>2. Balance'
  BY DEF ServerInv, Balance, AtServer, vars, choice, clientVars, srvVars
<1>3. AudioEnds' /\ Reported'
  BY DEF ServerInv, AudioEnds, Stopped, Reported, vars, choice, clientVars, srvVars, decVars
<1>4. SentInOrder' /\ Covered'
  BY DEF ServerInv, SentInOrder, Covered, vars, choice, clientVars, decVars
<1>5. Delivered'
  BY DEF ServerInv, Delivered, vars, clientVars
<1>6. QED BY <1>1, <1>2, <1>3, <1>4, <1>5 DEF ServerInv

LEMMA NextKeepsServerInv == ServerInv /\ [Next]_vars => ServerInv'
<1> SUFFICES ASSUME ServerInv, [Next]_vars PROVE ServerInv'
  OBVIOUS
<1>1. CASE ClientMain
  BY <1>1, SendStartSignalKeeps, SendBinaryDataKeeps, SendEndSignalKeeps, CloseKeeps,
     ClientJoinKeeps DEF ClientMain
<1>2. CASE ReadLoop
  BY <1>2, ReadLoopKeeps
<1>3. CASE Handler
  BY <1>3, OnSpeechStartKeeps, StartDecodeThreadKeeps, ReadBinaryKeeps, OnSpeechDataKeeps,
     OnSpeechEndKeeps, OnClosedKeeps, OnErrorKeeps, OnRequestKeeps, ReadFailsKeeps,
     HandlerJoinKeeps DEF Handler
<1>4. CASE DecodeThread
  BY <1>4, DecodeBatchKeeps, DecodeEndpointKeeps, DecodeEndFeatsKeeps, OnFinalResultKeeps,
     OnFinishKeeps, StopRecognitionKeeps DEF DecodeThread
<1>5. CASE Lose
  BY <1>5, LoseKeeps
<1>6. CASE UNCHANGED vars
  BY <1>6, NothingKeeps
<1>7. QED BY <1>1, <1>2, <1>3, <1>4, <1>5, <1>6 DEF Next

\* In every state of a connection ServerInv holds: how the flags of the client, the handler
\* and the decode thread go together, where the audio is that was sent, and what was written.
THEOREM ServerInvHolds == Spec => []ServerInv
<1>1. Init => ServerInv
  BY InitServerInv
<1>2. ServerInv /\ [Next]_vars => ServerInv'
  BY NextKeepsServerInv
<1>3. QED BY <1>1, <1>2, PTL DEF Spec

LEMMA TypesFacts ==
  ASSUME NEW s \in Seq(FromServer)
  PROVE  /\ Len(Types(s)) = Len(s) /\ Len(s) \in Nat
         /\ DOMAIN Types(s) = 1..Len(s) /\ DOMAIN s = 1..Len(s)
         /\ \A i \in 1..Len(s) : Types(s)[i] = s[i].type
         /\ \A ty : ty \in ToSet(Types(s)) <=> \E i \in 1..Len(s) : s[i].type = ty
<1>1. Len(s) \in Nat /\ DOMAIN s = 1..Len(s)
  OBVIOUS
<1>2. DOMAIN Types(s) = 1..Len(s) /\ \A i \in 1..Len(s) : Types(s)[i] = s[i].type
  BY <1>1 DEF Types
<1>3. Len(Types(s)) = Len(s)
  <2>1. Types(s) = [i \in 1..Len(s) |-> s[i].type]
    BY <1>1 DEF Types
  <2>2. \A i \in 1..Len(s) : s[i].type \in {s[j].type : j \in 1..Len(s)}
    OBVIOUS
  <2>3. Types(s) \in Seq({s[j].type : j \in 1..Len(s)})
    BY <1>1, <2>1, <2>2
  <2>4. QED BY <1>1, <1>2, <2>3, LenProperties
<1>4. QED BY <1>1, <1>2, <1>3 DEF ToSet

LEMMA ServerInvTypes == ServerInv => TypeOK
<1> SUFFICES ASSUME ServerInv PROVE TypeOK
  OBVIOUS
<1>1. accepted \in 0..audio
  <2>1. up \in Seq(Messages) /\ UpInOrder /\ accepted \in Nat /\ audio \in Nat /\ Balance
    BY DEF ServerInv, SequencesTyped, FlagsTyped
  <2>2. AudioIn(up) \in Nat
    BY <2>1, AudioIsNat
  <2>3. QED BY <2>1, <2>2 DEF Balance, AtServer
<1>2. IsPrefix(received, sent)
  <2> DEFINE all == received \o down
  <2>1. received \in Seq(FromServer) /\ down \in Seq(FromServer) /\ sent \in Seq(FromServer)
    BY DEF ServerInv, SequencesTyped
  <2>2. /\ all \in Seq(FromServer) /\ Len(all) = Len(received) + Len(down)
        /\ \A i \in 1..Len(received) : all[i] = received[i]
    BY <2>1
  <2>3. IsPrefix(all, sent)
    BY DEF ServerInv, Delivered
  <2> HIDE DEF all
  <2>4. Len(all) <= Len(sent) /\ \A i \in 1..Len(all) : all[i] = sent[i]
    BY <2>1, <2>2, <2>3, IsPrefixFacts
  <2>5. Len(received) \in Nat /\ Len(down) \in Nat /\ Len(sent) \in Nat
    BY <2>1
  <2>6. Len(received) <= Len(sent) /\ \A i \in 1..Len(received) : received[i] = sent[i]
    BY <2>2, <2>4, <2>5
  <2>7. QED BY <2>1, <2>6, IsPrefixFacts
<1>3. QED BY <1>1, <1>2 DEF ServerInv, FlagsTyped, TypeOK

LEMMA ServerInvOrders == ServerInv => MessagesInOrder
<1> SUFFICES ASSUME ServerInv PROVE MessagesInOrder
  OBVIOUS
<1> DEFINE t == Types(sent)
<1>1. sent \in Seq(FromServer) /\ SentInOrder
  BY DEF ServerInv, SequencesTyped
<1>2. /\ Len(t) = Len(sent) /\ Len(sent) \in Nat
      /\ DOMAIN t = 1..Len(sent) /\ DOMAIN sent = 1..Len(sent)
      /\ \A i \in 1..Len(sent) : t[i] = sent[i].type
      /\ "failed" \in ToSet(t) <=> \E i \in 1..Len(sent) : sent[i].type = "failed"
  BY <1>1, TypesFacts
<1> HIDE DEF t
<1>3. CASE proto = "http" \/ "failed" \in ToSet(t)
  <2>1. Len(t) <= 1
    BY <1>1, <1>2, <1>3 DEF SentInOrder
  <2>2. QED BY <1>3, <2>1 DEF MessagesInOrder, t
<1>4. CASE ~(proto = "http" \/ "failed" \in ToSet(t))
  <2>1. \A i \in DOMAIN t : t[i] = "server_ready" <=> i = 1
    BY <1>1, <1>2, <1>4 DEF SentInOrder
  <2>2. \A i \in DOMAIN t : t[i] = "speech_end" => i = Len(t) /\ t[i - 1] = "final_result"
    BY <1>1, <1>2 DEF SentInOrder
  <2>3. ~continuous => \A i, j \in Finals(sent) : i = j
    BY <1>1 DEF SentInOrder
  <2>4. QED BY <1>4, <2>1, <2>2, <2>3 DEF MessagesInOrder, t
<1>5. QED BY <1>3, <1>4

LEMMA ServerInvCovers == ServerInv => EndCoversAudio
<1> SUFFICES ASSUME ServerInv,
                    "speech_end" \in ToSet(Types(sent)),
                    continuous \/ state = "kEndFeats",
                    conn # "lost"
             PROVE  /\ audio = length
                    /\ \E i \in Finals(sent) : sent[i].to = audio /\ \A j \in Finals(sent) : j <= i
  BY DEF EndCoversAudio
<1>1. sent \in Seq(FromServer) /\ SentInOrder /\ Covered
  BY DEF ServerInv, SequencesTyped
<1>2. Len(sent) \in Nat /\ DOMAIN sent = 1..Len(sent)
  BY <1>1
<1>3. PICK e \in 1..Len(sent) : sent[e].type = "speech_end"
  BY <1>1, TypesFacts
<1>4. e = Len(sent) /\ e > 1 /\ state = "kEndFeats"
  BY <1>1, <1>2, <1>3 DEF SentInOrder
<1>5. audio = length /\ sent[Len(sent) - 1] = Final(audio)
  BY <1>1, <1>2, <1>3, <1>4 DEF Covered
<1>6. Len(sent) - 1 \in Finals(sent) /\ sent[Len(sent) - 1].to = audio
  BY <1>2, <1>4, <1>5 DEF Finals, Final
<1>7. \A j \in Finals(sent) : j <= Len(sent) - 1
  BY <1>2, <1>3, <1>4 DEF Finals
<1>8. QED BY <1>5, <1>6, <1>7

\* A WebSocket or gRPC client is sent server_ready, results and, once and directly after a
\* final result, speech_end; the final result of a continuous session that ends stands for
\* all the audio of the file; and what a client has read is what was written (the three
\* servers, their clients, and a connection that may be lost at any time).
THEOREM MessagesAreOfTheAudio == Spec => []MessagesCoverAudioInOrder
<1>1. ServerInv => MessagesCoverAudioInOrder
  BY ServerInvTypes, ServerInvOrders, ServerInvCovers DEF MessagesCoverAudioInOrder
<1>2. QED BY <1>1, ServerInvHolds, PTL
================================================================================
