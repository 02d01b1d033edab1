-------------------------- MODULE KademliaRpcProofs --------------------------
(***************************************************************************)
(* Theorems about KademliaRpc for any clients, texts and network: a client *)
(* never has two messages about, never reads the answer to an earlier      *)
(* call, returns only an answer that fits its call or none, and the server *)
(* falls silent only for the three causes in its code.                     *)
(***************************************************************************)
EXTENDS KademliaRpc, SequenceTheorems, TLAPS

\* Counting two kinds of messages, one of which moves.
LEMMA OneMoves ==
  \A m \in Nat, n \in Nat : /\ m + n + 1 = (m + 1) + n + 0
                            /\ m + (n + 1) = (m + 1) + n
  OBVIOUS

LEMMA OneOfThree ==
  \A m \in Nat, n \in Nat : /\ m + n + 1 = 1 => m <= 1
                            /\ m + n + 0 = 1 => m <= 1 /\ (m # 0 \/ n # 0)
  OBVIOUS

LEMMA OneTaken == \A m \in Nat \ {0} : m <= 1 => m - 1 = 0
  OBVIOUS

LEMMA OneInAll ==
  \A m \in Nat, n \in Nat \ {0} : /\ m + n + 1 # 1
                                  /\ m + n + 0 = 1 => m = 0 /\ n = 1
  OBVIOUS

LEMMA NoneInAll ==
  \A m \in Nat, n \in Nat : /\ m + n + 1 # 0
                            /\ m + n + 0 = 0 => m = 0 /\ n = 0
  OBVIOUS

USE KademliaAssumption
USE DEF MaySend, Stored

Request == [text : Requests, nonce : 1..MaxCalls]
Answer == [text : Texts \cup {Scrambled}, nonce : 1..MaxCalls]

\* A call past its send has an open socket, which awaits its reply.
CallInv ==
  call # NoCall =>
    /\ calls >= 1
    /\ call.at # "send" => socket[call.by] = "open" /\ awaiting[call.by] = calls

\* The messages of an open socket carry the nonce it awaits.
NonceInv ==
  \A c \in Clients : socket[c] = "open" =>
    /\ \A i \in DOMAIN wire[c] : wire[c][i].nonce = awaiting[c]
    /\ \A i \in DOMAIN back[c] : back[c][i].nonce = awaiting[c]

\* A client that never connected has nothing about.
FreshInv ==
  \A c \in Clients : socket[c] = "none" =>
    wire[c] = <<>> /\ back[c] = <<>> /\ awaiting[c] = 0 /\ owed.from # c

KInv ==
  /\ TypeOK /\ OneInFlight /\ SilentForACause
  /\ CallInv /\ NonceInv /\ FreshInv
-----------------------------------------------------------------------------
(* Lemmas about the texts.                                                 *)

LEMMA OneWord ==
  ASSUME NEW S, NEW w \in S
  PROVE  <<w>> \in Seq(S) /\ Len(<<w>>) = 1 /\ <<w>>[1] = w
  OBVIOUS

LEMMA NonceIsAWord == "nonce" \in Words
  BY DEF Words

LEMMA MessageWords ==
  {Ping, Store, FindNode, FindValue, "PONG", "OK", "nonce"} \subseteq Vocabulary
  BY NonceIsAWord DEF Vocabulary

LEMMA CallFields ==
  ASSUME NEW c \in Calls
  PROVE  /\ c.op \in {"Ping", "Store", "FindNode", "FindValue"}
         /\ c.by \in Clients /\ c.at \in Places
         /\ c.key \in Seq(Words) /\ c.value \in Seq(Words)
         /\ \A p \in Places : [c EXCEPT !.at = p] \in Calls
<1>1. <<>> \in Seq(Words) /\ Words \subseteq Vocabulary
  BY DEF Vocabulary
<1> QED BY <1>1 DEF Calls

\* A request is the name of its message followed by at least one word.
LEMMA RequestShape ==
  ASSUME NEW r \in Requests
  PROVE  /\ r \in Texts /\ Len(r) >= 2 /\ r[2] \in Words
         /\ Head(r) \in {Ping, Store, FindValue}
<1> PICK c \in Calls : r = RequestText(c)
  BY DEF Requests
<1> DEFINE k == c.key
           v == c.value
<1>1. k \in Seq(Words) /\ v \in Seq(Words) /\ c.op \in {"Ping", "Store", "FindNode", "FindValue"}
  BY CallFields
<1> HIDE DEF k, v
<1> DEFINE Line(name, body) == <<name>> \o (body \o <<"nonce">>)
<1>2. ASSUME NEW name \in {Ping, Store, FindNode, FindValue}, NEW body \in Seq(Words)
      PROVE  /\ Line(name, body) \in Texts
             /\ Len(Line(name, body)) >= 2
             /\ Line(name, body)[2] \in Words
             /\ Head(Line(name, body)) = name
  <2> DEFINE rest == body \o <<"nonce">>
             all == <<name>> \o rest
  <2>1. <<"nonce">> \in Seq(Words) /\ Len(<<"nonce">>) = 1
    BY OneWord, NonceIsAWord
  <2>2. rest \in Seq(Words) /\ Len(rest) = Len(body) + 1 /\ Len(body) \in Nat
    BY <2>1, ConcatProperties, LenProperties
  <2> HIDE DEF rest
  <2>3. rest \in Seq(Vocabulary) /\ <<name>> \in Seq(Vocabulary)
        /\ Len(<<name>>) = 1 /\ <<name>>[1] = name
    BY <2>2, MessageWords, OneWord, SeqMonotonic DEF Vocabulary
  <2>4. /\ all \in Seq(Vocabulary) /\ Len(all) = 1 + Len(rest)
        /\ all[1] = name /\ all[2] = rest[1]
    BY <2>2, <2>3, ConcatProperties
  <2>5. rest[1] \in Words
    BY <2>2, ElementOfSeq
  <2>6. Head(all) = all[1]
    BY <2>4
  <2> QED BY <2>2, <2>4, <2>5, <2>6 DEF rest, Texts
<1>3. k \o v \in Seq(Words)
  BY <1>1, ConcatProperties
<1>4. <<"nonce">> \in Seq(Words) /\ <<>> \in Seq(Words) /\ Words \subseteq Vocabulary
  BY OneWord, NonceIsAWord DEF Vocabulary
<1>5. \E name \in {Ping, Store, FindValue}, body \in Seq(Words) : r = Line(name, body)
  <2>1. CASE c.op = "Ping"
    <3>1. r = <<Ping, "nonce">>
      BY <2>1 DEF RequestText
    <3>2. <<Ping, "nonce">> = Line(Ping, <<>>)
      OBVIOUS
    <3> QED BY <1>4, <3>1, <3>2
  <2>2. CASE c.op = "Store"
    <3>1. r = <<Store>> \o k \o v \o <<"nonce">>
      BY <2>2 DEF RequestText, k, v
    <3>2. /\ <<Store>> \in Seq(Vocabulary) /\ <<"nonce">> \in Seq(Vocabulary)
          /\ k \in Seq(Vocabulary) /\ v \in Seq(Vocabulary)
      BY <1>1, <1>4, MessageWords, OneWord, SeqMonotonic
    <3>3. <<Store>> \o k \o v \o <<"nonce">> = Line(Store, k \o v)
      BY <3>2, ConcatAssociative, ConcatProperties
    <3> QED BY <1>3, <3>1, <3>3
  <2>3. CASE c.op \in {"FindNode", "FindValue"}
    <3>1. \E name \in {FindNode, FindValue} : r = <<name>> \o k \o <<"nonce">>
      BY <2>3 DEF RequestText, k
    <3>2. ASSUME NEW name \in {FindNode, FindValue}
          PROVE  <<name>> \o k \o <<"nonce">> = Line(name, k)
      <4>1. /\ <<name>> \in Seq(Vocabulary) /\ <<"nonce">> \in Seq(Vocabulary)
            /\ k \in Seq(Vocabulary)
        BY <1>1, <1>4, MessageWords, OneWord, SeqMonotonic
      <4> QED BY <4>1, ConcatAssociative
    <3>3. FindNode = Ping
      BY DEF FindNode, Ping
    <3> QED BY <1>1, <3>1, <3>2, <3>3
  <2> QED BY <1>1, <2>1, <2>2, <2>3
<1>6. {Ping, Store, FindValue} \subseteq {Ping, Store, FindNode, FindValue}
  OBVIOUS
<1> QED
  <2>1. PICK name \in {Ping, Store, FindValue}, body \in Seq(Words) : r = Line(name, body)
    BY <1>5
  <2> QED BY <1>2, <1>6, <2>1

\* What FindValue makes of a request.
LEMMA FoundInStore ==
  ASSUME NEW q, NEW r \in Found(q), store[q[2]] # <<>>
  PROVE  /\ r.store = store /\ r.unread \in BOOLEAN
         /\ r.text = <<>> => store[q[2]] = NoValue \/ r.unread
         /\ r.text # <<>> => r.text = store[q[2]] \/ (CollectorMoves /\ r.text = Scrambled)
<1>1. CASE r = Reply(<<>>, store, TRUE)
  BY <1>1 DEF Reply
<1>2. CASE \E t \in IF store[q[2]] = NoValue THEN {<<>>} ELSE Unpinned(store[q[2]]) :
             r = Reply(t, store, FALSE)
  <2>1. PICK t \in IF store[q[2]] = NoValue THEN {<<>>} ELSE Unpinned(store[q[2]]) :
          r = Reply(t, store, FALSE)
    BY <1>2
  <2>2. r.text = t /\ r.store = store /\ r.unread = FALSE
    BY <2>1 DEF Reply
  <2>3. CASE store[q[2]] = NoValue
    BY <2>2, <2>3
  <2>4. CASE store[q[2]] # NoValue
    BY <2>2, <2>4 DEF Unpinned
  <2> QED BY <2>3, <2>4
<1> QED BY <1>1, <1>2 DEF Found

\* What the server may make of a request: a text, and a store of texts.
LEMMA HandleType ==
  ASSUME TypeOK, NEW q \in Requests, ~TooShort(q), NEW r \in Handle(q)
  PROVE  /\ r.text \in Texts \cup {Scrambled}
         /\ r.store \in [Words -> (Texts \ {<<>>}) \cup {NoValue}]
         /\ r.unread \in BOOLEAN
         /\ r.text = <<>> => /\ Head(q) = FindValue /\ r.store = store
                             /\ store[q[2]] = NoValue \/ r.unread
<1>1. /\ q \in Texts /\ Len(q) >= 2 /\ q[2] \in Words
      /\ Head(q) \in {Ping, Store, FindValue}
  BY RequestShape
<1>2. store \in [Words -> (Texts \ {<<>>}) \cup {NoValue}]
  BY DEF TypeOK
<1>3. CASE Head(q) = Ping
  <2>1. r = Reply(<<"PONG">>, store, FALSE)
    BY <1>3 DEF Handle, Store, Ping, FindValue
  <2>2. <<"PONG">> \in Texts /\ <<"PONG">> # <<>>
    BY MessageWords, OneWord DEF Texts
  <2> QED BY <1>2, <2>1, <2>2 DEF Reply
<1>4. CASE Head(q) = Store
  <2>1. PICK o \in PutOutcomes :
          r = Reply(IF o = "failed" THEN q ELSE <<"OK">>, TryPut(q[2], <<q[3]>>, o), FALSE)
    BY <1>4 DEF Handle, Store, Ping, FindValue
  <2>2. Len(q) \in Nat /\ Len(q) >= 3
    BY <1>1, <1>4, LenProperties DEF TooShort, Texts
  <2>3. <<q[3]>> \in Texts /\ <<q[3]>> # <<>> /\ <<"OK">> \in Texts
    BY <1>1, <2>2, ElementOfSeq, OneWord, MessageWords DEF Texts
  <2>4. q # <<>>
    BY <2>2
  <2> QED BY <1>1, <1>2, <2>1, <2>3, <2>4 DEF Reply, TryPut
<1>5. CASE Head(q) = FindValue
  <2>1. r \in Found(q)
    BY <1>5 DEF Handle, Store, Ping, FindValue
  <2>2. store[q[2]] \in (Texts \ {<<>>}) \cup {NoValue} /\ store[q[2]] # <<>>
    BY <1>1, <1>2
  <2>3. /\ r.store = store /\ r.unread \in BOOLEAN
        /\ r.text = <<>> => store[q[2]] = NoValue \/ r.unread
        /\ r.text # <<>> => r.text = store[q[2]] \/ r.text = Scrambled
    BY <2>1, <2>2, FoundInStore
  <2>4. r.text # NoValue \/ r.text = Scrambled \/ r.text = <<>>
    BY <2>1 DEF Found, Reply, Unpinned
  <2>5. <<>> \in Texts
    BY DEF Texts
  <2> QED BY <1>2, <1>5, <2>2, <2>3, <2>4, <2>5
<1> QED BY <1>1, <1>3, <1>4, <1>5
-----------------------------------------------------------------------------
(* The inductive invariant.                                                *)

LEMMA InitKInv == Init => KInv
<1> SUFFICES ASSUME Init PROVE KInv
  OBVIOUS
<1> USE DEF Init
<1>1. TypeOK
  <2>1. <<>> \in Seq(Request) /\ <<>> \in Seq(Answer)
    OBVIOUS
  <2>2. wire \in [Clients -> Seq(Request)] /\ back \in [Clients -> Seq(Answer)]
    BY <2>1
  <2>3. awaiting \in [Clients -> 0..MaxCalls] /\ calls \in 0..MaxCalls
    OBVIOUS
  <2>4. /\ socket \in [Clients -> {"none", "open", "disposed"}]
        /\ state \in [Clients -> {"Disconnected", "Connected"}]
        /\ store \in [Words -> (Texts \ {<<>>}) \cup {NoValue}]
    OBVIOUS
  <2> QED BY <2>2, <2>3, <2>4 DEF TypeOK, Request, Answer
<1>2. OneInFlight
  BY DEF OneInFlight
<1>3. SilentForACause /\ CallInv /\ NonceInv /\ FreshInv
  BY DEF SilentForACause, CallInv, NonceInv, FreshInv, NoRequest
<1> QED BY <1>1, <1>2, <1>3 DEF KInv

\* A step in which no message moves.
LEMMA QuietKeepsKInv ==
  ASSUME KInv, UNCHANGED <<net, links, store, calls>>,
         call' = NoCall
           \/ (call # NoCall /\ call.at # "send" /\ call' = [call EXCEPT !.at = "receive"])
  PROVE  KInv'
<1> USE DEF KInv, net, links
<1>1. TypeOK'
  <2>1. CASE call' = NoCall
    BY <2>1 DEF TypeOK
  <2>2. CASE call # NoCall /\ call' = [call EXCEPT !.at = "receive"]
    <3>1. call \in Calls
      BY <2>2 DEF TypeOK
    <3>2. call' \in Calls
      BY <2>2, <3>1, CallFields DEF Places
    <3> QED BY <3>2 DEF TypeOK
  <2> QED BY <2>1, <2>2
<1>2. OneInFlight' /\ SilentForACause' /\ NonceInv' /\ FreshInv'
  BY DEF OneInFlight, SilentForACause, NonceInv, FreshInv, TooShort
<1>3. CallInv'
  <2>1. CASE call' = NoCall
    BY <2>1 DEF CallInv
  <2>2. CASE call # NoCall /\ call.at # "send" /\ call' = [call EXCEPT !.at = "receive"]
    <3>1. call \in Calls
      BY <2>2 DEF TypeOK
    <3>2. call'.by = call.by /\ call'.at = "receive"
      BY <2>2, <3>1 DEF Calls
    <3> QED BY <2>2, <3>2 DEF CallInv
  <2> QED BY <2>1, <2>2
<1> QED BY <1>1, <1>2, <1>3

LEMMA LinksKeepKInv ==
  ASSUME KInv, NEW c \in Clients, Start \/ Connect(c) \/ Disconnect(c)
  PROVE  KInv'
<1> USE DEF KInv, net, links
<1>1. CASE Start
  <2> USE <1>1 DEF Start
  <2>1. TypeOK'
    BY DEF TypeOK
  <2>2. OneInFlight' /\ SilentForACause' /\ NonceInv' /\ FreshInv' /\ CallInv'
    BY DEF OneInFlight, SilentForACause, NonceInv, FreshInv, CallInv, TooShort
  <2> QED BY <2>1, <2>2
<1>2. CASE Connect(c)
  <2> USE <1>2 DEF Connect
  <2>1. TypeOK'
    BY DEF TypeOK
  <2>2. \A d \in Clients : socket'[d] = "open" =>
          socket[d] = "open" \/ (d = c /\ socket[d] = "none")
    BY DEF TypeOK
  <2>3. OneInFlight'
    <3>1. ASSUME NEW d \in Clients, socket'[d] = "open"
          PROVE  Len(wire[d]) + Len(back[d]) + (IF owed.from = d THEN 1 ELSE 0)
                   = IF awaiting[d] = 0 THEN 0 ELSE 1
      <4>1. CASE socket[d] = "open"
        BY <4>1 DEF OneInFlight
      <4>2. CASE d = c /\ socket[d] = "none"
        <5>1. Len(wire[d]) = 0 /\ Len(back[d]) = 0 /\ owed.from # d /\ awaiting[d] = 0
          BY <4>2 DEF FreshInv
        <5> QED BY <5>1
      <4> QED BY <2>2, <3>1, <4>1, <4>2
    <3> QED BY <3>1 DEF OneInFlight
  <2>4. NonceInv'
    BY <2>2 DEF NonceInv, FreshInv
  <2>5. FreshInv' /\ CallInv' /\ SilentForACause'
    BY DEF FreshInv, CallInv, SilentForACause, TooShort, TypeOK
  <2> QED BY <2>1, <2>3, <2>4, <2>5
<1>3. CASE Disconnect(c)
  <2> USE <1>3 DEF Disconnect
  <2>1. TypeOK'
    <3>1. wire' \in [Clients -> Seq(Request)] /\ back' \in [Clients -> Seq(Answer)]
      <4>1. wire \in [Clients -> Seq(Request)] /\ back \in [Clients -> Seq(Answer)]
        BY DEF TypeOK, Request, Answer
      <4>2. <<>> \in Seq(Request) /\ <<>> \in Seq(Answer)
        OBVIOUS
      <4> QED BY <4>1, <4>2
    <3>2. awaiting' \in [Clients -> 0..MaxCalls]
      BY DEF TypeOK
    <3>3. socket' \in [Clients -> {"none", "open", "disposed"}]
          /\ state' \in [Clients -> {"Disconnected", "Connected"}]
      BY DEF TypeOK
    <3> QED BY <3>1, <3>2, <3>3 DEF TypeOK, Request, Answer
  <2>2. \A d \in Clients : socket'[d] = "open" =>
          /\ socket[d] = "open" /\ d # c
          /\ wire'[d] = wire[d] /\ back'[d] = back[d] /\ awaiting'[d] = awaiting[d]
    BY DEF TypeOK
  <2>3. OneInFlight' /\ NonceInv'
    <3>1. owed' = owed
      OBVIOUS
    <3>2. OneInFlight'
      <4>1. ASSUME NEW d \in Clients, socket'[d] = "open"
            PROVE  Len(wire'[d]) + Len(back'[d]) + (IF owed'.from = d THEN 1 ELSE 0)
                     = IF awaiting'[d] = 0 THEN 0 ELSE 1
        <5>1. /\ socket[d] = "open"
              /\ wire'[d] = wire[d] /\ back'[d] = back[d] /\ awaiting'[d] = awaiting[d]
          BY <2>2, <4>1
        <5>2. Len(wire[d]) + Len(back[d]) + (IF owed.from = d THEN 1 ELSE 0)
                = IF awaiting[d] = 0 THEN 0 ELSE 1
          BY <5>1 DEF OneInFlight
        <5> QED BY <3>1, <5>1, <5>2
      <4> QED BY <4>1 DEF OneInFlight
    <3>3. NonceInv'
      BY <2>2 DEF NonceInv
    <3> QED BY <3>2, <3>3
  <2>4. FreshInv'
    BY DEF FreshInv, TypeOK
  <2>5. CallInv' /\ SilentForACause'
    BY DEF CallInv, SilentForACause, TooShort
  <2> QED BY <2>1, <2>3, <2>4, <2>5
<1> QED BY <1>1, <1>2, <1>3

LEMMA BeginKeepsKInv ==
  ASSUME KInv, NEW c \in Clients, Begin(c)
  PROVE  KInv'
<1> USE DEF KInv, net, links, Begin
<1>1. TypeOK'
  <2>1. calls' \in 0..MaxCalls
    BY DEF TypeOK
  <2>2. call' \in Calls
    OBVIOUS
  <2> QED BY <2>1, <2>2 DEF TypeOK
<1>2. OneInFlight' /\ SilentForACause' /\ NonceInv' /\ FreshInv' /\ CallInv'
  BY DEF OneInFlight, SilentForACause, NonceInv, FreshInv, CallInv, TooShort, TypeOK
<1> QED BY <1>1, <1>2

LEMMA SendKeepsKInv ==
  ASSUME KInv, Send
  PROVE  KInv'
<1> USE DEF KInv, net, links
<1> DEFINE m == [text |-> RequestText(call), nonce |-> calls]
           c == call.by
<1>1. /\ call \in Calls /\ c \in Clients /\ calls \in 1..MaxCalls
      /\ call.at = "send"
  BY CallFields DEF Send, TypeOK, CallInv
<1>2. CASE ~(socket[c] = "open" /\ awaiting[c] = 0)
  <2>1. UNCHANGED <<net, links, store, calls>> /\ call' = NoCall
    BY <1>2 DEF Send, End
  <2> QED BY <2>1, QuietKeepsKInv
<1>3. CASE socket[c] = "open" /\ awaiting[c] = 0
  <2>1. /\ wire' = [wire EXCEPT ![c] = Append(@, m)]
        /\ awaiting' = [awaiting EXCEPT ![c] = calls]
        /\ call' = [call EXCEPT !.at = "pump"]
        /\ UNCHANGED <<owed, back, links, store, calls>>
    BY <1>3 DEF Send, GoOn
  <2> HIDE DEF c
  <2>2. m \in Request /\ call' \in Calls /\ call'.at = "pump" /\ call'.by = c
    BY <1>1, <2>1, CallFields DEF Request, Requests, Calls, Places, c
  <2> HIDE DEF m
  <2>3. wire \in [Clients -> Seq(Request)] /\ back \in [Clients -> Seq(Answer)]
    BY DEF TypeOK, Request, Answer
  <2>4. /\ wire' \in [Clients -> Seq(Request)]
        /\ wire'[c] = Append(wire[c], m) /\ Len(wire'[c]) = Len(wire[c]) + 1
        /\ \A d \in Clients \ {c} : wire'[d] = wire[d] /\ awaiting'[d] = awaiting[d]
        /\ awaiting'[c] = calls
    BY <1>1, <2>1, <2>2, <2>3 DEF TypeOK
  <2>5. awaiting' \in [Clients -> 0..MaxCalls]
    BY <1>1, <2>1 DEF TypeOK
  <2>6. TypeOK'
    BY <2>1, <2>2, <2>4, <2>5 DEF TypeOK, Request
  <2>7. Len(wire[c]) = 0 /\ Len(back[c]) = 0 /\ owed.from # c
    BY <1>1, <1>3, <2>3, LenProperties DEF OneInFlight
  <2>8. OneInFlight'
    <3>1. Len(wire'[c]) + Len(back[c]) + (IF owed.from = c THEN 1 ELSE 0) = 1
      BY <2>4, <2>7
    <3>2. calls # 0 /\ UNCHANGED <<back, owed, socket>>
      BY <1>1, <2>1
    <3> QED BY <2>4, <3>1, <3>2 DEF OneInFlight
  <2>9. wire'[c][1] = m /\ m.nonce = calls /\ DOMAIN wire'[c] = {1} /\ DOMAIN back[c] = {}
    <3>1. m.nonce = calls
      BY DEF m
    <3>2. wire[c] = <<>> /\ back[c] = <<>>
      BY <1>1, <2>3, <2>7, EmptySeq
    <3> QED BY <2>4, <3>1, <3>2
  <2>10. NonceInv'
    BY <1>1, <2>1, <2>4, <2>9 DEF NonceInv
  <2>11. FreshInv' /\ CallInv' /\ SilentForACause'
    BY <1>1, <1>3, <2>1, <2>2, <2>4 DEF FreshInv, CallInv, SilentForACause, TooShort
  <2> QED BY <2>6, <2>8, <2>10, <2>11
<1> QED BY <1>2, <1>3

\* What the server does with the oldest request of d leaves one message of d
\* less on the way.
LEMMA TakenRequest ==
  ASSUME KInv, NEW d \in Clients, wire[d] # <<>>,
         wire' = [wire EXCEPT ![d] = Tail(@)]
  PROVE  /\ Head(wire[d]) \in Request
         /\ Len(wire'[d]) \in Nat /\ Len(wire[d]) = Len(wire'[d]) + 1
         /\ wire' \in [Clients -> Seq(Request)]
         /\ \A e \in Clients \ {d} : wire'[e] = wire[e]
         /\ \A i \in DOMAIN wire'[d] : i + 1 \in DOMAIN wire[d] /\ wire'[d][i] = wire[d][i + 1]
         /\ 1 \in DOMAIN wire[d] /\ Head(wire[d]) = wire[d][1]
<1>1. wire \in [Clients -> Seq(Request)]
  BY DEF KInv, TypeOK, Request
<1>2. wire'[d] = Tail(wire[d]) /\ \A e \in Clients \ {d} : wire'[e] = wire[e]
  BY <1>1
<1> DEFINE w == wire[d]
<1>3. w \in Seq(Request) /\ w # <<>>
  BY <1>1
<1> HIDE DEF w
<1>4. /\ Head(w) \in Request /\ Tail(w) \in Seq(Request) /\ Len(Tail(w)) = Len(w) - 1
      /\ Len(w) \in Nat \ {0}
      /\ \A i \in DOMAIN Tail(w) : i + 1 \in DOMAIN w /\ Tail(w)[i] = w[i + 1]
      /\ 1 \in DOMAIN w /\ Head(w) = w[1]
  BY <1>3, HeadTailProperties, LenProperties, EmptySeq
<1>5. wire' \in [Clients -> Seq(Request)]
  BY <1>1, <1>4 DEF w
<1> QED BY <1>2, <1>4, <1>5 DEF w

LEMMA PumpFailsKeepsKInv ==
  ASSUME KInv, NEW d \in Clients, PumpFails(d)
  PROVE  KInv'
<1> USE DEF KInv, net, links
<1> DEFINE q == Head(wire[d])
<1>1. /\ owed = NoRequest /\ wire[d] # <<>> /\ TooShort(q.text)
      /\ wire' = [wire EXCEPT ![d] = Tail(@)]
      /\ owed' = [from |-> d, text |-> q.text, unread |-> FALSE] /\ call' = NoCall
      /\ UNCHANGED <<awaiting, back, links, store, calls>>
  BY DEF PumpFails, End
<1>2. /\ q \in Request
      /\ Len(wire'[d]) \in Nat /\ Len(wire[d]) = Len(wire'[d]) + 1
      /\ wire' \in [Clients -> Seq(Request)]
      /\ \A e \in Clients \ {d} : wire'[e] = wire[e]
      /\ \A i \in DOMAIN wire'[d] : i + 1 \in DOMAIN wire[d] /\ wire'[d][i] = wire[d][i + 1]
  BY <1>1, TakenRequest
<1> HIDE DEF q
<1>3. owed' \in [from : Clients, text : Requests, unread : BOOLEAN]
  BY <1>1, <1>2 DEF Request
<1>4. TypeOK'
  BY <1>1, <1>2, <1>3 DEF TypeOK, Request
<1>5. OneInFlight'
  <2>1. ASSUME NEW e \in Clients, socket[e] = "open"
        PROVE  Len(wire'[e]) + Len(back[e]) + (IF owed'.from = e THEN 1 ELSE 0)
                 = IF awaiting[e] = 0 THEN 0 ELSE 1
    <3>1. Len(wire[e]) + Len(back[e]) + 0 = IF awaiting[e] = 0 THEN 0 ELSE 1
      BY <1>1, <2>1 DEF OneInFlight, NoRequest
    <3>2. CASE e = d
      <4>1. (IF owed'.from = d THEN 1 ELSE 0) = 1
        BY <1>1
      <4>2. Len(back[d]) \in Nat
        BY LenProperties DEF TypeOK
      <4>3. Len(wire'[d]) \in Nat /\ Len(wire[d]) = Len(wire'[d]) + 1
        BY <1>2
      <4>4. Len(wire'[d]) + Len(back[d]) + 1 = Len(wire[d]) + Len(back[d]) + 0
        BY <4>2, <4>3, OneMoves
      <4> QED BY <3>1, <3>2, <4>1, <4>4
    <3>3. CASE e # d
      <4>1. owed'.from # e /\ wire'[e] = wire[e]
        BY <1>1, <1>2, <3>3
      <4> QED BY <3>1, <4>1
    <3> QED BY <3>2, <3>3
  <2> QED BY <1>1, <2>1 DEF OneInFlight
<1>6. NonceInv'
  BY <1>1, <1>2 DEF NonceInv
<1>7. SilentForACause' /\ CallInv'
  BY <1>1 DEF SilentForACause, CallInv, TooShort
<1>8. FreshInv'
  <2>1. socket[d] # "none"
    BY <1>1 DEF FreshInv
  <2> QED BY <1>1, <1>2, <2>1 DEF FreshInv, NoRequest
<1> QED BY <1>4, <1>5, <1>6, <1>7, <1>8

LEMMA PumpServesKeepsKInv ==
  ASSUME KInv, NEW d \in Clients, PumpServes(d)
  PROVE  KInv'
<1> USE DEF KInv, net, links
<1> DEFINE q == Head(wire[d])
<1>1. /\ owed = NoRequest /\ wire[d] # <<>> /\ ~TooShort(q.text)
      /\ wire' = [wire EXCEPT ![d] = Tail(@)]
      /\ call # NoCall /\ call.at = "pump" /\ call' = [call EXCEPT !.at = "receive"]
      /\ UNCHANGED <<awaiting, links, calls>>
  BY DEF PumpServes, GoOn
<1>2. /\ q \in Request
      /\ Len(wire'[d]) \in Nat /\ Len(wire[d]) = Len(wire'[d]) + 1
      /\ wire' \in [Clients -> Seq(Request)]
      /\ \A e \in Clients \ {d} : wire'[e] = wire[e]
      /\ \A i \in DOMAIN wire'[d] : i + 1 \in DOMAIN wire[d] /\ wire'[d][i] = wire[d][i + 1]
      /\ 1 \in DOMAIN wire[d] /\ q = wire[d][1]
  BY <1>1, TakenRequest
<1>3. PICK r \in Handle(q.text) :
        /\ store' = r.store
        /\ IF r.text = <<>>
           THEN /\ owed' = [from |-> d, text |-> q.text, unread |-> r.unread]
                /\ UNCHANGED back
           ELSE /\ back' = IF socket[d] = "open"
                           THEN [back EXCEPT ![d] = Append(@,
                                  [text |-> r.text, nonce |-> q.nonce])]
                           ELSE back
                /\ UNCHANGED owed
  BY DEF PumpServes
<1> HIDE DEF q
<1>4. q.text \in Requests /\ q.nonce \in 1..MaxCalls
  BY <1>2 DEF Request
<1>5. /\ r.text \in Texts \cup {Scrambled}
      /\ store' \in [Words -> (Texts \ {<<>>}) \cup {NoValue}]
      /\ r.unread \in BOOLEAN
      /\ r.text = <<>> => /\ Head(q.text) = FindValue /\ store' = store
                          /\ store[q.text[2]] = NoValue \/ r.unread
  BY <1>1, <1>3, <1>4, HandleType
<1>6. call \in Calls /\ call' \in Calls /\ call'.by = call.by /\ call'.at = "receive"
  BY <1>1, CallFields DEF TypeOK, Places, Calls
<1>7. CallInv'
  BY <1>1, <1>6 DEF CallInv
<1>8. back \in [Clients -> Seq(Answer)] /\ \A e \in Clients : Len(back[e]) \in Nat
  BY LenProperties DEF TypeOK, Answer
<1>9. socket[d] # "none"
  BY <1>1 DEF FreshInv
<1>10. \A e \in Clients : socket[e] = "open" =>
         Len(wire[e]) + Len(back[e]) + 0 = IF awaiting[e] = 0 THEN 0 ELSE 1
  BY <1>1 DEF OneInFlight, NoRequest
<1>11. socket[d] = "open" => q.nonce = awaiting[d]
  BY <1>2 DEF NonceInv
<1>12. CASE r.text = <<>>
  <2>1. owed' = [from |-> d, text |-> q.text, unread |-> r.unread] /\ UNCHANGED back
    BY <1>3, <1>12
  <2>2. owed' \in [from : Clients, text : Requests, unread : BOOLEAN]
    BY <1>4, <1>5, <2>1
  <2>3. TypeOK'
    BY <1>1, <1>2, <1>5, <1>6, <2>1, <2>2 DEF TypeOK, Request
  <2>4. ASSUME NEW e \in Clients, socket[e] = "open"
        PROVE  Len(wire'[e]) + Len(back[e]) + (IF owed'.from = e THEN 1 ELSE 0)
                 = IF awaiting[e] = 0 THEN 0 ELSE 1
    <3>1. CASE e = d
      <4>1. (IF owed'.from = d THEN 1 ELSE 0) = 1
        BY <2>1
      <4>2. Len(wire'[d]) + Len(back[d]) + 1 = Len(wire[d]) + Len(back[d]) + 0
        BY <1>2, <1>8
      <4> QED BY <1>10, <2>4, <3>1, <4>1, <4>2
    <3>2. CASE e # d
      <4>1. (IF owed'.from = e THEN 1 ELSE 0) = 0 /\ wire'[e] = wire[e]
        BY <1>2, <2>1, <3>2
      <4> QED BY <1>10, <2>4, <4>1
    <3> QED BY <3>1, <3>2
  <2>5. OneInFlight'
    BY <1>1, <2>1, <2>4 DEF OneInFlight
  <2>6. SilentForACause'
    BY <1>5, <1>12, <2>1 DEF SilentForACause
  <2>7. NonceInv'
    BY <1>1, <1>2, <2>1 DEF NonceInv
  <2>8. FreshInv'
    BY <1>1, <1>2, <1>9, <2>1 DEF FreshInv, NoRequest
  <2> QED BY <1>7, <2>3, <2>5, <2>6, <2>7, <2>8
<1>13. CASE r.text # <<>> /\ socket[d] # "open"
  <2>1. UNCHANGED <<owed, back>>
    BY <1>3, <1>13
  <2>2. TypeOK'
    BY <1>1, <1>2, <1>5, <1>6, <2>1 DEF TypeOK, Request
  <2>3. \A e \in Clients : socket[e] = "open" => wire'[e] = wire[e]
    BY <1>2, <1>13
  <2>4. OneInFlight' /\ NonceInv'
    <3>1. OneInFlight'
      <4>1. ASSUME NEW e \in Clients, socket[e] = "open"
            PROVE  Len(wire'[e]) + Len(back[e]) + (IF owed.from = e THEN 1 ELSE 0)
                     = IF awaiting[e] = 0 THEN 0 ELSE 1
        BY <2>3, <4>1 DEF OneInFlight
      <4> QED BY <1>1, <2>1, <4>1 DEF OneInFlight
    <3>2. ASSUME NEW e \in Clients, socket[e] = "open"
          PROVE  /\ \A i \in DOMAIN wire'[e] : wire'[e][i].nonce = awaiting[e]
                 /\ \A i \in DOMAIN back[e] : back[e][i].nonce = awaiting[e]
      BY <2>3, <3>2 DEF NonceInv
    <3>3. NonceInv'
      BY <1>1, <2>1, <3>2 DEF NonceInv
    <3> QED BY <3>1, <3>3
  <2>5. SilentForACause'
    BY <1>1, <2>1 DEF SilentForACause
  <2>6. FreshInv'
    BY <1>1, <1>2, <1>9, <2>1 DEF FreshInv
  <2> QED BY <1>7, <2>2, <2>4, <2>5, <2>6
<1>14. CASE r.text # <<>> /\ socket[d] = "open"
  <2> DEFINE a == [text |-> r.text, nonce |-> q.nonce]
  <2>1. owed' = owed /\ back' = [back EXCEPT ![d] = Append(@, a)]
    BY <1>3, <1>14
  <2>2. a \in Answer /\ a.nonce = awaiting[d]
    BY <1>4, <1>5, <1>11, <1>14 DEF Answer
  <2> HIDE DEF a
  <2>3. /\ back' \in [Clients -> Seq(Answer)]
        /\ back'[d] = Append(back[d], a) /\ Len(back'[d]) = Len(back[d]) + 1
        /\ \A e \in Clients \ {d} : back'[e] = back[e]
    BY <1>8, <2>1, <2>2
  <2>4. TypeOK'
    BY <1>1, <1>2, <1>5, <1>6, <2>1, <2>3 DEF TypeOK, Request, Answer
  <2>5. OneInFlight'
    <3>1. ASSUME NEW e \in Clients, socket[e] = "open"
          PROVE  Len(wire'[e]) + Len(back'[e]) + (IF owed.from = e THEN 1 ELSE 0)
                   = IF awaiting[e] = 0 THEN 0 ELSE 1
      <4>1. (IF owed.from = e THEN 1 ELSE 0) = 0
        BY <1>1 DEF NoRequest
      <4>2. Len(wire'[e]) + Len(back'[e]) = Len(wire[e]) + Len(back[e])
        <5>1. CASE e = d
          <6>1. /\ Len(wire'[d]) \in Nat /\ Len(wire[d]) = Len(wire'[d]) + 1
                /\ Len(back[d]) \in Nat /\ Len(back'[d]) = Len(back[d]) + 1
            BY <1>2, <1>8, <2>3
          <6>2. Len(wire'[d]) + Len(back'[d]) = Len(wire[d]) + Len(back[d])
            BY <6>1, OneMoves
          <6> QED BY <5>1, <6>2
        <5>2. CASE e # d
          BY <1>2, <2>3, <5>2
        <5> QED BY <5>1, <5>2
      <4> QED BY <1>10, <3>1, <4>1, <4>2
    <3> QED BY <1>1, <2>1, <3>1 DEF OneInFlight
  <2>6. NonceInv'
    <3>1. \A i \in DOMAIN back'[d] : back'[d][i].nonce = awaiting[d]
      BY <1>8, <1>14, <2>2, <2>3, AppendProperties DEF NonceInv
    <3>2. \A i \in DOMAIN wire'[d] : wire'[d][i].nonce = awaiting[d]
      BY <1>2, <1>14 DEF NonceInv
    <3>3. ASSUME NEW e \in Clients \ {d}, socket[e] = "open"
          PROVE  /\ \A i \in DOMAIN wire'[e] : wire'[e][i].nonce = awaiting[e]
                 /\ \A i \in DOMAIN back'[e] : back'[e][i].nonce = awaiting[e]
      <4>1. wire'[e] = wire[e] /\ back'[e] = back[e]
        BY <1>2, <2>3
      <4> QED BY <3>3, <4>1 DEF NonceInv
    <3>4. UNCHANGED <<socket, awaiting>>
      BY <1>1
    <3> QED BY <3>1, <3>2, <3>3, <3>4 DEF NonceInv
  <2>7. SilentForACause'
    BY <1>1, <2>1 DEF SilentForACause
  <2>8. FreshInv'
    BY <1>1, <1>2, <1>9, <2>1, <2>3 DEF FreshInv
  <2> QED BY <1>7, <2>4, <2>5, <2>6, <2>7, <2>8
<1> QED BY <1>12, <1>13, <1>14

LEMMA ReceiveKeepsKInv ==
  ASSUME KInv, Receive
  PROVE  KInv'
<1> USE DEF KInv, net, links
<1> DEFINE c == call.by
<1>1. /\ call # NoCall /\ call.at = "receive" /\ back[c] # <<>> /\ call' = NoCall
      /\ back' = [back EXCEPT ![c] = Tail(@)]
      /\ awaiting' = [awaiting EXCEPT ![c] = 0]
      /\ UNCHANGED <<owed, wire, links, store, calls>>
  BY DEF Receive, End
<1>2. c \in Clients /\ socket[c] = "open" /\ awaiting[c] # 0
  BY <1>1, CallFields DEF TypeOK, CallInv
<1> HIDE DEF c
<1>3. /\ back \in [Clients -> Seq(Answer)] /\ wire \in [Clients -> Seq(Request)]
      /\ awaiting \in [Clients -> 0..MaxCalls]
  BY DEF TypeOK, Answer, Request
<1>4. /\ Len(back[c]) \in Nat \ {0} /\ Len(wire[c]) \in Nat
      /\ Tail(back[c]) \in Seq(Answer) /\ Len(Tail(back[c])) = Len(back[c]) - 1
  BY <1>1, <1>2, <1>3, HeadTailProperties, LenProperties, EmptySeq
<1>5. Len(wire[c]) + Len(back[c]) + (IF owed.from = c THEN 1 ELSE 0) = 1
  BY <1>2 DEF OneInFlight
<1>6. Len(back[c]) = 1 /\ Len(wire[c]) = 0 /\ owed.from # c
  <2>1. Len(back[c]) \in Nat \ {0} /\ Len(wire[c]) \in Nat
    BY <1>4
  <2>2. CASE owed.from = c
    <3>1. Len(wire[c]) + Len(back[c]) + 1 = 1
      BY <1>5, <2>2
    <3> QED BY <2>1, <3>1, OneInAll
  <2>3. CASE owed.from # c
    <3>1. Len(wire[c]) + Len(back[c]) + 0 = 1
      BY <1>5, <2>3
    <3> QED BY <2>1, <2>3, <3>1, OneInAll
  <2> QED BY <2>2, <2>3
<1>7. wire[c] = <<>> /\ Tail(back[c]) = <<>>
  <2>1. wire[c] \in Seq(Request) /\ Len(Tail(back[c])) = 0
    BY <1>2, <1>3, <1>4, <1>6
  <2> QED BY <1>4, <1>6, <2>1, EmptySeq
<1>8. /\ wire'[c] = <<>> /\ back'[c] = <<>> /\ awaiting'[c] = 0
      /\ \A e \in Clients \ {c} : back'[e] = back[e] /\ awaiting'[e] = awaiting[e]
  BY <1>1, <1>2, <1>3, <1>7
<1>9. TypeOK'
  <2>1. back' \in [Clients -> Seq(Answer)]
    BY <1>1, <1>3, <1>4
  <2>2. MaxCalls \in Nat
    OBVIOUS
  <2>3. 0 \in 0..MaxCalls
    BY <2>2
  <2>4. awaiting' = [awaiting EXCEPT ![c] = 0]
    BY <1>1
  <2>5. awaiting' \in [Clients -> 0..MaxCalls]
    BY <1>3, <2>3, <2>4
  <2> QED BY <1>1, <2>1, <2>5 DEF TypeOK, Answer
<1>10. OneInFlight'
  <2>1. ASSUME NEW e \in Clients, socket[e] = "open"
        PROVE  Len(wire[e]) + Len(back'[e]) + (IF owed.from = e THEN 1 ELSE 0)
                 = IF awaiting'[e] = 0 THEN 0 ELSE 1
    <3>1. CASE e = c
      <4>1. Len(wire[c]) = 0 /\ Len(back'[c]) = 0 /\ awaiting'[c] = 0
        BY <1>6, <1>8
      <4>2. (IF owed.from = c THEN 1 ELSE 0) = 0
        BY <1>6
      <4> QED BY <3>1, <4>1, <4>2
    <3>2. CASE e # c
      <4>1. back'[e] = back[e] /\ awaiting'[e] = awaiting[e]
        BY <1>8, <3>2
      <4> QED BY <2>1, <4>1 DEF OneInFlight
    <3> QED BY <3>1, <3>2
  <2> QED BY <1>1, <2>1 DEF OneInFlight
<1>11. NonceInv'
  BY <1>1, <1>7, <1>8 DEF NonceInv
<1>12. SilentForACause' /\ CallInv' /\ FreshInv'
  BY <1>1, <1>2, <1>8 DEF SilentForACause, CallInv, FreshInv, TooShort
<1> QED BY <1>9, <1>10, <1>11, <1>12

LEMMA NextKInv == KInv /\ [Next]_vars => KInv'
<1> SUFFICES ASSUME KInv, [Next]_vars PROVE KInv'
  OBVIOUS
<1>1. CASE UNCHANGED vars
  BY <1>1 DEF KInv, vars, net, links, TypeOK, OneInFlight, SilentForACause,
    CallInv, NonceInv, FreshInv, TooShort
<1>2. ASSUME NEW c \in Clients, Start \/ Connect(c) \/ Disconnect(c) PROVE KInv'
  BY <1>2, LinksKeepKInv
<1>3. CASE Start
  <2>1. CASE Clients # {}
    BY <1>2, <1>3, <2>1
  <2>2. CASE Clients = {}
    BY <1>3, <2>2 DEF Start, KInv, net, TypeOK, OneInFlight, SilentForACause,
      CallInv, NonceInv, FreshInv, TooShort
  <2> QED BY <2>1, <2>2
<1>4. ASSUME NEW c \in Clients, Begin(c) PROVE KInv'
  BY <1>4, BeginKeepsKInv
<1>5. CASE Send
  BY <1>5, SendKeepsKInv
<1>6. CASE PumpThrows \/ PumpTimesOut \/ ReceiveTimesOut
  BY <1>6, QuietKeepsKInv DEF PumpThrows, PumpTimesOut, ReceiveTimesOut, End, GoOn
<1>7. ASSUME NEW d \in Clients, PumpServes(d) \/ PumpFails(d) PROVE KInv'
  BY <1>7, PumpServesKeepsKInv, PumpFailsKeepsKInv
<1>8. CASE Receive
  BY <1>8, ReceiveKeepsKInv
<1> QED BY <1>1, <1>2, <1>3, <1>4, <1>5, <1>6, <1>7, <1>8 DEF Next, CallStep

LEMMA AlwaysKInv == Spec => []KInv
  BY InitKInv, NextKInv, PTL DEF Spec
-----------------------------------------------------------------------------
\* Sockets, texts and stores keep their shape, whatever a client asks for.
THEOREM KademliaTypeCorrect == Spec => []TypeOK
<1>1. KInv => TypeOK
  BY DEF KInv
<1> QED BY <1>1, AlwaysKInv, PTL

\* However calls time out and messages linger, an open request socket awaits a
\* reply exactly while one message of its own is about, so a client can send
\* again as soon as, and not before, that message has been read.
THEOREM OneMessageInFlight == Spec => []OneInFlight
<1>1. KInv => OneInFlight
  BY DEF KInv
<1> QED BY <1>1, AlwaysKInv, PTL

\* A call that gets as far as receiving reads the reply to its own request,
\* never a late reply to a call that timed out.
THEOREM RepliesMatchCalls == Spec => []AnswersThisCall
<1>1. KInv => AnswersThisCall
  <2> SUFFICES ASSUME KInv, call # NoCall, call.at = "receive",
                      NEW i \in DOMAIN back[call.by]
               PROVE  back[call.by][i].nonce = calls
    BY DEF AnswersThisCall
  <2>1. call.by \in Clients
    BY CallFields DEF KInv, TypeOK
  <2>2. socket[call.by] = "open" /\ awaiting[call.by] = calls
    BY DEF KInv, CallInv
  <2> QED BY <2>1, <2>2 DEF KInv, NonceInv
<1> QED BY <1>1, AlwaysKInv, PTL

\* A server that answers nobody any more was brought to it by a key it does
\* not hold, a value it could not read, or a STORE with a word missing.
THEOREM SilenceIsExplained == Spec => []SilentForACause
<1>1. KInv => SilentForACause
  BY DEF KInv
<1> QED BY <1>1, AlwaysKInv, PTL

-----------------------------------------------------------------------------
(* What a call may read.                                                   *)

\* A call that has sent has nothing else about than its own request, and
\* nothing to read before its turn of the server.
ReplyInv ==
  call # NoCall /\ call.at # "send" =>
    /\ \A i \in DOMAIN wire[call.by] : wire[call.by][i].text = RequestText(call)
    /\ call.at = "pump" => back[call.by] = <<>>

LEMMA FindValueFirst ==
  ASSUME NEW c \in Calls, c.op = "FindValue"
  PROVE  Head(RequestText(c)) = FindValue
<1> DEFINE k == c.key
<1>1. k \in Seq(Words)
  BY CallFields
<1>2. RequestText(c) = <<FindValue>> \o k \o <<"nonce">>
  BY DEF RequestText
<1> HIDE DEF k
<1>3. /\ <<FindValue>> \in Seq(Vocabulary) /\ <<"nonce">> \in Seq(Vocabulary)
      /\ k \in Seq(Vocabulary) /\ Len(<<FindValue>>) = 1 /\ <<FindValue>>[1] = FindValue
  BY <1>1, MessageWords, OneWord, NonceIsAWord, SeqMonotonic DEF Vocabulary
<1> DEFINE s == <<FindValue>> \o k
           t == s \o <<"nonce">>
<1>4. s \in Seq(Vocabulary) /\ Len(s) = 1 + Len(k) /\ s[1] = FindValue
  BY <1>3, ConcatProperties, LenProperties
<1> HIDE DEF s
<1>5. t \in Seq(Vocabulary) /\ Len(t) = Len(s) + 1 /\ t[1] = s[1]
  BY <1>3, <1>4, ConcatProperties, LenProperties, OneWord
<1>6. Len(k) \in Nat
  BY <1>3, LenProperties
<1>7. t # <<>> /\ Head(t) = t[1]
  BY <1>4, <1>5, <1>6, HeadTailProperties, EmptySeq
<1> QED BY <1>2, <1>4, <1>5, <1>7 DEF s

\* How far a call has come does not change what it asks.
LEMMA SameRequest ==
  ASSUME NEW c \in Calls, NEW p \in Places
  PROVE  LET d == [c EXCEPT !.at = p] IN
           d.at = p /\ d.by = c.by /\ d.op = c.op /\ RequestText(d) = RequestText(c)
<1>1. /\ [c EXCEPT !.at = p].at = p /\ [c EXCEPT !.at = p].by = c.by
      /\ [c EXCEPT !.at = p].op = c.op /\ [c EXCEPT !.at = p].key = c.key
      /\ [c EXCEPT !.at = p].value = c.value
  BY DEF Calls
<1> QED BY <1>1 DEF RequestText

LEMMA SendKeepsReplyInv ==
  ASSUME KInv, Send
  PROVE  ReplyInv'
<1> USE DEF KInv, net, links
<1>1. call \in Calls /\ call.by \in Clients /\ call.op \in {"Ping", "Store", "FindNode", "FindValue"}
  BY CallFields DEF Send, TypeOK
<1>2. PICK c \in Clients : c = call.by
  BY <1>1
<1>3. CASE ~(socket[c] = "open" /\ awaiting[c] = 0)
  BY <1>2, <1>3 DEF Send, End, ReplyInv
<1>4. CASE socket[c] = "open" /\ awaiting[c] = 0
  <2>1. PICK m : m = [text |-> RequestText(call), nonce |-> calls]
    OBVIOUS
  <2>2. /\ wire' = [wire EXCEPT ![c] = Append(@, m)]
        /\ call' = [call EXCEPT !.at = "pump"] /\ UNCHANGED back
    BY <1>2, <1>4, <2>1 DEF Send, GoOn
  <2>3. /\ call'.at = "pump" /\ call'.by = c /\ RequestText(call') = RequestText(call)
    BY <1>1, <1>2, <2>2, SameRequest DEF Places
  <2>4. /\ wire \in [Clients -> Seq(Request)] /\ back \in [Clients -> Seq(Answer)]
    BY DEF TypeOK, Request, Answer
  <2>5. Len(wire[c]) = 0 /\ Len(back[c]) = 0
    <3>1. Len(wire[c]) \in Nat /\ Len(back[c]) \in Nat
      BY <2>4, LenProperties
    <3>2. Len(wire[c]) + Len(back[c]) + (IF owed.from = c THEN 1 ELSE 0) = 0
      BY <1>4 DEF OneInFlight
    <3>3. CASE owed.from = c
      BY <3>1, <3>2, <3>3, NoneInAll
    <3>4. CASE owed.from # c
      BY <3>1, <3>2, <3>4, NoneInAll
    <3> QED BY <3>3, <3>4
  <2>6. wire[c] = <<>> /\ back[c] = <<>>
    BY <2>4, <2>5, EmptySeq
  <2>7. wire'[c] = <<m>>
    BY <2>2, <2>4, <2>6
  <2>8. \A i \in DOMAIN wire'[c] : wire'[c][i].text = RequestText(call)
    BY <2>1, <2>7
  <2> QED BY <2>2, <2>3, <2>6, <2>8 DEF ReplyInv
<1> QED BY <1>3, <1>4

LEMMA PumpKeepsReplyInv ==
  ASSUME KInv, ReplyInv, NEW d \in Clients, PumpServes(d)
  PROVE  ReplyInv'
<1> USE DEF KInv, net, links
<1>1. /\ wire[d] # <<>> /\ wire' = [wire EXCEPT ![d] = Tail(@)]
      /\ call # NoCall /\ call.at = "pump" /\ call' = [call EXCEPT !.at = "receive"]
  BY DEF PumpServes, GoOn
<1>2. /\ \A e \in Clients \ {d} : wire'[e] = wire[e]
      /\ \A i \in DOMAIN wire'[d] : i + 1 \in DOMAIN wire[d] /\ wire'[d][i] = wire[d][i + 1]
  BY <1>1, TakenRequest
<1>3. call \in Calls /\ call.by \in Clients
  BY <1>1, CallFields DEF TypeOK
<1>4. PICK c \in Clients : c = call.by
  BY <1>3
<1>5. /\ call'.at = "receive" /\ call'.by = c
      /\ RequestText(call') = RequestText(call)
  BY <1>1, <1>3, <1>4, SameRequest DEF Places
<1>6. \A i \in DOMAIN wire[c] : wire[c][i].text = RequestText(call)
  BY <1>1, <1>4 DEF ReplyInv
<1>7. \A i \in DOMAIN wire'[c] : wire'[c][i].text = RequestText(call)
  BY <1>2, <1>6
<1> QED BY <1>5, <1>7 DEF ReplyInv

LEMMA NextReplyInv == KInv /\ ReplyInv /\ [Next]_vars => ReplyInv'
<1> SUFFICES ASSUME KInv, ReplyInv, [Next]_vars PROVE ReplyInv'
  OBVIOUS
<1>1. CASE UNCHANGED vars
  BY <1>1 DEF ReplyInv, vars, net, links
<1>2. CASE call' = NoCall
  BY <1>2 DEF ReplyInv
<1>3. CASE Start \/ \E c \in Clients : Connect(c) \/ Disconnect(c)
  BY <1>3 DEF Start, Connect, Disconnect, ReplyInv
<1>4. ASSUME NEW c \in Clients, Begin(c) PROVE ReplyInv'
  BY <1>4 DEF Begin, ReplyInv
<1>5. CASE Send
  BY <1>5, SendKeepsReplyInv
<1>6. CASE PumpTimesOut
  <2>1. /\ call # NoCall /\ call.at = "pump" /\ call' = [call EXCEPT !.at = "receive"]
        /\ UNCHANGED <<wire, back, store>>
    BY <1>6 DEF PumpTimesOut, GoOn, net
  <2>2. call \in Calls
    BY <2>1 DEF KInv, TypeOK
  <2>3. /\ call'.at = "receive" /\ call'.by = call.by /\ call'.op = call.op
        /\ RequestText(call') = RequestText(call)
    BY <2>1, <2>2, SameRequest DEF Places
  <2> QED BY <2>1, <2>3 DEF ReplyInv
<1>7. ASSUME NEW d \in Clients, PumpServes(d) PROVE ReplyInv'
  BY <1>7, PumpKeepsReplyInv
<1>8. CASE PumpThrows \/ Receive \/ ReceiveTimesOut \/ \E d \in Clients : PumpFails(d)
  BY <1>2, <1>8 DEF PumpThrows, Receive, ReceiveTimesOut, PumpFails, End
<1> QED BY <1>1, <1>3, <1>4, <1>5, <1>6, <1>7, <1>8 DEF Next, CallStep

-----------------------------------------------------------------------------
(* What a call ends with.                                                  *)

\* What a call may read answers it.
FitInv ==
  call # NoCall /\ call.at # "send" =>
    \A i \in DOMAIN back[call.by] : Fits(call, back[call.by][i].text)

\* Where no other client has connected, a request that the network delivers
\* in time is served in the turn of its own call.
Alone(c) == c \in Prompt /\ \A d \in Clients \ {c} : socket[d] = "none"

AloneInv ==
  call # NoCall /\ call.at = "receive" /\ Alone(call.by) => wire[call.by] = <<>>

LEMMA HeadOfConcat ==
  ASSUME NEW S, NEW s \in Seq(S), NEW t \in Seq(S), s # <<>>
  PROVE  s \o t \in Seq(S) /\ s \o t # <<>> /\ Head(s \o t) = Head(s)
<1>1. Len(s) \in Nat \ {0} /\ Len(t) \in Nat /\ Head(s) = s[1]
  BY LenProperties, EmptySeq, HeadTailProperties
<1>2. /\ s \o t \in Seq(S) /\ Len(s \o t) = Len(s) + Len(t)
      /\ (s \o t)[1] = s[1]
  BY <1>1, ConcatProperties
<1>3. Len(s \o t) # 0
  BY <1>1, <1>2
<1>4. s \o t # <<>>
  BY <1>3, EmptySeq
<1>5. Head(s \o t) = (s \o t)[1]
  BY <1>2, <1>4, HeadTailProperties
<1> QED BY <1>1, <1>2, <1>4, <1>5

\* A request starts with the name of its message.
LEMMA HeadOfRequest ==
  ASSUME NEW c \in Calls
  PROVE  /\ c.op \in {"Ping", "FindNode"} => Head(RequestText(c)) = Ping
         /\ c.op = "Store" => Head(RequestText(c)) = Store
         /\ c.op = "FindValue" => Head(RequestText(c)) = FindValue
<1> DEFINE k == c.key
           v == c.value
           n == <<"nonce">>
<1>1. k \in Seq(Words) /\ v \in Seq(Words)
  BY CallFields
<1>2. /\ c.op = "Ping" => RequestText(c) = <<Ping, "nonce">>
      /\ c.op = "Store" => RequestText(c) = <<Store>> \o k \o v \o n
      /\ c.op = "FindNode" => RequestText(c) = <<FindNode>> \o k \o n
  BY DEF RequestText
<1> HIDE DEF k, v, n
<1>3. k \in Seq(Vocabulary) /\ v \in Seq(Vocabulary) /\ n \in Seq(Vocabulary)
  BY <1>1, MessageWords, OneWord, SeqMonotonic DEF Vocabulary, n
<1>4. ASSUME NEW name \in {Store, FindNode}
      PROVE  /\ <<name>> \in Seq(Vocabulary) /\ <<name>> # <<>>
             /\ Head(<<name>>) = name
  <2>1. <<name>> \in Seq(Vocabulary) /\ Len(<<name>>) = 1 /\ <<name>>[1] = name
    BY MessageWords, OneWord
  <2>2. <<name>> # <<>>
    OBVIOUS
  <2> QED BY <2>1, <2>2, HeadTailProperties
<1>5. Head(<<Store>> \o k \o v \o n) = Store
  <2>1. /\ <<Store>> \o k \in Seq(Vocabulary) /\ <<Store>> \o k # <<>>
        /\ Head(<<Store>> \o k) = Store
    BY <1>3, <1>4, HeadOfConcat
  <2>2. /\ <<Store>> \o k \o v \in Seq(Vocabulary) /\ <<Store>> \o k \o v # <<>>
        /\ Head(<<Store>> \o k \o v) = Store
    BY <1>3, <2>1, HeadOfConcat
  <2> QED BY <1>3, <2>2, HeadOfConcat
<1>6. Head(<<FindNode>> \o k \o n) = FindNode
  <2>1. /\ <<FindNode>> \o k \in Seq(Vocabulary) /\ <<FindNode>> \o k # <<>>
        /\ Head(<<FindNode>> \o k) = FindNode
    BY <1>3, <1>4, HeadOfConcat
  <2> QED BY <1>3, <2>1, HeadOfConcat
<1>7. Head(<<Ping, "nonce">>) = Ping
  OBVIOUS
<1> QED BY <1>2, <1>5, <1>6, <1>7, FindValueFirst DEF Ping, FindNode

LEMMA SameFits ==
  ASSUME NEW c \in Calls, NEW p \in Places, NEW text, Fits(c, text)
  PROVE  Fits([c EXCEPT !.at = p], text)
<1>1. PICK d : d = [c EXCEPT !.at = p]
  OBVIOUS
<1>2. d.op = c.op /\ RequestText(d) = RequestText(c)
  BY <1>1, SameRequest
<1> QED BY <1>1, <1>2 DEF Fits

\* The server's answer to a request fits the call that sent it.
LEMMA HandleFits ==
  ASSUME TypeOK, NEW c \in Calls, NEW r \in Handle(RequestText(c)),
         r.text # <<>>, store' = r.store
  PROVE  Fits(c, r.text)'
<1>1. PICK q : q = RequestText(c)
  OBVIOUS
<1>2. q \in Requests /\ q[2] \in Words
  BY <1>1, RequestShape DEF Requests
<1>3. CASE c.op \in {"Ping", "FindNode"}
  <2>1. Head(q) = Ping
    BY <1>1, <1>3, HeadOfRequest
  <2>2. r = Reply(<<"PONG">>, store, FALSE)
    BY <1>1, <2>1 DEF Handle, Ping, Store, FindValue
  <2> QED BY <1>3, <2>2 DEF Fits, Reply
<1>4. CASE c.op = "Store"
  <2>1. Head(q) = Store
    BY <1>1, <1>4, HeadOfRequest
  <2>2. PICK o \in PutOutcomes : r = Reply(Stored(q, o), TryPut(q[2], <<q[3]>>, o), FALSE)
    BY <1>1, <2>1 DEF Handle, Ping, Store, FindValue
  <2>3. CASE o = "failed"
    <3>1. r.text = q
      BY <2>2, <2>3 DEF Reply
    <3> QED BY <1>1, <1>4, <3>1 DEF Fits
  <2>4. CASE o = "stored"
    <3>1. r.text = <<"OK">> /\ store' = [store EXCEPT ![q[2]] = <<q[3]>>]
      BY <2>2, <2>4 DEF Reply, TryPut
    <3>2. store'[q[2]] = <<q[3]>>
      BY <1>2, <3>1 DEF TypeOK
    <3> QED BY <1>1, <1>4, <3>1, <3>2 DEF Fits
  <2>5. CASE o = "dropped"
    <3>1. r.text = <<"OK">>
      BY <2>2, <2>5 DEF Reply
    <3> QED BY <1>1, <1>4, <2>5, <3>1 DEF Fits
  <2> QED BY <2>3, <2>4, <2>5
<1>5. CASE c.op = "FindValue"
  <2>1. Head(q) = FindValue
    BY <1>1, <1>5, HeadOfRequest
  <2>2. r \in Found(q) /\ store[q[2]] # <<>>
    BY <1>1, <1>2, <2>1 DEF Handle, Ping, Store, FindValue, TypeOK
  <2>3. r.store = store /\ (r.text = store[q[2]] \/ (CollectorMoves /\ r.text = Scrambled))
    BY <2>2, FoundInStore
  <2> QED BY <1>1, <1>5, <2>3 DEF Fits
<1> QED BY <1>3, <1>4, <1>5, CallFields

LEMMA PumpKeepsFitInv ==
  ASSUME KInv, ReplyInv, NEW d \in Clients, PumpServes(d)
  PROVE  FitInv'
<1> USE DEF KInv, net, links
<1>1. PICK q : q = Head(wire[d])
  OBVIOUS
<1>2. /\ wire[d] # <<>> /\ wire' = [wire EXCEPT ![d] = Tail(@)]
      /\ call # NoCall /\ call.at = "pump" /\ call' = [call EXCEPT !.at = "receive"]
  BY DEF PumpServes, GoOn
<1>3. 1 \in DOMAIN wire[d] /\ q = wire[d][1]
  BY <1>1, <1>2, TakenRequest
<1>4. PICK k \in Calls : k = call
  BY <1>2 DEF TypeOK
<1>5. PICK c \in Clients : c = call.by
  BY <1>4, CallFields
<1>6. PICK r \in Handle(q.text) :
        /\ store' = r.store
        /\ back' = back \/ (/\ r.text # <<>>
                            /\ back' = [back EXCEPT ![d] = Append(@,
                                          [text |-> r.text, nonce |-> q.nonce])])
  BY <1>1 DEF PumpServes
<1>7. back[c] = <<>> /\ back \in [Clients -> Seq(Answer)]
  BY <1>2, <1>5 DEF ReplyInv, TypeOK, Answer
<1>8. call' = [k EXCEPT !.at = "receive"] /\ call'.by = c
  BY <1>2, <1>4, <1>5, SameRequest DEF Places
<1>9. ASSUME NEW i \in DOMAIN back'[c]
      PROVE  Fits(call, back[c][i].text)'
  <2>1. back' # back /\ c = d
    BY <1>6, <1>7, <1>9
  <2>2. PICK a : a = [text |-> r.text, nonce |-> q.nonce]
    OBVIOUS
  <2>3. r.text # <<>> /\ back'[c] = <<a>>
    BY <1>6, <1>7, <2>1, <2>2
  <2>4. back'[c][i].text = r.text
    BY <1>9, <2>2, <2>3
  <2>5. q.text = RequestText(k)
    BY <1>2, <1>3, <1>4, <1>5, <2>1 DEF ReplyInv
  <2>6. Fits(k, r.text)'
    BY <1>6, <2>3, <2>5, HandleFits
  <2>7. PICK m : m = [k EXCEPT !.at = "receive"]
    OBVIOUS
  <2>8. m.op = k.op /\ RequestText(m) = RequestText(k)
    BY <2>7, SameRequest DEF Places
  <2>9. Fits(m, r.text)'
    BY <2>6, <2>8 DEF Fits
  <2>10. call' = m
    BY <1>8, <2>7
  <2> QED BY <2>4, <2>9, <2>10
<1> QED BY <1>8, <1>9 DEF FitInv

LEMMA NextFitInv == KInv /\ ReplyInv /\ FitInv /\ [Next]_vars => FitInv'
<1> SUFFICES ASSUME KInv, ReplyInv, FitInv, [Next]_vars PROVE FitInv'
  OBVIOUS
<1>1. CASE UNCHANGED vars
  BY <1>1 DEF FitInv, Fits, vars, net, links
<1>2. CASE call' = NoCall
  BY <1>2 DEF FitInv
<1>3. CASE Start \/ \E c \in Clients : Connect(c) \/ Disconnect(c)
  BY <1>2, <1>3 DEF Start, Connect, Disconnect
<1>4. ASSUME NEW c \in Clients, Begin(c) PROVE FitInv'
  BY <1>4 DEF Begin, FitInv
<1>5. CASE Send
  <2>1. CASE call' = NoCall
    BY <1>2, <2>1
  <2>2. CASE call' # NoCall
    <3>1. call' = [call EXCEPT !.at = "pump"] /\ call \in Calls
      BY <1>5, <2>2 DEF Send, End, GoOn, KInv, TypeOK
    <3>2. call'.at = "pump"
      BY <3>1, SameRequest DEF Places
    <3>3. ReplyInv'
      BY <1>5, SendKeepsReplyInv
    <3>4. back'[call'.by] = <<>>
      BY <2>2, <3>2, <3>3 DEF ReplyInv
    <3> QED BY <3>4 DEF FitInv
  <2> QED BY <2>1, <2>2
<1>6. CASE PumpTimesOut
  <2>1. /\ call # NoCall /\ call.at = "pump" /\ call' = [call EXCEPT !.at = "receive"]
        /\ UNCHANGED back
    BY <1>6 DEF PumpTimesOut, GoOn, net
  <2>2. call'.by = call.by /\ call \in Calls
    BY <2>1, SameRequest DEF KInv, TypeOK, Places
  <2>3. back'[call'.by] = <<>>
    BY <2>1, <2>2 DEF ReplyInv
  <2> QED BY <2>3 DEF FitInv
<1>7. ASSUME NEW d \in Clients, PumpServes(d) PROVE FitInv'
  BY <1>7, PumpKeepsFitInv
<1>8. CASE PumpThrows \/ Receive \/ ReceiveTimesOut \/ \E d \in Clients : PumpFails(d)
  BY <1>2, <1>8 DEF PumpThrows, Receive, ReceiveTimesOut, PumpFails, End
<1> QED BY <1>1, <1>3, <1>4, <1>5, <1>6, <1>7, <1>8 DEF Next, CallStep

\* Of an open socket that awaits a reply, one message is somewhere.
LEMMA OneSomewhere ==
  ASSUME KInv, NEW c \in Clients, call # NoCall, call.by = c, call.at # "send"
  PROVE  /\ wire[c] \in Seq(Request) /\ back[c] \in Seq(Answer)
         /\ Len(wire[c]) <= 1
         /\ wire[c] # <<>> \/ back[c] # <<>> \/ owed.from = c
<1>1. wire[c] \in Seq(Request) /\ back[c] \in Seq(Answer)
  BY DEF KInv, TypeOK, Request, Answer
<1>2. Len(wire[c]) \in Nat /\ Len(back[c]) \in Nat
  BY <1>1, LenProperties
<1>3. socket[c] = "open" /\ awaiting[c] = calls /\ calls # 0
  <2>1. calls \in Nat /\ calls >= 1
    BY DEF KInv, CallInv, TypeOK
  <2>2. calls # 0
    BY <2>1
  <2> QED BY <2>2 DEF KInv, CallInv
<1>4. Len(wire[c]) + Len(back[c]) + (IF owed.from = c THEN 1 ELSE 0) = 1
  BY <1>3, Zenon DEF KInv, OneInFlight
<1>5. CASE owed.from = c
  <2>1. Len(wire[c]) + Len(back[c]) + 1 = 1
    BY <1>4, <1>5
  <2> QED BY <1>1, <1>2, <1>5, <2>1, OneOfThree, Zenon
<1>6. CASE owed.from # c
  <2>1. Len(wire[c]) + Len(back[c]) + 0 = 1
    BY <1>4, <1>6
  <2>2. Len(wire[c]) <= 1 /\ (Len(wire[c]) # 0 \/ Len(back[c]) # 0)
    BY <1>2, <2>1, OneOfThree, Zenon
  <2>3. wire[c] # <<>> \/ back[c] # <<>>
    BY <2>2
  <2> QED BY <1>1, <2>2, <2>3
<1> QED BY <1>5, <1>6

LEMMA NextAloneInv == KInv /\ AloneInv /\ [Next]_vars => AloneInv'
<1> SUFFICES ASSUME KInv, AloneInv, [Next]_vars PROVE AloneInv'
  OBVIOUS
<1>1. CASE UNCHANGED vars
  BY <1>1 DEF AloneInv, Alone, vars, net, links
<1>2. CASE call' = NoCall
  BY <1>2 DEF AloneInv
<1>3. CASE Start \/ \E c \in Clients : Connect(c) \/ Disconnect(c)
  BY <1>2, <1>3 DEF Start, Connect, Disconnect
<1>4. ASSUME NEW c \in Clients, Begin(c) PROVE AloneInv'
  BY <1>4 DEF Begin, AloneInv
<1>5. CASE Send
  <2>1. CASE call' # NoCall
    <3>1. call' = [call EXCEPT !.at = "pump"] /\ call \in Calls
      BY <1>5, <2>1 DEF Send, End, GoOn, KInv, TypeOK
    <3>2. call'.at = "pump"
      BY <3>1, SameRequest DEF Places
    <3> QED BY <3>2 DEF AloneInv
  <2> QED BY <1>2, <2>1
<1>6. CASE PumpTimesOut
  <2>1. /\ call # NoCall /\ call.at = "pump" /\ call' = [call EXCEPT !.at = "receive"]
        /\ UNCHANGED wire /\ \A d \in Prompt : wire[d] = <<>>
    BY <1>6 DEF PumpTimesOut, GoOn, net
  <2> QED BY <2>1 DEF AloneInv, Alone
<1>7. ASSUME NEW d \in Clients, PumpServes(d) PROVE AloneInv'
  <2>1. /\ call # NoCall /\ call.at = "pump" /\ call' = [call EXCEPT !.at = "receive"]
        /\ wire[d] # <<>> /\ wire' = [wire EXCEPT ![d] = Tail(@)]
    BY <1>7 DEF PumpServes, GoOn
  <2>2. PICK c \in Clients : c = call.by
    BY <2>1, CallFields DEF KInv, TypeOK
  <2>3. call'.by = c
    BY <2>1, <2>2, SameRequest DEF KInv, TypeOK, Places
  <2>4. ASSUME Alone(c)' PROVE wire'[c] = <<>>
    <3>1. d = c
      <4>1. d # c => socket[d] = "none"
        BY <1>7, <2>4 DEF Alone, PumpServes, links
      <4> QED BY <2>1, <4>1 DEF KInv, FreshInv
    <3>2. wire[c] \in Seq(Request) /\ Len(wire[c]) <= 1
      BY <2>1, <2>2, OneSomewhere
    <3>3. Tail(wire[c]) \in Seq(Request) /\ Len(Tail(wire[c])) = Len(wire[c]) - 1
      BY <2>1, <3>1, <3>2, HeadTailProperties
    <3>4. Len(wire[c]) \in Nat \ {0}
      BY <2>1, <3>1, <3>2, LenProperties, EmptySeq
    <3>5. Len(Tail(wire[c])) = 0
      BY <3>2, <3>3, <3>4, OneTaken, Zenon
    <3>6. Tail(wire[c]) = <<>>
      BY <3>3, <3>5, EmptySeq
    <3>7. wire \in [Clients -> Seq(Request)]
      BY DEF KInv, TypeOK, Request
    <3> QED BY <2>1, <3>1, <3>6, <3>7
  <2> QED BY <2>3, <2>4 DEF AloneInv
<1>8. CASE PumpThrows \/ Receive \/ ReceiveTimesOut \/ \E d \in Clients : PumpFails(d)
  BY <1>2, <1>8 DEF PumpThrows, Receive, ReceiveTimesOut, PumpFails, End
<1> QED BY <1>1, <1>3, <1>4, <1>5, <1>6, <1>7, <1>8 DEF Next, CallStep

\* A call returns by receiving, or because the second is over.
LEMMA ReturnsByReceiving ==
  ASSUME KInv, Next, call # NoCall, call' = NoCall, last'.outcome = "returned"
  PROVE  Receive \/ ReceiveTimesOut
<1>1. ~(\E c \in Clients : Begin(c) \/ Connect(c) \/ Disconnect(c)) /\ ~Start
  BY DEF Begin, Connect, Disconnect, Start
<1>2. ASSUME \E p : p \in Places /\ call' = [call EXCEPT !.at = p] PROVE FALSE
  <2>1. call \in Calls
    BY DEF KInv, TypeOK
  <2>2. PICK p \in Places : call' = [call EXCEPT !.at = p]
    BY <1>2
  <2>3. call' \in Calls
    BY <2>1, <2>2, CallFields
  <2>4. call'.op \in {"Ping", "Store", "FindNode", "FindValue"}
    BY <2>3, CallFields
  <2>5. call'.op = "none"
    BY DEF NoCall
  <2> QED BY <2>4, <2>5
<1>3. ~PumpTimesOut /\ ~\E d \in Clients : PumpServes(d)
  BY <1>2 DEF PumpTimesOut, PumpServes, GoOn, Places
<1>4. ASSUME Send \/ PumpThrows \/ \E d \in Clients : PumpFails(d)
      PROVE  FALSE
  <2>1. last' = [call |-> call, outcome |-> "threw", response |-> <<>>]
    BY <1>2, <1>4 DEF Send, PumpThrows, PumpFails, End, GoOn, Places
  <2> QED BY <2>1
<1> QED BY <1>1, <1>3, <1>4 DEF Next, CallStep

LEMMA EndOfCall ==
  ASSUME KInv, FitInv, AloneInv, Next, call # NoCall, call' = NoCall,
         last'.outcome = "returned"
  PROVE  \/ Fits(call, last'.response)
         \/ /\ last'.response = <<>>
            /\ call.by \in Prompt =>
                 \/ owed.from = call.by
                 \/ wire[call.by] # <<>> /\ \E d \in Clients \ {call.by} : socket[d] # "none"
<1>1. PICK c \in Clients : c = call.by
  BY CallFields DEF KInv, TypeOK
<1>2. CASE Receive
  <2>1. /\ back[c] # <<>> /\ call.at = "receive"
        /\ \E text \in IF call.op = "FindValue" THEN Unpinned(Head(back[c]).text)
                                                ELSE {Head(back[c]).text} :
             last' = [call |-> call, outcome |-> "returned", response |-> text]
    BY <1>1, <1>2 DEF Receive, End
  <2>2. back[c] \in Seq(Answer)
    BY DEF KInv, TypeOK, Answer
  <2>3. 1 \in DOMAIN back[c] /\ Head(back[c]) = back[c][1]
    BY <2>1, <2>2, HeadTailProperties, LenProperties, EmptySeq
  <2>4. Fits(call, Head(back[c]).text)
    BY <1>1, <2>1, <2>3 DEF FitInv
  <2>5. call.op = "FindValue" /\ CollectorMoves => Fits(call, Scrambled)
    BY DEF Fits
  <2>6. \/ last'.response = Head(back[c]).text
        \/ call.op = "FindValue" /\ CollectorMoves /\ last'.response = Scrambled
    <3>1. PICK text \in IF call.op = "FindValue" THEN Unpinned(Head(back[c]).text)
                                                 ELSE {Head(back[c]).text} :
            last' = [call |-> call, outcome |-> "returned", response |-> text]
      BY <2>1, Zenon
    <3>2. last'.response = text
      BY <3>1
    <3>3. \/ text = Head(back[c]).text
          \/ call.op = "FindValue" /\ CollectorMoves /\ text = Scrambled
      BY DEF Unpinned
    <3> QED BY <3>2, <3>3
  <2> QED BY <2>4, <2>5, <2>6
<1>3. CASE ReceiveTimesOut
  <2>1. /\ call.at = "receive" /\ last'.response = <<>>
        /\ c \in Prompt => back[c] = <<>>
    BY <1>1, <1>3 DEF ReceiveTimesOut, TimedOut, End
  <2>2. ASSUME c \in Prompt
        PROVE  owed.from = c \/ (wire[c] # <<>> /\ \E d \in Clients \ {c} : socket[d] # "none")
    <3>1. wire[c] # <<>> \/ back[c] # <<>> \/ owed.from = c
      BY <1>1, <2>1, OneSomewhere
    <3>2. (\A d \in Clients \ {c} : socket[d] = "none") => wire[c] = <<>>
      BY <1>1, <2>1, <2>2 DEF AloneInv, Alone
    <3> QED BY <2>1, <2>2, <3>1, <3>2
  <2> QED BY <1>1, <2>1, <2>2
<1> QED BY <1>2, <1>3, ReturnsByReceiving

\* Whatever other clients have left on the way, a call that returns has an
\* answer of its own kind, true when it returns, or none.  A client to which
\* the network delivers within the second has none only where the server is
\* silent over its own request, or where another client had connected and had
\* an older request to serve.  So the only client of a server that has started
\* is answered: its ping with a pong.
THEOREM AnswersFitTheirCalls == Spec => AnswerFits
<1>1. Init => ReplyInv /\ FitInv /\ AloneInv
  BY DEF Init, ReplyInv, FitInv, AloneInv
<1>2. Spec => [](ReplyInv /\ FitInv /\ AloneInv)
  BY <1>1, AlwaysKInv, NextReplyInv, NextFitInv, NextAloneInv, PTL DEF Spec
<1>3. KInv /\ ReplyInv /\ FitInv /\ AloneInv /\ [Next]_vars =>
        [call # NoCall /\ call' = NoCall /\ last'.outcome = "returned" =>
           \/ Fits(call, last'.response)
           \/ /\ last'.response = <<>>
              /\ call.by \in Prompt =>
                   \/ owed.from = call.by
                   \/ /\ wire[call.by] # <<>>
                      /\ \E d \in Clients \ {call.by} : socket[d] # "none"]_vars
  BY EndOfCall DEF vars, net, links
<1> QED BY <1>2, <1>3, AlwaysKInv, PTL DEF Spec, AnswerFits
=============================================================================
