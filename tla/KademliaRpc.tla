----------------------------- MODULE KademliaRpc -----------------------------
(***************************************************************************)
(* ownable.dht: clients calling one key-value server over request/reply    *)
(* sockets.  A call sends its request, runs one turn of the server itself  *)
(* (KademliaClient.GetResponse calls TryProcessRequest), and receives; each *)
(* receive waits a second.  One thread makes the calls, as the scenarios   *)
(* of Kademlia.feature do; what runs beside it is the network, which may   *)
(* deliver a message after the second is over.                             *)
(*                                                                         *)
(* A text is the sequence of its words, as Split(' ') gives them.          *)
(***************************************************************************)
EXTENDS Naturals, Sequences

CONSTANTS
  Clients,
  NoClient,
  Keys,          \* the key texts callers use
  Values,        \* the value texts
  NoValue,       \* no value under a key
  Scrambled,     \* bytes read through a pointer to memory the collector moved
  PutOutcomes,   \* what LMDB may do with a put: "stored", "dropped", "failed"
  GetFails,      \* a read of the server's store may end in an exception
  CollectorMoves,\* the collector may run between taking a pointer and its use
  Prompt,        \* the clients to and from which the network delivers in a second
  MaxCalls       \* bound on the calls of a behaviour

\* Messages.cs: Ping and FindNode are the same word.
Ping == "FIND_NODE"
Store == "STORE"
FindNode == "FIND_NODE"
FindValue == "FIND_VALUE"

\* Nonces differ from one request to the next, and nothing reads them.
WordsOf(texts) == UNION {{t[i] : i \in DOMAIN t} : t \in texts}
Words == {"nonce"} \cup WordsOf(Keys \cup Values)
Vocabulary == Words \cup {Ping, Store, FindNode, FindValue, "PONG", "OK"}
Texts == Seq(Vocabulary)

ASSUME KademliaAssumption ==
  /\ NoClient \notin Clients
  /\ Keys \subseteq Seq(Words) /\ Values \subseteq Seq(Words)
  /\ PutOutcomes \subseteq {"stored", "dropped", "failed"}
  /\ GetFails \in BOOLEAN /\ CollectorMoves \in BOOLEAN
  /\ MaxCalls \in Nat
  /\ Scrambled # <<>> /\ NoValue # <<>>

ASSUME PromptAssumption == Prompt \subseteq Clients

VARIABLES
  started,   \* the server's socket is bound
  socket,    \* each client's SocketClient: "none", "open" or "disposed"
  state,     \* each client's ConnectionState
  awaiting,  \* the nonce of the reply a request socket waits for, or 0
  owed,      \* the request the reply socket owes an answer to, or NoRequest
  wire,      \* requests under way, per client
  back,      \* replies under way, per client
  store,     \* the server's KeyValueStore: word => text
  call,      \* the call in progress, or NoCall
  last,      \* the last call and how it ended
  calls      \* calls made; the nonce of the last one

net == <<awaiting, owed, wire, back>>
links == <<started, socket, state>>
vars == <<net, links, store, call, last, calls>>

Places == {"send", "pump", "receive"}
NoCall == [op |-> "none"]
NoRequest == [from |-> NoClient]

\* The calls of IKademliaService, and how far one has come.
Calls ==
  [op : {"Ping"}, by : Clients, key : {<<>>}, value : {<<>>}, at : Places] \cup
  [op : {"Store"}, by : Clients, key : Keys, value : Values, at : Places] \cup
  [op : {"FindNode", "FindValue"}, by : Clients, key : Keys, value : {<<>>}, at : Places]

\* The text a call sends, KademliaClient.cs:46, 55, 63, 72.
RequestText(c) ==
  CASE c.op = "Ping"      -> <<Ping, "nonce">>
    [] c.op = "Store"     -> <<Store>> \o c.key \o c.value \o <<"nonce">>
    [] c.op = "FindNode"  -> <<FindNode>> \o c.key \o <<"nonce">>
    [] c.op = "FindValue" -> <<FindValue>> \o c.key \o <<"nonce">>

Init ==
  /\ started = FALSE
  /\ socket = [c \in Clients |-> "none"]
  /\ state = [c \in Clients |-> "Disconnected"]
  /\ awaiting = [c \in Clients |-> 0]
  /\ owed = NoRequest
  /\ wire = [c \in Clients |-> <<>>]
  /\ back = [c \in Clients |-> <<>>]
  /\ store = [w \in Words |-> NoValue]
  /\ call = NoCall
  /\ last = NoCall
  /\ calls = 0
-----------------------------------------------------------------------------
Start ==
  /\ call = NoCall
  /\ started' = TRUE
  /\ UNCHANGED <<net, socket, state, store, call, last, calls>>

\* `_client ??= new SocketClient`: a disposed socket is kept.
Connect(c) ==
  /\ call = NoCall
  /\ socket' = [socket EXCEPT ![c] = IF @ = "none" THEN "open" ELSE @]
  /\ state' = [state EXCEPT ![c] = "Connected"]
  /\ UNCHANGED <<net, started, store, call, last, calls>>

\* Disposing the socket drops what it has not received; a request that it
\* has sent may still reach the server.
Disconnect(c) ==
  /\ call = NoCall
  /\ socket' = [socket EXCEPT ![c] = IF @ = "none" THEN @ ELSE "disposed"]
  /\ state' = [state EXCEPT ![c] = "Disconnected"]
  /\ awaiting' = [awaiting EXCEPT ![c] = 0]
  /\ \/ UNCHANGED wire
     \/ wire' = [wire EXCEPT ![c] = <<>>]
  /\ back' = [back EXCEPT ![c] = <<>>]
  /\ UNCHANGED <<owed, started, store, call, last, calls>>

Begin(c) ==
  /\ call = NoCall
  /\ calls < MaxCalls
  /\ calls' = calls + 1
  /\ call' \in {k \in Calls : k.by = c /\ k.at = "send"}
  /\ UNCHANGED <<net, links, store, last>>

\* The call ends, by returning or with an exception out of NetMQ or the code.
End(outcome, response) ==
  /\ call' = NoCall
  /\ last' = [call |-> call, outcome |-> outcome, response |-> response]

GoOn(place) ==
  /\ call' = [call EXCEPT !.at = place]
  /\ UNCHANGED last

\* A mutant is what an operator would be with a likely mistake in the code;
\* none is part of the specification.
\* Mutant of MaySend: a socket that sends again before it has its reply.
MaySendAnyway(c) == socket[c] = "open"

\* A request socket sends only when it awaits no reply, a disposed or missing
\* one never.
MaySend(c) == socket[c] = "open" /\ awaiting[c] = 0

\* The frame goes out (to a server yet to come, too), or sending throws.
Send ==
  /\ call # NoCall /\ call.at = "send"
  /\ IF MaySend(call.by)
     THEN /\ wire' = [wire EXCEPT ![call.by] =
                        Append(@, [text |-> RequestText(call), nonce |-> calls])]
          /\ awaiting' = [awaiting EXCEPT ![call.by] = calls]
          /\ GoOn("pump")
     ELSE End("threw", <<>>) /\ UNCHANGED <<wire, awaiting>>
  /\ UNCHANGED <<owed, back, links, store, calls>>
-----------------------------------------------------------------------------
(* KademliaServer.TryProcessRequest, on the caller's thread.               *)

\* Without a socket, or with one that owes a reply, receiving throws.
PumpThrows ==
  /\ call # NoCall /\ call.at = "pump"
  /\ ~started \/ owed # NoRequest
  /\ End("threw", <<>>)
  /\ UNCHANGED <<net, links, store, calls>>

PumpTimesOut ==
  /\ call # NoCall /\ call.at = "pump"
  /\ started /\ owed = NoRequest
  /\ \A d \in Prompt : wire[d] = <<>>
  /\ GoOn("receive")
  /\ UNCHANGED <<net, links, store, calls>>

\* KeyValueStore.TryPut: the result codes of the put and the commit are
\* ignored, so only an exception makes it false.
TryPut(word, text, outcome) ==
  IF outcome = "stored" THEN [store EXCEPT ![word] = text] ELSE store

\* What is read through a span over memory nothing pins.
Unpinned(text) == IF CollectorMoves THEN {text, Scrambled} ELSE {text}

\* `unread' says that the answer is none although the key may be there.
Reply(text, after, unread) == [text |-> text, store |-> after, unread |-> unread]

\* Mutant of Stored: a failed STORE is not answered.
StoredSilently(text, outcome) == IF outcome = "failed" THEN <<>> ELSE <<"OK">>

Stored(text, outcome) == IF outcome = "failed" THEN text ELSE <<"OK">>

\* KeyValueStore.TryGet is false after an exception, too; and memory that has
\* been reused may hold blanks, which the server does not send.
Unreadable(text) == GetFails \/ (CollectorMoves /\ store[text[2]] # NoValue)

\* Mutant of Found: a key that is not there falls through to the echo.
FoundOrEchoed(text) ==
  {Reply(t, store, FALSE) :
     t \in IF store[text[2]] = NoValue THEN {text} ELSE Unpinned(store[text[2]])}

\* Mutant of Found: TryGet's result is not looked at.
FoundUnchecked(text) == {Reply(store[text[2]], store, FALSE)}

\* FindValue, from TryGet to the text that is to be sent.
Found(text) ==
  {Reply(t, store, FALSE) :
     t \in IF store[text[2]] = NoValue THEN {<<>>} ELSE Unpinned(store[text[2]])}
  \cup (IF Unreadable(text) THEN {Reply(<<>>, store, TRUE)} ELSE {})

\* HandleClientMessage: what the server may answer a request with, and its
\* store after it.  An empty text is no answer.  A STORE takes the two words
\* after its name; when it fails its request is sent back.  FIND_NODE is a
\* ping: the branch for it after that one is never reached.
Handle(text) ==
  CASE Head(text) = Ping -> {Reply(<<"PONG">>, store, FALSE)}
    [] Head(text) = Store ->
         {Reply(Stored(text, o), TryPut(text[2], <<text[3]>>, o), FALSE) :
            o \in PutOutcomes}
    [] Head(text) = FindValue -> Found(text)

TooShort(text) == Head(text) = Store /\ Len(text) < 3

\* The oldest request of some client.  Without an answer nothing is sent and
\* the socket goes on owing one; a client that is gone gets none.
PumpServes(d) ==
  /\ call # NoCall /\ call.at = "pump"
  /\ started /\ owed = NoRequest
  /\ wire[d] # <<>> /\ ~TooShort(Head(wire[d]).text)
  /\ wire' = [wire EXCEPT ![d] = Tail(@)]
  /\ \E r \in Handle(Head(wire[d]).text) :
       /\ store' = r.store
       /\ IF r.text = <<>>
          THEN /\ owed' = [from |-> d, text |-> Head(wire[d]).text,
                           unread |-> r.unread]
               /\ UNCHANGED back
          ELSE /\ back' = IF socket[d] = "open"
                          THEN [back EXCEPT ![d] = Append(@,
                                 [text |-> r.text, nonce |-> Head(wire[d]).nonce])]
                          ELSE back
               /\ UNCHANGED owed
  /\ GoOn("receive")
  /\ UNCHANGED <<awaiting, links, calls>>

\* tokens[2] of a STORE of two words: IndexOutOfRangeException, before any
\* answer.
PumpFails(d) ==
  /\ call # NoCall /\ call.at = "pump"
  /\ started /\ owed = NoRequest
  /\ wire[d] # <<>> /\ TooShort(Head(wire[d]).text)
  /\ wire' = [wire EXCEPT ![d] = Tail(@)]
  /\ owed' = [from |-> d, text |-> Head(wire[d]).text, unread |-> FALSE]
  /\ End("threw", <<>>)
  /\ UNCHANGED <<awaiting, back, links, store, calls>>
-----------------------------------------------------------------------------
Receive ==
  /\ call # NoCall /\ call.at = "receive"
  /\ back[call.by] # <<>>
  /\ \E text \in IF call.op = "FindValue"
                 THEN Unpinned(Head(back[call.by]).text)
                 ELSE {Head(back[call.by]).text} :
       End("returned", text)
  /\ back' = [back EXCEPT ![call.by] = Tail(@)]
  /\ awaiting' = [awaiting EXCEPT ![call.by] = 0]
  /\ UNCHANGED <<owed, wire, links, store, calls>>

\* Mutant of TimedOut: a receive without a timeout.
TimedOutNever(c) == FALSE

TimedOut(c) == c \in Prompt => back[c] = <<>>

\* The second is over: the call returns with no response, and the socket
\* goes on awaiting one.
ReceiveTimesOut ==
  /\ call # NoCall /\ call.at = "receive"
  /\ TimedOut(call.by)
  /\ End("returned", <<>>)
  /\ UNCHANGED <<net, links, store, calls>>

CallStep ==
  \/ Send
  \/ PumpThrows \/ PumpTimesOut
  \/ \E d \in Clients : PumpServes(d) \/ PumpFails(d)
  \/ Receive \/ ReceiveTimesOut

Next ==
  \/ Start
  \/ \E c \in Clients : Connect(c) \/ Disconnect(c) \/ Begin(c)
  \/ CallStep

\* The caller's thread runs, and every wait of a call is bounded.
Fairness == WF_vars(CallStep)

Spec == Init /\ [][Next]_vars /\ Fairness
-----------------------------------------------------------------------------
(* Properties.                                                             *)

Requests == {RequestText(c) : c \in Calls}

TypeOK ==
  /\ started \in BOOLEAN
  /\ socket \in [Clients -> {"none", "open", "disposed"}]
  /\ state \in [Clients -> {"Disconnected", "Connected"}]
  /\ awaiting \in [Clients -> 0..MaxCalls]
  /\ owed \in {NoRequest} \cup [from : Clients, text : Requests, unread : BOOLEAN]
  /\ wire \in [Clients -> Seq([text : Requests, nonce : 1..MaxCalls])]
  /\ back \in [Clients -> Seq([text : Texts \cup {Scrambled}, nonce : 1..MaxCalls])]
  /\ store \in [Words -> (Texts \ {<<>>}) \cup {NoValue}]
  /\ call \in Calls \cup {NoCall}
  /\ calls \in 0..MaxCalls

\* A connected request socket awaits a reply exactly while one message of its
\* own is somewhere: on the way, unread, or owed by a server that went silent.
OneInFlight ==
  \A c \in Clients : socket[c] = "open" =>
    Len(wire[c]) + Len(back[c]) + (IF owed.from = c THEN 1 ELSE 0)
      = IF awaiting[c] = 0 THEN 0 ELSE 1

\* The reply a call is about to read answers that call, however late the
\* replies to earlier calls come.
AnswersThisCall ==
  call # NoCall /\ call.at = "receive" =>
    \A i \in DOMAIN back[call.by] : back[call.by][i].nonce = calls

\* The server goes silent, for good and for every client, only over a key it
\* does not have, a value it could not read (KeyValueStore.cs:42-47), or a
\* STORE of two words (KademliaServer.cs:31, 51).
SilentForACause ==
  owed # NoRequest =>
    \/ Head(owed.text) = FindValue /\ (store[owed.text[2]] = NoValue \/ owed.unread)
    \/ TooShort(owed.text)

\* What may answer a call.  A STORE that failed gets its request back; OK says
\* that it is stored, unless the store drops what it is given.  FindValue gets
\* what the server holds, unless the memory it points to has been reused.
Fits(c, text) ==
  \/ c.op \in {"Ping", "FindNode"} /\ text = <<"PONG">>
  \/ c.op = "Store" /\ text = RequestText(c)
  \/ /\ c.op = "Store" /\ text = <<"OK">>
     /\ store[RequestText(c)[2]] = <<RequestText(c)[3]>> \/ "dropped" \in PutOutcomes
  \/ /\ c.op = "FindValue" /\ text # <<>>
     /\ text = store[RequestText(c)[2]] \/ (CollectorMoves /\ text = Scrambled)

\* A call that returns has an answer of its kind, true when it returns, or
\* none; a client near enough has none only if the server has gone silent over
\* this very request, or if another client has connected, whose older request
\* the server served instead.
AnswerFits ==
  [][call # NoCall /\ call' = NoCall /\ last'.outcome = "returned" =>
       \/ Fits(call, last'.response)
       \/ /\ last'.response = <<>>
          /\ call.by \in Prompt =>
               \/ owed.from = call.by
               \/ wire[call.by] # <<>> /\ \E d \in Clients \ {call.by} : socket[d] # "none"]_vars

\* Every call ends: each of its waits is bounded.
CallsEnd == call # NoCall ~> call = NoCall

Finishes(op) == call # NoCall /\ call' = NoCall /\ call.op = op

\* Kademlia.feature:12-13, "When I send a request to store the value ... Then
\* the value should be stored in the network": Store that returns true.
StoreMeansStored ==
  [][Finishes("Store") /\ last'.outcome = "returned"
       => store[Head(call.key)] # NoValue]_vars

\* Kademlia.feature:4-7: with a server running and the client connected, a
\* ping is answered with a pong.  (The call before it, if any, returned.)
PingGetsPong ==
  [][Finishes("Ping") /\ started /\ socket[call.by] = "open"
       /\ (last # NoCall => last.outcome = "returned")
       => last'.response = <<"PONG">>]_vars
=============================================================================
