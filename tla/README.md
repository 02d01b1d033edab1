# Ownable in TLA+

Ownable indexes a wallet's tokens into a local LMDB file and serves them over
HTTP; beside it lies a small key-value service over request/reply sockets. This
project models the parts of it whose correctness depends on the order of steps,
checks them with TLC on small instances, and proves the main results with TLAPS.
Paths below are those of the repository, after `src/`.

## The system

| Component | State | Operations | Hard part | Correct when |
|---|---|---|---|---|
| Record index, `ownable/Data/Store.cs` | one LMDB database: GUID => record and key => GUID | Append, AppendMany, Save, Find, FindSince, FindByKey, Get, GetById | several puts per record, one writer, reads in write transactions, a full map, crashes | a record is under all its keys, a key leads to its record, finds miss nothing |
| Index keys, `ownable/Data/KeyBuilder.cs` | two static caches | IndexKey(s), KeyLookup, KeyPrefix | unsynchronised caches; names and values sorted apart | a lookup builds the key its records were put under |
| Host, `ownable.host/Controllers` | none of its own | batches of puts; account, contract and collection pages | concurrent requests; a page is several lookups | a page shows one state of a token |
| Chain indexing, `ownable/Services`, `ownable/Indexers`, `ownable/Handlers` | the store | IndexAccount, IndexCollection, IndexToken, IndexMetadata | calls to remote nodes that fail half-way, runs repeated | a token's records appear together, once |
| Processors, `ownable/Processors` | `images/` directory | fetch and decode metadata and images | partial results | one result per token |
| Log store, `ownable/Logging` | an LMDB database of log entries and their keys | Append, Get, GetByKey, GetByKeyAndValue | logging from inside every other part; keys too long | logging never fails its caller; lookups find the entries |
| Key-value calls, `ownable.dht`, `ownable.store` | two sockets, an LMDB database | Start, Connect, Disconnect, Ping, Store, FindNode, FindValue | sockets that insist on strict request/reply turns, timeouts | a reply belongs to its call; what was stored is found |
| Wallet session, `ownable.ui/Models`, `ownable.ui/Components` | selected account, shared Authorization header, local storage | enable, account and network changes | handlers that await between reading and setting | the header is the selected account's |
| Collection pages, `ownable.host/Controllers/CollectionController.cs`, `ownable/Services/MediaService.cs` | none of their own | the collection, one token | a dozen lookups and a file, while a run writes both | a page shows whole tokens, and fails only for a reason |
| Continuation tokens, `ownable/Models/QueryStore.cs` | none | create, read back | a text round trip of binary data | reading back gives the query |
| Serialization, contract messages, ActivityPub types, benchmarks, vendored scripts | - | - | declarations or third-party code | not modelled |

How they meet: the indexers and the batch endpoints call `Store.Append` and
`Store.Save`; controllers call its finds at the same time, on other threads; all
of them log, and the logger writes to the log store's own LMDB file. The wallet
asks the host for pages with the header of the selected account. A Kademlia
client calls one turn of its server itself and then waits for the answer.

`PROJECT.json` lists the hazards, each at its line, with the properties that
cover it or the reason why none does.

## Modules

| Module | Models |
|---|---|
| `IndexKeys` | the keys of a record and of a lookup, as records instead of hashes |
| `RecordStore` | abstract: a put takes effect at one instant, in order, or is lost |
| `IndexStore` | `Store` over LMDB: threads, the write transaction, snapshots, the full map |
| `KademliaRpc` | `KademliaClient`, `KademliaServer`, their sockets and `KeyValueStore` |
| `WalletSession` | `MetamaskHostProvider`, its JavaScript listeners and the subscribed components |
| `LogStore` | `LightningLogStore`: an entry with its keys, and the three lookups |
| `Indexing` | runs of the index command, and the pages of a collection, over one index and one directory |
| `ContinuationToken` | `QueryStore`: the bytes of a query, to a text and back |

Each of the last six has a module `...MC` with the values of its constants.
`IndexStoreProofs`, `KademliaRpcProofs`, `LogStoreProofs`, `WalletSessionProofs`,
`WalletHandlersProofs`, `IndexingProofs`, `IndexingPagesProofs` and
`ContinuationTokenProofs` hold the theorems.

How they compose: `IndexStore` is built on `IndexKeys` and is shown to implement
`RecordStore`. `Indexing` uses of the store exactly what `RecordStore` promises (a put
takes effect at one instant or not at all, and nothing is removed) and takes the order of
a lookup's key from `IndexKeys`. Runs and pages interact in `Indexing`
through the records and the files. The wallet, the log, the key-value calls and the
tokens share no state with these and have modules of their own.

Each component module has one type invariant and, among its definitions, mutants: what
an operator would be with a likely mistake in it. No specification uses one;
each shows that a property can tell the mistake from the code.

### IndexStore

| In the model | In the code |
|---|---|
| `primary`, `index` | the committed database: GUID => buffer, and the keys (each ends with the GUID it points to, so a set of keys is the map) |
| `writer`, `staged` | LMDB's open write transaction and its pages; `failed` is LMDB's flag on a transaction in which a put found the map full |
| `pc`, `batch` | where a request's thread is in `Put`, and the items of its loop |
| `query`, `view`, `todo`, `found` | a find: its lookup, its snapshot, the keys the cursor has still to reach, the entries collected |
| `RequestPuts`, `BeginPut`, `PutRecord`, `PutKeys`, `Commit` | `Append`, `Save` and the batches; `Put` from `BeginTransaction` to `Commit` |
| `KeysThrow` | `KeyBuilder`'s static dictionaries, looked up and added to without a lock: a lookup on another thread comes in between, `Add` throws, the transaction is disposed and the batch ends |
| `BeginFind`, `FetchEntry`, `EndFind`, `CancelFind` | `FindByKey` and `FindByKeySince`, one turn of the loop a step, with the nested `GetById` |
| `Crash` | the process dies; LMDB keeps what was committed |

Two things in the code shape this module. `GetById` begins a *write* transaction
(`Store.cs:246`), so each record of a find waits for the writer and is read as it
is now, not as in the snapshot the cursor walks. And no result of `tx.Put` or
`tx.Commit` is looked at, so a put refused by `NoOverwrite` still writes its
keys, and a put that does not fit returns as if it had been stored.

Abstracted: hashes are injective up to letter case; a cursor reaches the keys
of its prefix in some fixed order, which the model leaves open; a record has the
indexed fields that matter (three instead of up to five); the puts of the keys
are one step, because they are inside one transaction and a failure flags it
whatever put it hits; LMDB's room is counted in entries.

### KademliaRpc

| In the model | In the code |
|---|---|
| `socket`, `state` | `_client` and `ConnectionState` |
| `awaiting`, `owed` | the turn NetMQ's request and response sockets insist on |
| `wire`, `back` | frames sent and not yet taken |
| `store` | `KeyValueStore`, by word |
| `call`, `last` | the call in progress, and how the last one ended |
| `Send`, `Pump...`, `Receive`, `ReceiveTimesOut` | the three lines of a call: `TrySend`, `TryProcessRequest` (on the caller's thread), `TryReceive` |

A text is the sequence of its words, because the server splits a request at
blanks; `Ping` and `FindNode` are one word (`Messages.cs:5,7`), so the branch for
`FindNode` is dead. A nonce marks which request a frame belongs to; the code sends
it and never reads it. A collector that runs between taking a pointer and using it
(`KademliaServer.cs:96`, `KademliaClient.cs:79`) is the choice `Scrambled`. A read of the
store that ends in an exception looks to the server like an absent key
(`KeyValueStore.cs:42-47`), so it sends nothing: `GetFails` allows that, and `owed` keeps as a
history whether the request went unanswered because its value could not be read. NetMQ's
sends never time out here: a socket queues its frames. One thread makes the
calls, as in the scenarios; a server's `Dispose` is left out.

### WalletSession

| In the model | In the code |
|---|---|
| `account`, `chain`, `storage`, `listeners` | the wallet, the local storage, and the listeners `EnableEthereum` adds each time it is called (`NethereumMetamask.js:8`) |
| `available`, `selected`, `network` | the provider's properties |
| `header` | `DefaultRequestHeaders.Authorization`, by the account whose token it is |
| `jobs` | answers of JavaScript calls on their way to the `await` that resumes |
| `awaited` | the calls of `SelectedAccountChanged.Invoke` in progress: each waits for the task of the *last* subscriber, as `await` of a multicast delegate does |
| `TakeAvailable`, `TakeAddress`, `TakeNetwork` | start-up of the component `Metamask`, one await a step |
| `ClickConnect`, `Approve`, `Reject`, `TakeEnabled` | connecting, up to `EnableProviderAsync`'s end |
| `TakeContains`, `TakeItem` | the two awaits of `TryAddHttpAuthenticationAsync` |
| `SwitchAccount`, `SwitchChain` | events of the wallet, which call .NET straight away |
| `Navigate` | the page `Index` opened or left: it subscribes and unsubscribes |

The browser has one thread, so a step runs from one await to the next. Answers come
back in the order of the calls, and an event may fall between any two of them; a browser may
be stricter about that. A chain id goes through `Convert.ToInt32(id, 16)`
(`MetamaskHostProvider.cs:77`, `MetamaskBlazorInterop.cs:87`): `ToInt32` is that conversion, with
`Half` for 2^31, so that an id from there on comes out negative and one that is too large
(`Convertible`) makes the conversion throw and leaves the network as it was. The question for the
id may also be refused (`NethereumMetamask.js:33-35`).

`odd` is a history of three races the code has and of one failure, named so that the
properties can say what holds without them: `overlap` (an account change while
a handler of the change to another account is between its awaits), `overtaken` (an
event between the read of an account or network and its use), `unheard` (a
change of network before there is a listener) and `unread` (an id that the wallet refused or
that could not be converted).

### LogStore

| In the model | In the code |
|---|---|
| `db` | the committed keys with their values |
| `writing`, `BeginAppend`, `EndAppend` | `Append`'s transaction, the only writer while it lasts: the entry, its keys, the keys of its data; a long key throws and a full map drops it all |
| `pc`, `asked`, `rest`, `found` | a lookup: the part of its snapshot the cursor has not reached, the entries fetched |
| `Ask`, `Fetch`, `Finish`, `Cancel` | `GetByKey`, one turn of its loop a step, each with `GetByIndex`, whose transaction is begun as a writer's (`LightningLogStore.cs:174-177`) and so waits for the append that has begun |
| `logged`, `upTo` | histories: what was committed, and how much of it a snapshot has |

Three things in the code shape it. The keys of structured data lead to
themselves, not to the entry. The key of an event's name has no id, so it stays with
the first entry. And the prefix of the page of logs, the bytes `E:`, may also begin a GUID
(one in 65,536 does): `Cut` gives those GUIDs, and where they fall. A lookup compares bytes: `KeyText`
is what follows a key's name, the value and then `E:` and the bytes of the id
(`Logging/KeyBuilder.cs:24-28`), and `Matches` asks whether that begins with the value looked up. So
`1` finds event 12 and `1E` finds event 1. Lengths are those of `KeyText`; the name and the
constants before it are taken as part of `MaxKeySize`.

### Indexing

| In the model | In the code |
|---|---|
| `at`, `mint`, `last`, `trait`, `image` | where a run is in the loops over mints, attributes and image processors |
| `stored`, `lost`, `failed` | the records, a history of the puts a full map dropped, and one of the records whose making or put threw |
| `files`, `writer`, `cut`, `over` | the directory `images`: contents, who has a file open, and histories of the writes cut short and of the files written over another |
| `settled`, `Settle`, `KeysThrow` | whether the dictionaries of `KeyBuilder` hold every key the pages look up; until then a page's `KeyLookup` may throw (`Data/KeyBuilder.cs:20-30`) |
| `Start`, `Abort` | the range of blocks fetched; a call of the node that fails outside any `try` |
| `SkipKnown`, `SkipUnsupported`, `SaveContract` | `ERCTokenIndexer.IndexTokenAsync`, which goes no further for a known contract |
| `NoMetadata`, `SaveMetadata`, `SaveTrait` | `MetadataIndexer.IndexAsync` and the processors before it |
| `SaveThrows` | a `Save` that throws, or a null among the attributes: caught behind the whole token (`ERC721Indexer.cs:115`), and the run goes on to the next mint |
| `NoImage`, `SaveMedia`, `DeleteFile`, `OpenFile`, `OpenFails`, `Copied`, `CopyFails` | the image processors, which may give media without a stream, and `FileImageHandler`, whose `OpenWrite` does not empty a file (`FileImageHandler.cs:24`) |
| `Die` | the command is stopped |
| `AskCollection`, `AskItem`, `ReadTraits`, `ReadMetadata` | `CollectionController`, a step for each lookup |
| `CheckFile`, `ReadFile` | `MediaService`: `File.Exists`, then the read |
| `Cancel` | the client goes away: a scan is cut short or a step throws, and the answer reaches nobody |

Every remote call, and every document and image, is a choice among the outcomes the code
tells apart: a result, none, an exception that is caught and logged, and one that is
not. Commands pass `CancellationToken.None` (`Commands.cs:41,75`), so a
run is stopped only by ending the process. A record has a GUID of its own, but for the known
contracts, which have fixed ones.

### ContinuationToken

Bytes are numbers, and every conversion is what it does: the length and the bytes of the
number, the join with `::`, UTF-8 decoding with its replacement characters, `Split`, `Trim`
with the white space of `char.IsWhiteSpace`, the encoding back, and `BigInteger`'s shortest
form. The decoder is a recursive function of the position (`DecodedFrom`): at each it takes as
many bytes as still begin a character, and one if none do. A text is kept as its UTF-8, in which the
bytes of a separator or a blank occur as these characters only. Base64 loses nothing and is left
out. `ReadBytes` of a huge count may also fail to
allocate; either way the query is not the one written. No caller hands a token back today
(`TokenService.cs:172-174`, `ERCTokenIndexer.cs:34`).

## Runs

| Run | Question | Result |
|---|---|---|
| `index_mutable` | two threads, three requests, a GUID stored with two contents by Save and Append, room for everything | the index is complete and grounded, finds are complete, puts whole, what returned is stored, `RecordStore` is implemented, requests end |
| `index_full` | the same with write-once records and a map that is full before the last | puts without room are dropped whole; finds are exact |
| `index_append` | does an Append of a taken GUID change nothing (`IndexingTests.cs:43`)? | no: the rejected content's keys are added |
| `index_trait` | is a trait found by its type (`IndexingTests.cs:21-23`)? | no: no such key is ever written |
| `kademlia_slow` | two clients, three calls, blank texts, late frames, puts and reads that fail | replies belong to their calls; three causes of silence; what a call returns fits it and OK means stored (no put is dropped in this run), though a value found may be memory that was reused; calls end |
| `kademlia_store` | does Store returning true mean stored (`Kademlia.feature:12-13`)? | no: it means sent |
| `kademlia_ping` | does a ping get its pong (`Kademlia.feature:4-7`)? | not after a FindValue of an unknown key |
| `wallet_session` | start-up, connecting and two events of the wallet between any two awaits | without `overlap` the header is the selected account's; in the end its token is in use in any case; the account follows the wallet without `overtaken`, the network without `overtaken`, `unheard` and `unread`, as the number its id converts to; invocations end |
| `log_store` | entries of four kinds in any order, one with an odd GUID, and two lookups | entries are whole; each kind of lookup returns what the bytes of its keys say: the page stops at the odd GUID, a value finds longer ones too, a name finds its first entry, structured data makes a lookup throw; lookups end |
| `log_assert` | is every key shorter than the longest LMDB takes (`LightningLogStore.cs:97`)? | no: one of that very length is stored |
| `indexing` | two runs that may overlap, fail or be stopped anywhere, a page meanwhile | a token is left with a beginning of its records; media is whole unless cut or written over another; a page fails for named causes only; token 0 or a token indexed twice hides the collection; everything ends |
| `continuation_token` | which queries survive their token? | exactly those whose bytes look like a text |

Deadlock is not checked: every behaviour stops when its bounded number of
requests, calls, events, entries or runs is used up.

### Bounds

`IndexStore`: `MaxRequests = 3` with batches of up to two puts on two threads: a writer, a
request waiting for it and a find under way overlap, and a third request follows
what they left. Two versions of one record and one of another are
enough for a stale key, a refused Append and a key shared by two records. Fields
are three per class, which gives every kind of combination key. `Capacity = 100`
never fills; `Capacity = 20` holds two records with their keys and not the third.

`KademliaRpc`: `MaxCalls = 3` lets a call time out, a second meet its leftovers and a third
follow, with two clients on one server. Of the two, one is near enough to be reached within
the second (`Prompt`) and the other is not, so that a request sent before
the server started may be served in the turn of the other client's call. `PutOutcomes` has
`stored` and `failed` in `kademlia_slow`, where `AnswerFits` then says that OK means stored,
only `stored` in `kademlia_store`, and `stored` and `dropped` in `kademlia_ping`; the theorems are
for any outcomes. `GetFails` and `CollectorMoves` hold in `kademlia_slow` only.

`WalletSession`: two accounts, the second with no entry, a blank one or a token;
`MaxEvents = 2`, so that a change overtakes the handlers of another; `MaxEnables = 1`;
`Half = 2` and the chains 1, 3 and 5, of which the first converts to itself, the second to a
negative number and the third not at all.
Two clicks, hence two pairs of listeners, were explored to 4.4 million states
without a violation, too many for a run that is to be repeated. The theorems are for
any number.

`LogStore`: three entries, of which one may have an odd GUID that falls between the other
two; `Capacity = 20` keys takes two of the larger entries and not always three;
`MaxReads = 2`, so one lookup's snapshot is older than another's; GUIDs of three bytes, and
`MaxKeySize = 8` against texts of up to four, of which three and the five bytes behind them
just fit.

`Indexing`: token 0 is minted in block 7, token 1 in blocks 7 and 8; token 0 has two attributes and
token 1 has one. Either both runs have the same mint, and overlap, or one has two
mints in a row -- two tokens, or one token twice -- and the other has none. `MaxLost = 1` lets any
one put be dropped or throw. One request is enough: requests change nothing that others
read but the dictionaries of `KeyBuilder`, and what other requests may do to a page
through those is `settled`, which starts and becomes true at any time.

`ContinuationToken`: all numbers of one to three bytes out of twelve that UTF-8, `Split` and
`Trim` tell apart, and longer ones whose *length* is a white space or not. The model and the
theorem take numbers of at most 127 bytes, of which the length is one ASCII character; a filter's
number is a quantity of the node, of 256 bits. Longer ones would need another statement:
a length of 41154 bytes, say, reads as a no-break space and is trimmed.

### Fairness

| Assumed | Why |
|---|---|
| `IndexStore`: strong, of each thread's steps | LMDB's mutex passes over a waiter only finitely often, and a running thread goes on; accepting, cancelling and crashing are not fair |
| `KademliaRpc`: weak, of the call's own steps | one thread runs it, and each wait ends after its second |
| `WalletSession`: weak, of `Run` | the browser runs the jobs that are ready; nothing is assumed of user, wallet or page |
| `LogStore`: weak, of the append that has begun; strong, of each reader | a reader fetches each entry in a transaction begun as a writer's, so it waits for LMDB's mutex, which passes over a waiter only finitely often; nobody has to log anything |
| `Indexing`: weak, of each run's `GoOn` and each request's `Respond` | a remote call ends at the latest with its time-out; nobody has to start a run or a request; the wait of a put for LMDB's writer is part of `IndexStore`, not of this module |

## Proofs

Every theorem is for any values of the constants that meet the modules' ASSUMEs: what the
constants are, and that the marks for "nothing" are not among the things. The proofs add
no assumption but the two conditions named below.

`IndexStoreProofs`:

* the type invariant and `IInv`, which says that a thread has puts left exactly
  while putting, that the thread inside a transaction is the writer, and what
  the transaction's pages hold at each step of its put. Without it nothing
  says that a commit adds a record *and* its keys. `OnlyWholePuts` follows;
* `IndexComplete` and `IndexGrounded`, by adding them to `IInv`: each holds of
  a commit because what it commits is the old state plus one whole put;
* `FindComplete`, with the invariant that an entry of the snapshot is found
  already or is still among the keys to reach; it needs `IndexGrounded`, since a
  missing record would end the scan;
* that `IndexStore` implements `RecordStore`: a commit is `Decide`, an exception `GiveUp`,
  a crash `Forget`, a request `Ask`, everything else a stutter.

Two results of `IndexStoreProofs` are stated under the condition they need:

* `Room => (Spec => []ReturnedIsStored)`. `Room` says that there are finitely many GUIDs and
  keys and that the map holds them all; the key point is that a transaction is then never
  flagged. The instance of `index_mutable` satisfies it (31 entries of 100);
* `(WriteOnce /\ NoIdField) => (Spec => []FindExact)`. `WriteOnce` says that no two puts of
  the batches give one GUID different contents, `NoIdField` that no field is called like the id.
  The invariant is that every record in a snapshot is still the record stored, so that
  fetching it later makes no difference. The instance of `index_full` satisfies both.

`KademliaRpcProofs` proves `KInv`: the type invariant, `OneInFlight`, `SilentForACause`, that
a call past its send has an open socket awaiting that very call (`CallInv`), that the
frames of an open socket carry the nonce it awaits (`NonceInv`), and that a client that
never connected has no frame about (`FreshInv`). `OneInFlight` alone is not inductive:
connecting needs `FreshInv`, and receiving needs `CallInv`. `AnswersThisCall` follows from the
last two. `AnswerFits` is the converse of the two scenarios the code does not live up to: under which
conditions they hold. It adds `ReplyInv` (a call past its send has only its own request about),
`FitInv` (what such a call may read answers it, in the store as it is, since the one caller
sends no other request before the reply is taken or given up) and `AloneInv` (where no other
client has connected and the network is prompt, the request is served in the turn of its own call).
That a call without an answer has a cause is then `OneInFlight` read from the other side: its
message must be somewhere.

`LogStoreProofs` rests on one fact, `LogInv`: every key holds what the first entry with that
key put there. So a snapshot needs no state of its own, and `ScanInv` says what of it a
reader has passed. The exact results of the three lookups and `ThrowsForData` follow from
that and from where a scan ends (`EndInv`).

`WalletSessionProofs` proves `HeaderOfSelected` with `HandlersInv`: without an overlap every
handler in progress is for the selected account. `AccountFollowed` and `NetworkFollowed`
follow from `FollowInv`: without the named races an answer in flight carries the value the
wallet still has, and while the provider has another value such an answer is on its way.
`WalletHandlersProofs` proves `AwaitCoversAll` and `TokenSettles` from `HInv`, about the
order in which handlers end, which their places in the queue alone do not tell, since each is
there twice: a handler's invocation is awaited by one that ends no sooner, and unless the
selected account's token is in use a handler that will set it ends after all others.

`IndexingProofs` proves `ListedHasMetadata`, `PastTokensWhole` and `MediaWholeUnlessCut` from
three invariants: on records and types (`TInv`), on what a run has put at each place of its
loop, or lost in a put that threw (`PInv`), and on the files, who writes them and what they were
written over (`DInv`).
`IndexingPagesProofs` proves `OneTokenHidesAll` and `ThrowsForACause` from `QInv`, which says
what a request in progress has seen. Which tokens the pages find at all is `InOrderUnlessBefore`:
the key that `KeyLookup` builds is the token's, the address and then the id, exactly if the
text of the id does not sort before the address. It is proved from what the texts are
(`AddressAssumption`: an address has an `x` second, after another character, and an id has none):
one of the two comes before the other (`OneComesFirst`), a permutation of two texts in order is
then the only one (`SortedOfTwo`), and the two joins differ in their second character.

`ContinuationTokenProofs` proves `RestoredIfText` for every number and hash. The invariant is only
that the token is the one `CreateContinuationToken` makes; the proof is about the operators:

* `DecodedFromSolves`: the decoder's recursive function satisfies its equation. The value at a
  position depends on later ones only, so the least position from which a solution exists is
  the first. `KeepsText` and `LosesOther` follow: decoding changes nothing exactly if every byte
  is part of a character;
* `BehindHash`, `DecodedBehind` and `AsciiPrefix`: the ASCII hash and separator stay in front, so
  decoding, splitting and trimming are about the number's length and bytes alone;
* `TrimmedAtLength`, `ReadWithLength`, `ReadWithoutLength`: what is left when the length's own bytes
  are blank or not, and that what is read then is another number.

Induction over positions is everywhere the choice of a least counterexample (`LeastNat`), which
the library's `WFMin` gives for a set. That needs no theorem with an operator for a
parameter, which the provers cannot instantiate.

Checked and not proved: liveness (`RequestsEnd`, `CallsEnd`, `InvocationsEnd`, `ReadsEnd`,
`AllEnds`), which is out of the prover's reach. Every safety property a passing run checks is
a theorem.

## Plan

Done: all modules above and their proofs. What would add most from here, in this order:

1. the start-up of the key-value service (`PortScanner`, a server's `Dispose` while a
   client is connected), once something other than the scenarios starts one;
2. callers of one `KademliaClient` on several threads, once there are any: today the model's
   one caller is the code's;
3. runs that index an account, beside those that index a collection, once their
   records are read back somewhere.

## Not modelled

* What a corrupted dictionary does (`KeyBuilder.cs:27`): concurrent adds to a `Dictionary` are
  undefined; the model has the exception, which is the outcome that touches the store.
* Runs that index an account save each transfer under a new GUID and read nothing back:
  they are `RecordStore`'s puts. The handlers of transfers on the client post to a path the
  host does not serve.
* `Store.UseGzip`, `GetInfo` of both stores, the provider's property `Enabled`, which
  nothing reads, and the wallet's calls for signing and sending, which change no
  state here.
* The host builds its services a second time at start-up (`CommandLine.cs:28`); what LMDB does
  with one file opened twice in a process is undefined.
* Serialization of records, message declarations, ActivityPub types, benchmarks: copies
  and declarations with no control of their own.
* `WalletLayoutComponent` repeats the handlers of `Metamask`, and nothing inherits it.
* The scripts `EthCrypto.js` (69,319 lines) and `NethereumMetamaskEncrypt.js` (29,023 lines) are
  third-party bundles made by a packager. `index.html:24` of `ownable.ui/wwwroot` loads neither:
  only `NethereumMetamask.js`, whose functions are `WalletSession`'s actions. The
  object that `MetamaskBlazorInterop.Encrypt` calls (`:60-64`) is thus never defined.
