------------------------------- MODULE Indexing -------------------------------
(***************************************************************************)
(* Indexing a collection, and the pages that show it.  A run of the index  *)
(* command goes through the mints of a contract; of each it stores the     *)
(* contract, the metadata, the traits and the media, each record in a      *)
(* transaction of its own, and writes the image to a file.  The host       *)
(* answers requests for the collection and for one token meanwhile, from   *)
(* the same index and the same directory of images.                        *)
(*                                                                         *)
(* Of the index the module uses only what RecordStore promises: a put      *)
(* takes effect at one instant or, when the map is full or it throws, not  *)
(* at all, and nothing is ever removed; that a put waits for LMDB's writer *)
(* is IndexStore's concern.  The node, IPFS, the web and the contents of   *)
(* what they return are a choice among the outcomes the code tells apart.  *)
(***************************************************************************)
EXTENDS Naturals, Sequences, FiniteSets, FiniteSetsExt

CONSTANTS
  Tokens, Blocks,
  Mints,        \* the mint events the three pages hold: [token, block]
  Attributes,   \* how many attributes the metadata of a token has
  Address,      \* the contract's address as a text, see IndexKeys
  Text,         \* the text of a token's id
  Scope,        \* the flags of IndexScope asked for; the command: all
  Images,       \* how many image processors can take the metadata
  Runs, Requests, NoRun,
  Plans,        \* the mints, from one to one, that fall in each run's range
  MaxLost       \* bound: puts that are dropped or throw

ASSUME IndexingAssumption ==
  /\ Tokens \subseteq Nat
  /\ Mints \in Seq([token : Tokens, block : Blocks]) /\ Mints # <<>>
  /\ Attributes \in [Tokens -> Nat]
  /\ Scope \subseteq {"TokenContracts", "TokenMetadata", "TokenMetadataAttributes", "TokenMedia"}
  /\ Plans \subseteq [Runs -> (DOMAIN Mints) \X Nat]
  /\ \A p \in Plans, r \in Runs : p[r][2] <= Len(Mints)
  /\ Images \in Nat /\ MaxLost \in Nat
  /\ NoRun \notin Runs

VARIABLES
  known,     \* whether the contract is one of KnownContracts
  at,        \* where each run is, and with which mint, attribute and image
  mint, last, trait, image,
  stored,    \* the records in the index
  lost,      \* history: the records that were put and not stored
  failed,    \* history: the records whose making or whose put threw
  files,     \* what each file of the directory images holds
  writer,    \* the run that has it open for writing, or NoRun
  cut,       \* history: the files whose writing stopped half way
  over,      \* history: the files that were written over another
  settled,   \* whether KeyBuilder holds every key that the host looks up
  pc,        \* where each request is
  direct,    \* whether it asks for one token
  todo,      \* the tokens it has yet to show
  seen,      \* the traits of the token at hand
  block,     \* the block in the path of its media
  shown,     \* what it has put into its answer
  spoilt     \* history: the tokens that no page can show, when it began

runVars == <<at, mint, last, trait, image>>
data == <<stored, lost, failed>>
disk == <<files, writer, cut, over>>
pages == <<pc, direct, todo, seen, block, shown, spoilt>>
vars == <<known, at, mint, last, trait, image, stored, lost, failed, files, writer, cut,
          over, settled, pc, direct, todo, seen, block, shown, spoilt>>

Paths == Tokens \X Blocks

-----------------------------------------------------------------------------
(* Records *)

Token(r) == Mints[mint[r]].token
Path(r) == <<Mints[mint[r]].token, Mints[mint[r]].block>>

\* A record of the run r, with a GUID of its own; k tells the traits and the
\* media of a token apart.
Record(kind, r, k) ==
  [kind |-> kind, token |-> Token(r), block |-> Mints[mint[r]].block,
   run |-> r, mint |-> mint[r], k |-> k]

\* KnownContracts gives its contracts a fixed GUID, so there is one record.
KnownContract ==
  [kind |-> "Contract", token |-> 0, block |-> 0, run |-> NoRun, mint |-> 0, k |-> 0]

Of(kind, t) == {x \in stored : x.kind = kind /\ x.token = t}

\* Store.Save and Append of one record, if the scope asks for its kind.
Put(flag, x) ==
  \/ flag \in Scope /\ stored' = stored \cup {x} /\ lost' = lost \ {x} /\ UNCHANGED failed
  \/ /\ flag \in Scope /\ x \notin stored
     /\ Cardinality(lost) + Cardinality(failed) < MaxLost
     /\ lost' = lost \cup {x} /\ UNCHANGED <<stored, failed>>
  \/ flag \notin Scope /\ UNCHANGED data

\* Or it throws: the record cannot be made, KeyBuilder's Add throws, or LMDB.
PutThrows(flag, x) ==
  /\ flag \in Scope
  /\ Cardinality(lost) + Cardinality(failed) < MaxLost
  /\ failed' = failed \cup {x} /\ UNCHANGED <<stored, lost>>

Keys == INSTANCE IndexKeys WITH Ids <- {}, TypeOf <- <<>>, FieldOrder <- <<>>, Records <- {}

\* The key the pages look up is the key the token is stored under, with the
\* values in the order of their names.
InOrder(t) ==
  Keys!KeyLookup("Metadata", <<"ContractAddress", "TokenId">>, <<Address, Text[t]>>).value
    = Address \o Text[t]

\* An address starts with "0x"; the text of an id is digits, and no x.
ASSUME AddressAssumption ==
  /\ Address \in Seq(Nat) /\ Len(Address) > 1 /\ Address[1] # Address[2]
  /\ \A t \in Tokens :
       /\ Text[t] \in Seq(Nat) /\ Text[t] # <<>>
       /\ \A i \in DOMAIN Text[t] : Text[t][i] # Address[2]

\* Mutant of Reached: the values keep the order of their names.
ReachedAll == Tokens

\* The tokens that the pages find.
Reached == {t \in Tokens : InOrder(t)}

Found(kind, t) == IF t \in Reached THEN Of(kind, t) ELSE {}

-----------------------------------------------------------------------------
(* A run: IndexService.IndexCollectionAsync *)

Active(r) == at[r] \notin {"idle", "ended", "aborted", "died"}

Goto(r, where) == at' = [at EXCEPT ![r] = where]

\* The run goes on with the next mint.
NextMint(r) ==
  \/ /\ mint[r] < last[r]
     /\ mint' = [mint EXCEPT ![r] = @ + 1]
     /\ Goto(r, "begin")
  \/ /\ mint[r] = last[r]
     /\ Goto(r, "ended")
     /\ UNCHANGED mint

\* The command fetches the events of its range of blocks; there may be none.
Start(r) ==
  /\ at[r] = "idle"
  /\ Goto(r, IF mint[r] <= last[r] THEN "begin" ELSE "ended")
  /\ UNCHANGED <<known, settled, mint, last, trait, image, data, disk, pages>>

\* Outside of any try a call of the node fails -- the fetch of a page of
\* events, or GetContractFeaturesAsync -- or the Append of a known contract.
\* The exception ends the command.
Abort(r) ==
  /\ at[r] = "begin"
  /\ (known /\ PutThrows("TokenContracts", KnownContract)) \/ UNCHANGED data
  /\ Goto(r, "aborted")
  /\ UNCHANGED <<known, settled, mint, last, trait, image, disk, pages>>

\* IndexTokenAsync for a contract that is known.
SkipKnown(r) ==
  /\ at[r] = "begin" /\ known
  /\ Put("TokenContracts", KnownContract)
  /\ NextMint(r)
  /\ UNCHANGED <<known, settled, last, trait, image, disk, pages>>

\* The contract does not support the standard of the indexer.
SkipUnsupported(r) ==
  /\ at[r] = "begin" /\ ~known
  /\ NextMint(r)
  /\ UNCHANGED <<known, settled, last, trait, image, data, disk, pages>>

\* What this Save throws is logged, and the run goes on.
SaveContract(r) ==
  /\ at[r] = "begin" /\ ~known
  /\ LET x == Record("Contract", r, 0)
     IN  Put("TokenContracts", x) \/ PutThrows("TokenContracts", x)
  /\ Goto(r, "uri")
  /\ UNCHANGED <<known, settled, mint, last, trait, image, disk, pages>>

\* There is no token URI, no processor for it, the last processor has no
\* result, or one throws: the exception is logged.
NoMetadata(r) ==
  /\ at[r] = "uri"
  /\ NextMint(r)
  /\ UNCHANGED <<known, settled, last, trait, image, data, disk, pages>>

\* Mutant of SaveMetadata: the metadata is put after the traits.
SaveMetadataLast(r) ==
  /\ \/ /\ at[r] = "uri"
        /\ trait' = [trait EXCEPT ![r] = 0]
        /\ image' = [image EXCEPT ![r] = 0]
        /\ UNCHANGED data
     \/ /\ at[r] = "traits" /\ trait[r] = Attributes[Token(r)]
        /\ Put("TokenMetadata", Record("Metadata", r, 0))
        /\ UNCHANGED <<trait, image>>
  /\ Goto(r, "traits")
  /\ UNCHANGED <<known, settled, mint, last, disk, pages>>

\* MetadataIndexer.IndexAsync
SaveMetadata(r) ==
  /\ at[r] = "uri"
  /\ Put("TokenMetadata", Record("Metadata", r, 0))
  /\ trait' = [trait EXCEPT ![r] = 0]
  /\ image' = [image EXCEPT ![r] = 0]
  /\ Goto(r, "traits")
  /\ UNCHANGED <<known, settled, mint, last, disk, pages>>

\* Mutant of MoreTraits: one too many.
MoreTraitsByOne(r) == trait[r] <= Attributes[Token(r)]

MoreTraits(r) == trait[r] < Attributes[Token(r)]

SaveTrait(r) ==
  /\ at[r] = "traits" /\ MoreTraits(r)
  /\ Put("TokenMetadataAttributes", Record("Trait", r, trait[r] + 1))
  /\ trait' = [trait EXCEPT ![r] = @ + 1]
  /\ UNCHANGED <<known, settled, at, mint, last, image, disk, pages>>

\* Mutant of ImagesNext: the images are handled before the traits.
ImagesNextEarly(r) == at[r] \in {"traits", "image"}

\* The loop over the image processors is on.
ImagesNext(r) == at[r] = "image" \/ (at[r] = "traits" /\ ~MoreTraits(r))

\* The remaining image processors cannot take the metadata or have no image,
\* or one throws.
NoImage(r) ==
  /\ ImagesNext(r)
  /\ NextMint(r)
  /\ UNCHANGED <<known, settled, last, trait, image, data, disk, pages>>

\* A processor gives the media, with the stream of the image or without one:
\* the file is left alone then, and the next processor is tried.
SaveMedia(r) ==
  /\ ImagesNext(r) /\ image[r] < Images
  /\ image' = [image EXCEPT ![r] = @ + 1]
  /\ Put("TokenMedia", Record("Media", r, image[r] + 1))
  /\ \E next \in {"delete", "image"} : Goto(r, next)
  /\ UNCHANGED <<known, settled, mint, last, trait, disk, pages>>

\* A Save of MetadataIndexer throws, or an element of the attributes is null:
\* the indexer of the standard logs it, and the rest of the token is skipped.
SaveThrows(r) ==
  /\ \/ at[r] = "uri" /\ PutThrows("TokenMetadata", Record("Metadata", r, 0))
     \/ /\ at[r] = "traits" /\ MoreTraits(r)
        /\ PutThrows("TokenMetadataAttributes", Record("Trait", r, trait[r] + 1))
     \/ /\ ImagesNext(r) /\ image[r] < Images
        /\ PutThrows("TokenMedia", Record("Media", r, image[r] + 1))
  /\ NextMint(r)
  /\ UNCHANGED <<known, settled, last, trait, image, disk, pages>>

\* FileImageHandler: a file that is there is deleted.
DeleteFile(r) ==
  /\ at[r] = "delete"
  /\ files' = [files EXCEPT ![Path(r)] = "none"]
  /\ writer' = [writer EXCEPT ![Path(r)] = NoRun]
  /\ over' = over \ {Path(r)}
  /\ Goto(r, "open")
  /\ UNCHANGED <<known, settled, mint, last, trait, image, data, cut, pages>>

\* File.OpenWrite shares the file with nobody, and does not empty one that
\* another run has put there since.
OpenFile(r) ==
  /\ at[r] = "open" /\ writer[Path(r)] = NoRun
  /\ over' = IF files[Path(r)] = "none" THEN over ELSE over \cup {Path(r)}
  /\ files' = [files EXCEPT ![Path(r)] = "part"]
  /\ writer' = [writer EXCEPT ![Path(r)] = r]
  /\ Goto(r, "copy")
  /\ UNCHANGED <<known, settled, mint, last, trait, image, data, cut, pages>>

\* Another run has put the file back and is writing it: OpenWrite throws.
OpenFails(r) ==
  /\ at[r] = "open" /\ writer[Path(r)] # NoRun
  /\ NextMint(r)
  /\ UNCHANGED <<known, settled, last, trait, image, data, disk, pages>>

\* What a file may hold once the content is written to it: over another file,
\* the tail of that one stays if it is longer, and may be the same image.
Leaves(p, content) ==
  {content} \cup (IF p \in over THEN {"mixed", "whole"} ELSE {})

\* The file is closed, with all that was to be written or with a part of it.
\* If another run has deleted it meanwhile, the path is not its any more.
Close(r, content) ==
  \/ /\ writer[Path(r)] = r
     /\ \E c \in Leaves(Path(r), content) : files' = [files EXCEPT ![Path(r)] = c]
     /\ writer' = [writer EXCEPT ![Path(r)] = NoRun]
     /\ cut' = IF content = "part" THEN cut \cup {Path(r)} ELSE cut \ {Path(r)}
     /\ UNCHANGED over
  \/ /\ writer[Path(r)] # r
     /\ UNCHANGED disk

Copied(r) ==
  /\ at[r] = "copy"
  /\ Close(r, "whole")
  /\ Goto(r, "image")
  /\ UNCHANGED <<known, settled, mint, last, trait, image, data, pages>>

\* Mutant of CopyFails: the file is written again, as often as it takes.
CopyFailsRetry(r) ==
  /\ at[r] = "copy"
  /\ Close(r, "part")
  /\ Goto(r, "delete")
  /\ UNCHANGED <<known, settled, mint, last, trait, image, data, pages>>

\* The stream ends in an exception: it is logged, and the file stays.
CopyFails(r) ==
  /\ at[r] = "copy"
  /\ Close(r, "part")
  /\ NextMint(r)
  /\ UNCHANGED <<known, settled, last, trait, image, data, pages>>

\* The command is stopped.
Die(r) ==
  /\ Active(r)
  /\ Goto(r, "died")
  /\ IF at[r] = "copy" THEN Close(r, "part") ELSE UNCHANGED disk
  /\ UNCHANGED <<known, settled, mint, last, trait, image, data, pages>>

-----------------------------------------------------------------------------
(* A request: CollectionController *)

Listed == {x.token : x \in {y \in stored : y.kind = "Trait"}}

\* What no page can show: a token whose text sorts before the address, or one
\* whose metadata is stored twice.
Unshowable ==
  {t \in Tokens : Keys!TextBefore(Text[t], Address) \/ Cardinality(Of("Metadata", t)) > 1}

Begin(q, one, tokens) ==
  /\ pc[q] = "idle"
  /\ pc' = [pc EXCEPT ![q] = "traits"]
  /\ direct' = [direct EXCEPT ![q] = one]
  /\ todo' = [todo EXCEPT ![q] = tokens]
  /\ spoilt' = [spoilt EXCEPT ![q] = Unshowable \cap tokens]
  /\ UNCHANGED <<known, settled, runVars, data, disk, seen, block, shown>>

Stop(q, how) == pc' = [pc EXCEPT ![q] = how]

\* The request is over, and what it held is dropped.
Finish(q, how) ==
  /\ Stop(q, how)
  /\ todo' = [todo EXCEPT ![q] = {}]
  /\ seen' = [seen EXCEPT ![q] = {}]
  /\ shown' = [shown EXCEPT ![q] = {}]

\* KeyLookup throws: two requests that look a key up for the first time, or
\* one that does beside others, meet in KeyBuilder's dictionaries.  It is the
\* first thing that GetTokenIds, GetTokenTraits and GetTokenMetadata do.
KeysThrow(q) ==
  /\ ~settled
  /\ \/ pc[q] \in {"idle", "metadata"}
     \/ pc[q] = "traits" /\ todo[q] # {}
  /\ Finish(q, "threw")
  /\ UNCHANGED <<known, settled, runVars, data, disk, direct, block, spoilt>>

\* From now on every lookup of the host finds its key in the dictionaries.
Settle ==
  /\ ~settled /\ settled' = TRUE
  /\ UNCHANGED <<known, runVars, data, disk, pages>>

\* GetTokenIds: the tokens that have a trait.
AskCollection(q) == Begin(q, FALSE, Listed)

AskItem(q, t) == Begin(q, TRUE, {t})

Cur(q) == Min(todo[q])
Media(q) == <<Cur(q), block[q]>>

\* The client goes away.  What is left of the request -- scans cut short, a
\* read that throws -- changes nothing, and its answer reaches nobody.
Cancel(q) ==
  /\ pc[q] \in {"traits", "metadata", "exists", "read"}
  /\ Finish(q, "cancelled")
  /\ UNCHANGED <<known, settled, runVars, data, disk, direct, block, spoilt>>

ReadTraits(q) ==
  /\ pc[q] = "traits" /\ todo[q] # {}
  /\ seen' = [seen EXCEPT ![q] = Found("Trait", Cur(q))]
  /\ Stop(q, "metadata")
  /\ UNCHANGED <<known, settled, runVars, data, disk, direct, todo, block, shown, spoilt>>

\* Mutant of IsSingle: any of several is taken.
IsSingleOrMore(s) == s # {}

\* Single() throws unless there is exactly one.
IsSingle(s) == Cardinality(s) = 1

\* GetTokenMetadata, and traits.First(), which throws if there is none.
ReadMetadata(q) ==
  /\ pc[q] = "metadata"
  /\ \/ /\ IsSingle(Found("Metadata", Cur(q))) /\ seen[q] # {}
        /\ \E x \in seen[q] : block' = [block EXCEPT ![q] = x.block]
        /\ Stop(q, "exists")
        /\ UNCHANGED <<todo, seen, shown>>
     \/ /\ ~(IsSingle(Found("Metadata", Cur(q))) /\ seen[q] # {})
        /\ Finish(q, "threw")
        /\ UNCHANGED block
  /\ UNCHANGED <<known, settled, runVars, data, disk, direct, spoilt>>

\* The item is added to the answer, with the media given.
Show(q, media) ==
  /\ shown' = [shown EXCEPT ![q] = @ \cup
       {[token |-> Cur(q), block |-> block[q], traits |-> seen[q], media |-> media]}]
  /\ todo' = [todo EXCEPT ![q] = @ \ {Cur(q)}]
  /\ seen' = [seen EXCEPT ![q] = {}]
  /\ Stop(q, "traits")

\* MediaService.GetMediaAsync: there is no file, or it is there now.
CheckFile(q) ==
  /\ pc[q] = "exists"
  /\ \/ files[Media(q)] = "none" /\ Show(q, "none")
     \/ files[Media(q)] # "none" /\ Stop(q, "read") /\ UNCHANGED <<todo, seen, shown>>
  /\ UNCHANGED <<known, settled, runVars, data, disk, direct, block, spoilt>>

\* Mutant of Readable: a file that is being written is read.
ReadableOpen(p) == files[p] # "none"

\* ReadAllBytesAsync throws if the file is gone or a run is writing it.
Readable(p) == files[p] # "none" /\ writer[p] = NoRun

ReadFile(q) ==
  /\ pc[q] = "read"
  /\ \/ Readable(Media(q)) /\ Show(q, files[Media(q)])
     \/ ~Readable(Media(q)) /\ Finish(q, "threw")
  /\ UNCHANGED <<known, settled, runVars, data, disk, direct, block, spoilt>>

Answer(q) ==
  /\ pc[q] = "traits" /\ todo[q] = {}
  /\ Finish(q, "done")
  /\ UNCHANGED <<known, settled, runVars, data, disk, direct, block, spoilt>>

-----------------------------------------------------------------------------
(* Specification *)

Init ==
  /\ known \in BOOLEAN
  /\ at = [r \in Runs |-> "idle"]
  /\ \E p \in Plans : /\ mint = [r \in Runs |-> p[r][1]]
                      /\ last = [r \in Runs |-> p[r][2]]
  /\ trait = [r \in Runs |-> 0] /\ image = [r \in Runs |-> 0]
  /\ stored = {} /\ lost = {} /\ failed = {}
  /\ files = [p \in Paths |-> "none"]
  /\ writer = [p \in Paths |-> NoRun]
  /\ cut = {} /\ over = {}
  /\ settled \in BOOLEAN
  /\ pc = [q \in Requests |-> "idle"]
  /\ direct = [q \in Requests |-> FALSE]
  /\ todo = [q \in Requests |-> {}]
  /\ seen = [q \in Requests |-> {}]
  /\ block \in [Requests -> {CHOOSE b \in Blocks : TRUE}]
  /\ shown = [q \in Requests |-> {}]
  /\ spoilt = [q \in Requests |-> {}]

\* The steps of a run once it has started.
GoOn(r) ==
  \/ Abort(r) \/ SkipKnown(r) \/ SkipUnsupported(r) \/ SaveContract(r)
  \/ NoMetadata(r) \/ SaveMetadata(r) \/ SaveTrait(r)
  \/ NoImage(r) \/ SaveMedia(r) \/ SaveThrows(r)
  \/ DeleteFile(r) \/ OpenFile(r) \/ OpenFails(r) \/ Copied(r) \/ CopyFails(r)

Respond(q) == ReadTraits(q) \/ ReadMetadata(q) \/ CheckFile(q) \/ ReadFile(q) \/ Answer(q)

Next ==
  \/ \E r \in Runs : Start(r) \/ GoOn(r) \/ Die(r)
  \/ \E q \in Requests :
       \/ AskCollection(q) \/ Respond(q) \/ KeysThrow(q) \/ Cancel(q)
       \/ \E t \in Tokens : AskItem(q, t)
  \/ Settle

\* A call of the node or of the web ends, at the latest with a time-out, and
\* a thread that can run runs.  Nobody has to start a run or a request.
Fairness ==
  /\ \A r \in Runs : WF_vars(GoOn(r))
  /\ \A q \in Requests : WF_vars(Respond(q))

Spec == Init /\ [][Next]_vars /\ Fairness

-----------------------------------------------------------------------------
(* Properties *)

RecordsOK(s) ==
  s \subseteq [kind : {"Contract", "Metadata", "Trait", "Media"}, token : Tokens \cup {0},
               block : Blocks \cup {0}, run : Runs \cup {NoRun},
               mint : DOMAIN Mints \cup {0}, k : Nat]

TypeOK ==
  /\ known \in BOOLEAN /\ settled \in BOOLEAN
  /\ at \in [Runs -> {"idle", "begin", "uri", "traits", "image", "delete", "open", "copy",
                      "ended", "aborted", "died"}]
  /\ mint \in [Runs -> DOMAIN Mints] /\ last \in [Runs -> 0..Len(Mints)]
  /\ trait \in [Runs -> Nat]
  /\ \A r \in Runs : at[r] = "traits" => trait[r] <= Attributes[Token(r)]
  /\ image \in [Runs -> 0..Images]
  /\ RecordsOK(stored) /\ RecordsOK(lost) /\ RecordsOK(failed) /\ stored \cap lost = {}
  /\ files \in [Paths -> {"none", "part", "mixed", "whole"}]
  /\ writer \in [Paths -> Runs \cup {NoRun}]
  /\ cut \subseteq Paths /\ over \subseteq Paths
  /\ pc \in [Requests -> {"idle", "traits", "metadata", "exists", "read", "done", "threw",
                      "cancelled"}]
  /\ direct \in [Requests -> BOOLEAN]
  /\ todo \in [Requests -> SUBSET Tokens] /\ spoilt \in [Requests -> SUBSET Tokens]
  /\ \A q \in Requests : seen[q] \subseteq stored
  /\ block \in [Requests -> Blocks]
  /\ \A q \in Requests : \A i \in shown[q] : i.media \in {"none", "part", "mixed", "whole"}

\* A token that is listed, for having a trait, has its metadata: what fails
\* between the transactions of a token (MetadataIndexer.cs:29-52) leaves
\* metadata without traits, never traits without metadata, unless the put of
\* the metadata itself was dropped.
ListedHasMetadata ==
  "TokenMetadata" \in Scope =>
    \A x \in stored : x.kind = "Trait" =>
      [x EXCEPT !.kind = "Metadata", !.k = 0] \in stored \cup lost

\* An image that cannot be fetched or written costs no trait: a run that has
\* left a token behind has put all the traits of the metadata it stored, or
\* those before one whose making or put threw (MetadataIndexer.cs:42-52); the
\* rest are skipped then (ERC721Indexer.cs:115).
PastTokensWhole ==
  "TokenMetadataAttributes" \in Scope =>
    \A r \in Runs : \A x \in stored :
      (x.kind = "Metadata" /\ x.run = r /\ (x.mint < mint[r] \/ at[r] = "ended")) =>
        LET Trait(n) == [x EXCEPT !.kind = "Trait", !.k = n]
        IN  \A n \in 1..Attributes[x.token] :
              Trait(n) \in stored \cup lost \/ \E m \in 1..n : Trait(m) \in failed

\* One token that cannot be shown hides the whole collection: a request that
\* completes had to show no token whose key KeyLookup misorders
\* (KeyBuilder.cs:102), the token 0, and none that was indexed twice, by two
\* runs or for two mints, so that Single throws (CollectionController.cs:89).
OneTokenHidesAll ==
  \A q \in Requests : pc[q] = "done" => spoilt[q] = {}

\* A page shows a file that holds a part of the image only if the writing of
\* that file stopped half way, and one with the tail of another image only if
\* two runs wrote it, the second over what the first had closed; a run that is
\* at it makes the page fail instead (FileImageHandler.cs:24, MediaService.cs:20).
MediaWholeUnlessCut ==
  [][\A q \in Requests : \A i \in shown'[q] \ shown[q] :
       /\ i.media = "part" => <<i.token, i.block>> \in cut
       /\ i.media = "mixed" => <<i.token, i.block>> \in over]_vars

\* The metadata of a trait was dropped, or not asked for.
Orphan(x) ==
  "TokenMetadata" \in Scope => [x EXCEPT !.kind = "Metadata", !.k = 0] \in lost

\* A run is replacing the file, or stopped after it had deleted it.
Replacing(p) == \E r \in Runs : Path(r) = p /\ at[r] \in {"open", "copy", "died"}

\* A page that somebody waits for fails at a key that another request makes
\* KeyBuilder add (KeyBuilder.cs:20-30), for a token that it cannot show, for
\* one asked for directly that has no trait yet, for one whose metadata was
\* dropped, and for a file that is being replaced -- and for nothing else,
\* wherever the run is: the traits are read before the metadata and stored
\* after it.
ThrowsForACause ==
  [][\A q \in Requests : (pc'[q] = "threw" /\ pc[q] # "threw") =>
       \/ ~settled /\ pc[q] \in {"idle", "traits", "metadata"}
       \/ /\ pc[q] \in {"metadata", "read"}
          /\ \/ Cur(q) \in Unshowable
             \/ direct[q] /\ seen[q] = {}
             \/ \E x \in seen[q] : Orphan(x)
             \/ pc[q] = "read" /\ Replacing(Media(q))]_vars

\* Whatever has started comes to an end: there are finitely many runs and
\* requests, and no step of theirs waits for another, but for LMDB's writer.
AllEnds ==
  <>[](/\ \A r \in Runs : ~Active(r)
       /\ \A q \in Requests : pc[q] \in {"idle", "done", "threw", "cancelled"})
=============================================================================
