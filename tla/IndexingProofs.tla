---------------------------- MODULE IndexingProofs ----------------------------
(***************************************************************************)
(* Theorems about Indexing for any mints, scope, runs, requests and bound. *)
(* The inductive invariant adds to the types what a run's place says about *)
(* the records it has put, and a file's content about who stopped writing  *)
(* it.                                                                     *)
(***************************************************************************)
EXTENDS Indexing, FiniteSetTheorems, WellFoundedInduction, TLAPS

USE IndexingAssumption

States == {"idle", "begin", "uri", "traits", "image", "delete", "open", "copy",
           "ended", "aborted", "died"}

RunsOK ==
  /\ known \in BOOLEAN /\ settled \in BOOLEAN
  /\ at \in [Runs -> States]
  /\ mint \in [Runs -> DOMAIN Mints] /\ last \in [Runs -> 0..Len(Mints)]
  /\ trait \in [Runs -> Nat]
  /\ \A r \in Runs : at[r] = "traits" => trait[r] <= Attributes[Token(r)]
  /\ image \in [Runs -> 0..Images]

DataOK ==
  RecordsOK(stored) /\ RecordsOK(lost) /\ RecordsOK(failed) /\ stored \cap lost = {}

DiskOK ==
  /\ files \in [Paths -> {"none", "part", "mixed", "whole"}]
  /\ writer \in [Paths -> Runs \cup {NoRun}]
  /\ cut \subseteq Paths /\ over \subseteq Paths

PagesOK ==
  /\ pc \in [Requests -> {"idle", "traits", "metadata", "exists", "read", "done", "threw",
                      "cancelled"}]
  /\ direct \in [Requests -> BOOLEAN]
  /\ todo \in [Requests -> SUBSET Tokens] /\ spoilt \in [Requests -> SUBSET Tokens]
  /\ seen \in [Requests -> SUBSET stored]
  /\ block \in [Requests -> Blocks]
  /\ DOMAIN shown = Requests
  /\ \A q \in Requests : \A i \in shown[q] : i.media \in {"none", "part", "mixed", "whole"}

\* A record of a token is of one that is minted.
TokensOK ==
  \A x \in stored : x.kind # "Contract" => x.token \in Tokens /\ x.block \in Blocks

\* A request that looks a token up has one, and has seen traits only.
AtHandInv ==
  \A q \in Requests :
    /\ pc[q] \in {"metadata", "exists", "read"} => todo[q] # {}
    /\ \A x \in seen[q] : x.kind = "Trait"

TInv == RunsOK /\ DataOK /\ DiskOK /\ PagesOK /\ TokensOK /\ AtHandInv

\* The record of a kind that the run r puts for the mint m.
RecordOf(kind, r, m, k) ==
  [kind |-> kind, token |-> Mints[m].token, block |-> Mints[m].block,
   run |-> r, mint |-> m, k |-> k]

Meta(r, m) == RecordOf("Metadata", r, m, 0)

TraitOf(r, m, n) == RecordOf("Trait", r, m, n)

Recorded == stored \cup lost

\* A run has put the metadata of the mints up to the one it is at, at most.
MetaInv ==
  \A x \in stored : x.kind = "Metadata" =>
    /\ x.run \in Runs /\ x.mint \in Nat /\ x = Meta(x.run, x.mint)
    /\ x.mint <= mint[x.run]
    /\ at[x.run] \in {"idle", "begin", "uri"} => x.mint < mint[x.run]

TraitInv ==
  \A x \in stored : x.kind = "Trait" =>
    x.run \in Runs /\ x.mint \in Nat /\ x.k \in Nat /\ x = TraitOf(x.run, x.mint, x.k)

Past == {"image", "delete", "open", "copy"}

\* A run at the traits of a token has put its metadata.
MetadataPut ==
  "TokenMetadata" \in Scope =>
    \A r \in Runs : at[r] \in {"traits"} \cup Past => Meta(r, mint[r]) \in Recorded

\* It has put the traits it has counted, and all of them when it is past them.
TraitsPut ==
  "TokenMetadataAttributes" \in Scope =>
    \A r \in Runs : \A n \in Nat \ {0} :
      \/ at[r] = "traits" /\ n <= trait[r]
      \/ at[r] \in Past /\ n <= Attributes[Token(r)]
      => TraitOf(r, mint[r], n) \in Recorded

PInv == MetaInv /\ TraitInv /\ MetadataPut /\ TraitsPut /\ ListedHasMetadata /\ PastTokensWhole

\* A part of an image lies in a file that a run is writing, or stopped writing;
\* the tail of another, in one that was there when it was opened.
CutInv ==
  \A p \in Paths :
    /\ files[p] = "part" /\ writer[p] = NoRun => p \in cut
    /\ files[p] = "mixed" => p \in over

\* The run that has a file open is copying its image to it.
WriterInv ==
  \A p \in Paths, r \in Runs :
    writer[p] = r => files[p] = "part" /\ at[r] = "copy" /\ Path(r) = p

\* A file that a request has found there, and that is gone, was deleted by a
\* run that has yet to open it, or never will.
GoneInv ==
  \A q \in Requests :
    pc[q] = "read" /\ files[Media(q)] = "none" =>
      \E r \in Runs : Path(r) = Media(q) /\ at[r] \in {"open", "died"}

DInv == CutInv /\ WriterInv /\ GoneInv

-----------------------------------------------------------------------------
(* Lemmas about the operators *)

\* What a request can do, or its client.
PageStep(q) ==
  \/ AskCollection(q) \/ Respond(q) \/ KeysThrow(q) \/ Cancel(q)
  \/ \E t \in Tokens : AskItem(q, t)

Less == {s \in Nat \X Nat : s[1] < s[2]}

\* A set of numbers that is not empty has a least element.
LEMMA MinIn ==
  ASSUME NEW S \in SUBSET Nat, S # {}
  PROVE  Min(S) \in S
<1>1. IsWellFoundedOn(Less, Nat)
  BY NatLessThanWellFounded DEF OpToRel, Less
<1>2. PICK m \in S : \A y \in S : ~(<<y, m>> \in Less)
  BY <1>1, WFMin
<1>3. \A y \in S : m <= y
  <2> SUFFICES ASSUME NEW y \in S PROVE m <= y
    OBVIOUS
  <2>1. m \in Nat /\ y \in Nat
    OBVIOUS
  <2>2. ~(y < m)
    BY <2>1, <1>2 DEF Less
  <2> QED
    BY <2>1, <2>2
<1> QED
  BY <1>3 DEF Min

\* A put adds nothing but its record, and nothing that was put is forgotten.
LEMMA PutFacts ==
  ASSUME NEW flag, NEW x, Put(flag, x)
  PROVE  /\ stored \subseteq stored' /\ stored' \subseteq stored \cup {x}
         /\ lost' \subseteq lost \cup {x} /\ failed' = failed
         /\ Recorded \subseteq Recorded'
         /\ flag \in Scope => x \in Recorded'
  BY DEF Put, Recorded, data

\* A put that throws stores nothing.
LEMMA ThrowFacts ==
  ASSUME NEW flag, NEW x, PutThrows(flag, x)
  PROVE  stored' = stored /\ lost' = lost /\ failed' = failed \cup {x}
  BY DEF PutThrows

LEMMA SeqFacts ==
  ASSUME NEW S, NEW s \in Seq(S)
  PROVE  /\ Len(s) \in Nat /\ DOMAIN s = 1..Len(s)
         /\ \A n \in DOMAIN s : s[n] \in S
  OBVIOUS

LEMMA MintsFacts ==
  /\ DOMAIN Mints = 1..Len(Mints) /\ Len(Mints) \in Nat
  /\ \A m \in DOMAIN Mints : Mints[m] \in [token : Tokens, block : Blocks]
<1> DEFINE Mint == [token : Tokens, block : Blocks]
<1>1. Mints \in Seq(Mint)
  OBVIOUS
<1> HIDE DEF Mint
<1>2. /\ Len(Mints) \in Nat /\ DOMAIN Mints = 1..Len(Mints)
      /\ \A n \in DOMAIN Mints : Mints[n] \in Mint
  BY <1>1, SeqFacts, Zenon
<1> QED
  BY <1>2, Zenon DEF Mint

LEMMA MintIn ==
  ASSUME RunsOK, NEW r \in Runs
  PROVE  /\ mint[r] \in DOMAIN Mints /\ mint[r] \in Nat /\ mint[r] # 0
         /\ Token(r) \in Tokens /\ Mints[mint[r]].block \in Blocks
         /\ Path(r) \in Paths /\ Attributes[Token(r)] \in Nat
<1>1. mint[r] \in DOMAIN Mints
  BY DEF RunsOK
<1>2. /\ DOMAIN Mints = 1..Len(Mints) /\ Len(Mints) \in Nat
      /\ \A m \in DOMAIN Mints : Mints[m] \in [token : Tokens, block : Blocks]
  BY MintsFacts
<1>3. mint[r] \in Nat /\ mint[r] # 0 /\ Mints[mint[r]] \in [token : Tokens, block : Blocks]
  BY <1>1, <1>2
<1>4. Token(r) \in Tokens /\ Mints[mint[r]].block \in Blocks
  BY <1>3 DEF Token
<1>5. Attributes[Token(r)] \in Nat
  BY <1>4
<1>6. Path(r) \in Paths
  BY <1>4 DEF Path, Paths, Token
<1> QED
  BY <1>1, <1>3, <1>4, <1>5, <1>6

LEMMA RecordsPut ==
  ASSUME TInv, NEW flag, NEW kind \in {"Contract", "Metadata", "Trait", "Media"},
         NEW r \in Runs, NEW k \in Nat,
         Put(flag, Record(kind, r, k)) \/ PutThrows(flag, Record(kind, r, k))
  PROVE  DataOK' /\ TokensOK'
<1>1. /\ RecordsOK({Record(kind, r, k)})
      /\ Record(kind, r, k).token \in Tokens /\ Record(kind, r, k).block \in Blocks
  BY MintIn DEF TInv, RecordsOK, Record, Token
<1>2. RecordsOK(stored') /\ RecordsOK(lost') /\ RecordsOK(failed')
  BY <1>1, PutFacts, ThrowFacts DEF TInv, DataOK, RecordsOK
<1>3. stored' \cap lost' = {}
  BY ThrowFacts DEF Put, data, TInv, DataOK
<1>4. TokensOK'
  BY <1>1, PutFacts, ThrowFacts DEF TInv, TokensOK
<1> QED
  BY <1>2, <1>3, <1>4 DEF DataOK

LEMMA ContractPut ==
  ASSUME TInv, \/ Put("TokenContracts", KnownContract)
               \/ PutThrows("TokenContracts", KnownContract)
  PROVE  DataOK' /\ TokensOK'
<1>1. RecordsOK({KnownContract}) /\ KnownContract.kind = "Contract"
  BY DEF RecordsOK, KnownContract
<1>2. RecordsOK(stored') /\ RecordsOK(lost') /\ RecordsOK(failed')
  BY <1>1, PutFacts, ThrowFacts DEF TInv, DataOK, RecordsOK
<1>3. stored' \cap lost' = {}
  BY ThrowFacts DEF Put, data, TInv, DataOK
<1>4. TokensOK'
  BY <1>1, PutFacts, ThrowFacts DEF TInv, TokensOK
<1> QED
  BY <1>2, <1>3, <1>4 DEF DataOK

\* The run is at the next mint, or at its end.
LEMMA NextMintFacts ==
  ASSUME TInv, NEW r \in Runs, NextMint(r)
  PROVE  /\ at' \in [Runs -> States] /\ mint' \in [Runs -> DOMAIN Mints]
         /\ \A s \in Runs \ {r} : at'[s] = at[s] /\ mint'[s] = mint[s]
         /\ \/ at'[r] = "begin" /\ mint'[r] = mint[r] + 1
            \/ at'[r] = "ended" /\ mint'[r] = mint[r]
<1>1. mint[r] \in 1..Len(Mints) /\ last[r] \in 0..Len(Mints) /\ Len(Mints) \in Nat
  BY DEF TInv, RunsOK
<1>2. CASE mint[r] < last[r] /\ mint' = [mint EXCEPT ![r] = @ + 1] /\ Goto(r, "begin")
  <2>1. mint[r] + 1 \in DOMAIN Mints
    BY <1>1, <1>2
  <2> QED
    BY <1>2, <2>1 DEF TInv, RunsOK, Goto, States
<1>3. CASE mint[r] = last[r] /\ Goto(r, "ended") /\ UNCHANGED mint
  BY <1>3 DEF TInv, RunsOK, Goto, States
<1> QED
  BY <1>2, <1>3 DEF NextMint

LEMMA RunsNextMint ==
  ASSUME TInv, NEW r \in Runs, NextMint(r), UNCHANGED <<known, settled, last, trait>>,
         image' \in [Runs -> 0..Images]
  PROVE  RunsOK'
<1>1. \A s \in Runs : at'[s] = "traits" => s # r
  BY NextMintFacts
<1> QED
  BY <1>1, NextMintFacts DEF TInv, RunsOK, Token

LEMMA RunsGoto ==
  ASSUME TInv, NEW r \in Runs, NEW where \in States \ {"traits"}, Goto(r, where),
         UNCHANGED <<known, settled, mint, last, trait>>, image' \in [Runs -> 0..Images]
  PROVE  RunsOK'
  BY DEF TInv, RunsOK, Goto, States, Token

LEMMA DiskClose ==
  ASSUME TInv, NEW r \in Runs, NEW content \in {"part", "whole"}, Close(r, content)
  PROVE  DiskOK'
<1>1. Path(r) \in Paths
  BY MintIn DEF TInv
<1>2. PICK c \in {"part", "mixed", "whole"} :
        files' = [files EXCEPT ![Path(r)] = c] \/ UNCHANGED disk
  BY DEF Close, Leaves
<1> QED
  BY <1>1, <1>2 DEF TInv, DiskOK, Close, disk

-----------------------------------------------------------------------------
(* Types *)

LEMMA TInvInit == Init => TInv
<1> SUFFICES ASSUME Init PROVE TInv
  OBVIOUS
<1> USE DEF Init
<1>1. PICK p \in Plans : /\ mint = [r \in Runs |-> p[r][1]]
                         /\ last = [r \in Runs |-> p[r][2]]
  OBVIOUS
<1>2. p \in [Runs -> (DOMAIN Mints) \X Nat] /\ \A r \in Runs : p[r][2] \in 0..Len(Mints)
  BY MintsFacts
<1>3. mint \in [Runs -> DOMAIN Mints] /\ last \in [Runs -> 0..Len(Mints)]
  BY <1>1, <1>2
<1>4. RunsOK
  BY <1>3 DEF RunsOK, States
<1>5. DataOK /\ DiskOK /\ TokensOK
  BY DEF DataOK, RecordsOK, DiskOK, TokensOK
<1>6. Blocks # {}
  <2>1. 1 \in DOMAIN Mints
    <3>1. Len(Mints) # 0
      OBVIOUS
    <3> QED
      BY <3>1, MintsFacts
  <2> QED
    BY <2>1, MintsFacts
<1>7. PagesOK /\ AtHandInv
  BY <1>6 DEF PagesOK, AtHandInv
<1> QED
  BY <1>4, <1>5, <1>7 DEF TInv

\* The pages of a request stay as they are when more records are stored.
LEMMA PagesKept ==
  ASSUME TInv, UNCHANGED pages, stored \subseteq stored'
  PROVE  PagesOK' /\ AtHandInv'
<1>1. seen' \in [Requests -> SUBSET stored']
  BY DEF TInv, PagesOK, pages
<1> QED
  BY <1>1 DEF TInv, PagesOK, AtHandInv, pages

LEMMA DataKept ==
  ASSUME TInv, UNCHANGED data
  PROVE  DataOK' /\ TokensOK' /\ stored \subseteq stored'
  BY DEF TInv, DataOK, TokensOK, RecordsOK, data

LEMMA DiskKept ==
  ASSUME TInv, UNCHANGED disk
  PROVE  DiskOK'
  BY DEF TInv, DiskOK, disk

LEMMA RunTypes ==
  ASSUME TInv, NEW r \in Runs, Start(r) \/ GoOn(r) \/ Die(r)
  PROVE  TInv'
<1> USE DEF runVars
<1>i. image \in [Runs -> 0..Images]
  BY DEF TInv, RunsOK
<1>0. CASE Start(r)
  <2> USE <1>0 DEF Start
  <2>1. RunsOK'
    BY <1>i, RunsGoto DEF States
  <2> QED
    BY <2>1, PagesKept, DataKept, DiskKept DEF TInv
<1>1. CASE Abort(r)
  <2> USE <1>1 DEF Abort
  <2>1. RunsOK'
    BY <1>i, RunsGoto DEF States
  <2>2. DataOK' /\ TokensOK' /\ stored \subseteq stored'
    BY ContractPut, ThrowFacts, DataKept
  <2> QED
    BY <2>1, <2>2, PagesKept, DiskKept DEF TInv
<1>2. CASE SkipKnown(r)
  <2> USE <1>2 DEF SkipKnown
  <2>1. RunsOK'
    BY <1>i, RunsNextMint
  <2> QED
    BY <2>1, PagesKept, ContractPut, PutFacts, DiskKept DEF TInv
<1>3. CASE SkipUnsupported(r)
  <2> USE <1>3 DEF SkipUnsupported
  <2>1. RunsOK'
    BY <1>i, RunsNextMint
  <2> QED
    BY <2>1, PagesKept, DataKept, DiskKept DEF TInv
<1>4. CASE SaveContract(r)
  <2> USE <1>4 DEF SaveContract
  <2>1. RunsOK'
    BY <1>i, RunsGoto DEF States
  <2>2. DataOK' /\ TokensOK' /\ stored \subseteq stored'
    BY RecordsPut, PutFacts, ThrowFacts
  <2> QED
    BY <2>1, <2>2, PagesKept, DiskKept DEF TInv
<1>5. CASE NoMetadata(r)
  <2> USE <1>5 DEF NoMetadata
  <2>1. RunsOK'
    BY <1>i, RunsNextMint
  <2> QED
    BY <2>1, PagesKept, DataKept, DiskKept DEF TInv
<1>6. CASE SaveMetadata(r)
  <2> USE <1>6 DEF SaveMetadata
  <2>1. Attributes[Token(r)] \in Nat
    BY MintIn DEF TInv
  <2>2. RunsOK'
    BY <2>1 DEF TInv, RunsOK, Goto, States, Token
  <2>3. DataOK' /\ TokensOK' /\ stored \subseteq stored'
    BY RecordsPut, PutFacts
  <2> QED
    BY <2>2, <2>3, PagesKept, DiskKept DEF TInv
<1>7. CASE SaveTrait(r)
  <2> USE <1>7 DEF SaveTrait
  <2>1. Attributes[Token(r)] \in Nat /\ trait[r] \in Nat
    BY MintIn DEF TInv, RunsOK
  <2>2. RunsOK'
    BY <2>1 DEF TInv, RunsOK, MoreTraits, Token
  <2>3. DataOK' /\ TokensOK' /\ stored \subseteq stored'
    <3>1. PICK k \in Nat : k = trait[r] + 1
      BY <2>1
    <3>2. Put("TokenMetadataAttributes", Record("Trait", r, k))
      BY <3>1
    <3> QED
      BY <3>2, RecordsPut, PutFacts
  <2> QED
    BY <2>2, <2>3, PagesKept, DiskKept DEF TInv
<1>8. CASE NoImage(r)
  <2> USE <1>8 DEF NoImage
  <2>1. RunsOK'
    BY <1>i, RunsNextMint
  <2> QED
    BY <2>1, PagesKept, DataKept, DiskKept DEF TInv
<1>9. CASE SaveMedia(r)
  <2> USE <1>9 DEF SaveMedia
  <2>1. image[r] + 1 \in 0..Images /\ image[r] + 1 \in Nat
    BY <1>i
  <2>2. image' \in [Runs -> 0..Images]
    BY <1>i, <2>1
  <2>3. RunsOK'
    <3>1. PICK next \in {"delete", "image"} : Goto(r, next)
      OBVIOUS
    <3> QED
      BY <2>2, <3>1, RunsGoto DEF States
  <2>4. DataOK' /\ TokensOK' /\ stored \subseteq stored'
    <3>1. PICK k \in Nat : k = image[r] + 1
      BY <2>1
    <3>2. Put("TokenMedia", Record("Media", r, k))
      BY <3>1
    <3> QED
      BY <3>2, RecordsPut, PutFacts
  <2> QED
    BY <2>3, <2>4, PagesKept, DiskKept DEF TInv
<1>10. CASE DeleteFile(r)
  <2> USE <1>10 DEF DeleteFile
  <2>1. RunsOK'
    BY <1>i, RunsGoto DEF States
  <2>2. DiskOK'
    BY DEF TInv, DiskOK
  <2> QED
    BY <2>1, <2>2, PagesKept, DataKept DEF TInv
<1>11. CASE OpenFile(r)
  <2> USE <1>11 DEF OpenFile
  <2>1. RunsOK'
    BY <1>i, RunsGoto DEF States
  <2>2. DiskOK'
    BY MintIn DEF TInv, DiskOK
  <2> QED
    BY <2>1, <2>2, PagesKept, DataKept DEF TInv
<1>12. CASE OpenFails(r)
  <2> USE <1>12 DEF OpenFails
  <2>1. RunsOK'
    BY <1>i, RunsNextMint
  <2> QED
    BY <2>1, PagesKept, DataKept, DiskKept DEF TInv
<1>13. CASE Copied(r)
  <2> USE <1>13 DEF Copied
  <2>1. RunsOK'
    BY <1>i, RunsGoto DEF States
  <2> QED
    BY <2>1, DiskClose, PagesKept, DataKept DEF TInv
<1>14. CASE CopyFails(r)
  <2> USE <1>14 DEF CopyFails
  <2>1. RunsOK'
    BY <1>i, RunsNextMint
  <2> QED
    BY <2>1, DiskClose, PagesKept, DataKept DEF TInv
<1>15. CASE Die(r)
  <2> USE <1>15 DEF Die
  <2>1. RunsOK'
    BY <1>i, RunsGoto DEF States
  <2>2. DiskOK'
    BY DiskClose, DiskKept
  <2> QED
    BY <2>1, <2>2, PagesKept, DataKept DEF TInv
<1>16. CASE SaveThrows(r)
  <2> USE <1>16 DEF SaveThrows
  <2>1. RunsOK'
    BY <1>i, RunsNextMint
  <2>2. PICK flag \in Scope, kind \in {"Metadata", "Trait", "Media"}, k \in Nat :
          PutThrows(flag, Record(kind, r, k))
    <3>1. trait[r] + 1 \in Nat /\ image[r] + 1 \in Nat
      BY <1>i DEF TInv, RunsOK
    <3>2. \/ PutThrows("TokenMetadata", Record("Metadata", r, 0))
          \/ PutThrows("TokenMetadataAttributes", Record("Trait", r, trait[r] + 1))
          \/ PutThrows("TokenMedia", Record("Media", r, image[r] + 1))
      OBVIOUS
    <3>3. \A flag, x : PutThrows(flag, x) => flag \in Scope
      BY DEF PutThrows
    <3> QED
      BY <3>1, <3>2, <3>3
  <2>3. DataOK' /\ TokensOK' /\ stored \subseteq stored'
    BY <2>2, RecordsPut, ThrowFacts
  <2> QED
    BY <2>1, <2>3, PagesKept, DiskKept DEF TInv
<1> QED
  BY <1>0, <1>1, <1>2, <1>3, <1>4, <1>5, <1>6, <1>7, <1>8, <1>9, <1>10, <1>11, <1>12,
     <1>13, <1>14, <1>15, <1>16 DEF GoOn

\* The token at hand is one of those to show.
LEMMA CurIn ==
  ASSUME TInv, NEW q \in Requests, todo[q] # {}
  PROVE  Cur(q) \in todo[q] /\ Cur(q) \in Tokens
<1>1. todo[q] \in SUBSET Tokens /\ todo[q] \in SUBSET Nat
  BY DEF TInv, PagesOK
<1> QED
  BY <1>1, MinIn DEF Cur

\* What a request finds of a kind is stored, and of that kind.
LEMMA FoundOf ==
  ASSUME NEW kind, NEW t
  PROVE  /\ Found(kind, t) \in SUBSET stored
         /\ \A x \in Found(kind, t) : x.kind = kind /\ x.token = t
  BY DEF Found, Of

LEMMA ListedTokens == TInv => Listed \in SUBSET Tokens
  BY DEF TInv, TokensOK, Listed

LEMMA PageTypes ==
  ASSUME TInv, NEW q \in Requests,
         PageStep(q)
  PROVE  TInv'
<1> SUFFICES RunsOK' /\ DataOK' /\ DiskOK' /\ TokensOK' /\ PagesOK' /\ AtHandInv'
  BY DEF TInv
<1>1. UNCHANGED <<known, settled, runVars, data, disk>>
  BY DEF PageStep, KeysThrow, Cancel, AskCollection, AskItem, Begin, Respond, ReadTraits,
         ReadMetadata, CheckFile, ReadFile, Answer
<1>2. RunsOK'
  BY <1>1 DEF TInv, RunsOK, runVars, Token
<1>3. DataOK' /\ DiskOK' /\ TokensOK' /\ stored' = stored
  BY <1>1, DataKept, DiskKept DEF data
<1>4. PagesOK' /\ AtHandInv'
  <2> USE <1>3 DEF TInv, PagesOK, AtHandInv
  <2>1. ASSUME NEW one \in BOOLEAN, NEW ts \in SUBSET Tokens, Begin(q, one, ts)
        PROVE  PagesOK' /\ AtHandInv'
    BY <2>1 DEF Begin
  <2>2. CASE AskCollection(q)
    BY <2>1, <2>2, ListedTokens DEF AskCollection
  <2>3. ASSUME NEW t \in Tokens, AskItem(q, t)
        PROVE  PagesOK' /\ AtHandInv'
    BY <2>1, <2>3 DEF AskItem
  <2>4. CASE ReadTraits(q)
    BY <2>4, FoundOf DEF ReadTraits, Stop
  <2>10. ASSUME NEW how \in {"done", "threw", "cancelled"}, Finish(q, how),
                UNCHANGED <<direct, block, spoilt>>
         PROVE  PagesOK' /\ AtHandInv'
    BY <2>10 DEF Finish, Stop
  <2>5. CASE ReadMetadata(q)
    <3>1. \A x \in seen[q] : x.block \in Blocks
      BY DEF TokensOK
    <3> DEFINE Shows == IsSingle(Found("Metadata", Cur(q))) /\ seen[q] # {}
    <3>2. CASE ~Shows
      <4>1. Finish(q, "threw") /\ UNCHANGED <<direct, block, spoilt>>
        BY <2>5, <3>2 DEF ReadMetadata
      <4> QED
        BY <2>10, <4>1
    <3>3. CASE Shows
      <4>1. PICK x \in seen[q] : block' = [block EXCEPT ![q] = x.block]
        BY <2>5, <3>3 DEF ReadMetadata
      <4>2. /\ pc[q] = "metadata" /\ pc' = [pc EXCEPT ![q] = "exists"]
            /\ UNCHANGED <<direct, todo, seen, shown, spoilt>>
        BY <2>5, <3>3 DEF ReadMetadata, Stop
      <4> QED
        BY <3>1, <4>1, <4>2
    <3> QED
      BY <3>2, <3>3
  <2>6. ASSUME NEW media \in {"none", "part", "mixed", "whole"}, Show(q, media),
               UNCHANGED <<direct, block, spoilt>>
        PROVE  PagesOK' /\ AtHandInv'
    <3>1. todo' \in [Requests -> SUBSET Tokens] /\ seen' \in [Requests -> SUBSET stored']
      BY <2>6 DEF Show
    <3>2. \A p \in Requests : \A i \in shown'[p] : i.media \in {"none", "part", "mixed", "whole"}
      <4> DEFINE item == [token |-> Cur(q), block |-> block[q], traits |-> seen[q],
                          media |-> media]
      <4>1. item.media = media
        OBVIOUS
      <4>2. \A p \in Requests : shown'[p] \subseteq shown[p] \cup {item}
        BY <2>6 DEF Show
      <4> HIDE DEF item
      <4> QED
        BY <4>1, <4>2
    <3> QED
      BY <2>6, <3>1, <3>2 DEF Show, Stop
  <2>7. CASE CheckFile(q)
    BY <2>6, <2>7 DEF CheckFile, Stop
  <2>8. CASE ReadFile(q)
    <3>1. Media(q) \in Paths
      BY <2>8, CurIn DEF ReadFile, Media, Paths
    <3>2. files[Media(q)] \in {"none", "part", "mixed", "whole"}
      BY <3>1 DEF DiskOK
    <3> QED
      BY <2>6, <2>8, <2>10, <3>2 DEF ReadFile
  <2>9. CASE Answer(q)
    BY <2>9, <2>10 DEF Answer
  <2>11. CASE KeysThrow(q) \/ Cancel(q)
    BY <2>11, <2>10 DEF KeysThrow, Cancel
  <2> QED
    BY <2>2, <2>3, <2>4, <2>5, <2>7, <2>8, <2>9, <2>11 DEF PageStep, Respond
<1> QED
  BY <1>2, <1>3, <1>4

LEMMA TInvNext == TInv /\ [Next]_vars => TInv'
<1> SUFFICES ASSUME TInv, [Next]_vars PROVE TInv'
  OBVIOUS
<1>1. CASE UNCHANGED vars
  <2>1. RunsOK'
    BY <1>1 DEF vars, TInv, RunsOK, Token
  <2> QED
    BY <1>1, <2>1, DataKept, DiskKept, PagesKept DEF vars, TInv, data, disk, pages
<1>2. CASE Settle
  <2>1. RunsOK'
    BY <1>2 DEF Settle, TInv, RunsOK, runVars, Token
  <2> QED
    BY <1>2, <2>1, DataKept, DiskKept, PagesKept DEF Settle, TInv
<1> QED
  BY <1>1, <1>2, RunTypes, PageTypes DEF Next, PageStep

-----------------------------------------------------------------------------
(* What a run has put *)

Early == {"idle", "begin", "uri"}

\* A run that is through with the traits of its token.
Complete(r) == at[r] \in Past \/ (at[r] = "traits" /\ ~MoreTraits(r))

\* Or one that leaves them at a trait that has thrown.
Through(r) ==
  Complete(r) \/ (at[r] = "traits" /\ TraitOf(r, mint[r], trait[r] + 1) \in failed')

\* No metadata and no trait is stored in the step.
Inert ==
  /\ stored \subseteq stored' /\ Recorded \subseteq Recorded' /\ failed \subseteq failed'
  /\ \A x \in stored' \ stored : x.kind \notin {"Metadata", "Trait"}

MetaFor(x) == [x EXCEPT !.kind = "Metadata", !.k = 0]

TraitFor(x, n) == [x EXCEPT !.kind = "Trait", !.k = n]

LEMMA ListedIs ==
  ListedHasMetadata <=>
    ("TokenMetadata" \in Scope =>
       \A x \in stored : x.kind = "Trait" => MetaFor(x) \in Recorded)
  BY DEF ListedHasMetadata, MetaFor, Recorded

LEMMA WholeIs ==
  PastTokensWhole <=>
    ("TokenMetadataAttributes" \in Scope =>
      \A r \in Runs : \A x \in stored :
        (x.kind = "Metadata" /\ x.run = r /\ (x.mint < mint[r] \/ at[r] = "ended")) =>
          \A n \in 1..Attributes[x.token] :
            TraitFor(x, n) \in Recorded \/ \E m \in 1..n : TraitFor(x, m) \in failed)
  BY DEF PastTokensWhole, TraitFor, Recorded

Fields == {"kind", "token", "block", "run", "mint", "k"}

\* A trait of the token whose metadata is x.
LEMMA MetaToTrait ==
  ASSUME NEW r, NEW m, NEW n, NEW x, x = Meta(r, m)
  PROVE  TraitFor(x, n) = TraitOf(r, m, n)
<1> DEFINE g == [[x EXCEPT !.kind = "Trait"] EXCEPT !.k = n]
<1>1. /\ x = [i \in Fields |-> x[i]] /\ x.token = Mints[m].token
      /\ x.block = Mints[m].block /\ x.run = r /\ x.mint = m
  BY DEF Meta, RecordOf, Fields
<1>2. /\ g = [i \in Fields |-> g[i]] /\ g.kind = "Trait" /\ g.token = Mints[m].token
      /\ g.block = Mints[m].block /\ g.run = r /\ g.mint = m /\ g.k = n
  BY <1>1 DEF Fields
<1> HIDE DEF g
<1>3. TraitOf(r, m, n) = [i \in Fields |-> g[i]]
  BY <1>2 DEF TraitOf, RecordOf, Fields
<1>4. g = TraitOf(r, m, n)
  BY <1>2, <1>3
<1> QED
  BY <1>4 DEF g, TraitFor

\* The metadata of the token whose trait is x.
LEMMA TraitToMeta ==
  ASSUME NEW r, NEW m, NEW n, NEW x, x = TraitOf(r, m, n)
  PROVE  MetaFor(x) = Meta(r, m)
<1> DEFINE g == [[x EXCEPT !.kind = "Metadata"] EXCEPT !.k = 0]
<1>1. /\ x = [i \in Fields |-> x[i]] /\ x.token = Mints[m].token
      /\ x.block = Mints[m].block /\ x.run = r /\ x.mint = m
  BY DEF TraitOf, RecordOf, Fields
<1>2. /\ g = [i \in Fields |-> g[i]] /\ g.kind = "Metadata" /\ g.token = Mints[m].token
      /\ g.block = Mints[m].block /\ g.run = r /\ g.mint = m /\ g.k = 0
  BY <1>1 DEF Fields
<1> HIDE DEF g
<1>3. Meta(r, m) = [i \in Fields |-> g[i]]
  BY <1>2 DEF Meta, RecordOf, Fields
<1>4. g = Meta(r, m)
  BY <1>2, <1>3
<1> QED
  BY <1>4 DEF g, MetaFor

LEMMA RecordIs ==
  ASSUME NEW r, NEW k
  PROVE  /\ Record("Metadata", r, 0) = Meta(r, mint[r])
         /\ Record("Trait", r, k) = TraitOf(r, mint[r], k)
         /\ Record("Media", r, k).kind = "Media" /\ Record("Contract", r, k).kind = "Contract"
  BY DEF Record, Meta, TraitOf, RecordOf, Token

LEMMA MetaFields ==
  ASSUME NEW r, NEW m
  PROVE  /\ Meta(r, m).kind = "Metadata" /\ Meta(r, m).run = r /\ Meta(r, m).mint = m
         /\ Meta(r, m).token = Mints[m].token
  BY DEF Meta, RecordOf

LEMMA TraitFields ==
  ASSUME NEW r, NEW m, NEW n
  PROVE  /\ TraitOf(r, m, n).kind = "Trait" /\ TraitOf(r, m, n).run = r
         /\ TraitOf(r, m, n).mint = m /\ TraitOf(r, m, n).k = n
  BY DEF TraitOf, RecordOf

\* Through with its token, a run has put all the traits, up to one that threw.
LEMMA WholeTraits ==
  ASSUME TInv, PInv, NEW r \in Runs, Through(r), "TokenMetadataAttributes" \in Scope,
         NEW n \in 1..Attributes[Token(r)]
  PROVE  \/ TraitOf(r, mint[r], n) \in Recorded
         \/ ~Complete(r) /\ \E m \in 1..n : TraitOf(r, mint[r], m) \in failed'
<1>1. Attributes[Token(r)] \in Nat /\ trait[r] \in Nat
  BY MintIn DEF TInv, RunsOK
<1>2. n \in Nat \ {0} /\ n <= Attributes[Token(r)]
  BY <1>1
<1>3. CASE at[r] \in Past
  BY <1>2, <1>3 DEF PInv, TraitsPut
<1>4. CASE at[r] = "traits" /\ n <= trait[r]
  BY <1>2, <1>4 DEF PInv, TraitsPut
<1>5. CASE at[r] = "traits" /\ ~(n <= trait[r])
  <2>1. MoreTraits(r)
    BY <1>1, <1>2, <1>5 DEF MoreTraits
  <2>2. ~Complete(r)
    BY <1>5, <2>1 DEF Complete, Past
  <2>3. TraitOf(r, mint[r], trait[r] + 1) \in failed'
    BY <2>2 DEF Through
  <2>4. trait[r] + 1 \in 1..n
    BY <1>1, <1>2, <1>5
  <2> QED
    BY <2>2, <2>3, <2>4
<1> QED
  BY <1>3, <1>4, <1>5 DEF Through, Complete

\* A run goes where it may, and stores neither metadata nor a trait.
LEMMA RunMoves ==
  ASSUME TInv, PInv, Inert, RunsOK', NEW r \in Runs,
         \A s \in Runs \ {r} : at'[s] = at[s] /\ mint'[s] = mint[s],
         UNCHANGED trait,
         \/ /\ mint'[r] = mint[r] /\ at'[r] # "traits"
            /\ at'[r] \in Past => Complete(r)
            /\ at'[r] \in Early => at[r] \in Early
            /\ at'[r] = "ended" => at[r] \in Early \/ Through(r)
         \/ /\ mint'[r] = mint[r] + 1 /\ at'[r] = "begin"
            /\ at[r] \in Early \/ Through(r)
  PROVE  PInv'
<1>1. \A s \in Runs : mint[s] \in Nat /\ mint'[s] \in Nat
  <2>1. \A s \in Runs : mint[s] \in 1..Len(Mints) /\ mint'[s] \in 1..Len(Mints)
    BY MintsFacts DEF TInv, RunsOK
  <2> QED
    BY <2>1, MintsFacts
<1>2. \A x \in stored' : x.kind \in {"Metadata", "Trait"} => x \in stored
  BY DEF Inert
<1>3. MetaInv'
  <2> SUFFICES ASSUME NEW x \in stored, x.kind = "Metadata"
               PROVE  /\ x.run \in Runs /\ x.mint \in Nat /\ x = Meta(x.run, x.mint)
                      /\ x.mint <= mint'[x.run]
                      /\ at'[x.run] \in Early => x.mint < mint'[x.run]
    BY <1>2 DEF MetaInv, Early, Meta, RecordOf
  <2>1. /\ x.run \in Runs /\ x.mint \in Nat /\ x = Meta(x.run, x.mint)
        /\ x.mint <= mint[x.run]
        /\ at[x.run] \in Early => x.mint < mint[x.run]
    BY DEF PInv, MetaInv, Early
  <2>2. CASE x.run # r
    BY <2>1, <2>2
  <2>3. CASE x.run = r
    BY <1>1, <2>1, <2>3
  <2> QED
    BY <2>1, <2>2, <2>3
<1>4. TraitInv'
  BY <1>2 DEF PInv, TraitInv, TraitOf, RecordOf
<1>5. MetadataPut'
  <2> SUFFICES ASSUME "TokenMetadata" \in Scope, NEW s \in Runs,
                      at'[s] \in {"traits"} \cup Past
               PROVE  Meta(s, mint'[s]) \in Recorded'
    BY DEF MetadataPut, Meta, RecordOf
  <2>1. at[s] \in {"traits"} \cup Past /\ mint'[s] = mint[s]
    BY DEF Complete, Past
  <2>2. Meta(s, mint[s]) \in Recorded
    BY <2>1 DEF PInv, MetadataPut
  <2> QED
    BY <2>1, <2>2 DEF Inert
<1>6. TraitsPut'
  <2> SUFFICES ASSUME "TokenMetadataAttributes" \in Scope, NEW s \in Runs,
                      NEW n \in Nat \ {0},
                      \/ at'[s] = "traits" /\ n <= trait'[s]
                      \/ at'[s] \in Past /\ n <= Attributes[Mints[mint'[s]].token]
               PROVE  TraitOf(s, mint'[s], n) \in Recorded'
    BY DEF TraitsPut, TraitOf, RecordOf, Token
  <2>1. CASE s # r
    <3>1. TraitOf(s, mint[s], n) \in Recorded
      BY <2>1 DEF PInv, TraitsPut, Token
    <3> QED
      BY <2>1, <3>1 DEF Inert
  <2>2. CASE s = r
    <3>1. Complete(r) /\ mint'[r] = mint[r] /\ n <= Attributes[Token(r)]
      BY <2>2 DEF Past, Token
    <3>2. n \in 1..Attributes[Token(r)]
      BY <3>1, MintIn DEF TInv
    <3> QED
      BY <2>2, <3>1, <3>2, WholeTraits DEF Inert, Through
  <2> QED
    BY <2>1, <2>2
<1>7. ListedHasMetadata'
  <2> SUFFICES ASSUME "TokenMetadata" \in Scope, NEW x \in stored, x.kind = "Trait"
               PROVE  MetaFor(x) \in Recorded'
    BY <1>2 DEF ListedHasMetadata, MetaFor, Recorded
  <2>1. MetaFor(x) \in Recorded
    BY ListedIs DEF PInv
  <2> QED
    BY <2>1 DEF Inert
<1>8. PastTokensWhole'
  <2> SUFFICES ASSUME "TokenMetadataAttributes" \in Scope, NEW s \in Runs,
                      NEW x \in stored, x.kind = "Metadata", x.run = s,
                      x.mint < mint'[s] \/ at'[s] = "ended",
                      NEW n \in 1..Attributes[x.token]
               PROVE  \/ TraitFor(x, n) \in Recorded'
                      \/ \E m \in 1..n : TraitFor(x, m) \in failed'
    BY <1>2 DEF PastTokensWhole, TraitFor, Recorded
  <2>1. /\ x.mint \in Nat /\ x = Meta(x.run, x.mint) /\ x.mint <= mint[s]
        /\ at[s] \in Early => x.mint < mint[s]
    BY DEF PInv, MetaInv, Early
  <2>2. CASE x.mint < mint[s] \/ s # r
    <3>1. TraitFor(x, n) \in Recorded \/ \E m \in 1..n : TraitFor(x, m) \in failed
      BY <2>2, WholeIs DEF PInv
    <3> QED
      BY <3>1 DEF Inert
  <2>4. CASE s = r /\ x.mint = mint[s]
    <3>1. at[r] \notin Early
      BY <1>1, <2>1, <2>4
    <3>2. Through(r)
      BY <1>1, <2>4, <3>1
    <3>3. x = Meta(r, mint[r]) /\ x.token = Token(r)
      <4>1. x = Meta(r, mint[r])
        BY <2>1, <2>4
      <4> QED
        BY <4>1, MetaFields DEF Token
    <3>4. \/ TraitOf(r, mint[r], n) \in Recorded
          \/ \E m \in 1..n : TraitOf(r, mint[r], m) \in failed'
      BY <3>2, <3>3, WholeTraits
    <3>5. \A m : TraitFor(x, m) = TraitOf(r, mint[r], m)
      BY <3>3, MetaToTrait
    <3> QED
      BY <3>4, <3>5 DEF Inert
  <2> QED
    BY <1>1, <2>1, <2>2, <2>4
<1> QED
  BY <1>3, <1>4, <1>5, <1>6, <1>7, <1>8 DEF PInv

\* The metadata is put: nothing of its token has been.
LEMMA MetadataSaved ==
  ASSUME TInv, PInv, NEW r \in Runs, SaveMetadata(r)
  PROVE  PInv'
<1> USE DEF SaveMetadata, Goto
<1>1. PICK y : y = Meta(r, mint[r]) /\ Put("TokenMetadata", y)
  BY RecordIs
<1>2. /\ stored \subseteq stored' /\ stored' \subseteq stored \cup {y}
      /\ Recorded \subseteq Recorded' /\ failed' = failed
      /\ "TokenMetadata" \in Scope => y \in Recorded'
  BY <1>1, PutFacts
<1>3. y.kind = "Metadata" /\ y.run = r /\ y.mint = mint[r] /\ mint[r] \in Nat
  BY <1>1, MetaFields, MintIn DEF TInv
<1>4. /\ \A s \in Runs \ {r} : at'[s] = at[s] /\ trait'[s] = trait[s]
      /\ at'[r] = "traits" /\ trait'[r] = 0 /\ mint' = mint
  BY DEF TInv, RunsOK
<1>5. MetaInv'
  <2> SUFFICES ASSUME NEW x \in stored', x.kind = "Metadata"
               PROVE  /\ x.run \in Runs /\ x.mint \in Nat /\ x = Meta(x.run, x.mint)
                      /\ x.mint <= mint[x.run]
                      /\ at'[x.run] \in Early => x.mint < mint[x.run]
    BY <1>4 DEF MetaInv, Early, Meta, RecordOf
  <2>1. CASE x \in stored
    BY <1>4, <2>1 DEF PInv, MetaInv, Early
  <2>2. CASE x = y
    BY <1>1, <1>3, <1>4, <2>2 DEF Early
  <2> QED
    BY <1>2, <2>1, <2>2
<1>6. TraitInv'
  BY <1>2, <1>3 DEF PInv, TraitInv, TraitOf, RecordOf
<1>7. MetadataPut'
  <2> SUFFICES ASSUME "TokenMetadata" \in Scope, NEW s \in Runs,
                      at'[s] \in {"traits"} \cup Past
               PROVE  Meta(s, mint[s]) \in Recorded'
    BY <1>4 DEF MetadataPut, Meta, RecordOf
  <2>1. CASE s = r
    BY <1>1, <1>2, <2>1
  <2>2. CASE s # r
    BY <1>2, <1>4, <2>2 DEF PInv, MetadataPut
  <2> QED
    BY <2>1, <2>2
<1>8. TraitsPut'
  <2> SUFFICES ASSUME "TokenMetadataAttributes" \in Scope, NEW s \in Runs,
                      NEW n \in Nat \ {0},
                      \/ at'[s] = "traits" /\ n <= trait'[s]
                      \/ at'[s] \in Past /\ n <= Attributes[Token(s)]
               PROVE  TraitOf(s, mint[s], n) \in Recorded'
    BY <1>4 DEF TraitsPut, TraitOf, RecordOf, Token
  <2>1. s # r
    BY <1>4 DEF Past
  <2> QED
    BY <1>2, <1>4, <2>1 DEF PInv, TraitsPut
<1>9. ListedHasMetadata'
  <2> SUFFICES ASSUME "TokenMetadata" \in Scope, NEW x \in stored', x.kind = "Trait"
               PROVE  MetaFor(x) \in Recorded'
    BY DEF ListedHasMetadata, MetaFor, Recorded
  <2>1. x \in stored
    BY <1>2, <1>3
  <2> QED
    BY <1>2, <2>1, ListedIs DEF PInv
<1>10. PastTokensWhole'
  <2> SUFFICES ASSUME "TokenMetadataAttributes" \in Scope, NEW s \in Runs,
                      NEW x \in stored', x.kind = "Metadata", x.run = s,
                      x.mint < mint[s] \/ at'[s] = "ended",
                      NEW n \in 1..Attributes[x.token]
               PROVE  \/ TraitFor(x, n) \in Recorded'
                      \/ \E m \in 1..n : TraitFor(x, m) \in failed
    BY <1>2, <1>4 DEF PastTokensWhole, TraitFor, Recorded
  <2>1. x # y
    BY <1>3, <1>4
  <2>2. x \in stored /\ (x.mint < mint[s] \/ at[s] = "ended")
    BY <1>2, <1>4, <2>1
  <2>3. TraitFor(x, n) \in Recorded \/ \E m \in 1..n : TraitFor(x, m) \in failed
    BY <2>2, WholeIs DEF PInv
  <2> QED
    BY <1>2, <2>3
<1> QED
  BY <1>5, <1>6, <1>7, <1>8, <1>9, <1>10 DEF PInv

\* A trait is put: its token's metadata has been.
LEMMA TraitSaved ==
  ASSUME TInv, PInv, NEW r \in Runs, SaveTrait(r)
  PROVE  PInv'
<1> USE DEF SaveTrait
<1>0. PICK c \in Nat \ {0} : c = trait[r] + 1
  BY DEF TInv, RunsOK
<1>1. PICK y : y = TraitOf(r, mint[r], c) /\ Put("TokenMetadataAttributes", y)
  BY <1>0, RecordIs
<1>2. /\ stored \subseteq stored' /\ stored' \subseteq stored \cup {y}
      /\ Recorded \subseteq Recorded' /\ failed' = failed
      /\ "TokenMetadataAttributes" \in Scope => y \in Recorded'
  BY <1>1, PutFacts
<1>3. /\ y.kind = "Trait" /\ y.run = r /\ y.mint = mint[r] /\ y.k = c
      /\ mint[r] \in Nat
  BY <1>1, TraitFields, MintIn DEF TInv
<1>4. /\ at' = at /\ mint' = mint /\ at[r] = "traits"
      /\ \A s \in Runs \ {r} : trait'[s] = trait[s]
      /\ trait'[r] = c /\ trait[r] \in Nat
  BY <1>0 DEF TInv, RunsOK
<1>5. MetaInv'
  <2>1. \A x \in stored' : x.kind = "Metadata" => x \in stored
    BY <1>2, <1>3
  <2> QED
    BY <1>4, <2>1 DEF PInv, MetaInv, Meta, RecordOf
<1>6. TraitInv'
  <2> SUFFICES ASSUME NEW x \in stored', x.kind = "Trait"
               PROVE  /\ x.run \in Runs /\ x.mint \in Nat /\ x.k \in Nat
                      /\ x = TraitOf(x.run, x.mint, x.k)
    BY DEF TraitInv, TraitOf, RecordOf
  <2>1. CASE x \in stored
    BY <2>1 DEF PInv, TraitInv
  <2>2. CASE x = y
    BY <1>1, <1>3, <2>2
  <2> QED
    BY <1>2, <2>1, <2>2
<1>7. MetadataPut'
  BY <1>2, <1>4 DEF PInv, MetadataPut, Meta, RecordOf
<1>8. TraitsPut'
  <2> SUFFICES ASSUME "TokenMetadataAttributes" \in Scope, NEW s \in Runs,
                      NEW n \in Nat \ {0},
                      \/ at[s] = "traits" /\ n <= trait'[s]
                      \/ at[s] \in Past /\ n <= Attributes[Token(s)]
               PROVE  TraitOf(s, mint[s], n) \in Recorded'
    BY <1>4 DEF TraitsPut, TraitOf, RecordOf, Token
  <2>1. CASE s = r /\ n = c
    BY <1>1, <1>2, <2>1
  <2>2. CASE ~(s = r /\ n = c)
    <3>1. \/ at[s] = "traits" /\ n <= trait[s]
          \/ at[s] \in Past /\ n <= Attributes[Token(s)]
      BY <1>0, <1>4, <2>2 DEF Past
    <3> QED
      BY <1>2, <3>1 DEF PInv, TraitsPut
  <2> QED
    BY <2>1, <2>2
<1>9. ListedHasMetadata'
  <2> SUFFICES ASSUME "TokenMetadata" \in Scope, NEW x \in stored', x.kind = "Trait"
               PROVE  MetaFor(x) \in Recorded'
    BY DEF ListedHasMetadata, MetaFor, Recorded
  <2>1. CASE x \in stored
    BY <1>2, <2>1, ListedIs DEF PInv
  <2>2. CASE x = y
    <3>1. Meta(r, mint[r]) \in Recorded
      BY <1>4 DEF PInv, MetadataPut
    <3>2. MetaFor(x) = Meta(r, mint[r])
      BY <1>1, <2>2, TraitToMeta
    <3> QED
      BY <1>2, <3>1, <3>2
  <2> QED
    BY <1>2, <2>1, <2>2
<1>10. PastTokensWhole'
  <2> SUFFICES ASSUME "TokenMetadataAttributes" \in Scope, NEW s \in Runs,
                      NEW x \in stored', x.kind = "Metadata", x.run = s,
                      x.mint < mint[s] \/ at[s] = "ended",
                      NEW n \in 1..Attributes[x.token]
               PROVE  \/ TraitFor(x, n) \in Recorded'
                      \/ \E m \in 1..n : TraitFor(x, m) \in failed
    BY <1>2, <1>4 DEF PastTokensWhole, TraitFor, Recorded
  <2>1. x \in stored
    BY <1>2, <1>3
  <2>2. TraitFor(x, n) \in Recorded \/ \E m \in 1..n : TraitFor(x, m) \in failed
    BY <2>1, WholeIs DEF PInv
  <2> QED
    BY <1>2, <2>2
<1> QED
  BY <1>5, <1>6, <1>7, <1>8, <1>9, <1>10 DEF PInv

LEMMA InertData ==
  ASSUME UNCHANGED data
  PROVE  Inert
  BY DEF data, Inert, Recorded

LEMMA InertPut ==
  ASSUME NEW flag, NEW x, Put(flag, x), x.kind \notin {"Metadata", "Trait"}
  PROVE  Inert
  BY PutFacts DEF Inert

\* The run goes on with the next mint, or is at its end.
LEMMA MovesOn ==
  ASSUME TInv, PInv, Inert, RunsOK', NEW r \in Runs, NextMint(r), UNCHANGED trait,
         at[r] \in Early \/ Through(r)
  PROVE  PInv'
<1>1. /\ \A s \in Runs \ {r} : at'[s] = at[s] /\ mint'[s] = mint[s]
      /\ \/ at'[r] = "begin" /\ mint'[r] = mint[r] + 1
         \/ at'[r] = "ended" /\ mint'[r] = mint[r]
  BY NextMintFacts
<1>2. "ended" \notin Past /\ "ended" \notin Early
  BY DEF Past, Early
<1> QED
  BY <1>1, <1>2, RunMoves

\* It goes to another line of the same mint.
LEMMA Goes ==
  ASSUME TInv, PInv, Inert, RunsOK', NEW r \in Runs, NEW where, Goto(r, where),
         UNCHANGED <<mint, trait>>, where # "traits",
         where \in Past => Complete(r),
         where \in Early => at[r] \in Early,
         where = "ended" => at[r] \in Early \/ Complete(r)
  PROVE  PInv'
<1>1. /\ \A s \in Runs \ {r} : at'[s] = at[s] /\ mint'[s] = mint[s]
      /\ at'[r] = where /\ mint'[r] = mint[r]
  BY DEF TInv, RunsOK, Goto
<1>2. Complete(r) => Through(r)
  BY DEF Through
<1> QED
  BY <1>1, <1>2, RunMoves

\* A put throws: nothing is stored, and a trait that should have been is
\* remembered.
LEMMA ThrowMoves ==
  ASSUME TInv, PInv, RunsOK', NEW r \in Runs, SaveThrows(r)
  PROVE  PInv'
<1> USE DEF SaveThrows
<1>1. stored' = stored /\ lost' = lost /\ failed \subseteq failed'
  BY ThrowFacts
<1>2. Inert
  BY <1>1 DEF Inert, Recorded
<1>3. at[r] \in Early \/ Through(r)
  <2>1. CASE at[r] = "uri"
    BY <2>1 DEF Early
  <2>2. CASE /\ at[r] = "traits"
             /\ PutThrows("TokenMetadataAttributes", Record("Trait", r, trait[r] + 1))
    <3>1. Record("Trait", r, trait[r] + 1) \in failed'
      BY <2>2, ThrowFacts
    <3> QED
      BY <2>2, <3>1, RecordIs DEF Through
  <2>3. CASE ImagesNext(r)
    BY <2>3 DEF ImagesNext, Through, Complete, Past
  <2> QED
    BY <2>1, <2>2, <2>3
<1> QED
  BY <1>2, <1>3, MovesOn

LEMMA RunsPut ==
  ASSUME TInv, PInv, TInv', NEW r \in Runs, Start(r) \/ GoOn(r) \/ Die(r)
  PROVE  PInv'
<1> USE DEF Early, Past
<1>i. RunsOK'
  BY DEF TInv
<1>c. ImagesNext(r) => Complete(r) /\ Through(r)
  BY DEF ImagesNext, Complete, Through
<1>p. at[r] \in Past => Complete(r) /\ Through(r)
  BY DEF Complete, Through
<1>0. CASE Start(r)
  <2> USE <1>0 DEF Start
  <2>1. PICK w \in {"begin", "ended"} : Goto(r, w)
    OBVIOUS
  <2> QED
    BY <1>i, <2>1, InertData, Goes
<1>1. CASE Abort(r)
  <2> USE <1>1 DEF Abort
  <2>1. Inert
    BY ThrowFacts, InertData DEF Inert, Recorded
  <2> QED
    BY <1>i, <2>1, Goes
<1>2. CASE SkipKnown(r)
  <2> USE <1>2 DEF SkipKnown
  <2>1. Inert
    BY InertPut DEF KnownContract
  <2> QED
    BY <1>i, <2>1, MovesOn
<1>3. CASE SkipUnsupported(r)
  BY <1>3, <1>i, InertData, MovesOn DEF SkipUnsupported
<1>4. CASE SaveContract(r)
  <2> USE <1>4 DEF SaveContract
  <2>1. Inert
    BY InertPut, ThrowFacts, RecordIs DEF Inert, Recorded
  <2> QED
    BY <1>i, <2>1, Goes
<1>5. CASE NoMetadata(r)
  BY <1>5, <1>i, InertData, MovesOn DEF NoMetadata
<1>8. CASE NoImage(r)
  BY <1>8, <1>i, <1>c, InertData, MovesOn DEF NoImage
<1>9. CASE SaveMedia(r)
  <2> USE <1>9 DEF SaveMedia
  <2>1. Inert
    BY InertPut, RecordIs
  <2>2. PICK next \in {"delete", "image"} : Goto(r, next)
    OBVIOUS
  <2> QED
    BY <1>i, <1>c, <2>1, <2>2, Goes
<1>10. CASE DeleteFile(r)
  BY <1>10, <1>i, <1>p, InertData, Goes DEF DeleteFile
<1>11. CASE OpenFile(r)
  BY <1>11, <1>i, <1>p, InertData, Goes DEF OpenFile
<1>12. CASE OpenFails(r)
  BY <1>12, <1>i, <1>p, InertData, MovesOn DEF OpenFails
<1>13. CASE Copied(r)
  BY <1>13, <1>i, <1>p, InertData, Goes DEF Copied
<1>14. CASE CopyFails(r)
  BY <1>14, <1>i, <1>p, InertData, MovesOn DEF CopyFails
<1>15. CASE Die(r)
  BY <1>15, <1>i, InertData, Goes DEF Die
<1> QED
  BY <1>0, <1>1, <1>2, <1>3, <1>4, <1>5, MetadataSaved, TraitSaved, ThrowMoves, <1>i,
     <1>8, <1>9, <1>10,
     <1>11, <1>12, <1>13, <1>14, <1>15 DEF GoOn

LEMMA PagesPutNothing ==
  ASSUME PInv, UNCHANGED <<runVars, data>>
  PROVE  PInv'
<1>1. /\ at' = at /\ mint' = mint /\ trait' = trait
      /\ stored' = stored /\ lost' = lost /\ failed' = failed
  BY DEF runVars, data
<1>2. MetaInv' /\ TraitInv' /\ MetadataPut' /\ TraitsPut'
  BY <1>1 DEF PInv, MetaInv, TraitInv, MetadataPut, TraitsPut, Recorded, Meta, TraitOf,
              RecordOf, Token
<1>3. ListedHasMetadata' /\ PastTokensWhole'
  BY <1>1 DEF PInv, ListedHasMetadata, PastTokensWhole
<1> QED
  BY <1>2, <1>3 DEF PInv

LEMMA PInvNext == TInv /\ PInv /\ [Next]_vars => PInv'
<1> SUFFICES ASSUME TInv, PInv, [Next]_vars PROVE PInv'
  OBVIOUS
<1>1. TInv'
  BY TInvNext
<1>2. CASE UNCHANGED vars
  BY <1>2, PagesPutNothing DEF vars, runVars, data
<1>3. ASSUME NEW q \in Requests,
             PageStep(q)
      PROVE  PInv'
  <2>1. UNCHANGED <<runVars, data>>
    BY <1>3 DEF PageStep, KeysThrow, Cancel, AskCollection, AskItem, Begin, Respond,
                ReadTraits, ReadMetadata, CheckFile, ReadFile, Answer
  <2> QED
    BY <2>1, PagesPutNothing
<1>4. CASE Settle
  BY <1>4, PagesPutNothing DEF Settle
<1> QED
  BY <1>1, <1>2, <1>3, <1>4, RunsPut DEF Next, PageStep

LEMMA PInvInit == Init => PInv
<1> SUFFICES ASSUME Init PROVE PInv
  OBVIOUS
<1> USE DEF Init
<1>1. MetaInv /\ TraitInv /\ ListedHasMetadata /\ PastTokensWhole
  BY DEF MetaInv, TraitInv, ListedHasMetadata, PastTokensWhole
<1>2. MetadataPut /\ TraitsPut
  BY DEF MetadataPut, TraitsPut, Past
<1> QED
  BY <1>1, <1>2 DEF PInv

-----------------------------------------------------------------------------
(* The files *)

\* A run leaves the files alone.
LEMMA DiskMoves ==
  ASSUME TInv, DInv, NEW r \in Runs, UNCHANGED <<disk, pages>>,
         \A s \in Runs \ {r} : at'[s] = at[s] /\ mint'[s] = mint[s],
         at[r] # "copy",
         \/ at[r] \notin {"open", "died"}
         \/ at'[r] = "died" /\ mint'[r] = mint[r]
         \/ writer[Path(r)] # NoRun
  PROVE  DInv'
<1> USE DEF disk, pages
<1>1. CutInv'
  BY DEF DInv, CutInv
<1>2. WriterInv'
  <2> SUFFICES ASSUME NEW p \in Paths, NEW s \in Runs, writer[p] = s
               PROVE  files[p] = "part" /\ at'[s] = "copy" /\ Path(s)' = p
    BY DEF WriterInv
  <2>1. files[p] = "part" /\ at[s] = "copy" /\ Path(s) = p
    BY DEF DInv, WriterInv
  <2>2. s # r
    BY <2>1
  <2> QED
    BY <2>1, <2>2 DEF Path
<1>3. GoneInv'
  <2> SUFFICES ASSUME NEW q \in Requests, pc[q] = "read", files[Media(q)] = "none"
               PROVE  \E s \in Runs : Path(s)' = Media(q) /\ at'[s] \in {"open", "died"}
    BY DEF GoneInv, Media, Cur
  <2>1. PICK s \in Runs : Path(s) = Media(q) /\ at[s] \in {"open", "died"}
    BY DEF DInv, GoneInv
  <2>2. CASE s # r
    BY <2>1, <2>2 DEF Path
  <2>3. CASE s = r /\ at'[r] = "died" /\ mint'[r] = mint[r]
    BY <2>1, <2>3 DEF Path
  <2>4. CASE s = r /\ writer[Path(r)] # NoRun
    <3>1. Path(r) \in Paths
      BY MintIn DEF TInv
    <3>2. writer[Path(r)] \in Runs
      BY <2>4, <3>1 DEF TInv, DiskOK
    <3>3. files[Path(r)] = "part"
      BY <3>1, <3>2 DEF DInv, WriterInv
    <3> QED
      BY <2>1, <2>4, <3>3
  <2> QED
    BY <2>1, <2>2, <2>3, <2>4
<1> QED
  BY <1>1, <1>2, <1>3 DEF DInv

\* A run closes the file it was writing, and goes on.
LEMMA DiskCloses ==
  ASSUME TInv, DInv, NEW r \in Runs, NEW content \in {"part", "whole"},
         Close(r, content), UNCHANGED pages, at[r] = "copy",
         \A s \in Runs \ {r} : at'[s] = at[s] /\ mint'[s] = mint[s]
  PROVE  DInv'
<1> USE DEF pages
<1>1. Path(r) \in Paths /\ r # NoRun
  BY MintIn DEF TInv
<1>2. /\ files \in [Paths -> {"none", "part", "mixed", "whole"}]
      /\ writer \in [Paths -> Runs \cup {NoRun}]
  BY DEF TInv, DiskOK
<1>3. \A p \in Paths \ {Path(r)} :
        files'[p] = files[p] /\ writer'[p] = writer[p] /\ (p \in cut' <=> p \in cut)
  BY <1>1, <1>2 DEF Close, disk
<1>o. over' = over
  BY DEF Close, disk
<1>4. \/ /\ files'[Path(r)] \in {content, "mixed", "whole"} /\ writer'[Path(r)] = NoRun
         /\ content = "part" => Path(r) \in cut'
         /\ files'[Path(r)] = "mixed" => Path(r) \in over
      \/ /\ writer[Path(r)] # r
         /\ files'[Path(r)] = files[Path(r)] /\ writer'[Path(r)] = writer[Path(r)]
         /\ cut' = cut
  BY <1>1, <1>2 DEF Close, Leaves, disk
<1>5. CutInv'
  BY <1>o, <1>3, <1>4 DEF DInv, CutInv
<1>6. WriterInv'
  <2> SUFFICES ASSUME NEW p \in Paths, NEW s \in Runs, writer'[p] = s
               PROVE  files'[p] = "part" /\ at'[s] = "copy" /\ Path(s)' = p
    BY DEF WriterInv
  <2>1. writer[p] = s /\ files'[p] = files[p]
    BY <1>3, <1>4
  <2>2. files[p] = "part" /\ at[s] = "copy" /\ Path(s) = p
    BY <2>1 DEF DInv, WriterInv
  <2>3. s # r
    BY <1>4, <2>1, <2>2
  <2> QED
    BY <2>1, <2>2, <2>3 DEF Path
<1>7. GoneInv'
  <2> SUFFICES ASSUME NEW q \in Requests, pc[q] = "read", files'[Media(q)] = "none"
               PROVE  \E s \in Runs : Path(s)' = Media(q) /\ at'[s] \in {"open", "died"}
    BY DEF GoneInv, Media, Cur
  <2>1. Media(q) \in Paths
    <3>1. todo[q] # {}
      BY DEF TInv, AtHandInv
    <3> QED
      BY <3>1, CurIn DEF Media, Paths, TInv, PagesOK
  <2>2. files[Media(q)] = "none"
    BY <1>3, <1>4, <2>1
  <2>3. PICK s \in Runs : Path(s) = Media(q) /\ at[s] \in {"open", "died"}
    BY <2>2 DEF DInv, GoneInv
  <2>4. s # r
    BY <2>3
  <2> QED
    BY <2>3, <2>4 DEF Path
<1> QED
  BY <1>5, <1>6, <1>7 DEF DInv

LEMMA FileDeleted ==
  ASSUME TInv, DInv, NEW r \in Runs, DeleteFile(r)
  PROVE  DInv'
<1> USE DEF DeleteFile, Goto, pages
<1>1. Path(r) \in Paths /\ NoRun \notin Runs
  BY MintIn DEF TInv
<1>2. /\ \A s \in Runs \ {r} : at'[s] = at[s]
      /\ at'[r] = "open" /\ mint' = mint /\ cut' = cut /\ over' = over \ {Path(r)}
      /\ \A p \in Paths \ {Path(r)} : files'[p] = files[p] /\ writer'[p] = writer[p]
      /\ files'[Path(r)] = "none" /\ writer'[Path(r)] = NoRun
  BY <1>1 DEF TInv, RunsOK, DiskOK
<1>3. CutInv'
  BY <1>2 DEF DInv, CutInv
<1>4. WriterInv'
  <2> SUFFICES ASSUME NEW p \in Paths, NEW s \in Runs, writer'[p] = s
               PROVE  files'[p] = "part" /\ at'[s] = "copy" /\ Path(s) = p
    BY <1>2 DEF WriterInv, Path
  <2>1. p # Path(r) /\ writer[p] = s
    BY <1>1, <1>2
  <2>2. files[p] = "part" /\ at[s] = "copy" /\ Path(s) = p
    BY <2>1 DEF DInv, WriterInv
  <2>3. s # r
    BY <2>2
  <2> QED
    BY <1>2, <2>1, <2>2, <2>3
<1>m. pc' = pc /\ (\A q \in Requests : Media(q)' = Media(q)) /\ \A s \in Runs : Path(s)' = Path(s)
  BY DEF Media, Cur, Path
<1>5. GoneInv'
  <2> SUFFICES ASSUME NEW q \in Requests, pc[q] = "read", files'[Media(q)] = "none"
               PROVE  \E s \in Runs : Path(s) = Media(q) /\ at'[s] \in {"open", "died"}
    BY <1>m DEF GoneInv
  <2>1. CASE Media(q) = Path(r)
    BY <1>2, <2>1
  <2>2. CASE Media(q) # Path(r)
    <3>0. todo[q] # {}
      BY DEF TInv, AtHandInv
    <3>1. Media(q) \in Paths
      BY <3>0, CurIn DEF Media, Paths, TInv, PagesOK
    <3>2. PICK s \in Runs : Path(s) = Media(q) /\ at[s] \in {"open", "died"}
      BY <1>2, <2>2, <3>1 DEF DInv, GoneInv
    <3> QED
      BY <1>2, <2>2, <3>2
  <2> QED
    BY <2>1, <2>2
<1> QED
  BY <1>3, <1>4, <1>5 DEF DInv

LEMMA FileOpened ==
  ASSUME TInv, DInv, NEW r \in Runs, OpenFile(r)
  PROVE  DInv'
<1> USE DEF OpenFile, Goto, pages
<1>1. Path(r) \in Paths /\ NoRun \notin Runs
  BY MintIn DEF TInv
<1>2. /\ \A s \in Runs \ {r} : at'[s] = at[s]
      /\ at'[r] = "copy" /\ mint' = mint /\ cut' = cut /\ over \subseteq over'
      /\ \A p \in Paths \ {Path(r)} : files'[p] = files[p] /\ writer'[p] = writer[p]
      /\ files'[Path(r)] = "part" /\ writer'[Path(r)] = r
  BY <1>1 DEF TInv, RunsOK, DiskOK
<1>3. CutInv'
  BY <1>1, <1>2 DEF DInv, CutInv
<1>4. WriterInv'
  <2> SUFFICES ASSUME NEW p \in Paths, NEW s \in Runs, writer'[p] = s
               PROVE  files'[p] = "part" /\ at'[s] = "copy" /\ Path(s) = p
    BY <1>2 DEF WriterInv, Path
  <2>1. CASE p = Path(r)
    BY <1>2, <2>1
  <2>2. CASE p # Path(r)
    <3>1. files[p] = "part" /\ at[s] = "copy" /\ Path(s) = p
      BY <1>2, <2>2 DEF DInv, WriterInv
    <3> QED
      BY <1>2, <2>2, <3>1
  <2> QED
    BY <2>1, <2>2
<1>5. GoneInv'
  <2> SUFFICES ASSUME NEW q \in Requests, pc[q] = "read", files'[Media(q)] = "none"
               PROVE  \E s \in Runs : Path(s) = Media(q) /\ at'[s] \in {"open", "died"}
    BY <1>2 DEF GoneInv, Media, Cur, Path
  <2>0. todo[q] # {}
    BY DEF TInv, AtHandInv
  <2>1. Media(q) \in Paths
    BY <2>0, CurIn DEF Media, Paths, TInv, PagesOK
  <2>2. Media(q) # Path(r)
    BY <1>2
  <2>3. PICK s \in Runs : Path(s) = Media(q) /\ at[s] \in {"open", "died"}
    BY <1>2, <2>1, <2>2 DEF DInv, GoneInv
  <2> QED
    BY <1>2, <2>2, <2>3
<1> QED
  BY <1>3, <1>4, <1>5 DEF DInv

LEMMA NextMintPlaces ==
  ASSUME TInv, NEW r \in Runs, NextMint(r)
  PROVE  \A s \in Runs \ {r} : at'[s] = at[s] /\ mint'[s] = mint[s]
  BY NextMintFacts

LEMMA GotoPlaces ==
  ASSUME TInv, NEW r \in Runs, NEW where, Goto(r, where), UNCHANGED mint
  PROVE  /\ \A s \in Runs \ {r} : at'[s] = at[s] /\ mint'[s] = mint[s]
         /\ at'[r] = where /\ mint'[r] = mint[r]
  BY DEF TInv, RunsOK, Goto

LEMMA RunsDisk ==
  ASSUME TInv, DInv, NEW r \in Runs, Start(r) \/ GoOn(r) \/ Die(r)
  PROVE  DInv'
<1>0. CASE Start(r)
  BY <1>0, GotoPlaces, DiskMoves DEF Start
<1>1. CASE Abort(r)
  BY <1>1, GotoPlaces, DiskMoves DEF Abort
<1>2. CASE SkipKnown(r)
  BY <1>2, NextMintPlaces, DiskMoves DEF SkipKnown
<1>3. CASE SkipUnsupported(r)
  BY <1>3, NextMintPlaces, DiskMoves DEF SkipUnsupported
<1>4. CASE SaveContract(r)
  BY <1>4, GotoPlaces, DiskMoves DEF SaveContract
<1>5. CASE NoMetadata(r)
  BY <1>5, NextMintPlaces, DiskMoves DEF NoMetadata
<1>6. CASE SaveMetadata(r)
  BY <1>6, GotoPlaces, DiskMoves DEF SaveMetadata
<1>7. CASE SaveTrait(r)
  BY <1>7, DiskMoves DEF SaveTrait
<1>8. CASE NoImage(r)
  BY <1>8, NextMintPlaces, DiskMoves DEF NoImage, ImagesNext
<1>9. CASE SaveMedia(r)
  BY <1>9, GotoPlaces, DiskMoves DEF SaveMedia, ImagesNext
<1>14. CASE SaveThrows(r)
  BY <1>14, NextMintPlaces, DiskMoves DEF SaveThrows, ImagesNext
<1>10. CASE OpenFails(r)
  BY <1>10, NextMintPlaces, DiskMoves DEF OpenFails
<1>11. CASE Copied(r)
  BY <1>11, GotoPlaces, DiskCloses DEF Copied
<1>12. CASE CopyFails(r)
  BY <1>12, NextMintPlaces, DiskCloses DEF CopyFails
<1>13. CASE Die(r)
  <2>1. CASE at[r] = "copy"
    BY <1>13, <2>1, GotoPlaces, DiskCloses DEF Die
  <2>2. CASE at[r] # "copy"
    BY <1>13, <2>2, GotoPlaces, DiskMoves DEF Die
  <2> QED
    BY <2>1, <2>2
<1> QED
  BY <1>0, <1>1, <1>2, <1>3, <1>4, <1>5, <1>6, <1>7, <1>8, <1>9, FileDeleted, FileOpened,
     <1>10, <1>11, <1>12, <1>13, <1>14 DEF GoOn

LEMMA PagesDisk ==
  ASSUME TInv, DInv, NEW q \in Requests,
         PageStep(q)
  PROVE  DInv'
<1>1. UNCHANGED <<runVars, disk>>
  BY DEF PageStep, KeysThrow, Cancel, AskCollection, AskItem, Begin, Respond, ReadTraits,
         ReadMetadata, CheckFile, ReadFile, Answer
<1>2. CutInv' /\ WriterInv'
  BY <1>1 DEF DInv, CutInv, WriterInv, Path, runVars, disk
<1>3. \A p \in Requests \ {q} :
        pc'[p] = pc[p] /\ todo'[p] = todo[p] /\ block'[p] = block[p]
  BY DEF TInv, PagesOK, PageStep, KeysThrow, Cancel, AskCollection, AskItem, Begin,
         Respond, ReadTraits, ReadMetadata, CheckFile, ReadFile, Answer, Show, Finish, Stop
<1>4. pc'[q] = "read" => files[Media(q)] # "none" /\ todo'[q] = todo[q] /\ block' = block
  BY DEF TInv, PagesOK, PageStep, KeysThrow, Cancel, AskCollection, AskItem, Begin,
         Respond, ReadTraits, ReadMetadata, CheckFile, ReadFile, Answer, Show, Finish, Stop
<1>5. GoneInv'
  <2> SUFFICES ASSUME NEW p \in Requests, pc'[p] = "read", files[Media(p)'] = "none"
               PROVE  \E s \in Runs : Path(s) = Media(p)' /\ at[s] \in {"open", "died"}
    BY <1>1 DEF GoneInv, Path, runVars, disk
  <2>1. Media(p)' = Media(p)
    BY <1>3, <1>4 DEF Media, Cur
  <2>2. p # q
    BY <1>4, <2>1
  <2> QED
    BY <1>3, <2>1, <2>2 DEF DInv, GoneInv
<1> QED
  BY <1>2, <1>5 DEF DInv

LEMMA DInvNext == TInv /\ DInv /\ [Next]_vars => DInv'
<1> SUFFICES ASSUME TInv, DInv, [Next]_vars PROVE DInv'
  OBVIOUS
<1>1. CASE UNCHANGED vars
  BY <1>1 DEF vars, DInv, CutInv, WriterInv, GoneInv, Path, Media, Cur
<1>2. CASE Settle
  BY <1>2 DEF Settle, runVars, disk, pages, DInv, CutInv, WriterInv, GoneInv, Path, Media, Cur
<1> QED
  BY <1>1, <1>2, RunsDisk, PagesDisk DEF Next, PageStep

LEMMA DInvInit == Init => DInv
  BY DEF Init, DInv, CutInv, WriterInv, GoneInv

-----------------------------------------------------------------------------
(* Theorems *)

IInv == TInv /\ PInv /\ DInv

LEMMA Invariant == Spec => []IInv
<1>1. Init => IInv
  BY TInvInit, PInvInit, DInvInit DEF IInv
<1>2. IInv /\ [Next]_vars => IInv'
  BY TInvNext, PInvNext, DInvNext DEF IInv
<1> QED
  BY <1>1, <1>2, PTL DEF Spec

\* Type correctness: the runs, the records, the files and the requests keep
\* their types, a record is not both stored and dropped, and what a request
\* has seen is stored.
THEOREM IndexingTypeCorrect == Spec => []TypeOK
<1>1. IInv => TypeOK
  BY DEF IInv, TInv, RunsOK, DataOK, DiskOK, PagesOK, TypeOK, States
<1> QED
  BY <1>1, Invariant, PTL

\* MetadataIndexer stores the metadata before the traits, so no failure
\* between its transactions leaves a trait without metadata, unless the put
\* of the metadata was itself dropped; for any mints, runs and failures.
THEOREM TraitsHaveMetadata == Spec => []ListedHasMetadata
<1>1. IInv => ListedHasMetadata
  BY DEF IInv, PInv
<1> QED
  BY <1>1, Invariant, PTL

\* The traits are put before the images are fetched, and one after the other:
\* a run that has left a token behind, for whatever reason, has put every
\* trait of the metadata up to the first whose making or put threw.
THEOREM TokensLeftWhole == Spec => []PastTokensWhole
<1>1. IInv => PastTokensWhole
  BY DEF IInv, PInv
<1> QED
  BY <1>1, Invariant, PTL

\* A page shows a part of an image only where the writing of the file has
\* stopped half way, and the tail of another image only where one run wrote
\* over the file of another: however many runs delete and write the same file
\* while requests read it, no request reads one that is open.
THEOREM MediaWhole == Spec => MediaWholeUnlessCut
<1> DEFINE Step == \A q \in Requests : \A i \in shown'[q] \ shown[q] :
                     /\ i.media = "part" => <<i.token, i.block>> \in cut
                     /\ i.media = "mixed" => <<i.token, i.block>> \in over
<1>1. ASSUME IInv, [Next]_vars PROVE Step
  <2> SUFFICES ASSUME NEW q \in Requests, NEW i \in shown'[q] \ shown[q],
                      i.media \in {"part", "mixed"}
               PROVE  IF i.media = "part" THEN <<i.token, i.block>> \in cut
                                          ELSE <<i.token, i.block>> \in over
    OBVIOUS
  <2> USE DEF IInv, TInv
  <2>1. \A p \in Requests : p \in DOMAIN shown
    BY <1>1 DEF PagesOK
  <2>2. ASSUME NEW p \in Requests, ~(CheckFile(p) \/ ReadFile(p)), PageStep(p)
        PROVE  shown'[q] \subseteq shown[q]
    BY <2>1, <2>2 DEF PageStep, KeysThrow, Cancel, AskCollection, AskItem, Begin, Respond,
                      ReadTraits, ReadMetadata, Answer, Finish
  <2>3. ASSUME NEW r \in Runs, Start(r) \/ GoOn(r) \/ Die(r)
        PROVE  shown' = shown
    BY <2>3 DEF Start, GoOn, Die, Abort, SkipKnown, SkipUnsupported, SaveContract,
                NoMetadata, SaveMetadata, SaveTrait, NoImage, SaveMedia, SaveThrows, DeleteFile,
                OpenFile, OpenFails, Copied, CopyFails, pages
  <2>4. ~(shown'[q] \subseteq shown[q])
    OBVIOUS
  <2>5. PICK p \in Requests : CheckFile(p) \/ ReadFile(p)
    BY <1>1, <2>2, <2>3, <2>4 DEF Next, vars, PageStep, Settle, pages
  <2>6. PICK media : /\ Show(p, media)
                     /\ media = "none" \/ (ReadFile(p) /\ media = files[Media(p)])
    <3>1. CASE CheckFile(p)
      BY <2>4, <3>1 DEF CheckFile
    <3>2. CASE ReadFile(p)
      BY <2>1, <2>4, <3>2 DEF ReadFile, Finish
    <3> QED
      BY <2>5, <3>1, <3>2
  <2>7. i = [token |-> Cur(p), block |-> block[p], traits |-> seen[p], media |-> media]
    BY <2>1, <2>6 DEF Show
  <2>8. i.token = Cur(p) /\ i.block = block[p] /\ i.media = media
    BY <2>7
  <2>9. /\ ReadFile(p) /\ files[Media(p)] = i.media
        /\ <<i.token, i.block>> = Media(p)
    BY <2>6, <2>8 DEF Media
  <2>10. Media(p) \in Paths
    <3>1. todo[p] # {}
      BY <1>1, <2>9 DEF ReadFile, AtHandInv
    <3> QED
      BY <1>1, <3>1, CurIn DEF Media, Paths, PagesOK
  <2>11. writer[Media(p)] = NoRun
    <3>1. CASE Readable(Media(p))
      BY <3>1 DEF Readable
    <3>2. CASE ~Readable(Media(p))
      <4>1. Finish(p, "threw")
        BY <2>9, <3>2 DEF ReadFile
      <4>2. shown'[q] \subseteq shown[q]
        BY <2>1, <4>1 DEF Finish
      <4> QED
        BY <2>4, <4>2
    <3> QED
      BY <3>1, <3>2
  <2>12. /\ files[Media(p)] = "part" /\ writer[Media(p)] = NoRun => Media(p) \in cut
         /\ files[Media(p)] = "mixed" => Media(p) \in over
    <3>1. CutInv
      BY <1>1 DEF DInv
    <3>2. PICK m \in Paths : m = Media(p)
      BY <2>10
    <3>3. /\ files[m] = "part" /\ writer[m] = NoRun => m \in cut
          /\ files[m] = "mixed" => m \in over
      BY <3>1 DEF CutInv
    <3> QED
      BY <3>2, <3>3
  <2> QED
    BY <2>9, <2>11, <2>12
<1>2. IInv /\ [Next]_vars => [Step]_vars
  BY <1>1
<1> QED
  BY <1>2, Invariant, PTL DEF Spec, MediaWholeUnlessCut
=============================================================================
