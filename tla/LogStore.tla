------------------------------- MODULE LogStore -------------------------------
(***************************************************************************)
(* The log of the host, LightningLogStore: each entry is put in one LMDB   *)
(* transaction together with the keys that lead to it, and read back by a  *)
(* scan of the keys that start with a prefix.  A scan sees the keys of one *)
(* snapshot, and fetches each entry in a transaction of its own, which is  *)
(* begun as a writer's and so waits for the append that has begun.         *)
(*                                                                         *)
(* A key is a record, and stands for the bytes "K:"<name>":V:" and then    *)
(* those of KeyText.  Texts and ids are sequences of bytes, so that one    *)
(* can be the beginning of another, and the bytes after a value take part  *)
(* in a comparison; names hold no ":V:" and their lengths count for        *)
(* nothing, and no GUID starts with "K:".                                  *)
(***************************************************************************)
EXTENDS Naturals, Sequences, SequencesExt, FiniteSets

CONSTANTS
  Ids,          \* the entries' ids, in the order of the bytes of their GUIDs
  Guid,         \* the bytes of each
  Cut,          \* for the GUIDs that start with "E:", where they fall among
                \* the keys "E:"<id>: before those of the ids from Cut[id] on
  Contents,     \* what may be logged: an entry without its id
  Readers,
  Lookups,      \* what is asked for
  MaxKeySize,
  Capacity,     \* bound: how many keys the map has room for
  MaxReads,     \* bound: how many lookups are started
  NoError, NoId, NoLookup

\* LogEntryPrefix: the bytes of "E:".
EntryPrefix == <<69, 58>>

ASSUME LogAssumption ==
  /\ Ids \subseteq Nat
  /\ Guid \in [Ids -> Seq(Nat)]
  /\ DOMAIN Cut = {i \in Ids : IsPrefix(EntryPrefix, Guid[i])}
  /\ \A i \in DOMAIN Cut : Cut[i] \in Nat
  /\ NoId \notin Ids
  /\ MaxKeySize \in Nat /\ Capacity \in Nat /\ MaxReads \in Nat

VARIABLES
  db,       \* the committed keys, each with the value put
  logged,   \* history: the entries committed, oldest first
  writing,  \* the entry in whose transaction LMDB's writer is, or NoEntry
  pc, asked,
  rest,     \* what of its snapshot a reader's cursor has not reached
  found,    \* the entries it has read so far
  upTo,     \* history: how many entries were committed at its snapshot
  reads     \* how many so far, for the bound

reader == <<pc, asked, rest, found, upTo, reads>>
vars == <<db, logged, writing, pc, asked, rest, found, upTo, reads>>

-----------------------------------------------------------------------------
(* Keys *)

\* What a null text is indexed as: "?".
Null == <<63>>

RawKey(i) == [at |-> "id", name |-> "", value |-> <<>>, id |-> i]

\* Mutant of EntryKey: the id is left out.
EntryKeyWithoutId(i) == [at |-> "E", name |-> "", value |-> <<>>, id |-> NoId]

\* BuildLogByEntryKey
EntryKey(i) == [at |-> "E", name |-> "", value |-> <<>>, id |-> i]

\* BuildLogByDataKey
DataKey(name, text, i) == [at |-> "K", name |-> name, value |-> text, id |-> i]

\* GetLogByDataKey, which Append uses for the name of the event: no id.
NameKey(text) == [at |-> "K", name |-> "EVENTID.NAME", value |-> text, id |-> NoId]

\* Mutant of KeyText: the id follows the value at once.
KeyTextBare(k) == IF k.id = NoId THEN k.value ELSE k.value \o Guid[k.id]

\* The bytes of a key after those of its name.
KeyText(k) ==
  CASE k.id = NoId -> k.value
    [] k.at = "id" -> Guid[k.id]
    [] OTHER -> k.value \o EntryPrefix \o Guid[k.id]

KeyLength(k) == Len(KeyText(k))

\* The names an entry is indexed under with its id, and the text of each.
BuiltIn(e) ==
  {<<"ID", <<e.id>>>>, <<"LOGLEVEL", e.level>>, <<"EVENTID.ID", e.event>>}
    \cup (IF e.error = NoError THEN {}
          ELSE {<<"EXCEPTION.MESSAGE", e.error.message>>,
                <<"EXCEPTION.HELPLINK", e.error.helpLink>>,
                <<"EXCEPTION.SOURCE", e.error.source>>})

\* The keys whose value is the entry's id.
LeadingKeys(e) ==
  {EntryKey(e.id), NameKey(e.name)} \cup {DataKey(b[1], b[2], e.id) : b \in BuiltIn(e)}

\* Mutant of Fits: the guard lets one byte more through.
FitsOneMore(k) == KeyLength(k) <= MaxKeySize + 1

Fits(k) == KeyLength(k) <= MaxKeySize

\* The keys of the structured data, each its own value; a long one is skipped.
DataKeys(e) == {k \in {DataKey(d[1], d[2], e.id) : d \in e.data} : Fits(k)}

\* Index throws for a long key: the transaction ends without a commit.
Refused(e) == \E k \in {RawKey(e.id)} \cup LeadingKeys(e) : ~Fits(k)

KeysOf(e) == {RawKey(e.id)} \cup LeadingKeys(e) \cup DataKeys(e)

\* Mutant of ValueOf: a key leads to the entry's key "E:"<id>.
ValueOfIndirect(e, k) ==
  CASE k = RawKey(e.id) -> e
    [] k \in LeadingKeys(e) -> EntryKey(e.id)
    [] OTHER -> k

\* What is put under a key of the entry: of two puts the first one counts.
ValueOf(e, k) ==
  CASE k = RawKey(e.id) -> e
    [] k \in LeadingKeys(e) -> RawKey(e.id)
    [] OTHER -> k

-----------------------------------------------------------------------------
(* Append *)

\* Mutant of Kept: what has been put before the map is full stays.
KeptSoFar(keys) ==
  IF Cardinality(DOMAIN db \cup keys) <= Capacity THEN keys
  ELSE {k \in keys : k.at # "K"}

\* The puts the commit keeps: none when the map is full.
Kept(keys) == IF Cardinality(DOMAIN db \cup keys) <= Capacity THEN keys ELSE {}

\* Mutant of Put: an existing key is overwritten.
PutOver(e, keys) ==
  [k \in DOMAIN db \cup keys |-> IF k \in keys THEN ValueOf(e, k) ELSE db[k]]

\* PutOptions.NoOverwrite
Put(e, keys) ==
  [k \in DOMAIN db \cup keys |-> IF k \in DOMAIN db THEN db[k] ELSE ValueOf(e, k)]

EntryOf(i, content) ==
  [id |-> i, level |-> content.level, event |-> content.event, name |-> content.name,
   error |-> content.error, data |-> content.data]

NoEntry == [id |-> NoId]

\* LightningLogger.Log calls Append, whose transaction has the only writer of
\* the environment.
BeginAppend(i, content) ==
  /\ writing = NoEntry
  /\ \A n \in 1..Len(logged) : logged[n].id # i
  /\ writing' = EntryOf(i, content)
  /\ UNCHANGED <<db, logged, reader>>

\* What the end of the transaction keeps of it.
Committed == IF Refused(writing) THEN {} ELSE Kept(KeysOf(writing))

\* The commit, of which nobody looks at the result, or the end without one;
\* nothing of a transaction is seen before.
EndAppend ==
  /\ writing # NoEntry
  /\ writing' = NoEntry
  /\ \/ /\ Committed = {}
        /\ UNCHANGED <<db, logged>>
     \/ /\ Committed # {}
        /\ db' = Put(writing, Committed)
        /\ logged' = Append(logged, writing)
  /\ UNCHANGED reader

-----------------------------------------------------------------------------
(* Lookups *)

All == [at |-> "E", name |-> "", value |-> <<>>]
ByValue(name, text) == [at |-> "K", name |-> name, value |-> text]

\* GetByKey(name) asks for the entries that have no value under the name.
ByName(name) == ByValue(name, Null)

\* Whether a key starts with the bytes of the lookup's.  In the range "E:"
\* lie also the keys of entries whose GUID starts with these two bytes; the
\* bytes of a value are followed by "E:" and the id.
Matches(l, k) ==
  \/ l.at = "E" /\ (k.at = "E" \/ (k.at = "id" /\ k.id \in DOMAIN Cut))
  \/ l.at = "K" /\ k.at = "K" /\ k.name = l.name /\ IsPrefix(l.value, KeyText(k))

\* Begin a lookup: a snapshot, and the cursor on the first key that matches.
Ask(t, l) ==
  /\ pc[t] # "reading" /\ reads < MaxReads
  /\ reads' = reads + 1
  /\ pc' = [pc EXCEPT ![t] = "reading"]
  /\ asked' = [asked EXCEPT ![t] = l]
  /\ rest' = [rest EXCEPT ![t] = [k \in {x \in DOMAIN db : Matches(l, x)} |-> db[k]]]
  /\ found' = [found EXCEPT ![t] = {}]
  /\ upTo' = [upTo EXCEPT ![t] = Len(logged)]
  /\ UNCHANGED <<db, logged, writing>>

\* The order of the range "E:"; of other keys it makes no difference.
Rank(k) ==
  CASE k.at = "E" -> IF k.id = NoId THEN 0 ELSE 2 * k.id + 1
    [] k.at = "id" -> 2 * Cut[k.id]
    [] OTHER -> 0

IsNext(k, r) == \A x \in DOMAIN r : Rank(k) <= Rank(x)

\* Mutant of Beyond: the cursor stays where it is.
BeyondNot(k, r) == r

\* What is left of a scan when the cursor goes on from k.
Beyond(k, r) == [x \in DOMAIN r \ {k} |-> r[x]]

End(t, how) ==
  /\ pc' = [pc EXCEPT ![t] = how]
  /\ UNCHANGED <<rest, found>>

\* GetByIndex: the value under the cursor is taken for the key of an entry, in
\* a transaction that is begun as a writer's (the scan's is its `parent'), so
\* it waits for an append that has begun.
\* There is none: the scan ends.  It is the key of a key: reading that as an
\* entry throws.  It is an entry: the cursor goes on.
Fetch(t) ==
  /\ pc[t] = "reading" /\ writing = NoEntry
  /\ \E k \in DOMAIN rest[t] :
       /\ IsNext(k, rest[t])
       /\ LET to == rest[t][k] IN
            \/ to \notin DOMAIN db /\ End(t, "done")
            \/ /\ to \in DOMAIN db /\ to.at = "id"
               /\ found' = [found EXCEPT ![t] = @ \cup {db[to]}]
               /\ rest' = [rest EXCEPT ![t] = Beyond(k, @)]
               /\ UNCHANGED pc
            \/ to \in DOMAIN db /\ to.at # "id" /\ End(t, "threw")
  /\ UNCHANGED <<db, logged, writing, asked, upTo, reads>>

Finish(t) ==
  /\ pc[t] = "reading" /\ DOMAIN rest[t] = {}
  /\ End(t, "done")
  /\ UNCHANGED <<db, logged, writing, asked, upTo, reads>>

\* The request is cancelled between two entries.
Cancel(t) ==
  /\ pc[t] = "reading"
  /\ End(t, "cancelled")
  /\ UNCHANGED <<db, logged, writing, asked, upTo, reads>>

-----------------------------------------------------------------------------
(* Specification *)

Init ==
  /\ db = [k \in {} |-> k]
  /\ logged = <<>>
  /\ writing = NoEntry
  /\ pc = [t \in Readers |-> "idle"]
  /\ asked = [t \in Readers |-> NoLookup]
  /\ rest = [t \in Readers |-> [k \in {} |-> k]]
  /\ found = [t \in Readers |-> {}]
  /\ upTo = [t \in Readers |-> 0]
  /\ reads = 0

Read(t) == Fetch(t) \/ Finish(t)

Next ==
  \/ \E i \in Ids, content \in Contents : BeginAppend(i, content)
  \/ EndAppend
  \/ \E t \in Readers : Read(t) \/ Cancel(t) \/ \E l \in Lookups : Ask(t, l)

\* An append, once begun, ends; and a thread that waits for the writer's lock
\* again and again, between the appends of others, gets it.
Fairness ==
  /\ WF_vars(EndAppend)
  /\ \A t \in Readers : SF_vars(Read(t))

Spec == Init /\ [][Next]_vars /\ Fairness

-----------------------------------------------------------------------------
(* Properties *)

Entries == {EntryOf(i, content) : i \in Ids, content \in Contents}

TypeOK ==
  /\ \A k \in DOMAIN db : KeyLength(k) <= MaxKeySize
  /\ \A k \in DOMAIN db : k.at = "id" => db[k] \in Entries
  /\ logged \in Seq(Entries)
  /\ writing \in Entries \cup {NoEntry}
  /\ pc \in [Readers -> {"idle", "reading", "done", "threw", "cancelled"}]
  /\ asked \in [Readers -> Lookups \cup {NoLookup}]
  /\ found \in [Readers -> SUBSET Entries]
  /\ upTo \in [Readers -> 0..Len(logged)]
  /\ reads \in 0..MaxReads

\* The entries of a reader's snapshot.
Snapshot(t) == {logged[n] : n \in 1..upTo[t]}

Done(t, at) == pc[t] = "done" /\ asked[t].at = at

\* An entry is in the log with every key that leads to it, or not at all: a
\* message that makes a key too long (LightningLogStore.cs:98) and a map that
\* is full (:92) lose the whole entry, and a key leads to an entry there is.
LogWhole ==
  /\ {db[k] : k \in {x \in DOMAIN db : x.at = "id"}} = {logged[n] : n \in 1..Len(logged)}
  /\ \A n \in 1..Len(logged) : KeysOf(logged[n]) \subseteq DOMAIN db
  /\ \A k \in DOMAIN db : k.at # "id" => db[k] \in DOMAIN db

\* The page of logs shows each entry of its snapshot, whatever is appended
\* meanwhile -- up to the first entry whose GUID starts with the bytes "E:".
\* Its key lies among the keys scanned (KeyBuilder.cs:30), it leads to no
\* entry, and the entries after it are left out (LightningLogStore.cs:157).
GetUpToOddId ==
  \A t \in Readers : Done(t, "E") =>
    found[t] = {e \in Snapshot(t) :
                  \A o \in Snapshot(t) : o.id \in DOMAIN Cut => e.id < Cut[o.id]}

\* A lookup by the value of a name returns the entries whose value, followed
\* by "E:" and the id, begins with it: event 1 finds events 1 and 12, and "1E"
\* finds event 1 and not 12 (LightningLogStore.cs:152, KeyBuilder.cs:24-28).
ValueLookupExact ==
  \A t \in Readers : (Done(t, "K") /\ asked[t].name # "EVENTID.NAME") =>
    found[t] = {e \in Snapshot(t) : \E b \in BuiltIn(e) :
                  /\ b[1] = asked[t].name
                  /\ IsPrefix(asked[t].value, b[2] \o <<69, 58>> \o Guid[e.id])}

\* A lookup by the name of an event returns, of each name that begins with
\* it, the first entry only: the key has no id and is never overwritten
\* (LightningLogStore.cs:68).
NameFindsFirst ==
  \A t \in Readers : (Done(t, "K") /\ asked[t].name = "EVENTID.NAME") =>
    found[t] = {logged[n] : n \in {m \in 1..upTo[t] :
                  /\ IsPrefix(asked[t].value, logged[m].name)
                  /\ \A earlier \in 1..(m - 1) : logged[earlier].name # logged[m].name}}

\* A lookup throws only for structured data: its keys lead to themselves
\* (LightningLogStore.cs:88), and a key is no entry.
ThrowsForData ==
  \A t \in Readers : pc[t] = "threw" =>
    \E e \in Snapshot(t) : \E k \in DataKeys(e) :
      Matches(asked[t], k) /\ k \notin LeadingKeys(e)

\* A lookup ends, however much is appended meanwhile, though each entry it
\* fetches waits for the writer (LightningLogStore.cs:174-177).
ReadsEnd == \A t \in Readers : pc[t] = "reading" ~> pc[t] # "reading"

\* "Debug.Assert(key.Length < MaxKeySizeBytes)" (LightningLogStore.cs:97).
KeyShorterThanMax == \A k \in DOMAIN db : KeyLength(k) < MaxKeySize
=============================================================================
