---------------------------- MODULE LogStoreProofs ----------------------------
(***************************************************************************)
(* Theorems about LogStore, for any ids, contents, readers, lookups and    *)
(* sizes.                                                                  *)
(*                                                                         *)
(* The argument rests on one fact about the database: every key holds what *)
(* the first entry that has it put there (Puts, in LogInv).  So a snapshot *)
(* needs no state of its own: it is the keys of the entries logged when it *)
(* was taken, with the values they still have.                             *)
(***************************************************************************)
EXTENDS LogStore, TLAPS

\* The entry logged n-th put the value of k: it is the first with that key.
Puts(n, k) ==
  /\ k \in KeysOf(logged[n])
  /\ db[k] = ValueOf(logged[n], k)
  /\ \A m \in 1..(n - 1) : k \notin KeysOf(logged[m])

\* Entries have ids of their own, also the one being appended, and all their
\* keys, and every key was put.
LogInv ==
  /\ \A n \in 1..Len(logged) : KeysOf(logged[n]) \subseteq DOMAIN db
  /\ \A n, m \in 1..Len(logged) : logged[n].id = logged[m].id => n = m
  /\ \A n \in 1..Len(logged) : logged[n].id # writing.id
  /\ \A k \in DOMAIN db : \E n \in 1..Len(logged) : Puts(n, k)

\* The keys of its snapshot that a reader's lookup names; a key that leads to
\* an entry; the keys the cursor has left behind.
LooksAt(t) ==
  {k \in UNION {KeysOf(logged[n]) : n \in 1..upTo[t]} : Matches(asked[t], k)}
Leads(k) == db[k] \in DOMAIN db /\ db[k].at = "id"
Passed(t) == LooksAt(t) \ DOMAIN rest[t]

\* What is left of the scan is a part of the snapshot, with the values still
\* in the database; what was passed led to the entries found, and came first.
ScanInv(t) ==
  pc[t] # "idle" =>
    /\ DOMAIN rest[t] \subseteq LooksAt(t)
    /\ \A k \in DOMAIN rest[t] : rest[t][k] = db[k]
    /\ \A k \in Passed(t) : Leads(k) /\ \A x \in DOMAIN rest[t] : Rank(k) <= Rank(x)
    /\ found[t] = {db[db[k]] : k \in Passed(t)}

\* A scan ends before its last key at the raw key of an entry, and throws at
\* a key that is its own value.
EndInv(t) ==
  /\ pc[t] = "done" =>
       \/ DOMAIN rest[t] = {}
       \/ \E k \in DOMAIN rest[t] : k.at = "id" /\ IsNext(k, rest[t])
  /\ pc[t] = "threw" => \E k \in DOMAIN rest[t] : k.at # "id" /\ db[k] = k

ReaderInv == DOMAIN rest = Readers /\ \A t \in Readers : ScanInv(t) /\ EndInv(t)

IInv == TypeOK /\ LogInv /\ ReaderInv

-----------------------------------------------------------------------------
(* Keys and entries *)

\* Every key of an entry is of one of four kinds.
LEMMA FourKinds ==
  ASSUME NEW e, NEW k \in KeysOf(e)
  PROVE  \/ k = RawKey(e.id)
         \/ k = EntryKey(e.id)
         \/ k = NameKey(e.name)
         \/ \E name, text : k = DataKey(name, text, e.id)
  BY DEF KeysOf, LeadingKeys, DataKeys

\* The kinds of keys an entry has, by the field that tells them apart.
LEMMA KeysByKind ==
  ASSUME NEW e, NEW k \in KeysOf(e)
  PROVE  /\ k.at \in {"id", "E", "K"}
         /\ k.at = "id" <=> k = RawKey(e.id)
         /\ k.at = "E" <=> k = EntryKey(e.id)
         /\ k.at = "K" => \/ k = NameKey(e.name)
                          \/ \E b \in BuiltIn(e) : k = DataKey(b[1], b[2], e.id)
                          \/ k \in DataKeys(e)
<1>1. /\ RawKey(e.id).at = "id"
      /\ EntryKey(e.id).at = "E"
      /\ NameKey(e.name).at = "K"
      /\ \A name, text : DataKey(name, text, e.id).at = "K"
  BY DEF RawKey, EntryKey, NameKey, DataKey
<1>2. /\ k.at \in {"id", "E", "K"}
      /\ k.at = "id" <=> k = RawKey(e.id)
      /\ k.at = "E" <=> k = EntryKey(e.id)
  <2>1. CASE k = RawKey(e.id)
    BY <2>1, <1>1
  <2>2. CASE k = EntryKey(e.id)
    BY <2>2, <1>1
  <2>3. CASE k = NameKey(e.name)
    BY <2>3, <1>1
  <2>4. CASE \E name, text : k = DataKey(name, text, e.id)
    BY <2>4, <1>1
  <2> QED BY <2>1, <2>2, <2>3, <2>4, FourKinds
<1>3. k \in LeadingKeys(e) <=>
        \/ k = EntryKey(e.id)
        \/ k = NameKey(e.name)
        \/ \E b \in BuiltIn(e) : k = DataKey(b[1], b[2], e.id)
  BY DEF LeadingKeys
<1> QED BY <1>1, <1>2, <1>3 DEF KeysOf

\* What is put under a key of an entry.
LEMMA Values ==
  ASSUME NEW e
  PROVE  /\ RawKey(e.id) \in KeysOf(e) /\ ValueOf(e, RawKey(e.id)) = e
         /\ \A k \in LeadingKeys(e) : k \in KeysOf(e) /\ ValueOf(e, k) = RawKey(e.id)
         /\ \A k \in KeysOf(e) :
              k # RawKey(e.id) /\ k \notin LeadingKeys(e) =>
                ValueOf(e, k) = k /\ k \in DataKeys(e)
<1>1. \A k : k \in KeysOf(e) <=>
               k = RawKey(e.id) \/ k \in LeadingKeys(e) \/ k \in DataKeys(e)
  BY DEF KeysOf
<1>2. \A k \in LeadingKeys(e) : k # RawKey(e.id)
  <2>1. EntryKey(e.id) # RawKey(e.id) /\ NameKey(e.name) # RawKey(e.id)
    BY DEF RawKey, EntryKey, NameKey
  <2>2. \A name, text : DataKey(name, text, e.id) # RawKey(e.id)
    BY DEF RawKey, DataKey
  <2> QED BY <2>1, <2>2 DEF LeadingKeys
<1>3. ValueOf(e, RawKey(e.id)) = e
  BY <1>2 DEF ValueOf
<1>4. \A k \in LeadingKeys(e) : ValueOf(e, k) = RawKey(e.id)
  BY <1>2 DEF ValueOf
<1>5. \A k : k # RawKey(e.id) /\ k \notin LeadingKeys(e) => ValueOf(e, k) = k
  BY DEF ValueOf
<1> QED BY <1>1, <1>3, <1>4, <1>5

\* An entry is no key.
LEMMA EntriesAreNoKeys ==
  ASSUME NEW e \in Entries, NEW o, e \in KeysOf(o)
  PROVE  FALSE
<1>1. PICK i \in Ids, c \in Contents : e = EntryOf(i, c)
  BY DEF Entries
<1>2. DOMAIN e = {"id", "level", "event", "name", "error", "data"}
  BY <1>1 DEF EntryOf
<1>3. DOMAIN e = {"at", "name", "value", "id"}
  <2>1. /\ DOMAIN RawKey(o.id) = {"at", "name", "value", "id"}
        /\ DOMAIN EntryKey(o.id) = {"at", "name", "value", "id"}
        /\ DOMAIN NameKey(o.name) = {"at", "name", "value", "id"}
    BY DEF RawKey, EntryKey, NameKey
  <2>2. \A name, text : DOMAIN DataKey(name, text, o.id) = {"at", "name", "value", "id"}
    BY DEF DataKey
  <2> QED BY <2>1, <2>2, FourKinds
<1>4. "at" \notin {"id", "level", "event", "name", "error", "data"}
  OBVIOUS
<1> QED BY <1>2, <1>3, <1>4

\* Different ids, different keys; different names, different keys.
LEMMA RawKeysDiffer ==
  ASSUME NEW i, NEW j, RawKey(i) = RawKey(j)
  PROVE  i = j
  BY DEF RawKey

LEMMA EntryKeysDiffer ==
  ASSUME NEW i, NEW j, EntryKey(i) = EntryKey(j)
  PROVE  i = j
  BY DEF EntryKey

LEMMA NameKeysDiffer ==
  ASSUME NEW text, NEW other, NameKey(text) = NameKey(other)
  PROVE  text = other
  BY DEF NameKey
-----------------------------------------------------------------------------
(* Appending *)

\* The id of an entry is a GUID, so it is not the mark for none.
LEMMA EntryIds ==
  ASSUME NEW e \in Entries
  PROVE  e.id \in Ids /\ e.id # NoId
<1>1. PICK i \in Ids, c \in Contents : e = EntryOf(i, c)
  BY DEF Entries
<1>2. e.id = i
  BY <1>1 DEF EntryOf
<1> QED BY <1>1, <1>2, LogAssumption

\* What the end of an Append that goes through does.
LEMMA Appended ==
  ASSUME TypeOK, LogInv, EndAppend, Committed # {}
  PROVE  \E e \in Entries :
           /\ ~Refused(e)
           /\ \A n \in 1..Len(logged) : logged[n].id # e.id
           /\ db' = Put(e, KeysOf(e))
           /\ logged' = Append(logged, e) /\ writing' = NoEntry
           /\ UNCHANGED reader
<1>1. /\ writing # NoEntry /\ writing' = NoEntry
      /\ db' = Put(writing, Committed) /\ logged' = Append(logged, writing)
      /\ UNCHANGED reader
  BY DEF EndAppend
<1>2. writing \in Entries
  BY <1>1 DEF TypeOK
<1>3. ~Refused(writing) /\ Committed = Kept(KeysOf(writing))
  BY DEF Committed
<1>4. Committed = KeysOf(writing)
  BY <1>3 DEF Kept
<1> QED BY <1>1, <1>2, <1>3, <1>4 DEF LogInv

\* Under NoOverwrite a key keeps its value, and a new one has the entry's.
LEMMA PutFacts ==
  ASSUME NEW e, db' = Put(e, KeysOf(e))
  PROVE  /\ DOMAIN db' = DOMAIN db \cup KeysOf(e)
         /\ \A k \in DOMAIN db : db'[k] = db[k]
         /\ \A k \in KeysOf(e) \ DOMAIN db : db'[k] = ValueOf(e, k)
  BY DEF Put

\* The entries logged before stay where they are.
LEMMA LoggedFacts ==
  ASSUME logged \in Seq(Entries), NEW e \in Entries, logged' = Append(logged, e)
  PROVE  /\ logged' \in Seq(Entries)
         /\ Len(logged) \in Nat /\ Len(logged') = Len(logged) + 1
         /\ \A n \in 1..Len(logged) : logged[n] \in Entries /\ logged'[n] = logged[n]
         /\ logged'[Len(logged) + 1] = e
  OBVIOUS

\* Appending keeps the database and the log together.
LEMMA AppendKeeps ==
  ASSUME logged \in Seq(Entries), LogInv, NEW e \in Entries,
         \A n \in 1..Len(logged) : logged[n].id # e.id,
         db' = Put(e, KeysOf(e)), logged' = Append(logged, e), writing' = NoEntry
  PROVE  LogInv'
<1>0. PICK last : last = Len(logged) + 1
  OBVIOUS
<1>1. /\ last \in Nat /\ Len(logged') = last /\ Len(logged) \in Nat
      /\ logged'[last] = e
      /\ \A n \in 1..Len(logged) : logged'[n] = logged[n]
      /\ 1..Len(logged') = 1..Len(logged) \cup {last}
  BY <1>0, LoggedFacts
<1>2. /\ DOMAIN db' = DOMAIN db \cup KeysOf(e)
      /\ \A k \in DOMAIN db : db'[k] = db[k]
      /\ \A k \in KeysOf(e) \ DOMAIN db : db'[k] = ValueOf(e, k)
  BY PutFacts
<1>3. \A n \in 1..Len(logged') : KeysOf(logged'[n]) \subseteq DOMAIN db'
  BY <1>1, <1>2 DEF LogInv
<1>4. \A n, m \in 1..Len(logged') : logged'[n].id = logged'[m].id => n = m
  BY <1>1 DEF LogInv
<1>6. \A n \in 1..Len(logged') : logged'[n].id # writing'.id
  <2>1. writing'.id = NoId
    BY DEF NoEntry
  <2>2. \A n \in 1..Len(logged') : logged'[n] \in Entries
    BY <1>1
  <2> QED BY <2>1, <2>2, EntryIds
<1>5. ASSUME NEW k \in DOMAIN db'
      PROVE  \E n \in 1..Len(logged') : Puts(n, k)'
  <2>1. CASE k \in DOMAIN db
    <3>1. PICK n \in 1..Len(logged) : Puts(n, k)
      BY <2>1 DEF LogInv
    <3>2. 1..(n - 1) \subseteq 1..Len(logged)
      BY <1>1
    <3>3. Puts(n, k)'
      BY <3>1, <3>2, <2>1, <1>1, <1>2 DEF Puts
    <3> QED BY <3>3, <1>1
  <2>2. CASE k \notin DOMAIN db
    <3>1. k \in KeysOf(e) /\ db'[k] = ValueOf(e, k)
      BY <2>2, <1>2
    <3>2. 1..(last - 1) = 1..Len(logged)
      BY <1>0, <1>1
    <3>3. \A m \in 1..(last - 1) : k \notin KeysOf(logged'[m])
      BY <3>2, <2>2, <1>1 DEF LogInv
    <3>4. Puts(last, k)'
      BY <3>1, <3>3, <1>1 DEF Puts
    <3> QED BY <3>4, <1>1
  <2> QED BY <2>1, <2>2
<1> QED BY <1>3, <1>4, <1>5, <1>6 DEF LogInv

-----------------------------------------------------------------------------
(* What LogInv says of the database *)

\* The entry's raw key leads to it; it is no key itself.
LEMMA RawKeys ==
  ASSUME logged \in Seq(Entries), LogInv
  PROVE  /\ \A n \in 1..Len(logged) :
              /\ RawKey(logged[n].id) \in DOMAIN db
              /\ RawKey(logged[n].id).at = "id"
              /\ db[RawKey(logged[n].id)] = logged[n]
         /\ \A k \in DOMAIN db : k.at = "id" =>
              /\ db[k] \notin DOMAIN db
              /\ \E n \in 1..Len(logged) : k = RawKey(logged[n].id) /\ db[k] = logged[n]
<1>1. \A n \in 1..Len(logged) : logged[n] \in Entries
  OBVIOUS
<1>2. ASSUME NEW k \in DOMAIN db, k.at = "id"
      PROVE  \E n \in 1..Len(logged) : k = RawKey(logged[n].id) /\ db[k] = logged[n]
  <2>1. PICK n \in 1..Len(logged) : k \in KeysOf(logged[n]) /\ db[k] = ValueOf(logged[n], k)
    BY DEF LogInv, Puts
  <2>2. k = RawKey(logged[n].id)
    BY <2>1, <1>2, KeysByKind
  <2> QED BY <2>1, <2>2, Values
<1>3. ASSUME NEW k \in DOMAIN db, k.at = "id"
      PROVE  db[k] \notin DOMAIN db
  <2>1. db[k] \in Entries
    BY <1>1, <1>2, <1>3
  <2>2. ASSUME db[k] \in DOMAIN db
        PROVE  FALSE
    <3>1. PICK n \in 1..Len(logged) : db[k] \in KeysOf(logged[n])
      BY <2>2 DEF LogInv, Puts
    <3> QED BY <3>1, <2>1, EntriesAreNoKeys
  <2> QED BY <2>2
<1>4. ASSUME NEW n \in 1..Len(logged)
      PROVE  /\ RawKey(logged[n].id) \in DOMAIN db
             /\ RawKey(logged[n].id).at = "id"
             /\ db[RawKey(logged[n].id)] = logged[n]
  <2> DEFINE k == RawKey(logged[n].id)
  <2>1. k \in DOMAIN db
    BY Values DEF LogInv
  <2>2. k.at = "id"
    BY DEF RawKey
  <2>3. PICK m \in 1..Len(logged) : k = RawKey(logged[m].id) /\ db[k] = logged[m]
    BY <2>1, <2>2, <1>2
  <2>4. m = n
    BY <2>3, RawKeysDiffer DEF LogInv
  <2> QED BY <2>1, <2>2, <2>3, <2>4
<1> QED BY <1>2, <1>3, <1>4

\* Any other key leads to the entry that put it, or to itself.
LEMMA OtherKeys ==
  ASSUME logged \in Seq(Entries), LogInv, NEW k \in DOMAIN db, k.at # "id"
  PROVE  /\ db[k] \in DOMAIN db
         /\ \E n \in 1..Len(logged) :
              /\ Puts(n, k)
              /\ \/ /\ k \in LeadingKeys(logged[n])
                    /\ db[k] = RawKey(logged[n].id) /\ db[k].at = "id"
                    /\ db[db[k]] = logged[n]
                 \/ /\ k \notin LeadingKeys(logged[n]) /\ k \in DataKeys(logged[n])
                    /\ db[k] = k /\ db[k].at # "id"
<1>1. PICK n \in 1..Len(logged) : Puts(n, k)
  BY DEF LogInv
<1>2. k \in KeysOf(logged[n]) /\ db[k] = ValueOf(logged[n], k)
  BY <1>1 DEF Puts
<1>3. k # RawKey(logged[n].id)
  <2>1. RawKey(logged[n].id).at = "id"
    BY DEF RawKey
  <2> QED BY <2>1
<1>4. CASE k \in LeadingKeys(logged[n])
  <2>1. db[k] = RawKey(logged[n].id)
    BY <1>2, <1>4, Values
  <2> QED BY <2>1, <1>1, <1>4, RawKeys
<1>5. CASE k \notin LeadingKeys(logged[n])
  <2>1. db[k] = k /\ k \in DataKeys(logged[n])
    BY <1>2, <1>3, <1>5, Values
  <2> QED BY <2>1, <1>1, <1>5
<1> QED BY <1>4, <1>5

-----------------------------------------------------------------------------
(* Readers *)

\* The keys a reader looks at are in the database.
LEMMA LooksInDb ==
  ASSUME TypeOK, LogInv, NEW t \in Readers
  PROVE  LooksAt(t) \subseteq DOMAIN db
<1>1. 1..upTo[t] \subseteq 1..Len(logged)
  BY DEF TypeOK
<1> QED BY <1>1 DEF LooksAt, LogInv

\* Appending changes nothing a reader looks at.
LEMMA AppendReaders ==
  ASSUME TypeOK, LogInv, NEW e \in Entries,
         db' = Put(e, KeysOf(e)), logged' = Append(logged, e), UNCHANGED reader,
         NEW t \in Readers, ScanInv(t), EndInv(t)
  PROVE  ScanInv(t)' /\ EndInv(t)'
<1>1. /\ 1..upTo[t] \subseteq 1..Len(logged)
      /\ \A n \in 1..Len(logged) : logged'[n] = logged[n]
      /\ UNCHANGED <<pc, asked, rest, found, upTo>>
  BY LoggedFacts DEF TypeOK, reader
<1>2. \A n \in 1..upTo[t] : KeysOf(logged'[n]) = KeysOf(logged[n])
  BY <1>1
<1>3. LooksAt(t)' = LooksAt(t)
  BY <1>1, <1>2 DEF LooksAt
<1>4. Passed(t)' = Passed(t) /\ Passed(t) \subseteq DOMAIN db
  BY <1>1, <1>3, LooksInDb DEF Passed
<1>5. /\ DOMAIN db \subseteq DOMAIN db'
      /\ \A k \in DOMAIN db : db'[k] = db[k]
  BY PutFacts
<1>6. ScanInv(t)'
  <2> SUFFICES ASSUME pc[t] # "idle"
               PROVE  ScanInv(t)'
    BY <1>1 DEF ScanInv
  <2>1. \A k \in Passed(t) : Leads(k)' /\ db'[db'[k]] = db[db[k]]
    BY <1>4, <1>5 DEF ScanInv, Leads
  <2>2. {db'[db'[k]] : k \in Passed(t)} = {db[db[k]] : k \in Passed(t)}
    BY <2>1
  <2>3. DOMAIN rest[t] \subseteq DOMAIN db
    BY LooksInDb DEF ScanInv
  <2> QED BY <1>1, <1>3, <1>4, <1>5, <2>1, <2>2, <2>3 DEF ScanInv
<1>7. EndInv(t)'
  <2>1. pc[t] = "threw" => DOMAIN rest[t] \subseteq DOMAIN db
    BY LooksInDb DEF ScanInv
  <2> QED BY <1>1, <1>5, <2>1 DEF EndInv
<1> QED BY <1>6, <1>7

\* A reader that takes no step is not disturbed by another's.
LEMMA OtherReader ==
  ASSUME NEW t, ScanInv(t), EndInv(t), UNCHANGED <<db, logged>>,
         pc'[t] = pc[t], asked'[t] = asked[t], rest'[t] = rest[t],
         found'[t] = found[t], upTo'[t] = upTo[t]
  PROVE  ScanInv(t)' /\ EndInv(t)'
<1>1. LooksAt(t)' = LooksAt(t)
  BY DEF LooksAt
<1>2. Passed(t)' = Passed(t)
  BY <1>1 DEF Passed
<1>3. \A k : Leads(k)' = Leads(k)
  BY DEF Leads
<1> QED BY <1>1, <1>2, <1>3 DEF ScanInv, EndInv

\* A lookup begins with all it looks at before it.
LEMMA AskKeeps ==
  ASSUME TypeOK, LogInv, ReaderInv, NEW t \in Readers, NEW l \in Lookups, Ask(t, l)
  PROVE  ReaderInv'
<1>1. /\ UNCHANGED <<db, logged>>
      /\ pc'[t] = "reading" /\ asked'[t] = l /\ upTo'[t] = Len(logged) /\ found'[t] = {}
      /\ rest'[t] = [k \in {x \in DOMAIN db : Matches(l, x)} |-> db[k]]
      /\ DOMAIN rest' = Readers
      /\ \A o \in Readers \ {t} :
           /\ pc'[o] = pc[o] /\ asked'[o] = asked[o] /\ rest'[o] = rest[o]
           /\ found'[o] = found[o] /\ upTo'[o] = upTo[o]
  BY DEF Ask, TypeOK, ReaderInv
<1>2. \A o \in Readers \ {t} : ScanInv(o)' /\ EndInv(o)'
  BY <1>1, OtherReader DEF ReaderInv
<1>3. LooksAt(t)' = DOMAIN rest'[t]
  <2>1. DOMAIN db = UNION {KeysOf(logged[n]) : n \in 1..Len(logged)}
    <3>1. \A k \in DOMAIN db : \E n \in 1..Len(logged) : k \in KeysOf(logged[n])
      BY DEF LogInv, Puts
    <3>2. \A n \in 1..Len(logged) : KeysOf(logged[n]) \subseteq DOMAIN db
      BY DEF LogInv
    <3> QED BY <3>1, <3>2
  <2>2. LooksAt(t)' = {k \in UNION {KeysOf(logged[n]) : n \in 1..Len(logged)} : Matches(l, k)}
    BY <1>1 DEF LooksAt
  <2>3. DOMAIN rest'[t] = {x \in DOMAIN db : Matches(l, x)}
    BY <1>1
  <2> QED BY <2>1, <2>2, <2>3
<1>4. Passed(t)' = {}
  BY <1>3 DEF Passed
<1>5. \A k \in DOMAIN rest'[t] : rest'[t][k] = db'[k]
  BY <1>1
<1>6. ScanInv(t)' /\ EndInv(t)'
  BY <1>1, <1>3, <1>4, <1>5 DEF ScanInv, EndInv
<1> QED BY <1>1, <1>2, <1>6 DEF ReaderInv

\* A turn of the cursor: it passes a key that leads to an entry, and stops at
\* one that does not.
LEMMA FetchKeeps ==
  ASSUME TypeOK, LogInv, ReaderInv, NEW t \in Readers, Fetch(t)
  PROVE  ReaderInv'
<1>1. PICK k \in DOMAIN rest[t] :
        /\ IsNext(k, rest[t])
        /\ LET to == rest[t][k] IN
             \/ to \notin DOMAIN db /\ End(t, "done")
             \/ /\ to \in DOMAIN db /\ to.at = "id"
                /\ found' = [found EXCEPT ![t] = @ \cup {db[to]}]
                /\ rest' = [rest EXCEPT ![t] = Beyond(k, @)]
                /\ UNCHANGED pc
             \/ to \in DOMAIN db /\ to.at # "id" /\ End(t, "threw")
  BY DEF Fetch
<1>2. pc[t] = "reading" /\ UNCHANGED <<db, logged, writing, asked, upTo, reads>>
  BY DEF Fetch
<1>3. /\ DOMAIN rest[t] \subseteq LooksAt(t)
      /\ \A x \in DOMAIN rest[t] : rest[t][x] = db[x]
      /\ \A x \in Passed(t) : Leads(x) /\ \A y \in DOMAIN rest[t] : Rank(x) <= Rank(y)
      /\ found[t] = {db[db[x]] : x \in Passed(t)}
  BY <1>2 DEF ReaderInv, ScanInv
<1>4. k \in DOMAIN db /\ k \in LooksAt(t) /\ rest[t][k] = db[k]
  BY <1>3, LooksInDb
<1>5. \A o \in Readers \ {t} :
        /\ pc'[o] = pc[o] /\ asked'[o] = asked[o] /\ rest'[o] = rest[o]
        /\ found'[o] = found[o] /\ upTo'[o] = upTo[o]
  BY <1>1, <1>2 DEF End, TypeOK, ReaderInv
<1>6. \A o \in Readers \ {t} : ScanInv(o)' /\ EndInv(o)'
  BY <1>2, <1>5, OtherReader DEF ReaderInv
<1>7. LooksAt(t)' = LooksAt(t) /\ \A x : Leads(x)' = Leads(x)
  BY <1>2 DEF LooksAt, Leads
<1>8. DOMAIN rest' = Readers
  BY <1>1 DEF End, ReaderInv
<1>9. CASE db[k] \notin DOMAIN db /\ End(t, "done")
  <2>1. k.at = "id"
    BY <1>9, <1>4, OtherKeys DEF TypeOK
  <2>2. pc'[t] = "done" /\ UNCHANGED <<rest, found>>
    BY <1>9 DEF End, TypeOK
  <2>3. Passed(t)' = Passed(t)
    BY <2>2, <1>7 DEF Passed
  <2>4. ScanInv(t)' /\ EndInv(t)'
    BY <2>1, <2>2, <2>3, <1>1, <1>2, <1>3, <1>7 DEF ScanInv, EndInv
  <2> QED BY <2>4, <1>6, <1>8 DEF ReaderInv
<1>10. CASE /\ db[k] \in DOMAIN db /\ db[k].at = "id"
            /\ found' = [found EXCEPT ![t] = @ \cup {db[db[k]]}]
            /\ rest' = [rest EXCEPT ![t] = Beyond(k, @)]
            /\ UNCHANGED pc
  <2>1. /\ found'[t] = found[t] \cup {db[db[k]]}
        /\ rest'[t] = Beyond(k, rest[t])
    BY <1>10 DEF TypeOK, ReaderInv
  <2>2. /\ DOMAIN rest'[t] = DOMAIN rest[t] \ {k}
        /\ \A x \in DOMAIN rest'[t] : rest'[t][x] = rest[t][x]
    BY <2>1 DEF Beyond
  <2>3. Passed(t)' = Passed(t) \cup {k}
    BY <2>2, <1>4, <1>7 DEF Passed
  <2>4. Leads(k) /\ \A x \in DOMAIN rest[t] : Rank(k) <= Rank(x)
    BY <1>1, <1>10 DEF Leads, IsNext
  <2>5. found'[t] = {db'[db'[x]] : x \in Passed(t)'}
    BY <2>1, <2>3, <1>2, <1>3
  <2>6. pc'[t] = "reading"
    BY <1>10, <1>2
  <2>7. ScanInv(t)'
    BY <2>2, <2>3, <2>4, <2>5, <1>2, <1>3, <1>7 DEF ScanInv
  <2>8. EndInv(t)'
    BY <2>6 DEF EndInv
  <2> QED BY <2>7, <2>8, <1>6, <1>8 DEF ReaderInv
<1>11. CASE db[k] \in DOMAIN db /\ db[k].at # "id" /\ End(t, "threw")
  <2>1. k.at # "id" /\ db[k] = k
    BY <1>11, <1>4, RawKeys, OtherKeys DEF TypeOK
  <2>2. pc'[t] = "threw" /\ UNCHANGED <<rest, found>>
    BY <1>11 DEF End, TypeOK
  <2>3. Passed(t)' = Passed(t)
    BY <2>2, <1>7 DEF Passed
  <2>4. ScanInv(t)' /\ EndInv(t)'
    BY <2>1, <2>2, <2>3, <1>2, <1>3, <1>7 DEF ScanInv, EndInv
  <2> QED BY <2>4, <1>6, <1>8 DEF ReaderInv
<1> QED BY <1>1, <1>4, <1>9, <1>10, <1>11

\* A lookup that is finished or cancelled leaves its scan as it is.
LEMMA StopKeeps ==
  ASSUME TypeOK, ReaderInv, NEW t \in Readers, Finish(t) \/ Cancel(t)
  PROVE  ReaderInv'
<1>1. /\ pc[t] = "reading" /\ UNCHANGED <<db, logged, asked, upTo, rest, found>>
      /\ \/ pc'[t] = "done" /\ DOMAIN rest[t] = {}
         \/ pc'[t] = "cancelled"
      /\ \A o \in Readers \ {t} : pc'[o] = pc[o]
  BY DEF Finish, Cancel, End, TypeOK
<1>2. \A o \in Readers \ {t} : ScanInv(o)' /\ EndInv(o)'
  BY <1>1, OtherReader DEF ReaderInv
<1>3. Passed(t)' = Passed(t) /\ LooksAt(t)' = LooksAt(t) /\ \A x : Leads(x)' = Leads(x)
  BY <1>1 DEF Passed, LooksAt, Leads
<1>4. ScanInv(t)' /\ EndInv(t)'
  BY <1>1, <1>3 DEF ScanInv, EndInv, ReaderInv
<1> QED BY <1>1, <1>2, <1>4 DEF ReaderInv

-----------------------------------------------------------------------------
(* Types *)

\* No key of an entry that is put is too long.
LEMMA KeysFit ==
  ASSUME NEW e, ~Refused(e), NEW k \in KeysOf(e)
  PROVE  KeyLength(k) <= MaxKeySize
<1>1. CASE k \in {RawKey(e.id)} \cup LeadingKeys(e)
  BY <1>1 DEF Refused, Fits
<1>2. CASE k \in DataKeys(e)
  BY <1>2 DEF DataKeys, Fits
<1> QED BY <1>1, <1>2 DEF KeysOf

LEMMA AppendTypes ==
  ASSUME TypeOK, NEW e \in Entries, ~Refused(e),
         db' = Put(e, KeysOf(e)), logged' = Append(logged, e), writing' = NoEntry,
         UNCHANGED reader
  PROVE  TypeOK'
<1>1. /\ DOMAIN db' = DOMAIN db \cup KeysOf(e)
      /\ \A k \in DOMAIN db : db'[k] = db[k]
      /\ \A k \in KeysOf(e) \ DOMAIN db : db'[k] = ValueOf(e, k)
  BY PutFacts
<1>2. \A k \in DOMAIN db' : KeyLength(k) <= MaxKeySize
  BY <1>1, KeysFit DEF TypeOK
<1>3. \A k \in DOMAIN db' : k.at = "id" => db'[k] \in Entries
  BY <1>1, KeysByKind, Values DEF TypeOK
<1>4. logged' \in Seq(Entries) /\ Len(logged') = Len(logged) + 1 /\ Len(logged) \in Nat
  BY LoggedFacts DEF TypeOK
<1>5. upTo' \in [Readers -> 0..Len(logged')]
  BY <1>4 DEF TypeOK, reader
<1> QED BY <1>2, <1>3, <1>4, <1>5 DEF TypeOK, reader

LEMMA ReadTypes ==
  ASSUME TypeOK, NEW t \in Readers, Read(t) \/ Cancel(t)
  PROVE  TypeOK'
<1>1. /\ UNCHANGED <<db, logged, writing, asked, upTo, reads>>
      /\ pc' \in [Readers -> {"idle", "reading", "done", "threw", "cancelled"}]
  BY DEF Read, Fetch, Finish, Cancel, End, TypeOK
<1>2. found' \in [Readers -> SUBSET Entries]
  <2>1. ASSUME NEW k, k \in DOMAIN db, k.at = "id",
               found' = [found EXCEPT ![t] = @ \cup {db[k]}]
        PROVE  found' \in [Readers -> SUBSET Entries]
    BY <2>1 DEF TypeOK
  <2>2. CASE UNCHANGED found
    BY <2>2 DEF TypeOK
  <2> QED BY <2>1, <2>2 DEF Read, Fetch, Finish, Cancel, End
<1> QED BY <1>1, <1>2 DEF TypeOK

LEMMA AskTypes ==
  ASSUME TypeOK, NEW t \in Readers, NEW l \in Lookups, Ask(t, l)
  PROVE  TypeOK'
<1>1. Len(logged) \in 0..Len(logged)
  BY DEF TypeOK
<1>2. reads' \in 0..MaxReads
  BY LogAssumption DEF Ask, TypeOK
<1>3. /\ pc' \in [Readers -> {"idle", "reading", "done", "threw", "cancelled"}]
      /\ asked' \in [Readers -> Lookups \cup {NoLookup}]
      /\ found' \in [Readers -> SUBSET Entries]
  BY DEF Ask, TypeOK
<1>4. upTo' \in [Readers -> 0..Len(logged)]
  BY <1>1 DEF Ask, TypeOK
<1> QED BY <1>2, <1>3, <1>4 DEF Ask, TypeOK

-----------------------------------------------------------------------------
(* The inductive invariant *)

LEMMA InitIInv == Init => IInv
<1> SUFFICES ASSUME Init PROVE IInv
  OBVIOUS
<1>1. DOMAIN db = {} /\ logged = <<>> /\ Len(logged) = 0
  BY DEF Init
<1>2. TypeOK
  BY <1>1, LogAssumption DEF Init, TypeOK
<1>3. LogInv
  BY <1>1 DEF LogInv
<1>4. ReaderInv
  BY DEF Init, ReaderInv, ScanInv, EndInv
<1> QED BY <1>2, <1>3, <1>4 DEF IInv

LEMMA NextIInv == IInv /\ [Next]_vars => IInv'
<1> SUFFICES ASSUME IInv, [Next]_vars PROVE IInv'
  OBVIOUS
<1> USE DEF IInv
<1>1. ASSUME EndAppend, Committed # {}
      PROVE  IInv'
  <2>1. PICK e \in Entries : /\ ~Refused(e)
                             /\ \A n \in 1..Len(logged) : logged[n].id # e.id
                             /\ db' = Put(e, KeysOf(e))
                             /\ logged' = Append(logged, e) /\ writing' = NoEntry
                             /\ UNCHANGED reader
    BY <1>1, Appended
  <2>2. TypeOK'
    BY <2>1, AppendTypes
  <2>3. LogInv'
    BY <2>1, AppendKeeps DEF TypeOK
  <2>4. DOMAIN rest' = Readers
    BY <2>1 DEF reader, ReaderInv
  <2>5. \A t \in Readers : ScanInv(t)' /\ EndInv(t)'
    BY <2>1, AppendReaders DEF ReaderInv
  <2> QED BY <2>2, <2>3, <2>4, <2>5 DEF ReaderInv
<1>2. ASSUME UNCHANGED <<db, logged, writing>>
      PROVE  LogInv'
  BY <1>2 DEF LogInv, Puts
<1>7. ASSUME UNCHANGED <<db, logged, reader>>, writing' \in Entries \cup {NoEntry},
             \A n \in 1..Len(logged) : logged[n].id # writing'.id
      PROVE  IInv'
  <2>1. TypeOK' /\ LogInv'
    BY <1>7 DEF reader, TypeOK, LogInv, Puts
  <2>2. ReaderInv'
    BY <1>7, OtherReader DEF reader, ReaderInv
  <2> QED BY <2>1, <2>2
<1>8. ASSUME NEW i \in Ids, NEW content \in Contents, BeginAppend(i, content)
      PROVE  IInv'
  <2>1. /\ UNCHANGED <<db, logged, reader>> /\ writing' = EntryOf(i, content)
        /\ \A n \in 1..Len(logged) : logged[n].id # i
    BY <1>8 DEF BeginAppend
  <2>2. writing' \in Entries /\ writing'.id = i
    BY <2>1 DEF Entries, EntryOf
  <2> QED BY <1>7, <2>1, <2>2
<1>9. ASSUME EndAppend, Committed = {}
      PROVE  IInv'
  <2>1. UNCHANGED <<db, logged, reader>> /\ writing' = NoEntry /\ writing'.id = NoId
    BY <1>9 DEF EndAppend, NoEntry
  <2>2. \A n \in 1..Len(logged) : logged[n] \in Entries
    BY DEF TypeOK
  <2> QED BY <1>7, <2>1, <2>2, EntryIds
<1>3. ASSUME NEW t \in Readers, NEW l \in Lookups, Ask(t, l)
      PROVE  IInv'
  BY <1>2, <1>3, AskTypes, AskKeeps DEF Ask
<1>4. ASSUME NEW t \in Readers, Fetch(t)
      PROVE  IInv'
  BY <1>2, <1>4, ReadTypes, FetchKeeps DEF Fetch, Read
<1>5. ASSUME NEW t \in Readers, Finish(t) \/ Cancel(t)
      PROVE  IInv'
  BY <1>2, <1>5, ReadTypes, StopKeeps DEF Finish, Cancel, Read
<1>6. ASSUME UNCHANGED vars
      PROVE  IInv'
  <2>1. TypeOK' /\ LogInv'
    BY <1>2, <1>6 DEF vars, TypeOK
  <2>2. ReaderInv'
    BY <1>6, OtherReader DEF vars, ReaderInv
  <2> QED BY <2>1, <2>2
<1> QED BY <1>1, <1>3, <1>4, <1>5, <1>6, <1>8, <1>9 DEF Next, Read

LEMMA Invariance == Spec => []IInv
  BY InitIInv, NextIInv, PTL DEF Spec

\* The database, the log and the readers keep their types, and no key is
\* longer than LMDB allows.
THEOREM LogTypeCorrect == Spec => []TypeOK
<1>1. IInv => TypeOK
  BY DEF IInv
<1> QED BY <1>1, Invariance, PTL

\* An entry is in the log with every key that leads to it, or not at all, for
\* any entries and however full the map is.
THEOREM EntriesAreWhole == Spec => []LogWhole
<1>1. IInv => LogWhole
  <2> SUFFICES ASSUME IInv PROVE LogWhole
    OBVIOUS
  <2>1. logged \in Seq(Entries) /\ LogInv
    BY DEF IInv, TypeOK
  <2>2. {db[k] : k \in {x \in DOMAIN db : x.at = "id"}} = {logged[n] : n \in 1..Len(logged)}
    <3>1. \A k \in DOMAIN db : k.at = "id" => \E n \in 1..Len(logged) : db[k] = logged[n]
      BY <2>1, RawKeys
    <3>2. \A n \in 1..Len(logged) :
            \E k \in {x \in DOMAIN db : x.at = "id"} : db[k] = logged[n]
      BY <2>1, RawKeys
    <3> QED BY <3>1, <3>2
  <2>3. \A k \in DOMAIN db : k.at # "id" => db[k] \in DOMAIN db
    BY <2>1, OtherKeys
  <2>4. \A n \in 1..Len(logged) : KeysOf(logged[n]) \subseteq DOMAIN db
    BY <2>1 DEF LogInv
  <2> QED BY <2>2, <2>3, <2>4 DEF LogWhole
<1> QED BY <1>1, Invariance, PTL

-----------------------------------------------------------------------------
(* What lookups return *)

\* A lookup by a value or a name of an event, and how it can have ended: all
\* keys it looked at led to entries, and it returned these.
LEMMA DoneByKey ==
  ASSUME IInv, NEW t \in Readers, Done(t, "K")
  PROVE  /\ \A k \in LooksAt(t) : k \in DOMAIN db /\ k.at = "K" /\ Leads(k)
         /\ found[t] = {db[db[k]] : k \in LooksAt(t)}
<1>1. LooksAt(t) \subseteq DOMAIN db
  BY LooksInDb DEF IInv
<1>2. \A k \in LooksAt(t) : k.at = "K"
  BY DEF LooksAt, Matches, Done
<1>3. /\ pc[t] = "done" /\ ScanInv(t) /\ EndInv(t)
  BY DEF Done, IInv, ReaderInv
<1>4. DOMAIN rest[t] = {}
  BY <1>2, <1>3 DEF ScanInv, EndInv
<1>5. Passed(t) = LooksAt(t)
  BY <1>4 DEF Passed
<1> QED BY <1>1, <1>2, <1>3, <1>5 DEF ScanInv

\* The fields of the keys that a lookup by value or name can meet.
LEMMA FieldsOfKeys ==
  /\ \A name, text, i : LET k == DataKey(name, text, i) IN
       k.at = "K" /\ k.name = name /\ k.value = text /\ k.id = i
  /\ \A text : LET k == NameKey(text) IN
       k.at = "K" /\ k.name = "EVENTID.NAME" /\ k.value = text /\ k.id = NoId
  /\ \A i : EntryKey(i).at = "E"
BY DEF DataKey, NameKey, EntryKey

\* The bytes of the name of an event as a key.
LEMMA TextOfNameKey ==
  ASSUME NEW text
  PROVE  KeyText(NameKey(text)) = text
BY DEF NameKey, KeyText

\* The bytes of a key with an id: "E:" and the id follow the value.
LEMMA TextOfDataKey ==
  ASSUME NEW name, NEW text, NEW i \in Ids
  PROVE  KeyText(DataKey(name, text, i)) = text \o <<69, 58>> \o Guid[i]
<1>1. PICK k : k = DataKey(name, text, i)
  OBVIOUS
<1>2. k.at = "K" /\ k.value = text /\ k.id = i /\ k.id # NoId
  BY <1>1, FieldsOfKeys, LogAssumption
<1>3. KeyText(k) = text \o <<69, 58>> \o Guid[i]
  BY <1>2 DEF KeyText, EntryPrefix
<1> QED BY <1>1, <1>3

\* No built-in property is named as the name of the event.
LEMMA BuiltInNames ==
  ASSUME NEW e, NEW b \in BuiltIn(e)
  PROVE  b[1] # "EVENTID.NAME"
  BY DEF BuiltIn

\* A key with an id belongs to the entry with that id.
LEMMA KeyOfOne ==
  ASSUME NEW e, NEW k \in KeysOf(e), k.at = "K", k # NameKey(e.name)
  PROVE  k.id = e.id
<1>1. \A name, text : DataKey(name, text, e.id).id = e.id
  BY DEF DataKey
<1>2. RawKey(e.id).at # "K" /\ EntryKey(e.id).at # "K"
  BY DEF RawKey, EntryKey
<1> QED BY <1>1, <1>2, FourKinds

\* A lookup by value returns exactly the entries of its snapshot that have a
\* value under the name which, with the "E:" and the id after it, begins with
\* the one asked for.
THEOREM ValueLookupsExact == Spec => []ValueLookupExact
<1>1. IInv => ValueLookupExact
  <2> DEFINE HasValue(t, e, b) ==
               /\ b[1] = asked[t].name
               /\ IsPrefix(asked[t].value, b[2] \o <<69, 58>> \o Guid[e.id])
  <2> SUFFICES ASSUME IInv, NEW t \in Readers, Done(t, "K"), asked[t].name # "EVENTID.NAME"
               PROVE  found[t] = {e \in Snapshot(t) : \E b \in BuiltIn(e) :
                                    HasValue(t, e, b)}
    BY DEF ValueLookupExact
  <2>0. /\ logged \in Seq(Entries) /\ LogInv
        /\ 1..upTo[t] \subseteq 1..Len(logged)
        /\ Snapshot(t) \subseteq Entries /\ \A e \in Snapshot(t) : e.id \in Ids
    <3>1. /\ logged \in Seq(Entries) /\ LogInv
          /\ 1..upTo[t] \subseteq 1..Len(logged)
          /\ Snapshot(t) \subseteq Entries
      BY DEF IInv, TypeOK, Snapshot
    <3> QED BY <3>1, EntryIds
  <2>1. ASSUME NEW k \in LooksAt(t)
        PROVE  \E e \in Snapshot(t) : db[db[k]] = e /\ \E b \in BuiltIn(e) :
                 HasValue(t, e, b)
    <3>1. PICK e \in Snapshot(t) : k \in KeysOf(e)
      BY DEF LooksAt, Snapshot
    <3>2. /\ k \in DOMAIN db /\ k.at = "K" /\ Leads(k)
          /\ k.name = asked[t].name /\ IsPrefix(asked[t].value, KeyText(k))
      BY DoneByKey DEF LooksAt, Matches, Done
    <3>3. PICK n \in 1..Len(logged) : /\ Puts(n, k) /\ k \in LeadingKeys(logged[n])
                                      /\ db[db[k]] = logged[n]
      BY <2>0, <3>2, OtherKeys DEF Leads
    <3>4. k # NameKey(e.name) /\ k # NameKey(logged[n].name) /\ k # EntryKey(logged[n].id)
      BY <3>2, FieldsOfKeys
    <3>5. k.id = e.id /\ k.id = logged[n].id
      BY <3>1, <3>2, <3>3, <3>4, KeyOfOne DEF Puts
    <3>6. e = logged[n]
      BY <3>5, <2>0 DEF Snapshot, LogInv
    <3>7. PICK b \in BuiltIn(e) : k = DataKey(b[1], b[2], e.id)
      BY <3>3, <3>4, <3>6 DEF LeadingKeys
    <3>8. HasValue(t, e, b)
      <4>1. e.id \in Ids /\ k.name = b[1]
        BY <2>0, <3>7, FieldsOfKeys
      <4>2. KeyText(k) = b[2] \o <<69, 58>> \o Guid[e.id]
        BY <3>7, <4>1, TextOfDataKey
      <4> QED BY <3>2, <4>1, <4>2
    <3> QED BY <3>3, <3>6, <3>8
  <2>2. ASSUME NEW e \in Snapshot(t), NEW b \in BuiltIn(e),
               HasValue(t, e, b)
        PROVE  \E k \in LooksAt(t) : db[db[k]] = e
    <3> DEFINE k == DataKey(b[1], b[2], e.id)
    <3>1. k \in KeysOf(e)
      BY DEF KeysOf, LeadingKeys
    <3>2. Matches(asked[t], k)
      <4>1. e.id \in Ids
        BY <2>0
      <4>2. PICK key : key = DataKey(b[1], b[2], e.id)
        OBVIOUS
      <4>3. KeyText(key) = b[2] \o <<69, 58>> \o Guid[e.id]
        BY <4>1, <4>2, TextOfDataKey
      <4>4. key.at = "K" /\ key.name = b[1]
        BY <4>2 DEF DataKey
      <4>5. asked[t].at = "K"
        BY DEF Done
      <4>6. Matches(asked[t], key)
        BY <2>2, <4>3, <4>4, <4>5 DEF Matches
      <4> QED BY <4>2, <4>6
    <3>3. k \in LooksAt(t)
      BY <3>1, <3>2 DEF LooksAt, Snapshot
    <3>4. PICK o \in Snapshot(t) : db[db[k]] = o
      BY <3>3, <2>1
    <3>5. /\ k \in DOMAIN db /\ k.at = "K" /\ Leads(k)
          /\ k.name # "EVENTID.NAME" /\ k.id = e.id
      <4>1. k \in DOMAIN db /\ k.at = "K" /\ Leads(k)
        BY <3>3, DoneByKey
      <4>2. k.name # "EVENTID.NAME" /\ k.id = e.id
        BY <2>2, FieldsOfKeys
      <4> QED BY <4>1, <4>2
    <3>6. PICK n \in 1..Len(logged) : Puts(n, k) /\ db[db[k]] = logged[n]
      BY <2>0, <3>5, OtherKeys DEF Leads
    <3>7. k # NameKey(logged[n].name)
      BY <3>5, FieldsOfKeys
    <3>8. k.id = logged[n].id
      BY <3>5, <3>6, <3>7, KeyOfOne DEF Puts
    <3>9. e = logged[n]
      BY <3>5, <3>8, <2>0 DEF Snapshot, LogInv
    <3> QED BY <3>3, <3>6, <3>9
  <2>3. found[t] = {db[db[k]] : k \in LooksAt(t)}
    BY DoneByKey
  <2> QED BY <2>1, <2>2, <2>3
<1> QED BY <1>1, Invariance, PTL

\* A lookup throws only at a key of structured data.
THEOREM ThrowsOnlyForData == Spec => []ThrowsForData
<1>1. IInv => ThrowsForData
  <2> SUFFICES ASSUME IInv, NEW t \in Readers, pc[t] = "threw"
               PROVE  \E e \in Snapshot(t) : \E k \in DataKeys(e) :
                        Matches(asked[t], k) /\ k \notin LeadingKeys(e)
    BY DEF ThrowsForData
  <2>0. /\ logged \in Seq(Entries) /\ LogInv /\ Len(logged) \in Nat
        /\ upTo[t] \in 0..Len(logged)
    BY DEF IInv, TypeOK
  <2>1. PICK k \in LooksAt(t) : k.at # "id" /\ db[k] = k
    BY DEF IInv, ReaderInv, EndInv, ScanInv
  <2>2. PICK m \in 1..upTo[t] : k \in KeysOf(logged[m])
    BY DEF LooksAt
  <2>3. PICK n \in 1..Len(logged) :
          Puts(n, k) /\ k \notin LeadingKeys(logged[n]) /\ k \in DataKeys(logged[n])
    BY <2>0, <2>1, OtherKeys, LooksInDb DEF IInv
  <2>4. n <= m
    BY <2>0, <2>2, <2>3 DEF Puts
  <2>5. logged[n] \in Snapshot(t)
    BY <2>0, <2>4 DEF Snapshot
  <2> QED BY <2>3, <2>5 DEF LooksAt
<1> QED BY <1>1, Invariance, PTL

\* A lookup by the name of an event returns, of each name, the first entry.
THEOREM NamesFindTheFirst == Spec => []NameFindsFirst
<1>1. IInv => NameFindsFirst
  <2> SUFFICES ASSUME IInv, NEW t \in Readers, Done(t, "K"), asked[t].name = "EVENTID.NAME"
               PROVE  found[t] = {logged[n] : n \in {m \in 1..upTo[t] :
                        /\ IsPrefix(asked[t].value, logged[m].name)
                        /\ \A earlier \in 1..(m - 1) : logged[earlier].name # logged[m].name}}
    BY DEF NameFindsFirst
  <2> DEFINE IsFirst(m) == \A earlier \in 1..(m - 1) : logged[earlier].name # logged[m].name
  <2>0. /\ logged \in Seq(Entries) /\ LogInv /\ Len(logged) \in Nat
        /\ upTo[t] \in 0..Len(logged)
    BY DEF IInv, TypeOK
  <2>1. \A m : NameKey(logged[m].name) \in KeysOf(logged[m])
    BY DEF KeysOf, LeadingKeys
  <2>2. ASSUME NEW k \in LooksAt(t)
        PROVE  \E n \in 1..upTo[t] : /\ IsPrefix(asked[t].value, logged[n].name)
                                     /\ IsFirst(n)
                                     /\ k = NameKey(logged[n].name)
                                     /\ db[db[k]] = logged[n]
    <3>1. /\ k \in DOMAIN db /\ k.at = "K" /\ Leads(k)
          /\ k.name = "EVENTID.NAME" /\ IsPrefix(asked[t].value, KeyText(k))
      BY DoneByKey DEF LooksAt, Matches, Done
    <3>2. PICK n \in 1..Len(logged) : /\ Puts(n, k) /\ k \in LeadingKeys(logged[n])
                                      /\ db[db[k]] = logged[n]
      BY <2>0, <3>1, OtherKeys DEF Leads
    <3>3. k # EntryKey(logged[n].id)
      BY <3>1, FieldsOfKeys
    <3>4. \A b \in BuiltIn(logged[n]) : k # DataKey(b[1], b[2], logged[n].id)
      BY <3>1, FieldsOfKeys, BuiltInNames
    <3>5. k = NameKey(logged[n].name)
      BY <3>2, <3>3, <3>4 DEF LeadingKeys
    <3>6. PICK m \in 1..upTo[t] : k \in KeysOf(logged[m])
      BY DEF LooksAt
    <3>7. n \in 1..upTo[t]
      BY <2>0, <3>2, <3>6 DEF Puts
    <3>8. IsFirst(n)
      BY <2>1, <3>2, <3>5 DEF Puts
    <3>9. IsPrefix(asked[t].value, logged[n].name)
      BY <3>1, <3>5, TextOfNameKey
    <3> QED BY <3>2, <3>5, <3>7, <3>8, <3>9
  <2>3. ASSUME NEW m \in 1..upTo[t], IsPrefix(asked[t].value, logged[m].name), IsFirst(m)
        PROVE  \E k \in LooksAt(t) : db[db[k]] = logged[m]
    <3>1. PICK k : k = NameKey(logged[m].name)
      OBVIOUS
    <3>2. Matches(asked[t], k)
      BY <2>3, <3>1, FieldsOfKeys, TextOfNameKey DEF Matches, Done
    <3>3. k \in LooksAt(t)
      BY <2>1, <3>1, <3>2 DEF LooksAt
    <3>4. PICK n \in 1..upTo[t] : /\ IsFirst(n) /\ k = NameKey(logged[n].name)
                                  /\ db[db[k]] = logged[n]
      BY <2>2, <3>3
    <3>5. logged[n].name = logged[m].name
      BY <3>1, <3>4, NameKeysDiffer
    <3>6. n = m
      BY <2>0, <2>3, <3>4, <3>5
    <3> QED BY <3>3, <3>4, <3>6
  <2>4. found[t] = {db[db[k]] : k \in LooksAt(t)}
    BY DoneByKey
  <2> QED BY <2>2, <2>3, <2>4
<1> QED BY <1>1, Invariance, PTL

\* What the page of logs looks at, and what of it leads to which entry.
LEMMA PageKeys ==
  ASSUME IInv, NEW t \in Readers, Done(t, "E")
  PROVE  /\ \A e \in Snapshot(t) : EntryKey(e.id) \in LooksAt(t)
         /\ \A o \in Snapshot(t) : o.id \in DOMAIN Cut =>
              RawKey(o.id) \in LooksAt(t) /\ ~Leads(RawKey(o.id))
         /\ \A k \in LooksAt(t) : \E e \in Snapshot(t) :
              \/ k = EntryKey(e.id) /\ k.at # "id" /\ db[db[k]] = e
              \/ k = RawKey(e.id) /\ e.id \in DOMAIN Cut /\ k.at = "id" /\ ~Leads(k)
<1>0. /\ logged \in Seq(Entries) /\ LogInv
      /\ \A e \in Snapshot(t) : \E n \in 1..Len(logged) : e = logged[n]
      /\ LooksAt(t) \subseteq DOMAIN db
      /\ asked[t].at = "E"
  BY LooksInDb DEF IInv, TypeOK, Snapshot, Done
<1>1. \A i : /\ EntryKey(i).at = "E" /\ EntryKey(i).id = i
             /\ RawKey(i).at = "id" /\ RawKey(i).id = i
  BY DEF EntryKey, RawKey
<1>2. ASSUME NEW e \in Snapshot(t)
      PROVE  /\ EntryKey(e.id) \in LooksAt(t)
             /\ e.id \in DOMAIN Cut => RawKey(e.id) \in LooksAt(t)
  <2>1. EntryKey(e.id) \in KeysOf(e) /\ RawKey(e.id) \in KeysOf(e)
    BY DEF KeysOf, LeadingKeys
  <2>2. /\ Matches(asked[t], EntryKey(e.id))
        /\ e.id \in DOMAIN Cut => Matches(asked[t], RawKey(e.id))
    BY <1>0, <1>1 DEF Matches
  <2> QED BY <2>1, <2>2 DEF LooksAt, Snapshot
<1>3. ASSUME NEW k \in DOMAIN db, k.at = "id"
      PROVE  ~Leads(k)
  BY <1>0, <1>3, RawKeys DEF Leads
<1>4. ASSUME NEW k \in LooksAt(t)
      PROVE  \E e \in Snapshot(t) :
               \/ k = EntryKey(e.id) /\ k.at # "id" /\ db[db[k]] = e
               \/ k = RawKey(e.id) /\ e.id \in DOMAIN Cut /\ k.at = "id" /\ ~Leads(k)
  <2>1. PICK e \in Snapshot(t) : k \in KeysOf(e)
    BY DEF LooksAt, Snapshot
  <2>2. k \in DOMAIN db /\ (k.at = "E" \/ (k.at = "id" /\ k.id \in DOMAIN Cut))
    BY <1>0 DEF LooksAt, Matches
  <2>3. CASE k.at = "id"
    <3>1. k = RawKey(e.id)
      BY <2>1, <2>3, KeysByKind
    <3> QED BY <1>1, <1>3, <2>2, <2>3, <3>1
  <2>4. CASE k.at = "E"
    <3>1. k = EntryKey(e.id)
      BY <2>1, <2>4, KeysByKind
    <3>2. PICK n \in 1..Len(logged) : Puts(n, k) /\
            \/ k \in LeadingKeys(logged[n]) /\ db[db[k]] = logged[n]
            \/ k \in DataKeys(logged[n])
      BY <1>0, <2>2, <2>4, OtherKeys
    <3>3. k = EntryKey(logged[n].id)
      BY <2>4, <3>2, KeysByKind DEF Puts
    <3>4. e = logged[n]
      <4>1. e.id = logged[n].id
        BY <3>1, <3>3, EntryKeysDiffer
      <4> QED BY <4>1, <1>0 DEF LogInv
    <3>5. k \notin DataKeys(logged[n])
      BY <2>4, FieldsOfKeys DEF DataKeys
    <3> QED BY <2>4, <3>1, <3>2, <3>4, <3>5
  <2> QED BY <2>2, <2>3, <2>4
<1> QED BY <1>0, <1>2, <1>3, <1>4, <1>1

\* The page of logs shows its snapshot up to the first id that starts with
\* the bytes of the prefix, wherever that falls and whatever is appended.
THEOREM PagesEndAtOddIds == Spec => []GetUpToOddId
<1>1. IInv => GetUpToOddId
  <2> SUFFICES ASSUME IInv, NEW t \in Readers, Done(t, "E")
               PROVE  found[t] = {e \in Snapshot(t) :
                        \A o \in Snapshot(t) : o.id \in DOMAIN Cut => e.id < Cut[o.id]}
    BY DEF GetUpToOddId
  <2>0. /\ ScanInv(t) /\ EndInv(t) /\ pc[t] = "done"
        /\ \A e \in Snapshot(t) : e.id \in Nat /\ e.id # NoId
        /\ \A i \in DOMAIN Cut : Cut[i] \in Nat
    <3>1. Snapshot(t) \subseteq Entries
      BY DEF IInv, TypeOK, Snapshot
    <3> QED BY <3>1, EntryIds, LogAssumption DEF IInv, ReaderInv, Done
  <2>1. \A e \in Snapshot(t) : Rank(EntryKey(e.id)) = 2 * e.id + 1
    <3>1. \A i : EntryKey(i).at = "E" /\ EntryKey(i).id = i
      BY DEF EntryKey
    <3> QED BY <2>0, <3>1 DEF Rank
  <2>2. \A i : Rank(RawKey(i)) = 2 * Cut[i]
    <3>1. \A i : RawKey(i).at = "id" /\ RawKey(i).id = i
      BY DEF RawKey
    <3> QED BY <3>1 DEF Rank
  <2>3. ASSUME NEW k \in Passed(t)
        PROVE  \E e \in Snapshot(t) : /\ db[db[k]] = e
                 /\ \A o \in Snapshot(t) : o.id \in DOMAIN Cut => e.id < Cut[o.id]
    <3>1. k \in LooksAt(t) /\ Leads(k) /\ \A x \in DOMAIN rest[t] : Rank(k) <= Rank(x)
      BY <2>0 DEF ScanInv, Passed
    <3>2. PICK e \in Snapshot(t) : k = EntryKey(e.id) /\ db[db[k]] = e
      BY <3>1, PageKeys
    <3>3. ASSUME NEW o \in Snapshot(t), o.id \in DOMAIN Cut
          PROVE  e.id < Cut[o.id]
      <4>1. RawKey(o.id) \in DOMAIN rest[t]
        BY <3>3, <2>0, PageKeys DEF ScanInv, Passed
      <4>2. 2 * e.id + 1 <= 2 * Cut[o.id]
        BY <4>1, <3>1, <3>2, <2>1, <2>2
      <4>3. e.id \in Nat /\ Cut[o.id] \in Nat
        BY <2>0, <3>3
      <4> QED BY <4>2, <4>3
    <3> QED BY <3>2, <3>3
  <2>4. ASSUME NEW e \in Snapshot(t),
               \A o \in Snapshot(t) : o.id \in DOMAIN Cut => e.id < Cut[o.id]
        PROVE  \E k \in Passed(t) : db[db[k]] = e
    <3>1. PICK k : k = EntryKey(e.id)
      OBVIOUS
    <3>2. k \in LooksAt(t)
      BY <3>1, PageKeys
    <3>3. ASSUME k \in DOMAIN rest[t]
          PROVE  FALSE
      <4>1. PICK x \in DOMAIN rest[t] : x.at = "id" /\ Rank(x) <= Rank(k)
        BY <2>0, <3>3 DEF EndInv, IsNext
      <4>2. x \in LooksAt(t)
        BY <2>0 DEF ScanInv
      <4>3. PICK o \in Snapshot(t) : x = RawKey(o.id) /\ o.id \in DOMAIN Cut
        BY <4>1, <4>2, PageKeys
      <4>4. 2 * Cut[o.id] <= 2 * e.id + 1 /\ e.id < Cut[o.id]
        BY <4>1, <4>3, <3>1, <2>1, <2>2, <2>4
      <4>5. e.id \in Nat /\ Cut[o.id] \in Nat
        BY <2>0, <4>3
      <4> QED BY <4>4, <4>5
    <3>4. k \in Passed(t)
      BY <3>2, <3>3 DEF Passed
    <3>5. Leads(k)
      BY <2>0, <3>4 DEF ScanInv
    <3>6. PICK o \in Snapshot(t) : k = EntryKey(o.id) /\ db[db[k]] = o
      BY <3>2, <3>5, PageKeys
    <3>7. o = e
      <4>1. o.id = e.id
        BY <3>1, <3>6, EntryKeysDiffer
      <4> QED BY <4>1 DEF IInv, TypeOK, LogInv, Snapshot
    <3> QED BY <3>4, <3>6, <3>7
  <2>5. found[t] = {db[db[k]] : k \in Passed(t)}
    BY <2>0 DEF ScanInv
  <2> QED BY <2>3, <2>4, <2>5
<1> QED BY <1>1, Invariance, PTL
=============================================================================
