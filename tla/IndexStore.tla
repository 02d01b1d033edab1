----------------------------- MODULE IndexStore ------------------------------
(***************************************************************************)
(* ownable.Data.Store: records in an LMDB environment, each under its GUID *)
(* and under the keys of module IndexKeys, all in one database.            *)
(*                                                                         *)
(* Threads are the host's requests.  A put runs in a write transaction,    *)
(* and LMDB has one writer at a time.  A find reads the keys of a snapshot *)
(* with a cursor, but fetches each record in a write transaction of its    *)
(* own (Store.GetById opens one with TransactionBeginFlags.None): it waits *)
(* for the writer, and sees the records of now, not of the snapshot.       *)
(***************************************************************************)
EXTENDS IndexKeys, FiniteSets

CONSTANTS
  Threads,
  NoThread,
  NoRecord,
  NoQuery,
  Queries,      \* the lookups requests make, built with Find, Get, KeyLookup
  Batches,      \* the batches of puts requests carry
  Capacity,     \* entries the memory map holds (MapSize)
  MaxRequests   \* bound on the requests of a behaviour

ASSUME StoreAssumption ==
  /\ NoRecord \notin Records
  /\ NoThread \notin Threads
  /\ NoQuery \notin Queries
  /\ MaxRequests \in Nat
  /\ Batches \subseteq Seq([mode : {"Append", "Save"}, rec : Records])

VARIABLES
  primary,   \* committed: GUID => record
  index,     \* committed: the index keys; each points to the GUID it holds
  writer,    \* the thread whose write transaction is open
  staged,    \* that transaction's pages, and whether LMDB flagged it
  pc,        \* where each thread is
  batch,     \* the puts a thread still has to do
  query,     \* the lookup a thread runs or ran last
  view,      \* the records of its snapshot
  todo,      \* keys its cursor has still to reach
  found,     \* entries it has collected: the key and the record
  returned,  \* puts that came back to their caller without an exception
  requests   \* requests begun

committedVars == <<primary, index>>
writeVars == <<writer, staged, batch, returned>>
findVars == <<query, view, todo, found>>
vars == <<committedVars, writeVars, findVars, pc, requests>>

Resting == {"idle", "done", "cancelled"}
Putting == {"begin", "record", "keys", "commit"}
Answer == [key : AllKeys, rec : Records]
NoPages == [primary |-> [i \in Ids |-> NoRecord], index |-> {}, failed |-> FALSE]

TypeOK ==
  /\ primary \in [Ids -> Records \cup {NoRecord}]
  /\ index \subseteq AllKeys
  /\ writer \in Threads \cup {NoThread}
  /\ staged \in [primary : [Ids -> Records \cup {NoRecord}],
                 index : SUBSET AllKeys, failed : BOOLEAN]
  /\ pc \in [Threads -> Resting \cup Putting \cup {"scan"}]
  /\ batch \in [Threads -> Seq([mode : {"Append", "Save"}, rec : Records])]
  /\ query \in [Threads -> Queries \cup {NoQuery}]
  /\ view \in [Threads -> [Ids -> Records \cup {NoRecord}]]
  /\ todo \in [Threads -> SUBSET AllKeys]
  /\ found \in [Threads -> SUBSET Answer]
  /\ returned \subseteq [mode : {"Append", "Save"}, rec : Records]
  /\ requests \in 0..MaxRequests

Init ==
  /\ primary = [i \in Ids |-> NoRecord]
  /\ index = {}
  /\ writer = NoThread
  /\ staged = NoPages
  /\ pc = [t \in Threads |-> "idle"]
  /\ batch = [t \in Threads |-> <<>>]
  /\ query = [t \in Threads |-> NoQuery]
  /\ view = [t \in Threads |-> [i \in Ids |-> NoRecord]]
  /\ todo = [t \in Threads |-> {}]
  /\ found = [t \in Threads |-> {}]
  /\ returned = {}
  /\ requests = 0

Goto(t, place) == pc' = [pc EXCEPT ![t] = place]

\* A mutant is what an operator would be with a likely mistake in the code;
\* none is part of the specification.
\* Mutant of WriterFree: write transactions run side by side.
WriterAnyTime == TRUE

\* LMDB's mutex: a write transaction begins when no other is open.
WriterFree == writer = NoThread

\* Mutant of Release: the transaction is not disposed.
ReleaseNot == UNCHANGED <<writer, staged>>

Release == writer' = NoThread /\ staged' = NoPages

\* Mutant of Abort: the puts were written through before the commit.
AbortHalfWay ==
  /\ primary' = [i \in Ids |-> IF staged.primary[i] = NoRecord
                               THEN primary[i] ELSE staged.primary[i]]
  /\ index' = index \cup staged.index
  /\ Release

\* A transaction that ends without its commit leaves no trace.
Abort == UNCHANGED committedVars /\ Release

Accept(t) ==
  /\ pc[t] \in Resting
  /\ requests < MaxRequests
  /\ requests' = requests + 1
-----------------------------------------------------------------------------
(* Puts.                                                                   *)

\* Append, AppendMany, Save, and the batches of IndexController and
\* ServerIndexableHandler: the items one by one.
RequestPuts(t) ==
  /\ Accept(t)
  /\ \E b \in Batches :
       /\ b # <<>>
       /\ batch' = [batch EXCEPT ![t] = b]
  /\ Goto(t, "begin")
  /\ found' = [found EXCEPT ![t] = {}]
  /\ UNCHANGED <<committedVars, writer, staged, returned, query, view, todo>>

Put(t) == Head(batch[t])

\* BeginTransaction: waits for the only writer.
BeginPut(t) ==
  /\ pc[t] = "begin"
  /\ WriterFree
  /\ writer' = t
  /\ staged' = [primary |-> primary, index |-> index, failed |-> FALSE]
  /\ Goto(t, "record")
  /\ UNCHANGED <<committedVars, batch, returned, findVars, requests>>

\* The map is full when it has no room for another entry (MDB_MAP_FULL).
Fits(records, keys) ==
  Cardinality({i \in Ids : records[i] # NoRecord}) + Cardinality(keys)
    <= Capacity

\* LMDB's put of the transaction's new pages; the caller ignores its result.
\* Once a put has failed for want of room the transaction is flagged, and
\* every later operation on it fails.
Stage(records, keys) ==
  staged' = IF ~staged.failed /\ Fits(records, keys)
            THEN [primary |-> records, index |-> keys, failed |-> FALSE]
            ELSE [staged EXCEPT !.failed = TRUE]

\* Mutant of Stored: Append puts with PutOptions.None.
StoredOver(records, p) == [records EXCEPT ![p.rec.id] = p.rec]

\* GUID => buffer.  NoOverwrite leaves a record that is there
\* (MDB_KEYEXIST, ignored), and the put goes on.
Stored(records, p) ==
  IF p.mode = "Append" /\ records[p.rec.id] # NoRecord
  THEN records
  ELSE [records EXCEPT ![p.rec.id] = p.rec]

PutRecord(t) ==
  /\ pc[t] = "record"
  /\ Stage(Stored(staged.primary, Put(t)), staged.index)
  /\ Goto(t, "keys")
  /\ UNCHANGED <<committedVars, writer, batch, returned, findVars, requests>>

\* Mutant of KeysToPut: a GUID that is there is not indexed again.
KeysOfNew(p) == IF primary[p.rec.id] = NoRecord THEN IndexKeys(p.rec) ELSE {}

\* Mutant of KeysToPut: a null value for every property.
KeysWithoutValue(p) == {[k EXCEPT !.value = <<>>] : k \in IndexKeys(p.rec)}

\* ID => GUID, FIELD => GUID, FIELDS => GUID, whether or not the GUID is new.
KeysToPut(p) == IndexKeys(p.rec)

\* The keys a record had before are not removed.
PutKeys(t) ==
  /\ pc[t] = "keys"
  /\ Stage(staged.primary, staged.index \cup KeysToPut(Put(t)))
  /\ Goto(t, "commit")
  /\ UNCHANGED <<committedVars, writer, batch, returned, findVars, requests>>

\* KeyBuilder caches the prefixes of keys in dictionaries that nothing guards.
\* A lookup on another thread, which is not in LMDB's mutex, can come between
\* a put's TryGetValue and its Add: Add throws, the transaction is disposed,
\* and the exception ends the batch.
KeysThrow(t) ==
  /\ pc[t] = "keys"
  /\ \E u \in Threads \ {t} : query[u] # NoQuery
  /\ Abort
  /\ batch' = [batch EXCEPT ![t] = <<>>]
  /\ Goto(t, "idle")
  /\ UNCHANGED <<returned, findVars, requests>>

\* Commit fails on a flagged transaction and its pages are dropped; the
\* result is ignored, so the put returns either way and the batch goes on.
Commit(t) ==
  /\ pc[t] = "commit"
  /\ IF staged.failed
     THEN Abort
     ELSE primary' = staged.primary /\ index' = staged.index /\ Release
  /\ returned' = returned \cup {Put(t)}
  /\ batch' = [batch EXCEPT ![t] = Tail(@)]
  /\ Goto(t, IF Len(batch[t]) = 1 THEN "idle" ELSE "begin")
  /\ UNCHANGED <<findVars, requests>>
-----------------------------------------------------------------------------
(* Finds.                                                                  *)

\* FindByKey and FindByKeySince up to the cursor's first position.
BeginFind(t) ==
  /\ Accept(t)
  /\ \E q \in Queries :
       /\ query' = [query EXCEPT ![t] = q]
       /\ todo' = [todo EXCEPT ![t] = {k \in index : Answers(k, q)}]
  /\ view' = [view EXCEPT ![t] = primary]
  /\ found' = [found EXCEPT ![t] = {}]
  /\ Goto(t, "scan")
  /\ UNCHANGED <<committedVars, writeVars>>

\* Mutant of GetById: a record changed since the snapshot is not there.
GetByIdInView(t, k) ==
  IF primary[k.id] = view[t][k.id] THEN primary[k.id] ELSE NoRecord

\* Not the record in t's view: the one of now.
GetById(t, k) == primary[k.id]

\* Mutant of Collected: FindSince keeps every block.
CollectedAll(t, k, rec) == {[key |-> k, rec |-> rec]}

Collected(t, k, rec) ==
  IF After(rec, query[t].since) THEN {[key |-> k, rec |-> rec]} ELSE {}

\* One turn of the loop, with GetById in a write transaction of its own; a
\* missing record ends the scan.
FetchEntry(t) ==
  /\ pc[t] = "scan"
  /\ WriterFree
  /\ \E k \in todo[t] :
       LET rec == GetById(t, k) IN
       IF rec = NoRecord
       THEN /\ todo' = [todo EXCEPT ![t] = {}]
            /\ UNCHANGED found
       ELSE /\ todo' = [todo EXCEPT ![t] = @ \ {k}]
            /\ found' = [found EXCEPT ![t] = @ \cup Collected(t, k, rec)]
  /\ UNCHANGED <<committedVars, writeVars, query, view, pc, requests>>

EndFind(t) ==
  /\ pc[t] = "scan"
  /\ todo[t] = {}
  /\ Goto(t, "done")
  /\ UNCHANGED <<committedVars, writeVars, findVars, requests>>

\* Seen by the loop's test, a cancellation returns what was collected; seen
\* by GetById, it throws and the request has no answer.
CancelFind(t) ==
  /\ pc[t] = "scan"
  /\ todo' = [todo EXCEPT ![t] = {}]
  /\ \/ Goto(t, "cancelled") /\ UNCHANGED found
     \/ Goto(t, "idle") /\ found' = [found EXCEPT ![t] = {}]
  /\ UNCHANGED <<committedVars, writeVars, query, view, requests>>
-----------------------------------------------------------------------------
\* The host process dies and restarts.
Crash ==
  /\ \E t \in Threads : pc[t] \notin Resting
  /\ Abort
  /\ pc' = [t \in Threads |-> "idle"]
  /\ batch' = [t \in Threads |-> <<>>]
  /\ todo' = [t \in Threads |-> {}]
  /\ found' = [t \in Threads |-> {}]
  /\ UNCHANGED <<query, view, returned, requests>>

Step(t) ==
  \/ BeginPut(t) \/ PutRecord(t) \/ PutKeys(t) \/ Commit(t)
  \/ FetchEntry(t) \/ EndFind(t)

Next ==
  \/ Crash
  \/ \E t \in Threads :
       RequestPuts(t) \/ KeysThrow(t) \/ BeginFind(t) \/ CancelFind(t) \/ Step(t)

\* A request that can go on does; LMDB's writer mutex passes over no waiter
\* for ever.
Fairness == \A t \in Threads : SF_vars(Step(t))

Spec == Init /\ [][Next]_vars /\ Fairness
-----------------------------------------------------------------------------
(* Properties.                                                             *)

\* Every stored record is under each of the keys of what it now holds: no
\* put that fails, throws, crashes or interleaves leaves a record that some
\* lookup misses.
IndexComplete ==
  \A i \in Ids : primary[i] # NoRecord => IndexKeys(primary[i]) \subseteq index

\* Every index key leads to a stored record of the class it was written for,
\* so a scan is never cut short by GetById finding nothing (Store.cs:164).
IndexGrounded ==
  \A k \in index : k.id \in Ids /\ primary[k.id] # NoRecord /\ k.type = TypeOf[k.id]

\* A find that ran to its end, however many puts committed under it, has an
\* entry for every record of its snapshot that the lookup names.
FindComplete ==
  \A t \in Threads :
    pc[t] = "done" /\ query[t].since = NoBlock =>
      \A i \in Ids :
        /\ view[t][i] # NoRecord
        /\ \E k \in IndexKeys(view[t][i]) : Answers(k, query[t])
        => \E a \in found[t] : a.key.id = i

\* The records of the snapshot a lookup names and its block filter keeps.
Named(t) ==
  {r \in {view[t][i] : i \in Ids} \ {NoRecord} :
     After(r, query[t].since) /\ \E k \in IndexKeys(r) : Answers(k, query[t])}

\* As the indexers use the store, a GUID is never stored with a second
\* content; then a find returns exactly the records its lookup names, each
\* once, although it fetches them outside its snapshot.
FindExact ==
  \A t \in Threads :
    pc[t] = "done" => /\ {a.rec : a \in found[t]} = Named(t)
                      /\ Cardinality(found[t]) = Cardinality(Named(t))

\* While the map has room, a put that returned to its caller is in the store
\* for good, through later puts, batches that stop half-way and restarts.
ReturnedIsStored ==
  \A p \in returned : primary[p.rec.id] # NoRecord /\ IndexKeys(p.rec) \subseteq index

\* A put with no room left is dropped whole: a commit changes at most the one
\* record of its put, and adds all of that record's keys or none.
OnlyWholePuts ==
  [][\A t \in Threads : writer = t /\ writer' # t =>
       \/ UNCHANGED committedVars
       \/ /\ index' = index \cup IndexKeys(Put(t).rec)
          /\ primary' = Stored(primary, Put(t))]_vars

\* Every request ends, waiting in turn for the one writer.
RequestsEnd ==
  \A t \in Threads : pc[t] \notin Resting ~> pc[t] \in Resting

\* The puts of a thread, as the abstract store sees them.
Promise == INSTANCE RecordStore WITH
  Clients <- Threads, stored <- primary, pending <- batch

\* The store implements the promise: puts are atomic, in order, or lost.
ImplementsRecordStore == Promise!Spec

\* IndexingTests.cs:43, "since we called append, no change is registered":
\* an Append whose GUID is taken changes nothing in the store.
AppendRegistersNoChange ==
  [][\A t \in Threads :
       writer = t /\ Put(t).mode = "Append" /\ primary[Put(t).rec.id] # NoRecord
         => UNCHANGED committedVars]_vars
=============================================================================
