-------------------------- MODULE IndexStoreProofs ---------------------------
(***************************************************************************)
(* Theorems about IndexStore for any records, keys, threads and capacity.  *)
(* The inductive invariant adds to the type invariant what a thread's      *)
(* place implies: who holds the write transaction, what its pages hold,    *)
(* and what a scan has still to reach.                                     *)
(*                                                                         *)
(* Two theorems hold of some instances only, and are stated under the      *)
(* condition that tells them: while the map has room for all there is,     *)
(* what a put returned is stored; and where a GUID has one content, as the *)
(* indexers use the store, finds are exact.                                *)
(***************************************************************************)
EXTENDS IndexStore, SequenceTheorems, FiniteSetTheorems, TLAPS

USE RecordsAssumption, StoreAssumption
USE DEF WriterFree, Release, Abort, KeysToPut, GetById

PutSet == [mode : {"Append", "Save"}, rec : Records]

\* A thread has puts left exactly while it is putting.
BatchInv == \A t \in Threads : pc[t] \in Putting <=> batch[t] # <<>>

\* The threads inside a write transaction are the writer.
WriterInv ==
  \A t \in Threads : pc[t] \in {"record", "keys", "commit"} <=> writer = t

\* The writer's pages are the committed ones with the part of its put that is
\* done, unless LMDB has flagged them.
StagedInv ==
  \A t \in Threads :
    /\ pc[t] = "record" => /\ staged.primary = primary
                           /\ staged.index = index
    /\ pc[t] = "keys" /\ ~staged.failed =>
         /\ staged.primary = Stored(primary, Put(t))
         /\ staged.index = index
    /\ pc[t] = "commit" /\ ~staged.failed =>
         /\ staged.primary = Stored(primary, Put(t))
         /\ staged.index = index \cup IndexKeys(Put(t).rec)

IInv == TypeOK /\ BatchInv /\ WriterInv /\ StagedInv

-----------------------------------------------------------------------------
(* Lemmas about the operators.                                             *)

\* A key of a record holds the record's GUID and class.
LEMMA KeyOfRecord ==
  ASSUME NEW r \in Records, NEW k \in IndexKeys(r)
  PROVE  k.id = r.id /\ k.id \in Ids /\ k.type = TypeOf[k.id]
  BY DEF IndexKeys, IdKey, IndexKey

\* Any key some record can have holds a GUID.
LEMMA KeyHasId ==
  ASSUME NEW k \in AllKeys
  PROVE  k.id \in Ids
  BY KeyOfRecord DEF AllKeys

\* The records after a put are records, and only the put's GUID can differ.
LEMMA StoredFacts ==
  ASSUME NEW s \in [Ids -> Records \cup {NoRecord}], NEW p \in PutSet
  PROVE  /\ Stored(s, p) \in [Ids -> Records \cup {NoRecord}]
         /\ Stored(s, p)[p.rec.id] # NoRecord
         /\ \A i \in Ids : Stored(s, p)[i] = s[i] \/ Stored(s, p)[i] = p.rec
  BY DEF Stored, PutSet

\* What a thread puts next is a put.
LEMMA HeadOfBatch ==
  ASSUME NEW b \in Seq(PutSet), b # <<>>
  PROVE  Head(b) \in PutSet /\ Tail(b) \in Seq(PutSet)
  OBVIOUS

\* A batch of one has nothing after its head, and no other has nothing.
LEMMA LastOfBatch ==
  ASSUME NEW b \in Seq(PutSet), b # <<>>
  PROVE  Len(b) = 1 <=> Tail(b) = <<>>
<1>1. Len(b) \in Nat /\ Len(b) # 0
  BY EmptySeq
<1>2. Tail(b) \in Seq(PutSet) /\ Len(Tail(b)) = Len(b) - 1
  BY HeadTailProperties
<1>3. Tail(b) = <<>> <=> Len(Tail(b)) = 0
  BY <1>2, EmptySeq
<1> QED BY <1>1, <1>2, <1>3

\* Whatever LMDB makes of a put, the pages stay pages.
LEMMA StageType ==
  ASSUME TypeOK, NEW s \in [Ids -> Records \cup {NoRecord}],
         NEW K \in SUBSET AllKeys, Stage(s, K)
  PROVE  /\ staged' \in [primary : [Ids -> Records \cup {NoRecord}],
                         index : SUBSET AllKeys, failed : BOOLEAN]
         /\ ~staged'.failed => /\ ~staged.failed
                               /\ staged'.primary = s
                               /\ staged'.index = K
<1> DEFINE Pages == [primary : [Ids -> Records \cup {NoRecord}],
                     index : SUBSET AllKeys, failed : BOOLEAN]
<1>1. staged \in Pages
  BY DEF TypeOK
<1>2. CASE ~staged.failed /\ Fits(s, K)
  <2>1. staged' = [primary |-> s, index |-> K, failed |-> FALSE]
    BY <1>2 DEF Stage
  <2> QED BY <1>2, <2>1
<1>3. CASE ~(~staged.failed /\ Fits(s, K))
  <2>1. staged' = [staged EXCEPT !.failed = TRUE]
    BY <1>3 DEF Stage
  <2>2. staged' \in Pages /\ staged'.failed
    BY <1>1, <2>1
  <2> QED BY <2>2
<1> QED BY <1>2, <1>3
-----------------------------------------------------------------------------
(* The inductive invariant.                                                *)

LEMMA InitIInv == Init => IInv
  BY DEF Init, IInv, TypeOK, BatchInv, WriterInv, StagedInv, NoPages, Putting, Resting

LEMMA NextIInv ==
  ASSUME IInv, [Next]_vars
  PROVE  IInv'
<1> USE DEF IInv
<1> USE DEF PutSet
<1>1. ASSUME NEW t \in Threads, RequestPuts(t) PROVE IInv'
  <2>1. PICK b \in Batches : b # <<>> /\ batch' = [batch EXCEPT ![t] = b]
    BY <1>1 DEF RequestPuts
  <2>2. b \in Seq(PutSet)
    OBVIOUS
  <2>3. batch' \in [Threads -> Seq(PutSet)] /\ found' \in [Threads -> SUBSET Answer]
    BY <1>1, <2>1, <2>2 DEF RequestPuts, TypeOK
  <2>4. TypeOK'
    <3>1. requests' \in 0..MaxRequests
      BY <1>1 DEF RequestPuts, Accept, TypeOK
    <3>2. pc' \in [Threads -> Resting \cup Putting \cup {"scan"}]
      BY <1>1 DEF RequestPuts, Goto, TypeOK, Putting
    <3> QED BY <1>1, <2>3, <3>1, <3>2 DEF RequestPuts, TypeOK, committedVars
  <2>5. BatchInv' /\ WriterInv'
    BY <1>1, <2>1 DEF RequestPuts, Accept, Goto, TypeOK, BatchInv, WriterInv, Putting, Resting
  <2>6. StagedInv'
    BY <1>1, <2>1 DEF RequestPuts, Goto, TypeOK, StagedInv, Put, Stored, committedVars
  <2> QED BY <2>4, <2>5, <2>6
<1>2. ASSUME NEW t \in Threads, BeginPut(t) PROVE IInv'
  BY <1>2 DEF BeginPut, Goto, TypeOK, BatchInv, WriterInv, StagedInv, Put,
              committedVars, findVars, Putting, Resting
<1>3. ASSUME NEW t \in Threads, PutRecord(t) PROVE IInv'
  <2>1. Put(t) \in PutSet
    BY <1>3, HeadOfBatch DEF PutRecord, TypeOK, BatchInv, Put, Putting
  <2>2. /\ staged' \in [primary : [Ids -> Records \cup {NoRecord}],
                        index : SUBSET AllKeys, failed : BOOLEAN]
        /\ ~staged'.failed => /\ staged'.primary = Stored(primary, Put(t))
                              /\ staged'.index = index
    <3>1. /\ staged.primary = primary /\ staged.index = index
          /\ Stage(Stored(primary, Put(t)), index)
      BY <1>3 DEF PutRecord, StagedInv
    <3>2. /\ Stored(primary, Put(t)) \in [Ids -> Records \cup {NoRecord}]
          /\ index \in SUBSET AllKeys
      BY <2>1, StoredFacts DEF TypeOK
    <3> QED BY <3>1, <3>2, StageType
  <2>3. TypeOK'
    BY <1>3, <2>2 DEF PutRecord, Goto, TypeOK, committedVars, findVars, Putting
  <2>4. BatchInv' /\ WriterInv'
    BY <1>3 DEF PutRecord, Goto, TypeOK, BatchInv, WriterInv, Putting
  <2>5. StagedInv'
    BY <1>3, <2>2, <2>4 DEF PutRecord, Goto, TypeOK, WriterInv, StagedInv, Put, Stored,
                            committedVars
  <2> QED BY <2>3, <2>4, <2>5
<1>4. ASSUME NEW t \in Threads, PutKeys(t) PROVE IInv'
  <2>1. Put(t) \in PutSet
    BY <1>4, HeadOfBatch DEF PutKeys, TypeOK, BatchInv, Put, Putting
  <2>2. IndexKeys(Put(t).rec) \subseteq AllKeys
    BY <2>1 DEF AllKeys
  <2>3. /\ staged' \in [primary : [Ids -> Records \cup {NoRecord}],
                        index : SUBSET AllKeys, failed : BOOLEAN]
        /\ ~staged'.failed =>
             /\ staged'.primary = Stored(primary, Put(t))
             /\ staged'.index = index \cup IndexKeys(Put(t).rec)
    <3>1. /\ staged.primary \in [Ids -> Records \cup {NoRecord}]
          /\ staged.index \cup IndexKeys(Put(t).rec) \in SUBSET AllKeys
      BY <2>2 DEF TypeOK
    <3> QED BY <1>4, <3>1, StageType DEF PutKeys, StagedInv
  <2>4. TypeOK'
    BY <1>4, <2>3 DEF PutKeys, Goto, TypeOK, committedVars, findVars, Putting
  <2>5. BatchInv' /\ WriterInv'
    BY <1>4 DEF PutKeys, Goto, TypeOK, BatchInv, WriterInv, Putting
  <2>6. StagedInv'
    BY <1>4, <2>3, <2>5 DEF PutKeys, Goto, TypeOK, WriterInv, StagedInv, Put, Stored,
                            committedVars
  <2> QED BY <2>4, <2>5, <2>6
<1>5. ASSUME NEW t \in Threads, Commit(t) PROVE IInv'
  <2>1. Put(t) \in PutSet /\ Tail(batch[t]) \in Seq(PutSet)
    BY <1>5, HeadOfBatch DEF Commit, TypeOK, BatchInv, Put, Putting
  <2>2. Len(batch[t]) = 1 <=> Tail(batch[t]) = <<>>
    <3>1. batch[t] \in Seq(PutSet) /\ batch[t] # <<>>
      BY <1>5 DEF Commit, TypeOK, BatchInv, Putting
    <3> QED BY <3>1, LastOfBatch
  <2>3. TypeOK'
    <3>1. primary' \in [Ids -> Records \cup {NoRecord}] /\ index' \subseteq AllKeys
      BY <1>5 DEF Commit, TypeOK, committedVars
    <3>2. pc' \in [Threads -> Resting \cup Putting \cup {"scan"}]
      BY <1>5 DEF Commit, Goto, TypeOK, Resting, Putting
    <3>3. batch' \in [Threads -> Seq(PutSet)] /\ returned' \subseteq PutSet
      BY <1>5, <2>1 DEF Commit, TypeOK
    <3>4. NoPages \in [primary : [Ids -> Records \cup {NoRecord}],
                       index : SUBSET AllKeys, failed : BOOLEAN]
      BY DEF NoPages
    <3> QED BY <1>5, <3>1, <3>2, <3>3, <3>4 DEF Commit, TypeOK, findVars
  <2>4. BatchInv' /\ WriterInv'
    BY <1>5, <2>2 DEF Commit, Goto, TypeOK, BatchInv, WriterInv, Putting
  <2>5. StagedInv'
    <3>1. writer' = NoThread
      BY <1>5 DEF Commit
    <3>2. \A s \in Threads : pc'[s] \notin {"record", "keys", "commit"}
      BY <2>4, <3>1 DEF WriterInv
    <3> QED BY <3>2 DEF StagedInv
  <2> QED BY <2>3, <2>4, <2>5
<1>6. ASSUME NEW t \in Threads, BeginFind(t) PROVE IInv'
  <2>1. TypeOK'
    <3>1. PICK q \in Queries :
            /\ query' = [query EXCEPT ![t] = q]
            /\ todo' = [todo EXCEPT ![t] = {k \in index : Answers(k, q)}]
      BY <1>6 DEF BeginFind
    <3>2. query' \in [Threads -> Queries \cup {NoQuery}]
      BY <3>1 DEF TypeOK
    <3>3. todo' \in [Threads -> SUBSET AllKeys]
      BY <3>1 DEF TypeOK
    <3>4. found' \in [Threads -> SUBSET Answer]
      BY <1>6 DEF BeginFind, TypeOK
    <3>5. view' \in [Threads -> [Ids -> Records \cup {NoRecord}]]
      BY <1>6 DEF BeginFind, TypeOK
    <3>6. requests' \in 0..MaxRequests
      BY <1>6 DEF BeginFind, Accept, TypeOK
    <3>7. pc' \in [Threads -> Resting \cup Putting \cup {"scan"}]
      BY <1>6 DEF BeginFind, Goto, TypeOK
    <3> QED
      BY <1>6, <3>2, <3>3, <3>4, <3>5, <3>6, <3>7
      DEF BeginFind, TypeOK, committedVars, writeVars
  <2> QED
    BY <1>6, <2>1 DEF BeginFind, Accept, Goto, TypeOK, BatchInv, WriterInv, StagedInv, Put,
                committedVars, writeVars, Resting, Putting
<1>7. ASSUME NEW t \in Threads, FetchEntry(t) PROVE IInv'
  <2>1. found' \in [Threads -> SUBSET Answer] /\ todo' \in [Threads -> SUBSET AllKeys]
    <3>1. PICK k \in todo[t] :
            LET rec == primary[k.id] IN
            IF rec = NoRecord
            THEN todo' = [todo EXCEPT ![t] = {}] /\ UNCHANGED found
            ELSE /\ todo' = [todo EXCEPT ![t] = @ \ {k}]
                 /\ found' = [found EXCEPT ![t] = @ \cup Collected(t, k, rec)]
      BY <1>7 DEF FetchEntry
    <3>2. k \in AllKeys /\ primary[k.id] \in Records \cup {NoRecord}
      BY KeyHasId DEF TypeOK
    <3>3. CASE primary[k.id] = NoRecord
      BY <3>1, <3>3 DEF TypeOK
    <3>4. CASE primary[k.id] # NoRecord
      <4>1. [key |-> k, rec |-> primary[k.id]] \in Answer
        BY <3>2, <3>4 DEF Answer
      <4>2. Collected(t, k, primary[k.id]) \subseteq Answer
        BY <4>1 DEF Collected
      <4>3. found' \in [Threads -> SUBSET Answer]
        <5>1. found' = [found EXCEPT ![t] = @ \cup Collected(t, k, primary[k.id])]
          BY <3>1, <3>4
        <5> QED BY <4>2, <5>1 DEF TypeOK
      <4>4. todo' = [todo EXCEPT ![t] = @ \ {k}]
        BY <3>1, <3>4
      <4> QED BY <4>3, <4>4 DEF TypeOK
    <3> QED BY <3>3, <3>4
  <2> QED
    BY <1>7, <2>1 DEF FetchEntry, TypeOK, BatchInv, WriterInv, StagedInv, Put,
                committedVars, writeVars
<1>8. ASSUME NEW t \in Threads, EndFind(t) PROVE IInv'
  BY <1>8 DEF EndFind, Goto, TypeOK, BatchInv, WriterInv, StagedInv, Put,
              committedVars, writeVars, findVars, Resting, Putting
<1>9. ASSUME NEW t \in Threads, CancelFind(t) PROVE IInv'
  BY <1>9 DEF CancelFind, Goto, TypeOK, BatchInv, WriterInv, StagedInv, Put,
              committedVars, writeVars, Resting, Putting, Answer
<1>10. ASSUME Crash PROVE IInv'
  BY <1>10 DEF Crash, TypeOK, BatchInv, WriterInv, StagedInv, NoPages,
               committedVars, Resting, Putting, Answer
<1>11. ASSUME NEW t \in Threads, KeysThrow(t) PROVE IInv'
  <2>1. NoPages \in [primary : [Ids -> Records \cup {NoRecord}],
                     index : SUBSET AllKeys, failed : BOOLEAN]
    BY DEF NoPages
  <2>2. batch' \in [Threads -> Seq(PutSet)]
    <3>1. batch \in [Threads -> Seq(PutSet)]
      BY DEF TypeOK
    <3>2. <<>> \in Seq(PutSet)
      OBVIOUS
    <3>3. batch' = [batch EXCEPT ![t] = <<>>]
      BY <1>11 DEF KeysThrow
    <3> HIDE DEF PutSet
    <3> QED BY <3>1, <3>2, <3>3
  <2>3. TypeOK'
    BY <1>11, <2>1, <2>2 DEF KeysThrow, Goto, TypeOK, committedVars, findVars, Resting
  <2>4. BatchInv' /\ WriterInv'
    BY <1>11 DEF KeysThrow, Goto, TypeOK, BatchInv, WriterInv, Putting
  <2>5. StagedInv'
    <3>1. writer' = NoThread
      BY <1>11 DEF KeysThrow
    <3>2. \A s \in Threads : pc'[s] \notin {"record", "keys", "commit"}
      BY <2>4, <3>1 DEF WriterInv
    <3> QED BY <3>2 DEF StagedInv
  <2> QED BY <2>3, <2>4, <2>5
<1>12. ASSUME UNCHANGED vars PROVE IInv'
  BY <1>12 DEF vars, TypeOK, BatchInv, WriterInv, StagedInv, Put,
               committedVars, writeVars, findVars
<1> QED
  BY <1>1, <1>2, <1>3, <1>4, <1>5, <1>6, <1>7, <1>8, <1>9, <1>10, <1>11, <1>12 DEF Next, Step
-----------------------------------------------------------------------------
(* Theorems.                                                               *)

\* The variables of the store always hold values of their types: records,
\* index keys, the open transaction and the threads' places (Store.cs).
THEOREM TypeCorrect == Spec => []TypeOK
<1>1. IInv => TypeOK
  BY DEF IInv
<1> QED BY <1>1, InitIInv, NextIInv, PTL DEF Spec

\* A commit changes at most the record of its own put and adds that put's
\* keys, all or none (Store.Put, Store.cs:63-102).
THEOREM PutsAreWhole == Spec => OnlyWholePuts
<1>1. ASSUME IInv, [Next]_vars, NEW t \in Threads, writer = t, writer' # t
      PROVE  \/ UNCHANGED committedVars
             \/ /\ index' = index \cup IndexKeys(Put(t).rec)
                /\ primary' = Stored(primary, Put(t))
  <2> USE <1>1
  <2>1. CASE Crash
    BY <2>1 DEF Crash
  <2>2. ASSUME NEW u \in Threads, Commit(u) PROVE u = t
    BY <2>2 DEF Commit, IInv, WriterInv
  <2>3. CASE Commit(t)
    BY <2>3 DEF Commit, IInv, StagedInv, committedVars
  <2>4. ASSUME NEW u \in Threads, RequestPuts(u) \/ KeysThrow(u) \/ BeginFind(u) \/ CancelFind(u)
                 \/ BeginPut(u) \/ PutRecord(u) \/ PutKeys(u) \/ FetchEntry(u) \/ EndFind(u)
        PROVE  UNCHANGED committedVars
    BY <2>4 DEF RequestPuts, KeysThrow, BeginFind, CancelFind, BeginPut, PutRecord,
                PutKeys, FetchEntry, EndFind
  <2>5. CASE UNCHANGED vars
    BY <2>5 DEF vars
  <2> QED BY <2>1, <2>2, <2>3, <2>4, <2>5 DEF Next, Step
<1>2. IInv /\ [Next]_vars =>
        [\A t \in Threads : writer = t /\ writer' # t =>
           \/ UNCHANGED committedVars
           \/ /\ index' = index \cup IndexKeys(Put(t).rec)
              /\ primary' = Stored(primary, Put(t))]_vars
  BY <1>1
<1> QED BY <1>2, InitIInv, NextIInv, PTL DEF Spec, OnlyWholePuts
-----------------------------------------------------------------------------
(* Integrity of the index.                                                 *)

\* What a step does to the committed pages.
LEMMA CommittedStep ==
  ASSUME IInv, [Next]_vars
  PROVE  \/ UNCHANGED committedVars
         \/ \E p \in PutSet : /\ primary' = Stored(primary, p)
                             /\ index' = index \cup IndexKeys(p.rec)
<1>1. ASSUME NEW t \in Threads, Commit(t)
      PROVE  \/ UNCHANGED committedVars
             \/ \E p \in PutSet : /\ primary' = Stored(primary, p)
                                 /\ index' = index \cup IndexKeys(p.rec)
  <2>1. Put(t) \in PutSet
    BY <1>1, HeadOfBatch DEF Commit, IInv, TypeOK, BatchInv, Put, Putting, PutSet
  <2> QED BY <1>1, <2>1 DEF Commit, IInv, StagedInv, committedVars
<1>2. ASSUME NEW u \in Threads, RequestPuts(u) \/ KeysThrow(u) \/ BeginFind(u) \/ CancelFind(u)
               \/ BeginPut(u) \/ PutRecord(u) \/ PutKeys(u) \/ FetchEntry(u) \/ EndFind(u)
      PROVE  UNCHANGED committedVars
  BY <1>2 DEF RequestPuts, KeysThrow, BeginFind, CancelFind, BeginPut, PutRecord,
              PutKeys, FetchEntry, EndFind
<1>3. Crash => UNCHANGED committedVars
  BY DEF Crash
<1>4. UNCHANGED vars => UNCHANGED committedVars
  BY DEF vars
<1> QED BY <1>1, <1>2, <1>3, <1>4 DEF Next, Step

\* A record is kept under its own GUID.
OwnId == \A i \in Ids : primary[i] # NoRecord => primary[i].id = i

IndexInv == IInv /\ IndexComplete /\ IndexGrounded /\ OwnId

LEMMA InitIndexInv == Init => IndexInv
  BY InitIInv DEF IndexInv, Init, IndexComplete, IndexGrounded, OwnId

LEMMA NextIndexInv ==
  ASSUME IndexInv, [Next]_vars
  PROVE  IndexInv'
<1>1. IInv'
  BY NextIInv DEF IndexInv
<1>2. CASE UNCHANGED committedVars
  BY <1>1, <1>2 DEF IndexInv, IndexComplete, IndexGrounded, OwnId, committedVars
<1>3. ASSUME NEW p \in PutSet, primary' = Stored(primary, p),
             index' = index \cup IndexKeys(p.rec)
      PROVE  IndexInv'
  <2>1. p.rec \in Records /\ p.rec.id \in Ids
    BY DEF PutSet
  <2>2. primary \in [Ids -> Records \cup {NoRecord}]
    BY DEF IndexInv, IInv, TypeOK
  <2>3. IndexComplete'
    BY <1>3, <2>1, <2>2, StoredFacts DEF IndexInv, IndexComplete
  <2>4. ASSUME NEW i \in Ids, primary[i] # NoRecord PROVE primary'[i] # NoRecord
    BY <1>3, <2>1, <2>2, <2>4, StoredFacts
  <2>5. IndexGrounded'
    <3> SUFFICES ASSUME NEW k \in index'
                 PROVE  k.id \in Ids /\ primary'[k.id] # NoRecord /\ k.type = TypeOf[k.id]
      BY DEF IndexGrounded
    <3>1. CASE k \in index
      BY <2>4, <3>1 DEF IndexInv, IndexGrounded
    <3>2. CASE k \in IndexKeys(p.rec)
      BY <1>3, <2>1, <2>2, <3>2, KeyOfRecord, StoredFacts
    <3> QED BY <1>3, <3>1, <3>2
  <2>6. OwnId'
    BY <1>3, <2>1, <2>2 DEF IndexInv, OwnId, Stored
  <2> QED BY <1>1, <2>3, <2>5, <2>6 DEF IndexInv
<1> QED BY <1>2, <1>3, CommittedStep DEF IndexInv

\* Every stored record is under each of its keys, whatever puts fail, crash or
\* interleave (Store.Put, Store.cs:80-101).
THEOREM EveryRecordIsIndexed == Spec => []IndexComplete
<1>1. IndexInv => IndexComplete
  BY DEF IndexInv
<1> QED BY <1>1, InitIndexInv, NextIndexInv, PTL DEF Spec

\* Every index key leads to a stored record of its class, so GetById never
\* cuts a scan short (Store.cs:163-165).
THEOREM EveryKeyLeadsToARecord == Spec => []IndexGrounded
<1>1. IndexInv => IndexGrounded
  BY DEF IndexInv
<1> QED BY <1>1, InitIndexInv, NextIndexInv, PTL DEF Spec
-----------------------------------------------------------------------------
(* Finds.                                                                  *)

\* A scan has collected the record of GUID i, or has it still to reach.
Reaches(t, i) ==
  \/ \E a \in found[t] : a.key.id = i
  \/ \E k \in todo[t] : k.id = i

\* The record of GUID i is in the thread's snapshot, and its lookup names it.
Wanted(t, i) ==
  view[t][i] # NoRecord /\ \E k \in IndexKeys(view[t][i]) : Answers(k, query[t])

\* Each key a scan has still to reach is in the index, and each record its
\* lookup names is collected or still to be reached.
ScanOf(t) ==
  /\ pc[t] = "done" => todo[t] = {}
  /\ todo[t] \subseteq index
  /\ pc[t] \in {"scan", "done"} /\ query[t].since = NoBlock =>
       \A i \in Ids : Wanted(t, i) => Reaches(t, i)

ScanInv == \A t \in Threads : ScanOf(t)

FindInv == IndexInv /\ ScanInv

LEMMA InitFindInv == Init => FindInv
  BY InitIndexInv DEF Init, FindInv, ScanInv, ScanOf

\* Nothing is ever taken out of the index.
LEMMA IndexGrows ==
  ASSUME IInv, [Next]_vars
  PROVE  index \subseteq index'
  BY CommittedStep DEF committedVars

\* A step that leaves a thread's scan alone keeps what is known of it.
LEMMA ScanUntouched ==
  ASSUME NEW t \in Threads, ScanOf(t), index \subseteq index',
         pc'[t] = pc[t], query'[t] = query[t], view'[t] = view[t],
         todo'[t] = todo[t], found'[t] = found[t]
  PROVE  ScanOf(t)'
<1>1. \A i \in Ids : (Wanted(t, i)' <=> Wanted(t, i)) /\ (Reaches(t, i)' <=> Reaches(t, i))
  BY DEF Wanted, Reaches
<1> QED BY <1>1 DEF ScanOf

\* Outside a scan only the keys left over matter.
LEMMA NotScanning ==
  ASSUME NEW t \in Threads, pc'[t] \notin {"scan", "done"}, todo'[t] \subseteq index'
  PROVE  ScanOf(t)'
  BY DEF ScanOf

LEMMA NextFindInv ==
  ASSUME FindInv, [Next]_vars
  PROVE  FindInv'
<1> USE DEF FindInv
<1>1. IndexInv' /\ index \subseteq index'
  BY NextIndexInv, IndexGrows DEF IndexInv
<1>2. TypeOK
  BY DEF IndexInv, IInv
<1>3. ASSUME NEW t \in Threads, RequestPuts(t) PROVE ScanInv'
  <2>1. pc'[t] = "begin" /\ todo'[t] \subseteq index'
    BY <1>1, <1>2, <1>3 DEF RequestPuts, Goto, TypeOK, ScanInv, ScanOf
  <2>2. ASSUME NEW u \in Threads \ {t} PROVE ScanOf(u)'
    BY <1>1, <1>2, <1>3, <2>2, ScanUntouched DEF RequestPuts, Goto, TypeOK, ScanInv
  <2> QED BY <2>1, <2>2, NotScanning DEF ScanInv
<1>4. ASSUME NEW t \in Threads, BeginPut(t) \/ PutRecord(t) \/ PutKeys(t)
                                      \/ KeysThrow(t) \/ Commit(t)
      PROVE  ScanInv'
  <2>1. UNCHANGED findVars
    BY <1>4 DEF BeginPut, PutRecord, PutKeys, KeysThrow, Commit
  <2>2. pc'[t] \notin {"scan", "done"} /\ todo'[t] \subseteq index'
    BY <1>1, <1>2, <1>4, <2>1
    DEF BeginPut, PutRecord, PutKeys, KeysThrow, Commit, Goto, TypeOK, ScanInv, ScanOf,
        findVars
  <2>3. ASSUME NEW u \in Threads \ {t} PROVE ScanOf(u)'
    <3>1. pc'[u] = pc[u]
      BY <1>2, <1>4 DEF BeginPut, PutRecord, PutKeys, KeysThrow, Commit, Goto, TypeOK
    <3> QED BY <1>1, <2>1, <3>1, ScanUntouched DEF ScanInv, findVars
  <2> QED BY <2>2, <2>3, NotScanning DEF ScanInv
<1>5. ASSUME NEW t \in Threads, BeginFind(t) PROVE ScanInv'
  <2>1. PICK q \in Queries :
          /\ query' = [query EXCEPT ![t] = q]
          /\ todo' = [todo EXCEPT ![t] = {k \in index : Answers(k, q)}]
    BY <1>5 DEF BeginFind
  <2>2. /\ query'[t] = q
        /\ todo'[t] = {k \in index : Answers(k, q)}
        /\ view'[t] = primary
        /\ pc'[t] = "scan"
        /\ index' = index
    BY <1>2, <1>5, <2>1 DEF BeginFind, Goto, TypeOK, committedVars
  <2>3. ASSUME NEW i \in Ids, Wanted(t, i)' PROVE Reaches(t, i)'
    <3>1. PICK k \in IndexKeys(primary[i]) : Answers(k, q)
      BY <2>2, <2>3 DEF Wanted
    <3>2. primary[i] \in Records /\ primary[i].id = i
      BY <1>2, <2>2, <2>3 DEF TypeOK, Wanted, IndexInv, OwnId
    <3>3. k \in index /\ k.id = i
      BY <3>2, KeyOfRecord DEF IndexInv, IndexComplete
    <3> QED BY <2>2, <3>1, <3>3 DEF Reaches
  <2>4. ScanOf(t)'
    BY <2>2, <2>3 DEF ScanOf
  <2>5. ASSUME NEW u \in Threads \ {t} PROVE ScanOf(u)'
    BY <1>1, <1>2, <1>5, <2>1, ScanUntouched DEF BeginFind, Goto, TypeOK, ScanInv
  <2> QED BY <2>4, <2>5 DEF ScanInv
<1>6. ASSUME NEW t \in Threads, FetchEntry(t) PROVE ScanInv'
  <2>1. PICK k \in todo[t] :
          LET rec == primary[k.id] IN
          IF rec = NoRecord
          THEN todo' = [todo EXCEPT ![t] = {}] /\ UNCHANGED found
          ELSE /\ todo' = [todo EXCEPT ![t] = @ \ {k}]
               /\ found' = [found EXCEPT ![t] = @ \cup Collected(t, k, rec)]
    BY <1>6 DEF FetchEntry
  <2>2. primary[k.id] # NoRecord
    BY DEF ScanInv, ScanOf, IndexInv, IndexGrounded
  <2>3. /\ todo' = [todo EXCEPT ![t] = @ \ {k}]
        /\ found' = [found EXCEPT ![t] = @ \cup Collected(t, k, primary[k.id])]
    BY <2>1, <2>2
  <2>4. /\ todo'[t] = todo[t] \ {k}
        /\ query[t].since = NoBlock =>
             found'[t] = found[t] \cup {[key |-> k, rec |-> primary[k.id]]}
        /\ UNCHANGED <<pc, query, view, index>>
        /\ pc[t] = "scan"
    BY <1>2, <1>6, <2>3 DEF FetchEntry, TypeOK, Collected, After, committedVars
  <2>5. ASSUME NEW i \in Ids, query[t].since = NoBlock, Reaches(t, i)
        PROVE  Reaches(t, i)'
    <3>1. CASE \E a \in found[t] : a.key.id = i
      BY <2>4, <2>5, <3>1 DEF Reaches
    <3>2. CASE \E j \in todo[t] : j.id = i
      <4>1. PICK j \in todo[t] : j.id = i
        BY <3>2
      <4>2. CASE j = k
        <5> DEFINE entry == [key |-> k, rec |-> primary[k.id]]
        <5>1. entry \in found'[t] /\ entry.key.id = i
          BY <2>4, <2>5, <4>1, <4>2
        <5> QED BY <5>1 DEF Reaches
      <4>3. CASE j # k
        BY <2>4, <4>1, <4>3 DEF Reaches
      <4> QED BY <4>2, <4>3
    <3> QED BY <2>5, <3>1, <3>2 DEF Reaches
  <2>6. \A i \in Ids : Wanted(t, i)' <=> Wanted(t, i)
    BY <2>4 DEF Wanted
  <2>7. ScanOf(t)'
    BY <2>4, <2>5, <2>6 DEF ScanInv, ScanOf
  <2>8. ASSUME NEW u \in Threads \ {t} PROVE ScanOf(u)'
    <3>1. todo'[u] = todo[u] /\ found'[u] = found[u]
      BY <1>2, <2>3 DEF TypeOK
    <3> QED BY <1>1, <2>4, <3>1, ScanUntouched DEF ScanInv
  <2> QED BY <2>7, <2>8 DEF ScanInv
<1>7. ASSUME NEW t \in Threads, EndFind(t) PROVE ScanInv'
  <2>1. /\ UNCHANGED <<index, query, view, todo, found>>
        /\ pc[t] = "scan" /\ todo[t] = {}
        /\ \A u \in Threads \ {t} : pc'[u] = pc[u]
    BY <1>2, <1>7 DEF EndFind, Goto, TypeOK, committedVars, findVars
  <2>2. \A i \in Ids : (Wanted(t, i)' <=> Wanted(t, i)) /\ (Reaches(t, i)' <=> Reaches(t, i))
    BY <2>1 DEF Wanted, Reaches
  <2>3. ScanOf(t)'
    BY <2>1, <2>2 DEF ScanInv, ScanOf
  <2>4. ASSUME NEW u \in Threads \ {t} PROVE ScanOf(u)'
    BY <1>1, <2>1, ScanUntouched DEF ScanInv
  <2> QED BY <2>3, <2>4 DEF ScanInv
<1>8. ASSUME NEW t \in Threads, CancelFind(t) PROVE ScanInv'
  <2>1. pc'[t] \notin {"scan", "done"} /\ todo'[t] \subseteq index'
    BY <1>2, <1>8 DEF CancelFind, Goto, TypeOK
  <2>2. ASSUME NEW u \in Threads \ {t} PROVE ScanOf(u)'
    <3>1. /\ pc'[u] = pc[u] /\ query'[u] = query[u] /\ view'[u] = view[u]
          /\ todo'[u] = todo[u] /\ found'[u] = found[u]
      BY <1>2, <1>8 DEF CancelFind, Goto, TypeOK
    <3> QED BY <1>1, <3>1, ScanUntouched DEF ScanInv
  <2> QED BY <2>1, <2>2, NotScanning DEF ScanInv
<1>9. ASSUME Crash PROVE ScanInv'
  <2>1. \A t \in Threads : pc'[t] = "idle" /\ todo'[t] = {}
    BY <1>9 DEF Crash
  <2> QED BY <2>1, NotScanning DEF ScanInv
<1>10. ASSUME UNCHANGED vars PROVE ScanInv'
  BY <1>1, <1>10, ScanUntouched DEF vars, ScanInv, findVars
<1> QED
  BY <1>1, <1>3, <1>4, <1>5, <1>6, <1>7, <1>8, <1>9, <1>10 DEF Next, Step

\* A find that ran to its end has an entry for every record of its snapshot
\* that the lookup names, though it fetches outside the snapshot
\* (Store.FindByKey, Store.cs:131-175).
THEOREM FindsMissNothing == Spec => []FindComplete
<1>1. FindInv => FindComplete
  BY DEF FindInv, ScanInv, ScanOf, Wanted, Reaches, FindComplete
<1> QED BY <1>1, InitFindInv, NextFindInv, PTL DEF Spec
-----------------------------------------------------------------------------
(* Refinement.                                                             *)

\* The store implements the promise of module RecordStore: a put takes effect
\* at one instant, its commit, or is lost whole, and a thread's puts are
\* decided in order (Store.cs:44-102).
THEOREM Refines == Spec => ImplementsRecordStore
<1>1. Init => Promise!Init
  BY DEF Init, Promise!Init
<1>2. ASSUME IInv, [Next]_vars
      PROVE  [Promise!Next]_(Promise!storeVars)
  <2> USE <1>2 DEF IInv
  <2> USE DEF Promise!storeVars
  <2>1. ASSUME NEW t \in Threads, RequestPuts(t) PROVE Promise!Ask(t)
    <3>1. batch[t] = <<>>
      BY <2>1 DEF RequestPuts, Accept, BatchInv, Resting, Putting
    <3>2. batch'[t] \in Seq(PutSet) /\ batch' = [batch EXCEPT ![t] = batch'[t]]
      BY <2>1 DEF RequestPuts, TypeOK, PutSet
    <3> QED BY <2>1, <3>1, <3>2
            DEF RequestPuts, committedVars, PutSet, Promise!Ask, Promise!Puts, Promise!Modes
  <2>2. ASSUME NEW t \in Threads, Commit(t) PROVE Promise!Decide(t)
    <3>1. batch[t] # <<>>
      BY <2>2 DEF Commit, BatchInv, Putting
    <3>2. primary' \in {primary, Promise!After(primary, Head(batch[t]))}
      BY <2>2 DEF Commit, StagedInv, Stored, Put, Promise!After, committedVars
    <3> QED BY <2>2, <3>1, <3>2 DEF Commit, Promise!Decide
  <2>3. ASSUME Crash PROVE Promise!Forget
    BY <2>3 DEF Crash, Promise!Forget, committedVars
  <2>4. ASSUME NEW t \in Threads, KeysThrow(t) PROVE Promise!GiveUp(t)
    BY <2>4 DEF KeysThrow, Promise!GiveUp, committedVars
  <2>5. ASSUME NEW t \in Threads, BeginFind(t) \/ CancelFind(t)
                 \/ BeginPut(t) \/ PutRecord(t) \/ PutKeys(t) \/ FetchEntry(t) \/ EndFind(t)
        PROVE  UNCHANGED <<primary, batch>>
    BY <2>5 DEF BeginFind, CancelFind, BeginPut, PutRecord, PutKeys, FetchEntry, EndFind,
                committedVars, writeVars
  <2>6. UNCHANGED vars => UNCHANGED <<primary, batch>>
    BY DEF vars, committedVars, writeVars
  <2> QED BY <2>1, <2>2, <2>3, <2>4, <2>5, <2>6 DEF Next, Step, Promise!Next
<1> QED BY <1>1, <1>2, InitIInv, NextIInv, PTL DEF Spec, ImplementsRecordStore, Promise!Spec

-----------------------------------------------------------------------------
(* Room for everything.                                                    *)

\* The map never fills up.
Room ==
  /\ IsFiniteSet(Ids) /\ IsFiniteSet(AllKeys)
  /\ Capacity \in Nat
  /\ Cardinality(Ids) + Cardinality(AllKeys) <= Capacity

\* No transaction is flagged, and what was returned is there.
RoomInv == IInv /\ ~staged.failed /\ ReturnedIsStored

LEMMA AllFit ==
  ASSUME Room, NEW s, NEW K \in SUBSET AllKeys
  PROVE  Fits(s, K)
<1> DEFINE I == {i \in Ids : s[i] # NoRecord}
<1>1. I \subseteq Ids
  OBVIOUS
<1> HIDE DEF I
<1>2. /\ IsFiniteSet(I) /\ Cardinality(I) <= Cardinality(Ids)
      /\ IsFiniteSet(K) /\ Cardinality(K) <= Cardinality(AllKeys)
  BY <1>1, FS_Subset DEF Room
<1>3. /\ Cardinality(I) \in Nat /\ Cardinality(Ids) \in Nat
      /\ Cardinality(K) \in Nat /\ Cardinality(AllKeys) \in Nat
  BY <1>2, FS_CardinalityType DEF Room
<1>4. Cardinality(I) + Cardinality(K) <= Capacity
  BY <1>2, <1>3 DEF Room
<1> QED BY <1>4 DEF Fits, I

LEMMA StageKeepsFlag ==
  ASSUME Room, ~staged.failed, NEW s, NEW K \in SUBSET AllKeys, Stage(s, K)
  PROVE  ~staged'.failed
  BY AllFit DEF Stage

LEMMA InitRoomInv == Init => RoomInv
  BY InitIInv DEF Init, RoomInv, NoPages, ReturnedIsStored

\* A committed put changes nothing for the ones before it.
LEMMA PutsStay ==
  ASSUME RoomInv, [Next]_vars, returned' = returned
  PROVE  ReturnedIsStored'
<1>1. CASE UNCHANGED committedVars
  BY <1>1 DEF RoomInv, ReturnedIsStored, committedVars
<1>2. ASSUME NEW p \in PutSet, primary' = Stored(primary, p),
             index' = index \cup IndexKeys(p.rec)
      PROVE  ReturnedIsStored'
  <2>1. ASSUME NEW o \in returned PROVE o.rec.id \in Ids
    BY DEF RoomInv, IInv, TypeOK
  <2>2. ASSUME NEW i \in Ids, primary[i] # NoRecord PROVE primary'[i] # NoRecord
    <3>1. primary \in [Ids -> Records \cup {NoRecord}]
      BY DEF RoomInv, IInv, TypeOK
    <3>2. primary'[i] = primary[i] \/ primary'[i] = p.rec
      BY <1>2, <3>1, StoredFacts
    <3>3. p.rec # NoRecord
      BY DEF PutSet
    <3> QED BY <2>2, <3>2, <3>3
  <2>3. ASSUME NEW o \in returned
        PROVE  primary'[o.rec.id] # NoRecord /\ IndexKeys(o.rec) \subseteq index'
    <3>1. primary[o.rec.id] # NoRecord /\ IndexKeys(o.rec) \subseteq index
      BY DEF RoomInv, ReturnedIsStored
    <3> QED BY <1>2, <2>1, <2>2, <3>1
  <2> QED BY <2>3 DEF ReturnedIsStored
<1> QED BY <1>1, <1>2, CommittedStep DEF RoomInv

LEMMA NextRoomInv ==
  ASSUME Room, RoomInv, [Next]_vars
  PROVE  RoomInv'
<1>1. IInv'
  BY NextIInv DEF RoomInv
<1>2. ASSUME NEW t \in Threads, PutRecord(t) \/ PutKeys(t) PROVE RoomInv'
  <2>1. Put(t) \in PutSet
    BY <1>2, HeadOfBatch
    DEF PutRecord, PutKeys, RoomInv, IInv, TypeOK, BatchInv, Put, Putting, PutSet
  <2>2. /\ staged.index \in SUBSET AllKeys
        /\ staged.index \cup IndexKeys(Put(t).rec) \in SUBSET AllKeys
    BY <2>1 DEF RoomInv, IInv, TypeOK, AllKeys, PutSet
  <2>3. ~staged'.failed
    BY <1>2, <2>2, StageKeepsFlag DEF PutRecord, PutKeys, RoomInv
  <2>4. returned' = returned
    BY <1>2 DEF PutRecord, PutKeys
  <2> QED BY <1>1, <2>3, <2>4, PutsStay DEF RoomInv
<1>3. ASSUME NEW t \in Threads, Commit(t) PROVE RoomInv'
  <2>1. /\ primary' = Stored(primary, Put(t))
        /\ index' = index \cup IndexKeys(Put(t).rec)
        /\ returned' = returned \cup {Put(t)}
        /\ ~staged'.failed
    BY <1>3 DEF Commit, RoomInv, IInv, StagedInv, NoPages
  <2>2. Put(t) \in PutSet
    BY <1>3, HeadOfBatch
    DEF Commit, RoomInv, IInv, TypeOK, BatchInv, Put, Putting, PutSet
  <2>3. PICK p \in PutSet : p = Put(t)
    BY <2>2
  <2>4. primary \in [Ids -> Records \cup {NoRecord}]
    BY DEF RoomInv, IInv, TypeOK
  <2>5. /\ primary'[p.rec.id] # NoRecord /\ p.rec.id \in Ids
        /\ \A i \in Ids : primary[i] # NoRecord => primary'[i] # NoRecord
    BY <2>1, <2>3, <2>4, StoredFacts DEF PutSet
  <2>6. \A o \in returned : o.rec.id \in Ids
    BY DEF RoomInv, IInv, TypeOK
  <2>7. ReturnedIsStored'
    BY <2>1, <2>3, <2>5, <2>6 DEF RoomInv, ReturnedIsStored
  <2> QED BY <1>1, <2>1, <2>7 DEF RoomInv
<1>4. ASSUME NEW t \in Threads,
             RequestPuts(t) \/ KeysThrow(t) \/ BeginFind(t) \/ CancelFind(t)
               \/ BeginPut(t) \/ FetchEntry(t) \/ EndFind(t)
      PROVE  RoomInv'
  <2>1. ~staged'.failed /\ returned' = returned
    BY <1>4 DEF RequestPuts, KeysThrow, BeginFind, CancelFind, BeginPut, FetchEntry,
                EndFind, RoomInv, NoPages, writeVars
  <2> QED BY <1>1, <2>1, PutsStay DEF RoomInv
<1>5. CASE Crash
  <2>1. ~staged'.failed /\ returned' = returned
    BY <1>5 DEF Crash, NoPages
  <2> QED BY <1>1, <2>1, PutsStay DEF RoomInv
<1>6. CASE UNCHANGED vars
  <2>1. ~staged'.failed /\ returned' = returned
    BY <1>6 DEF vars, writeVars, RoomInv
  <2> QED BY <1>1, <2>1, PutsStay DEF RoomInv
<1> QED BY <1>2, <1>3, <1>4, <1>5, <1>6 DEF Next, Step

\* While the map has room for every GUID and key there is, a put that came
\* back to its caller is stored with its keys from then on, whatever is put,
\* thrown, cancelled or restarted later (Store.Put, Store.cs:63-102).
THEOREM ReturnedPutsAreStored == Room => (Spec => []ReturnedIsStored)
<1> SUFFICES ASSUME Room PROVE Spec => []ReturnedIsStored
  OBVIOUS
<1>1. RoomInv /\ [Next]_vars => RoomInv'
  BY NextRoomInv
<1>2. RoomInv => ReturnedIsStored
  BY DEF RoomInv
<1> QED BY <1>1, <1>2, InitRoomInv, PTL DEF Spec
-----------------------------------------------------------------------------
(* One content for a GUID.                                                 *)

\* The records that some batch puts.
PutRecords ==
  {r \in Records : \E b \in Batches : \E n \in DOMAIN b : b[n].rec = r}

\* A GUID is drawn for one object, which is never changed.
WriteOnce == \A r, s \in PutRecords : r.id = s.id => r = s

\* No property has the name of the key that every record has.
NoIdField == \A i \in Ids : "Id" \notin FieldsOf(TypeOf[i])

\* Only records of batches are put, and a stored one is not changed.
OnceInv ==
  /\ \A t \in Threads : \A n \in DOMAIN batch[t] : batch[t][n].rec \in PutRecords
  /\ \A i \in Ids : primary[i] # NoRecord => primary[i] \in PutRecords
  /\ \A k \in index : k \in IndexKeys(primary[k.id])

\* A thread's snapshot is a part of what is stored now.
ViewInv ==
  \A t \in Threads, i \in Ids : view[t][i] # NoRecord => view[t][i] = primary[i]

\* A key of the snapshot that the lookup asks for.
Asked(t, k) ==
  /\ k.id \in Ids /\ view[t][k.id] # NoRecord
  /\ k \in IndexKeys(view[t][k.id]) /\ Answers(k, query[t])

\* The entry a scan makes of a key.
Entry(t, k) == [key |-> k, rec |-> view[t][k.id]]

\* A scan goes through the keys of its snapshot that its lookup asks for, and
\* has collected the records of the ones behind it that its filter keeps.
ExactOf(t) ==
  /\ IsFiniteSet(found[t])
  /\ pc[t] \in {"scan", "done"} =>
       /\ \A k \in todo[t] : Asked(t, k)
       /\ \A a \in found[t] : /\ Asked(t, a.key) /\ a = Entry(t, a.key)
                              /\ After(a.rec, query[t].since)
       /\ \A k \in AllKeys : (Asked(t, k) /\ After(view[t][k.id], query[t].since)) =>
            k \in todo[t] \/ Entry(t, k) \in found[t]

ExactInv == FindInv /\ OnceInv /\ ViewInv /\ \A t \in Threads : ExactOf(t)

LEMMA InitExactInv == Init => ExactInv
<1> SUFFICES ASSUME Init PROVE ExactInv
  OBVIOUS
<1>1. FindInv
  BY InitFindInv
<1>2. OnceInv /\ ViewInv
  BY DEF Init, OnceInv, ViewInv
<1>3. \A t \in Threads : ExactOf(t)
  BY FS_EmptySet DEF Init, ExactOf
<1> QED BY <1>1, <1>2, <1>3 DEF ExactInv

\* A put of a record that is there changes nothing of it.
LEMMA StoredOnce ==
  ASSUME WriteOnce, FindInv, OnceInv, NEW p \in PutSet, p.rec \in PutRecords
  PROVE  /\ Stored(primary, p)[p.rec.id] = p.rec
         /\ \A i \in Ids : primary[i] # NoRecord => Stored(primary, p)[i] = primary[i]
         /\ \A i \in Ids : Stored(primary, p)[i] # NoRecord =>
              Stored(primary, p)[i] \in PutRecords
<1>1. primary \in [Ids -> Records \cup {NoRecord}] /\ p.rec.id \in Ids
  BY DEF FindInv, IndexInv, IInv, TypeOK, PutSet
<1>2. primary[p.rec.id] # NoRecord => primary[p.rec.id] = p.rec
  BY <1>1 DEF WriteOnce, OnceInv, FindInv, IndexInv, OwnId
<1> QED BY <1>1, <1>2 DEF Stored, OnceInv

\* What a step does to the committed pages, and with which record.
LEMMA CommittedOnce ==
  ASSUME WriteOnce, FindInv, OnceInv, [Next]_vars
  PROVE  \/ UNCHANGED committedVars
         \/ \E p \in PutSet : /\ p.rec \in PutRecords
                              /\ primary' = Stored(primary, p)
                              /\ index' = index \cup IndexKeys(p.rec)
<1>1. IInv
  BY DEF FindInv, IndexInv
<1>2. ASSUME NEW t \in Threads, Commit(t)
      PROVE  \/ UNCHANGED committedVars
             \/ \E p \in PutSet : /\ p.rec \in PutRecords
                                  /\ primary' = Stored(primary, p)
                                  /\ index' = index \cup IndexKeys(p.rec)
  <2>1. batch[t] \in Seq(PutSet) /\ batch[t] # <<>>
    BY <1>1, <1>2 DEF Commit, IInv, TypeOK, BatchInv, Putting, PutSet
  <2>2. Put(t) \in PutSet /\ Put(t) = batch[t][1] /\ 1 \in DOMAIN batch[t]
    BY <2>1, HeadOfBatch, EmptySeq, LenProperties DEF Put
  <2>3. Put(t).rec \in PutRecords
    BY <2>2 DEF OnceInv
  <2> QED BY <1>1, <1>2, <2>2, <2>3 DEF Commit, IInv, StagedInv, committedVars
<1>3. ASSUME NEW u \in Threads, RequestPuts(u) \/ KeysThrow(u) \/ BeginFind(u) \/ CancelFind(u)
               \/ BeginPut(u) \/ PutRecord(u) \/ PutKeys(u) \/ FetchEntry(u) \/ EndFind(u)
      PROVE  UNCHANGED committedVars
  BY <1>3 DEF RequestPuts, KeysThrow, BeginFind, CancelFind, BeginPut, PutRecord,
              PutKeys, FetchEntry, EndFind
<1>4. Crash => UNCHANGED committedVars
  BY DEF Crash
<1>5. UNCHANGED vars => UNCHANGED committedVars
  BY DEF vars
<1> QED BY <1>2, <1>3, <1>4, <1>5 DEF Next, Step

\* A batch is one of Batches to begin with and only gets shorter.
LEMMA BatchOnce ==
  ASSUME FindInv, OnceInv, [Next]_vars
  PROVE  (\A t \in Threads : \A n \in DOMAIN batch[t] : batch[t][n].rec \in PutRecords)'
<1>1. batch \in [Threads -> Seq(PutSet)]
  BY DEF FindInv, IndexInv, IInv, TypeOK, PutSet
<1>2. ASSUME NEW t \in Threads, RequestPuts(t)
      PROVE  \A u \in Threads : \A n \in DOMAIN batch'[u] : batch'[u][n].rec \in PutRecords
  <2>1. PICK b \in Batches : batch' = [batch EXCEPT ![t] = b]
    BY <1>2 DEF RequestPuts
  <2>2. \A n \in DOMAIN b : b[n].rec \in PutRecords
    <3>1. b \in Seq(PutSet)
      BY DEF PutSet
    <3>2. \A n \in DOMAIN b : b[n] \in PutSet
      BY <3>1, ElementOfSeq, LenProperties
    <3> QED BY <3>2 DEF PutRecords, PutSet
  <2> QED BY <1>1, <2>1, <2>2 DEF OnceInv
<1>3. ASSUME NEW t \in Threads, Commit(t)
      PROVE  \A u \in Threads : \A n \in DOMAIN batch'[u] : batch'[u][n].rec \in PutRecords
  <2>1. batch[t] \in Seq(PutSet) /\ batch[t] # <<>>
    BY <1>1, <1>3 DEF Commit, FindInv, IndexInv, IInv, BatchInv, Putting
  <2>2. \A n \in DOMAIN Tail(batch[t]) :
          n + 1 \in DOMAIN batch[t] /\ Tail(batch[t])[n] = batch[t][n + 1]
    BY <2>1, HeadTailProperties, LenProperties, EmptySeq
  <2>3. batch' = [batch EXCEPT ![t] = Tail(@)]
    BY <1>3 DEF Commit
  <2> QED BY <1>1, <2>2, <2>3 DEF OnceInv
<1>4. ASSUME NEW t \in Threads, KeysThrow(t)
      PROVE  \A u \in Threads : \A n \in DOMAIN batch'[u] : batch'[u][n].rec \in PutRecords
  BY <1>1, <1>4 DEF KeysThrow, OnceInv
<1>5. ASSUME Crash
      PROVE  \A u \in Threads : \A n \in DOMAIN batch'[u] : batch'[u][n].rec \in PutRecords
  BY <1>5 DEF Crash
<1>6. ASSUME NEW u \in Threads, BeginFind(u) \/ CancelFind(u) \/ BeginPut(u) \/ PutRecord(u)
               \/ PutKeys(u) \/ FetchEntry(u) \/ EndFind(u)
      PROVE  batch' = batch
  BY <1>6 DEF BeginFind, CancelFind, BeginPut, PutRecord, PutKeys, FetchEntry, EndFind,
              writeVars
<1>7. UNCHANGED vars => batch' = batch
  BY DEF vars, writeVars
<1> QED BY <1>2, <1>3, <1>4, <1>5, <1>6, <1>7 DEF Next, Step, OnceInv

LEMMA NextOnceInv ==
  ASSUME WriteOnce, FindInv, OnceInv, [Next]_vars
  PROVE  OnceInv' /\ \A i \in Ids : primary[i] # NoRecord => primary'[i] = primary[i]
<1>1. CASE UNCHANGED committedVars
  BY <1>1, BatchOnce DEF OnceInv, committedVars
<1>2. ASSUME NEW p \in PutSet, p.rec \in PutRecords, primary' = Stored(primary, p),
             index' = index \cup IndexKeys(p.rec)
      PROVE  OnceInv' /\ \A i \in Ids : primary[i] # NoRecord => primary'[i] = primary[i]
  <2>1. /\ primary'[p.rec.id] = p.rec
        /\ \A i \in Ids : primary[i] # NoRecord => primary'[i] = primary[i]
        /\ \A i \in Ids : primary'[i] # NoRecord => primary'[i] \in PutRecords
    BY <1>2, StoredOnce
  <2>2. ASSUME NEW k \in index' PROVE k \in IndexKeys(primary'[k.id])
    <3>1. CASE k \in index
      BY <2>1, <3>1 DEF OnceInv, FindInv, IndexInv, IndexGrounded
    <3>2. CASE k \in IndexKeys(p.rec)
      <4>1. k.id = p.rec.id
        BY <3>2, KeyOfRecord DEF PutSet
      <4> QED BY <2>1, <3>2, <4>1
    <3> QED BY <1>2, <3>1, <3>2
  <2> QED BY <2>1, <2>2, BatchOnce DEF OnceInv
<1> QED BY <1>1, <1>2, CommittedOnce

LEMMA NextViewInv ==
  ASSUME WriteOnce, FindInv, OnceInv, ViewInv, [Next]_vars
  PROVE  ViewInv'
<1>1. \A i \in Ids : primary[i] # NoRecord => primary'[i] = primary[i]
  BY NextOnceInv
<1>2. TypeOK
  BY DEF FindInv, IndexInv, IInv
<1>3. ASSUME NEW t \in Threads, BeginFind(t) PROVE ViewInv'
  BY <1>2, <1>3 DEF BeginFind, TypeOK, ViewInv, committedVars
<1>4. ASSUME view' = view PROVE ViewInv'
  <2> SUFFICES ASSUME NEW t \in Threads, NEW i \in Ids, view[t][i] # NoRecord
               PROVE  view[t][i] = primary'[i]
    BY <1>4 DEF ViewInv
  <2>1. view[t][i] = primary[i]
    BY DEF ViewInv
  <2> QED BY <1>1, <2>1
<1>5. ASSUME NEW t \in Threads,
             RequestPuts(t) \/ KeysThrow(t) \/ CancelFind(t)
               \/ BeginPut(t) \/ PutRecord(t) \/ PutKeys(t) \/ Commit(t) \/ FetchEntry(t)
               \/ EndFind(t)
      PROVE  view' = view
  BY <1>5 DEF RequestPuts, KeysThrow, CancelFind, BeginPut, PutRecord, PutKeys, Commit,
              FetchEntry, EndFind, findVars
<1>6. Crash => view' = view
  BY DEF Crash
<1>7. UNCHANGED vars => view' = view
  BY DEF vars, findVars
<1> QED BY <1>3, <1>4, <1>5, <1>6, <1>7 DEF Next, Step

\* What a key that a scan asks for says of its record.
LEMMA AskedFacts ==
  ASSUME FindInv, ViewInv, NEW t \in Threads, NEW k, Asked(t, k)
  PROVE  /\ primary[k.id] = view[t][k.id] /\ view[t][k.id] \in Records
         /\ view[t][k.id].id = k.id
  BY DEF Asked, ViewInv, FindInv, IndexInv, IInv, TypeOK, OwnId

\* A step that leaves a thread's scan alone keeps what is known of it.
LEMMA ExactUntouched ==
  ASSUME NEW t \in Threads, ExactOf(t), pc'[t] = pc[t], query'[t] = query[t],
         view'[t] = view[t], todo'[t] = todo[t], found'[t] = found[t]
  PROVE  ExactOf(t)'
<1>1. \A k : (Asked(t, k)' <=> Asked(t, k)) /\ Entry(t, k)' = Entry(t, k)
  BY DEF Asked, Entry
<1> QED BY <1>1 DEF ExactOf

\* Outside a scan there is nothing to keep but a finite set.
LEMMA NotExact ==
  ASSUME NEW t \in Threads, pc'[t] \notin {"scan", "done"}, IsFiniteSet(found'[t])
  PROVE  ExactOf(t)'
  BY DEF ExactOf

\* A scan begins with all the keys its lookup asks for.
LEMMA BeginExact ==
  ASSUME ExactInv, ViewInv', NEW t \in Threads, BeginFind(t)
  PROVE  ExactOf(t)'
<1>1. PICK q \in Queries :
        /\ query' = [query EXCEPT ![t] = q]
        /\ todo' = [todo EXCEPT ![t] = {k \in index : Answers(k, q)}]
  BY DEF BeginFind
<1>2. /\ query'[t] = q /\ todo'[t] = {k \in index : Answers(k, q)}
      /\ view'[t] = primary /\ found'[t] = {} /\ pc'[t] = "scan"
      /\ UNCHANGED <<primary, index>>
  BY <1>1 DEF ExactInv, FindInv, IndexInv, IInv, TypeOK, BeginFind, Goto, committedVars
<1>3. ASSUME NEW k \in todo'[t] PROVE Asked(t, k)'
  <2>1. k \in index /\ Answers(k, q) /\ k.id \in Ids /\ primary[k.id] # NoRecord
        /\ k \in IndexKeys(primary[k.id])
    BY <1>2, <1>3 DEF ExactInv, OnceInv, FindInv, IndexInv, IndexGrounded
  <2> QED BY <1>2, <2>1 DEF Asked
<1>4. ASSUME NEW k \in AllKeys, Asked(t, k)' PROVE k \in todo'[t]
  <2>1. /\ k.id \in Ids /\ primary[k.id] # NoRecord /\ k \in IndexKeys(primary[k.id])
        /\ Answers(k, q)
    BY <1>2, <1>4 DEF Asked
  <2>2. k \in index
    BY <2>1 DEF ExactInv, FindInv, IndexInv, IndexComplete
  <2> QED BY <1>2, <2>1, <2>2
<1>5. IsFiniteSet(found'[t])
  BY <1>2, FS_EmptySet
<1> QED BY <1>2, <1>3, <1>4, <1>5 DEF ExactOf

\* A turn of the loop moves one key from the ones to reach to the entries.
LEMMA FetchExact ==
  ASSUME ExactInv, NEW t \in Threads, FetchEntry(t), NEW u \in Threads
  PROVE  ExactOf(u)'
<1>1. PICK k \in todo[t] :
        LET rec == primary[k.id] IN
        IF rec = NoRecord
        THEN todo' = [todo EXCEPT ![t] = {}] /\ UNCHANGED found
        ELSE /\ todo' = [todo EXCEPT ![t] = @ \ {k}]
             /\ found' = [found EXCEPT ![t] = @ \cup Collected(t, k, rec)]
  BY DEF FetchEntry
<1>2. pc[t] = "scan" /\ UNCHANGED <<pc, query, view>>
  BY DEF FetchEntry
<1>3. Asked(t, k) /\ ExactOf(t)
  BY <1>2 DEF ExactInv, ExactOf
<1>4. primary[k.id] = view[t][k.id] /\ view[t][k.id] # NoRecord
  BY <1>3, AskedFacts DEF ExactInv, Asked
<1>5. PICK r : r = view[t][k.id]
  OBVIOUS
<1>6. PICK e : e = [key |-> k, rec |-> r]
  OBVIOUS
<1>7. /\ todo' = [todo EXCEPT ![t] = @ \ {k}]
      /\ found' = [found EXCEPT ![t] =
                     @ \cup (IF After(r, query[t].since) THEN {e} ELSE {})]
  BY <1>1, <1>4, <1>5, <1>6 DEF Collected
<1>8. /\ todo \in [Threads -> SUBSET AllKeys] /\ found \in [Threads -> SUBSET Answer]
  BY DEF ExactInv, FindInv, IndexInv, IInv, TypeOK
<1>9. CASE u # t
  <2>1. todo'[u] = todo[u] /\ found'[u] = found[u]
    BY <1>7, <1>8, <1>9
  <2> QED BY <1>2, <2>1, ExactUntouched DEF ExactInv
<1>10. CASE u = t
  <2>1. /\ todo'[t] = todo[t] \ {k}
        /\ found'[t] = found[t] \cup (IF After(r, query[t].since) THEN {e} ELSE {})
    BY <1>7, <1>8
  <2>2. \A j : (Asked(t, j)' <=> Asked(t, j)) /\ Entry(t, j)' = Entry(t, j)
    BY <1>2 DEF Asked, Entry
  <2>3. IsFiniteSet(found'[t])
    <3>1. found'[t] = found[t] \/ found'[t] = found[t] \cup {e}
      BY <2>1
    <3>2. IsFiniteSet(found[t])
      BY <1>3 DEF ExactOf
    <3> QED BY <3>1, <3>2, FS_AddElement
  <2>4. e = Entry(t, k) /\ e.key = k /\ e.rec = r
    BY <1>5, <1>6 DEF Entry
  <2>5. \A j \in todo'[t] : Asked(t, j)
    BY <1>2, <1>3, <2>1 DEF ExactOf
  <2>6. ASSUME NEW a \in found'[t]
        PROVE  Asked(t, a.key) /\ a = Entry(t, a.key) /\ After(a.rec, query[t].since)
    <3>1. CASE a \in found[t]
      BY <1>2, <1>3, <3>1 DEF ExactOf
    <3>2. CASE a = e /\ After(r, query[t].since)
      BY <1>3, <2>4, <3>2
    <3> QED BY <2>1, <3>1, <3>2
  <2>7. ASSUME NEW j \in AllKeys, Asked(t, j), After(view[t][j.id], query[t].since)
        PROVE  j \in todo'[t] \/ Entry(t, j) \in found'[t]
    <3>1. j \in todo[t] \/ Entry(t, j) \in found[t]
      BY <1>2, <1>3, <2>7 DEF ExactOf
    <3>2. CASE j = k
      BY <1>5, <2>1, <2>4, <2>7, <3>2
    <3>3. CASE j # k
      BY <2>1, <3>1, <3>3
    <3> QED BY <3>2, <3>3
  <2>8. UNCHANGED <<query, view>>
    BY <1>2
  <2> QED BY <1>10, <2>2, <2>3, <2>5, <2>6, <2>7, <2>8 DEF ExactOf
<1> QED BY <1>9, <1>10

LEMMA NextExactInv ==
  ASSUME WriteOnce, ExactInv, [Next]_vars
  PROVE  ExactInv'
<1>1. FindInv' /\ OnceInv' /\ ViewInv'
  BY NextFindInv, NextOnceInv, NextViewInv DEF ExactInv
<1>2. TypeOK
  BY DEF ExactInv, FindInv, IndexInv, IInv
<1>3. \A t \in Threads : IsFiniteSet(found[t]) /\ ExactOf(t)
  BY DEF ExactInv, ExactOf
<1>4. ASSUME NEW t \in Threads, NEW u \in Threads, BeginFind(t) PROVE ExactOf(u)'
  <2>1. CASE u = t
    BY <1>1, <1>4, <2>1, BeginExact
  <2>2. CASE u # t
    <3>1. /\ pc'[u] = pc[u] /\ query'[u] = query[u] /\ view'[u] = view[u]
          /\ todo'[u] = todo[u] /\ found'[u] = found[u]
      BY <1>2, <1>4, <2>2 DEF BeginFind, Goto, TypeOK
    <3> QED BY <1>3, <3>1, ExactUntouched
  <2> QED BY <2>1, <2>2
<1>5. ASSUME NEW t \in Threads, NEW u \in Threads, RequestPuts(t) \/ CancelFind(t)
      PROVE  ExactOf(u)'
  <2>1. CASE u = t
    <3>1. pc'[t] \notin {"scan", "done"} /\ found'[t] \in {{}, found[t]}
      BY <1>2, <1>5 DEF RequestPuts, CancelFind, Goto, TypeOK
    <3> QED BY <1>3, <2>1, <3>1, NotExact, FS_EmptySet
  <2>2. CASE u # t
    <3>1. /\ pc'[u] = pc[u] /\ query'[u] = query[u] /\ view'[u] = view[u]
          /\ todo'[u] = todo[u] /\ found'[u] = found[u]
      BY <1>2, <1>5, <2>2 DEF RequestPuts, CancelFind, Goto, TypeOK
    <3> QED BY <1>3, <3>1, ExactUntouched
  <2> QED BY <2>1, <2>2
<1>6. ASSUME NEW t \in Threads, NEW u \in Threads, BeginPut(t) \/ PutRecord(t) \/ PutKeys(t)
               \/ KeysThrow(t) \/ Commit(t)
      PROVE  ExactOf(u)'
  <2>1. UNCHANGED findVars
    BY <1>6 DEF BeginPut, PutRecord, PutKeys, KeysThrow, Commit
  <2>2. CASE u = t
    <3>1. pc'[t] \notin {"scan", "done"}
      BY <1>2, <1>6 DEF BeginPut, PutRecord, PutKeys, KeysThrow, Commit, Goto, TypeOK
    <3> QED BY <1>3, <2>1, <2>2, <3>1, NotExact DEF findVars
  <2>3. CASE u # t
    <3>1. pc'[u] = pc[u]
      BY <1>2, <1>6, <2>3 DEF BeginPut, PutRecord, PutKeys, KeysThrow, Commit, Goto, TypeOK
    <3> QED BY <1>3, <2>1, <3>1, ExactUntouched DEF findVars
  <2> QED BY <2>2, <2>3
<1>7. ASSUME NEW t \in Threads, NEW u \in Threads, FetchEntry(t) PROVE ExactOf(u)'
  BY <1>7, FetchExact
<1>8. ASSUME NEW t \in Threads, NEW u \in Threads, EndFind(t) PROVE ExactOf(u)'
  <2>1. /\ UNCHANGED <<query, view, todo, found>> /\ pc[t] = "scan"
        /\ pc'[u] = pc[u] \/ (u = t /\ pc'[u] = "done")
    BY <1>2, <1>8 DEF EndFind, Goto, TypeOK, findVars
  <2>2. \A k : (Asked(u, k)' <=> Asked(u, k)) /\ Entry(u, k)' = Entry(u, k)
    BY <2>1 DEF Asked, Entry
  <2>3. pc'[u] \in {"scan", "done"} => pc[u] \in {"scan", "done"}
    BY <2>1
  <2> QED BY <1>3, <2>1, <2>2, <2>3 DEF ExactOf
<1>9. ASSUME NEW u \in Threads, Crash PROVE ExactOf(u)'
  BY <1>9, NotExact, FS_EmptySet DEF Crash
<1>10. ASSUME NEW u \in Threads, UNCHANGED vars PROVE ExactOf(u)'
  BY <1>3, <1>10, ExactUntouched DEF vars, findVars
<1> QED
  BY <1>1, <1>4, <1>5, <1>6, <1>7, <1>8, <1>9, <1>10 DEF Next, Step, ExactInv

LEMMA AlwaysExactInv == WriteOnce => (Spec => []ExactInv)
<1> SUFFICES ASSUME WriteOnce PROVE Spec => []ExactInv
  OBVIOUS
<1>1. ExactInv /\ [Next]_vars => ExactInv'
  BY NextExactInv
<1> QED BY <1>1, InitExactInv, PTL DEF Spec

\* A lookup asks a record for one of its keys at most.
LEMMA OneKeyEach ==
  ASSUME NoIdField, NEW r \in Records, NEW j \in IndexKeys(r), NEW k \in IndexKeys(r),
         NEW q, Answers(j, q), Answers(k, q)
  PROVE  j = k
<1>1. r.id \in Ids /\ j.key = k.key
  BY DEF Answers
<1>2. ASSUME NEW x \in IndexKeys(r)
      PROVE  IF x.key = {"Id"} THEN x = IdKey(r) ELSE x = IndexKey(r, x.key)
  <2>1. CASE x = IdKey(r)
    BY <2>1 DEF IdKey
  <2>2. ASSUME NEW fs \in SUBSET FieldsOf(TypeOf[r.id]) \ {{}}, x = IndexKey(r, fs)
        PROVE  x.key = fs /\ fs # {"Id"}
    <3>1. x.key = fs
      BY <2>2 DEF IndexKey
    <3>2. "Id" \notin fs
      BY <1>1 DEF NoIdField
    <3> QED BY <3>1, <3>2
  <2> QED BY <1>2, <2>1, <2>2 DEF IndexKeys
<1> QED BY <1>1, <1>2

\* The entries of a complete scan are the records its lookup names, each once.
LEMMA ExactWhenDone ==
  ASSUME NoIdField, ExactInv, NEW t \in Threads, pc[t] = "done"
  PROVE  /\ {a.rec : a \in found[t]} = Named(t)
         /\ Cardinality(found[t]) = Cardinality(Named(t))
<1>1. /\ IsFiniteSet(found[t]) /\ todo[t] = {}
      /\ \A a \in found[t] : /\ Asked(t, a.key) /\ a = Entry(t, a.key)
                             /\ After(a.rec, query[t].since)
      /\ \A k \in AllKeys : (Asked(t, k) /\ After(view[t][k.id], query[t].since)) =>
           Entry(t, k) \in found[t]
  BY DEF ExactInv, ExactOf, FindInv, ScanInv, ScanOf
<1>2. ASSUME NEW a \in found[t]
      PROVE  /\ a.rec = view[t][a.key.id] /\ a.rec \in Records /\ a.rec # NoRecord
             /\ a.key.id \in Ids /\ a.key \in IndexKeys(a.rec)
             /\ Answers(a.key, query[t]) /\ After(a.rec, query[t].since)
             /\ a = [key |-> a.key, rec |-> a.rec]
  <2>1. Asked(t, a.key) /\ a = Entry(t, a.key) /\ After(a.rec, query[t].since)
    BY <1>1
  <2>2. view[t][a.key.id] \in Records
    BY <2>1, AskedFacts DEF ExactInv
  <2>3. PICK k : k = a.key
    OBVIOUS
  <2>4. a = [key |-> k, rec |-> view[t][k.id]]
    BY <2>1, <2>3 DEF Entry
  <2>5. a.rec = view[t][k.id]
    BY <2>4
  <2> QED BY <2>1, <2>2, <2>3, <2>4, <2>5 DEF Asked
<1>3. ASSUME NEW a \in found[t] PROVE a.rec \in Named(t)
  <2>1. a.rec \in {view[t][i] : i \in Ids} \ {NoRecord}
    BY <1>2
  <2> QED BY <1>2, <2>1 DEF Named
<1>4. ASSUME NEW r \in Named(t) PROVE \E a \in found[t] : a.rec = r
  <2>1. PICK i \in Ids : view[t][i] = r
    BY DEF Named
  <2>2. PICK k \in IndexKeys(r) : Answers(k, query[t])
    BY DEF Named
  <2>3. r # NoRecord /\ After(r, query[t].since)
    BY DEF Named
  <2>4. r \in Records /\ r.id = i
    BY <2>1, <2>3 DEF ExactInv, ViewInv, FindInv, IndexInv, IInv, TypeOK, OwnId
  <2>5. k.id = i
    BY <2>4, KeyOfRecord
  <2>6. k \in AllKeys /\ Asked(t, k)
    BY <2>1, <2>2, <2>3, <2>4, <2>5 DEF AllKeys, Asked
  <2>7. Entry(t, k) \in found[t]
    BY <1>1, <2>1, <2>3, <2>5, <2>6
  <2>8. Entry(t, k).rec = r
    BY <2>1, <2>5 DEF Entry
  <2> QED BY <2>7, <2>8
<1>5. {a.rec : a \in found[t]} = Named(t)
  BY <1>3, <1>4
<1>6. ASSUME NEW a \in found[t], NEW b \in found[t], a.rec = b.rec
      PROVE  a = b
  <2>1. a.key = b.key
    BY <1>2, <1>6, OneKeyEach
  <2> QED BY <1>2, <1>6, <2>1
<1> DEFINE f == [a \in found[t] |-> a.rec]
<1>7. f \in [found[t] -> Named(t)] /\ \A r \in Named(t) : \E a \in found[t] : f[a] = r
  BY <1>3, <1>4
<1>8. f \in Bijection(found[t], Named(t))
  BY <1>6, <1>7 DEF Bijection, Injection, Surjection, IsInjective
<1>9. ExistsBijection(found[t], Named(t))
  BY <1>8 DEF ExistsBijection
<1>10. Cardinality(Named(t)) = Cardinality(found[t])
  BY <1>1, <1>9, FS_Bijection
<1> QED BY <1>5, <1>10

\* Where a GUID is never stored with a second content, a find that ran to its
\* end returns exactly the records of its snapshot that its lookup names and
\* its filter keeps, each once, although it fetches each of them in a
\* transaction of its own (Store.FindByKey, Store.cs:131-175).
THEOREM FindsAreExact == (WriteOnce /\ NoIdField) => (Spec => []FindExact)
<1> SUFFICES ASSUME WriteOnce, NoIdField PROVE Spec => []FindExact
  OBVIOUS
<1>1. ExactInv => FindExact
  BY ExactWhenDone DEF FindExact
<1>2. Spec => []ExactInv
  BY AlwaysExactInv
<1> QED BY <1>1, <1>2, PTL
=============================================================================
