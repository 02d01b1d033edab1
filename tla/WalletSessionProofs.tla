------------------------- MODULE WalletSessionProofs -------------------------
(***************************************************************************)
(* Theorems about WalletSession, for any accounts, networks, storages and  *)
(* numbers of events.  Most of the invariant speaks of the set of jobs;    *)
(* only one part needs their order.                                        *)
(***************************************************************************)
EXTENDS WalletSession, SequenceTheorems, FiniteSetTheorems, TLAPS

Job == Answers \cup Handlers
Odd == {"overlap", "overtaken", "unheard", "unread"}

\* The jobs of a queue.
JobsOf(js) == {js[n] : n \in 1..Len(js)}

\* What TypeOK needs to be inductive: a free number for an invocation, and
\* one click for each request and each pair of listeners.
CountInv == IsFiniteSet(awaited) /\ listeners + asking <= enables

\* Without an overlap every handler in progress is for the selected account.
HandlersInv ==
  "overlap" \notin odd => \A h \in HandlersOf(jobs) : h.value = selected

IInv == TypeOK /\ CountInv /\ HandlersInv /\ HeaderOfSelected

-----------------------------------------------------------------------------
(* Queues *)

LEMMA TailJobs ==
  ASSUME NEW js \in Seq(Job), js # <<>>
  PROVE  /\ Head(js) \in Job /\ Tail(js) \in Seq(Job)
         /\ Len(js) \in Nat /\ Len(Tail(js)) = Len(js) - 1
         /\ JobsOf(js) = JobsOf(Tail(js)) \cup {Head(js)}
<1>1. /\ Head(js) \in Job /\ Tail(js) \in Seq(Job)
      /\ Len(js) \in Nat /\ Len(js) > 0 /\ Len(Tail(js)) = Len(js) - 1
      /\ \A n \in 1..Len(Tail(js)) : Tail(js)[n] = js[n + 1]
      /\ Head(js) = js[1]
  BY HeadTailProperties, EmptySeq
<1>2. \A n \in 1..Len(js) : n = 1 \/ (n - 1 \in 1..Len(Tail(js)) /\ js[n] = Tail(js)[n - 1])
  BY <1>1
<1>3. JobsOf(js) \subseteq JobsOf(Tail(js)) \cup {Head(js)}
  BY <1>1, <1>2 DEF JobsOf
<1>4. JobsOf(Tail(js)) \cup {Head(js)} \subseteq JobsOf(js)
  BY <1>1 DEF JobsOf
<1> QED BY <1>1, <1>3, <1>4

LEMMA AppendJobs ==
  ASSUME NEW js \in Seq(Job), NEW x \in Job
  PROVE  Append(js, x) \in Seq(Job) /\ JobsOf(Append(js, x)) = JobsOf(js) \cup {x}
<1>1. /\ Append(js, x) \in Seq(Job) /\ Len(js) \in Nat
      /\ Len(Append(js, x)) = Len(js) + 1
      /\ Append(js, x)[Len(js) + 1] = x
      /\ \A n \in 1..Len(js) : Append(js, x)[n] = js[n]
  OBVIOUS
<1> QED BY <1>1 DEF JobsOf

LEMMA ConcatJobs ==
  ASSUME NEW js \in Seq(Job), NEW more \in Seq(Job)
  PROVE  js \o more \in Seq(Job) /\ JobsOf(js \o more) = JobsOf(js) \cup JobsOf(more)
<1>1. /\ js \o more \in Seq(Job) /\ Len(js) \in Nat /\ Len(more) \in Nat
      /\ Len(js \o more) = Len(js) + Len(more)
      /\ \A n \in 1..Len(js) + Len(more) :
           (js \o more)[n] = IF n <= Len(js) THEN js[n] ELSE more[n - Len(js)]
  BY ConcatProperties, LenProperties
<1>2. JobsOf(js \o more) \subseteq JobsOf(js) \cup JobsOf(more)
  BY <1>1 DEF JobsOf
<1>3. JobsOf(js) \subseteq JobsOf(js \o more)
  BY <1>1 DEF JobsOf
<1>4. ASSUME NEW n \in 1..Len(more)
      PROVE  more[n] \in JobsOf(js \o more)
  <2>1. n + Len(js) \in 1..Len(js) + Len(more) /\ (js \o more)[n + Len(js)] = more[n]
    BY <1>1
  <2> QED BY <2>1, <1>1 DEF JobsOf
<1> QED BY <1>1, <1>2, <1>3, <1>4 DEF JobsOf

LEMMA HandlersAreJobs ==
  ASSUME NEW js \in Seq(Job)
  PROVE  /\ HandlersOf(js) = {h \in JobsOf(js) : h.at \in {"contains", "item"}}
         /\ HandlersOf(js) \subseteq Handlers
<1>1. HandlersOf(js) = {h \in JobsOf(js) : h.at \in {"contains", "item"}}
  BY DEF HandlersOf, JobsOf
<1>2. \A h \in Job : h.at \in {"contains", "item"} => h \in Handlers
  BY DEF Job, Answers
<1>3. JobsOf(js) \subseteq Job
  BY ElementOfSeq DEF JobsOf
<1> QED BY <1>1, <1>2, <1>3

\* Jobs that answer a call of the provider are no handlers.
LEMMA JobKinds ==
  ASSUME NEW h \in Job
  PROVE  /\ h.at \in {"available", "address", "enabled", "network", "contains", "item"}
         /\ h.at = "available" => h.value \in BOOLEAN
         /\ h.at \in {"address", "enabled"} => h.value \in Accounts \cup {None}
         /\ h.at = "network" => h.value \in Chains
         /\ h.at \in {"contains", "item"} => h \in Handlers
  BY DEF Job, Answers, Handlers

-----------------------------------------------------------------------------
(* Invocations *)

LEMMA UpTo ==
  ASSUME NEW n \in Nat
  PROVE  IsFiniteSet(1..n) /\ Cardinality(1..n) = n
<1>1. IsFiniteSet(1..n) /\ Cardinality(1..n) = IF 1 > n THEN 0 ELSE n - 1 + 1
  BY FS_Interval
<1> QED BY <1>1

\* There is a number that no invocation in progress has.
LEMMA FreshRunIsFree ==
  ASSUME NEW js \in Seq(Job), Len(js) <= Len(jobs), Len(jobs) \in Nat, IsFiniteSet(awaited)
  PROVE  /\ FreshRun(js) \in Nat
         /\ \A h \in HandlersOf(js) : h.run # FreshRun(js)
         /\ \A w \in awaited : w.run # FreshRun(js)
<1> DEFINE N == Len(jobs) + Cardinality(awaited) + 1
           D == {n \in 1..Len(js) : js[n].at \in {"contains", "item"}}
           U == {js[n].run : n \in D}
           V == {w.run : w \in awaited}
<1>1. Cardinality(awaited) \in Nat /\ Len(js) \in Nat /\ N \in Nat
  BY FS_CardinalityType, LenProperties
<1>2. IsFiniteSet(U) /\ Cardinality(U) \in Nat /\ Cardinality(U) <= Len(jobs)
  <2>1. IsFiniteSet(1..Len(js)) /\ Cardinality(1..Len(js)) = Len(js)
    BY <1>1, UpTo
  <2>2. IsFiniteSet(D) /\ Cardinality(D) <= Len(js) /\ Cardinality(D) \in Nat
    BY <2>1, FS_Subset, FS_CardinalityType
  <2> DEFINE f == [n \in D |-> js[n].run]
  <2>3. f \in Surjection(D, U)
    BY DEF Surjection
  <2>4. IsFiniteSet(U) /\ Cardinality(U) <= Cardinality(D)
    BY <2>2, <2>3, FS_Surjection
  <2> QED BY <1>1, <2>2, <2>4, FS_CardinalityType
<1>3. IsFiniteSet(V) /\ Cardinality(V) \in Nat /\ Cardinality(V) <= Cardinality(awaited)
  <2> DEFINE f == [w \in awaited |-> w.run]
  <2>1. f \in Surjection(awaited, V)
    BY DEF Surjection
  <2> QED BY <2>1, FS_Surjection, FS_CardinalityType
<1>4. IsFiniteSet(U \cup V) /\ Cardinality(U \cup V) < N
  <2>1. IsFiniteSet(U \cap V) /\ Cardinality(U \cap V) \in Nat
    BY <1>2, FS_Intersection, FS_CardinalityType
  <2>2. IsFiniteSet(U \cup V)
        /\ Cardinality(U \cup V) = Cardinality(U) + Cardinality(V) - Cardinality(U \cap V)
    BY <1>2, <1>3, FS_Union
  <2> QED BY <1>1, <1>2, <1>3, <2>1, <2>2
<1>5. \E r \in 1..N : r \notin U \cup V
  <2> SUFFICES ASSUME 1..N \subseteq U \cup V PROVE FALSE
    OBVIOUS
  <2>1. Cardinality(1..N) = N
    BY <1>1, UpTo
  <2>2. Cardinality(1..N) <= Cardinality(U \cup V) /\ Cardinality(U \cup V) \in Nat
    BY <1>4, FS_Subset, FS_CardinalityType
  <2> QED BY <1>1, <1>4, <2>1, <2>2
<1>6. \E r \in 1..N : /\ \A h \in HandlersOf(js) : h.run # r
                      /\ \A w \in awaited : w.run # r
  BY <1>5 DEF HandlersOf
<1>7. /\ FreshRun(js) \in 1..N
      /\ \A h \in HandlersOf(js) : h.run # FreshRun(js)
      /\ \A w \in awaited : w.run # FreshRun(js)
  BY <1>6 DEF FreshRun
<1> QED BY <1>1, <1>7

\* The calls of an invocation.
LEMMA Calls ==
  ASSUME NEW run \in Nat, NEW a \in Accounts \cup {None}
  PROVE  LET calls == [n \in 1..Len(Subscribers) |->
               [at |-> "contains", value |-> a, run |-> run, by |-> Subscribers[n]]]
         IN /\ calls \in Seq(Job)
            /\ \A h \in JobsOf(calls) : h.at = "contains" /\ h.value = a /\ h.run = run
            /\ LastOf(Subscribers) \in {"Metamask", "Index"}
<1> DEFINE calls == [n \in 1..Len(Subscribers) |->
               [at |-> "contains", value |-> a, run |-> run, by |-> Subscribers[n]]]
<1>1. /\ Len(Subscribers) \in {1, 2}
      /\ \A n \in 1..Len(Subscribers) : Subscribers[n] \in {"Metamask", "Index"}
  <2>1. CASE indexOpen
    BY <2>1 DEF Subscribers
  <2>2. CASE ~indexOpen
    BY <2>2 DEF Subscribers
  <2> QED BY <2>1, <2>2
<1>2. \A n \in 1..Len(Subscribers) : calls[n] \in Job
  BY <1>1 DEF Job, Handlers
<1>3. calls \in Seq(Job) /\ Len(calls) = Len(Subscribers)
  BY <1>1, <1>2
<1>4. \A h \in JobsOf(calls) : h.at = "contains" /\ h.value = a /\ h.run = run
  <2>1. \A n \in 1..Len(Subscribers) :
          calls[n].at = "contains" /\ calls[n].value = a /\ calls[n].run = run
    OBVIOUS
  <2> HIDE DEF calls
  <2> QED BY <2>1, <1>3 DEF JobsOf
<1>5. LastOf(Subscribers) \in {"Metamask", "Index"}
  BY <1>1 DEF LastOf
<1> QED BY <1>3, <1>4, <1>5

\* An invocation for the account that is being selected: the queue grows by
\* its handlers, and an overlap is on record if there are others.
\* A step adds more to what it leaves of the queue.
Adds(js, more) == more \in Seq(Job) /\ jobs' = js \o more

LEMMA InvokeFacts ==
  ASSUME TypeOK, IsFiniteSet(awaited),
         NEW js \in Seq(Job), Len(js) <= Len(jobs),
         NEW a \in Accounts \cup {None}, NEW then \in {"network", "end"},
         NEW late \in SUBSET Odd, Invoke(js, a, then, late)
  PROVE  /\ jobs' \in Seq(Job) /\ header' = None
         /\ awaited' \subseteq Awaits /\ IsFiniteSet(awaited')
         /\ odd \cup late \subseteq odd' /\ odd' \subseteq Odd
         /\ "overlap" \notin odd' => \A h \in HandlersOf(jobs') : h.value = a
         /\ \E more : Adds(js, more) /\ \A h \in JobsOf(more) : h.at = "contains"
         /\ \E w \in awaited' : w.then = then
         /\ awaited \subseteq awaited'
         /\ odd' \subseteq odd \cup late \cup {"overlap"}
<1> DEFINE run == FreshRun(js)
           w == [run |-> run, last |-> LastOf(Subscribers), then |-> then]
           calls == [n \in 1..Len(Subscribers) |->
               [at |-> "contains", value |-> a, run |-> run, by |-> Subscribers[n]]]
<1>1. /\ header' = None
      /\ jobs' = js \o calls
      /\ awaited' = awaited \cup {w}
      /\ odd' = odd \cup late \cup {"overlap" : h \in {x \in HandlersOf(js) : x.value # a}}
  BY DEF Invoke, Cleared
<1>2. run \in Nat
  BY FreshRunIsFree, LenProperties DEF TypeOK, Job
<1> HIDE DEF run
<1>3. /\ calls \in Seq(Job)
      /\ \A h \in JobsOf(calls) : h.at = "contains" /\ h.value = a
      /\ LastOf(Subscribers) \in {"Metamask", "Index"}
  BY <1>2, Calls
<1> HIDE DEF calls
<1>4. jobs' \in Seq(Job) /\ JobsOf(jobs') = JobsOf(js) \cup JobsOf(calls)
  BY <1>1, <1>3, ConcatJobs
<1>5. awaited' \subseteq Awaits /\ IsFiniteSet(awaited')
  <2>1. w \in Awaits
    BY <1>2, <1>3 DEF Awaits
  <2> QED BY <1>1, <2>1, FS_AddElement DEF TypeOK
<1>6. "overlap" \notin odd' => \A h \in HandlersOf(jobs') : h.value = a
  <2>1. "overlap" \notin odd' => \A h \in HandlersOf(js) : h.value = a
    BY <1>1
  <2>2. \A h \in HandlersOf(jobs') : h \in HandlersOf(js) \/ h \in JobsOf(calls)
    BY <1>4, HandlersAreJobs
  <2> QED BY <1>3, <2>1, <2>2
<1>7. odd' \subseteq Odd /\ odd \cup late \subseteq odd' /\ odd' \subseteq odd \cup late \cup {"overlap"}
  BY <1>1 DEF TypeOK, Odd
<1>8. w \in awaited' /\ w.then = then /\ awaited \subseteq awaited'
  BY <1>1
<1>9. Adds(js, calls) /\ \A h \in JobsOf(calls) : h.at = "contains"
  BY <1>1, <1>3 DEF Adds
<1> QED BY <1>1, <1>4, <1>5, <1>6, <1>7, <1>8, <1>9

\* The question for the network that start-up goes on with.
AskNetwork == [at |-> "network", value |-> chain]

LEMMA ContinueFacts ==
  ASSUME TypeOK, NEW js \in Seq(Job), NEW then \in {"network", "end"}
  PROVE  /\ AskNetwork \in Job
         /\ Continue(then, js) = IF then = "network" THEN Append(js, AskNetwork) ELSE js
         /\ Continue(then, js) \in Seq(Job)
         /\ HandlersOf(Continue(then, js)) = HandlersOf(js)
<1>1. AskNetwork \in Job /\ AskNetwork.at = "network"
  BY DEF AskNetwork, Job, Answers, TypeOK
<1>2. Continue(then, js) = IF then = "network" THEN Append(js, AskNetwork) ELSE js
  BY DEF Continue, AskNetwork
<1>3. Append(js, AskNetwork) \in Seq(Job) /\ JobsOf(Append(js, AskNetwork)) = JobsOf(js) \cup {AskNetwork}
  BY <1>1, AppendJobs
<1>4. HandlersOf(Append(js, AskNetwork)) = HandlersOf(js)
  BY <1>1, <1>3, HandlersAreJobs
<1> QED BY <1>1, <1>2, <1>3, <1>4

\* What selecting an account leaves: its handlers only, or those there were.
LEMMA ChangeFacts ==
  ASSUME IInv, NEW js \in Seq(Job), Len(js) <= Len(jobs), HandlersOf(js) \subseteq HandlersOf(jobs),
         NEW a \in Accounts \cup {None}, NEW then \in {"network", "end"},
         NEW late \in SUBSET Odd, ChangeSelectedAccount(js, a, then, late)
  PROVE  /\ jobs' \in Seq(Job) /\ selected' = a /\ header' \in Accounts \cup {None}
         /\ awaited' \subseteq Awaits /\ IsFiniteSet(awaited')
         /\ odd \cup late \subseteq odd' /\ odd' \subseteq Odd
         /\ HandlersInv' /\ HeaderOfSelected'
<1> USE DEF IInv, CountInv
<1>1. CASE selected # a
  <2>1. selected' = a /\ Invoke(js, a, then, late)
    BY <1>1 DEF ChangeSelectedAccount
  <2>2. /\ jobs' \in Seq(Job) /\ header' = None
        /\ awaited' \subseteq Awaits /\ IsFiniteSet(awaited')
        /\ odd \cup late \subseteq odd' /\ odd' \subseteq Odd
        /\ "overlap" \notin odd' => \A h \in HandlersOf(jobs') : h.value = a
    BY <2>1, InvokeFacts
  <2> QED BY <2>1, <2>2 DEF HandlersInv, HeaderOfSelected
<1>2. CASE selected = a
  <2>1. /\ jobs' = Continue(then, js) /\ odd' = odd \cup late
        /\ UNCHANGED <<selected, header, awaited>>
    BY <1>2 DEF ChangeSelectedAccount
  <2>2. jobs' \in Seq(Job) /\ HandlersOf(jobs') = HandlersOf(js)
    BY <2>1, ContinueFacts
  <2>3. odd \subseteq Odd
    BY DEF TypeOK, Odd
  <2> QED BY <1>2, <2>1, <2>2, <2>3 DEF HandlersInv, HeaderOfSelected, TypeOK
<1> QED BY <1>1, <1>2

\* A job is taken that is no handler, or whose handler only ends.
LEMMA TakeOff ==
  ASSUME TypeOK, jobs # <<>>
  PROVE  /\ Head(jobs) \in Job /\ Tail(jobs) \in Seq(Job)
         /\ Len(Tail(jobs)) <= Len(jobs)
         /\ HandlersOf(Tail(jobs)) \subseteq HandlersOf(jobs)
         /\ Head(jobs).at \in {"contains", "item"} => Head(jobs) \in HandlersOf(jobs)
<1>1. jobs \in Seq(Job)
  BY DEF TypeOK, Job
<1>2. /\ Head(jobs) \in Job /\ Tail(jobs) \in Seq(Job)
      /\ Len(jobs) \in Nat /\ Len(Tail(jobs)) = Len(jobs) - 1
      /\ JobsOf(jobs) = JobsOf(Tail(jobs)) \cup {Head(jobs)}
  BY <1>1, TailJobs
<1>3. HandlersOf(Tail(jobs)) \subseteq HandlersOf(jobs)
  BY <1>1, <1>2, HandlersAreJobs
<1>4. Head(jobs).at \in {"contains", "item"} => Head(jobs) \in HandlersOf(jobs)
  BY <1>1, <1>2, HandlersAreJobs
<1>5. Len(Tail(jobs)) <= Len(jobs)
  BY <1>2
<1> QED BY <1>2, <1>3, <1>4, <1>5

\* A job is added that is no handler.
LEMMA PutOn ==
  ASSUME NEW js \in Seq(Job), NEW x \in Job, x.at \notin {"contains", "item"}
  PROVE  Append(js, x) \in Seq(Job) /\ HandlersOf(Append(js, x)) = HandlersOf(js)
  BY AppendJobs, HandlersAreJobs

\* A handler ends, and its caller goes on if it was awaited.
LEMMA EndFacts ==
  ASSUME TypeOK, jobs # <<>>, NEW h, EndHandler(h), IsFiniteSet(awaited)
  PROVE  /\ jobs' \in Seq(Job) /\ awaited' \subseteq Awaits /\ IsFiniteSet(awaited')
         /\ HandlersOf(jobs') \subseteq HandlersOf(jobs)
<1>1. PICK then \in {"network", "end"} : jobs' = Continue(then, Tail(jobs))
  BY DEF EndHandler
<1>2. awaited' \subseteq awaited
  BY DEF EndHandler
<1> QED BY <1>1, <1>2, TakeOff, ContinueFacts, FS_Subset DEF TypeOK

-----------------------------------------------------------------------------
(* The inductive invariant *)

LEMMA InitIInv == Init => IInv
<1> SUFFICES ASSUME Init PROVE IInv
  OBVIOUS
<1>1. jobs \in Seq(Job) /\ HandlersOf(jobs) = {}
  <2>1. PICK v \in BOOLEAN : jobs = <<[at |-> "available", value |-> v]>>
    BY DEF Init
  <2>2. [at |-> "available", value |-> v] \in Job
    BY DEF Job, Answers
  <2>3. jobs \in Seq(Job) /\ Len(jobs) = 1 /\ jobs[1].at = "available"
    BY <2>1, <2>2
  <2> QED BY <2>3 DEF HandlersOf
<1>2. IsFiniteSet(awaited)
  BY FS_EmptySet DEF Init
<1>3. TypeOK
  <2>1. /\ account \in Accounts \cup {None} /\ chain \in Chains /\ storage \in Storages
        /\ listeners = 0 /\ available = FALSE /\ selected = None /\ network = 0
        /\ header = None /\ indexOpen \in BOOLEAN /\ awaited = {} /\ asking = 0
        /\ events = 0 /\ enables = 0 /\ odd = {}
    BY DEF Init
  <2>2. 0 \in 0..MaxEvents /\ 0 \in 0..MaxEnables
    BY SessionAssumption
  <2> QED BY <1>1, <2>1, <2>2 DEF TypeOK, Job
<1>4. listeners + asking <= enables
  BY DEF Init
<1> QED BY <1>1, <1>2, <1>3, <1>4 DEF Init, IInv, CountInv, HandlersInv, HeaderOfSelected

LEMMA TakeAvailableKeeps ==
  ASSUME IInv, TakeAvailable
  PROVE  IInv'
<1> USE DEF IInv, CountInv
<1>1. /\ jobs # <<>> /\ Head(jobs).at = "available" /\ available' = Head(jobs).value
      /\ UNCHANGED <<wallet, selected, network, header, indexOpen, awaited, asking, bounds, odd>>
      /\ \/ jobs' = Append(Tail(jobs), [at |-> "address", value |-> account])
         \/ jobs' = Tail(jobs)
  BY DEF TakeAvailable, Head1
<1>2. available' \in BOOLEAN
  BY <1>1, TakeOff, JobKinds
<1>3. [at |-> "address", value |-> account] \in Job
  BY DEF Job, Answers, TypeOK
<1>4. jobs' \in Seq(Job) /\ HandlersOf(jobs') \subseteq HandlersOf(jobs)
  BY <1>1, <1>3, TakeOff, PutOn
<1>5. TypeOK'
  BY <1>1, <1>2, <1>4 DEF TypeOK, wallet, bounds, Job
<1> QED BY <1>1, <1>4, <1>5 DEF wallet, bounds, HandlersInv, HeaderOfSelected

LEMMA TakeAddressKeeps ==
  ASSUME IInv, TakeAddress
  PROVE  IInv'
<1> USE DEF IInv, CountInv
<1>1. /\ jobs # <<>> /\ Head(jobs).at = "address"
      /\ ChangeSelectedAccount(Tail(jobs), Head(jobs).value, "network", {})
      /\ UNCHANGED <<wallet, available, network, indexOpen, asking, bounds>>
  BY DEF TakeAddress, Head1
<1>2. Head(jobs).value \in Accounts \cup {None}
  BY <1>1, TakeOff, JobKinds
<1>3. /\ jobs' \in Seq(Job) /\ selected' = Head(jobs).value /\ header' \in Accounts \cup {None}
      /\ awaited' \subseteq Awaits /\ IsFiniteSet(awaited') /\ odd' \subseteq Odd
      /\ HandlersInv' /\ HeaderOfSelected'
  <2>1. /\ Tail(jobs) \in Seq(Job) /\ Len(Tail(jobs)) <= Len(jobs)
        /\ HandlersOf(Tail(jobs)) \subseteq HandlersOf(jobs) /\ {} \in SUBSET Odd
    BY <1>1, TakeOff
  <2> QED BY <1>1, <1>2, <2>1, ChangeFacts
<1>4. TypeOK'
  BY <1>1, <1>2, <1>3 DEF TypeOK, wallet, bounds, Job, Odd
<1> QED BY <1>1, <1>3, <1>4 DEF wallet, bounds

LEMMA TakeNetworkKeeps ==
  ASSUME IInv, TakeNetwork
  PROVE  IInv'
<1> USE DEF IInv, CountInv
<1>1. /\ jobs # <<>> /\ Head(jobs).at = "network" /\ jobs' = Tail(jobs)
      /\ network' \in {ToInt32(Head(jobs).value), network}
      /\ odd' \in {odd, odd \cup {"unread"}}
      /\ UNCHANGED <<wallet, available, selected, header, indexOpen, awaited, asking, bounds>>
  BY DEF TakeNetwork, Head1
<1>2. network' = network \/ \E c \in Chains : network' = ToInt32(c)
  BY <1>1, TakeOff, JobKinds
<1>3. jobs' \in Seq(Job) /\ HandlersOf(jobs') \subseteq HandlersOf(jobs)
  BY <1>1, TakeOff
<1>4. TypeOK'
  BY <1>1, <1>2, <1>3 DEF TypeOK, wallet, bounds, Job
<1> QED BY <1>1, <1>3, <1>4 DEF wallet, bounds, HandlersInv, HeaderOfSelected

LEMMA ConnectKeeps ==
  ASSUME IInv, ClickConnect \/ Approve \/ Reject
  PROVE  IInv'
<1> USE DEF IInv, CountInv
<1>1. CASE ClickConnect
  <2>1. /\ enables' = enables + 1 /\ asking' = asking + 1 /\ enables < MaxEnables
        /\ UNCHANGED <<wallet, provider, header, indexOpen, jobs, awaited, events, odd>>
    BY <1>1 DEF ClickConnect
  <2>2. /\ enables' \in 0..MaxEnables /\ asking' \in 0..MaxEnables
        /\ listeners + asking' <= enables'
    BY <2>1, SessionAssumption DEF TypeOK
  <2>3. TypeOK'
    BY <2>1, <2>2 DEF TypeOK, wallet, provider
  <2> QED BY <2>1, <2>2, <2>3 DEF wallet, provider, HandlersInv, HeaderOfSelected
<1>2. CASE Approve \/ Reject
  <2>1. PICK x \in Job : /\ x.at = "enabled" /\ jobs' = Append(jobs, x)
    <3>1. \A a \in Accounts \cup {None} : [at |-> "enabled", value |-> a] \in Job
      BY DEF Job, Answers
    <3> QED BY <1>2, <3>1 DEF Approve, Reject, TypeOK
  <2>2. jobs' \in Seq(Job) /\ HandlersOf(jobs') = HandlersOf(jobs)
    BY <2>1, PutOn DEF TypeOK, Job
  <2>3. /\ asking' = asking - 1 /\ asking > 0
        /\ listeners' = listeners + 1 \/ listeners' = listeners
        /\ UNCHANGED <<account, chain, storage, provider, header, indexOpen, awaited, bounds, odd>>
    BY <1>2 DEF Approve, Reject, StillAsking, wallet
  <2>4. /\ asking' \in 0..MaxEnables /\ listeners' \in 0..MaxEnables
        /\ listeners' + asking' <= enables'
    BY <2>3, SessionAssumption DEF TypeOK, bounds
  <2>5. TypeOK'
    BY <2>2, <2>3, <2>4 DEF TypeOK, provider, bounds, Job
  <2> QED BY <2>2, <2>3, <2>4, <2>5 DEF provider, HandlersInv, HeaderOfSelected
<1> QED BY <1>1, <1>2

LEMMA TakeEnabledKeeps ==
  ASSUME IInv, TakeEnabled
  PROVE  IInv'
<1> USE DEF IInv, CountInv
<1> DEFINE a == Head(jobs).value
<1>1. /\ jobs # <<>> /\ Head(jobs).at = "enabled"
      /\ UNCHANGED <<wallet, available, network, indexOpen, asking, bounds>>
      /\ \/ selected' = a /\ Invoke(Tail(jobs), a, "end", {})
         \/ jobs' = Tail(jobs) /\ UNCHANGED <<selected, header, awaited, odd>>
  BY DEF TakeEnabled, Head1
<1>2. a \in Accounts \cup {None}
  BY <1>1, TakeOff, JobKinds
<1>3. CASE selected' = a /\ Invoke(Tail(jobs), a, "end", {})
  <2>1. /\ jobs' \in Seq(Job) /\ header' = None
        /\ awaited' \subseteq Awaits /\ IsFiniteSet(awaited')
        /\ odd' \subseteq Odd
        /\ "overlap" \notin odd' => \A h \in HandlersOf(jobs') : h.value = a
    <3>1. Tail(jobs) \in Seq(Job) /\ Len(Tail(jobs)) <= Len(jobs) /\ {} \in SUBSET Odd
      BY <1>1, TakeOff
    <3> HIDE DEF a
    <3> QED BY <1>2, <1>3, <3>1, InvokeFacts
  <2>2. TypeOK'
    BY <1>1, <1>2, <1>3, <2>1 DEF TypeOK, wallet, bounds, Job, Odd
  <2> QED BY <1>1, <1>3, <2>1, <2>2 DEF wallet, bounds, HandlersInv, HeaderOfSelected
<1>4. CASE jobs' = Tail(jobs) /\ UNCHANGED <<selected, header, awaited, odd>>
  <2>1. jobs' \in Seq(Job) /\ HandlersOf(jobs') \subseteq HandlersOf(jobs)
    BY <1>1, <1>4, TakeOff
  <2>2. TypeOK'
    BY <1>1, <1>4, <2>1 DEF TypeOK, wallet, bounds, Job
  <2> QED BY <1>1, <1>4, <2>1, <2>2 DEF wallet, bounds, HandlersInv, HeaderOfSelected
<1> QED BY <1>1, <1>3, <1>4

LEMMA TakeContainsKeeps ==
  ASSUME IInv, TakeContains
  PROVE  IInv'
<1> USE DEF IInv, CountInv
<1> DEFINE h == Head(jobs)
<1>1. /\ jobs # <<>> /\ h.at = "contains"
      /\ UNCHANGED <<wallet, provider, header, indexOpen, asking, bounds, odd>>
      /\ \/ jobs' = Append(Tail(jobs), [h EXCEPT !.at = "item"]) /\ UNCHANGED awaited
         \/ EndHandler(h)
  BY DEF TakeContains, Head1
<1>2. h \in Handlers /\ h \in HandlersOf(jobs)
  BY <1>1, TakeOff, JobKinds
<1>3. /\ jobs' \in Seq(Job) /\ awaited' \subseteq Awaits /\ IsFiniteSet(awaited')
      /\ \A x \in HandlersOf(jobs') : \E y \in HandlersOf(jobs) : x.value = y.value
  <2>1. CASE jobs' = Append(Tail(jobs), [h EXCEPT !.at = "item"]) /\ UNCHANGED awaited
    <3>1. [h EXCEPT !.at = "item"] \in Job /\ [h EXCEPT !.at = "item"].value = h.value
      BY <1>2 DEF Job, Handlers
    <3>2. /\ jobs' \in Seq(Job)
          /\ JobsOf(jobs') = JobsOf(Tail(jobs)) \cup {[h EXCEPT !.at = "item"]}
      BY <1>1, <2>1, <3>1, TakeOff, AppendJobs
    <3>3. HandlersOf(jobs') \subseteq HandlersOf(Tail(jobs)) \cup {[h EXCEPT !.at = "item"]}
      BY <1>1, <3>2, TakeOff, HandlersAreJobs
    <3> QED BY <1>1, <1>2, <2>1, <3>1, <3>2, <3>3, TakeOff DEF TypeOK
  <2>2. CASE EndHandler(h)
    BY <1>1, <2>2, EndFacts
  <2> QED BY <1>1, <2>1, <2>2
<1>4. TypeOK'
  BY <1>1, <1>3 DEF TypeOK, wallet, provider, bounds, Job
<1> QED BY <1>1, <1>3, <1>4 DEF wallet, provider, bounds, HandlersInv, HeaderOfSelected

LEMMA TakeItemKeeps ==
  ASSUME IInv, TakeItem
  PROVE  IInv'
<1> USE DEF IInv, CountInv
<1> DEFINE h == Head(jobs)
<1>1. /\ jobs # <<>> /\ h.at = "item" /\ header' = HeaderWith(h.value) /\ EndHandler(h)
      /\ UNCHANGED <<wallet, provider, indexOpen, asking, bounds, odd>>
  BY DEF TakeItem, Head1
<1>2. h \in HandlersOf(jobs) /\ h.value \in Accounts \cup {None}
  <2>1. h \in Handlers /\ h \in HandlersOf(jobs)
    BY <1>1, TakeOff, JobKinds
  <2> QED BY <2>1 DEF Handlers
<1>3. header' = h.value \/ header' = header
  BY <1>1 DEF HeaderWith
<1>4. /\ jobs' \in Seq(Job) /\ awaited' \subseteq Awaits /\ IsFiniteSet(awaited')
      /\ HandlersOf(jobs') \subseteq HandlersOf(jobs)
  BY <1>1, EndFacts
<1>5. TypeOK'
  BY <1>1, <1>2, <1>3, <1>4 DEF TypeOK, wallet, provider, bounds, Job
<1> QED BY <1>1, <1>2, <1>3, <1>4, <1>5 DEF wallet, provider, bounds, HandlersInv, HeaderOfSelected

LEMMA EventsKeep ==
  ASSUME IInv,
         \/ \E a \in Accounts \cup {None} : SwitchAccount(a)
         \/ \E c \in Chains : SwitchChain(c)
         \/ Navigate
  PROVE  IInv'
<1> USE DEF IInv, CountInv
<1>1. ASSUME NEW a \in Accounts \cup {None}, SwitchAccount(a)
      PROVE  IInv'
  <2>1. /\ events < MaxEvents /\ events' = events + 1 /\ account' = a
        /\ UNCHANGED <<chain, storage, listeners, available, network, indexOpen, asking, enables>>
        /\ \/ ChangeSelectedAccount(jobs, a, "end", Late({"address", "enabled"}))
           \/ UNCHANGED <<selected, header, jobs, awaited, odd>>
    BY <1>1 DEF SwitchAccount, Reported
  <2>2. events' \in 0..MaxEvents
    BY <2>1, SessionAssumption DEF TypeOK
  <2>3. CASE ChangeSelectedAccount(jobs, a, "end", Late({"address", "enabled"}))
    <3>1. /\ Late({"address", "enabled"}) \in SUBSET Odd
          /\ jobs \in Seq(Job) /\ Len(jobs) <= Len(jobs)
      BY DEF Late, Odd, TypeOK, Job
    <3>2. /\ jobs' \in Seq(Job) /\ selected' = a /\ header' \in Accounts \cup {None}
          /\ awaited' \subseteq Awaits /\ IsFiniteSet(awaited') /\ odd' \subseteq Odd
          /\ HandlersInv' /\ HeaderOfSelected'
      BY <2>3, <3>1, ChangeFacts
    <3>3. TypeOK'
      BY <2>1, <2>2, <3>2 DEF TypeOK, Job, Odd
    <3> QED BY <2>1, <3>2, <3>3
  <2>4. CASE UNCHANGED <<selected, header, jobs, awaited, odd>>
    <3>1. TypeOK'
      BY <2>1, <2>2, <2>4 DEF TypeOK
    <3> QED BY <2>1, <2>4, <3>1 DEF HandlersInv, HeaderOfSelected, HandlersOf
  <2> QED BY <2>1, <2>3, <2>4
<1>2. ASSUME NEW c \in Chains, SwitchChain(c)
      PROVE  IInv'
  <2>1. /\ events < MaxEvents /\ events' = events + 1 /\ chain' = c
        /\ network' \in {ToInt32(c), network} /\ odd' \subseteq odd \cup Odd
        /\ "overlap" \in odd => "overlap" \in odd'
        /\ UNCHANGED <<account, storage, listeners, available, selected, header, indexOpen,
                       jobs, awaited, asking, enables>>
    BY <1>2 DEF SwitchChain, Reported, Late, Unnoticed, Odd
  <2>2. events' \in 0..MaxEvents
    BY <2>1, SessionAssumption DEF TypeOK
  <2>3. TypeOK'
    BY <2>1, <2>2 DEF TypeOK, Odd
  <2> QED BY <2>1, <2>3 DEF HandlersInv, HeaderOfSelected, HandlersOf
<1>3. ASSUME Navigate
      PROVE  IInv'
  <2>1. TypeOK'
    BY <1>3 DEF Navigate, TypeOK, wallet, provider, bounds
  <2> QED BY <1>3, <2>1 DEF Navigate, wallet, provider, bounds, HandlersInv, HeaderOfSelected, HandlersOf
<1> QED BY <1>1, <1>2, <1>3

LEMMA NextIInv == IInv /\ [Next]_vars => IInv'
<1> SUFFICES ASSUME IInv, [Next]_vars PROVE IInv'
  OBVIOUS
<1>1. ASSUME UNCHANGED vars PROVE IInv'
  BY <1>1 DEF vars, IInv, TypeOK, CountInv, HandlersInv, HeaderOfSelected, HandlersOf
<1> QED BY <1>1, TakeAvailableKeeps, TakeAddressKeeps, TakeNetworkKeeps, ConnectKeeps,
           TakeEnabledKeeps, TakeContainsKeeps, TakeItemKeeps, EventsKeep DEF Next, Run

LEMMA Invariance == Spec => []IInv
  BY InitIInv, NextIInv, PTL DEF Spec

\* The session keeps its types; in particular each invocation has a number
\* of its own, however many are in progress.
THEOREM SessionTypeCorrect == Spec => []TypeOK
<1>1. IInv => TypeOK
  BY DEF IInv
<1> QED BY <1>1, Invariance, PTL

\* Unless an account is selected while a handler for another is between its
\* awaits, the header never carries another account's token.
THEOREM HeaderIsTheSelectedAccounts == Spec => []HeaderOfSelected
<1>1. IInv => HeaderOfSelected
  BY DEF IInv
<1> QED BY <1>1, Invariance, PTL

-----------------------------------------------------------------------------
(* Following the wallet *)

\* The question of what the wallet shows comes before the answers to clicks.
Ordered(js) ==
  \A m, n \in 1..Len(js) : js[m].at = "address" /\ js[n].at = "enabled" => m < n

\* While it is open whether there is a wallet nothing else goes on.
StartInv ==
  (\E x \in JobsOf(jobs) : x.at = "available") =>
    Len(jobs) = 1 /\ listeners = 0 /\ asking = 0 /\ ~available

\* An answer to a click names the wallet's account, and as long as the
\* selected account is another such an answer is on its way.
AccountInv ==
  /\ listeners = 0 => \A x \in JobsOf(jobs) : x.at = "enabled" => x.value = None
  /\ (listeners > 0 /\ "overtaken" \notin odd) =>
       /\ \A x \in JobsOf(jobs) : x.at = "enabled" /\ x.value # None => x.value = account
       /\ \/ selected = account /\ \A x \in JobsOf(jobs) : x.at # "address"
          \/ \E x \in JobsOf(jobs) : x.at = "enabled" /\ x.value # None

\* As long as the provider's network is another the question is still to be
\* asked or answered.
NetworkInv ==
  odd \cap {"overtaken", "unheard", "unread"} = {} =>
    /\ \A x \in JobsOf(jobs) : x.at = "network" => x.value = chain
    /\ available => \/ network = ToInt32(chain)
                    \/ \E x \in JobsOf(jobs) : x.at \in {"address", "network"}
                    \/ \E w \in awaited : w.then = "network"

FollowInv == IInv /\ Ordered(jobs) /\ StartInv /\ AccountInv /\ NetworkInv

LEMMA AddsOne ==
  ASSUME NEW js \in Seq(Job), NEW x \in Job, jobs' = Append(js, x)
  PROVE  \E more : Adds(js, more) /\ JobsOf(more) = {x}
<1>1. Append(js, x) = js \o <<x>> /\ <<x>> \in Seq(Job) /\ JobsOf(<<x>>) = {x}
  BY AppendIsConcat DEF JobsOf
<1> QED BY <1>1 DEF Adds

LEMMA AddsNone ==
  ASSUME NEW js \in Seq(Job), jobs' = js
  PROVE  \E more : Adds(js, more) /\ JobsOf(more) = {}
<1>1. js \o <<>> = js /\ <<>> \in Seq(Job) /\ JobsOf(<<>>) = {}
  BY ConcatEmptySeq, EmptySeq DEF JobsOf
<1> QED BY <1>1 DEF Adds

LEMMA AddsJobs ==
  ASSUME NEW js \in Seq(Job), NEW more, Adds(js, more)
  PROVE  JobsOf(jobs') = JobsOf(js) \cup JobsOf(more)
  BY ConcatJobs DEF Adds

\* What goes on the queue, unless it asks for the account, keeps its order.
LEMMA OrderedAdds ==
  ASSUME NEW js \in Seq(Job), NEW more, Adds(js, more), Ordered(js),
         \A x \in JobsOf(more) : x.at # "address"
  PROVE  Ordered(jobs)'
<1>1. /\ Len(js) \in Nat /\ Len(more) \in Nat /\ Len(jobs') = Len(js) + Len(more)
      /\ \A i \in 1..Len(js) + Len(more) :
           jobs'[i] = IF i <= Len(js) THEN js[i] ELSE more[i - Len(js)]
  BY ConcatProperties, LenProperties DEF Adds
<1> SUFFICES ASSUME NEW m \in 1..Len(jobs'), NEW n \in 1..Len(jobs'),
                    jobs'[m].at = "address", jobs'[n].at = "enabled"
             PROVE  m < n
  BY DEF Ordered
<1>2. m <= Len(js)
  <2> SUFFICES ASSUME m > Len(js) PROVE FALSE
    BY <1>1
  <2>1. m - Len(js) \in 1..Len(more) /\ jobs'[m] = more[m - Len(js)]
    BY <1>1
  <2> QED BY <2>1 DEF JobsOf
<1>3. CASE n <= Len(js)
  BY <1>1, <1>2, <1>3 DEF Ordered
<1>4. CASE n > Len(js)
  BY <1>1, <1>2, <1>4
<1> QED BY <1>1, <1>3, <1>4

\* The rest of an ordered queue is ordered, and asks for no account any more
\* when the answer to a click has come first.
LEMMA OrderedTail ==
  ASSUME NEW js \in Seq(Job), js # <<>>, Ordered(js)
  PROVE  /\ Ordered(Tail(js))
         /\ Head(js).at = "enabled" => \A x \in JobsOf(Tail(js)) : x.at # "address"
<1>1. /\ Len(js) \in Nat /\ Len(js) > 0 /\ Len(Tail(js)) = Len(js) - 1
      /\ \A i \in 1..Len(Tail(js)) : Tail(js)[i] = js[i + 1]
      /\ Head(js) = js[1]
  BY HeadTailProperties, EmptySeq
<1>2. \A i \in 1..Len(Tail(js)) : i \in Nat /\ i + 1 \in 1..Len(js) /\ i >= 1
  BY <1>1
<1>3. Ordered(Tail(js))
  BY <1>1, <1>2 DEF Ordered
<1>4. ASSUME Head(js).at = "enabled", NEW i \in 1..Len(Tail(js)), Tail(js)[i].at = "address"
      PROVE  FALSE
  <2>1. 1 \in 1..Len(js) /\ js[1].at = "enabled" /\ js[i + 1].at = "address"
    BY <1>1, <1>4
  <2>2. i + 1 < 1
    BY <1>2, <2>1 DEF Ordered
  <2> QED BY <1>2, <2>2
<1> QED BY <1>3, <1>4 DEF JobsOf

\* Selecting an account adds handlers, and, from the start-up, the question
\* for the network or an invocation that will ask it.
LEMMA ChangeAdds ==
  ASSUME IInv, NEW js \in Seq(Job), Len(js) <= Len(jobs),
         NEW a \in Accounts \cup {None}, NEW then \in {"network", "end"},
         NEW late \in SUBSET Odd, ChangeSelectedAccount(js, a, then, late)
  PROVE  /\ selected' = a /\ odd \cup late \subseteq odd'
         /\ awaited \subseteq awaited'
         /\ \E more : /\ Adds(js, more)
                      /\ \A x \in JobsOf(more) : x.at = "contains" \/ x = AskNetwork
                      /\ then = "network" => \/ AskNetwork \in JobsOf(more)
                                             \/ \E w \in awaited' : w.then = "network"
<1>1. CASE selected # a
  <2>1. selected' = a /\ Invoke(js, a, then, late)
    BY <1>1 DEF ChangeSelectedAccount
  <2>2. TypeOK /\ IsFiniteSet(awaited)
    BY DEF IInv, CountInv
  <2>3. odd \cup late \subseteq odd' /\ awaited \subseteq awaited' /\ \E w \in awaited' : w.then = then
    BY <2>1, <2>2, InvokeFacts
  <2>4. \E more : Adds(js, more) /\ \A h \in JobsOf(more) : h.at = "contains"
    BY <2>1, <2>2, InvokeFacts
  <2> QED BY <2>1, <2>3, <2>4
<1>2. CASE selected = a
  <2>1. /\ jobs' = Continue(then, js) /\ odd' = odd \cup late
        /\ UNCHANGED <<selected, header, awaited>>
    BY <1>2 DEF ChangeSelectedAccount
  <2>2. /\ AskNetwork \in Job
        /\ jobs' = IF then = "network" THEN Append(js, AskNetwork) ELSE js
    BY <2>1, ContinueFacts DEF IInv
  <2>3. CASE then = "network"
    BY <1>2, <2>1, <2>2, <2>3, AddsOne
  <2>4. CASE then = "end"
    BY <1>2, <2>1, <2>2, <2>4, AddsNone
  <2> QED BY <2>3, <2>4
<1> QED BY <1>1, <1>2

\* The end of a handler adds the question for the network if it ends the
\* invocation that was to ask it.
LEMMA EndAdds ==
  ASSUME IInv, jobs # <<>>, NEW h, EndHandler(h)
  PROVE  \E more : /\ Adds(Tail(jobs), more)
                   /\ \A x \in JobsOf(more) : x = AskNetwork
                   /\ (\E w \in awaited : w.then = "network") =>
                        \/ AskNetwork \in JobsOf(more)
                        \/ \E w \in awaited' : w.then = "network"
<1> DEFINE ended == {w \in awaited : w.run = h.run /\ w.last = h.by}
           goOn == \E w \in ended : w.then = "network"
<1>1. /\ awaited' = awaited \ ended
      /\ jobs' = Continue(IF goOn THEN "network" ELSE "end", Tail(jobs))
  BY DEF EndHandler
<1>2. Tail(jobs) \in Seq(Job)
  BY TakeOff DEF IInv
<1> HIDE DEF ended
<1>3. CASE goOn
  <2>1. AskNetwork \in Job /\ jobs' = Append(Tail(jobs), AskNetwork)
    BY <1>1, <1>2, <1>3, ContinueFacts DEF IInv
  <2> QED BY <1>2, <2>1, AddsOne
<1>4. CASE ~goOn
  <2>1. jobs' = Tail(jobs)
    BY <1>1, <1>2, <1>4, ContinueFacts DEF IInv
  <2> QED BY <1>1, <1>2, <1>4, <2>1, AddsNone
<1> QED BY <1>3, <1>4

-----------------------------------------------------------------------------
(* Each step keeps the provider following *)

LEMMA Queue ==
  ASSUME TypeOK
  PROVE  /\ jobs \in Seq(Job)
         /\ jobs # <<>> => /\ Head(jobs) \in Job /\ Tail(jobs) \in Seq(Job)
                           /\ JobsOf(jobs) = JobsOf(Tail(jobs)) \cup {Head(jobs)}
                           /\ Len(jobs) \in Nat /\ Len(Tail(jobs)) = Len(jobs) - 1
<1>1. jobs \in Seq(Job)
  BY DEF TypeOK, Job
<1> QED BY <1>1, TailJobs

LEMMA NoJobs ==
  ASSUME NEW js, Len(js) = 0
  PROVE  JobsOf(js) = {}
<1>1. 1..0 = {}
  OBVIOUS
<1> QED BY <1>1 DEF JobsOf

LEMMA InitFollow == Init => Ordered(jobs) /\ StartInv /\ AccountInv /\ NetworkInv
<1> SUFFICES ASSUME Init PROVE Ordered(jobs) /\ StartInv /\ AccountInv /\ NetworkInv
  OBVIOUS
<1>1. Len(jobs) = 1 /\ jobs[1].at = "available"
  <2>1. PICK v \in BOOLEAN : jobs = <<[at |-> "available", value |-> v]>>
    BY DEF Init
  <2> QED BY <2>1
<1>2. \A x \in JobsOf(jobs) : x.at = "available"
  BY <1>1 DEF JobsOf
<1>3. listeners = 0 /\ asking = 0 /\ available = FALSE
  BY DEF Init
<1> QED BY <1>1, <1>2, <1>3 DEF Ordered, StartInv, AccountInv, NetworkInv

LEMMA TakeAvailableFollows ==
  ASSUME FollowInv, TakeAvailable
  PROVE  (Ordered(jobs) /\ StartInv /\ AccountInv /\ NetworkInv)'
<1> DEFINE x == [at |-> "address", value |-> account]
<1>1. /\ jobs # <<>> /\ Head(jobs).at = "available" /\ available' = Head(jobs).value
      /\ UNCHANGED <<account, chain, listeners, selected, network, awaited, asking, odd>>
      /\ jobs' = IF available' THEN Append(Tail(jobs), x) ELSE Tail(jobs)
  BY DEF TakeAvailable, Head1, wallet
<1>2. Len(jobs) = 1 /\ listeners = 0
  BY <1>1, Queue DEF FollowInv, IInv, StartInv
<1>3. Tail(jobs) = <<>>
  BY <1>1, <1>2, Queue, EmptySeq DEF FollowInv, IInv
<1>4. x \in Job /\ x.at = "address"
  BY DEF FollowInv, IInv, TypeOK, Job, Answers
<1>5. CASE available'
  <2>1. jobs' = <<x>>
    <3> HIDE DEF x
    <3>1. jobs' = Append(<<>>, x)
      BY <1>1, <1>3, <1>5
    <3> QED BY <3>1
  <2>2. JobsOf(jobs') = {x} /\ Len(jobs') = 1 /\ jobs'[1] = x
    BY <2>1 DEF JobsOf
  <2> HIDE DEF x
  <2> QED BY <1>1, <1>2, <1>4, <2>2 DEF Ordered, StartInv, AccountInv, NetworkInv
<1>6. CASE ~available'
  <2>1. jobs' = <<>> /\ Len(jobs') = 0
    BY <1>1, <1>3, <1>6, EmptySeq
  <2>2. JobsOf(jobs') = {}
    BY <2>1, NoJobs
  <2>3. Ordered(jobs)' /\ StartInv'
    BY <2>1, <2>2 DEF Ordered, StartInv
  <2>4. AccountInv' /\ NetworkInv'
    BY <1>1, <1>2, <1>6, <2>2 DEF AccountInv, NetworkInv
  <2> QED BY <2>3, <2>4
<1>7. available' \in BOOLEAN
  BY <1>1, Queue, JobKinds DEF FollowInv, IInv
<1> QED BY <1>5, <1>6, <1>7

\* After a job has been taken there is none left of the start.
LEMMA NoStart ==
  ASSUME FollowInv, jobs # <<>>
  PROVE  \A x \in JobsOf(Tail(jobs)) : x.at # "available"
<1> SUFFICES ASSUME NEW x \in JobsOf(Tail(jobs)), x.at = "available" PROVE FALSE
  OBVIOUS
<1>1. x \in JobsOf(jobs) /\ Len(jobs) \in Nat /\ Len(Tail(jobs)) = Len(jobs) - 1
  BY Queue DEF FollowInv, IInv
<1>2. Len(Tail(jobs)) = 0
  BY <1>1 DEF FollowInv, StartInv
<1>3. JobsOf(Tail(jobs)) = {}
  BY <1>2, NoJobs
<1> QED BY <1>3

LEMMA TakeAddressFollows ==
  ASSUME FollowInv, TakeAddress
  PROVE  (Ordered(jobs) /\ StartInv /\ AccountInv /\ NetworkInv)'
<1>1. /\ jobs # <<>> /\ Head(jobs).at = "address"
      /\ ChangeSelectedAccount(Tail(jobs), Head(jobs).value, "network", {})
      /\ UNCHANGED <<account, chain, listeners, available, network, asking>>
  BY DEF TakeAddress, Head1, wallet
<1>2. /\ Head(jobs).value \in Accounts \cup {None}
      /\ Tail(jobs) \in Seq(Job) /\ Len(Tail(jobs)) <= Len(jobs) /\ {} \in SUBSET Odd
      /\ JobsOf(jobs) = JobsOf(Tail(jobs)) \cup {Head(jobs)}
  BY <1>1, Queue, TakeOff, JobKinds DEF FollowInv, IInv
<1>3. /\ odd \subseteq odd' /\ awaited \subseteq awaited'
      /\ \E more : /\ Adds(Tail(jobs), more)
                   /\ \A x \in JobsOf(more) : x.at = "contains" \/ x = AskNetwork
                   /\ AskNetwork \in JobsOf(more) \/ \E w \in awaited' : w.then = "network"
  BY <1>1, <1>2, ChangeAdds DEF FollowInv
<1>4. PICK more : /\ Adds(Tail(jobs), more)
                  /\ \A x \in JobsOf(more) : x.at = "contains" \/ x = AskNetwork
                  /\ AskNetwork \in JobsOf(more) \/ \E w \in awaited' : w.then = "network"
  BY <1>3
<1>5. JobsOf(jobs') = JobsOf(Tail(jobs)) \cup JobsOf(more)
  BY <1>2, <1>4, AddsJobs
<1>6. AskNetwork.at = "network" /\ AskNetwork.value = chain
  BY DEF AskNetwork
<1>7. Ordered(jobs)'
  <2>1. \A x \in JobsOf(more) : x.at # "address"
    BY <1>4, <1>6
  <2>2. Ordered(Tail(jobs))
    BY <1>1, OrderedTail, Queue DEF FollowInv, IInv
  <2> QED BY <1>2, <1>4, <2>1, <2>2, OrderedAdds
<1>8. \A x \in JobsOf(jobs') : x.at \in {"enabled", "address", "available"} => x \in JobsOf(Tail(jobs))
  BY <1>4, <1>5, <1>6
<1>9. StartInv'
  BY <1>1, <1>8, NoStart DEF StartInv
<1>10. AccountInv'
  BY <1>1, <1>2, <1>3, <1>5, <1>8 DEF FollowInv, AccountInv
<1>11. NetworkInv'
  BY <1>1, <1>2, <1>3, <1>4, <1>5, <1>6 DEF FollowInv, NetworkInv
<1> QED BY <1>7, <1>9, <1>10, <1>11

LEMMA TakeNetworkFollows ==
  ASSUME FollowInv, TakeNetwork
  PROVE  (Ordered(jobs) /\ StartInv /\ AccountInv /\ NetworkInv)'
<1>1. /\ jobs # <<>> /\ Head(jobs).at = "network" /\ jobs' = Tail(jobs)
      /\ \/ network' = ToInt32(Head(jobs).value) /\ odd' = odd
         \/ odd' = odd \cup {"unread"}
      /\ UNCHANGED <<account, chain, listeners, available, selected, awaited, asking>>
  BY DEF TakeNetwork, Head1, wallet
<1>2. /\ jobs \in Seq(Job)
      /\ JobsOf(jobs) = JobsOf(Tail(jobs)) \cup {Head(jobs)}
  BY <1>1, Queue DEF FollowInv, IInv
<1>3. Ordered(jobs)'
  BY <1>1, <1>2, OrderedTail DEF FollowInv
<1>4. StartInv'
  BY <1>1, NoStart DEF StartInv
<1>5. AccountInv'
  BY <1>1, <1>2 DEF FollowInv, AccountInv
<1>6. NetworkInv'
  BY <1>1, <1>2 DEF FollowInv, NetworkInv
<1> QED BY <1>3, <1>4, <1>5, <1>6

LEMMA ClickConnectFollows ==
  ASSUME FollowInv, ClickConnect
  PROVE  (Ordered(jobs) /\ StartInv /\ AccountInv /\ NetworkInv)'
<1>1. /\ available
      /\ UNCHANGED <<account, chain, listeners, available, selected, network, jobs, awaited, odd>>
  BY DEF ClickConnect, wallet, provider
<1> QED BY <1>1 DEF FollowInv, Ordered, StartInv, AccountInv, NetworkInv

\* An answer to a click is put at the end of the queue.
LEMMA AnswerFollows ==
  ASSUME FollowInv, NEW x \in Job, x.at = "enabled", asking > 0,
         jobs' = Append(jobs, x),
         UNCHANGED <<account, chain, available, selected, network, awaited, odd>>
  PROVE  /\ (Ordered(jobs) /\ StartInv /\ NetworkInv)'
         /\ JobsOf(jobs') = JobsOf(jobs) \cup {x}
<1>1. jobs \in Seq(Job)
  BY Queue DEF FollowInv, IInv
<1>2. JobsOf(jobs') = JobsOf(jobs) \cup {x}
  BY <1>1, AppendJobs
<1>3. asking # 0
  BY DEF FollowInv, IInv, TypeOK
<1>4. Ordered(jobs)'
  <2>1. PICK more : Adds(jobs, more) /\ JobsOf(more) = {x}
    BY <1>1, AddsOne
  <2>2. \A y \in JobsOf(more) : y.at # "address"
    BY <2>1
  <2> QED BY <1>1, <2>1, <2>2, OrderedAdds DEF FollowInv
<1>5. StartInv'
  BY <1>2, <1>3 DEF FollowInv, StartInv
<1>6. NetworkInv'
  BY <1>2 DEF FollowInv, NetworkInv
<1> QED BY <1>2, <1>4, <1>5, <1>6

LEMMA ApproveFollows ==
  ASSUME FollowInv, Approve
  PROVE  (Ordered(jobs) /\ StartInv /\ AccountInv /\ NetworkInv)'
<1> DEFINE x == [at |-> "enabled", value |-> account]
<1>1. /\ asking > 0 /\ account # None /\ listeners' = listeners + 1
      /\ jobs' = Append(jobs, x)
      /\ UNCHANGED <<account, chain, available, selected, network, awaited, odd>>
  BY DEF Approve, provider
<1>2. x \in Job /\ x.at = "enabled" /\ x.value = account
  BY DEF FollowInv, IInv, TypeOK, Job, Answers
<1> HIDE DEF x
<1>3. /\ (Ordered(jobs) /\ StartInv /\ NetworkInv)'
      /\ JobsOf(jobs') = JobsOf(jobs) \cup {x}
  BY <1>1, <1>2, AnswerFollows
<1>4. listeners \in Nat /\ listeners' # 0
  BY <1>1 DEF FollowInv, IInv, TypeOK
<1>5. \A y \in JobsOf(jobs) :
        odd \cap {"overtaken"} = {} /\ y.at = "enabled" /\ y.value # None => y.value = account
  BY <1>4 DEF FollowInv, AccountInv
<1>6. AccountInv'
  BY <1>1, <1>2, <1>3, <1>4, <1>5 DEF AccountInv
<1> QED BY <1>3, <1>6

LEMMA RejectFollows ==
  ASSUME FollowInv, Reject
  PROVE  (Ordered(jobs) /\ StartInv /\ AccountInv /\ NetworkInv)'
<1> DEFINE x == [at |-> "enabled", value |-> None]
<1>1. /\ asking > 0 /\ jobs' = Append(jobs, x)
      /\ UNCHANGED <<account, chain, listeners, available, selected, network, awaited, odd>>
  BY DEF Reject, provider, wallet
<1>2. x \in Job /\ x.at = "enabled" /\ x.value = None
  BY DEF FollowInv, IInv, TypeOK, Job, Answers
<1> HIDE DEF x
<1>3. /\ (Ordered(jobs) /\ StartInv /\ NetworkInv)'
      /\ JobsOf(jobs') = JobsOf(jobs) \cup {x}
  BY <1>1, <1>2, AnswerFollows
<1>4. AccountInv'
  BY <1>1, <1>2, <1>3 DEF FollowInv, AccountInv
<1> QED BY <1>3, <1>4

LEMMA TakeEnabledFollows ==
  ASSUME FollowInv, TakeEnabled
  PROVE  (Ordered(jobs) /\ StartInv /\ AccountInv /\ NetworkInv)'
<1>1. /\ jobs # <<>> /\ Head(jobs).at = "enabled"
      /\ UNCHANGED <<account, chain, listeners, available, network, asking>>
      /\ \/ /\ Head(jobs).value # None /\ selected' = Head(jobs).value
            /\ Invoke(Tail(jobs), Head(jobs).value, "end", {})
         \/ /\ Head(jobs).value = None /\ jobs' = Tail(jobs)
            /\ UNCHANGED <<selected, awaited, odd>>
  BY DEF TakeEnabled, Head1, wallet
<1>2. /\ jobs \in Seq(Job) /\ Tail(jobs) \in Seq(Job) /\ Len(Tail(jobs)) <= Len(jobs)
      /\ Head(jobs).value \in Accounts \cup {None}
      /\ {} \in SUBSET Odd /\ "end" \in {"network", "end"}
      /\ TypeOK /\ IsFiniteSet(awaited)
      /\ JobsOf(jobs) = JobsOf(Tail(jobs)) \cup {Head(jobs)}
  BY <1>1, Queue, TakeOff, JobKinds DEF FollowInv, IInv, CountInv
<1>3. /\ Ordered(Tail(jobs))
      /\ \A x \in JobsOf(Tail(jobs)) : x.at # "address" /\ x.at # "available"
  BY <1>1, <1>2, OrderedTail, NoStart DEF FollowInv
<1>4. CASE /\ Head(jobs).value # None /\ selected' = Head(jobs).value
           /\ Invoke(Tail(jobs), Head(jobs).value, "end", {})
  <2>1. /\ odd \subseteq odd' /\ awaited \subseteq awaited'
        /\ \E more : Adds(Tail(jobs), more) /\ \A h \in JobsOf(more) : h.at = "contains"
    <3>1. odd \cup {} \subseteq odd' /\ awaited \subseteq awaited'
      BY <1>2, <1>4, InvokeFacts
    <3>2. \E more : Adds(Tail(jobs), more) /\ \A h \in JobsOf(more) : h.at = "contains"
      BY <1>2, <1>4, InvokeFacts
    <3> QED BY <3>1, <3>2
  <2>2. PICK more : Adds(Tail(jobs), more) /\ \A h \in JobsOf(more) : h.at = "contains"
    BY <2>1
  <2>3. JobsOf(jobs') = JobsOf(Tail(jobs)) \cup JobsOf(more)
    BY <1>2, <2>2, AddsJobs
  <2>4. Ordered(jobs)'
    <3>1. \A x \in JobsOf(more) : x.at # "address"
      BY <2>2
    <3> QED BY <1>2, <1>3, <2>2, <3>1, OrderedAdds
  <2>5. StartInv'
    BY <1>3, <2>2, <2>3 DEF StartInv
  <2>6. AccountInv'
    <3>1. Head(jobs) \in JobsOf(jobs)
      BY <1>2
    <3>2. listeners # 0
      BY <1>1, <1>4, <3>1 DEF FollowInv, AccountInv
    <3>3. "overtaken" \notin odd => selected' = account
      BY <1>1, <1>4, <3>1, <3>2 DEF FollowInv, AccountInv, IInv, TypeOK
    <3>4. \A x \in JobsOf(jobs') : x.at # "address" /\ (x.at = "enabled" => x \in JobsOf(jobs))
      BY <1>2, <1>3, <2>2, <2>3
    <3> QED BY <1>1, <2>1, <3>2, <3>3, <3>4 DEF FollowInv, AccountInv
  <2>7. NetworkInv'
    BY <1>1, <1>2, <2>1, <2>2, <2>3 DEF FollowInv, NetworkInv
  <2> QED BY <2>4, <2>5, <2>6, <2>7
<1>5. CASE /\ Head(jobs).value = None /\ jobs' = Tail(jobs)
           /\ UNCHANGED <<selected, awaited, odd>>
  <2>1. Ordered(jobs)' /\ StartInv'
    BY <1>3, <1>5 DEF StartInv
  <2>2. AccountInv'
    BY <1>1, <1>2, <1>5 DEF FollowInv, AccountInv
  <2>3. NetworkInv'
    BY <1>1, <1>2, <1>5 DEF FollowInv, NetworkInv
  <2> QED BY <2>1, <2>2, <2>3
<1> QED BY <1>1, <1>4, <1>5

\* A handler that goes on or ends adds neither an account nor a click, and
\* keeps the question for the network open.
LEMMA HandlerFollows ==
  ASSUME FollowInv, jobs # <<>>, Head(jobs).at \in {"contains", "item"},
         NEW more, Adds(Tail(jobs), more),
         \A x \in JobsOf(more) : x.at = "item" \/ x = AskNetwork,
         (\E w \in awaited : w.then = "network") =>
            AskNetwork \in JobsOf(more) \/ \E w \in awaited' : w.then = "network",
         UNCHANGED <<account, chain, listeners, available, selected, network, asking, odd>>
  PROVE  (Ordered(jobs) /\ StartInv /\ AccountInv /\ NetworkInv)'
<1>1. /\ Tail(jobs) \in Seq(Job) /\ JobsOf(jobs) = JobsOf(Tail(jobs)) \cup {Head(jobs)}
      /\ Ordered(Tail(jobs)) /\ \A x \in JobsOf(Tail(jobs)) : x.at # "available"
  BY Queue, OrderedTail, NoStart DEF FollowInv, IInv
<1>2. JobsOf(jobs') = JobsOf(Tail(jobs)) \cup JobsOf(more)
  BY <1>1, AddsJobs
<1>3. AskNetwork.at = "network" /\ AskNetwork.value = chain
  BY DEF AskNetwork
<1>4. \A x \in JobsOf(more) : x.at \in {"item", "network"}
  BY <1>3
<1>5. Ordered(jobs)'
  BY <1>1, <1>4, OrderedAdds
<1>6. StartInv'
  BY <1>1, <1>2, <1>4 DEF StartInv
<1>7. AccountInv'
  BY <1>1, <1>2, <1>4 DEF FollowInv, AccountInv
<1>8. NetworkInv'
  BY <1>1, <1>2, <1>3, <1>4 DEF FollowInv, NetworkInv
<1> QED BY <1>5, <1>6, <1>7, <1>8

LEMMA TakeContainsFollows ==
  ASSUME FollowInv, TakeContains
  PROVE  (Ordered(jobs) /\ StartInv /\ AccountInv /\ NetworkInv)'
<1>1. /\ jobs # <<>> /\ Head(jobs).at = "contains"
      /\ UNCHANGED <<account, chain, listeners, available, selected, network, asking, odd>>
      /\ \/ /\ jobs' = Append(Tail(jobs), [Head(jobs) EXCEPT !.at = "item"])
            /\ UNCHANGED awaited
         \/ EndHandler(Head(jobs))
  BY DEF TakeContains, Head1, wallet, provider
<1>2. Tail(jobs) \in Seq(Job) /\ Head(jobs) \in Job
  BY <1>1, Queue DEF FollowInv, IInv
<1>3. CASE EndHandler(Head(jobs))
  <2>1. \E more : /\ Adds(Tail(jobs), more)
                  /\ \A x \in JobsOf(more) : x = AskNetwork
                  /\ (\E w \in awaited : w.then = "network") =>
                       \/ AskNetwork \in JobsOf(more)
                       \/ \E w \in awaited' : w.then = "network"
    BY <1>1, <1>3, EndAdds DEF FollowInv
  <2> QED BY <1>1, <2>1, HandlerFollows
<1>4. CASE /\ jobs' = Append(Tail(jobs), [Head(jobs) EXCEPT !.at = "item"])
           /\ UNCHANGED awaited
  <2>1. [Head(jobs) EXCEPT !.at = "item"] \in Job /\ [Head(jobs) EXCEPT !.at = "item"].at = "item"
    <3>1. Head(jobs) \in Handlers
      BY <1>1, <1>2, JobKinds
    <3> QED BY <3>1 DEF Handlers, Job
  <2>2. PICK more : Adds(Tail(jobs), more) /\ JobsOf(more) = {[Head(jobs) EXCEPT !.at = "item"]}
    BY <1>2, <1>4, <2>1, AddsOne
  <2>3. \A x \in JobsOf(more) : x.at = "item"
    BY <2>1, <2>2
  <2> QED BY <1>1, <1>4, <2>2, <2>3, HandlerFollows
<1> QED BY <1>1, <1>3, <1>4

LEMMA TakeItemFollows ==
  ASSUME FollowInv, TakeItem
  PROVE  (Ordered(jobs) /\ StartInv /\ AccountInv /\ NetworkInv)'
<1>1. /\ jobs # <<>> /\ Head(jobs).at = "item" /\ EndHandler(Head(jobs))
      /\ UNCHANGED <<account, chain, listeners, available, selected, network, asking, odd>>
  BY DEF TakeItem, Head1, wallet, provider
<1>2. \E more : /\ Adds(Tail(jobs), more)
                /\ \A x \in JobsOf(more) : x = AskNetwork
                /\ (\E w \in awaited : w.then = "network") =>
                     \/ AskNetwork \in JobsOf(more)
                     \/ \E w \in awaited' : w.then = "network"
  BY <1>1, EndAdds DEF FollowInv
<1> QED BY <1>1, <1>2, HandlerFollows

\* An event that no answer in flight will undo finds nothing in the queue
\* of those kinds.
LEMMA LateOrNone ==
  ASSUME NEW kinds, listeners > 0, "overtaken" \notin Late(kinds)
  PROVE  \A x \in JobsOf(jobs) : x.at \notin kinds
  BY DEF Late, InFlight, JobsOf

LEMMA SwitchAccountFollows ==
  ASSUME FollowInv, NEW a \in Accounts \cup {None}, SwitchAccount(a)
  PROVE  (Ordered(jobs) /\ StartInv /\ AccountInv /\ NetworkInv)'
<1>1. /\ account' = a
      /\ UNCHANGED <<chain, listeners, available, network, asking>>
      /\ \/ /\ listeners > 0
            /\ ChangeSelectedAccount(jobs, a, "end", Late({"address", "enabled"}))
         \/ /\ listeners = 0
            /\ UNCHANGED <<selected, jobs, awaited, odd>>
  BY DEF SwitchAccount, Reported
<1>2. CASE /\ listeners = 0
           /\ UNCHANGED <<selected, jobs, awaited, odd>>
  BY <1>1, <1>2 DEF FollowInv, Ordered, StartInv, AccountInv, NetworkInv
<1>3. CASE /\ listeners > 0
           /\ ChangeSelectedAccount(jobs, a, "end", Late({"address", "enabled"}))
  <2> DEFINE late == Late({"address", "enabled"})
  <2>1. /\ late \in SUBSET Odd /\ jobs \in Seq(Job) /\ Len(jobs) <= Len(jobs)
        /\ "end" \in {"network", "end"}
    <3>1. late \in SUBSET Odd /\ jobs \in Seq(Job)
      BY Queue DEF Late, Odd, FollowInv, IInv
    <3> QED BY <3>1, LenProperties
  <2>2. "overtaken" \notin late => \A x \in JobsOf(jobs) : x.at \notin {"address", "enabled"}
    BY <1>3, LateOrNone
  <2> HIDE DEF late
  <2>3. /\ selected' = a /\ odd \cup late \subseteq odd'
        /\ awaited \subseteq awaited'
        /\ \E more : /\ Adds(jobs, more)
                     /\ \A x \in JobsOf(more) : x.at = "contains" \/ x = AskNetwork
    <3>1. ChangeSelectedAccount(jobs, a, "end", late) /\ IInv
      BY <1>3 DEF late, FollowInv
    <3> QED BY <2>1, <3>1, ChangeAdds
  <2>4. PICK more : /\ Adds(jobs, more)
                    /\ \A x \in JobsOf(more) : x.at = "contains" \/ x = AskNetwork
    BY <2>3
  <2>5. /\ JobsOf(jobs') = JobsOf(jobs) \cup JobsOf(more)
        /\ AskNetwork.at = "network" /\ AskNetwork.value = chain
    BY <2>1, <2>4, AddsJobs DEF AskNetwork
  <2>6. \A x \in JobsOf(more) : x.at \in {"contains", "network"}
    BY <2>4, <2>5
  <2>7. Ordered(jobs)'
    BY <2>1, <2>4, <2>6, OrderedAdds DEF FollowInv
  <2>8. StartInv'
    BY <1>3, <2>5, <2>6 DEF FollowInv, StartInv
  <2>9. AccountInv'
    BY <1>1, <1>3, <2>2, <2>3, <2>5, <2>6 DEF FollowInv, AccountInv
  <2>10. NetworkInv'
    BY <1>1, <2>3, <2>4, <2>5 DEF FollowInv, NetworkInv
  <2> QED BY <2>7, <2>8, <2>9, <2>10
<1> QED BY <1>1, <1>2, <1>3

LEMMA SwitchChainFollows ==
  ASSUME FollowInv, NEW c \in Chains, SwitchChain(c)
  PROVE  (Ordered(jobs) /\ StartInv /\ AccountInv /\ NetworkInv)'
<1>1. /\ chain' = c
      /\ \/ /\ Unnoticed(c) = {} /\ network' = ToInt32(c)
            /\ odd' = (odd \ {"unheard", "unread"}) \cup Late({"network"})
         \/ /\ Unnoticed(c) # {}
            /\ odd' = odd \cup Late({"network"}) \cup Unnoticed(c)
      /\ UNCHANGED <<account, listeners, available, selected, jobs, awaited, asking>>
  BY DEF SwitchChain, Reported
<1>2. (Ordered(jobs) /\ StartInv /\ AccountInv)'
  <2>1. "overtaken" \in odd => "overtaken" \in odd'
    BY <1>1
  <2> QED BY <1>1, <2>1 DEF FollowInv, Ordered, StartInv, AccountInv
<1>3. NetworkInv'
  <2>1. listeners \in Nat /\ Unnoticed(c) \in {{"unheard"}, {"unread"}, {}}
    BY DEF FollowInv, IInv, TypeOK, Unnoticed
  <2>2. CASE Unnoticed(c) # {}
    BY <1>1, <2>1, <2>2 DEF NetworkInv
  <2>3. CASE Unnoticed(c) = {}
    <3>1. listeners > 0
      BY <2>1, <2>3 DEF Unnoticed
    <3>2. "overtaken" \notin Late({"network"}) => \A x \in JobsOf(jobs) : x.at \notin {"network"}
      BY <3>1, LateOrNone
    <3> QED BY <1>1, <2>3, <3>2 DEF NetworkInv
  <2> QED BY <2>2, <2>3
<1> QED BY <1>2, <1>3

LEMMA NextFollow == FollowInv /\ [Next]_vars => FollowInv'
<1> SUFFICES ASSUME FollowInv, [Next]_vars PROVE FollowInv'
  OBVIOUS
<1>1. IInv'
  BY NextIInv DEF FollowInv
<1>2. ASSUME Navigate \/ UNCHANGED vars
      PROVE  (Ordered(jobs) /\ StartInv /\ AccountInv /\ NetworkInv)'
  <2>1. UNCHANGED <<account, chain, listeners, available, selected, network, jobs, awaited,
                    asking, odd>>
    BY <1>2 DEF Navigate, vars, wallet, provider
  <2> QED BY <2>1 DEF FollowInv, Ordered, StartInv, AccountInv, NetworkInv
<1>3. (Ordered(jobs) /\ StartInv /\ AccountInv /\ NetworkInv)'
  BY <1>2, TakeAvailableFollows, TakeAddressFollows, TakeNetworkFollows,
     ClickConnectFollows, ApproveFollows, RejectFollows, TakeEnabledFollows,
     TakeContainsFollows, TakeItemFollows, SwitchAccountFollows, SwitchChainFollows
     DEF Next, Run
<1> QED BY <1>1, <1>3 DEF FollowInv

LEMMA FollowInvariance == Spec => []FollowInv
<1>1. Init => FollowInv
  BY InitIInv, InitFollow DEF FollowInv
<1> QED BY <1>1, NextFollow, PTL DEF Spec

LEMMA QuietIsEmpty == Quiet => JobsOf(jobs) = {} /\ awaited = {}
<1> SUFFICES ASSUME Quiet PROVE JobsOf(jobs) = {} /\ awaited = {}
  OBVIOUS
<1>1. Len(jobs) = 0 /\ awaited = {}
  BY EmptySeq DEF Quiet
<1> QED BY <1>1, NoJobs

\* Once connected, the provider follows the wallet's account whatever the
\* number of clicks, of listeners and of events, unless an event came between
\* the read of an account and the use of it.
THEOREM SelectedFollowsTheWallet == Spec => []AccountFollowed
<1>1. FollowInv => AccountFollowed
  BY QuietIsEmpty DEF FollowInv, AccountInv, AccountFollowed
<1> QED BY <1>1, FollowInvariance, PTL

\* It follows the network too, whatever was refused or too large before: from
\* the first change that it hears and can convert, and from its start when it
\* could read the network then.  The cases left out are named by `odd'.
THEOREM NetworkFollowsTheWallet == Spec => []NetworkFollowed
<1>1. FollowInv => NetworkFollowed
  BY QuietIsEmpty DEF FollowInv, NetworkInv, NetworkFollowed
<1> QED BY <1>1, FollowInvariance, PTL
=============================================================================
