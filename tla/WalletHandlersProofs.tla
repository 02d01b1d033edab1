------------------------- MODULE WalletHandlersProofs -------------------------
(***************************************************************************)
(* Theorems about the order of the handlers in WalletSession's queue: the  *)
(* handlers of the last change of the account end last, and the last       *)
(* subscriber's handler ends last of its invocation.                       *)
(*                                                                         *)
(* A handler is in the queue twice, waiting first for the storage's keys   *)
(* and then for the item, so its position does not tell when it ends.      *)
(***************************************************************************)
EXTENDS WalletSessionProofs

\* The positions of the handlers in the queue.
Positions(js) == {n \in 1..Len(js) : js[n].at \in {"contains", "item"}}

\* The handler at m ends before the one at n, if both find their key.
EndsBefore(js, m, n) ==
  \/ js[m].at = js[n].at /\ m < n
  \/ js[m].at = "item" /\ js[n].at = "contains"

\* A handler that asks for the item has found its key.
KeyInv == \A m \in Positions(jobs) : jobs[m].at = "item" => HasKey(jobs[m].value)

\* A subscriber has one handler in an invocation.
OneHandlerInv ==
  \A m, n \in Positions(jobs) :
    jobs[m].run = jobs[n].run /\ jobs[m].by = jobs[n].by => m = n

\* At n is the handler that the invocation w of the one at m waits for.
WaitsFor(js, w, m, n) ==
  /\ js[n].run = js[m].run /\ js[n].value = js[m].value
  /\ w.run = js[m].run /\ js[n].by = w.last
  /\ m = n \/ EndsBefore(js, m, n)

CoverInv ==
  \A m \in Positions(jobs) : \E w \in awaited, n \in Positions(jobs) : WaitsFor(jobs, w, m, n)

\* At n is a handler of the selected account, which the others' end before.
EndsLast(js, n) ==
  /\ js[n].value = selected
  /\ \A m \in Positions(js) : js[m].value # selected => EndsBefore(js, m, n)

\* The selected account's token is in use, or a handler that will set it is
\* on its way and no other account's will come after it.
TokenInv ==
  (selected # None /\ storage[selected] = "token") =>
    \/ header = selected /\ \A m \in Positions(jobs) : jobs[m].value = selected
    \/ \E n \in Positions(jobs) : EndsLast(jobs, n)

HInv == KeyInv /\ OneHandlerInv /\ CoverInv /\ TokenInv

-----------------------------------------------------------------------------
(* A step takes d jobs, one or none, off the queue and puts more on it *)

Shifted(d, more) ==
  /\ d \in {0, 1} /\ Len(jobs) \in Nat /\ Len(more) \in Nat /\ d <= Len(jobs)
  /\ \A m \in (1 + d)..Len(jobs) : m - d \in 1..Len(jobs') /\ jobs'[m - d] = jobs[m]
  /\ \A k \in 1..Len(more) :
       Len(jobs) - d + k \in 1..Len(jobs') /\ jobs'[Len(jobs) - d + k] = more[k]
  /\ \A i \in 1..Len(jobs') :
       \/ i + d \in (1 + d)..Len(jobs) /\ jobs'[i] = jobs[i + d]
       \/ \E k \in 1..Len(more) : i = Len(jobs) - d + k /\ jobs'[i] = more[k]

LEMMA ShiftedConcat ==
  ASSUME jobs \in Seq(Job), NEW more \in Seq(Job), jobs' = jobs \o more
  PROVE  Shifted(0, more)
<1>1. /\ Len(jobs) \in Nat /\ Len(more) \in Nat /\ Len(jobs') = Len(jobs) + Len(more)
      /\ \A i \in 1..Len(jobs) + Len(more) :
           jobs'[i] = IF i <= Len(jobs) THEN jobs[i] ELSE more[i - Len(jobs)]
  BY ConcatProperties, LenProperties
<1>2. \A m \in 1..Len(jobs) : m - 0 \in 1..Len(jobs') /\ jobs'[m - 0] = jobs[m]
  BY <1>1
<1>3. \A k \in 1..Len(more) :
        Len(jobs) - 0 + k \in 1..Len(jobs') /\ jobs'[Len(jobs) - 0 + k] = more[k]
  <2> SUFFICES ASSUME NEW k \in 1..Len(more)
               PROVE  Len(jobs) - 0 + k \in 1..Len(jobs') /\ jobs'[Len(jobs) - 0 + k] = more[k]
    OBVIOUS
  <2>1. Len(jobs) - 0 + k \in 1..Len(jobs') /\ ~(Len(jobs) - 0 + k <= Len(jobs))
    BY <1>1
  <2>2. Len(jobs) - 0 + k - Len(jobs) = k
    BY <1>1
  <2> QED BY <1>1, <2>1, <2>2
<1>4. ASSUME NEW i \in 1..Len(jobs')
      PROVE  \/ i + 0 \in (1 + 0)..Len(jobs) /\ jobs'[i] = jobs[i + 0]
             \/ \E k \in 1..Len(more) : i = Len(jobs) - 0 + k /\ jobs'[i] = more[k]
  <2>1. CASE i <= Len(jobs)
    BY <1>1, <2>1
  <2>2. CASE i > Len(jobs)
    <3>1. /\ i - Len(jobs) \in 1..Len(more) /\ i = Len(jobs) - 0 + (i - Len(jobs))
          /\ jobs'[i] = more[i - Len(jobs)]
      BY <1>1, <2>2
    <3> QED BY <3>1
  <2> QED BY <1>1, <2>1, <2>2
<1> QED BY <1>1, <1>2, <1>3, <1>4 DEF Shifted

LEMMA ShiftedTail ==
  ASSUME jobs \in Seq(Job), jobs # <<>>, NEW more \in Seq(Job), jobs' = Tail(jobs) \o more
  PROVE  Shifted(1, more)
<1>1. /\ Tail(jobs) \in Seq(Job)
      /\ Len(jobs) \in Nat /\ Len(jobs) > 0 /\ Len(Tail(jobs)) = Len(jobs) - 1
      /\ \A n \in 1..Len(Tail(jobs)) : Tail(jobs)[n] = jobs[n + 1]
  BY HeadTailProperties, EmptySeq
<1>2. /\ Len(more) \in Nat /\ Len(jobs') = Len(jobs) - 1 + Len(more)
      /\ \A i \in 1..Len(jobs') :
           jobs'[i] = IF i <= Len(jobs) - 1 THEN Tail(jobs)[i] ELSE more[i - (Len(jobs) - 1)]
  <2>1. /\ Len(more) \in Nat /\ Len(jobs') = Len(Tail(jobs)) + Len(more)
        /\ \A i \in 1..Len(Tail(jobs)) + Len(more) :
             jobs'[i] = IF i <= Len(Tail(jobs)) THEN Tail(jobs)[i] ELSE more[i - Len(Tail(jobs))]
    BY <1>1, ConcatProperties, LenProperties
  <2> QED BY <1>1, <2>1
<1>3. ASSUME NEW m \in (1 + 1)..Len(jobs)
      PROVE  m - 1 \in 1..Len(jobs') /\ jobs'[m - 1] = jobs[m]
  <2>1. m - 1 \in 1..Len(jobs') /\ m - 1 <= Len(jobs) - 1 /\ m - 1 \in 1..Len(Tail(jobs)) /\ m - 1 + 1 = m
    BY <1>1, <1>2
  <2> QED BY <1>1, <1>2, <2>1
<1>4. ASSUME NEW k \in 1..Len(more)
      PROVE  Len(jobs) - 1 + k \in 1..Len(jobs') /\ jobs'[Len(jobs) - 1 + k] = more[k]
  <2>1. /\ Len(jobs) - 1 + k \in 1..Len(jobs') /\ ~(Len(jobs) - 1 + k <= Len(jobs) - 1)
        /\ Len(jobs) - 1 + k - (Len(jobs) - 1) = k
    BY <1>1, <1>2
  <2> QED BY <1>2, <2>1
<1>5. ASSUME NEW i \in 1..Len(jobs')
      PROVE  \/ i + 1 \in (1 + 1)..Len(jobs) /\ jobs'[i] = jobs[i + 1]
             \/ \E k \in 1..Len(more) : i = Len(jobs) - 1 + k /\ jobs'[i] = more[k]
  <2>1. CASE i <= Len(jobs) - 1
    BY <1>1, <1>2, <2>1
  <2>2. CASE i > Len(jobs) - 1
    <3>1. /\ i - (Len(jobs) - 1) \in 1..Len(more) /\ i = Len(jobs) - 1 + (i - (Len(jobs) - 1))
          /\ jobs'[i] = more[i - (Len(jobs) - 1)]
      BY <1>1, <1>2, <2>2
    <3> QED BY <3>1
  <2> QED BY <1>1, <2>1, <2>2
<1> QED BY <1>1, <1>2, <1>3, <1>4, <1>5 DEF Shifted

\* The handlers left on the queue are where they were, d places further on,
\* and no others come if there is none among more.
LEMMA KeptPositions ==
  ASSUME NEW d, NEW more, Shifted(d, more),
         d = 1 => jobs[1].at \notin {"contains", "item"},
         \A k \in 1..Len(more) : more[k].at \notin {"contains", "item"}
  PROVE  /\ \A m \in Positions(jobs) : m - d \in Positions(jobs') /\ jobs'[m - d] = jobs[m]
         /\ \A i \in Positions(jobs') : i + d \in Positions(jobs) /\ jobs'[i] = jobs[i + d]
<1>1. ASSUME NEW m \in Positions(jobs)
      PROVE  m - d \in Positions(jobs') /\ jobs'[m - d] = jobs[m]
  <2>1. m \in (1 + d)..Len(jobs)
    BY DEF Shifted, Positions
  <2> QED BY <2>1 DEF Shifted, Positions
<1>2. ASSUME NEW i \in Positions(jobs')
      PROVE  i + d \in Positions(jobs) /\ jobs'[i] = jobs[i + d]
  <2>1. i + d \in (1 + d)..Len(jobs) /\ jobs'[i] = jobs[i + d]
    BY DEF Shifted, Positions
  <2>2. i + d \in 1..Len(jobs)
    BY <2>1 DEF Shifted
  <2> QED BY <2>1, <2>2 DEF Positions
<1> QED BY <1>1, <1>2

LEMMA PositionsAreInts ==
  ASSUME NEW js, Len(js) \in Nat, NEW n \in Positions(js)
  PROVE  n \in Int
  BY DEF Positions

\* A step that concerns no handler.
LEMMA OthersKeep ==
  ASSUME HInv, NEW d, NEW more, Shifted(d, more),
         d = 1 => jobs[1].at \notin {"contains", "item"},
         \A k \in 1..Len(more) : more[k].at \notin {"contains", "item"},
         UNCHANGED <<storage, selected, header, awaited>>
  PROVE  HInv'
<1>1. /\ \A m \in Positions(jobs) : m - d \in Positions(jobs') /\ jobs'[m - d] = jobs[m]
      /\ \A i \in Positions(jobs') : i + d \in Positions(jobs) /\ jobs'[i] = jobs[i + d]
  BY KeptPositions
<1>2. /\ d \in Int
      /\ \A m \in Positions(jobs) : m \in Int
      /\ \A i \in Positions(jobs') : i \in Int
  BY DEF Shifted, Positions
<1>3. KeyInv'
  BY <1>1 DEF HInv, KeyInv, HasKey
<1>4. OneHandlerInv'
  <2> SUFFICES ASSUME NEW m \in Positions(jobs'), NEW n \in Positions(jobs'),
                      jobs'[m].run = jobs'[n].run, jobs'[m].by = jobs'[n].by
               PROVE  m = n
    BY DEF OneHandlerInv
  <2>1. m + d = n + d
    BY <1>1 DEF HInv, OneHandlerInv
  <2> QED BY <1>2, <2>1
<1>5. CoverInv'
  <2> SUFFICES ASSUME NEW m \in Positions(jobs')
               PROVE  \E w \in awaited, n \in Positions(jobs') : WaitsFor(jobs', w, m, n)
    BY DEF CoverInv
  <2>1. PICK w \in awaited, n \in Positions(jobs) : WaitsFor(jobs, w, m + d, n)
    BY <1>1 DEF HInv, CoverInv
  <2>2. n - d \in Positions(jobs') /\ jobs'[n - d] = jobs[n] /\ jobs'[m] = jobs[m + d]
    BY <1>1
  <2>3. WaitsFor(jobs', w, m, n - d)
    BY <1>2, <2>1, <2>2 DEF WaitsFor, EndsBefore
  <2> QED BY <2>2, <2>3
<1>6. TokenInv'
  <2> SUFFICES ASSUME selected # None, storage[selected] = "token"
               PROVE  \/ header = selected /\ \A m \in Positions(jobs') : jobs'[m].value = selected
                      \/ \E n \in Positions(jobs') : EndsLast(jobs', n)
    BY DEF TokenInv, EndsLast
  <2>1. CASE header = selected /\ \A m \in Positions(jobs) : jobs[m].value = selected
    BY <1>1, <2>1
  <2>2. ASSUME NEW n \in Positions(jobs), EndsLast(jobs, n)
        PROVE  n - d \in Positions(jobs') /\ EndsLast(jobs', n - d)
    <3>1. n - d \in Positions(jobs') /\ jobs'[n - d] = jobs[n]
      BY <1>1
    <3>2. ASSUME NEW m \in Positions(jobs'), jobs'[m].value # selected
          PROVE  EndsBefore(jobs', m, n - d)
      <4>1. m + d \in Positions(jobs) /\ jobs'[m] = jobs[m + d]
        BY <1>1
      <4>2. EndsBefore(jobs, m + d, n)
        BY <2>2, <3>2, <4>1 DEF EndsLast
      <4> QED BY <1>2, <3>1, <4>1, <4>2 DEF EndsBefore
    <3> QED BY <2>2, <3>1, <3>2 DEF EndsLast
  <2> QED BY <2>1, <2>2 DEF HInv, TokenInv
<1> QED BY <1>3, <1>4, <1>5, <1>6 DEF HInv

\* The head of the queue goes on to ask for its item.
LEMMA GoOnKeeps ==
  ASSUME HInv, NEW x, Shifted(1, <<x>>), jobs[1].at = "contains", HasKey(jobs[1].value),
         x.at = "item", x.value = jobs[1].value, x.run = jobs[1].run, x.by = jobs[1].by,
         UNCHANGED <<storage, selected, header, awaited>>
  PROVE  HInv'
<1> DEFINE L == Len(jobs)
<1>1. /\ L \in Nat /\ 1 <= L /\ 1 \in Positions(jobs)
      /\ L \in Positions(jobs') /\ jobs'[L] = x
      /\ \A m \in Positions(jobs) \ {1} : m - 1 \in Positions(jobs') /\ jobs'[m - 1] = jobs[m]
      /\ \A i \in Positions(jobs') \ {L} :
           i + 1 \in Positions(jobs) \ {1} /\ jobs'[i] = jobs[i + 1]
  <2>1. L \in Nat /\ 1 <= L
    BY DEF Shifted
  <2>2. 1 \in Positions(jobs)
    BY <2>1 DEF Positions
  <2>3. L \in 1..Len(jobs') /\ jobs'[L] = x
    <3>1. Len(<<x>>) = 1 /\ <<x>>[1] = x /\ 1 \in 1..Len(<<x>>)
      OBVIOUS
    <3>2. L - 1 + 1 \in 1..Len(jobs') /\ jobs'[L - 1 + 1] = x
      BY <3>1 DEF Shifted
    <3> QED BY <2>1, <3>2
  <2>4. L \in Positions(jobs')
    BY <2>3 DEF Positions
  <2>5. ASSUME NEW m \in Positions(jobs) \ {1}
        PROVE  m - 1 \in Positions(jobs') /\ jobs'[m - 1] = jobs[m]
    <3>1. m \in (1 + 1)..Len(jobs)
      BY <2>1 DEF Positions
    <3> QED BY <3>1 DEF Shifted, Positions
  <2>6. ASSUME NEW i \in Positions(jobs') \ {L}
        PROVE  i + 1 \in Positions(jobs) \ {1} /\ jobs'[i] = jobs[i + 1]
    <3>1. ~ \E k \in 1..Len(<<x>>) : i = L - 1 + k
      BY <2>1
    <3>2. i \in 1..Len(jobs') /\ i + 1 \in (1 + 1)..L /\ jobs'[i] = jobs[i + 1]
      BY <3>1 DEF Shifted, Positions
    <3>3. i + 1 \in 1..L /\ i + 1 # 1
      BY <2>1, <3>2
    <3> QED BY <3>2, <3>3 DEF Positions
  <2> QED BY <2>1, <2>2, <2>3, <2>4, <2>5, <2>6
<1>2. /\ \A m \in Positions(jobs) : m \in Int /\ m >= 1 /\ m <= L
      /\ \A i \in Positions(jobs') : i \in Int
  BY <1>1 DEF Positions
<1> HIDE DEF L
<1>3. KeyInv'
  <2> SUFFICES ASSUME NEW i \in Positions(jobs'), jobs'[i].at = "item"
               PROVE  HasKey(jobs'[i].value)
    BY DEF KeyInv, HasKey
  <2>1. CASE i = L
    BY <1>1, <2>1 DEF HasKey
  <2>2. CASE i # L
    <3>1. i \in Positions(jobs') \ {L}
      BY <2>2
    <3>2. i + 1 \in Positions(jobs) /\ jobs'[i] = jobs[i + 1]
      BY <1>1, <3>1
    <3> QED BY <3>2 DEF HInv, KeyInv, HasKey
  <2> QED BY <2>1, <2>2
<1>4. OneHandlerInv'
  <2> SUFFICES ASSUME NEW m \in Positions(jobs'), NEW n \in Positions(jobs'),
                      jobs'[m].run = jobs'[n].run, jobs'[m].by = jobs'[n].by
               PROVE  m = n
    BY DEF OneHandlerInv
  <2> DEFINE was(i) == IF i = L THEN 1 ELSE i + 1
  <2>1. /\ was(m) \in Positions(jobs) /\ was(n) \in Positions(jobs)
        /\ jobs[was(m)].run = jobs'[m].run /\ jobs[was(m)].by = jobs'[m].by
        /\ jobs[was(n)].run = jobs'[n].run /\ jobs[was(n)].by = jobs'[n].by
    BY <1>1
  <2>2. was(m) = was(n)
    <3> HIDE DEF was
    <3> QED BY <2>1 DEF HInv, OneHandlerInv
  <2>3. m # L => m + 1 # 1
    BY <1>1
  <2>4. n # L => n + 1 # 1
    BY <1>1
  <2> QED BY <1>2, <2>2, <2>3, <2>4
\* Whatever ended before the handler at n still does, wherever the two are.
<1>5. ASSUME NEW m \in Positions(jobs), NEW n \in Positions(jobs), EndsBefore(jobs, m, n)
      PROVE  EndsBefore(jobs', IF m = 1 THEN L ELSE m - 1, IF n = 1 THEN L ELSE n - 1)
  <2>1. m # n
    BY <1>2, <1>5 DEF EndsBefore
  <2>2. CASE m = 1
    <3>1. n # 1 /\ jobs[n].at = "contains"
      BY <1>5, <2>1, <2>2 DEF EndsBefore
    <3> QED BY <1>1, <2>2, <3>1 DEF EndsBefore
  <2>3. CASE n = 1
    <3>1. m # 1 /\ jobs[m].at = "item"
      <4>1. m \in Int /\ m >= 1 /\ ~(m < 1)
        BY <1>2
      <4> QED BY <1>5, <2>1, <2>3, <4>1 DEF EndsBefore
    <3>2. m - 1 < L /\ jobs'[m - 1].at = "item"
      <4>1. m \in Positions(jobs) \ {1} /\ m - 1 < L
        <5>1. m \in Int /\ L \in Int /\ m <= L
          BY <1>1, <1>2
        <5> QED BY <3>1, <5>1
      <4>2. jobs'[m - 1] = jobs[m]
        BY <1>1, <4>1
      <4> QED BY <3>1, <4>1, <4>2
    <3> QED BY <1>1, <2>3, <3>1, <3>2 DEF EndsBefore
  <2>4. CASE m # 1 /\ n # 1
    <3>1. jobs'[m - 1] = jobs[m] /\ jobs'[n - 1] = jobs[n]
      BY <1>1, <2>4
    <3>2. m < n => m - 1 < n - 1
      BY <1>2
    <3> QED BY <1>5, <2>4, <3>1, <3>2 DEF EndsBefore
  <2> QED BY <2>2, <2>3, <2>4
<1>6. CoverInv'
  <2> SUFFICES ASSUME NEW i \in Positions(jobs')
               PROVE  \E w \in awaited, n \in Positions(jobs') : WaitsFor(jobs', w, i, n)
    BY DEF CoverInv
  <2>1. PICK m \in Positions(jobs) :
          /\ i = IF m = 1 THEN L ELSE m - 1
          /\ jobs'[i].run = jobs[m].run /\ jobs'[i].value = jobs[m].value
    <3>1. CASE i = L
      BY <1>1, <3>1
    <3>2. CASE i # L
      <4>1. i + 1 \in Positions(jobs) /\ i + 1 # 1 /\ jobs'[i] = jobs[i + 1] /\ i = (i + 1) - 1
        <5>1. i \in Positions(jobs') \ {L} /\ i = (i + 1) - 1
          BY <1>2, <3>2
        <5> QED BY <1>1, <5>1
      <4> QED BY <4>1
    <3> QED BY <3>1, <3>2
  <2>2. PICK w \in awaited, n \in Positions(jobs) : WaitsFor(jobs, w, m, n)
    BY DEF HInv, CoverInv
  <2> DEFINE now == IF n = 1 THEN L ELSE n - 1
  <2>3. /\ now \in Positions(jobs') /\ jobs'[now].run = jobs[n].run
        /\ jobs'[now].value = jobs[n].value /\ jobs'[now].by = jobs[n].by
    BY <1>1
  <2>4. i = now \/ EndsBefore(jobs', i, now)
    BY <1>5, <2>1, <2>2 DEF WaitsFor
  <2> HIDE DEF now
  <2>5. WaitsFor(jobs', w, i, now)
    BY <2>1, <2>2, <2>3, <2>4 DEF WaitsFor
  <2> QED BY <2>3, <2>5
<1>7. TokenInv'
  <2> SUFFICES ASSUME selected # None, storage[selected] = "token"
               PROVE  \/ header = selected /\ \A i \in Positions(jobs') : jobs'[i].value = selected
                      \/ \E n \in Positions(jobs') : EndsLast(jobs', n)
    BY DEF TokenInv, EndsLast
  <2>1. CASE header = selected /\ \A m \in Positions(jobs) : jobs[m].value = selected
    BY <1>1, <2>1
  <2>2. ASSUME NEW n \in Positions(jobs), EndsLast(jobs, n)
        PROVE  \E k \in Positions(jobs') : EndsLast(jobs', k)
    <3> DEFINE now == IF n = 1 THEN L ELSE n - 1
    <3>1. now \in Positions(jobs') /\ jobs'[now].value = selected
      BY <1>1, <2>2 DEF EndsLast
    <3>2. ASSUME NEW i \in Positions(jobs'), jobs'[i].value # selected
          PROVE  EndsBefore(jobs', i, now)
      <4>1. CASE i = L
        <5>1. jobs[1].value # selected
          BY <1>1, <3>2, <4>1
        <5>2. EndsBefore(jobs, 1, n)
          BY <1>1, <2>2, <5>1 DEF EndsLast
        <5> QED BY <1>1, <1>5, <4>1, <5>2
      <4>2. CASE i # L
        <5>1. i + 1 \in Positions(jobs) /\ i + 1 # 1 /\ jobs'[i] = jobs[i + 1] /\ i = (i + 1) - 1
          BY <1>1, <1>2, <4>2
        <5>2. EndsBefore(jobs, i + 1, n)
          BY <2>2, <3>2, <5>1 DEF EndsLast
        <5> QED BY <1>5, <5>1, <5>2
      <4> QED BY <4>1, <4>2
    <3> HIDE DEF now
    <3> QED BY <3>1, <3>2 DEF EndsLast
  <2> QED BY <2>1, <2>2 DEF HInv, TokenInv
<1> QED BY <1>3, <1>4, <1>6, <1>7 DEF HInv

\* The handler at the head of the queue ends.
LEMMA EndKeeps ==
  ASSUME HInv, NEW more, Shifted(1, more), jobs[1].at \in {"contains", "item"},
         jobs[1].at = "contains" => ~HasKey(jobs[1].value),
         \A k \in 1..Len(more) : more[k].at \notin {"contains", "item"},
         awaited' = awaited \ {w \in awaited : w.run = jobs[1].run /\ w.last = jobs[1].by},
         header' = IF jobs[1].at = "item" THEN HeaderWith(jobs[1].value) ELSE header,
         UNCHANGED <<storage, selected>>
  PROVE  HInv'
<1>1. /\ 1 \in Positions(jobs)
      /\ \A m \in Positions(jobs) \ {1} : m - 1 \in Positions(jobs') /\ jobs'[m - 1] = jobs[m]
      /\ \A i \in Positions(jobs') :
           i + 1 \in Positions(jobs) \ {1} /\ jobs'[i] = jobs[i + 1]
  <2>1. Len(jobs) \in Nat /\ 1 <= Len(jobs)
    BY DEF Shifted
  <2>2. 1 \in Positions(jobs)
    BY <2>1 DEF Positions
  <2>3. ASSUME NEW m \in Positions(jobs) \ {1}
        PROVE  m - 1 \in Positions(jobs') /\ jobs'[m - 1] = jobs[m]
    <3>1. m \in (1 + 1)..Len(jobs)
      BY <2>1 DEF Positions
    <3> QED BY <3>1 DEF Shifted, Positions
  <2>4. ASSUME NEW i \in Positions(jobs')
        PROVE  i + 1 \in Positions(jobs) \ {1} /\ jobs'[i] = jobs[i + 1]
    <3>1. i \in 1..Len(jobs') /\ i + 1 \in (1 + 1)..Len(jobs) /\ jobs'[i] = jobs[i + 1]
      BY DEF Shifted, Positions
    <3>2. i + 1 \in 1..Len(jobs) /\ i + 1 # 1
      BY <2>1, <3>1
    <3> QED BY <3>1, <3>2 DEF Positions
  <2> QED BY <2>2, <2>3, <2>4
<1>2. /\ \A m \in Positions(jobs) : m \in Int /\ ~(m < 1)
      /\ \A i \in Positions(jobs') : i \in Int
  BY DEF Shifted, Positions
<1>3. ASSUME NEW m \in Positions(jobs), EndsBefore(jobs, m, 1)
      PROVE  jobs[1].at = "contains" /\ jobs[m].at = "item"
  BY <1>2, <1>3 DEF EndsBefore
<1>4. ASSUME NEW m \in Positions(jobs) \ {1}, NEW n \in Positions(jobs) \ {1},
             EndsBefore(jobs, m, n)
      PROVE  EndsBefore(jobs', m - 1, n - 1)
  <2>1. jobs'[m - 1] = jobs[m] /\ jobs'[n - 1] = jobs[n]
    BY <1>1
  <2>2. m \in Int /\ n \in Int
    BY <1>2
  <2> QED BY <1>4, <2>1, <2>2 DEF EndsBefore
<1>5. KeyInv'
  BY <1>1 DEF HInv, KeyInv, HasKey
<1>6. OneHandlerInv'
  <2> SUFFICES ASSUME NEW m \in Positions(jobs'), NEW n \in Positions(jobs'),
                      jobs'[m].run = jobs'[n].run, jobs'[m].by = jobs'[n].by
               PROVE  m = n
    BY DEF OneHandlerInv
  <2>1. m + 1 = n + 1
    BY <1>1 DEF HInv, OneHandlerInv
  <2> QED BY <1>2, <2>1
<1>7. CoverInv'
  <2> SUFFICES ASSUME NEW i \in Positions(jobs')
               PROVE  \E w \in awaited', n \in Positions(jobs') : WaitsFor(jobs', w, i, n)
    BY DEF CoverInv
  <2>1. i + 1 \in Positions(jobs) \ {1} /\ jobs'[i] = jobs[i + 1] /\ i = (i + 1) - 1
    BY <1>1, <1>2
  <2>2. PICK w \in awaited, n \in Positions(jobs) : WaitsFor(jobs, w, i + 1, n)
    BY <2>1 DEF HInv, CoverInv
  <2>3. n # 1
    <3> SUFFICES ASSUME n = 1 PROVE FALSE
      OBVIOUS
    <3>1. EndsBefore(jobs, i + 1, 1) /\ jobs[1].value = jobs[i + 1].value
      BY <2>1, <2>2 DEF WaitsFor
    <3>2. jobs[1].at = "contains" /\ jobs[i + 1].at = "item"
      BY <1>3, <2>1, <3>1
    <3>3. HasKey(jobs[i + 1].value)
      BY <2>1, <3>2 DEF HInv, KeyInv
    <3> QED BY <3>1, <3>2, <3>3
  <2>4. w \in awaited'
    <3> SUFFICES ASSUME w.run = jobs[1].run, w.last = jobs[1].by PROVE FALSE
      OBVIOUS
    <3>1. jobs[n].run = jobs[1].run /\ jobs[n].by = jobs[1].by
      BY <2>2 DEF WaitsFor
    <3> QED BY <1>1, <2>3, <3>1 DEF HInv, OneHandlerInv
  <2>5. n - 1 \in Positions(jobs') /\ jobs'[n - 1] = jobs[n]
    BY <1>1, <2>3
  <2>6. i = n - 1 \/ EndsBefore(jobs', i, n - 1)
    <3>1. CASE i + 1 = n
      BY <2>1, <3>1
    <3>2. CASE EndsBefore(jobs, i + 1, n)
      <4>1. EndsBefore(jobs', (i + 1) - 1, n - 1)
        BY <1>4, <2>1, <2>3, <3>2
      <4> QED BY <2>1, <4>1
    <3> QED BY <2>2, <3>1, <3>2 DEF WaitsFor
  <2>7. WaitsFor(jobs', w, i, n - 1)
    BY <2>1, <2>2, <2>5, <2>6 DEF WaitsFor
  <2> QED BY <2>4, <2>5, <2>7
<1>8. TokenInv'
  <2> SUFFICES ASSUME selected # None, storage[selected] = "token"
               PROVE  \/ header' = selected /\ \A i \in Positions(jobs') : jobs'[i].value = selected
                      \/ \E n \in Positions(jobs') : EndsLast(jobs', n)
    BY DEF TokenInv, EndsLast
  <2>1. HasKey(selected) /\ HeaderWith(selected) = selected
    BY DEF HasKey, HeaderWith
  <2>2. CASE header = selected /\ \A m \in Positions(jobs) : jobs[m].value = selected
    BY <1>1, <2>1, <2>2
  <2>3. ASSUME EndsLast(jobs, 1)
        PROVE  header' = selected /\ \A i \in Positions(jobs') : jobs'[i].value = selected
    <3>1. jobs[1].value = selected /\ jobs[1].at = "item"
      BY <2>1, <2>3 DEF EndsLast
    <3>2. ASSUME NEW i \in Positions(jobs'), jobs'[i].value # selected
          PROVE  FALSE
      <4>1. i + 1 \in Positions(jobs) /\ jobs[i + 1].value # selected
        BY <1>1, <3>2
      <4>2. EndsBefore(jobs, i + 1, 1)
        BY <2>3, <4>1 DEF EndsLast
      <4> QED BY <1>3, <3>1, <4>1, <4>2
    <3> QED BY <2>1, <3>1, <3>2
  <2>4. ASSUME NEW n \in Positions(jobs) \ {1}, EndsLast(jobs, n)
        PROVE  n - 1 \in Positions(jobs') /\ EndsLast(jobs', n - 1)
    <3>1. n - 1 \in Positions(jobs') /\ jobs'[n - 1] = jobs[n]
      BY <1>1
    <3>2. ASSUME NEW i \in Positions(jobs'), jobs'[i].value # selected
          PROVE  EndsBefore(jobs', i, n - 1)
      <4>1. i + 1 \in Positions(jobs) \ {1} /\ jobs'[i] = jobs[i + 1] /\ i = (i + 1) - 1
        BY <1>1, <1>2
      <4>2. EndsBefore(jobs, i + 1, n)
        BY <2>4, <3>2, <4>1 DEF EndsLast
      <4>3. EndsBefore(jobs', (i + 1) - 1, n - 1)
        BY <1>4, <4>1, <4>2
      <4> QED BY <4>1, <4>3
    <3> QED BY <2>4, <3>1, <3>2 DEF EndsLast
  <2> QED BY <2>2, <2>3, <2>4 DEF HInv, TokenInv
<1> QED BY <1>5, <1>6, <1>7, <1>8 DEF HInv

\* The handlers of an invocation under a number of its own join the queue.
LEMMA CallsKeep ==
  ASSUME HInv, NEW d, NEW calls, Shifted(d, calls),
         d = 1 => jobs[1].at \notin {"contains", "item"},
         NEW a, NEW run, NEW w, Len(calls) >= 1,
         \A k \in 1..Len(calls) :
           calls[k].at = "contains" /\ calls[k].value = a /\ calls[k].run = run,
         \A k, l \in 1..Len(calls) : calls[k].by = calls[l].by => k = l,
         w.run = run, w.last = calls[Len(calls)].by, w \in awaited', awaited \subseteq awaited',
         \A m \in Positions(jobs) : jobs[m].run # run,
         selected' = a, UNCHANGED storage
  PROVE  HInv'
<1> DEFINE B == Len(jobs) - d
           Old == {i \in Positions(jobs') : i <= B}
<1>1. /\ B \in Nat /\ Len(calls) \in Nat /\ d \in Int
      /\ \A m \in Positions(jobs) : m - d \in Old /\ jobs'[m - d] = jobs[m]
      /\ \A k \in 1..Len(calls) : B + k \in Positions(jobs') /\ jobs'[B + k] = calls[k]
      /\ \A i \in Positions(jobs') :
           \/ i \in Old /\ i + d \in Positions(jobs) /\ jobs'[i] = jobs[i + d]
           \/ \E k \in 1..Len(calls) : i = B + k /\ jobs'[i] = calls[k]
  <2>1. B \in Nat /\ Len(calls) \in Nat /\ d \in Int
    BY DEF Shifted
  <2>2. ASSUME NEW m \in Positions(jobs)
        PROVE  m - d \in Old /\ jobs'[m - d] = jobs[m]
    <3>1. m \in (1 + d)..Len(jobs) /\ m - d <= B
      BY DEF Shifted, Positions
    <3>2. m - d \in 1..Len(jobs') /\ jobs'[m - d] = jobs[m]
      BY <3>1 DEF Shifted
    <3> QED BY <3>1, <3>2 DEF Positions
  <2>3. ASSUME NEW k \in 1..Len(calls)
        PROVE  B + k \in Positions(jobs') /\ jobs'[B + k] = calls[k]
    <3>1. B + k \in 1..Len(jobs') /\ jobs'[B + k] = calls[k]
      BY DEF Shifted
    <3> QED BY <3>1 DEF Positions
  <2>4. ASSUME NEW i \in Positions(jobs')
        PROVE  \/ i \in Old /\ i + d \in Positions(jobs) /\ jobs'[i] = jobs[i + d]
               \/ \E k \in 1..Len(calls) : i = B + k /\ jobs'[i] = calls[k]
    <3>1. i \in 1..Len(jobs')
      BY DEF Positions
    <3>2. CASE i + d \in (1 + d)..Len(jobs) /\ jobs'[i] = jobs[i + d]
      <4>1. i + d \in 1..Len(jobs) /\ i <= B
        BY <3>1, <3>2 DEF Shifted
      <4> QED BY <3>2, <4>1 DEF Positions
    <3> QED BY <3>1, <3>2 DEF Shifted
  <2> QED BY <2>1, <2>2, <2>3, <2>4
<1>2. /\ \A m \in Positions(jobs) : m \in Int
      /\ \A i \in Positions(jobs') : i \in Int
  BY DEF Shifted, Positions
<1>3. ASSUME NEW i \in Old
      PROVE  i + d \in Positions(jobs) /\ jobs'[i] = jobs[i + d]
  <2>1. ~ \E k \in 1..Len(calls) : i = B + k
    BY <1>1, <1>2
  <2> QED BY <1>1, <2>1
<1>4. ASSUME NEW i \in Positions(jobs'), i \notin Old
      PROVE  \E k \in 1..Len(calls) : i = B + k /\ jobs'[i] = calls[k]
  BY <1>1, <1>4
<1>5. ASSUME NEW i \in Old, NEW k \in 1..Len(calls)
      PROVE  EndsBefore(jobs', i, B + k)
  <2>1. i <= B /\ i < B + k
    BY <1>1, <1>2
  <2>2. jobs'[i].at \in {"contains", "item"} /\ jobs'[B + k].at = "contains"
    BY <1>1 DEF Positions
  <2> QED BY <2>1, <2>2 DEF EndsBefore
<1>6. \A i \in Old : i \in Positions(jobs')
  OBVIOUS
<1> HIDE DEF B, Old
<1>7. KeyInv'
  <2> SUFFICES ASSUME NEW i \in Positions(jobs'), jobs'[i].at = "item"
               PROVE  HasKey(jobs'[i].value)
    BY DEF KeyInv, HasKey
  <2>1. CASE i \in Old
    BY <1>3, <2>1 DEF HInv, KeyInv, HasKey
  <2>2. CASE i \notin Old
    BY <1>4, <2>2
  <2> QED BY <2>1, <2>2
<1>8. OneHandlerInv'
  <2> SUFFICES ASSUME NEW m \in Positions(jobs'), NEW n \in Positions(jobs'),
                      jobs'[m].run = jobs'[n].run, jobs'[m].by = jobs'[n].by
               PROVE  m = n
    BY DEF OneHandlerInv
  <2>1. CASE m \in Old /\ n \in Old
    <3>1. m + d = n + d
      BY <1>3, <2>1 DEF HInv, OneHandlerInv
    <3> QED BY <1>1, <1>2, <3>1
  <2>2. CASE m \notin Old /\ n \notin Old
    <3>1. PICK k \in 1..Len(calls) : m = B + k /\ jobs'[m] = calls[k]
      BY <1>4, <2>2
    <3>2. PICK l \in 1..Len(calls) : n = B + l /\ jobs'[n] = calls[l]
      BY <1>4, <2>2
    <3> QED BY <3>1, <3>2
  <2>3. ASSUME NEW i \in Old, NEW j \in Positions(jobs'), j \notin Old
        PROVE  jobs'[i].run # jobs'[j].run
    <3>1. jobs'[j].run = run
      BY <1>4, <2>3
    <3> QED BY <1>3, <3>1
  <2> QED BY <2>1, <2>2, <2>3
<1>9. CoverInv'
  <2> SUFFICES ASSUME NEW i \in Positions(jobs')
               PROVE  \E v \in awaited', n \in Positions(jobs') : WaitsFor(jobs', v, i, n)
    BY DEF CoverInv
  <2>1. CASE i \in Old
    <3>1. i + d \in Positions(jobs) /\ jobs'[i] = jobs[i + d]
      BY <1>3, <2>1
    <3>2. PICK v \in awaited, n \in Positions(jobs) : WaitsFor(jobs, v, i + d, n)
      BY <3>1 DEF HInv, CoverInv
    <3>3. n - d \in Positions(jobs') /\ jobs'[n - d] = jobs[n]
      BY <1>1, <1>6
    <3>4. i = n - d \/ EndsBefore(jobs', i, n - d)
      <4>1. i \in Int /\ n \in Int /\ d \in Int
        BY <1>1, <1>2
      <4> QED BY <3>1, <3>2, <3>3, <4>1 DEF WaitsFor, EndsBefore
    <3>5. WaitsFor(jobs', v, i, n - d)
      BY <3>1, <3>2, <3>3, <3>4 DEF WaitsFor
    <3> QED BY <3>3, <3>5
  <2>2. CASE i \notin Old
    <3> DEFINE n == B + Len(calls)
    <3>1. PICK k \in 1..Len(calls) : i = B + k /\ jobs'[i] = calls[k]
      BY <1>4, <2>2
    <3>2. Len(calls) \in 1..Len(calls)
      BY <1>1
    <3>3. n \in Positions(jobs') /\ jobs'[n] = calls[Len(calls)]
      BY <1>1, <3>2
    <3>4. i = n \/ i < n
      <4>1. B \in Nat /\ Len(calls) \in Nat /\ k \in 1..Len(calls) /\ i = B + k
        BY <1>1, <3>1
      <4> QED BY <4>1
    <3> HIDE DEF n
    <3>5. i = n \/ EndsBefore(jobs', i, n)
      BY <3>1, <3>2, <3>3, <3>4 DEF EndsBefore
    <3>6. WaitsFor(jobs', w, i, n)
      BY <3>1, <3>2, <3>3, <3>5 DEF WaitsFor
    <3> QED BY <3>3, <3>6
  <2> QED BY <2>1, <2>2
<1>10. TokenInv'
  <2> DEFINE n == B + 1
  <2>1. n \in Positions(jobs') /\ jobs'[n] = calls[1] /\ 1 \in 1..Len(calls)
    BY <1>1
  <2>2. ASSUME NEW i \in Positions(jobs'), jobs'[i].value # a
        PROVE  EndsBefore(jobs', i, n)
    <3>1. i \in Old
      BY <1>4, <2>2
    <3> QED BY <1>5, <2>1, <3>1
  <2> HIDE DEF n
  <2>3. jobs'[n].value = selected'
    BY <2>1
  <2> QED BY <2>1, <2>2, <2>3 DEF TokenInv, EndsLast
<1> QED BY <1>7, <1>8, <1>9, <1>10 DEF HInv

-----------------------------------------------------------------------------
(* The steps of the session *)

\* What a step that ends no handler leaves of the queue.
Rest(js) ==
  \/ js = jobs
  \/ jobs # <<>> /\ js = Tail(jobs) /\ Head(jobs).at \notin {"contains", "item"}

LEMMA RestFacts ==
  ASSUME TypeOK, NEW js, Rest(js)
  PROVE  js \in Seq(Job) /\ Len(js) <= Len(jobs) /\ HandlersOf(js) = HandlersOf(jobs)
<1>1. jobs \in Seq(Job) /\ Len(jobs) \in Nat
  BY Queue, LenProperties
<1>2. CASE js = jobs
  BY <1>1, <1>2
<1>3. CASE jobs # <<>> /\ js = Tail(jobs) /\ Head(jobs).at \notin {"contains", "item"}
  <2>1. /\ js \in Seq(Job) /\ Len(js) = Len(jobs) - 1
        /\ JobsOf(jobs) = JobsOf(js) \cup {Head(jobs)}
    BY <1>3, Queue
  <2>2. HandlersOf(js) = HandlersOf(jobs)
    BY <1>1, <1>3, <2>1, HandlersAreJobs
  <2> QED BY <1>1, <2>1, <2>2
<1> QED BY <1>2, <1>3 DEF Rest

LEMMA RestShifted ==
  ASSUME TypeOK, NEW js, Rest(js), NEW more, Adds(js, more)
  PROVE  \E d : Shifted(d, more) /\ (d = 1 => jobs[1].at \notin {"contains", "item"})
<1>1. jobs \in Seq(Job) /\ more \in Seq(Job) /\ jobs' = js \o more
  BY Queue DEF Adds
<1>2. CASE js = jobs
  BY <1>1, <1>2, ShiftedConcat
<1>3. CASE jobs # <<>> /\ js = Tail(jobs) /\ Head(jobs).at \notin {"contains", "item"}
  <2>1. Head(jobs) = jobs[1]
    BY <1>1, <1>3, HeadTailProperties
  <2> QED BY <1>1, <1>3, <2>1, ShiftedTail
<1> QED BY <1>2, <1>3 DEF Rest

LEMMA OthersAdd ==
  ASSUME TypeOK, HInv, NEW js, Rest(js), NEW more, Adds(js, more),
         \A x \in JobsOf(more) : x.at \notin {"contains", "item"},
         UNCHANGED <<storage, selected, header, awaited>>
  PROVE  HInv'
<1>1. PICK d : Shifted(d, more) /\ (d = 1 => jobs[1].at \notin {"contains", "item"})
  BY RestShifted
<1>2. \A k \in 1..Len(more) : more[k].at \notin {"contains", "item"}
  BY DEF JobsOf
<1> QED BY <1>1, <1>2, OthersKeep

LEMMA UnchangedKeeps ==
  ASSUME TypeOK, HInv, NEW js, Rest(js), jobs' = js,
         UNCHANGED <<storage, selected, header, awaited>>
  PROVE  HInv'
<1>1. PICK more : Adds(js, more) /\ JobsOf(more) = {}
  BY RestFacts, AddsNone
<1> QED BY <1>1, OthersAdd

LEMMA InvokeKeeps ==
  ASSUME IInv, HInv, NEW js, Rest(js),
         NEW a \in Accounts \cup {None}, NEW then \in {"network", "end"}, NEW late,
         Invoke(js, a, then, late), selected' = a, UNCHANGED storage
  PROVE  HInv'
<1> DEFINE run == FreshRun(js)
           calls == [n \in 1..Len(Subscribers) |->
               [at |-> "contains", value |-> a, run |-> run, by |-> Subscribers[n]]]
           w == [run |-> run, last |-> LastOf(Subscribers), then |-> then]
<1>1. jobs' = js \o calls /\ awaited' = awaited \cup {w}
  BY DEF Invoke
<1>2. /\ js \in Seq(Job) /\ Len(js) <= Len(jobs) /\ HandlersOf(js) = HandlersOf(jobs)
      /\ Len(jobs) \in Nat
  BY RestFacts, Queue, LenProperties DEF IInv
<1>3. run \in Nat /\ \A h \in HandlersOf(jobs) : h.run # run
  BY <1>2, FreshRunIsFree DEF IInv, CountInv
<1> HIDE DEF run
<1>4. /\ Len(Subscribers) \in {1, 2}
      /\ \A k, l \in 1..Len(Subscribers) : Subscribers[k] = Subscribers[l] => k = l
  <2>1. CASE indexOpen
    <3>1. Subscribers = <<"Metamask", "Index">>
      BY <2>1 DEF Subscribers
    <3> QED BY <3>1
  <2>2. CASE ~indexOpen
    BY <2>2 DEF Subscribers
  <2> QED BY <2>1, <2>2
<1>5. calls \in Seq(Job)
  BY <1>3, Calls
<1>6. Len(calls) = Len(Subscribers)
  BY <1>4
<1>7. \A k \in 1..Len(calls) :
        /\ calls[k].at = "contains" /\ calls[k].value = a /\ calls[k].run = run
        /\ calls[k].by = Subscribers[k]
  BY <1>6
<1> HIDE DEF calls
<1>8. w.run = run /\ w.last = calls[Len(calls)].by
  <2>1. Len(calls) \in 1..Len(calls)
    BY <1>4, <1>6
  <2> QED BY <1>6, <1>7, <2>1 DEF LastOf
<1>9. PICK d : Shifted(d, calls) /\ (d = 1 => jobs[1].at \notin {"contains", "item"})
  BY <1>1, <1>5, RestShifted DEF IInv, Adds
<1>10. \A m \in Positions(jobs) : jobs[m].run # run
  BY <1>3 DEF Positions, HandlersOf
<1> HIDE DEF w
<1>11. /\ Len(calls) >= 1 /\ w \in awaited' /\ awaited \subseteq awaited'
       /\ \A k, l \in 1..Len(calls) : calls[k].by = calls[l].by => k = l
  BY <1>1, <1>4, <1>6, <1>7
<1> QED BY <1>7, <1>8, <1>9, <1>10, <1>11, CallsKeep

LEMMA ChangeKeeps ==
  ASSUME IInv, HInv, NEW js, Rest(js),
         NEW a \in Accounts \cup {None}, NEW then \in {"network", "end"}, NEW late,
         ChangeSelectedAccount(js, a, then, late), UNCHANGED storage
  PROVE  HInv'
<1>1. CASE selected # a
  <2>1. selected' = a /\ Invoke(js, a, then, late)
    BY <1>1 DEF ChangeSelectedAccount
  <2> QED BY <2>1, InvokeKeeps
<1>2. CASE selected = a
  <2>1. jobs' = Continue(then, js) /\ UNCHANGED <<selected, header, awaited>>
    BY <1>2 DEF ChangeSelectedAccount
  <2>2. /\ AskNetwork \in Job /\ js \in Seq(Job) /\ AskNetwork.at = "network"
        /\ jobs' = IF then = "network" THEN Append(js, AskNetwork) ELSE js
    BY <2>1, ContinueFacts, RestFacts DEF IInv, AskNetwork
  <2>3. CASE then = "network"
    <3>1. PICK more : Adds(js, more) /\ JobsOf(more) = {AskNetwork}
      BY <2>2, <2>3, AddsOne
    <3> QED BY <2>1, <2>2, <3>1, OthersAdd DEF IInv
  <2>4. CASE then = "end"
    BY <2>1, <2>2, <2>4, UnchangedKeeps DEF IInv
  <2> QED BY <2>3, <2>4
<1> QED BY <1>1, <1>2

LEMMA EndHandlerKeeps ==
  ASSUME IInv, HInv, jobs # <<>>, Head(jobs).at \in {"contains", "item"},
         Head(jobs).at = "contains" => ~HasKey(Head(jobs).value),
         EndHandler(Head(jobs)),
         header' = IF Head(jobs).at = "item" THEN HeaderWith(Head(jobs).value) ELSE header,
         UNCHANGED <<storage, selected>>
  PROVE  HInv'
<1>1. jobs \in Seq(Job) /\ Head(jobs) = jobs[1]
  BY Queue, HeadTailProperties DEF IInv
<1>2. awaited' = awaited \ {w \in awaited : w.run = jobs[1].run /\ w.last = jobs[1].by}
  BY <1>1 DEF EndHandler
<1>3. PICK more : Adds(Tail(jobs), more) /\ \A x \in JobsOf(more) : x = AskNetwork
  BY EndAdds
<1>4. Shifted(1, more)
  BY <1>1, <1>3, ShiftedTail DEF Adds
<1>5. \A k \in 1..Len(more) : more[k].at \notin {"contains", "item"}
  <2>1. AskNetwork.at = "network"
    BY DEF AskNetwork
  <2> QED BY <1>3, <2>1 DEF JobsOf
<1> QED BY <1>1, <1>2, <1>4, <1>5, EndKeeps

LEMMA TakeContainsKeepsOrder ==
  ASSUME IInv, HInv, TakeContains
  PROVE  HInv'
<1>1. /\ jobs # <<>> /\ Head(jobs).at = "contains"
      /\ UNCHANGED <<storage, selected, header>>
      /\ \/ /\ HasKey(Head(jobs).value)
            /\ jobs' = Append(Tail(jobs), [Head(jobs) EXCEPT !.at = "item"])
            /\ UNCHANGED awaited
         \/ ~HasKey(Head(jobs).value) /\ EndHandler(Head(jobs))
  BY DEF TakeContains, Head1, wallet, provider
<1>2. /\ jobs \in Seq(Job) /\ Tail(jobs) \in Seq(Job) /\ Head(jobs) \in Handlers
      /\ Head(jobs) = jobs[1]
  BY <1>1, Queue, JobKinds, HeadTailProperties DEF IInv
<1>3. CASE ~HasKey(Head(jobs).value) /\ EndHandler(Head(jobs))
  BY <1>1, <1>3, EndHandlerKeeps
<1>4. CASE /\ HasKey(Head(jobs).value)
           /\ jobs' = Append(Tail(jobs), [Head(jobs) EXCEPT !.at = "item"])
           /\ UNCHANGED awaited
  <2> DEFINE x == [Head(jobs) EXCEPT !.at = "item"]
  <2>1. /\ x \in Job /\ x.at = "item" /\ x.value = jobs[1].value
        /\ x.run = jobs[1].run /\ x.by = jobs[1].by
    BY <1>2 DEF Handlers, Job
  <2> HIDE DEF x
  <2>2. <<x>> \in Seq(Job) /\ Append(Tail(jobs), x) = Tail(jobs) \o <<x>>
    BY <1>2, <2>1, AppendIsConcat
  <2>3. jobs' = Tail(jobs) \o <<x>>
    BY <1>4, <2>2 DEF x
  <2>4. Shifted(1, <<x>>)
    BY <1>1, <1>2, <2>2, <2>3, ShiftedTail
  <2> QED BY <1>1, <1>2, <1>4, <2>1, <2>4, GoOnKeeps
<1> QED BY <1>1, <1>3, <1>4

LEMMA TakeItemKeepsOrder ==
  ASSUME IInv, HInv, TakeItem
  PROVE  HInv'
<1>1. /\ jobs # <<>> /\ Head(jobs).at = "item" /\ EndHandler(Head(jobs))
      /\ header' = HeaderWith(Head(jobs).value) /\ UNCHANGED <<storage, selected>>
  BY DEF TakeItem, Head1, wallet, provider
<1> QED BY <1>1, EndHandlerKeeps

LEMMA AnswersKeepOrder ==
  ASSUME IInv, HInv, TakeAvailable \/ TakeAddress \/ TakeNetwork \/ TakeEnabled
  PROVE  HInv'
<1>1. TypeOK
  BY DEF IInv
<1>2. ASSUME TakeAvailable PROVE HInv'
  <2> DEFINE x == [at |-> "address", value |-> account]
  <2>1. /\ Rest(Tail(jobs)) /\ UNCHANGED <<storage, selected, header, awaited>>
        /\ jobs' = Append(Tail(jobs), x) \/ jobs' = Tail(jobs)
    BY <1>2 DEF TakeAvailable, Head1, wallet, Rest
  <2>2. x \in Job /\ x.at = "address"
    BY <1>1 DEF TypeOK, Job, Answers
  <2> HIDE DEF x
  <2>3. CASE jobs' = Append(Tail(jobs), x)
    <3>1. PICK more : Adds(Tail(jobs), more) /\ JobsOf(more) = {x}
      BY <1>1, <2>1, <2>2, <2>3, RestFacts, AddsOne
    <3> QED BY <1>1, <2>1, <2>2, <3>1, OthersAdd
  <2>4. CASE jobs' = Tail(jobs)
    BY <1>1, <2>1, <2>4, UnchangedKeeps
  <2> QED BY <2>1, <2>3, <2>4
<1>3. ASSUME TakeAddress PROVE HInv'
  <2>1. /\ Rest(Tail(jobs)) /\ jobs # <<>> /\ Head(jobs).at = "address" /\ UNCHANGED storage
        /\ ChangeSelectedAccount(Tail(jobs), Head(jobs).value, "network", {})
    BY <1>3 DEF TakeAddress, Head1, wallet, Rest
  <2>2. Head(jobs).value \in Accounts \cup {None} /\ "network" \in {"network", "end"}
    BY <1>1, <2>1, Queue, JobKinds
  <2> QED BY <2>1, <2>2, ChangeKeeps
<1>4. ASSUME TakeNetwork PROVE HInv'
  <2>1. Rest(Tail(jobs)) /\ jobs' = Tail(jobs) /\ UNCHANGED <<storage, selected, header, awaited>>
    BY <1>4 DEF TakeNetwork, Head1, wallet, Rest
  <2> QED BY <1>1, <2>1, UnchangedKeeps
<1>5. ASSUME TakeEnabled PROVE HInv'
  <2>1. /\ Rest(Tail(jobs)) /\ jobs # <<>> /\ Head(jobs).at = "enabled" /\ UNCHANGED storage
        /\ \/ /\ selected' = Head(jobs).value
              /\ Invoke(Tail(jobs), Head(jobs).value, "end", {})
           \/ jobs' = Tail(jobs) /\ UNCHANGED <<selected, header, awaited>>
    BY <1>5 DEF TakeEnabled, Head1, wallet, Rest
  <2>2. Head(jobs).value \in Accounts \cup {None} /\ "end" \in {"network", "end"}
    BY <1>1, <2>1, Queue, JobKinds
  <2>3. CASE /\ selected' = Head(jobs).value
             /\ Invoke(Tail(jobs), Head(jobs).value, "end", {})
    BY <2>1, <2>2, <2>3, InvokeKeeps
  <2>4. CASE jobs' = Tail(jobs) /\ UNCHANGED <<selected, header, awaited>>
    BY <1>1, <2>1, <2>4, UnchangedKeeps
  <2> QED BY <2>1, <2>3, <2>4
<1> QED BY <1>2, <1>3, <1>4, <1>5

LEMMA ConnectKeepsOrder ==
  ASSUME IInv, HInv, Approve \/ Reject
  PROVE  HInv'
<1>1. TypeOK /\ Rest(jobs)
  BY DEF IInv, Rest
<1>2. PICK x \in Job : x.at = "enabled" /\ jobs' = Append(jobs, x)
  <2>1. \A a \in Accounts \cup {None} : [at |-> "enabled", value |-> a] \in Job
    BY DEF Job, Answers
  <2> QED BY <1>1, <2>1 DEF Approve, Reject, TypeOK
<1>3. UNCHANGED <<storage, selected, header, awaited>>
  BY DEF Approve, Reject, wallet, provider
<1>4. PICK more : Adds(jobs, more) /\ JobsOf(more) = {x}
  BY <1>1, <1>2, RestFacts, AddsOne
<1> QED BY <1>1, <1>2, <1>3, <1>4, OthersAdd

LEMMA NextHInv == IInv /\ HInv /\ [Next]_vars => HInv'
<1> SUFFICES ASSUME IInv, HInv, [Next]_vars PROVE HInv'
  OBVIOUS
<1>1. TypeOK /\ Rest(jobs)
  BY DEF IInv, Rest
<1>2. ASSUME \/ ClickConnect \/ Navigate \/ UNCHANGED vars
             \/ \E c \in Chains : SwitchChain(c)
      PROVE  HInv'
  <2>1. UNCHANGED <<storage, selected, header, awaited, jobs>>
    BY <1>2 DEF ClickConnect, Navigate, SwitchChain, vars, wallet, provider
  <2> QED BY <1>1, <2>1, UnchangedKeeps
<1>3. ASSUME NEW a \in Accounts \cup {None}, SwitchAccount(a)
      PROVE  HInv'
  <2>1. /\ UNCHANGED storage /\ "end" \in {"network", "end"}
        /\ \/ ChangeSelectedAccount(jobs, a, "end", Late({"address", "enabled"}))
           \/ UNCHANGED <<selected, header, jobs, awaited>>
    BY <1>3 DEF SwitchAccount, Reported
  <2>2. CASE ChangeSelectedAccount(jobs, a, "end", Late({"address", "enabled"}))
    BY <1>1, <2>1, <2>2, ChangeKeeps
  <2>3. CASE UNCHANGED <<selected, header, jobs, awaited>>
    BY <1>1, <2>1, <2>3, UnchangedKeeps
  <2> QED BY <2>1, <2>2, <2>3
<1> QED BY <1>2, <1>3, AnswersKeepOrder, ConnectKeepsOrder, TakeContainsKeepsOrder,
           TakeItemKeepsOrder DEF Next, Run

LEMMA InitHInv == Init => HInv
<1> SUFFICES ASSUME Init PROVE HInv
  OBVIOUS
<1>1. PICK v \in BOOLEAN : jobs = <<[at |-> "available", value |-> v]>>
  BY DEF Init
<1>2. Len(jobs) = 1 /\ jobs[1].at = "available"
  BY <1>1
<1>3. Positions(jobs) = {}
  BY <1>2 DEF Positions
<1>4. selected = None
  BY DEF Init
<1> QED BY <1>3, <1>4 DEF HInv, KeyInv, OneHandlerInv, CoverInv, TokenInv

LEMMA HandlersInvariance == Spec => [](IInv /\ HInv)
  BY InitIInv, NextIInv, InitHInv, NextHInv, PTL DEF Spec

\* The token in use at rest is the selected account's, if it has one: however
\* often the account changes while handlers are between their awaits, those
\* of the last change end last.
THEOREM TheLastAccountsTokenSettles == Spec => []TokenSettles
<1>1. HInv => TokenSettles
  <2> SUFFICES ASSUME HInv, Quiet, selected # None, storage[selected] = "token"
               PROVE  header = selected
    BY DEF TokenSettles
  <2>1. Len(jobs) = 0
    BY EmptySeq DEF Quiet
  <2>2. Positions(jobs) = {}
    BY <2>1 DEF Positions
  <2> QED BY <2>2 DEF HInv, TokenInv
<1> QED BY <1>1, HandlersInvariance, PTL

\* Awaiting the last subscriber only is enough: no caller goes on before all
\* handlers of its invocation have ended, also when Index comes or goes.
THEOREM TheLastSubscriberEndsLast == Spec => []AwaitCoversAll
<1>1. HInv => AwaitCoversAll
  <2> SUFFICES ASSUME HInv, NEW h \in HandlersOf(jobs)
               PROVE  \E w \in awaited : w.run = h.run
    BY DEF AwaitCoversAll
  <2>1. PICK m \in Positions(jobs) : jobs[m] = h
    BY DEF HandlersOf, Positions
  <2> QED BY <2>1 DEF HInv, CoverInv, WaitsFor
<1> QED BY <1>1, HandlersInvariance, PTL
=============================================================================
