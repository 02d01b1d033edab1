------------------------- MODULE IndexingPagesProofs --------------------------
(***************************************************************************)
(* Theorems about the pages of Indexing: a collection with a token that    *)
(* cannot be shown has no page, and a page fails for no other reason than  *)
(* the named ones.                                                         *)
(***************************************************************************)
EXTENDS IndexingProofs, SequenceTheorems

LookingUp == {"metadata", "exists", "read"}

\* A request for the collection looks up tokens that have a trait.
ListInv ==
  \A q \in Requests :
    pc[q] \in {"traits"} \cup LookingUp /\ ~direct[q] => todo[q] \subseteq Listed

\* What it has seen are traits of the token at hand; none, only if the token
\* was asked for directly or the key of the lookup is not the token's.
SeenInv ==
  \A q \in Requests : pc[q] \in LookingUp =>
    /\ \A x \in seen[q] : x.token = Cur(q)
    /\ seen[q] = {} => direct[q] \/ Cur(q) \notin Reached

\* A token that could not be shown when the request began still cannot; the
\* request has it yet to show, unless it has thrown or was cancelled.
SpoiltInv ==
  \A q \in Requests :
    /\ spoilt[q] \subseteq Unshowable
    /\ pc[q] \notin {"threw", "cancelled"} => spoilt[q] \subseteq todo[q]
    /\ pc[q] \in {"exists", "read"} => Cur(q) \notin spoilt[q]

\* A request is done when nothing is left to show.
DoneInv == \A q \in Requests : pc[q] = "done" => todo[q] = {}

QInv == IsFiniteSet(stored) /\ ListInv /\ SeenInv /\ SpoiltInv /\ DoneInv

-----------------------------------------------------------------------------
(* The key of a lookup *)

\* What a beginning of a sequence holds.
LEMMA BeginningOf ==
  ASSUME NEW s \in Seq(Nat), NEW n \in 0..Len(s), NEW i \in 1..n
  PROVE  SubSeq(s, 1, n)[i] = s[i]
  OBVIOUS

\* Of the address and the text of an id, exactly one comes before the other.
LEMMA OneComesFirst ==
  ASSUME NEW t \in Tokens
  PROVE  Keys!TextBefore(Text[t], Address) <=> ~Keys!TextBefore(Address, Text[t])
<1> DEFINE a == Address
           v == Text[t]
<1>1. /\ a \in Seq(Nat) /\ Len(a) \in Nat /\ Len(a) > 1 /\ a[1] # a[2]
      /\ v \in Seq(Nat) /\ Len(v) \in Nat /\ Len(v) >= 1
      /\ DOMAIN a = 1..Len(a) /\ DOMAIN v = 1..Len(v)
      /\ \A i \in 1..Len(v) : v[i] # a[2] /\ v[i] \in Nat
      /\ \A i \in 1..Len(a) : a[i] \in Nat
  <2>1. /\ a \in Seq(Nat) /\ Len(a) > 1 /\ a[1] # a[2]
        /\ v \in Seq(Nat) /\ v # <<>>
        /\ \A i \in DOMAIN v : v[i] # a[2]
    BY AddressAssumption, Zenon
  <2> HIDE DEF a, v
  <2> QED
    BY <2>1
<1> HIDE DEF a, v
<1>2. \A s \in Seq(Nat) : SubSeq(s, 1, 0) = <<>>
  OBVIOUS
<1>3. \A s \in Seq(Nat) : Len(s) >= 1 => SubSeq(s, 1, 1) = <<s[1]>>
  <2> SUFFICES ASSUME NEW s \in Seq(Nat), Len(s) >= 1
               PROVE  SubSeq(s, 1, 1) = <<s[1]>>
    OBVIOUS
  <2>1. s[1] \in Nat
    OBVIOUS
  <2>2. \A i \in 1..1 : s[i] \in Nat
    BY <2>1
  <2>3. /\ SubSeq(s, 1, 1) \in Seq(Nat) /\ Len(SubSeq(s, 1, 1)) = 1
        /\ SubSeq(s, 1, 1)[1] = s[1]
    BY <2>2, SubSeqProperties
  <2>4. <<s[1]>> \in Seq(Nat) /\ Len(<<s[1]>>) = 1 /\ <<s[1]>>[1] = s[1]
    BY <2>1
  <2>5. \A i \in 1..1 : i = 1
    OBVIOUS
  <2>6. \A i \in 1..Len(SubSeq(s, 1, 1)) : SubSeq(s, 1, 1)[i] = <<s[1]>>[i]
    BY <2>3, <2>4, <2>5, Zenon
  <2> QED
    BY <2>3, <2>4, <2>6, SeqEqual, Zenon
<1>4. ASSUME NEW s \in Seq(Nat), NEW u \in Seq(Nat), NEW i \in DOMAIN s \cap DOMAIN u,
             s[i] < u[i], SubSeq(s, 1, i - 1) = SubSeq(u, 1, i - 1)
      PROVE  Keys!TextBefore(s, u)
  BY <1>4, Zenon DEF Keys!TextBefore
<1>5. Keys!TextBefore(v, a) \/ Keys!TextBefore(a, v)
  <2>1. CASE a[1] # v[1]
    <3>1. 1 \in DOMAIN a \cap DOMAIN v /\ 1 - 1 = 0 /\ a[1] \in Nat /\ v[1] \in Nat
      BY <1>1
    <3>2. SubSeq(a, 1, 1 - 1) = SubSeq(v, 1, 1 - 1)
      BY <1>1, <1>2
    <3>3. a[1] < v[1] \/ v[1] < a[1]
      BY <2>1, <3>1
    <3> QED
      BY <1>1, <1>4, <3>1, <3>2, <3>3
  <2>2. CASE a[1] = v[1] /\ Len(v) > 1
    <3>1. /\ 2 \in DOMAIN a \cap DOMAIN v /\ 2 - 1 = 1 /\ a[2] \in Nat /\ v[2] \in Nat
          /\ a[2] # v[2]
      BY <1>1, <2>2
    <3>2. SubSeq(a, 1, 2 - 1) = SubSeq(v, 1, 2 - 1)
      BY <1>1, <1>3, <2>2
    <3>3. a[2] < v[2] \/ v[2] < a[2]
      BY <3>1
    <3> QED
      BY <1>1, <1>4, <3>1, <3>2, <3>3
  <2>3. CASE a[1] = v[1] /\ Len(v) = 1
    <3>1. v = <<v[1]>> /\ SubSeq(a, 1, 1) = <<a[1]>>
      BY <1>1, <1>3, <2>3
    <3>2. Len(v) < Len(a) /\ v = SubSeq(a, 1, Len(v))
      BY <1>1, <2>3, <3>1
    <3> QED
      BY <3>2 DEF Keys!TextBefore
  <2> QED
    BY <1>1, <2>1, <2>2, <2>3
<1>6. ~ (Keys!TextBefore(v, a) /\ Keys!TextBefore(a, v))
  <2> DEFINE Ahead(s, u, i) == s[i] < u[i] /\ SubSeq(s, 1, i - 1) = SubSeq(u, 1, i - 1)
             Short(s, u) == Len(s) < Len(u) /\ s = SubSeq(u, 1, Len(s))
  <2>1. ASSUME NEW s \in Seq(Nat), NEW u \in Seq(Nat), Keys!TextBefore(s, u)
        PROVE  Short(s, u) \/ \E i \in DOMAIN s \cap DOMAIN u : Ahead(s, u, i)
    BY <2>1, Zenon DEF Keys!TextBefore
  <2>2. ASSUME NEW s \in Seq(Nat), NEW u \in Seq(Nat), NEW i \in DOMAIN s \cap DOMAIN u,
               Ahead(s, u, i)
        PROVE  ~Short(u, s) /\ ~Short(s, u)
    <3>1. i \in 1..Len(s) /\ i \in 1..Len(u) /\ s[i] < u[i] /\ s[i] \in Nat /\ u[i] \in Nat
      BY <2>2
    <3>2. ASSUME Short(u, s)
          PROVE  u[i] = s[i]
      <4>1. Len(u) \in 0..Len(s) /\ u = SubSeq(s, 1, Len(u))
        BY <3>2
      <4>2. SubSeq(s, 1, Len(u))[i] = s[i]
        BY <3>1, <4>1, BeginningOf, Zenon
      <4> QED BY <4>1, <4>2, Zenon
    <3>3. ASSUME Short(s, u)
          PROVE  u[i] = s[i]
      <4>1. Len(s) \in 0..Len(u) /\ s = SubSeq(u, 1, Len(s))
        BY <3>3
      <4>2. SubSeq(u, 1, Len(s))[i] = u[i]
        BY <3>1, <4>1, BeginningOf, Zenon
      <4> QED BY <4>1, <4>2, Zenon
    <3> QED
      BY <3>1, <3>2, <3>3
  <2>3. ASSUME NEW s \in Seq(Nat), NEW u \in Seq(Nat),
               NEW i \in DOMAIN s \cap DOMAIN u, NEW j \in DOMAIN s \cap DOMAIN u,
               Ahead(s, u, i), Ahead(u, s, j)
        PROVE  FALSE
    <3>1. /\ i \in 1..Len(s) /\ i \in 1..Len(u) /\ s[i] < u[i] /\ s[i] \in Nat /\ u[i] \in Nat
          /\ j \in 1..Len(s) /\ j \in 1..Len(u) /\ u[j] < s[j] /\ s[j] \in Nat /\ u[j] \in Nat
      <4>1. i \in 1..Len(s) /\ i \in 1..Len(u) /\ j \in 1..Len(s) /\ j \in 1..Len(u)
        OBVIOUS
      <4>2. s[i] < u[i] /\ u[j] < s[j]
        BY <2>3
      <4>3. s[i] \in Nat /\ u[i] \in Nat /\ s[j] \in Nat /\ u[j] \in Nat
        BY <4>1
      <4> QED
        BY <4>1, <4>2, <4>3
    <3>2. ASSUME NEW k \in 1..Len(s), k \in 1..Len(u), NEW l \in 1..(k - 1),
                 SubSeq(s, 1, k - 1) = SubSeq(u, 1, k - 1)
          PROVE  s[l] = u[l]
      <4>1. SubSeq(s, 1, k - 1)[l] = s[l] /\ SubSeq(u, 1, k - 1)[l] = u[l]
        BY <3>2
      <4> QED
        BY <3>2, <4>1
    <3>3. ~ (i < j)
      <4> SUFFICES ASSUME i < j PROVE FALSE
        OBVIOUS
      <4>1. i \in 1..(j - 1)
        BY <3>1
      <4>2. s[i] = u[i]
        BY <2>3, <3>1, <3>2, <4>1
      <4> QED
        BY <3>1, <4>2
    <3>4. ~ (j < i)
      <4> SUFFICES ASSUME j < i PROVE FALSE
        OBVIOUS
      <4>1. j \in 1..(i - 1)
        BY <3>1
      <4>2. s[j] = u[j]
        BY <2>3, <3>1, <3>2, <4>1
      <4> QED
        BY <3>1, <4>2
    <3>5. i = j
      BY <3>1, <3>3, <3>4
    <3> QED
      BY <3>1, <3>5
  <2>4. ~ (Short(v, a) /\ Short(a, v))
    BY <1>1
  <2> HIDE DEF Ahead, Short
  <2> QED
    BY <1>1, <2>1, <2>2, <2>3, <2>4
<1> QED
  BY <1>5, <1>6, Zenon DEF a, v

\* Sorted puts two texts in order when exactly one comes before the other.
LEMMA SortedOfTwo ==
  ASSUME NEW v, NEW w, Keys!TextBefore(w, v) <=> ~Keys!TextBefore(v, w)
  PROVE  Keys!Sorted(<<v, w>>) = IF Keys!TextBefore(w, v) THEN <<w, v>> ELSE <<v, w>>
<1> DEFINE s == <<v, w>>
           InOrderBy(p) == \A i, j \in 1..2 : i < j => ~Keys!TextBefore(s[p[j]], s[p[i]])
           Ways == {p \in [1..2 -> 1..2] : p[1] # p[2]}
           same == [i \in 1..2 |-> i]
           swap == [i \in 1..2 |-> 3 - i]
           it == IF Keys!TextBefore(w, v) THEN swap ELSE same
<1>1. DOMAIN s = 1..2 /\ s[1] = v /\ s[2] = w
  OBVIOUS
<1>2. Keys!Bijection(DOMAIN s, DOMAIN s) = Ways
  <2>1. Keys!Bijection(1..2, 1..2) = Ways
    <3>1. ASSUME NEW p \in [1..2 -> 1..2], p[1] # p[2]
          PROVE  /\ \A i, j \in 1..2 : p[i] = p[j] => i = j
                 /\ \A j \in 1..2 : \E i \in 1..2 : p[i] = j
      <4>1. p[1] \in 1..2 /\ p[2] \in 1..2 /\ 1 \in 1..2 /\ 2 \in 1..2
        OBVIOUS
      <4> QED
        BY <3>1, <4>1
    <3>2. ASSUME NEW p \in [1..2 -> 1..2], \A i, j \in 1..2 : p[i] = p[j] => i = j
          PROVE  p[1] # p[2]
      BY <3>2
    <3> QED
      BY <3>1, <3>2
         DEF Keys!Bijection, Keys!Injection, Keys!Surjection, Keys!IsInjective
  <2> QED
    BY <1>1, <2>1
<1>3. \A p \in Ways : InOrderBy(p) <=> ~Keys!TextBefore(s[p[2]], s[p[1]])
  <2> SUFFICES ASSUME NEW p \in Ways
               PROVE  InOrderBy(p) <=> ~Keys!TextBefore(s[p[2]], s[p[1]])
    OBVIOUS
  <2>1. \A i, j \in 1..2 : i < j <=> i = 1 /\ j = 2
    OBVIOUS
  <2> HIDE DEF s, Ways
  <2>2. 1 \in 1..2 /\ 2 \in 1..2
    OBVIOUS
  <2> QED
    BY <2>1, <2>2, Zenon
<1>4. \A p \in Ways : p = same \/ p = swap
  <2> SUFFICES ASSUME NEW p \in Ways PROVE p = same \/ p = swap
    OBVIOUS
  <2>1. p[1] \in 1..2 /\ p[2] \in 1..2 /\ p[1] # p[2]
    OBVIOUS
  <2>2. (p[1] = 1 /\ p[2] = 2) \/ (p[1] = 2 /\ p[2] = 1)
    BY <2>1
  <2> QED
    BY <2>2
<1>5. same \in Ways /\ swap \in Ways
  OBVIOUS
<1>6. same[1] = 1 /\ same[2] = 2 /\ swap[1] = 2 /\ swap[2] = 1
  OBVIOUS
<1>7. [i \in DOMAIN s |-> s[same[i]]] = <<v, w>> /\ [i \in DOMAIN s |-> s[swap[i]]] = <<w, v>>
  OBVIOUS
<1> HIDE DEF Ways, same, swap
<1>8. \A p \in Ways : InOrderBy(p) <=> p = it
  <2> HIDE DEF InOrderBy
  <2>1. InOrderBy(same) <=> ~Keys!TextBefore(w, v)
    BY <1>1, <1>3, <1>5, <1>6, Zenon
  <2>2. InOrderBy(swap) <=> ~Keys!TextBefore(v, w)
    BY <1>1, <1>3, <1>5, <1>6, Zenon
  <2>3. same # swap
    BY <1>6
  <2> QED
    BY <1>4, <2>1, <2>2, <2>3, Zenon
<1>9. it \in Ways
  BY <1>5, Zenon
<1>10. (CHOOSE p \in Ways : InOrderBy(p)) = it
  <2> HIDE DEF InOrderBy, it
  <2> QED
    BY <1>8, <1>9, Zenon
<1>11. Keys!Sorted(s) = [i \in DOMAIN s |-> s[it[i]]]
  <2> DEFINE order == CHOOSE p \in Keys!Bijection(DOMAIN s, DOMAIN s) :
                        \A i, j \in DOMAIN s : i < j => ~Keys!TextBefore(s[p[j]], s[p[i]])
  <2>1. Keys!Sorted(s) = [i \in DOMAIN s |-> s[order[i]]]
    BY Zenon DEF Keys!Sorted
  <2>2. order = CHOOSE p \in Ways : InOrderBy(p)
    BY <1>1, <1>2, Zenon
  <2> HIDE DEF order, it
  <2> QED
    BY <1>10, <2>1, <2>2, Zenon
<1> HIDE DEF s
<1> QED
  BY <1>7, <1>11, Zenon DEF s

\* Two texts, one after the other.
LEMMA FlattenOfTwo ==
  ASSUME NEW v, NEW w
  PROVE  Keys!FlattenSeq(<<v, w>>) = v \o w
<1> DEFINE s == <<v, w>>
           Solves(f) == f = [i \in 1..2 |-> IF i = 1 THEN s[i] ELSE f[i - 1] \o s[i]]
           h == [i \in 1..2 |-> IF i = 1 THEN v ELSE v \o w]
           flatten == CHOOSE f : f = [i \in 1..Len(s) |-> IF i = 1 THEN s[i] ELSE f[i - 1] \o s[i]]
<1>1. Len(s) = 2 /\ s[1] = v /\ s[2] = w
  OBVIOUS
<1>2. Solves(h)
  <2> DEFINE g == [i \in 1..2 |-> IF i = 1 THEN s[i] ELSE h[i - 1] \o s[i]]
  <2>1. \A i \in 1..2 : i = 1 \/ i = 2
    OBVIOUS
  <2>2. h[1] = v /\ h[2] = v \o w
    OBVIOUS
  <2>3. g[1] = v /\ g[2] = h[1] \o w
    OBVIOUS
  <2>4. g[1] = h[1] /\ g[2] = h[2]
    BY <2>2, <2>3
  <2>5. h = [i \in 1..2 |-> h[i]] /\ g = [i \in 1..2 |-> g[i]]
    OBVIOUS
  <2> HIDE DEF g, h
  <2>6. h = g
    BY <2>1, <2>4, <2>5
  <2> QED
    BY <2>6 DEF g
<1>3. \A f : Solves(f) => f[2] = v \o w
  <2> SUFFICES ASSUME NEW f, Solves(f) PROVE f[2] = v \o w
    OBVIOUS
  <2> DEFINE g == [i \in 1..2 |-> IF i = 1 THEN s[i] ELSE f[i - 1] \o s[i]]
  <2>1. g[1] = s[1] /\ g[2] = f[1] \o s[2]
    OBVIOUS
  <2>2. f = g
    OBVIOUS
  <2> HIDE DEF g, s
  <2>3. f[1] = s[1] /\ f[2] = f[1] \o s[2]
    BY <2>1, <2>2, Zenon
  <2> QED
    BY <1>1, <2>3, Zenon
<1>4. Keys!FlattenSeq(s) = flatten[Len(s)]
  <2> HIDE DEF s
  <2> QED
    BY <1>1 DEF Keys!FlattenSeq
<1>5. Solves(flatten)
  <2>1. flatten = CHOOSE f : Solves(f)
    BY <1>1
  <2> HIDE DEF Solves, flatten, h
  <2> QED
    BY <1>2, <2>1, Zenon
<1> HIDE DEF Solves, flatten
<1> QED
  BY <1>1, <1>3, <1>4, <1>5

\* KeyLookup gives a token's key, the address and then the id, exactly if the
\* text of the id does not sort before the address.
LEMMA InOrderUnlessBefore ==
  \A t \in Tokens : InOrder(t) <=> ~Keys!TextBefore(Text[t], Address)
<1> SUFFICES ASSUME NEW t \in Tokens
             PROVE  InOrder(t) <=> ~Keys!TextBefore(Text[t], Address)
  OBVIOUS
<1> DEFINE a == Address
           v == Text[t]
<1>1. Keys!TextBefore(v, a) <=> ~Keys!TextBefore(a, v)
  BY OneComesFirst, Zenon
<1>2. InOrder(t) <=> Keys!FlattenSeq(Keys!Sorted(<<a, v>>)) = a \o v
  BY DEF InOrder, Keys!KeyLookup, Keys!Lookup
<1>3. Keys!FlattenSeq(Keys!Sorted(<<a, v>>)) = IF Keys!TextBefore(v, a) THEN v \o a ELSE a \o v
  <2>1. Keys!Sorted(<<a, v>>) = IF Keys!TextBefore(v, a) THEN <<v, a>> ELSE <<a, v>>
    BY <1>1, SortedOfTwo, Zenon
  <2>2. Keys!FlattenSeq(<<a, v>>) = a \o v /\ Keys!FlattenSeq(<<v, a>>) = v \o a
    BY FlattenOfTwo, Zenon
  <2> QED
    BY <2>1, <2>2, Zenon
<1>4. v \o a # a \o v
  <2>1. /\ a \in Seq(Nat) /\ Len(a) > 1 /\ a[1] # a[2]
        /\ v \in Seq(Nat) /\ v # <<>>
        /\ \A i \in DOMAIN v : v[i] # a[2]
    BY AddressAssumption, Zenon
  <2> HIDE DEF a, v
  <2>2. Len(a) \in Nat /\ Len(v) \in Nat /\ Len(v) >= 1 /\ DOMAIN v = 1..Len(v)
    BY <2>1
  <2>3. (a \o v)[2] = a[2]
    BY <2>1, <2>2, ConcatProperties
  <2>4. CASE Len(v) >= 2
    <3>1. (v \o a)[2] = v[2]
      BY <2>1, <2>2, <2>4, ConcatProperties
    <3>2. v[2] # a[2]
      BY <2>1, <2>2, <2>4
    <3> QED
      BY <2>3, <3>1, <3>2
  <2>5. CASE Len(v) = 1
    <3>1. (v \o a)[2] = IF 2 <= Len(v) THEN v[2] ELSE a[2 - Len(v)]
      <4>1. v \in Seq(Nat) /\ a \in Seq(Nat) /\ 2 \in 1..(Len(v) + Len(a))
        BY <2>1, <2>2
      <4> QED
        BY <4>1, ConcatProperties, Zenon
    <3>2. (v \o a)[2] = a[1]
      BY <2>5, <3>1
    <3> QED
      BY <2>1, <2>3, <3>2
  <2> QED
    BY <2>2, <2>4, <2>5
<1> HIDE DEF a, v
<1>5. InOrder(t) <=> ~Keys!TextBefore(v, a)
  BY <1>2, <1>3, <1>4, Zenon
<1> QED
  BY <1>5, Zenon DEF a, v

-----------------------------------------------------------------------------
(* What is stored and found *)

LEMMA OfFinite ==
  ASSUME IsFiniteSet(stored), NEW kind, NEW t
  PROVE  IsFiniteSet(Of(kind, t)) /\ Cardinality(Of(kind, t)) \in Nat
<1>1. Of(kind, t) \in SUBSET stored
  BY DEF Of
<1>2. IsFiniteSet(Of(kind, t))
  BY <1>1, FS_Subset
<1> QED
  BY <1>2, FS_CardinalityType

\* A token whose metadata is found once can be shown.
LEMMA SingleIsShowable ==
  ASSUME NEW t \in Tokens, IsSingle(Found("Metadata", t))
  PROVE  t \notin Unshowable
<1>1. Cardinality(Found("Metadata", t)) = 1
  BY DEF IsSingle
<1>2. t \in Reached
  <2>1. Cardinality({}) = 0
    BY FS_EmptySet
  <2> QED
    BY <1>1, <2>1 DEF Found
<1>3. Cardinality(Of("Metadata", t)) = 1
  BY <1>1, <1>2 DEF Found
<1>4. ~Keys!TextBefore(Text[t], Address)
  BY <1>2, InOrderUnlessBefore DEF Reached
<1> QED
  BY <1>3, <1>4 DEF Unshowable

\* If a token that can be shown has metadata, it is found once.
LEMMA ShowableIsSingle ==
  ASSUME IsFiniteSet(stored), NEW t \in Tokens, t \notin Unshowable,
         Of("Metadata", t) # {}
  PROVE  IsSingle(Found("Metadata", t))
<1>1. ~Keys!TextBefore(Text[t], Address) /\ ~(Cardinality(Of("Metadata", t)) > 1)
  BY DEF Unshowable
<1>2. t \in Reached
  BY <1>1, InOrderUnlessBefore DEF Reached
<1>3. Cardinality(Of("Metadata", t)) \in Nat /\ Cardinality(Of("Metadata", t)) # 0
  BY OfFinite, FS_EmptySet
<1>4. Cardinality(Of("Metadata", t)) = 1
  BY <1>1, <1>3
<1> QED
  BY <1>2, <1>4 DEF Found, IsSingle

LEMMA ShowableIsReached ==
  ASSUME NEW t \in Tokens, t \notin Unshowable
  PROVE  t \in Reached
  BY InOrderUnlessBefore DEF Unshowable, Reached

\* What cannot be shown never can again.
LEMMA UnshowableGrows ==
  ASSUME IsFiniteSet(stored), IsFiniteSet(stored'), stored \subseteq stored'
  PROVE  Unshowable \subseteq Unshowable'
<1> SUFFICES ASSUME NEW t \in Tokens, Cardinality(Of("Metadata", t)) > 1
             PROVE  Cardinality(Of("Metadata", t)') > 1
  BY DEF Unshowable
<1>1. PICK S : S = Of("Metadata", t)
  OBVIOUS
<1>2. PICK T : T = Of("Metadata", t)'
  OBVIOUS
<1>3. T \in SUBSET stored' /\ S \in SUBSET T
  BY <1>1, <1>2 DEF Of
<1>4. IsFiniteSet(T)
  BY <1>3, FS_Subset
<1>5. IsFiniteSet(S) /\ Cardinality(S) <= Cardinality(T)
  BY <1>3, <1>4, FS_Subset
<1>6. Cardinality(S) \in Nat /\ Cardinality(T) \in Nat
  BY <1>4, <1>5, FS_CardinalityType
<1>7. Cardinality(S) > 1
  BY <1>1
<1> QED
  BY <1>2, <1>5, <1>6, <1>7

-----------------------------------------------------------------------------
(* The invariant *)

LEMMA QInvInit == Init => QInv
<1> SUFFICES ASSUME Init PROVE QInv
  OBVIOUS
<1>1. IsFiniteSet(stored)
  BY FS_EmptySet DEF Init
<1>2. \A q \in Requests : pc[q] = "idle" /\ spoilt[q] = {}
  BY DEF Init
<1> QED
  BY <1>1, <1>2 DEF QInv, ListInv, SeenInv, SpoiltInv, DoneInv, LookingUp

\* A step of a run stores one record at most.
LEMMA RunStores ==
  ASSUME NEW r \in Runs, Start(r) \/ GoOn(r) \/ Die(r)
  PROVE  /\ UNCHANGED pages
         /\ stored \subseteq stored' /\ \E x : stored' \subseteq stored \cup {x}
<1>1. CASE UNCHANGED data
  BY <1>1 DEF data, Start, GoOn, Die, Abort, SkipKnown, SkipUnsupported, SaveContract,
              NoMetadata, SaveMetadata, SaveTrait, NoImage, SaveMedia, DeleteFile,
              OpenFile, OpenFails, Copied, CopyFails, SaveThrows
<1>t. ASSUME NEW flag, NEW x, PutThrows(flag, x)
      PROVE  stored' = stored
  BY <1>t, ThrowFacts
<1>2. ASSUME NEW flag, NEW x, Put(flag, x)
      PROVE  stored \subseteq stored' /\ \E y : stored' \subseteq stored \cup {y}
  BY <1>2, PutFacts
<1>3. CASE SkipKnown(r)
  BY <1>2, <1>3 DEF SkipKnown
<1>4. CASE SaveContract(r)
  BY <1>2, <1>t, <1>4 DEF SaveContract
<1>8. CASE Abort(r)
  BY <1>1, <1>t, <1>8 DEF Abort
<1>9. CASE SaveThrows(r)
  <2>1. stored' = stored
    BY <1>t, <1>9 DEF SaveThrows
  <2> QED
    BY <2>1, <1>9 DEF SaveThrows
<1>5. CASE SaveMetadata(r)
  BY <1>2, <1>5 DEF SaveMetadata
<1>6. CASE SaveTrait(r)
  BY <1>2, <1>6 DEF SaveTrait
<1>7. CASE SaveMedia(r)
  BY <1>2, <1>7 DEF SaveMedia
<1> QED
  BY <1>1, <1>3, <1>4, <1>5, <1>6, <1>7, <1>8, <1>9 DEF Start, GoOn, Die, SkipUnsupported,
     NoMetadata, NoImage, DeleteFile, OpenFile, OpenFails, Copied, CopyFails

LEMMA RunsQInv ==
  ASSUME QInv, UNCHANGED pages, stored \subseteq stored', NEW x,
         stored' \subseteq stored \cup {x}
  PROVE  QInv'
<1>1. IsFiniteSet(stored) /\ IsFiniteSet(stored')
  <2>1. IsFiniteSet(stored \cup {x})
    BY FS_AddElement DEF QInv
  <2> QED
    BY <2>1, FS_Subset DEF QInv
<1>2. /\ pc' = pc /\ direct' = direct /\ todo' = todo /\ seen' = seen /\ spoilt' = spoilt
      /\ \A q \in Requests : Cur(q)' = Cur(q)
  BY DEF pages, Cur
<1>3. Listed \subseteq Listed'
  BY DEF Listed
<1>4. ListInv'
  BY <1>2, <1>3 DEF QInv, ListInv
<1>5. SeenInv'
  BY <1>2 DEF QInv, SeenInv, Reached
<1>6. SpoiltInv'
  BY <1>1, <1>2, UnshowableGrows DEF QInv, SpoiltInv
<1>7. DoneInv'
  BY <1>2 DEF QInv, DoneInv
<1> QED
  BY <1>1, <1>4, <1>5, <1>6, <1>7 DEF QInv

\* What the invariant says of the one request.
ListOf(q) == pc[q] \in {"traits"} \cup LookingUp /\ ~direct[q] => todo[q] \subseteq Listed

SeenOf(q) ==
  pc[q] \in LookingUp =>
    /\ \A x \in seen[q] : x.token = Cur(q)
    /\ seen[q] = {} => direct[q] \/ Cur(q) \notin Reached

SpoiltOf(q) ==
  /\ spoilt[q] \subseteq Unshowable
  /\ pc[q] \notin {"threw", "cancelled"} => spoilt[q] \subseteq todo[q]
  /\ pc[q] \in {"exists", "read"} => Cur(q) \notin spoilt[q]

DoneOf(q) == pc[q] = "done" => todo[q] = {}

RequestInv(q) == ListOf(q) /\ SeenOf(q) /\ SpoiltOf(q) /\ DoneOf(q)

\* A step of one request leaves the others alone.
LEMMA OneRequest ==
  ASSUME QInv, NEW q \in Requests, UNCHANGED stored, RequestInv(q)',
         \A p \in Requests \ {q} :
           /\ pc'[p] = pc[p] /\ direct'[p] = direct[p] /\ todo'[p] = todo[p]
           /\ seen'[p] = seen[p] /\ spoilt'[p] = spoilt[p]
  PROVE  QInv'
<1>1. \A p \in Requests \ {q} : Cur(p)' = Cur(p)
  BY DEF Cur
<1>2. Listed' = Listed /\ Unshowable' = Unshowable /\ Reached' = Reached
  BY DEF Listed, Unshowable, Of, Reached
<1>3. ListInv'
  BY <1>2 DEF QInv, ListInv, RequestInv, ListOf
<1>4. SeenInv'
  BY <1>1, <1>2 DEF QInv, SeenInv, RequestInv, SeenOf
<1>5. SpoiltInv'
  BY <1>1, <1>2 DEF QInv, SpoiltInv, RequestInv, SpoiltOf
<1>6. DoneInv'
  BY DEF QInv, DoneInv, RequestInv, DoneOf
<1> QED
  BY <1>3, <1>4, <1>5, <1>6 DEF QInv

LEMMA Kept ==
  ASSUME UNCHANGED stored
  PROVE  Listed' = Listed /\ Unshowable' = Unshowable /\ Reached' = Reached
  BY DEF Listed, Unshowable, Of, Reached

\* The item shown is none of those that could not be.
LEMMA ShowsOn ==
  ASSUME TInv, QInv, NEW q \in Requests, NEW media, Show(q, media),
         pc[q] \in {"exists", "read"}, UNCHANGED <<stored, direct, block, spoilt>>
  PROVE  QInv'
<1>1. /\ \A p \in Requests \ {q} :
           /\ pc'[p] = pc[p] /\ direct'[p] = direct[p] /\ todo'[p] = todo[p]
           /\ seen'[p] = seen[p] /\ spoilt'[p] = spoilt[p]
      /\ pc'[q] = "traits" /\ todo'[q] = todo[q] \ {Cur(q)}
  BY DEF TInv, PagesOK, Show, Stop
<1>2. ListOf(q)'
  BY <1>1, Kept DEF QInv, ListInv, ListOf, LookingUp
<1>3. SeenOf(q)' /\ DoneOf(q)'
  BY <1>1 DEF SeenOf, DoneOf, LookingUp
<1>4. SpoiltOf(q)'
  BY <1>1, Kept DEF QInv, SpoiltInv, SpoiltOf
<1> QED
  BY <1>1, <1>2, <1>3, <1>4, OneRequest DEF RequestInv

\* A request that is over holds nothing; it is done with all its tokens.
LEMMA Finishes ==
  ASSUME TInv, QInv, NEW q \in Requests, NEW how \in {"done", "threw", "cancelled"},
         Finish(q, how), UNCHANGED <<stored, direct, spoilt>>,
         how = "done" => pc[q] = "traits" /\ todo[q] = {}
  PROVE  QInv'
<1>1. /\ \A p \in Requests \ {q} :
           /\ pc'[p] = pc[p] /\ direct'[p] = direct[p] /\ todo'[p] = todo[p]
           /\ seen'[p] = seen[p] /\ spoilt'[p] = spoilt[p]
      /\ pc'[q] = how /\ todo'[q] = {} /\ spoilt'[q] = spoilt[q]
  BY DEF TInv, PagesOK, Finish, Stop
<1>2. ListOf(q)' /\ SeenOf(q)' /\ DoneOf(q)'
  BY <1>1 DEF ListOf, SeenOf, DoneOf, LookingUp
<1>3. SpoiltOf(q)'
  BY <1>1, Kept DEF QInv, SpoiltInv, SpoiltOf
<1> QED
  BY <1>1, <1>2, <1>3, OneRequest DEF RequestInv

LEMMA PagesQInv ==
  ASSUME TInv, QInv, NEW q \in Requests, PageStep(q)
  PROVE  QInv'
<1>0. stored' = stored
  BY DEF data, PageStep, KeysThrow, Cancel, AskCollection, AskItem, Begin, Respond,
         ReadTraits, ReadMetadata, CheckFile, ReadFile, Answer
<1>1. ASSUME NEW one \in BOOLEAN, NEW ts \in SUBSET Tokens, Begin(q, one, ts),
             one \/ ts = Listed
      PROVE  QInv'
  <2>1. /\ \A p \in Requests \ {q} :
             /\ pc'[p] = pc[p] /\ direct'[p] = direct[p] /\ todo'[p] = todo[p]
             /\ seen'[p] = seen[p] /\ spoilt'[p] = spoilt[p]
        /\ pc'[q] = "traits" /\ todo'[q] = ts /\ direct'[q] = one
        /\ spoilt'[q] = Unshowable \cap ts
    BY <1>1 DEF TInv, PagesOK, Begin
  <2>2. RequestInv(q)'
    BY <1>0, <1>1, <2>1, Kept DEF RequestInv, ListOf, SeenOf, SpoiltOf, DoneOf, LookingUp
  <2> QED
    BY <1>0, <2>1, <2>2, OneRequest
<1>2. CASE AskCollection(q)
  BY <1>1, <1>2, ListedTokens DEF AskCollection
<1>3. ASSUME NEW t \in Tokens, AskItem(q, t)
      PROVE  QInv'
  BY <1>1, <1>3 DEF AskItem
<1>4. CASE ReadTraits(q)
  <2> USE <1>4 DEF ReadTraits, Stop
  <2>1. /\ \A p \in Requests \ {q} :
             /\ pc'[p] = pc[p] /\ direct'[p] = direct[p] /\ todo'[p] = todo[p]
             /\ seen'[p] = seen[p] /\ spoilt'[p] = spoilt[p]
        /\ pc'[q] = "metadata" /\ todo'[q] = todo[q] /\ direct'[q] = direct[q]
        /\ spoilt'[q] = spoilt[q] /\ seen'[q] = Found("Trait", Cur(q))
    BY DEF TInv, PagesOK
  <2>2. Cur(q)' = Cur(q) /\ Cur(q) \in todo[q]
    BY <2>1, CurIn DEF Cur
  <2>3. ListOf(q)'
    BY <1>0, <2>1, Kept DEF QInv, ListInv, ListOf, LookingUp
  <2>4. SeenOf(q)'
    <3>1. ASSUME seen'[q] = {}, ~direct[q], Cur(q) \in Reached
          PROVE  FALSE
      <4>1. Of("Trait", Cur(q)) = {}
        BY <2>1, <3>1 DEF Found
      <4>2. Cur(q) \in Listed
        BY <2>2, <3>1 DEF QInv, ListInv
      <4> QED
        BY <4>1, <4>2 DEF Listed, Of
    <3>2. \A x \in seen'[q] : x.token = Cur(q)
      BY <2>1, FoundOf
    <3> QED
      BY <1>0, <2>1, <2>2, <3>1, <3>2, Kept DEF SeenOf
  <2>5. SpoiltOf(q)' /\ DoneOf(q)'
    BY <1>0, <2>1, <2>2, Kept DEF QInv, SpoiltInv, SpoiltOf, DoneOf
  <2> QED
    BY <1>0, <2>1, <2>3, <2>4, <2>5, OneRequest DEF RequestInv
<1>5. CASE ReadMetadata(q)
  <2> DEFINE Shows == IsSingle(Found("Metadata", Cur(q))) /\ seen[q] # {}
  <2>1. CASE ~Shows
    BY <1>0, <1>5, <2>1, Finishes DEF ReadMetadata
  <2>2. CASE Shows
    <3>1. /\ \A p \in Requests \ {q} : pc'[p] = pc[p]
          /\ UNCHANGED <<direct, todo, seen, spoilt>>
          /\ pc[q] = "metadata" /\ pc'[q] = "exists"
          /\ IsSingle(Found("Metadata", Cur(q)))
      BY <1>5, <2>2 DEF ReadMetadata, Stop, TInv, PagesOK
    <3>2. Cur(q)' = Cur(q) /\ Cur(q) \in Tokens
      BY <3>1, CurIn DEF Cur, TInv, AtHandInv
    <3>3. ListOf(q)' /\ SeenOf(q)' /\ DoneOf(q)'
      BY <1>0, <3>1, <3>2, Kept DEF QInv, ListInv, SeenInv, ListOf, SeenOf, DoneOf, LookingUp
    <3>4. Cur(q) \notin spoilt[q]
      BY <3>1, <3>2, SingleIsShowable DEF QInv, SpoiltInv
    <3>5. SpoiltOf(q)'
      BY <1>0, <3>1, <3>2, <3>4, Kept DEF QInv, SpoiltInv, SpoiltOf
    <3> QED
      BY <1>0, <3>1, <3>3, <3>5, OneRequest DEF RequestInv
  <2> QED
    BY <2>1, <2>2
<1>6. ASSUME pc[q] = "exists", Stop(q, "read"), UNCHANGED <<todo, seen, direct, spoilt>>
      PROVE  QInv'
  <2>1. /\ \A p \in Requests \ {q} : pc'[p] = pc[p]
        /\ pc'[q] = "read" /\ Cur(q)' = Cur(q)
    BY <1>6 DEF TInv, PagesOK, Stop, Cur
  <2>2. RequestInv(q)'
    BY <1>0, <1>6, <2>1, Kept DEF QInv, ListInv, SeenInv, SpoiltInv, RequestInv, ListOf,
       SeenOf, SpoiltOf, DoneOf, LookingUp
  <2> QED
    BY <1>0, <1>6, <2>1, <2>2, OneRequest
<1>7. CASE CheckFile(q)
  BY <1>0, <1>6, <1>7, ShowsOn DEF CheckFile
<1>8. CASE ReadFile(q)
  BY <1>0, <1>8, ShowsOn, Finishes DEF ReadFile
<1>9. CASE Answer(q)
  BY <1>0, <1>9, Finishes DEF Answer
<1>10. CASE KeysThrow(q)
  BY <1>0, <1>10, Finishes DEF KeysThrow
<1>11. CASE Cancel(q)
  BY <1>0, <1>11, Finishes DEF Cancel
<1> QED
  BY <1>2, <1>3, <1>4, <1>5, <1>7, <1>8, <1>9, <1>10, <1>11 DEF PageStep, Respond

LEMMA QInvNext == TInv /\ QInv /\ [Next]_vars => QInv'
<1> SUFFICES ASSUME TInv, QInv, [Next]_vars PROVE QInv'
  OBVIOUS
<1>1. CASE UNCHANGED vars
  <2>1. UNCHANGED pages /\ stored \subseteq stored' /\ stored' \subseteq stored \cup {0}
    BY <1>1 DEF vars, pages
  <2> QED
    BY <2>1, RunsQInv
<1>2. ASSUME NEW r \in Runs, Start(r) \/ GoOn(r) \/ Die(r)
      PROVE  QInv'
  BY <1>2, RunStores, RunsQInv
<1>3. CASE Settle
  <2>1. UNCHANGED pages /\ stored \subseteq stored' /\ stored' \subseteq stored \cup {0}
    BY <1>3 DEF Settle, data
  <2> QED
    BY <2>1, RunsQInv
<1> QED
  BY <1>1, <1>2, <1>3, PagesQInv DEF Next, PageStep

LEMMA PagesInvariant == Spec => [](IInv /\ QInv)
<1>1. Init => QInv
  BY QInvInit
<1>2. IInv /\ QInv /\ [Next]_vars => QInv'
  BY QInvNext DEF IInv
<1> QED
  BY <1>1, <1>2, Invariant, PTL DEF Spec

-----------------------------------------------------------------------------
(* Theorems *)

\* A request for a collection in which KeyLookup misorders a token's key, or
\* a token was indexed twice, when it begins, never completes: GetTokenMetadata
\* throws for that token, however many records are stored meanwhile.
THEOREM OneTokenHidesTheCollection == Spec => []OneTokenHidesAll
<1>1. QInv => OneTokenHidesAll
  BY DEF QInv, SpoiltInv, DoneInv, OneTokenHidesAll
<1> QED
  BY <1>1, PagesInvariant, PTL

\* A page that somebody waits for fails only at a key that is not yet in
\* KeyBuilder's dictionaries, for a token that cannot be shown, for one asked
\* for directly that has no trait, for one whose metadata was not stored, and
\* for a file that is being replaced, for any interleaving with any number of
\* runs and of other requests.
THEOREM PagesThrowForACause == Spec => ThrowsForACause
<1> DEFINE Cause(q) ==
      \/ Cur(q) \in Unshowable
      \/ direct[q] /\ seen[q] = {}
      \/ \E x \in seen[q] : Orphan(x)
      \/ pc[q] = "read" /\ Replacing(Media(q))
<1> DEFINE AnyCause(q) ==
      \/ ~settled /\ pc[q] \in {"idle", "traits", "metadata"}
      \/ /\ pc[q] \in {"metadata", "read"}
         /\ Cause(q)
<1> DEFINE Step == \A q \in Requests : (pc'[q] = "threw" /\ pc[q] # "threw") => AnyCause(q)
<1>1. ASSUME IInv, QInv, NEW q \in Requests, ReadMetadata(q), pc'[q] = "threw"
      PROVE  Cause(q)
  <2> SUFFICES ASSUME Cur(q) \notin Unshowable, ~(direct[q] /\ seen[q] = {})
               PROVE  \E x \in seen[q] : Orphan(x)
    OBVIOUS
  <2>1. pc[q] = "metadata" /\ todo[q] # {}
    BY <1>1 DEF ReadMetadata, IInv, TInv, AtHandInv
  <2>2. Cur(q) \in Tokens /\ Cur(q) \in Reached
    BY <1>1, <2>1, CurIn, ShowableIsReached DEF IInv
  <2>3. seen[q] # {} /\ \A x \in seen[q] : x.token = Cur(q)
    BY <1>1, <2>1, <2>2 DEF QInv, SeenInv, LookingUp
  <2>4. ~IsSingle(Found("Metadata", Cur(q)))
    BY <1>1, <2>3 DEF ReadMetadata, Finish, Stop, IInv, TInv, PagesOK
  <2>5. Of("Metadata", Cur(q)) = {}
    BY <1>1, <2>2, <2>4, ShowableIsSingle DEF QInv
  <2>6. PICK x \in seen[q] : x \in stored /\ x.kind = "Trait" /\ x.token = Cur(q)
    BY <1>1, <2>3 DEF IInv, TInv, PagesOK, AtHandInv
  <2>7. MetaFor(x) \notin stored
    <3>1. x.run \in Runs /\ x = TraitOf(x.run, x.mint, x.k)
      BY <1>1, <2>6 DEF IInv, PInv, TraitInv
    <3>2. MetaFor(x) = Meta(x.run, x.mint)
      BY <3>1, TraitToMeta
    <3>3. MetaFor(x).kind = "Metadata" /\ MetaFor(x).token = Mints[x.mint].token
      BY <3>2, MetaFields
    <3>4. x.token = Mints[x.mint].token
      BY <3>1 DEF TraitOf, RecordOf
    <3> QED
      BY <2>5, <2>6, <3>3, <3>4 DEF Of
  <2>8. "TokenMetadata" \in Scope => MetaFor(x) \in lost
    BY <1>1, <2>6, <2>7, ListedIs DEF IInv, PInv, Recorded
  <2>9. Orphan(x)
    BY <2>8 DEF Orphan, MetaFor
  <2> QED
    BY <2>9
<1>2. ASSUME IInv, QInv, NEW q \in Requests, ReadFile(q), pc'[q] = "threw"
      PROVE  Cause(q)
  <2>1. pc[q] = "read" /\ todo[q] # {}
    BY <1>2 DEF ReadFile, IInv, TInv, AtHandInv
  <2>2. Media(q) \in Paths
    BY <1>2, <2>1, CurIn DEF Media, Paths, IInv, TInv, PagesOK
  <2>3. ~Readable(Media(q))
    BY <1>2, <2>1 DEF ReadFile, Show, Finish, Stop, IInv, TInv, PagesOK
  <2>4. CASE files[Media(q)] = "none"
    BY <1>2, <2>1, <2>4 DEF IInv, DInv, GoneInv, Replacing
  <2>5. CASE writer[Media(q)] # NoRun
    <3>1. PICK r \in Runs : writer[Media(q)] = r
      BY <1>2, <2>2, <2>5 DEF IInv, TInv, DiskOK
    <3> QED
      BY <1>2, <2>1, <2>2, <3>1 DEF IInv, DInv, WriterInv, Replacing
  <2> QED
    BY <2>3, <2>4, <2>5 DEF Readable
<1>3. ASSUME IInv, QInv, [Next]_vars PROVE Step
  <2> SUFFICES ASSUME NEW q \in Requests, pc'[q] = "threw", pc[q] # "threw"
               PROVE  AnyCause(q)
    OBVIOUS
  <2>1. ASSUME NEW r \in Runs, Start(r) \/ GoOn(r) \/ Die(r)
        PROVE  pc' = pc
    BY <2>1, RunStores DEF pages
  <2>2. PICK p \in Requests : PageStep(p)
    BY <1>3, <2>1 DEF Next, vars, Settle, pages, PageStep
  <2>3. p = q /\ (ReadMetadata(q) \/ ReadFile(q) \/ KeysThrow(q))
    BY <1>3, <2>2 DEF PageStep, KeysThrow, Cancel, AskCollection, AskItem, Begin, Respond,
       ReadTraits, ReadMetadata, CheckFile, ReadFile, Answer, Show, Finish, Stop, IInv,
       TInv, PagesOK
  <2>4. CASE KeysThrow(q)
    BY <2>4 DEF KeysThrow
  <2>5. CASE ReadMetadata(q)
    <3>1. Cause(q)
      BY <1>1, <1>3, <2>5
    <3> QED
      BY <2>5, <3>1 DEF ReadMetadata
  <2>6. CASE ReadFile(q)
    <3>1. Cause(q)
      BY <1>2, <1>3, <2>6
    <3> QED
      BY <2>6, <3>1 DEF ReadFile
  <2> QED
    BY <2>3, <2>4, <2>5, <2>6
<1>4. IInv /\ QInv /\ [Next]_vars => [Step]_vars
  BY <1>3
<1> QED
  BY <1>4, PagesInvariant, PTL DEF Spec, ThrowsForACause
=============================================================================
