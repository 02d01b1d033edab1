------------------------ MODULE ContinuationTokenProofs -----------------------
(***************************************************************************)
(* Which numbers of filters survive their token, proved for every number   *)
(* and hash that TokenAssumption allows.                                   *)
(*                                                                         *)
(* Inductions are over positions.  Each is stated as the choice of a least *)
(* counterexample (LeastNat), which the library's theorem about minima of  *)
(* well-founded relations gives without an operator as its parameter.      *)
(***************************************************************************)
EXTENDS ContinuationToken, SequenceTheorems, WellFoundedInduction, TLAPS

Bytes == Seq(Byte)

-----------------------------------------------------------------------------
(* Least and greatest numbers *)

LEMMA LeastNat ==
  ASSUME NEW T \in SUBSET Nat, T # {}
  PROVE  \E m \in T : \A n \in T : m <= n
<1> DEFINE R == {p \in Nat \X Nat : p[1] < p[2]}
<1>1. IsWellFoundedOn(R, Nat)
  BY NatLessThanWellFounded, Zenon DEF OpToRel
<1>2. PICK m \in T : \A n \in T : ~ (<<n, m>> \in R)
  BY <1>1, WFMin, Zenon
<1>3. ASSUME NEW n \in T
      PROVE  m <= n
  <2>1. n \in Nat /\ m \in Nat
    OBVIOUS
  <2>2. <<n, m>> \notin R
    BY <1>2
  <2>3. ~ (n < m)
    BY <2>1, <2>2
  <2> QED
    BY <2>1, <2>3
<1> QED
  BY <1>3

LEMMA FirstIsLeast ==
  ASSUME NEW T \in SUBSET Nat, T # {}
  PROVE  First(T) \in T /\ \A n \in T : First(T) <= n
BY LeastNat, Zenon DEF First

LEMMA LastIsGreatest ==
  ASSUME NEW N \in Nat, NEW T \in SUBSET (1..N), T # {}
  PROVE  Last(T) \in T /\ \A n \in T : n <= Last(T)
<1> DEFINE U == {N - n : n \in T}
<1>1. U \in SUBSET Nat /\ U # {}
  <2>1. \A n \in T : N - n \in Nat
    OBVIOUS
  <2>2. PICK t \in T : TRUE
    OBVIOUS
  <2>3. N - t \in U
    OBVIOUS
  <2> QED
    BY <2>1, <2>3
<1>2. PICK u \in U : \A v \in U : u <= v
  BY <1>1, LeastNat
<1>3. PICK m \in T : u = N - m
  OBVIOUS
<1>4. \A n \in T : n <= m
  BY <1>2, <1>3
<1> QED
  BY <1>4, Zenon DEF Last

\* Induction over the positions of a text, from its end to its beginning.
LEMMA Downwards ==
  ASSUME NEW N \in Nat, NEW good,
         \A n \in 1..N : (\A m \in (n + 1)..N : m \in good) => n \in good
  PROVE  \A n \in 1..N : n \in good
<1> SUFFICES ASSUME NEW n \in 1..N, n \notin good
             PROVE  FALSE
  OBVIOUS
<1> DEFINE T == {m \in 1..N : m \notin good}
<1> HIDE DEF T
<1>1. T \in SUBSET (1..N) /\ T # {}
  BY DEF T
<1>2. Last(T) \in T /\ \A m \in T : m <= Last(T)
  BY <1>1, LastIsGreatest
<1>3. \A m \in (Last(T) + 1)..N : m \in good
  BY <1>1, <1>2 DEF T
<1> QED
  BY <1>1, <1>2, <1>3 DEF T

-----------------------------------------------------------------------------
(* Characters *)

\* Whether the bytes from a to b begin a character, byte by byte.
LEMMA BeginsCharBytes ==
  ASSUME NEW s \in Bytes, NEW a \in 1..Len(s), NEW b \in a..Len(s)
  PROVE  /\ Len(SubSeq(s, a, b)) = b - a + 1
         /\ SubSeq(s, a, b)[1] = s[a]
         /\ BeginsChar(SubSeq(s, a, b)) <=>
              /\ s[a] < 128 \/ s[a] \in 194..244
              /\ b - a + 1 <= Width(s[a])
              /\ \A i \in (a + 1)..b : s[i] \in (IF i = a + 1 THEN Second(s[a]) ELSE Continues)
<1> DEFINE c == SubSeq(s, a, b)
<1>1. Len(c) = b - a + 1 /\ \A n \in 1..(b - a + 1) : c[n] = s[a + n - 1]
  BY DEF Bytes
<1> HIDE DEF c
<1>2. c[1] = s[a]
  BY <1>1
<1>3. ASSUME NEW K, NEW L
      PROVE  (\A n \in 2..Len(c) : c[n] \in (IF n = 2 THEN K ELSE L))
               <=> (\A i \in (a + 1)..b : s[i] \in (IF i = a + 1 THEN K ELSE L))
  <2>1. ASSUME \A n \in 2..Len(c) : c[n] \in (IF n = 2 THEN K ELSE L), NEW i \in (a + 1)..b
        PROVE  s[i] \in (IF i = a + 1 THEN K ELSE L)
    <3>1. i - a + 1 \in 2..Len(c) /\ c[i - a + 1] = s[i]
      BY <1>1
    <3> QED
      BY <2>1, <3>1
  <2>2. ASSUME \A i \in (a + 1)..b : s[i] \in (IF i = a + 1 THEN K ELSE L), NEW n \in 2..Len(c)
        PROVE  c[n] \in (IF n = 2 THEN K ELSE L)
    <3>1. a + n - 1 \in (a + 1)..b /\ c[n] = s[a + n - 1]
      BY <1>1
    <3> QED
      BY <2>2, <3>1
  <2> QED
    BY <2>1, <2>2
<1>4. BeginsChar(c) <=>
        /\ s[a] < 128 \/ s[a] \in 194..244
        /\ b - a + 1 <= Width(s[a])
        /\ \A n \in 2..Len(c) : c[n] \in (IF n = 2 THEN Second(s[a]) ELSE Continues)
  BY <1>1, <1>2, Zenon DEF BeginsChar
<1> QED
  BY <1>1, <1>2, <1>3, <1>4, Zenon DEF c

LEMMA SameBytes ==
  ASSUME NEW s \in Bytes, NEW u \in Bytes, Len(s) = Len(u), \A n \in 1..Len(s) : s[n] = u[n]
  PROVE  s = u
BY SeqEqual, Zenon DEF Bytes

\* The end of a sequence of bytes.
LEMMA TailBytes ==
  ASSUME NEW s \in Bytes, NEW m \in 1..(Len(s) + 1)
  PROVE  /\ SubSeq(s, m, Len(s)) \in Bytes
         /\ Len(SubSeq(s, m, Len(s))) = Len(s) - m + 1
         /\ \A i \in 1..(Len(s) - m + 1) : SubSeq(s, m, Len(s))[i] = s[m + i - 1]
<1> DEFINE u == SubSeq(s, m, Len(s))
           len == Len(s)
           left == Len(u)
<1>1. m \in Int /\ Len(s) \in Int /\ \A k \in m..Len(s) : s[k] \in Byte
  BY DEF Bytes
<1>2. /\ u \in Bytes
      /\ left = IF m <= Len(s) THEN Len(s) - m + 1 ELSE 0
      /\ \A i \in 1..(Len(s) - m + 1) : u[i] = s[m + i - 1]
  BY <1>1, SubSeqProperties, SMTT(30) DEF Bytes
<1> HIDE DEF u, len, left
<1>3. left = len - m + 1
  <2>1. len \in Int /\ m \in 1..(len + 1) /\ left = IF m <= len THEN len - m + 1 ELSE 0
    BY <1>1, <1>2, Zenon DEF len
  <2> QED
    BY <2>1
<1> QED
  BY <1>2, <1>3, Zenon DEF u, len, left

LEMMA SecondContinues ==
  ASSUME NEW b \in Byte
  PROVE  Second(b) \subseteq 128..191 /\ Width(b) \in 1..4 /\ Continues = 128..191
BY DEF Second, Width, Continues, Byte

LEMMA AsciiOrNot ==
  ASSUME NEW b \in Byte
  PROVE  /\ b \in Nat /\ b <= 255
         /\ b < 128 => Width(b) = 1
         /\ ~ (b < 128) => b >= 128
BY DEF Byte, Width

LEMMA CharBytes ==
  ASSUME NEW s \in Bytes, NEW a \in 1..Len(s), NEW b \in a..Len(s)
  PROVE  /\ IsChar(SubSeq(s, a, b)) <=> BeginsChar(SubSeq(s, a, b)) /\ b = a + Width(s[a]) - 1
         /\ BeginsChar(SubSeq(s, a, b)) =>
              /\ s[a] < 128 \/ s[a] \in 194..244
              /\ b <= a + 3
              /\ \A i \in (a + 1)..b : s[i] \in 128..191
<1>1. s[a] \in Byte
  BY DEF Bytes
<1>2. Second(s[a]) \subseteq 128..191 /\ Width(s[a]) \in 1..4 /\ Continues = 128..191
  BY <1>1, SecondContinues
<1> DEFINE c == SubSeq(s, a, b)
<1>3. Len(c) = b - a + 1 /\ c[1] = s[a]
  BY BeginsCharBytes
<1> HIDE DEF c
<1>4. IsChar(c) <=> BeginsChar(c) /\ b - a + 1 = Width(s[a])
  <2>1. b - a + 1 # 0
    BY DEF Bytes
  <2>2. c # <<>>
    BY <1>3, <2>1
  <2> QED
    BY <1>3, <2>2, Zenon DEF IsChar
<1> USE DEF c
<1>5. ASSUME BeginsChar(SubSeq(s, a, b))
      PROVE  /\ s[a] < 128 \/ s[a] \in 194..244
             /\ b <= a + 3
             /\ \A i \in (a + 1)..b : s[i] \in 128..191
  <2>1. /\ s[a] < 128 \/ s[a] \in 194..244
        /\ b - a + 1 <= Width(s[a])
        /\ \A i \in (a + 1)..b : s[i] \in (IF i = a + 1 THEN Second(s[a]) ELSE Continues)
    BY <1>5, BeginsCharBytes, Zenon
  <2>2. b <= a + 3
    BY <1>2, <2>1 DEF Bytes
  <2>3. ASSUME NEW i \in (a + 1)..b
        PROVE  s[i] \in 128..191
    <3>1. s[i] \in Second(s[a]) \/ s[i] \in Continues
      BY <2>1, Zenon
    <3> QED
      BY <1>2, <3>1, Zenon
  <2> QED
    BY <2>1, <2>2, <2>3
<1>6. b - a + 1 = Width(s[a]) <=> b = a + Width(s[a]) - 1
  BY <1>2 DEF Bytes
<1> QED
  BY <1>4, <1>5, <1>6, Zenon

\* What Taken takes is the longest beginning of a character, or one byte.
LEMMA TakenIsLongest ==
  ASSUME NEW s \in Bytes, NEW n \in 1..Len(s)
  PROVE  /\ Taken(s, n) \in n..Len(s)
         /\ \A m \in n..Len(s) : BeginsChar(SubSeq(s, n, m)) => m <= Taken(s, n)
         /\ BeginsChar(SubSeq(s, n, Taken(s, n))) \/ Taken(s, n) = n
<1> DEFINE top == IF n + 3 < Len(s) THEN n + 3 ELSE Len(s)
           longest == {m \in n..top : BeginsChar(SubSeq(s, n, m))}
<1>1. top \in n..Len(s) /\ top <= n + 3 /\ (top = n + 3 \/ top = Len(s))
  BY DEF Bytes
<1> HIDE DEF top
<1>2. Taken(s, n) = IF longest = {} THEN n ELSE CHOOSE m \in longest : \A o \in longest : o <= m
  BY Zenon DEF Taken, top
<1>3. longest \in SUBSET (1..Len(s))
  BY <1>1
<1>4. ASSUME NEW m \in n..Len(s), BeginsChar(SubSeq(s, n, m))
      PROVE  m \in longest
  <2>1. m <= n + 3
    BY <1>4, CharBytes
  <2> QED
    BY <1>1, <1>4, <2>1
<1>5. CASE longest = {}
  BY <1>2, <1>4, <1>5
<1>6. CASE longest # {}
  <2>1. Taken(s, n) = Last(longest)
    BY <1>2, <1>6 DEF Last
  <2>2. Last(longest) \in longest /\ \A o \in longest : o <= Last(longest)
    <3>1. Len(s) \in Nat
      BY DEF Bytes
    <3> HIDE DEF longest
    <3> QED
      BY <1>3, <1>6, <3>1, LastIsGreatest, Zenon
  <2>3. longest \subseteq n..Len(s) /\ \A m \in longest : BeginsChar(SubSeq(s, n, m))
    BY <1>1
  <2> HIDE DEF longest
  <2> QED
    BY <1>4, <2>1, <2>2, <2>3
<1> QED
  BY <1>5, <1>6

-----------------------------------------------------------------------------
(* Decoding *)

\* The recursion of DecodedFrom is well-founded: it has a solution.
LEMMA DecodedFromSolves ==
  ASSUME NEW s \in Bytes
  PROVE  DecodedFrom(s) =
           [n \in 1..(Len(s) + 1) |->
              IF n > Len(s) THEN <<>> ELSE Piece(s, n) \o DecodedFrom(s)[Taken(s, n) + 1]]
<1> DEFINE N == Len(s) + 1
           Value(f, n) == IF n > Len(s) THEN <<>> ELSE Piece(s, n) \o f[Taken(s, n) + 1]
           Solves(f, k) == \A n \in k..N : f[n] = Value(f, n)
           good == {k \in 1..N : \E f : f = [n \in 1..N |-> f[n]] /\ Solves(f, k)}
<1>1. N \in Nat /\ N >= 1 /\ Len(s) = N - 1
  BY DEF Bytes
<1>2. \A n \in 1..N : n <= Len(s) => Taken(s, n) + 1 \in (n + 1)..N
  <2> SUFFICES ASSUME NEW n \in 1..N, n <= Len(s)
               PROVE  Taken(s, n) + 1 \in (n + 1)..N
    OBVIOUS
  <2>1. n \in 1..Len(s)
    BY <1>1
  <2> QED
    BY <1>1, <2>1, TakenIsLongest
<1>3. ASSUME NEW f, NEW h, NEW k \in 1..N, \A n \in (k + 1)..N : f[n] = h[n]
      PROVE  \A n \in k..N : Value(f, n) = Value(h, n)
  BY <1>1, <1>2, <1>3
<1>4. ASSUME NEW k \in 1..N, \A m \in (k + 1)..N : m \in good
      PROVE  k \in good
  <2>1. PICK f : f = [n \in 1..N |-> f[n]] /\ Solves(f, k + 1)
    <3>1. CASE k = N
      <4>1. Solves([n \in 1..N |-> <<>>], k + 1)
        BY <1>1, <3>1
      <4> QED
        BY <4>1
    <3>2. CASE k # N
      <4>1. k + 1 \in good
        BY <1>1, <1>4, <3>2
      <4> QED
        BY <4>1, Zenon
    <3> QED
      BY <3>1, <3>2
  <2> DEFINE h == [n \in 1..N |-> IF n = k THEN Value(f, k) ELSE f[n]]
  <2>2. \A n \in (k + 1)..N : f[n] = h[n]
    BY <1>1
  <2>3. h[k] = Value(f, k)
    BY <1>1
  <2>4. h = [n \in 1..N |-> h[n]]
    OBVIOUS
  <2> HIDE DEF h, Value
  <2>5. \A n \in k..N : Value(f, n) = Value(h, n)
    BY <1>3, <2>2
  <2>6. ASSUME NEW n \in k..N
        PROVE  h[n] = Value(h, n)
    <3>1. CASE n = k
      BY <2>3, <2>5, <3>1
    <3>2. CASE n # k
      <4>1. n \in (k + 1)..N
        BY <1>1, <3>2
      <4>2. h[n] = f[n] /\ f[n] = Value(f, n)
        BY <2>1, <2>2, <4>1
      <4> QED
        BY <2>5, <4>2
    <3> QED
      BY <3>1, <3>2
  <2> QED
    BY <2>4, <2>6
<1>5. 1 \in good
  <2> HIDE DEF good
  <2>1. \A n \in 1..N : n \in good
    BY <1>1, <1>4, Downwards
  <2> QED
    BY <1>1, <2>1
<1>6. PICK f : f = [n \in 1..N |-> f[n]] /\ Solves(f, 1)
  BY <1>5, Zenon
<1>7. f = [n \in 1..N |-> Value(f, n)]
  BY <1>6
<1>8. DecodedFrom(s) = CHOOSE g : g = [n \in 1..N |-> Value(g, n)]
  BY DEF DecodedFrom
<1>9. DecodedFrom(s) = [n \in 1..N |-> Value(DecodedFrom(s), n)]
  BY <1>7, <1>8, Zenon
<1> QED
  BY <1>9

LEMMA DecodedFromValues ==
  ASSUME NEW s \in Bytes
  PROVE  /\ DecodedFrom(s)[Len(s) + 1] = <<>>
         /\ \A n \in 1..Len(s) :
              DecodedFrom(s)[n] = Piece(s, n) \o DecodedFrom(s)[Taken(s, n) + 1]
<1> DEFINE f == DecodedFrom(s)
           Value(n) == IF n > Len(s) THEN <<>> ELSE Piece(s, n) \o f[Taken(s, n) + 1]
<1>1. f = [n \in 1..(Len(s) + 1) |-> Value(n)]
  BY DecodedFromSolves, Zenon
<1>2. Len(s) \in Nat
  BY DEF Bytes
<1> HIDE DEF f
<1>3. f[Len(s) + 1] = Value(Len(s) + 1) /\ Value(Len(s) + 1) = <<>>
  BY <1>1, <1>2
<1>4. ASSUME NEW n \in 1..Len(s)
      PROVE  f[n] = Piece(s, n) \o f[Taken(s, n) + 1]
  <2>1. n \in 1..(Len(s) + 1) /\ ~ (n > Len(s))
    BY <1>2
  <2>2. f[n] = Value(n)
    BY <1>1, <2>1, Zenon
  <2> QED
    BY <2>1, <2>2, Zenon
<1> QED
  BY <1>3, <1>4, Zenon DEF f

\* What is taken is a character, and kept, or is replaced; it is then shorter
\* than four bytes, and begins no character.
LEMMA PieceCases ==
  ASSUME NEW s \in Bytes, NEW n \in 1..Len(s)
  PROVE  /\ Taken(s, n) \in n..Len(s)
         /\ Piece(s, n) \in Bytes
         /\ \/ /\ IsChar(SubSeq(s, n, Taken(s, n)))
               /\ Piece(s, n) = SubSeq(s, n, Taken(s, n))
            \/ /\ \A m \in n..Len(s) : ~IsChar(SubSeq(s, n, m))
               /\ Piece(s, n) = <<239, 191, 189>>
               /\ Taken(s, n) <= n + 2
               /\ s[n] >= 128
<1> DEFINE t == Taken(s, n)
<1> HIDE DEF t
<1>1. /\ t \in n..Len(s)
      /\ \A m \in n..Len(s) : BeginsChar(SubSeq(s, n, m)) => m <= t
      /\ BeginsChar(SubSeq(s, n, t)) \/ t = n
  BY TakenIsLongest, Zenon DEF t
<1>2. s[n] \in Byte /\ Width(s[n]) \in 1..4
  <2>1. s[n] \in Byte
    BY DEF Bytes
  <2> QED
    BY <2>1, SecondContinues
<1>3. CASE IsChar(SubSeq(s, n, t))
  <2>1. Piece(s, n) = SubSeq(s, n, t)
    BY <1>3, Zenon DEF Piece, t
  <2>2. SubSeq(s, n, t) \in Bytes
    BY <1>1 DEF Bytes
  <2> QED
    BY <1>1, <1>3, <2>1, <2>2, Zenon DEF t
<1>4. CASE ~IsChar(SubSeq(s, n, t))
  <2>1. Piece(s, n) = <<239, 191, 189>>
    BY <1>4, Zenon DEF Piece, t, Replacement
  <2>2. ASSUME NEW m \in n..Len(s), IsChar(SubSeq(s, n, m))
        PROVE  FALSE
    <3>1. BeginsChar(SubSeq(s, n, m)) /\ m = n + Width(s[n]) - 1
      BY <2>2, CharBytes
    <3>2. m <= t
      BY <1>1, <3>1
    <3>3. CASE t = n
      <4>1. m = t
        BY <3>2, <3>3
      <4> QED
        BY <1>4, <2>2, <4>1
    <3>4. CASE BeginsChar(SubSeq(s, n, t))
      <4>1. t - n + 1 <= Width(s[n])
        BY <1>1, <3>4, BeginsCharBytes
      <4>2. t = m
        BY <1>1, <1>2, <3>1, <3>2, <4>1 DEF Bytes
      <4> QED
        BY <1>4, <2>2, <4>2
    <3> QED
      BY <1>1, <3>3, <3>4
  <2>3. t <= n + 2
    <3>1. CASE t = n
      BY <3>1 DEF Bytes
    <3>2. CASE BeginsChar(SubSeq(s, n, t))
      <4>1. t - n + 1 <= Width(s[n])
        BY <1>1, <3>2, BeginsCharBytes
      <4>2. t # n + Width(s[n]) - 1
        BY <1>1, <1>4, <3>2, CharBytes
      <4> QED
        BY <1>1, <1>2, <4>1, <4>2 DEF Bytes
    <3> QED
      BY <1>1, <3>1, <3>2
  <2>4. s[n] >= 128
    <3> SUFFICES ASSUME s[n] < 128
                 PROVE  FALSE
      BY <1>2, AsciiOrNot
    <3>1. Width(s[n]) = 1
      BY <1>2, AsciiOrNot
    <3>2. n \in n..Len(s) /\ n - n + 1 = 1 /\ n = n + 1 - 1
      BY DEF Bytes
    <3>3. BeginsChar(SubSeq(s, n, n))
      BY <3>1, <3>2, BeginsCharBytes
    <3>4. IsChar(SubSeq(s, n, n))
      BY <3>1, <3>2, <3>3, CharBytes
    <3> QED
      BY <2>2, <3>2, <3>4
  <2>5. <<239, 191, 189>> \in Bytes
    BY DEF Bytes, Byte
  <2> QED
    BY <1>1, <2>1, <2>2, <2>3, <2>4, <2>5, Zenon DEF t
<1> QED
  BY <1>3, <1>4

LEMMA AsciiPiece ==
  ASSUME NEW s \in Bytes, NEW n \in 1..Len(s), s[n] < 128
  PROVE  Taken(s, n) = n /\ Piece(s, n) = <<s[n]>>
<1> DEFINE t == Taken(s, n)
<1> HIDE DEF t
<1>1. s[n] \in Byte
  BY DEF Bytes
<1>2. Width(s[n]) = 1 /\ s[n] \in Nat
  BY <1>1, AsciiOrNot
<1>3. ~ (s[n] >= 128)
  BY <1>2
<1>4. t \in n..Len(s) /\ IsChar(SubSeq(s, n, t)) /\ Piece(s, n) = SubSeq(s, n, t)
  BY <1>3, PieceCases, Zenon DEF t
<1>5. t = n + Width(s[n]) - 1
  BY <1>4, CharBytes
<1>6. t = n
  BY <1>2, <1>5
<1>7. SubSeq(s, n, n) = <<s[n]>>
  <2> DEFINE u == SubSeq(s, n, n)
             v == <<s[n]>>
  <2>1. u \in Bytes /\ Len(u) = 1 /\ u[1] = s[n]
    BY DEF Bytes
  <2>2. v \in Bytes /\ Len(v) = 1 /\ v[1] = s[n]
    BY <1>1 DEF Bytes
  <2> HIDE DEF u, v
  <2>3. u = v
    BY <2>1, <2>2, SameBytes
  <2> QED
    BY <2>3 DEF u, v
<1> QED
  BY <1>4, <1>6, <1>7, Zenon DEF t

LEMMA DecodedFromType ==
  ASSUME NEW s \in Bytes, NEW n \in 1..(Len(s) + 1)
  PROVE  DecodedFrom(s)[n] \in Bytes
<1> DEFINE f == DecodedFrom(s)
           good == {m \in 1..(Len(s) + 1) : f[m] \in Bytes}
<1>1. Len(s) \in Nat /\ Len(s) + 1 \in Nat
  BY DEF Bytes
<1>2. ASSUME NEW m \in 1..(Len(s) + 1), \A o \in (m + 1)..(Len(s) + 1) : o \in good
      PROVE  m \in good
  <2>1. CASE m = Len(s) + 1
    <3>1. f[m] = <<>>
      BY <2>1, DecodedFromValues
    <3> HIDE DEF f
    <3>2. f[m] \in Bytes
      BY <3>1 DEF Bytes
    <3> QED
      BY <3>2
  <2>2. CASE m # Len(s) + 1
    <3>1. m \in 1..Len(s)
      BY <1>1, <2>2
    <3>2. Taken(s, m) \in m..Len(s) /\ Piece(s, m) \in Bytes
      BY <3>1, PieceCases
    <3>3. Taken(s, m) + 1 \in (m + 1)..(Len(s) + 1)
      BY <1>1, <3>2
    <3>4. f[Taken(s, m) + 1] \in Bytes
      BY <1>2, <3>3
    <3>5. f[m] = Piece(s, m) \o f[Taken(s, m) + 1]
      BY <3>1, DecodedFromValues
    <3> HIDE DEF f
    <3>6. f[m] \in Bytes
      BY <3>2, <3>4, <3>5 DEF Bytes
    <3> QED
      BY <3>6
  <2> QED
    BY <2>1, <2>2
<1> HIDE DEF good
<1>3. \A m \in 1..(Len(s) + 1) : m \in good
  BY <1>1, <1>2, Downwards
<1> QED
  BY <1>3 DEF good
\* The bytes of a character: how many they are, and of which kind.
LEMMA CharRange ==
  ASSUME NEW s \in Bytes, NEW a \in 1..Len(s), NEW b \in a..Len(s), IsChar(SubSeq(s, a, b))
  PROVE  /\ b = a + Width(s[a]) - 1
         /\ s[a] < 128 \/ s[a] \in 194..244
         /\ \A i \in (a + 1)..b : s[i] \in 128..191
<1>1. BeginsChar(SubSeq(s, a, b)) /\ b = a + Width(s[a]) - 1
  BY CharBytes
<1>2. /\ s[a] < 128 \/ s[a] \in 194..244
      /\ \A i \in (a + 1)..b : s[i] \in 128..191
  BY <1>1, CharBytes
<1> QED
  BY <1>1, <1>2, Zenon

\* f at n is the character from n to t, and what f is behind it.
Keeps(s, n, t, f) ==
  /\ IsChar(SubSeq(s, n, t))
  /\ Len(f[n]) = t - n + 1 + Len(f[t + 1])
  /\ \A i \in 1..(t - n + 1) : f[n][i] = s[n + i - 1]
  /\ \A i \in 1..Len(f[t + 1]) : f[n][t - n + 1 + i] = f[t + 1][i]

\* f at n is a replacement, and what f is behind t.
Replaces(s, n, t, f) ==
  /\ \A m \in n..Len(s) : ~IsChar(SubSeq(s, n, m))
  /\ t <= n + 2 /\ s[n] >= 128
  /\ Len(f[n]) = 3 + Len(f[t + 1])
  /\ f[n][1] = 239 /\ f[n][2] = 191 /\ f[n][3] = 189
  /\ \A i \in 1..Len(f[t + 1]) : f[n][3 + i] = f[t + 1][i]

\* One step of the decoder, byte by byte.
LEMMA DecodedStep ==
  ASSUME NEW s \in Bytes, NEW n \in 1..Len(s)
  PROVE  /\ Taken(s, n) \in n..Len(s)
         /\ DecodedFrom(s)[n] \in Bytes /\ DecodedFrom(s)[Taken(s, n) + 1] \in Bytes
         /\ \/ Keeps(s, n, Taken(s, n), DecodedFrom(s))
            \/ Replaces(s, n, Taken(s, n), DecodedFrom(s))
<1> DEFINE f == DecodedFrom(s)
           t == Taken(s, n)
           P == Piece(s, n)
           rest == f[t + 1]
<1>1. t \in n..Len(s) /\ P \in Bytes
  BY PieceCases, Zenon
<1>2. t + 1 \in 1..(Len(s) + 1) /\ n \in 1..(Len(s) + 1)
  BY <1>1 DEF Bytes
<1>3. rest \in Bytes /\ f[n] \in Bytes
  BY <1>2, DecodedFromType
<1>4. f[n] = P \o rest
  BY DecodedFromValues, Zenon
<1>5. \/ /\ IsChar(SubSeq(s, n, t))
         /\ P = SubSeq(s, n, t)
      \/ /\ \A m \in n..Len(s) : ~IsChar(SubSeq(s, n, m))
         /\ P = <<239, 191, 189>>
         /\ t <= n + 2
         /\ s[n] >= 128
  BY PieceCases, Zenon
<1> HIDE DEF f, t, P, rest
<1>6. /\ Len(f[n]) = Len(P) + Len(rest)
      /\ \A i \in 1..Len(P) : f[n][i] = P[i]
      /\ \A i \in 1..Len(rest) : f[n][Len(P) + i] = rest[i]
  BY <1>1, <1>3, <1>4 DEF Bytes
<1>7. ASSUME IsChar(SubSeq(s, n, t)), P = SubSeq(s, n, t)
      PROVE  Keeps(s, n, t, f)
  <2>1. Len(P) = t - n + 1 /\ \A i \in 1..(t - n + 1) : P[i] = s[n + i - 1]
    BY <1>1, <1>7 DEF Bytes
  <2> QED
    BY <1>6, <1>7, <2>1, Zenon DEF Keeps, rest
<1>8. ASSUME P = <<239, 191, 189>>, \A m \in n..Len(s) : ~IsChar(SubSeq(s, n, m))
      PROVE  Replaces(s, n, t, f)
  <2>1. Len(P) = 3 /\ P[1] = 239 /\ P[2] = 191 /\ P[3] = 189
    BY <1>8
  <2>2. t <= n + 2 /\ s[n] >= 128
    <3>1. t \in n..Len(s)
      BY <1>1
    <3>2. ~ IsChar(SubSeq(s, n, t))
      BY <1>8, <3>1, Zenon
    <3> QED
      BY <1>5, <3>2, Zenon
  <2>3. f[n][1] = 239 /\ f[n][2] = 191 /\ f[n][3] = 189
    BY <1>6, <2>1
  <2> QED
    BY <1>6, <1>8, <2>1, <2>2, <2>3, Zenon DEF Replaces, rest
<1> QED
  BY <1>1, <1>3, <1>5, <1>7, <1>8, Zenon DEF f, t, rest

-----------------------------------------------------------------------------
(* Texts *)

\* From position m on, each byte is part of a character.
TextFrom(s, m) ==
  \A n \in m..Len(s) : \E a \in m..n, b \in n..Len(s) : IsChar(SubSeq(s, a, b))

\* Characters do not overlap: after one, a text is as good as before it.
LEMMA TextStep ==
  ASSUME NEW s \in Bytes, NEW n \in 1..Len(s), NEW t \in n..Len(s), IsChar(SubSeq(s, n, t))
  PROVE  TextFrom(s, n) <=> TextFrom(s, t + 1)
<1>0. Len(s) \in Nat
  BY DEF Bytes
<1>1. ASSUME TextFrom(s, t + 1), NEW i \in n..Len(s)
      PROVE  \E a \in n..i, b \in i..Len(s) : IsChar(SubSeq(s, a, b))
  <2>1. CASE i <= t
    <3>1. n \in n..i /\ t \in i..Len(s)
      BY <1>0, <2>1
    <3> QED
      BY <3>1, Zenon
  <2>2. CASE i > t
    <3>1. i \in (t + 1)..Len(s)
      BY <1>0, <2>2
    <3>2. PICK a \in (t + 1)..i, b \in i..Len(s) : IsChar(SubSeq(s, a, b))
      BY <1>1, <3>1, Zenon DEF TextFrom
    <3>3. a \in n..i
      BY <1>0
    <3> QED
      BY <3>2, <3>3, Zenon
  <2> QED
    BY <1>0, <2>1, <2>2
<1>2. ASSUME TextFrom(s, n), NEW i \in (t + 1)..Len(s)
      PROVE  \E a \in (t + 1)..i, b \in i..Len(s) : IsChar(SubSeq(s, a, b))
  <2>1. i \in n..Len(s)
    BY <1>0
  <2>2. PICK a \in n..i, b \in i..Len(s) : IsChar(SubSeq(s, a, b))
    BY <1>2, <2>1, Zenon DEF TextFrom
  <2>3. a \in 1..Len(s) /\ b \in a..Len(s) /\ a <= i
    BY <1>0
  <2>4. /\ b = a + Width(s[a]) - 1
        /\ s[a] < 128 \/ s[a] \in 194..244
    BY <2>2, <2>3, CharRange
  <2>5. /\ t = n + Width(s[n]) - 1
        /\ \A j \in (n + 1)..t : s[j] \in 128..191
    BY CharRange
  <2>6. a # n
    BY <1>0, <2>4, <2>5
  <2>7. ~ (a \in (n + 1)..t)
    <3> SUFFICES ASSUME a \in (n + 1)..t
                 PROVE  FALSE
      OBVIOUS
    <3>1. s[a] \in 128..191
      BY <2>5, Zenon
    <3> HIDE DEF Bytes
    <3> DEFINE byte == s[a]
    <3> HIDE DEF byte
    <3>5. byte \in 128..191
      BY <3>1 DEF byte
    <3>2. CASE byte < 128
      BY <3>5, <3>2
    <3>3. CASE byte \in 194..244
      BY <3>5, <3>3
    <3>4. byte < 128 \/ byte \in 194..244
      BY <2>4 DEF byte
    <3> QED
      BY <3>2, <3>3, <3>4
  <2>8. a \in (t + 1)..i
    BY <1>0, <2>6, <2>7
  <2> QED
    BY <2>2, <2>8, Zenon
<1> QED
  BY <1>1, <1>2, Zenon DEF TextFrom

LEMMA TextBeginsWithChar ==
  ASSUME NEW s \in Bytes, NEW n \in 1..Len(s), TextFrom(s, n)
  PROVE  \E m \in n..Len(s) : IsChar(SubSeq(s, n, m))
<1>1. n \in n..Len(s)
  BY DEF Bytes
<1>2. PICK a \in n..n, b \in n..Len(s) : IsChar(SubSeq(s, a, b))
  BY <1>1, Zenon DEF TextFrom
<1>3. a = n
  BY DEF Bytes
<1> QED
  BY <1>2, <1>3, Zenon

\* A text is decoded as itself.
LEMMA KeepsText ==
  ASSUME NEW s \in Bytes, NEW n \in 1..(Len(s) + 1), TextFrom(s, n)
  PROVE  /\ Len(DecodedFrom(s)[n]) = Len(s) + 1 - n
         /\ \A i \in 1..(Len(s) + 1 - n) : DecodedFrom(s)[n][i] = s[n + i - 1]
<1> DEFINE f == DecodedFrom(s)
           Same(m) == /\ Len(f[m]) = Len(s) + 1 - m
                      /\ \A i \in 1..(Len(s) + 1 - m) : f[m][i] = s[m + i - 1]
           good == {m \in 1..(Len(s) + 1) : TextFrom(s, m) => Same(m)}
<1>1. Len(s) \in Nat /\ Len(s) + 1 \in Nat
  BY DEF Bytes
<1>2. ASSUME NEW m \in 1..(Len(s) + 1), \A o \in (m + 1)..(Len(s) + 1) : o \in good,
             TextFrom(s, m)
      PROVE  Same(m)
  <2>1. CASE m = Len(s) + 1
    <3>1. f[m] = <<>>
      BY <2>1, DecodedFromValues
    <3> HIDE DEF f
    <3> QED
      BY <1>1, <2>1, <3>1
  <2>2. CASE m # Len(s) + 1
    <3>1. m \in 1..Len(s)
      BY <1>1, <2>2
    <3> DEFINE t == Taken(s, m)
    <3> HIDE DEF f, t
    <3>2. /\ t \in m..Len(s) /\ f[t + 1] \in Bytes
          /\ Keeps(s, m, t, f) \/ Replaces(s, m, t, f)
      BY <3>1, DecodedStep, Zenon DEF f, t
    <3>3. Keeps(s, m, t, f)
      BY <1>2, <3>1, <3>2, TextBeginsWithChar, Zenon DEF Replaces
    <3>4. t + 1 \in (m + 1)..(Len(s) + 1)
      BY <1>1, <3>2
    <3>5. TextFrom(s, t + 1)
      BY <1>2, <3>1, <3>2, <3>3, TextStep, Zenon DEF Keeps
    <3>6. /\ Len(f[t + 1]) = Len(s) - t
          /\ \A i \in 1..(Len(s) - t) : f[t + 1][i] = s[t + i]
      <4>1. Same(t + 1)
        BY <1>2, <3>4, <3>5, Zenon
      <4> QED
        BY <1>1, <3>2, <4>1
    <3>7. Len(f[m]) = Len(s) + 1 - m
      BY <1>1, <3>2, <3>3, <3>6 DEF Keeps
    <3>8. ASSUME NEW i \in 1..(Len(s) + 1 - m)
          PROVE  f[m][i] = s[m + i - 1]
      <4>1. CASE i <= t - m + 1
        <5>1. i \in 1..(t - m + 1)
          BY <3>2, <4>1
        <5> QED
          BY <3>3, <5>1 DEF Keeps
      <4>2. CASE ~ (i <= t - m + 1)
        <5> DEFINE j == i - (t - m + 1)
        <5>1. j \in 1..(Len(s) - t) /\ t - m + 1 + j = i /\ t + j = m + i - 1
          BY <1>1, <3>2, <4>2
        <5> HIDE DEF j
        <5>2. f[m][t - m + 1 + j] = f[t + 1][j] /\ f[t + 1][j] = s[t + j]
          BY <3>3, <3>6, <5>1 DEF Keeps
        <5> QED
          BY <5>1, <5>2
      <4> QED
        BY <4>1, <4>2
    <3> QED
      BY <3>7, <3>8
  <2> QED
    BY <2>1, <2>2
<1> HIDE DEF Same, f
<1>3. \A m \in 1..(Len(s) + 1) : (\A o \in (m + 1)..(Len(s) + 1) : o \in good) => m \in good
  BY <1>2, Zenon
<1> HIDE DEF good
<1>4. \A m \in 1..(Len(s) + 1) : m \in good
  BY <1>1, <1>3, Downwards, Zenon
<1> QED
  BY <1>4, Zenon DEF good, Same, f
\* The replacement is a character.
LEMMA ReplacementIsChar ==
  ASSUME NEW s \in Bytes, NEW n \in 1..Len(s), NEW m \in n..Len(s), m = n + 2,
         s[n] = 239, s[n + 1] = 191, s[n + 2] = 189
  PROVE  IsChar(SubSeq(s, n, m))
<1>1. Width(239) = 3 /\ Second(239) = Continues /\ Continues = 128..191 /\ 239 \in 194..244
  BY DEF Width, Second, Continues
<1>2. n \in Nat /\ m - n + 1 = 3 /\ m = n + 3 - 1
  BY DEF Bytes
<1>3. ASSUME NEW i \in (n + 1)..m
      PROVE  s[i] \in (IF i = n + 1 THEN Second(s[n]) ELSE Continues)
  <2>1. i = n + 1 \/ i = n + 2
    BY <1>2
  <2>2. s[i] \in 128..191
    BY <2>1
  <2> QED
    BY <1>1, <2>2
<1>4. BeginsChar(SubSeq(s, n, m))
  <2>1. s[n] \in 194..244
    BY <1>1
  <2>2. m - n + 1 <= Width(s[n])
    BY <1>1, <1>2
  <2>3. \A i \in (n + 1)..m : s[i] \in (IF i = n + 1 THEN Second(s[n]) ELSE Continues)
    BY <1>3, Zenon
  <2>4. BeginsChar(SubSeq(s, n, m)) <=>
          /\ s[n] < 128 \/ s[n] \in 194..244
          /\ m - n + 1 <= Width(s[n])
          /\ \A i \in (n + 1)..m : s[i] \in (IF i = n + 1 THEN Second(s[n]) ELSE Continues)
    BY BeginsCharBytes
  <2> QED
    BY <2>1, <2>2, <2>3, <2>4, Zenon
<1>5. m = n + Width(s[n]) - 1
  BY <1>1, <1>2
<1> QED
  BY <1>4, <1>5, CharBytes

\* u leaves the text of s from position n on at place p of its own, for a byte
\* that is not ASCII.
Leaves(u, s, n, p) ==
  /\ p <= Len(u)
  /\ u[p] # s[n + p - 1]
  /\ u[p] >= 128
  /\ \A i \in 1..(p - 1) : u[i] = s[n + i - 1]

\* What is no text, and ends in ASCII, is decoded as something else of which
\* it is no beginning.
LEMMA LosesOther ==
  ASSUME NEW s \in Bytes, NEW n \in 1..Len(s), s[Len(s)] < 128, ~TextFrom(s, n)
  PROVE  \E p \in 1..(Len(s) + 1 - n) : Leaves(DecodedFrom(s)[n], s, n, p)
<1> DEFINE f == DecodedFrom(s)
           Lost(m) == \E p \in 1..(Len(s) + 1 - m) : Leaves(f[m], s, m, p)
           good == {m \in 1..Len(s) : ~TextFrom(s, m) => Lost(m)}
<1>1. Len(s) \in Nat
  BY DEF Bytes
<1>2. ASSUME NEW m \in 1..Len(s), \A o \in (m + 1)..Len(s) : o \in good,
             ~TextFrom(s, m)
      PROVE  Lost(m)
  <2> DEFINE t == Taken(s, m)
  <2> HIDE DEF f, t
  <2>1. /\ t \in m..Len(s) /\ f[m] \in Bytes /\ f[t + 1] \in Bytes
        /\ Keeps(s, m, t, f) \/ Replaces(s, m, t, f)
    BY DecodedStep, Zenon DEF f, t
  <2>2. CASE Keeps(s, m, t, f)
    <3>1. ~TextFrom(s, t + 1)
      BY <1>2, <2>1, <2>2, TextStep, Zenon DEF Keeps
    <3>2. t # Len(s)
      <4> SUFFICES ASSUME t = Len(s)
                   PROVE  TextFrom(s, t + 1)
        BY <3>1, Zenon
      <4>1. (t + 1)..Len(s) = {}
        BY <1>1
      <4> QED
        BY <4>1 DEF TextFrom
    <3>3. t + 1 \in (m + 1)..Len(s)
      BY <1>1, <2>1, <3>2
    <3>4. PICK q \in 1..(Len(s) + 1 - (t + 1)) : Leaves(f[t + 1], s, t + 1, q)
      BY <1>2, <3>1, <3>3, Zenon
    <3> DEFINE p == t - m + 1 + q
    <3>5. /\ p \in 1..(Len(s) + 1 - m) /\ m + p - 1 = t + q /\ t + 1 + q - 1 = t + q
          /\ p = t - m + 1 + q /\ q \in Nat
      BY <1>1, <2>1
    <3> HIDE DEF p
    <3>6. p <= Len(f[m]) /\ q \in 1..Len(f[t + 1])
      BY <1>1, <2>1, <2>2, <3>4, <3>5 DEF Keeps, Leaves, Bytes
    <3>7. f[m][p] = f[t + 1][q]
      BY <2>2, <3>5, <3>6 DEF Keeps
    <3>8. f[m][p] # s[m + p - 1] /\ f[m][p] >= 128
      BY <3>4, <3>5, <3>7 DEF Leaves
    <3>9. ASSUME NEW i \in 1..(p - 1)
          PROVE  f[m][i] = s[m + i - 1]
      <4>1. CASE i <= t - m + 1
        <5>1. i \in 1..(t - m + 1)
          BY <2>1, <4>1
        <5> QED
          BY <2>2, <5>1 DEF Keeps
      <4>2. CASE ~ (i <= t - m + 1)
        <5> DEFINE j == i - (t - m + 1)
        <5>1. /\ j \in 1..(q - 1) /\ t - m + 1 + j = i /\ t + 1 + j - 1 = m + i - 1
              /\ j <= q
          BY <1>1, <2>1, <3>5, <4>2
        <5> HIDE DEF j
        <5>2. j \in 1..Len(f[t + 1])
          BY <3>6, <5>1
        <5>3. f[m][t - m + 1 + j] = f[t + 1][j]
          BY <2>2, <5>2 DEF Keeps
        <5>4. f[t + 1][j] = s[t + 1 + j - 1]
          BY <3>4, <5>1 DEF Leaves
        <5> QED
          BY <5>1, <5>3, <5>4
      <4> QED
        BY <4>1, <4>2
    <3> QED
      BY <3>5, <3>6, <3>8, <3>9, Zenon DEF Leaves
  <2>3. CASE Replaces(s, m, t, f)
    <3>1. s[m] >= 128 /\ Len(f[m]) \in Nat /\ Len(f[m]) >= 3
      BY <2>1, <2>3 DEF Replaces, Bytes
    <3>2. f[m][1] = 239 /\ f[m][2] = 191 /\ f[m][3] = 189
      BY <2>3, Zenon DEF Replaces
    <3>3. \A i \in 1..Len(s) : s[i] \in Nat
      <4>1. \A i \in 1..Len(s) : s[i] \in Byte
        BY DEF Bytes
      <4> QED
        BY <4>1, AsciiOrNot
    <3>4. m # Len(s)
      <4>1. s[Len(s)] \in Nat /\ s[m] \in Nat
        BY <1>1, <3>3
      <4> QED
        BY <3>1, <4>1
    <3>5. CASE s[m] # 239
      <4>1. Leaves(f[m], s, m, 1)
        BY <1>1, <2>1, <3>1, <3>2, <3>5 DEF Leaves, Bytes
      <4>2. 1 \in 1..(Len(s) + 1 - m)
        BY <1>1
      <4> QED
        BY <4>1, <4>2, Zenon
    <3>6. CASE s[m] = 239 /\ s[m + 1] # 191
      <4>1. m + 1 - 1 = m /\ m + 2 - 1 = m + 1 /\ 2 \in 1..(Len(s) + 1 - m)
        BY <1>1, <3>4
      <4>2. 2 <= Len(f[m]) /\ f[m][2] # s[m + 2 - 1] /\ f[m][2] >= 128
        BY <3>1, <3>2, <3>6, <4>1
      <4>3. ASSUME NEW i \in 1..(2 - 1)
            PROVE  f[m][i] = s[m + i - 1]
        <5>1. i = 1
          OBVIOUS
        <5> QED
          BY <3>2, <3>6, <4>1, <5>1
      <4> QED
        BY <4>1, <4>2, <4>3, Zenon DEF Leaves
    <3>7. CASE s[m] = 239 /\ s[m + 1] = 191
      <4>1. m + 1 # Len(s)
        BY <3>7
      <4>2. m + 2 \in m..Len(s) /\ 3 \in 1..(Len(s) + 1 - m)
        BY <1>1, <3>4, <4>1
      <4>3. s[m + 2] # 189
        <5>1. ~IsChar(SubSeq(s, m, m + 2))
          BY <2>3, <4>2, Zenon DEF Replaces
        <5> QED
          BY <3>7, <4>2, <5>1, ReplacementIsChar, Zenon
      <4>4. m + 1 - 1 = m /\ m + 2 - 1 = m + 1 /\ m + 3 - 1 = m + 2
        BY <1>1
      <4>5. 3 <= Len(f[m]) /\ f[m][3] # s[m + 3 - 1] /\ f[m][3] >= 128
        BY <3>1, <3>2, <4>3, <4>4
      <4>6. ASSUME NEW i \in 1..(3 - 1)
            PROVE  f[m][i] = s[m + i - 1]
        <5>1. i = 1 \/ i = 2
          OBVIOUS
        <5> QED
          BY <3>2, <3>7, <4>4, <5>1
      <4> QED
        BY <4>2, <4>5, <4>6, Zenon DEF Leaves
    <3> QED
      BY <3>5, <3>6, <3>7, Zenon
  <2> QED
    BY <2>1, <2>2, <2>3, Zenon
<1> HIDE DEF Lost, f
<1>3. \A m \in 1..Len(s) : (\A o \in (m + 1)..Len(s) : o \in good) => m \in good
  BY <1>2, Zenon
<1> HIDE DEF good
<1>4. \A m \in 1..Len(s) : m \in good
  BY <1>1, <1>3, Downwards, Zenon
<1> QED
  BY <1>4, Zenon DEF good, Lost, f

\* ASCII in front of a text stays in front of it.
LEMMA AsciiPrefix ==
  ASSUME NEW s \in Bytes, NEW k \in 0..Len(s), \A i \in 1..k : s[i] < 128
  PROVE  /\ DecodedFrom(s)[k + 1] \in Bytes
         /\ Decoded(s) = SubSeq(s, 1, k) \o DecodedFrom(s)[k + 1]
<1> DEFINE f == DecodedFrom(s)
           rest == f[k + 1]
           Ahead(m) == /\ Len(f[m]) = k + 1 - m + Len(rest)
                       /\ \A i \in 1..(k + 1 - m) : f[m][i] = s[m + i - 1]
                       /\ \A i \in 1..Len(rest) : f[m][k + 1 - m + i] = rest[i]
           good == {m \in 1..(k + 1) : Ahead(m)}
<1>1. Len(s) \in Nat /\ k \in Nat /\ k + 1 \in Nat /\ k + 1 \in 1..(Len(s) + 1)
  BY DEF Bytes
<1>2. rest \in Bytes
  BY <1>1, DecodedFromType
<1>3. ASSUME NEW m \in 1..(k + 1), \A o \in (m + 1)..(k + 1) : o \in good
      PROVE  Ahead(m)
  <2>1. CASE m = k + 1
    <3>1. k + 1 - m = 0 /\ Len(rest) \in Nat /\ f[m] = rest
      BY <1>1, <1>2, <2>1 DEF Bytes
    <3> HIDE DEF f, rest
    <3>2. Len(f[m]) = k + 1 - m + Len(rest)
      BY <3>1
    <3>3. \A i \in 1..(k + 1 - m) : f[m][i] = s[m + i - 1]
      BY <3>1
    <3>4. ASSUME NEW i \in 1..Len(rest)
          PROVE  f[m][k + 1 - m + i] = rest[i]
      <4>1. k + 1 - m + i = i
        BY <3>1
      <4> QED
        BY <3>1, <4>1, Zenon
    <3> QED
      BY <3>2, <3>3, <3>4, Zenon
  <2>2. CASE m # k + 1
    <3>1. m \in 1..Len(s) /\ m \in 1..k
      BY <1>1, <2>2
    <3>2. Taken(s, m) = m /\ Piece(s, m) = <<s[m]>>
      BY <3>1, AsciiPiece
    <3>3. f[m] = <<s[m]>> \o f[m + 1]
      BY <3>1, <3>2, DecodedFromValues
    <3>4. f[m + 1] \in Bytes /\ s[m] \in Byte
      <4>1. m + 1 \in 1..(Len(s) + 1)
        BY <1>1, <3>1
      <4> QED
        BY <3>1, <4>1, DecodedFromType DEF Bytes
    <3> HIDE DEF f, rest
    <3>5. Ahead(m + 1)
      <4>1. m + 1 \in (m + 1)..(k + 1)
        BY <1>1, <3>1
      <4> HIDE DEF Ahead
      <4> QED
        BY <1>3, <4>1, Zenon
    <3>6. /\ Len(f[m]) = 1 + Len(f[m + 1])
          /\ f[m][1] = s[m]
          /\ \A i \in 1..Len(f[m + 1]) : f[m][1 + i] = f[m + 1][i]
      BY <3>3, <3>4 DEF Bytes
    <3>7. /\ Len(f[m + 1]) = k - m + Len(rest)
          /\ \A i \in 1..(k - m) : f[m + 1][i] = s[m + i]
          /\ \A i \in 1..Len(rest) : f[m + 1][k - m + i] = rest[i]
      <4>1. k + 1 - (m + 1) = k - m /\ \A i \in Int : m + 1 + i - 1 = m + i
        BY <1>1, <3>1
      <4> QED
        BY <1>1, <3>1, <3>5, <4>1
    <3>8. Len(rest) \in Nat
      BY <1>2 DEF Bytes
    <3>9. Len(f[m]) = k + 1 - m + Len(rest)
      BY <1>1, <3>1, <3>6, <3>7, <3>8
    <3>10. ASSUME NEW i \in 1..(k + 1 - m)
           PROVE  f[m][i] = s[m + i - 1]
      <4>1. CASE i = 1
        BY <1>1, <3>1, <3>6, <4>1
      <4>2. CASE i # 1
        <5> DEFINE j == i - 1
        <5>1. j \in 1..(k - m) /\ j \in 1..Len(f[m + 1]) /\ i = 1 + j /\ m + j = m + i - 1
          BY <1>1, <3>1, <3>7, <3>8, <4>2
        <5> HIDE DEF j
        <5> QED
          BY <3>6, <3>7, <5>1
      <4> QED
        BY <4>1, <4>2
    <3>11. ASSUME NEW i \in 1..Len(rest)
           PROVE  f[m][k + 1 - m + i] = rest[i]
      <4> DEFINE j == k - m + i
      <4>1. j \in 1..Len(f[m + 1]) /\ j = k - m + i /\ 1 + j = k + 1 - m + i
        BY <1>1, <3>1, <3>7, <3>8
      <4> HIDE DEF j
      <4>2. f[m][1 + j] = f[m + 1][j] /\ f[m + 1][k - m + i] = rest[i]
        BY <3>6, <3>7, <4>1
      <4> QED
        BY <4>1, <4>2
    <3> QED
      BY <3>9, <3>10, <3>11
  <2> QED
    BY <2>1, <2>2
<1> HIDE DEF Ahead
<1>4. \A m \in 1..(k + 1) : (\A o \in (m + 1)..(k + 1) : o \in good) => m \in good
  BY <1>3, Zenon
<1> HIDE DEF good
<1>5. \A m \in 1..(k + 1) : m \in good
  BY <1>1, <1>4, Downwards, Zenon
<1>6. Ahead(1) /\ f[1] \in Bytes
  BY <1>1, <1>5, DecodedFromType DEF good
<1> DEFINE u == f[1]
           v == SubSeq(s, 1, k) \o rest
<1> HIDE DEF f, rest
<1>7. /\ Len(u) = k + Len(rest)
      /\ \A i \in 1..k : u[i] = s[i]
      /\ \A i \in 1..Len(rest) : u[k + i] = rest[i]
  BY <1>1, <1>2, <1>6 DEF Ahead, Bytes
<1>8. /\ v \in Bytes
      /\ Len(v) = k + Len(rest)
      /\ \A i \in 1..k : v[i] = s[i]
      /\ \A i \in 1..Len(rest) : v[k + i] = rest[i]
  BY <1>1, <1>2 DEF Bytes
<1> HIDE DEF u, v
<1>9. u \in Bytes /\ Len(rest) \in Nat
  BY <1>2, <1>6 DEF u, Bytes
<1>10. ASSUME NEW i \in 1..Len(u)
       PROVE  u[i] = v[i]
  <2>1. CASE i <= k
    BY <1>1, <1>7, <1>8, <2>1
  <2>2. CASE ~ (i <= k)
    <3> DEFINE j == i - k
    <3>1. j \in 1..Len(rest) /\ i = k + j
      BY <1>1, <1>7, <1>9, <2>2
    <3> HIDE DEF j
    <3> QED
      BY <1>7, <1>8, <3>1
  <2> QED
    BY <2>1, <2>2
<1>11. u = v
  BY <1>7, <1>8, <1>9, <1>10, SameBytes
<1> QED
  BY <1>2, <1>11, Zenon DEF u, v, rest, f, Decoded
-----------------------------------------------------------------------------
(* White space and separators *)

LEMMA OneByteOfWhite ==
  ASSUME NEW b \in Byte
  PROVE  <<b>> \in White <=> b \in 9..13 \cup {32}
BY DEF White, Byte

\* A white character is one ASCII byte, or bytes that are not ASCII.
LEMMA WhiteBytes ==
  ASSUME NEW w \in White
  PROVE  /\ w \in Bytes /\ Len(w) \in 1..3
         /\ Len(w) = 1 \/ \A i \in 1..Len(w) : w[i] >= 128
<1> DEFINE Ok(v) == /\ v \in Bytes /\ Len(v) \in 1..3
                    /\ Len(v) = 1 \/ \A i \in 1..Len(v) : v[i] >= 128
<1>1. ASSUME NEW b \in 0..255
      PROVE  Ok(<<b>>)
  BY DEF Bytes, Byte
<1>2. ASSUME NEW b \in 128..255, NEW c \in 128..255
      PROVE  Ok(<<b, c>>)
  <2>1. <<b, c>> \in Bytes
    BY DEF Bytes, Byte
  <2> QED
    BY <2>1
<1>3. ASSUME NEW b \in 128..255, NEW c \in 128..255, NEW d \in 128..255
      PROVE  Ok(<<b, c, d>>)
  <2>1. <<b, c, d>> \in Bytes
    BY DEF Bytes, Byte
  <2> QED
    BY <2>1
<1>4. \/ \E b \in 0..255 : w = <<b>>
      \/ \E b \in 128..255, c \in 128..255 : w = <<b, c>>
      \/ \E b \in 128..255, c \in 128..255, d \in 128..255 : w = <<b, c, d>>
  <2>1. CASE w \in {<<b>> : b \in 9..13 \cup {32}}
    <3>1. PICK b \in 9..13 \cup {32} : w = <<b>>
      BY <2>1, Zenon
    <3>2. b \in 0..255
      OBVIOUS
    <3> QED
      BY <3>1, <3>2, Zenon
  <2>2. CASE w \in {<<194, 133>>, <<194, 160>>, <<225, 154, 128>>}
    <3>1. 194 \in 128..255 /\ 133 \in 128..255 /\ 160 \in 128..255 /\ 225 \in 128..255
          /\ 154 \in 128..255 /\ 128 \in 128..255
      OBVIOUS
    <3>2. CASE w = <<194, 133>>
      BY <3>1, <3>2, Zenon
    <3>3. CASE w = <<194, 160>>
      BY <3>1, <3>3, Zenon
    <3>4. CASE w = <<225, 154, 128>>
      BY <3>1, <3>4, Zenon
    <3>5. w = <<194, 133>> \/ w = <<194, 160>> \/ w = <<225, 154, 128>>
      BY <2>2, Zenon
    <3> QED
      BY <3>2, <3>3, <3>4, <3>5, Zenon
  <2>3. CASE w \in {<<226, 128, b>> : b \in 128..138 \cup {168, 169, 175}}
    <3>1. PICK e \in 128..138 \cup {168, 169, 175} : w = <<226, 128, e>>
      BY <2>3, Zenon
    <3>2. 226 \in 128..255 /\ 128 \in 128..255 /\ e \in 128..255
      OBVIOUS
    <3>3. \E b \in 128..255, c \in 128..255, d \in 128..255 : w = <<b, c, d>>
      BY <3>1, <3>2
    <3> QED
      BY <3>3, Zenon
  <2>4. CASE w \in {<<226, 129, 159>>, <<227, 128, 128>>}
    <3>1. 226 \in 128..255 /\ 129 \in 128..255 /\ 159 \in 128..255
          /\ 227 \in 128..255 /\ 128 \in 128..255
      OBVIOUS
    <3>2. CASE w = <<226, 129, 159>>
      BY <3>1, <3>2, Zenon
    <3>3. CASE w = <<227, 128, 128>>
      BY <3>1, <3>3, Zenon
    <3>4. w = <<226, 129, 159>> \/ w = <<227, 128, 128>>
      BY <2>4, Zenon
    <3> QED
      BY <3>2, <3>3, <3>4, Zenon
  <2>5. \/ w \in {<<b>> : b \in 9..13 \cup {32}}
        \/ w \in {<<194, 133>>, <<194, 160>>, <<225, 154, 128>>}
        \/ w \in {<<226, 128, b>> : b \in 128..138 \cup {168, 169, 175}}
        \/ w \in {<<226, 129, 159>>, <<227, 128, 128>>}
    BY Zenon DEF White
  <2> QED
    BY <2>1, <2>2, <2>3, <2>4, <2>5, Zenon
<1> HIDE DEF Ok
<1>5. Ok(w)
  <2>1. CASE \E b \in 0..255 : w = <<b>>
    BY <1>1, <2>1, Zenon
  <2>2. CASE \E b \in 128..255, c \in 128..255 : w = <<b, c>>
    BY <1>2, <2>2, Zenon
  <2>3. CASE \E b \in 128..255, c \in 128..255, d \in 128..255 : w = <<b, c, d>>
    <3>1. PICK b \in 128..255, c \in 128..255, d \in 128..255 : w = <<b, c, d>>
      BY <2>3, Zenon
    <3>2. Ok(<<b, c, d>>)
      BY <1>3, Zenon
    <3> QED
      BY <3>1, <3>2, Zenon
  <2> QED
    BY <1>4, <2>1, <2>2, <2>3, Zenon
<1> QED
  BY <1>5 DEF Ok

\* An ASCII byte belongs to white space if it is white by itself.
LEMMA AsciiInWhite ==
  ASSUME NEW s \in Bytes, NEW n \in 1..Len(s), s[n] < 128
  PROVE  InWhite(s, n) <=> <<s[n]>> \in White
<1>0. Len(s) \in Nat /\ s[n] \in Byte
  BY DEF Bytes
<1>1. ASSUME InWhite(s, n)
      PROVE  <<s[n]>> \in White
  <2>1. PICK w \in White, m \in 1..n :
          /\ n < m + Len(w) /\ m + Len(w) - 1 <= Len(s)
          /\ SubSeq(s, m, m + Len(w) - 1) = w
    BY <1>1, Zenon DEF InWhite
  <2>2. w \in Bytes /\ Len(w) \in 1..3 /\ (Len(w) = 1 \/ \A i \in 1..Len(w) : w[i] >= 128)
    BY WhiteBytes
  <2>3. \A i \in 1..Len(w) : w[i] = s[m + i - 1]
    BY <1>0, <2>1, <2>2 DEF Bytes
  <2>4. Len(w) = 1
    <3> SUFFICES ASSUME \A i \in 1..Len(w) : w[i] >= 128
                 PROVE  FALSE
      BY <2>2, Zenon
    <3>1. n - m + 1 \in 1..Len(w) /\ m + (n - m + 1) - 1 = n
      BY <1>0, <2>1, <2>2
    <3>2. s[n] >= 128
      BY <2>3, <3>1
    <3>3. s[n] \in Nat
      BY <1>0, AsciiOrNot
    <3> QED
      BY <3>2, <3>3
  <2>5. m = n /\ w[1] = s[n]
    BY <1>0, <2>1, <2>3, <2>4
  <2>6. <<s[n]>> \in Bytes /\ Len(<<s[n]>>) = 1 /\ <<s[n]>>[1] = s[n]
    BY <1>0 DEF Bytes
  <2> DEFINE v == <<s[n]>>
  <2>7. v \in Bytes /\ Len(v) = 1 /\ v[1] = s[n]
    BY <2>6
  <2> HIDE DEF v
  <2>8. v = w
    BY <2>2, <2>4, <2>5, <2>7, SameBytes
  <2> QED
    BY <2>8 DEF v
<1>2. ASSUME <<s[n]>> \in White
      PROVE  InWhite(s, n)
  <2>1. Taken(s, n) = n /\ Piece(s, n) = <<s[n]>> /\ IsChar(SubSeq(s, n, n))
    <3>1. Taken(s, n) = n /\ Piece(s, n) = <<s[n]>>
      BY AsciiPiece
    <3>2. ~ (s[n] >= 128)
      BY <1>0, AsciiOrNot
    <3> QED
      BY <3>1, <3>2, PieceCases
  <2>2. SubSeq(s, n, n) = <<s[n]>>
    BY <2>1, Zenon DEF Piece
  <2>3. Len(<<s[n]>>) = 1
    OBVIOUS
  <2>4. n \in 1..n /\ n < n + 1 /\ n + 1 - 1 <= Len(s) /\ n + 1 - 1 = n
    BY <1>0
  <2> QED
    BY <1>2, <2>2, <2>3, <2>4, Zenon DEF InWhite
<1> QED
  BY <1>1, <1>2

\* Two colons next to each other.
LEMMA SplitsBytes ==
  ASSUME NEW s \in Bytes
  PROVE  /\ Splits(s) \in SUBSET (1..(Len(s) - 1))
         /\ \A n \in 1..(Len(s) - 1) :
              /\ n \in Splits(s) <=> s[n] = 58 /\ s[n + 1] = 58
              /\ SubSeq(s, n, n + 1) = <<58, 58>> <=> s[n] = 58 /\ s[n + 1] = 58
<1>0. Len(s) \in Nat /\ Len(Separator) = 2
  BY DEF Bytes, Separator
<1>1. ASSUME NEW n \in 1..(Len(s) - 1)
      PROVE  SubSeq(s, n, n + 1) = <<58, 58>> <=> s[n] = 58 /\ s[n + 1] = 58
  <2> DEFINE u == SubSeq(s, n, n + 1)
             v == <<58, 58>>
  <2>1. u \in Bytes /\ Len(u) = 2 /\ u[1] = s[n] /\ u[2] = s[n + 1]
    BY <1>0 DEF Bytes
  <2>2. v \in Bytes /\ Len(v) = 2 /\ v[1] = 58 /\ v[2] = 58
    BY DEF Bytes, Byte
  <2> HIDE DEF u, v
  <2>3. u[1] = 58 /\ u[2] = 58 => u = v
    <3> SUFFICES ASSUME u[1] = 58, u[2] = 58
                 PROVE  u = v
      OBVIOUS
    <3>1. \A i \in 1..Len(u) : i = 1 \/ i = 2
      BY <2>1
    <3>2. \A i \in 1..Len(u) : u[i] = v[i]
      BY <2>2, <3>1
    <3> QED
      BY <2>1, <2>2, <3>2, SameBytes
  <2>4. u = v <=> s[n] = 58 /\ s[n + 1] = 58
    BY <2>1, <2>2, <2>3
  <2> QED
    BY <2>4 DEF u, v
<1>2. Splits(s) = {n \in 1..(Len(s) - 1) : SubSeq(s, n, n + 1) = <<58, 58>>}
  <2>1. Len(s) - Len(Separator) + 1 = Len(s) - 1 /\ \A n \in 1..(Len(s) - 1) : n + Len(Separator) - 1 = n + 1
    BY <1>0
  <2>2. Separator = <<58, 58>>
    BY DEF Separator
  <2> QED
    BY <2>1, <2>2 DEF Splits
<1> QED
  BY <1>1, <1>2

\* What stands before the first separator is a beginning of the text.
LEMMA BeforeIsPrefix ==
  ASSUME NEW s \in Bytes
  PROVE  \E b \in 0..Len(s) :
           /\ Before(s) = SubSeq(s, 1, b)
           /\ b = Len(s) <=> Splits(s) = {}
<1>0. Len(s) \in Nat
  BY DEF Bytes
<1>1. CASE Splits(s) = {}
  <2>1. SubSeq(s, 1, Len(s)) = s
    BY DEF Bytes
  <2>2. Len(s) \in 0..Len(s)
    BY <1>0
  <2> QED
    BY <1>1, <2>1, <2>2, Zenon DEF Before
<1>2. CASE Splits(s) # {}
  <2>1. Splits(s) \in SUBSET (1..(Len(s) - 1))
    BY SplitsBytes
  <2>2. First(Splits(s)) \in 1..(Len(s) - 1)
    <3>1. Splits(s) \in SUBSET Nat
      BY <2>1
    <3> QED
      BY <1>2, <2>1, <3>1, FirstIsLeast
  <2>3. First(Splits(s)) - 1 \in 0..Len(s) /\ First(Splits(s)) - 1 # Len(s)
    BY <1>0, <2>2
  <2> QED
    BY <1>2, <2>3, Zenon DEF Before
<1> QED
  BY <1>1, <1>2
\* A beginning without a separator in it, nor at its end, can be set aside.
LEMMA BeforeBehindPrefix ==
  ASSUME NEW p \in Bytes, NEW s \in Bytes, NEW u \in Bytes, u = p \o s,
         \A n \in 1..Len(p) : ~ (u[n] = 58 /\ u[n + 1] = 58)
  PROVE  Before(u) = p \o Before(s)
<1>0. Len(p) \in Nat /\ Len(s) \in Nat /\ Len(u) = Len(p) + Len(s)
  BY DEF Bytes
<1>1. /\ \A n \in 1..Len(p) : u[n] = p[n]
      /\ \A n \in 1..Len(s) : u[Len(p) + n] = s[n]
  BY DEF Bytes
<1>2. ASSUME NEW n \in Splits(u)
      PROVE  n - Len(p) \in Splits(s) /\ n \in Nat
  <2>1. n \in 1..(Len(u) - 1) /\ u[n] = 58 /\ u[n + 1] = 58
    BY SplitsBytes
  <2>2. ~ (n \in 1..Len(p))
    BY <2>1
  <2> DEFINE i == n - Len(p)
  <2>3. i \in 1..(Len(s) - 1) /\ i \in 1..Len(s) /\ i + 1 \in 1..Len(s)
        /\ Len(p) + i = n /\ Len(p) + (i + 1) = n + 1
    BY <1>0, <2>1, <2>2
  <2> HIDE DEF i
  <2>4. s[i] = 58 /\ s[i + 1] = 58
    BY <1>1, <2>1, <2>3
  <2>5. i \in Splits(s)
    BY <2>3, <2>4, SplitsBytes
  <2> QED
    BY <2>1, <2>5 DEF i
<1>3. ASSUME NEW i \in Splits(s)
      PROVE  Len(p) + i \in Splits(u) /\ i \in Nat
  <2>1. i \in 1..(Len(s) - 1) /\ s[i] = 58 /\ s[i + 1] = 58
    BY SplitsBytes
  <2> DEFINE n == Len(p) + i
  <2>2. n \in 1..(Len(u) - 1) /\ i \in 1..Len(s) /\ i + 1 \in 1..Len(s)
        /\ n = Len(p) + i /\ n + 1 = Len(p) + (i + 1)
    BY <1>0, <2>1
  <2> HIDE DEF n
  <2>3. u[n] = 58 /\ u[n + 1] = 58
    BY <1>1, <2>1, <2>2
  <2>4. n \in Splits(u)
    BY <2>2, <2>3, SplitsBytes
  <2> QED
    BY <2>1, <2>4 DEF n
<1>4. CASE Splits(s) = {}
  <2>1. Splits(u) = {}
    BY <1>2, <1>4
  <2> QED
    BY <1>4, <2>1 DEF Before
<1>5. CASE Splits(s) # {}
  <2> DEFINE a == First(Splits(s))
             c == First(Splits(u))
  <2>1. a \in Splits(s) /\ \A i \in Splits(s) : a <= i
    <3>1. Splits(s) \in SUBSET Nat
      BY <1>3
    <3> QED
      BY <1>5, <3>1, FirstIsLeast
  <2>2. Splits(u) # {}
    BY <1>3, <1>5
  <2>3. c \in Splits(u) /\ \A n \in Splits(u) : c <= n
    <3>1. Splits(u) \in SUBSET Nat
      BY <1>2
    <3> QED
      BY <2>2, <3>1, FirstIsLeast
  <2> HIDE DEF a, c
  <2>4. c = Len(p) + a
    <3>1. a <= c - Len(p) /\ c <= Len(p) + a /\ a \in Nat /\ c \in Nat
      BY <1>2, <1>3, <2>1, <2>3
    <3>2. \A i \in Nat, n \in Nat, o \in Nat : i <= n - o /\ n <= o + i => n = o + i
      OBVIOUS
    <3> QED
      BY <1>0, <3>1, <3>2, Zenon
  <2>5. a \in 1..(Len(s) - 1)
    BY <2>1, SplitsBytes
  <2> DEFINE v == p \o SubSeq(s, 1, a - 1)
             w == SubSeq(u, 1, c - 1)
  <2>6. /\ w \in Bytes /\ Len(w) = Len(p) + a - 1
        /\ \A n \in 1..(Len(p) + a - 1) : w[n] = u[n]
    BY <1>0, <2>4, <2>5 DEF Bytes
  <2>7. /\ v \in Bytes /\ Len(v) = Len(p) + a - 1
        /\ \A n \in 1..Len(p) : v[n] = p[n]
        /\ \A n \in 1..(a - 1) : v[Len(p) + n] = s[n]
    BY <1>0, <2>5 DEF Bytes
  <2> HIDE DEF v, w
  <2>8. ASSUME NEW n \in 1..Len(v)
        PROVE  v[n] = w[n]
    <3>1. CASE n <= Len(p)
      BY <1>0, <1>1, <2>6, <2>7, <3>1
    <3>2. CASE ~ (n <= Len(p))
      <4> DEFINE i == n - Len(p)
      <4>1. i \in 1..(a - 1) /\ i \in 1..Len(s) /\ n = Len(p) + i
        BY <1>0, <2>5, <2>7, <3>2
      <4> HIDE DEF i
      <4> QED
        BY <1>1, <2>6, <2>7, <4>1
    <3> QED
      BY <3>1, <3>2
  <2>9. v = w
    BY <2>6, <2>7, <2>8, SameBytes
  <2> QED
    BY <1>5, <2>2, <2>9, Zenon DEF Before, v, w, a, c
<1> QED
  BY <1>4, <1>5

-----------------------------------------------------------------------------
(* Numbers *)

\* BigInteger reads some of the first bytes, and at least one.
LEMMA NumberIsPrefix ==
  ASSUME NEW s \in Bytes, s # <<>>
  PROVE  \E n \in 1..Len(s) : Number(s) = SubSeq(s, 1, n)
<1>1. Len(s) \in 1..Len(s)
  BY DEF Bytes
<1>2. (Len(s) + 1)..Len(s) = {}
  BY DEF Bytes
<1>3. Len(s) \in Needed(s)
  BY <1>1, <1>2 DEF Needed
<1>4. Needed(s) \in SUBSET Nat
  BY DEF Needed
<1>5. First(Needed(s)) \in 1..Len(s)
  <2>1. First(Needed(s)) \in Needed(s)
    BY <1>3, <1>4, FirstIsLeast
  <2> QED
    BY <2>1 DEF Needed
<1> QED
  BY <1>5, Zenon DEF Number

\* A number of a filter has no byte that it does not need.
LEMMA NumberOfId ==
  ASSUME NEW id \in FilterIds
  PROVE  Number(id) = id
<1>0. /\ id \in Bytes /\ Len(id) \in Nat /\ Len(id) >= 1
      /\ Len(id) > 1 => ~RepeatsSign(id, Len(id))
  <2>1. id \in Bytes /\ Len(id) \in 1..127 /\ (Len(id) > 1 => ~RepeatsSign(id, Len(id)))
    BY TokenAssumption, Zenon DEF Bytes
  <2>2. Len(id) \in 1..127
    BY <2>1, Zenon
  <2>3. \A n \in 1..127 : n \in Nat /\ n >= 1
    OBVIOUS
  <2> QED
    BY <2>1, <2>2, <2>3, Zenon
<1>1. Len(id) \in Needed(id)
  <2>1. (Len(id) + 1)..Len(id) = {}
    BY <1>0
  <2>2. Len(id) \in 1..Len(id)
    BY <1>0
  <2> QED
    BY <2>1, <2>2 DEF Needed
<1>2. ASSUME NEW n \in Needed(id)
      PROVE  n = Len(id)
  <2>1. n \in 1..Len(id) /\ \A m \in (n + 1)..Len(id) : RepeatsSign(id, m)
    BY DEF Needed
  <2>2. CASE n # Len(id)
    <3>1. Len(id) \in (n + 1)..Len(id) /\ Len(id) > 1
      BY <1>0, <2>1, <2>2
    <3> QED
      BY <1>0, <2>1, <3>1, Zenon
  <2> QED
    BY <2>2
<1>3. Needed(id) \in SUBSET Nat
  BY DEF Needed
<1>4. First(Needed(id)) = Len(id)
  BY <1>1, <1>2, <1>3, FirstIsLeast
<1>5. id # <<>> /\ SubSeq(id, 1, Len(id)) = id
  <2>1. Len(id) # 0
    BY <1>0
  <2>2. id \in Bytes
    BY <1>0
  <2>3. SubSeq(id, 1, Len(id)) = id
    BY <2>2 DEF Bytes
  <2>4. id # <<>>
    BY <2>1
  <2> QED
    BY <2>3, <2>4
<1> QED
  BY <1>4, <1>5, Zenon DEF Number

\* What is read: bytes from the fifth on, as many as the first four say or as
\* there are.
LEMMA DeserializedCases ==
  ASSUME NEW s \in Bytes
  PROVE  \/ Deserialized(s) = Threw /\ (Len(s) < 4 \/ s[4] >= 128)
         \/ /\ Len(s) >= 4 /\ s[4] < 128
            /\ \E u \in Bytes :
                 /\ Deserialized(s) = Number(u)
                 /\ Len(u) <= Len(s) - 4
                 /\ \A i \in 1..Len(u) : u[i] = s[4 + i]
                 /\ s[2] = 0 /\ s[3] = 0 /\ s[4] = 0 =>
                      Len(u) = IF s[1] < Len(s) - 4 THEN s[1] ELSE Len(s) - 4
<1>1. CASE Len(s) < 4 \/ s[4] >= 128
  <2>1. Deserialized(s) = Threw
    BY <1>1, Zenon DEF Deserialized
  <2> QED
    BY <1>1, <2>1, Zenon
<1>2. CASE ~ (Len(s) < 4 \/ s[4] >= 128)
  <2> DEFINE n == ReadInt32(s)
             data == SubSeq(s, 5, Len(s))
             u == ReadBytes(data, n)
  <2>1. Len(s) \in Nat /\ Len(s) >= 4
    BY <1>2 DEF Bytes
  <2>2. s[1] \in Byte /\ s[2] \in Byte /\ s[3] \in Byte /\ s[4] \in Byte
    BY <2>1 DEF Bytes
  <2>3. s[1] \in Nat /\ s[2] \in Nat /\ s[3] \in Nat /\ s[4] \in Nat /\ s[4] < 128
    BY <1>2, <2>2, AsciiOrNot
  <2>4. n \in Nat /\ (s[2] = 0 /\ s[3] = 0 /\ s[4] = 0 => n = s[1])
    BY <2>3 DEF ReadInt32
  <2>5. /\ data \in Bytes /\ Len(data) = Len(s) - 4
        /\ \A i \in 1..Len(data) : data[i] = s[4 + i]
    <3>1. 5 \in 1..(Len(s) + 1) /\ Len(s) - 5 + 1 = Len(s) - 4 /\ \A i \in Int : 5 + i - 1 = 4 + i
      BY <2>1
    <3>2. /\ data \in Bytes /\ Len(data) = Len(s) - 5 + 1
          /\ \A i \in 1..(Len(s) - 5 + 1) : data[i] = s[5 + i - 1]
      BY <3>1, TailBytes
    <3> HIDE DEF data
    <3> QED
      BY <3>1, <3>2
  <2> HIDE DEF n, data
  <2>6. /\ u \in Bytes /\ Len(u) = IF n < Len(data) THEN n ELSE Len(data)
        /\ \A i \in 1..Len(u) : u[i] = data[i]
    BY <2>4, <2>5 DEF Bytes, ReadBytes
  <2>7. Deserialized(s) = Number(u)
    BY <1>2, Zenon DEF Deserialized, data, n
  <2> HIDE DEF u
  <2>8. Len(u) <= Len(s) - 4 /\ Len(data) \in Nat
    BY <2>1, <2>4, <2>5, <2>6
  <2>9. \A i \in 1..Len(u) : u[i] = s[4 + i]
    <3>1. \A i \in 1..Len(u) : i \in 1..Len(data)
      BY <2>1, <2>5, <2>8
    <3> QED
      BY <2>5, <2>6, <3>1
  <2>10. s[2] = 0 /\ s[3] = 0 /\ s[4] = 0 =>
           Len(u) = IF s[1] < Len(s) - 4 THEN s[1] ELSE Len(s) - 4
    BY <2>4, <2>5, <2>6
  <2> QED
    BY <2>1, <2>3, <2>6, <2>7, <2>8, <2>9, <2>10, Zenon
<1> QED
  BY <1>1, <1>2, Zenon
-----------------------------------------------------------------------------
(* Tokens *)

LEMMA IdBytes ==
  ASSUME NEW id \in FilterIds
  PROVE  /\ id \in Bytes /\ Len(id) \in Nat /\ Len(id) >= 1 /\ Len(id) < 128
         /\ id[Len(id)] < 128 /\ id[Len(id)] \in Byte
<1>1. id \in Bytes /\ Len(id) \in 1..127 /\ id[Len(id)] < 128
  BY TokenAssumption, Zenon DEF Bytes
<1>2. \A n \in 1..127 : n \in Nat /\ n >= 1 /\ n < 128 /\ n \in 1..n
  OBVIOUS
<1>3. \A s \in Bytes : \A n \in 1..Len(s) : s[n] \in Byte
  BY DEF Bytes
<1> QED
  BY <1>1, <1>2, <1>3, Zenon

\* What becomes of id behind front.
Rest(front, id) == DecodedFrom(front \o id)[Len(front) + 1]

\* Behind ASCII, a text is decoded as itself, and what is no text as something
\* else.
LEMMA DecodedBehind ==
  ASSUME NEW front \in Bytes, \A i \in 1..Len(front) : front[i] < 128,
         NEW id \in Bytes, Len(id) >= 1, id[Len(id)] < 128
  PROVE  /\ Rest(front, id) \in Bytes
         /\ Decoded(front \o id) = front \o Rest(front, id)
         /\ IsText(id) => Rest(front, id) = id
         /\ ~IsText(id) => \E p \in 1..Len(id) : Leaves(Rest(front, id), id, 1, p)
<1> DEFINE k == Len(front)
           n == Len(id)
           s == front \o id
           E == Rest(front, id)
<1>0. E = DecodedFrom(s)[k + 1]
  BY Zenon DEF Rest
<1>1. /\ s \in Bytes /\ k \in Nat /\ n \in Nat /\ n >= 1 /\ Len(s) = k + n
      /\ \A i \in 1..k : s[i] = front[i]
      /\ \A i \in 1..n : s[k + i] = id[i]
  BY DEF Bytes
<1> HIDE DEF s, E
<1>2. E \in Bytes /\ Decoded(s) = front \o E
  <2>1. k \in 0..Len(s) /\ \A i \in 1..k : s[i] < 128
    BY <1>1
  <2>2. E \in Bytes /\ Decoded(s) = SubSeq(s, 1, k) \o E
    BY <1>0, <1>1, <2>1, AsciiPrefix
  <2>3. SubSeq(s, 1, k) = front
    <3> DEFINE u == SubSeq(s, 1, k)
    <3>1. u \in Bytes /\ Len(u) = k /\ \A i \in 1..k : u[i] = s[i]
      BY <1>1 DEF Bytes
    <3> HIDE DEF u
    <3>2. u = front
      BY <1>1, <3>1, SameBytes
    <3> QED
      BY <3>2 DEF u
  <2> QED
    BY <2>2, <2>3
<1>3. ASSUME NEW a \in 1..n, NEW b \in a..n
      PROVE  SubSeq(s, k + a, k + b) = SubSeq(id, a, b)
  <2> DEFINE u == SubSeq(s, k + a, k + b)
             v == SubSeq(id, a, b)
  <2>1. /\ u \in Bytes /\ Len(u) = b - a + 1
        /\ \A i \in 1..(b - a + 1) : u[i] = s[k + a + i - 1]
    BY <1>1 DEF Bytes
  <2>2. /\ v \in Bytes /\ Len(v) = b - a + 1
        /\ \A i \in 1..(b - a + 1) : v[i] = id[a + i - 1]
    BY <1>1 DEF Bytes
  <2> HIDE DEF u, v
  <2>3. ASSUME NEW i \in 1..(b - a + 1)
        PROVE  u[i] = v[i]
    <3>1. a + i - 1 \in 1..n /\ k + (a + i - 1) = k + a + i - 1
      BY <1>1
    <3>2. s[k + (a + i - 1)] = id[a + i - 1]
      BY <1>1, <3>1
    <3> QED
      BY <2>1, <2>2, <3>1, <3>2
  <2>4. u = v
    BY <2>1, <2>2, <2>3, SameBytes
  <2> QED
    BY <2>4 DEF u, v
<1>4. IsText(id) <=> TextFrom(s, k + 1)
  <2>1. ASSUME IsText(id), NEW m \in (k + 1)..Len(s)
        PROVE  \E a \in (k + 1)..m, b \in m..Len(s) : IsChar(SubSeq(s, a, b))
    <3> DEFINE j == m - k
    <3>1. j \in 1..n /\ m = k + j
      BY <1>1
    <3> HIDE DEF j
    <3>2. PICK a \in 1..j, b \in j..n : IsChar(SubSeq(id, a, b))
      BY <2>1, <3>1, Zenon DEF IsText
    <3>3. a \in 1..n /\ b \in a..n /\ k + a \in (k + 1)..m /\ k + b \in m..Len(s)
      BY <1>1, <3>1
    <3>4. IsChar(SubSeq(s, k + a, k + b))
      BY <1>3, <3>2, <3>3, Zenon
    <3> QED
      BY <3>3, <3>4, Zenon
  <2>2. ASSUME TextFrom(s, k + 1), NEW j \in 1..n
        PROVE  \E a \in 1..j, b \in j..n : IsChar(SubSeq(id, a, b))
    <3>1. k + j \in (k + 1)..Len(s)
      BY <1>1
    <3>2. PICK c \in (k + 1)..(k + j), d \in (k + j)..Len(s) : IsChar(SubSeq(s, c, d))
      BY <2>2, <3>1, Zenon DEF TextFrom
    <3> DEFINE a == c - k
               b == d - k
    <3>3. /\ a \in 1..n /\ b \in a..n /\ a \in 1..j /\ b \in j..n
          /\ k + a = c /\ k + b = d
      BY <1>1
    <3> HIDE DEF a, b
    <3>4. IsChar(SubSeq(id, a, b))
      BY <1>3, <3>2, <3>3, Zenon
    <3> QED
      BY <3>3, <3>4, Zenon
  <2> QED
    BY <2>1, <2>2, Zenon DEF IsText, TextFrom
<1>5. k + 1 \in 1..Len(s) /\ k + 1 \in 1..(Len(s) + 1) /\ Len(s) + 1 - (k + 1) = n
  BY <1>1
<1>6. ASSUME IsText(id)
      PROVE  E = id
  <2>1. /\ Len(E) = Len(s) + 1 - (k + 1)
        /\ \A i \in 1..(Len(s) + 1 - (k + 1)) : E[i] = s[k + 1 + i - 1]
    BY <1>0, <1>1, <1>4, <1>5, <1>6, KeepsText
  <2>2. \A i \in 1..n : k + 1 + i - 1 = k + i
    BY <1>1
  <2>3. Len(E) = n /\ \A i \in 1..n : E[i] = id[i]
    BY <1>1, <1>5, <2>1, <2>2
  <2> QED
    BY <1>2, <2>3, SameBytes
<1>7. ASSUME ~IsText(id)
      PROVE  \E p \in 1..n : Leaves(E, id, 1, p)
  <2>1. s[Len(s)] < 128
    BY <1>1
  <2>2. PICK p \in 1..n : Leaves(E, s, k + 1, p)
    BY <1>0, <1>1, <1>4, <1>5, <1>7, <2>1, LosesOther
  <2>3. \A i \in 1..n : k + 1 + i - 1 = k + i /\ 1 + i - 1 = i
    BY <1>1
  <2>4. s[k + 1 + p - 1] = id[1 + p - 1]
    BY <1>1, <2>3
  <2>5. \A i \in 1..(p - 1) : s[k + 1 + i - 1] = id[1 + i - 1]
    <3>1. \A i \in 1..(p - 1) : i \in 1..n
      BY <1>1
    <3> QED
      BY <1>1, <2>3, <3>1
  <2>6. Leaves(E, id, 1, p)
    BY <2>2, <2>4, <2>5, Zenon DEF Leaves
  <2> QED
    BY <2>6
<1> QED
  BY <1>2, <1>6, <1>7, Zenon DEF s, E

\* The first separator of a token is the one behind its hash.
LEMMA BehindHash ==
  ASSUME NEW q \in Bytes, \A i \in 1..Len(q) : q[i] # 58,
         NEW r \in Bytes, NEW s, s = q \o <<58, 58>> \o r
  PROVE  Behind(s) = r
<1> DEFINE h == Len(q)
<1>1. /\ s \in Bytes /\ h \in Nat /\ Len(r) \in Nat /\ Len(s) = h + 2 + Len(r)
      /\ \A i \in 1..h : s[i] = q[i]
      /\ s[h + 1] = 58 /\ s[h + 2] = 58
      /\ \A i \in 1..Len(r) : s[h + 2 + i] = r[i]
  <2>1. <<58, 58>> \in Bytes
    BY DEF Bytes, Byte
  <2> QED
    BY <2>1 DEF Bytes
<1>2. h + 1 \in Splits(s)
  <2>1. h + 1 \in 1..(Len(s) - 1) /\ h + 1 + 1 = h + 2
    BY <1>1
  <2> QED
    BY <1>1, <2>1, SplitsBytes
<1>3. ASSUME NEW n \in Splits(s)
      PROVE  n \in Nat /\ h + 1 <= n
  <2>1. n \in 1..(Len(s) - 1) /\ s[n] = 58
    BY <1>1, SplitsBytes
  <2>2. ~ (n \in 1..h)
    BY <1>1, <2>1
  <2> QED
    BY <1>1, <2>1, <2>2
<1>4. First(Splits(s)) = h + 1
  <2>1. Splits(s) \in SUBSET Nat
    BY <1>3
  <2>2. First(Splits(s)) \in Splits(s) /\ First(Splits(s)) <= h + 1
    BY <1>2, <2>1, FirstIsLeast
  <2>3. First(Splits(s)) \in Nat /\ h + 1 <= First(Splits(s))
    BY <1>3, <2>2
  <2> QED
    BY <1>1, <2>2, <2>3
<1>5. Behind(s) = SubSeq(s, h + 3, Len(s))
  <2>1. h + 1 + 2 = h + 3 /\ Len(Separator) = 2
    BY <1>1 DEF Separator
  <2> QED
    BY <1>4, <2>1 DEF Behind
<1>6. SubSeq(s, h + 3, Len(s)) = r
  <2> DEFINE u == SubSeq(s, h + 3, Len(s))
  <2>1. /\ u \in Bytes /\ Len(u) = Len(r)
        /\ \A i \in 1..Len(r) : u[i] = s[h + 2 + i]
    <3>1. h + 3 \in 1..(Len(s) + 1) /\ Len(s) - (h + 3) + 1 = Len(r)
      BY <1>1
    <3>2. /\ u \in Bytes /\ Len(u) = Len(s) - (h + 3) + 1
          /\ \A i \in 1..(Len(s) - (h + 3) + 1) : u[i] = s[h + 3 + i - 1]
      BY <1>1, <3>1, TailBytes
    <3>3. \A i \in 1..Len(r) : h + 3 + i - 1 = h + 2 + i
      BY <1>1
    <3> HIDE DEF u
    <3>4. Len(u) = Len(r)
      BY <3>1, <3>2, Zenon
    <3>5. ASSUME NEW i \in 1..Len(r)
          PROVE  u[i] = s[h + 2 + i]
      <4>1. u[i] = s[h + 3 + i - 1]
        BY <3>1, <3>2, Zenon
      <4> QED
        BY <3>3, <4>1, Zenon
    <3> QED
      BY <3>2, <3>4, <3>5, Zenon
  <2> HIDE DEF u
  <2>2. \A i \in 1..Len(u) : u[i] = r[i]
    BY <1>1, <2>1, Zenon
  <2>3. u = r
    BY <2>1, <2>2, SameBytes, Zenon
  <2> QED
    BY <2>3 DEF u
<1> QED
  BY <1>5, <1>6
-----------------------------------------------------------------------------
(* Reading a token *)

\* Trimming stops at the zeros of the length, and takes away the length itself
\* when its byte is white space.
LEMMA TrimmedAtLength ==
  ASSUME NEW s \in Bytes, Len(s) >= 4, s[1] < 128, s[2] = 0, s[3] = 0, s[4] = 0
  PROVE  \E n \in 4..Len(s) :
           /\ Trimmed(s) = SubSeq(s, IF <<s[1]>> \in White THEN 2 ELSE 1, n)
           /\ s[Len(s)] < 128 => (n = Len(s) <=> <<s[Len(s)]>> \notin White)
<1> DEFINE K == Kept(s)
<1>0. Len(s) \in Nat /\ \A i \in 1..4 : i \in 1..Len(s)
  BY DEF Bytes
<1>1. \A i \in 1..Len(s) : s[i] < 128 => (i \in K <=> <<s[i]>> \notin White)
  BY AsciiInWhite, Zenon DEF Kept
<1>2. <<0>> \notin White
  <2>1. 0 \in Byte /\ 0 \notin 9..13 \cup {32}
    BY DEF Byte
  <2> QED
    BY <2>1, OneByteOfWhite, Zenon
<1>3. 2 \in K /\ 4 \in K
  <2>1. 2 \in 1..Len(s) /\ 4 \in 1..Len(s) /\ s[2] < 128 /\ s[4] < 128
    BY <1>0
  <2> QED
    BY <1>1, <1>2, <2>1, Zenon
<1>4. 1 \in K <=> <<s[1]>> \notin White
  <2>1. 1 \in 1..Len(s)
    BY <1>0
  <2> QED
    BY <1>1, <2>1, Zenon
<1>5. K \in SUBSET (1..Len(s)) /\ K \in SUBSET Nat /\ K # {}
  BY <1>3 DEF Kept
<1> HIDE DEF K
<1>6. First(K) \in K /\ \A i \in K : First(K) <= i
  BY <1>5, FirstIsLeast
<1>7. Last(K) \in K /\ \A i \in K : i <= Last(K)
  BY <1>0, <1>5, LastIsGreatest
<1>8. First(K) = IF <<s[1]>> \in White THEN 2 ELSE 1
  <2>1. First(K) \in 1..Len(s) /\ First(K) <= 2
    BY <1>3, <1>5, <1>6
  <2>2. First(K) = 1 \/ First(K) = 2
    BY <1>0, <2>1
  <2>3. 1 \in K => First(K) = 1
    BY <1>6, <2>2
  <2> QED
    BY <1>4, <1>6, <2>2, <2>3
<1>9. Last(K) \in 4..Len(s)
  <2>1. Last(K) \in 1..Len(s) /\ 4 <= Last(K)
    BY <1>3, <1>5, <1>7, Zenon
  <2> QED
    BY <2>1 DEF Bytes
<1>10. Last(K) = Len(s) <=> Len(s) \in K
  <2>1. ASSUME Len(s) \in K
        PROVE  Last(K) = Len(s)
    <3>1. Last(K) \in 1..Len(s) /\ Len(s) <= Last(K)
      BY <1>5, <1>7, <2>1, Zenon
    <3> QED
      BY <3>1 DEF Bytes
  <2> QED
    BY <1>7, <2>1, Zenon
<1>11. s[Len(s)] < 128 => (Last(K) = Len(s) <=> <<s[Len(s)]>> \notin White)
  <2>1. Len(s) \in 1..Len(s)
    BY <1>0
  <2> QED
    BY <1>1, <1>10, <2>1, Zenon DEF K
<1>12. Trimmed(s) = SubSeq(s, First(K), Last(K))
  BY <1>5, Zenon DEF Trimmed, K
<1> QED
  BY <1>8, <1>9, <1>11, <1>12, Zenon

\* s is what a token of id holds, read back: the length of id, and the first b
\* bytes of E, which is what became of id.
Holds(s, id, E, b) ==
  /\ E \in Bytes
  /\ IsText(id) => E = id
  /\ ~IsText(id) => \E p \in 1..Len(id) : Leaves(E, id, 1, p)
  /\ b \in 0..Len(E)
  /\ b = Len(E) <=> Splits(E) = {}
  /\ s \in Bytes /\ Len(s) = 4 + b
  /\ s[1] = Len(id) /\ s[2] = 0 /\ s[3] = 0 /\ s[4] = 0
  /\ \A i \in 1..b : s[4 + i] = E[i]

\* What is read as id begins with id.
LEMMA NumberBegins ==
  ASSUME NEW id \in FilterIds, NEW u \in Bytes, u # <<>>, Number(u) = id
  PROVE  Len(id) <= Len(u) /\ \A i \in 1..Len(id) : id[i] = u[i]
<1>1. PICK n \in 1..Len(u) : id = SubSeq(u, 1, n)
  BY NumberIsPrefix
<1> DEFINE v == SubSeq(u, 1, n)
<1>2. Len(v) = n /\ n <= Len(u) /\ \A i \in 1..n : v[i] = u[i]
  BY DEF Bytes
<1> HIDE DEF v
<1>3. id = v
  BY <1>1 DEF v
<1> QED
  BY <1>2, <1>3

LEMMA ReadWithLength ==
  ASSUME NEW id \in FilterIds, NEW s, NEW E, NEW b, Holds(s, id, E, b),
         <<Len(id)>> \notin White
  PROVE  Deserialized(Trimmed(s)) = id <=> LooksLikeText(id)
<1> DEFINE n == Len(id)
           c == <<id[n]>>
           D == Deserialized(Trimmed(s))
<1>1. /\ id \in Bytes /\ n \in Nat /\ n >= 1 /\ n < 128 /\ id[n] < 128
      /\ E \in Bytes /\ Len(E) \in Nat
      /\ IsText(id) => E = id
      /\ ~IsText(id) => \E p \in 1..n : Leaves(E, id, 1, p)
      /\ b \in Nat /\ b <= Len(E) /\ (b = Len(E) <=> Splits(E) = {})
      /\ s \in Bytes /\ Len(s) = 4 + b
      /\ s[1] = n /\ s[2] = 0 /\ s[3] = 0 /\ s[4] = 0
      /\ \A i \in 1..b : s[4 + i] = E[i]
  <2>1. b \in 0..Len(E) /\ E \in Bytes
    BY Zenon DEF Holds
  <2>2. b \in Nat /\ b <= Len(E) /\ Len(E) \in Nat
    BY <2>1 DEF Bytes
  <2> QED
    BY <2>1, <2>2, IdBytes, Zenon DEF Holds
<1>2. PICK l \in 4..Len(s) :
        /\ Trimmed(s) = SubSeq(s, 1, l)
        /\ s[Len(s)] < 128 => (l = Len(s) <=> <<s[Len(s)]>> \notin White)
  <2>1. Len(s) >= 4 /\ s[1] < 128 /\ <<s[1]>> \notin White
    BY <1>1
  <2> QED
    BY <1>1, <2>1, TrimmedAtLength, Zenon
<1> DEFINE t == SubSeq(s, 1, l)
<1>3. /\ t \in Bytes /\ Len(t) = l /\ l \in Nat /\ l >= 4 /\ l <= 4 + b
      /\ \A i \in 1..l : t[i] = s[i]
  BY <1>1, <1>2 DEF Bytes
<1> HIDE DEF t
<1>4. t[1] = n /\ t[2] = 0 /\ t[3] = 0 /\ t[4] = 0
  BY <1>1, <1>3
<1> DEFINE k == l - 4
<1>5. PICK u \in Bytes :
        /\ D = Number(u)
        /\ Len(u) = IF n < k THEN n ELSE k
        /\ \A i \in 1..Len(u) : u[i] = t[4 + i]
  <2>1. ~ (Len(t) < 4 \/ t[4] >= 128)
    BY <1>3, <1>4
  <2>2. D = Deserialized(t)
    BY <1>2, Zenon DEF t
  <2> HIDE DEF D
  <2>3. PICK u \in Bytes :
          /\ Deserialized(t) = Number(u)
          /\ \A i \in 1..Len(u) : u[i] = t[4 + i]
          /\ Len(u) = IF t[1] < Len(t) - 4 THEN t[1] ELSE Len(t) - 4
    BY <1>3, <1>4, <2>1, DeserializedCases, Zenon
  <2>4. Len(u) = IF n < k THEN n ELSE k
    BY <1>3, <1>4, <2>3, Zenon
  <2> QED
    BY <2>2, <2>3, <2>4, Zenon
<1> HIDE DEF D
<1>6. k \in Nat /\ k <= b /\ Len(u) \in Nat /\ Len(u) <= n /\ Len(u) <= k
  BY <1>1, <1>3, <1>5
<1>7. \A i \in 1..Len(u) : u[i] = E[i]
  <2> SUFFICES ASSUME NEW i \in 1..Len(u)
               PROVE  u[i] = E[i]
    OBVIOUS
  <2>1. 4 + i \in 1..l /\ i \in 1..b
    BY <1>1, <1>3, <1>6
  <2> QED
    BY <1>1, <1>3, <1>5, <2>1
<1>8. ASSUME IsText(id), Splits(id) = {}
      PROVE  /\ b = n /\ s[Len(s)] = id[n]
             /\ c \notin White => k = n
             /\ k = n => c \notin White
  <2>1. E = id /\ b = n /\ Len(s) = 4 + n
    BY <1>1, <1>8
  <2>2. s[Len(s)] = id[n]
    BY <1>1, <2>1
  <2>3. l = Len(s) <=> c \notin White
    BY <1>1, <1>2, <2>2
  <2> HIDE DEF c
  <2>4. k = n <=> l = Len(s)
    BY <1>1, <1>3, <2>1
  <2> QED
    BY <2>1, <2>2, <2>3, <2>4, Zenon
<1>9. Splits(id) = {} <=> \A i \in 1..(n - 1) : SubSeq(id, i, i + 1) # <<58, 58>>
  <2>1. Splits(id) \in SUBSET (1..(n - 1))
    BY <1>1, SplitsBytes
  <2>2. \A i \in 1..(n - 1) : i \in Splits(id) <=> SubSeq(id, i, i + 1) = <<58, 58>>
    BY <1>1, SplitsBytes
  <2> QED
    BY <2>1, <2>2, Zenon
<1>10. LooksLikeText(id) <=> IsText(id) /\ Splits(id) = {} /\ c \notin White
  BY <1>9, Zenon DEF LooksLikeText
<1>11. ASSUME LooksLikeText(id)
       PROVE  D = id
  <2>1. IsText(id) /\ Splits(id) = {} /\ c \notin White
    BY <1>10, <1>11, Zenon
  <2>2. k = n /\ E = id
    BY <1>1, <1>8, <2>1, Zenon
  <2>3. Len(u) = n
    BY <1>1, <1>5, <2>2
  <2>4. u = id
    BY <1>1, <1>7, <2>2, <2>3, SameBytes
  <2> QED
    BY <1>5, <2>4, NumberOfId
<1>12. ASSUME D = id
       PROVE  LooksLikeText(id)
  <2>1. CASE u = <<>>
    <3>1. id = <<0>>
      BY <1>5, <1>12, <2>1 DEF Number
    <3>2. n = 1 /\ id[1] = 0
      BY <3>1
    <3>3. IsText(id)
      <4>1. IsChar(SubSeq(id, 1, 1))
        <5>1. 1 \in 1..n /\ 1 \in 1..Len(id) /\ id[1] < 128
          BY <3>2
        <5>2. Taken(id, 1) = 1
          BY <1>1, <5>1, AsciiPiece
        <5>3. ~ (id[1] >= 128)
          BY <3>2
        <5> QED
          BY <1>1, <5>1, <5>2, <5>3, PieceCases, Zenon
      <4>2. \A i \in 1..n : i = 1 /\ 1 \in 1..i /\ 1 \in i..n
        BY <3>2
      <4> QED
        BY <4>1, <4>2, Zenon DEF IsText
    <3>4. Splits(id) = {}
      <4>1. Splits(id) \in SUBSET (1..(Len(id) - 1))
        BY <1>1, SplitsBytes
      <4>2. 1..(Len(id) - 1) = {}
        BY <3>2
      <4> QED
        BY <4>1, <4>2, Zenon
    <3>5. c \notin White
      <4>1. 0 \in Byte /\ 0 \notin 9..13 \cup {32}
        BY DEF Byte
      <4>2. <<0>> \notin White
        BY <4>1, OneByteOfWhite, Zenon
      <4> QED
        BY <3>2, <4>2
    <3> QED
      BY <1>10, <3>3, <3>4, <3>5, Zenon
  <2>2. CASE u # <<>>
    <3>1. n <= Len(u) /\ \A i \in 1..n : id[i] = u[i]
      BY <1>5, <1>12, <2>2, NumberBegins
    <3>2. Len(u) = n /\ n <= k
      BY <1>1, <1>6, <3>1
    <3>3. \A i \in 1..n : id[i] = E[i]
      BY <1>7, <3>1, <3>2
    <3>4. IsText(id)
      <4> SUFFICES ASSUME NEW p \in 1..n, Leaves(E, id, 1, p)
                   PROVE  FALSE
        BY <1>1, Zenon
      <4>1. 1 + p - 1 = p
        OBVIOUS
      <4> QED
        BY <3>3, <4>1 DEF Leaves
    <3>5. E = id /\ b = Len(E)
      <4>1. E = id
        BY <1>1, <3>4, Zenon
      <4> QED
        BY <1>1, <1>6, <3>2, <4>1
    <3>6. Splits(id) = {}
      BY <1>1, <3>5, Zenon
    <3>7. k = n
      BY <1>1, <1>6, <3>2, <3>5
    <3> QED
      BY <1>8, <1>10, <3>4, <3>6, <3>7, Zenon
  <2> QED
    BY <2>1, <2>2
<1> QED
  BY <1>11, <1>12, Zenon DEF D
\* Without its length a number is read four bytes too late, if at all.
LEMMA ReadWithoutLength ==
  ASSUME NEW id \in FilterIds, NEW s, NEW E, NEW b, Holds(s, id, E, b),
         <<Len(id)>> \in White
  PROVE  Deserialized(Trimmed(s)) # id
<1> SUFFICES ASSUME Deserialized(Trimmed(s)) = id
             PROVE  FALSE
  OBVIOUS
<1> DEFINE n == Len(id)
<1>1. /\ id \in Bytes /\ n \in Nat /\ n >= 1 /\ n < 128
      /\ E \in Bytes /\ Len(E) \in Nat
      /\ IsText(id) => E = id
      /\ ~IsText(id) => \E p \in 1..n : Leaves(E, id, 1, p)
      /\ b \in Nat /\ b <= Len(E)
      /\ s \in Bytes /\ Len(s) = 4 + b
      /\ s[1] = n /\ s[2] = 0 /\ s[3] = 0 /\ s[4] = 0
      /\ \A i \in 1..b : s[4 + i] = E[i]
  <2>1. b \in 0..Len(E) /\ E \in Bytes
    BY Zenon DEF Holds
  <2>2. b \in Nat /\ b <= Len(E) /\ Len(E) \in Nat
    BY <2>1 DEF Bytes
  <2> QED
    BY <2>1, <2>2, IdBytes, Zenon DEF Holds
<1>2. n >= 9
  <2>1. \A i \in Nat : i < 128 => i \in Byte
    BY DEF Byte
  <2>2. n \in 9..13 \cup {32}
    BY <1>1, <2>1, OneByteOfWhite, Zenon
  <2> HIDE DEF n
  <2> QED
    BY <2>2
<1>3. PICK l \in 4..Len(s) : Trimmed(s) = SubSeq(s, 2, l)
  <2>1. Len(s) >= 4 /\ s[1] < 128 /\ <<s[1]>> \in White
    BY <1>1
  <2> QED
    BY <1>1, <2>1, TrimmedAtLength, Zenon
<1> DEFINE t == SubSeq(s, 2, l)
<1>4. /\ t \in Bytes /\ Len(t) = l - 1 /\ l \in Nat /\ l >= 4 /\ l <= 4 + b
      /\ \A i \in 1..(l - 1) : t[i] = s[1 + i]
  BY <1>1, <1>3 DEF Bytes
<1> HIDE DEF t
<1>5. Deserialized(t) = id
  BY <1>3, Zenon DEF t
<1>6. PICK u \in Bytes :
        /\ Len(t) >= 4 /\ t[4] < 128
        /\ id = Number(u)
        /\ Len(u) <= Len(t) - 4
        /\ \A i \in 1..Len(u) : u[i] = t[4 + i]
  <2>1. Deserialized(t) # Threw
    BY <1>5, TokenAssumption, Zenon
  <2> QED
    BY <1>4, <1>5, <2>1, DeserializedCases
<1>7. u # <<>>
  <2> SUFFICES ASSUME u = <<>>
               PROVE  FALSE
    OBVIOUS
  <2>1. id = <<0>>
    BY <1>6 DEF Number
  <2>2. Len(<<0>>) = 1
    OBVIOUS
  <2>3. n = 1
    BY <2>1, <2>2, Zenon
  <2> QED
    BY <1>2, <2>3
<1>8. n <= Len(u) /\ \A i \in 1..n : id[i] = u[i]
  BY <1>6, <1>7, NumberBegins
<1>9. l - 1 >= 4 /\ Len(u) \in Nat /\ Len(u) <= l - 5
  BY <1>4, <1>6 DEF Bytes
<1>10. n + 1 <= b /\ n + 1 <= Len(E) /\ n \in Nat
  <2> DEFINE len == Len(u)
             all == Len(E)
  <2> HIDE DEF n, len, all
  <2>1. /\ n \in Nat /\ len \in Nat /\ all \in Nat /\ b \in Nat /\ l \in Nat
        /\ n <= len /\ len <= l - 5 /\ l <= 4 + b /\ b <= all
    BY <1>1, <1>4, <1>8, <1>9, Zenon DEF len, all
  <2>2. n + 1 <= b /\ n + 1 <= all
    BY <2>1
  <2> QED
    BY <2>1, <2>2, Zenon DEF all
<1>11. \A i \in 1..n : id[i] = E[1 + i]
  <2> SUFFICES ASSUME NEW i \in 1..n
               PROVE  id[i] = E[1 + i]
    OBVIOUS
  <2>1. /\ i \in 1..Len(u) /\ 4 + i \in 1..(l - 1) /\ 1 + i \in 1..b
        /\ 1 + (4 + i) = 4 + (1 + i)
    <3> DEFINE len == Len(u)
    <3> HIDE DEF n, len
    <3>1. /\ n \in Nat /\ len \in Nat /\ b \in Nat /\ l \in Nat
          /\ n <= len /\ len <= l - 5 /\ n + 1 <= b
      BY <1>1, <1>4, <1>8, <1>9, <1>10, Zenon DEF len
    <3>2. /\ i \in 1..len /\ 4 + i \in 1..(l - 1) /\ 1 + i \in 1..b
          /\ 1 + (4 + i) = 4 + (1 + i)
      BY <3>1
    <3> QED
      BY <3>2 DEF len
  <2>2. id[i] = u[i] /\ u[i] = t[4 + i]
    BY <1>6, <1>8, <2>1
  <2>3. t[4 + i] = s[1 + (4 + i)]
    BY <1>4, <2>1
  <2>4. s[4 + (1 + i)] = E[1 + i]
    BY <1>1, <2>1
  <2> QED
    BY <2>1, <2>2, <2>3, <2>4
<1>12. E[1] < 128
  <2>1. 4 \in 1..(l - 1) /\ 1 \in 1..b /\ 1 + 4 = 4 + 1
    BY <1>1, <1>4, <1>9, <1>10
  <2>2. t[4] = s[1 + 4] /\ s[4 + 1] = E[1]
    BY <1>1, <1>4, <2>1
  <2> QED
    BY <1>6, <2>1, <2>2
<1>13. \A i \in 1..Len(E) : E[i] \in Nat
  <2>1. \A i \in 1..Len(E) : E[i] \in Byte
    BY <1>1 DEF Bytes
  <2> QED
    BY <2>1, AsciiOrNot
<1>14. CASE IsText(id)
  <2>1. Len(E) = n
    BY <1>1, <1>14
  <2> QED
    BY <1>1, <1>10, <2>1
<1>15. CASE ~IsText(id)
  <2>1. PICK p \in 1..n : Leaves(E, id, 1, p)
    BY <1>1, <1>15, Zenon
  <2> DEFINE T == {i \in 1..p : E[i] >= 128}
             i == First(T)
  <2>2. p \in T /\ T \in SUBSET Nat
    BY <2>1 DEF Leaves
  <2>3. i \in T /\ \A j \in T : i <= j
    BY <2>2, FirstIsLeast
  <2> HIDE DEF i
  <2>4. i \in 1..p /\ E[i] >= 128
    BY <2>3
  <2>5. /\ i \in 1..Len(E) /\ 1 \in 1..Len(E)
        /\ p <= n /\ n + 1 <= Len(E) /\ n \in Nat
    <3> DEFINE all == Len(E)
    <3> HIDE DEF n, all
    <3>1. n \in Nat /\ all \in Nat /\ n + 1 <= all /\ p \in 1..n /\ i \in 1..p
      BY <1>1, <1>10, <2>1, <2>4, Zenon DEF all
    <3>2. i \in 1..all /\ 1 \in 1..all /\ p <= n
      BY <3>1
    <3> QED
      BY <3>1, <3>2, Zenon DEF all
  <2>6. i # 1
    BY <1>12, <1>13, <2>4, <2>5
  <2> DEFINE j == i - 1
  <2>7. /\ j \in 1..(p - 1) /\ j \in 1..n /\ j \in 1..Len(E) /\ j \in 1..p /\ 1 + j = i
        /\ 1 + j - 1 = j /\ j < i
    BY <2>4, <2>5, <2>6
  <2> HIDE DEF j
  <2>8. E[j] = id[j] /\ id[j] = E[i]
    BY <1>11, <2>1, <2>7 DEF Leaves
  <2>9. j \in T
    BY <2>4, <2>7, <2>8
  <2> QED
    BY <2>3, <2>4, <2>7, <2>9
<1> QED
  BY <1>14, <1>15

-----------------------------------------------------------------------------
(* The theorem *)

LEMMA JoinBytes ==
  ASSUME NEW s \in Bytes, NEW u \in Bytes
  PROVE  /\ s \o u \in Bytes
         /\ Len(s \o u) = Len(s) + Len(u)
         /\ \A i \in 1..Len(s) : (s \o u)[i] = s[i]
         /\ \A i \in 1..Len(u) : (s \o u)[Len(s) + i] = u[i]
BY DEF Bytes

LEMMA JoinOfThree ==
  ASSUME NEW p \in Bytes, NEW s \in Bytes, NEW u \in Bytes
  PROVE  p \o (s \o u) = (p \o s) \o u
BY ConcatAssociative DEF Bytes

LEMMA JoinOfAscii ==
  ASSUME NEW s \in Bytes, NEW u \in Bytes,
         \A i \in 1..Len(s) : s[i] < 128, \A i \in 1..Len(u) : u[i] < 128
  PROVE  \A i \in 1..Len(s \o u) : (s \o u)[i] < 128
<1> DEFINE v == s \o u
           h == Len(s)
           k == Len(u)
<1>1. /\ Len(v) = h + k /\ h \in Nat /\ k \in Nat
      /\ \A i \in 1..h : v[i] = s[i]
      /\ \A i \in 1..k : v[h + i] = u[i]
  BY DEF Bytes
<1> HIDE DEF v, h, k
<1> SUFFICES ASSUME NEW i \in 1..Len(v)
             PROVE  v[i] < 128
  BY DEF v
<1>2. CASE i <= h
  <2>1. i \in 1..h
    BY <1>1, <1>2
  <2> QED
    BY <1>1, <2>1 DEF h
<1>3. CASE ~ (i <= h)
  <2>1. i - h \in 1..k /\ h + (i - h) = i
    BY <1>1, <1>3
  <2> QED
    BY <1>1, <2>1 DEF k
<1> QED
  BY <1>2, <1>3

\* What GetQuery reads from the token of id.
LEMMA ReadBack ==
  ASSUME NEW id \in FilterIds
  PROVE  Deserialized(Trimmed(SecondPart(Decoded(QueryHash \o Separator \o Serialized(id))))) = id
           <=> LooksLikeText(id)
<1> DEFINE n == Len(id)
           length == <<n, 0, 0, 0>>
           colons == <<58, 58>>
           front == QueryHash \o colons \o length
           s == QueryHash \o Separator \o Serialized(id)
           E == Rest(front, id)
<1>1. id \in Bytes /\ n \in Nat /\ n >= 1 /\ n < 128 /\ id[n] < 128
  BY IdBytes
<1>2. QueryHash \in Bytes /\ \A i \in 1..Len(QueryHash) : QueryHash[i] < 128 /\ QueryHash[i] # 58
  <2>1. QueryHash \in Bytes /\ \A i \in DOMAIN QueryHash : QueryHash[i] \in 33..127 \ {58}
    BY TokenAssumption, Zenon DEF Bytes
  <2>2. \A i \in 33..127 \ {58} : i < 128 /\ i # 58
    OBVIOUS
  <2>3. DOMAIN QueryHash = 1..Len(QueryHash)
    BY <2>1 DEF Bytes
  <2> QED
    BY <2>1, <2>2, <2>3, Zenon
<1>3. Int32(n) = length
  BY <1>1 DEF Int32
<1>4. /\ length \in Bytes /\ Len(length) = 4 /\ length[1] = n
      /\ length[2] = 0 /\ length[3] = 0 /\ length[4] = 0
  <2>1. n \in Byte /\ 0 \in Byte
    <3> HIDE DEF n
    <3> QED
      BY <1>1 DEF Byte
  <2> HIDE DEF n
  <2> QED
    BY <2>1 DEF Bytes
<1>5. \A i \in 1..Len(length) : i = 1 \/ i = 2 \/ i = 3 \/ i = 4
  BY <1>4
<1>6. \A i \in 1..Len(length) : length[i] < 128
  BY <1>1, <1>4, <1>5
<1>7. colons \in Bytes /\ \A i \in 1..Len(colons) : colons[i] < 128
  BY DEF Bytes, Byte
<1> HIDE DEF length
<1>8. s = QueryHash \o colons \o (length \o id)
  BY <1>3, Zenon DEF Separator, Serialized
<1> DEFINE before == QueryHash \o colons
<1> HIDE DEF colons
<1>9. before \in Bytes /\ \A i \in 1..Len(before) : before[i] < 128
  BY <1>2, <1>7, JoinBytes, JoinOfAscii
<1> HIDE DEF before
<1>10. s = front \o id
  <2>1. s = before \o (length \o id) /\ front = before \o length
    BY <1>8, Zenon DEF before
  <2> HIDE DEF front, s
  <2>2. before \o (length \o id) = (before \o length) \o id
    BY <1>1, <1>4, <1>9, JoinOfThree
  <2> QED
    BY <2>1, <2>2, Zenon
<1>11. front \in Bytes /\ \A i \in 1..Len(front) : front[i] < 128
  <2>1. front = before \o length
    BY Zenon DEF before
  <2> HIDE DEF front
  <2>2. before \o length \in Bytes
    BY <1>4, <1>9, JoinBytes
  <2>3. \A i \in 1..Len(before \o length) : (before \o length)[i] < 128
    BY <1>4, <1>6, <1>9, JoinOfAscii, Zenon
  <2> QED
    BY <2>1, <2>2, <2>3, Zenon
<1> HIDE DEF front, s, E
<1>12. /\ E \in Bytes
       /\ Decoded(s) = front \o E
       /\ IsText(id) => E = id
       /\ ~IsText(id) => \E p \in 1..n : Leaves(E, id, 1, p)
  BY <1>1, <1>10, <1>11, DecodedBehind, Zenon DEF E
<1> DEFINE r == length \o E
           t == length \o Before(E)
<1>13. r \in Bytes /\ \A i \in 1..Len(length) : r[i] = length[i]
  BY <1>4, <1>12, JoinBytes
<1> HIDE DEF r
<1>14. Behind(Decoded(s)) = r
  <2>1. Decoded(s) = before \o r
    <3>1. Decoded(s) = before \o length \o E
      BY <1>12, Zenon DEF before, front
    <3> QED
      BY <1>4, <1>9, <1>12, <3>1, JoinOfThree, Zenon DEF r
  <2>2. Decoded(s) = QueryHash \o <<58, 58>> \o r
    BY <2>1, Zenon DEF before, colons
  <2>3. ASSUME NEW x, x = QueryHash \o <<58, 58>> \o r
        PROVE  Behind(x) = r
    BY <1>2, <1>13, <2>3, BehindHash, Zenon
  <2> QED
    BY <2>2, <2>3, Zenon
<1>15. SecondPart(Decoded(s)) = t
  <2>1. \A i \in 1..Len(length) : ~ (r[i] = 58 /\ r[i + 1] = 58)
    <3>1. \A i \in 1..4 : i \in 1..Len(length)
      BY <1>4
    <3>2. r[2] = 0 /\ r[3] = 0 /\ r[4] = 0
      BY <1>4, <1>13, <3>1
    <3> QED
      BY <1>5, <3>2
  <2>2. Before(r) = t
    BY <1>4, <1>12, <1>13, <2>1, BeforeBehindPrefix, Zenon DEF r
  <2> QED
    BY <1>14, <2>2, Zenon DEF SecondPart
<1>16. PICK b \in 0..Len(E) : Before(E) = SubSeq(E, 1, b) /\ (b = Len(E) <=> Splits(E) = {})
  BY <1>12, BeforeIsPrefix
<1>17. /\ t \in Bytes /\ Len(t) = 4 + b
       /\ t[1] = n /\ t[2] = 0 /\ t[3] = 0 /\ t[4] = 0
       /\ \A i \in 1..b : t[4 + i] = E[i]
  <2> DEFINE e == Before(E)
  <2>1. e \in Bytes /\ Len(e) = b /\ \A i \in 1..b : e[i] = E[i]
    BY <1>12, <1>16 DEF Bytes
  <2> HIDE DEF e
  <2>2. t = length \o e
    BY DEF e
  <2> HIDE DEF t
  <2>3. /\ t \in Bytes /\ Len(t) = Len(length) + Len(e)
        /\ \A i \in 1..Len(length) : t[i] = length[i]
        /\ \A i \in 1..Len(e) : t[Len(length) + i] = e[i]
    BY <1>4, <2>1, <2>2, JoinBytes
  <2>4. \A i \in 1..4 : t[i] = length[i]
    BY <1>4, <2>3
  <2> QED
    BY <1>4, <2>1, <2>3, <2>4
<1> HIDE DEF t
<1>18. Holds(t, id, E, b)
  BY <1>12, <1>16, <1>17, Zenon DEF Holds
<1>19. CASE <<n>> \in White
  <2>1. ~ LooksLikeText(id)
    BY <1>19, Zenon DEF LooksLikeText
  <2> QED
    BY <1>15, <1>18, <1>19, <2>1, ReadWithoutLength, Zenon DEF s
<1>20. CASE <<n>> \notin White
  BY <1>15, <1>18, <1>20, ReadWithLength, Zenon DEF s
<1> QED
  BY <1>19, <1>20

\* The token and the query that comes back are those of the filter's number.
Inv ==
  /\ filterId \in FilterIds
  /\ token \in {Nothing, QueryHash \o Separator \o Serialized(filterId)}
  /\ back \in {Nothing, Deserialized(Trimmed(SecondPart(Decoded(
                           QueryHash \o Separator \o Serialized(filterId)))))}

\* GetQuery gives back the query of its token exactly for the numbers that look
\* like a text: QueryStore's detour over UTF-8 and Split loses every other.
THEOREM RestoredExactlyIfText == Spec => []RestoredIfText
<1>1. Init => Inv
  BY Zenon DEF Init, Inv
<1>2. Inv /\ [Next]_vars => Inv'
  <2> SUFFICES ASSUME Inv, [Next]_vars
               PROVE  Inv'
    OBVIOUS
  <2>1. CASE CreateContinuationToken
    BY <2>1, Zenon DEF CreateContinuationToken, Inv
  <2>2. CASE GetQuery
    BY <2>2, Zenon DEF GetQuery, Inv
  <2>3. CASE UNCHANGED vars
    BY <2>3, Zenon DEF vars, Inv
  <2> QED
    BY <2>1, <2>2, <2>3 DEF Next
<1>3. Inv => RestoredIfText
  BY ReadBack, Zenon DEF Inv, RestoredIfText
<1> QED
  BY <1>1, <1>2, <1>3, PTL DEF Spec
=============================================================================
