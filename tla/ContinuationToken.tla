-------------------------- MODULE ContinuationToken --------------------------
(***************************************************************************)
(* QueryStore: a query, which is the number of a filter of the node, is    *)
(* written into a text and read back from it.  The bytes of the number are *)
(* decoded as if they were UTF-8 on the way back, split at "::", trimmed   *)
(* and encoded again.                                                      *)
(*                                                                         *)
(* A number is its bytes, as BigInteger.ToByteArray gives them: two's      *)
(* complement, the lowest first, no more than needed.  A text is the bytes *)
(* of its UTF-8, in which those of a character occur as that character     *)
(* only.  A token stands for the bytes that its Base64 text holds; Base64  *)
(* itself loses nothing.                                                   *)
(***************************************************************************)
EXTENDS Integers, Sequences

CONSTANTS
  FilterIds,   \* the numbers of filters
  QueryHash,   \* the bytes of the hash: ASCII, no colon, no white space
  Nothing, Threw

Byte == 0..255
Continues == 128..191

\* A byte of a number that only repeats the sign of the byte before it.
RepeatsSign(s, n) ==
  \/ s[n] = 0 /\ s[n - 1] < 128
  \/ s[n] = 255 /\ s[n - 1] >= 128

\* The number of a filter is a quantity of the node, of at most 256 bits, and
\* not negative.  Its length is one byte here, which reads as a character.
ASSUME TokenAssumption ==
  /\ \A id \in FilterIds :
       /\ id \in Seq(Byte) /\ Len(id) \in 1..127
       /\ id[Len(id)] < 128
       /\ Len(id) > 1 => ~RepeatsSign(id, Len(id))
  /\ QueryHash \in Seq(Byte) /\ QueryHash # <<>>
  /\ \A n \in DOMAIN QueryHash : QueryHash[n] \in 33..127 \ {58}
  /\ Threw \notin FilterIds

VARIABLES filterId, token, back

vars == <<filterId, token, back>>

-----------------------------------------------------------------------------
(* Writing *)

\* Mutant of Separator: one colon.
SeparatorOne == <<58>>

Separator == <<58, 58>>

Int32(n) == <<n % 256, (n \div 256) % 256, (n \div 65536) % 256, n \div 16777216>>

\* Query.Serialize: the length of the number, and its bytes.
Serialized(id) == Int32(Len(id)) \o id

CreateContinuationToken ==
  /\ token = Nothing
  /\ token' = QueryHash \o Separator \o Serialized(filterId)
  /\ UNCHANGED <<filterId, back>>

-----------------------------------------------------------------------------
(* UTF-8 *)

\* The bytes that may follow the first byte of a longer character.
Second(b) ==
  CASE b = 224 -> 160..191
    [] b = 237 -> 128..159
    [] b = 240 -> 144..191
    [] b = 244 -> 128..143
    [] b \in 194..244 -> Continues
    [] OTHER -> {}

\* How many bytes a character has that starts with b.
Width(b) == IF b < 194 THEN 1 ELSE IF b < 224 THEN 2 ELSE IF b < 240 THEN 3 ELSE 4

\* s is a character, or the beginning of one.
BeginsChar(s) ==
  /\ s[1] < 128 \/ s[1] \in 194..244
  /\ Len(s) <= Width(s[1])
  /\ \A n \in 2..Len(s) : s[n] \in (IF n = 2 THEN Second(s[1]) ELSE Continues)

IsChar(s) == s # <<>> /\ BeginsChar(s) /\ Len(s) = Width(s[1])

Replacement == <<239, 191, 189>>

\* What the decoder takes from position n on: as long as it still is the
\* beginning of a character, and one byte if it never is.
Taken(s, n) ==
  LET longest == {m \in n..(IF n + 3 < Len(s) THEN n + 3 ELSE Len(s)) :
                    BeginsChar(SubSeq(s, n, m))}
  IN IF longest = {} THEN n ELSE CHOOSE m \in longest : \A o \in longest : o <= m

\* What the decoder makes of that: what is no character becomes a replacement.
Piece(s, n) ==
  LET c == SubSeq(s, n, Taken(s, n)) IN IF IsChar(c) THEN c ELSE Replacement

\* The text of s from each position on.
DecodedFrom(s) ==
  LET from[n \in 1..(Len(s) + 1)] ==
        IF n > Len(s) THEN <<>> ELSE Piece(s, n) \o from[Taken(s, n) + 1]
  IN from

\* Encoding.UTF8.GetString
Decoded(s) == DecodedFrom(s)[1]

\* char.IsWhiteSpace
White ==
  {<<b>> : b \in 9..13 \cup {32}} \cup {<<194, 133>>, <<194, 160>>, <<225, 154, 128>>}
    \cup {<<226, 128, b>> : b \in 128..138 \cup {168, 169, 175}}
    \cup {<<226, 129, 159>>, <<227, 128, 128>>}

-----------------------------------------------------------------------------
(* Reading *)

First(s) == CHOOSE n \in s : \A m \in s : n <= m
Last(s) == CHOOSE n \in s : \A m \in s : m <= n

\* Where the separator stands in a text.
Splits(text) ==
  {n \in 1..(Len(text) - Len(Separator) + 1) :
     SubSeq(text, n, n + Len(Separator) - 1) = Separator}

\* The text before its first separator, and after it.
Before(text) == IF Splits(text) = {} THEN text ELSE SubSeq(text, 1, First(Splits(text)) - 1)
Behind(text) == SubSeq(text, First(Splits(text)) + Len(Separator), Len(text))

\* Split's tokens[1]: neither it nor the hash before it is empty.
SecondPart(text) == Before(Behind(text))

\* Position n belongs to a character that is white space.
InWhite(text, n) ==
  \E w \in White : \E m \in 1..n :
    /\ n < m + Len(w) /\ m + Len(w) - 1 <= Len(text)
    /\ SubSeq(text, m, m + Len(w) - 1) = w

Kept(text) == {n \in 1..Len(text) : ~InWhite(text, n)}

Trimmed(text) ==
  IF Kept(text) = {} THEN <<>> ELSE SubSeq(text, First(Kept(text)), Last(Kept(text)))

\* The bytes that hold a number by themselves.
Needed(s) == {n \in 1..Len(s) : \A m \in (n + 1)..Len(s) : RepeatsSign(s, m)}

\* new BigInteger(s)
Number(s) == IF s = <<>> THEN <<0>> ELSE SubSeq(s, 1, First(Needed(s)))

\* BinaryReader.ReadInt32, of a number that is not negative.
ReadInt32(s) == s[1] + 256 * s[2] + 65536 * s[3] + 16777216 * s[4]

\* BinaryReader.ReadBytes: less than it is asked for at the end of the stream.
ReadBytes(s, n) == IF n < Len(s) THEN SubSeq(s, 1, n) ELSE s

\* Query.Deserialize: ReadInt32 throws at the end of the stream, ReadBytes for a
\* negative count.
Deserialized(s) ==
  IF Len(s) < 4 \/ s[4] >= 128 THEN Threw
  ELSE Number(ReadBytes(SubSeq(s, 5, Len(s)), ReadInt32(s)))

GetQuery ==
  /\ token # Nothing /\ back = Nothing
  /\ back' = Deserialized(Trimmed(SecondPart(Decoded(token))))
  /\ UNCHANGED <<filterId, token>>

-----------------------------------------------------------------------------
(* Specification *)

Init ==
  /\ filterId \in FilterIds
  /\ token = Nothing
  /\ back = Nothing

Next == CreateContinuationToken \/ GetQuery

Spec == Init /\ [][Next]_vars

-----------------------------------------------------------------------------
(* Properties *)

\* The bytes are those of a text: each of them is part of a character.
IsText(s) ==
  \A n \in 1..Len(s) : \E a \in 1..n, b \in n..Len(s) : IsChar(SubSeq(s, a, b))

\* The numbers that happen to look like a text: UTF-8, without the separator,
\* with no white space last nor, as the length, first.
LooksLikeText(id) ==
  /\ IsText(id)
  /\ \A n \in 1..(Len(id) - 1) : SubSeq(id, n, n + 1) # <<58, 58>>
  /\ <<id[Len(id)]>> \notin White
  /\ <<Len(id)>> \notin White

\* GetQuery gives back the query of its token for the numbers that look like
\* a text, and for no other: a filter 12345 survives (QueryStoreTests.cs:12-15),
\* the filters 128, 32 and 14906 do not, and the length of a filter of nine
\* bytes is itself trimmed away (QueryStore.cs:21-23).
RestoredIfText ==
  back # Nothing => (back = filterId <=> LooksLikeText(filterId))
=============================================================================
