------------------------- MODULE ContinuationTokenMC -------------------------
(***************************************************************************)
(* Numbers of one to three bytes out of a few that UTF-8, Split and Trim   *)
(* tell apart, and some longer ones.                                       *)
(***************************************************************************)
EXTENDS ContinuationToken

\* Digits and a colon, white space, the parts of longer characters.
MCBytes == {0, 32, 57, 58, 128, 133, 191, 194, 226, 239, 245, 255}

Minimal(s) == s[Len(s)] < 128 /\ (Len(s) > 1 => s[Len(s)] # 0 \/ s[Len(s) - 1] >= 128)

Repeated(b, n) == [m \in 1..n |-> b]

MCFilterIds ==
  {s \in UNION {[1..n -> MCBytes] : n \in 1..3} : Minimal(s)}
    \cup {<<57, 48>>, <<226, 128, 168, 57>>, <<240, 159, 152, 128, 0>>, <<240, 128, 57>>}
    \cup {Repeated(b, n) : b \in {32, 57}, n \in {8, 9, 13, 14, 16}}
    \cup {Repeated(200, 8) \o <<0>>}

MCQueryHash == <<71, 77>>
=============================================================================
