----------------------------- MODULE RecordStore -----------------------------
(***************************************************************************)
(* What the index promises of its records, with no transaction, lock or    *)
(* key in sight: a put asked for by a client takes effect at one instant,  *)
(* in the client's order, or not at all.  Append keeps the record that is  *)
(* there, Save replaces it, and nothing else changes a stored record.      *)
(***************************************************************************)
EXTENDS Sequences, FiniteSets

CONSTANTS Ids, Records, Clients, NoRecord

VARIABLES
  stored,    \* the record of each GUID, or NoRecord
  pending    \* each client's puts not yet decided, oldest first

storeVars == <<stored, pending>>

Modes == {"Append", "Save"}

Puts == [mode : Modes, rec : Records]

\* The records after a put: Append is PutOptions.NoOverwrite.
After(s, p) ==
  IF p.mode = "Append" /\ s[p.rec.id] # NoRecord
  THEN s
  ELSE [s EXCEPT ![p.rec.id] = p.rec]

Init ==
  /\ stored = [i \in Ids |-> NoRecord]
  /\ pending = [c \in Clients |-> <<>>]

Ask(c) ==
  /\ pending[c] = <<>>
  /\ pending'[c] \in Seq(Puts)
  /\ pending' = [pending EXCEPT ![c] = pending'[c]]
  /\ UNCHANGED stored

Decide(c) ==
  /\ pending[c] # <<>>
  /\ stored' \in {stored, After(stored, Head(pending[c]))}
  /\ pending' = [pending EXCEPT ![c] = Tail(@)]

\* A put throws, and the client's later puts are not tried.
GiveUp(c) ==
  /\ pending' = [pending EXCEPT ![c] = <<>>]
  /\ UNCHANGED stored

Forget ==
  /\ pending' = [c \in Clients |-> <<>>]
  /\ UNCHANGED stored

Next == Forget \/ \E c \in Clients : Ask(c) \/ Decide(c) \/ GiveUp(c)

Spec == Init /\ [][Next]_storeVars
=============================================================================
