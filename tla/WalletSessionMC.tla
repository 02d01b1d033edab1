--------------------------- MODULE WalletSessionMC ---------------------------
(* Values for the constants of WalletSession. *)
EXTENDS WalletSession, TLC

CONSTANTS a1, a2

\* Two accounts; the first has a token, the second may lack one.
MCStorages ==
  {(a1 :> "token") @@ (a2 :> entry) : entry \in {"absent", "blank", "token"}}
=============================================================================
