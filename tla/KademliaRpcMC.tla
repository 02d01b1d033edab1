---------------------------- MODULE KademliaRpcMC ----------------------------
(***************************************************************************)
(* Small instances of KademliaRpc: the texts of the scenarios, and a text  *)
(* of no word.                                                             *)
(***************************************************************************)
EXTENDS KademliaRpc

OneKey == {<<"bar">>}
KeyOrBlank == {<<"bar">>, <<>>}
OneValue == {<<"foo">>}
ValueOrBlank == {<<"foo">>, <<>>}
=============================================================================
