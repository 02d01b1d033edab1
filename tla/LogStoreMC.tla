------------------------------ MODULE LogStoreMC ------------------------------
(***************************************************************************)
(* Four kinds of entries: two events whose numbers begin alike and that    *)
(* share a name, one with an exception, one with structured data named as  *)
(* a built-in property.  The GUID of 3 starts with "E:"; what follows is   *)
(* between the GUIDs of 1 and 2.  Numbers below 10 stand for the bytes of  *)
(* characters.                                                             *)
(***************************************************************************)
EXTENDS LogStore, TLC

Content(event, name, error, data) ==
  [level |-> <<5>>, event |-> event, name |-> name, error |-> error, data |-> data]

MCContents ==
  {Content(<<1>>, <<7>>, NoError, {}),
   Content(<<1, 2>>, <<7>>, NoError, {<<"CITY", <<8, 8, 8, 8>>>>, <<"LOGLEVEL", <<5>>>>}),
   Content(<<2>>, <<7, 7>>, [message |-> <<9>>, helpLink |-> Null, source |-> Null], {}),
   Content(<<2>>, Null, NoError, {<<"EVENTID.ID", <<2>>>>, <<"EVENTID.ID", <<1, 1>>>>})}

\* Messages one shorter than the limit, at it and beyond it.
LongContents ==
  {Content(<<1>>, Null, [message |-> m, helpLink |-> Null, source |-> Null], {}) :
     m \in {<<9>>, <<9, 9>>, <<9, 9, 9>>, <<9, 9, 9, 9>>}}

MCLookups ==
  {All, ByValue("EVENTID.ID", <<1>>), ByName("EXCEPTION.SOURCE"),
   ByValue("EVENTID.NAME", <<7>>), ByValue("LOGLEVEL", <<5>>),
   ByValue("EVENTID.ID", <<1, 69>>)}

MCGuid == (1 :> <<20, 20, 20>>) @@ (2 :> <<30, 30, 30>>) @@ (3 :> <<69, 58, 25>>)
MCCut == 3 :> 2
=============================================================================
