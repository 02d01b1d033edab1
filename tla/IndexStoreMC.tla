---------------------------- MODULE IndexStoreMC -----------------------------
(***************************************************************************)
(* Small instances of IndexStore: two pieces of metadata of one contract,  *)
(* one of them in two versions, and a trait.                               *)
(***************************************************************************)
EXTENDS IndexStore, TLC

CONSTANTS m1, m2, t1

MCTypeOf == (m1 :> "Metadata") @@ (m2 :> "Metadata") @@ (t1 :> "Trait")

MCFieldOrder ==
  [Metadata |-> <<"BlockNumber", "ContractAddress", "TokenId">>,
   Trait |-> <<"BlockNumber", "Type", "Value">>]

\* Texts: 0 is the character "0", which starts every address.
Address == <<0, 9>>
Mood == <<7>>
Optimistic == <<8>>

MetadataOf(i, block, token) ==
  [id |-> i,
   field |-> [BlockNumber |-> <<block>>, ContractAddress |-> Address, TokenId |-> <<token>>]]

MoodTrait ==
  [id |-> t1,
   field |-> [BlockNumber |-> <<1>>, Type |-> Mood, Value |-> Optimistic]]

First == MetadataOf(m1, 1, 1)
Changed == MetadataOf(m1, 2, 1)
Second == MetadataOf(m2, 2, 3)

MCRecords == {First, Changed, Second, MoodTrait}

Does(mode, rec) == [mode |-> mode, rec |-> rec]

\* The same GUID is stored with two contents.
MutableBatches ==
  {<<Does("Save", First)>>, <<Does("Save", Changed)>>, <<Does("Append", Changed)>>,
   <<Does("Save", Second), Does("Append", MoodTrait)>>}

\* Each GUID has one content, stored again at will.
WriteOnceBatches ==
  {<<Does("Append", First)>>, <<Does("Save", First), Does("Save", Second)>>,
   <<Does("Save", MoodTrait)>>}

MCQueries ==
  {Find("Metadata", "BlockNumber", <<1>>, NoBlock),
   Find("Metadata", "ContractAddress", Address, 1),
   Find("Metadata", "BlockNumber", <<>>, NoBlock),
   Get("Metadata"),
   KeyLookup("Metadata", <<"ContractAddress", "TokenId">>, <<Address, <<1>>>>)}

\* IndexingTests.cs:21 looks a trait up by its type, as if it were a property.
MoodLookup == Lookup("Trait", {"Mood"}, Optimistic, FALSE, NoBlock)

TraitQueries == {MoodLookup, Get("Trait")}

\* IndexingTests.cs:21-23: the one trait stored, of type Mood and value
\* Optimistic, is what looking up "Mood", "Optimistic" returns.
TraitFoundByItsType ==
  \A t \in Threads :
    pc[t] = "done" /\ query[t] = MoodLookup /\ view[t][t1] = MoodTrait
      => Cardinality(found[t]) = 1
=============================================================================
