------------------------------ MODULE IndexKeys ------------------------------
(***************************************************************************)
(* The keys of the LMDB index: what Store.Put writes for a record, and     *)
(* which keys a lookup scans.  src/ownable/Data/KeyBuilder.cs.             *)
(*                                                                         *)
(* A byte key is hash(type) ++ hash(key name) ++ hash(value) ++ hash(type) *)
(* ++ guid, with 64-bit hashes of the upper-cased text.  The hash is taken *)
(* to be injective on texts up to letter case, so an index key is a record *)
(* [type, key, value, id] and a scan from a prefix is the set of keys that *)
(* agree with it.  A text is a sequence of characters, kept as numbers in  *)
(* the order the code's string comparison puts them.                       *)
(***************************************************************************)
EXTENDS Integers, Sequences, SequencesExt

CONSTANTS
  Ids,          \* the GUIDs
  TypeOf,       \* the class of the record a GUID was made for
  FieldOrder,   \* for each class, its [Indexed] properties in name order
  Records       \* the records clients store: [id, field]

\* Every record has a GUID, drawn for one class only (Indexable.Id).
ASSUME RecordsAssumption == \A r \in Records : r.id \in Ids

NoBlock == -1

FieldsOf(type) == {FieldOrder[type][i] : i \in DOMAIN FieldOrder[type]}

\* The values of the properties in fs, one after the other in name order.
Joined(r, fs) ==
  LET names == SelectSeq(FieldOrder[TypeOf[r.id]], LAMBDA f : f \in fs)
  IN  FlattenSeq([i \in DOMAIN names |-> r.field[names[i]]])

\* Mutant of IndexKey: the class that declares the property.
IndexKeyDeclared(r, fs) ==
  [type |-> "Indexable", key |-> fs, value |-> Joined(r, fs), id |-> r.id]

IndexKey(r, fs) ==
  [type |-> TypeOf[r.id], key |-> fs, value |-> Joined(r, fs), id |-> r.id]

\* The "Id" key every record has besides those of its properties.
IdKey(r) ==
  [type |-> TypeOf[r.id], key |-> {"Id"}, value |-> <<r.id>>, id |-> r.id]

\* One key per property, one per combination of two or more, and the Id.
IndexKeys(r) ==
  {IdKey(r)} \cup
  {IndexKey(r, fs) : fs \in SUBSET FieldsOf(TypeOf[r.id]) \ {{}}}

AllKeys == UNION {IndexKeys(r) : r \in Records}
-----------------------------------------------------------------------------
(* Lookups.  scan: any value of the key; since: keep later blocks only.    *)

Lookup(type, key, value, scan, since) ==
  [type |-> type, key |-> key, value |-> value, scan |-> scan, since |-> since]

\* Find and FindSince: a blank value scans every value of the key.
Find(type, name, value, since) ==
  Lookup(type, {name}, value, value = <<>>, since)

\* Get<T>: every record of the class, by its Id keys.
Get(type) == Lookup(type, {"Id"}, <<>>, TRUE, NoBlock)

TextBefore(v, w) ==
  \/ Len(v) < Len(w) /\ v = SubSeq(w, 1, Len(v))
  \/ \E i \in DOMAIN v \cap DOMAIN w :
        v[i] < w[i] /\ SubSeq(v, 1, i - 1) = SubSeq(w, 1, i - 1)

\* OrderBy: the texts in order, each as often as it was given.
Sorted(texts) ==
  LET order == CHOOSE p \in Bijection(DOMAIN texts, DOMAIN texts) :
                 \A i, j \in DOMAIN texts : i < j => ~TextBefore(texts[p[j]], texts[p[i]])
  IN  [i \in DOMAIN texts |-> texts[order[i]]]

\* KeyLookup(type, keys[], values[]) sorts the names and, apart from them,
\* the values.
KeyLookup(type, names, values) ==
  Lookup(type, {names[i] : i \in DOMAIN names},
         FlattenSeq(Sorted(values)), FALSE, NoBlock)

Answers(k, q) ==
  /\ k.type = q.type
  /\ k.key = q.key
  /\ q.scan \/ k.value = q.value

BlockNumber(r) == Head(r.field["BlockNumber"])

After(r, since) == since = NoBlock \/ BlockNumber(r) > since
=============================================================================
