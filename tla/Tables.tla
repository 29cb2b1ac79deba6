------------------------------- MODULE Tables -------------------------------
(***************************************************************************)
(* An OrderedDict (collections) as a sequence of rows, each with its key,  *)
(* in the order of the dictionary: the oldest first. A new key goes to the *)
(* end; popitem(last=False) takes the first; a key has one row.            *)
(***************************************************************************)
EXTENDS SequencesExt

Keys(table) == {table[i].key : i \in DOMAIN table}

\* Where the row of a key stands.
Place(table, key) == CHOOSE i \in DOMAIN table : table[i].key = key

RowOf(table, key) == table[Place(table, key)]

\* A row changed where it stands.
Put(table, row) == [table EXCEPT ![Place(table, row.key)] = row]

\* pop(key, None)
Without(table, key) == IF key \in Keys(table) THEN RemoveAt(table, Place(table, key)) ELSE table

OneRowEach(table) == \A i, j \in DOMAIN table : table[i].key = table[j].key => i = j
=============================================================================
