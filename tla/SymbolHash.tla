----------------------------- MODULE SymbolHash -----------------------------
(***************************************************************************)
(* The symbol table of the compiler (spvm_hash.c): a chained hash.  Keys   *)
(* are sequences, an entry holds its key, its value and the index of the   *)
(* next entry of its chain; indexes count from 1 and NoEntry is the -1 of  *)
(* the code.  Entries are never removed, and found by key only: a table    *)
(* that grows inserts every entry again into a new one.                    *)
(***************************************************************************)
EXTENDS Integers, Sequences, FiniteSets

CONSTANT HashOf(_)  \* the hash of a key: any natural number

NoEntry == 0
Missing == 0        \* what fetch returns for a key that is not there

(* entries_length and key_buffer_length are lengths of what is stored;     *)
(* the capacities are those of the memory allocated for it.                *)
NewHash(capacity) ==
  [table |-> [i \in 0..capacity - 1 |-> NoEntry], entries |-> <<>>,
   entriesCapacity |-> 1, keysLength |-> 0, keysCapacity |-> 1]

Capacity(hash)    == Cardinality(DOMAIN hash.table)
Bucket(hash, key) == HashOf(key) % Capacity(hash)

(* The entry of a key, or NoEntry: its chain is followed from the table.   *)
Walk(hash, key) ==
  LET walk[i \in 0..Len(hash.entries)] ==
        IF i = NoEntry \/ hash.entries[i].key = key THEN i ELSE walk[hash.entries[i].next]
  IN walk
Find(hash, key) == Walk(hash, key)[hash.table[Bucket(hash, key)]]

Fetch(hash, key) ==
  LET i == Find(hash, key) IN IF i = NoEntry THEN Missing ELSE hash.entries[i].value

(* The last entry of a chain that is not empty.                            *)
Ends(hash) ==
  LET end[i \in 1..Len(hash.entries)] ==
        IF hash.entries[i].next = NoEntry THEN i ELSE end[hash.entries[i].next]
  IN end
ChainEnd(hash, first) == Ends(hash)[first]

(* A word for the length is stored in front of a key.                      *)
GrownKeys(hash, bytes) ==
  IF hash.keysLength + bytes + 4 >= hash.keysCapacity
  THEN (hash.keysLength + bytes + 4) * 2
  ELSE hash.keysCapacity

GrownEntries(hash) ==
  IF Len(hash.entries) >= hash.entriesCapacity
  THEN hash.entriesCapacity * 2
  ELSE hash.entriesCapacity

NewEntry(hash, key, bytes, value) ==
  [hash EXCEPT !.entries = Append(@, [key |-> key, bytes |-> bytes, value |-> value, next |-> NoEntry]),
               !.entriesCapacity = GrownEntries(hash),
               !.keysCapacity = GrownKeys(hash, bytes),
               !.keysLength = @ + bytes + 4]

InsertNoRehash(hash, key, bytes, value) ==
  LET found == Find(hash, key)
      first == hash.table[Bucket(hash, key)]
      added == NewEntry(hash, key, bytes, value)
      index == Len(added.entries)
  IN IF found # NoEntry THEN [hash EXCEPT !.entries[found].value = value]
     ELSE IF first = NoEntry THEN [added EXCEPT !.table[Bucket(hash, key)] = index]
     ELSE [added EXCEPT !.entries[ChainEnd(hash, first)].next = index]

(* Every entry is inserted into a new table.  The deviation keeps the      *)
(* chains and only allocates a larger table.                               *)
RehashOfTableOnly(hash, capacity) ==
  [hash EXCEPT !.table = [i \in 0..capacity - 1 |-> IF i \in DOMAIN @ THEN @[i] ELSE NoEntry]]
Again(new, e) == InsertNoRehash(new, e.key, e.bytes, e.value)
Reinserted(hash, capacity) ==
  LET first[n \in 0..Len(hash.entries)] ==
        IF n = 0 THEN NewHash(capacity) ELSE Again(first[n - 1], hash.entries[n])
  IN first
Rehash(hash, capacity) == Reinserted(hash, capacity)[Len(hash.entries)]

(* entries_length > table_capacity * 0.75 is decided before the insertion. *)
Insert(hash, key, bytes, value) ==
  LET room == IF 4 * Len(hash.entries) > 3 * Capacity(hash)
              THEN Rehash(hash, 2 * Capacity(hash) + 1) ELSE hash
  IN InsertNoRehash(room, key, bytes, value)
=============================================================================
