------------------------------ MODULE StropheHash ------------------------------
(* The hash table of libstrophe (hash.c), in which a stanza keeps its           *)
(* attributes: a sequence of buckets, each a chain of entries, newest first.    *)
(* What _hash_key makes of a key is a constant, the number of its bucket.       *)
EXTENDS Naturals, SequencesExt

CONSTANTS Length,    \* the number of buckets
          Bucket     \* [key |-> the bucket it is hashed to, in 1 .. Length]

ASSUME LengthAssumption == Length \in Nat \ {0}
ASSUME BucketAssumption == \A key \in DOMAIN Bucket : Bucket[key] \in 1 .. Length

HashNew == [i \in 1 .. Length |-> <<>>]

HashGet(table, key) ==
  SelectSeq(table[Bucket[key]], LAMBDA e : e.key = key)[1].value

HashDrop(table, key) ==
  [table EXCEPT ![Bucket[key]] = RemoveFirstMatch(@, LAMBDA e : e.key = key)]

(* Mutant: the entry that the key had is not dropped.                           *)
HashAddTwice(table, key, value) ==
  [table EXCEPT ![Bucket[key]] = <<[key |-> key, value |-> value]>> \o @]

HashAdd(table, key, value) ==
  [HashDrop(table, key) EXCEPT
     ![Bucket[key]] = <<[key |-> key, value |-> value]>> \o @]

Entries(table) == FlattenSeq(table)
HashNumKeys(table) == Len(Entries(table))

(* The keys in the order in which the iterator returns them.  Having returned   *)
(* the first entry of the last bucket it takes itself to be past the end, so    *)
(* that those chained behind it are never returned.                             *)
HashKeys(table) ==
  LET seen == [table EXCEPT ![Length] = IF @ = <<>> THEN @ ELSE <<Head(@)>>]
  IN [i \in DOMAIN Entries(seen) |-> Entries(seen)[i].key]
===============================================================================
