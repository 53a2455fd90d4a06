----------------------------- MODULE HashString -----------------------------
(***************************************************************************)
(* The hash table behind the process table (utility/HashString.c and .h).  *)
(*                                                                         *)
(* A table is a function from buckets, numbered from 0 as in the code, to  *)
(* chains of keys.  The values that go with the keys are kept by whoever   *)
(* uses the table.                                                         *)
(***************************************************************************)
EXTENDS Integers, Sequences, SequencesExt, FiniteSetsExt

CONSTANTS
    Keys,
    NoKey,      \* the NULL entry
    Size,       \* number of buckets
    Hash        \* HashString_hash, the bucket of every key

ASSUME HashAssumption ==
    /\ NoKey \notin Keys
    /\ Size \in Nat \ {0}
    /\ Hash \in [Keys -> 0..(Size - 1)]

Buckets == 0..(Size - 1)

EmptyTable == [b \in Buckets |-> <<>>]

Chain(t, k) == t[Hash[k]]
Has(t, k) == \E i \in DOMAIN Chain(t, k) : Chain(t, k)[i] = k

(* HashString_add: new keys go to the head of their chain.                 *)
AddEntry(t, k) == IF Has(t, k) THEN t ELSE [t EXCEPT ![Hash[k]] = <<k>> \o @]

(* A table to which names were added one after the other.                  *)
Filled(names) ==
    LET after[n \in 0..Len(names)] ==
            IF n = 0 THEN EmptyTable ELSE AddEntry(after[n - 1], names[n])
    IN  after[Len(names)]

(* HashString_remove looks at the first entry, then moves on by one before *)
(* it begins to compare: the second entry is never looked at, and behind   *)
(* the last one the loop follows NULL.                                     *)
AtHead(t, k) == Chain(t, k) # <<>> /\ Head(Chain(t, k)) = k
Behind(t, k) == {i \in DOMAIN Chain(t, k) : i > 2 /\ Chain(t, k)[i] = k}
RemoveFollowsNull(t, k) ==
    Len(Chain(t, k)) > 1 /\ ~AtHead(t, k) /\ Behind(t, k) = {}
RemoveEntry(t, k) ==
    [t EXCEPT ![Hash[k]] =
        IF AtHead(t, k) THEN Tail(@)
        ELSE IF Behind(t, k) # {} THEN RemoveAt(@, CHOOSE i \in Behind(t, k) : TRUE)
        ELSE @]

-----------------------------------------------------------------------------
(* HASH_STRING_ITER.  A cursor is the pair of entry and i: i is one beyond *)
(* the bucket in which the entry was found.                                *)
Scan(t, i) ==
    LET found == {b \in Buckets : b >= i /\ t[b] # <<>>}
    IN  IF found = {} THEN [entry |-> NoKey, i |-> Size]
        ELSE [entry |-> Head(t[Min(found)]), i |-> Min(found) + 1]

FirstEntry(t) == Scan(t, 0)

NextEntry(t, cursor) ==
    LET chain == Chain(t, cursor.entry)
        at == CHOOSE i \in DOMAIN chain : chain[i] = cursor.entry
    IN  IF at < Len(chain) THEN [cursor EXCEPT !.entry = chain[at + 1]]
        ELSE Scan(t, cursor.i)

(* The condition of the loop.                                              *)
InLoop(cursor) == cursor.i < Size /\ cursor.entry # NoKey
=============================================================================
