------------------------------- MODULE ZHashx -------------------------------
(***************************************************************************)
(* The zhashx hash table: buckets of chained items, a table that grows     *)
(* when it is 75% full and when a lookup walks a chain that is too long,   *)
(* and one cursor shared by iteration, lookups and insertions.  An item is *)
(* known by its key; a bucket is the sequence of the keys in its chain.    *)
(***************************************************************************)
EXTENDS Integers, Sequences, SequencesExt, FiniteSets

CONSTANTS
    Keys, Values, HashValues,
    Primes      \* the first entries of the table of primes

NULL == "NULL"
INITIAL_PRIME == 0
GROWTH_FACTOR == 5
LOAD_FACTOR == 75
INITIAL_CHAIN == 1
CHAIN_GROWS == 1

VARIABLES
    hash,       \* the hash function, fixed
    self,
    call,       \* the call that was made, its name and arguments; <<>> between calls
    result,     \* what it returns: <<>> for NULL or -1, else <<value>>
    iterating, seen     \* keys handed out since zhashx_first, if nothing else was called

vars == <<hash, self, call, result, iterating, seen>>

Limit(t) == Primes[t.prime_index + 1]
EmptyTable(prime_index) == [i \in 0 .. Primes[prime_index + 1] - 1 |-> <<>>]

zhashx_new ==
    [size |-> 0, prime_index |-> INITIAL_PRIME, chain_limit |-> INITIAL_CHAIN,
     items |-> EmptyTable(INITIAL_PRIME), cursor_index |-> 0,
     cursor_item |-> NULL, cursor_key |-> NULL,
     index |-> [k \in {} |-> 0], value |-> [k \in {} |-> 0]]

\* The keys in the order of a walk over the buckets.
zhashx_keys(t) == FlattenSeq([i \in 1 .. Limit(t) |-> t.items[i - 1]])

Stored(t) == DOMAIN t.value

\* The item after k in its chain.
After(t, k) ==
    LET chain == t.items[t.index[k]]
        at == SelectInSeq(chain, LAMBDA x : x = k)
    IN  IF at = Len(chain) THEN NULL ELSE chain[at + 1]

mut_item_destroy(t, k, hard) ==
    [t EXCEPT !.items[t.index[k]] = RemoveFirst(@, k), !.size = @ - 1,
              !.index = [x \in DOMAIN @ \ {k} |-> @[x]],
              !.value = [x \in DOMAIN @ \ {k} |-> @[x]]]

\* The chain is the one the item says it is in.
s_item_destroy(t, k, hard) ==
    [t EXCEPT !.items[t.index[k]] = RemoveFirst(@, k), !.size = @ - 1,
              !.index = [x \in DOMAIN @ \ {k} |-> @[x]],
              !.value = [x \in DOMAIN @ \ {k} |-> @[x]],
              !.cursor_item = IF hard THEN NULL ELSE @,
              !.cursor_key = IF hard THEN NULL ELSE @]

\* Items are taken in the order of the walk, each put first in its new bucket.
s_zhashx_rehash(t, prime_index) ==
    LET limit == Primes[prime_index + 1]
        walk == zhashx_keys(t)
    IN  [t EXCEPT !.prime_index = prime_index,
                  !.items = [i \in 0 .. limit - 1 |->
                      Reverse(SelectSeq(walk, LAMBDA k : hash[k] % limit = i))],
                  !.index = [k \in DOMAIN @ |-> hash[k] % limit]]

Grown(t) ==
    [s_zhashx_rehash(t, t.prime_index + GROWTH_FACTOR) EXCEPT !.chain_limit = @ + CHAIN_GROWS]

\* The number of items a lookup walks past, and the table after it.
Passed(t, k) ==
    LET chain == t.items[hash[k] % Limit(t)]
    IN  IF Contains(chain, k) THEN SelectInSeq(chain, LAMBDA x : x = k) - 1 ELSE Len(chain)

s_item_lookup(t, k) == IF Passed(t, k) > t.chain_limit THEN Grown(t) ELSE t

\* Does the lookup find it?
Found(t, k) == Contains(t.items[hash[k] % Limit(t)], k)

\* Put an item first in the bucket of its key, which the lookup cached.
Link(t, k, v, cached_index) ==
    [t EXCEPT !.items[cached_index] = <<k>> \o @, !.size = @ + 1,
              !.index = [x \in DOMAIN @ \cup {k} |-> IF x = k THEN cached_index ELSE @[x]],
              !.value = [x \in DOMAIN @ \cup {k} |-> IF x = k THEN v ELSE @[x]],
              !.cursor_item = k, !.cursor_key = k]

s_item_insert(t, k, v) ==
    LET looked == s_item_lookup(t, k)
    IN  IF Found(t, k) THEN looked ELSE Link(looked, k, v, hash[k] % Limit(looked))

\* A full table grows before the key is looked for, whether it is there or not.
Insert(t, k, v) ==
    s_item_insert(IF t.size >= (Limit(t) * LOAD_FACTOR) \div 100 THEN Grown(t) ELSE t, k, v)

\* Every item is destroyed, hard.
s_purge(t) ==
    IF Stored(t) = {} THEN t
    ELSE [t EXCEPT !.size = 0, !.items = EmptyTable(t.prime_index),
                   !.index = [k \in {} |-> 0], !.value = [k \in {} |-> 0],
                   !.cursor_item = NULL, !.cursor_key = NULL]

-----------------------------------------------------------------------------
(* The calls. *)

Init ==
    /\ hash \in [Keys -> HashValues]
    /\ self = zhashx_new /\ call = <<>> /\ result = <<>>
    /\ iterating = FALSE /\ seen = <<>>

\* Any call but zhashx_first and zhashx_next ends the iteration.
Calls(c) == call' = c /\ iterating' = FALSE /\ seen' = <<>> /\ UNCHANGED hash

zhashx_insert(k, v) ==
    /\ self' = Insert(self, k, v)
    /\ result' = IF Found(self, k) THEN <<>> ELSE <<v>>
    /\ Calls(<<"insert", k, v>>)

\* An item that is found gets the new value; the cursor stays where it is.
zhashx_update(k, v) ==
    /\ self' = LET looked == s_item_lookup(self, k)
               IN  IF Found(self, k) THEN [looked EXCEPT !.value[k] = v]
                                     ELSE Insert(looked, k, v)
    /\ result' = <<>>
    /\ Calls(<<"update", k, v>>)

zhashx_delete(k) ==
    /\ self' = LET looked == s_item_lookup(self, k)
               IN  IF Found(self, k) THEN s_item_destroy(looked, k, TRUE) ELSE looked
    /\ result' = <<>>
    /\ Calls(<<"delete", k>>)

zhashx_purge ==
    /\ self' = LET purged == s_purge(self)
               IN  IF purged.prime_index > INITIAL_PRIME
                     THEN [purged EXCEPT !.prime_index = INITIAL_PRIME,
                                         !.chain_limit = INITIAL_CHAIN,
                                         !.items = EmptyTable(INITIAL_PRIME)]
                     ELSE purged
    /\ result' = <<>>
    /\ Calls(<<"purge">>)

zhashx_lookup(k) ==
    /\ self' = LET looked == s_item_lookup(self, k)
               IN  IF Found(self, k) THEN [looked EXCEPT !.cursor_item = k, !.cursor_key = k]
                                     ELSE looked
    /\ result' = IF Found(self, k) THEN <<self.value[k]>> ELSE <<>>
    /\ Calls(<<"lookup", k>>)

\* Looks the item up without moving the cursor.
zhashx_freefn(k) ==
    /\ self' = s_item_lookup(self, k)
    /\ result' = IF Found(self, k) THEN <<self.value[k]>> ELSE <<>>
    /\ Calls(<<"lookup", k>>)

\* The second lookup may move the item that the first one found.
zhashx_rename(old_key, new_key) ==
    LET looked == s_item_lookup(self, old_key)
        again == s_item_lookup(looked, new_key)
        moves == Found(self, old_key) /\ ~Found(looked, new_key)
    IN  /\ self' = IF moves
                     THEN Link(s_item_destroy(again, old_key, FALSE), new_key,
                               self.value[old_key], hash[new_key] % Limit(again))
                     ELSE again
        /\ result' = IF moves THEN <<self.value[old_key]>> ELSE <<>>
        /\ Calls(<<"rename", old_key, new_key>>)

\* The bucket in which a scan from the cursor stops, the last one if all are empty.
Scan(t) ==
    LET limit == Limit(t)
        ahead == {i \in t.cursor_index + 1 .. limit - 1 : t.items[i] # <<>>}
    IN  CASE t.cursor_item # NULL -> t.cursor_index
          [] ahead # {} -> Min(ahead)
          [] OTHER -> Max({limit - 1, t.cursor_index})

\* Hand out the item at the cursor, or else the next one in a later bucket.
Step(t, handed) ==
    LET at == Scan(t)
        item == IF t.cursor_item # NULL THEN t.cursor_item
                ELSE IF at > t.cursor_index /\ t.items[at] # <<>> THEN t.items[at][1]
                ELSE NULL
    IN  /\ self' = [t EXCEPT !.cursor_index = at,
                             !.cursor_key = IF item = NULL THEN @ ELSE item,
                             !.cursor_item = IF item = NULL THEN NULL ELSE After(t, item)]
        /\ result' = IF item = NULL THEN <<>> ELSE <<t.value[item]>>
        /\ iterating' = (item # NULL /\ handed # <<NULL>>)
        /\ seen' = IF item = NULL \/ handed = <<NULL>> THEN <<>> ELSE Append(handed, item)
        /\ UNCHANGED hash

zhashx_first ==
    call' = <<"first">> /\ Step([self EXCEPT !.cursor_index = 0,
                      !.cursor_item = IF self.items[0] = <<>> THEN NULL ELSE self.items[0][1]],
         <<>>)

zhashx_next == call' = <<"next">> /\ Step(self, IF iterating THEN seen ELSE <<NULL>>)

Call ==
    \/ \E k \in Keys, v \in Values : zhashx_insert(k, v) \/ zhashx_update(k, v)
    \/ \E k \in Keys : zhashx_delete(k) \/ zhashx_lookup(k) \/ zhashx_freefn(k)
    \/ \E old_key, new_key \in Keys : zhashx_rename(old_key, new_key)
    \/ zhashx_purge \/ zhashx_first \/ zhashx_next

Return ==
    /\ call # <<>>
    /\ call' = <<>> /\ result' = <<>> /\ UNCHANGED <<hash, self, iterating, seen>>

Next == (call = <<>> /\ Call) \/ Return

Spec == Init /\ [][Next]_vars

-----------------------------------------------------------------------------
(* Properties. *)

\* Each stored item is in the chain of its own hash value, once, and its index
\* says so, through insertions, renames and both kinds of growth; size counts them.
ItemsPlaced ==
    /\ self.size = Cardinality(Stored(self))
    /\ Len(zhashx_keys(self)) = self.size
    /\ \A k \in Stored(self) : /\ self.index[k] = hash[k] % Limit(self)
                               /\ Contains(self.items[self.index[k]], k)

\* The cursor never points to an item, or to the key of an item, that was freed:
\* not after a deletion, a rename, a purge, nor a growth that moved the items.
CursorLive ==
    /\ self.cursor_item \in Stored(self) \cup {NULL}
    /\ self.cursor_key \in Stored(self) \cup {NULL}

\* The table is to its caller a finite map whose iteration hands out each entry
\* once; growth, chains and the cursor are invisible.
Map == INSTANCE ZMap WITH
    map <- self.value,
    todo <- IF iterating THEN Stored(self) \ ToSet(seen) ELSE {}

IsMap == Map!MapSpec
=============================================================================
