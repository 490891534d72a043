-------------------------------- MODULE ZMap --------------------------------
(***************************************************************************)
(* What a hash table promises its caller: a finite map from keys to values *)
(* and an iteration that hands out every entry exactly once, in any order, *)
(* as long as only zhashx_next is called.                                  *)
(***************************************************************************)
EXTENDS Integers, FiniteSets, Functions

CONSTANTS Keys, Values

VARIABLES
    map,        \* a function from a subset of Keys to Values
    todo,       \* while iterating, the keys not yet handed out
    iterating,
    call,       \* the call that was made, its name and arguments; <<>> between calls
    result      \* what it returns: <<>> for NULL or -1, else <<value>>

vars == <<map, todo, iterating, call, result>>

Got(m, k) == IF k \in DOMAIN m THEN <<m[k]>> ELSE <<>>
Put(m, k, v) == [x \in DOMAIN m \cup {k} |-> IF x = k THEN v ELSE m[x]]
Without(m, k) == Restrict(m, DOMAIN m \ {k})

MapInit ==
    /\ map = [k \in {} |-> 0] /\ todo = {} /\ iterating = FALSE
    /\ call = <<>> /\ result = <<>>

Calls(c) == call' = c /\ todo' = {} /\ iterating' = FALSE

Insert(k, v) ==
    /\ map' = IF k \in DOMAIN map THEN map ELSE Put(map, k, v)
    /\ result' = IF k \in DOMAIN map THEN <<>> ELSE <<v>>
    /\ Calls(<<"insert", k, v>>)

Update(k, v) == map' = Put(map, k, v) /\ result' = <<>> /\ Calls(<<"update", k, v>>)

Delete(k) == map' = Without(map, k) /\ result' = <<>> /\ Calls(<<"delete", k>>)

Lookup(k) == map' = map /\ result' = Got(map, k) /\ Calls(<<"lookup", k>>)

Rename(old, new) ==
    LET moves == old \in DOMAIN map /\ new \notin DOMAIN map
    IN  /\ map' = IF moves THEN Put(Without(map, old), new, map[old]) ELSE map
        /\ result' = IF moves THEN <<map[old]>> ELSE <<>>
        /\ Calls(<<"rename", old, new>>)

Purge == map' = [k \in {} |-> 0] /\ result' = <<>> /\ Calls(<<"purge">>)

\* Hand out one of the keys in left, or NULL when there is none.
HandOut(left) ==
    /\ map' = map /\ iterating' = (left # {})
    /\ IF left = {} THEN todo' = {} /\ result' = <<>>
                    ELSE \E k \in left : todo' = left \ {k} /\ result' = <<map[k]>>

First == call' = <<"first">> /\ HandOut(DOMAIN map)

Continue == iterating /\ call' = <<"next">> /\ HandOut(todo)

\* zhashx_next without an iteration in progress promises nothing about order.
NextAnyway ==
    /\ ~iterating /\ map' = map
    /\ result' = <<>> \/ \E k \in DOMAIN map : result' = <<map[k]>>
    /\ Calls(<<"next">>)

Call ==
    \/ \E k \in Keys, v \in Values : Insert(k, v) \/ Update(k, v)
    \/ \E k \in Keys : Delete(k) \/ Lookup(k)
    \/ \E old, new \in Keys : Rename(old, new)
    \/ Purge \/ First \/ Continue \/ NextAnyway

Return == call # <<>> /\ call' = <<>> /\ result' = <<>> /\ UNCHANGED <<map, todo, iterating>>

MapNext == (call = <<>> /\ Call) \/ Return

MapSpec == MapInit /\ [][MapNext]_vars
=============================================================================
