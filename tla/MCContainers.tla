---------------------------- MODULE MCContainers ----------------------------
(***************************************************************************)
(* The containers zlistx and zhashx, each shown to implement what it is to *)
(* its caller. A behaviour is one of its subject; the variables of the     *)
(* other stay as they begin. Four nodes are enough for a node moved        *)
(* between two others that are neither its neighbours nor the head; four   *)
(* keys for chains, a table that grows, and one that grows early because a *)
(* chain is long.                                                          *)
(***************************************************************************)
EXTENDS ZListxNodes, TLC

CONSTANTS Keys      \* keys of the hash table, any of which may be exchanged

VARIABLES
    subject,
    hash, self, call, result, iterating, seen

hash_vars == <<hash, self, call, result, iterating, seen>>

Primes == <<3, 5, 7, 11, 13, 17, 19, 23, 29, 31, 43, 47, 53, 59, 61, 103, 107, 109,
            113, 127, 229>>

Hash == INSTANCE ZHashx WITH Values <- {1, 2}, HashValues <- {0, 51}

Exchangeable == Permutations(Keys)

ContainersInit ==
    /\ subject \in {"zlistx", "zhashx"} /\ Init
    /\ Hash!Init /\ (subject = "zhashx" \/ hash = [k \in Keys |-> 0])

zlistx_step ==
    /\ subject = "zlistx" /\ Next
    /\ UNCHANGED <<subject, hash_vars>>

zhashx_step ==
    /\ subject = "zhashx" /\ Hash!Next
    /\ UNCHANGED <<subject, vars>>

ContainersNext ==
    \/ zlistx_step \/ zhashx_step

ContainersSpec ==
    /\ ContainersInit
    /\ [][ContainersNext]_<<subject, vars, hash_vars>>

-----------------------------------------------------------------------------
(* The properties of the instances. *)

\* zhashx: the table is to its caller a finite map, because every item is in the chain of
\* its hash value, once, and is counted, whenever the table grew, and the cursor never
\* points to a freed item or key.
IsMap ==
    /\ Hash!IsMap
    /\ [](Hash!ItemsPlaced /\ Hash!CursorLive)

=============================================================================
