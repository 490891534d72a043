------------------------------- MODULE ZListx -------------------------------
(***************************************************************************)
(* What czmq's extended list (src/src/zlistx.c) promises its callers: a    *)
(* sequence of nodes, each holding an item, and a cursor that survives     *)
(* insertions, deletions and moves in the middle of an iteration.  Items   *)
(* are numbers and the comparator is their order.  zlistx_sort is modelled *)
(* in ZListxSort, where its loop is.                                       *)
(***************************************************************************)
EXTENDS ZListxOps

CONSTANTS
    NodeIds,    \* the addresses malloc can return for a node
    Items       \* the items

VARIABLES list, item

vars == <<list, item>>

Init == list = EmptyList /\ item = [n \in NodeIds |-> 0]

Fresh == NodeIds \ Nodes(list)

\* The number of nodes a sorted insertion passes over, from the front or the back.
Place(seq, i, low) ==
    IF low THEN CHOOSE k \in 0..Len(seq) :
                    /\ \A j \in 1..k : i > item[seq[j]]
                    /\ k < Len(seq) => i <= item[seq[k + 1]]
           ELSE CHOOSE k \in 0..Len(seq) :
                    /\ \A j \in (k + 1)..Len(seq) : item[seq[j]] > i
                    /\ k > 0 => item[seq[k]] <= i

Placed(seq, node, i, low) == Inserted(seq, Place(seq, i, low) + 1, node)

Add(node, i, added) ==
    /\ node \in Fresh
    /\ list' = added
    /\ item' = [item EXCEPT ![node] = i]

Move(moved) == list' = moved /\ UNCHANGED item

Reordered(node, low) ==
    [list EXCEPT !.seq = Placed(Removed(@, Position(list, node)), node, item[node], low)]

\* The first node whose item is the one sought; the cursor stays if there is none.
Found(i) ==
    LET hits == {k \in 1..Len(list.seq) : item[list.seq[k]] = i}
    IN  IF hits = {} THEN list
        ELSE [list EXCEPT !.cur = list.seq[CHOOSE k \in hits : \A m \in hits : k <= m]]

Next ==
    \/ \E node \in NodeIds, i \in Items :
          \/ Add(node, i, add_start(list, node))
          \/ Add(node, i, add_end(list, node))
          \/ \E low \in BOOLEAN :
                Add(node, i, [seq |-> Placed(list.seq, node, i, low), cur |-> NoNode])
    \/ \E moved \in {first(list), last(list), next(list), prev(list)} : Move(moved)
    \/ \E i \in Items : Move(Found(i))
    \/ \E node \in Nodes(list) : \/ Move(detach(list, node))
                                 \/ Move(move_start(list, node))
                                 \/ Move(move_end(list, node))
                                 \/ \E low \in BOOLEAN : Move(Reordered(node, low))
    \/ Move(EmptyList)

Spec == Init /\ [][Next]_vars
=============================================================================
