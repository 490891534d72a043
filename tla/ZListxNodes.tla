---------------------------- MODULE ZListxNodes ----------------------------
(***************************************************************************)
(* The linked nodes of src/src/zlistx.c: a ring through the head node, in  *)
(* which inserting and removing a node are the same two swaps of links.    *)
(* `links` holds the next and prev pointers of all nodes, allocated or     *)
(* not; s_node_new makes a node point to itself, and a removed node does.  *)
(***************************************************************************)
EXTENDS Integers, Sequences, FiniteSets

CONSTANTS
    NodeIds,    \* the addresses malloc can return for a node
    Items       \* the items, numbers that the comparator compares

\* The address of the head node.
HeadNode == 0

ASSUME NodesAssumption == NodeIds \subseteq Nat \ {HeadNode} /\ IsFiniteSet(NodeIds)
                          /\ Items \subseteq Nat

Addresses == NodeIds \cup {HeadNode}

VARIABLES links, cursor, size, item, used

vars == <<links, cursor, size, item, used>>

Init ==
    /\ links = [next |-> [n \in Addresses |-> n], prev |-> [n \in Addresses |-> n]]
    /\ cursor = HeadNode /\ size = 0
    /\ item = [n \in NodeIds |-> 0]
    /\ used = {}

mut_relink_next_only(l, node, p, n) ==
    [l EXCEPT !.next = [l.next EXCEPT ![node] = l.next[p], ![p] = l.next[node]]]

\* swap (node->next, prev->next) and swap (node->prev, next->prev)
s_node_relink(l, node, p, n) ==
    [next |-> [l.next EXCEPT ![node] = l.next[p], ![p] = l.next[node]],
     prev |-> [l.prev EXCEPT ![node] = l.prev[n], ![n] = l.prev[node]]]

Unlinked(l, node) == s_node_relink(l, node, l.prev[node], l.next[node])
LinkedBefore(l, node, n) == s_node_relink(l, node, l.prev[n], n)
LinkedAfter(l, node, p) == s_node_relink(l, node, p, l.next[p])

s_node_new(node, i) ==
    /\ node \in NodeIds \ used
    /\ used' = used \cup {node}
    /\ item' = [item EXCEPT ![node] = i]
    /\ cursor' = HeadNode
    /\ size' = size + 1

zlistx_add_start(node, i) == s_node_new(node, i) /\ links' = LinkedAfter(links, node, HeadNode)

zlistx_add_end(node, i) == s_node_new(node, i) /\ links' = LinkedBefore(links, node, HeadNode)

SetCursor(node) == cursor' = node /\ UNCHANGED <<links, size, item, used>>

zlistx_first == SetCursor(links.next[HeadNode])
zlistx_next  == SetCursor(links.next[cursor])
zlistx_prev  == SetCursor(links.prev[cursor])
zlistx_last  == SetCursor(links.prev[HeadNode])

\* A walk along `step` from the head: the first node that passes, or the head.
Scan(step, passes) ==
    LET at[k \in 0..Cardinality(NodeIds)] ==
            IF k = 0 THEN step[HeadNode]
            ELSE IF at[k - 1] = HeadNode \/ at[k - 1] \in passes THEN at[k - 1]
            ELSE step[at[k - 1]]
    IN  at[Cardinality(NodeIds)]

zlistx_find(i) ==
    LET node == Scan(links.next, {n \in NodeIds : item[n] = i})
    IN  SetCursor(IF node = HeadNode THEN cursor ELSE node)

mut_cursor_dangles(node) == cursor

mut_cursor_rewinds(node) == IF cursor = node THEN HeadNode ELSE cursor

\* A cursor on the node that goes away steps back.
CursorWithout(node) == IF cursor = node THEN links.prev[cursor] ELSE cursor

\* With no handle (the head here) the first node is detached, if there is one.
zlistx_detach(handle) ==
    LET node == IF handle = HeadNode THEN links.next[HeadNode] ELSE handle IN
    /\ handle \in used \cup {HeadNode}
    /\ IF node = HeadNode
       THEN UNCHANGED vars
       ELSE /\ cursor' = CursorWithout(node)
            /\ links' = Unlinked(links, node)
            /\ used' = used \ {node} /\ size' = size - 1
            /\ UNCHANGED item

zlistx_detach_cur == zlistx_detach(cursor)

zlistx_purge ==
    /\ links' = [next |-> [n \in Addresses |-> n], prev |-> [n \in Addresses |-> n]]
    /\ cursor' = HeadNode /\ size' = 0 /\ used' = {}
    /\ UNCHANGED item

Relink(l) == links' = l /\ UNCHANGED <<cursor, size, item, used>>

zlistx_move_start(node) ==
    LET n == links.next[HeadNode] IN
    /\ node \in used
    /\ Relink(IF node = n THEN links ELSE LinkedBefore(Unlinked(links, node), node, n))

zlistx_move_end(node) ==
    LET p == links.prev[HeadNode] IN
    /\ node \in used
    /\ Relink(IF node = p THEN links ELSE LinkedAfter(Unlinked(links, node), node, p))

\* The first node that is not lower, or from the end the first that is not higher.
Place(l, i, low) ==
    IF low THEN Scan(l.next, {n \in NodeIds : i <= item[n]})
           ELSE Scan(l.prev, {n \in NodeIds : item[n] <= i})

\* Out of the list, if the node is in it, and back in at its place.
Reordered(node, i, low, linked) ==
    LET l == Unlinked(links, node) IN
    \E at \in used \cup {HeadNode} :
        /\ at = Place(l, i, low)
        /\ linked = IF low THEN LinkedBefore(l, node, at) ELSE LinkedAfter(l, node, at)

zlistx_reorder(node, low) ==
    /\ node \in used
    /\ Reordered(node, item[node], low, links')
    /\ UNCHANGED <<cursor, size, item, used>>

zlistx_insert(node, i, low) ==
    /\ s_node_new(node, i)
    /\ Reordered(node, i, low, links')

Next ==
    \/ \E node \in NodeIds, i \in Items :
          \/ zlistx_add_start(node, i) \/ zlistx_add_end(node, i)
          \/ \E low \in BOOLEAN : zlistx_insert(node, i, low)
    \/ zlistx_first \/ zlistx_next \/ zlistx_prev \/ zlistx_last
    \/ \E i \in Items : zlistx_find(i)
    \/ \E handle \in Addresses : zlistx_detach(handle)
    \/ zlistx_detach_cur \/ zlistx_purge
    \/ \E node \in NodeIds : \/ zlistx_move_start(node) \/ zlistx_move_end(node)
                             \/ \E low \in BOOLEAN : zlistx_reorder(node, low)

Spec == Init /\ [][Next]_vars
-----------------------------------------------------------------------------
\* The nodes in the order of their next pointers, from the head.
Walk ==
    LET at[k \in 1..size] == IF k = 1 THEN links.next[HeadNode] ELSE links.next[at[k - 1]]
    IN  [k \in 1..size |-> at[k]]

Abstract == INSTANCE ZListx WITH list <- [seq |-> Walk, cur |-> cursor]

\* Every operation on the ring of nodes is the operation on the sequence of nodes
\* and its cursor that ZListx says it is.
Refines == Abstract!Spec

\* The next and prev pointers are each other's inverse, for the nodes in the list
\* and for the others: no swap of links ever leaves a half linked node behind.
LinksInverse ==
    \A n \in Addresses : /\ links.next[n] \in Addresses /\ links.prev[n] \in Addresses
                         /\ links.prev[links.next[n]] = n /\ links.next[links.prev[n]] = n

\* The ring through the head has exactly the allocated nodes, size of them.
RingWhole ==
    /\ Cardinality(used) = size
    /\ {Walk[k] : k \in 1..size} = used
    /\ size > 0 => links.next[Walk[size]] = HeadNode
    /\ \A n \in NodeIds \ used : links.next[n] = n
    /\ cursor \in used \cup {HeadNode}

=============================================================================
