-------------------------------- MODULE ZList --------------------------------
(***************************************************************************)
(* The zlist: singly linked nodes with a head, a tail and one cursor.  The *)
(* history variable `list` is the sequence of items the calls so far       *)
(* should leave; `ahead` is what an iteration in progress has still to     *)
(* visit: it may remove any item, the current one included.                *)
(***************************************************************************)
EXTENDS Integers, Sequences, SequencesExt, FiniteSets

CONSTANTS
    NodeIds,    \* the addresses malloc can return for a node
    Items,      \* numbers, in the order of the compare function
    SortsMarked \* may a list be sorted that has items with a free function?

NULL == 0

VARIABLES
    head, tail, cursor, size,
    next, item, free_fn, used,      \* the fields of the nodes, and those in use
    list, iterating, ahead,
    marked      \* the items in the list for which zlist_freefn was called last

nodes == <<head, tail, next, item, free_fn, used, size>>
vars == <<nodes, cursor, list, iterating, ahead, marked>>

Init ==
    /\ head = NULL /\ tail = NULL /\ cursor = NULL /\ size = 0
    /\ next = [n \in NodeIds |-> NULL] /\ item = [n \in NodeIds |-> NULL] /\ used = {}
    /\ free_fn = [n \in NodeIds |-> FALSE] /\ marked = {}
    /\ list = <<>> /\ iterating = FALSE /\ ahead = <<>>

\* The nodes from the head on; a chain that does not end is cut when too long.
Chain ==
    LET nth[k \in 0 .. Cardinality(NodeIds)] ==
            IF k = 0 THEN head ELSE IF nth[k - 1] = NULL THEN NULL ELSE next[nth[k - 1]]
    IN  SelectSeq([k \in 1 .. Cardinality(NodeIds) + 1 |-> nth[k - 1]], LAMBDA n : n # NULL)

\* An iteration ends when the caller adds or pops items, or starts over.
Abandon == iterating' = FALSE /\ ahead' = <<>>

\* What the calls leave in the list.
Leaves(l) == list' = l /\ marked' = marked \cap ToSet(l)

\* Nodes are freed and the links changed; zmalloc hands nodes out zeroed.
Free(gone, links) ==
    /\ used' = used \ gone
    /\ next' = [n \in NodeIds |-> IF n \in gone THEN NULL ELSE links[n]]
    /\ item' = [n \in NodeIds |-> IF n \in gone THEN NULL ELSE item[n]]
    /\ free_fn' = [n \in NodeIds |-> free_fn[n] /\ n \notin gone]

zlist_append(node, i) ==
    /\ node \in NodeIds \ used
    /\ next' = IF tail # NULL THEN [next EXCEPT ![tail] = node] ELSE next
    /\ head' = IF tail # NULL THEN head ELSE node
    /\ tail' = node /\ item' = [item EXCEPT ![node] = i] /\ used' = used \cup {node}
    /\ size' = size + 1 /\ cursor' = NULL
    /\ Leaves(Append(list, i)) /\ Abandon
    /\ UNCHANGED free_fn

zlist_push(node, i) ==
    /\ node \in NodeIds \ used
    /\ next' = [next EXCEPT ![node] = head]
    /\ head' = node /\ tail' = IF tail = NULL THEN node ELSE tail
    /\ item' = [item EXCEPT ![node] = i] /\ used' = used \cup {node}
    /\ size' = size + 1 /\ cursor' = NULL
    /\ Leaves(<<i>> \o list) /\ Abandon
    /\ UNCHANGED free_fn

zlist_pop ==
    /\ IF head = NULL THEN UNCHANGED nodes
       ELSE /\ head' = next[head] /\ tail' = IF tail = head THEN NULL ELSE tail
            /\ Free({head}, next) /\ size' = size - 1
    /\ cursor' = NULL
    /\ Leaves(IF list = <<>> THEN <<>> ELSE Tail(list))
    /\ Abandon

\* The first node with the item and the node before it, NULL if there is none.
Match(i) == SelectInSeq(Chain, LAMBDA n : item[n] = i)
Node(at) == IF at \in 1 .. Len(Chain) THEN Chain[at] ELSE NULL

TailWithout(node, prev) == IF next[node] = NULL THEN prev ELSE tail

mut_cursor_without(node, prev) == IF cursor = node THEN next[node] ELSE cursor

\* A cursor on the node that goes away steps back.
CursorWithout(node, prev) == IF cursor = node THEN prev ELSE cursor

zlist_remove(i) ==
    LET node == Node(Match(i))
        prev == Node(Match(i) - 1)
    IN  /\ IF node = NULL THEN UNCHANGED <<nodes, cursor, ahead>>
           ELSE /\ Free({node}, IF prev # NULL THEN [next EXCEPT ![prev] = next[node]] ELSE next)
                /\ head' = IF prev # NULL THEN head ELSE next[node]
                /\ tail' = TailWithout(node, prev)
                /\ cursor' = CursorWithout(node, prev)
                /\ size' = size - 1
                /\ ahead' = RemoveFirst(ahead, node)
        /\ Leaves(RemoveFirst(list, i))
        /\ UNCHANGED iterating

zlist_purge ==
    /\ head' = NULL /\ tail' = NULL /\ cursor' = NULL /\ size' = 0 /\ Free(used, next)
    /\ Leaves(<<>>) /\ Abandon

\* The items change nodes; the comb sort leaves them in some ascending order. The
\* free functions stay with the nodes.
zlist_sort ==
    /\ SortsMarked \/ marked = {}
    /\ item' = [n \in NodeIds |->
           IF n \in used THEN SortSeq(list, <)[SelectInSeq(Chain, LAMBDA m : m = n)]
                         ELSE item[n]]
    /\ Leaves(SortSeq(list, <))
    /\ Abandon
    /\ UNCHANGED <<head, tail, cursor, size, next, free_fn, used>>

\* The first node with the item gets the function.
zlist_freefn(i) ==
    LET node == Node(Match(i))
    IN  /\ node # NULL
        /\ free_fn' = [free_fn EXCEPT ![node] = TRUE] /\ marked' = marked \cup {i}
        /\ UNCHANGED <<head, tail, next, item, used, size, cursor, list, iterating, ahead>>

zlist_first ==
    /\ cursor' = head
    /\ iterating' = (head # NULL) /\ ahead' = IF head = NULL THEN <<>> ELSE Tail(Chain)
    /\ UNCHANGED <<nodes, list, marked>>

\* The node zlist_next goes to.
Upcoming == IF cursor # NULL THEN next[cursor] ELSE head

zlist_next ==
    /\ cursor' = Upcoming
    /\ iterating' = (iterating /\ Upcoming # NULL)
    /\ ahead' = IF ahead = <<>> THEN <<>> ELSE Tail(ahead)
    /\ UNCHANGED <<nodes, list, marked>>

zlist_last == cursor' = tail /\ Abandon /\ UNCHANGED <<nodes, list, marked>>

Next ==
    \/ \E node \in NodeIds, i \in Items : zlist_append(node, i) \/ zlist_push(node, i)
    \/ zlist_pop \/ zlist_purge \/ zlist_sort
    \/ \E i \in Items : zlist_remove(i) \/ zlist_freefn(i)
    \/ zlist_first \/ zlist_next \/ zlist_last

Spec == Init /\ [][Next]_vars

-----------------------------------------------------------------------------
(* Properties. *)

\* Whatever calls came before, the chain from the head holds the items a sequence
\* would, ends at the tail after `size` nodes, and reaches no freed node; neither
\* does the cursor.
ListWhole ==
    /\ [k \in 1 .. Len(Chain) |-> item[Chain[k]]] = list
    /\ ToSet(Chain) = used /\ Len(Chain) = size
    /\ tail = IF Chain = <<>> THEN NULL ELSE Last(Chain)
    /\ cursor \in used \cup {NULL}

\* An iteration that removes items, the current one or others, before or after it,
\* goes on with exactly the items that are left, in order, none skipped or repeated.
IterationExact ==
    iterating => Upcoming = IF ahead = <<>> THEN NULL ELSE Head(ahead)

\* A node that will call a free function when it is removed holds an item for which the
\* function was set, whatever was removed, popped and added since: no other item is freed.
FreesItsItem == \A n \in used : free_fn[n] => item[n] \in marked
=============================================================================
