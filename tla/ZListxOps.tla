----------------------------- MODULE ZListxOps -----------------------------
(***************************************************************************)
(* What the operations of czmq's zlistx (src/src/zlistx.c) do to a list    *)
(* and to its cursor, as functions of the list value.                      *)
(*                                                                         *)
(* A list is a record: `seq`, the handles of its nodes in order, and       *)
(* `cur`, the node the cursor stands on.  Handles are positive numbers, no *)
(* two nodes of a list have the same one, and NoNode stands for the head   *)
(* node: a cursor at the head means "no current item", and the item        *)
(* functions return NULL for it.  The functions of the source that move    *)
(* the cursor and return the item under it are modelled by the moved list; *)
(* the item returned is the one `cur` names.                               *)
(***************************************************************************)
EXTENDS Integers, Sequences

NoNode == 0

EmptyList == [seq |-> <<>>, cur |-> NoNode]

Nodes(list) == {list.seq[i] : i \in DOMAIN list.seq}

Position(list, node) == CHOOSE i \in 1..Len(list.seq) : list.seq[i] = node

\* The sequence without its k-th element, and with a new k-th element.
Removed(seq, k) == [i \in 1..(Len(seq) - 1) |-> IF i < k THEN seq[i] ELSE seq[i + 1]]

Inserted(seq, k, node) ==
    [i \in 1..(Len(seq) + 1) |-> IF i < k THEN seq[i] ELSE IF i = k THEN node ELSE seq[i - 1]]

\* The node before `node`, the head when it is the first.
Pred(list, node) ==
    LET k == Position(list, node) IN IF k = 1 THEN NoNode ELSE list.seq[k - 1]

\* Inserting puts the cursor back at the head.
add_start(list, node) == [seq |-> <<node>> \o list.seq, cur |-> NoNode]

add_end(list, node) == [seq |-> Append(list.seq, node), cur |-> NoNode]

first(list) ==
    [list EXCEPT !.cur = IF list.seq = <<>> THEN NoNode ELSE list.seq[1]]

last(list) ==
    [list EXCEPT !.cur = IF list.seq = <<>> THEN NoNode ELSE list.seq[Len(list.seq)]]

\* From the head the cursor moves to the first node, from the last to the head.
next(list) ==
    LET k == IF list.cur = NoNode THEN 0 ELSE Position(list, list.cur)
    IN  [list EXCEPT !.cur = IF k = Len(list.seq) THEN NoNode ELSE list.seq[k + 1]]

\* From the head the cursor moves to the last node, from the first to the head.
prev(list) ==
    IF list.cur = NoNode THEN last(list)
    ELSE [list EXCEPT !.cur = Pred(list, list.cur)]

\* Removing the node under the cursor leaves the cursor on the one before it,
\* so that a loop over next() that deletes as it goes misses no node.
detach(list, node) ==
    [seq |-> Removed(list.seq, Position(list, node)),
     cur |-> IF list.cur = node THEN Pred(list, node) ELSE list.cur]

\* Moving a node leaves the cursor alone: a cursor on the node goes with it.
move_start(list, node) ==
    [list EXCEPT !.seq = <<node>> \o Removed(@, Position(list, node))]

move_end(list, node) ==
    [list EXCEPT !.seq = Append(Removed(@, Position(list, node)), node)]
=============================================================================
