---------------------------- MODULE ZListxSort ----------------------------
(***************************************************************************)
(* zlistx_sort (src/src/zlistx.c): the comb sort that swaps the items of   *)
(* the nodes and leaves the nodes, and so the handles, where they are.     *)
(* One step is one comparison of `base` with the node `gap` places on.     *)
(***************************************************************************)
EXTENDS Integers, Sequences, SequencesExt, FiniteSets

CONSTANTS
    Items,      \* the items, numbers that the comparator compares
    MaxLength   \* bound on the length of the list

VARIABLES input, items, gap, swapped, base

vars == <<input, items, gap, swapped, base>>

Init ==
    /\ input \in UNION {[1..n -> Items] : n \in 0..MaxLength}
    /\ items = input
    /\ gap = Len(input) /\ swapped = FALSE
    /\ base = 0

\* The loop's condition, tested between two passes (base = 0).
mut_stops_at_gap_one == base = 0 /\ gap > 1

Continues == base = 0 /\ (gap > 1 \/ swapped)

\* (size_t) ((double) gap / 1.3), and at least 1
Shrunk == LET g == (gap * 10) \div 13 IN IF g < 1 THEN 1 ELSE g

start_pass ==
    /\ Continues
    /\ gap' = Shrunk
    /\ base' = 1 /\ swapped' = FALSE
    /\ UNCHANGED <<input, items>>

Swap ==
    /\ items' = [items EXCEPT ![base] = items[base + gap], ![base + gap] = items[base]]
    /\ swapped' = TRUE

OutOfOrder == items[base] > items[base + gap]

compare ==
    /\ base > 0 /\ base + gap <= Len(items)
    /\ IF OutOfOrder THEN Swap ELSE UNCHANGED <<items, swapped>>
    /\ base' = base + 1
    /\ UNCHANGED <<input, gap>>

end_pass ==
    /\ base > 0 /\ base + gap > Len(items)
    /\ base' = 0
    /\ UNCHANGED <<input, items, gap, swapped>>

Next == start_pass \/ compare \/ end_pass

Spec == Init /\ [][Next]_vars /\ WF_vars(Next)
-----------------------------------------------------------------------------
Done == base = 0 /\ ~Continues

\* The sort only moves items between nodes: none is lost, none is held twice.
ItemsKept ==
    \A i \in Items : Cardinality({k \in 1..Len(input) : input[k] = i})
                     = Cardinality({k \in 1..Len(items) : items[k] = i})

\* When the loop ends the items are in the comparator's order.
DoneIsSorted == Done => \A j, k \in 1..Len(items) : j < k => items[j] <= items[k]

\* The loop ends, on equal items too: a pass at gap 1 without a swap is the last.
Terminates == <>Done
=============================================================================
