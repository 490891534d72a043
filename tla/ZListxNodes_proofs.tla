------------------------- MODULE ZListxNodes_proofs -------------------------
(***************************************************************************)
(* The ring of nodes of zlistx.c, whatever the number of nodes and of      *)
(* operations.  First, the two swaps of s_node_relink keep next and prev   *)
(* inverse of each other; a swap that inserts needs its node to point to   *)
(* itself, so the invariant adds that every node outside the list does.    *)
(* Then the links are shown to follow the sequence of nodes that ZListx    *)
(* keeps: a link swap inserts at a place or removes from one, and a walk   *)
(* or a scan along the links visits the sequence.  From that come the two  *)
(* theorems at the end: the ring stays whole and implements ZListx.        *)
(***************************************************************************)
EXTENDS ZListxNodes, FiniteSetTheorems, WellFoundedInduction, TLAPS

Pointers == [next : [Addresses -> Addresses], prev : [Addresses -> Addresses]]

MutualInverse(l) == \A n \in Addresses : l.prev[l.next[n]] = n /\ l.next[l.prev[n]] = n

\* The nodes of a set point to themselves.
Loose(l, S) == \A n \in S : l.next[n] = n

Ring(l, S) == l \in Pointers /\ MutualInverse(l) /\ Loose(l, S)

LinksInv == used \subseteq NodeIds /\ Ring(links, NodeIds \ used)

\* Relinking a node between its neighbours takes it out: it points to itself,
\* nothing else is disturbed, and the links stay inverse.
LEMMA UnlinkOK ==
    ASSUME NEW l \in Pointers, MutualInverse(l), NEW node \in Addresses
    PROVE  /\ Unlinked(l, node) \in Pointers /\ MutualInverse(Unlinked(l, node))
           /\ Unlinked(l, node).next[node] = node
           /\ \A n \in Addresses : l.next[n] = n => Unlinked(l, node).next[n] = n
<1> DEFINE p == l.prev[node]
           q == l.next[node]
           r == Unlinked(l, node)
<1>1. p \in Addresses /\ q \in Addresses /\ l.next[p] = node /\ l.prev[q] = node
  BY DEF Pointers, MutualInverse
<1>2. r = [next |-> [l.next EXCEPT ![node] = node, ![p] = q],
           prev |-> [l.prev EXCEPT ![node] = node, ![q] = p]]
  BY <1>1 DEF Unlinked, s_node_relink
<1>3. r \in Pointers
  BY <1>1, <1>2 DEF Pointers
<1>4. \A n \in Addresses : /\ r.next[n] = IF n = p THEN q ELSE IF n = node THEN node ELSE l.next[n]
                           /\ r.prev[n] = IF n = q THEN p ELSE IF n = node THEN node ELSE l.prev[n]
  BY <1>1, <1>2 DEF Pointers
<1>5. MutualInverse(r)
  BY <1>1, <1>4 DEF MutualInverse, Pointers
<1>6. r.next[node] = node
  BY <1>1, <1>4 DEF Pointers, MutualInverse
<1>7. \A n \in Addresses : l.next[n] = n => r.next[n] = n
  BY <1>1, <1>4 DEF Pointers, MutualInverse
<1> QED
  BY <1>3, <1>5, <1>6, <1>7

\* Relinking a node that points to itself, between two neighbours, puts it in.
LEMMA LinkAfterOK ==
    ASSUME NEW l \in Pointers, MutualInverse(l), NEW node \in Addresses, l.next[node] = node,
           NEW p \in Addresses
    PROVE  /\ LinkedAfter(l, node, p) \in Pointers /\ MutualInverse(LinkedAfter(l, node, p))
           /\ \A n \in Addresses \ {node} :
                  l.next[n] = n /\ n # p => LinkedAfter(l, node, p).next[n] = n
<1> DEFINE q == l.next[p]
           r == LinkedAfter(l, node, p)
<1>1. q \in Addresses /\ l.prev[q] = p /\ l.prev[node] = node
  BY DEF Pointers, MutualInverse
<1>2. r = [next |-> [l.next EXCEPT ![node] = q, ![p] = node],
           prev |-> [l.prev EXCEPT ![node] = p, ![q] = node]]
  BY <1>1 DEF LinkedAfter, s_node_relink
<1>3. r \in Pointers
  BY <1>1, <1>2 DEF Pointers
<1>4. \A n \in Addresses : /\ r.next[n] = IF n = p THEN node ELSE IF n = node THEN q ELSE l.next[n]
                           /\ r.prev[n] = IF n = q THEN node ELSE IF n = node THEN p ELSE l.prev[n]
  BY <1>1, <1>2 DEF Pointers
<1>5. MutualInverse(r)
  BY <1>1, <1>4 DEF MutualInverse, Pointers
<1>6. \A n \in Addresses \ {node} : l.next[n] = n /\ n # p => r.next[n] = n
  BY <1>4
<1> QED
  BY <1>3, <1>5, <1>6

\* Linking in a loose node next to one that is not loose leaves the others loose.
LEMMA LinkOK ==
    ASSUME NEW S \in SUBSET Addresses, NEW node \in Addresses, NEW at \in Addresses \ S,
           NEW l, Ring(l, S), l.next[node] = node
    PROVE  /\ Ring(LinkedAfter(l, node, at), S \ {node})
           /\ Ring(LinkedBefore(l, node, at), S \ {node})
<1> USE DEF Ring
<1>1. Ring(LinkedAfter(l, node, at), S \ {node})
  BY LinkAfterOK DEF Loose
<1>2. /\ LinkedBefore(l, node, at) = LinkedAfter(l, node, l.prev[at])
      /\ l.prev[at] \in Addresses /\ l.prev[at] \notin S
  BY DEF LinkedBefore, LinkedAfter, Pointers, MutualInverse, Loose
<1>3. Ring(LinkedBefore(l, node, at), S \ {node})
  BY <1>2, LinkAfterOK DEF Loose
<1> QED
  BY <1>1, <1>3

\* Taking a node out makes it loose.
LEMMA UnlinkLoose ==
    ASSUME NEW S \in SUBSET Addresses, NEW node \in Addresses, NEW l, Ring(l, S)
    PROVE  Ring(Unlinked(l, node), S \cup {node}) /\ Unlinked(l, node).next[node] = node
  BY UnlinkOK DEF Ring, Loose

\* The head of a new list is a ring of its own, and every other node is loose.
LEMMA LinksInit == Init => LinksInv
  BY DEF Init, LinksInv, Ring, Pointers, MutualInverse, Loose, Addresses

\* One step per operation; those that only move the cursor change no link.
LEMMA LinksStep == LinksInv /\ [Next]_vars => LinksInv'
<1> SUFFICES ASSUME LinksInv, [Next]_vars PROVE LinksInv'
  OBVIOUS
<1> DEFINE free == NodeIds \ used
<1> USE DEF HeadNode
<1>a. HeadNode \notin NodeIds /\ HeadNode \in Addresses /\ NodeIds \subseteq Addresses
  BY NodesAssumption DEF Addresses
<1>b. used \subseteq NodeIds /\ Ring(links, free) /\ free \in SUBSET Addresses
  BY <1>a DEF LinksInv
<1>c. ASSUME links' = links, used' = used PROVE LinksInv'
  BY <1>b, <1>c DEF LinksInv
<1>d. ASSUME NEW node \in NodeIds \ used, used' = used \cup {node},
             Ring(links', free \ {node})
      PROVE  LinksInv'
  <2>1. NodeIds \ used' = free \ {node}
    BY <1>d
  <2> QED
    BY <1>b, <1>d, <2>1 DEF LinksInv
<1>e. \A at \in used \cup {HeadNode} : at \in Addresses \ free
  BY <1>a, <1>b
<1>f. \A node \in free : links.next[node] = node
  BY <1>b DEF Ring, Loose
<1>1. ASSUME NEW node \in NodeIds, NEW i \in Items, zlistx_add_start(node, i)
      PROVE  LinksInv'
  <2>1. node \in free /\ used' = used \cup {node} /\ links' = LinkedAfter(links, node, HeadNode)
    BY <1>1 DEF zlistx_add_start, s_node_new
  <2> QED
    BY <2>1, <1>a, <1>b, <1>d, <1>e, <1>f, LinkOK
<1>2. ASSUME NEW node \in NodeIds, NEW i \in Items, zlistx_add_end(node, i)
      PROVE  LinksInv'
  <2>1. node \in free /\ used' = used \cup {node} /\ links' = LinkedBefore(links, node, HeadNode)
    BY <1>2 DEF zlistx_add_end, s_node_new
  <2> QED
    BY <2>1, <1>a, <1>b, <1>d, <1>e, <1>f, LinkOK
<1>3. ASSUME NEW node \in NodeIds, NEW i \in Items, NEW low \in BOOLEAN,
             zlistx_insert(node, i, low)
      PROVE  LinksInv'
  <2> DEFINE l == Unlinked(links, node)
  <2>1. node \in free /\ used' = used \cup {node}
    BY <1>3 DEF zlistx_insert, s_node_new
  <2>2. PICK at \in used \cup {HeadNode} :
            links' = IF low THEN LinkedBefore(l, node, at) ELSE LinkedAfter(l, node, at)
    BY <1>3 DEF zlistx_insert, Reordered
  <2>3. free \cup {node} = free
    BY <2>1
  <2>4. Ring(l, free) /\ l.next[node] = node
    BY <2>1, <2>3, <1>a, <1>b, UnlinkLoose
  <2>5. Ring(links', free \ {node})
    <3> HIDE DEF l
    <3> QED
      BY <2>1, <2>2, <2>4, <1>a, <1>b, <1>e, LinkOK
  <2> QED
    BY <2>1, <2>5, <1>d
<1>4. ASSUME NEW node \in used, UNCHANGED used, NEW at \in Addresses \ free,
             \/ links' = LinkedBefore(Unlinked(links, node), node, at)
             \/ links' = LinkedAfter(Unlinked(links, node), node, at)
      PROVE  LinksInv'
  <2> DEFINE l == Unlinked(links, node)
  <2>1. Ring(l, free \cup {node}) /\ l.next[node] = node /\ node \in Addresses
    BY <1>a, <1>b, UnlinkLoose
  <2>2. Ring(l, free)
    BY <2>1 DEF Ring, Loose
  <2>3. Ring(links', free \ {node})
    <3> HIDE DEF l
    <3>1. \/ links' = LinkedBefore(l, node, at) \/ links' = LinkedAfter(l, node, at)
      BY <1>4 DEF l
    <3> QED
      BY <2>1, <2>2, <3>1, <1>b, LinkOK
  <2>4. free \ {node} = NodeIds \ used'
    BY <1>4
  <2> QED
    BY <2>3, <2>4, <1>4, <1>b DEF LinksInv
<1>5. ASSUME NEW node \in NodeIds, NEW low \in BOOLEAN, zlistx_reorder(node, low)
      PROVE  LinksInv'
  BY <1>4, <1>5, <1>e DEF zlistx_reorder, Reordered
<1>6. ASSUME NEW node \in NodeIds, zlistx_move_start(node)
      PROVE  LinksInv'
  <2>1. links.next[HeadNode] \in Addresses \ free
    BY <1>a, <1>b, <1>f DEF Ring, MutualInverse, Pointers
  <2> QED
    BY <1>4, <1>6, <1>c, <2>1 DEF zlistx_move_start, Relink
<1>7. ASSUME NEW node \in NodeIds, zlistx_move_end(node)
      PROVE  LinksInv'
  <2>1. links.prev[HeadNode] \in Addresses \ free
    BY <1>a, <1>b, <1>f DEF Ring, MutualInverse, Pointers
  <2> QED
    BY <1>4, <1>7, <1>c, <2>1 DEF zlistx_move_end, Relink
<1>8. ASSUME NEW handle, zlistx_detach(handle)
      PROVE  LinksInv'
  <2> DEFINE node == IF handle = HeadNode THEN links.next[HeadNode] ELSE handle
  <2>1. handle \in used \cup {HeadNode} /\ node \in Addresses
    BY <1>8, <1>a, <1>b DEF zlistx_detach, Ring, Pointers
  <2>2. CASE node = HeadNode
    BY <1>8, <2>2, <1>c DEF zlistx_detach, vars
  <2>3. CASE node # HeadNode
    <3>1. links' = Unlinked(links, node) /\ used' = used \ {node}
      BY <1>8, <2>3 DEF zlistx_detach
    <3>2. node \in NodeIds
      BY <2>1, <2>3 DEF Addresses
    <3>3. NodeIds \ used' = free \cup {node}
      BY <3>1, <3>2
    <3>4. Ring(links', free \cup {node})
      BY <3>1, <2>1, <1>b, UnlinkLoose
    <3> QED
      BY <3>1, <3>3, <3>4, <1>b DEF LinksInv
  <2> QED
    BY <2>2, <2>3
<1>9. CASE zlistx_purge
  BY <1>9, <1>a DEF zlistx_purge, LinksInv, Ring, Pointers, MutualInverse, Loose
<1>10. CASE zlistx_first \/ zlistx_next \/ zlistx_prev \/ zlistx_last
            \/ \E i \in Items : zlistx_find(i)
  BY <1>10, <1>c DEF zlistx_first, zlistx_next, zlistx_prev, zlistx_last, zlistx_find, SetCursor
<1>11. CASE UNCHANGED vars
  BY <1>11, <1>c DEF vars
<1> QED
  BY <1>1, <1>2, <1>3, <1>5, <1>6, <1>7, <1>8, <1>9, <1>10, <1>11 DEF Next, zlistx_detach_cur

\* For any number of nodes, no sequence of zlistx calls leaves next and prev
\* pointers that are not inverse of each other: s_node_relink is only ever called
\* with a node that points to itself, or with a node between its two neighbours.
THEOREM LinksStayInverse == Spec => []LinksInverse
<1>1. LinksInv => LinksInverse
  BY DEF LinksInv, LinksInverse, Ring, MutualInverse, Pointers
<1> QED
  BY <1>1, LinksInit, LinksStep, PTL DEF Spec

-----------------------------------------------------------------------------
(* The ring as a sequence.  A list of nodes represents the ring if the next *)
(* pointers follow it from the head and back.                               *)

\* The k-th node after the head; the head itself at both ends.
At(w, k) == IF k \in 1..Len(w) THEN w[k] ELSE HeadNode

Distinct(w) == \A i, j \in 1..Len(w) : w[i] = w[j] => i = j

Chain(l, w) == \A k \in 0..Len(w) : l.next[At(w, k)] = At(w, k + 1)

\* The sequence of nodes w is what the next pointers of l run through.
Follows(l, w) ==
    /\ w \in Seq(NodeIds) /\ Distinct(w)
    /\ l \in Pointers /\ MutualInverse(l) /\ Chain(l, w)

\* What the operators of ZListx do to a sequence, element by element.
LEMMA RemovedFacts ==
    ASSUME NEW S, NEW w \in Seq(S), NEW k \in 1..Len(w)
    PROVE  /\ Abstract!Removed(w, k) \in Seq(S)
           /\ Len(Abstract!Removed(w, k)) = Len(w) - 1
           /\ \A i \in 1..(Len(w) - 1) :
                 Abstract!Removed(w, k)[i] = IF i < k THEN w[i] ELSE w[i + 1]
<1> DEFINE e(i) == IF i < k THEN w[i] ELSE w[i + 1]
<1>1. Len(w) \in Nat /\ Len(w) - 1 \in Nat
  OBVIOUS
<1>2. \A i \in 1..(Len(w) - 1) : e(i) \in S
  OBVIOUS
<1>3. [i \in 1..(Len(w) - 1) |-> e(i)] \in Seq(S)
  BY <1>1, <1>2
<1> QED
  BY <1>1, <1>3 DEF Abstract!Removed

\* The elements of a sequence with one inserted, in their places.
LEMMA InsertedFacts ==
    ASSUME NEW S, NEW w \in Seq(S), NEW k \in 1..(Len(w) + 1), NEW node \in S
    PROVE  /\ Abstract!Inserted(w, k, node) \in Seq(S)
           /\ Len(Abstract!Inserted(w, k, node)) = Len(w) + 1
           /\ \A i \in 1..(Len(w) + 1) :
                 Abstract!Inserted(w, k, node)[i] =
                     IF i < k THEN w[i] ELSE IF i = k THEN node ELSE w[i - 1]
<1> DEFINE e(i) == IF i < k THEN w[i] ELSE IF i = k THEN node ELSE w[i - 1]
<1>1. Len(w) \in Nat /\ Len(w) + 1 \in Nat
  OBVIOUS
<1>2. \A i \in 1..(Len(w) + 1) : e(i) \in S
  OBVIOUS
<1>3. [i \in 1..(Len(w) + 1) |-> e(i)] \in Seq(S)
  BY <1>1, <1>2
<1> QED
  BY <1>1, <1>3 DEF Abstract!Inserted

\* The places of a sequence of distinct nodes are distinct, and none is the head
\* but the ends.
LEMMA AtFacts ==
    ASSUME NEW w \in Seq(NodeIds), Distinct(w)
    PROVE  /\ Len(w) \in Nat
           /\ At(w, 0) = HeadNode /\ At(w, Len(w) + 1) = HeadNode
           /\ \A k \in 1..Len(w) : At(w, k) = w[k] /\ w[k] \in NodeIds
           /\ \A k \in 0..(Len(w) + 1) : At(w, k) \in Addresses
           /\ \A j, k \in 0..Len(w) : At(w, j) = At(w, k) => j = k
<1>1. HeadNode \notin NodeIds
  BY NodesAssumption DEF HeadNode
<1>2. Len(w) \in Nat /\ \A k \in 1..Len(w) : At(w, k) = w[k] /\ w[k] \in NodeIds
  BY DEF At
<1>3. At(w, 0) = HeadNode /\ At(w, Len(w) + 1) = HeadNode
  BY <1>2 DEF At
<1>4. \A k \in 0..(Len(w) + 1) : k \in 1..Len(w) \/ At(w, k) = HeadNode
  BY <1>2 DEF At
<1>5. \A k \in 0..Len(w) : k \in 1..Len(w) \/ k = 0
  BY <1>2
<1>6. \A k \in 0..(Len(w) + 1) : At(w, k) \in Addresses
  BY <1>2, <1>4 DEF Addresses
<1>7. \A j, k \in 0..Len(w) : At(w, j) = At(w, k) => j = k
  BY <1>1, <1>2, <1>3, <1>5 DEF Distinct
<1> QED
  BY <1>2, <1>3, <1>6, <1>7

\* The prev pointers follow the sequence backwards.
LEMMA ChainBack ==
    ASSUME NEW l, NEW w, Follows(l, w), NEW k \in 1..(Len(w) + 1)
    PROVE  l.prev[At(w, k)] = At(w, k - 1)
<1>1. Len(w) \in Nat /\ \A j \in 0..(Len(w) + 1) : At(w, j) \in Addresses
  BY AtFacts DEF Follows
<1>2. k - 1 \in 0..Len(w) /\ (k - 1) + 1 = k
  BY <1>1
<1>3. l.next[At(w, k - 1)] = At(w, k) /\ At(w, k - 1) \in Addresses
  BY <1>1, <1>2 DEF Follows, Chain
<1> QED
  BY <1>3 DEF Follows, MutualInverse

\* Linking a node in after the k-th one inserts it there in the sequence.
LEMMA FollowsInsert ==
    ASSUME NEW l, NEW w, Follows(l, w), NEW node \in NodeIds, l.next[node] = node,
           \A i \in 1..Len(w) : w[i] # node, NEW k \in 0..Len(w)
    PROVE  Follows(LinkedAfter(l, node, At(w, k)), Abstract!Inserted(w, k + 1, node))
<1> DEFINE n == Len(w)
           p == At(w, k)
           q == At(w, k + 1)
           r == LinkedAfter(l, node, p)
           v == Abstract!Inserted(w, k + 1, node)
<1>1. /\ w \in Seq(NodeIds) /\ Distinct(w) /\ l \in Pointers /\ MutualInverse(l) /\ Chain(l, w)
      /\ n \in Nat /\ node \in Addresses /\ node # HeadNode
  BY NodesAssumption DEF Follows, Addresses
<1>2. /\ At(w, 0) = HeadNode /\ At(w, n + 1) = HeadNode
      /\ \A j \in 1..n : At(w, j) = w[j]
      /\ \A j \in 0..(n + 1) : At(w, j) \in Addresses
      /\ \A i, j \in 0..n : At(w, i) = At(w, j) => i = j
  BY <1>1, AtFacts
<1>3. \A j \in 0..n : At(w, j) # node /\ l.next[At(w, j)] = At(w, j + 1)
  <2>1. \A j \in 0..n : j \in 1..n \/ j = 0
    BY <1>1
  <2>2. \A j \in 0..n : At(w, j) # node
    BY <1>1, <1>2, <2>1
  <2> QED
    BY <1>1, <2>2 DEF Chain
<1>4. /\ v \in Seq(NodeIds) /\ Len(v) = n + 1
      /\ \A i \in 1..(n + 1) : v[i] = IF i < k + 1 THEN w[i] ELSE IF i = k + 1 THEN node ELSE w[i - 1]
  <2>1. k + 1 \in 1..(n + 1)
    BY <1>1
  <2>2. \A m \in 1..(n + 1) : LET x == Abstract!Inserted(w, m, node) IN
            /\ x \in Seq(NodeIds) /\ Len(x) = n + 1
            /\ \A i \in 1..(n + 1) : x[i] = IF i < m THEN w[i] ELSE IF i = m THEN node ELSE w[i - 1]
    BY <1>1, InsertedFacts
  <2> QED
    BY <2>1, <2>2
<1>5. p \in Addresses /\ q \in Addresses /\ l.next[p] = q /\ l.prev[node] = node
  <2>1. k + 1 \in 0..(n + 1) /\ k \in 0..(n + 1)
    BY <1>1
  <2> QED
    BY <1>1, <1>2, <1>3, <2>1 DEF MutualInverse
<1>6. r \in Pointers /\ MutualInverse(r)
  BY <1>1, <1>5, LinkAfterOK
<1>7. \A a \in Addresses : r.next[a] = IF a = p THEN node ELSE IF a = node THEN q ELSE l.next[a]
  BY <1>1, <1>3, <1>5 DEF LinkedAfter, s_node_relink, Pointers
<1> HIDE DEF v, r
<1>8. \A j \in 0..(n + 2) : At(v, j) = IF j <= k THEN At(w, j) ELSE IF j = k + 1 THEN node ELSE At(w, j - 1)
  <2>1. SUFFICES ASSUME NEW j \in 0..(n + 2)
                 PROVE  At(v, j) = IF j <= k THEN At(w, j) ELSE IF j = k + 1 THEN node ELSE At(w, j - 1)
    BY Zenon
  <2>2. CASE j = 0 \/ j = n + 2
    <3>1. j \notin 1..Len(v) /\ (j = n + 2 => (n + 2) - 1 = n + 1)
      BY <1>1, <1>4, <2>2
    <3>2. At(v, j) = HeadNode
      BY <3>1 DEF At
    <3> QED
      BY <1>1, <1>2, <2>2, <3>1, <3>2
  <2>3. CASE j \in 1..(n + 1)
    <3>1. At(v, j) = v[j]
      BY <1>4, <2>3 DEF At
    <3>2. CASE j <= k
      BY <1>1, <1>2, <1>4, <2>3, <3>1, <3>2
    <3>3. CASE j = k + 1
      BY <1>1, <1>4, <2>3, <3>1, <3>3
    <3>4. CASE j > k + 1
      <4>1. j - 1 \in 1..n
        BY <1>1, <2>3, <3>4
      <4>2. v[j] = w[j - 1]
        BY <1>1, <1>4, <2>3, <3>4
      <4> QED
        BY <1>1, <1>2, <3>1, <3>4, <4>1, <4>2
    <3> QED
      BY <1>1, <3>2, <3>3, <3>4
  <2> QED
    BY <1>1, <2>2, <2>3
<1>9. Distinct(v)
  <2>1. SUFFICES ASSUME NEW i \in 1..(n + 1), NEW j \in 1..(n + 1), v[i] = v[j], i < j PROVE FALSE
    BY <1>4 DEF Distinct
  <2>2. \A a, b \in 1..n : w[a] = w[b] => a = b
    BY <1>1 DEF Distinct
  <2>3. CASE j < k + 1
    BY <1>1, <1>4, <2>1, <2>2, <2>3
  <2>4. CASE j = k + 1
    BY <1>1, <1>4, <2>1, <2>4
  <2>5. CASE j > k + 1
    <3>1. v[j] = w[j - 1] /\ j - 1 \in 1..n
      BY <1>1, <1>4, <2>5
    <3>2. CASE i < k + 1
      BY <1>1, <1>4, <2>1, <2>2, <2>5, <3>1, <3>2
    <3>3. CASE i = k + 1
      BY <1>1, <1>4, <2>1, <3>1, <3>3
    <3>4. CASE i > k + 1
      <4>1. v[i] = w[i - 1] /\ i - 1 \in 1..n
        BY <1>1, <1>4, <2>1, <3>4
      <4> QED
        BY <1>1, <2>1, <2>2, <3>1, <4>1
    <3> QED
      BY <1>1, <3>2, <3>3, <3>4
  <2> QED
    BY <1>1, <2>3, <2>4, <2>5
<1>10. Chain(r, v)
  <2>1. SUFFICES ASSUME NEW j \in 0..(n + 1) PROVE r.next[At(v, j)] = At(v, j + 1)
    BY <1>4 DEF Chain
  <2>2. j \in 0..(n + 2) /\ j + 1 \in 0..(n + 2)
    BY <1>1
  <2>3. CASE j < k
    <3>1. j \in 0..n /\ At(v, j) = At(w, j) /\ At(v, j + 1) = At(w, j + 1) /\ j # k
      BY <1>1, <1>8, <2>2, <2>3
    <3>2. At(w, j) # p /\ At(w, j) # node /\ At(w, j) \in Addresses
      BY <1>1, <1>2, <1>3, <3>1
    <3> QED
      BY <1>3, <1>7, <3>1, <3>2
  <2>4. CASE j = k
    <3>1. At(v, j) = p /\ At(v, j + 1) = node
      BY <1>1, <1>8, <2>2, <2>4
    <3> QED
      BY <1>5, <1>7, <3>1
  <2>5. CASE j = k + 1
    <3>1. At(v, j) = node /\ At(v, j + 1) = q
      BY <1>1, <1>8, <2>2, <2>5
    <3>2. node # p
      BY <1>3
    <3> QED
      BY <1>1, <1>7, <3>1, <3>2
  <2>6. CASE j > k + 1
    <3>1. j - 1 \in 0..n /\ j - 1 # k /\ (j - 1) + 1 = j /\ (j + 1) - 1 = j
      BY <1>1, <2>6
    <3>2. At(v, j) = At(w, j - 1) /\ At(v, j + 1) = At(w, j)
      BY <1>1, <1>8, <2>2, <2>6
    <3>3. At(w, j - 1) # p /\ At(w, j - 1) # node /\ At(w, j - 1) \in Addresses
      BY <1>1, <1>2, <1>3, <3>1
    <3> QED
      BY <1>3, <1>7, <3>1, <3>2, <3>3
  <2> QED
    BY <1>1, <2>3, <2>4, <2>5, <2>6
<1> QED
  BY <1>4, <1>6, <1>9, <1>10 DEF Follows, v, r

\* Linking a node in before the k-th one is linking it in after the one before.
LEMMA LinkBefore ==
    ASSUME NEW l, NEW w, Follows(l, w), NEW node, NEW k \in 1..(Len(w) + 1)
    PROVE  LinkedBefore(l, node, At(w, k)) = LinkedAfter(l, node, At(w, k - 1))
<1>1. l.prev[At(w, k)] = At(w, k - 1)
  BY ChainBack
<1>2. Len(w) \in Nat
  BY DEF Follows
<1>3. k - 1 \in 0..Len(w) /\ (k - 1) + 1 = k
  BY <1>2
<1>4. l.next[At(w, k - 1)] = At(w, k)
  BY <1>3 DEF Follows, Chain
<1> QED
  BY <1>1, <1>4 DEF LinkedBefore, LinkedAfter

\* Taking the k-th node out removes it from the sequence.
LEMMA FollowsRemove ==
    ASSUME NEW l, NEW w, Follows(l, w), NEW k \in 1..Len(w)
    PROVE  /\ Follows(Unlinked(l, w[k]), Abstract!Removed(w, k))
           /\ Unlinked(l, w[k]).next[w[k]] = w[k]
           /\ \A i \in 1..Len(Abstract!Removed(w, k)) : Abstract!Removed(w, k)[i] # w[k]
<1> DEFINE n == Len(w)
           node == w[k]
           p == At(w, k - 1)
           q == At(w, k + 1)
           r == Unlinked(l, node)
           v == Abstract!Removed(w, k)
<1>1. /\ w \in Seq(NodeIds) /\ Distinct(w) /\ l \in Pointers /\ MutualInverse(l) /\ Chain(l, w)
      /\ n \in Nat
  BY DEF Follows
<1>2. /\ At(w, 0) = HeadNode /\ At(w, n + 1) = HeadNode
      /\ \A j \in 1..n : At(w, j) = w[j]
      /\ \A j \in 0..(n + 1) : At(w, j) \in Addresses
      /\ \A i, j \in 0..n : At(w, i) = At(w, j) => i = j
  BY <1>1, AtFacts
<1>3. \A j \in 0..n : l.next[At(w, j)] = At(w, j + 1)
  BY <1>1 DEF Chain
<1>4. /\ v \in Seq(NodeIds) /\ Len(v) = n - 1
      /\ \A i \in 1..(n - 1) : v[i] = IF i < k THEN w[i] ELSE w[i + 1]
  BY <1>1, RemovedFacts
<1>5. /\ node \in Addresses /\ node = At(w, k) /\ p \in Addresses /\ q \in Addresses
      /\ l.next[node] = q /\ l.prev[node] = p /\ l.next[p] = node
  <2>1. /\ k \in 0..n /\ k - 1 \in 0..n /\ k - 1 \in 0..(n + 1) /\ k + 1 \in 0..(n + 1)
        /\ k \in 0..(n + 1) /\ k \in 1..(n + 1) /\ (k - 1) + 1 = k
    BY <1>1
  <2>2. l.prev[At(w, k)] = p
    BY <2>1, ChainBack
  <2> QED
    BY <1>2, <1>3, <2>1, <2>2
<1>6. r \in Pointers /\ MutualInverse(r) /\ r.next[node] = node
  BY <1>1, <1>5, UnlinkOK
<1>7. \A a \in Addresses : r.next[a] = IF a = p THEN q ELSE IF a = node THEN node ELSE l.next[a]
  BY <1>1, <1>5 DEF Unlinked, s_node_relink, Pointers
<1> HIDE DEF v, r, node
<1>8. \A j \in 0..n : At(v, j) = IF j < k THEN At(w, j) ELSE At(w, j + 1)
  <2>1. SUFFICES ASSUME NEW j \in 0..n
                 PROVE  At(v, j) = IF j < k THEN At(w, j) ELSE At(w, j + 1)
    BY Zenon
  <2>2. CASE j = 0 \/ j = n
    <3>1. j \notin 1..Len(v) /\ (j = n => ~(j < k))
      BY <1>1, <1>4, <2>2
    <3>2. At(v, j) = HeadNode
      BY <3>1 DEF At
    <3> QED
      BY <1>1, <1>2, <2>2, <3>1, <3>2
  <2>3. CASE j \in 1..(n - 1)
    <3>1. At(v, j) = v[j]
      BY <1>4, <2>3 DEF At
    <3>2. j \in 1..n /\ j + 1 \in 1..n
      BY <1>1, <2>3
    <3> QED
      BY <1>2, <1>4, <2>3, <3>1, <3>2
  <2> QED
    BY <1>1, <2>2, <2>3
<1>9. Distinct(v) /\ \A i \in 1..Len(v) : v[i] # node
  <2>1. \A a, b \in 1..n : w[a] = w[b] => a = b
    BY <1>1 DEF Distinct
  <2>2. \A i \in 1..(n - 1) : \E a \in 1..n :
            v[i] = w[a] /\ a # k /\ a = IF i < k THEN i ELSE i + 1
    BY <1>1, <1>4
  <2>3. ASSUME NEW i \in 1..(n - 1), NEW j \in 1..(n - 1), v[i] = v[j] PROVE i = j
    <3>1. PICK a \in 1..n : v[i] = w[a] /\ a = IF i < k THEN i ELSE i + 1
      BY <2>2
    <3>2. PICK b \in 1..n : v[j] = w[b] /\ b = IF j < k THEN j ELSE j + 1
      BY <2>2
    <3>3. a = b
      BY <2>1, <2>3, <3>1, <3>2
    <3> QED
      BY <1>1, <3>1, <3>2, <3>3
  <2>4. \A i \in 1..(n - 1) : v[i] # node
    BY <2>1, <2>2 DEF node
  <2> QED
    BY <1>4, <2>3, <2>4 DEF Distinct
<1>10. Chain(r, v)
  <2>1. SUFFICES ASSUME NEW j \in 0..(n - 1) PROVE r.next[At(v, j)] = At(v, j + 1)
    BY <1>4 DEF Chain
  <2>2. j \in 0..n /\ j + 1 \in 0..n /\ j + 1 \in 0..(n + 1) /\ k - 1 \in 0..n /\ k \in 0..n
    BY <1>1
  <2>3. CASE j < k - 1
    <3>1. At(v, j) = At(w, j) /\ At(v, j + 1) = At(w, j + 1) /\ j # k - 1 /\ j # k
      BY <1>1, <1>8, <2>2, <2>3
    <3>2. At(w, j) # p /\ At(w, j) # node /\ At(w, j) \in Addresses
      BY <1>2, <1>5, <2>2, <3>1
    <3> QED
      BY <1>3, <1>7, <2>2, <3>1, <3>2
  <2>4. CASE j = k - 1
    <3>1. At(v, j) = p /\ At(v, j + 1) = q
      BY <1>1, <1>8, <2>2, <2>4
    <3> QED
      BY <1>5, <1>7, <3>1
  <2>5. CASE j > k - 1
    <3>1. At(v, j) = At(w, j + 1) /\ At(v, j + 1) = At(w, j + 2) /\ j + 1 # k - 1 /\ j + 1 # k
          /\ (j + 1) + 1 = j + 2
      BY <1>1, <1>8, <2>2, <2>5
    <3>2. At(w, j + 1) # p /\ At(w, j + 1) # node /\ At(w, j + 1) \in Addresses
      BY <1>2, <1>5, <2>2, <3>1
    <3>3. l.next[At(w, j + 1)] = At(w, j + 2)
      BY <1>3, <2>2, <3>1
    <3> QED
      BY <1>7, <3>1, <3>2, <3>3
  <2> QED
    BY <1>1, <2>3, <2>4, <2>5
<1> QED
  BY <1>4, <1>6, <1>9, <1>10 DEF Follows, v, r, node

\* A property that fails somewhere on an initial segment of the naturals fails
\* at a first place.
LEMMA FirstOf ==
    ASSUME NEW S \in SUBSET Nat, S # {}
    PROVE  \E d \in S : \A e \in S : d <= e
<1> DEFINE R == OpToRel(<, Nat)
<1>1. IsWellFoundedOn(R, Nat)
  BY NatLessThanWellFounded
<1>2. \A x, y \in Nat : <<y, x>> \in R <=> y < x
  BY DEF OpToRel
<1> HIDE DEF R
<1>3. PICK x \in S : \A y \in S : ~(<<y, x>> \in R)
  BY <1>1, WFMin
<1>4. ASSUME NEW y \in S PROVE x <= y
  <2>1. x \in Nat /\ y \in Nat /\ ~(y < x)
    BY <1>2, <1>3
  <2> QED
    BY <2>1
<1> QED
  BY <1>4

\* The walk of `size` nodes along the next pointers of some links.
WalkOf(l, n) ==
    LET at[k \in 1..n] == IF k = 1 THEN l.next[HeadNode] ELSE l.next[at[k - 1]]
    IN  [k \in 1..n |-> at[k]]

\* The walk along the next pointers finds the sequence that the links follow.
LEMMA WalkIs ==
    ASSUME NEW l, NEW w, Follows(l, w)
    PROVE  WalkOf(l, Len(w)) = w
<1> DEFINE n == Len(w)
           F(f) == [k \in 1..n |-> IF k = 1 THEN l.next[HeadNode] ELSE l.next[f[k - 1]]]
           at == CHOOSE f : f = F(f)
<1>1. WalkOf(l, n) = [k \in 1..n |-> at[k]]
  BY DEF WalkOf
<1>2. w \in Seq(NodeIds) /\ n \in Nat /\ w = [k \in 1..n |-> w[k]]
  BY DEF Follows
<1>3. \A k \in 1..n : w[k] = IF k = 1 THEN l.next[HeadNode] ELSE l.next[w[k - 1]]
  <2>1. SUFFICES ASSUME NEW k \in 1..n
                 PROVE  w[k] = IF k = 1 THEN l.next[HeadNode] ELSE l.next[w[k - 1]]
    BY Zenon
  <2>2. k - 1 \in 0..Len(w) /\ (k - 1) + 1 = k /\ (k # 1 => k - 1 \in 1..Len(w)) /\ k \in 1..Len(w)
    BY <1>2
  <2>3. l.next[At(w, k - 1)] = At(w, k)
    BY <2>2 DEF Follows, Chain
  <2>4. At(w, k) = w[k] /\ (k # 1 => At(w, k - 1) = w[k - 1]) /\ (k = 1 => At(w, k - 1) = HeadNode)
    BY <2>2 DEF At
  <2> QED
    BY <2>3, <2>4
<1>4. w = F(w)
  BY <1>2, <1>3
<1>5. at = F(at)
  BY <1>4
<1> HIDE DEF at
<1>6. \A k \in 1..n : at[k] = IF k = 1 THEN l.next[HeadNode] ELSE l.next[at[k - 1]]
  BY <1>5
<1> DEFINE bad == {k \in 1..n : at[k] # w[k]}
<1>7. bad = {}
  <2>1. SUFFICES ASSUME bad # {} PROVE FALSE
    OBVIOUS
  <2>2. bad \in SUBSET Nat
    BY <1>2
  <2>3. PICK k \in bad : \A j \in bad : k <= j
    BY <2>1, <2>2, FirstOf
  <2>4. k \in 1..n /\ at[k] # w[k] /\ (k # 1 => k - 1 \in 1..n /\ k - 1 \notin bad)
    BY <1>2, <2>3
  <2>5. k # 1 => at[k - 1] = w[k - 1]
    BY <2>4
  <2> QED
    BY <1>3, <1>6, <2>4, <2>5
<1> QED
  BY <1>1, <1>2, <1>7

\* A scan along a path of nodes that comes back to the head stops at the first
\* node of the path that passes, and at the head if none does.
LEMMA ScanIs ==
    ASSUME NEW step, NEW P, NEW n \in Nat, n <= Cardinality(NodeIds),
           NEW path, path[n + 1] = HeadNode, step[HeadNode] = path[1],
           \A j \in 1..n : path[j] # HeadNode /\ step[path[j]] = path[j + 1],
           NEW m \in 1..(n + 1), m = n + 1 \/ path[m] \in P,
           \A j \in 1..(m - 1) : path[j] \notin P
    PROVE  Scan(step, P) = path[m]
<1> DEFINE C == Cardinality(NodeIds)
           G(at, k) == IF k = 0 THEN step[HeadNode]
                       ELSE IF at[k - 1] = HeadNode \/ at[k - 1] \in P THEN at[k - 1]
                       ELSE step[at[k - 1]]
           run == CHOOSE f : f = [k \in 0..C |-> G(f, k)]
           found == [k \in 0..C |-> path[IF k + 1 < m THEN k + 1 ELSE m]]
<1>1. Scan(step, P) = run[C]
  BY DEF Scan
<1>2. C \in Nat
  BY NodesAssumption, FS_CardinalityType
<1> HIDE DEF C
<1>3. \A k \in 0..C : found[k] = G(found, k)
  <2>1. SUFFICES ASSUME NEW k \in 0..C PROVE found[k] = G(found, k)
    BY Zenon
  <2>2. found[k] = path[IF k + 1 < m THEN k + 1 ELSE m]
    OBVIOUS
  <2>3. k # 0 => found[k - 1] = path[IF k < m THEN k ELSE m]
    BY <1>2
  <2> HIDE DEF found
  <2>4. CASE k = 0
    <3>1. (IF k + 1 < m THEN k + 1 ELSE m) = 1
      BY <2>4
    <3> QED
      BY <2>2, <2>4, <3>1
  <2>5. CASE k # 0 /\ k < m
    <3>1. k \in 1..n /\ k \in 1..(m - 1) /\ (IF k + 1 < m THEN k + 1 ELSE m) = k + 1
      BY <2>5
    <3>2. found[k - 1] = path[k] /\ found[k] = path[k + 1]
      BY <2>2, <2>3, <2>5, <3>1
    <3> QED
      BY <2>5, <3>1, <3>2
  <2>6. CASE k # 0 /\ ~(k < m)
    <3>1. (IF k + 1 < m THEN k + 1 ELSE m) = m
      BY <2>6, <1>2
    <3>2. found[k - 1] = path[m] /\ found[k] = path[m]
      BY <2>2, <2>3, <2>6, <3>1
    <3>3. path[m] = HeadNode \/ path[m] \in P
      OBVIOUS
    <3> QED
      BY <2>6, <3>2, <3>3
  <2> QED
    BY <2>4, <2>5, <2>6
<1>4. found = [k \in 0..C |-> G(found, k)]
  BY <1>3
<1>5. found[C] = path[m]
  BY <1>2 DEF C
<1> HIDE DEF found
<1>6. run = [k \in 0..C |-> G(run, k)]
  BY <1>4
<1> HIDE DEF run
<1>7. \A k \in 0..C : run[k] = G(run, k)
  BY <1>6
<1> DEFINE bad == {k \in 0..C : run[k] # found[k]}
<1>8. bad = {}
  <2>1. SUFFICES ASSUME bad # {} PROVE FALSE
    OBVIOUS
  <2>2. bad \in SUBSET Nat
    BY <1>2
  <2>3. PICK k \in bad : \A j \in bad : k <= j
    BY <2>1, <2>2, FirstOf
  <2>4. k \in 0..C /\ run[k] # found[k] /\ (k # 0 => k - 1 \in 0..C /\ k - 1 \notin bad)
    BY <1>2, <2>3
  <2>5. k # 0 => run[k - 1] = found[k - 1]
    BY <2>4
  <2>6. run[k] = G(run, k) /\ found[k] = G(found, k)
    BY <1>3, <1>7, <2>4
  <2> QED
    BY <2>4, <2>5, <2>6
<1>9. C \in 0..C
  BY <1>2
<1> QED
  BY <1>1, <1>5, <1>8, <1>9

\* A scan forward stops at the first node that passes.
LEMMA ScanNext ==
    ASSUME NEW l, NEW w, Follows(l, w), Len(w) <= Cardinality(NodeIds), NEW P,
           NEW m \in 1..(Len(w) + 1), m = Len(w) + 1 \/ w[m] \in P,
           \A j \in 1..(m - 1) : w[j] \notin P
    PROVE  Scan(l.next, P) = At(w, m)
<1> DEFINE n == Len(w)
           path == [j \in 0..(n + 1) |-> At(w, j)]
<1>1. n \in Nat /\ w \in Seq(NodeIds) /\ Distinct(w)
  BY DEF Follows
<1>2. /\ At(w, 0) = HeadNode /\ At(w, n + 1) = HeadNode
      /\ \A j \in 1..n : At(w, j) = w[j] /\ w[j] \in NodeIds
  BY <1>1, AtFacts
<1>3. \A j \in 0..n : l.next[At(w, j)] = At(w, j + 1)
  BY DEF Follows, Chain
<1>4. \A j \in 0..(n + 1) : path[j] = At(w, j)
  BY Zenon
<1> HIDE DEF path
<1>5. path[n + 1] = HeadNode /\ l.next[HeadNode] = path[1]
  <2>1. 0 \in 0..n /\ 1 \in 0..(n + 1) /\ n + 1 \in 0..(n + 1)
    BY <1>1
  <2> QED
    BY <1>2, <1>3, <1>4, <2>1
<1>6. \A j \in 1..n : path[j] # HeadNode /\ l.next[path[j]] = path[j + 1]
  <2>1. SUFFICES ASSUME NEW j \in 1..n PROVE path[j] # HeadNode /\ l.next[path[j]] = path[j + 1]
    BY Zenon
  <2>2. j \in 0..n /\ j \in 0..(n + 1) /\ j + 1 \in 0..(n + 1)
    BY <1>1
  <2> QED
    BY <1>2, <1>3, <1>4, <2>2, NodesAssumption
<1>7. m \in 0..(n + 1) /\ (m # n + 1 => m \in 1..n)
  BY <1>1
<1>8. m = n + 1 \/ path[m] \in P
  BY <1>2, <1>4, <1>7
<1>9. \A j \in 1..(m - 1) : path[j] \notin P
  <2>1. SUFFICES ASSUME NEW j \in 1..(m - 1) PROVE path[j] \notin P
    BY Zenon
  <2>2. j \in 1..n /\ j \in 0..(n + 1)
    BY <1>1
  <2> QED
    BY <1>2, <1>4, <2>2
<1>10. Scan(l.next, P) = path[m]
  BY <1>1, <1>5, <1>6, <1>8, <1>9, ScanIs
<1> QED
  BY <1>4, <1>7, <1>10

\* A scan backward stops at the last node that passes.
LEMMA ScanPrev ==
    ASSUME NEW l, NEW w, Follows(l, w), Len(w) <= Cardinality(NodeIds), NEW P,
           NEW m \in 0..Len(w), m = 0 \/ w[m] \in P,
           \A j \in (m + 1)..Len(w) : w[j] \notin P
    PROVE  Scan(l.prev, P) = At(w, m)
<1> DEFINE n == Len(w)
           path == [j \in 0..(n + 1) |-> At(w, n + 1 - j)]
           b == n + 1 - m
<1>1. n \in Nat /\ w \in Seq(NodeIds) /\ Distinct(w)
  BY DEF Follows
<1>2. /\ At(w, 0) = HeadNode /\ At(w, n + 1) = HeadNode
      /\ \A j \in 1..n : At(w, j) = w[j] /\ w[j] \in NodeIds
  BY <1>1, AtFacts
<1>3. \A j \in 1..(n + 1) : l.prev[At(w, j)] = At(w, j - 1)
  BY ChainBack
<1>4. \A j \in 0..(n + 1) : path[j] = At(w, n + 1 - j)
  BY Zenon
<1> HIDE DEF path
<1>5. path[n + 1] = HeadNode /\ l.prev[HeadNode] = path[1]
  <2>1. n + 1 \in 1..(n + 1) /\ 1 \in 0..(n + 1) /\ n + 1 \in 0..(n + 1)
        /\ n + 1 - (n + 1) = 0 /\ n + 1 - 1 = n /\ (n + 1) - 1 = n
    BY <1>1
  <2>2. path[n + 1] = At(w, 0) /\ path[1] = At(w, n) /\ l.prev[At(w, n + 1)] = At(w, n)
    BY <1>3, <1>4, <2>1
  <2> QED
    BY <1>2, <2>2
<1>6. \A j \in 1..n : path[j] # HeadNode /\ l.prev[path[j]] = path[j + 1]
  <2>1. SUFFICES ASSUME NEW j \in 1..n PROVE path[j] # HeadNode /\ l.prev[path[j]] = path[j + 1]
    BY Zenon
  <2>2. j \in 0..(n + 1) /\ j + 1 \in 0..(n + 1) /\ n + 1 - j \in 1..(n + 1) /\ n + 1 - j \in 1..n
        /\ (n + 1 - j) - 1 = n + 1 - (j + 1)
    BY <1>1
  <2>3. path[j] = At(w, n + 1 - j) /\ path[j + 1] = At(w, n + 1 - (j + 1))
    BY <1>4, <2>2
  <2>4. l.prev[At(w, n + 1 - j)] = At(w, (n + 1 - j) - 1)
    BY <1>3, <2>2
  <2>5. At(w, n + 1 - j) \in NodeIds
    BY <1>2, <2>2
  <2> QED
    BY <2>2, <2>3, <2>4, <2>5, NodesAssumption
<1>7. b \in 0..(n + 1) /\ b \in 1..(n + 1) /\ n + 1 - b = m /\ (b # n + 1 => m \in 1..n /\ m # 0)
  BY <1>1
<1>a. path[b] = At(w, m)
  BY <1>4, <1>7
<1>8. b = n + 1 \/ path[b] \in P
  BY <1>2, <1>a, <1>7
<1>9. \A j \in 1..(b - 1) : path[j] \notin P
  <2>1. SUFFICES ASSUME NEW j \in 1..(b - 1) PROVE path[j] \notin P
    BY Zenon
  <2>2. n + 1 - j \in 1..n /\ n + 1 - j \in (m + 1)..n /\ j \in 0..(n + 1)
    BY <1>1
  <2>3. path[j] = w[n + 1 - j]
    BY <1>2, <1>4, <2>2
  <2> QED
    BY <2>2, <2>3
<1> HIDE DEF b
<1>10. Scan(l.prev, P) = path[b]
  BY <1>1, <1>5, <1>6, <1>7, <1>8, <1>9, ScanIs
<1> QED
  BY <1>a, <1>10

\* Both specifications agree on where a sorted insertion goes.
LEMMA PlaceIs ==
    ASSUME NEW l, NEW w, Follows(l, w), Len(w) <= Cardinality(NodeIds),
           item \in [NodeIds -> Nat], NEW i \in Nat, NEW low \in BOOLEAN
    PROVE  /\ Abstract!Place(w, i, low) \in 0..Len(w)
           /\ Place(l, i, low) = At(w, IF low THEN Abstract!Place(w, i, low) + 1
                                             ELSE Abstract!Place(w, i, low))
<1> DEFINE n == Len(w)
           Low(k) == /\ \A j \in 1..k : i > item[w[j]]
                     /\ k < n => i <= item[w[k + 1]]
           High(k) == /\ \A j \in (k + 1)..n : item[w[j]] > i
                      /\ k > 0 => item[w[k]] <= i
           k1 == CHOOSE k \in 0..n : Low(k)
           k2 == CHOOSE k \in 0..n : High(k)
<1>1. n \in Nat /\ \A j \in 1..n : w[j] \in NodeIds /\ item[w[j]] \in Nat
  BY DEF Follows
<1>2. Abstract!Place(w, i, low) = IF low THEN k1 ELSE k2
  BY DEF Abstract!Place
<1>3. \E k \in 0..n : Low(k)
  <2> DEFINE S == {m \in 1..n : i <= item[w[m]]} \cup {n + 1}
  <2>1. S \in SUBSET Nat /\ S # {}
    BY <1>1
  <2>2. PICK m \in S : \A e \in S : m <= e
    BY <2>1, FirstOf
  <2>3. m \in 1..(n + 1) /\ m - 1 \in 0..n /\ (m - 1) + 1 = m
    BY <1>1, <2>2
  <2>4. ASSUME NEW j \in 1..(m - 1) PROVE i > item[w[j]]
    <3>1. j \in 1..n /\ j \in Nat /\ j < m
      BY <1>1, <2>3
    <3>2. j \notin S
      BY <2>2, <2>3, <3>1
    <3>3. ~(i <= item[w[j]]) /\ item[w[j]] \in Nat
      BY <1>1, <3>1, <3>2
    <3> QED
      BY <3>3
  <2>5. m - 1 < n => i <= item[w[m]]
    BY <1>1, <2>2, <2>3
  <2> QED
    BY <2>3, <2>4, <2>5
<1>4. \E k \in 0..n : High(k)
  <2> DEFINE S == {m \in 1..n : item[w[n + 1 - m]] <= i} \cup {n + 1}
  <2>1. S \in SUBSET Nat /\ S # {}
    BY <1>1
  <2>2. PICK m \in S : \A e \in S : m <= e
    BY <2>1, FirstOf
  <2>3. m \in 1..(n + 1) /\ n + 1 - m \in 0..n
    BY <1>1, <2>2
  <2>4. ASSUME NEW j \in (n + 1 - m + 1)..n PROVE item[w[j]] > i
    <3>1. j \in 1..n /\ n + 1 - j \in 1..n /\ n + 1 - j < m /\ n + 1 - (n + 1 - j) = j
      BY <1>1, <2>3
    <3>2. n + 1 - j \notin S
      BY <2>2, <2>3, <3>1
    <3>3. ~(item[w[j]] <= i) /\ item[w[j]] \in Nat
      BY <1>1, <3>1, <3>2
    <3> QED
      BY <3>3
  <2>5. n + 1 - m > 0 => item[w[n + 1 - m]] <= i
    BY <1>1, <2>2, <2>3
  <2> QED
    BY <2>3, <2>4, <2>5
<1>5. CASE low
  <2>1. k1 \in 0..n /\ Low(k1)
    BY <1>3
  <2> HIDE DEF k1
  <2> DEFINE P == {x \in NodeIds : i <= item[x]}
  <2>2. k1 + 1 \in 1..(n + 1) /\ (k1 + 1) - 1 = k1 /\ (k1 < n => k1 + 1 \in 1..n) /\ (~(k1 < n) => k1 + 1 = n + 1)
    BY <1>1, <2>1
  <2>3. k1 + 1 = n + 1 \/ w[k1 + 1] \in P
    BY <1>1, <2>1, <2>2
  <2>4. \A j \in 1..((k1 + 1) - 1) : w[j] \notin P
    BY <1>1, <2>1, <2>2
  <2> HIDE DEF P
  <2>5. Scan(l.next, P) = At(w, k1 + 1)
    BY <2>2, <2>3, <2>4, ScanNext
  <2> QED
    BY <1>2, <1>5, <2>1, <2>5 DEF Place, P
<1>6. CASE ~low
  <2>1. k2 \in 0..n /\ High(k2)
    BY <1>4
  <2> HIDE DEF k2
  <2> DEFINE P == {x \in NodeIds : item[x] <= i}
  <2>3. k2 = 0 \/ w[k2] \in P
    BY <1>1, <2>1
  <2>4. \A j \in (k2 + 1)..n : w[j] \notin P
    BY <1>1, <2>1
  <2> HIDE DEF P
  <2>a. k2 \in 0..Len(w)
    BY <2>1
  <2>5. Scan(l.prev, P) = At(w, k2)
    BY <2>3, <2>4, <2>a, ScanPrev
  <2> QED
    BY <1>2, <1>6, <2>1, <2>5 DEF Place, P
<1> QED
  BY <1>5, <1>6

Elems(w) == {w[k] : k \in 1..Len(w)}

\* The links of the ring visit the allocated nodes in the order of the walk, once
\* each.
RingInv ==
    /\ LinksInv
    /\ Follows(links, Walk)
    /\ Len(Walk) = size
    /\ Elems(Walk) = used
    /\ Cardinality(used) = size
    /\ cursor \in used \cup {HeadNode}
    /\ item \in [NodeIds -> Nat]

\* Every node the ring holds has a position in the walk, and the cursor has one
\* or is at the head.
LEMMA Positions ==
    ASSUME RingInv
    PROVE  /\ Walk \in Seq(NodeIds) /\ Distinct(Walk) /\ size \in Nat /\ Len(Walk) = size
           /\ used \subseteq NodeIds /\ IsFiniteSet(used) /\ size <= Cardinality(NodeIds)
           /\ \A k \in 1..size : Walk[k] \in used /\ Walk[k] # HeadNode
           /\ \A node \in used : \E k \in 1..size : Walk[k] = node
           /\ \E k \in 0..size : cursor = At(Walk, k)
<1>1. Walk \in Seq(NodeIds) /\ Distinct(Walk) /\ Len(Walk) = size /\ size \in Nat
  BY DEF RingInv, Follows
<1>2. used \subseteq NodeIds
  BY DEF RingInv, LinksInv
<1>3. IsFiniteSet(used) /\ size <= Cardinality(NodeIds)
  <2>1. used \in SUBSET NodeIds /\ IsFiniteSet(NodeIds)
    BY <1>2, NodesAssumption
  <2>2. IsFiniteSet(used) /\ Cardinality(used) <= Cardinality(NodeIds)
    BY <2>1, FS_Subset
  <2> QED
    BY <2>2, Zenon DEF RingInv
<1>4. \A k \in 1..size : Walk[k] \in used /\ Walk[k] # HeadNode
  BY <1>1, <1>2, NodesAssumption DEF RingInv, Elems
<1>5. \A node \in used : \E k \in 1..size : Walk[k] = node
  BY <1>1 DEF RingInv, Elems
<1>6. \E k \in 0..size : cursor = At(Walk, k)
  <2>1. CASE cursor = HeadNode
    <3>1. At(Walk, 0) = HeadNode /\ 0 \in 0..size
      BY <1>1 DEF At
    <3> QED
      BY <2>1, <3>1
  <2>2. CASE cursor \in used
    <3>1. PICK k \in 1..size : Walk[k] = cursor
      BY <1>5, <2>2
    <3>2. k \in 0..size /\ At(Walk, k) = Walk[k]
      BY <1>1 DEF At
    <3> QED
      BY <3>1, <3>2
  <2> QED
    BY <2>1, <2>2 DEF RingInv
<1> QED
  BY <1>1, <1>2, <1>3, <1>4, <1>5, <1>6

\* A step after which the links follow w has w for its walk.
LEMMA Becomes ==
    ASSUME RingInv, [Next]_vars, NEW w, Follows(links', w), Len(w) = size',
           Elems(w) = used', Cardinality(used') = size',
           cursor' \in used' \cup {HeadNode}, item' \in [NodeIds -> Nat]
    PROVE  RingInv' /\ Walk' = w
<1>1. Walk' = WalkOf(links', size')
  BY DEF Walk, WalkOf
<1>2. Walk' = w
  BY <1>1, WalkIs
<1>3. LinksInv'
  BY LinksStep DEF RingInv
<1>4. Follows(links, Walk)' /\ (Len(Walk) = size)' /\ (Elems(Walk) = used)'
  BY <1>2 DEF Follows, Chain, MutualInverse, Pointers, Addresses, Distinct, At, HeadNode, Elems
<1> QED
  BY <1>2, <1>3, <1>4 DEF RingInv

\* A step that only moves the cursor, to a node of the list or to the head.
LEMMA CursorStep ==
    ASSUME RingInv, [Next]_vars, UNCHANGED <<links, size, item, used>>,
           cursor' \in used \cup {HeadNode}
    PROVE  RingInv' /\ Walk' = Walk
<1>1. Follows(links', Walk) /\ Len(Walk) = size' /\ Elems(Walk) = used'
      /\ Cardinality(used') = size' /\ cursor' \in used' \cup {HeadNode}
      /\ item' \in [NodeIds -> Nat]
  BY DEF RingInv
<1> QED
  BY <1>1, Becomes

\* The elements of a sequence with one more or one less.
LEMMA InsertedNodes ==
    ASSUME NEW w \in Seq(NodeIds), NEW node \in NodeIds, NEW k \in 1..(Len(w) + 1)
    PROVE  /\ Elems(Abstract!Inserted(w, k, node)) = Elems(w) \cup {node}
           /\ Len(Abstract!Inserted(w, k, node)) = Len(w) + 1
<1> DEFINE v == Abstract!Inserted(w, k, node)
<1>1. /\ Len(w) \in Nat /\ Len(v) = Len(w) + 1
      /\ \A i \in 1..(Len(w) + 1) :
            v[i] = IF i < k THEN w[i] ELSE IF i = k THEN node ELSE w[i - 1]
  BY InsertedFacts
<1> HIDE DEF v
<1>2. ASSUME NEW i \in 1..Len(v) PROVE v[i] = node \/ \E j \in 1..Len(w) : v[i] = w[j]
  <2>1. i < k => i \in 1..Len(w)
    BY <1>1
  <2>2. i > k => i - 1 \in 1..Len(w)
    BY <1>1
  <2> QED
    BY <1>1, <2>1, <2>2
<1>3. \E i \in 1..Len(v) : v[i] = node
  BY <1>1
<1>4. ASSUME NEW j \in 1..Len(w) PROVE \E i \in 1..Len(v) : v[i] = w[j]
  <2>1. CASE j < k
    BY <1>1, <2>1
  <2>2. CASE ~(j < k)
    <3>1. j + 1 \in 1..Len(v) /\ ~(j + 1 < k) /\ j + 1 # k /\ (j + 1) - 1 = j
      BY <1>1, <2>2
    <3>2. v[j + 1] = w[j]
      BY <1>1, <3>1
    <3> QED
      BY <3>1, <3>2
  <2> QED
    BY <2>1, <2>2
<1>5. ASSUME NEW x \in Elems(v) PROVE x \in Elems(w) \cup {node}
  <2>1. PICK i \in 1..Len(v) : x = v[i]
    BY <1>5 DEF Elems
  <2> QED
    BY <1>2, <2>1, Zenon DEF Elems
<1>6. ASSUME NEW x \in Elems(w) \cup {node} PROVE x \in Elems(v)
  <2>1. x = node \/ \E j \in 1..Len(w) : x = w[j]
    BY <1>6 DEF Elems
  <2> QED
    BY <1>3, <1>4, <2>1, Zenon DEF Elems
<1> QED
  BY <1>1, <1>5, <1>6, Zenon DEF v

\* Removing the k-th element takes it out of the elements.
LEMMA RemovedNodes ==
    ASSUME NEW w \in Seq(NodeIds), Distinct(w), NEW k \in 1..Len(w)
    PROVE  Elems(Abstract!Removed(w, k)) = Elems(w) \ {w[k]}
<1> DEFINE v == Abstract!Removed(w, k)
<1>1. /\ Len(w) \in Nat /\ Len(v) = Len(w) - 1
      /\ \A i \in 1..(Len(w) - 1) : v[i] = IF i < k THEN w[i] ELSE w[i + 1]
      /\ \A i, j \in 1..Len(w) : w[i] = w[j] => i = j
  BY RemovedFacts DEF Distinct
<1> HIDE DEF v
<1>2. ASSUME NEW i \in 1..Len(v) PROVE v[i] # w[k] /\ \E j \in 1..Len(w) : v[i] = w[j]
  <2>1. i \in 1..Len(w) /\ i + 1 \in 1..Len(w) /\ (i < k => i # k) /\ (~(i < k) => i + 1 # k)
    BY <1>1
  <2> QED
    BY <1>1, <2>1
<1>4. ASSUME NEW j \in 1..Len(w), w[j] # w[k] PROVE \E i \in 1..Len(v) : v[i] = w[j]
  <2>1. CASE j < k
    BY <1>1, <2>1
  <2>2. CASE j > k
    <3>1. j - 1 \in 1..Len(v) /\ ~(j - 1 < k) /\ (j - 1) + 1 = j
      BY <1>1, <2>2
    <3>2. v[j - 1] = w[j]
      BY <1>1, <3>1
    <3> QED
      BY <3>1, <3>2
  <2> QED
    BY <1>1, <1>4, <2>1, <2>2
<1>5. ASSUME NEW x \in Elems(v) PROVE x \in Elems(w) \ {w[k]}
  <2>1. PICK i \in 1..Len(v) : x = v[i]
    BY <1>5 DEF Elems
  <2> QED
    BY <1>2, <2>1, Zenon DEF Elems
<1>6. ASSUME NEW x \in Elems(w) \ {w[k]} PROVE x \in Elems(v)
  <2>1. PICK j \in 1..Len(w) : x = w[j] /\ x # w[k]
    BY <1>6 DEF Elems
  <2> QED
    BY <1>4, <2>1, Zenon DEF Elems
<1> QED
  BY <1>5, <1>6, Zenon DEF v

\* A new node linked in after the k-th one becomes the next one of the walk.
LEMMA AddStep ==
    ASSUME RingInv, [Next]_vars, NEW node, NEW i \in Items, s_node_new(node, i),
           NEW k \in 0..size, links' = LinkedAfter(links, node, At(Walk, k))
    PROVE  RingInv' /\ Walk' = Abstract!Inserted(Walk, k + 1, node)
<1> DEFINE w == Walk
           m == k + 1
           v == Abstract!Inserted(w, m, node)
<1>1. /\ w \in Seq(NodeIds) /\ Len(w) = size /\ size \in Nat /\ used \subseteq NodeIds
      /\ IsFiniteSet(used) /\ \A j \in 1..size : w[j] \in used
  BY Positions
<1>2. /\ node \in NodeIds \ used /\ used' = used \cup {node} /\ cursor' = HeadNode
      /\ item' = [item EXCEPT ![node] = i] /\ size' = size + 1
  BY DEF s_node_new
<1>3. links.next[node] = node /\ Follows(links, w) /\ Elems(w) = used
      /\ Cardinality(used) = size /\ item \in [NodeIds -> Nat]
  BY <1>2 DEF RingInv, LinksInv, Ring, Loose
<1>4. \A j \in 1..Len(w) : w[j] # node
  BY <1>1, <1>2
<1>5. k \in 0..Len(w) /\ m \in 1..(Len(w) + 1)
  BY <1>1
<1> HIDE DEF w
<1>6. Follows(links', v)
  BY <1>2, <1>3, <1>4, <1>5, FollowsInsert DEF w
<1> HIDE DEF m
<1>7. Elems(v) = Elems(w) \cup {node} /\ Len(v) = Len(w) + 1
  BY <1>1, <1>2, <1>5, InsertedNodes
<1>8. Elems(v) = used'
  BY <1>2, <1>3, <1>7
<1> HIDE DEF v
<1>9. Cardinality(used') = size'
  <2>1. Cardinality(used \cup {node}) = Cardinality(used) + 1
    BY <1>1, <1>2, FS_AddElement
  <2> QED
    BY <1>2, <1>3, <2>1
<1>10. Len(v) = size' /\ cursor' \in used' \cup {HeadNode}
  BY <1>1, <1>2, <1>7
<1>11. item' \in [NodeIds -> Nat]
  BY <1>2, <1>3, NodesAssumption
<1> QED
  BY <1>6, <1>8, <1>9, <1>10, <1>11, Becomes DEF v, w, m

\* A node taken out goes away from the walk.
LEMMA DetachStep ==
    ASSUME RingInv, [Next]_vars, NEW k \in 1..size,
           links' = Unlinked(links, Walk[k]), used' = used \ {Walk[k]}, size' = size - 1,
           item' = item, cursor' \in used' \cup {HeadNode}
    PROVE  RingInv' /\ Walk' = Abstract!Removed(Walk, k)
<1> DEFINE w == Walk
           v == Abstract!Removed(w, k)
<1>1. /\ w \in Seq(NodeIds) /\ Distinct(w) /\ Len(w) = size /\ size \in Nat
      /\ IsFiniteSet(used) /\ w[k] \in used /\ k \in 1..Len(w)
  BY Positions
<1>2. Follows(links, w) /\ Elems(w) = used
      /\ Cardinality(used) = size /\ item' \in [NodeIds -> Nat]
  BY DEF RingInv
<1>3. links' = Unlinked(links, w[k]) /\ used' = used \ {w[k]}
  OBVIOUS
<1> HIDE DEF w
<1>4. Follows(links', v)
  BY <1>1, <1>2, <1>3, FollowsRemove
<1>5. Len(v) = Len(w) - 1
  BY <1>1, RemovedFacts
<1>6. Elems(v) = used'
  BY <1>1, <1>2, <1>3, RemovedNodes
<1> HIDE DEF v
<1>7. Cardinality(used') = size'
  <2>1. Cardinality(used \ {w[k]}) = Cardinality(used) - 1
    BY <1>1, FS_RemoveElement
  <2> QED
    BY <1>2, <1>3, <2>1
<1>8. Len(v) = size'
  BY <1>1, <1>5
<1> QED
  BY <1>2, <1>4, <1>6, <1>7, <1>8, Becomes DEF v, w

\* A node taken out and linked in again after the j-th of the others.
LEMMA MoveStep ==
    ASSUME RingInv, [Next]_vars, NEW k \in 1..size, NEW j \in 0..(size - 1),
           links' = LinkedAfter(Unlinked(links, Walk[k]), Walk[k], At(Abstract!Removed(Walk, k), j)),
           UNCHANGED <<cursor, size, item, used>>
    PROVE  RingInv' /\ Walk' = Abstract!Inserted(Abstract!Removed(Walk, k), j + 1, Walk[k])
<1> DEFINE w == Walk
           node == w[k]
           l == Unlinked(links, node)
           v == Abstract!Removed(w, k)
           m == j + 1
           u == Abstract!Inserted(v, m, node)
<1>1. /\ w \in Seq(NodeIds) /\ Distinct(w) /\ Len(w) = size /\ size \in Nat
      /\ node \in used /\ node \in NodeIds /\ k \in 1..Len(w)
  BY Positions
<1>2. Follows(links, w) /\ Elems(w) = used
      /\ Cardinality(used') = size' /\ item' \in [NodeIds -> Nat]
      /\ cursor' \in used' \cup {HeadNode}
  BY DEF RingInv
<1>3. links' = LinkedAfter(l, node, At(v, j)) /\ used' = used /\ size' = size
  OBVIOUS
<1> HIDE DEF w
<1>4. Follows(l, v) /\ l.next[node] = node /\ \A x \in 1..Len(v) : v[x] # node
  BY <1>1, <1>2, FollowsRemove
<1>5. v \in Seq(NodeIds) /\ Len(v) = Len(w) - 1
  BY <1>1, RemovedFacts
<1>6. Elems(v) = used \ {node}
  BY <1>1, <1>2, RemovedNodes
<1> HIDE DEF v, l
<1>7. j \in 0..Len(v) /\ m \in 1..(Len(v) + 1) /\ Len(v) + 1 = size
  BY <1>1, <1>5
<1> HIDE DEF node
<1>8. Follows(links', u)
  BY <1>1, <1>3, <1>4, <1>7, FollowsInsert
<1> HIDE DEF m
<1>9. Len(u) = Len(v) + 1
  BY <1>1, <1>5, <1>7, InsertedNodes
<1>10. Elems(u) = Elems(v) \cup {node}
  BY <1>1, <1>5, <1>7, InsertedNodes
<1> HIDE DEF u
<1>11. Elems(u) = used'
  BY <1>1, <1>3, <1>6, <1>10
<1>12. Len(u) = size'
  BY <1>3, <1>7, <1>9
<1> QED
  BY <1>2, <1>8, <1>11, <1>12, Becomes DEF u, v, w, node, m

\* A node that points to itself is not disturbed by taking it out.
LEMMA UnlinkedLoose ==
    ASSUME NEW l \in Pointers, MutualInverse(l), NEW node \in Addresses, l.next[node] = node
    PROVE  Unlinked(l, node) = l
<1>1. l.prev[node] = node
  BY DEF MutualInverse
<1>2. Unlinked(l, node) = [next |-> [l.next EXCEPT ![node] = node, ![node] = node],
                           prev |-> [l.prev EXCEPT ![node] = node, ![node] = node]]
  BY <1>1 DEF Unlinked, s_node_relink
<1>3. [l.next EXCEPT ![node] = node, ![node] = node] = l.next
      /\ [l.prev EXCEPT ![node] = node, ![node] = node] = l.prev
  BY <1>1 DEF Pointers
<1> QED
  BY <1>2, <1>3 DEF Pointers

\* Inserting at either end is what the list says it is.
LEMMA InsertEnds ==
    ASSUME NEW w \in Seq(NodeIds), NEW node \in NodeIds
    PROVE  /\ Abstract!Inserted(w, 1, node) = <<node>> \o w
           /\ Abstract!Inserted(w, Len(w) + 1, node) = Append(w, node)
<1>1. Len(w) \in Nat
  OBVIOUS
<1>2. Abstract!Inserted(w, 1, node) = <<node>> \o w
  <2> DEFINE a == Abstract!Inserted(w, 1, node)
             b == <<node>> \o w
  <2>1. /\ a \in Seq(NodeIds) /\ Len(a) = Len(w) + 1
        /\ \A i \in 1..(Len(w) + 1) :
              a[i] = IF i < 1 THEN w[i] ELSE IF i = 1 THEN node ELSE w[i - 1]
    BY <1>1, InsertedFacts
  <2>2. /\ b \in Seq(NodeIds) /\ Len(b) = Len(w) + 1
        /\ \A i \in 1..(Len(w) + 1) : b[i] = IF i = 1 THEN node ELSE w[i - 1]
    OBVIOUS
  <2> HIDE DEF a, b
  <2>3. \A i \in 1..Len(a) : a[i] = b[i]
    BY <1>1, <2>1, <2>2
  <2>4. a = b
    BY <2>1, <2>2, <2>3
  <2> QED
    BY <2>4 DEF a, b
<1>3. Abstract!Inserted(w, Len(w) + 1, node) = Append(w, node)
  <2> DEFINE m == Len(w) + 1
             a == Abstract!Inserted(w, m, node)
             b == Append(w, node)
  <2>0. m \in 1..(Len(w) + 1)
    BY <1>1
  <2>2. /\ b \in Seq(NodeIds) /\ Len(b) = m
        /\ \A i \in 1..m : b[i] = IF i = m THEN node ELSE w[i]
    BY <1>1
  <2>a. m = Len(w) + 1
    OBVIOUS
  <2> HIDE DEF m
  <2>1. /\ a \in Seq(NodeIds) /\ Len(a) = Len(w) + 1
        /\ \A i \in 1..(Len(w) + 1) :
              a[i] = IF i < m THEN w[i] ELSE IF i = m THEN node ELSE w[i - 1]
    BY <2>0, InsertedFacts
  <2> HIDE DEF a, b
  <2>3. \A i \in 1..Len(a) : a[i] = b[i]
    BY <1>1, <2>1, <2>2, <2>a
  <2>4. a = b
    BY <2>1, <2>2, <2>3, <2>a
  <2> QED
    BY <2>4 DEF a, b, m
<1> QED
  BY <1>2, <1>3

\* The list that the ring stands for, its nodes and their positions.
LEMMA ListIs ==
    ASSUME RingInv
    PROVE  /\ Abstract!Nodes([seq |-> Walk, cur |-> cursor]) = used
           /\ Abstract!Fresh = NodeIds \ used
           /\ \A k \in 1..size :
                 /\ Abstract!Position([seq |-> Walk, cur |-> cursor], Walk[k]) = k
                 /\ Abstract!Pred([seq |-> Walk, cur |-> cursor], Walk[k]) = At(Walk, k - 1)
<1> DEFINE lst == [seq |-> Walk, cur |-> cursor]
<1>1. /\ Walk \in Seq(NodeIds) /\ Distinct(Walk) /\ size \in Nat /\ Len(Walk) = size
      /\ Elems(Walk) = used
  BY Positions DEF RingInv
<1>2. lst.seq = Walk /\ DOMAIN Walk = 1..Len(Walk)
  BY <1>1
<1>3. Abstract!Nodes(lst) = used
  BY <1>1, <1>2 DEF Abstract!Nodes, Elems
<1>4. Abstract!Fresh = NodeIds \ used
  BY <1>3 DEF Abstract!Fresh
<1>5. ASSUME NEW k \in 1..size
      PROVE  Abstract!Position(lst, Walk[k]) = k /\ Abstract!Pred(lst, Walk[k]) = At(Walk, k - 1)
  <2>1. \A x \in 1..size : Walk[x] = Walk[k] => x = k
    BY <1>1 DEF Distinct
  <2>2. Abstract!Position(lst, Walk[k]) = CHOOSE x \in 1..size : Walk[x] = Walk[k]
    BY <1>1, <1>2 DEF Abstract!Position
  <2>3. Abstract!Position(lst, Walk[k]) = k
    BY <2>1, <2>2
  <2>4. k # 1 => k - 1 \in 1..size
    BY <1>1
  <2>5. k = 1 => ~(k - 1 \in 1..size)
    BY <1>1
  <2> HIDE DEF lst
  <2>6. Abstract!Pred(lst, Walk[k]) = At(Walk, k - 1)
    BY <1>1, <1>2, <2>3, <2>4, <2>5 DEF Abstract!Pred, At, HeadNode, Abstract!NoNode
  <2> QED
    BY <2>3, <2>6
<1> QED
  BY <1>3, <1>4, <1>5

\* What a step that adds, and what any other, is to the list.
LEMMA AddIs ==
    ASSUME RingInv, NEW node, NEW i, s_node_new(node, i), NEW w, Walk' = w
    PROVE  Abstract!Add(node, i, [seq |-> w, cur |-> Abstract!NoNode])
<1>1. node \in NodeIds \ used /\ cursor' = HeadNode /\ item' = [item EXCEPT ![node] = i]
  BY DEF s_node_new
<1>2. node \in Abstract!Fresh
  BY <1>1, ListIs
<1> QED
  BY <1>1, <1>2 DEF Abstract!Add, Abstract!NoNode, HeadNode

\* A node added at the start goes before the first of the list.
LEMMA AddStartIs ==
    ASSUME RingInv, [Next]_vars, NEW node \in NodeIds, NEW i \in Items, zlistx_add_start(node, i)
    PROVE  RingInv' /\ Abstract!Next
<1>1. s_node_new(node, i) /\ links' = LinkedAfter(links, node, HeadNode)
  BY DEF zlistx_add_start
<1>2. Walk \in Seq(NodeIds) /\ size \in Nat
  BY Positions
<1>3. At(Walk, 0) = HeadNode /\ 0 \in 0..size /\ 0 + 1 = 1
  BY <1>2 DEF At
<1>4. RingInv' /\ Walk' = Abstract!Inserted(Walk, 0 + 1, node)
  BY <1>1, <1>3, AddStep
<1>5. Walk' = <<node>> \o Walk
  BY <1>2, <1>3, <1>4, InsertEnds
<1>6. Abstract!Add(node, i, [seq |-> <<node>> \o Walk, cur |-> Abstract!NoNode])
  BY <1>1, <1>5, AddIs
<1>7. Abstract!Add(node, i, Abstract!add_start([seq |-> Walk, cur |-> cursor], node))
  BY <1>6 DEF Abstract!add_start
<1> QED
  BY <1>4, <1>7 DEF Abstract!Next

\* A node added at the end goes after the last of the list.
LEMMA AddEndIs ==
    ASSUME RingInv, [Next]_vars, NEW node \in NodeIds, NEW i \in Items, zlistx_add_end(node, i)
    PROVE  RingInv' /\ Abstract!Next
<1>1. s_node_new(node, i) /\ links' = LinkedBefore(links, node, HeadNode)
  BY DEF zlistx_add_end
<1>2. Walk \in Seq(NodeIds) /\ size \in Nat /\ Len(Walk) = size /\ Follows(links, Walk)
  BY Positions DEF RingInv
<1>3. At(Walk, size + 1) = HeadNode /\ size \in 0..size /\ size + 1 \in 1..(Len(Walk) + 1)
      /\ (size + 1) - 1 = size
  BY <1>2 DEF At
<1>4. LinkedBefore(links, node, At(Walk, size + 1)) = LinkedAfter(links, node, At(Walk, (size + 1) - 1))
  BY <1>2, <1>3, LinkBefore
<1>5. links' = LinkedAfter(links, node, At(Walk, size))
  BY <1>1, <1>3, <1>4
<1>6. RingInv' /\ Walk' = Abstract!Inserted(Walk, size + 1, node)
  BY <1>1, <1>3, <1>5, AddStep
<1>7. Walk' = Append(Walk, node)
  BY <1>2, <1>6, InsertEnds
<1>8. Abstract!Add(node, i, [seq |-> Append(Walk, node), cur |-> Abstract!NoNode])
  BY <1>1, <1>7, AddIs
<1>9. Abstract!Add(node, i, Abstract!add_end([seq |-> Walk, cur |-> cursor], node))
  BY <1>8 DEF Abstract!add_end
<1> QED
  BY <1>6, <1>9 DEF Abstract!Next

\* A sorted insertion puts the node where the list says.
LEMMA InsertIs ==
    ASSUME RingInv, [Next]_vars, NEW node \in NodeIds, NEW i \in Items, NEW low \in BOOLEAN,
           zlistx_insert(node, i, low)
    PROVE  RingInv' /\ Abstract!Next
<1> DEFINE k == Abstract!Place(Walk, i, low)
<1>1. s_node_new(node, i) /\ Reordered(node, i, low, links')
  BY DEF zlistx_insert
<1>2. /\ Walk \in Seq(NodeIds) /\ size \in Nat /\ Len(Walk) = size /\ Follows(links, Walk)
      /\ size <= Cardinality(NodeIds) /\ item \in [NodeIds -> Nat] /\ i \in Nat
  BY Positions, NodesAssumption DEF RingInv
<1>3. Unlinked(links, node) = links
  <2>1. node \in Addresses /\ node \in NodeIds \ used
    BY <1>1 DEF Addresses, s_node_new
  <2>2. links \in Pointers /\ MutualInverse(links) /\ links.next[node] = node
    BY <2>1 DEF RingInv, LinksInv, Ring, Loose
  <2> QED
    BY <2>1, <2>2, UnlinkedLoose
<1>4. links' = IF low THEN LinkedBefore(links, node, Place(links, i, low))
                      ELSE LinkedAfter(links, node, Place(links, i, low))
  BY <1>1, <1>3 DEF Reordered
<1>5. k \in 0..size /\ Place(links, i, low) = At(Walk, IF low THEN k + 1 ELSE k)
  BY <1>2, PlaceIs
<1> HIDE DEF k
<1>6. links' = LinkedAfter(links, node, At(Walk, k))
  <2>1. CASE low
    <3>1. k + 1 \in 1..(Len(Walk) + 1) /\ (k + 1) - 1 = k
      BY <1>2, <1>5
    <3>2. LinkedBefore(links, node, At(Walk, k + 1)) = LinkedAfter(links, node, At(Walk, (k + 1) - 1))
      BY <1>2, <3>1, LinkBefore
    <3> QED
      BY <1>4, <1>5, <2>1, <3>1, <3>2
  <2>2. CASE ~low
    BY <1>4, <1>5, <2>2
  <2> QED
    BY <2>1, <2>2
<1>7. RingInv' /\ Walk' = Abstract!Inserted(Walk, k + 1, node)
  BY <1>1, <1>5, <1>6, AddStep
<1>8. Walk' = Abstract!Placed(Walk, node, i, low)
  BY <1>7 DEF Abstract!Placed, k
<1>9. Abstract!Add(node, i, [seq |-> Abstract!Placed(Walk, node, i, low), cur |-> Abstract!NoNode])
  BY <1>1, <1>8, AddIs
<1> QED
  BY <1>7, <1>9 DEF Abstract!Next

\* Moving the cursor along the links is moving it along the sequence.
LEMMA CursorMoves ==
    ASSUME RingInv, [Next]_vars, zlistx_first \/ zlistx_next \/ zlistx_prev \/ zlistx_last
    PROVE  RingInv' /\ Abstract!Next
<1> DEFINE w == Walk
           lst == [seq |-> w, cur |-> cursor]
<1>1. /\ w \in Seq(NodeIds) /\ size \in Nat /\ Len(w) = size /\ Follows(links, w)
      /\ \A k \in 1..size : w[k] \in used /\ w[k] # HeadNode
  BY Positions DEF RingInv
<1>2. /\ At(w, 0) = HeadNode /\ At(w, size + 1) = HeadNode
      /\ \A k \in 1..size : At(w, k) = w[k]
  BY <1>1 DEF At
<1>3. PICK k \in 0..size : cursor = At(w, k)
  BY Positions
<1>4. /\ \A j \in 0..size : links.next[At(w, j)] = At(w, j + 1)
      /\ \A j \in 1..(size + 1) : links.prev[At(w, j)] = At(w, j - 1)
  BY <1>1, ChainBack DEF Follows, Chain
<1>5. \A j \in 1..size : Abstract!Position(lst, w[j]) = j /\ Abstract!Pred(lst, w[j]) = At(w, j - 1)
  BY ListIs
<1>6. \A j \in 0..(size + 1) : At(w, j) \in used \cup {HeadNode}
  <2>1. SUFFICES ASSUME NEW j \in 0..(size + 1) PROVE At(w, j) \in used \cup {HeadNode}
    BY Zenon
  <2>2. j = 0 \/ j = size + 1 \/ j \in 1..size
    BY <1>1
  <2> QED
    BY <1>1, <1>2, <2>2
<1>7. w = <<>> <=> size = 0
  BY <1>1
<1> HIDE DEF w
<1>8. ASSUME NEW c, cursor' = c, UNCHANGED <<links, size, item, used>>, c \in used \cup {HeadNode},
             NEW moved \in {Abstract!first(lst), Abstract!last(lst), Abstract!next(lst), Abstract!prev(lst)},
             moved = [seq |-> w, cur |-> c]
      PROVE  RingInv' /\ Abstract!Next
  <2>1. RingInv' /\ Walk' = Walk
    BY <1>8, CursorStep
  <2>2. Abstract!Move(moved)
    BY <1>8, <2>1 DEF Abstract!Move, w
  <2>3. moved \in {Abstract!first([seq |-> Walk, cur |-> cursor]), Abstract!last([seq |-> Walk, cur |-> cursor]),
                   Abstract!next([seq |-> Walk, cur |-> cursor]), Abstract!prev([seq |-> Walk, cur |-> cursor])}
    BY <1>8, Zenon DEF w
  <2> QED
    BY <2>1, <2>2, <2>3 DEF Abstract!Next
<1>9. Abstract!first(lst) = [seq |-> w, cur |-> At(w, 1)]
  <2>1. Abstract!first(lst) = [seq |-> w, cur |-> IF w = <<>> THEN HeadNode ELSE w[1]]
    BY DEF Abstract!first, Abstract!NoNode, HeadNode
  <2>2. (IF w = <<>> THEN HeadNode ELSE w[1]) = At(w, 1)
    BY <1>1, <1>2, <1>7
  <2> QED
    BY <2>1, <2>2
<1>10. Abstract!last(lst) = [seq |-> w, cur |-> At(w, size)]
  <2>1. Abstract!last(lst) = [seq |-> w, cur |-> IF w = <<>> THEN HeadNode ELSE w[Len(w)]]
    BY DEF Abstract!last, Abstract!NoNode, HeadNode
  <2>2. (IF w = <<>> THEN HeadNode ELSE w[Len(w)]) = At(w, size)
    <3>1. size # 0 => size \in 1..size
      BY <1>1
    <3> QED
      BY <1>1, <1>2, <1>7, <3>1
  <2> QED
    BY <2>1, <2>2
<1>11. cursor = HeadNode <=> k = 0
  BY <1>1, <1>2, <1>3
<1>12. k # 0 => k \in 1..size /\ cursor = w[k]
  BY <1>1, <1>2, <1>3
<1>13. Abstract!next(lst) = [seq |-> w, cur |-> At(w, k + 1)]
  <2> DEFINE x == IF cursor = HeadNode THEN 0 ELSE Abstract!Position(lst, cursor)
  <2>1. x = k
    BY <1>5, <1>11, <1>12
  <2>2. Abstract!next(lst) = [seq |-> w, cur |-> IF x = Len(w) THEN HeadNode ELSE w[x + 1]]
    BY DEF Abstract!next, Abstract!NoNode, HeadNode
  <2> HIDE DEF x
  <2>3. (IF x = Len(w) THEN HeadNode ELSE w[x + 1]) = At(w, k + 1)
    <3>1. k # size => k + 1 \in 1..size
      BY <1>1
    <3> QED
      BY <1>1, <1>2, <2>1, <3>1
  <2> QED
    BY <2>2, <2>3
<1>14. Abstract!prev(lst) = [seq |-> w, cur |-> IF k = 0 THEN At(w, size) ELSE At(w, k - 1)]
  <2>1. CASE k = 0
    BY <1>10, <1>11, <2>1 DEF Abstract!prev, Abstract!NoNode, HeadNode
  <2>2. CASE k # 0
    <3>1. Abstract!prev(lst) = [seq |-> w, cur |-> Abstract!Pred(lst, cursor)]
      BY <1>11, <2>2 DEF Abstract!prev, Abstract!NoNode, HeadNode
    <3> QED
      BY <1>5, <1>12, <2>2, <3>1
  <2> QED
    BY <2>1, <2>2
<1>15. /\ links.next[HeadNode] = At(w, 1) /\ links.prev[HeadNode] = At(w, size)
       /\ links.next[cursor] = At(w, k + 1)
       /\ links.prev[cursor] = IF k = 0 THEN At(w, size) ELSE At(w, k - 1)
  <2>1. 0 \in 0..size /\ size + 1 \in 1..(size + 1) /\ (size + 1) - 1 = size /\ 0 + 1 = 1
        /\ (k # 0 => k \in 1..(size + 1))
    BY <1>1
  <2>2. links.next[At(w, 0)] = At(w, 0 + 1) /\ links.prev[At(w, size + 1)] = At(w, (size + 1) - 1)
    BY <1>4, <2>1
  <2>3. links.next[HeadNode] = At(w, 1) /\ links.prev[HeadNode] = At(w, size)
    BY <1>2, <2>1, <2>2
  <2>4. links.next[cursor] = At(w, k + 1)
    BY <1>3, <1>4
  <2>5. k # 0 => links.prev[cursor] = At(w, k - 1)
    BY <1>3, <1>4, <2>1
  <2> QED
    BY <1>11, <2>3, <2>4, <2>5
<1>16. /\ At(w, 1) \in used \cup {HeadNode} /\ At(w, size) \in used \cup {HeadNode}
       /\ At(w, k + 1) \in used \cup {HeadNode} /\ (k # 0 => At(w, k - 1) \in used \cup {HeadNode})
  <2>1. 1 \in 0..(size + 1) /\ size \in 0..(size + 1) /\ k + 1 \in 0..(size + 1)
        /\ (k # 0 => k - 1 \in 0..(size + 1))
    BY <1>1
  <2> QED
    BY <1>6, <2>1
<1> HIDE DEF lst
<1>17. CASE zlistx_first
  BY <1>8, <1>9, <1>15, <1>16, <1>17 DEF zlistx_first, SetCursor
<1>18. CASE zlistx_last
  BY <1>8, <1>10, <1>15, <1>16, <1>18 DEF zlistx_last, SetCursor
<1>19. CASE zlistx_next
  BY <1>8, <1>13, <1>15, <1>16, <1>19 DEF zlistx_next, SetCursor
<1>20. CASE zlistx_prev
  BY <1>8, <1>14, <1>15, <1>16, <1>20 DEF zlistx_prev, SetCursor
<1> QED
  BY <1>17, <1>18, <1>19, <1>20

\* zlistx_find stops at the first node that holds the item.
LEMMA FindIs ==
    ASSUME RingInv, [Next]_vars, NEW i \in Items, zlistx_find(i)
    PROVE  RingInv' /\ Abstract!Next
<1> DEFINE w == Walk
           P == {n \in NodeIds : item[n] = i}
           node == Scan(links.next, P)
           hits == {k \in 1..Len(w) : item[w[k]] = i}
           k1 == CHOOSE k \in hits : \A m \in hits : k <= m
<1>1. /\ w \in Seq(NodeIds) /\ size \in Nat /\ Len(w) = size /\ Follows(links, w)
      /\ size <= Cardinality(NodeIds)
      /\ \A k \in 1..size : w[k] \in used /\ w[k] # HeadNode /\ w[k] \in NodeIds
      /\ cursor \in used \cup {HeadNode}
  BY Positions DEF RingInv
<1>2. cursor' = (IF node = HeadNode THEN cursor ELSE node) /\ UNCHANGED <<links, size, item, used>>
  BY DEF zlistx_find, SetCursor
<1>3. Abstract!Found(i) = IF hits = {} THEN [seq |-> w, cur |-> cursor]
                          ELSE [seq |-> w, cur |-> w[k1]]
  BY DEF Abstract!Found
<1>4. CASE hits = {}
  <2>1. \A j \in 1..((size + 1) - 1) : w[j] \notin P
    BY <1>1, <1>4
  <2>2. size + 1 \in 1..(Len(w) + 1)
    BY <1>1
  <2> HIDE DEF P, w
  <2>3. Scan(links.next, P) = At(w, size + 1)
    BY <1>1, <2>1, <2>2, ScanNext
  <2>4. At(w, size + 1) = HeadNode
    BY <1>1 DEF At
  <2>5. cursor' = cursor
    BY <1>2, <2>3, <2>4
  <2>6. RingInv' /\ Walk' = Walk
    BY <1>1, <1>2, <2>5, CursorStep
  <2>7. Abstract!Move(Abstract!Found(i))
    BY <1>2, <1>3, <1>4, <2>5, <2>6 DEF Abstract!Move, w
  <2> QED
    BY <2>6, <2>7 DEF Abstract!Next
<1>5. CASE hits # {}
  <2>1. hits \in SUBSET Nat
    OBVIOUS
  <2>2. \E k \in hits : \A m \in hits : k <= m
    BY <1>5, <2>1, FirstOf
  <2>3. k1 \in hits /\ \A m \in hits : k1 <= m
    BY <2>2
  <2> HIDE DEF k1
  <2>4. k1 \in 1..size /\ k1 \in 1..(Len(w) + 1) /\ w[k1] \in P
    BY <1>1, <2>3
  <2>5. \A j \in 1..(k1 - 1) : w[j] \notin P
    <3>1. SUFFICES ASSUME NEW j \in 1..(k1 - 1), w[j] \in P PROVE FALSE
      BY Zenon
    <3>2. j \in 1..size /\ ~(k1 <= j)
      BY <1>1, <2>4
    <3> QED
      BY <1>1, <2>3, <3>1, <3>2
  <2> HIDE DEF P, w, hits
  <2>6. Scan(links.next, P) = At(w, k1)
    BY <1>1, <2>4, <2>5, ScanNext
  <2>7. At(w, k1) = w[k1]
    BY <1>1, <2>4 DEF At
  <2>8. cursor' = w[k1]
    BY <1>1, <1>2, <2>4, <2>6, <2>7
  <2>9. RingInv' /\ Walk' = Walk
    BY <1>1, <1>2, <2>4, <2>8, CursorStep
  <2>10. Abstract!Move(Abstract!Found(i))
    BY <1>2, <1>3, <1>5, <2>8, <2>9 DEF Abstract!Move, w
  <2> QED
    BY <2>9, <2>10 DEF Abstract!Next
<1> QED
  BY <1>4, <1>5

\* zlistx_detach, with a handle or at the cursor, takes one node out, or does
\* nothing when there is none.
LEMMA DetachIs ==
    ASSUME RingInv, [Next]_vars, NEW handle, zlistx_detach(handle)
    PROVE  RingInv' /\ (Abstract!Next \/ UNCHANGED Abstract!vars)
<1> DEFINE w == Walk
           lst == [seq |-> w, cur |-> cursor]
           node == IF handle = HeadNode THEN links.next[HeadNode] ELSE handle
<1>1. /\ w \in Seq(NodeIds) /\ size \in Nat /\ Len(w) = size /\ Follows(links, w) /\ Distinct(w)
      /\ \A k \in 1..size : w[k] \in used /\ w[k] # HeadNode
      /\ \A n \in used : \E k \in 1..size : w[k] = n
      /\ cursor \in used \cup {HeadNode}
  BY Positions DEF RingInv
<1>2. CASE node = HeadNode
  <2>1. UNCHANGED vars
    BY <1>2 DEF zlistx_detach
  <2>2. RingInv' /\ Walk' = Walk
    BY <1>1, <2>1, CursorStep DEF vars
  <2> QED
    BY <2>1, <2>2 DEF vars, Abstract!vars
<1>3. CASE node # HeadNode
  <2>1. /\ handle \in used \cup {HeadNode} /\ cursor' = CursorWithout(node)
        /\ links' = Unlinked(links, node) /\ used' = used \ {node} /\ size' = size - 1
        /\ item' = item
    BY <1>3 DEF zlistx_detach
  <2>2. node \in used
    <3>1. CASE handle # HeadNode
      BY <2>1, <3>1
    <3>2. CASE handle = HeadNode
      <4>1. 0 \in 0..Len(w) /\ At(w, 0) = HeadNode /\ 0 + 1 = 1
        BY <1>1 DEF At
      <4>2. links.next[At(w, 0)] = At(w, 0 + 1)
        BY <1>1, <4>1 DEF Follows, Chain
      <4>3. node = At(w, 1)
        BY <3>2, <4>1, <4>2
      <4>4. 1 \in 1..size /\ node = w[1]
        BY <1>1, <1>3, <4>3 DEF At
      <4> QED
        BY <1>1, <4>4
    <3> QED
      BY <3>1, <3>2
  <2>3. PICK k \in 1..size : w[k] = node
    BY <1>1, <2>2
  <2>4. links.prev[node] = At(w, k - 1)
    <3>1. k \in 1..(Len(w) + 1) /\ k \in 1..Len(w)
      BY <1>1
    <3>2. At(w, k) = node
      BY <2>3, <3>1 DEF At
    <3>3. links.prev[At(w, k)] = At(w, k - 1)
      BY <1>1, <3>1, ChainBack
    <3> QED
      BY <3>2, <3>3
  <2>5. At(w, k - 1) \in (used \ {node}) \cup {HeadNode}
    <3>1. CASE k = 1
      BY <1>1, <3>1 DEF At
    <3>2. CASE k # 1
      <4>1. k - 1 \in 1..size /\ k - 1 # k
        BY <1>1, <3>2
      <4>2. At(w, k - 1) = w[k - 1] /\ w[k - 1] # w[k]
        BY <1>1, <4>1 DEF At, Distinct
      <4> QED
        BY <1>1, <2>3, <4>1, <4>2
    <3> QED
      BY <3>1, <3>2
  <2> HIDE DEF node
  <2>6. cursor' = (IF cursor = node THEN At(w, k - 1) ELSE cursor)
    BY <2>1, <2>4 DEF CursorWithout
  <2>7. cursor' \in used' \cup {HeadNode}
    BY <1>1, <2>1, <2>5, <2>6
  <2>8. RingInv' /\ Walk' = Abstract!Removed(Walk, k)
    BY <2>1, <2>3, <2>7, DetachStep
  <2>9. /\ Abstract!Nodes(lst) = used
        /\ Abstract!Position(lst, node) = k /\ Abstract!Pred(lst, node) = At(w, k - 1)
    BY <2>3, ListIs
  <2>10. Abstract!detach(lst, node) = [seq |-> Walk', cur |-> cursor']
    BY <2>6, <2>8, <2>9 DEF Abstract!detach
  <2>11. Abstract!Move(Abstract!detach(lst, node))
    BY <2>1, <2>10 DEF Abstract!Move
  <2> QED
    BY <2>2, <2>8, <2>9, <2>11 DEF Abstract!Next
<1> QED
  BY <1>2, <1>3

\* zlistx_purge leaves the head, linked to itself.
LEMMA PurgeIs ==
    ASSUME RingInv, [Next]_vars, zlistx_purge
    PROVE  RingInv' /\ Abstract!Next
<1>1. /\ links' = [next |-> [n \in Addresses |-> n], prev |-> [n \in Addresses |-> n]]
      /\ cursor' = HeadNode /\ size' = 0 /\ used' = {} /\ item' = item
  BY DEF zlistx_purge
<1> DEFINE w == <<>>
<1>2. w \in Seq(NodeIds) /\ Len(w) = 0 /\ Elems(w) = {} /\ Distinct(w)
  BY DEF Elems, Distinct
<1>3. links' \in Pointers /\ MutualInverse(links')
  BY <1>1 DEF Pointers, MutualInverse
<1>4. Chain(links', w)
  <2>1. \A k \in 0..1 : At(w, k) = HeadNode
    BY <1>2 DEF At
  <2>2. HeadNode \in Addresses
    BY DEF Addresses
  <2> QED
    BY <1>1, <1>2, <2>1, <2>2 DEF Chain
<1> HIDE DEF w
<1>5. Follows(links', w)
  BY <1>2, <1>3, <1>4 DEF Follows
<1>6. Cardinality(used') = size' /\ item' \in [NodeIds -> Nat]
  BY <1>1, FS_EmptySet DEF RingInv
<1>7. RingInv' /\ Walk' = w
  BY <1>1, <1>2, <1>5, <1>6, Becomes
<1>8. Abstract!Move(Abstract!EmptyList)
  BY <1>1, <1>7 DEF Abstract!Move, Abstract!EmptyList, Abstract!NoNode, HeadNode, w
<1> QED
  BY <1>7, <1>8 DEF Abstract!Next

\* A node moves to the j-th place after being taken out.
LEMMA MovesTo ==
    ASSUME RingInv, [Next]_vars, NEW node \in used, UNCHANGED <<cursor, size, item, used>>,
           NEW k \in 1..size, Walk[k] = node, NEW j \in 0..(size - 1),
           links' = LinkedAfter(Unlinked(links, node), node, At(Abstract!Removed(Walk, k), j))
    PROVE  /\ RingInv' /\ Walk' = Abstract!Inserted(Abstract!Removed(Walk, k), j + 1, node)
           /\ Abstract!Removed(Walk, k) \in Seq(NodeIds)
           /\ Len(Abstract!Removed(Walk, k)) = size - 1
           /\ Abstract!Position([seq |-> Walk, cur |-> cursor], node) = k
<1>1. RingInv' /\ Walk' = Abstract!Inserted(Abstract!Removed(Walk, k), j + 1, Walk[k])
  BY MoveStep
<1>2. Walk \in Seq(NodeIds) /\ Len(Walk) = size
  BY Positions
<1>3. Abstract!Removed(Walk, k) \in Seq(NodeIds) /\ Len(Abstract!Removed(Walk, k)) = size - 1
  BY <1>2, RemovedFacts
<1>4. Abstract!Position([seq |-> Walk, cur |-> cursor], node) = k
  BY ListIs
<1> QED
  BY <1>1, <1>3, <1>4

\* A node moved to the start is taken out and put before the first; the first stays.
LEMMA MoveStartIs ==
    ASSUME RingInv, [Next]_vars, NEW node \in NodeIds, zlistx_move_start(node)
    PROVE  RingInv' /\ (Abstract!Next \/ UNCHANGED Abstract!vars)
<1> DEFINE w == Walk
           lst == [seq |-> w, cur |-> cursor]
           n == links.next[HeadNode]
<1>1. /\ w \in Seq(NodeIds) /\ size \in Nat /\ Len(w) = size /\ Follows(links, w) /\ Distinct(w)
      /\ \A x \in used : \E k \in 1..size : w[k] = x
      /\ cursor \in used \cup {HeadNode}
  BY Positions DEF RingInv
<1>2. /\ node \in used /\ UNCHANGED <<cursor, size, item, used>>
      /\ links' = IF node = n THEN links ELSE LinkedBefore(Unlinked(links, node), node, n)
  BY DEF zlistx_move_start, Relink
<1>3. PICK k \in 1..size : w[k] = node
  BY <1>1, <1>2
<1>4. n = w[1] /\ 1 \in 1..size
  <2>1. 0 \in 0..Len(w) /\ At(w, 0) = HeadNode /\ 0 + 1 = 1 /\ 1 \in 1..size /\ At(w, 1) = w[1]
    BY <1>1, <1>3 DEF At
  <2>2. links.next[At(w, 0)] = At(w, 0 + 1)
    BY <1>1, <2>1 DEF Follows, Chain
  <2> QED
    BY <2>1, <2>2
<1>5. CASE node = n
  <2>1. RingInv' /\ Walk' = Walk
    BY <1>1, <1>2, <1>5, CursorStep
  <2> QED
    BY <1>2, <2>1 DEF Abstract!vars
<1>6. CASE node # n
  <2> DEFINE v == Abstract!Removed(w, k)
             l == Unlinked(links, node)
  <2>1. k # 1 /\ 1 < k /\ 1 \in 1..(Len(w) - 1) /\ k \in 1..Len(w) /\ 0 \in 0..(size - 1)
    BY <1>1, <1>3, <1>4, <1>6
  <2>2. Len(v) = Len(w) - 1 /\ v[1] = w[1] /\ v \in Seq(NodeIds)
    BY <1>1, <2>1, RemovedFacts
  <2>3. Follows(l, v)
    BY <1>1, <1>3, <2>1, FollowsRemove
  <2>a. l = Unlinked(links, node)
    OBVIOUS
  <2> HIDE DEF v, l
  <2>4. At(v, 1) = n /\ 1 \in 1..(Len(v) + 1) /\ 1 - 1 = 0
    BY <1>1, <1>4, <2>1, <2>2 DEF At
  <2>5. LinkedBefore(l, node, At(v, 1)) = LinkedAfter(l, node, At(v, 1 - 1))
    BY <2>3, <2>4, LinkBefore
  <2>6. links' = LinkedAfter(l, node, At(v, 0))
    BY <1>2, <1>6, <2>4, <2>5, <2>a
  <2>7. RingInv' /\ Walk' = Abstract!Inserted(v, 0 + 1, node) /\ Abstract!Position(lst, node) = k
    BY <1>2, <1>3, <2>1, <2>6, <2>a, MovesTo DEF v
  <2>b. Abstract!Inserted(v, 0 + 1, node) = Abstract!Inserted(v, 1, node)
    OBVIOUS
  <2>8. Walk' = <<node>> \o v
    BY <2>2, <2>7, <2>b, InsertEnds
  <2> DEFINE u == <<node>> \o v
  <2>c. Abstract!move_start(lst, node) = [lst EXCEPT !.seq = u]
    BY <2>7 DEF Abstract!move_start, v
  <2> HIDE DEF u
  <2>9. Abstract!move_start(lst, node) = [seq |-> Walk', cur |-> cursor']
    BY <1>2, <2>8, <2>c DEF u
  <2>10. Abstract!Move(Abstract!move_start(lst, node)) /\ node \in Abstract!Nodes(lst)
    BY <1>2, <2>9, ListIs DEF Abstract!Move
  <2> QED
    BY <2>7, <2>10 DEF Abstract!Next
<1> QED
  BY <1>5, <1>6

\* A node moved to the end is taken out and put after the last; the last stays.
LEMMA MoveEndIs ==
    ASSUME RingInv, [Next]_vars, NEW node \in NodeIds, zlistx_move_end(node)
    PROVE  RingInv' /\ (Abstract!Next \/ UNCHANGED Abstract!vars)
<1> DEFINE w == Walk
           lst == [seq |-> w, cur |-> cursor]
           p == links.prev[HeadNode]
<1>1. /\ w \in Seq(NodeIds) /\ size \in Nat /\ Len(w) = size /\ Follows(links, w) /\ Distinct(w)
      /\ \A x \in used : \E k \in 1..size : w[k] = x
      /\ cursor \in used \cup {HeadNode}
  BY Positions DEF RingInv
<1>2. /\ node \in used /\ UNCHANGED <<cursor, size, item, used>>
      /\ links' = IF node = p THEN links ELSE LinkedAfter(Unlinked(links, node), node, p)
  BY DEF zlistx_move_end, Relink
<1>3. PICK k \in 1..size : w[k] = node
  BY <1>1, <1>2
<1>4. p = w[size] /\ size \in 1..size
  <2>1. size + 1 \in 1..(Len(w) + 1) /\ At(w, size + 1) = HeadNode /\ (size + 1) - 1 = size
        /\ size \in 1..size /\ At(w, size) = w[size]
    BY <1>1, <1>3 DEF At
  <2>2. links.prev[At(w, size + 1)] = At(w, (size + 1) - 1)
    BY <1>1, <2>1, ChainBack
  <2> QED
    BY <2>1, <2>2
<1>5. CASE node = p
  <2>1. RingInv' /\ Walk' = Walk
    BY <1>1, <1>2, <1>5, CursorStep
  <2> QED
    BY <1>2, <2>1 DEF Abstract!vars
<1>6. CASE node # p
  <2> DEFINE v == Abstract!Removed(w, k)
             j == size - 1
  <2>1. k # size /\ j \in 1..(Len(w) - 1) /\ ~(j < k) /\ j + 1 = size /\ k \in 1..Len(w) /\ j \in 0..(size - 1)
    BY <1>1, <1>3, <1>4, <1>6
  <2>2. Len(v) = j /\ v \in Seq(NodeIds)
        /\ \A x \in 1..(Len(w) - 1) : v[x] = IF x < k THEN w[x] ELSE w[x + 1]
    BY <1>1, <2>1, RemovedFacts
  <2> HIDE DEF v, j
  <2>3. v[j] = w[size]
    BY <2>1, <2>2
  <2>4. At(v, j) = p
    BY <1>1, <1>4, <2>1, <2>2, <2>3 DEF At
  <2>6. links' = LinkedAfter(Unlinked(links, node), node, At(v, j))
    BY <1>2, <1>6, <2>4
  <2>7. RingInv' /\ Walk' = Abstract!Inserted(v, j + 1, node) /\ Abstract!Position(lst, node) = k
    BY <1>2, <1>3, <2>1, <2>6, MovesTo DEF v
  <2>8. Walk' = Append(v, node)
    BY <2>2, <2>7, InsertEnds
  <2>9. Abstract!move_end(lst, node) = [seq |-> Walk', cur |-> cursor']
    BY <1>2, <2>7, <2>8 DEF Abstract!move_end, v
  <2>10. Abstract!Move(Abstract!move_end(lst, node)) /\ node \in Abstract!Nodes(lst)
    BY <1>2, <2>9, ListIs DEF Abstract!Move
  <2> QED
    BY <2>7, <2>10 DEF Abstract!Next
<1> QED
  BY <1>5, <1>6

\* A node is reordered among the others.
LEMMA ReorderIs ==
    ASSUME RingInv, [Next]_vars, NEW node \in NodeIds, NEW low \in BOOLEAN,
           zlistx_reorder(node, low)
    PROVE  RingInv' /\ Abstract!Next
<1> DEFINE w == Walk
           lst == [seq |-> w, cur |-> cursor]
           l == Unlinked(links, node)
           i == item[node]
           at == Place(l, i, low)
<1>1. /\ w \in Seq(NodeIds) /\ size \in Nat /\ Len(w) = size /\ Follows(links, w) /\ Distinct(w)
      /\ \A x \in used : \E k \in 1..size : w[k] = x
      /\ size <= Cardinality(NodeIds) /\ item \in [NodeIds -> Nat] /\ i \in Nat
  BY Positions DEF RingInv
<1>2. /\ node \in used /\ UNCHANGED <<cursor, size, item, used>>
      /\ links' = IF low THEN LinkedBefore(l, node, at) ELSE LinkedAfter(l, node, at)
  BY DEF zlistx_reorder, Reordered
<1>3. PICK k \in 1..size : w[k] = node
  BY <1>1, <1>2
<1> DEFINE v == Abstract!Removed(w, k)
           j == Abstract!Place(v, i, low)
<1>4. Cardinality(NodeIds) \in Nat
  BY NodesAssumption, FS_CardinalityType
<1>5. Len(v) = size - 1 /\ v \in Seq(NodeIds) /\ Len(v) <= Cardinality(NodeIds)
  <2>1. Len(v) = size - 1 /\ v \in Seq(NodeIds)
    BY <1>1, RemovedFacts
  <2> HIDE DEF v
  <2> QED
    BY <1>1, <1>4, <2>1
<1>6. Follows(l, v)
  BY <1>1, <1>3, FollowsRemove
<1>a. l = Unlinked(links, node)
  OBVIOUS
<1> HIDE DEF v, l, i
<1>7. j \in 0..Len(v) /\ Place(l, i, low) = At(v, IF low THEN j + 1 ELSE j)
  BY <1>1, <1>5, <1>6, PlaceIs
<1> HIDE DEF j
<1>8. links' = LinkedAfter(l, node, At(v, j))
  <2>1. CASE low
    <3>1. j + 1 \in 1..(Len(v) + 1) /\ (j + 1) - 1 = j
      BY <1>1, <1>5, <1>7
    <3>2. LinkedBefore(l, node, At(v, j + 1)) = LinkedAfter(l, node, At(v, (j + 1) - 1))
      BY <1>6, <3>1, LinkBefore
    <3> QED
      BY <1>2, <1>7, <2>1, <3>1, <3>2
  <2>2. CASE ~low
    BY <1>2, <1>7, <2>2
  <2> QED
    BY <2>1, <2>2
<1>9. j \in 0..(size - 1)
  BY <1>5, <1>7
<1>10. RingInv' /\ Walk' = Abstract!Inserted(v, j + 1, node) /\ Abstract!Position(lst, node) = k
  BY <1>2, <1>3, <1>8, <1>9, <1>a, MovesTo DEF v
<1>11. Abstract!Reordered(node, low) = [seq |-> Walk', cur |-> cursor']
  BY <1>2, <1>10 DEF Abstract!Reordered, Abstract!Placed, v, j, i
<1>12. Abstract!Move(Abstract!Reordered(node, low)) /\ node \in Abstract!Nodes(lst)
  BY <1>2, <1>11, ListIs DEF Abstract!Move
<1> QED
  BY <1>10, <1>12 DEF Abstract!Next

\* Every operation keeps the ring whole and is an operation of the list.
LEMMA RingStep ==
    ASSUME RingInv, [Next]_vars
    PROVE  RingInv' /\ (Abstract!Next \/ UNCHANGED Abstract!vars)
<1>1. CASE \E node \in NodeIds, i \in Items :
              \/ zlistx_add_start(node, i) \/ zlistx_add_end(node, i)
              \/ \E low \in BOOLEAN : zlistx_insert(node, i, low)
  BY <1>1, AddStartIs, AddEndIs, InsertIs
<1>2. CASE zlistx_first \/ zlistx_next \/ zlistx_prev \/ zlistx_last
  BY <1>2, CursorMoves
<1>3. CASE \E i \in Items : zlistx_find(i)
  BY <1>3, FindIs
<1>4. CASE (\E handle \in Addresses : zlistx_detach(handle)) \/ zlistx_detach_cur
  BY <1>4, DetachIs DEF zlistx_detach_cur
<1>5. CASE zlistx_purge
  BY <1>5, PurgeIs
<1>6. CASE \E node \in NodeIds : \/ zlistx_move_start(node) \/ zlistx_move_end(node)
                                 \/ \E low \in BOOLEAN : zlistx_reorder(node, low)
  BY <1>6, MoveStartIs, MoveEndIs, ReorderIs
<1>7. CASE UNCHANGED vars
  <2>1. cursor' \in used \cup {HeadNode} /\ UNCHANGED <<links, size, item, used>> /\ cursor' = cursor
    BY <1>7 DEF vars, RingInv
  <2>2. RingInv' /\ Walk' = Walk
    BY <2>1, CursorStep
  <2> QED
    BY <2>1, <2>2 DEF Abstract!vars
<1> QED
  BY <1>1, <1>2, <1>3, <1>4, <1>5, <1>6, <1>7, Zenon DEF Next

\* A new list is a head linked to itself, and stands for the empty list.
LEMMA RingInit == Init => RingInv /\ Abstract!Init
<1> SUFFICES ASSUME Init PROVE RingInv /\ Abstract!Init
  OBVIOUS
<1>1. /\ links = [next |-> [n \in Addresses |-> n], prev |-> [n \in Addresses |-> n]]
      /\ cursor = HeadNode /\ size = 0 /\ used = {} /\ item = [n \in NodeIds |-> 0]
  BY DEF Init
<1> DEFINE w == <<>>
<1>2. w \in Seq(NodeIds) /\ Len(w) = 0 /\ Elems(w) = {} /\ Distinct(w)
  BY DEF Elems, Distinct
<1>3. links \in Pointers /\ MutualInverse(links)
  BY <1>1 DEF Pointers, MutualInverse
<1>4. Chain(links, w)
  <2>1. \A k \in 0..1 : At(w, k) = HeadNode
    BY <1>2 DEF At
  <2>2. HeadNode \in Addresses
    BY DEF Addresses
  <2> QED
    BY <1>1, <1>2, <2>1, <2>2 DEF Chain
<1> HIDE DEF w
<1>5. Follows(links, w)
  BY <1>2, <1>3, <1>4 DEF Follows
<1>6. Walk = WalkOf(links, size)
  BY DEF Walk, WalkOf
<1>7. Walk = w
  BY <1>1, <1>2, <1>5, <1>6, WalkIs
<1>8. Cardinality(used) = size /\ item \in [NodeIds -> Nat] /\ cursor \in used \cup {HeadNode}
  BY <1>1, FS_EmptySet
<1>9. RingInv
  BY <1>1, <1>2, <1>5, <1>7, <1>8, LinksInit DEF RingInv
<1>10. Abstract!Init
  BY <1>1, <1>7 DEF Abstract!Init, Abstract!EmptyList, Abstract!NoNode, HeadNode, w
<1> QED
  BY <1>9, <1>10

\* The ring through the head has exactly the allocated nodes, for every number of
\* nodes and every order of operations: nothing that zlistx.c does loses a node,
\* closes the ring early or leaves the cursor on a freed node.
THEOREM RingStaysWhole == Spec => []RingWhole
<1>1. RingInv => RingWhole
  <2>1. SUFFICES ASSUME RingInv PROVE RingWhole
    OBVIOUS
  <2>2. size \in Nat /\ Len(Walk) = size /\ Elems(Walk) = used /\ Cardinality(used) = size
        /\ Follows(links, Walk) /\ cursor \in used \cup {HeadNode}
    BY <2>1, Positions DEF RingInv
  <2>3. {Walk[k] : k \in 1..size} = used
    BY <2>2 DEF Elems
  <2>4. size > 0 => links.next[Walk[size]] = HeadNode
    <3>1. SUFFICES ASSUME size > 0 PROVE links.next[Walk[size]] = HeadNode
      OBVIOUS
    <3>2. size \in 0..Len(Walk) /\ At(Walk, size) = Walk[size] /\ At(Walk, size + 1) = HeadNode
      BY <2>2, <3>1 DEF At
    <3>3. links.next[At(Walk, size)] = At(Walk, size + 1)
      BY <2>2, <3>2 DEF Follows, Chain
    <3> QED
      BY <3>2, <3>3
  <2>5. \A n \in NodeIds \ used : links.next[n] = n
    BY <2>1 DEF RingInv, LinksInv, Ring, Loose
  <2> QED
    BY <2>2, <2>3, <2>4, <2>5, Zenon DEF RingWhole
<1>2. RingInv /\ [Next]_vars => RingInv'
  BY RingStep
<1> QED
  BY <1>1, <1>2, RingInit, PTL DEF Spec

\* zlistx.c implements the list its callers are promised: every operation on the
\* ring of nodes is the operation on the sequence of nodes and its cursor that
\* ZListx says it is, or changes nothing that a caller sees.
THEOREM RingRefinesList == Spec => Refines
<1>1. RingInv /\ [Next]_vars => RingInv' /\ [Abstract!Next]_(Abstract!vars)
  BY RingStep
<1> QED
  BY <1>1, RingInit, PTL DEF Spec, Refines, Abstract!Spec
=============================================================================
