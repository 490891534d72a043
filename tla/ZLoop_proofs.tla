---------------------------- MODULE ZLoop_proofs ----------------------------
(***************************************************************************)
(* Proofs about the timers and tickets of the reactor, for any number of   *)
(* them, any clock and whatever the handlers call in the middle of a walk: *)
(* the ticket list stays sorted while one ticket delay is used, the poll   *)
(* sleeps past nothing, and a timer runs as often as asked.                *)
(***************************************************************************)
EXTENDS ZLoop, FiniteSetTheorems, SequenceTheorems, WellFoundedInduction, TLAPS

-----------------------------------------------------------------------------
(* The list operations.                                                     *)

\* Removed shifts the elements after the k-th one down.
LEMMA RemovedFacts ==
    ASSUME NEW S, NEW s \in Seq(S), NEW k \in 1..Len(s)
    PROVE  /\ Removed(s, k) \in Seq(S)
           /\ Len(Removed(s, k)) = Len(s) - 1
           /\ \A i \in 1..(Len(s) - 1) :
                 Removed(s, k)[i] = IF i < k THEN s[i] ELSE s[i + 1]
<1>. DEFINE e(i) == IF i < k THEN s[i] ELSE s[i + 1]
<1>1. Len(s) \in Nat /\ Len(s) - 1 \in Nat
  OBVIOUS
<1>2. \A i \in 1..(Len(s) - 1) : e(i) \in S
  OBVIOUS
<1>3. [i \in 1..(Len(s) - 1) |-> e(i)] \in Seq(S)
  BY <1>1, <1>2
<1>. QED
  BY <1>1, <1>3 DEF Removed

\* The position of a node of a list is where the node stands.
LEMMA PositionFacts ==
    ASSUME NEW list, NEW node, \E i \in 1..Len(list.seq) : list.seq[i] = node
    PROVE  Position(list, node) \in 1..Len(list.seq) /\ list.seq[Position(list, node)] = node
BY DEF Position

\* A list of nodes numbered up to N: no node twice, the cursor on a node or the head.
ListOK(list, N) ==
    /\ list \in [seq : Seq(1..N), cur : 0..N]
    /\ CursorOK(list)
    /\ \A i, j \in 1..Len(list.seq) : list.seq[i] = list.seq[j] => i = j

\* Membership in terms of positions.
LEMMA NodesFacts ==
    ASSUME NEW N \in Nat, NEW list, list.seq \in Seq(1..N)
    PROVE  /\ Nodes(list) \subseteq 1..N
           /\ \A i \in 1..Len(list.seq) : list.seq[i] \in Nodes(list)
           /\ \A n \in Nodes(list) : \E i \in 1..Len(list.seq) : list.seq[i] = n
BY DEF Nodes

\* add_end of a new node keeps the list well formed.
LEMMA AddEndOK ==
    ASSUME NEW N \in Nat, NEW list, ListOK(list, N)
    PROVE  /\ ListOK(add_end(list, N + 1), N + 1)
           /\ Nodes(list) \subseteq Nodes(add_end(list, N + 1))
<1>. DEFINE l == add_end(list, N + 1)
<1>1. list.seq \in Seq(1..(N + 1)) /\ list.seq \in Seq(1..N)
  BY DEF ListOK
<1>2. /\ l.seq = Append(list.seq, N + 1) /\ l.cur = NoNode
      /\ l \in [seq : Seq(1..(N + 1)), cur : 0..(N + 1)]
  BY <1>1 DEF add_end, NoNode
<1>. HIDE DEF l
<1>3. /\ Len(l.seq) = Len(list.seq) + 1 /\ l.seq[Len(list.seq) + 1] = N + 1
      /\ \A i \in 1..Len(list.seq) : l.seq[i] = list.seq[i] /\ list.seq[i] \in 1..N
  <2>1. N + 1 \in 1..(N + 1)
    OBVIOUS
  <2>2. \A i \in 1..Len(list.seq) : list.seq[i] \in 1..N
    BY <1>1, ElementOfSeq
  <2>3. /\ Len(l.seq) = Len(list.seq) + 1 /\ l.seq[Len(list.seq) + 1] = N + 1
        /\ \A i \in 1..Len(list.seq) : l.seq[i] = list.seq[i]
    BY <1>1, <1>2, <2>1, AppendProperties
  <2>. QED BY <2>2, <2>3
<1>4. \A i, j \in 1..Len(list.seq) : list.seq[i] = list.seq[j] => i = j
  BY DEF ListOK
<1>5. \A i, j \in 1..Len(l.seq) : l.seq[i] = l.seq[j] => i = j
  <2>1. SUFFICES ASSUME NEW i \in 1..Len(l.seq), NEW j \in 1..Len(l.seq), l.seq[i] = l.seq[j]
                 PROVE  i = j
    OBVIOUS
  <2>2. Len(list.seq) \in Nat
    BY <1>1
  <2>3. \A m \in 1..Len(l.seq) : m \in 1..Len(list.seq) \/ m = Len(list.seq) + 1
    BY <1>3, <2>2
  <2>4. N + 1 \notin 1..N
    OBVIOUS
  <2>5. CASE i \in 1..Len(list.seq) /\ j \in 1..Len(list.seq)
    BY <1>3, <1>4, <2>1, <2>5
  <2>6. CASE i \in 1..Len(list.seq) /\ j = Len(list.seq) + 1
    BY <1>3, <2>1, <2>4, <2>6
  <2>7. CASE i = Len(list.seq) + 1 /\ j \in 1..Len(list.seq)
    BY <1>3, <2>1, <2>4, <2>7
  <2>8. CASE i = Len(list.seq) + 1 /\ j = Len(list.seq) + 1
    BY <2>8
  <2>. QED BY <2>3, <2>5, <2>6, <2>7, <2>8
<1>6. Nodes(list) \subseteq Nodes(l)
  <2>1. ASSUME NEW n \in Nodes(list) PROVE n \in Nodes(l)
    <3>1. PICK i \in 1..Len(list.seq) : list.seq[i] = n
      BY <1>1, NodesFacts
    <3>2. i \in 1..Len(l.seq) /\ l.seq[i] = n
      BY <1>1, <1>3, <3>1
    <3>. QED BY <3>2, <1>2, NodesFacts, N + 1 \in Nat
  <2>. QED BY <2>1
<1>. QED
  BY <1>2, <1>5, <1>6 DEF l, ListOK, CursorOK

\* first and last put the cursor on a node, or on the head of an empty list.
LEMMA FirstLastOK ==
    ASSUME NEW N \in Nat, NEW list,
           list \in [seq : Seq(1..N), cur : 0..N],
           \A i, j \in 1..Len(list.seq) : list.seq[i] = list.seq[j] => i = j
    PROVE  /\ ListOK(first(list), N) /\ first(list).seq = list.seq
           /\ ListOK(last(list), N) /\ last(list).seq = list.seq
<1>1. ListOK(first(list), N) /\ first(list).seq = list.seq
  BY DEF first, ListOK, CursorOK, Nodes, NoNode
<1>2. ListOK(last(list), N) /\ last(list).seq = list.seq
  BY DEF last, ListOK, CursorOK, Nodes, NoNode
<1>. QED
  BY <1>1, <1>2

\* next moves the cursor and nothing else.
LEMMA NextOK ==
    ASSUME NEW N \in Nat, NEW list, ListOK(list, N)
    PROVE  ListOK(next(list), N) /\ next(list).seq = list.seq
<1>. DEFINE k == IF list.cur = NoNode THEN 0 ELSE Position(list, list.cur)
<1>1. k \in 0..Len(list.seq)
  BY NodesFacts, PositionFacts DEF ListOK, CursorOK
<1>2. next(list) = [list EXCEPT !.cur = IF k = Len(list.seq) THEN NoNode ELSE list.seq[k + 1]]
  BY DEF next
<1>. HIDE DEF k
<1>. DEFINE c == IF k = Len(list.seq) THEN NoNode ELSE list.seq[k + 1]
<1>3. list \in [seq : Seq(1..N), cur : 0..N]
  BY DEF ListOK
<1>4. c = NoNode \/ (c \in 1..N /\ \E i \in 1..Len(list.seq) : list.seq[i] = c)
  <2>1. CASE k # Len(list.seq)
    <3>1. k + 1 \in 1..Len(list.seq)
      BY <1>1, <1>3, <2>1
    <3>. QED BY <3>1, <2>1, <1>3
  <2>. QED BY <2>1
<1>5. next(list) = [list EXCEPT !.cur = c]
  BY <1>2
<1>. HIDE DEF c
<1>6. /\ next(list) \in [seq : Seq(1..N), cur : 0..N]
      /\ next(list).seq = list.seq /\ next(list).cur = c
  BY <1>3, <1>4, <1>5 DEF NoNode
<1>7. CursorOK(next(list))
  BY <1>3, <1>4, <1>6, NodesFacts DEF CursorOK
<1>. QED
  BY <1>6, <1>7 DEF ListOK

\* detach takes the node out and leaves the others in order, and the cursor on
\* one of them.
LEMMA DetachOK ==
    ASSUME NEW N \in Nat, NEW list, ListOK(list, N), NEW node \in Nodes(list)
    PROVE  /\ ListOK(detach(list, node), N)
           /\ Len(detach(list, node).seq) = Len(list.seq) - 1
           /\ \A i \in 1..(Len(list.seq) - 1) : detach(list, node).seq[i] =
                 IF i < Position(list, node) THEN list.seq[i] ELSE list.seq[i + 1]
<1>. DEFINE k == Position(list, node)
            l == detach(list, node)
<1>1. k \in 1..Len(list.seq) /\ list.seq[k] = node
  BY NodesFacts, PositionFacts DEF ListOK
<1>2. list.seq \in Seq(1..N)
  BY DEF ListOK
<1>3. l.seq = Removed(list.seq, k) /\ l.cur = IF list.cur = node THEN Pred(list, node) ELSE list.cur
  BY DEF detach
<1>4. /\ l.seq \in Seq(1..N) /\ Len(l.seq) = Len(list.seq) - 1
      /\ \A i \in 1..(Len(list.seq) - 1) : l.seq[i] = IF i < k THEN list.seq[i] ELSE list.seq[i + 1]
  BY <1>1, <1>2, <1>3, RemovedFacts
<1>5. Pred(list, node) = IF k = 1 THEN NoNode ELSE list.seq[k - 1]
  BY DEF Pred
<1>6. l = [seq |-> l.seq, cur |-> l.cur]
  BY DEF detach
<1>. HIDE DEF k, l
<1>7. l.cur = NoNode \/ \E i \in 1..Len(l.seq) : l.seq[i] = l.cur
  <2>1. CASE list.cur = node /\ k = 1
    BY <2>1, <1>3, <1>5
  <2>2. CASE list.cur = node /\ k # 1
    <3>1. k - 1 \in 1..Len(l.seq) /\ l.seq[k - 1] = list.seq[k - 1] /\ l.cur = list.seq[k - 1]
      BY <2>2, <1>1, <1>2, <1>3, <1>4, <1>5
    <3>. QED BY <3>1
  <2>3. CASE list.cur # node /\ list.cur # NoNode
    <3>1. PICK i \in 1..Len(list.seq) : list.seq[i] = list.cur
      BY <2>3, <1>2, NodesFacts DEF ListOK, CursorOK
    <3>2. i # k /\ l.cur = list.seq[i]
      BY <2>3, <3>1, <1>1, <1>3
    <3>3. CASE i < k
      <4>1. i \in 1..Len(l.seq) /\ l.seq[i] = list.seq[i]
        BY <3>3, <1>1, <1>2, <1>4
      <4>. QED BY <4>1, <3>2
    <3>4. CASE i > k
      <4>1. i - 1 \in 1..(Len(list.seq) - 1) /\ ~(i - 1 < k) /\ (i - 1) + 1 = i
        BY <3>4, <1>1, <1>2
      <4>2. i - 1 \in 1..Len(l.seq) /\ l.seq[i - 1] = list.seq[i]
        BY <4>1, <1>4
      <4>. QED BY <4>2, <3>2
    <3>5. i < k \/ i > k
      <4>1. i \in Int /\ k \in Int
        BY <1>1
      <4>. QED BY <3>2, <4>1
    <3>. QED BY <3>3, <3>4, <3>5
  <2>4. CASE list.cur # node /\ list.cur = NoNode
    BY <2>4, <1>3
  <2>. QED BY <2>1, <2>2, <2>3, <2>4
<1>8. \A i, j \in 1..Len(l.seq) : l.seq[i] = l.seq[j] => i = j
  <2>1. \A i, j \in 1..Len(list.seq) : list.seq[i] = list.seq[j] => i = j
    BY DEF ListOK
  <2>. DEFINE up(i) == IF i < k THEN i ELSE i + 1
  <2>2. \A i \in 1..Len(l.seq) : up(i) \in 1..Len(list.seq) /\ l.seq[i] = list.seq[up(i)]
    BY <1>1, <1>2, <1>4
  <2>3. \A i, j \in 1..Len(l.seq) : up(i) = up(j) => i = j
    BY <1>1
  <2>. HIDE DEF up
  <2>. QED BY <2>1, <2>2, <2>3
<1>9. ListOK(l, N)
  BY <1>4, <1>6, <1>7, <1>8 DEF ListOK, CursorOK, Nodes, NoNode
<1>. QED
  BY <1>4, <1>9 DEF k, l

\* move_end takes the node out and puts it last; the nodes are the same.
LEMMA MoveEndOK ==
    ASSUME NEW N \in Nat, NEW list, ListOK(list, N), NEW node \in Nodes(list)
    PROVE  LET l == move_end(list, node)
               n == Len(list.seq)
           IN  /\ ListOK(l, N)
               /\ Nodes(list) \subseteq Nodes(l)
               /\ n \in Nat /\ Len(l.seq) = n /\ l.seq[n] = node
               /\ \A i \in 1..(n - 1) : l.seq[i] =
                     IF i < Position(list, node) THEN list.seq[i] ELSE list.seq[i + 1]
<1>. DEFINE k == Position(list, node)
            l == move_end(list, node)
            n == Len(list.seq)
            r == Removed(list.seq, k)
<1>1. k \in 1..n /\ list.seq[k] = node
  BY NodesFacts, PositionFacts DEF ListOK
<1>2. list.seq \in Seq(1..N) /\ n \in Nat /\ node \in 1..N /\ list \in [seq : Seq(1..N), cur : 0..N]
  BY NodesFacts DEF ListOK
<1>3. /\ r \in Seq(1..N) /\ Len(r) = n - 1
      /\ \A i \in 1..(n - 1) : r[i] = IF i < k THEN list.seq[i] ELSE list.seq[i + 1]
  BY <1>1, <1>2, RemovedFacts
<1>4. l = [list EXCEPT !.seq = Append(r, node)]
  BY DEF move_end
<1>. HIDE DEF k, l, n, r
<1>5. /\ Append(r, node) \in Seq(1..N) /\ Len(Append(r, node)) = n
      /\ Append(r, node)[n] = node /\ \A i \in 1..(n - 1) : Append(r, node)[i] = r[i]
  BY <1>2, <1>3, AppendProperties
<1>6. /\ l \in [seq : Seq(1..N), cur : 0..N] /\ l.cur = list.cur
      /\ Len(l.seq) = n /\ l.seq[n] = node
      /\ \A i \in 1..(n - 1) : l.seq[i] = IF i < k THEN list.seq[i] ELSE list.seq[i + 1]
  BY <1>2, <1>3, <1>4, <1>5
<1>. DEFINE up(i) == IF i = n THEN k ELSE IF i < k THEN i ELSE i + 1
<1>7. \A i \in 1..n : up(i) \in 1..n /\ l.seq[i] = list.seq[up(i)]
  BY <1>1, <1>2, <1>6
<1>8. \A i, j \in 1..n : up(i) = up(j) => i = j
  BY <1>1, <1>2
<1>9. \A j \in 1..n : \E i \in 1..n : up(i) = j
  <2>1. SUFFICES ASSUME NEW j \in 1..n PROVE \E i \in 1..n : up(i) = j
    OBVIOUS
  <2>2. CASE j = k
    <3>1. n \in 1..n /\ up(n) = k
      BY <1>1, <1>2
    <3>. QED BY <2>2, <3>1
  <2>3. CASE j < k
    <3>1. j # n /\ up(j) = j
      BY <1>1, <1>2, <2>3
    <3>. QED BY <3>1
  <2>4. CASE j > k
    <3>1. j - 1 \in 1..n /\ up(j - 1) = j
      BY <1>1, <1>2, <2>4
    <3>. QED BY <3>1
  <2>. QED BY <2>2, <2>3, <2>4, <1>1, <1>2
<1>. HIDE DEF up
<1>10. n = Len(list.seq)
  BY DEF n
<1>11. \A i, j \in 1..Len(l.seq) : l.seq[i] = l.seq[j] => i = j
  <2>1. \A i, j \in 1..n : list.seq[i] = list.seq[j] => i = j
    BY <1>10 DEF ListOK
  <2>2. SUFFICES ASSUME NEW i \in 1..n, NEW j \in 1..n, l.seq[i] = l.seq[j] PROVE i = j
    BY <1>6
  <2>3. up(i) \in 1..n /\ up(j) \in 1..n /\ list.seq[up(i)] = list.seq[up(j)]
    BY <1>7, <2>2
  <2>4. up(i) = up(j)
    BY <2>1, <2>3
  <2>. QED BY <1>8, <2>4
<1>12. Nodes(list) \subseteq Nodes(l)
  <2>1. ASSUME NEW m \in Nodes(list) PROVE m \in Nodes(l)
    <3>1. PICK j \in 1..n : list.seq[j] = m
      BY <1>2, <1>10, NodesFacts
    <3>2. PICK i \in 1..n : up(i) = j
      BY <1>9
    <3>3. l.seq[i] = m
      BY <1>7, <3>1, <3>2
    <3>. QED BY <1>6, <3>3, NodesFacts
  <2>. QED BY <2>1
<1>13. CursorOK(l)
  BY <1>6, <1>12 DEF ListOK, CursorOK
<1>14. ListOK(l, N)
  BY <1>6, <1>11, <1>13 DEF ListOK
<1>. QED
  BY <1>2, <1>6, <1>12, <1>14 DEF k, l, n

-----------------------------------------------------------------------------
(* The ticket invariant.                                                    *)

TicketRecord == [delay : Nat, when : Nat, deleted : BOOLEAN]

TicketType ==
    /\ now \in Nat /\ last_ticket \in Nat
    /\ ticket \in Seq(TicketRecord) /\ Len(ticket) = last_ticket
    /\ ListOK(tickets, last_ticket)
    /\ ticket_delay \in TicketDelays \cup {0}

\* No ticket is due later than one delay from now, so that a ticket created or
\* reset now belongs at the end of the list.
TicketBound ==
    \A t \in 1..last_ticket :
        ticket[t].delay \in TicketDelays /\ ticket[t].when <= now + ticket[t].delay

\* The ticket that zloop_start stands on is on the list.
TicketCurrent ==
    /\ phase \in {"tickets", "ticket_handler"} => current \in Nodes(tickets) \cup {NoNode}
    /\ phase = "ticket_handler" => current # NoNode

TicketInv == TicketType /\ TicketBound /\ TicketsSorted /\ TicketCurrent

\* The fields of a ticket.
LEMMA TicketFields ==
    ASSUME TicketType, NEW t \in 1..last_ticket
    PROVE  /\ ticket[t].delay \in Nat /\ ticket[t].when \in Nat /\ now \in Nat
           /\ ticket[t] \in TicketRecord
<1>1. ticket \in Seq(TicketRecord) /\ t \in 1..Len(ticket) /\ now \in Nat
  BY DEF TicketType
<1>2. ticket[t] \in TicketRecord
  BY <1>1, ElementOfSeq
<1>. QED BY <1>1, <1>2 DEF TicketRecord

\* A step that leaves the tickets alone, while the clock does not run backwards.
LEMMA TicketFrame ==
    ASSUME TicketInv, UNCHANGED ticketVars, now' \in Nat, now <= now', TicketCurrent'
    PROVE  TicketInv'
<1>1. /\ tickets' = tickets /\ ticket' = ticket /\ last_ticket' = last_ticket
      /\ ticket_delay' = ticket_delay
  BY DEF ticketVars
<1>2. TicketType'
  BY <1>1 DEF TicketInv, TicketType, ListOK, CursorOK, Nodes
<1>3. TicketBound'
  <2>1. SUFFICES ASSUME NEW t \in 1..last_ticket
                 PROVE  ticket[t].delay \in TicketDelays /\ ticket[t].when <= now' + ticket[t].delay
    BY <1>1 DEF TicketBound
  <2>2. ticket[t].delay \in Nat /\ ticket[t].when \in Nat /\ now \in Nat
    BY TicketFields DEF TicketInv
  <2>3. ticket[t].delay \in TicketDelays /\ ticket[t].when <= now + ticket[t].delay
    BY DEF TicketInv, TicketBound
  <2>. QED BY <2>2, <2>3
<1>4. TicketsSorted'
  BY <1>1 DEF TicketInv, TicketsSorted, Live
<1>. QED BY <1>2, <1>3, <1>4 DEF TicketInv

\* Taking a node out of the list, or moving the cursor, keeps the rest sorted.
LEMMA TicketDetach ==
    ASSUME TicketInv, NEW list, ListOK(list, last_ticket), list.seq = tickets.seq,
           NEW node \in Nodes(list),
           tickets'.seq = detach(list, node).seq, ListOK(tickets', last_ticket),
           ticket' = ticket, last_ticket' = last_ticket, ticket_delay' = ticket_delay,
           now' = now, TicketCurrent'
    PROVE  TicketInv'
<1>. DEFINE k == Position(list, node)
            n == Len(tickets.seq)
            up(i) == IF i < k THEN i ELSE i + 1
<1>1. k \in 1..n /\ n \in Nat
  <2>1. last_ticket \in Nat /\ list.seq \in Seq(1..last_ticket)
    BY DEF ListOK, TicketInv, TicketType
  <2>. QED BY <2>1, NodesFacts, PositionFacts
<1>2. Len(tickets'.seq) = n - 1
  BY DetachOK DEF TicketInv, TicketType
<1>3. \A i \in 1..(n - 1) : tickets'.seq[i] = tickets.seq[up(i)]
  BY DetachOK DEF TicketInv, TicketType
<1>. HIDE DEF k, n
<1>4. \A i \in 1..(n - 1) : up(i) \in 1..n
  BY <1>1
<1>5. \A i, j \in 1..(n - 1) : i < j => up(i) < up(j)
  BY <1>1
<1>. HIDE DEF up
<1>6. TicketsSorted'
  <2>1. SUFFICES ASSUME NEW i \in 1..(n - 1), NEW j \in 1..(n - 1), i < j,
                        ~ticket[tickets'.seq[j]].deleted
                 PROVE  ticket[tickets'.seq[i]].when <= ticket[tickets'.seq[j]].when
    BY <1>2 DEF TicketsSorted, Live
  <2>2. /\ up(i) \in 1..n /\ up(j) \in 1..n /\ up(i) < up(j)
        /\ tickets'.seq[i] = tickets.seq[up(i)] /\ tickets'.seq[j] = tickets.seq[up(j)]
    BY <1>3, <1>4, <1>5, <2>1
  <2>. QED BY <2>1, <2>2 DEF TicketInv, TicketsSorted, Live, n
<1>7. TicketType'
  BY DEF TicketInv, TicketType
<1>8. TicketBound'
  BY DEF TicketInv, TicketBound
<1>. QED BY <1>6, <1>7, <1>8 DEF TicketInv

\* A new ticket, of the one delay there is, goes to the end.
LEMMA TicketAdd ==
    ASSUME TicketInv, \A d, e \in TicketDelays : d = e, zloop_ticket
    PROVE  TicketInv'
<1>. DEFINE N == last_ticket
            n == Len(tickets.seq)
<1>. USE DelayAssumption
<1>1. /\ N \in Nat /\ n \in Nat /\ now \in Nat /\ ticket \in Seq(TicketRecord) /\ Len(ticket) = N
      /\ ListOK(tickets, N) /\ tickets.seq \in Seq(1..N)
      /\ ticket_delay \in TicketDelays /\ ticket_delay \in Nat
  BY DEF TicketInv, TicketType, ListOK, zloop_ticket
<1>2. /\ last_ticket' = N + 1 /\ now' = now /\ ticket_delay' = ticket_delay
      /\ ticket' = Append(ticket, s_ticket_new) /\ tickets' = add_end(tickets, N + 1)
      /\ phase' = phase /\ current' = current
  BY DEF zloop_ticket, runVars
<1>3. s_ticket_new \in TicketRecord
  BY <1>1 DEF s_ticket_new, TicketRecord
<1>4. /\ ticket' \in Seq(TicketRecord) /\ Len(ticket') = N + 1 /\ ticket'[N + 1] = s_ticket_new
      /\ \A t \in 1..N : ticket'[t] = ticket[t]
  <2>. DEFINE r == s_ticket_new
  <2>1. r \in TicketRecord /\ ticket' = Append(ticket, r)
    BY <1>2, <1>3
  <2>. HIDE DEF r
  <2>2. /\ ticket' \in Seq(TicketRecord) /\ Len(ticket') = N + 1 /\ ticket'[N + 1] = r
        /\ \A t \in 1..N : ticket'[t] = ticket[t]
    BY <1>1, <2>1, AppendProperties
  <2>. QED BY <2>2 DEF r
<1>5. ListOK(tickets', N + 1) /\ Nodes(tickets) \subseteq Nodes(tickets')
  BY <1>1, <1>2, AddEndOK
<1>6. TicketType'
  BY <1>1, <1>2, <1>4, <1>5 DEF TicketType
<1>7. \A t \in 1..(N + 1) : t \in 1..N \/ t = N + 1
  BY <1>1
<1>8. s_ticket_new.delay = ticket_delay /\ s_ticket_new.when = now + ticket_delay
  BY DEF s_ticket_new
<1>9. TicketBound'
  <2>1. SUFFICES ASSUME NEW t \in 1..(N + 1)
                 PROVE  ticket'[t].delay \in TicketDelays /\ ticket'[t].when <= now + ticket'[t].delay
    BY <1>2 DEF TicketBound
  <2>2. CASE t \in 1..N
    BY <1>4, <2>2 DEF TicketInv, TicketBound
  <2>3. CASE t = N + 1
    BY <1>1, <1>4, <1>8, <2>3
  <2>. QED BY <1>7, <2>2, <2>3
<1>10. /\ Len(tickets'.seq) = n + 1 /\ tickets'.seq[n + 1] = N + 1
       /\ \A i \in 1..n : tickets'.seq[i] = tickets.seq[i] /\ tickets.seq[i] \in 1..N
  <2>1. tickets.seq \in Seq(1..(N + 1)) /\ tickets'.seq = Append(tickets.seq, N + 1)
    BY <1>1, <1>2 DEF add_end
  <2>2. \A i \in 1..n : tickets.seq[i] \in 1..N
    BY <1>1, ElementOfSeq
  <2>. QED BY <1>1, <2>1, <2>2, AppendProperties, N + 1 \in 1..(N + 1)
<1>11. TicketsSorted'
  <2>1. SUFFICES ASSUME NEW i \in 1..(n + 1), NEW j \in 1..(n + 1), i < j,
                        ~ticket'[tickets'.seq[j]].deleted
                 PROVE  ticket'[tickets'.seq[i]].when <= ticket'[tickets'.seq[j]].when
    BY <1>10 DEF TicketsSorted, Live
  <2>2. i \in 1..n
    BY <1>1, <2>1
  <2>3. CASE j \in 1..n
    BY <1>4, <1>10, <2>1, <2>2, <2>3 DEF TicketInv, TicketsSorted, Live
  <2>4. CASE j = n + 1
    <3>. DEFINE t == tickets.seq[i]
    <3>1. t \in 1..N /\ ticket'[tickets'.seq[i]] = ticket[t]
      BY <1>4, <1>10, <2>2
    <3>2. ticket[t].delay = ticket_delay /\ ticket[t].when <= now + ticket[t].delay
      BY <1>1, <3>1 DEF TicketInv, TicketBound
    <3>3. ticket'[tickets'.seq[j]].when = now + ticket_delay
      BY <1>4, <1>8, <1>10, <2>4
    <3>. QED BY <3>1, <3>2, <3>3
  <2>5. j \in 1..n \/ j = n + 1
    <3>1. n \in Nat
      BY <1>1
    <3>. QED BY <3>1
  <2>. QED BY <2>3, <2>4, <2>5
<1>12. TicketCurrent'
  BY <1>2, <1>5 DEF TicketInv, TicketCurrent
<1>. QED BY <1>6, <1>9, <1>11, <1>12 DEF TicketInv

\* A ticket that goes to the end of the list, either due no earlier than any
\* other or flagged as deleted, leaves the list sorted.
LEMMA TicketMove ==
    ASSUME TicketInv, \A d, e \in TicketDelays : d = e,
           NEW handle \in Nodes(tickets), NEW record \in TicketRecord,
           record.delay = ticket[handle].delay, record.when <= now + record.delay,
           record.deleted \/ record.when = now + record.delay,
           ticket' = [ticket EXCEPT ![handle] = record],
           tickets' = move_end(tickets, handle),
           last_ticket' = last_ticket, ticket_delay' = ticket_delay, now' = now,
           phase' = phase, current' = current
    PROVE  TicketInv'
<1>. DEFINE N == last_ticket
            n == Len(tickets.seq)
            k == Position(tickets, handle)
            up(i) == IF i < k THEN i ELSE i + 1
<1>1. /\ N \in Nat /\ now \in Nat /\ ticket \in Seq(TicketRecord) /\ Len(ticket) = N
      /\ ListOK(tickets, N) /\ tickets.seq \in Seq(1..N)
  BY DEF TicketInv, TicketType, ListOK
<1>2. handle \in 1..N /\ k \in 1..n /\ tickets.seq[k] = handle
  BY <1>1, NodesFacts, PositionFacts
<1>3. /\ ListOK(tickets', N) /\ Nodes(tickets) \subseteq Nodes(tickets')
      /\ n \in Nat /\ Len(tickets'.seq) = n /\ tickets'.seq[n] = handle
      /\ \A i \in 1..(n - 1) : tickets'.seq[i] = tickets.seq[up(i)]
  BY <1>1, MoveEndOK
<1>4. /\ ticket' \in Seq(TicketRecord) /\ Len(ticket') = N /\ ticket'[handle] = record
      /\ \A t \in 1..N : t # handle => ticket'[t] = ticket[t]
  BY <1>1, <1>2
<1>. HIDE DEF k
<1>5. /\ \A i \in 1..(n - 1) : up(i) \in 1..n /\ up(i) # k
      /\ \A i, j \in 1..(n - 1) : i < j => up(i) < up(j)
  BY <1>2, <1>3
<1>. HIDE DEF up
<1>6. \A i \in 1..(n - 1) : /\ tickets'.seq[i] = tickets.seq[up(i)]
                            /\ tickets.seq[up(i)] \in 1..N /\ tickets.seq[up(i)] # handle
                            /\ ticket'[tickets'.seq[i]] = ticket[tickets.seq[up(i)]]
  <2>1. SUFFICES ASSUME NEW i \in 1..(n - 1)
                 PROVE  tickets.seq[up(i)] \in 1..N /\ tickets.seq[up(i)] # handle
    BY <1>3, <1>4
  <2>2. up(i) \in 1..n /\ up(i) # k
    BY <1>5
  <2>3. tickets.seq[up(i)] \in 1..N
    BY <1>1, <2>2, ElementOfSeq
  <2>. QED BY <1>1, <1>2, <2>2, <2>3 DEF ListOK
<1>7. TicketType'
  BY <1>1, <1>3, <1>4 DEF TicketInv, TicketType
<1>8. TicketBound'
  <2>1. SUFFICES ASSUME NEW t \in 1..N
                 PROVE  ticket'[t].delay \in TicketDelays /\ ticket'[t].when <= now + ticket'[t].delay
    BY DEF TicketBound
  <2>2. CASE t = handle
    BY <1>2, <1>4, <2>2 DEF TicketInv, TicketBound
  <2>3. CASE t # handle
    BY <1>4, <2>3 DEF TicketInv, TicketBound
  <2>. QED BY <2>2, <2>3
<1>9. TicketsSorted'
  <2>1. SUFFICES ASSUME NEW i \in 1..n, NEW j \in 1..n, i < j, ~ticket'[tickets'.seq[j]].deleted
                 PROVE  ticket'[tickets'.seq[i]].when <= ticket'[tickets'.seq[j]].when
    BY <1>3 DEF TicketsSorted, Live
  <2>2. i \in 1..(n - 1)
    BY <1>3, <2>1
  <2>3. CASE j = n
    <3>. DEFINE t == tickets.seq[up(i)]
    <3>1. t \in 1..N /\ ticket'[tickets'.seq[i]] = ticket[t]
      BY <1>6, <2>2
    <3>2. ticket'[tickets'.seq[j]] = record /\ record.when = now + record.delay
      BY <1>3, <1>4, <2>1, <2>3
    <3>3. ticket[t].when <= now + ticket[t].delay /\ ticket[t].delay = record.delay
      BY <1>2, <3>1 DEF TicketInv, TicketBound
    <3>. QED BY <3>1, <3>2, <3>3
  <2>4. CASE j \in 1..(n - 1)
    <3>1. up(i) \in 1..n /\ up(j) \in 1..n /\ up(i) < up(j)
      BY <1>5, <2>1, <2>2, <2>4
    <3>2. /\ ticket'[tickets'.seq[i]] = ticket[tickets.seq[up(i)]]
          /\ ticket'[tickets'.seq[j]] = ticket[tickets.seq[up(j)]]
      BY <1>6, <2>2, <2>4
    <3>. QED BY <2>1, <3>1, <3>2 DEF TicketInv, TicketsSorted, Live
  <2>5. j = n \/ j \in 1..(n - 1)
    BY <1>3
  <2>. QED BY <2>3, <2>4, <2>5
<1>10. TicketCurrent'
  BY <1>3 DEF TicketInv, TicketCurrent
<1>. QED BY <1>7, <1>8, <1>9, <1>10 DEF TicketInv

\* Every step keeps the ticket invariant, one ticket delay being used.
LEMMA TicketStep ==
    ASSUME TicketInv, [Next]_vars, \A d, e \in TicketDelays : d = e
    PROVE  TicketInv'
<1>. USE BoundAssumption, DelayAssumption
<1>1. /\ now \in Nat /\ last_ticket \in Nat /\ ListOK(tickets, last_ticket)
      /\ TicketType /\ TicketBound /\ TicketCurrent
  BY DEF TicketInv, TicketType
<1>2. /\ ListOK(first(tickets), last_ticket) /\ first(tickets).seq = tickets.seq
      /\ ListOK(last(tickets), last_ticket) /\ last(tickets).seq = tickets.seq
  BY <1>1, FirstLastOK DEF ListOK
<1>3. ASSUME UNCHANGED ticketVars, now' = now, TicketCurrent' PROVE TicketInv'
  BY <1>1, <1>3, TicketFrame
<1>4. ASSUME UNCHANGED ticketVars, now' = now, phase' = phase, current' = current PROVE TicketInv'
  BY <1>1, <1>3, <1>4 DEF TicketCurrent, ticketVars, Nodes
<1>5. ASSUME StartTickets, UNCHANGED <<ticket, last_ticket, ticket_delay, now>> PROVE TicketInv'
  <2>1. /\ tickets' = first(tickets) /\ phase' = "tickets" /\ current' = tickets'.cur
    BY <1>5 DEF StartTickets
  <2>2. TicketType' /\ TicketBound'
    BY <1>1, <1>2, <1>5, <2>1 DEF TicketType, TicketBound
  <2>3. TicketsSorted'
    BY <1>2, <1>5, <2>1 DEF TicketInv, TicketsSorted, Live
  <2>4. TicketCurrent'
    BY <1>2, <2>1 DEF TicketCurrent, ListOK, CursorOK
  <2>. QED BY <2>2, <2>3, <2>4 DEF TicketInv
<1>6. ASSUME current \in Nodes(tickets), tickets' = next(detach(tickets, current)),
             current' = tickets'.cur, phase' = "tickets",
             UNCHANGED <<ticket, last_ticket, ticket_delay, now>>
      PROVE  TicketInv'
  <2>1. ListOK(detach(tickets, current), last_ticket)
    BY <1>1, <1>6, DetachOK
  <2>2. ListOK(tickets', last_ticket) /\ tickets'.seq = detach(tickets, current).seq
    BY <1>1, <1>6, <2>1, NextOK
  <2>3. TicketCurrent'
    BY <1>6, <2>2 DEF TicketCurrent, ListOK, CursorOK
  <2>. QED BY <1>1, <1>6, <2>2, <2>3, TicketDetach
<1>7. CASE ItemCall
  BY <1>4, <1>7 DEF ItemCall, zloop_reader, zloop_reader_end, zloop_reader_set_tolerant,
     zloop_poller, zloop_poller_end, zloop_poller_set_tolerant, runVars
<1>8. CASE TimerCall
  BY <1>4, <1>8 DEF TimerCall, zloop_timer, zloop_timer_end, zloop_set_max_timers, runVars
<1>9. CASE TicketCall
  <2>1. CASE zloop_ticket
    BY <2>1, TicketAdd
  <2>2. ASSUME NEW handle \in 1..last_ticket, zloop_ticket_reset(handle) PROVE TicketInv'
    <3>. DEFINE record == [ticket[handle] EXCEPT !.when = now + ticket[handle].delay]
    <3>1. handle \in Nodes(tickets) /\ ticket[handle] \in TicketRecord /\ ticket[handle].delay \in Nat
      BY <1>1, <2>2, TicketFields DEF zloop_ticket_reset, LiveTickets
    <3>2. /\ record \in TicketRecord /\ record.delay = ticket[handle].delay
          /\ record.when = now + record.delay /\ record.when <= now + record.delay
      BY <1>1, <3>1 DEF TicketRecord
    <3>3. /\ ticket' = [ticket EXCEPT ![handle] = record] /\ tickets' = move_end(tickets, handle)
          /\ last_ticket' = last_ticket /\ ticket_delay' = ticket_delay /\ now' = now
          /\ phase' = phase /\ current' = current
      BY <2>2 DEF zloop_ticket_reset, runVars
    <3>. HIDE DEF record
    <3>. QED BY <3>1, <3>2, <3>3, TicketMove
  <2>3. ASSUME NEW handle \in 1..last_ticket, zloop_ticket_delete(handle) PROVE TicketInv'
    <3>. DEFINE record == [ticket[handle] EXCEPT !.deleted = TRUE]
    <3>1. handle \in Nodes(tickets) /\ ticket[handle] \in TicketRecord
          /\ ticket[handle].when <= now + ticket[handle].delay
      BY <1>1, <2>3, TicketFields DEF zloop_ticket_delete, LiveTickets, TicketBound
    <3>2. /\ record \in TicketRecord /\ record.delay = ticket[handle].delay
          /\ record.deleted /\ record.when <= now + record.delay
      BY <1>1, <3>1 DEF TicketRecord
    <3>3. /\ ticket' = [ticket EXCEPT ![handle] = record] /\ tickets' = move_end(tickets, handle)
          /\ last_ticket' = last_ticket /\ ticket_delay' = ticket_delay /\ now' = now
          /\ phase' = phase /\ current' = current
      BY <2>3 DEF zloop_ticket_delete, runVars
    <3>. HIDE DEF record
    <3>. QED BY <3>1, <3>2, <3>3, TicketMove
  <2>4. ASSUME NEW delay \in TicketDelays, zloop_set_ticket_delay(delay) PROVE TicketInv'
    <3>1. /\ ticket_delay' = delay /\ UNCHANGED <<tickets, ticket, last_ticket, now, phase, current>>
      BY <2>4 DEF zloop_set_ticket_delay, runVars
    <3>. QED BY <3>1 DEF TicketInv, TicketType, TicketBound, TicketsSorted, TicketCurrent, Live,
                         ListOK, CursorOK, Nodes
  <2>. QED BY <1>9, <2>1, <2>2, <2>3, <2>4 DEF TicketCall
<1>10. CASE \E flag \in BOOLEAN : MayInterrupt /\ zloop_set_nonstop(flag)
  BY <1>4, <1>10 DEF zloop_set_nonstop, runVars
<1>11. CASE zloop_start \/ start_return
  BY <1>3, <1>11 DEF zloop_start, start_return, TicketCurrent
<1>12. CASE Poll
  <2>1. ASSUME NEW time \in now..MaxTime, NEW ready, zmq_poll(time, ready) PROVE TicketInv'
    <3>1. now' \in Nat /\ now <= now' /\ UNCHANGED ticketVars /\ TicketCurrent'
      BY <1>1, <2>1 DEF zmq_poll, TicketCurrent
    <3>. QED BY <3>1, TicketFrame
  <2>2. ASSUME NEW eintr \in BOOLEAN, zmq_poll_interrupted(eintr) PROVE TicketInv'
    BY <1>3, <2>2 DEF zmq_poll_interrupted, TicketCurrent
  <2>. QED BY <1>12, <2>1, <2>2 DEF Poll
<1>13. CASE timer_step
  <2>1. CASE current = NoNode
    BY <1>5, <1>13, <2>1 DEF timer_step
  <2>2. CASE current # NoNode
    BY <1>3, <1>13, <2>2 DEF timer_step, TicketCurrent, ticketVars
  <2>. QED BY <2>1, <2>2
<1>14. CASE \E ret \in Returns : timer_return(ret)
  <2>1. PICK ret \in Returns : timer_return(ret)
    BY <1>14
  <2>2. CASE ret = -1
    BY <1>5, <2>1, <2>2 DEF timer_return
  <2>3. CASE ret # -1
    BY <1>3, <2>1, <2>3 DEF timer_return, TicketCurrent, ticketVars
  <2>. QED BY <2>2, <2>3
<1>15. CASE ticket_step
  <2>1. CASE current # NoNode /\ time_now >= ticket[current].when /\ ticket[current].deleted
    <3>1. current \in Nodes(tickets)
      BY <1>1, <1>15, <2>1 DEF ticket_step, TicketCurrent
    <3>. QED BY <1>6, <1>15, <2>1, <3>1 DEF ticket_step
  <2>2. CASE current # NoNode /\ time_now >= ticket[current].when /\ ~ticket[current].deleted
    BY <1>1, <1>3, <1>15, <2>2 DEF ticket_step, TicketCurrent, ticketVars, Nodes
  <2>3. CASE ~(current # NoNode /\ time_now >= ticket[current].when)
    BY <1>3, <1>15, <2>3 DEF ticket_step, TicketCurrent, ticketVars
  <2>. QED BY <2>1, <2>2, <2>3
<1>16. CASE \E ret \in Returns : ticket_return(ret)
  <2>1. PICK ret \in Returns : ticket_return(ret)
    BY <1>16
  <2>2. CASE ret = -1
    BY <1>3, <2>1, <2>2 DEF ticket_return, TicketCurrent, ticketVars
  <2>3. CASE ret # -1
    <3>1. current \in Nodes(tickets)
      BY <1>1, <2>1 DEF ticket_return, TicketCurrent
    <3>. QED BY <1>6, <2>1, <2>3, <3>1 DEF ticket_return
  <2>. QED BY <2>2, <2>3
<1>17. CASE sweep_step
  <2>. DEFINE l == last(tickets)
  <2>1. CASE l.cur # NoNode /\ ticket[l.cur].deleted
    <3>1. l.cur \in Nodes(l) /\ tickets' = detach(l, l.cur) /\ phase' = "sweep"
      BY <1>2, <1>17, <2>1 DEF sweep_step, ListOK, CursorOK
    <3>2. ListOK(tickets', last_ticket)
      BY <1>1, <1>2, <3>1, DetachOK
    <3>3. UNCHANGED <<ticket, last_ticket, ticket_delay, now>> /\ TicketCurrent'
      BY <1>17, <3>1 DEF sweep_step, TicketCurrent
    <3>. QED BY <1>1, <1>2, <3>1, <3>2, <3>3, TicketDetach
  <2>2. CASE ~(l.cur # NoNode /\ ticket[l.cur].deleted)
    <3>1. /\ tickets' = l /\ phase' \in {"top", "items"}
          /\ UNCHANGED <<ticket, last_ticket, ticket_delay, now>>
      BY <1>17, <2>2 DEF sweep_step, StartItems, LeaveBody
    <3>2. TicketType' /\ TicketBound' /\ TicketCurrent'
      BY <1>1, <1>2, <3>1 DEF TicketType, TicketBound, TicketCurrent
    <3>3. TicketsSorted'
      BY <1>2, <3>1 DEF TicketInv, TicketsSorted, Live
    <3>. QED BY <3>2, <3>3 DEF TicketInv
  <2>. QED BY <2>1, <2>2
<1>18. CASE item_step
  BY <1>3, <1>18 DEF item_step, TicketCurrent
<1>19. CASE \E ret \in Returns : item_return(ret)
  BY <1>3, <1>19 DEF item_return, TicketCurrent
<1>20. CASE zombie_step
  BY <1>3, <1>20 DEF zombie_step, LeaveBody, TicketCurrent
<1>21. CASE zloop_destroy
  <2>1. tickets' = EmptyList /\ phase' = "gone" /\ UNCHANGED <<ticket, last_ticket, ticket_delay, now>>
    BY <1>21 DEF zloop_destroy
  <2>2. ListOK(EmptyList, last_ticket)
    BY <1>1 DEF ListOK, EmptyList, CursorOK, NoNode
  <2>3. TicketType' /\ TicketBound' /\ TicketCurrent'
    BY <1>1, <2>1, <2>2 DEF TicketType, TicketBound, TicketCurrent
  <2>4. TicketsSorted'
    BY <2>1 DEF TicketsSorted, EmptyList
  <2>. QED BY <2>3, <2>4 DEF TicketInv
<1>22. CASE s_signal_handler
  BY <1>4, <1>22 DEF s_signal_handler, runVars
<1>23. CASE Tick
  <2>1. now' \in Nat /\ now <= now' /\ UNCHANGED ticketVars /\ phase' = phase /\ current' = current
    BY <1>1, <1>23 DEF Tick, runVars
  <2>2. TicketCurrent'
    BY <1>1, <2>1 DEF TicketCurrent, ticketVars, Nodes
  <2>. QED BY <2>1, <2>2, TicketFrame
<1>24. CASE UNCHANGED vars
  BY <1>4, <1>24 DEF vars, runVars
<1>. QED
  BY <1>7, <1>8, <1>9, <1>10, <1>11, <1>12, <1>13, <1>14, <1>15, <1>16, <1>17, <1>18, <1>19,
     <1>20, <1>21, <1>22, <1>23, <1>24 DEF Next, Pass

\* Every reachable state satisfies the ticket invariant.
LEMMA TicketInit == Init => TicketInv
<1>. SUFFICES ASSUME Init PROVE TicketInv
  OBVIOUS
<1>. USE DEF Init
<1>1. ListOK(EmptyList, 0)
  BY DEF ListOK, EmptyList, CursorOK, NoNode
<1>2. TicketType /\ TicketBound /\ TicketCurrent
  BY <1>1 DEF TicketType, TicketBound, TicketCurrent
<1>3. TicketsSorted
  BY DEF TicketsSorted, EmptyList
<1>. QED BY <1>2, <1>3 DEF TicketInv

\* The comment of s_tickless, "Tickets are sorted, so check first ticket": while a
\* single ticket delay is used, no ticket ever precedes a live one that is due
\* earlier, whatever tickets handlers create, reset and delete during a walk.
THEOREM TicketsStaySorted ==
    ASSUME \A d, e \in TicketDelays : d = e
    PROVE  Spec => []TicketsSorted
<1>1. Init => TicketInv
  BY TicketInit
<1>2. TicketInv /\ [Next]_vars => TicketInv'
  BY TicketStep
<1>3. TicketInv => TicketsSorted
  BY DEF TicketInv
<1>. QED BY <1>1, <1>2, <1>3, PTL DEF Spec

-----------------------------------------------------------------------------
(* The timers, as far as the time of the next poll needs them.              *)

TimerRecord == [delay : Nat, times : Nat, when : Nat]

TimerType ==
    /\ last_timer_id \in Nat
    /\ timer \in Seq(TimerRecord) /\ Len(timer) = last_timer_id
    /\ ListOK(timers, last_timer_id)
    /\ zombies \in Seq(1..last_timer_id)

\* The timer that zloop_start stands on is on the list, and zloop_timer_end does
\* not touch the list while zloop_start runs.
TimerCurrent ==
    /\ phase \in {"timers", "timer_handler"} => current \in Nodes(timers) \cup {NoNode}
    /\ phase = "timer_handler" => current # NoNode
    /\ phase \notin {"idle", "gone"} => ~terminated

TimerInv == TimerType /\ TimerCurrent

\* Removing a timer by its id keeps the list well formed, found or not.
LEMMA TimerRemoveOK ==
    ASSUME NEW N \in Nat, NEW list, ListOK(list, N), NEW timer_id
    PROVE  ListOK(s_timer_remove(list, timer_id), N)
<1>1. CASE timer_id \in Nodes(list)
  <2>. DEFINE l == [list EXCEPT !.cur = timer_id]
  <2>1. list \in [seq : Seq(1..N), cur : 0..N] /\ timer_id \in 1..N
    BY <1>1, NodesFacts DEF ListOK
  <2>2. l \in [seq : Seq(1..N), cur : 0..N] /\ l.seq = list.seq /\ l.cur = timer_id
    <3>1. timer_id \in 0..N
      BY <2>1
    <3>. QED BY <2>1, <3>1
  <2>3. ListOK(l, N) /\ timer_id \in Nodes(l)
    BY <1>1, <2>2 DEF ListOK, CursorOK, Nodes
  <2>. QED BY <1>1, <2>3, DetachOK DEF s_timer_remove
<1>2. CASE timer_id \notin Nodes(list)
  <2>. DEFINE l == [list EXCEPT !.cur = NoNode]
  <2>1. list \in [seq : Seq(1..N), cur : 0..N]
    BY DEF ListOK
  <2>2. l \in [seq : Seq(1..N), cur : 0..N] /\ l.seq = list.seq /\ l.cur = NoNode
    BY <2>1 DEF NoNode
  <2>. QED BY <1>2, <2>2 DEF s_timer_remove, ListOK, CursorOK
<1>. QED BY <1>1, <1>2

\* Every step keeps the timer list well formed and the current timer on it.
LEMMA TimerStep ==
    ASSUME TimerInv, [Next]_vars, now \in Nat
    PROVE  TimerInv'
<1>. USE BoundAssumption, DelayAssumption
<1>1. /\ last_timer_id \in Nat /\ timer \in Seq(TimerRecord) /\ Len(timer) = last_timer_id
      /\ ListOK(timers, last_timer_id) /\ zombies \in Seq(1..last_timer_id) /\ TimerCurrent
  BY DEF TimerInv, TimerType
<1>2. ASSUME UNCHANGED timerVars, TimerCurrent' PROVE TimerInv'
  BY <1>1, <1>2 DEF timerVars, TimerInv, TimerType
<1>3. ASSUME UNCHANGED timerVars, phase' = phase, current' = current, terminated' = terminated
      PROVE  TimerInv'
  BY <1>1, <1>2, <1>3 DEF TimerCurrent, timerVars, Nodes
<1>4. CASE ItemCall
  BY <1>3, <1>4 DEF ItemCall, zloop_reader, zloop_reader_end, zloop_reader_set_tolerant,
     zloop_poller, zloop_poller_end, zloop_poller_set_tolerant, runVars, flagVars
<1>5. CASE TicketCall
  BY <1>3, <1>5 DEF TicketCall, zloop_ticket, zloop_ticket_reset, zloop_ticket_delete,
     zloop_set_ticket_delay, runVars, flagVars
<1>6. CASE TimerCall
  <2>1. ASSUME NEW delay \in TimerDelays, NEW times \in TimerTimes, zloop_timer(delay, times)
        PROVE  TimerInv'
    <3>. DEFINE r == s_timer_new(delay, times)
                N == last_timer_id
    <3>1. r \in TimerRecord
      BY DEF s_timer_new, TimerRecord
    <3>2. /\ last_timer_id' = N + 1 /\ timer' = Append(timer, r) /\ timers' = add_end(timers, N + 1)
          /\ zombies' = zombies /\ phase' = phase /\ current' = current /\ terminated' = terminated
      BY <2>1 DEF zloop_timer, runVars, flagVars
    <3>. HIDE DEF r
    <3>3. timer' \in Seq(TimerRecord) /\ Len(timer') = N + 1
      BY <1>1, <3>1, <3>2, AppendProperties
    <3>4. ListOK(timers', N + 1) /\ Nodes(timers) \subseteq Nodes(timers')
      BY <1>1, <3>2, AddEndOK
    <3>5. zombies \in Seq(1..(N + 1))
      BY <1>1
    <3>6. TimerCurrent'
      BY <1>1, <3>2, <3>4 DEF TimerCurrent
    <3>. QED BY <1>1, <3>2, <3>3, <3>4, <3>5, <3>6 DEF TimerInv, TimerType
  <2>2. ASSUME NEW timer_id \in 1..last_timer_id, zloop_timer_end(timer_id) PROVE TimerInv'
    <3>1. UNCHANGED <<timer, last_timer_id, phase, current, terminated>> /\ CanCall
      BY <2>2 DEF zloop_timer_end, runVars, flagVars
    <3>2. CASE terminated
      <4>1. timers' = s_timer_remove(timers, timer_id) /\ zombies' = zombies
        BY <2>2, <3>2 DEF zloop_timer_end
      <4>2. ListOK(timers', last_timer_id)
        BY <1>1, <4>1, TimerRemoveOK
      <4>3. phase \in {"idle", "gone"}
        BY <1>1, <3>2 DEF TimerCurrent
      <4>. QED BY <1>1, <3>1, <4>1, <4>2, <4>3 DEF TimerInv, TimerType, TimerCurrent
    <3>3. CASE ~terminated
      <4>1. timers' = timers /\ zombies' = Append(zombies, timer_id)
        BY <2>2, <3>3 DEF zloop_timer_end
      <4>2. zombies' \in Seq(1..last_timer_id)
        BY <1>1, <4>1
      <4>. QED BY <1>1, <3>1, <4>1, <4>2 DEF TimerInv, TimerType, TimerCurrent, Nodes
    <3>. QED BY <3>2, <3>3
  <2>3. ASSUME NEW limit \in TimerLimits, zloop_set_max_timers(limit) PROVE TimerInv'
    BY <1>1, <2>3 DEF zloop_set_max_timers, runVars, flagVars, TimerInv, TimerType, TimerCurrent, Nodes
  <2>. QED BY <1>6, <2>1, <2>2, <2>3 DEF TimerCall
<1>7. CASE \E flag \in BOOLEAN : MayInterrupt /\ zloop_set_nonstop(flag)
  BY <1>3, <1>7 DEF zloop_set_nonstop, runVars
<1>8. CASE zloop_start \/ start_return
  BY <1>2, <1>8 DEF zloop_start, start_return, TimerCurrent
<1>9. CASE Poll
  <2>1. ASSUME NEW time \in now..MaxTime, NEW ready, zmq_poll(time, ready) PROVE TimerInv'
    <3>1. /\ timers' = first(timers) /\ current' = timers'.cur /\ phase' = "timers"
          /\ UNCHANGED <<timer, last_timer_id, zombies, terminated>> /\ phase = "top"
      BY <2>1 DEF zmq_poll, flagVars
    <3>2. ListOK(timers', last_timer_id)
      <4>1. /\ last_timer_id \in Nat /\ timers \in [seq : Seq(1..last_timer_id), cur : 0..last_timer_id]
            /\ \A i, j \in 1..Len(timers.seq) : timers.seq[i] = timers.seq[j] => i = j
        BY <1>1 DEF ListOK
      <4>2. ListOK(first(timers), last_timer_id)
        BY <4>1, FirstLastOK
      <4>. QED BY <3>1, <4>2
    <3>3. TimerCurrent'
      BY <1>1, <3>1, <3>2 DEF TimerCurrent, ListOK, CursorOK
    <3>. QED BY <1>1, <3>1, <3>2, <3>3 DEF TimerInv, TimerType
  <2>2. ASSUME NEW eintr \in BOOLEAN, zmq_poll_interrupted(eintr) PROVE TimerInv'
    BY <1>1, <1>2, <2>2 DEF zmq_poll_interrupted, TimerCurrent
  <2>. QED BY <1>9, <2>1, <2>2 DEF Poll
<1>10. CASE timer_step
  <2>1. CASE current = NoNode
    BY <1>1, <1>2, <1>10, <2>1 DEF timer_step, StartTickets, TimerCurrent, timerVars, flagVars
  <2>2. CASE current # NoNode /\ time_now >= timer[current].when
    <3>1. /\ phase' = "timer_handler" /\ phase = "timers"
          /\ UNCHANGED <<timers, current, timer, last_timer_id, zombies, terminated>>
      BY <1>10, <2>2 DEF timer_step, flagVars
    <3>. QED BY <1>1, <2>2, <3>1 DEF TimerInv, TimerType, TimerCurrent, Nodes
  <2>3. CASE current # NoNode /\ ~(time_now >= timer[current].when)
    <3>1. /\ timers' = next(timers) /\ current' = timers'.cur /\ phase' = "timers" /\ phase = "timers"
          /\ UNCHANGED <<timer, last_timer_id, zombies, terminated>>
      BY <1>10, <2>3 DEF timer_step, flagVars
    <3>2. ListOK(timers', last_timer_id)
      BY <1>1, <3>1, NextOK
    <3>3. TimerCurrent'
      BY <1>1, <3>1, <3>2 DEF TimerCurrent, ListOK, CursorOK
    <3>. QED BY <1>1, <3>1, <3>2, <3>3 DEF TimerInv, TimerType
  <2>. QED BY <2>1, <2>2, <2>3
<1>11. CASE \E ret \in Returns : timer_return(ret)
  <2>1. PICK ret \in Returns : timer_return(ret)
    BY <1>11
  <2>. DEFINE left == IF timer[current].times = 1 THEN detach(timers, current) ELSE timers
  <2>2. current \in Nodes(timers) /\ phase = "timer_handler" /\ ~terminated
    BY <1>1, <2>1 DEF TimerCurrent, timer_return
  <2>3. current \in 1..last_timer_id /\ timer[current] \in TimerRecord
    <3>1. current \in 1..last_timer_id
      BY <1>1, <2>2, NodesFacts DEF ListOK
    <3>. QED BY <1>1, <3>1, ElementOfSeq
  <2>4. ListOK(left, last_timer_id)
    BY <1>1, <2>2, DetachOK
  <2>5. timer' \in Seq(TimerRecord) /\ Len(timer') = last_timer_id
    <3>. DEFINE r == Rearmed(timer[current])
    <3>1. timer' = [timer EXCEPT ![current] = r]
      BY <2>1 DEF timer_return
    <3>2. r \in TimerRecord
      BY <2>3 DEF TimerRecord, Rearmed
    <3>. HIDE DEF r
    <3>. QED BY <1>1, <2>3, <3>1, <3>2
  <2>6. UNCHANGED <<last_timer_id, zombies, terminated>>
    BY <2>1 DEF timer_return, flagVars
  <2>7. CASE ret = -1
    <3>1. timers' = left /\ phase' = "tickets"
      BY <2>1, <2>7 DEF timer_return, StartTickets
    <3>. QED BY <1>1, <2>2, <2>4, <2>5, <2>6, <3>1 DEF TimerInv, TimerType, TimerCurrent
  <2>8. CASE ret # -1
    <3>1. timers' = next(left) /\ current' = timers'.cur /\ phase' = "timers"
      BY <2>1, <2>8 DEF timer_return
    <3>2. ListOK(timers', last_timer_id)
      BY <1>1, <2>4, <3>1, NextOK
    <3>3. TimerCurrent'
      BY <2>2, <2>6, <3>1, <3>2 DEF TimerCurrent, ListOK, CursorOK
    <3>. QED BY <1>1, <2>5, <2>6, <3>2, <3>3 DEF TimerInv, TimerType
  <2>. QED BY <2>7, <2>8
<1>12. CASE ticket_step
  BY <1>1, <1>2, <1>12 DEF ticket_step, TimerCurrent, flagVars
<1>13. CASE \E ret \in Returns : ticket_return(ret)
  BY <1>1, <1>2, <1>13 DEF ticket_return, TimerCurrent, flagVars
<1>14. CASE sweep_step
  BY <1>1, <1>2, <1>14 DEF sweep_step, StartItems, LeaveBody, TimerCurrent, flagVars
<1>15. CASE item_step
  <2>1. /\ phase' \in {"items", "item_handler", "zombies"} /\ phase = "items"
        /\ UNCHANGED timerVars /\ terminated' = terminated
    BY <1>15 DEF item_step, flagVars
  <2>. QED BY <1>1, <1>2, <2>1 DEF TimerCurrent
<1>16. CASE \E ret \in Returns : item_return(ret)
  BY <1>1, <1>2, <1>16 DEF item_return, TimerCurrent, flagVars
<1>17. CASE zombie_step
  <2>1. CASE zombies = <<>>
    BY <1>1, <1>17, <2>1 DEF zombie_step, LeaveBody, flagVars, TimerInv, TimerType, TimerCurrent
  <2>2. CASE zombies # <<>>
    <3>1. /\ timers' = s_timer_remove(timers, Head(zombies)) /\ zombies' = Tail(zombies)
          /\ UNCHANGED <<timer, last_timer_id, terminated, phase>> /\ phase = "zombies"
      BY <1>17, <2>2 DEF zombie_step, flagVars
    <3>2. ListOK(timers', last_timer_id)
      BY <1>1, <3>1, TimerRemoveOK
    <3>3. zombies' \in Seq(1..last_timer_id)
      BY <1>1, <2>2, <3>1
    <3>. QED BY <1>1, <3>1, <3>2, <3>3 DEF TimerInv, TimerType, TimerCurrent
  <2>. QED BY <2>1, <2>2
<1>18. CASE zloop_destroy
  <2>1. ListOK(EmptyList, last_timer_id) /\ <<>> \in Seq(1..last_timer_id)
    BY <1>1 DEF ListOK, EmptyList, CursorOK, NoNode
  <2>. QED BY <1>1, <1>18, <2>1 DEF zloop_destroy, TimerInv, TimerType, TimerCurrent
<1>19. CASE s_signal_handler \/ Tick
  BY <1>3, <1>19 DEF s_signal_handler, Tick, runVars, flagVars
<1>20. CASE UNCHANGED vars
  BY <1>3, <1>20 DEF vars, runVars, flagVars
<1>. QED
  BY <1>4, <1>5, <1>6, <1>7, <1>8, <1>9, <1>10, <1>11, <1>12, <1>13, <1>14, <1>15, <1>16, <1>17,
     <1>18, <1>19, <1>20 DEF Next, Pass

-----------------------------------------------------------------------------
(* The time at which zmq_poll returns.                                      *)

\* A set of numbers that is not empty has a least one.
LEMMA LeastOf ==
    ASSUME NEW S \in SUBSET Nat, S # {}
    PROVE  \E d \in S : \A e \in S : d <= e
<1>. DEFINE R == OpToRel(<, Nat)
<1>1. IsWellFoundedOn(R, Nat)
  BY NatLessThanWellFounded
<1>2. \A x, y \in Nat : <<y, x>> \in R <=> y < x
  BY DEF OpToRel
<1>. HIDE DEF R
<1>3. PICK x \in S : \A y \in S : ~(<<y, x>> \in R)
  BY <1>1, WFMin
<1>4. \A y \in S : x <= y
  <2>1. SUFFICES ASSUME NEW y \in S PROVE x <= y
    OBVIOUS
  <2>2. x \in Nat /\ y \in Nat /\ ~(y < x)
    BY <1>2, <1>3
  <2>. QED BY <2>2
<1>. QED BY <1>4

\* s_tickless is no later than any timer and no later than the first ticket,
\* unless it is now.
LEMMA TicklessFacts ==
    ASSUME TicketInv, TimerInv
    PROVE  /\ \A t \in Nodes(timers) : s_tickless <= timer[t].when \/ s_tickless = now
           /\ tickets.seq # <<>> => s_tickless <= ticket[tickets.seq[1]].when \/ s_tickless = now
           /\ s_tickless \in Nat
<1>. DEFINE head == Nodes(first(tickets)) \cap {first(tickets).cur}
            dues == {timer[t].when : t \in Nodes(timers)} \cup {ticket[t].when : t \in head}
                    \cup {now + TicklessMax}
            earliest == CHOOSE d \in dues : \A e \in dues : d <= e
<1>1. now \in Nat /\ TicketType /\ ListOK(tickets, last_ticket) /\ last_ticket \in Nat
      /\ tickets.seq \in Seq(1..last_ticket)
  BY DEF TicketInv, TicketType, ListOK
<1>2. /\ last_timer_id \in Nat /\ timer \in Seq(TimerRecord) /\ Len(timer) = last_timer_id
      /\ timers.seq \in Seq(1..last_timer_id)
  BY DEF TimerInv, TimerType, ListOK
<1>3. \A t \in Nodes(timers) : timer[t].when \in Nat
  <2>1. SUFFICES ASSUME NEW t \in Nodes(timers) PROVE timer[t].when \in Nat
    OBVIOUS
  <2>2. t \in 1..last_timer_id
    BY <1>2, NodesFacts
  <2>3. timer[t] \in TimerRecord
    BY <1>2, <2>2, ElementOfSeq
  <2>. QED BY <2>3 DEF TimerRecord
<1>4. first(tickets).seq = tickets.seq
  BY <1>1, FirstLastOK DEF ListOK
<1>5. \A t \in head : ticket[t].when \in Nat
  <2>1. head \subseteq 1..last_ticket
    BY <1>1, <1>4, NodesFacts
  <2>. QED BY <1>1, <2>1, TicketFields
<1>6. tickets.seq # <<>> => tickets.seq[1] \in head
  <2>1. SUFFICES ASSUME tickets.seq # <<>> PROVE tickets.seq[1] \in head
    OBVIOUS
  <2>2. 1 \in 1..Len(tickets.seq)
    BY <1>1, <2>1
  <2>3. first(tickets).cur = tickets.seq[1]
    BY <1>1, <2>1 DEF first, ListOK
  <2>4. tickets.seq[1] \in Nodes(first(tickets))
    BY <1>1, <1>4, <2>2, NodesFacts
  <2>. QED BY <2>3, <2>4
<1>7. s_tickless = IF earliest < now THEN now ELSE earliest
  BY DEF s_tickless
<1>. HIDE DEF head
<1>8. dues \in SUBSET Nat /\ dues # {}
  BY <1>1, <1>3, <1>5, BoundAssumption
<1>9. /\ \A t \in Nodes(timers) : timer[t].when \in dues
      /\ tickets.seq # <<>> => ticket[tickets.seq[1]].when \in dues
  BY <1>6
<1>. HIDE DEF dues
<1>10. earliest \in dues /\ \A e \in dues : earliest <= e
  BY <1>8, LeastOf
<1>. HIDE DEF earliest
<1>. QED BY <1>1, <1>7, <1>8, <1>9, <1>10

\* zmq_poll never sleeps past the time a timer or a live ticket is due: with a
\* single ticket delay, for every set of timers and tickets and every schedule of
\* the calls that handlers make.
THEOREM NeverOversleeps ==
    ASSUME \A d, e \in TicketDelays : d = e
    PROVE  Spec => []NoOversleep
<1>1. Init => TicketInv /\ TimerInv
  <2>1. SUFFICES ASSUME Init PROVE TimerInv
    BY TicketInit
  <2>2. ListOK(EmptyList, 0)
    BY DEF ListOK, EmptyList, CursorOK, NoNode
  <2>. QED BY <2>1, <2>2 DEF Init, TimerInv, TimerType, TimerCurrent
<1>2. (TicketInv /\ TimerInv) /\ [Next]_vars => (TicketInv /\ TimerInv)'
  BY TicketStep, TimerStep DEF TicketInv, TicketType
<1>3. TicketInv /\ TimerInv => NoOversleep
  <2>1. SUFFICES ASSUME TicketInv, TimerInv, NEW t \in LiveTickets
                 PROVE  s_tickless <= ticket[t].when \/ s_tickless = now
    BY TicklessFacts DEF NoOversleep
  <2>2. /\ tickets.seq \in Seq(1..last_ticket) /\ last_ticket \in Nat /\ TicketType
        /\ t \in Nodes(tickets) /\ ~ticket[t].deleted
    BY <2>1 DEF TicketInv, TicketType, ListOK, LiveTickets
  <2>3. PICK j \in 1..Len(tickets.seq) : tickets.seq[j] = t
    BY <2>2, NodesFacts
  <2>4. tickets.seq # <<>> /\ 1 \in 1..Len(tickets.seq)
    BY <2>2, <2>3
  <2>5. CASE j = 1
    BY <2>1, <2>3, <2>4, <2>5, TicklessFacts
  <2>6. CASE j # 1
    <3>. DEFINE h == tickets.seq[1]
    <3>1. ticket[h].when <= ticket[t].when
      <4>1. TicketsSorted /\ Live(tickets.seq[j])
        BY <2>1, <2>2, <2>3, Zenon DEF TicketInv, Live
      <4>2. 1 < j
        BY <2>2, <2>3, <2>6
      <4>3. ticket[tickets.seq[1]].when <= ticket[tickets.seq[j]].when
        BY <2>4, <4>1, <4>2, Zenon DEF TicketsSorted
      <4>. QED BY <2>3, <4>3
    <3>2. h \in 1..last_ticket /\ t \in 1..last_ticket
      BY <2>2, <2>3, <2>4, ElementOfSeq
    <3>3. ticket[h].when \in Nat /\ ticket[t].when \in Nat /\ now \in Nat
      BY <2>2, <3>2, TicketFields
    <3>4. s_tickless <= ticket[h].when \/ s_tickless = now
      BY <2>1, <2>4, TicklessFacts
    <3>5. s_tickless \in Nat
      BY <2>1, TicklessFacts
    <3>. QED BY <3>1, <3>3, <3>4, <3>5
  <2>. QED BY <2>5, <2>6
<1>. QED BY <1>1, <1>2, <1>3, PTL DEF Spec

-----------------------------------------------------------------------------
(* How often a timer runs.                                                  *)

FiredRecord == [asked : Nat, called : Nat]

\* What the history says is well formed, and only a cancelled timer is a zombie.
FiredInv ==
    /\ fired \in Seq(FiredRecord) /\ Len(fired) = last_timer_id
    /\ \A i \in 1..Len(zombies) : zombies[i] \in cancelled

\* The call of the handler that runs now is counted, and not yet taken off `times`.
Running(t) == IF phase = "timer_handler" /\ current = t THEN 1 ELSE 0

Counted(t) ==
    /\ t \in Nodes(timers) /\ fired[t].asked = 0 => timer[t].times = 0
    /\ t \in Nodes(timers) /\ fired[t].asked # 0 =>
          /\ timer[t].times # 0
          /\ fired[t].called + timer[t].times = fired[t].asked + Running(t)
    /\ t \notin Nodes(timers) /\ fired[t].asked # 0 => fired[t].called <= fired[t].asked
    /\ t \notin Nodes(timers) /\ t \notin cancelled =>
          fired[t].asked # 0 /\ fired[t].called = fired[t].asked

CountInv == phase # "gone" => \A t \in 1..last_timer_id : Counted(t)

\* detach takes one node out of the set of nodes.
LEMMA DetachNodes ==
    ASSUME NEW N \in Nat, NEW list, ListOK(list, N), NEW node \in Nodes(list)
    PROVE  Nodes(detach(list, node)) = Nodes(list) \ {node}
<1>. DEFINE k == Position(list, node)
            l == detach(list, node)
            n == Len(list.seq)
<1>1. /\ list.seq \in Seq(1..N) /\ n \in Nat
      /\ \A i, j \in 1..n : list.seq[i] = list.seq[j] => i = j
  BY DEF ListOK
<1>2. k \in 1..n /\ list.seq[k] = node
  BY <1>1, NodesFacts, PositionFacts
<1>3. /\ l.seq \in Seq(1..N) /\ Len(l.seq) = n - 1
      /\ \A i \in 1..(n - 1) : l.seq[i] = IF i < k THEN list.seq[i] ELSE list.seq[i + 1]
  BY DetachOK, ZenonT(40) DEF ListOK
<1>. HIDE DEF k, l, n
<1>4. ASSUME NEW x \in Nodes(l) PROVE x \in Nodes(list) /\ x # node
  <2>1. PICK i \in 1..Len(l.seq) : l.seq[i] = x
    BY <1>3, <1>4, NodesFacts
  <2>. DEFINE j == IF i < k THEN i ELSE i + 1
  <2>2. i \in 1..(n - 1) /\ j \in 1..n /\ j # k
    BY <1>1, <1>2, <1>3, <2>1
  <2>3. x = list.seq[j]
    BY <1>3, <2>1, <2>2
  <2>. HIDE DEF j
  <2>4. x \in Nodes(list)
    BY <1>1, <2>2, <2>3, NodesFacts DEF n
  <2>. QED BY <1>1, <1>2, <2>2, <2>3, <2>4
<1>5. ASSUME NEW x \in Nodes(list), x # node PROVE x \in Nodes(l)
  <2>1. PICK j \in 1..n : list.seq[j] = x
    BY <1>1, <1>5, NodesFacts DEF n
  <2>. DEFINE i == IF j < k THEN j ELSE j - 1
  <2>2. i \in 1..(n - 1) /\ j = IF i < k THEN i ELSE i + 1
    BY <1>1, <1>2, <1>5, <2>1
  <2>. HIDE DEF i
  <2>3. l.seq[i] = x
    BY <1>3, <2>1, <2>2
  <2>. QED BY <1>3, <2>2, <2>3, NodesFacts
<1>. QED BY <1>4, <1>5 DEF l

\* Removing a timer by its id takes that timer off the list, and no other.
LEMMA TimerRemoveNodes ==
    ASSUME NEW N \in Nat, NEW list, ListOK(list, N), NEW timer_id
    PROVE  Nodes(s_timer_remove(list, timer_id)) = Nodes(list) \ {timer_id}
<1>1. CASE timer_id \in Nodes(list)
  <2>. DEFINE l == [list EXCEPT !.cur = timer_id]
  <2>1. list \in [seq : Seq(1..N), cur : 0..N] /\ timer_id \in 1..N
    BY <1>1, NodesFacts DEF ListOK
  <2>2. l \in [seq : Seq(1..N), cur : 0..N] /\ l.seq = list.seq /\ l.cur = timer_id
    <3>1. timer_id \in 0..N
      BY <2>1
    <3>. QED BY <2>1, <3>1
  <2>3. ListOK(l, N) /\ timer_id \in Nodes(l) /\ Nodes(l) = Nodes(list)
    BY <1>1, <2>2 DEF ListOK, CursorOK, Nodes
  <2>. QED BY <1>1, <2>3, DetachNodes DEF s_timer_remove
<1>2. CASE timer_id \notin Nodes(list)
  <2>1. s_timer_remove(list, timer_id).seq = list.seq
    BY <1>2 DEF s_timer_remove, ListOK
  <2>. QED BY <1>2, <2>1 DEF Nodes
<1>. QED BY <1>1, <1>2

\* The numbers a count is made of.
LEMMA CountTypes ==
    ASSUME TimerType, FiredInv, NEW t \in 1..last_timer_id
    PROVE  /\ fired[t] \in FiredRecord /\ fired[t].asked \in Nat /\ fired[t].called \in Nat
           /\ timer[t] \in TimerRecord /\ timer[t].times \in Nat
           /\ Running(t) \in 0..1
<1>1. fired[t] \in FiredRecord
  BY ElementOfSeq DEF FiredInv
<1>2. timer[t] \in TimerRecord
  BY ElementOfSeq DEF TimerType
<1>. QED BY <1>1, <1>2 DEF FiredRecord, TimerRecord, Running

\* A step that neither runs, cancels nor removes a timer.
LEMMA CountFrame ==
    ASSUME CountInv, FiredInv, timers'.seq = timers.seq,
           UNCHANGED <<timer, fired, cancelled, last_timer_id, zombies>>,
           phase = "gone" => phase' = "gone",
           phase' = "timer_handler" <=> phase = "timer_handler",
           phase = "timer_handler" => current' = current
    PROVE  FiredInv' /\ CountInv'
<1>1. FiredInv'
  BY DEF FiredInv
<1>2. Nodes(timers') = Nodes(timers)
  BY DEF Nodes
<1>3. \A t \in 1..last_timer_id : Running(t)' = Running(t)
  BY DEF Running
<1>4. ASSUME phase' # "gone", NEW t \in 1..last_timer_id PROVE Counted(t)'
  <2>1. Counted(t)
    BY <1>4 DEF CountInv
  <2>. QED BY <1>2, <1>3, <2>1 DEF Counted
<1>. QED BY <1>1, <1>4 DEF CountInv

\* A cancelled timer is removed while no timer's handler runs.
LEMMA CountRemove ==
    ASSUME CountInv, TimerType, FiredInv, NEW id, id \in cancelled',
           Nodes(timers') = Nodes(timers) \ {id}, cancelled \subseteq cancelled',
           UNCHANGED <<timer, fired, last_timer_id>>,
           phase # "timer_handler", phase # "gone", phase' # "timer_handler"
    PROVE  CountInv'
<1>1. SUFFICES ASSUME NEW t \in 1..last_timer_id PROVE Counted(t)'
  BY DEF CountInv
<1>2. Counted(t)
  BY DEF CountInv
<1>3. /\ fired[t].asked \in Nat /\ fired[t].called \in Nat /\ timer[t].times \in Nat
      /\ Running(t) = 0 /\ Running(t)' = 0
  BY CountTypes DEF Running
<1>4. fired[t].asked # 0 /\ t \in Nodes(timers) => fired[t].called <= fired[t].asked
  BY <1>2, <1>3 DEF Counted
<1>. QED BY <1>2, <1>3, <1>4 DEF Counted

\* A new timer has run no time yet, and is asked to run `times` times.
LEMMA CountNew ==
    ASSUME CountInv, TimerInv, FiredInv, NEW delay \in TimerDelays, NEW times \in TimerTimes,
           zloop_timer(delay, times)
    PROVE  FiredInv' /\ CountInv'
<1>. DEFINE N == last_timer_id
            r == s_timer_new(delay, times)
            f == [asked |-> times, called |-> 0]
<1>1. /\ N \in Nat /\ timer \in Seq(TimerRecord) /\ Len(timer) = N /\ ListOK(timers, N)
      /\ fired \in Seq(FiredRecord) /\ Len(fired) = N /\ timers.seq \in Seq(1..N)
  BY DEF TimerInv, TimerType, FiredInv, ListOK
<1>2. /\ last_timer_id' = N + 1 /\ timer' = Append(timer, r) /\ timers' = add_end(timers, N + 1)
      /\ fired' = Append(fired, f)
      /\ zombies' = zombies /\ cancelled' = cancelled /\ phase' = phase /\ current' = current
  BY DEF zloop_timer, runVars
<1>3. f \in FiredRecord /\ f.asked = times /\ f.called = 0 /\ r.times = times /\ times \in Nat
  BY DelayAssumption DEF FiredRecord, s_timer_new
<1>. HIDE DEF f, r
<1>4. /\ fired' \in Seq(FiredRecord) /\ Len(fired') = N + 1 /\ fired'[N + 1] = f
      /\ \A t \in 1..N : fired'[t] = fired[t]
  BY <1>1, <1>2, <1>3, AppendProperties
<1>5. timer'[N + 1] = r /\ \A t \in 1..N : timer'[t] = timer[t]
  BY <1>1, <1>2
<1>6. FiredInv'
  BY <1>2, <1>4 DEF FiredInv
<1>7. /\ N + 1 \in Nodes(timers') /\ N + 1 \notin Nodes(timers)
      /\ \A t \in 1..N : t \in Nodes(timers') <=> t \in Nodes(timers)
  <2>1. timers'.seq = Append(timers.seq, N + 1)
    BY <1>2 DEF add_end
  <2>2. Nodes(timers) \subseteq 1..N
    BY <1>1, NodesFacts
  <2>3. /\ Len(timers'.seq) = Len(timers.seq) + 1 /\ timers'.seq[Len(timers.seq) + 1] = N + 1
        /\ \A i \in 1..Len(timers.seq) : timers'.seq[i] = timers.seq[i]
        /\ timers'.seq \in Seq(1..(N + 1))
    BY <1>1, <2>1
  <2>4. Nodes(timers') = Nodes(timers) \cup {N + 1}
    <3>1. ASSUME NEW x \in Nodes(timers') PROVE x \in Nodes(timers) \cup {N + 1}
      <4>1. PICK i \in 1..Len(timers'.seq) : timers'.seq[i] = x
        BY <1>1, <2>3, <3>1, NodesFacts
      <4>2. CASE i \in 1..Len(timers.seq)
        BY <1>1, <2>3, <4>1, <4>2, NodesFacts
      <4>3. CASE i = Len(timers.seq) + 1
        BY <2>3, <4>1, <4>3
      <4>. QED BY <1>1, <2>3, <4>2, <4>3
    <3>2. ASSUME NEW x \in Nodes(timers) PROVE x \in Nodes(timers')
      <4>1. PICK i \in 1..Len(timers.seq) : timers.seq[i] = x
        BY <1>1, <3>2, NodesFacts
      <4>2. i \in 1..Len(timers'.seq) /\ timers'.seq[i] = x
        BY <1>1, <2>3, <4>1
      <4>. QED BY <1>1, <2>3, <4>2, NodesFacts
    <3>3. N + 1 \in Nodes(timers')
      <4>1. Len(timers.seq) + 1 \in 1..Len(timers'.seq)
        BY <1>1, <2>3
      <4>. QED BY <1>1, <2>3, <4>1, NodesFacts
    <3>. QED BY <3>1, <3>2, <3>3
  <2>. QED BY <1>1, <2>2, <2>4
<1>8. ASSUME phase' # "gone", NEW t \in 1..(N + 1) PROVE Counted(t)'
  <2>1. CASE t \in 1..N
    <3>1. Counted(t) /\ Running(t)' = Running(t)
      BY <1>2, <1>8, <2>1 DEF CountInv, Running
    <3>. QED BY <1>2, <1>4, <1>5, <1>7, <2>1, <3>1 DEF Counted
  <2>2. CASE t = N + 1
    <3>1. /\ t \in Nodes(timers') /\ fired'[t].asked = times /\ fired'[t].called = 0
          /\ timer'[t].times = times
      BY <1>3, <1>4, <1>5, <1>7, <2>2
    <3>2. Running(t)' = 0
      BY <1>1, <1>2, <1>7, <2>2 DEF TimerInv, TimerCurrent, Running, NoNode
    <3>3. fired'[t].called + timer'[t].times = fired'[t].asked + Running(t)'
      BY <1>3, <3>1, <3>2
    <3>. QED BY <3>1, <3>3, Zenon DEF Counted
  <2>. QED BY <1>1, <2>1, <2>2
<1>. QED BY <1>2, <1>6, <1>8 DEF CountInv

\* The handler is called: one more run, counted as running.
LEMMA CountCall ==
    ASSUME CountInv, TimerInv, FiredInv, phase = "timers", phase' = "timer_handler",
           current # NoNode, UNCHANGED <<timers, timer, current, last_timer_id, zombies, cancelled>>,
           fired' = [fired EXCEPT ![current].called =
                         IF fired[current].asked = 0 THEN 0 ELSE @ + 1]
    PROVE  FiredInv' /\ CountInv'
<1>1. TimerType /\ ListOK(timers, last_timer_id) /\ last_timer_id \in Nat
  BY DEF TimerInv, TimerType
<1>2. current \in Nodes(timers) /\ current \in 1..last_timer_id
  BY <1>1, NodesFacts DEF TimerInv, TimerCurrent, ListOK
<1>3. fired \in Seq(FiredRecord) /\ Len(fired) = last_timer_id /\ fired[current] \in FiredRecord
  BY <1>1, <1>2, CountTypes DEF FiredInv
<1>. DEFINE f == [fired[current] EXCEPT !.called = IF fired[current].asked = 0 THEN 0 ELSE @ + 1]
<1>4. /\ f \in FiredRecord /\ f.asked = fired[current].asked
      /\ f.asked # 0 => f.called = fired[current].called + 1
  BY <1>3 DEF FiredRecord
<1>5. fired' = [fired EXCEPT ![current] = f]
  OBVIOUS
<1>. HIDE DEF f
<1>6. /\ fired' \in Seq(FiredRecord) /\ Len(fired') = last_timer_id /\ fired'[current] = f
      /\ \A t \in 1..last_timer_id : t # current => fired'[t] = fired[t]
  BY <1>1, <1>2, <1>3, <1>4, <1>5
<1>7. FiredInv'
  BY <1>6 DEF FiredInv
<1>8. ASSUME NEW t \in 1..last_timer_id PROVE Counted(t)'
  <2>1. Counted(t) /\ Running(t) = 0
    BY DEF CountInv, Running
  <2>2. Nodes(timers') = Nodes(timers)
    BY DEF Nodes
  <2>3. CASE t = current
    <3>1. Running(t)' = 1
      BY <2>3 DEF Running
    <3>2. timer[t].times \in Nat /\ fired[t].asked \in Nat /\ fired[t].called \in Nat
      BY <1>1, CountTypes
    <3>. QED BY <1>2, <1>4, <1>6, <2>1, <2>2, <2>3, <3>1, <3>2 DEF Counted
  <2>4. CASE t # current
    <3>1. Running(t)' = 0 /\ fired'[t] = fired[t]
      BY <1>6, <2>4 DEF Running
    <3>. QED BY <2>1, <2>2, <3>1 DEF Counted
  <2>. QED BY <2>3, <2>4
<1>. QED BY <1>7, <1>8 DEF CountInv

\* The handler returns: the run is taken off `times`, and the last run ends the timer.
LEMMA CountReturn ==
    ASSUME CountInv, TimerInv, FiredInv, NEW ret \in Returns, timer_return(ret)
    PROVE  FiredInv' /\ CountInv'
<1>. DEFINE left == IF timer[current].times = 1 THEN detach(timers, current) ELSE timers
            r == Rearmed(timer[current])
<1>1. /\ TimerType /\ ListOK(timers, last_timer_id) /\ last_timer_id \in Nat
      /\ timer \in Seq(TimerRecord) /\ Len(timer) = last_timer_id
  BY DEF TimerInv, TimerType
<1>2. phase = "timer_handler" /\ current \in Nodes(timers) /\ current \in 1..last_timer_id
  BY <1>1, NodesFacts DEF TimerInv, TimerCurrent, ListOK, timer_return
<1>3. /\ timer' = [timer EXCEPT ![current] = r] /\ phase' \in {"tickets", "timers"}
      /\ timers' = left \/ timers' = next(left)
      /\ UNCHANGED <<last_timer_id, zombies, cancelled, fired>>
  BY DEF timer_return, StartTickets
<1>4. timer[current] \in TimerRecord /\ timer[current].times \in Nat
  BY <1>1, <1>2, CountTypes
<1>5. r.times = IF timer[current].times = 0 THEN 0 ELSE timer[current].times - 1
  BY DEF Rearmed
<1>6. Nodes(timers') = Nodes(left)
  <2>1. ListOK(left, last_timer_id)
    BY <1>1, <1>2, DetachOK
  <2>2. next(left).seq = left.seq
    BY <1>1, <2>1, NextOK
  <2>. QED BY <1>3, <2>2 DEF Nodes
<1>7. Nodes(left) = IF timer[current].times = 1 THEN Nodes(timers) \ {current} ELSE Nodes(timers)
  BY <1>1, <1>2, DetachNodes
<1>. HIDE DEF left, r
<1>8. timer'[current] = r /\ \A t \in 1..last_timer_id : t # current => timer'[t] = timer[t]
  BY <1>1, <1>2, <1>3
<1>9. FiredInv'
  BY <1>3 DEF FiredInv
<1>10. ASSUME NEW t \in 1..last_timer_id PROVE Counted(t)'
  <2>1. Counted(t) /\ Running(t)' = 0
    BY <1>2, <1>3 DEF CountInv, Running
  <2>2. timer[t].times \in Nat /\ fired[t].asked \in Nat /\ fired[t].called \in Nat
    BY <1>1, CountTypes
  <2>3. CASE t = current
    <3>1. Running(t) = 1
      BY <1>2, <2>3 DEF Running
    <3>2. CASE fired[t].asked = 0
      <4>1. timer[t].times = 0
        BY <1>2, <2>1, <2>3, <3>2 DEF Counted
      <4>2. t \in Nodes(timers') /\ timer'[t].times = 0
        BY <1>2, <1>5, <1>6, <1>7, <1>8, <2>3, <4>1
      <4>. QED BY <1>3, <3>2, <4>2 DEF Counted
    <3>3. CASE fired[t].asked # 0
      <4>1. timer[t].times # 0 /\ fired[t].called + timer[t].times = fired[t].asked + 1
        BY <1>2, <2>1, <2>3, <3>1, <3>3 DEF Counted
      <4>2. timer'[t].times = timer[t].times - 1
        BY <1>5, <1>8, <2>3, <4>1
      <4>3. CASE timer[t].times = 1
        <5>1. t \notin Nodes(timers')
          BY <1>6, <1>7, <2>3, <4>3
        <5>2. fired[t].called = fired[t].asked /\ fired[t].called <= fired[t].asked
          BY <2>2, <4>1, <4>3
        <5>3. fired' = fired
          BY <1>3
        <5>. QED BY <3>3, <5>1, <5>2, <5>3, Zenon DEF Counted
      <4>4. CASE timer[t].times # 1
        <5>0. t \in Nodes(timers')
          BY <1>2, <1>6, <1>7, <2>3, <4>4
        <5>2. timer'[t].times # 0 /\ fired[t].called + timer'[t].times = fired[t].asked
          BY <2>2, <4>1, <4>2, <4>4
        <5>1. /\ t \in Nodes(timers') /\ timer'[t].times # 0
              /\ fired[t].called + timer'[t].times = fired[t].asked
          BY <5>0, <5>2, Zenon
        <5>3. fired' = fired
          BY <1>3
        <5>4. fired[t].called + timer'[t].times = fired[t].asked + Running(t)'
          BY <2>1, <2>2, <5>1
        <5>. QED BY <3>3, <5>1, <5>3, <5>4, Zenon DEF Counted
      <4>. QED BY <4>3, <4>4
    <3>. QED BY <3>2, <3>3
  <2>4. CASE t # current
    <3>1. Running(t) = 0 /\ timer'[t] = timer[t] /\ (t \in Nodes(timers') <=> t \in Nodes(timers))
      BY <1>6, <1>7, <1>8, <2>4 DEF Running
    <3>. QED BY <1>3, <2>1, <3>1 DEF Counted
  <2>. QED BY <2>3, <2>4
<1>. QED BY <1>3, <1>9, <1>10 DEF CountInv

\* Every step keeps the counts.
LEMMA CountStep ==
    ASSUME TimerInv, FiredInv, CountInv, [Next]_vars
    PROVE  FiredInv' /\ CountInv'
<1>1. TimerType /\ ListOK(timers, last_timer_id) /\ last_timer_id \in Nat
      /\ zombies \in Seq(1..last_timer_id)
  BY DEF TimerInv, TimerType
<1>2. ASSUME UNCHANGED timerVars, phase' = phase, current' = current PROVE FiredInv' /\ CountInv'
  BY <1>2, CountFrame DEF timerVars
<1>3. ASSUME UNCHANGED timerVars, phase # "timer_handler", phase' # "timer_handler", phase # "gone"
      PROVE  FiredInv' /\ CountInv'
  BY <1>3, CountFrame DEF timerVars
<1>4. CASE ItemCall
  BY <1>2, <1>4 DEF ItemCall, zloop_reader, zloop_reader_end, zloop_reader_set_tolerant,
     zloop_poller, zloop_poller_end, zloop_poller_set_tolerant, runVars
<1>5. CASE TicketCall
  BY <1>2, <1>5 DEF TicketCall, zloop_ticket, zloop_ticket_reset, zloop_ticket_delete,
     zloop_set_ticket_delay, runVars
<1>6. CASE TimerCall
  <2>1. ASSUME NEW delay \in TimerDelays, NEW times \in TimerTimes, zloop_timer(delay, times)
        PROVE  FiredInv' /\ CountInv'
    BY <2>1, CountNew
  <2>2. ASSUME NEW timer_id \in 1..last_timer_id, zloop_timer_end(timer_id)
        PROVE  FiredInv' /\ CountInv'
    <3>1. /\ UNCHANGED <<timer, last_timer_id, fired, phase, current>> /\ CanCall
          /\ cancelled' = cancelled \cup {timer_id}
      BY <2>2 DEF zloop_timer_end, runVars
    <3>2. CASE terminated
      <4>1. timers' = s_timer_remove(timers, timer_id) /\ zombies' = zombies
        BY <2>2, <3>2 DEF zloop_timer_end
      <4>2. phase = "idle"
        BY <3>1, <3>2 DEF TimerInv, TimerCurrent, CanCall, Handlers
      <4>3. FiredInv'
        BY <3>1, <4>1 DEF FiredInv
      <4>4. Nodes(timers') = Nodes(timers) \ {timer_id}
        BY <1>1, <4>1, TimerRemoveNodes
      <4>. QED BY <1>1, <3>1, <4>2, <4>3, <4>4, CountRemove
    <3>3. CASE ~terminated
      <4>1. timers' = timers /\ zombies' = Append(zombies, timer_id)
        BY <2>2, <3>3 DEF zloop_timer_end
      <4>2. FiredInv'
        BY <1>1, <3>1, <4>1 DEF FiredInv
      <4>3. ASSUME phase' # "gone", NEW t \in 1..last_timer_id PROVE Counted(t)'
        <5>1. Counted(t) /\ Running(t)' = Running(t)
          BY <3>1, <4>3 DEF CountInv, Running
        <5>. QED BY <3>1, <4>1, <5>1 DEF Counted, Nodes
      <4>. QED BY <3>1, <4>2, <4>3 DEF CountInv
    <3>. QED BY <3>2, <3>3
  <2>3. ASSUME NEW limit \in TimerLimits, zloop_set_max_timers(limit) PROVE FiredInv' /\ CountInv'
    BY <2>3, CountFrame DEF zloop_set_max_timers, runVars
  <2>. QED BY <1>6, <2>1, <2>2, <2>3 DEF TimerCall
<1>7. CASE \E flag \in BOOLEAN : MayInterrupt /\ zloop_set_nonstop(flag)
  BY <1>2, <1>7 DEF zloop_set_nonstop, runVars
<1>8. CASE zloop_start \/ start_return
  BY <1>3, <1>8 DEF zloop_start, start_return
<1>9. CASE Poll
  <2>1. ASSUME NEW time, NEW ready, zmq_poll(time, ready) PROVE FiredInv' /\ CountInv'
    <3>1. /\ timers' = first(timers) /\ phase' = "timers" /\ phase = "top"
          /\ UNCHANGED <<timer, last_timer_id, zombies, cancelled, fired>>
      BY <2>1 DEF zmq_poll
    <3>2. timers'.seq = timers.seq
      BY <1>1, <3>1, FirstLastOK DEF ListOK
    <3>. QED BY <3>1, <3>2, CountFrame
  <2>2. ASSUME NEW eintr, zmq_poll_interrupted(eintr) PROVE FiredInv' /\ CountInv'
    <3>1. UNCHANGED timerVars /\ phase = "top" /\ phase' \in {"top", "idle"}
      BY <2>2 DEF zmq_poll_interrupted
    <3>. QED BY <1>3, <3>1
  <2>. QED BY <1>9, <2>1, <2>2 DEF Poll
<1>10. CASE timer_step
  <2>1. /\ phase = "timers"
        /\ UNCHANGED <<timer, last_timer_id, zombies, cancelled>>
    BY <1>10 DEF timer_step
  <2>2. CASE current = NoNode
    <3>1. phase' = "tickets" /\ timers' = timers /\ fired' = fired
      BY <1>10, <2>2 DEF timer_step, StartTickets
    <3>. QED BY <2>1, <3>1, CountFrame
  <2>3. CASE current # NoNode /\ time_now >= timer[current].when
    <3>1. /\ phase' = "timer_handler" /\ timers' = timers /\ current' = current
          /\ fired' = [fired EXCEPT ![current].called =
                           IF fired[current].asked = 0 THEN 0 ELSE @ + 1]
      BY <1>10, <2>3 DEF timer_step
    <3>. QED BY <2>1, <2>3, <3>1, CountCall
  <2>4. CASE current # NoNode /\ ~(time_now >= timer[current].when)
    <3>1. timers' = next(timers) /\ phase' = phase /\ fired' = fired
      BY <1>10, <2>4 DEF timer_step
    <3>2. timers'.seq = timers.seq
      BY <1>1, <3>1, NextOK
    <3>. QED BY <2>1, <3>1, <3>2, CountFrame
  <2>. QED BY <2>2, <2>3, <2>4
<1>11. CASE \E ret \in Returns : timer_return(ret)
  BY <1>11, CountReturn
<1>12. CASE ticket_step
  BY <1>3, <1>12 DEF ticket_step
<1>13. CASE \E ret \in Returns : ticket_return(ret)
  BY <1>3, <1>13 DEF ticket_return
<1>14. CASE sweep_step
  BY <1>3, <1>14 DEF sweep_step, StartItems, LeaveBody
<1>15. CASE item_step
  <2>1. phase' \in {"items", "item_handler", "zombies"} /\ phase = "items" /\ UNCHANGED timerVars
    BY <1>15 DEF item_step
  <2>. QED BY <1>3, <2>1
<1>16. CASE \E ret \in Returns : item_return(ret)
  BY <1>3, <1>16 DEF item_return
<1>17. CASE zombie_step
  <2>1. /\ phase = "zombies" /\ phase' \in {"zombies", "top"}
        /\ UNCHANGED <<timer, last_timer_id, cancelled, fired>>
    BY <1>17 DEF zombie_step, LeaveBody
  <2>2. CASE zombies = <<>>
    <3>1. timers' = timers /\ zombies' = zombies
      BY <1>17, <2>2 DEF zombie_step
    <3>. QED BY <2>1, <3>1, CountFrame
  <2>3. CASE zombies # <<>>
    <3>1. timers' = s_timer_remove(timers, Head(zombies)) /\ zombies' = Tail(zombies)
      BY <1>17, <2>3 DEF zombie_step
    <3>2. Head(zombies) \in cancelled
      <4>1. 1 \in 1..Len(zombies) /\ Head(zombies) = zombies[1]
        BY <1>1, <2>3
      <4>. QED BY <4>1 DEF FiredInv
    <3>3. /\ Len(zombies') = Len(zombies) - 1 /\ Len(zombies) \in Nat
          /\ \A i \in 1..(Len(zombies) - 1) : zombies'[i] = zombies[i + 1]
      BY <1>1, <2>3, <3>1, HeadTailProperties
    <3>4. \A i \in 1..(Len(zombies) - 1) : zombies[i + 1] \in cancelled
      <4>1. \A i \in 1..(Len(zombies) - 1) : i + 1 \in 1..Len(zombies)
        BY <3>3
      <4>. QED BY <4>1 DEF FiredInv
    <3>5. FiredInv'
      BY <2>1, <3>3, <3>4 DEF FiredInv
    <3>6. Nodes(timers') = Nodes(timers) \ {Head(zombies)}
      BY <1>1, <3>1, TimerRemoveNodes
    <3>7. CountInv'
      <4>. DEFINE id == Head(zombies)
      <4>1. id \in cancelled' /\ Nodes(timers') = Nodes(timers) \ {id}
        BY <2>1, <3>2, <3>6
      <4>. HIDE DEF id
      <4>. QED BY <1>1, <2>1, <4>1, CountRemove
    <3>. QED BY <3>5, <3>7
  <2>. QED BY <2>2, <2>3
<1>18. CASE zloop_destroy
  BY <1>18 DEF zloop_destroy, FiredInv, CountInv
<1>19. CASE s_signal_handler \/ Tick
  BY <1>2, <1>19 DEF s_signal_handler, Tick, runVars
<1>20. CASE UNCHANGED vars
  BY <1>2, <1>20 DEF vars, runVars
<1>. QED
  BY <1>4, <1>5, <1>6, <1>7, <1>8, <1>9, <1>10, <1>11, <1>12, <1>13, <1>14, <1>15, <1>16, <1>17,
     <1>18, <1>19, <1>20 DEF Next, Pass

\* The clock is a number, whatever the ticket delays are.
LEMMA ClockStep ==
    ASSUME now \in Nat, [Next]_vars
    PROVE  now' \in Nat
<1>. USE BoundAssumption
<1>1. CASE ItemCall \/ TimerCall \/ TicketCall
  BY <1>1 DEF ItemCall, TimerCall, TicketCall, zloop_reader, zloop_reader_end,
     zloop_reader_set_tolerant, zloop_poller, zloop_poller_end, zloop_poller_set_tolerant,
     zloop_timer, zloop_timer_end, zloop_set_max_timers, zloop_ticket, zloop_ticket_reset,
     zloop_ticket_delete, zloop_set_ticket_delay
<1>2. CASE Pass
  BY <1>2 DEF Pass, timer_step, ticket_step, sweep_step, item_step, zombie_step, timer_return,
     ticket_return, item_return
<1>3. CASE Poll
  BY <1>3 DEF Poll, zmq_poll, zmq_poll_interrupted
<1>4. CASE Tick
  BY <1>4 DEF Tick
<1>5. CASE UNCHANGED vars
  BY <1>5 DEF vars
<1>. QED
  BY <1>1, <1>2, <1>3, <1>4, <1>5 DEF Next, zloop_set_nonstop, zloop_start, start_return,
     zloop_destroy, s_signal_handler

\* A timer's handler runs as often as zloop_timer asked: never more often, and the
\* timer leaves the list only after its last run or when it was cancelled, whatever
\* timers the handlers create and cancel in the middle of the walk.
THEOREM TimersRunAsAsked == Spec => []TimerRepeats
<1>. DEFINE Inv == now \in Nat /\ TimerInv /\ FiredInv /\ CountInv
<1>1. Init => Inv
  <2>1. SUFFICES ASSUME Init PROVE Inv
    OBVIOUS
  <2>2. ListOK(EmptyList, 0)
    BY DEF ListOK, EmptyList, CursorOK, NoNode
  <2>3. now \in Nat /\ TimerInv
    BY <2>1, <2>2 DEF Init, TimerInv, TimerType, TimerCurrent
  <2>4. FiredInv /\ CountInv
    BY <2>1 DEF Init, FiredInv, CountInv
  <2>. QED BY <2>3, <2>4
<1>2. Inv /\ [Next]_vars => Inv'
  BY ClockStep, TimerStep, CountStep
<1>3. Inv => TimerRepeats
  <2>1. SUFFICES ASSUME Inv, phase # "gone", NEW t \in DOMAIN timer
                 PROVE  /\ fired[t].asked # 0 => fired[t].called <= fired[t].asked
                        /\ t \notin Nodes(timers) /\ t \notin cancelled =>
                              fired[t].asked # 0 /\ fired[t].called = fired[t].asked
    BY DEF TimerRepeats
  <2>2. t \in 1..last_timer_id /\ TimerType
    BY <2>1 DEF TimerInv, TimerType
  <2>3. Counted(t)
    BY <2>1, <2>2 DEF CountInv
  <2>4. /\ fired[t].asked \in Nat /\ fired[t].called \in Nat /\ timer[t].times \in Nat
        /\ Running(t) \in 0..1
    BY <2>1, <2>2, CountTypes
  <2>5. ASSUME fired[t].asked # 0 PROVE fired[t].called <= fired[t].asked
    <3>1. CASE t \in Nodes(timers)
      <4>1. timer[t].times # 0 /\ fired[t].called + timer[t].times = fired[t].asked + Running(t)
        BY <2>3, <2>5, <3>1, Zenon DEF Counted
      <4>. QED BY <2>4, <4>1
    <3>2. CASE t \notin Nodes(timers)
      BY <2>3, <2>5, <3>2, Zenon DEF Counted
    <3>. QED BY <3>1, <3>2
  <2>6. t \notin Nodes(timers) /\ t \notin cancelled =>
           fired[t].asked # 0 /\ fired[t].called = fired[t].asked
    BY <2>3, Zenon DEF Counted
  <2>. QED BY <2>5, <2>6
<1>. HIDE DEF Inv
<1>. QED BY <1>1, <1>2, <1>3, PTL DEF Spec
=============================================================================
