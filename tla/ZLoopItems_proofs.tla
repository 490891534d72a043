------------------------- MODULE ZLoopItems_proofs -------------------------
(***************************************************************************)
(* Proofs about the registrations of the reactor and its walk over the     *)
(* poll set, for any number of readers and pollers and whatever the        *)
(* handlers call in the middle of the walk: a stop is honoured, the poll   *)
(* set stays in step with the registrations, and only what is registered   *)
(* is called.                                                              *)
(***************************************************************************)
EXTENDS ZLoop, FiniteSetTheorems, SequenceTheorems, WellFoundedInduction, TLAPS

-----------------------------------------------------------------------------
(* Stopping: the return code is the memory of a handler's -1.               *)

StopInv ==
    /\ stopped \in BOOLEAN
    /\ stopped <=> rc = -1
    /\ phase \in {"timers", "timer_handler", "item_handler"} => ~stopped

\* Every step keeps the return code and the history of the handlers in step.
LEMMA StopStep ==
    ASSUME StopInv, [Next]_vars
    PROVE  StopInv'
<1>1. ASSUME UNCHANGED <<phase, rc, stopped>> PROVE StopInv'
  BY <1>1 DEF StopInv
<1>2. CASE ItemCall
  BY <1>1, <1>2 DEF ItemCall, zloop_reader, zloop_reader_end, zloop_reader_set_tolerant,
     zloop_poller, zloop_poller_end, zloop_poller_set_tolerant, runVars
<1>3. CASE TimerCall
  BY <1>1, <1>3 DEF TimerCall, zloop_timer, zloop_timer_end, zloop_set_max_timers, runVars
<1>4. CASE TicketCall
  BY <1>1, <1>4 DEF TicketCall, zloop_ticket, zloop_ticket_reset, zloop_ticket_delete,
     zloop_set_ticket_delay, runVars
<1>5. CASE \E flag \in BOOLEAN : MayInterrupt /\ zloop_set_nonstop(flag)
  BY <1>1, <1>5 DEF zloop_set_nonstop, runVars
<1>6. CASE zloop_start
  <2>1. phase' = "top" /\ rc' = 0 /\ stopped' = FALSE
    BY <1>6 DEF zloop_start
  <2>2. rc' # -1
    BY <2>1
  <2>. QED BY <2>1, <2>2, Zenon DEF StopInv
<1>7. CASE start_return
  BY <1>7 DEF start_return, StopInv
<1>8. CASE Poll
  <2>1. /\ phase = "top" /\ rc # -1 /\ stopped' = stopped /\ rc' \in {0, 1}
    BY <1>8 DEF Poll, zmq_poll, zmq_poll_interrupted, Quits
  <2>2. ~stopped
    BY <2>1 DEF StopInv
  <2>. QED BY <2>1, <2>2 DEF StopInv
<1>9. CASE timer_step
  <2>1. phase = "timers" /\ rc' = rc /\ stopped' = stopped
    BY <1>9 DEF timer_step
  <2>. QED BY <2>1 DEF StopInv
<1>10. CASE \E ret \in Returns : timer_return(ret)
  <2>1. PICK ret \in Returns : timer_return(ret)
    BY <1>10
  <2>2. /\ phase = "timer_handler" /\ rc' = ret /\ stopped' = (stopped \/ ret = -1)
        /\ ret = -1 => phase' = "tickets"
    BY <2>1 DEF timer_return, StartTickets
  <2>. QED BY <2>2 DEF StopInv
<1>11. CASE ticket_step
  <2>1. /\ phase' \in {"tickets", "ticket_handler", "sweep"} /\ rc' = rc /\ stopped' = stopped
    BY <1>11 DEF ticket_step
  <2>. QED BY <2>1 DEF StopInv
<1>12. CASE \E ret \in Returns : ticket_return(ret)
  <2>1. /\ phase' \in {"tickets", "sweep"}
        /\ (rc' = -1 /\ stopped' = TRUE) \/ (rc' = rc /\ stopped' = stopped)
    BY <1>12 DEF ticket_return
  <2>2. phase' \notin {"timers", "timer_handler", "item_handler"}
    BY <2>1
  <2>3. CASE rc' = -1 /\ stopped' = TRUE
    BY <2>2, <2>3, Zenon DEF StopInv
  <2>4. CASE rc' = rc /\ stopped' = stopped
    BY <2>2, <2>4, Zenon DEF StopInv
  <2>. QED BY <2>1, <2>3, <2>4
<1>13. CASE sweep_step
  <2>1. /\ phase' \in {"sweep", "top", "items"} /\ rc' = rc /\ stopped' = stopped
    BY <1>13 DEF sweep_step, StartItems, LeaveBody
  <2>. QED BY <2>1 DEF StopInv
<1>14. CASE item_step
  <2>1. /\ phase' \in {"items", "item_handler", "zombies"} /\ rc' = rc /\ stopped' = stopped
        /\ rc = -1 => phase' = "zombies"
    BY <1>14 DEF item_step
  <2>. QED BY <2>1 DEF StopInv
<1>15. CASE \E ret \in Returns : item_return(ret)
  <2>1. PICK ret \in Returns : item_return(ret)
    BY <1>15
  <2>2. /\ phase = "item_handler" /\ rc' = ret /\ stopped' = (stopped \/ ret = -1)
        /\ phase' \in {"zombies", "items"}
    BY <2>1 DEF item_return
  <2>. QED BY <2>2 DEF StopInv
<1>16. CASE zombie_step
  <2>1. phase' \in {"zombies", "top"} /\ rc' = rc /\ stopped' = stopped
    BY <1>16 DEF zombie_step, LeaveBody
  <2>. QED BY <2>1 DEF StopInv
<1>17. CASE zloop_destroy
  BY <1>17 DEF zloop_destroy, StopInv
<1>18. CASE s_signal_handler \/ Tick
  BY <1>1, <1>18 DEF s_signal_handler, Tick, runVars
<1>19. CASE UNCHANGED vars
  BY <1>1, <1>19 DEF vars, runVars
<1>. QED
  BY <1>2, <1>3, <1>4, <1>5, <1>6, <1>7, <1>8, <1>9, <1>10, <1>11, <1>12, <1>13, <1>14, <1>15,
     <1>16, <1>17, <1>18, <1>19 DEF Next, Pass

\* What a step may do once a handler has returned -1.
StopKept ==
    /\ stopped /\ phase' # phase => phase' \notin {"timer_handler", "item_handler"}
    /\ phase = "top" /\ phase' = "idle" => (rc' = -1 <=> stopped)

\* Once a handler has returned -1, zloop_start calls no handler of a timer or of a
\* poll item any more, and it returns -1 exactly when one has: for all handlers.
THEOREM StopIsHonoured == Spec => StopHonoured
<1>1. Init => StopInv
  <2>1. SUFFICES ASSUME Init PROVE StopInv
    OBVIOUS
  <2>2. phase = "idle" /\ rc = 0 /\ stopped = FALSE
    BY <2>1 DEF Init
  <2>3. rc # -1
    BY <2>2
  <2>. QED BY <2>2, <2>3, Zenon DEF StopInv
<1>2. StopInv /\ [Next]_vars => StopInv'
  BY StopStep
<1>3. StopInv /\ [Next]_vars => [StopKept]_vars
  <2>1. SUFFICES ASSUME StopInv, Next PROVE StopKept
    BY DEF StopKept
  <2>2. StopInv'
    BY <2>1, StopStep
  <2>3. stopped /\ phase' # phase => phase' \notin {"timer_handler", "item_handler"}
    <3>1. SUFFICES ASSUME stopped, phase' # phase, phase' \in {"timer_handler", "item_handler"}
                   PROVE  FALSE
      OBVIOUS
    <3>2. ~stopped'
      BY <2>2, <3>1 DEF StopInv
    <3>3. rc = -1 /\ phase \notin {"timers", "timer_handler", "item_handler"}
      BY <2>1, <3>1 DEF StopInv
    <3>4. zloop_start
      <4>1. CASE ItemCall \/ TimerCall \/ TicketCall
        BY <3>1, <4>1 DEF ItemCall, TimerCall, TicketCall, zloop_reader, zloop_reader_end,
           zloop_reader_set_tolerant, zloop_poller, zloop_poller_end, zloop_poller_set_tolerant,
           zloop_timer, zloop_timer_end, zloop_set_max_timers, zloop_ticket, zloop_ticket_reset,
           zloop_ticket_delete, zloop_set_ticket_delay, runVars
      <4>2. CASE Pass
        BY <3>1, <3>2, <3>3, <4>2 DEF Pass, timer_step, ticket_step, sweep_step, item_step,
           zombie_step, timer_return, ticket_return, item_return, StartTickets, StartItems, LeaveBody
      <4>3. CASE Poll
        BY <3>3, <4>3 DEF Poll, zmq_poll, zmq_poll_interrupted, Quits
      <4>4. CASE (\E flag \in BOOLEAN : MayInterrupt /\ zloop_set_nonstop(flag))
                 \/ start_return \/ zloop_destroy \/ s_signal_handler \/ Tick
        BY <3>1, <4>4 DEF zloop_set_nonstop, start_return, zloop_destroy, s_signal_handler, Tick, runVars
      <4>. QED BY <2>1, <4>1, <4>2, <4>3, <4>4 DEF Next
    <3>. QED BY <3>1, <3>4 DEF zloop_start
  <2>4. phase = "top" /\ phase' = "idle" => (rc' = -1 <=> stopped)
    <3>1. SUFFICES ASSUME phase = "top", phase' = "idle" PROVE stopped' = stopped
      BY <2>2 DEF StopInv
    <3>2. CASE start_return \/ Poll
      BY <3>2 DEF start_return, Poll, zmq_poll, zmq_poll_interrupted
    <3>3. ~CanCall
      BY <3>1 DEF CanCall, Handlers
    <3>4. ~ItemCall /\ ~TimerCall /\ ~TicketCall
      BY <3>3 DEF ItemCall, TimerCall, TicketCall, zloop_reader, zloop_reader_end,
         zloop_reader_set_tolerant, zloop_poller, zloop_poller_end, zloop_poller_set_tolerant,
         zloop_timer, zloop_timer_end, zloop_set_max_timers, zloop_ticket, zloop_ticket_reset,
         zloop_ticket_delete, zloop_set_ticket_delay
    <3>5. ~Pass
      BY <3>1 DEF Pass, timer_step, ticket_step, sweep_step, item_step, zombie_step,
         timer_return, ticket_return, item_return
    <3>6. CASE s_signal_handler
      BY <3>6 DEF s_signal_handler, runVars
    <3>. QED
      BY <2>1, <3>1, <3>2, <3>3, <3>4, <3>5, <3>6 DEF Next, zloop_set_nonstop, zloop_start,
         zloop_destroy, Tick
  <2>. QED BY <2>3, <2>4 DEF StopKept
<1>. QED BY <1>1, <1>2, <1>3, PTL DEF Spec, StopHonoured, StopKept

-----------------------------------------------------------------------------
(* Ending registrations.                                                    *)

\* A set of numbers that is not empty has a least one.
LEMMA LeastOf ==
    ASSUME NEW S \in SUBSET Nat, S # {}
    PROVE  \E d \in S : \A e \in S : d <= e
<1>. DEFINE R == OpToRel(<, Nat)
<1>1. IsWellFoundedOn(R, Nat)
  BY NatLessThanWellFounded
<1>2. \A x, y \in Nat : <<y, x>> \in R <=> y < x
  BY DEF OpToRel
<1>. HIDE DEF R
<1>3. PICK x \in S : \A y \in S : ~(<<y, x>> \in R)
  BY <1>1, WFMin
<1>4. \A y \in S : x <= y
  <2>1. SUFFICES ASSUME NEW y \in S PROVE x <= y
    OBVIOUS
  <2>2. x \in Nat /\ y \in Nat /\ ~(y < x)
    BY <1>2, <1>3
  <2>. QED BY <2>2
<1>. QED BY <1>4

Below(K, i) == {j \in K : j < i}

\* The number of elements below one grows with it.
LEMMA BelowGrows ==
    ASSUME NEW K \in SUBSET Nat, IsFiniteSet(K), NEW i \in K, NEW m \in K, i < m
    PROVE  /\ Cardinality(Below(K, i)) \in Nat /\ Cardinality(Below(K, m)) \in Nat
           /\ Cardinality(Below(K, i)) < Cardinality(Below(K, m))
<1>1. IsFiniteSet(Below(K, i)) /\ IsFiniteSet(Below(K, m))
  BY FS_Subset DEF Below
<1>2. Below(K, i) \cup {i} \subseteq Below(K, m) /\ i \notin Below(K, i)
  <2>1. \A j \in K : j \in Nat
    OBVIOUS
  <2>2. \A j \in K : j < i => j < m
    BY <2>1
  <2>3. ~(i < i)
    BY <2>1
  <2>. QED BY <2>2, <2>3, Zenon DEF Below
<1>3. /\ IsFiniteSet(Below(K, i) \cup {i})
      /\ Cardinality(Below(K, i) \cup {i}) = Cardinality(Below(K, i)) + 1
  BY <1>1, <1>2, FS_AddElement
<1>4. Cardinality(Below(K, i) \cup {i}) <= Cardinality(Below(K, m))
  BY <1>1, <1>2, FS_Subset
<1>5. Cardinality(Below(K, i)) \in Nat /\ Cardinality(Below(K, m)) \in Nat
  BY <1>1, FS_CardinalityType
<1>. QED BY <1>3, <1>4, <1>5

\* The elements of a finite set of numbers are its first to its last.
LEMMA NthExists ==
    ASSUME NEW K \in SUBSET Nat, IsFiniteSet(K), NEW k \in 1..Cardinality(K)
    PROVE  \E i \in K : Cardinality(Below(K, i)) = k - 1
<1>. DEFINE Bad == {n \in 1..Cardinality(K) : ~\E i \in K : Cardinality(Below(K, i)) = n - 1}
<1>0. \A j \in K : j \in Nat
  OBVIOUS
<1>1. SUFFICES ASSUME Bad # {} PROVE FALSE
  OBVIOUS
<1>2. Cardinality(K) \in Nat /\ Bad \in SUBSET Nat
  BY FS_CardinalityType
<1>3. PICK n \in Bad : \A e \in Bad : n <= e
  BY <1>1, <1>2, LeastOf
<1>4. n \in 1..Cardinality(K) /\ ~\E i \in K : Cardinality(Below(K, i)) = n - 1
  OBVIOUS
<1>5. CASE n = 1
  <2>1. K # {}
    BY <1>4, FS_EmptySet
  <2>2. PICK i \in K : \A e \in K : i <= e
    BY <2>1, LeastOf
  <2>3. Below(K, i) = {}
    <3>1. \A j \in K : ~(j < i)
      BY <1>0, <2>2
    <3>. QED BY <3>1, Zenon DEF Below
  <2>. QED BY <1>4, <1>5, <2>3, FS_EmptySet
<1>6. CASE n # 1
  <2>1. n - 1 \in 1..Cardinality(K) /\ n - 1 \notin Bad
    BY <1>2, <1>3, <1>4, <1>6
  <2>2. PICK i \in K : Cardinality(Below(K, i)) = n - 1 - 1
    BY <2>1
  <2>. DEFINE U == {j \in K : i < j}
  <2>3. IsFiniteSet(Below(K, i)) /\ i \notin Below(K, i)
    BY FS_Subset DEF Below
  <2>4. Cardinality(Below(K, i) \cup {i}) = n - 1
    <3>1. Cardinality(Below(K, i) \cup {i}) = Cardinality(Below(K, i)) + 1
      BY <2>3, FS_AddElement
    <3>. QED BY <1>2, <1>4, <2>2, <3>1
  <2>5. U # {}
    <3>1. SUFFICES ASSUME U = {} PROVE FALSE
      OBVIOUS
    <3>2. K = Below(K, i) \cup {i}
      <4>1. \A j \in K : j < i \/ j = i
        BY <1>0, <3>1
      <4>. QED BY <4>1 DEF Below
    <3>. HIDE DEF U
    <3>3. Cardinality(K) = n - 1
      BY <2>4, <3>2
    <3>. QED BY <1>2, <1>4, <3>3
  <2>6. PICK m \in U : \A e \in U : m <= e
    BY <2>5, LeastOf
  <2>7. Below(K, m) = Below(K, i) \cup {i}
    <3>1. m \in K /\ m \in Nat /\ i \in Nat /\ i < m
      BY <1>0, <2>6
    <3>2. \A j \in K : j < m <=> (j < i \/ j = i)
      BY <1>0, <2>6, <3>1
    <3>. QED BY <3>2 DEF Below
  <2>. QED BY <1>4, <2>4, <2>6, <2>7
<1>. QED BY <1>5, <1>6

\* Ended keeps the registrations that do not match, each once, and no others; when none
\* matches the list is as it was.
LEMMA EndedFacts ==
    ASSUME NEW S, NEW list \in Seq(S), NEW item
    PROVE  /\ Ended(list, item) \in Seq(S)
           /\ \A k \in 1..Len(Ended(list, item)) :
                 \E i \in 1..Len(list) : /\ Ended(list, item)[k] = list[i]
                                         /\ ~Matches(item, list[i].item)
                                         /\ Cardinality(Below(Kept(list, item), i)) = k - 1
           /\ \A i \in 1..Len(list) : ~Matches(item, list[i].item) =>
                 \E k \in 1..Len(Ended(list, item)) : Ended(list, item)[k] = list[i]
           /\ ~EndsSome(list, item) => Ended(list, item) = list
<1>. DEFINE K == Kept(list, item)
            E == Ended(list, item)
            nth(k) == CHOOSE i \in K : Cardinality(Below(K, i)) = k - 1
            N == Cardinality(K)
<1>1. K \in SUBSET Nat /\ K \subseteq 1..Len(list) /\ IsFiniteSet(K) /\ N \in Nat
  <2>1. DOMAIN list = 1..Len(list) /\ Len(list) \in Nat
    OBVIOUS
  <2>2. K \subseteq 1..Len(list)
    BY <2>1 DEF Kept
  <2>3. IsFiniteSet(1..Len(list))
    BY <2>1, FS_Interval
  <2>. QED BY <2>1, <2>2, <2>3, FS_Subset, FS_CardinalityType
<1>2. E = [k \in 1..N |-> list[nth(k)]]
  BY DEF Ended, Below
<1>3. \A k \in 1..N : nth(k) \in K /\ Cardinality(Below(K, nth(k))) = k - 1
  BY <1>1, NthExists
<1>4. \A i \in K : i \in 1..Len(list) /\ ~Matches(item, list[i].item) /\ list[i] \in S
  BY <1>1, ElementOfSeq DEF Kept
<1>. HIDE DEF E, nth, N
<1>5. E \in Seq(S) /\ Len(E) = N
  BY <1>1, <1>2, <1>3, <1>4
<1>6. ASSUME NEW k \in 1..Len(E)
      PROVE  \E i \in 1..Len(list) : /\ E[k] = list[i] /\ ~Matches(item, list[i].item)
                                     /\ Cardinality(Below(K, i)) = k - 1
  BY <1>2, <1>3, <1>4, <1>5
<1>7. ASSUME NEW i \in K, NEW m \in K, Cardinality(Below(K, i)) = Cardinality(Below(K, m))
      PROVE  i = m
  <2>1. i \in Nat /\ m \in Nat
    BY <1>1
  <2>2. CASE i < m
    BY <1>1, <1>7, <2>2, BelowGrows
  <2>3. CASE m < i
    BY <1>1, <1>7, <2>3, BelowGrows
  <2>. QED BY <2>1, <2>2, <2>3
<1>8. ASSUME NEW i \in K
      PROVE  Cardinality(Below(K, i)) + 1 \in 1..N /\ nth(Cardinality(Below(K, i)) + 1) = i
  <2>. DEFINE c == Cardinality(Below(K, i))
  <2>1. IsFiniteSet(Below(K, i)) /\ c \in Nat /\ i \notin Below(K, i)
    BY <1>1, FS_Subset, FS_CardinalityType DEF Below
  <2>2. Cardinality(Below(K, i) \cup {i}) = c + 1
    BY <2>1, FS_AddElement
  <2>3. c + 1 <= N
    BY <1>1, <1>8, <2>2, FS_Subset DEF Below, N
  <2>4. c + 1 \in 1..N
    BY <1>1, <2>1, <2>3
  <2>. HIDE DEF c
  <2>5. nth(c + 1) \in K /\ Cardinality(Below(K, nth(c + 1))) = c
    BY <1>3, <2>1, <2>4
  <2>6. nth(c + 1) = i
    BY <1>7, <2>5 DEF c
  <2>. QED BY <2>4, <2>6 DEF c
<1>9. ASSUME NEW i \in 1..Len(list), ~Matches(item, list[i].item)
      PROVE  \E k \in 1..Len(E) : E[k] = list[i]
  <2>1. i \in K
    BY <1>9 DEF Kept
  <2>. QED BY <1>2, <1>5, <1>8, <2>1
<1>10. ASSUME ~EndsSome(list, item) PROVE E = list
  <2>1. K = 1..Len(list) /\ Len(list) \in Nat
    BY <1>10 DEF EndsSome, Kept
  <2>2. N = Len(list)
    BY <2>1, FS_Interval DEF N
  <2>3. ASSUME NEW k \in 1..N PROVE nth(k) = k
    <3>1. Below(K, k) = 1..(k - 1)
      BY <2>1, <2>2 DEF Below
    <3>2. Cardinality(1..(k - 1)) = k - 1
      BY <1>1, FS_Interval
    <3>. QED BY <1>3, <1>7, <2>1, <2>2, <3>1, <3>2
  <2>. QED BY <1>2, <1>5, <2>2, <2>3
<1>. QED BY <1>5, <1>6, <1>9, <1>10 DEF E

-----------------------------------------------------------------------------
(* The poll set and the registrations.                                      *)

ItemType ==
    /\ readers \in Seq(Registration) /\ pollers \in Seq(Registration)
    /\ pollset \in Seq(PollEntry)
    /\ regs \in Nat /\ need_rebuild \in BOOLEAN
    /\ item_nbr \in Nat \ {0}

\* A reader polls a socket, a poller what the application gave; zmq_poll reports
\* errors for file descriptors only.
ItemPlace ==
    /\ \A i \in 1..Len(readers) : readers[i].item.socket \in Sockets
    /\ \A i \in 1..Len(pollers) : pollers[i].item \in PollItems
    /\ \A i \in 1..Len(pollset) :
          /\ pollset[i].reader => pollset[i].item.socket \in Sockets
          /\ ~pollset[i].reader => pollset[i].item \in PollItems
          /\ pollset[i].revents = "err" => pollset[i].item.socket = NoSocket

Synced(set, reads, polls) ==
    /\ Len(set) = Len(reads) + Len(polls)
    /\ \A i \in 1..Len(reads) : set[i].id = reads[i].id /\ set[i].reader
    /\ \A i \in 1..Len(polls) : /\ set[Len(reads) + i].id = polls[i].id
                                /\ set[Len(reads) + i].item = polls[i].item
                                /\ ~set[Len(reads) + i].reader

ItemSync == ~need_rebuild => Synced(pollset, readers, pollers)

ItemInv == ItemType /\ ItemPlace /\ ItemSync

\* The poll items are items.
LEMMA ItemFacts ==
    /\ PollItems \subseteq Items
    /\ \A s \in Sockets : ReaderItem(s) \in Items /\ ReaderItem(s).socket = s
    /\ NoSocket \notin Sockets
BY ItemAssumption DEF Items, ReaderItem

\* A registration in a list.
LEMMA RegFields ==
    ASSUME NEW list \in Seq(Registration), NEW i \in 1..Len(list)
    PROVE  /\ list[i] \in Registration
           /\ list[i].id \in 1..MaxRegs /\ list[i].item \in Items /\ list[i].tolerant \in BOOLEAN
<1>1. list[i] \in Registration
  BY ElementOfSeq
<1>. QED BY <1>1 DEF Registration

\* Making registrations tolerant changes nothing else about them.
LEMMA TolerantFacts ==
    ASSUME NEW list \in Seq(Registration), NEW item
    PROVE  /\ MadeTolerant(list, item) \in Seq(Registration)
           /\ Len(MadeTolerant(list, item)) = Len(list)
           /\ \A i \in 1..Len(list) : /\ MadeTolerant(list, item)[i].id = list[i].id
                                      /\ MadeTolerant(list, item)[i].item = list[i].item
<1>. DEFINE e(i) == IF Matches(item, list[i].item)
                    THEN [list[i] EXCEPT !.tolerant = TRUE] ELSE list[i]
<1>1. \A i \in 1..Len(list) : e(i) \in Registration /\ e(i).id = list[i].id /\ e(i).item = list[i].item
  <2>1. SUFFICES ASSUME NEW i \in 1..Len(list)
                 PROVE  e(i) \in Registration /\ e(i).id = list[i].id /\ e(i).item = list[i].item
    OBVIOUS
  <2>2. list[i] \in Registration
    BY RegFields
  <2>. DEFINE r == [list[i] EXCEPT !.tolerant = TRUE]
  <2>3. r \in Registration /\ r.id = list[i].id /\ r.item = list[i].item
    BY <2>2 DEF Registration
  <2>. HIDE DEF r
  <2>4. e(i) = IF Matches(item, list[i].item) THEN r ELSE list[i]
    BY DEF r
  <2>. QED BY <2>2, <2>3, <2>4
<1>2. MadeTolerant(list, item) = [i \in 1..Len(list) |-> e(i)]
  BY DEF MadeTolerant
<1>. HIDE DEF e
<1>. QED BY <1>1, <1>2

\* A rebuilt poll set is the readers and then the pollers.
LEMMA RebuildFacts ==
    ASSUME ItemType, ItemPlace
    PROVE  /\ s_rebuild_pollset \in Seq(PollEntry)
           /\ Synced(s_rebuild_pollset, readers, pollers)
           /\ \A i \in 1..Len(s_rebuild_pollset) : LET e == s_rebuild_pollset[i] IN
                 /\ e.reader => e.item.socket \in Sockets
                 /\ ~e.reader => e.item \in PollItems
                 /\ e.revents = "none"
<1>. DEFINE m == Len(readers)
            n == Len(pollers)
            s == s_rebuild_pollset
            e(i) == IF i <= m THEN Entry(readers[i], TRUE) ELSE Entry(pollers[i - m], FALSE)
<1>1. m \in Nat /\ n \in Nat /\ s = [i \in 1..(m + n) |-> e(i)]
  BY DEF ItemType, s_rebuild_pollset
<1>2. ASSUME NEW r \in Registration, NEW b \in BOOLEAN
      PROVE  /\ Entry(r, b) \in PollEntry /\ Entry(r, b).id = r.id /\ Entry(r, b).item = r.item
             /\ Entry(r, b).reader = b /\ Entry(r, b).revents = "none"
  BY <1>2 DEF Entry, PollEntry, Registration, Revents
<1>3. ASSUME NEW i \in 1..m
      PROVE  /\ e(i) \in PollEntry /\ e(i).id = readers[i].id /\ e(i).reader = TRUE
             /\ e(i).item.socket \in Sockets /\ e(i).revents = "none"
  <2>1. readers[i] \in Registration /\ e(i) = Entry(readers[i], TRUE)
    BY <1>1, RegFields DEF ItemType
  <2>2. readers[i].item.socket \in Sockets
    BY DEF ItemPlace
  <2>. QED BY <1>2, <2>1, <2>2
<1>4. ASSUME NEW i \in 1..n
      PROVE  /\ e(m + i) \in PollEntry /\ e(m + i).id = pollers[i].id /\ e(m + i).reader = FALSE
             /\ e(m + i).item = pollers[i].item /\ e(m + i).item \in PollItems
             /\ e(m + i).revents = "none"
  <2>1. ~(m + i <= m) /\ (m + i) - m = i
    BY <1>1
  <2>2. pollers[i] \in Registration /\ e(m + i) = Entry(pollers[i], FALSE)
    BY <2>1, RegFields DEF ItemType
  <2>3. pollers[i].item \in PollItems
    BY DEF ItemPlace
  <2>. QED BY <1>2, <2>2, <2>3
<1>. HIDE DEF e
<1>5. \A i \in 1..(m + n) : i \in 1..m \/ (i - m \in 1..n /\ i = m + (i - m))
  BY <1>1
<1>6. \A i \in 1..(m + n) : e(i) \in PollEntry
  BY <1>3, <1>4, <1>5
<1>7. s \in Seq(PollEntry) /\ Len(s) = m + n /\ \A i \in 1..(m + n) : s[i] = e(i)
  BY <1>1, <1>6
<1>8. Synced(s, readers, pollers)
  <2>1. \A i \in 1..m : i \in 1..(m + n)
    BY <1>1
  <2>2. \A i \in 1..n : m + i \in 1..(m + n)
    BY <1>1
  <2>3. \A i \in 1..m : s[i].id = readers[i].id /\ s[i].reader
    BY <1>3, <1>7, <2>1
  <2>4. \A i \in 1..n : s[m + i].id = pollers[i].id /\ s[m + i].item = pollers[i].item
                        /\ ~s[m + i].reader
    BY <1>4, <1>7, <2>2
  <2>. QED BY <1>7, <2>3, <2>4 DEF Synced
<1>9. ASSUME NEW i \in 1..(m + n)
      PROVE  /\ s[i].reader => s[i].item.socket \in Sockets
             /\ ~s[i].reader => s[i].item \in PollItems
             /\ s[i].revents = "none"
  <2>1. CASE i \in 1..m
    BY <1>3, <1>7, <2>1
  <2>2. CASE i - m \in 1..n /\ i = m + (i - m)
    BY <1>4, <1>7, <2>2
  <2>. QED BY <1>5, <2>1, <2>2
<1>. QED BY <1>7, <1>8, <1>9 DEF s

\* What a poll set says of its entries does not depend on their events and errors.
LEMMA SameEntries ==
    ASSUME NEW s \in Seq(PollEntry), NEW t \in Seq(PollEntry), NEW reads, NEW polls,
           Len(reads) \in Nat, Len(polls) \in Nat, Len(t) = Len(s),
           \A i \in 1..Len(s) : t[i].id = s[i].id /\ t[i].item = s[i].item /\ t[i].reader = s[i].reader,
           Synced(s, reads, polls)
    PROVE  Synced(t, reads, polls)
<1>1. Len(s) = Len(reads) + Len(polls)
  BY DEF Synced
<1>2. \A i \in 1..Len(reads) : i \in 1..Len(s)
  BY <1>1
<1>3. \A i \in 1..Len(polls) : Len(reads) + i \in 1..Len(s)
  BY <1>1
<1>4. \A i \in 1..Len(reads) : t[i].id = reads[i].id /\ t[i].reader
  BY <1>2 DEF Synced
<1>5. \A i \in 1..Len(polls) : /\ t[Len(reads) + i].id = polls[i].id
                               /\ t[Len(reads) + i].item = polls[i].item
                               /\ ~t[Len(reads) + i].reader
  BY <1>3 DEF Synced
<1>. QED BY <1>1, <1>4, <1>5 DEF Synced

\* The poll set that zmq_poll is given.
LEMMA PollSetFacts ==
    ASSUME ItemInv
    PROVE  /\ PollSet \in Seq(PollEntry)
           /\ Synced(PollSet, readers, pollers)
           /\ \A i \in 1..Len(PollSet) : /\ PollSet[i].reader => PollSet[i].item.socket \in Sockets
                                         /\ ~PollSet[i].reader => PollSet[i].item \in PollItems
                                         /\ PollSet[i].revents = "err" => PollSet[i].item.socket = NoSocket
<1>1. CASE need_rebuild
  <2>1. PollSet = s_rebuild_pollset
    BY <1>1 DEF PollSet
  <2>2. \A i \in 1..Len(s_rebuild_pollset) : s_rebuild_pollset[i].revents # "err"
    BY RebuildFacts DEF ItemInv
  <2>. QED BY <2>1, <2>2, RebuildFacts DEF ItemInv
<1>2. CASE ~need_rebuild
  <2>1. PollSet = pollset
    BY <1>2 DEF PollSet
  <2>. QED BY <1>2, <2>1 DEF ItemInv, ItemType, ItemPlace, ItemSync
<1>. QED BY <1>1, <1>2

\* A step that leaves the items alone.
LEMMA ItemFrame ==
    ASSUME ItemInv, UNCHANGED itemVars, item_nbr' \in Nat \ {0}
    PROVE  ItemInv'
<1>1. /\ readers' = readers /\ pollers' = pollers /\ pollset' = pollset /\ regs' = regs
      /\ need_rebuild' = need_rebuild
  BY DEF itemVars
<1>. QED BY <1>1 DEF ItemInv, ItemType, ItemPlace, ItemSync

\* Readers are added, ended and made tolerant.
LEMMA ReaderStep ==
    ASSUME ItemInv, NEW sock \in Sockets,
           zloop_reader(sock) \/ zloop_reader_end(sock) \/ zloop_reader_set_tolerant(sock)
    PROVE  ItemInv'
<1>. USE BoundAssumption
<1>1. /\ readers \in Seq(Registration) /\ pollers \in Seq(Registration) /\ regs \in Nat
      /\ pollset \in Seq(PollEntry) /\ item_nbr \in Nat \ {0} /\ need_rebuild \in BOOLEAN
      /\ Len(readers) \in Nat /\ Len(pollers) \in Nat
  BY DEF ItemInv, ItemType
<1>2. pollers' = pollers /\ pollset' = pollset /\ item_nbr' = item_nbr
  BY DEF zloop_reader, zloop_reader_end, zloop_reader_set_tolerant, runVars
<1>3. ASSUME readers' \in Seq(Registration), regs' \in Nat, need_rebuild' \in BOOLEAN,
             \A i \in 1..Len(readers') : readers'[i].item.socket \in Sockets, ItemSync'
      PROVE  ItemInv'
  <2>1. ItemType'
    BY <1>1, <1>2, <1>3 DEF ItemType
  <2>2. ItemPlace'
    BY <1>2, <1>3 DEF ItemInv, ItemPlace
  <2>. QED BY <1>3, <2>1, <2>2 DEF ItemInv
<1>4. \A i \in 1..Len(readers) : readers[i].item.socket \in Sockets
  BY DEF ItemInv, ItemPlace
<1>5. CASE zloop_reader(sock)
  <2>. DEFINE r == NewReg(ReaderItem(sock))
  <2>1. readers' = Append(readers, r) /\ regs' = regs + 1 /\ need_rebuild' = TRUE /\ regs < MaxRegs
    BY <1>5 DEF zloop_reader
  <2>2. r \in Registration /\ r.item.socket = sock
    BY <1>1, <2>1, ItemFacts DEF NewReg, Registration
  <2>. HIDE DEF r
  <2>3. /\ readers' \in Seq(Registration) /\ Len(readers') = Len(readers) + 1
        /\ readers'[Len(readers) + 1] = r /\ \A i \in 1..Len(readers) : readers'[i] = readers[i]
    BY <1>1, <2>1, <2>2, AppendProperties
  <2>4. \A i \in 1..Len(readers') : i \in 1..Len(readers) \/ i = Len(readers) + 1
    BY <1>1, <2>3
  <2>5. \A i \in 1..Len(readers') : readers'[i].item.socket \in Sockets
    BY <1>4, <2>2, <2>3, <2>4
  <2>6. ItemSync' /\ need_rebuild' \in BOOLEAN
    BY <2>1 DEF ItemSync
  <2>. QED BY <1>1, <1>3, <2>1, <2>3, <2>5, <2>6
<1>6. CASE zloop_reader_end(sock)
  <2>. DEFINE item == ReaderItem(sock)
  <2>1. /\ readers' = Ended(readers, item) /\ regs' = regs
        /\ need_rebuild' = (need_rebuild \/ EndsSome(readers, item))
    BY <1>6 DEF zloop_reader_end
  <2>. HIDE DEF item
  <2>2. readers' \in Seq(Registration)
    BY <1>1, <2>1, EndedFacts
  <2>3. ASSUME NEW i \in 1..Len(readers') PROVE readers'[i].item.socket \in Sockets
    <3>1. \E j \in 1..Len(readers) : readers'[i] = readers[j]
      BY <1>1, <2>1, EndedFacts
    <3>. QED BY <1>4, <3>1
  <2>4. need_rebuild' \in BOOLEAN
    BY <2>1
  <2>5. ItemSync'
    <3>1. SUFFICES ASSUME ~need_rebuild' PROVE Synced(pollset, readers', pollers)
      BY <1>2 DEF ItemSync
    <3>2. ~need_rebuild /\ ~EndsSome(readers, item)
      BY <2>1, <3>1, Zenon
    <3>3. readers' = readers
      BY <1>1, <2>1, <3>2, EndedFacts
    <3>. QED BY <3>2, <3>3 DEF ItemInv, ItemSync
  <2>. QED BY <1>1, <1>3, <2>1, <2>2, <2>3, <2>4, <2>5
<1>7. CASE zloop_reader_set_tolerant(sock)
  <2>. DEFINE item == ReaderItem(sock)
  <2>1. readers' = MadeTolerant(readers, item) /\ regs' = regs /\ need_rebuild' = need_rebuild
    BY <1>7 DEF zloop_reader_set_tolerant
  <2>. HIDE DEF item
  <2>2. /\ readers' \in Seq(Registration) /\ Len(readers') = Len(readers)
        /\ \A i \in 1..Len(readers) : readers'[i].id = readers[i].id /\ readers'[i].item = readers[i].item
    BY <1>1, <2>1, TolerantFacts
  <2>3. \A i \in 1..Len(readers') : readers'[i].item.socket \in Sockets
    BY <1>4, <2>2
  <2>4. ItemSync'
    BY <1>2, <2>1, <2>2 DEF ItemInv, ItemSync, Synced
  <2>. QED BY <1>1, <1>3, <2>1, <2>2, <2>3, <2>4
<1>. QED BY <1>5, <1>6, <1>7

\* Pollers are added, ended and made tolerant.
LEMMA PollerStep ==
    ASSUME ItemInv, NEW item \in PollItems,
           zloop_poller(item) \/ zloop_poller_end(item) \/ zloop_poller_set_tolerant(item)
    PROVE  ItemInv'
<1>. USE BoundAssumption
<1>1. /\ readers \in Seq(Registration) /\ pollers \in Seq(Registration) /\ regs \in Nat
      /\ pollset \in Seq(PollEntry) /\ item_nbr \in Nat \ {0} /\ need_rebuild \in BOOLEAN
      /\ Len(readers) \in Nat /\ Len(pollers) \in Nat
  BY DEF ItemInv, ItemType
<1>2. readers' = readers /\ pollset' = pollset /\ item_nbr' = item_nbr
  BY DEF zloop_poller, zloop_poller_end, zloop_poller_set_tolerant, runVars
<1>3. ASSUME pollers' \in Seq(Registration), regs' \in Nat, need_rebuild' \in BOOLEAN,
             \A i \in 1..Len(pollers') : pollers'[i].item \in PollItems, ItemSync'
      PROVE  ItemInv'
  <2>1. ItemType'
    BY <1>1, <1>2, <1>3 DEF ItemType
  <2>2. ItemPlace'
    BY <1>2, <1>3 DEF ItemInv, ItemPlace
  <2>. QED BY <1>3, <2>1, <2>2 DEF ItemInv
<1>4. \A i \in 1..Len(pollers) : pollers[i].item \in PollItems
  BY DEF ItemInv, ItemPlace
<1>5. CASE zloop_poller(item)
  <2>. DEFINE r == NewReg(item)
  <2>1. pollers' = Append(pollers, r) /\ regs' = regs + 1 /\ need_rebuild' = TRUE /\ regs < MaxRegs
    BY <1>5 DEF zloop_poller
  <2>2. r \in Registration /\ r.item = item
    BY <1>1, <2>1, ItemFacts DEF NewReg, Registration
  <2>. HIDE DEF r
  <2>3. /\ pollers' \in Seq(Registration) /\ Len(pollers') = Len(pollers) + 1
        /\ pollers'[Len(pollers) + 1] = r /\ \A i \in 1..Len(pollers) : pollers'[i] = pollers[i]
    BY <1>1, <2>1, <2>2, AppendProperties
  <2>4. \A i \in 1..Len(pollers') : i \in 1..Len(pollers) \/ i = Len(pollers) + 1
    BY <1>1, <2>3
  <2>5. \A i \in 1..Len(pollers') : pollers'[i].item \in PollItems
    BY <1>4, <2>2, <2>3, <2>4
  <2>6. ItemSync' /\ need_rebuild' \in BOOLEAN
    BY <2>1 DEF ItemSync
  <2>. QED BY <1>1, <1>3, <2>1, <2>3, <2>5, <2>6
<1>6. CASE zloop_poller_end(item)
  <2>1. /\ pollers' = Ended(pollers, item) /\ regs' = regs
        /\ need_rebuild' = (need_rebuild \/ EndsSome(pollers, item))
    BY <1>6 DEF zloop_poller_end
  <2>2. pollers' \in Seq(Registration)
    BY <1>1, <2>1, EndedFacts
  <2>3. ASSUME NEW i \in 1..Len(pollers') PROVE pollers'[i].item \in PollItems
    <3>1. \A k \in 1..Len(Ended(pollers, item)) :
             \E j \in 1..Len(pollers) : Ended(pollers, item)[k] = pollers[j]
      BY <1>1, EndedFacts
    <3>. QED BY <1>4, <2>1, <3>1
  <2>4. need_rebuild' \in BOOLEAN
    BY <2>1
  <2>5. ItemSync'
    <3>1. SUFFICES ASSUME ~need_rebuild' PROVE Synced(pollset, readers, pollers')
      BY <1>2 DEF ItemSync
    <3>2. ~need_rebuild /\ ~EndsSome(pollers, item)
      BY <2>1, <3>1, Zenon
    <3>3. pollers' = pollers
      BY <1>1, <2>1, <3>2, EndedFacts
    <3>. QED BY <3>2, <3>3 DEF ItemInv, ItemSync
  <2>. QED BY <1>1, <1>3, <2>1, <2>2, <2>3, <2>4, <2>5
<1>7. CASE zloop_poller_set_tolerant(item)
  <2>1. pollers' = MadeTolerant(pollers, item) /\ regs' = regs /\ need_rebuild' = need_rebuild
    BY <1>7 DEF zloop_poller_set_tolerant
  <2>2. /\ pollers' \in Seq(Registration) /\ Len(pollers') = Len(pollers)
        /\ \A i \in 1..Len(pollers) : pollers'[i].id = pollers[i].id /\ pollers'[i].item = pollers[i].item
    BY <1>1, <2>1, TolerantFacts
  <2>3. \A i \in 1..Len(pollers') : pollers'[i].item \in PollItems
    BY <1>4, <2>2
  <2>4. ItemSync'
    BY <1>2, <2>1, <2>2 DEF ItemInv, ItemSync, Synced
  <2>. QED BY <1>1, <1>3, <2>1, <2>2, <2>3, <2>4
<1>. QED BY <1>5, <1>6, <1>7

\* zmq_poll rebuilds the poll set if it has to, and sets the events.
LEMMA PollStep ==
    ASSUME ItemInv, Poll
    PROVE  ItemInv'
<1>1. /\ readers' = readers /\ pollers' = pollers /\ regs' = regs /\ item_nbr' = item_nbr
      /\ need_rebuild' = FALSE
  BY DEF Poll, zmq_poll, zmq_poll_interrupted
<1>2. /\ readers \in Seq(Registration) /\ pollers \in Seq(Registration) /\ regs \in Nat
      /\ item_nbr \in Nat \ {0} /\ Len(readers) \in Nat /\ Len(pollers) \in Nat
  BY DEF ItemInv, ItemType
<1>. DEFINE s == PollSet
            n == Len(s)
<1>3. /\ s \in Seq(PollEntry) /\ Synced(s, readers, pollers) /\ n \in Nat
      /\ \A i \in 1..n : /\ s[i].reader => s[i].item.socket \in Sockets
                         /\ ~s[i].reader => s[i].item \in PollItems
                         /\ s[i].revents = "err" => s[i].item.socket = NoSocket
  BY PollSetFacts
<1>4. /\ pollset' \in Seq(PollEntry) /\ Len(pollset') = n
      /\ \A i \in 1..n : /\ pollset'[i].id = s[i].id /\ pollset'[i].item = s[i].item
                         /\ pollset'[i].reader = s[i].reader
                         /\ pollset'[i].revents = "err" => s[i].item.socket = NoSocket
  <2>1. CASE \E eintr \in BOOLEAN : zmq_poll_interrupted(eintr)
    <3>1. pollset' = s
      BY <2>1 DEF zmq_poll_interrupted
    <3>. HIDE DEF s
    <3>. QED BY <1>3, <3>1
  <2>2. CASE \E time \in now..MaxTime, ready \in [DOMAIN PollSet -> Revents] : zmq_poll(time, ready)
    <3>1. PICK ready \in [DOMAIN s -> Revents] :
              /\ \A i \in DOMAIN ready : ready[i] = "err" => s[i].item.socket = NoSocket
              /\ pollset' = [i \in DOMAIN s |-> [s[i] EXCEPT !.revents = ready[i]]]
      BY <2>2 DEF zmq_poll
    <3>. HIDE DEF s
    <3>2. DOMAIN s = 1..n /\ DOMAIN ready = 1..n
      BY <1>3, <3>1
    <3>. DEFINE e(i) == [s[i] EXCEPT !.revents = ready[i]]
    <3>3. ASSUME NEW i \in 1..n
          PROVE  /\ e(i) \in PollEntry /\ e(i).id = s[i].id /\ e(i).item = s[i].item
                 /\ e(i).reader = s[i].reader /\ e(i).revents = ready[i]
      <4>1. s[i] \in PollEntry /\ ready[i] \in Revents
        BY <1>3, <3>1, <3>2, ElementOfSeq
      <4>. QED BY <4>1 DEF PollEntry
    <3>4. pollset' = [i \in 1..n |-> e(i)]
      BY <3>1, <3>2
    <3>. HIDE DEF e
    <3>5. pollset' \in Seq(PollEntry) /\ Len(pollset') = n /\ \A i \in 1..n : pollset'[i] = e(i)
      BY <1>3, <3>3, <3>4
    <3>. QED BY <3>1, <3>2, <3>3, <3>5
  <2>. QED BY <2>1, <2>2 DEF Poll
<1>. HIDE DEF s, n
<1>5. ItemSync'
  <2>1. Synced(pollset', readers, pollers)
    BY <1>2, <1>3, <1>4, SameEntries DEF n
  <2>. QED BY <1>1, <2>1 DEF ItemSync
<1>6. ItemPlace'
  BY <1>1, <1>3, <1>4 DEF ItemInv, ItemPlace
<1>7. ItemType'
  BY <1>1, <1>2, <1>4 DEF ItemType
<1>. QED BY <1>5, <1>6, <1>7 DEF ItemInv

\* What one turn of the loop over the poll items does to the entry it looks at: its
\* events and errors change, and a poller that failed twice is ended.
LEMMA ItemTurn ==
    ASSUME ItemInv, item_step, ~(item_nbr > Len(pollset) \/ rc = -1)
    PROVE  /\ item_nbr \in 1..Len(pollset)
           /\ pollset' \in Seq(PollEntry) /\ Len(pollset') = Len(pollset)
           /\ \A i \in 1..Len(pollset) :
                 /\ pollset'[i].id = pollset[i].id /\ pollset'[i].item = pollset[i].item
                 /\ pollset'[i].reader = pollset[i].reader
                 /\ pollset'[i].revents \in {pollset[i].revents, "none"}
           /\ readers' = readers
           /\ \/ pollers' = pollers /\ need_rebuild' = need_rebuild
              \/ /\ ~pollset[item_nbr].reader
                 /\ pollset[item_nbr].item.socket = NoSocket
                 /\ pollers' = Ended(pollers, pollset[item_nbr].item)
                 /\ need_rebuild' = (need_rebuild \/ EndsSome(pollers, pollset[item_nbr].item))
                 /\ pollset'[item_nbr].revents = "none"
<1>. DEFINE k == item_nbr
            n == Len(pollset)
            entry == pollset[k]
            errors == IF Fails(entry) THEN 1 ELSE 0
            revents == IF Killed(entry) THEN "none" ELSE entry.revents
            e == [entry EXCEPT !.errors = errors, !.revents = revents]
<1>1. pollset \in Seq(PollEntry) /\ n \in Nat /\ k \in Nat \ {0}
  BY DEF ItemInv, ItemType
<1>2. k \in 1..n
  BY <1>1
<1>3. entry \in PollEntry
  BY <1>1, <1>2, ElementOfSeq
<1>4. /\ e \in PollEntry /\ e.id = entry.id /\ e.item = entry.item /\ e.reader = entry.reader
      /\ e.revents = IF Killed(entry) THEN "none" ELSE entry.revents
  <2>1. errors \in 0..1 /\ revents \in Revents
    BY <1>3 DEF PollEntry, Revents
  <2>2. revents = IF Killed(entry) THEN "none" ELSE entry.revents
    OBVIOUS
  <2>. HIDE DEF errors, revents, entry
  <2>3. /\ e \in PollEntry /\ e.id = entry.id /\ e.item = entry.item /\ e.reader = entry.reader
        /\ e.revents = revents
    BY <1>3, <2>1 DEF PollEntry
  <2>. QED BY <2>2, <2>3
<1>5. pollset' = [pollset EXCEPT ![k] = e]
  BY DEF item_step
<1>6. /\ ~Killed(entry) => UNCHANGED <<readers, pollers, need_rebuild>>
      /\ Killed(entry) => /\ readers' = IF entry.reader THEN Ended(readers, entry.item) ELSE readers
                          /\ pollers' = IF entry.reader THEN pollers ELSE Ended(pollers, entry.item)
                          /\ need_rebuild' = (need_rebuild \/
                                 EndsSome(IF entry.reader THEN readers ELSE pollers, entry.item))
  BY DEF item_step
<1>7. Killed(entry) => entry.revents = "err"
  BY DEF Killed, Fails
<1>8. entry.revents = "err" => entry.item.socket = NoSocket /\ ~entry.reader
  BY <1>2, ItemFacts DEF ItemInv, ItemPlace
<1>. HIDE DEF e, entry
<1>9. /\ pollset' \in Seq(PollEntry) /\ Len(pollset') = n /\ pollset'[k] = e
      /\ \A i \in 1..n : i # k => pollset'[i] = pollset[i]
  BY <1>1, <1>2, <1>4, <1>5
<1>10. ASSUME NEW i \in 1..n
       PROVE  /\ pollset'[i].id = pollset[i].id /\ pollset'[i].item = pollset[i].item
              /\ pollset'[i].reader = pollset[i].reader
              /\ pollset'[i].revents \in {pollset[i].revents, "none"}
  <2>1. CASE i = k
    BY <1>4, <1>9, <2>1 DEF entry
  <2>2. CASE i # k
    BY <1>9, <2>2
  <2>. QED BY <2>1, <2>2
<1>11. CASE Killed(entry)
  <2>1. entry.item.socket = NoSocket /\ ~entry.reader
    BY <1>7, <1>8, <1>11
  <2>2. /\ readers' = readers /\ pollers' = Ended(pollers, entry.item)
        /\ need_rebuild' = (need_rebuild \/ EndsSome(pollers, entry.item))
    BY <1>6, <1>11, <2>1
  <2>3. pollset'[k].revents = "none"
    BY <1>4, <1>9, <1>11
  <2>. QED BY <1>2, <1>9, <1>10, <2>1, <2>2, <2>3 DEF entry
<1>12. CASE ~Killed(entry)
  BY <1>2, <1>6, <1>9, <1>10, <1>12
<1>. QED BY <1>11, <1>12

\* Every step keeps the registrations and the poll set in step.
LEMMA ItemStep ==
    ASSUME ItemInv, [Next]_vars
    PROVE  ItemInv'
<1>1. item_nbr \in Nat \ {0} /\ item_nbr + 1 \in Nat \ {0} /\ 1 \in Nat \ {0}
  BY DEF ItemInv, ItemType
<1>2. ASSUME UNCHANGED itemVars, item_nbr' \in {item_nbr, item_nbr + 1, 1} PROVE ItemInv'
  BY <1>1, <1>2, ItemFrame
<1>3. CASE ItemCall
  BY <1>3, ReaderStep, PollerStep DEF ItemCall
<1>4. CASE TimerCall
  BY <1>2, <1>4 DEF TimerCall, zloop_timer, zloop_timer_end, zloop_set_max_timers, runVars
<1>5. CASE TicketCall
  BY <1>2, <1>5 DEF TicketCall, zloop_ticket, zloop_ticket_reset, zloop_ticket_delete,
     zloop_set_ticket_delay, runVars
<1>6. CASE (\E flag \in BOOLEAN : MayInterrupt /\ zloop_set_nonstop(flag)) \/ zloop_start \/ start_return
  BY <1>2, <1>6 DEF zloop_set_nonstop, zloop_start, start_return, runVars
<1>7. CASE Poll
  BY <1>7, PollStep
<1>8. CASE timer_step \/ ticket_step \/ sweep_step \/ zombie_step
  BY <1>2, <1>8 DEF timer_step, ticket_step, sweep_step, zombie_step, StartItems, LeaveBody
<1>9. CASE \E ret \in Returns : timer_return(ret) \/ ticket_return(ret) \/ item_return(ret)
  BY <1>2, <1>9 DEF timer_return, ticket_return, item_return
<1>10. CASE item_step
  <2>1. CASE item_nbr > Len(pollset) \/ rc = -1
    <3>1. UNCHANGED itemVars /\ item_nbr' = item_nbr
      BY <1>10, <2>1 DEF item_step, itemVars
    <3>. QED BY <1>2, <3>1
  <2>2. CASE ~(item_nbr > Len(pollset) \/ rc = -1)
    <3>1. /\ readers \in Seq(Registration) /\ pollers \in Seq(Registration) /\ regs \in Nat
          /\ pollset \in Seq(PollEntry) /\ need_rebuild \in BOOLEAN
          /\ Len(readers) \in Nat /\ Len(pollers) \in Nat
      BY DEF ItemInv, ItemType
    <3>2. /\ pollset' \in Seq(PollEntry) /\ Len(pollset') = Len(pollset) /\ readers' = readers
          /\ \A i \in 1..Len(pollset) :
                /\ pollset'[i].id = pollset[i].id /\ pollset'[i].item = pollset[i].item
                /\ pollset'[i].reader = pollset[i].reader
                /\ pollset'[i].revents \in {pollset[i].revents, "none"}
      BY <1>10, <2>2, ItemTurn
    <3>3. regs' = regs /\ item_nbr' \in {item_nbr, item_nbr + 1}
      BY <1>10, <2>2 DEF item_step
    <3>4. /\ pollers' \in Seq(Registration) /\ need_rebuild' \in BOOLEAN
          /\ \A i \in 1..Len(pollers') : pollers'[i].item \in PollItems
          /\ ~need_rebuild' => ~need_rebuild /\ pollers' = pollers
      <4>1. \A i \in 1..Len(pollers) : pollers[i].item \in PollItems
        BY DEF ItemInv, ItemPlace
      <4>2. CASE pollers' = pollers /\ need_rebuild' = need_rebuild
        BY <3>1, <4>1, <4>2
      <4>3. CASE \E item : /\ pollers' = Ended(pollers, item)
                           /\ need_rebuild' = (need_rebuild \/ EndsSome(pollers, item))
        <5>1. PICK item : /\ pollers' = Ended(pollers, item)
                          /\ need_rebuild' = (need_rebuild \/ EndsSome(pollers, item))
          BY <4>3
        <5>2. pollers' \in Seq(Registration) /\ (~EndsSome(pollers, item) => pollers' = pollers)
          BY <3>1, <5>1, EndedFacts
        <5>3. ASSUME NEW i \in 1..Len(pollers') PROVE pollers'[i].item \in PollItems
          <6>1. \E j \in 1..Len(pollers) : pollers'[i] = pollers[j]
            BY <3>1, <5>1, EndedFacts
          <6>. QED BY <4>1, <6>1
        <5>4. need_rebuild' \in BOOLEAN
          BY <5>1
        <5>5. ~need_rebuild' => ~need_rebuild /\ ~EndsSome(pollers, item)
          BY <5>1, Zenon
        <5>. QED BY <5>2, <5>3, <5>4, <5>5
      <4>. QED BY <1>10, <2>2, <4>2, <4>3, ItemTurn
    <3>5. ItemType'
      BY <1>1, <3>1, <3>2, <3>3, <3>4 DEF ItemType
    <3>6. ItemPlace'
      <4>1. ASSUME NEW i \in 1..Len(pollset)
            PROVE  /\ pollset'[i].reader => pollset'[i].item.socket \in Sockets
                   /\ ~pollset'[i].reader => pollset'[i].item \in PollItems
                   /\ pollset'[i].revents = "err" => pollset'[i].item.socket = NoSocket
        <5>1. pollset'[i].revents = "err" => pollset[i].revents = "err"
          BY <3>2
        <5>. QED BY <3>2, <5>1 DEF ItemInv, ItemPlace
      <4>2. \A i \in 1..Len(readers) : readers[i].item.socket \in Sockets
        BY DEF ItemInv, ItemPlace
      <4>. QED BY <3>2, <3>4, <4>1, <4>2 DEF ItemPlace
    <3>7. ItemSync'
      <4>1. SUFFICES ASSUME ~need_rebuild' PROVE Synced(pollset', readers, pollers)
        BY <3>2, <3>4 DEF ItemSync
      <4>2. Synced(pollset, readers, pollers)
        BY <3>4, <4>1 DEF ItemInv, ItemSync
      <4>. QED BY <3>1, <3>2, <4>2, SameEntries
    <3>. QED BY <3>5, <3>6, <3>7 DEF ItemInv
  <2>. QED BY <2>1, <2>2
<1>11. CASE zloop_destroy
  <2>1. /\ readers' = <<>> /\ pollers' = <<>> /\ pollset' = <<>>
        /\ regs' = regs /\ need_rebuild' = need_rebuild /\ item_nbr' = item_nbr
    BY <1>11 DEF zloop_destroy
  <2>2. ItemType'
    BY <2>1 DEF ItemInv, ItemType
  <2>3. ItemPlace' /\ ItemSync'
    BY <2>1 DEF ItemPlace, ItemSync, Synced
  <2>. QED BY <2>2, <2>3 DEF ItemInv
<1>12. CASE s_signal_handler \/ Tick
  BY <1>2, <1>12 DEF s_signal_handler, Tick, runVars
<1>13. CASE UNCHANGED vars
  BY <1>2, <1>13 DEF vars, runVars
<1>. QED
  BY <1>3, <1>4, <1>5, <1>6, <1>7, <1>8, <1>9, <1>10, <1>11, <1>12, <1>13 DEF Next, Pass

\* Nothing is registered at first.
LEMMA ItemInit == Init => ItemInv
<1>1. SUFFICES ASSUME Init PROVE ItemInv
  OBVIOUS
<1>2. /\ readers = <<>> /\ pollers = <<>> /\ pollset = <<>> /\ regs = 0 /\ need_rebuild = FALSE
      /\ item_nbr = 1
  BY <1>1 DEF Init
<1>3. ItemType
  <2>1. readers \in Seq(Registration) /\ pollers \in Seq(Registration)
    BY <1>2
  <2>2. pollset \in Seq(PollEntry)
    BY <1>2
  <2>3. regs \in Nat /\ item_nbr \in Nat \ {0}
    BY <1>2
  <2>4. need_rebuild \in BOOLEAN
    BY <1>2
  <2>. QED BY <2>1, <2>2, <2>3, <2>4 DEF ItemType
<1>4. ItemPlace /\ ItemSync
  BY <1>2 DEF ItemPlace, ItemSync, Synced
<1>. QED BY <1>3, <1>4 DEF ItemInv

\* While need_rebuild is off the poll set holds exactly the registered readers and
\* pollers, in their order, for any sockets and descriptors and whatever the
\* application and the handlers register, end and make tolerant at any moment.
THEOREM PollsetStaysInSync == Spec => []PollsetInSync
<1>1. ItemInv => PollsetInSync
  <2>1. SUFFICES ASSUME ItemInv, ~need_rebuild
                 PROVE  /\ Len(pollset) = Len(readers) + Len(pollers)
                        /\ \A i \in DOMAIN pollset : pollset[i].id = s_rebuild_pollset[i].id
    BY DEF PollsetInSync
  <2>. DEFINE m == Len(readers)
              n == Len(pollers)
              s == s_rebuild_pollset
  <2>2. Synced(pollset, readers, pollers) /\ Synced(s, readers, pollers)
    BY <2>1, RebuildFacts DEF ItemInv, ItemSync
  <2>3. m \in Nat /\ n \in Nat /\ DOMAIN pollset = 1..Len(pollset) /\ Len(pollset) = m + n
    BY <2>1, <2>2 DEF ItemInv, ItemType, Synced
  <2>. HIDE DEF s
  <2>4. ASSUME NEW i \in 1..(m + n) PROVE pollset[i].id = s[i].id
    <3>1. CASE i \in 1..m
      BY <2>2, <3>1 DEF Synced
    <3>2. CASE i \notin 1..m
      <4>1. i - m \in 1..n /\ m + (i - m) = i
        BY <2>3, <3>2
      <4>2. pollset[m + (i - m)].id = pollers[i - m].id /\ s[m + (i - m)].id = pollers[i - m].id
        BY <2>2, <4>1 DEF Synced
      <4>. QED BY <4>1, <4>2
    <3>. QED BY <3>1, <3>2
  <2>. QED BY <2>3, <2>4 DEF s
<1>. QED BY <1>1, ItemInit, ItemStep, PTL DEF Spec

-----------------------------------------------------------------------------
(* Every handler called is registered.  The walk goes over the entries of the *)
(* poll set while an item that fails ends registrations; an entry still ahead *)
(* of the walk stands for a registration because no two pollers registered    *)
(* poll the same item, and a descriptor ends no poller of a socket.           *)

\* A reader's or poller's entry of the poll set is still registered.
Standing(entry, reads, polls) ==
    IF entry.reader THEN \E k \in 1..Len(reads) : reads[k].id = entry.id
                    ELSE \E k \in 1..Len(polls) : /\ polls[k].id = entry.id
                                                  /\ polls[k].item = entry.item

OneEach(list) ==
    \A i, j \in 1..Len(list) : list[i].item = list[j].item => i = j

OnePollerEach(set) ==
    \A i, j \in 1..Len(set) :
        ~set[i].reader /\ ~set[j].reader /\ set[i].item = set[j].item => i = j

WalkInv ==
    /\ OneEach(pollers) /\ OnePollerEach(pollset)
    /\ phase = "items" =>
          \A i \in 1..Len(pollset) : i >= item_nbr => Standing(pollset[i], readers, pollers)

\* A poll set in step with the registrations holds only entries that stand, and
\* no item twice if the pollers hold none twice.
LEMMA SyncedStands ==
    ASSUME NEW set, NEW reads, NEW polls, Synced(set, reads, polls),
           Len(reads) \in Nat, Len(polls) \in Nat
    PROVE  /\ \A i \in 1..Len(set) : Standing(set[i], reads, polls)
           /\ OneEach(polls) => OnePollerEach(set)
<1>. DEFINE m == Len(reads)
            n == Len(polls)
<1>1. Len(set) = m + n
  BY DEF Synced
<1>2. ASSUME NEW i \in 1..Len(set), i \notin 1..m
      PROVE  /\ i - m \in 1..n /\ ~set[i].reader
             /\ polls[i - m].id = set[i].id /\ polls[i - m].item = set[i].item
  <2>1. i - m \in 1..n /\ m + (i - m) = i
    BY <1>1, <1>2
  <2>2. /\ set[m + (i - m)].id = polls[i - m].id /\ set[m + (i - m)].item = polls[i - m].item
        /\ ~set[m + (i - m)].reader
    BY <2>1 DEF Synced
  <2>. QED BY <2>1, <2>2
<1>3. ASSUME NEW i \in 1..Len(set) PROVE Standing(set[i], reads, polls)
  <2>1. CASE i \in 1..m
    <3>1. set[i].reader /\ reads[i].id = set[i].id
      BY <2>1 DEF Synced
    <3>. QED BY <2>1, <3>1 DEF Standing
  <2>2. CASE i \notin 1..m
    BY <1>2, <2>2 DEF Standing
  <2>. QED BY <2>1, <2>2
<1>4. ASSUME OneEach(polls) PROVE OnePollerEach(set)
  <2>1. SUFFICES ASSUME NEW i \in 1..Len(set), NEW j \in 1..Len(set), ~set[i].reader,
                        ~set[j].reader, set[i].item = set[j].item
                 PROVE  i = j
    BY DEF OnePollerEach
  <2>2. i \notin 1..m /\ j \notin 1..m
    BY <2>1 DEF Synced
  <2>3. i - m \in 1..n /\ j - m \in 1..n /\ polls[i - m].item = polls[j - m].item
    BY <1>2, <2>1, <2>2
  <2>4. i - m = j - m
    BY <1>4, <2>3 DEF OneEach
  <2>. QED BY <1>1, <2>1, <2>4
<1>. QED BY <1>3, <1>4

\* Ending registrations leaves no item twice.
LEMMA EndedOneEach ==
    ASSUME NEW S, NEW list \in Seq(S), NEW item, OneEach(list)
    PROVE  OneEach(Ended(list, item))
<1>. DEFINE E == Ended(list, item)
<1>1. \A k \in 1..Len(E) : \E i \in 1..Len(list) :
         E[k] = list[i] /\ Cardinality(Below(Kept(list, item), i)) = k - 1
  BY EndedFacts
<1>2. ASSUME NEW a \in 1..Len(E), NEW b \in 1..Len(E), E[a].item = E[b].item PROVE a = b
  <2>1. PICK i \in 1..Len(list) :
           E[a] = list[i] /\ Cardinality(Below(Kept(list, item), i)) = a - 1
    BY <1>1
  <2>2. PICK j \in 1..Len(list) :
           E[b] = list[j] /\ Cardinality(Below(Kept(list, item), j)) = b - 1
    BY <1>1
  <2>3. i = j
    BY <1>2, <2>1, <2>2 DEF OneEach
  <2>4. a - 1 = b - 1
    BY <2>1, <2>2, <2>3
  <2>5. a \in Int /\ b \in Int
    OBVIOUS
  <2>. QED BY <2>4, <2>5
<1>. QED BY <1>2 DEF OneEach

\* A new poller registers an item that no poller polls.
LEMMA AppendOneEach ==
    ASSUME NEW S, NEW list \in Seq(S), NEW reg \in S, OneEach(list),
           \A i \in 1..Len(list) : list[i].item # reg.item
    PROVE  OneEach(Append(list, reg))
<1>. DEFINE n == Len(list)
            L == Append(list, reg)
<1>1. n \in Nat /\ Len(L) = n + 1 /\ L[n + 1] = reg /\ \A i \in 1..n : L[i] = list[i]
  OBVIOUS
<1>2. \A i \in 1..(n + 1) : i \in 1..n \/ i = n + 1
  BY <1>1
<1>. HIDE DEF L
<1>. QED BY <1>1, <1>2 DEF OneEach

\* A step that leaves the registrations and the poll set alone, and enters or
\* goes on with the walk only where the poll set is in step.
LEMMA WalkFrame ==
    ASSUME ItemInv, WalkInv, UNCHANGED itemVars,
           \/ phase' # "items"
           \/ phase' = phase /\ item_nbr' = item_nbr
           \/ phase' = "items" /\ ~need_rebuild
    PROVE  WalkInv'
<1>1. /\ pollers' = pollers /\ readers' = readers /\ pollset' = pollset
      /\ Len(readers) \in Nat /\ Len(pollers) \in Nat
  BY DEF itemVars, ItemInv, ItemType
<1>2. OneEach(pollers') /\ OnePollerEach(pollset')
  BY <1>1 DEF WalkInv
<1>3. CASE phase' # "items"
  BY <1>2, <1>3 DEF WalkInv
<1>4. CASE phase' = phase /\ item_nbr' = item_nbr
  BY <1>1, <1>2, <1>4 DEF WalkInv
<1>5. CASE phase' = "items" /\ ~need_rebuild
  <2>1. Synced(pollset, readers, pollers)
    BY <1>5 DEF ItemInv, ItemSync
  <2>2. \A i \in 1..Len(pollset) : Standing(pollset[i], readers, pollers)
    BY <1>1, <2>1, SyncedStands
  <2>. QED BY <1>1, <1>2, <2>2 DEF WalkInv
<1>. QED BY <1>3, <1>4, <1>5

\* Handlers and the application register no item twice.
LEMMA WalkCall ==
    ASSUME ItemInv, WalkInv, ItemCall, ~MayRepeat
    PROVE  WalkInv'
<1>1. /\ phase' = phase /\ phase # "items" /\ pollset' = pollset
  BY DEF ItemCall, zloop_reader, zloop_reader_end, zloop_reader_set_tolerant, zloop_poller,
     zloop_poller_end, zloop_poller_set_tolerant, CanCall, Handlers, runVars
<1>2. pollers \in Seq(Registration) /\ regs \in Nat /\ OneEach(pollers)
  BY DEF ItemInv, ItemType, WalkInv
<1>3. OneEach(pollers')
  <2>1. CASE \E sock \in Sockets : \/ zloop_reader(sock) \/ zloop_reader_end(sock)
                                   \/ zloop_reader_set_tolerant(sock)
    <3>1. pollers' = pollers
      BY <2>1 DEF zloop_reader, zloop_reader_end, zloop_reader_set_tolerant
    <3>. QED BY <1>2, <3>1
  <2>2. ASSUME NEW item \in PollItems, zloop_poller(item) PROVE OneEach(pollers')
    <3>1. /\ pollers' = Append(pollers, NewReg(item)) /\ item \notin Registered(pollers)
          /\ regs < MaxRegs
      BY <2>2 DEF zloop_poller
    <3>2. NewReg(item) \in Registration /\ NewReg(item).item = item
      <4>1. regs + 1 \in 1..MaxRegs
        BY <1>2, <3>1, BoundAssumption
      <4>. QED BY <4>1, ItemFacts DEF NewReg, Registration
    <3>3. \A i \in 1..Len(pollers) : pollers[i].item # NewReg(item).item
      BY <1>2, <3>1, <3>2 DEF Registered
    <3>. QED BY <1>2, <3>1, <3>2, <3>3, AppendOneEach
  <2>3. ASSUME NEW item \in PollItems, zloop_poller_end(item) PROVE OneEach(pollers')
    <3>1. pollers' = Ended(pollers, item)
      BY <2>3 DEF zloop_poller_end
    <3>. QED BY <1>2, <3>1, EndedOneEach
  <2>4. ASSUME NEW item \in PollItems, zloop_poller_set_tolerant(item) PROVE OneEach(pollers')
    <3>1. pollers' = MadeTolerant(pollers, item)
      BY <2>4 DEF zloop_poller_set_tolerant
    <3>2. /\ Len(pollers') = Len(pollers)
          /\ \A i \in 1..Len(pollers) : pollers'[i].item = pollers[i].item
      BY <1>2, <3>1, TolerantFacts
    <3>. QED BY <1>2, <3>2 DEF OneEach
  <2>. QED BY <2>1, <2>2, <2>3, <2>4 DEF ItemCall
<1>. QED BY <1>1, <1>3 DEF WalkInv

\* A descriptor that fails ends only its own registration.
LEMMA KillsOwn ==
    ASSUME PolledSockets = {} \/ 0 \notin Fds,
           NEW item \in PollItems, item.socket = NoSocket,
           NEW other \in PollItems, Matches(item, other)
    PROVE  other = item
<1>1. PICK f \in Fds : item = [socket |-> NoSocket, fd |-> f]
  BY ItemFacts, ItemAssumption DEF PollItems, ReaderItem
<1>2. other.fd = f
  BY <1>1 DEF Matches
<1>3. CASE \E s \in PolledSockets : other = ReaderItem(s)
  BY <1>2, <1>3 DEF ReaderItem
<1>4. CASE \E g \in Fds : other = [socket |-> NoSocket, fd |-> g]
  BY <1>1, <1>2, <1>4
<1>. QED BY <1>3, <1>4 DEF PollItems

\* The turn of one poll item keeps what is ahead of the walk registered.
LEMMA WalkTurn ==
    ASSUME ItemInv, WalkInv, item_step, PolledSockets = {} \/ 0 \notin Fds
    PROVE  WalkInv'
<1>1. CASE item_nbr > Len(pollset) \/ rc = -1
  <2>1. UNCHANGED itemVars /\ phase' = "zombies"
    BY <1>1 DEF item_step, itemVars
  <2>. QED BY <2>1, WalkFrame
<1>2. CASE ~(item_nbr > Len(pollset) \/ rc = -1)
  <2>1. /\ item_nbr \in 1..Len(pollset) /\ Len(pollset') = Len(pollset) /\ readers' = readers
        /\ \A i \in 1..Len(pollset) :
              /\ pollset'[i].id = pollset[i].id /\ pollset'[i].item = pollset[i].item
              /\ pollset'[i].reader = pollset[i].reader
    BY <1>2, ItemTurn
  <2>2. /\ phase = "items" /\ item_nbr' \in {item_nbr, item_nbr + 1}
        /\ phase' = "items" => item_nbr' = item_nbr + 1
    BY <1>2 DEF item_step
  <2>3. /\ pollers \in Seq(Registration) /\ Len(pollset) \in Nat
        /\ OneEach(pollers) /\ OnePollerEach(pollset)
        /\ \A i \in 1..Len(pollset) : i >= item_nbr => Standing(pollset[i], readers, pollers)
    BY <2>2 DEF ItemInv, ItemType, WalkInv
  <2>4. OnePollerEach(pollset')
    BY <2>1, <2>3 DEF OnePollerEach
  <2>a. \A i \in 1..Len(pollset) : i >= item_nbr + 1 => i >= item_nbr /\ i # item_nbr
    BY <2>1, <2>3
  <2>b. \A i \in 1..Len(pollset) :
           i >= item_nbr + 1 => Standing(pollset[i], readers, pollers) /\ i # item_nbr
    BY <2>3, <2>a, Zenon
  <2>5. SUFFICES /\ OneEach(pollers')
                 /\ \A i \in 1..Len(pollset) :
                       i >= item_nbr + 1 => Standing(pollset[i], readers, pollers')
    <3>1. \A i \in 1..Len(pollset) :
             Standing(pollset[i], readers, pollers') => Standing(pollset'[i], readers', pollers')
      BY <2>1 DEF Standing
    <3>. QED BY <2>1, <2>2, <2>4, <2>5, <3>1 DEF WalkInv
  <2>6. CASE pollers' = pollers
    BY <2>3, <2>b, <2>6
  <2>. DEFINE item == pollset[item_nbr].item
  <2>7. CASE /\ ~pollset[item_nbr].reader /\ item.socket = NoSocket
             /\ pollers' = Ended(pollers, item)
    <3>1. OneEach(pollers')
      BY <2>3, <2>7, EndedOneEach
    <3>2. /\ item \in PollItems
          /\ \A k \in 1..Len(pollers) : pollers[k].item \in PollItems
      BY <2>1, <2>7 DEF ItemInv, ItemPlace
    <3>3. ASSUME NEW i \in 1..Len(pollset), i >= item_nbr + 1
          PROVE  Standing(pollset[i], readers, pollers')
      <4>1. Standing(pollset[i], readers, pollers) /\ i # item_nbr
        BY <2>b, <3>3, Zenon
      <4>2. CASE pollset[i].reader
        BY <4>1, <4>2 DEF Standing
      <4>3. CASE ~pollset[i].reader
        <5>1. PICK k \in 1..Len(pollers) :
                 pollers[k].id = pollset[i].id /\ pollers[k].item = pollset[i].item
          BY <4>1, <4>3 DEF Standing
        <5>2. pollset[i].item # item
          BY <2>1, <2>3, <2>7, <4>1, <4>3 DEF OnePollerEach
        <5>3. ~Matches(item, pollers[k].item)
          BY <2>7, <3>2, <5>1, <5>2, KillsOwn
        <5>4. \E n \in 1..Len(pollers') : pollers'[n] = pollers[k]
          BY <2>3, <2>7, <5>3, EndedFacts
        <5>. QED BY <4>3, <5>1, <5>4 DEF Standing
      <4>. QED BY <4>2, <4>3
    <3>. QED BY <3>1, <3>3
  <2>. QED BY <1>2, <2>6, <2>7, ItemTurn
<1>. QED BY <1>1, <1>2

\* Every step of the reactor keeps what is ahead of the walk registered.
LEMMA WalkStep ==
    ASSUME ItemInv, WalkInv, [Next]_vars, ~MayRepeat, PolledSockets = {} \/ 0 \notin Fds
    PROVE  WalkInv'
<1>1. CASE ItemCall
  BY <1>1, WalkCall
<1>2. CASE TimerCall
  BY <1>2, WalkFrame DEF TimerCall, zloop_timer, zloop_timer_end, zloop_set_max_timers, runVars
<1>3. CASE TicketCall
  BY <1>3, WalkFrame DEF TicketCall, zloop_ticket, zloop_ticket_reset, zloop_ticket_delete,
     zloop_set_ticket_delay, runVars
<1>4. CASE (\E flag \in BOOLEAN : MayInterrupt /\ zloop_set_nonstop(flag)) \/ zloop_start \/ start_return
  BY <1>4, WalkFrame DEF zloop_set_nonstop, zloop_start, start_return, runVars
<1>5. CASE Poll
  <2>1. /\ pollers' = pollers /\ readers' = readers /\ ~need_rebuild' /\ phase' # "items"
    BY <1>5 DEF Poll, zmq_poll, zmq_poll_interrupted
  <2>2. Synced(pollset', readers', pollers')
    BY <1>5, <2>1, PollStep DEF ItemInv, ItemSync
  <2>3. Len(readers') \in Nat /\ Len(pollers') \in Nat /\ OneEach(pollers')
    BY <2>1 DEF ItemInv, ItemType, WalkInv
  <2>4. OnePollerEach(pollset')
    BY <2>2, <2>3, SyncedStands
  <2>. QED BY <2>1, <2>3, <2>4 DEF WalkInv
<1>6. CASE timer_step \/ ticket_step \/ sweep_step \/ zombie_step
  BY <1>6, WalkFrame DEF timer_step, ticket_step, sweep_step, zombie_step, StartItems, StartTickets,
     LeaveBody
<1>7. CASE \E ret \in Returns : timer_return(ret) \/ ticket_return(ret) \/ item_return(ret)
  BY <1>7, WalkFrame DEF timer_return, ticket_return, item_return, StartTickets
<1>8. CASE item_step
  BY <1>8, WalkTurn
<1>9. CASE zloop_destroy
  <2>1. pollers' = <<>> /\ pollset' = <<>>
    BY <1>9 DEF zloop_destroy
  <2>2. 1..Len(pollers') = {} /\ 1..Len(pollset') = {}
    BY <2>1
  <2>. QED BY <2>2 DEF WalkInv, OneEach, OnePollerEach
<1>10. CASE s_signal_handler \/ Tick
  BY <1>10, WalkFrame DEF s_signal_handler, Tick, runVars
<1>11. CASE UNCHANGED vars
  BY <1>11, WalkFrame DEF vars, runVars
<1>. QED
  BY <1>1, <1>2, <1>3, <1>4, <1>5, <1>6, <1>7, <1>8, <1>9, <1>10, <1>11 DEF Next, Pass

\* The handler of a reader or poller is called only while it is registered, as
\* long as no item is registered twice and no poller of descriptor 0 stands beside
\* pollers of sockets, whose items hold descriptor 0: zloop_poller_end goes by the
\* descriptor alone (zloop.c:495), so these would end together.
THEOREM OnlyRegisteredCalled ==
    ASSUME ~MayRepeat, PolledSockets = {} \/ 0 \notin Fds
    PROVE  Spec => CallsRegistered
<1>. DEFINE I == ItemInv /\ WalkInv
            A == phase # "item_handler" /\ phase' = "item_handler" =>
                    pollset[item_nbr].id \in Ids(readers) \cup Ids(pollers)
<1>1. Init => I
  <2>1. Init => WalkInv
    BY DEF Init, WalkInv, OneEach, OnePollerEach
  <2>. QED BY <2>1, ItemInit
<1>2. I /\ [Next]_vars => I'
  BY ItemStep, WalkStep
<1>3. I /\ [Next]_vars => [A]_vars
  <2>1. SUFFICES ASSUME I, Next, phase # "item_handler", phase' = "item_handler"
                 PROVE  pollset[item_nbr].id \in Ids(readers) \cup Ids(pollers)
    OBVIOUS
  <2>2. item_step
    <3>1. CASE ItemCall
      BY <2>1, <3>1 DEF ItemCall, zloop_reader, zloop_reader_end, zloop_reader_set_tolerant,
         zloop_poller, zloop_poller_end, zloop_poller_set_tolerant, runVars
    <3>2. CASE TimerCall
      BY <2>1, <3>2 DEF TimerCall, zloop_timer, zloop_timer_end, zloop_set_max_timers, runVars
    <3>3. CASE TicketCall
      BY <2>1, <3>3 DEF TicketCall, zloop_ticket, zloop_ticket_reset, zloop_ticket_delete,
         zloop_set_ticket_delay, runVars
    <3>4. CASE (\E flag \in BOOLEAN : MayInterrupt /\ zloop_set_nonstop(flag)) \/ zloop_start
               \/ start_return
      BY <2>1, <3>4 DEF zloop_set_nonstop, zloop_start, start_return, runVars
    <3>5. CASE Poll
      BY <2>1, <3>5 DEF Poll, zmq_poll, zmq_poll_interrupted
    <3>6. CASE timer_step \/ ticket_step \/ sweep_step \/ zombie_step
      BY <2>1, <3>6 DEF timer_step, ticket_step, sweep_step, zombie_step, StartItems, StartTickets,
         LeaveBody
    <3>7. CASE \E ret \in Returns : timer_return(ret) \/ ticket_return(ret) \/ item_return(ret)
      BY <2>1, <3>7 DEF timer_return, ticket_return, item_return, StartTickets
    <3>8. CASE zloop_destroy \/ s_signal_handler \/ Tick
      BY <2>1, <3>8 DEF zloop_destroy, s_signal_handler, Tick, runVars
    <3>. QED BY <2>1, <3>1, <3>2, <3>3, <3>4, <3>5, <3>6, <3>7, <3>8 DEF Next, Pass
  <2>3. phase = "items" /\ ~(item_nbr > Len(pollset) \/ rc = -1)
    BY <2>1, <2>2 DEF item_step
  <2>4. /\ item_nbr \in 1..Len(pollset)
        /\ readers \in Seq(Registration) /\ pollers \in Seq(Registration)
    BY <2>1, <2>2, <2>3, ItemTurn DEF ItemInv, ItemType
  <2>5. Standing(pollset[item_nbr], readers, pollers)
    BY <2>1, <2>3, <2>4 DEF WalkInv
  <2>. QED BY <2>4, <2>5 DEF Standing, Ids
<1>. HIDE DEF I
<1>. QED BY <1>1, <1>2, <1>3, PTL DEF Spec, CallsRegistered
=============================================================================
