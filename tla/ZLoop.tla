------------------------------- MODULE ZLoop -------------------------------
(***************************************************************************)
(* The reactor (src/src/zloop.c): one thread that polls sockets and file   *)
(* descriptors, runs timers and tickets, and calls handlers, which may     *)
(* themselves call every function of the reactor while it is in the middle *)
(* of walking its lists.                                                   *)
(*                                                                         *)
(* `phase` is the place where zloop_start stands, and a handler that is    *)
(* being called is a phase of its own, during which the actions for the    *)
(* API calls are enabled, as they are while the reactor does not run.      *)
(* `current` is the local variable `timer` or `ticket` of zloop_start,     *)
(* which is not the cursor of the list: a call made by the handler may     *)
(* move that.  Timers, tickets and registrations are numbered as they are  *)
(* created and a number is never used again; for timers it is timer_id.    *)
(***************************************************************************)
EXTENDS ZListxOps, FiniteSets

CONSTANTS
    Sockets,        \* the sockets an application registers
    PolledSockets, Fds, \* the sockets and file descriptors given to zloop_poller
    NoSocket,       \* a poll item's NULL socket
    MaxRegs,        \* bound: registrations ever made
    MaxTimers,      \* bound: timers ever created
    MaxTickets,     \* bound: tickets ever created
    MaxTime,        \* bound: the clock stops here
    MaxZombies,     \* bound: cancellations waiting
    TimerDelays,    \* delays given to zloop_timer
    TimerTimes,     \* repeat counts given to zloop_timer, 0 for ever
    TicketDelays,   \* delays given to zloop_set_ticket_delay
    TimerLimits,    \* limits given to zloop_set_max_timers
    TicklessMax,    \* the longest sleep of zmq_poll
    MayStop,        \* handlers may return -1
    MayInterrupt,   \* the process may be interrupted
    MayRepeat       \* a socket or item may be registered more than once

ASSUME BoundAssumption ==
    /\ MaxRegs \in Nat /\ MaxTimers \in Nat /\ MaxTickets \in Nat
    /\ MaxTime \in Nat /\ MaxZombies \in Nat /\ TicklessMax \in Nat

ASSUME DelayAssumption ==
    /\ TimerDelays \subseteq Nat /\ TimerTimes \subseteq Nat
    /\ TicketDelays \subseteq Nat \ {0} /\ TimerLimits \subseteq Nat

ASSUME ItemAssumption ==
    NoSocket \notin Sockets /\ PolledSockets \subseteq Sockets /\ Fds \subseteq Nat

ASSUME FlagAssumption ==
    /\ MayStop \in BOOLEAN /\ MayInterrupt \in BOOLEAN /\ MayRepeat \in BOOLEAN

VARIABLES
    readers, pollers,       \* sequences of registrations
    pollset,                \* pollset, readact and pollact, as of the last rebuild
    regs,                   \* number of registrations made
    need_rebuild,
    timers, timer,          \* the list of timer ids, and the timer records
    last_timer_id, max_timers,
    zombies,                \* timer ids to cancel
    tickets, ticket,        \* the list of tickets, and the ticket records
    last_ticket, ticket_delay,
    terminated, nonstop,
    interrupted,            \* zsys_interrupted
    now,                    \* zclock_mono
    time_now,               \* the copy zloop_start takes after polling
    phase, current, item_nbr, rc,
    \* History, read by the properties only:
    stopped,                \* a handler returned -1 in this zloop_start
    cancelled,              \* timers given to zloop_timer_end
    fired                   \* per timer: runs asked for, and handler calls made of those

itemVars   == <<readers, pollers, pollset, regs, need_rebuild>>
timerVars  == <<timers, timer, last_timer_id, max_timers, zombies, cancelled, fired>>
ticketVars == <<tickets, ticket, last_ticket, ticket_delay>>
flagVars   == <<terminated, nonstop, interrupted>>
runVars    == <<time_now, phase, current, item_nbr, rc, stopped>>
vars == <<itemVars, timerVars, ticketVars, flagVars, now, runVars>>

Handlers == {"timer_handler", "ticket_handler", "item_handler"}
Revents  == {"none", "in", "err"}

\* A reader polls its socket for input: { socket, 0, ZMQ_POLLIN, 0 }.
ReaderItem(sock) == [socket |-> sock, fd |-> 0]
\* The zmq_pollitem_t records an application polls.
PollItems == {ReaderItem(s) : s \in PolledSockets} \cup {[socket |-> NoSocket, fd |-> f] : f \in Fds}
Items == PollItems \cup {ReaderItem(s) : s \in Sockets}
Registration == [id : 1..MaxRegs, item : Items, tolerant : BOOLEAN]
PollEntry == [id : 1..MaxRegs, item : Items, tolerant : BOOLEAN,
              reader : BOOLEAN, errors : 0..1, revents : Revents]

Init ==
    /\ readers = <<>> /\ pollers = <<>> /\ pollset = <<>> /\ regs = 0
    /\ need_rebuild = FALSE
    /\ timers = EmptyList /\ timer = <<>> /\ last_timer_id = 0 /\ max_timers = 0
    /\ zombies = <<>>
    /\ tickets = EmptyList /\ ticket = <<>> /\ last_ticket = 0 /\ ticket_delay = 0
    /\ terminated = FALSE /\ nonstop = FALSE /\ interrupted = FALSE
    /\ now = 0 /\ time_now = 0
    /\ phase = "idle" /\ current = NoNode /\ item_nbr = 1 /\ rc = 0
    /\ stopped = FALSE /\ cancelled = {} /\ fired = <<>>

-----------------------------------------------------------------------------
(* The API: called while the reactor does not run, or from a handler.      *)

CanCall == phase \in Handlers \cup {"idle"}

Registered(list) == {list[i].item : i \in DOMAIN list}
Ids(list) == {list[i].id : i \in DOMAIN list}

\* The item matches by socket if it has one, and by file descriptor if not.
Matches(item, registered) ==
    IF item.socket # NoSocket THEN item.socket = registered.socket
                              ELSE item.fd = registered.fd

NewReg(item) == [id |-> regs + 1, item |-> item, tolerant |-> FALSE]

mut_no_rebuild(list, item) == FALSE

\* The list without the registrations that match, in order, and whether it lost any.
Kept(list, item) == {i \in DOMAIN list : ~Matches(item, list[i].item)}
Ended(list, item) ==
    LET nth(k) == CHOOSE i \in Kept(list, item) :
                      Cardinality({j \in Kept(list, item) : j < i}) = k - 1
    IN  [k \in 1..Cardinality(Kept(list, item)) |-> list[nth(k)]]
EndsSome(list, item) == \E i \in DOMAIN list : Matches(item, list[i].item)

MadeTolerant(list, item) ==
    [i \in DOMAIN list |-> IF Matches(item, list[i].item)
                           THEN [list[i] EXCEPT !.tolerant = TRUE] ELSE list[i]]

zloop_reader(sock) ==
    /\ CanCall
    /\ regs < MaxRegs
    /\ MayRepeat \/ ReaderItem(sock) \notin Registered(readers)
    /\ readers' = Append(readers, NewReg(ReaderItem(sock)))
    /\ regs' = regs + 1
    /\ need_rebuild' = TRUE
    /\ UNCHANGED <<pollers, pollset, timerVars, ticketVars, flagVars, now, runVars>>

zloop_reader_end(sock) ==
    /\ CanCall
    /\ readers' = Ended(readers, ReaderItem(sock))
    /\ need_rebuild' = (need_rebuild \/ EndsSome(readers, ReaderItem(sock)))
    /\ UNCHANGED <<pollers, pollset, regs, timerVars, ticketVars, flagVars, now, runVars>>

zloop_reader_set_tolerant(sock) ==
    /\ CanCall
    /\ readers' = MadeTolerant(readers, ReaderItem(sock))
    /\ UNCHANGED <<pollers, pollset, regs, need_rebuild,
                   timerVars, ticketVars, flagVars, now, runVars>>

zloop_poller(item) ==
    /\ CanCall
    /\ regs < MaxRegs
    /\ MayRepeat \/ item \notin Registered(pollers)
    /\ pollers' = Append(pollers, NewReg(item))
    /\ regs' = regs + 1
    /\ need_rebuild' = TRUE
    /\ UNCHANGED <<readers, pollset, timerVars, ticketVars, flagVars, now, runVars>>

zloop_poller_end(item) ==
    /\ CanCall
    /\ pollers' = Ended(pollers, item)
    /\ need_rebuild' = (need_rebuild \/ EndsSome(pollers, item))
    /\ UNCHANGED <<readers, pollset, regs, timerVars, ticketVars, flagVars, now, runVars>>

zloop_poller_set_tolerant(item) ==
    /\ CanCall
    /\ pollers' = MadeTolerant(pollers, item)
    /\ UNCHANGED <<readers, pollset, regs, need_rebuild,
                   timerVars, ticketVars, flagVars, now, runVars>>

s_timer_new(delay, times) == [delay |-> delay, times |-> times, when |-> now + delay]

\* At the limit zloop_timer returns -1 and leaves everything alone.
zloop_timer(delay, times) ==
    /\ CanCall
    /\ last_timer_id < MaxTimers
    /\ ~(max_timers # 0 /\ Len(timers.seq) = max_timers)
    /\ last_timer_id' = last_timer_id + 1
    /\ timer' = Append(timer, s_timer_new(delay, times))
    /\ timers' = add_end(timers, last_timer_id')
    /\ fired' = Append(fired, [asked |-> times, called |-> 0])
    /\ UNCHANGED <<max_timers, zombies, cancelled, itemVars, ticketVars, flagVars, now, runVars>>

mut_remove_first(list, timer_id) ==
    IF timer_id \in Nodes(list) THEN detach(first(list), first(list).cur)
                                ELSE [list EXCEPT !.cur = NoNode]

\* The search leaves the cursor before the timer removed, at the head if none.
s_timer_remove(list, timer_id) ==
    IF timer_id \in Nodes(list) THEN detach([list EXCEPT !.cur = timer_id], timer_id)
                                ELSE [list EXCEPT !.cur = NoNode]

zloop_timer_end(timer_id) ==
    /\ CanCall
    /\ IF terminated
       THEN timers' = s_timer_remove(timers, timer_id) /\ UNCHANGED zombies
       ELSE /\ Len(zombies) < MaxZombies
            /\ zombies' = Append(zombies, timer_id) /\ UNCHANGED timers
    /\ cancelled' = cancelled \cup {timer_id}
    /\ UNCHANGED <<timer, last_timer_id, max_timers, fired,
                   itemVars, ticketVars, flagVars, now, runVars>>

zloop_set_max_timers(limit) ==
    /\ CanCall
    /\ max_timers' = limit
    /\ UNCHANGED <<timers, timer, last_timer_id, zombies, cancelled, fired,
                   itemVars, ticketVars, flagVars, now, runVars>>

s_ticket_new == [delay |-> ticket_delay, when |-> now + ticket_delay, deleted |-> FALSE]

zloop_ticket ==
    /\ CanCall
    /\ ticket_delay > 0
    /\ last_ticket < MaxTickets
    /\ last_ticket' = last_ticket + 1
    /\ ticket' = Append(ticket, s_ticket_new)
    /\ tickets' = add_end(tickets, last_ticket')
    /\ UNCHANGED <<ticket_delay, itemVars, timerVars, flagVars, now, runVars>>

\* A handle the application holds: a ticket on the list that it has not deleted.
LiveTickets == {t \in Nodes(tickets) : ~ticket[t].deleted}

mut_reset_in_place(handle) ==
    /\ CanCall
    /\ handle \in LiveTickets
    /\ ticket' = [ticket EXCEPT ![handle].when = now + ticket[handle].delay]
    /\ UNCHANGED <<tickets, last_ticket, ticket_delay, itemVars, timerVars, flagVars, now, runVars>>

zloop_ticket_reset(handle) ==
    /\ CanCall
    /\ handle \in LiveTickets
    /\ ticket' = [ticket EXCEPT ![handle].when = now + ticket[handle].delay]
    /\ tickets' = move_end(tickets, handle)
    /\ UNCHANGED <<last_ticket, ticket_delay, itemVars, timerVars, flagVars, now, runVars>>

zloop_ticket_delete(handle) ==
    /\ CanCall
    /\ handle \in LiveTickets
    /\ ticket' = [ticket EXCEPT ![handle].deleted = TRUE]
    /\ tickets' = move_end(tickets, handle)
    /\ UNCHANGED <<last_ticket, ticket_delay, itemVars, timerVars, flagVars, now, runVars>>

\* Lowering the delay while there are tickets is documented as undefined, and no
\* application does it.
zloop_set_ticket_delay(delay) ==
    /\ CanCall
    /\ delay >= ticket_delay \/ tickets.seq = <<>>
    /\ ticket_delay' = delay
    /\ UNCHANGED <<tickets, ticket, last_ticket, itemVars, timerVars, flagVars, now, runVars>>

zloop_set_nonstop(flag) ==
    /\ CanCall
    /\ nonstop' = flag
    /\ UNCHANGED <<terminated, interrupted, itemVars, timerVars, ticketVars, now, runVars>>

-----------------------------------------------------------------------------
(* zloop_start: the pass over timers, tickets and poll items.               *)

zloop_start ==
    /\ phase = "idle"
    /\ phase' = "top" /\ rc' = 0 /\ stopped' = FALSE
    /\ terminated' = FALSE
    /\ UNCHANGED <<nonstop, interrupted, time_now, current, item_nbr,
                   itemVars, timerVars, ticketVars, now>>

Broken == interrupted /\ ~nonstop

mut_no_quit == FALSE

\* Somebody wanted us to quit.
Quits == rc = -1

\* The while condition fails, or a handler returned -1: return rc.
start_return ==
    /\ phase = "top"
    /\ Broken \/ Quits
    /\ phase' = "idle" /\ terminated' = TRUE
    /\ UNCHANGED <<nonstop, interrupted, time_now, current, item_nbr, rc, stopped,
                   itemVars, timerVars, ticketVars, now>>

Entry(reg, isReader) ==
    [id |-> reg.id, item |-> reg.item, tolerant |-> reg.tolerant,
     reader |-> isReader, errors |-> 0, revents |-> "none"]

s_rebuild_pollset ==
    [i \in 1..(Len(readers) + Len(pollers)) |->
        IF i <= Len(readers) THEN Entry(readers[i], TRUE)
                             ELSE Entry(pollers[i - Len(readers)], FALSE)]

PollSet == IF need_rebuild THEN s_rebuild_pollset ELSE pollset

mut_tickless_first_timer ==
    LET dues == {timer[t].when : t \in Nodes(timers) \cap {first(timers).cur}} \cup {now + TicklessMax}
    IN  CHOOSE d \in dues : \A e \in dues : d <= e

\* The clock time at which zmq_poll gives up: the earliest timer or the first
\* ticket, an hour from now at the latest, and never before now.
s_tickless ==
    LET dues == {timer[t].when : t \in Nodes(timers)}
                \cup {ticket[t].when : t \in Nodes(first(tickets)) \cap {first(tickets).cur}}
                \cup {now + TicklessMax}
        earliest == CHOOSE d \in dues : \A e \in dues : d <= e
    IN  IF earliest < now THEN now ELSE earliest

\* zmq_poll returns: at once or later with items that are ready, or with none
\* at the end of its timeout.  It reports errors for file descriptors only, never
\* for a ZeroMQ socket.  Then the walk of the timer list starts.
zmq_poll(time, ready) ==
    /\ phase = "top" /\ ~Broken /\ ~Quits
    /\ (\A i \in DOMAIN ready : ready[i] = "none") => time >= s_tickless
    /\ \A i \in DOMAIN ready : ready[i] = "err" => PollSet[i].item.socket = NoSocket
    /\ pollset' = [i \in DOMAIN PollSet |-> [PollSet[i] EXCEPT !.revents = ready[i]]]
    /\ need_rebuild' = FALSE
    /\ now' = time /\ time_now' = time
    /\ rc' = IF \E i \in DOMAIN ready : ready[i] # "none" THEN 1 ELSE 0
    /\ phase' = "timers"
    /\ timers' = first(timers) /\ current' = timers'.cur
    /\ UNCHANGED <<readers, pollers, regs, item_nbr, stopped, timer, last_timer_id,
                   max_timers, zombies, cancelled, fired, ticketVars, flagVars>>

\* zmq_poll fails with EINTR or ETERM, or it returns after a signal arrived.
zmq_poll_interrupted(eintr) ==
    /\ phase = "top" /\ ~Broken /\ ~Quits
    /\ MayInterrupt
    /\ pollset' = PollSet /\ need_rebuild' = FALSE
    /\ rc' = 0
    /\ IF eintr /\ nonstop THEN UNCHANGED <<phase, terminated>>
                           ELSE phase' = "idle" /\ terminated' = TRUE
    /\ UNCHANGED <<readers, pollers, regs, item_nbr, stopped, nonstop, interrupted, now,
                   time_now, current, timerVars, ticketVars>>

StartTickets ==
    /\ phase' = "tickets"
    /\ tickets' = first(tickets) /\ current' = tickets'.cur

\* One turn of the timer loop: a timer that is not due is passed over.
timer_step ==
    /\ phase = "timers"
    /\ IF current = NoNode
       THEN StartTickets /\ UNCHANGED <<timers, fired>>
       ELSE IF time_now >= timer[current].when
       THEN /\ phase' = "timer_handler"
            /\ fired' = [fired EXCEPT ![current].called =
                                   IF fired[current].asked = 0 THEN 0 ELSE @ + 1]
            /\ UNCHANGED <<timers, tickets, current>>
       ELSE /\ timers' = next(timers) /\ current' = timers'.cur
            /\ UNCHANGED <<phase, tickets, fired>>
    /\ UNCHANGED <<timer, last_timer_id, max_timers, zombies, cancelled, ticket, last_ticket,
                   ticket_delay, time_now, item_nbr, rc, stopped, itemVars, flagVars, now>>

\* A timer with 0 times runs for ever; the last run leaves the time alone.
Rearmed(t) == [delay |-> t.delay,
               times |-> IF t.times = 0 THEN 0 ELSE t.times - 1,
               when  |-> IF t.times = 1 THEN t.when ELSE t.when + t.delay]

\* The handler's return: the timer is deleted after its last run, else due again
\* one delay after it was.
timer_return(ret) ==
    LET left == IF timer[current].times = 1 THEN detach(timers, current) ELSE timers
    IN  /\ phase = "timer_handler"
        /\ rc' = ret /\ stopped' = (stopped \/ ret = -1)
        /\ timer' = [timer EXCEPT ![current] = Rearmed(timer[current])]
        /\ IF ret = -1
           THEN timers' = left /\ StartTickets
           ELSE /\ timers' = next(left) /\ current' = timers'.cur
                /\ phase' = "timers" /\ UNCHANGED tickets
        /\ UNCHANGED <<last_timer_id, max_timers, zombies, cancelled, fired, ticket,
                       last_ticket, ticket_delay, time_now, item_nbr, itemVars, flagVars, now>>

\* One turn of the ticket loop: a ticket that is due is called, unless flagged.
ticket_step ==
    /\ phase = "tickets"
    /\ IF current # NoNode /\ time_now >= ticket[current].when
       THEN IF ticket[current].deleted
            THEN /\ tickets' = next(detach(tickets, current)) /\ current' = tickets'.cur
                 /\ UNCHANGED phase
            ELSE phase' = "ticket_handler" /\ UNCHANGED <<tickets, current>>
       ELSE phase' = "sweep" /\ current' = NoNode /\ UNCHANGED tickets
    /\ UNCHANGED <<ticket, last_ticket, ticket_delay, time_now, item_nbr, rc, stopped,
                   itemVars, timerVars, flagVars, now>>

\* The handler's return: the ticket is deleted, unless the handler ends the loop.
ticket_return(ret) ==
    /\ phase = "ticket_handler"
    /\ IF ret = -1
       THEN /\ rc' = -1 /\ stopped' = TRUE
            /\ phase' = "sweep" /\ current' = NoNode /\ UNCHANGED tickets
       ELSE /\ tickets' = next(detach(tickets, current)) /\ current' = tickets'.cur
            /\ phase' = "tickets" /\ UNCHANGED <<rc, stopped>>
    /\ UNCHANGED <<ticket, last_ticket, ticket_delay, time_now, item_nbr,
                   itemVars, timerVars, flagVars, now>>

\* The body of the while loop is left, and with it its local variables.
LeaveBody == phase' = "top" /\ time_now' = 0 /\ item_nbr' = 1

mut_stale_items == phase' = "items" /\ UNCHANGED <<item_nbr, time_now>>

\* Poll again if the handlers of timers and tickets changed the poll set.
StartItems ==
    IF need_rebuild THEN LeaveBody ELSE phase' = "items" /\ UNCHANGED <<item_nbr, time_now>>

\* One turn of the loop that deletes the flagged tickets at the end of the list.
sweep_step ==
    LET tail == last(tickets) IN
    /\ phase = "sweep"
    /\ IF tail.cur # NoNode /\ ticket[tail.cur].deleted
       THEN tickets' = detach(tail, tail.cur) /\ UNCHANGED <<phase, item_nbr, time_now>>
       ELSE tickets' = tail /\ StartItems
    /\ UNCHANGED <<ticket, last_ticket, ticket_delay, current, rc, stopped,
                   itemVars, timerVars, flagVars, now>>

\* A poll item that fails a second time in a row is killed, unless tolerant.
Fails(entry) == entry.revents = "err" /\ ~entry.tolerant
Killed(entry) == Fails(entry) /\ entry.errors > 0

\* One turn of the loop over the poll items: an item that has events is called.
item_step ==
    /\ phase = "items"
    /\ IF item_nbr > Len(pollset) \/ rc = -1
       THEN phase' = "zombies" /\ UNCHANGED <<readers, pollers, pollset, need_rebuild, item_nbr>>
       ELSE LET entry == pollset[item_nbr] IN
            /\ pollset' = [pollset EXCEPT ![item_nbr] =
                     [entry EXCEPT !.errors  = IF Fails(entry) THEN 1 ELSE 0,
                                   !.revents = IF Killed(entry) THEN "none" ELSE entry.revents]]
            /\ IF Killed(entry)
               THEN /\ readers' = IF entry.reader THEN Ended(readers, entry.item) ELSE readers
                    /\ pollers' = IF entry.reader THEN pollers ELSE Ended(pollers, entry.item)
                    /\ need_rebuild' = (need_rebuild \/
                           EndsSome(IF entry.reader THEN readers ELSE pollers, entry.item))
               ELSE UNCHANGED <<readers, pollers, need_rebuild>>
            /\ IF pollset'[item_nbr].revents # "none"
               THEN phase' = "item_handler" /\ UNCHANGED item_nbr
               ELSE item_nbr' = item_nbr + 1 /\ UNCHANGED phase
    /\ UNCHANGED <<regs, time_now, current, rc, stopped, timerVars, ticketVars, flagVars, now>>

\* The handler's return: the loop ends if the poll set is out of date.
item_return(ret) ==
    /\ phase = "item_handler"
    /\ rc' = ret /\ stopped' = (stopped \/ ret = -1)
    /\ IF ret = -1 \/ need_rebuild
       THEN phase' = "zombies" /\ UNCHANGED item_nbr
       ELSE phase' = "items" /\ item_nbr' = item_nbr + 1
    /\ UNCHANGED <<time_now, current, itemVars, timerVars, ticketVars, flagVars, now>>

\* One turn of the loop over the cancelled timers, and then the loop polls again.
zombie_step ==
    /\ phase = "zombies"
    /\ IF zombies = <<>>
       THEN LeaveBody /\ UNCHANGED <<timers, zombies>>
       ELSE /\ timers' = s_timer_remove(timers, Head(zombies))
            /\ zombies' = Tail(zombies)
            /\ UNCHANGED <<phase, time_now, item_nbr>>
    /\ UNCHANGED <<timer, last_timer_id, max_timers, cancelled, fired, current, rc, stopped,
                   itemVars, ticketVars, flagVars, now>>

zloop_destroy ==
    /\ phase = "idle"
    /\ phase' = "gone"
    /\ readers' = <<>> /\ pollers' = <<>> /\ pollset' = <<>>
    /\ timers' = EmptyList /\ tickets' = EmptyList /\ zombies' = <<>>
    /\ UNCHANGED <<regs, need_rebuild, timer, last_timer_id, max_timers, cancelled, fired,
                   ticket, last_ticket, ticket_delay, flagVars, now,
                   time_now, current, item_nbr, rc, stopped>>

\* SIGINT or SIGTERM arrives, or the application clears the flag.
s_signal_handler ==
    /\ MayInterrupt /\ phase # "gone"
    /\ interrupted' = ~interrupted
    /\ interrupted => phase = "idle"
    /\ UNCHANGED <<terminated, nonstop, itemVars, timerVars, ticketVars, now, runVars>>

\* Time passes while the application or a handler runs.
Tick ==
    /\ CanCall
    /\ now < MaxTime
    /\ now' = now + 1
    /\ UNCHANGED <<itemVars, timerVars, ticketVars, flagVars, runVars>>

Returns == IF MayStop THEN {0, -1} ELSE {0}

ItemCall ==
    \/ \E sock \in Sockets : \/ zloop_reader(sock) \/ zloop_reader_end(sock)
                             \/ zloop_reader_set_tolerant(sock)
    \/ \E item \in PollItems : \/ zloop_poller(item) \/ zloop_poller_end(item)
                               \/ zloop_poller_set_tolerant(item)

TimerCall ==
    \/ \E delay \in TimerDelays, times \in TimerTimes : zloop_timer(delay, times)
    \/ \E timer_id \in 1..last_timer_id : zloop_timer_end(timer_id)
    \/ \E limit \in TimerLimits : zloop_set_max_timers(limit)

TicketCall ==
    \/ zloop_ticket
    \/ \E handle \in 1..last_ticket : zloop_ticket_reset(handle) \/ zloop_ticket_delete(handle)
    \/ \E delay \in TicketDelays : zloop_set_ticket_delay(delay)

Poll ==
    \/ \E time \in now..MaxTime, ready \in [DOMAIN PollSet -> Revents] : zmq_poll(time, ready)
    \/ \E eintr \in BOOLEAN : zmq_poll_interrupted(eintr)

Pass ==
    \/ timer_step \/ ticket_step \/ sweep_step \/ item_step \/ zombie_step
    \/ \E ret \in Returns : timer_return(ret) \/ ticket_return(ret) \/ item_return(ret)

Next ==
    \/ ItemCall \/ TimerCall \/ TicketCall
    \/ \E flag \in BOOLEAN : MayInterrupt /\ zloop_set_nonstop(flag)
    \/ zloop_start \/ start_return \/ Poll \/ Pass
    \/ zloop_destroy \/ s_signal_handler \/ Tick

Spec == Init /\ [][Next]_vars

-----------------------------------------------------------------------------
(* Properties.                                                              *)

CursorOK(list) == list.cur = NoNode \/ list.cur \in Nodes(list)

\* Type correctness of the reactor's state; the cursor of a list is the head or
\* a node of the list, whatever handlers did to the list during a walk.
TypeOK ==
    /\ readers \in Seq(Registration) /\ pollers \in Seq(Registration)
    /\ pollset \in Seq(PollEntry)
    /\ regs \in 0..MaxRegs /\ need_rebuild \in BOOLEAN
    /\ timer \in Seq([delay : Nat, times : Nat, when : Nat])
    /\ timers \in [seq : Seq(1..last_timer_id), cur : 0..last_timer_id] /\ CursorOK(timers)
    /\ last_timer_id \in 0..MaxTimers /\ Len(timer) = last_timer_id
    /\ max_timers \in Nat
    /\ zombies \in Seq(1..last_timer_id) /\ cancelled \subseteq 1..last_timer_id
    /\ fired \in Seq([asked : Nat, called : Nat]) /\ Len(fired) = last_timer_id
    /\ ticket \in Seq([delay : Nat, when : Nat, deleted : BOOLEAN])
    /\ tickets \in [seq : Seq(1..last_ticket), cur : 0..last_ticket] /\ CursorOK(tickets)
    /\ last_ticket \in 0..MaxTickets /\ Len(ticket) = last_ticket
    /\ ticket_delay \in Nat
    /\ terminated \in BOOLEAN /\ nonstop \in BOOLEAN /\ interrupted \in BOOLEAN
    /\ now \in 0..MaxTime /\ time_now \in 0..MaxTime
    /\ phase \in Handlers \cup {"idle", "top", "timers", "tickets", "sweep", "items", "zombies", "gone"}
    /\ current \in Nat
    /\ phase \in {"timers", "timer_handler"} => current \in Nodes(timers) \cup {NoNode}
    /\ phase \in {"tickets", "ticket_handler"} => current \in Nodes(tickets) \cup {NoNode}
    /\ phase \in {"timer_handler", "ticket_handler"} => current # NoNode
    /\ item_nbr \in 1..(IF phase \in {"items", "zombies"} THEN Len(pollset) + 1
                        ELSE IF phase = "item_handler" THEN Len(pollset) ELSE 1)
    /\ rc \in {-1, 0, 1} /\ stopped \in BOOLEAN

\* While need_rebuild is off, the poll set holds exactly the registered readers
\* and pollers in their order: no register or cancel call is ever missed.
PollsetInSync ==
    ~need_rebuild => /\ Len(pollset) = Len(readers) + Len(pollers)
                     /\ \A i \in DOMAIN pollset : pollset[i].id = s_rebuild_pollset[i].id

\* A reader's or poller's handler is called only while it is registered: the
\* copies in readact and pollact are never used after reader_end or poller_end.
CallsRegistered ==
    [][phase # "item_handler" /\ phase' = "item_handler" =>
          pollset[item_nbr].id \in Ids(readers) \cup Ids(pollers)]_vars

\* Once a handler has returned -1, no handler of a timer or a poll item is called
\* before zloop_start returns, and it returns -1 then, and only then.
StopHonoured ==
    [][/\ stopped /\ phase' # phase => phase' \notin {"timer_handler", "item_handler"}
       /\ phase = "top" /\ phase' = "idle" => (rc' = -1 <=> stopped)]_vars

Live(t) == ~ticket[t].deleted

\* zmq_poll never sleeps past the time a timer or a live ticket is due, although
\* s_tickless looks at the first ticket of the list alone.
NoOversleep ==
    phase = "top" =>
        /\ \A t \in Nodes(timers) : s_tickless <= timer[t].when \/ s_tickless = now
        /\ \A t \in LiveTickets : s_tickless <= ticket[t].when \/ s_tickless = now

\* A timer runs as often as asked: never more, and it leaves the list only after
\* its last run or when zloop_timer_end has cancelled it.
TimerRepeats ==
    phase # "gone" => \A t \in DOMAIN timer :
        /\ fired[t].asked # 0 => fired[t].called <= fired[t].asked
        /\ t \notin Nodes(timers) /\ t \notin cancelled =>
              fired[t].asked # 0 /\ fired[t].called = fired[t].asked

\* "Tickets are sorted": no ticket before a live one is due after it.
TicketsSorted ==
    \A i, j \in 1..Len(tickets.seq) :
        i < j /\ Live(tickets.seq[j]) =>
            ticket[tickets.seq[i]].when <= ticket[tickets.seq[j]].when

\* "Configure a registered poller to ignore errors": the reactor does not remove a
\* poller on which zloop_poller_set_tolerant was called.  The code does not keep this.
TolerantKept ==
    [][phase = "items" =>
          \A i \in DOMAIN pollers : pollers[i].tolerant => pollers[i].id \in Ids(pollers')]_vars
=============================================================================
