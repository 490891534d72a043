# A TLA+ specification of czmq

czmq is a C library over ZeroMQ (libzmq): sockets, messages and containers, and on top
of them actors (threads reached through a pipe), a reactor and services that run as
actors. This directory specifies the parts in which threads, handlers and messages
interleave, checks them with TLC on small instances and proves the most important
properties with TLAPS for every instance. Source paths below are relative to `src/src/`.

## The system and its parts

| part | state | operations | what is hard about it |
|---|---|---|---|
| `zactor.c` | a thread, a pipe of two PAIR sockets | new, destroy, send, recv, set_destructor; the thread shim | start and end synchronized by signals in the same queue as replies; pipe limits; a handler that ends by itself |
| `zloop.c` | readers, pollers, the poll set built from them; timers, zombies, tickets | register, cancel, set tolerant; timer, ticket, reset, delete; start | handlers change the lists the reactor is walking; copies of registrations; the sleep computed from the first ticket only |
| `zlistx.c` | a ring of nodes, a cursor | add, detach, move, insert, reorder, sort, find, purge, iterate | the cursor under deletion; relinking with neighbours that are the node itself |
| `zgossip.c`, `zgossip_engine.inc`, `zgossip_msg.c` | tuples; remotes; a client state machine per peer | PUBLISH, CONNECT, HELLO, PING, INVALID, expiry, disconnection | cycles, echoes, sessions torn down with messages queued |
| `zmonitor.c` | the events listened to, the sink | LISTEN, START, events | events late and queued behind each other |
| `zproxy.c` | two sockets, capture, poller | FRONTEND, BACKEND, CAPTURE, PAUSE, RESUME, switching | multipart messages and failing sends, commands in any order |
| `zauth.c` | allow and block lists, passwords, certificates | commands, ZAP requests | policy changed between requests |
| `zbeacon.c` | two UDP sockets, transmit, filter | CONFIGURE, PUBLISH, SUBSCRIBE, beacons | loss, sockets made again |
| `zpoller.c` | reader list and poll set | add, remove, wait | the list against the set; expired and terminated |
| `zsys.c` | the context, the count of open sockets | init, socket, close, shutdown | several threads and the exit handler |
| `zsock.c`, `zmsg.c`, `zframe.c`, `zstr.c` | a libzmq handle; a list of frames | send, receive, signal, wait | ownership; mostly calls of libzmq |
| `zhashx.c`, `zhash.c`, `zlist.c`, `ztrie.c`, `zconfig.c` | containers | insert, delete, iterate, rehash | deletion during iteration |
| `zcertstore.c`, `zdir.c`, `zfile.c`, `zproc.c`, `zhttp_*.c`, others | files, processes, other libraries | | input and output |

How they interact: `zgossip` is an actor (`zactor`) whose body is a reactor (`zloop`);
the reactor's lists are `zlistx` lists; each remote of a node has a `zmonitor` actor.
`PROJECT.json` lists every part with its status, and the hazards at their lines.

## Modules

| module | models | form |
|---|---|---|
| `ZActor` | `zactor.c`, `zsock_wait`, the pipe | two threads and two bounded queues |
| `ZListxOps` | what each `zlistx` operation does to a sequence with a cursor | operators |
| `ZListx` | the abstract list over these operators | specification |
| `ZListxNodes` | `zlistx.c` with its pointers; implements `ZListx` | specification, refinement |
| `ZListxSort` | the loop of `zlistx_sort` | specification |
| `ZLoop` | `zloop.c`, on the operators of `ZListxOps` | one thread; a handler being called is a phase |
| `ZGossip` | `zgossip.c` and its engine: a network of nodes | one step per handler, channels between nodes |
| `ZActor_proofs`, `ZLoop_proofs`, `ZListxNodes_proofs`, `ZGossip_proofs` | | theorems |
| `MCZLoop`, `MCZListx`, `MCZGossip` | | the sets the configurations name |

Composition: `ZLoop` keeps its timers and tickets in the lists of `ZListxOps`, and
`ZListxNodes` shows that the pointers of `zlistx.c` implement those operators, so the
reactor's argument about cursors rests on a checked refinement and not on an assumption.

### ZActor

`app` and `act` are the places of the two threads, `down` and `up` the queues of the pipe,
each holding `Capacity` messages (`zsys_pipehwm`). A call that blocks is two actions: the
call and the step that lets it go on. `zsock_wait` is one action per message it takes off
the queue, and takes *any* signal. A handler answers a command by nothing, by a message or
by a signal, and sends messages unasked, as `zmonitor` does. `s_thread_shim` is two steps,
the signal and the closing of the pipe. `Collects` says that the application collects the
reply to a command before it goes on, which `DestroySynchronizes` needs (see below).

### ZListxNodes, ZListx, ZListxSort

`links` holds the `next` and `prev` pointers of every address, a free node pointing to
itself; node 0 is the head. `s_node_relink` is the source's, and every operation is written
with it. The refinement mapping walks the ring from the head (`Walk`). `zlistx_delete` is
`zlistx_detach` followed by the item's destructor and is the same action. In `ZListxSort`
the integer division by 13/10 stands for `(size_t) ((double) gap / 1.3)`; the two agree on
the lengths checked.

### ZLoop

`phase` is the place of `zloop_start`; `timer_handler`, `ticket_handler` and `item_handler`
are phases in which the application's calls are enabled, as they are when the reactor does
not run (`idle`). `current` is the local variable of `zloop_start`, distinct from the list's
cursor, which a handler may move. `pollset` is the copy made by `s_rebuild_pollset`, with its
own error counts. Time is a counter; a timer or ticket is due when the counter reaches it.
`fired`, `cancelled` and `stopped` are history variables for properties.

### ZGossip

A link `<<a, b>>` is the DEALER of node a connected to the ROUTER of node b; `up` and `down`
are its messages, `client` the state b's engine has for a. Every handler runs in its node's
reactor and is one step. `get_first_tuple` and `get_next_tuple` walk a hash table: any order
(`Walks`). The states `have_tuple` and `external` of the engine are passed through within one
`s_client_execute` or never entered. Raw links belong to programs that speak the protocol
themselves, as the one in `zgossip_test` does. A lost connection loses what was in transit in
both directions and keeps what was not sent; the monitor's events come later, in order.

## Runs

| run | checks | instance |
|---|---|---|
| `actor` | `TypeOK`, `CommandsFinished`, `DestroyReturns` | three commands, one message unasked, room in the pipe, interrupts |
| `actor_quit` | `NewSynchronizes`, `DestroySynchronizes`, `ThreadEnds` | the same, the handler failing to start or returning by itself |
| `loop_items` | `TypeOK`, `PollsetInSync`, `CallsRegistered`, `StopHonoured` | two registrations (a socket, descriptor 0), a timer, a ticket, interrupts, handlers returning -1 |
| `loop_timers` | `NoOversleep`, `TicketsSorted`, `TimerRepeats`, `TicketsKept` | two timers running once or twice, two tickets, clock up to 2 |
| `list_nodes` | `LinksInverse`, `RingWhole`, `Refines`, `InsertSorts` | four nodes, three items |
| `list_sort` | `ItemsKept`, `DoneIsSorted`, `Terminates` | every list of up to eight items of three values |
| `gossip_cycle` | `QuietIsConsistent`, `EventuallyConsistent` | three nodes in a cycle, two tuples |
| `gossip_sessions` | `TypeOK`, `ClientsTold`, `SessionsSettle` | two nodes, two CONNECTs, two lost connections, a raw program sending two messages, expiring |

Four runs show where a comment and the code part; TLC's counterexample is the evidence.

* `actor_quit_race`: a handler that returned by itself has sent its exit signal and the
  application has read it; before the shim closes the pipe, `zactor_destroy` sends `$TERM`
  and waits for ever.
* `loop_tolerant`: `zloop_poller_set_tolerant` on a poller already in the poll set has no
  effect until the next rebuild, and the poller is removed on its second error.
* `gossip_update`: a key published twice at one node; the second value meets the echo of the
  first and the two circulate for ever.
* `gossip_reconnect`: the connection is lost with a HELLO unsent; the HELLO of the
  reconnection is rejected with the tuples behind it, and they are not sent again.

Seen in the code while modelling, each with a TLC counterexample under a constant the
modules still have or a formula since removed, and not kept as runs:

* `zactor_destroy` does not wait when the pipe to the actor is full (`zactor.c:101`), waits
  for ever when the pipe from it is (`zactor.c:70`), and takes an uncollected signal reply
  for the exit signal (`zactor.c:102`);
* a timer cancelled by a handler still runs if it is due in the same pass (`zloop.c:587`); a
  timer limit below the number of timers is ignored (`zloop.c:552`); cancelling the poller on
  descriptor 0 cancels those on sockets (`zloop.c:495`); an interrupted `zloop_start` may
  return a positive number (`zloop.c:717`); raising the ticket delay and resetting an older
  ticket breaks the order of tickets (`zloop.c:630`); with two pollers on one item and a
  reactor restarted after -1, an ended poller can be called (`zloop.c:831`; hence
  `MayRepeat = FALSE` in `loop_items`); ticket handlers still run in the pass in which a timer
  handler returned -1, so `StopHonoured` speaks of the others;
* `zlistx_detach_cur` without a cursor detaches the first item (`zlistx.c:388`);
* a gossip client that only listens expires and is not told (`zgossip_engine.inc:661`), and a
  second CONNECT has the effect of `gossip_reconnect` (`zgossip.c:300`).

### Bounds

* Actor: `Capacity` 6 is more than everything that can be queued (three commands and the stop
  word; init, replies, one event and exit), so that the pipe's limit does not hide or cause
  anything; three commands allow one handled, one queued and one being sent.
* Loop: a reader and a poller, or one of them registered again after it was ended; two timers and two
  tickets are what a walk needs to lose, repeat or reorder one. Time ends at `MaxTime`, the
  reason deadlock is not checked there.
* List: four nodes allow a move between two nodes that are neither the head nor neighbours. Deadlock
  is checked in `list_nodes`.
* Sort: seven items are the fewest for which one pass at gap 1 is not enough and the loop goes on
  because of `swapped`; up to six, the test of `swapped` is never needed. The run ends with the sort.
* Gossip: a cycle of three is the smallest in which a tuple returns by another way. Applications
  may stop, the reason deadlock is not checked; neither is it in the actor runs that interrupt or
  end a handler, where a thread may rightly be left blocked on a pipe nobody reads.

### Fairness

* `ZActor!FairSpec`: weak fairness of each thread's steps inside a call. A thread that can run
  is scheduled; the application need not make any call and the handler need not emit or quit.
* `ZListxSort!Spec`: weak fairness of the loop, which runs in one thread.
* `ZGossip!FairSpec`: weak fairness per link of the ROUTER's handler, of `remote_handler`, of
  `monitor_handler` (a pass of the reactor calls the handler of every ready socket) and of
  libzmq's reconnection. No application has to publish or connect, no client has to expire.

## Proofs

| theorem | statement | assumes |
|---|---|---|
| `ZActor_proofs!TypeCorrect` | `[]TypeOK` | |
| `ZActor_proofs!NewSynchronized`, `DestroySynchronized` | `[]NewSynchronizes`, `[]DestroySynchronizes` | replies collected, no interrupt, `MaxSends < Capacity` |
| `ZActor_proofs!CommandsAreFinished` | `[]CommandsFinished` | the handler returns only when told |
| `ZLoop_proofs!TicketsStaySorted` | `[]TicketsSorted` | one ticket delay |
| `ZLoop_proofs!NeverOversleeps` | `[]NoOversleep` | one ticket delay |
| `ZListxNodes_proofs!LinksStayInverse` | `[]LinksInverse` | |
| `ZGossip_proofs!TypeCorrect` | `[]TypeOK` | |
| `ZGossip_proofs!ClientsAreTold` | `[]ClientsTold` | a key has one value |
| `ZGossip_proofs!QuietNetworkIsConsistent` | `[]QuietIsConsistent` | a key has one value; each link connected once, never lost, not expiring |

* *Actor.* That a destroy waits for the right signal cannot be seen from the present state: the
  invariant `SyncInv` says which signals can be in the pipe, the first one only for `zactor_new`,
  the shim's only at the very end, and at most one reply in one of the places it can be while it is
  owed. `CountInv` counts commands: sent = finished + being handled + queued + being sent.
* *Reactor.* The list is sorted because no ticket is due later than one delay from now
  (`TicketBound`), so a ticket created or reset belongs at the end. The walk needs the node it
  stands on to be on the list (`TicketCurrent`) whatever handlers do. `NeverOversleeps` adds the
  same for timers and that the first ticket bounds the others.
* *List.* `LinksInv` adds to `LinksInverse` that addresses stay within the nodes and that a node not
  in use points to itself: relinking it cannot touch the ring. That the ring is *one* ring
  (`RingWhole`) and the refinement need induction along it and stay with TLC.
* *Gossip.* `ClientsTold` is inductive with the types. Quiet consistency needs the other direction,
  connecting side to engine: `Session` says that HELLO is first on its way and everything behind
  it PUBLISH, so that nothing is rejected, and that every tuple of the connecting node is at the
  other end or on its way.

Outside the prover's reach and only model-checked: liveness (`DestroyReturns`, `ThreadEnds`,
`Terminates`, `EventuallyConsistent`, `SessionsSettle`), what the recursive `Scan` and `Walk`
compute (`RingWhole`, `Refines`, `InsertSorts`), and sorting. `PollsetInSync`, `CallsRegistered`,
`StopHonoured`, `TimerRepeats` and `TicketsKept` are within reach and planned.

## Not modelled

* zactor: failure of thread creation. zloop: verbose, failing allocation. zlistx: `zlistx_dup`,
  callbacks on items. zgossip: BIND, PORT, SET, LOAD, SAVE, STATUS, configuration, the draft
  operations (UNPUBLISH, keys), destruction, the DELIVER message to the application (it is sent when
  the tuple is stored), a CONNECT to a remote that was lost and is not back.
* The parts marked `not_modelled` in `PROJECT.json`, with the reason there.

## Plan

1. Services: `zmonitor` between `zgossip` and the transport, restart of a gossip node and the
   inactive CONNECT; `zproxy` (configuration, PAUSE/RESUME, multipart switching); `zauth`
   (decision against a reference definition; commands between requests).
2. Foundation: `zsys` (init, socket, close, shutdown by several threads), `zpoller`, `zhashx`
   (iteration, deletion, rehash against a finite map), `zlist`, `ztrie`, `zmsg` ownership.
3. `zbeacon` over a lossy network, `zcertstore` reloads, the watch actor of `zdir`.
4. Proofs: the item and timer invariants of `ZLoop`; refinement of `ZListxNodes` for the operations
   without a scan; the invariants of the new modules.
