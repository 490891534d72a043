------------------------------ MODULE ZGossip ------------------------------
(***************************************************************************)
(* The gossip service (src/src/zgossip.c) and its generated server engine  *)
(* (src/src/zgossip_engine.inc): nodes that connect to each other in any   *)
(* shape, each storing name/value tuples and passing new ones on.          *)
(*                                                                         *)
(* A link is a pair <<a, b>>: node a's DEALER socket connected to node b's *)
(* ROUTER.  `up` and `down` are the messages on their way over it, in      *)
(* order and without a limit (both ends are unbounded sockets), `client`   *)
(* is the state b's engine keeps for a.  Every handler runs in its node's  *)
(* reactor, so each is one step.  Raw links belong to programs that speak  *)
(* zgossip_msg themselves, as the one in the class's own test does.        *)
(***************************************************************************)
EXTENDS Integers, Sequences, FiniteSets

CONSTANTS
    Nodes, Links, RawLinks,
    Publications,   \* records: the node told to PUBLISH, the tuple
    NoTuple,
    MaxConnects,    \* bound on CONNECT commands for a link
    MaxDrops,       \* bound on lost connections and restarts
    MaxRaw,         \* bound on messages sent on raw links
    Expiring,       \* the links whose client may be silent for server/timeout
    Restarting,     \* the nodes that may be stopped and started again
    OnlyQuiet       \* whether connections and nodes are lost only when nothing is under way

AllLinks == Links \cup RawLinks
Tuples == {p.tuple : p \in Publications}
Programs == {l[1] : l \in RawLinks}

ASSUME LinkAssumption ==
    /\ IsFiniteSet(Tuples)
    /\ \A l \in Links : l = <<l[1], l[2]>> /\ l[1] \in Nodes /\ l[2] \in Nodes
    /\ \A l \in RawLinks : l = <<l[1], l[2]>> /\ l[2] \in Nodes /\ l[1] \notin Nodes
    /\ \A p \in Publications : p = [node |-> p.node, tuple |-> p.tuple] /\ p.node \in Nodes
    /\ \A t \in Tuples : t = [key |-> t.key, value |-> t.value]
ASSUME GossipBoundAssumption ==
    MaxConnects \in Nat /\ MaxDrops \in Nat /\ MaxRaw \in Nat

VARIABLES
    tuples,     \* what each node has stored, and what raw programs were sent
    active,     \* the links in their nodes' active_remotes
    client,     \* the engine's state for the client at the end of a link
    up, down,
    wire,       \* whether the transport of a link is connected
    events,     \* what the link's monitor has still to tell its node
    published, connects, drops, raw     \* what the applications and the network have done

vars == <<tuples, active, client, up, down, wire, events, published, connects, drops, raw>>
environment == <<published, connects, drops, raw>>

Message(id) == [id |-> id, tuple |-> NoTuple]
Hello == Message("HELLO")
Invalid == Message("INVALID")
Pong == Message("PONG")
Publish(t) == [id |-> "PUBLISH", tuple |-> t]

Init ==
    /\ tuples = [n \in Nodes \cup Programs |-> {}]
    /\ active = {}
    /\ client = [l \in AllLinks |-> "none"]
    /\ up = [l \in AllLinks |-> <<>>] /\ down = [l \in AllLinks |-> <<>>]
    /\ wire = [l \in AllLinks |-> FALSE]
    /\ events = [l \in AllLinks |-> <<>>]
    /\ published = {} /\ drops = 0 /\ raw = 0
    /\ connects = [l \in AllLinks |-> 0]

\* A walk over the tuples hash visits each once, in the order of its buckets.
Walks(S) == {w \in [1..Cardinality(S) -> S] : \A t \in S : \E i \in DOMAIN w : w[i] = t}

PublishAll(w) == [i \in DOMAIN w |-> Publish(w[i])]

Send(channel, l, m) == [channel EXCEPT ![l] = Append(@, m)]
-----------------------------------------------------------------------------
(* Accepting a tuple.                                                       *)

\* forward_event on every client of n: a connected one is sent the tuple, one
\* that has not said HELLO is told INVALID and forgotten.
ForwardDown(n, t, d) ==
    [l \in AllLinks |->
        IF l[2] = n /\ client[l] = "connected" THEN Append(d[l], Publish(t))
        ELSE IF l[2] = n /\ client[l] = "start" THEN Append(d[l], Invalid)
        ELSE d[l]]

ForwardUp(n, t, u) ==
    [l \in AllLinks |-> IF l[1] = n /\ l \in active THEN Append(u[l], Publish(t)) ELSE u[l]]

ForwardClients(n) ==
    [l \in AllLinks |-> IF l[2] = n /\ client[l] = "start" THEN "none" ELSE client[l]]

\* A tuple is new unless the node holds that very value under its key.
IsNew(n, t) == t \notin tuples[n]

Stored(n, t) == [tuples EXCEPT ![n] = {s \in @ : s.key # t.key} \cup {t}]

mut_accept_no_remotes(n, t, u, d) ==
    IF IsNew(n, t)
    THEN /\ tuples' = Stored(n, t)
         /\ client' = ForwardClients(n)
         /\ down' = ForwardDown(n, t, d)
         /\ up' = u
    ELSE UNCHANGED <<tuples, client>> /\ up' = u /\ down' = d

\* u and d are the channels once the message being handled is off them.
server_accept(n, t, u, d) ==
    IF IsNew(n, t)
    THEN /\ tuples' = Stored(n, t)
         /\ client' = ForwardClients(n)
         /\ down' = ForwardDown(n, t, d)
         /\ up' = ForwardUp(n, t, u)
    ELSE UNCHANGED <<tuples, client>> /\ up' = u /\ down' = d
-----------------------------------------------------------------------------
(* Commands of the application.                                             *)

publish(p) ==
    /\ p \notin published
    /\ published' = published \cup {p}
    /\ server_accept(p.node, p.tuple, up, down)
    /\ UNCHANGED <<active, wire, events, connects, drops, raw>>

mut_greet_hello_only(l) == up' = Send(up, l, Hello)

\* HELLO, then every tuple the node has.
Greet(l) ==
    \E w \in Walks(tuples[l[1]]) : up' = [up EXCEPT ![l] = Append(@, Hello) \o PublishAll(w)]

\* A CONNECT to a remote that was lost and has not come back is left out.
server_connect(l) ==
    /\ connects[l] < MaxConnects
    /\ connects' = [connects EXCEPT ![l] = @ + 1]
    /\ \/ /\ connects[l] = 0
          /\ active' = active \cup {l}
          /\ wire' = [wire EXCEPT ![l] = TRUE]
          /\ events' = Send(events, l, "HANDSHAKE_SUCCEEDED")
       \/ /\ l \in active
          /\ UNCHANGED <<active, wire, events>>
    /\ Greet(l)
    /\ UNCHANGED <<tuples, client, down, published, drops, raw>>
-----------------------------------------------------------------------------
(* The engine: s_server_handle_protocol and s_client_execute.               *)

Receives(l, id) == wire[l] /\ up[l] # <<>> /\ Head(up[l]).id = id

Popped(channel, l) == [channel EXCEPT ![l] = Tail(@)]

Others == <<active, wire, events>>

\* What a client's state has no rule for is answered INVALID and ends it.
Reject(l) ==
    /\ client' = [client EXCEPT ![l] = "none"]
    /\ down' = Send(down, l, Invalid)
    /\ up' = Popped(up, l)
    /\ UNCHANGED tuples

mut_hello_no_tuples(l) ==
    /\ Receives(l, "HELLO")
    /\ IF client[l] = "connected"
       THEN Reject(l)
       ELSE /\ client' = [client EXCEPT ![l] = "connected"]
            /\ up' = Popped(up, l)
            /\ UNCHANGED <<tuples, down>>
    /\ UNCHANGED <<Others, environment>>

\* A new client, or one that only sent PING, gets every tuple.
recv_hello(l) ==
    /\ Receives(l, "HELLO")
    /\ IF client[l] = "connected"
       THEN Reject(l)
       ELSE /\ client' = [client EXCEPT ![l] = "connected"]
            /\ up' = Popped(up, l)
            /\ \E w \in Walks(tuples[l[2]]) :
                   down' = [down EXCEPT ![l] = @ \o PublishAll(w)]
            /\ UNCHANGED tuples
    /\ UNCHANGED <<Others, environment>>

recv_publish(l) ==
    /\ Receives(l, "PUBLISH")
    /\ IF client[l] = "connected"
       THEN server_accept(l[2], Head(up[l]).tuple, Popped(up, l), down)
       ELSE Reject(l)
    /\ UNCHANGED <<Others, environment>>

recv_ping(l) ==
    /\ Receives(l, "PING")
    /\ client' = [client EXCEPT ![l] = IF @ = "none" THEN "start" ELSE @]
    /\ up' = Popped(up, l)
    /\ down' = Send(down, l, Pong)
    /\ UNCHANGED <<tuples, Others, environment>>

\* Any other identifier is terminate_event, for which no state has a rule.
recv_other(l) ==
    /\ Receives(l, "INVALID")
    /\ Reject(l)
    /\ UNCHANGED <<Others, environment>>

\* The client's ticket expires; the client is not told.
s_client_handle_ticket(l) ==
    /\ l \in Expiring /\ client[l] # "none"
    /\ client' = [client EXCEPT ![l] = "none"]
    /\ UNCHANGED <<tuples, up, down, Others, environment>>
-----------------------------------------------------------------------------
(* The connecting side.                                                     *)

mut_no_second_hello(l) ==
    /\ l \in Links /\ down[l] # <<>>
    /\ IF Head(down[l]).id = "PUBLISH"
       THEN server_accept(l[1], Head(down[l]).tuple, up, Popped(down, l))
       ELSE down' = Popped(down, l) /\ UNCHANGED <<tuples, client, up>>
    /\ UNCHANGED <<Others, environment>>

remote_handler(l) ==
    /\ l \in Links /\ down[l] # <<>>
    /\ CASE Head(down[l]).id = "PUBLISH" ->
                server_accept(l[1], Head(down[l]).tuple, up, Popped(down, l))
         [] Head(down[l]).id = "INVALID" ->
                /\ down' = Popped(down, l) /\ up' = Send(up, l, Hello)
                /\ UNCHANGED <<tuples, client>>
         [] OTHER ->
                down' = Popped(down, l) /\ UNCHANGED <<tuples, client, up>>
    /\ UNCHANGED <<Others, environment>>

\* A reconnection starts over with the endpoint; a first connection does not.
monitor_handler(l) ==
    /\ l \in Links /\ events[l] # <<>>
    /\ events' = Popped(events, l)
    /\ IF Head(events[l]) = "DISCONNECTED"
       THEN active' = active \ {l} /\ UNCHANGED up
       ELSE IF l \notin active
       THEN active' = active \cup {l} /\ Greet(l)
       ELSE UNCHANGED <<active, up>>
    /\ UNCHANGED <<tuples, client, down, wire, environment>>
-----------------------------------------------------------------------------
(* The transport and the programs on raw links (outside src/).              *)

Quiet == \A l \in Links : up[l] = <<>> /\ down[l] = <<>>

\* Everything was published, every link connected, and nothing is under way.
Settled ==
    /\ Quiet /\ published = Publications
    /\ \A l \in Links : l \in active /\ events[l] = <<>>

\* What was in transit is lost both ways; what was not yet sent stays queued.
\* The peer comes back under a new routing id, so the engine's old client
\* never hears from it again.
disconnect(l) ==
    /\ wire[l] /\ l \in Links /\ drops < MaxDrops /\ (OnlyQuiet => Settled)
    /\ drops' = drops + 1
    /\ wire' = [wire EXCEPT ![l] = FALSE]
    /\ client' = [client EXCEPT ![l] = "none"]
    /\ \E i \in 0..Len(up[l]), j \in 0..Len(down[l]) :
          /\ up' = [up EXCEPT ![l] = SubSeq(@, i + 1, Len(@))]
          /\ down' = [down EXCEPT ![l] = SubSeq(@, 1, j)]
    /\ events' = Send(events, l, "DISCONNECTED")
    /\ UNCHANGED <<tuples, active, published, connects, raw>>

Outgoing(n) == {l \in Links : l[1] = n}
Incoming(n) == {l \in AllLinks \ Outgoing(n) : l[2] = n}

Suffixes(s) == {SubSeq(s, i + 1, Len(s)) : i \in 0..Len(s)}
Prefixes(s) == {SubSeq(s, 1, i) : i \in 0..Len(s)}

\* server_terminate, and server_initialize in a new process: the node has no tuples, no
\* clients and no remotes.  Its peers lose their connections to it; its application
\* starts over.
restart(n) ==
    /\ n \in Restarting /\ drops < MaxDrops /\ (OnlyQuiet => Settled)
    /\ drops' = drops + 1
    /\ tuples' = [tuples EXCEPT ![n] = {}]
    /\ active' = active \ Outgoing(n)
    /\ client' = [l \in AllLinks |->
                    IF l \in Incoming(n) \cup Outgoing(n) THEN "none" ELSE client[l]]
    /\ wire' = [l \in AllLinks |-> wire[l] /\ l \notin (Incoming(n) \cap Links) \cup Outgoing(n)]
    /\ up' \in {u \in [AllLinks -> UNION {Suffixes(up[l]) : l \in AllLinks}] :
                  \A l \in AllLinks : u[l] \in IF l \in Outgoing(n) THEN {<<>>}
                                               ELSE IF l \in Incoming(n) THEN Suffixes(up[l])
                                               ELSE {up[l]}}
    /\ down' \in {d \in [AllLinks -> UNION {Prefixes(down[l]) : l \in AllLinks}] :
                  \A l \in AllLinks : d[l] \in IF l \in Outgoing(n) THEN {<<>>}
                                               ELSE IF l \in Incoming(n) THEN Prefixes(down[l])
                                               ELSE {down[l]}}
    /\ events' = [l \in AllLinks |-> IF l \in Outgoing(n) THEN <<>>
                                     ELSE IF l \in Incoming(n) \cap Links /\ wire[l]
                                     THEN Append(events[l], "DISCONNECTED") ELSE events[l]]
    /\ published' = {p \in published : p.node # n}
    /\ connects' = [l \in AllLinks |-> IF l \in Outgoing(n) THEN 0 ELSE connects[l]]
    /\ UNCHANGED raw

reconnect(l) ==
    /\ l \in Links /\ connects[l] > 0 /\ ~wire[l]
    /\ wire' = [wire EXCEPT ![l] = TRUE]
    /\ events' = Send(events, l, "HANDSHAKE_SUCCEEDED")
    /\ UNCHANGED <<tuples, active, client, up, down, environment>>

raw_send(l, m) ==
    /\ raw < MaxRaw
    /\ raw' = raw + 1
    /\ wire' = [wire EXCEPT ![l] = TRUE]
    /\ up' = Send(up, l, m)
    /\ UNCHANGED <<tuples, active, client, down, events, published, connects, drops>>

raw_recv(l) ==
    /\ l \in RawLinks /\ down[l] # <<>>
    /\ down' = Popped(down, l)
    /\ tuples' = IF Head(down[l]).id = "PUBLISH"
                 THEN [tuples EXCEPT ![l[1]] = @ \cup {Head(down[l]).tuple}] ELSE tuples
    /\ UNCHANGED <<active, client, up, wire, events, environment>>

RawMessages == {Hello, Message("PING"), Invalid} \cup {Publish(t) : t \in Tuples}

\* What a node's reactor does with a message on its ROUTER.
s_server_handle_protocol(l) == recv_hello(l) \/ recv_publish(l) \/ recv_ping(l) \/ recv_other(l)

Next ==
    \/ \E p \in Publications : publish(p)
    \/ \E n \in Nodes : restart(n)
    \/ \E l \in Links : server_connect(l) \/ disconnect(l) \/ reconnect(l)
    \/ \E l \in AllLinks : \/ s_server_handle_protocol(l) \/ s_client_handle_ticket(l)
                           \/ remote_handler(l) \/ monitor_handler(l)
    \/ \E l \in RawLinks : raw_recv(l) \/ \E m \in RawMessages : raw_send(l, m)

Spec == Init /\ [][Next]_vars

\* A reactor's pass calls the handler of every socket that is ready, and libzmq
\* reconnects.  No application has to do anything, no client has to expire.
FairSpec ==
    /\ Spec
    /\ \A l \in AllLinks : /\ WF_vars(s_server_handle_protocol(l)) /\ WF_vars(remote_handler(l))
                           /\ WF_vars(monitor_handler(l)) /\ WF_vars(reconnect(l))
-----------------------------------------------------------------------------
States == {"none", "start", "connected"}
Events == {"DISCONNECTED", "HANDSHAKE_SUCCEEDED"}
Messages == {Hello, Invalid, Pong, Message("PING")} \cup {Publish(t) : t \in Tuples}

\* Type correctness of the nodes, the engines' clients and the channels; in particular
\* s_client_execute leaves a client in start or connected, in no state in between.
TypeOK ==
    /\ tuples \in [Nodes \cup Programs -> SUBSET Tuples]
    /\ active \in SUBSET Links
    /\ client \in [AllLinks -> States]
    /\ up \in [AllLinks -> Seq(Messages)] /\ down \in [AllLinks -> Seq(Messages)]
    /\ wire \in [AllLinks -> BOOLEAN]
    /\ events \in [AllLinks -> Seq(Events)]
    /\ published \in SUBSET Publications
    /\ connects \in [AllLinks -> 0..MaxConnects] /\ drops \in 0..MaxDrops /\ raw \in 0..MaxRaw

In(channel, m) == \E i \in 1..Len(channel) : channel[i] = m

\* Every tuple a node holds has reached, or is on its way to, each client its engine
\* has as connected: the tuples sent for a HELLO and those forwarded afterwards leave
\* no gap, whatever expired, was lost or was rejected before.
ClientsTold ==
    \A l \in AllLinks : client[l] = "connected" =>
        \A t \in tuples[l[2]] : t \in tuples[l[1]] \/ In(down[l], Publish(t))

Consistent == \A l \in active : tuples[l[1]] = tuples[l[2]]

\* When nothing is on its way any more, nor the news that a connection was lost, nodes
\* that are connected hold the same tuples: what a restarted node had lost it has again.
QuietIsConsistent ==
    Quiet /\ (\A l \in Links : ~ In(events[l], "DISCONNECTED")) => Consistent

\* "Each node re-distributes the new tuples it receives, so that the entire network
\* eventually achieves a consistent state": nodes joined by a link come to hold the
\* same tuples, and keep them.
EventuallyConsistent == <>[]Consistent

\* The exchange of INVALID and HELLO that follows a second CONNECT or a lost connection
\* ends, with the engine at the far end of every active link holding a connected client.
SessionsSettle ==
    <>[](\A l \in active : client[l] = "connected" /\ up[l] = <<>> /\ down[l] = <<>>)
=============================================================================
