------------------------------ MODULE MCActors ------------------------------
(***************************************************************************)
(* The actors, for model checking: zactor itself with a handler that may   *)
(* return at any time, and the actors zproc, zproxy, zbeacon and zgossip,  *)
(* the last as two nodes and a program that speaks the protocol itself.  A *)
(* behaviour is one of its subject; the variables of the others stay as    *)
(* they begin.                                                             *)
(***************************************************************************)
EXTENDS ZActor, ZProc, ZProxy

CONSTANTS beacon1, beacon2,
          nodeA, nodeB, program, NoTuple  \* the gossip network, and no tuple

VARIABLES
    subject,
    at, udpsock, beacon_sockets, stale, transmit, filter, due, terminated, polled,
    beacon_arrived, pipe, commands, configured, heard, emitted, linkup, flaps,
    tuples, active, client, link_up, link_down, wire, events, published,
    connects, drops, raw

beacon_vars ==
    <<at, udpsock, beacon_sockets, stale, transmit, filter, due, terminated, polled,
      beacon_arrived, pipe, commands, configured, heard, emitted, linkup, flaps>>
gossip_vars ==
    <<tuples, active, client, link_up, link_down, wire, events, published,
      connects, drops, raw>>

Beacon == INSTANCE ZBeacon WITH
    up <- linkup, sockets <- beacon_sockets, arrived <- beacon_arrived,
    Data <- {beacon1, beacon2}, MaxCommands <- 4, MaxFlaps <- 2, MaxQueue <- 1,
    Reconfigures <- FALSE

\* Two CONNECT commands for one endpoint, a lost connection or restart, and a
\* program that sends two messages, any, and whose client may expire.
Sessions == INSTANCE ZGossip WITH
    up <- link_up, down <- link_down,
    Nodes <- {nodeA, nodeB}, Links <- {<<nodeA, nodeB>>}, RawLinks <- {<<program, nodeB>>},
    Publications <- {[node |-> nodeA, tuple |-> [key |-> 1, value |-> 1]]},
    MaxConnects <- 2, MaxDrops <- 1, MaxRaw <- 2, Expiring <- {<<program, nodeB>>},
    Restarting <- {nodeA, nodeB}, OnlyQuiet <- FALSE

ActorsInit ==
    /\ subject \in {"zactor", "zproxy", "zbeacon", "zproc", "zgossip"}
    /\ Init /\ ProxyInit /\ ProcInit /\ Beacon!BeaconInit /\ Sessions!Init

\* The variables of the other subjects stay.
OthersStay ==
    /\ UNCHANGED subject
    /\ IF subject = "zactor" THEN TRUE ELSE UNCHANGED vars
    /\ IF subject = "zproxy" THEN TRUE ELSE UNCHANGED proxy_vars
    /\ IF subject = "zproc" THEN TRUE ELSE UNCHANGED proc_vars
    /\ IF subject = "zbeacon" THEN TRUE ELSE UNCHANGED beacon_vars
    /\ IF subject = "zgossip" THEN TRUE ELSE UNCHANGED gossip_vars

zactor_next == subject = "zactor" /\ Next /\ OthersStay

zproxy_next == subject = "zproxy" /\ ProxyNext /\ OthersStay

zproc_next == subject = "zproc" /\ ProcNext /\ OthersStay

zbeacon_next == subject = "zbeacon" /\ Beacon!BeaconNext /\ OthersStay

zgossip_next == subject = "zgossip" /\ Sessions!Next /\ OthersStay

ActorsNext == zactor_next \/ zproxy_next \/ zbeacon_next \/ zproc_next \/ zgossip_next

\* The fairness of each module, for the behaviours of its subject.
ActorsSpec ==
    /\ ActorsInit
    /\ [][ActorsNext]_<<subject, vars, proxy_vars, beacon_vars, proc_vars, gossip_vars>>
    /\ WF_vars(subject = "zactor" /\ AppStep)
    /\ WF_vars(subject = "zactor" /\ ActStep)
    /\ WF_proxy_vars(subject = "zproxy" /\ ThreadStep)
    /\ WF_proxy_vars(subject = "zproxy" /\ app_signalled)
    /\ \A output \in Outputs : WF_proxy_vars(subject = "zproxy" /\ peer_takes(output))
    /\ WF_beacon_vars(subject = "zbeacon" /\ Beacon!zbeacon)
    /\ WF_beacon_vars(subject = "zbeacon" /\ Beacon!tick)
    /\ WF_proc_vars(subject = "zproc" /\ CallerStep)
    /\ WF_proc_vars(subject = "zproc" /\ s_pipe_handler)
    /\ WF_proc_vars(subject = "zproc" /\ (s_zproc_alive \/ s_zproc_alive_done))
    /\ WF_proc_vars(subject = "zproc" /\ s_zproc_actor)
    /\ WF_proc_vars(subject = "zproc" /\ s_thread_shim)
    /\ WF_proc_vars(subject = "zproc" /\ child_signal(SIGKILL))
    /\ \A l \in Sessions!AllLinks :
          /\ WF_gossip_vars(subject = "zgossip" /\ Sessions!s_server_handle_protocol(l))
          /\ WF_gossip_vars(subject = "zgossip" /\ Sessions!remote_handler(l))
          /\ WF_gossip_vars(subject = "zgossip" /\ Sessions!monitor_handler(l))
          /\ WF_gossip_vars(subject = "zgossip" /\ Sessions!reconnect(l))

-----------------------------------------------------------------------------
(* The properties of several actors, and those of the instances. *)

\* No actor leaves its application waiting or its thread behind: the thread of a zactor
\* ends once zactor_destroy has returned, zproxy answers each command, $TERM included,
\* under traffic and blocked sends, and passes on what waits on either side, zbeacon
\* handles each command and sends its beacon again while its interface comes and goes, and
\* zproc_destroy returns whatever its child does.
ActorsAnswer ==
    /\ ThreadEnds
    /\ CommandsAnswered
    /\ MessagesFlow
    /\ [](Beacon!SocketPolled)
    /\ Beacon!CommandsTaken
    /\ Beacon!BeaconResumes
    /\ DestroyEnds

\* zgossip: the exchange of INVALID and HELLO that follows a second CONNECT, a lost
\* connection or a restart ends in a session.
SessionsSettle == Sessions!SessionsSettle

=============================================================================
