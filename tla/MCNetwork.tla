----------------------------- MODULE MCNetwork ------------------------------
(***************************************************************************)
(* Three zgossip nodes connected in a cycle, any of which may be stopped   *)
(* and started again with nothing; sockets that bind and connect while     *)
(* other processes take and release ports; a monitored socket; and an      *)
(* HTTP client, for model checking.  A behaviour is one of its subject;    *)
(* the variables of the others stay as they begin.                         *)
(***************************************************************************)
EXTENDS MCZGossip

VARIABLES
    subject,
    self, call, other, calls, attached, unused,
    at, socket_events, monitored, sink, polled, pipe, told, asked, app, received,
    commands, happened, reported, owed,
    client_pc, to_actor, to_app, transfers, handles, calling, sent, answers, request,
    response, contents, answer

sock_vars == <<self, call, other, calls, attached, unused>>
monitor_vars ==
    <<at, socket_events, monitored, sink, polled, pipe, told, asked, app, received,
      commands, happened, reported, owed>>
client_vars ==
    <<client_pc, to_actor, to_app, transfers, handles, calling, sent, answers, request,
      response, contents, answer>>

Endpoint(prefix, opcode, address, first, last) ==
    [prefix |-> prefix, opcode |-> opcode, address |-> address, first_str |-> first, last_str |-> last]

Sock == INSTANCE ZSock WITH
    Socks <- {"s1", "s2"}, DYNAMIC_FIRST <- 1, DYNAMIC_LAST <- 3, Types <- {"PUB", "SUB"},
    Names <- {1}, MaxCalls <- 2,
    Lists <- {<<Endpoint(">", "", <<"inproc", 1>>, 0, 0), Endpoint("@", "!", <<"none", 0>>, 0, 0)>>,
              <<Endpoint("", "*", <<"none", 0>>, 0, 2)>>,
              <<Endpoint("", "", <<"tcp", 2>>, 0, 0), Endpoint("@", "", <<"none", 0>>, 0, 0)>>}

Monitor == INSTANCE ZMonitor WITH
    Names <- {"CONNECTED", "CLOSED"}, MaxEvents <- 3, MaxCommands <- 2, events <- socket_events

Client == INSTANCE ZHttpClient WITH
    MaxRequests <- 3, MaxContents <- 2, PipeHwm <- 1, Window <- 3,
    received <- answers, asked <- contents

NetworkInit ==
    /\ subject \in {"zgossip", "zsock", "zmonitor", "zhttp_client"}
    /\ Init /\ Monitor!MonitorInit /\ Client!ClientInit
    /\ Sock!SockInit /\ (subject = "zsock" \/ other = {})

\* The variables of the other subjects stay.
OthersStay ==
    /\ UNCHANGED subject
    /\ IF subject = "zgossip" THEN TRUE ELSE UNCHANGED vars
    /\ IF subject = "zsock" THEN TRUE ELSE UNCHANGED sock_vars
    /\ IF subject = "zmonitor" THEN TRUE ELSE UNCHANGED monitor_vars
    /\ IF subject = "zhttp_client" THEN TRUE ELSE UNCHANGED client_vars

zgossip_next == subject = "zgossip" /\ Next /\ OthersStay

zsock_next == subject = "zsock" /\ Sock!SockNext /\ OthersStay

zmonitor_next == subject = "zmonitor" /\ Monitor!MonitorNext /\ OthersStay

zhttp_client_next == subject = "zhttp_client" /\ Client!ClientNext /\ OthersStay

NetworkNext == zgossip_next \/ zsock_next \/ zmonitor_next \/ zhttp_client_next

\* The fairness of FairSpec, and calls that do not stop half-way.
NetworkSpec ==
    /\ NetworkInit
    /\ [][NetworkNext]_<<subject, vars, sock_vars, monitor_vars, client_vars>>
    /\ \A l \in AllLinks : /\ WF_vars(subject = "zgossip" /\ s_server_handle_protocol(l))
                           /\ WF_vars(subject = "zgossip" /\ remote_handler(l))
                           /\ WF_vars(subject = "zgossip" /\ monitor_handler(l))
                           /\ WF_vars(subject = "zgossip" /\ reconnect(l))
    /\ \A s \in {"s1", "s2"} : WF_sock_vars(subject = "zsock" /\ Sock!CallStep(s))
    /\ WF_monitor_vars(subject = "zmonitor" /\ Monitor!zmonitor)
    /\ WF_monitor_vars(subject = "zmonitor" /\ (Monitor!app_wait \/ Monitor!app_recv))
    /\ WF_client_vars(subject = "zhttp_client" /\ Client!ActorStep)
    /\ WF_client_vars(subject = "zhttp_client" /\ Client!CallStep)
    /\ WF_client_vars(subject = "zhttp_client" /\ Client!TransferEnds)

-----------------------------------------------------------------------------
(* The properties of the instance. *)

\* zsock: an attach has done exactly what its endpoints ask for, and a search for a port
\* gives up only when none is free and takes the first that is, whatever other processes
\* do in between.
AttachExact == subject = "zsock" => Sock!AttachExact /\ Sock!SearchFinds /\ Sock!FirstFree

\* zmonitor: the events of the sink are those the application gets, in their order.
EventsTold == Monitor!EventsTold

\* zhttp_client: a content is freed once, a constant one never, and the answer that the
\* application holds is not freed while the next one comes; a transfer that ends is found
\* among the pending handles.
ContentFreedOnce == Client!ContentFreedOnce /\ Client!AnswerHeld /\ Client!HandlesExact

\* No call waits for ever, and no event: bind, connect and attach return, for the search
\* through the ports ends; the calls on zhttp_client return although its pipe fills up;
\* and an event that zmonitor was asked for reaches the application.
NetworkCallsReturn ==
    /\ subject = "zsock" => Sock!CallsEnd
    /\ Client!CallsReturn
    /\ Monitor!EventsArrive

=============================================================================
