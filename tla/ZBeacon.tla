------------------------------- MODULE ZBeacon -------------------------------
(***************************************************************************)
(* The zbeacon actor on a network interface that comes and goes and loses  *)
(* datagrams.  One turn of the loop polls the pipe and the UDP socket,     *)
(* then handles the command, then the datagram, then sends a beacon that   *)
(* is due, each step seeing what the one before has changed.               *)
(***************************************************************************)
EXTENDS Integers, Sequences

CONSTANTS
    Data,           \* beacons, by their content
    MaxCommands,    \* bound: commands of the application
    MaxFlaps,       \* bound: times the interface goes away
    MaxQueue,       \* bound: datagrams waiting in the UDP socket
    Reconfigures    \* does the application send CONFIGURE more than once?

None == "none"
Invalid == 0        \* INVALID_SOCKET; the sockets opened are 2, 1, 2, ...

VARIABLES
    at,             \* the step of the loop: poll, pipe, udp, ping or ended
    udpsock, sockets,           \* udpsock and udpsock_send, and the last one opened
    stale,          \* has the interface gone away since they were bound?
    transmit, filter, due, terminated,      \* due: ping_at has passed
    polled,         \* what zmq_poll found readable: [pipe, udp], udp the socket
    arrived,        \* datagrams waiting in udpsock
    pipe,           \* commands to the actor
    commands, configured,       \* the application's side
    heard, emitted,             \* beacon handed to the application, sent, in this turn
    up, flaps                   \* the interface

socks == <<udpsock, sockets, stale, arrived>>
self == <<transmit, filter, due, terminated>>
app == <<commands, configured>>
net == <<up, flaps>>
told == <<heard, emitted>>
vars == <<at, socks, self, polled, pipe, app, told, net>>

Command(name, data) == [name |-> name, data |-> data]
Unpolled == [pipe |-> FALSE, udp |-> Invalid]

BeaconInit ==
    /\ at = "poll" /\ udpsock = Invalid /\ sockets = 1 /\ stale = FALSE /\ arrived = <<>>
    /\ transmit = None /\ filter = FALSE /\ due = FALSE /\ terminated = FALSE
    /\ polled = Unpolled /\ pipe = <<>>
    /\ commands = 0 /\ configured = FALSE
    /\ heard = None /\ emitted = FALSE /\ up = TRUE /\ flaps = 0

-----------------------------------------------------------------------------
(* The application, the clock and the network (external). *)

Commands ==
    {Command(name, None) : name \in {"CONFIGURE", "SILENCE", "SUBSCRIBE", "UNSUBSCRIBE",
                                     "VERBOSE", "$TERM"}}
        \cup {Command("PUBLISH", d) : d \in Data}

\* CONFIGURE is the first command; $TERM is the last, and always possible.
app_send(c) ==
    /\ ~terminated /\ pipe = <<>>
    /\ c.name = "$TERM" \/ commands < MaxCommands
    /\ c.name = "$TERM" \/ (c.name = "CONFIGURE") = ~configured
          \/ (Reconfigures /\ c.name = "CONFIGURE")
    /\ commands' = IF c.name = "$TERM" THEN commands ELSE commands + 1
    /\ configured' = (configured \/ c.name = "CONFIGURE")
    /\ pipe' = <<c>>
    /\ UNCHANGED <<at, socks, self, polled, told, net>>

\* The interval has passed.
tick ==
    /\ transmit # None /\ ~due
    /\ due' = TRUE
    /\ UNCHANGED <<at, socks, transmit, filter, terminated, polled, pipe, app, told, net>>

\* A beacon, of a peer or the echo of ours, reaches the socket; others are lost.
datagram(d) ==
    /\ up /\ udpsock # Invalid /\ Len(arrived) < MaxQueue
    /\ arrived' = Append(arrived, d)
    /\ UNCHANGED <<at, udpsock, sockets, stale, self, polled, pipe, app, told, net>>

\* A socket bound before the interface went away cannot send through it again.
interface_down ==
    /\ up /\ flaps < MaxFlaps
    /\ up' = FALSE /\ flaps' = flaps + 1 /\ stale' = TRUE
    /\ UNCHANGED <<at, udpsock, sockets, arrived, self, polled, pipe, app, told>>

interface_up ==
    /\ ~up
    /\ up' = TRUE
    /\ UNCHANGED <<at, socks, self, polled, pipe, app, told, flaps>>

-----------------------------------------------------------------------------
(* The actor. *)

\* The sockets are closed, and new ones bound if there is an interface.
s_self_prepare_udp ==
    /\ udpsock' = IF up THEN 3 - sockets ELSE Invalid
    /\ sockets' = IF up THEN 3 - sockets ELSE sockets
    /\ stale' = FALSE /\ arrived' = <<>>

Readable == udpsock # Invalid /\ arrived # <<>>

\* Blocks until the pipe or the socket can be read, or the beacon is due.
zmq_poll ==
    /\ at = "poll"
    /\ pipe # <<>> \/ Readable \/ (transmit # None /\ due)
    /\ polled' = [pipe |-> pipe # <<>>, udp |-> IF Readable THEN udpsock ELSE Invalid]
    /\ at' = "pipe" /\ emitted' = FALSE /\ heard' = None
    /\ UNCHANGED <<socks, self, pipe, app, net>>

Reopens(name) == name = "CONFIGURE"

s_self_handle_pipe ==
    /\ at = "pipe" /\ polled.pipe
    /\ LET c == Head(pipe)
       IN  /\ IF Reopens(c.name) THEN s_self_prepare_udp ELSE UNCHANGED socks
           /\ transmit' = CASE c.name = "PUBLISH" -> c.data
                            [] c.name = "SILENCE" -> None
                            [] OTHER -> transmit
           /\ due' = (c.name # "SILENCE" /\ (due \/ c.name = "PUBLISH"))
           /\ filter' = (c.name # "UNSUBSCRIBE" /\ (filter \/ c.name = "SUBSCRIBE"))
           /\ terminated' = (c.name = "$TERM")
    /\ pipe' = Tail(pipe) /\ at' = "udp"
    /\ UNCHANGED <<polled, app, told, net>>

no_command ==
    /\ at = "pipe" /\ ~polled.pipe
    /\ at' = "udp"
    /\ UNCHANGED <<socks, self, polled, pipe, app, told, net>>

\* recvfrom blocks while the socket it is given has nothing to read.
s_self_handle_udp ==
    /\ at = "udp" /\ polled.udp # Invalid /\ Readable
    /\ heard' = IF filter /\ Head(arrived) # transmit THEN Head(arrived) ELSE None
    /\ arrived' = Tail(arrived) /\ at' = "ping"
    /\ UNCHANGED <<udpsock, sockets, stale, self, polled, pipe, app, emitted, net>>

no_datagram ==
    /\ at = "udp" /\ polled.udp = Invalid
    /\ at' = "ping"
    /\ UNCHANGED <<socks, self, polled, pipe, app, told, net>>

Sent == udpsock # Invalid /\ up /\ ~stale

\* A beacon that cannot be sent makes the actor open the sockets anew, and wait
\* for the next interval.
s_emit_beacon ==
    /\ at = "ping" /\ transmit # None /\ due
    /\ emitted' = Sent
    /\ IF Sent THEN UNCHANGED socks ELSE s_self_prepare_udp
    /\ due' = FALSE
    /\ at' = IF terminated THEN "ended" ELSE "poll"
    /\ polled' = Unpolled
    /\ UNCHANGED <<transmit, filter, terminated, pipe, app, heard, net>>

not_due ==
    /\ at = "ping" /\ ~(transmit # None /\ due)
    /\ at' = IF terminated THEN "ended" ELSE "poll"
    /\ polled' = Unpolled
    /\ UNCHANGED <<socks, self, pipe, app, told, net>>

zbeacon ==
    \/ zmq_poll
    \/ s_self_handle_pipe \/ no_command
    \/ s_self_handle_udp \/ no_datagram
    \/ s_emit_beacon \/ not_due

BeaconNext ==
    \/ \E c \in Commands : app_send(c)
    \/ \E d \in Data : datagram(d)
    \/ tick \/ interface_down \/ interface_up
    \/ zbeacon

BeaconSpec == BeaconInit /\ [][BeaconNext]_vars

\* The actor's thread is scheduled, and time passes.
FairBeaconSpec == BeaconSpec /\ WF_vars(zbeacon) /\ WF_vars(tick)

-----------------------------------------------------------------------------
(* Properties. *)

\* The socket that is read is the one zmq_poll found readable, although commands
\* and failed beacons close and open sockets: recvfrom would block, or die on a
\* closed one.
SocketPolled == at = "udp" /\ polled.udp # Invalid => udpsock = polled.udp

\* A beacon that is published goes out again and again once the interface stays,
\* however often it went away, and even if it was away when CONFIGURE came.
BeaconResumes ==
    <>[](up /\ transmit # None /\ at # "ended") => []<>emitted

\* Every command, the $TERM that zactor_destroy waits on included, is handled,
\* whether or not beacons arrive and the interface works.
CommandsTaken == pipe # <<>> ~> pipe = <<>>
=============================================================================
