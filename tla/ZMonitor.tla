------------------------------ MODULE ZMonitor ------------------------------
(***************************************************************************)
(* The zmonitor actor: the application names the events it wants and sends *)
(* START; the actor has libzmq report the events of the monitored socket   *)
(* to a sink and passes them on to the application.  Events happen on      *)
(* libzmq's own threads, at any moment of the set-up.                      *)
(***************************************************************************)
EXTENDS Integers, Sequences, SequencesExt

CONSTANTS
    Names,          \* the names of events
    MaxEvents,      \* bound: events of the monitored socket
    MaxCommands     \* bound: commands besides START and $TERM

VARIABLES
    at,             \* the step of the actor: poll, monitor, connect, signal or ended
    events,         \* self->events
    monitored,      \* the events libzmq reports to the sink
    sink,           \* events in the sink
    polled,         \* is the sink in the poller?
    pipe,           \* commands to the actor
    told,           \* what the actor has sent: events and the signal
    asked,          \* the events in the LISTEN commands sent before START
    app,            \* the application: setup, waiting, started or destroying
    received,       \* the events it has received
    commands,       \* commands it has sent
    happened,       \* how many events the monitored socket has had
    reported,       \* those that libzmq put in the sink
    owed            \* those it had after the wait for START was over, of the names asked for

monitorSelf == <<at, events, monitored, polled>>
monitorApp == <<asked, app, received, commands>>
socket == <<happened, reported, owed>>
monitorVars == <<monitorSelf, sink, pipe, told, monitorApp, socket>>

Signal == [name |-> "signal", nbr |-> 0]
Event(name, nbr) == [name |-> name, nbr |-> nbr]
Command(name, event) == [name |-> name, event |-> event]

MonitorInit ==
    /\ at = "poll" /\ events = {} /\ monitored = {} /\ polled = FALSE
    /\ sink = <<>> /\ pipe = <<>> /\ told = <<>>
    /\ asked = {} /\ app = "setup" /\ received = <<>> /\ commands = 0
    /\ happened = 0 /\ reported = <<>> /\ owed = {}

-----------------------------------------------------------------------------
(* The application and libzmq (external). *)

app_listen(name) ==
    /\ app \in {"setup", "started"} /\ commands < MaxCommands
    /\ commands' = commands + 1
    /\ asked' = IF app = "setup" THEN asked \cup {name} ELSE asked
    /\ pipe' = Append(pipe, Command("LISTEN", name))
    /\ UNCHANGED <<monitorSelf, sink, told, app, received, socket>>

app_verbose ==
    /\ app \in {"setup", "started"} /\ commands < MaxCommands
    /\ commands' = commands + 1
    /\ pipe' = Append(pipe, Command("VERBOSE", ""))
    /\ UNCHANGED <<monitorSelf, sink, told, asked, app, received, socket>>

app_start ==
    /\ app = "setup"
    /\ app' = "waiting"
    /\ pipe' = Append(pipe, Command("START", ""))
    /\ UNCHANGED <<monitorSelf, sink, told, asked, received, commands, socket>>

app_destroy ==
    /\ app \in {"setup", "started"}
    /\ app' = "destroying"
    /\ pipe' = Append(pipe, Command("$TERM", ""))
    /\ UNCHANGED <<monitorSelf, sink, told, asked, received, commands, socket>>

\* zsock_wait drops what is not a signal.
app_wait ==
    /\ app = "waiting" /\ told # <<>>
    /\ app' = IF Head(told) = Signal THEN "started" ELSE app
    /\ told' = Tail(told)
    /\ UNCHANGED <<monitorSelf, sink, pipe, asked, received, commands, socket>>

app_recv ==
    /\ app = "started" /\ told # <<>>
    /\ received' = Append(received, Head(told))
    /\ told' = Tail(told)
    /\ UNCHANGED <<monitorSelf, sink, pipe, asked, app, commands, socket>>

\* The monitored socket has an event.  What happens before the sink is connected may be lost.
socket_event(name) ==
    LET event == Event(name, happened + 1)
    IN  /\ happened < MaxEvents
        /\ happened' = happened + 1
        /\ owed' = IF app = "started" /\ name \in asked THEN owed \cup {happened + 1} ELSE owed
        /\ \/ /\ name \in monitored
              /\ sink' = Append(sink, event) /\ reported' = Append(reported, event)
           \/ /\ name \notin monitored \/ at = "connect"
              /\ UNCHANGED <<sink, reported>>
        /\ UNCHANGED <<monitorSelf, pipe, told, monitorApp>>

-----------------------------------------------------------------------------
(* The actor. *)

\* A mistake: the signal is sent before the monitor is set up.
mut_receive_start == at' = "monitor" /\ told' = Append(told, Signal)

receive_start == at' = "monitor" /\ UNCHANGED told

s_self_listen(event) == events' = events \cup {event}

s_self_handle_pipe ==
    /\ at = "poll" /\ pipe # <<>>
    /\ pipe' = Tail(pipe)
    /\ LET command == Head(pipe)
       IN  \/ /\ command.name = "LISTEN" /\ s_self_listen(command.event)
              /\ UNCHANGED <<at, monitored, told>>
           \/ /\ command.name = "START" /\ receive_start
              /\ UNCHANGED <<events, monitored>>
           \/ /\ command.name = "VERBOSE" /\ UNCHANGED <<at, events, monitored, told>>
           \/ /\ command.name = "$TERM"
              /\ at' = "ended" /\ monitored' = {}
              /\ UNCHANGED <<events, told>>
    /\ UNCHANGED <<polled, sink, monitorApp, socket>>

s_self_start ==
    /\ at = "monitor"
    /\ at' = "connect" /\ monitored' = events
    /\ UNCHANGED <<events, polled, sink, pipe, told, monitorApp, socket>>

start_connect ==
    /\ at = "connect"
    /\ at' = "signal" /\ polled' = TRUE
    /\ UNCHANGED <<events, monitored, sink, pipe, told, monitorApp, socket>>

start_signal ==
    /\ at = "signal"
    /\ at' = "poll" /\ told' = Append(told, Signal)
    /\ UNCHANGED <<events, monitored, polled, sink, pipe, monitorApp, socket>>

\* The pipe comes first in the poller.
s_self_handle_sink ==
    /\ at = "poll" /\ pipe = <<>> /\ polled /\ sink # <<>>
    /\ told' = Append(told, Head(sink)) /\ sink' = Tail(sink)
    /\ UNCHANGED <<monitorSelf, pipe, monitorApp, socket>>

\* zpoller_wait is interrupted by a signal to the process.
interrupted ==
    /\ at = "poll" /\ pipe = <<>> /\ (polled => sink = <<>>)
    /\ at' = "ended" /\ monitored' = {}
    /\ UNCHANGED <<events, polled, sink, pipe, told, monitorApp, socket>>

zmonitor ==
    \/ s_self_handle_pipe \/ s_self_start \/ start_connect \/ start_signal \/ s_self_handle_sink

MonitorNext ==
    \/ \E name \in Names : app_listen(name) \/ socket_event(name)
    \/ app_verbose \/ app_start \/ app_destroy \/ app_wait \/ app_recv
    \/ zmonitor \/ interrupted

\* The actor's thread runs, and an application that waits for the signal or reads events does so.
MonitorFairness ==
    /\ WF_monitorVars(zmonitor)
    /\ WF_monitorVars(app_wait \/ app_recv)

MonitorSpec == MonitorInit /\ [][MonitorNext]_monitorVars /\ MonitorFairness

-----------------------------------------------------------------------------
\* While the actor runs, the events libzmq put into the sink are those that the application
\* received and will receive, in their order: none is taken for, or dropped with, the
\* signal that answers START; and every event of a name asked for in LISTEN that happens
\* once zsock_wait has returned from START is among them.
EventsTold ==
    at # "ended" =>
        /\ received \o SelectSeq(told, LAMBDA m : m # Signal) \o sink = reported
        /\ \A n \in owed : \E e \in ToSet(reported) : e.nbr = n

\* An event that the application asked for before START, and that happens after it, reaches
\* it, unless the actor is destroyed or interrupted.
EventsArrive ==
    \A n \in 1 .. MaxEvents :
        n \in owed ~> (at = "ended" \/ app = "destroying" \/ \E e \in ToSet(received) : e.nbr = n)
=============================================================================
