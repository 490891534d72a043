------------------------------ MODULE ZActor ------------------------------
(***************************************************************************)
(* The life of one zactor: the application thread that calls zactor_new,  *)
(* uses the actor and calls zactor_destroy, the actor thread that runs the *)
(* handler inside s_thread_shim, and the PAIR-PAIR pipe between them.      *)
(*                                                                         *)
(* The pipe is libzmq's: two FIFO queues with a high-water mark.  A send   *)
(* to a full queue, or to a peer that has closed its end, waits (or fails  *)
(* at once when sndtimeo is 0); messages sent before a close are still     *)
(* read by the peer; a read of an empty queue waits.                       *)
(*                                                                         *)
(* A signal is the same message whatever it means: zsock_wait cannot tell  *)
(* "init" from "reply" from "exit".  The model names them apart only for   *)
(* the properties.                                                         *)
(***************************************************************************)
EXTENDS Integers, Sequences

CONSTANTS
    Capacity,       \* messages one direction of the pipe holds (zsys_pipehwm)
    MaxSends,       \* bound: commands the application sends
    MaxEmits,       \* bound: messages the handler sends unasked
    StopWords,      \* the words on which the handler returns
    MayQuit,        \* may the handler return without being told to?
    MayFailInit,    \* may the handler return before it signals?
    MayInterrupt,   \* may a signal to the process end a zsock_wait with -1?
    Collects        \* does the application collect a signal reply before it
                    \* sends another such command or destroys the actor?

\* A command is answered by nothing, by a message (ECHO) or by a signal (ALLOW).
Commands == {"plain", "echo", "signal"}

ASSUME CapacityAssumption == Capacity \in Nat \ {0}
ASSUME BoundsAssumption == MaxSends \in Nat /\ MaxEmits \in Nat
ASSUME StopAssumption == "$TERM" \in StopWords /\ StopWords \cap Commands = {}
ASSUME FlagsAssumption ==
    /\ MayQuit \in BOOLEAN /\ MayFailInit \in BOOLEAN
    /\ MayInterrupt \in BOOLEAN /\ Collects \in BOOLEAN

VARIABLES
    app,        \* where the application thread is
    act,        \* where the actor thread is
    down,       \* queue of the pipe, application to actor
    up,         \* queue of the pipe, actor to application
    outgoing,   \* the command the application is sending
    cmd,        \* the command the handler is working on
    destructor, \* the word the actor's destructor sends
    owed,       \* signal replies the application has asked for, not collected
    sends,      \* commands sent or being sent
    handled,    \* commands the handler has finished
    emits,      \* messages sent unasked
    reason      \* history: why the handler returned, "stop" if it read a stop word

vars == <<app, act, down, up, outgoing, cmd, destructor, owed, sends, handled, emits, reason>>

Signals == {"init", "reply", "exit"}

\* Type correctness of both threads, the pipe between them and the counters: no
\* more signal replies are collected than commands asked for.
TypeOK ==
    /\ app \in {"none", "wait_init", "running", "sending", "waiting",
                "stopping", "wait_exit", "closing", "gone"}
    /\ act \in {"none", "starting", "loop", "handling", "returned",
                "signalled", "gone"}
    /\ down \in Seq(Commands \cup StopWords)
    /\ up \in Seq(Signals \cup {"data"})
    /\ outgoing \in Commands
    /\ cmd \in Commands \cup {"event"}
    /\ destructor \in StopWords
    /\ owed \in Nat
    /\ sends \in 0..MaxSends
    /\ handled \in Nat
    /\ emits \in 0..MaxEmits
    /\ reason \in {"none", "stop"}

Init ==
    /\ app = "none" /\ act = "none"
    /\ down = <<>> /\ up = <<>>
    /\ outgoing = "plain" /\ cmd = "plain"
    /\ destructor = "$TERM"
    /\ owed = 0 /\ sends = 0 /\ handled = 0 /\ emits = 0 /\ reason = "none"

-----------------------------------------------------------------------------
\* The pipe

AppEndOpen == app \notin {"none", "gone"}
ActEndOpen == act \notin {"none", "gone"}
RoomDown == ActEndOpen /\ Len(down) < Capacity
RoomUp == AppEndOpen /\ Len(up) < Capacity

-----------------------------------------------------------------------------
\* The application thread

\* Mutant: the constructor does not wait for the handler.
mut_new_no_wait ==
    /\ app = "none"
    /\ app' = "running" /\ act' = "starting"
    /\ UNCHANGED <<down, up, outgoing, cmd, destructor, owed, sends, handled, emits, reason>>

\* Make the pipe, start the thread, then wait for a signal from the handler.
zactor_new ==
    /\ app = "none"
    /\ app' = "wait_init" /\ act' = "starting"
    /\ UNCHANGED <<down, up, outgoing, cmd, destructor, owed, sends, handled, emits, reason>>

zactor_set_destructor ==
    /\ app = "running"
    /\ \E word \in StopWords : destructor' = word
    /\ UNCHANGED <<app, act, down, up, outgoing, cmd, owed, sends, handled, emits, reason>>

\* The call to send a command; it returns when the queue takes the message.
zactor_send ==
    /\ app = "running" /\ sends < MaxSends
    /\ \E c \in Commands :
        /\ Collects /\ c = "signal" => owed = 0
        /\ outgoing' = c
        /\ owed' = IF c = "signal" THEN owed + 1 ELSE owed
    /\ app' = "sending" /\ sends' = sends + 1
    /\ UNCHANGED <<act, down, up, cmd, destructor, handled, emits, reason>>

zactor_send_done ==
    /\ app = "sending" /\ RoomDown
    /\ down' = Append(down, outgoing)
    /\ app' = "running"
    /\ UNCHANGED <<act, up, outgoing, cmd, destructor, owed, sends, handled, emits, reason>>

\* The application reads whatever message comes next, a signal included.
zactor_recv ==
    /\ app = "running" /\ up # <<>>
    /\ up' = Tail(up)
    /\ owed' = IF Head(up) \in Signals /\ owed > 0 THEN owed - 1 ELSE owed
    /\ UNCHANGED <<app, act, down, outgoing, cmd, destructor, sends, handled, emits, reason>>

\* The application calls zsock_wait to collect the reply to a command.
app_wait ==
    /\ app = "running"
    /\ Collects => owed > 0
    /\ app' = "waiting"
    /\ UNCHANGED <<act, down, up, outgoing, cmd, destructor, owed, sends, handled, emits, reason>>

\* Where each zsock_wait resumes.
AfterWait == [wait_init |-> "running", waiting |-> "running", wait_exit |-> "closing"]

\* One turn of zsock_wait: a message that is no signal is thrown away.
zsock_wait ==
    /\ app \in DOMAIN AfterWait /\ up # <<>>
    /\ up' = Tail(up)
    /\ app' = IF Head(up) \in Signals THEN AfterWait[app] ELSE app
    /\ owed' = IF Head(up) \in Signals /\ app = "waiting" /\ owed > 0
               THEN owed - 1 ELSE owed
    /\ UNCHANGED <<act, down, outgoing, cmd, destructor, sends, handled, emits, reason>>

\* zmsg_recv returned NULL: zsock_wait gives up with -1, its callers go on.
zsock_wait_interrupted ==
    /\ MayInterrupt /\ app \in DOMAIN AfterWait
    /\ app' = AfterWait[app]
    /\ UNCHANGED <<act, down, up, outgoing, cmd, destructor, owed, sends, handled, emits, reason>>

zactor_destroy ==
    /\ app = "running"
    /\ Collects => owed = 0
    /\ app' = "stopping"
    /\ UNCHANGED <<act, down, up, outgoing, cmd, destructor, owed, sends, handled, emits, reason>>

\* Mutant: the destructor does not wait for the exit signal.
mut_destructor_no_wait ==
    /\ app = "stopping"
    /\ down' = IF RoomDown THEN Append(down, destructor) ELSE down
    /\ app' = "closing"
    /\ UNCHANGED <<act, up, outgoing, cmd, destructor, owed, sends, handled, emits, reason>>

\* Mutant: the stop word overtakes the commands.
mut_destructor_urgent ==
    /\ app = "stopping"
    /\ \/ RoomDown /\ down' = <<destructor>> \o down /\ app' = "wait_exit"
       \/ ~RoomDown /\ down' = down /\ app' = "closing"
    /\ UNCHANGED <<act, up, outgoing, cmd, destructor, owed, sends, handled, emits, reason>>

\* Send the stop word without blocking, and wait only if it was sent.
s_zactor_destructor ==
    /\ app = "stopping"
    /\ \/ RoomDown /\ down' = Append(down, destructor) /\ app' = "wait_exit"
       \/ ~RoomDown /\ down' = down /\ app' = "closing"
    /\ UNCHANGED <<act, up, outgoing, cmd, destructor, owed, sends, handled, emits, reason>>

zactor_destroy_done ==
    /\ app = "closing"
    /\ app' = "gone"
    /\ UNCHANGED <<act, down, up, outgoing, cmd, destructor, owed, sends, handled, emits, reason>>

-----------------------------------------------------------------------------
\* The actor thread: the handler, then the shim that called it

handler_init ==
    /\ act = "starting"
    /\ \/ RoomUp /\ up' = Append(up, "init") /\ act' = "loop"
       \/ MayFailInit /\ up' = up /\ act' = "returned"
    /\ UNCHANGED <<app, down, outgoing, cmd, destructor, owed, sends, handled, emits, reason>>

handler_recv ==
    /\ act = "loop" /\ down # <<>>
    /\ down' = Tail(down)
    /\ \/ Head(down) \in StopWords /\ act' = "returned" /\ cmd' = cmd /\ reason' = "stop"
       \/ /\ Head(down) \notin StopWords /\ act' = "handling" /\ cmd' = Head(down)
          /\ reason' = reason
    /\ UNCHANGED <<app, up, outgoing, destructor, owed, sends, handled, emits>>

\* The handler finishes with cmd; a send to a full pipe holds it up.
handler_reply ==
    /\ act = "handling"
    /\ \/ cmd = "plain" /\ up' = up
       \/ cmd \in {"echo", "event"} /\ RoomUp /\ up' = Append(up, "data")
       \/ cmd = "signal" /\ RoomUp /\ up' = Append(up, "reply")
    /\ act' = "loop"
    /\ handled' = IF cmd = "event" THEN handled ELSE handled + 1
    /\ UNCHANGED <<app, down, outgoing, cmd, destructor, owed, sends, emits, reason>>

\* The handler has an event of its own (a beacon, a monitor event) to report.
handler_event ==
    /\ act = "loop" /\ emits < MaxEmits
    /\ act' = "handling" /\ cmd' = "event" /\ emits' = emits + 1
    /\ UNCHANGED <<app, down, up, outgoing, destructor, owed, sends, handled, reason>>

\* The handler's poll was interrupted, or it failed: it returns by itself.
handler_quit ==
    /\ MayQuit /\ act = "loop"
    /\ act' = "returned"
    /\ UNCHANGED <<app, down, up, outgoing, cmd, destructor, owed, sends, handled, emits, reason>>

\* sndtimeo 0: the exit signal is dropped when there is no room for it.
s_thread_shim_signal ==
    /\ act = "returned"
    /\ up' = IF RoomUp THEN Append(up, "exit") ELSE up
    /\ act' = "signalled"
    /\ UNCHANGED <<app, down, outgoing, cmd, destructor, owed, sends, handled, emits, reason>>

s_thread_shim_done ==
    /\ act = "signalled"
    /\ act' = "gone"
    /\ UNCHANGED <<app, down, up, outgoing, cmd, destructor, owed, sends, handled, emits, reason>>

-----------------------------------------------------------------------------
\* Both threads have ended: nothing is left to do.
Terminated ==
    /\ app = "gone" /\ act = "gone"
    /\ UNCHANGED vars

\* The steps inside a call of the application, and those of the actor's thread.
AppStep == zactor_send_done \/ zsock_wait \/ s_zactor_destructor \/ zactor_destroy_done
ActStep == handler_init \/ handler_recv \/ handler_reply
           \/ s_thread_shim_signal \/ s_thread_shim_done

Next ==
    \/ zactor_new \/ zactor_set_destructor \/ zactor_send \/ zactor_send_done
    \/ zactor_recv \/ app_wait \/ zsock_wait \/ zsock_wait_interrupted
    \/ zactor_destroy \/ s_zactor_destructor \/ zactor_destroy_done
    \/ handler_init \/ handler_recv \/ handler_reply \/ handler_event
    \/ handler_quit \/ s_thread_shim_signal \/ s_thread_shim_done
    \/ Terminated

Spec == Init /\ [][Next]_vars

\* Each thread runs: a step that stays possible inside a call is taken.
FairSpec == Spec /\ WF_vars(AppStep) /\ WF_vars(ActStep)

-----------------------------------------------------------------------------
(***************************************************************************)
(* zactor.c:18-20, "the constructor and destructor are always             *)
(* synchronized": zactor_new does not return before the handler has done   *)
(* its set-up, and once zactor_destroy has returned the handler has too,   *)
(* so that nothing it owns is still in use.                                *)
(***************************************************************************)
NewSynchronizes == app \notin {"none", "wait_init"} => act \notin {"none", "starting"}

\* See above: when zactor_destroy returns, the handler has returned.
DestroySynchronizes == app = "gone" => act \in {"signalled", "gone"}

(***************************************************************************)
(* The stop word queues behind the commands: a handler that ends because   *)
(* it was told to (handler_recv) has finished every command that           *)
(* zactor_send accepted before, even when the destructor was interrupted.  *)
(***************************************************************************)
CommandsFinished == reason = "stop" => handled = sends

(***************************************************************************)
(* zactor_destroy returns: whatever is in the pipe, the destructor never   *)
(* waits for an exit signal that will not come.                            *)
(***************************************************************************)
DestroyReturns == app = "stopping" ~> app = "gone"

(***************************************************************************)
(* No thread outlives its actor: once zactor_destroy has returned, the     *)
(* shim of the actor thread finishes and closes its end of the pipe.       *)
(***************************************************************************)
ThreadEnds == app = "gone" ~> act = "gone"
=============================================================================
