------------------------------ MODULE ZProxy ------------------------------
(***************************************************************************)
(* The zproxy actor: its commands, its poller, and the switching of        *)
(* multipart messages frame by frame between the two sockets, with a copy  *)
(* of each frame to the capture socket.                                    *)
(*                                                                         *)
(* The sockets are libzmq's.  A message reaches an input whole; a send of  *)
(* the first frame of a message waits while the output is at its           *)
(* high-water mark, and only then can a signal end it with -1.             *)
(***************************************************************************)
EXTENDS ZPoller

CONSTANTS
    MaxMessages,    \* bound: messages that arrive in all
    MaxFrames,      \* bound: frames of one message
    MaxRequests,    \* bound: commands before $TERM
    MaxInterrupts,  \* bound: signals that reach the proxy thread
    OutputHwm,      \* messages that an output or the capture socket holds
    EarlyResume,    \* may RESUME be sent before both sockets are configured?
    CaptureThread   \* is the capture socket read by a thread of its own?

ASSUME ProxyAssumption == MaxFrames \in Nat /\ MaxInterrupts \in Nat

Sides == {"frontend", "backend"}
Other(side) == IF side = "frontend" THEN "backend" ELSE "frontend"
Outputs == Sides \cup {"capture"}

\* VERBOSE, DOMAIN, PLAIN and CURVE change what the sockets are created with.
Setting == "setting"
ProxyCommands == {"FRONTEND", "BACKEND", "CAPTURE", "PAUSE", "RESUME", Setting}

VARIABLES
    user,       \* the application: ready, waiting for a signal, destroying, done
    request,    \* the command in the pipe, or "none"
    signalled,  \* is a signal for the application in the pipe?
    requests,   \* commands sent
    frontend, backend, capture, \* is the socket there?
    poller,     \* the zpoller of the actor
    place,      \* where the proxy thread is
    from,       \* the input that s_self_switch reads
    copied,     \* has the frame been copied to the capture socket?
    zsys_interrupted,
    arrived,    \* frames that arrived at each socket
    reads,      \* how many of them were read
    sent,       \* frames sent to each output
    taken,      \* messages the peers took from it
    interrupts, \* signals to the process so far
    paused      \* PAUSE was answered and no command has restarted the proxy

user_vars == <<user, request, signalled, requests>>
sockets == <<frontend, backend, capture>>
traffic == <<arrived, reads, sent, taken>>
proxy_vars ==
    <<user_vars, sockets, poller, place, from, copied, zsys_interrupted, traffic, interrupts,
      paused>>

ProxyInit ==
    /\ user = "ready" /\ request = "none" /\ signalled = FALSE /\ requests = 0
    /\ frontend = FALSE /\ backend = FALSE /\ capture = FALSE
    /\ poller = zpoller_new(<<"pipe">>)
    /\ place = "poll" /\ from = "frontend" /\ copied = FALSE
    /\ zsys_interrupted = FALSE
    /\ arrived = [s \in Sides |-> <<>>] /\ reads = [s \in Sides |-> 0]
    /\ sent = [o \in Outputs |-> <<>>] /\ taken = [o \in Outputs |-> 0]
    /\ interrupts = 0 /\ paused = FALSE

-----------------------------------------------------------------------------
(* The application, and the peers of the sockets (external). *)

\* s_self_configure asserts that the socket was not configured before.
MaySend(c) ==
    CASE c = "FRONTEND" -> ~frontend
      [] c = "BACKEND" -> ~backend
      [] c = "CAPTURE" -> ~capture
      [] c = "RESUME" -> EarlyResume \/ (frontend /\ backend)
      [] OTHER -> TRUE

\* A command, for whose signal the application waits.
app_send(c) ==
    /\ user = "ready" /\ requests < MaxRequests
    /\ MaySend(c)
    /\ user' = "waiting" /\ request' = c /\ requests' = requests + 1
    /\ UNCHANGED <<signalled, sockets, poller, place, from, copied, zsys_interrupted,
                   traffic, interrupts, paused>>

app_destroy ==
    /\ user = "ready"
    /\ user' = "destroying" /\ request' = "$TERM"
    /\ UNCHANGED <<signalled, requests, sockets, poller, place, from, copied,
                   zsys_interrupted, traffic, interrupts, paused>>

app_signalled ==
    /\ user \in {"waiting", "destroying"} /\ signalled
    /\ user' = IF user = "waiting" /\ place # "ended" THEN "ready" ELSE "done"
    /\ signalled' = FALSE
    /\ UNCHANGED <<request, requests, sockets, poller, place, from, copied,
                   zsys_interrupted, traffic, interrupts, paused>>

\* The messages whose last frame is there.
Complete(frames) == Cardinality({i \in DOMAIN frames : ~frames[i].more})
Messages == Complete(arrived["frontend"]) + Complete(arrived["backend"])

message_arrives(side, size) ==
    /\ IF side = "frontend" THEN frontend ELSE backend
    /\ Messages < MaxMessages
    /\ arrived' = [arrived EXCEPT ![side] = @ \o
            [i \in 1..size |-> [msg |-> Messages + 1, part |-> i, more |-> i < size]]]
    /\ UNCHANGED <<user_vars, sockets, poller, place, from, copied, zsys_interrupted,
                   reads, sent, taken, interrupts, paused>>

\* A peer takes a message; the capture socket is read by the application.
peer_takes(output) ==
    /\ taken[output] < Complete(sent[output])
    /\ output = "capture" => CaptureThread \/ user \in {"ready", "done"}
    /\ taken' = [taken EXCEPT ![output] = @ + 1]
    /\ UNCHANGED <<user_vars, sockets, poller, place, from, copied, zsys_interrupted,
                   arrived, reads, sent, interrupts, paused>>

-----------------------------------------------------------------------------
(* The actor. *)

\* The thread ends, and the actor shim signals.
Ends == place' = "ended" /\ signalled' = TRUE

s_self_add_to_poller_when_configured(p, hasFrontend, hasBackend) ==
    IF hasFrontend /\ hasBackend
      THEN zpoller_add(zpoller_add(p, "frontend"), "backend")
      ELSE p

pause_poller(p) == zpoller_new(<<"pipe">>)

mut_resume_without_pipe == zpoller_new(<<"frontend", "backend">>)

\* The argument list ends at the first NULL.
resume_poller ==
    zpoller_new(<<"pipe">> \o (IF frontend THEN <<"frontend">> ELSE <<>>)
                           \o (IF frontend /\ backend THEN <<"backend">> ELSE <<>>))

\* The application's command, answered by a signal, all but $TERM.
s_self_handle_pipe(p) ==
    /\ request' = "none"
    /\ frontend' = (frontend \/ request = "FRONTEND")
    /\ backend' = (backend \/ request = "BACKEND")
    /\ capture' = (capture \/ request = "CAPTURE")
    /\ poller' = CASE request \in {"FRONTEND", "BACKEND"} ->
                        s_self_add_to_poller_when_configured(p, frontend', backend')
                   [] request = "PAUSE" -> pause_poller(p)
                   [] request = "RESUME" -> resume_poller
                   [] OTHER -> p
    /\ paused' = CASE request = "PAUSE" -> TRUE
                   [] request \in {"FRONTEND", "BACKEND", "RESUME"} -> FALSE
                   [] OTHER -> paused
    /\ IF request = "$TERM" THEN Ends ELSE signalled' = TRUE /\ place' = "poll"
    /\ UNCHANGED from

Waits(side) == reads[side] < Len(arrived[side])
Ready ==
    (IF request # "none" THEN {"pipe"} ELSE {})
        \cup {s \in Sides : Waits(s) /\ (IF s = "frontend" THEN frontend ELSE backend)}

\* One turn of the loop of zproxy up to the call of s_self_switch, which asserts
\* that there is an output.
zproxy ==
    /\ place = "poll"
    /\ \E fails \in (IF interrupts < MaxInterrupts THEN BOOLEAN ELSE {FALSE}) :
         LET wait == zpoller_wait(poller, Ready, fails, zsys_interrupted) IN
         /\ wait.which # NoReader \/ wait.poller.terminated  \* it waits otherwise
         /\ interrupts' = IF fails THEN interrupts + 1 ELSE interrupts
         /\ \/ /\ wait.poller.terminated
               /\ Ends
               /\ poller' = wait.poller
               /\ UNCHANGED <<request, sockets, from, paused>>
            \/ /\ wait.which = "pipe"
               /\ s_self_handle_pipe(wait.poller)
            \/ /\ wait.which \in Sides
               /\ from' = wait.which
               /\ poller' = wait.poller
               /\ place' = IF frontend /\ backend THEN "switch" ELSE "aborted"
               /\ UNCHANGED <<request, signalled, sockets, paused>>
    /\ UNCHANGED <<user, requests, copied, zsys_interrupted, traffic>>

-----------------------------------------------------------------------------
(* s_self_switch.  One frame is read, copied to the capture socket and sent. *)

Frame == arrived[from][reads[from] + 1]

MidMessage(output) ==
    sent[output] # <<>> /\ sent[output][Len(sent[output])].more

\* Whether a send does not wait.
Room(output) ==
    MidMessage(output) \/ Complete(sent[output]) - taken[output] < OutputHwm

\* A blocked send is interrupted by a signal that czmq handles, or by another.
Interrupted ==
    /\ interrupts < MaxInterrupts
    /\ interrupts' = interrupts + 1
    /\ zsys_interrupted' \in {zsys_interrupted, TRUE}

mut_send_more(output) == Append(sent[output], [Frame EXCEPT !.more = TRUE])

mut_send_last(output) == Append(sent[output], [Frame EXCEPT !.more = FALSE])

\* zsock_rcvmore decides whether the frame is sent with ZMQ_SNDMORE.
Send(output) == Append(sent[output], Frame)

\* Back to the loop of zproxy.
Leaves == place' = "poll" /\ from' = "frontend"

switch_done ==
    /\ place = "switch" /\ ~copied /\ ~Waits(from)
    /\ Leaves
    /\ UNCHANGED <<user_vars, sockets, poller, copied, zsys_interrupted, traffic,
                   interrupts, paused>>

\* A copy that cannot be sent is dropped.
switch_capture ==
    /\ place = "switch" /\ ~copied /\ Waits(from) /\ capture
    /\ \/ Room("capture") /\ sent' = [sent EXCEPT !["capture"] = Send("capture")]
            /\ UNCHANGED <<interrupts, zsys_interrupted>>
       \/ ~Room("capture") /\ Interrupted /\ UNCHANGED sent
    /\ copied' = TRUE
    /\ UNCHANGED <<user_vars, sockets, poller, place, from, arrived, reads, taken, paused>>

\* A frame that cannot be sent is dropped and ends the loop.
switch_send ==
    /\ place = "switch" /\ Waits(from) /\ (copied \/ ~capture)
    /\ \/ /\ Room(Other(from))
          /\ sent' = [sent EXCEPT ![Other(from)] = Send(Other(from))]
          /\ UNCHANGED <<place, from, interrupts, zsys_interrupted>>
       \/ /\ ~Room(Other(from)) /\ Interrupted
          /\ Leaves
          /\ UNCHANGED sent
    /\ reads' = [reads EXCEPT ![from] = @ + 1]
    /\ copied' = FALSE
    /\ UNCHANGED <<user_vars, sockets, poller, arrived, taken, paused>>

s_self_switch == switch_done \/ switch_capture \/ switch_send

ProxyNext ==
    \/ \E c \in ProxyCommands : app_send(c)
    \/ app_destroy \/ app_signalled
    \/ \E side \in Sides, size \in 1..MaxFrames : message_arrives(side, size)
    \/ \E output \in Outputs : peer_takes(output)
    \/ zproxy
    \/ s_self_switch

\* A step of the proxy thread in which no signal reaches it.
ThreadStep == UNCHANGED interrupts /\ (zproxy \/ s_self_switch)

ProxySpec == ProxyInit /\ [][ProxyNext]_proxy_vars

\* The proxy thread runs, the application takes the signals it waits for, and the
\* peers go on taking messages; nobody has to send, and no signal has to come.
FairProxySpec ==
    /\ ProxySpec
    /\ WF_proxy_vars(ThreadStep) /\ WF_proxy_vars(app_signalled)
    /\ \A output \in Outputs : WF_proxy_vars(peer_takes(output))

-----------------------------------------------------------------------------
(* Properties. *)

InMessages(frames) ==
    \A i \in 1..(Len(frames) - 1) :
        frames[i].more => /\ frames[i + 1].msg = frames[i].msg
                          /\ frames[i + 1].part = frames[i].part + 1

\* What a peer of the frontend or of the backend receives is never made of frames
\* of two messages, even when a signal ends a send of s_self_switch half way through
\* a message and the loop turns to the other socket; nor, while no signal does, is
\* what the capture socket receives from both.
NeverMerged ==
    /\ \A s \in Sides : InMessages(sent[s])
    /\ interrupts = 0 => InMessages(sent["capture"])

\* While no signal has interrupted it, the proxy passes on what it read, frame by
\* frame and in order: nothing is lost, duplicated or reordered.
PassesAll ==
    interrupts = 0 => \A s \in Sides : sent[Other(s)] = SubSeq(arrived[s], 1, reads[s])

\* Each command is answered, $TERM by the end of the thread: traffic and blocked
\* sends only delay it.
CommandsAnswered == user \in {"waiting", "destroying"} ~> user \in {"ready", "done"}

\* A message that waits at a proxy that runs is read, or the proxy is paused or
\* ends: neither socket starves the other.
MessagesFlow ==
    \A s \in Sides :
        frontend /\ backend /\ ~paused /\ Waits(s)
            ~> ~Waits(s) \/ paused \/ place = "ended"
=============================================================================
