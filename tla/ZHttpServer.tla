---------------------------- MODULE ZHttpServer -----------------------------
(***************************************************************************)
(* zhttp_server: an actor that runs libmicrohttpd, hands each request to a *)
(* worker over a DEALER socket while the connection is suspended, and      *)
(* resumes the connection with the answer.  It sleeps in select on the     *)
(* ZMQ_FD of its two sockets, which is readable only while the mailbox of  *)
(* the socket holds a command: the writer of a message posts one if the    *)
(* reader had found nothing, and whatever looks at the socket takes it.    *)
(* With it the workers (zhttp_request_recv, zhttp_response_send) and the   *)
(* application (zhttp_server_port, zhttp_server_destroy).                  *)
(*                                                                         *)
(* The headers of a request pass from the request_t to the message and to  *)
(* the zhttp_request of a worker; each of them frees what it still holds.  *)
(* Left out: logging, the options, the text of requests and answers.       *)
(***************************************************************************)
EXTENDS Integers, Sequences, SequencesExt

CONSTANTS
    Connections,    \* the struct MHD_Connection there are: an address is used again
    Workers,
    MaxRequests,    \* bound: requests on a connection
    MaxPorts,       \* bound: calls of zhttp_server_port
    Hwm,            \* requests queued for a worker
    WorkersConnect  \* whether a worker ever connects

ASSUME HttpAssumption == MaxRequests \in Nat /\ "none" \notin Connections

VARIABLES
    place,          \* where the actor is
    handling,       \* the connection whose request is being sent to a worker, or none
    use_timeout, terminated,
    pending,        \* pending_connections
    conn,           \* the connections, with the request_t of each
    pipe, pipe_reply, replies,      \* what waits for the actor, the application, the actor
    signal, asleep, \* per socket: a command in the mailbox, the actor found nothing
    worker,         \* the workers: connected, their queue and their zhttp_request
    app,            \* what the application waits for, and how often it may still ask
    owner,          \* who owns the headers of each request
    answered        \* history: per connection, the request each answer was meant for

http_vars ==
    <<place, handling, use_timeout, terminated, pending, conn, pipe, pipe_reply, replies,
      signal, asleep, worker, app, owner, answered>>

Sockets == {"pipe", "backend"}
Idle == [state |-> "idle", count |-> 0, parts |-> 0, received |-> 0, headers |-> FALSE]
NoRequest == [c |-> "none", n |-> 0]

\* What is freed twice is marked.
Free(o, c, n) == [o EXCEPT ![c][n] = IF @ = "freed" THEN "twice" ELSE "freed"]

-----------------------------------------------------------------------------
(* ZMQ_FD. *)

\* A message for socket s: the mailbox gets a command if the reader had found nothing.
Arrives(s) ==
    /\ signal' = IF asleep[s] THEN [signal EXCEPT ![s] = TRUE] ELSE signal
    /\ asleep' = [asleep EXCEPT ![s] = FALSE]

\* zsock_has_in looks at the mailbox and at the queue.
Looks(s, queue) ==
    /\ signal' = [signal EXCEPT ![s] = FALSE]
    /\ asleep' = [asleep EXCEPT ![s] = (queue = <<>>)]

-----------------------------------------------------------------------------
(* The HTTP clients. *)

client_request(c, parts) ==
    /\ conn[c].state = "idle" /\ place # "done"
    /\ conn[c].count < MaxRequests
    /\ conn' = [conn EXCEPT ![c].state = "sending", ![c].count = @ + 1, ![c].parts = parts]
    /\ UNCHANGED <<place, handling, use_timeout, terminated, pending, pipe, pipe_reply, replies,
                   signal, asleep, worker, app, owner, answered>>

\* A client goes away in the middle of its request.
client_abort(c) ==
    /\ conn[c].state = "upload" /\ place # "done"
    /\ conn' = [conn EXCEPT ![c].state = "aborted"]
    /\ UNCHANGED <<place, handling, use_timeout, terminated, pending, pipe, pipe_reply, replies,
                   signal, asleep, worker, app, owner, answered>>

-----------------------------------------------------------------------------
(* The actor: MHD_run_from_select and its callbacks. *)

mut_next_part(part) ==
    CASE part = "select" -> "api" [] part = "api" -> "backend"
      [] part = "backend" -> "run" [] part = "run" -> "select"

\* The parts of a pass, in the order of the loop.
next_part(part) ==
    CASE part = "run" -> "api" [] part = "api" -> "backend"
      [] part = "backend" -> "select" [] part = "select" -> "run"

Ready(c) == conn[c].state \in {"sending", "upload", "aborted", "replying"}

Running == place = "run" /\ handling = "none"

\* zlistx_add_end suspends the connection; then the request is sent.
suspend(c, state) ==
    /\ handling' = c
    /\ conn' = [conn EXCEPT ![c] = [state EXCEPT !.state = "suspended"]]
    /\ pending' = Append(pending, c)

\* s_handle_request, first call: a request_t with the headers.  A request with a body
\* waits for it, any other is on its way.
handle_header(c) ==
    /\ Running /\ conn[c].state = "sending"
    /\ LET fresh == [conn[c] EXCEPT !.headers = TRUE, !.received = 0] IN
       IF fresh.parts > 0
       THEN /\ conn' = [conn EXCEPT ![c] = [fresh EXCEPT !.state = "upload"]]
            /\ UNCHANGED <<handling, pending>>
       ELSE suspend(c, fresh)
    /\ owner' = [owner EXCEPT ![c][conn[c].count] = "request_t"]
    /\ UNCHANGED <<place, use_timeout, terminated, pipe, pipe_reply, replies, signal, asleep,
                   worker, app, answered>>

\* s_handle_request, later calls: a part of the body, or its end.
handle_upload(c) ==
    /\ Running /\ conn[c].state = "upload"
    /\ IF conn[c].received < conn[c].parts
       THEN /\ conn' = [conn EXCEPT ![c].received = @ + 1]
            /\ UNCHANGED <<handling, pending>>
       ELSE suspend(c, conn[c])
    /\ UNCHANGED <<place, use_timeout, terminated, pipe, pipe_reply, replies, signal, asleep,
                   worker, app, owner, answered>>

\* The request_t gives its headers away.
headers_sent(c) == [conn EXCEPT ![c].headers = FALSE]

\* zsock_bsend to the backend waits for a worker with room in its queue; it may look at
\* the mailbox of the socket on the way.
backend_send(c, w) ==
    /\ place = "run" /\ handling = c
    /\ worker[w].connected /\ Len(worker[w].queue) < Hwm
    /\ worker' = [worker EXCEPT ![w].queue = Append(@, [c |-> c, n |-> conn[c].count])]
    /\ owner' = [owner EXCEPT ![c][conn[c].count] = "message"]
    /\ conn' = headers_sent(c)
    /\ handling' = "none"
    /\ \E taken \in BOOLEAN : signal' = [signal EXCEPT !["backend"] = @ /\ ~taken]
    /\ UNCHANGED <<place, use_timeout, terminated, pending, pipe, pipe_reply, replies, asleep,
                   app, answered>>

\* request_destroy
RequestDestroyed(c) ==
    IF conn[c].headers THEN Free(owner, c, conn[c].count) ELSE owner

\* The answer is out, or the client gone: s_handle_request_completed.  The connection is
\* used for another request or by another client.
handle_completed(c) ==
    /\ Running /\ conn[c].state \in {"replying", "aborted"}
    /\ owner' = RequestDestroyed(c)
    /\ conn' = [conn EXCEPT ![c] = [Idle EXCEPT !.count = conn[c].count]]
    /\ UNCHANGED <<place, handling, use_timeout, terminated, pending, pipe, pipe_reply, replies,
                   signal, asleep, worker, app, answered>>

\* MHD_run_from_select returns when no connection is ready.
run_done ==
    /\ place = "run" /\ handling = "none"
    /\ \A c \in Connections : ~Ready(c)
    /\ place' = next_part("run")
    /\ UNCHANGED <<handling, use_timeout, terminated, pending, conn, pipe, pipe_reply, replies, signal,
                   asleep, worker, app, owner, answered>>

-----------------------------------------------------------------------------
(* The actor: its sockets. *)

\* The timeout for select after something was received.
use_timeout_after == FALSE

\* One command at most in a pass.
recv_api ==
    /\ place = "api"
    /\ place' = next_part("api")
    /\ Looks("pipe", pipe)
    /\ IF pipe = <<>>
       THEN UNCHANGED <<use_timeout, terminated, pipe, pipe_reply>>
       ELSE /\ pipe' = Tail(pipe)
            /\ use_timeout' = use_timeout_after
            /\ terminated' = (terminated \/ Head(pipe) = "$TERM")
            /\ pipe_reply' = IF Head(pipe) = "PORT" THEN Append(pipe_reply, "port") ELSE pipe_reply
    /\ UNCHANGED <<handling, pending, conn, replies, worker, app, owner, answered>>

\* MHD_queue_response on the resumed connection.
queue_response(r) == [conn EXCEPT ![r.c].state = "replying"]

\* while (zsock_has_in (backend)) s_recv_backend.  zlistx_find compares pointers, and
\* zlistx_delete resumes the connection it finds.
recv_backend ==
    /\ place = "backend"
    /\ Looks("backend", replies)
    /\ IF replies # <<>>
       THEN LET r == Head(replies) IN
            /\ replies' = Tail(replies)
            /\ pending' = RemoveFirst(pending, r.c)
            /\ conn' = queue_response(r)
            /\ answered' = [answered EXCEPT ![r.c] = Append(@, r.n)]
            /\ use_timeout' = use_timeout_after
            /\ UNCHANGED place
       ELSE /\ place' = next_part("backend")
            /\ UNCHANGED <<replies, pending, conn, answered, use_timeout>>
    /\ UNCHANGED <<handling, terminated, pipe, pipe_reply, worker, app, owner>>

\* select returns when something is readable, or at once if no timeout is used.
select ==
    /\ place = "select"
    /\ ~use_timeout \/ (\E s \in Sockets : signal[s]) \/ (\E c \in Connections : Ready(c))
    /\ place' = IF terminated THEN "destroy" ELSE next_part("select")
    /\ use_timeout' = TRUE
    /\ UNCHANGED <<handling, terminated, pending, conn, pipe, pipe_reply,
                   replies, signal, asleep, worker, app, owner, answered>>

\* server_actor_destroy: the backend goes with what it holds, the pending connections are
\* resumed, and the daemon completes every request there is.  The shim signals the end.
server_actor_destroy ==
    /\ place = "destroy"
    /\ place' = "done"
    /\ pending' = <<>>
    /\ replies' = <<>>
    /\ conn' = [c \in Connections |-> [Idle EXCEPT !.count = conn[c].count]]
    /\ owner' = [c \in Connections |-> RequestDestroyed(c)[c]]
    /\ worker' = [w \in Workers |-> [worker[w] EXCEPT !.queue = <<>>]]
    /\ pipe_reply' = Append(pipe_reply, "signal")
    /\ UNCHANGED <<handling, use_timeout, terminated, pipe, signal, asleep, app, answered>>

-----------------------------------------------------------------------------
(* The workers. *)

worker_connect(w) ==
    /\ WorkersConnect /\ ~worker[w].connected
    /\ worker' = [worker EXCEPT ![w].connected = TRUE]
    /\ UNCHANGED <<place, handling, use_timeout, terminated, pending, conn, pipe, pipe_reply,
                   replies, signal, asleep, app, owner, answered>>

\* What a zhttp_request still holds of the request it received before is freed.
ForgetRequest(w) ==
    IF worker[w].holds = NoRequest THEN owner
    ELSE Free(owner, worker[w].holds.c, worker[w].holds.n)

zhttp_request_recv(w) ==
    /\ worker[w].queue # <<>> /\ ~worker[w].busy
    /\ LET r == Head(worker[w].queue) IN
       /\ owner' = [ForgetRequest(w) EXCEPT ![r.c][r.n] = "zhttp_request"]
       /\ worker' = [worker EXCEPT ![w].queue = Tail(@), ![w].holds = r, ![w].busy = TRUE]
    /\ UNCHANGED <<place, handling, use_timeout, terminated, pending, conn, pipe, pipe_reply,
                   replies, signal, asleep, app, answered>>

mut_response_sent(w) == worker

\* The connection pointer is cleared once the answer is sent: a request is answered once.
response_sent(w) == [worker EXCEPT ![w].busy = FALSE]

zhttp_response_send(w) ==
    /\ worker[w].busy
    /\ worker' = response_sent(w)
    /\ IF place = "done"
       THEN UNCHANGED <<replies, signal, asleep>>
       ELSE replies' = Append(replies, worker[w].holds) /\ Arrives("backend")
    /\ UNCHANGED <<place, handling, use_timeout, terminated, pending, conn, pipe, pipe_reply,
                   app, owner, answered>>

-----------------------------------------------------------------------------
(* The application. *)

\* zhttp_server_port: PORT is sent and its answer awaited.
zhttp_server_port ==
    /\ app.waits = "nothing" /\ app.ports > 0
    /\ app' = [waits |-> "port", ports |-> app.ports - 1]
    /\ pipe' = Append(pipe, "PORT") /\ Arrives("pipe")
    /\ UNCHANGED <<place, handling, use_timeout, terminated, pending, conn, pipe_reply, replies,
                   worker, owner, answered>>

zhttp_server_destroy ==
    /\ app.waits = "nothing"
    /\ app' = [app EXCEPT !.waits = "signal"]
    /\ pipe' = Append(pipe, "$TERM") /\ Arrives("pipe")
    /\ UNCHANGED <<place, handling, use_timeout, terminated, pending, conn, pipe_reply, replies,
                   worker, owner, answered>>

app_receives ==
    /\ pipe_reply # <<>> /\ Head(pipe_reply) = app.waits
    /\ pipe_reply' = Tail(pipe_reply)
    /\ app' = [app EXCEPT !.waits = IF @ = "port" THEN "nothing" ELSE "end"]
    /\ UNCHANGED <<place, handling, use_timeout, terminated, pending, conn, pipe, replies,
                   signal, asleep, worker, owner, answered>>

-----------------------------------------------------------------------------

HttpInit ==
    /\ place = "run" /\ handling = "none" /\ use_timeout = TRUE /\ terminated = FALSE
    /\ pending = <<>> /\ conn = [c \in Connections |-> Idle]
    /\ pipe = <<>> /\ pipe_reply = <<>> /\ replies = <<>>
    /\ signal = [s \in Sockets |-> FALSE] /\ asleep = [s \in Sockets |-> FALSE]
    /\ worker = [w \in Workers |->
                    [connected |-> FALSE, queue |-> <<>>, holds |-> NoRequest, busy |-> FALSE]]
    /\ app = [waits |-> "nothing", ports |-> MaxPorts]
    /\ owner = [c \in Connections |-> [n \in 1 .. MaxRequests |-> "none"]]
    /\ answered = [c \in Connections |-> <<>>]

ActorStep ==
    \/ \E c \in Connections :
          handle_header(c) \/ handle_upload(c) \/ handle_completed(c)
          \/ \E w \in Workers : backend_send(c, w)
    \/ run_done \/ recv_api \/ recv_backend \/ select \/ server_actor_destroy

WorkerStep(w) == worker_connect(w) \/ zhttp_request_recv(w) \/ zhttp_response_send(w)

HttpNext ==
    \/ ActorStep
    \/ \E w \in Workers : WorkerStep(w)
    \/ zhttp_server_port \/ zhttp_server_destroy \/ app_receives
    \/ \E c \in Connections : client_abort(c) \/ \E parts \in 0 .. 1 : client_request(c, parts)

HttpSpec ==
    /\ HttpInit /\ [][HttpNext]_http_vars
    /\ WF_http_vars(ActorStep) /\ WF_http_vars(app_receives)
    /\ \A w \in Workers : WF_http_vars(WorkerStep(w))

-----------------------------------------------------------------------------
(* What is checked. *)

\* pending_connections holds exactly the connections that are suspended, once each: an
\* answer finds its connection there (the assertion in s_recv_backend), and no connection
\* stays suspended without being on the list.
PendingExact ==
    /\ \A i, j \in DOMAIN pending : pending[i] = pending[j] => i = j
    /\ {pending[i] : i \in DOMAIN pending} = {c \in Connections : conn[c].state = "suspended"}
    /\ \A i \in DOMAIN replies : \E j \in DOMAIN pending : pending[j] = replies[i].c

\* An answer reaches the request it was made for, also on a connection that is used for
\* one request after the other: no request is answered twice or with the answer of another.
AnswerMatches ==
    /\ \A i \in DOMAIN replies : replies[i].n = conn[replies[i].c].count
    /\ \A c \in Connections : \A i, j \in DOMAIN answered[c] : answered[c][i] = answered[c][j] => i = j

\* The headers of a request are freed once, and not while a worker still has the request.
HeadersFreedOnce ==
    /\ \A c \in Connections : \A n \in 1 .. MaxRequests : owner[c][n] # "twice"
    /\ \A w \in Workers :
          worker[w].busy => owner[worker[w].holds.c][worker[w].holds.n] = "zhttp_request"

\* The three together: a request that was handed over is in one place, and what it holds is
\* let go once.
RequestsExact == PendingExact /\ AnswerMatches /\ HeadersFreedOnce

\* A request that was handed over is answered unless the server ends: the actor does not
\* sleep while an answer waits for it, whatever took the command out of the mailbox.
RequestsAnswered ==
    \A c \in Connections :
        (conn[c].state = "suspended") ~> (conn[c].state # "suspended")

\* A call of the application returns: PORT and $TERM are served however they come between
\* the requests, while workers take what they are sent.
ApplicationServed == (app.waits \in {"port", "signal"}) ~> (app.waits \notin {"port", "signal"})

=============================================================================
