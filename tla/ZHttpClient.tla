---------------------------- MODULE ZHttpClient -----------------------------
(***************************************************************************)
(* zhttp_client: an actor that runs the transfers of libcurl and reports   *)
(* each to the application, with the application's side: zhttp_request and *)
(* zhttp_response, which pass the content of requests and answers by       *)
(* pointer through the pipe.                                               *)
(*                                                                         *)
(* A content belongs to the object, message or transfer that will free it; *)
(* a constant content (zhttp_request_set_content_const) is never freed.    *)
(* The application keeps at most Window requests without having received   *)
(* their answers.  Left out: headers, which travel like an owned content,  *)
(* and the options of a transfer.                                          *)
(***************************************************************************)
EXTENDS Integers, Sequences, FiniteSets

CONSTANTS
    MaxRequests,    \* bound: requests sent
    MaxContents,    \* bound: contents the application makes
    PipeHwm,        \* messages the pipe holds in a direction
    Window          \* requests the application has under way

VARIABLES
    client_pc,      \* where the actor is
    to_actor, to_app,       \* the pipe
    transfers,      \* the transfers of the multi handle: running, ok, failed
    handles,        \* pending_handles
    calling,        \* the call the application is in
    sent, received, \* history: how many requests were sent, which answers came
    request,        \* the content of the zhttp_request, and whether it is to free it
    response,       \* the request whose answer the zhttp_response holds, or 0
    asked, answer   \* the owner of each content, and of the answer to each request

client_vars ==
    <<client_pc, to_actor, to_app, transfers, handles, calling, sent, received, request,
      response, asked, answer>>

Requests == 1 .. MaxRequests
Contents == 1 .. MaxContents
Term == [id |-> 0, content |-> 0, free_content |-> FALSE]

\* What is freed again, or was not to be freed, is marked.
Freed(o) == IF o \in {"freed", "constant"} THEN "wrong" ELSE "freed"

-----------------------------------------------------------------------------
(* The application. *)

\* What the zhttp_request owns is freed when its content is set or reset.
Released == IF request.free_content THEN [asked EXCEPT ![request.content] = Freed(@)] ELSE asked

\* zhttp_request_set_content and, for a content that stays of the application,
\* zhttp_request_set_content_const
set_content(b, owned) ==
    /\ calling = "nothing" /\ asked[b] = "none" /\ \A a \in 1 .. b - 1 : asked[a] # "none"
    /\ asked' = [Released EXCEPT ![b] = IF owned THEN "zhttp_request" ELSE "constant"]
    /\ request' = [content |-> b, free_content |-> owned]
    /\ UNCHANGED <<client_pc, to_actor, to_app, transfers, handles, calling, sent, received,
                   response, answer>>

NoContent == [content |-> 0, free_content |-> FALSE]

\* zhttp_request_reset_content
reset_content ==
    /\ calling = "nothing" /\ request # NoContent
    /\ asked' = Released
    /\ request' = NoContent
    /\ UNCHANGED <<client_pc, to_actor, to_app, transfers, handles, calling, sent, received,
                   response, answer>>

Outstanding == sent - Cardinality(received)

mut_request_after == request

\* The content has gone with the message.
request_after == NoContent

\* zhttp_request_send waits for room in the pipe.
zhttp_request_send ==
    /\ calling = "nothing" /\ sent < MaxRequests /\ Outstanding < Window
    /\ calling' = "send"
    /\ UNCHANGED <<client_pc, to_actor, to_app, transfers, handles, sent, received, request,
                   response, asked, answer>>

request_sent ==
    /\ calling = "send" /\ Len(to_actor) < PipeHwm
    /\ calling' = "nothing"
    /\ sent' = sent + 1
    /\ to_actor' = Append(to_actor, [id |-> sent + 1, content |-> request.content,
                                    free_content |-> request.free_content])
    /\ asked' = IF request.free_content
                THEN [asked EXCEPT ![request.content] = "message"] ELSE asked
    /\ request' = request_after
    /\ UNCHANGED <<client_pc, to_app, transfers, handles, received, response, answer>>

zhttp_response_recv ==
    /\ calling = "nothing" /\ Outstanding > 0
    /\ calling' = "recv"
    /\ UNCHANGED <<client_pc, to_actor, to_app, transfers, handles, sent, received, request,
                   response, asked, answer>>

\* The content of the answer before is freed, and the new one is owned.
response_received ==
    /\ calling = "recv" /\ to_app # <<>>
    /\ calling' = "nothing"
    /\ LET id == Head(to_app) IN
       /\ to_app' = Tail(to_app)
       /\ received' = received \cup {id}
       /\ response' = id
       /\ answer' = [n \in Requests |->
                        IF n = id /\ answer[n] = "message" THEN "zhttp_response"
                        ELSE IF n = response THEN Freed(answer[n]) ELSE answer[n]]
    /\ UNCHANGED <<client_pc, to_actor, transfers, handles, sent, request, asked>>

\* zactor_destroy: $TERM is sent if the pipe has room; else the pipe is closed and the
\* thread is left behind ...
zhttp_client_destroy ==
    /\ calling = "nothing"
    /\ IF Len(to_actor) < PipeHwm
       THEN calling' = "wait" /\ to_actor' = Append(to_actor, Term)
       ELSE calling' = "end" /\ UNCHANGED to_actor
    /\ UNCHANGED <<client_pc, to_app, transfers, handles, sent, received, request, response,
                   asked, answer>>

\* ... and what comes before the signal is thrown away, contents and all.
wait_discards ==
    /\ calling = "wait" /\ to_app # <<>>
    /\ to_app' = Tail(to_app)
    /\ UNCHANGED <<client_pc, to_actor, transfers, handles, calling, sent, received, request,
                   response, asked, answer>>

wait_returns ==
    /\ calling = "wait" /\ to_app = <<>> /\ client_pc = "done"
    /\ calling' = "end"
    /\ UNCHANGED <<client_pc, to_actor, to_app, transfers, handles, sent, received, request,
                   response, asked, answer>>

-----------------------------------------------------------------------------
(* The actor. *)

\* The wait ends when the pipe or a transfer has something, or after a second.
actor_waits ==
    /\ client_pc = "wait"
    /\ client_pc' = "command"
    /\ UNCHANGED <<to_actor, to_app, transfers, handles, calling, sent, received, request,
                   response, asked, answer>>

\* zlistx_add_end (pending_handles, curl)
handle_added(id) == handles \cup {id}

\* A command is taken if there is one: $TERM, or a request that becomes a transfer.
actor_command ==
    /\ client_pc = "command"
    /\ IF to_actor = <<>>
       THEN client_pc' = "perform" /\ UNCHANGED <<to_actor, transfers, handles, asked>>
       ELSE LET m == Head(to_actor) IN
            /\ to_actor' = Tail(to_actor)
            /\ client_pc' = IF m = Term THEN "perform_last" ELSE "perform"
            /\ IF m = Term
               THEN UNCHANGED <<transfers, handles, asked>>
               ELSE /\ transfers' = transfers \cup
                           {[id |-> m.id, content |-> m.content,
                             free_content |-> m.free_content, state |-> "running"]}
                    /\ handles' = handle_added(m.id)
                    /\ asked' = IF m.free_content
                                THEN [asked EXCEPT ![m.content] = "transfer"] ELSE asked
    /\ UNCHANGED <<to_app, calling, sent, received, request, response, answer>>

\* A transfer ends, by an answer, an error or its timeout.
transfer_ends(t) ==
    /\ t.state = "running" /\ client_pc # "done"
    /\ transfers' = (transfers \ {t}) \cup {[t EXCEPT !.state = "over"]}
    /\ answer' = [answer EXCEPT ![t.id] = "transfer"]
    /\ UNCHANGED <<client_pc, to_actor, to_app, handles, calling, sent, received, request,
                   response, asked>>

\* What the destructor of a handle frees of the request.
curl_destructor(t) == IF t.free_content THEN [asked EXCEPT ![t.content] = Freed(@)] ELSE asked

\* The answer goes with the message, and the destructor of the handle finds none.
response_given(t) == [answer EXCEPT ![t.id] = "message"]

\* Transfers that are over are reported one by one, waiting for room in the pipe.
actor_reports(t) ==
    /\ client_pc \in {"perform", "perform_last"}
    /\ t.state = "over"
    /\ Len(to_app) < PipeHwm /\ calling # "end"
    /\ to_app' = Append(to_app, t.id)
    /\ answer' = response_given(t)
    /\ transfers' = transfers \ {t}
    /\ handles' = handles \ {t.id}
    /\ asked' = curl_destructor(t)
    /\ UNCHANGED <<client_pc, to_actor, calling, sent, received, request, response>>

mut_next_pass(p) == "wait"

\* while (!terminated)
next_pass(p) == IF p = "perform" THEN "wait" ELSE "clean"

actor_again ==
    /\ client_pc \in {"perform", "perform_last"}
    /\ \A t \in transfers : t.state # "over"
    /\ client_pc' = next_pass(client_pc)
    /\ UNCHANGED <<to_actor, to_app, transfers, handles, calling, sent, received, request,
                   response, asked, answer>>

\* zlistx_destroy (&pending_handles): the transfers under way are given up with what they hold.
actor_cleans ==
    /\ client_pc = "clean"
    /\ client_pc' = "done"
    /\ asked' = [b \in Contents |->
                    IF \E t \in transfers : t.id \in handles /\ t.free_content /\ t.content = b
                    THEN Freed(asked[b]) ELSE asked[b]]
    /\ answer' = [n \in Requests |->
                    IF \E t \in transfers : t.id = n /\ t.id \in handles /\ t.state = "over"
                    THEN Freed(answer[n]) ELSE answer[n]]
    /\ transfers' = {} /\ handles' = {}
    /\ UNCHANGED <<to_actor, to_app, calling, sent, received, request, response>>

-----------------------------------------------------------------------------

ClientInit ==
    /\ client_pc = "wait" /\ to_actor = <<>> /\ to_app = <<>>
    /\ transfers = {} /\ handles = {}
    /\ calling = "nothing" /\ sent = 0 /\ received = {} /\ request = NoContent /\ response = 0
    /\ asked = [b \in Contents |-> "none"] /\ answer = [n \in Requests |-> "none"]

ActorStep ==
    \/ actor_waits \/ actor_command \/ actor_again \/ actor_cleans
    \/ \E t \in transfers : actor_reports(t)

CallStep ==
    request_sent \/ response_received \/ wait_discards \/ wait_returns

ClientNext ==
    \/ ActorStep \/ CallStep
    \/ \E b \in Contents, owned \in BOOLEAN : set_content(b, owned)
    \/ reset_content \/ zhttp_request_send \/ zhttp_response_recv \/ zhttp_client_destroy
    \/ \E t \in transfers : transfer_ends(t)

TransferEnds == \E t \in transfers : transfer_ends(t)

ClientSpec ==
    /\ ClientInit /\ [][ClientNext]_client_vars
    /\ WF_client_vars(ActorStep) /\ WF_client_vars(CallStep) /\ WF_client_vars(TransferEnds)

-----------------------------------------------------------------------------
(* What is checked. *)

\* The list of pending handles is that of the transfers there are: a transfer that ends is
\* found on it (the assertion of the actor), and destroying the list gives up every transfer.
HandlesExact == handles = {t.id : t \in transfers}

\* A content that was handed over is freed once; a constant one never; one that is in a
\* message or in a transfer that libcurl still reads is not freed yet.
ContentFreedOnce ==
    /\ \A b \in Contents : asked[b] # "wrong"
    /\ \A n \in Requests : answer[n] # "wrong"
    /\ \A t \in transfers :
          t.content # 0 => asked[t.content] = IF t.free_content THEN "transfer" ELSE "constant"
    /\ \A i \in DOMAIN to_actor :
          to_actor[i].free_content => asked[to_actor[i].content] = "message"
    /\ request.free_content => asked[request.content] = "zhttp_request"

\* The answer the application holds has not been freed, and each answer comes once.
AnswerHeld ==
    /\ response # 0 => answer[response] = "zhttp_response"
    /\ \A i, j \in DOMAIN to_app : to_app[i] = to_app[j] => i = j
    /\ \A i \in DOMAIN to_app : to_app[i] \notin received

\* No call waits for ever: application and actor do not both wait for room in the pipe, and
\* zhttp_client_destroy returns with transfers under way and answers that nobody took.
CallsReturn ==
    (calling \in {"send", "recv", "wait"})
        ~> (calling \notin {"send", "recv", "wait"})

=============================================================================
