----------------------------- MODULE MCProcess ------------------------------
(***************************************************************************)
(* What runs in a process that uses czmq, for model checking: the life of  *)
(* the process itself (zsys), the actor of zhttp_server, an actor used    *)
(* while signals to the process end its waits, a message sent and received *)
(* in the face of signals, and the sort of a list.  A behaviour is one of  *)
(* its subject; the variables of the others stay as they begin.            *)
(***************************************************************************)
EXTENDS ZSys, ZHttpServer

VARIABLES
    subject,
    actor_app, act, down, up, outgoing, cmd, destructor, owed, sends, handled, emits, reason,
    frames, sending, sent_some, made, wire, queue, coming, receiving, got, done,
    signals, ended,
    input, items, gap, swapped, base

actor_vars ==
    <<actor_app, act, down, up, outgoing, cmd, destructor, owed, sends, handled, emits, reason>>
transfer_vars ==
    <<frames, sending, sent_some, made, wire, queue, coming, receiving, got, done,
      signals, ended>>
sort_vars == <<input, items, gap, swapped, base>>

Signalled == INSTANCE ZActor WITH
    app <- actor_app,
    Capacity <- 6, MaxSends <- 3, MaxEmits <- 1, StopWords <- {"$TERM", "$KTHXBAI"},
    MayQuit <- FALSE, MayFailInit <- FALSE, MayInterrupt <- TRUE, Collects <- TRUE

Transfer == INSTANCE ZMsgSend WITH
    MaxParts <- 3, MaxMessages <- 3, MaxSignals <- 2, terminated <- ended

Sort == INSTANCE ZListxSort WITH Items <- 1 .. 3, MaxLength <- 7

ProcessInit ==
    /\ subject \in {"zsys", "zactor", "zmsg", "zlistx", "zhttp_server"}
    /\ Init /\ HttpInit /\ Signalled!Init /\ Transfer!TransferInit
    /\ IF subject = "zlistx" THEN Sort!Init
       ELSE input = <<>> /\ items = <<>> /\ gap = 0 /\ swapped = FALSE /\ base = 0

\* The variables of the other subjects stay.
OthersStay ==
    /\ UNCHANGED subject
    /\ IF subject = "zsys" THEN TRUE ELSE UNCHANGED vars
    /\ IF subject = "zactor" THEN TRUE ELSE UNCHANGED actor_vars
    /\ IF subject = "zmsg" THEN TRUE ELSE UNCHANGED transfer_vars
    /\ IF subject = "zlistx" THEN TRUE ELSE UNCHANGED sort_vars
    /\ IF subject = "zhttp_server" THEN TRUE ELSE UNCHANGED http_vars

zsys_next == subject = "zsys" /\ Next /\ OthersStay

zactor_next == subject = "zactor" /\ Signalled!Next /\ OthersStay

zmsg_next == subject = "zmsg" /\ Transfer!TransferNext /\ OthersStay

zlistx_next == subject = "zlistx" /\ Sort!Next /\ OthersStay

zhttp_server_next == subject = "zhttp_server" /\ HttpNext /\ OthersStay

ProcessNext ==
    \/ zsys_next \/ zactor_next \/ zmsg_next \/ zlistx_next
    \/ zhttp_server_next

\* The fairness of each module, for the behaviours of its subject.
ProcessSpec ==
    /\ ProcessInit
    /\ [][ProcessNext]_<<subject, vars, actor_vars, transfer_vars, sort_vars, http_vars>>
    /\ \A t \in Threads : /\ WF_vars(subject = "zsys" /\ init_step(t))
                          /\ WF_vars(subject = "zsys" /\ zsys_close_done(t))
    /\ WF_vars(subject = "zsys" /\ shutdown_step)
    /\ WF_actor_vars(subject = "zactor" /\ Signalled!AppStep)
    /\ WF_actor_vars(subject = "zactor" /\ Signalled!ActStep)
    /\ WF_transfer_vars(subject = "zmsg" /\ Transfer!zframe_send)
    /\ WF_transfer_vars(subject = "zmsg" /\ Transfer!zframe_recv)
    /\ WF_sort_vars(subject = "zlistx" /\ Sort!Next)
    /\ WF_http_vars(subject = "zhttp_server" /\ ActorStep)
    /\ WF_http_vars(subject = "zhttp_server" /\ app_receives)
    /\ \A w \in Workers : WF_http_vars(subject = "zhttp_server" /\ WorkerStep(w))

-----------------------------------------------------------------------------
(* The properties of several parts, and those of the instances. *)

\* No call waits for ever: those of zsys while other threads initialise, close, fork and
\* shut down; zactor_destroy though a signal ended a wait; those on
\* zhttp_server between the requests; and the sort ends.
NoCallHangs ==
    /\ CallsReturn
    /\ Signalled!DestroyReturns
    /\ ApplicationServed
    /\ subject = "zlistx" => Sort!Terminates

\* What was handed over arrives: a message that zmsg_send sent is received, and a
\* request that zhttp_server passed to a worker is answered, whatever took the command out
\* of the mailbox that was to wake it.
HandedOverArrives ==
    /\ Transfer!Arrives
    /\ RequestsAnswered

\* zmsg: each frame is received once and in order, and no message in part, whatever is
\* interrupted and repeated.
EachFrameOnce == Transfer!EachFrameOnce /\ Transfer!ReceivedWhole

\* zlistx: the items are in order when the sort ends, and none is lost or there twice.
SortsItems == subject = "zlistx" => Sort!DoneIsSorted /\ Sort!ItemsKept

=============================================================================
