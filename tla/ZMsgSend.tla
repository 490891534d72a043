------------------------------ MODULE ZMsgSend ------------------------------
(***************************************************************************)
(* zmsg_send, zmsg_sendm and zmsg_recv frame by frame, one peer sending to *)
(* the other: signals interrupt their calls and the context may end.  The  *)
(* socket joins frames sent with ZFRAME_MORE to one message and hands it   *)
(* over when it is complete (libzmq).  A frame is [msg, part]: the part of *)
(* the message with that number, of those the application sends.           *)
(***************************************************************************)
EXTENDS Integers, Sequences, SequencesExt

CONSTANTS
    MaxParts,       \* bound: frames in a message
    MaxMessages,    \* bound: messages the application makes
    MaxSignals      \* bound: calls that are interrupted

VARIABLES
    frames,         \* self->frames of the sender's message
    sending,        \* the call in progress, none, send or sendm
    sent_some,
    made,           \* the messages made: [parts, kind]
    wire,           \* frames sent that do not make a whole message yet
    queue,          \* whole messages on their way
    coming,         \* frames of the message zmsg_recv has begun that are still to be read
    receiving,      \* frames zmsg_recv has appended
    got,            \* messages received
    done,           \* frames of the messages whose send returned 0
    signals, terminated

sender == <<frames, sending, sent_some, made, done>>
receiver == <<coming, receiving, got>>
vars == <<sender, wire, queue, receiver, signals, terminated>>

Parts(n, parts) == [k \in 1 .. parts |-> [msg |-> n, part |-> k]]

TransferInit ==
    /\ frames = <<>> /\ sending = "none" /\ sent_some = FALSE /\ made = <<>>
    /\ wire = <<>> /\ queue = <<>>
    /\ coming = <<>> /\ receiving = <<>> /\ got = <<>> /\ done = <<>>
    /\ signals = 0 /\ terminated = FALSE

\* A message is made and sent, as a whole or as part of one.
app_send(parts, kind) ==
    /\ sending = "none" /\ Len(made) < MaxMessages
    /\ made' = Append(made, [parts |-> parts, kind |-> kind])
    /\ frames' = Parts(Len(made) + 1, parts)
    /\ sending' = kind /\ sent_some' = FALSE
    /\ UNCHANGED <<done, wire, queue, receiver, signals, terminated>>

\* Another try with what a failed send has left; else the message is destroyed.
app_retry ==
    /\ sending = "none" /\ frames # <<>> /\ ~terminated
    /\ sending' = Last(made).kind /\ sent_some' = FALSE
    /\ UNCHANGED <<frames, made, done, wire, queue, receiver, signals, terminated>>

zctx_term ==
    /\ ~terminated /\ terminated' = TRUE
    /\ UNCHANGED <<sender, wire, queue, receiver, signals>>

More == sending = "sendm" \/ Len(frames) > 1

\* zframe_send succeeds and the frame is popped; after the last the message goes.
zframe_send ==
    /\ sending # "none" /\ ~terminated /\ frames # <<>>
    /\ IF More THEN wire' = Append(wire, Head(frames)) /\ queue' = queue
               ELSE wire' = <<>> /\ queue' = Append(queue, Append(wire, Head(frames)))
    /\ frames' = Tail(frames) /\ sent_some' = TRUE
    /\ sending' = IF Tail(frames) = <<>> THEN "none" ELSE sending
    /\ done' = IF Tail(frames) = <<>>
                 THEN done \o Parts(Len(made), Last(made).parts) ELSE done
    /\ UNCHANGED <<made, receiver, signals, terminated>>

SendContinues == sent_some

send_interrupted ==
    /\ sending # "none" /\ ~terminated /\ signals < MaxSignals
    /\ signals' = signals + 1
    /\ sending' = IF SendContinues THEN sending ELSE "none"
    /\ UNCHANGED <<frames, sent_some, made, done, wire, queue, receiver, terminated>>

send_terminated ==
    /\ sending # "none" /\ terminated
    /\ sending' = "none"
    /\ UNCHANGED <<frames, sent_some, made, done, wire, queue, receiver, signals, terminated>>

zframe_recv ==
    /\ ~terminated
    /\ LET left == IF coming = <<>> THEN Head(queue) ELSE coming
       IN  /\ coming # <<>> \/ queue # <<>>
           /\ queue' = IF coming = <<>> THEN Tail(queue) ELSE queue
           /\ coming' = Tail(left)
           /\ IF Tail(left) # <<>>
                THEN receiving' = Append(receiving, Head(left)) /\ got' = got
                ELSE receiving' = <<>> /\ got' = Append(got, Append(receiving, Head(left)))
    /\ UNCHANGED <<sender, wire, signals, terminated>>

mut_recv_left == <<>>

\* The frames zmsg_recv keeps when it is interrupted: it goes on if it has some.
RecvLeft == receiving

recv_interrupted ==
    /\ ~terminated /\ signals < MaxSignals
    /\ signals' = signals + 1
    /\ receiving' = RecvLeft
    /\ UNCHANGED <<sender, wire, queue, coming, got, terminated>>

\* The frames received so far are destroyed with the message.
recv_terminated ==
    /\ terminated /\ receiving # <<>>
    /\ receiving' = <<>>
    /\ UNCHANGED <<sender, wire, queue, coming, got, signals, terminated>>

TransferNext ==
    \/ \E parts \in 1 .. MaxParts, kind \in {"send", "sendm"} : app_send(parts, kind)
    \/ app_retry \/ zctx_term
    \/ zframe_send \/ send_interrupted \/ send_terminated
    \/ zframe_recv \/ recv_interrupted \/ recv_terminated

TransferSpec == TransferInit /\ [][TransferNext]_vars

\* Both peers' loops go on; a signal or the end of the context need never come.
FairTransferSpec == TransferSpec /\ WF_vars(zframe_send) /\ WF_vars(zframe_recv)

-----------------------------------------------------------------------------
(* Properties. *)

\* The frames received, in transit and joined so far are those of the messages
\* whose send returned 0 and those the current send has popped, each once and in
\* order, however often calls were interrupted and repeated.
EachFrameOnce ==
    LET current == IF made = <<>> \/ frames = <<>> THEN <<>>
                   ELSE SubSeq(Parts(Len(made), Last(made).parts), 1,
                               Last(made).parts - Len(frames))
    IN  ~terminated =>
            FlattenSeq(got) \o receiving \o coming \o FlattenSeq(queue) \o wire
                = done \o current

\* A message received is a run of whole messages of the sender, ended by the only
\* one that was not sent as part of a sequence; a message whose send failed and was
\* not repeated is not in it at all.
ReceivedWhole ==
    \A g \in ToSet(got) :
        LET numbers == SetToSortSeq({f.msg : f \in ToSet(g)}, <)
        IN  /\ g = FlattenSeq([i \in 1 .. Len(numbers) |->
                                  Parts(numbers[i], made[numbers[i]].parts)])
            /\ \A i \in 1 .. Len(numbers) :
                  made[numbers[i]].kind = IF i = Len(numbers) THEN "send" ELSE "sendm"

\* A message whose send returned 0 is received, unless the context ends.
Arrives ==
    \A n \in 1 .. MaxMessages :
        (\E k \in 1 .. Len(queue) : Last(queue[k]).msg = n)
            ~> (terminated \/ \E k \in 1 .. Len(got) : Last(got[k]).msg = n)
=============================================================================
