---------------------------- MODULE ZGossipMsg ------------------------------
(***************************************************************************)
(* zgossip_msg: the messages of zgossip as octets, one object to send and  *)
(* one to receive, each used for one message after the other.              *)
(*                                                                         *)
(* An octet is a number up to Octet (255 in the code), and the lengths     *)
(* that one octet holds, with the buffer of a key, scale with it.  Texts   *)
(* hold no octet 0.  Frames may also come from a peer that sends only a    *)
(* part of one.  The routing id of a ROUTER is a frame of its own in front *)
(* and is left out, as is the wording of warnings.  One frame is on its    *)
(* way at a time.                                                          *)
(***************************************************************************)
EXTENDS Integers, Sequences

CONSTANTS
    Octet,          \* the largest octet
    Keys, Values,   \* texts
    Ttls

VARIABLES
    sending,        \* the object that sends
    receiving,      \* the object that receives
    frames,         \* the frame on its way, if any
    result          \* the code of zgossip_msg_recv, and whether the frame was whole

gmsg_vars == <<sending, receiving, frames, result>>

NoValue == <<0>>        \* a value that was never set
Signature == <<Octet, Octet - 1>>
HELLO == 1
PUBLISH == 2
Ids == 1 .. 3           \* the ids past PUBLISH are alike
Version == 1

-----------------------------------------------------------------------------
(* Numbers and strings. *)

PUT_NUMBER1(n) == <<n % (Octet + 1)>>

PUT_NUMBER4(n) ==
    LET base == Octet + 1 IN
    <<(n \div base ^ 3) % base, (n \div base ^ 2) % base, (n \div base) % base, n % base>>

PUT_STRING(s) == PUT_NUMBER1(Len(s)) \o s

PUT_LONGSTR(s) == PUT_NUMBER4(Len(s)) \o s

\* A needle is where in the frame the next octet is read, 0 once the frame was too short.
GET_OCTETS(frame, needle, size) ==
    IF needle = 0 \/ needle + size > Len(frame) + 1
    THEN [needle |-> 0, octets |-> <<>>]
    ELSE [needle |-> needle + size, octets |-> SubSeq(frame, needle, needle + size - 1)]

GET_NUMBER(frame, needle, size) ==
    LET got == GET_OCTETS(frame, needle, size)
        value[i \in 0 .. Len(got.octets)] ==
            IF i = 0 THEN 0 ELSE value[i - 1] * (Octet + 1) + got.octets[i]
    IN  [needle |-> got.needle, number |-> value[Len(got.octets)]]

\* The octets of a string, if the frame has as many.
get_text(frame, needle, size) == GET_OCTETS(frame, needle, size)

\* A string with its length in front, in one octet or in four.
GET_TEXT(frame, needle, width) ==
    LET size == GET_NUMBER(frame, needle, width) IN
    get_text(frame, size.needle, size.number)

-----------------------------------------------------------------------------
(* The object. *)

NoResult == [rc |-> -1, whole |-> FALSE]
NewMsg == [id |-> HELLO, key |-> <<>>, value |-> NoValue, ttl |-> 0]

\* strncpy into key [256]
key_buffer(key) == SubSeq(key, 1, IF Len(key) < Octet THEN Len(key) ELSE Octet)

zgossip_msg_set(id, key, value, ttl) ==
    /\ frames = <<>>
    /\ result' = NoResult
    /\ sending' = [id |-> id, key |-> key_buffer(key), value |-> value, ttl |-> ttl]
    /\ UNCHANGED <<receiving, frames>>

Text(value) == IF value = NoValue THEN <<>> ELSE value

\* How many octets the frame is made for.
frame_size(m) ==
    3 + (IF m.id = PUBLISH THEN 1 + 1 + Len(m.key) + 4 + Len(Text(m.value)) + 4 ELSE 1)

\* The octets that are written.
Encoded(m) ==
    Signature \o PUT_NUMBER1(m.id) \o PUT_NUMBER1(Version) \o
        (IF m.id = PUBLISH
         THEN PUT_STRING(m.key) \o PUT_LONGSTR(Text(m.value)) \o PUT_NUMBER4(m.ttl)
         ELSE <<>>)

zgossip_msg_send ==
    /\ frames = <<>>
    /\ frames' = Append(frames, [octets |-> Encoded(sending), size |-> frame_size(sending),
                                 whole |-> TRUE])
    /\ UNCHANGED <<sending, receiving, result>>

\* A part of a frame, from another program.
peer_sends(n) ==
    /\ frames = <<>>
    /\ n < Len(Encoded(sending))
    /\ frames' = Append(frames, [octets |-> SubSeq(Encoded(sending), 1, n), size |-> n,
                                 whole |-> FALSE])
    /\ UNCHANGED <<sending, receiving, result>>

\* The fields are read one after the other into the object; the first that does not fit
\* ends the call with -1, and leaves what was read before.
zgossip_msg_recv ==
    /\ frames # <<>>
    /\ frames' = Tail(frames)
    /\ LET f == Head(frames).octets
           signature == GET_OCTETS(f, 1, 2)
           id == GET_NUMBER(f, signature.needle, 1)
           version == GET_NUMBER(f, id.needle, 1)
           key == GET_TEXT(f, version.needle, 1)
           value == GET_TEXT(f, key.needle, 4)
           ttl == GET_NUMBER(f, value.needle, 4)
           signed == signature.needle # 0 /\ signature.octets = Signature
           known == signed /\ id.needle # 0
           versioned == known /\ version.needle # 0 /\ version.number = Version
           full == versioned /\ id.number = PUBLISH
       IN  /\ receiving' =
                 [id |-> IF known THEN id.number ELSE receiving.id,
                  key |-> IF full /\ key.needle # 0 THEN key.octets ELSE receiving.key,
                  value |-> IF full /\ value.needle # 0 THEN value.octets ELSE receiving.value,
                  ttl |-> IF full /\ ttl.needle # 0 THEN ttl.number ELSE receiving.ttl]
           /\ result' = [rc |-> IF versioned /\ (id.number = PUBLISH => ttl.needle # 0)
                                THEN 0 ELSE -1,
                         whole |-> Head(frames).whole]
    /\ UNCHANGED sending

GMsgInit ==
    /\ sending = NewMsg /\ receiving = NewMsg /\ frames = <<>>
    /\ result = NoResult

GMsgNext ==
    \/ \E id \in Ids, key \in Keys, value \in Values \cup {NoValue}, ttl \in Ttls :
          zgossip_msg_set(id, key, value, ttl)
    \/ zgossip_msg_send \/ zgossip_msg_recv
    \/ \E n \in 0 .. Len(Encoded(sending)) : peer_sends(n)

GMsgSpec == GMsgInit /\ [][GMsgNext]_gmsg_vars

-----------------------------------------------------------------------------
(* What is checked. *)

\* What was sent is what is received, whatever either object was used for before: a key
\* as long as its buffer, a value that was never set, which arrives empty, and a time to
\* live with octets 0 in it.
MessageRestored ==
    result.whole =>
        /\ receiving.id = sending.id
        /\ sending.id = PUBLISH =>
              /\ receiving.key = sending.key
              /\ Text(receiving.value) = Text(sending.value)
              /\ receiving.ttl = sending.ttl

\* A whole message is accepted, and a part of one is refused whichever field it ends in,
\* with a length that promises more than there is.
PartsRefused == (result.rc = 0) <=> result.whole

\* Sending writes as many octets as the frame was made for: none beyond its end, and none
\* of it left as it was.
FrameFilled == \A i \in DOMAIN frames : Len(frames[i].octets) = frames[i].size

=============================================================================
