-------------------------------- MODULE ZMsg --------------------------------
(***************************************************************************)
(* zmsg: a message as a list of frames with its content size, and the      *)
(* encoding of a message into one frame.  A frame is the sequence of its   *)
(* octets; octets count to Octet, which is 255 in the code.                *)
(***************************************************************************)
EXTENDS Integers, Sequences, SequencesExt, FiniteSets

CONSTANTS
    Octet,          \* the largest octet, also the mark of a long frame
    Frames,         \* the frames an application makes
    MaxFrames,      \* bound: frames in a message
    MaxOctets       \* bound: octets in a frame

NoMsg == [frames |-> <<>>, content_size |-> -1]

VARIABLES
    msg,            \* the message
    sub             \* a message taken out of it, or to be put into it, or NoMsg

vars == <<msg, sub>>

Size(frames) == FoldLeft(LAMBDA sum, f : sum + Len(f), 0, frames)

-----------------------------------------------------------------------------
(* The encoding. *)

Digits(n) == [i \in 1 .. 4 |-> (n \div (Octet + 1) ^ (4 - i)) % (Octet + 1)]
Number(d) == FoldLeft(LAMBDA n, digit : n * (Octet + 1) + digit, 0, d)

\* Below the mark the length is one octet, else the mark and four octets.
Header(frame) ==
    IF Len(frame) < Octet THEN <<Len(frame)>> ELSE <<Octet>> \o Digits(Len(frame))

zmsg_encode(frames) == FlattenSeq([i \in 1 .. Len(frames) |-> Header(frames[i]) \o frames[i]])

Message(frames) == [frames |-> frames, content_size |-> Size(frames)]

\* The message in a frame, NoMsg if the frame is badly formatted.
zmsg_decode(frame) ==
    LET limit == Len(frame)
        Long(p) == frame[p] = Octet
        Start(p) == IF Long(p) THEN p + 5 ELSE p + 1
        Length(p) == IF Long(p) THEN Number(SubSeq(frame, p + 1, p + 4)) ELSE frame[p]
        Fits(p) == (Long(p) => p + 4 <= limit) /\ Start(p) + Length(p) - 1 <= limit
        from[p \in 1 .. limit + 1] ==
            IF p = limit + 1 THEN Message(<<>>)
            ELSE IF ~Fits(p) THEN NoMsg
            ELSE LET rest == from[Start(p) + Length(p)]
                 IN  IF rest = NoMsg THEN NoMsg
                     ELSE Message(<<SubSeq(frame, Start(p), Start(p) + Length(p) - 1)>>
                                  \o rest.frames)
    IN  from[1]

-----------------------------------------------------------------------------
(* The calls on a message. *)

MsgInit == msg = Message(<<>>) /\ sub = NoMsg

Room(f) == Len(msg.frames) < MaxFrames /\ Len(f) <= MaxOctets

Edit(m, s) == msg' = m /\ sub' = s

Appended(m, f) == [frames |-> Append(m.frames, f), content_size |-> m.content_size + Len(f)]
Prepended(m, f) == [frames |-> <<f>> \o m.frames, content_size |-> m.content_size + Len(f)]

Popped(m) ==
    IF m.frames = <<>> THEN m
    ELSE [frames |-> Tail(m.frames), content_size |-> m.content_size - Len(Head(m.frames))]

zmsg_append(f) == Room(f) /\ Edit(Appended(msg, f), sub)
zmsg_prepend(f) == Room(f) /\ Edit(Prepended(msg, f), sub)
zmsg_pop == Edit(Popped(msg), sub)

\* A frame that is not in the message leaves it as it is.
Removed(m, f) ==
    IF Contains(m.frames, f)
      THEN [frames |-> RemoveFirst(m.frames, f), content_size |-> m.content_size - Len(f)]
      ELSE m

zmsg_remove(f) == Edit(Removed(msg, f), sub)

\* A message is copied; encoded into a frame, which is added; taken out and decoded.
zmsg_dup == sub = NoMsg /\ Edit(msg, Message(msg.frames))
zmsg_addmsg ==
    LET f == zmsg_encode(sub.frames)
    IN  sub # NoMsg /\ Room(f) /\ Edit(Appended(msg, f), NoMsg)
zmsg_popmsg ==
    /\ sub = NoMsg /\ msg.frames # <<>>
    /\ Edit(Popped(msg), zmsg_decode(Head(msg.frames)))

Wrapped(m, f) == Prepended(Prepended(m, <<>>), f)

\* The first frame, and an empty one after it.
Unwrapped(m) ==
    LET rest == Popped(m)
    IN  IF rest.frames # <<>> /\ Head(rest.frames) = <<>> THEN Popped(rest) ELSE rest

zmsg_wrap(f) == Len(msg.frames) + 1 < MaxFrames /\ Edit(Wrapped(msg, f), sub)
zmsg_unwrap == Edit(Unwrapped(msg), sub)

MsgNext ==
    \/ \E f \in Frames : zmsg_append(f) \/ zmsg_prepend(f) \/ zmsg_remove(f) \/ zmsg_wrap(f)
    \/ zmsg_pop \/ zmsg_unwrap
    \/ zmsg_dup \/ zmsg_addmsg \/ zmsg_popmsg

MsgSpec == MsgInit /\ [][MsgNext]_vars

-----------------------------------------------------------------------------
(* Properties. *)

\* content_size, kept up to date by every call that adds or takes away a frame, is
\* what counting the octets again gives, in submessages too.
ContentExact == \A m \in {msg, sub} : m # NoMsg => m.content_size = Size(m.frames)

\* A message that is encoded into a frame is decoded into the same frames, with
\* frames below, at and above the longest length that one octet holds.
RoundTrip == zmsg_decode(zmsg_encode(msg.frames)) = Message(msg.frames)

\* Unwrapping undoes wrapping, whatever frames, empty ones too, the message has.
UnwrapsWhatItWrapped == \A f \in Frames : Unwrapped(Wrapped(msg, f)) = msg
=============================================================================
