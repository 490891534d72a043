------------------------------ MODULE ZPicture ------------------------------
(***************************************************************************)
(* Picture messages of zsock: zsock_send and zsock_recv, with one frame    *)
(* for each element and numbers written in decimal, and zsock_bsend and    *)
(* zsock_brecv, with the elements packed in one frame and the frames of f  *)
(* and m after it.  A frame is a sequence of octets; the value of an       *)
(* element is the sequence of its frames, a number that of <<n>>.  What h  *)
(* and l pack, and the octets of b and U, are blocks of octets like c.     *)
(***************************************************************************)
EXTENDS Integers, Sequences, SequencesExt, FiniteSetsExt

CONSTANTS
    Numbers,            \* arguments of i, 1, 2, 4, 8 and u
    Strings, Blocks,    \* strings, and blocks of octets: chunks, frames and packed containers
    Messages,           \* arguments of m
    PointerSize, UuidSize,
    MaxElements,        \* bound: elements of a picture
    CacheSize,          \* octets in the string cache of a new socket
    MAX_ALLOC_SIZE,
    GrowsCache,         \* may the strings of one picture need more than the cache has?
    SendsEmpty          \* may zsock_bsend send an m without frames?

VARIABLES
    wire,               \* frames to receive: [data, more]
    sent,               \* the call that sent the first message, or None
    got,                \* what the call that received it stored, or None
    cache_size

pictureVars == <<wire, sent, got, cache_size>>

None == [kind |-> "none", elements |-> <<>>, rc |-> 0]
Null == << <<-1>> >>    \* a null pointer that was stored

Element(e, values) == {[e |-> e, v |-> v] : v \in values}
OneFrame(set) == {<<s>> : s \in set}
Numeric == {"i", "1", "2", "4", "8", "u"}

\* The elements and the arguments they take; 4, 8 and u are given unsigned numbers.
Arguments(e) == IF e \in {"4", "8", "u"} THEN Numbers \cap Nat ELSE Numbers
TextElements ==
    UNION {Element(e, OneFrame(OneFrame(Arguments(e)))) : e \in Numeric}
        \cup Element("s", OneFrame(Strings))
        \cup UNION {Element(e, OneFrame(Blocks)) : e \in {"c", "f"}}
        \cup Element("p", {<<[i \in 1 .. PointerSize |-> i]>>})
        \cup Element("z", {<< <<>> >>})
        \cup Element("m", Messages)
BinaryElements ==
    UNION {Element(e, {<< <<n>> >> : n \in Numbers \cap Nat}) : e \in {"1", "2", "4", "8"}}
        \cup UNION {Element(e, OneFrame(Strings)) : e \in {"s", "S"}}
        \cup UNION {Element(e, OneFrame(Blocks)) : e \in {"c", "f"}}
        \cup Element("u", {<<[i \in 1 .. UuidSize |-> 7]>>})
        \cup Element("p", {<<[i \in 1 .. PointerSize |-> i]>>})
        \cup Element("m", Messages)

Picture(elements) == [k \in DOMAIN elements |-> elements[k].e]

\* What the elements m and p ask of a caller: m is the last one.
Calls(set) ==
    {s \in UNION {[1 .. n -> set] : n \in 1 .. MaxElements} :
        \A k \in 1 .. Len(s) - 1 : s[k].e # "m"}

\* A message on the wire, and the one that follows it.
Message(frames) == [k \in DOMAIN frames |-> [data |-> frames[k], more |-> k < Len(frames)]]
NextMessage == Message(<< <<78>> >>)

PictureInit == wire = <<>> /\ sent = None /\ got = None /\ cache_size = CacheSize

-----------------------------------------------------------------------------
(* zsock_send and zsock_recv. *)

Decimal[n \in Nat] == IF n < 10 THEN <<48 + n>> ELSE Append(Decimal[n \div 10], 48 + (n % 10))
Text(n) == IF n < 0 THEN <<45>> \o Decimal[-n] ELSE Decimal[n]

IsDigit(c) == c \in 48 .. 57

\* atoi and strtoul: the digits that a text begins with.
Value(s) ==
    LET negative == s # <<>> /\ s[1] = 45
        start == IF negative THEN 2 ELSE 1
        stop == Min({k \in start .. Len(s) + 1 : k > Len(s) \/ ~IsDigit(s[k])})
        number == FoldLeft(LAMBDA n, c : 10 * n + c - 48, 0, SubSeq(s, start, stop - 1))
    IN  IF negative THEN -number ELSE number

\* The number that a type of the element holds.
Narrow(e, n) == IF e = "1" THEN n % 256 ELSE IF e = "2" THEN n % 65536 ELSE n

\* The frames of an element; a u is followed by the letter d.
TextFrames(x) ==
    CASE x.e = "u" -> <<Append(Text(x.v[1][1]), 100)>>
      [] x.e \in Numeric \ {"u"} -> <<Text(Narrow(x.e, x.v[1][1]))>>
      [] OTHER -> x.v

zsock_vsend(elements) == FlattenSeq([k \in DOMAIN elements |-> TextFrames(elements[k])])

\* What an element stores when a frame is there, and when the message has no more.
TextStores(e, frame) == IF e \in Numeric THEN << <<Narrow(e, Value(frame))>> >> ELSE <<frame>>
TextMissing(e) == IF e \in Numeric THEN << <<0>> >> ELSE IF e = "m" THEN <<>> ELSE Null

\* Does the frame make the call return -1?
TextFails(e, frame) ==
    \/ e = "p" /\ Len(frame) # PointerSize
    \/ e = "z" /\ frame # <<>>

Missing(st, e) == [st EXCEPT !.stored = Append(@, TextMissing(e))]

RecvElement(st, e) ==
    IF e = "m"
    THEN [st EXCEPT !.stored = Append(@, st.msg), !.msg = <<>>]
    ELSE IF st.msg = <<>>
    THEN Missing(st, e)
    ELSE [msg |-> Tail(st.msg),
          stored |-> Append(st.stored, TextStores(e, Head(st.msg))),
          rc |-> IF TextFails(e, Head(st.msg)) THEN -1 ELSE st.rc]

\* The frame of zmsg_new_signal (0).
SignalFrame == [i \in 1 .. 8 |-> 17 * (i - 1)]

zsock_vrecv(msg, picture) ==
    IF msg = <<SignalFrame>> THEN [msg |-> <<>>, stored |-> <<>>, rc |-> -1]
    ELSE FoldLeft(RecvElement, [msg |-> msg, stored |-> <<>>, rc |-> 0], picture)

-----------------------------------------------------------------------------
(* zsock_bsend and zsock_brecv. *)

\* Numbers with the high octet first; the four high octets of an 8 are zero here.
PutNumber(n, width) ==
    IF width = 8 THEN <<0, 0, 0, 0>> \o [k \in 1 .. 4 |-> (n \div 256 ^ (4 - k)) % 256]
    ELSE [k \in 1 .. width |-> (n \div 256 ^ (width - k)) % 256]
GetNumber(s) == FoldLeft(LAMBDA n, octet : 256 * n + octet, 0, s)

Width == [x \in {"1", "2", "4", "8"} |->
            CASE x = "1" -> 1 [] x = "2" -> 2 [] x = "4" -> 4 [] x = "8" -> 8]
\* The octets of the length that goes before a value.
LengthWidth(e) == CASE e = "s" -> 1 [] e \in {"S", "c"} -> 4 [] OTHER -> 0

\* What an element adds to the data frame, and the frames it adds after it.
Packed(x) ==
    CASE x.e \in DOMAIN Width -> PutNumber(x.v[1][1], Width[x.e])
      [] x.e \in {"s", "S", "c"} -> PutNumber(Len(x.v[1]), LengthWidth(x.e)) \o x.v[1]
      [] x.e \in {"u", "p"} -> x.v[1]
      [] OTHER -> <<>>
Following(x) == IF x.e \in {"f", "m"} THEN x.v ELSE <<>>

zsock_bsend(elements) ==
    <<FlattenSeq([k \in DOMAIN elements |-> Packed(elements[k])])>>
        \o FlattenSeq([k \in DOMAIN elements |-> Following(elements[k])])

\* The octets of an element, its length read from the frame where it has one.
LengthAt(e, s) ==
    CASE e \in DOMAIN Width -> Width[e]
      [] e = "u" -> UuidSize
      [] e = "p" -> PointerSize
      [] OTHER -> GetNumber(SubSeq(s, 1, LengthWidth(e)))

Malformed(e, s) ==
    \/ Len(s) < LengthWidth(e)
    \/ e \in {"S", "c"} /\ LengthAt(e, s) > MAX_ALLOC_SIZE
    \/ Len(s) < LengthWidth(e) + LengthAt(e, s)

CacheUsed(used, string) == used + Len(string) + 1

\* The string goes to the cache, which is doubled if it is full; if that moves it, the
\* strings stored before are lost.
CacheString(st, string, moves) ==
    LET grow == st.used + Len(string) > st.size
        size == IF grow THEN 2 * st.size ELSE st.size
        cells == [c \in st.used + 1 .. st.used + Len(string) + 1 |->
                    IF c - st.used <= Len(string) THEN string[c - st.used] ELSE 0]
    IN  [st EXCEPT !.size = size, !.used = CacheUsed(@, string),
                   !.from = IF grow /\ moves THEN st.used ELSE @,
                   !.cache = [c \in 1 .. size |->
                        IF c \in DOMAIN cells THEN cells[c] ELSE IF c <= st.size THEN @[c] ELSE 0],
                   !.stored = Append(@, << <<st.used>> >>)]

\* Frames of the rest of the message.
Rest(w) == IF w = <<>> THEN <<>> ELSE SubSeq(w, 1, Min({k \in DOMAIN w : ~w[k].more}))
Data(w) == [k \in DOMAIN w |-> w[k].data]

BrecvElement(st, e, moves) ==
    LET s == st.needle
        begin == LengthWidth(e)
        stop == begin + LengthAt(e, s)
        value == SubSeq(s, begin + 1, stop)
        taken == [st EXCEPT !.needle = SubSeq(s, stop + 1, Len(s))]
        fails == [st EXCEPT !.rc = -1]
    IN  IF st.rc = -1 THEN st
        ELSE IF e \in {"f", "m"}        \* RCVMORE of the last frame received
        THEN LET frames == IF e = "f" THEN SubSeq(st.wire, 1, 1) ELSE Rest(st.wire)
             IN  IF ~st.more THEN fails
                 ELSE [st EXCEPT !.wire = SubSeq(@, Len(frames) + 1, Len(@)),
                                 !.more = frames[Len(frames)].more,
                                 !.stored = Append(@, Data(frames))]
        ELSE IF Malformed(e, s) THEN fails
        ELSE IF e = "s" THEN CacheString(taken, value, moves)
        ELSE [taken EXCEPT !.stored =
                Append(@, IF e \in DOMAIN Width THEN << <<GetNumber(value)>> >> ELSE <<value>>)]

\* The string at an offset of the cache, as the caller reads it when the call has returned.
CString(st, offset) ==
    LET ends == {c \in offset + 1 .. st.size : st.cache[c] = 0}
    IN  IF offset < st.from \/ ends = {} THEN Null
        ELSE <<SubSeq(st.cache, offset + 1, Min(ends) - 1)>>

zsock_brecv(w, picture, moves) ==
    LET st == FoldLeft(LAMBDA acc, e : BrecvElement(acc, e, moves),
                  [needle |-> w[1].data, more |-> w[1].more, wire |-> Tail(w), rc |-> 0,
                   stored |-> <<>>, size |-> cache_size, used |-> 0, from |-> 0,
                   cache |-> [c \in 1 .. cache_size |-> 0]], picture)
    IN  [st EXCEPT !.stored = [k \in DOMAIN @ |->
            IF picture[k] = "s" THEN CString(st, @[k][1][1]) ELSE @[k]]]

-----------------------------------------------------------------------------
(* The calls. *)

\* One message, and another one behind it.
app_send ==
    /\ sent = None
    /\ \E elements \in Calls(TextElements) :
        /\ zsock_vsend(elements) # <<>>
        /\ sent' = [kind |-> "text", elements |-> elements, rc |-> 0]
        /\ wire' = Message(zsock_vsend(elements)) \o NextMessage
    /\ UNCHANGED <<got, cache_size>>

\* The signal of an actor that ends.
app_signal ==
    /\ sent = None
    /\ sent' = [kind |-> "text", elements |-> <<>>, rc |-> 0]
    /\ wire' = Message(<<SignalFrame>>) \o NextMessage
    /\ UNCHANGED <<got, cache_size>>

StringOctets(elements) ==
    FoldLeft(LAMBDA n, x : IF x.e = "s" THEN n + Len(x.v[1]) + 1 ELSE n, 0, elements)

app_bsend ==
    /\ sent = None
    /\ \E elements \in Calls(BinaryElements) :
        /\ GrowsCache \/ StringOctets(elements) <= CacheSize
        /\ SendsEmpty \/ \A k \in DOMAIN elements : elements[k].e = "m" => elements[k].v # <<>>
        /\ sent' = [kind |-> "binary", elements |-> elements, rc |-> 0]
        /\ wire' = Message(zsock_bsend(elements)) \o NextMessage
    /\ UNCHANGED <<got, cache_size>>

\* The receiver's picture: that of the sender, one that is shorter, one that is longer, or
\* one that expects an empty frame.  A pointer is received only where one was sent.
Pictures(picture) ==
    {SubSeq(picture, 1, n) : n \in 1 .. Len(picture)}
        \cup {Append(picture, e) : e \in IF "m" \in ToSet(picture) THEN {} ELSE {"4", "s", "c", "m"}}

app_recv ==
    /\ sent.kind = "text" /\ got = None
    /\ \E picture \in Pictures(Picture(sent.elements))
                        \cup {[k \in DOMAIN sent.elements |-> "z"]} :
        LET st == zsock_vrecv(Data(Rest(wire)), picture)
        IN  got' = [kind |-> "text", picture |-> picture, stored |-> st.stored,
                    rc |-> st.rc, more |-> FALSE]
    /\ wire' = SubSeq(wire, Len(Rest(wire)) + 1, Len(wire))
    /\ UNCHANGED <<sent, cache_size>>

app_brecv ==
    /\ sent.kind = "binary" /\ got = None
    /\ \E picture \in Pictures(Picture(sent.elements)), moves \in BOOLEAN :
        LET st == zsock_brecv(wire, picture, moves)
        IN  /\ got' = [kind |-> "partial", picture |-> picture, stored |-> st.stored,
                       rc |-> st.rc, more |-> st.more]
            /\ wire' = st.wire /\ cache_size' = st.size
    /\ UNCHANGED sent

zsock_flush(w, more) == IF more THEN SubSeq(w, Len(Rest(w)) + 1, Len(w)) ELSE w

\* What was not received of the message is dropped.
app_flush ==
    /\ got.kind = "partial"
    /\ got' = [got EXCEPT !.kind = "binary", !.more = FALSE]
    /\ wire' = zsock_flush(wire, got.more)
    /\ UNCHANGED <<sent, cache_size>>

\* The next message is received, and the next one sent.
app_again ==
    /\ got.kind \in {"text", "binary"}
    /\ wire' = <<>> /\ sent' = None /\ got' = None
    /\ UNCHANGED cache_size

PictureNext == app_send \/ app_signal \/ app_bsend \/ app_recv \/ app_brecv \/ app_flush \/ app_again

PictureSpec == PictureInit /\ [][PictureNext]_pictureVars

-----------------------------------------------------------------------------
\* What an element of a picture was given, cut to the type it names.
Given(x) == IF x.e \in {"1", "2"} THEN << <<Narrow(x.e, x.v[1][1])>> >> ELSE x.v

\* As far as the pictures of the two sides are the same, zsock_recv and zsock_brecv store
\* what zsock_send and zsock_bsend were given, cut to its type, and do not fail: through
\* decimal text or octets, lengths, the string cache and the frames of f and m.
PictureRestores ==
    got # None /\ sent.elements # <<>>
       /\ (got.rc = 0 \/ got.picture = Picture(sent.elements)) =>
        /\ got.rc = 0
        /\ \A k \in 1 .. Min({Len(got.picture), Len(sent.elements)}) :
            got.picture[k] = sent.elements[k].e => got.stored[k] = Given(sent.elements[k])

\* A message shorter than the picture of zsock_recv stores zero or null for the rest and
\* is no failure, as is documented; zsock_brecv refuses it.  A signal stores nothing.
ShortIsNull ==
    got # None /\ Len(got.picture) > Len(sent.elements) =>
        IF sent.elements = <<>> THEN got.rc = -1 /\ got.stored = <<>>
        ELSE IF got.kind = "text"
        THEN got.rc = 0 /\ Last(got.stored) \in {<< <<0>> >>, Null, <<>>}
        ELSE got.rc = -1

\* When a picture was received, and zsock_flush called after zsock_brecv, the socket is at
\* the beginning of the next message, whether or not the picture fitted the message.
AtNextMessage == got # None /\ got.kind # "partial" => wire = NextMessage
=============================================================================
