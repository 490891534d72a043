--------------------------- MODULE ZGossip_proofs ---------------------------
(***************************************************************************)
(* For any network of gossip nodes whose keys are each published with one  *)
(* value only: what a node's engine owes to the clients it has as          *)
(* connected, and that a quiet network is a consistent one.                *)
(***************************************************************************)
EXTENDS ZGossip, SequenceTheorems, FiniteSetTheorems, TLAPS

Channels == [AllLinks -> Seq(Messages)]

\* The facts about single messages and channels that the actions use.
LEMMA MessageFacts ==
    /\ Hello \in Messages /\ Invalid \in Messages /\ Pong \in Messages
    /\ \A t \in Tuples : Publish(t) \in Messages
    /\ \A m \in Messages : m.id = "PUBLISH" => m.tuple \in Tuples /\ m = Publish(m.tuple)
    /\ Invalid.id = "INVALID" /\ Hello.id = "HELLO" /\ Pong.id = "PONG"
    /\ \A t : Publish(t).id = "PUBLISH" /\ Publish(t).tuple = t
<1>1. /\ Hello \in Messages /\ Invalid \in Messages /\ Pong \in Messages
      /\ \A t \in Tuples : Publish(t) \in Messages
  BY DEF Messages
<1>2. /\ Invalid.id = "INVALID" /\ Hello.id = "HELLO" /\ Pong.id = "PONG"
      /\ Message("PING").id = "PING"
      /\ \A t : Publish(t).id = "PUBLISH" /\ Publish(t).tuple = t
  BY DEF Hello, Invalid, Pong, Message, Publish
<1>3. ASSUME NEW m \in Messages, m.id = "PUBLISH"
      PROVE  m.tuple \in Tuples /\ m = Publish(m.tuple)
  <2>1. m \in {Publish(t) : t \in Tuples}
    BY <1>2, <1>3 DEF Messages
  <2> QED
    BY <1>2, <2>1
<1> QED
  BY <1>1, <1>2, <1>3

\* A message queued on a channel is on it, and so is what was there before.
LEMMA InAppend ==
    ASSUME NEW s \in Seq(Messages), NEW m \in Messages
    PROVE  /\ Append(s, m) \in Seq(Messages)
           /\ In(Append(s, m), m)
           /\ \A x : In(s, x) => In(Append(s, m), x)
  BY AppendProperties DEF In

\* Taking the first message off a channel leaves every other one on it.
LEMMA InTail ==
    ASSUME NEW s \in Seq(Messages), s # <<>>
    PROVE  /\ Head(s) \in Messages /\ Tail(s) \in Seq(Messages)
           /\ \A x : In(s, x) /\ x # Head(s) => In(Tail(s), x)
<1>1. Head(s) \in Messages /\ Tail(s) \in Seq(Messages) /\ Len(Tail(s)) = Len(s) - 1
      /\ \A i \in 1..Len(Tail(s)) : Tail(s)[i] = s[i + 1]
  BY HeadTailProperties
<1>2. Len(s) \in Nat
  BY LenProperties
<1>3. ASSUME NEW x, In(s, x), x # Head(s) PROVE In(Tail(s), x)
  <2>1. PICK i \in 1..Len(s) : s[i] = x
    BY <1>3 DEF In
  <2>2. i # 1
    BY <1>3, <2>1
  <2>3. i - 1 \in 1..Len(Tail(s)) /\ Tail(s)[i - 1] = x
    BY <1>1, <1>2, <2>1, <2>2
  <2> QED
    BY <2>3 DEF In
<1> QED
  BY <1>1, <1>3

\* What is on either of two sequences of messages is on their concatenation.
LEMMA InConcat ==
    ASSUME NEW s \in Seq(Messages), NEW w \in Seq(Messages)
    PROVE  /\ s \o w \in Seq(Messages)
           /\ \A x : In(s, x) \/ In(w, x) => In(s \o w, x)
<1>1. s \o w \in Seq(Messages) /\ Len(s \o w) = Len(s) + Len(w)
      /\ \A i \in 1..Len(s) + Len(w) : (s \o w)[i] = IF i <= Len(s) THEN s[i] ELSE w[i - Len(s)]
  BY ConcatProperties
<1>2. Len(s) \in Nat /\ Len(w) \in Nat
  BY LenProperties
<1>3. ASSUME NEW x, NEW i \in 1..Len(s), s[i] = x PROVE In(s \o w, x)
  <2>1. i \in 1..Len(s) + Len(w) /\ (s \o w)[i] = x
    BY <1>1, <1>2, <1>3
  <2> QED
    BY <1>1, <2>1 DEF In
<1>4. ASSUME NEW x, NEW i \in 1..Len(w), w[i] = x PROVE In(s \o w, x)
  <2>1. i + Len(s) \in 1..Len(s) + Len(w) /\ (s \o w)[i + Len(s)] = x
    BY <1>1, <1>2, <1>4
  <2> QED
    BY <1>1, <2>1 DEF In
<1> QED
  BY <1>1, <1>3, <1>4 DEF In

\* What is sent for a HELLO, or with one, has every tuple of the set.
LEMMA WalkFacts ==
    ASSUME NEW S \in SUBSET Tuples, NEW w \in Walks(S)
    PROVE  /\ PublishAll(w) \in Seq(Messages)
           /\ \A t \in S : In(PublishAll(w), Publish(t))
           /\ \A i \in 1..Len(PublishAll(w)) : PublishAll(w)[i] # Hello
<1> DEFINE c == Cardinality(S)
           p == PublishAll(w)
<1>1. c \in Nat
  BY LinkAssumption, FS_Subset, FS_CardinalityType
<1>2. w \in [1..c -> S] /\ \A t \in S : \E i \in 1..c : w[i] = t
  BY DEF Walks
<1> HIDE DEF c
<1>3. p = [i \in 1..c |-> Publish(w[i])]
  BY <1>2 DEF PublishAll
<1>4. p \in [1..c -> Messages]
  BY <1>2, <1>3, MessageFacts
<1> HIDE DEF p
<1>5. p \in Seq(Messages) /\ Len(p) = c
  <2>1. p \in Seq(Messages)
    BY <1>1, <1>4
  <2> QED
    BY <1>1, <1>4, <2>1, LenProperties
<1>6. \A t \in S : In(p, Publish(t))
  BY <1>2, <1>3, <1>5 DEF In
<1>7. \A i \in 1..Len(p) : p[i] # Hello
  BY <1>2, <1>3, <1>5, MessageFacts
<1> QED
  BY <1>5, <1>6, <1>7 DEF p

\* Popped, the receive of the handlers, takes one message off one channel only.
LEMMA PoppedOK ==
    ASSUME NEW ch \in Channels, NEW l \in AllLinks, ch[l] # <<>>
    PROVE  /\ Popped(ch, l) \in Channels
           /\ Head(ch[l]) \in Messages
           /\ \A k \in AllLinks : \A x : In(ch[k], x) /\ (k # l \/ x # Head(ch[l])) => In(Popped(ch, l)[k], x)
<1>1. ch[l] \in Seq(Messages)
  BY DEF Channels
<1>2. Head(ch[l]) \in Messages /\ Tail(ch[l]) \in Seq(Messages)
      /\ \A x : In(ch[l], x) /\ x # Head(ch[l]) => In(Tail(ch[l]), x)
  BY <1>1, InTail
<1>3. \A k \in AllLinks : Popped(ch, l)[k] = IF k = l THEN Tail(ch[l]) ELSE ch[k]
  BY DEF Popped, Channels
<1>4. Popped(ch, l) \in Channels
  BY <1>2 DEF Popped, Channels
<1> QED
  BY <1>2, <1>3, <1>4

\* Send, the send of the handlers, adds one message to one channel only.
LEMMA SendOK ==
    ASSUME NEW ch \in Channels, NEW l \in AllLinks, NEW m \in Messages
    PROVE  /\ Send(ch, l, m) \in Channels
           /\ In(Send(ch, l, m)[l], m)
           /\ \A k \in AllLinks : \A x : In(ch[k], x) => In(Send(ch, l, m)[k], x)
<1>1. ch[l] \in Seq(Messages)
  BY DEF Channels
<1>2. Append(ch[l], m) \in Seq(Messages) /\ In(Append(ch[l], m), m)
      /\ \A x : In(ch[l], x) => In(Append(ch[l], m), x)
  BY <1>1, InAppend
<1>3. \A k \in AllLinks : Send(ch, l, m)[k] = IF k = l THEN Append(ch[l], m) ELSE ch[k]
  BY DEF Send, Channels
<1>4. Send(ch, l, m) \in Channels
  BY <1>2 DEF Send, Channels
<1> QED
  BY <1>2, <1>3, <1>4

\* What LinkAssumption says of the ends of links and of publications.
LEMMA LinkFacts ==
    /\ Links \subseteq AllLinks /\ RawLinks \subseteq AllLinks
    /\ \A l \in AllLinks : l[2] \in Nodes /\ l[1] \in Nodes \cup Programs
    /\ \A l \in Links : l[1] \in Nodes
    /\ \A p \in Publications : p.node \in Nodes /\ p.tuple \in Tuples
  BY LinkAssumption DEF AllLinks, Programs, Tuples

\* What the updates of a key would break: a key is only published with one value.
OneValue == \A s, t \in Tuples : s.key = t.key => s = t

\* server_accept keeps the types, stores the tuple and sends it on.
LEMMA AcceptOK ==
    ASSUME TypeOK, NEW n \in Nodes, NEW t \in Tuples, NEW u \in Channels, NEW d \in Channels,
           server_accept(n, t, u, d)
    PROVE  /\ tuples' \in [Nodes \cup Programs -> SUBSET Tuples]
           /\ client' \in [AllLinks -> States]
           /\ up' \in Channels /\ down' \in Channels
<1>1. CASE ~IsNew(n, t)
  BY <1>1 DEF server_accept, TypeOK
<1>2. CASE IsNew(n, t)
  <2>1. tuples' = Stored(n, t) /\ client' = ForwardClients(n)
        /\ down' = ForwardDown(n, t, d) /\ up' = ForwardUp(n, t, u)
    BY <1>2 DEF server_accept
  <2>2. tuples' \in [Nodes \cup Programs -> SUBSET Tuples]
    BY <2>1 DEF TypeOK, Stored
  <2>3. client' \in [AllLinks -> States]
    BY <2>1 DEF TypeOK, ForwardClients, States
  <2>4. \A l \in AllLinks : /\ d[l] \in Seq(Messages) /\ u[l] \in Seq(Messages)
                            /\ Append(d[l], Publish(t)) \in Seq(Messages)
                            /\ Append(d[l], Invalid) \in Seq(Messages)
                            /\ Append(u[l], Publish(t)) \in Seq(Messages)
    BY InAppend, MessageFacts DEF Channels
  <2>5. down' \in Channels /\ up' \in Channels
    BY <2>1, <2>4 DEF Channels, ForwardDown, ForwardUp
  <2> QED
    BY <2>2, <2>3, <2>5
<1> QED
  BY <1>1, <1>2

\* The HELLO and the tuples server_connect sends keep the type of the channels.
LEMMA GreetOK ==
    ASSUME TypeOK, NEW l \in Links, Greet(l)
    PROVE  up' \in Channels
<1>1. PICK w \in Walks(tuples[l[1]]) : up' = [up EXCEPT ![l] = Append(up[l], Hello) \o PublishAll(w)]
  BY DEF Greet
<1>2. tuples[l[1]] \in SUBSET Tuples /\ up \in Channels /\ up[l] \in Seq(Messages)
  BY LinkFacts DEF TypeOK, Channels
<1>3. Append(up[l], Hello) \o PublishAll(w) \in Seq(Messages)
  BY <1>1, <1>2, WalkFacts, InAppend, InConcat, MessageFacts
<1> QED
  BY <1>1, <1>2, <1>3 DEF Channels

\* Posting and taking monitor events keeps the type of their queues.
LEMMA EventsOK ==
    ASSUME NEW ev \in [AllLinks -> Seq(Events)], NEW l \in AllLinks
    PROVE  /\ \A e \in Events : Send(ev, l, e) \in [AllLinks -> Seq(Events)]
           /\ ev[l] # <<>> => Popped(ev, l) \in [AllLinks -> Seq(Events)]
<1>1. ev[l] \in Seq(Events) /\ \A e \in Events : Append(ev[l], e) \in Seq(Events)
  BY AppendProperties
<1>2. ev[l] # <<>> => Tail(ev[l]) \in Seq(Events)
  BY <1>1, HeadTailProperties
<1> QED
  BY <1>1, <1>2 DEF Send, Popped

\* The variables the handlers of messages change, and the ones they leave alone.
LEMMA TypeOfHandled ==
    ASSUME TypeOK, UNCHANGED <<Others, environment>>,
           tuples' \in [Nodes \cup Programs -> SUBSET Tuples],
           client' \in [AllLinks -> States], up' \in Channels, down' \in Channels
    PROVE  TypeOK'
  BY DEF TypeOK, Others, environment, Channels

\* The INVALID answer of s_client_execute keeps the type of what it changes.
LEMMA RejectOK ==
    ASSUME TypeOK, NEW l \in AllLinks, up[l] # <<>>, Reject(l)
    PROVE  /\ tuples' \in [Nodes \cup Programs -> SUBSET Tuples]
           /\ client' \in [AllLinks -> States]
           /\ up' \in Channels /\ down' \in Channels
<1>1. up \in Channels /\ down \in Channels
  BY DEF TypeOK, Channels
<1>2. Popped(up, l) \in Channels /\ Send(down, l, Invalid) \in Channels
  BY <1>1, PoppedOK, SendOK, MessageFacts
<1>3. client' \in [AllLinks -> States]
  BY DEF Reject, TypeOK, States
<1> QED
  BY <1>2, <1>3 DEF Reject, TypeOK

\* A network that has just been started is well typed.
LEMMA TypeInit == Init => TypeOK
<1>1. <<>> \in Seq(Messages) /\ <<>> \in Seq(Events)
  OBVIOUS
<1> QED
  BY <1>1, GossipBoundAssumption DEF Init, TypeOK, States

\* Every handler, command and transport step preserves the types.
LEMMA TypeStep == TypeOK /\ [Next]_vars => TypeOK'
<1> SUFFICES ASSUME TypeOK, [Next]_vars PROVE TypeOK'
  OBVIOUS
<1>a. up \in Channels /\ down \in Channels /\ client \in [AllLinks -> States]
      /\ tuples \in [Nodes \cup Programs -> SUBSET Tuples]
  BY DEF TypeOK, Channels
<1>1. ASSUME NEW p \in Publications, publish(p) PROVE TypeOK'
  <2>1. /\ tuples' \in [Nodes \cup Programs -> SUBSET Tuples] /\ client' \in [AllLinks -> States]
        /\ up' \in Channels /\ down' \in Channels
    BY <1>1, <1>a, LinkFacts, AcceptOK DEF publish
  <2> QED
    BY <1>1, <2>1 DEF publish, TypeOK, Channels
<1>2. ASSUME NEW l \in Links, server_connect(l) PROVE TypeOK'
  <2>1. up' \in Channels
    BY <1>2, GreetOK DEF server_connect
  <2>2. l \in AllLinks /\ "HANDSHAKE_SUCCEEDED" \in Events
    BY LinkFacts DEF Events
  <2>3. Send(events, l, "HANDSHAKE_SUCCEEDED") \in [AllLinks -> Seq(Events)]
    BY <2>2, EventsOK DEF TypeOK
  <2>4. connects' \in [AllLinks -> 0..MaxConnects]
    <3>1. connects[l] + 1 \in 0..MaxConnects
      BY <1>2, <2>2, GossipBoundAssumption DEF TypeOK, server_connect
    <3> QED
      BY <1>2, <3>1 DEF TypeOK, server_connect
  <2>5. active' \in SUBSET Links /\ wire' \in [AllLinks -> BOOLEAN]
        /\ events' \in [AllLinks -> Seq(Events)]
    BY <1>2, <2>3 DEF server_connect, TypeOK
  <2> QED
    BY <1>2, <2>1, <2>4, <2>5 DEF server_connect, TypeOK, Channels
<1>3. ASSUME NEW l \in Links, disconnect(l) PROVE TypeOK'
  <2>1. PICK i \in 0..Len(up[l]), j \in 0..Len(down[l]) :
            /\ up' = [up EXCEPT ![l] = SubSeq(up[l], i + 1, Len(up[l]))]
            /\ down' = [down EXCEPT ![l] = SubSeq(down[l], 1, j)]
    BY <1>3 DEF disconnect
  <2>2. l \in AllLinks /\ "DISCONNECTED" \in Events
        /\ up[l] \in Seq(Messages) /\ down[l] \in Seq(Messages)
    BY <1>a, LinkFacts DEF Events, Channels
  <2>3. SubSeq(up[l], i + 1, Len(up[l])) \in Seq(Messages) /\ SubSeq(down[l], 1, j) \in Seq(Messages)
    BY <2>1, <2>2, SubSeqProperties, LenProperties
  <2>4. up' \in Channels /\ down' \in Channels
    BY <1>a, <2>1, <2>3 DEF Channels
  <2>5. events' \in [AllLinks -> Seq(Events)]
    BY <1>3, <2>2, EventsOK DEF disconnect, TypeOK
  <2>6. client' \in [AllLinks -> States] /\ wire' \in [AllLinks -> BOOLEAN]
    BY <1>3 DEF disconnect, TypeOK, States
  <2>7. drops' \in 0..MaxDrops
    <3>1. MaxDrops \in Nat /\ drops \in 0..MaxDrops /\ drops < MaxDrops /\ drops' = drops + 1
      BY <1>3, GossipBoundAssumption DEF disconnect, TypeOK
    <3> QED
      BY <3>1
  <2> QED
    BY <1>3, <2>4, <2>5, <2>6, <2>7 DEF disconnect, TypeOK, Channels
<1>4. ASSUME NEW l \in Links, reconnect(l) PROVE TypeOK'
  <2>1. l \in AllLinks /\ "HANDSHAKE_SUCCEEDED" \in Events
    BY LinkFacts DEF Events
  <2>2. events' \in [AllLinks -> Seq(Events)]
    BY <1>4, <2>1, EventsOK DEF reconnect, TypeOK
  <2> QED
    BY <1>4, <2>2 DEF reconnect, TypeOK, environment
<1>5. ASSUME NEW l \in AllLinks, recv_hello(l) PROVE TypeOK'
  <2>1. up[l] # <<>> /\ l[2] \in Nodes
    BY <1>5, LinkFacts DEF recv_hello, Receives
  <2>2. CASE client[l] = "connected"
    BY <1>5, <2>1, <2>2, RejectOK, TypeOfHandled DEF recv_hello
  <2>3. CASE client[l] # "connected"
    <3>1. PICK w \in Walks(tuples[l[2]]) : down' = [down EXCEPT ![l] = down[l] \o PublishAll(w)]
      BY <1>5, <2>3 DEF recv_hello
    <3>2. down[l] \in Seq(Messages) /\ tuples[l[2]] \in SUBSET Tuples
      BY <1>a, <2>1 DEF Channels
    <3>3. down[l] \o PublishAll(w) \in Seq(Messages)
      BY <3>1, <3>2, WalkFacts, InConcat
    <3>4. down' \in Channels
      BY <1>a, <3>1, <3>3 DEF Channels
    <3>5. up' \in Channels /\ client' \in [AllLinks -> States] /\ tuples' = tuples
      BY <1>5, <1>a, <2>1, <2>3, PoppedOK DEF recv_hello, States
    <3> QED
      BY <1>5, <1>a, <3>4, <3>5, TypeOfHandled DEF recv_hello
  <2> QED
    BY <2>2, <2>3
<1>6. ASSUME NEW l \in AllLinks, recv_publish(l) PROVE TypeOK'
  <2>1. up[l] # <<>> /\ Head(up[l]).id = "PUBLISH" /\ l[2] \in Nodes
    BY <1>6, LinkFacts DEF recv_publish, Receives
  <2>2. Head(up[l]).tuple \in Tuples /\ Popped(up, l) \in Channels
    BY <1>a, <2>1, PoppedOK, MessageFacts
  <2>3. CASE client[l] = "connected"
    BY <1>6, <1>a, <2>1, <2>2, <2>3, AcceptOK, TypeOfHandled DEF recv_publish
  <2>4. CASE client[l] # "connected"
    BY <1>6, <2>1, <2>4, RejectOK, TypeOfHandled DEF recv_publish
  <2> QED
    BY <2>3, <2>4
<1>7. ASSUME NEW l \in AllLinks, recv_ping(l) PROVE TypeOK'
  <2>1. up' \in Channels /\ down' \in Channels
    BY <1>7, <1>a, PoppedOK, SendOK, MessageFacts DEF recv_ping, Receives
  <2>2. client' \in [AllLinks -> States] /\ tuples' = tuples
    BY <1>7, <1>a DEF recv_ping, States
  <2> QED
    BY <1>7, <1>a, <2>1, <2>2, TypeOfHandled DEF recv_ping
<1>8. ASSUME NEW l \in AllLinks, recv_other(l) PROVE TypeOK'
  BY <1>8, RejectOK, TypeOfHandled DEF recv_other, Receives
<1>9. ASSUME NEW l \in AllLinks, s_client_handle_ticket(l) PROVE TypeOK'
  <2>1. client' \in [AllLinks -> States]
    BY <1>9, <1>a DEF s_client_handle_ticket, States
  <2> QED
    BY <1>9, <1>a, <2>1, TypeOfHandled DEF s_client_handle_ticket
<1>10. ASSUME NEW l \in AllLinks, remote_handler(l) PROVE TypeOK'
  <2>1. l \in Links /\ l[1] \in Nodes /\ down[l] # <<>> /\ Popped(down, l) \in Channels
    BY <1>10, <1>a, LinkFacts, PoppedOK DEF remote_handler
  <2>2. CASE Head(down[l]).id = "PUBLISH"
    <3>1. Head(down[l]).tuple \in Tuples
      BY <1>a, <2>1, <2>2, PoppedOK, MessageFacts
    <3>2. server_accept(l[1], Head(down[l]).tuple, up, Popped(down, l))
      BY <1>10, <2>2 DEF remote_handler
    <3> QED
      BY <1>10, <1>a, <2>1, <3>1, <3>2, AcceptOK, TypeOfHandled DEF remote_handler
  <2>3. CASE Head(down[l]).id = "INVALID"
    <3>1. down' = Popped(down, l) /\ up' = Send(up, l, Hello) /\ UNCHANGED <<tuples, client>>
      BY <1>10, <2>3 DEF remote_handler
    <3> QED
      BY <1>10, <1>a, <2>1, <3>1, SendOK, MessageFacts, TypeOfHandled DEF remote_handler
  <2>4. CASE Head(down[l]).id \notin {"PUBLISH", "INVALID"}
    <3>1. down' = Popped(down, l) /\ UNCHANGED <<tuples, client, up>>
      BY <1>10, <2>4 DEF remote_handler
    <3> QED
      BY <1>10, <1>a, <2>1, <3>1, TypeOfHandled DEF remote_handler
  <2> QED
    BY <2>2, <2>3, <2>4
<1>11. ASSUME NEW l \in AllLinks, monitor_handler(l) PROVE TypeOK'
  <2>1. l \in Links /\ l \in AllLinks /\ events' \in [AllLinks -> Seq(Events)]
    BY <1>11, EventsOK DEF monitor_handler, TypeOK
  <2>2. active' \in SUBSET Links
    BY <1>11, <2>1 DEF monitor_handler, TypeOK
  <2>3. up' \in Channels
    BY <1>11, <1>a, <2>1, GreetOK DEF monitor_handler
  <2> QED
    BY <1>11, <2>1, <2>2, <2>3 DEF monitor_handler, TypeOK, environment, Channels
<1>12. ASSUME NEW l \in RawLinks, raw_recv(l) PROVE TypeOK'
  <2>1. l \in AllLinks /\ l[1] \in Nodes \cup Programs /\ down[l] # <<>> /\ down' = Popped(down, l)
    BY <1>12, LinkFacts DEF raw_recv
  <2>2. down' \in Channels /\ Head(down[l]) \in Messages
    BY <1>a, <2>1, PoppedOK
  <2>3. tuples' \in [Nodes \cup Programs -> SUBSET Tuples]
    BY <1>12, <1>a, <2>1, <2>2, MessageFacts DEF raw_recv
  <2> QED
    BY <1>12, <1>a, <2>2, <2>3 DEF raw_recv, TypeOK, environment, Channels
<1>13. ASSUME NEW l \in RawLinks, NEW m \in RawMessages, raw_send(l, m) PROVE TypeOK'
  <2>1. l \in AllLinks /\ m \in Messages
    BY LinkFacts DEF RawMessages, Messages
  <2>2. up' \in Channels
    BY <1>13, <1>a, <2>1, SendOK DEF raw_send
  <2>3. raw' \in 0..MaxRaw
    <3>1. MaxRaw \in Nat /\ raw \in 0..MaxRaw /\ raw < MaxRaw /\ raw' = raw + 1
      BY <1>13, GossipBoundAssumption DEF raw_send, TypeOK
    <3> QED
      BY <3>1
  <2> QED
    BY <1>13, <2>1, <2>2, <2>3 DEF raw_send, TypeOK, Channels
<1>14. ASSUME NEW n \in Nodes, restart(n) PROVE TypeOK'
  <2>1. up' \in Channels
    <3>1. \A l \in AllLinks : Suffixes(up[l]) \subseteq Seq(Messages)
      <4> SUFFICES ASSUME NEW l \in AllLinks, NEW i \in 0..Len(up[l])
                   PROVE  SubSeq(up[l], i + 1, Len(up[l])) \in Seq(Messages)
        BY DEF Suffixes
      <4>1. up[l] \in Seq(Messages)
        BY <1>a DEF Channels
      <4> QED
        BY <4>1, SubSeqProperties, LenProperties
    <3>2. up' \in [AllLinks -> UNION {Suffixes(up[l]) : l \in AllLinks}]
      BY <1>14 DEF restart
    <3> QED
      BY <3>1, <3>2 DEF Channels
  <2>2. down' \in Channels
    <3>1. \A l \in AllLinks : Prefixes(down[l]) \subseteq Seq(Messages)
      BY <1>a, SubSeqProperties, LenProperties DEF Prefixes, Channels
    <3>2. down' \in [AllLinks -> UNION {Prefixes(down[l]) : l \in AllLinks}]
      BY <1>14 DEF restart
    <3> QED
      BY <3>1, <3>2 DEF Channels
  <2>3. events' \in [AllLinks -> Seq(Events)]
    <3>1. <<>> \in Seq(Events) /\ \A l \in AllLinks : Append(events[l], "DISCONNECTED") \in Seq(Events)
      BY AppendProperties DEF TypeOK, Events
    <3> QED
      BY <1>14, <3>1 DEF restart, TypeOK
  <2>4. client' \in [AllLinks -> States] /\ wire' \in [AllLinks -> BOOLEAN]
        /\ connects' \in [AllLinks -> 0..MaxConnects]
    BY <1>14, GossipBoundAssumption DEF restart, TypeOK, States
  <2>5. tuples' \in [Nodes \cup Programs -> SUBSET Tuples]
    BY <1>14 DEF restart, TypeOK
  <2>6. drops' \in 0..MaxDrops
    <3>1. MaxDrops \in Nat /\ drops \in 0..MaxDrops /\ drops < MaxDrops /\ drops' = drops + 1
      BY <1>14, GossipBoundAssumption DEF restart, TypeOK
    <3> QED
      BY <3>1
  <2>7. active' \in SUBSET Links /\ published' \in SUBSET Publications /\ raw' = raw
    BY <1>14 DEF restart, TypeOK
  <2> QED
    BY <2>1, <2>2, <2>3, <2>4, <2>5, <2>6, <2>7 DEF TypeOK, Channels
<1>15. CASE UNCHANGED vars
  BY <1>15 DEF vars, TypeOK
<1> QED
  BY <1>1, <1>2, <1>3, <1>4, <1>5, <1>6, <1>7, <1>8, <1>9, <1>10, <1>11, <1>12, <1>13, <1>14, <1>15
     DEF Next, s_server_handle_protocol

\* Every reachable state of any network has the types the model gives it.
THEOREM TypeCorrect == Spec => []TypeOK
  BY TypeInit, TypeStep, PTL DEF Spec
-----------------------------------------------------------------------------
\* The tuple is stored and nothing is lost, for a key has only one value.
LEMMA StoredAdds ==
    ASSUME TypeOK, OneValue, NEW n \in Nodes, NEW t \in Tuples, IsNew(n, t)
    PROVE  \A k \in Nodes \cup Programs :
               Stored(n, t)[k] = IF k = n THEN tuples[n] \cup {t} ELSE tuples[k]
<1>1. tuples[n] \subseteq Tuples
  BY DEF TypeOK
<1>2. {s \in tuples[n] : s.key # t.key} = tuples[n]
  BY <1>1 DEF OneValue, IsNew
<1> QED
  BY <1>2 DEF Stored, TypeOK

\* The tuple being accepted may just have been taken off the link to its sender.
LEMMA AcceptTold ==
    ASSUME TypeOK, OneValue, NEW n \in Nodes, NEW t \in Tuples, NEW u \in Channels, NEW d \in Channels,
           server_accept(n, t, u, d),
           \A l \in AllLinks : client[l] = "connected" =>
               \A x \in tuples[l[2]] :
                   x \in tuples[l[1]] \/ In(d[l], Publish(x)) \/ (l[1] = n /\ x = t)
    PROVE  ClientsTold'
<1>1. CASE ~IsNew(n, t)
  BY <1>1 DEF server_accept, ClientsTold, IsNew
<1>2. CASE IsNew(n, t)
  <2>1. tuples' = Stored(n, t) /\ client' = ForwardClients(n) /\ down' = ForwardDown(n, t, d)
    BY <1>2 DEF server_accept
  <2>2. \A k \in Nodes \cup Programs : tuples'[k] = IF k = n THEN tuples[n] \cup {t} ELSE tuples[k]
    <3>1. \A k \in Nodes \cup Programs :
              Stored(n, t)[k] = IF k = n THEN tuples[n] \cup {t} ELSE tuples[k]
      BY <1>2, StoredAdds
    <3> QED
      BY <2>1, <3>1, Zenon
  <2> SUFFICES ASSUME NEW l \in AllLinks, client'[l] = "connected", NEW x \in tuples'[l[2]]
               PROVE  x \in tuples'[l[1]] \/ In(down'[l], Publish(x))
    BY DEF ClientsTold
  <2>3. client[l] = "connected"
    BY <2>1 DEF ForwardClients
  <2>4. l[2] \in Nodes /\ l[1] \in Nodes \cup Programs /\ d[l] \in Seq(Messages)
    BY LinkFacts DEF Channels
  <2>5. \A y : In(d[l], y) => In(Append(d[l], Publish(t)), y)
    BY <2>4, InAppend, MessageFacts
  <2>6. In(Append(d[l], Publish(t)), Publish(t))
    BY <2>4, InAppend, MessageFacts
  <2>7. down'[l] = IF l[2] = n THEN Append(d[l], Publish(t)) ELSE d[l]
    BY <2>1, <2>3 DEF ForwardDown
  <2>8. CASE x \in tuples[l[2]]
    BY <2>2, <2>3, <2>4, <2>5, <2>7, <2>8
  <2>9. CASE x \notin tuples[l[2]]
    BY <2>2, <2>4, <2>6, <2>7, <2>9
  <2> QED
    BY <2>8, <2>9
<1> QED
  BY <1>1, <1>2

\* Steps that store no tuple, connect no client and take no PUBLISH off a link.
LEMMA FrameTold ==
    ASSUME ClientsTold, UNCHANGED tuples,
           \A l \in AllLinks : client'[l] = "connected" =>
               /\ client[l] = "connected"
               /\ \A t : In(down[l], Publish(t)) => In(down'[l], Publish(t))
    PROVE  ClientsTold'
  BY DEF ClientsTold

\* No step leaves a connected client without a tuple its node holds.
LEMMA ToldStep == TypeOK /\ OneValue /\ ClientsTold /\ [Next]_vars => ClientsTold'
<1> SUFFICES ASSUME TypeOK, OneValue, ClientsTold, [Next]_vars PROVE ClientsTold'
  OBVIOUS
<1>a. up \in Channels /\ down \in Channels /\ client \in [AllLinks -> States]
      /\ tuples \in [Nodes \cup Programs -> SUBSET Tuples]
  BY DEF TypeOK, Channels
<1>b. ASSUME NEW l \in AllLinks, Reject(l) PROVE ClientsTold'
  <2>1. \A k \in AllLinks : \A x : In(down[k], x) => In(down'[k], x)
    BY <1>a, <1>b, SendOK, MessageFacts DEF Reject
  <2>2. \A k \in AllLinks : client'[k] = "connected" => client[k] = "connected"
    BY <1>a, <1>b DEF Reject
  <2> QED
    BY <1>b, <2>1, <2>2, FrameTold DEF Reject
<1>1. ASSUME NEW p \in Publications, publish(p) PROVE ClientsTold'
  BY <1>1, <1>a, LinkFacts, AcceptTold DEF publish, ClientsTold
<1>2. ASSUME NEW l \in Links, server_connect(l) \/ reconnect(l) PROVE ClientsTold'
  BY <1>2, FrameTold DEF server_connect, reconnect
<1>3. ASSUME NEW l \in Links, disconnect(l) PROVE ClientsTold'
  <2>1. client' = [client EXCEPT ![l] = "none"] /\ \E s : down' = [down EXCEPT ![l] = s]
        /\ UNCHANGED tuples
    BY <1>3 DEF disconnect
  <2>2. \A k \in AllLinks : client'[k] = "connected" => k # l /\ client[k] = "connected"
    BY <1>a, <2>1
  <2>3. \A k \in AllLinks : k # l => down'[k] = down[k]
    BY <1>a, <2>1 DEF Channels
  <2> QED
    BY <2>1, <2>2, <2>3, FrameTold
<1>4. ASSUME NEW l \in AllLinks, recv_hello(l) PROVE ClientsTold'
  <2>1. CASE client[l] = "connected"
    BY <1>4, <1>b, <2>1 DEF recv_hello
  <2>2. CASE client[l] # "connected"
    <3>1. PICK w \in Walks(tuples[l[2]]) : down' = [down EXCEPT ![l] = down[l] \o PublishAll(w)]
      BY <1>4, <2>2 DEF recv_hello
    <3>2. down[l] \in Seq(Messages) /\ tuples[l[2]] \in SUBSET Tuples
      BY <1>a, LinkFacts DEF Channels
    <3>3. \A t \in tuples[l[2]] : In(down[l] \o PublishAll(w), Publish(t))
      BY <3>1, <3>2, WalkFacts, InConcat
    <3>4. client' = [client EXCEPT ![l] = "connected"] /\ UNCHANGED tuples
      BY <1>4, <2>2 DEF recv_hello
    <3> QED
      BY <1>a, <3>1, <3>3, <3>4 DEF ClientsTold, Channels
  <2> QED
    BY <2>1, <2>2
<1>5. ASSUME NEW l \in AllLinks, recv_publish(l) PROVE ClientsTold'
  <2>1. up[l] # <<>> /\ Head(up[l]).id = "PUBLISH" /\ l[2] \in Nodes
    BY <1>5, LinkFacts DEF recv_publish, Receives
  <2>2. Head(up[l]).tuple \in Tuples /\ Popped(up, l) \in Channels
    BY <1>a, <2>1, PoppedOK, MessageFacts
  <2>3. CASE client[l] = "connected"
    <3>1. server_accept(l[2], Head(up[l]).tuple, Popped(up, l), down)
      BY <1>5, <2>3 DEF recv_publish
    <3> QED
      BY <1>a, <2>1, <2>2, <3>1, AcceptTold DEF ClientsTold
  <2>4. CASE client[l] # "connected"
    BY <1>5, <1>b, <2>4 DEF recv_publish
  <2> QED
    BY <2>3, <2>4
<1>6. ASSUME NEW l \in AllLinks, recv_ping(l) PROVE ClientsTold'
  <2>1. \A k \in AllLinks : \A x : In(down[k], x) => In(down'[k], x)
    BY <1>6, <1>a, SendOK, MessageFacts DEF recv_ping
  <2>2. \A k \in AllLinks : client'[k] = "connected" => client[k] = "connected"
    BY <1>6, <1>a DEF recv_ping
  <2> QED
    BY <1>6, <2>1, <2>2, FrameTold DEF recv_ping
<1>7. ASSUME NEW l \in AllLinks, recv_other(l) PROVE ClientsTold'
  BY <1>7, <1>b DEF recv_other
<1>8. ASSUME NEW l \in AllLinks, s_client_handle_ticket(l) PROVE ClientsTold'
  BY <1>8, <1>a, FrameTold DEF s_client_handle_ticket
<1>9. ASSUME NEW l \in AllLinks, remote_handler(l) PROVE ClientsTold'
  <2>1. l \in Links /\ l[1] \in Nodes /\ down[l] # <<>> /\ Popped(down, l) \in Channels
        /\ Head(down[l]) \in Messages
    BY <1>9, <1>a, LinkFacts, PoppedOK DEF remote_handler
  <2>2. \A k \in AllLinks : \A x : In(down[k], x) /\ (k # l \/ x # Head(down[l]))
                                  => In(Popped(down, l)[k], x)
    BY <1>a, <2>1, PoppedOK
  <2>3. CASE Head(down[l]).id = "PUBLISH"
    <3> DEFINE t == Head(down[l]).tuple
    <3>1. t \in Tuples /\ Head(down[l]) = Publish(t)
      BY <2>1, <2>3, MessageFacts
    <3>2. server_accept(l[1], t, up, Popped(down, l))
      BY <1>9, <2>3 DEF remote_handler
    <3>3. \A x : x # t => Publish(x) # Head(down[l])
      BY <3>1, MessageFacts
    <3>4. \A k \in AllLinks : client[k] = "connected" =>
              \A x \in tuples[k[2]] : \/ x \in tuples[k[1]] \/ In(Popped(down, l)[k], Publish(x))
                                      \/ k[1] = l[1] /\ x = t
      <4> HIDE DEF t
      <4> QED
        BY <2>2, <3>3 DEF ClientsTold
    <3> HIDE DEF t
    <3> QED
      BY <1>a, <2>1, <3>1, <3>2, <3>4, AcceptTold
  <2>4. CASE Head(down[l]).id # "PUBLISH"
    <3>1. down' = Popped(down, l) /\ UNCHANGED <<tuples, client>>
      BY <1>9, <2>4 DEF remote_handler
    <3>2. \A x : Publish(x) # Head(down[l])
      BY <2>4, MessageFacts
    <3> QED
      BY <2>2, <3>1, <3>2, FrameTold
  <2> QED
    BY <2>3, <2>4
<1>10. ASSUME NEW l \in AllLinks, monitor_handler(l) PROVE ClientsTold'
  BY <1>10, FrameTold DEF monitor_handler
<1>11. ASSUME NEW l \in RawLinks, raw_recv(l) PROVE ClientsTold'
  <2>1. l \in AllLinks /\ l[1] \notin Nodes /\ l[1] \in Nodes \cup Programs
        /\ down[l] # <<>> /\ down' = Popped(down, l) /\ client' = client
    BY <1>11, LinkFacts, LinkAssumption DEF raw_recv
  <2>2. Head(down[l]) \in Messages
        /\ \A k \in AllLinks : \A x : In(down[k], x) /\ (k # l \/ x # Head(down[l])) => In(down'[k], x)
    BY <1>a, <2>1, PoppedOK
  <2>3. CASE Head(down[l]).id = "PUBLISH"
    <3>1. PICK t \in Tuples : Head(down[l]) = Publish(t) /\ Head(down[l]).tuple = t
      BY <2>2, <2>3, MessageFacts
    <3>2. tuples' = [tuples EXCEPT ![l[1]] = tuples[l[1]] \cup {t}]
      BY <1>11, <2>3, <3>1 DEF raw_recv
    <3>3. \A x : x # t => Publish(x) # Head(down[l])
      BY <3>1, MessageFacts
    <3>4. \A k \in AllLinks : tuples'[k[2]] = tuples[k[2]] /\ tuples[k[1]] \subseteq tuples'[k[1]]
      BY <1>a, <2>1, <3>2, LinkFacts
    <3>5. t \in tuples'[l[1]]
      BY <1>a, <2>1, <3>2
    <3> QED
      BY <2>1, <2>2, <3>3, <3>4, <3>5 DEF ClientsTold
  <2>4. CASE Head(down[l]).id # "PUBLISH"
    <3>1. tuples' = tuples
      BY <1>11, <2>4 DEF raw_recv
    <3>2. \A x : Publish(x) # Head(down[l])
      BY <2>4, MessageFacts
    <3> QED
      BY <2>1, <2>2, <3>1, <3>2, FrameTold
  <2> QED
    BY <2>3, <2>4
<1>12. ASSUME NEW l \in RawLinks, NEW m \in RawMessages, raw_send(l, m) PROVE ClientsTold'
  BY <1>12, FrameTold DEF raw_send
<1>13. ASSUME NEW n \in Nodes, restart(n) PROVE ClientsTold'
  <2> SUFFICES ASSUME NEW k \in AllLinks, client'[k] = "connected", NEW t \in tuples'[k[2]]
               PROVE  t \in tuples'[k[1]] \/ In(down'[k], Publish(t))
    BY DEF ClientsTold
  <2>1. client[k] = "connected" /\ k \notin Incoming(n) /\ k \notin Outgoing(n)
    BY <1>13 DEF restart
  <2>2. k[1] # n /\ k[2] # n
    BY <2>1, LinkAssumption DEF Incoming, Outgoing, AllLinks
  <2>3. tuples'[k[1]] = tuples[k[1]] /\ tuples'[k[2]] = tuples[k[2]]
    BY <1>13, <1>a, <2>2, LinkFacts DEF restart
  <2>4. down'[k] = down[k]
    BY <1>13, <2>1 DEF restart
  <2> QED
    BY <2>1, <2>3, <2>4 DEF ClientsTold
<1>14. CASE UNCHANGED vars
  BY <1>14, FrameTold DEF vars
<1> QED
  BY <1>1, <1>2, <1>3, <1>4, <1>5, <1>6, <1>7, <1>8, <1>9, <1>10, <1>11, <1>12, <1>13, <1>14
     DEF Next, s_server_handle_protocol

\* In any network whose keys each have one value, whatever connects, expires, is lost,
\* restarted or rejected: each tuple of a node has reached, or is on its way to, every client
\* that its engine has as connected.
THEOREM ClientsAreTold == ASSUME OneValue PROVE Spec => []ClientsTold
<1>1. Init => ClientsTold
  BY DEF Init, ClientsTold
<1>2. TypeOK /\ ClientsTold /\ [Next]_vars => ClientsTold'
  BY ToldStep
<1> QED
  BY <1>1, <1>2, TypeInit, TypeStep, PTL DEF Spec
-----------------------------------------------------------------------------
(* A network in which every link is connected once and for all.             *)

Undisturbed == MaxConnects = 1 /\ MaxDrops = 0 /\ Expiring \cap Links = {}

\* HELLO is the first thing on a link's way up, until the engine has handled it.
UpOK(s, st) ==
    \A i \in 1..Len(s) : /\ s[i].id \in {"HELLO", "PUBLISH"}
                         /\ s[i].id = "HELLO" => i = 1 /\ st = "none"

DownOK(s) == \A i \in 1..Len(s) : s[i].id = "PUBLISH"

Greeted(s, st) == st = "none" => s # <<>> /\ Head(s).id = "HELLO"

\* Nothing a node has stored is neither at nor on its way to its remote.
RemoteTold(l, T2, u) == \A t \in tuples[l[1]] : t \in T2 \/ In(u, Publish(t))

Session(l) ==
    /\ client[l] # "start" /\ UpOK(up[l], client[l]) /\ DownOK(down[l])
    /\ l \in active => /\ connects[l] = 1 /\ Greeted(up[l], client[l])
                       /\ RemoteTold(l, tuples[l[2]], up[l])
    /\ l \notin active => /\ connects[l] = 0 /\ client[l] = "none"
                          /\ up[l] = <<>> /\ events[l] = <<>>
    /\ \A i \in 1..Len(events[l]) : events[l][i] = "HANDSHAKE_SUCCEEDED"

Sessions == \A l \in Links : Session(l)

\* A PUBLISH queued behind a HELLO, or for a connected client, keeps a session in order.
LEMMA UpAppend ==
    ASSUME NEW s \in Seq(Messages), NEW st, UpOK(s, st), NEW t \in Tuples
    PROVE  /\ UpOK(Append(s, Publish(t)), st)
           /\ Greeted(s, st) => Greeted(Append(s, Publish(t)), st)
<1> DEFINE m == Publish(t)
           a == Append(s, m)
<1>1. m \in Messages /\ m.id = "PUBLISH"
  BY MessageFacts
<1>2. a \in Seq(Messages) /\ Len(a) = Len(s) + 1 /\ a[Len(s) + 1] = m /\ a # <<>>
      /\ \A i \in 1..Len(s) : a[i] = s[i]
  BY <1>1, AppendProperties
<1>3. Len(s) \in Nat /\ (s # <<>> => Len(s) # 0)
  BY LenProperties, EmptySeq
<1>4. s # <<>> => Head(a) = Head(s)
  BY <1>2, <1>3
<1> HIDE DEF a, m
<1>5. UpOK(a, st)
  BY <1>1, <1>2, <1>3 DEF UpOK
<1>6. Greeted(s, st) => Greeted(a, st)
  BY <1>2, <1>4 DEF Greeted
<1> QED
  BY <1>5, <1>6 DEF a, m

\* In a session, what follows the first message is all PUBLISH.
LEMMA UpTail ==
    ASSUME NEW s \in Seq(Messages), s # <<>>, NEW st, UpOK(s, st)
    PROVE  /\ UpOK(Tail(s), "connected")
           /\ Head(s).id = "HELLO" => st = "none"
           /\ Head(s).id \in {"HELLO", "PUBLISH"}
<1>1. Len(s) \in Nat \ {0} /\ Head(s) = s[1] /\ Len(Tail(s)) = Len(s) - 1
      /\ \A i \in 1..Len(Tail(s)) : Tail(s)[i] = s[i + 1]
  BY HeadTailProperties, EmptySeq, LenProperties
<1>2. ASSUME NEW i \in 1..Len(Tail(s)) PROVE Tail(s)[i].id = "PUBLISH"
  <2>1. i + 1 \in 1..Len(s) /\ i + 1 # 1 /\ Tail(s)[i] = s[i + 1]
    BY <1>1
  <2> QED
    BY <2>1 DEF UpOK
<1>3. UpOK(Tail(s), "connected")
  BY <1>2 DEF UpOK
<1> QED
  BY <1>1, <1>3 DEF UpOK

\* What the engine sends to the clients of a session is PUBLISH only.
LEMMA DownSteps ==
    ASSUME NEW s \in Seq(Messages), DownOK(s)
    PROVE  /\ \A t \in Tuples : DownOK(Append(s, Publish(t)))
           /\ s # <<>> => DownOK(Tail(s)) /\ Head(s).id = "PUBLISH"
           /\ \A S \in SUBSET Tuples : \A w \in Walks(S) : DownOK(s \o PublishAll(w))
<1>1. ASSUME NEW t \in Tuples PROVE DownOK(Append(s, Publish(t)))
  <2>1. Publish(t) \in Messages /\ Publish(t).id = "PUBLISH"
    BY MessageFacts
  <2>2. Len(Append(s, Publish(t))) = Len(s) + 1 /\ Append(s, Publish(t))[Len(s) + 1] = Publish(t)
        /\ \A i \in 1..Len(s) : Append(s, Publish(t))[i] = s[i]
    BY <2>1, AppendProperties
  <2>3. Len(s) \in Nat
    BY LenProperties
  <2> QED
    BY <2>1, <2>2, <2>3 DEF DownOK
<1>2. ASSUME s # <<>> PROVE DownOK(Tail(s)) /\ Head(s).id = "PUBLISH"
  <2>1. Len(s) \in Nat \ {0} /\ Head(s) = s[1] /\ Len(Tail(s)) = Len(s) - 1
        /\ \A i \in 1..Len(Tail(s)) : Tail(s)[i] = s[i + 1]
    BY <1>2, HeadTailProperties, EmptySeq, LenProperties
  <2> QED
    BY <2>1 DEF DownOK
<1>3. ASSUME NEW S \in SUBSET Tuples, NEW w \in Walks(S) PROVE DownOK(s \o PublishAll(w))
  <2> DEFINE p == PublishAll(w)
  <2>1. p \in Seq(Messages)
    BY WalkFacts
  <2>2. DownOK(p)
    <3>1. \A i \in DOMAIN w : p[i].id = "PUBLISH"
      BY MessageFacts DEF PublishAll
    <3>2. DOMAIN p = DOMAIN w /\ DOMAIN p = 1..Len(p)
      BY <2>1, LenProperties DEF PublishAll
    <3> QED
      BY <3>1, <3>2 DEF DownOK
  <2> HIDE DEF p
  <2>3. Len(s \o p) = Len(s) + Len(p) /\ Len(s) \in Nat /\ Len(p) \in Nat
        /\ \A i \in 1..Len(s) + Len(p) : (s \o p)[i] = IF i <= Len(s) THEN s[i] ELSE p[i - Len(s)]
    BY <2>1, ConcatProperties, LenProperties
  <2>4. DownOK(s \o p)
    BY <2>2, <2>3 DEF DownOK
  <2> QED
    BY <2>4 DEF p
<1> QED
  BY <1>1, <1>2, <1>3

\* A link on which nothing happens; its two nodes may have learnt more together.
LEMMA FrameSession ==
    ASSUME NEW l \in Links, Session(l), up'[l] = up[l], down'[l] = down[l], client'[l] = client[l],
           events'[l] = events[l], connects'[l] = connects[l], l \in active' <=> l \in active,
           tuples'[l[1]] = tuples[l[1]], tuples'[l[2]] = tuples[l[2]]
    PROVE  Session(l)'
  BY DEF Session, RemoteTold

\* server_accept keeps a session in order: what it stores it also forwards.
LEMMA AcceptSessions ==
    ASSUME TypeOK, OneValue, NEW n \in Nodes, NEW t \in Tuples, NEW u \in Channels, NEW d \in Channels,
           server_accept(n, t, u, d), UNCHANGED <<active, events, connects>>,
           NEW l \in Links, Session(l), UpOK(u[l], client[l]), DownOK(d[l]),
           l \in active => Greeted(u[l], client[l]), l \notin active => u[l] = <<>>,
           l \in active => \A x \in tuples[l[1]] :
               x \in tuples[l[2]] \/ In(u[l], Publish(x)) \/ (l[2] = n /\ x = t)
    PROVE  Session(l)'
<1>a. l \in AllLinks /\ l[1] \in Nodes /\ l[2] \in Nodes /\ client[l] # "start"
      /\ u[l] \in Seq(Messages) /\ d[l] \in Seq(Messages)
  BY LinkFacts DEF Session, Channels
<1>1. CASE ~IsNew(n, t)
  <2>1. tuples' = tuples /\ client' = client /\ up' = u /\ down' = d /\ t \in tuples[n]
    BY <1>1 DEF server_accept, IsNew
  <2>2. l \in active => RemoteTold(l, tuples[l[2]], u[l])
    BY <2>1 DEF RemoteTold
  <2> QED
    BY <2>1, <2>2 DEF Session, RemoteTold
<1>2. CASE IsNew(n, t)
  <2>1. tuples' = Stored(n, t) /\ client' = ForwardClients(n)
        /\ down' = ForwardDown(n, t, d) /\ up' = ForwardUp(n, t, u)
    BY <1>2 DEF server_accept
  <2>2. \A k \in Nodes \cup Programs :
            Stored(n, t)[k] = IF k = n THEN tuples[n] \cup {t} ELSE tuples[k]
    BY <1>2, StoredAdds
  <2>3. /\ tuples'[l[1]] = IF l[1] = n THEN tuples[n] \cup {t} ELSE tuples[l[1]]
        /\ tuples'[l[2]] = IF l[2] = n THEN tuples[n] \cup {t} ELSE tuples[l[2]]
    BY <1>a, <2>1, <2>2
  <2>4. client'[l] = client[l]
    BY <1>a, <2>1 DEF ForwardClients
  <2>5. down'[l] = d[l] \/ down'[l] = Append(d[l], Publish(t))
    BY <1>a, <2>1 DEF ForwardDown
  <2>6. up'[l] = IF l[1] = n /\ l \in active THEN Append(u[l], Publish(t)) ELSE u[l]
    BY <1>a, <2>1 DEF ForwardUp
  <2>7. DownOK(down'[l])
    BY <1>a, <2>5, DownSteps
  <2>8. UpOK(up'[l], client[l]) /\ (l \in active => Greeted(up'[l], client[l]))
    BY <1>a, <2>6, UpAppend
  <2>9. /\ In(Append(u[l], Publish(t)), Publish(t))
        /\ \A y : In(u[l], y) => In(Append(u[l], Publish(t)), y)
    BY <1>a, InAppend, MessageFacts
  <2>10. ASSUME l \in active, NEW x \in tuples'[l[1]]
         PROVE  x \in tuples'[l[2]] \/ In(up'[l], Publish(x))
    <3>1. CASE x \in tuples[l[1]]
      BY <2>3, <2>6, <2>9, <2>10, <3>1
    <3>2. CASE x \notin tuples[l[1]]
      BY <2>3, <2>6, <2>9, <2>10, <3>2
    <3> QED
      BY <3>1, <3>2
  <2>11. l \notin active => up'[l] = <<>>
    BY <2>6
  <2> QED
    BY <2>4, <2>7, <2>8, <2>10, <2>11 DEF Session, RemoteTold
<1> QED
  BY <1>1, <1>2

\* Every step of an undisturbed network keeps every session in order.
LEMMA SessionsStep ==
    ASSUME OneValue, Undisturbed
    PROVE  TypeOK /\ Sessions /\ [Next]_vars => Sessions'
<1> SUFFICES ASSUME TypeOK, Sessions, [Next]_vars, NEW k \in Links PROVE Session(k)'
  BY DEF Sessions
<1>a. up \in Channels /\ down \in Channels /\ client \in [AllLinks -> States]
      /\ tuples \in [Nodes \cup Programs -> SUBSET Tuples]
      /\ connects \in [AllLinks -> 0..MaxConnects] /\ events \in [AllLinks -> Seq(Events)]
  BY DEF TypeOK, Channels
<1>b. Session(k) /\ k \in AllLinks /\ k \notin RawLinks /\ k[1] \in Nodes /\ k[2] \in Nodes
      /\ up[k] \in Seq(Messages) /\ down[k] \in Seq(Messages)
  BY <1>a, LinkFacts, LinkAssumption DEF Sessions, Channels
<1>c. \A l \in RawLinks : l[1] \notin Nodes /\ l \in AllLinks
  BY LinkAssumption, LinkFacts
<1>d. ASSUME NEW n \in Nodes, NEW t \in Tuples, server_accept(n, t, up, down),
             UNCHANGED <<active, events, connects>>
      PROVE  Session(k)'
  <2>1. /\ UpOK(up[k], client[k]) /\ DownOK(down[k])
        /\ k \in active => Greeted(up[k], client[k])
        /\ k \notin active => up[k] = <<>>
        /\ k \in active => \A x \in tuples[k[1]] :
               x \in tuples[k[2]] \/ In(up[k], Publish(x)) \/ (k[2] = n /\ x = t)
    BY <1>b DEF Session, RemoteTold
  <2> QED
    BY <1>a, <1>b, <1>d, <2>1, AcceptSessions
<1>1. ASSUME NEW p \in Publications, publish(p) PROVE Session(k)'
  BY <1>1, <1>d, LinkFacts DEF publish
<1>2. ASSUME NEW l \in Links, server_connect(l) PROVE Session(k)'
  <2>1. CASE k # l
    <3>1. up'[k] = up[k] /\ events'[k] = events[k] /\ connects'[k] = connects[k]
          /\ (k \in active' <=> k \in active)
      BY <1>2, <1>a, <1>b, <2>1 DEF server_connect, Greet, Send
    <3> QED
      BY <1>2, <1>b, <3>1, FrameSession DEF server_connect
  <2>2. CASE k = l
    <3>1. connects[k] = 0 /\ connects' = [connects EXCEPT ![k] = 1]
      <4>1. connects[k] \in 0..1 /\ connects[k] < 1
            /\ connects' = [connects EXCEPT ![k] = connects[k] + 1]
        BY <1>2, <1>a, <1>b, <2>2 DEF server_connect, Undisturbed
      <4>2. connects[k] = 0
        BY <4>1
      <4> QED
        BY <4>1, <4>2
    <3>2. k \notin active /\ up[k] = <<>> /\ events[k] = <<>> /\ client[k] = "none"
      BY <1>b, <3>1 DEF Session
    <3>3. active' = active \cup {k} /\ events' = Send(events, k, "HANDSHAKE_SUCCEEDED")
          /\ UNCHANGED <<tuples, client, down>>
      BY <1>2, <2>2, <3>2 DEF server_connect
    <3>4. PICK w \in Walks(tuples[k[1]]) : up' = [up EXCEPT ![k] = Append(up[k], Hello) \o PublishAll(w)]
      BY <1>2, <2>2 DEF server_connect, Greet
    <3> DEFINE p == PublishAll(w)
    <3>5. p \in Seq(Messages) /\ (\A t \in tuples[k[1]] : In(p, Publish(t)))
      BY <1>a, <1>b, WalkFacts
    <3>6. DownOK(p)
      <4>1. <<>> \in Seq(Messages) /\ DownOK(<<>>) /\ <<>> \o p = p
        BY <3>5, ConcatEmptySeq DEF DownOK
      <4> QED
        BY <1>a, <1>b, <4>1, DownSteps
    <3> HIDE DEF p
    <3> DEFINE h == <<Hello>>
    <3>7. up'[k] = h \o p /\ h \in Seq(Messages) /\ Len(h) = 1 /\ h[1] = Hello
      BY <1>a, <1>b, <3>2, <3>4, MessageFacts DEF Channels, p
    <3>8. /\ Len(h \o p) = 1 + Len(p) /\ Len(p) \in Nat /\ h \o p \in Seq(Messages)
          /\ \A i \in 1..1 + Len(p) : (h \o p)[i] = IF i <= 1 THEN h[i] ELSE p[i - 1]
      BY <3>5, <3>7, ConcatProperties, LenProperties
    <3> HIDE DEF h
    <3>9. UpOK(h \o p, "none")
      BY <3>6, <3>7, <3>8, MessageFacts DEF UpOK, DownOK
    <3>10. Greeted(h \o p, "none")
      <4>1. h \o p # <<>> /\ Head(h \o p) = Hello
        BY <3>7, <3>8
      <4> QED
        BY <4>1, MessageFacts DEF Greeted
    <3>11. \A t \in tuples[k[1]] : In(h \o p, Publish(t))
      BY <3>5, <3>7, InConcat
    <3>12. \A i \in 1..Len(events'[k]) : events'[k][i] = "HANDSHAKE_SUCCEEDED"
      BY <1>a, <1>b, <3>2, <3>3 DEF Send
    <3>13. connects'[k] = 1 /\ k \in active'
      BY <1>a, <1>b, <3>1, <3>3
    <3> QED
      BY <1>b, <3>2, <3>3, <3>7, <3>9, <3>10, <3>11, <3>12, <3>13 DEF Session, RemoteTold
  <2> QED
    BY <2>1, <2>2
<1>3. ASSUME NEW l \in Links, disconnect(l) PROVE Session(k)'
  <2>1. drops \in 0..0 /\ drops < 0
    BY <1>3 DEF disconnect, TypeOK, Undisturbed
  <2> QED
    BY <2>1
<1>4. ASSUME NEW l \in Links, reconnect(l) PROVE Session(k)'
  <2>1. UNCHANGED <<tuples, active, client, up, down, connects>>
        /\ events' = [events EXCEPT ![l] = Append(events[l], "HANDSHAKE_SUCCEEDED")]
    BY <1>4 DEF reconnect, environment, Send
  <2>2. CASE k # l
    <3>1. events'[k] = events[k]
      BY <1>a, <1>b, <2>1, <2>2
    <3> QED
      BY <1>b, <2>1, <3>1, FrameSession
  <2>3. CASE k = l
    <3>1. k \in active
      <4>1. connects[k] > 0
        BY <1>4, <2>3 DEF reconnect
      <4>2. k \notin active => connects[k] = 0
        BY <1>b DEF Session
      <4> QED
        BY <4>1, <4>2
    <3>2. events[k] \in Seq(Events) /\ "HANDSHAKE_SUCCEEDED" \in Events
          /\ events'[k] = Append(events[k], "HANDSHAKE_SUCCEEDED")
      BY <1>a, <1>b, <2>1, <2>3 DEF Events
    <3>3. Len(events'[k]) = Len(events[k]) + 1 /\ Len(events[k]) \in Nat
          /\ events'[k][Len(events[k]) + 1] = "HANDSHAKE_SUCCEEDED"
          /\ \A i \in 1..Len(events[k]) : events'[k][i] = events[k][i]
      BY <3>2, AppendProperties, LenProperties
    <3>4. \A i \in 1..Len(events[k]) : events[k][i] = "HANDSHAKE_SUCCEEDED"
      BY <1>b DEF Session
    <3>5. \A i \in 1..Len(events'[k]) : events'[k][i] = "HANDSHAKE_SUCCEEDED"
      BY <3>3, <3>4
    <3> QED
      BY <1>b, <2>1, <3>1, <3>5 DEF Session, RemoteTold
  <2> QED
    BY <2>2, <2>3
<1>5. ASSUME NEW l \in AllLinks, l # k, UNCHANGED <<tuples, active, events, connects>>,
             \A m \in AllLinks : m # l => up'[m] = up[m] /\ down'[m] = down[m] /\ client'[m] = client[m]
      PROVE  Session(k)'
  BY <1>b, <1>5, FrameSession
<1>e. ASSUME NEW l \in AllLinks, l # k, Reject(l), UNCHANGED <<Others, environment>>
      PROVE  Session(k)'
  <2>1. \A m \in AllLinks : m # l => up'[m] = up[m] /\ down'[m] = down[m] /\ client'[m] = client[m]
    BY <1>a, <1>e DEF Reject, Popped, Send, Channels
  <2> QED
    BY <1>5, <1>e, <2>1 DEF Reject, Others, environment
<1>f. up[k] # <<>> => /\ UpOK(Tail(up[k]), "connected")
                      /\ Head(up[k]).id = "HELLO" => client[k] = "none"
                      /\ Head(up[k]).id \in {"HELLO", "PUBLISH"}
  BY <1>b, UpTail DEF Session
<1>g. up[k] # <<>> => k \in active
  BY <1>b DEF Session
<1>6. ASSUME NEW l \in AllLinks, recv_hello(l) PROVE Session(k)'
  <2>1. CASE l # k /\ client[l] = "connected"
    BY <1>6, <1>e, <2>1 DEF recv_hello
  <2>2. CASE l # k /\ client[l] # "connected"
    <3>1. \A m \in AllLinks : m # l => up'[m] = up[m] /\ down'[m] = down[m] /\ client'[m] = client[m]
      BY <1>6, <1>a, <2>2 DEF recv_hello, Popped, Channels
    <3> QED
      BY <1>5, <1>6, <2>2, <3>1 DEF recv_hello, Others, environment
  <2>3. CASE l = k
    <3>1. up[k] # <<>> /\ Head(up[k]).id = "HELLO" /\ k \in active
      BY <1>6, <1>g, <2>3 DEF recv_hello, Receives
    <3>2. client[k] = "none" /\ UpOK(Tail(up[k]), "connected")
      BY <1>f, <3>1
    <3>3. PICK w \in Walks(tuples[k[2]]) : down' = [down EXCEPT ![k] = down[k] \o PublishAll(w)]
      BY <1>6, <2>3, <3>2 DEF recv_hello
    <3>4. down'[k] = down[k] \o PublishAll(w) /\ up'[k] = Tail(up[k]) /\ client'[k] = "connected"
          /\ UNCHANGED <<tuples, active, events, connects>>
      BY <1>6, <1>a, <1>b, <2>3, <3>2, <3>3
         DEF recv_hello, Popped, Channels, Others, environment
    <3>5. DownOK(down'[k])
      BY <1>a, <1>b, <3>3, <3>4, DownSteps DEF Session
    <3>6. \A t : Publish(t) # Head(up[k])
      BY <3>1, MessageFacts
    <3>7. \A t : In(up[k], Publish(t)) => In(Tail(up[k]), Publish(t))
      BY <1>b, <3>1, <3>6, InTail
    <3> QED
      BY <1>b, <3>1, <3>2, <3>4, <3>5, <3>7 DEF Session, RemoteTold, Greeted
  <2> QED
    BY <2>1, <2>2, <2>3
<1>7. ASSUME NEW l \in AllLinks, recv_publish(l) PROVE Session(k)'
  <2>1. up[l] # <<>> /\ Head(up[l]).id = "PUBLISH" /\ l[2] \in Nodes
        /\ UNCHANGED <<active, events, connects>>
    BY <1>7, LinkFacts DEF recv_publish, Receives, Others, environment
  <2> DEFINE t == Head(up[l]).tuple
             u == Popped(up, l)
  <2>2. t \in Tuples /\ Head(up[l]) = Publish(t) /\ u \in Channels
    BY <1>a, <2>1, PoppedOK, MessageFacts
  <2>3. CASE client[l] # "connected"
    <3>1. l # k
      <4>1. ASSUME l = k PROVE FALSE
        <5>1. k \in active /\ client[k] = "none"
          BY <1>a, <1>b, <1>g, <2>1, <2>3, <4>1 DEF Session, States
        <5> QED
          BY <1>b, <2>1, <4>1, <5>1 DEF Session, Greeted
      <4> QED
        BY <4>1
    <3> QED
      BY <1>7, <1>e, <2>3, <3>1 DEF recv_publish
  <2>4. CASE client[l] = "connected"
    <3>1. server_accept(l[2], t, u, down)
      BY <1>7, <2>4 DEF recv_publish
    <3>2. u[k] = IF k = l THEN Tail(up[k]) ELSE up[k]
      BY <1>a, <1>b DEF Popped, Channels
    <3>3. UpOK(u[k], client[k]) /\ (k \in active => Greeted(u[k], client[k]))
      BY <1>b, <1>f, <2>1, <2>4, <3>2 DEF Session, Greeted
    <3>4. k \notin active => u[k] = <<>>
      BY <1>b, <1>g, <2>1, <3>2 DEF Session
    <3>5. \A m \in AllLinks : \A x : In(up[m], x) /\ (m # l \/ x # Head(up[l])) => In(u[m], x)
      BY <1>a, <2>1, PoppedOK
    <3>6. \A x : x # t => Publish(x) # Head(up[l])
      BY <2>2, MessageFacts
    <3>7. k \in active => \A x \in tuples[k[1]] :
              x \in tuples[k[2]] \/ In(u[k], Publish(x)) \/ (k[2] = l[2] /\ x = t)
      <4> HIDE DEF t, u
      <4> QED
        BY <1>b, <3>5, <3>6 DEF Session, RemoteTold
    <3>8. DownOK(down[k])
      BY <1>b DEF Session
    <3> HIDE DEF t, u
    <3> QED
      BY <1>a, <1>b, <2>1, <2>2, <3>1, <3>3, <3>4, <3>7, <3>8, AcceptSessions
  <2> QED
    BY <2>3, <2>4
<1>8. ASSUME NEW l \in AllLinks, recv_ping(l) PROVE Session(k)'
  <2>1. l # k
    BY <1>8, <1>f DEF recv_ping, Receives
  <2>2. \A m \in AllLinks : m # l => up'[m] = up[m] /\ down'[m] = down[m] /\ client'[m] = client[m]
    BY <1>8, <1>a DEF recv_ping, Popped, Send, Channels
  <2> QED
    BY <1>5, <1>8, <2>1, <2>2 DEF recv_ping, Others, environment
<1>9. ASSUME NEW l \in AllLinks, recv_other(l) PROVE Session(k)'
  <2>1. l # k
    BY <1>9, <1>f DEF recv_other, Receives
  <2> QED
    BY <1>9, <1>e, <2>1 DEF recv_other
<1>10. ASSUME NEW l \in AllLinks, s_client_handle_ticket(l) PROVE Session(k)'
  <2>1. l # k
    BY <1>10 DEF s_client_handle_ticket, Undisturbed
  <2>2. \A m \in AllLinks : m # l => client'[m] = client[m]
    BY <1>10, <1>a DEF s_client_handle_ticket
  <2> QED
    BY <1>5, <1>10, <2>1, <2>2 DEF s_client_handle_ticket, Others, environment
<1>11. ASSUME NEW l \in AllLinks, remote_handler(l) PROVE Session(k)'
  <2>1. l \in Links /\ l[1] \in Nodes /\ down[l] # <<>> /\ Session(l) /\ down[l] \in Seq(Messages)
        /\ UNCHANGED <<active, events, connects>>
    BY <1>11, <1>a, LinkFacts DEF remote_handler, Sessions, Channels, Others, environment
  <2>2. Head(down[l]).id = "PUBLISH"
    BY <2>1, DownSteps DEF Session
  <2> DEFINE t == Head(down[l]).tuple
             d == Popped(down, l)
  <2>3. t \in Tuples /\ d \in Channels
    BY <1>a, <2>1, <2>2, PoppedOK, MessageFacts
  <2>4. server_accept(l[1], t, up, d)
    BY <1>11, <2>2 DEF remote_handler
  <2>5. d[k] = IF k = l THEN Tail(down[k]) ELSE down[k]
    BY <1>a, <1>b DEF Popped, Channels
  <2>6. DownOK(d[k])
    BY <1>b, <2>1, <2>5, DownSteps DEF Session
  <2>7. /\ UpOK(up[k], client[k])
        /\ k \in active => Greeted(up[k], client[k])
        /\ k \notin active => up[k] = <<>>
        /\ k \in active => \A x \in tuples[k[1]] :
               x \in tuples[k[2]] \/ In(up[k], Publish(x)) \/ (k[2] = l[1] /\ x = t)
    BY <1>b DEF Session, RemoteTold
  <2> HIDE DEF t, d
  <2> QED
    BY <1>a, <1>b, <2>1, <2>3, <2>4, <2>6, <2>7, AcceptSessions
<1>12. ASSUME NEW l \in AllLinks, monitor_handler(l) PROVE Session(k)'
  <2>1. l \in Links /\ events[l] # <<>> /\ Session(l) /\ events[l] \in Seq(Events)
    BY <1>12, <1>a DEF monitor_handler, Sessions
  <2>2. Len(events[l]) \in Nat \ {0} /\ Head(events[l]) = events[l][1]
        /\ Len(Tail(events[l])) = Len(events[l]) - 1
        /\ \A i \in 1..Len(Tail(events[l])) : Tail(events[l])[i] = events[l][i + 1]
    BY <2>1, HeadTailProperties, EmptySeq, LenProperties
  <2>3. \A i \in 1..Len(events[l]) : events[l][i] = "HANDSHAKE_SUCCEEDED"
    BY <2>1 DEF Session
  <2>4. Head(events[l]) = "HANDSHAKE_SUCCEEDED" /\ l \in active
        /\ \A i \in 1..Len(Tail(events[l])) : Tail(events[l])[i] = "HANDSHAKE_SUCCEEDED"
    BY <2>1, <2>2, <2>3 DEF Session
  <2>5. UNCHANGED <<active, up, tuples, client, down, connects>>
        /\ events' = [events EXCEPT ![l] = Tail(events[l])]
    BY <1>12, <2>4 DEF monitor_handler, environment, Popped
  <2>6. CASE k # l
    <3>1. events'[k] = events[k]
      BY <1>a, <1>b, <2>5, <2>6
    <3> QED
      BY <1>b, <2>5, <3>1, FrameSession
  <2>7. CASE k = l
    <3>1. events'[k] = Tail(events[k])
      BY <1>a, <1>b, <2>5, <2>7
    <3> QED
      BY <1>b, <2>4, <2>5, <2>7, <3>1 DEF Session, RemoteTold
  <2> QED
    BY <2>6, <2>7
<1>13. ASSUME NEW l \in RawLinks, raw_recv(l) PROVE Session(k)'
  <2>1. l # k /\ l[1] # k[1] /\ l[1] # k[2]
    BY <1>b, <1>c
  <2>2. tuples'[k[1]] = tuples[k[1]] /\ tuples'[k[2]] = tuples[k[2]] /\ down'[k] = down[k]
    BY <1>13, <1>a, <1>b, <2>1 DEF raw_recv, Popped, Channels
  <2> QED
    BY <1>13, <1>b, <2>2, FrameSession DEF raw_recv, environment
<1>14. ASSUME NEW l \in RawLinks, NEW m \in RawMessages, raw_send(l, m) PROVE Session(k)'
  <2>1. up'[k] = up[k]
    BY <1>14, <1>a, <1>b, <1>c DEF raw_send, Send, Channels
  <2> QED
    BY <1>14, <1>b, <2>1, FrameSession DEF raw_send
<1>15. ASSUME NEW n \in Nodes, restart(n) PROVE Session(k)'
  <2>1. drops \in 0..0 /\ drops < 0
    BY <1>15 DEF restart, TypeOK, Undisturbed
  <2> QED
    BY <2>1
<1>16. CASE UNCHANGED vars
  BY <1>16, <1>b, FrameSession DEF vars
<1> QED
  BY <1>1, <1>2, <1>3, <1>4, <1>6, <1>7, <1>8, <1>9, <1>10, <1>11, <1>12, <1>13, <1>14, <1>15, <1>16
     DEF Next, s_server_handle_protocol

\* In any network, of any shape, whose links are each connected once and not lost,
\* whose clients do not expire and whose keys each have one value: when no message
\* is on its way any more, connected nodes hold the same tuples.
THEOREM QuietNetworkIsConsistent ==
    ASSUME OneValue, Undisturbed
    PROVE  Spec => []QuietIsConsistent
<1>1. Init => Sessions /\ ClientsTold
  <2>1. Len(<<>>) = 0
    OBVIOUS
  <2> QED
    BY <2>1, LinkFacts DEF Init, Sessions, Session, ClientsTold, UpOK, DownOK
<1>2. TypeOK /\ Sessions /\ [Next]_vars => Sessions'
  BY SessionsStep
<1>3. TypeOK /\ ClientsTold /\ [Next]_vars => ClientsTold'
  BY ToldStep
<1>4. TypeOK /\ Sessions /\ ClientsTold => QuietIsConsistent
  <2> SUFFICES ASSUME TypeOK, Sessions, ClientsTold, Quiet, NEW l \in active
               PROVE  tuples[l[1]] = tuples[l[2]]
    BY DEF QuietIsConsistent, Consistent
  <2>1. l \in Links /\ l \in AllLinks /\ Session(l) /\ up[l] = <<>> /\ down[l] = <<>>
    BY LinkFacts DEF TypeOK, Sessions, Quiet
  <2>2. client[l] = "connected"
    BY <2>1 DEF TypeOK, States, Session, Greeted
  <2>3. \A x : ~In(<<>>, x)
    BY DEF In
  <2>4. tuples[l[1]] \subseteq tuples[l[2]]
    BY <2>1, <2>3 DEF Session, RemoteTold
  <2>5. tuples[l[2]] \subseteq tuples[l[1]]
    BY <2>1, <2>2, <2>3 DEF ClientsTold
  <2> QED
    BY <2>4, <2>5
<1> QED
  BY <1>1, <1>2, <1>3, <1>4, TypeInit, TypeStep, PTL DEF Spec
=============================================================================
