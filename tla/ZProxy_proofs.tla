---------------------------- MODULE ZProxy_proofs ----------------------------
(***************************************************************************)
(* Proofs about zproxy, for every number and size of messages, every       *)
(* high-water mark and any number of commands.  What is sent to a side     *)
(* follows what was read from the other, frame by frame; a send can fail   *)
(* only before the first frame of a message, so a message that was begun   *)
(* is finished (SideInv); the capture socket is fed from both sides, and   *)
(* the loop of s_self_switch leaves one only when all of its messages have *)
(* been read (CaptureInv).                                                 *)
(***************************************************************************)
EXTENDS ZProxy, SequenceTheorems, FiniteSetTheorems, TLAPS

AFrame == [msg : Int, part : Int, more : BOOLEAN]

ProxyType ==
    /\ place \in {"poll", "switch", "ended", "aborted"}
    /\ from \in Sides
    /\ copied \in BOOLEAN /\ capture \in BOOLEAN
    /\ arrived \in [Sides -> Seq(AFrame)]
    /\ reads \in [Sides -> Nat]
    /\ sent \in [Outputs -> Seq(AFrame)]
    /\ interrupts \in Nat
    /\ \A s \in Sides : reads[s] <= Len(arrived[s])

\* Messages arrive whole.
WholeInv ==
    \A s \in Sides :
        /\ InMessages(arrived[s])
        /\ arrived[s] # <<>> => ~Last(arrived[s]).more

\* A message that was begun goes on with the frame that is read next.
SideInv ==
    \A s \in Sides :
        MidMessage(Other(s)) =>
            reads[s] > 0 /\ Last(sent[Other(s)]) = arrived[s][reads[s]]

\* The same of the copies, while no signal has interrupted a send.
CaptureInv ==
    /\ copied => place = "switch" /\ capture /\ Waits(from)
    /\ ~capture => sent["capture"] = <<>>
    /\ interrupts = 0 /\ MidMessage("capture") =>
          /\ place = "switch"
          /\ IF copied THEN Last(sent["capture"]) = arrived[from][reads[from] + 1]
             ELSE reads[from] > 0 /\ Last(sent["capture"]) = arrived[from][reads[from]]

ProxyInv == ProxyType /\ WholeInv /\ SideInv /\ CaptureInv /\ NeverMerged /\ PassesAll

-----------------------------------------------------------------------------
(* Sequences of frames. *)

\* A frame that goes on where the last one stopped, or follows a whole message, may be
\* appended: what s_self_switch does to an output.
LEMMA AppendInMessages ==
    ASSUME NEW frames \in Seq(AFrame), NEW f \in AFrame, InMessages(frames),
           frames # <<>> /\ Last(frames).more =>
               f.msg = Last(frames).msg /\ f.part = Last(frames).part + 1
    PROVE  InMessages(Append(frames, f))
<1> DEFINE g == Append(frames, f)
<1>1. Len(frames) \in Nat /\ Len(g) = Len(frames) + 1 /\ g[Len(frames) + 1] = f
      /\ \A i \in 1 .. Len(frames) : g[i] = frames[i]
    OBVIOUS
<1> SUFFICES ASSUME NEW i \in 1 .. (Len(g) - 1), g[i].more
             PROVE  g[i + 1].msg = g[i].msg /\ g[i + 1].part = g[i].part + 1
    BY DEF InMessages
<1> HIDE DEF g
<1>2. CASE i < Len(frames)
  <2>1. g[i] = frames[i] /\ g[i + 1] = frames[i + 1] /\ i \in 1 .. (Len(frames) - 1)
      BY <1>1, <1>2
  <2> QED  BY <2>1 DEF InMessages
<1>3. CASE i = Len(frames)
  <2>1. g[i] = Last(frames) /\ g[i + 1] = f /\ frames # <<>>
      BY <1>1, <1>3 DEF Last
  <2> QED  BY <2>1
<1> QED  BY <1>1, <1>2, <1>3

\* The number of complete messages is a number.
LEMMA CompleteIsNat ==
    ASSUME NEW frames \in Seq(AFrame)  PROVE Complete(frames) \in Nat
<1>1. IsFiniteSet(DOMAIN frames)
    BY FS_Interval
<1>2. IsFiniteSet({i \in DOMAIN frames : ~frames[i].more})
    BY <1>1, FS_Subset
<1> QED  BY <1>2, FS_CardinalityType DEF Complete

\* A whole message after whole messages.
LEMMA MessageArrives ==
    ASSUME NEW frames \in Seq(AFrame), NEW size \in Nat \ {0}, NEW m \in Int,
           InMessages(frames), frames # <<>> => ~Last(frames).more
    PROVE  LET new == [i \in 1 .. size |-> [msg |-> m, part |-> i, more |-> i < size]]
               all == frames \o new
           IN  /\ all \in Seq(AFrame) /\ Len(all) = Len(frames) + size
               /\ \A i \in 1 .. Len(frames) : all[i] = frames[i]
               /\ InMessages(all) /\ all # <<>> /\ ~Last(all).more
<1> DEFINE new == [i \in 1 .. size |-> [msg |-> m, part |-> i, more |-> i < size]]
           all == frames \o new
<1>1. new \in Seq(AFrame) /\ Len(new) = size
  <2>1. new \in [1 .. size -> AFrame]
      BY DEF AFrame
  <2> QED  BY <2>1, IsASeq, LenProperties
<1>2. /\ all \in Seq(AFrame) /\ Len(all) = Len(frames) + size /\ Len(frames) \in Nat
      /\ \A i \in 1 .. Len(frames) : all[i] = frames[i]
      /\ \A i \in (Len(frames) + 1) .. Len(all) : all[i] = new[i - Len(frames)]
    BY <1>1, ConcatProperties
<1>3. \A i \in 1 .. size : new[i].msg = m /\ new[i].part = i
    OBVIOUS
<1>7. ~new[size].more
  <2>1. size \in 1 .. size /\ ~(size < size)
      OBVIOUS
  <2>2. new[size] = [msg |-> m, part |-> size, more |-> size < size]
      BY <2>1
  <2> QED  BY <2>1, <2>2
<1> HIDE DEF new, all
<1>4. ASSUME NEW i \in 1 .. (Len(all) - 1), all[i].more
      PROVE  all[i + 1].msg = all[i].msg /\ all[i + 1].part = all[i].part + 1
  <2>1. CASE i < Len(frames)
    <3>1. i \in 1 .. (Len(frames) - 1) /\ i \in 1 .. Len(frames) /\ i + 1 \in 1 .. Len(frames)
        BY <1>2, <2>1
    <3>2. all[i] = frames[i] /\ all[i + 1] = frames[i + 1]
        BY <1>2, <3>1
    <3> QED  BY <3>1, <3>2, <1>4 DEF InMessages
  <2>2. CASE i = Len(frames)
    <3>1. all[i] = Last(frames) /\ frames # <<>>
        BY <1>2, <2>2 DEF Last
    <3> QED  BY <3>1, <1>4
  <2>3. CASE i > Len(frames)
    <3>1. /\ i - Len(frames) \in 1 .. size /\ i + 1 - Len(frames) \in 1 .. size
          /\ all[i] = new[i - Len(frames)] /\ all[i + 1] = new[i + 1 - Len(frames)]
        BY <1>2, <2>3
    <3>2. new[i - Len(frames)].msg = m /\ new[i - Len(frames)].part = i - Len(frames)
        BY <3>1, <1>3
    <3>3. new[i + 1 - Len(frames)].msg = m /\ new[i + 1 - Len(frames)].part = i + 1 - Len(frames)
        BY <3>1, <1>3
    <3>4. (i - Len(frames)) + 1 = i + 1 - Len(frames)
        BY <1>2
    <3> QED  BY <3>1, <3>2, <3>3, <3>4
  <2> QED  BY <2>1, <2>2, <2>3, <1>2
<1>5. all # <<>> /\ ~Last(all).more
  <2>1. Len(all) > 0 /\ all[Len(all)] = new[size]
      BY <1>2
  <2> QED  BY <2>1, <1>7 DEF Last
<1>6. InMessages(all)
    BY <1>4 DEF InMessages
<1> QED  BY <1>2, <1>5, <1>6 DEF new, all

-----------------------------------------------------------------------------
(* The steps. *)

\* A turn of the loop of zproxy moves no frame, and begins between two messages.
LEMMA LoopTurn ==
    ASSUME ProxyType, zproxy
    PROVE  /\ place = "poll" /\ place' \in {"poll", "switch", "ended", "aborted"}
           /\ from' \in Sides /\ capture' \in BOOLEAN /\ (capture => capture')
           /\ interrupts' \in Nat /\ interrupts' >= interrupts
           /\ UNCHANGED <<copied, arrived, reads, sent>>
<1>1. PICK fails \in BOOLEAN :
         LET wait == zpoller_wait(poller, Ready, fails, zsys_interrupted) IN
         /\ interrupts' = IF fails THEN interrupts + 1 ELSE interrupts
         /\ \/ /\ wait.poller.terminated
               /\ Ends
               /\ poller' = wait.poller
               /\ UNCHANGED <<request, sockets, from, paused>>
            \/ /\ wait.which = "pipe"
               /\ s_self_handle_pipe(wait.poller)
            \/ /\ wait.which \in Sides
               /\ from' = wait.which
               /\ poller' = wait.poller
               /\ place' = IF frontend /\ backend THEN "switch" ELSE "aborted"
               /\ UNCHANGED <<request, signalled, sockets, paused>>
    BY DEF zproxy
<1>2. interrupts' \in Nat /\ interrupts' >= interrupts
    BY <1>1, SMT DEF ProxyType
<1>3. place = "poll" /\ UNCHANGED <<copied, arrived, reads, sent>>
    BY DEF zproxy, traffic
<1>4. /\ place' \in {"poll", "switch", "ended", "aborted"} /\ from' \in Sides
      /\ capture' \in BOOLEAN /\ (capture => capture')
  <2> DEFINE wait == zpoller_wait(poller, Ready, fails, zsys_interrupted)
  <2> HIDE DEF wait
  <2>1. CASE Ends /\ UNCHANGED <<sockets, from>>
      BY <2>1, Zenon DEF Ends, sockets, ProxyType
  <2>2. CASE s_self_handle_pipe(wait.poller)
      BY <2>2, Zenon DEF s_self_handle_pipe, Ends, ProxyType
  <2>3. CASE /\ from' = wait.which /\ wait.which \in Sides
             /\ place' = IF frontend /\ backend THEN "switch" ELSE "aborted"
             /\ UNCHANGED sockets
      BY <2>3, Zenon DEF sockets, ProxyType
  <2> QED  BY <1>1, <2>1, <2>2, <2>3, Zenon DEF wait
<1> QED  BY <1>2, <1>3, <1>4

\* What the application, its signals and the peers that take messages leave alone.
Aside ==
    UNCHANGED <<place, from, copied, capture, interrupts, arrived, reads, sent>>

\* A step that is none of those that move frames is one of those that leave them.
LEMMA OtherSteps ==
    ASSUME [ProxyNext]_proxy_vars
    PROVE  \/ Aside \/ zproxy \/ s_self_switch
           \/ \E side \in Sides, size \in 1 .. MaxFrames : message_arrives(side, size)
<1>1. ASSUME NEW c, app_send(c)  PROVE Aside
    BY <1>1 DEF app_send, Aside, sockets, traffic
<1>2. CASE app_destroy
    BY <1>2 DEF app_destroy, Aside, sockets, traffic
<1>3. CASE app_signalled
    BY <1>3 DEF app_signalled, Aside, sockets, traffic
<1>4. ASSUME NEW output, peer_takes(output)  PROVE Aside
    BY <1>4 DEF peer_takes, Aside, sockets
<1>5. CASE UNCHANGED proxy_vars
    BY <1>5 DEF proxy_vars, Aside, sockets, traffic
<1> QED  BY <1>1, <1>2, <1>3, <1>4, <1>5, Zenon DEF ProxyNext

\* A step that moves no frame keeps the invariant.
LEMMA AsideStep ==
    ASSUME ProxyInv, Aside  PROVE ProxyInv'
<1>1. ProxyType' /\ WholeInv'
    BY DEF ProxyInv, Aside, ProxyType, WholeInv, InMessages
<1>2. SideInv' /\ CaptureInv'
    BY DEF ProxyInv, Aside, SideInv, CaptureInv, MidMessage, Waits
<1>3. NeverMerged' /\ PassesAll'
    BY DEF ProxyInv, Aside, NeverMerged, PassesAll, InMessages
<1> QED  BY <1>1, <1>2, <1>3 DEF ProxyInv

\* zproxy is left with no copy half sent, so the side it turns to begins a message.
LEMMA LoopStep ==
    ASSUME ProxyInv, zproxy  PROVE ProxyInv'
<1>1. /\ place = "poll" /\ place' \in {"poll", "switch", "ended", "aborted"}
      /\ from' \in Sides /\ capture' \in BOOLEAN /\ (capture => capture')
      /\ interrupts' \in Nat /\ interrupts' >= interrupts
      /\ UNCHANGED <<copied, arrived, reads, sent>>
    BY LoopTurn DEF ProxyInv
<1>2. ProxyType' /\ WholeInv' /\ SideInv'
    BY <1>1 DEF ProxyInv, ProxyType, WholeInv, SideInv, MidMessage, InMessages
<1>3. interrupts' = 0 => interrupts = 0
    BY <1>1 DEF ProxyInv, ProxyType
<1>4. ~copied /\ (interrupts = 0 => ~MidMessage("capture"))
    BY <1>1 DEF ProxyInv, CaptureInv
<1>5. CaptureInv'
    BY <1>1, <1>3, <1>4 DEF ProxyInv, CaptureInv, MidMessage
<1>6. NeverMerged' /\ PassesAll'
    BY <1>1, <1>3 DEF ProxyInv, NeverMerged, PassesAll, InMessages
<1> QED  BY <1>2, <1>5, <1>6 DEF ProxyInv

\* A message that arrives is behind everything that was read.
LEMMA ArrivalStep ==
    ASSUME ProxyInv, NEW side \in Sides, NEW size \in 1 .. MaxFrames,
           message_arrives(side, size)
    PROVE  ProxyInv'
<1> DEFINE new == [i \in 1 .. size |-> [msg |-> Messages + 1, part |-> i, more |-> i < size]]
           all == arrived[side] \o new
<1>1. /\ arrived' = [arrived EXCEPT ![side] = all]
      /\ UNCHANGED <<place, from, copied, capture, interrupts, reads, sent>>
    BY DEF message_arrives, sockets
<1>2. arrived \in [Sides -> Seq(AFrame)] /\ reads \in [Sides -> Nat]
      /\ (\A s \in Sides : reads[s] <= Len(arrived[s]))
    BY DEF ProxyInv, ProxyType
<1>3. Messages + 1 \in Int /\ size \in Nat \ {0}
    BY <1>2, CompleteIsNat, ProxyAssumption DEF Messages, Sides
<1>4. /\ all \in Seq(AFrame) /\ Len(all) = Len(arrived[side]) + size
      /\ \A i \in 1 .. Len(arrived[side]) : all[i] = arrived[side][i]
      /\ InMessages(all) /\ ~Last(all).more
    BY <1>2, <1>3, MessageArrives DEF ProxyInv, WholeInv
<1> HIDE DEF all
<1>5. ASSUME NEW s \in Sides
      PROVE  /\ arrived'[s] \in Seq(AFrame) /\ Len(arrived'[s]) >= Len(arrived[s])
             /\ Len(arrived[s]) \in Nat /\ Len(arrived'[s]) \in Nat
             /\ \A i \in 1 .. Len(arrived[s]) : arrived'[s][i] = arrived[s][i]
             /\ InMessages(arrived'[s])
             /\ arrived'[s] # <<>> => ~Last(arrived'[s]).more
  <2>1. CASE s = side
      BY <2>1, <1>1, <1>2, <1>3, <1>4
  <2>2. CASE s # side
      BY <2>2, <1>1, <1>2 DEF ProxyInv, WholeInv
  <2> QED  BY <2>1, <2>2
<1>6. ProxyType'
  <2>1. arrived' \in [Sides -> Seq(AFrame)]
      BY <1>1, <1>2, <1>4
  <2>2. \A s \in Sides : reads'[s] <= Len(arrived'[s])
      BY <1>1, <1>2, <1>5
  <2> QED  BY <2>1, <2>2, <1>1 DEF ProxyInv, ProxyType
<1>7. WholeInv'
    BY <1>5 DEF WholeInv
<1>8. SideInv'
  <2> SUFFICES ASSUME NEW s \in Sides, MidMessage(Other(s))'
               PROVE  (reads[s] > 0 /\ Last(sent[Other(s)]) = arrived[s][reads[s]])'
      BY DEF SideInv
  <2>1. reads[s] > 0 /\ Last(sent[Other(s)]) = arrived[s][reads[s]]
      BY <1>1 DEF ProxyInv, SideInv, MidMessage
  <2>2. arrived'[s][reads[s]] = arrived[s][reads[s]]
      BY <2>1, <1>2, <1>5
  <2> QED  BY <1>1, <2>1, <2>2
<1>9. CaptureInv'
  <2>1. from \in Sides
      BY DEF ProxyInv, ProxyType
  <2>2. Waits(from) => Waits(from)'
      BY <1>1, <1>2, <1>5, <2>1 DEF Waits
  <2>3. copied' => place' = "switch" /\ capture' /\ Waits(from)'
      BY <1>1, <2>2 DEF ProxyInv, CaptureInv
  <2>4. ~capture' => sent'["capture"] = <<>>
      BY <1>1 DEF ProxyInv, CaptureInv
  <2>5. ASSUME interrupts = 0, MidMessage("capture")
        PROVE  /\ place = "switch"
               /\ copied => Last(sent["capture"]) = arrived'[from][reads[from] + 1]
               /\ ~copied => /\ reads[from] > 0
                             /\ Last(sent["capture"]) = arrived'[from][reads[from]]
    <3>1. CASE copied
        BY <3>1, <2>1, <2>5, <1>2, <1>5 DEF ProxyInv, CaptureInv, Waits
    <3>2. CASE ~copied
        BY <3>2, <2>1, <2>5, <1>2, <1>5 DEF ProxyInv, CaptureInv
    <3> QED  BY <3>1, <3>2
  <2> QED  BY <1>1, <2>3, <2>4, <2>5 DEF CaptureInv, MidMessage
<1>10. NeverMerged'
    BY <1>1 DEF ProxyInv, NeverMerged, InMessages
<1>11. PassesAll'
  <2> SUFFICES ASSUME interrupts = 0, NEW s \in Sides
               PROVE  sent[Other(s)] = SubSeq(arrived'[s], 1, reads[s])
      BY <1>1 DEF PassesAll
  <2>1. sent[Other(s)] = SubSeq(arrived[s], 1, reads[s])
      BY DEF ProxyInv, PassesAll
  <2>2. SubSeq(arrived[s], 1, reads[s]) = SubSeq(arrived'[s], 1, reads[s])
      BY <1>2, <1>5
  <2> QED  BY <2>1, <2>2
<1> QED  BY <1>6, <1>7, <1>8, <1>9, <1>10, <1>11 DEF ProxyInv

\* The loop of s_self_switch ends with whole messages only: the last frame that was
\* read was the last of its message.
LEMMA DoneStep ==
    ASSUME ProxyInv, switch_done  PROVE ProxyInv'
<1>1. /\ place' = "poll" /\ from' = "frontend" /\ ~copied /\ ~Waits(from)
      /\ UNCHANGED <<copied, capture, arrived, reads, sent, interrupts>>
    BY DEF switch_done, Leaves, sockets, traffic
<1>2. /\ arrived \in [Sides -> Seq(AFrame)] /\ reads \in [Sides -> Nat]
      /\ from \in Sides /\ reads[from] <= Len(arrived[from])
    BY DEF ProxyInv, ProxyType
<1>3. ProxyType' /\ WholeInv' /\ SideInv'
    BY <1>1 DEF ProxyInv, ProxyType, WholeInv, SideInv, MidMessage, InMessages, Sides
<1>4. ASSUME interrupts = 0, MidMessage("capture")  PROVE FALSE
  <2>1. reads[from] > 0 /\ Last(sent["capture"]) = arrived[from][reads[from]]
      BY <1>1, <1>4 DEF ProxyInv, CaptureInv
  <2>2. reads[from] = Len(arrived[from]) /\ arrived[from] # <<>>
      BY <1>1, <1>2, <2>1 DEF Waits
  <2>3. ~Last(arrived[from]).more
      BY <1>2, <2>2 DEF ProxyInv, WholeInv
  <2>4. Last(sent["capture"]) = Last(arrived[from])
      BY <2>1, <2>2 DEF Last
  <2>5. Last(sent["capture"]).more
      BY <1>4 DEF MidMessage, Last
  <2> QED  BY <2>3, <2>4, <2>5
<1>5. CaptureInv'
    BY <1>1, <1>4 DEF ProxyInv, CaptureInv, MidMessage
<1>6. NeverMerged' /\ PassesAll'
    BY <1>1 DEF ProxyInv, NeverMerged, PassesAll, InMessages
<1> QED  BY <1>3, <1>5, <1>6 DEF ProxyInv

\* The frame that is read next continues the message that was begun.
LEMMA NextContinues ==
    ASSUME ProxyInv, Waits(from)
    PROVE  /\ Frame \in AFrame
           /\ reads[from] > 0 /\ arrived[from][reads[from]].more =>
                 /\ Frame.msg = arrived[from][reads[from]].msg
                 /\ Frame.part = arrived[from][reads[from]].part + 1
<1>1. /\ arrived \in [Sides -> Seq(AFrame)] /\ reads \in [Sides -> Nat]
      /\ from \in Sides /\ reads[from] < Len(arrived[from])
    BY DEF ProxyInv, ProxyType, Waits
<1>2. Frame \in AFrame
    BY <1>1 DEF Frame
<1>3. ASSUME reads[from] > 0  PROVE reads[from] \in 1 .. (Len(arrived[from]) - 1)
    BY <1>1, <1>3
<1>4. InMessages(arrived[from])
    BY <1>1 DEF ProxyInv, WholeInv
<1> QED  BY <1>2, <1>3, <1>4 DEF InMessages, Frame

\* A copy continues the message of the copies, or is the first of one; a copy that a
\* signal drops is counted.
LEMMA CaptureStep ==
    ASSUME ProxyInv, switch_capture  PROVE ProxyInv'
<1>1. /\ place = "switch" /\ ~copied /\ Waits(from) /\ capture /\ copied'
      /\ UNCHANGED <<place, from, capture, arrived, reads>>
    BY DEF switch_capture, sockets
<1>2. /\ sent \in [Outputs -> Seq(AFrame)] /\ interrupts \in Nat /\ from \in Sides
      /\ "capture" \in Outputs /\ "capture" \notin Sides
      /\ \A s \in Sides : s \in Outputs /\ Other(s) \in Sides
    BY DEF ProxyInv, ProxyType, Outputs, Sides, Other
<1>3. Frame \in AFrame
    BY <1>1, NextContinues
<1>4. /\ sent' \in [Outputs -> Seq(AFrame)] /\ interrupts' \in Nat
      /\ \A s \in Sides : sent'[s] = sent[s]
      /\ interrupts' = 0 =>
            interrupts = 0 /\ sent'["capture"] = Append(sent["capture"], Frame)
  <2>1. CASE /\ sent' = [sent EXCEPT !["capture"] = Append(sent["capture"], Frame)]
             /\ interrupts' = interrupts
      BY <2>1, <1>2, <1>3
  <2>2. CASE sent' = sent /\ interrupts' = interrupts + 1
      BY <2>2, <1>2
  <2> QED  BY <2>1, <2>2 DEF switch_capture, Interrupted, Send
<1>5. ProxyType' /\ WholeInv' /\ SideInv'
    BY <1>1, <1>2, <1>4 DEF ProxyInv, ProxyType, WholeInv, SideInv, MidMessage, InMessages
<1>6. ASSUME interrupts' = 0
      PROVE  InMessages(sent'["capture"]) /\ Last(sent'["capture"]) = Frame
  <2> DEFINE frames == sent["capture"]
  <2>1. frames \in Seq(AFrame) /\ InMessages(frames)
      BY <1>2, <1>4, <1>6 DEF ProxyInv, NeverMerged
  <2>2. ASSUME frames # <<>>, Last(frames).more
        PROVE  Frame.msg = Last(frames).msg /\ Frame.part = Last(frames).part + 1
    <3>1. MidMessage("capture")
        BY <2>2 DEF MidMessage, Last
    <3>2. reads[from] > 0 /\ Last(frames) = arrived[from][reads[from]]
        BY <3>1, <1>1, <1>4, <1>6 DEF ProxyInv, CaptureInv
    <3> QED  BY <3>2, <2>2, <1>1, NextContinues
  <2> HIDE DEF frames
  <2>3. InMessages(Append(frames, Frame))
      BY <2>1, <2>2, <1>3, AppendInMessages
  <2>4. Last(Append(frames, Frame)) = Frame
      BY <2>1, <1>3 DEF Last
  <2> QED  BY <2>3, <2>4, <1>4, <1>6 DEF frames
<1>7. CaptureInv'
    BY <1>1, <1>6 DEF CaptureInv, Waits, Frame
<1>8. NeverMerged'
    BY <1>4, <1>6 DEF ProxyInv, NeverMerged
<1>9. PassesAll'
    BY <1>1, <1>2, <1>4 DEF ProxyInv, PassesAll
<1> QED  BY <1>5, <1>7, <1>8, <1>9 DEF ProxyInv

\* A frame continues the message of its output, or is the first of one: only a first
\* frame can wait, so only a first frame is dropped.
LEMMA SendStep ==
    ASSUME ProxyInv, switch_send  PROVE ProxyInv'
<1> DEFINE to == Other(from)
<1>1. /\ place = "switch" /\ Waits(from) /\ (copied \/ ~capture) /\ ~copied'
      /\ reads' = [reads EXCEPT ![from] = @ + 1]
      /\ UNCHANGED <<capture, arrived>>
    BY DEF switch_send, sockets, ProxyInv, ProxyType
<1>2. /\ sent \in [Outputs -> Seq(AFrame)] /\ interrupts \in Nat /\ from \in Sides
      /\ arrived \in [Sides -> Seq(AFrame)] /\ reads \in [Sides -> Nat]
      /\ reads[from] < Len(arrived[from])
      /\ \A s \in Sides : reads[s] <= Len(arrived[s])
    BY <1>1 DEF ProxyInv, ProxyType, Waits
<1>3. /\ "capture" \in Outputs /\ to \in Sides /\ to # "capture"
      /\ \A s \in Sides : s \in Outputs /\ Other(s) \in Sides /\ (Other(s) = to => s = from)
    BY <1>2 DEF Outputs, Sides, Other
<1>4. Frame \in AFrame /\ Frame = arrived[from][reads[from] + 1]
    BY <1>1, NextContinues DEF Frame
<1>5. /\ reads' \in [Sides -> Nat] /\ reads'[from] = reads[from] + 1
      /\ \A s \in Sides : s # from => reads'[s] = reads[s]
      /\ \A s \in Sides : reads'[s] <= Len(arrived[s])
    BY <1>1, <1>2
<1>6. \/ /\ sent' = [sent EXCEPT ![to] = Append(sent[to], Frame)]
         /\ UNCHANGED <<place, from, interrupts>>
      \/ /\ sent' = sent /\ interrupts' = interrupts + 1 /\ ~MidMessage(to)
         /\ place' = "poll" /\ from' = "frontend"
    BY DEF switch_send, Interrupted, Leaves, Send, Room
<1> HIDE DEF to
<1>7. /\ place' \in {"poll", "switch"} /\ from' \in Sides /\ interrupts' \in Nat
      /\ interrupts' = 0 => /\ interrupts = 0 /\ place' = "switch" /\ from' = from
                            /\ sent' = [sent EXCEPT ![to] = Append(sent[to], Frame)]
    BY <1>1, <1>2, <1>6 DEF Sides
<1>8. /\ sent' \in [Outputs -> Seq(AFrame)]
      /\ \A o \in Outputs : o # to => sent'[o] = sent[o]
      /\ \/ sent'[to] = Append(sent[to], Frame)
         \/ sent'[to] = sent[to] /\ ~MidMessage(to)
  <2>1. to \in Outputs
      BY <1>3
  <2>2. CASE sent' = [sent EXCEPT ![to] = Append(sent[to], Frame)]
      BY <2>1, <2>2, <1>2, <1>4
  <2>3. CASE sent' = sent /\ ~MidMessage(to)
      BY <2>3, <1>2
  <2> QED  BY <2>2, <2>3, <1>6
<1>9. ProxyType'
  <2>1. copied' \in BOOLEAN /\ capture' \in BOOLEAN
      BY <1>1 DEF ProxyInv, ProxyType, switch_send
  <2>2. \A s \in Sides : reads'[s] <= Len(arrived'[s])
      BY <1>1, <1>5
  <2> QED  BY <2>1, <2>2, <1>1, <1>2, <1>5, <1>7, <1>8 DEF ProxyType
<1>10. WholeInv'
    BY <1>1 DEF ProxyInv, WholeInv, InMessages
<1>11. /\ sent[to] \in Seq(AFrame) /\ InMessages(sent[to])
       /\ Last(Append(sent[to], Frame)) = Frame
       /\ InMessages(Append(sent[to], Frame))
  <2>1. sent[to] \in Seq(AFrame) /\ InMessages(sent[to])
      BY <1>2, <1>3 DEF ProxyInv, NeverMerged
  <2>2. ASSUME sent[to] # <<>>, Last(sent[to]).more
        PROVE  Frame.msg = Last(sent[to]).msg /\ Frame.part = Last(sent[to]).part + 1
    <3>1. MidMessage(to)
        BY <2>2 DEF MidMessage, Last
    <3>2. reads[from] > 0 /\ Last(sent[to]) = arrived[from][reads[from]]
        BY <3>1, <1>2 DEF ProxyInv, SideInv, to
    <3> QED  BY <3>2, <2>2, <1>1, NextContinues
  <2>3. InMessages(Append(sent[to], Frame))
      BY <2>1, <2>2, <1>4, AppendInMessages
  <2>4. Last(Append(sent[to], Frame)) = Frame
      BY <2>1, <1>4 DEF Last
  <2> QED  BY <2>1, <2>3, <2>4
<1>12. SideInv'
  <2> SUFFICES ASSUME NEW s \in Sides, MidMessage(Other(s))'
               PROVE  reads'[s] > 0 /\ Last(sent'[Other(s)]) = arrived[s][reads'[s]]
      BY <1>1 DEF SideInv
  <2>1. CASE s = from
    <3>1. Other(s) = to
        BY <2>1 DEF to
    <3>2. sent'[to] = Append(sent[to], Frame)
        BY <3>1, <1>8 DEF MidMessage
    <3>3. Last(sent'[to]) = Frame
        BY <3>2, <1>11
    <3> QED  BY <3>1, <3>3, <2>1, <1>2, <1>4, <1>5
  <2>2. CASE s # from
    <3>1. sent'[Other(s)] = sent[Other(s)] /\ reads'[s] = reads[s]
        BY <2>2, <1>3, <1>5, <1>8
    <3> QED  BY <3>1 DEF ProxyInv, SideInv, MidMessage
  <2> QED  BY <2>1, <2>2
<1>13. CaptureInv'
  <2>1. sent'["capture"] = sent["capture"]
      BY <1>3, <1>8
  <2>2. ~capture' => sent'["capture"] = <<>>
      BY <2>1, <1>1 DEF ProxyInv, CaptureInv
  <2>3. ASSUME interrupts' = 0, MidMessage("capture")'
        PROVE  /\ place' = "switch" /\ reads'[from'] > 0
               /\ Last(sent'["capture"]) = arrived'[from'][reads'[from']]
    <3>1. MidMessage("capture")
        BY <2>1, <2>3 DEF MidMessage
    <3>2. copied
        BY <3>1, <1>1 DEF ProxyInv, CaptureInv, MidMessage
    <3>3. Last(sent["capture"]) = arrived[from][reads[from] + 1]
        BY <3>1, <3>2, <2>3, <1>7 DEF ProxyInv, CaptureInv
    <3> QED  BY <3>3, <2>1, <2>3, <1>1, <1>2, <1>5, <1>7
  <2> QED  BY <2>2, <2>3, <1>1 DEF CaptureInv
<1>14. NeverMerged'
  <2>1. ASSUME NEW s \in Sides  PROVE InMessages(sent'[s])
    <3>1. CASE s = to
        BY <3>1, <1>8, <1>11
    <3>2. CASE s # to
        BY <3>2, <1>3, <1>8 DEF ProxyInv, NeverMerged
    <3> QED  BY <3>1, <3>2
  <2>2. sent'["capture"] = sent["capture"]
      BY <1>3, <1>8
  <2> QED  BY <2>1, <2>2, <1>7 DEF ProxyInv, NeverMerged
<1>15. PassesAll'
  <2> SUFFICES ASSUME interrupts' = 0, NEW s \in Sides
               PROVE  sent'[Other(s)] = SubSeq(arrived[s], 1, reads'[s])
      BY <1>1 DEF PassesAll
  <2>1. sent[Other(s)] = SubSeq(arrived[s], 1, reads[s])
      BY <1>7 DEF ProxyInv, PassesAll
  <2>2. CASE s = from
    <3>1. sent'[to] = Append(SubSeq(arrived[from], 1, reads[from]), Frame)
        BY <2>1, <2>2, <1>2, <1>3, <1>7 DEF to
    <3>2. Append(SubSeq(arrived[from], 1, reads[from]), arrived[from][reads[from] + 1])
              = SubSeq(arrived[from], 1, reads[from] + 1)
        BY <1>2
    <3> QED  BY <3>1, <3>2, <2>2, <1>4, <1>5 DEF to
  <2>3. CASE s # from
      BY <2>1, <2>3, <1>3, <1>5, <1>8
  <2> QED  BY <2>2, <2>3
<1> QED  BY <1>9, <1>10, <1>12, <1>13, <1>14, <1>15 DEF ProxyInv

-----------------------------------------------------------------------------
(* The invariant, and what it says of the two sides and of the capture socket. *)

\* A proxy begins with nothing arrived and nothing sent.
LEMMA InitProxyInv == ProxyInit => ProxyInv
<1> SUFFICES ASSUME ProxyInit  PROVE ProxyInv
    OBVIOUS
<1>1. \A s \in Sides : /\ arrived[s] = <<>> /\ reads[s] = 0 /\ sent[s] = <<>>
                       /\ Other(s) \in Sides
    BY DEF ProxyInit, Sides, Outputs, Other
<1>2. sent["capture"] = <<>> /\ \A o \in Outputs : sent[o] = <<>>
    BY DEF ProxyInit, Outputs
<1>3. ProxyType
  <2>1. place = "poll" /\ from \in Sides /\ copied \in BOOLEAN /\ capture \in BOOLEAN
      BY DEF ProxyInit, Sides
  <2>2. <<>> \in Seq(AFrame)
      OBVIOUS
  <2>3. /\ arrived \in [Sides -> Seq(AFrame)] /\ reads \in [Sides -> Nat]
        /\ sent \in [Outputs -> Seq(AFrame)] /\ interrupts \in Nat
      BY <2>2 DEF ProxyInit
  <2>4. \A s \in Sides : reads[s] <= Len(arrived[s])
      BY <1>1
  <2> QED  BY <2>1, <2>3, <2>4 DEF ProxyType
<1>4. WholeInv /\ NeverMerged
    BY <1>1, <1>2 DEF WholeInv, NeverMerged, InMessages
<1>5. SideInv /\ CaptureInv
    BY <1>1, <1>2 DEF ProxyInit, SideInv, CaptureInv, MidMessage
<1>6. PassesAll
  <2>1. SubSeq(<<>>, 1, 0) = <<>>
      OBVIOUS
  <2>2. ASSUME NEW s \in Sides  PROVE sent[Other(s)] = SubSeq(arrived[s], 1, reads[s])
      BY <1>1, <2>1
  <2> QED  BY <2>2 DEF PassesAll
<1> QED  BY <1>3, <1>4, <1>5, <1>6 DEF ProxyInv

\* One step for each part of the switch, for arrivals and for the rest.
LEMMA NextProxyInv == ProxyInv /\ [ProxyNext]_proxy_vars => ProxyInv'
<1> SUFFICES ASSUME ProxyInv, [ProxyNext]_proxy_vars  PROVE ProxyInv'
    OBVIOUS
<1>1. CASE Aside
    BY <1>1, AsideStep
<1>2. CASE zproxy
    BY <1>2, LoopStep
<1>3. CASE s_self_switch
    BY <1>3, DoneStep, CaptureStep, SendStep DEF s_self_switch
<1>4. CASE \E side \in Sides, size \in 1 .. MaxFrames : message_arrives(side, size)
    BY <1>4, ArrivalStep
<1> QED  BY <1>1, <1>2, <1>3, <1>4, OtherSteps

\* The invariant of the proxy holds in every state.
LEMMA ProxyInvHolds == ProxySpec => []ProxyInv
<1> QED  BY InitProxyInv, NextProxyInv, PTL DEF ProxySpec

\* What a peer of the proxy receives is never made of frames of two messages, whatever
\* signals interrupt zproxy; nor are the copies in the capture socket, which both sides
\* feed, while no signal does.
THEOREM MessagesNeverMerged == ProxySpec => []NeverMerged
<1>1. ProxyInv => NeverMerged
    BY DEF ProxyInv
<1> QED  BY <1>1, ProxyInvHolds, PTL

\* Until a signal interrupts a send, s_self_switch passes on every frame it has read, in
\* order and once, for any number of messages and any high-water mark.
THEOREM FramesPassOn == ProxySpec => []PassesAll
<1>1. ProxyInv => PassesAll
    BY DEF ProxyInv
<1> QED  BY <1>1, ProxyInvHolds, PTL

==============================================================================
