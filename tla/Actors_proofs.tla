--------------------------- MODULE Actors_proofs ---------------------------
(***************************************************************************)
(* Proofs about the actor and about the one that czmq runs a child process *)
(* in.  The return code of a zproc is true, and zproc_destroy leaves no    *)
(* child, for any number of calls and of blocks that the child writes;     *)
(* zactor_new and zactor_destroy synchronize, and a command that was sent  *)
(* is finished, for every pipe capacity and every bound.                   *)
(***************************************************************************)
EXTENDS ZActor, ZProc, TLAPS

-----------------------------------------------------------------------------
(* The actor of zproc and its caller.                                       *)

Ends == {Exited, SIGTERM, SIGKILL}

\* The life of the child, and what each of the two threads may take from it: who has
\* seen a signal of the actor knows how far the actor has come.
ProcInv ==
    /\ signals \in Nat
    /\ pid = (child # "none")
    /\ child \in {"none", "running", "exited", "reaped"}
    /\ child \in {"exited", "reaped"} => status \in Ends
    /\ caller = "new" => return_code = None /\ actor = "none" /\ child = "none"
    /\ child = "none" => caller \in {"new", "run"} /\ signals = 0 /\ actor \in {"none", "loop"}
    /\ caller # "new" => return_code \in {RUNNING} \cup Ends
    /\ command \in {None, "RUN", "$TERM"}
    /\ command = "RUN" => child = "none"
    /\ command = "$TERM" => child # "none"
    /\ actor = "store" => child = "reaped" /\ return_code = RUNNING
    /\ child = "reaped" /\ actor # "store" => return_code = status
    /\ return_code \in Ends => child = "reaped"
    /\ actor \in {"shim", "ended"} => child = "reaped"
    /\ child # "none" /\ caller = "run" => signals > 0
    /\ signals > 1 => actor \in {"shim", "ended"}
    /\ signals > 0 /\ caller # "run" => actor \in {"shim", "ended"}
    /\ caller = "done" => child = "reaped"

USE DEF RUNNING, None, Exited, SIGTERM, SIGKILL

\* A zproc begins with no child, no actor and no return code.
LEMMA ProcInvInit == ProcInit => ProcInv
<1> SUFFICES ASSUME ProcInit PROVE ProcInv
  OBVIOUS
<1>1. pid = (child # "none")
  BY Zenon DEF ProcInit
<1> QED
  BY <1>1, SMT DEF ProcInit, ProcInv, Ends

\* Every step of the child, of the application and of the actor keeps the invariant.
LEMMA ProcInvStep == ProcInv /\ [ProcNext]_proc_vars => ProcInv'
<1> SUFFICES ASSUME ProcInv, [ProcNext]_proc_vars PROVE ProcInv'
  OBVIOUS
<1> USE DEF ProcInv, Ends, process
<1>1. CASE child_write
  BY <1>1 DEF child_write
<1>2. CASE child_exit
  BY <1>2 DEF child_exit
<1>3. ASSUME NEW s \in {SIGTERM, SIGKILL}, child_signal(s) PROVE ProcInv'
  BY <1>3 DEF child_signal
<1>4. CASE zproc_kill
  BY <1>4 DEF zproc_kill, CallsKill, AfterKill
<1>5. CASE zproc_wait
  BY <1>5 DEF zproc_wait
<1>6. CASE zproc_destroy
  BY <1>6 DEF zproc_destroy
<1>7. CASE zproc_run
  BY <1>7 DEF zproc_run
<1>8. CASE zproc_run_done
  BY <1>8 DEF zproc_run_done
<1>9. CASE zproc_kill_send
  BY <1>9 DEF zproc_kill_send, AfterKill
<1>10. CASE zproc_shutdown
  BY <1>10 DEF zproc_shutdown
<1>11. CASE zproc_shutdown_done
  BY <1>11 DEF zproc_shutdown_done
<1>12. CASE actor_destroy
  BY <1>12 DEF actor_destroy
<1>13. CASE actor_destroy_done
  BY <1>13 DEF actor_destroy_done
<1>14. CASE s_pipe_handler
  <2>1. CASE command = "$TERM"
    BY <1>14, <2>1 DEF s_pipe_handler
  <2>2. CASE command # "$TERM"
    <3>1. pid' = TRUE /\ child' = "running"
      BY <1>14, <2>2 DEF s_pipe_handler, s_zproc_execve
    <3>2. (pid = (child # "none"))'
      BY <3>1, Zenon
    <3> QED
      BY <1>14, <2>2, <3>1, <3>2 DEF s_pipe_handler
  <2> QED
    BY <2>1, <2>2
<1>15. CASE s_fd_in_handler
  BY <1>15 DEF s_fd_in_handler
<1>16. CASE s_zproc_alive
  BY <1>16 DEF s_zproc_alive, zproc_running
<1>17. CASE s_zproc_alive_done
  BY <1>17 DEF s_zproc_alive_done
<1>18. CASE s_zproc_actor
  <2>1. child # "none"
    BY <1>18 DEF s_zproc_actor
  <2>2. pid
    BY <2>1, Zenon
  <2>3. return_code # RUNNING
    BY <1>18, <2>2, Zenon DEF s_zproc_actor, zproc_running
  <2> QED
    BY <1>18, <2>1, <2>3 DEF s_zproc_actor
<1>19. CASE s_thread_shim
  BY <1>19 DEF s_thread_shim
<1>20. CASE UNCHANGED proc_vars
  BY <1>20 DEF proc_vars
<1> QED
  BY <1>1, <1>2, <1>3, <1>4, <1>5, <1>6, <1>7, <1>8, <1>9, <1>10, <1>11, <1>12, <1>13,
     <1>14, <1>15, <1>16, <1>17, <1>18, <1>19, <1>20 DEF ProcNext, CallerStep, ActorStep

\* What zproc_returncode gives when the process no longer counts as running is how the
\* child ended, and it has been reaped.
THEOREM ReturnCodeIsTrue == ProcSpec => []CodeIsTrue
<1>1. ProcInv => CodeIsTrue
  BY DEF ProcInv, CodeIsTrue, Ends
<1> QED
  BY <1>1, ProcInvInit, ProcInvStep, PTL DEF ProcSpec

\* When zproc_destroy returns no child is left, running or unreaped.
THEOREM NoChildIsLeft == ProcSpec => []NoOrphan
<1>1. ProcInv => NoOrphan
  BY DEF ProcInv, NoOrphan, Ends
<1> QED
  BY <1>1, ProcInvInit, ProcInvStep, PTL DEF ProcSpec

-----------------------------------------------------------------------------
(* The actor and its caller.                                                *)

\* Every definition the steps of the two threads are made of.
USE DEF Commands, Signals

\* What the actor writes to its end of the pipe.
LEMMA GrowsUp ==
    ASSUME NEW u \in Seq(Signals \cup {"data"}), NEW m \in Signals \cup {"data"}
    PROVE  Append(u, m) \in Seq(Signals \cup {"data"})
OBVIOUS

\* Each step of the threads keeps every variable in its type.
LEMMA TypeStep == TypeOK /\ [Next]_vars => TypeOK'
<1> SUFFICES ASSUME TypeOK, [Next]_vars PROVE TypeOK'
  OBVIOUS
<1> USE StopAssumption, BoundsAssumption DEF TypeOK
<1>1. CASE zactor_new
  BY <1>1 DEF zactor_new
<1>2. CASE zactor_set_destructor
  BY <1>2 DEF zactor_set_destructor
<1>3. CASE zactor_send
  BY <1>3 DEF zactor_send
<1>4. CASE zactor_send_done
  BY <1>4 DEF zactor_send_done
<1>5. CASE zactor_recv
  BY <1>5 DEF zactor_recv
<1>6. CASE app_wait
  BY <1>6 DEF app_wait
<1>7. CASE zsock_wait
  BY <1>7 DEF zsock_wait, AfterWait
<1>8. CASE zsock_wait_interrupted
  BY <1>8 DEF zsock_wait_interrupted, AfterWait
<1>9. CASE zactor_destroy
  BY <1>9 DEF zactor_destroy
<1>10. CASE s_zactor_destructor
  BY <1>10 DEF s_zactor_destructor
<1>11. CASE zactor_destroy_done
  BY <1>11 DEF zactor_destroy_done
<1>12. CASE handler_init
  <2>1. up' \in {up, Append(up, "init")} /\ act' \in {"loop", "returned"}
    BY <1>12 DEF handler_init
  <2>2. up' \in Seq(Signals \cup {"data"})
    BY <2>1, GrowsUp
  <2> QED
    BY <1>12, <2>1, <2>2 DEF handler_init
<1>13. CASE handler_recv
  BY <1>13 DEF handler_recv
<1>14. CASE handler_reply
  <2>1. up' \in Seq(Signals \cup {"data"})
    <3>1. up' \in {up, Append(up, "data"), Append(up, "reply")}
      BY <1>14 DEF handler_reply
    <3>2. Append(up, "data") \in Seq(Signals \cup {"data"})
      BY GrowsUp
    <3>3. Append(up, "reply") \in Seq(Signals \cup {"data"})
      BY GrowsUp
    <3> QED
      BY <3>1, <3>2, <3>3, Zenon
  <2>2. handled' \in Nat
    BY <1>14 DEF handler_reply
  <2> QED
    BY <1>14, <2>1, <2>2 DEF handler_reply
<1>15. CASE handler_event
  BY <1>15 DEF handler_event
<1>16. CASE handler_quit
  BY <1>16 DEF handler_quit
<1>17. CASE s_thread_shim_signal
  BY <1>17 DEF s_thread_shim_signal
<1>18. CASE s_thread_shim_done
  BY <1>18 DEF s_thread_shim_done
<1>19. CASE Terminated
  BY <1>19 DEF Terminated, vars
<1>20. CASE UNCHANGED vars
  BY <1>20 DEF vars
<1> QED
  BY <1>1, <1>2, <1>3, <1>4, <1>5, <1>6, <1>7, <1>8, <1>9, <1>10, <1>11, <1>12,
     <1>13, <1>14, <1>15, <1>16, <1>17, <1>18, <1>19, <1>20 DEF Next

\* The application and the handler only ever put messages of their kind into
\* the pipe, and the counters stay within their bounds.
THEOREM TypeCorrect == Spec => []TypeOK
<1>1. Init => TypeOK
  BY StopAssumption, BoundsAssumption DEF Init, TypeOK
<1> QED
  BY <1>1, TypeStep, PTL DEF Spec

-----------------------------------------------------------------------------
(***************************************************************************)
(* Why zactor_destroy is synchronized.  The signal it takes must be the    *)
(* shim's, so no other signal may be on its way when the destructor waits. *)
(* "init" is read by zactor_new; a "reply" is on its way only while one is *)
(* owed, at most one is, and the application destroys the actor when none  *)
(* is.  And the destructor skips the wait only when the shim has finished, *)
(* for there is always room for the stop word.                             *)
(***************************************************************************)

\* The handler is at work: it may still send a reply.
Live == act \in {"starting", "loop", "handling"}

InDown(m) == \E i \in 1..Len(down) : down[i] = m
InUp(m) == \E i \in 1..Len(up) : up[i] = m

Sending == app = "sending" /\ outgoing = "signal"
Handling == act = "handling" /\ cmd = "signal"

\* Nothing is in the pipe before the handler has signalled.
StartInv ==
    /\ app = "none" <=> act = "none"
    /\ act \in {"none", "starting"} =>
            app \in {"none", "wait_init"} /\ up = <<>> /\ down = <<>>

\* The first signal is for zactor_new; the shim's is the last message of all.
EndsInv ==
    \A i \in 1..Len(up) :
        /\ up[i] = "init" => i = 1 /\ app = "wait_init"
        /\ up[i] = "exit" => i = Len(up) /\ act \in {"signalled", "gone"}

OwedInv ==
    /\ owed \in {0, 1}
    /\ app \in {"none", "wait_init", "stopping", "wait_exit", "closing", "gone"} => owed = 0

\* Nothing owed: no reply is on its way, or ever will be.
NoneInv ==
    owed = 0 =>
        /\ ~InUp("reply") /\ ~Sending
        /\ Live => ~InDown("signal") /\ ~Handling

\* Something owed: one command or its reply is on its way, in one place.
OneInv ==
    /\ \A i, j \in 1..Len(up) : up[i] = "reply" /\ up[j] = "reply" => i = j
    /\ \A i, j \in 1..Len(down) :
            Live /\ down[i] = "signal" /\ down[j] = "signal" => i = j
    /\ Sending => ~InUp("reply")
    /\ Live /\ Sending => ~InDown("signal") /\ ~Handling
    /\ Live /\ InDown("signal") => ~InUp("reply") /\ ~Handling
    /\ Handling => ~InUp("reply")

\* Only commands are in the queue while the actor is being used.
RoomInv ==
    app \in {"running", "sending", "waiting", "stopping", "none", "wait_init"} =>
        Len(down) + (IF app = "sending" THEN 1 ELSE 0) <= sends

StopInv == app \in {"closing", "gone"} => act \in {"signalled", "gone"}

SyncInv ==
    /\ TypeOK /\ StartInv /\ EndsInv /\ OwedInv /\ NoneInv /\ OneInv
    /\ RoomInv /\ StopInv

\* The application collects its replies, is not interrupted, and the pipe has
\* room for every command and the stop word.
LEMMA SyncStep ==
  ASSUME Collects, ~MayInterrupt, MaxSends < Capacity,
         SyncInv, [Next]_vars
  PROVE  SyncInv'
<1>0. TypeOK'
  BY TypeStep DEF SyncInv
<1> USE <1>0, StopAssumption, BoundsAssumption, CapacityAssumption
    DEF SyncInv, TypeOK, StartInv, EndsInv, OwedInv, NoneInv, OneInv, RoomInv, StopInv,
        Live, InDown, InUp, Sending, Handling
<1>1. CASE zactor_new
  BY <1>1 DEF zactor_new
<1>2. CASE zactor_set_destructor
  BY <1>2 DEF zactor_set_destructor
<1>3. CASE zactor_send
  BY <1>3 DEF zactor_send
<1>4. CASE zactor_send_done
  BY <1>4 DEF zactor_send_done, RoomDown, ActEndOpen
<1>5. CASE zactor_recv
  BY <1>5 DEF zactor_recv
<1>6. CASE app_wait
  BY <1>6 DEF app_wait
<1>7. CASE zsock_wait
  BY <1>7 DEF zsock_wait, AfterWait
<1>8. CASE zactor_destroy
  BY <1>8 DEF zactor_destroy
<1>9. CASE s_zactor_destructor
  <2>1. Len(down) < Capacity /\ owed = 0 /\ act # "none"
    BY <1>9 DEF s_zactor_destructor
  <2>2. CASE RoomDown
    <3>1. /\ down' = Append(down, destructor) /\ app' = "wait_exit"
          /\ UNCHANGED <<act, up, outgoing, cmd, owed, sends>>
      BY <1>9, <2>2 DEF s_zactor_destructor
    <3>2. destructor # "signal"
      OBVIOUS
    <3>3. NoneInv' /\ OneInv'
      BY <2>1, <3>1, <3>2
    <3>4. StartInv' /\ EndsInv' /\ OwedInv' /\ RoomInv' /\ StopInv'
      BY <1>9, <2>1, <3>1 DEF s_zactor_destructor
    <3> QED
      BY <3>3, <3>4 DEF SyncInv
  <2>3. CASE ~RoomDown
    BY <1>9, <2>1, <2>3 DEF s_zactor_destructor, RoomDown, ActEndOpen
  <2> QED
    BY <2>2, <2>3
<1>10. CASE zactor_destroy_done
  BY <1>10 DEF zactor_destroy_done
<1>11. CASE handler_init
  BY <1>11 DEF handler_init
<1>12. CASE handler_recv
  BY <1>12 DEF handler_recv
<1>13. CASE handler_reply
  <2>1. CASE cmd = "plain" /\ up' = up
    BY <1>13, <2>1 DEF handler_reply
  <2>2. CASE cmd \in {"echo", "event"} /\ up' = Append(up, "data")
    BY <1>13, <2>2 DEF handler_reply
  <2>3. CASE cmd = "signal" /\ up' = Append(up, "reply")
    <3>1. /\ act' = "loop"
          /\ UNCHANGED <<app, down, outgoing, cmd, owed, sends>>
      BY <1>13 DEF handler_reply
    <3>2. Live /\ Handling /\ Live' /\ ~Handling'
      BY <1>13, <2>3, <3>1 DEF handler_reply
    <3>3. owed = 1 /\ ~InUp("reply") /\ ~InDown("signal") /\ ~Sending
      BY <3>2
    <3>4. EndsInv'
      BY <1>13, <2>3, <3>1, <3>2 DEF handler_reply
    <3>5. OneInv' /\ NoneInv'
      BY <2>3, <3>1, <3>2, <3>3
    <3> QED
      BY <1>13, <2>3, <3>1, <3>4, <3>5 DEF handler_reply
  <2> QED
    BY <1>13, <2>1, <2>2, <2>3 DEF handler_reply
<1>14. CASE handler_event
  BY <1>14 DEF handler_event
<1>15. CASE handler_quit
  BY <1>15 DEF handler_quit
<1>16. CASE s_thread_shim_signal
  BY <1>16 DEF s_thread_shim_signal
<1>17. CASE s_thread_shim_done
  BY <1>17 DEF s_thread_shim_done
<1>18. CASE Terminated
  BY <1>18 DEF Terminated, vars
<1>19. CASE UNCHANGED vars
  BY <1>19 DEF vars
<1> QED
  BY <1>1, <1>2, <1>3, <1>4, <1>5, <1>6, <1>7, <1>8, <1>9, <1>10, <1>11, <1>12, <1>13, <1>14, <1>15, <1>16, <1>17, <1>18, <1>19 DEF Next, zsock_wait_interrupted

\* zactor_new returns only after the handler's signal, whether the handler set
\* itself up or returned at once.
THEOREM NewSynchronized ==
  ASSUME Collects, ~MayInterrupt, MaxSends < Capacity
  PROVE  Spec => []NewSynchronizes
<1>1. Init => SyncInv
  BY StopAssumption, BoundsAssumption
  DEF Init, SyncInv, TypeOK, StartInv, EndsInv, OwedInv, NoneInv, OneInv, RoomInv,
      StopInv, Live, InDown, InUp, Sending, Handling
<1>2. SyncInv /\ [Next]_vars => SyncInv'
  BY SyncStep
<1>3. SyncInv => NewSynchronizes
  BY DEF SyncInv, StartInv, NewSynchronizes
<1> QED
  BY <1>1, <1>2, <1>3, PTL DEF Spec

\* zactor_destroy returns only after the handler has, even when the handler
\* may fail to start or return on its own, whenever the pipe holds more messages
\* than the application sends commands, replies are collected and no wait is
\* interrupted.
THEOREM DestroySynchronized ==
  ASSUME Collects, ~MayInterrupt, MaxSends < Capacity
  PROVE  Spec => []DestroySynchronizes
<1>1. Init => SyncInv
  BY StopAssumption, BoundsAssumption
  DEF Init, SyncInv, TypeOK, StartInv, EndsInv, OwedInv, NoneInv, OneInv, RoomInv,
      StopInv, Live, InDown, InUp, Sending, Handling
<1>2. SyncInv /\ [Next]_vars => SyncInv'
  BY SyncStep
<1>3. SyncInv => DestroySynchronizes
  BY DEF SyncInv, StopInv, DestroySynchronizes
<1> QED
  BY <1>1, <1>2, <1>3, PTL DEF Spec

-----------------------------------------------------------------------------
(***************************************************************************)
(* Why no command is lost.  The stop word is the last message the          *)
(* application sends, and the commands sent are the ones finished, the one *)
(* being handled, the ones queued and the one being sent.                  *)
(***************************************************************************)
Ended == act \in {"returned", "signalled", "gone"}
StopQueued == down # <<>> /\ down[Len(down)] \in StopWords

CountInv ==
    /\ TypeOK
    /\ app = "none" => act = "none"
    /\ \A i \in 1..Len(down) : down[i] \in StopWords =>
            i = Len(down) /\ app \in {"wait_exit", "closing", "gone"}
    /\ reason = "stop" => Ended /\ handled = sends /\ app \in {"wait_exit", "closing", "gone"}
    /\ ~Ended =>
        handled + Len(down) + (IF app = "sending" THEN 1 ELSE 0)
                + (IF act = "handling" /\ cmd # "event" THEN 1 ELSE 0)
            = sends + (IF StopQueued THEN 1 ELSE 0)

\* Each step keeps the count, and only a step that reads the stop word sets the reason.
LEMMA CountStep ==
  ASSUME CountInv, [Next]_vars
  PROVE  CountInv'
<1>0. TypeOK'
  BY TypeStep DEF CountInv
<1> USE <1>0, StopAssumption, BoundsAssumption DEF CountInv, TypeOK, Ended, StopQueued
<1>1. CASE zactor_new
  BY <1>1 DEF zactor_new
<1>2. CASE zactor_set_destructor
  BY <1>2 DEF zactor_set_destructor
<1>3. CASE zactor_send
  BY <1>3 DEF zactor_send
<1>4. CASE zactor_send_done
  BY <1>4 DEF zactor_send_done
<1>5. CASE zactor_recv
  BY <1>5 DEF zactor_recv
<1>6. CASE app_wait
  BY <1>6 DEF app_wait
<1>7. CASE zsock_wait
  <2>1. app \in {"wait_init", "waiting", "wait_exit"}
    BY <1>7 DEF zsock_wait, AfterWait
  <2>2. app' \in {app, "running", "closing"} /\ (app = "wait_exit" => app' \in {app, "closing"})
    BY <1>7, <2>1 DEF zsock_wait, AfterWait
  <2>3. UNCHANGED <<act, down, cmd, sends, handled, reason>>
    BY <1>7 DEF zsock_wait
  <2> QED
    BY <2>1, <2>2, <2>3
<1>8. CASE zsock_wait_interrupted
  <2>1. app \in {"wait_init", "waiting", "wait_exit"}
    BY <1>8 DEF zsock_wait_interrupted, AfterWait
  <2>2. app' \in {"running", "closing"} /\ (app = "wait_exit" => app' = "closing")
    BY <1>8, <2>1 DEF zsock_wait_interrupted, AfterWait
  <2>3. UNCHANGED <<act, down, cmd, sends, handled, reason>>
    BY <1>8 DEF zsock_wait_interrupted
  <2> QED
    BY <2>1, <2>2, <2>3
<1>9. CASE zactor_destroy
  BY <1>9 DEF zactor_destroy
<1>10. CASE s_zactor_destructor
  <2>1. CASE down' = Append(down, destructor) /\ app' = "wait_exit"
    <3>1. ~StopQueued /\ reason # "stop" /\ UNCHANGED <<act, cmd, sends, handled, reason>>
      BY <1>10 DEF s_zactor_destructor
    <3>2. StopQueued' /\ Len(down') = Len(down) + 1
      BY <2>1
    <3> QED
      BY <1>10, <2>1, <3>1, <3>2 DEF s_zactor_destructor
  <2>2. CASE down' = down /\ app' = "closing"
    BY <1>10, <2>2 DEF s_zactor_destructor
  <2> QED
    BY <1>10, <2>1, <2>2 DEF s_zactor_destructor
<1>11. CASE zactor_destroy_done
  BY <1>11 DEF zactor_destroy_done
<1>12. CASE handler_init
  BY <1>12 DEF handler_init
<1>13. CASE handler_recv
  <2>1. /\ act = "loop" /\ down # <<>> /\ Len(down) >= 1
        /\ Len(down') = Len(down) - 1
        /\ \A i \in 1..Len(down') : down'[i] = down[i + 1]
    BY <1>13 DEF handler_recv
  <2>2. CASE Head(down) \in StopWords
    <3>1. Len(down) = 1 /\ StopQueued /\ app \in {"wait_exit", "closing", "gone"}
      BY <2>1, <2>2
    <3> QED
      BY <1>13, <2>1, <2>2, <3>1 DEF handler_recv
  <2>3. CASE Head(down) \notin StopWords
    <3>1. act' = "handling" /\ cmd' # "event" /\ UNCHANGED <<app, sends, handled, reason>>
      BY <1>13, <2>3 DEF handler_recv
    <3>2. CASE Len(down) = 1
      <4>1. ~StopQueued /\ ~StopQueued' /\ Len(down') = 0
        BY <2>1, <2>3, <3>2
      <4> QED
        BY <2>1, <3>1, <3>2, <4>1
    <3>3. CASE Len(down) > 1
      <4>1. Len(down') # 0 /\ down'[Len(down')] = down[Len(down)]
        BY <2>1, <3>3
      <4>2. StopQueued' <=> StopQueued
        BY <2>1, <4>1
      <4>3. \A i \in 1..Len(down') : down'[i] \in StopWords =>
                i = Len(down') /\ app' \in {"wait_exit", "closing", "gone"}
        <5> SUFFICES ASSUME NEW i \in 1..Len(down'), down'[i] \in StopWords
                     PROVE  i = Len(down') /\ app' \in {"wait_exit", "closing", "gone"}
          OBVIOUS
        <5>1. i + 1 \in 1..Len(down) /\ down[i + 1] \in StopWords
          BY <2>1
        <5> QED
          BY <2>1, <3>1, <5>1
      <4> QED
        BY <2>1, <3>1, <4>2, <4>3
    <3> QED
      BY <2>1, <3>2, <3>3
  <2> QED
    BY <2>2, <2>3
<1>14. CASE handler_reply
  <2>1. /\ act = "handling" /\ act' = "loop"
        /\ handled' = IF cmd = "event" THEN handled ELSE handled + 1
        /\ UNCHANGED <<app, down, cmd, sends, reason>>
    BY <1>14 DEF handler_reply
  <2>2. StopQueued' <=> StopQueued
    BY <2>1
  <2>3. ~Ended /\ ~Ended'
    BY <2>1
  <2>4. CASE cmd = "event"
    BY <2>1, <2>2, <2>3, <2>4
  <2>5. CASE cmd # "event"
    BY <2>1, <2>2, <2>3, <2>5
  <2> QED
    BY <2>4, <2>5
<1>15. CASE handler_event
  BY <1>15 DEF handler_event
<1>16. CASE handler_quit
  BY <1>16 DEF handler_quit
<1>17. CASE s_thread_shim_signal
  BY <1>17 DEF s_thread_shim_signal
<1>18. CASE s_thread_shim_done
  BY <1>18 DEF s_thread_shim_done
<1>19. CASE Terminated
  BY <1>19 DEF Terminated, vars
<1>20. CASE UNCHANGED vars
  BY <1>20 DEF vars
<1> QED
  BY <1>1, <1>2, <1>3, <1>4, <1>5, <1>6, <1>7, <1>8, <1>9, <1>10, <1>11, <1>12, <1>13, <1>14, <1>15, <1>16, <1>17, <1>18, <1>19, <1>20 DEF Next

\* A handler that is stopped by its destructor has finished every command sent
\* to it, whatever the pipe holds, even if the destructor was interrupted and even
\* if the handler may fail to start or return on its own.
THEOREM CommandsAreFinished == Spec => []CommandsFinished
<1>1. Init => CountInv
  BY StopAssumption, BoundsAssumption DEF Init, CountInv, TypeOK, Ended, StopQueued
<1>2. CountInv /\ [Next]_vars => CountInv'
  BY CountStep
<1>3. CountInv => CommandsFinished
  BY DEF CountInv, Ended, CommandsFinished
<1> QED
  BY <1>1, <1>2, <1>3, PTL DEF Spec
=============================================================================
