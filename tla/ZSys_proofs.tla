---------------------------- MODULE ZSys_proofs ----------------------------
(***************************************************************************)
(* The counter of open sockets is exact, the list of tracked sockets is    *)
(* complete and zmq_term never waits for a forgotten socket, for any       *)
(* number of threads and of sockets.                                       *)
(***************************************************************************)
EXTENDS ZSys, FiniteSetTheorems, TLAPS

USE DEF Goto, Return, At, NULL, ShutdownSteps, InitSteps

\* Who holds which mutex, and what the flags say of where the threads are.
Control ==
    /\ \A t \in Threads : s_mutex = t <=> pc[t] = "close"
    /\ \A t \in Threads : s_init_mutex = t <=> pc[t] \in {"init_create", "init_publish"}
    /\ s_shutting_down <=> pc[Main] \in ShutdownSteps
    /\ \A t \in Threads : t # Main => pc[t] \notin ShutdownSteps
    /\ \A t \in Threads : pc[t] \in InitSteps => ~s_shutting_down
    /\ s_shutting_down => s_initialized
    /\ \A t \in Threads : pc[t] = "ready" => s_initialized
    /\ \A t \in Threads : pc[t] \in {"init_create", "init_publish"} => ~s_initialized

\* The context: there is one while zsys counts as initialised, and no socket without one.
Context ==
    /\ s_initialized /\ pc[Main] # "shut_end" => s_process_ctx # NULL
    /\ s_process_ctx = NULL => open = {}
    /\ \A t \in Threads : pc[t] = "init_publish" =>
            s_process_ctx # NULL /\ open = {} /\ s_sockref_list = [live |-> TRUE, handles |-> {}]
    /\ pc[Main] = "shut_end" /\ s_process_ctx # NULL => dangled
    /\ ~s_initialized /\ s_process_ctx # NULL =>
            dangled \/ \E t \in Threads : pc[t] = "init_publish"

\* The sockets: each open one has been created, is the log sender or not, and one that is
\* being closed is open until then.
Sockets ==
    /\ open \subseteq 1..created /\ tracked \subseteq 1..created
    /\ \A t \in Threads : owned[t] \subseteq 1..created /\ s_logsender \notin owned[t]
    /\ s_logsender # NULL => s_logsender \in open
    /\ \A t \in Threads : pc[t] = "close" => handle[t] \in open /\ handle[t] # s_logsender
    /\ s_shutting_down => s_logsender = NULL

\* The list lives until zsys_shutdown has closed what it holds.
Listed ==
    /\ s_initialized /\ pc[Main] \notin {"shut_log", "shut_check", "shut_term", "shut_end"}
            => s_sockref_list.live
    /\ ListIsTracked

\* A remainder is one of the values of size_t.
LEMMA Wraps == ASSUME NEW n \in Int PROVE n % SizeMax \in 0..(SizeMax - 1)
BY SizeAssumption

\* A value of size_t is its own remainder.
LEMMA Fits == ASSUME NEW n \in Int, 0 <= n, n < SizeMax PROVE n % SizeMax = n
BY SizeAssumption

\* Sets of handles are finite.
LEMMA HandlesFinite ==
    ASSUME NEW S, S \subseteq Handles
    PROVE  IsFiniteSet(S) /\ Cardinality(S) \in Nat
<1>1. IsFiniteSet(Handles)
  BY FS_Interval, SizeAssumption DEF Handles
<1>2. IsFiniteSet(S)
  BY <1>1, FS_Subset
<1> QED
  BY <1>2, FS_CardinalityType

-----------------------------------------------------------------------------
\* Each step keeps every variable in its type.
LEMMA TypeStep == TypeOK /\ [Next]_vars => TypeOK'
<1> SUFFICES ASSUME TypeOK, [Next]_vars PROVE TypeOK'
  OBVIOUS
<1> USE SizeAssumption, ThreadsAssumption DEF TypeOK, Handles, flags, tables, history
<1>1. ASSUME NEW t \in Threads, NEW why \in {"init", "socket", "logsender"}, zsys_init(t, why)
      PROVE  TypeOK'
  BY <1>1 DEF zsys_init
<1>2. ASSUME NEW t \in Threads, zsys_init_lock(t) PROVE TypeOK'
  BY <1>2 DEF zsys_init_lock
<1>3. ASSUME NEW t \in Threads, zsys_init_create(t) PROVE TypeOK'
  BY <1>3 DEF zsys_init_create
<1>4. ASSUME NEW t \in Threads, zsys_init_publish(t) PROVE TypeOK'
  BY <1>4 DEF zsys_init_publish
<1>5. ASSUME NEW t \in Threads, zsys_init_done(t) PROVE TypeOK'
  BY <1>5 DEF zsys_init_done
<1>6. ASSUME NEW t \in Threads, zsys_set_logsender(t) PROVE TypeOK'
  BY <1>6, Wraps DEF zsys_set_logsender, Create, Plus
<1>7. ASSUME NEW t \in Threads, out_of_sockets(t) PROVE TypeOK'
  BY <1>7 DEF out_of_sockets
<1>8. ASSUME NEW t \in Threads, NEW filename \in BOOLEAN, zsys_socket(t, filename) PROVE TypeOK'
  BY <1>8, Wraps DEF zsys_socket, Create, Plus
<1>9. ASSUME NEW t \in Threads, NEW h \in Handles, zsys_close(t, h) PROVE TypeOK'
  BY <1>9, Wraps DEF zsys_close, Forget, Plus
<1>10. ASSUME NEW t \in Threads, zsys_close_done(t) PROVE TypeOK'
  BY <1>10 DEF zsys_close_done
<1>11. CASE zsys_unset_logsender
  BY <1>11, Wraps DEF zsys_unset_logsender, Forget, Plus
<1>12. CASE zsys_shutdown
  BY <1>12 DEF zsys_shutdown
<1>13. CASE zsys_shutdown_busy
  BY <1>13 DEF zsys_shutdown_busy
<1>14. CASE zsys_shutdown_close
  <2>1. Cardinality(s_sockref_list.handles) \in Nat
    BY HandlesFinite
  <2>2. s_open_sockets' \in 0..(SizeMax - 1)
    BY <1>14, <2>1, Wraps DEF zsys_shutdown_close, Plus
  <2> QED
    BY <1>14, <2>2 DEF zsys_shutdown_close
<1>15. CASE zsys_shutdown_log
  <2>1. /\ s_open_sockets' \in 0..(SizeMax - 1)
        /\ open' \subseteq Handles
        /\ s_logsender' \in Handles \cup {NULL}
    <3>1. CASE s_logsender = NULL
      BY <1>15, <3>1 DEF zsys_shutdown_log
    <3>2. CASE s_logsender # NULL
      <4>1. s_open_sockets' = (s_open_sockets + -1) % SizeMax /\ s_logsender' = 0
            /\ open' = open \ {s_logsender}
        BY <1>15, <3>2, Zenon DEF zsys_shutdown_log, Plus
      <4>2. s_open_sockets + -1 \in Int
        OBVIOUS
      <4> QED
        BY <4>1, <4>2, Wraps
    <3> QED
      BY <3>1, <3>2
  <2> QED
    BY <1>15, <2>1 DEF zsys_shutdown_log
<1>16. CASE zsys_shutdown_check
  BY <1>16 DEF zsys_shutdown_check
<1>17. CASE zsys_shutdown_term
  BY <1>17 DEF zsys_shutdown_term
<1>18. CASE zsys_shutdown_end
  BY <1>18 DEF zsys_shutdown_end
<1>19. CASE zsys_pthread_at_fork_handler
  <2>1. pc' \in [Threads -> {"idle", "close", "gone"} \cup InitSteps \cup ShutdownSteps]
    BY <1>19 DEF zsys_pthread_at_fork_handler
  <2>2. s_open_sockets' \in 0..(SizeMax - 1)
    BY <1>19 DEF zsys_pthread_at_fork_handler
  <2>3. handle' \in [Threads -> Handles \cup {NULL}] /\ owned' \in [Threads -> SUBSET Handles]
    BY <1>19 DEF zsys_pthread_at_fork_handler
  <2>4. forks' \in 0..1
    BY <1>19 DEF zsys_pthread_at_fork_handler
  <2>5. s_initialized' \in BOOLEAN /\ s_shutting_down' \in BOOLEAN /\ dangled' \in BOOLEAN
        /\ aborted' \in BOOLEAN
    BY <1>19, Zenon DEF zsys_pthread_at_fork_handler
  <2>6. UNCHANGED <<s_sockref_list, after, tracked, created>> /\ open' = {}
        /\ s_process_ctx' = NULL /\ s_logsender' = NULL /\ Mutexes_anew
    BY <1>19 DEF zsys_pthread_at_fork_handler
  <2> QED
    BY <2>1, <2>2, <2>3, <2>4, <2>5, <2>6 DEF Mutexes_anew
<1>20. CASE UNCHANGED vars
  BY <1>20 DEF vars
<1> HIDE DEF TypeOK, Handles, flags, tables, history
<1>21. ASSUME NEW t \in Threads, init_step(t) PROVE TypeOK'
  BY <1>2, <1>3, <1>4, <1>5, <1>6, <1>7, <1>8, <1>21, Zenon DEF init_step
<1>22. CASE shutdown_step
  BY <1>13, <1>14, <1>15, <1>16, <1>17, <1>18, <1>22, Zenon DEF shutdown_step
<1> QED
  BY <1>1, <1>9, <1>10, <1>11, <1>12, <1>19, <1>20, <1>21, <1>22, Zenon DEF Next
-----------------------------------------------------------------------------
\* Each step keeps the mutexes and the flags in line with the threads.
LEMMA ControlStep == TypeOK /\ Control /\ [Next]_vars => Control'
<1> SUFFICES ASSUME TypeOK, Control, [Next]_vars PROVE Control'
  OBVIOUS
<1> USE ThreadsAssumption DEF TypeOK, Control, flags
<1>1. ASSUME NEW t \in Threads, NEW why \in {"init", "socket", "logsender"}, zsys_init(t, why)
      PROVE  Control'
  BY <1>1 DEF zsys_init
<1>2. ASSUME NEW t \in Threads, zsys_init_lock(t) PROVE Control'
  BY <1>2 DEF zsys_init_lock
<1>3. ASSUME NEW t \in Threads, zsys_init_create(t) PROVE Control'
  BY <1>3 DEF zsys_init_create
<1>4. ASSUME NEW t \in Threads, zsys_init_publish(t) PROVE Control'
  BY <1>4 DEF zsys_init_publish
<1>5. ASSUME NEW t \in Threads, zsys_init_done(t) PROVE Control'
  BY <1>5 DEF zsys_init_done
<1>6. ASSUME NEW t \in Threads, zsys_set_logsender(t) PROVE Control'
  BY <1>6 DEF zsys_set_logsender
<1>7. ASSUME NEW t \in Threads, out_of_sockets(t) PROVE Control'
  BY <1>7 DEF out_of_sockets
<1>8. ASSUME NEW t \in Threads, NEW filename \in BOOLEAN, zsys_socket(t, filename) PROVE Control'
  BY <1>8 DEF zsys_socket
<1>9. ASSUME NEW t \in Threads, NEW h \in Handles, zsys_close(t, h) PROVE Control'
  BY <1>9 DEF zsys_close
<1>10. ASSUME NEW t \in Threads, zsys_close_done(t) PROVE Control'
  BY <1>10 DEF zsys_close_done
<1>11. CASE zsys_unset_logsender
  BY <1>11 DEF zsys_unset_logsender
<1>12. CASE zsys_shutdown
  BY <1>12 DEF zsys_shutdown
<1>13. CASE zsys_shutdown_busy
  BY <1>13 DEF zsys_shutdown_busy
<1>14. CASE zsys_shutdown_close
  BY <1>14 DEF zsys_shutdown_close
<1>15. CASE zsys_shutdown_log
  BY <1>15 DEF zsys_shutdown_log
<1>16. CASE zsys_shutdown_check
  BY <1>16 DEF zsys_shutdown_check
<1>17. CASE zsys_shutdown_term
  BY <1>17 DEF zsys_shutdown_term
<1>18. CASE zsys_shutdown_end
  BY <1>18 DEF zsys_shutdown_end
<1>19. CASE zsys_pthread_at_fork_handler
  BY <1>19 DEF zsys_pthread_at_fork_handler, Mutexes_anew
<1>20. CASE UNCHANGED vars
  BY <1>20 DEF vars
<1> HIDE DEF TypeOK, Control, flags
<1>21. ASSUME NEW t \in Threads, init_step(t) PROVE Control'
  BY <1>2, <1>3, <1>4, <1>5, <1>6, <1>7, <1>8, <1>21, Zenon DEF init_step
<1>22. CASE shutdown_step
  BY <1>13, <1>14, <1>15, <1>16, <1>17, <1>18, <1>22, Zenon DEF shutdown_step
<1> QED
  BY <1>1, <1>9, <1>10, <1>11, <1>12, <1>19, <1>20, <1>21, <1>22, Zenon DEF Next

-----------------------------------------------------------------------------
\* No thread is closing while s_mutex is free.
LEMMA NoneClosing ==
    ASSUME TypeOK, Control, s_mutex = NoThread PROVE Closing = {}
BY ThreadsAssumption DEF Closing, Control

\* A thread that is closing is the only one.
LEMMA OneClosing ==
    ASSUME TypeOK, Control, NEW t \in Threads, pc[t] = "close" PROVE Closing = {handle[t]}
BY DEF Closing, Control

\* A step that moves no thread in or out of zmq_close changes nothing here.
LEMMA SameClosing ==
    ASSUME \A t \in Threads : /\ pc'[t] = "close" <=> pc[t] = "close"
                              /\ pc[t] = "close" => handle'[t] = handle[t]
    PROVE  Closing' = Closing
BY DEF Closing

\* No socket is lost or taken by two: each step keeps the facts about handles.
LEMMA SocketsStep ==
    ASSUME ~LateClose, ~KeepsLogsender, TypeOK, Control, Context, Sockets, [Next]_vars
    PROVE  Sockets'
<1> USE ThreadsAssumption DEF TypeOK, Control, Context, Sockets, Handles, flags, tables, history
<1>1. ASSUME NEW t \in Threads, NEW why \in {"init", "socket", "logsender"}, zsys_init(t, why)
      PROVE  Sockets'
  BY <1>1 DEF zsys_init
<1>2. ASSUME NEW t \in Threads, zsys_init_lock(t) PROVE Sockets'
  BY <1>2 DEF zsys_init_lock
<1>3. ASSUME NEW t \in Threads, zsys_init_create(t) PROVE Sockets'
  BY <1>3 DEF zsys_init_create
<1>4. ASSUME NEW t \in Threads, zsys_init_publish(t) PROVE Sockets'
  BY <1>4 DEF zsys_init_publish
<1>5. ASSUME NEW t \in Threads, zsys_init_done(t) PROVE Sockets'
  BY <1>5 DEF zsys_init_done
<1>6. ASSUME NEW t \in Threads, zsys_set_logsender(t) PROVE Sockets'
  BY <1>6 DEF zsys_set_logsender, Create
<1>7. ASSUME NEW t \in Threads, out_of_sockets(t) PROVE Sockets'
  BY <1>7 DEF out_of_sockets
<1>8. ASSUME NEW t \in Threads, NEW filename \in BOOLEAN, zsys_socket(t, filename)
      PROVE  Sockets'
  BY <1>8 DEF zsys_socket, Create
<1>9. ASSUME NEW t \in Threads, NEW h \in Handles, zsys_close(t, h)
      PROVE  Sockets'
  BY <1>9 DEF zsys_close, Forget
<1>10. ASSUME NEW t \in Threads, zsys_close_done(t) PROVE Sockets'
  BY <1>10 DEF zsys_close_done
<1>11. CASE zsys_unset_logsender
  BY <1>11 DEF zsys_unset_logsender, Forget
<1>12. CASE zsys_shutdown
  BY <1>12 DEF zsys_shutdown
<1>13. CASE zsys_shutdown_busy
  BY <1>13 DEF zsys_shutdown_busy
<1>14. CASE zsys_shutdown_close
  BY <1>14 DEF zsys_shutdown_close
<1>15. CASE zsys_shutdown_log
  <2>1. s_logsender = NULL
    BY <1>15 DEF zsys_shutdown_log
  <2>2. UNCHANGED <<s_open_sockets, open, s_logsender>>
    BY <1>15, <2>1 DEF zsys_shutdown_log
  <2> QED
    BY <1>15, <2>2 DEF zsys_shutdown_log
<1>16. CASE zsys_shutdown_check
  BY <1>16 DEF zsys_shutdown_check
<1>17. CASE zsys_shutdown_term
  BY <1>17 DEF zsys_shutdown_term
<1>18. CASE zsys_shutdown_end
  BY <1>18 DEF zsys_shutdown_end
<1>19. CASE zsys_pthread_at_fork_handler
  BY <1>19 DEF zsys_pthread_at_fork_handler, Mutexes_anew
<1>20. CASE UNCHANGED vars
  BY <1>20 DEF vars
<1> HIDE DEF TypeOK, Control, Context, Sockets, Handles, flags, tables, history
<1>21. ASSUME NEW t \in Threads, init_step(t) PROVE Sockets'
  BY <1>2, <1>3, <1>4, <1>5, <1>6, <1>7, <1>8, <1>21, Zenon DEF init_step
<1>22. CASE shutdown_step
  BY <1>13, <1>14, <1>15, <1>16, <1>17, <1>18, <1>22, Zenon DEF shutdown_step
<1> QED
  BY <1>1, <1>9, <1>10, <1>11, <1>12, <1>19, <1>20, <1>21, <1>22, Zenon DEF Next

\* The context comes and goes with the sockets.
LEMMA ContextStep ==
    ASSUME ~LateClose, ~KeepsLogsender, TypeOK, Control, Context, Sockets, CounterExact, [Next]_vars
    PROVE  Context'
<1> USE ThreadsAssumption DEF TypeOK, Control, Context, Sockets, Handles, flags, tables, history
<1>1. ASSUME NEW t \in Threads, NEW why \in {"init", "socket", "logsender"}, zsys_init(t, why)
      PROVE  Context'
  BY <1>1 DEF zsys_init
<1>2. ASSUME NEW t \in Threads, zsys_init_lock(t) PROVE Context'
  BY <1>2 DEF zsys_init_lock
<1>3. ASSUME NEW t \in Threads, zsys_init_create(t) PROVE Context'
  BY <1>3 DEF zsys_init_create
<1>4. ASSUME NEW t \in Threads, zsys_init_publish(t) PROVE Context'
  BY <1>4 DEF zsys_init_publish
<1>5. ASSUME NEW t \in Threads, zsys_init_done(t) PROVE Context'
  BY <1>5 DEF zsys_init_done
<1>6. ASSUME NEW t \in Threads, zsys_set_logsender(t) PROVE Context'
  BY <1>6 DEF zsys_set_logsender, Create
<1>7. ASSUME NEW t \in Threads, out_of_sockets(t) PROVE Context'
  BY <1>7 DEF out_of_sockets
<1>8. ASSUME NEW t \in Threads, NEW filename \in BOOLEAN, zsys_socket(t, filename)
      PROVE  Context'
  BY <1>8 DEF zsys_socket, Create
<1>9. ASSUME NEW t \in Threads, NEW h \in Handles, zsys_close(t, h)
      PROVE  Context'
  BY <1>9 DEF zsys_close, Forget
<1>10. ASSUME NEW t \in Threads, zsys_close_done(t) PROVE Context'
  BY <1>10 DEF zsys_close_done
<1>11. CASE zsys_unset_logsender
  BY <1>11 DEF zsys_unset_logsender, Forget
<1>12. CASE zsys_shutdown
  BY <1>12 DEF zsys_shutdown
<1>13. CASE zsys_shutdown_busy
  BY <1>13 DEF zsys_shutdown_busy
<1>14. CASE zsys_shutdown_close
  BY <1>14 DEF zsys_shutdown_close
<1>15. CASE zsys_shutdown_log
  <2>1. s_logsender = NULL
    BY <1>15 DEF zsys_shutdown_log
  <2>2. UNCHANGED <<s_open_sockets, open, s_logsender>>
    BY <1>15, <2>1 DEF zsys_shutdown_log
  <2> QED
    BY <1>15, <2>2 DEF zsys_shutdown_log
<1>16. CASE zsys_shutdown_check
  <2>1. s_open_sockets # 0 => open \ Closing # {}
    BY FS_EmptySet DEF CounterExact
  <2>2. s_open_sockets # 0 => dangled'
    BY <1>16, <2>1 DEF zsys_shutdown_check
  <2>3. dangled => dangled'
    BY <1>16 DEF zsys_shutdown_check
  <2> QED
    BY <1>16, <2>2, <2>3 DEF zsys_shutdown_check
<1>17. CASE zsys_shutdown_term
  BY <1>17 DEF zsys_shutdown_term
<1>18. CASE zsys_shutdown_end
  BY <1>18 DEF zsys_shutdown_end
<1>19. CASE zsys_pthread_at_fork_handler
  BY <1>19 DEF zsys_pthread_at_fork_handler, Mutexes_anew
<1>20. CASE UNCHANGED vars
  BY <1>20 DEF vars
<1> HIDE DEF TypeOK, Control, Context, Sockets, Handles, flags, tables, history
<1>21. ASSUME NEW t \in Threads, init_step(t) PROVE Context'
  BY <1>2, <1>3, <1>4, <1>5, <1>6, <1>7, <1>8, <1>21, Zenon DEF init_step
<1>22. CASE shutdown_step
  BY <1>13, <1>14, <1>15, <1>16, <1>17, <1>18, <1>22, Zenon DEF shutdown_step
<1> QED
  BY <1>1, <1>9, <1>10, <1>11, <1>12, <1>19, <1>20, <1>21, <1>22, Zenon DEF Next

-----------------------------------------------------------------------------
\* No more sockets are open than were created.
LEMMA OpenBound ==
    ASSUME TypeOK, Sockets PROVE Cardinality(open) \in Nat /\ Cardinality(open) <= created
<1>1. IsFiniteSet(1..created) /\ Cardinality(1..created) = created
  BY FS_Interval, SizeAssumption DEF TypeOK
<1> QED
  BY <1>1, FS_Subset, FS_CardinalityType DEF Sockets

\* Counting a socket out takes one off the counter, without wrapping.
LEMMA CountedOut ==
    ASSUME TypeOK, Sockets, CounterExact, Closing = {}, NEW h \in open
    PROVE  (s_open_sockets + -1) % SizeMax = Cardinality(open \ {h})
<1>1. IsFiniteSet(open) /\ Cardinality(open) \in Nat /\ Cardinality(open \ {h}) \in Nat
  BY HandlesFinite DEF TypeOK
<1>2. Cardinality(open \ {h}) = Cardinality(open) - 1
  BY <1>1, FS_RemoveElement
<1>3. s_open_sockets = Cardinality(open)
  BY DEF CounterExact
<1>4. s_open_sockets + -1 = Cardinality(open \ {h})
  BY <1>1, <1>2, <1>3
<1>5. Cardinality(open \ {h}) < SizeMax
  BY <1>1, <1>2, <1>3, SizeAssumption DEF TypeOK
<1> QED
  BY <1>1, <1>4, <1>5, Fits

\* The counter follows every creation and every close.
LEMMA CounterStep ==
    ASSUME ~LateClose, ~KeepsLogsender, TypeOK, Control, Sockets, Listed, CounterExact, [Next]_vars
    PROVE  CounterExact'
<1> USE ThreadsAssumption DEF TypeOK, Control, Sockets, Handles, flags, tables, history
<1>0. ASSUME s_open_sockets' = s_open_sockets, open' = open, Closing' = Closing PROVE CounterExact'
  BY <1>0 DEF CounterExact
<1>1. ASSUME NEW t \in Threads, NEW why \in {"init", "socket", "logsender"}, zsys_init(t, why)
      PROVE  CounterExact'
  BY <1>1, <1>0, SameClosing DEF zsys_init
<1>2. ASSUME NEW t \in Threads, zsys_init_lock(t) PROVE CounterExact'
  BY <1>2, <1>0, SameClosing DEF zsys_init_lock
<1>3. ASSUME NEW t \in Threads, zsys_init_create(t) PROVE CounterExact'
  BY <1>3, <1>0, SameClosing DEF zsys_init_create
<1>4. ASSUME NEW t \in Threads, zsys_init_publish(t) PROVE CounterExact'
  BY <1>4, <1>0, SameClosing DEF zsys_init_publish
<1>5. ASSUME NEW t \in Threads, zsys_init_done(t) PROVE CounterExact'
  BY <1>5, <1>0, SameClosing DEF zsys_init_done
<1>6. ASSUME NEW t \in Threads, zsys_set_logsender(t) PROVE CounterExact'
  <2>1. Closing = {} /\ Closing' = {}
    BY <1>6, NoneClosing DEF zsys_set_logsender, Closing
  <2>2. Cardinality(open) <= created /\ s_open_sockets = Cardinality(open)
    BY <2>1, OpenBound DEF CounterExact
  <2>3. created + 1 \notin open
    OBVIOUS
  <2>4. open' = open \cup {created + 1} /\ s_open_sockets' = (s_open_sockets + 1) % SizeMax
    BY <1>6 DEF zsys_set_logsender, Create, Plus
  <2>5. created < MaxSockets
    BY <1>6 DEF zsys_set_logsender
  <2>6. s_open_sockets' = s_open_sockets + 1
    BY <2>2, <2>4, <2>5, Fits, SizeAssumption
  <2>7. Cardinality(open') = Cardinality(open) + 1
    BY <2>3, <2>4, HandlesFinite, FS_AddElement
  <2> QED
    BY <2>1, <2>2, <2>6, <2>7 DEF CounterExact
<1>7. ASSUME NEW t \in Threads, out_of_sockets(t) PROVE CounterExact'
  BY <1>7, <1>0, SameClosing DEF out_of_sockets
<1>8. ASSUME NEW t \in Threads, NEW filename \in BOOLEAN, zsys_socket(t, filename)
      PROVE  CounterExact'
  <2>1. Closing = {} /\ Closing' = {}
    BY <1>8, NoneClosing DEF zsys_socket, Closing
  <2>2. Cardinality(open) <= created /\ s_open_sockets = Cardinality(open)
    BY <2>1, OpenBound DEF CounterExact
  <2>3. created + 1 \notin open
    OBVIOUS
  <2>4. open' = open \cup {created + 1} /\ s_open_sockets' = (s_open_sockets + 1) % SizeMax
    BY <1>8 DEF zsys_socket, Create, Plus
  <2>5. created < MaxSockets
    BY <1>8 DEF zsys_socket
  <2>6. s_open_sockets' = s_open_sockets + 1
    BY <2>2, <2>4, <2>5, Fits, SizeAssumption
  <2>7. Cardinality(open') = Cardinality(open) + 1
    BY <2>3, <2>4, HandlesFinite, FS_AddElement
  <2> QED
    BY <2>1, <2>2, <2>6, <2>7 DEF CounterExact
<1>9. ASSUME NEW t \in Threads, NEW h \in Handles, zsys_close(t, h) PROVE CounterExact'
  <2>1. Closing = {} /\ Closing' = {h}
    BY <1>9, NoneClosing DEF zsys_close, Closing
  <2>2. h \in open /\ open' = open
    BY <1>9 DEF zsys_close
  <2>3. s_open_sockets' = (s_open_sockets + -1) % SizeMax
    BY <1>9 DEF zsys_close, Plus
  <2> QED
    BY <2>1, <2>2, <2>3, CountedOut DEF CounterExact
<1>10. ASSUME NEW t \in Threads, zsys_close_done(t) PROVE CounterExact'
  <2>1. Closing = {handle[t]} /\ Closing' = {}
    BY <1>10, OneClosing DEF zsys_close_done, Closing
  <2>2. open' = open \ {handle[t]} /\ s_open_sockets' = s_open_sockets
    BY <1>10 DEF zsys_close_done
  <2>3. open' \ Closing' = open \ Closing
    BY <2>1, <2>2
  <2> QED
    BY <2>2, <2>3 DEF CounterExact
<1>11. CASE zsys_unset_logsender
  <2>1. Closing = {} /\ Closing' = {s_logsender}
    BY <1>11, NoneClosing DEF zsys_unset_logsender, Closing
  <2>2. s_logsender \in open /\ open' = open
    BY <1>11 DEF zsys_unset_logsender
  <2>3. s_open_sockets' = (s_open_sockets + -1) % SizeMax
    BY <1>11 DEF zsys_unset_logsender, Plus
  <2> QED
    BY <2>1, <2>2, <2>3, CountedOut DEF CounterExact
<1>12. CASE zsys_shutdown
  BY <1>12, <1>0, SameClosing DEF zsys_shutdown
<1>13. CASE zsys_shutdown_busy
  BY <1>13, <1>0, SameClosing DEF zsys_shutdown_busy
<1>14. CASE zsys_shutdown_close
  <2> DEFINE H == s_sockref_list.handles
  <2>1. Closing = {} /\ Closing' = {}
    BY <1>14, NoneClosing DEF zsys_shutdown_close, Closing
  <2>2. H \subseteq open
    BY <1>14, <2>1 DEF zsys_shutdown_close, Listed, ListIsTracked
  <2>3. open' = open \ H /\ s_open_sockets' = (s_open_sockets + -Cardinality(H)) % SizeMax
    BY <1>14 DEF zsys_shutdown_close, Plus
  <2>4. Cardinality(open \ H) = Cardinality(open) - Cardinality(H)
    <3>1. open \cap H = H
      BY <2>2
    <3>2. IsFiniteSet(open)
      BY HandlesFinite
    <3>3. Cardinality(open \ H) = Cardinality(open) - Cardinality(open \cap H)
      BY <3>2, FS_Difference
    <3> QED
      BY <3>1, <3>3
  <2>5. Cardinality(H) \in Nat /\ Cardinality(open) \in Nat /\ Cardinality(open \ H) \in Nat
    BY <2>2, HandlesFinite
  <2>6. s_open_sockets = Cardinality(open)
    BY <2>1 DEF CounterExact
  <2>7. s_open_sockets' = Cardinality(open \ H)
    <3>1. s_open_sockets + -Cardinality(H) = Cardinality(open \ H)
      BY <2>4, <2>5, <2>6
    <3>2. Cardinality(open \ H) < SizeMax
      BY <2>4, <2>5, <2>6, SizeAssumption
    <3> HIDE DEF H
    <3> QED
      BY <2>3, <2>5, <3>1, <3>2, Fits
  <2> QED
    BY <2>1, <2>3, <2>7 DEF CounterExact
<1>15. CASE zsys_shutdown_log
  <2>1. s_logsender = NULL
    BY <1>15 DEF zsys_shutdown_log
  <2>2. UNCHANGED <<s_open_sockets, open, s_logsender>>
    BY <1>15, <2>1 DEF zsys_shutdown_log
  <2> QED
    BY <1>15, <2>2, <1>0, SameClosing DEF zsys_shutdown_log
<1>16. CASE zsys_shutdown_check
  BY <1>16, <1>0, SameClosing DEF zsys_shutdown_check
<1>17. CASE zsys_shutdown_term
  BY <1>17, <1>0, SameClosing DEF zsys_shutdown_term
<1>18. CASE zsys_shutdown_end
  BY <1>18, <1>0, SameClosing DEF zsys_shutdown_end
<1>19. CASE zsys_pthread_at_fork_handler
  <2>1. open' = {} /\ s_open_sockets' = 0
    BY <1>19 DEF zsys_pthread_at_fork_handler
  <2> QED
    BY <2>1, FS_EmptySet DEF CounterExact
<1>20. CASE UNCHANGED vars
  BY <1>20, <1>0 DEF vars, Closing
<1> HIDE DEF TypeOK, Control, Sockets, Handles, flags, tables, history
<1>21. ASSUME NEW t \in Threads, init_step(t) PROVE CounterExact'
  BY <1>2, <1>3, <1>4, <1>5, <1>6, <1>7, <1>8, <1>21, Zenon DEF init_step
<1>22. CASE shutdown_step
  BY <1>13, <1>14, <1>15, <1>16, <1>17, <1>18, <1>22, Zenon DEF shutdown_step
<1> QED
  BY <1>1, <1>9, <1>10, <1>11, <1>12, <1>19, <1>20, <1>21, <1>22, Zenon DEF Next

\* The list follows the tracked sockets while it lives.
LEMMA ListedStep ==
    ASSUME ~LateClose, ~KeepsLogsender, TypeOK, Control, Context, Sockets, Listed, [Next]_vars
    PROVE  Listed'
<1> USE ThreadsAssumption
    DEF TypeOK, Control, Context, Sockets, Listed, ListIsTracked, Handles, flags, tables, history
<1>1. ASSUME NEW t \in Threads, NEW why \in {"init", "socket", "logsender"}, zsys_init(t, why)
      PROVE  Listed'
  BY <1>1, SameClosing DEF zsys_init
<1>2. ASSUME NEW t \in Threads, zsys_init_lock(t) PROVE Listed'
  BY <1>2, SameClosing DEF zsys_init_lock
<1>3. ASSUME NEW t \in Threads, zsys_init_create(t) PROVE Listed'
  BY <1>3, SameClosing DEF zsys_init_create
<1>4. ASSUME NEW t \in Threads, zsys_init_publish(t) PROVE Listed'
  <2>1. open = {} /\ s_sockref_list = [live |-> TRUE, handles |-> {}]
    BY <1>4 DEF zsys_init_publish
  <2>2. UNCHANGED <<open, s_sockref_list>>
    BY <1>4 DEF zsys_init_publish
  <2> QED
    BY <2>1, <2>2
<1>5. ASSUME NEW t \in Threads, zsys_init_done(t) PROVE Listed'
  BY <1>5, SameClosing DEF zsys_init_done
<1>6. ASSUME NEW t \in Threads, zsys_set_logsender(t) PROVE Listed'
  <2>1. Closing = {} /\ Closing' = {}
    BY <1>6, NoneClosing DEF zsys_set_logsender, Closing
  <2> QED
    BY <1>6, <2>1 DEF zsys_set_logsender, Create
<1>7. ASSUME NEW t \in Threads, out_of_sockets(t) PROVE Listed'
  BY <1>7, SameClosing DEF out_of_sockets
<1>8. ASSUME NEW t \in Threads, NEW filename \in BOOLEAN, zsys_socket(t, filename)
      PROVE  Listed'
  <2>1. Closing = {} /\ Closing' = {}
    BY <1>8, NoneClosing DEF zsys_socket, Closing
  <2>2. s_sockref_list.live /\ s_sockref_list.handles = open \cap tracked
    BY <1>8, <2>1 DEF zsys_socket
  <2>3. CASE filename
    BY <1>8, <2>1, <2>2, <2>3 DEF zsys_socket, Create
  <2>4. CASE ~filename
    <3>1. created + 1 \notin tracked
      OBVIOUS
    <3> QED
      BY <1>8, <2>1, <2>2, <2>4, <3>1 DEF zsys_socket, Create
  <2> QED
    BY <2>3, <2>4
<1>9. ASSUME NEW t \in Threads, NEW h \in Handles, zsys_close(t, h) PROVE Listed'
  <2>1. Closing = {} /\ Closing' = {h}
    BY <1>9, NoneClosing DEF zsys_close, Closing
  <2> QED
    BY <1>9, <2>1 DEF zsys_close, Forget
<1>10. ASSUME NEW t \in Threads, zsys_close_done(t) PROVE Listed'
  <2>1. Closing = {handle[t]} /\ Closing' = {}
    BY <1>10, OneClosing DEF zsys_close_done, Closing
  <2> QED
    BY <1>10, <2>1 DEF zsys_close_done
<1>11. CASE zsys_unset_logsender
  <2>1. Closing = {} /\ Closing' = {s_logsender}
    BY <1>11, NoneClosing DEF zsys_unset_logsender, Closing
  <2> QED
    BY <1>11, <2>1 DEF zsys_unset_logsender, Forget
<1>12. CASE zsys_shutdown
  BY <1>12, SameClosing DEF zsys_shutdown
<1>13. CASE zsys_shutdown_busy
  BY <1>13, SameClosing DEF zsys_shutdown_busy
<1>14. CASE zsys_shutdown_close
  BY <1>14 DEF zsys_shutdown_close
<1>15. CASE zsys_shutdown_log
  <2>1. s_logsender = NULL
    BY <1>15 DEF zsys_shutdown_log
  <2>2. UNCHANGED <<s_open_sockets, open, s_logsender>>
    BY <1>15, <2>1 DEF zsys_shutdown_log
  <2> QED
    BY <1>15, <2>2, SameClosing DEF zsys_shutdown_log
<1>16. CASE zsys_shutdown_check
  BY <1>16, SameClosing DEF zsys_shutdown_check
<1>17. CASE zsys_shutdown_term
  BY <1>17, SameClosing DEF zsys_shutdown_term
<1>18. CASE zsys_shutdown_end
  BY <1>18, SameClosing DEF zsys_shutdown_end
<1>19. CASE zsys_pthread_at_fork_handler
  BY <1>19 DEF zsys_pthread_at_fork_handler, Mutexes_anew
<1>20. CASE UNCHANGED vars
  BY <1>20 DEF vars, Closing
<1> HIDE DEF TypeOK, Control, Context, Sockets, Listed, ListIsTracked, Handles, flags, tables, history
<1>21. ASSUME NEW t \in Threads, init_step(t) PROVE Listed'
  BY <1>2, <1>3, <1>4, <1>5, <1>6, <1>7, <1>8, <1>21, Zenon DEF init_step
<1>22. CASE shutdown_step
  BY <1>13, <1>14, <1>15, <1>16, <1>17, <1>18, <1>22, Zenon DEF shutdown_step
<1> QED
  BY <1>1, <1>9, <1>10, <1>11, <1>12, <1>19, <1>20, <1>21, <1>22, Zenon DEF Next

\* zmq_term is entered with nothing to wait for but a close under way, and stays so.
LEMMA TermStep ==
    ASSUME ~LateClose, ~KeepsLogsender, TypeOK, Control, Sockets, CounterExact, TermNeverHangs,
           [Next]_vars
    PROVE  TermNeverHangs'
<1> USE ThreadsAssumption
    DEF TypeOK, Control, Sockets, TermNeverHangs, Handles, flags, tables, history
<1>1. ASSUME NEW t \in Threads, NEW why \in {"init", "socket", "logsender"}, zsys_init(t, why)
      PROVE  TermNeverHangs'
  BY <1>1, SameClosing DEF zsys_init
<1>2. ASSUME NEW t \in Threads, zsys_init_lock(t) PROVE TermNeverHangs'
  BY <1>2, SameClosing DEF zsys_init_lock
<1>3. ASSUME NEW t \in Threads, zsys_init_create(t) PROVE TermNeverHangs'
  BY <1>3, SameClosing DEF zsys_init_create
<1>4. ASSUME NEW t \in Threads, zsys_init_publish(t) PROVE TermNeverHangs'
  BY <1>4, SameClosing DEF zsys_init_publish
<1>5. ASSUME NEW t \in Threads, zsys_init_done(t) PROVE TermNeverHangs'
  BY <1>5, SameClosing DEF zsys_init_done
<1>6. ASSUME NEW t \in Threads, zsys_set_logsender(t) PROVE TermNeverHangs'
  BY <1>6, SameClosing DEF zsys_set_logsender, Create
<1>7. ASSUME NEW t \in Threads, out_of_sockets(t) PROVE TermNeverHangs'
  BY <1>7, SameClosing DEF out_of_sockets
<1>8. ASSUME NEW t \in Threads, NEW filename \in BOOLEAN, zsys_socket(t, filename)
      PROVE  TermNeverHangs'
  BY <1>8, SameClosing DEF zsys_socket, Create
<1>9. ASSUME NEW t \in Threads, NEW h \in Handles, zsys_close(t, h) PROVE TermNeverHangs'
  <2>1. Closing = {}
    BY <1>9, NoneClosing DEF zsys_close
  <2> QED
    BY <1>9, <2>1 DEF zsys_close
<1>10. ASSUME NEW t \in Threads, zsys_close_done(t) PROVE TermNeverHangs'
  <2>1. Closing = {handle[t]} /\ Closing' = {}
    BY <1>10, OneClosing DEF zsys_close_done, Closing
  <2> QED
    BY <1>10, <2>1 DEF zsys_close_done
<1>11. CASE zsys_unset_logsender
  BY <1>11, SameClosing DEF zsys_unset_logsender, Forget
<1>12. CASE zsys_shutdown
  BY <1>12, SameClosing DEF zsys_shutdown
<1>13. CASE zsys_shutdown_busy
  BY <1>13, SameClosing DEF zsys_shutdown_busy
<1>14. CASE zsys_shutdown_close
  BY <1>14, SameClosing DEF zsys_shutdown_close
<1>15. CASE zsys_shutdown_log
  <2>1. s_logsender = NULL
    BY <1>15 DEF zsys_shutdown_log
  <2>2. UNCHANGED <<s_open_sockets, open, s_logsender>>
    BY <1>15, <2>1 DEF zsys_shutdown_log
  <2> QED
    BY <1>15, <2>2 DEF zsys_shutdown_log
<1>16. CASE zsys_shutdown_check
  <2>1. s_open_sockets = 0 => open \ Closing = {}
    BY HandlesFinite, FS_EmptySet DEF CounterExact
  <2>2. Closing' = Closing
    BY <1>16, SameClosing DEF zsys_shutdown_check
  <2> QED
    BY <1>16, <2>1, <2>2 DEF zsys_shutdown_check
<1>17. CASE zsys_shutdown_term
  BY <1>17, SameClosing DEF zsys_shutdown_term
<1>18. CASE zsys_shutdown_end
  BY <1>18, SameClosing DEF zsys_shutdown_end
<1>19. CASE zsys_pthread_at_fork_handler
  BY <1>19, SameClosing DEF zsys_pthread_at_fork_handler, Mutexes_anew
<1>20. CASE UNCHANGED vars
  BY <1>20 DEF vars, Closing
<1> HIDE DEF TypeOK, Control, Sockets, TermNeverHangs, Handles, flags, tables, history
<1>21. ASSUME NEW t \in Threads, init_step(t) PROVE TermNeverHangs'
  BY <1>2, <1>3, <1>4, <1>5, <1>6, <1>7, <1>8, <1>21, Zenon DEF init_step
<1>22. CASE shutdown_step
  BY <1>13, <1>14, <1>15, <1>16, <1>17, <1>18, <1>22, Zenon DEF shutdown_step
<1> QED
  BY <1>1, <1>9, <1>10, <1>11, <1>12, <1>19, <1>20, <1>21, <1>22, Zenon DEF Next

\* An assertion fails only in a restart with the context of sockets left open.
LEMMA AbortStep ==
    ASSUME TypeOK, Control, Context, Listed, AbortsOnlyIfDangling, [Next]_vars
    PROVE  AbortsOnlyIfDangling'
<1> USE ThreadsAssumption
    DEF TypeOK, Control, Context, Listed, AbortsOnlyIfDangling, flags, tables, history
<1>1. ASSUME NEW t \in Threads, NEW why \in {"init", "socket", "logsender"}, zsys_init(t, why)
      PROVE  AbortsOnlyIfDangling'
  BY <1>1 DEF zsys_init
<1>2. ASSUME NEW t \in Threads, zsys_init_lock(t) PROVE AbortsOnlyIfDangling'
  BY <1>2 DEF zsys_init_lock
<1>3. ASSUME NEW t \in Threads, zsys_init_create(t) PROVE AbortsOnlyIfDangling'
  BY <1>3 DEF zsys_init_create
<1>4. ASSUME NEW t \in Threads, zsys_init_publish(t) PROVE AbortsOnlyIfDangling'
  BY <1>4 DEF zsys_init_publish
<1>5. ASSUME NEW t \in Threads, zsys_init_done(t) PROVE AbortsOnlyIfDangling'
  BY <1>5 DEF zsys_init_done
<1>6. ASSUME NEW t \in Threads, zsys_set_logsender(t) PROVE AbortsOnlyIfDangling'
  <2>1. s_process_ctx # NULL /\ s_sockref_list.live
    BY <1>6 DEF zsys_set_logsender
  <2>2. aborted' = FALSE /\ dangled' = dangled
    BY <1>6, <2>1 DEF zsys_set_logsender, Create
  <2> QED
    BY <2>2
<1>7. ASSUME NEW t \in Threads, out_of_sockets(t) PROVE AbortsOnlyIfDangling'
  BY <1>7 DEF out_of_sockets
<1>8. ASSUME NEW t \in Threads, NEW filename \in BOOLEAN, zsys_socket(t, filename)
      PROVE  AbortsOnlyIfDangling'
  <2>1. s_process_ctx # NULL /\ s_sockref_list.live
    BY <1>8 DEF zsys_socket
  <2>2. aborted' = FALSE /\ dangled' = dangled
    BY <1>8, <2>1 DEF zsys_socket, Create
  <2> QED
    BY <2>2
<1>9. ASSUME NEW t \in Threads, NEW h \in Handles, zsys_close(t, h) PROVE AbortsOnlyIfDangling'
  BY <1>9 DEF zsys_close, Forget
<1>10. ASSUME NEW t \in Threads, zsys_close_done(t) PROVE AbortsOnlyIfDangling'
  BY <1>10 DEF zsys_close_done
<1>11. CASE zsys_unset_logsender
  BY <1>11 DEF zsys_unset_logsender, Forget
<1>12. CASE zsys_shutdown
  BY <1>12 DEF zsys_shutdown
<1>13. CASE zsys_shutdown_busy
  BY <1>13 DEF zsys_shutdown_busy
<1>14. CASE zsys_shutdown_close
  BY <1>14 DEF zsys_shutdown_close
<1>15. CASE zsys_shutdown_log
  BY <1>15 DEF zsys_shutdown_log
<1>16. CASE zsys_shutdown_check
  BY <1>16 DEF zsys_shutdown_check
<1>17. CASE zsys_shutdown_term
  BY <1>17 DEF zsys_shutdown_term
<1>18. CASE zsys_shutdown_end
  BY <1>18 DEF zsys_shutdown_end
<1>19. CASE zsys_pthread_at_fork_handler
  BY <1>19 DEF zsys_pthread_at_fork_handler, Mutexes_anew
<1>20. CASE UNCHANGED vars
  BY <1>20 DEF vars
<1> HIDE DEF TypeOK, Control, Context, Listed, AbortsOnlyIfDangling, flags, tables, history
<1>21. ASSUME NEW t \in Threads, init_step(t) PROVE AbortsOnlyIfDangling'
  BY <1>2, <1>3, <1>4, <1>5, <1>6, <1>7, <1>8, <1>21, Zenon DEF init_step
<1>22. CASE shutdown_step
  BY <1>13, <1>14, <1>15, <1>16, <1>17, <1>18, <1>22, Zenon DEF shutdown_step
<1> QED
  BY <1>1, <1>9, <1>10, <1>11, <1>12, <1>19, <1>20, <1>21, <1>22, Zenon DEF Next

-----------------------------------------------------------------------------
\* The inductive invariant.
Inv ==
    /\ TypeOK /\ Control /\ Context /\ Sockets /\ Listed
    /\ CounterExact /\ TermNeverHangs /\ AbortsOnlyIfDangling

\* A fresh process satisfies the inductive invariant.
LEMMA InvInit == Init => Inv
<1> SUFFICES ASSUME Init PROVE Inv
  OBVIOUS
<1> USE ThreadsAssumption, SizeAssumption DEF Init
<1>1. TypeOK /\ Control /\ Context
  <2>1. s_initialized \in BOOLEAN /\ s_shutting_down \in BOOLEAN /\ dangled \in BOOLEAN
        /\ aborted \in BOOLEAN
    BY Zenon
  <2>2. TypeOK
    BY <2>1 DEF TypeOK, Handles
  <2>3. Control
    BY DEF Control
  <2>4. Context
    BY DEF Context
  <2> QED
    BY <2>2, <2>3, <2>4
<1>2. Sockets /\ Listed /\ TermNeverHangs
  BY DEF Sockets, Listed, ListIsTracked, TermNeverHangs
<1>3. AbortsOnlyIfDangling
  BY Zenon DEF AbortsOnlyIfDangling
<1>4. CounterExact
  BY FS_EmptySet DEF CounterExact
<1> QED
  BY <1>1, <1>2, <1>3, <1>4 DEF Inv

\* zsys_shutdown and the counter: when no thread destroys a socket that zsys_shutdown
\* closed and the log sender is unset before it, then for any number of threads and of
\* sockets the counter is exact, zmq_term never waits for a forgotten socket, the list
\* holds the open sockets that have a file name, and only a restart after a socket was
\* left open can fail an assertion.
THEOREM ShutdownCorrect ==
    ASSUME ~LateClose, ~KeepsLogsender
    PROVE  Spec => [](CounterExact /\ TermNeverHangs /\ ListIsTracked /\ AbortsOnlyIfDangling)
<1>1. Init => Inv
  BY InvInit
<1>2. Inv /\ [Next]_vars => Inv'
  BY TypeStep, ControlStep, ContextStep, SocketsStep, ListedStep, CounterStep, TermStep, AbortStep
     DEF Inv
<1>3. Inv => CounterExact /\ TermNeverHangs /\ ListIsTracked /\ AbortsOnlyIfDangling
  BY DEF Inv, Listed
<1> QED
  BY <1>1, <1>2, <1>3, PTL DEF Spec

\* s_open_sockets is the number of open sockets, whoever opens, closes and shuts down.
THEOREM CounterStaysExact ==
    ASSUME ~LateClose, ~KeepsLogsender
    PROVE  Spec => []CounterExact
<1>1. Spec => [](CounterExact /\ TermNeverHangs /\ ListIsTracked /\ AbortsOnlyIfDangling)
  BY ShutdownCorrect
<1> QED
  BY <1>1, PTL

\* zmq_term is called only when no socket of the context is open, so that it returns.
THEOREM TermReturns ==
    ASSUME ~LateClose, ~KeepsLogsender
    PROVE  Spec => []TermNeverHangs
<1>1. Spec => [](CounterExact /\ TermNeverHangs /\ ListIsTracked /\ AbortsOnlyIfDangling)
  BY ShutdownCorrect
<1> QED
  BY <1>1, PTL

\* zsys_init after zsys_shutdown fails its assertion only if a socket was left open.
THEOREM RestartIsSafe ==
    ASSUME ~LateClose, ~KeepsLogsender
    PROVE  Spec => []AbortsOnlyIfDangling
<1>1. Spec => [](CounterExact /\ TermNeverHangs /\ ListIsTracked /\ AbortsOnlyIfDangling)
  BY ShutdownCorrect
<1> QED
  BY <1>1, PTL
=============================================================================
