------------------------------- MODULE ZSys -------------------------------
(***************************************************************************)
(* The process-wide state of zsys: the context created on first use, the   *)
(* count of open sockets, the list of sockets to report as dangling, the   *)
(* log sender, and the two mutexes that guard them, used by several        *)
(* threads, by zsys_shutdown and by a fork.                                *)
(*                                                                         *)
(* libzmq is seen through what zsys asks of it: zmq_init, zmq_socket,      *)
(* zmq_close (no effect on a socket already closed) and zmq_term, which    *)
(* waits until the context has no open socket.                             *)
(***************************************************************************)
EXTENDS Integers, FiniteSets

CONSTANTS
    Threads,        \* the threads of the process
    Main,           \* the one that shuts down, forks and sets up logging
    NoThread,       \* nobody holds the mutex
    MaxSockets,     \* bound: sockets created in the life of the process
    SizeMax,        \* values of size_t, the type of s_open_sockets
    LateClose,      \* may a thread destroy a socket that zsys_shutdown closed?
    KeepsLogsender  \* may the log sender be set when zsys_shutdown is called?

ASSUME ThreadsAssumption == Main \in Threads /\ NoThread \notin Threads
ASSUME SizeAssumption == MaxSockets \in Nat /\ SizeMax \in Nat /\ MaxSockets < SizeMax
ASSUME UseAssumption == LateClose \in BOOLEAN /\ KeepsLogsender \in BOOLEAN

Handles == 1..MaxSockets
NULL == 0

VARIABLES
    s_initialized, s_shutting_down,
    s_process_ctx,      \* NULL, or 1 while zsys has a context
    s_open_sockets,
    s_sockref_list,     \* [live, handles]: live is FALSE when the pointer is NULL
    s_logsender,        \* NULL or the handle of the log sender
    s_mutex, s_init_mutex,  \* who holds the mutex
    pc,                 \* where each thread is
    after,              \* what each thread calls zsys_init for
    handle,             \* the handle each thread is closing
    owned,              \* the sockets each thread has and will destroy
    tracked,            \* the sockets created with a file name
    open,               \* libzmq: the sockets open in the context
    created,            \* sockets created so far
    forks,              \* forks so far
    dangled,            \* was a socket open when zsys_shutdown went to zmq_term?
    aborted             \* an assertion failed: the process is gone

flags == <<s_initialized, s_shutting_down, s_process_ctx>>
tables == <<s_open_sockets, s_sockref_list, open>>
history == <<tracked, created, forks, dangled>>
vars == <<flags, tables, s_logsender, s_mutex, s_init_mutex, pc, after, handle,
          owned, history, aborted>>

ShutdownSteps == {"shut_busy", "shut_close", "shut_log", "shut_check", "shut_term", "shut_end"}
InitSteps == {"init_lock", "init_create", "init_publish", "ready"}

\* Type correctness of the globals, the mutexes and each thread's place.
TypeOK ==
    /\ s_initialized \in BOOLEAN /\ s_shutting_down \in BOOLEAN
    /\ s_process_ctx \in {NULL, 1}
    /\ s_open_sockets \in 0..(SizeMax - 1)
    /\ s_sockref_list \in [live : BOOLEAN, handles : SUBSET Handles]
    /\ s_logsender \in Handles \cup {NULL}
    /\ s_mutex \in Threads \cup {NoThread} /\ s_init_mutex \in Threads \cup {NoThread}
    /\ pc \in [Threads -> {"idle", "close", "gone"} \cup InitSteps \cup ShutdownSteps]
    /\ after \in [Threads -> {"init", "socket", "logsender"}]
    /\ handle \in [Threads -> Handles \cup {NULL}]
    /\ owned \in [Threads -> SUBSET Handles]
    /\ tracked \subseteq Handles /\ open \subseteq Handles
    /\ created \in 0..MaxSockets
    /\ forks \in 0..1 /\ dangled \in BOOLEAN
    /\ aborted \in BOOLEAN

Init ==
    /\ s_initialized = FALSE /\ s_shutting_down = FALSE
    /\ s_process_ctx = NULL
    /\ s_open_sockets = 0
    /\ s_sockref_list = [live |-> FALSE, handles |-> {}]
    /\ s_logsender = NULL
    /\ s_mutex = NoThread /\ s_init_mutex = NoThread
    /\ pc = [t \in Threads |-> "idle"]
    /\ after = [t \in Threads |-> "init"]
    /\ handle = [t \in Threads |-> NULL]
    /\ owned = [t \in Threads |-> {}]
    /\ tracked = {} /\ open = {}
    /\ created = 0 /\ forks = 0 /\ dangled = FALSE
    /\ aborted = FALSE

Goto(t, place) == pc' = [pc EXCEPT ![t] = place]
Return(t) == Goto(t, "idle") /\ after' = [after EXCEPT ![t] = "init"]
At(t, place) == ~aborted /\ pc[t] = place

\* The sockets counted out and not yet closed.
Closing == {handle[t] : t \in {u \in Threads : pc[u] = "close"}}

\* s_open_sockets is a size_t: it wraps.
Plus(n) == (s_open_sockets + n) % SizeMax

-----------------------------------------------------------------------------
(* zsys_init, called for its own sake, by zsys_socket and by zsys_set_logsender.
   A thread that uses czmq while zsys_shutdown runs is outside its contract.   *)

\* The check made before the mutex is taken.
zsys_init(t, why) ==
    /\ At(t, "idle") /\ ~s_shutting_down
    /\ why # "init" => created < MaxSockets
    /\ why = "logsender" => t = Main /\ s_logsender = NULL
    /\ after' = [after EXCEPT ![t] = why]
    /\ aborted' = (s_initialized /\ s_process_ctx = NULL)
    /\ Goto(t, IF s_initialized THEN "ready" ELSE "init_lock")
    /\ UNCHANGED <<flags, tables, s_logsender, s_mutex, s_init_mutex, handle, owned, history>>

mut_init_no_recheck(t) ==
    /\ At(t, "init_lock") /\ s_init_mutex = NoThread
    /\ s_init_mutex' = t
    /\ Goto(t, "init_create")
    /\ UNCHANGED <<flags, tables, s_logsender, s_mutex, after, handle, owned, history, aborted>>

\* The check made again with the mutex.
zsys_init_lock(t) ==
    /\ At(t, "init_lock") /\ s_init_mutex = NoThread
    /\ IF s_initialized
         THEN /\ Goto(t, "ready")
              /\ aborted' = (s_process_ctx = NULL)
              /\ UNCHANGED s_init_mutex
         ELSE /\ Goto(t, "init_create")
              /\ s_init_mutex' = t
              /\ UNCHANGED aborted
    /\ UNCHANGED <<flags, tables, s_logsender, s_mutex, after, handle, owned, history>>

zsys_init_create(t) ==
    /\ At(t, "init_create")
    /\ s_sockref_list' = [live |-> TRUE, handles |-> {}]
    /\ IF s_process_ctx # NULL
         THEN aborted' = TRUE /\ UNCHANGED <<s_process_ctx, pc>>
         ELSE s_process_ctx' = 1 /\ Goto(t, "init_publish") /\ UNCHANGED aborted
    /\ UNCHANGED <<s_initialized, s_shutting_down, s_open_sockets, open, s_logsender,
                   s_mutex, s_init_mutex, after, handle, owned, history>>

zsys_init_publish(t) ==
    /\ At(t, "init_publish")
    /\ s_initialized' = TRUE
    /\ s_init_mutex' = NoThread
    /\ Goto(t, "ready")
    /\ UNCHANGED <<s_shutting_down, s_process_ctx, tables, s_logsender, s_mutex, after,
                   handle, owned, history, aborted>>

\* zsys_init returns to an application that wanted nothing else.
zsys_init_done(t) ==
    /\ At(t, "ready") /\ after[t] = "init"
    /\ Return(t)
    /\ UNCHANGED <<flags, tables, s_logsender, s_mutex, s_init_mutex, handle,
                   owned, history, aborted>>

-----------------------------------------------------------------------------
(* Sockets. *)

\* What zsys_socket does with s_mutex; zsock_new_checked asserts that it got a
\* handle, and zlist_append that the list exists.
Create(h, filename) ==
    /\ aborted' = (s_process_ctx = NULL \/ (filename /\ ~s_sockref_list.live))
    /\ created' = h
    /\ open' = open \cup {h}
    /\ s_open_sockets' = Plus(1)
    /\ tracked' = IF filename THEN tracked \cup {h} ELSE tracked
    /\ s_sockref_list' = IF filename THEN [s_sockref_list EXCEPT !.handles = @ \cup {h}]
                                     ELSE s_sockref_list

zsys_socket(t, filename) ==
    /\ At(t, "ready") /\ after[t] = "socket" /\ s_mutex = NoThread
    /\ created < MaxSockets
    /\ Create(created + 1, filename)
    /\ owned' = [owned EXCEPT ![t] = @ \cup {created + 1}]
    /\ Return(t)
    /\ UNCHANGED <<flags, s_logsender, s_mutex, s_init_mutex, handle, forks, dangled>>

\* zsock_new_pub is the checked macro in zsys.c, so the log sender has a file name.
zsys_set_logsender(t) ==
    /\ At(t, "ready") /\ after[t] = "logsender" /\ s_mutex = NoThread
    /\ created < MaxSockets
    /\ Create(created + 1, TRUE)
    /\ s_logsender' = created + 1
    /\ Return(t)
    /\ UNCHANGED <<flags, s_mutex, s_init_mutex, handle, owned, forks, dangled>>

\* Out of sockets to create within the bound: the call is not made after all.
out_of_sockets(t) ==
    /\ At(t, "ready") /\ after[t] # "init" /\ created = MaxSockets
    /\ Return(t)
    /\ UNCHANGED <<flags, tables, s_logsender, s_mutex, s_init_mutex, handle,
                   owned, history, aborted>>

\* The sockref of a closed socket leaves the list, if there is a list.
Forget(h) ==
    s_sockref_list' = [s_sockref_list EXCEPT !.handles = @ \ {h}]

\* zsys_close up to the decrement; it holds s_mutex.
zsys_close(t, h) ==
    /\ At(t, "idle") /\ s_mutex = NoThread
    /\ h \in owned[t]
    /\ LateClose \/ h \in open
    /\ s_mutex' = t
    /\ handle' = [handle EXCEPT ![t] = h]
    /\ owned' = [owned EXCEPT ![t] = @ \ {h}]
    /\ Forget(h)
    /\ s_open_sockets' = Plus(-1)
    /\ Goto(t, "close")
    /\ UNCHANGED <<flags, open, s_logsender, s_init_mutex, after, history, aborted>>

\* zmq_close, and the mutex is released.
zsys_close_done(t) ==
    /\ At(t, "close")
    /\ open' = open \ {handle[t]}
    /\ handle' = [handle EXCEPT ![t] = NULL]
    /\ s_mutex' = NoThread
    /\ Goto(t, "idle")
    /\ UNCHANGED <<flags, s_open_sockets, s_sockref_list, s_logsender, s_init_mutex,
                   after, owned, history, aborted>>

\* zsys_set_logsender (NULL).
zsys_unset_logsender ==
    /\ At(Main, "idle") /\ s_mutex = NoThread
    /\ s_logsender # NULL
    /\ s_mutex' = Main
    /\ handle' = [handle EXCEPT ![Main] = s_logsender]
    /\ Forget(s_logsender)
    /\ s_open_sockets' = Plus(-1)
    /\ s_logsender' = NULL
    /\ Goto(Main, "close")
    /\ UNCHANGED <<flags, open, s_init_mutex, after, owned, history, aborted>>

-----------------------------------------------------------------------------
(* zsys_shutdown, called at exit or by the application, when no thread is
   creating a socket.  Threads may still be closing theirs.                  *)

zsys_shutdown ==
    /\ At(Main, "idle")
    /\ \A t \in Threads : pc[t] \notin InitSteps
    /\ KeepsLogsender \/ s_logsender = NULL
    /\ s_initialized /\ ~s_shutting_down
    /\ s_shutting_down' = TRUE
    /\ Goto(Main, "shut_busy")
    /\ UNCHANGED <<s_initialized, s_process_ctx, tables, s_logsender, s_mutex, s_init_mutex,
                   after, handle, owned, history, aborted>>

\* busy is read under s_mutex; when it is not 0 the thread sleeps, which only
\* gives the other threads the time to close.
zsys_shutdown_busy ==
    /\ At(Main, "shut_busy") /\ s_mutex = NoThread
    /\ Goto(Main, "shut_close")
    /\ UNCHANGED <<flags, tables, s_logsender, s_mutex, s_init_mutex, after, handle,
                   owned, history, aborted>>

mut_shutdown_uncounted ==
    /\ At(Main, "shut_close") /\ s_mutex = NoThread
    /\ open' = open \ s_sockref_list.handles
    /\ s_sockref_list' = [live |-> FALSE, handles |-> {}]
    /\ Goto(Main, "shut_log")
    /\ UNCHANGED <<flags, s_open_sockets, s_logsender, s_mutex, s_init_mutex, after,
                   handle, owned, history, aborted>>

\* Every socket still in the list is reported, closed and counted out.
zsys_shutdown_close ==
    /\ At(Main, "shut_close") /\ s_mutex = NoThread
    /\ open' = open \ s_sockref_list.handles
    /\ s_open_sockets' = Plus(-Cardinality(s_sockref_list.handles))
    /\ s_sockref_list' = [live |-> FALSE, handles |-> {}]
    /\ Goto(Main, "shut_log")
    /\ UNCHANGED <<flags, s_logsender, s_mutex, s_init_mutex, after, handle, owned,
                   history, aborted>>

\* The log sender is destroyed through zsys_close.
zsys_shutdown_log ==
    /\ At(Main, "shut_log")
    /\ IF s_logsender = NULL
         THEN UNCHANGED <<s_open_sockets, open, s_logsender>>
         ELSE /\ s_mutex = NoThread
              /\ s_open_sockets' = Plus(-1)
              /\ open' = open \ {s_logsender}
              /\ s_logsender' = NULL
    /\ Goto(Main, "shut_check")
    /\ UNCHANGED <<flags, s_sockref_list, s_mutex, s_init_mutex, after, handle, owned,
                   history, aborted>>

mut_shutdown_unchecked ==
    /\ At(Main, "shut_check")
    /\ Goto(Main, "shut_term")
    /\ UNCHANGED <<flags, tables, s_logsender, s_mutex, s_init_mutex, after, handle,
                   owned, history, aborted>>

\* s_open_sockets is read without the mutex.
zsys_shutdown_check ==
    /\ At(Main, "shut_check")
    /\ Goto(Main, IF s_open_sockets = 0 THEN "shut_term" ELSE "shut_end")
    /\ dangled' = (dangled \/ open \ Closing # {})
    /\ UNCHANGED <<flags, tables, s_logsender, s_mutex, s_init_mutex, after, handle,
                   owned, tracked, created, forks, aborted>>

\* zmq_term waits until no socket is open.
zsys_shutdown_term ==
    /\ At(Main, "shut_term") /\ open = {}
    /\ s_process_ctx' = NULL
    /\ Goto(Main, "shut_end")
    /\ UNCHANGED <<s_initialized, s_shutting_down, tables, s_logsender, s_mutex,
                   s_init_mutex, after, handle, owned, history, aborted>>

zsys_shutdown_end ==
    /\ At(Main, "shut_end")
    /\ s_initialized' = FALSE /\ s_shutting_down' = FALSE
    /\ Goto(Main, "idle")
    /\ UNCHANGED <<s_process_ctx, tables, s_logsender, s_mutex, s_init_mutex, after,
                   handle, owned, history, aborted>>

-----------------------------------------------------------------------------
(* A fork by the main thread: the child has no other thread and uses none of
   the sockets it inherited.  zsys_pthread_at_fork_handler is registered by
   the first zsys_init.                                                       *)

mut_fork_keeps_mutexes == UNCHANGED <<s_mutex, s_init_mutex>>

Mutexes_anew == s_mutex' = NoThread /\ s_init_mutex' = NoThread

zsys_pthread_at_fork_handler ==
    /\ At(Main, "idle") /\ s_initialized /\ forks = 0
    /\ Mutexes_anew
    /\ s_process_ctx' = NULL /\ s_initialized' = FALSE
    /\ s_open_sockets' = 0 /\ s_logsender' = NULL
    /\ open' = {}
    /\ pc' = [t \in Threads |-> IF t = Main THEN "idle" ELSE "gone"]
    /\ owned' = [t \in Threads |-> {}]
    /\ handle' = [t \in Threads |-> NULL]
    /\ forks' = 1
    /\ UNCHANGED <<s_shutting_down, s_sockref_list, after, tracked, created, dangled, aborted>>

-----------------------------------------------------------------------------
init_step(t) ==
    \/ zsys_init_lock(t) \/ zsys_init_create(t) \/ zsys_init_publish(t) \/ zsys_init_done(t)
    \/ zsys_set_logsender(t) \/ out_of_sockets(t)
    \/ \E filename \in BOOLEAN : zsys_socket(t, filename)

shutdown_step ==
    \/ zsys_shutdown_busy \/ zsys_shutdown_close \/ zsys_shutdown_log
    \/ zsys_shutdown_check \/ zsys_shutdown_term \/ zsys_shutdown_end

Next ==
    \/ \E t \in Threads :
         \/ \E why \in {"init", "socket", "logsender"} : zsys_init(t, why)
         \/ init_step(t)
         \/ \E h \in Handles : zsys_close(t, h)
         \/ zsys_close_done(t)
    \/ zsys_unset_logsender
    \/ zsys_shutdown
    \/ shutdown_step
    \/ zsys_pthread_at_fork_handler

Spec == Init /\ [][Next]_vars

\* A thread inside a call of zsys goes on once the mutex it needs stays free.
FairSpec ==
    /\ Spec
    /\ \A t \in Threads : WF_vars(init_step(t)) /\ WF_vars(zsys_close_done(t))
    /\ WF_vars(shutdown_step)

-----------------------------------------------------------------------------
(* Properties. *)

\* s_open_sockets is the number of sockets open in the context, one being
\* closed already counted out, whatever the threads and zsys_shutdown close:
\* zsys_shutdown relies on it to know that zmq_term is safe.
CounterExact == s_open_sockets = Cardinality(open \ Closing)

\* zmq_term is called only when each socket left is on its way through zmq_close:
\* zsys_shutdown never hangs in it because of a forgotten socket.
TermNeverHangs == pc[Main] = "shut_term" => open \subseteq Closing

\* No assertion of zsys or zsock fails: the context exists once s_initialized is
\* seen, is created once, and each new socket gets a handle; and czmq can be used
\* again after zsys_shutdown, unless a socket without a file name was left open.
AbortsOnlyIfDangling == aborted => dangled

\* A socket that zsys_shutdown would report is one that is open, and every open
\* socket with a file name is reported unless the list is gone.
ListIsTracked ==
    s_initialized /\ s_sockref_list.live
        => s_sockref_list.handles = (open \ Closing) \cap tracked

\* Every call returns or ends the process: no thread waits for ever for a mutex,
\* in a child of a fork neither, nor in zmq_term.
CallsReturn == \A t \in Threads : pc[t] # "idle" ~> pc[t] \in {"idle", "gone"} \/ aborted
=============================================================================
