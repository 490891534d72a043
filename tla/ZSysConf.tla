------------------------------ MODULE ZSysConf ------------------------------
(***************************************************************************)
(* The process-wide settings of zsys: where a value comes from (built in,  *)
(* from the environment, or set by the application), when it reaches the   *)
(* context and the sockets, and what zsys_shutdown leaves of it.  Threads  *)
(* set, create sockets and initialize; zsys_init publishes the context     *)
(* before it has applied all of the environment.                           *)
(*                                                                         *)
(* Each setting is described by a record of what its functions do; ZSys    *)
(* models the life of the context itself.                                  *)
(***************************************************************************)
EXTENDS Integers, Sequences, SequencesExt

CONSTANTS
    Threads,        \* threads of the process
    Settings,       \* the settings used
    Values,         \* the values they are set to
    MaxSockets,     \* bound: sockets open at a time
    MaxCalls,       \* bound: calls of the application
    LateInit        \* may a thread use czmq while another is in its first zsys_init?

VARIABLES
    env,            \* env[o]: the value in the environment, or Unset
    s_initialized,
    setting,        \* setting[o]: the variable s_o
    ctx,            \* ctx[o]: the option of the context, for settings it has
    sockets,        \* the sockets open: the settings each was created with
    thread,         \* thread[t]: the call in progress
    calls,          \* calls of the application
    asked,          \* asked[o]: the value the application is to expect
    misused,        \* did the application set what is not valid after creating sockets?
    aborted         \* an assertion failed

confVars == <<env, s_initialized, setting, ctx, sockets, thread, calls, asked, misused, aborted>>

Unset == -1         \* no value in the environment
Default == 0        \* the value built in

(* What the functions of a setting do:                                     *)
(*   early:   zsys_init assigns it from the environment before the context *)
(*   late:    zsys_init calls its setter after the context is published    *)
(*   unset:   the value of the late call if the environment has none: the  *)
(*            same as before, the default, or none and no call             *)
(*   context: it is an option of the context                               *)
(*   guarded: its setter asserts that there are no sockets                 *)
(*   opens:   its setter opens a socket                                    *)
(*   reset:   zsys_shutdown gives it its default                           *)
Plain ==
    [early |-> TRUE, late |-> FALSE, unset |-> "none", context |-> FALSE, guarded |-> FALSE,
     opens |-> FALSE, reset |-> TRUE]
Late == [Plain EXCEPT !.early = FALSE, !.late = TRUE]
OfThreads == [Late EXCEPT !.context = TRUE, !.guarded = TRUE, !.unset = "same"]

set_io_threads == [Plain EXCEPT !.context = TRUE, !.guarded = TRUE]
set_max_sockets == [Plain EXCEPT !.context = TRUE, !.guarded = TRUE]
set_thread_sched_policy == OfThreads
set_thread_priority == OfThreads
set_thread_name_prefix == OfThreads
set_thread_name_prefix_str == [OfThreads EXCEPT !.unset = "none"]
set_max_msgsz == [Plain EXCEPT !.context = TRUE, !.late = TRUE, !.unset = "same"]
\* zsys_init sets its option of the context from the variable itself: the same early and late.
set_zero_copy_recv == [Plain EXCEPT !.context = TRUE, !.reset = FALSE]
set_file_stable_age_msec == [Plain EXCEPT !.late = TRUE, !.unset = "same"]
set_linger == Plain
set_sndhwm == Plain
set_rcvhwm == Plain
set_ipv6 == Plain
set_pipehwm == Plain
set_auto_use_fd == Plain
set_interface == Late
set_ipv6_address == Late
set_ipv6_mcast_address == [Late EXCEPT !.unset = "default"]
set_ipv4_mcast_address == [Late EXCEPT !.unset = "default", !.reset = FALSE]
set_mcast_ttl == [Plain EXCEPT !.early = FALSE, !.reset = FALSE]
set_logident == Late
set_logsender == [Late EXCEPT !.opens = TRUE]
set_logsystem == Plain

Of ==
    [io_threads |-> set_io_threads, max_sockets |-> set_max_sockets,
     thread_sched_policy |-> set_thread_sched_policy, thread_priority |-> set_thread_priority,
     thread_name_prefix |-> set_thread_name_prefix,
     thread_name_prefix_str |-> set_thread_name_prefix_str, max_msgsz |-> set_max_msgsz,
     zero_copy_recv |-> set_zero_copy_recv, file_stable_age_msec |-> set_file_stable_age_msec,
     linger |-> set_linger, sndhwm |-> set_sndhwm, rcvhwm |-> set_rcvhwm, ipv6 |-> set_ipv6,
     pipehwm |-> set_pipehwm, auto_use_fd |-> set_auto_use_fd, interface |-> set_interface,
     ipv6_address |-> set_ipv6_address, ipv6_mcast_address |-> set_ipv6_mcast_address,
     ipv4_mcast_address |-> set_ipv4_mcast_address, mcast_ttl |-> set_mcast_ttl,
     logident |-> set_logident, logsender |-> set_logsender, logsystem |-> set_logsystem]

\* The late calls of zsys_init, in their order.
LateCalls ==
    SelectSeq(<<"interface", "ipv6_address", "ipv6_mcast_address", "ipv4_mcast_address", "logident",
                "logsender", "max_msgsz", "file_stable_age_msec", "thread_priority",
                "thread_sched_policy", "thread_name_prefix", "thread_name_prefix_str">>,
              LAMBDA o : o \in Settings)

FromEnv(o) == IF env[o] = Unset THEN Default ELSE env[o]

Idle == [at |-> "idle", op |-> "none", option |-> "none", value |-> 0,
         late |-> <<>>, taken |-> Default]

ConfInit ==
    /\ env \in [Settings -> {Unset} \cup Values]
    /\ \A o \in Settings : ~Of[o].early /\ ~Of[o].late => env[o] = Unset
    /\ s_initialized = FALSE
    /\ setting = [o \in Settings |-> Default]
    /\ ctx = [o \in Settings |-> Default]
    /\ sockets = <<>>
    /\ thread = [t \in Threads |-> Idle]
    /\ calls = 0
    /\ asked = [o \in Settings |-> FromEnv(o)]
    /\ misused = FALSE /\ aborted = FALSE

-----------------------------------------------------------------------------
(* Every setter and zsys_socket call zsys_init first. *)

\* A socket gets the settings for sockets; the application expects those it asked for.
NewSocket(expected) ==
    LET OfSockets == Settings \cap {"linger", "sndhwm", "rcvhwm", "ipv6"}
    IN  [has |-> [o \in OfSockets |-> setting[o]], expected |-> [o \in OfSockets |-> expected[o]]]

Initializing == \E t \in Threads : thread[t].at \in {"create", "late", "apply"}

\* Mistakes: a function goes on without zsys_init.
mut_FirstStep_set(op) == IF s_initialized \/ op = "set" THEN "run" ELSE "create"
FirstStep(op) == IF s_initialized THEN "run" ELSE "create"

Call(t, op, option, value) ==
    /\ ~aborted /\ thread[t] = Idle /\ calls < MaxCalls
    /\ LateInit \/ ~Initializing
    /\ calls' = calls + 1
    /\ thread' = [thread EXCEPT ![t] =
                     [Idle EXCEPT !.at = FirstStep(op), !.op = op, !.option = option, !.value = value]]
    /\ UNCHANGED <<env, s_initialized, setting, ctx, sockets, asked, misused, aborted>>

\* With the init mutex: the environment, then the context, which is published.
zsys_init_early(t) ==
    /\ ~aborted /\ thread[t].at = "create"
    /\ \/ /\ s_initialized
          /\ thread' = [thread EXCEPT ![t].at = "run"]
          /\ UNCHANGED <<s_initialized, setting, ctx>>
       \/ /\ ~s_initialized
          /\ s_initialized' = TRUE
          /\ setting' = [o \in Settings |->
                            IF Of[o].early /\ env[o] # Unset THEN env[o] ELSE setting[o]]
          /\ ctx' = [o \in Settings |-> IF Of[o].early /\ ~Of[o].late THEN setting'[o] ELSE Default]
          /\ thread' = [thread EXCEPT ![t].at = "late", ![t].late = LateCalls]
    /\ UNCHANGED <<env, sockets, calls, asked, misused, aborted>>

\* The argument of a late call is read before its setter takes the mutex; the setters of
\* the context's threads ignore their default.
zsys_init_late(t) ==
    /\ ~aborted /\ thread[t].at = "late" /\ thread[t].late # <<>>
    /\ LET o == Head(thread[t].late)
           value == IF env[o] # Unset /\ ~Of[o].early THEN env[o]
                    ELSE IF Of[o].unset = "default" THEN Default ELSE setting[o]
           made == /\ env[o] # Unset \/ Of[o].unset # "none"
                   /\ Of[o].guarded => value # Default
       IN  thread' = IF made THEN [thread EXCEPT ![t].at = "apply", ![t].taken = value]
                     ELSE [thread EXCEPT ![t].late = Tail(@)]
    /\ UNCHANGED <<env, s_initialized, setting, ctx, sockets, calls, asked, misused, aborted>>

\* The body of a setter, with the socket mutex.
Set(o, value) ==
    LET fails == Of[o].guarded /\ sockets # <<>>
    IN  /\ aborted' = fails
        /\ setting' = IF fails THEN setting ELSE [setting EXCEPT ![o] = value]
        /\ ctx' = IF fails \/ ~Of[o].context THEN ctx ELSE [ctx EXCEPT ![o] = value]
        /\ sockets' = IF Of[o].opens /\ setting[o] = Default
                      THEN Append(sockets, NewSocket(setting)) ELSE sockets

zsys_init_apply(t) ==
    /\ ~aborted /\ thread[t].at = "apply"
    /\ Set(Head(thread[t].late), thread[t].taken)
    /\ thread' = [thread EXCEPT ![t].at = "late", ![t].late = Tail(@), ![t].taken = Default]
    /\ UNCHANGED <<env, s_initialized, calls, asked, misused>>

zsys_init_done(t) ==
    /\ ~aborted /\ thread[t].at = "late" /\ thread[t].late = <<>>
    /\ thread' = [thread EXCEPT ![t].at = "run"]
    /\ UNCHANGED <<env, s_initialized, setting, ctx, sockets, calls, asked, misused, aborted>>

-----------------------------------------------------------------------------
(* The functions themselves. *)

Returns(t) == thread' = [thread EXCEPT ![t] = Idle]

zsys_set(t) ==
    /\ ~aborted /\ thread[t].at = "run" /\ thread[t].op = "set"
    /\ Set(thread[t].option, thread[t].value)
    /\ misused' = aborted'
    /\ asked' = [asked EXCEPT ![thread[t].option] = thread[t].value]
    /\ Returns(t)
    /\ UNCHANGED <<env, s_initialized, calls>>

zsys_socket(t) ==
    /\ ~aborted /\ thread[t].at = "run" /\ thread[t].op = "socket"
    /\ sockets' = IF Len(sockets) < MaxSockets
                  THEN Append(sockets, NewSocket(asked)) ELSE sockets
    /\ Returns(t)
    /\ UNCHANGED <<env, s_initialized, setting, ctx, calls, asked, misused, aborted>>

zsys_init_only(t) ==
    /\ ~aborted /\ thread[t].at = "run" /\ thread[t].op = "init"
    /\ Returns(t)
    /\ UNCHANGED <<env, s_initialized, setting, ctx, sockets, calls, asked, misused, aborted>>

zsys_close(i) ==
    /\ ~aborted
    /\ i \in DOMAIN sockets
    /\ sockets' = RemoveAt(sockets, i)
    /\ UNCHANGED <<env, s_initialized, setting, ctx, thread, calls, asked, misused, aborted>>

close_all == sockets' = <<>>

reset_settings == setting' = [o \in Settings |-> IF Of[o].reset THEN Default ELSE setting[o]]

\* Called when the other threads are done.
zsys_shutdown ==
    /\ ~aborted /\ s_initialized /\ calls < MaxCalls /\ \A t \in Threads : thread[t] = Idle
    /\ calls' = calls + 1
    /\ close_all
    /\ reset_settings
    /\ ctx' = [o \in Settings |-> Default]
    /\ s_initialized' = FALSE
    /\ asked' = [o \in Settings |-> FromEnv(o)]
    /\ UNCHANGED <<env, thread, misused, aborted>>

ConfStep(t) ==
    \/ \E o \in Settings, v \in Values : Call(t, "set", o, v)
    \/ Call(t, "socket", "none", Default) \/ Call(t, "init", "none", Default)
    \/ zsys_init_early(t) \/ zsys_init_late(t) \/ zsys_init_apply(t) \/ zsys_init_done(t)
    \/ zsys_set(t) \/ zsys_socket(t) \/ zsys_init_only(t)

ConfNext ==
    \/ \E t \in Threads : ConfStep(t)
    \/ \E i \in 1 .. MaxSockets + 1 : zsys_close(i)
    \/ zsys_shutdown

-----------------------------------------------------------------------------
(* What the settings promise. *)

\* Between calls every setting is what the application last set it to since zsys started or was
\* shut down, or else what the environment or the library gives, and the context has the same.
SettingsHold ==
    s_initialized /\ ~aborted /\ (\A t \in Threads : thread[t] = Idle) =>
        \A o \in Settings :
            /\ setting[o] = asked[o]
            /\ Of[o].context => ctx[o] = asked[o]

\* A socket is created with the settings that are in force: zsys_socket initializes first.
SocketDefaults == \A i \in DOMAIN sockets : sockets[i].has = sockets[i].expected

\* The assertion that there are no sockets fails only for an application that calls a setter after
\* it created one; zsys_init itself, on a start or a restart, never runs into it.
AbortsOnlyOnMisuse == aborted => misused

=============================================================================
