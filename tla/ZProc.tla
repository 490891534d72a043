------------------------------- MODULE ZProc -------------------------------
(***************************************************************************)
(* zproc: the application's thread, the actor that runs and reaps the      *)
(* child process, and the child itself.  The fields of zproc_t are shared  *)
(* by the two threads without a lock: every read and write of them is a    *)
(* step.  Standard output is one pipe, counted in blocks of what one read  *)
(* takes.                                                                  *)
(***************************************************************************)
EXTENDS Integers, Sequences

CONSTANTS
    MaxBlocks,  \* bound: blocks the child writes
    MaxCalls    \* bound: calls of the application before zproc_destroy

VARIABLES
    pid,          \* whether self->pid is set
    return_code,
    child,        \* "none", "running", "exited" (a zombie) or "reaped"
    status,       \* how the child ended: its exit status, or the signal
    pending,      \* signals sent to the child and not delivered
    written, read, \* blocks the child wrote, blocks forwarded to the stdout socket
    caller,       \* where the application is
    calls,
    actor,        \* where the actor is
    command,      \* on its way to the actor
    signals       \* signals from the actor to the application

process == <<child, status, pending, written>>
proc_vars == <<pid, return_code, process, read, caller, calls, actor, command, signals>>

RUNNING == "running"
None == "none"
Exited == "exited"
SIGTERM == "SIGTERM"
SIGKILL == "SIGKILL"

ProcInit ==
    /\ pid = FALSE
    /\ return_code = None
    /\ child = "none" /\ status = None /\ pending = {} /\ written = 0
    /\ read = 0
    /\ caller = "new" /\ calls = 0
    /\ actor = "none" /\ command = None /\ signals = 0

\* zproc_running, as seen by either thread.
zproc_running == pid /\ return_code = RUNNING

(***************************************************************************)
(* The child process (external).                                           *)
(***************************************************************************)
child_write ==
    /\ child = "running" /\ written < MaxBlocks
    /\ written' = written + 1
    /\ UNCHANGED <<pid, return_code, child, status, pending, read, caller, calls, actor, command, signals>>

child_exit ==
    /\ child = "running"
    /\ child' = "exited"
    /\ status' = Exited
    /\ UNCHANGED <<pid, return_code, pending, written, read, caller, calls, actor, command, signals>>

\* SIGTERM may be ignored; SIGKILL is not.
child_signal(signum) ==
    /\ child = "running" /\ signum \in pending
    /\ pending' = pending \ {signum}
    /\ \/ child' = "exited" /\ status' = signum
       \/ signum = SIGTERM /\ UNCHANGED <<child, status>>
    /\ UNCHANGED <<pid, return_code, written, read, caller, calls, actor, command, signals>>

(***************************************************************************)
(* The application.                                                        *)
(***************************************************************************)
\* Up to the wait for the signal that answers RUN.
zproc_run ==
    /\ caller = "new"
    /\ actor' = "loop"
    /\ return_code' = RUNNING
    /\ command' = "RUN"
    /\ caller' = "run"
    /\ UNCHANGED <<pid, process, read, calls, signals>>

zproc_run_done ==
    /\ caller = "run" /\ signals > 0
    /\ signals' = signals - 1
    /\ caller' = "idle"
    /\ UNCHANGED <<pid, return_code, process, read, calls, actor, command>>

\* zproc_kill tests zproc_running, and then sends the signal; it is a call of its own or
\* part of zproc_shutdown.  Where it goes on is the name of what follows.
CallsKill == [idle |-> "kill", term |-> "kill_term", still |-> "kill_still"]
AfterKill == [kill |-> "idle", kill_term |-> "wait_term", kill_still |-> "wait_kill"]

zproc_kill ==
    /\ caller \in DOMAIN CallsKill
    /\ caller = "idle" => calls < MaxCalls
    /\ calls' = IF caller = "idle" THEN calls + 1 ELSE calls
    /\ caller' = IF zproc_running THEN CallsKill[caller] ELSE AfterKill[CallsKill[caller]]
    /\ UNCHANGED <<pid, return_code, process, read, actor, command, signals>>

\* kill(2).  The number of a child that was reaped may belong to another process.
zproc_kill_send ==
    /\ caller \in DOMAIN AfterKill
    /\ pending' = IF child = "running"
                  THEN pending \cup {IF caller = "kill_still" THEN SIGKILL ELSE SIGTERM} ELSE pending
    /\ caller' = AfterKill[caller]
    /\ UNCHANGED <<pid, return_code, child, status, written, read, calls, actor, command, signals>>

\* zproc_wait with no timeout.
zproc_wait ==
    /\ caller = "idle" /\ calls < MaxCalls
    /\ ~zproc_running
    /\ calls' = calls + 1
    /\ UNCHANGED <<pid, return_code, process, read, caller, actor, command, signals>>

\* zproc_destroy: zproc_shutdown, actor_destroy.
zproc_destroy ==
    /\ caller = "idle"
    /\ caller' = "term"
    /\ UNCHANGED <<pid, return_code, process, read, calls, actor, command, signals>>

\* The wait of zproc_shutdown after SIGTERM ends at its timeout or when the child is gone.
zproc_shutdown ==
    /\ caller = "wait_term"
    /\ caller' = IF zproc_running THEN "still" ELSE "actor"
    /\ UNCHANGED <<pid, return_code, process, read, calls, actor, command, signals>>

zproc_shutdown_done ==
    /\ caller = "wait_kill"
    /\ caller' = "actor"
    /\ UNCHANGED <<pid, return_code, process, read, calls, actor, command, signals>>

\* actor_destroy: $TERM is sent unless the actor's end of the pipe is closed.
actor_destroy ==
    /\ caller = "actor"
    /\ IF actor = "ended" THEN caller' = "done" /\ UNCHANGED command
       ELSE caller' = "actor_wait" /\ command' = "$TERM"
    /\ UNCHANGED <<pid, return_code, process, read, calls, actor, signals>>

actor_destroy_done ==
    /\ caller = "actor_wait" /\ signals > 0
    /\ signals' = signals - 1
    /\ caller' = "done"
    /\ UNCHANGED <<pid, return_code, process, read, calls, actor, command>>

(***************************************************************************)
(* The actor.                                                              *)
(***************************************************************************)
\* fork(2).
s_zproc_execve == pid' = TRUE /\ child' = "running"

\* RUN forks the child and signals; $TERM ends the loop.
s_pipe_handler ==
    /\ actor = "loop" /\ command # None
    /\ command' = None
    /\ IF command = "$TERM"
       THEN actor' = "reap" /\ UNCHANGED <<pid, child, signals>>
       ELSE s_zproc_execve /\ signals' = signals + 1 /\ UNCHANGED actor
    /\ UNCHANGED <<return_code, status, pending, written, read, caller, calls>>

s_fd_in_handler ==
    /\ actor = "loop" /\ read < written
    /\ read' = read + 1
    /\ UNCHANGED <<pid, return_code, process, caller, calls, actor, command, signals>>

\* waitpid finds the child ended: from the timer of the loop or from the loop after it.
s_zproc_alive ==
    /\ actor \in {"loop", "reap"}
    /\ zproc_running /\ child = "exited"
    /\ child' = "reaped"
    /\ actor' = "store"
    /\ UNCHANGED <<pid, return_code, status, pending, written, read, caller, calls, command, signals>>

mut_alive_done ==
    /\ actor = "store"
    /\ return_code' = Exited
    /\ actor' = "reap"
    /\ UNCHANGED <<pid, process, read, caller, calls, command, signals>>

\* The status becomes the return code; the -1 of the timer ends the loop.
s_zproc_alive_done ==
    /\ actor = "store"
    /\ return_code' = status
    /\ actor' = "reap"
    /\ UNCHANGED <<pid, process, read, caller, calls, command, signals>>

mut_actor_signal ==
    /\ actor = "reap"
    /\ actor' = "shim"
    /\ signals' = signals + 1
    /\ UNCHANGED <<pid, return_code, process, read, caller, calls, command>>

\* The end of s_zproc_actor, once the child is reaped.
s_zproc_actor ==
    /\ actor = "reap" /\ ~zproc_running
    /\ actor' = "shim"
    /\ signals' = signals + 1
    /\ UNCHANGED <<pid, return_code, process, read, caller, calls, command>>

\* The shim of the actor signals as well, and closes the pipe.
s_thread_shim ==
    /\ actor = "shim"
    /\ actor' = "ended"
    /\ signals' = signals + 1
    /\ UNCHANGED <<pid, return_code, process, read, caller, calls, command>>

ActorStep ==
    \/ s_pipe_handler \/ s_fd_in_handler \/ s_zproc_alive \/ s_zproc_alive_done
    \/ s_zproc_actor \/ s_thread_shim
CallerStep ==
    \/ zproc_run \/ zproc_run_done \/ zproc_kill_send \/ zproc_shutdown \/ zproc_shutdown_done
    \/ (caller # "idle" /\ zproc_kill) \/ actor_destroy \/ actor_destroy_done

ProcNext ==
    \/ child_write \/ child_exit \/ \E s \in {SIGTERM, SIGKILL} : child_signal(s)
    \/ zproc_kill \/ zproc_wait \/ zproc_destroy \/ CallerStep
    \/ ActorStep

ProcSpec == ProcInit /\ [][ProcNext]_proc_vars

\* Both threads go on, the timer of the loop runs, and SIGKILL ends a process.
FairProcSpec ==
    /\ ProcSpec
    /\ WF_proc_vars(CallerStep) /\ WF_proc_vars(s_pipe_handler) /\ WF_proc_vars(s_zproc_alive \/ s_zproc_alive_done)
    /\ WF_proc_vars(s_zproc_actor)
    /\ WF_proc_vars(s_thread_shim) /\ WF_proc_vars(child_signal(SIGKILL))

(***************************************************************************)
(* Properties.                                                             *)
(***************************************************************************)
\* What zproc_wait and zproc_returncode give once the process no longer counts as running
\* is how the child ended, whether it exited or a signal of zproc_kill ended it, and the
\* child has been reaped by then: no zombie is left and no status is read twice.
CodeIsTrue == pid /\ return_code # RUNNING => child = "reaped" /\ return_code = status

\* When zproc_destroy has returned there is no child left, running or zombie, although
\* the signals it waits for come from two places and the child may end at any time.
NoOrphan == caller = "done" => child = "reaped"

\* zproc_destroy returns: SIGKILL ends a child that ignores SIGTERM, and the actor answers
\* $TERM or has ended, whichever of its two ways out it takes.
DestroyEnds == caller = "term" ~> caller = "done"
=============================================================================
