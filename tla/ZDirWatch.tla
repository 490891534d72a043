---------------------------- MODULE ZDirWatch -----------------------------
(***************************************************************************)
(* The zdir_watch actor, the merge of zdir_diff it rests on, and an        *)
(* application that follows a directory by the patches it is sent.  A file *)
(* is its name (a number, in the order of strcmp) and the second it was    *)
(* last written in; a snapshot also says whether it was stable then.       *)
(***************************************************************************)
EXTENDS Integers, Sequences, SequencesExt

CONSTANTS
    Names,            \* names of files
    StableAge,        \* seconds after which a file is stable
    MaxTime,          \* bound: seconds
    MaxCommands,      \* bound: commands of the application
    RemovesEarly,     \* whether a file is removed that the actor last saw unstable
    Reconfigures      \* whether a subscribed application sends TIMEOUT or SUBSCRIBE

VARIABLES
    now,
    disk,      \* for each name, when the file was written; Absent if there is none
    dir,       \* snapshot of the subscription; NoDir without one
    command,   \* command on its way to the actor, None if there is none
    pipe,      \* from the actor to the application: patch lists and signals
    waiting,   \* the application is in zsock_wait
    mirror,    \* the application's idea of the directory
    commands

app == <<command, waiting, commands>>
vars == <<now, disk, dir, command, pipe, waiting, mirror, commands>>

Absent == -9
NoDir == <<[name |-> 0, modified |-> 0, stable |-> FALSE]>>
None == "none"
Signal == <<[op |-> "signal", name |-> 0, modified |-> 0]>>

\* The list of the files, by name.
zdir_flatten(files) == SetToSortSeq(files, LAMBDA a, b : a.name < b.name)

\* The files there are; a file is stable once it has not been written for a while.
zdir_new ==
    zdir_flatten({[name |-> n, modified |-> disk[n], stable |-> now - disk[n] > StableAge] :
                    n \in {m \in Names : disk[m] # Absent}})

Patch(op, file) == [op |-> op, name |-> file.name, modified |-> file.modified]
If(condition, patch) == IF condition THEN <<patch>> ELSE <<>>

mut_changed(old, new) == old.stable /\ old.modified # new.modified

\* A file of both snapshots: written in between, or not yet reported.
Changed(old, new) == ~old.stable \/ old.modified # new.modified

\* The merge of the two sorted lists, from positions i and j on.
RECURSIVE Merge(_, _, _, _)
Merge(older, newer, i, j) ==
    LET old == older[i]
        new == newer[j]
    IN  IF i > Len(older) /\ j > Len(newer) THEN <<>>
        ELSE IF i > Len(older) \/ (j <= Len(newer) /\ old.name > new.name)
          THEN If(new.stable, Patch("create", new)) \o Merge(older, newer, i, j + 1)
        ELSE IF j > Len(newer) \/ old.name < new.name
          THEN If(old.stable, Patch("delete", old)) \o Merge(older, newer, i + 1, j)
        ELSE If(new.stable /\ Changed(old, new), Patch("create", new))
                \o Merge(older, newer, i + 1, j + 1)

zdir_diff(older, newer) == Merge(older, newer, 1, 1)

\* The files that need no patch when the subscription begins.
Known(snapshot) ==
    [n \in Names |-> IF \E i \in DOMAIN snapshot : snapshot[i].name = n /\ snapshot[i].stable
                     THEN disk[n] ELSE Absent]

Apply(copy, patch) ==
    [copy EXCEPT ![patch.name] = IF patch.op = "create" THEN patch.modified ELSE Absent]

(***************************************************************************)
(* The file system and the application.                                    *)
(***************************************************************************)
WatchInit ==
    /\ now = 0
    /\ disk \in [Names -> {Absent, -StableAge - 1}]
    /\ dir = NoDir
    /\ command = None
    /\ pipe = <<>>
    /\ waiting = FALSE
    /\ mirror = [n \in Names |-> Absent]
    /\ commands = 0

tick ==
    /\ now < MaxTime
    /\ now' = now + 1
    /\ UNCHANGED <<disk, dir, pipe, mirror, app>>

\* At most once in a second: a second write in it leaves time and size as they were.
write_file(n) ==
    /\ disk[n] # now
    /\ disk' = [disk EXCEPT ![n] = now]
    /\ UNCHANGED <<now, dir, pipe, mirror, app>>

remove_file(n) ==
    /\ disk[n] # Absent
    /\ RemovesEarly \/ \A i \in DOMAIN dir : dir[i].name = n => dir[i].stable
    /\ disk' = [disk EXCEPT ![n] = Absent]
    /\ UNCHANGED <<now, dir, pipe, mirror, app>>

\* A command is sent and its signal awaited, as in zdir_test.
app_send(c) ==
    /\ ~waiting /\ commands < MaxCommands
    /\ dir # NoDir /\ c # "UNSUBSCRIBE" => Reconfigures
    /\ command' = c
    /\ waiting' = TRUE
    /\ commands' = commands + 1
    /\ UNCHANGED <<now, disk, dir, pipe, mirror>>

\* zsock_wait drops what is not a signal; otherwise patches are read one list at a time.
app_recv ==
    /\ pipe # <<>>
    /\ pipe' = Tail(pipe)
    /\ waiting' = (waiting /\ Head(pipe) # Signal)
    /\ mirror' = IF waiting THEN mirror ELSE FoldLeft(Apply, mirror, Head(pipe))
    /\ UNCHANGED <<now, disk, dir, command, commands>>

(***************************************************************************)
(* The actor.                                                              *)
(***************************************************************************)
\* The mirror starts from what the actor takes as known, at the moment it does.  A
\* subscription that there is already is left as it is.
s_zdir_watch_subscribe ==
    /\ command = "SUBSCRIBE"
    /\ IF dir = NoDir THEN dir' = zdir_new /\ mirror' = Known(zdir_new)
       ELSE UNCHANGED <<dir, mirror>>

s_zdir_watch_unsubscribe ==
    /\ command = "UNSUBSCRIBE"
    /\ dir' = NoDir
    /\ UNCHANGED mirror

\* Another period: s_on_read_timer comes when it comes in any case.
s_zdir_watch_timeout ==
    /\ command = "TIMEOUT"
    /\ UNCHANGED <<dir, mirror>>

\* Every command is answered by a signal.
s_on_command ==
    /\ s_zdir_watch_subscribe \/ s_zdir_watch_unsubscribe \/ s_zdir_watch_timeout
    /\ pipe' = Append(pipe, Signal)
    /\ command' = None
    /\ UNCHANGED <<now, disk, waiting, commands>>

\* The snapshot is replaced whether or not there is anything to tell.
s_on_read_timer ==
    /\ dir # NoDir
    /\ dir' = zdir_new
    /\ LET diff == zdir_diff(dir, zdir_new)
       IN  pipe' = IF diff = <<>> THEN pipe ELSE Append(pipe, diff)
    /\ UNCHANGED <<now, disk, mirror, app>>

WatchNext ==
    \/ tick \/ app_recv \/ s_on_command \/ s_on_read_timer
    \/ \E n \in Names : write_file(n) \/ remove_file(n)
    \/ \E c \in {"SUBSCRIBE", "UNSUBSCRIBE", "TIMEOUT"} : app_send(c)

WatchSpec == WatchInit /\ [][WatchNext]_vars

(***************************************************************************)
(* Properties.                                                             *)
(***************************************************************************)
\* "Receive directory changes" (zdir.h): when the actor has seen the directory as it is,
\* every file in it stable, and the application has read its pipe, the patches it was
\* sent since it subscribed have made its copy equal to the directory: no file written in
\* several seconds, replaced between two looks, or removed and written again is missed.
PatchesTell ==
    dir # NoDir /\ dir = zdir_new /\ (\A i \in DOMAIN dir : dir[i].stable) /\ pipe = <<>> /\ ~waiting
        => mirror = disk

\* The merge of zdir_diff against its meaning: of the snapshot a subscription holds and
\* the directory as it is, at whatever point between two looks, each name has at most one
\* patch, in order, and exactly the names that were added, removed or changed have one.
DiffExact ==
    dir # NoDir =>
        LET new == zdir_new
            diff == zdir_diff(dir, new)
            Named(s, n) == {s[i] : i \in {k \in DOMAIN s : s[k].name = n}}
            Told(n) ==
                {Patch("create", f) : f \in {g \in Named(new, n) :
                    g.stable /\ \A o \in Named(dir, n) : ~o.stable \/ o.modified # g.modified}}
                \cup {Patch("delete", o) : o \in {p \in Named(dir, n) : p.stable /\ Named(new, n) = {}}}
        IN  /\ \A n \in Names : Named(diff, n) = Told(n)
            /\ \A i \in 1..Len(diff) - 1 : diff[i].name < diff[i + 1].name
=============================================================================
