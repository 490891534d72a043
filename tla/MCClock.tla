------------------------------ MODULE MCClock -------------------------------
(***************************************************************************)
(* What depends on the clock, for model checking: the timers and tickets   *)
(* of zloop, zauth while its files change, and zdir_watch.  A behaviour is *)
(* one of its subject; the variables of the others stay as they begin.     *)
(***************************************************************************)
EXTENDS ZLoop

VARIABLES
    subject,
    clock, file, certs, loaded, allowlist, blocklist, passwords, certstore,
    allow_any, auth, auth_command, auth_waiting, auth_commands, told, requests,
    second, disk, dir, command, pipe, waiting, mirror, commands

auth_vars ==
    <<clock, file, certs, loaded, allowlist, blocklist, passwords, certstore,
      allow_any, auth, auth_command, auth_waiting, auth_commands, told, requests>>
watch_vars == <<second, disk, dir, command, pipe, waiting, mirror, commands>>

Auth == INSTANCE ZAuth WITH
    dir <- certs, command <- auth_command, waiting <- auth_waiting,
    commands <- auth_commands,
    Addresses <- {"a1", "a2"}, Logins <- {"p1"}, Keys <- {"c1", "c2"},
    MaxTime <- 4, MaxCommands <- 2, StableAge <- 1, SameSecond <- FALSE

Watch == INSTANCE ZDirWatch WITH
    now <- second,
    Names <- {1, 2}, StableAge <- 1, MaxTime <- 4, MaxCommands <- 2,
    RemovesEarly <- FALSE, Reconfigures <- FALSE

ClockInit ==
    /\ subject \in {"zloop", "zauth", "zdir_watch"}
    /\ Init /\ Auth!AuthInit
    /\ Watch!WatchInit /\ (subject = "zdir_watch" \/ disk = mirror)

zloop_step ==
    /\ subject = "zloop" /\ Next
    /\ UNCHANGED <<subject, auth_vars, watch_vars>>

zauth_step ==
    /\ subject = "zauth" /\ Auth!AuthNext
    /\ UNCHANGED <<subject, vars, watch_vars>>

zdir_watch_step ==
    /\ subject = "zdir_watch" /\ Watch!WatchNext
    /\ UNCHANGED <<subject, vars, auth_vars>>

ClockNext == zloop_step \/ zauth_step \/ zdir_watch_step

ClockSpec == ClockInit /\ [][ClockNext]_<<subject, vars, auth_vars, watch_vars>>

-----------------------------------------------------------------------------
(* The properties of the instances. *)

\* zauth: a connection is judged by the address lists whose commands the application knows
\* to be done, a PLAIN one by the password file as it is and a CURVE one by the certificates
\* as they are, however files, commands and requests come between each other.
FilesInForce ==
    subject = "zauth" => Auth!ListsInForce /\ Auth!PasswordsFresh /\ Auth!CertificatesFresh

\* zdir_watch: the patches tell the application what the directory holds, and the
\* difference of two snapshots has exactly the changed files.
PatchesTell == subject = "zdir_watch" => Watch!PatchesTell /\ Watch!DiffExact

=============================================================================
