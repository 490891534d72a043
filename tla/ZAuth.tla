------------------------------- MODULE ZAuth -------------------------------
(***************************************************************************)
(* The zauth actor: the commands that set its policy, the requests libzmq  *)
(* sends it for incoming connections, and the password file and            *)
(* certificate directory that others may change at any time.               *)
(*                                                                         *)
(* Time is counted in seconds, the unit of a file's modification time.     *)
(***************************************************************************)
EXTENDS Integers, Sequences, FiniteSets, FiniteSetsExt

CONSTANTS
    Addresses, Logins, Keys,    \* peers' addresses, user-password pairs, keys
    MaxTime,        \* bound: the clock
    MaxCommands,    \* bound: commands sent
    StableAge,      \* a file is stable when it is older than this
    SameSecond      \* may files change in the second in which zauth reads them?

None == "none"
NoCommand == [name |-> None]
NoStore == [certs |-> {}, modified |-> 0, count |-> -1, cursize |-> 0]
Request(m, credentials) ==
    [address : Addresses, mechanism : {m}, credential : credentials]

\* NULL and GSSAPI requests carry nothing that zauth looks at.
Requests ==
    UNION {Request("NULL", {None}), Request("GSSAPI", {None}),
           Request("PLAIN", Logins), Request("CURVE", Keys)}

-----------------------------------------------------------------------------
(***************************************************************************)
(* A zcertstore as a value: the certificates in memory, by public key, and *)
(* what the disk loader remembers of the directory it last read.  A        *)
(* directory is NULL or a set of files [name, key, size, modified]; zdir   *)
(* sums it up by its latest modification time, its count and its size.     *)
(***************************************************************************)
NoDir == [exists |-> FALSE, files |-> {}]

\* The three figures of zdir_new.
zdir_modified(directory) == Max({f.modified : f \in directory.files} \cup {0})
zdir_count(directory) == Cardinality(directory.files)
zdir_cursize(directory) == MapThenSumSet(LAMBDA f : f.size, directory.files)

Unchanged(self, directory) ==
    /\ self.modified = zdir_modified(directory)
    /\ self.count = zdir_count(directory)
    /\ self.cursize = zdir_cursize(directory)

\* Reads the directory again when one of the figures has changed; each key is in
\* one file, as zcertstore_insert asserts.
s_disk_loader(self, directory) ==
    IF ~directory.exists \/ Unchanged(self, directory)
      THEN self
      ELSE [certs |-> {f.key : f \in directory.files}, modified |-> zdir_modified(directory),
            count |-> zdir_count(directory), cursize |-> zdir_cursize(directory)]

zcertstore_new(directory) ==
    s_disk_loader([certs |-> {}, modified |-> 0, count |-> 0, cursize |-> 0], directory)

-----------------------------------------------------------------------------
VARIABLES
    clock,
    file,       \* the password file: [content, modified], modified 0 if absent
    dir,        \* the certificate directory
    loaded,     \* when zauth last read the file or the directory
    allowlist, blocklist,
    passwords,  \* [loaded, content, modified]: the table of zhashx_load
    certstore,  \* the store, or NoStore
    allow_any,
    auth,       \* is the actor running?
    command,    \* the command in the pipe, NoCommand if none
    waiting,    \* does the application wait for the signal?
    commands,   \* commands sent
    told,       \* the lists whose commands the application knows to be done
    requests    \* for each request at the handler, the lists told before it came

files == <<clock, file, dir, loaded>>
policy == <<allowlist, blocklist, passwords, certstore, allow_any>>
pipe == <<command, waiting, commands, told>>
vars == <<files, policy, auth, pipe, requests>>

AuthInit ==
    /\ clock = 1 /\ file = [content |-> {}, modified |-> 0] /\ dir = NoDir /\ loaded = 0
    /\ allowlist = {} /\ blocklist = {}
    /\ passwords = [loaded |-> FALSE, content |-> {}, modified |-> 0]
    /\ certstore = NoStore /\ allow_any = FALSE
    /\ auth = TRUE
    /\ command = NoCommand /\ waiting = FALSE /\ commands = 0
    /\ told = [allow |-> {}, block |-> {}]
    /\ requests = <<>>

-----------------------------------------------------------------------------
(* The world outside: time, files, the application, libzmq (external). *)

tick ==
    /\ clock < MaxTime
    /\ clock' = clock + 1
    /\ UNCHANGED <<file, dir, loaded, policy, auth, pipe, requests>>

MayWrite == SameSecond \/ loaded < clock

write_file(content) ==
    /\ MayWrite /\ content # file.content
    /\ file' = [content |-> content, modified |-> clock]
    /\ UNCHANGED <<clock, dir, loaded, policy, auth, pipe, requests>>

\* A certificate is added, replaced or removed; its file has the key's name.
write_dir(keys) ==
    /\ MayWrite /\ keys # {f.key : f \in dir.files}
    /\ dir' = [exists |-> TRUE,
               files |-> {f \in dir.files : f.key \in keys} \cup
                   {[name |-> k, key |-> k, size |-> 1, modified |-> clock] :
                       k \in keys \ {f.key : f \in dir.files}}]
    /\ UNCHANGED <<clock, file, loaded, policy, auth, pipe, requests>>

\* GSSAPI, like VERBOSE, is only answered.
Commands ==
    [name : {"ALLOW", "DENY"}, address : Addresses]
        \cup [name : {"PLAIN", "CURVE", "CURVE *", "VERBOSE", "$TERM"}]

app_send(c) ==
    /\ ~waiting /\ commands < MaxCommands /\ auth
    /\ command' = c /\ waiting' = TRUE /\ commands' = commands + 1
    /\ UNCHANGED <<files, policy, auth, told, requests>>

\* The signal is read, after which the application relies on the command.
app_wait ==
    /\ waiting /\ command = NoCommand
    /\ waiting' = FALSE
    /\ told' = [allow |-> allowlist, block |-> blocklist]
    /\ UNCHANGED <<files, policy, auth, command, commands, requests>>

\* A peer connects; what it asks for is looked at when the request is handled.
connection ==
    /\ requests = <<>> /\ auth
    /\ requests' = <<told>>
    /\ UNCHANGED <<files, policy, auth, pipe>>

-----------------------------------------------------------------------------
(* The actor. *)

zhashx_load == [loaded |-> TRUE, content |-> file.content, modified |-> file.modified]

\* The pipe is polled before the handler.
s_self_handle_pipe ==
    /\ auth /\ command # NoCommand
    /\ command' = NoCommand
    /\ allowlist' = IF command.name = "ALLOW" THEN allowlist \cup {command.address} ELSE allowlist
    /\ blocklist' = IF command.name = "DENY" THEN blocklist \cup {command.address} ELSE blocklist
    /\ passwords' = IF command.name = "PLAIN" THEN zhashx_load ELSE passwords
    /\ certstore' = IF command.name = "CURVE" THEN zcertstore_new(dir) ELSE certstore
    /\ allow_any' = (command.name # "CURVE" /\ (allow_any \/ command.name = "CURVE *"))
    /\ loaded' = IF command.name \in {"PLAIN", "CURVE"} THEN clock ELSE loaded
    /\ auth' = (command.name # "$TERM")
    /\ UNCHANGED <<clock, file, dir, waiting, commands, told, requests>>

mut_refresh ==
    IF file.modified > passwords.modified
      THEN [passwords EXCEPT !.modified = file.modified]
      ELSE passwords

\* The table is read again when the file is newer, and stable.
zhashx_refresh ==
    IF file.modified > passwords.modified /\ clock - file.modified > StableAge
      THEN zhashx_load
      ELSE passwords

\* Denied by the lists, before the mechanism is looked at.
Denied(address) ==
    IF allowlist # {} THEN address \notin allowlist
                      ELSE address \in blocklist

\* The stores a request consults, refreshed.
UsesPlain(r) == r.mechanism = "PLAIN" /\ ~Denied(r.address) /\ passwords.loaded
UsesCurve(r) ==
    r.mechanism = "CURVE" /\ ~Denied(r.address) /\ ~allow_any /\ certstore # NoStore

s_authenticate_plain(r) == UsesPlain(r) /\ r.credential \in zhashx_refresh.content

s_authenticate_curve(r) ==
    allow_any \/ (UsesCurve(r) /\ r.credential \in s_disk_loader(certstore, dir).certs)

\* The answer to a request that is handled now.
Allowed(r) ==
    /\ ~Denied(r.address)
    /\ r.mechanism = "PLAIN" => s_authenticate_plain(r)
    /\ r.mechanism = "CURVE" => s_authenticate_curve(r)

\* One request: the stores it consults are refreshed, and Allowed(r) is answered.
s_self_authenticate(r) ==
    /\ auth /\ command = NoCommand /\ requests # <<>>
    /\ requests' = <<>>
    /\ passwords' = IF UsesPlain(r) THEN zhashx_refresh ELSE passwords
    /\ certstore' = IF UsesCurve(r) THEN s_disk_loader(certstore, dir) ELSE certstore
    /\ loaded' = IF passwords' # passwords \/ certstore' # certstore THEN clock ELSE loaded
    /\ UNCHANGED <<clock, file, dir, allowlist, blocklist, allow_any, auth, pipe>>

AuthNext ==
    \/ tick
    \/ \E content \in SUBSET Logins : write_file(content)
    \/ \E keys \in SUBSET Keys : write_dir(keys)
    \/ \E c \in Commands : app_send(c)
    \/ app_wait
    \/ connection
    \/ s_self_handle_pipe
    \/ \E r \in Requests : s_self_authenticate(r)

AuthSpec == AuthInit /\ [][AuthNext]_vars

-----------------------------------------------------------------------------
(* Properties. *)

\* A request is handled now.
Handled(r) == auth /\ command = NoCommand /\ requests # <<>> /\ ~Denied(r.address)

\* A connection made after the application was told that an address list is in
\* force is judged by it, whatever commands and requests are queued: an address
\* outside a non-empty allowlist, or blocked while there is none, gets no access.
ListsInForce ==
    \A r \in Requests : requests # <<>> /\ Allowed(r) =>
        /\ requests[1].allow # {} => r.address \in allowlist
        /\ allowlist = {} => r.address \notin requests[1].block

\* A PLAIN connection is judged by the password file as it is, once the file has
\* not changed for a while, however often it changed since PLAIN was sent.
PasswordsFresh ==
    \A r \in Requests :
        Handled(r) /\ UsesPlain(r) /\ clock - file.modified > StableAge
            => (Allowed(r) <=> r.credential \in file.content)

\* A CURVE connection is judged by the certificates now in the directory, those
\* added, replaced and removed since the store was last read included.
CertificatesFresh ==
    \A r \in Requests :
        Handled(r) /\ UsesCurve(r)
            => (Allowed(r) <=> \E f \in dir.files : f.key = r.credential)
=============================================================================
