------------------------------- MODULE ZSock -------------------------------
(***************************************************************************)
(* Attaching sockets to endpoints: the smart constructors of zsock,        *)
(* zsock_attach over a list of endpoints, and zsock_bind with its search   *)
(* for a free port.  Threads of this process and other processes bind and  *)
(* release ports of the same range while a search goes on; every zmq_bind  *)
(* is a step.  An address is a pair of transport and number.               *)
(***************************************************************************)
EXTENDS Integers, Sequences, SequencesExt

CONSTANTS
    Socks,          \* sockets, each used by a thread of its own
    DYNAMIC_FIRST,
    DYNAMIC_LAST,   \* the range of a port given as * or ! alone
    Types,          \* the types of socket that are constructed
    Lists,          \* lists of endpoints given to the constructors
    Names,          \* inproc names
    MaxCalls        \* bound: calls of all threads

VARIABLES
    self,           \* self[s]: the socket, its bound and connected addresses and its endpoint
    call,           \* call[s]: the call in progress
    other,          \* the ports held by other processes
    calls,          \* how many calls there were
    attached,       \* attached[s]: what the call in progress has attached so far
    unused          \* unused[s]: ports of the range of the search, free ever since it began

sockVars == <<self, call, other, calls, attached, unused>>

NULL == <<"none", 0>>
Tcp(port) == <<"tcp", port>>
Ports == DYNAMIC_FIRST .. DYNAMIC_LAST
Addresses == {Tcp(p) : p \in Ports} \cup {<<"inproc", n>> : n \in Names}

(* An endpoint in a list is a record: its prefix ("@", ">" or none) and       *)
(* either an address, or the opcode * or ! with a range (first_str, last_str), *)
(* or a text that libzmq refuses.                                             *)

Closed == [open |-> FALSE, bound |-> {}, connected |-> {}, endpoint |-> NULL]

\* state: idle, attach, search, or done with the result rc.
Idle ==
    [state |-> "idle", given |-> <<>>, endpoints |-> <<>>, serverish |-> FALSE,
     constructs |-> FALSE, opcode |-> "", first |-> 0, last |-> 0, port |-> 0,
     attempts |-> 0, rc |-> 0]

SockInit ==
    /\ self = [s \in Socks |-> Closed]
    /\ call = [s \in Socks |-> Idle]
    /\ other \in SUBSET Ports
    /\ calls = 0
    /\ attached = [s \in Socks |-> <<>>]
    /\ unused = [s \in Socks |-> {}]

-----------------------------------------------------------------------------
(* libzmq and the operating system (external). *)

Held == {Tcp(p) : p \in other} \cup UNION {self[s].bound : s \in Socks}

Searching(s) == call[s].state = "search"

\* A port that was taken is no longer unused since the searches began.
TakeFromUnused(address) ==
    unused' = [s \in Socks |-> {p \in unused[s] : Tcp(p) # address}]

zmq_bind(s, address) ==
    /\ address \in Addresses \ Held
    /\ TakeFromUnused(address)

zmq_bind_fails(address) == address \notin Addresses \ Held

zmq_connect(address) == address \in Addresses

other_binds(port) ==
    /\ port \in Ports /\ Tcp(port) \notin Held
    /\ other' = other \cup {port}
    /\ TakeFromUnused(Tcp(port))
    /\ UNCHANGED <<self, call, calls, attached>>

other_releases(port) ==
    /\ port \in other
    /\ other' = other \ {port}
    /\ UNCHANGED <<self, call, calls, attached, unused>>

-----------------------------------------------------------------------------
(* Construction and destruction. *)

Serverish ==
    [PUB |-> TRUE, SUB |-> FALSE, REQ |-> FALSE, REP |-> TRUE, DEALER |-> FALSE,
     ROUTER |-> TRUE, PUSH |-> FALSE, PULL |-> TRUE, XPUB |-> TRUE, XSUB |-> FALSE,
     PAIR |-> FALSE, STREAM |-> FALSE]

DraftServerish ==
    [SERVER |-> TRUE, CLIENT |-> FALSE, RADIO |-> TRUE, DISH |-> FALSE,
     GATHER |-> TRUE, SCATTER |-> FALSE, DGRAM |-> TRUE]

DefaultBinds(type) ==
    IF type \in DOMAIN Serverish THEN Serverish[type] ELSE DraftServerish[type]

Begin(s, endpoints, serverish, constructs) ==
    /\ calls < MaxCalls
    /\ calls' = calls + 1
    /\ call' = [call EXCEPT ![s] =
                   [Idle EXCEPT !.state = "attach", !.given = endpoints, !.endpoints = endpoints,
                                !.serverish = serverish, !.constructs = constructs]]
    /\ attached' = [attached EXCEPT ![s] = <<>>]

zsock_new_checked(s) == self' = [self EXCEPT ![s] = [Closed EXCEPT !.open = TRUE]]

\* zsock_new_pub and its likes.
zsock_new_type(s, type, endpoints) ==
    /\ call[s].state = "idle" /\ ~self[s].open
    /\ zsock_new_checked(s)
    /\ Begin(s, endpoints, DefaultBinds(type), TRUE)
    /\ UNCHANGED <<other, unused>>

\* A socket of its own, attached by the application.
zsock_attach(s, endpoints, serverish) ==
    /\ call[s].state = "idle" /\ self[s].open
    /\ Begin(s, endpoints, serverish, FALSE)
    /\ UNCHANGED <<self, other, unused>>

zsock_destroy(s) ==
    /\ call[s].state = "idle" /\ self[s].open /\ calls < MaxCalls
    /\ calls' = calls + 1
    /\ self' = [self EXCEPT ![s] = Closed]
    /\ attached' = [attached EXCEPT ![s] = <<>>]
    /\ UNCHANGED <<call, other, unused>>

\* The application takes up the result of a call.
Returns(s) ==
    /\ call[s].state = "done"
    /\ call' = [call EXCEPT ![s] = Idle]
    /\ attached' = [attached EXCEPT ![s] = <<>>]
    /\ unused' = [unused EXCEPT ![s] = {}]
    /\ UNCHANGED <<self, other, calls>>

-----------------------------------------------------------------------------
(* The loop of zsock_attach. *)

\* A mistake: the failed constructor returns the socket instead of destroying it.
mut_attach_fails(s) ==
    /\ call' = [call EXCEPT ![s].state = "done", ![s].rc = -1]
    /\ UNCHANGED self

\* zsock_attach stops at the endpoint that failed; a constructor destroys the socket.
attach_fails(s) ==
    /\ call' = [call EXCEPT ![s].state = "done", ![s].rc = -1]
    /\ self' = IF call[s].constructs THEN [self EXCEPT ![s] = Closed] ELSE self

\* The endpoint is attached; go on with the next.
attach_goes_on(s, address) ==
    /\ attached' = [attached EXCEPT ![s] = Append(@, address)]
    /\ call' = [call EXCEPT ![s].state = "attach", ![s].endpoints = Tail(@)]

Binds(s, endpoint) == endpoint.prefix = "@" \/ (endpoint.prefix # ">" /\ call[s].serverish)

zsock_attach_done(s) ==
    /\ call[s].state = "attach" /\ call[s].endpoints = <<>>
    /\ call' = [call EXCEPT ![s].state = "done", ![s].rc = 0]
    /\ UNCHANGED <<self, other, calls, attached, unused>>

store_endpoint(s, address) ==
    self' = [self EXCEPT ![s].bound = @ \cup {address}, ![s].endpoint = address]

zsock_bind_fixed(s) ==
    /\ call[s].state = "attach" /\ call[s].endpoints # <<>>
    /\ LET endpoint == Head(call[s].endpoints)
       IN  /\ Binds(s, endpoint) /\ endpoint.opcode = ""
           /\ \/ /\ zmq_bind(s, endpoint.address)
                 /\ store_endpoint(s, endpoint.address)
                 /\ attach_goes_on(s, endpoint.address)
              \/ /\ zmq_bind_fails(endpoint.address)
                 /\ attach_fails(s)
                 /\ UNCHANGED <<attached, unused>>
    /\ UNCHANGED <<other, calls>>

\* libzmq takes no wildcard port with a range to connect to.
zsock_connect(s) ==
    /\ call[s].state = "attach" /\ call[s].endpoints # <<>>
    /\ LET endpoint == Head(call[s].endpoints)
       IN  /\ ~Binds(s, endpoint)
           /\ \/ /\ endpoint.opcode = "" /\ zmq_connect(endpoint.address)
                 /\ self' = [self EXCEPT ![s].connected = @ \cup {endpoint.address}]
                 /\ attach_goes_on(s, endpoint.address)
              \/ /\ endpoint.opcode # "" \/ ~zmq_connect(endpoint.address)
                 /\ attach_fails(s)
                 /\ UNCHANGED attached
    /\ UNCHANGED <<other, calls, unused>>

-----------------------------------------------------------------------------
(* The search for a free port. *)

Attempts(first, last) == last - first + 1

randof(n) == 0 .. n - 1

Leaps(opcode, attempts) == IF opcode = "!" THEN randof(attempts) ELSE {0}

zsock_bind_search(s) ==
    /\ call[s].state = "attach" /\ call[s].endpoints # <<>>
    /\ LET endpoint == Head(call[s].endpoints)
           first == IF endpoint.first_str > 0 THEN endpoint.first_str ELSE DYNAMIC_FIRST
           last == IF endpoint.last_str > 0 THEN endpoint.last_str ELSE DYNAMIC_LAST
           attempts == Attempts(first, last)
       IN  /\ Binds(s, endpoint) /\ endpoint.opcode # ""
           /\ \E leap \in Leaps(endpoint.opcode, attempts) :
                call' = [call EXCEPT
                    ![s].state = "search", ![s].opcode = endpoint.opcode, ![s].first = first, ![s].last = last,
                    ![s].attempts = attempts, ![s].port = first + leap]
           /\ unused' = [unused EXCEPT ![s] = {p \in first .. last : Tcp(p) \notin Held}]
    /\ UNCHANGED <<self, other, calls, attached>>

NextPort(s) == IF call[s].port + 1 > call[s].last THEN call[s].first ELSE call[s].port + 1

try_next(s) == call' = [call EXCEPT ![s].port = NextPort(s), ![s].attempts = @ - 1]

zsock_bind_try(s) ==
    /\ Searching(s) /\ call[s].attempts # 0
    /\ LET address == Tcp(call[s].port)
       IN  \/ /\ zmq_bind(s, address)
              /\ store_endpoint(s, address)
              /\ attach_goes_on(s, address)
           \/ /\ zmq_bind_fails(address)
              /\ try_next(s)
              /\ UNCHANGED <<self, attached, unused>>
    /\ UNCHANGED <<other, calls>>

zsock_bind_gives_up(s) ==
    /\ Searching(s) /\ call[s].attempts = 0
    /\ attach_fails(s)
    /\ UNCHANGED <<other, calls, attached, unused>>

-----------------------------------------------------------------------------
(* Detaching. *)

zsock_unbind(s, address) ==
    /\ call[s].state = "idle" /\ address \in self[s].bound /\ calls < MaxCalls
    /\ calls' = calls + 1
    /\ self' = [self EXCEPT ![s].bound = @ \ {address}]
    /\ UNCHANGED <<call, other, attached, unused>>

zsock_disconnect(s, address) ==
    /\ call[s].state = "idle" /\ address \in self[s].connected /\ calls < MaxCalls
    /\ calls' = calls + 1
    /\ self' = [self EXCEPT ![s].connected = @ \ {address}]
    /\ UNCHANGED <<call, other, attached, unused>>

\* A call under way goes on: a call does not stop half-way.
CallStep(s) ==
    \/ Returns(s) \/ zsock_attach_done(s) \/ zsock_bind_fixed(s) \/ zsock_connect(s)
    \/ zsock_bind_search(s) \/ zsock_bind_try(s) \/ zsock_bind_gives_up(s)

SockStep(s) ==
    \/ \E type \in Types, endpoints \in Lists : zsock_new_type(s, type, endpoints)
    \/ \E endpoints \in Lists, serverish \in BOOLEAN : zsock_attach(s, endpoints, serverish)
    \/ zsock_destroy(s) \/ CallStep(s)
    \/ \E address \in Addresses : zsock_unbind(s, address) \/ zsock_disconnect(s, address)

SockNext ==
    \/ \E s \in Socks : SockStep(s)
    \/ \E port \in Ports : other_binds(port) \/ other_releases(port)

-----------------------------------------------------------------------------
(* What the calls promise. *)

\* Did the endpoint at the head of the list that failed need a search?
GaveUp(s) == call[s].state = "done" /\ call[s].rc = -1 /\ call[s].attempts = 0 /\ call[s].first > 0

\* zsock_attach returns 0 only if every endpoint of the list is attached, bound or connected as its
\* prefix or else the type of the socket says and within its range; a smart constructor that fails
\* has closed the socket and holds no port.
AttachExact ==
    \A s \in Socks : call[s].state = "done" =>
        IF call[s].rc = -1
        THEN call[s].constructs => self[s] = Closed
        ELSE /\ Len(attached[s]) = Len(call[s].given)
             /\ \A i \in DOMAIN attached[s] :
                  LET given == call[s].given[i]
                  IN  /\ attached[s][i] \in
                            IF given.prefix = "@" \/ (given.prefix = "" /\ call[s].serverish)
                            THEN self[s].bound ELSE self[s].connected
                      /\ given.opcode = "" => attached[s][i] = given.address
                      /\ given.opcode # "" =>
                            /\ given.first_str = 0 \/ attached[s][i][2] >= given.first_str
                            /\ given.last_str = 0 \/ attached[s][i][2] <= given.last_str

\* zsock_bind gives up the search only if no port of the range was free all the time, wherever the
\* search began and whatever other threads and processes bound and released meanwhile.
SearchFinds == \A s \in Socks : GaveUp(s) => unused[s] = {}

\* With the operator *, the search passes over no port that is free all the time: the first free
\* port of the range is taken.
FirstFree ==
    \A s \in Socks : Searching(s) /\ call[s].opcode = "*" =>
        \A p \in unused[s] : p >= call[s].port \/ call[s].attempts = 0

\* Every call ends, also when others keep binding and releasing the ports it tries.
CallsEnd == \A s \in Socks : call[s].state # "idle" ~> call[s].state = "idle"

=============================================================================
