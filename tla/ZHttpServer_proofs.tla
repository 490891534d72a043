-------------------------- MODULE ZHttpServer_proofs ---------------------------
(***************************************************************************)
(* Proofs about zhttp_server, for any connections, workers and number of   *)
(* requests.  A connection is suspended while its request is in one place: *)
(* in the hands of the actor, in the queue of a worker, with a worker, or  *)
(* in an answer (TokenInv, OnePlace).  The headers of a request have one   *)
(* owner, which follows those places (OwnerInv, HoldsInv).                 *)
(***************************************************************************)
EXTENDS ZHttpServer, SequenceTheorems, TLAPS

Request == [c : Connections, n : 1 .. MaxRequests]
States == {"idle", "sending", "upload", "aborted", "suspended", "replying"}
Owners == {"none", "request_t", "message", "zhttp_request", "freed", "twice"}
Connection ==
    [state : States, count : 0 .. MaxRequests, parts : 0 .. 1, received : Nat,
     headers : BOOLEAN]
Worker ==
    [connected : BOOLEAN, queue : Seq(Request), holds : Request \cup {NoRequest},
     busy : BOOLEAN]

HttpType ==
    /\ place \in {"run", "api", "backend", "select", "destroy", "done"}
    /\ handling \in Connections \cup {"none"}
    /\ pending \in Seq(Connections)
    /\ conn \in [Connections -> Connection]
    /\ replies \in Seq(Request)
    /\ worker \in [Workers -> Worker]
    /\ owner \in [Connections -> [1 .. MaxRequests -> Owners]]
    /\ answered \in [Connections -> Seq(Nat)]

\* Where the actor is: it sends requests while it runs, and nothing is left at the end.
PlaceInv ==
    /\ handling # "none" => place = "run" /\ conn[handling].state = "suspended"
    /\ place = "done" => replies = <<>> /\ \A w \in Workers : worker[w].queue = <<>>

\* A request that somebody has to answer is the last one of a suspended connection.
Outstanding(r) ==
    conn[r.c].state = "suspended" /\ r.n = conn[r.c].count /\ r.c # handling

TokenInv ==
    /\ \A w \in Workers : \A i \in DOMAIN worker[w].queue : Outstanding(worker[w].queue[i])
    /\ \A w \in Workers : worker[w].busy /\ place # "done" => Outstanding(worker[w].holds)
    /\ \A i \in DOMAIN replies : Outstanding(replies[i])

\* It is in one place.
OnePlace ==
    /\ \A v, w \in Workers : \A i \in DOMAIN worker[v].queue, j \in DOMAIN worker[w].queue :
          worker[v].queue[i].c = worker[w].queue[j].c => v = w /\ i = j
    /\ \A v, w \in Workers : \A i \in DOMAIN worker[v].queue :
          worker[w].busy => worker[v].queue[i].c # worker[w].holds.c
    /\ \A v \in Workers : \A i \in DOMAIN worker[v].queue, j \in DOMAIN replies :
          worker[v].queue[i].c # replies[j].c
    /\ \A v, w \in Workers :
          worker[v].busy /\ worker[w].busy /\ worker[v].holds.c = worker[w].holds.c => v = w
    /\ \A v \in Workers : \A j \in DOMAIN replies :
          worker[v].busy => worker[v].holds.c # replies[j].c
    /\ \A i, j \in DOMAIN replies : replies[i].c = replies[j].c => i = j

\* The owner of the headers on the side of the server.
OwnerOf(c) ==
    /\ conn[c].state # "idle" => conn[c].count >= 1
    /\ conn[c].state \in {"idle", "sending"} => ~conn[c].headers
    /\ conn[c].state = "sending" => owner[c][conn[c].count] = "none"
    /\ conn[c].state \in {"upload", "aborted"} \/ handling = c \/ conn[c].headers
          => owner[c][conn[c].count] = "request_t"
    /\ \A n \in 1 .. MaxRequests :
          /\ n > conn[c].count => owner[c][n] = "none"
          /\ owner[c][n] # "twice"

OwnerInv == \A c \in Connections : OwnerOf(c)

\* And on the side of the workers.
HoldsInv ==
    /\ \A w \in Workers : \A i \in DOMAIN worker[w].queue :
          owner[worker[w].queue[i].c][worker[w].queue[i].n] = "message"
    /\ \A w \in Workers :
          worker[w].holds # NoRequest => owner[worker[w].holds.c][worker[w].holds.n] = "zhttp_request"
    /\ \A w \in Workers : worker[w].busy => worker[w].holds # NoRequest
    /\ \A v, w \in Workers :
          worker[v].holds = worker[w].holds /\ worker[v].holds # NoRequest => v = w

PendingInv ==
    /\ \A i, j \in DOMAIN pending : pending[i] = pending[j] => i = j
    /\ \A i \in DOMAIN pending : conn[pending[i]].state = "suspended"
    /\ \A c \in Connections :
          conn[c].state = "suspended" => \E i \in DOMAIN pending : pending[i] = c

\* The request of a connection that is not answered yet is not among the answers.
AnsweredOf(c) ==
    /\ \A i \in DOMAIN answered[c] :
          /\ answered[c][i] <= conn[c].count
          /\ conn[c].state \notin {"idle", "replying"} => answered[c][i] < conn[c].count
    /\ \A i, j \in DOMAIN answered[c] : answered[c][i] = answered[c][j] => i = j

AnsweredInv == \A c \in Connections : AnsweredOf(c)

HttpInv ==
    /\ HttpType /\ PlaceInv /\ TokenInv /\ OnePlace /\ OwnerInv /\ HoldsInv
    /\ PendingInv /\ AnsweredInv

-----------------------------------------------------------------------------
(* Steps of a connection whose request nobody has to answer. *)

\* Everything the places and the headers depend on, but the connections and the owners.
Around == <<place, handling, worker, replies, pending>>

\* The types of what a connection, a worker and the queue of replies hold.
LEMMA Types ==
    ASSUME HttpInv
    PROVE  /\ \A c \in Connections :
                 /\ conn[c] \in Connection /\ conn[c].state \in States
                 /\ conn[c].count \in Nat /\ conn[c].count <= MaxRequests
                 /\ owner[c] \in [1 .. MaxRequests -> Owners]
           /\ \A w \in Workers :
                 /\ worker[w].queue \in Seq(Request)
                 /\ \A i \in DOMAIN worker[w].queue : worker[w].queue[i] \in Request
                 /\ worker[w].busy => worker[w].holds \in Request
           /\ \A i \in DOMAIN replies : replies[i] \in Request
<1>1. HttpType
    BY DEF HttpInv
<1>2. ASSUME NEW c \in Connections
      PROVE  /\ conn[c] \in Connection /\ conn[c].state \in States
             /\ conn[c].count \in Nat /\ conn[c].count <= MaxRequests
             /\ owner[c] \in [1 .. MaxRequests -> Owners]
    BY <1>1, HttpAssumption DEF HttpType, Connection
<1>3. ASSUME NEW w \in Workers
      PROVE  /\ worker[w].queue \in Seq(Request)
             /\ worker[w].holds \in Request \cup {NoRequest}
    BY <1>1 DEF HttpType, Worker
<1>4. ASSUME NEW w \in Workers, worker[w].busy  PROVE worker[w].holds \in Request
    BY <1>3, <1>4 DEF HttpInv, HoldsInv
<1>5. ASSUME NEW w \in Workers, NEW i \in DOMAIN worker[w].queue
      PROVE  worker[w].queue[i] \in Request
    BY <1>3
<1>6. \A i \in DOMAIN replies : replies[i] \in Request
    BY <1>1 DEF HttpType
<1> QED  BY <1>2, <1>3, <1>4, <1>5, <1>6

\* A step of one connection that neither was nor becomes suspended keeps the
\* others, and what waits for an answer.
LEMMA ElsewhereStep ==
    ASSUME HttpInv, NEW c \in Connections,
           conn[c].state # "suspended", conn'[c].state # "suspended",
           \A d \in Connections : d # c => conn'[d] = conn[d],
           UNCHANGED Around
    PROVE  PlaceInv' /\ TokenInv' /\ OnePlace' /\ PendingInv'
<1>0. UNCHANGED <<place, handling, worker, replies, pending>>
    BY DEF Around
<1>1. ASSUME NEW r \in Request, Outstanding(r)  PROVE Outstanding(r)'
  <2>1. r.c \in Connections /\ r.c # c
      BY <1>1 DEF Request, Outstanding
  <2> QED  BY <2>1, <1>0, <1>1 DEF Outstanding
<1>2. TokenInv'
  <2>1. ASSUME NEW w \in Workers, NEW i \in DOMAIN worker[w].queue
        PROVE  Outstanding(worker[w].queue[i])'
    <3>1. Outstanding(worker[w].queue[i]) /\ worker[w].queue[i] \in Request
        BY Types DEF HttpInv, TokenInv
    <3> QED  BY <3>1, <1>0, <1>1 DEF Outstanding
  <2>2. ASSUME NEW w \in Workers, worker[w].busy, place # "done"
        PROVE  Outstanding(worker[w].holds)'
    <3>1. Outstanding(worker[w].holds) /\ worker[w].holds \in Request
        BY <2>2, Types DEF HttpInv, TokenInv
    <3> QED  BY <3>1, <1>0, <1>1 DEF Outstanding
  <2>3. ASSUME NEW i \in DOMAIN replies  PROVE Outstanding(replies[i])'
    <3>1. Outstanding(replies[i]) /\ replies[i] \in Request
        BY Types DEF HttpInv, TokenInv
    <3> QED  BY <3>1, <1>0, <1>1 DEF Outstanding
  <2> QED  BY <2>1, <2>2, <2>3, <1>0 DEF TokenInv
<1>3. OnePlace'
    BY <1>0 DEF HttpInv, OnePlace
<1>4. PlaceInv'
  <2>1. handling # "none" => handling \in Connections
      BY DEF HttpInv, HttpType
  <2> QED  BY <2>1, <1>0 DEF HttpInv, PlaceInv
<1>5. PendingInv'
  <2>1. \A i \in DOMAIN pending : pending[i] \in Connections
      BY DEF HttpInv, HttpType
  <2> QED  BY <2>1, <1>0 DEF HttpInv, PendingInv
<1> QED  BY <1>2, <1>3, <1>4, <1>5

\* What is not touched stays as it was.
LEMMA OthersKept ==
    ASSUME HttpInv, NEW d \in Connections, conn'[d] = conn[d]
    PROVE  /\ owner'[d] = owner[d] /\ (handling' = d => handling = d) => OwnerOf(d)'
           /\ answered'[d] = answered[d] => AnsweredOf(d)'
<1>1. OwnerOf(d) /\ AnsweredOf(d)
    BY DEF HttpInv, OwnerInv, AnsweredInv
<1>2. ASSUME owner'[d] = owner[d], handling' = d => handling = d  PROVE OwnerOf(d)'
    BY <1>1, <1>2 DEF OwnerOf
<1>3. ASSUME answered'[d] = answered[d]  PROVE AnsweredOf(d)'
    BY <1>1, <1>3 DEF AnsweredOf
<1> QED  BY <1>2, <1>3

\* A connection goes from one state to another with the same request.
LEMMA AnsweredKept ==
    ASSUME HttpInv, NEW c \in Connections, answered' = answered,
           conn'[c].count = conn[c].count,
           conn[c].state \notin {"idle", "replying"} \/ conn'[c].state \in {"idle", "replying"},
           \A d \in Connections : d # c => conn'[d] = conn[d]
    PROVE  AnsweredInv'
<1>1. ASSUME NEW d \in Connections, d # c  PROVE AnsweredOf(d)'
    BY <1>1, OthersKept
<1>2. AnsweredOf(c)
    BY DEF HttpInv, AnsweredInv
<1>3. AnsweredOf(c)'
    BY <1>2 DEF AnsweredOf
<1> QED  BY <1>1, <1>3 DEF AnsweredInv

\* A client sends a request on an idle connection.
LEMMA RequestStep ==
    ASSUME HttpInv, NEW c \in Connections, NEW parts \in 0 .. 1, client_request(c, parts)
    PROVE  HttpInv'
<1>1. /\ conn[c].state = "idle" /\ conn[c].count < MaxRequests
      /\ conn' = [conn EXCEPT ![c].state = "sending", ![c].count = @ + 1, ![c].parts = parts]
      /\ UNCHANGED Around /\ owner' = owner /\ answered' = answered
    BY DEF client_request, Around
<1>2. conn \in [Connections -> Connection] /\ MaxRequests \in Nat
    BY HttpAssumption DEF HttpInv, HttpType
<1>3. /\ conn' \in [Connections -> Connection]
      /\ conn'[c].state = "sending" /\ conn'[c].count = conn[c].count + 1
      /\ conn'[c].headers = conn[c].headers
      /\ \A d \in Connections : d # c => conn'[d] = conn[d]
    BY <1>1, <1>2 DEF Connection, States
<1>4. HttpType'
    BY <1>1, <1>3 DEF HttpInv, HttpType, Around
<1>5. PlaceInv' /\ TokenInv' /\ OnePlace' /\ PendingInv'
    BY <1>1, <1>3, ElsewhereStep
<1>6. HoldsInv'
    BY <1>1 DEF HttpInv, HoldsInv, Around
<1>7. OwnerInv'
  <2>1. ASSUME NEW d \in Connections, d # c  PROVE OwnerOf(d)'
      BY <2>1, <1>1, <1>3, OthersKept DEF Around
  <2>2. ~conn[c].headers /\ ~conn'[c].headers
      BY <1>1, <1>3 DEF HttpInv, OwnerInv, OwnerOf
  <2>3. handling # c
      BY <1>1, HttpAssumption DEF HttpInv, PlaceInv
  <2>4. conn'[c].count \in 1 .. MaxRequests
      BY <1>1, <1>2, <1>3, Types
  <2>5. \A n \in 1 .. MaxRequests :
            (n > conn[c].count => owner[c][n] = "none") /\ owner[c][n] # "twice"
      BY DEF HttpInv, OwnerInv, OwnerOf
  <2>6. owner[c][conn'[c].count] = "none" /\ \A n \in 1 .. MaxRequests :
            (n > conn'[c].count => owner[c][n] = "none") /\ owner[c][n] # "twice"
      BY <2>4, <2>5, <1>3, Types
  <2>7. OwnerOf(c)'
      BY <2>2, <2>3, <2>4, <2>6, <1>1, <1>3 DEF OwnerOf, Around
  <2> QED  BY <2>1, <2>7 DEF OwnerInv
<1>8. AnsweredInv'
  <2>1. ASSUME NEW d \in Connections, d # c  PROVE AnsweredOf(d)'
      BY <2>1, <1>1, <1>3, OthersKept
  <2>2. ASSUME NEW i \in DOMAIN answered[c]
        PROVE  answered[c][i] <= conn'[c].count /\ answered[c][i] < conn'[c].count
    <3>1. answered[c][i] \in Nat /\ conn[c].count \in Nat /\ answered[c][i] <= conn[c].count
        BY Types DEF HttpInv, HttpType, AnsweredInv, AnsweredOf
    <3> QED  BY <3>1, <1>3
  <2>3. AnsweredOf(c)'
      BY <2>2, <1>1 DEF HttpInv, AnsweredInv, AnsweredOf
  <2> QED  BY <2>1, <2>3 DEF AnsweredInv
<1> QED  BY <1>4, <1>5, <1>6, <1>7, <1>8 DEF HttpInv

\* A client gives up in the middle of an upload.
LEMMA AbortStep ==
    ASSUME HttpInv, NEW c \in Connections, client_abort(c)  PROVE HttpInv'
<1>1. /\ conn[c].state = "upload" /\ conn' = [conn EXCEPT ![c].state = "aborted"]
      /\ UNCHANGED Around /\ owner' = owner /\ answered' = answered
    BY DEF client_abort, Around
<1>2. /\ conn' \in [Connections -> Connection]
      /\ conn'[c].state = "aborted" /\ conn'[c].count = conn[c].count
      /\ conn'[c].headers = conn[c].headers
      /\ \A d \in Connections : d # c => conn'[d] = conn[d]
    BY <1>1 DEF HttpInv, HttpType, Connection, States
<1>3. HttpType'
    BY <1>1, <1>2 DEF HttpInv, HttpType, Around
<1>4. PlaceInv' /\ TokenInv' /\ OnePlace' /\ PendingInv'
    BY <1>1, <1>2, ElsewhereStep
<1>5. HoldsInv'
    BY <1>1 DEF HttpInv, HoldsInv, Around
<1>6. OwnerInv'
  <2>1. ASSUME NEW d \in Connections, d # c  PROVE OwnerOf(d)'
      BY <2>1, <1>1, <1>2, OthersKept DEF Around
  <2>2. OwnerOf(c)
      BY DEF HttpInv, OwnerInv
  <2>3. OwnerOf(c)'
      BY <2>2, <1>1, <1>2 DEF OwnerOf, Around
  <2> QED  BY <2>1, <2>3 DEF OwnerInv
<1>7. AnsweredInv'
    BY <1>1, <1>2, AnsweredKept
<1> QED  BY <1>3, <1>4, <1>5, <1>6, <1>7 DEF HttpInv

\* The headers that workers hold are not touched by what the server does with its own.
LEMMA HoldsKept ==
    ASSUME HttpInv, worker' = worker,
           \A d \in Connections, n \in 1 .. MaxRequests :
               owner[d][n] \in {"message", "zhttp_request"} => owner'[d][n] = owner[d][n]
    PROVE  HoldsInv'
<1>1. ASSUME NEW w \in Workers, NEW i \in DOMAIN worker[w].queue
      PROVE  owner'[worker[w].queue[i].c][worker[w].queue[i].n] = "message"
  <2>1. worker[w].queue[i].c \in Connections /\ worker[w].queue[i].n \in 1 .. MaxRequests
      BY Types DEF Request
  <2>2. owner[worker[w].queue[i].c][worker[w].queue[i].n] = "message"
      BY DEF HttpInv, HoldsInv
  <2> QED  BY <2>1, <2>2
<1>2. ASSUME NEW w \in Workers, worker[w].holds # NoRequest
      PROVE  owner'[worker[w].holds.c][worker[w].holds.n] = "zhttp_request"
  <2>1. worker[w].holds \in Request
      BY <1>2 DEF HttpInv, HttpType, Worker
  <2>2. worker[w].holds.c \in Connections /\ worker[w].holds.n \in 1 .. MaxRequests
      BY <2>1 DEF Request
  <2>3. owner[worker[w].holds.c][worker[w].holds.n] = "zhttp_request"
      BY <1>2 DEF HttpInv, HoldsInv
  <2> QED  BY <2>2, <2>3
<1> QED  BY <1>1, <1>2 DEF HttpInv, HoldsInv

\* suspend: the request is in the hands of the actor, and nowhere else.
LEMMA SuspendStep ==
    ASSUME HttpInv, NEW c \in Connections, Running, conn[c].state # "suspended",
           conn'[c].state = "suspended",
           \A d \in Connections : d # c => conn'[d] = conn[d],
           handling' = c, pending' = Append(pending, c), UNCHANGED <<place, worker, replies>>
    PROVE  PlaceInv' /\ TokenInv' /\ OnePlace' /\ PendingInv'
<1>0. place = "run" /\ handling = "none"
    BY DEF Running
<1>1. ASSUME NEW r \in Request, Outstanding(r)  PROVE Outstanding(r)'
  <2>1. r.c \in Connections /\ r.c # c
      BY <1>1 DEF Request, Outstanding
  <2> QED  BY <2>1, <1>1 DEF Outstanding
<1>2. TokenInv'
  <2>1. ASSUME NEW w \in Workers, NEW i \in DOMAIN worker[w].queue
        PROVE  Outstanding(worker[w].queue[i])'
    <3>1. Outstanding(worker[w].queue[i]) /\ worker[w].queue[i] \in Request
        BY Types DEF HttpInv, TokenInv
    <3> QED  BY <3>1, <1>1 DEF Outstanding
  <2>2. ASSUME NEW w \in Workers, worker[w].busy  PROVE Outstanding(worker[w].holds)'
    <3>1. Outstanding(worker[w].holds) /\ worker[w].holds \in Request
        BY <2>2, <1>0, Types DEF HttpInv, TokenInv
    <3> QED  BY <3>1, <1>1 DEF Outstanding
  <2>3. ASSUME NEW i \in DOMAIN replies  PROVE Outstanding(replies[i])'
    <3>1. Outstanding(replies[i]) /\ replies[i] \in Request
        BY Types DEF HttpInv, TokenInv
    <3> QED  BY <3>1, <1>1 DEF Outstanding
  <2> QED  BY <2>1, <2>2, <2>3 DEF TokenInv
<1>3. OnePlace'
    BY DEF HttpInv, OnePlace
<1>4. PlaceInv'
    BY <1>0 DEF PlaceInv
<1>5. PendingInv'
  <2>1. pending \in Seq(Connections)
      BY DEF HttpInv, HttpType
  <2>2. \A i \in DOMAIN pending : pending[i] # c
      BY DEF HttpInv, PendingInv
  <2>3. /\ DOMAIN pending = 1 .. Len(pending) /\ Len(pending) \in Nat
        /\ DOMAIN pending' = 1 .. (Len(pending) + 1) /\ pending'[Len(pending) + 1] = c
        /\ \A i \in DOMAIN pending : pending'[i] = pending[i] /\ pending[i] \in Connections
      BY <2>1
  <2>4. \A i, j \in DOMAIN pending' : pending'[i] = pending'[j] => i = j
      BY <2>2, <2>3 DEF HttpInv, PendingInv
  <2>5. \A i \in DOMAIN pending' : conn'[pending'[i]].state = "suspended"
      BY <2>2, <2>3 DEF HttpInv, PendingInv
  <2>6. ASSUME NEW d \in Connections, conn'[d].state = "suspended"
        PROVE  \E i \in DOMAIN pending' : pending'[i] = d
    <3>1. CASE d = c
        BY <3>1, <2>3
    <3>2. CASE d # c
      <4>1. PICK i \in DOMAIN pending : pending[i] = d
          BY <3>2, <2>6 DEF HttpInv, PendingInv
      <4>2. i \in DOMAIN pending' /\ pending'[i] = d
          BY <4>1, <2>3
      <4> QED  BY <4>2
    <3> QED  BY <3>1, <3>2
  <2> QED  BY <2>4, <2>5, <2>6 DEF PendingInv
<1> QED  BY <1>2, <1>3, <1>4, <1>5

\* The callback that has the headers of a request.
LEMMA HeaderStep ==
    ASSUME HttpInv, NEW c \in Connections, handle_header(c)  PROVE HttpInv'
<1> DEFINE fresh == [conn[c] EXCEPT !.headers = TRUE, !.received = 0]
<1>1. /\ Running /\ conn[c].state = "sending"
      /\ owner' = [owner EXCEPT ![c][conn[c].count] = "request_t"]
      /\ UNCHANGED <<place, worker, replies, answered>>
    BY DEF handle_header
<1>2. \/ /\ conn' = [conn EXCEPT ![c] = [fresh EXCEPT !.state = "upload"]]
         /\ UNCHANGED <<handling, pending>>
      \/ /\ conn' = [conn EXCEPT ![c] = [fresh EXCEPT !.state = "suspended"]]
         /\ handling' = c /\ pending' = Append(pending, c)
    BY DEF handle_header, suspend
<1>3. conn \in [Connections -> Connection] /\ conn[c] \in Connection
    BY DEF HttpInv, HttpType
<1>4. \A state \in {"upload", "suspended"} :
         /\ [fresh EXCEPT !.state = state] \in Connection
         /\ [fresh EXCEPT !.state = state].state = state
         /\ [fresh EXCEPT !.state = state].count = conn[c].count
    BY <1>3 DEF Connection, States
<1> HIDE DEF fresh
<1>5. /\ conn' \in [Connections -> Connection]
      /\ conn'[c].count = conn[c].count /\ conn'[c].state \in {"upload", "suspended"}
      /\ \A d \in Connections : d # c => conn'[d] = conn[d]
    BY <1>2, <1>3, <1>4
<1>6. conn[c].count \in 1 .. MaxRequests /\ conn[c].count >= 1
    BY <1>1, Types, HttpAssumption DEF HttpInv, OwnerInv, OwnerOf
<1>7. /\ owner' \in [Connections -> [1 .. MaxRequests -> Owners]]
      /\ owner'[c][conn[c].count] = "request_t"
      /\ \A n \in 1 .. MaxRequests : n # conn[c].count => owner'[c][n] = owner[c][n]
      /\ \A d \in Connections : d # c => owner'[d] = owner[d]
    BY <1>1, <1>6 DEF HttpInv, HttpType, Owners
<1>8. HttpType'
  <2>0. handling \in Connections \cup {"none"} /\ pending \in Seq(Connections)
      BY DEF HttpInv, HttpType
  <2>1. handling' \in Connections \cup {"none"} /\ pending' \in Seq(Connections)
      BY <2>0, <1>2
  <2> QED  BY <2>1, <1>1, <1>5, <1>7 DEF HttpInv, HttpType
<1>9. PlaceInv' /\ TokenInv' /\ OnePlace' /\ PendingInv'
  <2>1. CASE handling' = handling /\ pending' = pending /\ conn'[c].state = "upload"
      BY <2>1, <1>1, <1>5, ElsewhereStep DEF Around
  <2>2. CASE handling' = c /\ pending' = Append(pending, c) /\ conn'[c].state = "suspended"
      BY <2>2, <1>1, <1>5, SuspendStep
  <2> QED  BY <2>1, <2>2, <1>2, <1>3, <1>4
<1>10. HoldsInv'
  <2>1. owner[c][conn[c].count] = "none"
      BY <1>1 DEF HttpInv, OwnerInv, OwnerOf
  <2> QED  BY <2>1, <1>1, <1>7, HoldsKept
<1>11. OwnerInv'
  <2>1. ASSUME NEW d \in Connections, d # c  PROVE OwnerOf(d)'
      BY <2>1, <1>2, <1>5, <1>7, OthersKept
  <2>2. \A n \in 1 .. MaxRequests :
            (n > conn[c].count => owner[c][n] = "none") /\ owner[c][n] # "twice"
      BY DEF HttpInv, OwnerInv, OwnerOf
  <2>3. \A n \in 1 .. MaxRequests :
            (n > conn[c].count => owner'[c][n] = "none") /\ owner'[c][n] # "twice"
      BY <2>2, <1>6, <1>7
  <2>4. OwnerOf(c)'
      BY <2>3, <1>5, <1>6, <1>7 DEF OwnerOf
  <2> QED  BY <2>1, <2>4 DEF OwnerInv
<1>12. AnsweredInv'
    BY <1>1, <1>5, AnsweredKept
<1> QED  BY <1>8, <1>9, <1>10, <1>11, <1>12 DEF HttpInv

\* The callback that has a part of the content.
LEMMA UploadStep ==
    ASSUME HttpInv, NEW c \in Connections, handle_upload(c)  PROVE HttpInv'
<1>1. /\ Running /\ conn[c].state = "upload"
      /\ UNCHANGED <<place, worker, replies, owner, answered>>
    BY DEF handle_upload
<1>2. \/ /\ conn' = [conn EXCEPT ![c].received = @ + 1]
         /\ UNCHANGED <<handling, pending>>
      \/ /\ conn' = [conn EXCEPT ![c] = [conn[c] EXCEPT !.state = "suspended"]]
         /\ handling' = c /\ pending' = Append(pending, c)
    BY DEF handle_upload, suspend
<1>3. conn \in [Connections -> Connection]
    BY DEF HttpInv, HttpType
<1>4. /\ conn' \in [Connections -> Connection]
      /\ conn'[c].count = conn[c].count /\ conn'[c].state \in {"upload", "suspended"}
      /\ \A d \in Connections : d # c => conn'[d] = conn[d]
  <2>1. CASE conn' = [conn EXCEPT ![c].received = @ + 1]
    <3>1. conn[c].received + 1 \in Nat
        BY <1>3 DEF Connection
    <3> QED  BY <2>1, <3>1, <1>1, <1>3 DEF Connection
  <2>2. CASE conn' = [conn EXCEPT ![c] = [conn[c] EXCEPT !.state = "suspended"]]
      BY <2>2, <1>3 DEF Connection, States
  <2> QED  BY <2>1, <2>2, <1>2
<1>5. \/ handling' = handling /\ pending' = pending /\ conn'[c].state = "upload"
      \/ handling' = c /\ pending' = Append(pending, c) /\ conn'[c].state = "suspended"
    BY <1>1, <1>2, <1>3 DEF Connection
<1>6. HttpType'
  <2>0. handling \in Connections \cup {"none"} /\ pending \in Seq(Connections)
      BY DEF HttpInv, HttpType
  <2>1. handling' \in Connections \cup {"none"} /\ pending' \in Seq(Connections)
      BY <2>0, <1>5
  <2> QED  BY <2>1, <1>1, <1>4 DEF HttpInv, HttpType
<1>7. PlaceInv' /\ TokenInv' /\ OnePlace' /\ PendingInv'
    BY <1>1, <1>4, <1>5, ElsewhereStep, SuspendStep DEF Around
<1>8. HoldsInv'
    BY <1>1, HoldsKept
<1>9. OwnerInv'
  <2>1. ASSUME NEW d \in Connections, d # c  PROVE OwnerOf(d)'
      BY <2>1, <1>1, <1>4, <1>5, OthersKept
  <2>2. /\ owner[c][conn[c].count] = "request_t" /\ conn[c].count >= 1
        /\ \A n \in 1 .. MaxRequests :
              (n > conn[c].count => owner[c][n] = "none") /\ owner[c][n] # "twice"
      BY <1>1 DEF HttpInv, OwnerInv, OwnerOf
  <2>3. OwnerOf(c)'
      BY <2>2, <1>1, <1>4 DEF OwnerOf
  <2> QED  BY <2>1, <2>3 DEF OwnerInv
<1>10. AnsweredInv'
    BY <1>1, <1>4, AnsweredKept
<1> QED  BY <1>6, <1>7, <1>8, <1>9, <1>10 DEF HttpInv

\* request_destroy frees headers that the request_t owns, or none.
LEMMA RequestDestroyedOnce ==
    ASSUME HttpInv, NEW c \in Connections
    PROVE  /\ RequestDestroyed(c) \in [Connections -> [1 .. MaxRequests -> Owners]]
           /\ \A d \in Connections : d # c => RequestDestroyed(c)[d] = owner[d]
           /\ \A n \in 1 .. MaxRequests :
                 /\ n # conn[c].count => RequestDestroyed(c)[c][n] = owner[c][n]
                 /\ owner[c][n] \in {"message", "zhttp_request"} =>
                       RequestDestroyed(c)[c][n] = owner[c][n]
                 /\ RequestDestroyed(c)[c][n] # "twice"
<1>1. owner \in [Connections -> [1 .. MaxRequests -> Owners]]
      /\ \A n \in 1 .. MaxRequests : owner[c][n] # "twice"
    BY DEF HttpInv, HttpType, OwnerInv, OwnerOf
<1>2. CASE ~conn[c].headers
    BY <1>1, <1>2 DEF RequestDestroyed
<1>3. CASE conn[c].headers
  <2>1. owner[c][conn[c].count] = "request_t" /\ conn[c].state # "idle"
      BY <1>3 DEF HttpInv, OwnerInv, OwnerOf
  <2>2. conn[c].count \in 1 .. MaxRequests
      BY <2>1, Types, HttpAssumption DEF HttpInv, OwnerInv, OwnerOf
  <2>3. RequestDestroyed(c) = [owner EXCEPT ![c][conn[c].count] = "freed"]
      BY <2>1, <2>2, <1>1, <1>3 DEF RequestDestroyed, Free
  <2> QED  BY <2>1, <2>2, <2>3, <1>1 DEF Owners
<1> QED  BY <1>2, <1>3

\* A connection that is used again.
LEMMA IdleConnection ==
    ASSUME NEW k \in 0 .. MaxRequests
    PROVE  LET new == [Idle EXCEPT !.count = k] IN
           new \in Connection /\ new.state = "idle" /\ new.count = k /\ ~new.headers
<1> DEFINE new == [Idle EXCEPT !.count = k]
<1>1. Idle \in Connection
  <2>1. "idle" \in States /\ 0 \in 0 .. MaxRequests /\ 0 \in 0 .. 1 /\ 0 \in Nat
      BY HttpAssumption DEF States
  <2>2. FALSE \in BOOLEAN
      OBVIOUS
  <2> QED  BY <2>1, <2>2, Zenon DEF Idle, Connection
<1>2. Idle.state = "idle" /\ ~Idle.headers
    BY DEF Idle
<1>3. new \in Connection /\ new.count = k
    BY <1>1 DEF Connection
<1>4. new.state = Idle.state /\ new.headers = Idle.headers
    BY <1>1 DEF Connection
<1> QED  BY <1>2, <1>3, <1>4

\* The callback at the end of a request, which frees it.
LEMMA CompletedStep ==
    ASSUME HttpInv, NEW c \in Connections, handle_completed(c)  PROVE HttpInv'
<1>1. /\ place = "run" /\ handling = "none" /\ conn[c].state \in {"replying", "aborted"}
      /\ owner' = RequestDestroyed(c)
      /\ conn' = [conn EXCEPT ![c] = [Idle EXCEPT !.count = conn[c].count]]
      /\ UNCHANGED Around /\ answered' = answered
    BY DEF handle_completed, Running, Around
<1>2. /\ conn' \in [Connections -> Connection]
      /\ conn'[c].state = "idle" /\ conn'[c].count = conn[c].count
      /\ \A d \in Connections : d # c => conn'[d] = conn[d]
  <2>1. conn \in [Connections -> Connection] /\ conn[c].count \in 0 .. MaxRequests
      BY DEF HttpInv, HttpType, Connection
  <2> DEFINE new == [Idle EXCEPT !.count = conn[c].count]
  <2>2. new \in Connection /\ new.state = "idle" /\ new.count = conn[c].count
      BY <2>1, IdleConnection
  <2> HIDE DEF new
  <2>3. conn' = [conn EXCEPT ![c] = new]
      BY <1>1 DEF new
  <2> QED  BY <2>1, <2>2, <2>3
<1>3. ~conn'[c].headers
  <2>1. conn'[c] = [Idle EXCEPT !.count = conn[c].count]
      BY <1>1 DEF HttpInv, HttpType
  <2>2. conn[c].count \in 0 .. MaxRequests
      BY DEF HttpInv, HttpType, Connection
  <2> QED  BY <2>1, <2>2, IdleConnection
<1>4. HttpType'
    BY <1>1, <1>2, RequestDestroyedOnce DEF HttpInv, HttpType, Around
<1>5. PlaceInv' /\ TokenInv' /\ OnePlace' /\ PendingInv'
    BY <1>1, <1>2, ElsewhereStep
<1>6. HoldsInv'
  <2>1. ASSUME NEW d \in Connections, NEW n \in 1 .. MaxRequests,
               owner[d][n] \in {"message", "zhttp_request"}
        PROVE  owner'[d][n] = owner[d][n]
      BY <2>1, <1>1, RequestDestroyedOnce
  <2> QED  BY <2>1, <1>1, HoldsKept DEF Around
<1>7. OwnerInv'
  <2>1. ASSUME NEW d \in Connections, d # c  PROVE OwnerOf(d)'
      BY <2>1, <1>1, <1>2, RequestDestroyedOnce, OthersKept DEF Around
  <2>2. ASSUME NEW n \in 1 .. MaxRequests
        PROVE  (n > conn[c].count => owner'[c][n] = "none") /\ owner'[c][n] # "twice"
    <3>1. n > conn[c].count => owner[c][n] = "none"
        BY DEF HttpInv, OwnerInv, OwnerOf
    <3>2. n > conn[c].count => n # conn[c].count
        BY Types
    <3> QED  BY <3>1, <3>2, <1>1, RequestDestroyedOnce
  <2>3. handling' # c
      BY <1>1, HttpAssumption DEF Around
  <2>4. OwnerOf(c)'
      BY <2>2, <2>3, <1>2, <1>3 DEF OwnerOf
  <2> QED  BY <2>1, <2>4 DEF OwnerInv
<1>8. AnsweredInv'
    BY <1>1, <1>2, AnsweredKept
<1> QED  BY <1>4, <1>5, <1>6, <1>7, <1>8 DEF HttpInv

\* zsock_bsend: the request goes from the hands of the actor into the queue of a worker.
LEMMA SentStep ==
    ASSUME HttpInv, NEW c \in Connections, NEW w \in Workers, backend_send(c, w)
    PROVE  HttpInv'
<1> DEFINE r == [c |-> c, n |-> conn[c].count]
           queue == worker[w].queue
<1>1. /\ place = "run" /\ handling = c /\ handling' = "none"
      /\ worker' = [worker EXCEPT ![w].queue = Append(@, r)]
      /\ owner' = [owner EXCEPT ![c][conn[c].count] = "message"]
      /\ conn' = [conn EXCEPT ![c].headers = FALSE]
      /\ UNCHANGED <<place, pending, replies, answered>>
    BY DEF backend_send, headers_sent
<1>2. /\ conn[c].state = "suspended" /\ owner[c][conn[c].count] = "request_t"
      /\ conn[c].count >= 1 /\ c # "none"
    BY <1>1, HttpAssumption DEF HttpInv, PlaceInv, OwnerInv, OwnerOf
<1>3. conn[c].count \in 1 .. MaxRequests /\ r \in Request
    BY <1>2, Types, HttpAssumption DEF Request
<1>4. /\ conn' \in [Connections -> Connection]
      /\ conn'[c].state = conn[c].state /\ conn'[c].count = conn[c].count
      /\ \A d \in Connections : d # c => conn'[d] = conn[d]
    BY <1>1 DEF HttpInv, HttpType, Connection
<1>5. ~conn'[c].headers
    BY <1>1 DEF HttpInv, HttpType, Connection
<1>6. /\ owner' \in [Connections -> [1 .. MaxRequests -> Owners]]
      /\ owner'[c][conn[c].count] = "message"
      /\ \A n \in 1 .. MaxRequests : n # conn[c].count => owner'[c][n] = owner[c][n]
      /\ \A d \in Connections : d # c => owner'[d] = owner[d]
    BY <1>1, <1>3 DEF HttpInv, HttpType, Owners
<1>7. worker \in [Workers -> Worker] /\ queue \in Seq(Request)
    BY DEF HttpInv, HttpType, Worker
<1> HIDE DEF r
<1>8. /\ worker' \in [Workers -> Worker]
      /\ worker'[w].queue = Append(queue, r)
      /\ \A v \in Workers : v # w => worker'[v].queue = worker[v].queue
      /\ \A v \in Workers :
            worker'[v].holds = worker[v].holds /\ worker'[v].busy = worker[v].busy
  <2>1. Append(queue, r) \in Seq(Request)
      BY <1>3, <1>7
  <2> HIDE DEF queue
  <2>2. worker' = [worker EXCEPT ![w].queue = Append(queue, r)]
      BY <1>1 DEF queue
  <2> QED  BY <2>1, <2>2, <1>7 DEF Worker
<1> DEFINE new(v, i) == v = w /\ i = Len(queue) + 1
<1>9. ASSUME NEW v \in Workers, NEW i \in DOMAIN worker'[v].queue
      PROVE  \/ new(v, i) /\ worker'[v].queue[i] = r
             \/ /\ ~new(v, i) /\ i \in DOMAIN worker[v].queue
                /\ worker'[v].queue[i] = worker[v].queue[i]
  <2>1. CASE v = w
      BY <2>1, <1>7, <1>8, <1>3
  <2>2. CASE v # w
      BY <2>2, <1>8
  <2> QED  BY <2>1, <2>2
<1> HIDE DEF queue, new
<1>10. HttpType'
    BY <1>1, <1>4, <1>6, <1>8 DEF HttpInv, HttpType
<1>11. PlaceInv'
    BY <1>1 DEF PlaceInv
<1> DEFINE Due(q) ==
               conn'[q.c].state = "suspended" /\ q.n = conn'[q.c].count /\ q.c # handling'
<1>12. ASSUME NEW q \in Request, Outstanding(q)  PROVE q.c # c /\ Due(q)
  <2>1. q.c \in Connections /\ q.c # c /\ q.c # "none"
      BY <1>1, <1>12, HttpAssumption DEF Outstanding, Request
  <2> QED  BY <2>1, <1>1, <1>4, <1>12 DEF Outstanding
<1>13. Due(r) /\ r.c = c
    BY <1>1, <1>2, <1>4 DEF r
<1> HIDE DEF Due
<1>14. ASSUME NEW v \in Workers, NEW i \in DOMAIN worker[v].queue
       PROVE  worker[v].queue[i].c # c /\ Due(worker[v].queue[i])
    BY <1>12, Types DEF HttpInv, TokenInv
<1>15. ASSUME NEW v \in Workers, worker[v].busy
       PROVE  worker[v].holds.c # c /\ Due(worker[v].holds)
    BY <1>1, <1>12, <1>15, Types DEF HttpInv, TokenInv
<1>16. ASSUME NEW i \in DOMAIN replies
       PROVE  replies[i].c # c /\ Due(replies[i])
    BY <1>12, Types DEF HttpInv, TokenInv
<1>17. TokenInv'
  <2>1. ASSUME NEW v \in Workers, NEW i \in DOMAIN worker'[v].queue
        PROVE  Due(worker'[v].queue[i])
      BY <1>9, <1>13, <1>14
  <2>2. ASSUME NEW v \in Workers, worker'[v].busy  PROVE Due(worker'[v].holds)
      BY <2>2, <1>8, <1>15
  <2>3. ASSUME NEW i \in DOMAIN replies'  PROVE Due(replies'[i])
      BY <1>1, <1>16
  <2> QED  BY <2>1, <2>2, <2>3 DEF TokenInv, Outstanding, Due
<1>18. OnePlace'
  <2>1. ASSUME NEW v \in Workers, NEW u \in Workers, NEW i \in DOMAIN worker'[v].queue,
               NEW j \in DOMAIN worker'[u].queue,
               worker'[v].queue[i].c = worker'[u].queue[j].c
        PROVE  v = u /\ i = j
    <3>1. CASE new(v, i) /\ new(u, j)
        BY <3>1 DEF new
    <3>2. CASE ~new(v, i) /\ ~new(u, j)
        BY <3>2, <2>1, <1>9 DEF HttpInv, OnePlace
    <3>3. CASE new(v, i) /\ ~new(u, j)
        BY <3>3, <2>1, <1>9, <1>13, <1>14
    <3>4. CASE ~new(v, i) /\ new(u, j)
        BY <3>4, <2>1, <1>9, <1>13, <1>14
    <3> QED  BY <3>1, <3>2, <3>3, <3>4
  <2>2. ASSUME NEW v \in Workers, NEW u \in Workers, NEW i \in DOMAIN worker'[v].queue,
               worker'[u].busy
        PROVE  worker'[v].queue[i].c # worker'[u].holds.c
    <3>1. CASE new(v, i)
        BY <3>1, <2>2, <1>8, <1>9, <1>13, <1>15
    <3>2. CASE ~new(v, i)
        BY <3>2, <2>2, <1>8, <1>9 DEF HttpInv, OnePlace
    <3> QED  BY <3>1, <3>2
  <2>3. ASSUME NEW v \in Workers, NEW i \in DOMAIN worker'[v].queue, NEW j \in DOMAIN replies
        PROVE  worker'[v].queue[i].c # replies[j].c
    <3>1. CASE new(v, i)
        BY <3>1, <1>9, <1>13, <1>16
    <3>2. CASE ~new(v, i)
        BY <3>2, <1>9 DEF HttpInv, OnePlace
    <3> QED  BY <3>1, <3>2
  <2>4. /\ \A v, u \in Workers :
              worker'[v].busy /\ worker'[u].busy /\ worker'[v].holds.c = worker'[u].holds.c
                  => v = u
        /\ \A v \in Workers : \A j \in DOMAIN replies :
              worker'[v].busy => worker'[v].holds.c # replies[j].c
        /\ \A i, j \in DOMAIN replies : replies[i].c = replies[j].c => i = j
      BY <1>8 DEF HttpInv, OnePlace
  <2> QED  BY <2>1, <2>2, <2>3, <2>4, <1>1 DEF OnePlace
<1>19. HoldsInv'
  <2>1. ASSUME NEW v \in Workers, NEW i \in DOMAIN worker'[v].queue
        PROVE  owner'[worker'[v].queue[i].c][worker'[v].queue[i].n] = "message"
    <3>1. CASE new(v, i)
        BY <3>1, <1>6, <1>9 DEF r
    <3>2. CASE ~new(v, i)
      <4>1. /\ worker'[v].queue[i] = worker[v].queue[i] /\ i \in DOMAIN worker[v].queue
            /\ worker[v].queue[i].c \in Connections /\ worker[v].queue[i].c # c
          BY <3>2, <1>9, <1>14, Types DEF Request
      <4>2. owner[worker[v].queue[i].c][worker[v].queue[i].n] = "message"
          BY <4>1 DEF HttpInv, HoldsInv
      <4> QED  BY <4>1, <4>2, <1>6
    <3> QED  BY <3>1, <3>2
  <2>2. ASSUME NEW v \in Workers, worker[v].holds # NoRequest
        PROVE  owner'[worker[v].holds.c][worker[v].holds.n] = "zhttp_request"
    <3>1. worker[v].holds \in Request
        BY <2>2, <1>7 DEF Worker
    <3>2. worker[v].holds.c \in Connections /\ worker[v].holds.n \in 1 .. MaxRequests
        BY <3>1 DEF Request
    <3>3. owner[worker[v].holds.c][worker[v].holds.n] = "zhttp_request"
        BY <2>2 DEF HttpInv, HoldsInv
    <3>4. worker[v].holds.c # c \/ worker[v].holds.n # conn[c].count
        BY <3>3, <1>2
    <3> QED  BY <3>2, <3>3, <3>4, <1>6
  <2> QED  BY <2>1, <2>2, <1>8 DEF HttpInv, HoldsInv
<1>20. PendingInv'
  <2>1. \A d \in Connections : conn'[d].state = conn[d].state
      BY <1>4
  <2>2. \A i \in DOMAIN pending : pending[i] \in Connections
      BY DEF HttpInv, HttpType
  <2> QED  BY <2>1, <2>2, <1>1 DEF HttpInv, PendingInv
<1>21. OwnerInv'
  <2>1. ASSUME NEW d \in Connections, d # c  PROVE OwnerOf(d)'
      BY <2>1, <1>1, <1>4, <1>6, HttpAssumption, OthersKept
  <2>2. ASSUME NEW n \in 1 .. MaxRequests
        PROVE  (n > conn[c].count => owner'[c][n] = "none") /\ owner'[c][n] # "twice"
    <3>1. (n > conn[c].count => owner[c][n] = "none") /\ owner[c][n] # "twice"
        BY DEF HttpInv, OwnerInv, OwnerOf
    <3>2. CASE n = conn[c].count
        BY <3>2, <1>3, <1>6
    <3>3. CASE n # conn[c].count
        BY <3>1, <3>3, <1>6
    <3> QED  BY <3>2, <3>3
  <2>3. OwnerOf(c)'
      BY <2>2, <1>1, <1>2, <1>4, <1>5 DEF OwnerOf
  <2> QED  BY <2>1, <2>3 DEF OwnerInv
<1>22. AnsweredInv'
    BY <1>1, <1>2, <1>4, AnsweredKept
<1> QED  BY <1>10, <1>11, <1>17, <1>18, <1>19, <1>20, <1>21, <1>22 DEF HttpInv

-----------------------------------------------------------------------------
(* The other steps. *)

\* A list without one of its items, which are all different: zlistx_delete of what
\* zlistx_find returns.
LEMMA RemoveOne ==
    ASSUME NEW S, NEW s \in Seq(S), NEW k \in DOMAIN s,
           \A i, j \in DOMAIN s : s[i] = s[j] => i = j
    PROVE  LET t == RemoveFirst(s, s[k]) IN
           /\ t \in Seq(S)
           /\ \A i, j \in DOMAIN t : t[i] = t[j] => i = j
           /\ \A i \in DOMAIN t : t[i] # s[k] /\ \E j \in DOMAIN s : s[j] = t[i]
           /\ \A j \in DOMAIN s : s[j] # s[k] => \E i \in DOMAIN t : t[i] = s[j]
<1> DEFINE t == RemoveFirst(s, s[k])
           I == {i \in 1 .. Len(s) : s[i] = s[k]}
<1>1. DOMAIN s = 1 .. Len(s) /\ Len(s) \in Nat /\ k \in 1 .. Len(s)
    OBVIOUS
<1>2. I = {k}
    BY <1>1
<1>3. t = IF \E i \in 1 .. Len(s) : s[i] = s[k]
          THEN RemoveAt(s, IF I # {} THEN Min(I) ELSE 0) ELSE s
    BY DEF RemoveFirst, SelectInSeq
<1>4. Min({k}) = k
    BY <1>1 DEF Min
<1>5. t = SubSeq(s, 1, k - 1) \o SubSeq(s, k + 1, Len(s))
    BY <1>1, <1>2, <1>3, <1>4 DEF RemoveAt
<1> HIDE DEF t, I
<1> DEFINE a == SubSeq(s, 1, k - 1)
           b == SubSeq(s, k + 1, Len(s))
<1>6. a \in Seq(S) /\ Len(a) = k - 1 /\ \A i \in 1 .. (k - 1) : a[i] = s[i]
    BY <1>1
<1>7. b \in Seq(S) /\ Len(b) = Len(s) - k /\ \A i \in 1 .. (Len(s) - k) : b[i] = s[k + i]
  <2>1. \A i \in (k + 1) .. Len(s) : s[i] \in S
      BY <1>1
  <2>2. /\ b \in Seq(S)
        /\ Len(b) = IF k + 1 <= Len(s) THEN Len(s) - (k + 1) + 1 ELSE 0
        /\ \A i \in 1 .. (Len(s) - (k + 1) + 1) : b[i] = s[k + 1 + i - 1]
      BY <2>1, <1>1, SubSeqProperties
  <2> HIDE DEF b
  <2>3. Len(b) = Len(s) - k
      BY <2>2, <1>1
  <2>4. ASSUME NEW i \in 1 .. (Len(s) - k)  PROVE b[i] = s[k + i]
    <3>1. i \in 1 .. (Len(s) - (k + 1) + 1) /\ k + 1 + i - 1 = k + i
        BY <1>1
    <3> QED  BY <2>2, <3>1
  <2> QED  BY <2>2, <2>3, <2>4
<1> HIDE DEF a, b
<1>8. /\ t \in Seq(S) /\ Len(t) = Len(s) - 1 /\ DOMAIN t = 1 .. (Len(s) - 1)
      /\ \A i \in 1 .. (k - 1) : t[i] = s[i]
      /\ \A i \in k .. (Len(s) - 1) : t[i] = s[i + 1]
  <2>1. t = a \o b
      BY <1>5 DEF a, b
  <2>2. /\ t \in Seq(S) /\ Len(t) = Len(a) + Len(b)
        /\ \A i \in 1 .. (Len(a) + Len(b)) :
              t[i] = IF i <= Len(a) THEN a[i] ELSE b[i - Len(a)]
    <3>1. a \in Seq(S) /\ b \in Seq(S)
        BY <1>6, <1>7
    <3> HIDE DEF t
    <3> QED  BY <2>1, <3>1, ConcatProperties
  <2>3. Len(t) = Len(s) - 1 /\ DOMAIN t = 1 .. (Len(s) - 1)
      BY <2>2, <1>1, <1>6, <1>7
  <2>4. \A i \in 1 .. (k - 1) : t[i] = s[i]
      BY <2>2, <1>1, <1>6, <1>7
  <2>5. ASSUME NEW i \in k .. (Len(s) - 1)  PROVE t[i] = s[i + 1]
    <3>1. t[i] = b[i - (k - 1)]
        BY <2>2, <1>1, <1>6, <1>7
    <3>2. i - (k - 1) \in 1 .. (Len(s) - k) /\ k + (i - (k - 1)) = i + 1
        BY <1>1
    <3> QED  BY <3>1, <3>2, <1>7
  <2> QED  BY <2>2, <2>3, <2>4, <2>5
<1>9. ASSUME NEW i \in DOMAIN t
      PROVE  \E j \in DOMAIN s : s[j] = t[i] /\ j # k /\ (j = i \/ j = i + 1)
  <2>1. CASE i < k
      BY <2>1, <1>1, <1>8
  <2>2. CASE i >= k
    <3>1. i + 1 \in DOMAIN s /\ s[i + 1] = t[i] /\ i + 1 # k
        BY <2>2, <1>1, <1>8
    <3> QED  BY <3>1
  <2> QED  BY <2>1, <2>2, <1>1, <1>8
<1>10. \A i \in DOMAIN t : t[i] # s[k] /\ \E j \in DOMAIN s : s[j] = t[i]
    BY <1>9
<1>11. ASSUME NEW i \in DOMAIN t, NEW j \in DOMAIN t, t[i] = t[j]  PROVE i = j
  <2>1. CASE i < k /\ j < k
      BY <2>1, <1>1, <1>8, <1>11
  <2>2. CASE i >= k /\ j >= k
    <3>1. i + 1 \in DOMAIN s /\ j + 1 \in DOMAIN s /\ s[i + 1] = s[j + 1]
        BY <2>2, <1>1, <1>8, <1>11
    <3> QED  BY <3>1, <1>8
  <2>3. CASE i < k /\ j >= k
    <3>1. i \in DOMAIN s /\ j + 1 \in DOMAIN s /\ s[i] = s[j + 1] /\ i # j + 1
        BY <2>3, <1>1, <1>8, <1>11
    <3> QED  BY <3>1
  <2>4. CASE i >= k /\ j < k
    <3>1. j \in DOMAIN s /\ i + 1 \in DOMAIN s /\ s[j] = s[i + 1] /\ j # i + 1
        BY <2>4, <1>1, <1>8, <1>11
    <3> QED  BY <3>1
  <2> QED  BY <2>1, <2>2, <2>3, <2>4, <1>1, <1>8
<1>12. ASSUME NEW j \in DOMAIN s, s[j] # s[k]  PROVE \E i \in DOMAIN t : t[i] = s[j]
  <2>1. CASE j < k
      BY <2>1, <1>1, <1>8
  <2>2. CASE j > k
    <3>1. j - 1 \in DOMAIN t /\ t[j - 1] = s[j]
        BY <2>2, <1>1, <1>8
    <3> QED  BY <3>1
  <2> QED  BY <2>1, <2>2, <1>1, <1>12
<1> QED  BY <1>8, <1>10, <1>11, <1>12 DEF t

\* The steps that move no request.
Aside ==
    /\ place' \in {"run", "api", "backend", "select", "destroy", "done"}
    /\ place' = "done" <=> place = "done"
    /\ handling # "none" => place' = "run"
    /\ UNCHANGED <<handling, pending, conn, replies, owner, answered>>
    /\ worker' \in [Workers -> Worker]
    /\ \A w \in Workers : /\ worker'[w].queue = worker[w].queue
                          /\ worker'[w].holds = worker[w].holds
                          /\ worker'[w].busy = worker[w].busy

\* A step that moves no request keeps the invariant.
LEMMA AsideStep ==
    ASSUME HttpInv, Aside  PROVE HttpInv'
<1>1. HttpType'
    BY DEF HttpInv, HttpType, Aside
<1>2. PlaceInv'
    BY DEF HttpInv, PlaceInv, Aside
<1>3. TokenInv'
    BY DEF HttpInv, TokenInv, Outstanding, Aside
<1>4. OnePlace'
    BY DEF HttpInv, OnePlace, Aside
<1>5. HoldsInv'
    BY DEF HttpInv, HoldsInv, Aside
<1>6. PendingInv'
    BY DEF HttpInv, PendingInv, Aside
<1>7. OwnerInv' /\ AnsweredInv'
    BY OthersKept DEF OwnerInv, AnsweredInv, Aside
<1> QED  BY <1>1, <1>2, <1>3, <1>4, <1>5, <1>6, <1>7 DEF HttpInv

\* s_recv_backend: the answer finds its connection, which goes on.
LEMMA AnswerStep ==
    ASSUME HttpInv, recv_backend, replies # <<>>  PROVE HttpInv'
<1> DEFINE r == Head(replies)
           c == r.c
<1>1. /\ place = "backend" /\ replies' = Tail(replies)
      /\ pending' = RemoveFirst(pending, c)
      /\ conn' = [conn EXCEPT ![c].state = "replying"]
      /\ answered' = [answered EXCEPT ![c] = Append(@, r.n)]
      /\ UNCHANGED <<place, handling, worker, owner>>
    BY DEF recv_backend, queue_response
<1>2. /\ replies \in Seq(Request) /\ 1 \in DOMAIN replies /\ r = replies[1] /\ r \in Request
      /\ Tail(replies) \in Seq(Request)
      /\ \A i \in DOMAIN Tail(replies) :
            i + 1 \in DOMAIN replies /\ Tail(replies)[i] = replies[i + 1] /\ i + 1 # 1
      /\ \A i, j \in DOMAIN Tail(replies) : i + 1 = j + 1 => i = j
    BY DEF HttpInv, HttpType
<1>3. Outstanding(r)
    BY <1>2 DEF HttpInv, TokenInv
<1> HIDE DEF r
<1>4. c \in Connections /\ conn[c].state = "suspended" /\ r.n = conn[c].count
    BY <1>2, <1>3 DEF Outstanding, Request
<1>5. handling = "none"
    BY <1>1 DEF HttpInv, PlaceInv
<1>6. PICK k \in DOMAIN pending : pending[k] = c
    BY <1>4 DEF HttpInv, PendingInv
<1>7. /\ pending' \in Seq(Connections)
      /\ \A i, j \in DOMAIN pending' : pending'[i] = pending'[j] => i = j
      /\ \A i \in DOMAIN pending' :
            pending'[i] # c /\ \E j \in DOMAIN pending : pending[j] = pending'[i]
      /\ \A j \in DOMAIN pending : pending[j] # c => \E i \in DOMAIN pending' : pending'[i] = pending[j]
  <2>1. pending \in Seq(Connections) /\ \A i, j \in DOMAIN pending : pending[i] = pending[j] => i = j
      BY DEF HttpInv, HttpType, PendingInv
  <2>2. pending' = RemoveFirst(pending, pending[k])
      BY <1>1, <1>6
  <2> QED  BY <2>1, <2>2, <1>6, RemoveOne
<1> HIDE DEF c
<1>8. /\ conn' \in [Connections -> Connection]
      /\ conn'[c].state = "replying" /\ conn'[c].count = conn[c].count
      /\ conn'[c].headers = conn[c].headers
      /\ \A d \in Connections : d # c => conn'[d] = conn[d]
    BY <1>1, <1>4 DEF HttpInv, HttpType, Connection, States
<1>9. /\ answered \in [Connections -> Seq(Nat)] /\ r.n \in Nat
      /\ answered'[c] = Append(answered[c], r.n) /\ answered' \in [Connections -> Seq(Nat)]
      /\ \A d \in Connections : d # c => answered'[d] = answered[d]
  <2>1. answered \in [Connections -> Seq(Nat)] /\ r.n \in Nat
      BY <1>4, Types DEF HttpInv, HttpType
  <2>2. Append(answered[c], r.n) \in Seq(Nat)
      BY <2>1, <1>4
  <2> QED  BY <2>1, <2>2, <1>1, <1>4
<1>10. HttpType'
    BY <1>1, <1>2, <1>7, <1>8, <1>9 DEF HttpInv, HttpType
<1>11. PlaceInv'
    BY <1>1, <1>5 DEF PlaceInv
<1>12. ASSUME NEW q \in Request, Outstanding(q), q.c # c
       PROVE  conn'[q.c].state = "suspended" /\ q.n = conn'[q.c].count /\ q.c # handling'
  <2>1. q.c \in Connections
      BY DEF Request
  <2> QED  BY <2>1, <1>1, <1>8, <1>12 DEF Outstanding
<1>13. TokenInv'
  <2>1. ASSUME NEW w \in Workers, NEW i \in DOMAIN worker[w].queue
        PROVE  worker[w].queue[i].c # c
      BY <1>2 DEF HttpInv, OnePlace, c
  <2>2. ASSUME NEW w \in Workers, worker[w].busy  PROVE worker[w].holds.c # c
      BY <2>2, <1>2 DEF HttpInv, OnePlace, c
  <2>3. ASSUME NEW i \in DOMAIN Tail(replies)  PROVE Tail(replies)[i].c # c
      BY <1>2 DEF HttpInv, OnePlace, c
  <2>4. ASSUME NEW w \in Workers, NEW i \in DOMAIN worker'[w].queue
        PROVE  Outstanding(worker[w].queue[i])'
    <3>1. worker[w].queue[i] \in Request /\ Outstanding(worker[w].queue[i])
        BY <1>1, Types DEF HttpInv, TokenInv
    <3> QED  BY <3>1, <2>1, <1>1, <1>12 DEF Outstanding
  <2>5. ASSUME NEW w \in Workers, worker'[w].busy  PROVE Outstanding(worker[w].holds)'
    <3>1. worker[w].holds \in Request /\ Outstanding(worker[w].holds)
        BY <2>5, <1>1, Types DEF HttpInv, TokenInv
    <3> QED  BY <3>1, <2>2, <2>5, <1>1, <1>12 DEF Outstanding
  <2>6. ASSUME NEW i \in DOMAIN replies'  PROVE Outstanding(replies[i])'
    <3>1. i \in DOMAIN Tail(replies) /\ replies'[i] = replies[i + 1] /\ i + 1 \in DOMAIN replies
        BY <1>1, <1>2
    <3>2. replies[i + 1] \in Request /\ Outstanding(replies[i + 1]) /\ replies[i + 1].c # c
        BY <3>1, <2>3, <1>2 DEF HttpInv, TokenInv
    <3> QED  BY <3>1, <3>2, <1>12 DEF Outstanding
  <2> QED  BY <2>4, <2>5, <2>6 DEF TokenInv
<1>14. OnePlace'
    BY <1>1, <1>2 DEF HttpInv, OnePlace
<1>15. PendingInv'
  <2>1. \A j \in DOMAIN pending : pending[j] \in Connections
      BY DEF HttpInv, HttpType
  <2>2. \A i \in DOMAIN pending' : conn'[pending'[i]].state = "suspended"
      BY <2>1, <1>7, <1>8 DEF HttpInv, PendingInv
  <2>3. ASSUME NEW d \in Connections, conn'[d].state = "suspended"
        PROVE  \E i \in DOMAIN pending' : pending'[i] = d
    <3>1. d # c /\ conn[d].state = "suspended"
        BY <2>3, <1>8
    <3>2. PICK j \in DOMAIN pending : pending[j] = d
        BY <3>1 DEF HttpInv, PendingInv
    <3> QED  BY <3>1, <3>2, <1>7
  <2> QED  BY <2>2, <2>3, <1>7 DEF PendingInv
<1>16. HoldsInv'
    BY <1>1, HoldsKept
<1>17. OwnerInv'
  <2>1. ASSUME NEW d \in Connections, d # c  PROVE OwnerOf(d)'
      BY <2>1, <1>1, <1>8, OthersKept
  <2>2. OwnerOf(c)
      BY <1>4 DEF HttpInv, OwnerInv
  <2>3. handling' # c
      BY <1>1, <1>4, <1>5, HttpAssumption
  <2>4. ASSUME NEW d \in Connections, d = c  PROVE OwnerOf(d)'
      BY <2>2, <2>3, <2>4, <1>1, <1>4, <1>8 DEF OwnerOf
  <2> QED  BY <2>1, <2>4 DEF OwnerInv
<1>18. AnsweredInv'
  <2>1. ASSUME NEW d \in Connections, d # c  PROVE AnsweredOf(d)'
      BY <2>1, <1>8, <1>9, OthersKept
  <2>2. /\ answered[c] \in Seq(Nat) /\ conn[c].count \in Nat
        /\ \A i \in DOMAIN answered[c] : answered[c][i] < conn[c].count
        /\ \A i, j \in DOMAIN answered[c] : answered[c][i] = answered[c][j] => i = j
      BY <1>4, <1>9, Types DEF HttpInv, AnsweredInv, AnsweredOf
  <2>3. /\ DOMAIN answered'[c] = 1 .. (Len(answered[c]) + 1) /\ Len(answered[c]) \in Nat
        /\ DOMAIN answered[c] = 1 .. Len(answered[c])
        /\ answered'[c][Len(answered[c]) + 1] = conn[c].count
        /\ \A i \in 1 .. Len(answered[c]) :
              answered'[c][i] = answered[c][i] /\ answered[c][i] \in Nat
      BY <2>2, <1>4, <1>9
  <2>4. ASSUME NEW i \in DOMAIN answered'[c]
        PROVE  answered'[c][i] <= conn'[c].count
    <3>1. CASE i = Len(answered[c]) + 1
        BY <3>1, <2>2, <2>3, <1>8
    <3>2. CASE i \in 1 .. Len(answered[c])
        BY <3>2, <2>2, <2>3, <1>8
    <3> QED  BY <3>1, <3>2, <2>3
  <2>5. ASSUME NEW i \in DOMAIN answered'[c], NEW j \in DOMAIN answered'[c],
               answered'[c][i] = answered'[c][j]
        PROVE  i = j
    <3>1. CASE i \in 1 .. Len(answered[c]) /\ j \in 1 .. Len(answered[c])
        BY <3>1, <2>2, <2>3, <2>5
    <3>2. CASE i = Len(answered[c]) + 1 /\ j \in 1 .. Len(answered[c])
        BY <3>2, <2>2, <2>3, <2>5
    <3>3. CASE i \in 1 .. Len(answered[c]) /\ j = Len(answered[c]) + 1
        BY <3>3, <2>2, <2>3, <2>5
    <3> QED  BY <3>1, <3>2, <3>3, <2>3
  <2>6. ASSUME NEW d \in Connections, d = c  PROVE AnsweredOf(d)'
      BY <2>4, <2>5, <2>6, <1>8 DEF AnsweredOf
  <2> QED  BY <2>1, <2>6 DEF AnsweredInv
<1> QED  BY <1>10, <1>11, <1>13, <1>14, <1>15, <1>16, <1>17, <1>18 DEF HttpInv

\* The end of the server frees what is left.
LEMMA DestroyStep ==
    ASSUME HttpInv, server_actor_destroy  PROVE HttpInv'
<1>1. /\ place = "destroy" /\ place' = "done" /\ pending' = <<>> /\ replies' = <<>>
      /\ conn' = [c \in Connections |-> [Idle EXCEPT !.count = conn[c].count]]
      /\ owner' = [c \in Connections |-> RequestDestroyed(c)[c]]
      /\ worker' = [w \in Workers |-> [worker[w] EXCEPT !.queue = <<>>]]
      /\ UNCHANGED <<handling, answered>>
    BY DEF server_actor_destroy
<1>2. handling = "none"
    BY <1>1 DEF HttpInv, PlaceInv
<1>3. ASSUME NEW c \in Connections
      PROVE  /\ conn'[c] \in Connection /\ conn'[c].state = "idle"
             /\ conn'[c].count = conn[c].count /\ ~conn'[c].headers
  <2>1. conn[c].count \in 0 .. MaxRequests
      BY DEF HttpInv, HttpType, Connection
  <2>2. conn'[c] = [Idle EXCEPT !.count = conn[c].count]
      BY <1>1
  <2> QED  BY <2>1, <2>2, IdleConnection
<1>4. ASSUME NEW w \in Workers
      PROVE  /\ worker'[w] \in Worker /\ worker'[w].queue = <<>>
             /\ worker'[w].holds = worker[w].holds /\ worker'[w].busy = worker[w].busy
  <2>1. worker[w] \in Worker /\ <<>> \in Seq(Request)
      BY DEF HttpInv, HttpType
  <2>2. worker'[w] = [worker[w] EXCEPT !.queue = <<>>]
      BY <1>1
  <2> QED  BY <2>1, <2>2 DEF Worker
<1>5. ASSUME NEW c \in Connections
      PROVE  /\ owner'[c] \in [1 .. MaxRequests -> Owners]
             /\ \A n \in 1 .. MaxRequests :
                   /\ n # conn[c].count => owner'[c][n] = owner[c][n]
                   /\ owner[c][n] \in {"message", "zhttp_request"} => owner'[c][n] = owner[c][n]
                   /\ owner'[c][n] # "twice"
  <2>1. owner'[c] = RequestDestroyed(c)[c]
      BY <1>1
  <2> QED  BY <2>1, RequestDestroyedOnce
<1>6. HttpType'
  <2>1. conn' \in [Connections -> Connection]
      BY <1>1, <1>3
  <2>2. worker' \in [Workers -> Worker]
      BY <1>1, <1>4
  <2>3. owner' \in [Connections -> [1 .. MaxRequests -> Owners]]
      BY <1>1, <1>5
  <2> QED  BY <2>1, <2>2, <2>3, <1>1 DEF HttpInv, HttpType
<1>7. PlaceInv'
    BY <1>1, <1>2, <1>4 DEF PlaceInv
<1>8. TokenInv'
    BY <1>1, <1>4 DEF TokenInv
<1>9. OnePlace'
    BY <1>1, <1>4 DEF HttpInv, OnePlace
<1>10. PendingInv'
    BY <1>1, <1>3 DEF PendingInv
<1>11. OwnerInv'
  <2> SUFFICES ASSUME NEW c \in Connections  PROVE OwnerOf(c)'
      BY DEF OwnerInv
  <2>1. handling' # c
      BY <1>1, <1>2, HttpAssumption
  <2>2. ASSUME NEW n \in 1 .. MaxRequests  PROVE n > conn[c].count => owner'[c][n] = "none"
    <3>1. n > conn[c].count => owner[c][n] = "none"
        BY DEF HttpInv, OwnerInv, OwnerOf
    <3>2. n > conn[c].count => n # conn[c].count
        BY Types
    <3> QED  BY <3>1, <3>2, <1>5
  <2> QED  BY <2>1, <2>2, <1>3, <1>5 DEF OwnerOf
<1>12. HoldsInv'
  <2>1. ASSUME NEW w \in Workers, worker[w].holds # NoRequest
        PROVE  owner'[worker[w].holds.c][worker[w].holds.n] = "zhttp_request"
    <3>1. worker[w].holds \in Request
        BY <2>1 DEF HttpInv, HttpType, Worker
    <3>2. worker[w].holds.c \in Connections /\ worker[w].holds.n \in 1 .. MaxRequests
        BY <3>1 DEF Request
    <3>3. owner[worker[w].holds.c][worker[w].holds.n] = "zhttp_request"
        BY <2>1 DEF HttpInv, HoldsInv
    <3> QED  BY <3>2, <3>3, <1>5
  <2> QED  BY <2>1, <1>4 DEF HttpInv, HoldsInv
<1>13. AnsweredInv'
  <2> SUFFICES ASSUME NEW c \in Connections  PROVE AnsweredOf(c)'
      BY DEF AnsweredInv
  <2> QED  BY <1>1, <1>3 DEF HttpInv, AnsweredInv, AnsweredOf
<1> QED  BY <1>6, <1>7, <1>8, <1>9, <1>10, <1>11, <1>12, <1>13 DEF HttpInv

\* zhttp_request_recv: the request goes from the queue to the worker, which frees the
\* headers of the one before.
LEMMA TakenStep ==
    ASSUME HttpInv, NEW w \in Workers, zhttp_request_recv(w)  PROVE HttpInv'
<1> DEFINE queue == worker[w].queue
           r == Head(queue)
           h == worker[w].holds
<1>1. /\ queue # <<>>
      /\ owner' = [ForgetRequest(w) EXCEPT ![r.c][r.n] = "zhttp_request"]
      /\ worker' = [worker EXCEPT ![w].queue = Tail(@), ![w].holds = r, ![w].busy = TRUE]
      /\ UNCHANGED <<place, handling, pending, conn, replies, answered>>
    BY DEF zhttp_request_recv
<1>2. ~worker[w].busy
    BY DEF zhttp_request_recv
<1>3. worker \in [Workers -> Worker] /\ queue \in Seq(Request) /\ h \in Request \cup {NoRequest}
    BY DEF HttpInv, HttpType, Worker
<1>4. /\ 1 \in DOMAIN queue /\ r = queue[1] /\ r \in Request /\ Tail(queue) \in Seq(Request)
      /\ \A i \in DOMAIN Tail(queue) :
            i + 1 \in DOMAIN queue /\ Tail(queue)[i] = queue[i + 1] /\ i + 1 # 1
      /\ \A i, j \in DOMAIN Tail(queue) : i + 1 = j + 1 => i = j
    BY <1>1, <1>3
<1>5. /\ Outstanding(r) /\ owner[r.c][r.n] = "message"
      /\ r.c \in Connections /\ r.n \in 1 .. MaxRequests /\ r # NoRequest
  <2>1. r.c \in Connections /\ r.n \in 1 .. MaxRequests
      BY <1>4 DEF Request
  <2>2. r # NoRequest
      BY <2>1, HttpAssumption DEF NoRequest
  <2> QED  BY <2>1, <2>2, <1>4 DEF HttpInv, TokenInv, HoldsInv
<1>6. /\ worker'[w].queue = Tail(queue) /\ worker'[w].holds = r
      /\ \A v \in Workers : v # w => worker'[v] = worker[v]
      /\ worker' \in [Workers -> Worker]
  <2> DEFINE half == [worker[w] EXCEPT !.queue = Tail(queue), !.holds = r]
             full == [half EXCEPT !.busy = TRUE]
  <2>1. Tail(queue) \in Seq(Request) /\ r \in Request /\ worker[w] \in Worker
      BY <1>3, <1>4
  <2>2. worker' = [worker EXCEPT ![w] = full]
      BY <1>1, <1>3
  <2> HIDE DEF r, queue
  <2>3. half \in Worker /\ half.queue = Tail(queue) /\ half.holds = r
      BY <2>1 DEF Worker
  <2> HIDE DEF half
  <2>4. full \in Worker /\ full.queue = half.queue /\ full.holds = half.holds
      BY <2>3 DEF Worker
  <2> HIDE DEF full
  <2> QED  BY <2>2, <2>3, <2>4, <1>3
<1>7. worker'[w].busy
    BY <1>1, <1>3 DEF Worker
<1>8. place # "done"
    BY <1>1 DEF HttpInv, PlaceInv
<1>9. /\ owner' \in [Connections -> [1 .. MaxRequests -> Owners]]
      /\ owner'[r.c][r.n] = "zhttp_request"
      /\ \A d \in Connections, n \in 1 .. MaxRequests :
            /\ (d = r.c /\ n = r.n) \/ (h # NoRequest /\ d = h.c /\ n = h.n)
               \/ owner'[d][n] = owner[d][n]
            /\ owner'[d][n] # "twice"
            /\ owner[d][n] \notin {"message", "zhttp_request"} => owner'[d][n] = owner[d][n]
  <2>0. /\ owner \in [Connections -> [1 .. MaxRequests -> Owners]]
        /\ \A d \in Connections, n \in 1 .. MaxRequests : owner[d][n] # "twice"
      BY DEF HttpInv, HttpType, OwnerInv, OwnerOf
  <2> DEFINE o == ForgetRequest(w)
  <2>1. /\ o \in [Connections -> [1 .. MaxRequests -> Owners]]
        /\ \A d \in Connections, n \in 1 .. MaxRequests :
              /\ (h # NoRequest /\ d = h.c /\ n = h.n) \/ o[d][n] = owner[d][n]
              /\ o[d][n] # "twice"
              /\ owner[d][n] # "zhttp_request" => o[d][n] = owner[d][n]
    <3>1. CASE h = NoRequest
        BY <3>1, <2>0 DEF ForgetRequest
    <3>2. CASE h # NoRequest
      <4>1. h.c \in Connections /\ h.n \in 1 .. MaxRequests
          BY <3>2, <1>3 DEF Request
      <4>2. owner[h.c][h.n] = "zhttp_request"
          BY <3>2 DEF HttpInv, HoldsInv
      <4>3. o = [owner EXCEPT ![h.c][h.n] = "freed"]
          BY <3>2, <4>1, <4>2, <2>0 DEF ForgetRequest, Free
      <4> HIDE DEF o
      <4> QED  BY <3>2, <4>1, <4>2, <4>3, <2>0 DEF Owners, h
    <3> QED  BY <3>1, <3>2
  <2>2. owner' = [o EXCEPT ![r.c][r.n] = "zhttp_request"]
      BY <1>1
  <2> HIDE DEF o, h, r
  <2> QED  BY <2>1, <2>2, <1>5 DEF Owners
<1> HIDE DEF r, h
<1> DEFINE old(v, i) == IF v = w THEN i + 1 ELSE i
<1>10. ASSUME NEW v \in Workers, NEW i \in DOMAIN worker'[v].queue
       PROVE  /\ old(v, i) \in DOMAIN worker[v].queue
              /\ worker'[v].queue[i] = worker[v].queue[old(v, i)]
              /\ worker'[v].queue[i].c # r.c
              /\ worker'[v].queue[i] \in Request
              /\ Outstanding(worker[v].queue[old(v, i)])
  <2>1. CASE v = w
    <3>1. i \in DOMAIN Tail(queue) /\ worker'[v].queue[i] = queue[i + 1]
          /\ i + 1 \in DOMAIN queue /\ i + 1 # 1
        BY <2>1, <1>4, <1>6
    <3>2. queue[i + 1].c # queue[1].c
        BY <3>1, <1>4 DEF HttpInv, OnePlace
    <3>3. queue[i + 1] \in Request /\ Outstanding(queue[i + 1])
        BY <3>1, Types DEF HttpInv, TokenInv
    <3> QED  BY <3>1, <3>2, <3>3, <2>1, <1>4
  <2>2. CASE v # w
    <3>1. worker'[v] = worker[v] /\ i \in DOMAIN worker[v].queue
        BY <2>2, <1>6
    <3>2. worker[v].queue[i].c # queue[1].c
        BY <3>1, <2>2, <1>4 DEF HttpInv, OnePlace
    <3>3. worker[v].queue[i] \in Request /\ Outstanding(worker[v].queue[i])
        BY <3>1, Types DEF HttpInv, TokenInv
    <3> QED  BY <3>1, <3>2, <3>3, <2>2, <1>4
  <2> QED  BY <2>1, <2>2
<1>11. ASSUME NEW v \in Workers, v # w, worker[v].busy  PROVE worker[v].holds.c # r.c
    BY <1>4, <1>11 DEF HttpInv, OnePlace
<1>12. \A v \in Workers : \A i, j \in DOMAIN worker'[v].queue : old(v, i) = old(v, j) => i = j
    BY <1>4, <1>6
<1> HIDE DEF queue, old
<1>13. HttpType'
    BY <1>1, <1>6, <1>9 DEF HttpInv, HttpType
<1>14. PlaceInv'
    BY <1>1, <1>8 DEF HttpInv, PlaceInv
<1>15. TokenInv'
  <2>1. ASSUME NEW v \in Workers, NEW i \in DOMAIN worker'[v].queue
        PROVE  Outstanding(worker[v].queue[i])'
    <3> DEFINE q == worker[v].queue[old(v, i)]
    <3>1. worker'[v].queue[i] = q /\ Outstanding(q)
        BY <1>10
    <3> HIDE DEF q
    <3>2. conn'[q.c].state = "suspended" /\ q.n = conn'[q.c].count /\ q.c # handling'
        BY <3>1, <1>1 DEF Outstanding
    <3> QED  BY <3>1, <3>2 DEF Outstanding
  <2>2. ASSUME NEW v \in Workers, worker'[v].busy  PROVE Outstanding(worker[v].holds)'
    <3>1. CASE v = w
        BY <3>1, <1>1, <1>5, <1>6 DEF Outstanding
    <3>2. CASE v # w
        BY <3>2, <2>2, <1>1, <1>6, <1>8 DEF HttpInv, TokenInv, Outstanding
    <3> QED  BY <3>1, <3>2
  <2>3. ASSUME NEW i \in DOMAIN replies'  PROVE Outstanding(replies[i])'
      BY <1>1 DEF HttpInv, TokenInv, Outstanding
  <2> QED  BY <2>1, <2>2, <2>3 DEF TokenInv
<1>16. OnePlace'
  <2>1. ASSUME NEW v \in Workers, NEW u \in Workers, NEW i \in DOMAIN worker'[v].queue,
               NEW j \in DOMAIN worker'[u].queue,
               worker'[v].queue[i].c = worker'[u].queue[j].c
        PROVE  v = u /\ i = j
    <3>1. v = u /\ old(v, i) = old(u, j)
        BY <2>1, <1>10 DEF HttpInv, OnePlace
    <3> QED  BY <3>1, <1>12
  <2>2. ASSUME NEW v \in Workers, NEW u \in Workers, NEW i \in DOMAIN worker'[v].queue,
               worker'[u].busy
        PROVE  worker'[v].queue[i].c # worker'[u].holds.c
    <3>1. CASE u = w
        BY <3>1, <1>6, <1>10
    <3>2. CASE u # w
        BY <3>2, <2>2, <1>6, <1>10 DEF HttpInv, OnePlace
    <3> QED  BY <3>1, <3>2
  <2>3. ASSUME NEW v \in Workers, NEW i \in DOMAIN worker'[v].queue, NEW j \in DOMAIN replies
        PROVE  worker'[v].queue[i].c # replies[j].c
      BY <1>10 DEF HttpInv, OnePlace
  <2>4. ASSUME NEW v \in Workers, NEW u \in Workers, worker'[v].busy, worker'[u].busy,
               worker'[v].holds.c = worker'[u].holds.c
        PROVE  v = u
    <3>1. CASE v = w /\ u # w
        BY <3>1, <2>4, <1>6, <1>11
    <3>2. CASE v # w /\ u = w
        BY <3>2, <2>4, <1>6, <1>11
    <3>3. CASE v # w /\ u # w
        BY <3>3, <2>4, <1>6 DEF HttpInv, OnePlace
    <3> QED  BY <3>1, <3>2, <3>3
  <2>5. ASSUME NEW v \in Workers, NEW j \in DOMAIN replies, worker'[v].busy
        PROVE  worker'[v].holds.c # replies[j].c
    <3>1. CASE v = w
      <4>1. worker[w].queue[1].c # replies[j].c
          BY <1>4 DEF HttpInv, OnePlace, queue
      <4> QED  BY <4>1, <3>1, <1>4, <1>6 DEF queue
    <3>2. CASE v # w
        BY <3>2, <2>5, <1>6 DEF HttpInv, OnePlace
    <3> QED  BY <3>1, <3>2
  <2>6. \A i, j \in DOMAIN replies : replies[i].c = replies[j].c => i = j
      BY DEF HttpInv, OnePlace
  <2>7. \A v \in Workers : \A i \in DOMAIN worker'[v].queue, j \in DOMAIN replies' :
            worker'[v].queue[i].c # replies'[j].c
    <3>1. replies' = replies
        BY <1>1
    <3> QED  BY <2>3, <3>1
  <2>8. \A v \in Workers : \A j \in DOMAIN replies' :
            worker'[v].busy => worker'[v].holds.c # replies'[j].c
      BY <2>5, <1>1
  <2>9. \A i, j \in DOMAIN replies' : replies'[i].c = replies'[j].c => i = j
      BY <2>6, <1>1
  <2>10. \A v, u \in Workers : \A i \in DOMAIN worker'[v].queue :
            worker'[u].busy => worker'[v].queue[i].c # worker'[u].holds.c
      BY <2>2
  <2>11. \A v, u \in Workers :
            worker'[v].busy /\ worker'[u].busy /\ worker'[v].holds.c = worker'[u].holds.c
                => v = u
      BY <2>4
  <2>12. \A v, u \in Workers :
            \A i \in DOMAIN worker'[v].queue, j \in DOMAIN worker'[u].queue :
                worker'[v].queue[i].c = worker'[u].queue[j].c => v = u /\ i = j
      BY <2>1
  <2> QED  BY <2>7, <2>8, <2>9, <2>10, <2>11, <2>12 DEF OnePlace
<1>17. HoldsInv'
  <2>1. ASSUME NEW v \in Workers, NEW i \in DOMAIN worker'[v].queue
        PROVE  owner'[worker'[v].queue[i].c][worker'[v].queue[i].n] = "message"
    <3> DEFINE q == worker'[v].queue[i]
    <3>1. q.c \in Connections /\ q.n \in 1 .. MaxRequests /\ q.c # r.c
        BY <1>10 DEF Request
    <3>2. owner[q.c][q.n] = "message"
        BY <1>10 DEF HttpInv, HoldsInv
    <3>3. h # NoRequest => owner[h.c][h.n] = "zhttp_request"
        BY DEF HttpInv, HoldsInv, h
    <3> HIDE DEF q
    <3>4. owner'[q.c][q.n] = owner[q.c][q.n]
        BY <3>1, <3>2, <3>3, <1>9
    <3> QED  BY <3>2, <3>4 DEF q
  <2>2. ASSUME NEW v \in Workers, worker'[v].holds # NoRequest
        PROVE  owner'[worker'[v].holds.c][worker'[v].holds.n] = "zhttp_request"
    <3>1. CASE v = w
        BY <3>1, <1>6, <1>9
    <3>2. CASE v # w
      <4> DEFINE q == worker[v].holds
      <4>1. worker'[v].holds = q /\ q # NoRequest /\ q \in Request
          BY <3>2, <2>2, <1>3, <1>6 DEF Worker
      <4>2. q.c \in Connections /\ q.n \in 1 .. MaxRequests
          BY <4>1 DEF Request
      <4>3. owner[q.c][q.n] = "zhttp_request"
          BY <4>1 DEF HttpInv, HoldsInv
      <4>4. q # h
          BY <4>1, <3>2 DEF HttpInv, HoldsInv, h
      <4>5. h # NoRequest => h.c # q.c \/ h.n # q.n
          BY <4>1, <4>4, <1>3 DEF Request, h
      <4> HIDE DEF q
      <4>6. q.c # r.c \/ q.n # r.n
          BY <4>3, <1>5
      <4>7. owner'[q.c][q.n] = owner[q.c][q.n]
          BY <4>2, <4>5, <4>6, <1>9
      <4> QED  BY <4>1, <4>3, <4>7
    <3> QED  BY <3>1, <3>2
  <2>3. ASSUME NEW v \in Workers, worker'[v].busy  PROVE worker'[v].holds # NoRequest
    <3>1. CASE v = w
        BY <3>1, <1>5, <1>6
    <3>2. CASE v # w
        BY <3>2, <2>3, <1>6 DEF HttpInv, HoldsInv
    <3> QED  BY <3>1, <3>2
  <2>4. ASSUME NEW v \in Workers, v # w, worker[v].holds # NoRequest  PROVE worker[v].holds # r
    <3>1. owner[worker[v].holds.c][worker[v].holds.n] = "zhttp_request"
        BY <2>4 DEF HttpInv, HoldsInv
    <3> QED  BY <3>1, <1>5
  <2>5. ASSUME NEW v \in Workers, NEW u \in Workers,
               worker'[v].holds = worker'[u].holds, worker'[v].holds # NoRequest
        PROVE  v = u
    <3>1. CASE v = w /\ u # w
        BY <3>1, <2>4, <2>5, <1>6
    <3>2. CASE v # w /\ u = w
        BY <3>2, <2>4, <2>5, <1>6
    <3>3. CASE v # w /\ u # w
        BY <3>3, <2>5, <1>6 DEF HttpInv, HoldsInv
    <3> QED  BY <3>1, <3>2, <3>3
  <2> QED  BY <2>1, <2>2, <2>3, <2>5 DEF HoldsInv
<1>18. PendingInv'
    BY <1>1 DEF HttpInv, PendingInv
<1>19. OwnerInv'
  <2> SUFFICES ASSUME NEW d \in Connections  PROVE OwnerOf(d)'
      BY DEF OwnerInv
  <2>1. OwnerOf(d)
      BY DEF HttpInv, OwnerInv
  <2>2. ASSUME conn[d].state # "idle" \/ conn[d].headers  PROVE conn[d].count \in 1 .. MaxRequests
      BY <2>1, <2>2, Types, HttpAssumption DEF OwnerOf
  <2>3. handling = d => conn[d].state # "idle"
      BY HttpAssumption DEF HttpInv, PlaceInv
  <2>4. conn[d].state = "sending" => owner'[d][conn[d].count] = "none"
      BY <2>1, <2>2, <1>9 DEF OwnerOf
  <2>5. conn[d].state \in {"upload", "aborted"} \/ handling = d \/ conn[d].headers
            => owner'[d][conn[d].count] = "request_t"
      BY <2>1, <2>2, <2>3, <1>9 DEF OwnerOf
  <2>6. \A n \in 1 .. MaxRequests :
            (n > conn[d].count => owner'[d][n] = "none") /\ owner'[d][n] # "twice"
      BY <2>1, <1>9 DEF OwnerOf
  <2> QED  BY <2>1, <2>4, <2>5, <2>6, <1>1 DEF OwnerOf
<1>20. AnsweredInv'
    BY <1>1, OthersKept DEF AnsweredInv
<1> QED  BY <1>13, <1>14, <1>15, <1>16, <1>17, <1>18, <1>19, <1>20 DEF HttpInv

\* zhttp_response_send: the request goes from the worker into an answer, once.
LEMMA RespondedStep ==
    ASSUME HttpInv, NEW w \in Workers, zhttp_response_send(w)  PROVE HttpInv'
<1> DEFINE h == worker[w].holds
<1>1. /\ worker' = [worker EXCEPT ![w].busy = FALSE]
      /\ place = "done" => replies' = replies
      /\ place # "done" => replies' = Append(replies, h)
      /\ UNCHANGED <<place, handling, pending, conn, owner, answered>>
    BY DEF zhttp_response_send, response_sent
<1>2. worker[w].busy
    BY DEF zhttp_response_send
<1>3. /\ worker' \in [Workers -> Worker]
      /\ \A v \in Workers : /\ worker'[v].queue = worker[v].queue
                            /\ worker'[v].holds = worker[v].holds
      /\ \A v \in Workers : v # w => worker'[v] = worker[v]
    BY <1>1 DEF HttpInv, HttpType, Worker
<1>4. ~worker'[w].busy
    BY <1>1 DEF HttpInv, HttpType, Worker
<1>5. \A v \in Workers : worker'[v].busy => worker[v].busy /\ v # w
    BY <1>3, <1>4
<1>6. h \in Request /\ replies \in Seq(Request) /\ (place # "done" => Outstanding(h))
    BY <1>2, Types DEF HttpInv, TokenInv, HttpType
<1> HIDE DEF h
<1> DEFINE new(i) == place # "done" /\ i = Len(replies) + 1
<1>7. ASSUME NEW i \in DOMAIN replies'
      PROVE  \/ new(i) /\ replies'[i] = h
             \/ ~new(i) /\ i \in DOMAIN replies /\ replies'[i] = replies[i]
    BY <1>1, <1>6
<1>8. replies' \in Seq(Request)
    BY <1>1, <1>6
<1>9. /\ \A v \in Workers : \A i \in DOMAIN worker[v].queue : worker[v].queue[i].c # h.c
      /\ \A v \in Workers : worker[v].busy /\ v # w => worker[v].holds.c # h.c
      /\ \A i \in DOMAIN replies : replies[i].c # h.c
    BY <1>2 DEF HttpInv, OnePlace, h
<1> HIDE DEF new
<1>10. HttpType'
    BY <1>1, <1>3, <1>8 DEF HttpInv, HttpType
<1>11. PlaceInv'
    BY <1>1, <1>3 DEF HttpInv, PlaceInv
<1>12. TokenInv'
  <2>1. ASSUME NEW v \in Workers, NEW i \in DOMAIN worker'[v].queue
        PROVE  Outstanding(worker[v].queue[i])'
      BY <1>1, <1>3 DEF HttpInv, TokenInv, Outstanding
  <2>2. ASSUME NEW v \in Workers, worker'[v].busy, place # "done"
        PROVE  Outstanding(worker[v].holds)'
      BY <2>2, <1>1, <1>3, <1>5 DEF HttpInv, TokenInv, Outstanding
  <2>3. ASSUME NEW i \in DOMAIN replies'  PROVE Outstanding(replies[i])'
    <3>1. CASE new(i)
        BY <3>1, <1>1, <1>6, <1>7 DEF Outstanding, new
    <3>2. CASE ~new(i)
        BY <3>2, <1>1, <1>7 DEF HttpInv, TokenInv, Outstanding
    <3> QED  BY <3>1, <3>2
  <2> QED  BY <2>1, <2>2, <2>3, <1>1 DEF TokenInv
<1>13. OnePlace'
  <2>1. \A v, u \in Workers :
            \A i \in DOMAIN worker'[v].queue, j \in DOMAIN worker'[u].queue :
                worker'[v].queue[i].c = worker'[u].queue[j].c => v = u /\ i = j
      BY <1>3 DEF HttpInv, OnePlace
  <2>2. \A v, u \in Workers : \A i \in DOMAIN worker'[v].queue :
            worker'[u].busy => worker'[v].queue[i].c # worker'[u].holds.c
      BY <1>3, <1>5 DEF HttpInv, OnePlace
  <2>3. ASSUME NEW v \in Workers, NEW i \in DOMAIN worker'[v].queue, NEW j \in DOMAIN replies'
        PROVE  worker'[v].queue[i].c # replies'[j].c
    <3>1. CASE new(j)
        BY <3>1, <1>3, <1>7, <1>9
    <3>2. CASE ~new(j)
        BY <3>2, <1>3, <1>7 DEF HttpInv, OnePlace
    <3> QED  BY <3>1, <3>2
  <2>4. \A v, u \in Workers :
            worker'[v].busy /\ worker'[u].busy /\ worker'[v].holds.c = worker'[u].holds.c
                => v = u
      BY <1>3, <1>5 DEF HttpInv, OnePlace
  <2>5. ASSUME NEW v \in Workers, NEW j \in DOMAIN replies', worker'[v].busy
        PROVE  worker'[v].holds.c # replies'[j].c
    <3>1. CASE new(j)
        BY <3>1, <2>5, <1>3, <1>5, <1>7, <1>9
    <3>2. CASE ~new(j)
        BY <3>2, <2>5, <1>3, <1>5, <1>7 DEF HttpInv, OnePlace
    <3> QED  BY <3>1, <3>2
  <2>6. ASSUME NEW i \in DOMAIN replies', NEW j \in DOMAIN replies',
               replies'[i].c = replies'[j].c
        PROVE  i = j
    <3>1. CASE new(i) /\ new(j)
        BY <3>1 DEF new
    <3>2. CASE new(i) /\ ~new(j)
        BY <3>2, <2>6, <1>7, <1>9
    <3>3. CASE ~new(i) /\ new(j)
        BY <3>3, <2>6, <1>7, <1>9
    <3>4. CASE ~new(i) /\ ~new(j)
        BY <3>4, <2>6, <1>7 DEF HttpInv, OnePlace
    <3> QED  BY <3>1, <3>2, <3>3, <3>4
  <2> QED  BY <2>1, <2>2, <2>3, <2>4, <2>5, <2>6 DEF OnePlace
<1>14. HoldsInv'
  <2>1. HoldsInv /\ owner' = owner
      BY <1>1 DEF HttpInv
  <2>2. \A v \in Workers : worker'[v].busy => worker'[v].holds # NoRequest
      BY <2>1, <1>3, <1>5 DEF HoldsInv
  <2> QED  BY <2>1, <2>2, <1>3 DEF HoldsInv
<1>15. PendingInv'
    BY <1>1 DEF HttpInv, PendingInv
<1>16. OwnerInv' /\ AnsweredInv'
    BY <1>1, OthersKept DEF OwnerInv, AnsweredInv
<1> QED  BY <1>10, <1>11, <1>12, <1>13, <1>14, <1>15, <1>16 DEF HttpInv

-----------------------------------------------------------------------------
(* The invariant, and what it says. *)

\* A server begins with idle connections and nothing to answer.
LEMMA InitHttpInv == HttpInit => HttpInv
<1> SUFFICES ASSUME HttpInit  PROVE HttpInv
    OBVIOUS
<1>1. /\ place = "run" /\ handling = "none" /\ pending = <<>> /\ replies = <<>>
      /\ conn = [c \in Connections |-> Idle]
      /\ worker = [w \in Workers |->
                      [connected |-> FALSE, queue |-> <<>>, holds |-> NoRequest, busy |-> FALSE]]
      /\ owner = [c \in Connections |-> [n \in 1 .. MaxRequests |-> "none"]]
      /\ answered = [c \in Connections |-> <<>>]
    BY DEF HttpInit
<1>2. Idle \in Connection /\ Idle.state = "idle" /\ Idle.count = 0 /\ ~Idle.headers
  <2>1. "idle" \in States /\ 0 \in 0 .. MaxRequests /\ 0 \in 0 .. 1 /\ 0 \in Nat
      BY HttpAssumption DEF States
  <2>2. FALSE \in BOOLEAN
      OBVIOUS
  <2>3. Idle \in Connection
      BY <2>1, <2>2, Zenon DEF Idle, Connection
  <2> QED  BY <2>3 DEF Idle
<1>3. ASSUME NEW w \in Workers
      PROVE  worker[w] \in Worker /\ worker[w].queue = <<>> /\ worker[w].holds = NoRequest
  <2>1. worker[w] =
            [connected |-> FALSE, queue |-> <<>>, holds |-> NoRequest, busy |-> FALSE]
      BY <1>1
  <2>2. <<>> \in Seq(Request) /\ NoRequest \in Request \cup {NoRequest} /\ FALSE \in BOOLEAN
      OBVIOUS
  <2>3. [connected |-> FALSE, queue |-> <<>>, holds |-> NoRequest, busy |-> FALSE] \in Worker
      BY <2>2, Zenon DEF Worker
  <2> QED  BY <2>1, <2>3
<1>4. ASSUME NEW w \in Workers  PROVE ~worker[w].busy
    BY <1>1
<1>5. HttpType
  <2>1. conn \in [Connections -> Connection] /\ worker \in [Workers -> Worker]
      BY <1>1, <1>2, <1>3
  <2>2. owner \in [Connections -> [1 .. MaxRequests -> Owners]]
      BY <1>1 DEF Owners
  <2>3. pending \in Seq(Connections) /\ replies \in Seq(Request)
        /\ answered \in [Connections -> Seq(Nat)]
      BY <1>1
  <2> QED  BY <2>1, <2>2, <2>3, <1>1 DEF HttpType
<1>6. PlaceInv
    BY <1>1 DEF PlaceInv
<1>7. TokenInv
    BY <1>1, <1>3, <1>4 DEF TokenInv
<1>8. OnePlace
    BY <1>1, <1>3, <1>4 DEF OnePlace
<1>9. HoldsInv
    BY <1>1, <1>3, <1>4 DEF HoldsInv
<1>10. PendingInv
    BY <1>1, <1>2 DEF PendingInv
<1>11. AnsweredInv
    BY <1>1 DEF AnsweredInv, AnsweredOf
<1>12. OwnerInv
  <2> SUFFICES ASSUME NEW c \in Connections  PROVE OwnerOf(c)
      BY DEF OwnerInv
  <2>1. conn[c] = Idle /\ handling # c /\ \A n \in 1 .. MaxRequests : owner[c][n] = "none"
      BY <1>1, HttpAssumption
  <2> QED  BY <2>1, <1>2 DEF OwnerOf
<1> QED  BY <1>5, <1>6, <1>7, <1>8, <1>9, <1>10, <1>11, <1>12 DEF HttpInv

\* The steps that are none of the above move no request.
LEMMA OtherSteps ==
    ASSUME HttpInv,
           run_done \/ recv_api \/ (recv_backend /\ replies = <<>>) \/ select
           \/ zhttp_server_port \/ zhttp_server_destroy \/ app_receives
           \/ (\E w \in Workers : worker_connect(w)) \/ UNCHANGED http_vars
    PROVE  Aside
<1>1. /\ place \in {"run", "api", "backend", "select", "destroy", "done"}
      /\ worker \in [Workers -> Worker] /\ (handling # "none" => place = "run")
    BY DEF HttpInv, HttpType, PlaceInv
<1>2. CASE run_done \/ recv_api \/ (recv_backend /\ replies = <<>>) \/ select
    BY <1>1, <1>2 DEF Aside, run_done, recv_api, recv_backend, select, next_part
<1>3. CASE zhttp_server_port \/ zhttp_server_destroy \/ app_receives \/ UNCHANGED http_vars
    BY <1>1, <1>3 DEF Aside, zhttp_server_port, zhttp_server_destroy, app_receives, http_vars
<1>4. CASE \E w \in Workers : worker_connect(w)
  <2>1. PICK w \in Workers : worker_connect(w)
      BY <1>4
  <2>2. /\ worker' = [worker EXCEPT ![w].connected = TRUE]
        /\ UNCHANGED <<place, handling, pending, conn, replies, owner, answered>>
      BY <2>1 DEF worker_connect
  <2>3. worker' \in [Workers -> Worker]
    <3>1. worker[w] \in Worker /\ TRUE \in BOOLEAN
        BY <1>1
    <3>2. [worker[w] EXCEPT !.connected = TRUE] \in Worker
        BY <3>1 DEF Worker
    <3> QED  BY <3>2, <2>2, <1>1
  <2>4. \A v \in Workers : /\ worker'[v].queue = worker[v].queue
                           /\ worker'[v].holds = worker[v].holds
                           /\ worker'[v].busy = worker[v].busy
      BY <2>2, <1>1 DEF Worker
  <2> QED  BY <2>2, <2>3, <2>4, <1>1 DEF Aside
<1> QED  BY <1>2, <1>3, <1>4

\* One step for each callback of the server, for the workers and for the clients.
LEMMA NextHttpInv == HttpInv /\ [HttpNext]_http_vars => HttpInv'
<1> SUFFICES ASSUME HttpInv, [HttpNext]_http_vars  PROVE HttpInv'
    OBVIOUS
<1>1. ASSUME NEW c \in Connections, handle_header(c) \/ handle_upload(c) \/ handle_completed(c)
      PROVE  HttpInv'
    BY <1>1, HeaderStep, UploadStep, CompletedStep
<1>2. ASSUME NEW c \in Connections, NEW w \in Workers, backend_send(c, w)  PROVE HttpInv'
    BY <1>2, SentStep
<1>3. CASE recv_backend /\ replies # <<>>
    BY <1>3, AnswerStep
<1>4. CASE server_actor_destroy
    BY <1>4, DestroyStep
<1>5. ASSUME NEW w \in Workers, zhttp_request_recv(w) \/ zhttp_response_send(w)  PROVE HttpInv'
    BY <1>5, TakenStep, RespondedStep
<1>6. ASSUME NEW c \in Connections, NEW parts \in 0 .. 1, client_request(c, parts)  PROVE HttpInv'
    BY <1>6, RequestStep
<1>7. ASSUME NEW c \in Connections, client_abort(c)  PROVE HttpInv'
    BY <1>7, AbortStep
<1>8. CASE run_done \/ recv_api \/ (recv_backend /\ replies = <<>>) \/ select
           \/ zhttp_server_port \/ zhttp_server_destroy \/ app_receives
           \/ (\E w \in Workers : worker_connect(w)) \/ UNCHANGED http_vars
    BY <1>8, OtherSteps, AsideStep
<1> QED  BY <1>1, <1>2, <1>3, <1>4, <1>5, <1>6, <1>7, <1>8 DEF HttpNext, ActorStep, WorkerStep

\* The invariant of the server holds in every state.
LEMMA HttpInvHolds == HttpSpec => []HttpInv
<1> QED  BY InitHttpInv, NextHttpInv, PTL DEF HttpSpec

\* Whatever the workers do and however often a connection is used, an answer finds its
\* connection on pending_connections, is the answer of the request that waits there, and
\* is given once; the headers of a request are freed at most once and not while a worker
\* has them.
THEOREM RequestsStayExact == HttpSpec => []RequestsExact
<1>1. HttpInv => RequestsExact
  <2> SUFFICES ASSUME HttpInv  PROVE PendingExact /\ AnswerMatches /\ HeadersFreedOnce
      BY DEF RequestsExact
  <2>1. PendingExact
    <3>1. \A i \in DOMAIN pending : pending[i] \in Connections
        BY DEF HttpInv, HttpType
    <3>2. {pending[i] : i \in DOMAIN pending} = {c \in Connections : conn[c].state = "suspended"}
        BY <3>1 DEF HttpInv, PendingInv
    <3>3. ASSUME NEW i \in DOMAIN replies  PROVE \E j \in DOMAIN pending : pending[j] = replies[i].c
      <4>1. replies[i].c \in Connections /\ conn[replies[i].c].state = "suspended"
          BY Types DEF HttpInv, TokenInv, Outstanding, Request
      <4> QED  BY <4>1 DEF HttpInv, PendingInv
    <3> QED  BY <3>2, <3>3 DEF HttpInv, PendingInv, PendingExact
  <2>2. AnswerMatches
      BY DEF HttpInv, TokenInv, Outstanding, AnsweredInv, AnsweredOf, AnswerMatches
  <2>3. HeadersFreedOnce
      BY DEF HttpInv, OwnerInv, OwnerOf, HoldsInv, HeadersFreedOnce
  <2> QED  BY <2>1, <2>2, <2>3
<1> QED  BY <1>1, HttpInvHolds, PTL

=============================================================================
