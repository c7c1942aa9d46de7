------------------------------ MODULE RpcWire ------------------------------
(***************************************************************************)
(* What rpcc and rpcs see of the connections between them: for every       *)
(* client the connections it opened, one after another, each a TCP link    *)
(* with a connection object at either end.  An object is reference counted *)
(* and is deleted when it is dead and nobody holds it.                     *)
(*                                                                         *)
(* A link carries whole PDUs.  It never loses or duplicates one while it   *)
(* is up; once it is down, what has not been read when the reading end     *)
(* notices is lost.  The PDUs in flight are a set: the order in which a    *)
(* link delivers them is lost anyway to the pool of threads that dispatch  *)
(* them, and handling a reply twice is the same as handling it once.       *)
(***************************************************************************)
EXTENDS Integers, Sequences, FiniteSets

CONSTANTS
    Clients,     \* the rpcc objects, each with a clt_nonce_ of its own
    MaxXid,      \* bound: calls of one rpcc
    MaxConn,     \* bound: connections opened by one rpcc
    MaxNonce     \* bound: incarnations of the server; nonce_ = 1, 2, ...

ASSUME WireAssumption ==
    /\ MaxXid \in Nat
    /\ MaxConn \in Nat
    /\ MaxNonce \in Nat

\* A server has a number of clients.
ASSUME ClientsAssumption == IsFiniteSet(Clients)

VARIABLES
    link,        \* link[c][k]: the TCP link of the k-th connection of client c
    cconn,       \* cconn[c][k]: the client's connection object
    sconn,       \* sconn[c][k]: the server's connection object
    reqs,        \* requests in flight
    reps         \* replies in flight

wireVars == <<link, cconn, sconn, reqs, reps>>

Xids == 1 .. MaxXid
Conns == 1 .. MaxConn
Null == 0        \* a null connection pointer, or an absent entry of a map

\* The calls: rpc_const::bind, and any procedure the application registers.
Procs == {"bind", "op"}

\* struct req_header; clt_nonce is the client that owns the connection.
Headers == [xid : Xids, proc : Procs, srv_nonce : Nat, xid_rep : 0 .. MaxXid]

\* A request: the header, and the connection it travels on.
Requests == [clt : Clients, conn : Conns, hdr : Headers]

\* The outcomes a call can have; all but "timeout" travel in a reply_header.
Rets == {"ok", "oldsrv", "forgotten", "timeout"}

\* A reply.  val is what the handler returned: the nonce of the server for
\* bind, and the ordinal of the execution of the call for the others.
Replies == [clt : Clients, conn : Conns, xid : Xids, ret : Rets, val : Nat]

Endpoints == [st : {"none", "live", "dead", "deleted"}, ref : Int]

WireTypeOK ==
    /\ link \in [Clients -> [Conns -> {"none", "up", "down"}]]
    /\ cconn \in [Clients -> [Conns -> Endpoints]]
    /\ sconn \in [Clients -> [Conns -> Endpoints]]
    /\ reqs \subseteq Requests
    /\ reps \subseteq Replies

NoEndpoint == [st |-> "none", ref |-> 0]

WireInit ==
    /\ link = [c \in Clients |-> [k \in Conns |-> "none"]]
    /\ cconn = [c \in Clients |-> [k \in Conns |-> NoEndpoint]]
    /\ sconn = [c \in Clients |-> [k \in Conns |-> NoEndpoint]]
    /\ reqs = {}
    /\ reps = {}

-----------------------------------------------------------------------------
(* connection objects: e is the table [Conns -> Endpoints] of one client   *)

Created(e, k) == [e EXCEPT ![k] = [st |-> "live", ref |-> 1]]

\* connection::incref
Incref(e, k) == [e EXCEPT ![k].ref = @ + 1]

\* connection::decref: the last holder of a dead connection deletes it.
Decref(e, k) ==
    [e EXCEPT ![k] = [ref |-> @.ref - 1,
                      st  |-> IF @.ref = 1 /\ @.st = "dead" THEN "deleted" ELSE @.st]]

\* the pointer is tested before the call: if (p) p->decref()
DecrefIf(e, k) == IF k = Null THEN e ELSE Decref(e, k)

\* dead_ = true
Killed(e, k) == [e EXCEPT ![k].st = "dead"]

Live(e, k) == e[k].st = "live"

(***************************************************************************)
(* connection::send on connection k of client c, as its caller sees it:    *)
(* the possible outcomes, each the table of connection objects afterwards  *)
(* and whether the PDU is on the wire.  A dead connection refuses the PDU, *)
(* a link that is up takes it.  On a link that is down the write fails and *)
(* the connection dies, or the kernel takes the bytes and drops them.      *)
(***************************************************************************)
SendOutcomes(e, c, k) ==
    IF Live(e, k)
    THEN IF link[c][k] = "up"
         THEN {[conns |-> e, sent |-> TRUE]}
         ELSE {[conns |-> e, sent |-> FALSE], [conns |-> Killed(e, k), sent |-> FALSE]}
    ELSE {[conns |-> e, sent |-> FALSE]}

\* What is in flight when connection k of c stops reading: its PDUs are lost.
WithoutConn(pdus, c, k) == {m \in pdus : m.clt # c \/ m.conn # k}

(***************************************************************************)
(* A link fails: either end shuts it down (the RPC_LOSSY test does, in     *)
(* connection::send), or the network does.                                 *)
(***************************************************************************)
Break(c, k) ==
    /\ link[c][k] = "up"
    /\ link' = [link EXCEPT ![c][k] = "down"]
    /\ UNCHANGED <<cconn, sconn, reqs, reps>>

\* connection::read_cb at the client: the read fails or finds end-of-file.
ClientEof(c, k) ==
    /\ link[c][k] = "down"
    /\ Live(cconn[c], k)
    /\ cconn' = [cconn EXCEPT ![c] = Killed(@, k)]
    /\ reps' = WithoutConn(reps, c, k)
    /\ UNCHANGED <<link, sconn, reqs>>

\* connection::read_cb at the server.
ServerEof(c, k) ==
    /\ link[c][k] = "down"
    /\ Live(sconn[c], k)
    /\ sconn' = [sconn EXCEPT ![c] = Killed(@, k)]
    /\ reqs' = WithoutConn(reqs, c, k)
    /\ UNCHANGED <<link, cconn, reps>>
=============================================================================
