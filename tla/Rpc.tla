-------------------------------- MODULE Rpc --------------------------------
(***************************************************************************)
(* The RPC library: clients (RpcClient) and a server (RpcServer) joined by *)
(* the connections between them (RpcWire).                                 *)
(***************************************************************************)
EXTENDS RpcClient, RpcServer

vars == <<wireVars, clientVars, serverVars>>

Init == WireInit /\ ClientInit /\ ServerInit

Next ==
    \/ \E c \in Clients, k \in Conns :
          \/ Break(c, k) /\ UNCHANGED <<clientVars, serverVars>>
          \/ ClientEof(c, k) /\ UNCHANGED <<clientVars, serverVars>>
          \/ ServerEof(c, k) /\ UNCHANGED <<clientVars, serverVars>>
          \/ Accept(c, k) /\ UNCHANGED clientVars
    \/ \E c \in Clients, proc \in Procs : StartCall(c, proc) /\ UNCHANGED serverVars
    \/ \E c \in Clients, x \in Xids : ClientStep(c, x) /\ UNCHANGED serverVars
    \/ \E r \in reps : GotReply(r) /\ UNCHANGED serverVars
    \/ \E m \in reqs : GotRequest(m) /\ UNCHANGED clientVars
    \/ \E w \in Workers : WorkerStep(w) /\ UNCHANGED clientVars
    \/ Register /\ UNCHANGED clientVars
    \/ Restart /\ UNCHANGED clientVars

Spec == Init /\ [][Next]_vars

TypeOK == WireTypeOK /\ ClientTypeOK /\ ServerTypeOK

-----------------------------------------------------------------------------
(***************************************************************************)
(* rpcs::dispatch runs the handler of a call at most once as long as the   *)
(* call is not over at the client, over all retransmissions, connections   *)
(* and restarts of the server: update_xid_rep never tells the server to    *)
(* forget a reply too early, checkduplicate_and_update recognises every    *)
(* copy until then, and a restarted server refuses the copies it gets.     *)
(* (bind is repeated by design: it carries no server nonce.  And a freed   *)
(* buffer, once sent, may be taken for the reply to any call.)             *)
(***************************************************************************)
OnceWhileOutstanding ==
    \A c \in Clients, x \in Xids :
        ~wild /\ hdr[c][x].proc = "op" /\ ~Over(c, x) => execs[c][x] <= 1

(***************************************************************************)
(* A call that rpcc::call1 reports as successful was executed, and the     *)
(* value it returns is that of its first execution, as long as no freed    *)
(* buffer was ever sent.                                                   *)
(***************************************************************************)
ReturnsFirstExecution ==
    \A c \in Clients, x \in Xids :
        /\ ~wild
        /\ hdr[c][x].proc = "op"
        /\ result[c][x].done
        /\ result[c][x].ret = "ok"
        => execs[c][x] >= 1 /\ result[c][x].val = 1

(***************************************************************************)
(* checkduplicate_and_update forgets a call (and frees its reply) only     *)
(* when the call is over at the client, because got_pdu and call1 put an   *)
(* xid into the window only then and the front covers no other (as long as *)
(* no freed buffer was sent).                                              *)
(***************************************************************************)
ForgetsOnlyWhatIsOver ==
    [][\A c \in Clients, x \in Xids :
          /\ ~wild
          /\ reply_window_[c][x].st # "absent"
          /\ reply_window_'[c][x].st = "absent"
          /\ nonce_' = nonce_
          => Over(c, x)]_vars

(***************************************************************************)
(* Reference counts at the client: chan_ and the calls that hold the       *)
(* connection, and nobody else.  So get_refconn and call1 neither delete a *)
(* connection that is in use nor leave a dead one behind.                  *)
(***************************************************************************)
ClientRefsExact ==
    \A c \in Clients, k \in Conns :
        LET holders == Cardinality({x \in Xids : ch[c][x] = k})
                         + (IF chan_[c] = k THEN 1 ELSE 0)
        IN  /\ cconn[c][k].ref = holders
            /\ cconn[c][k].st = "deleted" => holders = 0
            /\ cconn[c][k].st = "dead" => holders > 0

\* The holders of a connection object of the server: the listener, conns_, the
\* queued jobs and the workers.
ServerHolders(c, k) ==
    (IF sconn[c][k].st \in {"live", "dead"} THEN 1 ELSE 0)
    + (IF conns_[c] = k THEN 1 ELSE 0)
    + Cardinality({i \in DOMAIN jobq : jobq[i].clt = c /\ jobq[i].conn = k})
    + Cardinality({w \in Workers : wpc[w] # "idle" /\ wjob[w].clt = c /\ wjob[w].conn = k})

(***************************************************************************)
(* process_accept deletes no connection that a dispatch thread, a queued   *)
(* job or conns_ still points to: every holder is counted.                 *)
(***************************************************************************)
NoDanglingConn ==
    \A c \in Clients, k \in Conns : sconn[c][k].ref >= ServerHolders(c, k)

(***************************************************************************)
(* Once the dispatch threads are done with a connection, the listener and  *)
(* conns_ are the only holders, so that a dead connection can be deleted.  *)
(***************************************************************************)
NoConnLeak ==
    \A c \in Clients, k \in Conns : sconn[c][k].ref <= ServerHolders(c, k)

(***************************************************************************)
(* The handler of a call runs at most once, ever ("provide at most once    *)
(* semantics by maintaining a window of replies per client").              *)
(***************************************************************************)
AtMostOnce ==
    \A c \in Clients, x \in Xids : hdr[c][x].proc = "op" => execs[c][x] <= 1

(***************************************************************************)
(* In the DONE case of dispatch the server still has the reply it sends.   *)
(***************************************************************************)
DoneReplyStillHeld == \A w \in Workers : wpc[w] # "sendfreed"

(***************************************************************************)
(* conns_ holds the latest good connection to the client: a dispatch       *)
(* thread does not replace a live connection by an earlier one that is     *)
(* dead.                                                                   *)
(***************************************************************************)
KeepsGoodConn ==
    [][\A c \in Clients :
          /\ conns_'[c] # Null
          /\ conns_'[c] < conns_[c]
          /\ Live(sconn[c], conns_[c])
          => Live(sconn[c], conns_'[c])]_vars

(***************************************************************************)
(* The reply buffers of the first server: one for every reply that         *)
(* reply_window_ holds, and one for every execution, which the worker that *)
(* sent it does not free.  So add_reply and checkduplicate_and_update free *)
(* no buffer twice and lose none, although a call may be forgotten while   *)
(* its handler runs; unless a late copy runs, too, whose reply takes the   *)
(* place of the other in one entry.                                        *)
(***************************************************************************)
BuffersAccounted ==
    nonce_ = 1 /\ (\A c \in Clients, x \in Xids : execs[c][x] <= 1) =>
        heap = Cardinality({i \in Clients \X Xids : reply_window_[i[1]][i[2]].st = "present"})
                 + Cardinality(UNION {{i} \X (1 .. execs[i[1]][i[2]]) : i \in Clients \X Xids})

-----------------------------------------------------------------------------
(***************************************************************************)
(* The calls of the application, as RpcPromise sees them.  A call is       *)
(* pending until it is over; the binds are not calls of the application.   *)
(***************************************************************************)
IsOp(i) == hdr[i[1]][i[2]].proc = "op" /\ pc[i[1]][i[2]] # "none"

PromisedState(i) ==
    LET c == i[1]
        x == i[2]
    IN  IF ~IsOp(i) THEN "idle"
        ELSE IF ~Over(c, x) THEN "pending"
        ELSE IF result[c][x].done /\ result[c][x].ret = "ok" THEN "ok"
        ELSE "failed"

PromisedRuns(i) == IF IsOp(i) THEN execs[i[1]][i[2]] ELSE 0

Promise ==
    INSTANCE RpcPromise WITH
        Calls <- Clients \X Xids,
        state <- [i \in Clients \X Xids |-> PromisedState(i)],
        runs <- [i \in Clients \X Xids |-> PromisedRuns(i)]

(***************************************************************************)
(* The library keeps its promise: with threads, retransmission, duplicate  *)
(* detection and restarts it implements RpcPromise, as long as no freed    *)
(* buffer is sent.                                                         *)
(***************************************************************************)
KeepsPromise ==
    /\ Promise!PromiseInit
    /\ [][wild' \/ Promise!PromiseNext]_Promise!promiseVars

-----------------------------------------------------------------------------
(***************************************************************************)
(* The call is in ch->send on a connection that is alive.  connection::    *)
(* send waits, without a deadline, until its request is written or the     *)
(* connection is dead (Connection).                                        *)
(***************************************************************************)
Sending(c, x) == pc[c][x] = "send" /\ Usable(c, ch[c][x])

(***************************************************************************)
(* Threads that can run do run, and time passes: a timed wait ends (as it  *)
(* does for every timeout of whole seconds; see CallReturns of Deadline    *)
(* for the others).  Nothing is assumed of the network, nor of the server, *)
(* and so a send on a live connection may go on for ever.                  *)
(***************************************************************************)
FairSpec ==
    /\ Spec
    /\ \A c \in Clients, x \in Xids :
          WF_vars(ClientStep(c, x) /\ ~Sending(c, x) /\ UNCHANGED serverVars)

(***************************************************************************)
(* rpcc::call1 returns, whatever the network and the server do, unless one *)
(* of its sends waits for ever on a connection that stays alive: however   *)
(* often connections break, requests and replies are lost, and the server  *)
(* restarts, the rounds of retransmission come to an end.                  *)
(***************************************************************************)
EveryCallReturns ==
    \A c \in Clients, x \in Xids :
        pc[c][x] = "connect" ~> (pc[c][x] = "returned" \/ []Sending(c, x))
=============================================================================
