----------------------------- MODULE RpcServer -----------------------------
(***************************************************************************)
(* class rpcs: the server side of the RPC library.  The PollMgr's thread   *)
(* reads requests and queues them (rpcs::got_pdu); the threads of the      *)
(* dispatch pool take them from the queue (rpcs::dispatch).  The listener  *)
(* thread accepts connections.  One action per critical section.           *)
(*                                                                         *)
(* wpc[w] is where worker w stands in rpcs::dispatch:                      *)
(*   idle         waiting for a job                                        *)
(*   oldsrv       about to answer a request for an older server            *)
(*   lookup       about to look the procedure up                           *)
(*   conns        about to record the client's connection                  *)
(*   check        about to look for a duplicate                            *)
(*   run          NEW: about to run the handler                            *)
(*   add          about to store the reply                                 *)
(*   pick         about to pick the connection to answer on                *)
(*   send         about to send a reply that the worker owns               *)
(*   senddone     DONE: about to send the buffer held by reply_window_     *)
(*   sendfreed    the same, but the buffer has been freed meanwhile        *)
(***************************************************************************)
EXTENDS RpcWire, ReplyWindow

CONSTANTS
    Workers,     \* the threads of the dispatch pool (10 in the code)
    MaxQueue,    \* the capacity of the pool's queue (1000 in the code)
    NoJob        \* what an idle worker holds in place of a request

ASSUME ServerAssumption ==
    /\ MaxQueue \in Nat
    /\ MaxNonce >= 1
    /\ NoJob \notin Requests

\* ThrPool makes a number of threads.
ASSUME WorkersAssumption == IsFiniteSet(Workers)

VARIABLES
    nonce_,          \* the incarnation of the server
    procs_,          \* registered procedures
    reply_window_,   \* reply_window_[c][x]: the entry for xid x of client c
    conns_,          \* conns_[c]: the connection to answer client c on, or Null
    jobq,            \* the queue of the dispatch pool
    wpc,
    wjob,            \* wjob[w]: the request and the connection c of dispatch
    wrep,            \* wrep[w]: the reply the worker has in hand
    heap,            \* reply buffers allocated and not freed
    execs,           \* history: executions of each call, over all incarnations
    wild             \* history: a freed buffer has been sent

serverVars == <<nonce_, procs_, reply_window_, conns_, jobq, wpc, wjob, wrep,
                heap, execs, wild>>

\* What a worker that has none holds in place of a reply.
NoReply == [ret |-> "ok", val |-> 0]

WorkerPCs == {"idle", "oldsrv", "lookup", "conns", "check", "run", "add", "pick",
              "send", "senddone", "sendfreed"}

ServerTypeOK ==
    /\ nonce_ \in 1 .. MaxNonce
    /\ procs_ \subseteq Procs
    /\ reply_window_ \in [Clients -> [Xids -> Entries]]
    /\ conns_ \in [Clients -> Conns \cup {Null}]
    /\ jobq \in Seq(Requests)
    /\ wpc \in [Workers -> WorkerPCs]
    /\ wjob \in [Workers -> Requests \cup {NoJob}]
    /\ \A w \in Workers : wjob[w] = NoJob <=> wpc[w] = "idle"
    /\ wrep \in [Workers -> [ret : Rets, val : Nat]]
    /\ heap \in Int
    /\ execs \in [Clients -> [Xids -> Nat]]
    /\ wild \in BOOLEAN

NoReplies == [c \in Clients |-> [x \in Xids |-> Absent]]

ServerInit ==
    /\ nonce_ = 1
    /\ procs_ = {"bind"}
    /\ reply_window_ = NoReplies
    /\ conns_ = [c \in Clients |-> Null]
    /\ jobq = <<>>
    /\ wpc = [w \in Workers |-> "idle"]
    /\ wjob = [w \in Workers |-> NoJob]
    /\ wrep = [w \in Workers |-> NoReply]
    /\ heap = 0
    /\ execs = [c \in Clients |-> [x \in Xids |-> 0]]
    /\ wild = FALSE

-----------------------------------------------------------------------------
(***************************************************************************)
(* tcpsconn::process_accept: a connection object for the new link, held by *)
(* the listener; the dead connections that only the listener holds go.     *)
(***************************************************************************)
Accept(c, k) ==
    /\ link[c][k] # "none"
    /\ sconn[c][k].st = "none"
    /\ sconn' = [d \in Clients |-> [j \in Conns |->
                   IF d = c /\ j = k THEN [st |-> "live", ref |-> 1]
                   ELSE IF sconn[d][j] = [st |-> "dead", ref |-> 1]
                   THEN [st |-> "deleted", ref |-> 0]
                   ELSE sconn[d][j]]]
    /\ UNCHANGED serverVars
    /\ UNCHANGED <<link, cconn, reqs, reps>>

\* main() registers the application's procedures after the server has started.
Register ==
    /\ procs_ # Procs
    /\ procs_' = Procs
    /\ UNCHANGED <<nonce_, reply_window_, conns_, jobq, wpc, wjob, wrep, heap, execs, wild>>
    /\ UNCHANGED wireVars

\* Mutant of GotRequest: the job does not hold the connection.
GotRequestNoRef(m) ==
    /\ Live(sconn[m.clt], m.conn)
    /\ Len(jobq) < MaxQueue
    /\ reqs' = reqs \ {m}
    /\ jobq' = Append(jobq, m)
    /\ UNCHANGED <<nonce_, procs_, reply_window_, conns_, wpc, wjob, wrep, heap, execs, wild>>
    /\ UNCHANGED <<link, cconn, sconn, reps>>

\* rpcs::got_pdu: queue a job that holds the connection.  When the queue is
\* full the PDU stays where it is.
GotRequest(m) ==
    /\ Live(sconn[m.clt], m.conn)
    /\ Len(jobq) < MaxQueue
    /\ reqs' = reqs \ {m}
    /\ jobq' = Append(jobq, m)
    /\ sconn' = [sconn EXCEPT ![m.clt] = Incref(@, m.conn)]
    /\ UNCHANGED <<nonce_, procs_, reply_window_, conns_, wpc, wjob, wrep, heap, execs, wild>>
    /\ UNCHANGED <<link, cconn, reps>>

\* Mutant of ForOldServer: the nonce is not looked at.
ForOldServerNever(h) == FALSE

\* Is the client sending to an old instance of the server?
ForOldServer(h) == h.srv_nonce # 0 /\ h.srv_nonce # nonce_

\* rpcs::dispatch begins with the next job.
TakeJob(w) ==
    /\ wpc[w] = "idle"
    /\ jobq # <<>>
    /\ jobq' = Tail(jobq)
    /\ wjob' = [wjob EXCEPT ![w] = Head(jobq)]
    /\ wpc' = [wpc EXCEPT ![w] = IF ForOldServer(Head(jobq).hdr) THEN "oldsrv" ELSE "lookup"]
    /\ UNCHANGED <<nonce_, procs_, reply_window_, conns_, wrep, heap, execs, wild>>
    /\ UNCHANGED wireVars

\* Mutant of GoIdle: the thread keeps the job it has done.
GoIdleKeepsJob(w) ==
    /\ wpc' = [wpc EXCEPT ![w] = "idle"]
    /\ wrep' = [wrep EXCEPT ![w] = NoReply]
    /\ UNCHANGED wjob

\* dispatch returns.
GoIdle(w) ==
    /\ wpc' = [wpc EXCEPT ![w] = "idle"]
    /\ wjob' = [wjob EXCEPT ![w] = NoJob]
    /\ wrep' = [wrep EXCEPT ![w] = NoReply]

\* The effect of c->send on the wire, for an outcome o of the call.
SendOn(w, o, rep) ==
    LET c == wjob[w].clt
        k == wjob[w].conn
    IN  /\ reps' = IF o.sent
                   THEN reps \cup {[clt |-> c, conn |-> k, xid |-> rep.xid,
                                    ret |-> rep.ret, val |-> rep.val]}
                   ELSE reps
        /\ reqs' = IF Live(o.conns, k) THEN reqs ELSE WithoutConn(reqs, c, k)

\* The reply a worker has in hand.
ReplyOf(w) == [xid |-> wjob[w].hdr.xid, ret |-> wrep[w].ret, val |-> wrep[w].val]

\* The request was for an older server: answer, and return without c->decref().
SendOldsrv(w) ==
    LET c == wjob[w].clt
    IN  /\ wpc[w] = "oldsrv"
        /\ \E o \in SendOutcomes(sconn[c], c, wjob[w].conn) :
              /\ SendOn(w, o, [xid |-> wjob[w].hdr.xid, ret |-> "oldsrv", val |-> 0])
              /\ sconn' = [sconn EXCEPT ![c] = o.conns]
        /\ GoIdle(w)
        /\ UNCHANGED <<nonce_, procs_, reply_window_, conns_, jobq, heap, execs, wild>>
        /\ UNCHANGED <<link, cconn>>

\* A procedure that is not registered: the request is dropped, unanswered.
LookupProc(w) ==
    LET c == wjob[w].clt
    IN  /\ wpc[w] = "lookup"
        /\ IF wjob[w].hdr.proc \in procs_
           THEN /\ wpc' = [wpc EXCEPT ![w] = "conns"]
                /\ UNCHANGED <<wjob, wrep, sconn>>
           ELSE /\ sconn' = [sconn EXCEPT ![c] = Decref(@, wjob[w].conn)]
                /\ GoIdle(w)
        /\ UNCHANGED <<nonce_, procs_, reply_window_, conns_, jobq, heap, execs, wild>>
        /\ UNCHANGED <<link, cconn, reqs, reps>>

\* Save the latest connection to the client: the one this request came on.
SaveConn(w) ==
    LET c == wjob[w].clt
        k == wjob[w].conn
    IN  /\ wpc[w] = "conns"
        /\ wpc' = [wpc EXCEPT ![w] = "check"]
        /\ IF conns_[c] = k
           THEN UNCHANGED <<conns_, sconn>>
           ELSE /\ conns_' = [conns_ EXCEPT ![c] = k]
                /\ sconn' = [sconn EXCEPT ![c] = Incref(DecrefIf(@, conns_[c]), k)]
        /\ UNCHANGED <<nonce_, procs_, reply_window_, jobq, wjob, wrep, heap, execs, wild>>
        /\ UNCHANGED <<link, cconn, reqs, reps>>

\* What dispatch does next; a duplicate in progress is done with.
AfterCheck(status) ==
    IF status = "NEW" THEN "run"
    ELSE IF status = "DONE" THEN "senddone"
    ELSE IF status = "FORGOTTEN" THEN "send"
    ELSE "idle"

(***************************************************************************)
(* rpcs::checkduplicate_and_update, and the case dispatch takes.  In the   *)
(* DONE case the worker only has a pointer to the buffer of the entry: it  *)
(* dangles when another worker drops the entry before the send.            *)
(***************************************************************************)
CheckDuplicate(w) ==
    LET c == wjob[w].clt
        h == wjob[w].hdr
        status == Status(reply_window_[c], h)
        dropped == Dropped(reply_window_[c], h)
    IN  /\ wpc[w] = "check"
        /\ reply_window_' = [reply_window_ EXCEPT ![c] = Checked(@, h)]
        /\ heap' = heap - Cardinality({x \in dropped : reply_window_[c][x].st = "present"})
        /\ wpc' = [v \in Workers |->
                IF v = w THEN AfterCheck(status)
                ELSE IF /\ wpc[v] = "senddone"
                        /\ wjob[v].clt = c
                        /\ wjob[v].hdr.xid \in dropped
                THEN "sendfreed"
                ELSE wpc[v]]
        /\ wrep' = [wrep EXCEPT ![w] =
                IF status = "DONE" THEN [ret |-> "ok", val |-> reply_window_[c][h.xid].val]
                ELSE IF status = "FORGOTTEN" THEN [ret |-> "forgotten", val |-> 0]
                ELSE NoReply]
        /\ IF status = "INPROGRESS"
           THEN /\ sconn' = [sconn EXCEPT ![c] = Decref(@, wjob[w].conn)]
                /\ wjob' = [wjob EXCEPT ![w] = NoJob]
           ELSE UNCHANGED <<sconn, wjob>>
        /\ UNCHANGED <<nonce_, procs_, conns_, jobq, execs, wild>>
        /\ UNCHANGED <<link, cconn, reqs, reps>>

\* f->fn(req, rep), and the reply packed into a buffer of its own.
\* rpcs::rpcbind returns the nonce of the server.
RunHandler(w) ==
    LET c == wjob[w].clt
        x == wjob[w].hdr.xid
    IN  /\ wpc[w] = "run"
        /\ wpc' = [wpc EXCEPT ![w] = "add"]
        /\ execs' = [execs EXCEPT ![c][x] = @ + 1]
        /\ wrep' = [wrep EXCEPT ![w] =
                [ret |-> "ok",
                 val |-> IF wjob[w].hdr.proc = "bind" THEN nonce_ ELSE execs[c][x] + 1]]
        /\ heap' = heap + 1
        /\ UNCHANGED <<nonce_, procs_, reply_window_, conns_, jobq, wjob, wild>>
        /\ UNCHANGED wireVars

\* Mutant of AddReply: the copy is made before the entry is looked for.
AddReplyCopiesFirst(w) ==
    LET c == wjob[w].clt
        x == wjob[w].hdr.xid
    IN  /\ wpc[w] = "add"
        /\ wpc' = [wpc EXCEPT ![w] = "pick"]
        /\ reply_window_' = [reply_window_ EXCEPT ![c] = Answered(@, x, wrep[w].val)]
        /\ heap' = heap + 1
        /\ UNCHANGED <<nonce_, procs_, conns_, jobq, wjob, wrep, execs, wild>>
        /\ UNCHANGED wireVars

\* rpcs::add_reply: a copy of the reply goes into the entry, if there still is one.
AddReply(w) ==
    LET c == wjob[w].clt
        x == wjob[w].hdr.xid
    IN  /\ wpc[w] = "add"
        /\ wpc' = [wpc EXCEPT ![w] = "pick"]
        /\ reply_window_' = [reply_window_ EXCEPT ![c] = Answered(@, x, wrep[w].val)]
        /\ heap' = IF reply_window_[c][x].st = "absent" THEN heap ELSE heap + 1
        /\ UNCHANGED <<nonce_, procs_, conns_, jobq, wjob, wrep, execs, wild>>
        /\ UNCHANGED wireVars

\* Get the latest connection to the client, if the request's own is dead.
PickConn(w) ==
    LET c == wjob[w].clt
        k == wjob[w].conn
    IN  /\ wpc[w] = "pick"
        /\ wpc' = [wpc EXCEPT ![w] = "send"]
        /\ IF ~Live(sconn[c], k) /\ conns_[c] # k
           THEN /\ sconn' = [sconn EXCEPT ![c] = Incref(Decref(@, k), conns_[c])]
                /\ wjob' = [wjob EXCEPT ![w].conn = conns_[c]]
           ELSE UNCHANGED <<sconn, wjob>>
        /\ UNCHANGED <<nonce_, procs_, reply_window_, conns_, jobq, wrep, heap, execs, wild>>
        /\ UNCHANGED <<link, cconn, reqs, reps>>

\* c->send and c->decref.  The worker's own buffer b1 is not freed, since the
\* clients modelled here have a clt_nonce.
SendReply(w) ==
    LET c == wjob[w].clt
    IN  /\ wpc[w] \in {"send", "senddone"}
        /\ \E o \in SendOutcomes(sconn[c], c, wjob[w].conn) :
              /\ SendOn(w, o, ReplyOf(w))
              /\ sconn' = [sconn EXCEPT ![c] = Decref(o.conns, wjob[w].conn)]
        /\ GoIdle(w)
        /\ UNCHANGED <<nonce_, procs_, reply_window_, conns_, jobq, heap, execs, wild>>
        /\ UNCHANGED <<link, cconn>>

\* The replies in memory that a freed buffer may have become part of.
Reused == {[xid |-> i[2], ret |-> "ok", val |-> reply_window_[i[1]][i[2]].val] :
             i \in {i \in Clients \X Xids : reply_window_[i[1]][i[2]].st = "present"}}

(***************************************************************************)
(* The same with a buffer that was freed.  The behaviour is undefined; the *)
(* bytes sent are the old reply, or a reply stored in the reused memory    *)
(* (of any client), or nothing that a client recognises.                   *)
(***************************************************************************)
SendFreed(w) ==
    LET c == wjob[w].clt
    IN  /\ wpc[w] = "sendfreed"
        /\ wild' = TRUE
        /\ \E o \in SendOutcomes(sconn[c], c, wjob[w].conn) :
              /\ \/ \E rep \in {ReplyOf(w)} \cup Reused : SendOn(w, o, rep)
                 \/ UNCHANGED reps /\ reqs' = IF Live(o.conns, wjob[w].conn) THEN reqs
                                               ELSE WithoutConn(reqs, c, wjob[w].conn)
              /\ sconn' = [sconn EXCEPT ![c] = Decref(o.conns, wjob[w].conn)]
        /\ GoIdle(w)
        /\ UNCHANGED <<nonce_, procs_, reply_window_, conns_, jobq, heap, execs>>
        /\ UNCHANGED <<link, cconn>>

(***************************************************************************)
(* The server process dies and a new one takes its place: a new nonce, and *)
(* nothing of the old one's memory.  Every link to the old one breaks.     *)
(***************************************************************************)
Restart ==
    /\ nonce_ < MaxNonce
    /\ nonce_' = nonce_ + 1
    /\ procs_' = {"bind"}
    /\ reply_window_' = NoReplies
    /\ conns_' = [c \in Clients |-> Null]
    /\ jobq' = <<>>
    /\ wpc' = [w \in Workers |-> "idle"]
    /\ wjob' = [w \in Workers |-> NoJob]
    /\ wrep' = [w \in Workers |-> NoReply]
    /\ heap' = 0
    /\ link' = [c \in Clients |-> [k \in Conns |->
                  IF link[c][k] = "up" THEN "down" ELSE link[c][k]]]
    /\ sconn' = [c \in Clients |-> [k \in Conns |->
                  IF link[c][k] = "none" THEN sconn[c][k] ELSE [st |-> "deleted", ref |-> 0]]]
    /\ reqs' = {}
    /\ UNCHANGED <<execs, wild, cconn, reps>>

\* What a thread of the dispatch pool does.
WorkerStep(w) ==
    \/ TakeJob(w)
    \/ SendOldsrv(w)
    \/ LookupProc(w)
    \/ SaveConn(w)
    \/ CheckDuplicate(w)
    \/ RunHandler(w)
    \/ AddReply(w)
    \/ PickConn(w)
    \/ SendReply(w)
    \/ SendFreed(w)
=============================================================================
