------------------------------ MODULE RpcProof ------------------------------
(***************************************************************************)
(* Proofs about the RPC library, for any number of clients, calls,         *)
(* connections, worker threads and server restarts: the inductive          *)
(* invariant Inv, and what follows from it about the executions of a call. *)
(***************************************************************************)
EXTENDS Rpc, FiniteSetTheorems, TLAPS

-----------------------------------------------------------------------------
(* The inductive invariant.                                                *)

\* The window's front is behind all it keeps ahead.
WindowOK ==
    \A c \in Clients : \A n \in xid_rep_window_[c].ahead : n > xid_rep_window_[c].front

\* The calls made so far are those below xid_; the others have not run.
FreshOK ==
    \A c \in Clients, x \in Xids :
        /\ pc[c][x] = "none" <=> x >= xid_[c]
        /\ pc[c][x] = "none" => execs[c][x] = 0

\* Every header names its own call, carries a nonce unless it is a bind, and
\* acknowledges only calls that are over.
HeaderOK ==
    \A c \in Clients, x \in Xids :
        pc[c][x] # "none" =>
            /\ hdr[c][x] \in Headers
            /\ hdr[c][x].xid = x
            /\ hdr[c][x].proc = "op" => hdr[c][x].srv_nonce > 0
            /\ \A n \in Xids : n <= hdr[c][x].xid_rep => Acked(c, n)

\* A request, wherever it is, is a copy of what call1 packed.
IsCopy(m) ==
    /\ pc[m.clt][m.hdr.xid] # "none"
    /\ m.hdr = hdr[m.clt][m.hdr.xid]

CopiesOK ==
    /\ \A m \in reqs : IsCopy(m)
    /\ \A i \in 1 .. Len(jobq) : IsCopy(jobq[i])
    /\ \A w \in Workers : wpc[w] # "idle" => IsCopy(wjob[w])

\* A successful reply carries a value that is not 0, so that a bound client
\* knows a nonce that is not 0.
ValueOK ==
    /\ \A r \in reps : r.ret = "ok" => r.val > 0
    /\ \A c \in Clients, x \in Xids :
          /\ reply_window_[c][x].st = "present" => reply_window_[c][x].val > 0
          /\ result[c][x].done /\ result[c][x].ret = "ok" => result[c][x].val > 0
    /\ \A w \in Workers :
          /\ wpc[w] = "add" => wrep[w].ret = "ok"
          /\ /\ wpc[w] \in {"add", "pick", "send", "senddone", "sendfreed"}
             /\ wrep[w].ret = "ok"
             => wrep[w].val > 0
    /\ \A c \in Clients : bind_done_[c] => srv_nonce_[c] > 0

\* What a worker has established by the time it is past the checks.
WorkerOK ==
    \A w \in Workers :
        /\ wpc[w] \notin {"idle", "oldsrv"} => wjob[w].hdr.srv_nonce \in {0, nonce_}
        /\ wpc[w] \in {"check", "run", "add", "pick"} => conns_[wjob[w].clt] # Null

\* There is a timed wait left for a call that waits.
RoundOK ==
    \A c \in Clients, x \in Xids : pc[c][x] = "wait" => round[c][x] < MaxRounds

Running(w, c, x) == wpc[w] = "run" /\ wjob[w].clt = c /\ wjob[w].hdr.xid = x

\* A call of the application that is not over runs at most once: it has not run
\* before the incarnation it is bound to, and from its first copy on that
\* incarnation has an entry for it.
OnceOK ==
    \A c \in Clients, x \in Xids :
        pc[c][x] # "none" /\ hdr[c][x].proc = "op" /\ ~Acked(c, x) =>
            /\ execs[c][x] <= 1
            /\ hdr[c][x].srv_nonce > nonce_ => execs[c][x] = 0
            /\ hdr[c][x].srv_nonce = nonce_ /\ execs[c][x] = 1 =>
                  reply_window_[c][x].st # "absent"
            /\ \A w \in Workers : Running(w, c, x) =>
                  /\ execs[c][x] = 0
                  /\ reply_window_[c][x].st # "absent"
                  /\ \A v \in Workers : Running(v, c, x) => v = w

Inv ==
    /\ TypeOK
    /\ WindowOK
    /\ FreshOK
    /\ HeaderOK
    /\ CopiesOK
    /\ ValueOK
    /\ WorkerOK
    /\ RoundOK
    /\ OnceOK

-----------------------------------------------------------------------------
(***************************************************************************)
(* rpcc::update_xid_rep acknowledges xid and what was acknowledged before, *)
(* and nothing else.                                                       *)
(***************************************************************************)
LEMMA UpdateXidRepLemma ==
    ASSUME NEW w \in Windows, \A n \in w.ahead : n > w.front,
           NEW x \in Xids, NEW v \in UpdateXidRep(w, x)
    PROVE  /\ v \in Windows
           /\ \A n \in v.ahead : n > v.front
           /\ \A n \in Xids : n \in Covered(v) <=> n \in Covered(w) \/ n = x
<1>0. MaxXid \in Nat /\ x \in 1 .. MaxXid
    BY WireAssumption, Zenon DEF Xids
<1>1. w.front \in 0 .. MaxXid /\ w.ahead \subseteq 1 .. MaxXid
    BY Zenon DEF Windows, Xids
<1>2. CASE x <= w.front
    <2>1. v = w
        BY <1>2, Zenon DEF UpdateXidRep
    <2> QED BY <1>0, <1>1, <1>2, <2>1 DEF Covered, Xids
<1>3. CASE ~(x <= w.front)
    <2> DEFINE over == w.ahead \cup {x}
    <2>1. PICK n \in {w.front} \cup over :
             /\ \A m \in w.front + 1 .. n : m \in over
             /\ n + 1 \notin over
             /\ v = [front |-> n, ahead |-> {m \in over : m > n}]
        BY <1>3, Zenon DEF UpdateXidRep
    <2>2. n \in 0 .. MaxXid /\ n >= w.front
        BY <1>0, <1>1, <1>3
    <2>3. v.front = n /\ v.ahead = {m \in over : m > n}
        BY <2>1, Zenon
    <2>4. v \in Windows
        BY <1>0, <1>1, <2>1, <2>2, Zenon DEF Windows, Xids
    <2>5. \A m \in v.ahead : m > v.front
        BY <2>3, Zenon
    <2>6. ASSUME NEW m \in Xids PROVE m \in Covered(v) <=> m \in Covered(w) \/ m = x
        BY <1>0, <1>1, <1>3, <2>1, <2>2, <2>3 DEF Covered, Xids
    <2> QED BY <2>4, <2>5, <2>6, Zenon
<1> QED BY <1>2, <1>3, Zenon

-----------------------------------------------------------------------------
(* Types.                                                                  *)

\* An assignment to one entry of a table keeps the table's type and changes
\* that entry alone.
LEMMA TableLemma ==
    ASSUME NEW A, NEW B, NEW T, NEW f \in [A -> [B -> T]],
           NEW a \in A, NEW b \in B, NEW t
    PROVE  /\ t \in T => [f EXCEPT ![a][b] = t] \in [A -> [B -> T]]
           /\ \A i \in A, j \in B :
                 [f EXCEPT ![a][b] = t][i][j] = IF i = a /\ j = b THEN t ELSE f[i][j]
BY Zenon

\* The operations on connection objects keep their type.
LEMMA EndpointLemma ==
    ASSUME NEW e \in [Conns -> Endpoints], NEW k \in Conns
    PROVE  /\ Created(e, k) \in [Conns -> Endpoints]
           /\ Incref(e, k) \in [Conns -> Endpoints]
           /\ Decref(e, k) \in [Conns -> Endpoints]
           /\ Killed(e, k) \in [Conns -> Endpoints]
           /\ \A c : \A o \in SendOutcomes(e, c, k) : o.conns \in [Conns -> Endpoints]
<1>1. Created(e, k) \in [Conns -> Endpoints]
    BY DEF Created, Endpoints
<1>2. Incref(e, k) \in [Conns -> Endpoints]
    BY DEF Incref, Endpoints
<1>3. Decref(e, k) \in [Conns -> Endpoints]
    BY DEF Decref, Endpoints
<1>4. Killed(e, k) \in [Conns -> Endpoints]
    BY Zenon DEF Killed, Endpoints
<1>5. ASSUME NEW c, NEW o \in SendOutcomes(e, c, k)
      PROVE  o.conns \in [Conns -> Endpoints]
    <2>1. \/ o = [conns |-> e, sent |-> TRUE]
          \/ o = [conns |-> e, sent |-> FALSE]
          \/ o = [conns |-> Killed(e, k), sent |-> FALSE]
        BY <1>5, Zenon DEF SendOutcomes
    <2>2. o.conns = e \/ o.conns = Killed(e, k)
        BY <2>1
    <2> QED BY <1>4, <2>2, Zenon
<1> QED BY <1>1, <1>2, <1>3, <1>4, <1>5, Zenon

\* Letting go of a pointer that may be null keeps the type of the connection objects.
LEMMA DecrefIfLemma ==
    ASSUME NEW e \in [Conns -> Endpoints], NEW k \in Conns \cup {Null}
    PROVE  DecrefIf(e, k) \in [Conns -> Endpoints]
BY EndpointLemma, Zenon DEF DecrefIf

\* A busy worker has a request in hand.
LEMMA JobLemma ==
    ASSUME TypeOK, NEW w \in Workers, wpc[w] # "idle"
    PROVE  /\ wjob[w] \in Requests
           /\ wjob[w].clt \in Clients
           /\ wjob[w].conn \in Conns
           /\ wjob[w].hdr \in Headers
           /\ wjob[w].hdr.xid \in Xids
<1>1. wjob[w] \in Requests
    BY Zenon DEF TypeOK, ServerTypeOK
<1>2. wjob[w].hdr \in Headers
    BY <1>1, Zenon DEF Requests
<1> QED BY <1>1, <1>2, Zenon DEF Requests, Headers

\* What c->send puts on the wire is a reply.
LEMMA SendOnLemma ==
    ASSUME TypeOK, NEW w \in Workers, wpc[w] # "idle", NEW o, NEW rep,
           rep.xid \in Xids, rep.ret \in Rets, rep.val \in Nat, SendOn(w, o, rep)
    PROVE  reps' \subseteq Replies /\ reqs' \subseteq Requests
<1>1. wjob[w].clt \in Clients /\ wjob[w].conn \in Conns
    BY JobLemma, Zenon
<1>2. [clt |-> wjob[w].clt, conn |-> wjob[w].conn, xid |-> rep.xid,
       ret |-> rep.ret, val |-> rep.val] \in Replies
    BY <1>1, Zenon DEF Replies
<1> QED BY <1>2, Zenon DEF SendOn, WithoutConn, TypeOK, WireTypeOK

\* No step takes the wire out of its type.
LEMMA WireTypeStep ==
    ASSUME TypeOK, HeaderOK, WorkerOK, Next
    PROVE  WireTypeOK'
<1> USE DEF TypeOK, WireTypeOK
<1>1. ASSUME NEW c \in Clients, NEW k \in Conns, Break(c, k)
      PROVE  WireTypeOK'
    BY <1>1, Zenon DEF Break
<1>2. ASSUME NEW c \in Clients, NEW k \in Conns, ClientEof(c, k)
      PROVE  WireTypeOK'
    <2>1. cconn' \in [Clients -> [Conns -> Endpoints]]
        BY <1>2, EndpointLemma, Zenon DEF ClientEof
    <2> QED BY <1>2, <2>1, Zenon DEF ClientEof, WithoutConn
<1>3. ASSUME NEW c \in Clients, NEW k \in Conns, ServerEof(c, k)
      PROVE  WireTypeOK'
    <2>1. sconn' \in [Clients -> [Conns -> Endpoints]]
        BY <1>3, EndpointLemma, Zenon DEF ServerEof
    <2> QED BY <1>3, <2>1, Zenon DEF ServerEof, WithoutConn
<1>4. ASSUME NEW c \in Clients, NEW k \in Conns, Accept(c, k)
      PROVE  WireTypeOK'
    <2>1. sconn' \in [Clients -> [Conns -> Endpoints]]
        BY <1>4 DEF Accept, Endpoints
    <2> QED BY <1>4, <2>1, Zenon DEF Accept
<1>5. ASSUME NEW c \in Clients, NEW proc \in Procs, StartCall(c, proc)
      PROVE  WireTypeOK'
    BY <1>5, Zenon DEF StartCall, wireVars
<1>6. ASSUME NEW c \in Clients, NEW x \in Xids, GetRefconn(c, x)
      PROVE  WireTypeOK'
    <2>1. /\ cconn[c] \in [Conns -> Endpoints]
          /\ chan_[c] \in Conns \cup {Null}
          /\ ch[c][x] \in Conns \cup {Null}
        BY DEF ClientTypeOK
    <2>2. CASE Usable(c, chan_[c])
        <3>1. cconn' = [cconn EXCEPT ![c] = Incref(DecrefIf(cconn[c], ch[c][x]), chan_[c])]
            BY <1>6, <2>2, Zenon DEF GetRefconn
        <3>2. cconn' \in [Clients -> [Conns -> Endpoints]]
            BY <2>1, <2>2, <3>1, EndpointLemma, DecrefIfLemma, Zenon DEF Usable
        <3> QED BY <1>6, <2>2, <3>2, Zenon DEF GetRefconn
    <2>3. CASE ~Usable(c, chan_[c])
        <3> DEFINE dropped == DecrefIf(cconn[c], chan_[c])
        <3>1. PICK k \in FreshConns(c) :
                IF k = Null
                THEN /\ cconn' = [cconn EXCEPT ![c] = dropped]
                     /\ UNCHANGED <<ch, link>>
                ELSE /\ link' = [link EXCEPT ![c][k] = "up"]
                     /\ cconn' = [cconn EXCEPT ![c] =
                                  Incref(DecrefIf(Created(dropped, k), ch[c][x]), k)]
            BY <1>6, <2>3, Zenon DEF GetRefconn
        <3>2. k \in Conns \cup {Null} /\ dropped \in [Conns -> Endpoints]
            BY <2>1, DecrefIfLemma, Zenon DEF FreshConns
        <3>3. CASE k = Null
            BY <1>6, <3>1, <3>2, <3>3, Zenon DEF GetRefconn
        <3>4. CASE k # Null
            <4>1. k \in Conns
                BY <3>2, <3>4, Zenon
            <4>2. Incref(DecrefIf(Created(dropped, k), ch[c][x]), k) \in [Conns -> Endpoints]
                BY <2>1, <3>2, <4>1, EndpointLemma, DecrefIfLemma, Zenon
            <4>3. cconn' \in [Clients -> [Conns -> Endpoints]]
                BY <3>1, <3>4, <4>2, Zenon
            <4>4. link' = [link EXCEPT ![c][k] = "up"]
                BY <3>1, <3>4, Zenon
            <4> QED BY <1>6, <4>1, <4>3, <4>4, Zenon DEF GetRefconn
        <3> QED BY <3>3, <3>4, Zenon
    <2> QED BY <2>2, <2>3, Zenon
<1>7. ASSUME NEW c \in Clients, NEW x \in Xids, SendRequest(c, x)
      PROVE  WireTypeOK'
    <2>1. /\ cconn[c] \in [Conns -> Endpoints]
          /\ ch[c][x] \in Conns \cup {Null}
        BY DEF ClientTypeOK
    <2>2. CASE ch[c][x] = Null
        BY <1>7, <2>2, Zenon DEF SendRequest
    <2>3. CASE ch[c][x] # Null
        <3> DEFINE m == [clt |-> c, conn |-> ch[c][x], hdr |-> hdr[c][x]]
        <3>1. PICK o \in SendOutcomes(cconn[c], c, ch[c][x]) :
                /\ cconn' = [cconn EXCEPT ![c] = o.conns]
                /\ reqs' = IF o.sent THEN reqs \cup {m} ELSE reqs
                /\ reps' = IF Live(o.conns, ch[c][x]) THEN reps
                           ELSE WithoutConn(reps, c, ch[c][x])
            BY <1>7, <2>3, Zenon DEF SendRequest
        <3>2. cconn' \in [Clients -> [Conns -> Endpoints]]
            BY <2>1, <2>3, <3>1, EndpointLemma, Zenon
        <3>3. reps' \subseteq Replies
            BY <3>1, Zenon DEF WithoutConn
        <3>4. m \in Requests
            BY <1>7, <2>1, <2>3, Zenon DEF SendRequest, HeaderOK, Requests
        <3> QED BY <1>7, <3>1, <3>2, <3>3, <3>4, Zenon DEF SendRequest
    <2> QED BY <2>2, <2>3, Zenon
<1>8. ASSUME NEW c \in Clients, NEW x \in Xids, TimeOut(c, x) \/ NextRound(c, x)
      PROVE  WireTypeOK'
    BY <1>8, Zenon DEF TimeOut, NextRound, wireVars
<1>9. ASSUME NEW c \in Clients, NEW x \in Xids, FinishCall(c, x)
      PROVE  WireTypeOK'
    <2>1. cconn' \in [Clients -> [Conns -> Endpoints]]
        <3>0. cconn[c] \in [Conns -> Endpoints] /\ ch[c][x] \in Conns \cup {Null}
            BY DEF ClientTypeOK
        <3>1. DecrefIf(cconn[c], ch[c][x]) \in [Conns -> Endpoints]
            BY <3>0, DecrefIfLemma, Zenon
        <3> QED BY <1>9, <3>1, Zenon DEF FinishCall
    <2> QED BY <1>9, <2>1, Zenon DEF FinishCall
<1>10. ASSUME NEW r \in reps, GotReply(r)
       PROVE  WireTypeOK'
    BY <1>10, Zenon DEF GotReply
<1>11. ASSUME NEW m \in reqs, GotRequest(m)
       PROVE  WireTypeOK'
    <2>1. m.clt \in Clients /\ m.conn \in Conns
        BY Zenon DEF Requests
    <2>2. sconn' \in [Clients -> [Conns -> Endpoints]]
        BY <1>11, <2>1, EndpointLemma, Zenon DEF GotRequest
    <2> QED BY <1>11, <2>2, Zenon DEF GotRequest
<1>12. ASSUME NEW w \in Workers, TakeJob(w) \/ RunHandler(w) \/ AddReply(w)
       PROVE  WireTypeOK'
    BY <1>12, Zenon DEF TakeJob, RunHandler, AddReply, wireVars
<1>13. Register => WireTypeOK'
    BY Zenon DEF Register, wireVars
<1>14. ASSUME NEW w \in Workers, SendOldsrv(w)
       PROVE  WireTypeOK'
    <2> DEFINE rep == [xid |-> wjob[w].hdr.xid, ret |-> "oldsrv", val |-> 0]
    <2>1. wpc[w] # "idle"
        BY <1>14, Zenon DEF SendOldsrv
    <2>2. wjob[w].clt \in Clients /\ wjob[w].conn \in Conns /\ wjob[w].hdr.xid \in Xids
        BY <2>1, JobLemma, Zenon
    <2>3. PICK o \in SendOutcomes(sconn[wjob[w].clt], wjob[w].clt, wjob[w].conn) :
            /\ SendOn(w, o, rep)
            /\ sconn' = [sconn EXCEPT ![wjob[w].clt] = o.conns]
        BY <1>14, Zenon DEF SendOldsrv
    <2>4. sconn' \in [Clients -> [Conns -> Endpoints]]
        BY <2>2, <2>3, EndpointLemma, Zenon
    <2>5. reps' \subseteq Replies /\ reqs' \subseteq Requests
        BY <2>1, <2>2, <2>3, SendOnLemma, Zenon DEF Rets
    <2> QED BY <1>14, <2>4, <2>5, Zenon DEF SendOldsrv
<1>15. ASSUME NEW w \in Workers, LookupProc(w) \/ SaveConn(w) \/ CheckDuplicate(w)
       PROVE  WireTypeOK'
    <2>1. wjob[w].clt \in Clients /\ wjob[w].conn \in Conns
        BY <1>15, JobLemma, Zenon DEF LookupProc, SaveConn, CheckDuplicate
    <2>2. conns_[wjob[w].clt] \in Conns \cup {Null}
        BY <2>1, Zenon DEF ServerTypeOK
    <2> DEFINE e == sconn[wjob[w].clt]
               k == wjob[w].conn
               dropped == Decref(e, k)
               saved == Incref(DecrefIf(e, conns_[wjob[w].clt]), k)
    <2>4. e \in [Conns -> Endpoints]
        BY <2>1, Zenon
    <2>5. dropped \in [Conns -> Endpoints] /\ saved \in [Conns -> Endpoints]
        BY <2>1, <2>2, <2>4, EndpointLemma, DecrefIfLemma, Zenon
    <2>6. \/ sconn' = sconn
          \/ sconn' = [sconn EXCEPT ![wjob[w].clt] = dropped]
          \/ sconn' = [sconn EXCEPT ![wjob[w].clt] = saved]
        BY <1>15, Zenon DEF LookupProc, SaveConn, CheckDuplicate
    <2> HIDE DEF dropped, saved
    <2>3. sconn' \in [Clients -> [Conns -> Endpoints]]
        BY <2>1, <2>5, <2>6, Zenon
    <2> QED BY <1>15, <2>3, Zenon DEF LookupProc, SaveConn, CheckDuplicate
<1>16. ASSUME NEW w \in Workers, PickConn(w)
       PROVE  WireTypeOK'
    <2>1. wjob[w].clt \in Clients /\ wjob[w].conn \in Conns
        BY <1>16, JobLemma, Zenon DEF PickConn
    <2>2. conns_[wjob[w].clt] \in Conns
        BY <1>16, <2>1, Zenon DEF PickConn, WorkerOK, ServerTypeOK
    <2> DEFINE e == sconn[wjob[w].clt]
               k == wjob[w].conn
               picked == Incref(Decref(e, k), conns_[wjob[w].clt])
    <2>4. e \in [Conns -> Endpoints]
        BY <2>1, Zenon
    <2>5. picked \in [Conns -> Endpoints]
        BY <2>1, <2>2, <2>4, EndpointLemma, Zenon
    <2>6. sconn' = sconn \/ sconn' = [sconn EXCEPT ![wjob[w].clt] = picked]
        BY <1>16, Zenon DEF PickConn
    <2> HIDE DEF picked
    <2>3. sconn' \in [Clients -> [Conns -> Endpoints]]
        BY <2>1, <2>5, <2>6, Zenon
    <2> QED BY <1>16, <2>3, Zenon DEF PickConn
<1>17. ASSUME NEW w \in Workers, SendReply(w) \/ SendFreed(w)
       PROVE  WireTypeOK'
    <2> DEFINE c == wjob[w].clt
               k == wjob[w].conn
    <2>1. wpc[w] # "idle"
        BY <1>17, Zenon DEF SendReply, SendFreed
    <2>2. c \in Clients /\ k \in Conns /\ wjob[w].hdr.xid \in Xids
        BY <2>1, JobLemma, Zenon
    <2> DEFINE IsReply(rep) == rep.xid \in Xids /\ rep.ret \in Rets /\ rep.val \in Nat
    <2>r. wrep[w] \in [ret : Rets, val : Nat]
        BY Zenon DEF ServerTypeOK
    <2>0. IsReply(ReplyOf(w))
        BY <2>2, <2>r, Zenon DEF ReplyOf
    <2>3. PICK o \in SendOutcomes(sconn[c], c, k) :
            /\ \/ \E rep : IsReply(rep) /\ SendOn(w, o, rep)
               \/ UNCHANGED reps /\ (reqs' = reqs \/ reqs' = WithoutConn(reqs, c, k))
            /\ sconn' = [sconn EXCEPT ![c] = Decref(o.conns, k)]
        <3>1. CASE SendReply(w)
            BY <2>0, <3>1, Zenon DEF SendReply
        <3>2. CASE SendFreed(w)
            <4>1. ASSUME NEW rep \in Reused PROVE IsReply(rep)
                <5>1. PICK i \in Clients \X Xids :
                        /\ rep.xid = i[2] /\ rep.ret = "ok"
                        /\ rep.val = reply_window_[i[1]][i[2]].val
                    <6>1. PICK i \in Clients \X Xids :
                            rep = [xid |-> i[2], ret |-> "ok", val |-> reply_window_[i[1]][i[2]].val]
                        BY Zenon DEF Reused
                    <6> HIDE DEF TypeOK, WireTypeOK
                    <6> QED BY <6>1
                <5>2. i[1] \in Clients /\ i[2] \in Xids
                    BY Zenon
                <5>3. reply_window_[i[1]][i[2]] \in Entries
                    BY <5>2 DEF ServerTypeOK
                <5> QED BY <5>1, <5>2, <5>3, Zenon DEF Entries, Rets
            <4> HIDE DEF IsReply
            <4> QED BY <2>0, <3>2, <4>1, Zenon DEF SendFreed
        <3> QED BY <1>17, <3>1, <3>2, Zenon
    <2>4. sconn' \in [Clients -> [Conns -> Endpoints]]
        BY <2>2, <2>3, EndpointLemma, Zenon
    <2>5. reps' \subseteq Replies /\ reqs' \subseteq Requests
        BY <2>1, <2>3, SendOnLemma, Zenon DEF WithoutConn
    <2> QED BY <1>17, <2>4, <2>5, Zenon DEF SendReply, SendFreed
<1>18. Restart => WireTypeOK'
    BY DEF Restart, Endpoints
<1> QED
    BY <1>1, <1>2, <1>3, <1>4, <1>5, <1>6, <1>7, <1>8, <1>9, <1>10, <1>11, <1>12, <1>13,
       <1>14, <1>15, <1>16, <1>17, <1>18, Zenon
    DEF Next, ClientStep, WorkerStep

\* The same for the window of a client, where call1 and got_pdu update it.
LEMMA AckLemma ==
    ASSUME TypeOK, WindowOK, NEW c \in Clients, NEW x \in Xids,
           \E w \in UpdateXidRep(xid_rep_window_[c], x) :
              xid_rep_window_' = [xid_rep_window_ EXCEPT ![c] = w]
    PROVE  /\ xid_rep_window_' \in [Clients -> Windows]
           /\ WindowOK'
           /\ \A d \in Clients, n \in Xids : Acked(d, n)' <=> Acked(d, n) \/ (d = c /\ n = x)
<1>1. xid_rep_window_ \in [Clients -> Windows]
    BY Zenon DEF TypeOK, ClientTypeOK
<1>2. PICK w \in UpdateXidRep(xid_rep_window_[c], x) :
         xid_rep_window_' = [xid_rep_window_ EXCEPT ![c] = w]
    BY Zenon
<1>3. xid_rep_window_[c] \in Windows /\ \A n \in xid_rep_window_[c].ahead : n > xid_rep_window_[c].front
    BY <1>1, Zenon DEF WindowOK
<1>4. /\ w \in Windows
      /\ \A n \in w.ahead : n > w.front
      /\ \A n \in Xids : n \in Covered(w) <=> n \in Covered(xid_rep_window_[c]) \/ n = x
    BY <1>3, UpdateXidRepLemma, Zenon
<1>5. xid_rep_window_' \in [Clients -> Windows]
    BY <1>1, <1>2, <1>4, Zenon
<1>6. /\ xid_rep_window_'[c] = w
      /\ \A d \in Clients \ {c} : xid_rep_window_'[d] = xid_rep_window_[d]
    BY <1>1, <1>2, Zenon
<1>7. WindowOK'
    BY <1>4, <1>6, Zenon DEF WindowOK
<1>8. ASSUME NEW d \in Clients, NEW n \in Xids
      PROVE  Acked(d, n)' <=> Acked(d, n) \/ (d = c /\ n = x)
    BY <1>4, <1>6, Zenon DEF Acked
<1> QED BY <1>5, <1>7, <1>8, Zenon

\* No step takes the variables of rpcc out of their types.
LEMMA ClientTypeStep ==
    ASSUME TypeOK, WindowOK, RoundOK, Next
    PROVE  ClientTypeOK'
<1> USE DEF TypeOK, ClientTypeOK
<1>0. MaxXid \in Nat /\ MaxRounds \in Nat
    BY WireAssumption, ClientAssumption, Zenon
<1>1. UNCHANGED clientVars => ClientTypeOK'
    BY Zenon DEF clientVars
<1>2. ASSUME NEW c \in Clients, NEW proc \in Procs, StartCall(c, proc)
      PROVE  ClientTypeOK'
    <2>1. xid_[c] \in Xids /\ xid_[c] + 1 \in 1 .. MaxXid + 1
        <3>1. xid_[c] \in 1 .. MaxXid + 1 /\ xid_[c] <= MaxXid
            BY <1>2, Zenon DEF StartCall
        <3> HIDE DEF TypeOK, ClientTypeOK
        <3> QED BY <1>0, <3>1 DEF Xids
    <2> DEFINE h == [xid |-> xid_[c], proc |-> proc, srv_nonce |-> srv_nonce_[c],
                     xid_rep |-> xid_rep_window_[c].front]
    <2>2. h \in Headers
        BY <2>1, Zenon DEF Headers, Windows
    <2>3. hdr' = [hdr EXCEPT ![c][xid_[c]] = h]
        BY <1>2, Zenon DEF StartCall
    <2> HIDE DEF h
    <2>4. hdr' \in [Clients -> [Xids -> Headers \cup {NoHeader}]]
        BY <2>1, <2>2, <2>3, Zenon
    <2> QED BY <1>2, <2>1, <2>4, Zenon DEF StartCall
<1>3. ASSUME NEW c \in Clients, NEW x \in Xids, GetRefconn(c, x)
      PROVE  ClientTypeOK'
    <2>1. chan_' \in [Clients -> Conns \cup {Null}]
        BY <1>3, Zenon DEF GetRefconn, FreshConns
    <2>2. ch' \in [Clients -> [Xids -> Conns \cup {Null}]]
        <3>1. \/ ch' = ch
              \/ \E k \in Conns \cup {Null} : ch' = [ch EXCEPT ![c][x] = k]
            BY <1>3, Zenon DEF GetRefconn, FreshConns
        <3>2. ch \in [Clients -> [Xids -> Conns \cup {Null}]]
            BY Zenon
        <3>3. \A k \in Conns \cup {Null} :
                [ch EXCEPT ![c][x] = k] \in [Clients -> [Xids -> Conns \cup {Null}]]
            BY <3>2, TableLemma, Zenon
        <3> QED BY <3>1, <3>2, <3>3, ZenonT(60)
    <2> QED BY <1>3, <2>1, <2>2, Zenon DEF GetRefconn
<1>4. ASSUME NEW c \in Clients, NEW x \in Xids, SendRequest(c, x) \/ NextRound(c, x)
      PROVE  ClientTypeOK'
    <2>1. \E p \in {"connect", "wait", "leave"} : pc' = [pc EXCEPT ![c][x] = p]
        BY <1>4, Zenon DEF SendRequest, NextRound, AfterSend
    <2>2. pc' \in [Clients -> [Xids -> {"none", "connect", "send", "wait", "timedout",
                                        "leave", "returned"}]]
        BY <2>1
    <2> QED BY <1>4, <2>2, Zenon DEF SendRequest, NextRound
<1>5. ASSUME NEW c \in Clients, NEW x \in Xids, TimeOut(c, x)
      PROVE  ClientTypeOK'
    <2>1. round[c][x] + 1 \in 0 .. MaxRounds
        BY <1>0, <1>5 DEF TimeOut, RoundOK
    <2> QED BY <1>5, <2>1, Zenon DEF TimeOut
<1>6. ASSUME NEW c \in Clients, NEW x \in Xids, FinishCall(c, x)
      PROVE  ClientTypeOK'
    <2>1. xid_rep_window_' \in [Clients -> Windows]
        BY <1>6, AckLemma, Zenon DEF FinishCall
    <2>2. bind_done_' \in [Clients -> BOOLEAN] /\ srv_nonce_' \in [Clients -> Nat]
        <3>1. result[c][x].val \in Nat
            BY Zenon
        <3> QED BY <1>6, <3>1, Zenon DEF FinishCall
    <2> QED BY <1>6, <2>1, <2>2, Zenon DEF FinishCall
<1>7. ASSUME NEW r \in reps, GotReply(r)
      PROVE  ClientTypeOK'
    <2>1. r.clt \in Clients /\ r.xid \in Xids /\ r.ret \in Rets /\ r.val \in Nat
        BY Zenon DEF WireTypeOK, Replies
    <2>2. xid_rep_window_' \in [Clients -> Windows]
        BY <1>7, <2>1, AckLemma, Zenon DEF GotReply
    <2>3. result' \in [Clients -> [Xids -> [done : BOOLEAN, ret : Rets, val : Nat]]]
        BY <1>7, <2>1, Zenon DEF GotReply
    <2> QED BY <1>7, <2>2, <2>3, Zenon DEF GotReply
<1> QED BY <1>1, <1>2, <1>3, <1>4, <1>5, <1>6, <1>7, Zenon DEF Next, ClientStep

(***************************************************************************)
(* What checkduplicate_and_update does to a client's window: it drops      *)
(* finitely many entries and keeps the others, it changes no reply, and it *)
(* leaves an entry for a new request.                                      *)
(***************************************************************************)
LEMMA CheckedLemma ==
    ASSUME NEW win \in [Xids -> Entries], NEW h \in Headers
    PROVE  /\ Cardinality({x \in Dropped(win, h) : win[x].st = "present"}) \in Nat
           /\ Checked(win, h) \in [Xids -> Entries]
           /\ \A x \in Xids :
                 /\ Checked(win, h)[x].st = "present" => Checked(win, h)[x] = win[x]
                 /\ x \notin Dropped(win, h) /\ win[x].st # "absent" =>
                       Checked(win, h)[x].st # "absent"
           /\ Status(win, h) = "NEW" => Checked(win, h)[h.xid].st = "inprogress"
<1>0. h.xid \in Xids
    BY Zenon DEF Headers
<1>1. Dropped(win, h) \subseteq Xids
    BY <1>0, Zenon DEF Dropped
<1>2. Cardinality({x \in Dropped(win, h) : win[x].st = "present"}) \in Nat
    <2>1. IsFiniteSet(Xids)
        BY FS_Interval, WireAssumption DEF Xids
    <2>2. {x \in Dropped(win, h) : win[x].st = "present"} \subseteq Xids
        BY <1>1, Zenon
    <2> QED BY <2>1, <2>2, FS_Subset, FS_CardinalityType, Zenon
<1>3. /\ Absent \in Entries /\ Absent.st = "absent"
      /\ InProgress \in Entries /\ InProgress.st = "inprogress"
    BY Zenon DEF Absent, InProgress, Entries
<1>4. Checked(win, h) \in [Xids -> Entries]
    BY <1>3, Zenon DEF Checked
<1>5. ASSUME NEW x \in Xids
      PROVE  /\ Checked(win, h)[x].st = "present" => Checked(win, h)[x] = win[x]
             /\ x \notin Dropped(win, h) /\ win[x].st # "absent" =>
                   Checked(win, h)[x].st # "absent"
    BY <1>3, Zenon DEF Checked
<1>6. Status(win, h) = "NEW" => Checked(win, h)[h.xid].st = "inprogress"
    BY <1>0, <1>3, Zenon DEF Checked
<1> QED BY <1>2, <1>4, <1>5, <1>6, Zenon

\* add_reply changes at most the entry of the call, to the reply.
LEMMA AnsweredLemma ==
    ASSUME NEW win \in [Xids -> Entries], NEW x \in Xids, NEW v \in Nat
    PROVE  /\ Answered(win, x, v) \in [Xids -> Entries]
           /\ \A y \in Xids : \/ Answered(win, x, v)[y] = win[y]
                             \/ Answered(win, x, v)[y] = [st |-> "present", val |-> v]
BY Zenon DEF Answered, Entries

\* add_reply makes no entry and drops none.
LEMMA AnsweredKeeps ==
    ASSUME NEW win \in [Xids -> Entries], NEW x, NEW v, NEW y \in Xids, win[y].st # "absent"
    PROVE  Answered(win, x, v)[y].st # "absent"
BY Zenon DEF Answered, Entries

\* No step takes the variables of rpcs out of their types.
LEMMA ServerTypeStep ==
    ASSUME TypeOK, WorkerOK, Next
    PROVE  ServerTypeOK'
<1> USE DEF TypeOK, ServerTypeOK
<1>0. MaxNonce \in Nat /\ NoJob \notin Requests
    BY WireAssumption, ServerAssumption, Zenon
<1>1. UNCHANGED serverVars => ServerTypeOK'
    BY Zenon DEF serverVars
<1>2. Register => ServerTypeOK'
    BY Zenon DEF Register
<1>3. ASSUME NEW m \in reqs, GotRequest(m)
      PROVE  ServerTypeOK'
    BY <1>3 DEF GotRequest, WireTypeOK
<1>4. ASSUME NEW w \in Workers, TakeJob(w)
      PROVE  ServerTypeOK'
    <2>1. Head(jobq) \in Requests /\ Tail(jobq) \in Seq(Requests)
        BY <1>4 DEF TakeJob
    <2> QED BY <1>0, <1>4, <2>1, Zenon DEF TakeJob, WorkerPCs
<1>5. ASSUME NEW w \in Workers, GoIdle(w)
      PROVE  /\ wpc' \in [Workers -> WorkerPCs]
             /\ wjob' \in [Workers -> Requests \cup {NoJob}]
             /\ \A v \in Workers : wjob'[v] = NoJob <=> wpc'[v] = "idle"
             /\ wrep' \in [Workers -> [ret : Rets, val : Nat]]
    BY <1>5, Zenon DEF GoIdle, WorkerPCs, NoReply, Rets
<1>6. ASSUME NEW w \in Workers, SendOldsrv(w) \/ SendReply(w) \/ SendFreed(w)
      PROVE  ServerTypeOK'
    BY <1>5, <1>6, Zenon DEF SendOldsrv, SendReply, SendFreed
<1>7. ASSUME NEW w \in Workers, LookupProc(w)
      PROVE  ServerTypeOK'
    <2>1. CASE wjob[w].hdr.proc \in procs_
        BY <1>7, <2>1, Zenon DEF LookupProc, WorkerPCs
    <2>2. CASE wjob[w].hdr.proc \notin procs_
        BY <1>5, <1>7, <2>2, Zenon DEF LookupProc
    <2> QED BY <2>1, <2>2, Zenon
<1>8. ASSUME NEW w \in Workers, SaveConn(w)
      PROVE  ServerTypeOK'
    <2>1. wjob[w].conn \in Conns
        BY <1>8, JobLemma, Zenon DEF SaveConn
    <2> QED BY <1>8, <2>1, Zenon DEF SaveConn, WorkerPCs
<1>9. ASSUME NEW w \in Workers, CheckDuplicate(w)
      PROVE  ServerTypeOK'
    <2> DEFINE c == wjob[w].clt
               h == wjob[w].hdr
    <2>1. c \in Clients /\ h \in Headers /\ h.xid \in Xids /\ wjob[w] # NoJob
        BY <1>9, JobLemma, Zenon DEF CheckDuplicate
    <2>2. reply_window_[c] \in [Xids -> Entries] /\ reply_window_[c][h.xid].val \in Nat
        BY <2>1 DEF Entries
    <2>3. reply_window_' \in [Clients -> [Xids -> Entries]]
        BY <1>9, <2>1, <2>2, CheckedLemma, Zenon DEF CheckDuplicate
    <2>4. heap' \in Int
        <3> DEFINE freed == Cardinality({x \in Dropped(reply_window_[c], h) : reply_window_[c][x].st = "present"})
        <3>1. freed \in Nat
            BY <2>1, <2>2, CheckedLemma, Zenon
        <3>2. heap' = heap - freed
            BY <1>9, Zenon DEF CheckDuplicate
        <3> HIDE DEF freed
        <3> QED BY <3>1, <3>2
    <2>5. wrep' \in [Workers -> [ret : Rets, val : Nat]]
        BY <1>9, <2>2, Zenon DEF CheckDuplicate, NoReply, Rets
    <2>6. wpc' \in [Workers -> WorkerPCs]
        BY <1>9, Zenon DEF CheckDuplicate, AfterCheck, WorkerPCs
    <2>7. wpc'[w] = "idle" <=> Status(reply_window_[c], h) = "INPROGRESS"
        BY <1>9, Zenon DEF CheckDuplicate, AfterCheck, Status
    <2>8. \A v \in Workers \ {w} : wpc'[v] = "idle" <=> wpc[v] = "idle"
        BY <1>9, Zenon DEF CheckDuplicate
    <2>9. wjob' = IF Status(reply_window_[c], h) = "INPROGRESS" THEN [wjob EXCEPT ![w] = NoJob] ELSE wjob
        BY <1>9, Zenon DEF CheckDuplicate
    <2>10. /\ wjob' \in [Workers -> Requests \cup {NoJob}]
           /\ \A v \in Workers : wjob'[v] = NoJob <=> wpc'[v] = "idle"
        BY <2>1, <2>7, <2>8, <2>9, Zenon
    <2> QED BY <1>9, <2>3, <2>4, <2>5, <2>6, <2>10, Zenon DEF CheckDuplicate
<1>10. ASSUME NEW w \in Workers, RunHandler(w)
       PROVE  ServerTypeOK'
    <2>1. wjob[w].clt \in Clients /\ wjob[w].hdr.xid \in Xids
        BY <1>10, JobLemma, Zenon DEF RunHandler
    <2>2. execs[wjob[w].clt][wjob[w].hdr.xid] + 1 \in Nat /\ nonce_ \in Nat
        BY <1>0, <2>1
    <2>3. execs' \in [Clients -> [Xids -> Nat]]
        BY <1>10, <2>1, <2>2, Zenon DEF RunHandler
    <2>4. wrep' \in [Workers -> [ret : Rets, val : Nat]]
        BY <1>10, <2>2, Zenon DEF RunHandler, Rets
    <2>5. wpc' \in [Workers -> WorkerPCs] /\ wpc'[w] # "idle" /\ wpc[w] # "idle"
        BY <1>10, Zenon DEF RunHandler, WorkerPCs
    <2>6. heap' \in Int
        <3>1. heap' = heap + 1
            BY <1>10, Zenon DEF RunHandler
        <3>2. heap \in Int
            BY Zenon
        <3> HIDE DEF TypeOK, ServerTypeOK
        <3> QED BY <3>1, <3>2
    <2>7. \A v \in Workers : wjob'[v] = NoJob <=> wpc'[v] = "idle"
        BY <1>10, <2>5, Zenon DEF RunHandler
    <2> QED BY <1>10, <2>3, <2>4, <2>5, <2>6, <2>7, Zenon DEF RunHandler
<1>11. ASSUME NEW w \in Workers, AddReply(w)
       PROVE  ServerTypeOK'
    <2>1. wjob[w].clt \in Clients /\ wjob[w].hdr.xid \in Xids
        BY <1>11, JobLemma, Zenon DEF AddReply
    <2>2. reply_window_[wjob[w].clt] \in [Xids -> Entries] /\ wrep[w].val \in Nat
        BY <2>1, Zenon
    <2>3. reply_window_' \in [Clients -> [Xids -> Entries]]
        BY <1>11, <2>1, <2>2, AnsweredLemma, Zenon DEF AddReply
    <2>4. heap' \in Int
        <3>1. heap \in Int /\ (heap' = heap \/ heap' = heap + 1)
            BY <1>11, Zenon DEF AddReply
        <3> HIDE DEF TypeOK, ServerTypeOK
        <3> QED BY <3>1
    <2>5. wpc' \in [Workers -> WorkerPCs] /\ wpc'[w] # "idle" /\ wpc[w] # "idle"
        BY <1>11, Zenon DEF AddReply, WorkerPCs
    <2>6. \A v \in Workers : wjob'[v] = NoJob <=> wpc'[v] = "idle"
        BY <1>11, <2>5, Zenon DEF AddReply
    <2> QED BY <1>11, <2>3, <2>4, <2>5, <2>6, Zenon DEF AddReply
<1>12. ASSUME NEW w \in Workers, PickConn(w)
       PROVE  ServerTypeOK'
    <2>1. wjob[w] \in Requests /\ wjob[w].clt \in Clients
        BY <1>12, JobLemma, Zenon DEF PickConn
    <2>2. conns_[wjob[w].clt] \in Conns
        BY <1>12, <2>1, Zenon DEF PickConn, WorkerOK
    <2>3. [wjob[w] EXCEPT !.conn = conns_[wjob[w].clt]] \in Requests
        BY <2>1, <2>2, Zenon DEF Requests
    <2>4. \/ wjob' = wjob
          \/ wjob' = [wjob EXCEPT ![w] = [wjob[w] EXCEPT !.conn = conns_[wjob[w].clt]]]
        BY <1>12, Zenon DEF PickConn
    <2> QED BY <1>0, <1>12, <2>3, <2>4, ZenonT(60) DEF PickConn, WorkerPCs
<1>13. ASSUME Restart PROVE ServerTypeOK'
    <2>1. nonce_' \in 1 .. MaxNonce
        <3>1. nonce_ \in 1 .. MaxNonce /\ nonce_ < MaxNonce /\ nonce_' = nonce_ + 1
            BY <1>13, Zenon DEF Restart
        <3> HIDE DEF TypeOK, ServerTypeOK
        <3> QED BY <1>0, <3>1
    <2>2. procs_' \subseteq Procs /\ wrep' \in [Workers -> [ret : Rets, val : Nat]]
        <3>1. NoReply \in [ret : Rets, val : Nat]
            BY Zenon DEF NoReply, Rets
        <3> QED BY <1>13, <3>1, Zenon DEF Restart, Procs
    <2>3. reply_window_' \in [Clients -> [Xids -> Entries]]
        <3>1. Absent \in Entries
            BY Zenon DEF Absent, Entries
        <3> QED BY <1>13, <3>1, Zenon DEF Restart, NoReplies
    <2>4. /\ wpc' \in [Workers -> WorkerPCs]
          /\ wjob' \in [Workers -> Requests \cup {NoJob}]
          /\ conns_' \in [Clients -> Conns \cup {Null}]
          /\ \A w \in Workers : wjob'[w] = NoJob /\ wpc'[w] = "idle"
        BY <1>13, Zenon DEF Restart, WorkerPCs
    <2>5. heap' \in Int /\ jobq' \in Seq(Requests)
        <3>1. heap' = 0 /\ jobq' = <<>>
            BY <1>13, Zenon DEF Restart
        <3> HIDE DEF TypeOK, ServerTypeOK
        <3> QED BY <3>1
    <2>6. execs' = execs /\ wild' = wild
        BY <1>13, Zenon DEF Restart
    <2> QED BY <2>1, <2>2, <2>3, <2>4, <2>5, <2>6, Zenon
<1> QED
    BY <1>1, <1>2, <1>3, <1>4, <1>6, <1>7, <1>8, <1>9, <1>10, <1>11, <1>12, <1>13, Zenon
    DEF Next, WorkerStep, Accept

-----------------------------------------------------------------------------
(* What a step does to the history of the calls.                           *)

\* A call that is acknowledged stays acknowledged, and the window stays well-formed.
LEMMA AckedStep ==
    ASSUME TypeOK, WindowOK, Next
    PROVE  /\ WindowOK'
           /\ \A c \in Clients, x \in Xids : Acked(c, x) => Acked(c, x)'
<1>1. CASE UNCHANGED xid_rep_window_
    BY <1>1, Zenon DEF WindowOK, Acked
<1>2. ASSUME NEW c \in Clients, NEW x \in Xids, FinishCall(c, x)
      PROVE  WindowOK' /\ \A d \in Clients, n \in Xids : Acked(d, n) => Acked(d, n)'
    BY <1>2, AckLemma, Zenon DEF FinishCall
<1>3. ASSUME NEW r \in reps, GotReply(r)
      PROVE  WindowOK' /\ \A d \in Clients, n \in Xids : Acked(d, n) => Acked(d, n)'
    <2>1. r.clt \in Clients /\ r.xid \in Xids
        BY Zenon DEF TypeOK, WireTypeOK, Replies
    <2> QED BY <1>3, <2>1, AckLemma, Zenon DEF GotReply
<1> QED
    BY <1>1, <1>2, <1>3, ZenonT(60)
    DEF Next, ClientStep, StartCall, GetRefconn, SendRequest, TimeOut, NextRound, clientVars

\* A call that was made stays made, and its header is never changed.
LEMMA HeaderStep ==
    ASSUME TypeOK, FreshOK, Next, NEW c \in Clients, NEW x \in Xids, pc[c][x] # "none"
    PROVE  pc'[c][x] # "none" /\ hdr'[c][x] = hdr[c][x]
<1> USE DEF TypeOK, ClientTypeOK
<1>1. CASE UNCHANGED <<pc, hdr>>
    BY <1>1, Zenon
<1>2. ASSUME NEW d \in Clients, NEW proc \in Procs, StartCall(d, proc)
      PROVE  pc'[c][x] # "none" /\ hdr'[c][x] = hdr[c][x]
    <2>1. xid_[d] \in Nat /\ (c = d => x # xid_[d])
        <3>1. xid_[d] \in 1 .. MaxXid + 1 /\ (c = d => ~(x >= xid_[d]))
            BY Zenon DEF FreshOK
        <3> HIDE DEF TypeOK, ClientTypeOK
        <3> QED BY <3>1, WireAssumption
    <2> QED BY <1>2, <2>1, Zenon DEF StartCall
<1>3. ASSUME NEW d \in Clients, NEW y \in Xids, ClientStep(d, y)
      PROVE  pc'[c][x] # "none" /\ hdr'[c][x] = hdr[c][x]
    <2>1. UNCHANGED hdr
        BY <1>3, Zenon DEF ClientStep, GetRefconn, SendRequest, TimeOut, NextRound, FinishCall
    <2>2. \E p \in {"send", "wait", "timedout", "connect", "leave", "returned"} :
            pc' = [pc EXCEPT ![d][y] = p]
        BY <1>3, Zenon DEF ClientStep, GetRefconn, SendRequest, TimeOut, NextRound, FinishCall, AfterSend
    <2> QED BY <2>1, <2>2
<1> QED
    BY <1>1, <1>2, <1>3, Zenon DEF Next, GotReply, clientVars

\* A request that was a copy of what call1 packed stays one.
LEMMA CopyStep ==
    ASSUME TypeOK, FreshOK, Next, NEW m \in Requests, IsCopy(m)
    PROVE  IsCopy(m)'
<1>1. m.clt \in Clients /\ m.hdr.xid \in Xids
    BY Zenon DEF Requests, Headers
<1> QED BY <1>1, HeaderStep, Zenon DEF IsCopy

\* No step touches a call that call1 has not begun.
LEMMA FreshStep ==
    ASSUME TypeOK, FreshOK, CopiesOK, Next
    PROVE  FreshOK'
<1> USE DEF TypeOK, ClientTypeOK
<1>0. xid_ \in [Clients -> Nat]
    <2>1. xid_ \in [Clients -> 1 .. MaxXid + 1]
        BY Zenon
    <2> HIDE DEF TypeOK, ClientTypeOK
    <2> QED BY <2>1, WireAssumption
<1>1. CASE UNCHANGED <<pc, xid_, execs>>
    BY <1>1, Zenon DEF FreshOK
<1>2. ASSUME NEW c \in Clients, NEW proc \in Procs, StartCall(c, proc), UNCHANGED serverVars
      PROVE  FreshOK'
    <2>1. xid_[c] \in Xids
        <3>1. xid_[c] \in 1 .. MaxXid + 1 /\ xid_[c] <= MaxXid
            BY <1>2, Zenon DEF StartCall
        <3> HIDE DEF TypeOK, ClientTypeOK
        <3> QED BY <3>1, WireAssumption DEF Xids
    <2>2. /\ xid_' = [xid_ EXCEPT ![c] = xid_[c] + 1]
          /\ pc' = [pc EXCEPT ![c][xid_[c]] = "connect"]
          /\ execs' = execs
        BY <1>2, Zenon DEF StartCall, serverVars
    <2>3. ASSUME NEW d \in Clients, NEW y \in Xids
          PROVE  /\ pc'[d][y] = "none" <=> y >= xid_'[d]
                 /\ pc'[d][y] = "none" => execs'[d][y] = 0
        <3>0. pc[d][y] = "none" <=> y >= xid_[d]
            BY Zenon DEF FreshOK
        <3>1. pc[d][y] = "none" => execs[d][y] = 0
            BY Zenon DEF FreshOK
        <3>2. CASE d = c /\ y = xid_[c]
            <4>1. pc'[d][y] = "connect" /\ xid_'[d] = xid_[c] + 1
                BY <2>1, <2>2, <3>2, Zenon
            <4> HIDE DEF TypeOK, ClientTypeOK
            <4> QED BY <1>0, <3>2, <4>1
        <3>3. CASE ~(d = c /\ y = xid_[c])
            <4>1. pc'[d][y] = pc[d][y]
                BY <2>1, <2>2, <3>3, Zenon
            <4>2. xid_'[d] = IF d = c THEN xid_[c] + 1 ELSE xid_[d]
                BY <2>2, Zenon
            <4> HIDE DEF TypeOK, ClientTypeOK
            <4>3. y \in Nat
                BY DEF Xids
            <4>4. y >= xid_'[d] <=> y >= xid_[d]
                BY <1>0, <3>3, <4>2, <4>3
            <4> QED BY <2>2, <3>0, <3>1, <4>1, <4>4, Zenon
        <3> QED BY <3>2, <3>3, Zenon
    <2> QED BY <2>3, Zenon DEF FreshOK
<1>3. ASSUME NEW c \in Clients, NEW x \in Xids, ClientStep(c, x), UNCHANGED serverVars
      PROVE  FreshOK'
    <2>1. UNCHANGED xid_
        BY <1>3, Zenon DEF ClientStep, GetRefconn, SendRequest, TimeOut, NextRound, FinishCall
    <2>2. /\ pc[c][x] # "none"
          /\ \E p \in {"send", "wait", "timedout", "connect", "leave", "returned"} :
                pc' = [pc EXCEPT ![c][x] = p]
        BY <1>3, Zenon DEF ClientStep, GetRefconn, SendRequest, TimeOut, NextRound, FinishCall, AfterSend
    <2> QED BY <1>3, <2>1, <2>2 DEF FreshOK, serverVars
<1>4. ASSUME NEW w \in Workers, RunHandler(w), UNCHANGED clientVars
      PROVE  FreshOK'
    <2>1. wjob[w].clt \in Clients /\ wjob[w].hdr.xid \in Xids
        BY <1>4, JobLemma, Zenon DEF RunHandler
    <2>2. pc[wjob[w].clt][wjob[w].hdr.xid] # "none"
        BY <1>4, Zenon DEF RunHandler, CopiesOK, IsCopy
    <2> QED BY <1>4, <2>1, <2>2, Zenon DEF RunHandler, FreshOK, clientVars, ServerTypeOK
<1> QED
    BY <1>1, <1>2, <1>3, <1>4, ZenonT(60)
    DEF Next, clientVars, serverVars, Accept, GotReply, GotRequest, WorkerStep, TakeJob,
        SendOldsrv, LookupProc, SaveConn, CheckDuplicate, AddReply, PickConn, SendReply,
        SendFreed, Register, Restart

\* No step breaks the agreement of a header with the call it was packed for.
LEMMA HeaderOKStep ==
    ASSUME TypeOK, WindowOK, FreshOK, HeaderOK, ValueOK, Next
    PROVE  HeaderOK'
<1> USE DEF TypeOK, ClientTypeOK
<1>1. ASSUME NEW c \in Clients, NEW x \in Xids, pc[c][x] # "none"
      PROVE  /\ hdr'[c][x] \in Headers
             /\ hdr'[c][x].xid = x
             /\ hdr'[c][x].proc = "op" => hdr'[c][x].srv_nonce > 0
             /\ \A n \in Xids : n <= hdr'[c][x].xid_rep => Acked(c, n)'
    <2>1. hdr'[c][x] = hdr[c][x]
        BY <1>1, HeaderStep, Zenon
    <2>2. \A n \in Xids : Acked(c, n) => Acked(c, n)'
        BY AckedStep, Zenon
    <2> QED BY <1>1, <2>1, <2>2 DEF HeaderOK
<1>2. CASE \A c \in Clients, x \in Xids : pc'[c][x] # "none" => pc[c][x] # "none"
    BY <1>1, <1>2 DEF HeaderOK
<1>3. ASSUME NEW c \in Clients, NEW proc \in Procs, StartCall(c, proc)
      PROVE  HeaderOK'
    <2> DEFINE x == xid_[c]
               h == [xid |-> x, proc |-> proc, srv_nonce |-> srv_nonce_[c],
                     xid_rep |-> xid_rep_window_[c].front]
    <2>1. x \in Xids
        BY <1>3, WireAssumption DEF StartCall, Xids
    <2>2. hdr'[c][x] = h
        BY <1>3, <2>1, Zenon DEF StartCall
    <2>3. h \in Headers
        BY <2>1, Zenon DEF Headers, Windows
    <2>4. proc = "op" => srv_nonce_[c] > 0
        BY <1>3, Zenon DEF StartCall, ValueOK
    <2>5. ASSUME NEW n \in Xids, n <= xid_rep_window_[c].front PROVE Acked(c, n)'
        <3>1. Acked(c, n)
            BY <2>5 DEF Acked, Covered, Xids, Windows
        <3> QED BY <3>1, AckedStep, Zenon
    <2>6. /\ hdr'[c][x] \in Headers
          /\ hdr'[c][x].xid = x
          /\ hdr'[c][x].proc = "op" => hdr'[c][x].srv_nonce > 0
          /\ \A n \in Xids : n <= hdr'[c][x].xid_rep => Acked(c, n)'
        BY <2>2, <2>3, <2>4, <2>5
    <2>7. \A d \in Clients, y \in Xids :
            pc'[d][y] # "none" => pc[d][y] # "none" \/ (d = c /\ y = x)
        BY <1>3, Zenon DEF StartCall
    <2> HIDE DEF h, x
    <2> QED BY <1>1, <2>6, <2>7 DEF HeaderOK
<1>4. ASSUME NEW c \in Clients, NEW x \in Xids, ClientStep(c, x)
      PROVE  \A d \in Clients, y \in Xids : pc'[d][y] # "none" => pc[d][y] # "none"
    <2>1. pc[c][x] # "none" /\ \E p : pc' = [pc EXCEPT ![c][x] = p]
        BY <1>4, Zenon DEF ClientStep, GetRefconn, SendRequest, TimeOut, NextRound, FinishCall
    <2> QED BY <2>1
<1> QED
    BY <1>2, <1>3, <1>4, Zenon DEF Next, clientVars, GotReply

\* Only call1 puts requests on the wire.
LEMMA RequestsStep ==
    ASSUME Next
    PROVE  \/ reqs' \subseteq reqs
           \/ \E c \in Clients, x \in Xids :
                 /\ pc[c][x] # "none"
                 /\ \E k : reqs' = reqs \cup {[clt |-> c, conn |-> k, hdr |-> hdr[c][x]]}
<1>1. ASSUME NEW c \in Clients, NEW x \in Xids, SendRequest(c, x)
      PROVE  \/ reqs' \subseteq reqs
             \/ /\ pc[c][x] # "none"
                /\ \E k : reqs' = reqs \cup {[clt |-> c, conn |-> k, hdr |-> hdr[c][x]]}
    BY <1>1, Zenon DEF SendRequest
<1>2. ASSUME NEW w \in Workers, SendOldsrv(w) \/ SendReply(w) \/ SendFreed(w)
      PROVE  reqs' \subseteq reqs
    BY <1>2, Zenon DEF SendOldsrv, SendReply, SendFreed, SendOn, WithoutConn
<1>3. ASSUME NEW c, NEW k, ServerEof(c, k)
      PROVE  reqs' \subseteq reqs
    BY <1>3, Zenon DEF ServerEof, WithoutConn
<1>4. ASSUME NEW c, NEW x, GetRefconn(c, x) \/ TimeOut(c, x) \/ NextRound(c, x) \/ FinishCall(c, x)
      PROVE  reqs' = reqs
    BY <1>4, Zenon DEF GetRefconn, TimeOut, NextRound, FinishCall, wireVars
<1>5. ASSUME NEW w, \/ TakeJob(w) \/ LookupProc(w) \/ SaveConn(w) \/ CheckDuplicate(w)
                    \/ RunHandler(w) \/ AddReply(w) \/ PickConn(w)
      PROVE  reqs' = reqs
    BY <1>5, Zenon DEF TakeJob, LookupProc, SaveConn, CheckDuplicate, RunHandler, AddReply, PickConn, wireVars
<1>6. ASSUME NEW c, NEW k, Break(c, k) \/ ClientEof(c, k) \/ Accept(c, k) \/ StartCall(c, k)
      PROVE  reqs' = reqs
    BY <1>6, Zenon DEF Break, ClientEof, Accept, StartCall, wireVars
<1>7. ASSUME NEW m, GotReply(m) \/ GotRequest(m) \/ Register \/ Restart
      PROVE  reqs' \subseteq reqs
    BY <1>7, Zenon DEF GotReply, GotRequest, Register, Restart, wireVars
<1> QED
    BY <1>1, <1>2, <1>3, <1>4, <1>5, <1>6, <1>7, Zenon DEF Next, ClientStep, WorkerStep

\* Only got_pdu queues requests.
LEMMA QueueStep ==
    ASSUME Next
    PROVE  \/ jobq' = jobq
           \/ \E m \in reqs : jobq' = Append(jobq, m)
           \/ jobq # <<>> /\ jobq' = Tail(jobq)
           \/ jobq' = <<>>
BY ZenonT(60) DEF Next, serverVars, WorkerStep, Accept, GotRequest, TakeJob, SendOldsrv, LookupProc,
       SaveConn, CheckDuplicate, RunHandler, AddReply, PickConn, SendReply, SendFreed,
       Register, Restart

\* A worker keeps its request until it is idle; only the connection may change.
LEMMA WorkerJobStep ==
    ASSUME TypeOK, Next, NEW w \in Workers, wpc'[w] # "idle"
    PROVE  \/ /\ wpc[w] # "idle"
              /\ wjob'[w].clt = wjob[w].clt
              /\ wjob'[w].hdr = wjob[w].hdr
           \/ /\ wpc[w] = "idle"
              /\ jobq # <<>>
              /\ wjob'[w] = Head(jobq)
              /\ wpc'[w] = IF ForOldServer(Head(jobq).hdr) THEN "oldsrv" ELSE "lookup"
<1> USE DEF TypeOK, ServerTypeOK
<1>1. CASE UNCHANGED <<wpc, wjob>>
    BY <1>1, Zenon
<1> DEFINE Kept == /\ wpc[w] # "idle"
                   /\ wjob'[w].clt = wjob[w].clt
                   /\ wjob'[w].hdr = wjob[w].hdr
           Taken == /\ wpc[w] = "idle"
                    /\ jobq # <<>>
                    /\ wjob'[w] = Head(jobq)
                    /\ wpc'[w] = IF ForOldServer(Head(jobq).hdr) THEN "oldsrv" ELSE "lookup"
<1>2. ASSUME NEW v \in Workers, TakeJob(v) PROVE Kept \/ Taken
    <2>1. CASE v = w
        BY <1>2, <2>1, Zenon DEF TakeJob
    <2>2. CASE v # w
        BY <1>2, <2>2, Zenon DEF TakeJob
    <2> QED BY <2>1, <2>2, Zenon
<1>3. ASSUME NEW v \in Workers, GoIdle(v) PROVE Kept
    BY <1>3, Zenon DEF GoIdle
<1>4. ASSUME NEW v \in Workers, wpc[v] # "idle", UNCHANGED wjob,
             \A u \in Workers \ {v} : wpc[u] = "idle" => wpc'[u] = "idle"
      PROVE  Kept
    BY <1>4, Zenon
<1>5. ASSUME NEW v \in Workers, PickConn(v) PROVE Kept
    <2>1. wpc[w] # "idle"
        BY <1>5, Zenon DEF PickConn
    <2>2. wjob[w] \in Requests /\ wjob[w] # NoJob
        BY <2>1, JobLemma, Zenon
    <2>3. \/ wjob' = wjob
          \/ \E k : wjob' = [wjob EXCEPT ![v].conn = k]
        BY <1>5, Zenon DEF PickConn
    <2>4. wjob'[w] = wjob[w] \/ \E k : wjob'[w] = [wjob[w] EXCEPT !.conn = k]
        <3>1. CASE v = w
            BY <2>3, <3>1, Zenon
        <3>2. CASE v # w
            BY <2>3, <3>2, Zenon
        <3> QED BY <3>1, <3>2, Zenon
    <2>5. wjob'[w].clt = wjob[w].clt /\ wjob'[w].hdr = wjob[w].hdr
        BY <2>2, <2>4, Zenon DEF Requests
    <2> QED BY <2>1, <2>5, Zenon
<1>6. ASSUME NEW v \in Workers, CheckDuplicate(v) PROVE Kept
    <2>1. wpc[w] # "idle"
        BY <1>6, Zenon DEF CheckDuplicate
    <2>2. w = v => Status(reply_window_[wjob[v].clt], wjob[v].hdr) # "INPROGRESS"
        BY <1>6, Zenon DEF CheckDuplicate, AfterCheck
    <2>3. wjob'[w] = wjob[w]
        BY <1>6, <2>2, Zenon DEF CheckDuplicate
    <2> QED BY <2>1, <2>3, Zenon
<1>7. ASSUME NEW v \in Workers, WorkerStep(v) PROVE Kept \/ Taken
    <2>1. CASE SendOldsrv(v) \/ SendReply(v) \/ SendFreed(v)
        BY <1>3, <2>1, Zenon DEF SendOldsrv, SendReply, SendFreed
    <2>2. CASE LookupProc(v)
        BY <1>3, <1>4, <2>2, Zenon DEF LookupProc
    <2>3. CASE SaveConn(v) \/ RunHandler(v) \/ AddReply(v)
        BY <1>4, <2>3, Zenon DEF SaveConn, RunHandler, AddReply
    <2> QED BY <1>2, <1>5, <1>6, <1>7, <2>1, <2>2, <2>3, Zenon DEF WorkerStep
<1>8. ~Restart
    BY Zenon DEF Restart
<1> QED BY <1>1, <1>7, <1>8, Zenon DEF Next, serverVars, Accept, GotRequest, Register

\* No step makes a copy of a request that call1 did not pack.
LEMMA CopiesStep ==
    ASSUME TypeOK, FreshOK, HeaderOK, CopiesOK, Next
    PROVE  CopiesOK'
<1> USE DEF TypeOK, WireTypeOK, ServerTypeOK
<1> DEFINE Copy(m) == pc'[m.clt][m.hdr.xid] # "none" /\ m.hdr = hdr'[m.clt][m.hdr.xid]
<1>1. \A m \in Requests : IsCopy(m) => Copy(m)
    BY CopyStep, Zenon DEF IsCopy
<1>2. \A m \in reqs : Copy(m)
    BY <1>1, Zenon DEF CopiesOK
<1>3. \A i \in 1 .. Len(jobq) : Copy(jobq[i])
    <2> HIDE DEF Copy
    <2>1. jobq \in Seq(Requests) /\ \A i \in 1 .. Len(jobq) : IsCopy(jobq[i])
        BY Zenon DEF CopiesOK
    <2> HIDE DEF TypeOK, WireTypeOK, ServerTypeOK
    <2>2. \A i \in 1 .. Len(jobq) : jobq[i] \in Requests
        BY <2>1
    <2> QED BY <1>1, <2>1, <2>2, Zenon
<1>4. ASSUME NEW m \in reqs' PROVE Copy(m)
    <2>1. CASE m \in reqs
        BY <1>2, <2>1, Zenon
    <2>2. ASSUME NEW c \in Clients, NEW x \in Xids, pc[c][x] # "none", NEW k,
                 m = [clt |-> c, conn |-> k, hdr |-> hdr[c][x]]
          PROVE  Copy(m)
        <3>1. hdr[c][x].xid = x
            BY <2>2, Zenon DEF HeaderOK
        <3>2. pc'[c][x] # "none" /\ hdr'[c][x] = hdr[c][x]
            BY <2>2, HeaderStep, Zenon
        <3> QED BY <2>2, <3>1, <3>2, Zenon
    <2> HIDE DEF Copy
    <2>3. ASSUME NEW c \in Clients, NEW x \in Xids, pc[c][x] # "none", NEW k,
                 reqs' = reqs \cup {[clt |-> c, conn |-> k, hdr |-> hdr[c][x]]}
          PROVE  Copy(m)
        <3>1. m \in reqs \/ m = [clt |-> c, conn |-> k, hdr |-> hdr[c][x]]
            BY <1>4, <2>3, Zenon
        <3> QED BY <2>1, <2>2, <2>3, <3>1, Zenon
    <2>4. CASE reqs' \subseteq reqs
        BY <1>4, <2>1, <2>4, Zenon
    <2> QED BY <2>3, <2>4, RequestsStep, Zenon
<1> HIDE DEF Copy
<1>5. \A i \in 1 .. Len(jobq') : Copy(jobq'[i])
    <2>1. CASE jobq' = jobq \/ jobq' = <<>>
        BY <1>3, <2>1
    <2>2. ASSUME NEW m \in reqs, jobq' = Append(jobq, m)
          PROVE  \A i \in 1 .. Len(jobq') : Copy(jobq'[i])
        <3>1. m \in Requests
            BY Zenon
        <3>2. /\ Len(jobq') = Len(jobq) + 1
              /\ jobq'[Len(jobq) + 1] = m
              /\ \A i \in 1 .. Len(jobq) : jobq'[i] = jobq[i]
            BY <2>2, <3>1
        <3>3. Len(jobq) \in Nat
            OBVIOUS
        <3>4. ASSUME NEW i \in 1 .. Len(jobq') PROVE Copy(jobq'[i])
            <4>1. i \in 1 .. Len(jobq) \/ i = Len(jobq) + 1
                BY <3>2, <3>3
            <4> QED BY <1>2, <1>3, <3>2, <4>1, Zenon
        <3> QED BY <3>4, Zenon
    <2>3. CASE jobq # <<>> /\ jobq' = Tail(jobq)
        <3>1. /\ Len(jobq) \in Nat /\ Len(jobq') = Len(jobq) - 1
              /\ \A i \in 1 .. Len(jobq') : jobq'[i] = jobq[i + 1]
            BY <2>3
        <3>2. ASSUME NEW i \in 1 .. Len(jobq') PROVE Copy(jobq'[i])
            <4>1. i + 1 \in 1 .. Len(jobq)
                BY <3>1
            <4> QED BY <1>3, <3>1, <4>1, Zenon
        <3> QED BY <3>2, Zenon
    <2> QED BY <2>1, <2>2, <2>3, QueueStep, Zenon
<1>6. ASSUME NEW w \in Workers, wpc'[w] # "idle" PROVE Copy(wjob'[w])
    <2>1. CASE wpc[w] = "idle"
        <3>1. jobq # <<>> /\ wjob'[w] = Head(jobq)
            BY <1>6, <2>1, WorkerJobStep, Zenon
        <3> QED BY <1>3, <3>1
    <2>2. CASE wpc[w] # "idle"
        <3>1. Copy(wjob[w])
            BY <1>1, <2>2, JobLemma, Zenon DEF CopiesOK
        <3> QED BY <1>6, <2>2, <3>1, WorkerJobStep, Zenon DEF Copy
    <2> QED BY <2>1, <2>2, Zenon
<1> QED BY <1>4, <1>5, <1>6, Zenon DEF CopiesOK, IsCopy, Copy

-----------------------------------------------------------------------------
(* That every step keeps the invariant, and the theorems.                  *)

\* Where a worker comes from when it is past the checks of dispatch, and where
\* the reply in its hand comes from.
LEMMA WorkerPcStep ==
    ASSUME TypeOK, Next, NEW w \in Workers
    PROVE  /\ wpc'[w] = "check" => wpc[w] = "check" \/ SaveConn(w)
           /\ wpc'[w] = "run" =>
                 wpc[w] = "run" \/ (CheckDuplicate(w) /\ Status(reply_window_[wjob[w].clt], wjob[w].hdr) = "NEW")
           /\ wpc'[w] = "add" => (wpc[w] = "add" /\ wrep'[w] = wrep[w]) \/ RunHandler(w)
           /\ wpc'[w] = "pick" => (wpc[w] = "pick" /\ wrep'[w] = wrep[w]) \/ AddReply(w)
           /\ wpc'[w] \in {"send", "senddone", "sendfreed"} =>
                 \/ /\ wpc[w] \in {"pick", "send", "senddone", "sendfreed"}
                    /\ wrep'[w] = wrep[w]
                 \/ CheckDuplicate(w)
           /\ wpc[w] = "oldsrv" => wpc'[w] \in {"oldsrv", "idle"}
<1> USE DEF TypeOK, ServerTypeOK
<1> DEFINE Same == wpc'[w] = wpc[w] /\ wrep'[w] = wrep[w]
<1>1. ASSUME NEW v \in Workers, WorkerStep(v), ~CheckDuplicate(v), v # w PROVE Same
    <2>1. CASE GoIdle(v)
        BY <1>1, <2>1, Zenon DEF GoIdle
    <2>2. CASE wrep' = wrep /\ \E p : wpc' = [wpc EXCEPT ![v] = p]
        BY <1>1, <2>2, Zenon
    <2>3. CASE RunHandler(v)
        BY <1>1, <2>3, Zenon DEF RunHandler
    <2>4. CASE TakeJob(v) \/ SaveConn(v) \/ AddReply(v) \/ PickConn(v)
        BY <2>2, <2>4, Zenon DEF TakeJob, SaveConn, AddReply, PickConn
    <2>5. CASE SendOldsrv(v) \/ SendReply(v) \/ SendFreed(v)
        BY <2>1, <2>5, Zenon DEF SendOldsrv, SendReply, SendFreed
    <2>6. CASE LookupProc(v)
        BY <2>1, <2>2, <2>6, Zenon DEF LookupProc
    <2> QED BY <1>1, <2>3, <2>4, <2>5, <2>6, Zenon DEF WorkerStep
<1>2. ASSUME NEW v \in Workers, CheckDuplicate(v), v # w
      PROVE  Same \/ (wpc[w] = "senddone" /\ wpc'[w] = "sendfreed" /\ wrep'[w] = wrep[w])
    BY <1>2, Zenon DEF CheckDuplicate
<1>3. CASE TakeJob(w)
    BY <1>3, Zenon DEF TakeJob
<1>4. CASE SendOldsrv(w) \/ SendReply(w) \/ SendFreed(w)
    BY <1>4 DEF SendOldsrv, SendReply, SendFreed, GoIdle
<1>5. CASE LookupProc(w)
    BY <1>5 DEF LookupProc, GoIdle
<1>6. CASE SaveConn(w)
    BY <1>6, Zenon DEF SaveConn
<1>7. CASE CheckDuplicate(w)
    <2>1. wpc[w] = "check" /\ wpc'[w] = AfterCheck(Status(reply_window_[wjob[w].clt], wjob[w].hdr))
        BY <1>7, Zenon DEF CheckDuplicate
    <2> QED BY <1>7, <2>1, Zenon DEF AfterCheck
<1>8. CASE RunHandler(w)
    BY <1>8, Zenon DEF RunHandler
<1>9. CASE AddReply(w)
    BY <1>9, Zenon DEF AddReply
<1>10. CASE PickConn(w)
    BY <1>10, Zenon DEF PickConn
<1>11. CASE Restart
    BY <1>11, Zenon DEF Restart
<1>12. CASE Same
    BY <1>12, Zenon
<1>13. CASE \E v \in Workers : WorkerStep(v)
    BY <1>1, <1>2, <1>3, <1>4, <1>5, <1>6, <1>7, <1>8, <1>9, <1>10, <1>12, <1>13, Zenon DEF WorkerStep
<1>14. CASE UNCHANGED serverVars \/ Register \/ \E m \in reqs : GotRequest(m)
    BY <1>12, <1>14, Zenon DEF serverVars, Register, GotRequest
<1> QED BY <1>11, <1>13, <1>14, Zenon DEF Next, Accept

\* The incarnation of the server and the connections it knows change together.
LEMMA NonceStep ==
    ASSUME TypeOK, Next
    PROVE  Restart \/ (/\ nonce_' = nonce_
                       /\ \A c \in Clients : conns_[c] # Null => conns_'[c] # Null)
<1>1. ASSUME NEW w \in Workers, SaveConn(w)
      PROVE  nonce_' = nonce_ /\ \A c \in Clients : conns_[c] # Null => conns_'[c] # Null
    <2>1. wjob[w].conn # Null
        <3>1. wpc[w] # "idle"
            BY <1>1 DEF SaveConn
        <3>2. wjob[w].conn \in Conns
            BY <3>1, JobLemma
        <3> QED BY <3>2 DEF Conns, Null
    <2> QED BY <1>1, <2>1, Zenon DEF SaveConn, TypeOK, ServerTypeOK
<1>2. ASSUME NEW w \in Workers, WorkerStep(w), ~SaveConn(w)
      PROVE  nonce_' = nonce_ /\ conns_' = conns_
    BY <1>2, Zenon DEF WorkerStep, TakeJob, SendOldsrv, LookupProc, CheckDuplicate, RunHandler,
                AddReply, PickConn, SendReply, SendFreed
<1> QED
    BY <1>1, <1>2, Zenon DEF Next, serverVars, Accept, GotRequest, Register

\* No step undoes what a dispatch thread has established by its checks.
LEMMA WorkerOKStep ==
    ASSUME TypeOK, WorkerOK, Next
    PROVE  WorkerOK'
<1> SUFFICES ASSUME NEW w \in Workers
             PROVE  /\ wpc'[w] \notin {"idle", "oldsrv"} => wjob'[w].hdr.srv_nonce \in {0, nonce_'}
                    /\ wpc'[w] \in {"check", "run", "add", "pick"} => conns_'[wjob'[w].clt] # Null
    BY Zenon DEF WorkerOK
<1>1. CASE Restart
    BY <1>1, Zenon DEF Restart
<1>2. CASE ~Restart
    <2>1. nonce_' = nonce_ /\ \A c \in Clients : conns_[c] # Null => conns_'[c] # Null
        BY <1>2, NonceStep, Zenon
    <2>2. ASSUME wpc'[w] \notin {"idle", "oldsrv"}
          PROVE  wjob'[w].hdr.srv_nonce \in {0, nonce_'}
        <3>1. CASE wpc[w] = "idle"
            BY <2>1, <2>2, <3>1, WorkerJobStep, Zenon DEF ForOldServer
        <3>2. CASE wpc[w] # "idle"
            <4>1. wpc[w] # "oldsrv"
                BY <2>2, WorkerPcStep, Zenon
            <4> QED BY <2>1, <2>2, <3>2, <4>1, WorkerJobStep, Zenon DEF WorkerOK
        <3> QED BY <3>1, <3>2, Zenon
    <2>3. ASSUME wpc'[w] \in {"check", "run", "add", "pick"}
          PROVE  conns_'[wjob'[w].clt] # Null
        <3>1. CASE SaveConn(w)
            <4>1. wjob[w].conn # Null /\ wjob[w].clt \in Clients /\ wjob' = wjob
                BY <3>1, JobLemma DEF SaveConn, Conns, Null
            <4>2. conns_'[wjob[w].clt] = wjob[w].conn
                BY <3>1, <4>1, Zenon DEF SaveConn, TypeOK, ServerTypeOK
            <4> QED BY <4>1, <4>2, Zenon
        <3>2. CASE wpc[w] \in {"check", "run", "add", "pick"}
            <4>1. wjob'[w].clt = wjob[w].clt /\ wjob[w].clt \in Clients
                BY <2>3, <3>2, WorkerJobStep, JobLemma, Zenon
            <4> QED BY <2>1, <3>2, <4>1, Zenon DEF WorkerOK
        <3>3. SaveConn(w) \/ wpc[w] \in {"check", "run", "add", "pick"}
            BY <2>3, WorkerPcStep, Zenon DEF CheckDuplicate, RunHandler, AddReply
        <3> QED BY <3>1, <3>2, <3>3, Zenon
    <2> QED BY <2>2, <2>3, Zenon
<1> QED BY <1>1, <1>2, Zenon

\* No step takes a call past its final deadline.
LEMMA RoundStep ==
    ASSUME TypeOK, RoundOK, Next
    PROVE  RoundOK'
<1> USE DEF TypeOK, ClientTypeOK
<1>0. MaxRounds \in Nat \ {0}
    BY ClientAssumption, Zenon
<1>1. CASE UNCHANGED <<pc, round>>
    BY <1>1, Zenon DEF RoundOK
<1>2. ASSUME NEW c \in Clients, NEW proc \in Procs, StartCall(c, proc) PROVE RoundOK'
    BY <1>2, Zenon DEF StartCall, RoundOK
<1>3. ASSUME NEW c \in Clients, NEW x \in Xids, ClientStep(c, x) PROVE RoundOK'
    <2>1. CASE SendRequest(c, x) \/ NextRound(c, x)
        <3>1. round' = round /\ round[c][x] \in 0 .. MaxRounds
            BY <2>1 DEF SendRequest, NextRound
        <3>2. pc'[c][x] = "wait" => round[c][x] # MaxRounds
            BY <2>1 DEF SendRequest, NextRound, AfterSend
        <3>4. \A d \in Clients, y \in Xids : ~(d = c /\ y = x) => pc'[d][y] = pc[d][y]
            BY <2>1 DEF SendRequest, NextRound
        <3>3. ASSUME NEW d \in Clients, NEW y \in Xids, pc'[d][y] = "wait"
              PROVE  round'[d][y] < MaxRounds
            <4>1. CASE d = c /\ y = x
                <5>1. round'[d][y] = round[c][x] /\ pc'[c][x] = "wait"
                    BY <3>1, <3>3, <4>1, Zenon
                <5>2. \A n \in 0 .. MaxRounds : n # MaxRounds => n < MaxRounds
                    BY <1>0
                <5> QED BY <3>1, <3>2, <5>1, <5>2, Zenon
            <4>2. CASE ~(d = c /\ y = x)
                BY <3>1, <3>3, <3>4, <4>2, Zenon DEF RoundOK
            <4> QED BY <4>1, <4>2, Zenon
        <3> QED BY <3>3, Zenon DEF RoundOK
    <2>2. CASE GetRefconn(c, x) \/ FinishCall(c, x)
        <3>0. round' = round /\ \E p \in {"send", "returned"} : pc' = [pc EXCEPT ![c][x] = p]
            BY <2>2, Zenon DEF GetRefconn, FinishCall
        <3>1. round' = round /\ pc'[c][x] # "wait"
            BY <3>0
        <3>2. \A d \in Clients, y \in Xids : ~(d = c /\ y = x) => pc'[d][y] = pc[d][y]
            BY <3>0
        <3> QED BY <3>1, <3>2, Zenon DEF RoundOK
    <2>3. CASE TimeOut(c, x)
        BY <2>3, Zenon DEF TimeOut, RoundOK
    <2> QED BY <1>3, <2>1, <2>2, <2>3, Zenon DEF ClientStep
<1> QED BY <1>1, <1>2, <1>3, Zenon DEF Next, clientVars, GotReply

-----------------------------------------------------------------------------
(* Values.                                                                 *)

\* Every reply on the wire was in a worker's hand, or in reused memory.
LEMMA RepliesStep ==
    ASSUME TypeOK, Next, NEW r \in reps', r.ret = "ok"
    PROVE  \/ r \in reps
           \/ \E w \in Workers : /\ wpc[w] \in {"send", "senddone", "sendfreed"}
                                 /\ wrep[w].ret = "ok"
                                 /\ r.val = wrep[w].val
           \/ \E c \in Clients, x \in Xids : /\ reply_window_[c][x].st = "present"
                                            /\ r.val = reply_window_[c][x].val
<1> DEFINE Sent(w, rep) ==
        r \in reps \/ (r.ret = rep.ret /\ r.val = rep.val)
<1>1. ASSUME NEW w, NEW o, NEW rep, SendOn(w, o, rep) PROVE Sent(w, rep)
    BY <1>1 DEF SendOn
<1> HIDE DEF Sent
<1>2. ASSUME NEW w \in Workers, SendOldsrv(w) PROVE r \in reps
    BY <1>1, <1>2 DEF SendOldsrv, Sent
<1>3. ASSUME NEW w \in Workers, Sent(w, ReplyOf(w)), wpc[w] \in {"send", "senddone", "sendfreed"}
      PROVE  r \in reps \/ (wrep[w].ret = "ok" /\ r.val = wrep[w].val)
    BY <1>3, Zenon DEF Sent, ReplyOf
<1>4. ASSUME NEW w \in Workers, NEW rep \in Reused, Sent(w, rep)
      PROVE  r \in reps \/ \E c \in Clients, x \in Xids : /\ reply_window_[c][x].st = "present"
                                                        /\ r.val = reply_window_[c][x].val
    BY <1>4 DEF Sent, Reused
<1>5. ASSUME NEW w \in Workers, SendReply(w) PROVE r \in reps \/ (wrep[w].ret = "ok" /\ r.val = wrep[w].val)
    BY <1>1, <1>3, <1>5, Zenon DEF SendReply
<1>6. ASSUME NEW w \in Workers, SendFreed(w)
      PROVE  r \in reps \/ Sent(w, ReplyOf(w)) \/ \E rep \in Reused : Sent(w, rep)
    BY <1>1, <1>6, Zenon DEF SendFreed
<1>7. ASSUME NEW w, \/ TakeJob(w) \/ LookupProc(w) \/ SaveConn(w) \/ CheckDuplicate(w)
                    \/ RunHandler(w) \/ AddReply(w) \/ PickConn(w)
      PROVE  reps' = reps
    BY <1>7, Zenon DEF TakeJob, LookupProc, SaveConn, CheckDuplicate, RunHandler, AddReply, PickConn, wireVars
<1>8. ASSUME NEW w \in Workers, WorkerStep(w)
      PROVE  \/ r \in reps
             \/ /\ wpc[w] \in {"send", "senddone", "sendfreed"}
                /\ wrep[w].ret = "ok"
                /\ r.val = wrep[w].val
             \/ \E c \in Clients, x \in Xids : /\ reply_window_[c][x].st = "present"
                                              /\ r.val = reply_window_[c][x].val
    <2>1. CASE SendFreed(w)
        BY <1>3, <1>4, <1>6, <2>1, Zenon DEF SendFreed
    <2>2. CASE SendReply(w)
        BY <1>5, <2>2, Zenon DEF SendReply
    <2> QED BY <1>2, <1>7, <1>8, <2>1, <2>2, Zenon DEF WorkerStep
<1>9. ASSUME NEW c \in Clients, NEW x \in Xids, ClientStep(c, x) PROVE r \in reps
    <2>1. CASE SendRequest(c, x)
        BY <2>1, Zenon DEF SendRequest, WithoutConn
    <2> QED BY <1>9, <2>1, Zenon DEF ClientStep, GetRefconn, TimeOut, NextRound, FinishCall, wireVars
<1>10. ASSUME NEW c, NEW k, Break(c, k) \/ ClientEof(c, k) \/ ServerEof(c, k) \/ Accept(c, k) \/ StartCall(c, k)
       PROVE  r \in reps
    BY <1>10, Zenon DEF Break, ClientEof, ServerEof, Accept, StartCall, wireVars, WithoutConn
<1>11. ASSUME NEW m, GotReply(m) \/ GotRequest(m) \/ Register \/ Restart
       PROVE  r \in reps
    BY <1>11, Zenon DEF GotReply, GotRequest, Register, Restart, wireVars
<1> QED BY <1>8, <1>9, <1>10, <1>11, Zenon DEF Next

\* add_reply changes at most the entry it is called for, to the reply given.
LEMMA AnsweredEntry ==
    \A win \in [Xids -> Entries] : \A z \in Xids : \A v \in Nat : \A y \in Xids :
        \/ Answered(win, z, v)[y] = win[y]
        \/ Answered(win, z, v)[y] = [st |-> "present", val |-> v]
BY DEF Answered

\* The window of a server that has just started has no entry for any call.
LEMMA NoRepliesEntry == \A c \in Clients : \A x \in Xids : NoReplies[c][x] = Absent
BY Zenon DEF NoReplies

\* No step puts the value 0 in a successful reply, or in what a bound client knows.
LEMMA ValueStep ==
    ASSUME TypeOK, ValueOK, Next
    PROVE  ValueOK'
<1> USE DEF TypeOK
<1>0. nonce_ > 0
    BY WireAssumption DEF ServerTypeOK
<1>1. ASSUME NEW r \in reps', r.ret = "ok" PROVE r.val > 0
    BY <1>1, RepliesStep, Zenon DEF ValueOK
<1>2. ASSUME NEW c \in Clients, NEW x \in Xids, reply_window_'[c][x].st = "present"
      PROVE  reply_window_'[c][x].val > 0
    <2>1. CASE reply_window_'[c][x] = reply_window_[c][x]
        BY <1>2, <2>1, Zenon DEF ValueOK
    <2>2. ASSUME NEW w \in Workers, CheckDuplicate(w)
          PROVE  reply_window_'[c][x] = reply_window_[c][x]
        <3> DEFINE d == wjob[w].clt
        <3>1. d \in Clients /\ wjob[w].hdr \in Headers
            BY <2>2, JobLemma, Zenon DEF CheckDuplicate
        <3>2. reply_window_[d] \in [Xids -> Entries]
            BY <3>1, Zenon DEF ServerTypeOK
        <3>3. reply_window_'[c] = IF c = d THEN Checked(reply_window_[d], wjob[w].hdr)
                                  ELSE reply_window_[c]
            BY <2>2, Zenon DEF CheckDuplicate, ServerTypeOK
        <3>4. \A y \in Xids : Checked(reply_window_[d], wjob[w].hdr)[y].st = "present" =>
                  Checked(reply_window_[d], wjob[w].hdr)[y] = reply_window_[d][y]
            BY <3>1, <3>2, CheckedLemma, Zenon
        <3> QED BY <1>2, <3>3, <3>4, Zenon
    <2>3. ASSUME NEW w \in Workers, AddReply(w)
          PROVE  reply_window_'[c][x] = reply_window_[c][x] \/ reply_window_'[c][x].val > 0
        <3>1. wrep[w].val > 0
            BY <2>3, Zenon DEF AddReply, ValueOK
        <3>2. wjob[w].clt \in Clients /\ wjob[w].hdr.xid \in Xids
            BY <2>3, JobLemma, Zenon DEF AddReply
        <3>3. reply_window_[wjob[w].clt] \in [Xids -> Entries] /\ wrep[w].val \in Nat
            BY <3>2, Zenon DEF ServerTypeOK
        <3>4. reply_window_'[c] = IF c = wjob[w].clt
                                  THEN Answered(reply_window_[c], wjob[w].hdr.xid, wrep[w].val)
                                  ELSE reply_window_[c]
            BY <2>3, Zenon DEF AddReply, ServerTypeOK
        <3> DEFINE e == [st |-> "present", val |-> wrep[w].val]
        <3>5. c = wjob[w].clt =>
                \/ Answered(reply_window_[c], wjob[w].hdr.xid, wrep[w].val)[x] = reply_window_[c][x]
                \/ Answered(reply_window_[c], wjob[w].hdr.xid, wrep[w].val)[x] = e
            <4> SUFFICES ASSUME c = wjob[w].clt
                         PROVE  \/ Answered(reply_window_[c], wjob[w].hdr.xid, wrep[w].val)[x] = reply_window_[c][x]
                                \/ Answered(reply_window_[c], wjob[w].hdr.xid, wrep[w].val)[x] = e
                BY Zenon
            <4> HIDE DEF TypeOK
            <4>2. reply_window_[c] \in [Xids -> Entries] /\ x \in Xids
                BY <1>2, <3>3, Zenon
            <4> QED BY <3>2, <3>3, <4>2, AnsweredEntry, ZenonT(60)
        <3>6. e.val > 0
            BY <3>1, Zenon
        <3> HIDE DEF e
        <3> QED BY <3>4, <3>5, <3>6, Zenon
    <2>4. ~Restart
        <3>1. Restart => reply_window_'[c][x] = Absent
            BY <1>2, NoRepliesEntry, Zenon DEF Restart
        <3>2. Absent.st # "present"
            BY Zenon DEF Absent
        <3> QED BY <1>2, <3>1, <3>2, Zenon
    <2>5. ASSUME NEW w \in Workers, WorkerStep(w), ~CheckDuplicate(w), ~AddReply(w)
          PROVE  reply_window_' = reply_window_
        BY <2>5, Zenon DEF WorkerStep, TakeJob, SendOldsrv, LookupProc, SaveConn, RunHandler,
                    PickConn, SendReply, SendFreed
    <2>6. CASE \E w \in Workers : WorkerStep(w)
        BY <2>1, <2>2, <2>3, <2>5, <2>6, Zenon
    <2>7. CASE reply_window_' = reply_window_
        BY <2>1, <2>7, Zenon
    <2> QED BY <2>4, <2>6, <2>7, Zenon DEF Next, serverVars, Accept, GotRequest, Register
<1>3. ASSUME NEW c \in Clients, NEW x \in Xids, result'[c][x].done, result'[c][x].ret = "ok"
      PROVE  result'[c][x].val > 0
    <2>1. CASE result'[c][x] = result[c][x]
        BY <1>3, <2>1, Zenon DEF ValueOK
    <2>2. ASSUME NEW r \in reps, GotReply(r)
          PROVE  \/ result'[c][x] = result[c][x]
                 \/ result'[c][x].ret = r.ret /\ result'[c][x].val = r.val
        <3>1. r.clt \in Clients /\ r.xid \in Xids
            BY Zenon DEF WireTypeOK, Replies
        <3> QED BY <2>2, <3>1, Zenon DEF GotReply, ClientTypeOK
    <2>3. CASE \E r \in reps : GotReply(r)
        BY <1>3, <2>1, <2>2, <2>3 DEF ValueOK
    <2>4. CASE result' = result
        BY <2>1, <2>4, Zenon
    <2>5. ASSUME NEW d, NEW y, ClientStep(d, y) \/ StartCall(d, y) PROVE result' = result
        BY <2>5, Zenon DEF StartCall, ClientStep, GetRefconn, SendRequest, TimeOut, NextRound, FinishCall
    <2> QED BY <2>3, <2>4, <2>5, Zenon DEF Next, clientVars
<1>4. ASSUME NEW w \in Workers, wpc'[w] = "add"
      PROVE  wrep'[w].ret = "ok" /\ wrep'[w].val > 0
    <2>1. CASE wpc[w] = "add" /\ wrep'[w] = wrep[w]
        BY <2>1, Zenon DEF ValueOK
    <2>2. CASE RunHandler(w)
        <3>1. wjob[w].clt \in Clients /\ wjob[w].hdr.xid \in Xids
            BY <2>2, JobLemma, Zenon DEF RunHandler
        <3>2. execs[wjob[w].clt][wjob[w].hdr.xid] + 1 > 0
            BY <3>1 DEF ServerTypeOK
        <3> QED BY <1>0, <2>2, <3>2, Zenon DEF RunHandler, ServerTypeOK
    <2> QED BY <1>4, <2>1, <2>2, WorkerPcStep, Zenon
<1>5. ASSUME NEW w \in Workers, wpc'[w] \in {"pick", "send", "senddone", "sendfreed"},
             wrep'[w].ret = "ok"
      PROVE  wrep'[w].val > 0
    <2>1. CASE wpc[w] \in {"pick", "send", "senddone", "sendfreed"} /\ wrep'[w] = wrep[w]
        BY <1>5, <2>1, Zenon DEF ValueOK
    <2>2. CASE AddReply(w)
        BY <1>5, <2>2, Zenon DEF AddReply, ValueOK
    <2>3. CASE CheckDuplicate(w)
        <3> DEFINE c == wjob[w].clt
                   h == wjob[w].hdr
        <3>1. c \in Clients /\ h.xid \in Xids
            BY <2>3, JobLemma, Zenon DEF CheckDuplicate
        <3>2. wpc'[w] = AfterCheck(Status(reply_window_[c], h))
            BY <2>3, Zenon DEF CheckDuplicate, ServerTypeOK
        <3>3. wrep'[w] = IF Status(reply_window_[c], h) = "DONE"
                         THEN [ret |-> "ok", val |-> reply_window_[c][h.xid].val]
                         ELSE IF Status(reply_window_[c], h) = "FORGOTTEN" THEN [ret |-> "forgotten", val |-> 0]
                         ELSE NoReply
            BY <2>3, Zenon DEF CheckDuplicate, ServerTypeOK
        <3>4. Status(reply_window_[c], h) = "DONE"
            <4>1. Status(reply_window_[c], h) # "FORGOTTEN"
                BY <1>5, <3>3
            <4>2. AfterCheck(Status(reply_window_[c], h)) \notin {"run", "idle"}
                BY <1>5, <3>2, Zenon
            <4> QED BY <4>1, <4>2, Zenon DEF AfterCheck
        <3>5. reply_window_[c][h.xid].st = "present"
            BY <3>4, Zenon DEF Status
        <3>6. reply_window_[c][h.xid].val > 0
            BY <3>1, <3>5, Zenon DEF ValueOK
        <3>7. wrep'[w] = [ret |-> "ok", val |-> reply_window_[c][h.xid].val]
            BY <3>3, <3>4, Zenon
        <3>8. wrep'[w].val = reply_window_[c][h.xid].val
            <4> HIDE DEF TypeOK
            <4> QED BY <3>7
        <3> QED BY <3>6, <3>8, Zenon
    <2> QED BY <1>5, <2>1, <2>2, <2>3, WorkerPcStep, Zenon
<1>6. ASSUME NEW c \in Clients, bind_done_'[c] PROVE srv_nonce_'[c] > 0
    <2>1. CASE UNCHANGED <<bind_done_, srv_nonce_>>
        BY <1>6, <2>1, Zenon DEF ValueOK
    <2>2. ASSUME NEW d \in Clients, NEW x \in Xids, FinishCall(d, x) PROVE srv_nonce_'[c] > 0
        BY <1>6, <2>2, ZenonT(60) DEF FinishCall, ValueOK, ClientTypeOK
    <2> QED
        BY <2>1, <2>2, ZenonT(60) DEF Next, clientVars, StartCall, ClientStep, GetRefconn, SendRequest,
                          TimeOut, NextRound, GotReply
<1> QED BY <1>1, <1>2, <1>3, <1>4, <1>5, <1>6, Zenon DEF ValueOK

-----------------------------------------------------------------------------
(* Executions.                                                             *)

\* The server forgets a call only when the call is over, or when it restarts.
LEMMA EntryStep ==
    ASSUME TypeOK, HeaderOK, CopiesOK, Next, ~Restart,
           NEW c \in Clients, NEW x \in Xids, ~Acked(c, x), reply_window_[c][x].st # "absent"
    PROVE  reply_window_'[c][x].st # "absent"
<1> USE DEF TypeOK, ServerTypeOK
<1>1. ASSUME NEW w \in Workers, CheckDuplicate(w) PROVE reply_window_'[c][x].st # "absent"
    <2> DEFINE d == wjob[w].clt
               h == wjob[w].hdr
    <2>1. d \in Clients /\ h \in Headers /\ h.xid \in Xids
        BY <1>1, JobLemma, Zenon DEF CheckDuplicate
    <2>2. pc[d][h.xid] # "none" /\ h = hdr[d][h.xid]
        BY <1>1, Zenon DEF CheckDuplicate, CopiesOK, IsCopy
    <2>3. \A n \in Xids : n <= h.xid_rep => Acked(d, n)
        BY <2>1, <2>2, ZenonT(60) DEF HeaderOK
    <2>4. d = c => x \notin Dropped(reply_window_[d], h)
        BY <2>1, <2>3, Zenon DEF Dropped, Status
    <2>5. reply_window_'[c] = IF c = d THEN Checked(reply_window_[d], h) ELSE reply_window_[c]
        BY <1>1, Zenon DEF CheckDuplicate
    <2>6. reply_window_[c] \in [Xids -> Entries]
        BY Zenon
    <2>7. c = d => Checked(reply_window_[c], h)[x].st # "absent"
        BY <2>1, <2>4, <2>6, CheckedLemma, Zenon
    <2> QED BY <2>5, <2>7, Zenon
<1>2. ASSUME NEW w \in Workers, AddReply(w) PROVE reply_window_'[c][x].st # "absent"
    <2>1. wjob[w].clt \in Clients /\ wjob[w].hdr.xid \in Xids
        BY <1>2, JobLemma, Zenon DEF AddReply
    <2>2. reply_window_[c] \in [Xids -> Entries] /\ wrep[w].val \in Nat
        BY Zenon
    <2>3. reply_window_'[c] = IF c = wjob[w].clt
                              THEN Answered(reply_window_[c], wjob[w].hdr.xid, wrep[w].val)
                              ELSE reply_window_[c]
        BY <1>2, Zenon DEF AddReply
    <2>4. Answered(reply_window_[c], wjob[w].hdr.xid, wrep[w].val)[x].st # "absent"
        <3> HIDE DEF TypeOK, ServerTypeOK
        <3>1. reply_window_[c] \in [Xids -> Entries] /\ reply_window_[c][x].st # "absent"
            BY <2>2, Zenon
        <3> QED BY <3>1, AnsweredKeeps, Zenon
    <2> QED BY <2>3, <2>4, Zenon
<1>3. ASSUME NEW w \in Workers, WorkerStep(w), ~CheckDuplicate(w), ~AddReply(w)
      PROVE  reply_window_' = reply_window_
    BY <1>3, Zenon DEF WorkerStep, TakeJob, SendOldsrv, LookupProc, SaveConn, RunHandler,
                PickConn, SendReply, SendFreed
<1>4. CASE reply_window_' = reply_window_
    BY <1>4, Zenon
<1>5. CASE \E w \in Workers : WorkerStep(w)
    BY <1>1, <1>2, <1>3, <1>4, <1>5, Zenon
<1> QED BY <1>4, <1>5, Zenon DEF Next, serverVars, Accept, GotRequest, Register

\* A call runs when a worker runs its handler.
LEMMA ExecsStep ==
    ASSUME TypeOK, Next, NEW c \in Clients, NEW x \in Xids
    PROVE  \/ execs'[c][x] = execs[c][x]
           \/ /\ execs'[c][x] = execs[c][x] + 1
              /\ \E w \in Workers : RunHandler(w) /\ Running(w, c, x)
<1>1. ASSUME NEW w \in Workers, RunHandler(w)
      PROVE  \/ execs'[c][x] = execs[c][x]
             \/ execs'[c][x] = execs[c][x] + 1 /\ Running(w, c, x)
    BY <1>1, Zenon DEF RunHandler, Running, TypeOK, ServerTypeOK
<1>2. ASSUME NEW w \in Workers, WorkerStep(w), ~RunHandler(w) PROVE execs' = execs
    BY <1>2, Zenon DEF WorkerStep, TakeJob, SendOldsrv, LookupProc, SaveConn, CheckDuplicate, AddReply,
                PickConn, SendReply, SendFreed
<1>3. CASE \E w \in Workers : WorkerStep(w)
    BY <1>1, <1>2, <1>3, Zenon
<1>4. CASE execs' = execs
    BY <1>4, Zenon
<1> QED BY <1>3, <1>4, Zenon DEF Next, serverVars, Accept, GotRequest, Register, Restart

\* A worker that is about to run a call was, or has just found the call to be new.
LEMMA RunningStep ==
    ASSUME TypeOK, Next, NEW w \in Workers, NEW c \in Clients, NEW x \in Xids, Running(w, c, x)'
    PROVE  \/ Running(w, c, x)
           \/ /\ CheckDuplicate(w)
              /\ wjob[w].clt = c
              /\ wjob[w].hdr.xid = x
              /\ reply_window_[c][x].st = "absent"
              /\ reply_window_'[c][x].st # "absent"
              /\ UNCHANGED <<execs, nonce_>>
              /\ \A v \in Workers : Running(v, c, x)' => v = w \/ Running(v, c, x)
<1> USE DEF TypeOK, ServerTypeOK
<1>1. wpc'[w] = "run" /\ wjob'[w].clt = c /\ wjob'[w].hdr.xid = x
    BY Zenon DEF Running
<1>2. wpc[w] # "idle" /\ wjob[w].clt = c /\ wjob[w].hdr.xid = x
    BY <1>1, WorkerJobStep, Zenon
<1>3. CASE wpc[w] = "run"
    BY <1>2, <1>3, Zenon DEF Running
<1>4. CASE CheckDuplicate(w) /\ Status(reply_window_[wjob[w].clt], wjob[w].hdr) = "NEW"
    <2>1. reply_window_[c][x].st = "absent"
        BY <1>2, <1>4, Zenon DEF Status
    <2>2. reply_window_'[c][x].st = "inprogress"
        <3>1. wjob[w].hdr \in Headers
            BY <1>2, JobLemma, Zenon
        <3>2. reply_window_'[c] = Checked(reply_window_[c], wjob[w].hdr)
            BY <1>2, <1>4, Zenon DEF CheckDuplicate
        <3>3. reply_window_[c] \in [Xids -> Entries] /\ Status(reply_window_[c], wjob[w].hdr) = "NEW"
            BY <1>2, <1>4, Zenon
        <3>4. Checked(reply_window_[c], wjob[w].hdr)[wjob[w].hdr.xid].st = "inprogress"
            BY <3>1, <3>3, CheckedLemma, Zenon
        <3> QED BY <1>2, <3>2, <3>4, Zenon
    <2>3. UNCHANGED <<execs, nonce_>>
        BY <1>4, Zenon DEF CheckDuplicate
    <2>4. ASSUME NEW v \in Workers, Running(v, c, x)', v # w PROVE Running(v, c, x)
        <3>1. wpc[v] = "run"
            BY <1>4, <2>4, Zenon DEF CheckDuplicate, Running
        <3>2. wjob' = wjob
            BY <1>4, Zenon DEF CheckDuplicate
        <3> QED BY <2>4, <3>1, <3>2, Zenon DEF Running
    <2> QED BY <1>2, <1>4, <2>1, <2>2, <2>3, <2>4, Zenon
<1> QED BY <1>1, <1>3, <1>4, WorkerPcStep, Zenon

\* No step runs the handler of an unacknowledged call a second time.
LEMMA OnceStep ==
    ASSUME Inv, Next
    PROVE  OnceOK'
<1> USE DEF Inv
<1> SUFFICES ASSUME NEW c \in Clients, NEW x \in Xids,
                    pc'[c][x] # "none", hdr'[c][x].proc = "op", ~Acked(c, x)'
             PROVE  /\ execs'[c][x] <= 1
                    /\ hdr'[c][x].srv_nonce > nonce_' => execs'[c][x] = 0
                    /\ hdr'[c][x].srv_nonce = nonce_' /\ execs'[c][x] = 1 =>
                          reply_window_'[c][x].st # "absent"
                    /\ \A w \in Workers : Running(w, c, x)' =>
                          /\ execs'[c][x] = 0
                          /\ reply_window_'[c][x].st # "absent"
                          /\ \A v \in Workers : Running(v, c, x)' => v = w
    BY Zenon DEF OnceOK
<1>0. execs[c][x] \in Nat /\ nonce_ \in Nat
    <2>1. execs[c][x] \in Nat /\ nonce_ \in 1 .. MaxNonce
        BY Zenon DEF TypeOK, ServerTypeOK
    <2> HIDE DEF Inv
    <2> QED BY <2>1, WireAssumption
<1>1. ~Acked(c, x)
    BY AckedStep, Zenon
<1>2. ASSUME NEW w \in Workers, wpc[w] # "idle", wjob[w].clt = c, wjob[w].hdr.xid = x
      PROVE  pc[c][x] # "none" /\ wjob[w].hdr = hdr[c][x]
    BY <1>2, Zenon DEF CopiesOK, IsCopy
<1>3. CASE pc[c][x] = "none"
    <2>1. \A w \in Workers : ~Running(w, c, x)
        BY <1>2, <1>3, Zenon DEF Running
    <2>2. \A w \in Workers : ~Running(w, c, x)'
        BY <1>2, <1>3, <2>1, RunningStep, Zenon DEF CheckDuplicate
    <2>3. execs'[c][x] = 0
        BY <1>3, <2>1, ExecsStep, Zenon DEF FreshOK
    <2>4. execs'[c][x] <= 1 /\ execs'[c][x] # 1
        <3> HIDE DEF Inv
        <3> QED BY <2>3
    <2> QED BY <2>2, <2>3, <2>4, Zenon
<1>4. CASE pc[c][x] # "none"
    <2>1. hdr'[c][x] = hdr[c][x] /\ hdr[c][x].proc = "op"
        BY <1>4, HeaderStep, Zenon
    <2>2. hdr[c][x] \in Headers /\ hdr[c][x].srv_nonce > 0 /\ hdr[c][x].srv_nonce \in Nat
        BY <1>4, <2>1, Zenon DEF HeaderOK, Headers
    <2>3. /\ execs[c][x] <= 1
          /\ hdr[c][x].srv_nonce > nonce_ => execs[c][x] = 0
          /\ hdr[c][x].srv_nonce = nonce_ /\ execs[c][x] = 1 =>
                reply_window_[c][x].st # "absent"
          /\ \A w \in Workers : Running(w, c, x) =>
                /\ execs[c][x] = 0
                /\ reply_window_[c][x].st # "absent"
                /\ \A v \in Workers : Running(v, c, x) => v = w
        BY <1>1, <1>4, <2>1, Zenon DEF OnceOK
    <2>4. ASSUME NEW w \in Workers, wpc[w] \in {"check", "run"},
                 wjob[w].clt = c, wjob[w].hdr.xid = x
          PROVE  hdr[c][x].srv_nonce = nonce_
        <3>1. wjob[w].hdr = hdr[c][x] /\ wjob[w].hdr.srv_nonce \in {0, nonce_}
            BY <1>2, <2>4, Zenon DEF WorkerOK
        <3> HIDE DEF Inv
        <3> QED BY <2>2, <3>1
    <2>5. CASE Restart
        <3>1. nonce_' = nonce_ + 1 /\ execs'[c][x] = execs[c][x]
            BY <2>5, Zenon DEF Restart
        <3>2. \A w \in Workers : ~Running(w, c, x)'
            BY <2>5, Zenon DEF Restart, Running
        <3>3. hdr[c][x].srv_nonce >= nonce_ + 1 => execs[c][x] = 0
            <4>1. hdr[c][x].srv_nonce > nonce_ => execs[c][x] = 0
                BY <2>3, Zenon
            <4> HIDE DEF Inv
            <4> QED BY <1>0, <2>2, <4>1
        <3>4. execs'[c][x] <= 1
            BY <2>3, <3>1, Zenon
        <3> HIDE DEF Inv
        <3>5. hdr'[c][x].srv_nonce > nonce_' => execs'[c][x] = 0
            BY <1>0, <2>1, <2>2, <3>1, <3>3
        <3>6. ~(hdr'[c][x].srv_nonce = nonce_' /\ execs'[c][x] = 1)
            BY <1>0, <2>1, <2>2, <3>1, <3>3
        <3> QED BY <3>2, <3>4, <3>5, <3>6, Zenon
    <2>6. ASSUME ~Restart, NEW w \in Workers, RunHandler(w), Running(w, c, x),
                 execs'[c][x] = execs[c][x] + 1
          PROVE  /\ execs'[c][x] = 1
                 /\ hdr[c][x].srv_nonce = nonce_
                 /\ reply_window_'[c][x].st # "absent"
                 /\ \A v \in Workers : ~Running(v, c, x)'
        <3>1. execs'[c][x] = 1
            <4>1. execs[c][x] = 0 /\ execs'[c][x] = execs[c][x] + 1
                BY <2>3, <2>6, Zenon
            <4> HIDE DEF Inv
            <4> QED BY <4>1
        <3>2. hdr[c][x].srv_nonce = nonce_
            BY <2>4, <2>6, Zenon DEF Running
        <3>3. reply_window_' = reply_window_
            BY <2>6, Zenon DEF RunHandler
        <3>4. ASSUME NEW v \in Workers, Running(v, c, x)' PROVE FALSE
            <4>1. wpc' = [wpc EXCEPT ![w] = "add"] /\ wjob' = wjob
                BY <2>6, Zenon DEF RunHandler
            <4>2. v # w /\ Running(v, c, x)
                BY <3>4, <4>1, Zenon DEF Running, TypeOK, ServerTypeOK
            <4> QED BY <2>3, <2>6, <4>2, Zenon
        <3> QED BY <2>3, <2>6, <3>1, <3>2, <3>3, <3>4, Zenon
    <2>7. CASE ~Restart /\ execs'[c][x] = execs[c][x]
        <3>1. nonce_' = nonce_
            BY <2>7, NonceStep, Zenon
        <3>2. reply_window_[c][x].st # "absent" => reply_window_'[c][x].st # "absent"
            BY <1>1, <2>7, EntryStep, Zenon
        <3>3. ASSUME NEW w \in Workers, Running(w, c, x)'
              PROVE  /\ execs'[c][x] = 0
                     /\ reply_window_'[c][x].st # "absent"
                     /\ \A v \in Workers : Running(v, c, x)' => v = w
            <4>1. CASE Running(w, c, x)
                <5>1. execs'[c][x] = 0 /\ reply_window_[c][x].st # "absent"
                    BY <2>3, <2>7, <4>1, Zenon
                <5>2. ASSUME NEW v \in Workers, Running(v, c, x)' PROVE v = w
                    BY <2>3, <4>1, <5>1, <5>2, RunningStep, Zenon
                <5> QED BY <3>2, <5>1, <5>2, Zenon
            <4>2. CASE /\ CheckDuplicate(w)
                       /\ wjob[w].clt = c
                       /\ wjob[w].hdr.xid = x
                       /\ reply_window_[c][x].st = "absent"
                       /\ reply_window_'[c][x].st # "absent"
                       /\ \A v \in Workers : Running(v, c, x)' => v = w \/ Running(v, c, x)
                <5>1. hdr[c][x].srv_nonce = nonce_
                    BY <2>4, <4>2, Zenon DEF CheckDuplicate
                <5>2. execs[c][x] = 0
                    <6>1. execs[c][x] \in Nat /\ execs[c][x] <= 1 /\ execs[c][x] # 1
                        BY <1>0, <2>3, <4>2, <5>1, Zenon
                    <6> HIDE DEF Inv
                    <6> QED BY <6>1
                <5>3. \A v \in Workers : ~Running(v, c, x)
                    BY <2>3, <4>2, Zenon
                <5> QED BY <2>7, <4>2, <5>2, <5>3, Zenon
            <4> QED BY <3>3, <4>1, <4>2, RunningStep, Zenon
        <3> QED BY <2>1, <2>3, <2>7, <3>1, <3>2, <3>3, Zenon
    <2>8. CASE ~Restart /\ execs'[c][x] # execs[c][x]
        <3>1. PICK w \in Workers : /\ RunHandler(w) /\ Running(w, c, x)
                                   /\ execs'[c][x] = execs[c][x] + 1
            BY <2>8, ExecsStep, Zenon
        <3>2. /\ execs'[c][x] = 1
              /\ hdr[c][x].srv_nonce = nonce_
              /\ reply_window_'[c][x].st # "absent"
              /\ \A v \in Workers : ~Running(v, c, x)'
            BY <2>6, <2>8, <3>1, Zenon
        <3>3. nonce_' = nonce_
            BY <2>8, NonceStep, Zenon
        <3>4. execs'[c][x] <= 1 /\ ~(hdr'[c][x].srv_nonce > nonce_')
            <4> HIDE DEF Inv
            <4> QED BY <1>0, <2>1, <3>2, <3>3
        <3> QED BY <3>2, <3>4, Zenon
    <2> QED BY <2>5, <2>7, <2>8, Zenon
<1> QED BY <1>3, <1>4, Zenon

-----------------------------------------------------------------------------
\* The inductive invariant holds when client and server start.
LEMMA InitInv == Init => Inv
<1> SUFFICES ASSUME Init PROVE Inv
    BY Zenon
<1>0. /\ MaxXid \in Nat /\ MaxNonce \in Nat /\ MaxNonce >= 1 /\ MaxRounds \in Nat \ {0}
    BY WireAssumption, ServerAssumption, ClientAssumption, Zenon
<1>a. /\ 1 \in 1 .. MaxXid + 1 /\ 0 \in 0 .. MaxRounds /\ 1 \in 1 .. MaxNonce
      /\ EmptyWindow \in Windows
    BY <1>0 DEF EmptyWindow, Windows
<1>b. /\ NoEndpoint \in Endpoints
      /\ Absent \in Entries
      /\ NoReply \in [ret : Rets, val : Nat]
      /\ NoResult \in [done : BOOLEAN, ret : Rets, val : Nat]
    BY DEF NoEndpoint, Endpoints, Absent, Entries, NoReply, NoResult, Rets
<1> USE DEF Init, WireInit, ClientInit, ServerInit
<1>1. WireTypeOK
    BY <1>b, Zenon DEF WireTypeOK
<1>2. ClientTypeOK
    <2>1. /\ xid_ \in [Clients -> 1 .. MaxXid + 1]
          /\ round \in [Clients -> [Xids -> 0 .. MaxRounds]]
        BY <1>a, Zenon
    <2>2. xid_rep_window_ \in [Clients -> Windows]
        BY <1>a, Zenon
    <2>3. result \in [Clients -> [Xids -> [done : BOOLEAN, ret : Rets, val : Nat]]]
        BY <1>b, Zenon
    <2>4. /\ bind_done_ \in [Clients -> BOOLEAN]
          /\ srv_nonce_ \in [Clients -> Nat]
          /\ chan_ \in [Clients -> Conns \cup {Null}]
        BY Zenon
    <2>5. /\ pc \in [Clients -> [Xids -> {"none", "connect", "send", "wait", "timedout",
                                           "leave", "returned"}]]
          /\ hdr \in [Clients -> [Xids -> Headers \cup {NoHeader}]]
          /\ ch \in [Clients -> [Xids -> Conns \cup {Null}]]
        BY Zenon
    <2> QED BY <2>1, <2>2, <2>3, <2>4, <2>5, Zenon DEF ClientTypeOK
<1>3. ServerTypeOK
    <2>1. nonce_ \in 1 .. MaxNonce /\ procs_ \subseteq Procs
        BY <1>a, Zenon DEF Procs
    <2>2. reply_window_ \in [Clients -> [Xids -> Entries]]
        BY <1>b, Zenon DEF NoReplies
    <2>3. /\ wpc \in [Workers -> WorkerPCs]
          /\ wjob \in [Workers -> Requests \cup {NoJob}]
          /\ \A w \in Workers : wjob[w] = NoJob <=> wpc[w] = "idle"
        BY Zenon DEF WorkerPCs
    <2>4. wrep \in [Workers -> [ret : Rets, val : Nat]]
        BY <1>b, Zenon
    <2>5. jobq \in Seq(Requests) /\ heap \in Int
        OBVIOUS
    <2>7. wild \in BOOLEAN
        BY Zenon
    <2>6. /\ conns_ \in [Clients -> Conns \cup {Null}]
          /\ execs \in [Clients -> [Xids -> Nat]]
        BY Zenon
    <2> QED BY <2>1, <2>2, <2>3, <2>4, <2>5, <2>6, <2>7, Zenon DEF ServerTypeOK
<1>4. WindowOK
    BY Zenon DEF WindowOK, EmptyWindow
<1>5. FreshOK
    BY <1>0 DEF FreshOK, Xids
<1>6. HeaderOK /\ CopiesOK /\ RoundOK
    BY DEF HeaderOK, CopiesOK, RoundOK
<1>7. ValueOK
    BY Zenon DEF ValueOK, NoReplies, Absent, NoResult
<1>8. WorkerOK
    BY Zenon DEF WorkerOK
<1>9. OnceOK
    BY Zenon DEF OnceOK
<1> QED BY <1>1, <1>2, <1>3, <1>4, <1>5, <1>6, <1>7, <1>8, <1>9, Zenon DEF Inv, TypeOK

\* Every step of client, server and network keeps the inductive invariant.
LEMMA InvStep == Inv /\ [Next]_vars => Inv'
<1>1. ASSUME Inv, Next PROVE Inv'
    BY <1>1, WireTypeStep, ClientTypeStep, ServerTypeStep, AckedStep, FreshStep, HeaderOKStep,
       CopiesStep, ValueStep, WorkerOKStep, RoundStep, OnceStep, Zenon
    DEF Inv, TypeOK
<1>2. ASSUME Inv, UNCHANGED vars PROVE Inv'
    <2> USE <1>2 DEF Inv, vars, wireVars, clientVars, serverVars
    <2>1. TypeOK'
        BY Zenon DEF TypeOK, WireTypeOK, ClientTypeOK, ServerTypeOK
    <2>2. WindowOK' /\ FreshOK' /\ RoundOK'
        BY Zenon DEF WindowOK, FreshOK, RoundOK
    <2>3. HeaderOK'
        BY Zenon DEF HeaderOK, Acked
    <2>4. CopiesOK'
        BY Zenon DEF CopiesOK, IsCopy
    <2>5. ValueOK'
        BY Zenon DEF ValueOK
    <2>6. WorkerOK'
        BY Zenon DEF WorkerOK
    <2>7. OnceOK'
        <3>1. \A c \in Clients, x \in Xids : Acked(c, x)' <=> Acked(c, x)
            BY Zenon DEF Acked
        <3>2. \A w \in Workers, c \in Clients, x \in Xids : Running(w, c, x)' <=> Running(w, c, x)
            BY Zenon DEF Running
        <3>3. /\ pc' = pc /\ hdr' = hdr /\ nonce_' = nonce_ /\ execs' = execs
              /\ reply_window_' = reply_window_ /\ OnceOK
            BY Zenon
        <3> HIDE <1>2 DEF Inv, vars, wireVars, clientVars, serverVars
        <3> QED BY <3>1, <3>2, <3>3, ZenonT(60) DEF OnceOK
    <2> QED BY <2>1, <2>2, <2>3, <2>4, <2>5, <2>6, <2>7, Zenon
<1> QED BY <1>1, <1>2, Zenon

\* Inv is an invariant of the RPC library.
THEOREM Invariance == Spec => []Inv
BY InitInv, InvStep, PTL DEF Spec

\* Every variable of rpcc, rpcs and the wire between them has its type in every
\* reachable state.
THEOREM TypeCorrect == Spec => []TypeOK
BY Invariance, PTL DEF Inv

-----------------------------------------------------------------------------
(* Facts for the theorems of RpcTheorems and RpcRefs.                      *)

One(b) == IF b THEN 1 ELSE 0

\* Two sets that differ in one element.
LEMMA CardDiff ==
    ASSUME NEW A, NEW B, NEW x, IsFiniteSet(A), IsFiniteSet(B), A \ {x} = B \ {x}
    PROVE  /\ Cardinality(A) \in Nat /\ Cardinality(B) \in Nat
           /\ (x \in A <=> x \in B) => Cardinality(B) = Cardinality(A)
           /\ x \in A /\ x \notin B => Cardinality(A) = Cardinality(B) + 1
           /\ x \notin A /\ x \in B => Cardinality(B) = Cardinality(A) + 1
<1>1. Cardinality(A) \in Nat /\ Cardinality(B) \in Nat
    BY FS_CardinalityType, Zenon
<1>2. /\ Cardinality(A \ {x}) = IF x \in A THEN Cardinality(A) - 1 ELSE Cardinality(A)
      /\ Cardinality(B \ {x}) = IF x \in B THEN Cardinality(B) - 1 ELSE Cardinality(B)
    BY FS_RemoveElement, Zenon
<1> DEFINE a == Cardinality(A)
           b == Cardinality(B)
           r == Cardinality(A \ {x})
<1>3. /\ a \in Nat /\ b \in Nat
      /\ r = IF x \in A THEN a - 1 ELSE a
      /\ r = IF x \in B THEN b - 1 ELSE b
    BY <1>1, <1>2, Zenon
<1> HIDE DEF a, b, r
<1>4. /\ a \in Nat /\ b \in Nat
      /\ (x \in A <=> x \in B) => b = a
      /\ x \in A /\ x \notin B => a = b + 1
      /\ x \notin A /\ x \in B => b = a + 1
    BY <1>3
<1> QED BY <1>4, Zenon DEF a, b

\* The types the steps of the server need.
LEMMA RefTypes ==
    ASSUME TypeOK
    PROVE  /\ sconn \in [Clients -> [Conns -> Endpoints]]
           /\ link \in [Clients -> [Conns -> {"none", "up", "down"}]]
           /\ conns_ \in [Clients -> Conns \cup {Null}]
           /\ jobq \in Seq(Requests)
           /\ wpc \in [Workers -> WorkerPCs]
           /\ wjob \in [Workers -> Requests \cup {NoJob}]
           /\ \A c \in Clients : sconn[c] \in [Conns -> Endpoints]
           /\ \A c \in Clients, k \in Conns : sconn[c][k] \in Endpoints
<1>1. sconn \in [Clients -> [Conns -> Endpoints]] /\ link \in [Clients -> [Conns -> {"none", "up", "down"}]]
    BY Zenon DEF TypeOK, WireTypeOK
<1>2. \A c \in Clients : sconn[c] \in [Conns -> Endpoints]
    BY <1>1, Zenon
<1>3. \A c \in Clients, k \in Conns : sconn[c][k] \in Endpoints
    BY <1>2, Zenon
<1>4. /\ conns_ \in [Clients -> Conns \cup {Null}] /\ jobq \in Seq(Requests)
      /\ wpc \in [Workers -> WorkerPCs] /\ wjob \in [Workers -> Requests \cup {NoJob}]
    BY Zenon DEF TypeOK, ServerTypeOK
<1> QED BY <1>1, <1>2, <1>3, <1>4, Zenon

\* The job of a worker that is not idle is a request.
LEMMA JobType ==
    ASSUME TypeOK, NEW w \in Workers, wpc[w] # "idle"
    PROVE  wjob[w] \in Requests /\ wjob[w].clt \in Clients /\ wjob[w].conn \in Conns
<1>1. wjob[w] \in Requests \cup {NoJob} /\ wjob[w] # NoJob
    BY Zenon DEF TypeOK, ServerTypeOK
<1>2. wjob[w] \in Requests
    BY <1>1, Zenon
<1> QED BY <1>2 DEF Requests
=============================================================================
