---------------------------- MODULE RpcTheorems ----------------------------
(***************************************************************************)
(* What the RPC library guarantees: the theorems about OnceWhileOutstanding*)
(* and ForgetsOnlyWhatIsOver, about the value that a call returns, that    *)
(* Rpc implements RpcPromise, and about the buffers of replies.  Inv speaks*)
(* of the calls that the client acknowledges; AckOK links them to the      *)
(* calls that are over, and AnswerOK follows the value of a handler from   *)
(* its worker to its caller.                                               *)
(***************************************************************************)
EXTENDS RpcProof

\* As long as no freed buffer was sent: a reply in flight answers a call that
\* was made, and only the calls that are over are acknowledged.
AckOK ==
    ~wild =>
        /\ \A r \in reps : pc[r.clt][r.xid] # "none"
        /\ \A c \in Clients, x \in Xids : Acked(c, x) => Over(c, x)

-----------------------------------------------------------------------------
\* A reply that a step puts in flight answers the request of a worker, unless
\* the step sends a freed buffer.
LEMMA ReplyStep ==
    ASSUME TypeOK, Next, ~wild', NEW r \in reps'
    PROVE  \/ r \in reps
           \/ \E w \in Workers : /\ wpc[w] # "idle"
                                 /\ r.clt = wjob[w].clt
                                 /\ r.xid = wjob[w].hdr.xid
                                 /\ r.ret = "ok" => /\ wpc[w] \in {"send", "senddone"}
                                                    /\ wrep[w].ret = "ok"
                                                    /\ r.val = wrep[w].val
<1> DEFINE Own(w) == r.clt = wjob[w].clt /\ r.xid = wjob[w].hdr.xid
<1>1. ASSUME NEW w \in Workers, NEW o, NEW rep, SendOn(w, o, rep), rep.xid = wjob[w].hdr.xid
      PROVE  r \in reps \/ (Own(w) /\ r.ret = rep.ret /\ r.val = rep.val)
    BY <1>1 DEF SendOn
<1>2. ASSUME NEW w \in Workers, SendOldsrv(w)
      PROVE  r \in reps \/ (Own(w) /\ r.ret # "ok")
    <2> DEFINE rep == [xid |-> wjob[w].hdr.xid, ret |-> "oldsrv", val |-> 0]
    <2>1. PICK o : SendOn(w, o, rep)
        BY <1>2, Zenon DEF SendOldsrv
    <2>2. rep.xid = wjob[w].hdr.xid /\ rep.ret # "ok"
        OBVIOUS
    <2> HIDE DEF rep, Own
    <2> QED BY <1>1, <2>1, <2>2, Zenon
<1>3. ASSUME NEW w \in Workers, SendReply(w)
      PROVE  r \in reps \/ (Own(w) /\ r.ret = wrep[w].ret /\ r.val = wrep[w].val)
    <2>1. PICK o : SendOn(w, o, ReplyOf(w))
        BY <1>3, Zenon DEF SendReply
    <2>2. ReplyOf(w).xid = wjob[w].hdr.xid /\ ReplyOf(w).ret = wrep[w].ret /\ ReplyOf(w).val = wrep[w].val
        BY DEF ReplyOf
    <2> HIDE DEF Own
    <2> QED BY <1>1, <2>1, <2>2, Zenon
<1>4. ASSUME NEW w, \/ TakeJob(w) \/ LookupProc(w) \/ SaveConn(w) \/ CheckDuplicate(w)
                    \/ RunHandler(w) \/ AddReply(w) \/ PickConn(w)
      PROVE  reps' = reps
    BY <1>4, Zenon DEF TakeJob, LookupProc, SaveConn, CheckDuplicate, RunHandler, AddReply, PickConn, wireVars
<1>5. ASSUME NEW w \in Workers, WorkerStep(w)
      PROVE  \/ r \in reps
             \/ /\ wpc[w] # "idle" /\ Own(w)
                /\ r.ret = "ok" => wpc[w] \in {"send", "senddone"} /\ wrep[w].ret = "ok" /\ r.val = wrep[w].val
    <2> HIDE DEF Own
    <2>1. CASE SendOldsrv(w)
        BY <1>2, <2>1, Zenon DEF SendOldsrv
    <2>2. CASE SendReply(w)
        BY <1>3, <2>2, Zenon DEF SendReply
    <2>3. ~SendFreed(w)
        BY Zenon DEF SendFreed
    <2> QED BY <1>4, <1>5, <2>1, <2>2, <2>3, Zenon DEF WorkerStep
<1>6. ASSUME NEW c \in Clients, NEW x \in Xids, ClientStep(c, x) PROVE r \in reps
    <2>1. CASE SendRequest(c, x)
        BY <2>1, Zenon DEF SendRequest, WithoutConn
    <2> QED BY <1>6, <2>1, Zenon DEF ClientStep, GetRefconn, TimeOut, NextRound, FinishCall, wireVars
<1>7. ASSUME NEW c, NEW k, Break(c, k) \/ ClientEof(c, k) \/ ServerEof(c, k) \/ Accept(c, k) \/ StartCall(c, k)
      PROVE  r \in reps
    BY <1>7, Zenon DEF Break, ClientEof, ServerEof, Accept, StartCall, wireVars, WithoutConn
<1>8. ASSUME NEW m, GotReply(m) \/ GotRequest(m) \/ Register \/ Restart
      PROVE  r \in reps
    BY <1>8, Zenon DEF GotReply, GotRequest, Register, Restart, wireVars
<1> QED BY <1>5, <1>6, <1>7, <1>8, Zenon DEF Next

\* A call that is over stays over.
LEMMA OverStep ==
    ASSUME TypeOK, FreshOK, Next, NEW c \in Clients, NEW x \in Xids, Over(c, x)
    PROVE  Over(c, x)'
<1> USE DEF TypeOK, ClientTypeOK, Over
<1>1. CASE UNCHANGED <<pc, result>>
    BY <1>1, Zenon
<1>2. ASSUME NEW d \in Clients, NEW proc \in Procs, StartCall(d, proc) PROVE Over(c, x)'
    <2>1. xid_[d] \in Xids /\ pc[d][xid_[d]] = "none"
        <3>1. xid_[d] \in 1 .. MaxXid + 1 /\ xid_[d] <= MaxXid
            BY <1>2, Zenon DEF StartCall
        <3> HIDE DEF TypeOK, ClientTypeOK, Over
        <3>2. xid_[d] \in Xids /\ xid_[d] >= xid_[d]
            BY <3>1, WireAssumption DEF Xids
        <3> QED BY <3>2, Zenon DEF FreshOK
    <2> QED BY <1>2, <2>1, Zenon DEF StartCall
<1>3. ASSUME NEW d \in Clients, NEW y \in Xids, ClientStep(d, y) PROVE Over(c, x)'
    <2>1. result' = result
        BY <1>3, Zenon DEF ClientStep, GetRefconn, SendRequest, TimeOut, NextRound, FinishCall
    <2>2. \E p : pc' = [pc EXCEPT ![d][y] = p] /\ (pc[d][y] = "returned" => p = "returned")
        BY <1>3, Zenon DEF ClientStep, GetRefconn, SendRequest, TimeOut, NextRound, FinishCall
    <2>3. pc[c][x] = "returned" => pc'[c][x] = "returned"
        BY <2>2
    <2> QED BY <2>1, <2>3, Zenon
<1>4. ASSUME NEW r \in reps, GotReply(r) PROVE Over(c, x)'
    <2>1. r.clt \in Clients /\ r.xid \in Xids
        BY Zenon DEF WireTypeOK, Replies
    <2> QED BY <1>4, <2>1 DEF GotReply
<1> QED BY <1>1, <1>2, <1>3, <1>4, Zenon DEF Next, clientVars

\* A step that acknowledges a call ends it, or it handles a reply to a call that
\* is no longer in calls_.
LEMMA AckedOnlyStep ==
    ASSUME TypeOK, WindowOK, Next, NEW c \in Clients, NEW x \in Xids, Acked(c, x)'
    PROVE  Acked(c, x) \/ Over(c, x)' \/ \E r \in reps : r.clt = c /\ r.xid = x /\ ~InCalls(c, x) /\ pc' = pc
<1>1. CASE UNCHANGED xid_rep_window_
    BY <1>1, Zenon DEF Acked
<1>2. ASSUME NEW d \in Clients, NEW y \in Xids, FinishCall(d, y)
      PROVE  Acked(c, x) \/ Over(c, x)'
    <2>1. Acked(c, x) \/ (d = c /\ y = x)
        <3>1. \E w \in UpdateXidRep(xid_rep_window_[d], y) :
                  xid_rep_window_' = [xid_rep_window_ EXCEPT ![d] = w]
            BY <1>2, Zenon DEF FinishCall
        <3>2. \A e \in Clients, n \in Xids : Acked(e, n)' <=> Acked(e, n) \/ (e = d /\ n = y)
            BY <3>1, AckLemma, Zenon
        <3> QED BY <3>2, Zenon
    <2>2. pc'[d][y] = "returned"
        BY <1>2 DEF FinishCall, TypeOK, ClientTypeOK
    <2> QED BY <2>1, <2>2, Zenon DEF Over
<1>3. ASSUME NEW r \in reps, GotReply(r)
      PROVE  Acked(c, x) \/ Over(c, x)' \/ (r.clt = c /\ r.xid = x /\ ~InCalls(c, x) /\ pc' = pc)
    <2>1. r.clt \in Clients /\ r.xid \in Xids
        BY Zenon DEF TypeOK, WireTypeOK, Replies
    <2>2. Acked(c, x) \/ (r.clt = c /\ r.xid = x)
        BY <1>3, <2>1, AckLemma, Zenon DEF GotReply
    <2>3. InCalls(r.clt, r.xid) => result'[r.clt][r.xid].done
        BY <1>3, <2>1, Zenon DEF GotReply, TypeOK, ClientTypeOK
    <2> QED BY <1>3, <2>2, <2>3, Zenon DEF Over, GotReply
<1> QED
    BY <1>1, <1>2, <1>3, ZenonT(60)
    DEF Next, ClientStep, StartCall, GetRefconn, SendRequest, TimeOut, NextRound, clientVars

\* Sending a freed buffer is never undone.
LEMMA WildStep ==
    ASSUME Next, ~wild'
    PROVE  ~wild
<1>1. ASSUME NEW w, WorkerStep(w) PROVE wild' = wild \/ wild'
    BY <1>1, Zenon DEF WorkerStep, TakeJob, SendOldsrv, LookupProc, SaveConn, CheckDuplicate, RunHandler,
       AddReply, PickConn, SendReply, SendFreed
<1>2. ASSUME NEW c, NEW k, Accept(c, k) \/ GotRequest(k) \/ Register \/ Restart PROVE wild' = wild
    BY <1>2, Zenon DEF Accept, GotRequest, Register, Restart, serverVars
<1> QED BY <1>1, <1>2, Zenon DEF Next, serverVars

\* No step acknowledges a call that is not over.
LEMMA AckStep ==
    ASSUME Inv, AckOK, Next
    PROVE  AckOK'
<1> SUFFICES ASSUME ~wild'
             PROVE  /\ \A r \in reps' : pc'[r.clt][r.xid] # "none"
                    /\ \A c \in Clients, x \in Xids : Acked(c, x)' => Over(c, x)'
    BY Zenon DEF AckOK
<1>0. TypeOK /\ FreshOK /\ WindowOK /\ CopiesOK
    BY Zenon DEF Inv
<1>1. ~wild
    BY WildStep, Zenon
<1>2. ASSUME NEW r \in reps' PROVE pc'[r.clt][r.xid] # "none"
    <2>1. r \in Replies
        BY <1>2, WireTypeStep, Zenon DEF Inv, WireTypeOK
    <2>2. r.clt \in Clients /\ r.xid \in Xids
        BY <2>1, Zenon DEF Replies
    <2>3. pc[r.clt][r.xid] # "none"
        BY <1>0, <1>1, <1>2, ReplyStep DEF AckOK, CopiesOK, IsCopy
    <2> QED BY <1>0, <2>2, <2>3, HeaderStep, Zenon
<1>3. ASSUME NEW c \in Clients, NEW x \in Xids, Acked(c, x)' PROVE Over(c, x)'
    <2>1. CASE Acked(c, x)
        BY <1>0, <1>1, <2>1, OverStep, Zenon DEF AckOK
    <2>2. CASE \E r \in reps : r.clt = c /\ r.xid = x /\ ~InCalls(c, x) /\ pc' = pc
        BY <1>1, <2>2, Zenon DEF AckOK, InCalls, Over
    <2> QED BY <1>0, <1>3, <2>1, <2>2, AckedOnlyStep, Zenon
<1> QED BY <1>2, <1>3, Zenon

\* AckOK is an invariant of the RPC library.
THEOREM Acknowledged == Spec => [](Inv /\ AckOK)
<1>1. Init => AckOK
    BY DEF Init, WireInit, ClientInit, ServerInit, AckOK, Acked, Covered, EmptyWindow, Xids
<1>2. Inv /\ AckOK /\ [Next]_vars => AckOK'
    <2>1. ASSUME AckOK, UNCHANGED vars PROVE AckOK'
        BY <2>1, Zenon DEF AckOK, Acked, Over, vars, wireVars, clientVars, serverVars
    <2> QED BY <2>1, AckStep, Zenon
<1> QED BY <1>1, <1>2, Invariance, PTL DEF Spec

(***************************************************************************)
(* The main theorem: a handler of the application runs at most once while  *)
(* its call is not over, however requests are retransmitted, reordered or  *)
(* lost, and however often the server restarts.                            *)
(***************************************************************************)
THEOREM Once == Spec => []OnceWhileOutstanding
<1>1. ASSUME Inv, AckOK PROVE OnceWhileOutstanding
    <2> SUFFICES ASSUME NEW c \in Clients, NEW x \in Xids,
                        ~wild, hdr[c][x].proc = "op", ~Over(c, x)
                 PROVE  execs[c][x] <= 1
        BY Zenon DEF OnceWhileOutstanding
    <2>1. CASE pc[c][x] = "none"
        BY <1>1, <2>1 DEF Inv, FreshOK
    <2>2. CASE pc[c][x] # "none"
        BY <1>1, <2>2, Zenon DEF Inv, OnceOK, AckOK
    <2> QED BY <2>1, <2>2, Zenon
<1> QED BY <1>1, Acknowledged, PTL

(***************************************************************************)
(* checkduplicate_and_update forgets a call only when the call is over at  *)
(* the client.                                                             *)
(***************************************************************************)
THEOREM Forgets == Spec => ForgetsOnlyWhatIsOver
<1> DEFINE Forgotten == \A c \in Clients, x \in Xids :
                            /\ ~wild
                            /\ reply_window_[c][x].st # "absent"
                            /\ reply_window_'[c][x].st = "absent"
                            /\ nonce_' = nonce_
                            => Over(c, x)
<1>1. ASSUME Inv, AckOK, Next PROVE Forgotten
    <2> SUFFICES ASSUME NEW c \in Clients, NEW x \in Xids, ~wild,
                        reply_window_[c][x].st # "absent", reply_window_'[c][x].st = "absent",
                        nonce_' = nonce_
                 PROVE  Over(c, x)
        BY Zenon
    <2>1. ~Restart
        BY <1>1, WireAssumption DEF Restart, Inv, TypeOK, ServerTypeOK
    <2>2. Acked(c, x)
        BY <1>1, <2>1, EntryStep, Zenon DEF Inv
    <2> QED BY <1>1, <2>2, Zenon DEF AckOK
<1>2. Inv /\ AckOK /\ [Next]_vars => [Forgotten]_vars
    BY <1>1, Zenon
<1> QED BY <1>2, Acknowledged, PTL DEF Spec, ForgetsOnlyWhatIsOver

-----------------------------------------------------------------------------
(* What a successful call returns.                                         *)

\* v is what one of the executions of the call has returned, unless the call is a bind.
Answers(c, x, v) == pc[c][x] # "none" /\ (hdr[c][x].proc = "op" => v <= execs[c][x])

\* The replies that the server keeps and that its threads have in hand answer their
\* calls; and those in flight do, as long as no freed buffer was sent.  A call that
\* has its answer has that of its first execution.
AnswerOK ==
    /\ \A c \in Clients, x \in Xids :
          /\ reply_window_[c][x].st = "present" => Answers(c, x, reply_window_[c][x].val)
          /\ result[c][x].done => pc[c][x] # "none"
    /\ \A w \in Workers :
          wpc[w] \in {"add", "pick", "send", "senddone", "sendfreed"} /\ wrep[w].ret = "ok" =>
              Answers(wjob[w].clt, wjob[w].hdr.xid, wrep[w].val)
    /\ ~wild =>
          /\ \A r \in reps : r.ret = "ok" => Answers(r.clt, r.xid, r.val)
          /\ \A c \in Clients, x \in Xids :
                result[c][x].done /\ result[c][x].ret = "ok" /\ hdr[c][x].proc = "op" =>
                    result[c][x].val = 1 /\ execs[c][x] >= 1

\* Executions are only added, and a header is never changed: an answer stays one.
LEMMA AnswersStep ==
    ASSUME TypeOK, FreshOK, Next, NEW c \in Clients, NEW x \in Xids, NEW v \in Nat, Answers(c, x, v)
    PROVE  pc'[c][x] # "none" /\ (hdr'[c][x].proc = "op" => v <= execs'[c][x])
<1>1. pc'[c][x] # "none" /\ hdr'[c][x] = hdr[c][x]
    BY HeaderStep, Zenon DEF Answers
<1>2. execs'[c][x] = execs[c][x] \/ execs'[c][x] = execs[c][x] + 1
    BY ExecsStep, Zenon
<1>3. execs[c][x] \in Nat
    BY DEF TypeOK, ServerTypeOK
<1>4. hdr[c][x].proc = "op" => v <= execs[c][x]
    BY Zenon DEF Answers
<1>5. v <= execs[c][x] => v <= execs'[c][x]
    BY <1>2, <1>3
<1> QED BY <1>1, <1>4, <1>5, Zenon

\* A reply that the server stores was in the hand of the worker that stores it.
LEMMA StoredStep ==
    ASSUME TypeOK, Next, NEW c \in Clients, NEW x \in Xids, reply_window_'[c][x].st = "present"
    PROVE  \/ reply_window_'[c][x] = reply_window_[c][x]
           \/ \E w \in Workers : /\ wpc[w] = "add" /\ wjob[w].clt = c /\ wjob[w].hdr.xid = x
                                 /\ reply_window_'[c][x].val = wrep[w].val
<1> USE DEF TypeOK
<1>1. ASSUME NEW w \in Workers, CheckDuplicate(w)
      PROVE  reply_window_'[c][x] = reply_window_[c][x]
    <2> DEFINE d == wjob[w].clt
    <2>1. d \in Clients /\ wjob[w].hdr \in Headers
        BY <1>1, JobLemma, Zenon DEF CheckDuplicate
    <2>2. reply_window_[d] \in [Xids -> Entries]
        BY <2>1, Zenon DEF ServerTypeOK
    <2>3. reply_window_'[c] = IF c = d THEN Checked(reply_window_[d], wjob[w].hdr)
                              ELSE reply_window_[c]
        BY <1>1, Zenon DEF CheckDuplicate, ServerTypeOK
    <2>4. \A y \in Xids : Checked(reply_window_[d], wjob[w].hdr)[y].st = "present" =>
              Checked(reply_window_[d], wjob[w].hdr)[y] = reply_window_[d][y]
        BY <2>1, <2>2, CheckedLemma, Zenon
    <2> QED BY <2>3, <2>4, Zenon
<1>2. ASSUME NEW w \in Workers, AddReply(w)
      PROVE  \/ reply_window_'[c][x] = reply_window_[c][x]
             \/ /\ wpc[w] = "add" /\ wjob[w].clt = c /\ wjob[w].hdr.xid = x
                /\ reply_window_'[c][x].val = wrep[w].val
    <2>1. wjob[w].clt \in Clients /\ wjob[w].hdr.xid \in Xids /\ wpc[w] = "add"
        BY <1>2, JobLemma, Zenon DEF AddReply
    <2>2. reply_window_[c] \in [Xids -> Entries]
        BY Zenon DEF ServerTypeOK
    <2>3. reply_window_'[c] = IF c = wjob[w].clt
                              THEN Answered(reply_window_[c], wjob[w].hdr.xid, wrep[w].val)
                              ELSE reply_window_[c]
        BY <1>2, Zenon DEF AddReply, ServerTypeOK
    <2> HIDE DEF TypeOK
    <2> QED BY <2>1, <2>2, <2>3, SMTT(20) DEF Answered
<1>3. ~Restart
    <2>1. Restart => reply_window_'[c][x] = Absent
        BY NoRepliesEntry, Zenon DEF Restart
    <2>2. Absent.st # "present"
        BY Zenon DEF Absent
    <2> QED BY <2>1, <2>2, Zenon
<1>4. ASSUME NEW w \in Workers, WorkerStep(w), ~CheckDuplicate(w), ~AddReply(w)
      PROVE  reply_window_' = reply_window_
    BY <1>4, Zenon DEF WorkerStep, TakeJob, SendOldsrv, LookupProc, SaveConn, RunHandler,
                PickConn, SendReply, SendFreed
<1>5. CASE \E w \in Workers : WorkerStep(w)
    BY <1>1, <1>2, <1>4, <1>5, Zenon
<1>6. CASE reply_window_' = reply_window_
    BY <1>6, Zenon
<1> QED BY <1>3, <1>5, <1>6, Zenon DEF Next, serverVars, Accept, GotRequest, Register

\* A reply in a worker's hand was there before, or the worker has just got it from the
\* handler or from the window.
LEMMA InHandStep ==
    ASSUME TypeOK, Next, NEW w \in Workers,
           wpc'[w] \in {"add", "pick", "send", "senddone", "sendfreed"}, wrep'[w].ret = "ok"
    PROVE  /\ wpc[w] # "idle" /\ wjob'[w].clt = wjob[w].clt /\ wjob'[w].hdr = wjob[w].hdr
           /\ \/ /\ wpc[w] \in {"add", "pick", "send", "senddone", "sendfreed"}
                 /\ wrep'[w] = wrep[w]
              \/ RunHandler(w)
              \/ /\ reply_window_[wjob[w].clt][wjob[w].hdr.xid].st = "present"
                 /\ wrep'[w].val = reply_window_[wjob[w].clt][wjob[w].hdr.xid].val
<1>1. wpc'[w] \notin {"idle", "oldsrv", "lookup"}
    OBVIOUS
<1>2. wpc[w] # "idle" /\ wjob'[w].clt = wjob[w].clt /\ wjob'[w].hdr = wjob[w].hdr
    BY <1>1, WorkerJobStep, Zenon
<1>3. CASE CheckDuplicate(w)
    <2> DEFINE c == wjob[w].clt
               h == wjob[w].hdr
    <2>1. /\ wpc'[w] = AfterCheck(Status(reply_window_[c], h))
          /\ wrep'[w] = IF Status(reply_window_[c], h) = "DONE"
                        THEN [ret |-> "ok", val |-> reply_window_[c][h.xid].val]
                        ELSE IF Status(reply_window_[c], h) = "FORGOTTEN" THEN [ret |-> "forgotten", val |-> 0]
                        ELSE NoReply
        BY <1>3, Zenon DEF CheckDuplicate, TypeOK, ServerTypeOK
    <2> HIDE DEF c, h
    <2>2. Status(reply_window_[c], h) = "DONE"
        <3>1. Status(reply_window_[c], h) # "FORGOTTEN"
            BY <2>1
        <3>2. AfterCheck(Status(reply_window_[c], h)) \notin {"run", "idle"}
            BY <2>1
        <3> QED BY <3>1, <3>2, Zenon DEF AfterCheck
    <2>3. reply_window_[c][h.xid].st = "present"
        BY <2>2, Zenon DEF Status
    <2>4. wrep'[w].val = reply_window_[c][h.xid].val
        BY <2>1, <2>2
    <2> QED BY <1>2, <2>3, <2>4, Zenon DEF c, h
<1>4. CASE AddReply(w)
    BY <1>2, <1>4, Zenon DEF AddReply
<1> QED BY <1>2, <1>3, <1>4, WorkerPcStep, Zenon

\* got_pdu gives its answer to a call that is not over, of which there was at most one
\* execution; and nothing else ends a call with a value.
LEMMA ResultStep ==
    ASSUME TypeOK, Next, NEW c \in Clients, NEW x \in Xids
    PROVE  \/ result'[c][x] = result[c][x]
           \/ /\ InCalls(c, x) /\ ~result[c][x].done
              /\ UNCHANGED <<pc, hdr, serverVars>>
              /\ \E r \in reps : r.clt = c /\ r.xid = x /\ r.ret = result'[c][x].ret /\ r.val = result'[c][x].val
<1>1. ASSUME NEW r \in reps, GotReply(r), UNCHANGED serverVars
      PROVE  \/ result'[c][x] = result[c][x]
             \/ /\ InCalls(c, x) /\ ~result[c][x].done /\ r.clt = c /\ r.xid = x
                /\ UNCHANGED <<pc, hdr, serverVars>>
                /\ r.ret = result'[c][x].ret /\ r.val = result'[c][x].val
    <2>1. r.clt \in Clients /\ r.xid \in Xids /\ result \in [Clients -> [Xids -> [done : BOOLEAN, ret : Rets, val : Nat]]]
        BY Zenon DEF TypeOK, WireTypeOK, Replies, ClientTypeOK
    <2>2. CASE c = r.clt /\ x = r.xid /\ InCalls(c, x) /\ ~result[c][x].done
        <3>1. result' = [result EXCEPT ![c][x] = [done |-> TRUE, ret |-> r.ret, val |-> r.val]]
            BY <1>1, <2>2, Zenon DEF GotReply
        <3>2. result'[c][x] = [done |-> TRUE, ret |-> r.ret, val |-> r.val]
            BY <2>1, <3>1, Zenon
        <3>3. r.ret = result'[c][x].ret /\ r.val = result'[c][x].val
            BY <3>2
        <3> QED BY <1>1, <2>2, <3>3, Zenon DEF GotReply
    <2>3. CASE ~(c = r.clt /\ x = r.xid /\ InCalls(c, x) /\ ~result[c][x].done)
        <3>1. result'[c][x] = result[c][x]
            BY <1>1, <2>1, <2>3, Zenon DEF GotReply
        <3> QED BY <3>1
    <2> QED BY <2>2, <2>3, Zenon
<1>2. ASSUME NEW d, NEW y, ClientStep(d, y) \/ StartCall(d, y) PROVE result' = result
    BY <1>2, Zenon DEF StartCall, ClientStep, GetRefconn, SendRequest, TimeOut, NextRound, FinishCall
<1>3. CASE result' = result
    BY <1>3, Zenon
<1> QED BY <1>1, <1>2, <1>3, Zenon DEF Next, clientVars

\* No step has a call end with what is not its answer.
LEMMA AnswerStep ==
    ASSUME Inv, AckOK, AnswerOK, Next
    PROVE  AnswerOK'
<1>0. TypeOK /\ FreshOK /\ CopiesOK /\ OnceOK /\ ValueOK
    BY Zenon DEF Inv
<1>1. ASSUME NEW c \in Clients, NEW x \in Xids, reply_window_'[c][x].st = "present"
      PROVE  Answers(c, x, reply_window_[c][x].val)'
    <2>1. PICK v \in Nat : v = reply_window_'[c][x].val /\ Answers(c, x, v)
        <3>1. CASE reply_window_'[c][x] = reply_window_[c][x]
            <4>1. reply_window_[c][x].val \in Nat
                BY <1>0 DEF TypeOK, ServerTypeOK, Entries
            <4> QED BY <1>1, <3>1, <4>1, Zenon DEF AnswerOK
        <3>2. ASSUME NEW w \in Workers, wpc[w] = "add", wjob[w].clt = c, wjob[w].hdr.xid = x,
                     reply_window_'[c][x].val = wrep[w].val
              PROVE  \E v \in Nat : v = reply_window_'[c][x].val /\ Answers(c, x, v)
            <4>1. wrep[w].val \in Nat /\ wrep[w].ret = "ok"
                BY <1>0, <3>2 DEF TypeOK, ServerTypeOK, ValueOK
            <4> QED BY <3>2, <4>1, Zenon DEF AnswerOK
        <3>3. \/ reply_window_'[c][x] = reply_window_[c][x]
              \/ \E w \in Workers : /\ wpc[w] = "add" /\ wjob[w].clt = c /\ wjob[w].hdr.xid = x
                                    /\ reply_window_'[c][x].val = wrep[w].val
            BY <1>0, <1>1, StoredStep, ZenonT(40)
        <3> QED BY <3>1, <3>2, <3>3, Zenon
    <2> QED BY <1>0, <2>1, AnswersStep, Zenon DEF Answers
<1>2. ASSUME NEW c \in Clients, NEW x \in Xids, result'[c][x].done PROVE pc'[c][x] # "none"
    <2>1. pc[c][x] # "none"
        <3>1. CASE result'[c][x] = result[c][x]
            BY <1>2, <3>1, Zenon DEF AnswerOK
        <3>2. CASE InCalls(c, x)
            BY <3>2 DEF InCalls
        <3> QED BY <1>0, <3>1, <3>2, ResultStep, Zenon
    <2> QED BY <1>0, <2>1, HeaderStep, Zenon
<1>3. ASSUME NEW w \in Workers, wpc'[w] \in {"add", "pick", "send", "senddone", "sendfreed"},
             wrep'[w].ret = "ok"
      PROVE  Answers(wjob[w].clt, wjob[w].hdr.xid, wrep[w].val)'
    <2>1. PICK c \in Clients : c = wjob[w].clt /\ c = wjob'[w].clt
        BY <1>0, <1>3, InHandStep, JobLemma, Zenon
    <2>2. PICK x \in Xids : x = wjob[w].hdr.xid /\ x = wjob'[w].hdr.xid
        BY <1>0, <1>3, InHandStep, JobLemma, Zenon
    <2>3. CASE RunHandler(w)
        <3>1. /\ execs' = [execs EXCEPT ![c][x] = execs[c][x] + 1]
              /\ wrep'[w].val = IF wjob[w].hdr.proc = "bind" THEN nonce_ ELSE execs[c][x] + 1
              /\ execs[c][x] \in Nat
            BY <1>0, <2>1, <2>2, <2>3 DEF RunHandler, TypeOK, ServerTypeOK
        <3>2. execs'[c][x] = execs[c][x] + 1
            BY <1>0, <3>1, Zenon DEF TypeOK, ServerTypeOK
        <3>3. pc[c][x] # "none" /\ wjob[w].hdr = hdr[c][x] /\ wpc[w] # "idle"
            BY <1>0, <2>1, <2>2, <2>3, Zenon DEF RunHandler, CopiesOK, IsCopy
        <3>4. pc'[c][x] # "none" /\ hdr'[c][x] = hdr[c][x]
            BY <1>0, <3>3, HeaderStep, Zenon
        <3>5. hdr'[c][x].proc = "op" => wrep'[w].val <= execs'[c][x]
            BY <3>1, <3>2, <3>3, <3>4
        <3> QED BY <2>1, <2>2, <3>4, <3>5, Zenon DEF Answers
    <2>4. CASE ~RunHandler(w)
        <3>1. PICK v \in Nat : v = wrep'[w].val /\ Answers(c, x, v)
            <4>1. wrep[w].val \in Nat /\ reply_window_[c][x].val \in Nat
                BY <1>0 DEF TypeOK, ServerTypeOK, Entries
            <4>2. \/ wrep'[w] = wrep[w] /\ Answers(c, x, wrep[w].val)
                  \/ wrep'[w].val = reply_window_[c][x].val /\ Answers(c, x, reply_window_[c][x].val)
                BY <1>0, <1>3, <2>1, <2>2, <2>4, InHandStep, ZenonT(40) DEF AnswerOK
            <4> QED BY <4>1, <4>2, Zenon
        <3> QED BY <1>0, <2>1, <2>2, <3>1, AnswersStep, Zenon DEF Answers
    <2> QED BY <2>3, <2>4
<1>4. ASSUME ~wild', NEW r \in reps', r.ret = "ok" PROVE Answers(r.clt, r.xid, r.val)'
    <2>1. r \in Replies
        BY <1>4, WireTypeStep, Zenon DEF Inv, WireTypeOK
    <2>2. r.clt \in Clients /\ r.xid \in Xids /\ r.val \in Nat /\ ~wild
        BY <1>4, <2>1, WildStep, Zenon DEF Replies
    <2>3. Answers(r.clt, r.xid, r.val)
        <3>1. CASE r \in reps
            BY <1>4, <2>2, <3>1, Zenon DEF AnswerOK
        <3>2. ASSUME NEW w \in Workers, r.clt = wjob[w].clt, r.xid = wjob[w].hdr.xid,
                     wpc[w] \in {"send", "senddone"}, wrep[w].ret = "ok", r.val = wrep[w].val
              PROVE  Answers(r.clt, r.xid, r.val)
            BY <3>2, Zenon DEF AnswerOK
        <3> QED BY <1>0, <1>4, <3>1, <3>2, ReplyStep, Zenon
    <2> QED BY <1>0, <2>2, <2>3, AnswersStep, Zenon DEF Answers
<1>5. ASSUME ~wild', NEW c \in Clients, NEW x \in Xids,
             result'[c][x].done, result'[c][x].ret = "ok", hdr'[c][x].proc = "op"
      PROVE  result'[c][x].val = 1 /\ execs'[c][x] >= 1
    <2>1. ~wild /\ execs[c][x] \in Nat
        BY <1>0, <1>5, WildStep DEF TypeOK, ServerTypeOK
    <2>2. CASE result'[c][x] = result[c][x]
        <3>1. pc[c][x] # "none" /\ hdr'[c][x] = hdr[c][x]
            BY <1>0, <1>5, <2>2, HeaderStep, Zenon DEF AnswerOK
        <3>2. result'[c][x].val = 1 /\ execs[c][x] >= 1
            BY <1>5, <2>1, <2>2, <3>1, Zenon DEF AnswerOK
        <3>3. execs'[c][x] = execs[c][x] \/ execs'[c][x] = execs[c][x] + 1
            BY <1>0, ExecsStep, Zenon
        <3> QED BY <2>1, <3>2, <3>3
    <2>3. ASSUME InCalls(c, x), ~result[c][x].done, UNCHANGED <<pc, hdr, serverVars>>,
                 NEW r \in reps, r.clt = c, r.xid = x, r.ret = result'[c][x].ret, r.val = result'[c][x].val
          PROVE  result'[c][x].val = 1 /\ execs'[c][x] >= 1
        <3>1. ~Over(c, x) /\ ~Acked(c, x) /\ pc[c][x] # "none" /\ hdr[c][x].proc = "op"
            BY <1>5, <2>1, <2>3, Zenon DEF Over, InCalls, AckOK
        <3>2. execs[c][x] <= 1 /\ execs' = execs
            BY <1>0, <2>3, <3>1, Zenon DEF OnceOK, serverVars
        <3>3. r.val <= execs[c][x] /\ r.val > 0 /\ r.val \in Nat
            <4>1. r.val \in Nat
                BY <1>0 DEF TypeOK, WireTypeOK, Replies
            <4>2. r.ret = "ok"
                BY <1>5, <2>3, Zenon
            <4>3. r.val <= execs[c][x]
                BY <2>1, <2>3, <3>1, <4>2, Zenon DEF AnswerOK, Answers
            <4>4. r.val > 0
                BY <1>0, <4>2, Zenon DEF ValueOK
            <4> QED BY <4>1, <4>3, <4>4, Zenon
        <3> DEFINE n == execs[c][x]
                   v == result'[c][x].val
        <3>4. n \in Nat /\ v \in Nat /\ n <= 1 /\ v <= n /\ v > 0 /\ execs'[c][x] = n
            BY <2>1, <2>3, <3>2, <3>3, Zenon
        <3> HIDE DEF n, v
        <3>5. v = 1 /\ n >= 1
            BY <3>4
        <3> QED BY <3>4, <3>5, Zenon DEF v
    <2> QED BY <1>0, <2>2, <2>3, ResultStep, ZenonT(40)
<1> QED BY <1>1, <1>2, <1>3, <1>4, <1>5, Zenon DEF AnswerOK

\* AnswerOK is an invariant of the RPC library.
THEOREM AnswersKept == Spec => [](Inv /\ AckOK /\ AnswerOK)
<1>1. Init => AnswerOK
    <2> SUFFICES ASSUME Init PROVE AnswerOK
        OBVIOUS
    <2>1. /\ reps = {}
          /\ \A c \in Clients, x \in Xids : reply_window_[c][x] = Absent /\ result[c][x] = NoResult
          /\ \A w \in Workers : wpc[w] = "idle"
        BY Zenon DEF Init, WireInit, ClientInit, ServerInit, NoReplies
    <2>2. Absent.st # "present" /\ ~NoResult.done
        BY DEF Absent, NoResult
    <2>3. \A w \in Workers : wpc[w] \notin {"add", "pick", "send", "senddone", "sendfreed"}
        BY <2>1
    <2> QED BY <2>1, <2>2, <2>3, Zenon DEF AnswerOK
<1>2. Inv /\ AckOK /\ AnswerOK /\ [Next]_vars => AnswerOK'
    <2>1. ASSUME AnswerOK, UNCHANGED vars PROVE AnswerOK'
        <3>1. UNCHANGED <<reps, pc, hdr, result, reply_window_, wpc, wjob, wrep, execs, wild>>
            BY <2>1, Zenon DEF vars, wireVars, clientVars, serverVars
        <3> QED BY <2>1, <3>1, Zenon DEF AnswerOK, Answers
    <2> QED BY <2>1, AnswerStep, Zenon
<1> QED BY <1>1, <1>2, Acknowledged, PTL DEF Spec

(***************************************************************************)
(* What rpcc::call1 returns as a success is the value of the first         *)
(* execution of the call, however often it was sent.                       *)
(***************************************************************************)
THEOREM FirstExecution == Spec => []ReturnsFirstExecution
<1>1. AnswerOK => ReturnsFirstExecution
    BY Zenon DEF AnswerOK, ReturnsFirstExecution
<1> QED BY <1>1, AnswersKept, PTL

-----------------------------------------------------------------------------
(* The refinement of RpcPromise.                                           *)

\* A step that changes one call, in one of the ways that RpcPromise allows.
LEMMA PromiseMove ==
    ASSUME NEW i \in Clients \X Xids,
           \A j \in Clients \X Xids :
              j # i => PromisedState(j)' = PromisedState(j) /\ PromisedRuns(j)' = PromisedRuns(j),
           \/ PromisedState(i)' = PromisedState(i) /\ PromisedRuns(i)' = PromisedRuns(i)
           \/ /\ PromisedState(i) = "idle" /\ PromisedState(i)' = "pending"
              /\ PromisedRuns(i)' = PromisedRuns(i)
           \/ /\ PromisedState(i) = "pending" /\ PromisedState(i)' = "pending"
              /\ PromisedRuns(i) = 0 /\ PromisedRuns(i)' = 1
           \/ /\ PromisedState(i) = "pending" /\ PromisedState(i)' = "ok"
              /\ PromisedRuns(i) = 1 /\ PromisedRuns(i)' = 1
           \/ /\ PromisedState(i) = "pending" /\ PromisedState(i)' = "failed"
              /\ PromisedRuns(i)' = PromisedRuns(i)
           \/ /\ PromisedState(i) \in {"ok", "failed"} /\ PromisedState(i)' = PromisedState(i)
              /\ PromisedRuns(i)' = PromisedRuns(i) + 1
    PROVE  Promise!PromiseNext \/ UNCHANGED Promise!promiseVars
<1> DEFINE S == [j \in Clients \X Xids |-> PromisedState(j)]
           R == [j \in Clients \X Xids |-> PromisedRuns(j)]
<1>1. S[i] = PromisedState(i) /\ R[i] = PromisedRuns(i)
    BY Zenon
<1>2. S' = [S EXCEPT ![i] = PromisedState(i)'] /\ R' = [R EXCEPT ![i] = PromisedRuns(i)']
    BY Zenon
<1>3. PromisedState(i)' = PromisedState(i) => S' = S
    BY Zenon
<1>4. PromisedRuns(i)' = PromisedRuns(i) => R' = R
    BY Zenon
<1>5. Promise!promiseVars = <<S, R>> /\ Promise!promiseVars' = <<S', R'>>
    BY DEF Promise!promiseVars
<1>6. CASE PromisedState(i)' = PromisedState(i) /\ PromisedRuns(i)' = PromisedRuns(i)
    BY <1>3, <1>4, <1>5, <1>6, Zenon
<1>7. CASE PromisedState(i) = "idle" /\ PromisedState(i)' = "pending" /\ PromisedRuns(i)' = PromisedRuns(i)
    <2>1. Promise!Invoke(i)
        BY <1>1, <1>2, <1>4, <1>7, Zenon DEF Promise!Invoke
    <2> QED BY <2>1, Zenon DEF Promise!PromiseNext
<1>8. CASE PromisedState(i) = "pending" /\ PromisedState(i)' = "pending" /\ PromisedRuns(i) = 0 /\ PromisedRuns(i)' = 1
    <2>1. Promise!Run(i)
        BY <1>1, <1>2, <1>3, <1>8, Zenon DEF Promise!Run
    <2> QED BY <2>1, Zenon DEF Promise!PromiseNext
<1>9. CASE PromisedState(i) = "pending" /\ PromisedState(i)' = "ok" /\ PromisedRuns(i) = 1 /\ PromisedRuns(i)' = 1
    <2>1. Promise!Succeed(i)
        BY <1>1, <1>2, <1>4, <1>9, Zenon DEF Promise!Succeed
    <2> QED BY <2>1, Zenon DEF Promise!PromiseNext
<1>10. CASE PromisedState(i) = "pending" /\ PromisedState(i)' = "failed" /\ PromisedRuns(i)' = PromisedRuns(i)
    <2>1. Promise!Fail(i)
        BY <1>1, <1>2, <1>4, <1>10, Zenon DEF Promise!Fail
    <2> QED BY <2>1, Zenon DEF Promise!PromiseNext
<1>11. CASE /\ PromisedState(i) \in {"ok", "failed"} /\ PromisedState(i)' = PromisedState(i)
            /\ PromisedRuns(i)' = PromisedRuns(i) + 1
    <2>1. Promise!RunLate(i)
        BY <1>1, <1>2, <1>3, <1>11, Zenon DEF Promise!RunLate
    <2> QED BY <2>1, Zenon DEF Promise!PromiseNext
<1> QED BY <1>6, <1>7, <1>8, <1>9, <1>10, <1>11, Zenon

\* What RpcPromise sees of a call, from the client's and from the server's side.
LEMMA PromisedValues ==
    ASSUME NEW c \in Clients, NEW x \in Xids
    PROVE  /\ PromisedState(<<c, x>>) = IF hdr[c][x].proc = "op" /\ pc[c][x] # "none"
                                        THEN IF ~Over(c, x) THEN "pending"
                                             ELSE IF result[c][x].done /\ result[c][x].ret = "ok" THEN "ok"
                                             ELSE "failed"
                                        ELSE "idle"
           /\ PromisedRuns(<<c, x>>) = IF hdr[c][x].proc = "op" /\ pc[c][x] # "none" THEN execs[c][x] ELSE 0
           /\ PromisedState(<<c, x>>)' = IF hdr'[c][x].proc = "op" /\ pc'[c][x] # "none"
                                         THEN IF ~Over(c, x)' THEN "pending"
                                              ELSE IF result'[c][x].done /\ result'[c][x].ret = "ok" THEN "ok"
                                              ELSE "failed"
                                         ELSE "idle"
           /\ PromisedRuns(<<c, x>>)' = IF hdr'[c][x].proc = "op" /\ pc'[c][x] # "none" THEN execs'[c][x] ELSE 0
<1>1. <<c, x>>[1] = c /\ <<c, x>>[2] = x
    OBVIOUS
<1> QED BY <1>1, Zenon DEF PromisedState, PromisedRuns, IsOp

\* A call that a step does not touch looks to RpcPromise as before.
LEMMA PromisedStays ==
    ASSUME NEW c \in Clients, NEW x \in Xids,
           pc'[c][x] = "none" <=> pc[c][x] = "none",
           pc'[c][x] = "returned" <=> pc[c][x] = "returned",
           hdr'[c][x] = hdr[c][x], result'[c][x] = result[c][x], execs'[c][x] = execs[c][x]
    PROVE  PromisedState(<<c, x>>)' = PromisedState(<<c, x>>) /\ PromisedRuns(<<c, x>>)' = PromisedRuns(<<c, x>>)
<1>1. Over(c, x)' <=> Over(c, x)
    BY Zenon DEF Over
<1> QED BY <1>1, PromisedValues, ZenonT(40)

\* A step that touches one call at most, and that one as RpcPromise allows.
LEMMA PromiseMoveAt ==
    ASSUME NEW c \in Clients, NEW x \in Xids,
           \A d \in Clients, y \in Xids : d # c \/ y # x =>
              /\ pc'[d][y] = pc[d][y] /\ hdr'[d][y] = hdr[d][y]
              /\ result'[d][y] = result[d][y] /\ execs'[d][y] = execs[d][y],
           NEW i, i = <<c, x>>,
           \/ PromisedState(i)' = PromisedState(i) /\ PromisedRuns(i)' = PromisedRuns(i)
           \/ /\ PromisedState(i) = "idle" /\ PromisedState(i)' = "pending"
              /\ PromisedRuns(i)' = PromisedRuns(i)
           \/ /\ PromisedState(i) = "pending" /\ PromisedState(i)' = "pending"
              /\ PromisedRuns(i) = 0 /\ PromisedRuns(i)' = 1
           \/ /\ PromisedState(i) = "pending" /\ PromisedState(i)' = "ok"
              /\ PromisedRuns(i) = 1 /\ PromisedRuns(i)' = 1
           \/ /\ PromisedState(i) = "pending" /\ PromisedState(i)' = "failed"
              /\ PromisedRuns(i)' = PromisedRuns(i)
           \/ /\ PromisedState(i) \in {"ok", "failed"} /\ PromisedState(i)' = PromisedState(i)
              /\ PromisedRuns(i)' = PromisedRuns(i) + 1
    PROVE  Promise!PromiseNext \/ UNCHANGED Promise!promiseVars
<1>1. ASSUME NEW j \in Clients \X Xids, j # i
      PROVE  PromisedState(j)' = PromisedState(j) /\ PromisedRuns(j)' = PromisedRuns(j)
    <2>1. PICK d \in Clients, y \in Xids : j = <<d, y>>
        OBVIOUS
    <2>2. d # c \/ y # x
        BY <1>1, <2>1, Zenon
    <2>3. /\ pc'[d][y] = pc[d][y] /\ hdr'[d][y] = hdr[d][y]
          /\ result'[d][y] = result[d][y] /\ execs'[d][y] = execs[d][y]
        BY <2>2, Zenon
    <2> QED BY <2>1, <2>3, PromisedStays, Zenon
<1>2. i \in Clients \X Xids
    OBVIOUS
<1> QED BY <1>1, <1>2, PromiseMove, Zenon

\* Every step of the library is a step of RpcPromise for one call, or none.
LEMMA PromiseStep ==
    ASSUME Inv, AckOK, AnswerOK, Next, ~wild'
    PROVE  Promise!PromiseNext \/ UNCHANGED Promise!promiseVars
<1> DEFINE Goal == Promise!PromiseNext \/ UNCHANGED Promise!promiseVars
<1>0. TypeOK /\ FreshOK /\ CopiesOK /\ OnceOK /\ ~wild
    BY WildStep, Zenon DEF Inv
<1>2. ASSUME NEW c \in Clients, NEW proc \in Procs, StartCall(c, proc), UNCHANGED serverVars
      PROVE  Goal
    <2> HIDE DEF Goal
    <2>1. PICK x \in Xids : x = xid_[c] /\ pc[c][x] = "none" /\ execs[c][x] = 0
        <3>1. xid_[c] \in 1 .. MaxXid + 1 /\ xid_[c] <= MaxXid
            BY <1>0, <1>2, Zenon DEF StartCall, TypeOK, ClientTypeOK
        <3>2. xid_[c] \in Xids /\ xid_[c] >= xid_[c]
            BY <3>1, WireAssumption DEF Xids
        <3> QED BY <1>0, <3>2, Zenon DEF FreshOK
    <2>2. /\ pc' = [pc EXCEPT ![c][x] = "connect"]
          /\ hdr' = [hdr EXCEPT ![c][x] = [xid |-> x, proc |-> proc, srv_nonce |-> srv_nonce_[c],
                                           xid_rep |-> xid_rep_window_[c].front]]
          /\ result' = result /\ execs' = execs
        BY <1>2, <2>1, Zenon DEF StartCall, serverVars
    <2>3. \A d \in Clients, y \in Xids : d # c \/ y # x =>
              /\ pc'[d][y] = pc[d][y] /\ hdr'[d][y] = hdr[d][y]
              /\ result'[d][y] = result[d][y] /\ execs'[d][y] = execs[d][y]
        BY <1>0, <2>2, Zenon DEF TypeOK, ClientTypeOK
    <2>4. pc'[c][x] = "connect" /\ hdr'[c][x].proc = proc
        BY <1>0, <2>2, Zenon DEF TypeOK, ClientTypeOK
    <2>5. ~Over(c, x)'
        <3>1. ~result[c][x].done
            BY <2>1, Zenon DEF AnswerOK
        <3> QED BY <2>2, <2>4, <3>1 DEF Over
    <2>6. PICK i : i = <<c, x>>
        OBVIOUS
    <2>7. PromisedState(i) = "idle" /\ PromisedRuns(i) = 0 /\ PromisedRuns(i)' = 0
        BY <2>1, <2>2, <2>6, PromisedValues, Zenon
    <2>8. PromisedState(i)' = "idle" \/ PromisedState(i)' = "pending"
        BY <2>5, <2>6, PromisedValues, Zenon
    <2>9. /\ PromisedState(i)' = PromisedState(i) \/ (PromisedState(i) = "idle" /\ PromisedState(i)' = "pending")
          /\ PromisedRuns(i)' = PromisedRuns(i)
        BY <2>7, <2>8, Zenon
    <2> QED BY <2>3, <2>6, <2>9, PromiseMoveAt, Zenon DEF Goal
<1>3. ASSUME NEW c \in Clients, NEW x \in Xids, ClientStep(c, x), UNCHANGED serverVars
      PROVE  Goal
    <2> HIDE DEF Goal
    <2>1. hdr' = hdr /\ result' = result /\ execs' = execs
        BY <1>3, Zenon DEF ClientStep, GetRefconn, SendRequest, TimeOut, NextRound, FinishCall, serverVars
    <2>2. PICK p \in {"send", "wait", "timedout", "connect", "leave", "returned"} :
              pc' = [pc EXCEPT ![c][x] = p] /\ pc[c][x] \notin {"none", "returned"}
        BY <1>3, Zenon DEF ClientStep, GetRefconn, SendRequest, TimeOut, NextRound, FinishCall, AfterSend
    <2>3. pc'[c][x] = p /\ \A d \in Clients, y \in Xids : d # c \/ y # x => pc'[d][y] = pc[d][y]
        BY <1>0, <2>2, Zenon DEF TypeOK, ClientTypeOK
    <2>4. PICK i : i = <<c, x>>
        OBVIOUS
    <2>5. pc[c][x] # "none" /\ pc'[c][x] # "none" /\ PromisedRuns(i)' = PromisedRuns(i)
        <3>1. pc[c][x] # "none" /\ pc'[c][x] # "none"
            BY <2>2, <2>3
        <3> QED BY <2>1, <2>4, <3>1, PromisedValues, Zenon
    <2>6. CASE Over(c, x) \/ p # "returned"
        <3>1. Over(c, x)' <=> Over(c, x)
            BY <2>1, <2>2, <2>3, <2>6 DEF Over
        <3>2. PromisedState(i)' = PromisedState(i)
            BY <2>1, <2>4, <2>5, <3>1, PromisedValues, Zenon
        <3> QED BY <2>1, <2>3, <2>4, <2>5, <3>2, PromiseMoveAt, Zenon DEF Goal
    <2>7. CASE ~Over(c, x) /\ p = "returned"
        <3>1. Over(c, x)' /\ ~result'[c][x].done
            BY <2>1, <2>3, <2>7, Zenon DEF Over
        <3>2. PromisedState(i)' = PromisedState(i) \/ (PromisedState(i) = "pending" /\ PromisedState(i)' = "failed")
            BY <2>1, <2>4, <2>5, <2>7, <3>1, PromisedValues, Zenon
        <3> QED BY <2>1, <2>3, <2>4, <2>5, <3>2, PromiseMoveAt, Zenon DEF Goal
    <2> QED BY <2>6, <2>7, Zenon
<1>4. ASSUME NEW r \in reps, GotReply(r), UNCHANGED serverVars
      PROVE  Goal
    <2> HIDE DEF Goal
    <2>1. PICK c \in Clients, x \in Xids : c = r.clt /\ x = r.xid
        BY <1>0, Zenon DEF TypeOK, WireTypeOK, Replies
    <2>2. pc' = pc /\ hdr' = hdr /\ execs' = execs
        BY <1>4, Zenon DEF GotReply, serverVars
    <2>3. result' = IF InCalls(c, x) /\ ~result[c][x].done
                    THEN [result EXCEPT ![c][x] = [done |-> TRUE, ret |-> r.ret, val |-> r.val]]
                    ELSE result
        BY <1>4, <2>1, Zenon DEF GotReply
    <2>4. \A d \in Clients, y \in Xids : d # c \/ y # x => result'[d][y] = result[d][y]
        BY <1>0, <2>3, Zenon DEF TypeOK, ClientTypeOK
    <2>5. PICK i : i = <<c, x>>
        OBVIOUS
    <2>6. PromisedRuns(i)' = PromisedRuns(i)
        BY <2>2, <2>5, PromisedValues, Zenon
    <2>7. CASE ~(InCalls(c, x) /\ ~result[c][x].done) \/ hdr[c][x].proc # "op"
        <3>1. PromisedState(i)' = PromisedState(i)
            <4>1. CASE ~(InCalls(c, x) /\ ~result[c][x].done)
                BY <2>2, <2>3, <2>5, <4>1, PromisedStays, Zenon
            <4>2. CASE hdr[c][x].proc # "op"
                BY <2>2, <2>5, <4>2, PromisedValues, Zenon
            <4> QED BY <2>7, <4>1, <4>2, Zenon
        <3> QED BY <2>2, <2>4, <2>5, <2>6, <3>1, PromiseMoveAt, Zenon DEF Goal
    <2>8. CASE InCalls(c, x) /\ ~result[c][x].done /\ hdr[c][x].proc = "op"
        <3>1. result'[c][x].done /\ result'[c][x].ret = r.ret
            BY <1>0, <2>3, <2>8, Zenon DEF TypeOK, ClientTypeOK
        <3>2. ~Over(c, x) /\ Over(c, x)' /\ pc[c][x] # "none"
            BY <2>8, <3>1 DEF Over, InCalls
        <3>3. PromisedState(i) = "pending"
            BY <2>5, <2>8, <3>2, PromisedValues, Zenon
        <3>4. CASE r.ret # "ok"
            <4>1. PromisedState(i)' = "failed"
                BY <2>2, <2>5, <2>8, <3>1, <3>2, <3>4, PromisedValues, Zenon
            <4> QED BY <2>2, <2>4, <2>5, <2>6, <3>3, <4>1, PromiseMoveAt, Zenon DEF Goal
        <3>5. CASE r.ret = "ok"
            <4>1. PromisedState(i)' = "ok"
                BY <2>2, <2>5, <2>8, <3>1, <3>2, <3>5, PromisedValues, ZenonT(40)
            <4>2. execs[c][x] = 1
                <5>1. ~Acked(c, x)
                    BY <1>0, <3>2, Zenon DEF AckOK
                <5>2. execs[c][x] <= 1
                    BY <1>0, <2>8, <3>2, <5>1, Zenon DEF OnceOK
                <5>3. r.val <= execs[c][x] /\ r.val > 0
                    BY <1>0, <2>1, <2>8, <3>5, Zenon DEF AnswerOK, Answers, Inv, ValueOK
                <5>4. r.val \in Nat /\ execs[c][x] \in Nat
                    BY <1>0 DEF TypeOK, WireTypeOK, Replies, ServerTypeOK
                <5> QED BY <5>2, <5>3, <5>4
            <4>3. PromisedRuns(i) = 1
                BY <2>5, <2>8, <3>2, <4>2, PromisedValues, Zenon
            <4> QED BY <2>2, <2>4, <2>5, <2>6, <3>3, <4>1, <4>3, PromiseMoveAt, Zenon DEF Goal
        <3> QED BY <3>4, <3>5, Zenon
    <2> QED BY <2>7, <2>8, Zenon
<1>5. ASSUME NEW w \in Workers, RunHandler(w), UNCHANGED clientVars
      PROVE  Goal
    <2> HIDE DEF Goal
    <2>1. PICK c \in Clients, x \in Xids : c = wjob[w].clt /\ x = wjob[w].hdr.xid
        BY <1>0, <1>5, JobLemma, Zenon DEF RunHandler
    <2>2. pc' = pc /\ hdr' = hdr /\ result' = result /\ execs' = [execs EXCEPT ![c][x] = execs[c][x] + 1]
        BY <1>5, <2>1, Zenon DEF RunHandler, clientVars
    <2>3. /\ execs'[c][x] = execs[c][x] + 1
          /\ \A d \in Clients, y \in Xids : d # c \/ y # x => execs'[d][y] = execs[d][y]
        BY <1>0, <2>2, Zenon DEF TypeOK, ServerTypeOK
    <2>4. PICK i : i = <<c, x>>
        OBVIOUS
    <2>5. pc[c][x] # "none" /\ (Over(c, x)' <=> Over(c, x))
        BY <1>0, <1>5, <2>1, <2>2, Zenon DEF RunHandler, CopiesOK, IsCopy, Over
    <2>6. PromisedState(i)' = PromisedState(i)
        BY <2>2, <2>4, <2>5, PromisedValues, ZenonT(40)
    <2>7. CASE hdr[c][x].proc # "op"
        <3>1. PromisedRuns(i)' = PromisedRuns(i)
            <4>1. ~(hdr[c][x].proc = "op" /\ pc[c][x] # "none") /\ ~(hdr'[c][x].proc = "op" /\ pc'[c][x] # "none")
                BY <2>2, <2>7, Zenon
            <4>2. PromisedRuns(<<c, x>>) = 0 /\ PromisedRuns(<<c, x>>)' = 0
                BY <4>1, PromisedValues, Zenon
            <4> QED BY <2>4, <4>2, Zenon
        <3> QED BY <2>2, <2>3, <2>4, <2>6, <3>1, PromiseMoveAt, Zenon DEF Goal
    <2>8. CASE hdr[c][x].proc = "op" /\ Over(c, x)
        <3>1. PromisedState(i) \in {"ok", "failed"}
            BY <2>4, <2>5, <2>8, PromisedValues, Zenon
        <3>2. PromisedRuns(i)' = PromisedRuns(i) + 1
            BY <2>2, <2>3, <2>4, <2>5, <2>8, PromisedValues, Zenon
        <3> QED BY <2>2, <2>3, <2>4, <2>6, <3>1, <3>2, PromiseMoveAt, Zenon DEF Goal
    <2>9. CASE hdr[c][x].proc = "op" /\ ~Over(c, x)
        <3>1. Running(w, c, x) /\ ~Acked(c, x)
            BY <1>0, <1>5, <2>1, <2>9, Zenon DEF Running, RunHandler, AckOK
        <3>2. execs[c][x] = 0 /\ execs'[c][x] = 1
            <4>1. execs[c][x] = 0
                BY <1>0, <2>5, <2>9, <3>1, Zenon DEF OnceOK
            <4> QED BY <2>3, <4>1
        <3>3. PromisedState(i) = "pending" /\ PromisedRuns(i) = 0 /\ PromisedRuns(i)' = 1
            BY <2>2, <2>4, <2>5, <2>9, <3>2, PromisedValues, Zenon
        <3>4. PromisedState(i)' = "pending"
            BY <2>6, <3>3, Zenon
        <3> QED BY <2>2, <2>3, <2>4, <3>3, <3>4, PromiseMoveAt, Zenon DEF Goal
    <2> QED BY <2>7, <2>8, <2>9, Zenon
<1>6. CASE UNCHANGED <<pc, hdr, result, execs>>
    <2>1. ASSUME NEW i \in Clients \X Xids
          PROVE  PromisedState(i)' = PromisedState(i) /\ PromisedRuns(i)' = PromisedRuns(i)
        BY <1>6, Zenon DEF PromisedState, PromisedRuns, IsOp, Over
    <2> QED BY <2>1, Zenon DEF Promise!promiseVars
<1>7. ASSUME NEW w \in Workers, WorkerStep(w), UNCHANGED clientVars, ~RunHandler(w) PROVE Goal
    <2>1. execs' = execs
        BY <1>7, Zenon DEF WorkerStep, TakeJob, SendOldsrv, LookupProc, SaveConn, CheckDuplicate, AddReply,
                    PickConn, SendReply, SendFreed
    <2> HIDE DEF Goal
    <2> QED BY <1>6, <1>7, <2>1, Zenon DEF clientVars, Goal
<1>8. ASSUME UNCHANGED clientVars, UNCHANGED execs PROVE Goal
    BY <1>6, <1>8, Zenon DEF clientVars
<1> HIDE DEF Goal
<1>9. Goal
    BY <1>2, <1>3, <1>4, <1>5, <1>7, <1>8, Zenon
       DEF Next, serverVars, Accept, GotRequest, Register, Restart
<1> QED BY <1>9 DEF Goal

(***************************************************************************)
(* The library implements RpcPromise, for every number of clients, calls,  *)
(* connections, threads and restarts, as long as no freed buffer is sent:  *)
(* rpcc::call1 and rpcs::dispatch run a pending call at most once, and it  *)
(* succeeds only after it has run.                                         *)
(***************************************************************************)
THEOREM PromiseKept == Spec => KeepsPromise
<1>1. Init => Promise!PromiseInit
    <2> SUFFICES ASSUME Init PROVE Promise!PromiseInit
        OBVIOUS
    <2>1. ASSUME NEW i \in Clients \X Xids PROVE PromisedState(i) = "idle" /\ PromisedRuns(i) = 0
        <3>1. pc[i[1]][i[2]] = "none"
            BY Zenon DEF Init, ClientInit
        <3> QED BY <3>1, Zenon DEF PromisedState, PromisedRuns, IsOp
    <2> QED BY <2>1, Zenon DEF Promise!PromiseInit
<1>2. ASSUME Inv, AckOK, AnswerOK, [Next]_vars
      PROVE  [wild' \/ Promise!PromiseNext]_Promise!promiseVars
    <2>1. CASE UNCHANGED vars
        <3>1. UNCHANGED <<pc, hdr, result, execs>>
            BY <2>1, Zenon DEF vars, clientVars, serverVars
        <3>2. ASSUME NEW i \in Clients \X Xids
              PROVE  PromisedState(i)' = PromisedState(i) /\ PromisedRuns(i)' = PromisedRuns(i)
            BY <3>1, Zenon DEF PromisedState, PromisedRuns, IsOp, Over
        <3> QED BY <3>2, Zenon DEF Promise!promiseVars
    <2>2. CASE Next
        BY <1>2, <2>2, PromiseStep, Zenon
    <2> QED BY <1>2, <2>1, <2>2, Zenon
<1> QED BY <1>1, <1>2, AnswersKept, PTL DEF Spec, KeepsPromise

-----------------------------------------------------------------------------
(* The buffers of replies.                                                 *)

Calls == Clients \X Xids

\* The calls whose reply the window r holds, and those that were executed.
Stored(r) == {i \in Calls : r[i[1]][i[2]].st = "present"}
Ran(e) == {i \in Calls : e[i[1]][i[2]] # 0}

\* The workers that have run call x of client c and not yet stored the reply.
Adding(p, j, w, c, x) == p[w] = "add" /\ j[w].clt = c /\ j[w].hdr.xid = x
Adders(p, j, c, x) == {w \in Workers : Adding(p, j, w, c, x)}

\* A reply in reply_window_ and one that is about to be are of different executions.
Quota(r, p, j, e) ==
    \A c \in Clients, x \in Xids :
        One(r[c][x].st = "present") + Cardinality(Adders(p, j, c, x)) <= e[c][x]

AllOnce(e) == \A c \in Clients, x \in Xids : e[c][x] <= 1

HeapExact(n, r, h, e) == n = 1 /\ AllOnce(e) => h = Cardinality(Stored(r)) + Cardinality(Ran(e))

\* The inductive invariant of the buffers.
BuffersOK ==
    /\ Quota(reply_window_, wpc, wjob, execs)
    /\ HeapExact(nonce_, reply_window_, heap, execs)

\* There are finitely many calls.
LEMMA CallsFinite ==
    ASSUME NEW r, NEW e
    PROVE  /\ IsFiniteSet(Calls) /\ IsFiniteSet(Stored(r)) /\ IsFiniteSet(Ran(e))
           /\ Cardinality(Stored(r)) \in Nat /\ Cardinality(Ran(e)) \in Nat
<1>1. IsFiniteSet(Xids)
    BY WireAssumption, FS_Interval DEF Xids
<1>2. IsFiniteSet(Calls)
    BY <1>1, ClientsAssumption, FS_Product, Zenon DEF Calls
<1>3. Stored(r) \in SUBSET Calls /\ Ran(e) \in SUBSET Calls
    BY Zenon DEF Stored, Ran
<1> QED BY <1>2, <1>3, FS_Subset, FS_CardinalityType, Zenon

\* The threads are finitely many.
LEMMA AddersFinite ==
    ASSUME NEW p, NEW j, NEW c, NEW x
    PROVE  IsFiniteSet(Adders(p, j, c, x)) /\ Cardinality(Adders(p, j, c, x)) \in Nat
<1>1. IsFiniteSet(Workers) /\ Adders(p, j, c, x) \in SUBSET Workers
    BY WorkersAssumption, Zenon DEF Adders
<1> QED BY <1>1, FS_Subset, FS_CardinalityType, Zenon

\* No other thread than w begins or ends to store a reply.
SameAdders(p, j, pp, jj, w) ==
    \A v \in Workers : v # w => (pp[v] = "add" <=> p[v] = "add") /\ jj[v] = j[v]

\* Then the threads that store the reply of a call are the same, up to w.
LEMMA AddersLemma ==
    ASSUME NEW p, NEW j, NEW pp, NEW jj, NEW w \in Workers, SameAdders(p, j, pp, jj, w), NEW c, NEW x
    PROVE  /\ Adding(p, j, w, c, x) /\ ~Adding(pp, jj, w, c, x)
                => Cardinality(Adders(p, j, c, x)) = Cardinality(Adders(pp, jj, c, x)) + 1
           /\ ~Adding(p, j, w, c, x) /\ Adding(pp, jj, w, c, x)
                => Cardinality(Adders(pp, jj, c, x)) = Cardinality(Adders(p, j, c, x)) + 1
           /\ (Adding(p, j, w, c, x) <=> Adding(pp, jj, w, c, x))
                => Cardinality(Adders(pp, jj, c, x)) = Cardinality(Adders(p, j, c, x))
<1> DEFINE A == Adders(p, j, c, x)
           B == Adders(pp, jj, c, x)
<1>1. IsFiniteSet(A) /\ IsFiniteSet(B)
    BY AddersFinite, Zenon
<1>2. A \ {w} = B \ {w}
    BY Zenon DEF Adders, Adding, SameAdders
<1>3. (w \in A <=> Adding(p, j, w, c, x)) /\ (w \in B <=> Adding(pp, jj, w, c, x))
    BY Zenon DEF Adders
<1> HIDE DEF A, B
<1>4. /\ (w \in A <=> w \in B) => Cardinality(B) = Cardinality(A)
      /\ w \in A /\ w \notin B => Cardinality(A) = Cardinality(B) + 1
      /\ w \notin A /\ w \in B => Cardinality(B) = Cardinality(A) + 1
    BY <1>1, <1>2, CardDiff
<1>5. /\ Adding(p, j, w, c, x) /\ ~Adding(pp, jj, w, c, x) => Cardinality(A) = Cardinality(B) + 1
      /\ ~Adding(p, j, w, c, x) /\ Adding(pp, jj, w, c, x) => Cardinality(B) = Cardinality(A) + 1
      /\ (Adding(p, j, w, c, x) <=> Adding(pp, jj, w, c, x)) => Cardinality(B) = Cardinality(A)
    BY <1>3, <1>4, Zenon
<1> QED BY <1>5, Zenon DEF A, B

\* After add_reply one thread less stores the reply of the call.
LEMMA AddersLess ==
    ASSUME NEW p, NEW j, NEW pp, NEW jj, NEW w \in Workers, SameAdders(p, j, pp, jj, w), NEW c, NEW x,
           Adding(p, j, w, c, x), ~Adding(pp, jj, w, c, x)
    PROVE  Cardinality(Adders(p, j, c, x)) = Cardinality(Adders(pp, jj, c, x)) + 1
BY AddersLemma

\* After the handler one thread more does.
LEMMA AddersMore ==
    ASSUME NEW p, NEW j, NEW pp, NEW jj, NEW w \in Workers, SameAdders(p, j, pp, jj, w), NEW c, NEW x,
           ~Adding(p, j, w, c, x), Adding(pp, jj, w, c, x)
    PROVE  Cardinality(Adders(pp, jj, c, x)) = Cardinality(Adders(p, j, c, x)) + 1
BY AddersLemma

\* For another call they are as many as before.
LEMMA AddersSame ==
    ASSUME NEW p, NEW j, NEW pp, NEW jj, NEW w \in Workers, SameAdders(p, j, pp, jj, w), NEW c, NEW x,
           ~Adding(p, j, w, c, x), ~Adding(pp, jj, w, c, x)
    PROVE  Cardinality(Adders(pp, jj, c, x)) = Cardinality(Adders(p, j, c, x))
BY AddersLemma

\* The types the steps of the buffers need.
LEMMA BufferTypes ==
    ASSUME TypeOK
    PROVE  /\ reply_window_ \in [Clients -> [Xids -> Entries]]
           /\ \A c \in Clients : reply_window_[c] \in [Xids -> Entries]
           /\ execs \in [Clients -> [Xids -> Nat]]
           /\ \A c \in Clients, x \in Xids : execs[c][x] \in Nat
           /\ heap \in Int
           /\ nonce_ \in Nat
<1>1. nonce_ \in 1 .. MaxNonce /\ MaxNonce \in Nat
    BY WireAssumption, Zenon DEF TypeOK, ServerTypeOK
<1>2. nonce_ \in Nat
    BY <1>1
<1> QED BY <1>2, Zenon DEF TypeOK, ServerTypeOK

\* A step that neither runs a call, nor stores or drops a reply.
LEMMA BuffersKeep ==
    ASSUME BuffersOK, UNCHANGED <<reply_window_, execs, heap, nonce_>>,
           \A v \in Workers : (wpc'[v] = "add" <=> wpc[v] = "add") /\ (wpc[v] = "add" => wjob'[v] = wjob[v])
    PROVE  BuffersOK'
<1>1. \A c, x : Adders(wpc', wjob', c, x) = Adders(wpc, wjob, c, x)
    BY Zenon DEF Adders, Adding
<1>2. Quota(reply_window_', wpc', wjob', execs')
    <2> SUFFICES ASSUME NEW c \in Clients, NEW x \in Xids
                 PROVE  One(reply_window_'[c][x].st = "present") + Cardinality(Adders(wpc', wjob', c, x))
                          <= execs'[c][x]
        BY Zenon DEF Quota
    <2>1. One(reply_window_[c][x].st = "present") + Cardinality(Adders(wpc, wjob, c, x)) <= execs[c][x]
        BY Zenon DEF BuffersOK, Quota
    <2>2. Adders(wpc', wjob', c, x) = Adders(wpc, wjob, c, x)
        BY <1>1, Zenon
    <2> QED BY <2>1, <2>2, Zenon
<1>3. HeapExact(nonce_', reply_window_', heap', execs')
    BY Zenon DEF BuffersOK
<1> QED BY <1>2, <1>3, Zenon DEF BuffersOK

\* The call of a worker that is not idle.
LEMMA JobCall ==
    ASSUME TypeOK, NEW w \in Workers, wpc[w] # "idle"
    PROVE  wjob[w].clt \in Clients /\ wjob[w].hdr.xid \in Xids
<1>1. wjob[w] \in Requests
    BY JobType, Zenon
<1>2. wjob[w].clt \in Clients /\ wjob[w].hdr \in Headers
    BY <1>1 DEF Requests
<1> QED BY <1>2 DEF Headers

\* A handler runs: one more execution, and a buffer for its reply.
LEMMA BuffersRun ==
    ASSUME TypeOK, BuffersOK, NEW w \in Workers, RunHandler(w)
    PROVE  BuffersOK'
<1> DEFINE a == wjob[w].clt
           b == wjob[w].hdr.xid
<1>1. /\ wpc[w] = "run" /\ wpc' = [wpc EXCEPT ![w] = "add"] /\ execs' = [execs EXCEPT ![a][b] = @ + 1]
      /\ heap' = heap + 1 /\ UNCHANGED <<nonce_, reply_window_, wjob>>
    BY Zenon DEF RunHandler
<1>2. a \in Clients /\ b \in Xids
    <2>1. wpc[w] # "idle"
        BY <1>1
    <2> QED BY <2>1, JobCall, Zenon
<1>3. \A c \in Clients, x \in Xids : execs'[c][x] = IF c = a /\ x = b THEN execs[c][x] + 1 ELSE execs[c][x]
    <2>1. execs' = [execs EXCEPT ![a][b] = execs[a][b] + 1]
        BY <1>1, <1>2, BufferTypes, Zenon
    <2> HIDE DEF a, b
    <2>2. \A c \in Clients, x \in Xids : execs'[c][x] = IF c = a /\ x = b THEN execs[a][b] + 1 ELSE execs[c][x]
        BY <1>2, <2>1, BufferTypes, TableLemma
    <2> QED BY <2>2, Zenon
<1>4. wpc'[w] = "add" /\ SameAdders(wpc, wjob, wpc', wjob', w)
    BY <1>1, RefTypes, Zenon DEF SameAdders
<1>5. ASSUME NEW c \in Clients, NEW x \in Xids
      PROVE  One(reply_window_'[c][x].st = "present") + Cardinality(Adders(wpc', wjob', c, x)) <= execs'[c][x]
    <2> DEFINE o == One(reply_window_[c][x].st = "present")
               m == Cardinality(Adders(wpc, wjob, c, x))
               n == Cardinality(Adders(wpc', wjob', c, x))
    <2>1. o + m <= execs[c][x] /\ o \in {0, 1} /\ m \in Nat /\ n \in Nat /\ execs[c][x] \in Nat
        BY AddersFinite, BufferTypes, Zenon DEF BuffersOK, Quota, One
    <2>2. ~Adding(wpc, wjob, w, c, x) /\ (Adding(wpc', wjob', w, c, x) <=> c = a /\ x = b)
        <3>1. wpc[w] # "add"
            BY <1>1
        <3> QED BY <1>1, <1>4, <3>1, Zenon DEF Adding
    <2>3. n = IF c = a /\ x = b THEN m + 1 ELSE m
        <3>1. CASE c = a /\ x = b
            <4>1. ~Adding(wpc, wjob, w, c, x) /\ Adding(wpc', wjob', w, c, x)
                BY <2>2, <3>1, Zenon
            <4>2. n = m + 1
                BY <1>4, <4>1, AddersMore
            <4> QED BY <3>1, <4>2, Zenon
        <3>2. CASE ~(c = a /\ x = b)
            <4>1. ~Adding(wpc, wjob, w, c, x) /\ ~Adding(wpc', wjob', w, c, x)
                BY <2>2, <3>2, Zenon
            <4>2. n = m
                BY <1>4, <4>1, AddersSame
            <4> QED BY <3>2, <4>2, Zenon
        <3> QED BY <3>1, <3>2
    <2> HIDE DEF o, m, n, a, b
    <2>4. o + n <= execs'[c][x]
        BY <1>3, <2>1, <2>3
    <2> QED BY <1>1, <2>4, Zenon DEF o, n
<1>6. ASSUME nonce_' = 1, AllOnce(execs') PROVE heap' = Cardinality(Stored(reply_window_')) + Cardinality(Ran(execs'))
    <2> HIDE DEF a, b
    <2>1. execs[a][b] = 0 /\ AllOnce(execs)
        <3>1. \A c \in Clients, x \in Xids : execs'[c][x] <= 1
            BY <1>6, Zenon DEF AllOnce
        <3>2. \A c \in Clients, x \in Xids : execs[c][x] <= 1
            BY <1>3, <3>1, BufferTypes
        <3>3. execs'[a][b] = execs[a][b] + 1 /\ execs'[a][b] <= 1 /\ execs[a][b] \in Nat
            BY <1>2, <1>3, <3>1, BufferTypes, Zenon
        <3> QED BY <3>2, <3>3 DEF AllOnce
    <2>2. heap = Cardinality(Stored(reply_window_)) + Cardinality(Ran(execs))
        BY <1>1, <1>6, <2>1, Zenon DEF BuffersOK, HeapExact
    <2>3. Ran(execs') = Ran(execs) \cup {<<a, b>>} /\ <<a, b>> \notin Ran(execs)
        <3>1. execs'[a][b] # 0 /\ \A c \in Clients, x \in Xids : ~(c = a /\ x = b) => execs'[c][x] = execs[c][x]
            BY <1>2, <1>3, <2>1
        <3>2. \A i \in Calls : i[1] \in Clients /\ i[2] \in Xids /\ i = <<i[1], i[2]>>
            BY DEF Calls
        <3>3. <<a, b>> \in Calls /\ <<a, b>>[1] = a /\ <<a, b>>[2] = b
            BY <1>2 DEF Calls
        <3> QED BY <2>1, <3>1, <3>2, <3>3 DEF Ran
    <2>4. Cardinality(Ran(execs')) = Cardinality(Ran(execs)) + 1
        BY <2>3, CallsFinite, FS_AddElement, Zenon
    <2> DEFINE s == Cardinality(Stored(reply_window_))
               r == Cardinality(Ran(execs))
    <2>5. s \in Nat /\ r \in Nat
        BY CallsFinite, Zenon
    <2>6. heap = s + r
        BY <2>2, Zenon
    <2> HIDE DEF s, r
    <2>7. heap + 1 = s + (r + 1)
        BY <2>5, <2>6
    <2> QED BY <1>1, <2>4, <2>7, Zenon DEF s, r
<1> QED BY <1>5, <1>6, Zenon DEF BuffersOK, Quota, HeapExact

\* add_reply: the copy of the reply takes the place of none, if no call is run twice.
LEMMA BuffersAdd ==
    ASSUME TypeOK, BuffersOK, NEW w \in Workers, AddReply(w)
    PROVE  BuffersOK'
<1> DEFINE a == wjob[w].clt
           b == wjob[w].hdr.xid
           v == wrep[w].val
           W == reply_window_[a]
<1>1. /\ wpc[w] = "add" /\ wpc' = [wpc EXCEPT ![w] = "pick"] /\ UNCHANGED <<nonce_, execs, wjob>>
      /\ reply_window_' = [reply_window_ EXCEPT ![a] = Answered(W, b, v)]
      /\ heap' = IF W[b].st = "absent" THEN heap ELSE heap + 1
    BY Zenon DEF AddReply
<1>2. a \in Clients /\ b \in Xids /\ W \in [Xids -> Entries]
    <2>1. wpc[w] # "idle"
        BY <1>1
    <2> QED BY <2>1, JobCall, BufferTypes, Zenon
<1>3. ~Adding(wpc', wjob', w, a, b) /\ SameAdders(wpc, wjob, wpc', wjob', w) /\ wpc'[w] # "add"
    <2>1. wpc'[w] = "pick" /\ SameAdders(wpc, wjob, wpc', wjob', w)
        BY <1>1, RefTypes, Zenon DEF SameAdders
    <2>2. wpc'[w] # "add"
        BY <2>1
    <2> QED BY <2>1, <2>2, Zenon DEF Adding
<1>4. ASSUME NEW c \in Clients, NEW x \in Xids
      PROVE  (reply_window_'[c][x].st = "present")
                <=> (reply_window_[c][x].st = "present" \/ (c = a /\ x = b /\ W[b].st # "absent"))
    <2>1. CASE c # a
        <3>1. reply_window_'[c] = reply_window_[c]
            BY <1>1, <2>1, BufferTypes, Zenon
        <3> QED BY <2>1, <3>1, Zenon
    <2>2. CASE c = a
        <3>1. reply_window_'[c] = Answered(W, b, v) /\ reply_window_[c] = W
            BY <1>1, <2>2, BufferTypes, Zenon
        <3> HIDE DEF W, v, a, b
        <3>2. CASE W[b].st = "absent"
            BY <2>2, <3>1, <3>2, Zenon DEF Answered
        <3>3. CASE W[b].st # "absent"
            <4>1. Answered(W, b, v)[x] = IF x = b THEN [st |-> "present", val |-> v] ELSE W[x]
                BY <1>2, <3>3, Zenon DEF Answered
            <4>2. [st |-> "present", val |-> v].st = "present"
                OBVIOUS
            <4> QED BY <2>2, <3>1, <3>3, <4>1, <4>2, Zenon
        <3> QED BY <3>2, <3>3
    <2> QED BY <2>1, <2>2
<1>5. ASSUME NEW c \in Clients, NEW x \in Xids
      PROVE  /\ One(reply_window_'[c][x].st = "present") + Cardinality(Adders(wpc', wjob', c, x)) <= execs'[c][x]
             /\ c = a /\ x = b /\ execs[c][x] <= 1 => reply_window_[c][x].st # "present"
    <2> DEFINE o == One(reply_window_[c][x].st = "present")
               q == One(reply_window_'[c][x].st = "present")
               m == Cardinality(Adders(wpc, wjob, c, x))
               n == Cardinality(Adders(wpc', wjob', c, x))
    <2>1. o + m <= execs[c][x] /\ o \in {0, 1} /\ m \in Nat /\ n \in Nat /\ execs[c][x] \in Nat
        BY AddersFinite, BufferTypes, Zenon DEF BuffersOK, Quota, One
    <2>2. ~Adding(wpc', wjob', w, c, x) /\ (Adding(wpc, wjob, w, c, x) <=> c = a /\ x = b)
        BY <1>1, <1>3, Zenon DEF Adding
    <2>3. m = IF c = a /\ x = b THEN n + 1 ELSE n
        <3>1. CASE c = a /\ x = b
            <4>1. Adding(wpc, wjob, w, c, x) /\ ~Adding(wpc', wjob', w, c, x)
                BY <2>2, <3>1, Zenon
            <4>2. SameAdders(wpc, wjob, wpc', wjob', w)
                BY <1>3, Zenon
            <4>3. m = n + 1
                BY <4>1, <4>2, AddersLess
            <4> QED BY <3>1, <4>3, Zenon
        <3>2. CASE ~(c = a /\ x = b)
            <4>1. ~Adding(wpc, wjob, w, c, x) /\ ~Adding(wpc', wjob', w, c, x)
                BY <2>2, <3>2, Zenon
            <4>2. SameAdders(wpc, wjob, wpc', wjob', w)
                BY <1>3, Zenon
            <4>3. n = m
                BY <4>1, <4>2, AddersSame
            <4> QED BY <3>2, <4>3, Zenon
        <3> QED BY <3>1, <3>2
    <2>4. q \in {0, 1} /\ (~(c = a /\ x = b) => q = o) /\ (reply_window_[c][x].st = "present" => o = 1)
        BY <1>4, Zenon DEF One
    <2> HIDE DEF o, q, m, n, a, b
    <2>5. q + n <= execs[c][x]
        BY <2>1, <2>3, <2>4
    <2>6. c = a /\ x = b /\ execs[c][x] <= 1 => reply_window_[c][x].st # "present"
        BY <2>1, <2>3, <2>4
    <2> QED BY <1>1, <2>5, <2>6, Zenon DEF q, n
<1>6. ASSUME nonce_' = 1, AllOnce(execs') PROVE heap' = Cardinality(Stored(reply_window_')) + Cardinality(Ran(execs'))
    <2>1. heap = Cardinality(Stored(reply_window_)) + Cardinality(Ran(execs))
        BY <1>1, <1>6, Zenon DEF BuffersOK, HeapExact
    <2>2. execs[a][b] <= 1
        BY <1>1, <1>2, <1>6, Zenon DEF AllOnce
    <2>3. reply_window_[a][b].st # "present"
        BY <1>2, <1>5, <2>2, Zenon
    <2>4. \A i \in Calls : i[1] \in Clients /\ i[2] \in Xids /\ i = <<i[1], i[2]>>
        BY DEF Calls
    <2>5. CASE W[b].st = "absent"
        <3>1. Stored(reply_window_') = Stored(reply_window_)
            BY <1>4, <2>4, <2>5, Zenon DEF Stored
        <3> QED BY <1>1, <2>1, <2>5, <3>1, Zenon
    <2>6. CASE W[b].st # "absent"
        <3>1. Stored(reply_window_') = Stored(reply_window_) \cup {<<a, b>>} /\ <<a, b>> \notin Stored(reply_window_)
            <4> HIDE DEF a, b
            <4>1. <<a, b>> \in Calls /\ <<a, b>>[1] = a /\ <<a, b>>[2] = b
                BY <1>2 DEF Calls
            <4>2. \A i \in Calls : reply_window_'[i[1]][i[2]].st = "present"
                                    <=> (reply_window_[i[1]][i[2]].st = "present" \/ i = <<a, b>>)
                BY <1>4, <2>4, <2>6, <4>1, Zenon
            <4> QED BY <2>3, <4>1, <4>2, Zenon DEF Stored
        <3>2. Cardinality(Stored(reply_window_')) = Cardinality(Stored(reply_window_)) + 1
            BY <3>1, CallsFinite, FS_AddElement, Zenon
        <3> DEFINE s == Cardinality(Stored(reply_window_))
                   r == Cardinality(Ran(execs))
        <3>3. s \in Nat /\ r \in Nat /\ heap = s + r
            BY <2>1, CallsFinite, Zenon
        <3> HIDE DEF s, r
        <3>4. heap + 1 = (s + 1) + r
            BY <3>3
        <3> QED BY <1>1, <2>6, <3>2, <3>4, Zenon DEF s, r
    <2> QED BY <2>5, <2>6
<1> QED BY <1>5, <1>6, Zenon DEF BuffersOK, Quota, HeapExact

\* checkduplicate_and_update: a reply is dropped with its buffer.
LEMMA BuffersCheck ==
    ASSUME TypeOK, BuffersOK, NEW w \in Workers, CheckDuplicate(w)
    PROVE  BuffersOK'
<1> DEFINE a == wjob[w].clt
           h == wjob[w].hdr
           W == reply_window_[a]
           D == {x \in Dropped(W, h) : W[x].st = "present"}
<1>1. /\ wpc[w] = "check" /\ UNCHANGED <<nonce_, execs>>
      /\ reply_window_' = [reply_window_ EXCEPT ![a] = Checked(W, h)]
      /\ heap' = heap - Cardinality(D)
    BY Zenon DEF CheckDuplicate
<1>2. a \in Clients /\ h.xid \in Xids /\ W \in [Xids -> Entries]
    <2>1. wpc[w] # "idle"
        BY <1>1
    <2> QED BY <2>1, JobCall, BufferTypes, Zenon
<1>3. \A c, x : Adders(wpc', wjob', c, x) = Adders(wpc, wjob, c, x)
    <2>1. ASSUME NEW u \in Workers
          PROVE  (wpc'[u] = "add" <=> wpc[u] = "add") /\ (wpc[u] = "add" => wjob'[u] = wjob[u])
        <3>1. CASE u = w
            <4>1. wpc'[w] = AfterCheck(Status(W, h))
                BY <1>1, Zenon DEF CheckDuplicate
            <4>2. AfterCheck(Status(W, h)) # "add"
                BY DEF AfterCheck
            <4>3. wpc[w] # "add"
                BY <1>1
            <4> QED BY <3>1, <4>1, <4>2, <4>3, Zenon
        <3>2. CASE u # w
            <4>1. wpc'[u] = wpc[u] \/ (wpc[u] = "senddone" /\ wpc'[u] = "sendfreed")
                BY <3>2, Zenon DEF CheckDuplicate
            <4>2. wjob'[u] = wjob[u]
                BY <3>2, RefTypes, Zenon DEF CheckDuplicate
            <4>3. wpc'[u] = "add" <=> wpc[u] = "add"
                BY <4>1
            <4> QED BY <4>2, <4>3, Zenon
        <3> QED BY <3>1, <3>2
    <2> QED BY <2>1, Zenon DEF Adders, Adding
<1>4. D \subseteq Xids
    BY <1>2, Zenon DEF Dropped
<1>5. ASSUME NEW c \in Clients, NEW x \in Xids
      PROVE  (reply_window_'[c][x].st = "present") <=> (reply_window_[c][x].st = "present" /\ ~(c = a /\ x \in D))
    <2>1. CASE c # a
        <3>1. reply_window_'[c] = reply_window_[c]
            BY <1>1, <2>1, BufferTypes, Zenon
        <3> QED BY <2>1, <3>1, Zenon
    <2>2. CASE c = a
        <3>1. reply_window_'[c] = Checked(W, h) /\ reply_window_[c] = W
            BY <1>1, <2>2, BufferTypes, Zenon
        <3> HIDE DEF W, h
        <3>2. Checked(W, h)[x] = IF x = h.xid /\ Status(W, h) = "NEW" THEN InProgress
                                 ELSE IF x \in Dropped(W, h) THEN Absent ELSE W[x]
            BY <1>2, Zenon DEF Checked
        <3>3. InProgress.st # "present" /\ Absent.st # "present"
            BY DEF InProgress, Absent
        <3>4. Status(W, h) = "NEW" => W[h.xid].st # "present"
            BY DEF Status
        <3>5. (Checked(W, h)[x].st = "present") <=> (W[x].st = "present" /\ x \notin D)
            BY <3>2, <3>3, <3>4, Zenon
        <3> QED BY <2>2, <3>1, <3>5, Zenon
    <2> QED BY <2>1, <2>2
<1>6. ASSUME NEW c \in Clients, NEW x \in Xids
      PROVE  One(reply_window_'[c][x].st = "present") + Cardinality(Adders(wpc', wjob', c, x)) <= execs'[c][x]
    <2> DEFINE o == One(reply_window_[c][x].st = "present")
               q == One(reply_window_'[c][x].st = "present")
               m == Cardinality(Adders(wpc, wjob, c, x))
    <2>1. o + m <= execs[c][x] /\ m \in Nat /\ execs[c][x] \in Nat
        BY AddersFinite, BufferTypes, Zenon DEF BuffersOK, Quota
    <2>2. o \in {0, 1} /\ q \in {0, 1} /\ (q = 1 => o = 1)
        BY <1>5 DEF One
    <2> HIDE DEF o, q, m
    <2>3. q + m <= execs[c][x]
        BY <2>1, <2>2
    <2> QED BY <1>1, <1>3, <2>3, Zenon DEF q, m
<1>7. ASSUME nonce_' = 1, AllOnce(execs') PROVE heap' = Cardinality(Stored(reply_window_')) + Cardinality(Ran(execs'))
    <2>1. heap = Cardinality(Stored(reply_window_)) + Cardinality(Ran(execs))
        BY <1>1, <1>7, Zenon DEF BuffersOK, HeapExact
    <2>2. \A i \in Calls : i[1] \in Clients /\ i[2] \in Xids /\ i = <<i[1], i[2]>>
        BY DEF Calls
    <2> DEFINE P == {a} \X D
    <2>3. \A i \in Calls : i \in P <=> i[1] = a /\ i[2] \in D
        <3> HIDE DEF a, D
        <3> QED BY DEF Calls
    <2>4. Stored(reply_window_') = Stored(reply_window_) \ P
        <3>1. \A i \in Calls : reply_window_'[i[1]][i[2]].st = "present"
                                <=> (reply_window_[i[1]][i[2]].st = "present" /\ i \notin P)
            BY <1>5, <2>2, <2>3, Zenon
        <3> HIDE DEF P
        <3> QED BY <3>1, Zenon DEF Stored
    <2>5. Stored(reply_window_) \cap P = P
        <3>1. P \subseteq Calls
            <4> HIDE DEF D, a
            <4> QED BY <1>2, <1>4 DEF Calls
        <3>2. \A i \in P : reply_window_[i[1]][i[2]].st = "present"
            <4>1. \A i \in P : i[1] = a /\ i[2] \in D
                BY <2>3, <3>1, Zenon
            <4>2. \A x \in D : reply_window_[a][x].st = "present"
                BY Zenon
            <4> QED BY <4>1, <4>2, Zenon
        <3> HIDE DEF P
        <3> QED BY <3>1, <3>2, Zenon DEF Stored
    <2>6. IsFiniteSet(D) /\ Cardinality(D) \in Nat
        <3>1. IsFiniteSet(Xids)
            BY WireAssumption, FS_Interval DEF Xids
        <3> HIDE DEF D
        <3> QED BY <1>4, <3>1, FS_Subset, FS_CardinalityType, Zenon
    <2>7. Cardinality(P) = Cardinality(D)
        <3> HIDE DEF D, a
        <3>1. Cardinality(P) = Cardinality({a}) * Cardinality(D) /\ Cardinality({a}) = 1
            BY <2>6, FS_Singleton, FS_Product, Zenon
        <3> DEFINE x == Cardinality(D)
                   y == Cardinality(P)
        <3>2. y = 1 * x /\ x \in Nat
            BY <2>6, <3>1, Zenon
        <3> HIDE DEF x, y
        <3>3. y = x
            BY <3>2
        <3> QED BY <3>3, Zenon DEF x, y
    <2>8. Cardinality(Stored(reply_window_) \ P)
            = Cardinality(Stored(reply_window_)) - Cardinality(Stored(reply_window_) \cap P)
        <3>1. IsFiniteSet(Stored(reply_window_))
            BY CallsFinite, Zenon
        <3> HIDE DEF P
        <3> QED BY <3>1, FS_Difference, Zenon
    <2> DEFINE s == Cardinality(Stored(reply_window_))
               r == Cardinality(Ran(execs))
               d == Cardinality(D)
               t == Cardinality(Stored(reply_window_'))
    <2>9. s \in Nat /\ r \in Nat /\ d \in Nat /\ heap = s + r /\ t = s - d
        <3> HIDE DEF P, D
        <3> QED BY <2>1, <2>4, <2>5, <2>6, <2>7, <2>8, CallsFinite, Zenon
    <2>10. heap' = heap - d /\ execs' = execs
        BY <1>1, Zenon
    <2> HIDE DEF s, r, d, t, P, D
    <2>11. heap - d = t + r
        BY <2>9
    <2> QED BY <2>10, <2>11, Zenon DEF t, r
<1> QED BY <1>6, <1>7, Zenon DEF BuffersOK, Quota, HeapExact

\* A new server has no buffers; those of the first are of no concern any more.
LEMMA BuffersRestart ==
    ASSUME TypeOK, Restart
    PROVE  BuffersOK'
<1>1. nonce_' = nonce_ + 1 /\ nonce_ \in 1 .. MaxNonce /\ MaxNonce \in Nat
    BY WireAssumption, Zenon DEF Restart, TypeOK, ServerTypeOK
<1>2. nonce_' # 1
    BY <1>1
<1>3. ASSUME NEW c \in Clients, NEW x \in Xids
      PROVE  One(reply_window_'[c][x].st = "present") + Cardinality(Adders(wpc', wjob', c, x)) <= execs'[c][x]
    <2>1. reply_window_'[c][x] = Absent /\ \A w \in Workers : wpc'[w] = "idle"
        BY <1>3, Zenon DEF Restart, NoReplies
    <2>2. One(reply_window_'[c][x].st = "present") = 0
        BY <2>1 DEF One, Absent
    <2>3. Adders(wpc', wjob', c, x) = {}
        BY <2>1 DEF Adders, Adding
    <2>4. Cardinality(Adders(wpc', wjob', c, x)) = 0
        BY <2>3, FS_EmptySet, Zenon
    <2>5. execs'[c][x] \in Nat
        BY BufferTypes, Zenon DEF Restart
    <2> QED BY <2>2, <2>4, <2>5
<1> QED BY <1>2, <1>3, Zenon DEF BuffersOK, Quota, HeapExact

\* Every step of the library keeps the account of the buffers.
LEMMA BuffersStep ==
    ASSUME TypeOK, BuffersOK, Next
    PROVE  BuffersOK'
<1>1. ASSUME UNCHANGED <<reply_window_, execs, heap, nonce_, wpc, wjob>> PROVE BuffersOK'
    BY <1>1, BuffersKeep, Zenon
<1>2. ASSUME UNCHANGED serverVars PROVE BuffersOK'
    BY <1>1, <1>2, Zenon DEF serverVars
<1>3. ASSUME NEW m, GotRequest(m) \/ Register PROVE BuffersOK'
    BY <1>1, <1>3, Zenon DEF GotRequest, Register
<1>4. ASSUME NEW w \in Workers, UNCHANGED <<reply_window_, execs, heap, nonce_>>,
             wpc[w] # "add", wpc'[w] # "add", \A v \in Workers : v # w => wpc'[v] = wpc[v] /\ wjob'[v] = wjob[v]
      PROVE  BuffersOK'
    <2>1. \A v \in Workers : (wpc'[v] = "add" <=> wpc[v] = "add") /\ (wpc[v] = "add" => wjob'[v] = wjob[v])
        BY <1>4, Zenon
    <2> QED BY <1>4, <2>1, BuffersKeep, Zenon
<1>5. ASSUME NEW w \in Workers, WorkerStep(w) PROVE BuffersOK'
    <2>1. CASE TakeJob(w)
        <3>1. wpc[w] # "add" /\ UNCHANGED <<reply_window_, execs, heap, nonce_>>
            BY <2>1 DEF TakeJob
        <3>2. /\ wpc'[w] = IF ForOldServer(Head(jobq).hdr) THEN "oldsrv" ELSE "lookup"
              /\ \A v \in Workers : v # w => wpc'[v] = wpc[v] /\ wjob'[v] = wjob[v]
            BY <2>1, RefTypes, Zenon DEF TakeJob
        <3>3. wpc'[w] # "add"
            BY <3>2
        <3> QED BY <1>4, <3>1, <3>2, <3>3, Zenon
    <2>2. CASE SendOldsrv(w) \/ SendReply(w) \/ SendFreed(w)
        <3>1. wpc[w] # "add" /\ UNCHANGED <<reply_window_, execs, heap, nonce_>>
            BY <2>2 DEF SendOldsrv, SendReply, SendFreed
        <3>2. GoIdle(w)
            BY <2>2, Zenon DEF SendOldsrv, SendReply, SendFreed
        <3>3. wpc'[w] = "idle" /\ \A v \in Workers : v # w => wpc'[v] = wpc[v] /\ wjob'[v] = wjob[v]
            BY <3>2, RefTypes, Zenon DEF GoIdle
        <3>4. wpc'[w] # "add"
            BY <3>3
        <3> QED BY <1>4, <3>1, <3>3, <3>4, Zenon
    <2>3. CASE LookupProc(w)
        <3>1. wpc[w] # "add" /\ UNCHANGED <<reply_window_, execs, heap, nonce_>>
            BY <2>3 DEF LookupProc
        <3>2. wpc'[w] \in {"conns", "idle"} /\ \A v \in Workers : v # w => wpc'[v] = wpc[v] /\ wjob'[v] = wjob[v]
            BY <2>3, RefTypes, Zenon DEF LookupProc, GoIdle
        <3>3. wpc'[w] # "add"
            BY <3>2
        <3> QED BY <1>4, <3>1, <3>2, <3>3, Zenon
    <2>4. CASE SaveConn(w)
        <3>1. wpc[w] # "add" /\ UNCHANGED <<reply_window_, execs, heap, nonce_>>
            BY <2>4 DEF SaveConn
        <3>2. wpc'[w] = "check" /\ \A v \in Workers : v # w => wpc'[v] = wpc[v] /\ wjob'[v] = wjob[v]
            BY <2>4, RefTypes, Zenon DEF SaveConn
        <3>3. wpc'[w] # "add"
            BY <3>2
        <3> QED BY <1>4, <3>1, <3>2, <3>3, Zenon
    <2>5. CASE PickConn(w)
        <3>1. wpc[w] # "add" /\ UNCHANGED <<reply_window_, execs, heap, nonce_>>
            BY <2>5 DEF PickConn
        <3>2. wpc'[w] = "send" /\ \A v \in Workers : v # w => wpc'[v] = wpc[v] /\ wjob'[v] = wjob[v]
            <4>1. wpc' = [wpc EXCEPT ![w] = "send"] /\ (wjob' = wjob \/ \E j : wjob' = [wjob EXCEPT ![w] = j])
                BY <2>5, Zenon DEF PickConn
            <4> QED BY <4>1, RefTypes, Zenon
        <3>3. wpc'[w] # "add"
            BY <3>2
        <3> QED BY <1>4, <3>1, <3>2, <3>3, Zenon
    <2> QED BY <1>5, <2>1, <2>2, <2>3, <2>4, <2>5, BuffersCheck, BuffersRun, BuffersAdd, Zenon DEF WorkerStep
<1> QED BY <1>2, <1>3, <1>5, BuffersRestart, Zenon DEF Next, Accept

(***************************************************************************)
(* The first server loses no buffer of a reply and frees none twice: those *)
(* allocated are one for every reply in reply_window_ and one for every    *)
(* execution, as long as no call ran twice.                                *)
(***************************************************************************)
THEOREM ReplyBuffers == Spec => []BuffersAccounted
<1>1. Init => BuffersOK
    <2> SUFFICES ASSUME Init PROVE BuffersOK
        OBVIOUS
    <2>1. /\ \A w \in Workers : wpc[w] = "idle"
          /\ \A c \in Clients, x \in Xids : reply_window_[c][x] = Absent /\ execs[c][x] = 0
          /\ heap = 0
        BY Zenon DEF Init, ServerInit, NoReplies
    <2>2. \A c, x : Adders(wpc, wjob, c, x) = {}
        BY <2>1 DEF Adders, Adding
    <2>3. ASSUME NEW c \in Clients, NEW x \in Xids
          PROVE  One(reply_window_[c][x].st = "present") + Cardinality(Adders(wpc, wjob, c, x)) <= execs[c][x]
        <3>1. One(reply_window_[c][x].st = "present") = 0
            BY <2>1 DEF One, Absent
        <3>2. Cardinality(Adders(wpc, wjob, c, x)) = 0
            BY <2>2, FS_EmptySet, Zenon
        <3> QED BY <2>1, <3>1, <3>2
    <2>4. Stored(reply_window_) = {} /\ Ran(execs) = {}
        BY <2>1 DEF Stored, Ran, Calls, Absent
    <2>5. Cardinality(Stored(reply_window_)) = 0 /\ Cardinality(Ran(execs)) = 0
        BY <2>4, FS_EmptySet, Zenon
    <2>6. HeapExact(nonce_, reply_window_, heap, execs)
        BY <2>1, <2>5 DEF HeapExact
    <2> QED BY <2>3, <2>6, Zenon DEF BuffersOK, Quota
<1>2. TypeOK /\ BuffersOK /\ [Next]_vars => BuffersOK'
    <2> SUFFICES ASSUME TypeOK, BuffersOK, [Next]_vars PROVE BuffersOK'
        OBVIOUS
    <2>1. CASE UNCHANGED vars
        BY <2>1, Zenon DEF vars, serverVars, BuffersOK
    <2> QED BY <2>1, BuffersStep, Zenon
<1>3. TypeOK /\ BuffersOK => BuffersAccounted
    <2> SUFFICES ASSUME TypeOK, BuffersOK, nonce_ = 1, \A c \in Clients, x \in Xids : execs[c][x] <= 1
                 PROVE  heap = Cardinality({i \in Clients \X Xids : reply_window_[i[1]][i[2]].st = "present"})
                          + Cardinality(UNION {{i} \X (1 .. execs[i[1]][i[2]]) : i \in Clients \X Xids})
        BY Zenon DEF BuffersAccounted
    <2> DEFINE U == UNION {{i} \X (1 .. execs[i[1]][i[2]]) : i \in Calls}
               R == Ran(execs)
               f == [i \in R |-> <<i, 1>>]
    <2>1. heap = Cardinality(Stored(reply_window_)) + Cardinality(R)
        BY Zenon DEF BuffersOK, HeapExact, AllOnce
    <2>2. \A i \in Calls : execs[i[1]][i[2]] \in {0, 1}
        <3>1. \A c \in Clients, x \in Xids : execs[c][x] \in {0, 1}
            <4>1. \A c \in Clients, x \in Xids : execs[c][x] \in Nat /\ execs[c][x] <= 1
                BY BufferTypes, Zenon
            <4> QED BY <4>1
        <3>2. \A i \in Calls : i[1] \in Clients /\ i[2] \in Xids
            BY DEF Calls
        <3> QED BY <3>1, <3>2, Zenon
    <2>3. U = {<<i, 1>> : i \in R}
        <3>1. \A i \in Calls : i \in R => {i} \X (1 .. execs[i[1]][i[2]]) = {<<i, 1>>}
            BY <2>2 DEF Ran
        <3>2. \A i \in Calls : i \notin R => {i} \X (1 .. execs[i[1]][i[2]]) = {}
            BY <2>2 DEF Ran
        <3>3. R \subseteq Calls
            BY Zenon DEF Ran
        <3> DEFINE V(i) == {i} \X (1 .. execs[i[1]][i[2]])
        <3>4. (\A i \in R : V(i) = {<<i, 1>>}) /\ (\A i \in Calls : i \notin R => V(i) = {})
            BY <3>1, <3>2, <3>3, Zenon
        <3>5. U = UNION {V(i) : i \in Calls}
            OBVIOUS
        <3> HIDE DEF R, V, U
        <3>6. ASSUME NEW y \in U PROVE y \in {<<i, 1>> : i \in R}
            <4>1. PICK i \in Calls : y \in V(i)
                BY <3>5, Zenon
            <4>2. i \in R /\ y \in {<<i, 1>>}
                BY <3>4, <4>1, Zenon
            <4> QED BY <4>2, Zenon
        <3>7. ASSUME NEW i \in R PROVE <<i, 1>> \in U
            <4>1. i \in Calls /\ <<i, 1>> \in V(i)
                BY <3>3, <3>4, Zenon
            <4> QED BY <3>5, <4>1, Zenon
        <3> QED BY <3>6, <3>7, Zenon
    <2>4. f \in Bijection(R, U)
        <3>1. \A i, j \in R : <<i, 1>> = <<j, 1>> => i = j
            OBVIOUS
        <3> HIDE DEF R, U
        <3> QED BY <2>3, <3>1, Zenon DEF Bijection, Injection, Surjection, IsInjective
    <2>5. Cardinality(U) = Cardinality(R)
        <3>1. IsFiniteSet(R) /\ ExistsBijection(R, U)
            BY <2>4, CallsFinite, Zenon DEF ExistsBijection
        <3> HIDE DEF R, U
        <3> QED BY <3>1, FS_Bijection, Zenon
    <2> QED BY <2>1, <2>5, Zenon DEF Stored, Calls
<1> QED BY <1>1, <1>2, <1>3, TypeCorrect, PTL DEF Spec
====
