----------------------------- MODULE RpcClient -----------------------------
(***************************************************************************)
(* class rpcc: the client side of the RPC library.  Every call runs in a   *)
(* thread of its own (rpcc::call1); replies are handled by the thread of   *)
(* the PollMgr (rpcc::got_pdu).  One action per critical section.          *)
(*                                                                         *)
(* pc[c][x] is where the call with xid x of client c stands:               *)
(*   none      not made yet                                                *)
(*   connect   about to take the current connection (get_refconn)          *)
(*   send      about to send the request on it                             *)
(*   wait      in the timed wait for the reply                             *)
(*   timedout  woken by a timeout, no longer holding ca.m                  *)
(*   leave     out of the loop, about to leave calls_                      *)
(*   returned                                                              *)
(* The call is in the map calls_ from connect to leave.                    *)
(***************************************************************************)
EXTENDS RpcWire, XidWindow

CONSTANTS
    MaxThreads,  \* bound: calls of one rpcc that are outstanding at a time
    MaxRounds    \* timed waits of a call until its final deadline

ASSUME ClientAssumption ==
    /\ MaxThreads \in Nat
    /\ MaxRounds \in Nat \ {0}

VARIABLES
    xid_,            \* the next xid
    bind_done_, srv_nonce_,
    chan_,           \* the current connection, or Null
    xid_rep_window_,
    pc,
    hdr,             \* hdr[c][x]: the header packed into the request
    ch,              \* ch[c][x]: the connection the call holds, or Null
    round,           \* round[c][x]: timed waits that have timed out
    result           \* result[c][x]: caller::done, caller::intret, and the value

clientVars == <<xid_, bind_done_, srv_nonce_, chan_, xid_rep_window_,
                pc, hdr, ch, round, result>>

Windows == [front : 0 .. MaxXid, ahead : SUBSET Xids]

NoHeader == [xid |-> 0, proc |-> "op", srv_nonce |-> 0, xid_rep |-> 0]
NoResult == [done |-> FALSE, ret |-> "timeout", val |-> 0]

ClientTypeOK ==
    /\ xid_ \in [Clients -> 1 .. MaxXid + 1]
    /\ bind_done_ \in [Clients -> BOOLEAN]
    /\ srv_nonce_ \in [Clients -> Nat]
    /\ chan_ \in [Clients -> Conns \cup {Null}]
    /\ xid_rep_window_ \in [Clients -> Windows]
    /\ pc \in [Clients -> [Xids -> {"none", "connect", "send", "wait", "timedout",
                                    "leave", "returned"}]]
    /\ hdr \in [Clients -> [Xids -> Headers \cup {NoHeader}]]
    /\ ch \in [Clients -> [Xids -> Conns \cup {Null}]]
    /\ round \in [Clients -> [Xids -> 0 .. MaxRounds]]
    /\ result \in [Clients -> [Xids -> [done : BOOLEAN, ret : Rets, val : Nat]]]

ClientInit ==
    /\ xid_ = [c \in Clients |-> 1]
    /\ bind_done_ = [c \in Clients |-> FALSE]
    /\ srv_nonce_ = [c \in Clients |-> 0]
    /\ chan_ = [c \in Clients |-> Null]
    /\ xid_rep_window_ = [c \in Clients |-> EmptyWindow]
    /\ pc = [c \in Clients |-> [x \in Xids |-> "none"]]
    /\ hdr = [c \in Clients |-> [x \in Xids |-> NoHeader]]
    /\ ch = [c \in Clients |-> [x \in Xids |-> Null]]
    /\ round = [c \in Clients |-> [x \in Xids |-> 0]]
    /\ result = [c \in Clients |-> [x \in Xids |-> NoResult]]

\* The calls in the map calls_.
InCalls(c, x) == pc[c][x] \notin {"none", "returned"}

\* The calls that have their answer, or were given up.
Over(c, x) == pc[c][x] = "returned" \/ result[c][x].done

\* The calls that the client acknowledges: the server may forget them.
Acked(c, x) == x \in Covered(xid_rep_window_[c])

-----------------------------------------------------------------------------
(***************************************************************************)
(* rpcc::call1, first critical section.  An unbound rpcc may only bind, a  *)
(* bound one may not bind again; the other calls return bind_failure and   *)
(* change nothing.  All copies of the request carry the header packed here.*)
(***************************************************************************)
StartCall(c, proc) ==
    LET x == xid_[c]
    IN  /\ proc = "bind" <=> ~bind_done_[c]
        /\ x <= MaxXid
        /\ Cardinality({y \in Xids : InCalls(c, y)}) < MaxThreads
        /\ xid_' = [xid_ EXCEPT ![c] = x + 1]
        /\ hdr' = [hdr EXCEPT ![c][x] =
                     [xid |-> x, proc |-> proc, srv_nonce |-> srv_nonce_[c],
                      xid_rep |-> xid_rep_window_[c].front]]
        /\ pc' = [pc EXCEPT ![c][x] = "connect"]
        /\ UNCHANGED <<bind_done_, srv_nonce_, chan_, xid_rep_window_, ch, round, result>>
        /\ UNCHANGED wireVars

\* A connection pointer is neither null nor dead.
Usable(c, k) == k # Null /\ Live(cconn[c], k)

\* The result of connect_to_dst: a connection never used before, or Null when
\* it fails (and when the bound on connections is reached).
FreshConns(c) ==
    {k \in Conns : link[c][k] = "none" /\ \A j \in Conns : j < k => link[c][j] # "none"}
        \cup {Null}

\* Mutant of GetRefconn: the call does not let go of the connection it held.
GetRefconnKeepsOld(c, x) ==
    /\ pc[c][x] = "connect"
    /\ \E k \in IF Usable(c, chan_[c]) THEN {chan_[c]} ELSE FreshConns(c) :
          /\ chan_' = [chan_ EXCEPT ![c] = k]
          /\ IF k = chan_[c] \/ k = Null
             THEN /\ cconn' = [cconn EXCEPT ![c] =
                                 IF k = Null THEN DecrefIf(@, chan_[c]) ELSE Incref(@, k)]
                  /\ UNCHANGED link
             ELSE /\ cconn' = [cconn EXCEPT ![c] =
                                 Incref(Created(DecrefIf(@, chan_[c]), k), k)]
                  /\ link' = [link EXCEPT ![c][k] = "up"]
          /\ ch' = [ch EXCEPT ![c][x] = IF k = Null THEN @ ELSE k]
    /\ pc' = [pc EXCEPT ![c][x] = "send"]
    /\ UNCHANGED <<xid_, bind_done_, srv_nonce_, xid_rep_window_, hdr, round, result>>
    /\ UNCHANGED <<sconn, reqs, reps>>

(***************************************************************************)
(* rpcc::get_refconn: replace a missing or dead channel, then let the call *)
(* hold the channel instead of the connection it held.  When connecting    *)
(* fails the call keeps what it held.                                      *)
(***************************************************************************)
GetRefconn(c, x) ==
    /\ pc[c][x] = "connect"
    /\ \/ /\ Usable(c, chan_[c])
          /\ cconn' = [cconn EXCEPT ![c] =
                         Incref(DecrefIf(@, ch[c][x]), chan_[c])]
          /\ ch' = [ch EXCEPT ![c][x] = chan_[c]]
          /\ UNCHANGED <<chan_, link>>
       \/ /\ ~Usable(c, chan_[c])
          /\ \E k \in FreshConns(c) :
                LET dropped == DecrefIf(cconn[c], chan_[c])
                IN  /\ chan_' = [chan_ EXCEPT ![c] = k]
                    /\ IF k = Null
                       THEN /\ cconn' = [cconn EXCEPT ![c] = dropped]
                            /\ UNCHANGED <<ch, link>>
                       ELSE /\ link' = [link EXCEPT ![c][k] = "up"]
                            /\ ch' = [ch EXCEPT ![c][x] = k]
                            /\ cconn' = [cconn EXCEPT ![c] =
                                  Incref(DecrefIf(Created(dropped, k), ch[c][x]), k)]
    /\ pc' = [pc EXCEPT ![c][x] = "send"]
    /\ UNCHANGED <<xid_, bind_done_, srv_nonce_, xid_rep_window_, hdr, round, result>>
    /\ UNCHANGED <<sconn, reqs, reps>>

\* Past the final deadline there is no further wait.
AfterSend(c, x) == IF round[c][x] = MaxRounds THEN "leave" ELSE "wait"

\* if (ch) ch->send(...): the request goes out once on the connection held.  The step
\* is the end of the send, which may come late or, while the connection is alive,
\* never: no fairness is assumed of it then (Rpc).
SendRequest(c, x) ==
    /\ pc[c][x] = "send"
    /\ pc' = [pc EXCEPT ![c][x] = AfterSend(c, x)]
    /\ IF ch[c][x] = Null
       THEN UNCHANGED <<cconn, reqs, reps>>
       ELSE \E o \in SendOutcomes(cconn[c], c, ch[c][x]) :
               /\ cconn' = [cconn EXCEPT ![c] = o.conns]
               /\ reqs' = IF o.sent
                          THEN reqs \cup {[clt |-> c, conn |-> ch[c][x], hdr |-> hdr[c][x]]}
                          ELSE reqs
               /\ reps' = IF Live(o.conns, ch[c][x]) THEN reps
                          ELSE WithoutConn(reps, c, ch[c][x])
    /\ UNCHANGED <<xid_, bind_done_, srv_nonce_, chan_, xid_rep_window_, hdr, ch, round, result>>
    /\ UNCHANGED <<link, sconn>>

\* Mutant of TimeOut: the final deadline moves with every wait.
TimeOutMovesDeadline(c, x) ==
    /\ pc[c][x] = "wait"
    /\ ~result[c][x].done
    /\ pc' = [pc EXCEPT ![c][x] = "timedout"]
    /\ UNCHANGED <<xid_, bind_done_, srv_nonce_, chan_, xid_rep_window_, hdr, ch, round, result>>
    /\ UNCHANGED wireVars

\* pthread_cond_timedwait returns ETIMEDOUT and no reply has come.
TimeOut(c, x) ==
    /\ pc[c][x] = "wait"
    /\ ~result[c][x].done
    /\ pc' = [pc EXCEPT ![c][x] = "timedout"]
    /\ round' = [round EXCEPT ![c][x] = @ + 1]
    /\ UNCHANGED <<xid_, bind_done_, srv_nonce_, chan_, xid_rep_window_, hdr, ch, result>>
    /\ UNCHANGED wireVars

(***************************************************************************)
(* The rest of the loop body, after ca.m is released: retransmit if the    *)
(* connection is missing or dead (even when the final deadline has passed, *)
(* and even when the reply has come in since), else wait again or leave.   *)
(***************************************************************************)
NextRound(c, x) ==
    /\ pc[c][x] = "timedout"
    /\ pc' = [pc EXCEPT ![c][x] =
                IF Usable(c, ch[c][x]) THEN AfterSend(c, x) ELSE "connect"]
    /\ UNCHANGED <<xid_, bind_done_, srv_nonce_, chan_, xid_rep_window_, hdr, ch, round, result>>
    /\ UNCHANGED wireVars

(***************************************************************************)
(* The end of call1: the call leaves calls_ and is acknowledged, answered  *)
(* or not.  rpcc::bind then stores the nonce it was answered with; only a  *)
(* second bind could begin in between, and that is as if it began before.  *)
(***************************************************************************)
FinishCall(c, x) ==
    /\ pc[c][x] = "leave" \/ (pc[c][x] = "wait" /\ result[c][x].done)
    /\ pc' = [pc EXCEPT ![c][x] = "returned"]
    /\ \E w \in UpdateXidRep(xid_rep_window_[c], x) :
          xid_rep_window_' = [xid_rep_window_ EXCEPT ![c] = w]
    /\ cconn' = [cconn EXCEPT ![c] = DecrefIf(@, ch[c][x])]
    /\ ch' = [ch EXCEPT ![c][x] = Null]
    /\ IF hdr[c][x].proc = "bind" /\ result[c][x].done /\ result[c][x].ret = "ok"
       THEN /\ bind_done_' = [bind_done_ EXCEPT ![c] = TRUE]
            /\ srv_nonce_' = [srv_nonce_ EXCEPT ![c] = result[c][x].val]
       ELSE UNCHANGED <<bind_done_, srv_nonce_>>
    /\ UNCHANGED <<xid_, chan_, hdr, round, result>>
    /\ UNCHANGED <<link, sconn, reqs, reps>>

(***************************************************************************)
(* rpcc::got_pdu, in the PollMgr's thread: the xid is acknowledged, and    *)
(* the call gets the reply if it is still in calls_ and has none.          *)
(***************************************************************************)
GotReply(r) ==
    LET c == r.clt
        x == r.xid
    IN  /\ Live(cconn[c], r.conn)
        /\ reps' = reps \ {r}
        /\ \E w \in UpdateXidRep(xid_rep_window_[c], x) :
              xid_rep_window_' = [xid_rep_window_ EXCEPT ![c] = w]
        /\ result' = IF InCalls(c, x) /\ ~result[c][x].done
                     THEN [result EXCEPT ![c][x] =
                             [done |-> TRUE, ret |-> r.ret, val |-> r.val]]
                     ELSE result
        /\ UNCHANGED <<xid_, bind_done_, srv_nonce_, chan_, pc, hdr, ch, round>>
        /\ UNCHANGED <<link, cconn, sconn, reqs>>

\* What the thread of a call does.
ClientStep(c, x) ==
    \/ GetRefconn(c, x)
    \/ SendRequest(c, x)
    \/ TimeOut(c, x)
    \/ NextRound(c, x)
    \/ FinishCall(c, x)
=============================================================================
