----------------------------- MODULE Connection -----------------------------
(***************************************************************************)
(* One connection object, the threads that send on it, its owner, and the  *)
(* thread of the PollMgr, which waits in select and makes the callbacks.   *)
(* A critical section of connection::m_ or PollMgr::m_ is one action.      *)
(*                                                                         *)
(* Bytes come in units.  A PDU to send has WSize units; the PDUs to read   *)
(* are those of Stream, a sequence that has the number of the PDU for each *)
(* of its units, the first of them being its header (the size).            *)
(*                                                                         *)
(* spc[s] is where thread s stands in connection::send:                    *)
(*   idle       about to call send                                         *)
(*   sendwait   waiting on send_wait_           sending   woken from it    *)
(*   complete   waiting on send_complete_       finish    woken from it    *)
(*   remove     the write has failed: about to call block_remove_fd        *)
(*   removing   waiting on changedone_c_        removed   woken from it    *)
(*   returned, released (and it no longer holds the connection)            *)
(* The owner (chan_ of rpcc, or the listener) has opc, likewise.           *)
(***************************************************************************)
EXTENDS Integers, Sequences, FiniteSets

CONSTANTS
    Senders,     \* threads that send, one PDU each
    WSize,       \* units of a PDU to send
    Room,        \* units that the kernel buffers for the socket
    Stream,      \* the units that the peer sends
    MaxRefuse    \* bound: PDUs that the manager refuses, its queue being full

Nobody == "nobody"

\* The PDUs to read come one after another and are numbered from 1; each has a
\* header and a body.
ASSUME ConnectionAssumption ==
    /\ IsFiniteSet(Senders) /\ Nobody \notin Senders
    /\ WSize \in Nat \ {0} /\ Room \in Nat \ {0}
    /\ Stream \in Seq(Nat \ {0})
    /\ \A p, q \in DOMAIN Stream : p < q => Stream[p] <= Stream[q]
    /\ \A p \in DOMAIN Stream : \A i \in 1 .. Stream[p] : \E q \in DOMAIN Stream : Stream[q] = i
    /\ \A p \in DOMAIN Stream : \E q \in DOMAIN Stream : q # p /\ Stream[q] = Stream[p]
    /\ MaxRefuse \in Nat

VARIABLES
    dead_, refno_, deleted,
    wpdu_,           \* the PDU being sent: buf (the sender, or Nobody), sz, solong
    rpdu_,           \* the PDU being read: buf (its number, or 0), sz, solong
    spc, sret,       \* sret[s]: what send returned
    opc,
    callbacks_,      \* whether callbacks_[fd_] is set
    rfds_, wfds_,    \* whether select is to watch the descriptor
    pipe,            \* bytes in the pipe that wakes select
    pending_change_,
    ppc,             \* where the PollMgr's thread stands
    readable, writable,
    link,            \* the socket: "up", "down" (the peer is gone), "shut"
    room,            \* units that the socket can take
    rpos, wpos,      \* units of Stream that were read, and that have arrived
    refused,
    out,             \* history: the senders of the units written
    delivered,       \* history: the PDUs that the manager has taken
    gone,            \* history: a block_remove_fd has returned
    woken,           \* history: its wait ended for no reason
    aborted          \* an assertion has failed

object == <<dead_, refno_, deleted>>
sending == <<wpdu_, spc, sret, out>>
reading == <<rpdu_, rpos, refused, delivered>>
watched == <<callbacks_, rfds_, wfds_, pipe>>
poll == <<ppc, readable, writable>>
socket == <<link, room, wpos>>
rest == <<gone, woken, aborted>>
vars == <<object, sending, reading, opc, watched, pending_change_, poll, socket, rest>>

NoWrite == [buf |-> Nobody, sz |-> 0, solong |-> 0]
NoRead == [buf |-> 0, sz |-> 0, solong |-> 0]
PduSize(i) == Cardinality({p \in DOMAIN Stream : Stream[p] = i})

\* connection::connection: it is watched for reading.
Init ==
    /\ dead_ = FALSE /\ deleted = FALSE
    /\ refno_ = Cardinality(Senders) + 1
    /\ wpdu_ = NoWrite /\ rpdu_ = NoRead
    /\ spc = [s \in Senders |-> "idle"]
    /\ sret = [s \in Senders |-> FALSE]
    /\ opc = "hold"
    /\ callbacks_ = TRUE /\ rfds_ = TRUE /\ wfds_ = FALSE /\ pipe = 1
    /\ pending_change_ = FALSE
    /\ ppc = "top" /\ readable = FALSE /\ writable = FALSE
    /\ link = "up" /\ room = Room
    /\ rpos = 0 /\ wpos = 0
    /\ refused = 0
    /\ out = <<>> /\ delivered = <<>>
    /\ gone = FALSE /\ woken = FALSE /\ aborted = FALSE

-----------------------------------------------------------------------------
(* The socket (external).                                                  *)

\* Units arrive from the peer.
Arrive ==
    /\ link = "up"
    /\ \E n \in wpos + 1 .. Len(Stream) : wpos' = n
    /\ UNCHANGED <<link, room>>
    /\ UNCHANGED <<object, sending, reading, opc, watched, pending_change_, poll, rest>>

\* The peer reads what was written.
Drain ==
    /\ link = "up"
    /\ room < Room
    /\ room' = Room
    /\ UNCHANGED <<link, wpos>>
    /\ UNCHANGED <<object, sending, reading, opc, watched, pending_change_, poll, rest>>

\* The peer closes, or the network fails; what was not read may be lost.  Just
\* before a send, this is also the shutdown that the lossy test makes there.
Break ==
    /\ link = "up"
    /\ link' = "down"
    /\ wpos' \in {wpos, rpos}
    /\ UNCHANGED room
    /\ UNCHANGED <<object, sending, reading, opc, watched, pending_change_, poll, rest>>

-----------------------------------------------------------------------------
(* PollMgr, as the connection uses it.                                     *)

\* add_callback(fd_, CB_WRONLY, this); watch_fd wakes select.
AddWriteCallback ==
    /\ callbacks_' = TRUE /\ wfds_' = TRUE /\ pipe' = pipe + 1
    /\ UNCHANGED rfds_

\* Mutant of DelWriteCallback: the descriptor is not watched for reading either.
DelWriteCallbackBoth ==
    /\ wfds_' = FALSE /\ rfds_' = FALSE /\ callbacks_' = FALSE
    /\ UNCHANGED pipe

\* del_callback(fd_, CB_WRONLY)
DelWriteCallback ==
    /\ wfds_' = FALSE
    /\ callbacks_' = (callbacks_ /\ rfds_)
    /\ UNCHANGED <<rfds_, pipe>>

\* del_callback(fd_, CB_RDWR); unwatch_fd wakes select.
DelCallbacks ==
    /\ callbacks_' = FALSE /\ rfds_' = FALSE /\ wfds_' = FALSE /\ pipe' = pipe + 1

\* block_remove_fd, until it waits for the next turn of wait_loop.
BlockRemove ==
    /\ rfds_' = FALSE /\ wfds_' = FALSE /\ pipe' = pipe + 1
    /\ pending_change_' = TRUE
    /\ UNCHANGED callbacks_

\* Mutant of BlockRemoved: the callback stays.
BlockRemovedKeeps ==
    /\ gone' = TRUE
    /\ UNCHANGED <<callbacks_, rfds_, wfds_, pipe, pending_change_>>

\* block_remove_fd, after the wait.
BlockRemoved ==
    /\ callbacks_' = FALSE
    /\ gone' = TRUE
    /\ UNCHANGED <<rfds_, wfds_, pipe, pending_change_>>

-----------------------------------------------------------------------------
(* connection::send                                                        *)

\* The outcomes of writepdu: whether it succeeds, the PDU afterwards, the units
\* that the kernel has taken.  EAGAIN counts as success.
Writes(pdu) ==
    LET left == pdu.sz - pdu.solong
        took(n) == [ok |-> TRUE, pdu |-> [pdu EXCEPT !.solong = @ + n], n |-> n]
        failed == [ok |-> FALSE, pdu |-> [buf |-> pdu.buf, sz |-> 0, solong |-> -1], n |-> 0]
    IN  IF left = 0 THEN {took(0)}
        ELSE IF link = "up" THEN {took(IF left < room THEN left ELSE room)}
        ELSE IF link = "down" THEN {failed, took(left)}
        ELSE {failed}

\* The effect on socket and history of a write by the sender of the PDU.
Wrote(w) ==
    /\ room' = IF link = "up" THEN room - w.n ELSE room
    /\ out' = out \o [i \in 1 .. w.n |-> w.pdu.buf]
    /\ UNCHANGED <<link, wpos>>

\* send returns: the next PDU may be sent.
Return(s, ret) ==
    /\ sret' = [sret EXCEPT ![s] = ret]
    /\ wpdu_' = NoWrite
    /\ spc' = [t \in Senders |-> IF t = s THEN "returned"
                                 ELSE IF spc[t] = "sendwait" THEN "sending" ELSE spc[t]]

\* The connection is dead, or another PDU is being sent.
SendNot(s) ==
    /\ spc[s] \in {"idle", "sending"}
    /\ dead_ \/ wpdu_.buf # Nobody
    /\ spc' = [spc EXCEPT ![s] = IF dead_ THEN "returned" ELSE "sendwait"]
    /\ UNCHANGED <<wpdu_, sret, out>>
    /\ UNCHANGED <<object, reading, opc, watched, pending_change_, poll, socket, rest>>

\* Mutant of MaySend: one PDU does not wait for another.
MaySendAny(s) == spc[s] \in {"idle", "sending"} /\ ~dead_

MaySend(s) == spc[s] \in {"idle", "sending"} /\ ~dead_ /\ wpdu_.buf = Nobody

\* The PDU is written, as much of it as the kernel takes.
Send(s) ==
    /\ MaySend(s)
    /\ \E w \in Writes([buf |-> s, sz |-> WSize, solong |-> 0]) :
          /\ Wrote(w)
          /\ \/ /\ ~w.ok
                /\ dead_' = TRUE
                /\ wpdu_' = w.pdu
                /\ spc' = [spc EXCEPT ![s] = "remove"]
                /\ UNCHANGED <<sret, watched>>
             \/ /\ w.ok /\ w.pdu.solong = w.pdu.sz
                /\ Return(s, TRUE)
                /\ UNCHANGED <<dead_, watched>>
             \/ /\ w.ok /\ w.pdu.solong < w.pdu.sz
                /\ AddWriteCallback
                /\ wpdu_' = w.pdu
                /\ spc' = [spc EXCEPT ![s] = "complete"]
                /\ UNCHANGED <<dead_, sret>>
    /\ UNCHANGED <<refno_, deleted, reading, opc, pending_change_, poll, rest>>

\* Woken on send_complete_.
Finish(s) ==
    /\ spc[s] = "finish"
    /\ Return(s, ~dead_ /\ wpdu_.solong = wpdu_.sz)
    /\ UNCHANGED <<out, object, reading, opc, watched, pending_change_, poll, socket, rest>>

\* Mutant of Remove: block_remove_fd does not wait.
RemoveAtOnce(s) ==
    /\ spc[s] = "remove"
    /\ BlockRemove
    /\ spc' = [spc EXCEPT ![s] = "removed"]
    /\ UNCHANGED <<wpdu_, sret, out, object, reading, opc, poll, socket, rest>>

Remove(s) ==
    /\ spc[s] = "remove"
    /\ BlockRemove
    /\ spc' = [spc EXCEPT ![s] = "removing"]
    /\ UNCHANGED <<wpdu_, sret, out, object, reading, opc, poll, socket, rest>>

Removed(s) ==
    /\ spc[s] = "removed"
    /\ BlockRemoved
    /\ Return(s, FALSE)
    /\ UNCHANGED <<out, object, reading, opc, poll, socket, woken, aborted>>

\* decref: the last holder of a dead connection deletes it.
Decref ==
    /\ refno_' = refno_ - 1
    /\ deleted' = (refno_ = 1 /\ dead_)
    /\ UNCHANGED dead_

Release(s) ==
    /\ spc[s] = "returned"
    /\ Decref
    /\ spc' = [spc EXCEPT ![s] = "released"]
    /\ UNCHANGED <<wpdu_, sret, out, reading, opc, watched, pending_change_, poll, socket, rest>>

SenderStep(s) ==
    SendNot(s) \/ Send(s) \/ Finish(s) \/ Remove(s) \/ Removed(s) \/ Release(s)

-----------------------------------------------------------------------------
(* The owner.                                                              *)

\* get_refconn, or process_accept: a dead connection is let go.
Drop ==
    /\ opc = "hold"
    /\ dead_
    /\ Decref
    /\ opc' = "released"
    /\ UNCHANGED <<sending, reading, watched, pending_change_, poll, socket, rest>>

\* closeconn, called by the destructors of rpcc and tcpsconn.
Close ==
    /\ opc = "hold"
    /\ ~dead_
    /\ dead_' = TRUE
    /\ link' = "shut"
    /\ opc' = "remove"
    /\ UNCHANGED <<room, wpos, refno_, deleted>>
    /\ UNCHANGED <<sending, reading, watched, pending_change_, poll, rest>>

CloseRemove ==
    /\ opc = "remove"
    /\ BlockRemove
    /\ opc' = "removing"
    /\ UNCHANGED <<object, sending, reading, poll, socket, rest>>

\* closeconn returns, and the owner lets go.
CloseRemoved ==
    /\ opc = "removed"
    /\ BlockRemoved
    /\ Decref
    /\ opc' = "released"
    /\ UNCHANGED <<sending, reading, poll, socket, woken, aborted>>

OwnerStep == Drop \/ Close \/ CloseRemove \/ CloseRemoved

-----------------------------------------------------------------------------
(* The thread of the PollMgr: wait_loop and wait_ready.                    *)

Wake(p) == IF p = "removing" THEN "removed" ELSE p

\* The changes so far are announced.
Top ==
    /\ ppc = "top"
    /\ ppc' = "copy"
    /\ pending_change_' = FALSE
    /\ spc' = IF pending_change_ THEN [s \in Senders |-> Wake(spc[s])] ELSE spc
    /\ opc' = IF pending_change_ THEN Wake(opc) ELSE opc
    /\ UNCHANGED <<object, wpdu_, sret, out, reading, watched, readable, writable, socket, rest>>

\* wait_ready copies the sets of descriptors.
Copy ==
    /\ ppc = "copy"
    /\ ppc' = "select"
    /\ readable' = rfds_ /\ writable' = wfds_
    /\ UNCHANGED <<object, sending, reading, opc, watched, pending_change_, socket, rest>>

\* select returns with what is ready.
Select ==
    LET r == readable /\ (rpos < wpos \/ link # "up")
        w == writable /\ (room > 0 \/ link # "up")
    IN  /\ ppc = "select"
        /\ pipe > 0 \/ r \/ w
        /\ pipe' = IF pipe > 0 THEN pipe - 1 ELSE 0
        /\ readable' = r /\ writable' = w
        /\ ppc' = IF r \/ w THEN "read" ELSE "top"
        /\ UNCHANGED <<callbacks_, rfds_, wfds_>>
        /\ UNCHANGED <<object, sending, reading, opc, pending_change_, socket, rest>>

\* if (callbacks_[fd]) ..., without m_
Check ==
    /\ \/ ppc = "read" /\ ppc' = IF readable /\ callbacks_ THEN "inread" ELSE "write"
       \/ ppc = "write" /\ ppc' = IF writable /\ callbacks_ THEN "inwrite" ELSE "top"
    /\ UNCHANGED <<readable, writable>>
    /\ UNCHANGED <<object, sending, reading, opc, watched, pending_change_, socket, rest>>

\* The sender that waits on send_complete_ is woken.
SignalComplete ==
    spc' = [s \in Senders |-> IF spc[s] = "complete" THEN "finish" ELSE spc[s]]

WriteCb ==
    /\ ppc = "inwrite"
    /\ ppc' = "top"
    /\ \/ /\ dead_                                       \* assert(!dead_)
          /\ aborted' = TRUE
          /\ UNCHANGED <<dead_, sending, watched, socket>>
       \/ /\ ~dead_ /\ wpdu_.sz = 0
          /\ DelWriteCallback
          /\ UNCHANGED <<dead_, sending, socket, aborted>>
       \/ /\ ~dead_ /\ wpdu_.sz # 0
          /\ \E w \in Writes(wpdu_) :
                /\ Wrote(w)
                /\ wpdu_' = w.pdu
                /\ dead_' = ~w.ok
                /\ IF w.ok THEN UNCHANGED watched ELSE DelCallbacks
                /\ IF w.ok /\ w.pdu.solong < w.pdu.sz THEN UNCHANGED spc ELSE SignalComplete
          /\ UNCHANGED <<sret, aborted>>
    /\ UNCHANGED <<refno_, deleted, reading, opc, pending_change_, readable, writable, gone, woken>>

(***************************************************************************)
(* The outcomes of readpdu: whether it succeeds, the PDU afterwards, and   *)
(* the position in Stream.  A header that arrives in pieces is a failure.  *)
(* When the body ends early, errno may still be EAGAIN from an earlier     *)
(* call on any connection, and readpdu then reports success.               *)
(***************************************************************************)
Body(pdu, pos) ==
    LET need == pdu.sz - pdu.solong
        n == IF wpos - pos < need THEN wpos - pos ELSE need
        stay == [ok |-> TRUE, pdu |-> pdu, pos |-> pos]
    IN  IF n > 0 THEN {[ok |-> TRUE, pdu |-> [pdu EXCEPT !.solong = @ + n], pos |-> pos + n]}
        ELSE IF link = "up" THEN {stay}
        ELSE {stay, [ok |-> FALSE, pdu |-> NoRead, pos |-> pos]}

Reads ==
    IF rpdu_.sz # 0 THEN Body(rpdu_, rpos)
    ELSE IF rpos = wpos THEN {[ok |-> FALSE, pdu |-> NoRead, pos |-> rpos]}
    ELSE LET i == Stream[rpos + 1]
         IN  Body([buf |-> i, sz |-> PduSize(i), solong |-> 1], rpos + 1)
               \cup (IF wpos = rpos + 1 THEN {[ok |-> FALSE, pdu |-> NoRead, pos |-> wpos]}
                     ELSE {})

Full(pdu) == pdu.buf # 0 /\ pdu.sz = pdu.solong

\* Mutant of GotPdu: the PDU is kept when the manager has taken it.
GotPduKeeps(pdu) ==
    /\ rpdu_' = pdu
    /\ delivered' = IF Full(pdu) THEN Append(delivered, pdu.buf) ELSE delivered
    /\ UNCHANGED refused

\* mgr_->got_pdu takes a PDU that is complete, or refuses it.
GotPdu(pdu) ==
    \/ /\ ~Full(pdu)
       /\ rpdu_' = pdu
       /\ UNCHANGED <<delivered, refused>>
    \/ /\ Full(pdu)
       /\ rpdu_' = NoRead
       /\ delivered' = Append(delivered, pdu.buf)
       /\ UNCHANGED refused
    \/ /\ Full(pdu) /\ refused < MaxRefuse
       /\ rpdu_' = pdu
       /\ refused' = refused + 1
       /\ UNCHANGED delivered

\* Mutant of Died: the sender is not woken.
DiedSilently == dead_' = TRUE /\ DelCallbacks /\ UNCHANGED spc

\* The read has failed.
Died == dead_' = TRUE /\ DelCallbacks /\ SignalComplete

ReadCb ==
    /\ ppc = "inread"
    /\ ppc' = "write"
    /\ \/ dead_ /\ UNCHANGED <<dead_, spc, reading, watched>>
       \/ /\ ~dead_
          /\ \E r \in IF Full(rpdu_) THEN {[ok |-> TRUE, pdu |-> rpdu_, pos |-> rpos]} ELSE Reads :
                /\ rpos' = r.pos
                /\ GotPdu(r.pdu)
                /\ IF r.ok THEN UNCHANGED <<dead_, spc, watched>> ELSE Died
    /\ UNCHANGED <<refno_, deleted, wpdu_, sret, out, opc, pending_change_, readable, writable,
                   socket, rest>>

PollStep == Top \/ Copy \/ Select \/ Check \/ WriteCb \/ ReadCb

-----------------------------------------------------------------------------
\* A wait on a condition variable ends for no reason: on send_wait_ ...
WakeSender ==
    /\ \E s \in Senders : spc[s] = "sendwait" /\ spc' = [spc EXCEPT ![s] = "sending"]
    /\ UNCHANGED <<object, wpdu_, sret, out, reading, opc, watched, pending_change_, poll,
                   socket, rest>>

\* ... and on changedone_c_.
WakeRemover ==
    /\ \/ /\ \E s \in Senders : spc[s] = "removing" /\ spc' = [spc EXCEPT ![s] = "removed"]
          /\ UNCHANGED opc
       \/ opc = "removing" /\ opc' = "removed" /\ UNCHANGED spc
    /\ woken' = TRUE
    /\ UNCHANGED <<object, wpdu_, sret, out, reading, watched, pending_change_, poll, socket,
                   gone, aborted>>

Next ==
    /\ ~aborted
    /\ \/ Arrive
       \/ Drain
       \/ Break
       \/ \E s \in Senders : SenderStep(s)
       \/ OwnerStep
       \/ PollStep
       \/ WakeSender
       \/ WakeRemover

Spec == Init /\ [][Next]_vars

-----------------------------------------------------------------------------
(* Properties.                                                             *)

\* Whether the PollMgr's thread uses the connection or its descriptor.
InUse == ppc \in {"inread", "inwrite"} \/ (ppc = "select" /\ (readable \/ writable))

(***************************************************************************)
(* PDUs go out whole and one after another, whoever writes the parts of    *)
(* them (send, or write_cb in the PollMgr's thread); only the last one may *)
(* be cut short.  send returns true only for a PDU that went out whole.    *)
(***************************************************************************)
WritesWhole ==
    LET count(s) == Cardinality({i \in DOMAIN out : out[i] = s})
    IN  /\ \A i, j \in DOMAIN out : i < j /\ out[i] # out[j] =>
              /\ count(out[i]) = WSize
              /\ \A k \in j .. Len(out) : out[k] # out[i]
        /\ \A s \in Senders : sret[s] => count(s) = WSize

(***************************************************************************)
(* read_cb hands over every PDU once, in order, although PDUs arrive in    *)
(* parts, several at a time, and may be refused.                           *)
(***************************************************************************)
InOrder ==
    LET next == Len(delivered) + 1
    IN  /\ \A i \in DOMAIN delivered : delivered[i] = i
        /\ rpdu_.buf \in {0, next}
        /\ ~dead_ => rpos = Cardinality({p \in DOMAIN Stream : Stream[p] < next}) + rpdu_.solong

(***************************************************************************)
(* When block_remove_fd has returned, select does not wait on the          *)
(* descriptor and no callback is active ("the return guarantees that       *)
(* callbacks related to fd will never be called again"); and a connection  *)
(* is deleted, and its descriptor closed, only when no thread is in send   *)
(* and the PollMgr's thread has done with it.  The code tests no predicate *)
(* after the wait of block_remove_fd, so this is only so if that wait did  *)
(* not end for no reason.                                                  *)
(***************************************************************************)
NoUseAfterDelete ==
    ~woken =>
        /\ gone => ~InUse
        /\ deleted => ~InUse /\ ~callbacks_ /\ \A s \in Senders : spc[s] = "released"

\* The assertion of write_cb holds: a connection that is dead gets no call.
NoAbort == ~aborted

-----------------------------------------------------------------------------
\* Threads run.  The peer reads what it is sent, unless the link breaks.
FairSpec ==
    /\ Spec
    /\ \A s \in Senders : WF_vars(~aborted /\ SenderStep(s))
    /\ WF_vars(~aborted /\ PollStep)
    /\ WF_vars(~aborted /\ Drain)
    /\ WF_vars(~aborted /\ (CloseRemove \/ CloseRemoved))

(***************************************************************************)
(* send "blocks until data is sent or connection has failed", and then     *)
(* returns, unless the owner closes the connection: closeconn does not     *)
(* wake the thread that waits for its PDU to be written.                   *)
(***************************************************************************)
SendReturns ==
    \A s \in Senders : spc[s] = "idle" ~> (spc[s] = "released" \/ link = "shut" \/ aborted)

(***************************************************************************)
(* While the link is up, a PDU that has arrived whole is handed over by    *)
(* read_cb, unless the connection dies.  A PDU that the manager refuses is *)
(* offered again only when more arrives.                                   *)
(***************************************************************************)
PduDelivered ==
    \A i \in {Stream[p] : p \in DOMAIN Stream} :
        (\A p \in DOMAIN Stream : Stream[p] = i => p <= wpos)
            ~> (dead_ \/ aborted \/ refused > 0 \/ link # "up" \/ i \in {delivered[k] : k \in DOMAIN delivered})
=============================================================================
