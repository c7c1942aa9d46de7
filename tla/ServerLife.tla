----------------------------- MODULE ServerLife -----------------------------
(***************************************************************************)
(* The life of an rpcs and of its connections: the listener (tcpsconn)     *)
(* with its accept thread, the PollMgr's thread that calls the             *)
(* connections back by descriptor, the threads of the dispatch pool, and   *)
(* the thread that deletes the rpcs.  Connection has the inside of one     *)
(* connection and Rpc the calls; here it is who holds a connection, who    *)
(* deletes it, and who still has its descriptor when it is used again.     *)
(*                                                                         *)
(* One action per critical section.  A request is only the connection it   *)
(* came on: what dispatch makes of it is a choice.                         *)
(***************************************************************************)
EXTENDS Integers, FiniteSets, Sequences, FiniteSetsExt, Functions

CONSTANTS
    Conns,       \* connections that clients make, in the order of each client
    Nonce,       \* Nonce[k]: the clt_nonce of the client of k; 0 if it has none
    Fds,         \* the descriptors below MAX_POLL_FDS that the process may have for
                 \* connections
    Workers,     \* the threads of the dispatch pool (10 in the code)
    MaxQueue,    \* capacity of the pool's queue (1000 in the code)
    MaxPdus,     \* bound: requests that the clients send
    None

ASSUME ServerLifeAssumption ==
    /\ Conns \subseteq Nat /\ Fds \subseteq Nat /\ None \notin Conns \cup Fds
    /\ Nonce \in [Conns -> Nat]
    /\ Workers # {} /\ IsFiniteSet(Workers)
    /\ MaxQueue \in Nat \ {0} /\ MaxPdus \in Nat

VARIABLES
    conn,        \* conn[k]: the connection object
    link,        \* link[k]: "none", "up" or "down"
    inbox,       \* inbox[k]: requests that have arrived on k
    left,        \* how many more requests the clients may send
    listener,    \* tcpsconn::conns_: a function from descriptors to connections
    conns_,      \* rpcs::conns_: the connection to answer each client on, or None
    athread,     \* the accept thread: where it is, its iterator, its new connection
    callbacks_,  \* PollMgr::callbacks_, by descriptor
    rfds_, wfds_,\* the descriptors select waits on
    ready,       \* the readable and writable descriptors of this round, not yet served
    pending,     \* the threads that wait in block_remove_fd
    jobq,        \* the pool's queue; None is the pill that ends a thread
    wpc, wconn,  \* where each worker is in dispatch, and its connection c
    old,         \* the workers whose request is for an older instance of the server
    main,        \* the thread that deletes the rpcs: where it is, its iterator
    lost,        \* history: the connections a reference to which was never given back
    crashed      \* history: why the process has ended; "no" while it has not

pollVars == <<callbacks_, rfds_, wfds_, ready, pending>>
vars == <<conn, link, inbox, left, listener, conns_, athread, callbacks_, rfds_, wfds_,
          ready, pending, jobq, wpc, wconn, old, main, lost, crashed>>

NoConn == [st |-> "none", dead |-> FALSE, ref |-> 0, fd |-> None]
Nonces == {Nonce[k] : k \in Conns}

Init ==
    /\ conn = [k \in Conns |-> NoConn]
    /\ link = [k \in Conns |-> "none"]
    /\ inbox = [k \in Conns |-> 0]
    /\ left = MaxPdus
    /\ listener = <<>>
    /\ conns_ = [n \in Nonces |-> None]
    /\ athread = [pc |-> "select", it |-> None, ch |-> None]
    /\ callbacks_ = [f \in Fds |-> None]
    /\ rfds_ = {} /\ wfds_ = {}
    /\ ready = [r |-> {}, w |-> {}]
    /\ pending = {}
    /\ jobq = <<>>
    /\ wpc = [w \in Workers |-> "idle"]
    /\ wconn = [w \in Workers |-> None]
    /\ old = {}
    /\ main = [pc |-> "run", it |-> None]
    /\ lost = {}
    /\ crashed = "no"

-----------------------------------------------------------------------------
(* class connection, and iterators over the map of the listener            *)

Incref(cs, k) == [cs EXCEPT ![k].ref = @ + 1]

\* Without its last reference a dead connection is deleted; one that is not dead
\* stays.
Decref(cs, k) ==
    LET c == cs[k]
    IN  [cs EXCEPT ![k] = IF c.ref = 1 /\ c.dead
                          THEN [st |-> "deleted", dead |-> TRUE, ref |-> 0, fd |-> c.fd]
                          ELSE [c EXCEPT !.ref = @ - 1]]

Killed(cs, k) == [cs EXCEPT ![k].dead = TRUE]

OpenFds == {conn[k].fd : k \in {j \in Conns : conn[j].st = "open"}}

\* The first of a set of keys, or None for end().
First(keys) == IF keys = {} THEN None ELSE Min(keys)
After(i) == First({f \in DOMAIN listener : f > i})

-----------------------------------------------------------------------------
(* Clients                                                                 *)

\* A client connects, and again when its last connection is down: the kernel
\* keeps the link until it is accepted.
Connect(k) ==
    /\ link[k] = "none" /\ athread.pc # "exit"
    /\ \A j \in Conns : j < k /\ Nonce[j] = Nonce[k] => link[j] = "down"
    /\ link' = [link EXCEPT ![k] = "up"]
    /\ UNCHANGED <<conn, inbox, left, listener, conns_, athread, jobq, wpc, wconn, old, main, lost, crashed>>
    /\ UNCHANGED pollVars

Request(k) ==
    /\ link[k] = "up" /\ left > 0
    /\ left' = left - 1
    /\ inbox' = [inbox EXCEPT ![k] = @ + 1]
    /\ UNCHANGED <<conn, link, listener, conns_, athread, jobq, wpc, wconn, old, main, lost, crashed>>
    /\ UNCHANGED pollVars

\* The client closes its end, or the link breaks.
Break(k) ==
    /\ link[k] = "up"
    /\ link' = [link EXCEPT ![k] = "down"]
    /\ UNCHANGED <<conn, inbox, left, listener, conns_, athread, jobq, wpc, wconn, old, main, lost, crashed>>
    /\ UNCHANGED pollVars

-----------------------------------------------------------------------------
(* The accept thread: tcpsconn::accept_conn                                *)

Waiting == {k \in Conns : link[k] # "none" /\ conn[k].st = "none"}
PipeClosed == main.pc # "run"

\* Mutant of AcceptSelect: the pipe is not among the descriptors.
AcceptSelectNoPipe ==
    /\ athread.pc = "select" /\ Waiting # {}
    /\ athread' = [athread EXCEPT !.pc = "accept"]
    /\ UNCHANGED <<conn, link, inbox, left, listener, conns_, jobq, wpc, wconn, old, main, lost, crashed>>
    /\ UNCHANGED pollVars

\* select: the pipe goes before the clients.
AcceptSelect ==
    /\ athread.pc = "select"
    /\ \/ PipeClosed /\ athread' = [athread EXCEPT !.pc = "exit"]
       \/ ~PipeClosed /\ Waiting # {} /\ athread' = [athread EXCEPT !.pc = "accept"]
    /\ UNCHANGED <<conn, link, inbox, left, listener, conns_, jobq, wpc, wconn, old, main, lost, crashed>>
    /\ UNCHANGED pollVars

(***************************************************************************)
(* process_accept: accept takes the lowest free descriptor, and the        *)
(* constructor of the connection registers it with the PollMgr, which      *)
(* asserts that the descriptor has no callback.  With no descriptor left   *)
(* below MAX_POLL_FDS the process ends in another assertion of             *)
(* add_callback; or accept fails, if the process may have no more, and the *)
(* thread ends.                                                            *)
(***************************************************************************)
Accept(k) ==
    /\ athread.pc = "accept" /\ k \in Waiting
    /\ \/ /\ Fds \subseteq OpenFds
          /\ \/ athread' = [athread EXCEPT !.pc = "exit"] /\ UNCHANGED crashed
             \/ crashed' = "max_poll_fds" /\ UNCHANGED athread
          /\ UNCHANGED <<conn, callbacks_, rfds_>>
       \/ /\ ~(Fds \subseteq OpenFds)
          /\ LET f == Min(Fds \ OpenFds)
             IN  /\ conn' = [conn EXCEPT ![k] = [st |-> "open", dead |-> FALSE, ref |-> 1, fd |-> f]]
                 /\ callbacks_' = [callbacks_ EXCEPT ![f] = k]
                 /\ rfds_' = rfds_ \cup {f}
                 /\ crashed' = IF callbacks_[f] = None THEN crashed ELSE "add_callback"
                 /\ athread' = [pc |-> "isdead", it |-> First(DOMAIN listener), ch |-> k]
    /\ UNCHANGED <<link, inbox, left, listener, conns_, wfds_, ready, pending, jobq, wpc, wconn, old, main, lost>>

\* Mutant of CollectIsDead: the connection need not be dead.
CollectAny ==
    /\ athread.pc = "isdead" /\ athread.it # None
    /\ athread' = [athread EXCEPT !.pc = "ref"]
    /\ UNCHANGED <<conn, link, inbox, left, listener, conns_, jobq, wpc, wconn, old, main, lost, crashed>>
    /\ UNCHANGED pollVars

\* The loop that collects: isdead() of the connection at the iterator.
CollectIsDead ==
    /\ athread.pc = "isdead" /\ athread.it # None
    /\ athread' = IF conn[listener[athread.it]].dead
                  THEN [athread EXCEPT !.pc = "ref"]
                  ELSE [athread EXCEPT !.it = After(athread.it)]
    /\ UNCHANGED <<conn, link, inbox, left, listener, conns_, jobq, wpc, wconn, old, main, lost, crashed>>
    /\ UNCHANGED pollVars

(***************************************************************************)
(* ref() == 1: the listener gives up the connection and erases its entry.  *)
(* The loop then increments the iterator to the entry that is gone: it may *)
(* come to any entry or to the end, or the process may end.                *)
(***************************************************************************)
CollectRef ==
    LET i == athread.it
        rest == DOMAIN listener \ {i}
    IN  /\ athread.pc = "ref"
        /\ IF conn[listener[i]].ref = 1
           THEN /\ conn' = Decref(conn, listener[i])
                /\ listener' = Restrict(listener, rest)
                /\ \/ /\ \E j \in rest \cup {None} : athread' = [athread EXCEPT !.pc = "isdead", !.it = j]
                      /\ UNCHANGED crashed
                   \/ crashed' = "iterator" /\ UNCHANGED athread
           ELSE /\ athread' = [athread EXCEPT !.pc = "isdead", !.it = After(i)]
                /\ UNCHANGED <<conn, listener, crashed>>
        /\ UNCHANGED <<link, inbox, left, conns_, jobq, wpc, wconn, old, main, lost>>
        /\ UNCHANGED pollVars

\* conns_[ch->channo()] = ch
AcceptStore ==
    /\ athread.pc = "isdead" /\ athread.it = None
    /\ listener' = LET f == conn[athread.ch].fd
                   IN  [g \in DOMAIN listener \cup {f} |-> IF g = f THEN athread.ch ELSE listener[g]]
    /\ athread' = [athread EXCEPT !.pc = "select", !.ch = None]
    /\ UNCHANGED <<conn, link, inbox, left, conns_, jobq, wpc, wconn, old, main, lost, crashed>>
    /\ UNCHANGED pollVars

AcceptStep ==
    \/ AcceptSelect
    \/ \E k \in Conns : Accept(k)
    \/ CollectIsDead
    \/ CollectRef
    \/ AcceptStore

-----------------------------------------------------------------------------
(* The PollMgr's thread: PollMgr::wait_loop                                *)

\* A connection that a send on it is in the middle of.
Sending(k) == {w \in Workers : wconn[w] = k /\ wpc[w] \in {"blocked", "remove"}}

(***************************************************************************)
(* The send on k returns: its thread goes on, and the threads that wait    *)
(* for their turn look again.                                              *)
(***************************************************************************)
SendEnds(k) ==
    wpc' = [w \in Workers |->
              IF w \in Sending(k) THEN "done"
              ELSE IF wconn[w] = k /\ wpc[w] = "queued" THEN "send"
              ELSE wpc[w]]

\* One round: threads in block_remove_fd are woken, and select returns.  A
\* descriptor is writable when the peer reads, which it may not do.
PollRound ==
    LET readable == {f \in rfds_ : LET k == callbacks_[f]
                                   IN  k # None /\ (inbox[k] > 0 \/ link[k] = "down")}
    IN  /\ ready = [r |-> {}, w |-> {}]
        /\ pending' = {}
        /\ \E writable \in SUBSET wfds_ : ready' = [r |-> readable, w |-> writable]
        /\ ready' # ready \/ pending # {}
        /\ UNCHANGED <<conn, link, inbox, left, listener, conns_, athread, callbacks_, rfds_, wfds_,
                       jobq, wpc, wconn, old, main, lost, crashed>>

\* Mutant of Died: del_callback only stops the reading.
DiedKeeps(f, k) ==
    /\ rfds_' = rfds_ \ {f}
    /\ UNCHANGED <<callbacks_, wfds_>>
    /\ conn' = Killed(conn, k)
    /\ SendEnds(k)

\* read_cb or write_cb finds the link broken: del_callback, dead_, and a signal.
Died(f, k) ==
    /\ callbacks_' = [callbacks_ EXCEPT ![f] = None]
    /\ rfds_' = rfds_ \ {f} /\ wfds_' = wfds_ \ {f}
    /\ conn' = Killed(conn, k)
    /\ SendEnds(k)

\* rpcs::got_pdu: the job holds the connection.  A queue that is full refuses.
GotPdu(k) ==
    IF Len(jobq) < MaxQueue
    THEN /\ conn' = Incref(conn, k)
         /\ jobq' = Append(jobq, k)
         /\ inbox' = [inbox EXCEPT ![k] = @ - 1]
    ELSE UNCHANGED <<conn, jobq, inbox>>

\* read_cb, if the descriptor still has a callback.  readpdu asserts that there
\* is something to read.
ReadCb(f) ==
    LET k == callbacks_[f]
    IN  /\ f \in ready.r
        /\ ready' = [ready EXCEPT !.r = @ \ {f}]
        /\ \/ /\ k # None => conn[k].dead
              /\ UNCHANGED <<conn, inbox, callbacks_, rfds_, wfds_, jobq, wpc, crashed>>
           \/ /\ k # None /\ ~conn[k].dead /\ link[k] = "down"
              /\ Died(f, k)
              /\ UNCHANGED <<inbox, jobq, crashed>>
           \/ /\ k # None /\ ~conn[k].dead /\ inbox[k] > 0
              /\ GotPdu(k)
              /\ UNCHANGED <<callbacks_, rfds_, wfds_, wpc, crashed>>
           \/ /\ k # None /\ ~conn[k].dead /\ link[k] = "up" /\ inbox[k] = 0
              /\ crashed' = "readpdu"
              /\ UNCHANGED <<conn, inbox, callbacks_, rfds_, wfds_, jobq, wpc>>
        /\ UNCHANGED <<link, left, listener, conns_, athread, pending, wconn, old, main, lost>>

(***************************************************************************)
(* write_cb, after all the read_cb of the round.  It asserts that the      *)
(* connection is not dead; with nothing to write it only stops watching;   *)
(* otherwise it writes all, or a part, or finds the link broken.           *)
(***************************************************************************)
WriteCb(f) ==
    LET k == callbacks_[f]
    IN  /\ ready.r = {} /\ f \in ready.w
        /\ ready' = [ready EXCEPT !.w = @ \ {f}]
        /\ \/ /\ k = None
              /\ UNCHANGED <<conn, callbacks_, rfds_, wfds_, wpc, crashed>>
           \/ /\ k # None /\ conn[k].dead
              /\ crashed' = "write_cb"
              /\ UNCHANGED <<conn, callbacks_, rfds_, wfds_, wpc>>
           \/ /\ k # None /\ ~conn[k].dead /\ Sending(k) = {}
              /\ wfds_' = wfds_ \ {f}
              /\ callbacks_' = [callbacks_ EXCEPT ![f] = IF f \in rfds_ THEN @ ELSE None]
              /\ UNCHANGED <<conn, rfds_, wpc, crashed>>
           \/ /\ k # None /\ ~conn[k].dead /\ Sending(k) # {}
              /\ SendEnds(k) \/ UNCHANGED wpc
              /\ UNCHANGED <<conn, callbacks_, rfds_, wfds_, crashed>>
           \/ /\ k # None /\ ~conn[k].dead /\ Sending(k) # {} /\ link[k] = "down"
              /\ Died(f, k)
              /\ UNCHANGED crashed
        /\ UNCHANGED <<link, inbox, left, listener, conns_, athread, pending, jobq, wconn, old, main, lost>>

PollStep == PollRound \/ \E f \in Fds : ReadCb(f) \/ WriteCb(f)

\* The first part of block_remove_fd: do not watch, and wait for the round's end.
BlockRemove(f, thread) ==
    /\ rfds_' = rfds_ \ {f} /\ wfds_' = wfds_ \ {f}
    /\ pending' = pending \cup {thread}

-----------------------------------------------------------------------------
(* A thread of the dispatch pool: rpcs::dispatch                           *)

\* Mutant of SaveConn: without a reference of its own.
SaveConnNoRef(n, k) ==
    IF conns_[n] = k THEN UNCHANGED <<conn, conns_>>
    ELSE /\ conns_' = [conns_ EXCEPT ![n] = k]
         /\ conn' = IF conns_[n] = None THEN conn ELSE Decref(conn, conns_[n])

\* The latest connection to the client, saved with a reference of its own.
SaveConn(n, k) ==
    IF conns_[n] = k THEN UNCHANGED <<conn, conns_>>
    ELSE /\ conns_' = [conns_ EXCEPT ![n] = k]
         /\ conn' = Incref(IF conns_[n] = None THEN conn ELSE Decref(conn, conns_[n]), k)

\* A pill ends the thread.
TakePill(w) ==
    /\ wpc[w] = "idle" /\ jobq # <<>> /\ Head(jobq) = None
    /\ jobq' = Tail(jobq)
    /\ wpc' = [wpc EXCEPT ![w] = "exit"]
    /\ UNCHANGED <<conn, link, inbox, left, listener, conns_, athread, wconn, old, main, lost, crashed>>
    /\ UNCHANGED pollVars

(***************************************************************************)
(* dispatch of the next job.  A request whose header or procedure is bad   *)
(* is dropped; one for an older instance of the server is answered so.  A  *)
(* client with a nonce has its connection saved, and the request is new    *)
(* (pick), or a duplicate to be answered (send) or that is being worked on *)
(* (done).                                                                 *)
(***************************************************************************)
TakeJob(w) ==
    LET k == Head(jobq)
        goes(pc) == wpc' = [wpc EXCEPT ![w] = pc]
    IN  /\ wpc[w] = "idle" /\ jobq # <<>> /\ k # None
        /\ jobq' = Tail(jobq)
        /\ wconn' = [wconn EXCEPT ![w] = k]
        /\ \/ goes("done") /\ UNCHANGED <<conn, conns_, old>>
           \/ goes("send") /\ old' = old \cup {w} /\ UNCHANGED <<conn, conns_>>
           \/ /\ Nonce[k] # 0
              /\ SaveConn(Nonce[k], k)
              /\ \E pc \in {"pick", "send", "done"} : goes(pc)
              /\ UNCHANGED old
           \/ Nonce[k] = 0 /\ goes("pick") /\ UNCHANGED <<conn, conns_, old>>
        /\ UNCHANGED <<link, inbox, left, listener, athread, main, lost, crashed>>
        /\ UNCHANGED pollVars

(***************************************************************************)
(* The handler has run.  When the connection of the request is dead, the   *)
(* reply goes to the latest one; a client without a nonce has none, and    *)
(* dispatch then follows a null pointer.                                   *)
(***************************************************************************)
PickConn(w) ==
    LET k == wconn[w]
        latest == conns_[Nonce[k]]
    IN  /\ wpc[w] = "pick"
        /\ \/ /\ ~conn[k].dead \/ latest = k
              /\ wpc' = [wpc EXCEPT ![w] = "send"]
              /\ UNCHANGED <<conn, wconn, crashed>>
           \/ /\ conn[k].dead /\ latest \notin {k, None}
              /\ conn' = Incref(Decref(conn, k), latest)
              /\ wconn' = [wconn EXCEPT ![w] = latest]
              /\ wpc' = [wpc EXCEPT ![w] = "send"]
              /\ UNCHANGED crashed
           \/ /\ conn[k].dead /\ latest = None
              /\ conn' = Decref(conn, k)
              /\ wconn' = [wconn EXCEPT ![w] = latest]
              /\ crashed' = "null"
              /\ UNCHANGED wpc
        /\ UNCHANGED <<link, inbox, left, listener, conns_, athread, jobq, old, main, lost>>
        /\ UNCHANGED pollVars

(***************************************************************************)
(* connection::send.  On a dead connection it returns; behind another send *)
(* it waits; otherwise it writes all, or a part and waits for write_cb, or *)
(* fails and removes the connection from the PollMgr.                      *)
(***************************************************************************)
Send(w) ==
    LET k == wconn[w]
        f == conn[k].fd
        goes(pc) == wpc' = [wpc EXCEPT ![w] = pc]
    IN  /\ wpc[w] = "send"
        /\ \/ /\ conn[k].dead
              /\ goes("done")
              /\ UNCHANGED <<conn, callbacks_, rfds_, wfds_, pending, crashed>>
           \/ /\ ~conn[k].dead /\ Sending(k) # {}
              /\ goes("queued")
              /\ UNCHANGED <<conn, callbacks_, rfds_, wfds_, pending, crashed>>
           \/ /\ ~conn[k].dead /\ Sending(k) = {}
              /\ goes("done")
              /\ UNCHANGED <<conn, callbacks_, rfds_, wfds_, pending, crashed>>
           \/ /\ ~conn[k].dead /\ Sending(k) = {}
              /\ goes("blocked")
              /\ wfds_' = wfds_ \cup {f}
              /\ callbacks_' = [callbacks_ EXCEPT ![f] = k]
              /\ crashed' = IF callbacks_[f] \in {None, k} THEN crashed ELSE "add_callback"
              /\ UNCHANGED <<conn, rfds_, pending>>
           \/ /\ ~conn[k].dead /\ Sending(k) = {} /\ link[k] = "down"
              /\ goes("remove")
              /\ conn' = Killed(conn, k)
              /\ BlockRemove(f, w)
              /\ UNCHANGED <<callbacks_, crashed>>
        /\ UNCHANGED <<link, inbox, left, listener, conns_, athread, ready, jobq, wconn, old, main, lost>>

\* The rest of block_remove_fd, and of the send that failed.
SendRemoved(w) ==
    /\ wpc[w] = "remove" /\ w \notin pending
    /\ callbacks_' = [callbacks_ EXCEPT ![conn[wconn[w]].fd] = None]
    /\ SendEnds(wconn[w])
    /\ UNCHANGED <<conn, link, inbox, left, listener, conns_, athread, rfds_, wfds_, ready, pending,
                   jobq, wconn, old, main, lost, crashed>>

\* dispatch returns: with c->decref(), but not after a request for an older
\* instance.
Done(w) ==
    /\ wpc[w] = "done"
    /\ wpc' = [wpc EXCEPT ![w] = "idle"]
    /\ wconn' = [wconn EXCEPT ![w] = None]
    /\ old' = old \ {w}
    /\ IF w \in old THEN lost' = lost \cup {wconn[w]} /\ UNCHANGED conn
       ELSE conn' = Decref(conn, wconn[w]) /\ UNCHANGED lost
    /\ UNCHANGED <<link, inbox, left, listener, conns_, athread, jobq, main, crashed>>
    /\ UNCHANGED pollVars

WorkerStep(w) ==
    \/ TakePill(w)
    \/ TakeJob(w)
    \/ PickConn(w)
    \/ Send(w)
    \/ SendRemoved(w)
    \/ Done(w)

-----------------------------------------------------------------------------
(* The thread that deletes the rpcs: ~rpcs, ~tcpsconn, ~ThrPool            *)

\* ~tcpsconn: close(pipe_[1]).
MainDelete ==
    /\ main.pc = "run"
    /\ main' = [main EXCEPT !.pc = "join"]
    /\ UNCHANGED <<conn, link, inbox, left, listener, conns_, athread, jobq, wpc, wconn, old, lost, crashed>>
    /\ UNCHANGED pollVars

\* pthread_join of the accept thread.
MainJoin ==
    /\ main.pc = "join" /\ athread.pc = "exit"
    /\ main' = [pc |-> "close", it |-> First(DOMAIN listener)]
    /\ UNCHANGED <<conn, link, inbox, left, listener, conns_, athread, jobq, wpc, wconn, old, lost, crashed>>
    /\ UNCHANGED pollVars

\* closeconn of the next connection, which returns at once from one that is dead.
MainClose ==
    LET k == listener[main.it]
    IN  /\ main.pc = "close" /\ main.it # None
        /\ IF conn[k].dead
           THEN /\ main' = [main EXCEPT !.pc = "decref"]
                /\ UNCHANGED <<conn, link, rfds_, wfds_, pending>>
           ELSE /\ main' = [main EXCEPT !.pc = "remove"]
                /\ conn' = Killed(conn, k)
                /\ link' = [link EXCEPT ![k] = "down"]
                /\ BlockRemove(conn[k].fd, "main")
        /\ UNCHANGED <<inbox, left, listener, conns_, athread, callbacks_, ready, jobq, wpc, wconn, old,
                       lost, crashed>>

MainRemoved ==
    /\ main.pc = "remove" /\ "main" \notin pending
    /\ callbacks_' = [callbacks_ EXCEPT ![main.it] = None]
    /\ main' = [main EXCEPT !.pc = "decref"]
    /\ UNCHANGED <<conn, link, inbox, left, listener, conns_, athread, rfds_, wfds_, ready, pending,
                   jobq, wpc, wconn, old, lost, crashed>>

\* Mutant of MainDecref: the reference is kept.
MainDecrefNot ==
    /\ main.pc = "decref"
    /\ main' = [pc |-> "close", it |-> After(main.it)]
    /\ UNCHANGED <<conn, link, inbox, left, listener, conns_, athread, jobq, wpc, wconn, old, lost, crashed>>
    /\ UNCHANGED pollVars

MainDecref ==
    /\ main.pc = "decref"
    /\ conn' = Decref(conn, listener[main.it])
    /\ main' = [pc |-> "close", it |-> After(main.it)]
    /\ UNCHANGED <<link, inbox, left, listener, conns_, athread, jobq, wpc, wconn, old, lost, crashed>>
    /\ UNCHANGED pollVars

\* ~ThrPool: a pill for each thread, for which enq waits while the queue is full.
MainPill ==
    /\ \/ main.pc = "close" /\ main.it = None /\ main' = [pc |-> "pills", it |-> Cardinality(Workers)]
          /\ UNCHANGED jobq
       \/ /\ main.pc = "pills" /\ main.it > 0 /\ Len(jobq) < MaxQueue
          /\ jobq' = Append(jobq, None)
          /\ main' = [main EXCEPT !.it = @ - 1]
    /\ UNCHANGED <<conn, link, inbox, left, listener, conns_, athread, wpc, wconn, old, lost, crashed>>
    /\ UNCHANGED pollVars

\* The threads are joined, and the pool and the reply window are gone.
MainPoolGone ==
    /\ main.pc = "pills" /\ main.it = 0 /\ \A w \in Workers : wpc[w] = "exit"
    /\ main' = [main EXCEPT !.pc = "gone"]
    /\ UNCHANGED <<conn, link, inbox, left, listener, conns_, athread, jobq, wpc, wconn, old, lost, crashed>>
    /\ UNCHANGED pollVars

MainStep ==
    \/ MainJoin
    \/ MainClose
    \/ MainRemoved
    \/ MainDecref
    \/ MainPill
    \/ MainPoolGone

-----------------------------------------------------------------------------
Next ==
    /\ crashed = "no"
    /\ \/ \E k \in Conns : Connect(k) \/ Request(k) \/ Break(k)
       \/ AcceptStep
       \/ PollStep
       \/ \E w \in Workers : WorkerStep(w)
       \/ MainDelete
       \/ MainStep

Spec == Init /\ [][Next]_vars

-----------------------------------------------------------------------------
(* Properties.                                                             *)

Listed == {listener[f] : f \in DOMAIN listener}
Queued == {jobq[i] : i \in DOMAIN jobq}

(***************************************************************************)
(* A connection that decref deletes is used by nobody any more: not by the *)
(* listener, the table of clients, a job, a worker, or the PollMgr.        *)
(***************************************************************************)
NoUseOfDeleted ==
    \A k \in Conns : conn[k].st = "deleted" =>
        /\ main.pc \in {"run", "join"} => k \notin Listed
        /\ k \notin Queued
        /\ \A n \in Nonces : conns_[n] # k
        /\ \A w \in Workers : wconn[w] # k
        /\ \A f \in Fds : callbacks_[f] # k

(***************************************************************************)
(* Descriptors are used again as soon as a connection is deleted, while    *)
(* the PollMgr's thread may be in the middle of a round: no read_cb then   *)
(* falls on the new connection, which has nothing to read ("assert(errno   *)
(* != EAGAIN)"), and add_callback finds no callback of an earlier one.     *)
(***************************************************************************)
NoStaleDescriptor == crashed \notin {"readpdu", "add_callback"}

(***************************************************************************)
(* "must delete listener before dispatchpool": once the listener is        *)
(* deleted no connection hands a request to the pool, although clients may *)
(* still be sending.                                                       *)
(***************************************************************************)
NoLateUpcall ==
    main.pc \in {"pills", "gone"} =>
        \A f \in Fds : callbacks_[f] = None \/ conn[callbacks_[f]].dead

(***************************************************************************)
(* When the rpcs is gone, so is every connection it had accepted, except   *)
(* the latest one of each client, which is never given up, and those that  *)
(* a request for an older instance has leaked.                             *)
(***************************************************************************)
NothingLeft ==
    main.pc = "gone" =>
        \A k \in Conns : conn[k].st = "open" => k \in lost \/ \E n \in Nonces : conns_[n] = k

(***************************************************************************)
(* The destructor does not get stuck, whatever the clients do: as long as  *)
(* it has not returned, some thread of the process can go on with what it  *)
(* is doing, so that neither a join nor block_remove_fd waits forever.     *)
(* (Unless a send waits for its peer, which closeconn does not wake, or    *)
(* the process has ended.  A new round of the PollMgr counts only when     *)
(* somebody waits for it.)                                                 *)
(***************************************************************************)
ShutdownGoesOn ==
    /\ main.pc \notin {"run", "gone"} /\ crashed = "no"
    /\ \A w \in Workers : wpc[w] # "blocked"
    => \/ ready # [r |-> {}, w |-> {}] \/ pending # {}
       \/ ENABLED (AcceptStep \/ MainStep \/ \E w \in Workers : WorkerStep(w))
=============================================================================
