# A TLA+ verification of the ds14 lab: RPC library, lock server, file system

This directory holds TLA+ models of the C++ program under `src/lab`: an RPC
library with duplicate detection, a lock server, and a file system (FUSE) whose
contents an extent server keeps. TLC checks the models on small instances; TLAPS
proves the central results for every value of the constants.

## The system

| Part | Code | Modules | |
|---|---|---|---|
| RPC client `rpcc` | `rpc/rpc.cc`, `rpc/rpc.h` | `RpcClient`, `XidWindow`, `XidWindowList`; proofs about the list: `LibProof` | partly |
| RPC server `rpcs` | `rpc/rpc.cc`, `rpc/rpc.h` | `RpcServer`, `ReplyWindow`, `ReplyList` (`LibProof`), `ServerLife` (`ServerProof`) | partly |
| both, joined | | `Rpc` over `RpcWire`; abstract: `RpcPromise`; proofs: `RpcProof`, `RpcTheorems`, `RpcRefs` | |
| time in `call1`, timespec arithmetic | `rpc/rpc.cc` | `Deadline`, `LibProof` | modelled |
| `connection` | `rpc/connection.cc` | `Connection`, `ConnProof`; as others see it, `RpcWire` | modelled |
| `tcpsconn` | `rpc/connection.cc` | `ServerLife`, `ServerProof` | modelled |
| `PollMgr`, `SelectAIO` | `rpc/pollmgr.cc` | `Connection` (one descriptor), `ServerLife` (several) | partly |
| `ThrPool`, `fifo` | `rpc/thr_pool.*`, `rpc/fifo.h` | `ThrPool`, `LibProof` | modelled |
| `marshall`, `unmarshall`, call and handler templates | `rpc/rpc.cc`, `rpc/rpc.h`, `rpc/marshall.h` | `Marshall` | modelled |
| lock server, lock client | `lock_*.cc` | `LockServer`, `LockProof` | modelled |
| extent server | `extent_server.cc` | `Yfs`, `YfsProof` | partly |
| extent client, protocol | `extent_client.cc`, `extent_protocol.h` | `FileList`, `Yfs`, `YfsProof` | modelled |
| yfs client, FUSE | `yfs_client.cc`, `fuse.cc` | `Yfs`, `YfsProof` | modelled |
| helpers, tests | `gettime.cc`, `jsl_log.*`, `slock.h`, `method_thread.h`, `rpctest.cc`, ... | none | not modelled |

How they interact. A client thread calls `rpcc::call`, which marshalls the
arguments and enters `call1`; that sends the request on a `connection` and waits
in rounds for the reply, retransmitting when the connection has died. The thread
of the `PollMgr` reads PDUs from all connections: at the client it calls
`rpcc::got_pdu`, at the server `rpcs::got_pdu`, which queues a job in the
`ThrPool`. A thread of the pool runs `rpcs::dispatch`: it consults the window of
replies kept per client, runs the handler (of the lock server or the extent
server) if the request is new, stores the reply and sends it. Every request
carries `xid_rep`, the xid up to which the client has its answers, and the server
forgets replies accordingly.

## The modules and the code

In all modules a critical section of the code (what happens between taking and
releasing a mutex, or between two blocking calls) is one action; variables keep
the names of the code, `_` included. The comment at the head of each module lists
the program locations. Operators called "Mutant of X" are variants of X with a
plausible mistake, by which each property is shown to be able to fail.

**RPC.** `RpcWire` has the connections between clients and server as `rpcc` and
`rpcs` see them: a link that is up or down, an object at each end with a reference
count, PDUs in flight. `RpcClient` has `call1` (`StartCall`, `GetRefconn`,
`SendRequest`, `TimeOut`, `NextRound`, `FinishCall`) and `got_pdu` (`GotReply`).
`RpcServer` has `got_pdu` (`GotRequest`), the stages of `dispatch` (`TakeJob`,
`SendOldsrv`, `LookupProc`, `SaveConn`, `CheckDuplicate`, `RunHandler`, `AddReply`,
`PickConn`, `SendReply`, `SendFreed`), the arrival of a connection (`Accept`), and
`Restart`, the death of the process and its next incarnation. `Rpc` composes them
and states the properties. Histories: `execs` counts executions, `heap` counts
reply buffers, `wild` records that a freed buffer was sent; after that a reply may
hold anything, and properties about values are stated for behaviours without it.

The two windows are sets or functions in `XidWindow` and `ReplyWindow`. The lists
that the code keeps, with their iteration and pruning, are in `XidWindowList` and
`ReplyList`, which are shown to implement the former.

`RpcPromise` says what a caller is promised: while a call is pending its handler
runs at most once, and the call succeeds only if it has run. `LockServer` and `Yfs`
rely on no more than that: copies of a call that is over, answered or failed, may
still be executed, and change the state of the server once more.

**ServerLife** is the life of an `rpcs`: the accept thread of `tcpsconn` with its
pipe, the collection of dead connections in `process_accept`, the rounds of the
`PollMgr` over several descriptors, the dispatch threads as holders of
connections, and the destructors of `tcpsconn` and `rpcs`. A descriptor is used
again when its connection is deleted. When all are in use, `accept` fails or, at
`MAX_POLL_FDS`, the assert of `add_callback` ends the process. The handlers are a choice here, and in `Rpc`
the connections are; each module has the other's part in its coarse form.

**Deadline** is the clock side of `call1`: `finaldeadline`, rounds that get longer,
`add_timespec`, `cmp_timespec`, and `pthread_cond_timedwait`, which refuses a
`tv_nsec` of a whole second.

**Connection** is one `connection` object with its sending threads, its owner, the
socket, and the `PollMgr` thread: `wait_loop` and `wait_ready` as `Top`, `Copy`,
`Select`, `Check`, then the callbacks `ReadCb` and `WriteCb`. The look at
`callbacks_[fd]` and the call are separate steps, since no lock is held.

**Marshall** is one call as bytes, from `rpcc::call` to the handler that `rpcs::reg`
makes and back to `call_m`: numbers of every width, strings, vectors and maps, both
headers, the growth of the buffer, and what happens at the end of the bytes. The
method may expect more, fewer or other arguments than the caller gave; the caller's
variable for the result may hold something, to which a vector is appended.

**ThrPool** is the bounded queue with its two condition variables, workers, callers
and the destructor. **LockServer** is `lock_server` in the threads of the dispatch
pool. **FileList** is `serialize`/`deserialize` on fields with their widths; **Yfs**
is the FUSE requests as sequences of calls to the extent server. `ended` has the puts
whose call is over; `LatePut` executes a copy of any of them, and `stale` records that
one brought an old directory back. A part of a listing has as many entries as fit,
which `ReadDir` chooses anew each time.

## What is checked

| Run | Instance | Shows |
|---|---|---|
| `rpc_concurrent` | 4 xids, 2 calling threads, 2 connections, 2 workers, from a window with a gap | `OnceWhileOutstanding`, `ReturnsFirstExecution`, `ForgetsOnlyWhatIsOver`; `ClientRefsExact` and `NoDanglingConn` (references to connections); `BuffersAccounted` (what is on the heap, leak included) |
| `rpc_restart` | bind and a call, 2 connections, 2 incarnations, from the start | `TypeOK`; `KeepsPromise` (refinement of `RpcPromise`); `EveryCallReturns` |
| `rpc_lists` | xids to 4, lists to 5 | `FrontExact`, `ImplementsWindow`, `AgreesWithWindow`: the lists implement the windows |
| `lock` | 2 clients, 2 locks, 2 workers, 1 late copy | `MutualExclusion`, `NacquireExact`, `PoolNeverExhausted`, `ReleaseReturns` |
| `pool` | 4 callers, 2 workers, capacity 2 | `PoolTypeOK`, `FifoOrder`, `NoLostWakeup`, `PoolDrains` |
| `yfs` | 2 processes, 2 requests each, a failure, a late copy of a put, parts of one or two entries | `YfsTypeOK` (the directory always reads back), `CreatedStay`, `NoDuplicateNames`, `EntryHasFile`, `ListingComplete` |
| `conn_safety` | 2 senders, incoming PDUs, a refusal, spurious wakeups, closing | `WritesWhole`, `InOrder`, `NoUseAfterDelete` |
| `conn_liveness` | 2 senders, one incoming PDU, no refusals | `SendReturns`, `PduDelivered` |
| `deadline` | 12 ns to the second, every start time, several timeouts | `NoEarlyTimeout`, `NoLateRound`, `CallReturns` |
| `marshall` | up to 3 arguments, 2 headers | `MarshallTypeOK` (buffers are large enough), `CallFaithful` |
| `server` | 3 connections on 2 descriptors, 2 workers, 2 requests, one client without a nonce | `NoUseOfDeleted`, `NoStaleDescriptor`, `NoLateUpcall`, `NothingLeft`, `ShutdownGoesOn` |
| `rpc_at_most_once` | 3 xids, after bind | finds `AtMostOnce` violated |

`AtMostOnce` is what `rpc.h` says of the library ("provide at most once semantics");
a copy of a request that arrives after its call was forgotten is executed again.
It fails only for calls that are already over; while a call is outstanding it does
hold, which is `OnceWhileOutstanding`.

### Conditions in the properties

Several properties except executions in which something else has already gone
wrong. The conditions are histories of the model, and what happens without them
was looked at with TLC as well:

- `~wild` (RPC): `dispatch` sends a stored reply after releasing
  `reply_window_m_`; another thread may have freed it (`DoneReplyStillHeld`).
- A request dispatched late replaces a live connection by a dead one
  (`KeepsGoodConn`), the branch for an old server keeps its reference for ever
  (`NoConnLeak`), and a reply buffer per executed call is never freed (counted by
  `BuffersAccounted`).
- `~raced`, `late["release"] = 0` (lock server): a lookup in `_locks_m` without `_m`
  that meets an insertion, and a late copy of a release, grant a lock twice
  (`GrantedOnce`).
- `~overlapped`, `~stale`, `fails = 0` (file system): two processes in
  `createfile` lose an entry or enter a name twice; a late copy of a put, also of one
  that was answered, undoes a later one; a failed call ends a listing as if it were
  complete, and leaves an entry without its file.
- `EveryCallReturns` excepts a call whose send stays for ever on a connection that is
  alive: `connection::send` has no deadline, and a server that does not read keeps it
  waiting.
- `SendReturns` excepts a connection that its owner closes: `closeconn` does not
  wake a thread in `send`. `ShutdownGoesOn` has the same exception.
- `aborted` (connection): `write_cb` may be called on a dead connection and meet its
  assert (`NoAbort`). A spurious wakeup may let `block_remove_fd` return too early;
  `NoUseAfterDelete` excepts it.
- `CallReturns` excepts one case only: the end of a round that falls on an exact
  second, which `add_timespec` leaves with a `tv_nsec` of 10^9 because it compares by
  `>`. The wait then fails and is repeated for ever. With timeouts of whole seconds,
  which the default is, it does not happen.
- `crashed` (server): `process_accept` increments an iterator it has erased, and a
  client without a nonce whose connection is dead makes `dispatch` use a null
  pointer; `add_callback` has an assert on the number of descriptors. The properties
  are about executions up to there.

### Bounds

Two connections are enough for a request to be sent twice and for its copies to
overtake each other. Two workers let one copy be checked while the other runs. A
gap in the window needs four xids; `rpc_concurrent` starts from a state, reachable
from `Init`, in which a third call has returned while the second waits, because
reaching it by search is out of range. `rpc_at_most_once` likewise starts after
bind; `rpc_restart` starts from `Init`. Two locks let an insertion meet a lookup of
another lock. In `Connection` a PDU to send has two units and the socket takes one,
so a write is partial; an incoming PDU arrives in any portions. In `ServerLife` two
descriptors for three connections mean that one is used again. `Deadline` scales
the second to 4 ms of 3 ns: an exact hit, a hit just before and one just after all
occur. Strings in `Marshall` fit, double the buffer, or exceed it. `MaxFail`,
`MaxLate`, `MaxOps`, `MaxRefuse`, `MaxPdus`, `LastSec` are bounds in guards.

Symmetry is used over workers, senders and processes, in safety runs only.

### Fairness

`rpc_restart`: the steps of the calling threads, which include the end of a timed
wait, but not the return of a send on a live connection; nothing is assumed of network
or server. `pool`: callers, workers and the
destructor go on when they can; that jobs end is part of it. `lock`: the threads of
the pool run. `conn_liveness`: the senders, the `PollMgr` thread, the peer, which
reads what it is sent as long as the link is up, and an owner that has begun to
close. `deadline`: time passes and the thread runs. All of it is weak fairness,
which the scheduler of the operating system gives to runnable threads.
`ShutdownGoesOn` is stated without fairness: in no state is the destructor stuck
with nobody able to go on.

Deadlock is checked for the pool and for the lists; the other systems may stop when
their bounded work is done.

## What is proved

**RPC**, for any number of clients, calls, connections, rounds, workers and
incarnations (`RpcProof`, `RpcTheorems`; for what is counted, any finite
number of clients and workers, `RpcRefs` for references and `RpcTheorems` for buffers):

- `TypeCorrect`: `TypeOK` is an invariant. `Invariance`: so is `Inv`.
- `Once`: `OnceWhileOutstanding`. The handler of a call runs at most once as long as
  the call is outstanding.
- `Forgets`: `ForgetsOnlyWhatIsOver`. The server drops a reply only when the call is
  over at the client.
- `Acknowledged`: a client acknowledges only calls that are over.
- `FirstExecution`: `ReturnsFirstExecution`. A call that succeeds was executed, and
  returns the value of its first execution. `AnswersKept` is its invariant.
- `PromiseKept`: `KeepsPromise`, the refinement of `RpcPromise`: every step of
  clients, network and server is a step of an abstract call, or leaves all of them
  alone, as long as no freed buffer is sent.
- `ClientReferences`: `ClientRefsExact`. The references to a connection at the client
  are those of `chan_` and of the calls that hold it.
- `ServerReferences`: `NoDanglingConn`. The reference count at the server covers the
  listener, `conns_`, the queued jobs and the dispatch threads.
- `ReplyBuffers`: `BuffersAccounted`. No reply buffer of the first server is lost or
  freed twice, as long as no call ran twice.

*The argument.* `OnceWhileOutstanding` is not inductive: it must be known where
copies of a request are and what the server remembers. `Inv` (in `RpcProof`) adds:
the window keeps ahead only what is beyond its front (`WindowOK`); calls not yet
made have not run (`FreshOK`); a header acknowledges only acknowledged calls and
names a server incarnation unless it is a bind (`HeaderOK`); every request in
flight, queued or with a worker is a copy of the header that `call1` packed
(`CopiesOK`); successful replies carry positive values, so that a bound client knows
a nonce (`ValueOK`); a worker past the check of the nonce serves the present
incarnation (`WorkerOK`); and for a call not acknowledged, it ran at most once, not
before the incarnation it is bound to, and if this incarnation has run it or is
running it there is an entry for it in the reply window (`OnceOK`). The last
conjunct is preserved by `CheckDuplicate` because pruning goes by a header's
`xid_rep`, which by `HeaderOK` covers acknowledged calls only; by `RunHandler`
because only one worker runs a call; and by `Restart` because calls bound to the old
incarnation are refused by the new one. `RpcTheorems` goes from "acknowledged" to
"over" (`AckOK`), which needs that no freed buffer was sent. For the values,
`AnswerOK` follows a reply along its way, from the worker that has run the handler
to the reply window, from there to the worker that answers a copy, onto the network
and to the caller: each carries the value of some execution so far, and while the
call is outstanding there is only one, so that what the caller gets is the value of
the first. The refinement goes action by action. Only `RunHandler`, the
arrival of a reply, the beginning and the end of a call change what the mapping
shows (`PromiseMove`); that a pending call runs once is `OnceWhileOutstanding`
before and after the step, that it succeeds after it has run is `AnswerOK`.

For what is allocated there is an invariant for each count, with lemmas on how one
thread changes a cardinality. In `RpcRefs`, `ClientRefsOK` adds to the exact count that a live
connection is the current one, so that it does not lose its last holder before it
dies, and that a connection never opened has no object. `ServerRefsOK` bounds the
count from below only, since a request for an older instance never gives its
reference back; it adds that an object nobody accepted has none. In `RpcTheorems`, `BuffersOK` adds a
quota: the reply kept for a call and the threads about to store one are together no
more than its executions. So with one execution `add_reply` finds no reply in the
entry it fills, and the buffer it makes is one more.

**Lock server**, for any finite numbers of clients, locks and workers and any number
of late copies (`LockProof`):

- `LockMutualExclusion`: `MutualExclusion`, one holder per lock.
- `LockPoolNeverExhausted`: `PoolNeverExhausted`, if the pool has a thread for every
  client thread.
- `LockNacquireExact`: `NacquireExact`.

*The argument.* The right to a lock is not only with the client that was granted
it: it is on its way to the client in a handler that has locked the mutex, and on
its way back in a release that has not unlocked it. `RightsOK` says that there is
one of these at most, and that the mutex is held while there is one. `InsertOK` says
that an insertion is of a lock without a mutex, so that it cannot free one that is
held. `JobOK` and `OnePlace` say that a call which is not a late copy is in one
place, the queue or one worker, and that its client waits for it. So when all
workers are busy, their jobs belong to different clients, none of them that of the
first request in the queue, and there are fewer such clients than workers
(pigeonhole). For `NacquireExact`, `CountOK` adds the handlers that have locked or
unlocked a mutex and not counted it yet.

**Thread pool**, for any finite number of callers, any finite number of workers but
none, and any capacity, unbounded included (`LibProof`):

- `PoolTypeCorrect`: `PoolTypeOK`; `PoolFifoOrder`: `FifoOrder`;
  `PoolNoLostWakeup`: `NoLostWakeup`.

*The argument.* That nothing is left in the queue when the pool is gone takes two
counts (`PillsLast`, `ExitedOK`): the last `pills` jobs accepted are the pills, since
callers are done before the destructor begins (`DestroyerOK`), and a worker has
exited for each pill taken. When all have exited, all pills have been taken, and
with them all that was queued before. `NoLostWakeup` is inductive once it is known
that the queue keeps to its capacity and that no caller waits while the destructor
does.

**Life of a server**, for any numbers of connections, clients and descriptors, any
finite number of workers but none, and any capacity of the pool's queue
(`ServerProof`):

- `DeletedUnused`: `NoUseOfDeleted`; `DescriptorsFresh`: `NoStaleDescriptor`;
  `UpcallsEnded`: `NoLateUpcall`; `ShutdownClean`: `NothingLeft`.

*The argument.* A connection is deleted by whoever gives back its last reference, so
one has to know who holds references: the accept thread or the listener, as far as
`~tcpsconn` has not come past it yet; `rpcs::conns_`; each job in the queue; each
worker in `dispatch`. `RefOK` says that their number (`Holders`) is the reference
count, unless a request for an older instance has lost one, that a connection is
deleted exactly at zero, and that one that is not dead is still held by the
listener. The counts of jobs and workers are cardinalities, and the lemmas about
them say how a step of one thread changes them. `FdOK`: open connections have
different descriptors, under which listener and `PollMgr` know them. `RemoveOK` is
the heart of `block_remove_fd`: the callback of a dead connection is there only
while a thread removes it, its descriptor is out of the set that `select` waits on,
and when that thread waits no more the round under way does not serve the
descriptor; with `RoundOK` (what a round is to read stays readable) this keeps a
round that began earlier from reading a new connection on an old descriptor.
`ThreadOK` says where iterators point, and `PillOK` that pills are the last jobs, so
that with all workers gone no job holds a reference.

**Time in `call1`**, for any number of milliseconds in a second and of nanoseconds in
a millisecond, any timeout and any first round (`LibProof`):

- `TimeoutNotEarly`: `NoEarlyTimeout`; `RoundsNotLate`: `NoLateRound`.

*The argument.* `add_timespec` is exact in nanoseconds, also where it leaves a whole
second in `tv_nsec` (`AddLemma`), and the answer of `cmp_timespec` never contradicts
the order of the nanoseconds, on such times neither (`CmpLemma`). `DeadlineInv` says
what the code stores in `finaldeadline`: as long as `tv_sec` is not zero it is the
deadline of the call, and zero says that the last round was planned, which ends at
that deadline.

**The two lists**, for any number of calls whose requests and copies come in any
order (`LibProof`):

- `WindowUpdates`: `ImplementsWindow`; `FrontIsExact`: `FrontExact`; `ScansAgree`:
  `AgreesWithWindow`. So what the RPC theorems say of the windows holds of the lists.

*The argument.* `ListsInv` (theorem `ListsInvariant`) says of the client's list that it
is sorted, that the xid next to its front is not in it, and that the xids it covers are
those reported. `InsertLemma` is about the loop that finds the place of an xid,
`RunLemma` about the loop that drops the head of the list, both for every sorted list.
Of the server's list it says that no call has two entries, and that every entry ahead
of another is beyond the `xid_rep` of the other's requests (`InOrderOf`). This is what
makes it sound that the scan stops at the entry it looks for and prunes only what is
ahead of it: what it does not look at was appended by a scan that had passed the rest.

**Connection**, for any finite number of senders, any size of PDUs and of room in the
socket, and any incoming PDUs of at least two units (`ConnProof`):

- `Deletion`: `NoUseAfterDelete`; `WholePdus`: `WritesWhole`; `PdusInOrder`: `InOrder`.

*The argument.* For the life of the object, `RefsOK` counts those who have not
released it, and `LifeOK` follows `block_remove_fd`: whoever has made the connection
dead takes its descriptor out of the sets of `select`, `pending_change_` keeps that
thread waiting until the thread of the `PollMgr` begins another turn, and then no
callback is under way (`Quiet`); from there a dead connection without such a thread is
`Detached`. For what goes out, `WriteOK` says that while the connection lives the PDU in
`wpdu_` is that of the sender who waits for it, that its units are the last ones
written, and that every other sender has written nothing or all. For what comes in,
`ReadOK` says that `rpdu_` is the PDU to be handed over next and that the stream has
been read up to what `rpdu_` has of it; so a PDU refused by `got_pdu` and offered again
is the same one.

**File system**, for any processes, names and inums, any number of requests, failures
and late copies, and any number of entries that fit in a part of a listing (`YfsProof`):

- `YfsTypeCorrect`: `YfsTypeOK`. It contains that the stored directory always reads
  back, since `deserialize` undoes `serialize` for every list (`RoundTrip`).
- `EntriesBacked`: `EntryHasFile`; `CreatedFilesStay`: `CreatedStay`; `NamesDistinct`:
  `NoDuplicateNames`; `ListingsComplete`: `ListingComplete`.

*The argument.* `ServerOK` says that what is stored under the root was written by
`serialize`; puts whose call is over carry such a buffer as well (`FailureOK`).
`BackedOK` adds to the directory the lists that a `createfile` is about to put and those
of the puts that are over: each of their entries has its file, or is the one being
created. So a copy of an old put, though it may drop entries, leaves none without a
file. When creations do not overlap there is one creator (`Alone`), and `CalmOK` follows
it: from its lookup to its put the directory is as it has read it, so that the put adds
one entry, of a name that was not there; a late copy that does not bring an old
directory back leaves the directory alone (`HarmlessCopy`). Then the directory only grows
at its end, and what a listing has read stays a prefix of it (`ListOK`), whatever
happens between two of its parts.

The assumptions are those on the constants (`WireAssumption`, `ClientsAssumption`,
`ClientAssumption`, `ServerAssumption`, `WorkersAssumption`, `LockAssumption`,
`PoolAssumption`, `ServerLifeAssumption`, `DeadlineAssumption`, `ListAssumption`,
`ConnectionAssumption`, `YfsAssumption`): bounds are natural numbers, at least one
round, `NoJob`, `Pill`, `Nobody`, `NoFile` and `None` are no jobs, senders, files and
connections, the sets that are counted are finite, a pool has a worker, a second has
some nanoseconds, PDUs come one after another on a stream and have a header and a body,
names are not empty, the root directory is not the inum of a file, and for the lock
server that clients are no more than workers, as `lock_tester` requires.

*Recursion and induction.* The loops over lists (`update_xid_rep`, the scan of the reply
window, `serialize`, `deserialize`) are recursive functions. What they compute for every
input is proved by taking the least index at which it would fail (`Least`, `UpTo`);
`Recursion` shows by the same means that a function defined step by step exists, so
that its value at an index may be used.

*Only model-checked*: liveness (`EveryCallReturns`, `ReleaseReturns`, `PoolDrains`,
`SendReturns`, `PduDelivered`, `CallReturns`) and `ShutdownGoesOn`, which has an
`ENABLED`: both are out of the prover's reach. `MarshallTypeOK` and `CallFaithful`: the
bytes of a number are quotients and remainders by powers of `Base`, inside folds over
vectors and maps, and the provers have no non-linear arithmetic.

## What is not modelled

- An `rpcc` without retransmission (`clt_nonce_` 0) on the client's side, the
  destructor of `rpcc` but for the closing of its connection, `updatestat`.
- The wrap-around of `xid_` after 2^32 calls: the order of xids is that of the
  numbers.
- Handlers of the extent server that overlap in its unsynchronised maps: the
  outcome of such a race is undefined, and nothing could be stated after it. `Yfs`
  takes the handlers one at a time.
- Spurious wakeups of `block_remove_fd` in `ServerLife`; `Connection` has them, and what
  follows from them.
- In `LockServer`, copies of a call that is pending: `checkduplicate_and_update` drops
  them, but each takes a place in the queue and a dispatch thread for a moment, so that
  what `PoolNeverExhausted` says of idle threads is about handlers that block, not about
  those moments. Client threads have an `rpcc` each, while some of `lock_tester` share
  one.
- In `RpcServer`, requests whose header or arguments cannot be unpacked: `ServerLife`
  has the former as a request that `dispatch` drops, `Marshall` the latter. A job of
  `ServerLife` runs through the checks of `dispatch` in one step.
- `EPollAIO`, which is never instantiated; `has_callback` and `is_watched`, which
  nothing calls; `diff_timespec`, which only `rpctest` uses.
- Sums of sizes that wrap around in `marshall`: PDUs are limited to 10 MB.
- That `Connection` implements what `RpcWire` takes a connection to be is not shown
  formally; `WritesWhole`, `InOrder` and `NoUseAfterDelete`, which are proved, are the
  facts used.
- Logging, the clock shim for MacOS, `make_sockaddr`, command-line handling, tests
  and scripts.
