----------------------------- MODULE LockServer -----------------------------
(***************************************************************************)
(* lock_server and its clients.  The handlers of lock_server block, and    *)
(* they run in the threads of the dispatch pool of rpcs: a handler that    *)
(* waits for a lock keeps a thread of the pool.                            *)
(*                                                                         *)
(* The RPC library is taken as RpcPromise states it: the handler of a call *)
(* runs at most once while the call is pending, and a copy of the request  *)
(* may run again once the server has forgotten the call (LateCopy).        *)
(*                                                                         *)
(* wpc[w] is where worker w stands:                                        *)
(*   idle      waiting for a job                                           *)
(*   acquire   about to look for the mutex of the lock, with _m held       *)
(*   insert    inserting the mutex into _locks_m, with _m held             *)
(*   find      about to look the mutex up, without _m                      *)
(*   lock      in pthread_mutex_lock of the lock's mutex                   *)
(*   count     about to count the grant                                    *)
(*   release   about to look the mutex up and unlock it, without _m        *)
(*   uncount   about to count the release                                  *)
(***************************************************************************)
EXTENDS Integers, Sequences, FiniteSets

CONSTANTS
    Threads,     \* client threads, each with an rpcc of its own
    Locks,
    Workers,     \* the threads of the dispatch pool
    NoJob,
    MaxLate      \* bound: late copies that run

Ops == {"acquire", "release"}
Jobs == [thr : Threads, op : Ops, lid : Locks, late : BOOLEAN]

\* lock_tester: "we cannot test more than 10 blocking rpc".
ASSUME LockAssumption ==
    /\ IsFiniteSet(Threads) /\ IsFiniteSet(Locks) /\ IsFiniteSet(Workers)
    /\ Cardinality(Threads) <= Cardinality(Workers)
    /\ MaxLate \in Nat
    /\ NoJob \notin Jobs

VARIABLES
    held,        \* held[t]: the locks that thread t has been granted
    pending,     \* pending[t]: the call t waits for, or NoJob
    dead,        \* threads that gave up a call: their process aborted
    copies,      \* the answered calls a copy of whose request is still under way
    forgotten,   \* those of them whose replies the server has dropped
    jobq,        \* the queue of the dispatch pool
    wpc, wjob,
    _locks_m,    \* _locks_m[l]: the mutex of lock l: "none", "free" or "held"
    nacquire,
    late,        \* history: late[op] late copies of requests for op have run
    raced        \* history: _locks_m was read while it was being changed

clientVars == <<held, pending, dead>>
poolVars == <<jobq, wpc, wjob>>
lockVars == <<_locks_m, nacquire, raced>>
copyVars == <<copies, forgotten, late>>
vars == <<clientVars, poolVars, lockVars, copyVars>>

Init ==
    /\ held = [t \in Threads |-> {}]
    /\ pending = [t \in Threads |-> NoJob]
    /\ dead = {}
    /\ copies = {}
    /\ forgotten = {}
    /\ jobq = <<>>
    /\ wpc = [w \in Workers |-> "idle"]
    /\ wjob = [w \in Workers |-> NoJob]
    /\ _locks_m = [l \in Locks |-> "none"]
    /\ nacquire = 0
    /\ late = [op \in Ops |-> 0]
    /\ raced = FALSE

-----------------------------------------------------------------------------
(* The clients.                                                            *)

\* Mutant of Call: a client whose call has timed out goes on to make others.
CallAfterTimeout(t, op, lid) ==
    LET job == [thr |-> t, op |-> op, lid |-> lid, late |-> FALSE]
    IN  /\ pending[t] = NoJob \/ t \in dead
        /\ Len(jobq) < Cardinality(Threads)
        /\ pending' = [pending EXCEPT ![t] = job]
        /\ jobq' = Append(jobq, job)
        /\ UNCHANGED <<dead, wpc, wjob>>
        /\ UNCHANGED <<lockVars, copyVars>>

Call(t, op, lid) ==
    LET job == [thr |-> t, op |-> op, lid |-> lid, late |-> FALSE]
    IN  /\ t \notin dead
        /\ pending[t] = NoJob
        /\ pending' = [pending EXCEPT ![t] = job]
        /\ jobq' = Append(jobq, job)
        /\ UNCHANGED <<dead, wpc, wjob>>
        /\ UNCHANGED <<lockVars, copyVars>>

\* lock_client::acquire
Acquire(t, lid) ==
    /\ lid \notin held[t]
    /\ Call(t, "acquire", lid)
    /\ UNCHANGED held

\* lock_client::release: from now on the client no longer counts on the lock.
Release(t, lid) ==
    /\ lid \in held[t]
    /\ Call(t, "release", lid)
    /\ held' = [held EXCEPT ![t] = @ \ {lid}]

\* The call times out after rpcc::to_max, and assert(ret == OK) fails.
GiveUp(t) ==
    /\ t \notin dead
    /\ pending[t] # NoJob
    /\ dead' = dead \cup {t}
    /\ UNCHANGED <<held, pending>>
    /\ UNCHANGED <<poolVars, lockVars, copyVars>>

\* A copy of a request arrives that rpcs::dispatch takes for a new one.
LateCopy(call) ==
    /\ jobq' = Append(jobq, [call EXCEPT !.late = TRUE])
    /\ copies' = copies \ {call}
    /\ forgotten' = forgotten \ {call}
    /\ late' = [late EXCEPT ![call.op] = @ + 1]
    /\ UNCHANGED <<wpc, wjob>>
    /\ UNCHANGED <<clientVars, lockVars>>

-----------------------------------------------------------------------------
(* The handlers.                                                           *)

Goto(w, p) == wpc' = [wpc EXCEPT ![w] = p]

\* ThrPool::takeJob, and rpcs::dispatch finds the handler.  The request acknowledges
\* the calls before it, which the server forgets.
TakeJob(w) ==
    /\ wpc[w] = "idle"
    /\ jobq # <<>>
    /\ jobq' = Tail(jobq)
    /\ wjob' = [wjob EXCEPT ![w] = Head(jobq)]
    /\ Goto(w, Head(jobq).op)
    /\ forgotten' = IF Head(jobq).late THEN forgotten
                    ELSE forgotten \cup {c \in copies : c.thr = Head(jobq).thr}
    /\ UNCHANGED <<clientVars, lockVars, copies, late>>

\* _m is held only while a mutex is inserted, and within other single steps.
MFree == \A v \in Workers : wpc[v] # "insert"

\* acquire, first critical section.
FindOrInsert(w) ==
    /\ wpc[w] = "acquire"
    /\ MFree
    /\ Goto(w, IF _locks_m[wjob[w].lid] = "none" THEN "insert" ELSE "find")
    /\ UNCHANGED <<clientVars, lockVars, jobq, wjob, copyVars>>

Insert(w) ==
    /\ wpc[w] = "insert"
    /\ _locks_m' = [_locks_m EXCEPT ![wjob[w].lid] = "free"]
    /\ Goto(w, "find")
    /\ UNCHANGED <<clientVars, jobq, wjob, nacquire, raced, copyVars>>

(***************************************************************************)
(* The lookup _locks_m[lid] without _m.  While another thread inserts, it  *)
(* is a data race: the lookup finds the mutex, or misses it and inserts a  *)
(* mutex of its own.                                                       *)
(***************************************************************************)
Lookup(w, found, missed) ==
    /\ raced' = (raced \/ ~MFree)
    /\ found \/ (~MFree /\ missed)

\* pthread_mutex_lock(&_locks_m[lid]): find the mutex ...
FindMutex(w) ==
    /\ wpc[w] = "find"
    /\ Lookup(w, Goto(w, "lock"), Goto(w, "count"))
    /\ UNCHANGED <<clientVars, jobq, wjob, _locks_m, nacquire, copyVars>>

\* Mutant of LockMutex: the lock is taken without waiting.
LockMutexAnyway(w) ==
    /\ wpc[w] = "lock"
    /\ _locks_m' = [_locks_m EXCEPT ![wjob[w].lid] = "held"]
    /\ Goto(w, "count")
    /\ UNCHANGED <<clientVars, jobq, wjob, nacquire, raced, copyVars>>

\* ... and lock it.
LockMutex(w) ==
    /\ wpc[w] = "lock"
    /\ _locks_m[wjob[w].lid] = "free"
    /\ _locks_m' = [_locks_m EXCEPT ![wjob[w].lid] = "held"]
    /\ Goto(w, "count")
    /\ UNCHANGED <<clientVars, jobq, wjob, nacquire, raced, copyVars>>

\* The handler returns; the client gets its reply if it still waits for it.  A copy of
\* the request may still be under way.
Return(w, grant) ==
    LET job == wjob[w]
        waits == ~job.late /\ job.thr \notin dead
    IN  /\ wpc' = [wpc EXCEPT ![w] = "idle"]
        /\ wjob' = [wjob EXCEPT ![w] = NoJob]
        /\ IF waits
           THEN /\ pending' = [pending EXCEPT ![job.thr] = NoJob]
                /\ held' = [held EXCEPT ![job.thr] = @ \cup grant]
                /\ \/ UNCHANGED copies
                   \/ /\ Cardinality(copies) + late["acquire"] + late["release"] < MaxLate
                      /\ copies' = copies \cup {job}
           ELSE UNCHANGED <<pending, held, copies>>
        /\ UNCHANGED <<dead, jobq, forgotten, late>>

\* acquire, last critical section.
Count(w) ==
    /\ wpc[w] = "count"
    /\ MFree
    /\ nacquire' = nacquire + 1
    /\ Return(w, {wjob[w].lid})
    /\ UNCHANGED <<_locks_m, raced>>

\* Mutant of UnlockMutex: release locks the mutex instead.
UnlockMutexLocks(w) ==
    /\ wpc[w] = "release"
    /\ _locks_m[wjob[w].lid] = "free"
    /\ _locks_m' = [_locks_m EXCEPT ![wjob[w].lid] = "held"]
    /\ Goto(w, "uncount")
    /\ UNCHANGED <<clientVars, jobq, wjob, nacquire, raced, copyVars>>

\* release: a mutex that is not locked stays unlocked.
UnlockMutex(w) ==
    /\ wpc[w] = "release"
    /\ Lookup(w, _locks_m' = [_locks_m EXCEPT ![wjob[w].lid] = "free"], UNCHANGED _locks_m)
    /\ Goto(w, "uncount")
    /\ UNCHANGED <<clientVars, jobq, wjob, nacquire, copyVars>>

\* Mutant of Uncount: the release is not counted.
UncountNothing(w) ==
    /\ wpc[w] = "uncount"
    /\ MFree
    /\ Return(w, {})
    /\ UNCHANGED <<nacquire, _locks_m, raced>>

Uncount(w) ==
    /\ wpc[w] = "uncount"
    /\ MFree
    /\ nacquire' = nacquire - 1
    /\ Return(w, {})
    /\ UNCHANGED <<_locks_m, raced>>

WorkerStep(w) ==
    \/ TakeJob(w)
    \/ FindOrInsert(w)
    \/ Insert(w)
    \/ FindMutex(w)
    \/ LockMutex(w)
    \/ Count(w)
    \/ UnlockMutex(w)
    \/ Uncount(w)

Next ==
    \/ \E t \in Threads, lid \in Locks : Acquire(t, lid) \/ Release(t, lid)
    \/ \E t \in Threads : GiveUp(t)
    \/ \E call \in forgotten : LateCopy(call)
    \/ \E w \in Workers : WorkerStep(w)

Spec == Init /\ [][Next]_vars

-----------------------------------------------------------------------------
(***************************************************************************)
(* "the lock server doesn't grant the same lock to both clients"           *)
(***************************************************************************)
GrantedOnce == \A t, u \in Threads : t # u => held[t] \cap held[u] = {}

(***************************************************************************)
(* Two clients are never granted the same lock, over all interleavings of  *)
(* the handlers, as long as no late copy of a release runs and no lookup   *)
(* in _locks_m meets an insertion.  A late copy of an acquire does no harm *)
(* here: nobody is told that it was granted.                               *)
(***************************************************************************)
MutualExclusion == ~raced /\ late["release"] = 0 => GrantedOnce

(***************************************************************************)
(* While a request waits in the queue, a thread of the pool is idle: the   *)
(* handlers blocked in acquire never keep a release from running, as long  *)
(* as the pool has a thread for every client thread.                       *)
(***************************************************************************)
PoolNeverExhausted ==
    (\A op \in Ops : late[op] = 0) /\ jobq # <<>> => \E w \in Workers : wpc[w] = "idle"

(***************************************************************************)
(* Whenever no handler runs, nacquire (what stat returns) is the number of *)
(* the locks that are held, also those whose client has given up.          *)
(***************************************************************************)
NacquireExact ==
    ~raced /\ late["release"] = 0 /\ (\A w \in Workers : wpc[w] = "idle") =>
        nacquire = Cardinality({l \in Locks : _locks_m[l] = "held"})

-----------------------------------------------------------------------------
\* The threads of the pool run.
FairSpec == Spec /\ \A w \in Workers : WF_vars(WorkerStep(w))

(***************************************************************************)
(* A release is answered, whoever waits for locks meanwhile, unless its    *)
(* client gives up first, or a late copy of an acquire keeps a thread of   *)
(* the pool.                                                               *)
(***************************************************************************)
ReleaseReturns ==
    \A t \in Threads :
        (pending[t] # NoJob /\ pending[t].op = "release") ~>
            (pending[t] = NoJob \/ pending[t].op = "acquire" \/ t \in dead \/ late["acquire"] > 0)
=============================================================================
