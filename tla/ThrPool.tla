------------------------------ MODULE ThrPool ------------------------------
(***************************************************************************)
(* class ThrPool, a pool of threads over a fifo of jobs (fifo.h).  Every   *)
(* step of enq and deq between two points where m_ is released is one      *)
(* action.  Callers add jobs, each of them once and in any order; when     *)
(* they are done the pool is destroyed: one poison pill for every worker,  *)
(* then the workers are joined.                                            *)
(*                                                                         *)
(* A thread that waits on a condition variable is in the set of the        *)
(* variable: pthread_cond_signal takes one thread out of it, if there is   *)
(* one, and a thread may also wake up spuriously.                          *)
(***************************************************************************)
EXTENDS Naturals, Sequences, FiniteSets

CONSTANTS
    Callers,     \* the callers of addJob; caller p adds the job p
    Workers,     \* the threads of the pool
    Pill,        \* the job with f == NULL
    max_         \* the capacity of the queue, 0 for none (100 jobs per worker in the code)

ASSUME PoolAssumption ==
    /\ max_ \in Nat
    /\ Pill \notin Callers
    /\ IsFiniteSet(Callers) /\ IsFiniteSet(Workers) /\ Workers # {}

VARIABLES
    blockadd_,       \* addJob blocks when the queue is full
    q_,
    cpc,             \* cpc[p]: "add", "wait", "added" or "refused"
    wpc,             \* wpc[w]: "take", "wait", "run" or "exited"
    wjob,            \* wjob[w]: the job w runs
    pills,           \* poison pills the destructor has queued
    dpc,             \* the destructor: "off", "enq", "wait", "join" or "gone"
    accepted,        \* history: the jobs queued, in order
    taken            \* history: the jobs taken, in order

vars == <<blockadd_, q_, cpc, wpc, wjob, pills, dpc, accepted, taken>>

\* The types of the variables: the queue keeps to its capacity, and the destructor
\* queues no more than one pill per worker.
PoolTypeOK ==
    /\ blockadd_ \in BOOLEAN
    /\ q_ \in Seq(Callers \cup {Pill})
    /\ max_ # 0 => Len(q_) <= max_
    /\ cpc \in [Callers -> {"add", "wait", "added", "refused"}]
    /\ wpc \in [Workers -> {"take", "wait", "run", "exited"}]
    /\ wjob \in [Workers -> Callers \cup {Pill}]
    /\ pills \in 0 .. Cardinality(Workers)
    /\ dpc \in {"off", "enq", "wait", "join", "gone"}
    /\ accepted \in Seq(Callers \cup {Pill})
    /\ taken \in Seq(Callers \cup {Pill})

Init ==
    /\ blockadd_ \in BOOLEAN
    /\ q_ = <<>>
    /\ cpc = [p \in Callers |-> "add"]
    /\ wpc = [w \in Workers |-> "take"]
    /\ wjob = [w \in Workers |-> Pill]
    /\ pills = 0
    /\ dpc = "off"
    /\ accepted = <<>>
    /\ taken = <<>>

-----------------------------------------------------------------------------
\* Mutant of HasSpace: off by one.
HasSpaceOneMore == max_ = 0 \/ Len(q_) <= max_

HasSpace == max_ = 0 \/ Len(q_) < max_

\* Mutant of SignalNonEmpty: only the push into an empty queue signals.
SignalIfEmpty ==
    \/ q_ = <<>> /\ \E w \in Workers : wpc[w] = "wait" /\ wpc' = [wpc EXCEPT ![w] = "take"]
    \/ (q_ # <<>> \/ \A w \in Workers : wpc[w] # "wait") /\ UNCHANGED wpc

\* non_empty_c_ is signalled.
SignalNonEmpty ==
    \/ \E w \in Workers : wpc[w] = "wait" /\ wpc' = [wpc EXCEPT ![w] = "take"]
    \/ (\A w \in Workers : wpc[w] # "wait") /\ UNCHANGED wpc

\* fifo::enq when there is space.
Push(job) ==
    /\ HasSpace
    /\ q_' = Append(q_, job)
    /\ accepted' = Append(accepted, job)
    /\ SignalNonEmpty
    /\ UNCHANGED <<wjob, taken>>

\* ThrPool::addJob
AddJob(p) ==
    /\ cpc[p] = "add"
    /\ \/ Push(p) /\ cpc' = [cpc EXCEPT ![p] = "added"]
       \/ /\ ~HasSpace
          /\ cpc' = [cpc EXCEPT ![p] = IF blockadd_ THEN "wait" ELSE "refused"]
          /\ UNCHANGED <<q_, wpc, wjob, accepted, taken>>
    /\ UNCHANGED <<pills, dpc>>

\* Mutant of SignalHasSpace: nobody is woken.
SignalNobody == UNCHANGED <<cpc, dpc>>

\* has_space_c_ is signalled: a caller, or the destructor, goes on.
SignalHasSpace ==
    \/ \E p \in Callers : /\ cpc[p] = "wait"
                          /\ cpc' = [cpc EXCEPT ![p] = "add"]
                          /\ UNCHANGED dpc
    \/ dpc = "wait" /\ dpc' = "enq" /\ UNCHANGED cpc
    \/ (\A p \in Callers : cpc[p] # "wait") /\ dpc # "wait" /\ UNCHANGED <<cpc, dpc>>

\* fifo::deq: there is a job, which a worker runs, or which tells it to exit.
TakeJob(w) ==
    /\ wpc[w] = "take"
    /\ q_ # <<>>
    /\ q_' = Tail(q_)
    /\ taken' = Append(taken, Head(q_))
    /\ wjob' = [wjob EXCEPT ![w] = Head(q_)]
    /\ wpc' = [wpc EXCEPT ![w] = IF Head(q_) = Pill THEN "exited" ELSE "run"]
    /\ IF max_ # 0 /\ Len(q_) - 1 < max_ THEN SignalHasSpace ELSE UNCHANGED <<cpc, dpc>>
    /\ UNCHANGED <<pills, accepted>>

\* fifo::deq: there is none.
WaitForJob(w) ==
    /\ wpc[w] = "take"
    /\ q_ = <<>>
    /\ wpc' = [wpc EXCEPT ![w] = "wait"]
    /\ UNCHANGED <<q_, cpc, wjob, pills, dpc, accepted, taken>>

\* The job returns (do_worker).
JobDone(w) ==
    /\ wpc[w] = "run"
    /\ wpc' = [wpc EXCEPT ![w] = "take"]
    /\ UNCHANGED <<q_, cpc, wjob, pills, dpc, accepted, taken>>

\* A spurious wakeup: the thread looks again.
Spurious ==
    /\ \/ \E w \in Workers : /\ wpc[w] = "wait"
                             /\ wpc' = [wpc EXCEPT ![w] = "take"]
                             /\ UNCHANGED <<cpc, dpc>>
       \/ \E p \in Callers : /\ cpc[p] = "wait"
                             /\ cpc' = [cpc EXCEPT ![p] = "add"]
                             /\ UNCHANGED <<wpc, dpc>>
       \/ dpc = "wait" /\ dpc' = "enq" /\ UNCHANGED <<cpc, wpc>>
    /\ UNCHANGED <<q_, wjob, pills, accepted, taken>>

\* Mutant of Destroy: the callers need not be done.
DestroyEarly ==
    /\ dpc = "off"
    /\ dpc' = "enq"
    /\ UNCHANGED <<q_, cpc, wpc, wjob, pills, accepted, taken>>

\* ~ThrPool may be called "only when no external thread will ever use this
\* thread pool again or is currently blocking on it".
Destroy ==
    /\ dpc = "off"
    /\ \A p \in Callers : cpc[p] \in {"added", "refused"}
    /\ dpc' = "enq"
    /\ UNCHANGED <<q_, cpc, wpc, wjob, pills, accepted, taken>>

\* The destructor queues the pills; here enq blocks.
EnqPill ==
    /\ dpc = "enq"
    /\ IF pills = Cardinality(Workers)
       THEN dpc' = "join" /\ UNCHANGED <<q_, wpc, wjob, pills, accepted, taken>>
       ELSE \/ Push(Pill) /\ pills' = pills + 1 /\ UNCHANGED dpc
            \/ ~HasSpace /\ dpc' = "wait" /\ UNCHANGED <<q_, wpc, wjob, pills, accepted, taken>>
    /\ UNCHANGED cpc

\* All workers have been joined, and the fifo goes.
Join ==
    /\ dpc = "join"
    /\ \A w \in Workers : wpc[w] = "exited"
    /\ dpc' = "gone"
    /\ UNCHANGED <<q_, cpc, wpc, wjob, pills, accepted, taken>>

\* Nothing is left to do.
Gone == dpc = "gone" /\ UNCHANGED vars

WorkerStep(w) == TakeJob(w) \/ WaitForJob(w) \/ JobDone(w)

DestroyerStep == Destroy \/ EnqPill \/ Join

Next ==
    /\ \/ \E p \in Callers : AddJob(p)
       \/ \E w \in Workers : WorkerStep(w)
       \/ DestroyerStep
       \/ Spurious
       \/ Gone
    /\ UNCHANGED blockadd_

Spec == Init /\ [][Next]_vars

-----------------------------------------------------------------------------
(***************************************************************************)
(* Jobs are taken in the order in which enq queued them, none is lost and  *)
(* none is taken twice; all of them are taken before any pill, so that no  *)
(* accepted job is left behind when the pool is gone.                      *)
(***************************************************************************)
FifoOrder ==
    /\ accepted = taken \o q_
    /\ \A i, j \in DOMAIN accepted : accepted[i] = Pill /\ i < j => accepted[j] = Pill
    /\ dpc = "gone" => q_ = <<>>

(***************************************************************************)
(* No wakeup is lost in fifo, though deq and enq signal one thread only:   *)
(* when workers wait on non_empty_c_, there are at least as many awake     *)
(* workers as jobs in the queue; when callers or the destructor wait on    *)
(* has_space_c_, at least as many of them are awake as there is space.     *)
(***************************************************************************)
NoLostWakeup ==
    LET awakeWorkers == {w \in Workers : wpc[w] \in {"take", "run"}}
        awakeCallers == {p \in Callers : cpc[p] = "add"}
    IN  /\ (\E w \in Workers : wpc[w] = "wait") => Cardinality(awakeWorkers) >= Len(q_)
        /\ dpc = "wait" => Len(q_) = max_
        /\ (\E p \in Callers : cpc[p] = "wait") => Cardinality(awakeCallers) + Len(q_) >= max_

-----------------------------------------------------------------------------
\* Threads run, jobs end, and the owner destroys the pool in the end.
FairSpec ==
    /\ Spec
    /\ \A p \in Callers : WF_vars(AddJob(p) /\ UNCHANGED blockadd_)
    /\ \A w \in Workers : WF_vars(WorkerStep(w) /\ UNCHANGED blockadd_)
    /\ WF_vars(DestroyerStep /\ UNCHANGED blockadd_)

(***************************************************************************)
(* Every addJob returns, every accepted job is run, and the destructor     *)
(* returns: the signals of fifo suffice, without any spurious wakeup.      *)
(***************************************************************************)
PoolDrains == <>(dpc = "gone")
=============================================================================
