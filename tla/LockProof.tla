----------------------------- MODULE LockProof -----------------------------
(***************************************************************************)
(* Proofs about LockServer, for any numbers of client threads, locks and   *)
(* workers: two clients are never granted one lock, and handlers that      *)
(* block never use up the pool.                                            *)
(*                                                                         *)
(* MutualExclusion is not inductive: the right to a lock is not only with  *)
(* the client that has been granted it, but on its way to and from it, as  *)
(* a handler that has locked the mutex and as a release that has not       *)
(* unlocked it yet.                                                        *)
(***************************************************************************)
EXTENDS LockServer, FiniteSetTheorems, TLAPS

Places == {"idle", "acquire", "insert", "find", "lock", "count", "release", "uncount"}

\* The types of the variables.
LockType ==
    /\ held \in [Threads -> SUBSET Locks]
    /\ pending \in [Threads -> Jobs \cup {NoJob}]
    /\ dead \subseteq Threads
    /\ copies \subseteq Jobs /\ forgotten \subseteq Jobs
    /\ jobq \in Seq(Jobs)
    /\ wpc \in [Workers -> Places]
    /\ wjob \in [Workers -> Jobs \cup {NoJob}]
    /\ _locks_m \in [Locks -> {"none", "free", "held"}]
    /\ nacquire \in Int
    /\ late \in [Ops -> Nat]
    /\ raced \in BOOLEAN

Busy(w) == wpc[w] # "idle"

\* A worker has a job unless it is idle, and runs the handler of its job.
WorkerOK ==
    \A w \in Workers :
        /\ Busy(w) => wjob[w] \in Jobs
        /\ wpc[w] \in {"acquire", "insert", "find", "lock", "count"} => wjob[w].op = "acquire"
        /\ wpc[w] \in {"release", "uncount"} => wjob[w].op = "release"

\* A job that is not a late copy is the call its thread waits for; a late copy was
\* counted.
JobOK ==
    /\ \A i \in 1 .. Len(jobq) :
          IF jobq[i].late THEN late[jobq[i].op] > 0 ELSE pending[jobq[i].thr] = jobq[i]
    /\ \A w \in Workers : Busy(w) =>
          IF wjob[w].late THEN late[wjob[w].op] > 0 ELSE pending[wjob[w].thr] = wjob[w]

\* The job of a thread is in one place: once in the queue, or with one worker.
OnePlace ==
    /\ \A i, j \in 1 .. Len(jobq) :
          ~jobq[i].late /\ ~jobq[j].late /\ jobq[i].thr = jobq[j].thr => i = j
    /\ \A v, w \in Workers :
          Busy(v) /\ Busy(w) /\ ~wjob[v].late /\ ~wjob[w].late /\ wjob[v].thr = wjob[w].thr
             => v = w
    /\ \A i \in 1 .. Len(jobq), w \in Workers :
          Busy(w) /\ ~jobq[i].late /\ ~wjob[w].late => jobq[i].thr # wjob[w].thr

Safe == ~raced /\ late["release"] = 0

\* One handler at a time inserts a mutex, that of a lock that has none.
InsertOK ==
    /\ \A v, w \in Workers : wpc[v] = "insert" /\ wpc[w] = "insert" => v = w
    /\ Safe => \A w \in Workers : wpc[w] = "insert" => _locks_m[wjob[w].lid] = "none"

\* The rights to lock l: of a client, of a worker, and of a request in the queue.
Holds(t, l) == l \in held[t]
Carries(w, l) == wpc[w] \in {"count", "release"} /\ wjob[w].lid = l
Returns(i, l) == jobq[i].op = "release" /\ jobq[i].lid = l

\* There is one right to a lock at most, and while there is one the mutex is held.
RightsOK ==
    Safe =>
      /\ \A t \in Threads, l \in Locks : Holds(t, l) =>
            /\ _locks_m[l] = "held"
            /\ \A u \in Threads : Holds(u, l) => u = t
            /\ \A w \in Workers : ~Carries(w, l)
            /\ \A i \in 1 .. Len(jobq) : ~Returns(i, l)
      /\ \A w \in Workers, l \in Locks : Carries(w, l) =>
            /\ _locks_m[l] = "held"
            /\ \A v \in Workers : Carries(v, l) => v = w
            /\ \A i \in 1 .. Len(jobq) : ~Returns(i, l)
      /\ \A i \in 1 .. Len(jobq), l \in Locks : Returns(i, l) =>
            /\ _locks_m[l] = "held"
            /\ \A j \in 1 .. Len(jobq) : Returns(j, l) => j = i

LockInv ==
    /\ LockType
    /\ WorkerOK
    /\ JobOK
    /\ OnePlace
    /\ InsertOK
    /\ RightsOK

-----------------------------------------------------------------------------
\* What Append does to the queue of the pool, when addJob puts a job into it.
LEMMA AppendProps ==
    ASSUME NEW S, NEW q \in Seq(S), NEW e \in S
    PROVE  /\ Append(q, e) \in Seq(S)
           /\ Len(q) \in Nat
           /\ Len(Append(q, e)) = Len(q) + 1
           /\ \A i \in 1 .. Len(q) : Append(q, e)[i] = q[i]
           /\ Append(q, e)[Len(q) + 1] = e
  OBVIOUS

\* What Tail does to it, when a worker takes the first job.
LEMMA TailProps ==
    ASSUME NEW S, NEW q \in Seq(S), q # <<>>
    PROVE  /\ Tail(q) \in Seq(S)
           /\ Head(q) = q[1] /\ q[1] \in S
           /\ Len(q) \in Nat \ {0}
           /\ Len(Tail(q)) = Len(q) - 1
           /\ \A i \in 1 .. Len(Tail(q)) : Tail(q)[i] = q[i + 1] /\ i + 1 \in 1 .. Len(q)
  OBVIOUS

\* The invariant holds when the lock server starts.
LEMMA LockInvInit == Init => LockInv
  <1> SUFFICES ASSUME Init PROVE LockInv
    OBVIOUS
  <1>1. jobq \in Seq(Jobs) /\ Len(jobq) = 0
    BY DEF Init
  <1>2. \A w \in Workers : wpc[w] = "idle"
    BY DEF Init
  <1>3. LockType
    <2>1. late \in [Ops -> Nat] /\ nacquire \in Int
      BY DEF Init
    <2>2. raced \in BOOLEAN /\ copies \subseteq Jobs /\ forgotten \subseteq Jobs /\ dead \subseteq Threads
      BY DEF Init
    <2> QED
      BY <1>1, <2>1, <2>2 DEF Init, LockType, Places
  <1>4. WorkerOK /\ JobOK /\ OnePlace /\ InsertOK
    BY <1>1, <1>2 DEF WorkerOK, JobOK, OnePlace, InsertOK, Busy
  <1>5. RightsOK
    BY <1>1, <1>2 DEF Init, RightsOK, Holds, Carries, Returns
  <1> QED
    BY <1>3, <1>4, <1>5 DEF LockInv

\* A call of a client (lock_client::acquire and release) puts one job into the
\* queue; a release takes the right to the lock with it.
LEMMA CallStep ==
    ASSUME LockInv, NEW t \in Threads, NEW lid \in Locks,
           Acquire(t, lid) \/ Release(t, lid)
    PROVE  LockInv'
  <1> DEFINE op == IF lid \in held[t] THEN "release" ELSE "acquire"
             job == [thr |-> t, op |-> op, lid |-> lid, late |-> FALSE]
             n == Len(jobq)
  <1>1. /\ job \in Jobs
        /\ pending[t] = NoJob
        /\ pending' = [pending EXCEPT ![t] = job]
        /\ jobq' = Append(jobq, job)
        /\ held' = [held EXCEPT ![t] = @ \ {lid}]
        /\ UNCHANGED <<dead, wpc, wjob, lockVars, copyVars>>
    <2>1. job \in Jobs
      BY DEF Jobs, Ops
    <2>2. CASE Acquire(t, lid)
      <3>1. lid \notin held[t] /\ held' = [held EXCEPT ![t] = @ \ {lid}]
        BY <2>2 DEF Acquire, LockInv, LockType
      <3> QED
        BY <2>1, <2>2, <3>1 DEF Acquire, Call
    <2>3. CASE Release(t, lid)
      BY <2>1, <2>3 DEF Release, Call
    <2> QED
      BY <2>2, <2>3
  <1> HIDE DEF job
  <1>2. /\ jobq' \in Seq(Jobs) /\ n \in Nat /\ Len(jobq') = n + 1
        /\ \A i \in 1 .. n : jobq'[i] = jobq[i] /\ jobq[i] \in Jobs
        /\ jobq'[n + 1] = job
        /\ \A i \in 1 .. Len(jobq') : i \in 1 .. n \/ i = n + 1
    BY <1>1, AppendProps DEF LockInv, LockType
  <1>3. job.thr = t /\ job.lid = lid /\ job.late = FALSE /\ job.op = op
    BY DEF job
  <1>4. LockType'
    BY <1>1, <1>2 DEF LockInv, LockType, lockVars, copyVars
  <1>5. WorkerOK'
    BY <1>1 DEF LockInv, WorkerOK, Busy
  <1>6. /\ \A i \in 1 .. n : ~jobq[i].late => jobq[i].thr # t
        /\ \A w \in Workers : Busy(w) /\ ~wjob[w].late => wjob[w].thr # t
    BY <1>1, <1>2, LockAssumption DEF LockInv, JobOK, WorkerOK
  <1>7. JobOK'
    BY <1>1, <1>2, <1>3, <1>6 DEF LockInv, LockType, JobOK, WorkerOK, Busy, copyVars, Jobs
  <1>8. OnePlace'
    BY <1>1, <1>2, <1>3, <1>6 DEF LockInv, OnePlace, Busy
  <1>9. InsertOK'
    BY <1>1 DEF LockInv, InsertOK, Safe, lockVars, copyVars
  <1>10. RightsOK'
    BY <1>1, <1>2, <1>3 DEF LockInv, LockType, RightsOK, Safe, Holds, Carries, Returns, lockVars, copyVars
  <1> QED
    BY <1>4, <1>5, <1>7, <1>8, <1>9, <1>10 DEF LockInv

\* A late copy of a request gets into the queue, where it is counted.
LEMMA LateCopyStep ==
    ASSUME LockInv, NEW call \in forgotten, LateCopy(call)
    PROVE  LockInv'
  <1> DEFINE job == [call EXCEPT !.late = TRUE]
             n == Len(jobq)
  <1>1. /\ call \in Jobs
        /\ jobq' = Append(jobq, job)
        /\ late' = [late EXCEPT ![call.op] = @ + 1]
        /\ UNCHANGED <<wpc, wjob, clientVars, lockVars>>
        /\ copies' \subseteq Jobs /\ forgotten' \subseteq Jobs
    BY DEF LateCopy, LockInv, LockType
  <1>2. job \in Jobs /\ job.late = TRUE /\ job.op = call.op
    BY <1>1 DEF Jobs
  <1> HIDE DEF job
  <1>3. /\ jobq' \in Seq(Jobs) /\ n \in Nat /\ Len(jobq') = n + 1
        /\ \A i \in 1 .. n : jobq'[i] = jobq[i] /\ jobq[i] \in Jobs
        /\ jobq'[n + 1] = job
        /\ \A i \in 1 .. Len(jobq') : i \in 1 .. n \/ i = n + 1
    BY <1>1, <1>2, AppendProps DEF LockInv, LockType
  <1>4. /\ late' \in [Ops -> Nat] /\ late'[call.op] > 0
        /\ \A op \in Ops : late[op] \in Nat /\ (late[op] > 0 => late'[op] > 0)
        /\ call.op \in Ops
    BY <1>1 DEF LockInv, LockType, Jobs
  <1>5. LockType'
    BY <1>1, <1>3, <1>4 DEF LockInv, LockType, clientVars, lockVars
  <1>6. WorkerOK'
    BY <1>1 DEF LockInv, WorkerOK, Busy
  <1>7. JobOK'
    BY <1>1, <1>2, <1>3, <1>4 DEF LockInv, WorkerOK, JobOK, Busy, clientVars, Jobs
  <1>8. OnePlace'
    BY <1>1, <1>2, <1>3 DEF LockInv, OnePlace, Busy
  <1>9. Safe' => Safe /\ call.op = "acquire"
    BY <1>1, <1>4 DEF Safe, lockVars, Ops, LockInv, LockType
  <1>10. InsertOK'
    BY <1>1, <1>9 DEF LockInv, InsertOK, lockVars
  <1>11. RightsOK'
    <2> SUFFICES ASSUME Safe' PROVE RightsOK'
      BY DEF RightsOK
    <2>1. Safe /\ UNCHANGED <<held, _locks_m, wpc, wjob>>
      BY <1>1, <1>9 DEF clientVars, lockVars
    <2>2. \A i \in 1 .. Len(jobq'), l \in Locks : Returns(i, l)' => i \in 1 .. n /\ Returns(i, l)
      BY <1>2, <1>3, <1>9 DEF Returns
    <2> QED
      BY <2>1, <2>2 DEF LockInv, RightsOK, Holds, Carries
  <1> QED
    BY <1>5, <1>6, <1>7, <1>8, <1>10, <1>11 DEF LockInv

\* A worker takes the first job of the queue, and with a release the right to the lock.
LEMMA TakeJobStep ==
    ASSUME LockInv, NEW w \in Workers, TakeJob(w)
    PROVE  LockInv'
  <1> DEFINE job == jobq[1]
             n == Len(jobq)
  <1>1. /\ wpc[w] = "idle"
        /\ job \in Jobs /\ job.op \in {"acquire", "release"}
        /\ jobq' = Tail(jobq)
        /\ wjob' = [wjob EXCEPT ![w] = job]
        /\ wpc' = [wpc EXCEPT ![w] = job.op]
        /\ UNCHANGED <<clientVars, lockVars, copies, late>>
        /\ jobq # <<>>
    <2>1. jobq \in Seq(Jobs) /\ jobq # <<>>
      BY DEF TakeJob, LockInv, LockType
    <2>2. Head(jobq) = job /\ job \in Jobs
      BY <2>1, TailProps
    <2>3. job.op \in {"acquire", "release"}
      BY <2>2 DEF Jobs, Ops
    <2> QED
      BY <2>1, <2>2, <2>3 DEF TakeJob, Goto
  <1>2. forgotten' \subseteq Jobs
    BY DEF TakeJob, LockInv, LockType
  <1>3. /\ jobq' \in Seq(Jobs) /\ n \in Nat \ {0} /\ Len(jobq') = n - 1
        /\ \A i \in 1 .. Len(jobq') : jobq'[i] = jobq[i + 1] /\ i + 1 \in 1 .. n
        /\ \A i \in 1 .. n : jobq[i] \in Jobs
    BY <1>1, TailProps DEF LockInv, LockType
  <1>4. /\ \A v \in Workers : v # w => wpc'[v] = wpc[v] /\ wjob'[v] = wjob[v]
        /\ wpc'[w] = job.op /\ wjob'[w] = job
    BY <1>1 DEF LockInv, LockType
  <1>5. LockType'
    BY <1>1, <1>2, <1>3 DEF LockInv, LockType, Places, clientVars, lockVars
  <1>6. WorkerOK'
    BY <1>1, <1>4 DEF LockInv, WorkerOK, Busy
  <1>7. JobOK'
    BY <1>1, <1>3, <1>4 DEF LockInv, JobOK, Busy, clientVars
  <1>8. OnePlace'
    <2>1. \A i, j \in 1 .. Len(jobq') :
             ~jobq'[i].late /\ ~jobq'[j].late /\ jobq'[i].thr = jobq'[j].thr => i = j
      <3> TAKE i, j \in 1 .. Len(jobq')
      <3>1. /\ jobq'[i] = jobq[i + 1] /\ i + 1 \in 1 .. n
            /\ jobq'[j] = jobq[j + 1] /\ j + 1 \in 1 .. n
            /\ i \in Int /\ j \in Int
        BY <1>3
      <3>2. ~jobq[i + 1].late /\ ~jobq[j + 1].late /\ jobq[i + 1].thr = jobq[j + 1].thr
              => i + 1 = j + 1
        BY <3>1 DEF LockInv, OnePlace
      <3> QED
        BY <3>1, <3>2
    <2>2. \A u, v \in Workers :
             Busy(u)' /\ Busy(v)' /\ ~wjob'[u].late /\ ~wjob'[v].late /\ wjob'[u].thr = wjob'[v].thr
                => u = v
      BY <1>3, <1>4 DEF LockInv, OnePlace, Busy
    <2>3. \A i \in 1 .. Len(jobq'), v \in Workers :
             Busy(v)' /\ ~jobq'[i].late /\ ~wjob'[v].late => jobq'[i].thr # wjob'[v].thr
      BY <1>3, <1>4 DEF LockInv, OnePlace, Busy
    <2> QED
      BY <2>1, <2>2, <2>3 DEF OnePlace
  <1>9. InsertOK'
    BY <1>1, <1>4 DEF LockInv, InsertOK, Safe, lockVars
  <1>10. RightsOK'
    <2> SUFFICES ASSUME Safe' PROVE RightsOK'
      BY DEF RightsOK
    <2>1. Safe /\ UNCHANGED <<held, _locks_m>>
      BY <1>1 DEF Safe, lockVars, clientVars
    <2>2. /\ \A l \in Locks : Carries(w, l)' <=> Returns(1, l)
          /\ \A v \in Workers, l \in Locks : v # w => (Carries(v, l)' <=> Carries(v, l))
          /\ \A i \in 1 .. Len(jobq'), l \in Locks : Returns(i, l)' <=> Returns(i + 1, l)
      BY <1>1, <1>3, <1>4 DEF Carries, Returns
    <2>3. \A t \in Threads, l \in Locks : Holds(t, l)' <=> Holds(t, l)
      BY <2>1 DEF Holds
    <2>4. ASSUME NEW t \in Threads, NEW l \in Locks, Holds(t, l)'
          PROVE  /\ _locks_m'[l] = "held"
                 /\ \A u \in Threads : Holds(u, l)' => u = t
                 /\ \A v \in Workers : ~Carries(v, l)'
                 /\ \A i \in 1 .. Len(jobq') : ~Returns(i, l)'
      <3>1. /\ _locks_m[l] = "held"
            /\ \A u \in Threads : Holds(u, l) => u = t
            /\ \A v \in Workers : ~Carries(v, l)
            /\ \A i \in 1 .. n : ~Returns(i, l)
        BY <2>1, <2>3, <2>4 DEF LockInv, RightsOK
      <3>2. \A i \in 1 .. Len(jobq') : ~Returns(i, l)'
        BY <1>3, <2>2, <3>1
      <3>3. ~Returns(1, l)
        BY <1>3, <3>1
      <3> QED
        BY <2>1, <2>2, <2>3, <3>1, <3>2, <3>3
    <2>5. ASSUME NEW v \in Workers, NEW l \in Locks, Carries(v, l)'
          PROVE  /\ _locks_m'[l] = "held"
                 /\ \A u \in Workers : Carries(u, l)' => u = v
                 /\ \A i \in 1 .. Len(jobq') : ~Returns(i, l)'
      <3>1. CASE v = w
        <4>1. _locks_m[l] = "held" /\ (\A j \in 1 .. n : Returns(j, l) => j = 1)
          BY <1>3, <2>1, <2>2, <2>5, <3>1 DEF LockInv, RightsOK
        <4>2. \A u \in Workers : u # w => ~Carries(u, l)
          BY <1>3, <2>1, <2>2, <2>5, <3>1 DEF LockInv, RightsOK
        <4>3. \A i \in 1 .. Len(jobq') : ~Returns(i, l)'
          BY <1>3, <2>2, <4>1
        <4> QED
          BY <2>1, <2>2, <3>1, <4>1, <4>2, <4>3
      <3>2. CASE v # w
        <4>1. Carries(v, l)
          BY <2>2, <2>5, <3>2
        <4> QED
          BY <1>3, <2>1, <2>2, <3>2, <4>1 DEF LockInv, RightsOK
      <3> QED
        BY <3>1, <3>2
    <2>6. ASSUME NEW i \in 1 .. Len(jobq'), NEW l \in Locks, Returns(i, l)'
          PROVE  /\ _locks_m'[l] = "held"
                 /\ \A j \in 1 .. Len(jobq') : Returns(j, l)' => j = i
      <3>1. i + 1 \in 1 .. n /\ Returns(i + 1, l)
        BY <1>3, <2>2, <2>6
      <3>2. _locks_m[l] = "held" /\ \A j \in 1 .. n : Returns(j, l) => j = i + 1
        BY <2>1, <3>1 DEF LockInv, RightsOK
      <3>3. \A j \in 1 .. Len(jobq') : Returns(j, l)' => j + 1 = i + 1
        BY <1>3, <2>2, <3>2
      <3> QED
        BY <1>3, <2>1, <3>2, <3>3
    <2> QED
      BY <2>4, <2>5, <2>6 DEF RightsOK
  <1> QED
    BY <1>5, <1>6, <1>7, <1>8, <1>9, <1>10 DEF LockInv

AcquirePlaces == {"acquire", "insert", "find", "lock", "count"}
ReleasePlaces == {"release", "uncount"}

\* A handler goes on without returning: neither jobs nor clients change.
LEMMA HandlerStep ==
    ASSUME LockInv, NEW w \in Workers, NEW p \in Places, Goto(w, p),
           \/ wpc[w] \in AcquirePlaces /\ p \in AcquirePlaces
           \/ wpc[w] \in ReleasePlaces /\ p \in ReleasePlaces,
           UNCHANGED <<clientVars, jobq, wjob, nacquire, copyVars>>,
           _locks_m' \in [Locks -> {"none", "free", "held"}],
           raced' \in BOOLEAN
    PROVE  /\ LockType' /\ WorkerOK' /\ JobOK' /\ OnePlace'
           /\ wjob[w] \in Jobs
           /\ wpc'[w] = p /\ \A v \in Workers : v # w => wpc'[v] = wpc[v]
  <1>1. /\ wpc'[w] = p /\ \A v \in Workers : v # w => wpc'[v] = wpc[v]
        /\ wpc' \in [Workers -> Places]
    BY DEF Goto, LockInv, LockType
  <1>2. \A v \in Workers : Busy(v)' <=> Busy(v)
    BY <1>1 DEF Busy, AcquirePlaces, ReleasePlaces
  <1>3. LockType'
    BY <1>1 DEF LockInv, LockType, clientVars, copyVars
  <1>4. WorkerOK' /\ wjob[w] \in Jobs
    BY <1>1, <1>2 DEF LockInv, WorkerOK, Busy, AcquirePlaces, ReleasePlaces
  <1>5. JobOK'
    BY <1>2 DEF LockInv, JobOK, clientVars, copyVars
  <1>6. OnePlace'
    BY <1>2 DEF LockInv, OnePlace
  <1> QED
    BY <1>1, <1>3, <1>4, <1>5, <1>6

\* The rights to locks are where they were when no worker gets a right or gives it
\* up, and no mutex that is held changes.
LEMMA RightsKept ==
    ASSUME LockInv, Safe' => Safe, UNCHANGED <<held, jobq, wjob>>,
           \A v \in Workers : wpc'[v] \in {"count", "release"} => wpc'[v] = wpc[v],
           \A l \in Locks : _locks_m[l] = "held" => _locks_m'[l] = "held"
    PROVE  RightsOK'
  <1> SUFFICES ASSUME Safe' PROVE RightsOK'
    BY DEF RightsOK
  <1>1. \A v \in Workers, l \in Locks : Carries(v, l)' => Carries(v, l)
    BY DEF Carries
  <1>2. \A t \in Threads, l \in Locks : Holds(t, l)' <=> Holds(t, l)
    BY DEF Holds
  <1>3. jobq' = jobq /\ \A i \in 1 .. Len(jobq), l \in Locks : Returns(i, l)' <=> Returns(i, l)
    BY DEF Returns
  <1> QED
    BY <1>1, <1>2, <1>3 DEF LockInv, RightsOK

\* acquire looks for the mutex of its lock; without one it goes on to insert it.
LEMMA FindOrInsertStep ==
    ASSUME LockInv, NEW w \in Workers, FindOrInsert(w)
    PROVE  LockInv'
  <1> DEFINE p == IF _locks_m[wjob[w].lid] = "none" THEN "insert" ELSE "find"
  <1>1. /\ wpc[w] = "acquire" /\ MFree /\ Goto(w, p)
        /\ UNCHANGED <<clientVars, jobq, wjob, nacquire, copyVars, _locks_m, raced>>
    BY DEF FindOrInsert, lockVars
  <1>2. /\ LockType' /\ WorkerOK' /\ JobOK' /\ OnePlace'
        /\ wpc'[w] = p /\ \A v \in Workers : v # w => wpc'[v] = wpc[v]
    BY <1>1, HandlerStep DEF AcquirePlaces, Places, LockInv, LockType
  <1>3. InsertOK'
    BY <1>1, <1>2 DEF LockInv, InsertOK, Safe, MFree, copyVars
  <1>4. RightsOK'
    BY <1>1, <1>2, RightsKept DEF Safe, clientVars, copyVars
  <1> QED
    BY <1>2, <1>3, <1>4 DEF LockInv

\* The mutex is inserted: nobody has a right to a lock that had none.
LEMMA InsertStep ==
    ASSUME LockInv, NEW w \in Workers, Insert(w)
    PROVE  LockInv'
  <1>1. /\ wpc[w] = "insert" /\ Goto(w, "find")
        /\ UNCHANGED <<clientVars, jobq, wjob, nacquire, copyVars, raced>>
        /\ _locks_m' = [_locks_m EXCEPT ![wjob[w].lid] = "free"]
    BY DEF Insert
  <1>2. /\ LockType' /\ WorkerOK' /\ JobOK' /\ OnePlace'
        /\ wpc'[w] = "find" /\ \A v \in Workers : v # w => wpc'[v] = wpc[v]
        /\ wjob[w] \in Jobs
    BY <1>1, HandlerStep DEF AcquirePlaces, Places, LockInv, LockType
  <1>3. InsertOK'
    BY <1>1, <1>2 DEF LockInv, InsertOK
  <1>4. CASE Safe
    <2>1. \A l \in Locks : _locks_m[l] = "held" => _locks_m'[l] = "held"
      BY <1>1, <1>4 DEF LockInv, LockType, InsertOK
    <2>2. RightsOK'
      BY <1>1, <1>2, <1>4, <2>1, RightsKept DEF clientVars
    <2> QED
      BY <1>2, <1>3, <2>2 DEF LockInv
  <1>5. CASE ~Safe
    BY <1>1, <1>2, <1>3, <1>5 DEF LockInv, RightsOK, Safe, copyVars
  <1> QED
    BY <1>4, <1>5

\* The lookup without _m: it finds the mutex, or the execution is no longer safe.
LEMMA FindMutexStep ==
    ASSUME LockInv, NEW w \in Workers, FindMutex(w)
    PROVE  LockInv'
  <1>1. PICK p \in {"lock", "count"} : Goto(w, p) /\ (p = "lock" \/ ~MFree)
    BY DEF FindMutex, Lookup
  <1>2. /\ wpc[w] = "find" /\ raced' = (raced \/ ~MFree)
        /\ UNCHANGED <<clientVars, jobq, wjob, nacquire, copyVars, _locks_m>>
    BY DEF FindMutex, Lookup
  <1>3. raced' \in BOOLEAN
    BY <1>2
  <1>4. /\ LockType' /\ WorkerOK' /\ JobOK' /\ OnePlace'
        /\ wpc'[w] = p /\ \A v \in Workers : v # w => wpc'[v] = wpc[v]
    BY <1>1, <1>2, <1>3, HandlerStep DEF AcquirePlaces, Places, LockInv, LockType
  <1>5. Safe' => Safe /\ p = "lock"
    BY <1>1, <1>2 DEF Safe, copyVars
  <1>6. InsertOK'
    BY <1>2, <1>4, <1>5 DEF LockInv, InsertOK
  <1>7. RightsOK'
    <2>1. CASE p = "lock"
      BY <1>2, <1>4, <1>5, <2>1, RightsKept DEF clientVars
    <2>2. CASE p # "lock"
      BY <1>5, <2>2 DEF RightsOK
    <2> QED
      BY <2>1, <2>2
  <1> QED
    BY <1>4, <1>6, <1>7 DEF LockInv

\* The mutex is locked: it was free, so that nobody had the right that the handler gets.
LEMMA LockMutexStep ==
    ASSUME LockInv, NEW w \in Workers, LockMutex(w)
    PROVE  LockInv'
  <1> DEFINE lid == wjob[w].lid
  <1>1. /\ wpc[w] = "lock" /\ Goto(w, "count")
        /\ UNCHANGED <<clientVars, jobq, wjob, nacquire, copyVars, raced>>
        /\ _locks_m[lid] = "free"
        /\ _locks_m' = [_locks_m EXCEPT ![lid] = "held"]
    BY DEF LockMutex
  <1>2. /\ LockType' /\ WorkerOK' /\ JobOK' /\ OnePlace'
        /\ wpc'[w] = "count" /\ \A v \in Workers : v # w => wpc'[v] = wpc[v]
        /\ wjob[w] \in Jobs
    BY <1>1, HandlerStep DEF AcquirePlaces, Places, LockInv, LockType
  <1>3. lid \in Locks
    BY <1>2 DEF Jobs
  <1>4. InsertOK'
    <2>1. \A u, v \in Workers : wpc'[u] = "insert" /\ wpc'[v] = "insert" => u = v
      BY <1>2 DEF LockInv, InsertOK
    <2>2. ASSUME Safe', NEW v \in Workers, wpc'[v] = "insert"
          PROVE  _locks_m'[wjob'[v].lid] = "none"
      <3>1. Safe /\ wjob' = wjob
        BY <1>1, <2>2 DEF Safe, copyVars
      <3>2. wpc[v] = "insert" /\ wjob[v] \in Jobs
        BY <1>2, <2>2 DEF LockInv, WorkerOK, Busy
      <3>3. _locks_m[wjob[v].lid] = "none" /\ wjob[v].lid \in Locks
        BY <3>1, <3>2 DEF LockInv, InsertOK, Jobs
      <3> QED
        BY <1>1, <3>1, <3>3 DEF LockInv, LockType
    <2> QED
      BY <2>1, <2>2 DEF InsertOK
  <1>5. RightsOK'
    <2> SUFFICES ASSUME Safe' PROVE RightsOK'
      BY DEF RightsOK
    <2>1. Safe /\ UNCHANGED <<held, jobq>>
      BY <1>1 DEF Safe, clientVars, copyVars
    <2>2. /\ \A l \in Locks : Carries(w, l)' <=> l = lid
          /\ \A v \in Workers, l \in Locks : v # w => (Carries(v, l)' <=> Carries(v, l))
          /\ \A l \in Locks : ~Carries(w, l)
      BY <1>1, <1>2 DEF Carries
    <2>3. /\ \A l \in Locks : l # lid => _locks_m'[l] = _locks_m[l]
          /\ _locks_m'[lid] = "held"
      BY <1>1, <1>3 DEF LockInv, LockType
    <2>4. /\ \A t \in Threads : ~Holds(t, lid)
          /\ \A v \in Workers : ~Carries(v, lid)
          /\ \A i \in 1 .. Len(jobq) : ~Returns(i, lid)
      BY <1>1, <1>3, <2>1 DEF LockInv, RightsOK
    <2>5. /\ \A t \in Threads, l \in Locks : Holds(t, l)' <=> Holds(t, l)
          /\ \A i \in 1 .. Len(jobq), l \in Locks : Returns(i, l)' <=> Returns(i, l)
      BY <2>1 DEF Holds, Returns
    <2>6. ASSUME NEW t \in Threads, NEW l \in Locks, Holds(t, l)'
          PROVE  /\ _locks_m'[l] = "held"
                 /\ \A u \in Threads : Holds(u, l)' => u = t
                 /\ \A v \in Workers : ~Carries(v, l)'
                 /\ \A i \in 1 .. Len(jobq') : ~Returns(i, l)'
      <3>1. Holds(t, l) /\ l # lid
        BY <2>4, <2>5, <2>6
      <3>2. /\ _locks_m[l] = "held"
            /\ \A u \in Threads : Holds(u, l) => u = t
            /\ \A v \in Workers : ~Carries(v, l)
            /\ \A i \in 1 .. Len(jobq) : ~Returns(i, l)
        BY <2>1, <3>1 DEF LockInv, RightsOK
      <3> QED
        BY <2>1, <2>2, <2>3, <2>5, <3>1, <3>2
    <2>7. ASSUME NEW v \in Workers, NEW l \in Locks, Carries(v, l)'
          PROVE  /\ _locks_m'[l] = "held"
                 /\ \A u \in Workers : Carries(u, l)' => u = v
                 /\ \A i \in 1 .. Len(jobq') : ~Returns(i, l)'
      <3>1. CASE l = lid
        BY <2>1, <2>2, <2>3, <2>4, <2>5, <2>7, <3>1
      <3>2. CASE l # lid
        <4>1. v # w /\ Carries(v, l)
          BY <2>2, <2>7, <3>2
        <4>2. /\ _locks_m[l] = "held"
              /\ \A u \in Workers : Carries(u, l) => u = v
              /\ \A i \in 1 .. Len(jobq) : ~Returns(i, l)
          BY <2>1, <4>1 DEF LockInv, RightsOK
        <4> QED
          BY <2>1, <2>2, <2>3, <2>5, <3>2, <4>1, <4>2
      <3> QED
        BY <3>1, <3>2
    <2>8. ASSUME NEW i \in 1 .. Len(jobq'), NEW l \in Locks, Returns(i, l)'
          PROVE  /\ _locks_m'[l] = "held"
                 /\ \A j \in 1 .. Len(jobq') : Returns(j, l)' => j = i
      <3>1. i \in 1 .. Len(jobq) /\ Returns(i, l) /\ l # lid
        BY <2>1, <2>4, <2>5, <2>8
      <3>2. /\ _locks_m[l] = "held"
            /\ \A j \in 1 .. Len(jobq) : Returns(j, l) => j = i
        BY <2>1, <3>1 DEF LockInv, RightsOK
      <3> QED
        BY <2>1, <2>3, <2>5, <3>1, <3>2
    <2> QED
      BY <2>6, <2>7, <2>8 DEF RightsOK
  <1> QED
    BY <1>2, <1>4, <1>5 DEF LockInv

\* The mutex is unlocked by the one release that has the right to it.
LEMMA UnlockMutexStep ==
    ASSUME LockInv, NEW w \in Workers, UnlockMutex(w)
    PROVE  LockInv'
  <1> DEFINE lid == wjob[w].lid
  <1>1. /\ wpc[w] = "release" /\ Goto(w, "uncount")
        /\ UNCHANGED <<clientVars, jobq, wjob, nacquire, copyVars>>
        /\ raced' = (raced \/ ~MFree)
        /\ \/ _locks_m' = [_locks_m EXCEPT ![lid] = "free"]
           \/ ~MFree /\ _locks_m' = _locks_m
    BY DEF UnlockMutex, Lookup
  <1>2. raced' \in BOOLEAN /\ _locks_m' \in [Locks -> {"none", "free", "held"}]
    BY <1>1 DEF LockInv, LockType
  <1>3. /\ LockType' /\ WorkerOK' /\ JobOK' /\ OnePlace'
        /\ wpc'[w] = "uncount" /\ \A v \in Workers : v # w => wpc'[v] = wpc[v]
        /\ wjob[w] \in Jobs
    BY <1>1, <1>2, HandlerStep DEF ReleasePlaces, Places
  <1>4. lid \in Locks
    BY <1>3 DEF Jobs
  <1>5. Safe' => Safe /\ MFree /\ _locks_m' = [_locks_m EXCEPT ![lid] = "free"]
    BY <1>1 DEF Safe, copyVars
  <1>6. InsertOK'
    <2>1. \A v \in Workers : wpc'[v] = "insert" => wpc[v] = "insert"
      BY <1>3
    <2>2. Safe' => \A v \in Workers : wpc'[v] # "insert"
      BY <1>5, <2>1 DEF MFree
    <2> QED
      BY <2>1, <2>2 DEF LockInv, InsertOK
  <1>7. RightsOK'
    <2> SUFFICES ASSUME Safe' PROVE RightsOK'
      BY DEF RightsOK
    <2>1. UNCHANGED <<held, jobq>>
      BY <1>1 DEF clientVars
    <2>2. /\ \A l \in Locks : ~Carries(w, l)'
          /\ \A v \in Workers, l \in Locks : v # w => (Carries(v, l)' <=> Carries(v, l))
          /\ Carries(w, lid)
      BY <1>1, <1>3 DEF Carries
    <2>3. \A l \in Locks : l # lid => _locks_m'[l] = _locks_m[l]
      BY <1>5 DEF LockInv, LockType
    <2>4. /\ \A t \in Threads : ~Holds(t, lid)
          /\ \A v \in Workers : v # w => ~Carries(v, lid)
          /\ \A i \in 1 .. Len(jobq) : ~Returns(i, lid)
      BY <1>4, <1>5, <2>2 DEF LockInv, RightsOK
    <2>5. /\ \A t \in Threads, l \in Locks : Holds(t, l)' <=> Holds(t, l) /\ l # lid
          /\ \A i \in 1 .. Len(jobq), l \in Locks : Returns(i, l)' <=> Returns(i, l) /\ l # lid
          /\ \A v \in Workers, l \in Locks : Carries(v, l)' => Carries(v, l) /\ l # lid
      BY <2>1, <2>2, <2>4 DEF Holds, Returns
    <2> QED
      BY <1>5, <2>1, <2>3, <2>5 DEF LockInv, RightsOK
  <1> QED
    BY <1>3, <1>6, <1>7 DEF LockInv

\* A handler returns: the worker is idle, and the right of an acquire is with the
\* client if it still waits.
LEMMA ReturnStep ==
    ASSUME LockInv, NEW w \in Workers, NEW grant, Return(w, grant),
           \/ wpc[w] = "count" /\ grant = {wjob[w].lid}
           \/ wpc[w] = "uncount" /\ grant = {},
           UNCHANGED <<_locks_m, raced>>, nacquire' \in Int
    PROVE  LockInv'
  <1> DEFINE job == wjob[w]
             waits == ~job.late /\ job.thr \notin dead
  <1>1. /\ Busy(w) /\ job \in Jobs /\ job.thr \in Threads /\ job.lid \in Locks
        /\ grant \subseteq Locks
    BY DEF LockInv, WorkerOK, Busy, Jobs
  <1>2. /\ wpc' = [wpc EXCEPT ![w] = "idle"]
        /\ wjob' = [wjob EXCEPT ![w] = NoJob]
        /\ UNCHANGED <<dead, jobq, forgotten, late>>
    BY DEF Return
  <1>3. /\ wpc'[w] = "idle"
        /\ \A v \in Workers : v # w => wpc'[v] = wpc[v] /\ wjob'[v] = wjob[v]
        /\ \A v \in Workers : Busy(v)' <=> Busy(v) /\ v # w
    BY <1>2 DEF LockInv, LockType, Busy
  <1>4. /\ waits => /\ pending' = [pending EXCEPT ![job.thr] = NoJob]
                    /\ held' = [held EXCEPT ![job.thr] = @ \cup grant]
        /\ ~waits => UNCHANGED <<pending, held>>
    BY DEF Return
  <1>5. copies' \subseteq Jobs
    BY <1>1 DEF Return, LockInv, LockType
  <1>6. LockType'
    <2>1. pending' \in [Threads -> Jobs \cup {NoJob}] /\ held' \in [Threads -> SUBSET Locks]
      BY <1>1, <1>4, SMTT(30) DEF LockInv, LockType
    <2> QED
      BY <1>2, <1>5, <2>1 DEF LockInv, LockType, Places
  <1>7. WorkerOK'
    BY <1>2, <1>3 DEF LockInv, WorkerOK, Busy
  <1>8. JobOK'
    <2>1. \A t \in Threads : (waits => t # job.thr) => pending'[t] = pending[t]
      BY <1>4 DEF LockInv, LockType
    <2>2. ASSUME NEW i \in 1 .. Len(jobq)
          PROVE  IF jobq[i].late THEN late[jobq[i].op] > 0 ELSE pending'[jobq[i].thr] = jobq[i]
      <3>1. jobq[i] \in Jobs
        BY DEF LockInv, LockType
      <3>2. jobq[i].thr \in Threads
        BY <3>1 DEF Jobs
      <3> QED
        <4>1. CASE jobq[i].late
          BY <4>1 DEF LockInv, JobOK
        <4>2. CASE ~jobq[i].late
          <5>1. pending[jobq[i].thr] = jobq[i]
            BY <4>2 DEF LockInv, JobOK
          <5>2. ~job.late => jobq[i].thr # job.thr
            BY <1>1, <4>2 DEF LockInv, OnePlace
          <5>3. pending'[jobq[i].thr] = pending[jobq[i].thr]
            BY <2>1, <3>2, <5>2
          <5> QED
            BY <4>2, <5>1, <5>3
        <4> QED
          BY <4>1, <4>2
    <2>3. ASSUME NEW v \in Workers, Busy(v), v # w
          PROVE  IF wjob[v].late THEN late[wjob[v].op] > 0 ELSE pending'[wjob[v].thr] = wjob[v]
      <3>1. wjob[v].thr \in Threads
        BY <2>3 DEF LockInv, WorkerOK, Jobs
      <3> QED
        <4>1. CASE wjob[v].late
          BY <2>3, <4>1 DEF LockInv, JobOK
        <4>2. CASE ~wjob[v].late
          <5>1. pending[wjob[v].thr] = wjob[v]
            BY <2>3, <4>2 DEF LockInv, JobOK
          <5>2. ~job.late => wjob[v].thr # job.thr
            BY <1>1, <2>3, <4>2 DEF LockInv, OnePlace
          <5>3. pending'[wjob[v].thr] = pending[wjob[v].thr]
            BY <2>1, <3>1, <5>2
          <5> QED
            BY <4>2, <5>1, <5>3
        <4> QED
          BY <4>1, <4>2
    <2> QED
      BY <1>2, <1>3, <2>2, <2>3 DEF JobOK
  <1>9. OnePlace'
    <2>1. \A i, j \in 1 .. Len(jobq') :
             ~jobq'[i].late /\ ~jobq'[j].late /\ jobq'[i].thr = jobq'[j].thr => i = j
      BY <1>2 DEF LockInv, OnePlace
    <2>2. \A u, v \in Workers :
             Busy(u)' /\ Busy(v)' /\ ~wjob'[u].late /\ ~wjob'[v].late /\ wjob'[u].thr = wjob'[v].thr
                => u = v
      BY <1>3 DEF LockInv, OnePlace
    <2>3. \A i \in 1 .. Len(jobq'), v \in Workers :
             Busy(v)' /\ ~jobq'[i].late /\ ~wjob'[v].late => jobq'[i].thr # wjob'[v].thr
      BY <1>2, <1>3, SMTT(30) DEF LockInv, OnePlace
    <2> QED
      BY <2>1, <2>2, <2>3 DEF OnePlace
  <1>10. InsertOK'
    BY <1>2, <1>3 DEF LockInv, InsertOK, Safe
  <1>11. RightsOK'
    <2> SUFFICES ASSUME Safe' PROVE RightsOK'
      BY DEF RightsOK
    <2>1. Safe /\ UNCHANGED <<jobq, _locks_m>>
      BY <1>2 DEF Safe
    <2>2. /\ \A v \in Workers, l \in Locks : Carries(v, l)' <=> Carries(v, l) /\ v # w
          /\ \A i \in 1 .. Len(jobq), l \in Locks : Returns(i, l)' <=> Returns(i, l)
      BY <1>2, <1>3 DEF Carries, Returns
    <2>3. \A t \in Threads, l \in Locks :
             Holds(t, l)' => Holds(t, l) \/ (t = job.thr /\ l = job.lid /\ Carries(w, l))
      BY <1>1, <1>4 DEF Holds, Carries, LockInv, LockType
    <2>4. ASSUME NEW t \in Threads, NEW l \in Locks, Holds(t, l)'
          PROVE  /\ _locks_m'[l] = "held"
                 /\ \A u \in Threads : Holds(u, l)' => u = t
                 /\ \A v \in Workers : ~Carries(v, l)'
                 /\ \A i \in 1 .. Len(jobq') : ~Returns(i, l)'
      <3>1. CASE Carries(w, l)
        <4>1. /\ _locks_m[l] = "held"
              /\ \A v \in Workers : Carries(v, l) => v = w
              /\ \A i \in 1 .. Len(jobq) : ~Returns(i, l)
              /\ \A u \in Threads : ~Holds(u, l)
          BY <2>1, <3>1 DEF LockInv, RightsOK
        <4> QED
          BY <2>1, <2>2, <2>3, <2>4, <4>1
      <3>2. CASE ~Carries(w, l)
        BY <2>1, <2>2, <2>3, <2>4, <3>2 DEF LockInv, RightsOK
      <3> QED
        BY <3>1, <3>2
    <2>5. ASSUME NEW v \in Workers, NEW l \in Locks, Carries(v, l)'
          PROVE  /\ _locks_m'[l] = "held"
                 /\ \A u \in Workers : Carries(u, l)' => u = v
                 /\ \A i \in 1 .. Len(jobq') : ~Returns(i, l)'
      BY <2>1, <2>2, <2>5 DEF LockInv, RightsOK
    <2>6. ASSUME NEW i \in 1 .. Len(jobq'), NEW l \in Locks, Returns(i, l)'
          PROVE  /\ _locks_m'[l] = "held"
                 /\ \A j \in 1 .. Len(jobq') : Returns(j, l)' => j = i
      BY <2>1, <2>2, <2>6 DEF LockInv, RightsOK
    <2> QED
      BY <2>4, <2>5, <2>6 DEF RightsOK
  <1> QED
    BY <1>6, <1>7, <1>8, <1>9, <1>10, <1>11 DEF LockInv

\* A client that gives up changes nothing at the server, nor does a stuttering step.
LEMMA GiveUpStep ==
    ASSUME LockInv, dead' \subseteq Threads,
           UNCHANGED <<held, pending, poolVars, lockVars, copyVars>>
    PROVE  LockInv'
  <1>1. UNCHANGED <<held, pending, jobq, wpc, wjob, _locks_m, nacquire, raced, copies, forgotten, late>>
    BY DEF poolVars, lockVars, copyVars
  <1>2. LockType'
    BY <1>1 DEF LockInv, LockType
  <1>3. WorkerOK'
    BY <1>1 DEF LockInv, WorkerOK, Busy
  <1>4. JobOK'
    BY <1>1 DEF LockInv, JobOK, Busy
  <1>5. OnePlace'
    BY <1>1 DEF LockInv, OnePlace, Busy
  <1>6. InsertOK'
    BY <1>1 DEF LockInv, InsertOK, Safe
  <1>7. RightsOK'
    BY <1>1, RightsKept DEF Safe
  <1> QED
    BY <1>2, <1>3, <1>4, <1>5, <1>6, <1>7 DEF LockInv

\* Every step of the lock server and its clients keeps the invariant.
LEMMA LockInvNext == LockInv /\ [Next]_vars => LockInv'
  <1> SUFFICES ASSUME LockInv, [Next]_vars PROVE LockInv'
    OBVIOUS
  <1>1. CASE \E t \in Threads, lid \in Locks : Acquire(t, lid) \/ Release(t, lid)
    BY <1>1, CallStep
  <1>2. ASSUME NEW t \in Threads, GiveUp(t)
        PROVE  LockInv'
    <2>1. dead' \subseteq Threads
      BY <1>2 DEF GiveUp, LockInv, LockType
    <2> QED
      BY <1>2, <2>1, GiveUpStep DEF GiveUp
  <1>3. CASE \E call \in forgotten : LateCopy(call)
    BY <1>3, LateCopyStep
  <1>4. ASSUME NEW w \in Workers, WorkerStep(w)
        PROVE  LockInv'
    <2>1. CASE TakeJob(w)
      BY <2>1, TakeJobStep
    <2>2. CASE FindOrInsert(w)
      BY <2>2, FindOrInsertStep
    <2>3. CASE Insert(w)
      BY <2>3, InsertStep
    <2>4. CASE FindMutex(w)
      BY <2>4, FindMutexStep
    <2>5. CASE LockMutex(w)
      BY <2>5, LockMutexStep
    <2>6. CASE UnlockMutex(w)
      BY <2>6, UnlockMutexStep
    <2>7. CASE Count(w)
      <3>1. nacquire' \in Int
        BY <2>7 DEF Count, LockInv, LockType
      <3> QED
        BY <2>7, <3>1, ReturnStep DEF Count
    <2>8. CASE Uncount(w)
      <3>1. nacquire' \in Int
        BY <2>8 DEF Uncount, LockInv, LockType
      <3> QED
        BY <2>8, <3>1, ReturnStep DEF Uncount
    <2> QED
      BY <1>4, <2>1, <2>2, <2>3, <2>4, <2>5, <2>6, <2>7, <2>8 DEF WorkerStep
  <1>5. CASE UNCHANGED vars
    <2>1. dead' \subseteq Threads /\ UNCHANGED <<held, pending, poolVars, lockVars, copyVars>>
      BY <1>5 DEF vars, clientVars, LockInv, LockType
    <2> QED
      BY <2>1, GiveUpStep
  <1> QED
    BY <1>1, <1>2, <1>3, <1>4, <1>5 DEF Next

\* LockInv is an invariant of the lock server.
THEOREM LockInvariant == Spec => []LockInv
  BY LockInvInit, LockInvNext, PTL DEF Spec

\* lock_server never grants one lock to two clients, unless a late copy of a release
\* runs or a lookup in _locks_m meets an insertion: with any numbers of clients,
\* locks, threads of the pool and late copies of acquires.
THEOREM LockMutualExclusion == Spec => []MutualExclusion
  <1>1. LockInv => MutualExclusion
    BY DEF LockInv, LockType, RightsOK, Safe, Holds, MutualExclusion, GrantedOnce
  <1> QED
    BY <1>1, LockInvariant, PTL

\* A request never waits in the queue of the pool for a thread while all of them are
\* busy, if the pool has a thread for every client thread: a release gets to run
\* however many handlers are blocked in acquire.
THEOREM LockPoolNeverExhausted == Spec => []PoolNeverExhausted
  <1>1. ASSUME LockInv, \A op \in Ops : late[op] = 0, jobq # <<>>,
               \A w \in Workers : wpc[w] # "idle"
        PROVE  FALSE
    <2> DEFINE first == jobq[1].thr
               others == Threads \ {first}
               f == [w \in Workers |-> wjob[w].thr]
    <2>1. 1 \in 1 .. Len(jobq) /\ jobq[1] \in Jobs
      BY <1>1, TailProps DEF LockInv, LockType
    <2>2. first \in Threads /\ ~jobq[1].late
      BY <1>1, <2>1 DEF LockInv, JobOK, Jobs
    <2>3. \A w \in Workers : Busy(w) /\ wjob[w].thr \in Threads /\ ~wjob[w].late
      BY <1>1 DEF LockInv, JobOK, WorkerOK, Busy, Jobs
    <2>4. f \in [Workers -> others]
      BY <1>1, <2>1, <2>2, <2>3 DEF LockInv, OnePlace
    <2>5. IsFiniteSet(others) /\ Cardinality(others) = Cardinality(Threads) - 1
      BY <2>2, LockAssumption, FS_RemoveElement
    <2>6. Cardinality(others) < Cardinality(Workers)
      BY <2>5, LockAssumption, FS_CardinalityType
    <2> HIDE DEF others, f
    <2>7. \E v, w \in Workers : v # w /\ f[v] = f[w]
      BY <2>4, <2>5, <2>6, LockAssumption, FS_PigeonHole
    <2> QED
      BY <1>1, <2>3, <2>7 DEF LockInv, OnePlace, f
  <1>2. LockInv => PoolNeverExhausted
    BY <1>1 DEF PoolNeverExhausted
  <1> QED
    BY <1>2, LockInvariant, PTL

-----------------------------------------------------------------------------
(* nacquire counts the locked mutexes, but for the handlers that have locked  *)
(* or unlocked one and have not counted it yet.                               *)

LockedMutexes == {l \in Locks : _locks_m[l] = "held"}
At(p) == {w \in Workers : wpc[w] = p}

CountOK ==
    Safe => Cardinality(LockedMutexes) = nacquire + Cardinality(At("count")) - Cardinality(At("uncount"))

\* The sets that are counted are finite.
LEMMA CountedFinite ==
    /\ IsFiniteSet(LockedMutexes) /\ Cardinality(LockedMutexes) \in Nat
    /\ \A p : IsFiniteSet(At(p)) /\ Cardinality(At(p)) \in Nat
  <1>1. IsFiniteSet(LockedMutexes)
    BY LockAssumption, FS_Subset DEF LockedMutexes
  <1>2. ASSUME NEW p PROVE IsFiniteSet(At(p))
    <2>1. At(p) \in SUBSET Workers
      BY DEF At
    <2> QED
      BY <2>1, LockAssumption, FS_Subset
  <1> QED
    BY <1>1, <1>2, FS_CardinalityType

\* A worker that moves from p to q leaves the other workers where they are.
LEMMA AtMoves ==
    ASSUME LockInv, NEW w \in Workers, NEW p, NEW q, p # q,
           wpc[w] = p, Goto(w, q)
    PROVE  /\ Cardinality(At(q)') = Cardinality(At(q)) + 1
           /\ Cardinality(At(p)') = Cardinality(At(p)) - 1
           /\ \A r : r # q /\ r # p => At(r)' = At(r)
  <1>1. wpc'[w] = q /\ \A v \in Workers : v # w => wpc'[v] = wpc[v]
    BY DEF Goto, LockInv, LockType
  <1>2. At(q)' = At(q) \cup {w} /\ w \notin At(q)
    BY <1>1 DEF At
  <1>3. At(p)' = At(p) \ {w} /\ w \in At(p)
    BY <1>1 DEF At
  <1>4. ASSUME NEW r, r # q, r # p PROVE At(r)' = At(r)
    BY <1>1, <1>4 DEF At
  <1>5. Cardinality(At(q)') = Cardinality(At(q)) + 1
    BY <1>2, CountedFinite, FS_AddElement
  <1>6. Cardinality(At(p)') = Cardinality(At(p)) - 1
    BY <1>3, CountedFinite, FS_RemoveElement
  <1> QED
    BY <1>4, <1>5, <1>6

\* A step that leaves the mutexes that are locked, nacquire and the workers that have
\* not counted yet alone leaves the count right.
LEMMA CountKept ==
    ASSUME CountOK, Safe' => Safe,
           UNCHANGED <<LockedMutexes, nacquire, At("count"), At("uncount")>>
    PROVE  CountOK'
  BY DEF CountOK

\* Every step of the lock server and its clients keeps the count right.
LEMMA CountNext == LockInv /\ CountOK /\ [Next]_vars => CountOK'
  <1> SUFFICES ASSUME LockInv, CountOK, [Next]_vars PROVE CountOK'
    OBVIOUS
  <1>1. ASSUME UNCHANGED <<wpc, _locks_m, nacquire>>, Safe' => Safe
        PROVE  CountOK'
    BY <1>1, CountKept DEF LockedMutexes, At
  <1>2. CASE \E t \in Threads, lid \in Locks : Acquire(t, lid) \/ Release(t, lid)
    BY <1>1, <1>2 DEF Acquire, Release, Call, lockVars, copyVars, Safe
  <1>3. CASE \E t \in Threads : GiveUp(t)
    BY <1>1, <1>3 DEF GiveUp, poolVars, lockVars, copyVars, Safe
  <1>4. ASSUME NEW call \in forgotten, LateCopy(call)
        PROVE  CountOK'
    <2>1. UNCHANGED <<wpc, _locks_m, nacquire, raced>> /\ late' = [late EXCEPT ![call.op] = @ + 1]
      BY <1>4 DEF LateCopy, lockVars
    <2>2. Safe' => Safe
      BY <2>1 DEF Safe, LockInv, LockType, Ops
    <2> QED
      BY <1>1, <2>1, <2>2
  <1>5. CASE UNCHANGED vars
    BY <1>1, <1>5 DEF vars, poolVars, lockVars, copyVars, Safe
  <1>6. ASSUME NEW w \in Workers, WorkerStep(w)
        PROVE  CountOK'
    <2> DEFINE lid == wjob[w].lid
    <2>1. wpc[w] # "idle" => lid \in Locks
      BY DEF LockInv, WorkerOK, Busy, Jobs
    <2>2. ASSUME NEW p, NEW q, p # q, p \notin {"count", "uncount"}, q \notin {"count", "uncount"},
                 wpc[w] = p, Goto(w, q), UNCHANGED <<LockedMutexes, nacquire>>, Safe' => Safe
          PROVE  CountOK'
      <3>1. UNCHANGED <<At("count"), At("uncount")>>
        BY <2>2, AtMoves
      <3> QED
        BY <2>2, <3>1, CountKept
    <2>3. CASE TakeJob(w)
      <3>1. /\ wpc[w] = "idle" /\ Goto(w, Head(jobq).op) /\ Head(jobq) \in Jobs
            /\ UNCHANGED <<_locks_m, nacquire, raced, late>>
        BY <2>3, TailProps DEF TakeJob, LockInv, LockType, lockVars
      <3>2. Head(jobq).op \in {"acquire", "release"}
        BY <3>1 DEF Jobs, Ops
      <3>3. UNCHANGED LockedMutexes /\ (Safe' => Safe)
        BY <3>1 DEF LockedMutexes, Safe
      <3> QED
        BY <2>2, <3>1, <3>2, <3>3
    <2>4. CASE FindOrInsert(w)
      BY <2>2, <2>4 DEF FindOrInsert, lockVars, copyVars, LockedMutexes, Safe
    <2>5. CASE Insert(w)
      <3>1. Safe' => Safe
        BY <2>5 DEF Insert, copyVars, Safe
      <3>2. CASE Safe
        <4>1. _locks_m[lid] = "none" /\ lid \in Locks
          BY <2>1, <2>5, <3>2 DEF Insert, LockInv, InsertOK
        <4>2. UNCHANGED LockedMutexes
          BY <2>5, <4>1 DEF Insert, LockedMutexes, LockInv, LockType
        <4> QED
          BY <2>2, <2>5, <3>1, <4>2 DEF Insert
      <3>3. CASE ~Safe
        BY <3>1, <3>3 DEF CountOK
      <3> QED
        BY <3>2, <3>3
    <2>6. CASE FindMutex(w)
      <3>1. /\ UNCHANGED <<LockedMutexes, nacquire>>
            /\ Safe' => Safe /\ Goto(w, "lock")
            /\ wpc[w] = "find"
        BY <2>6 DEF FindMutex, Lookup, LockedMutexes, Safe, copyVars
      <3> QED
        BY <2>2, <3>1 DEF CountOK
    <2>7. CASE LockMutex(w)
      <3>1. /\ wpc[w] = "lock" /\ _locks_m[lid] = "free"
            /\ _locks_m' = [_locks_m EXCEPT ![lid] = "held"]
            /\ Goto(w, "count")
            /\ UNCHANGED <<nacquire, raced, late>>
        BY <2>7 DEF LockMutex, copyVars
      <3>2. LockedMutexes' = LockedMutexes \cup {lid} /\ lid \notin LockedMutexes
        BY <2>1, <3>1 DEF LockedMutexes, LockInv, LockType
      <3>3. Cardinality(LockedMutexes') = Cardinality(LockedMutexes) + 1
        BY <3>2, CountedFinite, FS_AddElement
      <3>4. /\ Cardinality(At("count")') = Cardinality(At("count")) + 1
            /\ At("uncount")' = At("uncount")
        <4>1. "lock" # "count" /\ wpc[w] = "lock" /\ Goto(w, "count")
          BY <3>1
        <4>2. Cardinality(At("count")') = Cardinality(At("count")) + 1
          BY <4>1, AtMoves
        <4>3. \A s : s # "count" /\ s # "lock" => At(s)' = At(s)
          BY <4>1, AtMoves
        <4> QED
          BY <4>2, <4>3
      <3> QED
        BY <3>1, <3>3, <3>4, CountedFinite DEF CountOK, Safe, LockInv, LockType
    <2>8. CASE UnlockMutex(w)
      <3>1. /\ wpc[w] = "release" /\ Goto(w, "uncount")
            /\ UNCHANGED <<nacquire, late>>
            /\ Safe' => Safe /\ _locks_m' = [_locks_m EXCEPT ![lid] = "free"]
        BY <2>8 DEF UnlockMutex, Lookup, Safe, copyVars
      <3>2. CASE Safe'
        <4>1. _locks_m[lid] = "held" /\ lid \in Locks
          BY <2>1, <3>1, <3>2 DEF LockInv, RightsOK, Carries
        <4>2. LockedMutexes' = LockedMutexes \ {lid} /\ lid \in LockedMutexes
          BY <3>1, <3>2, <4>1 DEF LockedMutexes, LockInv, LockType
        <4>3. Cardinality(LockedMutexes') = Cardinality(LockedMutexes) - 1
          BY <4>2, CountedFinite, FS_RemoveElement
        <4>4. /\ Cardinality(At("uncount")') = Cardinality(At("uncount")) + 1
              /\ At("count")' = At("count")
          <5>1. "release" # "uncount" /\ wpc[w] = "release" /\ Goto(w, "uncount")
            BY <3>1
          <5>2. Cardinality(At("uncount")') = Cardinality(At("uncount")) + 1
            BY <5>1, AtMoves
          <5>3. \A s : s # "uncount" /\ s # "release" => At(s)' = At(s)
            BY <5>1, AtMoves
          <5> QED
            BY <5>2, <5>3
        <4> QED
          BY <3>1, <3>2, <4>3, <4>4, CountedFinite DEF CountOK, LockInv, LockType
      <3>3. CASE ~Safe'
        BY <3>3 DEF CountOK
      <3> QED
        BY <3>2, <3>3
    <2>9. CASE Count(w)
      <3>1. /\ wpc[w] = "count" /\ Goto(w, "idle")
            /\ nacquire' = nacquire + 1 /\ UNCHANGED <<_locks_m, raced, late>>
        BY <2>9 DEF Count, Return, Goto
      <3>2. /\ Cardinality(At("count")') = Cardinality(At("count")) - 1
            /\ At("uncount")' = At("uncount") /\ LockedMutexes' = LockedMutexes
        BY <3>1, AtMoves DEF LockedMutexes
      <3> QED
        BY <3>1, <3>2, CountedFinite DEF CountOK, Safe, LockInv, LockType
    <2>10. CASE Uncount(w)
      <3>1. /\ wpc[w] = "uncount" /\ Goto(w, "idle")
            /\ nacquire' = nacquire - 1 /\ UNCHANGED <<_locks_m, raced, late>>
        BY <2>10 DEF Uncount, Return, Goto
      <3>2. /\ Cardinality(At("uncount")') = Cardinality(At("uncount")) - 1
            /\ At("count")' = At("count") /\ LockedMutexes' = LockedMutexes
        BY <3>1, AtMoves DEF LockedMutexes
      <3> QED
        BY <3>1, <3>2, CountedFinite DEF CountOK, Safe, LockInv, LockType
    <2> QED
      BY <1>6, <2>3, <2>4, <2>5, <2>6, <2>7, <2>8, <2>9, <2>10 DEF WorkerStep
  <1> QED
    BY <1>2, <1>3, <1>4, <1>5, <1>6 DEF Next

\* Whenever no handler runs, what lock_server::stat returns is the number of locked
\* mutexes, unless a late copy of a release ran or a lookup met an insertion.
THEOREM LockNacquireExact == Spec => []NacquireExact
  <1>1. Init => CountOK
    <2> SUFFICES ASSUME Init PROVE CountOK
      OBVIOUS
    <2>1. LockedMutexes = {} /\ At("count") = {} /\ At("uncount") = {} /\ nacquire = 0
      BY DEF Init, LockedMutexes, At
    <2>2. Cardinality({}) = 0
      BY FS_EmptySet
    <2> QED
      BY <2>1, <2>2 DEF CountOK
  <1>2. LockInv /\ CountOK => NacquireExact
    <2> SUFFICES ASSUME LockInv, CountOK, Safe, \A w \in Workers : wpc[w] = "idle"
                 PROVE  nacquire = Cardinality(LockedMutexes)
      BY DEF NacquireExact, LockedMutexes, Safe
    <2>1. At("count") = {} /\ At("uncount") = {}
      BY DEF At
    <2>2. Cardinality({}) = 0
      BY FS_EmptySet
    <2>3. nacquire \in Int
      BY DEF LockInv, LockType
    <2>4. Cardinality(LockedMutexes) = nacquire + 0 - 0
      BY <2>1, <2>2 DEF CountOK
    <2> QED
      BY <2>3, <2>4
  <1> QED
    BY <1>1, <1>2, LockInvariant, CountNext, PTL DEF Spec
=============================================================================
