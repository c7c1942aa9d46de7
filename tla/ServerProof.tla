---------------------------- MODULE ServerProof ----------------------------
(***************************************************************************)
(* The theorems about ServerLife.  A connection is deleted when its last   *)
(* reference is given back; the invariant says what the references are, so *)
(* that a connection that is deleted is held by nobody, that one which is  *)
(* not dead is never let go by the listener, and that the descriptor of    *)
(* one that is being removed is not served in the round under way.         *)
(***************************************************************************)
EXTENDS ServerLife, FiniteSetTheorems, TLAPS

-----------------------------------------------------------------------------
(* The inductive invariant.                                                *)

ConnObjects == [st : {"none", "open", "deleted"}, dead : BOOLEAN, ref : Int, fd : Fds \cup {None}]

ServerTypeOK ==
    /\ conn \in [Conns -> ConnObjects]
    /\ link \in [Conns -> {"none", "up", "down"}]
    /\ inbox \in [Conns -> Nat]
    /\ DOMAIN listener \subseteq Fds /\ listener \in [DOMAIN listener -> Conns]
    /\ conns_ \in [Nonces -> Conns \cup {None}]
    /\ athread \in [pc : {"select", "accept", "isdead", "ref", "exit"},
                    it : Fds \cup {None}, ch : Conns \cup {None}]
    /\ callbacks_ \in [Fds -> Conns \cup {None}]
    /\ rfds_ \subseteq Fds /\ wfds_ \subseteq Fds
    /\ ready \in [r : SUBSET Fds, w : SUBSET Fds]
    /\ jobq \in Seq(Conns \cup {None})
    /\ wpc \in [Workers -> {"idle", "pick", "send", "queued", "blocked", "remove", "done", "exit"}]
    /\ wconn \in [Workers -> Conns \cup {None}]
    /\ main \in [pc : {"run", "join", "close", "remove", "decref", "pills", "gone"}, it : Nat \cup {None}]

\* Whether the listener holds the connection at f, as far as ~tcpsconn has come.
Keeps(f) ==
    \/ main.pc \in {"run", "join"}
    \/ main.pc \in {"close", "remove", "decref"} /\ main.it # None /\ f >= main.it

\* The references to k: of the listener or its thread, of conns_, of jobs, of workers.
ByListener(k) == athread.ch = k \/ \E f \in DOMAIN listener : listener[f] = k /\ Keeps(f)
ByTable(k) == conns_[Nonce[k]] = k
Jobs(q, k) == {i \in 1 .. Len(q) : q[i] = k}
Users(f, k) == {w \in Workers : f[w] = k}
SameBut(f, g, w) == \A v \in Workers : v # w => g[v] = f[v]

One(b) == IF b THEN 1 ELSE 0
Holders(k) ==
    One(ByListener(k)) + One(ByTable(k)) + Cardinality(Jobs(jobq, k)) + Cardinality(Users(wconn, k))

\* A connection has at least as many references as holders, and no more unless one
\* was lost.  It is deleted with the last one; until it is dead the listener has one.
RefGood(c, holders, listed, leaked) ==
    /\ c.ref >= holders
    /\ ~leaked => c.ref = holders
    /\ c.st = "none" => c.ref = 0 /\ ~c.dead
    /\ c.st = "deleted" => c.ref = 0 /\ c.dead
    /\ c.st = "open" => c.ref >= 1 /\ (c.dead \/ listed)

RefOK == \A k \in Conns : RefGood(conn[k], Holders(k), ByListener(k), k \in lost)

\* Descriptors: one for each open connection, under which the listener and the
\* PollMgr know it; and clients have nonces.
FdOK ==
    /\ \A k \in Conns : conn[k].st # "none" => conn[k].fd \in Fds
    /\ \A j, k \in Conns :
          conn[j].st = "open" /\ conn[k].st = "open" /\ conn[j].fd = conn[k].fd => j = k
    /\ \A f \in DOMAIN listener : conn[listener[f]].st # "none" /\ conn[listener[f]].fd = f
    /\ \A f \in Fds : callbacks_[f] # None =>
          conn[callbacks_[f]].st # "none" /\ conn[callbacks_[f]].fd = f
    /\ \A n \in Nonces : conns_[n] # None => n = Nonce[conns_[n]]

\* The threads: the accept thread has a connection until it is in the listener, the
\* iterators are at connections that are dead when they are about to go.
ThreadOK ==
    /\ athread.ch # None => \A f \in DOMAIN listener : listener[f] # athread.ch
    /\ main.pc \notin {"run", "join"} => athread.pc = "exit"
    /\ main.pc \in {"close", "remove", "decref"} => main.it \in DOMAIN listener \cup {None}
    /\ main.pc \in {"remove", "decref"} => main.it # None /\ conn[listener[main.it]].dead
    /\ athread.ch # None <=> athread.pc \in {"isdead", "ref"}
    /\ crashed = "no" =>
          /\ athread.pc \in {"isdead", "ref"} => athread.it \in DOMAIN listener \cup {None}
          /\ athread.pc = "ref" => athread.it # None /\ conn[listener[athread.it]].dead
          /\ \A w \in Workers : wconn[w] = None <=> wpc[w] \in {"idle", "exit"}

\* A dead connection has a callback only while a thread removes it, and what that
\* thread waits for: its descriptor is not served any more once the round is over.
RemoveOK ==
    /\ \A f \in Fds : callbacks_[f] # None /\ conn[callbacks_[f]].dead =>
          \/ \E w \in Workers : wpc[w] = "remove" /\ wconn[w] = callbacks_[f]
          \/ main.pc = "remove" /\ listener[main.it] = callbacks_[f]
    /\ \A w \in Workers : wpc[w] = "remove" /\ wconn[w] # None =>
          /\ conn[wconn[w]].dead
          /\ conn[wconn[w]].fd \notin rfds_
          /\ w \notin pending => conn[wconn[w]].fd \notin ready.r
    /\ main.pc = "remove" =>
          /\ main.it \notin rfds_
          /\ "main" \notin pending => main.it \notin ready.r

\* What is readable in this round stays so until it is served.
RoundOK ==
    \A f \in ready.r :
        /\ callbacks_[f] # None
        /\ inbox[callbacks_[f]] > 0 \/ link[callbacks_[f]] = "down"

\* The pills are the last jobs, and a worker that has exited has left only pills.
PillOK ==
    /\ \A i \in 1 .. Len(jobq) : jobq[i] = None =>
          /\ main.pc \in {"pills", "gone"}
          /\ \A j \in i .. Len(jobq) : jobq[j] = None
    /\ \A w \in Workers : wpc[w] = "exit" =>
          /\ main.pc \in {"pills", "gone"}
          /\ \A i \in 1 .. Len(jobq) : jobq[i] = None
    /\ main.pc = "gone" => \A w \in Workers : wpc[w] = "exit" /\ wconn[w] = None
    /\ main.pc \in {"pills", "gone"} => main.it \in Nat

ServerInv ==
    /\ ServerTypeOK
    /\ RefOK
    /\ FdOK
    /\ ThreadOK
    /\ RemoveOK
    /\ RoundOK
    /\ PillOK
    /\ NoStaleDescriptor

-----------------------------------------------------------------------------
(* Lemmas about the operators of the model.                                *)

\* accept and the iterators: a set of descriptors that is not empty has a first one.
LEMMA MinProps ==
    ASSUME NEW S \in SUBSET Nat, S # {}
    PROVE  Min(S) \in S /\ \A n \in S : Min(S) <= n
<1>1. PICK m \in S : \A n \in S : ~(<<n, m>> \in OpToRel(<, Nat))
    BY NatLessThanWellFounded, WFMin
<1>2. \A n \in S : ~(n < m)
    <2> SUFFICES ASSUME NEW n \in S, n < m PROVE FALSE
        OBVIOUS
    <2>1. n \in Nat /\ m \in Nat
        OBVIOUS
    <2>2. <<n, m>> \in {p \in Nat \X Nat : p[1] < p[2]}
        BY <2>1
    <2> QED BY <1>1, <2>2, Zenon DEF OpToRel
<1>3. \A n \in S : m <= n
    BY <1>2
<1> QED BY <1>3, Zenon DEF Min

\* What got_pdu and ~ThrPool append to the queue.
LEMMA AppendProps ==
    ASSUME NEW S, NEW q \in Seq(S), NEW e \in S
    PROVE  /\ Append(q, e) \in Seq(S)
           /\ Len(q) \in Nat
           /\ Len(Append(q, e)) = Len(q) + 1
           /\ \A i \in 1 .. Len(q) : Append(q, e)[i] = q[i]
           /\ Append(q, e)[Len(q) + 1] = e
OBVIOUS

\* What a worker leaves of the queue.
LEMMA TailProps ==
    ASSUME NEW S, NEW q \in Seq(S), q # <<>>
    PROVE  /\ Tail(q) \in Seq(S)
           /\ Head(q) = q[1] /\ q[1] \in S
           /\ Len(q) \in Nat \ {0}
           /\ Len(Tail(q)) = Len(q) - 1
           /\ \A i \in 1 .. Len(Tail(q)) : Tail(q)[i] = q[i + 1]
OBVIOUS

\* The jobs of a connection in a queue are finitely many.
LEMMA JobsFinite ==
    ASSUME NEW S, NEW q \in Seq(S), NEW k
    PROVE  IsFiniteSet(Jobs(q, k)) /\ Cardinality(Jobs(q, k)) \in Nat
<1>1. Len(q) \in Nat
    OBVIOUS
<1>2. IsFiniteSet(1 .. Len(q)) /\ Jobs(q, k) \in SUBSET (1 .. Len(q))
    BY <1>1, FS_Interval DEF Jobs
<1> QED BY <1>2, FS_Subset, FS_CardinalityType, Zenon

\* A request adds one to the jobs of its connection, and to no other.
LEMMA JobsAppend ==
    ASSUME NEW S, NEW q \in Seq(S), NEW e \in S, NEW k
    PROVE  Cardinality(Jobs(Append(q, e), k)) = Cardinality(Jobs(q, k)) + One(e = k)
<1> DEFINE n == Len(q) + 1
<1>1. /\ Len(q) \in Nat /\ Len(Append(q, e)) = n
      /\ \A i \in 1 .. Len(q) : Append(q, e)[i] = q[i]
      /\ Append(q, e)[n] = e
    BY AppendProps
<1>2. IsFiniteSet(Jobs(q, k)) /\ Cardinality(Jobs(q, k)) \in Nat /\ n \notin Jobs(q, k)
    <2>1. n \notin Jobs(q, k)
        BY <1>1 DEF Jobs
    <2> QED BY <2>1, JobsFinite, Zenon
<1>3. Jobs(Append(q, e), k) = IF e = k THEN Jobs(q, k) \cup {n} ELSE Jobs(q, k)
    BY <1>1 DEF Jobs
<1>4. Cardinality(Jobs(q, k) \cup {n}) = Cardinality(Jobs(q, k)) + 1
    BY <1>2, FS_AddElement, Zenon
<1> QED BY <1>2, <1>3, <1>4 DEF One

\* The job that a worker takes was one of its connection, and of no other.
LEMMA JobsTail ==
    ASSUME NEW S, NEW q \in Seq(S), q # <<>>, NEW k
    PROVE  Cardinality(Jobs(q, k)) = Cardinality(Jobs(Tail(q), k)) + One(Head(q) = k)
<1> DEFINE T == Jobs(Tail(q), k)
           U == Jobs(q, k) \ {1}
           f == [i \in T |-> i + 1]
<1>1. /\ Head(q) = q[1] /\ Len(q) \in Nat \ {0} /\ Len(Tail(q)) = Len(q) - 1 /\ Tail(q) \in Seq(S)
      /\ \A i \in 1 .. Len(Tail(q)) : Tail(q)[i] = q[i + 1]
    BY TailProps, Zenon
<1>2. \A i \in T : i + 1 \in U
    BY <1>1 DEF Jobs
<1>3. \A i \in U : i - 1 \in T /\ (i - 1) + 1 = i
    BY <1>1 DEF Jobs
<1>4. \A i, j \in T : i + 1 = j + 1 => i = j
    BY <1>1 DEF Jobs
<1>5. f \in Bijection(T, U)
    BY <1>2, <1>3, <1>4, Zenon DEF Bijection, Injection, Surjection, IsInjective
<1>6. IsFiniteSet(T) /\ Cardinality(T) = Cardinality(U)
    <2>1. IsFiniteSet(T)
        BY <1>1, JobsFinite, Zenon
    <2>2. ExistsBijection(T, U)
        BY <1>5, Zenon DEF ExistsBijection
    <2> HIDE DEF T, U
    <2> QED BY <2>1, <2>2, FS_Bijection, Zenon
<1>7. IsFiniteSet(Jobs(q, k)) /\ Cardinality(Jobs(q, k)) \in Nat
    BY JobsFinite, Zenon
<1>8. 1 \in Jobs(q, k) <=> Head(q) = k
    BY <1>1 DEF Jobs
<1>9. Cardinality(U) = IF 1 \in Jobs(q, k) THEN Cardinality(Jobs(q, k)) - 1 ELSE Cardinality(Jobs(q, k))
    BY <1>7, FS_RemoveElement, Zenon
<1> QED BY <1>6, <1>7, <1>8, <1>9 DEF One

\* The workers with a connection are finitely many.
LEMMA UsersFinite ==
    ASSUME NEW f, NEW k
    PROVE  IsFiniteSet(Users(f, k)) /\ Cardinality(Users(f, k)) \in Nat
<1>1. IsFiniteSet(Workers) /\ Users(f, k) \in SUBSET Workers
    BY ServerLifeAssumption, Zenon DEF Users
<1> QED BY <1>1, FS_Subset, FS_CardinalityType, Zenon

\* A worker that takes a connection (a job, the latest one of a client) is one more
\* user of it, and one that gives it up is one less; of others there are as many.
LEMMA UsersMore ==
    ASSUME NEW f, NEW g, NEW w \in Workers, NEW k, SameBut(f, g, w), f[w] # k, g[w] = k
    PROVE  Cardinality(Users(g, k)) = Cardinality(Users(f, k)) + 1
<1>1. IsFiniteSet(Users(f, k)) /\ w \notin Users(f, k)
    BY UsersFinite, Zenon DEF Users
<1>2. Users(g, k) = Users(f, k) \cup {w}
    BY DEF Users, SameBut
<1> QED BY <1>1, <1>2, FS_AddElement, Zenon

\* A worker that gives a connection up (dispatch's decref) is one user of it less.
LEMMA UsersLess ==
    ASSUME NEW f, NEW g, NEW w \in Workers, NEW k, SameBut(f, g, w), f[w] = k, g[w] # k
    PROVE  Cardinality(Users(f, k)) = Cardinality(Users(g, k)) + 1
<1>1. SameBut(g, f, w)
    BY Zenon DEF SameBut
<1> QED BY <1>1, UsersMore, Zenon

\* A worker that neither takes a connection nor gives it up leaves its users as they are.
LEMMA UsersSame ==
    ASSUME NEW f, NEW g, NEW w \in Workers, NEW k, SameBut(f, g, w), f[w] = k <=> g[w] = k
    PROVE  Cardinality(Users(g, k)) = Cardinality(Users(f, k))
<1>1. Users(g, k) = Users(f, k)
    BY DEF Users, SameBut
<1> QED BY <1>1, Zenon

\* connection::decref gives one reference back, and deletes a dead connection
\* with its last one; other connections it leaves alone.
LEMMA DecrefProps ==
    ASSUME NEW cs \in [Conns -> ConnObjects], NEW k \in Conns
    PROVE  /\ Decref(cs, k) \in [Conns -> ConnObjects]
           /\ \A j \in Conns :
                 /\ Decref(cs, k)[j].dead = cs[j].dead
                 /\ Decref(cs, k)[j].fd = cs[j].fd
                 /\ j # k => Decref(cs, k)[j] = cs[j]
           /\ Decref(cs, k)[k].ref = cs[k].ref - 1
           /\ Decref(cs, k)[k].st = IF cs[k].ref = 1 /\ cs[k].dead THEN "deleted" ELSE cs[k].st
<1> DEFINE c == cs[k]
           d == IF c.ref = 1 /\ c.dead THEN [st |-> "deleted", dead |-> TRUE, ref |-> 0, fd |-> c.fd]
                ELSE [c EXCEPT !.ref = c.ref - 1]
<1>1. c \in ConnObjects
    OBVIOUS
<1>2. Decref(cs, k) = [cs EXCEPT ![k] = d]
    BY Zenon DEF Decref
<1>3. /\ d \in ConnObjects /\ d.dead = c.dead /\ d.fd = c.fd /\ d.ref = c.ref - 1
      /\ d.st = IF c.ref = 1 /\ c.dead THEN "deleted" ELSE c.st
    <2> HIDE DEF c
    <2>0. c.st \in {"none", "open", "deleted"} /\ c.dead \in BOOLEAN /\ c.ref \in Int /\ c.fd \in Fds \cup {None}
        BY <1>1 DEF ConnObjects
    <2>1. CASE c.ref = 1 /\ c.dead
        <3>1. d = [st |-> "deleted", dead |-> TRUE, ref |-> 0, fd |-> c.fd]
            BY <2>1, Zenon
        <3>2. c.ref - 1 = 0 /\ c.dead = TRUE
            BY <2>0, <2>1
        <3> HIDE DEF d
        <3>3. d.ref = 0 /\ d.st = "deleted" /\ d.dead = TRUE /\ d.fd = c.fd /\ d \in ConnObjects
            BY <2>0, <3>1 DEF ConnObjects
        <3> QED BY <2>1, <3>2, <3>3
    <2>2. CASE ~(c.ref = 1 /\ c.dead)
        <3>1. d = [c EXCEPT !.ref = c.ref - 1]
            BY <2>2, Zenon
        <3> HIDE DEF d
        <3>2. d \in ConnObjects /\ d.dead = c.dead /\ d.fd = c.fd /\ d.ref = c.ref - 1 /\ d.st = c.st
            BY <1>1, <3>1 DEF ConnObjects
        <3> QED BY <2>2, <3>2, Zenon
    <2> QED BY <2>1, <2>2
<1> HIDE DEF d
<1> QED BY <1>2, <1>3

\* connection::incref.
LEMMA IncrefProps ==
    ASSUME NEW cs \in [Conns -> ConnObjects], NEW k \in Conns
    PROVE  /\ Incref(cs, k) \in [Conns -> ConnObjects]
           /\ \A j \in Conns :
                 /\ Incref(cs, k)[j].dead = cs[j].dead
                 /\ Incref(cs, k)[j].fd = cs[j].fd
                 /\ Incref(cs, k)[j].st = cs[j].st
                 /\ j # k => Incref(cs, k)[j] = cs[j]
           /\ Incref(cs, k)[k].ref = cs[k].ref + 1
BY DEF Incref, ConnObjects

\* A connection becomes dead and stays where it is.
LEMMA KilledProps ==
    ASSUME NEW cs \in [Conns -> ConnObjects], NEW k \in Conns
    PROVE  /\ Killed(cs, k) \in [Conns -> ConnObjects]
           /\ \A j \in Conns :
                 /\ Killed(cs, k)[j].ref = cs[j].ref
                 /\ Killed(cs, k)[j].fd = cs[j].fd
                 /\ Killed(cs, k)[j].st = cs[j].st
                 /\ Killed(cs, k)[j].dead <=> (cs[j].dead \/ j = k)
BY DEF Killed, ConnObjects

\* The iterators: the first key, and the next, and end() when there is none.
LEMMA IteratorProps ==
    ASSUME NEW S \in SUBSET Nat
    PROVE  /\ S # {} => First(S) \in S
           /\ S = {} => First(S) = None
           /\ \A f \in S : First(S) <= f
BY MinProps, Zenon DEF First

-----------------------------------------------------------------------------
(* What the invariant says in other words.                                 *)

\* Whoever holds a connection or can call it back holds one that is open.
LEMMA HeldOpen ==
    ASSUME ServerTypeOK, RefOK, FdOK, ThreadOK, RemoveOK
    PROVE  /\ \A k \in Conns :
                 ByListener(k) \/ ByTable(k) \/ Jobs(jobq, k) # {} \/ Users(wconn, k) # {}
                   => conn[k].st = "open"
           /\ \A f \in Fds : callbacks_[f] # None => conn[callbacks_[f]].st = "open"
<1>1. ASSUME NEW k \in Conns,
             ByListener(k) \/ ByTable(k) \/ Jobs(jobq, k) # {} \/ Users(wconn, k) # {}
      PROVE  conn[k].st = "open"
    <2>1. /\ Cardinality(Jobs(jobq, k)) \in Nat
          /\ Cardinality(Users(wconn, k)) \in Nat
          /\ Jobs(jobq, k) # {} => Cardinality(Jobs(jobq, k)) # 0
          /\ Users(wconn, k) # {} => Cardinality(Users(wconn, k)) # 0
        BY JobsFinite, UsersFinite, FS_EmptySet, Zenon DEF ServerTypeOK
    <2>2. Holders(k) >= 1
        <3> DEFINE m == Cardinality(Jobs(jobq, k))
                   n == Cardinality(Users(wconn, k))
        <3>1. Holders(k) = One(ByListener(k)) + One(ByTable(k)) + m + n
            BY Zenon DEF Holders
        <3>2. /\ One(ByListener(k)) \in {0, 1} /\ (ByListener(k) => One(ByListener(k)) = 1)
              /\ One(ByTable(k)) \in {0, 1} /\ (ByTable(k) => One(ByTable(k)) = 1)
            BY Zenon DEF One
        <3>3. One(ByListener(k)) = 1 \/ One(ByTable(k)) = 1 \/ m # 0 \/ n # 0
            BY <1>1, <2>1, <3>2, Zenon
        <3>4. m \in Nat /\ n \in Nat
            BY <2>1, Zenon
        <3> HIDE DEF m, n
        <3> QED BY <3>1, <3>2, <3>3, <3>4
    <2>3. conn[k] \in ConnObjects /\ conn[k].ref >= Holders(k)
        BY Zenon DEF RefOK, RefGood, ServerTypeOK
    <2>4. conn[k].ref # 0 /\ conn[k].st \in {"none", "open", "deleted"}
        <3>1. conn[k].ref \in Int /\ conn[k].st \in {"none", "open", "deleted"}
            BY <2>3 DEF ConnObjects
        <3>2. Holders(k) \in Int
            BY <2>1 DEF Holders, One
        <3> QED BY <2>2, <2>3, <3>1, <3>2
    <2> QED BY <2>4, Zenon DEF RefOK, RefGood
<1>2. ASSUME NEW f \in Fds, callbacks_[f] # None
      PROVE  conn[callbacks_[f]].st = "open"
    <2> DEFINE k == callbacks_[f]
    <2>1. k \in Conns /\ conn[k] \in ConnObjects /\ conn[k].st # "none" /\ conn[k].fd = f
        <3>1. k \in Conns
            BY <1>2, Zenon DEF ServerTypeOK
        <3> QED BY <1>2, <3>1, Zenon DEF ServerTypeOK, FdOK
    <2>2. conn[k].st \in {"none", "open", "deleted"}
        BY <2>1 DEF ConnObjects
    <2>3. ASSUME conn[k].st = "deleted" PROVE FALSE
        <3>1. conn[k].dead
            BY <2>1, <2>3, Zenon DEF RefOK, RefGood
        <3>2. CASE \E w \in Workers : wpc[w] = "remove" /\ wconn[w] = k
            BY <1>1, <2>1, <2>3, <3>2, Zenon DEF Users
        <3>3. CASE main.pc = "remove" /\ listener[main.it] = k
            <4>1. main.it \in DOMAIN listener /\ main.it \in Nat
                BY <3>3, ServerLifeAssumption, Zenon DEF ThreadOK, ServerTypeOK
            <4>2. Keeps(main.it)
                <5>1. main.it >= main.it
                    BY <4>1
                <5> QED BY <3>3, <5>1, Zenon DEF Keeps, ThreadOK
            <4> QED BY <1>1, <2>1, <2>3, <3>3, <4>1, <4>2, Zenon DEF ByListener
        <3> QED BY <1>2, <3>1, <3>2, <3>3, Zenon DEF RemoveOK
    <2> QED BY <2>1, <2>2, <2>3, Zenon
<1> QED BY <1>1, <1>2, Zenon

-----------------------------------------------------------------------------
(* A reference is taken, and given back.                                   *)

\* connection::incref, by got_pdu for a job or by dispatch for conns_: one holder more.
LEMMA RefTaken ==
    ASSUME NEW c \in ConnObjects, NEW d \in ConnObjects, NEW h \in Nat, NEW l, NEW b,
           RefGood(c, h, l, b), c.st = "open", d.st = c.st, d.dead = c.dead, d.ref = c.ref + 1
    PROVE  RefGood(d, h + 1, l, b)
<1>1. c.ref \in Int
    BY DEF ConnObjects
<1> QED BY <1>1 DEF RefGood

\* By another than the listener, or by the listener when the connection is dead.
LEMMA RefGiven ==
    ASSUME NEW c \in ConnObjects, NEW d \in ConnObjects, NEW h \in Nat, NEW l, NEW b,
           NEW m, RefGood(c, h, l, b), h >= 1, c.dead \/ (h >= 2 /\ m),
           d.dead = c.dead, d.ref = c.ref - 1,
           d.st = IF c.ref = 1 /\ c.dead THEN "deleted" ELSE c.st
    PROVE  RefGood(d, h - 1, m, b)
<1>1. c.ref \in Int /\ c.st \in {"none", "open", "deleted"}
    BY DEF ConnObjects
<1>2. c.ref >= h /\ (~b => c.ref = h)
    BY DEF RefGood
<1>3. c.ref >= 1 /\ c.st = "open"
    BY <1>1, <1>2 DEF RefGood
<1>4. CASE c.ref = 1 /\ c.dead
    <2>1. d.st = "deleted" /\ d.ref = 0 /\ d.dead /\ h = 1
        BY <1>2, <1>4
    <2> QED BY <2>1 DEF RefGood
<1>5. CASE ~(c.ref = 1 /\ c.dead)
    <2>1. d.st = "open" /\ d.ref = c.ref - 1 /\ c.ref >= 2 /\ (d.dead \/ m)
        BY <1>1, <1>2, <1>3, <1>5
    <2> QED BY <1>1, <1>2, <2>1 DEF RefGood
<1> QED BY <1>4, <1>5, Zenon

\* The holders are counted by a natural number.
LEMMA HoldersNat ==
    ASSUME NEW S, NEW q \in Seq(S), NEW f, NEW k, NEW l, NEW t
    PROVE  /\ One(l) \in {0, 1} /\ One(t) \in {0, 1}
           /\ Cardinality(Jobs(q, k)) \in Nat /\ Cardinality(Users(f, k)) \in Nat
           /\ One(l) + One(t) + Cardinality(Jobs(q, k)) + Cardinality(Users(f, k)) \in Nat
<1>1. One(l) \in {0, 1} /\ One(t) \in {0, 1}
    BY Zenon DEF One
<1>2. Cardinality(Jobs(q, k)) \in Nat /\ Cardinality(Users(f, k)) \in Nat
    BY JobsFinite, UsersFinite, Zenon
<1> QED BY <1>1, <1>2

-----------------------------------------------------------------------------
(* Steps that leave a part of the invariant alone.                         *)

\* A step that moves no reference.
LEMMA RefFrame ==
    ASSUME RefOK,
           UNCHANGED <<lost, listener, conns_, wconn>>, athread'.ch = athread.ch,
           \A f \in DOMAIN listener : Keeps(f)' <=> Keeps(f),
           \A k \in Conns : Cardinality(Jobs(jobq', k)) = Cardinality(Jobs(jobq, k)),
           \A k \in Conns : /\ conn'[k].ref = conn[k].ref
                            /\ conn'[k].st = conn[k].st
                            /\ conn[k].dead => conn'[k].dead
                            /\ conn'[k].dead => conn[k].dead \/ conn[k].st = "open"
    PROVE  RefOK'
<1> SUFFICES ASSUME NEW k \in Conns
             PROVE  /\ conn'[k].ref >= Holders(k)'
                    /\ k \notin lost' => conn'[k].ref = Holders(k)'
                    /\ conn'[k].st = "none" => conn'[k].ref = 0 /\ ~conn'[k].dead
                    /\ conn'[k].st = "deleted" => conn'[k].ref = 0 /\ conn'[k].dead
                    /\ conn'[k].st = "open" => conn'[k].ref >= 1 /\ (conn'[k].dead \/ ByListener(k)')
    BY Zenon DEF RefOK, RefGood
<1>1. ByListener(k)' <=> ByListener(k)
    BY Zenon DEF ByListener
<1>2. ByTable(k)' <=> ByTable(k)
    BY Zenon DEF ByTable
<1>3. One(ByListener(k))' = One(ByListener(k)) /\ One(ByTable(k))' = One(ByTable(k))
    BY <1>1, <1>2, Zenon DEF One
<1>4. Holders(k)' = Holders(k)
    BY <1>3, Zenon DEF Holders
<1> QED BY <1>1, <1>4, Zenon DEF RefOK, RefGood

\* A step that gives nobody a descriptor, a callback or a name.
LEMMA FdFrame ==
    ASSUME ServerTypeOK, FdOK,
           \A k \in Conns : /\ conn'[k].fd = conn[k].fd
                            /\ conn'[k].st = "none" <=> conn[k].st = "none"
                            /\ conn'[k].st = "open" => conn[k].st = "open",
           DOMAIN listener' \subseteq DOMAIN listener,
           \A f \in DOMAIN listener' : listener'[f] = listener[f],
           \A f \in Fds : callbacks_'[f] = None \/ callbacks_'[f] = callbacks_[f],
           \A n \in Nonces : conns_'[n] # None => n = Nonce[conns_'[n]]
    PROVE  FdOK'
<1>1. \A f \in DOMAIN listener' : conn'[listener'[f]].st # "none" /\ conn'[listener'[f]].fd = f
    <2> SUFFICES ASSUME NEW f \in DOMAIN listener'
                 PROVE  conn'[listener'[f]].st # "none" /\ conn'[listener'[f]].fd = f
        OBVIOUS
    <2>1. f \in DOMAIN listener /\ listener'[f] = listener[f] /\ listener[f] \in Conns
        BY Zenon DEF ServerTypeOK
    <2> QED BY <2>1 DEF FdOK
<1>2. \A f \in Fds : callbacks_'[f] # None =>
          conn'[callbacks_'[f]].st # "none" /\ conn'[callbacks_'[f]].fd = f
    <2> SUFFICES ASSUME NEW f \in Fds, callbacks_'[f] # None
                 PROVE  conn'[callbacks_'[f]].st # "none" /\ conn'[callbacks_'[f]].fd = f
        OBVIOUS
    <2>1. callbacks_'[f] = callbacks_[f] /\ callbacks_[f] \in Conns
        BY Zenon DEF ServerTypeOK
    <2> QED BY <2>1 DEF FdOK
<1>3. \A k \in Conns : conn'[k].st # "none" => conn'[k].fd \in Fds
    BY Zenon DEF FdOK
<1>4. \A j, k \in Conns :
          conn'[j].st = "open" /\ conn'[k].st = "open" /\ conn'[j].fd = conn'[k].fd => j = k
    BY DEF FdOK
<1> QED BY <1>1, <1>2, <1>3, <1>4, Zenon DEF FdOK

\* A step that kills nobody, and after which as many threads remove as before.
LEMMA RemoveFrame ==
    ASSUME ServerTypeOK, RemoveOK, UNCHANGED <<callbacks_, listener, main>>,
           \A k \in Conns : conn'[k].fd = conn[k].fd /\ (conn'[k].dead <=> conn[k].dead),
           \A w \in Workers : /\ wpc'[w] = "remove" <=> wpc[w] = "remove"
                              /\ wpc[w] = "remove" => wconn'[w] = wconn[w],
           rfds_' \subseteq rfds_, ready'.r \subseteq ready.r, pending \subseteq pending'
    PROVE  RemoveOK'
<1>1. ASSUME NEW g \in Fds, callbacks_'[g] # None, conn'[callbacks_'[g]].dead
      PROVE  \/ \E w \in Workers : wpc'[w] = "remove" /\ wconn'[w] = callbacks_'[g]
             \/ main'.pc = "remove" /\ listener'[main'.it] = callbacks_'[g]
    <2>1. callbacks_'[g] = callbacks_[g] /\ callbacks_[g] \in Conns
        BY <1>1, Zenon DEF ServerTypeOK
    <2>2. \/ \E w \in Workers : wpc[w] = "remove" /\ wconn[w] = callbacks_[g]
          \/ main.pc = "remove" /\ listener[main.it] = callbacks_[g]
        BY <1>1, <2>1, Zenon DEF RemoveOK
    <2> QED BY <2>1, <2>2, Zenon
<1>2. ASSUME NEW w \in Workers, wpc'[w] = "remove", wconn'[w] # None
      PROVE  /\ conn'[wconn'[w]].dead
             /\ conn'[wconn'[w]].fd \notin rfds_'
             /\ w \notin pending' => conn'[wconn'[w]].fd \notin ready'.r
    <2>1. wpc[w] = "remove" /\ wconn'[w] = wconn[w] /\ wconn[w] \in Conns
        BY <1>2, Zenon DEF ServerTypeOK
    <2>2. /\ conn[wconn[w]].dead /\ conn[wconn[w]].fd \notin rfds_
          /\ w \notin pending => conn[wconn[w]].fd \notin ready.r
        BY <1>2, <2>1, Zenon DEF RemoveOK
    <2> QED BY <2>1, <2>2, Zenon
<1>3. main'.pc = "remove" =>
          /\ main'.it \notin rfds_'
          /\ "main" \notin pending' => main'.it \notin ready'.r
    BY Zenon DEF RemoveOK
<1> QED BY <1>1, <1>2, <1>3, Zenon DEF RemoveOK

-----------------------------------------------------------------------------
(* The clients.                                                            *)

\* What a client does to its end of a link (connects, sends, goes away) touches no
\* reference, descriptor or callback of the server.
LEMMA ClientStep ==
    ASSUME ServerInv, NEW k \in Conns, Connect(k) \/ Request(k) \/ Break(k)
    PROVE  ServerInv'
<1>0. /\ ServerTypeOK /\ RefOK /\ FdOK /\ ThreadOK /\ RemoveOK /\ RoundOK /\ PillOK /\ NoStaleDescriptor
      /\ UNCHANGED <<conn, listener, conns_, athread, jobq, wpc, wconn, old, main, lost, crashed>>
      /\ UNCHANGED <<callbacks_, rfds_, wfds_, ready, pending>>
    BY Zenon DEF ServerInv, Connect, Request, Break, pollVars
<1>1. /\ link' \in [Conns -> {"none", "up", "down"}] /\ inbox' \in [Conns -> Nat]
      /\ \A j \in Conns : inbox[j] > 0 \/ link[j] = "down" => inbox'[j] > 0 \/ link'[j] = "down"
    <2>1. link \in [Conns -> {"none", "up", "down"}] /\ inbox \in [Conns -> Nat]
        BY <1>0, Zenon DEF ServerTypeOK
    <2> QED BY <2>1 DEF Connect, Request, Break
<1>2. ServerTypeOK'
    BY <1>0, <1>1, Zenon DEF ServerTypeOK
<1>3. RefOK'
    BY <1>0, ZenonT(40) DEF RefOK, RefGood, Holders, ByListener, ByTable, Keeps
<1>4. FdOK'
    BY <1>0, Zenon DEF FdOK
<1>5. ThreadOK'
    BY <1>0, Zenon DEF ThreadOK
<1>6. RemoveOK'
    BY <1>0, Zenon DEF RemoveOK
<1>7. RoundOK'
    <2>1. \A f \in ready.r : callbacks_[f] # None => callbacks_[f] \in Conns
        <3>1. ready.r \in SUBSET Fds
            BY <1>0 DEF ServerTypeOK
        <3> QED BY <1>0, <3>1, Zenon DEF ServerTypeOK
    <2> QED BY <1>0, <1>1, <2>1, Zenon DEF RoundOK
<1>8. PillOK' /\ NoStaleDescriptor'
    BY <1>0, Zenon DEF PillOK, NoStaleDescriptor
<1> QED BY <1>2, <1>3, <1>4, <1>5, <1>6, <1>7, <1>8, Zenon DEF ServerInv

-----------------------------------------------------------------------------
(* The accept thread.                                                      *)

\* The iterators over the listener's map.
LEMMA ListenerIterators ==
    ASSUME ServerTypeOK
    PROVE  /\ First(DOMAIN listener) \in DOMAIN listener \cup {None}
           /\ \A f \in DOMAIN listener : First(DOMAIN listener) # None /\ f >= First(DOMAIN listener)
           /\ \A i \in Nat :
                 /\ After(i) \in DOMAIN listener \cup {None}
                 /\ \A f \in DOMAIN listener : f > i <=> After(i) # None /\ f >= After(i)
<1>1. DOMAIN listener \in SUBSET Nat /\ None \notin DOMAIN listener
    BY ServerLifeAssumption, Zenon DEF ServerTypeOK
<1>2. ASSUME NEW S \in SUBSET (DOMAIN listener)
      PROVE  /\ First(S) \in S \cup {None}
             /\ \A f \in S : First(S) # None /\ f >= First(S) /\ First(S) \in S
    <2>1. S \in SUBSET Nat /\ None \notin S
        BY <1>1, Zenon
    <2>2. /\ S # {} => First(S) \in S
          /\ S = {} => First(S) = None
          /\ \A f \in S : First(S) <= f
        BY <2>1, IteratorProps, Zenon
    <2> HIDE DEF First
    <2> QED BY <2>1, <2>2
<1>3. ASSUME NEW i \in Nat
      PROVE  /\ After(i) \in DOMAIN listener \cup {None}
             /\ \A f \in DOMAIN listener : f > i <=> After(i) # None /\ f >= After(i)
    <2> DEFINE S == {f \in DOMAIN listener : f > i}
    <2>1. After(i) = First(S)
        BY Zenon DEF After
    <2>2. /\ First(S) \in S \cup {None}
          /\ \A f \in S : First(S) # None /\ f >= First(S) /\ First(S) \in S
        BY <1>2, Zenon
    <2> QED BY <1>1, <2>1, <2>2
<1> QED BY <1>1, <1>2, <1>3

\* accept_conn waits in select, and process_accept goes past the connections that it
\* does not delete.
LEMMA AcceptLoopStep ==
    ASSUME ServerInv, crashed = "no",
           AcceptSelect \/ CollectIsDead \/ (CollectRef /\ conn[listener[athread.it]].ref # 1)
    PROVE  ServerInv'
<1>0. /\ ServerTypeOK /\ RefOK /\ FdOK /\ ThreadOK /\ RemoveOK /\ RoundOK /\ PillOK /\ NoStaleDescriptor
      /\ UNCHANGED <<conn, link, inbox, listener, conns_, jobq, wpc, wconn, old, main, lost, crashed>>
      /\ UNCHANGED <<callbacks_, rfds_, wfds_, ready, pending>>
    BY Zenon DEF ServerInv, AcceptSelect, CollectIsDead, CollectRef, pollVars
<1>1. athread \in [pc : {"select", "accept", "isdead", "ref", "exit"}, it : Fds \cup {None}, ch : Conns \cup {None}]
    BY <1>0, Zenon DEF ServerTypeOK
<1>2. /\ athread' \in [pc : {"select", "accept", "isdead", "ref", "exit"}, it : Fds \cup {None},
                       ch : Conns \cup {None}]
      /\ athread'.ch = athread.ch
      /\ main.pc \in {"run", "join"} \/ athread'.pc = "exit"
      /\ athread'.ch # None <=> athread'.pc \in {"isdead", "ref"}
      /\ athread'.pc \in {"isdead", "ref"} => athread'.it \in DOMAIN listener \cup {None}
      /\ athread'.pc = "ref" => athread'.it # None /\ conn[listener[athread'.it]].dead
    <2>1. CASE AcceptSelect
        <3>1. athread.ch = None /\ athread.pc = "select"
            BY <1>0, <2>1, Zenon DEF AcceptSelect, ThreadOK
        <3>2. main.pc \in {"run", "join"}
            BY <1>0, <3>1 DEF ThreadOK
        <3>3. athread' = [athread EXCEPT !.pc = "exit"] \/ athread' = [athread EXCEPT !.pc = "accept"]
            BY <2>1, Zenon DEF AcceptSelect
        <3> QED BY <1>1, <3>1, <3>2, <3>3
    <2>2. CASE CollectIsDead
        <3>1. /\ athread.pc = "isdead" /\ athread.it # None /\ athread.ch # None
              /\ athread.it \in DOMAIN listener
            BY <1>0, <2>2 DEF CollectIsDead, ThreadOK
        <3>2. main.pc \in {"run", "join"}
            BY <1>0, <3>1 DEF ThreadOK
        <3>3. athread.it \in Nat /\ DOMAIN listener \in SUBSET Fds
            BY <1>0, <3>1, ServerLifeAssumption, Zenon DEF ServerTypeOK
        <3>4. After(athread.it) \in DOMAIN listener \cup {None}
            BY <1>0, <3>3, ListenerIterators, Zenon
        <3>5. CASE conn[listener[athread.it]].dead
            <4>1. athread' = [athread EXCEPT !.pc = "ref"]
                BY <2>2, <3>5, Zenon DEF CollectIsDead
            <4> QED BY <1>1, <3>1, <3>2, <3>5, <4>1
        <3>6. CASE ~conn[listener[athread.it]].dead
            <4>1. athread' = [athread EXCEPT !.it = After(athread.it)]
                BY <2>2, <3>6, Zenon DEF CollectIsDead
            <4> QED BY <1>1, <3>1, <3>2, <3>3, <3>4, <4>1
        <3> QED BY <3>5, <3>6, Zenon
    <2>3. CASE CollectRef /\ conn[listener[athread.it]].ref # 1
        <3>1. athread.pc = "ref" /\ athread.ch # None /\ athread.it \in DOMAIN listener
            BY <1>0, <2>3 DEF CollectRef, ThreadOK
        <3>2. main.pc \in {"run", "join"}
            BY <1>0, <3>1 DEF ThreadOK
        <3>3. athread.it \in Nat /\ DOMAIN listener \in SUBSET Fds
            BY <1>0, <3>1, ServerLifeAssumption, Zenon DEF ServerTypeOK
        <3>4. After(athread.it) \in DOMAIN listener \cup {None}
            BY <1>0, <3>3, ListenerIterators, Zenon
        <3>5. athread' = [athread EXCEPT !.pc = "isdead", !.it = After(athread.it)]
            BY <2>3, Zenon DEF CollectRef
        <3> QED BY <1>1, <3>1, <3>2, <3>3, <3>4, <3>5
    <2> QED BY <2>1, <2>2, <2>3, Zenon
<1>3. ServerTypeOK'
    BY <1>0, <1>2, Zenon DEF ServerTypeOK
<1>4. RefOK'
    BY <1>0, <1>2, RefFrame, Zenon DEF Keeps
<1>5. FdOK'
    BY <1>0, Zenon DEF FdOK
<1>6. ThreadOK'
    BY <1>0, <1>2 DEF ThreadOK
<1>7. RemoveOK'
    BY <1>0, Zenon DEF RemoveOK
<1>8. RoundOK' /\ PillOK' /\ NoStaleDescriptor'
    BY <1>0, Zenon DEF RoundOK, PillOK, NoStaleDescriptor
<1> QED BY <1>3, <1>4, <1>5, <1>6, <1>7, <1>8, Zenon DEF ServerInv

\* process_accept makes the connection of a new link: it has a descriptor that nobody
\* else has, a callback, and the reference of the thread that is accepting it.
LEMMA AcceptStepInv ==
    ASSUME ServerInv, crashed = "no", NEW k \in Conns, Accept(k)
    PROVE  ServerInv'
<1> DEFINE f == Min(Fds \ OpenFds)
           new == [st |-> "open", dead |-> FALSE, ref |-> 1, fd |-> f]
<1>0. /\ ServerTypeOK /\ RefOK /\ FdOK /\ ThreadOK /\ RemoveOK /\ RoundOK /\ PillOK /\ NoStaleDescriptor
      /\ UNCHANGED <<link, inbox, listener, conns_, wfds_, ready, pending, jobq, wpc, wconn, old, main, lost>>
    BY Zenon DEF ServerInv, Accept
<1>1. athread \in [pc : {"select", "accept", "isdead", "ref", "exit"}, it : Fds \cup {None}, ch : Conns \cup {None}]
    BY <1>0, Zenon DEF ServerTypeOK
<1>2. athread.pc = "accept" /\ conn[k].st = "none"
    BY Zenon DEF Accept, Waiting
<1>3. athread.ch = None
    BY <1>0, <1>2 DEF ThreadOK
<1>4. main.pc \in {"run", "join"}
    BY <1>0, <1>2 DEF ThreadOK
<1>5. CASE Fds \subseteq OpenFds
    <2>1. /\ UNCHANGED <<conn, callbacks_, rfds_>>
          /\ \/ athread' = [athread EXCEPT !.pc = "exit"] /\ crashed' = crashed
             \/ athread' = athread /\ crashed' = "max_poll_fds"
        BY <1>5, Zenon DEF Accept
    <2>2. /\ athread' \in [pc : {"select", "accept", "isdead", "ref", "exit"}, it : Fds \cup {None},
                           ch : Conns \cup {None}]
          /\ athread'.ch = None /\ athread'.pc \in {"accept", "exit"}
        BY <1>1, <1>2, <1>3, <2>1
    <2>3. ServerTypeOK'
        BY <1>0, <2>1, <2>2, Zenon DEF ServerTypeOK
    <2>4. RefOK'
        BY <1>0, <1>3, <2>1, <2>2, RefFrame, Zenon DEF Keeps
    <2>5. FdOK' /\ RemoveOK'
        BY <1>0, <2>1, Zenon DEF FdOK, RemoveOK
    <2>6. ThreadOK'
        <3>1. main' = main /\ listener' = listener /\ conn' = conn /\ wpc' = wpc /\ wconn' = wconn
            BY <1>0, <2>1, Zenon
        <3>2. main'.pc \in {"run", "join"} /\ athread'.pc \notin {"isdead", "ref"} /\ athread'.pc # "ref"
            BY <1>4, <2>2, <3>1
        <3>3. /\ main'.pc \notin {"close", "remove", "decref"} /\ main'.pc \notin {"remove", "decref"}
            BY <3>2
        <3>4. crashed' = "no" => \A w \in Workers : wconn'[w] = None <=> wpc'[w] \in {"idle", "exit"}
            BY <1>0, <3>1, Zenon DEF ThreadOK
        <3> QED BY <2>2, <3>2, <3>3, <3>4, Zenon DEF ThreadOK
    <2>7. RoundOK' /\ PillOK'
        BY <1>0, <2>1, Zenon DEF RoundOK, PillOK
    <2>8. NoStaleDescriptor'
        BY <1>0, <2>1 DEF NoStaleDescriptor
    <2> QED BY <2>3, <2>4, <2>5, <2>6, <2>7, <2>8, Zenon DEF ServerInv
<1>6. CASE ~(Fds \subseteq OpenFds)
    <2>1. f \in Fds /\ f \notin OpenFds /\ f \in Nat /\ f # None /\ k # None
        <3>1. Fds \ OpenFds \in SUBSET Nat /\ Fds \ OpenFds # {}
            BY <1>6, ServerLifeAssumption, Zenon
        <3>2. f \in Fds \ OpenFds
            BY <3>1, MinProps, Zenon
        <3> QED BY <3>2, ServerLifeAssumption, Zenon
    <2>2. \A j \in Conns : conn[j].st = "open" => conn[j].fd # f
        BY <2>1, Zenon DEF OpenFds
    <2>3. /\ \A j \in Conns : ByListener(j) \/ ByTable(j) \/ Jobs(jobq, j) # {} \/ Users(wconn, j) # {}
                                => conn[j].st = "open"
          /\ \A g \in Fds : callbacks_[g] # None => conn[callbacks_[g]].st = "open"
        BY <1>0, HeldOpen, Zenon
    <2>4. callbacks_[f] = None
        <3>1. callbacks_[f] # None => callbacks_[f] \in Conns /\ conn[callbacks_[f]].fd = f
            BY <1>0, <2>1 DEF ServerTypeOK, FdOK
        <3> QED BY <2>1, <2>2, <2>3, <3>1, Zenon
    <2>5. /\ conn' = [conn EXCEPT ![k] = new]
          /\ callbacks_' = [callbacks_ EXCEPT ![f] = k]
          /\ rfds_' = rfds_ \cup {f}
          /\ crashed' = crashed
          /\ athread' = [pc |-> "isdead", it |-> First(DOMAIN listener), ch |-> k]
        BY <1>6, <2>4, Zenon DEF Accept
    <2>6. /\ athread'.ch = k /\ athread'.pc = "isdead" /\ athread'.it \in DOMAIN listener \cup {None}
          /\ athread' \in [pc : {"select", "accept", "isdead", "ref", "exit"}, it : Fds \cup {None},
                           ch : Conns \cup {None}]
        <3>1. First(DOMAIN listener) \in DOMAIN listener \cup {None} /\ DOMAIN listener \in SUBSET Fds
            BY <1>0, ListenerIterators, Zenon DEF ServerTypeOK
        <3> QED BY <2>5, <3>1
    <2> HIDE DEF f
    <2>7. /\ conn' \in [Conns -> ConnObjects]
          /\ conn'[k].st = "open" /\ ~conn'[k].dead /\ conn'[k].ref = 1 /\ conn'[k].fd = f
          /\ \A j \in Conns : j # k => conn'[j] = conn[j]
        <3>1. conn \in [Conns -> ConnObjects] /\ new \in ConnObjects
            BY <1>0, <2>1 DEF ServerTypeOK, ConnObjects
        <3> QED BY <2>5, <3>1
    <2>8. /\ callbacks_' \in [Fds -> Conns \cup {None}]
          /\ callbacks_'[f] = k /\ \A g \in Fds : g # f => callbacks_'[g] = callbacks_[g]
        <3>1. callbacks_ \in [Fds -> Conns \cup {None}]
            BY <1>0, Zenon DEF ServerTypeOK
        <3> QED BY <2>1, <2>5, <3>1
    <2> HIDE DEF new
    <2>9. ServerTypeOK'
        <3>1. rfds_' \subseteq Fds
            BY <1>0, <2>1, <2>5, Zenon DEF ServerTypeOK
        <3> QED BY <1>0, <2>6, <2>7, <2>8, <3>1, Zenon DEF ServerTypeOK
    <2>10. RefOK'
        <3> SUFFICES ASSUME NEW j \in Conns
                     PROVE  /\ conn'[j].ref >= Holders(j)'
                            /\ j \notin lost' => conn'[j].ref = Holders(j)'
                            /\ conn'[j].st = "none" => conn'[j].ref = 0 /\ ~conn'[j].dead
                            /\ conn'[j].st = "deleted" => conn'[j].ref = 0 /\ conn'[j].dead
                            /\ conn'[j].st = "open" => conn'[j].ref >= 1 /\ (conn'[j].dead \/ ByListener(j)')
            BY Zenon DEF RefOK, RefGood
        <3>1. CASE j = k
            <4>1. ~ByTable(j)' /\ Jobs(jobq', j) = {} /\ Users(wconn', j) = {}
                BY <1>0, <1>2, <2>3, <3>1, Zenon DEF ByTable
            <4>2. ByListener(j)'
                BY <2>6, <3>1, Zenon DEF ByListener
            <4>3. Holders(j)' = 1 + 0 + 0 + 0
                BY <4>1, <4>2, FS_EmptySet, Zenon DEF Holders, One
            <4> QED BY <2>7, <3>1, <4>2, <4>3
        <3>2. CASE j # k
            <4>1. (ByListener(j)' <=> ByListener(j)) /\ (ByTable(j)' <=> ByTable(j))
                <5>1. athread.ch # j /\ athread'.ch # j
                    BY <1>3, <2>6, <3>2, ServerLifeAssumption, Zenon
                <5> QED BY <1>0, <5>1, Zenon DEF ByListener, ByTable, Keeps
            <4>2. Holders(j)' = Holders(j)
                BY <1>0, <4>1, Zenon DEF Holders, One
            <4> QED BY <1>0, <2>7, <3>2, <4>1, <4>2, Zenon DEF RefOK, RefGood
        <3> QED BY <3>1, <3>2, Zenon
    <2>11. \A g \in DOMAIN listener : listener[g] \in Conns /\ listener[g] # k
        BY <1>0, <1>2 DEF FdOK, ServerTypeOK
    <2>12. \A g \in Fds : callbacks_[g] # None => callbacks_[g] \in Conns /\ callbacks_[g] # k /\ g # f
        BY <1>0, <1>2, <2>4 DEF FdOK, ServerTypeOK
    <2>13. FdOK'
        <3>1. \A i \in Conns : conn'[i].st # "none" => conn'[i].fd \in Fds
            BY <1>0, <2>1, <2>7, Zenon DEF FdOK
        <3>2. ASSUME NEW i \in Conns, NEW j \in Conns,
                     conn'[i].st = "open", conn'[j].st = "open", conn'[i].fd = conn'[j].fd
              PROVE  i = j
            BY <1>0, <2>2, <2>7, <3>2 DEF FdOK
        <3>3. \A g \in DOMAIN listener' : conn'[listener'[g]].st # "none" /\ conn'[listener'[g]].fd = g
            BY <1>0, <2>7, <2>11, Zenon DEF FdOK
        <3>4. ASSUME NEW g \in Fds, callbacks_'[g] # None
              PROVE  conn'[callbacks_'[g]].st # "none" /\ conn'[callbacks_'[g]].fd = g
            <4>1. CASE g = f
                BY <2>7, <2>8, <4>1
            <4>2. CASE g # f
                BY <1>0, <2>7, <2>8, <2>12, <3>4, <4>2 DEF FdOK
            <4> QED BY <4>1, <4>2, Zenon
        <3> QED BY <1>0, <3>1, <3>2, <3>3, <3>4, Zenon DEF FdOK
    <2>14. ThreadOK'
        <3>1. \A w \in Workers : wconn'[w] = None <=> wpc'[w] \in {"idle", "exit"}
            BY <1>0, Zenon DEF ThreadOK
        <3>2. main'.pc \in {"run", "join"} /\ listener' = listener
            BY <1>0, <1>4, Zenon
        <3> QED BY <2>1, <2>6, <2>11, <3>1, <3>2 DEF ThreadOK
    <2>15. RemoveOK'
        <3>1. ASSUME NEW g \in Fds, callbacks_'[g] # None, conn'[callbacks_'[g]].dead
              PROVE  \E w \in Workers : wpc'[w] = "remove" /\ wconn'[w] = callbacks_'[g]
            <4>1. g # f
                BY <2>7, <2>8, <3>1, Zenon
            <4>2. callbacks_'[g] = callbacks_[g] /\ conn[callbacks_[g]].dead
                BY <2>7, <2>8, <2>12, <3>1, <4>1, Zenon
            <4>3. main.pc # "remove"
                BY <1>4
            <4> QED BY <1>0, <3>1, <4>2, <4>3, Zenon DEF RemoveOK
        <3>2. ASSUME NEW w \in Workers, wpc'[w] = "remove", wconn'[w] # None
              PROVE  /\ conn'[wconn'[w]].dead
                     /\ conn'[wconn'[w]].fd \notin rfds_'
                     /\ w \notin pending' => conn'[wconn'[w]].fd \notin ready'.r
            <4> DEFINE j == wconn[w]
            <4>1. wconn'[w] = j /\ j \in Conns /\ j # None /\ wpc[w] = "remove"
                BY <1>0, <3>2, Zenon DEF ServerTypeOK
            <4>2. conn[j].st = "open"
                BY <2>3, <4>1, Zenon DEF Users
            <4>3. conn[j].fd # f /\ j # k
                BY <1>2, <2>2, <4>1, <4>2
            <4> HIDE DEF j
            <4>4. conn'[j] = conn[j] /\ conn[j].dead /\ conn[j].fd \notin rfds_
                  /\ (w \notin pending => conn[j].fd \notin ready.r)
                BY <1>0, <2>7, <4>1, <4>3, Zenon DEF RemoveOK, j
            <4> QED BY <1>0, <2>5, <4>1, <4>3, <4>4
        <3>3. main'.pc # "remove"
            BY <1>0, <1>4
        <3> QED BY <3>1, <3>2, <3>3, Zenon DEF RemoveOK
    <2>16. RoundOK'
        <3>1. ready.r \in SUBSET Fds
            BY <1>0 DEF ServerTypeOK
        <3> QED BY <1>0, <2>8, <2>12, <3>1, Zenon DEF RoundOK
    <2>17. PillOK' /\ NoStaleDescriptor'
        BY <1>0, <2>5, Zenon DEF PillOK, NoStaleDescriptor
    <2> QED BY <2>9, <2>10, <2>13, <2>14, <2>15, <2>16, <2>17, Zenon DEF ServerInv
<1> QED BY <1>5, <1>6, Zenon

\* The listener's reference was the last one: the connection is deleted.
LEMMA CollectStep ==
    ASSUME ServerInv, crashed = "no", CollectRef, conn[listener[athread.it]].ref = 1
    PROVE  ServerInv'
<1> DEFINE i == athread.it
           k == listener[i]
           rest == DOMAIN listener \ {i}
<1>0. /\ ServerTypeOK /\ RefOK /\ FdOK /\ ThreadOK /\ RemoveOK /\ RoundOK /\ PillOK /\ NoStaleDescriptor
      /\ UNCHANGED <<link, inbox, conns_, jobq, wpc, wconn, old, main, lost>>
      /\ UNCHANGED <<callbacks_, rfds_, wfds_, ready, pending>>
    BY Zenon DEF ServerInv, CollectRef, pollVars
<1>1. athread \in [pc : {"select", "accept", "isdead", "ref", "exit"}, it : Fds \cup {None}, ch : Conns \cup {None}]
    BY <1>0, Zenon DEF ServerTypeOK
<1>2. athread.pc = "ref" /\ athread.ch # None /\ i \in DOMAIN listener /\ conn[k].dead
    BY <1>0 DEF CollectRef, ThreadOK
<1>3. main.pc \in {"run", "join"}
    BY <1>0, <1>2 DEF ThreadOK
<1>4. /\ conn' = Decref(conn, k)
      /\ listener' = Restrict(listener, rest)
      /\ \/ /\ \E j \in rest \cup {None} : athread' = [athread EXCEPT !.pc = "isdead", !.it = j]
            /\ crashed' = crashed
         \/ crashed' = "iterator" /\ athread' = athread
    BY Zenon DEF CollectRef
<1>5. conn \in [Conns -> ConnObjects] /\ k \in Conns /\ DOMAIN listener \subseteq Fds
    BY <1>0, <1>2, Zenon DEF ServerTypeOK
<1>6. DOMAIN listener' = rest /\ \A f \in rest : listener'[f] = listener[f] /\ listener[f] \in Conns
    BY <1>0, <1>4, Zenon DEF Restrict, ServerTypeOK
<1>7. /\ athread'.ch = athread.ch
      /\ athread' \in [pc : {"select", "accept", "isdead", "ref", "exit"}, it : Fds \cup {None},
                       ch : Conns \cup {None}]
      /\ athread'.pc \in {"isdead", "ref"}
      /\ crashed' = "no" => athread'.pc = "isdead" /\ athread'.it \in rest \cup {None}
    BY <1>1, <1>2, <1>4, <1>5
<1>8. /\ conn' \in [Conns -> ConnObjects]
      /\ \A j \in Conns : conn'[j].dead = conn[j].dead /\ conn'[j].fd = conn[j].fd
      /\ \A j \in Conns : j # k => conn'[j] = conn[j]
      /\ conn'[k].ref = 0 /\ conn'[k].st = "deleted"
    <2> HIDE DEF k
    <2>1. conn[k].ref = 1 /\ conn[k].ref - 1 = 0
        BY DEF k
    <2>2. /\ conn' \in [Conns -> ConnObjects]
          /\ \A j \in Conns : conn'[j].dead = conn[j].dead /\ conn'[j].fd = conn[j].fd /\ (j # k => conn'[j] = conn[j])
          /\ conn'[k].ref = conn[k].ref - 1
          /\ conn'[k].st = IF conn[k].ref = 1 /\ conn[k].dead THEN "deleted" ELSE conn[k].st
        BY <1>4, <1>5, DecrefProps, Zenon DEF k
    <2> QED BY <1>2, <2>1, <2>2
<1>9. conn[k].st = "open" /\ Holders(k) = 1
    <2>1. ByListener(k)
        BY <1>2, <1>3, Zenon DEF ByListener, Keeps
    <2>2. conn[k].st = "open"
        BY <1>0, <1>5, <2>1, HeldOpen, Zenon
    <2>3. Cardinality(Jobs(jobq, k)) \in Nat /\ Cardinality(Users(wconn, k)) \in Nat
        BY <1>0, JobsFinite, UsersFinite, Zenon DEF ServerTypeOK
    <2>4. Holders(k) \in Nat /\ Holders(k) >= 1
        <3>1. One(ByListener(k)) = 1 /\ One(ByTable(k)) \in {0, 1}
            BY <2>1, Zenon DEF One
        <3>2. Holders(k) = One(ByListener(k)) + One(ByTable(k)) + Cardinality(Jobs(jobq, k))
                             + Cardinality(Users(wconn, k))
            BY Zenon DEF Holders
        <3> HIDE DEF k
        <3> QED BY <2>3, <3>1, <3>2
    <2>5. 1 >= Holders(k)
        BY <1>0, <1>5, Zenon DEF RefOK, RefGood
    <2> HIDE DEF k
    <2> QED BY <2>2, <2>4, <2>5
<1> HIDE DEF k, i, rest
<1>10. RefOK'
    <2> SUFFICES ASSUME NEW j \in Conns
                 PROVE  /\ conn'[j].ref >= Holders(j)'
                        /\ j \notin lost' => conn'[j].ref = Holders(j)'
                        /\ conn'[j].st = "none" => conn'[j].ref = 0 /\ ~conn'[j].dead
                        /\ conn'[j].st = "deleted" => conn'[j].ref = 0 /\ conn'[j].dead
                        /\ conn'[j].st = "open" => conn'[j].ref >= 1 /\ (conn'[j].dead \/ ByListener(j)')
        BY Zenon DEF RefOK, RefGood
    <2>1. ByTable(j)' <=> ByTable(j)
        BY <1>0, Zenon DEF ByTable
    <2>2. CASE j = k
        <3>1. ~ByListener(j)'
            <4>1. athread'.ch # k
                BY <1>0, <1>2, <1>7, Zenon DEF ThreadOK, k
            <4>2. \A f \in rest : listener'[f] # k
                BY <1>0, <1>2, <1>6 DEF FdOK, rest, k
            <4> QED BY <1>6, <2>2, <4>1, <4>2, Zenon DEF ByListener
        <3>2. ByListener(j)
            BY <1>2, <1>3, <2>2, Zenon DEF ByListener, Keeps, k
        <3>3. Holders(j) = Holders(j)' + 1
            <4>1. Cardinality(Jobs(jobq, j)) \in Nat /\ Cardinality(Users(wconn, j)) \in Nat
                BY <1>0, JobsFinite, UsersFinite, Zenon DEF ServerTypeOK
            <4>2. One(ByListener(j)') = 0 /\ One(ByListener(j)) = 1 /\ One(ByTable(j)) \in {0, 1}
                  /\ One(ByTable(j)') = One(ByTable(j))
                BY <2>1, <3>1, <3>2, Zenon DEF One
            <4>3. /\ Holders(j) = One(ByListener(j)) + One(ByTable(j)) + Cardinality(Jobs(jobq, j))
                                    + Cardinality(Users(wconn, j))
                  /\ Holders(j)' = One(ByListener(j)') + One(ByTable(j)') + Cardinality(Jobs(jobq, j))
                                    + Cardinality(Users(wconn, j))
                BY <1>0, Zenon DEF Holders, One
            <4> QED BY <4>1, <4>2, <4>3
        <3>4. Holders(j)' = 0
            <4>1. Holders(j)' + 1 = 1 /\ Cardinality(Jobs(jobq, j)) \in Nat /\ Cardinality(Users(wconn, j)) \in Nat
                BY <1>0, <1>9, <2>2, <3>3, JobsFinite, UsersFinite, Zenon DEF ServerTypeOK
            <4>2. Holders(j)' \in Int
                <5>1. Holders(j)' = One(ByListener(j)') + One(ByTable(j)') + Cardinality(Jobs(jobq, j))
                                    + Cardinality(Users(wconn, j))
                    BY <1>0, Zenon DEF Holders, One
                <5>2. One(ByListener(j)') \in {0, 1} /\ One(ByTable(j)') \in {0, 1}
                    BY Zenon DEF One
                <5> QED BY <4>1, <5>1, <5>2
            <4> QED BY <4>1, <4>2
        <3> QED BY <1>2, <1>5, <1>8, <2>2, <3>4 DEF k
    <2>3. CASE j # k
        <3>1. ByListener(j)' <=> ByListener(j)
            <4>1. \A f \in DOMAIN listener : Keeps(f) /\ Keeps(f)'
                BY <1>0, <1>3, Zenon DEF Keeps
            <4>2. (\E f \in DOMAIN listener' : listener'[f] = j) <=> (\E f \in DOMAIN listener : listener[f] = j)
                BY <1>6, <2>3, Zenon DEF rest, k, i
            <4> QED BY <1>6, <1>7, <4>1, <4>2, Zenon DEF ByListener, rest
        <3>2. Holders(j)' = Holders(j)
            BY <1>0, <2>1, <3>1, Zenon DEF Holders, One
        <3> QED BY <1>0, <1>8, <2>3, <3>1, <3>2, Zenon DEF RefOK, RefGood
    <2> QED BY <2>2, <2>3, Zenon
<1>11. ServerTypeOK'
    <2>1. DOMAIN listener' \subseteq Fds /\ listener' \in [DOMAIN listener' -> Conns]
        <3>1. listener' = [f \in rest |-> listener[f]]
            BY <1>4, Zenon DEF Restrict
        <3> QED BY <1>5, <1>6, <3>1 DEF rest
    <2> QED BY <1>0, <1>7, <1>8, <2>1, Zenon DEF ServerTypeOK
<1>12. FdOK'
    <2>1. \A j \in Conns : /\ conn'[j].st = "none" <=> conn[j].st = "none"
                           /\ conn'[j].st = "open" => conn[j].st = "open"
        BY <1>8, <1>9
    <2>2. \A n \in Nonces : conns_'[n] # None => n = Nonce[conns_'[n]]
        BY <1>0, Zenon DEF FdOK
    <2>3. DOMAIN listener' \subseteq DOMAIN listener /\ \A f \in DOMAIN listener' : listener'[f] = listener[f]
        BY <1>6, Zenon DEF rest
    <2> QED BY <1>0, <1>8, <2>1, <2>2, <2>3, FdFrame, Zenon
<1>13. ThreadOK'
    <2>1. \A f \in DOMAIN listener' : listener'[f] # athread'.ch
        BY <1>0, <1>2, <1>6, <1>7, ZenonT(40) DEF ThreadOK, rest
    <2>2. main'.pc \in {"run", "join"}
        BY <1>0, <1>3
    <2>3. \A w \in Workers : wconn'[w] = None <=> wpc'[w] \in {"idle", "exit"}
        BY <1>0, Zenon DEF ThreadOK
    <2> QED BY <1>2, <1>6, <1>7, <2>1, <2>2, <2>3 DEF ThreadOK
<1>14. RemoveOK'
    <2>1. main.pc # "remove" /\ main' = main
        BY <1>0, <1>3
    <2>2. \A f \in Fds : callbacks_[f] # None => callbacks_[f] \in Conns
        BY <1>0, Zenon DEF ServerTypeOK
    <2>3. \A w \in Workers : wconn[w] # None => wconn[w] \in Conns
        BY <1>0, Zenon DEF ServerTypeOK
    <2> QED BY <1>0, <1>8, <2>1, <2>2, <2>3, Zenon DEF RemoveOK
<1>15. RoundOK' /\ PillOK' /\ NoStaleDescriptor'
    BY <1>0, <1>4, Zenon DEF RoundOK, PillOK, NoStaleDescriptor
<1> QED BY <1>10, <1>11, <1>12, <1>13, <1>14, <1>15, Zenon DEF ServerInv

\* The new connection is now under its descriptor.
LEMMA AcceptStoreStep ==
    ASSUME ServerInv, crashed = "no", AcceptStore
    PROVE  ServerInv'
<1> DEFINE k == athread.ch
           f == conn[k].fd
<1>0. /\ ServerTypeOK /\ RefOK /\ FdOK /\ ThreadOK /\ RemoveOK /\ RoundOK /\ PillOK /\ NoStaleDescriptor
      /\ UNCHANGED <<conn, link, inbox, conns_, jobq, wpc, wconn, old, main, lost, crashed>>
      /\ UNCHANGED <<callbacks_, rfds_, wfds_, ready, pending>>
    BY Zenon DEF ServerInv, AcceptStore, pollVars
<1>1. athread \in [pc : {"select", "accept", "isdead", "ref", "exit"}, it : Fds \cup {None}, ch : Conns \cup {None}]
    BY <1>0, Zenon DEF ServerTypeOK
<1>2. athread.pc = "isdead" /\ k # None
    BY <1>0 DEF AcceptStore, ThreadOK
<1>3. main.pc \in {"run", "join"}
    BY <1>0, <1>2 DEF ThreadOK
<1>4. k \in Conns
    BY <1>1, <1>2
<1>5. \A g \in DOMAIN listener : listener[g] \in Conns /\ listener[g] # k /\ conn[listener[g]].st = "open"
                                 /\ conn[listener[g]].fd = g
    <2> SUFFICES ASSUME NEW g \in DOMAIN listener
                 PROVE  listener[g] \in Conns /\ listener[g] # k /\ conn[listener[g]].st = "open"
                        /\ conn[listener[g]].fd = g
        BY Zenon
    <2>1. listener[g] \in Conns /\ listener[g] # k
        BY <1>0, <1>2, Zenon DEF ServerTypeOK, ThreadOK
    <2>2. ByListener(listener[g])
        BY <1>3, Zenon DEF ByListener, Keeps
    <2>3. conn[listener[g]].st = "open"
        BY <1>0, <2>1, <2>2, HeldOpen, Zenon
    <2>4. conn[listener[g]].fd = g
        BY <1>0, Zenon DEF FdOK
    <2> QED BY <2>1, <2>3, <2>4, Zenon
<1>6. conn[k].st = "open" /\ f \in Fds
    <2>1. ByListener(k)
        BY Zenon DEF ByListener
    <2>2. conn[k].st = "open"
        BY <1>0, <1>4, <2>1, HeldOpen, Zenon
    <2> QED BY <1>0, <1>4, <2>2 DEF FdOK
<1>7. f \notin DOMAIN listener
    BY <1>0, <1>4, <1>5, <1>6 DEF FdOK
<1>8. /\ listener' = [g \in DOMAIN listener \cup {f} |-> IF g = f THEN k ELSE listener[g]]
      /\ athread' = [athread EXCEPT !.pc = "select", !.ch = None]
    BY Zenon DEF AcceptStore
<1>9. /\ athread' \in [pc : {"select", "accept", "isdead", "ref", "exit"}, it : Fds \cup {None},
                       ch : Conns \cup {None}]
      /\ athread'.ch = None /\ athread'.pc = "select"
    BY <1>1, <1>8
<1> HIDE DEF k, f
<1>10. /\ DOMAIN listener' = DOMAIN listener \cup {f}
       /\ listener'[f] = k /\ \A g \in DOMAIN listener : listener'[g] = listener[g]
       /\ listener' \in [DOMAIN listener' -> Conns]
    BY <1>4, <1>5, <1>7, <1>8
<1>11. ServerTypeOK'
    <2>1. DOMAIN listener' \subseteq Fds
        BY <1>0, <1>6, <1>10, Zenon DEF ServerTypeOK
    <2> QED BY <1>0, <1>9, <1>10, <2>1, Zenon DEF ServerTypeOK
<1>12. RefOK'
    <2> SUFFICES ASSUME NEW j \in Conns
                 PROVE  RefGood(conn'[j], Holders(j)', ByListener(j)', j \in lost')
        BY Zenon DEF RefOK
    <2>1. ByListener(j)' <=> ByListener(j)
        <3>1. \A g : Keeps(g) /\ Keeps(g)'
            BY <1>0, <1>3, Zenon DEF Keeps
        <3>2. athread'.ch # j
            BY <1>9, ServerLifeAssumption, Zenon
        <3>3. (\E g \in DOMAIN listener' : listener'[g] = j) <=> j = k \/ \E g \in DOMAIN listener : listener[g] = j
            BY <1>10, Zenon
        <3> QED BY <3>1, <3>2, <3>3, Zenon DEF ByListener, k
    <2>2. ByTable(j)' <=> ByTable(j)
        BY <1>0, Zenon DEF ByTable
    <2>3. Holders(j)' = Holders(j)
        BY <1>0, <2>1, <2>2, Zenon DEF Holders, One
    <2> QED BY <1>0, <2>1, <2>3, Zenon DEF RefOK, RefGood
<1>13. FdOK'
    <2>1. \A g \in DOMAIN listener' : conn'[listener'[g]].st # "none" /\ conn'[listener'[g]].fd = g
        BY <1>0, <1>5, <1>6, <1>10 DEF f
    <2> QED BY <1>0, <2>1, Zenon DEF FdOK
<1>14. ThreadOK'
    <2>1. \A w \in Workers : wconn'[w] = None <=> wpc'[w] \in {"idle", "exit"}
        BY <1>0, Zenon DEF ThreadOK
    <2>2. main'.pc \in {"run", "join"}
        BY <1>0, <1>3, Zenon
    <2> QED BY <1>9, <2>1, <2>2 DEF ThreadOK
<1>15. RemoveOK'
    <2>1. main.pc # "remove"
        BY <1>3
    <2> QED BY <1>0, <2>1, Zenon DEF RemoveOK
<1>16. RoundOK' /\ PillOK' /\ NoStaleDescriptor'
    BY <1>0, Zenon DEF RoundOK, PillOK, NoStaleDescriptor
<1> QED BY <1>11, <1>12, <1>13, <1>14, <1>15, <1>16, Zenon DEF ServerInv

-----------------------------------------------------------------------------
(* The PollMgr's thread.                                                   *)

\* PollMgr::wait_loop begins a round: those who waited for the last one are let go, and
\* what epoll or select reports is readable until it is served.
LEMMA PollRoundStep ==
    ASSUME ServerInv, PollRound
    PROVE  ServerInv'
<1> DEFINE readable == {f \in rfds_ : callbacks_[f] # None /\
                                      (inbox[callbacks_[f]] > 0 \/ link[callbacks_[f]] = "down")}
<1>0. /\ ServerTypeOK /\ RefOK /\ FdOK /\ ThreadOK /\ RemoveOK /\ RoundOK /\ PillOK /\ NoStaleDescriptor
      /\ UNCHANGED <<conn, link, inbox, listener, conns_, athread, callbacks_, rfds_, wfds_, jobq, wpc, wconn,
                     old, main, lost, crashed>>
    BY Zenon DEF ServerInv, PollRound
<1>1. \E writable \in SUBSET wfds_ : ready' = [r |-> readable, w |-> writable]
    BY Zenon DEF PollRound
<1>2. rfds_ \subseteq Fds /\ wfds_ \subseteq Fds
    BY <1>0, Zenon DEF ServerTypeOK
<1>3. ready'.r = readable /\ ready' \in [r : SUBSET Fds, w : SUBSET Fds]
    BY <1>1, <1>2
<1>4. ServerTypeOK'
    BY <1>0, <1>3, Zenon DEF ServerTypeOK
<1>5. RefOK'
    BY <1>0, RefFrame, Zenon DEF Keeps
<1>6. FdOK' /\ ThreadOK'
    BY <1>0, Zenon DEF FdOK, ThreadOK
<1>7. RemoveOK'
    BY <1>0, <1>3, Zenon DEF RemoveOK
<1>8. RoundOK'
    BY <1>0, <1>3, Zenon DEF RoundOK
<1>9. PillOK' /\ NoStaleDescriptor'
    BY <1>0, Zenon DEF PillOK, NoStaleDescriptor
<1> QED BY <1>4, <1>5, <1>6, <1>7, <1>8, <1>9, Zenon DEF ServerInv

\* The send on k returns: no thread is in the middle of one, none starts or ends
\* its request, and on other connections nothing happens.
LEMMA SendEndsProps ==
    ASSUME ServerTypeOK, NEW k, SendEnds(k)
    PROVE  /\ wpc' \in [Workers -> {"idle", "pick", "send", "queued", "blocked", "remove", "done", "exit"}]
           /\ \A w \in Workers :
                 /\ wpc'[w] = "remove" <=> wpc[w] = "remove" /\ wconn[w] # k
                 /\ wpc'[w] = "idle" <=> wpc[w] = "idle"
                 /\ wpc'[w] = "exit" <=> wpc[w] = "exit"
<1>1. wpc \in [Workers -> {"idle", "pick", "send", "queued", "blocked", "remove", "done", "exit"}]
    BY Zenon DEF ServerTypeOK
<1>2. wpc' = [w \in Workers |->
                IF w \in Sending(k) THEN "done"
                ELSE IF wconn[w] = k /\ wpc[w] = "queued" THEN "send"
                ELSE wpc[w]]
    BY Zenon DEF SendEnds
<1>3. \A w \in Workers : w \in Sending(k) <=> wconn[w] = k /\ wpc[w] \in {"blocked", "remove"}
    BY Zenon DEF Sending
<1> QED BY <1>1, <1>2, <1>3

\* What a callback of the PollMgr may do to a descriptor f: serve it, stop watching
\* it, end the send on its connection, and give it up for dead.
LEMMA ServeStep ==
    ASSUME ServerInv, NEW f \in Fds,
           UNCHANGED <<link, inbox, listener, conns_, athread, pending, jobq, wconn, old, main, lost>>,
           ready' \in [r : SUBSET Fds, w : SUBSET Fds], ready'.r \subseteq ready.r, f \notin ready'.r,
           callbacks_' = callbacks_ \/ callbacks_' = [callbacks_ EXCEPT ![f] = None],
           rfds_' \subseteq rfds_, wfds_' \subseteq wfds_,
           \/ conn' = conn /\ wpc' = wpc
           \/ /\ callbacks_[f] # None /\ ~conn[callbacks_[f]].dead
              /\ SendEnds(callbacks_[f])
              /\ \/ conn' = conn
                 \/ conn' = Killed(conn, callbacks_[f]) /\ callbacks_' = [callbacks_ EXCEPT ![f] = None],
           crashed = "no", crashed' \in {"no", "write_cb"}
    PROVE  ServerInv'
<1> DEFINE k == callbacks_[f]
<1>0. /\ ServerTypeOK /\ RefOK /\ FdOK /\ ThreadOK /\ RemoveOK /\ RoundOK /\ PillOK /\ NoStaleDescriptor
      /\ UNCHANGED <<link, inbox, listener, conns_, athread, pending, jobq, wconn, old, main, lost>>
    BY Zenon DEF ServerInv
<1>1. /\ callbacks_' \in [Fds -> Conns \cup {None}]
      /\ \A g \in Fds : callbacks_'[g] = None \/ callbacks_'[g] = callbacks_[g]
      /\ \A g \in Fds : g # f => callbacks_'[g] = callbacks_[g]
      /\ \A g \in Fds : callbacks_[g] # None => callbacks_[g] \in Conns
    <2>1. callbacks_ \in [Fds -> Conns \cup {None}]
        BY <1>0, Zenon DEF ServerTypeOK
    <2> QED BY <2>1
<1>2. k # None => k \in Conns /\ conn[k].st = "open" /\ conn[k].fd = f
    BY <1>0, <1>1, HeldOpen DEF FdOK
<1>3. /\ conn' \in [Conns -> ConnObjects]
      /\ \A j \in Conns : /\ conn'[j].ref = conn[j].ref /\ conn'[j].fd = conn[j].fd
                          /\ conn'[j].st = conn[j].st
                          /\ conn[j].dead => conn'[j].dead
                          /\ conn'[j].dead => conn[j].dead \/ (j = k /\ callbacks_'[f] = None)
    <2>1. conn \in [Conns -> ConnObjects] /\ callbacks_ \in [Fds -> Conns \cup {None}]
        BY <1>0, Zenon DEF ServerTypeOK
    <2>2. CASE conn' = conn
        BY <2>1, <2>2, Zenon
    <2>3. CASE conn' = Killed(conn, k) /\ callbacks_' = [callbacks_ EXCEPT ![f] = None] /\ k # None
        <3>1. k \in Conns /\ callbacks_'[f] = None
            BY <1>2, <2>1, <2>3
        <3>2. /\ conn' \in [Conns -> ConnObjects]
              /\ \A j \in Conns : /\ conn'[j].ref = conn[j].ref /\ conn'[j].fd = conn[j].fd
                                  /\ conn'[j].st = conn[j].st /\ (conn'[j].dead <=> (conn[j].dead \/ j = k))
            <4> HIDE DEF k
            <4>1. conn' = Killed(conn, k) /\ k \in Conns /\ conn \in [Conns -> ConnObjects]
                BY <2>1, <2>3, <3>1, Zenon
            <4> QED BY <4>1, KilledProps
        <3> HIDE DEF k
        <3> QED BY <3>1, <3>2, Zenon
    <2> QED BY <2>2, <2>3, Zenon
<1>4. /\ wpc' \in [Workers -> {"idle", "pick", "send", "queued", "blocked", "remove", "done", "exit"}]
      /\ \A w \in Workers : /\ wpc'[w] = "remove" => wpc[w] = "remove"
                            /\ wpc[w] = "remove" => wpc'[w] = "remove" \/ (k # None /\ wconn[w] = k /\ ~conn[k].dead)
                            /\ wpc'[w] = "idle" <=> wpc[w] = "idle"
                            /\ wpc'[w] = "exit" <=> wpc[w] = "exit"
    <2>1. CASE wpc' = wpc
        BY <1>0, <2>1, Zenon DEF ServerTypeOK
    <2>2. CASE k # None /\ ~conn[k].dead /\ SendEnds(k)
        BY <1>0, <2>2, SendEndsProps, Zenon
    <2> QED BY <2>1, <2>2, Zenon
<1>5. ServerTypeOK'
    <2>1. rfds_' \subseteq Fds /\ wfds_' \subseteq Fds
        BY <1>0, Zenon DEF ServerTypeOK
    <2>2. /\ conn' \in [Conns -> ConnObjects] /\ callbacks_' \in [Fds -> Conns \cup {None}]
          /\ wpc' \in [Workers -> {"idle", "pick", "send", "queued", "blocked", "remove", "done", "exit"}]
        BY <1>1, <1>3, <1>4, Zenon
    <2> QED BY <1>0, <2>1, <2>2, ZenonT(40) DEF ServerTypeOK
<1>6. RefOK'
    <2>1. \A j \in Conns : conn'[j].dead => conn[j].dead \/ conn[j].st = "open"
        BY <1>1, <1>2, <1>3, ServerLifeAssumption, Zenon
    <2> QED BY <1>0, <1>3, <2>1, RefFrame, Zenon DEF Keeps
<1>7. FdOK'
    <2>1. \A n \in Nonces : conns_'[n] # None => n = Nonce[conns_'[n]]
        BY <1>0, Zenon DEF FdOK
    <2> QED BY <1>0, <1>1, <1>3, <2>1, FdFrame, Zenon
<1>8. ThreadOK'
    <2>1. \A g \in DOMAIN listener : listener[g] \in Conns
        BY <1>0, Zenon DEF ServerTypeOK
    <2>2. crashed' = "no" => \A w \in Workers : wconn'[w] = None <=> wpc'[w] \in {"idle", "exit"}
        BY <1>0, <1>4, Zenon DEF ThreadOK
    <2>3. main.pc \in {"remove", "decref"} => main.it # None /\ conn'[listener[main.it]].dead
        <3>1. main.pc \in {"remove", "decref"} =>
                main.it # None /\ main.it \in DOMAIN listener /\ conn[listener[main.it]].dead
            BY <1>0 DEF ThreadOK
        <3> QED BY <1>3, <2>1, <3>1, Zenon
    <2>4. athread.pc = "ref" => athread.it # None /\ conn'[listener[athread.it]].dead
        <3>1. athread.pc = "ref" =>
                athread.it # None /\ athread.it \in DOMAIN listener /\ conn[listener[athread.it]].dead
            BY <1>0 DEF ThreadOK
        <3> QED BY <1>3, <2>1, <3>1, Zenon
    <2> QED BY <1>0, <2>2, <2>3, <2>4, Zenon DEF ThreadOK
<1>9. RemoveOK'
    <2>1. ASSUME NEW g \in Fds, callbacks_'[g] # None, conn'[callbacks_'[g]].dead
          PROVE  \/ \E w \in Workers : wpc'[w] = "remove" /\ wconn'[w] = callbacks_'[g]
                 \/ main'.pc = "remove" /\ listener'[main'.it] = callbacks_'[g]
        <3>1. callbacks_'[g] = callbacks_[g] /\ callbacks_[g] \in Conns
            BY <1>1, <2>1, Zenon
        <3>2. conn[callbacks_[g]].fd = g
            BY <1>0, <2>1, <3>1 DEF FdOK
        <3>3. conn[callbacks_[g]].dead
            BY <1>2, <1>3, <2>1, <3>1, <3>2
        <3>4. \/ \E w \in Workers : wpc[w] = "remove" /\ wconn[w] = callbacks_[g]
              \/ main.pc = "remove" /\ listener[main.it] = callbacks_[g]
            BY <1>0, <2>1, <3>1, <3>3, Zenon DEF RemoveOK
        <3> QED BY <1>0, <1>4, <3>1, <3>3, <3>4, Zenon
    <2>2. ASSUME NEW w \in Workers, wpc'[w] = "remove", wconn'[w] # None
          PROVE  /\ conn'[wconn'[w]].dead
                 /\ conn'[wconn'[w]].fd \notin rfds_'
                 /\ w \notin pending' => conn'[wconn'[w]].fd \notin ready'.r
        <3>1. wconn'[w] = wconn[w] /\ wconn[w] \in Conns /\ wpc[w] = "remove"
            <4>1. wconn' = wconn /\ wconn \in [Workers -> Conns \cup {None}]
                BY <1>0, Zenon DEF ServerTypeOK
            <4> QED BY <1>4, <2>2, <4>1, Zenon
        <3>2. /\ conn[wconn[w]].dead /\ conn[wconn[w]].fd \notin rfds_
              /\ w \notin pending => conn[wconn[w]].fd \notin ready.r
            BY <1>0, <2>2, <3>1, Zenon DEF RemoveOK
        <3> QED BY <1>0, <1>3, <3>1, <3>2, ZenonT(40)
    <2>3. main'.pc = "remove" =>
              /\ main'.it \notin rfds_'
              /\ "main" \notin pending' => main'.it \notin ready'.r
        BY <1>0, Zenon DEF RemoveOK
    <2> QED BY <2>1, <2>2, <2>3, Zenon DEF RemoveOK
<1>10. RoundOK'
    <2>1. ready.r \subseteq Fds
        BY <1>0 DEF ServerTypeOK
    <2> QED BY <1>0, <1>1, <2>1, Zenon DEF RoundOK
<1>11. PillOK' /\ NoStaleDescriptor'
    <2>1. PillOK'
        BY <1>0, <1>4, ZenonT(40) DEF PillOK
    <2> QED BY <2>1 DEF NoStaleDescriptor
<1> QED BY <1>5, <1>6, <1>7, <1>8, <1>9, <1>10, <1>11, Zenon DEF ServerInv

\* rpcs::got_pdu takes a reference for the job it queues.
LEMMA GotPduStep ==
    ASSUME ServerInv, crashed = "no", NEW f \in Fds, f \in ready.r,
           callbacks_[f] # None, ~conn[callbacks_[f]].dead, inbox[callbacks_[f]] > 0,
           Len(jobq) < MaxQueue, GotPdu(callbacks_[f]), ready' = [ready EXCEPT !.r = @ \ {f}],
           UNCHANGED <<callbacks_, rfds_, wfds_, wpc, crashed>>,
           UNCHANGED <<link, left, listener, conns_, athread, pending, wconn, old, main, lost>>
    PROVE  ServerInv'
<1> DEFINE k == callbacks_[f]
<1>0. /\ ServerTypeOK /\ RefOK /\ FdOK /\ ThreadOK /\ RemoveOK /\ RoundOK /\ PillOK /\ NoStaleDescriptor
      /\ UNCHANGED <<callbacks_, rfds_, wfds_, wpc, crashed>>
      /\ UNCHANGED <<link, left, listener, conns_, athread, pending, wconn, old, main, lost>>
    BY Zenon DEF ServerInv
<1>1. /\ conn \in [Conns -> ConnObjects] /\ inbox \in [Conns -> Nat] /\ jobq \in Seq(Conns \cup {None})
      /\ k \in Conns /\ ready \in [r : SUBSET Fds, w : SUBSET Fds]
    BY <1>0, Zenon DEF ServerTypeOK
<1>2. conn' = Incref(conn, k) /\ jobq' = Append(jobq, k) /\ inbox' = [inbox EXCEPT ![k] = inbox[k] - 1]
    BY Zenon DEF GotPdu
<1>3. conn[k].st = "open" /\ conn[k].fd = f
    BY <1>0, <1>1, HeldOpen DEF FdOK
<1>4. ready' \in [r : SUBSET Fds, w : SUBSET Fds] /\ ready'.r = ready.r \ {f}
    BY <1>1
<1>5. inbox' \in [Conns -> Nat] /\ \A j \in Conns : j # k => inbox'[j] = inbox[j]
    <2> HIDE DEF k
    <2>1. inbox[k] > 0
        BY DEF k
    <2> QED BY <1>1, <1>2, <2>1
<1> HIDE DEF k
<1>6. /\ conn' \in [Conns -> ConnObjects]
      /\ \A j \in Conns : /\ conn'[j].dead = conn[j].dead /\ conn'[j].fd = conn[j].fd
                          /\ conn'[j].st = conn[j].st /\ (j # k => conn'[j] = conn[j])
      /\ conn'[k].ref = conn[k].ref + 1
    BY <1>1, <1>2, IncrefProps, Zenon
<1>7. ServerTypeOK'
    <2>1. jobq' \in Seq(Conns \cup {None})
        BY <1>1, <1>2
    <2> QED BY <1>0, <1>4, <1>5, <1>6, <2>1, ZenonT(40) DEF ServerTypeOK
<1>8. main.pc \notin {"pills", "gone"}
    <2>1. ByListener(k)
        BY <1>0, <1>1, <1>3, Zenon DEF RefOK, RefGood, k
    <2>2. CASE athread.ch = k
        <3>1. athread.ch # None
            BY <1>1, <2>2, ServerLifeAssumption, Zenon
        <3>2. athread.pc \in {"isdead", "ref"}
            BY <1>0, <3>1, Zenon DEF ThreadOK
        <3> QED BY <1>0, <3>2 DEF ThreadOK
    <2>3. CASE \E g \in DOMAIN listener : listener[g] = k /\ Keeps(g)
        BY <2>3 DEF Keeps
    <2> QED BY <2>1, <2>2, <2>3, Zenon DEF ByListener
<1>9. RefOK'
    <2> SUFFICES ASSUME NEW j \in Conns
                 PROVE  RefGood(conn'[j], Holders(j)', ByListener(j)', j \in lost')
        BY Zenon DEF RefOK
    <2>0. RefGood(conn[j], Holders(j), ByListener(j), j \in lost)
        BY <1>0, Zenon DEF RefOK
    <2>1. ByListener(j)' = ByListener(j) /\ ByTable(j)' = ByTable(j) /\ lost' = lost
        BY <1>0, Zenon DEF ByListener, ByTable, Keeps
    <2>2. Cardinality(Jobs(jobq', j)) = Cardinality(Jobs(jobq, j)) + One(k = j)
        <3>1. k \in Conns \cup {None}
            BY <1>1, Zenon
        <3> QED BY <1>1, <1>2, <3>1, JobsAppend, SMTT(20)
    <2>3. /\ Holders(j) = One(ByListener(j)) + One(ByTable(j)) + Cardinality(Jobs(jobq, j))
                            + Cardinality(Users(wconn, j))
          /\ Holders(j)' = One(ByListener(j)) + One(ByTable(j)) + Cardinality(Jobs(jobq', j))
                            + Cardinality(Users(wconn, j))
        BY <1>0, <2>1, Zenon DEF Holders
    <2>4. /\ One(ByListener(j)) \in {0, 1} /\ One(ByTable(j)) \in {0, 1}
          /\ Cardinality(Jobs(jobq, j)) \in Nat /\ Cardinality(Users(wconn, j)) \in Nat
        BY <1>1, HoldersNat, Zenon
    <2>5. CASE j = k
        <3>1. One(k = j) = 1
            BY <2>5, Zenon DEF One
        <3>2. Holders(j) \in Nat /\ Holders(j)' = Holders(j) + 1
            BY <2>2, <2>3, <2>4, <3>1
        <3>4. /\ conn[j] \in ConnObjects /\ conn'[j] \in ConnObjects /\ conn[j].st = "open"
              /\ conn'[j].st = conn[j].st /\ conn'[j].dead = conn[j].dead /\ conn'[j].ref = conn[j].ref + 1
            BY <1>1, <1>3, <1>6, <2>5, Zenon
        <3>5. RefGood(conn'[j], Holders(j) + 1, ByListener(j), j \in lost)
            BY <2>0, <3>2, <3>4, RefTaken, Zenon
        <3> QED BY <2>1, <3>2, <3>5, Zenon
    <2>6. CASE j # k
        <3>1. One(k = j) = 0
            BY <2>6, Zenon DEF One
        <3>2. Holders(j)' = Holders(j)
            BY <2>2, <2>3, <2>4, <3>1
        <3>3. conn'[j] = conn[j]
            BY <1>6, <2>6, Zenon
        <3> QED BY <2>0, <2>1, <3>2, <3>3, Zenon
    <2> QED BY <2>5, <2>6, Zenon
<1>10. FdOK'
    <2>1. \A n \in Nonces : conns_'[n] # None => n = Nonce[conns_'[n]]
        BY <1>0, Zenon DEF FdOK
    <2> QED BY <1>0, <1>6, <2>1, FdFrame, Zenon
<1>11. ThreadOK'
    <2>1. \A g \in DOMAIN listener : listener[g] \in Conns
        BY <1>0, Zenon DEF ServerTypeOK
    <2>2. main.pc \in {"remove", "decref"} => main.it # None /\ conn'[listener[main.it]].dead
        <3>1. main.pc \in {"remove", "decref"} =>
                main.it # None /\ main.it \in DOMAIN listener /\ conn[listener[main.it]].dead
            BY <1>0 DEF ThreadOK
        <3> QED BY <1>6, <2>1, <3>1, Zenon
    <2>3. athread.pc = "ref" => athread.it # None /\ conn'[listener[athread.it]].dead
        <3>1. athread.pc = "ref" =>
                athread.it # None /\ athread.it \in DOMAIN listener /\ conn[listener[athread.it]].dead
            BY <1>0 DEF ThreadOK
        <3> QED BY <1>6, <2>1, <3>1, Zenon
    <2> QED BY <1>0, <2>2, <2>3, Zenon DEF ThreadOK
<1>12. RemoveOK'
    <2>1. ready'.r \subseteq ready.r
        BY <1>4
    <2> QED BY <1>0, <1>6, <2>1, RemoveFrame, Zenon
<1>13. RoundOK'
    <2> SUFFICES ASSUME NEW g \in ready'.r
                 PROVE  callbacks_'[g] # None /\ (inbox'[callbacks_'[g]] > 0 \/ link'[callbacks_'[g]] = "down")
        BY Zenon DEF RoundOK
    <2>1. g \in ready.r /\ g # f /\ g \in Fds
        BY <1>1, <1>4
    <2>2. callbacks_[g] # None /\ (inbox[callbacks_[g]] > 0 \/ link[callbacks_[g]] = "down")
        BY <1>0, <2>1, Zenon DEF RoundOK
    <2>3. callbacks_[g] \in Conns /\ callbacks_[g] # k
        BY <1>0, <1>3, <2>1, <2>2 DEF ServerTypeOK, FdOK
    <2> QED BY <1>0, <1>5, <2>2, <2>3, Zenon
<1>14. PillOK'
    <2>1. main'.pc \notin {"pills", "gone"}
        BY <1>0, <1>8, Zenon
    <2>2. \A w \in Workers : wpc'[w] # "exit"
        BY <1>0, <1>8, Zenon DEF PillOK
    <2>3. \A i \in 1 .. Len(jobq) : jobq[i] # None
        BY <1>0, <1>8, Zenon DEF PillOK
    <2>4. k # None
        BY <1>1, ServerLifeAssumption, Zenon
    <2>5. /\ Len(jobq) \in Nat /\ Len(jobq') = Len(jobq) + 1
          /\ \A i \in 1 .. Len(jobq) : jobq'[i] = jobq[i]
          /\ jobq'[Len(jobq) + 1] = k
        BY <1>1, <1>2, AppendProps
    <2>6. \A i \in 1 .. Len(jobq') : jobq'[i] # None
        BY <2>3, <2>4, <2>5
    <2> QED BY <2>1, <2>2, <2>6, Zenon DEF PillOK
<1>15. NoStaleDescriptor'
    BY <1>0, Zenon DEF NoStaleDescriptor
<1> QED BY <1>7, <1>9, <1>10, <1>11, <1>12, <1>13, <1>14, <1>15, Zenon DEF ServerInv

\* connection::read_cb: the connection is dead already, it dies, or a request is queued.
\* It never finds a descriptor of which there is nothing to read.
LEMMA ReadCbStep ==
    ASSUME ServerInv, crashed = "no", NEW f \in Fds, ReadCb(f)
    PROVE  ServerInv'
<1> DEFINE k == callbacks_[f]
<1>0. /\ ServerTypeOK /\ RoundOK
      /\ f \in ready.r /\ ready' = [ready EXCEPT !.r = @ \ {f}]
      /\ UNCHANGED <<link, left, listener, conns_, athread, pending, wconn, old, main, lost>>
    BY Zenon DEF ServerInv, ReadCb
<1>1. ready' \in [r : SUBSET Fds, w : SUBSET Fds] /\ ready'.r \subseteq ready.r /\ f \notin ready'.r
    <2>1. ready \in [r : SUBSET Fds, w : SUBSET Fds]
        BY <1>0, Zenon DEF ServerTypeOK
    <2> QED BY <1>0, <2>1
<1>2. k # None /\ (inbox[k] > 0 \/ link[k] = "down")
    BY <1>0, Zenon DEF RoundOK
<1>3. CASE UNCHANGED <<conn, inbox, callbacks_, rfds_, wfds_, jobq, wpc, crashed>>
    BY <1>0, <1>1, <1>3, ServeStep, Zenon
<1>4. CASE ~conn[k].dead /\ Died(f, k) /\ UNCHANGED <<inbox, jobq, crashed>>
    <2>1. /\ callbacks_' = [callbacks_ EXCEPT ![f] = None]
          /\ rfds_' \subseteq rfds_ /\ wfds_' \subseteq wfds_
          /\ conn' = Killed(conn, k) /\ SendEnds(k)
        BY <1>4, Zenon DEF Died
    <2> QED BY <1>0, <1>1, <1>2, <1>4, <2>1, ServeStep, Zenon
<1>5. CASE /\ ~conn[k].dead /\ inbox[k] > 0 /\ GotPdu(k)
           /\ UNCHANGED <<callbacks_, rfds_, wfds_, wpc, crashed>>
    <2>1. CASE Len(jobq) < MaxQueue
        BY <1>0, <1>2, <1>5, <2>1, GotPduStep, Zenon
    <2>2. CASE ~(Len(jobq) < MaxQueue)
        <3>1. UNCHANGED <<conn, inbox, callbacks_, rfds_, wfds_, jobq, wpc, crashed>>
            BY <1>5, <2>2, Zenon DEF GotPdu
        <3> QED BY <1>3, <3>1, Zenon
    <2> QED BY <2>1, <2>2, Zenon
<1>6. ~(link[k] = "up" /\ inbox[k] = 0)
    <2>1. k \in Conns /\ inbox \in [Conns -> Nat]
        BY <1>0, <1>2, Zenon DEF ServerTypeOK
    <2> QED BY <1>2, <2>1
<1> QED BY <1>2, <1>3, <1>4, <1>5, <1>6, Zenon DEF ReadCb

\* connection::write_cb: a send that waits goes on, ends, or finds the link broken.
LEMMA WriteCbStep ==
    ASSUME ServerInv, crashed = "no", NEW f \in Fds, WriteCb(f)
    PROVE  ServerInv'
<1> DEFINE k == callbacks_[f]
<1>0. /\ ServerTypeOK
      /\ ready.r = {} /\ ready' = [ready EXCEPT !.w = @ \ {f}]
      /\ UNCHANGED <<link, inbox, left, listener, conns_, athread, pending, jobq, wconn, old, main, lost>>
    BY Zenon DEF ServerInv, WriteCb
<1>1. ready' \in [r : SUBSET Fds, w : SUBSET Fds] /\ ready'.r \subseteq ready.r /\ f \notin ready'.r
    <2>1. ready \in [r : SUBSET Fds, w : SUBSET Fds]
        BY <1>0, Zenon DEF ServerTypeOK
    <2> QED BY <1>0, <2>1
<1>2. CASE UNCHANGED <<conn, callbacks_, rfds_, wfds_, wpc>> /\ crashed' \in {"no", "write_cb"}
    BY <1>0, <1>1, <1>2, ServeStep, Zenon
<1>3. CASE /\ wfds_' = wfds_ \ {f}
           /\ callbacks_' = [callbacks_ EXCEPT ![f] = IF f \in rfds_ THEN @ ELSE None]
           /\ UNCHANGED <<conn, rfds_, wpc, crashed>>
    <2>1. callbacks_' = callbacks_ \/ callbacks_' = [callbacks_ EXCEPT ![f] = None]
        <3>1. callbacks_ \in [Fds -> Conns \cup {None}]
            BY <1>0, Zenon DEF ServerTypeOK
        <3> QED BY <1>3, <3>1
    <2>2. wfds_' \subseteq wfds_ /\ rfds_' \subseteq rfds_
        BY <1>3, Zenon
    <2> QED BY <1>0, <1>1, <1>3, <2>1, <2>2, ServeStep, Zenon
<1>4. CASE /\ k # None /\ ~conn[k].dead /\ SendEnds(k)
           /\ UNCHANGED <<conn, callbacks_, rfds_, wfds_, crashed>>
    BY <1>0, <1>1, <1>4, ServeStep, Zenon
<1>5. CASE k # None /\ ~conn[k].dead /\ Died(f, k) /\ UNCHANGED crashed
    <2>1. /\ callbacks_' = [callbacks_ EXCEPT ![f] = None]
          /\ rfds_' \subseteq rfds_ /\ wfds_' \subseteq wfds_
          /\ conn' = Killed(conn, k) /\ SendEnds(k)
        BY <1>5, Zenon DEF Died
    <2> QED BY <1>0, <1>1, <1>5, <2>1, ServeStep, Zenon
<1> QED BY <1>2, <1>3, <1>4, <1>5, Zenon DEF WriteCb

-----------------------------------------------------------------------------
(* The threads of the dispatch pool.                                       *)

\* dispatch, but for connection::send: a worker moves on and changes the references,
\* and nothing of what the PollMgr, the listener and the destructor have.
LEMMA WorkerFrame ==
    ASSUME ServerInv, crashed = "no", NEW w \in Workers, NEW pc, NEW c \in Conns \cup {None},
           UNCHANGED <<link, inbox, listener, athread, callbacks_, rfds_, wfds_, ready, pending, main>>,
           conn' \in [Conns -> ConnObjects],
           \A j \in Conns : /\ conn'[j].dead = conn[j].dead /\ conn'[j].fd = conn[j].fd
                            /\ conn'[j].st = conn[j].st \/ (conn[j].st = "open" /\ conn'[j].st = "deleted"),
           conns_' \in [Nonces -> Conns \cup {None}],
           \A n \in Nonces : conns_'[n] # None => n = Nonce[conns_'[n]],
           jobq' \in Seq(Conns \cup {None}),
           wpc' = [wpc EXCEPT ![w] = pc], wconn' = [wconn EXCEPT ![w] = c],
           wpc[w] # "remove", pc \in {"idle", "pick", "send", "queued", "blocked", "done", "exit"},
           crashed' \in {"no", "null"},
           crashed' = "no" => (c = None <=> pc \in {"idle", "exit"})
    PROVE  ServerTypeOK' /\ FdOK' /\ ThreadOK' /\ RemoveOK' /\ RoundOK' /\ NoStaleDescriptor'
<1>0. /\ ServerTypeOK /\ FdOK /\ ThreadOK /\ RemoveOK /\ RoundOK
      /\ UNCHANGED <<link, inbox, listener, athread, callbacks_, rfds_, wfds_, ready, pending, main>>
    BY Zenon DEF ServerInv
<1>1. /\ wpc \in [Workers -> {"idle", "pick", "send", "queued", "blocked", "remove", "done", "exit"}]
      /\ wconn \in [Workers -> Conns \cup {None}]
    BY <1>0, Zenon DEF ServerTypeOK
<1>2. /\ wpc' \in [Workers -> {"idle", "pick", "send", "queued", "blocked", "remove", "done", "exit"}]
      /\ wconn' \in [Workers -> Conns \cup {None}]
      /\ wpc'[w] = pc /\ wconn'[w] = c
      /\ \A v \in Workers : v # w => wpc'[v] = wpc[v] /\ wconn'[v] = wconn[v]
    <2>1. pc \in {"idle", "pick", "send", "queued", "blocked", "remove", "done", "exit"}
        OBVIOUS
    <2> QED BY <1>1, <2>1
<1>3. ServerTypeOK'
    BY <1>0, <1>2 DEF ServerTypeOK
<1>4. FdOK'
    <2>1. \A j \in Conns : /\ conn'[j].st = "none" <=> conn[j].st = "none"
                           /\ conn'[j].st = "open" => conn[j].st = "open"
        OBVIOUS
    <2> QED BY <1>0, <2>1, FdFrame, Zenon
<1>5. ThreadOK'
    <2>1. \A g \in DOMAIN listener : listener[g] \in Conns
        BY <1>0, Zenon DEF ServerTypeOK
    <2>2. main.pc \in {"remove", "decref"} => main.it # None /\ conn'[listener[main.it]].dead
        <3>1. main.pc \in {"remove", "decref"} =>
                main.it # None /\ main.it \in DOMAIN listener /\ conn[listener[main.it]].dead
            BY <1>0 DEF ThreadOK
        <3> QED BY <2>1, <3>1, Zenon
    <2>3. athread.pc = "ref" => athread.it # None /\ conn'[listener[athread.it]].dead
        <3>1. athread.pc = "ref" =>
                athread.it # None /\ athread.it \in DOMAIN listener /\ conn[listener[athread.it]].dead
            BY <1>0 DEF ThreadOK
        <3> QED BY <2>1, <3>1, Zenon
    <2>4. crashed' = "no" => \A v \in Workers : wconn'[v] = None <=> wpc'[v] \in {"idle", "exit"}
        BY <1>0, <1>2, Zenon DEF ThreadOK
    <2> QED BY <1>0, <2>2, <2>3, <2>4, SMTT(30) DEF ThreadOK
<1>6. RemoveOK'
    <2>1. \A v \in Workers : /\ wpc'[v] = "remove" <=> wpc[v] = "remove"
                             /\ wpc[v] = "remove" => wconn'[v] = wconn[v]
        BY <1>2
    <2>2. ready'.r \subseteq ready.r /\ pending \subseteq pending' /\ rfds_' \subseteq rfds_
        BY <1>0, Zenon
    <2> QED BY <1>0, <2>1, <2>2, RemoveFrame, Zenon
<1>7. RoundOK'
    BY <1>0, Zenon DEF RoundOK
<1>8. NoStaleDescriptor'
    BY DEF NoStaleDescriptor
<1> QED BY <1>3, <1>4, <1>5, <1>6, <1>7, <1>8, Zenon

\* The pills are still the last jobs when a worker has taken one from the queue.
LEMMA PillTail ==
    ASSUME ServerTypeOK, PillOK, jobq # <<>>, jobq' = Tail(jobq), main' = main,
           NEW w \in Workers, NEW pc, wpc' = [wpc EXCEPT ![w] = pc], wpc[w] = "idle",
           pc = "exit" => Head(jobq) = None
    PROVE  PillOK'
<1>1. /\ jobq \in Seq(Conns \cup {None})
      /\ wpc \in [Workers -> {"idle", "pick", "send", "queued", "blocked", "remove", "done", "exit"}]
    BY Zenon DEF ServerTypeOK
<1>2. /\ Head(jobq) = jobq[1] /\ Len(jobq) \in Nat \ {0} /\ Len(jobq') = Len(jobq) - 1
      /\ \A i \in 1 .. Len(jobq') : jobq'[i] = jobq[i + 1]
    BY <1>1, TailProps, Zenon
<1>3. ASSUME NEW i \in 1 .. Len(jobq'), jobq'[i] = None
      PROVE  main'.pc \in {"pills", "gone"} /\ \A j \in i .. Len(jobq') : jobq'[j] = None
    <2>1. i + 1 \in 1 .. Len(jobq) /\ jobq[i + 1] = None
        BY <1>2, <1>3
    <2>2. main.pc \in {"pills", "gone"} /\ \A j \in (i + 1) .. Len(jobq) : jobq[j] = None
        BY <2>1, Zenon DEF PillOK
    <2>3. ASSUME NEW j \in i .. Len(jobq') PROVE jobq'[j] = None
        <3>1. j \in 1 .. Len(jobq') /\ j + 1 \in (i + 1) .. Len(jobq)
            BY <1>2
        <3> QED BY <1>2, <2>2, <3>1, Zenon
    <2> QED BY <2>2, <2>3, Zenon
<1>4. ASSUME NEW v \in Workers, wpc'[v] = "exit"
      PROVE  main'.pc \in {"pills", "gone"} /\ \A i \in 1 .. Len(jobq') : jobq'[i] = None
    <2>1. main.pc \in {"pills", "gone"} /\ \A i \in 1 .. Len(jobq) : jobq[i] = None
        <3>1. CASE v # w
            <4>1. wpc[v] = "exit"
                BY <1>1, <1>4, <3>1
            <4> QED BY <4>1, Zenon DEF PillOK
        <3>2. CASE v = w
            <4>1. 1 \in 1 .. Len(jobq) /\ jobq[1] = None
                BY <1>1, <1>2, <1>4, <3>2
            <4> QED BY <4>1, Zenon DEF PillOK
        <3> QED BY <3>1, <3>2, Zenon
    <2>2. \A i \in 1 .. Len(jobq') : i + 1 \in 1 .. Len(jobq)
        BY <1>2
    <2> QED BY <1>2, <2>1, <2>2, Zenon
<1>5. main.pc # "gone"
    BY Zenon DEF PillOK
<1> QED BY <1>3, <1>4, <1>5, Zenon DEF PillOK

\* A worker that meets a pill exits: it held nothing.
LEMMA TakePillStep ==
    ASSUME ServerInv, crashed = "no", NEW w \in Workers, TakePill(w)
    PROVE  ServerInv'
<1>0. /\ ServerTypeOK /\ RefOK /\ FdOK /\ ThreadOK /\ PillOK
      /\ wpc[w] = "idle" /\ jobq # <<>> /\ Head(jobq) = None /\ jobq' = Tail(jobq)
      /\ wpc' = [wpc EXCEPT ![w] = "exit"]
      /\ UNCHANGED <<conn, link, inbox, listener, conns_, athread, wconn, main, lost, crashed>>
      /\ UNCHANGED <<callbacks_, rfds_, wfds_, ready, pending>>
    BY Zenon DEF ServerInv, TakePill, pollVars
<1>1. /\ jobq \in Seq(Conns \cup {None}) /\ wconn \in [Workers -> Conns \cup {None}]
      /\ conn \in [Conns -> ConnObjects] /\ conns_ \in [Nonces -> Conns \cup {None}]
    BY <1>0, Zenon DEF ServerTypeOK
<1>2. wconn[w] = None
    BY <1>0, Zenon DEF ThreadOK
<1>3. wconn' = [wconn EXCEPT ![w] = None]
    BY <1>0, <1>1, <1>2
<1>4. PillOK'
    BY <1>0, PillTail, Zenon
<1>5. RefOK'
    <2>1. \A k \in Conns : Cardinality(Jobs(jobq', k)) = Cardinality(Jobs(jobq, k))
        <3> SUFFICES ASSUME NEW k \in Conns
                     PROVE  Cardinality(Jobs(jobq', k)) = Cardinality(Jobs(jobq, k))
            OBVIOUS
        <3>1. One(Head(jobq) = k) = 0
            BY <1>0, ServerLifeAssumption, Zenon DEF One
        <3>2. jobq' \in Seq(Conns \cup {None})
            BY <1>0, <1>1, TailProps, Zenon
        <3>3. Cardinality(Jobs(jobq, k)) = Cardinality(Jobs(jobq', k)) + One(Head(jobq) = k)
            BY <1>0, <1>1, JobsTail
        <3>4. Cardinality(Jobs(jobq', k)) \in Nat
            BY <3>2, JobsFinite, Zenon
        <3> QED BY <3>1, <3>3, <3>4
    <2> QED BY <1>0, <2>1, RefFrame, Zenon DEF Keeps
<1>6. ServerTypeOK' /\ FdOK' /\ ThreadOK' /\ RemoveOK' /\ RoundOK' /\ NoStaleDescriptor'
    <2>1. jobq' \in Seq(Conns \cup {None})
        BY <1>0, <1>1, TailProps, Zenon
    <2>2. \A n \in Nonces : conns_'[n] # None => n = Nonce[conns_'[n]]
        BY <1>0, Zenon DEF FdOK
    <2>3. /\ "exit" \in {"idle", "pick", "send", "queued", "blocked", "done", "exit"}
          /\ None \in Conns \cup {None} /\ wpc[w] # "remove" /\ crashed' \in {"no", "null"}
          /\ (None = None <=> "exit" \in {"idle", "exit"})
        BY <1>0
    <2>4. /\ conn' \in [Conns -> ConnObjects] /\ conns_' \in [Nonces -> Conns \cup {None}]
          /\ \A j \in Conns : conn'[j].dead = conn[j].dead /\ conn'[j].fd = conn[j].fd /\ conn'[j].st = conn[j].st
        BY <1>0, <1>1, Zenon
    <2> QED BY <1>0, <1>3, <2>1, <2>2, <2>3, <2>4, WorkerFrame, Zenon
<1> QED BY <1>4, <1>5, <1>6, Zenon DEF ServerInv

\* The reference of a job becomes the worker's: no connection has more or fewer.
LEMMA JobTaken ==
    ASSUME ServerTypeOK, NEW w \in Workers, wconn[w] = None, jobq # <<>>, Head(jobq) \in Conns,
           jobq' = Tail(jobq), wconn'[w] = Head(jobq),
           SameBut(wconn, wconn', w), NEW j \in Conns
    PROVE  /\ Cardinality(Jobs(jobq', j)) \in Nat /\ Cardinality(Users(wconn', j)) \in Nat
           /\ Cardinality(Jobs(jobq, j)) \in Nat /\ Cardinality(Users(wconn, j)) \in Nat
           /\ Cardinality(Jobs(jobq', j)) + Cardinality(Users(wconn', j))
                = Cardinality(Jobs(jobq, j)) + Cardinality(Users(wconn, j))
<1>1. /\ jobq \in Seq(Conns \cup {None}) /\ wconn \in [Workers -> Conns \cup {None}]
    BY Zenon DEF ServerTypeOK
<1>2. jobq' \in Seq(Conns \cup {None})
    BY <1>1, TailProps, Zenon
<1>3. /\ Cardinality(Jobs(jobq', j)) \in Nat /\ Cardinality(Users(wconn', j)) \in Nat
      /\ Cardinality(Jobs(jobq, j)) \in Nat /\ Cardinality(Users(wconn, j)) \in Nat
    BY <1>1, <1>2, JobsFinite, UsersFinite, Zenon
<1>4. Cardinality(Jobs(jobq, j)) = Cardinality(Jobs(jobq', j)) + One(Head(jobq) = j)
    BY <1>1, JobsTail
<1>5. wconn[w] # j
    BY ServerLifeAssumption, Zenon
<1>7. CASE Head(jobq) = j
    <2>1. One(Head(jobq) = j) = 1
        BY <1>7, Zenon DEF One
    <2>2. Cardinality(Users(wconn', j)) = Cardinality(Users(wconn, j)) + 1
        BY <1>5, <1>7, UsersMore, Zenon
    <2> QED BY <1>3, <1>4, <2>1, <2>2
<1>8. CASE Head(jobq) # j
    <2>1. One(Head(jobq) = j) = 0
        BY <1>8, Zenon DEF One
    <2>2. Cardinality(Users(wconn', j)) = Cardinality(Users(wconn, j))
        BY <1>5, <1>8, UsersSame, Zenon
    <2> QED BY <1>3, <1>4, <2>1, <2>2
<1> QED BY <1>7, <1>8, Zenon

\* The latest connection of a client is saved with a reference, and the one before
\* it gives its reference back.
LEMMA SaveConnRef ==
    ASSUME ServerTypeOK, RefOK, FdOK, ThreadOK, RemoveOK,
           NEW k \in Conns, conn[k].st = "open", SaveConn(Nonce[k], k),
           UNCHANGED <<listener, athread, main, lost>>,
           \A j \in Conns :
              /\ Cardinality(Jobs(jobq', j)) \in Nat /\ Cardinality(Users(wconn', j)) \in Nat
              /\ Cardinality(Jobs(jobq, j)) \in Nat /\ Cardinality(Users(wconn, j)) \in Nat
              /\ Cardinality(Jobs(jobq', j)) + Cardinality(Users(wconn', j))
                   = Cardinality(Jobs(jobq, j)) + Cardinality(Users(wconn, j))
    PROVE  /\ RefOK'
           /\ conn' \in [Conns -> ConnObjects]
           /\ conns_' \in [Nonces -> Conns \cup {None}]
           /\ \A n \in Nonces : conns_'[n] # None => n = Nonce[conns_'[n]]
           /\ \A j \in Conns : /\ conn'[j].dead = conn[j].dead /\ conn'[j].fd = conn[j].fd
                               /\ conn'[j].st = conn[j].st \/ (conn[j].st = "open" /\ conn'[j].st = "deleted")
<1> DEFINE n == Nonce[k]
           o == conns_[n]
           saved == [conns_ EXCEPT ![n] = k]
<1>1. /\ conn \in [Conns -> ConnObjects] /\ conns_ \in [Nonces -> Conns \cup {None}]
      /\ n \in Nonces /\ k # None
    BY ServerLifeAssumption, Zenon DEF ServerTypeOK, Nonces
<1>2. \A j \in Conns : Nonce[j] \in Nonces
    BY Zenon DEF Nonces
<1>3. /\ conns_' \in [Nonces -> Conns \cup {None}]
      /\ conns_'[n] = k
      /\ \A m \in Nonces : m # n => conns_'[m] = conns_[m]
    <2>1. (conns_' = conns_ /\ o = k) \/ conns_' = saved
        BY Zenon DEF SaveConn
    <2> QED BY <1>1, <2>1
<1>4. \A m \in Nonces : conns_'[m] # None => m = Nonce[conns_'[m]]
    BY <1>3, Zenon DEF FdOK
<1>5. \A j \in Conns : /\ ByTable(j)' <=> (j = k \/ (ByTable(j) /\ Nonce[j] # n))
                       /\ ByTable(j) /\ Nonce[j] = n => j = o
                       /\ j = o => ByTable(j) /\ Nonce[j] = n
    <2> SUFFICES ASSUME NEW j \in Conns
                 PROVE  /\ ByTable(j)' <=> (j = k \/ (ByTable(j) /\ Nonce[j] # n))
                        /\ ByTable(j) /\ Nonce[j] = n => j = o
                        /\ j = o => ByTable(j) /\ Nonce[j] = n
        BY Zenon
    <2>1. /\ ByTable(j)' <=> conns_'[Nonce[j]] = j
          /\ ByTable(j) <=> conns_[Nonce[j]] = j
        BY Zenon DEF ByTable
    <2>2. j = o => Nonce[j] = n
        <3>1. \A m \in Nonces : conns_[m] # None => m = Nonce[conns_[m]]
            BY Zenon DEF FdOK
        <3>2. o = conns_[n] /\ n \in Nonces /\ j # None
            BY <1>1, ServerLifeAssumption, Zenon
        <3> HIDE DEF o, n
        <3> QED BY <3>1, <3>2, Zenon
    <2>3. CASE Nonce[j] = n
        BY <1>3, <2>1, <2>2, <2>3, Zenon
    <2>4. CASE Nonce[j] # n
        BY <1>2, <1>3, <2>1, <2>2, <2>4, Zenon
    <2> QED BY <2>3, <2>4, Zenon
<1>6. \A j \in Conns : ByListener(j)' <=> ByListener(j)
    BY Zenon DEF ByListener, Keeps
<1>7. \A j \in Conns : RefGood(conn[j], Holders(j), ByListener(j), j \in lost)
    BY Zenon DEF RefOK
<1>8. \A j \in Conns :
         /\ Holders(j) \in Nat
         /\ Holders(j) >= One(ByListener(j)) + One(ByTable(j))
         /\ Holders(j)' = Holders(j) + One(ByTable(j)') - One(ByTable(j))
    <2> SUFFICES ASSUME NEW j \in Conns
                 PROVE  /\ Holders(j) \in Nat
                        /\ Holders(j) >= One(ByListener(j)) + One(ByTable(j))
                        /\ Holders(j)' = Holders(j) + One(ByTable(j)') - One(ByTable(j))
        OBVIOUS
    <2>1. /\ One(ByListener(j)) \in {0, 1} /\ One(ByTable(j)) \in {0, 1} /\ One(ByTable(j)') \in {0, 1}
          /\ One(ByListener(j)') = One(ByListener(j))
        BY <1>6, Zenon DEF One
    <2>2. /\ Holders(j) = One(ByListener(j)) + One(ByTable(j)) + Cardinality(Jobs(jobq, j))
                            + Cardinality(Users(wconn, j))
          /\ Holders(j)' = One(ByListener(j)') + One(ByTable(j)') + Cardinality(Jobs(jobq', j))
                            + Cardinality(Users(wconn', j))
        BY Zenon DEF Holders, One
    <2> DEFINE a == One(ByListener(j))
               b == One(ByTable(j))
               bb == One(ByTable(j)')
               m == Cardinality(Jobs(jobq, j))
               u == Cardinality(Users(wconn, j))
               mm == Cardinality(Jobs(jobq', j))
               uu == Cardinality(Users(wconn', j))
               h == Holders(j)
               hh == Holders(j)'
    <2>3. a \in {0, 1} /\ b \in {0, 1} /\ bb \in {0, 1}
        BY <2>1, Zenon
    <2>4. m \in Nat /\ u \in Nat /\ mm \in Nat /\ uu \in Nat /\ mm + uu = m + u
        BY Zenon
    <2>5. h = a + b + m + u /\ hh = a + bb + mm + uu
        BY <2>1, <2>2, Zenon
    <2> HIDE DEF a, b, bb, m, u, mm, uu, h, hh
    <2>6. h \in Nat /\ h >= a + b /\ hh = h + bb - b
        BY <2>3, <2>4, <2>5
    <2> QED BY <2>6, Zenon DEF a, b, bb, h, hh
<1>9. CASE o = k
    <2>1. conn' = conn
        BY <1>9, Zenon DEF SaveConn
    <2>2. \A j \in Conns : ByTable(j)' <=> ByTable(j)
        BY <1>5, <1>9, Zenon
    <2>3. \A j \in Conns : Holders(j)' = Holders(j)
        <3> SUFFICES ASSUME NEW j \in Conns PROVE Holders(j)' = Holders(j)
            OBVIOUS
        <3>1. One(ByTable(j)) \in {0, 1} /\ One(ByTable(j)') = One(ByTable(j))
            BY <2>2, Zenon DEF One
        <3> QED BY <1>8, <3>1
    <2>4. RefOK'
        BY <1>6, <1>7, <2>1, <2>3, Zenon DEF RefOK, RefGood
    <2> QED BY <1>1, <1>3, <1>4, <2>1, <2>4, Zenon
<1>10. CASE o # k
    <2> DEFINE D == IF o = None THEN conn ELSE Decref(conn, o)
    <2>1. conn' = Incref(D, k)
        BY <1>10, Zenon DEF SaveConn
    <2>2. /\ D \in [Conns -> ConnObjects]
          /\ \A j \in Conns : /\ D[j].dead = conn[j].dead /\ D[j].fd = conn[j].fd
                              /\ j # o => D[j] = conn[j]
          /\ o # None => /\ o \in Conns /\ D[o].ref = conn[o].ref - 1
                         /\ D[o].st = IF conn[o].ref = 1 /\ conn[o].dead THEN "deleted" ELSE conn[o].st
        <3>1. CASE o = None
            BY <1>1, <3>1, Zenon
        <3>2. CASE o # None
            <4>1. o \in Conns /\ D = Decref(conn, o)
                BY <1>1, <3>2, Zenon
            <4> HIDE DEF o
            <4> QED BY <1>1, <4>1, DecrefProps, Zenon
        <3> QED BY <3>1, <3>2, Zenon
    <2> HIDE DEF D
    <2>3. /\ conn' \in [Conns -> ConnObjects]
          /\ \A j \in Conns : /\ conn'[j].dead = D[j].dead /\ conn'[j].fd = D[j].fd
                              /\ conn'[j].st = D[j].st /\ (j # k => conn'[j] = D[j])
          /\ conn'[k].ref = D[k].ref + 1
        BY <2>1, <2>2, IncrefProps, Zenon
    <2>4. o # None => conn[o].st = "open"
        BY <1>1, <1>5, HeldOpen, Zenon
    <2>5. \A j \in Conns : conn'[j].st = conn[j].st \/ (conn[j].st = "open" /\ conn'[j].st = "deleted")
        <3> SUFFICES ASSUME NEW j \in Conns
                     PROVE  conn'[j].st = conn[j].st \/ (conn[j].st = "open" /\ conn'[j].st = "deleted")
            OBVIOUS
        <3>1. conn'[j].st = D[j].st
            BY <2>3, Zenon
        <3>2. CASE j # o
            BY <2>2, <3>1, <3>2, Zenon
        <3>3. CASE j = o
            <4>1. o # None
                BY <3>3, ServerLifeAssumption, Zenon
            <4> QED BY <2>2, <2>4, <3>1, <3>3, <4>1, Zenon
        <3> QED BY <3>2, <3>3, Zenon
    <2>6. RefOK'
        <3> SUFFICES ASSUME NEW j \in Conns
                     PROVE  RefGood(conn'[j], Holders(j)', ByListener(j)', j \in lost')
            BY Zenon DEF RefOK
        <3>1. conn[j] \in ConnObjects /\ conn'[j] \in ConnObjects /\ conn'[j].dead = conn[j].dead
            BY <1>1, <2>2, <2>3, Zenon
        <3>2. CASE j = k
            <4>1. One(ByTable(j)') = 1 /\ One(ByTable(j)) = 0
                BY <1>5, <1>10, <3>2, Zenon DEF One, ByTable
            <4>2. Holders(j) \in Nat /\ Holders(j)' = Holders(j) + 1
                BY <1>8, <4>1
            <4>3. conn'[j].ref = conn[j].ref + 1 /\ conn'[j].st = conn[j].st /\ conn[j].st = "open"
                BY <1>10, <2>2, <2>3, <3>2, Zenon
            <4>4. RefGood(conn'[j], Holders(j) + 1, ByListener(j), j \in lost)
                BY <1>7, <3>1, <4>2, <4>3, RefTaken, Zenon
            <4> QED BY <1>6, <4>2, <4>4, Zenon DEF RefGood
        <3>3. CASE j # k /\ j = o
            <4>1. One(ByTable(j)') = 0 /\ One(ByTable(j)) = 1 /\ One(ByListener(j)) \in {0, 1}
                BY <1>5, <3>3, Zenon DEF One
            <4>2. Holders(j) \in Nat /\ Holders(j) >= 1 /\ Holders(j)' = Holders(j) - 1
                BY <1>8, <4>1
            <4>3. o # None
                BY <3>3, ServerLifeAssumption, Zenon
            <4>4. conn[j].dead \/ (Holders(j) >= 2 /\ ByListener(j))
                <5>1. conn[j].dead \/ ByListener(j)
                    BY <1>7, <2>4, <3>3, <4>3, Zenon DEF RefGood
                <5>2. ByListener(j) => One(ByListener(j)) = 1
                    BY Zenon DEF One
                <5>3. ByListener(j) => Holders(j) >= 2
                    <6>1. /\ Holders(j) \in Nat /\ Holders(j) >= One(ByListener(j)) + One(ByTable(j))
                        BY <1>8, Zenon
                    <6> DEFINE l == One(ByListener(j))
                               t == One(ByTable(j))
                               h == Holders(j)
                    <6>2. h \in Nat /\ h >= l + t /\ t = 1 /\ (ByListener(j) => l = 1)
                        BY <4>1, <5>2, <6>1, Zenon
                    <6> HIDE DEF l, t, h
                    <6>3. l = 1 => h >= 2
                        BY <6>2, SMTT(20)
                    <6> QED BY <6>2, <6>3, Zenon DEF h
                <5> QED BY <5>1, <5>3, Zenon
            <4>5. /\ conn'[j].ref = conn[j].ref - 1
                  /\ conn'[j].st = IF conn[j].ref = 1 /\ conn[j].dead THEN "deleted" ELSE conn[j].st
                BY <2>2, <2>3, <3>3, <4>3, Zenon
            <4>6. RefGood(conn'[j], Holders(j) - 1, ByListener(j), j \in lost)
                BY <1>7, <3>1, <4>2, <4>4, <4>5, RefGiven
            <4> QED BY <1>6, <4>2, <4>6, Zenon DEF RefGood
        <3>4. CASE j # k /\ j # o
            <4>1. ByTable(j)' <=> ByTable(j)
                BY <1>5, <3>4, Zenon
            <4>2. One(ByTable(j)) \in {0, 1} /\ One(ByTable(j)') = One(ByTable(j))
                BY <4>1, Zenon DEF One
            <4>3. Holders(j)' = Holders(j)
                BY <1>8, <4>2
            <4>4. conn'[j] = conn[j]
                BY <2>2, <2>3, <3>4, Zenon
            <4> QED BY <1>6, <1>7, <4>3, <4>4, Zenon DEF RefGood
        <3> QED BY <3>2, <3>3, <3>4, Zenon
    <2> QED BY <1>3, <1>4, <2>2, <2>3, <2>5, <2>6, ZenonT(40)
<1> QED BY <1>9, <1>10, Zenon

\* A step that changes nothing but who has the same number of references.
LEMMA RefSame ==
    ASSUME RefOK, UNCHANGED <<conn, conns_, listener, athread, main, lost>>,
           \A j \in Conns :
              /\ Cardinality(Jobs(jobq', j)) \in Nat /\ Cardinality(Users(wconn', j)) \in Nat
              /\ Cardinality(Jobs(jobq, j)) \in Nat /\ Cardinality(Users(wconn, j)) \in Nat
              /\ Cardinality(Jobs(jobq', j)) + Cardinality(Users(wconn', j))
                   = Cardinality(Jobs(jobq, j)) + Cardinality(Users(wconn, j))
    PROVE  RefOK'
<1> SUFFICES ASSUME NEW j \in Conns
             PROVE  RefGood(conn'[j], Holders(j)', ByListener(j)', j \in lost')
    BY Zenon DEF RefOK
<1>1. (ByListener(j)' <=> ByListener(j)) /\ (ByTable(j)' <=> ByTable(j))
    BY Zenon DEF ByListener, ByTable, Keeps
<1>2. /\ One(ByListener(j)) \in {0, 1} /\ One(ByTable(j)) \in {0, 1}
      /\ One(ByListener(j)') = One(ByListener(j)) /\ One(ByTable(j)') = One(ByTable(j))
    BY <1>1, Zenon DEF One
<1>3. /\ Holders(j) = One(ByListener(j)) + One(ByTable(j)) + Cardinality(Jobs(jobq, j))
                        + Cardinality(Users(wconn, j))
      /\ Holders(j)' = One(ByListener(j)') + One(ByTable(j)') + Cardinality(Jobs(jobq', j))
                        + Cardinality(Users(wconn', j))
    BY Zenon DEF Holders, One
<1>4. Holders(j)' = Holders(j)
    BY <1>2, <1>3
<1> QED BY <1>1, <1>4, Zenon DEF RefOK, RefGood

\* A worker takes a job, whose reference is now its own.
LEMMA TakeJobStep ==
    ASSUME ServerInv, crashed = "no", NEW w \in Workers, TakeJob(w)
    PROVE  ServerInv'
<1> DEFINE k == Head(jobq)
<1>0. /\ ServerTypeOK /\ RefOK /\ FdOK /\ ThreadOK /\ RemoveOK /\ PillOK
      /\ wpc[w] = "idle" /\ jobq # <<>> /\ k # None /\ jobq' = Tail(jobq)
      /\ wconn' = [wconn EXCEPT ![w] = k]
      /\ UNCHANGED <<link, inbox, listener, athread, main, lost, crashed>>
      /\ UNCHANGED <<callbacks_, rfds_, wfds_, ready, pending>>
    BY Zenon DEF ServerInv, TakeJob, pollVars
<1>1. PICK pc \in {"pick", "send", "done"} :
         /\ wpc' = [wpc EXCEPT ![w] = pc]
         /\ UNCHANGED <<conn, conns_>> \/ SaveConn(Nonce[k], k)
    BY Zenon DEF TakeJob
<1>2. /\ jobq \in Seq(Conns \cup {None}) /\ wconn \in [Workers -> Conns \cup {None}]
      /\ conn \in [Conns -> ConnObjects] /\ conns_ \in [Nonces -> Conns \cup {None}]
    BY <1>0, Zenon DEF ServerTypeOK
<1>3. k \in Conns /\ jobq' \in Seq(Conns \cup {None})
    <2>1. Tail(jobq) \in Seq(Conns \cup {None}) /\ k = jobq[1] /\ jobq[1] \in Conns \cup {None}
        BY <1>0, <1>2, TailProps, Zenon
    <2> HIDE DEF k
    <2> QED BY <1>0, <2>1, Zenon
<1>4. wconn[w] = None /\ wconn'[w] = k /\ SameBut(wconn, wconn', w)
    <2>1. wconn[w] = None
        BY <1>0, Zenon DEF ThreadOK
    <2> HIDE DEF k
    <2> QED BY <1>0, <1>2, <2>1 DEF SameBut
<1>5. \A j \in Conns :
         /\ Cardinality(Jobs(jobq', j)) \in Nat /\ Cardinality(Users(wconn', j)) \in Nat
         /\ Cardinality(Jobs(jobq, j)) \in Nat /\ Cardinality(Users(wconn, j)) \in Nat
         /\ Cardinality(Jobs(jobq', j)) + Cardinality(Users(wconn', j))
              = Cardinality(Jobs(jobq, j)) + Cardinality(Users(wconn, j))
    BY <1>0, <1>3, <1>4, JobTaken, Zenon
<1>6. conn[k].st = "open"
    <2>1. 1 \in Jobs(jobq, k)
        <3>1. Head(jobq) = jobq[1] /\ Len(jobq) \in Nat \ {0}
            BY <1>0, <1>2, TailProps, Zenon
        <3>2. 1 \in 1 .. Len(jobq)
            BY <3>1
        <3> QED BY <3>1, <3>2, Zenon DEF Jobs
    <2> HIDE DEF k
    <2> QED BY <1>0, <1>3, <2>1, HeldOpen, Zenon
<1> HIDE DEF k
<1>7. /\ RefOK'
      /\ conn' \in [Conns -> ConnObjects]
      /\ conns_' \in [Nonces -> Conns \cup {None}]
      /\ \A n \in Nonces : conns_'[n] # None => n = Nonce[conns_'[n]]
      /\ \A j \in Conns : /\ conn'[j].dead = conn[j].dead /\ conn'[j].fd = conn[j].fd
                          /\ conn'[j].st = conn[j].st \/ (conn[j].st = "open" /\ conn'[j].st = "deleted")
    <2>1. CASE UNCHANGED <<conn, conns_>>
        <3>1. RefOK'
            BY <1>0, <1>5, <2>1, RefSame, Zenon
        <3>2. \A n \in Nonces : conns_'[n] # None => n = Nonce[conns_'[n]]
            BY <1>0, <2>1, Zenon DEF FdOK
        <3> QED BY <1>2, <2>1, <3>1, <3>2, Zenon
    <2>2. CASE SaveConn(Nonce[k], k)
        BY <1>0, <1>3, <1>5, <1>6, <2>2, SaveConnRef, Zenon
    <2> QED BY <1>1, <2>1, <2>2, Zenon
<1>8. PillOK'
    <2>1. pc # "exit"
        OBVIOUS
    <2> QED BY <1>0, <1>1, <2>1, PillTail, Zenon
<1>9. ServerTypeOK' /\ FdOK' /\ ThreadOK' /\ RemoveOK' /\ RoundOK' /\ NoStaleDescriptor'
    <2>1. /\ pc \in {"idle", "pick", "send", "queued", "blocked", "done", "exit"}
          /\ pc \notin {"idle", "exit"} /\ wpc[w] # "remove" /\ k \in Conns \cup {None}
          /\ crashed' \in {"no", "null"}
        BY <1>0, <1>3
    <2>2. k = None <=> pc \in {"idle", "exit"}
        BY <1>0, <2>1, Zenon
    <2> QED BY <1>0, <1>1, <1>3, <1>7, <2>1, <2>2, WorkerFrame, Zenon
<1> QED BY <1>7, <1>8, <1>9, Zenon DEF ServerInv

\* What a worker that exchanges or gives up its connection changes in the holders.
LEMMA HoldersUsers ==
    ASSUME ServerTypeOK, UNCHANGED <<conns_, listener, athread, main, jobq>>, NEW j \in Conns
    PROVE  /\ ByListener(j)' <=> ByListener(j)
           /\ Holders(j) \in Nat
           /\ Holders(j)' + Cardinality(Users(wconn, j)) = Holders(j) + Cardinality(Users(wconn', j))
           /\ Cardinality(Users(wconn, j)) \in Nat /\ Cardinality(Users(wconn', j)) \in Nat
           /\ Holders(j)' \in Nat
           /\ Holders(j) >= Cardinality(Users(wconn, j))
           /\ ByListener(j) => Holders(j) >= Cardinality(Users(wconn, j)) + 1
           /\ ByTable(j) => Holders(j) >= Cardinality(Users(wconn, j)) + 1
<1>1. (ByListener(j)' <=> ByListener(j)) /\ (ByTable(j)' <=> ByTable(j))
    BY Zenon DEF ByListener, ByTable, Keeps
<1>2. /\ One(ByListener(j)) \in {0, 1} /\ One(ByTable(j)) \in {0, 1}
      /\ One(ByListener(j)') = One(ByListener(j)) /\ One(ByTable(j)') = One(ByTable(j))
      /\ ByListener(j) => One(ByListener(j)) = 1
      /\ ByTable(j) => One(ByTable(j)) = 1
    BY <1>1, Zenon DEF One
<1>3. /\ Holders(j) = One(ByListener(j)) + One(ByTable(j)) + Cardinality(Jobs(jobq, j))
                        + Cardinality(Users(wconn, j))
      /\ Holders(j)' = One(ByListener(j)') + One(ByTable(j)') + Cardinality(Jobs(jobq, j))
                        + Cardinality(Users(wconn', j))
    BY Zenon DEF Holders, One
<1>4. /\ Cardinality(Jobs(jobq, j)) \in Nat
      /\ Cardinality(Users(wconn, j)) \in Nat /\ Cardinality(Users(wconn', j)) \in Nat
    BY JobsFinite, UsersFinite, Zenon DEF ServerTypeOK
<1> DEFINE l == One(ByListener(j))
           t == One(ByTable(j))
           m == Cardinality(Jobs(jobq, j))
           u == Cardinality(Users(wconn, j))
           v == Cardinality(Users(wconn', j))
           h == Holders(j)
           hh == Holders(j)'
<1>5. /\ l \in {0, 1} /\ t \in {0, 1} /\ m \in Nat /\ u \in Nat /\ v \in Nat
      /\ h = l + t + m + u /\ hh = l + t + m + v
    BY <1>2, <1>3, <1>4, Zenon
<1>6. (ByListener(j) => l = 1) /\ (ByTable(j) => t = 1)
    BY <1>2, Zenon
<1> HIDE DEF l, t, m, u, v, h, hh
<1>7. /\ h \in Nat /\ hh \in Nat /\ hh + u = h + v /\ h >= u
      /\ l = 1 => h >= u + 1
      /\ t = 1 => h >= u + 1
    BY <1>5
<1> QED BY <1>1, <1>4, <1>6, <1>7, Zenon DEF h, hh, u, v

\* When the connection of the request is dead the worker gives it up for the latest one.
LEMMA PickConnStep ==
    ASSUME ServerInv, crashed = "no", NEW w \in Workers, PickConn(w)
    PROVE  ServerInv'
<1> DEFINE k == wconn[w]
           latest == conns_[Nonce[k]]
<1>0. /\ ServerTypeOK /\ RefOK /\ FdOK /\ ThreadOK /\ RemoveOK /\ PillOK
      /\ wpc[w] = "pick"
      /\ UNCHANGED <<link, inbox, listener, conns_, athread, jobq, main, lost>>
      /\ UNCHANGED <<callbacks_, rfds_, wfds_, ready, pending>>
    BY Zenon DEF ServerInv, PickConn, pollVars
<1>1. /\ jobq \in Seq(Conns \cup {None}) /\ wconn \in [Workers -> Conns \cup {None}]
      /\ conn \in [Conns -> ConnObjects] /\ conns_ \in [Nonces -> Conns \cup {None}]
      /\ wpc \in [Workers -> {"idle", "pick", "send", "queued", "blocked", "remove", "done", "exit"}]
    BY <1>0, Zenon DEF ServerTypeOK
<1>2. k \in Conns /\ k # None
    <2>1. k # None
        BY <1>0 DEF ThreadOK
    <2> QED BY <1>1, <2>1, Zenon
<1>3. latest \in Conns \cup {None} /\ Nonce[k] \in Nonces
    BY <1>1, <1>2, Zenon DEF Nonces
<1>4. latest # None => Nonce[latest] = Nonce[k]
    <2>1. \A n \in Nonces : conns_[n] # None => n = Nonce[conns_[n]]
        BY <1>0, Zenon DEF FdOK
    <2> QED BY <1>3, <2>1, Zenon
<1>5. \A n \in Nonces : conns_'[n] # None => n = Nonce[conns_'[n]]
    BY <1>0, Zenon DEF FdOK
<1>6. \/ /\ ~conn[k].dead \/ latest = k
         /\ wpc' = [wpc EXCEPT ![w] = "send"] /\ UNCHANGED <<conn, wconn, crashed>>
      \/ /\ conn[k].dead /\ latest # k /\ latest # None
         /\ conn' = Incref(Decref(conn, k), latest)
         /\ wconn' = [wconn EXCEPT ![w] = latest]
         /\ wpc' = [wpc EXCEPT ![w] = "send"] /\ crashed' = crashed
      \/ /\ conn[k].dead /\ latest = None /\ conn' = Decref(conn, k)
         /\ wconn' = [wconn EXCEPT ![w] = latest] /\ crashed' = "null" /\ wpc' = wpc
    BY DEF PickConn
<1>7. conn[k].st = "open" /\ (latest # None => conn[latest].st = "open")
    <2>1. w \in Users(wconn, k)
        BY Zenon DEF Users
    <2>2. latest # None => latest \in Conns /\ ByTable(latest)
        BY <1>3, <1>4, Zenon DEF ByTable
    <2> HIDE DEF k, latest
    <2> QED BY <1>0, <1>2, <2>1, <2>2, HeldOpen, Zenon
<1>8. PillOK'
    <2>1. \A v \in Workers : wpc'[v] = "exit" <=> wpc[v] = "exit"
        BY <1>0, <1>1, <1>6
    <2> QED BY <1>0, <2>1, Zenon DEF PillOK
<1>9. k = wconn[w]
    OBVIOUS
<1> HIDE DEF k, latest
<1>10. CASE wpc' = [wpc EXCEPT ![w] = "send"] /\ UNCHANGED <<conn, wconn, crashed>>
    <2>1. RefOK'
        BY <1>0, <1>10, ZenonT(40) DEF RefOK, RefGood, Holders, ByListener, ByTable, Keeps
    <2>2. /\ wconn' = [wconn EXCEPT ![w] = k] /\ k \in Conns \cup {None}
          /\ "send" \in {"idle", "pick", "send", "queued", "blocked", "done", "exit"}
          /\ crashed' \in {"no", "null"} /\ wpc[w] # "remove"
          /\ k = None <=> "send" \in {"idle", "exit"}
        BY <1>0, <1>1, <1>2, <1>9, <1>10
    <2>3. /\ conn' \in [Conns -> ConnObjects] /\ conns_' \in [Nonces -> Conns \cup {None}]
          /\ jobq' \in Seq(Conns \cup {None})
          /\ \A j \in Conns : conn'[j].dead = conn[j].dead /\ conn'[j].fd = conn[j].fd /\ conn'[j].st = conn[j].st
        BY <1>0, <1>1, <1>10, Zenon
    <2>4. ServerTypeOK' /\ FdOK' /\ ThreadOK' /\ RemoveOK' /\ RoundOK' /\ NoStaleDescriptor'
        BY <1>0, <1>5, <1>10, <2>2, <2>3, WorkerFrame, Zenon
    <2> QED BY <1>8, <2>1, <2>4, Zenon DEF ServerInv
<1>11. CASE /\ conn[k].dead /\ latest # k
            /\ conn' = IF latest = None THEN Decref(conn, k) ELSE Incref(Decref(conn, k), latest)
            /\ wconn' = [wconn EXCEPT ![w] = latest]
            /\ \/ latest # None /\ wpc' = [wpc EXCEPT ![w] = "send"] /\ crashed' = "no"
               \/ latest = None /\ wpc' = [wpc EXCEPT ![w] = "pick"] /\ crashed' = "null"
    <2> DEFINE D == Decref(conn, k)
    <2>1. /\ D \in [Conns -> ConnObjects]
          /\ \A j \in Conns : D[j].dead = conn[j].dead /\ D[j].fd = conn[j].fd /\ (j # k => D[j] = conn[j])
          /\ D[k].ref = conn[k].ref - 1
          /\ D[k].st = IF conn[k].ref = 1 /\ conn[k].dead THEN "deleted" ELSE conn[k].st
        BY <1>1, <1>2, DecrefProps, Zenon
    <2>2. conn' = IF latest = None THEN D ELSE Incref(D, latest)
        BY <1>11, Zenon
    <2> HIDE DEF D
    <2>3. /\ conn' \in [Conns -> ConnObjects]
          /\ \A j \in Conns : /\ conn'[j].dead = D[j].dead /\ conn'[j].fd = D[j].fd
                              /\ conn'[j].st = D[j].st /\ (j # latest => conn'[j] = D[j])
          /\ latest # None => conn'[latest].ref = D[latest].ref + 1
        <3>1. CASE latest = None
            BY <2>1, <2>2, <3>1, Zenon
        <3>2. CASE latest # None
            <4>1. latest \in Conns /\ conn' = Incref(D, latest)
                BY <1>3, <2>2, <3>2, Zenon
            <4> QED BY <2>1, <4>1, IncrefProps, Zenon
        <3> QED BY <3>1, <3>2, Zenon
    <2>4. \A j \in Conns : /\ conn'[j].dead = conn[j].dead /\ conn'[j].fd = conn[j].fd
                           /\ conn'[j].st = conn[j].st \/ (conn[j].st = "open" /\ conn'[j].st = "deleted")
        <3> SUFFICES ASSUME NEW j \in Conns
                     PROVE  /\ conn'[j].dead = conn[j].dead /\ conn'[j].fd = conn[j].fd
                            /\ conn'[j].st = conn[j].st \/ (conn[j].st = "open" /\ conn'[j].st = "deleted")
            OBVIOUS
        <3>1. CASE j = k
            BY <1>2, <1>7, <2>1, <2>3, <3>1, Zenon
        <3>2. CASE j # k
            BY <2>1, <2>3, <3>2, Zenon
        <3> QED BY <3>1, <3>2, Zenon
    <2>5. wconn'[w] = latest /\ SameBut(wconn, wconn', w) /\ latest # k
        BY <1>1, <1>11 DEF SameBut
    <2>6. RefOK'
        <3> SUFFICES ASSUME NEW j \in Conns
                     PROVE  RefGood(conn'[j], Holders(j)', ByListener(j)', j \in lost')
            BY Zenon DEF RefOK
        <3>1. /\ RefGood(conn[j], Holders(j), ByListener(j), j \in lost)
              /\ conn[j] \in ConnObjects /\ conn'[j] \in ConnObjects /\ conn'[j].dead = conn[j].dead
            <4>1. RefGood(conn[j], Holders(j), ByListener(j), j \in lost)
                BY <1>0, Zenon DEF RefOK
            <4>2. conn[j] \in ConnObjects /\ conn'[j] \in ConnObjects
                BY <1>1, <2>3, Zenon
            <4> QED BY <2>4, <4>1, <4>2, Zenon
        <3>2. /\ ByListener(j)' <=> ByListener(j)
              /\ Holders(j) \in Nat /\ Holders(j)' \in Nat
              /\ Holders(j)' + Cardinality(Users(wconn, j)) = Holders(j) + Cardinality(Users(wconn', j))
              /\ Cardinality(Users(wconn, j)) \in Nat /\ Cardinality(Users(wconn', j)) \in Nat
              /\ Holders(j) >= Cardinality(Users(wconn, j))
            BY <1>0, HoldersUsers, Zenon
        <3>3. CASE j = k
            <4>1. Cardinality(Users(wconn, j)) = Cardinality(Users(wconn', j)) + 1
                <5>1. wconn[w] = j /\ wconn'[w] # j
                    BY <1>9, <2>5, <3>3, Zenon
                <5> QED BY <2>5, <5>1, UsersLess
            <4>2. Holders(j) >= 1 /\ Holders(j)' = Holders(j) - 1
                BY <3>2, <4>1
            <4>3. /\ conn'[j].ref = conn[j].ref - 1
                  /\ conn'[j].st = IF conn[j].ref = 1 /\ conn[j].dead THEN "deleted" ELSE conn[j].st
                BY <1>11, <2>1, <2>3, <3>3, Zenon
            <4>4. RefGood(conn'[j], Holders(j) - 1, ByListener(j), j \in lost)
                BY <1>11, <3>1, <3>2, <3>3, <4>2, <4>3, RefGiven
            <4> QED BY <1>0, <3>2, <4>2, <4>4, Zenon DEF RefGood
        <3>4. CASE j # k /\ j = latest
            <4>1. Cardinality(Users(wconn', j)) = Cardinality(Users(wconn, j)) + 1
                BY <1>9, <2>5, <3>4, UsersMore, Zenon
            <4>2. Holders(j)' = Holders(j) + 1
                BY <3>2, <4>1
            <4>3. latest # None
                BY <3>4, ServerLifeAssumption, Zenon
            <4>4. conn'[j].ref = conn[j].ref + 1 /\ conn'[j].st = conn[j].st /\ conn[j].st = "open"
                BY <1>7, <2>1, <2>3, <3>4, <4>3, Zenon
            <4>5. RefGood(conn'[j], Holders(j) + 1, ByListener(j), j \in lost)
                BY <3>1, <3>2, <4>4, RefTaken, Zenon
            <4> QED BY <1>0, <3>2, <4>2, <4>5, Zenon DEF RefGood
        <3>5. CASE j # k /\ j # latest
            <4>1. Cardinality(Users(wconn', j)) = Cardinality(Users(wconn, j))
                BY <1>9, <2>5, <3>5, UsersSame, Zenon
            <4>2. Holders(j)' = Holders(j)
                BY <3>2, <4>1
            <4>3. conn'[j] = conn[j]
                BY <2>1, <2>3, <3>5, Zenon
            <4> QED BY <1>0, <3>1, <3>2, <4>2, <4>3, Zenon DEF RefGood
        <3> QED BY <3>3, <3>4, <3>5, Zenon
    <2>7. ServerTypeOK' /\ FdOK' /\ ThreadOK' /\ RemoveOK' /\ RoundOK' /\ NoStaleDescriptor'
        <3>1. PICK pc \in {"send", "pick"} :
                 /\ wpc' = [wpc EXCEPT ![w] = pc] /\ crashed' \in {"no", "null"}
                 /\ crashed' = "no" => latest # None
            BY <1>11
        <3>2. /\ pc \in {"idle", "pick", "send", "queued", "blocked", "done", "exit"}
              /\ pc \notin {"idle", "exit"} /\ wpc[w] # "remove"
            BY <1>0
        <3>3. crashed' = "no" => (latest = None <=> pc \in {"idle", "exit"})
            BY <3>1, <3>2, Zenon
        <3>4. conns_' \in [Nonces -> Conns \cup {None}] /\ jobq' \in Seq(Conns \cup {None})
            BY <1>0, <1>1, Zenon
        <3>5. wconn' = [wconn EXCEPT ![w] = latest]
            BY <1>11, Zenon
        <3>6. UNCHANGED <<link, inbox, listener, athread, callbacks_, rfds_, wfds_, ready, pending, main>>
            BY <1>0, Zenon
        <3>7. conn' \in [Conns -> ConnObjects]
            BY <2>3, Zenon
        <3>8. wpc' = [wpc EXCEPT ![w] = pc] /\ crashed' \in {"no", "null"}
            BY <3>1, Zenon
        <3> QED BY <1>3, <1>5, <2>4, <3>2, <3>3, <3>4, <3>5, <3>6, <3>7, <3>8, WorkerFrame, Zenon
    <2> QED BY <1>8, <2>6, <2>7, Zenon DEF ServerInv
<1>12. wpc = [wpc EXCEPT ![w] = "pick"]
    BY <1>0, <1>1
<1> QED BY <1>2, <1>6, <1>10, <1>11, <1>12, Zenon

\* dispatch returns and gives its reference back, or loses it.
LEMMA DoneStep ==
    ASSUME ServerInv, crashed = "no", NEW w \in Workers, Done(w)
    PROVE  ServerInv'
<1> DEFINE k == wconn[w]
<1>0. /\ ServerTypeOK /\ RefOK /\ FdOK /\ ThreadOK /\ RemoveOK /\ PillOK
      /\ wpc[w] = "done" /\ wpc' = [wpc EXCEPT ![w] = "idle"] /\ wconn' = [wconn EXCEPT ![w] = None]
      /\ UNCHANGED <<link, inbox, listener, conns_, athread, jobq, main, crashed>>
      /\ UNCHANGED <<callbacks_, rfds_, wfds_, ready, pending>>
    BY Zenon DEF ServerInv, Done, pollVars
<1>1. /\ jobq \in Seq(Conns \cup {None}) /\ wconn \in [Workers -> Conns \cup {None}]
      /\ conn \in [Conns -> ConnObjects] /\ conns_ \in [Nonces -> Conns \cup {None}]
      /\ wpc \in [Workers -> {"idle", "pick", "send", "queued", "blocked", "remove", "done", "exit"}]
    BY <1>0, Zenon DEF ServerTypeOK
<1>2. k \in Conns /\ k # None
    <2>1. k # None
        BY <1>0 DEF ThreadOK
    <2> QED BY <1>1, <2>1, Zenon
<1>3. conn[k].st = "open"
    <2>1. w \in Users(wconn, k)
        BY Zenon DEF Users
    <2> HIDE DEF k
    <2> QED BY <1>0, <1>2, <2>1, HeldOpen, Zenon
<1>4. wconn[w] = k /\ wconn'[w] = None /\ SameBut(wconn, wconn', w)
    BY <1>0, <1>1 DEF SameBut
<1>5. \/ lost' = lost \cup {k} /\ conn' = conn
      \/ lost' = lost /\ conn' = Decref(conn, k)
    BY Zenon DEF Done
<1> HIDE DEF k
<1>6. /\ conn' \in [Conns -> ConnObjects]
      /\ \A j \in Conns : conn'[j].dead = conn[j].dead /\ conn'[j].fd = conn[j].fd /\ (j # k => conn'[j] = conn[j])
      /\ \/ conn'[k] = conn[k] /\ k \in lost'
         \/ /\ conn'[k].ref = conn[k].ref - 1 /\ lost' = lost
            /\ conn'[k].st = IF conn[k].ref = 1 /\ conn[k].dead THEN "deleted" ELSE conn[k].st
    <2>1. CASE lost' = lost \cup {k} /\ conn' = conn
        BY <1>1, <2>1, Zenon
    <2>2. CASE lost' = lost /\ conn' = Decref(conn, k)
        BY <1>1, <1>2, <2>2, DecrefProps, Zenon
    <2> QED BY <1>5, <2>1, <2>2, Zenon
<1>7. \A j \in Conns : /\ conn'[j].dead = conn[j].dead /\ conn'[j].fd = conn[j].fd
                       /\ conn'[j].st = conn[j].st \/ (conn[j].st = "open" /\ conn'[j].st = "deleted")
    <2> SUFFICES ASSUME NEW j \in Conns
                 PROVE  /\ conn'[j].dead = conn[j].dead /\ conn'[j].fd = conn[j].fd
                        /\ conn'[j].st = conn[j].st \/ (conn[j].st = "open" /\ conn'[j].st = "deleted")
        OBVIOUS
    <2>1. CASE j = k
        BY <1>2, <1>3, <1>6, <2>1, Zenon
    <2>2. CASE j # k
        BY <1>6, <2>2, Zenon
    <2> QED BY <2>1, <2>2, Zenon
<1>8. RefOK'
    <2> SUFFICES ASSUME NEW j \in Conns
                 PROVE  RefGood(conn'[j], Holders(j)', ByListener(j)', j \in lost')
        BY Zenon DEF RefOK
    <2>1. RefGood(conn[j], Holders(j), ByListener(j), j \in lost)
        BY <1>0, Zenon DEF RefOK
    <2>2. conn[j] \in ConnObjects /\ conn'[j] \in ConnObjects /\ conn'[j].dead = conn[j].dead
        BY <1>1, <1>6, Zenon
    <2>3. /\ ByListener(j)' <=> ByListener(j)
          /\ Holders(j) \in Nat /\ Holders(j)' \in Nat
          /\ Holders(j)' + Cardinality(Users(wconn, j)) = Holders(j) + Cardinality(Users(wconn', j))
          /\ Cardinality(Users(wconn, j)) \in Nat /\ Cardinality(Users(wconn', j)) \in Nat
          /\ Holders(j) >= Cardinality(Users(wconn, j))
          /\ ByListener(j) => Holders(j) >= Cardinality(Users(wconn, j)) + 1
        BY <1>0, HoldersUsers, Zenon
    <2>4. CASE j = k
        <3>1. Cardinality(Users(wconn, j)) = Cardinality(Users(wconn', j)) + 1
            <4>1. wconn[w] = j /\ wconn'[w] # j
                BY <1>2, <1>4, <2>4, Zenon
            <4> QED BY <1>4, <4>1, UsersLess
        <3>2. /\ Holders(j) >= 1 /\ Holders(j)' = Holders(j) - 1
              /\ ByListener(j) => Holders(j) >= 2
            <4> DEFINE h == Holders(j)
                       hh == Holders(j)'
                       u == Cardinality(Users(wconn, j))
                       v == Cardinality(Users(wconn', j))
            <4>1. /\ h \in Nat /\ hh \in Nat /\ hh + u = h + v /\ u \in Nat /\ v \in Nat /\ h >= u /\ u = v + 1
                  /\ ByListener(j) => h >= u + 1
                BY <2>3, <3>1, Zenon
            <4> HIDE DEF h, hh, u, v
            <4>2. h >= 1 /\ hh = h - 1 /\ (h >= u + 1 => h >= 2)
                BY <4>1
            <4> QED BY <4>1, <4>2, Zenon DEF h, hh
        <3>3. CASE conn'[k] = conn[k] /\ k \in lost'
            <4> DEFINE c == conn[j]
            <4>1. conn'[j] = c /\ j \in lost' /\ RefGood(c, Holders(j), ByListener(j), j \in lost) /\ c \in ConnObjects
                BY <2>1, <2>2, <2>4, <3>3, Zenon
            <4> HIDE DEF c
            <4>2. c.ref \in Int /\ c.ref >= Holders(j)
                BY <4>1 DEF ConnObjects, RefGood
            <4>3. c.ref >= Holders(j)'
                BY <2>3, <3>2, <4>2
            <4> QED BY <2>3, <4>1, <4>3, Zenon DEF RefGood
        <3>4. CASE /\ conn'[k].ref = conn[k].ref - 1 /\ lost' = lost
                   /\ conn'[k].st = IF conn[k].ref = 1 /\ conn[k].dead THEN "deleted" ELSE conn[k].st
            <4>1. conn[j].dead \/ (Holders(j) >= 2 /\ ByListener(j))
                BY <1>3, <2>1, <2>4, <3>2, Zenon DEF RefGood
            <4>2. RefGood(conn'[j], Holders(j) - 1, ByListener(j), j \in lost)
                BY <2>1, <2>2, <2>3, <2>4, <3>2, <3>4, <4>1, RefGiven
            <4> QED BY <2>3, <3>2, <3>4, <4>2, Zenon DEF RefGood
        <3> QED BY <1>6, <3>3, <3>4, Zenon
    <2>5. CASE j # k
        <3>1. Cardinality(Users(wconn', j)) = Cardinality(Users(wconn, j))
            <4>1. wconn[w] # j /\ wconn'[w] # j
                BY <1>4, <2>5, ServerLifeAssumption, Zenon
            <4> QED BY <1>4, <4>1, UsersSame, Zenon
        <3>2. Holders(j)' = Holders(j)
            BY <2>3, <3>1
        <3>3. conn'[j] = conn[j] /\ (j \in lost' <=> j \in lost)
            BY <1>5, <1>6, <2>5, Zenon
        <3> DEFINE c == conn[j]
        <3>4. RefGood(c, Holders(j)', ByListener(j), j \in lost) /\ conn'[j] = c
            BY <2>1, <3>2, <3>3, Zenon
        <3>5. ByListener(j)' <=> ByListener(j)
            BY <2>3, Zenon
        <3> HIDE DEF c
        <3> QED BY <3>3, <3>4, <3>5, Zenon DEF RefGood
    <2> QED BY <2>4, <2>5, Zenon
<1>9. PillOK'
    <2>1. \A v \in Workers : wpc'[v] = "exit" <=> wpc[v] = "exit"
        BY <1>0, <1>1
    <2> QED BY <1>0, <2>1, Zenon DEF PillOK
<1>10. ServerTypeOK' /\ FdOK' /\ ThreadOK' /\ RemoveOK' /\ RoundOK' /\ NoStaleDescriptor'
    <2>1. \A n \in Nonces : conns_'[n] # None => n = Nonce[conns_'[n]]
        BY <1>0, Zenon DEF FdOK
    <2>2. /\ "idle" \in {"idle", "pick", "send", "queued", "blocked", "done", "exit"}
          /\ None \in Conns \cup {None} /\ wpc[w] # "remove" /\ crashed' \in {"no", "null"}
          /\ (None = None <=> "idle" \in {"idle", "exit"})
        BY <1>0
    <2>3. conns_' \in [Nonces -> Conns \cup {None}] /\ jobq' \in Seq(Conns \cup {None})
        BY <1>0, <1>1, Zenon
    <2> QED BY <1>0, <1>6, <1>7, <2>1, <2>2, <2>3, WorkerFrame, Zenon
<1> QED BY <1>8, <1>9, <1>10, Zenon DEF ServerInv

\* connection::send.  A send that blocks watches a descriptor that has no other
\* connection's callback; one that fails kills the connection and waits for the round.
LEMMA SendStep ==
    ASSUME ServerInv, crashed = "no", NEW w \in Workers, Send(w)
    PROVE  ServerInv'
<1> DEFINE k == wconn[w]
           f == conn[k].fd
<1>0. /\ ServerTypeOK /\ RefOK /\ FdOK /\ ThreadOK /\ RemoveOK /\ RoundOK /\ PillOK /\ NoStaleDescriptor
      /\ wpc[w] = "send"
      /\ UNCHANGED <<link, inbox, listener, conns_, athread, ready, jobq, wconn, main, lost>>
    BY Zenon DEF ServerInv, Send
<1>1. /\ jobq \in Seq(Conns \cup {None}) /\ wconn \in [Workers -> Conns \cup {None}]
      /\ conn \in [Conns -> ConnObjects] /\ conns_ \in [Nonces -> Conns \cup {None}]
      /\ wpc \in [Workers -> {"idle", "pick", "send", "queued", "blocked", "remove", "done", "exit"}]
      /\ callbacks_ \in [Fds -> Conns \cup {None}] /\ rfds_ \subseteq Fds /\ wfds_ \subseteq Fds
    BY <1>0, Zenon DEF ServerTypeOK
<1>2. k \in Conns /\ k # None
    <2>1. k # None
        BY <1>0 DEF ThreadOK
    <2> QED BY <1>1, <2>1, Zenon
<1>3. conn[k].st = "open" /\ f \in Fds
    <2>1. w \in Users(wconn, k)
        BY Zenon DEF Users
    <2>2. f = conn[k].fd
        OBVIOUS
    <2> HIDE DEF k, f
    <2>3. conn[k].st = "open"
        BY <1>0, <1>2, <2>1, HeldOpen, Zenon
    <2> QED BY <1>0, <1>2, <2>2, <2>3 DEF FdOK
<1>4. callbacks_[f] = None \/ callbacks_[f] = k
    <2>1. ASSUME callbacks_[f] # None PROVE callbacks_[f] = k
        <3>1. callbacks_[f] \in Conns /\ conn[callbacks_[f]].st = "open" /\ conn[callbacks_[f]].fd = f
            <4> HIDE DEF f
            <4>1. conn[callbacks_[f]].st = "open"
                BY <1>0, <1>3, <2>1, HeldOpen, Zenon
            <4>2. callbacks_[f] \in Conns
                BY <1>1, <1>3, <2>1, Zenon
            <4> QED BY <1>0, <1>3, <2>1, <4>1, <4>2 DEF FdOK
        <3>2. \A i, j \in Conns :
                 conn[i].st = "open" /\ conn[j].st = "open" /\ conn[i].fd = conn[j].fd => i = j
            BY <1>0, Zenon DEF FdOK
        <3>3. conn[k].fd = f
            OBVIOUS
        <3> HIDE DEF k, f
        <3> QED BY <1>2, <1>3, <3>1, <3>2, <3>3, Zenon
    <2> QED BY <2>1, Zenon
<1>5. \/ /\ \E pc \in {"done", "queued"} : wpc' = [wpc EXCEPT ![w] = pc]
         /\ UNCHANGED <<conn, callbacks_, rfds_, wfds_, pending, crashed>>
      \/ /\ ~conn[k].dead /\ wpc' = [wpc EXCEPT ![w] = "blocked"]
         /\ wfds_' = wfds_ \cup {f} /\ callbacks_' = [callbacks_ EXCEPT ![f] = k]
         /\ crashed' = IF callbacks_[f] \in {None, k} THEN crashed ELSE "add_callback"
         /\ UNCHANGED <<conn, rfds_, pending>>
      \/ /\ wpc' = [wpc EXCEPT ![w] = "remove"] /\ conn' = Killed(conn, k)
         /\ rfds_' = rfds_ \ {f} /\ wfds_' = wfds_ \ {f} /\ pending' = pending \cup {w}
         /\ UNCHANGED <<callbacks_, crashed>>
    BY DEF Send, BlockRemove
<1>6. PillOK'
    <2>1. \A v \in Workers : wpc'[v] = "exit" <=> wpc[v] = "exit"
        BY <1>0, <1>1, <1>5
    <2> QED BY <1>0, <2>1, Zenon DEF PillOK
<1>7. wconn[w] = k /\ conn[k].fd = f
    OBVIOUS
<1> HIDE DEF k, f
<1>8. wconn' = [wconn EXCEPT ![w] = k]
    BY <1>0, <1>1, <1>7
<1>9. \A n \in Nonces : conns_'[n] # None => n = Nonce[conns_'[n]]
    BY <1>0, Zenon DEF FdOK
<1>10. ASSUME NEW pc \in {"done", "queued"}, wpc' = [wpc EXCEPT ![w] = pc],
              UNCHANGED <<conn, callbacks_, rfds_, wfds_, pending, crashed>>
       PROVE  ServerInv'
    <2>1. RefOK'
        BY <1>0, <1>10, ZenonT(40) DEF RefOK, RefGood, Holders, ByListener, ByTable, Keeps
    <2>2. /\ k \in Conns \cup {None}
          /\ pc \in {"idle", "pick", "send", "queued", "blocked", "done", "exit"}
          /\ crashed' \in {"no", "null"} /\ wpc[w] # "remove"
          /\ k = None <=> pc \in {"idle", "exit"}
        BY <1>0, <1>2, <1>10
    <2>3. /\ conn' \in [Conns -> ConnObjects] /\ conns_' \in [Nonces -> Conns \cup {None}]
          /\ jobq' \in Seq(Conns \cup {None})
          /\ \A j \in Conns : conn'[j].dead = conn[j].dead /\ conn'[j].fd = conn[j].fd /\ conn'[j].st = conn[j].st
        BY <1>0, <1>1, <1>10, Zenon
    <2>4. ServerTypeOK' /\ FdOK' /\ ThreadOK' /\ RemoveOK' /\ RoundOK' /\ NoStaleDescriptor'
        BY <1>0, <1>8, <1>9, <1>10, <2>2, <2>3, WorkerFrame, Zenon
    <2> QED BY <1>6, <2>1, <2>4, Zenon DEF ServerInv
<1>11. ASSUME ~conn[k].dead, wpc' = [wpc EXCEPT ![w] = "blocked"],
              wfds_' = wfds_ \cup {f}, callbacks_' = [callbacks_ EXCEPT ![f] = k],
              crashed' = IF callbacks_[f] \in {None, k} THEN crashed ELSE "add_callback",
              UNCHANGED <<conn, rfds_, pending>>
       PROVE  ServerInv'
    <2>1. crashed' = "no"
        BY <1>4, <1>11
    <2>2. /\ callbacks_' \in [Fds -> Conns \cup {None}] /\ callbacks_'[f] = k
          /\ \A g \in Fds : g # f => callbacks_'[g] = callbacks_[g]
          /\ \A g \in Fds : callbacks_[g] # None => callbacks_'[g] = callbacks_[g]
        BY <1>1, <1>2, <1>3, <1>4, <1>11
    <2>3. /\ wpc' \in [Workers -> {"idle", "pick", "send", "queued", "blocked", "remove", "done", "exit"}]
          /\ wpc'[w] = "blocked" /\ \A v \in Workers : v # w => wpc'[v] = wpc[v]
        BY <1>1, <1>11
    <2>4. wfds_' \subseteq Fds
        BY <1>1, <1>3, <1>11
    <2>5. ServerTypeOK'
        BY <1>0, <1>11, <2>2, <2>3, <2>4 DEF ServerTypeOK
    <2>6. RefOK'
        BY <1>0, <1>11, ZenonT(40) DEF RefOK, RefGood, Holders, ByListener, ByTable, Keeps
    <2>7. FdOK'
        <3>1. \A g \in Fds : callbacks_'[g] # None =>
                 conn'[callbacks_'[g]].st # "none" /\ conn'[callbacks_'[g]].fd = g
            <4> SUFFICES ASSUME NEW g \in Fds, callbacks_'[g] # None
                         PROVE  conn[callbacks_'[g]].st # "none" /\ conn[callbacks_'[g]].fd = g
                BY <1>11, Zenon
            <4>1. CASE g = f
                BY <1>3, <1>7, <2>2, <4>1
            <4>2. CASE g # f
                BY <1>0, <2>2, <4>2 DEF FdOK
            <4> QED BY <4>1, <4>2, Zenon
        <3> QED BY <1>0, <1>9, <1>11, <3>1, Zenon DEF FdOK
    <2>8. ThreadOK'
        <3>1. \A v \in Workers : wconn'[v] = None <=> wpc'[v] \in {"idle", "exit"}
            <4> SUFFICES ASSUME NEW v \in Workers PROVE wconn[v] = None <=> wpc'[v] \in {"idle", "exit"}
                BY <1>0, Zenon
            <4>1. CASE v = w
                BY <1>2, <1>7, <2>3, <4>1
            <4>2. CASE v # w
                BY <1>0, <2>3, <4>2, Zenon DEF ThreadOK
            <4> QED BY <4>1, <4>2, Zenon
        <3> QED BY <1>0, <1>11, <2>1, <3>1, Zenon DEF ThreadOK
    <2>9. RemoveOK'
        <3>1. \A v \in Workers : wpc'[v] = "remove" <=> wpc[v] = "remove"
            BY <1>0, <2>3
        <3>2. ASSUME NEW g \in Fds, callbacks_'[g] # None, conn[callbacks_'[g]].dead
              PROVE  callbacks_'[g] = callbacks_[g]
            BY <1>11, <2>2, <3>2, Zenon
        <3>3. ASSUME NEW g \in Fds, callbacks_'[g] # None, conn'[callbacks_'[g]].dead
              PROVE  \/ \E v \in Workers : wpc'[v] = "remove" /\ wconn'[v] = callbacks_'[g]
                     \/ main'.pc = "remove" /\ listener'[main'.it] = callbacks_'[g]
            <4>1. callbacks_'[g] = callbacks_[g] /\ conn[callbacks_[g]].dead /\ callbacks_[g] # None
                BY <1>11, <3>2, <3>3, Zenon
            <4>2. \/ \E v \in Workers : wpc[v] = "remove" /\ wconn[v] = callbacks_[g]
                  \/ main.pc = "remove" /\ listener[main.it] = callbacks_[g]
                BY <1>0, <4>1, Zenon DEF RemoveOK
            <4> QED BY <1>0, <3>1, <4>1, <4>2, Zenon
        <3>4. ASSUME NEW v \in Workers, wpc'[v] = "remove", wconn'[v] # None
              PROVE  /\ conn'[wconn'[v]].dead
                     /\ conn'[wconn'[v]].fd \notin rfds_'
                     /\ v \notin pending' => conn'[wconn'[v]].fd \notin ready'.r
            <4>1. UNCHANGED <<wconn, conn, rfds_, pending, ready>> /\ wpc[v] = "remove"
                BY <1>0, <1>11, <3>1, <3>4, Zenon
            <4> QED BY <1>0, <3>4, <4>1, Zenon DEF RemoveOK
        <3>5. main'.pc = "remove" =>
                  /\ main'.it \notin rfds_'
                  /\ "main" \notin pending' => main'.it \notin ready'.r
            BY <1>0, <1>11, Zenon DEF RemoveOK
        <3> QED BY <3>3, <3>4, <3>5, Zenon DEF RemoveOK
    <2>10. RoundOK'
        <3>1. ready.r \subseteq Fds
            BY <1>0 DEF ServerTypeOK
        <3> QED BY <1>0, <2>2, <3>1, Zenon DEF RoundOK
    <2>11. NoStaleDescriptor'
        BY <2>1 DEF NoStaleDescriptor
    <2> QED BY <1>6, <2>5, <2>6, <2>7, <2>8, <2>9, <2>10, <2>11, Zenon DEF ServerInv
<1>12. ASSUME wpc' = [wpc EXCEPT ![w] = "remove"], conn' = Killed(conn, k),
              rfds_' = rfds_ \ {f}, wfds_' = wfds_ \ {f}, pending' = pending \cup {w},
              UNCHANGED <<callbacks_, crashed>>
       PROVE  ServerInv'
    <2>1. /\ conn' \in [Conns -> ConnObjects]
          /\ \A j \in Conns : /\ conn'[j].ref = conn[j].ref /\ conn'[j].fd = conn[j].fd /\ conn'[j].st = conn[j].st
                              /\ (conn'[j].dead <=> (conn[j].dead \/ j = k))
        BY <1>1, <1>2, <1>12, KilledProps
    <2>2. /\ wpc' \in [Workers -> {"idle", "pick", "send", "queued", "blocked", "remove", "done", "exit"}]
          /\ wpc'[w] = "remove" /\ \A v \in Workers : v # w => wpc'[v] = wpc[v]
        BY <1>1, <1>12
    <2>3. /\ rfds_' \subseteq rfds_ /\ wfds_' \subseteq wfds_ /\ f \notin rfds_' /\ w \in pending'
          /\ pending \subseteq pending'
        BY <1>12
    <2>4. ServerTypeOK'
        <3>1. rfds_' \subseteq Fds /\ wfds_' \subseteq Fds
            BY <1>1, <2>3, Zenon
        <3> QED BY <1>0, <1>12, <2>1, <2>2, <3>1 DEF ServerTypeOK
    <2>5. RefOK'
        <3>1. \A j \in Conns : conn'[j].dead => conn[j].dead \/ conn[j].st = "open"
            BY <1>3, <2>1, Zenon
        <3> QED BY <1>0, <2>1, <3>1, RefFrame, Zenon DEF Keeps
    <2>6. FdOK'
        BY <1>0, <1>9, <1>12, <2>1, FdFrame, Zenon
    <2>7. ThreadOK'
        <3>1. \A v \in Workers : wconn'[v] = None <=> wpc'[v] \in {"idle", "exit"}
            <4> SUFFICES ASSUME NEW v \in Workers PROVE wconn[v] = None <=> wpc'[v] \in {"idle", "exit"}
                BY <1>0, Zenon
            <4>1. CASE v = w
                BY <1>2, <1>7, <2>2, <4>1
            <4>2. CASE v # w
                BY <1>0, <2>2, <4>2, Zenon DEF ThreadOK
            <4> QED BY <4>1, <4>2, Zenon
        <3>2. \A g \in DOMAIN listener : listener[g] \in Conns
            BY <1>0, Zenon DEF ServerTypeOK
        <3>3. main.pc \in {"remove", "decref"} => main.it # None /\ conn'[listener[main.it]].dead
            <4>1. main.pc \in {"remove", "decref"} =>
                    main.it # None /\ main.it \in DOMAIN listener /\ conn[listener[main.it]].dead
                BY <1>0 DEF ThreadOK
            <4> QED BY <2>1, <3>2, <4>1, Zenon
        <3>4. athread.pc = "ref" => athread.it # None /\ conn'[listener[athread.it]].dead
            <4>1. athread.pc = "ref" =>
                    athread.it # None /\ athread.it \in DOMAIN listener /\ conn[listener[athread.it]].dead
                BY <1>0 DEF ThreadOK
            <4> QED BY <2>1, <3>2, <4>1, Zenon
        <3> QED BY <1>0, <1>12, <3>1, <3>3, <3>4, Zenon DEF ThreadOK
    <2>8. RemoveOK'
        <3>1. ASSUME NEW g \in Fds, callbacks_'[g] # None, conn'[callbacks_'[g]].dead
              PROVE  \/ \E v \in Workers : wpc'[v] = "remove" /\ wconn'[v] = callbacks_'[g]
                     \/ main'.pc = "remove" /\ listener'[main'.it] = callbacks_'[g]
            <4>1. callbacks_'[g] = callbacks_[g] /\ callbacks_[g] \in Conns
                BY <1>1, <1>12, <3>1, Zenon
            <4>2. CASE callbacks_[g] = k
                BY <1>0, <1>7, <2>2, <4>1, <4>2, Zenon
            <4>3. CASE callbacks_[g] # k
                <5>1. conn[callbacks_[g]].dead
                    BY <2>1, <3>1, <4>1, <4>3, Zenon
                <5>2. \/ \E v \in Workers : wpc[v] = "remove" /\ wconn[v] = callbacks_[g]
                      \/ main.pc = "remove" /\ listener[main.it] = callbacks_[g]
                    BY <1>0, <3>1, <4>1, <5>1, Zenon DEF RemoveOK
                <5>3. \A v \in Workers : wpc[v] = "remove" => wpc'[v] = "remove"
                    BY <2>2, Zenon
                <5> QED BY <1>0, <4>1, <5>2, <5>3, Zenon
            <4> QED BY <4>2, <4>3, Zenon
        <3>2. ASSUME NEW v \in Workers, wpc'[v] = "remove", wconn'[v] # None
              PROVE  /\ conn'[wconn'[v]].dead
                     /\ conn'[wconn'[v]].fd \notin rfds_'
                     /\ v \notin pending' => conn'[wconn'[v]].fd \notin ready'.r
            <4>1. wconn'[v] = wconn[v] /\ wconn[v] \in Conns
                BY <1>0, <1>1, <3>2, Zenon
            <4>2. CASE v = w
                BY <1>2, <1>7, <2>1, <2>3, <4>1, <4>2, Zenon
            <4>3. CASE v # w
                <5>1. wpc[v] = "remove"
                    BY <2>2, <3>2, <4>3, Zenon
                <5>2. /\ conn[wconn[v]].dead /\ conn[wconn[v]].fd \notin rfds_
                      /\ v \notin pending => conn[wconn[v]].fd \notin ready.r
                    BY <1>0, <3>2, <4>1, <5>1, Zenon DEF RemoveOK
                <5> QED BY <1>0, <2>1, <2>3, <4>1, <5>2, Zenon
            <4> QED BY <4>2, <4>3, Zenon
        <3>3. main'.pc = "remove" =>
                  /\ main'.it \notin rfds_'
                  /\ "main" \notin pending' => main'.it \notin ready'.r
            BY <1>0, <2>3, Zenon DEF RemoveOK
        <3> QED BY <3>1, <3>2, <3>3, Zenon DEF RemoveOK
    <2>9. RoundOK' /\ NoStaleDescriptor'
        BY <1>0, <1>12, Zenon DEF RoundOK, NoStaleDescriptor
    <2> QED BY <1>6, <2>4, <2>5, <2>6, <2>7, <2>8, <2>9, Zenon DEF ServerInv
<1> QED BY <1>5, <1>10, <1>11, <1>12, Zenon

\* The send that failed has waited for the round in which its descriptor was ready.
LEMMA SendRemovedStep ==
    ASSUME ServerInv, crashed = "no", NEW w \in Workers, SendRemoved(w)
    PROVE  ServerInv'
<1> DEFINE k == wconn[w]
           f == conn[k].fd
<1>0. /\ ServerTypeOK /\ RefOK /\ FdOK /\ ThreadOK /\ RemoveOK /\ RoundOK /\ PillOK /\ NoStaleDescriptor
      /\ wpc[w] = "remove" /\ w \notin pending /\ SendEnds(k)
      /\ callbacks_' = [callbacks_ EXCEPT ![f] = None]
      /\ UNCHANGED <<conn, link, inbox, listener, conns_, athread, rfds_, wfds_, ready, pending,
                     jobq, wconn, main, lost, crashed>>
    BY Zenon DEF ServerInv, SendRemoved
<1>1. /\ wconn \in [Workers -> Conns \cup {None}] /\ callbacks_ \in [Fds -> Conns \cup {None}]
      /\ conn \in [Conns -> ConnObjects]
    BY <1>0, Zenon DEF ServerTypeOK
<1>2. k \in Conns /\ k # None
    <2>1. k # None
        BY <1>0 DEF ThreadOK
    <2> QED BY <1>1, <2>1, Zenon
<1>3. f \notin ready.r
    BY <1>0, <1>2, Zenon DEF RemoveOK
<1>4. conn[k].fd = f
    OBVIOUS
<1>5. /\ callbacks_' \in [Fds -> Conns \cup {None}]
      /\ \A g \in Fds : callbacks_'[g] # None => callbacks_'[g] = callbacks_[g] /\ g # f
      /\ \A g \in Fds : g # f => callbacks_'[g] = callbacks_[g]
    <2> HIDE DEF f
    <2> QED BY <1>0, <1>1
<1> HIDE DEF k, f
<1>6. /\ wpc' \in [Workers -> {"idle", "pick", "send", "queued", "blocked", "remove", "done", "exit"}]
      /\ \A v \in Workers : /\ wpc'[v] = "remove" <=> wpc[v] = "remove" /\ wconn[v] # k
                            /\ wpc'[v] = "idle" <=> wpc[v] = "idle"
                            /\ wpc'[v] = "exit" <=> wpc[v] = "exit"
    BY <1>0, SendEndsProps, Zenon
<1>7. ServerTypeOK'
    BY <1>0, <1>5, <1>6, Zenon DEF ServerTypeOK
<1>8. RefOK'
    BY <1>0, ZenonT(40) DEF RefOK, RefGood, Holders, ByListener, ByTable, Keeps
<1>9. FdOK'
    <2>1. \A n \in Nonces : conns_'[n] # None => n = Nonce[conns_'[n]]
        BY <1>0, Zenon DEF FdOK
    <2>2. \A g \in Fds : callbacks_'[g] = None \/ callbacks_'[g] = callbacks_[g]
        BY <1>5, Zenon
    <2> QED BY <1>0, <2>1, <2>2, FdFrame, Zenon
<1>10. ThreadOK'
    <2>1. \A v \in Workers : wconn'[v] = None <=> wpc'[v] \in {"idle", "exit"}
        BY <1>0, <1>6, Zenon DEF ThreadOK
    <2> QED BY <1>0, <2>1, Zenon DEF ThreadOK
<1>11. RemoveOK'
    <2>1. ASSUME NEW g \in Fds, callbacks_'[g] # None, conn'[callbacks_'[g]].dead
          PROVE  \/ \E v \in Workers : wpc'[v] = "remove" /\ wconn'[v] = callbacks_'[g]
                 \/ main'.pc = "remove" /\ listener'[main'.it] = callbacks_'[g]
        <3>1. callbacks_'[g] = callbacks_[g] /\ g # f /\ conn[callbacks_[g]].dead /\ callbacks_[g] # None
            BY <1>0, <1>5, <2>1, Zenon
        <3>2. callbacks_[g] # k
            BY <1>0, <1>4, <3>1 DEF FdOK
        <3>3. \/ \E v \in Workers : wpc[v] = "remove" /\ wconn[v] = callbacks_[g]
              \/ main.pc = "remove" /\ listener[main.it] = callbacks_[g]
            BY <1>0, <3>1, Zenon DEF RemoveOK
        <3> QED BY <1>0, <1>6, <3>1, <3>2, <3>3, Zenon
    <2>2. ASSUME NEW v \in Workers, wpc'[v] = "remove", wconn'[v] # None
          PROVE  /\ conn'[wconn'[v]].dead
                 /\ conn'[wconn'[v]].fd \notin rfds_'
                 /\ v \notin pending' => conn'[wconn'[v]].fd \notin ready'.r
        <3>1. UNCHANGED <<wconn, conn, rfds_, pending, ready>> /\ wpc[v] = "remove"
            BY <1>0, <1>6, <2>2, Zenon
        <3> QED BY <1>0, <2>2, <3>1, Zenon DEF RemoveOK
    <2>3. main'.pc = "remove" =>
              /\ main'.it \notin rfds_'
              /\ "main" \notin pending' => main'.it \notin ready'.r
        BY <1>0, Zenon DEF RemoveOK
    <2> QED BY <2>1, <2>2, <2>3, Zenon DEF RemoveOK
<1>12. RoundOK'
    <2>1. ready.r \subseteq Fds
        BY <1>0 DEF ServerTypeOK
    <2> QED BY <1>0, <1>3, <1>5, <2>1, Zenon DEF RoundOK
<1>13. PillOK' /\ NoStaleDescriptor'
    BY <1>0, <1>6, Zenon DEF PillOK, NoStaleDescriptor
<1> QED BY <1>7, <1>8, <1>9, <1>10, <1>11, <1>12, <1>13, Zenon DEF ServerInv

-----------------------------------------------------------------------------
(* The thread that deletes the rpcs.                                       *)

\* ~rpcs, but for what it does to connections and jobs: the listener keeps what it had.
LEMMA MainFrame ==
    ASSUME ServerInv, crashed = "no",
           UNCHANGED <<conn, link, inbox, listener, conns_, athread, jobq, wpc, wconn, lost, crashed>>,
           UNCHANGED pollVars,
           main' \in [pc : {"run", "join", "close", "remove", "decref", "pills", "gone"}, it : Nat \cup {None}],
           \A f \in DOMAIN listener : Keeps(f)' <=> Keeps(f),
           main.pc # "remove", main'.pc # "remove",
           main'.pc \notin {"run", "join"} => athread.pc = "exit",
           main'.pc \in {"close", "decref"} => main'.it \in DOMAIN listener \cup {None},
           main'.pc = "decref" => main'.it # None /\ conn[listener[main'.it]].dead,
           main.pc \in {"pills", "gone"} => main'.pc \in {"pills", "gone"},
           main'.pc \in {"pills", "gone"} => main'.it \in Nat,
           main'.pc = "gone" => \A w \in Workers : wpc[w] = "exit"
    PROVE  ServerInv'
<1>0. /\ ServerTypeOK /\ RefOK /\ FdOK /\ ThreadOK /\ RemoveOK /\ RoundOK /\ PillOK /\ NoStaleDescriptor
      /\ UNCHANGED <<conn, link, inbox, listener, conns_, athread, jobq, wpc, wconn, lost, crashed>>
      /\ UNCHANGED <<callbacks_, rfds_, wfds_, ready, pending>>
    BY Zenon DEF ServerInv, pollVars
<1>1. ServerTypeOK'
    BY <1>0, Zenon DEF ServerTypeOK
<1>2. RefOK'
    BY <1>0, RefFrame, Zenon
<1>3. FdOK' /\ RoundOK' /\ NoStaleDescriptor'
    <2>1. FdOK'
        BY <1>0, SMTT(20) DEF FdOK
    <2> QED BY <1>0, <2>1, Zenon DEF RoundOK, NoStaleDescriptor
<1>4. ThreadOK'
    <2>1. main'.pc \in {"close", "remove", "decref"} => main'.it \in DOMAIN listener' \cup {None}
        BY <1>0
    <2>2. main'.pc \in {"remove", "decref"} => main'.it # None /\ conn'[listener'[main'.it]].dead
        BY <1>0
    <2> QED BY <1>0, <2>1, <2>2, Zenon DEF ThreadOK
<1>5. RemoveOK'
    BY <1>0, SMTT(20) DEF RemoveOK
<1>6. PillOK'
    <2>1. main'.pc = "gone" => \A w \in Workers : wpc'[w] = "exit" /\ wconn'[w] = None
        BY <1>0 DEF ThreadOK
    <2> QED BY <1>0, <2>1, Zenon DEF PillOK
<1> QED BY <1>1, <1>2, <1>3, <1>4, <1>5, <1>6, Zenon DEF ServerInv

\* What the listener keeps as ~tcpsconn goes through its map.
LEMMA MainDeleteStep ==
    ASSUME ServerInv, crashed = "no", MainDelete
    PROVE  ServerInv'
<1>0. /\ ServerTypeOK
      /\ main.pc = "run" /\ main' = [main EXCEPT !.pc = "join"]
      /\ UNCHANGED <<conn, link, inbox, listener, conns_, athread, jobq, wpc, wconn, lost, crashed>>
      /\ UNCHANGED pollVars
    BY Zenon DEF ServerInv, MainDelete
<1>1. /\ main' \in [pc : {"run", "join", "close", "remove", "decref", "pills", "gone"}, it : Nat \cup {None}]
      /\ main'.pc = "join"
    <2>1. main \in [pc : {"run", "join", "close", "remove", "decref", "pills", "gone"}, it : Nat \cup {None}]
        BY <1>0, Zenon DEF ServerTypeOK
    <2> QED BY <1>0, <2>1
<1>2. \A f \in DOMAIN listener : Keeps(f)' <=> Keeps(f)
    BY <1>0, <1>1 DEF Keeps
<1>3. /\ main.pc # "remove" /\ main'.pc # "remove" /\ main'.pc \in {"run", "join"}
      /\ main'.pc \notin {"close", "decref"} /\ main'.pc # "decref" /\ main'.pc # "gone"
      /\ main.pc \notin {"pills", "gone"} /\ main'.pc \notin {"pills", "gone"}
    BY <1>0, <1>1
<1> QED BY <1>0, <1>1, <1>2, <1>3, MainFrame, Zenon

\* ~tcpsconn, after the accept thread was joined: it begins to go through its map.
LEMMA MainJoinStep ==
    ASSUME ServerInv, crashed = "no", MainJoin
    PROVE  ServerInv'
<1>0. /\ ServerTypeOK
      /\ main.pc = "join" /\ athread.pc = "exit" /\ main' = [pc |-> "close", it |-> First(DOMAIN listener)]
      /\ UNCHANGED <<conn, link, inbox, listener, conns_, athread, jobq, wpc, wconn, lost, crashed>>
      /\ UNCHANGED pollVars
    BY Zenon DEF ServerInv, MainJoin
<1> DEFINE i == First(DOMAIN listener)
<1>1. /\ DOMAIN listener \in SUBSET Nat
      /\ DOMAIN listener # {} => i \in DOMAIN listener
      /\ DOMAIN listener = {} => i = None
      /\ \A f \in DOMAIN listener : i <= f
    <2>1. DOMAIN listener \in SUBSET Nat
        BY <1>0, ServerLifeAssumption, Zenon DEF ServerTypeOK
    <2> QED BY <2>1, IteratorProps, Zenon
<1>2. main'.pc = "close" /\ main'.it = i
    BY <1>0
<1> HIDE DEF i
<1>3. i \in DOMAIN listener \cup {None} /\ i \in Nat \cup {None} /\ (\A f \in DOMAIN listener : i # None)
    BY <1>0, <1>1, ServerLifeAssumption, Zenon DEF ServerTypeOK
<1>4. main' \in [pc : {"run", "join", "close", "remove", "decref", "pills", "gone"}, it : Nat \cup {None}]
    BY <1>0, <1>3 DEF i
<1>5. \A f \in DOMAIN listener : Keeps(f)' <=> Keeps(f)
    <2> SUFFICES ASSUME NEW f \in DOMAIN listener PROVE Keeps(f)' <=> Keeps(f)
        OBVIOUS
    <2>1. Keeps(f)
        BY <1>0 DEF Keeps
    <2>2. i # None /\ f \in Nat /\ i \in Nat /\ i <= f
        BY <1>1, <1>3, Zenon
    <2>3. f >= main'.it /\ main'.it # None
        BY <1>2, <2>2
    <2>4. Keeps(f)'
        BY <1>2, <2>3 DEF Keeps
    <2> QED BY <2>1, <2>4, Zenon
<1>6. /\ main.pc # "remove" /\ main'.pc # "remove"
      /\ main'.pc # "decref" /\ main'.pc # "gone"
      /\ main.pc \notin {"pills", "gone"} /\ main'.pc \notin {"pills", "gone"}
    BY <1>0, <1>2
<1>7. main'.it \in DOMAIN listener \cup {None}
    BY <1>2, <1>3, Zenon
<1> QED BY <1>0, <1>4, <1>5, <1>6, <1>7, MainFrame, Zenon

\* closeconn of a connection that is not dead: it is killed, and the PollMgr does
\* not watch it from the next round on.
LEMMA MainCloseStep ==
    ASSUME ServerInv, crashed = "no", MainClose
    PROVE  ServerInv'
<1> DEFINE k == listener[main.it]
<1>0. /\ ServerTypeOK /\ RefOK /\ FdOK /\ ThreadOK /\ RemoveOK /\ RoundOK /\ PillOK /\ NoStaleDescriptor
      /\ main.pc = "close" /\ main.it # None
      /\ UNCHANGED <<inbox, listener, conns_, athread, callbacks_, ready, jobq, wpc, wconn, lost, crashed>>
    BY Zenon DEF ServerInv, MainClose
<1>1. main \in [pc : {"run", "join", "close", "remove", "decref", "pills", "gone"}, it : Nat \cup {None}]
    BY <1>0, Zenon DEF ServerTypeOK
<1>2. main.it \in DOMAIN listener /\ main.it \in Fds /\ main.it \in Nat /\ k \in Conns
    <2>1. main.it \in DOMAIN listener
        BY <1>0 DEF ThreadOK
    <2> QED BY <1>0, <2>1, ServerLifeAssumption, Zenon DEF ServerTypeOK
<1>3. conn[k].fd = main.it
    BY <1>0, <1>2, Zenon DEF FdOK
<1>4. CASE conn[k].dead
    <2>1. /\ main' = [main EXCEPT !.pc = "decref"] /\ UNCHANGED <<conn, link, rfds_, wfds_, pending>>
        BY <1>4, Zenon DEF MainClose
    <2>2. /\ main' \in [pc : {"run", "join", "close", "remove", "decref", "pills", "gone"}, it : Nat \cup {None}]
          /\ main'.pc = "decref" /\ main'.it = main.it
        BY <1>1, <2>1
    <2>3. \A f \in DOMAIN listener : Keeps(f)' <=> Keeps(f)
        BY <1>0, <2>2 DEF Keeps
    <2>4. athread.pc = "exit"
        BY <1>0 DEF ThreadOK
    <2>5. /\ main.pc # "remove" /\ main'.pc # "remove" /\ main'.pc # "gone"
          /\ main.pc \notin {"pills", "gone"} /\ main'.pc \notin {"pills", "gone"}
        BY <1>0, <2>2
    <2>6. main'.it \in DOMAIN listener \cup {None} /\ main'.it # None /\ conn[listener[main'.it]].dead
        BY <1>0, <1>2, <1>4, <2>2, Zenon
    <2>7. /\ UNCHANGED <<conn, link, inbox, listener, conns_, athread, jobq, wpc, wconn, lost, crashed>>
          /\ UNCHANGED pollVars
        BY <1>0, <2>1, Zenon DEF pollVars
    <2> QED BY <2>2, <2>3, <2>4, <2>5, <2>6, <2>7, MainFrame, Zenon
<1>5. CASE ~conn[k].dead
    <2>1. /\ main' = [main EXCEPT !.pc = "remove"] /\ conn' = Killed(conn, k)
          /\ link' = [link EXCEPT ![k] = "down"]
          /\ rfds_' = rfds_ \ {main.it} /\ wfds_' = wfds_ \ {main.it} /\ pending' = pending \cup {"main"}
        <3>1. conn[k].fd = main.it
            BY <1>3, Zenon
        <3>2. /\ main' = [main EXCEPT !.pc = "remove"] /\ conn' = Killed(conn, k)
              /\ link' = [link EXCEPT ![k] = "down"] /\ BlockRemove(conn[k].fd, "main")
            BY <1>5, Zenon DEF MainClose
        <3> HIDE DEF k
        <3> QED BY <3>1, <3>2 DEF BlockRemove
    <2>2. /\ main' \in [pc : {"run", "join", "close", "remove", "decref", "pills", "gone"}, it : Nat \cup {None}]
          /\ main'.pc = "remove" /\ main'.it = main.it
        BY <1>1, <2>1
    <2>3. \A f \in DOMAIN listener : Keeps(f)' <=> Keeps(f)
        BY <1>0, <2>2 DEF Keeps
    <2>4. conn[k].st = "open"
        <3>1. Keeps(main.it)
            <4>1. main.it >= main.it
                BY <1>2
            <4> QED BY <1>0, <4>1, Zenon DEF Keeps
        <3>2. ByListener(k)
            BY <1>2, <3>1, Zenon DEF ByListener
        <3> HIDE DEF k
        <3> QED BY <1>0, <1>2, <3>2, HeldOpen, Zenon
    <2>5. conn \in [Conns -> ConnObjects] /\ link \in [Conns -> {"none", "up", "down"}]
        BY <1>0, Zenon DEF ServerTypeOK
    <2>6. k = listener[main.it]
        OBVIOUS
    <2> HIDE DEF k
    <2>7. /\ conn' \in [Conns -> ConnObjects]
          /\ \A j \in Conns : /\ conn'[j].ref = conn[j].ref /\ conn'[j].fd = conn[j].fd /\ conn'[j].st = conn[j].st
                              /\ (conn'[j].dead <=> (conn[j].dead \/ j = k))
        BY <1>2, <2>1, <2>5, KilledProps
    <2>8. /\ link' \in [Conns -> {"none", "up", "down"}]
          /\ \A j \in Conns : link[j] = "down" => link'[j] = "down"
        BY <1>2, <2>1, <2>5
    <2>9. /\ rfds_' \subseteq rfds_ /\ wfds_' \subseteq wfds_ /\ main.it \notin rfds_'
          /\ pending \subseteq pending' /\ "main" \in pending'
        BY <2>1
    <2>10. ServerTypeOK'
        <3>1. rfds_' \subseteq Fds /\ wfds_' \subseteq Fds
            BY <1>0, <2>9, Zenon DEF ServerTypeOK
        <3> QED BY <1>0, <2>2, <2>7, <2>8, <3>1, Zenon DEF ServerTypeOK
    <2>11. RefOK'
        <3>1. \A j \in Conns : conn'[j].dead => conn[j].dead \/ conn[j].st = "open"
            BY <2>4, <2>7, Zenon
        <3> QED BY <1>0, <2>3, <2>7, <3>1, RefFrame, Zenon
    <2>12. FdOK'
        <3>1. \A n \in Nonces : conns_'[n] # None => n = Nonce[conns_'[n]]
            BY <1>0, Zenon DEF FdOK
        <3> QED BY <1>0, <2>7, <3>1, FdFrame, Zenon
    <2>13. ThreadOK'
        <3>1. athread.pc = "exit"
            BY <1>0 DEF ThreadOK
        <3>2. main'.it \in DOMAIN listener' \cup {None} /\ main'.it # None /\ conn'[listener'[main'.it]].dead
            BY <1>0, <1>2, <2>2, <2>6, <2>7, Zenon
        <3>3. /\ athread'.ch # None => \A f \in DOMAIN listener' : listener'[f] # athread'.ch
              /\ athread'.pc = "exit"
              /\ athread'.ch # None <=> athread'.pc \in {"isdead", "ref"}
              /\ \A w \in Workers : wconn'[w] = None <=> wpc'[w] \in {"idle", "exit"}
            BY <1>0, <3>1, Zenon DEF ThreadOK
        <3> QED BY <3>2, <3>3 DEF ThreadOK
    <2>14. RemoveOK'
        <3>1. ASSUME NEW g \in Fds, callbacks_'[g] # None, conn'[callbacks_'[g]].dead
              PROVE  \/ \E v \in Workers : wpc'[v] = "remove" /\ wconn'[v] = callbacks_'[g]
                     \/ main'.pc = "remove" /\ listener'[main'.it] = callbacks_'[g]
            <4>1. callbacks_'[g] = callbacks_[g] /\ callbacks_[g] \in Conns
                BY <1>0, <3>1, Zenon DEF ServerTypeOK
            <4>2. CASE callbacks_[g] = k
                BY <1>0, <2>2, <2>6, <4>1, <4>2, Zenon
            <4>3. CASE callbacks_[g] # k
                <5>1. conn[callbacks_[g]].dead
                    BY <2>7, <3>1, <4>1, <4>3, Zenon
                <5>2. \/ \E v \in Workers : wpc[v] = "remove" /\ wconn[v] = callbacks_[g]
                      \/ main.pc = "remove" /\ listener[main.it] = callbacks_[g]
                    BY <1>0, <3>1, <4>1, <5>1, Zenon DEF RemoveOK
                <5>3. main.pc # "remove"
                    BY <1>0
                <5> QED BY <1>0, <4>1, <5>2, <5>3, Zenon
            <4> QED BY <4>2, <4>3, Zenon
        <3>2. ASSUME NEW v \in Workers, wpc'[v] = "remove", wconn'[v] # None
              PROVE  /\ conn'[wconn'[v]].dead
                     /\ conn'[wconn'[v]].fd \notin rfds_'
                     /\ v \notin pending' => conn'[wconn'[v]].fd \notin ready'.r
            <4>1. wconn'[v] = wconn[v] /\ wconn[v] \in Conns /\ wpc[v] = "remove"
                BY <1>0, <3>2, Zenon DEF ServerTypeOK
            <4>2. /\ conn[wconn[v]].dead /\ conn[wconn[v]].fd \notin rfds_
                  /\ v \notin pending => conn[wconn[v]].fd \notin ready.r
                BY <1>0, <3>2, <4>1, Zenon DEF RemoveOK
            <4> QED BY <1>0, <2>7, <2>9, <4>1, <4>2, Zenon
        <3>3. main'.it \notin rfds_' /\ "main" \in pending'
            BY <2>2, <2>9, Zenon
        <3> QED BY <3>1, <3>2, <3>3, Zenon DEF RemoveOK
    <2>15. RoundOK'
        <3>1. \A f \in ready.r : callbacks_[f] # None => callbacks_[f] \in Conns
            <4>1. ready.r \subseteq Fds
                BY <1>0 DEF ServerTypeOK
            <4> QED BY <1>0, <4>1, Zenon DEF ServerTypeOK
        <3> QED BY <1>0, <2>8, <3>1, Zenon DEF RoundOK
    <2>16. PillOK' /\ NoStaleDescriptor'
        <3>1. main.pc \notin {"pills", "gone"} /\ main'.pc \notin {"pills", "gone"}
            BY <1>0, <2>2
        <3> QED BY <1>0, <3>1, Zenon DEF PillOK, NoStaleDescriptor
    <2> QED BY <2>10, <2>11, <2>12, <2>13, <2>14, <2>15, <2>16, Zenon DEF ServerInv
<1> QED BY <1>4, <1>5, Zenon

\* The rest of closeconn: the round is over in which its descriptor was ready.
LEMMA MainRemovedStep ==
    ASSUME ServerInv, crashed = "no", MainRemoved
    PROVE  ServerInv'
<1>0. /\ ServerTypeOK /\ RefOK /\ FdOK /\ ThreadOK /\ RemoveOK /\ RoundOK /\ PillOK /\ NoStaleDescriptor
      /\ main.pc = "remove" /\ "main" \notin pending
      /\ callbacks_' = [callbacks_ EXCEPT ![main.it] = None] /\ main' = [main EXCEPT !.pc = "decref"]
      /\ UNCHANGED <<conn, link, inbox, listener, conns_, athread, rfds_, wfds_, ready, pending,
                     jobq, wpc, wconn, lost, crashed>>
    BY Zenon DEF ServerInv, MainRemoved
<1>1. /\ main \in [pc : {"run", "join", "close", "remove", "decref", "pills", "gone"}, it : Nat \cup {None}]
      /\ callbacks_ \in [Fds -> Conns \cup {None}]
    BY <1>0, Zenon DEF ServerTypeOK
<1>2. /\ main' \in [pc : {"run", "join", "close", "remove", "decref", "pills", "gone"}, it : Nat \cup {None}]
      /\ main'.pc = "decref" /\ main'.it = main.it
    BY <1>0, <1>1
<1>3. /\ main.it \in DOMAIN listener /\ main.it # None /\ conn[listener[main.it]].dead /\ athread.pc = "exit"
      /\ main.it \notin ready.r
    <2>1. main.it \notin ready.r
        BY <1>0, Zenon DEF RemoveOK
    <2> QED BY <1>0, <2>1 DEF ThreadOK
<1>4. /\ callbacks_' \in [Fds -> Conns \cup {None}]
      /\ \A g \in Fds : callbacks_'[g] # None => callbacks_'[g] = callbacks_[g] /\ g # main.it
      /\ \A g \in Fds : g # main.it => callbacks_'[g] = callbacks_[g]
    BY <1>0, <1>1
<1>5. \A f \in DOMAIN listener : Keeps(f)' <=> Keeps(f)
    BY <1>0, <1>2 DEF Keeps
<1>6. ServerTypeOK'
    BY <1>0, <1>2, <1>4, Zenon DEF ServerTypeOK
<1>7. RefOK'
    BY <1>0, <1>5, RefFrame, Zenon
<1>8. FdOK'
    <2>1. \A n \in Nonces : conns_'[n] # None => n = Nonce[conns_'[n]]
        BY <1>0, Zenon DEF FdOK
    <2>2. \A g \in Fds : callbacks_'[g] = None \/ callbacks_'[g] = callbacks_[g]
        BY <1>4, Zenon
    <2> QED BY <1>0, <2>1, <2>2, FdFrame, Zenon
<1>9. ThreadOK'
    <2>1. main'.it \in DOMAIN listener' \cup {None} /\ main'.it # None /\ conn'[listener'[main'.it]].dead
        BY <1>0, <1>2, <1>3, Zenon
    <2>2. /\ athread'.ch # None => \A f \in DOMAIN listener' : listener'[f] # athread'.ch
          /\ athread'.pc = "exit"
          /\ athread'.ch # None <=> athread'.pc \in {"isdead", "ref"}
          /\ \A w \in Workers : wconn'[w] = None <=> wpc'[w] \in {"idle", "exit"}
        BY <1>0, <1>3, Zenon DEF ThreadOK
    <2> QED BY <2>1, <2>2 DEF ThreadOK
<1>10. RemoveOK'
    <2>1. ASSUME NEW g \in Fds, callbacks_'[g] # None, conn'[callbacks_'[g]].dead
          PROVE  \E v \in Workers : wpc'[v] = "remove" /\ wconn'[v] = callbacks_'[g]
        <3>1. /\ callbacks_'[g] = callbacks_[g] /\ g # main.it /\ callbacks_[g] # None
              /\ conn[callbacks_[g]].dead
            BY <1>0, <1>4, <2>1, Zenon
        <3>2. conn[callbacks_[g]].fd = g /\ conn[listener[main.it]].fd = main.it
            BY <1>0, <1>3, <3>1 DEF FdOK
        <3>3. listener[main.it] # callbacks_[g]
            BY <3>1, <3>2, Zenon
        <3> QED BY <1>0, <3>1, <3>3, Zenon DEF RemoveOK
    <2>2. ASSUME NEW v \in Workers, wpc'[v] = "remove", wconn'[v] # None
          PROVE  /\ conn'[wconn'[v]].dead
                 /\ conn'[wconn'[v]].fd \notin rfds_'
                 /\ v \notin pending' => conn'[wconn'[v]].fd \notin ready'.r
        <3>1. UNCHANGED <<wconn, conn, rfds_, pending, ready>> /\ wpc[v] = "remove"
            BY <1>0, <2>2, Zenon
        <3> QED BY <1>0, <2>2, <3>1, Zenon DEF RemoveOK
    <2>3. main'.pc # "remove"
        BY <1>2
    <2> QED BY <2>1, <2>2, <2>3, Zenon DEF RemoveOK
<1>11. RoundOK'
    <2>1. ready.r \subseteq Fds
        BY <1>0 DEF ServerTypeOK
    <2> QED BY <1>0, <1>3, <1>4, <2>1, Zenon DEF RoundOK
<1>12. PillOK' /\ NoStaleDescriptor'
    <2>1. main.pc \notin {"pills", "gone"} /\ main'.pc \notin {"pills", "gone"}
        BY <1>0, <1>2
    <2> QED BY <1>0, <2>1, Zenon DEF PillOK, NoStaleDescriptor
<1> QED BY <1>6, <1>7, <1>8, <1>9, <1>10, <1>11, <1>12, Zenon DEF ServerInv

\* ~tcpsconn gives its reference to a connection back and goes on to the next.
LEMMA MainDecrefStep ==
    ASSUME ServerInv, crashed = "no", MainDecref
    PROVE  ServerInv'
<1>0. /\ ServerTypeOK /\ RefOK /\ FdOK /\ ThreadOK /\ RemoveOK /\ RoundOK /\ PillOK /\ NoStaleDescriptor
      /\ main.pc = "decref" /\ conn' = Decref(conn, listener[main.it])
      /\ main' = [pc |-> "close", it |-> After(main.it)]
      /\ UNCHANGED <<link, inbox, listener, conns_, athread, jobq, wpc, wconn, lost, crashed>>
      /\ UNCHANGED <<callbacks_, rfds_, wfds_, ready, pending>>
    BY Zenon DEF ServerInv, MainDecref, pollVars
<1>1. PICK i \in DOMAIN listener : i = main.it /\ i # None /\ conn[listener[i]].dead /\ athread.pc = "exit"
    BY <1>0 DEF ThreadOK
<1>2. i \in Fds /\ i \in Nat /\ DOMAIN listener \subseteq Nat
    BY <1>0, <1>1, ServerLifeAssumption, Zenon DEF ServerTypeOK
<1>3. PICK next \in DOMAIN listener \cup {None} :
        /\ next = After(i)
        /\ \A f \in DOMAIN listener : f > i <=> next # None /\ f >= next
    BY <1>0, <1>2, ListenerIterators, Zenon
<1>4. /\ main' \in [pc : {"run", "join", "close", "remove", "decref", "pills", "gone"}, it : Nat \cup {None}]
      /\ main'.pc = "close" /\ main'.it = next
    <2>1. next \in Nat \cup {None} /\ next = After(main.it)
        BY <1>1, <1>2, <1>3, Zenon
    <2> QED BY <1>0, <2>1
<1>5. PICK k \in Conns : k = listener[i] /\ conn[k].dead /\ conn \in [Conns -> ConnObjects] /\ conn' = Decref(conn, k)
    BY <1>0, <1>1, Zenon DEF ServerTypeOK
<1>6. /\ conn' \in [Conns -> ConnObjects]
      /\ \A j \in Conns : conn'[j].dead = conn[j].dead /\ conn'[j].fd = conn[j].fd /\ (j # k => conn'[j] = conn[j])
      /\ conn'[k].ref = conn[k].ref - 1
      /\ conn'[k].st = IF conn[k].ref = 1 /\ conn[k].dead THEN "deleted" ELSE conn[k].st
    <2>1. /\ Decref(conn, k) \in [Conns -> ConnObjects]
          /\ \A j \in Conns :
                /\ Decref(conn, k)[j].dead = conn[j].dead
                /\ Decref(conn, k)[j].fd = conn[j].fd
                /\ j # k => Decref(conn, k)[j] = conn[j]
          /\ Decref(conn, k)[k].ref = conn[k].ref - 1
          /\ Decref(conn, k)[k].st = IF conn[k].ref = 1 /\ conn[k].dead THEN "deleted" ELSE conn[k].st
        BY <1>5, DecrefProps, Zenon
    <2> QED BY <1>5, <2>1, Zenon
<1>7. \A f \in DOMAIN listener : (Keeps(f) <=> f >= i) /\ (Keeps(f)' <=> f > i)
    <2> SUFFICES ASSUME NEW f \in DOMAIN listener PROVE (Keeps(f) <=> f >= i) /\ (Keeps(f)' <=> f > i)
        OBVIOUS
    <2>1. Keeps(f) <=> f >= i
        BY <1>0, <1>1, <1>5 DEF Keeps
    <2>2. Keeps(f)' <=> next # None /\ f >= next
        BY <1>4 DEF Keeps
    <2> QED BY <1>3, <2>1, <2>2, Zenon
<1>8. ByListener(k) /\ ~ByListener(k)'
    <2>1. Keeps(i) /\ ~Keeps(i)'
        <3>1. i >= i /\ ~(i > i)
            BY <1>2
        <3> QED BY <1>1, <1>7, <3>1, Zenon
    <2>2. athread'.ch # k
        <3>1. k # None
            BY ServerLifeAssumption, Zenon
        <3> QED BY <1>0, <1>1, <1>5, <3>1, Zenon DEF ThreadOK
    <2>3. \A f \in DOMAIN listener : listener[f] = k => f = i
        <3>1. \A f \in DOMAIN listener : conn[listener[f]].fd = f
            BY <1>0, Zenon DEF FdOK
        <3> QED BY <1>1, <1>5, <3>1, Zenon
    <2>4. ByListener(k)
        BY <1>1, <1>5, <2>1, Zenon DEF ByListener
    <2>5. ~ByListener(k)'
        BY <1>0, <2>1, <2>2, <2>3, Zenon DEF ByListener
    <2> QED BY <2>4, <2>5, Zenon
<1>9. \A j \in Conns : j # k => (ByListener(j)' <=> ByListener(j))
    <2> SUFFICES ASSUME NEW j \in Conns, j # k PROVE ByListener(j)' <=> ByListener(j)
        OBVIOUS
    <2>1. \A f \in DOMAIN listener : listener[f] = j => (Keeps(f)' <=> Keeps(f))
        <3> SUFFICES ASSUME NEW f \in DOMAIN listener, listener[f] = j PROVE Keeps(f)' <=> Keeps(f)
            OBVIOUS
        <3>1. f # i /\ f \in Nat
            BY <1>2, <1>5, Zenon
        <3>2. f > i <=> f >= i
            BY <1>2, <3>1
        <3> QED BY <1>7, <3>2, Zenon
    <2> QED BY <1>0, <2>1, Zenon DEF ByListener
<1>10. conn[k].st = "open"
    BY <1>0, <1>2, <1>8, HeldOpen, Zenon
<1>11. RefOK'
    <2> SUFFICES ASSUME NEW j \in Conns
                 PROVE  RefGood(conn'[j], Holders(j)', ByListener(j)', j \in lost')
        BY Zenon DEF RefOK
    <2>1. RefGood(conn[j], Holders(j), ByListener(j), j \in lost)
        BY <1>0, Zenon DEF RefOK
    <2>2. conn[j] \in ConnObjects /\ conn'[j] \in ConnObjects /\ conn'[j].dead = conn[j].dead
        BY <1>5, <1>6, Zenon
    <2>3. ByTable(j)' <=> ByTable(j)
        BY <1>0, Zenon DEF ByTable
    <2> DEFINE l == One(ByListener(j))
               ll == One(ByListener(j)')
               t == One(ByTable(j))
               m == Cardinality(Jobs(jobq, j))
               u == Cardinality(Users(wconn, j))
               h == Holders(j)
               hh == Holders(j)'
    <2>4. h = l + t + m + u /\ hh = ll + t + m + u
        <3>1. One(ByTable(j)') = One(ByTable(j))
            BY <2>3, Zenon DEF One
        <3>2. /\ Holders(j) = l + t + m + u
              /\ Holders(j)' = ll + One(ByTable(j)') + m + u
            BY <1>0, Zenon DEF Holders, One
        <3> QED BY <3>1, <3>2, Zenon
    <2>5. l \in {0, 1} /\ ll \in {0, 1} /\ t \in {0, 1} /\ m \in Nat /\ u \in Nat
        <3>1. m \in Nat /\ u \in Nat
            BY <1>0, JobsFinite, UsersFinite, Zenon DEF ServerTypeOK
        <3> QED BY <3>1, Zenon DEF One
    <2>6. CASE j = k
        <3>1. l = 1 /\ ll = 0
            BY <1>8, <2>6, Zenon DEF One
        <3>2. h \in Nat /\ h >= 1 /\ hh = h - 1
            <4> HIDE DEF l, ll, t, m, u, h, hh
            <4> QED BY <2>4, <2>5, <3>1
        <3>3. /\ conn[j].dead /\ conn'[j].ref = conn[j].ref - 1
              /\ conn'[j].st = IF conn[j].ref = 1 /\ conn[j].dead THEN "deleted" ELSE conn[j].st
            BY <1>5, <1>6, <2>6, Zenon
        <3>4. RefGood(conn'[j], Holders(j) - 1, FALSE, j \in lost)
            BY <2>1, <2>2, <3>2, <3>3, RefGiven
        <3>5. ~ByListener(j)' /\ Holders(j)' = Holders(j) - 1 /\ lost' = lost
            BY <1>0, <1>8, <2>6, <3>2, Zenon
        <3> QED BY <3>4, <3>5, Zenon DEF RefGood
    <2>7. CASE j # k
        <3>1. ByListener(j)' <=> ByListener(j)
            BY <1>9, <2>7, Zenon
        <3>2. ll = l
            BY <3>1, Zenon DEF One
        <3>3. hh = h
            <4> HIDE DEF l, ll, t, m, u, h, hh
            <4> QED BY <2>4, <3>2, Zenon
        <3>4. conn'[j] = conn[j] /\ lost' = lost /\ Holders(j)' = Holders(j)
            BY <1>0, <1>6, <2>7, <3>3, Zenon
        <3> QED BY <2>1, <3>1, <3>4 DEF RefGood
    <2> QED BY <2>6, <2>7, Zenon
<1>12. ServerTypeOK'
    BY <1>0, <1>4, <1>6, Zenon DEF ServerTypeOK
<1>13. FdOK'
    <2>1. \A n \in Nonces : conns_'[n] # None => n = Nonce[conns_'[n]]
        BY <1>0, Zenon DEF FdOK
    <2>2. \A j \in Conns : /\ conn'[j].st = "none" <=> conn[j].st = "none"
                           /\ conn'[j].st = "open" => conn[j].st = "open"
        <3> SUFFICES ASSUME NEW j \in Conns
                     PROVE  /\ conn'[j].st = "none" <=> conn[j].st = "none"
                            /\ conn'[j].st = "open" => conn[j].st = "open"
            OBVIOUS
        <3>1. CASE j = k
            <4>1. conn'[j].st \in {"open", "deleted"} /\ conn[j].st = "open"
                BY <1>6, <1>10, <3>1
            <4> QED BY <4>1
        <3>2. CASE j # k
            BY <1>6, <3>2, Zenon
        <3> QED BY <3>1, <3>2, Zenon
    <2> QED BY <1>0, <1>6, <2>1, <2>2, FdFrame, Zenon
<1>14. ThreadOK'
    <2>1. /\ athread'.ch # None => \A f \in DOMAIN listener' : listener'[f] # athread'.ch
          /\ athread'.pc = "exit"
          /\ athread'.ch # None <=> athread'.pc \in {"isdead", "ref"}
          /\ \A w \in Workers : wconn'[w] = None <=> wpc'[w] \in {"idle", "exit"}
        BY <1>0, <1>1, Zenon DEF ThreadOK
    <2>2. main'.it \in DOMAIN listener' \cup {None}
        BY <1>0, <1>3, <1>4, Zenon
    <2> QED BY <1>4, <2>1, <2>2 DEF ThreadOK
<1>15. RemoveOK'
    <2>1. ASSUME NEW g \in Fds, callbacks_'[g] # None, conn'[callbacks_'[g]].dead
          PROVE  \E v \in Workers : wpc'[v] = "remove" /\ wconn'[v] = callbacks_'[g]
        <3>1. callbacks_'[g] = callbacks_[g] /\ callbacks_[g] # None /\ callbacks_[g] \in Conns
            BY <1>0, <2>1, Zenon DEF ServerTypeOK
        <3>2. conn[callbacks_[g]].dead
            BY <1>6, <2>1, <3>1, Zenon
        <3>3. main.pc # "remove"
            BY <1>0
        <3> QED BY <1>0, <3>1, <3>2, <3>3, Zenon DEF RemoveOK
    <2>2. ASSUME NEW v \in Workers, wpc'[v] = "remove", wconn'[v] # None
          PROVE  /\ conn'[wconn'[v]].dead
                 /\ conn'[wconn'[v]].fd \notin rfds_'
                 /\ v \notin pending' => conn'[wconn'[v]].fd \notin ready'.r
        <3>1. wconn'[v] = wconn[v] /\ wconn[v] \in Conns /\ wpc[v] = "remove"
            BY <1>0, <2>2, Zenon DEF ServerTypeOK
        <3>2. /\ conn[wconn[v]].dead /\ conn[wconn[v]].fd \notin rfds_
              /\ v \notin pending => conn[wconn[v]].fd \notin ready.r
            BY <1>0, <2>2, <3>1, Zenon DEF RemoveOK
        <3> QED BY <1>0, <1>6, <3>1, <3>2, Zenon
    <2>3. main'.pc # "remove"
        BY <1>4
    <2> QED BY <2>1, <2>2, <2>3, Zenon DEF RemoveOK
<1>16. RoundOK' /\ PillOK' /\ NoStaleDescriptor'
    <2>1. main.pc \notin {"pills", "gone"} /\ main'.pc \notin {"pills", "gone"}
        BY <1>0, <1>4
    <2> QED BY <1>0, <2>1, Zenon DEF RoundOK, PillOK, NoStaleDescriptor
<1> QED BY <1>11, <1>12, <1>13, <1>14, <1>15, <1>16, Zenon DEF ServerInv

\* ~ThrPool puts its pills behind the jobs that there are.
LEMMA MainPillStep ==
    ASSUME ServerInv, crashed = "no", MainPill
    PROVE  ServerInv'
<1>0. /\ ServerTypeOK /\ RefOK /\ FdOK /\ ThreadOK /\ RemoveOK /\ RoundOK /\ PillOK /\ NoStaleDescriptor
      /\ UNCHANGED <<conn, link, inbox, listener, conns_, athread, wpc, wconn, lost, crashed>>
      /\ UNCHANGED <<callbacks_, rfds_, wfds_, ready, pending>>
    BY Zenon DEF ServerInv, MainPill, pollVars
<1>1. CASE main.pc = "close" /\ main.it = None /\ main' = [pc |-> "pills", it |-> Cardinality(Workers)]
           /\ UNCHANGED jobq
    <2>1. Cardinality(Workers) \in Nat
        BY ServerLifeAssumption, FS_CardinalityType, Zenon
    <2>2. /\ main' \in [pc : {"run", "join", "close", "remove", "decref", "pills", "gone"}, it : Nat \cup {None}]
          /\ main'.pc = "pills" /\ main'.it \in Nat
        BY <1>1, <2>1
    <2>3. \A f \in DOMAIN listener : Keeps(f)' <=> Keeps(f)
        BY <1>1, <2>2 DEF Keeps
    <2>4. athread.pc = "exit"
        BY <1>0, <1>1 DEF ThreadOK
    <2>5. /\ main.pc # "remove" /\ main'.pc # "remove" /\ main'.pc # "gone" /\ main'.pc # "decref"
          /\ main'.pc \notin {"close", "decref"} /\ main'.pc \in {"pills", "gone"}
        BY <1>1, <2>2
    <2>6. UNCHANGED pollVars
        BY <1>0, Zenon DEF pollVars
    <2> QED BY <1>0, <1>1, <2>2, <2>3, <2>4, <2>5, <2>6, MainFrame, Zenon
<1>2. CASE /\ main.pc = "pills" /\ main.it > 0
           /\ jobq' = Append(jobq, None) /\ main' = [main EXCEPT !.it = @ - 1]
    <2>1. /\ main \in [pc : {"run", "join", "close", "remove", "decref", "pills", "gone"}, it : Nat \cup {None}]
          /\ jobq \in Seq(Conns \cup {None})
        BY <1>0, Zenon DEF ServerTypeOK
    <2>2. /\ main' \in [pc : {"run", "join", "close", "remove", "decref", "pills", "gone"}, it : Nat \cup {None}]
          /\ main'.pc = "pills" /\ main'.it \in Nat
        <3>1. main.it \in Nat
            BY <1>0, <1>2 DEF PillOK
        <3> QED BY <1>2, <2>1, <3>1
    <2>3. /\ jobq' \in Seq(Conns \cup {None}) /\ Len(jobq) \in Nat /\ Len(jobq') = Len(jobq) + 1
          /\ \A i \in 1 .. Len(jobq) : jobq'[i] = jobq[i]
          /\ jobq'[Len(jobq) + 1] = None
        BY <1>2, <2>1, AppendProps
    <2>4. ServerTypeOK'
        BY <1>0, <2>2, <2>3, Zenon DEF ServerTypeOK
    <2>5. \A f \in DOMAIN listener : Keeps(f)' <=> Keeps(f)
        BY <1>2, <2>2 DEF Keeps
    <2>6. RefOK'
        <3>1. \A k \in Conns : Cardinality(Jobs(jobq', k)) = Cardinality(Jobs(jobq, k))
            <4> SUFFICES ASSUME NEW k \in Conns
                         PROVE  Cardinality(Jobs(jobq', k)) = Cardinality(Jobs(jobq, k))
                OBVIOUS
            <4>1. One(None = k) = 0
                BY ServerLifeAssumption, Zenon DEF One
            <4>2. Cardinality(Jobs(jobq', k)) = Cardinality(Jobs(jobq, k)) + One(None = k)
                BY <1>2, <2>1, JobsAppend
            <4>3. Cardinality(Jobs(jobq, k)) \in Nat
                BY <2>1, JobsFinite, Zenon
            <4> QED BY <4>1, <4>2, <4>3
        <3> QED BY <1>0, <2>5, <3>1, RefFrame, Zenon
    <2>7. FdOK' /\ RoundOK' /\ NoStaleDescriptor'
        BY <1>0, Zenon DEF FdOK, RoundOK, NoStaleDescriptor
    <2>8. main.pc \notin {"run", "join", "close", "remove", "decref", "gone"}
          /\ main'.pc \notin {"run", "join", "close", "remove", "decref", "gone"}
        BY <1>2, <2>2
    <2>9. ThreadOK'
        BY <1>0, <2>8 DEF ThreadOK
    <2>10. RemoveOK'
        BY <1>0, <2>8 DEF RemoveOK
    <2>11. PillOK'
        <3>1. main'.pc \in {"pills", "gone"} /\ main.pc \in {"pills", "gone"}
            BY <1>2, <2>2
        <3>2. ASSUME NEW i \in 1 .. Len(jobq'), jobq'[i] = None
              PROVE  \A j \in i .. Len(jobq') : jobq'[j] = None
            <4> SUFFICES ASSUME NEW j \in i .. Len(jobq'), jobq'[j] # None PROVE FALSE
                OBVIOUS
            <4>1. j \in 1 .. Len(jobq) /\ i \in 1 .. Len(jobq) /\ j \in i .. Len(jobq)
                BY <2>3
            <4>2. jobq[i] = None /\ jobq[j] # None
                BY <2>3, <3>2, <4>1, Zenon
            <4> QED BY <1>0, <4>1, <4>2, Zenon DEF PillOK
        <3>3. ASSUME NEW w \in Workers, wpc'[w] = "exit", NEW i \in 1 .. Len(jobq')
              PROVE  jobq'[i] = None
            <4>1. \A j \in 1 .. Len(jobq) : jobq[j] = None
                BY <1>0, <3>3, Zenon DEF PillOK
            <4> QED BY <2>3, <4>1
        <3>4. main'.pc # "gone"
            BY <2>2
        <3> QED BY <2>2, <3>1, <3>2, <3>3, <3>4, Zenon DEF PillOK
    <2> QED BY <2>4, <2>6, <2>7, <2>9, <2>10, <2>11, Zenon DEF ServerInv
<1> QED BY <1>1, <1>2, Zenon DEF MainPill

\* The pool is gone when all its threads have exited.
LEMMA MainPoolGoneStep ==
    ASSUME ServerInv, crashed = "no", MainPoolGone
    PROVE  ServerInv'
<1>0. /\ ServerTypeOK /\ ThreadOK /\ PillOK
      /\ main.pc = "pills" /\ (\A w \in Workers : wpc[w] = "exit") /\ main' = [main EXCEPT !.pc = "gone"]
      /\ UNCHANGED <<conn, link, inbox, listener, conns_, athread, jobq, wpc, wconn, lost, crashed>>
      /\ UNCHANGED pollVars
    BY Zenon DEF ServerInv, MainPoolGone
<1>1. /\ main' \in [pc : {"run", "join", "close", "remove", "decref", "pills", "gone"}, it : Nat \cup {None}]
      /\ main'.pc = "gone" /\ main'.it = main.it
    <2>1. main \in [pc : {"run", "join", "close", "remove", "decref", "pills", "gone"}, it : Nat \cup {None}]
        BY <1>0, Zenon DEF ServerTypeOK
    <2> QED BY <1>0, <2>1
<1>2. \A f \in DOMAIN listener : Keeps(f)' <=> Keeps(f)
    BY <1>0, <1>1 DEF Keeps
<1>3. /\ main.pc # "remove" /\ main'.pc # "remove" /\ main'.pc # "decref" /\ main'.pc \notin {"close", "decref"}
      /\ main'.pc \in {"pills", "gone"}
    BY <1>0, <1>1
<1>4. athread.pc = "exit" /\ main'.it \in Nat
    <2>1. athread.pc = "exit"
        BY <1>0 DEF ThreadOK
    <2>2. main.it \in Nat
        BY <1>0 DEF PillOK
    <2> QED BY <1>1, <2>1, <2>2, Zenon
<1> QED BY <1>0, <1>1, <1>2, <1>3, <1>4, MainFrame, Zenon

-----------------------------------------------------------------------------
(* The theorems.                                                           *)

\* A server without connections.
LEMMA InitServerInv ==
    ASSUME Init
    PROVE  ServerInv
<1>1. ServerTypeOK
    <2>1. /\ conn \in [Conns -> ConnObjects] /\ athread \in [pc : {"select", "accept", "isdead", "ref", "exit"},
                                                            it : Fds \cup {None}, ch : Conns \cup {None}]
          /\ ready \in [r : SUBSET Fds, w : SUBSET Fds]
          /\ main \in [pc : {"run", "join", "close", "remove", "decref", "pills", "gone"}, it : Nat \cup {None}]
        <3>1. NoConn \in ConnObjects
            BY DEF NoConn, ConnObjects
        <3>2. conn \in [Conns -> ConnObjects]
            BY <3>1, Zenon DEF Init
        <3>3. athread \in [pc : {"select", "accept", "isdead", "ref", "exit"},
                           it : Fds \cup {None}, ch : Conns \cup {None}]
            BY DEF Init
        <3>4. /\ ready \in [r : SUBSET Fds, w : SUBSET Fds]
              /\ main \in [pc : {"run", "join", "close", "remove", "decref", "pills", "gone"}, it : Nat \cup {None}]
            BY DEF Init
        <3> QED BY <3>2, <3>3, <3>4, Zenon
    <2>2. DOMAIN listener = {} /\ listener \in [DOMAIN listener -> Conns]
        BY DEF Init
    <2>3. /\ link \in [Conns -> {"none", "up", "down"}] /\ inbox \in [Conns -> Nat]
          /\ conns_ \in [Nonces -> Conns \cup {None}] /\ callbacks_ \in [Fds -> Conns \cup {None}]
          /\ rfds_ \subseteq Fds /\ wfds_ \subseteq Fds /\ jobq \in Seq(Conns \cup {None})
        BY DEF Init
    <2>4. /\ wpc \in [Workers -> {"idle", "pick", "send", "queued", "blocked", "remove", "done", "exit"}]
          /\ wconn \in [Workers -> Conns \cup {None}]
        BY DEF Init
    <2> QED BY <2>1, <2>2, <2>3, <2>4, Zenon DEF ServerTypeOK
<1>2. /\ DOMAIN listener = {} /\ athread.ch = None /\ athread.pc = "select" /\ main.pc = "run"
      /\ ready.r = {} /\ jobq = <<>> /\ Len(jobq) = 0
      /\ \A k \in Conns : conn[k].st = "none" /\ ~conn[k].dead /\ conn[k].ref = 0
      /\ \A w \in Workers : wconn[w] = None /\ wpc[w] = "idle"
      /\ \A n \in Nonces : conns_[n] = None
      /\ \A f \in Fds : callbacks_[f] = None
    BY DEF Init, NoConn
<1>3. RefOK
    <2> SUFFICES ASSUME NEW k \in Conns PROVE RefGood(conn[k], Holders(k), ByListener(k), k \in lost)
        BY Zenon DEF RefOK
    <2>1. k # None /\ Nonce[k] \in Nonces
        BY ServerLifeAssumption, Zenon DEF Nonces
    <2>2. ~ByListener(k) /\ ~ByTable(k)
        BY <1>2, <2>1, Zenon DEF ByListener, ByTable
    <2>3. Jobs(jobq, k) = {} /\ Users(wconn, k) = {}
        BY <1>2, <2>1 DEF Jobs, Users
    <2>4. One(ByListener(k)) = 0 /\ One(ByTable(k)) = 0
        BY <2>2, Zenon DEF One
    <2>5. Cardinality(Jobs(jobq, k)) = 0 /\ Cardinality(Users(wconn, k)) = 0
        BY <2>3, FS_EmptySet, Zenon
    <2>6. Holders(k) = 0
        BY <2>4, <2>5 DEF Holders
    <2> QED BY <1>2, <2>6 DEF RefGood
<1>4. FdOK
    <2>1. \A j, k \in Conns : ~(conn[j].st = "open")
        BY <1>2
    <2> QED BY <1>2, <2>1, Zenon DEF FdOK
<1>5. ThreadOK
    <2>1. athread.pc \notin {"isdead", "ref"} /\ athread.pc # "ref"
          /\ main.pc \notin {"close", "remove", "decref"} /\ main.pc \notin {"remove", "decref"}
        BY <1>2
    <2> QED BY <1>2, <2>1 DEF ThreadOK
<1>6. RemoveOK
    <2>1. \A w \in Workers : wpc[w] # "remove"
        BY <1>2
    <2> QED BY <1>2, <2>1 DEF RemoveOK
<1>7. RoundOK
    BY <1>2, Zenon DEF RoundOK
<1>8. PillOK
    BY <1>2 DEF PillOK
<1>9. NoStaleDescriptor
    BY DEF Init, NoStaleDescriptor
<1> QED BY <1>1, <1>3, <1>4, <1>5, <1>6, <1>7, <1>8, <1>9, Zenon DEF ServerInv

\* The parts of the invariant are preserved by every critical section of the accept
\* thread, the PollMgr's thread, the workers and the thread that deletes the rpcs.
LEMMA NextServerInv ==
    ASSUME ServerInv, [Next]_vars
    PROVE  ServerInv'
<1>1. CASE UNCHANGED vars
    <2>1. /\ UNCHANGED <<conn, link, inbox, listener, conns_, athread, callbacks_, rfds_, wfds_>>
          /\ UNCHANGED <<ready, pending, jobq, wpc, wconn, main, lost, crashed>>
        BY <1>1, Zenon DEF vars
    <2>2. ServerTypeOK'
        BY <2>1, Zenon DEF ServerInv, ServerTypeOK
    <2>5. FdOK' /\ ThreadOK'
        <3>1. FdOK'
            BY <2>1 DEF ServerInv, FdOK
        <3>2. ThreadOK'
            BY <2>1 DEF ServerInv, ThreadOK
        <3> QED BY <3>1, <3>2
    <2>3. RefOK'
        BY <2>1, ZenonT(40) DEF ServerInv, RefOK, RefGood, Holders, ByListener, ByTable, Keeps
    <2>4. RemoveOK' /\ RoundOK' /\ PillOK' /\ NoStaleDescriptor'
        BY <2>1, Zenon DEF ServerInv, RemoveOK, RoundOK, PillOK, NoStaleDescriptor
    <2> QED BY <2>2, <2>3, <2>4, <2>5, Zenon DEF ServerInv
<1>2. CASE Next
    <2>0. crashed = "no"
        BY <1>2, Zenon DEF Next
    <2>1. ASSUME NEW k \in Conns, Connect(k) \/ Request(k) \/ Break(k) PROVE ServerInv'
        BY <2>1, ClientStep, Zenon
    <2>2. CASE AcceptStep
        <3>1. CASE AcceptSelect \/ CollectIsDead
            BY <2>0, <3>1, AcceptLoopStep, Zenon
        <3>2. ASSUME NEW k \in Conns, Accept(k) PROVE ServerInv'
            BY <2>0, <3>2, AcceptStepInv, Zenon
        <3>3. CASE CollectRef
            BY <2>0, <3>3, AcceptLoopStep, CollectStep, Zenon
        <3>4. CASE AcceptStore
            BY <2>0, <3>4, AcceptStoreStep, Zenon
        <3> QED BY <2>2, <3>1, <3>2, <3>3, <3>4, Zenon DEF AcceptStep
    <2>3. CASE PollStep
        <3>1. CASE PollRound
            BY <2>0, <3>1, PollRoundStep, Zenon
        <3>2. ASSUME NEW f \in Fds, ReadCb(f) PROVE ServerInv'
            BY <2>0, <3>2, ReadCbStep, Zenon
        <3>3. ASSUME NEW f \in Fds, WriteCb(f) PROVE ServerInv'
            BY <2>0, <3>3, WriteCbStep, Zenon
        <3> QED BY <2>3, <3>1, <3>2, <3>3, Zenon DEF PollStep
    <2>4. ASSUME NEW w \in Workers, WorkerStep(w) PROVE ServerInv'
        BY <2>0, <2>4, TakePillStep, TakeJobStep, PickConnStep, SendStep, SendRemovedStep, DoneStep, Zenon
           DEF WorkerStep
    <2>5. CASE MainDelete
        BY <2>0, <2>5, MainDeleteStep, Zenon
    <2>6. CASE MainStep
        BY <2>0, <2>6, MainJoinStep, MainCloseStep, MainRemovedStep, MainDecrefStep, MainPillStep,
           MainPoolGoneStep, Zenon DEF MainStep
    <2> QED BY <1>2, <2>1, <2>2, <2>3, <2>4, <2>5, <2>6, Zenon DEF Next
<1> QED BY <1>1, <1>2, Zenon

(***************************************************************************)
(* Whatever the threads do, the reference count of a connection covers     *)
(* all that hold it, a connection is deleted only when it is dead and held *)
(* by nobody, and descriptors, callbacks, iterators, jobs and pills agree. *)
(***************************************************************************)
THEOREM ServerInvariant == Spec => []ServerInv
<1>1. Init => ServerInv
    BY InitServerInv
<1>2. ServerInv /\ [Next]_vars => ServerInv'
    BY NextServerInv
<1> QED BY <1>1, <1>2, PTL DEF Spec

(***************************************************************************)
(* connection::decref deletes a connection only when nobody can come to it *)
(* any more: the listener, conns_, the queue, a worker and the callbacks   *)
(* of the PollMgr have only connections that are open.                     *)
(***************************************************************************)
THEOREM DeletedUnused == Spec => []NoUseOfDeleted
<1>1. ServerInv => NoUseOfDeleted
    <2> SUFFICES ASSUME ServerInv, NEW k \in Conns, conn[k].st = "deleted"
                 PROVE  /\ main.pc \in {"run", "join"} => k \notin Listed
                        /\ k \notin Queued
                        /\ \A n \in Nonces : conns_[n] # k
                        /\ \A w \in Workers : wconn[w] # k
                        /\ \A f \in Fds : callbacks_[f] # k
        BY Zenon DEF NoUseOfDeleted
    <2>1. ServerTypeOK /\ RefOK /\ FdOK /\ ThreadOK /\ RemoveOK
        BY Zenon DEF ServerInv
    <2>2. conn[k].st # "open" /\ k # None
        BY ServerLifeAssumption
    <2>3. ~ByListener(k) /\ ~ByTable(k) /\ Jobs(jobq, k) = {} /\ Users(wconn, k) = {}
        BY <2>1, <2>2, HeldOpen, Zenon
    <2>4. main.pc \in {"run", "join"} => k \notin Listed
        BY <2>3, Zenon DEF ByListener, Keeps, Listed
    <2>5. k \notin Queued
        <3>1. jobq \in Seq(Conns \cup {None})
            BY <2>1, Zenon DEF ServerTypeOK
        <3>2. DOMAIN jobq = 1 .. Len(jobq)
            BY <3>1
        <3> QED BY <2>3, <3>2, Zenon DEF Queued, Jobs
    <2>6. \A n \in Nonces : conns_[n] # k
        BY <2>1, <2>2, <2>3, Zenon DEF FdOK, ByTable
    <2>7. \A w \in Workers : wconn[w] # k
        BY <2>3, Zenon DEF Users
    <2>8. \A f \in Fds : callbacks_[f] # k
        BY <2>1, <2>2, HeldOpen, Zenon
    <2> QED BY <2>4, <2>5, <2>6, <2>7, <2>8, Zenon
<1> QED BY <1>1, ServerInvariant, PTL

(***************************************************************************)
(* A descriptor that the process uses again is never taken for that of the *)
(* connection that had it before: "assert(errno != EAGAIN)" of readpdu and *)
(* the assertion of add_callback hold.                                     *)
(***************************************************************************)
THEOREM DescriptorsFresh == Spec => []NoStaleDescriptor
<1>1. ServerInv => NoStaleDescriptor
    BY Zenon DEF ServerInv
<1> QED BY <1>1, ServerInvariant, PTL

(***************************************************************************)
(* Once ~tcpsconn has returned, every connection that the PollMgr can call *)
(* back is dead: no request is handed to the pool that is being deleted.   *)
(***************************************************************************)
THEOREM UpcallsEnded == Spec => []NoLateUpcall
<1>1. ServerInv => NoLateUpcall
    <2> SUFFICES ASSUME ServerInv, main.pc \in {"pills", "gone"}, NEW f \in Fds, callbacks_[f] # None,
                        ~conn[callbacks_[f]].dead
                 PROVE  FALSE
        BY Zenon DEF NoLateUpcall
    <2>1. ServerTypeOK /\ RefOK /\ FdOK /\ ThreadOK /\ RemoveOK
        BY Zenon DEF ServerInv
    <2>2. PICK k \in Conns : k = callbacks_[f]
        BY <2>1, Zenon DEF ServerTypeOK
    <2>3. conn[k].st = "open" /\ ~conn[k].dead
        BY <2>1, <2>2, HeldOpen, Zenon
    <2>4. ByListener(k)
        BY <2>1, <2>3, Zenon DEF RefOK, RefGood
    <2>5. \A g : ~Keeps(g)
        BY DEF Keeps
    <2>6. athread.ch = k
        BY <2>4, <2>5, Zenon DEF ByListener
    <2>7. athread.pc = "exit" /\ athread.ch = None
        BY <2>1 DEF ThreadOK
    <2> QED BY <2>6, <2>7, ServerLifeAssumption, Zenon
<1> QED BY <1>1, ServerInvariant, PTL

(***************************************************************************)
(* When ~rpcs has returned, the only connections that are left are those   *)
(* of conns_, which the destructor does not go through, and those whose    *)
(* reference a request for an older instance has lost.                     *)
(***************************************************************************)
THEOREM ShutdownClean == Spec => []NothingLeft
<1>1. ServerInv => NothingLeft
    <2> SUFFICES ASSUME ServerInv, main.pc = "gone", NEW k \in Conns, conn[k].st = "open", k \notin lost,
                        \A n \in Nonces : conns_[n] # k
                 PROVE  FALSE
        BY Zenon DEF NothingLeft
    <2>1. RefOK /\ ThreadOK /\ PillOK
        BY Zenon DEF ServerInv
    <2>2. k # None /\ Nonce[k] \in Nonces /\ Workers # {}
        BY ServerLifeAssumption, Zenon DEF Nonces
    <2>3. ~ByListener(k) /\ ~ByTable(k)
        <3>1. athread.ch = None /\ \A g : ~Keeps(g)
            BY <2>1 DEF ThreadOK, Keeps
        <3> QED BY <2>2, <3>1, Zenon DEF ByListener, ByTable
    <2>4. Users(wconn, k) = {}
        BY <2>1, <2>2 DEF PillOK, Users
    <2>5. Jobs(jobq, k) = {}
        <3>1. \A i \in 1 .. Len(jobq) : jobq[i] = None
            BY <2>1, <2>2 DEF PillOK
        <3> QED BY <2>2, <3>1, Zenon DEF Jobs
    <2>6. One(ByListener(k)) = 0 /\ One(ByTable(k)) = 0
        BY <2>3, Zenon DEF One
    <2>7. Cardinality(Jobs(jobq, k)) = 0 /\ Cardinality(Users(wconn, k)) = 0
        BY <2>4, <2>5, FS_EmptySet, Zenon
    <2>8. Holders(k) = 0
        BY <2>6, <2>7 DEF Holders
    <2>9. conn[k].ref = Holders(k) /\ conn[k].ref >= 1
        BY <2>1, Zenon DEF RefOK, RefGood
    <2> QED BY <2>8, <2>9
<1> QED BY <1>1, ServerInvariant, PTL
====
