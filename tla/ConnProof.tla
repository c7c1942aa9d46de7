----------------------------- MODULE ConnProof -----------------------------
(***************************************************************************)
(* Proofs about Connection, for any number of senders, any sizes of the    *)
(* PDUs and of the kernel's buffer, and any stream of PDUs to read.        *)
(***************************************************************************)
EXTENDS Connection, FiniteSetTheorems, WellFoundedInduction, TLAPS

-----------------------------------------------------------------------------
(* Types.                                                                  *)

SenderPcs == {"idle", "sendwait", "sending", "complete", "finish", "remove", "removing",
              "removed", "returned", "released"}
OwnerPcs == {"hold", "remove", "removing", "removed", "released"}
PollPcs == {"top", "copy", "select", "read", "inread", "write", "inwrite"}
Pdus == [buf : Senders \cup {Nobody}, sz : Nat, solong : Nat \cup {-1}]

TypeOK ==
    /\ dead_ \in BOOLEAN
    /\ wpdu_ \in Pdus
    /\ wpdu_.sz # 0 => wpdu_.buf \in Senders
    /\ ~dead_ => wpdu_.solong \in 0 .. wpdu_.sz
    /\ spc \in [Senders -> SenderPcs] /\ sret \in [Senders -> BOOLEAN]
    /\ opc \in OwnerPcs
    /\ link \in {"up", "down", "shut"} /\ room \in Nat
    /\ out \in Seq(Senders)

\* What writepdu returns: a PDU that failed has no size, and otherwise as many units
\* more of it are written as the kernel has taken.
LEMMA WritesLemma ==
    ASSUME TypeOK, NEW pdu \in Pdus, pdu.solong \in 0 .. pdu.sz, NEW w \in Writes(pdu)
    PROVE  /\ w.ok \in BOOLEAN /\ w.pdu \in Pdus /\ w.n \in Nat
           /\ w.pdu.buf = pdu.buf
           /\ w.ok => w.pdu.sz = pdu.sz /\ w.pdu.solong = pdu.solong + w.n /\ w.pdu.solong <= pdu.sz
           /\ ~w.ok => w.n = 0 /\ w.pdu.sz = 0
           /\ link = "up" => w.n <= room
<1> DEFINE left == pdu.sz - pdu.solong
           took(n) == [ok |-> TRUE, pdu |-> [pdu EXCEPT !.solong = @ + n], n |-> n]
           failed == [ok |-> FALSE, pdu |-> [buf |-> pdu.buf, sz |-> 0, solong |-> -1], n |-> 0]
           some == IF left < room THEN left ELSE room
<1>1. pdu.buf \in Senders \cup {Nobody} /\ pdu.sz \in Nat /\ pdu.solong \in Nat /\ left \in Nat
    BY DEF Pdus
<1>2. ASSUME NEW n \in Nat, n <= left, w = took(n), link = "up" => n <= room
      PROVE  /\ w.ok = TRUE /\ w.pdu \in Pdus /\ w.n = n
             /\ w.pdu.buf = pdu.buf /\ w.pdu.sz = pdu.sz /\ w.pdu.solong = pdu.solong + n
    <2>1. [pdu EXCEPT !.solong = @ + n] = [buf |-> pdu.buf, sz |-> pdu.sz, solong |-> pdu.solong + n]
        BY DEF Pdus
    <2>2. pdu.solong + n \in Nat
        BY <1>1
    <2> QED BY <1>1, <1>2, <2>1, <2>2 DEF Pdus
<1>3. ASSUME w = failed
      PROVE  w.ok = FALSE /\ w.n = 0 /\ w.pdu \in Pdus /\ w.pdu.buf = pdu.buf /\ w.pdu.sz = 0
    BY <1>1, <1>3 DEF Pdus
<1>4. room \in Nat /\ some \in Nat /\ some <= left /\ some <= room
    BY <1>1 DEF TypeOK
<1>5. \/ w = took(0) /\ left = 0
      \/ w = took(some) /\ link = "up"
      \/ w = took(left) /\ link # "up"
      \/ w = failed
    BY Zenon DEF Writes
<1>6. \/ w = failed
      \/ \E n \in Nat : n <= left /\ w = took(n) /\ (link = "up" => n <= room)
    <2> HIDE DEF left, took, failed, some
    <2>1. 0 \in Nat /\ 0 <= left /\ 0 <= room /\ left <= left
        BY <1>1, <1>4
    <2> QED BY <1>1, <1>4, <1>5, <2>1, Zenon
<1>7. CASE w = failed
    BY <1>3, <1>4, <1>7
<1>8. ASSUME NEW n \in Nat, n <= left, w = took(n), link = "up" => n <= room
      PROVE  /\ w.ok \in BOOLEAN /\ w.pdu \in Pdus /\ w.n \in Nat
             /\ w.pdu.buf = pdu.buf
             /\ w.ok => w.pdu.sz = pdu.sz /\ w.pdu.solong = pdu.solong + w.n /\ w.pdu.solong <= pdu.sz
             /\ ~w.ok => w.n = 0 /\ w.pdu.sz = 0
             /\ link = "up" => w.n <= room
    <2>1. /\ w.ok = TRUE /\ w.pdu \in Pdus /\ w.n = n
          /\ w.pdu.buf = pdu.buf /\ w.pdu.sz = pdu.sz /\ w.pdu.solong = pdu.solong + n
        BY <1>2, <1>8, Zenon
    <2>2. pdu.solong + n <= pdu.sz
        BY <1>1, <1>8
    <2> HIDE DEF took
    <2> QED BY <1>8, <2>1, <2>2, Zenon
<1> QED BY <1>6, <1>7, <1>8, Zenon

\* Only Died, a write that fails and closeconn touch dead_, and they set it.
LEMMA DeadStays ==
    ASSUME [Next]_vars, dead_
    PROVE  dead_'
<1>1. CASE UNCHANGED vars
    BY <1>1 DEF vars, object
<1>2. CASE Next
    <2>1. ASSUME NEW s \in Senders, SenderStep(s)
          PROVE  dead_'
        BY <2>1, Zenon DEF SenderStep, SendNot, Send, MaySend, Finish, Remove, Removed, Release, Decref, object
    <2>2. CASE OwnerStep
        BY <2>2, Zenon DEF OwnerStep, Drop, Close, CloseRemove, CloseRemoved, Decref, object
    <2>3. CASE PollStep
        BY <2>3, Zenon DEF PollStep, Top, Copy, Select, Check, WriteCb, ReadCb, object
    <2>4. CASE Arrive \/ Drain \/ Break \/ WakeSender \/ WakeRemover
        BY <2>4, Zenon DEF Arrive, Drain, Break, WakeSender, WakeRemover, object
    <2> QED BY <1>2, <2>1, <2>2, <2>3, <2>4, Zenon DEF Next
<1> QED BY <1>1, <1>2, Zenon

\* The PDU that is written, when there is one.
LEMMA WriteParts ==
    ASSUME TypeOK
    PROVE  /\ ~dead_ /\ wpdu_.sz # 0 => wpdu_.buf \in Senders /\ wpdu_.solong \in 0 .. wpdu_.sz
           /\ wpdu_ \in Pdus
           /\ \A s \in Senders : /\ [buf |-> s, sz |-> WSize, solong |-> 0] \in Pdus
                                 /\ 0 \in 0 .. WSize
    BY ConnectionAssumption DEF TypeOK, Pdus

\* The units that a write adds to what went out.
Units(n, s) == [i \in 1 .. n |-> s]

\* writepdu appends that many units of its PDU, and takes no more than there is
\* room for.
LEMMA WroteLemma ==
    ASSUME TypeOK, NEW pdu \in Pdus, pdu.buf \in Senders, pdu.solong \in 0 .. pdu.sz,
           NEW w \in Writes(pdu), Wrote(w)
    PROVE  /\ link' = link /\ room' \in Nat
           /\ out' = out \o Units(w.n, pdu.buf) /\ out' \in Seq(Senders)
<1>1. w.n \in Nat /\ w.pdu.buf = pdu.buf /\ (link = "up" => w.n <= room)
    BY WritesLemma
<1>2. room \in Nat /\ out \in Seq(Senders)
    BY DEF TypeOK
<1>3. Units(w.n, pdu.buf) \in Seq(Senders)
    BY <1>1 DEF Units
<1>4. out' = out \o Units(w.n, pdu.buf)
    BY <1>1, Zenon DEF Wrote, Units
<1>5. room' \in Nat
    BY <1>1, <1>2 DEF Wrote
<1>6. out \o Units(w.n, pdu.buf) \in Seq(Senders)
    BY <1>2, <1>3
<1> QED BY <1>4, <1>5, <1>6, Zenon DEF Wrote

\* send returns.
LEMMA ReturnType ==
    ASSUME TypeOK, NEW s \in Senders, NEW ret \in BOOLEAN, Return(s, ret)
    PROVE  /\ wpdu_' \in Pdus /\ wpdu_'.sz = 0 /\ wpdu_'.solong = 0
           /\ spc' \in [Senders -> SenderPcs] /\ sret' \in [Senders -> BOOLEAN]
    BY DEF Return, TypeOK, NoWrite, Pdus, SenderPcs

\* Every step of senders, PollMgr, owner and peer keeps the types.
LEMMA TypeStep ==
    ASSUME TypeOK, [Next]_vars
    PROVE  TypeOK'
<1>1. CASE UNCHANGED vars
    BY <1>1 DEF TypeOK, vars, object, sending, socket
<1>2. ASSUME NEW s \in Senders, Send(s)
      PROVE  TypeOK'
    <2> DEFINE pdu == [buf |-> s, sz |-> WSize, solong |-> 0]
    <2>1. pdu \in Pdus /\ pdu.buf = s /\ pdu.sz = WSize /\ pdu.solong = 0 /\ pdu.solong \in 0 .. pdu.sz
        BY WriteParts, ConnectionAssumption
    <2>2. PICK w \in Writes(pdu) :
             /\ Wrote(w)
             /\ \/ /\ ~w.ok /\ dead_' = TRUE /\ wpdu_' = w.pdu
                   /\ spc' = [spc EXCEPT ![s] = "remove"] /\ sret' = sret
                \/ /\ w.ok /\ Return(s, TRUE) /\ dead_' = dead_
                \/ /\ w.ok /\ wpdu_' = w.pdu /\ spc' = [spc EXCEPT ![s] = "complete"]
                   /\ dead_' = dead_ /\ sret' = sret
        BY <1>2, Zenon DEF Send
    <2> HIDE DEF pdu
    <2>3. /\ w.ok \in BOOLEAN /\ w.pdu \in Pdus /\ w.pdu.buf = s
          /\ w.ok => w.pdu.sz = WSize /\ w.pdu.solong \in 0 .. WSize
          /\ ~w.ok => w.pdu.sz = 0
        BY <2>1, <2>2, WritesLemma DEF Pdus
    <2>4. link' = link /\ room' \in Nat /\ out' \in Seq(Senders)
        BY <2>1, <2>2, WroteLemma
    <2>5. opc' = opc
        BY <1>2, Zenon DEF Send
    <2>6. CASE ~w.ok /\ dead_' = TRUE /\ wpdu_' = w.pdu /\ spc' = [spc EXCEPT ![s] = "remove"] /\ sret' = sret
        BY <2>3, <2>4, <2>5, <2>6 DEF TypeOK, SenderPcs
    <2>7. CASE w.ok /\ Return(s, TRUE) /\ dead_' = dead_
        <3>1. /\ wpdu_' \in Pdus /\ wpdu_'.sz = 0 /\ wpdu_'.solong = 0
              /\ spc' \in [Senders -> SenderPcs] /\ sret' \in [Senders -> BOOLEAN]
            BY <2>7, ReturnType
        <3> QED BY <2>4, <2>5, <2>7, <3>1 DEF TypeOK
    <2>8. CASE w.ok /\ wpdu_' = w.pdu /\ spc' = [spc EXCEPT ![s] = "complete"] /\ dead_' = dead_ /\ sret' = sret
        BY <2>3, <2>4, <2>5, <2>8 DEF TypeOK, SenderPcs
    <2> QED BY <2>2, <2>6, <2>7, <2>8, Zenon
<1>3. ASSUME NEW s \in Senders, SendNot(s) \/ Remove(s) \/ Release(s)
      PROVE  TypeOK'
    BY <1>3 DEF SendNot, Remove, Release, Decref, TypeOK, SenderPcs, object, socket
<1>4. ASSUME NEW s \in Senders, Finish(s) \/ Removed(s)
      PROVE  TypeOK'
    <2>1. \E ret \in BOOLEAN : Return(s, ret)
        BY <1>4, Zenon DEF Finish, Removed
    <2>2. dead_' = dead_ /\ opc' = opc /\ link' = link /\ room' = room /\ out' = out
        BY <1>4, Zenon DEF Finish, Removed, object, socket
    <2> QED BY <2>1, <2>2, ReturnType DEF TypeOK
<1>5. CASE OwnerStep
    BY <1>5 DEF OwnerStep, Drop, Close, CloseRemove, CloseRemoved, Decref, TypeOK, OwnerPcs, object, sending, socket
<1>6. CASE Top \/ Copy \/ Select \/ Check
    BY <1>6 DEF Top, Copy, Select, Check, Wake, TypeOK, SenderPcs, OwnerPcs, object, sending, socket
<1>7. CASE WriteCb
    <2>1. CASE dead_ \/ wpdu_.sz = 0
        BY <1>7, <2>1 DEF WriteCb, TypeOK, sending, socket
    <2>2. CASE ~dead_ /\ wpdu_.sz # 0
        <3>1. PICK w \in Writes(wpdu_) :
                 /\ Wrote(w) /\ wpdu_' = w.pdu /\ dead_' = ~w.ok
                 /\ spc' = spc \/ SignalComplete
            BY <1>7, <2>2, Zenon DEF WriteCb
        <3>2. wpdu_ \in Pdus /\ wpdu_.buf \in Senders /\ wpdu_.solong \in 0 .. wpdu_.sz
            BY <2>2, WriteParts
        <3>3. /\ w.ok \in BOOLEAN /\ w.pdu \in Pdus /\ w.pdu.buf = wpdu_.buf
              /\ w.ok => w.pdu.sz = wpdu_.sz /\ w.pdu.solong \in 0 .. wpdu_.sz
            BY <3>1, <3>2, WritesLemma DEF Pdus
        <3>4. link' = link /\ room' \in Nat /\ out' \in Seq(Senders)
            BY <3>1, <3>2, WroteLemma
        <3>5. opc' = opc /\ sret' = sret
            BY <1>7, <2>2, Zenon DEF WriteCb, sending
        <3>6. spc' \in [Senders -> SenderPcs]
            BY <3>1 DEF SignalComplete, TypeOK, SenderPcs
        <3> QED BY <3>1, <3>2, <3>3, <3>4, <3>5, <3>6 DEF TypeOK
    <2> QED BY <2>1, <2>2, Zenon
<1>8. CASE ReadCb
    <2>1. /\ wpdu_' = wpdu_ /\ sret' = sret /\ out' = out /\ opc' = opc /\ link' = link /\ room' = room
          /\ spc' = spc \/ SignalComplete
          /\ dead_' \in BOOLEAN
        BY <1>8, Zenon DEF ReadCb, Died, socket, TypeOK
    <2>2. spc' \in [Senders -> SenderPcs]
        BY <2>1 DEF SignalComplete, TypeOK, SenderPcs
    <2>3. ~dead_' => ~dead_
        BY <1>8, DeadStays, Zenon DEF PollStep, Next
    <2> QED BY <2>1, <2>2, <2>3 DEF TypeOK
<1>9. CASE Arrive \/ Drain \/ Break
    BY <1>9, ConnectionAssumption DEF Arrive, Drain, Break, TypeOK, object, sending
<1>10. CASE WakeSender
    BY <1>10 DEF WakeSender, TypeOK, SenderPcs, object, socket
<1>11. CASE WakeRemover
    BY <1>11 DEF WakeRemover, TypeOK, SenderPcs, OwnerPcs, object, socket
<1> QED BY <1>1, <1>2, <1>3, <1>4, <1>5, <1>6, <1>7, <1>8, <1>9, <1>10, <1>11, Zenon
    DEF Next, SenderStep, PollStep

-----------------------------------------------------------------------------
(* The life of the connection object.                                      *)

\* Some thread stands at p in send or closeconn.
SomeAt(p) == opc = p \/ \E s \in Senders : spc[s] = p

\* Some thread has made the connection dead and is not through with block_remove_fd.
Remover == SomeAt("remove") \/ SomeAt("removing") \/ SomeAt("removed")

Unwatched == ~rfds_ /\ ~wfds_

\* select does not wait on the descriptor, and no callback is to be made.
Quiet == ppc \in {"top", "copy"} \/ (ppc = "select" /\ ~readable /\ ~writable)

\* No callback can be made any more.
Detached ==
    /\ ~callbacks_ /\ Unwatched
    /\ Quiet \/ ppc \in {"read", "write"}

Holding(p) == {s \in Senders : p[s] # "released"}

(***************************************************************************)
(* The inductive invariant.  A reference is held by every sender until it  *)
(* releases it and by the owner; the connection dies before block_remove_fd*)
(* is called; the descriptor is out of the sets while block_remove_fd      *)
(* waits, and pending_change_ keeps its wait until the thread of PollMgr   *)
(* begins another turn; a dead connection is detached, or a thread is      *)
(* about to detach it.                                                     *)
(***************************************************************************)
LifeOK ==
    /\ opc # "hold" => dead_
    /\ Remover \/ gone => dead_
    /\ SomeAt("removing") \/ SomeAt("removed") => Unwatched
    /\ SomeAt("removing") => pending_change_
    /\ ~woken => /\ SomeAt("removed") => Quiet
                 /\ gone => Detached
                 /\ dead_ => Remover \/ Detached

RefsOK ==
    /\ refno_ = Cardinality(Holding(spc)) + (IF opc = "released" THEN 0 ELSE 1)
    /\ deleted => refno_ = 0

\* Every step keeps LifeOK: the cases that matter are those of block_remove_fd and of
\* the turns of wait_loop.
LEMMA LifeStep ==
    ASSUME TypeOK, LifeOK, [Next]_vars
    PROVE  LifeOK'
<1> USE DEF SomeAt, Remover, Unwatched, Quiet, Detached
<1>1. CASE UNCHANGED vars
    BY <1>1 DEF LifeOK, vars, object, sending, watched, poll, rest
<1>2. ASSUME NEW s \in Senders, SendNot(s)
      PROVE  LifeOK'
    BY <1>2 DEF SendNot, LifeOK, TypeOK, SenderPcs, object, watched, poll, rest
<1>3. ASSUME NEW s \in Senders, Send(s)
      PROVE  LifeOK'
    BY <1>3 DEF Send, MaySend, Return, AddWriteCallback, LifeOK, TypeOK, SenderPcs, object, watched, poll, rest
<1>4. ASSUME NEW s \in Senders, Finish(s)
      PROVE  LifeOK'
    BY <1>4 DEF Finish, Return, LifeOK, TypeOK, SenderPcs, object, watched, poll, rest
<1>5. ASSUME NEW s \in Senders, Remove(s)
      PROVE  LifeOK'
    BY <1>5 DEF Remove, BlockRemove, LifeOK, TypeOK, SenderPcs, object, watched, poll, rest
<1>6. ASSUME NEW s \in Senders, Removed(s)
      PROVE  LifeOK'
    BY <1>6 DEF Removed, BlockRemoved, Return, LifeOK, TypeOK, SenderPcs, object, watched, poll, rest
<1>7. ASSUME NEW s \in Senders, Release(s)
      PROVE  LifeOK'
    BY <1>7 DEF Release, Decref, LifeOK, TypeOK, SenderPcs, object, watched, poll, rest
<1>8. CASE Drop \/ Close
    BY <1>8 DEF Drop, Close, Decref, LifeOK, TypeOK, sending, watched, poll, rest
<1>9. CASE CloseRemove
    BY <1>9 DEF CloseRemove, BlockRemove, LifeOK, TypeOK, object, sending, watched, poll, rest
<1>10. CASE CloseRemoved
    BY <1>10 DEF CloseRemoved, BlockRemoved, Decref, LifeOK, TypeOK, object, sending, watched, poll, rest
<1>11. CASE Top
    BY <1>11 DEF Top, Wake, LifeOK, TypeOK, SenderPcs, OwnerPcs, object, watched, rest
<1>12. CASE Copy
    BY <1>12 DEF Copy, LifeOK, TypeOK, object, sending, watched, rest
<1>13. CASE Select
    BY <1>13 DEF Select, LifeOK, TypeOK, object, sending, rest
<1>14. CASE Check
    BY <1>14 DEF Check, LifeOK, TypeOK, object, sending, watched, rest
<1>15. CASE WriteCb
    <2>1. CASE dead_
        <3>1. /\ ppc' = "top" /\ UNCHANGED <<dead_, sending, watched, opc, pending_change_, gone, woken>>
              /\ ppc = "inwrite"
            BY <1>15, <2>1, Zenon DEF WriteCb
        <3> QED BY <2>1, <3>1 DEF LifeOK, sending, watched
    <2>2. CASE ~dead_ /\ wpdu_.sz = 0
        BY <1>15, <2>2 DEF WriteCb, DelWriteCallback, LifeOK, object, sending, watched, rest
    <2>3. CASE ~dead_ /\ wpdu_.sz # 0
        <3>1. /\ ppc' = "top" /\ opc' = opc /\ gone' = gone /\ woken' = woken
              /\ pending_change_' = pending_change_ /\ ppc = "inwrite"
              /\ spc' = spc \/ SignalComplete
            BY <1>15, <2>3, Zenon DEF WriteCb
        <3>2. PICK w \in Writes(wpdu_) :
                 dead_' = ~w.ok /\ IF w.ok THEN UNCHANGED watched ELSE DelCallbacks
            BY <1>15, <2>3, Zenon DEF WriteCb
        <3>3. ~dead_' \/ DelCallbacks
            BY <3>2, Zenon
        <3>4. opc = "hold" /\ ~Remover /\ ~gone
            BY <2>3, Zenon DEF LifeOK
        <3>5. \A s \in Senders : spc'[s] = spc[s] \/ spc'[s] = "finish"
            BY <3>1, Zenon DEF SignalComplete
        <3>6. ~SomeAt("remove")' /\ ~SomeAt("removing")' /\ ~SomeAt("removed")'
            BY <3>1, <3>4, <3>5
        <3>7. dead_' => Detached'
            BY <3>1, <3>3 DEF DelCallbacks
        <3> QED BY <3>1, <3>4, <3>6, <3>7, Zenon DEF LifeOK
    <2> QED BY <2>1, <2>2, <2>3, Zenon
<1>16. CASE ReadCb
    BY <1>16 DEF ReadCb, Died, DelCallbacks, SignalComplete, LifeOK, TypeOK, SenderPcs, object, watched, rest
<1>17. CASE Arrive \/ Drain \/ Break
    BY <1>17 DEF Arrive, Drain, Break, LifeOK, object, sending, watched, poll, rest
<1>18. CASE WakeSender
    BY <1>18 DEF WakeSender, LifeOK, TypeOK, SenderPcs, object, watched, poll, rest
<1>19. CASE WakeRemover
    BY <1>19 DEF WakeRemover, LifeOK, TypeOK, SenderPcs, OwnerPcs, object, watched, poll, rest
<1> QED
    BY <1>1, <1>2, <1>3, <1>4, <1>5, <1>6, <1>7, <1>8, <1>9, <1>10, <1>11, <1>12, <1>13, <1>14,
       <1>15, <1>16, <1>17, <1>18, <1>19, Zenon
    DEF Next, SenderStep, OwnerStep, PollStep

\* The same threads hold the connection, or one fewer.
LEMMA HoldingLemma ==
    ASSUME NEW p, NEW q, NEW s \in Senders,
           \A t \in Senders : t # s => (p[t] = "released" <=> q[t] = "released")
    PROVE  /\ Cardinality(Holding(p)) \in Nat
           /\ (p[s] = "released" <=> q[s] = "released") => Holding(q) = Holding(p)
           /\ p[s] # "released" /\ q[s] = "released" =>
                 Cardinality(Holding(q)) = Cardinality(Holding(p)) - 1
<1>1. IsFiniteSet(Holding(p)) /\ Holding(p) \subseteq Senders
    BY ConnectionAssumption, FS_Subset DEF Holding
<1>2. Cardinality(Holding(p)) \in Nat
    BY <1>1, FS_CardinalityType
<1>3. (p[s] = "released" <=> q[s] = "released") => Holding(q) = Holding(p)
    BY DEF Holding
<1>4. ASSUME p[s] # "released", q[s] = "released"
      PROVE  Cardinality(Holding(q)) = Cardinality(Holding(p)) - 1
    <2>1. s \in Holding(p) /\ Holding(q) = Holding(p) \ {s}
        BY <1>4 DEF Holding
    <2> QED BY <1>1, <2>1, FS_RemoveElement
<1> QED BY <1>2, <1>3, <1>4

\* Release lets go of a reference for the sender, Drop and CloseRemoved for the owner.
LEMMA RefsStep ==
    ASSUME TypeOK, LifeOK, RefsOK, [Next]_vars
    PROVE  RefsOK'
<1>1. ASSUME NEW s \in Senders, Release(s)
      PROVE  RefsOK'
    <2>1. /\ spc[s] = "returned" /\ spc' = [spc EXCEPT ![s] = "released"] /\ opc' = opc
          /\ refno_' = refno_ - 1 /\ (deleted' => refno_ = 1)
        BY <1>1, Zenon DEF Release, Decref
    <2>2. /\ spc'[s] = "released"
          /\ \A t \in Senders : t # s => (spc[t] = "released" <=> spc'[t] = "released")
        BY <2>1 DEF TypeOK
    <2>3. /\ Cardinality(Holding(spc)) \in Nat
          /\ Cardinality(Holding(spc')) = Cardinality(Holding(spc)) - 1
        BY <2>1, <2>2, HoldingLemma
    <2> DEFINE n == Cardinality(Holding(spc))
               m == Cardinality(Holding(spc'))
               o == IF opc = "released" THEN 0 ELSE 1
    <2>4. n \in Nat /\ m = n - 1 /\ o \in Nat /\ refno_ = n + o
        BY <2>3 DEF RefsOK
    <2> HIDE DEF n, m, o
    <2>5. refno_' = m + o /\ (deleted' => refno_' = 0)
        BY <2>1, <2>4
    <2> QED BY <2>1, <2>5, Zenon DEF RefsOK, m, o
<1>2. CASE Drop \/ CloseRemoved
    <2>1. /\ opc # "released" /\ opc' = "released" /\ spc' = spc
          /\ refno_' = refno_ - 1 /\ (deleted' => refno_ = 1)
        BY <1>2, Zenon DEF Drop, CloseRemoved, Decref, sending
    <2>2. Cardinality(Holding(spc)) \in Nat
        BY ConnectionAssumption, FS_Subset, FS_CardinalityType DEF Holding
    <2> DEFINE n == Cardinality(Holding(spc))
    <2>3. n \in Nat /\ refno_ = n + 1
        BY <2>1, <2>2 DEF RefsOK
    <2> HIDE DEF n
    <2>4. refno_' = n + 0 /\ (deleted' => refno_' = 0)
        BY <2>1, <2>3
    <2> QED BY <2>1, <2>4 DEF RefsOK, n
<1>3. ASSUME /\ refno_' = refno_ /\ deleted' = deleted
             /\ opc' = "released" <=> opc = "released"
             /\ \A t \in Senders : spc[t] = "released" <=> spc'[t] = "released"
      PROVE  RefsOK'
    <2>1. Holding(spc') = Holding(spc)
        BY <1>3 DEF Holding
    <2> QED BY <1>3, <2>1 DEF RefsOK
<1>4. CASE UNCHANGED vars
    BY <1>3, <1>4 DEF vars, object, sending
<1>5. ASSUME NEW s \in Senders, SendNot(s) \/ Remove(s)
      PROVE  RefsOK'
    BY <1>3, <1>5 DEF SendNot, Remove, TypeOK, object
<1>6. ASSUME NEW s \in Senders, Send(s)
      PROVE  RefsOK'
    <2>1. /\ refno_' = refno_ /\ deleted' = deleted /\ opc' = opc /\ spc[s] \in {"idle", "sending"}
          /\ \/ \E x \in {"remove", "complete"} : spc' = [spc EXCEPT ![s] = x]
             \/ Return(s, TRUE)
        BY <1>6, Zenon DEF Send, MaySend
    <2> QED BY <1>3, <2>1 DEF Return, TypeOK
<1>7. ASSUME NEW s \in Senders, Finish(s) \/ Removed(s)
      PROVE  RefsOK'
    BY <1>3, <1>7 DEF Finish, Removed, Return, TypeOK, object
<1>8. CASE Close \/ CloseRemove
    BY <1>3, <1>8 DEF Close, CloseRemove, object, sending
<1>9. CASE Top
    BY <1>3, <1>9 DEF Top, Wake, TypeOK, object
<1>10. CASE Copy \/ Select \/ Check \/ Arrive \/ Drain \/ Break
    BY <1>3, <1>10 DEF Copy, Select, Check, Arrive, Drain, Break, object, sending
<1>11. CASE WriteCb
    <2>1. refno_' = refno_ /\ deleted' = deleted /\ opc' = opc /\ (spc' = spc \/ SignalComplete)
        BY <1>11, Zenon DEF WriteCb, sending
    <2> QED BY <1>3, <2>1 DEF SignalComplete
<1>12. CASE ReadCb
    <2>1. refno_' = refno_ /\ deleted' = deleted /\ opc' = opc /\ (spc' = spc \/ SignalComplete)
        BY <1>12, Zenon DEF ReadCb, Died
    <2> QED BY <1>3, <2>1 DEF SignalComplete
<1>13. CASE WakeSender \/ WakeRemover
    BY <1>3, <1>13 DEF WakeSender, WakeRemover, TypeOK, object
<1> QED
    BY <1>1, <1>2, <1>4, <1>5, <1>6, <1>7, <1>8, <1>9, <1>10, <1>11, <1>12, <1>13, Zenon
    DEF Next, SenderStep, OwnerStep, PollStep

\* The state that connection::connection makes.
LEMMA InitLife ==
    ASSUME Init
    PROVE  TypeOK /\ LifeOK /\ RefsOK
<1>1. TypeOK
    <2>1. wpdu_ \in Pdus /\ wpdu_.sz = 0 /\ wpdu_.solong = 0
        BY DEF Init, NoWrite, Pdus
    <2>2. /\ dead_ \in BOOLEAN /\ opc \in OwnerPcs /\ link \in {"up", "down", "shut"} /\ room \in Nat
          /\ spc \in [Senders -> SenderPcs] /\ sret \in [Senders -> BOOLEAN]
        BY ConnectionAssumption DEF Init, SenderPcs, OwnerPcs
    <2>3. out \in Seq(Senders)
        BY DEF Init
    <2> QED BY <2>1, <2>2, <2>3 DEF TypeOK
<1>2. LifeOK
    BY DEF Init, LifeOK, SomeAt, Remover, Quiet, Detached, Unwatched
<1>3. RefsOK
    <2>1. Holding(spc) = Senders
        BY DEF Init, Holding
    <2> QED BY <2>1 DEF Init, RefsOK
<1> QED BY <1>1, <1>2, <1>3

(***************************************************************************)
(* As long as no wait of block_remove_fd ends for no reason: once it has   *)
(* returned, the thread of PollMgr neither waits on the descriptor nor     *)
(* makes a callback, and when the last holder deletes the connection no    *)
(* thread is in send, closeconn or a callback of it.                       *)
(***************************************************************************)
THEOREM Deletion == Spec => []NoUseAfterDelete
<1>1. Init => TypeOK /\ LifeOK /\ RefsOK
    BY InitLife
<1>2. TypeOK /\ LifeOK /\ RefsOK /\ [Next]_vars => (TypeOK /\ LifeOK /\ RefsOK)'
    BY TypeStep, LifeStep, RefsStep
<1>3. TypeOK /\ LifeOK /\ RefsOK => NoUseAfterDelete
    <2> SUFFICES ASSUME TypeOK, LifeOK, RefsOK, ~woken
                 PROVE  /\ gone => ~InUse
                        /\ deleted => ~InUse /\ ~callbacks_ /\ \A s \in Senders : spc[s] = "released"
        BY Zenon DEF NoUseAfterDelete
    <2>1. Detached => ~InUse /\ ~callbacks_
        BY DEF Detached, Quiet, InUse
    <2>2. ASSUME deleted
          PROVE  opc = "released" /\ \A s \in Senders : spc[s] = "released"
        <3>1. IsFiniteSet(Holding(spc)) /\ Cardinality(Holding(spc)) \in Nat
            BY ConnectionAssumption, FS_Subset, FS_CardinalityType DEF Holding
        <3>2. Cardinality(Holding(spc)) = 0 /\ opc = "released"
            BY <2>2, <3>1 DEF RefsOK
        <3>3. Holding(spc) = {}
            BY <3>1, <3>2, FS_EmptySet
        <3> QED BY <3>2, <3>3, Zenon DEF Holding
    <2>3. ASSUME deleted
          PROVE  dead_ /\ ~Remover
        BY <2>2, <2>3 DEF LifeOK, Remover, SomeAt
    <2> QED BY <2>1, <2>2, <2>3, Zenon DEF LifeOK
<1> QED BY <1>1, <1>2, <1>3, PTL DEF Spec

-----------------------------------------------------------------------------
(* What goes out.                                                          *)

\* The units of sender s in o, and whether nothing of another follows them.
Count(o, s) == Cardinality({i \in DOMAIN o : o[i] = s})
AtEnd(o, s) == \A i, j \in DOMAIN o : i < j /\ o[i] = s => o[j] = s

Ordered(o) ==
    \A i, j \in DOMAIN o : i < j /\ o[i] # o[j] =>
        /\ Count(o, o[i]) = WSize
        /\ \A k \in j .. Len(o) : o[k] # o[i]

\* Nothing of the sender's PDU has been written, or all that is to be.
Early(p) == p \in {"idle", "sendwait", "sending"}

(***************************************************************************)
(* The inductive invariant.  While the connection lives, the PDU in wpdu_  *)
(* is that of the sender that waits for it, its units are the last ones,   *)
(* and any other sender has written nothing or all.                        *)
(***************************************************************************)
WriteOK ==
    /\ Ordered(out)
    /\ \A s \in Senders : sret[s] => Count(out, s) = WSize
    /\ ~dead_ =>
          /\ \A t \in Senders :
                /\ t # wpdu_.buf => Count(out, t) = IF Early(spc[t]) THEN 0 ELSE WSize
                /\ spc[t] \in {"complete", "finish"} <=> wpdu_.buf = t
                /\ spc[t] = "finish" => wpdu_.solong = wpdu_.sz
          /\ wpdu_.buf # Nobody =>
                /\ wpdu_.sz = WSize
                /\ Count(out, wpdu_.buf) = wpdu_.solong
                /\ AtEnd(out, wpdu_.buf)

\* The n numbers from a + 1 on.
LEMMA IntervalLemma ==
    ASSUME NEW a \in Nat, NEW n \in Nat
    PROVE  IsFiniteSet(a + 1 .. a + n) /\ Cardinality(a + 1 .. a + n) = n
<1> DEFINE b == a + 1
           c == a + n
<1>1. b \in Int /\ c \in Int
    OBVIOUS
<1> HIDE DEF b, c
<1>2. IsFiniteSet(b .. c) /\ Cardinality(b .. c) = IF b > c THEN 0 ELSE c - b + 1
    BY <1>1, FS_Interval
<1> QED BY <1>2 DEF b, c

\* What n units of s more do to the count.
LEMMA CountLemma ==
    ASSUME NEW o \in Seq(Senders), NEW n \in Nat, NEW s \in Senders, NEW t \in Senders
    PROVE  /\ Count(o, t) \in Nat
           /\ Count(o \o Units(n, s), t) = IF t = s THEN Count(o, t) + n ELSE Count(o, t)
           /\ Count(o, t) = 0 <=> \A i \in DOMAIN o : o[i] # t
<1> DEFINE q == o \o Units(n, s)
           l == Len(o)
           A == {i \in DOMAIN o : o[i] = t}
           B == {i \in DOMAIN q : q[i] = t}
           N == l + 1 .. l + n
<1>1. /\ l \in Nat /\ DOMAIN o = 1 .. l /\ DOMAIN q = 1 .. l + n
      /\ \A i \in 1 .. l : q[i] = o[i]
      /\ \A i \in N : q[i] = s
    BY DEF Units
<1>2. IsFiniteSet(1 .. l)
    <2>1. 1 \in Int /\ l \in Int
        BY <1>1
    <2> QED BY <2>1, FS_Interval, Zenon
<1>3. IsFiniteSet(A) /\ A \subseteq 1 .. l
    BY <1>1, <1>2, FS_Subset
<1>4. Cardinality(A) \in Nat /\ (Cardinality(A) = 0 <=> A = {})
    BY <1>3, FS_CardinalityType, FS_EmptySet
<1>5. CASE t # s
    <2>1. B = A
        BY <1>1, <1>5
    <2> QED BY <1>4, <1>5, <2>1 DEF Count
<1>6. CASE t = s
    <2>1. B = A \cup N /\ A \cap N = {}
        BY <1>1, <1>3, <1>6
    <2>2. IsFiniteSet(N) /\ Cardinality(N) = n
        BY <1>1, IntervalLemma
    <2>3. Cardinality(A \cup N) = Cardinality(A) + Cardinality(N) - Cardinality(A \cap N)
        BY <1>3, <2>2, FS_Union
    <2>4. Cardinality(A \cap N) = 0
        BY <2>1, FS_EmptySet
    <2> HIDE DEF A, N
    <2>5. Cardinality(A \cup N) = Cardinality(A) + n
        BY <1>4, <2>2, <2>3, <2>4
    <2> QED BY <1>4, <1>6, <2>1, <2>5, Zenon DEF Count, A
<1> QED BY <1>5, <1>6

\* PDUs stay whole when the sender of the last one goes on, or one that has written
\* nothing begins, and all others have written nothing or all.
LEMMA OrderedLemma ==
    ASSUME NEW o \in Seq(Senders), NEW n \in Nat, NEW s \in Senders,
           Ordered(o), AtEnd(o, s),
           \A t \in Senders : t # s => Count(o, t) \in {0, WSize}
    PROVE  Ordered(o \o Units(n, s)) /\ AtEnd(o \o Units(n, s), s)
<1> DEFINE q == o \o Units(n, s)
           l == Len(o)
<1>1. /\ l \in Nat /\ DOMAIN o = 1 .. l /\ DOMAIN q = 1 .. l + n /\ Len(q) = l + n
      /\ \A i \in 1 .. l : q[i] = o[i] /\ o[i] \in Senders
      /\ \A i \in l + 1 .. l + n : q[i] = s
    BY DEF Units
<1>2. \A t \in Senders : t # s => Count(q, t) = Count(o, t)
    BY CountLemma
<1> HIDE DEF q, l
<1>3. AtEnd(q, s)
    BY <1>1 DEF AtEnd
<1>4. ASSUME NEW i \in DOMAIN q, NEW j \in DOMAIN q, i < j, q[i] # q[j]
      PROVE  Count(q, q[i]) = WSize /\ \A k \in j .. Len(q) : q[k] # q[i]
    <2>1. q[i] # s /\ i \in 1 .. l /\ q[i] = o[i] /\ o[i] \in Senders
        BY <1>1, <1>3, <1>4 DEF AtEnd
    <2>2. CASE j \in 1 .. l
        <3>1. Count(o, o[i]) = WSize /\ \A k \in j .. l : o[k] # o[i]
            BY <1>1, <1>4, <2>1, <2>2 DEF Ordered, l
        <3> QED BY <1>1, <1>2, <2>1, <2>2, <3>1
    <2>3. CASE j \notin 1 .. l
        <3>1. Count(o, o[i]) = WSize
            BY <1>1, <2>1, CountLemma
        <3> QED BY <1>1, <1>2, <2>1, <2>3, <3>1
    <2> QED BY <2>2, <2>3
<1> QED BY <1>3, <1>4, Zenon DEF Ordered, q

\* A step that does not write, of a connection that is dead afterwards.
LEMMA WriteDead ==
    ASSUME WriteOK, out' = out, dead_', \A s \in Senders : sret'[s] => sret[s]
    PROVE  WriteOK'
    BY DEF WriteOK

\* The sender has come no further, as far as WriteOK tells.
SameStage(p, q) ==
    /\ Early(p) <=> Early(q)
    /\ p = "complete" <=> q = "complete"
    /\ p = "finish" <=> q = "finish"

\* A step that does not write and brings no sender further.
LEMMA WriteKeep ==
    ASSUME WriteOK, out' = out, wpdu_' = wpdu_, sret' = sret, dead_' = dead_,
           \A t \in Senders : SameStage(spc[t], spc'[t])
    PROVE  WriteOK'
<1>1. Ordered(out') /\ \A s \in Senders : sret'[s] => Count(out', s) = WSize
    BY Zenon DEF WriteOK
<1>2. ASSUME ~dead_'
      PROVE  /\ \A t \in Senders :
                   /\ t # wpdu_'.buf => Count(out', t) = IF Early(spc'[t]) THEN 0 ELSE WSize
                   /\ spc'[t] \in {"complete", "finish"} <=> wpdu_'.buf = t
                   /\ spc'[t] = "finish" => wpdu_'.solong = wpdu_'.sz
             /\ wpdu_'.buf # Nobody =>
                   /\ wpdu_'.sz = WSize
                   /\ Count(out', wpdu_'.buf) = wpdu_'.solong
                   /\ AtEnd(out', wpdu_'.buf)
    BY <1>2 DEF WriteOK, SameStage
<1> QED BY <1>1, <1>2, Zenon DEF WriteOK

\* A write of n units of s, while all others have written nothing or all.
LEMMA WriteMore ==
    ASSUME TypeOK, WriteOK, ~dead_, NEW n \in Nat, NEW s \in Senders,
           wpdu_.buf \in {s, Nobody}, wpdu_.buf = Nobody => Early(spc[s]),
           out' = out \o Units(n, s)
    PROVE  /\ Ordered(out') /\ AtEnd(out', s)
           /\ \A t \in Senders : t # s => Count(out', t) = Count(out, t)
           /\ Count(out', s) = Count(out, s) + n /\ Count(out, s) \in Nat
           /\ wpdu_.buf = Nobody => Count(out, s) = 0
<1>1. out \in Seq(Senders)
    BY DEF TypeOK
<1>2. /\ \A t \in Senders : t # s => Count(out', t) = Count(out, t)
      /\ Count(out', s) = Count(out, s) + n /\ Count(out, s) \in Nat
    BY <1>1, CountLemma
<1>3. wpdu_.buf = Nobody => Count(out, s) = 0
    BY ConnectionAssumption DEF WriteOK
<1>4. AtEnd(out, s)
    <2>1. CASE wpdu_.buf = s
        BY <2>1, ConnectionAssumption, Zenon DEF WriteOK
    <2>2. CASE wpdu_.buf = Nobody
        <3>1. \A i \in DOMAIN out : out[i] # s
            BY <1>1, <1>3, <2>2, CountLemma
        <3> QED BY <3>1, Zenon DEF AtEnd
    <2> QED BY <2>1, <2>2, Zenon
<1>5. \A t \in Senders : t # s => Count(out, t) \in {0, WSize}
    BY ConnectionAssumption DEF WriteOK
<1>6. Ordered(out)
    BY Zenon DEF WriteOK
<1>7. Ordered(out \o Units(n, s)) /\ AtEnd(out \o Units(n, s), s)
    BY <1>1, <1>4, <1>5, <1>6, OrderedLemma
<1> QED BY <1>2, <1>3, <1>7, Zenon

\* The PDU that s sends has all gone out, and s returns.
LEMMA WriteReturn ==
    ASSUME TypeOK, NEW s \in Senders, NEW ret \in BOOLEAN, Return(s, ret), dead_' = dead_, ~dead_,
           Ordered(out'), ret => Count(out', s) = WSize, Count(out', s) = WSize,
           WriteOK, \A t \in Senders : t # s => Count(out', t) = Count(out, t),
           \A t \in Senders : t # s => t # wpdu_.buf
    PROVE  WriteOK'
<1>1. wpdu_'.buf = Nobody /\ wpdu_'.solong = 0 /\ wpdu_'.sz = 0
    BY DEF Return, NoWrite
<1>2. /\ spc'[s] = "returned" /\ sret'[s] = ret
      /\ \A t \in Senders : t # s => Early(spc'[t]) = Early(spc[t]) /\ sret'[t] = sret[t]
      /\ \A t \in Senders : t # s => (spc'[t] \in {"complete", "finish"} <=> spc[t] \in {"complete", "finish"})
    BY DEF Return, Early, TypeOK
<1>3. \A t \in Senders : sret'[t] => Count(out', t) = WSize
    BY <1>2, Zenon DEF WriteOK
<1>4. ~Early("returned") /\ "returned" \notin {"complete", "finish"}
    BY DEF Early
<1>5. ASSUME NEW t \in Senders
      PROVE  /\ Count(out', t) = IF Early(spc'[t]) THEN 0 ELSE WSize
             /\ spc'[t] \notin {"complete", "finish"}
    <2>1. CASE t = s
        BY <1>2, <1>4, <2>1
    <2>2. CASE t # s
        BY <1>2, <2>2 DEF WriteOK
    <2> QED BY <2>1, <2>2
<1>6. \A t \in Senders : t # Nobody
    BY ConnectionAssumption
<1> QED BY <1>1, <1>3, <1>5, <1>6 DEF WriteOK

\* send: the first write of a PDU follows only whole ones.
LEMMA WriteSend ==
    ASSUME TypeOK, WriteOK, NEW s \in Senders, Send(s)
    PROVE  WriteOK'
<1> DEFINE pdu == [buf |-> s, sz |-> WSize, solong |-> 0]
<1>1. pdu \in Pdus /\ pdu.buf = s /\ pdu.sz = WSize /\ pdu.solong = 0 /\ pdu.solong \in 0 .. pdu.sz
    BY WriteParts, ConnectionAssumption
<1>2. PICK w \in Writes(pdu) :
         /\ Wrote(w)
         /\ \/ /\ ~w.ok /\ dead_' = TRUE /\ sret' = sret
            \/ /\ w.ok /\ w.pdu.solong = w.pdu.sz /\ Return(s, TRUE) /\ dead_' = dead_
            \/ /\ w.ok /\ w.pdu.solong < w.pdu.sz /\ wpdu_' = w.pdu
               /\ spc' = [spc EXCEPT ![s] = "complete"] /\ dead_' = dead_ /\ sret' = sret
    BY Zenon DEF Send
<1>3. ~dead_ /\ wpdu_.buf = Nobody /\ Early(spc[s])
    BY Zenon DEF Send, MaySend, Early
<1> HIDE DEF pdu
<1>4. /\ w.ok \in BOOLEAN /\ w.n \in Nat /\ w.pdu \in Pdus /\ w.pdu.buf = s
      /\ w.ok => w.pdu.sz = WSize /\ w.pdu.solong = w.n
      /\ ~w.ok => w.n = 0
    <2>1. /\ w.ok \in BOOLEAN /\ w.n \in Nat /\ w.pdu \in Pdus /\ w.pdu.buf = pdu.buf
          /\ w.ok => w.pdu.sz = pdu.sz /\ w.pdu.solong = pdu.solong + w.n
          /\ ~w.ok => w.n = 0
        BY <1>1, WritesLemma, Zenon
    <2>2. 0 + w.n = w.n
        BY <2>1
    <2> QED BY <1>1, <2>1, <2>2, Zenon
<1>5. out' = out \o Units(w.n, s)
    BY <1>1, <1>2, WroteLemma, Zenon
<1>6. /\ Ordered(out') /\ AtEnd(out', s)
      /\ \A t \in Senders : t # s => Count(out', t) = Count(out, t)
      /\ Count(out', s) = w.n
    <2>1. wpdu_.buf \in {s, Nobody} /\ (wpdu_.buf = Nobody => Early(spc[s]))
        BY <1>3
    <2>2. /\ Ordered(out') /\ AtEnd(out', s)
          /\ \A t \in Senders : t # s => Count(out', t) = Count(out, t)
          /\ Count(out', s) = Count(out, s) + w.n /\ Count(out, s) = 0
        BY <1>3, <1>4, <1>5, <2>1, WriteMore
    <2> QED BY <1>4, <2>2
<1>7. CASE ~w.ok /\ dead_' = TRUE /\ sret' = sret
    <2>1. out' = out
        <3>1. w.n = 0 /\ out \in Seq(Senders)
            BY <1>4, <1>7, Zenon DEF TypeOK
        <3>2. Units(0, s) = <<>>
            BY DEF Units
        <3>3. out' = out \o <<>>
            BY <1>5, <3>1, <3>2, Zenon
        <3> QED BY <3>1, <3>3
    <2> QED BY <1>7, <2>1, WriteDead
<1>8. CASE w.ok /\ w.pdu.solong = w.pdu.sz /\ Return(s, TRUE) /\ dead_' = dead_
    <2>1. Count(out', s) = WSize
        BY <1>4, <1>6, <1>8
    <2>2. \A t \in Senders : t # s => t # wpdu_.buf
        BY <1>3, ConnectionAssumption
    <2> QED BY <1>3, <1>6, <1>8, <2>1, <2>2, WriteReturn
<1>9. CASE /\ w.ok /\ w.pdu.solong < w.pdu.sz /\ wpdu_' = w.pdu
           /\ spc' = [spc EXCEPT ![s] = "complete"] /\ dead_' = dead_ /\ sret' = sret
    <2>1. /\ spc'[s] = "complete"
          /\ \A t \in Senders : t # s => spc'[t] = spc[t]
        BY <1>9 DEF TypeOK
    <2>2. \A t \in Senders : t # wpdu_.buf
        BY <1>3, ConnectionAssumption
    <2>3. ASSUME NEW t \in Senders
          PROVE  /\ t # wpdu_'.buf => Count(out', t) = IF Early(spc'[t]) THEN 0 ELSE WSize
                 /\ spc'[t] \in {"complete", "finish"} <=> wpdu_'.buf = t
                 /\ spc'[t] # "finish"
        <3>1. /\ Count(out, t) = IF Early(spc[t]) THEN 0 ELSE WSize
              /\ spc[t] \notin {"complete", "finish"}
            BY <1>3, <2>2, Zenon DEF WriteOK
        <3>2. wpdu_'.buf = s
            BY <1>4, <1>9, Zenon
        <3>3. CASE t = s
            BY <2>1, <3>2, <3>3
        <3>4. CASE t # s
            <4>1. Count(out', t) = Count(out, t) /\ spc'[t] = spc[t]
                BY <1>6, <2>1, <3>4, Zenon
            <4>2. spc[t] # "finish"
                BY <3>1
            <4> QED BY <3>1, <3>2, <3>4, <4>1, <4>2, Zenon
        <3> QED BY <3>3, <3>4, Zenon
    <2>4. wpdu_'.sz = WSize /\ Count(out', wpdu_'.buf) = wpdu_'.solong /\ AtEnd(out', wpdu_'.buf)
        BY <1>4, <1>6, <1>9
    <2>5. ASSUME NEW t \in Senders, sret'[t]
          PROVE  Count(out', t) = WSize
        <3>1. t # s
            <4>1. Early(spc[s]) /\ Count(out, s) = IF Early(spc[s]) THEN 0 ELSE WSize
                BY <1>3, <2>2, Zenon DEF WriteOK
            <4>2. sret[t] /\ Count(out, t) = WSize
                BY <1>9, <2>5, Zenon DEF WriteOK
            <4>3. WSize # 0
                BY ConnectionAssumption, Zenon
            <4> QED BY <4>1, <4>2, <4>3, Zenon
        <3> QED BY <1>6, <1>9, <2>5, <3>1, Zenon DEF WriteOK
    <2> QED BY <1>6, <2>3, <2>4, <2>5, Zenon DEF WriteOK
<1> QED BY <1>2, <1>7, <1>8, <1>9, Zenon

\* write_cb: what is written next belongs to the PDU that went out last.
LEMMA WriteWriteCb ==
    ASSUME TypeOK, WriteOK, WriteCb
    PROVE  WriteOK'
<1>1. CASE dead_ \/ wpdu_.sz = 0
    <2>1. out' = out /\ wpdu_' = wpdu_ /\ sret' = sret /\ dead_' = dead_ /\ spc' = spc
        BY <1>1, Zenon DEF WriteCb, sending
    <2> QED BY <2>1, WriteKeep, Zenon DEF SameStage
<1>2. CASE ~dead_ /\ wpdu_.sz # 0
    <2> DEFINE s == wpdu_.buf
    <2>1. PICK w \in Writes(wpdu_) :
             /\ Wrote(w) /\ wpdu_' = w.pdu /\ dead_' = ~w.ok
             /\ IF w.ok /\ w.pdu.solong < w.pdu.sz THEN spc' = spc ELSE SignalComplete
        BY <1>2, Zenon DEF WriteCb
    <2>2. wpdu_ \in Pdus /\ s \in Senders /\ wpdu_.solong \in 0 .. wpdu_.sz
        BY <1>2, WriteParts
    <2>3. sret' = sret
        BY <1>2, Zenon DEF WriteCb, sending
    <2>4. /\ w.ok \in BOOLEAN /\ w.n \in Nat /\ w.pdu \in Pdus /\ w.pdu.buf = s
          /\ w.ok => w.pdu.sz = wpdu_.sz /\ w.pdu.solong = wpdu_.solong + w.n /\ w.pdu.solong <= w.pdu.sz
          /\ ~w.ok => w.n = 0
        BY <2>1, <2>2, WritesLemma
    <2>5. out' = out \o Units(w.n, s)
        BY <2>1, <2>2, WroteLemma
    <2>6. s # Nobody /\ wpdu_.sz = WSize /\ Count(out, s) = wpdu_.solong
        BY <1>2, <2>2, ConnectionAssumption, Zenon DEF WriteOK
    <2>7. /\ Ordered(out') /\ AtEnd(out', s)
          /\ \A t \in Senders : t # s => Count(out', t) = Count(out, t)
          /\ Count(out', s) = wpdu_.solong + w.n
        BY <1>2, <2>2, <2>4, <2>5, <2>6, WriteMore
    <2>8. CASE ~w.ok
        <3>1. out' = out
            BY <2>4, <2>5, <2>8 DEF Units, TypeOK
        <3> QED BY <2>1, <2>3, <2>8, <3>1, WriteDead
    <2>9. CASE w.ok
        <3>1. \A t \in Senders : Early(spc'[t]) <=> Early(spc[t])
            BY <2>1 DEF SignalComplete, Early
        <3>2. \A t \in Senders : spc'[t] \in {"complete", "finish"} <=> spc[t] \in {"complete", "finish"}
            BY <2>1 DEF SignalComplete
        <3>3. \A t \in Senders : spc'[t] = "finish" => wpdu_'.solong = wpdu_'.sz
            <4>1. CASE w.pdu.solong < w.pdu.sz
                <5>1. spc' = spc
                    BY <2>1, <2>9, <4>1
                <5>2. \A t \in Senders : spc[t] = "finish" => wpdu_.solong = wpdu_.sz
                    BY <1>2, Zenon DEF WriteOK
                <5>3. wpdu_.solong # wpdu_.sz
                    BY <2>2, <2>4, <2>9, <4>1 DEF Pdus
                <5> QED BY <5>1, <5>2, <5>3
            <4>2. CASE ~(w.pdu.solong < w.pdu.sz)
                BY <2>1, <2>2, <2>4, <2>9, <4>2 DEF Pdus
            <4> QED BY <4>1, <4>2
        <3>4. ASSUME NEW t \in Senders, sret'[t]
              PROVE  Count(out', t) = WSize
            <4>1. CASE t # s
                BY <2>3, <2>7, <3>4, <4>1, Zenon DEF WriteOK
            <4>2. CASE t = s
                <5>1. wpdu_.solong = WSize
                    BY <2>3, <2>6, <3>4, <4>2 DEF WriteOK
                <5> QED BY <2>2, <2>4, <2>6, <2>7, <2>9, <4>2, <5>1, ConnectionAssumption DEF Pdus
            <4> QED BY <4>1, <4>2
        <3>5. ASSUME NEW t \in Senders
              PROVE  /\ t # wpdu_'.buf => Count(out', t) = IF Early(spc'[t]) THEN 0 ELSE WSize
                     /\ spc'[t] \in {"complete", "finish"} <=> wpdu_'.buf = t
            BY <1>2, <2>1, <2>4, <2>7, <3>1, <3>2 DEF WriteOK
        <3>6. wpdu_'.sz = WSize /\ Count(out', wpdu_'.buf) = wpdu_'.solong /\ AtEnd(out', wpdu_'.buf)
            BY <2>1, <2>4, <2>6, <2>7, <2>9
        <3> QED BY <2>7, <3>3, <3>4, <3>5, <3>6, Zenon DEF WriteOK
    <2> QED BY <2>8, <2>9
<1> QED BY <1>1, <1>2, Zenon

\* Every step keeps WriteOK.
LEMMA WriteStep ==
    ASSUME TypeOK, LifeOK, WriteOK, [Next]_vars
    PROVE  WriteOK'
<1>1. ASSUME out' = out, wpdu_' = wpdu_, sret' = sret, dead_' = dead_, spc' = spc
      PROVE  WriteOK'
    BY <1>1, WriteKeep, Zenon DEF SameStage
<1>2. CASE UNCHANGED vars
    BY <1>1, <1>2, Zenon DEF vars, object, sending
<1>3. ASSUME NEW s \in Senders, SendNot(s)
      PROVE  WriteOK'
    <2>1. out' = out /\ wpdu_' = wpdu_ /\ sret' = sret /\ dead_' = dead_
        BY <1>3, Zenon DEF SendNot, object
    <2>2. CASE dead_
        BY <2>1, <2>2, WriteDead, Zenon
    <2>3. CASE ~dead_
        <3>1. spc' = [spc EXCEPT ![s] = "sendwait"] /\ Early(spc[s])
            BY <1>3, <2>3, Zenon DEF SendNot, Early
        <3>2. \A t \in Senders : SameStage(spc[t], spc'[t])
            BY <3>1 DEF SameStage, Early, TypeOK
        <3> QED BY <2>1, <3>2, WriteKeep, Zenon
    <2> QED BY <2>2, <2>3, Zenon
<1>4. ASSUME NEW s \in Senders, Finish(s)
      PROVE  WriteOK'
    <2>1. /\ spc[s] = "finish" /\ Return(s, ~dead_ /\ wpdu_.solong = wpdu_.sz)
          /\ out' = out /\ dead_' = dead_
        BY <1>4, Zenon DEF Finish, object
    <2>2. CASE dead_
        <3>1. \A t \in Senders : sret'[t] => sret[t]
            BY <2>1, <2>2 DEF Return, TypeOK
        <3> QED BY <2>1, <2>2, <3>1, WriteDead
    <2>3. CASE ~dead_
        <3>1. wpdu_.buf = s /\ wpdu_.solong = wpdu_.sz /\ wpdu_.sz = WSize
            <4>1. wpdu_.buf = s /\ wpdu_.solong = wpdu_.sz
                BY <2>1, <2>3, Zenon DEF WriteOK
            <4>2. s # Nobody
                BY ConnectionAssumption, Zenon
            <4> QED BY <2>3, <4>1, <4>2, Zenon DEF WriteOK
        <3>2. Count(out', s) = WSize /\ Ordered(out')
            BY <2>1, <2>3, <3>1, ConnectionAssumption DEF WriteOK
        <3>3. Return(s, TRUE)
            BY <2>1, <2>3, <3>1 DEF Return
        <3> QED BY <2>1, <2>3, <3>1, <3>2, <3>3, WriteReturn
    <2> QED BY <2>2, <2>3, Zenon
<1>5. ASSUME NEW s \in Senders, Remove(s) \/ Removed(s)
      PROVE  WriteOK'
    <2>1. dead_ /\ dead_' = dead_ /\ out' = out
        BY <1>5, Zenon DEF Remove, Removed, LifeOK, Remover, SomeAt, object
    <2>2. \A t \in Senders : sret'[t] => sret[t]
        BY <1>5 DEF Remove, Removed, Return, TypeOK
    <2> QED BY <2>1, <2>2, WriteDead, Zenon
<1>6. ASSUME NEW s \in Senders, Release(s)
      PROVE  WriteOK'
    <2>1. /\ out' = out /\ wpdu_' = wpdu_ /\ sret' = sret /\ dead_' = dead_
          /\ spc[s] = "returned" /\ spc' = [spc EXCEPT ![s] = "released"]
        BY <1>6, Zenon DEF Release, Decref
    <2>2. \A t \in Senders : SameStage(spc[t], spc'[t])
        BY <2>1 DEF SameStage, Early, TypeOK
    <2> QED BY <2>1, <2>2, WriteKeep, Zenon
<1>7. CASE Drop \/ CloseRemove \/ CloseRemoved
    BY <1>1, <1>7, Zenon DEF Drop, CloseRemove, CloseRemoved, Decref, object, sending
<1>8. CASE Close
    <2>1. dead_' /\ out' = out /\ sret' = sret
        BY <1>8, Zenon DEF Close, sending
    <2> QED BY <2>1, WriteDead, Zenon
<1>9. CASE Top
    <2>1. out' = out /\ wpdu_' = wpdu_ /\ sret' = sret /\ dead_' = dead_
        BY <1>9, Zenon DEF Top, object
    <2>2. \A t \in Senders : SameStage(spc[t], spc'[t])
        BY <1>9 DEF Top, Wake, SameStage, Early, TypeOK
    <2> QED BY <2>1, <2>2, WriteKeep, Zenon
<1>10. CASE Copy \/ Select \/ Check \/ Arrive \/ Drain \/ Break
    BY <1>1, <1>10, Zenon DEF Copy, Select, Check, Arrive, Drain, Break, object, sending
<1>11. CASE ReadCb
    <2>1. out' = out /\ sret' = sret /\ wpdu_' = wpdu_ /\ (dead_' \/ (dead_' = dead_ /\ spc' = spc))
        BY <1>11, Zenon DEF ReadCb, Died
    <2> QED BY <1>1, <2>1, WriteDead, Zenon
<1>12. CASE WakeSender \/ WakeRemover
    <2>1. out' = out /\ wpdu_' = wpdu_ /\ sret' = sret /\ dead_' = dead_
        BY <1>12, Zenon DEF WakeSender, WakeRemover, object
    <2>2. \A t \in Senders : SameStage(spc[t], spc'[t])
        BY <1>12 DEF WakeSender, WakeRemover, SameStage, Early, TypeOK
    <2> QED BY <2>1, <2>2, WriteKeep, Zenon
<1> QED
    BY <1>2, <1>3, <1>4, <1>5, <1>6, <1>7, <1>8, <1>9, <1>10, <1>11, <1>12, WriteSend, WriteWriteCb, Zenon
    DEF Next, SenderStep, OwnerStep, PollStep

(***************************************************************************)
(* Whoever writes the parts of a PDU (send, or write_cb in the thread of   *)
(* PollMgr) and wherever the kernel cuts it: PDUs go out whole and one     *)
(* after another, only the last one may be cut short by a failure, and     *)
(* send returns true only for a PDU that went out whole.                   *)
(***************************************************************************)
THEOREM WholePdus == Spec => []WritesWhole
<1>1. Init => TypeOK /\ LifeOK /\ WriteOK
    <2> SUFFICES ASSUME Init
                 PROVE  WriteOK
        BY InitLife
    <2>1. out = <<>> /\ wpdu_.buf = Nobody /\ \A s \in Senders : spc[s] = "idle" /\ sret[s] = FALSE
        BY DEF Init, NoWrite
    <2>2. out \in Seq(Senders) /\ DOMAIN out = {}
        BY <2>1
    <2>3. Ordered(out)
        BY <2>2, Zenon DEF Ordered
    <2>4. \A s \in Senders : Count(out, s) = 0
        <3>1. 0 \in Nat
            OBVIOUS
        <3> QED BY <2>2, <3>1, CountLemma
    <2>5. \A s \in Senders : s # Nobody
        BY ConnectionAssumption
    <2> QED BY <2>1, <2>3, <2>4, <2>5 DEF WriteOK, Early
<1>2. TypeOK /\ LifeOK /\ WriteOK /\ [Next]_vars => (TypeOK /\ LifeOK /\ WriteOK)'
    BY TypeStep, LifeStep, WriteStep
<1>3. WriteOK => WritesWhole
    BY Zenon DEF WriteOK, WritesWhole, Ordered, Count
<1> QED BY <1>1, <1>2, <1>3, PTL DEF Spec

-----------------------------------------------------------------------------
(* What is read comes in order.                                            *)

\* A set of natural numbers has a least element.
LEMMA Least ==
    ASSUME NEW T \in SUBSET Nat, T # {}
    PROVE  \E m \in T : \A k \in T : m <= k
<1>1. PICK m \in T : \A k \in T : ~ (<<k, m>> \in OpToRel(<, Nat))
    BY NatLessThanWellFounded, WFMin
<1>2. \A k \in T : k \in Nat /\ m \in Nat /\ ~(k < m)
    BY <1>1 DEF OpToRel
<1>3. \A k \in T : m <= k
    BY <1>2
<1> QED BY <1>3

\* The units of the PDUs before i.
Before(i) == Cardinality({p \in DOMAIN Stream : Stream[p] < i})

(***************************************************************************)
(* The inductive invariant: the PDU in rpdu_ is the one to be handed over  *)
(* next, its header has been read, and rpos is just after what has been    *)
(* read of it.                                                             *)
(***************************************************************************)
ReadOK ==
    LET next == Len(delivered) + 1
    IN  /\ rpos \in Nat /\ wpos \in Nat /\ rpos <= wpos /\ wpos <= Len(Stream)
        /\ delivered \in Seq(Nat)
        /\ \A i \in DOMAIN delivered : delivered[i] = i
        /\ \/ rpdu_ = NoRead
           \/ /\ rpdu_ \in [buf : {next}, sz : {PduSize(next)}, solong : Nat]
              /\ rpdu_.solong \in 1 .. rpdu_.sz
        /\ ~dead_ => rpos = Before(next) + rpdu_.solong

\* The PDUs before i are the first units of the stream; i comes after them.
LEMMA StreamLemma ==
    ASSUME NEW i \in Nat \ {0}
    PROVE  /\ Before(i) \in Nat
           /\ PduSize(i) \in Nat
           /\ Before(i + 1) = Before(i) + PduSize(i)
           /\ Before(i) < Len(Stream) => Stream[Before(i) + 1] = i /\ PduSize(i) > 0
<1> DEFINE A == {p \in DOMAIN Stream : Stream[p] < i}
           B == {p \in DOMAIN Stream : Stream[p] < i + 1}
           C == {p \in DOMAIN Stream : Stream[p] = i}
           N == Len(Stream)
<1>1. /\ N \in Nat /\ DOMAIN Stream = 1 .. N /\ \A p \in 1 .. N : Stream[p] \in Nat \ {0}
      /\ \A p, q \in 1 .. N : p < q => Stream[p] <= Stream[q]
      /\ \A p \in 1 .. N : \A j \in 1 .. Stream[p] : \E q \in 1 .. N : Stream[q] = j
    <2>1. Stream \in Seq(Nat \ {0})
        BY ConnectionAssumption, Zenon
    <2>2. N \in Nat /\ DOMAIN Stream = 1 .. N /\ \A p \in 1 .. N : Stream[p] \in Nat \ {0}
        BY <2>1
    <2> QED BY <2>2, ConnectionAssumption, Zenon
<1> HIDE DEF N
<1>2. IsFiniteSet(1 .. N)
    <2>1. 1 \in Int /\ N \in Int
        BY <1>1
    <2> QED BY <2>1, FS_Interval, Zenon
<1>3. A \subseteq 1 .. N /\ C \subseteq 1 .. N
    BY <1>1, Zenon
<1>4. IsFiniteSet(A) /\ IsFiniteSet(C)
    BY <1>2, <1>3, FS_Subset, Zenon
<1>5. Cardinality(A) \in Nat /\ Cardinality(C) \in Nat
    BY <1>4, FS_CardinalityType, Zenon
<1>6. Cardinality(B) = Cardinality(A) + Cardinality(C)
    <2>1. B = A \cup C /\ A \cap C = {}
        BY <1>1
    <2>2. Cardinality(A \cup C) = Cardinality(A) + Cardinality(C) - Cardinality(A \cap C)
        BY <1>4, FS_Union
    <2>3. Cardinality(A \cap C) = 0
        BY <2>1, FS_EmptySet
    <2> HIDE DEF A, B, C
    <2> QED BY <1>5, <2>1, <2>2, <2>3
<1>7. PICK m \in Nat : m + 1 \notin A /\ m <= N /\ \A k \in Nat : k + 1 \notin A => m <= k
    <2> DEFINE T == {k \in Nat : k + 1 \notin A}
    <2>1. N \in T
        BY <1>1, <1>3
    <2>2. T \in SUBSET Nat /\ T # {}
        BY <2>1
    <2>3. PICK m \in T : \A k \in T : m <= k
        BY <2>2, Least, Zenon
    <2> QED BY <2>1, <2>3
<1>8. A = 1 .. m
    <2>1. ASSUME NEW p \in 1 .. m
          PROVE  p \in A
        <3>1. p - 1 \in Nat /\ ~(m <= p - 1) /\ (p - 1) + 1 = p
            BY <1>7
        <3> HIDE DEF A
        <3> QED BY <1>7, <3>1
    <2>2. ASSUME NEW p \in A
          PROVE  p \in 1 .. m
        <3>1. p \in 1 .. N /\ Stream[p] < i
            BY <1>1, Zenon
        <3> QED BY <1>1, <1>7, <3>1
    <2> QED BY <2>1, <2>2
<1>9. Cardinality(A) = m
    <2>1. Cardinality(0 + 1 .. 0 + m) = m
        BY <1>7, IntervalLemma
    <2>2. 0 + 1 = 1 /\ 0 + m = m
        BY <1>7
    <2> QED BY <1>8, <2>1, <2>2, Zenon
<1>10. ASSUME m < N
       PROVE  Stream[m + 1] = i /\ m + 1 \in C
    <2>1. m + 1 \in 1 .. N /\ Stream[m + 1] >= i
        BY <1>1, <1>7, <1>10
    <2>2. PICK q \in 1 .. N : Stream[q] = i
        BY <1>1, <2>1
    <2>3. q \notin 1 .. m
        BY <1>8, <2>2
    <2>4. q = m + 1 \/ m + 1 < q
        BY <1>7, <2>3
    <2>5. Stream[m + 1] <= i
        BY <1>1, <2>1, <2>2, <2>4
    <2> QED BY <1>1, <2>1, <2>5
<1>11. C # {} => Cardinality(C) # 0
    BY <1>4, FS_EmptySet, Zenon
<1> HIDE DEF A, C
<1>12. m < N => Stream[m + 1] = i /\ Cardinality(C) > 0
    BY <1>5, <1>10, <1>11
<1>13. Before(i) = Cardinality(A) /\ PduSize(i) = Cardinality(C) /\ Before(i + 1) = Cardinality(B)
    BY Zenon DEF Before, PduSize, A, B, C
<1> QED BY <1>5, <1>6, <1>9, <1>12, <1>13 DEF N

\* The numbers in ReadOK.
LEMMA ReadParts ==
    ASSUME ReadOK
    PROVE  /\ Len(delivered) + 1 \in Nat \ {0}
           /\ rpos \in Nat /\ wpos \in Nat /\ Len(Stream) \in Nat
           /\ rpos <= wpos /\ wpos <= Len(Stream)
<1>1. delivered \in Seq(Nat) /\ rpos \in Nat /\ wpos \in Nat /\ rpos <= wpos /\ wpos <= Len(Stream)
    BY Zenon DEF ReadOK
<1>2. Stream \in Seq(Nat \ {0})
    BY ConnectionAssumption, Zenon
<1>3. Len(delivered) \in Nat
    BY <1>1
<1>4. Len(Stream) \in Nat
    BY <1>2
<1>5. Len(delivered) + 1 \in Nat \ {0}
    BY <1>3
<1> QED BY <1>1, <1>4, <1>5, Zenon

\* What readpdu returns: more of the PDU that is next, or a failure.
LEMMA ReadsLemma ==
    ASSUME ReadOK, ~dead_, NEW r,
           r \in IF Full(rpdu_) THEN {[ok |-> TRUE, pdu |-> rpdu_, pos |-> rpos]} ELSE Reads
    PROVE  LET next == Len(delivered) + 1
           IN  /\ r.pos \in rpos .. wpos
               /\ \/ ~r.ok /\ r.pdu = NoRead
                  \/ /\ r.ok /\ r.pdu \in [buf : {next}, sz : {PduSize(next)}, solong : Nat]
                     /\ r.pdu.solong \in 1 .. r.pdu.sz
                     /\ r.pos = Before(next) + r.pdu.solong
<1> DEFINE next == Len(delivered) + 1
           z == PduSize(next)
           P == [buf : {next}, sz : {z}, solong : Nat]
           b == Before(next)
           Good(q) == /\ q.pos \in rpos .. wpos
                      /\ \/ ~q.ok /\ q.pdu = NoRead
                         \/ /\ q.ok /\ q.pdu \in P
                            /\ q.pdu.solong \in 1 .. q.pdu.sz
                            /\ q.pos = b + q.pdu.solong
<1> SUFFICES Good(r)
    BY Zenon
<1>1. /\ next \in Nat \ {0} /\ rpos \in Nat /\ wpos \in Nat /\ rpos <= wpos
      /\ Len(Stream) \in Nat /\ wpos <= Len(Stream)
    BY ReadParts, Zenon
<1>2. b \in Nat /\ z \in Nat /\ (b < Len(Stream) => Stream[b + 1] = next /\ z > 0)
    BY <1>1, StreamLemma
<1>3. /\ rpdu_ = NoRead \/ (rpdu_ \in P /\ rpdu_.solong \in 1 .. rpdu_.sz)
      /\ rpos = b + rpdu_.solong
    BY Zenon DEF ReadOK
<1> HIDE DEF next, z, b
<1>4. rpos \in rpos .. wpos
    BY <1>1
<1>5. ASSUME NEW pdu \in P, pdu.solong \in 1 .. pdu.sz, NEW pos \in Nat, rpos <= pos, pos <= wpos,
             pos = b + pdu.solong, NEW q \in Body(pdu, pos)
      PROVE  Good(q)
    <2> DEFINE need == pdu.sz - pdu.solong
               n == IF wpos - pos < need THEN wpos - pos ELSE need
               more == [ok |-> TRUE, pdu |-> [pdu EXCEPT !.solong = @ + n], pos |-> pos + n]
               stay == [ok |-> TRUE, pdu |-> pdu, pos |-> pos]
               fail == [ok |-> FALSE, pdu |-> NoRead, pos |-> pos]
    <2>1. pdu.sz = z /\ pdu.solong \in Nat /\ n \in Nat /\ n <= need /\ n <= wpos - pos
        <3>1. pdu.sz = z /\ pdu.solong \in Nat
            BY <1>5
        <3>2. need \in Nat /\ wpos - pos \in Nat
            BY <1>1, <1>2, <1>5, <3>1
        <3> HIDE DEF need
        <3> QED BY <3>1, <3>2
    <2>2. q \in {stay, fail} \/ q = more
        BY <1>5 DEF Body
    <2>3. CASE q \in {stay, fail}
        <3>1. q.pos = pos /\ ((q.ok /\ q.pdu = pdu) \/ (~q.ok /\ q.pdu = NoRead))
            BY <2>3
        <3>2. pos \in rpos .. wpos
            BY <1>1, <1>5
        <3> QED BY <1>5, <3>1, <3>2, Zenon
    <2>4. CASE q = more
        <3> HIDE DEF n
        <3>1. q.ok /\ q.pos = pos + n /\ q.pdu = [pdu EXCEPT !.solong = @ + n]
            BY <2>4
        <3>2. q.pdu \in P /\ q.pdu.solong = pdu.solong + n /\ q.pdu.sz = pdu.sz
            BY <2>1, <3>1
        <3>3. q.pos \in rpos .. wpos
            <4>1. pos + n \in rpos .. wpos
                <5> HIDE DEF P, Good, need
                <5> QED BY <1>1, <1>5, <2>1
            <4> QED BY <3>1, <4>1, Zenon
        <3>4. q.pdu.solong \in 1 .. q.pdu.sz
            BY <1>2, <1>5, <2>1, <3>2
        <3>5. q.pos = b + q.pdu.solong
            BY <1>2, <1>5, <2>1, <3>1, <3>2
        <3> QED BY <3>1, <3>2, <3>3, <3>4, <3>5, Zenon
    <2> QED BY <2>2, <2>3, <2>4
<1>6. CASE Full(rpdu_)
    <2>1. r = [ok |-> TRUE, pdu |-> rpdu_, pos |-> rpos]
        BY <1>6, Zenon
    <2>2. r.ok /\ r.pdu = rpdu_ /\ r.pos = rpos
        BY <2>1, Zenon
    <2>3. rpdu_ # NoRead
        BY <1>6 DEF Full, NoRead
    <2> QED BY <1>3, <1>4, <2>2, <2>3, Zenon
<1>7. CASE ~Full(rpdu_) /\ rpdu_.sz # 0
    <2>1. r \in Body(rpdu_, rpos)
        BY <1>7, Zenon DEF Reads
    <2>2. rpdu_ # NoRead
        BY <1>7 DEF NoRead
    <2>3. rpos <= rpos
        BY <1>1
    <2> HIDE DEF P, Good
    <2> QED BY <1>1, <1>5, <1>3, <2>1, <2>2, <2>3, Zenon
<1>8. CASE ~Full(rpdu_) /\ rpdu_.sz = 0
    <2>1. rpdu_.solong = 0 /\ rpos = b
        <3>1. rpdu_.solong = 0
            <4>1. CASE rpdu_ = NoRead
                BY <4>1 DEF NoRead
            <4>2. CASE rpdu_.solong \in 1 .. rpdu_.sz
                BY <1>8, <4>2
            <4> QED BY <1>3, <4>1, <4>2, Zenon
        <3> QED BY <1>2, <1>3, <3>1
    <2> DEFINE pdu == [buf |-> next, sz |-> z, solong |-> 1]
    <2>2. ASSUME NEW pos \in rpos .. wpos, r = [ok |-> FALSE, pdu |-> NoRead, pos |-> pos]
          PROVE  Good(r)
        <3>1. ~r.ok /\ r.pdu = NoRead /\ r.pos = pos
            BY <2>2, Zenon
        <3> QED BY <3>1, Zenon
    <2>3. CASE rpos = wpos
        <3>1. r = [ok |-> FALSE, pdu |-> NoRead, pos |-> rpos]
            BY <1>8, <2>3, Zenon DEF Reads
        <3> QED BY <1>4, <2>2, <3>1, Zenon
    <2>4. CASE rpos # wpos
        <3>1. b < Len(Stream) /\ rpos + 1 <= wpos /\ rpos + 1 \in Nat /\ rpos <= rpos + 1
            BY <1>1, <2>1, <2>4
        <3>2. Stream[rpos + 1] = next /\ z > 0
            BY <1>2, <2>1, <3>1, Zenon
        <3>3. \/ r \in Body(pdu, rpos + 1)
              \/ wpos = rpos + 1 /\ r = [ok |-> FALSE, pdu |-> NoRead, pos |-> wpos]
            BY <1>8, <2>4, <3>2, Zenon DEF Reads, z
        <3>4. pdu \in P /\ pdu.solong = 1 /\ pdu.sz = z
            OBVIOUS
        <3>5. 1 \in 1 .. z /\ rpos + 1 = b + 1
            BY <1>2, <2>1, <3>2
        <3> HIDE DEF pdu, P, Good
        <3>6. CASE r \in Body(pdu, rpos + 1)
            BY <1>5, <3>1, <3>4, <3>5, <3>6, Zenon
        <3>7. CASE wpos = rpos + 1 /\ r = [ok |-> FALSE, pdu |-> NoRead, pos |-> wpos]
            <4>1. wpos \in rpos .. wpos
                BY <1>1
            <4> QED BY <2>2, <3>7, <4>1, Zenon
        <3> QED BY <3>3, <3>6, <3>7, Zenon
    <2> QED BY <2>3, <2>4, Zenon
<1> QED BY <1>6, <1>7, <1>8, Zenon

\* The PDUs delivered, with the next one.
LEMMA OneMore ==
    ASSUME NEW s \in Seq(Nat), \A i \in DOMAIN s : s[i] = i
    PROVE  LET t == Append(s, Len(s) + 1)
           IN  t \in Seq(Nat) /\ Len(t) = Len(s) + 1 /\ \A i \in DOMAIN t : t[i] = i
<1> DEFINE t == Append(s, Len(s) + 1)
<1>1. /\ Len(s) \in Nat /\ DOMAIN s = 1 .. Len(s)
      /\ t \in Seq(Nat) /\ Len(t) = Len(s) + 1 /\ DOMAIN t = 1 .. Len(s) + 1
      /\ t[Len(s) + 1] = Len(s) + 1
      /\ \A i \in 1 .. Len(s) : t[i] = s[i]
    OBVIOUS
<1>2. \A i \in 1 .. Len(s) + 1 : i \in 1 .. Len(s) \/ i = Len(s) + 1
    BY <1>1
<1> QED BY <1>1, <1>2, Zenon

\* Every step keeps ReadOK; only read_cb does more than move the socket.
LEMMA ReadStep ==
    ASSUME TypeOK, ReadOK, [Next]_vars
    PROVE  ReadOK'
<1>1. /\ Len(delivered) + 1 \in Nat \ {0}
      /\ rpos \in Nat /\ wpos \in Nat /\ Len(Stream) \in Nat
      /\ rpos <= wpos /\ wpos <= Len(Stream)
    BY ReadParts, Zenon
<1>2. ASSUME rpdu_' = rpdu_, rpos' = rpos, delivered' = delivered, dead_ => dead_',
             wpos' \in rpos .. Len(Stream)
      PROVE  ReadOK'
    <2>1. wpos' \in Nat /\ rpos <= wpos' /\ wpos' <= Len(Stream)
        BY <1>1, <1>2
    <2> QED BY <1>2, <2>1, Zenon DEF ReadOK, Before
<1>3. wpos \in rpos .. Len(Stream) /\ rpos \in rpos .. Len(Stream)
    BY <1>1
<1>4. CASE UNCHANGED <<reading, wpos>> /\ (dead_ => dead_')
    BY <1>2, <1>3, <1>4, Zenon DEF reading
<1>5. CASE Arrive
    <2>1. wpos' \in rpos .. Len(Stream)
        <3>1. wpos' \in wpos + 1 .. Len(Stream)
            BY <1>5, Zenon DEF Arrive
        <3> QED BY <1>1, <3>1
    <2> QED BY <1>2, <1>5, <2>1, Zenon DEF Arrive, reading, object
<1>6. CASE Break
    BY <1>2, <1>3, <1>6, Zenon DEF Break, reading, object
<1>7. CASE ReadCb
    <2>1. CASE dead_
        BY <1>4, <1>7, <2>1, Zenon DEF ReadCb, socket
    <2>2. CASE ~dead_
        <3>1. PICK r \in IF Full(rpdu_) THEN {[ok |-> TRUE, pdu |-> rpdu_, pos |-> rpos]} ELSE Reads :
                 /\ rpos' = r.pos /\ GotPdu(r.pdu) /\ (~r.ok => dead_')
            BY <1>7, <2>2, Zenon DEF ReadCb, Died
        <3>2. wpos' = wpos
            BY <1>7, Zenon DEF ReadCb, socket
        <3> DEFINE next == Len(delivered) + 1
                   P == [buf : {next}, sz : {PduSize(next)}, solong : Nat]
        <3>3. /\ r.pos \in rpos .. wpos
              /\ \/ ~r.ok /\ r.pdu = NoRead
                 \/ /\ r.ok /\ r.pdu \in P
                    /\ r.pdu.solong \in 1 .. r.pdu.sz
                    /\ r.pos = Before(next) + r.pdu.solong
            BY <2>2, ReadsLemma
        <3>4. /\ rpos' \in Nat /\ wpos' \in Nat /\ rpos' <= wpos' /\ wpos' <= Len(Stream)
              /\ delivered \in Seq(Nat) /\ next \in Nat \ {0}
              /\ \A i \in DOMAIN delivered : delivered[i] = i
            <4>1. delivered \in Seq(Nat) /\ \A i \in DOMAIN delivered : delivered[i] = i
                BY Zenon DEF ReadOK
            <4>2. r.pos \in Nat /\ r.pos <= wpos
                BY <1>1, <3>3
            <4> QED BY <1>1, <3>1, <3>2, <4>1, <4>2, Zenon
        <3>5. CASE ~Full(r.pdu) \/ rpdu_' = r.pdu
            <4>1. rpdu_' = r.pdu /\ delivered' = delivered
                <5>1. CASE ~Full(r.pdu)
                    BY <3>1, <5>1, Zenon DEF GotPdu
                <5>2. CASE Full(r.pdu) /\ rpdu_' = r.pdu
                    <6>1. rpdu_' # NoRead
                        BY <5>2 DEF Full, NoRead
                    <6> QED BY <3>1, <5>2, <6>1, Zenon DEF GotPdu
                <5> QED BY <3>5, <5>1, <5>2
            <4>2. rpdu_' = NoRead \/ (rpdu_' \in P /\ rpdu_'.solong \in 1 .. rpdu_'.sz)
                BY <3>3, <4>1
            <4>3. ~dead_' => rpos' = Before(next) + rpdu_'.solong
                BY <3>1, <3>3, <4>1
            <4> QED BY <3>4, <4>1, <4>2, <4>3, Zenon DEF ReadOK, Before
        <3>6. CASE Full(r.pdu) /\ rpdu_' # r.pdu
            <4>1. rpdu_' = NoRead /\ delivered' = Append(delivered, r.pdu.buf)
                BY <3>1, <3>6, Zenon DEF GotPdu
            <4>2. r.pdu.buf = next /\ r.pos = Before(next) + PduSize(next)
                <5>1. r.pdu # NoRead /\ r.pdu.sz = r.pdu.solong
                    BY <3>6 DEF Full, NoRead
                <5>2. r.pdu \in P /\ r.pos = Before(next) + r.pdu.solong
                    BY <3>3, <5>1, Zenon
                <5>3. r.pdu.buf = next /\ r.pdu.sz = PduSize(next)
                    BY <5>2
                <5> QED BY <5>1, <5>2, <5>3, Zenon
            <4>3. /\ delivered' \in Seq(Nat) /\ Len(delivered') = next
                  /\ \A i \in DOMAIN delivered' : delivered'[i] = i
                <5>1. delivered' = Append(delivered, Len(delivered) + 1)
                    BY <4>1, <4>2, Zenon
                <5> QED BY <3>4, <5>1, OneMore, Zenon
            <4>4. Before(next + 1) \in Nat /\ r.pos = Before(next + 1)
                <5>1. next + 1 \in Nat \ {0}
                    BY <1>1
                <5> HIDE DEF next
                <5> QED BY <3>4, <4>2, <5>1, StreamLemma
            <4>5. rpos' = Before(next + 1) + rpdu_'.solong
                BY <3>1, <4>1, <4>4 DEF NoRead
            <4> HIDE DEF next
            <4> QED BY <3>4, <4>1, <4>3, <4>5, Zenon DEF ReadOK, Before
        <3> QED BY <3>5, <3>6
    <2> QED BY <2>1, <2>2
<1>8. CASE UNCHANGED vars
    BY <1>4, <1>8, Zenon DEF vars, object, socket
<1>9. CASE Drain \/ (\E s \in Senders : SenderStep(s))
    BY <1>4, <1>9, Zenon
    DEF Drain, SenderStep, SendNot, Send, MaySend, Wrote, Finish, Remove, Removed, Release, Decref,
        object, socket
<1>10. CASE OwnerStep \/ WakeSender \/ WakeRemover
    BY <1>4, <1>10, Zenon
    DEF OwnerStep, Drop, Close, CloseRemove, CloseRemoved, WakeSender, WakeRemover, Decref, object, socket
<1>11. CASE Top \/ Copy \/ Select \/ Check
    BY <1>4, <1>11, Zenon DEF Top, Copy, Select, Check, object, socket
<1>12. CASE WriteCb
    BY <1>4, <1>12, Zenon DEF WriteCb, Wrote, socket
<1> QED
    BY <1>5, <1>6, <1>7, <1>8, <1>9, <1>10, <1>11, <1>12, Zenon DEF Next, PollStep

(***************************************************************************)
(* However the stream of the peer is cut into parts, and whatever the      *)
(* manager refuses: read_cb hands over every PDU once, in order, and where *)
(* a living connection stands in the stream is just after what it has read *)
(* of the next one.                                                        *)
(***************************************************************************)
THEOREM PdusInOrder == Spec => []InOrder
<1>1. Init => TypeOK /\ ReadOK
    <2> SUFFICES ASSUME Init
                 PROVE  ReadOK
        BY InitLife
    <2>1. /\ rpdu_ = NoRead /\ rpos = 0 /\ wpos = 0 /\ delivered = <<>>
          /\ delivered \in Seq(Nat) /\ Len(delivered) + 1 = 1 /\ DOMAIN delivered = {}
        BY DEF Init
    <2>2. Before(1) = 0
        <3>1. {p \in DOMAIN Stream : Stream[p] < 1} = {}
            BY ConnectionAssumption
        <3> QED BY <3>1, FS_EmptySet, Zenon DEF Before
    <2>3. 0 <= Len(Stream) /\ rpos = Before(1) + rpdu_.solong
        BY <2>1, <2>2, ConnectionAssumption DEF NoRead
    <2>4. 0 \in Nat /\ 0 <= 0
        OBVIOUS
    <2> QED BY <2>1, <2>3, <2>4, Zenon DEF ReadOK
<1>2. TypeOK /\ ReadOK /\ [Next]_vars => (TypeOK /\ ReadOK)'
    BY TypeStep, ReadStep
<1>3. ReadOK => InOrder
    <2> SUFFICES ASSUME ReadOK
                 PROVE  InOrder
        OBVIOUS
    <2>1. rpdu_.buf \in {0, Len(delivered) + 1}
        <3>1. CASE rpdu_ = NoRead
            BY <3>1 DEF NoRead
        <3>2. CASE rpdu_ # NoRead
            <4>1. rpdu_ \in [buf : {Len(delivered) + 1}, sz : {PduSize(Len(delivered) + 1)}, solong : Nat]
                BY <3>2, Zenon DEF ReadOK
            <4> QED BY <4>1
        <3> QED BY <3>1, <3>2, Zenon
    <2> QED BY <2>1, Zenon DEF ReadOK, InOrder, Before
<1> QED BY <1>1, <1>2, <1>3, PTL DEF Spec
=============================================================================
