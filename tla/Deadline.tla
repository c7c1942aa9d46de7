------------------------------ MODULE Deadline ------------------------------
(***************************************************************************)
(* The clock arithmetic of rpc.cc, and the waiting of rpcc::call1: rounds  *)
(* that get longer, up to the deadline of the call.  What a round sends is *)
(* in RpcClient, which knows of the time only that a wait may end.         *)
(*                                                                         *)
(* A second has MsPerSec (1000) milliseconds of NsPerMs (1000000)          *)
(* nanoseconds.  pc is "idle", "loop" (at the head of the while loop),     *)
(* "wait" (in the loop around pthread_cond_timedwait) or "over".           *)
(***************************************************************************)
EXTENDS Integers

CONSTANTS
    MsPerSec, NsPerMs,
    ToMin,            \* to_min.to
    Tos,              \* the timeouts of calls, in milliseconds
    LastSec           \* bound: the clock stops at the end of this second

Second == MsPerSec * NsPerMs

ASSUME DeadlineAssumption ==
    /\ MsPerSec \in Nat \ {0} /\ NsPerMs \in Nat \ {0}
    /\ ToMin \in Nat \ {0} /\ Tos \subseteq Nat
    /\ LastSec \in Nat

VARIABLES now, to, started, curr_to, nextdeadline, finaldeadline, pc, done

deadlineVars == <<now, to, started, curr_to, nextdeadline, finaldeadline, pc, done>>

Timespec(sec, nsec) == [tv_sec |-> sec, tv_nsec |-> nsec]

\* The time in nanoseconds.
Nanos(t) == t.tv_sec * Second + t.tv_nsec

-----------------------------------------------------------------------------
cmp_timespec(a, b) ==
    IF a.tv_sec # b.tv_sec THEN (IF a.tv_sec > b.tv_sec THEN 1 ELSE -1)
    ELSE IF a.tv_nsec # b.tv_nsec THEN (IF a.tv_nsec > b.tv_nsec THEN 1 ELSE -1)
    ELSE 0

\* Mutant of add_timespec: the carry is lost.
add_timespec_no_carry(a, b) ==
    Timespec(a.tv_sec + b \div MsPerSec, (a.tv_nsec + (b % MsPerSec) * NsPerMs) % Second)

\* The while loop of the code makes at most one turn, since a.tv_nsec < Second.
add_timespec(a, b) ==
    LET sec == a.tv_sec + b \div MsPerSec
        nsec == a.tv_nsec + (b % MsPerSec) * NsPerMs
    IN  IF nsec > Second THEN Timespec(sec + 1, nsec - Second) ELSE Timespec(sec, nsec)

-----------------------------------------------------------------------------
\* The call is made at any time of second 1.
DeadlineInit ==
    /\ now \in {Timespec(1, n) : n \in 0 .. Second - 1}
    /\ to \in Tos
    /\ started = now
    /\ curr_to = ToMin
    /\ nextdeadline = Timespec(0, 0) /\ finaldeadline = Timespec(0, 0)
    /\ pc = "idle" /\ done = FALSE

\* The real-time clock (external); before the call its passing makes no difference.
Tick ==
    /\ pc # "idle"
    /\ now.tv_sec <= LastSec
    /\ now' = IF now.tv_nsec = Second - 1 THEN Timespec(now.tv_sec + 1, 0)
              ELSE Timespec(now.tv_sec, now.tv_nsec + 1)
    /\ UNCHANGED <<to, started, curr_to, nextdeadline, finaldeadline, pc, done>>

\* call1 fixes its deadline.
Start ==
    /\ pc = "idle"
    /\ started' = now
    /\ finaldeadline' = add_timespec(now, to)
    /\ curr_to' = ToMin
    /\ pc' = "loop"
    /\ UNCHANGED <<now, to, nextdeadline, done>>

\* Mutant of Plan: the last round is not remembered as such, and rounds do not grow.
PlanAgain ==
    /\ pc = "loop"
    /\ nextdeadline' = IF cmp_timespec(add_timespec(now, curr_to), finaldeadline) > 0
                       THEN finaldeadline ELSE add_timespec(now, curr_to)
    /\ curr_to' = ToMin
    /\ pc' = "wait"
    /\ UNCHANGED <<now, to, started, finaldeadline, done>>

\* Mutant of Plan: a round may go beyond the deadline of the call.
PlanBeyond ==
    LET next == add_timespec(now, curr_to)
    IN  /\ pc = "loop"
        /\ nextdeadline' = next
        /\ finaldeadline' = IF cmp_timespec(next, finaldeadline) > 0
                            THEN [finaldeadline EXCEPT !.tv_sec = 0] ELSE finaldeadline
        /\ pc' = IF finaldeadline.tv_sec = 0 THEN "over" ELSE "wait"
        /\ UNCHANGED <<now, to, started, curr_to, done>>

\* The deadline of the next round; a finaldeadline of 0 says that it is the last.
Plan ==
    LET next == add_timespec(now, curr_to)
        last == cmp_timespec(next, finaldeadline) > 0
    IN  /\ pc = "loop"
        /\ \/ /\ finaldeadline.tv_sec = 0
              /\ pc' = "over"
              /\ UNCHANGED <<nextdeadline, finaldeadline>>
           \/ /\ finaldeadline.tv_sec # 0
              /\ pc' = "wait"
              /\ nextdeadline' = IF last THEN finaldeadline ELSE next
              /\ finaldeadline' = IF last THEN [finaldeadline EXCEPT !.tv_sec = 0]
                                  ELSE finaldeadline
        /\ UNCHANGED <<now, to, started, curr_to, done>>

(***************************************************************************)
(* pthread_cond_timedwait (external) fails with EINVAL, and keeps ca.m,    *)
(* when tv_nsec is a whole second; call1 then calls it again.              *)
(***************************************************************************)
ValidDeadline == nextdeadline.tv_nsec < Second

\* ETIMEDOUT, and no reply: the next round is twice as long.
RoundOver ==
    /\ pc = "wait" /\ ~done
    /\ ValidDeadline
    /\ cmp_timespec(now, nextdeadline) >= 0
    /\ curr_to' = 2 * curr_to
    /\ pc' = "loop"
    /\ UNCHANGED <<now, to, started, nextdeadline, finaldeadline, done>>

\* got_pdu finds the call and gets ca.m.
Reply ==
    /\ pc \in {"loop", "wait"} /\ ~done
    /\ pc = "wait" => ValidDeadline
    /\ done' = TRUE
    /\ UNCHANGED <<now, to, started, curr_to, nextdeadline, finaldeadline, pc>>

Woken ==
    /\ pc = "wait" /\ done
    /\ pc' = "over"
    /\ UNCHANGED <<now, to, started, curr_to, nextdeadline, finaldeadline, done>>

DeadlineNext == Tick \/ Start \/ Plan \/ RoundOver \/ Reply \/ Woken

\* Time passes and the thread runs; a reply need not come.
DeadlineSpec ==
    /\ DeadlineInit /\ [][DeadlineNext]_deadlineVars
    /\ WF_deadlineVars(Tick) /\ WF_deadlineVars(Start \/ Plan \/ RoundOver \/ Woken)

-----------------------------------------------------------------------------
\* A call gives up only when its timeout has passed since call1 read the clock.
NoEarlyTimeout ==
    pc = "over" /\ ~done => Nanos(now) >= Nanos(started) + to * NsPerMs

\* However the rounds grow, none of them is to end after the deadline of the call.
NoLateRound ==
    pc = "wait" => Nanos(nextdeadline) <= Nanos(started) + to * NsPerMs

(***************************************************************************)
(* A call returns, after its timeout if there is no reply: with one        *)
(* exception.  When its start and its timeout add up to a whole second,    *)
(* add_timespec (which compares with > where >= is meant) gives call1 a    *)
(* deadline that pthread_cond_timedwait rejects, and call1 asks again for  *)
(* ever.  This cannot be with a timeout of whole seconds, like to_max, the *)
(* timeout unless the caller gives another.                                *)
(***************************************************************************)
CallReturns ==
    pc = "idle" ~>
        \/ pc = "over"
        \/ /\ pc = "wait" /\ ~ValidDeadline
           /\ started.tv_nsec + (to % MsPerSec) * NsPerMs = Second
=============================================================================
