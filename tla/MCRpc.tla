------------------------------- MODULE MCRpc -------------------------------
EXTENDS Rpc, TLC

Symmetry == Permutations(Workers)

\* bind is the first call, and the others were made after it returned.
HeaderOf(x) ==
    IF x = 1
    THEN [xid |-> 1, proc |-> "bind", srv_nonce |-> 0, xid_rep |-> 0]
    ELSE [xid |-> x, proc |-> "op", srv_nonce |-> 1, xid_rep |-> 1]

(***************************************************************************)
(* A state Init leads to: the server has registered its procedures, every  *)
(* client has opened a connection and bound, its calls in done have        *)
(* returned, those in out wait, their requests in flight, and w is its     *)
(* window.                                                                 *)
(***************************************************************************)
MidInit(done, out, w) ==
    /\ link = [c \in Clients |-> [k \in Conns |-> IF k = 1 THEN "up" ELSE "none"]]
    /\ cconn = [c \in Clients |-> [k \in Conns |->
                  IF k = 1 THEN [st |-> "live", ref |-> 1 + Cardinality(out)] ELSE NoEndpoint]]
    /\ sconn = [c \in Clients |-> [k \in Conns |->
                  IF k = 1 THEN [st |-> "live", ref |-> 2] ELSE NoEndpoint]]
    /\ reqs = {[clt |-> c, conn |-> 1, hdr |-> HeaderOf(x)] : c \in Clients, x \in out}
    /\ reps = {}
    /\ xid_ = [c \in Clients |-> Cardinality(done \cup out) + 1]
    /\ bind_done_ = [c \in Clients |-> TRUE]
    /\ srv_nonce_ = [c \in Clients |-> 1]
    /\ chan_ = [c \in Clients |-> 1]
    /\ xid_rep_window_ = [c \in Clients |-> w]
    /\ pc = [c \in Clients |-> [x \in Xids |->
               IF x \in done THEN "returned" ELSE IF x \in out THEN "wait" ELSE "none"]]
    /\ hdr = [c \in Clients |-> [x \in Xids |->
                IF x \in done \cup out THEN HeaderOf(x) ELSE NoHeader]]
    /\ ch = [c \in Clients |-> [x \in Xids |-> IF x \in out THEN 1 ELSE Null]]
    /\ round = [c \in Clients |-> [x \in Xids |-> 0]]
    /\ result = [c \in Clients |-> [x \in Xids |->
                   IF x \in done THEN [done |-> TRUE, ret |-> "ok", val |-> 1] ELSE NoResult]]
    /\ nonce_ = 1
    /\ procs_ = Procs
    /\ reply_window_ = [c \in Clients |-> [x \in Xids |->
                          IF x \in done /\ (x > 1 \/ done = {1})
                          THEN [st |-> "present", val |-> 1] ELSE Absent]]
    /\ conns_ = [c \in Clients |-> 1]
    /\ jobq = <<>>
    /\ wpc = [w1 \in Workers |-> "idle"]
    /\ wjob = [w1 \in Workers |-> NoJob]
    /\ wrep = [w1 \in Workers |-> NoReply]
    /\ heap = (Cardinality(done) + 1) * Cardinality(Clients)
    /\ execs = [c \in Clients |-> [x \in Xids |-> IF x \in done THEN 1 ELSE 0]]
    /\ wild = FALSE

\* After bind.
BoundSpec == MidInit({1}, {}, [front |-> 1, ahead |-> {}]) /\ [][Next]_vars

\* The second call is still waiting when the third has returned.
GapSpec ==
    /\ \E w \in UpdateXidRep([front |-> 1, ahead |-> {}], 3) : MidInit({1, 3}, {2}, w)
    /\ [][Next]_vars
=============================================================================
