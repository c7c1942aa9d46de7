----------------------------- MODULE RpcPromise -----------------------------
(***************************************************************************)
(* What the RPC library promises a caller, with neither messages nor       *)
(* threads.  While a call is pending its handler runs at most once.  The   *)
(* call succeeds only after its handler has run, or it fails at any time,  *)
(* whether the handler has run or not.  Once the call is over the promise  *)
(* is void: a copy of the request that is still around may run again.      *)
(***************************************************************************)
EXTENDS Naturals

CONSTANT Calls

VARIABLES
    state,   \* state[i]: what the caller knows of call i
    runs     \* runs[i]: how often the handler of call i has run

promiseVars == <<state, runs>>

PromiseInit ==
    /\ state = [i \in Calls |-> "idle"]
    /\ runs = [i \in Calls |-> 0]

Invoke(i) ==
    /\ state[i] = "idle"
    /\ state' = [state EXCEPT ![i] = "pending"]
    /\ UNCHANGED runs

Run(i) ==
    /\ state[i] = "pending" /\ runs[i] = 0
    /\ runs' = [runs EXCEPT ![i] = 1]
    /\ UNCHANGED state

Succeed(i) ==
    /\ state[i] = "pending" /\ runs[i] = 1
    /\ state' = [state EXCEPT ![i] = "ok"]
    /\ UNCHANGED runs

Fail(i) ==
    /\ state[i] = "pending"
    /\ state' = [state EXCEPT ![i] = "failed"]
    /\ UNCHANGED runs

RunLate(i) ==
    /\ state[i] \in {"ok", "failed"}
    /\ runs' = [runs EXCEPT ![i] = @ + 1]
    /\ UNCHANGED state

PromiseNext ==
    \E i \in Calls : Invoke(i) \/ Run(i) \/ Succeed(i) \/ Fail(i) \/ RunLate(i)

PromiseSpec == PromiseInit /\ [][PromiseNext]_promiseVars
=============================================================================
