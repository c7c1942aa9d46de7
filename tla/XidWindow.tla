----------------------------- MODULE XidWindow -----------------------------
(***************************************************************************)
(* The acknowledgement window of an RPC client (rpcc::xid_rep_window_).    *)
(*                                                                         *)
(* The code keeps a sorted list whose first element is the number sent in  *)
(* every request header as xid_rep: "I need no reply up to this xid any    *)
(* more".  The rest of the list are the xids that are over but not yet     *)
(* contiguous with the first element.  Here the list is the pair           *)
(*   front: its first element,                                             *)
(*   ahead: the set of the elements beyond it.                             *)
(* Module XidWindowList has the list itself and is checked to implement    *)
(* the update below.                                                       *)
(***************************************************************************)
EXTENDS Naturals

\* rpcc::rpcc: xid_rep_window_.push_back(0)
EmptyWindow == [front |-> 0, ahead |-> {}]

\* The xids the client has reported, or may report, as over.
Covered(w) == 1 .. w.front \cup w.ahead

\* Mutant of UpdateXidRep: the front jumps to the xid, over the gap.
UpdateXidRepJumps(w, xid) ==
    IF xid <= w.front THEN {w} ELSE {[front |-> xid, ahead |-> {m \in w.ahead : m > xid}]}

(***************************************************************************)
(* rpcc::update_xid_rep: the windows it can leave (there is exactly one).  *)
(* xid joins the window, and the front moves to the end of the run of      *)
(* consecutive xids that starts there.                                     *)
(***************************************************************************)
UpdateXidRep(w, xid) ==
    IF xid <= w.front
    THEN {w}
    ELSE LET over == w.ahead \cup {xid}
             Run(n) == (\A m \in w.front + 1 .. n : m \in over) /\ n + 1 \notin over
         IN  {[front |-> n, ahead |-> {m \in over : m > n}] :
                  n \in {n \in {w.front} \cup over : Run(n)}}
=============================================================================
