---------------------------- MODULE ReplyWindow ----------------------------
(***************************************************************************)
(* The replies an RPC server keeps for one client (an entry of             *)
(* rpcs::reply_window_), as a function win from xids to entries.  The code *)
(* keeps the entries in a list; module ReplyList has the list and is       *)
(* checked to agree with the operators below.                              *)
(*                                                                         *)
(* rpcs::checkduplicate_and_update scans the list in the order of arrival, *)
(* drops the entries up to xid_rep that it passes, and stops at the entry  *)
(* for xid.  The entries ahead of that one were all kept by the scan that  *)
(* appended it, with the same xid_rep, so nothing is dropped then.         *)
(***************************************************************************)
EXTENDS Naturals

\* reply_t: cb_present tells whether the reply is there.
Entries == [st : {"absent", "inprogress", "present"}, val : Nat]
Absent == [st |-> "absent", val |-> 0]
InProgress == [st |-> "inprogress", val |-> 0]

\* Mutant of Status: a request in progress is taken for a new one.
StatusForgetsProgress(win, h) == IF win[h.xid].st = "present" THEN "DONE" ELSE "NEW"

\* What checkduplicate_and_update returns for a request with header h.
Status(win, h) ==
    IF win[h.xid].st = "absent" THEN "NEW"
    ELSE IF h.xid <= h.xid_rep THEN "FORGOTTEN"
    ELSE IF win[h.xid].st = "present" THEN "DONE"
    ELSE "INPROGRESS"

\* Mutant of Dropped: one entry too many.
DroppedOneMore(win, h) ==
    IF Status(win, h) = "NEW"
    THEN {x \in DOMAIN win : x <= h.xid_rep + 1 /\ win[x].st # "absent"}
    ELSE {}

\* The entries it frees and erases.
Dropped(win, h) ==
    IF Status(win, h) = "NEW"
    THEN {x \in DOMAIN win : x <= h.xid_rep /\ win[x].st # "absent"}
    ELSE IF Status(win, h) = "FORGOTTEN" THEN {h.xid} ELSE {}

\* The window it leaves: a new request gets an entry without a reply.
Checked(win, h) ==
    [x \in DOMAIN win |->
        IF x = h.xid /\ Status(win, h) = "NEW" THEN InProgress
        ELSE IF x \in Dropped(win, h) THEN Absent
        ELSE win[x]]

\* rpcs::add_reply: the reply goes into the entry, if there still is one.
Answered(win, xid, val) ==
    IF win[xid].st = "absent" THEN win
    ELSE [win EXCEPT ![xid] = [st |-> "present", val |-> val]]
=============================================================================
