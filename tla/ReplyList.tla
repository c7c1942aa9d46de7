----------------------------- MODULE ReplyList -----------------------------
(***************************************************************************)
(* The two lists behind at-most-once execution, for one client: the xids  *)
(* that the client acknowledges (XidWindowList), and the replies that the  *)
(* server keeps (rpcs::checkduplicate_and_update and rpcs::add_reply).     *)
(*                                                                         *)
(* A call is over at any time after it is made.  The copies of its request *)
(* arrive in any order, also after the entry for it was dropped, but each  *)
(* carries the xid_rep that call1 packed when the call was made: ack[x].   *)
(***************************************************************************)
EXTENDS XidWindowList, ReplyWindow

VARIABLES
    made,           \* the calls made so far: 1 .. made
    ack,
    list,           \* reply_window_[clt_nonce]
    executed        \* history: the requests that dispatch threads execute

replyVars == <<list, executed>>
listsVars == <<made, ack, listVars, replyVars>>

Calls == 1 .. MaxXid

ListsInit ==
    /\ ListInit
    /\ made = 0
    /\ ack = [x \in Calls |-> 0]
    /\ list = <<>>
    /\ executed = {}

\* call1 packs the front of the list into the request.
MakeCall ==
    /\ made < MaxXid
    /\ made' = made + 1
    /\ ack' = [ack EXCEPT ![made'] = Head(xid_rep_window_)]
    /\ UNCHANGED <<listVars, replyVars>>

\* Mutant of Kept: only the entries at the head of the list are dropped.
KeptAfterFirst(s, xid_rep) ==
    IF s # <<>> /\ s[1].xid <= xid_rep THEN Tail(s) ELSE s

\* The entries the scan keeps.
Kept(s, xid_rep) ==
    LET passed[k \in 0 .. Len(s)] ==
            IF k = 0 THEN <<>>
            ELSE IF s[k].xid > xid_rep THEN Append(passed[k - 1], s[k])
            ELSE passed[k - 1]
    IN  passed[Len(s)]

\* The index of the entry the scan stops at, or 0.
IndexOf(s, xid) ==
    LET I == {i \in DOMAIN s : s[i].xid = xid} IN IF I = {} THEN 0 ELSE First(I)

\* The list after the scan for a copy of xid, and what the scan returns.
Scan(s, xid) ==
    LET i == IndexOf(s, xid)
        ahead == Kept(SubSeq(s, 1, i - 1), ack[xid])
        rest == SubSeq(s, i + 1, Len(s))
    IN  IF i = 0
        THEN [list |-> Append(Kept(s, ack[xid]), [xid |-> xid, st |-> "inprogress"]),
              ret |-> "NEW"]
        ELSE IF xid <= ack[xid]
        THEN [list |-> ahead \o rest, ret |-> "FORGOTTEN"]
        ELSE [list |-> ahead \o <<s[i]>> \o rest,
              ret |-> IF s[i].st = "present" THEN "DONE" ELSE "INPROGRESS"]

\* rpcs::checkduplicate_and_update
CheckDuplicateList(xid) ==
    /\ list' = Scan(list, xid).list
    /\ executed' = IF Scan(list, xid).ret = "NEW" THEN executed \cup {xid} ELSE executed

\* The first entry for xid, if there still is one, gets the reply.
Filled(s, xid) ==
    LET i == IndexOf(s, xid) IN IF i = 0 THEN s ELSE [s EXCEPT ![i].st = "present"]

\* rpcs::add_reply, by a thread that executed the request.
AddReplyList(xid) ==
    /\ xid \in executed
    /\ list' = Filled(list, xid)
    /\ UNCHANGED executed

ListsNext ==
    \/ MakeCall
    \/ \E xid \in 1 .. made :
          \/ Update(xid) /\ UNCHANGED <<made, ack, replyVars>>
          \/ CheckDuplicateList(xid) /\ UNCHANGED <<made, ack, listVars>>
          \/ AddReplyList(xid) /\ UNCHANGED <<made, ack, listVars>>

ListsSpec == ListsInit /\ [][ListsNext]_listsVars

-----------------------------------------------------------------------------
\* The list as a window of module ReplyWindow.  The value of a reply does not
\* matter here.
WindowOf(s) ==
    [x \in Calls |->
        IF IndexOf(s, x) = 0 THEN Absent ELSE [st |-> s[IndexOf(s, x)].st, val |-> 0]]

(***************************************************************************)
(* Scanning the list does what the operators of ReplyWindow say, also for  *)
(* the copies that come out of order: what it returns, what it keeps and   *)
(* what it drops.                                                          *)
(***************************************************************************)
AgreesWithWindow ==
    \A xid \in 1 .. made :
       LET h == [xid |-> xid, xid_rep |-> ack[xid]]
           win == WindowOf(list)
       IN  /\ WindowOf(Scan(list, xid).list) = Checked(win, h)
           /\ Scan(list, xid).ret = Status(win, h)
           /\ xid \in executed => WindowOf(Filled(list, xid)) = Answered(win, xid, 0)
=============================================================================
