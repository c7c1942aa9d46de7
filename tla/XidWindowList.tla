--------------------------- MODULE XidWindowList ---------------------------
(***************************************************************************)
(* rpcc::xid_rep_window_ as the code has it: a list of xids, updated by    *)
(* rpcc::update_xid_rep.  call1 and got_pdu may both report the same xid,  *)
(* and got_pdu may do so again for every copy of a reply, so xids come in  *)
(* any order and more than once.                                           *)
(***************************************************************************)
EXTENDS Naturals, Sequences, XidWindow

CONSTANTS
    MaxXid,      \* bound: xids reported
    MaxLen       \* bound: elements of the list

ASSUME ListAssumption == MaxXid \in Nat /\ MaxLen \in Nat \ {0}

VARIABLES
    xid_rep_window_,
    reported             \* history: the xids reported so far

listVars == <<xid_rep_window_, reported>>

ListInit == xid_rep_window_ = <<0>> /\ reported = {}

\* The first index in I, a set of indices that is not empty.
First(I) == CHOOSE i \in I : \A j \in I : i <= j

\* The new element goes before the first greater one, or to the end.
Inserted(s, xid) ==
    LET at == First({i \in DOMAIN s : s[i] > xid} \cup {Len(s) + 1})
    IN  [i \in 1 .. Len(s) + 1 |->
            IF i < at THEN s[i] ELSE IF i = at THEN xid ELSE s[i - 1]]

\* Mutant of PopWhile: at most one element is popped.
PopOnce(s, i, n) == IF s[i] + 1 = n THEN i + 1 ELSE i

\* while (front + 1 == *it) pop_front(), where n is *it: the front was at i and moves
\* on, but not beyond the iterator.
PopWhile(s, i, n) == First({j \in i .. Len(s) : s[j] + 1 # n})

\* The loop "compress": the iterator passes every element but the first.
Compress(s) ==
    LET front[k \in 0 .. Len(s) - 1] ==
            IF k = 0 THEN 1 ELSE PopWhile(s, front[k - 1], s[k + 1])
    IN  SubSeq(s, front[Len(s) - 1], Len(s))

\* Mutant of UpdateXidRepList: the list is not compressed.
UpdateNoCompress(s, xid) == IF xid <= Head(s) THEN s ELSE Inserted(s, xid)

UpdateXidRepList(s, xid) ==
    IF xid <= Head(s) THEN s
    ELSE Compress(Inserted(s, xid))

Update(xid) ==
    /\ Len(xid_rep_window_) < MaxLen
    /\ xid_rep_window_' = UpdateXidRepList(xid_rep_window_, xid)
    /\ reported' = reported \cup {xid}

-----------------------------------------------------------------------------
\* The list as a window of module XidWindow.
Window(s) == [front |-> Head(s), ahead |-> {s[i] : i \in {i \in DOMAIN s : s[i] > Head(s)}}]

(***************************************************************************)
(* update_xid_rep on the list does what UpdateXidRep says, also when an    *)
(* xid is reported twice ("I don't think there's any harm in potentially   *)
(* doing it twice").                                                       *)
(***************************************************************************)
ImplementsWindow ==
    [][\E xid \in 1 .. MaxXid :
          /\ reported' = reported \cup {xid}
          /\ UpdateXidRep(Window(xid_rep_window_), xid) = {Window(xid_rep_window_')}]_listVars

(***************************************************************************)
(* The front, which goes into every request header, acknowledges exactly   *)
(* the longest run of reported xids, and the list keeps the others.        *)
(***************************************************************************)
FrontExact ==
    /\ Covered(Window(xid_rep_window_)) = reported
    /\ Head(xid_rep_window_) + 1 \notin reported
=============================================================================
