-------------------------------- MODULE Yfs --------------------------------
(***************************************************************************)
(* The file system: yfs_client, driven by fuse.cc, over extent_server.     *)
(* Every process that mounts it handles one request of the kernel at a     *)
(* time.  A request makes calls to the extent server one after another;    *)
(* each of them is one action.  There is the root directory, and there are *)
(* files, which stay empty: read, write and mkdir are not implemented.     *)
(*                                                                         *)
(* A call may fail after a timeout.  The server may have executed it all   *)
(* the same, may execute it later, or may never see it.  Of a put whose    *)
(* call is over, answered or failed, copies may still be on their way: the *)
(* at-most-once window of rpcs forgets a call when a later one of the same *)
(* process acknowledges it, and then executes a copy again, any number of  *)
(* times (RpcPromise).                                                     *)
(*                                                                         *)
(* op[c] is what the process does and where it stands:                     *)
(*   idle                                                                  *)
(*   lookup    about to get the directory                                  *)
(*   create    createfile: about to look the name up                       *)
(*   reread    createfile: about to read the directory once more           *)
(*   putdir    createfile: about to write the directory                    *)
(*   putfile   createfile: about to write the file                         *)
(*   getattr   about to get the attributes of what was found or created    *)
(* The kernel lists a directory by requests for one part after another,    *)
(* until an empty part; other requests may come in between.                *)
(***************************************************************************)
EXTENDS FileList, FiniteSets

CONSTANTS
    Procs,       \* processes that mount the file system
    Names,       \* file names: records with a length
    Inums,       \* what new_inum can return: the numbers of files
    Part,        \* entries that fit, at most, in the reply to a readdir request
    MaxOps,      \* bound: requests of each process, and listings
    MaxFail,     \* bound: calls that fail
    MaxLate      \* bound: executions of puts whose call is over

Root == 1

\* No file has this number: new_inum sets bit 31.
NoFile == 0

ASSUME YfsAssumption ==
    /\ Names # {} /\ \A n \in Names : n.len \in Nat \ {0}
    /\ Root \notin Inums /\ NoFile \notin Inums
    /\ Part \in Nat \ {0}
    /\ MaxOps \in Nat /\ MaxFail \in Nat /\ MaxLate \in Nat

VARIABLES
    _data, _attr,    \* the extent server: contents, and the extents with attributes
    op,
    name, id, fl,    \* name[c], id[c], fl[c]: the local variables of the request
    after,           \* after[c]: what getattr ends, a lookup or a create
    listing,         \* listing[c]: the kernel's listing of the directory
    ops, fails, late,
    ended,           \* the puts whose call is over: copies of them may be executed
    created,         \* history: the names for which create succeeded
    overlapped,      \* history: two processes were creating files at the same time
    stale            \* history: a late copy has brought an old directory back

server == <<_data, _attr>>
request == <<name, id, fl, after>>
failure == <<fails, late, ended>>
history == <<created, overlapped, stale>>
vars == <<server, op, request, listing, ops, failure, history>>

FileLists == Seq([id : Inums, name : Names])

\* open: a listing is being read; known: the names created before it was begun.
Listings == [open : BOOLEAN, entries : FileLists, known : SUBSET Names]

\* The types of the variables: what the server keeps under Root always reads back
\* as a directory, and every extent with contents has attributes.
YfsTypeOK ==
    /\ DOMAIN _data \subseteq {Root} \cup Inums
    /\ LET dir == deserialize(_data[Root]) IN dir.ok /\ dir.fl \in FileLists
    /\ _attr = DOMAIN _data
    /\ op \in [Procs -> {"idle", "lookup", "create", "reread", "putdir", "putfile", "getattr"}]
    /\ name \in [Procs -> Names]
    /\ id \in [Procs -> Inums \cup {NoFile}]
    /\ fl \in [Procs -> FileLists]
    /\ after \in [Procs -> {"lookup", "create"}]
    /\ listing \in [Procs -> Listings]
    /\ ops \in [Procs -> 0 .. MaxOps]
    /\ fails \in 0 .. MaxFail /\ late \in 0 .. MaxLate
    /\ created \subseteq Names
    /\ overlapped \in BOOLEAN /\ stale \in BOOLEAN

\* extent_server's constructor makes the root directory.
Init ==
    /\ _data = [e \in {Root} |-> serialize(<<>>)]
    /\ _attr = {Root}
    /\ op = [c \in Procs |-> "idle"]
    /\ name = [c \in Procs |-> CHOOSE n \in Names : TRUE]
    /\ id = [c \in Procs |-> NoFile]
    /\ fl = [c \in Procs |-> <<>>]
    /\ after = [c \in Procs |-> "lookup"]
    /\ listing = [c \in Procs |-> [open |-> FALSE, entries |-> <<>>, known |-> {}]]
    /\ ops = [c \in Procs |-> 0]
    /\ fails = 0 /\ late = 0
    /\ ended = {}
    /\ created = {}
    /\ overlapped = FALSE /\ stale = FALSE

-----------------------------------------------------------------------------
\* extent_server::put
Put(e, buf) ==
    /\ _data' = [f \in DOMAIN _data \cup {e} |-> IF f = e THEN buf ELSE _data[f]]
    /\ _attr' = _attr \cup {e}

EmptyFile == <<>>

\* The root directory, as yfs_client::readdir reads it.
readdir == deserialize(_data[Root])

Goto(c, p) == op' = [op EXCEPT ![c] = p]

\* Process c is in createfile.
Creating(c) == op[c] \in {"create", "reread", "putdir", "putfile"}

\* A request of the kernel: fuseserver_lookup, and fuseserver_create or _mknod.
Request(c, kind, n) ==
    /\ op[c] = "idle"
    /\ ops[c] < MaxOps
    /\ ops' = [ops EXCEPT ![c] = @ + 1]
    /\ name' = [name EXCEPT ![c] = n]
    /\ Goto(c, kind)
    /\ overlapped' = (overlapped \/ (kind = "create" /\ \E d \in Procs : Creating(d)))
    /\ UNCHANGED <<server, id, fl, after, listing, failure, created, stale>>

\* The inum of the first entry for n, or NoFile.
Find(list, n) ==
    LET I == {i \in DOMAIN list : list[i].name = n}
    IN  IF I = {} THEN NoFile ELSE list[CHOOSE i \in I : \A j \in I : i <= j].id

\* Mutant of AfterLookup: createfile does not look whether the name exists.
AfterLookupAlwaysNew(kind, ok, found) ==
    CASE ~ok -> "idle"
      [] ok /\ kind = "create" -> "reread"
      [] OTHER -> "getattr"

\* What follows yfs_client::lookup: an error, a new file, or the attributes.
AfterLookup(kind, ok, found) ==
    CASE ~ok -> "idle"
      [] ok /\ found = NoFile -> (IF kind = "create" THEN "reread" ELSE "idle")
      [] OTHER -> "getattr"

\* yfs_client::lookup, called by fuseserver_lookup and by createfile.
Lookup(c) ==
    LET dir == readdir
        found == IF dir.ok THEN Find(dir.fl, name[c]) ELSE NoFile
    IN  /\ op[c] \in {"lookup", "create"}
        /\ id' = [id EXCEPT ![c] = found]
        /\ after' = [after EXCEPT ![c] = op[c]]
        /\ Goto(c, AfterLookup(op[c], dir.ok, found))
        /\ UNCHANGED <<server, name, fl, listing, ops, failure, history>>

\* Mutant of ReRead: the list is the entry alone, as when readdir's list is dropped.
ReReadDropsList(c) ==
    /\ op[c] = "reread"
    /\ \E i \in Inums :
          /\ id' = [id EXCEPT ![c] = i]
          /\ fl' = [fl EXCEPT ![c] = <<[id |-> i, name |-> name[c]]>>]
    /\ Goto(c, "putdir")
    /\ UNCHANGED <<server, name, after, listing, ops, failure, history>>

\* createfile reads the directory again and adds an entry to what it has read.
ReRead(c) ==
    /\ op[c] = "reread"
    /\ LET dir == readdir
       IN  \E i \in Inums :
              /\ id' = [id EXCEPT ![c] = i]
              /\ fl' = [fl EXCEPT ![c] = Append(dir.fl, [id |-> i, name |-> name[c]])]
              /\ Goto(c, IF dir.ok THEN "putdir" ELSE "idle")
    /\ UNCHANGED <<server, name, after, listing, ops, failure, history>>

\* The put that is being called.
PutOf(c) ==
    IF op[c] = "putdir" THEN [e |-> Root, buf |-> serialize(fl[c])]
    ELSE [e |-> id[c], buf |-> EmptyFile]

\* The call of put is over; the copies that were sent of it may come later.
EndPut(c) == ended' = ended \cup {PutOf(c)}

PutDir(c) ==
    /\ op[c] = "putdir"
    /\ Put(Root, serialize(fl[c]))
    /\ EndPut(c)
    /\ Goto(c, "putfile")
    /\ UNCHANGED <<request, listing, ops, fails, late, history>>

\* Mutant of PutFile: the file's extent is not written.
PutFileNothing(c) ==
    /\ op[c] = "putfile"
    /\ EndPut(c)
    /\ Goto(c, "getattr")
    /\ UNCHANGED <<server, request, listing, ops, fails, late, history>>

PutFile(c) ==
    /\ op[c] = "putfile"
    /\ Put(id[c], EmptyFile)
    /\ EndPut(c)
    /\ Goto(c, "getattr")
    /\ UNCHANGED <<request, listing, ops, fails, late, history>>

\* fuse.cc getattr, for the entry in the reply; without attributes the reply is ENOENT.
GetAttr(c) ==
    /\ op[c] = "getattr"
    /\ Goto(c, "idle")
    /\ created' = IF after[c] = "create" /\ id[c] \in _attr THEN created \cup {name[c]}
                  ELSE created
    /\ UNCHANGED <<server, request, listing, ops, failure, overlapped, stale>>

-----------------------------------------------------------------------------
(* Listing the directory.                                                  *)

\* opendir of an application.
OpenDir(c) ==
    /\ op[c] = "idle"
    /\ ops[c] < MaxOps
    /\ ops' = [ops EXCEPT ![c] = @ + 1]
    /\ listing' = [listing EXCEPT ![c] = [open |-> TRUE, entries |-> <<>>, known |-> created]]
    /\ UNCHANGED <<server, op, request, failure, history>>

\* Mutant of reply_buf_limited: the last part is lost.
reply_buf_limitedButLast(list, off, k) ==
    IF off + k < Len(list) THEN SubSeq(list, off + 1, off + k) ELSE <<>>

\* The part of the listing from the offset off, in entries.  The code cuts by bytes:
\* how many whole entries fit, k, depends on the names, and the kernel drops a last
\* entry that is cut and asks for it again.
reply_buf_limited(list, off, k) ==
    IF off < Len(list)
    THEN SubSeq(list, off + 1, off + (IF Len(list) - off < k THEN Len(list) - off ELSE k))
    ELSE <<>>

\* The kernel gets a part of the listing; an empty one ends it.
GotPart(c, part) ==
    listing' = [listing EXCEPT ![c] = [open |-> part # <<>>, entries |-> @.entries \o part,
                                       known |-> @.known]]

\* fuseserver_readdir reads the whole directory for every part.
ReadDir(c) ==
    /\ op[c] = "idle"
    /\ listing[c].open
    /\ \E k \in 1 .. Part :
          GotPart(c, reply_buf_limited(IF readdir.ok THEN readdir.fl ELSE <<>>,
                                       Len(listing[c].entries), k))
    /\ UNCHANGED <<server, op, request, ops, failure, history>>

-----------------------------------------------------------------------------
(* Failures.                                                               *)

\* A call of a request fails, and with it the request.
Fail(c) ==
    /\ op[c] # "idle"
    /\ fails < MaxFail
    /\ fails' = fails + 1
    /\ \/ op[c] \notin {"putdir", "putfile"} /\ UNCHANGED <<server, ended>>
       \/ op[c] \in {"putdir", "putfile"} /\ UNCHANGED server /\ EndPut(c)
       \/ op[c] \in {"putdir", "putfile"} /\ Put(PutOf(c).e, PutOf(c).buf) /\ EndPut(c)
    /\ Goto(c, "idle")
    /\ UNCHANGED <<request, listing, ops, late, history>>

\* The server executes a copy of a put whose call is over.
LatePut(d) ==
    /\ late < MaxLate
    /\ late' = late + 1
    /\ Put(d.e, d.buf)
    /\ stale' = (stale \/ (d.e = Root /\ d.buf # _data[Root]))
    /\ UNCHANGED <<op, request, listing, ops, fails, ended, created, overlapped>>

\* The call of a readdir request fails: the reply is an empty part.
FailReadDir(c) ==
    /\ op[c] = "idle"
    /\ listing[c].open
    /\ fails < MaxFail
    /\ fails' = fails + 1
    /\ GotPart(c, <<>>)
    /\ UNCHANGED <<server, op, request, ops, late, ended, history>>

-----------------------------------------------------------------------------
Step(c) ==
    \/ \E n \in Names, kind \in {"lookup", "create"} : Request(c, kind, n)
    \/ Lookup(c)
    \/ ReRead(c)
    \/ PutDir(c)
    \/ PutFile(c)
    \/ GetAttr(c)
    \/ OpenDir(c)
    \/ ReadDir(c)
    \/ Fail(c)
    \/ FailReadDir(c)

Next ==
    \/ \E c \in Procs : Step(c)
    \/ \E d \in ended : LatePut(d)

Spec == Init /\ [][Next]_vars

-----------------------------------------------------------------------------
(* Properties.                                                             *)

NamesOf(list) == {list[i].name : i \in DOMAIN list}
Entries == readdir.fl

\* A file whose creation was reported stays: its name is in the directory, and the
\* entry that lookup finds has a file (dircheck and livecheck of test-lab-2.pl).
\* This is so as long as no two processes are in createfile at the same time, and
\* no late copy of a put brings an old directory back.
CreatedStay ==
    ~overlapped /\ ~stale =>
        LET list == Entries IN \A n \in created : Find(list, n) \in _attr

\* Under the same conditions the directory has no name twice (dircheck of
\* test-lab-2.pl), also when a create that failed half-way is tried again.
NoDuplicateNames ==
    ~overlapped /\ ~stale =>
        LET list == Entries IN Cardinality(NamesOf(list)) = Len(list)

\* As long as no call fails, an entry has its file, except between the two puts of
\* the createfile that adds it: however many processes create files, and although
\* copies of their puts are executed again.
EntryHasFile ==
    fails = 0 =>
        LET list == Entries
        IN  \A i \in DOMAIN list :
                \/ list[i].id \in _attr
                \/ \E c \in Procs : op[c] = "putfile" /\ id[c] = list[i].id

\* A listing that has ended, although it was read in parts between which files were
\* created, has every file that was created before it was begun, and none twice: as
\* long as no call fails, no two processes create files at the same time and no late
\* copy of a put brings an old directory back.
ListingComplete ==
    fails = 0 /\ ~overlapped /\ ~stale =>
        \A c \in Procs :
            LET l == listing[c]
            IN  ~l.open => /\ l.known \subseteq NamesOf(l.entries)
                           /\ Cardinality(NamesOf(l.entries)) = Len(l.entries)
=============================================================================
