------------------------------ MODULE Marshall ------------------------------
(***************************************************************************)
(* A remote call as bytes: the arguments are packed one after another      *)
(* behind the space for the header (rpcc::call), the header is filled in,  *)
(* the handler that rpcs::reg has made unpacks the arguments of its method *)
(* (which may be more or fewer), the result and its header come back, and  *)
(* rpcc::call_m unpacks what its caller expects (which may be of another   *)
(* type).                                                                  *)
(*                                                                         *)
(* A byte has Base (256) values; a short, an int and a long long have      *)
(* IntLen \div 2, IntLen (4) and 2 * IntLen bytes.  An argument is a       *)
(* record: t is "char", "short", "int", "long", "string", "vector" (of     *)
(* ints) or "map" (from ints to ints), v a number, a sequence or a         *)
(* function.  Sizes are below the PDU limit of 10M, so that no sum of them *)
(* wraps around.                                                           *)
(***************************************************************************)
EXTENDS Integers, Sequences, SequencesExt

CONSTANTS
    Base, IntLen,
    DefaultSz,     \* DEFAULT_RPC_SZ: the capacity of a new buffer
    Args,          \* the arguments to choose from
    Headers,       \* request headers: sequences of five ints
    Rets,          \* what the methods return, none of it negative
    MaxArgs        \* bound: arguments that are packed, or unpacked

HeaderSz == 6 * IntLen       \* RPC_HEADER_SZ: the size of the PDU and five ints

ASSUME MarshallAssumption ==
    /\ Base \in Nat \ {0, 1} /\ IntLen \in Nat \ {0}
    /\ DefaultSz \in Nat /\ DefaultSz >= HeaderSz
    /\ MaxArgs \in Nat /\ Rets \subseteq Nat

VARIABLES
    m,          \* marshall: the bytes below _ind, and _capa
    header, packed,
    u,          \* unmarshall: the bytes, _ind and _ok
    uheader, unpacked,
    phase,      \* "pack", "unpack", "reply" or "returned"
    sent,       \* the result and the return value of the method, or NotRun
    got         \* what rpcc::call returned, and the caller's variable for the result,
                \* before the call (r) and after it (x)

vars == <<m, header, packed, u, uheader, unpacked, phase, sent, got>>

Width(t) == CASE t = "char" -> 1 [] t = "short" -> IntLen \div 2
              [] t = "int" -> IntLen [] t = "long" -> 2 * IntLen

-----------------------------------------------------------------------------
(* marshall                                                                *)

\* The w bytes of x, the most significant first.
Bytes(x, w) == [i \in 1 .. w |-> (x \div Base ^ (w - i)) % Base]

rawbyte(mm, x) ==
    [buf |-> Append(mm.buf, x),
     capa |-> IF Len(mm.buf) >= mm.capa THEN 2 * mm.capa ELSE mm.capa]

\* Mutant of rawbytes: the buffer is doubled once, however long the string is.
rawbytesDoubled(mm, s) ==
    [buf |-> mm.buf \o s,
     capa |-> IF Len(mm.buf) + Len(s) > mm.capa THEN 2 * mm.capa ELSE mm.capa]

rawbytes(mm, s) ==
    LET n == Len(s)
    IN  [buf |-> mm.buf \o s,
         capa |-> IF Len(mm.buf) + n > mm.capa
                  THEN (IF mm.capa > n THEN 2 * mm.capa ELSE mm.capa + n)
                  ELSE mm.capa]

PackNumber(mm, x, w) == FoldLeft(rawbyte, mm, Bytes(x, w))

\* operator<<
PackArg(mm, a) ==
    CASE a.t = "string" -> rawbytes(PackNumber(mm, Len(a.v), IntLen), a.v)
      [] a.t = "vector" -> FoldLeft(LAMBDA mn, x : PackNumber(mn, x, IntLen),
                                    PackNumber(mm, Len(a.v), IntLen), a.v)
      [] a.t = "map" -> FoldLeft(LAMBDA mn, k : PackNumber(PackNumber(mn, k, IntLen), a.v[k], IntLen),
                                 PackNumber(mm, Cardinality(DOMAIN a.v), IntLen),
                                 SetToSortSeq(DOMAIN a.v, <))
      [] OTHER -> PackNumber(mm, a.v, Width(a.t))

\* pack_req_header and pack_reply_header: the fields of the header replace what
\* was at their place; _ind stays.
pack_header(mm, h) ==
    LET fields == FoldLeft(\o, <<>>, [i \in DOMAIN h |-> Bytes(h[i], IntLen)])
    IN  [mm EXCEPT !.buf = [i \in DOMAIN @ |-> IF i \in IntLen + 1 .. IntLen + Len(fields)
                                               THEN fields[i - IntLen] ELSE @[i]]]

NewMarshall == [buf |-> [i \in 1 .. HeaderSz |-> 0], capa |-> DefaultSz]

-----------------------------------------------------------------------------
(* unmarshall.  Each operator gives the new state and the value, x.        *)

\* A byte beyond the end is 0, and _ok becomes false.
UnpackNumber(uu, w) ==
    LET last == uu.ind + w
        at(i) == IF uu.ind + i <= Len(uu.buf) THEN uu.buf[uu.ind + i] ELSE 0
    IN  [u |-> [uu EXCEPT !.ind = IF last <= Len(uu.buf) THEN last ELSE Len(uu.buf),
                          !.ok = @ /\ last <= Len(uu.buf)],
         x |-> FoldLeft(LAMBDA n, b : n * Base + b, 0, [i \in 1 .. w |-> at(i)])]

\* rawbytes of n bytes, if so many are left.
UnpackBytes(uu, n) ==
    IF uu.ind + n > Len(uu.buf)
    THEN [u |-> [uu EXCEPT !.ok = FALSE], x |-> <<>>]
    ELSE [u |-> [uu EXCEPT !.ind = @ + n], x |-> SubSeq(uu.buf, uu.ind + 1, uu.ind + n)]

\* n elements of a vector, whether there are so many or not.
UnpackInts(uu, n) ==
    LET after(i) == Min({uu.ind + i * IntLen, Len(uu.buf)})
    IN  [u |-> [uu EXCEPT !.ind = after(n), !.ok = @ /\ uu.ind + n * IntLen <= Len(uu.buf)],
         x |-> [i \in 1 .. n |-> UnpackNumber([uu EXCEPT !.ind = after(i - 1)], IntLen).x]]

\* n entries of a map, the last of those with one key.
UnpackMap(uu, n) ==
    LET r == UnpackInts(uu, 2 * n)
        key(i) == r.x[2 * i - 1]
    IN  [u |-> r.u,
         x |-> [k \in {key(i) : i \in 1 .. n} |->
                  r.x[2 * Max({i \in 1 .. n : key(i) = k})]]]

\* operator>>
UnpackArg(uu, t) ==
    LET size == UnpackNumber(uu, IntLen)
    IN  CASE t = "string" -> IF size.u.ok THEN UnpackBytes(size.u, size.x)
                             ELSE [u |-> size.u, x |-> <<>>]
          [] t = "vector" -> UnpackInts(size.u, size.x)
          [] t = "map" -> UnpackMap(size.u, size.x)
          [] OTHER -> UnpackNumber(uu, Width(t))

\* unpack_req_header and unpack_reply_header, of n fields, from the place behind
\* the size of the PDU.
unpack_header(uu, n) ==
    LET r == UnpackInts([uu EXCEPT !.ind = IntLen], n)
    IN  [u |-> [r.u EXCEPT !.ind = HeaderSz], x |-> r.x]

\* The int whose bytes are those of the unsigned x.
Signed(x) == IF 2 * x >= Base ^ IntLen THEN x - Base ^ IntLen ELSE x

okdone(uu) == uu.ok /\ uu.ind = Len(uu.buf)

\* take_in: the buffer of another unmarshall, from the place behind the header.
take_in(another) == [buf |-> another.buf, ind |-> HeaderSz, ok |-> Len(another.buf) >= HeaderSz]

-----------------------------------------------------------------------------
NoMessage == [buf |-> <<>>, ind |-> 0, ok |-> FALSE]
NotRun == [ret |-> -1, arg |-> [t |-> "int", v |-> 0]]
NotReturned == [ret |-> 0, x |-> 0, t |-> "none", r |-> 0]

\* rpc_const
unmarshal_args_failure == -2
unmarshal_reply_failure == -3

Init ==
    /\ m = NewMarshall
    /\ header \in Headers
    /\ packed = <<>>
    /\ u = NoMessage /\ uheader = <<>> /\ unpacked = <<>>
    /\ phase = "pack"
    /\ sent = NotRun /\ got = NotReturned

\* rpcc::call: one argument after another.
Pack(a) ==
    /\ phase = "pack" /\ Len(packed) < MaxArgs
    /\ m' = PackArg(m, a)
    /\ packed' = Append(packed, a)
    /\ UNCHANGED <<header, u, uheader, unpacked, phase, sent, got>>

\* The request gets its header, and dispatch takes it off.
Transfer ==
    LET mm == pack_header(m, header)
        r == unpack_header([buf |-> mm.buf, ind |-> 0, ok |-> TRUE], 5)
    IN  /\ phase = "pack"
        /\ m' = mm
        /\ u' = r.u /\ uheader' = r.x
        /\ phase' = "unpack"
        /\ UNCHANGED <<header, packed, unpacked, sent, got>>

\* The next argument of the handler, whose types are those of the caller as far
\* as both have arguments.
Unpack(t) ==
    LET r == UnpackArg(u, t)
    IN  /\ phase = "unpack" /\ Len(unpacked) < MaxArgs
        /\ Len(unpacked) < Len(packed) => t = packed[Len(unpacked) + 1].t
        /\ u' = r.u
        /\ unpacked' = Append(unpacked, [t |-> t, v |-> r.x])
        /\ UNCHANGED <<m, header, packed, uheader, phase, sent, got>>

(***************************************************************************)
(* handler::fn has all the arguments of its method: the method runs if     *)
(* they were the whole request, and its result a is packed; otherwise the  *)
(* reply is a header.  dispatch packs the header, and rpcc::got_pdu        *)
(* unpacks it and hands the rest to the call (take_in).                    *)
(***************************************************************************)
Reply(a, b) ==
    LET runs == okdone(u)
        ret == IF runs THEN b ELSE unmarshal_args_failure
        body == IF runs THEN PackArg(NewMarshall, a) ELSE NewMarshall
        mm == pack_header(body, <<uheader[1], ret % Base ^ IntLen>>)
        r == unpack_header([buf |-> mm.buf, ind |-> 0, ok |-> TRUE], 2)
    IN  /\ phase = "unpack" /\ unpacked # <<>>
        /\ sent' = IF runs THEN [ret |-> b, arg |-> a] ELSE NotRun
        /\ m' = mm
        /\ uheader' = r.x
        /\ u' = take_in(r.u)
        /\ phase' = "reply"
        /\ UNCHANGED <<header, packed, unpacked, got>>

\* What operator>> makes of a variable that holds old: the elements of a vector
\* are pushed behind those it has, anything else is replaced.
ReadInto(t, old, x) == IF t = "vector" THEN old \o x ELSE x

\* Mutant of call_m: the end of the reply is not looked at.
call_m_unchecked(a) ==
    LET intret == Signed(uheader[2])
        r == UnpackArg(u, a.t)
    IN  IF intret < 0 THEN [NotReturned EXCEPT !.ret = intret]
        ELSE IF ~r.u.ok THEN [NotReturned EXCEPT !.ret = unmarshal_reply_failure]
        ELSE [ret |-> intret, x |-> ReadInto(a.t, a.v, r.x), t |-> a.t, r |-> a.v]

\* call_m, for a caller whose variable for the result has the type and the value
\* of a.
call_m(a) ==
    LET intret == Signed(uheader[2])
        r == UnpackArg(u, a.t)
    IN  IF intret < 0 THEN [NotReturned EXCEPT !.ret = intret]
        ELSE IF ~okdone(r.u) THEN [NotReturned EXCEPT !.ret = unmarshal_reply_failure]
        ELSE [ret |-> intret, x |-> ReadInto(a.t, a.v, r.x), t |-> a.t, r |-> a.v]

Return(a) ==
    /\ phase = "reply"
    /\ got' = call_m(a)
    /\ phase' = "returned"
    /\ UNCHANGED <<m, header, packed, u, uheader, unpacked, sent>>

Types == {a.t : a \in Args}

Next ==
    \/ \E a \in Args : Pack(a)
    \/ Transfer
    \/ \E t \in Types : Unpack(t)
    \/ \E a \in Args, b \in Rets : Reply(a, b)
    \/ \E a \in Args : Return(a)

Spec == Init /\ [][Next]_vars

-----------------------------------------------------------------------------
\* The types of the variables; what is packed fits the buffer, as rawbyte and
\* rawbytes have enlarged it.
MarshallTypeOK ==
    /\ m.buf \in Seq(0 .. Base - 1) /\ Len(m.buf) <= m.capa
    /\ u.buf \in Seq(0 .. Base - 1) /\ u.ind \in 0 .. Len(u.buf) /\ u.ok \in BOOLEAN
    /\ packed \in Seq(Args) /\ header \in Headers
    /\ phase \in {"pack", "unpack", "reply", "returned"}

(***************************************************************************)
(* A method runs only with exactly the arguments of the call, read back as *)
(* they were packed, and the caller whose variable has the type of the     *)
(* result gets it, behind the elements that a vector had, and what the     *)
(* method returned.  Too few or too many arguments, and a result whose     *)
(* size is not that of the type expected, make call return the failure     *)
(* that says so (the tests of rpctest.cc: "too few arguments", "too many   *)
(* arguments", "wrong ret value size").                                    *)
(***************************************************************************)
CallFaithful ==
    LET right == Len(unpacked) = Len(packed)
        fixed(t) == t \notin {"string", "vector", "map"}
    IN  /\ phase = "unpack" => uheader = header
        /\ sent # NotRun => unpacked = packed
        /\ phase = "returned" =>
              /\ ~right <=> got.ret = unmarshal_args_failure
              /\ right /\ got.t = sent.arg.t =>
                    /\ got.x = IF got.t = "vector" THEN got.r \o sent.arg.v ELSE sent.arg.v
                    /\ got.ret = sent.ret
              /\ right /\ got.t # "none" /\ fixed(got.t) =>
                    Len(m.buf) = HeaderSz + Width(got.t)
              /\ right /\ got.t = "none" => got.ret = unmarshal_reply_failure
=============================================================================
