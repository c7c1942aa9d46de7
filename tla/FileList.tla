------------------------------ MODULE FileList ------------------------------
(***************************************************************************)
(* extent_protocol::serialize and deserialize: a directory as the contents *)
(* of an extent.  A buffer is the sequence of the fields written to it,    *)
(* each with its width in bytes, so that the lengths that deserialize      *)
(* compares are those of the code:                                         *)
(*   the number of entries (4), and for every entry                        *)
(*   its inum (8), the length of its name (4) and its name (that length).  *)
(* A name is a record with its length, len.                                *)
(***************************************************************************)
EXTENDS Integers, Sequences

Field(width, v) == [width |-> width, v |-> v]

\* buf.size()
Size(buf) ==
    LET upto[n \in 0 .. Len(buf)] == IF n = 0 THEN 0 ELSE upto[n - 1] + buf[n].width
    IN  upto[Len(buf)]

\* The fields of an entry.
Fields(e) == <<Field(8, e.id), Field(4, e.name.len), Field(e.name.len, e.name)>>

serialize(fl) ==
    LET upto[n \in 0 .. Len(fl)] ==
            IF n = 0 THEN <<Field(4, Len(fl))>> ELSE upto[n - 1] \o Fields(fl[n])
    IN  upto[Len(fl)]

\* Mutant of ReadEntry: the end of the last name is compared like the others.
ReadEntryNoLast(buf, s, i) ==
    LET p3 == s.p + 12 + buf[3 * i].v
    IN  IF ~s.ok \/ p3 >= Size(buf)
        THEN [s EXCEPT !.ok = FALSE]
        ELSE [ok |-> TRUE, p |-> p3,
              fl |-> Append(s.fl, [id |-> buf[3 * i - 1].v, name |-> buf[3 * i + 1].v])]

\* One round of the loop of deserialize; p is the offset in bytes.
ReadEntry(buf, s, i) ==
    LET size_buf == Size(buf)
        id == buf[3 * i - 1].v
        size_name == buf[3 * i].v
        last == IF i = buf[1].v THEN 1 ELSE 0
        p1 == s.p + 8
        p2 == p1 + 4
        p3 == p2 + size_name
    IN  IF ~s.ok \/ p1 >= size_buf \/ p2 >= size_buf \/ p3 >= size_buf + last
        THEN [s EXCEPT !.ok = FALSE]
        ELSE [ok |-> TRUE, p |-> p3, fl |-> Append(s.fl, [id |-> id, name |-> buf[3 * i + 1].v])]

\* Whether the buffer is one, and the list read from it.
deserialize(buf) ==
    LET size_fl == buf[1].v
        start == [ok |-> size_fl * 12 + 4 <= Size(buf), p |-> 4, fl |-> <<>>]
        round[i \in 0 .. size_fl] == IF i = 0 THEN start ELSE ReadEntry(buf, round[i - 1], i)
    IN  round[size_fl]
=============================================================================
