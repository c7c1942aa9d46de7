----------------------------- MODULE MCMarshall -----------------------------
(***************************************************************************)
(* A small instance of Marshall for TLC: bytes of four values, ints of two *)
(* bytes, buffers of 14 bytes, of which the header takes 12.               *)
(***************************************************************************)
EXTENDS Marshall

Arg(t, v) == [t |-> t, v |-> v]

\* Extreme numbers of every width; strings that fit, that double the buffer, and
\* that are longer than the buffer.
MCArgs ==
    {Arg("char", 3), Arg("short", 1), Arg("int", 0), Arg("int", 6), Arg("long", 255),
     Arg("string", <<>>), Arg("string", <<1, 2>>), Arg("string", [i \in 1 .. 15 |-> i % 4]),
     Arg("vector", <<>>), Arg("vector", <<15, 4>>),
     Arg("map", (9 :> 0) @@ (3 :> 15))}

MCHeaders == {<<1, 2, 3, 4, 0>>, <<15, 0, 9, 5, 14>>}
=============================================================================
