------------------------------ MODULE RpcRefs ------------------------------
(***************************************************************************)
(* The theorems about the references to connections that the RPC library   *)
(* counts: at the client (ClientRefsExact) and at the server               *)
(* (NoDanglingConn).                                                       *)
(***************************************************************************)
EXTENDS RpcProof

-----------------------------------------------------------------------------
(* Connection objects.                                                     *)

\* connection::incref, decref, the constructor and dead_ = true change the object they
\* are called on, and no other.
LEMMA EntryLemma ==
    ASSUME NEW e \in [Conns -> Endpoints], NEW k \in Conns, NEW j \in Conns
    PROVE  /\ Incref(e, k)[j].st = e[j].st
           /\ Incref(e, k)[j].ref = IF j = k THEN e[j].ref + 1 ELSE e[j].ref
           /\ Decref(e, k)[j].st = IF j = k /\ e[j].ref = 1 /\ e[j].st = "dead" THEN "deleted" ELSE e[j].st
           /\ Decref(e, k)[j].ref = IF j = k THEN e[j].ref - 1 ELSE e[j].ref
           /\ Killed(e, k)[j].st = IF j = k THEN "dead" ELSE e[j].st
           /\ Killed(e, k)[j].ref = e[j].ref
           /\ Created(e, k)[j].st = IF j = k THEN "live" ELSE e[j].st
           /\ Created(e, k)[j].ref = IF j = k THEN 1 ELSE e[j].ref
           /\ e[j].ref \in Int
<1>1. e[j] \in Endpoints /\ e[j].ref \in Int
    BY Zenon DEF Endpoints
<1>2. Incref(e, k)[j].st = e[j].st /\ Incref(e, k)[j].ref = IF j = k THEN e[j].ref + 1 ELSE e[j].ref
    BY <1>1 DEF Incref, Endpoints
<1>3. /\ Decref(e, k)[j].st = IF j = k /\ e[j].ref = 1 /\ e[j].st = "dead" THEN "deleted" ELSE e[j].st
      /\ Decref(e, k)[j].ref = IF j = k THEN e[j].ref - 1 ELSE e[j].ref
    BY <1>1 DEF Decref, Endpoints
<1>4. Killed(e, k)[j].st = (IF j = k THEN "dead" ELSE e[j].st) /\ Killed(e, k)[j].ref = e[j].ref
    BY <1>1 DEF Killed, Endpoints
<1>5. /\ Created(e, k)[j].st = IF j = k THEN "live" ELSE e[j].st
      /\ Created(e, k)[j].ref = IF j = k THEN 1 ELSE e[j].ref
    BY <1>1 DEF Created, Endpoints
<1> QED BY <1>1, <1>2, <1>3, <1>4, <1>5, Zenon

\* incref leaves the other objects alone.
LEMMA OtherIncref ==
    ASSUME NEW e \in [Conns -> Endpoints], NEW k \in Conns, NEW j \in Conns, j # k
    PROVE  Incref(e, k)[j].st = e[j].st /\ Incref(e, k)[j].ref = e[j].ref
BY EntryLemma

\* So does decref.
LEMMA OtherDecref ==
    ASSUME NEW e \in [Conns -> Endpoints], NEW k \in Conns, NEW j \in Conns, j # k
    PROVE  Decref(e, k)[j].st = e[j].st /\ Decref(e, k)[j].ref = e[j].ref
BY EntryLemma

\* incref of the object itself.
LEMMA OwnIncref ==
    ASSUME NEW e \in [Conns -> Endpoints], NEW k \in Conns
    PROVE  Incref(e, k)[k].st = e[k].st /\ Incref(e, k)[k].ref = e[k].ref + 1
BY EntryLemma

\* connection::send leaves the objects alone, or the one it is called on dies.
LEMMA OutcomeLemma ==
    ASSUME NEW e, NEW c, NEW k, NEW o \in SendOutcomes(e, c, k)
    PROVE  o.conns = e \/ (o.conns = Killed(e, k) /\ Live(e, k))
<1>1. \/ o = [conns |-> e, sent |-> TRUE]
      \/ o = [conns |-> e, sent |-> FALSE]
      \/ o = [conns |-> Killed(e, k), sent |-> FALSE] /\ Live(e, k)
    BY Zenon DEF SendOutcomes
<1> QED BY <1>1

-----------------------------------------------------------------------------
(* The client.                                                             *)

\* The calls that hold connection k, and the number of its holders when cur is chan_.
Held(h, k) == {x \in Xids : h[x] = k}
SameBut(h, g, x) == \A y \in Xids : y # x => g[y] = h[y]
ClientHolders(h, cur, k) == Cardinality(Held(h, k)) + One(cur = k)

\* An object with n holders: until it dies it is the current one, so that it does not
\* lose its last holder before.
EndGood(e, n, current) ==
    /\ e.ref = n
    /\ e.st \in {"none", "deleted"} => n = 0
    /\ e.st = "dead" => n > 0
    /\ e.st = "live" => current

TableOK(e, h, cur, l) ==
    \A k \in Conns : /\ EndGood(e[k], ClientHolders(h, cur, k), cur = k)
                     /\ l[k] = "none" => e[k].st = "none"

\* The inductive invariant of the references at the client.
ClientRefsOK == \A c \in Clients : TableOK(cconn[c], ch[c], chan_[c], link[c])

\* The calls that hold a connection are finitely many.
LEMMA HeldFinite ==
    ASSUME NEW h, NEW k
    PROVE  IsFiniteSet(Held(h, k)) /\ Cardinality(Held(h, k)) \in Nat
<1>1. IsFiniteSet(Xids)
    BY WireAssumption, FS_Interval DEF Xids
<1>2. Held(h, k) \subseteq Xids
    BY Zenon DEF Held
<1> QED BY <1>1, <1>2, FS_Subset, FS_CardinalityType, Zenon

\* When call x takes j in place of what it held, only these two have another number of
\* holders.
LEMMA HeldLemma ==
    ASSUME NEW h, NEW g, NEW x \in Xids, NEW k, SameBut(h, g, x)
    PROVE  Cardinality(Held(g, k)) + One(h[x] = k) = Cardinality(Held(h, k)) + One(g[x] = k)
<1> DEFINE H == Held(h, k)
           G == Held(g, k)
<1>2. IsFiniteSet(H) /\ IsFiniteSet(G) /\ Cardinality(H) \in Nat /\ Cardinality(G) \in Nat
    BY HeldFinite, Zenon
<1>4. (x \in H <=> h[x] = k) /\ (x \in G <=> g[x] = k) /\ H \ {x} = G \ {x}
    BY Zenon DEF Held, SameBut
<1>5. /\ Cardinality(H \ {x}) = IF x \in H THEN Cardinality(H) - 1 ELSE Cardinality(H)
      /\ Cardinality(G \ {x}) = IF x \in G THEN Cardinality(G) - 1 ELSE Cardinality(G)
    <2> HIDE DEF H, G
    <2> QED BY <1>2, FS_RemoveElement, Zenon
<1>6. /\ One(h[x] = k) = IF x \in H THEN 1 ELSE 0
      /\ One(g[x] = k) = IF x \in G THEN 1 ELSE 0
    <2> HIDE DEF H, G
    <2> QED BY <1>4, Zenon DEF One
<1> HIDE DEF H, G
<1>7. Cardinality(G) + One(h[x] = k) = Cardinality(H) + One(g[x] = k)
    <2> DEFINE a == Cardinality(H)
               b == Cardinality(G)
               r == Cardinality(H \ {x})
    <2>1. /\ a \in Nat /\ b \in Nat
          /\ r = IF x \in H THEN a - 1 ELSE a
          /\ r = IF x \in G THEN b - 1 ELSE b
        BY <1>2, <1>4, <1>5, Zenon
    <2> HIDE DEF a, b, r
    <2>2. b + (IF x \in H THEN 1 ELSE 0) = a + (IF x \in G THEN 1 ELSE 0)
        BY <2>1
    <2> QED BY <1>6, <2>2, Zenon DEF a, b
<1> QED BY <1>7, Zenon DEF H, G

\* A call that holds a connection is one of its holders, and so is chan_.
LEMMA HoldersNat ==
    ASSUME NEW h, NEW cur, NEW k
    PROVE  ClientHolders(h, cur, k) \in Nat /\ (cur = k => ClientHolders(h, cur, k) >= 1)
<1>1. Cardinality(Held(h, k)) \in Nat
    BY HeldFinite, Zenon
<1> QED BY <1>1 DEF ClientHolders, One

\* The same for all holders of a connection.
LEMMA HoldersLemma ==
    ASSUME NEW h, NEW g, NEW x \in Xids, NEW cur, NEW k, SameBut(h, g, x)
    PROVE  /\ h[x] = k /\ g[x] # k => ClientHolders(h, cur, k) = ClientHolders(g, cur, k) + 1
           /\ h[x] # k /\ g[x] = k => ClientHolders(g, cur, k) = ClientHolders(h, cur, k) + 1
           /\ (h[x] = k <=> g[x] = k) => ClientHolders(g, cur, k) = ClientHolders(h, cur, k)
<1> DEFINE a == Cardinality(Held(h, k))
           b == Cardinality(Held(g, k))
           m == One(h[x] = k)
           n == One(g[x] = k)
           o == One(cur = k)
<1>1. a \in Nat /\ b \in Nat
    BY HeldFinite, Zenon
<1>2. b + m = a + n
    BY HeldLemma
<1>3. /\ m = IF h[x] = k THEN 1 ELSE 0
      /\ n = IF g[x] = k THEN 1 ELSE 0
      /\ o \in {0, 1}
    BY Zenon DEF One
<1>5. ClientHolders(h, cur, k) = a + o /\ ClientHolders(g, cur, k) = b + o
    BY Zenon DEF ClientHolders
<1> HIDE DEF a, b, m, n, o
<1> QED BY <1>1, <1>2, <1>3, <1>5

\* Call x lets go of k.
LEMMA HoldersLess ==
    ASSUME NEW h, NEW g, NEW x \in Xids, NEW cur, NEW k, SameBut(h, g, x),
           h[x] = k, g[x] # k
    PROVE  ClientHolders(h, cur, k) = ClientHolders(g, cur, k) + 1
BY HoldersLemma

\* Call x takes k.
LEMMA HoldersMore ==
    ASSUME NEW h, NEW g, NEW x \in Xids, NEW cur, NEW k, SameBut(h, g, x),
           h[x] # k, g[x] = k
    PROVE  ClientHolders(g, cur, k) = ClientHolders(h, cur, k) + 1
BY HoldersLemma

\* Call x neither takes k nor lets go of it.
LEMMA HoldersSame ==
    ASSUME NEW h, NEW g, NEW x \in Xids, NEW cur, NEW k, SameBut(h, g, x),
           h[x] = k <=> g[x] = k
    PROVE  ClientHolders(g, cur, k) = ClientHolders(h, cur, k)
BY HoldersLemma

\* connection::send or read_cb finds the link broken: the current connection dies.
LEMMA TableKilled ==
    ASSUME NEW e \in [Conns -> Endpoints], NEW h, NEW cur, NEW l,
           TableOK(e, h, cur, l), NEW k \in Conns, Live(e, k)
    PROVE  TableOK(Killed(e, k), h, cur, l)
<1> SUFFICES ASSUME NEW j \in Conns
             PROVE  /\ EndGood(Killed(e, k)[j], ClientHolders(h, cur, j), cur = j)
                    /\ l[j] = "none" => Killed(e, k)[j].st = "none"
    BY Zenon DEF TableOK
<1> DEFINE d == Killed(e, k)[j]
           n == ClientHolders(h, cur, j)
<1>1. d.ref = e[j].ref /\ d.st = IF j = k THEN "dead" ELSE e[j].st
    BY EntryLemma
<1>2. EndGood(e[j], n, cur = j) /\ (l[j] = "none" => e[j].st = "none")
    BY Zenon DEF TableOK
<1>3. n \in Nat /\ (cur = j => n >= 1)
    BY HoldersNat, Zenon
<1>4. j = k => e[j].st = "live"
    BY Zenon DEF Live
<1> HIDE DEF d, n
<1>5. EndGood(d, n, cur = j) /\ (l[j] = "none" => d.st = "none")
    BY <1>1, <1>2, <1>3, <1>4 DEF EndGood
<1> QED BY <1>5, Zenon DEF d, n

\* A call lets go of the connection it holds, if any.
LEMMA TableRelease ==
    ASSUME NEW e \in [Conns -> Endpoints], NEW h \in [Xids -> Conns \cup {Null}], NEW cur, NEW l,
           NEW x \in Xids, TableOK(e, h, cur, l)
    PROVE  TableOK(DecrefIf(e, h[x]), [h EXCEPT ![x] = Null], cur, l)
<1> SUFFICES ASSUME NEW j \in Conns
             PROVE  /\ EndGood(DecrefIf(e, h[x])[j], ClientHolders([h EXCEPT ![x] = Null], cur, j), cur = j)
                    /\ l[j] = "none" => DecrefIf(e, h[x])[j].st = "none"
    BY Zenon DEF TableOK
<1> DEFINE g == [h EXCEPT ![x] = Null]
           d == DecrefIf(e, h[x])[j]
           n == ClientHolders(h, cur, j)
           m == ClientHolders(g, cur, j)
           p == h[x]
<1>1. j # Null /\ p \in Conns \cup {Null}
    BY WireAssumption DEF Conns, Null
<1>2. /\ d.ref = IF p = j THEN e[j].ref - 1 ELSE e[j].ref
      /\ d.st = IF p = j /\ e[j].ref = 1 /\ e[j].st = "dead" THEN "deleted" ELSE e[j].st
      /\ e[j].ref \in Int
    <2>1. CASE p = Null
        BY <1>1, <2>1, EntryLemma DEF DecrefIf
    <2>2. CASE p # Null
        <3>1. p \in Conns /\ d = Decref(e, p)[j]
            BY <1>1, <2>2, Zenon DEF DecrefIf
        <3> HIDE DEF p, d
        <3> QED BY <3>1, EntryLemma
    <2> QED BY <2>1, <2>2
<1>3. EndGood(e[j], n, cur = j) /\ (l[j] = "none" => e[j].st = "none")
    BY Zenon DEF TableOK
<1>4. g[x] = Null /\ SameBut(h, g, x)
    BY Zenon DEF SameBut
<1>5. n \in Nat /\ m \in Nat
    BY HoldersNat, Zenon
<1> HIDE DEF g
<1>6. (p = j => n = m + 1) /\ (p # j => n = m)
    <2>1. ASSUME p = j PROVE n = m + 1
        <3>1. h[x] = j /\ g[x] # j
            BY <1>1, <1>4, <2>1, Zenon
        <3> QED BY <1>4, <3>1, HoldersLess
    <2>2. ASSUME p # j PROVE n = m
        <3>1. h[x] # j /\ g[x] # j
            BY <1>1, <1>4, <2>2, Zenon
        <3> QED BY <1>4, <3>1, HoldersSame
    <2> QED BY <2>1, <2>2, Zenon
<1> HIDE DEF d, n, m, p
<1>7. EndGood(d, m, cur = j) /\ (l[j] = "none" => d.st = "none")
    BY <1>1, <1>2, <1>3, <1>5, <1>6 DEF EndGood
<1> QED BY <1>7, Zenon DEF d, m, p, g
\* A call that holds no connection takes one that is not deleted.
LEMMA TableTake ==
    ASSUME NEW e \in [Conns -> Endpoints], NEW h \in [Xids -> Conns \cup {Null}], NEW cur, NEW l,
           NEW x \in Xids, TableOK(e, h, cur, l), h[x] = Null, NEW k \in Conns, Live(e, k)
    PROVE  TableOK(Incref(e, k), [h EXCEPT ![x] = k], cur, l)
<1> SUFFICES ASSUME NEW j \in Conns
             PROVE  /\ EndGood(Incref(e, k)[j], ClientHolders([h EXCEPT ![x] = k], cur, j), cur = j)
                    /\ l[j] = "none" => Incref(e, k)[j].st = "none"
    BY Zenon DEF TableOK
<1> DEFINE g == [h EXCEPT ![x] = k]
           d == Incref(e, k)[j]
           n == ClientHolders(h, cur, j)
           m == ClientHolders(g, cur, j)
<1>1. j # Null
    BY WireAssumption DEF Conns, Null
<1>2. /\ d.st = e[j].st /\ d.ref = IF j = k THEN e[j].ref + 1 ELSE e[j].ref
      /\ e[j].ref \in Int
    BY EntryLemma
<1>3. EndGood(e[j], n, cur = j) /\ (l[j] = "none" => e[j].st = "none") /\ (j = k => e[j].st = "live")
    BY Zenon DEF TableOK, Live
<1>4. g[x] = k /\ SameBut(h, g, x)
    BY Zenon DEF SameBut
<1>5. n \in Nat /\ m \in Nat
    BY HoldersNat, Zenon
<1> HIDE DEF g
<1>6. (j = k => m = n + 1) /\ (j # k => n = m)
    <2>1. ASSUME j = k PROVE m = n + 1
        <3>1. h[x] # j /\ g[x] = j
            BY <1>1, <1>4, <2>1, Zenon
        <3> QED BY <1>4, <3>1, HoldersMore, SMTT(20)
    <2>2. ASSUME j # k PROVE n = m
        <3>1. h[x] # j /\ g[x] # j
            BY <1>1, <1>4, <2>2, Zenon
        <3> QED BY <1>4, <3>1, HoldersSame
    <2> QED BY <2>1, <2>2, Zenon
<1> HIDE DEF d, n, m
<1>7. EndGood(d, m, cur = j) /\ (l[j] = "none" => d.st = "none")
    BY <1>1, <1>2, <1>3, <1>5, <1>6 DEF EndGood
<1> QED BY <1>7, Zenon DEF d, m, g

\* get_refconn lets go of chan_, which is null or dead.
LEMMA TableDrop ==
    ASSUME NEW e \in [Conns -> Endpoints], NEW h, NEW cur \in Conns \cup {Null}, NEW l,
           TableOK(e, h, cur, l), cur = Null \/ ~Live(e, cur)
    PROVE  TableOK(DecrefIf(e, cur), h, Null, l)
<1> SUFFICES ASSUME NEW j \in Conns
             PROVE  /\ EndGood(DecrefIf(e, cur)[j], ClientHolders(h, Null, j), Null = j)
                    /\ l[j] = "none" => DecrefIf(e, cur)[j].st = "none"
    BY Zenon DEF TableOK
<1> DEFINE d == DecrefIf(e, cur)[j]
           n == ClientHolders(h, cur, j)
           m == ClientHolders(h, Null, j)
           a == Cardinality(Held(h, j))
<1>1. j # Null
    BY WireAssumption DEF Conns, Null
<1>2. /\ d.ref = IF cur = j THEN e[j].ref - 1 ELSE e[j].ref
      /\ d.st = IF cur = j /\ e[j].ref = 1 /\ e[j].st = "dead" THEN "deleted" ELSE e[j].st
      /\ e[j].ref \in Int
    <2>1. CASE cur = Null
        BY <1>1, <2>1, EntryLemma DEF DecrefIf
    <2>2. CASE cur # Null
        <3>1. cur \in Conns /\ d = Decref(e, cur)[j]
            BY <1>1, <2>2, Zenon DEF DecrefIf
        <3> HIDE DEF d
        <3> QED BY <3>1, EntryLemma
    <2> QED BY <2>1, <2>2
<1>3. EndGood(e[j], n, cur = j) /\ (l[j] = "none" => e[j].st = "none") /\ (cur = j => e[j].st # "live")
    BY <1>1, Zenon DEF TableOK, Live
<1>4. a \in Nat /\ n = a + One(cur = j) /\ m = a + One(Null = j)
    BY HeldFinite, Zenon DEF ClientHolders
<1>5. One(cur = j) = (IF cur = j THEN 1 ELSE 0) /\ One(Null = j) = 0
    BY <1>1, Zenon DEF One
<1> HIDE DEF d, n, m, a
<1>7. EndGood(d, m, FALSE) /\ (l[j] = "none" => d.st = "none")
    BY <1>2, <1>3, <1>4, <1>5 DEF EndGood
<1> QED BY <1>1, <1>7, Zenon DEF d, m, EndGood

\* connect_to_dst makes a connection on a new link, for chan_.
LEMMA TableCreate ==
    ASSUME NEW e \in [Conns -> Endpoints], NEW h, NEW l \in [Conns -> {"none", "up", "down"}],
           TableOK(e, h, Null, l), NEW k \in Conns, l[k] = "none"
    PROVE  TableOK(Created(e, k), h, k, [l EXCEPT ![k] = "up"])
<1> SUFFICES ASSUME NEW j \in Conns
             PROVE  /\ EndGood(Created(e, k)[j], ClientHolders(h, k, j), k = j)
                    /\ [l EXCEPT ![k] = "up"][j] = "none" => Created(e, k)[j].st = "none"
    BY Zenon DEF TableOK
<1> DEFINE d == Created(e, k)[j]
           n == ClientHolders(h, Null, j)
           m == ClientHolders(h, k, j)
           a == Cardinality(Held(h, j))
<1>1. j # Null
    BY WireAssumption DEF Conns, Null
<1>2. /\ d.ref = IF j = k THEN 1 ELSE e[j].ref
      /\ d.st = IF j = k THEN "live" ELSE e[j].st
      /\ e[j].ref \in Int
    BY EntryLemma
<1>3. EndGood(e[j], n, FALSE) /\ (l[j] = "none" => e[j].st = "none")
    BY <1>1, Zenon DEF TableOK, EndGood
<1>4. a \in Nat /\ n = a + One(Null = j) /\ m = a + One(k = j)
    BY HeldFinite, Zenon DEF ClientHolders
<1>5. One(k = j) = (IF k = j THEN 1 ELSE 0) /\ One(Null = j) = 0
    BY <1>1, Zenon DEF One
<1>6. [l EXCEPT ![k] = "up"][j] = "none" => j # k /\ l[j] = "none"
    BY Zenon
<1> HIDE DEF d, n, m, a
<1>7. EndGood(d, m, k = j) /\ (j # k /\ l[j] = "none" => d.st = "none")
    BY <1>2, <1>3, <1>4, <1>5 DEF EndGood
<1> QED BY <1>6, <1>7, Zenon DEF d, m

\* Letting go of a connection does not kill another one, nor the same one.
LEMMA ReleaseKeepsLive ==
    ASSUME NEW e \in [Conns -> Endpoints], NEW p \in Conns \cup {Null}, NEW k \in Conns, Live(e, k)
    PROVE  Live(DecrefIf(e, p), k)
<1>1. CASE p = Null
    BY <1>1 DEF DecrefIf
<1>2. CASE p # Null
    <2>1. p \in Conns /\ DecrefIf(e, p) = Decref(e, p)
        BY <1>2, Zenon DEF DecrefIf
    <2>2. e[k].st = "live"
        BY Zenon DEF Live
    <2>3. Decref(e, p)[k].st = "live"
        BY <2>1, <2>2, EntryLemma
    <2> QED BY <2>1, <2>3, Zenon DEF Live
<1> QED BY <1>1, <1>2

\* A step of get_refconn, in which the call may get another connection.
LEMMA RefconnStep ==
    ASSUME TypeOK, ClientRefsOK, NEW c \in Clients, NEW x \in Xids, GetRefconn(c, x)
    PROVE  TableOK(cconn'[c], ch'[c], chan_'[c], link'[c])
<1> DEFINE e == cconn[c]
           h == ch[c]
           cur == chan_[c]
           l == link[c]
           p == h[x]
<1>1. /\ e \in [Conns -> Endpoints] /\ h \in [Xids -> Conns \cup {Null}] /\ cur \in Conns \cup {Null}
      /\ l \in [Conns -> {"none", "up", "down"}] /\ TableOK(e, h, cur, l) /\ p \in Conns \cup {Null}
    <2>1. /\ e \in [Conns -> Endpoints] /\ h \in [Xids -> Conns \cup {Null}] /\ cur \in Conns \cup {Null}
          /\ l \in [Conns -> {"none", "up", "down"}]
        BY Zenon DEF TypeOK, WireTypeOK, ClientTypeOK
    <2>2. TableOK(e, h, cur, l)
        BY Zenon DEF ClientRefsOK
    <2>3. p \in Conns \cup {Null}
        BY <2>1, Zenon
    <2> QED BY <2>1, <2>2, <2>3, Zenon
<1>2. cconn \in [Clients -> [Conns -> Endpoints]] /\ ch \in [Clients -> [Xids -> Conns \cup {Null}]]
      /\ chan_ \in [Clients -> Conns \cup {Null}] /\ link \in [Clients -> [Conns -> {"none", "up", "down"}]]
    BY Zenon DEF TypeOK, WireTypeOK, ClientTypeOK
<1>3. CASE Usable(c, cur) /\ cconn' = [cconn EXCEPT ![c] = Incref(DecrefIf(@, p), cur)]
           /\ ch' = [ch EXCEPT ![c][x] = cur] /\ UNCHANGED <<chan_, link>>
    <2> DEFINE f == DecrefIf(e, p)
               g == [h EXCEPT ![x] = Null]
    <2>1. cur \in Conns /\ Live(e, cur)
        BY <1>1, <1>3, Zenon DEF Usable
    <2>2. f \in [Conns -> Endpoints] /\ TableOK(f, g, cur, l)
        BY <1>1, DecrefIfLemma, TableRelease, Zenon
    <2>3. Live(f, cur)
        BY <1>1, <2>1, ReleaseKeepsLive
    <2>4. g \in [Xids -> Conns \cup {Null}] /\ g[x] = Null /\ [g EXCEPT ![x] = cur] = [h EXCEPT ![x] = cur]
        BY <1>1, Zenon
    <2>5. /\ cconn'[c] = Incref(f, cur) /\ ch'[c] = [h EXCEPT ![x] = cur] /\ chan_'[c] = cur /\ link'[c] = l
        BY <1>2, <1>3, Zenon
    <2> HIDE DEF f, g, e, h, cur, l
    <2>6. TableOK(Incref(f, cur), [g EXCEPT ![x] = cur], cur, l)
        BY <2>1, <2>2, <2>3, <2>4, TableTake, Zenon
    <2> QED BY <2>4, <2>5, <2>6, Zenon
<1>4. ASSUME ~Usable(c, cur), NEW k \in FreshConns(c), chan_' = [chan_ EXCEPT ![c] = k],
             IF k = Null
             THEN /\ cconn' = [cconn EXCEPT ![c] = DecrefIf(e, cur)]
                  /\ UNCHANGED <<ch, link>>
             ELSE /\ link' = [link EXCEPT ![c][k] = "up"]
                  /\ ch' = [ch EXCEPT ![c][x] = k]
                  /\ cconn' = [cconn EXCEPT ![c] = Incref(DecrefIf(Created(DecrefIf(e, cur), k), p), k)]
      PROVE  TableOK(cconn'[c], ch'[c], chan_'[c], link'[c])
    <2> DEFINE d == DecrefIf(e, cur)
    <2>1. cur = Null \/ ~Live(e, cur)
        BY <1>4, Zenon DEF Usable
    <2>2. d \in [Conns -> Endpoints] /\ TableOK(d, h, Null, l)
        BY <1>1, <2>1, DecrefIfLemma, TableDrop, Zenon
    <2>3. CASE k = Null
        <3>1. cconn'[c] = d /\ ch'[c] = h /\ chan_'[c] = Null /\ link'[c] = l
            BY <1>2, <1>4, <2>3, Zenon
        <3> QED BY <2>2, <3>1, Zenon
    <2>4. CASE k # Null
        <3> DEFINE b == Created(d, k)
                   f == DecrefIf(b, p)
                   g == [h EXCEPT ![x] = Null]
                   m == [l EXCEPT ![k] = "up"]
        <3>1. k \in Conns /\ l[k] = "none"
            BY <1>4, <2>4, Zenon DEF FreshConns
        <3>2. /\ cconn'[c] = Incref(f, k) /\ ch'[c] = [h EXCEPT ![x] = k] /\ chan_'[c] = k /\ link'[c] = m
            BY <1>2, <1>4, <2>4, Zenon
        <3>3. b \in [Conns -> Endpoints] /\ TableOK(b, h, k, m)
            BY <1>1, <2>2, <3>1, EndpointLemma, TableCreate, Zenon
        <3>4. f \in [Conns -> Endpoints] /\ TableOK(f, g, k, m)
            BY <1>1, <3>3, DecrefIfLemma, TableRelease, Zenon
        <3>5. Live(f, k)
            <4>1. Live(b, k)
                BY <2>2, <3>1, EntryLemma DEF Live
            <4> HIDE DEF b
            <4> QED BY <1>1, <3>1, <3>3, <4>1, ReleaseKeepsLive
        <3>6. g \in [Xids -> Conns \cup {Null}] /\ g[x] = Null /\ [g EXCEPT ![x] = k] = [h EXCEPT ![x] = k]
            BY <1>1, Zenon
        <3> HIDE DEF f, g, m
        <3>7. TableOK(Incref(f, k), [g EXCEPT ![x] = k], k, m)
            BY <3>1, <3>4, <3>5, <3>6, TableTake, Zenon
        <3> QED BY <3>2, <3>6, <3>7, Zenon
    <2> QED BY <2>3, <2>4, Zenon
<1> QED BY <1>3, <1>4, Zenon DEF GetRefconn

\* The references at the client: every step keeps them exact.
LEMMA ClientRefsStep ==
    ASSUME TypeOK, ClientRefsOK, Next
    PROVE  ClientRefsOK'
<1>0. /\ cconn \in [Clients -> [Conns -> Endpoints]] /\ ch \in [Clients -> [Xids -> Conns \cup {Null}]]
      /\ chan_ \in [Clients -> Conns \cup {Null}] /\ link \in [Clients -> [Conns -> {"none", "up", "down"}]]
    BY Zenon DEF TypeOK, WireTypeOK, ClientTypeOK
<1>1. \A c \in Clients : TableOK(cconn[c], ch[c], chan_[c], link[c])
    BY Zenon DEF ClientRefsOK
<1> DEFINE Goal == \A c \in Clients : TableOK(cconn'[c], ch'[c], chan_'[c], link'[c])
<1>2. ASSUME UNCHANGED <<cconn, ch, chan_>>,
             \A c \in Clients, k \in Conns : link'[c][k] = "none" => link[c][k] = "none"
      PROVE  Goal
    <2> SUFFICES ASSUME NEW c \in Clients PROVE TableOK(cconn'[c], ch'[c], chan_'[c], link'[c])
        OBVIOUS
    <2>1. TableOK(cconn[c], ch[c], chan_[c], link[c])
        BY <1>1
    <2> QED BY <1>2, <2>1, Zenon DEF TableOK
<1>3. ASSUME UNCHANGED <<cconn, ch, chan_, link>> PROVE Goal
    BY <1>1, <1>3, Zenon
<1>4. ASSUME NEW c \in Clients, UNCHANGED <<ch, chan_, link>>, NEW k \in Conns, Live(cconn[c], k),
             cconn' = [cconn EXCEPT ![c] = Killed(cconn[c], k)]
      PROVE  Goal
    <2> SUFFICES ASSUME NEW b \in Clients PROVE TableOK(cconn'[b], ch'[b], chan_'[b], link'[b])
        OBVIOUS
    <2>1. CASE b = c
        <3>1. cconn[c] \in [Conns -> Endpoints] /\ TableOK(cconn[c], ch[c], chan_[c], link[c])
            BY <1>0, <1>1
        <3>2. TableOK(Killed(cconn[c], k), ch[c], chan_[c], link[c])
            BY <1>4, <3>1, TableKilled, Zenon
        <3>3. cconn'[b] = Killed(cconn[c], k) /\ ch'[b] = ch[c] /\ chan_'[b] = chan_[c] /\ link'[b] = link[c]
            BY <1>0, <1>4, <2>1, Zenon
        <3> QED BY <3>2, <3>3, Zenon
    <2>2. CASE b # c
        <3>1. cconn'[b] = cconn[b] /\ ch'[b] = ch[b] /\ chan_'[b] = chan_[b] /\ link'[b] = link[b]
            BY <1>0, <1>4, <2>2, Zenon
        <3> QED BY <1>1, <3>1, Zenon
    <2> QED BY <2>1, <2>2
<1>5. ASSUME NEW c \in Clients, NEW k \in Conns, Break(c, k), UNCHANGED clientVars PROVE Goal
    <2>1. /\ UNCHANGED <<cconn, ch, chan_>>
          /\ link' = [link EXCEPT ![c][k] = "down"]
        BY <1>5, Zenon DEF Break, clientVars
    <2>2. \A b \in Clients, j \in Conns : link'[b][j] = "none" => link[b][j] = "none"
        <3>1. \A b \in Clients, j \in Conns : link'[b][j] = IF b = c /\ j = k THEN "down" ELSE link[b][j]
            BY <1>0, <2>1, TableLemma
        <3> QED BY <3>1
    <2> HIDE DEF Goal
    <2> QED BY <1>2, <2>1, <2>2, Zenon
<1>6. ASSUME NEW c \in Clients, NEW k \in Conns, ClientEof(c, k), UNCHANGED clientVars PROVE Goal
    <2>1. /\ UNCHANGED <<ch, chan_, link>> /\ Live(cconn[c], k)
          /\ cconn' = [cconn EXCEPT ![c] = Killed(cconn[c], k)]
        BY <1>6, Zenon DEF ClientEof, clientVars
    <2> HIDE DEF Goal
    <2> QED BY <1>4, <2>1, Zenon
<1>7. ASSUME NEW c \in Clients, NEW x \in Xids, GetRefconn(c, x) PROVE Goal
    <2> SUFFICES ASSUME NEW b \in Clients, b # c PROVE TableOK(cconn'[b], ch'[b], chan_'[b], link'[b])
        BY <1>7, RefconnStep, Zenon
    <2>1. cconn'[b] = cconn[b] /\ ch'[b] = ch[b] /\ chan_'[b] = chan_[b] /\ link'[b] = link[b]
        BY <1>0, <1>7, Zenon DEF GetRefconn
    <2> QED BY <1>1, <2>1, Zenon
<1>8. ASSUME NEW c \in Clients, NEW x \in Xids, SendRequest(c, x) PROVE Goal
    <2>1. UNCHANGED <<ch, chan_, link>>
        BY <1>8, Zenon DEF SendRequest
    <2>2. CASE ch[c][x] = Null
        BY <1>3, <1>8, <2>1, <2>2, Zenon DEF SendRequest
    <2>3. CASE ch[c][x] # Null
        <3>1. PICK o \in SendOutcomes(cconn[c], c, ch[c][x]) : cconn' = [cconn EXCEPT ![c] = o.conns]
            BY <1>8, <2>3, Zenon DEF SendRequest
        <3>2. ch[c][x] \in Conns
            <4>1. ch[c] \in [Xids -> Conns \cup {Null}]
                BY <1>0, Zenon
            <4>2. ch[c][x] \in Conns \cup {Null}
                BY <4>1, Zenon
            <4> QED BY <2>3, <4>2, Zenon
        <3>3. CASE o.conns = cconn[c]
            <4>1. cconn' = cconn
                BY <1>0, <3>1, <3>3, Zenon
            <4> QED BY <1>3, <2>1, <4>1, Zenon
        <3>4. CASE o.conns = Killed(cconn[c], ch[c][x]) /\ Live(cconn[c], ch[c][x])
            <4> HIDE DEF Goal
            <4> QED BY <1>4, <2>1, <3>1, <3>2, <3>4, Zenon
        <3> QED BY <3>3, <3>4, OutcomeLemma, Zenon
    <2> QED BY <2>2, <2>3
<1>9. ASSUME NEW c \in Clients, NEW x \in Xids, FinishCall(c, x) PROVE Goal
    <2> DEFINE e == DecrefIf(cconn[c], ch[c][x])
               h == [ch[c] EXCEPT ![x] = Null]
    <2>1. UNCHANGED <<chan_, link>> /\ cconn' = [cconn EXCEPT ![c] = e] /\ ch' = [ch EXCEPT ![c][x] = Null]
        BY <1>9, Zenon DEF FinishCall
    <2>2. TableOK(e, h, chan_[c], link[c])
        <3>1. cconn[c] \in [Conns -> Endpoints] /\ ch[c] \in [Xids -> Conns \cup {Null}]
            BY <1>0
        <3> QED BY <1>1, <3>1, TableRelease, Zenon
    <2> SUFFICES ASSUME NEW b \in Clients PROVE TableOK(cconn'[b], ch'[b], chan_'[b], link'[b])
        OBVIOUS
    <2>3. CASE b = c
        <3>1. cconn'[b] = e /\ ch'[b] = h /\ chan_'[b] = chan_[c] /\ link'[b] = link[c]
            BY <1>0, <2>1, <2>3, Zenon
        <3> HIDE DEF e, h
        <3> QED BY <2>2, <3>1, Zenon
    <2>4. CASE b # c
        <3>1. cconn'[b] = cconn[b] /\ ch'[b] = ch[b] /\ chan_'[b] = chan_[b] /\ link'[b] = link[b]
            BY <1>0, <2>1, <2>4, Zenon
        <3> QED BY <1>1, <3>1, Zenon
    <2> QED BY <2>3, <2>4
<1>10. ASSUME NEW c \in Clients, NEW x \in Xids, TimeOut(c, x) \/ NextRound(c, x) PROVE Goal
    BY <1>3, <1>10, Zenon DEF TimeOut, NextRound, wireVars
<1>11. ASSUME Restart, UNCHANGED clientVars PROVE Goal
    <2>1. UNCHANGED <<cconn, ch, chan_>>
        BY <1>11, Zenon DEF Restart, clientVars
    <2>2. \A b \in Clients, j \in Conns : link'[b][j] = IF link[b][j] = "up" THEN "down" ELSE link[b][j]
        BY <1>11, Zenon DEF Restart
    <2>3. \A b \in Clients, j \in Conns : link'[b][j] = "none" => link[b][j] = "none"
        BY <2>2
    <2> HIDE DEF Goal
    <2> QED BY <1>2, <2>1, <2>3, Zenon
<1>12. ASSUME NEW w \in Workers, WorkerStep(w), UNCHANGED clientVars PROVE Goal
    <2>1. UNCHANGED <<cconn, link>>
        BY <1>12, Zenon DEF WorkerStep, TakeJob, SendOldsrv, LookupProc, SaveConn, CheckDuplicate, RunHandler,
             AddReply, PickConn, SendReply, SendFreed, wireVars
    <2>2. UNCHANGED <<ch, chan_>>
        BY <1>12, Zenon DEF clientVars
    <2> QED BY <1>3, <2>1, <2>2, Zenon
<1>13. ASSUME NEW c \in Clients, NEW k \in Conns, ServerEof(c, k) \/ Accept(c, k), UNCHANGED clientVars
       PROVE  Goal
    BY <1>3, <1>13, Zenon DEF ServerEof, Accept, clientVars
<1>14. ASSUME NEW c \in Clients, NEW proc, StartCall(c, proc) PROVE Goal
    BY <1>3, <1>14, Zenon DEF StartCall, wireVars
<1>15. ASSUME NEW r, GotReply(r) PROVE Goal
    BY <1>3, <1>15, Zenon DEF GotReply
<1>16. ASSUME NEW m, GotRequest(m) \/ Register, UNCHANGED clientVars PROVE Goal
    BY <1>3, <1>16, Zenon DEF GotRequest, Register, clientVars, wireVars
<1>17. ASSUME Goal PROVE ClientRefsOK'
    BY <1>17, Zenon DEF ClientRefsOK
<1> HIDE DEF Goal
<1> QED BY <1>5, <1>6, <1>7, <1>8, <1>9, <1>10, <1>11, <1>12, <1>13, <1>14, <1>15, <1>16, <1>17, ZenonT(40)
        DEF Next, ClientStep

(***************************************************************************)
(* However get_refconn, call1, send and read_cb interleave, a connection   *)
(* of the client has a reference for chan_ and for every call that holds   *)
(* it, is deleted with the last of them, and is not left behind dead.      *)
(***************************************************************************)
THEOREM ClientReferences == Spec => []ClientRefsExact
<1>1. Init => ClientRefsOK
    <2> SUFFICES ASSUME Init, NEW c \in Clients, NEW k \in Conns
                 PROVE  /\ EndGood(cconn[c][k], ClientHolders(ch[c], chan_[c], k), chan_[c] = k)
                        /\ link[c][k] = "none" => cconn[c][k].st = "none"
        BY Zenon DEF ClientRefsOK, TableOK
    <2>1. k # Null
        BY WireAssumption DEF Conns, Null
    <2>2. cconn[c][k] = NoEndpoint /\ chan_[c] = Null /\ \A x \in Xids : ch[c][x] = Null
        BY Zenon DEF Init, WireInit, ClientInit
    <2>3. Held(ch[c], k) = {}
        BY <2>1, <2>2, Zenon DEF Held
    <2>4. Cardinality(Held(ch[c], k)) = 0
        BY <2>3, FS_EmptySet, Zenon
    <2>5. One(chan_[c] = k) = 0
        BY <2>1, <2>2, Zenon DEF One
    <2>6. ClientHolders(ch[c], chan_[c], k) = 0
        BY <2>4, <2>5 DEF ClientHolders
    <2>7. cconn[c][k].st = "none" /\ cconn[c][k].ref = 0
        BY <2>2 DEF NoEndpoint
    <2> QED BY <2>6, <2>7 DEF EndGood
<1>2. TypeOK /\ ClientRefsOK /\ [Next]_vars => ClientRefsOK'
    <2> SUFFICES ASSUME TypeOK, ClientRefsOK, [Next]_vars PROVE ClientRefsOK'
        OBVIOUS
    <2>1. CASE UNCHANGED vars
        BY <2>1, Zenon DEF vars, wireVars, clientVars, ClientRefsOK
    <2> QED BY <2>1, ClientRefsStep, Zenon
<1>3. ClientRefsOK => ClientRefsExact
    <2> SUFFICES ASSUME ClientRefsOK, NEW c \in Clients, NEW k \in Conns
                 PROVE  LET holders == Cardinality({x \in Xids : ch[c][x] = k})
                                         + (IF chan_[c] = k THEN 1 ELSE 0)
                        IN  /\ cconn[c][k].ref = holders
                            /\ cconn[c][k].st = "deleted" => holders = 0
                            /\ cconn[c][k].st = "dead" => holders > 0
        BY Zenon DEF ClientRefsExact
    <2>1. EndGood(cconn[c][k], ClientHolders(ch[c], chan_[c], k), chan_[c] = k)
        BY Zenon DEF ClientRefsOK, TableOK
    <2>2. ClientHolders(ch[c], chan_[c], k)
            = Cardinality({x \in Xids : ch[c][x] = k}) + (IF chan_[c] = k THEN 1 ELSE 0)
        BY Zenon DEF ClientHolders, Held, One
    <2> QED BY <2>1, <2>2 DEF EndGood
<1> QED BY <1>1, <1>2, <1>3, TypeCorrect, PTL DEF Spec

-----------------------------------------------------------------------------
(* The server.                                                             *)

\* The jobs in the queue and the workers that hold connection k of client c.
At(m, c, k) == m.clt = c /\ m.conn = k
Queued(q, c, k) == {i \in DOMAIN q : At(q[i], c, k)}
Busy(p, j, c, k) == {w \in Workers : p[w] # "idle" /\ At(j[w], c, k)}

\* All that hold it but the listener, when n is conns_[c].
Users(n, q, p, j, c, k) ==
    One(n = k) + Cardinality(Queued(q, c, k)) + Cardinality(Busy(p, j, c, k))

\* An object with n users, which is there only if its link is: the listener holds it,
\* too, as long as it has not deleted it.
ObjGood(e, n, fresh) ==
    /\ e.ref >= n + One(e.st \in {"live", "dead"})
    /\ e.st = "none" => e.ref = 0
    /\ fresh => e.st = "none"

\* The inductive invariant of the references at the server.
ServerRefsOK ==
    \A c \in Clients, k \in Conns :
        ObjGood(sconn[c][k], Users(conns_[c], jobq, wpc, wjob, c, k), link[c][k] = "none")

\* A user who goes without giving the reference back, or nothing at all.
LEMMA ObjKeep ==
    ASSUME NEW e \in Endpoints, NEW d, NEW n \in Nat, NEW m \in Nat, NEW f, NEW g, ObjGood(e, n, f),
           d.st = e.st, d.ref = e.ref, m <= n, g => f
    PROVE  ObjGood(d, m, g)
<1>1. e.ref \in Int /\ One(e.st \in {"live", "dead"}) \in {0, 1}
    BY DEF Endpoints, One
<1> QED BY <1>1 DEF ObjGood

\* An object that is not there has no users.
LEMMA ObjNone ==
    ASSUME NEW e, NEW f, e.st = "none" \/ (e.st = "deleted" /\ ~f), e.ref = 0
    PROVE  ObjGood(e, 0, f)
<1>1. One(e.st \in {"live", "dead"}) = 0
    BY DEF One
<1> QED BY <1>1 DEF ObjGood

\* Only a connection that was accepted has users.
LEMMA ObjThere ==
    ASSUME NEW e \in Endpoints, NEW n \in Nat, NEW f, ObjGood(e, n, f), n >= 1
    PROVE  e.st # "none"
<1>1. e.ref \in Int /\ One(e.st \in {"live", "dead"}) \in {0, 1}
    BY DEF Endpoints, One
<1> QED BY <1>1 DEF ObjGood

\* incref, by somebody who found the connection with another user.
LEMMA ObjMore ==
    ASSUME NEW e \in Endpoints, NEW d, NEW n \in Nat, NEW f, ObjGood(e, n, f),
           d.st = e.st, d.ref = e.ref + 1, e.st # "none"
    PROVE  ObjGood(d, n + 1, f)
<1>1. e.ref \in Int /\ One(e.st \in {"live", "dead"}) \in {0, 1}
    BY DEF Endpoints, One
<1> QED BY <1>1 DEF ObjGood

\* decref by a user: since the listener keeps its reference, it is not the last.
LEMMA ObjLess ==
    ASSUME NEW e \in Endpoints, NEW d, NEW n \in Nat, NEW f, ObjGood(e, n + 1, f),
           d.ref = e.ref - 1, d.st = IF e.ref = 1 /\ e.st = "dead" THEN "deleted" ELSE e.st
    PROVE  ObjGood(d, n, f)
<1>1. e.ref \in Int /\ e.ref >= n + 1 + One(e.st \in {"live", "dead"})
    BY DEF Endpoints, ObjGood
<1>2. (e.st = "dead" => One(e.st \in {"live", "dead"}) = 1) /\ One(e.st \in {"live", "dead"}) \in {0, 1}
    BY DEF One
<1>3. d.st = e.st
    BY <1>1, <1>2
<1> QED BY <1>1, <1>2, <1>3 DEF ObjGood

\* The connection dies; the listener still holds it.
LEMMA ObjKilled ==
    ASSUME NEW e \in Endpoints, NEW d, NEW n \in Nat, NEW f, ObjGood(e, n, f),
           e.st = "live", d.st = "dead", d.ref = e.ref
    PROVE  ObjGood(d, n, f)
BY DEF ObjGood, One, Endpoints

\* The jobs of a connection are finitely many.
LEMMA QueuedFinite ==
    ASSUME NEW S, NEW q \in Seq(S), NEW c, NEW k
    PROVE  IsFiniteSet(Queued(q, c, k)) /\ Cardinality(Queued(q, c, k)) \in Nat
<1>1. DOMAIN q = 1 .. Len(q) /\ Len(q) \in Nat
    OBVIOUS
<1>2. IsFiniteSet(1 .. Len(q)) /\ Queued(q, c, k) \in SUBSET (1 .. Len(q))
    BY <1>1, FS_Interval DEF Queued
<1> QED BY <1>2, FS_Subset, FS_CardinalityType, Zenon

\* The workers that hold a connection are finitely many.
LEMMA BusyFinite ==
    ASSUME NEW p, NEW j, NEW c, NEW k
    PROVE  IsFiniteSet(Busy(p, j, c, k)) /\ Cardinality(Busy(p, j, c, k)) \in Nat
<1>1. IsFiniteSet(Workers) /\ Busy(p, j, c, k) \in SUBSET Workers
    BY WorkersAssumption, Zenon DEF Busy
<1> QED BY <1>1, FS_Subset, FS_CardinalityType, Zenon

\* rpcs::got_pdu queues a job for the connection of the request.
LEMMA QueuedAppend ==
    ASSUME NEW S, NEW q \in Seq(S), NEW m \in S, NEW c, NEW k
    PROVE  Cardinality(Queued(Append(q, m), c, k))
             = IF At(m, c, k) THEN Cardinality(Queued(q, c, k)) + 1 ELSE Cardinality(Queued(q, c, k))
<1> DEFINE n == Len(q) + 1
<1>1. /\ Len(q) \in Nat /\ DOMAIN q = 1 .. Len(q) /\ DOMAIN Append(q, m) = 1 .. n
      /\ \A i \in 1 .. Len(q) : Append(q, m)[i] = q[i]
      /\ Append(q, m)[n] = m
    OBVIOUS
<1>2. IsFiniteSet(Queued(q, c, k)) /\ n \notin Queued(q, c, k)
    <2>1. n \notin Queued(q, c, k)
        BY <1>1 DEF Queued
    <2> QED BY <2>1, QueuedFinite, Zenon
<1>3. Queued(Append(q, m), c, k) = IF At(m, c, k) THEN Queued(q, c, k) \cup {n} ELSE Queued(q, c, k)
    BY <1>1 DEF Queued
<1>4. Cardinality(Queued(q, c, k) \cup {n}) = Cardinality(Queued(q, c, k)) + 1
    BY <1>2, FS_AddElement, Zenon
<1> QED BY <1>3, <1>4, Zenon

\* A worker takes the first job of the queue.
LEMMA QueuedTail ==
    ASSUME NEW S, NEW q \in Seq(S), q # <<>>, NEW c, NEW k
    PROVE  Cardinality(Queued(q, c, k))
             = IF At(Head(q), c, k) THEN Cardinality(Queued(Tail(q), c, k)) + 1
               ELSE Cardinality(Queued(Tail(q), c, k))
<1> DEFINE T == Queued(Tail(q), c, k)
           U == Queued(q, c, k) \ {1}
           f == [i \in T |-> i + 1]
<1>1. /\ Head(q) = q[1] /\ Len(q) \in Nat \ {0} /\ Tail(q) \in Seq(S)
      /\ DOMAIN q = 1 .. Len(q) /\ DOMAIN Tail(q) = 1 .. Len(q) - 1
      /\ \A i \in 1 .. Len(q) - 1 : Tail(q)[i] = q[i + 1]
    OBVIOUS
<1>2. \A i \in T : i + 1 \in U
    BY <1>1 DEF Queued
<1>3. \A i \in U : i - 1 \in T /\ (i - 1) + 1 = i
    BY <1>1 DEF Queued
<1>4. \A i, j \in T : i + 1 = j + 1 => i = j
    BY <1>1 DEF Queued
<1>5. f \in Bijection(T, U)
    BY <1>2, <1>3, <1>4, Zenon DEF Bijection, Injection, Surjection, IsInjective
<1>6. Cardinality(T) = Cardinality(U)
    <2>1. IsFiniteSet(T)
        BY <1>1, QueuedFinite, Zenon
    <2>2. ExistsBijection(T, U)
        BY <1>5, Zenon DEF ExistsBijection
    <2> HIDE DEF T, U
    <2> QED BY <2>1, <2>2, FS_Bijection, Zenon
<1>7. 1 \in Queued(q, c, k) <=> At(Head(q), c, k)
    BY <1>1 DEF Queued
<1>8. IsFiniteSet(Queued(q, c, k)) /\ Cardinality(Queued(q, c, k)) \in Nat
    BY QueuedFinite, Zenon
<1>9. Cardinality(U) = IF 1 \in Queued(q, c, k) THEN Cardinality(Queued(q, c, k)) - 1
                       ELSE Cardinality(Queued(q, c, k))
    BY <1>8, FS_RemoveElement, Zenon
<1> DEFINE a == Cardinality(Queued(q, c, k))
           b == Cardinality(T)
<1>10. a \in Nat /\ b = IF At(Head(q), c, k) THEN a - 1 ELSE a
    BY <1>6, <1>7, <1>8, <1>9, Zenon
<1> HIDE DEF a, b, T
<1>11. a = IF At(Head(q), c, k) THEN b + 1 ELSE b
    BY <1>10
<1> QED BY <1>11, Zenon DEF a, b, T

\* Does worker w hold connection k of client c?
Works(p, j, w, c, k) == p[w] # "idle" /\ At(j[w], c, k)

\* Only w takes a job or is done with one.
SameWorkers(p, j, pp, jj, w) ==
    \A v \in Workers : v # w => (pp[v] = "idle" <=> p[v] = "idle") /\ jj[v] = j[v]

\* Then only w may cease to hold a connection, or begin to.
LEMMA BusyLemma ==
    ASSUME NEW p, NEW j, NEW pp, NEW jj, NEW w \in Workers, SameWorkers(p, j, pp, jj, w), NEW c, NEW k
    PROVE  /\ Works(p, j, w, c, k) /\ ~Works(pp, jj, w, c, k)
                => Cardinality(Busy(p, j, c, k)) = Cardinality(Busy(pp, jj, c, k)) + 1
           /\ ~Works(p, j, w, c, k) /\ Works(pp, jj, w, c, k)
                => Cardinality(Busy(pp, jj, c, k)) = Cardinality(Busy(p, j, c, k)) + 1
           /\ (Works(p, j, w, c, k) <=> Works(pp, jj, w, c, k))
                => Cardinality(Busy(pp, jj, c, k)) = Cardinality(Busy(p, j, c, k))
<1> DEFINE A == Busy(p, j, c, k)
           B == Busy(pp, jj, c, k)
<1>1. IsFiniteSet(A) /\ IsFiniteSet(B)
    BY BusyFinite, Zenon
<1>2. A \ {w} = B \ {w}
    BY Zenon DEF Busy, SameWorkers
<1>3. (w \in A <=> Works(p, j, w, c, k)) /\ (w \in B <=> Works(pp, jj, w, c, k))
    BY Zenon DEF Busy, Works
<1> HIDE DEF A, B
<1>4. /\ (w \in A <=> w \in B) => Cardinality(B) = Cardinality(A)
      /\ w \in A /\ w \notin B => Cardinality(A) = Cardinality(B) + 1
      /\ w \notin A /\ w \in B => Cardinality(B) = Cardinality(A) + 1
    BY <1>1, <1>2, CardDiff
<1>5. /\ Works(p, j, w, c, k) /\ ~Works(pp, jj, w, c, k) => Cardinality(A) = Cardinality(B) + 1
      /\ ~Works(p, j, w, c, k) /\ Works(pp, jj, w, c, k) => Cardinality(B) = Cardinality(A) + 1
      /\ (Works(p, j, w, c, k) <=> Works(pp, jj, w, c, k)) => Cardinality(B) = Cardinality(A)
    BY <1>3, <1>4, Zenon
<1> QED BY <1>5, Zenon DEF A, B

\* The users are counted by a number; conns_ and a worker that holds the connection are
\* among them.
LEMMA UsersNat ==
    ASSUME NEW n, NEW q \in Seq(Requests), NEW p, NEW j, NEW c, NEW k
    PROVE  /\ Users(n, q, p, j, c, k) \in Nat
           /\ n = k => Users(n, q, p, j, c, k) >= 1
           /\ \A w \in Workers : Works(p, j, w, c, k) => Users(n, q, p, j, c, k) >= 1
<1> DEFINE a == Cardinality(Queued(q, c, k))
           b == Cardinality(Busy(p, j, c, k))
           o == One(n = k)
<1>1. a \in Nat /\ b \in Nat
    BY QueuedFinite, BusyFinite, Zenon
<1>2. o \in {0, 1} /\ (n = k => o = 1)
    BY Zenon DEF One
<1>3. ASSUME NEW w \in Workers, Works(p, j, w, c, k) PROVE b # 0
    <2>1. IsFiniteSet(Busy(p, j, c, k))
        BY BusyFinite, Zenon
    <2>2. w \in Busy(p, j, c, k)
        BY <1>3, Zenon DEF Busy, Works
    <2>3. Busy(p, j, c, k) # {}
        BY <2>2, Zenon
    <2> QED BY <2>1, <2>3, FS_EmptySet
<1>4. Users(n, q, p, j, c, k) = o + a + b
    BY Zenon DEF Users
<1> HIDE DEF a, b, o
<1>5. o + a + b \in Nat /\ (n = k => o + a + b >= 1) /\ (b # 0 => o + a + b >= 1)
    BY <1>1, <1>2
<1> QED BY <1>3, <1>4, <1>5, Zenon

\* A worker is done with the connection.
LEMMA UsersLeave ==
    ASSUME NEW n, NEW q \in Seq(Requests), NEW p, NEW j, NEW pp, NEW jj, NEW w \in Workers,
           SameWorkers(p, j, pp, jj, w), NEW c, NEW k,
           Works(p, j, w, c, k), ~Works(pp, jj, w, c, k)
    PROVE  Users(n, q, p, j, c, k) = Users(n, q, pp, jj, c, k) + 1
<1> DEFINE a == Cardinality(Queued(q, c, k))
           b == Cardinality(Busy(pp, jj, c, k))
           o == One(n = k)
<1>1. a \in Nat /\ b \in Nat /\ o \in {0, 1}
    BY QueuedFinite, BusyFinite, Zenon DEF One
<1>2. Cardinality(Busy(p, j, c, k)) = b + 1
    BY BusyLemma
<1>3. Users(n, q, p, j, c, k) = o + a + (b + 1) /\ Users(n, q, pp, jj, c, k) = o + a + b
    BY <1>2, Zenon DEF Users
<1> HIDE DEF a, b, o
<1> QED BY <1>1, <1>3

\* A worker changes over to the connection.
LEMMA UsersJoin ==
    ASSUME NEW n, NEW q \in Seq(Requests), NEW p, NEW j, NEW pp, NEW jj, NEW w \in Workers,
           SameWorkers(p, j, pp, jj, w), NEW c, NEW k,
           ~Works(p, j, w, c, k), Works(pp, jj, w, c, k)
    PROVE  Users(n, q, pp, jj, c, k) = Users(n, q, p, j, c, k) + 1
<1>1. SameWorkers(pp, jj, p, j, w)
    BY Zenon DEF SameWorkers
<1> QED BY <1>1, UsersLeave

\* A worker keeps what it holds.
LEMMA UsersStay ==
    ASSUME NEW n, NEW q, NEW p, NEW j, NEW pp, NEW jj, NEW w \in Workers,
           SameWorkers(p, j, pp, jj, w), NEW c, NEW k,
           Works(p, j, w, c, k) <=> Works(pp, jj, w, c, k)
    PROVE  Users(n, q, pp, jj, c, k) = Users(n, q, p, j, c, k)
<1>1. Cardinality(Busy(pp, jj, c, k)) = Cardinality(Busy(p, j, c, k))
    BY BusyLemma
<1> QED BY <1>1, Zenon DEF Users

\* A job is queued.
LEMMA UsersQueue ==
    ASSUME NEW n, NEW q \in Seq(Requests), NEW p, NEW j, NEW c, NEW k, NEW m \in Requests
    PROVE  Users(n, Append(q, m), p, j, c, k)
             = IF At(m, c, k) THEN Users(n, q, p, j, c, k) + 1 ELSE Users(n, q, p, j, c, k)
<1> DEFINE a == Cardinality(Queued(q, c, k))
           d == Cardinality(Queued(Append(q, m), c, k))
           b == Cardinality(Busy(p, j, c, k))
           o == One(n = k)
<1>1. a \in Nat /\ b \in Nat /\ o \in {0, 1}
    BY QueuedFinite, BusyFinite, Zenon DEF One
<1>2. d = IF At(m, c, k) THEN a + 1 ELSE a
    BY QueuedAppend
<1>3. Users(n, q, p, j, c, k) = o + a + b /\ Users(n, Append(q, m), p, j, c, k) = o + d + b
    BY Zenon DEF Users
<1> HIDE DEF a, b, d, o
<1> QED BY <1>1, <1>2, <1>3

\* A worker takes a job, and the reference with it.
LEMMA UsersTake ==
    ASSUME NEW n, NEW q \in Seq(Requests), q # <<>>, NEW p, NEW j, NEW pp, NEW jj, NEW w \in Workers,
           SameWorkers(p, j, pp, jj, w), NEW c, NEW k,
           p[w] = "idle", pp[w] # "idle", jj[w] = Head(q)
    PROVE  Users(n, Tail(q), pp, jj, c, k) = Users(n, q, p, j, c, k)
<1> DEFINE a == Cardinality(Queued(q, c, k))
           d == Cardinality(Queued(Tail(q), c, k))
           b == Cardinality(Busy(p, j, c, k))
           f == Cardinality(Busy(pp, jj, c, k))
           o == One(n = k)
<1>1. a \in Nat /\ b \in Nat /\ d \in Nat /\ f \in Nat /\ o \in {0, 1}
    <2>1. Tail(q) \in Seq(Requests)
        OBVIOUS
    <2> QED BY <2>1, QueuedFinite, BusyFinite, Zenon DEF One
<1>2. a = IF At(Head(q), c, k) THEN d + 1 ELSE d
    BY QueuedTail, Zenon
<1>3. f = IF At(Head(q), c, k) THEN b + 1 ELSE b
    <2>1. ~Works(p, j, w, c, k) /\ (Works(pp, jj, w, c, k) <=> At(Head(q), c, k))
        BY Zenon DEF Works
    <2> QED BY <2>1, BusyLemma
<1>4. Users(n, q, p, j, c, k) = o + a + b /\ Users(n, Tail(q), pp, jj, c, k) = o + d + f
    BY Zenon DEF Users
<1> HIDE DEF a, b, d, f, o
<1> QED BY <1>1, <1>2, <1>3, <1>4

\* conns_[c] becomes m.
LEMMA UsersConn ==
    ASSUME NEW n, NEW m, NEW q \in Seq(Requests), NEW p, NEW j, NEW c, NEW k
    PROVE  /\ n = k /\ m # k => Users(n, q, p, j, c, k) = Users(m, q, p, j, c, k) + 1
           /\ n # k /\ m = k => Users(m, q, p, j, c, k) = Users(n, q, p, j, c, k) + 1
           /\ n # k /\ m # k => Users(m, q, p, j, c, k) = Users(n, q, p, j, c, k)
<1> DEFINE a == Cardinality(Queued(q, c, k))
           b == Cardinality(Busy(p, j, c, k))
<1>1. a \in Nat /\ b \in Nat
    BY QueuedFinite, BusyFinite, Zenon
<1>2. /\ Users(n, q, p, j, c, k) = (IF n = k THEN 1 ELSE 0) + a + b
      /\ Users(m, q, p, j, c, k) = (IF m = k THEN 1 ELSE 0) + a + b
    BY Zenon DEF Users, One
<1> HIDE DEF a, b
<1> QED BY <1>1, <1>2

\* dispatch replaces k in conns_: k loses a user.
LEMMA ConnLeft ==
    ASSUME NEW n, NEW m, NEW q \in Seq(Requests), NEW p, NEW j, NEW c, NEW k, n = k, m # k
    PROVE  Users(n, q, p, j, c, k) = Users(m, q, p, j, c, k) + 1
BY UsersConn

\* dispatch saves k in conns_: k has one more user.
LEMMA ConnTaken ==
    ASSUME NEW n, NEW m, NEW q \in Seq(Requests), NEW p, NEW j, NEW c, NEW k, n # k, m = k
    PROVE  Users(m, q, p, j, c, k) = Users(n, q, p, j, c, k) + 1
BY UsersConn

\* A connection that neither was nor is in conns_ keeps its users.
LEMMA ConnOther ==
    ASSUME NEW n, NEW m, NEW q \in Seq(Requests), NEW p, NEW j, NEW c, NEW k, n # k, m # k
    PROVE  Users(m, q, p, j, c, k) = Users(n, q, p, j, c, k)
BY UsersConn

\* A step that leaves all users alone.
LEMMA RefsKeep ==
    ASSUME TypeOK, ServerRefsOK, UNCHANGED <<sconn, conns_, jobq, wpc, wjob>>,
           \A c \in Clients, k \in Conns : link'[c][k] = "none" => link[c][k] = "none"
    PROVE  ServerRefsOK'
<1> SUFFICES ASSUME NEW c \in Clients, NEW k \in Conns
             PROVE  ObjGood(sconn'[c][k], Users(conns_'[c], jobq', wpc', wjob', c, k), link'[c][k] = "none")
    BY Zenon DEF ServerRefsOK
<1>1. ObjGood(sconn[c][k], Users(conns_[c], jobq, wpc, wjob, c, k), link[c][k] = "none")
    BY Zenon DEF ServerRefsOK
<1> QED BY <1>1, Zenon DEF ObjGood

\* rpcs::dispatch goes on with what it has.
LEMMA RefsStay ==
    ASSUME TypeOK, ServerRefsOK, NEW w \in Workers, UNCHANGED <<sconn, conns_, jobq, link>>,
           SameWorkers(wpc, wjob, wpc', wjob', w), wpc[w] # "idle", wpc'[w] # "idle", wjob'[w] = wjob[w]
    PROVE  ServerRefsOK'
<1> SUFFICES ASSUME NEW c \in Clients, NEW k \in Conns
             PROVE  ObjGood(sconn'[c][k], Users(conns_'[c], jobq', wpc', wjob', c, k), link'[c][k] = "none")
    BY Zenon DEF ServerRefsOK
<1>1. ObjGood(sconn[c][k], Users(conns_[c], jobq, wpc, wjob, c, k), link[c][k] = "none")
    BY Zenon DEF ServerRefsOK
<1>2. Works(wpc, wjob, w, c, k) <=> Works(wpc', wjob', w, c, k)
    BY Zenon DEF Works
<1>3. Users(conns_[c], jobq, wpc', wjob', c, k) = Users(conns_[c], jobq, wpc, wjob, c, k)
    BY <1>2, UsersStay
<1> QED BY <1>1, <1>3, Zenon

\* What connection::send leaves behind: the entry of a connection, which may have died.
LEMMA ObjSent ==
    ASSUME NEW e \in [Conns -> Endpoints], NEW b \in Conns, NEW k \in Conns, NEW n \in Nat, NEW f, NEW d,
           d = e \/ (d = Killed(e, b) /\ Live(e, b)), ObjGood(e[k], n, f)
    PROVE  ObjGood(d[k], n, f)
<1>1. CASE d = e
    BY <1>1, Zenon
<1>2. CASE d = Killed(e, b) /\ Live(e, b)
    <2>1. e[k] \in Endpoints /\ d[k].st = (IF k = b THEN "dead" ELSE e[k].st) /\ d[k].ref = e[k].ref
        BY <1>2, EntryLemma
    <2>2. CASE k = b
        <3>1. e[k].st = "live" /\ d[k].st = "dead"
            BY <1>2, <2>1, <2>2, Zenon DEF Live
        <3> QED BY <2>1, <2>2, <3>1, ObjKilled
    <2>3. CASE k # b
        BY <2>1, <2>3, Zenon DEF ObjGood
    <2> QED BY <2>2, <2>3
<1> QED BY <1>1, <1>2

\* And the entries of the others.
LEMMA OtherSent ==
    ASSUME NEW e \in [Conns -> Endpoints], NEW b \in Conns, NEW k \in Conns, NEW d,
           d = e \/ d = Killed(e, b), k # b
    PROVE  d[k].st = e[k].st /\ d[k].ref = e[k].ref
<1>1. Killed(e, b)[k].st = e[k].st /\ Killed(e, b)[k].ref = e[k].ref
    BY EntryLemma
<1> QED BY <1>1, Zenon

\* The objects after connection::send have their types.
LEMMA SentType ==
    ASSUME NEW e \in [Conns -> Endpoints], NEW b \in Conns, NEW d, d = e \/ d = Killed(e, b)
    PROVE  d \in [Conns -> Endpoints]
<1>1. e[b] \in Endpoints
    BY Zenon
<1>2. [e[b] EXCEPT !.st = "dead"] \in Endpoints
    BY <1>1 DEF Endpoints
<1>3. Killed(e, b) = [e EXCEPT ![b] = [e[b] EXCEPT !.st = "dead"]]
    BY Zenon DEF Killed
<1>4. Killed(e, b) \in [Conns -> Endpoints]
    BY <1>2, <1>3
<1> QED BY <1>4, Zenon

\* dispatch returns: with c->decref(), or, to a request for an older server, without.
LEMMA RefsLeave ==
    ASSUME TypeOK, ServerRefsOK, NEW w \in Workers, UNCHANGED <<conns_, jobq, link>>,
           SameWorkers(wpc, wjob, wpc', wjob', w), wpc[w] # "idle", wpc'[w] = "idle", NEW d,
           \/ d = sconn[wjob[w].clt]
           \/ d = Killed(sconn[wjob[w].clt], wjob[w].conn) /\ Live(sconn[wjob[w].clt], wjob[w].conn),
           \/ sconn' = [sconn EXCEPT ![wjob[w].clt] = d]
           \/ sconn' = [sconn EXCEPT ![wjob[w].clt] = Decref(d, wjob[w].conn)]
    PROVE  ServerRefsOK'
<1> DEFINE a == wjob[w].clt
           b == wjob[w].conn
<1>0. a \in Clients /\ b \in Conns /\ sconn[a] \in [Conns -> Endpoints] /\ d \in [Conns -> Endpoints]
    <2>1. a \in Clients /\ b \in Conns
        BY JobType, Zenon
    <2>2. sconn[a] \in [Conns -> Endpoints]
        BY <2>1, RefTypes, Zenon
    <2>3. d = sconn[a] \/ d = Killed(sconn[a], b)
        BY Zenon
    <2> HIDE DEF a, b
    <2> QED BY <2>1, <2>2, <2>3, SentType, Zenon
<1> SUFFICES ASSUME NEW c \in Clients, NEW k \in Conns
             PROVE  ObjGood(sconn'[c][k], Users(conns_'[c], jobq', wpc', wjob', c, k), link'[c][k] = "none")
    BY Zenon DEF ServerRefsOK
<1> DEFINE n == Users(conns_[c], jobq, wpc, wjob, c, k)
           m == Users(conns_[c], jobq, wpc', wjob', c, k)
           f == link[c][k] = "none"
<1>1. ObjGood(sconn[c][k], n, f) /\ n \in Nat /\ m \in Nat /\ sconn[c][k] \in Endpoints
    <2>1. ObjGood(sconn[c][k], n, f)
        BY Zenon DEF ServerRefsOK
    <2> QED BY <2>1, RefTypes, UsersNat, Zenon
<1>2. (Works(wpc, wjob, w, c, k) <=> (a = c /\ b = k)) /\ ~Works(wpc', wjob', w, c, k)
    BY Zenon DEF Works, At
<1>3. CASE a = c /\ b = k
    <2>1. n = m + 1
        <3>1. Works(wpc, wjob, w, c, k)
            BY <1>2, <1>3, Zenon
        <3> QED BY <1>2, <3>1, RefTypes, UsersLeave
    <2>2. ObjGood(d[k], n, f) /\ d[k] \in Endpoints
        <3>1. sconn[c] \in [Conns -> Endpoints] /\ (d = sconn[c] \/ (d = Killed(sconn[c], k) /\ Live(sconn[c], k)))
            BY <1>0, <1>3, Zenon
        <3> HIDE DEF n, f
        <3>2. ObjGood(d[k], n, f)
            BY <1>1, <3>1, ObjSent
        <3> QED BY <1>0, <3>2, Zenon
    <2>3. CASE sconn' = [sconn EXCEPT ![a] = d]
        <3>1. sconn'[c][k] = d[k]
            BY <1>3, <2>3, RefTypes, Zenon
        <3> HIDE DEF n, m, f
        <3>2. m <= n
            BY <1>1, <2>1
        <3>3. ObjGood(d[k], m, f)
            BY <1>1, <2>2, <3>2, ObjKeep
        <3> QED BY <3>1, <3>3, Zenon DEF m, f
    <2>4. CASE sconn' = [sconn EXCEPT ![a] = Decref(d, b)]
        <3>1. sconn'[c][k] = Decref(d, k)[k]
            BY <1>3, <2>4, RefTypes, Zenon
        <3>2. /\ Decref(d, k)[k].st = IF d[k].ref = 1 /\ d[k].st = "dead" THEN "deleted" ELSE d[k].st
              /\ Decref(d, k)[k].ref = d[k].ref - 1
            BY <1>0, EntryLemma
        <3> HIDE DEF n, m, f
        <3>3. ObjGood(Decref(d, k)[k], m, f)
            BY <1>1, <2>1, <2>2, <3>2, ObjLess
        <3> QED BY <3>1, <3>3, Zenon DEF m, f
    <2> QED BY <2>3, <2>4, Zenon
<1>4. CASE ~(a = c /\ b = k)
    <2>1. m = n
        <3>1. Works(wpc, wjob, w, c, k) <=> Works(wpc', wjob', w, c, k)
            BY <1>2, <1>4, Zenon
        <3>2. Users(conns_[c], jobq, wpc', wjob', c, k) = Users(conns_[c], jobq, wpc, wjob, c, k)
            <4> HIDE DEF a, b, n, m, f
            <4> QED BY <3>1, UsersStay, SMTT(30)
        <3> QED BY <3>2, Zenon
    <2>2. sconn'[c][k].st = sconn[c][k].st /\ sconn'[c][k].ref = sconn[c][k].ref
        <3>1. CASE a # c
            <4>1. sconn'[c] = sconn[c]
                BY <3>1, RefTypes, Zenon
            <4> QED BY <4>1, Zenon
        <3>2. CASE a = c /\ b # k
            <4>1. sconn'[c] = d \/ sconn'[c] = Decref(d, b)
                BY <3>2, RefTypes, Zenon
            <4>2. d[k].st = sconn[c][k].st /\ d[k].ref = sconn[c][k].ref
                <5>1. d = sconn[c] \/ d = Killed(sconn[c], b)
                    BY <3>2, Zenon
                <5>2. b \in Conns /\ sconn[c] \in [Conns -> Endpoints] /\ k # b
                    BY <1>0, <3>2, Zenon
                <5> HIDE DEF a, b, n, m, f
                <5> QED BY <5>1, <5>2, OtherSent
            <4>3. Decref(d, b)[k].st = d[k].st /\ Decref(d, b)[k].ref = d[k].ref
                <5> HIDE DEF b
                <5> QED BY <1>0, <3>2, OtherDecref, Zenon
            <4> QED BY <4>1, <4>2, <4>3, Zenon
        <3> QED BY <1>4, <3>1, <3>2, Zenon
    <2> HIDE DEF n, m, f
    <2>3. m <= n
        BY <1>1, <2>1
    <2>4. ObjGood(sconn'[c][k], m, f)
        BY <1>1, <2>2, <2>3, ObjKeep
    <2> QED BY <2>4, Zenon DEF m, f
<1> QED BY <1>3, <1>4

\* A reference to y in place of one to x, as dispatch takes it in conns_ and for the reply.
LEMMA EntrySwap ==
    ASSUME NEW e \in [Conns -> Endpoints], NEW x \in Conns \cup {Null}, NEW y \in Conns, x # y, NEW k \in Conns
    PROVE  /\ k = x => /\ Incref(DecrefIf(e, x), y)[k].ref = e[k].ref - 1
                       /\ Incref(DecrefIf(e, x), y)[k].st
                            = IF e[k].ref = 1 /\ e[k].st = "dead" THEN "deleted" ELSE e[k].st
           /\ k = y => /\ Incref(DecrefIf(e, x), y)[k].ref = e[k].ref + 1
                       /\ Incref(DecrefIf(e, x), y)[k].st = e[k].st
           /\ k # x /\ k # y => /\ Incref(DecrefIf(e, x), y)[k].ref = e[k].ref
                                /\ Incref(DecrefIf(e, x), y)[k].st = e[k].st
<1> DEFINE g == DecrefIf(e, x)
<1>1. /\ g \in [Conns -> Endpoints]
      /\ k = x => /\ g[k].ref = e[k].ref - 1
                  /\ g[k].st = IF e[k].ref = 1 /\ e[k].st = "dead" THEN "deleted" ELSE e[k].st
      /\ k # x => g[k].ref = e[k].ref /\ g[k].st = e[k].st
    <2>1. CASE x = Null
        <3>1. k # Null
            BY WireAssumption DEF Conns, Null
        <3> QED BY <2>1, <3>1, Zenon DEF DecrefIf
    <2>2. CASE x # Null
        <3>1. x \in Conns /\ g = Decref(e, x)
            BY <2>2, Zenon DEF DecrefIf
        <3> HIDE DEF g
        <3>2. g \in [Conns -> Endpoints]
            BY <3>1 DEF Decref, Endpoints
        <3> QED BY <3>1, <3>2, EntryLemma
    <2> QED BY <2>1, <2>2
<1> HIDE DEF g
<1>2. /\ Incref(g, y)[k].st = g[k].st
      /\ Incref(g, y)[k].ref = IF k = y THEN g[k].ref + 1 ELSE g[k].ref
    BY <1>1, EntryLemma
<1>3. /\ k = x => /\ Incref(g, y)[k].ref = e[k].ref - 1
                  /\ Incref(g, y)[k].st = IF e[k].ref = 1 /\ e[k].st = "dead" THEN "deleted" ELSE e[k].st
      /\ k = y => Incref(g, y)[k].ref = e[k].ref + 1 /\ Incref(g, y)[k].st = e[k].st
      /\ k # x /\ k # y => Incref(g, y)[k].ref = e[k].ref /\ Incref(g, y)[k].st = e[k].st
    BY <1>1, <1>2, Zenon
<1> QED BY <1>3, Zenon DEF g

\* The number of users after a step that moves one of client a from x to y.
Moved(n, m, c, k, a, x, y) ==
    /\ c = a /\ k = x => n = m + 1
    /\ c = a /\ k = y => m = n + 1 /\ n >= 1
    /\ ~(c = a /\ k \in {x, y}) => m = n

\* Such a step keeps the references.
LEMMA RefsMove ==
    ASSUME TypeOK, TypeOK', ServerRefsOK, UNCHANGED link, NEW a \in Clients,
           NEW x \in Conns \cup {Null}, NEW y \in Conns, x # y,
           sconn' = [sconn EXCEPT ![a] = Incref(DecrefIf(sconn[a], x), y)],
           \A c \in Clients, k \in Conns :
              Moved(Users(conns_[c], jobq, wpc, wjob, c, k), Users(conns_'[c], jobq', wpc', wjob', c, k), c, k, a, x, y)
    PROVE  ServerRefsOK'
<1> SUFFICES ASSUME NEW c \in Clients, NEW k \in Conns
             PROVE  ObjGood(sconn'[c][k], Users(conns_'[c], jobq', wpc', wjob', c, k), link'[c][k] = "none")
    BY Zenon DEF ServerRefsOK
<1> DEFINE n == Users(conns_[c], jobq, wpc, wjob, c, k)
           m == Users(conns_'[c], jobq', wpc', wjob', c, k)
           f == link[c][k] = "none"
           e == sconn[c][k]
           d == sconn'[c][k]
<1>1. ObjGood(e, n, f) /\ n \in Nat /\ m \in Nat /\ e \in Endpoints
    <2>1. ObjGood(e, n, f)
        BY Zenon DEF ServerRefsOK
    <2>2. jobq' \in Seq(Requests) /\ jobq \in Seq(Requests) /\ e \in Endpoints
        BY RefTypes, Zenon DEF TypeOK, ServerTypeOK
    <2> QED BY <2>1, <2>2, UsersNat, Zenon
<1>2. Moved(n, m, c, k, a, x, y)
    BY Zenon
<1>3. /\ c = a /\ k = x => /\ d.ref = e.ref - 1
                           /\ d.st = IF e.ref = 1 /\ e.st = "dead" THEN "deleted" ELSE e.st
      /\ c = a /\ k = y => d.ref = e.ref + 1 /\ d.st = e.st
      /\ ~(c = a /\ k \in {x, y}) => d.ref = e.ref /\ d.st = e.st
    <2>1. CASE c # a
        <3>1. sconn'[c] = sconn[c]
            BY <2>1, RefTypes, Zenon
        <3> QED BY <2>1, <3>1, Zenon
    <2>2. CASE c = a
        <3>1. sconn'[c] = Incref(DecrefIf(sconn[c], x), y) /\ sconn[c] \in [Conns -> Endpoints]
            BY <2>2, RefTypes, Zenon
        <3> DEFINE g == Incref(DecrefIf(sconn[c], x), y)
        <3>2. /\ k = x => /\ g[k].ref = sconn[c][k].ref - 1
                          /\ g[k].st = IF sconn[c][k].ref = 1 /\ sconn[c][k].st = "dead" THEN "deleted"
                                       ELSE sconn[c][k].st
              /\ k = y => g[k].ref = sconn[c][k].ref + 1 /\ g[k].st = sconn[c][k].st
              /\ k # x /\ k # y => g[k].ref = sconn[c][k].ref /\ g[k].st = sconn[c][k].st
            BY <3>1, EntrySwap
        <3> HIDE DEF g
        <3>3. d = g[k]
            BY <3>1, Zenon DEF g
        <3> QED BY <2>2, <3>2, <3>3, Zenon
    <2> QED BY <2>1, <2>2
<1> HIDE DEF n, m, f, e, d
<1>4. CASE c = a /\ k = x
    <2>1. n = m + 1
        BY <1>2, <1>4, Zenon DEF Moved
    <2>2. ObjGood(e, m + 1, f)
        BY <1>1, <2>1, Zenon
    <2>3. ObjGood(d, m, f)
        BY <1>1, <1>3, <1>4, <2>2, ObjLess
    <2> QED BY <2>3, Zenon DEF m, f, d
<1>5. CASE c = a /\ k = y
    <2>1. m = n + 1 /\ n >= 1
        BY <1>2, <1>5, Zenon DEF Moved
    <2>2. e.st # "none"
        BY <1>1, <2>1, ObjThere, Zenon
    <2>3. ObjGood(d, n + 1, f)
        BY <1>1, <1>3, <1>5, <2>2, ObjMore
    <2> QED BY <2>1, <2>3, Zenon DEF m, f, d
<1>6. CASE ~(c = a /\ k \in {x, y})
    <2>1. m = n /\ n \in Nat
        BY <1>1, <1>2, <1>6, Zenon DEF Moved
    <2>2. m <= n
        BY <2>1
    <2>3. ObjGood(d, m, f)
        BY <1>1, <1>3, <1>6, <2>2, ObjKeep
    <2> QED BY <2>3, Zenon DEF m, f, d
<1> QED BY <1>4, <1>5, <1>6, Zenon

\* dispatch saves the connection of the request in conns_.
LEMMA RefsSave ==
    ASSUME TypeOK, TypeOK', ServerRefsOK, NEW w \in Workers, SaveConn(w)
    PROVE  ServerRefsOK'
<1> DEFINE a == wjob[w].clt
           b == wjob[w].conn
<1>1. wpc[w] # "idle" /\ wpc' = [wpc EXCEPT ![w] = "check"] /\ UNCHANGED <<wjob, jobq, link>>
    BY DEF SaveConn
<1>2. SameWorkers(wpc, wjob, wpc', wjob', w) /\ wpc'[w] # "idle" /\ wjob'[w] = wjob[w]
    <2>1. wpc'[w] = "check" /\ \A v \in Workers : v # w => wpc'[v] = wpc[v]
        BY <1>1, RefTypes, Zenon
    <2>2. wpc'[w] # "idle"
        BY <2>1
    <2> QED BY <1>1, <2>1, <2>2, Zenon DEF SameWorkers
<1>3. CASE conns_[a] = b
    BY <1>1, <1>2, <1>3, RefsStay, Zenon DEF SaveConn
<1>4. CASE conns_[a] # b
    <2>1. /\ conns_' = [conns_ EXCEPT ![a] = b]
          /\ sconn' = [sconn EXCEPT ![a] = Incref(DecrefIf(sconn[a], conns_[a]), b)]
        BY <1>4, Zenon DEF SaveConn
    <2>2. a \in Clients /\ b \in Conns
        BY <1>1, JobType, Zenon
    <2>3. conns_[a] \in Conns \cup {Null}
        BY <2>2, RefTypes, Zenon
    <2>4. ASSUME NEW c \in Clients, NEW k \in Conns
          PROVE  Moved(Users(conns_[c], jobq, wpc, wjob, c, k), Users(conns_'[c], jobq', wpc', wjob', c, k),
                       c, k, a, conns_[a], b)
        <3>1. Users(conns_'[c], jobq, wpc', wjob', c, k) = Users(conns_'[c], jobq, wpc, wjob, c, k)
            <4>1. Works(wpc, wjob, w, c, k) <=> Works(wpc', wjob', w, c, k)
                BY <1>1, <1>2, Zenon DEF Works
            <4>2. SameWorkers(wpc, wjob, wpc', wjob', w)
                BY <1>2, Zenon
            <4> HIDE DEF a, b
            <4> QED BY <4>1, <4>2, UsersStay
        <3> DEFINE n == Users(conns_[c], jobq, wpc, wjob, c, k)
                   m == Users(conns_'[c], jobq, wpc, wjob, c, k)
        <3>2. CASE c # a
            <4>1. conns_'[c] = conns_[c]
                BY <2>1, <3>2, RefTypes, Zenon
            <4> QED BY <1>1, <3>1, <3>2, <4>1, Zenon DEF Moved
        <3>3. CASE c = a
            <4>1. conns_'[c] = b
                BY <2>1, <2>2, <3>3, RefTypes, Zenon
            <4>2. k = b => n >= 1
                <5>1. k = b => Works(wpc, wjob, w, c, k)
                    BY <1>1, <3>3, Zenon DEF Works, At
                <5> QED BY <5>1, RefTypes, UsersNat
            <4>3. /\ conns_[c] = k /\ b # k => n = m + 1
                  /\ conns_[c] # k /\ b = k => m = n + 1
                  /\ conns_[c] # k /\ b # k => m = n
                <5>1. jobq \in Seq(Requests)
                    BY RefTypes, Zenon
                <5> HIDE DEF a, b
                <5>2. conns_[c] = k /\ b # k => n = m + 1
                    BY <4>1, <5>1, ConnLeft
                <5>3. conns_[c] # k /\ b = k => m = n + 1
                    BY <4>1, <5>1, ConnTaken
                <5>4. conns_[c] # k /\ b # k => m = n
                    BY <4>1, <5>1, ConnOther
                <5> HIDE DEF n, m, b
                <5> QED BY <5>2, <5>3, <5>4, Zenon
            <4> HIDE DEF n, m, a, b
            <4>4. Moved(n, m, c, k, a, conns_[a], b)
                BY <1>4, <3>3, <4>2, <4>3, Zenon DEF Moved
            <4> QED BY <1>1, <3>1, <4>4, Zenon DEF n, m
        <3> QED BY <3>2, <3>3
    <2> HIDE DEF a, b
    <2> QED BY <1>1, <1>4, <2>1, <2>2, <2>3, <2>4, RefsMove, Zenon
<1> QED BY <1>3, <1>4

\* dispatch picks another connection to answer on.
LEMMA RefsPick ==
    ASSUME TypeOK, TypeOK', ServerRefsOK, NEW w \in Workers, PickConn(w)
    PROVE  ServerRefsOK'
<1> DEFINE a == wjob[w].clt
           b == wjob[w].conn
           o == conns_[a]
<1>1. wpc[w] # "idle" /\ wpc' = [wpc EXCEPT ![w] = "send"] /\ UNCHANGED <<conns_, jobq, link>>
    BY DEF PickConn
<1>2. wpc'[w] # "idle" /\ \A v \in Workers : v # w => wpc'[v] = wpc[v]
    <2>1. wpc'[w] = "send" /\ \A v \in Workers : v # w => wpc'[v] = wpc[v]
        BY <1>1, RefTypes, Zenon
    <2> QED BY <2>1
<1>3. CASE ~(~Live(sconn[a], b) /\ o # b)
    <2>1. UNCHANGED <<sconn, wjob>>
        BY <1>3, Zenon DEF PickConn
    <2>2. SameWorkers(wpc, wjob, wpc', wjob', w)
        BY <1>2, <2>1, Zenon DEF SameWorkers
    <2> QED BY <1>1, <1>2, <2>1, <2>2, RefsStay, Zenon
<1>4. CASE ~Live(sconn[a], b) /\ o # b
    <2>1. /\ wjob' = [wjob EXCEPT ![w].conn = o]
          /\ sconn' = [sconn EXCEPT ![a] = Incref(Decref(sconn[a], b), o)]
        BY <1>4, Zenon DEF PickConn
    <2>2. wjob[w] \in Requests /\ a \in Clients /\ b \in Conns
        BY <1>1, JobType, Zenon
    <2>3. wjob'[w].clt = a /\ wjob'[w].conn = o /\ \A v \in Workers : v # w => wjob'[v] = wjob[v]
        <3>1. wjob'[w] = [wjob[w] EXCEPT !.conn = o] /\ \A v \in Workers : v # w => wjob'[v] = wjob[v]
            BY <2>1, RefTypes, Zenon
        <3> HIDE DEF o
        <3>2. wjob'[w].clt = wjob[w].clt /\ wjob'[w].conn = o
            BY <2>2, <3>1 DEF Requests
        <3> QED BY <3>1, <3>2, Zenon
    <2>4. SameWorkers(wpc, wjob, wpc', wjob', w)
        BY <1>2, <2>3, Zenon DEF SameWorkers
    <2>5. o \in Conns /\ b \in Conns \cup {Null} /\ b # Null
        <3>1. wjob'[w] \in Requests \cup {NoJob} /\ wjob'[w] # NoJob
            BY <1>2, Zenon DEF TypeOK, ServerTypeOK
        <3>2. wjob'[w] \in Requests
            BY <3>1, Zenon
        <3>3. wjob'[w].conn \in Conns
            BY <3>2 DEF Requests
        <3>4. b # Null
            BY <2>2, WireAssumption DEF Conns, Null
        <3> QED BY <2>2, <2>3, <3>3, <3>4, Zenon
    <2>6. sconn' = [sconn EXCEPT ![a] = Incref(DecrefIf(sconn[a], b), o)]
        BY <2>1, <2>5, Zenon DEF DecrefIf
    <2>7. ASSUME NEW c \in Clients, NEW k \in Conns
          PROVE  Moved(Users(conns_[c], jobq, wpc, wjob, c, k), Users(conns_'[c], jobq', wpc', wjob', c, k),
                       c, k, a, b, o)
        <3> DEFINE n == Users(conns_[c], jobq, wpc, wjob, c, k)
                   m == Users(conns_[c], jobq, wpc', wjob', c, k)
        <3>1. /\ Works(wpc, wjob, w, c, k) <=> c = a /\ k = b
              /\ Works(wpc', wjob', w, c, k) <=> c = a /\ k = o
            BY <1>1, <1>2, <2>3, Zenon DEF Works, At
        <3>2. CASE c = a /\ k = b
            <4>1. n = m + 1
                <5>1. Works(wpc, wjob, w, c, k) /\ ~Works(wpc', wjob', w, c, k)
                    BY <1>4, <3>1, <3>2, Zenon
                <5> QED BY <2>4, <5>1, RefTypes, UsersLeave
            <4> HIDE DEF a, b, o
            <4> QED BY <1>1, <1>4, <3>2, <4>1, Zenon DEF Moved
        <3>3. CASE c = a /\ k = o
            <4>1. m = n + 1
                <5>1. ~Works(wpc, wjob, w, c, k) /\ Works(wpc', wjob', w, c, k)
                    BY <1>4, <3>1, <3>3, Zenon
                <5> QED BY <2>4, <5>1, RefTypes, UsersJoin
            <4>2. n >= 1
                <5>1. conns_[c] = k
                    BY <3>3, Zenon
                <5> QED BY <5>1, RefTypes, UsersNat
            <4>3. Moved(n, m, c, k, a, b, o)
                <5> HIDE DEF a, b, o, n, m
                <5> QED BY <1>4, <3>3, <4>1, <4>2, Zenon DEF Moved
            <4> QED BY <1>1, <4>3, Zenon
        <3>4. CASE ~(c = a /\ k \in {b, o})
            <4>1. m = n
                <5>1. Works(wpc, wjob, w, c, k) <=> Works(wpc', wjob', w, c, k)
                    BY <3>1, <3>4, Zenon
                <5> QED BY <2>4, <5>1, UsersStay
            <4> HIDE DEF a, b, o
            <4> QED BY <1>1, <3>4, <4>1, Zenon DEF Moved
        <3> QED BY <3>2, <3>3, <3>4, Zenon
    <2> HIDE DEF a, b, o
    <2> QED BY <1>1, <1>4, <2>2, <2>5, <2>6, <2>7, RefsMove, Zenon
<1> QED BY <1>3, <1>4

\* got_pdu queues a job that holds the connection.
LEMMA RefsQueue ==
    ASSUME TypeOK, ServerRefsOK, NEW r \in reqs, GotRequest(r)
    PROVE  ServerRefsOK'
<1>1. r \in Requests /\ r.clt \in Clients /\ r.conn \in Conns
    <2>1. r \in Requests
        BY Zenon DEF TypeOK, WireTypeOK
    <2> QED BY <2>1 DEF Requests
<1>2. /\ Live(sconn[r.clt], r.conn) /\ jobq' = Append(jobq, r) /\ UNCHANGED <<conns_, wpc, wjob, link>>
      /\ sconn' = [sconn EXCEPT ![r.clt] = Incref(sconn[r.clt], r.conn)]
    BY Zenon DEF GotRequest
<1> SUFFICES ASSUME NEW c \in Clients, NEW k \in Conns
             PROVE  ObjGood(sconn'[c][k], Users(conns_'[c], jobq', wpc', wjob', c, k), link'[c][k] = "none")
    BY Zenon DEF ServerRefsOK
<1> DEFINE n == Users(conns_[c], jobq, wpc, wjob, c, k)
           m == Users(conns_[c], Append(jobq, r), wpc, wjob, c, k)
           f == link[c][k] = "none"
           e == sconn[c][k]
           d == sconn'[c][k]
<1>3. ObjGood(e, n, f) /\ n \in Nat /\ e \in Endpoints
    <2>1. ObjGood(e, n, f)
        BY Zenon DEF ServerRefsOK
    <2> QED BY <2>1, RefTypes, UsersNat, Zenon
<1>4. m = IF At(r, c, k) THEN n + 1 ELSE n
    <2>1. jobq \in Seq(Requests)
        BY RefTypes, Zenon
    <2> QED BY <1>1, <2>1, UsersQueue
<1>5. CASE At(r, c, k)
    <2>1. sconn'[c] = Incref(sconn[c], k) /\ sconn[c] \in [Conns -> Endpoints] /\ Live(sconn[c], k)
        BY <1>2, <1>5, RefTypes, Zenon DEF At
    <2>2. d.ref = e.ref + 1 /\ d.st = e.st
        BY <2>1, OwnIncref, Zenon
    <2>3. e.st # "none"
        BY <2>1 DEF Live
    <2> HIDE DEF d, e, n, m, f
    <2>4. ObjGood(d, n + 1, f)
        BY <1>3, <2>2, <2>3, ObjMore
    <2>5. ObjGood(d, m, f)
        BY <1>4, <1>5, <2>4, Zenon
    <2> QED BY <1>2, <2>5, Zenon DEF d, m, f
<1>6. CASE ~At(r, c, k)
    <2>1. d.ref = e.ref /\ d.st = e.st
        <3>1. CASE c # r.clt
            <4>1. sconn'[c] = sconn[c]
                BY <1>2, <3>1, RefTypes, Zenon
            <4> QED BY <4>1, Zenon
        <3>2. CASE c = r.clt
            <4>1. sconn'[c] = Incref(sconn[c], r.conn) /\ sconn[c] \in [Conns -> Endpoints] /\ k # r.conn
                BY <1>2, <1>6, <3>2, RefTypes, Zenon DEF At
            <4>2. /\ Incref(sconn[c], r.conn)[k].st = sconn[c][k].st
                  /\ Incref(sconn[c], r.conn)[k].ref = sconn[c][k].ref
                <5> HIDE DEF n, m, f, e, d
                <5> QED BY <1>1, <4>1, OtherIncref
            <4> QED BY <4>1, <4>2, Zenon
        <3> QED BY <3>1, <3>2
    <2> HIDE DEF d, e, n, m, f
    <2>2. m = n /\ m <= n
        BY <1>3, <1>4, <1>6
    <2>3. ObjGood(d, m, f)
        BY <1>3, <2>1, <2>2, ObjKeep
    <2> QED BY <1>2, <2>3, Zenon DEF d, m, f
<1> QED BY <1>5, <1>6

\* A worker takes a job.
LEMMA RefsTake ==
    ASSUME TypeOK, ServerRefsOK, NEW w \in Workers, TakeJob(w)
    PROVE  ServerRefsOK'
<1>1. /\ wpc[w] = "idle" /\ jobq # <<>> /\ jobq' = Tail(jobq) /\ wjob' = [wjob EXCEPT ![w] = Head(jobq)]
      /\ UNCHANGED <<sconn, conns_, link>>
      /\ wpc' = [wpc EXCEPT ![w] = IF ForOldServer(Head(jobq).hdr) THEN "oldsrv" ELSE "lookup"]
    BY Zenon DEF TakeJob, wireVars
<1>2. SameWorkers(wpc, wjob, wpc', wjob', w) /\ wjob'[w] = Head(jobq)
    BY <1>1, RefTypes, Zenon DEF SameWorkers
<1>3. wpc'[w] # "idle"
    <2>1. wpc'[w] = IF ForOldServer(Head(jobq).hdr) THEN "oldsrv" ELSE "lookup"
        BY <1>1, RefTypes, Zenon
    <2> QED BY <2>1
<1> SUFFICES ASSUME NEW c \in Clients, NEW k \in Conns
             PROVE  ObjGood(sconn'[c][k], Users(conns_'[c], jobq', wpc', wjob', c, k), link'[c][k] = "none")
    BY Zenon DEF ServerRefsOK
<1>4. ObjGood(sconn[c][k], Users(conns_[c], jobq, wpc, wjob, c, k), link[c][k] = "none")
    BY Zenon DEF ServerRefsOK
<1>5. Users(conns_[c], Tail(jobq), wpc', wjob', c, k) = Users(conns_[c], jobq, wpc, wjob, c, k)
    <2>1. jobq \in Seq(Requests) /\ jobq # <<>> /\ wpc[w] = "idle"
        BY <1>1, RefTypes, Zenon
    <2> QED BY <1>2, <1>3, <2>1, UsersTake, SMTT(30)
<1> QED BY <1>1, <1>4, <1>5, Zenon

\* process_accept adds a connection and deletes dead ones that only the listener holds.
LEMMA RefsAccept ==
    ASSUME TypeOK, ServerRefsOK, NEW a \in Clients, NEW b \in Conns, Accept(a, b)
    PROVE  ServerRefsOK'
<1>1. /\ link[a][b] # "none" /\ sconn[a][b].st = "none" /\ UNCHANGED <<link, conns_, jobq, wpc, wjob>>
    BY Zenon DEF Accept, serverVars
<1> SUFFICES ASSUME NEW c \in Clients, NEW k \in Conns
             PROVE  ObjGood(sconn'[c][k], Users(conns_'[c], jobq', wpc', wjob', c, k), link'[c][k] = "none")
    BY Zenon DEF ServerRefsOK
<1> DEFINE n == Users(conns_[c], jobq, wpc, wjob, c, k)
           f == link[c][k] = "none"
           e == sconn[c][k]
           d == sconn'[c][k]
<1>2. ObjGood(e, n, f) /\ n \in Nat /\ e \in Endpoints
    <2>1. ObjGood(e, n, f)
        BY Zenon DEF ServerRefsOK
    <2> QED BY <2>1, RefTypes, UsersNat, Zenon
<1>3. d = IF c = a /\ k = b THEN [st |-> "live", ref |-> 1]
          ELSE IF e = [st |-> "dead", ref |-> 1] THEN [st |-> "deleted", ref |-> 0] ELSE e
    BY Zenon DEF Accept
<1>4. c = a /\ k = b => ~f /\ e.st = "none"
    BY <1>1, Zenon
<1> HIDE DEF n, f, e, d
<1>5. CASE c = a /\ k = b
    <2>1. d.st = "live" /\ d.ref = 1 /\ e.ref = 0 /\ n = 0
        <3>1. d.st = "live" /\ d.ref = 1
            BY <1>3, <1>5
        <3>2. e.ref = 0 /\ e.ref >= n + One(e.st \in {"live", "dead"})
            BY <1>2, <1>4, <1>5, Zenon DEF ObjGood
        <3>3. One(e.st \in {"live", "dead"}) = 0
            BY <1>4, <1>5 DEF One
        <3> QED BY <1>2, <3>1, <3>2, <3>3
    <2>2. One(d.st \in {"live", "dead"}) = 1
        BY <2>1 DEF One
    <2>3. ObjGood(d, n, f)
        BY <1>4, <1>5, <2>1, <2>2 DEF ObjGood
    <2> QED BY <1>1, <2>3, Zenon DEF d, n, f
<1>6. CASE ~(c = a /\ k = b) /\ e = [st |-> "dead", ref |-> 1]
    <2>1. d.st = "deleted" /\ d.ref = 0 /\ e.ref = 1 /\ e.st = "dead"
        BY <1>3, <1>6
    <2>2. One(e.st \in {"live", "dead"}) = 1 /\ One(d.st \in {"live", "dead"}) = 0
        BY <2>1 DEF One
    <2>3. ObjGood(d, n, f)
        BY <1>2, <2>1, <2>2 DEF ObjGood
    <2> QED BY <1>1, <2>3, Zenon DEF d, n, f
<1>7. CASE ~(c = a /\ k = b) /\ e # [st |-> "dead", ref |-> 1]
    <2>1. d = e
        BY <1>3, <1>7, Zenon
    <2> QED BY <1>1, <1>2, <2>1, Zenon DEF d, n, f
<1> QED BY <1>5, <1>6, <1>7, Zenon

\* A connection dies at the server.
LEMMA RefsEof ==
    ASSUME TypeOK, ServerRefsOK, NEW a \in Clients, NEW b \in Conns, ServerEof(a, b), UNCHANGED serverVars
    PROVE  ServerRefsOK'
<1>1. /\ Live(sconn[a], b) /\ sconn' = [sconn EXCEPT ![a] = Killed(sconn[a], b)]
      /\ UNCHANGED <<link, conns_, jobq, wpc, wjob>>
    BY Zenon DEF ServerEof, serverVars
<1> SUFFICES ASSUME NEW c \in Clients, NEW k \in Conns
             PROVE  ObjGood(sconn'[c][k], Users(conns_'[c], jobq', wpc', wjob', c, k), link'[c][k] = "none")
    BY Zenon DEF ServerRefsOK
<1> DEFINE n == Users(conns_[c], jobq, wpc, wjob, c, k)
           f == link[c][k] = "none"
<1>2. ObjGood(sconn[c][k], n, f) /\ n \in Nat /\ sconn[c] \in [Conns -> Endpoints]
    <2>1. ObjGood(sconn[c][k], n, f)
        BY Zenon DEF ServerRefsOK
    <2> QED BY <2>1, RefTypes, UsersNat, Zenon
<1>3. CASE c # a
    <2>1. sconn'[c] = sconn[c]
        BY <1>1, <1>3, RefTypes, Zenon
    <2> QED BY <1>1, <1>2, <2>1, Zenon
<1>4. CASE c = a
    <2>1. sconn'[c] = Killed(sconn[c], b) /\ Live(sconn[c], b)
        BY <1>1, <1>4, RefTypes, Zenon
    <2> HIDE DEF n, f
    <2>2. ObjGood(sconn'[c][k], n, f)
        BY <1>2, <2>1, ObjSent
    <2> QED BY <1>1, <2>2, Zenon DEF n, f
<1> QED BY <1>3, <1>4

\* Nobody uses a connection of a server that has just started.
LEMMA UsersNone ==
    ASSUME NEW n, NEW q, NEW p, NEW j, NEW c, NEW k, n # k, q = <<>>, \A w \in Workers : p[w] = "idle"
    PROVE  Users(n, q, p, j, c, k) = 0
<1>1. Queued(q, c, k) = {}
    <2>1. DOMAIN q = {}
        OBVIOUS
    <2> QED BY <2>1, Zenon DEF Queued
<1>2. Busy(p, j, c, k) = {}
    BY Zenon DEF Busy
<1>3. Cardinality(Queued(q, c, k)) = 0 /\ Cardinality(Busy(p, j, c, k)) = 0 /\ One(n = k) = 0
    BY <1>1, <1>2, FS_EmptySet, Zenon DEF One
<1> QED BY <1>3 DEF Users

\* A new server.
LEMMA RefsRestart ==
    ASSUME TypeOK, ServerRefsOK, Restart
    PROVE  ServerRefsOK'
<1> SUFFICES ASSUME NEW c \in Clients, NEW k \in Conns
             PROVE  ObjGood(sconn'[c][k], Users(conns_'[c], jobq', wpc', wjob', c, k), link'[c][k] = "none")
    BY Zenon DEF ServerRefsOK
<1>1. ObjGood(sconn[c][k], Users(conns_[c], jobq, wpc, wjob, c, k), link[c][k] = "none")
    BY Zenon DEF ServerRefsOK
<1>2. Users(conns_'[c], jobq', wpc', wjob', c, k) = 0
    <2>1. conns_'[c] = Null /\ jobq' = <<>> /\ \A w \in Workers : wpc'[w] = "idle"
        BY Zenon DEF Restart
    <2>2. conns_'[c] # k
        BY <2>1, WireAssumption DEF Conns, Null
    <2> QED BY <2>1, <2>2, UsersNone, Zenon
<1>3. /\ link'[c][k] = IF link[c][k] = "up" THEN "down" ELSE link[c][k]
      /\ sconn'[c][k] = IF link[c][k] = "none" THEN sconn[c][k] ELSE [st |-> "deleted", ref |-> 0]
    BY Zenon DEF Restart
<1>4. CASE link[c][k] = "none"
    <2>1. sconn'[c][k].st = "none" /\ sconn'[c][k].ref = 0
        BY <1>1, <1>3, <1>4, Zenon DEF ObjGood
    <2> QED BY <1>2, <2>1, ObjNone, Zenon
<1>5. CASE link[c][k] # "none"
    <2>1. sconn'[c][k].st = "deleted" /\ sconn'[c][k].ref = 0 /\ link'[c][k] # "none"
        <3>1. sconn'[c][k] = [st |-> "deleted", ref |-> 0]
            BY <1>3, <1>5, Zenon
        <3>2. link'[c][k] = "down" \/ link'[c][k] = link[c][k]
            BY <1>3, Zenon
        <3>3. link'[c][k] # "none"
            BY <1>5, <3>2
        <3> QED BY <3>1, <3>3
    <2> QED BY <1>2, <2>1, ObjNone, Zenon
<1> QED BY <1>4, <1>5

\* What a thread of the dispatch pool does keeps the references.
LEMMA RefsWorker ==
    ASSUME TypeOK, TypeOK', ServerRefsOK, NEW w \in Workers, WorkerStep(w)
    PROVE  ServerRefsOK'
<1>1. CASE SendOldsrv(w)
    <2>1. wpc[w] # "idle" /\ UNCHANGED <<conns_, jobq, link>>
        BY <1>1 DEF SendOldsrv
    <2>2. wpc'[w] = "idle" /\ SameWorkers(wpc, wjob, wpc', wjob', w)
        BY <1>1, RefTypes, Zenon DEF SendOldsrv, GoIdle, SameWorkers
    <2>3. PICK o \in SendOutcomes(sconn[wjob[w].clt], wjob[w].clt, wjob[w].conn) :
              sconn' = [sconn EXCEPT ![wjob[w].clt] = o.conns]
        BY <1>1, Zenon DEF SendOldsrv
    <2>4. \/ o.conns = sconn[wjob[w].clt]
          \/ o.conns = Killed(sconn[wjob[w].clt], wjob[w].conn) /\ Live(sconn[wjob[w].clt], wjob[w].conn)
        BY OutcomeLemma, Zenon
    <2> QED BY <2>1, <2>2, <2>3, <2>4, RefsLeave, Zenon
<1>2. CASE SendReply(w) \/ SendFreed(w)
    <2>1. wpc[w] # "idle" /\ UNCHANGED <<conns_, jobq, link>>
        BY <1>2 DEF SendReply, SendFreed
    <2>2. wpc'[w] = "idle" /\ SameWorkers(wpc, wjob, wpc', wjob', w)
        <3>1. GoIdle(w)
            BY <1>2, Zenon DEF SendReply, SendFreed
        <3> QED BY <3>1, RefTypes, Zenon DEF GoIdle, SameWorkers
    <2>3. PICK o \in SendOutcomes(sconn[wjob[w].clt], wjob[w].clt, wjob[w].conn) :
              sconn' = [sconn EXCEPT ![wjob[w].clt] = Decref(o.conns, wjob[w].conn)]
        BY <1>2, Zenon DEF SendReply, SendFreed
    <2>4. \/ o.conns = sconn[wjob[w].clt]
          \/ o.conns = Killed(sconn[wjob[w].clt], wjob[w].conn) /\ Live(sconn[wjob[w].clt], wjob[w].conn)
        BY OutcomeLemma, Zenon
    <2> QED BY <2>1, <2>2, <2>3, <2>4, RefsLeave, Zenon
<1>3. CASE LookupProc(w)
    <2>1. wpc[w] # "idle" /\ UNCHANGED <<conns_, jobq, link>>
        BY <1>3 DEF LookupProc
    <2>2. CASE wjob[w].hdr.proc \in procs_
        <3>1. wpc' = [wpc EXCEPT ![w] = "conns"] /\ UNCHANGED <<wjob, sconn>>
            BY <1>3, <2>2, Zenon DEF LookupProc
        <3>2. wpc'[w] = "conns" /\ SameWorkers(wpc, wjob, wpc', wjob', w)
            BY <3>1, RefTypes, Zenon DEF SameWorkers
        <3>3. wpc'[w] # "idle"
            BY <3>2
        <3> QED BY <2>1, <3>1, <3>2, <3>3, RefsStay, Zenon
    <2>3. CASE wjob[w].hdr.proc \notin procs_
        <3>1. GoIdle(w) /\ sconn' = [sconn EXCEPT ![wjob[w].clt] = Decref(sconn[wjob[w].clt], wjob[w].conn)]
            BY <1>3, <2>3, Zenon DEF LookupProc
        <3>2. wpc'[w] = "idle" /\ SameWorkers(wpc, wjob, wpc', wjob', w)
            BY <3>1, RefTypes, Zenon DEF GoIdle, SameWorkers
        <3> QED BY <2>1, <3>1, <3>2, RefsLeave, Zenon
    <2> QED BY <2>2, <2>3
<1>4. CASE CheckDuplicate(w)
    <2> DEFINE status == Status(reply_window_[wjob[w].clt], wjob[w].hdr)
    <2>1. wpc[w] # "idle" /\ UNCHANGED <<conns_, jobq, link>>
        BY <1>4 DEF CheckDuplicate
    <2>2. wpc'[w] = AfterCheck(status) /\ \A v \in Workers : v # w => (wpc'[v] = "idle" <=> wpc[v] = "idle")
        <3>1. wpc'[w] = AfterCheck(status)
            BY <1>4, Zenon DEF CheckDuplicate
        <3>2. ASSUME NEW v \in Workers, v # w PROVE wpc'[v] = "idle" <=> wpc[v] = "idle"
            <4>1. wpc'[v] = wpc[v] \/ (wpc[v] = "senddone" /\ wpc'[v] = "sendfreed")
                BY <1>4, <3>2, Zenon DEF CheckDuplicate
            <4> QED BY <4>1
        <3> QED BY <3>1, <3>2, Zenon
    <2>3. CASE status = "INPROGRESS"
        <3>1. /\ sconn' = [sconn EXCEPT ![wjob[w].clt] = Decref(sconn[wjob[w].clt], wjob[w].conn)]
              /\ wjob' = [wjob EXCEPT ![w] = NoJob]
            BY <1>4, <2>3, Zenon DEF CheckDuplicate
        <3>2. wpc'[w] = "idle"
            BY <2>2, <2>3 DEF AfterCheck
        <3>3. SameWorkers(wpc, wjob, wpc', wjob', w)
            BY <2>2, <3>1, RefTypes, Zenon DEF SameWorkers
        <3> QED BY <2>1, <3>1, <3>2, <3>3, RefsLeave, Zenon
    <2>4. CASE status # "INPROGRESS"
        <3>1. UNCHANGED <<sconn, wjob>>
            BY <1>4, <2>4, Zenon DEF CheckDuplicate
        <3>2. wpc'[w] # "idle"
            <4>1. status \in {"NEW", "INPROGRESS", "DONE", "FORGOTTEN"}
                BY Zenon DEF Status
            <4> HIDE DEF status
            <4> QED BY <2>2, <2>4, <4>1 DEF AfterCheck
        <3>3. SameWorkers(wpc, wjob, wpc', wjob', w)
            BY <2>2, <3>1, Zenon DEF SameWorkers
        <3> QED BY <2>1, <3>1, <3>2, <3>3, RefsStay, Zenon
    <2> QED BY <2>3, <2>4
<1>5. CASE RunHandler(w) \/ AddReply(w)
    <2>1. wpc[w] # "idle" /\ UNCHANGED <<conns_, jobq, link, sconn, wjob>>
        BY <1>5 DEF RunHandler, AddReply, wireVars
    <2>2. wpc'[w] \in {"add", "pick"} /\ SameWorkers(wpc, wjob, wpc', wjob', w)
        BY <1>5, <2>1, RefTypes, Zenon DEF RunHandler, AddReply, SameWorkers
    <2>3. wpc'[w] # "idle"
        BY <2>2
    <2> QED BY <2>1, <2>2, <2>3, RefsStay, Zenon
<1> QED BY <1>1, <1>2, <1>3, <1>4, <1>5, RefsTake, RefsSave, RefsPick, Zenon DEF WorkerStep

\* Every step of the library keeps the references at the server.
LEMMA ServerRefsStep ==
    ASSUME TypeOK, TypeOK', ServerRefsOK, Next
    PROVE  ServerRefsOK'
<1> DEFINE Kept == \A c \in Clients, k \in Conns : link'[c][k] = "none" => link[c][k] = "none"
<1>1. ASSUME UNCHANGED serverVars, UNCHANGED sconn, Kept PROVE ServerRefsOK'
    <2>1. UNCHANGED <<sconn, conns_, jobq, wpc, wjob>>
        BY <1>1, Zenon DEF serverVars
    <2> QED BY <1>1, <2>1, RefsKeep, Zenon
<1>2. UNCHANGED link => Kept
    BY Zenon
<1>3. ASSUME NEW c \in Clients, NEW k \in Conns, NEW l \in {"up", "down"}, link' = [link EXCEPT ![c][k] = l]
      PROVE  Kept
    <2>1. \A b \in Clients, j \in Conns : link'[b][j] = IF b = c /\ j = k THEN l ELSE link[b][j]
        BY <1>3, RefTypes, TableLemma
    <2> QED BY <2>1
<1> HIDE DEF Kept
<1>4. ASSUME NEW c \in Clients, NEW k \in Conns, Break(c, k), UNCHANGED serverVars PROVE ServerRefsOK'
    <2>1. UNCHANGED sconn /\ link' = [link EXCEPT ![c][k] = "down"]
        BY <1>4, Zenon DEF Break
    <2> QED BY <1>1, <1>3, <1>4, <2>1, Zenon
<1>5. ASSUME NEW c \in Clients, NEW x \in Xids, GetRefconn(c, x), UNCHANGED serverVars PROVE ServerRefsOK'
    <2>1. UNCHANGED sconn
        BY <1>5, Zenon DEF GetRefconn
    <2>2. UNCHANGED link \/ \E k \in Conns : link' = [link EXCEPT ![c][k] = "up"]
        <3>1. FreshConns(c) \subseteq Conns \cup {Null}
            BY Zenon DEF FreshConns
        <3> QED BY <1>5, <3>1, Zenon DEF GetRefconn
    <2> QED BY <1>1, <1>2, <1>3, <1>5, <2>1, <2>2, Zenon
<1>6. ASSUME UNCHANGED serverVars, UNCHANGED <<sconn, link>> PROVE ServerRefsOK'
    BY <1>1, <1>2, <1>6, Zenon
<1>7. ASSUME NEW c \in Clients, NEW x \in Xids, ClientStep(c, x), UNCHANGED serverVars PROVE ServerRefsOK'
    BY <1>5, <1>6, <1>7, Zenon DEF ClientStep, SendRequest, TimeOut, NextRound, FinishCall, wireVars
<1>8. ASSUME NEW c \in Clients, NEW p \in Procs, StartCall(c, p), UNCHANGED serverVars PROVE ServerRefsOK'
    BY <1>6, <1>8, Zenon DEF StartCall, wireVars
<1>9. ASSUME NEW r \in reps, GotReply(r), UNCHANGED serverVars PROVE ServerRefsOK'
    BY <1>6, <1>9, Zenon DEF GotReply
<1>10. ASSUME NEW c \in Clients, NEW k \in Conns, ClientEof(c, k), UNCHANGED serverVars PROVE ServerRefsOK'
    BY <1>6, <1>10, Zenon DEF ClientEof
<1>11. ASSUME Register PROVE ServerRefsOK'
    <2>1. UNCHANGED <<sconn, conns_, jobq, wpc, wjob>> /\ UNCHANGED link
        BY <1>11, Zenon DEF Register, wireVars
    <2> QED BY <1>2, <2>1, RefsKeep, Zenon DEF Kept
<1> QED BY <1>4, <1>7, <1>8, <1>9, <1>10, <1>11, RefsEof, RefsAccept, RefsQueue, RefsWorker, RefsRestart, Zenon
        DEF Next

(***************************************************************************)
(* Whatever the clients, the network and the threads of the server do, the *)
(* reference count of a connection object of the server covers the         *)
(* listener, conns_, every queued job and every thread that points to it:  *)
(* neither dispatch nor process_accept deletes one that is still in use.   *)
(***************************************************************************)
THEOREM ServerReferences == Spec => []NoDanglingConn
<1>1. Init => ServerRefsOK
    <2> SUFFICES ASSUME Init, NEW c \in Clients, NEW k \in Conns
                 PROVE  ObjGood(sconn[c][k], Users(conns_[c], jobq, wpc, wjob, c, k), link[c][k] = "none")
        BY Zenon DEF ServerRefsOK
    <2>1. sconn[c][k] = NoEndpoint
        BY Zenon DEF Init, WireInit
    <2>2. sconn[c][k].st = "none" /\ sconn[c][k].ref = 0
        BY <2>1 DEF NoEndpoint
    <2>3. conns_[c] = Null /\ jobq = <<>> /\ \A w \in Workers : wpc[w] = "idle"
        BY Zenon DEF Init, ServerInit
    <2>4. conns_[c] # k
        BY <2>3, WireAssumption DEF Conns, Null
    <2>5. Users(conns_[c], jobq, wpc, wjob, c, k) = 0
        BY <2>3, <2>4, UsersNone, Zenon
    <2> QED BY <2>2, <2>5, ObjNone, Zenon
<1>2. TypeOK /\ TypeOK' /\ ServerRefsOK /\ [Next]_vars => ServerRefsOK'
    <2> SUFFICES ASSUME TypeOK, TypeOK', ServerRefsOK, [Next]_vars PROVE ServerRefsOK'
        OBVIOUS
    <2>1. CASE UNCHANGED vars
        BY <2>1, Zenon DEF vars, wireVars, serverVars, ServerRefsOK
    <2> QED BY <2>1, ServerRefsStep, Zenon
<1>3. TypeOK /\ ServerRefsOK => NoDanglingConn
    <2> SUFFICES ASSUME TypeOK, ServerRefsOK, NEW c \in Clients, NEW k \in Conns
                 PROVE  sconn[c][k].ref >= ServerHolders(c, k)
        BY Zenon DEF NoDanglingConn
    <2> DEFINE l == One(sconn[c][k].st \in {"live", "dead"})
               o == One(conns_[c] = k)
               a == Cardinality(Queued(jobq, c, k))
               b == Cardinality(Busy(wpc, wjob, c, k))
    <2>1. sconn[c][k].ref >= (o + a + b) + l
        BY Zenon DEF ServerRefsOK, ObjGood, Users
    <2>2. ServerHolders(c, k) = l + o + a + b
        BY Zenon DEF ServerHolders, One, Queued, Busy, At
    <2>3. a \in Nat /\ b \in Nat /\ o \in {0, 1} /\ l \in {0, 1}
        BY RefTypes, QueuedFinite, BusyFinite, Zenon DEF One
    <2> HIDE DEF l, o, a, b
    <2> QED BY <2>1, <2>2, <2>3
<1> QED BY <1>1, <1>2, <1>3, TypeCorrect, PTL DEF Spec
=============================================================================
