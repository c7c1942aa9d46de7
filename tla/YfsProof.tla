------------------------------ MODULE YfsProof ------------------------------
(***************************************************************************)
(* Proofs about FileList and Yfs, for any numbers of processes, any names, *)
(* and any bounds on requests and failures.                                *)
(*                                                                         *)
(* What serialize and deserialize compute is defined by recursion over the *)
(* entries of a directory.  The induction that this takes is an argument   *)
(* about the least counterexample (Least).                                 *)
(***************************************************************************)
EXTENDS Yfs, FiniteSetTheorems, SequenceTheorems, WellFoundedInduction, TLAPS

-----------------------------------------------------------------------------
(* Induction and recursion.                                                *)

\* A set of natural numbers has a least element.
LEMMA Least ==
    ASSUME NEW T \in SUBSET Nat, T # {}
    PROVE  \E m \in T : \A k \in T : m <= k
<1>1. PICK m \in T : \A k \in T : ~ (<<k, m>> \in OpToRel(<, Nat))
    BY NatLessThanWellFounded, WFMin, Zenon
<1>2. \A k \in T : k \in Nat /\ m \in Nat /\ ~(k < m)
    BY <1>1, Zenon DEF OpToRel
<1>3. \A k \in T : m <= k
    BY <1>2
<1> QED BY <1>3

\* A set that has 0, and with every number up to N the next, has all numbers up to N.
LEMMA UpTo ==
    ASSUME NEW N \in Nat, NEW T, 0 \in T,
           \A n \in 1 .. N : n - 1 \in T => n \in T
    PROVE  0 .. N \subseteq T
<1> DEFINE U == {n \in 0 .. N : n \notin T}
<1> SUFFICES ASSUME U # {} PROVE FALSE
    OBVIOUS
<1>1. U \in SUBSET Nat
    OBVIOUS
<1>2. PICK m \in U : \A k \in U : m <= k
    BY <1>1, Least, Zenon
<1>3. m \in 1 .. N /\ m - 1 \in 0 .. N /\ ~(m <= m - 1)
    BY <1>2
<1>4. m - 1 \in T
    BY <1>2, <1>3
<1> QED BY <1>2, <1>3, <1>4

\* g is defined by recursion up to N: it begins with a, and H is the step.
Follows(g, N, a, H) == g[0] = a /\ \A n \in 1 .. N : g[n] = H[g[n - 1], n]

\* There is such a function.
LEMMA Recursion ==
    ASSUME NEW N \in Nat, NEW S, NEW a \in S, NEW H \in [S \X (1 .. N) -> S]
    PROVE  \E g \in [0 .. N -> S] : Follows(g, N, a, H)
<1> DEFINE Good(k, g) == g[0] = a /\ \A n \in 1 .. k : g[n] = H[g[n - 1], n]
           T == {k \in 0 .. N : \E g \in [0 .. k -> S] : Good(k, g)}
<1>1. 0 \in T
    <2> DEFINE h == [i \in 0 .. 0 |-> a]
    <2>1. h \in [0 .. 0 -> S] /\ Good(0, h) /\ 0 \in 0 .. N
        OBVIOUS
    <2> HIDE DEF h, Good
    <2> QED BY <2>1
<1>2. ASSUME NEW n \in 1 .. N, n - 1 \in T
      PROVE  n \in T
    <2>1. PICK g \in [0 .. n - 1 -> S] : Good(n - 1, g)
        BY <1>2, Zenon
    <2> DEFINE v == H[g[n - 1], n]
               h == [i \in 0 .. n |-> IF i = n THEN v ELSE g[i]]
    <2>2. n - 1 \in 0 .. n - 1 /\ n \in 0 .. N /\ \A i \in 0 .. n : i # n => i \in 0 .. n - 1
        OBVIOUS
    <2>3. v \in S
        <3>1. g[n - 1] \in S
            BY <2>1, <2>2, Zenon
        <3>2. <<g[n - 1], n>> \in S \X (1 .. N)
            BY <3>1
        <3> QED BY <3>2, Zenon
    <2>4. h \in [0 .. n -> S]
        <3> HIDE DEF v
        <3> QED BY <2>2, <2>3
    <2>5. h[0] = a /\ h[n] = v /\ h[n - 1] = g[n - 1] /\ \A i \in 0 .. n - 1 : h[i] = g[i]
        <3> HIDE DEF v
        <3>1. h[n] = v /\ \A i \in 0 .. n - 1 : h[i] = g[i]
            OBVIOUS
        <3>2. 0 \in 0 .. n - 1
            OBVIOUS
        <3> QED BY <2>1, <2>2, <3>1, <3>2, Zenon
    <2>6. ASSUME NEW i \in 1 .. n PROVE h[i] = H[h[i - 1], i]
        <3>1. CASE i = n
            <4> HIDE DEF h
            <4> QED BY <2>5, <3>1, Zenon
        <3>2. CASE i # n
            <4>1. i \in 1 .. n - 1 /\ i \in 0 .. n - 1 /\ i - 1 \in 0 .. n - 1
                BY <3>2
            <4>2. g[i] = H[g[i - 1], i]
                BY <2>1, <4>1, Zenon
            <4> HIDE DEF h
            <4> QED BY <2>5, <4>1, <4>2, Zenon
        <3> QED BY <3>1, <3>2, Zenon
    <2>7. Good(n, h)
        <3> HIDE DEF h
        <3> QED BY <2>5, <2>6, Zenon
    <2> HIDE DEF Good, h
    <2> QED BY <2>2, <2>4, <2>7
<1>3. N \in T
    <2> HIDE DEF T
    <2>1. N \in 0 .. N
        OBVIOUS
    <2> QED BY <1>1, <1>2, <2>1, UpTo
<1> QED BY <1>3, Zenon DEF Follows

-----------------------------------------------------------------------------
(* serialize and deserialize.                                              *)

Bufs(V) == Seq([width : Nat, v : V])

\* The size of a buffer is the sum of the widths of its fields.
LEMMA SizeLemma ==
    ASSUME NEW V, NEW buf \in Bufs(V)
    PROVE  \E up \in [0 .. Len(buf) -> Nat] :
              /\ up[0] = 0
              /\ \A n \in 1 .. Len(buf) : up[n] = up[n - 1] + buf[n].width
              /\ Size(buf) = up[Len(buf)]
<1> DEFINE N == Len(buf)
           Eq(g) == g = [n \in 0 .. N |-> IF n = 0 THEN 0 ELSE g[n - 1] + buf[n].width]
           upto == CHOOSE g : Eq(g)
           H == [p \in Nat \X (1 .. N) |-> p[1] + buf[p[2]].width]
<1>1. N \in Nat /\ \A n \in 1 .. N : buf[n].width \in Nat
    <2> DEFINE F == [width : Nat, v : V]
    <2>1. buf \in Seq(F)
        BY Zenon DEF Bufs
    <2>2. N \in Nat /\ \A n \in 1 .. N : buf[n] \in F
        <3> HIDE DEF F
        <3> QED BY <2>1
    <2> QED BY <2>2
<1>2. Size(buf) = upto[N]
    BY DEF Size
<1>3. H \in [Nat \X (1 .. N) -> Nat]
    BY <1>1
<1>4. \E g : Eq(g)
    <2>1. PICK g \in [0 .. N -> Nat] : Follows(g, N, 0, H)
        <3> HIDE DEF H, N
        <3>1. 0 \in Nat
            OBVIOUS
        <3> QED BY <1>1, <1>3, <3>1, Recursion, Zenon
    <2>2. ASSUME NEW n \in 0 .. N
          PROVE  g[n] = IF n = 0 THEN 0 ELSE g[n - 1] + buf[n].width
        <3>1. CASE n = 0
            BY <2>1, <3>1, Zenon DEF Follows
        <3>2. CASE n # 0
            <4>1. n - 1 \in 0 .. N /\ n \in 1 .. N
                BY <1>1, <3>2
            <4>2. <<g[n - 1], n>> \in Nat \X (1 .. N)
                BY <2>1, <4>1
            <4>3. H[g[n - 1], n] = g[n - 1] + buf[n].width
                BY <4>2, Zenon
            <4>4. g[n] = H[g[n - 1], n]
                <5> HIDE DEF H
                <5> QED BY <2>1, <4>1, Zenon DEF Follows
            <4> QED BY <3>2, <4>3, <4>4, Zenon
        <3> QED BY <3>1, <3>2
    <2>3. Eq(g)
        <3> HIDE DEF N
        <3> QED BY <2>1, <2>2
    <2> QED BY <2>3
<1>5. Eq(upto)
    <2> HIDE DEF Eq
    <2> QED BY <1>4, Zenon
<1> HIDE DEF upto
<1>6. upto[0] = 0 /\ \A n \in 1 .. N : upto[n] = upto[n - 1] + buf[n].width
    <2> HIDE DEF N
    <2>1. 0 \in 0 .. N /\ \A n \in 1 .. N : n \in 0 .. N /\ n # 0
        BY <1>1
    <2> QED BY <1>5, <2>1, Zenon
<1>7. upto \in [0 .. N -> Nat]
    <2> DEFINE T == {n \in 0 .. N : upto[n] \in Nat}
    <2> HIDE DEF N
    <2>1. 0 \in T /\ \A n \in 1 .. N : n - 1 \in T => n \in T
        BY <1>1, <1>6
    <2>2. 0 .. N \subseteq T
        <3> HIDE DEF T
        <3> QED BY <1>1, <2>1, UpTo
    <2>3. \A n \in 0 .. N : upto[n] \in Nat
        BY <2>2
    <2> QED BY <1>5, <2>3
<1> QED BY <1>2, <1>6, <1>7

\* What a field holds.
Values == Nat \cup Inums \cup Names

\* Three fields more.
LEMMA Extend ==
    ASSUME NEW F, NEW x \in Seq(F), NEW a \in F, NEW b \in F, NEW c \in F
    PROVE  /\ x \o <<a, b, c>> \in Seq(F)
           /\ Len(x \o <<a, b, c>>) = Len(x) + 3
           /\ \A j \in 1 .. Len(x) : (x \o <<a, b, c>>)[j] = x[j]
           /\ (x \o <<a, b, c>>)[Len(x) + 1] = a
           /\ (x \o <<a, b, c>>)[Len(x) + 2] = b
           /\ (x \o <<a, b, c>>)[Len(x) + 3] = c
<1> DEFINE y == <<a, b, c>>
<1>1. y \in Seq(F) /\ Len(y) = 3 /\ y[1] = a /\ y[2] = b /\ y[3] = c
    OBVIOUS
<1> HIDE DEF y
<1>2. /\ x \o y \in Seq(F) /\ Len(x) \in Nat /\ Len(x \o y) = Len(x) + 3
      /\ \A j \in 1 .. Len(x) : (x \o y)[j] = x[j]
    <2>1. /\ x \o y \in Seq(F)
          /\ Len(x \o y) = Len(x) + Len(y)
          /\ \A i \in 1 .. Len(x) + Len(y) :
                (x \o y)[i] = IF i <= Len(x) THEN x[i] ELSE y[i - Len(x)]
        BY <1>1, ConcatProperties, Zenon
    <2>2. Len(x) \in Nat
        OBVIOUS
    <2> QED BY <1>1, <2>1, <2>2
<1>3. \A j \in 1 .. 3 : (x \o y)[Len(x) + j] = y[j]
    BY <1>1, <1>2
<1>4. 1 \in 1 .. 3 /\ 2 \in 1 .. 3 /\ 3 \in 1 .. 3
    OBVIOUS
<1> QED BY <1>1, <1>2, <1>3, <1>4, Zenon DEF y

\* Entry e of a directory is the i-th in a buffer.
At(buf, i, e) ==
    /\ buf[3 * i - 1] = Field(8, e.id)
    /\ buf[3 * i] = Field(4, e.name.len)
    /\ buf[3 * i + 1] = Field(e.name.len, e.name)

\* What serialize writes: the number of entries and, one after another, the entries.
LEMMA SerializeLemma ==
    ASSUME NEW list \in FileLists
    PROVE  /\ serialize(list) \in Bufs(Values)
           /\ Len(serialize(list)) = 3 * Len(list) + 1
           /\ serialize(list)[1] = Field(4, Len(list))
           /\ \A i \in 1 .. Len(list) : At(serialize(list), i, list[i])
<1> DEFINE N == Len(list)
           start == <<Field(4, N)>>
           Eq(g) == g = [n \in 0 .. N |-> IF n = 0 THEN start ELSE g[n - 1] \o Fields(list[n])]
           upto == CHOOSE g : Eq(g)
           F == [width : Nat, v : Values]
           S == Bufs(Values)
           H == [p \in S \X (1 .. N) |-> p[1] \o Fields(list[p[2]])]
<1>1. serialize(list) = upto[N]
    BY DEF serialize
<1>2. S = Seq(F)
    BY Zenon DEF Bufs
<1>3. N \in Nat /\ \A i \in 1 .. N : list[i] \in [id : Inums, name : Names]
    <2> DEFINE E == [id : Inums, name : Names]
    <2>1. list \in Seq(E)
        BY Zenon DEF FileLists
    <2> HIDE DEF E
    <2>2. N \in Nat /\ \A i \in 1 .. N : list[i] \in E
        BY <2>1
    <2> QED BY <2>2, Zenon DEF E
<1> HIDE DEF N
<1>4. Field(4, N) \in F
    BY <1>3 DEF Field, Values
<1>5. start \in S /\ Len(start) = 1 /\ start[1] = Field(4, N)
    <2> HIDE DEF F, S
    <2> QED BY <1>2, <1>4
<1>6. \A i \in 1 .. N : /\ Field(8, list[i].id) \in F
                        /\ Field(4, list[i].name.len) \in F
                        /\ Field(list[i].name.len, list[i].name) \in F
    BY <1>3, YfsAssumption DEF Field, Values
<1>7. ASSUME NEW x \in S, NEW i \in 1 .. N
      PROVE  /\ x \o Fields(list[i]) \in S
             /\ Len(x \o Fields(list[i])) = Len(x) + 3
             /\ \A j \in 1 .. Len(x) : (x \o Fields(list[i]))[j] = x[j]
             /\ (x \o Fields(list[i]))[Len(x) + 1] = Field(8, list[i].id)
             /\ (x \o Fields(list[i]))[Len(x) + 2] = Field(4, list[i].name.len)
             /\ (x \o Fields(list[i]))[Len(x) + 3] = Field(list[i].name.len, list[i].name)
    <2> DEFINE a == Field(8, list[i].id)
               b == Field(4, list[i].name.len)
               c == Field(list[i].name.len, list[i].name)
    <2>1. x \in Seq(F)
        BY <1>2, Zenon
    <2> HIDE DEF F, S
    <2>2. a \in F /\ b \in F /\ c \in F
        BY <1>6, Zenon
    <2>3. Fields(list[i]) = <<a, b, c>>
        BY Zenon DEF Fields
    <2> HIDE DEF a, b, c
    <2>4. /\ x \o <<a, b, c>> \in Seq(F)
          /\ Len(x \o <<a, b, c>>) = Len(x) + 3
          /\ \A j \in 1 .. Len(x) : (x \o <<a, b, c>>)[j] = x[j]
          /\ (x \o <<a, b, c>>)[Len(x) + 1] = a
          /\ (x \o <<a, b, c>>)[Len(x) + 2] = b
          /\ (x \o <<a, b, c>>)[Len(x) + 3] = c
        BY <2>1, <2>2, Extend
    <2> QED BY <1>2, <2>3, <2>4, Zenon DEF a, b, c
<1>8. H \in [S \X (1 .. N) -> S]
    <2>1. ASSUME NEW p \in S \X (1 .. N)
          PROVE  p[1] \o Fields(list[p[2]]) \in S
        <3> HIDE DEF F, S
        <3>1. p[1] \in S /\ p[2] \in 1 .. N
            OBVIOUS
        <3> QED BY <1>7, <3>1, Zenon
    <2> HIDE DEF S
    <2> QED BY <2>1, Zenon
<1>9. \E g : Eq(g)
    <2> HIDE DEF S, F
    <2>1. PICK g \in [0 .. N -> S] : Follows(g, N, start, H)
        <3> HIDE DEF H, start
        <3> QED BY <1>3, <1>5, <1>8, Recursion, Zenon
    <2>2. ASSUME NEW n \in 0 .. N
          PROVE  g[n] = IF n = 0 THEN start ELSE g[n - 1] \o Fields(list[n])
        <3>1. CASE n = 0
            <4> HIDE DEF start, H
            <4> QED BY <2>1, <3>1, Zenon DEF Follows
        <3>2. CASE n # 0
            <4>1. n - 1 \in 0 .. N /\ n \in 1 .. N
                BY <1>3, <3>2
            <4>2. <<g[n - 1], n>> \in S \X (1 .. N)
                BY <2>1, <4>1
            <4>3. H[g[n - 1], n] = g[n - 1] \o Fields(list[n])
                BY <4>2, Zenon
            <4>4. g[n] = H[g[n - 1], n]
                <5> HIDE DEF H, start
                <5> QED BY <2>1, <4>1, Zenon DEF Follows
            <4> QED BY <3>2, <4>3, <4>4, Zenon
        <3> QED BY <3>1, <3>2, Zenon
    <2>3. Eq(g)
        <3> HIDE DEF start
        <3> QED BY <2>1, <2>2, Zenon
    <2> QED BY <2>3, Zenon
<1>10. Eq(upto)
    <2> HIDE DEF Eq
    <2> QED BY <1>9, Zenon
<1> HIDE DEF upto, start, S, F
<1>11. upto[0] = start /\ \A n \in 1 .. N : upto[n] = upto[n - 1] \o Fields(list[n])
    <2>1. 0 \in 0 .. N /\ \A n \in 1 .. N : n \in 0 .. N /\ n # 0
        BY <1>3
    <2> QED BY <1>10, <2>1, Zenon
<1> DEFINE P(n) == /\ upto[n] \in S /\ Len(upto[n]) = 3 * n + 1
                   /\ upto[n][1] = Field(4, N)
                   /\ \A i \in 1 .. n : At(upto[n], i, list[i])
           T == {n \in 0 .. N : P(n)}
<1>12. 0 \in T
    <2>1. 0 \in 0 .. N /\ 3 * 0 + 1 = 1 /\ 1 .. 0 = {}
        BY <1>3
    <2> QED BY <1>5, <1>11, <2>1, Zenon
<1>13. ASSUME NEW n \in 1 .. N, n - 1 \in T
       PROVE  n \in T
    <2> DEFINE x == upto[n - 1]
               z == upto[n]
    <2>1. /\ x \in S /\ Len(x) = 3 * (n - 1) + 1 /\ x[1] = Field(4, N)
          /\ \A i \in 1 .. n - 1 : At(x, i, list[i])
        BY <1>13, Zenon
    <2>2. n \in Nat /\ n >= 1 /\ n \in 0 .. N
        BY <1>3
    <2>3. Len(x) = 3 * n - 2
        BY <2>1, <2>2
    <2>4. z = x \o Fields(list[n])
        BY <1>11, Zenon
    <2>5. /\ z \in S /\ Len(z) = Len(x) + 3
          /\ \A j \in 1 .. Len(x) : z[j] = x[j]
          /\ z[Len(x) + 1] = Field(8, list[n].id)
          /\ z[Len(x) + 2] = Field(4, list[n].name.len)
          /\ z[Len(x) + 3] = Field(list[n].name.len, list[n].name)
        <3> HIDE DEF x, z
        <3> QED BY <1>7, <2>1, <2>4, Zenon
    <2> HIDE DEF x, z
    <2>6. At(z, n, list[n])
        <3>1. Len(x) + 1 = 3 * n - 1 /\ Len(x) + 2 = 3 * n /\ Len(x) + 3 = 3 * n + 1
            BY <2>2, <2>3
        <3> QED BY <2>5, <3>1, Zenon DEF At
    <2>7. ASSUME NEW i \in 1 .. n - 1
          PROVE  At(z, i, list[i])
        <3>1. 3 * i - 1 \in 1 .. Len(x) /\ 3 * i \in 1 .. Len(x) /\ 3 * i + 1 \in 1 .. Len(x)
            BY <2>2, <2>3
        <3>2. At(x, i, list[i])
            BY <2>1
        <3> QED BY <2>5, <3>1, <3>2, Zenon DEF At
    <2>8. \A i \in 1 .. n : At(z, i, list[i])
        <3>1. \A i \in 1 .. n : i = n \/ i \in 1 .. n - 1
            BY <2>2
        <3> QED BY <2>6, <2>7, <3>1, Zenon
    <2>9. z[1] = Field(4, N) /\ Len(z) = 3 * n + 1
        <3>1. 1 \in 1 .. Len(x) /\ Len(x) + 3 = 3 * n + 1
            BY <2>2, <2>3
        <3> QED BY <2>1, <2>5, <3>1, Zenon
    <2> QED BY <2>2, <2>5, <2>8, <2>9, Zenon DEF z
<1>14. N \in T
    <2> HIDE DEF T
    <2>1. N \in 0 .. N
        BY <1>3
    <2> QED BY <1>3, <1>12, <1>13, <2>1, UpTo
<1> QED BY <1>1, <1>14, Zenon DEF S, N

\* Where the entries of a directory end in its buffer, in bytes.
Offsets(q, list) ==
    /\ q[0] = 4
    /\ \A i \in 1 .. Len(list) : q[i] = q[i - 1] + 12 + list[i].name.len

\* A list of files and its entries.
LEMMA ListType ==
    ASSUME NEW list \in FileLists
    PROVE  /\ Len(list) \in Nat
           /\ \A i \in 1 .. Len(list) : /\ list[i] \in [id : Inums, name : Names]
                                        /\ list[i].name.len \in Nat \ {0}
<1> DEFINE E == [id : Inums, name : Names]
<1>1. list \in Seq(E)
    BY Zenon DEF FileLists
<1>2. Len(list) \in Nat /\ \A i \in 1 .. Len(list) : list[i] \in E
    <2> HIDE DEF E
    <2> QED BY <1>1
<1>3. \A e \in E : e.name.len \in Nat \ {0}
    BY YfsAssumption
<1> QED BY <1>2, <1>3, Zenon

\* The buffer is as long as the entries say.
LEMMA OffsetLemma ==
    ASSUME NEW list \in FileLists
    PROVE  \E q \in [0 .. Len(list) -> Nat] :
              Offsets(q, list) /\ Size(serialize(list)) = q[Len(list)]
<1> DEFINE N == Len(list)
           buf == serialize(list)
<1>1. /\ buf \in Bufs(Values) /\ Len(buf) = 3 * N + 1 /\ buf[1] = Field(4, N)
      /\ \A i \in 1 .. N : At(buf, i, list[i])
    BY SerializeLemma, Zenon
<1>2. N \in Nat /\ \A i \in 1 .. N : list[i].name.len \in Nat \ {0}
    BY ListType, Zenon
<1> HIDE DEF N, buf
<1>3. PICK up \in [0 .. Len(buf) -> Nat] :
              /\ up[0] = 0
              /\ \A n \in 1 .. Len(buf) : up[n] = up[n - 1] + buf[n].width
              /\ Size(buf) = up[Len(buf)]
    BY <1>1, SizeLemma, Zenon
<1> DEFINE q == [i \in 0 .. N |-> up[3 * i + 1]]
<1>4. q \in [0 .. N -> Nat] /\ Size(buf) = q[N]
    <2>1. \A i \in 0 .. N : 3 * i + 1 \in 0 .. 3 * N + 1
        BY <1>2
    <2>2. N \in 0 .. N
        BY <1>2
    <2> QED BY <1>1, <1>3, <2>1, <2>2
<1>5. q[0] = 4
    <2>1. 1 \in 1 .. Len(buf) /\ 1 - 1 = 0 /\ 0 \in 0 .. N /\ 3 * 0 + 1 = 1
        BY <1>1, <1>2
    <2>2. up[1] = up[0] + buf[1].width
        BY <1>3, <2>1
    <2>3. buf[1].width = 4
        BY <1>1 DEF Field
    <2> QED BY <1>3, <2>1, <2>2, <2>3
<1>6. ASSUME NEW i \in 1 .. N
      PROVE  q[i] = q[i - 1] + 12 + list[i].name.len
    <2> DEFINE k == 3 * i
               w == list[i].name.len
    <2>1. /\ i \in Nat /\ i \in 0 .. N /\ i - 1 \in 0 .. N /\ 3 * (i - 1) + 1 = k - 2
          /\ k - 1 \in 1 .. Len(buf) /\ k \in 1 .. Len(buf) /\ k + 1 \in 1 .. Len(buf)
          /\ k - 2 \in 0 .. Len(buf) /\ (k - 1) - 1 = k - 2 /\ (k + 1) - 1 = k
        BY <1>1, <1>2
    <2>2. buf[k - 1].width = 8 /\ buf[k].width = 4 /\ buf[k + 1].width = w
        <3>1. /\ buf[k - 1] = Field(8, list[i].id) /\ buf[k] = Field(4, w)
              /\ buf[k + 1] = Field(w, list[i].name)
            BY <1>1, Zenon DEF At
        <3> HIDE DEF k, w
        <3> QED BY <3>1 DEF Field
    <2>3. w \in Nat
        BY <1>2
    <2>4. q[i] = up[k + 1] /\ q[i - 1] = up[k - 2]
        BY <2>1
    <2> HIDE DEF k, w, q
    <2>5. up[k - 2] \in Nat
        BY <1>3, <2>1, Zenon
    <2>6. up[k - 1] = up[k - 2] + 8 /\ up[k] = up[k - 1] + 4 /\ up[k + 1] = up[k] + w
        BY <1>3, <2>1, <2>2, Zenon
    <2> QED BY <2>3, <2>4, <2>5, <2>6 DEF w
<1> HIDE DEF q
<1>7. Offsets(q, list)
    BY <1>5, <1>6, Zenon DEF Offsets, N
<1> QED BY <1>4, <1>7, Zenon DEF N, buf

\* The entries end one after another.
LEMMA OffsetsGrow ==
    ASSUME NEW list \in FileLists, NEW q \in [0 .. Len(list) -> Nat], Offsets(q, list)
    PROVE  /\ q[Len(list)] >= Len(list) * 12 + 4
           /\ \A i \in 0 .. Len(list) : q[i] <= q[Len(list)]
           /\ \A i \in 0 .. Len(list) : i # Len(list) => q[i] < q[Len(list)]
<1> DEFINE N == Len(list)
<1>1. N \in Nat /\ \A i \in 1 .. N : list[i].name.len \in Nat \ {0}
    BY ListType, Zenon
<1> HIDE DEF N
<1>2. q[0] = 4 /\ \A i \in 1 .. N : q[i] = q[i - 1] + 12 + list[i].name.len
    BY Zenon DEF Offsets, N
<1>3. q \in [0 .. N -> Nat]
    BY Zenon DEF N
<1> DEFINE T == {n \in 0 .. N : q[n] >= n * 12 + 4 /\ \A i \in 0 .. n : i # n => q[i] < q[n]}
<1>4. 0 \in T
    BY <1>1, <1>2
<1>5. ASSUME NEW n \in 1 .. N, n - 1 \in T
      PROVE  n \in T
    <2>1. n \in Nat /\ n - 1 \in Nat /\ n - 1 \in 0 .. N /\ n \in 0 .. N
        BY <1>1
    <2>2. q[n] \in Nat /\ q[n - 1] \in Nat /\ q[n] > q[n - 1] + 12
        <3> DEFINE w == list[n].name.len
        <3>1. w \in Nat \ {0} /\ q[n] = q[n - 1] + 12 + w
            BY <1>1, <1>2, Zenon
        <3>2. q[n] \in Nat /\ q[n - 1] \in Nat
            BY <1>3, <2>1, Zenon
        <3> HIDE DEF w
        <3> QED BY <3>1, <3>2
    <2>3. q[n - 1] >= (n - 1) * 12 + 4 /\ \A i \in 0 .. n - 1 : i # n - 1 => q[i] < q[n - 1]
        BY <1>5
    <2>4. q[n] >= n * 12 + 4
        BY <2>1, <2>2, <2>3
    <2>5. ASSUME NEW i \in 0 .. n, i # n
          PROVE  q[i] < q[n]
        <3>1. i \in 0 .. n - 1 /\ i \in 0 .. N
            BY <1>1, <2>1, <2>5
        <3>2. q[i] \in Nat
            BY <1>3, <3>1
        <3>3. i = n - 1 \/ q[i] < q[n - 1]
            BY <2>3, <3>1, Zenon
        <3> QED BY <2>2, <3>2, <3>3
    <2> QED BY <2>1, <2>4, <2>5
<1>6. N \in T
    <2> HIDE DEF T
    <2>1. N \in 0 .. N
        BY <1>1
    <2> QED BY <1>1, <1>4, <1>5, <2>1, UpTo, Zenon
<1>7. q[N] \in Nat
    BY <1>1, <1>3
<1> QED BY <1>6, <1>7 DEF N

\* The first i entries.
First(list, i) == [j \in 1 .. i |-> list[j]]

\* One entry after another.
LEMMA FirstLemma ==
    ASSUME NEW list \in FileLists
    PROVE  /\ First(list, 0) = <<>>
           /\ First(list, Len(list)) = list
           /\ \A i \in 1 .. Len(list) :
                 Append(First(list, i - 1), [id |-> list[i].id, name |-> list[i].name]) = First(list, i)
<1> DEFINE E == [id : Inums, name : Names]
<1>1. list \in Seq(E) /\ Len(list) \in Nat /\ \A i \in 1 .. Len(list) : list[i] \in E
    BY ListType, Zenon DEF FileLists
<1>2. ASSUME NEW i \in 1 .. Len(list)
      PROVE  Append(First(list, i - 1), [id |-> list[i].id, name |-> list[i].name]) = First(list, i)
    <2> DEFINE e == list[i]
    <2>1. e \in E /\ [id |-> e.id, name |-> e.name] = e
        BY <1>1
    <2> HIDE DEF E
    <2>2. First(list, i - 1) \in Seq(E) /\ Len(First(list, i - 1)) = i - 1
        BY <1>1 DEF First
    <2>3. \A j \in 1 .. i - 1 : First(list, i - 1)[j] = list[j]
        BY DEF First
    <2> DEFINE s == First(list, i - 1)
    <2> HIDE DEF s
    <2>4. Append(s, e) \in Seq(E) /\ Len(Append(s, e)) = i
        BY <1>1, <2>1, <2>2 DEF s
    <2>5. \A j \in 1 .. i : Append(s, e)[j] = list[j]
        BY <1>1, <2>1, <2>2, <2>3 DEF s
    <2>6. Append(s, e) = First(list, i)
        BY <2>4, <2>5 DEF First
    <2> QED BY <2>1, <2>6, Zenon DEF s
<1>3. First(list, Len(list)) = list
    <2> HIDE DEF E
    <2> QED BY <1>1 DEF First
<1>4. First(list, 0) = <<>>
    BY DEF First
<1> QED BY <1>2, <1>3, <1>4

\* deserialize reads what serialize has written, although the two compare and advance
\* by bytes.
LEMMA RoundTrip ==
    ASSUME NEW list \in FileLists
    PROVE  deserialize(serialize(list)).ok /\ deserialize(serialize(list)).fl = list
<1> DEFINE N == Len(list)
           buf == serialize(list)
           size == Size(buf)
<1>1. /\ buf[1] = Field(4, N) /\ \A i \in 1 .. N : At(buf, i, list[i])
    BY SerializeLemma, Zenon
<1>2. PICK q \in [0 .. N -> Nat] : Offsets(q, list) /\ size = q[N]
    BY OffsetLemma, Zenon
<1>3. N \in Nat /\ \A i \in 1 .. N : list[i].name.len \in Nat \ {0}
    BY ListType, Zenon
<1>4. /\ q[N] >= N * 12 + 4
      /\ \A i \in 0 .. N : q[i] <= q[N]
      /\ \A i \in 0 .. N : i # N => q[i] < q[N]
    BY <1>2, OffsetsGrow
<1>5. q[0] = 4 /\ \A i \in 1 .. N : q[i] = q[i - 1] + 12 + list[i].name.len
    BY <1>2, Zenon DEF Offsets
<1>6. /\ First(list, 0) = <<>> /\ First(list, N) = list
      /\ \A i \in 1 .. N :
            Append(First(list, i - 1), [id |-> list[i].id, name |-> list[i].name]) = First(list, i)
    BY FirstLemma, Zenon
<1>7. buf[1].v = N
    BY <1>1 DEF Field
<1> DEFINE St(i) == [ok |-> TRUE, p |-> q[i], fl |-> First(list, i)]
<1> HIDE DEF N, buf
<1>8. ASSUME NEW i \in 1 .. N
      PROVE  ReadEntry(buf, St(i - 1), i) = St(i)
    <2> DEFINE w == list[i].name.len
               s == St(i - 1)
               last == IF i = buf[1].v THEN 1 ELSE 0
    <2>1. /\ buf[3 * i - 1] = Field(8, list[i].id) /\ buf[3 * i] = Field(4, w)
          /\ buf[3 * i + 1] = Field(w, list[i].name)
        BY <1>1, Zenon DEF At
    <2>2. buf[3 * i - 1].v = list[i].id /\ buf[3 * i].v = w /\ buf[3 * i + 1].v = list[i].name
        <3> HIDE DEF w
        <3> QED BY <2>1 DEF Field
    <2>3. i - 1 \in 0 .. N /\ i \in 0 .. N
        BY <1>3
    <2>4. /\ w \in Nat \ {0} /\ q[i - 1] \in Nat /\ q[i] \in Nat /\ q[N] \in Nat
          /\ q[i] = q[i - 1] + 12 + w /\ q[i] <= q[N] /\ (i # N => q[i] < q[N])
        BY <1>2, <1>3, <1>4, <1>5, <2>3
    <2>5. /\ ~(q[i - 1] + 8 >= size) /\ ~(q[i - 1] + 8 + 4 >= size)
          /\ ~(q[i - 1] + 8 + 4 + w >= size + last) /\ q[i - 1] + 8 + 4 + w = q[i]
        <3> DEFINE a == q[i - 1]
                   b == q[i]
                   z == q[N]
        <3>1. /\ w \in Nat \ {0} /\ a \in Nat /\ b \in Nat /\ z \in Nat
              /\ b = a + 12 + w /\ b <= z /\ (i # N => b < z) /\ size = z
            BY <1>2, <2>4, Zenon
        <3>2. (i = N => last = 1) /\ (i # N => last = 0)
            BY <1>7, Zenon
        <3> HIDE DEF w, a, b, z, size, last
        <3>3. CASE i = N
            BY <3>1, <3>2, <3>3 DEF a, b
        <3>4. CASE i # N
            BY <3>1, <3>2, <3>4 DEF a, b
        <3> QED BY <3>3, <3>4, Zenon
    <2>6. s.ok /\ s.p = q[i - 1] /\ s.fl = First(list, i - 1)
        OBVIOUS
    <2>7. ReadEntry(buf, s, i) =
             [ok |-> TRUE, p |-> q[i], fl |-> Append(First(list, i - 1), [id |-> list[i].id, name |-> list[i].name])]
        <3> HIDE DEF w, s, last
        <3> QED BY <2>2, <2>5, <2>6, Zenon DEF ReadEntry, last
    <2> QED BY <1>6, <2>7, Zenon
<1> DEFINE start == [ok |-> buf[1].v * 12 + 4 <= Size(buf), p |-> 4, fl |-> <<>>]
           Eq(g) == g = [i \in 0 .. buf[1].v |-> IF i = 0 THEN start ELSE ReadEntry(buf, g[i - 1], i)]
           round == CHOOSE g : Eq(g)
<1>9. deserialize(buf) = round[N]
    BY <1>7 DEF deserialize
<1>10. start = St(0)
    <2>1. N * 12 + 4 <= size
        BY <1>2, <1>3, <1>4
    <2> QED BY <1>5, <1>6, <1>7, <2>1, Zenon
<1> HIDE DEF start, size, St
<1>11. \E g : Eq(g)
    <2> DEFINE g == [i \in 0 .. N |-> St(i)]
    <2>1. ASSUME NEW i \in 0 .. N
          PROVE  g[i] = IF i = 0 THEN start ELSE ReadEntry(buf, g[i - 1], i)
        <3>1. CASE i = 0
            BY <1>10, <3>1
        <3>2. CASE i # 0
            <4>1. i \in 1 .. N /\ i - 1 \in 0 .. N
                BY <1>3, <3>2
            <4>2. g[i] = St(i) /\ g[i - 1] = St(i - 1)
                BY <4>1
            <4> QED BY <1>8, <3>2, <4>1, <4>2, Zenon
        <3> QED BY <3>1, <3>2
    <2>2. Eq(g)
        BY <1>7, <2>1, Zenon
    <2> QED BY <2>2, Zenon
<1>12. Eq(round)
    <2> HIDE DEF Eq
    <2> QED BY <1>11, Zenon
<1> HIDE DEF round
<1>13. round[0] = start /\ \A i \in 1 .. N : round[i] = ReadEntry(buf, round[i - 1], i)
    <2>1. 0 \in 0 .. N /\ \A i \in 1 .. N : i \in 0 .. N /\ i # 0
        BY <1>3
    <2> QED BY <1>7, <1>12, <2>1, Zenon
<1> DEFINE T == {i \in 0 .. N : round[i] = St(i)}
<1>14. 0 \in T
    BY <1>3, <1>10, <1>13
<1>15. ASSUME NEW i \in 1 .. N, i - 1 \in T
       PROVE  i \in T
    <2>1. i \in 0 .. N
        BY <1>3
    <2> QED BY <1>8, <1>13, <1>15, <2>1, Zenon
<1>16. N \in T
    <2> HIDE DEF T
    <2>1. N \in 0 .. N
        BY <1>3
    <2> QED BY <1>3, <1>14, <1>15, <2>1, UpTo, Zenon
<1>17. deserialize(buf) = St(N)
    BY <1>9, <1>16, Zenon
<1> QED BY <1>6, <1>17 DEF St, buf, N

-----------------------------------------------------------------------------
(* The inductive invariants.                                               *)

\* The extent server keeps the root directory as serialize wrote it.
ServerOK ==
    /\ DOMAIN _data \subseteq {Root} \cup Inums
    /\ Root \in DOMAIN _data
    /\ _attr = DOMAIN _data
    /\ \E list \in FileLists : _data[Root] = serialize(list)

\* What is put is a file, or the root directory as serialize writes it.
Storable(e, buf) == e \in Inums \/ (e = Root /\ \E list \in FileLists : buf = serialize(list))

Ops == {"idle", "lookup", "create", "reread", "putdir", "putfile", "getattr"}

RequestOK ==
    /\ op \in [Procs -> Ops]
    /\ name \in [Procs -> Names]
    /\ id \in [Procs -> Inums \cup {NoFile}]
    /\ fl \in [Procs -> FileLists]
    /\ after \in [Procs -> {"lookup", "create"}]
    /\ ops \in [Procs -> 0 .. MaxOps]
    /\ created \subseteq Names
    /\ overlapped \in BOOLEAN /\ stale \in BOOLEAN
    /\ \A c \in Procs : op[c] \in {"putdir", "putfile", "getattr"} => id[c] \in Inums

FailureOK ==
    /\ fails \in 0 .. MaxFail /\ late \in 0 .. MaxLate
    /\ \A d \in ended : Storable(d.e, d.buf)

TypeInv == ServerOK /\ RequestOK /\ FailureOK /\ listing \in [Procs -> Listings]

\* File x is there, or a createfile is about to put it.
Backed(attr, at, ids, x) ==
    x \in attr \/ \E d \in Procs : at[d] = "putfile" /\ ids[d] = x

\* The directory, what a createfile is about to write, and what copies of old puts
\* may still write.
AllBacked(attr, at, ids, list, lists, puts) ==
    /\ \A i \in DOMAIN list : Backed(attr, at, ids, list[i].id)
    /\ \A c \in Procs : at[c] = "putdir" =>
          \A i \in DOMAIN lists[c] :
              Backed(attr, at, ids, lists[c][i].id) \/ lists[c][i].id = ids[c]
    /\ \A d \in puts : d.e = Root =>
          LET old == deserialize(d.buf).fl
          IN  \A i \in DOMAIN old : Backed(attr, at, ids, old[i].id)

BackedOK == fails = 0 => AllBacked(_attr, op, id, Entries, fl, ended)

Alone == ~overlapped => \A c, d \in Procs : Creating(c) /\ Creating(d) => c = d

Distinct(list) == \A i, j \in DOMAIN list : list[i].name = list[j].name => i = j

(***************************************************************************)
(* When creations do not overlap and no old directory is brought back, the *)
(* directory is as createfile has read it until it writes it back, with    *)
(* one entry more for a name that it does not have.                        *)
(***************************************************************************)
CalmAt(list, at, n, x, new) ==
    /\ at \in {"reread", "putdir"} => n \notin NamesOf(list)
    /\ at = "putdir" => new = Append(list, [id |-> x, name |-> n])
    /\ at \in {"putfile", "getattr"} => Find(list, n) = x

CalmOK ==
    ~overlapped /\ ~stale =>
        /\ Distinct(Entries)
        /\ \A c \in Procs : CalmAt(Entries, op[c], name[c], id[c], fl[c])
        /\ \A n \in created : Find(Entries, n) \in _attr

Prefix(s, t) == Len(s) <= Len(t) /\ \A i \in 1 .. Len(s) : s[i] = t[i]

\* What a listing has read so far is the first part of the directory.
ListAt(l, list) ==
    /\ Prefix(l.entries, list)
    /\ l.known \subseteq NamesOf(IF l.open THEN list ELSE l.entries)

ListOK ==
    fails = 0 /\ ~overlapped /\ ~stale => \A c \in Procs : ListAt(listing[c], Entries)

-----------------------------------------------------------------------------
(* Lists of files.                                                         *)

\* What lookup finds: the number of a file, if there is an entry with the name.
LEMMA FindLemma ==
    ASSUME NEW list \in FileLists, NEW n
    PROVE  /\ Find(list, n) \in Inums \cup {NoFile}
           /\ Find(list, n) = NoFile <=> n \notin NamesOf(list)
           /\ n \in NamesOf(list) =>
                 \E i \in DOMAIN list : /\ list[i].name = n /\ Find(list, n) = list[i].id
                                        /\ \A j \in DOMAIN list : list[j].name = n => i <= j
<1> DEFINE I == {i \in DOMAIN list : list[i].name = n}
           m == CHOOSE i \in I : \A j \in I : i <= j
<1>1. /\ Len(list) \in Nat /\ DOMAIN list = 1 .. Len(list)
      /\ \A i \in 1 .. Len(list) : list[i].id \in Inums
    <2> DEFINE E == [id : Inums, name : Names]
    <2>1. list \in Seq(E) /\ Len(list) \in Nat /\ \A i \in 1 .. Len(list) : list[i] \in E
        BY ListType, Zenon DEF FileLists
    <2>2. DOMAIN list = 1 .. Len(list)
        <3> HIDE DEF E
        <3> QED BY <2>1
    <2>3. \A e \in E : e.id \in Inums
        OBVIOUS
    <2> QED BY <2>1, <2>2, <2>3, Zenon
<1>2. Find(list, n) = IF I = {} THEN NoFile ELSE list[m].id
    BY Zenon DEF Find
<1>3. n \in NamesOf(list) <=> I # {}
    BY <1>1, Zenon DEF NamesOf
<1>4. CASE I = {}
    <2>1. Find(list, n) = NoFile
        BY <1>2, <1>4
    <2> QED BY <1>3, <1>4, <2>1, Zenon
<1>5. CASE I # {}
    <2>1. I \in SUBSET Nat
        BY <1>1
    <2>2. \E x \in I : \A y \in I : x <= y
        BY <1>5, <2>1, Least, Zenon
    <2>3. m \in I /\ \A y \in I : m <= y
        <3> HIDE DEF I
        <3> QED BY <2>2, Zenon
    <2> HIDE DEF m
    <2>4. m \in 1 .. Len(list) /\ list[m].name = n
        BY <1>1, <2>3, Zenon
    <2>5. Find(list, n) = list[m].id
        BY <1>2, <1>5, <2>4, Zenon
    <2>6. list[m].id \in Inums /\ list[m].id # NoFile
        BY <1>1, <2>4, YfsAssumption, Zenon
    <2>7. \A j \in DOMAIN list : list[j].name = n => m <= j
        BY <1>1, <2>3, Zenon
    <2> QED BY <1>1, <1>3, <1>5, <2>4, <2>5, <2>6, <2>7, Zenon
<1> QED BY <1>4, <1>5, Zenon

\* An entry more.
LEMMA AppendLemma ==
    ASSUME NEW list \in FileLists, NEW e \in [id : Inums, name : Names]
    PROVE  /\ Append(list, e) \in FileLists
           /\ Len(Append(list, e)) = Len(list) + 1
           /\ \A i \in 1 .. Len(list) : Append(list, e)[i] = list[i]
           /\ Append(list, e)[Len(list) + 1] = e
           /\ DOMAIN list = 1 .. Len(list) /\ DOMAIN Append(list, e) = 1 .. Len(list) + 1
           /\ Len(list) \in Nat
<1> DEFINE E == [id : Inums, name : Names]
<1>1. list \in Seq(E) /\ e \in E
    BY Zenon DEF FileLists
<1> HIDE DEF E
<1>2. /\ Append(list, e) \in Seq(E)
      /\ Len(Append(list, e)) = Len(list) + 1
      /\ \A i \in 1 .. Len(list) : Append(list, e)[i] = list[i]
      /\ Append(list, e)[Len(list) + 1] = e
    BY <1>1
<1>3. /\ DOMAIN list = 1 .. Len(list) /\ DOMAIN Append(list, e) = 1 .. Len(list) + 1
      /\ Len(list) \in Nat
    BY <1>1
<1> QED BY <1>2, <1>3, Zenon DEF FileLists, E

\* An entry more, for a name that the list does not have.
LEMMA NewName ==
    ASSUME NEW list \in FileLists, NEW e \in [id : Inums, name : Names], e.name \notin NamesOf(list)
    PROVE  /\ NamesOf(Append(list, e)) = NamesOf(list) \cup {e.name}
           /\ Distinct(list) => Distinct(Append(list, e))
           /\ Find(Append(list, e), e.name) = e.id
           /\ \A n \in NamesOf(list) : Find(Append(list, e), n) = Find(list, n)
           /\ \A s : Len(s) \in Nat /\ Prefix(s, list) => Prefix(s, Append(list, e))
<1> DEFINE new == Append(list, e)
           N == Len(list)
<1>1. /\ new \in FileLists /\ Len(new) = N + 1
      /\ \A i \in 1 .. N : new[i] = list[i]
      /\ new[N + 1] = e
      /\ DOMAIN list = 1 .. N /\ DOMAIN new = 1 .. N + 1 /\ N \in Nat
    BY AppendLemma
<1> HIDE DEF new, N
<1>2. \A i \in 1 .. N + 1 : i \in 1 .. N \/ i = N + 1
    BY <1>1
<1>3. N + 1 \in 1 .. N + 1 /\ \A i \in 1 .. N : i \in 1 .. N + 1 /\ i # N + 1
    BY <1>1
<1>4. \A i \in 1 .. N : list[i].name # e.name
    BY <1>1, Zenon DEF NamesOf
<1>5. NamesOf(new) = NamesOf(list) \cup {e.name}
    <2>1. ASSUME NEW i \in 1 .. N + 1 PROVE new[i].name \in NamesOf(list) \cup {e.name}
        BY <1>1, <1>2, Zenon DEF NamesOf
    <2>2. ASSUME NEW i \in 1 .. N PROVE list[i].name \in NamesOf(new)
        BY <1>1, <1>3, Zenon DEF NamesOf
    <2>3. e.name \in NamesOf(new)
        BY <1>1, <1>3, Zenon DEF NamesOf
    <2>4. NamesOf(new) \subseteq NamesOf(list) \cup {e.name}
        BY <1>1, <2>1, Zenon DEF NamesOf
    <2>5. NamesOf(list) \subseteq NamesOf(new)
        BY <1>1, <2>2, Zenon DEF NamesOf
    <2> QED BY <2>3, <2>4, <2>5, Zenon
<1>6. ASSUME Distinct(list) PROVE Distinct(new)
    BY <1>1, <1>2, <1>4, <1>6, Zenon DEF Distinct
<1>7. Find(new, e.name) = e.id
    <2>1. PICK i \in DOMAIN new : new[i].name = e.name /\ Find(new, e.name) = new[i].id
        BY <1>1, <1>5, FindLemma
    <2>2. i = N + 1
        BY <1>1, <1>2, <1>4, <2>1, Zenon
    <2> QED BY <1>1, <2>1, <2>2, Zenon
<1>8. ASSUME NEW n \in NamesOf(list) PROVE Find(new, n) = Find(list, n)
    <2>1. PICK i \in DOMAIN list : /\ list[i].name = n /\ Find(list, n) = list[i].id
                                   /\ \A j \in DOMAIN list : list[j].name = n => i <= j
        BY FindLemma
    <2>2. PICK k \in DOMAIN new : /\ new[k].name = n /\ Find(new, n) = new[k].id
                                  /\ \A j \in DOMAIN new : new[j].name = n => k <= j
        BY <1>1, <1>5, FindLemma
    <2>3. i \in DOMAIN new /\ new[i] = list[i] /\ n # e.name
        BY <1>1, <1>3, <1>4, <2>1, Zenon
    <2>4. k \in 1 .. N /\ new[k] = list[k]
        BY <1>1, <1>2, <2>2, <2>3, Zenon
    <2>5. i <= k /\ k <= i
        BY <1>1, <2>1, <2>2, <2>3, <2>4, Zenon
    <2>6. i = k
        BY <1>1, <2>1, <2>4, <2>5
    <2> QED BY <2>1, <2>2, <2>3, <2>6, Zenon
<1>9. ASSUME NEW s, Len(s) \in Nat, Prefix(s, list) PROVE Prefix(s, new)
    <2>1. Len(s) <= N /\ \A i \in 1 .. Len(s) : s[i] = list[i]
        BY <1>9, Zenon DEF Prefix, N
    <2>2. Len(s) <= N + 1 /\ \A i \in 1 .. Len(s) : i \in 1 .. N
        BY <1>1, <1>9, <2>1
    <2> QED BY <1>1, <2>1, <2>2, Zenon DEF Prefix
<1> QED BY <1>5, <1>6, <1>7, <1>8, <1>9, Zenon DEF new

\* A list has as many names as entries when no name is there twice.
LEMMA CountNames ==
    ASSUME NEW list \in FileLists, Distinct(list)
    PROVE  Cardinality(NamesOf(list)) = Len(list)
<1> DEFINE N == Len(list)
           S == NamesOf(list)
           f == [i \in 1 .. N |-> list[i].name]
<1>1. N \in Nat /\ DOMAIN list = 1 .. N
    <2> DEFINE E == [id : Inums, name : Names]
    <2>1. list \in Seq(E)
        BY Zenon DEF FileLists
    <2> HIDE DEF E
    <2> QED BY <2>1
<1> HIDE DEF N
<1>2. f \in [1 .. N -> S] /\ (\A i, j \in 1 .. N : f[i] = f[j] => i = j)
      /\ \A y \in S : \E i \in 1 .. N : f[i] = y
    BY <1>1, Zenon DEF NamesOf, Distinct
<1> HIDE DEF f, S
<1>3. f \in Bijection(1 .. N, S)
    BY <1>2, Zenon DEF Bijection, Injection, Surjection, IsInjective
<1>4. ExistsBijection(1 .. N, S)
    BY <1>3, Zenon DEF ExistsBijection
<1>5. Cardinality(S) = N
    BY <1>1, <1>4, FS_CountingElements, Zenon
<1> QED BY <1>5, Zenon DEF S, N

\* The next part of a listing continues it, and is empty only at its end.
LEMMA PartLemma ==
    ASSUME NEW list \in FileLists, NEW s \in FileLists, NEW m \in 1 .. Part
    PROVE  LET part == reply_buf_limited(list, Len(s), m)
           IN  /\ part \in FileLists /\ s \o part \in FileLists
               /\ part = <<>> => Len(s) >= Len(list) /\ s \o part = s
               /\ Prefix(s, list) => Prefix(s \o part, list)
<1> DEFINE E == [id : Inums, name : Names]
           n == Len(s)
           N == Len(list)
           k == IF N - n < m THEN N - n ELSE m
           part == reply_buf_limited(list, n, m)
<1>1. list \in Seq(E) /\ s \in Seq(E) /\ FileLists = Seq(E)
    BY Zenon DEF FileLists
<1> HIDE DEF E
<1>2. n \in Nat /\ N \in Nat /\ m \in Nat \ {0}
    BY <1>1, YfsAssumption
<1>3. CASE ~(n < N)
    <2>1. part = <<>>
        BY <1>3, Zenon DEF reply_buf_limited
    <2>2. part \in Seq(E) /\ s \o part = s
        BY <1>1, <2>1
    <2>3. n >= N
        BY <1>2, <1>3
    <2> HIDE DEF part
    <2> QED BY <1>1, <2>2, <2>3, Zenon DEF n, N, part
<1>4. CASE n < N
    <2>1. k \in Nat \ {0} /\ n + k <= N
        BY <1>2, <1>4
    <2> HIDE DEF k, n, N
    <2>2. part = SubSeq(list, n + 1, n + k)
        BY <1>4, Zenon DEF reply_buf_limited, k, N
    <2>3. part \in Seq(E) /\ Len(part) = k /\ \A i \in 1 .. k : part[i] = list[n + i]
        <3> HIDE DEF part
        <3>1. n + 1 \in 1 .. N + 1 /\ n + k \in n .. N
            BY <1>2, <2>1
        <3> QED BY <1>1, <1>2, <2>1, <2>2, <3>1 DEF N
    <2> HIDE DEF part
    <2>4. part # <<>>
        BY <2>1, <2>3
    <2>5. s \o part \in Seq(E) /\ Len(s \o part) = n + k
        BY <1>1, <2>3 DEF n
    <2>6. ASSUME Prefix(s, list)
          PROVE  Prefix(s \o part, list)
        <3>1. \A i \in 1 .. n : s[i] = list[i]
            BY <2>6, Zenon DEF Prefix, n
        <3>2. ASSUME NEW i \in 1 .. n + k
              PROVE  (s \o part)[i] = list[i]
            <4>1. CASE i <= n
                <5>1. i \in 1 .. n
                    BY <1>2, <2>1, <4>1
                <5>2. (s \o part)[i] = s[i]
                    BY <1>1, <2>3, <5>1 DEF n
                <5> QED BY <3>1, <5>1, <5>2, Zenon
            <4>2. CASE ~(i <= n)
                <5>1. i - n \in 1 .. k /\ n + (i - n) = i
                    BY <1>2, <2>1, <4>2
                <5>2. (s \o part)[i] = part[i - n]
                    BY <1>1, <1>2, <2>1, <2>3, <4>2 DEF n
                <5> QED BY <2>3, <5>1, <5>2
            <4> QED BY <4>1, <4>2, Zenon
        <3> QED BY <2>1, <2>5, <3>2, Zenon DEF Prefix, N
    <2> QED BY <1>1, <2>3, <2>4, <2>5, <2>6, Zenon DEF n, N, part
<1> QED BY <1>3, <1>4, Zenon

\* A part of a list without a name twice.
LEMMA PrefixDistinct ==
    ASSUME NEW s \in FileLists, NEW list \in FileLists, Prefix(s, list), Distinct(list)
    PROVE  Distinct(s)
<1> DEFINE E == [id : Inums, name : Names]
<1>1. list \in Seq(E) /\ s \in Seq(E)
    BY Zenon DEF FileLists
<1> HIDE DEF E
<1>2. /\ DOMAIN s = 1 .. Len(s) /\ DOMAIN list = 1 .. Len(list)
      /\ Len(s) \in Nat /\ Len(list) \in Nat
    BY <1>1
<1>3. Len(s) <= Len(list) /\ \A i \in 1 .. Len(s) : s[i] = list[i]
    BY Zenon DEF Prefix
<1>4. \A i \in DOMAIN s : i \in DOMAIN list /\ s[i] = list[i]
    BY <1>2, <1>3
<1> QED BY <1>4, Zenon DEF Distinct

-----------------------------------------------------------------------------
(* Types.                                                                  *)

\* What the server keeps reads back.
LEMMA DirLemma ==
    ASSUME NEW buf, \E list \in FileLists : buf = serialize(list)
    PROVE  /\ deserialize(buf).ok
           /\ deserialize(buf).fl \in FileLists
           /\ buf = serialize(deserialize(buf).fl)
BY RoundTrip, Zenon

\* What extent_server::put does.
LEMMA PutLemma ==
    ASSUME ServerOK, NEW e, NEW buf, Storable(e, buf), Put(e, buf)
    PROVE  /\ ServerOK'
           /\ _attr' = _attr \cup {e}
           /\ e \in Inums => _data'[Root] = _data[Root]
           /\ e = Root => _data'[Root] = buf
<1>1. /\ DOMAIN _data' = DOMAIN _data \cup {e} /\ _attr' = _attr \cup {e}
      /\ \A f \in DOMAIN _data \cup {e} : _data'[f] = IF f = e THEN buf ELSE _data[f]
    BY Zenon DEF Put
<1>2. Root \in DOMAIN _data \cup {e} /\ e \in {Root} \cup Inums
    BY Zenon DEF ServerOK, Storable
<1>3. e \in Inums => e # Root
    BY YfsAssumption, Zenon
<1>4. /\ e \in Inums => _data'[Root] = _data[Root]
      /\ e = Root => _data'[Root] = buf
    BY <1>1, <1>2, <1>3, Zenon
<1>5. \E list \in FileLists : _data'[Root] = serialize(list)
    BY <1>3, <1>4, Zenon DEF ServerOK, Storable
<1>6. DOMAIN _data' \subseteq {Root} \cup Inums /\ Root \in DOMAIN _data' /\ _attr' = DOMAIN _data'
    BY <1>1, <1>2, Zenon DEF ServerOK
<1> QED BY <1>1, <1>4, <1>5, <1>6, Zenon DEF ServerOK

\* The puts of createfile.
LEMMA PutOfLemma ==
    ASSUME TypeInv, NEW c \in Procs, op[c] \in {"putdir", "putfile"}
    PROVE  /\ Storable(PutOf(c).e, PutOf(c).buf)
           /\ op[c] = "putdir" => PutOf(c).e = Root /\ PutOf(c).buf = serialize(fl[c])
           /\ op[c] = "putfile" => PutOf(c).e = id[c]
           /\ fl[c] \in FileLists /\ id[c] \in Inums
<1>1. fl[c] \in FileLists /\ id[c] \in Inums
    BY Zenon DEF TypeInv, RequestOK
<1>2. CASE op[c] = "putdir"
    <2>1. PutOf(c).e = Root /\ PutOf(c).buf = serialize(fl[c])
        BY <1>2 DEF PutOf
    <2> QED BY <1>1, <1>2, <2>1, Zenon DEF Storable
<1>3. CASE op[c] = "putfile"
    <2>1. PutOf(c).e = id[c]
        BY <1>3 DEF PutOf
    <2> QED BY <1>1, <1>3, <2>1, Zenon DEF Storable
<1> QED BY <1>2, <1>3, Zenon

\* Whatever is put, and however late, the server keeps a directory under Root.
LEMMA ServerStep ==
    ASSUME TypeInv, [Next]_vars
    PROVE  ServerOK'
<1> USE DEF TypeInv
<1>1. ASSUME _data' = _data, _attr' = _attr PROVE ServerOK'
    BY <1>1, Zenon DEF ServerOK
<1>2. CASE UNCHANGED server
    BY <1>1, <1>2, Zenon DEF server
<1>3. ASSUME NEW c \in Procs, PutDir(c)
      PROVE  ServerOK'
    <2>1. Put(Root, serialize(fl[c]))
        BY <1>3, Zenon DEF PutDir
    <2>2. Storable(Root, serialize(fl[c]))
        BY Zenon DEF RequestOK, Storable
    <2> QED BY <2>1, <2>2, PutLemma, Zenon
<1>4. ASSUME NEW c \in Procs, PutFile(c)
      PROVE  ServerOK'
    <2>1. op[c] = "putfile" /\ Put(id[c], EmptyFile)
        BY <1>4, Zenon DEF PutFile
    <2>2. Storable(id[c], EmptyFile)
        BY <2>1, Zenon DEF RequestOK, Storable
    <2> QED BY <2>1, <2>2, PutLemma, Zenon
<1>5. ASSUME NEW c \in Procs, Fail(c), ~UNCHANGED server
      PROVE  ServerOK'
    <2>1. op[c] \in {"putdir", "putfile"} /\ Put(PutOf(c).e, PutOf(c).buf)
        BY <1>5, Zenon DEF Fail
    <2>2. Storable(PutOf(c).e, PutOf(c).buf)
        BY <2>1, PutOfLemma, Zenon
    <2> QED BY <2>1, <2>2, PutLemma, Zenon
<1>6. ASSUME NEW d \in ended, LatePut(d)
      PROVE  ServerOK'
    <2>1. Storable(d.e, d.buf) /\ Put(d.e, d.buf)
        BY <1>6, Zenon DEF LatePut, FailureOK
    <2> QED BY <2>1, PutLemma, Zenon
<1>7. ASSUME NEW c \in Procs, Step(c), ~PutDir(c), ~PutFile(c), ~Fail(c)
      PROVE  UNCHANGED server
    BY <1>7, Zenon
    DEF Step, Request, Lookup, ReRead, GetAttr, OpenDir, ReadDir, FailReadDir
<1>8. CASE UNCHANGED vars
    BY <1>2, <1>8, Zenon DEF vars, server
<1>9. CASE \E c \in Procs : Step(c)
    BY <1>2, <1>3, <1>4, <1>5, <1>7, <1>9, Zenon
<1>10. CASE \E d \in ended : LatePut(d)
    BY <1>6, <1>10, Zenon
<1> QED BY <1>8, <1>9, <1>10, Zenon DEF Next

\* No step takes the local variables of a request out of their types.
LEMMA RequestStep ==
    ASSUME TypeInv, [Next]_vars
    PROVE  RequestOK'
<1>1. readdir.ok /\ readdir.fl \in FileLists
    BY DirLemma, Zenon DEF TypeInv, ServerOK, readdir
<1>2. RequestOK
    BY Zenon DEF TypeInv
<1>3. ASSUME NEW c \in Procs, NEW n \in Names, NEW kind \in {"lookup", "create"}, Request(c, kind, n)
      PROVE  RequestOK'
    <2>1. ops' \in [Procs -> 0 .. MaxOps]
        BY <1>2, <1>3, YfsAssumption DEF RequestOK, Request
    <2>2. overlapped' \in BOOLEAN /\ stale' \in BOOLEAN
        BY <1>2, <1>3, Zenon DEF Request, RequestOK
    <2>3. name' \in [Procs -> Names] /\ op' \in [Procs -> Ops]
        BY <1>2, <1>3 DEF RequestOK, Request, Goto, Ops
    <2>4. \A d \in Procs : op'[d] \in {"putdir", "putfile", "getattr"} => op'[d] = op[d]
        BY <1>2, <1>3 DEF RequestOK, Request, Goto
    <2>5. UNCHANGED <<id, fl, after, created>>
        BY <1>3, Zenon DEF Request
    <2> QED BY <1>2, <2>1, <2>2, <2>3, <2>4, <2>5, Zenon DEF RequestOK
<1>4. ASSUME NEW c \in Procs, Lookup(c)
      PROVE  RequestOK'
    <2> DEFINE found == Find(readdir.fl, name[c])
               p == AfterLookup(op[c], TRUE, found)
    <2>1. /\ op[c] \in {"lookup", "create"} /\ id' = [id EXCEPT ![c] = found]
          /\ after' = [after EXCEPT ![c] = op[c]] /\ op' = [op EXCEPT ![c] = p]
          /\ UNCHANGED <<name, fl, ops, created, overlapped, stale>>
        BY <1>1, <1>4 DEF Lookup, Goto, history
    <2>2. found \in Inums \cup {NoFile}
        BY <1>1, FindLemma, Zenon
    <2> HIDE DEF found
    <2>3. p \in Ops /\ (p = "getattr" => found # NoFile) /\ p \notin {"putdir", "putfile"}
        BY DEF AfterLookup, Ops
    <2> HIDE DEF p
    <2> QED BY <1>2, <2>1, <2>2, <2>3 DEF RequestOK
<1>5. ASSUME NEW c \in Procs, ReRead(c)
      PROVE  RequestOK'
    <2>1. PICK i \in Inums :
              /\ id' = [id EXCEPT ![c] = i]
              /\ fl' = [fl EXCEPT ![c] = Append(readdir.fl, [id |-> i, name |-> name[c]])]
              /\ op' = [op EXCEPT ![c] = IF readdir.ok THEN "putdir" ELSE "idle"]
        BY <1>5, Zenon DEF ReRead, Goto
    <2>2. UNCHANGED <<name, after, ops, created, overlapped, stale>>
        BY <1>5, Zenon DEF ReRead, history
    <2>3. [id |-> i, name |-> name[c]] \in [id : Inums, name : Names]
        BY <1>2 DEF RequestOK
    <2>4. Append(readdir.fl, [id |-> i, name |-> name[c]]) \in FileLists
        BY <1>1, <2>3, AppendLemma, Zenon
    <2>5. fl' \in [Procs -> FileLists]
        BY <1>2, <2>1, <2>4, Zenon DEF RequestOK
    <2>6. op' = [op EXCEPT ![c] = "putdir"]
        BY <1>1, <2>1, Zenon
    <2> QED BY <1>2, <2>1, <2>2, <2>5, <2>6 DEF RequestOK, Ops
<1>6. ASSUME NEW c \in Procs, NEW p \in {"idle", "putfile", "getattr"}, Goto(c, p),
             p # "idle" => op[c] \in {"putdir", "putfile"},
             UNCHANGED <<name, id, fl, after, ops, overlapped, stale>>, created' \subseteq Names
      PROVE  RequestOK'
    BY <1>2, <1>6 DEF RequestOK, Goto, Ops
<1>7. ASSUME NEW c \in Procs, PutDir(c) \/ PutFile(c) \/ Fail(c)
      PROVE  RequestOK'
    <2>1. created' \subseteq Names
        BY <1>2, <1>7, Zenon DEF PutDir, PutFile, Fail, history, RequestOK
    <2> QED BY <1>6, <1>7, <2>1, Zenon DEF PutDir, PutFile, Fail, request, history
<1>8. ASSUME NEW c \in Procs, GetAttr(c)
      PROVE  RequestOK'
    <2>1. created' \subseteq Names
        BY <1>2, <1>8, Zenon DEF GetAttr, RequestOK
    <2> QED BY <1>6, <1>8, <2>1, Zenon DEF GetAttr, request
<1>9. ASSUME NEW c \in Procs, OpenDir(c)
      PROVE  RequestOK'
    <2>1. ops' \in [Procs -> 0 .. MaxOps]
        BY <1>2, <1>9, YfsAssumption DEF RequestOK, OpenDir
    <2> QED BY <1>2, <1>9, <2>1, Zenon DEF RequestOK, OpenDir, request, history
<1>10. ASSUME UNCHANGED <<op, request, ops, history>>
       PROVE  RequestOK'
    BY <1>2, <1>10, Zenon DEF RequestOK, request, history
<1>11. ASSUME NEW c \in Procs, ReadDir(c) \/ FailReadDir(c)
       PROVE  RequestOK'
    BY <1>10, <1>11, Zenon DEF ReadDir, FailReadDir
<1>12. CASE UNCHANGED vars
    BY <1>10, <1>12, Zenon DEF vars
<1>13. ASSUME NEW d \in ended, LatePut(d)
       PROVE  RequestOK'
    <2>1. stale' \in BOOLEAN
        BY <1>13, Zenon DEF LatePut
    <2> QED BY <1>2, <1>13, <2>1, Zenon DEF LatePut, RequestOK, request
<1> QED
    BY <1>3, <1>4, <1>5, <1>7, <1>8, <1>9, <1>11, <1>12, <1>13, Zenon DEF Next, Step

\* The bounds hold, and what copies may put can be put.
LEMMA FailureStep ==
    ASSUME TypeInv, [Next]_vars
    PROVE  FailureOK'
<1>1. FailureOK
    BY Zenon DEF TypeInv
<1>2. CASE UNCHANGED failure
    BY <1>1, <1>2, Zenon DEF FailureOK, failure
<1>3. ASSUME NEW c \in Procs, op[c] \in {"putdir", "putfile"}, EndPut(c)
      PROVE  \A d \in ended' : Storable(d.e, d.buf)
    <2>1. Storable(PutOf(c).e, PutOf(c).buf)
        BY <1>3, PutOfLemma, Zenon
    <2> QED BY <1>1, <1>3, <2>1, Zenon DEF EndPut, FailureOK
<1>4. ASSUME NEW c \in Procs, PutDir(c) \/ PutFile(c)
      PROVE  FailureOK'
    <2>1. op[c] \in {"putdir", "putfile"} /\ EndPut(c) /\ fails' = fails /\ late' = late
        BY <1>4, Zenon DEF PutDir, PutFile
    <2>2. \A d \in ended' : Storable(d.e, d.buf)
        BY <1>3, <2>1, Zenon
    <2> QED BY <1>1, <2>1, <2>2, Zenon DEF FailureOK, Storable
<1>5. ASSUME NEW c \in Procs, Fail(c)
      PROVE  FailureOK'
    <2>1. fails < MaxFail /\ fails' = fails + 1 /\ late' = late
        BY <1>5, Zenon DEF Fail
    <2>2. fails' \in 0 .. MaxFail
        BY <1>1, <2>1, YfsAssumption DEF FailureOK
    <2>3. ended' = ended \/ (op[c] \in {"putdir", "putfile"} /\ EndPut(c))
        BY <1>5, Zenon DEF Fail
    <2>4. \A d \in ended' : Storable(d.e, d.buf)
        BY <1>1, <1>3, <2>3, Zenon DEF FailureOK
    <2> QED BY <1>1, <2>1, <2>2, <2>4, Zenon DEF FailureOK, Storable
<1>6. ASSUME NEW d \in ended, LatePut(d)
      PROVE  FailureOK'
    <2>1. late < MaxLate /\ late' = late + 1 /\ fails' = fails /\ ended' = ended
        BY <1>6, Zenon DEF LatePut
    <2>2. late' \in 0 .. MaxLate
        BY <1>1, <2>1, YfsAssumption DEF FailureOK
    <2> QED BY <1>1, <2>1, <2>2, Zenon DEF FailureOK, Storable
<1>7. ASSUME NEW c \in Procs, FailReadDir(c)
      PROVE  FailureOK'
    <2>1. fails < MaxFail /\ fails' = fails + 1 /\ late' = late /\ ended' = ended
        BY <1>7, Zenon DEF FailReadDir
    <2>2. fails' \in 0 .. MaxFail
        BY <1>1, <2>1, YfsAssumption DEF FailureOK
    <2> QED BY <1>1, <2>1, <2>2, Zenon DEF FailureOK, Storable
<1>8. ASSUME NEW c \in Procs, Step(c), ~PutDir(c), ~PutFile(c), ~Fail(c), ~FailReadDir(c)
      PROVE  UNCHANGED failure
    BY <1>8, Zenon DEF Step, Request, Lookup, ReRead, GetAttr, OpenDir, ReadDir
<1>9. CASE UNCHANGED vars
    BY <1>2, <1>9, Zenon DEF vars
<1> QED BY <1>2, <1>4, <1>5, <1>6, <1>7, <1>8, <1>9, Zenon DEF Next

\* The kernel's listings keep their type.
LEMMA ListingStep ==
    ASSUME TypeInv, [Next]_vars
    PROVE  listing' \in [Procs -> Listings]
<1>1. readdir.ok /\ readdir.fl \in FileLists
    BY DirLemma, Zenon DEF TypeInv, ServerOK, readdir
<1>2. listing \in [Procs -> Listings] /\ created \subseteq Names
    BY Zenon DEF TypeInv, RequestOK
<1>3. <<>> \in FileLists
    BY DEF FileLists
<1>4. ASSUME NEW c \in Procs, NEW part, listing[c].entries \o part \in FileLists, GotPart(c, part)
      PROVE  listing' \in [Procs -> Listings]
    <2> DEFINE l == [open |-> part # <<>>, entries |-> listing[c].entries \o part, known |-> listing[c].known]
    <2>1. listing[c] \in Listings
        BY <1>2
    <2>2. listing[c].known \in SUBSET Names
        BY <2>1 DEF Listings
    <2>3. l \in Listings
        BY <1>4, <2>2 DEF Listings
    <2>4. listing' = [listing EXCEPT ![c] = l]
        BY <1>4, Zenon DEF GotPart
    <2> HIDE DEF l
    <2> QED BY <1>2, <2>3, <2>4
<1>5. ASSUME NEW c \in Procs PROVE listing[c].entries \in FileLists
    <2>1. listing[c] \in Listings
        BY <1>2
    <2> QED BY <2>1 DEF Listings
<1>6. ASSUME NEW c \in Procs, ReadDir(c)
      PROVE  listing' \in [Procs -> Listings]
    <2>1. PICK k \in 1 .. Part : GotPart(c, reply_buf_limited(readdir.fl, Len(listing[c].entries), k))
        BY <1>1, <1>6, Zenon DEF ReadDir
    <2>2. listing[c].entries \o reply_buf_limited(readdir.fl, Len(listing[c].entries), k) \in FileLists
        BY <1>1, <1>5, PartLemma
    <2> QED BY <1>4, <2>1, <2>2, Zenon
<1>7. ASSUME NEW c \in Procs, FailReadDir(c)
      PROVE  listing' \in [Procs -> Listings]
    <2>1. GotPart(c, <<>>)
        BY <1>7, Zenon DEF FailReadDir
    <2>2. listing[c].entries \o <<>> \in FileLists
        <3> DEFINE E == [id : Inums, name : Names]
        <3>1. listing[c].entries \in Seq(E) /\ FileLists = Seq(E)
            BY <1>5, Zenon DEF FileLists
        <3> HIDE DEF E
        <3> QED BY <3>1
    <2> QED BY <1>4, <2>1, <2>2, Zenon
<1>8. ASSUME NEW c \in Procs, OpenDir(c)
      PROVE  listing' \in [Procs -> Listings]
    <2> DEFINE l == [open |-> TRUE, entries |-> <<>>, known |-> created]
    <2>1. l \in Listings
        BY <1>2, <1>3 DEF Listings
    <2>2. listing' = [listing EXCEPT ![c] = l]
        BY <1>8, Zenon DEF OpenDir
    <2> HIDE DEF l
    <2> QED BY <1>2, <2>1, <2>2
<1>9. ASSUME NEW c \in Procs, Step(c), ~OpenDir(c), ~ReadDir(c), ~FailReadDir(c)
      PROVE  UNCHANGED listing
    BY <1>9, Zenon DEF Step, Request, Lookup, ReRead, PutDir, PutFile, GetAttr, Fail
<1>10. CASE (\E d \in ended : LatePut(d)) \/ UNCHANGED vars
    BY <1>2, <1>10, Zenon DEF LatePut, vars
<1> QED BY <1>2, <1>6, <1>7, <1>8, <1>9, <1>10, Zenon DEF Next

\* TypeInv holds when the extent server starts.
LEMMA TypeInvInit == Init => TypeInv
<1> SUFFICES ASSUME Init
             PROVE  TypeInv
    OBVIOUS
<1>1. <<>> \in FileLists
    BY DEF FileLists
<1>2. /\ DOMAIN _data = {Root} /\ _data[Root] = serialize(<<>>) /\ _attr = {Root}
    BY Zenon DEF Init
<1>3. ServerOK
    BY <1>1, <1>2, Zenon DEF ServerOK
<1>4. (CHOOSE n \in Names : TRUE) \in Names
    BY YfsAssumption, Zenon
<1>5. name \in [Procs -> Names]
    BY <1>4, Zenon DEF Init
<1>6. /\ op \in [Procs -> Ops] /\ id \in [Procs -> Inums \cup {NoFile}]
      /\ after \in [Procs -> {"lookup", "create"}] /\ ops \in [Procs -> 0 .. MaxOps]
    BY YfsAssumption DEF Init, Ops
<1>7. fl \in [Procs -> FileLists]
    BY <1>1, Zenon DEF Init
<1>8. created \subseteq Names /\ overlapped \in BOOLEAN /\ stale \in BOOLEAN /\ \A c \in Procs : op[c] = "idle"
    BY Zenon DEF Init
<1>9. RequestOK
    BY <1>5, <1>6, <1>7, <1>8 DEF RequestOK
<1>10. FailureOK
    BY YfsAssumption DEF Init, FailureOK
<1>11. listing \in [Procs -> Listings]
    BY <1>1 DEF Init, Listings
<1> QED BY <1>3, <1>9, <1>10, <1>11, Zenon DEF TypeInv

\* Every step keeps TypeInv.
LEMMA TypeInvStep ==
    ASSUME TypeInv, [Next]_vars
    PROVE  TypeInv'
BY ServerStep, RequestStep, FailureStep, ListingStep, Zenon DEF TypeInv

(***************************************************************************)
(* Whatever fails, is put late or overlaps: what the extent server keeps   *)
(* under the number of the root directory always reads back as a directory *)
(* with files in it, and every extent has attributes.                      *)
(***************************************************************************)
THEOREM YfsTypeCorrect == Spec => []YfsTypeOK
<1>1. TypeInv => YfsTypeOK
    <2> SUFFICES ASSUME TypeInv
                 PROVE  YfsTypeOK
        OBVIOUS
    <2>1. deserialize(_data[Root]).ok /\ deserialize(_data[Root]).fl \in FileLists
        BY DirLemma, Zenon DEF TypeInv, ServerOK
    <2> QED
        BY <2>1, Zenon DEF YfsTypeOK, TypeInv, ServerOK, RequestOK, FailureOK, Ops
<1>2. TypeInv /\ [Next]_vars => TypeInv'
    BY TypeInvStep
<1> QED BY <1>1, <1>2, TypeInvInit, PTL DEF Spec

\* The empty directory.
LEMMA EmptyDir ==
    ASSUME Init
    PROVE  Entries = <<>> /\ <<>> \in FileLists /\ NamesOf(<<>>) = {}
<1>1. <<>> \in FileLists /\ DOMAIN <<>> = {}
    BY DEF FileLists
<1>2. _data[Root] = serialize(<<>>)
    BY DEF Init
<1>3. Entries = <<>>
    BY <1>1, <1>2, RoundTrip, Zenon DEF Entries, readdir
<1> QED BY <1>1, <1>3, Zenon DEF NamesOf

-----------------------------------------------------------------------------
(* Entries and files.                                                      *)

\* Without failures, a step is one of a process or a copy of an old put.
LEMMA NoFailures ==
    ASSUME TypeInv, [Next]_vars, fails' = 0
    PROVE  /\ fails = 0
           /\ \/ UNCHANGED vars
              \/ \E c \in Procs : Step(c) /\ ~Fail(c) /\ ~FailReadDir(c)
              \/ \E d \in ended : LatePut(d)
<1>1. fails \in Nat
    BY YfsAssumption DEF TypeInv, FailureOK
<1>2. ASSUME NEW c \in Procs, Fail(c) \/ FailReadDir(c) PROVE FALSE
    <2>1. fails' = fails + 1
        BY <1>2, Zenon DEF Fail, FailReadDir
    <2> QED BY <1>1, <2>1
<1>3. CASE UNCHANGED vars
    <2>1. fails' = fails
        BY <1>3, Zenon DEF vars, failure
    <2> QED BY <1>3, <2>1, Zenon
<1>4. ASSUME NEW c \in Procs, Step(c) PROVE fails' = fails
    BY <1>2, <1>4, Zenon
    DEF Step, Request, Lookup, ReRead, PutDir, PutFile, GetAttr, OpenDir, ReadDir, failure
<1>5. CASE \E d \in ended : LatePut(d)
    <2>1. fails' = fails
        BY <1>5, Zenon DEF LatePut
    <2> QED BY <1>5, <2>1, Zenon
<1>6. CASE \E c \in Procs : Step(c)
    <2>1. fails = 0
        BY <1>4, <1>6, Zenon
    <2> QED BY <1>2, <1>6, <2>1, Zenon
<1> QED BY <1>3, <1>5, <1>6, Zenon DEF Next

\* An entry keeps its file, and one that is to be put is put.
LEMMA BackedStep ==
    ASSUME TypeInv, BackedOK, [Next]_vars
    PROVE  BackedOK'
<1> SUFFICES ASSUME fails' = 0
             PROVE  AllBacked(_attr', op', id', Entries', fl', ended')
    BY Zenon DEF BackedOK
<1>1. /\ fails = 0
      /\ \/ UNCHANGED vars
         \/ \E c \in Procs : Step(c) /\ ~Fail(c) /\ ~FailReadDir(c)
         \/ \E d \in ended : LatePut(d)
    BY NoFailures, Zenon
<1>2. /\ \A i \in DOMAIN Entries : Backed(_attr, op, id, Entries[i].id)
      /\ \A c \in Procs : op[c] = "putdir" =>
            \A i \in DOMAIN fl[c] : Backed(_attr, op, id, fl[c][i].id) \/ fl[c][i].id = id[c]
      /\ \A d \in ended : d.e = Root =>
            \A i \in DOMAIN deserialize(d.buf).fl : Backed(_attr, op, id, deserialize(d.buf).fl[i].id)
    BY <1>1, Zenon DEF BackedOK, AllBacked
<1>3. /\ readdir.ok /\ Entries \in FileLists /\ op \in [Procs -> Ops] /\ RequestOK
    BY DirLemma, Zenon DEF TypeInv, ServerOK, RequestOK, readdir, Entries
<1>4. ASSUME UNCHANGED <<_data, _attr, op, id, fl, ended>>
      PROVE  AllBacked(_attr', op', id', Entries', fl', ended')
    <2>1. Entries' = Entries
        BY <1>4, Zenon DEF Entries, readdir
    <2> QED BY <1>2, <1>4, <2>1, Zenon DEF AllBacked
<1>5. CASE UNCHANGED vars
    BY <1>4, <1>5, Zenon DEF vars, server, request, failure
<1>6. ASSUME NEW c \in Procs, NEW p, op' = [op EXCEPT ![c] = p],
             \A d \in Procs : d # c => id'[d] = id[d],
             \A x \in _attr : x \in _attr',
             op[c] = "putfile" => id[c] \in _attr'
      PROVE  \A x : Backed(_attr, op, id, x) => Backed(_attr', op', id', x)
    <2>1. \A d \in Procs : d # c => op'[d] = op[d]
        BY <1>3, <1>6, Zenon
    <2> QED BY <1>6, <2>1, Zenon DEF Backed
<1>7. ASSUME NEW c \in Procs, NEW p, op' = [op EXCEPT ![c] = p], p # "putdir",
             \A d \in Procs : d # c => id'[d] = id[d], fl' = fl, _data'[Root] = _data[Root],
             \A d \in ended' : d \in ended \/ d.e # Root,
             \A x : Backed(_attr, op, id, x) => Backed(_attr', op', id', x)
      PROVE  AllBacked(_attr', op', id', Entries', fl', ended')
    <2>1. Entries' = Entries
        BY <1>7, Zenon DEF Entries, readdir
    <2>2. op'[c] = p /\ \A d \in Procs : d # c => op'[d] = op[d]
        BY <1>3, <1>7, Zenon
    <2> QED BY <1>2, <1>7, <2>1, <2>2, Zenon DEF AllBacked
<1>8. ASSUME NEW c \in Procs, OpenDir(c) \/ ReadDir(c)
      PROVE  UNCHANGED <<_data, _attr, op, id, fl, ended>>
    BY <1>8, Zenon DEF OpenDir, ReadDir, server, request, failure
<1>9. ASSUME NEW c \in Procs, NEW n \in Names, NEW kind \in {"lookup", "create"}, Request(c, kind, n)
      PROVE  AllBacked(_attr', op', id', Entries', fl', ended')
    <2>1. /\ op' = [op EXCEPT ![c] = kind] /\ op[c] # "putfile" /\ kind # "putdir"
          /\ id' = id /\ fl' = fl /\ _data' = _data /\ _attr' = _attr /\ ended' = ended
        BY <1>9 DEF Request, Goto, server, failure
    <2>2. \A x : Backed(_attr, op, id, x) => Backed(_attr', op', id', x)
        BY <1>6, <2>1, Zenon
    <2> QED BY <1>7, <2>1, <2>2, Zenon
<1>10. ASSUME NEW c \in Procs, Lookup(c)
       PROVE  AllBacked(_attr', op', id', Entries', fl', ended')
    <2>1. PICK p, x : /\ op' = [op EXCEPT ![c] = p] /\ op[c] # "putfile" /\ p # "putdir"
                      /\ id' = [id EXCEPT ![c] = x] /\ fl' = fl /\ _data' = _data /\ _attr' = _attr
                      /\ ended' = ended
        <3> DEFINE x == IF readdir.ok THEN Find(readdir.fl, name[c]) ELSE NoFile
                   p == AfterLookup(op[c], readdir.ok, x)
        <3>1. p # "putdir"
            <4> HIDE DEF x
            <4> QED BY DEF AfterLookup
        <3>2. op[c] # "putfile"
            BY <1>10 DEF Lookup
        <3>3. /\ op' = [op EXCEPT ![c] = p]
              /\ id' = [id EXCEPT ![c] = x] /\ fl' = fl /\ _data' = _data /\ _attr' = _attr
              /\ ended' = ended
            BY <1>10, Zenon DEF Lookup, Goto, server, failure
        <3> QED BY <3>1, <3>2, <3>3, Zenon
    <2>2. \A d \in Procs : d # c => id'[d] = id[d]
        BY <1>3, <2>1, Zenon DEF RequestOK
    <2>3. \A y : Backed(_attr, op, id, y) => Backed(_attr', op', id', y)
        BY <1>6, <2>1, <2>2, Zenon
    <2> QED BY <1>7, <2>1, <2>2, <2>3, Zenon
<1>11. ASSUME NEW c \in Procs, ReRead(c)
       PROVE  AllBacked(_attr', op', id', Entries', fl', ended')
    <2>1. PICK x \in Inums :
              /\ id' = [id EXCEPT ![c] = x]
              /\ fl' = [fl EXCEPT ![c] = Append(Entries, [id |-> x, name |-> name[c]])]
              /\ op' = [op EXCEPT ![c] = "putdir"]
        BY <1>3, <1>11, Zenon DEF ReRead, Goto, Entries
    <2>2. op[c] # "putfile" /\ _data' = _data /\ _attr' = _attr /\ ended' = ended
        BY <1>11 DEF ReRead, server, failure
    <2>3. \A d \in Procs : d # c => id'[d] = id[d] /\ fl'[d] = fl[d] /\ op'[d] = op[d]
        BY <1>3, <2>1, Zenon DEF RequestOK
    <2>4. \A y : Backed(_attr, op, id, y) => Backed(_attr', op', id', y)
        BY <1>6, <2>1, <2>2, <2>3, Zenon
    <2>5. Entries' = Entries
        BY <2>2, Zenon DEF Entries, readdir
    <2> DEFINE e == [id |-> x, name |-> name[c]]
    <2>6. e \in [id : Inums, name : Names] /\ e.id = x
        BY <1>3 DEF RequestOK
    <2>7. fl'[c] = Append(Entries, e) /\ id'[c] = x
        BY <1>3, <2>1, Zenon DEF RequestOK
    <2> HIDE DEF e
    <2>8. ASSUME NEW i \in DOMAIN fl'[c]
          PROVE  Backed(_attr', op', id', fl'[c][i].id) \/ fl'[c][i].id = id'[c]
        <3>1. /\ \A j \in 1 .. Len(Entries) : Append(Entries, e)[j] = Entries[j]
              /\ Append(Entries, e)[Len(Entries) + 1] = e
              /\ DOMAIN Entries = 1 .. Len(Entries)
              /\ DOMAIN Append(Entries, e) = 1 .. Len(Entries) + 1
              /\ Len(Entries) \in Nat
            BY <1>3, <2>6, AppendLemma, Zenon
        <3>2. i \in 1 .. Len(Entries) \/ i = Len(Entries) + 1
            BY <2>7, <3>1
        <3> QED BY <1>2, <2>4, <2>6, <2>7, <3>1, <3>2, Zenon
    <2>9. \A d \in Procs : op'[d] = "putdir" =>
              \A i \in DOMAIN fl'[d] : Backed(_attr', op', id', fl'[d][i].id) \/ fl'[d][i].id = id'[d]
        BY <1>2, <2>3, <2>4, <2>8, Zenon
    <2>10. \A i \in DOMAIN Entries' : Backed(_attr', op', id', Entries'[i].id)
        BY <1>2, <2>4, <2>5, Zenon
    <2>11. \A d \in ended' : d.e = Root =>
              \A i \in DOMAIN deserialize(d.buf).fl : Backed(_attr', op', id', deserialize(d.buf).fl[i].id)
        BY <1>2, <2>2, <2>4, Zenon
    <2> QED BY <2>9, <2>10, <2>11, Zenon DEF AllBacked
<1>12. ASSUME NEW c \in Procs, PutDir(c)
       PROVE  AllBacked(_attr', op', id', Entries', fl', ended')
    <2>1. /\ op' = [op EXCEPT ![c] = "putfile"] /\ op[c] = "putdir"
          /\ id' = id /\ fl' = fl /\ Put(Root, serialize(fl[c])) /\ ended' = ended \cup {PutOf(c)}
        BY <1>12, Zenon DEF PutDir, Goto, request, EndPut
    <2>2. fl[c] \in FileLists /\ Storable(Root, serialize(fl[c]))
        BY <1>3, Zenon DEF RequestOK, Storable
    <2>3. _data'[Root] = serialize(fl[c]) /\ _attr' = _attr \cup {Root}
        BY <2>1, <2>2, PutLemma, Zenon DEF TypeInv
    <2>4. Entries' = fl[c]
        BY <2>2, <2>3, RoundTrip, Zenon DEF Entries, readdir
    <2>5. \A y : Backed(_attr, op, id, y) => Backed(_attr', op', id', y)
        <3>1. op[c] # "putfile"
            BY <2>1
        <3> QED BY <1>6, <2>1, <2>3, <3>1, Zenon
    <2>6. Backed(_attr', op', id', id[c])
        <3>1. op'[c] = "putfile"
            BY <1>3, <2>1, Zenon
        <3> QED BY <2>1, <3>1, Zenon DEF Backed
    <2>7. op'[c] # "putdir" /\ \A d \in Procs : d # c => op'[d] = op[d]
        BY <1>3, <2>1
    <2>8. \A i \in DOMAIN fl[c] : Backed(_attr', op', id', fl[c][i].id)
        BY <1>2, <2>1, <2>5, <2>6, Zenon
    <2>9. deserialize(PutOf(c).buf).fl = fl[c]
        <3>1. PutOf(c).buf = serialize(fl[c])
            BY <2>1, PutOfLemma, Zenon
        <3> QED BY <2>2, <3>1, RoundTrip, Zenon
    <2>10. ASSUME NEW d \in ended', d.e = Root
           PROVE  \A i \in DOMAIN deserialize(d.buf).fl : Backed(_attr', op', id', deserialize(d.buf).fl[i].id)
        <3>1. CASE d \in ended
            BY <1>2, <2>5, <2>10, <3>1, Zenon
        <3>2. CASE d = PutOf(c)
            BY <2>8, <2>9, <3>2, Zenon
        <3> QED BY <2>1, <3>1, <3>2, Zenon
    <2>11. \A d \in Procs : op'[d] = "putdir" =>
              \A i \in DOMAIN fl'[d] : Backed(_attr', op', id', fl'[d][i].id) \/ fl'[d][i].id = id'[d]
        BY <1>2, <2>1, <2>5, <2>7, Zenon
    <2> QED BY <2>4, <2>8, <2>10, <2>11, Zenon DEF AllBacked
<1>13. ASSUME NEW c \in Procs, PutFile(c)
       PROVE  AllBacked(_attr', op', id', Entries', fl', ended')
    <2>1. /\ op' = [op EXCEPT ![c] = "getattr"] /\ op[c] = "putfile"
          /\ id' = id /\ fl' = fl /\ Put(id[c], EmptyFile) /\ ended' = ended \cup {PutOf(c)}
        BY <1>13, Zenon DEF PutFile, Goto, request, EndPut
    <2>2. id[c] \in Inums /\ Storable(id[c], EmptyFile)
        BY <1>3, <2>1, Zenon DEF RequestOK, Storable
    <2>3. _data'[Root] = _data[Root] /\ _attr' = _attr \cup {id[c]}
        BY <2>1, <2>2, PutLemma, Zenon DEF TypeInv
    <2>4. \A y : Backed(_attr, op, id, y) => Backed(_attr', op', id', y)
        BY <1>6, <2>1, <2>3, Zenon
    <2>5. "getattr" # "putdir"
        OBVIOUS
    <2>6. PutOf(c).e = id[c] /\ id[c] # Root
        BY <2>1, <2>2, PutOfLemma, YfsAssumption, Zenon
    <2>7. \A d \in ended' : d \in ended \/ d.e # Root
        BY <2>1, <2>6, Zenon
    <2> QED BY <1>7, <2>1, <2>3, <2>4, <2>5, <2>7, Zenon
<1>14. ASSUME NEW c \in Procs, GetAttr(c)
       PROVE  AllBacked(_attr', op', id', Entries', fl', ended')
    <2>1. /\ op' = [op EXCEPT ![c] = "idle"] /\ op[c] # "putfile"
          /\ id' = id /\ fl' = fl /\ _data' = _data /\ _attr' = _attr /\ ended' = ended
        BY <1>14 DEF GetAttr, Goto, request, server, failure
    <2>2. \A y : Backed(_attr, op, id, y) => Backed(_attr', op', id', y)
        BY <1>6, <2>1, Zenon
    <2>3. "idle" # "putdir"
        OBVIOUS
    <2> QED BY <1>7, <2>1, <2>2, <2>3, Zenon
<1>15. ASSUME NEW d \in ended, LatePut(d)
       PROVE  AllBacked(_attr', op', id', Entries', fl', ended')
    <2>1. Put(d.e, d.buf) /\ op' = op /\ id' = id /\ fl' = fl /\ ended' = ended
        BY <1>15, Zenon DEF LatePut, request
    <2>2. Storable(d.e, d.buf)
        BY Zenon DEF TypeInv, FailureOK
    <2>3. /\ _attr' = _attr \cup {d.e}
          /\ d.e \in Inums => _data'[Root] = _data[Root]
          /\ d.e = Root => _data'[Root] = d.buf
        BY <2>1, <2>2, PutLemma, Zenon DEF TypeInv
    <2>4. \A x : Backed(_attr, op, id, x) => Backed(_attr', op', id', x)
        BY <2>1, <2>3, Zenon DEF Backed
    <2>5. \A i \in DOMAIN Entries' : Backed(_attr', op', id', Entries'[i].id)
        <3>1. CASE d.e \in Inums
            <4>1. Entries' = Entries
                BY <2>3, <3>1, Zenon DEF Entries, readdir
            <4> QED BY <1>2, <2>4, <4>1, Zenon
        <3>2. CASE d.e = Root
            <4>1. Entries' = deserialize(d.buf).fl
                BY <2>3, <3>2, Zenon DEF Entries, readdir
            <4> QED BY <1>2, <2>4, <3>2, <4>1, Zenon
        <3> QED BY <2>2, <3>1, <3>2, Zenon DEF Storable
    <2> QED BY <1>2, <2>1, <2>4, <2>5, Zenon DEF AllBacked
<1> QED
    BY <1>1, <1>4, <1>5, <1>8, <1>9, <1>10, <1>11, <1>12, <1>13, <1>14, <1>15, Zenon DEF Step

(***************************************************************************)
(* As long as no call fails, an entry of the directory has its file, or    *)
(* the createfile that wrote the entry is about to put the file, however   *)
(* many processes create files and overwrite each other's directory, and   *)
(* although copies of their puts are executed again.                       *)
(***************************************************************************)
THEOREM EntriesBacked == Spec => []EntryHasFile
<1>1. Init => BackedOK
    <2> SUFFICES ASSUME Init
                 PROVE  BackedOK
        OBVIOUS
    <2>1. DOMAIN <<>> = {}
        OBVIOUS
    <2>2. \A c \in Procs : op[c] # "putdir"
        BY DEF Init
    <2>3. Entries = <<>>
        BY EmptyDir, Zenon
    <2>4. ended = {}
        BY Zenon DEF Init
    <2> QED BY <2>1, <2>2, <2>3, <2>4, Zenon DEF BackedOK, AllBacked
<1>2. TypeInv /\ BackedOK /\ [Next]_vars => TypeInv' /\ BackedOK'
    BY TypeInvStep, BackedStep
<1>3. BackedOK => EntryHasFile
    BY Zenon DEF BackedOK, AllBacked, EntryHasFile, Backed
<1> QED BY <1>1, <1>2, <1>3, TypeInvInit, PTL DEF Spec

-----------------------------------------------------------------------------
(* Creations that do not overlap.                                          *)

\* Creations that overlap are recorded.
LEMMA AloneStep ==
    ASSUME TypeInv, Alone, [Next]_vars
    PROVE  Alone'
<1> SUFFICES ASSUME ~overlapped', NEW a \in Procs, NEW b \in Procs, Creating(a)', Creating(b)'
             PROVE  a = b
    BY Zenon DEF Alone
<1>1. op \in [Procs -> Ops]
    BY Zenon DEF TypeInv, RequestOK
<1>2. ASSUME NEW c \in Procs, NEW kind \in {"lookup", "create"}, NEW n \in Names, Request(c, kind, n)
      PROVE  a = b
    <2>1. /\ ~overlapped /\ op' = [op EXCEPT ![c] = kind]
          /\ kind = "create" => \A d \in Procs : ~Creating(d)
        BY <1>2, Zenon DEF Request, Goto
    <2>2. op'[c] = kind /\ \A d \in Procs : d # c => op'[d] = op[d]
        BY <1>1, <2>1, Zenon
    <2>3. CASE kind = "create"
        BY <2>1, <2>2, <2>3, Zenon DEF Creating
    <2>4. CASE kind = "lookup"
        <3>1. a # c /\ b # c
            BY <2>2, <2>4 DEF Creating
        <3> QED BY <2>1, <2>2, <3>1, Zenon DEF Alone, Creating
    <2> QED BY <2>3, <2>4, Zenon
<1>3. ASSUME ~overlapped, NEW c \in Procs, NEW p, op' = [op EXCEPT ![c] = p],
             p \in {"create", "reread", "putdir", "putfile"} => Creating(c)
      PROVE  a = b
    <2>1. op'[c] = p /\ \A d \in Procs : d # c => op'[d] = op[d]
        BY <1>1, <1>3, Zenon
    <2> QED BY <1>3, <2>1, Zenon DEF Alone, Creating
<1>4. ASSUME ~overlapped, op' = op
      PROVE  a = b
    BY <1>4, Zenon DEF Alone, Creating
<1>5. CASE UNCHANGED vars
    BY <1>4, <1>5, Zenon DEF vars, history
<1>6. ASSUME NEW c \in Procs, Lookup(c)
      PROVE  a = b
    <2> DEFINE x == IF readdir.ok THEN Find(readdir.fl, name[c]) ELSE NoFile
               ok == readdir.ok
    <2>1. op' = [op EXCEPT ![c] = AfterLookup(op[c], ok, x)] /\ ~overlapped
        BY <1>6, Zenon DEF Lookup, Goto, history
    <2> HIDE DEF x, ok
    <2>2. /\ AfterLookup(op[c], ok, x) \in {"idle", "reread", "getattr"}
          /\ AfterLookup(op[c], ok, x) = "reread" => op[c] = "create"
        BY DEF AfterLookup
    <2>3. AfterLookup(op[c], ok, x) \in {"create", "reread", "putdir", "putfile"} => Creating(c)
        BY <2>2 DEF Creating
    <2> QED BY <1>3, <2>1, <2>3, Zenon
<1>7. ASSUME NEW c \in Procs, ReRead(c)
      PROVE  a = b
    <2>1. PICK p : op' = [op EXCEPT ![c] = p] /\ ~overlapped /\ op[c] = "reread"
        BY <1>7, Zenon DEF ReRead, Goto, history
    <2> QED BY <1>3, <2>1, Zenon DEF Creating
<1>8. ASSUME NEW c \in Procs, PutDir(c)
      PROVE  a = b
    <2>1. op' = [op EXCEPT ![c] = "putfile"] /\ ~overlapped /\ op[c] = "putdir"
        BY <1>8, Zenon DEF PutDir, Goto, history
    <2> QED BY <1>3, <2>1, Zenon DEF Creating
<1>9. ASSUME NEW c \in Procs, PutFile(c) \/ GetAttr(c) \/ Fail(c)
      PROVE  a = b
    <2>1. PICK p \in {"getattr", "idle"} : op' = [op EXCEPT ![c] = p] /\ ~overlapped
        <3>1. CASE PutFile(c)
            BY <3>1, Zenon DEF PutFile, Goto, history
        <3>2. CASE GetAttr(c)
            BY <3>2, Zenon DEF GetAttr, Goto, history
        <3>3. CASE Fail(c)
            BY <3>3, Zenon DEF Fail, Goto, history
        <3> QED BY <1>9, <3>1, <3>2, <3>3, Zenon
    <2>2. p \notin {"create", "reread", "putdir", "putfile"}
        OBVIOUS
    <2> QED BY <1>3, <2>1, <2>2, Zenon
<1>10. ASSUME NEW c \in Procs, OpenDir(c) \/ ReadDir(c) \/ FailReadDir(c)
       PROVE  a = b
    <2>1. op' = op /\ ~overlapped
        <3>1. CASE OpenDir(c)
            BY <3>1, Zenon DEF OpenDir, history
        <3>2. CASE ReadDir(c)
            BY <3>2, Zenon DEF ReadDir, history
        <3>3. CASE FailReadDir(c)
            BY <3>3, Zenon DEF FailReadDir, history
        <3> QED BY <1>10, <3>1, <3>2, <3>3, Zenon
    <2> QED BY <1>4, <2>1, Zenon
<1>11. ASSUME NEW d \in ended, LatePut(d)
       PROVE  a = b
    <2>1. op' = op /\ ~overlapped
        BY <1>11, Zenon DEF LatePut
    <2> QED BY <1>4, <2>1, Zenon
<1> QED
    BY <1>2, <1>5, <1>6, <1>7, <1>8, <1>9, <1>10, <1>11, Zenon DEF Next, Step

\* What was so before the step: creations had not overlapped, and no old directory had
\* been brought back.
LEMMA CalmBefore ==
    ASSUME [Next]_vars, ~overlapped', ~stale'
    PROVE  ~overlapped /\ ~stale
<1>1. ASSUME UNCHANGED history
      PROVE  ~overlapped /\ ~stale
    BY <1>1, Zenon DEF history
<1>2. ASSUME NEW c \in Procs, Fail(c) \/ FailReadDir(c) \/ Lookup(c) \/ ReRead(c)
      PROVE  UNCHANGED history
    BY <1>2, Zenon DEF Fail, FailReadDir, Lookup, ReRead
<1>3. ASSUME NEW c \in Procs, PutDir(c) \/ PutFile(c) \/ OpenDir(c) \/ ReadDir(c)
      PROVE  UNCHANGED history
    BY <1>3, Zenon DEF PutDir, PutFile, OpenDir, ReadDir
<1>4. ASSUME NEW d \in ended, LatePut(d)
      PROVE  ~overlapped /\ ~stale
    BY <1>4, Zenon DEF LatePut
<1>5. ASSUME NEW c \in Procs, NEW kind \in {"lookup", "create"}, NEW n \in Names, Request(c, kind, n)
      PROVE  ~overlapped /\ ~stale
    BY <1>5, Zenon DEF Request
<1>6. ASSUME NEW c \in Procs, GetAttr(c)
      PROVE  ~overlapped /\ ~stale
    BY <1>6, Zenon DEF GetAttr
<1>7. CASE UNCHANGED vars
    BY <1>1, <1>7, Zenon DEF vars
<1>8. CASE Next
    BY <1>1, <1>2, <1>3, <1>4, <1>5, <1>6, <1>8, Zenon DEF Next, Step
<1> QED BY <1>7, <1>8, Zenon

\* A copy of an old put that brings no old directory back changes no entry.
LEMMA HarmlessCopy ==
    ASSUME TypeInv, NEW d \in ended, LatePut(d), ~stale'
    PROVE  /\ Entries' = Entries /\ _attr' = _attr \cup {d.e}
           /\ UNCHANGED <<op, name, id, fl, listing, created>>
<1>1. /\ Put(d.e, d.buf) /\ ~(d.e = Root /\ d.buf # _data[Root])
      /\ UNCHANGED <<op, name, id, fl, listing, created>>
    BY Zenon DEF LatePut, request
<1>2. Storable(d.e, d.buf)
    BY Zenon DEF TypeInv, FailureOK
<1>3. /\ _attr' = _attr \cup {d.e}
      /\ d.e \in Inums => _data'[Root] = _data[Root]
      /\ d.e = Root => _data'[Root] = d.buf
    BY <1>1, <1>2, PutLemma, Zenon DEF TypeInv
<1>4. _data'[Root] = _data[Root]
    BY <1>1, <1>2, <1>3, Zenon DEF Storable
<1>5. Entries' = Entries
    BY <1>4, Zenon DEF Entries, readdir
<1> QED BY <1>1, <1>3, <1>5, Zenon

\* What lookup finds among the extents is in the list.
LEMMA FoundLemma ==
    ASSUME ServerOK, NEW list \in FileLists, NEW n, Find(list, n) \in _attr
    PROVE  n \in NamesOf(list)
<1>1. NoFile \notin _attr
    BY YfsAssumption DEF ServerOK, NoFile, Root
<1> QED BY <1>1, FindLemma, Zenon

\* One create at a time keeps the directory without a name twice and loses none.
LEMMA CalmStep ==
    ASSUME TypeInv, Alone, CalmOK, [Next]_vars
    PROVE  CalmOK'
<1> DEFINE Goal == /\ Distinct(Entries')
                   /\ \A d \in Procs : CalmAt(Entries', op'[d], name'[d], id'[d], fl'[d])
                   /\ \A n \in created' : Find(Entries', n) \in _attr'
<1> SUFFICES ASSUME ~overlapped', ~stale'
             PROVE  Goal
    BY Zenon DEF CalmOK
<1>1. ~overlapped /\ ~stale
    BY CalmBefore, Zenon
<1>2. /\ Distinct(Entries)
      /\ \A d \in Procs : CalmAt(Entries, op[d], name[d], id[d], fl[d])
      /\ \A n \in created : Find(Entries, n) \in _attr
    BY <1>1, Zenon DEF CalmOK
<1>3. /\ readdir.ok /\ readdir.fl = Entries /\ Entries \in FileLists
      /\ op \in [Procs -> Ops] /\ RequestOK /\ ServerOK
    BY DirLemma, Zenon DEF TypeInv, ServerOK, RequestOK, readdir, Entries
<1>4. ASSUME NEW c \in Procs, NEW p, op' = [op EXCEPT ![c] = p], Entries' = Entries,
             \A d \in Procs : d # c => name'[d] = name[d] /\ id'[d] = id[d] /\ fl'[d] = fl[d],
             CalmAt(Entries, p, name'[c], id'[c], fl'[c]),
             \A x \in _attr : x \in _attr',
             \A n \in created' : n \in created \/ Find(Entries, n) \in _attr
      PROVE  Goal
    <2>1. op'[c] = p /\ \A d \in Procs : d # c => op'[d] = op[d]
        BY <1>3, <1>4, Zenon
    <2>2. \A d \in Procs : CalmAt(Entries', op'[d], name'[d], id'[d], fl'[d])
        BY <1>2, <1>4, <2>1, Zenon
    <2> QED BY <1>2, <1>4, <2>2, Zenon
<1>5. ASSUME NEW c \in Procs, NEW p \in {"putfile", "idle"}, op' = [op EXCEPT ![c] = p],
             op[c] = "putdir", Entries' = fl[c],
             UNCHANGED <<name, id, fl, created>>, \A x \in _attr : x \in _attr'
      PROVE  Goal
    <2> DEFINE e == [id |-> id[c], name |-> name[c]]
    <2>1. e \in [id : Inums, name : Names] /\ e.id = id[c] /\ e.name = name[c]
        BY <1>3, <1>5 DEF RequestOK
    <2>2. Entries' = Append(Entries, e) /\ name[c] \notin NamesOf(Entries)
        BY <1>2, <1>5, Zenon DEF CalmAt
    <2> HIDE DEF e
    <2>3. /\ Distinct(Entries')
          /\ Find(Entries', name[c]) = id[c]
          /\ \A n \in NamesOf(Entries) : Find(Entries', n) = Find(Entries, n)
        <3>1. /\ Distinct(Append(Entries, e))
              /\ Find(Append(Entries, e), e.name) = e.id
              /\ \A n \in NamesOf(Entries) : Find(Append(Entries, e), n) = Find(Entries, n)
            BY <1>2, <1>3, <2>1, <2>2, NewName, Zenon
        <3> QED BY <2>1, <2>2, <3>1, Zenon
    <2>4. op'[c] = p /\ \A d \in Procs : d # c => op'[d] = op[d]
        BY <1>3, <1>5, Zenon
    <2>5. CalmAt(Entries', op'[c], name'[c], id'[c], fl'[c])
        <3>1. op'[c] \notin {"reread", "putdir"} /\ name'[c] = name[c] /\ id'[c] = id[c]
            BY <1>5, <2>4
        <3> QED BY <2>3, <3>1, Zenon DEF CalmAt
    <2>6. ASSUME NEW d \in Procs, d # c
          PROVE  CalmAt(Entries', op'[d], name'[d], id'[d], fl'[d])
        <3>1. ~Creating(d)
            BY <1>1, <1>5, <2>6, Zenon DEF Alone, Creating
        <3>2. op'[d] \notin {"reread", "putdir", "putfile"} /\ name'[d] = name[d] /\ id'[d] = id[d]
            BY <1>5, <2>4, <2>6, <3>1 DEF Creating
        <3>3. ASSUME op'[d] = "getattr"
              PROVE  Find(Entries', name[d]) = id[d]
            <4>1. op[d] = "getattr"
                BY <2>4, <2>6, <3>3, Zenon
            <4>2. id[d] \in Inums /\ Find(Entries, name[d]) = id[d]
                BY <1>2, <1>3, <4>1, Zenon DEF RequestOK, CalmAt
            <4>3. name[d] \in NamesOf(Entries)
                BY <1>3, <4>2, FindLemma, YfsAssumption, Zenon
            <4> QED BY <2>3, <4>2, <4>3, Zenon
        <3> QED BY <3>2, <3>3, Zenon DEF CalmAt
    <2>7. ASSUME NEW n \in created'
          PROVE  Find(Entries', n) \in _attr'
        <3>1. Find(Entries, n) \in _attr
            BY <1>2, <1>5, <2>7, Zenon
        <3>2. n \in NamesOf(Entries)
            BY <1>3, <3>1, FoundLemma, Zenon
        <3> QED BY <1>5, <2>3, <3>1, <3>2, Zenon
    <2> QED BY <2>3, <2>5, <2>6, <2>7, Zenon
<1>6. ASSUME UNCHANGED <<_data, _attr, op, name, id, fl, created>>
      PROVE  Goal
    <2>1. Entries' = Entries
        BY <1>6, Zenon DEF Entries, readdir
    <2> QED BY <1>2, <1>6, <2>1, Zenon
<1>7. ASSUME _data'[Root] = _data[Root]
      PROVE  Entries' = Entries
    BY <1>7, Zenon DEF Entries, readdir
<1>8. ASSUME NEW p \in {"idle", "lookup", "create"}
      PROVE  p \notin {"reread", "putdir"} /\ p # "putdir" /\ p \notin {"putfile", "getattr"}
    OBVIOUS
<1> HIDE DEF Goal
<1>9. CASE UNCHANGED vars
    BY <1>6, <1>9, Zenon DEF vars, server, request, history
<1>10. ASSUME NEW c \in Procs, NEW kind \in {"lookup", "create"}, NEW n \in Names, Request(c, kind, n)
       PROVE  Goal
    <2>1. /\ op' = [op EXCEPT ![c] = kind] /\ name' = [name EXCEPT ![c] = n]
          /\ id' = id /\ fl' = fl /\ _data' = _data /\ _attr' = _attr /\ created' = created
        BY <1>10, Zenon DEF Request, Goto, server
    <2>2. \A d \in Procs : d # c => name'[d] = name[d]
        BY <1>3, <2>1, Zenon DEF RequestOK
    <2>3. CalmAt(Entries, kind, name'[c], id'[c], fl'[c])
        BY <1>8, Zenon DEF CalmAt
    <2>4. Entries' = Entries
        BY <1>7, <2>1, Zenon
    <2> QED BY <1>4, <2>1, <2>2, <2>3, <2>4, Zenon
<1>11. ASSUME NEW c \in Procs, Lookup(c)
       PROVE  Goal
    <2> DEFINE x == Find(Entries, name[c])
               p == AfterLookup(op[c], readdir.ok, x)
    <2>1. /\ op' = [op EXCEPT ![c] = p] /\ id' = [id EXCEPT ![c] = x]
          /\ name' = name /\ fl' = fl /\ _data' = _data /\ _attr' = _attr /\ created' = created
        BY <1>3, <1>11, Zenon DEF Lookup, Goto, server, history
    <2>2. id'[c] = x /\ name'[c] = name[c] /\ \A d \in Procs : d # c => id'[d] = id[d]
        BY <1>3, <2>1, Zenon DEF RequestOK
    <2>3. p \in {"idle", "reread", "getattr"} /\ (p = "reread" => x = NoFile)
        <3> HIDE DEF x
        <3> QED BY DEF AfterLookup
    <2>4. x = NoFile <=> name[c] \notin NamesOf(Entries)
        BY <1>3, FindLemma, Zenon
    <2> HIDE DEF p
    <2>5. CalmAt(Entries, p, name'[c], id'[c], fl'[c])
        <3>1. p \in {"reread", "putdir"} => p = "reread"
            BY <2>3
        <3>2. p # "putdir"
            BY <2>3
        <3> QED BY <2>2, <2>3, <2>4, <3>1, <3>2, Zenon DEF CalmAt
    <2>6. Entries' = Entries
        BY <1>7, <2>1, Zenon
    <2> QED BY <1>4, <2>1, <2>2, <2>5, <2>6, Zenon
<1>12. ASSUME NEW c \in Procs, ReRead(c)
       PROVE  Goal
    <2>1. PICK x \in Inums :
              /\ id' = [id EXCEPT ![c] = x]
              /\ fl' = [fl EXCEPT ![c] = Append(Entries, [id |-> x, name |-> name[c]])]
              /\ op' = [op EXCEPT ![c] = "putdir"]
        BY <1>3, <1>12, Zenon DEF ReRead, Goto
    <2>2. op[c] = "reread" /\ name' = name /\ _data' = _data /\ _attr' = _attr /\ created' = created
        BY <1>12, Zenon DEF ReRead, server, history
    <2>3. /\ id'[c] = x /\ fl'[c] = Append(Entries, [id |-> x, name |-> name[c]])
          /\ name'[c] = name[c]
          /\ \A d \in Procs : d # c => id'[d] = id[d] /\ fl'[d] = fl[d]
        BY <1>3, <2>1, <2>2, Zenon DEF RequestOK
    <2>4. name[c] \notin NamesOf(Entries)
        BY <1>2, <2>2, Zenon DEF CalmAt
    <2>5. CalmAt(Entries, "putdir", name'[c], id'[c], fl'[c])
        <3>1. "putdir" \notin {"putfile", "getattr"}
            OBVIOUS
        <3> QED BY <2>3, <2>4, <3>1, Zenon DEF CalmAt
    <2>6. Entries' = Entries
        BY <1>7, <2>2, Zenon
    <2> QED BY <1>4, <2>1, <2>2, <2>3, <2>5, <2>6, Zenon
<1>13. ASSUME NEW c \in Procs, op[c] = "putdir", Put(Root, serialize(fl[c]))
       PROVE  Entries' = fl[c] /\ _attr' = _attr \cup {Root}
    <2>1. fl[c] \in FileLists /\ Storable(Root, serialize(fl[c]))
        BY <1>3, Zenon DEF RequestOK, Storable
    <2>2. _data'[Root] = serialize(fl[c]) /\ _attr' = _attr \cup {Root}
        BY <1>3, <1>13, <2>1, PutLemma, Zenon
    <2> QED BY <2>1, <2>2, RoundTrip, Zenon DEF Entries, readdir
<1>14. ASSUME NEW c \in Procs, op[c] = "putfile", Put(id[c], EmptyFile)
       PROVE  Entries' = Entries /\ _attr' = _attr \cup {id[c]}
    <2>1. id[c] \in Inums /\ Storable(id[c], EmptyFile)
        BY <1>3, <1>14, Zenon DEF RequestOK, Storable
    <2>2. _data'[Root] = _data[Root] /\ _attr' = _attr \cup {id[c]}
        BY <1>3, <1>14, <2>1, PutLemma, Zenon
    <2> QED BY <1>7, <2>2, Zenon
<1>15. ASSUME NEW c \in Procs, PutDir(c)
       PROVE  Goal
    <2>1. /\ op' = [op EXCEPT ![c] = "putfile"] /\ op[c] = "putdir"
          /\ Put(Root, serialize(fl[c])) /\ UNCHANGED <<name, id, fl, created>>
        BY <1>15, Zenon DEF PutDir, Goto, request, history
    <2> QED BY <1>5, <1>13, <2>1, Zenon
<1>16. ASSUME NEW c \in Procs, PutFile(c)
       PROVE  Goal
    <2>1. /\ op' = [op EXCEPT ![c] = "getattr"] /\ op[c] = "putfile"
          /\ Put(id[c], EmptyFile) /\ UNCHANGED <<name, id, fl, created>>
        BY <1>16, Zenon DEF PutFile, Goto, request, history
    <2>2. CalmAt(Entries, "getattr", name'[c], id'[c], fl'[c])
        <3>1. "getattr" \notin {"reread", "putdir"} /\ "getattr" # "putdir"
            OBVIOUS
        <3>2. Find(Entries, name[c]) = id[c]
            BY <1>2, <2>1, Zenon DEF CalmAt
        <3> QED BY <2>1, <3>1, <3>2, Zenon DEF CalmAt
    <2> QED BY <1>4, <1>14, <2>1, <2>2, Zenon
<1>17. ASSUME NEW c \in Procs, GetAttr(c)
       PROVE  Goal
    <2>1. /\ op' = [op EXCEPT ![c] = "idle"] /\ op[c] = "getattr"
          /\ UNCHANGED <<name, id, fl, _data, _attr>>
          /\ \A n \in created' : n \in created \/ (n = name[c] /\ id[c] \in _attr)
        BY <1>17, Zenon DEF GetAttr, Goto, request, server
    <2>2. Find(Entries, name[c]) = id[c]
        BY <1>2, <2>1, Zenon DEF CalmAt
    <2>3. CalmAt(Entries, "idle", name'[c], id'[c], fl'[c])
        BY <1>8, Zenon DEF CalmAt
    <2>4. Entries' = Entries
        BY <1>7, <2>1, Zenon
    <2> QED BY <1>4, <2>1, <2>2, <2>3, <2>4, Zenon
<1>18. ASSUME NEW c \in Procs, OpenDir(c) \/ ReadDir(c) \/ FailReadDir(c)
       PROVE  Goal
    <2>1. UNCHANGED <<_data, _attr, op, name, id, fl, created>>
        <3>1. CASE OpenDir(c)
            BY <3>1, Zenon DEF OpenDir, server, request, history
        <3>2. CASE ReadDir(c)
            BY <3>2, Zenon DEF ReadDir, server, request, history
        <3>3. CASE FailReadDir(c)
            BY <3>3, Zenon DEF FailReadDir, server, request, history
        <3> QED BY <1>18, <3>1, <3>2, <3>3, Zenon
    <2> QED BY <1>6, <2>1, Zenon
<1>19. ASSUME NEW c \in Procs, Fail(c)
       PROVE  Goal
    <2>1. op' = [op EXCEPT ![c] = "idle"] /\ UNCHANGED <<name, id, fl, created>>
        BY <1>19, Zenon DEF Fail, Goto, request, history
    <2>2. CalmAt(Entries, "idle", name'[c], id'[c], fl'[c])
        BY <1>8, Zenon DEF CalmAt
    <2>3. \/ _data' = _data /\ _attr' = _attr
          \/ op[c] \in {"putdir", "putfile"} /\ Put(PutOf(c).e, PutOf(c).buf)
        BY <1>19, Zenon DEF Fail, server
    <2>4. CASE _data' = _data /\ _attr' = _attr
        <3>1. Entries' = Entries
            BY <1>7, <2>4, Zenon
        <3> QED BY <1>4, <2>1, <2>2, <2>4, <3>1, Zenon
    <2>5. CASE op[c] = "putdir" /\ Put(PutOf(c).e, PutOf(c).buf)
        <3>1. Put(Root, serialize(fl[c]))
            BY <2>5, PutOfLemma, Zenon
        <3> QED BY <1>5, <1>13, <2>1, <2>5, <3>1, Zenon
    <2>6. CASE op[c] = "putfile" /\ Put(PutOf(c).e, PutOf(c).buf)
        <3>1. PutOf(c).e = id[c] /\ PutOf(c).buf = EmptyFile
            BY <2>6 DEF PutOf
        <3>2. Put(id[c], EmptyFile)
            BY <2>6, <3>1, Zenon
        <3> QED BY <1>4, <1>14, <2>1, <2>2, <2>6, <3>2, Zenon
    <2> QED BY <2>3, <2>4, <2>5, <2>6, Zenon
<1>20. ASSUME NEW d \in ended, LatePut(d)
       PROVE  Goal
    <2>1. /\ Entries' = Entries /\ _attr' = _attr \cup {d.e}
          /\ UNCHANGED <<op, name, id, fl, created>>
        BY <1>20, HarmlessCopy, Zenon
    <2> QED BY <1>2, <2>1, Zenon DEF Goal
<1> QED
    BY <1>9, <1>10, <1>11, <1>12, <1>15, <1>16, <1>17, <1>18, <1>19, <1>20, Zenon DEF Next, Step

\* The invariant of creations that do not overlap.
LEMMA CalmInv == Spec => [](TypeInv /\ Alone /\ CalmOK)
<1>1. Init => Alone /\ CalmOK
    <2> SUFFICES ASSUME Init
                 PROVE  Alone /\ CalmOK
        OBVIOUS
    <2>1. \A c \in Procs : op[c] = "idle"
        BY Zenon DEF Init
    <2>2. created = {}
        BY Zenon DEF Init
    <2>3. Alone
        BY <2>1 DEF Alone, Creating
    <2>4. \A c \in Procs : CalmAt(Entries, op[c], name[c], id[c], fl[c])
        BY <2>1 DEF CalmAt
    <2>5. Distinct(Entries)
        BY EmptyDir DEF Distinct
    <2> QED BY <2>2, <2>3, <2>4, <2>5, Zenon DEF CalmOK
<1>2. TypeInv /\ Alone /\ CalmOK /\ [Next]_vars => TypeInv' /\ Alone' /\ CalmOK'
    BY TypeInvStep, AloneStep, CalmStep
<1> QED BY <1>1, <1>2, TypeInvInit, PTL DEF Spec

(***************************************************************************)
(* When no two processes are in createfile at the same time and no late    *)
(* copy of a put brings an old directory back, a name whose creation was   *)
(* reported stays in the directory, and lookup finds a number that has a   *)
(* file: for any number of processes and requests, although calls fail and *)
(* the requests with them, and although copies of answered puts and of     *)
(* failed ones are executed again.                                         *)
(***************************************************************************)
THEOREM CreatedFilesStay == Spec => []CreatedStay
<1>1. CalmOK => CreatedStay
    BY Zenon DEF CalmOK, CreatedStay
<1> QED BY <1>1, CalmInv, PTL

\* Under the same conditions the directory has no name twice.
THEOREM NamesDistinct == Spec => []NoDuplicateNames
<1>1. TypeInv /\ CalmOK => NoDuplicateNames
    <2> SUFFICES ASSUME TypeInv, CalmOK, ~overlapped, ~stale
                 PROVE  Cardinality(NamesOf(Entries)) = Len(Entries)
        BY Zenon DEF NoDuplicateNames
    <2>1. Distinct(Entries)
        BY Zenon DEF CalmOK
    <2>2. Entries \in FileLists
        BY DirLemma, Zenon DEF TypeInv, ServerOK, readdir, Entries
    <2> QED BY <2>1, <2>2, CountNames, Zenon
<1> QED BY <1>1, CalmInv, PTL

-----------------------------------------------------------------------------
(* Listings.                                                               *)

\* A first part that is as long as the list has all of its names.
LEMMA PrefixNames ==
    ASSUME NEW s \in FileLists, NEW list \in FileLists, Prefix(s, list), Len(s) >= Len(list)
    PROVE  NamesOf(list) \subseteq NamesOf(s)
<1> DEFINE E == [id : Inums, name : Names]
<1>1. list \in Seq(E) /\ s \in Seq(E)
    BY Zenon DEF FileLists
<1> HIDE DEF E
<1>2. /\ DOMAIN s = 1 .. Len(s) /\ DOMAIN list = 1 .. Len(list)
      /\ Len(s) \in Nat /\ Len(list) \in Nat
    BY <1>1
<1>3. Len(s) <= Len(list) /\ \A i \in 1 .. Len(s) : s[i] = list[i]
    BY Zenon DEF Prefix
<1>4. Len(s) = Len(list)
    <2> DEFINE m == Len(s)
               n == Len(list)
    <2>1. m \in Nat /\ n \in Nat /\ m <= n /\ m >= n
        BY <1>2, <1>3, Zenon
    <2> HIDE DEF m, n
    <2>2. m = n
        BY <2>1
    <2> QED BY <2>2, Zenon DEF m, n
<1> QED BY <1>2, <1>3, <1>4, Zenon DEF NamesOf

\* What a listing has read stays the first part of the directory.
LEMMA ListStep ==
    ASSUME TypeInv, CalmOK, ListOK, [Next]_vars
    PROVE  ListOK'
<1> DEFINE Goal == \A d \in Procs : ListAt(listing'[d], Entries')
<1> SUFFICES ASSUME fails' = 0, ~overlapped', ~stale'
             PROVE  Goal
    BY Zenon DEF ListOK
<1>1. /\ fails = 0
      /\ \/ UNCHANGED vars
         \/ \E c \in Procs : Step(c) /\ ~Fail(c) /\ ~FailReadDir(c)
         \/ \E d \in ended : LatePut(d)
    BY NoFailures, Zenon
<1>2. fails = 0 /\ ~overlapped /\ ~stale
    BY <1>1, CalmBefore, Zenon
<1>3. /\ \A d \in Procs : ListAt(listing[d], Entries)
      /\ \A d \in Procs : CalmAt(Entries, op[d], name[d], id[d], fl[d])
      /\ \A n \in created : Find(Entries, n) \in _attr
    BY <1>2, Zenon DEF ListOK, CalmOK
<1>4. /\ readdir.ok /\ readdir.fl = Entries /\ Entries \in FileLists
      /\ RequestOK /\ ServerOK /\ listing \in [Procs -> Listings]
    BY DirLemma, Zenon DEF TypeInv, ServerOK, readdir, Entries
<1>5. \A d \in Procs : listing[d].entries \in FileLists /\ Len(listing[d].entries) \in Nat
    <2> SUFFICES ASSUME NEW d \in Procs
                 PROVE  listing[d].entries \in FileLists /\ Len(listing[d].entries) \in Nat
        OBVIOUS
    <2>1. listing[d] \in Listings
        BY <1>4, Zenon
    <2>2. listing[d].entries \in FileLists
        BY <2>1 DEF Listings
    <2> QED BY <2>2, ListType, Zenon DEF FileLists
<1>6. ASSUME UNCHANGED <<_data, listing>>
      PROVE  Goal
    <2>1. Entries' = Entries
        BY <1>6, Zenon DEF Entries, readdir
    <2> QED BY <1>3, <1>6, <2>1, Zenon
<1>7. ASSUME NEW c \in Procs, NEW l, listing' = [listing EXCEPT ![c] = l], _data' = _data,
             ListAt(l, Entries)
      PROVE  Goal
    <2>1. Entries' = Entries
        BY <1>7, Zenon DEF Entries, readdir
    <2>2. listing'[c] = l /\ \A d \in Procs : d # c => listing'[d] = listing[d]
        BY <1>4, <1>7, Zenon
    <2> QED BY <1>3, <1>7, <2>1, <2>2, Zenon
<1>8. ASSUME NEW c \in Procs, PutDir(c)
      PROVE  Goal
    <2> DEFINE e == [id |-> id[c], name |-> name[c]]
    <2>1. op[c] = "putdir" /\ Put(Root, serialize(fl[c])) /\ listing' = listing
        BY <1>8, Zenon DEF PutDir
    <2>2. fl[c] \in FileLists /\ Storable(Root, serialize(fl[c]))
        BY <1>4, Zenon DEF RequestOK, Storable
    <2>3. _data'[Root] = serialize(fl[c])
        BY <1>4, <2>1, <2>2, PutLemma, Zenon
    <2>4. Entries' = fl[c]
        BY <2>2, <2>3, RoundTrip, Zenon DEF Entries, readdir
    <2>5. e \in [id : Inums, name : Names] /\ e.name = name[c]
        BY <1>4, <2>1 DEF RequestOK
    <2>6. Entries' = Append(Entries, e) /\ name[c] \notin NamesOf(Entries)
        BY <1>3, <2>1, <2>4, Zenon DEF CalmAt
    <2> HIDE DEF e
    <2>7. /\ NamesOf(Entries) \subseteq NamesOf(Entries')
          /\ \A s : Len(s) \in Nat /\ Prefix(s, Entries) => Prefix(s, Entries')
        <3>1. /\ NamesOf(Append(Entries, e)) = NamesOf(Entries) \cup {e.name}
              /\ \A s : Len(s) \in Nat /\ Prefix(s, Entries) => Prefix(s, Append(Entries, e))
            BY <1>4, <2>5, <2>6, NewName, Zenon
        <3>2. NamesOf(Entries') = NamesOf(Entries) \cup {e.name}
            BY <2>6, <3>1, Zenon
        <3> QED BY <2>6, <3>1, <3>2, Zenon
    <2>8. ASSUME NEW d \in Procs
          PROVE  ListAt(listing'[d], Entries')
        <3>1. ListAt(listing[d], Entries) /\ Len(listing[d].entries) \in Nat /\ listing'[d] = listing[d]
            BY <1>3, <1>5, <2>1, Zenon
        <3>2. Prefix(listing[d].entries, Entries')
            BY <2>7, <3>1, Zenon DEF ListAt
        <3>3. CASE listing[d].open
            BY <2>7, <3>1, <3>2, <3>3, Zenon DEF ListAt
        <3>4. CASE ~listing[d].open
            BY <3>1, <3>2, <3>4, Zenon DEF ListAt
        <3> QED BY <3>3, <3>4, Zenon
    <2> QED BY <2>8, Zenon
<1>9. ASSUME NEW c \in Procs, PutFile(c)
      PROVE  Goal
    <2>1. op[c] = "putfile" /\ Put(id[c], EmptyFile) /\ listing' = listing
        BY <1>9, Zenon DEF PutFile
    <2>2. id[c] \in Inums /\ Storable(id[c], EmptyFile)
        BY <1>4, <2>1, Zenon DEF RequestOK, Storable
    <2>3. _data'[Root] = _data[Root]
        BY <1>4, <2>1, <2>2, PutLemma, Zenon
    <2>4. Entries' = Entries
        BY <2>3, Zenon DEF Entries, readdir
    <2> QED BY <1>3, <2>1, <2>4, Zenon
<1>10. ASSUME NEW c \in Procs, OpenDir(c)
       PROVE  Goal
    <2> DEFINE l == [open |-> TRUE, entries |-> <<>>, known |-> created]
    <2>1. listing' = [listing EXCEPT ![c] = l] /\ _data' = _data
        BY <1>10, Zenon DEF OpenDir, server
    <2>2. created \subseteq NamesOf(Entries)
        BY <1>3, <1>4, FoundLemma, Zenon
    <2>3. Prefix(<<>>, Entries)
        <3>1. Len(<<>>) = 0 /\ Len(Entries) \in Nat
            BY <1>4, ListType DEF FileLists
        <3> QED BY <3>1 DEF Prefix
    <2>4. l.open /\ l.entries = <<>> /\ l.known = created
        OBVIOUS
    <2> HIDE DEF l
    <2>5. ListAt(l, Entries)
        BY <2>2, <2>3, <2>4, Zenon DEF ListAt
    <2> QED BY <1>7, <2>1, <2>5, Zenon
<1>11. ASSUME NEW c \in Procs, ReadDir(c)
       PROVE  Goal
    <2> DEFINE s == listing[c].entries
    <2>0. PICK k \in 1 .. Part :
              GotPart(c, reply_buf_limited(IF readdir.ok THEN readdir.fl ELSE <<>>, Len(s), k))
        BY <1>11, Zenon DEF ReadDir
    <2> DEFINE part == reply_buf_limited(Entries, Len(s), k)
               l == [open |-> part # <<>>, entries |-> s \o part, known |-> listing[c].known]
    <2>1. listing[c].open /\ _data' = _data
        BY <1>11, Zenon DEF ReadDir, server
    <2>2. listing' = [listing EXCEPT ![c] = l]
        <3>1. (IF readdir.ok THEN readdir.fl ELSE <<>>) = Entries
            BY <1>4, Zenon
        <3>2. GotPart(c, part)
            BY <2>0, <3>1, Zenon
        <3> HIDE DEF part
        <3> QED BY <1>4, <3>2, Zenon DEF GotPart
    <2>3. /\ part = <<>> => Len(s) >= Len(Entries) /\ s \o part = s
          /\ Prefix(s \o part, Entries)
        BY <1>3, <1>4, <1>5, PartLemma, Zenon DEF ListAt
    <2>4. listing[c].known \subseteq NamesOf(Entries)
        BY <1>3, <2>1, Zenon DEF ListAt
    <2> HIDE DEF part
    <2>5. /\ l.open <=> part # <<>>
          /\ l.entries = s \o part /\ l.known = listing[c].known
        BY Zenon
    <2>6. ListAt(l, Entries)
        <3> HIDE DEF l
        <3>1. CASE part # <<>>
            BY <2>3, <2>4, <2>5, <3>1, Zenon DEF ListAt
        <3>2. CASE part = <<>>
            <4>1. Prefix(s, Entries) /\ Len(s) >= Len(Entries) /\ s \in FileLists
                BY <1>5, <2>3, <3>2, Zenon
            <4>2. NamesOf(Entries) \subseteq NamesOf(s)
                BY <1>4, <4>1, PrefixNames, Zenon
            <4> QED BY <2>3, <2>4, <2>5, <3>2, <4>1, <4>2, Zenon DEF ListAt
        <3> QED BY <3>1, <3>2, Zenon
    <2> HIDE DEF l
    <2> QED BY <1>7, <2>1, <2>2, <2>6, Zenon
<1>12. ASSUME NEW c \in Procs, NEW kind \in {"lookup", "create"}, NEW n \in Names, Request(c, kind, n)
       PROVE  Goal
    BY <1>6, <1>12, Zenon DEF Request, server
<1>13. ASSUME NEW c \in Procs, Lookup(c) \/ ReRead(c) \/ GetAttr(c)
       PROVE  Goal
    <2>1. UNCHANGED <<server, listing>>
        BY <1>13, Zenon DEF Lookup, ReRead, GetAttr
    <2> QED BY <1>6, <2>1, Zenon DEF server
<1>14. CASE UNCHANGED vars
    BY <1>6, <1>14, Zenon DEF vars, server
<1>15. ASSUME NEW d \in ended, LatePut(d)
       PROVE  Goal
    <2>1. Entries' = Entries /\ listing' = listing
        BY <1>15, HarmlessCopy, Zenon
    <2> QED BY <1>3, <2>1, Zenon
<1> HIDE DEF Goal
<1> QED
    BY <1>1, <1>8, <1>9, <1>10, <1>11, <1>12, <1>13, <1>14, <1>15, Zenon DEF Step

(***************************************************************************)
(* As long as no call fails, no two processes create files at the same     *)
(* time and no late copy of a put brings an old directory back, a listing  *)
(* that has ended has every file that was created before it was begun, and *)
(* none twice: however many entries the reply to each readdir request has, *)
(* and although files are created between the parts.                       *)
(***************************************************************************)
THEOREM ListingsComplete == Spec => []ListingComplete
<1>1. Init => ListOK
    <2> SUFFICES ASSUME Init, NEW c \in Procs
                 PROVE  ListAt(listing[c], Entries)
        BY Zenon DEF ListOK
    <2>1. listing[c] = [open |-> FALSE, entries |-> <<>>, known |-> {}]
        BY Zenon DEF Init
    <2>2. listing[c].entries = <<>> /\ listing[c].known = {}
        BY <2>1
    <2>3. Entries = <<>>
        BY EmptyDir, Zenon
    <2>4. Prefix(<<>>, <<>>)
        BY DEF Prefix
    <2> QED BY <2>2, <2>3, <2>4, Zenon DEF ListAt
<1>2. TypeInv /\ CalmOK /\ ListOK /\ [Next]_vars => ListOK'
    BY ListStep
<1>3. TypeInv /\ CalmOK /\ ListOK => ListingComplete
    <2> SUFFICES ASSUME TypeInv, CalmOK, ListOK, fails = 0, ~overlapped, ~stale,
                        NEW c \in Procs, ~listing[c].open
                 PROVE  /\ listing[c].known \subseteq NamesOf(listing[c].entries)
                        /\ Cardinality(NamesOf(listing[c].entries)) = Len(listing[c].entries)
        BY Zenon DEF ListingComplete
    <2>1. Distinct(Entries) /\ ListAt(listing[c], Entries)
        BY Zenon DEF CalmOK, ListOK
    <2>2. Entries \in FileLists /\ listing[c] \in Listings
        BY DirLemma, Zenon DEF TypeInv, ServerOK, readdir, Entries
    <2>3. listing[c].entries \in FileLists
        BY <2>2 DEF Listings
    <2>4. Prefix(listing[c].entries, Entries)
        BY <2>1, Zenon DEF ListAt
    <2>5. listing[c].known \subseteq NamesOf(listing[c].entries)
        BY <2>1, Zenon DEF ListAt
    <2>6. Distinct(listing[c].entries)
        BY <2>1, <2>2, <2>3, <2>4, PrefixDistinct, Zenon
    <2> QED BY <2>3, <2>5, <2>6, CountNames, Zenon
<1> QED BY <1>1, <1>2, <1>3, CalmInv, PTL DEF Spec
=============================================================================
