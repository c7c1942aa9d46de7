------------------------------ MODULE LibProof ------------------------------
(***************************************************************************)
(* Proofs about the parts of the RPC library that stand by themselves: the *)
(* thread pool (ThrPool), the deadlines of calls (Deadline), and the lists *)
(* of xids and of replies (ReplyList).                                     *)
(***************************************************************************)
EXTENDS ThrPool, Deadline, ReplyList, FiniteSetTheorems, SequenceTheorems,
        WellFoundedInduction, TLAPS

-----------------------------------------------------------------------------
(***************************************************************************)
(* The two lists behind at-most-once execution, for any number of calls    *)
(* and lists of any length: the list of xids of the client (XidWindowList) *)
(* and the list of replies of the server (ReplyList) do what the windows   *)
(* of XidWindow and ReplyWindow do, with which the proofs about the whole  *)
(* library work.                                                           *)
(*                                                                         *)
(* First, induction and recursion.                                         *)
(***************************************************************************)

\* A set of natural numbers has a least element.
LEMMA Least ==
    ASSUME NEW T \in SUBSET Nat, T # {}
    PROVE  \E m \in T : \A k \in T : m <= k
<1>1. PICK m \in T : \A k \in T : ~ (<<k, m>> \in OpToRel(<, Nat))
    BY NatLessThanWellFounded, WFMin, Zenon
<1>2. \A k \in T : k \in Nat /\ m \in Nat /\ ~(k < m)
    BY <1>1, Zenon DEF OpToRel
<1>3. \A k \in T : m <= k
    BY <1>2
<1> QED BY <1>3

\* A set that has 0, and with every number up to N the next, has all numbers up to N.
LEMMA UpTo ==
    ASSUME NEW N \in Nat, NEW T, 0 \in T,
           \A n \in 1 .. N : n - 1 \in T => n \in T
    PROVE  0 .. N \subseteq T
<1> DEFINE U == {n \in 0 .. N : n \notin T}
<1> SUFFICES ASSUME U # {} PROVE FALSE
    OBVIOUS
<1>1. U \in SUBSET Nat
    OBVIOUS
<1>2. PICK m \in U : \A k \in U : m <= k
    BY <1>1, Least, Zenon
<1>3. m \in 1 .. N /\ m - 1 \in 0 .. N /\ ~(m <= m - 1)
    BY <1>2
<1>4. m - 1 \in T
    BY <1>2, <1>3
<1> QED BY <1>2, <1>3, <1>4

\* g is defined by recursion up to N: it begins with a, and H is the step.
Follows(g, N, a, H) == g[0] = a /\ \A n \in 1 .. N : g[n] = H[g[n - 1], n]

\* There is such a function.
LEMMA Recursion ==
    ASSUME NEW N \in Nat, NEW S, NEW a \in S, NEW H \in [S \X (1 .. N) -> S]
    PROVE  \E g \in [0 .. N -> S] : Follows(g, N, a, H)
<1> DEFINE Good(k, g) == g[0] = a /\ \A n \in 1 .. k : g[n] = H[g[n - 1], n]
           T == {k \in 0 .. N : \E g \in [0 .. k -> S] : Good(k, g)}
<1>1. 0 \in T
    <2> DEFINE h == [i \in 0 .. 0 |-> a]
    <2>1. h \in [0 .. 0 -> S] /\ Good(0, h) /\ 0 \in 0 .. N
        OBVIOUS
    <2> HIDE DEF h, Good
    <2> QED BY <2>1
<1>2. ASSUME NEW n \in 1 .. N, n - 1 \in T
      PROVE  n \in T
    <2>1. PICK g \in [0 .. n - 1 -> S] : Good(n - 1, g)
        BY <1>2, Zenon
    <2> DEFINE v == H[g[n - 1], n]
               h == [i \in 0 .. n |-> IF i = n THEN v ELSE g[i]]
    <2>2. n - 1 \in 0 .. n - 1 /\ n \in 0 .. N /\ \A i \in 0 .. n : i # n => i \in 0 .. n - 1
        OBVIOUS
    <2>3. v \in S
        <3>1. g[n - 1] \in S
            BY <2>1, <2>2, Zenon
        <3>2. <<g[n - 1], n>> \in S \X (1 .. N)
            BY <3>1
        <3> QED BY <3>2, Zenon
    <2>4. h \in [0 .. n -> S]
        <3> HIDE DEF v
        <3> QED BY <2>2, <2>3
    <2>5. h[0] = a /\ h[n] = v /\ h[n - 1] = g[n - 1] /\ \A i \in 0 .. n - 1 : h[i] = g[i]
        <3> HIDE DEF v
        <3>1. h[n] = v /\ \A i \in 0 .. n - 1 : h[i] = g[i]
            OBVIOUS
        <3>2. 0 \in 0 .. n - 1
            OBVIOUS
        <3> QED BY <2>1, <2>2, <3>1, <3>2, Zenon
    <2>6. ASSUME NEW i \in 1 .. n PROVE h[i] = H[h[i - 1], i]
        <3>1. CASE i = n
            <4> HIDE DEF h
            <4> QED BY <2>5, <3>1, Zenon
        <3>2. CASE i # n
            <4>1. i \in 1 .. n - 1 /\ i \in 0 .. n - 1 /\ i - 1 \in 0 .. n - 1
                BY <3>2
            <4>2. g[i] = H[g[i - 1], i]
                BY <2>1, <4>1, Zenon
            <4> HIDE DEF h
            <4> QED BY <2>5, <4>1, <4>2, Zenon
        <3> QED BY <3>1, <3>2, Zenon
    <2>7. Good(n, h)
        <3> HIDE DEF h
        <3> QED BY <2>5, <2>6, Zenon
    <2> HIDE DEF Good, h
    <2> QED BY <2>2, <2>4, <2>7
<1>3. N \in T
    <2> HIDE DEF T
    <2>1. N \in 0 .. N
        OBVIOUS
    <2> QED BY <1>1, <1>2, <2>1, UpTo
<1> QED BY <1>3, Zenon DEF Follows

-----------------------------------------------------------------------------
(* The list of xids.                                                       *)

\* The first index of a set.
LEMMA FirstLemma ==
    ASSUME NEW I \in SUBSET Nat, I # {}
    PROVE  First(I) \in I /\ \A j \in I : First(I) <= j
<1>1. \E m \in I : \A k \in I : m <= k
    BY Least, Zenon
<1> QED BY <1>1, Zenon DEF First

Sorted(s) ==
    /\ s \in Seq(Nat)
    /\ \A i, j \in 1 .. Len(s) : i <= j => s[i] <= s[j]

Elems(s) == {s[i] : i \in 1 .. Len(s)}

\* The list stays sorted when an xid is inserted.
LEMMA InsertLemma ==
    ASSUME NEW s, Sorted(s), NEW xid \in Nat
    PROVE  /\ Sorted(Inserted(s, xid))
           /\ Len(Inserted(s, xid)) = Len(s) + 1
           /\ Elems(Inserted(s, xid)) = Elems(s) \cup {xid}
           /\ Len(s) > 0 /\ xid > s[1] => Inserted(s, xid)[1] = s[1]
<1> DEFINE L == Len(s)
           I == {i \in DOMAIN s : s[i] > xid} \cup {L + 1}
           at == First(I)
           t == Inserted(s, xid)
<1>1. /\ s \in Seq(Nat) /\ L \in Nat /\ DOMAIN s = 1 .. L
      /\ \A i \in 1 .. L : s[i] \in Nat
    BY DEF Sorted
<1>2. I \in SUBSET Nat /\ I # {}
    BY <1>1
<1>3. at \in I /\ \A j \in I : at <= j
    <2> HIDE DEF I
    <2> QED BY <1>2, FirstLemma, Zenon
<1>4. t = [i \in 1 .. L + 1 |-> IF i < at THEN s[i] ELSE IF i = at THEN xid ELSE s[i - 1]]
    BY Zenon DEF Inserted
<1>5. /\ at \in 1 .. L + 1
      /\ \A i \in 1 .. L : i < at => s[i] <= xid
      /\ at <= L => s[at] > xid
    <2> HIDE DEF at, L
    <2> QED BY <1>1, <1>3
<1> HIDE DEF I, at, t, L
<1>6. /\ \A i \in 1 .. L + 1 : /\ i < at => t[i] = s[i] /\ i \in 1 .. L
                               /\ i = at => t[i] = xid
                               /\ i > at => t[i] = s[i - 1] /\ i - 1 \in 1 .. L
    BY <1>1, <1>4, <1>5
<1>7. \A i \in 1 .. L + 1 : t[i] \in Nat
    BY <1>1, <1>5, <1>6
<1>8. t \in Seq(Nat) /\ Len(t) = L + 1
    <2>1. t = [i \in 1 .. L + 1 |-> t[i]]
        BY <1>4, Zenon
    <2>2. L + 1 \in Nat
        BY <1>1
    <2> QED BY <1>7, <2>1, <2>2
<1>9. \A i, j \in 1 .. L : i <= j => s[i] <= s[j]
    BY Zenon DEF Sorted, L
<1>10. ASSUME NEW i \in 1 .. L + 1, NEW j \in 1 .. L + 1, i <= j
       PROVE  t[i] <= t[j]
    BY <1>1, <1>5, <1>6, <1>9, <1>10
<1>11. Sorted(t)
    BY <1>8, <1>10, Zenon DEF Sorted
<1>12. Elems(t) = Elems(s) \cup {xid}
    <2>1. ASSUME NEW i \in 1 .. L + 1
          PROVE  t[i] \in Elems(s) \cup {xid}
        BY <1>5, <1>6 DEF Elems, L
    <2>2. ASSUME NEW i \in 1 .. L
          PROVE  \E j \in 1 .. L + 1 : t[j] = s[i]
        <3>1. CASE i < at
            BY <1>1, <1>6, <3>1
        <3>2. CASE ~(i < at)
            <4>1. i + 1 \in 1 .. L + 1 /\ i + 1 > at /\ (i + 1) - 1 = i
                BY <1>1, <1>5, <3>2
            <4>2. t[i + 1] = s[(i + 1) - 1]
                BY <1>6, <4>1, Zenon
            <4> QED BY <4>1, <4>2
        <3> QED BY <3>1, <3>2
    <2>3. t[at] = xid
        BY <1>5, <1>6
    <2>4. Elems(t) = {t[i] : i \in 1 .. L + 1} /\ Elems(s) = {s[i] : i \in 1 .. L}
        BY <1>8 DEF Elems, L
    <2> QED BY <1>5, <2>1, <2>2, <2>3, <2>4
<1>13. L > 0 /\ xid > s[1] => t[1] = s[1]
    BY <1>1, <1>5, <1>6
<1> QED BY <1>8, <1>11, <1>12, <1>13 DEF t, L

\* Compressing takes away a run of consecutive xids, but for the last, and stops
\* where an xid is missing.
LEMMA CompressLemma ==
    ASSUME NEW s, Sorted(s), Len(s) > 0
    PROVE  \E j \in 1 .. Len(s) :
              /\ Compress(s) = SubSeq(s, j, Len(s))
              /\ \A m \in s[1] .. s[j] : m \in Elems(s)
              /\ s[j] + 1 \notin Elems(s)
<1> DEFINE L == Len(s)
           N == L - 1
           Eq(g) == g = [k \in 0 .. N |-> IF k = 0 THEN 1 ELSE PopWhile(s, g[k - 1], s[k + 1])]
           front == CHOOSE g : Eq(g)
           H == [p \in (1 .. L) \X (1 .. N) |-> PopWhile(s, p[1], s[p[2] + 1])]
<1>1. /\ L \in Nat \ {0} /\ N \in Nat /\ L = N + 1
      /\ \A i \in 1 .. L : s[i] \in Nat
      /\ \A i, j \in 1 .. L : i <= j => s[i] <= s[j]
    BY DEF Sorted
<1>2. Compress(s) = SubSeq(s, front[N], L)
    BY DEF Compress
<1> HIDE DEF N, L
<1>3. ASSUME NEW i \in 1 .. L, NEW k \in 1 .. N
      PROVE  LET p == PopWhile(s, i, s[k + 1])
             IN  /\ p \in i .. L /\ p \in 1 .. L /\ s[p] + 1 # s[k + 1]
                 /\ \A j \in i .. L : j < p => s[j] + 1 = s[k + 1]
    <2> DEFINE I == {j \in i .. L : s[j] + 1 # s[k + 1]}
               p == First(I)
    <2>1. L \in I
        <3>1. k + 1 \in 1 .. L /\ L \in 1 .. L /\ L \in i .. L /\ k + 1 <= L
            BY <1>1
        <3>2. s[k + 1] \in Nat /\ s[L] \in Nat /\ s[k + 1] <= s[L]
            BY <1>1, <3>1
        <3> QED BY <3>1, <3>2
    <2>2. I \in SUBSET Nat
        BY <1>1
    <2>3. p \in I /\ \A j \in I : p <= j
        <3> HIDE DEF I
        <3> QED BY <2>1, <2>2, FirstLemma, Zenon
    <2>4. PopWhile(s, i, s[k + 1]) = p
        BY Zenon DEF PopWhile, L
    <2> HIDE DEF p
    <2>5. /\ p \in i .. L /\ p \in 1 .. L /\ s[p] + 1 # s[k + 1]
          /\ \A j \in i .. L : j < p => s[j] + 1 = s[k + 1]
        BY <1>1, <2>3
    <2> QED BY <2>4, <2>5, Zenon
<1>4. H \in [(1 .. L) \X (1 .. N) -> 1 .. L]
    <2>1. ASSUME NEW p \in (1 .. L) \X (1 .. N)
          PROVE  PopWhile(s, p[1], s[p[2] + 1]) \in 1 .. L
        <3>1. p[1] \in 1 .. L /\ p[2] \in 1 .. N
            OBVIOUS
        <3> QED BY <1>3, <3>1, Zenon
    <2> QED BY <2>1, Zenon
<1>5. \E g : Eq(g)
    <2>1. PICK g \in [0 .. N -> 1 .. L] : Follows(g, N, 1, H)
        <3> HIDE DEF H
        <3>1. 1 \in 1 .. L
            BY <1>1
        <3> QED BY <1>1, <1>4, <3>1, Recursion, Zenon
    <2>2. ASSUME NEW k \in 0 .. N
          PROVE  g[k] = IF k = 0 THEN 1 ELSE PopWhile(s, g[k - 1], s[k + 1])
        <3>1. CASE k = 0
            BY <2>1, <3>1, Zenon DEF Follows
        <3>2. CASE k # 0
            <4>1. k - 1 \in 0 .. N /\ k \in 1 .. N
                BY <1>1, <3>2
            <4>2. <<g[k - 1], k>> \in (1 .. L) \X (1 .. N)
                BY <2>1, <4>1
            <4>3. H[g[k - 1], k] = PopWhile(s, g[k - 1], s[k + 1])
                BY <4>2, Zenon
            <4>4. g[k] = H[g[k - 1], k]
                <5> HIDE DEF H
                <5> QED BY <2>1, <4>1, Zenon DEF Follows
            <4> QED BY <3>2, <4>3, <4>4, Zenon
        <3> QED BY <3>1, <3>2, Zenon
    <2>3. Eq(g)
        BY <2>1, <2>2, Zenon
    <2> QED BY <2>3, Zenon
<1>6. Eq(front)
    <2> HIDE DEF Eq
    <2> QED BY <1>5, Zenon
<1> HIDE DEF front
<1>7. front[0] = 1 /\ \A k \in 1 .. N : front[k] = PopWhile(s, front[k - 1], s[k + 1])
    <2>1. 0 \in 0 .. N /\ \A k \in 1 .. N : k \in 0 .. N /\ k # 0
        BY <1>1
    <2> QED BY <1>6, <2>1, Zenon
<1> DEFINE P(k) == /\ front[k] \in 1 .. k + 1
                   /\ \A m \in s[1] .. s[front[k]] : m \in Elems(s)
                   /\ \A i \in 1 .. k + 1 : s[i] # s[front[k]] + 1
           T == {k \in 0 .. N : P(k)}
<1>8. 0 \in T
    <2>1. s[1] \in Nat /\ s[1] \in Elems(s)
        BY <1>1 DEF Elems, L
    <2> QED BY <1>1, <1>7, <2>1
<1>9. ASSUME NEW k \in 1 .. N, k - 1 \in T
      PROVE  k \in T
    <2> DEFINE f == front[k - 1]
               n == s[k + 1]
               p == front[k]
    <2>1. /\ k \in Nat /\ (k - 1) + 1 = k /\ k \in 0 .. N /\ k + 1 \in 1 .. L
          /\ \A i \in 1 .. k + 1 : i \in 1 .. k \/ i = k + 1
          /\ \A i \in 1 .. k + 1 : i \in 1 .. L
        BY <1>1
    <2>2. /\ f \in 1 .. k /\ f \in 1 .. L
          /\ \A m \in s[1] .. s[f] : m \in Elems(s)
          /\ \A i \in 1 .. k : s[i] # s[f] + 1
        BY <1>1, <1>9, <2>1
    <2>3. /\ p \in f .. L /\ p \in 1 .. L /\ s[p] + 1 # n
          /\ \A j \in f .. L : j < p => s[j] + 1 = n
        <3>1. p = PopWhile(s, f, n)
            BY <1>7, Zenon
        <3> HIDE DEF f, p
        <3> QED BY <1>3, <2>2, <3>1, Zenon
    <2> HIDE DEF f, p, T
    <2>4. P(k)
        <3>1. CASE s[f] + 1 # n
            <4>1. p = f
                BY <1>1, <2>2, <2>3, <3>1
            <4>2. \A i \in 1 .. k + 1 : s[i] # s[p] + 1
                BY <1>1, <2>1, <2>2, <3>1, <4>1
            <4>3. p \in 1 .. k + 1
                BY <2>1, <2>2, <4>1
            <4> QED BY <2>2, <4>1, <4>2, <4>3, Zenon DEF p
        <3>2. CASE s[f] + 1 = n
            <4>1. \A i \in f .. k : s[i] = s[f] /\ s[i] + 1 = n
                <5> TAKE i \in f .. k
                <5>1. i \in 1 .. L /\ f <= i /\ i <= k + 1 /\ i \in 1 .. k /\ k + 1 \in 1 .. L
                    BY <1>1, <2>1, <2>2
                <5>2. s[f] <= s[i] /\ s[i] <= n /\ s[i] # s[f] + 1
                    BY <1>1, <2>2, <5>1
                <5>3. s[f] \in Nat /\ s[i] \in Nat /\ n \in Nat
                    BY <1>1, <2>2, <5>1
                <5> HIDE DEF n
                <5> QED BY <3>2, <5>2, <5>3
            <4>2. p = k + 1
                <5>1. ~(p <= k)
                    <6> SUFFICES ASSUME p <= k PROVE FALSE
                        OBVIOUS
                    <6>1. p \in f .. k
                        BY <2>1, <2>2, <2>3
                    <6> QED BY <2>3, <4>1, <6>1, Zenon
                <5>2. ~(k + 1 < p)
                    <6> SUFFICES ASSUME k + 1 < p PROVE FALSE
                        OBVIOUS
                    <6>1. k + 1 \in f .. L
                        BY <2>1, <2>2
                    <6>2. s[k + 1] + 1 = s[k + 1]
                        BY <2>3, <6>1, Zenon
                    <6> QED BY <1>1, <2>1, <6>2
                <5> QED BY <2>1, <2>3, <5>1, <5>2
            <4>3. s[p] = n /\ n \in Nat /\ s[f] \in Nat /\ s[1] \in Nat
                BY <1>1, <2>1, <2>2, <4>2
            <4>4. n \in Elems(s)
                BY <2>1, Zenon DEF Elems, L
            <4>5. ASSUME NEW m \in s[1] .. s[p]
                  PROVE  m \in Elems(s)
                <5>1. m \in s[1] .. s[f] \/ m = n
                    BY <3>2, <4>3, <4>5
                <5> QED BY <2>2, <4>4, <5>1, Zenon
            <4>6. ASSUME NEW i \in 1 .. k + 1
                  PROVE  s[i] # s[p] + 1
                <5>1. s[i] \in Nat /\ s[i] <= s[k + 1]
                    BY <1>1, <2>1, <4>6
                <5> QED BY <4>3, <5>1
            <4>7. p \in 1 .. k + 1
                BY <2>1, <4>2
            <4> QED BY <4>5, <4>6, <4>7, Zenon DEF p
        <3> QED BY <3>1, <3>2
    <2> QED BY <2>1, <2>4, Zenon DEF T
<1>10. N \in T
    <2> HIDE DEF T
    <2>1. N \in 0 .. N
        BY <1>1
    <2> QED BY <1>1, <1>8, <1>9, <2>1, UpTo
<1> DEFINE j == front[N]
<1>11. /\ j \in 1 .. L
       /\ \A m \in s[1] .. s[j] : m \in Elems(s)
       /\ \A i \in 1 .. L : s[i] # s[j] + 1
    BY <1>1, <1>10
<1>12. s[j] + 1 \notin Elems(s)
    <2> HIDE DEF j
    <2> QED BY <1>11, Zenon DEF Elems, L
<1> QED BY <1>2, <1>11, <1>12, Zenon DEF L

\* A list as update_xid_rep leaves it.
Compressed(s) == Sorted(s) /\ Len(s) > 0 /\ s[1] + 1 \notin Elems(s)

\* The window that a list stands for.
LEMMA WindowLemma ==
    ASSUME NEW s, Sorted(s), Len(s) > 0
    PROVE  /\ Window(s) = [front |-> s[1], ahead |-> {n \in Elems(s) : n > s[1]}]
           /\ s[1] \in Nat /\ Elems(s) \subseteq Nat
<1>1. s \in Seq(Nat) /\ DOMAIN s = 1 .. Len(s) /\ Head(s) = s[1] /\ \A i \in 1 .. Len(s) : s[i] \in Nat
    BY DEF Sorted
<1>2. {s[i] : i \in {i \in DOMAIN s : s[i] > Head(s)}} = {n \in Elems(s) : n > s[1]}
    BY <1>1, Zenon DEF Elems
<1>3. s[1] \in Nat
    BY <1>1
<1>4. Elems(s) \subseteq Nat
    BY <1>1, Zenon DEF Elems
<1> QED BY <1>1, <1>2, <1>3, <1>4, Zenon DEF Window

\* What is left after the first elements were popped.
LEMMA SuffixLemma ==
    ASSUME NEW s, Sorted(s), NEW j \in 1 .. Len(s), NEW u, u = SubSeq(s, j, Len(s))
    PROVE  /\ Sorted(u) /\ Len(u) > 0 /\ u[1] = s[j]
           /\ {n \in Elems(u) : n > s[j]} = {n \in Elems(s) : n > s[j]}
           /\ Elems(u) \subseteq Elems(s)
<1> DEFINE L == Len(s)
           M == L - j + 1
<1>1. /\ s \in Seq(Nat) /\ L \in Nat
      /\ \A i \in 1 .. L : s[i] \in Nat
      /\ \A i, k \in 1 .. L : i <= k => s[i] <= s[k]
    BY DEF Sorted
<1>2. u \in Seq(Nat) /\ Len(u) = M /\ \A i \in 1 .. M : u[i] = s[j + i - 1]
    BY <1>1
<1> HIDE DEF L
<1>3. /\ j \in Nat /\ M \in Nat /\ M > 0 /\ j + 1 - 1 = j /\ 1 \in 1 .. M
      /\ \A i \in 1 .. M : j + i - 1 \in 1 .. L
      /\ \A i \in 1 .. L : i >= j => i - j + 1 \in 1 .. M /\ j + (i - j + 1) - 1 = i
    BY <1>1 DEF L
<1>4. u[1] = s[j]
    BY <1>2, <1>3
<1>5. ASSUME NEW i \in 1 .. M, NEW k \in 1 .. M, i <= k
      PROVE  u[i] <= u[k]
    <2>1. j + i - 1 <= j + k - 1 /\ j + i - 1 \in 1 .. L /\ j + k - 1 \in 1 .. L
        BY <1>3, <1>5
    <2> QED BY <1>1, <1>2, <2>1, Zenon
<1>6. Sorted(u)
    <2> HIDE DEF M
    <2> QED BY <1>2, <1>5, Zenon DEF Sorted
<1>7. Elems(u) = {u[i] : i \in 1 .. M} /\ Elems(s) = {s[i] : i \in 1 .. L}
    BY <1>2, Zenon DEF Elems, L
<1>8. \A i \in 1 .. M : u[i] \in Elems(s)
    <2> HIDE DEF M
    <2> QED BY <1>2, <1>3, <1>7, Zenon
<1>9. ASSUME NEW i \in 1 .. L, s[i] > s[j]
      PROVE  s[i] \in Elems(u)
    <2>1. i >= j
        BY <1>1, <1>3, <1>9 DEF L
    <2>2. i - j + 1 \in 1 .. M /\ u[i - j + 1] = s[i]
        BY <1>2, <1>3, <2>1
    <2> HIDE DEF M
    <2> QED BY <1>7, <2>2
<1> HIDE DEF M
<1>10. Elems(u) \subseteq Elems(s)
    BY <1>7, <1>8, Zenon
<1>11. {n \in Elems(u) : n > s[j]} = {n \in Elems(s) : n > s[j]}
    BY <1>7, <1>9, <1>10, Zenon
<1> QED BY <1>2, <1>3, <1>4, <1>6, <1>10, <1>11, Zenon

\* The front goes to the end of the run of xids that begins after it.
LEMMA RunLemma ==
    ASSUME NEW f \in Nat, NEW over \in SUBSET Nat, \A m \in over : m > f,
           NEW n \in Nat, n >= f, \A m \in f + 1 .. n : m \in over, n + 1 \notin over
    PROVE  {[front |-> k, ahead |-> {m \in over : m > k}] :
               k \in {k \in {f} \cup over : (\A m \in f + 1 .. k : m \in over) /\ k + 1 \notin over}}
           = {[front |-> n, ahead |-> {m \in over : m > n}]}
<1> DEFINE K == {k \in {f} \cup over : (\A m \in f + 1 .. k : m \in over) /\ k + 1 \notin over}
<1>1. n \in K
    <2>1. n = f \/ n \in f + 1 .. n
        OBVIOUS
    <2> QED BY <2>1
<1>2. ASSUME NEW k \in K PROVE k = n
    <2>1. k \in Nat /\ k >= f
        OBVIOUS
    <2>2. CASE k < n
        <3>1. k + 1 \in f + 1 .. n
            BY <2>1, <2>2
        <3> QED BY <3>1
    <2>3. CASE k > n
        <3>1. n + 1 \in f + 1 .. k
            BY <2>1, <2>3
        <3> QED BY <3>1
    <2> QED BY <2>1, <2>2, <2>3
<1>3. K = {n}
    <2> HIDE DEF K
    <2> QED BY <1>1, <1>2, Zenon
<1> DEFINE G(k) == [front |-> k, ahead |-> {m \in over : m > k}]
<1>4. {G(k) : k \in K} = {G(n)}
    <2> HIDE DEF K, G
    <2> QED BY <1>3, Zenon
<1> QED BY <1>4, Zenon

\* update_xid_rep on the list is UpdateXidRep on the window, and reports the xid.
LEMMA UpdateLemma ==
    ASSUME NEW s, Compressed(s), NEW xid \in Nat \ {0}
    PROVE  LET u == UpdateXidRepList(s, xid)
           IN  /\ Compressed(u)
               /\ UpdateXidRep(Window(s), xid) = {Window(u)}
               /\ Covered(Window(u)) = Covered(Window(s)) \cup {xid}
<1> DEFINE u == UpdateXidRepList(s, xid)
           f == s[1]
<1>1. Sorted(s) /\ Len(s) > 0 /\ Head(s) = f /\ s[1] + 1 \notin Elems(s)
    BY DEF Compressed, Sorted
<1>2. /\ Window(s) = [front |-> f, ahead |-> {n \in Elems(s) : n > f}]
      /\ f \in Nat /\ Elems(s) \subseteq Nat
    BY <1>1, WindowLemma
<1>3. Window(s).front = f /\ Window(s).ahead = {n \in Elems(s) : n > f}
    BY <1>2
<1> HIDE DEF f
<1>4. CASE xid <= f
    <2>1. u = s
        BY <1>1, <1>4, Zenon DEF UpdateXidRepList
    <2>2. UpdateXidRep(Window(s), xid) = {Window(s)}
        BY <1>3, <1>4, Zenon DEF UpdateXidRep
    <2>3. xid \in 1 .. f
        BY <1>2, <1>4
    <2>4. Covered(Window(s)) \cup {xid} = Covered(Window(s))
        BY <1>3, <2>3, Zenon DEF Covered
    <2> QED BY <2>1, <2>2, <2>4, Zenon
<1>5. CASE ~(xid <= f)
    <2> DEFINE t == Inserted(s, xid)
               over == {n \in Elems(t) : n > f}
    <2>1. xid > f
        BY <1>2, <1>5
    <2>2. Sorted(t) /\ Len(t) = Len(s) + 1 /\ Elems(t) = Elems(s) \cup {xid} /\ t[1] = f
        BY <1>1, <2>1, InsertLemma, Zenon DEF f
    <2>3. Len(t) > 0
        BY <1>1, <2>2 DEF Sorted
    <2>4. u = Compress(t)
        BY <1>1, <1>5, Zenon DEF UpdateXidRepList
    <2> HIDE DEF t, u
    <2>5. PICK j \in 1 .. Len(t) : /\ Compress(t) = SubSeq(t, j, Len(t))
                                   /\ \A m \in t[1] .. t[j] : m \in Elems(t)
                                   /\ t[j] + 1 \notin Elems(t)
        BY <2>2, <2>3, CompressLemma, Zenon
    <2> DEFINE n == t[j]
    <2>6. /\ Sorted(u) /\ Len(u) > 0 /\ u[1] = n
          /\ {m \in Elems(u) : m > n} = {m \in Elems(t) : m > n}
          /\ Elems(u) \subseteq Elems(t)
        BY <2>2, <2>4, <2>5, SuffixLemma, Zenon
    <2>7. n \in Nat /\ f <= n
        <3>1. t \in Seq(Nat) /\ 1 \in 1 .. Len(t) /\ 1 <= j
            BY <2>2, <2>3, <2>5 DEF Sorted
        <3>2. t[1] <= t[j]
            BY <2>2, <3>1, Zenon DEF Sorted
        <3> QED BY <2>2, <2>5, <3>1, <3>2
    <2>8. Compressed(u)
        BY <2>5, <2>6, Zenon DEF Compressed
    <2>9. Window(u) = [front |-> n, ahead |-> {m \in Elems(t) : m > n}]
        BY <2>6, WindowLemma, Zenon
    <2> HIDE DEF n
    <2>10. Elems(t) \subseteq Nat
        BY <1>2, <2>2
    <2>11. {m \in Elems(t) : m > n} = {m \in over : m > n}
        BY <2>7, <1>2, <2>10
    <2>12. Window(s).ahead \cup {xid} = over
        BY <1>2, <1>3, <2>1, <2>2
    <2>13. /\ over \in SUBSET Nat /\ \A m \in over : m > f
           /\ \A m \in f + 1 .. n : m \in over
           /\ n + 1 \notin over
        <3>1. \A m \in f .. n : m \in Elems(t)
            BY <2>2, <2>5, Zenon DEF n
        <3>2. \A m \in f + 1 .. n : m \in f .. n /\ m > f
            BY <1>2, <2>7
        <3>3. n + 1 \notin Elems(t)
            BY <2>5, Zenon DEF n
        <3> QED BY <2>10, <3>1, <3>2, <3>3, Zenon
    <2> HIDE DEF over
    <2>14. UpdateXidRep(Window(s), xid)
           = {[front |-> k, ahead |-> {m \in over : m > k}] :
                 k \in {k \in {f} \cup over : (\A m \in f + 1 .. k : m \in over) /\ k + 1 \notin over}}
        BY <1>3, <1>5, <2>12, Zenon DEF UpdateXidRep
    <2>15. n >= f
        BY <1>2, <2>7
    <2>16. UpdateXidRep(Window(s), xid) = {[front |-> n, ahead |-> {m \in over : m > n}]}
        BY <1>2, <2>7, <2>13, <2>14, <2>15, RunLemma, Zenon
    <2>17. UpdateXidRep(Window(s), xid) = {Window(u)}
        BY <2>9, <2>11, <2>16, Zenon
    <2>18. Covered(Window(u)) = 1 .. n \cup {m \in over : m > n}
        BY <2>9, <2>11 DEF Covered
    <2>19. Covered(Window(s)) \cup {xid} = 1 .. f \cup over
        BY <1>3, <2>12, Zenon DEF Covered
    <2>20. 1 .. n \cup {m \in over : m > n} = 1 .. f \cup over
        <3>1. \A m \in 1 .. n : m \in 1 .. f \/ m \in f + 1 .. n
            BY <1>2, <2>7
        <3>2. \A m \in 1 .. f : m \in 1 .. n
            BY <1>2, <2>7
        <3>3. \A m \in over : m > n \/ m \in 1 .. n
            BY <1>2, <2>7, <2>13
        <3> QED BY <2>13, <3>1, <3>2, <3>3, Zenon
    <2> QED BY <2>8, <2>17, <2>18, <2>19, <2>20, Zenon DEF u
<1> QED BY <1>4, <1>5, Zenon

-----------------------------------------------------------------------------
(* The list of replies.                                                    *)

ReplyEntries == [xid : Calls, st : {"inprogress", "present"}]

\* u has the entries of s beyond r, in their order.
KeptOf(u, s, r) ==
    /\ u \in Seq(ReplyEntries)
    /\ \A i \in 1 .. Len(u) : u[i].xid > r /\ \E k \in 1 .. Len(s) : u[i] = s[k]
    /\ \A k \in 1 .. Len(s) : s[k].xid > r => \E i \in 1 .. Len(u) : u[i] = s[k]
    /\ \A i, j \in 1 .. Len(u) :
          i < j => \E k, l \in 1 .. Len(s) : k < l /\ u[i] = s[k] /\ u[j] = s[l]
    /\ (\A k \in 1 .. Len(s) : s[k].xid > r) => u = s

\* That is what the scan keeps.
LEMMA KeptLemma ==
    ASSUME NEW s \in Seq(ReplyEntries), NEW r \in Nat
    PROVE  KeptOf(Kept(s, r), s, r)
<1> DEFINE u == Kept(s, r)
           E == ReplyEntries
           N == Len(s)
           Step(x, k) == IF s[k].xid > r THEN Append(x, s[k]) ELSE x
           Eq(g) == g = [k \in 0 .. N |-> IF k = 0 THEN <<>>
                                          ELSE IF s[k].xid > r THEN Append(g[k - 1], s[k])
                                          ELSE g[k - 1]]
           passed == CHOOSE g : Eq(g)
           S == Seq(E)
           H == [p \in S \X (1 .. N) |-> Step(p[1], p[2])]
<1>1. N \in Nat /\ \A k \in 1 .. N : s[k] \in E
    <2> HIDE DEF E
    <2>1. s \in Seq(E)
        BY DEF E
    <2> QED BY <2>1
<1>2. u = passed[N]
    BY DEF Kept
<1> HIDE DEF E, N, u
<1>3. ASSUME NEW x \in S, NEW k \in 1 .. N
      PROVE  /\ Append(x, s[k]) \in S /\ Step(x, k) \in S
             /\ Len(x) \in Nat /\ Len(Append(x, s[k])) = Len(x) + 1
             /\ \A i \in 1 .. Len(x) : Append(x, s[k])[i] = x[i]
             /\ Append(x, s[k])[Len(x) + 1] = s[k]
    BY <1>1
<1>4. H \in [S \X (1 .. N) -> S]
    <2> HIDE DEF Step, S
    <2>1. ASSUME NEW p \in S \X (1 .. N)
          PROVE  Step(p[1], p[2]) \in S
        <3>1. p[1] \in S /\ p[2] \in 1 .. N
            OBVIOUS
        <3> QED BY <1>3, <3>1, Zenon
    <2> QED BY <2>1, Zenon
<1>5. <<>> \in S
    OBVIOUS
<1>6. \E g : Eq(g)
    <2> HIDE DEF S
    <2>1. PICK g \in [0 .. N -> S] : Follows(g, N, <<>>, H)
        <3> HIDE DEF H
        <3> QED BY <1>1, <1>4, <1>5, Recursion, Zenon
    <2>2. ASSUME NEW k \in 0 .. N
          PROVE  g[k] = IF k = 0 THEN <<>> ELSE Step(g[k - 1], k)
        <3> HIDE DEF Step
        <3>1. CASE k = 0
            BY <2>1, <3>1, Zenon DEF Follows
        <3>2. CASE k # 0
            <4>1. k - 1 \in 0 .. N /\ k \in 1 .. N
                BY <1>1, <3>2
            <4>2. <<g[k - 1], k>> \in S \X (1 .. N)
                BY <2>1, <4>1
            <4>3. H[g[k - 1], k] = Step(g[k - 1], k)
                BY <4>2, Zenon
            <4>4. g[k] = H[g[k - 1], k]
                <5> HIDE DEF H
                <5> QED BY <2>1, <4>1, Zenon DEF Follows
            <4> QED BY <3>2, <4>3, <4>4, Zenon
        <3> QED BY <3>1, <3>2, Zenon
    <2>3. Eq(g)
        BY <2>1, <2>2, Zenon
    <2> QED BY <2>3, Zenon
<1>7. Eq(passed)
    <2> HIDE DEF Eq
    <2> QED BY <1>6, Zenon
<1> HIDE DEF passed, S
<1>8. passed[0] = <<>> /\ \A k \in 1 .. N : passed[k] = Step(passed[k - 1], k)
    <2>1. 0 \in 0 .. N /\ \A k \in 1 .. N : k \in 0 .. N /\ k # 0
        BY <1>1
    <2> QED BY <1>7, <2>1, Zenon
<1> HIDE DEF H, Eq
<1> DEFINE Whole(x, n) == Len(x) = n /\ \A i \in 1 .. n : x[i] = s[i]
           P(x, n) ==
              /\ x \in S
              /\ \A i \in 1 .. Len(x) : x[i].xid > r /\ \E k \in 1 .. n : x[i] = s[k]
              /\ \A k \in 1 .. n : s[k].xid > r => \E i \in 1 .. Len(x) : x[i] = s[k]
              /\ \A i, j \in 1 .. Len(x) :
                    i < j => \E k, l \in 1 .. n : k < l /\ x[i] = s[k] /\ x[j] = s[l]
              /\ (\A k \in 1 .. n : s[k].xid > r) => Whole(x, n)
           T == {n \in 0 .. N : P(passed[n], n)}
<1>9. 0 \in T
    <2>1. Len(<<>>) = 0 /\ 1 .. 0 = {} /\ 0 \in 0 .. N
        BY <1>1
    <2>2. P(<<>>, 0)
        BY <1>5, <2>1, Zenon
    <2> QED BY <1>8, <2>1, <2>2, Zenon
<1>10. ASSUME NEW n \in 1 .. N, n - 1 \in T
       PROVE  n \in T
    <2> DEFINE x == passed[n - 1]
               y == passed[n]
    <2>1. P(x, n - 1) /\ x \in S /\ y = Step(x, n) /\ n \in 0 .. N
        <3>1. n \in 0 .. N
            BY <1>1
        <3>2. y = Step(x, n)
            BY <1>8, Zenon
        <3>3. P(x, n - 1)
            <4> HIDE DEF P
            <4> QED BY <1>10, Zenon
        <3>4. x \in S
            BY <3>3, Zenon
        <3> HIDE DEF P, Step
        <3> QED BY <3>1, <3>2, <3>3, <3>4, Zenon
    <2>2. /\ n \in 1 .. n /\ \A k \in 1 .. n - 1 : k \in 1 .. n /\ k < n
          /\ \A k \in 1 .. n : k \in 1 .. n - 1 \/ k = n
        BY <1>1
    <2> HIDE DEF x, y, T
    <2>3. CASE s[n].xid > r
        <3>1. y = Append(x, s[n])
            BY <2>1, <2>3, Zenon
        <3> DEFINE M == Len(x)
        <3>2. /\ y \in S /\ M \in Nat /\ Len(y) = M + 1
              /\ \A i \in 1 .. M : y[i] = x[i]
              /\ y[M + 1] = s[n]
            <4>1. x \in S
                BY <2>1, Zenon
            <4> QED BY <1>3, <3>1, <4>1, Zenon
        <3> HIDE DEF M
        <3>3. /\ \A i \in 1 .. M + 1 : i \in 1 .. M \/ i = M + 1
              /\ \A i \in 1 .. M : i \in 1 .. M + 1
              /\ M + 1 \in 1 .. M + 1
              /\ \A i, j \in 1 .. M + 1 : i < j => i \in 1 .. M /\ (j \in 1 .. M \/ j = M + 1)
            BY <3>2
        <3>4. \A i \in 1 .. Len(y) : y[i].xid > r /\ \E k \in 1 .. n : y[i] = s[k]
            <4>1. ASSUME NEW i \in 1 .. M
                  PROVE  y[i].xid > r /\ \E k \in 1 .. n : y[i] = s[k]
                <5>1. x[i].xid > r /\ \E k \in 1 .. n - 1 : x[i] = s[k]
                    BY <2>1, Zenon DEF M
                <5> QED BY <2>2, <3>2, <5>1, Zenon
            <4>2. y[M + 1].xid > r /\ \E k \in 1 .. n : y[M + 1] = s[k]
                BY <2>2, <2>3, <3>2, Zenon
            <4> QED BY <3>2, <3>3, <4>1, <4>2, Zenon
        <3>5. \A k \in 1 .. n : s[k].xid > r => \E i \in 1 .. Len(y) : y[i] = s[k]
            <4> TAKE k \in 1 .. n
            <4>1. CASE k = n
                BY <3>2, <3>3, <4>1, Zenon
            <4>2. ASSUME k \in 1 .. n - 1, s[k].xid > r
                  PROVE  \E i \in 1 .. Len(y) : y[i] = s[k]
                <5>1. PICK i \in 1 .. M : x[i] = s[k]
                    BY <2>1, <4>2, Zenon DEF M
                <5> QED BY <3>2, <3>3, <5>1, Zenon
            <4> QED BY <2>2, <4>1, <4>2, Zenon
        <3>6. ASSUME NEW i \in 1 .. Len(y), NEW j \in 1 .. Len(y), i < j
              PROVE  \E k, l \in 1 .. n : k < l /\ y[i] = s[k] /\ y[j] = s[l]
            <4>1. i \in 1 .. M /\ (j \in 1 .. M \/ j = M + 1)
                BY <3>2, <3>3, <3>6, Zenon
            <4>2. CASE j = M + 1
                <5>1. PICK k \in 1 .. n - 1 : x[i] = s[k]
                    BY <2>1, <4>1, Zenon DEF M
                <5> QED BY <2>2, <3>2, <4>1, <4>2, <5>1, Zenon
            <4>3. CASE j \in 1 .. M
                <5>1. PICK k \in 1 .. n - 1, l \in 1 .. n - 1 : k < l /\ x[i] = s[k] /\ x[j] = s[l]
                    BY <2>1, <3>6, <4>1, <4>3, Zenon DEF M
                <5> QED BY <2>2, <3>2, <4>1, <4>3, <5>1, Zenon
            <4> QED BY <4>1, <4>2, <4>3
        <3>7. ASSUME \A k \in 1 .. n : s[k].xid > r
              PROVE  Whole(y, n)
            <4>1. Whole(x, n - 1)
                BY <2>1, <2>2, <3>7, Zenon
            <4>2. M + 1 = n /\ M = n - 1
                BY <4>1 DEF M
            <4> QED BY <2>2, <3>2, <4>1, <4>2, Zenon
        <3>8. P(y, n)
            BY <3>2, <3>4, <3>5, <3>6, <3>7, Zenon
        <3> QED BY <2>1, <3>8, Zenon DEF T, y
    <2>4. CASE ~(s[n].xid > r)
        <3>1. y = x
            BY <2>1, <2>4, Zenon
        <3>2. P(x, n)
            <4>1. \A k \in 1 .. n : s[k].xid > r => k \in 1 .. n - 1
                BY <2>2, <2>4, Zenon
            <4>2. ~ \A k \in 1 .. n : s[k].xid > r
                BY <2>2, <2>4, Zenon
            <4>3. \A i \in 1 .. Len(x) : x[i].xid > r /\ \E k \in 1 .. n : x[i] = s[k]
                <5> TAKE i \in 1 .. Len(x)
                <5>1. x[i].xid > r /\ \E k \in 1 .. n - 1 : x[i] = s[k]
                    BY <2>1, Zenon
                <5> QED BY <2>2, <5>1, Zenon
            <4>4. ASSUME NEW i \in 1 .. Len(x), NEW j \in 1 .. Len(x), i < j
                  PROVE  \E k, l \in 1 .. n : k < l /\ x[i] = s[k] /\ x[j] = s[l]
                <5>1. PICK k \in 1 .. n - 1, l \in 1 .. n - 1 : k < l /\ x[i] = s[k] /\ x[j] = s[l]
                    BY <2>1, <4>4, Zenon
                <5> QED BY <2>2, <5>1, Zenon
            <4>5. \A k \in 1 .. n : s[k].xid > r => \E i \in 1 .. Len(x) : x[i] = s[k]
                BY <2>1, <4>1, Zenon
            <4> QED BY <2>1, <4>2, <4>3, <4>4, <4>5, Zenon
        <3> HIDE DEF P
        <3>3. P(y, n)
            BY <3>1, <3>2, Zenon
        <3> QED BY <2>1, <3>3, Zenon DEF T, y
    <2> QED BY <2>3, <2>4
<1>11. P(u, N)
    <2>1. N \in T
        <3> HIDE DEF T
        <3>1. N \in 0 .. N
            BY <1>1
        <3> QED BY <1>1, <1>9, <1>10, <3>1, UpTo
    <2> HIDE DEF P
    <2> QED BY <1>2, <2>1
<1>12. ASSUME \A k \in 1 .. N : s[k].xid > r
       PROVE  u = s
    <2>1. Len(u) = N /\ \A i \in 1 .. N : u[i] = s[i]
        BY <1>11, <1>12, Zenon
    <2>2. u \in Seq(E) /\ s \in Seq(E) /\ Len(s) = N
        BY <1>11, Zenon DEF S, N, E
    <2> QED BY <1>1, <2>1, <2>2
<1>13. KeptOf(u, s, r)
    BY <1>11, <1>12, Zenon DEF S, N, E, KeptOf
<1> QED BY <1>13, Zenon DEF u

\* No two entries are for the same call, and those ahead of an entry are beyond the
\* xid_rep of its requests: the scan that appended it has passed them.
InOrderOf(s, acks) ==
    \A i, j \in 1 .. Len(s) : i < j => s[i].xid # s[j].xid /\ s[i].xid > acks[s[j].xid]

DistinctXids(s) == \A i, j \in 1 .. Len(s) : i # j => s[i].xid # s[j].xid

\* The window that a list stands for has its entries and no others.
LEMMA EntryLemma ==
    ASSUME NEW s \in Seq(ReplyEntries), DistinctXids(s), NEW x \in Calls
    PROVE  /\ \A i \in 1 .. Len(s) :
                 s[i].xid = x => IndexOf(s, x) = i /\ WindowOf(s)[x] = [st |-> s[i].st, val |-> 0]
           /\ (\A i \in 1 .. Len(s) : s[i].xid # x) => IndexOf(s, x) = 0 /\ WindowOf(s)[x] = Absent
<1> DEFINE I == {i \in DOMAIN s : s[i].xid = x}
<1>1. DOMAIN s = 1 .. Len(s) /\ Len(s) \in Nat
    OBVIOUS
<1>2. I \in SUBSET Nat
    BY <1>1
<1>3. IndexOf(s, x) = IF I = {} THEN 0 ELSE First(I)
    BY Zenon DEF IndexOf
<1>4. WindowOf(s)[x] = IF IndexOf(s, x) = 0 THEN Absent
                       ELSE [st |-> s[IndexOf(s, x)].st, val |-> 0]
    BY Zenon DEF WindowOf
<1>5. ASSUME NEW i \in 1 .. Len(s), s[i].xid = x
      PROVE  IndexOf(s, x) = i /\ WindowOf(s)[x] = [st |-> s[i].st, val |-> 0]
    <2>1. i \in I
        BY <1>1, <1>5, Zenon
    <2>2. First(I) \in I
        <3> HIDE DEF I
        <3> QED BY <1>2, <2>1, FirstLemma, Zenon
    <2>3. First(I) \in 1 .. Len(s) /\ s[First(I)].xid = x
        BY <1>1, <2>2, Zenon
    <2>4. First(I) = i
        BY <1>5, <2>3, Zenon DEF DistinctXids
    <2>5. IndexOf(s, x) = i
        <3> HIDE DEF I
        <3> QED BY <1>3, <2>1, <2>4, Zenon
    <2>6. i # 0
        BY <1>1
    <2> QED BY <1>4, <2>5, <2>6, Zenon
<1>6. ASSUME \A i \in 1 .. Len(s) : s[i].xid # x
      PROVE  IndexOf(s, x) = 0 /\ WindowOf(s)[x] = Absent
    <2>1. I = {}
        BY <1>1, <1>6, Zenon
    <2> HIDE DEF I
    <2> QED BY <1>3, <1>4, <2>1, Zenon
<1> QED BY <1>5, <1>6, Zenon

\* In such an order no call has two entries.
LEMMA OrderDistinct ==
    ASSUME NEW s, NEW acks, Len(s) \in Nat, InOrderOf(s, acks)
    PROVE  DistinctXids(s)
<1> SUFFICES ASSUME NEW i \in 1 .. Len(s), NEW j \in 1 .. Len(s), i # j
             PROVE  s[i].xid # s[j].xid
    BY DEF DistinctXids
<1>1. i < j \/ j < i
    OBVIOUS
<1> QED BY <1>1, Zenon DEF InOrderOf

\* u has what the scan keeps of s, and a new entry for xid.
ScannedNew(u, s, xid, acks) ==
    /\ u \in Seq(ReplyEntries) /\ InOrderOf(u, acks)
    /\ \A i \in 1 .. Len(u) :
          \/ u[i] = [xid |-> xid, st |-> "inprogress"]
          \/ u[i].xid > acks[xid] /\ \E k \in 1 .. Len(s) : u[i] = s[k]
    /\ \E i \in 1 .. Len(u) : u[i] = [xid |-> xid, st |-> "inprogress"]
    /\ \A k \in 1 .. Len(s) : s[k].xid > acks[xid] => \E i \in 1 .. Len(u) : u[i] = s[k]

\* That is the list after the scan, when there is no entry for the call.
LEMMA ScanNew ==
    ASSUME NEW s \in Seq(ReplyEntries), NEW xid \in Calls, ack \in [Calls -> Nat],
           InOrderOf(s, ack), \A i \in 1 .. Len(s) : s[i].xid # xid
    PROVE  ScannedNew(Scan(s, xid).list, s, xid, ack) /\ Scan(s, xid).ret = "NEW"
<1> DEFINE u == Scan(s, xid).list
           r == ack[xid]
           v == Kept(s, r)
           e == [xid |-> xid, st |-> "inprogress"]
           M == Len(v)
           E == ReplyEntries
<1>1. IndexOf(s, xid) = 0
    <2>1. DistinctXids(s)
        BY OrderDistinct
    <2> QED BY <2>1, EntryLemma, Zenon
<1>2. u = Append(v, e) /\ Scan(s, xid).ret = "NEW"
    BY <1>1 DEF Scan
<1>3. r \in Nat
    OBVIOUS
<1> HIDE DEF r, v, u
<1>4. /\ v \in Seq(ReplyEntries)
      /\ \A i \in 1 .. M : v[i].xid > r /\ \E k \in 1 .. Len(s) : v[i] = s[k]
      /\ \A k \in 1 .. Len(s) : s[k].xid > r => \E i \in 1 .. M : v[i] = s[k]
      /\ \A i, j \in 1 .. M :
            i < j => \E k, l \in 1 .. Len(s) : k < l /\ v[i] = s[k] /\ v[j] = s[l]
    <2>1. KeptOf(v, s, r)
        BY <1>3, KeptLemma, Zenon DEF v
    <2> QED BY <2>1, Zenon DEF KeptOf
<1>5. e \in E /\ e.xid = xid
    BY DEF ReplyEntries
<1> HIDE DEF E, e
<1>6. /\ u \in Seq(E) /\ M \in Nat /\ Len(u) = M + 1
      /\ \A i \in 1 .. M : u[i] = v[i]
      /\ u[M + 1] = e
    <2>1. v \in Seq(E)
        BY <1>4, Zenon DEF E
    <2> QED BY <1>2, <1>5, <2>1
<1> HIDE DEF M
<1>7. /\ \A i \in 1 .. M + 1 : i \in 1 .. M \/ i = M + 1
      /\ \A i \in 1 .. M : i \in 1 .. M + 1
      /\ M + 1 \in 1 .. M + 1
      /\ \A i, j \in 1 .. M + 1 : i < j => i \in 1 .. M /\ (j \in 1 .. M \/ j = M + 1)
    BY <1>6
<1>8. ASSUME NEW i \in 1 .. Len(u), NEW j \in 1 .. Len(u), i < j
      PROVE  u[i].xid # u[j].xid /\ u[i].xid > ack[u[j].xid]
    <2>1. i \in 1 .. M /\ (j \in 1 .. M \/ j = M + 1)
        BY <1>6, <1>7, <1>8, Zenon
    <2>2. CASE j = M + 1
        <3>1. v[i].xid > r /\ \E k \in 1 .. Len(s) : v[i] = s[k]
            BY <1>4, <2>1, Zenon
        <3>2. v[i].xid # xid
            BY <3>1, Zenon
        <3> QED BY <1>5, <1>6, <2>1, <2>2, <3>1, <3>2, Zenon DEF r
    <2>3. CASE j \in 1 .. M
        <3>1. PICK k \in 1 .. Len(s), l \in 1 .. Len(s) : k < l /\ v[i] = s[k] /\ v[j] = s[l]
            BY <1>4, <1>8, <2>1, <2>3, Zenon
        <3>2. s[k].xid # s[l].xid /\ s[k].xid > ack[s[l].xid]
            BY <3>1, Zenon DEF InOrderOf
        <3> QED BY <1>6, <2>1, <2>3, <3>1, <3>2, Zenon
    <2> QED BY <2>1, <2>2, <2>3
<1>9. InOrderOf(u, ack)
    BY <1>8, Zenon DEF InOrderOf
<1>10. \A i \in 1 .. Len(u) : \/ u[i] = e
                              \/ u[i].xid > r /\ \E k \in 1 .. Len(s) : u[i] = s[k]
    <2> TAKE i \in 1 .. Len(u)
    <2>1. CASE i \in 1 .. M
        <3>1. v[i].xid > r /\ \E k \in 1 .. Len(s) : v[i] = s[k]
            BY <1>4, <2>1, Zenon
        <3>2. u[i] = v[i]
            BY <1>6, <2>1, Zenon
        <3> QED BY <3>1, <3>2, Zenon
    <2>2. CASE i = M + 1
        BY <1>6, <2>2, Zenon
    <2> QED BY <1>6, <1>7, <2>1, <2>2, Zenon
<1>11. \E i \in 1 .. Len(u) : u[i] = e
    BY <1>6, <1>7, Zenon
<1>12. ASSUME NEW k \in 1 .. Len(s), s[k].xid > r
       PROVE  \E i \in 1 .. Len(u) : u[i] = s[k]
    <2>1. PICK i \in 1 .. M : v[i] = s[k]
        BY <1>4, <1>12, Zenon
    <2> QED BY <1>6, <1>7, <2>1, Zenon
<1>13. ScannedNew(u, s, xid, ack)
    BY <1>6, <1>9, <1>10, <1>11, <1>12, Zenon DEF E, e, r, ScannedNew
<1> QED BY <1>2, <1>13, Zenon DEF u

\* The scan, when there is an entry for a call that is not covered by its own xid_rep:
\* it leaves the list as it was.
LEMMA ScanOld ==
    ASSUME NEW s \in Seq(ReplyEntries), NEW xid \in Calls, ack \in [Calls -> Nat],
           InOrderOf(s, ack), NEW i \in 1 .. Len(s), s[i].xid = xid, ack[xid] < xid
    PROVE  /\ Scan(s, xid).list = s
           /\ Scan(s, xid).ret = IF s[i].st = "present" THEN "DONE" ELSE "INPROGRESS"
<1> DEFINE a == SubSeq(s, 1, i - 1)
           rest == SubSeq(s, i + 1, Len(s))
           r == ack[xid]
           E == ReplyEntries
<1>1. IndexOf(s, xid) = i
    <2>1. DistinctXids(s)
        BY OrderDistinct
    <2> QED BY <2>1, EntryLemma, Zenon
<1>2. i \in Nat /\ i # 0 /\ ~(xid <= ack[xid]) /\ r \in Nat /\ Len(s) \in Nat
    BY DEF Calls
<1>3. /\ a \in Seq(E) /\ Len(a) = i - 1 /\ \A k \in 1 .. i - 1 : a[k] = s[k]
      /\ <<s[i]>> \in Seq(E)
      /\ rest \in Seq(E) /\ Len(rest) = Len(s) - i /\ \A k \in 1 .. Len(s) - i : rest[k] = s[i + k]
    <2> HIDE DEF E
    <2>1. s \in Seq(E)
        BY DEF E
    <2> QED BY <1>2, <2>1
<1>4. a \o <<s[i]>> \o rest = s
    <2> HIDE DEF a, rest, E
    <2>1. s \in Seq(E)
        BY DEF E
    <2> DEFINE b == a \o <<s[i]>>
    <2>2. /\ b \in Seq(E) /\ Len(b) = i
          /\ \A k \in 1 .. i : b[k] = s[k]
        BY <1>2, <1>3
    <2> HIDE DEF b
    <2> DEFINE c == b \o rest
    <2>3. /\ c \in Seq(E)
          /\ Len(c) = Len(b) + Len(rest)
          /\ \A k \in 1 .. Len(b) + Len(rest) :
                c[k] = IF k <= Len(b) THEN b[k] ELSE rest[k - Len(b)]
        BY <1>3, <2>2, ConcatProperties, Zenon
    <2> HIDE DEF c
    <2>4. Len(c) = Len(s)
        BY <1>2, <1>3, <2>2, <2>3
    <2>5. ASSUME NEW k \in 1 .. Len(s)
          PROVE  c[k] = s[k]
        <3>1. k \in 1 .. Len(b) + Len(rest)
            BY <2>3, <2>4
        <3>2. CASE k <= i
            <4>1. k \in 1 .. i
                BY <1>2, <3>2
            <4> QED BY <2>2, <2>3, <3>1, <3>2, <4>1, Zenon
        <3>3. CASE ~(k <= i)
            <4>1. k - i \in 1 .. Len(s) - i /\ i + (k - i) = k
                BY <1>2, <3>3
            <4>2. c[k] = rest[k - i]
                BY <2>2, <2>3, <3>1, <3>3, Zenon
            <4>3. rest[k - i] = s[i + (k - i)]
                BY <1>3, <4>1, Zenon
            <4> QED BY <4>1, <4>2, <4>3
        <3> QED BY <3>2, <3>3
    <2>6. c = s
        BY <1>2, <2>1, <2>3, <2>4, <2>5
    <2> QED BY <2>6, Zenon DEF b, c
<1>5. Kept(a, r) = a
    <2>1. \A k \in 1 .. Len(a) : a[k].xid > r
        <3> TAKE k \in 1 .. Len(a)
        <3>1. k \in 1 .. Len(s) /\ k < i /\ k \in 1 .. i - 1
            <4>1. k \in 1 .. i - 1
                BY <1>3, Zenon
            <4> QED BY <1>2, <4>1
        <3>2. s[k].xid > r
            BY <3>1, Zenon DEF InOrderOf
        <3> QED BY <1>3, <3>1, <3>2, Zenon
    <2> HIDE DEF a, r
    <2>2. KeptOf(Kept(a, r), a, r)
        BY <1>2, <1>3, KeptLemma, Zenon
    <2> QED BY <2>1, <2>2, Zenon DEF KeptOf
<1>6. Scan(s, xid) = [list |-> Kept(a, r) \o <<s[i]>> \o rest,
                      ret |-> IF s[i].st = "present" THEN "DONE" ELSE "INPROGRESS"]
    BY <1>1, <1>2, Zenon DEF Scan
<1> HIDE DEF a, r, rest
<1> QED BY <1>4, <1>5, <1>6

-----------------------------------------------------------------------------
(* The invariant of both lists.                                            *)

\* The list of xids stands for what was reported, and the list of replies is in an
\* order that the scan keeps.  A call is made with an xid_rep below its own xid.
ListsInv ==
    /\ made \in 0 .. MaxXid
    /\ ack \in [Calls -> Nat] /\ \A x \in 1 .. made : ack[x] < x
    /\ Compressed(xid_rep_window_)
    /\ Covered(Window(xid_rep_window_)) = reported
    /\ reported \subseteq 1 .. made
    /\ list \in Seq(ReplyEntries) /\ InOrderOf(list, ack)
    /\ \A i \in 1 .. Len(list) : list[i].xid <= made

\* The front of the list is the xid of a call that was made, or 0.
LEMMA FrontLemma ==
    ASSUME ListsInv
    PROVE  /\ Head(xid_rep_window_) = xid_rep_window_[1]
           /\ Head(xid_rep_window_) \in 0 .. made
           /\ Window(xid_rep_window_) =
                 [front |-> Head(xid_rep_window_),
                  ahead |-> {n \in Elems(xid_rep_window_) : n > Head(xid_rep_window_)}]
<1> DEFINE s == xid_rep_window_
           f == s[1]
<1>1. Sorted(s) /\ Len(s) > 0 /\ Covered(Window(s)) = reported /\ reported \subseteq 1 .. made /\ made \in Nat
    BY DEF ListsInv, Compressed
<1>2. Window(s) = [front |-> f, ahead |-> {n \in Elems(s) : n > f}] /\ f \in Nat
    BY <1>1, WindowLemma, Zenon
<1>3. Head(s) = f
    BY <1>1 DEF Sorted
<1> HIDE DEF f
<1>4. 1 .. f \subseteq 1 .. made
    BY <1>1, <1>2 DEF Covered
<1>5. f \in 0 .. made
    <2>1. f = 0 \/ f \in 1 .. f
        BY <1>2
    <2> QED BY <1>1, <1>4, <2>1
<1> QED BY <1>2, <1>3, <1>5, Zenon DEF f

\* A new call.
LEMMA MakeCallLemma ==
    ASSUME ListsInv, MakeCall
    PROVE  ListsInv'
<1> DEFINE n == made + 1
           f == Head(xid_rep_window_)
<1>1. /\ made < MaxXid /\ made' = n /\ ack' = [ack EXCEPT ![n] = f]
      /\ UNCHANGED <<xid_rep_window_, reported, list>>
    BY DEF MakeCall, listVars, replyVars
<1>2. /\ made \in Nat /\ MaxXid \in Nat /\ made \in 0 .. MaxXid /\ f \in 0 .. made
      /\ n \in Calls /\ n \in 0 .. MaxXid
    BY <1>1, FrontLemma, ListAssumption DEF ListsInv, Calls
<1> HIDE DEF f
<1>3. /\ ack' \in [Calls -> Nat] /\ ack'[n] = f /\ \A x \in Calls : x # n => ack'[x] = ack[x]
    BY <1>1, <1>2 DEF ListsInv
<1>4. \A x \in 1 .. made' : ack'[x] < x
    <2> TAKE x \in 1 .. made'
    <2>1. x \in Calls /\ (x # n => x \in 1 .. made)
        BY <1>1, <1>2 DEF Calls
    <2> QED BY <1>2, <1>3, <2>1 DEF ListsInv
<1>5. list \in Seq(ReplyEntries) /\ InOrderOf(list, ack) /\ \A i \in 1 .. Len(list) : list[i].xid <= made
    BY DEF ListsInv
<1>6. \A i \in 1 .. Len(list) : list[i].xid \in Calls /\ list[i].xid # n /\ list[i].xid <= n
    <2> DEFINE E == ReplyEntries
    <2>1. \A i \in 1 .. Len(list) : list[i] \in E
        <3> HIDE DEF E
        <3>1. list \in Seq(E)
            BY <1>5 DEF E
        <3> QED BY <3>1
    <2>2. \A i \in 1 .. Len(list) : list[i].xid \in Calls /\ list[i].xid <= made
        BY <1>5, <2>1 DEF ReplyEntries
    <2>3. \A x \in Calls : x <= made => x # n /\ x <= n
        BY <1>2 DEF Calls
    <2> QED BY <2>2, <2>3, Zenon
<1>7. InOrderOf(list, ack')
    BY <1>3, <1>5, <1>6, Zenon DEF InOrderOf
<1>8. reported \subseteq 1 .. n
    BY <1>2 DEF ListsInv
<1> QED BY <1>1, <1>2, <1>3, <1>4, <1>5, <1>6, <1>7, <1>8, Zenon DEF ListsInv

\* An xid is reported: the list of xids does what the window does.
LEMMA ReportLemma ==
    ASSUME ListsInv, NEW xid \in 1 .. made, Update(xid), UNCHANGED <<made, ack, replyVars>>
    PROVE  /\ ListsInv'
           /\ UpdateXidRep(Window(xid_rep_window_), xid) = {Window(xid_rep_window_')}
           /\ reported' = reported \cup {xid} /\ xid \in 1 .. MaxXid
<1> DEFINE s == xid_rep_window_
           u == UpdateXidRepList(s, xid)
<1>1. xid \in Nat \ {0} /\ xid \in 1 .. MaxXid
    BY ListAssumption DEF ListsInv
<1>2. Compressed(u) /\ UpdateXidRep(Window(s), xid) = {Window(u)}
      /\ Covered(Window(u)) = Covered(Window(s)) \cup {xid}
    BY <1>1, UpdateLemma, Zenon DEF ListsInv
<1>3. xid_rep_window_' = u /\ reported' = reported \cup {xid} /\ UNCHANGED <<made, ack, list>>
    BY DEF Update, replyVars
<1> HIDE DEF u
<1>4. ListsInv'
    BY <1>2, <1>3, Zenon DEF ListsInv
<1> QED BY <1>1, <1>2, <1>3, <1>4, Zenon

\* The entry that add_reply fills.
LEMMA FilledLemma ==
    ASSUME ListsInv, NEW xid \in Calls
    PROVE  \/ /\ \A i \in 1 .. Len(list) : list[i].xid # xid
              /\ Filled(list, xid) = list
           \/ \E i \in 1 .. Len(list) :
                 /\ list[i].xid = xid
                 /\ Filled(list, xid) = [list EXCEPT ![i].st = "present"]
<1>1. list \in Seq(ReplyEntries) /\ DistinctXids(list)
    BY OrderDistinct DEF ListsInv
<1>2. CASE \A i \in 1 .. Len(list) : list[i].xid # xid
    <2>1. IndexOf(list, xid) = 0
        BY <1>1, <1>2, EntryLemma, Zenon
    <2> QED BY <1>2, <2>1, Zenon DEF Filled
<1>3. ASSUME NEW i \in 1 .. Len(list), list[i].xid = xid
      PROVE  Filled(list, xid) = [list EXCEPT ![i].st = "present"]
    <2>1. IndexOf(list, xid) = i
        BY <1>1, <1>3, EntryLemma, Zenon
    <2>2. i # 0
        OBVIOUS
    <2> QED BY <2>1, <2>2, Zenon DEF Filled
<1> QED BY <1>2, <1>3, Zenon

\* u is the list s, in which entry i got its reply.
PresentOf(u, s, i) ==
    /\ u \in Seq(ReplyEntries) /\ Len(u) = Len(s)
    /\ \A k \in 1 .. Len(s) : u[k].xid = s[k].xid
    /\ \A k \in 1 .. Len(s) : k # i => u[k] = s[k]
    /\ u[i].st = "present"

\* An entry is filled in place.
LEMMA PresentLemma ==
    ASSUME NEW s \in Seq(ReplyEntries), NEW i \in 1 .. Len(s)
    PROVE  PresentOf([s EXCEPT ![i].st = "present"], s, i)
<1> DEFINE u == [s EXCEPT ![i].st = "present"]
           E == ReplyEntries
           e == [s[i] EXCEPT !.st = "present"]
<1>1. s[i] \in E /\ s \in Seq(E) /\ Len(s) \in Nat
    <2> HIDE DEF E
    <2>1. s \in Seq(E)
        BY DEF E
    <2> QED BY <2>1
<1>2. e \in E /\ e.xid = s[i].xid /\ e.st = "present"
    BY <1>1 DEF ReplyEntries
<1>3. u = [s EXCEPT ![i] = e]
    BY Zenon
<1> HIDE DEF E, e, u
<1>4. u \in Seq(E) /\ Len(u) = Len(s) /\ u[i] = e /\ \A k \in 1 .. Len(s) : k # i => u[k] = s[k]
    BY <1>1, <1>2, <1>3
<1>5. \A k \in 1 .. Len(s) : u[k].xid = s[k].xid
    BY <1>2, <1>4, Zenon
<1>6. PresentOf(u, s, i)
    <2> HIDE DEF u
    <2> QED BY <1>2, <1>4, <1>5, Zenon DEF E, PresentOf
<1> QED BY <1>6, Zenon DEF u

\* add_reply keeps the order.
LEMMA AddReplyLemma ==
    ASSUME ListsInv, NEW xid \in 1 .. made, AddReplyList(xid), UNCHANGED <<made, ack, listVars>>
    PROVE  ListsInv'
<1>1. xid \in Calls
    BY ListAssumption DEF ListsInv, Calls
<1>2. list' = Filled(list, xid) /\ UNCHANGED <<made, ack, xid_rep_window_, reported>>
    BY DEF AddReplyList, listVars
<1>3. list \in Seq(ReplyEntries) /\ InOrderOf(list, ack) /\ \A i \in 1 .. Len(list) : list[i].xid <= made
    BY DEF ListsInv
<1>4. CASE list' = list
    BY <1>2, <1>4, Zenon DEF ListsInv
<1>5. ASSUME NEW i \in 1 .. Len(list), list' = [list EXCEPT ![i].st = "present"]
      PROVE  ListsInv'
    <2>1. /\ list' \in Seq(ReplyEntries) /\ Len(list') = Len(list)
          /\ \A k \in 1 .. Len(list) : list'[k].xid = list[k].xid
        <3>1. PresentOf(list', list, i)
            BY <1>3, <1>5, PresentLemma, Zenon
        <3> QED BY <3>1, Zenon DEF PresentOf
    <2>2. InOrderOf(list', ack)
        BY <1>3, <2>1, Zenon DEF InOrderOf
    <2>3. \A k \in 1 .. Len(list') : list'[k].xid <= made
        BY <1>3, <2>1, Zenon
    <2> QED BY <1>2, <2>1, <2>2, <2>3, Zenon DEF ListsInv
<1> QED BY <1>1, <1>2, <1>4, <1>5, FilledLemma, Zenon

\* checkduplicate_and_update keeps the order, and drops what its xid_rep covers.
LEMMA CheckLemma ==
    ASSUME ListsInv, NEW xid \in 1 .. made, CheckDuplicateList(xid), UNCHANGED <<made, ack, listVars>>
    PROVE  ListsInv'
<1>1. xid \in Calls /\ xid <= made /\ ack[xid] < xid
    <2>1. xid \in Calls /\ xid <= made
        BY ListAssumption DEF ListsInv, Calls
    <2>2. ack[xid] < xid
        BY Zenon DEF ListsInv
    <2> QED BY <2>1, <2>2
<1>2. list' = Scan(list, xid).list /\ UNCHANGED <<made, ack, xid_rep_window_, reported>>
    BY DEF CheckDuplicateList, listVars
<1>3. /\ list \in Seq(ReplyEntries) /\ InOrderOf(list, ack) /\ ack \in [Calls -> Nat]
      /\ \A i \in 1 .. Len(list) : list[i].xid <= made
    BY DEF ListsInv
<1>4. CASE \A i \in 1 .. Len(list) : list[i].xid # xid
    <2> DEFINE e == [xid |-> xid, st |-> "inprogress"]
    <2>1. /\ list' \in Seq(ReplyEntries) /\ InOrderOf(list', ack)
          /\ \A i \in 1 .. Len(list') :
                \/ list'[i] = e
                \/ list'[i].xid > ack[xid] /\ \E k \in 1 .. Len(list) : list'[i] = list[k]
        <3>1. ScannedNew(list', list, xid, ack)
            BY <1>1, <1>2, <1>3, <1>4, ScanNew, Zenon
        <3> QED BY <3>1, Zenon DEF ScannedNew
    <2>2. e.xid = xid
        OBVIOUS
    <2> HIDE DEF e
    <2>3. \A i \in 1 .. Len(list') : list'[i].xid <= made
        BY <1>1, <1>3, <2>1, <2>2, Zenon
    <2> QED BY <1>2, <2>1, <2>3, Zenon DEF ListsInv
<1>5. ASSUME NEW i \in 1 .. Len(list), list[i].xid = xid
      PROVE  ListsInv'
    <2>1. list' = list
        BY <1>1, <1>2, <1>3, <1>5, ScanOld, Zenon
    <2> QED BY <1>2, <2>1, Zenon DEF ListsInv
<1> QED BY <1>4, <1>5, Zenon

\* Steps of one client and its server.
LEMMA ListsStep ==
    ASSUME ListsInv, [ListsNext]_listsVars
    PROVE  ListsInv' /\ [\E xid \in 1 .. MaxXid :
                            /\ reported' = reported \cup {xid}
                            /\ UpdateXidRep(Window(xid_rep_window_), xid) = {Window(xid_rep_window_')}]_listVars
<1>1. CASE UNCHANGED listsVars
    BY <1>1, Zenon DEF listsVars, listVars, replyVars, ListsInv
<1>2. CASE MakeCall
    BY <1>2, MakeCallLemma, Zenon DEF MakeCall
<1>3. ASSUME NEW xid \in 1 .. made, Update(xid), UNCHANGED <<made, ack, replyVars>>
      PROVE  ListsInv' /\ \E x \in 1 .. MaxXid :
                             /\ reported' = reported \cup {x}
                             /\ UpdateXidRep(Window(xid_rep_window_), x) = {Window(xid_rep_window_')}
    BY <1>3, ReportLemma, Zenon
<1>4. ASSUME NEW xid \in 1 .. made, CheckDuplicateList(xid), UNCHANGED <<made, ack, listVars>>
      PROVE  ListsInv' /\ UNCHANGED listVars
    BY <1>4, CheckLemma, Zenon
<1>5. ASSUME NEW xid \in 1 .. made, AddReplyList(xid), UNCHANGED <<made, ack, listVars>>
      PROVE  ListsInv' /\ UNCHANGED listVars
    BY <1>5, AddReplyLemma, Zenon
<1> QED BY <1>1, <1>2, <1>3, <1>4, <1>5, Zenon DEF ListsNext

\* At first the list of xids has only the 0, and there is no reply.
LEMMA ListsStart ==
    ASSUME ListsInit
    PROVE  ListsInv
<1> DEFINE s == xid_rep_window_
<1>1. s = <<0>> /\ reported = {} /\ made = 0 /\ ack = [x \in Calls |-> 0] /\ list = <<>>
    BY DEF ListsInit, ListInit
<1>2. Sorted(s) /\ Len(s) > 0 /\ s[1] = 0 /\ Elems(s) = {0}
    BY <1>1 DEF Sorted, Elems
<1>3. Compressed(s)
    BY <1>2 DEF Compressed
<1>4. Window(s) = [front |-> 0, ahead |-> {n \in {0} : n > 0}]
    BY <1>2, WindowLemma, Zenon
<1>5. Covered(Window(s)) = {}
    BY <1>4 DEF Covered
<1>6. list \in Seq(ReplyEntries) /\ Len(list) = 0
    BY <1>1
<1>7. InOrderOf(list, ack) /\ \A i \in 1 .. Len(list) : list[i].xid <= made
    BY <1>6 DEF InOrderOf
<1>8. made \in 0 .. MaxXid /\ ack \in [Calls -> Nat] /\ \A x \in 1 .. made : ack[x] < x
    BY <1>1, ListAssumption
<1> QED BY <1>1, <1>3, <1>5, <1>6, <1>7, <1>8, Zenon DEF ListsInv

\* The inductive invariant of the two lists.
THEOREM ListsInvariant == ListsSpec => []ListsInv
BY ListsStart, ListsStep, PTL DEF ListsSpec

\* update_xid_rep on the list is the update of the window, for any xids in any order.
THEOREM WindowUpdates == ListsSpec => ImplementsWindow
<1>1. ASSUME ListsInv, [ListsNext]_listsVars
      PROVE  [\E xid \in 1 .. MaxXid :
                 /\ reported' = reported \cup {xid}
                 /\ UpdateXidRep(Window(xid_rep_window_), xid) = {Window(xid_rep_window_')}]_listVars
    BY <1>1, ListsStep, Zenon
<1> QED BY <1>1, ListsInvariant, PTL DEF ListsSpec, ImplementsWindow

\* The front is the end of the longest run of xids that were reported.
THEOREM FrontIsExact == ListsSpec => []FrontExact
<1>1. ASSUME ListsInv
      PROVE  FrontExact
    <2> DEFINE s == xid_rep_window_
               f == Head(s)
    <2>1. /\ Window(s) = [front |-> f, ahead |-> {n \in Elems(s) : n > f}]
          /\ f \in Nat /\ f + 1 \notin Elems(s) /\ Covered(Window(s)) = reported
        BY <1>1, FrontLemma DEF ListsInv, Compressed
    <2>2. Covered(Window(s)) = 1 .. f \cup {n \in Elems(s) : n > f}
        BY <2>1 DEF Covered
    <2>3. f + 1 \notin 1 .. f
        BY <2>1
    <2> QED BY <2>1, <2>2, <2>3, Zenon DEF FrontExact
<1> QED BY <1>1, ListsInvariant, PTL

\* A copy of a call for which there is no entry.
LEMMA AgreesNew ==
    ASSUME ListsInv, NEW xid \in Calls, \A i \in 1 .. Len(list) : list[i].xid # xid,
           NEW h, h = [xid |-> xid, xid_rep |-> ack[xid]]
    PROVE  /\ WindowOf(Scan(list, xid).list) = Checked(WindowOf(list), h)
           /\ Scan(list, xid).ret = Status(WindowOf(list), h)
<1> DEFINE u == Scan(list, xid).list
           win == WindowOf(list)
           r == ack[xid]
           e == [xid |-> xid, st |-> "inprogress"]
<1>1. list \in Seq(ReplyEntries) /\ InOrderOf(list, ack) /\ ack \in [Calls -> Nat]
    BY DEF ListsInv
<1>2. ScannedNew(u, list, xid, ack) /\ Scan(list, xid).ret = "NEW"
    BY <1>1, ScanNew, Zenon
<1>3. DistinctXids(list)
    BY <1>1, OrderDistinct
<1>4. h.xid = xid /\ h.xid_rep = r
    OBVIOUS
<1>5. win[xid] = Absent /\ DOMAIN win = Calls /\ DOMAIN WindowOf(u) = Calls
    <2>1. win[xid] = Absent
        BY <1>1, <1>3, EntryLemma, Zenon
    <2> QED BY <2>1, Zenon DEF WindowOf
<1>6. Status(win, h) = "NEW"
    <2>1. win[h.xid].st = "absent"
        BY <1>4, <1>5 DEF Absent
    <2> HIDE DEF win
    <2> QED BY <2>1, Zenon DEF Status
<1> HIDE DEF u, win, r
<1>7. /\ u \in Seq(ReplyEntries) /\ InOrderOf(u, ack)
      /\ \A i \in 1 .. Len(u) : \/ u[i] = e
                                \/ u[i].xid > r /\ \E k \in 1 .. Len(list) : u[i] = list[k]
      /\ \E i \in 1 .. Len(u) : u[i] = e
      /\ \A k \in 1 .. Len(list) : list[k].xid > r => \E i \in 1 .. Len(u) : u[i] = list[k]
    BY <1>2, Zenon DEF ScannedNew, r
<1>8. DistinctXids(u)
    <2>1. Len(u) \in Nat
        BY <1>7
    <2> QED BY <1>7, <2>1, OrderDistinct, Zenon
<1>9. e.xid = xid /\ e.st = "inprogress"
    OBVIOUS
<1> HIDE DEF e
<1>10. Checked(win, h) = [x \in Calls |-> IF x = xid THEN InProgress
                                          ELSE IF x \in Dropped(win, h) THEN Absent ELSE win[x]]
    BY <1>4, <1>5, <1>6, Zenon DEF Checked
<1>11. Dropped(win, h) = {x \in Calls : x <= r /\ win[x].st # "absent"}
    BY <1>4, <1>5, <1>6, Zenon DEF Dropped
<1>12. ASSUME NEW x \in Calls
       PROVE  WindowOf(u)[x] = IF x = xid THEN InProgress
                               ELSE IF x \in Dropped(win, h) THEN Absent ELSE win[x]
    <2>1. CASE x = xid
        <3>1. PICK i \in 1 .. Len(u) : u[i] = e
            BY <1>7, Zenon
        <3>2. WindowOf(u)[xid] = [st |-> u[i].st, val |-> 0]
            BY <1>7, <1>8, <1>9, <3>1, EntryLemma, Zenon
        <3> QED BY <1>9, <2>1, <3>1, <3>2, Zenon DEF InProgress
    <2>2. CASE x # xid /\ \A k \in 1 .. Len(list) : list[k].xid # x
        <3>1. \A i \in 1 .. Len(u) : u[i].xid # x
            BY <1>7, <1>9, <2>2, Zenon
        <3>2. WindowOf(u)[x] = Absent
            BY <1>7, <1>8, <3>1, EntryLemma, Zenon
        <3>3. win[x] = Absent
            BY <1>1, <1>3, <2>2, EntryLemma, Zenon DEF win
        <3> QED BY <2>2, <3>2, <3>3, Zenon
    <2>3. ASSUME x # xid, NEW k \in 1 .. Len(list), list[k].xid = x
          PROVE  WindowOf(u)[x] = IF x \in Dropped(win, h) THEN Absent ELSE win[x]
        <3>1. win[x] = [st |-> list[k].st, val |-> 0]
            BY <1>1, <1>3, <2>3, EntryLemma, Zenon DEF win
        <3>2. win[x].st # "absent"
            <4> DEFINE E == ReplyEntries
            <4>1. list[k] \in E
                <5> HIDE DEF E
                <5>1. list \in Seq(E)
                    BY <1>1 DEF E
                <5> QED BY <5>1
            <4> QED BY <3>1, <4>1 DEF ReplyEntries
        <3>3. CASE x > r
            <4>1. PICK i \in 1 .. Len(u) : u[i] = list[k]
                BY <1>7, <2>3, <3>3, Zenon
            <4>2. WindowOf(u)[x] = [st |-> u[i].st, val |-> 0]
                BY <1>7, <1>8, <2>3, <4>1, EntryLemma, Zenon
            <4>3. x \notin Dropped(win, h)
                <5>1. ~(x <= r)
                    BY <1>1, <3>3 DEF Calls, r
                <5> QED BY <1>11, <5>1, Zenon
            <4> QED BY <3>1, <4>1, <4>2, <4>3, Zenon
        <3>4. CASE ~(x > r)
            <4>1. x <= r
                BY <1>1, <3>4 DEF Calls, r
            <4>2. \A i \in 1 .. Len(u) : u[i].xid # x
                BY <1>7, <1>9, <2>3, <3>4, Zenon
            <4>3. WindowOf(u)[x] = Absent
                BY <1>7, <1>8, <4>2, EntryLemma, Zenon
            <4>4. x \in Dropped(win, h)
                BY <1>11, <3>2, <4>1, Zenon
            <4> QED BY <4>3, <4>4, Zenon
        <3> QED BY <3>3, <3>4
    <2> QED BY <2>1, <2>2, <2>3, Zenon
<1>13. WindowOf(u) = [x \in Calls |-> WindowOf(u)[x]]
    BY Zenon DEF WindowOf
<1>14. WindowOf(u) = Checked(win, h)
    BY <1>10, <1>12, <1>13, Zenon
<1> QED BY <1>2, <1>6, <1>14, Zenon DEF u, win

\* A copy of a call for which there is an entry.
LEMMA AgreesOld ==
    ASSUME ListsInv, NEW xid \in 1 .. made, NEW i \in 1 .. Len(list), list[i].xid = xid,
           NEW h, h = [xid |-> xid, xid_rep |-> ack[xid]]
    PROVE  /\ WindowOf(Scan(list, xid).list) = Checked(WindowOf(list), h)
           /\ Scan(list, xid).ret = Status(WindowOf(list), h)
<1> DEFINE win == WindowOf(list)
           r == ack[xid]
<1>1. list \in Seq(ReplyEntries) /\ InOrderOf(list, ack) /\ ack \in [Calls -> Nat] /\ Len(list) \in Nat
    BY DEF ListsInv
<1>2. xid \in Calls
    BY ListAssumption DEF ListsInv, Calls
<1>3. r < xid
    BY Zenon DEF ListsInv
<1>4. ~(xid <= r)
    BY <1>1, <1>2, <1>3 DEF Calls
<1>5. /\ Scan(list, xid).list = list
      /\ Scan(list, xid).ret = IF list[i].st = "present" THEN "DONE" ELSE "INPROGRESS"
    BY <1>1, <1>2, <1>3, ScanOld, Zenon
<1>6. DistinctXids(list)
    BY <1>1, OrderDistinct
<1>7. win[xid] = [st |-> list[i].st, val |-> 0]
    BY <1>1, <1>2, <1>6, EntryLemma, Zenon
<1>8. win = [x \in DOMAIN win |-> win[x]]
    BY Zenon DEF WindowOf
<1>9. list[i].st \in {"inprogress", "present"}
    <2> DEFINE E == ReplyEntries
    <2>1. list[i] \in E
        <3> HIDE DEF E
        <3>1. list \in Seq(E)
            BY <1>1 DEF E
        <3> QED BY <3>1
    <2> QED BY <2>1 DEF ReplyEntries
<1> HIDE DEF win, r
<1>10. h.xid = xid /\ h.xid_rep = r
    BY DEF r
<1>11. win[h.xid].st = list[i].st
    BY <1>7, <1>10
<1>12. Status(win, h) = IF list[i].st = "present" THEN "DONE" ELSE "INPROGRESS"
    <2>1. list[i].st # "absent"
        BY <1>9
    <2> QED BY <1>4, <1>10, <1>11, <2>1, Zenon DEF Status
<1>13. Status(win, h) # "NEW" /\ Status(win, h) # "FORGOTTEN"
    BY <1>12
<1>14. Dropped(win, h) = {}
    BY <1>13, Zenon DEF Dropped
<1>15. Checked(win, h) = win
    BY <1>8, <1>13, <1>14, Zenon DEF Checked
<1> QED BY <1>5, <1>12, <1>15, Zenon DEF win

\* add_reply on the list is Answered on the window.
LEMMA AgreesFilled ==
    ASSUME ListsInv, NEW xid \in Calls
    PROVE  WindowOf(Filled(list, xid)) = Answered(WindowOf(list), xid, 0)
<1> DEFINE win == WindowOf(list)
<1>1. list \in Seq(ReplyEntries) /\ InOrderOf(list, ack) /\ Len(list) \in Nat
    BY DEF ListsInv
<1>2. DistinctXids(list)
    BY <1>1, OrderDistinct
<1>3. ASSUME \A i \in 1 .. Len(list) : list[i].xid # xid, Filled(list, xid) = list
      PROVE  WindowOf(Filled(list, xid)) = Answered(win, xid, 0)
    <2>1. win[xid] = Absent
        BY <1>1, <1>2, <1>3, EntryLemma, Zenon
    <2>2. win[xid].st = "absent"
        BY <2>1 DEF Absent
    <2> QED BY <1>3, <2>2, Zenon DEF Answered
<1>4. ASSUME NEW i \in 1 .. Len(list), list[i].xid = xid,
             Filled(list, xid) = [list EXCEPT ![i].st = "present"]
      PROVE  WindowOf(Filled(list, xid)) = Answered(win, xid, 0)
    <2> DEFINE u == Filled(list, xid)
               a == [st |-> "present", val |-> 0]
    <2>1. PresentOf(u, list, i)
        BY <1>1, <1>4, PresentLemma, Zenon
    <2> HIDE DEF u, win
    <2>2. /\ u \in Seq(ReplyEntries) /\ Len(u) = Len(list)
          /\ \A k \in 1 .. Len(list) : u[k].xid = list[k].xid
          /\ \A k \in 1 .. Len(list) : k # i => u[k] = list[k]
          /\ u[i].st = "present"
        BY <2>1, Zenon DEF PresentOf
    <2>3. DistinctXids(u)
        BY <1>2, <2>2, Zenon DEF DistinctXids
    <2>4. WindowOf(u)[xid] = a
        <3>1. i \in 1 .. Len(u) /\ u[i].xid = xid
            BY <1>4, <2>2
        <3>2. WindowOf(u)[xid] = [st |-> u[i].st, val |-> 0]
            BY <2>2, <2>3, <3>1, EntryLemma, Zenon
        <3> QED BY <2>2, <3>2, Zenon
    <2>5. ASSUME NEW x \in Calls, x # xid
          PROVE  WindowOf(u)[x] = win[x]
        <3>1. CASE \A k \in 1 .. Len(list) : list[k].xid # x
            <4>1. WindowOf(u)[x] = Absent
                <5>1. \A k \in 1 .. Len(u) : u[k].xid # x
                    BY <2>2, <3>1, Zenon
                <5> QED BY <2>2, <2>3, <5>1, EntryLemma, Zenon
            <4>2. win[x] = Absent
                BY <1>1, <1>2, <3>1, EntryLemma, Zenon DEF win
            <4> QED BY <4>1, <4>2
        <3>2. ASSUME NEW k \in 1 .. Len(list), list[k].xid = x
              PROVE  WindowOf(u)[x] = win[x]
            <4>1. u[k] = list[k]
                BY <1>4, <2>2, <2>5, <3>2, Zenon
            <4>2. WindowOf(u)[x] = [st |-> u[k].st, val |-> 0]
                <5>1. k \in 1 .. Len(u) /\ u[k].xid = x
                    BY <2>2, <3>2
                <5> QED BY <2>2, <2>3, <5>1, EntryLemma, Zenon
            <4>3. win[x] = [st |-> list[k].st, val |-> 0]
                BY <1>1, <1>2, <3>2, EntryLemma, Zenon DEF win
            <4> QED BY <4>1, <4>2, <4>3
        <3> QED BY <3>1, <3>2, Zenon
    <2>6. DOMAIN win = Calls /\ WindowOf(u) = [x \in Calls |-> WindowOf(u)[x]]
          /\ win = [x \in Calls |-> win[x]]
        BY Zenon DEF WindowOf, win
    <2>7. WindowOf(u) = [win EXCEPT ![xid] = a]
        <3> DEFINE w == WindowOf(u)
        <3> HIDE DEF w
        <3>1. w = [x \in Calls |-> w[x]] /\ w[xid] = a /\ \A x \in Calls : x # xid => w[x] = win[x]
            BY <2>4, <2>5, <2>6, Zenon DEF w
        <3> HIDE DEF a
        <3> QED BY <2>6, <3>1 DEF w
    <2>8. win[xid].st # "absent"
        <3>1. win[xid] = [st |-> list[i].st, val |-> 0]
            BY <1>1, <1>2, <1>4, EntryLemma, Zenon DEF win
        <3> DEFINE E == ReplyEntries
        <3>2. list[i] \in E
            <4> HIDE DEF E
            <4>1. list \in Seq(E)
                BY <1>1 DEF E
            <4> QED BY <4>1
        <3> QED BY <3>1, <3>2 DEF ReplyEntries
    <2> QED BY <2>7, <2>8, Zenon DEF Answered, u
<1> QED BY <1>3, <1>4, FilledLemma, Zenon

\* The scans of checkduplicate_and_update and add_reply do to the list what the
\* operators of ReplyWindow do to the window, for copies that come in any order.
THEOREM ScansAgree == ListsSpec => []AgreesWithWindow
<1>1. ASSUME ListsInv
      PROVE  AgreesWithWindow
    <2>1. ASSUME NEW xid \in 1 .. made, NEW h, h = [xid |-> xid, xid_rep |-> ack[xid]]
          PROVE  /\ WindowOf(Scan(list, xid).list) = Checked(WindowOf(list), h)
                 /\ Scan(list, xid).ret = Status(WindowOf(list), h)
                 /\ WindowOf(Filled(list, xid)) = Answered(WindowOf(list), xid, 0)
        <3>1. xid \in Calls
            BY <1>1, ListAssumption DEF ListsInv, Calls
        <3>2. CASE \A i \in 1 .. Len(list) : list[i].xid # xid
            BY <1>1, <2>1, <3>1, <3>2, AgreesNew, AgreesFilled, Zenon
        <3>3. ASSUME NEW i \in 1 .. Len(list), list[i].xid = xid
              PROVE  /\ WindowOf(Scan(list, xid).list) = Checked(WindowOf(list), h)
                     /\ Scan(list, xid).ret = Status(WindowOf(list), h)
            BY <1>1, <2>1, <3>3, AgreesOld, Zenon
        <3> QED BY <1>1, <3>1, <3>2, <3>3, AgreesFilled, Zenon
    <2> QED BY <2>1, Zenon DEF AgreesWithWindow
<1> QED BY <1>1, ListsInvariant, PTL

-----------------------------------------------------------------------------
(***************************************************************************)
(* The pool, for any numbers of callers and workers and any capacity of    *)
(* the queue: jobs are taken in order, none is left behind when the pool   *)
(* is gone, and no wakeup is lost.                                         *)
(*                                                                         *)
(* That nothing is left in the queue in the end takes two counts: the      *)
(* pills are the last jobs that were queued, and a worker has exited for   *)
(* every pill that was taken.                                              *)
(***************************************************************************)

AllJobs == Callers \cup {Pill}

AwakeWorkers == {w \in Workers : wpc[w] \in {"take", "run"}}
AwakeCallers == {p \in Callers : cpc[p] = "add"}
Exited == {w \in Workers : wpc[w] = "exited"}

\* The queue is what was accepted and not taken yet.
QueueOK ==
    /\ Len(accepted) = Len(taken) + Len(q_)
    /\ \A i \in 1 .. Len(taken) : accepted[i] = taken[i]
    /\ \A i \in 1 .. Len(q_) : accepted[Len(taken) + i] = q_[i]

\* The accepted jobs before the pills.
RealJobs == Len(accepted) - pills

PillsLast ==
    /\ RealJobs >= 0
    /\ \A i \in 1 .. Len(accepted) : accepted[i] = Pill <=> i > RealJobs

\* A worker has exited for every pill that was taken.
ExitedOK ==
    Cardinality(Exited) = IF Len(taken) <= RealJobs THEN 0 ELSE Len(taken) - RealJobs

DestroyerOK ==
    /\ dpc = "off" => pills = 0
    /\ dpc # "off" => \A p \in Callers : cpc[p] \in {"added", "refused"}
    /\ dpc \in {"join", "gone"} => pills = Cardinality(Workers)
    /\ dpc = "gone" => \A w \in Workers : wpc[w] = "exited"

WorkersWoken == (\E w \in Workers : wpc[w] = "wait") => Cardinality(AwakeWorkers) >= Len(q_)

CallersWoken ==
    /\ dpc = "wait" => Len(q_) = max_
    /\ (\E p \in Callers : cpc[p] = "wait") => Cardinality(AwakeCallers) + Len(q_) >= max_

PoolInv ==
    /\ PoolTypeOK
    /\ QueueOK
    /\ PillsLast
    /\ ExitedOK
    /\ DestroyerOK
    /\ WorkersWoken
    /\ CallersWoken

-----------------------------------------------------------------------------
\* What Append does to a queue, in fifo::enq.
LEMMA AppendProps ==
    ASSUME NEW S, NEW q \in Seq(S), NEW e \in S
    PROVE  /\ Append(q, e) \in Seq(S)
           /\ Len(q) \in Nat
           /\ Len(Append(q, e)) = Len(q) + 1
           /\ \A i \in 1 .. Len(q) : Append(q, e)[i] = q[i]
           /\ Append(q, e)[Len(q) + 1] = e
  OBVIOUS

\* What Tail does to it, in fifo::deq.
LEMMA TailProps ==
    ASSUME NEW S, NEW q \in Seq(S), q # <<>>
    PROVE  /\ Tail(q) \in Seq(S)
           /\ Head(q) = q[1] /\ q[1] \in S
           /\ Len(q) \in Nat \ {0}
           /\ Len(Tail(q)) = Len(q) - 1
           /\ \A i \in 1 .. Len(Tail(q)) : Tail(q)[i] = q[i + 1] /\ i + 1 \in 1 .. Len(q)
  OBVIOUS

\* The sets that are counted are finite.
LEMMA CountedFinite ==
    /\ IsFiniteSet(AwakeWorkers) /\ Cardinality(AwakeWorkers) \in Nat
    /\ IsFiniteSet(AwakeCallers) /\ Cardinality(AwakeCallers) \in Nat
    /\ IsFiniteSet(Exited) /\ Cardinality(Exited) \in Nat
    /\ Cardinality(Workers) \in Nat \ {0}
  <1>1. AwakeWorkers \in SUBSET Workers /\ Exited \in SUBSET Workers /\ AwakeCallers \in SUBSET Callers
    BY DEF AwakeWorkers, Exited, AwakeCallers
  <1>2. IsFiniteSet(AwakeWorkers) /\ IsFiniteSet(Exited) /\ IsFiniteSet(AwakeCallers)
    BY <1>1, PoolAssumption, FS_Subset
  <1>3. Cardinality(Workers) # 0
    BY PoolAssumption, FS_EmptySet
  <1> QED
    BY <1>2, <1>3, PoolAssumption, FS_CardinalityType

\* A worker that wakes up is awake.
LEMMA WorkerWakes ==
    ASSUME PoolInv, NEW w \in Workers, wpc[w] = "wait", wpc' = [wpc EXCEPT ![w] = "take"]
    PROVE  /\ Cardinality(AwakeWorkers') = Cardinality(AwakeWorkers) + 1
           /\ Exited' = Exited
           /\ wpc' \in [Workers -> {"take", "wait", "run", "exited"}]
           /\ \A v \in Workers : wpc[v] = "exited" <=> wpc'[v] = "exited"
  <1>1. wpc'[w] = "take" /\ \A v \in Workers : v # w => wpc'[v] = wpc[v]
    BY DEF PoolInv, PoolTypeOK
  <1>2. AwakeWorkers' = AwakeWorkers \cup {w} /\ w \notin AwakeWorkers
    BY <1>1 DEF AwakeWorkers
  <1>3. Exited' = Exited
    BY <1>1 DEF Exited
  <1>4. Cardinality(AwakeWorkers') = Cardinality(AwakeWorkers) + 1
    BY <1>2, CountedFinite, FS_AddElement
  <1> QED
    BY <1>1, <1>3, <1>4 DEF PoolInv, PoolTypeOK

\* A caller that wakes up is awake.
LEMMA CallerWakes ==
    ASSUME PoolInv, NEW p \in Callers, cpc[p] = "wait", cpc' = [cpc EXCEPT ![p] = "add"]
    PROVE  /\ Cardinality(AwakeCallers') = Cardinality(AwakeCallers) + 1
           /\ cpc' \in [Callers -> {"add", "wait", "added", "refused"}]
           /\ dpc = "off"
  <1>1. cpc'[p] = "add" /\ \A v \in Callers : v # p => cpc'[v] = cpc[v]
    BY DEF PoolInv, PoolTypeOK
  <1>2. AwakeCallers' = AwakeCallers \cup {p} /\ p \notin AwakeCallers
    BY <1>1 DEF AwakeCallers
  <1>3. Cardinality(AwakeCallers') = Cardinality(AwakeCallers) + 1
    BY <1>2, CountedFinite, FS_AddElement
  <1> QED
    BY <1>1, <1>3 DEF PoolInv, PoolTypeOK, DestroyerOK

\* The invariant holds when the pool is made.
LEMMA PoolInvInit == Init => PoolInv
  <1> SUFFICES ASSUME Init PROVE PoolInv
    OBVIOUS
  <1>1. Len(q_) = 0 /\ Len(accepted) = 0 /\ Len(taken) = 0 /\ pills = 0
    BY DEF Init
  <1>2. q_ \in Seq(Callers \cup {Pill}) /\ accepted \in Seq(Callers \cup {Pill}) /\ taken \in Seq(Callers \cup {Pill})
    BY DEF Init
  <1>3. PoolTypeOK
    BY <1>1, <1>2, CountedFinite, PoolAssumption DEF Init, PoolTypeOK
  <1>4. QueueOK /\ PillsLast
    BY <1>1 DEF QueueOK, PillsLast, RealJobs
  <1>5. ExitedOK
    <2>1. Exited = {}
      BY DEF Init, Exited
    <2> QED
      BY <1>1, <2>1, FS_EmptySet DEF ExitedOK, RealJobs
  <1>6. DestroyerOK /\ WorkersWoken /\ CallersWoken
    BY DEF Init, DestroyerOK, WorkersWoken, CallersWoken
  <1> QED
    BY <1>3, <1>4, <1>5, <1>6 DEF PoolInv

\* fifo::enq puts a job, or a pill, at the end and wakes a worker that waits.
LEMMA PushStep ==
    ASSUME PoolInv, NEW job \in AllJobs, Push(job), pills' \in Nat,
           \/ job # Pill /\ pills = 0 /\ pills' = 0
           \/ job = Pill /\ pills' = pills + 1
    PROVE  /\ q_' \in Seq(AllJobs) /\ accepted' \in Seq(AllJobs)
           /\ Len(q_') = Len(q_) + 1 /\ (max_ # 0 => Len(q_') <= max_)
           /\ wpc' \in [Workers -> {"take", "wait", "run", "exited"}]
           /\ \A v \in Workers : wpc[v] = "exited" <=> wpc'[v] = "exited"
           /\ QueueOK' /\ PillsLast' /\ ExitedOK' /\ WorkersWoken'
  <1> DEFINE n == Len(accepted)
             m == Len(q_)
             k == Len(taken)
  <1>0. /\ q_ \in Seq(AllJobs) /\ accepted \in Seq(AllJobs) /\ taken \in Seq(AllJobs)
        /\ pills \in Nat /\ max_ \in Nat
    BY PoolAssumption DEF PoolInv, PoolTypeOK, AllJobs
  <1>1. /\ q_' \in Seq(AllJobs) /\ accepted' \in Seq(AllJobs)
        /\ n \in Nat /\ m \in Nat /\ k \in Nat
        /\ Len(q_') = m + 1 /\ Len(accepted') = n + 1
        /\ \A i \in 1 .. m : q_'[i] = q_[i]
        /\ \A i \in 1 .. n : accepted'[i] = accepted[i]
        /\ q_'[m + 1] = job /\ accepted'[n + 1] = job
        /\ taken' = taken
    BY <1>0, AppendProps DEF Push
  <1>2. max_ # 0 => m + 1 <= max_
    BY <1>0, <1>1 DEF Push, HasSpace
  <1>3. QueueOK'
    <2>1. n = k + m /\ n + 1 = k + (m + 1)
      BY <1>1 DEF PoolInv, QueueOK
    <2>2. ASSUME NEW i \in 1 .. k PROVE accepted'[i] = taken[i]
      BY <1>1, <2>1 DEF PoolInv, QueueOK
    <2>3. ASSUME NEW i \in 1 .. m + 1 PROVE accepted'[k + i] = q_'[i]
      <3>1. CASE i \in 1 .. m
        <4>1. k + i \in 1 .. n
          BY <1>1, <2>1, <3>1
        <4> QED
          BY <1>1, <3>1, <4>1 DEF PoolInv, QueueOK
      <3>2. CASE i = m + 1
        BY <1>1, <2>1, <3>2
      <3> QED
        BY <1>1, <3>1, <3>2
    <2> QED
      BY <1>1, <2>1, <2>2, <2>3 DEF QueueOK
  <1>4. PillsLast'
    <2>1. n - pills >= 0 /\ \A i \in 1 .. n : accepted[i] = Pill <=> i > n - pills
      BY DEF PoolInv, PillsLast, RealJobs
    <2>2. n + 1 - pills' >= 0
      BY <1>0, <1>1, <2>1
    <2>3. ASSUME NEW i \in 1 .. n + 1
          PROVE  accepted'[i] = Pill <=> i > n + 1 - pills'
      <3>1. CASE i \in 1 .. n
        <4>1. accepted'[i] = accepted[i] /\ (accepted[i] = Pill <=> i > n - pills)
          BY <1>1, <2>1, <3>1
        <4> QED
          BY <1>0, <1>1, <3>1, <4>1
      <3>2. CASE i = n + 1
        BY <1>0, <1>1, <3>2
      <3> QED
        BY <1>1, <3>1, <3>2
    <2> QED
      BY <1>1, <2>2, <2>3 DEF PillsLast, RealJobs
  <1>5. /\ wpc' \in [Workers -> {"take", "wait", "run", "exited"}]
        /\ Exited' = Exited
        /\ \A v \in Workers : wpc[v] = "exited" <=> wpc'[v] = "exited"
        /\ \/ Cardinality(AwakeWorkers') = Cardinality(AwakeWorkers) + 1 /\ \E w \in Workers : wpc[w] = "wait"
           \/ \A w \in Workers : wpc'[w] # "wait"
    <2>1. CASE \E w \in Workers : wpc[w] = "wait" /\ wpc' = [wpc EXCEPT ![w] = "take"]
      BY <2>1, WorkerWakes
    <2>2. CASE (\A w \in Workers : wpc[w] # "wait") /\ UNCHANGED wpc
      BY <2>2 DEF Exited, PoolInv, PoolTypeOK
    <2> QED
      BY <2>1, <2>2 DEF Push, SignalNonEmpty
  <1>6. ExitedOK'
    <2>1. n = k + m
      BY <1>1 DEF PoolInv, QueueOK
    <2>2. Cardinality(Exited) = IF k <= n - pills THEN 0 ELSE k - (n - pills)
      BY Zenon DEF PoolInv, ExitedOK, RealJobs
    <2>3. Cardinality(Exited) = IF k <= n + 1 - pills' THEN 0 ELSE k - (n + 1 - pills')
      <3>0. n \in Nat /\ m \in Nat /\ k \in Nat /\ pills \in Nat
        BY <1>0, <1>1, Zenon
      <3> HIDE DEF n, m, k
      <3>1. CASE job = Pill
        <4>1. n + 1 - pills' = n - pills
          BY <3>0, <3>1
        <4> QED
          BY <2>2, <4>1, Zenon
      <3>2. CASE job # Pill
        <4>0. pills = 0 /\ pills' = 0
          BY <3>2, Zenon
        <4>1. k <= n - pills /\ k <= n + 1 - pills'
          <5>1. k <= n - 0 /\ k <= n + 1 - 0
            BY <2>1, <3>0
          <5> QED
            BY <4>0, <5>1, Zenon
        <4> QED
          BY <2>2, <4>1, Zenon
      <3> QED
        BY <3>1, <3>2, Zenon
    <2>4. Len(taken') = k /\ RealJobs' = n + 1 - pills'
      BY <1>1 DEF RealJobs
    <2> QED
      BY <1>5, <2>3, <2>4, Zenon DEF ExitedOK
  <1>7. WorkersWoken'
    BY <1>1, <1>5, CountedFinite DEF PoolInv, WorkersWoken
  <1> QED
    BY <1>1, <1>2, <1>3, <1>4, <1>5, <1>6, <1>7

\* ThrPool::addJob keeps the invariant.
LEMMA AddJobStep ==
    ASSUME PoolInv, NEW p \in Callers, AddJob(p), UNCHANGED blockadd_
    PROVE  PoolInv'
  <1>1. cpc[p] = "add" /\ UNCHANGED <<pills, dpc, blockadd_>>
    BY DEF AddJob
  <1>2. dpc = "off" /\ pills = 0 /\ Len(q_) \in Nat /\ max_ \in Nat
    BY <1>1, PoolAssumption, AppendProps DEF PoolInv, PoolTypeOK, DestroyerOK
  <1>3. CASE Push(p) /\ cpc' = [cpc EXCEPT ![p] = "added"]
    <2>1. p \in AllJobs /\ p # Pill
      BY PoolAssumption DEF AllJobs
    <2>2. /\ q_' \in Seq(AllJobs) /\ accepted' \in Seq(AllJobs)
          /\ Len(q_') = Len(q_) + 1 /\ (max_ # 0 => Len(q_') <= max_)
          /\ wpc' \in [Workers -> {"take", "wait", "run", "exited"}]
          /\ QueueOK' /\ PillsLast' /\ ExitedOK' /\ WorkersWoken'
      BY <1>1, <1>2, <1>3, <2>1, PushStep
    <2>3. cpc'[p] = "added" /\ \A v \in Callers : v # p => cpc'[v] = cpc[v]
      BY <1>3 DEF PoolInv, PoolTypeOK
    <2>4. Cardinality(AwakeCallers') = Cardinality(AwakeCallers) - 1
      <3>1. AwakeCallers' = AwakeCallers \ {p} /\ p \in AwakeCallers
        BY <1>1, <2>3 DEF AwakeCallers
      <3> QED
        BY <3>1, CountedFinite, FS_RemoveElement
    <2>5. PoolTypeOK'
      BY <1>1, <1>3, <2>2 DEF PoolInv, PoolTypeOK, Push, AllJobs
    <2>6. DestroyerOK'
      BY <1>1, <1>2 DEF DestroyerOK
    <2>7. CallersWoken'
      <3>1. ASSUME NEW v \in Callers, cpc'[v] = "wait"
            PROVE  Cardinality(AwakeCallers) + Len(q_) >= max_
        <4>1. cpc[v] = "wait"
          BY <2>3, <3>1
        <4> QED
          BY <4>1, Zenon DEF PoolInv, CallersWoken
      <3>2. Cardinality(AwakeCallers') + Len(q_') = Cardinality(AwakeCallers) + Len(q_)
        BY <1>2, <2>2, <2>4, CountedFinite
      <3> QED
        BY <1>1, <1>2, <3>1, <3>2 DEF CallersWoken
    <2> QED
      BY <2>2, <2>5, <2>6, <2>7 DEF PoolInv
  <1>4. CASE /\ ~HasSpace
             /\ cpc' = [cpc EXCEPT ![p] = IF blockadd_ THEN "wait" ELSE "refused"]
             /\ UNCHANGED <<q_, wpc, wjob, accepted, taken>>
    <2>1. PoolTypeOK'
      BY <1>1, <1>4 DEF PoolInv, PoolTypeOK
    <2>2. QueueOK' /\ PillsLast' /\ ExitedOK' /\ WorkersWoken'
      BY <1>1, <1>4 DEF PoolInv, QueueOK, PillsLast, ExitedOK, WorkersWoken, RealJobs, Exited, AwakeWorkers
    <2>3. DestroyerOK'
      BY <1>1, <1>2 DEF DestroyerOK
    <2>4. IsFiniteSet(AwakeCallers') /\ Cardinality(AwakeCallers') \in Nat
      <3>1. AwakeCallers' \in SUBSET Callers
        BY DEF AwakeCallers
      <3> QED
        BY <3>1, PoolAssumption, FS_Subset, FS_CardinalityType
    <2>5. CallersWoken'
      BY <1>1, <1>2, <1>4, <2>4 DEF CallersWoken, HasSpace
    <2> QED
      BY <2>1, <2>2, <2>3, <2>5 DEF PoolInv
  <1> QED
    BY <1>3, <1>4 DEF AddJob

\* has_space_c_ is signalled after a job was taken from a queue with a capacity: who
\* waits for space goes on.
LEMMA SignalStep ==
    ASSUME PoolInv, SignalHasSpace
    PROVE  /\ cpc' \in [Callers -> {"add", "wait", "added", "refused"}]
           /\ dpc' \in {"off", "enq", "wait", "join", "gone"}
           /\ dpc' # "wait"
           /\ \/ dpc' = dpc /\ cpc' = cpc
              \/ dpc' = dpc /\ dpc = "off"
              \/ dpc' = "enq" /\ dpc = "wait" /\ cpc' = cpc
           /\ (\E p \in Callers : cpc'[p] = "wait") => Cardinality(AwakeCallers') = Cardinality(AwakeCallers) + 1
  <1>1. CASE \E p \in Callers : cpc[p] = "wait" /\ cpc' = [cpc EXCEPT ![p] = "add"] /\ UNCHANGED dpc
    BY <1>1, CallerWakes
  <1>2. CASE dpc = "wait" /\ dpc' = "enq" /\ UNCHANGED cpc
    BY <1>2 DEF PoolInv, PoolTypeOK, DestroyerOK
  <1>3. CASE (\A p \in Callers : cpc[p] # "wait") /\ dpc # "wait" /\ UNCHANGED <<cpc, dpc>>
    BY <1>3 DEF PoolInv, PoolTypeOK
  <1> QED
    BY <1>1, <1>2, <1>3 DEF SignalHasSpace

\* A worker takes a job and runs it, or takes a pill and exits.
LEMMA TakeJobStep ==
    ASSUME PoolInv, NEW w \in Workers, TakeJob(w), UNCHANGED blockadd_
    PROVE  PoolInv'
  <1> DEFINE n == Len(accepted)
             m == Len(q_)
             k == Len(taken)
             job == q_[1]
  <1>0. /\ q_ \in Seq(AllJobs) /\ accepted \in Seq(AllJobs) /\ taken \in Seq(AllJobs)
        /\ pills \in Nat /\ max_ \in Nat
    BY PoolAssumption DEF PoolInv, PoolTypeOK, AllJobs
  <1>1. /\ wpc[w] = "take" /\ q_ # <<>>
        /\ wjob' = [wjob EXCEPT ![w] = Head(q_)]
        /\ wpc' = [wpc EXCEPT ![w] = IF Head(q_) = Pill THEN "exited" ELSE "run"]
        /\ UNCHANGED <<pills, accepted, blockadd_>>
        /\ q_' = Tail(q_) /\ taken' = Append(taken, Head(q_))
    BY DEF TakeJob
  <1>2. /\ Head(q_) = job /\ job \in AllJobs
        /\ q_' \in Seq(AllJobs) /\ m \in Nat \ {0} /\ Len(q_') = m - 1
        /\ \A i \in 1 .. m - 1 : q_'[i] = q_[i + 1]
    BY <1>0, <1>1, TailProps
  <1>3. /\ taken' \in Seq(AllJobs) /\ k \in Nat /\ Len(taken') = k + 1 /\ n \in Nat
        /\ \A i \in 1 .. k : taken'[i] = taken[i]
        /\ taken'[k + 1] = job
    BY <1>0, <1>1, <1>2, AppendProps
  <1>4. n = k + m /\ accepted[k + 1] = job
    <2>1. n = k + m /\ \A i \in 1 .. m : accepted[k + i] = q_[i]
      BY DEF PoolInv, QueueOK
    <2>2. 1 \in 1 .. m
      BY <1>2
    <2> QED
      BY <2>1, <2>2
  <1>5. QueueOK'
    <2>1. ASSUME NEW i \in 1 .. k + 1 PROVE accepted[i] = taken'[i]
      BY <1>3, <1>4 DEF PoolInv, QueueOK
    <2>2. ASSUME NEW i \in 1 .. m - 1 PROVE accepted[(k + 1) + i] = q_'[i]
      <3>1. i + 1 \in 1 .. m /\ (k + 1) + i = k + (i + 1)
        BY <1>2, <1>3
      <3> QED
        BY <1>2, <3>1 DEF PoolInv, QueueOK
    <2> QED
      BY <1>1, <1>2, <1>3, <1>4, <2>1, <2>2 DEF QueueOK
  <1>6. PillsLast'
    BY <1>1 DEF PoolInv, PillsLast, RealJobs
  <1>7. /\ wpc'[w] = (IF job = Pill THEN "exited" ELSE "run")
        /\ \A v \in Workers : v # w => wpc'[v] = wpc[v]
    BY <1>1, <1>2 DEF PoolInv, PoolTypeOK
  <1>8. /\ job = Pill => /\ Cardinality(Exited') = Cardinality(Exited) + 1
                         /\ Cardinality(AwakeWorkers') = Cardinality(AwakeWorkers) - 1
        /\ job # Pill => Exited' = Exited /\ AwakeWorkers' = AwakeWorkers
    <2>1. CASE job = Pill
      <3>1. Exited' = Exited \cup {w} /\ w \notin Exited
        BY <1>1, <1>7, <2>1 DEF Exited
      <3>2. AwakeWorkers' = AwakeWorkers \ {w} /\ w \in AwakeWorkers
        BY <1>1, <1>7, <2>1 DEF AwakeWorkers
      <3>3. Cardinality(Exited') = Cardinality(Exited) + 1
        BY <3>1, CountedFinite, FS_AddElement
      <3>4. Cardinality(AwakeWorkers') = Cardinality(AwakeWorkers) - 1
        BY <3>2, CountedFinite, FS_RemoveElement
      <3> QED
        BY <2>1, <3>3, <3>4
    <2>2. CASE job # Pill
      BY <1>1, <1>7, <2>2 DEF Exited, AwakeWorkers
    <2> QED
      BY <2>1, <2>2
  <1>9. ExitedOK'
    <2>1. n - pills >= 0 /\ (job = Pill <=> k + 1 > n - pills)
      BY <1>2, <1>3, <1>4 DEF PoolInv, PillsLast, RealJobs
    <2>2. Cardinality(Exited) = IF k <= n - pills THEN 0 ELSE k - (n - pills)
      BY DEF PoolInv, ExitedOK, RealJobs
    <2>3. Cardinality(Exited') = IF k + 1 <= n - pills THEN 0 ELSE (k + 1) - (n - pills)
      BY <1>0, <1>3, <1>8, <2>1, <2>2
    <2> QED
      BY <1>1, <1>3, <2>3 DEF ExitedOK, RealJobs
  <1>10. WorkersWoken'
    <2>1. (\E v \in Workers : wpc'[v] = "wait") => \E v \in Workers : wpc[v] = "wait"
      BY <1>7
    <2> QED
      BY <1>2, <1>8, <2>1, CountedFinite DEF PoolInv, WorkersWoken
  <1>11. /\ cpc' \in [Callers -> {"add", "wait", "added", "refused"}]
         /\ dpc' \in {"off", "enq", "wait", "join", "gone"}
         /\ \/ dpc' = dpc /\ cpc' = cpc
            \/ dpc' = dpc /\ dpc = "off"
            \/ dpc' = "enq" /\ dpc = "wait" /\ cpc' = cpc
         /\ CallersWoken'
    <2>1. CASE max_ # 0 /\ m - 1 < max_
      <3>1. SignalHasSpace
        BY <2>1 DEF TakeJob
      <3>2. (\E p \in Callers : cpc'[p] = "wait") => \E p \in Callers : cpc[p] = "wait"
        BY <3>1 DEF SignalHasSpace, PoolInv, PoolTypeOK
      <3>3. CallersWoken'
        BY <1>0, <1>2, <3>1, <3>2, SignalStep, CountedFinite DEF PoolInv, CallersWoken
      <3> QED
        BY <3>1, <3>3, SignalStep
    <2>2. CASE ~(max_ # 0 /\ m - 1 < max_)
      <3>1. UNCHANGED <<cpc, dpc>> /\ max_ = 0
        BY <1>0, <1>2, <2>2 DEF TakeJob, PoolInv, PoolTypeOK
      <3>2. dpc # "wait"
        BY <1>2, <3>1 DEF PoolInv, CallersWoken
      <3>3. UNCHANGED AwakeCallers
        BY <3>1 DEF AwakeCallers
      <3>4. CallersWoken'
        <4>1. Cardinality(AwakeCallers') \in Nat /\ Len(q_') \in Nat
          BY <1>2, <3>3, CountedFinite
        <4>2. Cardinality(AwakeCallers') + Len(q_') >= max_
          BY <3>1, <4>1
        <4> QED
          BY <3>1, <3>2, <4>2, Zenon DEF CallersWoken
      <3> QED
        BY <3>1, <3>4 DEF PoolInv, PoolTypeOK
    <2> QED
      BY <2>1, <2>2
  <1>12. DestroyerOK'
    BY <1>1, <1>7, <1>11 DEF PoolInv, DestroyerOK
  <1>13. PoolTypeOK'
    <2>1. wpc' \in [Workers -> {"take", "wait", "run", "exited"}]
      BY <1>1 DEF PoolInv, PoolTypeOK
    <2>2. wjob' \in [Workers -> Callers \cup {Pill}]
      BY <1>1, <1>2 DEF PoolInv, PoolTypeOK, AllJobs
    <2>3. max_ # 0 => Len(q_') <= max_
      BY <1>0, <1>2 DEF PoolInv, PoolTypeOK
    <2> QED
      BY <1>1, <1>2, <1>3, <1>11, <2>1, <2>2, <2>3 DEF PoolInv, PoolTypeOK, AllJobs
  <1> QED
    BY <1>5, <1>6, <1>9, <1>10, <1>11, <1>12, <1>13 DEF PoolInv

\* A worker waits for a job, goes on after a job, or wakes up: the queue is as it was.
LEMMA WorkerMoveStep ==
    ASSUME PoolInv, NEW w \in Workers, NEW next \in {"take", "wait"},
           wpc[w] \in {"take", "wait", "run"}, wpc' = [wpc EXCEPT ![w] = next],
           next = "wait" => q_ = <<>>,
           UNCHANGED <<blockadd_, q_, cpc, wjob, pills, dpc, accepted, taken>>
    PROVE  PoolInv'
  <1>1. wpc'[w] = next /\ \A v \in Workers : v # w => wpc'[v] = wpc[v]
    BY DEF PoolInv, PoolTypeOK
  <1>2. Exited' = Exited
    BY <1>1 DEF Exited
  <1>3. PoolTypeOK'
    BY DEF PoolInv, PoolTypeOK
  <1>4. QueueOK' /\ PillsLast' /\ ExitedOK'
    BY <1>2 DEF PoolInv, QueueOK, PillsLast, ExitedOK, RealJobs
  <1>5. DestroyerOK'
    BY <1>1 DEF PoolInv, DestroyerOK
  <1>6. WorkersWoken'
    <2>1. IsFiniteSet(AwakeWorkers') /\ Cardinality(AwakeWorkers') \in Nat
      <3>1. AwakeWorkers' \in SUBSET Workers
        BY DEF AwakeWorkers
      <3> QED
        BY <3>1, PoolAssumption, FS_Subset, FS_CardinalityType
    <2>2. CASE next = "wait"
      <3>1. Len(q_') = 0
        BY <2>2
      <3> QED
        BY <2>1, <3>1 DEF WorkersWoken
    <2>3. CASE next = "take"
      <3>1. AwakeWorkers \in SUBSET AwakeWorkers'
        BY <1>1, <2>3 DEF AwakeWorkers
      <3>2. Cardinality(AwakeWorkers) <= Cardinality(AwakeWorkers')
        BY <2>1, <3>1, FS_Subset
      <3>3. (\E v \in Workers : wpc'[v] = "wait") => \E v \in Workers : wpc[v] = "wait"
        BY <1>1, <2>3
      <3>4. Len(q_) \in Nat
        BY DEF PoolInv, PoolTypeOK
      <3> QED
        BY <2>1, <3>2, <3>3, <3>4, CountedFinite DEF PoolInv, WorkersWoken
    <2> QED
      BY <2>2, <2>3
  <1>7. CallersWoken'
    BY DEF PoolInv, CallersWoken, AwakeCallers
  <1> QED
    BY <1>3, <1>4, <1>5, <1>6, <1>7 DEF PoolInv

\* The other conjuncts do not speak of the callers and the destructor.
LEMMA OutsideStep ==
    ASSUME PoolInv, UNCHANGED <<blockadd_, q_, wpc, wjob, pills, accepted, taken>>,
           cpc' \in [Callers -> {"add", "wait", "added", "refused"}],
           dpc' \in {"off", "enq", "wait", "join", "gone"},
           DestroyerOK', CallersWoken'
    PROVE  PoolInv'
  <1>1. PoolTypeOK'
    BY DEF PoolInv, PoolTypeOK
  <1>2. QueueOK' /\ PillsLast' /\ ExitedOK' /\ WorkersWoken'
    BY DEF PoolInv, QueueOK, PillsLast, ExitedOK, WorkersWoken, RealJobs, Exited, AwakeWorkers
  <1> QED
    BY <1>1, <1>2 DEF PoolInv

\* A spurious wakeup keeps the invariant.
LEMMA SpuriousStep ==
    ASSUME PoolInv, Spurious, UNCHANGED blockadd_
    PROVE  PoolInv'
  <1>1. ASSUME NEW w \in Workers, wpc[w] = "wait", wpc' = [wpc EXCEPT ![w] = "take"],
               UNCHANGED <<cpc, dpc>>
        PROVE  PoolInv'
    BY <1>1, WorkerMoveStep DEF Spurious
  <1>2. ASSUME NEW p \in Callers, cpc[p] = "wait", cpc' = [cpc EXCEPT ![p] = "add"],
               UNCHANGED <<wpc, dpc>>
        PROVE  PoolInv'
    <2>1. /\ Cardinality(AwakeCallers') = Cardinality(AwakeCallers) + 1
          /\ cpc' \in [Callers -> {"add", "wait", "added", "refused"}]
          /\ dpc = "off"
      BY <1>2, CallerWakes
    <2>2. UNCHANGED <<blockadd_, q_, wpc, wjob, pills, accepted, taken, dpc>>
      BY <1>2 DEF Spurious
    <2>3. Len(q_) \in Nat /\ max_ \in Nat
      BY PoolAssumption DEF PoolInv, PoolTypeOK
    <2>4. CallersWoken'
      BY <1>2, <2>1, <2>2, <2>3, CountedFinite DEF PoolInv, CallersWoken
    <2>5. DestroyerOK'
      BY <2>1, <2>2 DEF PoolInv, DestroyerOK
    <2> QED
      BY <2>1, <2>2, <2>4, <2>5, OutsideStep DEF PoolInv, PoolTypeOK
  <1>3. CASE dpc = "wait" /\ dpc' = "enq" /\ UNCHANGED <<cpc, wpc>>
    <2>1. UNCHANGED <<blockadd_, q_, wpc, wjob, pills, accepted, taken, cpc>>
      BY <1>3 DEF Spurious
    <2>2. DestroyerOK' /\ CallersWoken'
      BY <1>3, <2>1 DEF PoolInv, DestroyerOK, CallersWoken, AwakeCallers
    <2> QED
      BY <1>3, <2>1, <2>2, OutsideStep DEF PoolInv, PoolTypeOK
  <1> QED
    BY <1>1, <1>2, <1>3 DEF Spurious

\* The destructor of the pool, until it has joined the workers, keeps the invariant.
LEMMA DestroyerStepKeeps ==
    ASSUME PoolInv, DestroyerStep, UNCHANGED blockadd_
    PROVE  PoolInv'
  <1>0. /\ Len(q_) \in Nat /\ max_ \in Nat /\ pills \in Nat
        /\ pills <= Cardinality(Workers) /\ Cardinality(Workers) \in Nat \ {0}
    BY PoolAssumption, CountedFinite DEF PoolInv, PoolTypeOK
  <1>1. CASE Destroy
    <2>1. DestroyerOK' /\ CallersWoken'
      BY <1>1 DEF Destroy, DestroyerOK, CallersWoken
    <2> QED
      BY <1>1, <2>1, OutsideStep DEF Destroy, PoolInv, PoolTypeOK
  <1>2. CASE Join
    <2>1. DestroyerOK' /\ CallersWoken'
      BY <1>2 DEF Join, PoolInv, DestroyerOK, CallersWoken, AwakeCallers
    <2> QED
      BY <1>2, <2>1, OutsideStep DEF Join, PoolInv, PoolTypeOK
  <1>3. CASE EnqPill /\ pills = Cardinality(Workers)
    <2>1. dpc = "enq" /\ dpc' = "join" /\ UNCHANGED <<blockadd_, q_, wpc, wjob, pills, accepted, taken, cpc>>
      BY <1>3 DEF EnqPill
    <2>2. DestroyerOK' /\ CallersWoken'
      BY <1>3, <2>1 DEF PoolInv, DestroyerOK, CallersWoken, AwakeCallers
    <2> QED
      BY <2>1, <2>2, OutsideStep DEF PoolInv, PoolTypeOK
  <1>4. CASE EnqPill /\ pills # Cardinality(Workers) /\ ~HasSpace /\ dpc' = "wait"
    <2>1. dpc = "enq" /\ cpc' = cpc /\ Len(q_) = max_
      BY <1>0, <1>4 DEF EnqPill, HasSpace, PoolInv, PoolTypeOK
    <2>2. UNCHANGED <<blockadd_, q_, wpc, wjob, pills, accepted, taken, cpc>>
      BY <1>4, <2>1 DEF EnqPill, Push
    <2>3. DestroyerOK' /\ CallersWoken'
      BY <1>4, <2>1, <2>2 DEF PoolInv, DestroyerOK, CallersWoken, AwakeCallers
    <2> QED
      BY <1>4, <2>2, <2>3, OutsideStep DEF PoolInv, PoolTypeOK
  <1>5. CASE EnqPill /\ pills # Cardinality(Workers) /\ Push(Pill) /\ pills' = pills + 1 /\ UNCHANGED dpc
    <2>1. dpc = "enq" /\ cpc' = cpc /\ Pill \in AllJobs /\ pills' \in 0 .. Cardinality(Workers)
      BY <1>0, <1>5 DEF EnqPill, AllJobs
    <2>2. /\ q_' \in Seq(AllJobs) /\ accepted' \in Seq(AllJobs)
          /\ Len(q_') = Len(q_) + 1 /\ (max_ # 0 => Len(q_') <= max_)
          /\ wpc' \in [Workers -> {"take", "wait", "run", "exited"}]
          /\ QueueOK' /\ PillsLast' /\ ExitedOK' /\ WorkersWoken'
      BY <1>0, <1>5, <2>1, PushStep
    <2>3. PoolTypeOK'
      BY <1>5, <2>1, <2>2 DEF PoolInv, PoolTypeOK, Push, AllJobs
    <2>4. DestroyerOK' /\ CallersWoken'
      BY <1>5, <2>1 DEF PoolInv, DestroyerOK, CallersWoken
    <2> QED
      BY <2>2, <2>3, <2>4 DEF PoolInv
  <1> QED
    BY <1>1, <1>2, <1>3, <1>4, <1>5 DEF DestroyerStep, EnqPill

\* Every step of the pool and its callers keeps the invariant.
LEMMA PoolInvNext == PoolInv /\ [Next]_vars => PoolInv'
  <1> SUFFICES ASSUME PoolInv, [Next]_vars PROVE PoolInv'
    OBVIOUS
  <1>1. ASSUME UNCHANGED vars PROVE PoolInv'
    BY <1>1, OutsideStep DEF vars, PoolInv, PoolTypeOK, DestroyerOK, CallersWoken, AwakeCallers
  <1>2. ASSUME NEW p \in Callers, AddJob(p), UNCHANGED blockadd_ PROVE PoolInv'
    BY <1>2, AddJobStep
  <1>3. ASSUME NEW w \in Workers, WorkerStep(w), UNCHANGED blockadd_ PROVE PoolInv'
    <2>1. CASE TakeJob(w)
      BY <1>3, <2>1, TakeJobStep
    <2>2. CASE WaitForJob(w)
      BY <1>3, <2>2, WorkerMoveStep DEF WaitForJob
    <2>3. CASE JobDone(w)
      BY <1>3, <2>3, WorkerMoveStep DEF JobDone
    <2> QED
      BY <1>3, <2>1, <2>2, <2>3 DEF WorkerStep
  <1> QED
    BY <1>1, <1>2, <1>3, DestroyerStepKeeps, SpuriousStep DEF Next, Gone

\* PoolInv is an invariant of the pool.
THEOREM PoolInvariant == Spec => []PoolInv
  BY PoolInvInit, PoolInvNext, PTL DEF Spec

\* The queue of ThrPool keeps to its capacity, and ~ThrPool queues at most one pill
\* per worker, for any numbers of callers and workers.
THEOREM PoolTypeCorrect == Spec => []PoolTypeOK
  <1>1. PoolInv => PoolTypeOK
    BY DEF PoolInv
  <1> QED
    BY <1>1, PoolInvariant, PTL

\* fifo is one: jobs are taken in the order of enq, none is lost or taken twice, and
\* none is left when the pool is gone.
THEOREM PoolFifoOrder == Spec => []FifoOrder
  <1>1. ASSUME PoolInv PROVE FifoOrder
    <2>0. /\ q_ \in Seq(AllJobs) /\ accepted \in Seq(AllJobs) /\ taken \in Seq(AllJobs)
          /\ pills \in Nat /\ Len(q_) \in Nat /\ Len(taken) \in Nat /\ Len(accepted) \in Nat
      BY <1>1 DEF PoolInv, PoolTypeOK, AllJobs
    <2>1. accepted = taken \o q_
      <3>1. taken \o q_ \in Seq(AllJobs) /\ Len(taken \o q_) = Len(accepted)
        BY <1>1, <2>0 DEF PoolInv, QueueOK
      <3>2. ASSUME NEW i \in 1 .. Len(accepted) PROVE accepted[i] = (taken \o q_)[i]
        <4>1. CASE i \in 1 .. Len(taken)
          BY <1>1, <2>0, <4>1 DEF PoolInv, QueueOK
        <4>2. CASE i > Len(taken)
          <5>1. i - Len(taken) \in 1 .. Len(q_) /\ Len(taken) + (i - Len(taken)) = i
            BY <1>1, <2>0, <4>2 DEF PoolInv, QueueOK
          <5>2. accepted[i] = q_[i - Len(taken)]
            BY <1>1, <5>1 DEF PoolInv, QueueOK
          <5>3. (taken \o q_)[i] = q_[i - Len(taken)]
            BY <2>0, <4>2, <5>1
          <5> QED
            BY <5>2, <5>3
        <4>3. i \in 1 .. Len(taken) \/ i > Len(taken)
          BY <2>0
        <4> QED
          BY <4>1, <4>2, <4>3
      <3> QED
        BY <2>0, <3>1, <3>2, SeqEqual
    <2>2. \A i, j \in DOMAIN accepted : accepted[i] = Pill /\ i < j => accepted[j] = Pill
      <3>1. DOMAIN accepted = 1 .. Len(accepted)
        BY <2>0
      <3> QED
        BY <1>1, <2>0, <3>1 DEF PoolInv, PillsLast, RealJobs
    <2>3. ASSUME dpc = "gone" PROVE q_ = <<>>
      <3>1. Exited = Workers /\ pills = Cardinality(Workers) /\ pills # 0
        BY <1>1, <2>3, CountedFinite DEF PoolInv, DestroyerOK, Exited
      <3>2. Len(taken) = Len(accepted)
        BY <1>1, <2>0, <3>1 DEF PoolInv, ExitedOK, RealJobs
      <3>3. Len(q_) = 0
        BY <1>1, <2>0, <3>2 DEF PoolInv, QueueOK
      <3> QED
        BY <2>0, <3>3
    <2> QED
      BY <2>1, <2>2, <2>3 DEF FifoOrder
  <1> QED
    BY <1>1, PoolInvariant, PTL

\* The single signals of enq and deq lose no wakeup: not of a worker while there are
\* more jobs than awake workers, nor of a caller while there is unclaimed space.
THEOREM PoolNoLostWakeup == Spec => []NoLostWakeup
  <1>1. PoolInv => NoLostWakeup
    BY DEF PoolInv, NoLostWakeup, WorkersWoken, CallersWoken, AwakeWorkers, AwakeCallers
  <1> QED
    BY <1>1, PoolInvariant, PTL

-----------------------------------------------------------------------------
(***************************************************************************)
(* Deadlines, for any units of time, timeouts and length of the first      *)
(* round: what the clock arithmetic of rpc.cc computes, and that call1     *)
(* neither gives up early nor plans a round beyond its deadline.           *)
(***************************************************************************)

\* The times that the clock shows, and those that add_timespec computes: the latter
\* may have a whole second in tv_nsec.
Times == [tv_sec : Nat, tv_nsec : 0 .. Second - 1]
Deadlines == [tv_sec : Nat, tv_nsec : 0 .. Second]

\* When the call is to give up.
CallDeadline == Nanos(started) + to * NsPerMs

(***************************************************************************)
(* The inductive invariant.  A finaldeadline of 0 says that the last round *)
(* was planned, which ends at the deadline of the call.                    *)
(***************************************************************************)
DeadlineInv ==
    /\ now \in Times /\ started \in Times /\ now.tv_sec >= 1 /\ started.tv_sec >= 1
    /\ to \in Nat /\ curr_to \in Nat
    /\ nextdeadline \in Deadlines /\ finaldeadline \in Deadlines
    /\ pc \in {"idle", "loop", "wait", "over"} /\ done \in BOOLEAN
    /\ pc # "idle" =>
          /\ finaldeadline.tv_sec # 0 => Nanos(finaldeadline) = CallDeadline
          /\ pc = "wait" => Nanos(nextdeadline) <= CallDeadline
          /\ pc = "wait" /\ finaldeadline.tv_sec = 0 => Nanos(nextdeadline) = CallDeadline
          /\ pc = "loop" /\ finaldeadline.tv_sec = 0 => Nanos(now) >= CallDeadline
          /\ pc = "over" /\ ~done => Nanos(now) >= CallDeadline

-----------------------------------------------------------------------------
(* The arithmetic.                                                         *)

\* A second more is a second's worth of nanoseconds more.
LEMMA MoreSeconds ==
    ASSUME NEW a \in Nat, NEW b \in Nat, NEW s \in Nat
    PROVE  /\ a * s \in Nat
           /\ (a + b) * s = a * s + b * s
           /\ (a + 1) * s = a * s + s
           /\ a < b => a * s + s <= b * s
           /\ a <= b => a * s <= b * s
<1>1. a * s \in Nat /\ b * s \in Nat
    OBVIOUS
<1>2. (a + b) * s = a * s + b * s /\ (a + 1) * s = a * s + s
    OBVIOUS
<1>3. ASSUME NEW d \in Nat, b = a + d PROVE a * s <= b * s
    <2>1. b * s = a * s + d * s /\ d * s \in Nat
        BY <1>3
    <2> QED BY <1>1, <2>1
<1>4. ASSUME NEW d \in Nat, b = (a + 1) + d PROVE a * s + s <= b * s
    <2>1. b * s = (a * s + s) + d * s /\ d * s \in Nat
        BY <1>4
    <2> QED BY <1>1, <2>1
<1>5. a <= b => a * s <= b * s
    <2>1. a <= b => b - a \in Nat /\ b = a + (b - a)
        OBVIOUS
    <2> QED BY <1>3, <2>1
<1>6. a < b => a * s + s <= b * s
    <2>1. a < b => b - (a + 1) \in Nat /\ b = (a + 1) + (b - (a + 1))
        OBVIOUS
    <2> QED BY <1>4, <2>1
<1> QED BY <1>1, <1>2, <1>5, <1>6

\* A second has some nanoseconds, and more than there are in the milliseconds left over
\* by whole seconds.
LEMMA SecondLemma ==
    ASSUME NEW b \in Nat
    PROVE  /\ Second \in Nat \ {0}
           /\ b \div MsPerSec \in Nat
           /\ (b % MsPerSec) * NsPerMs \in 0 .. Second - 1
           /\ b * NsPerMs = (b \div MsPerSec) * Second + (b % MsPerSec) * NsPerMs
<1> DEFINE m == MsPerSec
           n == NsPerMs
           q == b \div m
           r == b % m
<1>1. m \in Nat \ {0} /\ n \in Nat \ {0}
    BY DeadlineAssumption
<1>2. q \in Nat /\ r \in 0 .. m - 1 /\ b = q * m + r
    BY <1>1
<1> HIDE DEF m, n, q, r
<1>3. m * n \in Nat \ {0}
    BY <1>1
<1>4. r * n \in Nat /\ r * n + n <= m * n
    <2>1. r \in Nat /\ r < m /\ m \in Nat /\ n \in Nat
        BY <1>1, <1>2
    <2> QED BY <2>1, MoreSeconds
<1>5. b * n = q * (m * n) + r * n
    <2>1. q * m \in Nat /\ r \in Nat /\ n \in Nat /\ m \in Nat
        BY <1>1, <1>2
    <2>2. (q * m + r) * n = (q * m) * n + r * n
        BY <2>1, MoreSeconds
    <2>3. (q * m) * n = q * (m * n)
        BY <1>2, <2>1
    <2> QED BY <1>2, <2>2, <2>3
<1>6. r * n \in 0 .. m * n - 1
    BY <1>1, <1>3, <1>4
<1> QED BY <1>2, <1>3, <1>5, <1>6 DEF m, n, q, r, Second

\* A time in nanoseconds is a number.
LEMMA NanosNat ==
    ASSUME NEW t \in Deadlines
    PROVE  /\ Nanos(t) \in Nat /\ t.tv_sec \in Nat /\ t.tv_nsec \in Nat /\ t.tv_nsec <= Second
           /\ Second \in Nat \ {0}
<1>1. Second \in Nat \ {0} /\ t.tv_sec \in Nat /\ t.tv_nsec \in 0 .. Second
    BY SecondLemma DEF Deadlines
<1>2. t.tv_sec * Second \in Nat
    BY <1>1, MoreSeconds
<1> QED BY <1>1, <1>2 DEF Nanos

\* The clock shows times that are deadlines, too.
LEMMA TimesAreDeadlines == Times \subseteq Deadlines
<1>1. Second \in Nat
    BY SecondLemma
<1> QED BY <1>1 DEF Times, Deadlines

(***************************************************************************)
(* add_timespec adds b milliseconds to a time of the clock, exactly.  What *)
(* it returns may have tv_nsec = 1000000000, since the loop compares with  *)
(* > where >= is meant.                                                    *)
(***************************************************************************)
LEMMA AddLemma ==
    ASSUME NEW a \in Times, NEW b \in Nat
    PROVE  /\ add_timespec(a, b) \in Deadlines
           /\ Nanos(add_timespec(a, b)) = Nanos(a) + b * NsPerMs
           /\ add_timespec(a, b).tv_sec >= a.tv_sec
<1> DEFINE S == Second
           x == a.tv_sec
           y == a.tv_nsec
           q == b \div MsPerSec
           r == (b % MsPerSec) * NsPerMs
           t == add_timespec(a, b)
<1>1. S \in Nat \ {0} /\ q \in Nat /\ r \in 0 .. S - 1 /\ b * NsPerMs = q * S + r
    BY SecondLemma
<1>2. x \in Nat /\ y \in 0 .. S - 1 /\ Nanos(a) = x * S + y
    BY <1>1 DEF Times, Nanos
<1>3. t = IF y + r > S THEN Timespec((x + q) + 1, (y + r) - S) ELSE Timespec(x + q, y + r)
    BY DEF add_timespec
<1>4. \A u, v : Timespec(u, v).tv_sec = u /\ Timespec(u, v).tv_nsec = v /\ Nanos(Timespec(u, v)) = u * S + v
    BY DEF Timespec, Nanos
<1>5. \A u \in Nat, v \in 0 .. S : Timespec(u, v) \in Deadlines
    BY DEF Timespec, Deadlines
<1> HIDE DEF S, x, y, q, r, t
<1>6. (x + q) * S = x * S + q * S /\ ((x + q) + 1) * S = (x + q) * S + S /\ x * S \in Nat /\ q * S \in Nat
    <2>1. x + q \in Nat /\ S \in Nat
        BY <1>1, <1>2
    <2> QED BY <1>1, <1>2, <2>1, MoreSeconds
<1>7. CASE y + r > S
    <2>1. t = Timespec((x + q) + 1, (y + r) - S) /\ (x + q) + 1 \in Nat /\ (y + r) - S \in 0 .. S
        BY <1>1, <1>2, <1>3, <1>7
    <2>2. t \in Deadlines /\ t.tv_sec = (x + q) + 1 /\ Nanos(t) = ((x + q) + 1) * S + ((y + r) - S)
        BY <1>4, <1>5, <2>1
    <2>3. Nanos(t) = (x * S + y) + (q * S + r)
        BY <1>1, <1>2, <1>6, <2>2
    <2> QED BY <1>1, <1>2, <2>2, <2>3 DEF t, x
<1>8. CASE ~(y + r > S)
    <2>1. t = Timespec(x + q, y + r) /\ x + q \in Nat /\ y + r \in 0 .. S
        BY <1>1, <1>2, <1>3, <1>8
    <2>2. t \in Deadlines /\ t.tv_sec = x + q /\ Nanos(t) = (x + q) * S + (y + r)
        BY <1>4, <1>5, <2>1
    <2>3. Nanos(t) = (x * S + y) + (q * S + r)
        BY <1>1, <1>2, <1>6, <2>2
    <2> QED BY <1>1, <1>2, <2>2, <2>3 DEF t, x
<1> QED BY <1>7, <1>8

\* cmp_timespec compares as the nanoseconds do, except that it may take a whole second in
\* tv_nsec for less than the next second.
LEMMA CmpLemma ==
    ASSUME NEW a \in Deadlines, NEW b \in Deadlines
    PROVE  /\ cmp_timespec(a, b) >= 0 => Nanos(a) >= Nanos(b)
           /\ ~(cmp_timespec(a, b) > 0) => Nanos(a) <= Nanos(b)
<1> DEFINE S == Second
           x == a.tv_sec
           y == a.tv_nsec
           u == b.tv_sec
           v == b.tv_nsec
<1>1. S \in Nat \ {0} /\ x \in Nat /\ y \in Nat /\ y <= S /\ u \in Nat /\ v \in Nat /\ v <= S
    BY NanosNat
<1>2. Nanos(a) = x * S + y /\ Nanos(b) = u * S + v
    BY DEF Nanos
<1>3. /\ cmp_timespec(a, b) >= 0 => x > u \/ (x = u /\ y >= v)
      /\ ~(cmp_timespec(a, b) > 0) => x < u \/ (x = u /\ y <= v)
    BY <1>1 DEF cmp_timespec
<1> HIDE DEF S, x, y, u, v
<1>4. x * S \in Nat /\ u * S \in Nat /\ (x < u => x * S + S <= u * S) /\ (u < x => u * S + S <= x * S)
    BY <1>1, MoreSeconds
<1>5. x > u \/ (x = u /\ y >= v) => x * S + y >= u * S + v
    BY <1>1, <1>4
<1>6. x < u \/ (x = u /\ y <= v) => x * S + y <= u * S + v
    BY <1>1, <1>4
<1> QED BY <1>2, <1>3, <1>5, <1>6

-----------------------------------------------------------------------------
(* The invariant.                                                          *)

\* The clock goes on by a nanosecond.
LEMMA TickTime ==
    ASSUME NEW t \in Times, NEW u,
           u = IF t.tv_nsec = Second - 1 THEN Timespec(t.tv_sec + 1, 0) ELSE Timespec(t.tv_sec, t.tv_nsec + 1)
    PROVE  u \in Times /\ u.tv_sec >= t.tv_sec /\ Nanos(u) = Nanos(t) + 1
<1> DEFINE S == Second
           x == t.tv_sec
           y == t.tv_nsec
<1>1. S \in Nat \ {0} /\ x \in Nat /\ y \in 0 .. S - 1 /\ Nanos(t) = x * S + y
    BY SecondLemma DEF Times, Nanos
<1>2. u = IF y = S - 1 THEN Timespec(x + 1, 0) ELSE Timespec(x, y + 1)
    OBVIOUS
<1>3. \A c, d : Timespec(c, d).tv_sec = c /\ Nanos(Timespec(c, d)) = c * S + d
    BY DEF Timespec, Nanos
<1>4. \A c \in Nat, d \in 0 .. S - 1 : Timespec(c, d) \in Times
    BY DEF Timespec, Times
<1> HIDE DEF S, x, y
<1>5. (x + 1) * S = x * S + S /\ x * S \in Nat
    BY <1>1, MoreSeconds
<1>6. CASE y = S - 1
    <2>1. u = Timespec(x + 1, 0) /\ x + 1 \in Nat /\ 0 \in 0 .. S - 1
        BY <1>1, <1>2, <1>6
    <2>2. u \in Times /\ u.tv_sec = x + 1 /\ Nanos(u) = (x + 1) * S + 0
        BY <1>3, <1>4, <2>1
    <2> QED BY <1>1, <1>5, <1>6, <2>2 DEF x
<1>7. CASE y # S - 1
    <2>1. u = Timespec(x, y + 1) /\ y + 1 \in 0 .. S - 1
        BY <1>1, <1>2, <1>7
    <2>2. u \in Times /\ u.tv_sec = x /\ Nanos(u) = x * S + (y + 1)
        BY <1>1, <1>3, <1>4, <2>1
    <2> DEFINE p == x * S
    <2>3. Nanos(t) = p + y /\ Nanos(u) = p + (y + 1) /\ p \in Nat /\ y \in Nat
        BY <1>1, <1>5, <2>2
    <2> HIDE DEF p
    <2>4. Nanos(u) = Nanos(t) + 1
        BY <2>3
    <2>5. u.tv_sec = t.tv_sec /\ t.tv_sec \in Nat
        BY <1>1, <2>2 DEF x
    <2> QED BY <2>2, <2>4, <2>5
<1> QED BY <1>6, <1>7

\* The deadline of a call is a number.
LEMMA CallDeadlineNat ==
    ASSUME NEW t \in Times, NEW b \in Nat
    PROVE  Nanos(t) + b * NsPerMs \in Nat
<1>1. Nanos(t) \in Nat
    BY NanosNat, TimesAreDeadlines
<1>2. NsPerMs \in Nat
    BY DeadlineAssumption
<1>3. b * NsPerMs \in Nat
    BY <1>2
<1> QED BY <1>1, <1>3

\* No step of the clock, of call1 or of got_pdu breaks the invariant.
LEMMA DeadlineStep ==
    ASSUME DeadlineInv, DeadlineNext
    PROVE  DeadlineInv'
<1> DEFINE D == CallDeadline
<1>0. /\ now \in Times /\ started \in Times /\ now.tv_sec >= 1 /\ started.tv_sec >= 1
      /\ to \in Nat /\ curr_to \in Nat
      /\ nextdeadline \in Deadlines /\ finaldeadline \in Deadlines
      /\ pc \in {"idle", "loop", "wait", "over"} /\ done \in BOOLEAN
    BY DEF DeadlineInv
<1>1. /\ pc # "idle" /\ finaldeadline.tv_sec # 0 => Nanos(finaldeadline) = D
      /\ pc = "wait" => Nanos(nextdeadline) <= D
      /\ pc = "wait" /\ finaldeadline.tv_sec = 0 => Nanos(nextdeadline) = D
      /\ pc = "loop" /\ finaldeadline.tv_sec = 0 => Nanos(now) >= D
      /\ pc = "over" /\ ~done => Nanos(now) >= D
    BY DEF DeadlineInv
<1>2. D \in Nat /\ Nanos(now) \in Nat /\ Nanos(nextdeadline) \in Nat /\ Nanos(finaldeadline) \in Nat
      /\ now \in Deadlines /\ now.tv_sec \in Nat
    BY <1>0, CallDeadlineNat, NanosNat, TimesAreDeadlines DEF CallDeadline
<1>3. CASE Tick
    <2>1. /\ pc # "idle" /\ UNCHANGED <<to, started, curr_to, nextdeadline, finaldeadline, pc, done>>
          /\ now' \in Times /\ now'.tv_sec >= now.tv_sec /\ Nanos(now') = Nanos(now) + 1
        BY <1>0, <1>3, TickTime DEF Tick
    <2>2. now'.tv_sec \in Nat
        BY <2>1 DEF Times
    <2>3. D' = D /\ Nanos(nextdeadline)' = Nanos(nextdeadline) /\ Nanos(finaldeadline)' = Nanos(finaldeadline)
        BY <2>1 DEF CallDeadline, Nanos
    <2>4. now'.tv_sec >= 1 /\ (Nanos(now) >= D => Nanos(now') >= D')
        <3> HIDE DEF D
        <3> QED BY <1>0, <1>2, <2>1, <2>2, <2>3
    <2>5. Nanos(now') = Nanos(now)'
        BY DEF Nanos
    <2> HIDE DEF D
    <2>6. /\ pc' # "idle" /\ finaldeadline'.tv_sec # 0 => Nanos(finaldeadline)' = D'
          /\ pc' = "wait" => Nanos(nextdeadline)' <= D'
          /\ pc' = "wait" /\ finaldeadline'.tv_sec = 0 => Nanos(nextdeadline)' = D'
          /\ pc' = "loop" /\ finaldeadline'.tv_sec = 0 => Nanos(now)' >= D'
          /\ pc' = "over" /\ ~done' => Nanos(now)' >= D'
        BY <1>1, <2>1, <2>3, <2>4, <2>5
    <2> QED BY <1>0, <2>1, <2>4, <2>6 DEF DeadlineInv, D
<1>4. CASE Start
    <2>1. /\ started' = now /\ finaldeadline' = add_timespec(now, to) /\ curr_to' = ToMin /\ pc' = "loop"
          /\ UNCHANGED <<now, to, nextdeadline, done>>
        BY <1>4 DEF Start
    <2>2. /\ finaldeadline' \in Deadlines /\ finaldeadline'.tv_sec >= now.tv_sec
          /\ Nanos(finaldeadline') = Nanos(now) + to * NsPerMs
        BY <1>0, <2>1, AddLemma
    <2>3. Nanos(finaldeadline)' = D'
        BY <2>1, <2>2 DEF CallDeadline, Nanos
    <2>4. finaldeadline'.tv_sec # 0 /\ ToMin \in Nat
        BY <1>0, <1>2, <2>2, DeadlineAssumption DEF Deadlines
    <2> QED BY <1>0, <2>1, <2>2, <2>3, <2>4 DEF DeadlineInv
<1>5. CASE Plan
    <2> DEFINE next == add_timespec(now, curr_to)
               last == cmp_timespec(next, finaldeadline) > 0
               final0 == [finaldeadline EXCEPT !.tv_sec = 0]
    <2>1. pc = "loop" /\ UNCHANGED <<now, to, started, curr_to, done>>
        BY <1>5 DEF Plan
    <2>2. D' = D /\ Nanos(now)' = Nanos(now)
        BY <2>1 DEF CallDeadline, Nanos
    <2>3. CASE finaldeadline.tv_sec = 0
        <3>1. pc' = "over" /\ UNCHANGED <<nextdeadline, finaldeadline>>
            BY <1>5, <2>3 DEF Plan
        <3> QED BY <1>0, <1>1, <2>1, <2>2, <2>3, <3>1 DEF DeadlineInv
    <2>4. CASE finaldeadline.tv_sec # 0
        <3>1. /\ pc' = "wait"
              /\ nextdeadline' = IF last THEN finaldeadline ELSE next
              /\ finaldeadline' = IF last THEN final0 ELSE finaldeadline
            BY <1>5, <2>4 DEF Plan
        <3>2. next \in Deadlines /\ (~last => Nanos(next) <= Nanos(finaldeadline))
            BY <1>0, AddLemma, CmpLemma
        <3>3. final0 \in Deadlines /\ final0.tv_sec = 0
            BY <1>0 DEF Deadlines
        <3>4. Nanos(finaldeadline) = D
            BY <1>1, <2>1, <2>4
        <3> HIDE DEF next, last, final0
        <3>5. CASE last
            <4>1. nextdeadline' = finaldeadline /\ finaldeadline' = final0
                BY <3>1, <3>5
            <4>2. Nanos(nextdeadline)' = D'
                BY <2>2, <3>4, <4>1 DEF Nanos
            <4>3. D' \in Nat
                BY <1>2, <2>2
            <4>4. Nanos(nextdeadline)' <= D'
                BY <4>2, <4>3
            <4> QED BY <1>0, <2>1, <3>1, <3>3, <4>1, <4>2, <4>4 DEF DeadlineInv
        <3>6. CASE ~last
            <4>1. nextdeadline' = next /\ finaldeadline' = finaldeadline
                BY <3>1, <3>6
            <4>2. Nanos(nextdeadline)' <= D' /\ Nanos(finaldeadline)' = D'
                BY <2>2, <3>2, <3>4, <3>6, <4>1 DEF Nanos
            <4> QED BY <1>0, <2>1, <2>4, <3>1, <3>2, <4>1, <4>2 DEF DeadlineInv
        <3> QED BY <3>5, <3>6
    <2> QED BY <2>3, <2>4
<1>6. CASE RoundOver
    <2>1. /\ pc = "wait" /\ cmp_timespec(now, nextdeadline) >= 0 /\ pc' = "loop" /\ curr_to' = 2 * curr_to
          /\ UNCHANGED <<now, to, started, nextdeadline, finaldeadline, done>>
        BY <1>6 DEF RoundOver
    <2>2. D' = D /\ Nanos(now)' = Nanos(now) /\ Nanos(finaldeadline)' = Nanos(finaldeadline)
        BY <2>1 DEF CallDeadline, Nanos
    <2>3. Nanos(now) >= Nanos(nextdeadline)
        BY <1>0, <1>2, <2>1, CmpLemma
    <2>4. finaldeadline.tv_sec = 0 => Nanos(now) >= D
        BY <1>1, <2>1, <2>3
    <2>5. curr_to' \in Nat
        BY <1>0, <2>1
    <2> QED BY <1>0, <1>1, <2>1, <2>2, <2>4, <2>5 DEF DeadlineInv
<1>7. CASE Reply \/ Woken
    <2>1. /\ UNCHANGED <<now, to, started, curr_to, nextdeadline, finaldeadline>> /\ done' = TRUE
          /\ (pc' = pc \/ (pc' = "over" /\ pc # "idle"))
        BY <1>7 DEF Reply, Woken, DeadlineInv
    <2>2. D' = D /\ Nanos(now)' = Nanos(now) /\ Nanos(finaldeadline)' = Nanos(finaldeadline)
          /\ Nanos(nextdeadline)' = Nanos(nextdeadline)
        BY <2>1 DEF CallDeadline, Nanos
    <2> QED BY <1>0, <1>1, <2>1, <2>2 DEF DeadlineInv
<1> QED BY <1>3, <1>4, <1>5, <1>6, <1>7 DEF DeadlineNext

\* The clock shows second 1 when the call is made.
LEMMA InitDeadline == DeadlineInit => DeadlineInv
<1> SUFFICES ASSUME DeadlineInit PROVE DeadlineInv
    OBVIOUS
<1>1. Second \in Nat \ {0}
    BY SecondLemma
<1>2. now \in Times /\ now.tv_sec = 1
    BY <1>1 DEF DeadlineInit, Timespec, Times
<1>3. Timespec(0, 0) \in Deadlines
    BY <1>1 DEF Timespec, Deadlines
<1>4. started = now /\ to \in Nat /\ curr_to \in Nat /\ pc = "idle" /\ done \in BOOLEAN
    BY DeadlineAssumption DEF DeadlineInit
<1>5. nextdeadline \in Deadlines /\ finaldeadline \in Deadlines
    BY <1>3 DEF DeadlineInit
<1>6. now.tv_sec >= 1 /\ started \in Times /\ started.tv_sec >= 1
    BY <1>2, <1>4
<1> QED BY <1>2, <1>4, <1>5, <1>6 DEF DeadlineInv

(***************************************************************************)
(* The deadlines that call1 computes with add_timespec and cmp_timespec    *)
(* are right, whatever the units, the timeout and the length of a round.   *)
(***************************************************************************)
THEOREM DeadlineInvariant == DeadlineSpec => []DeadlineInv
<1>1. DeadlineInv /\ [DeadlineNext]_deadlineVars => DeadlineInv'
    <2>1. ASSUME DeadlineInv, UNCHANGED deadlineVars PROVE DeadlineInv'
        BY <2>1 DEF DeadlineInv, CallDeadline, Nanos, deadlineVars
    <2> QED BY <2>1, DeadlineStep
<1> QED BY <1>1, InitDeadline, PTL DEF DeadlineSpec

\* A call that rpcc::call1 gives up has waited for all of its timeout.
THEOREM TimeoutNotEarly == DeadlineSpec => []NoEarlyTimeout
<1>1. DeadlineInv => NoEarlyTimeout
    BY DEF DeadlineInv, NoEarlyTimeout, CallDeadline
<1> QED BY <1>1, DeadlineInvariant, PTL

\* No round of rpcc::call1 is to end after the deadline of the call.
THEOREM RoundsNotLate == DeadlineSpec => []NoLateRound
<1>1. DeadlineInv => NoLateRound
    BY DEF DeadlineInv, NoLateRound, CallDeadline
<1> QED BY <1>1, DeadlineInvariant, PTL
=============================================================================
