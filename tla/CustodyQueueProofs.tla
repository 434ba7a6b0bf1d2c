------------------------- MODULE CustodyQueueProofs -------------------------
(***************************************************************************)
(* The custody queue, for every capacity, lifetime and set of sizes.       *)
(*                                                                         *)
(* m_bytes is a sum over the list, so the proof begins with sums: that     *)
(* they split where a front of the list is cut off (by induction over the  *)
(* naturals, one set at a time).  Then what leaves: the stale items are a  *)
(* front because ages fall from the front of the queue, which is what the  *)
(* loop of ExpireStale takes for granted.  Last the calls: each keeps the  *)
(* invariant CInv and hands packets on as the lossy FIFO does.             *)
(***************************************************************************)
EXTENDS CustodyQueue, FiniteSetTheorems, SequenceTheorems,
        WellFoundedInduction, TLAPS

-----------------------------------------------------------------------------
(* Induction over the naturals, for one set at a time: the least element   *)
(* of a set of naturals, from the well-foundedness of <.                   *)

Less == {p \in Nat \X Nat : p[1] < p[2]}

\* The order of the naturals is well founded.
LEMMA LessWellFounded == IsWellFoundedOn(Less, Nat)
BY NatLessThanWellFounded DEF OpToRel, Less

\* A set of naturals that is not empty has a least element.
LEMMA LeastOf ==
    ASSUME NEW T \in SUBSET Nat, T # {}
    PROVE  \E n \in T : \A m \in T : n <= m
<1>1. \E n \in T : \A m \in T : ~ (<<m, n>> \in Less)
  <2>1. T \subseteq Nat
    OBVIOUS
  <2> QED
    BY LessWellFounded, WFMin, <2>1, Zenon
<1>2. \A m, n \in Nat : m < n => <<m, n>> \in Less
  <2> SUFFICES ASSUME NEW m \in Nat, NEW n \in Nat, m < n
               PROVE  <<m, n>> \in Less
    OBVIOUS
  <2>1. <<m, n>> \in Nat \X Nat /\ <<m, n>>[1] = m /\ <<m, n>>[2] = n
    OBVIOUS
  <2> QED
    BY <2>1 DEF Less
<1>3. PICK n \in T : \A m \in T : ~ (<<m, n>> \in Less)
  BY <1>1
<1>4. ASSUME NEW m \in T PROVE n <= m
  <2>1. ~ (<<m, n>> \in Less) /\ m \in Nat /\ n \in Nat
    BY <1>3
  <2>2. ~ (m < n)
    BY <1>2, <2>1
  <2> QED
    BY <2>1, <2>2
<1> QED
  BY <1>4

\* A set that holds 0 and, with a natural, its successor, holds every natural.
LEMMA Induct ==
    ASSUME NEW T, 0 \in T, \A n \in Nat : n \in T => n + 1 \in T
    PROVE  Nat \subseteq T
<1> SUFFICES ASSUME ~(Nat \subseteq T) PROVE FALSE
  OBVIOUS
<1> DEFINE B == Nat \ T
<1>1. PICK n \in B : \A m \in B : n <= m
  <2>1. B \in SUBSET Nat /\ B # {}
    OBVIOUS
  <2> QED
    BY <2>1, LeastOf
<1>2. n # 0 /\ n - 1 \in Nat /\ ~ (n <= n - 1)
  BY <1>1
<1>3. n - 1 \in T
  BY <1>1, <1>2
<1> QED
  BY <1>1, <1>2, <1>3

\* An item held.
LEMMA ItemType ==
    ASSUME NEW x \in Item
    PROVE  /\ x.id \in 1 .. MaxPackets /\ x.size \in Nat
           /\ x.age \in 0 .. MaxAge /\ x.age \in Nat
<1>1. x.id \in 1 .. MaxPackets /\ x.size \in Sizes /\ x.age \in 0 .. MaxAge
  BY DEF Item
<1>2. x.size \in Nat
  BY <1>1, CustodyAssumption
<1>3. \A a \in 0 .. MaxAge : a \in Nat
  BY CustodyAssumption
<1> QED
  BY <1>1, <1>2, <1>3

-----------------------------------------------------------------------------
(* m_bytes: the sum over a list, and over what is left of it.              *)

\* f sums up the first n items of s.
Sums(f, s, n) == f[0] = 0 /\ \A i \in 1 .. n : f[i] = f[i - 1] + s[i].size

\* Sums exist, up to the length of the list.
LEMMA SumsExist ==
    ASSUME NEW s \in Seq(Item)
    PROVE  \E f \in [0 .. Len(s) -> Nat] : Sums(f, s, Len(s))
<1> DEFINE T == {n \in Nat : n <= Len(s) =>
                                \E f \in [0 .. n -> Nat] : Sums(f, s, n)}
<1>1. 0 \in T
  <2> DEFINE f == [i \in 0 .. 0 |-> 0]
  <2>1. f \in [0 .. 0 -> Nat] /\ Sums(f, s, 0)
    BY DEF Sums
  <2> HIDE DEF f
  <2> QED
    BY <2>1
<1>2. ASSUME NEW n \in Nat, n \in T PROVE n + 1 \in T
  <2> SUFFICES ASSUME n + 1 <= Len(s)
               PROVE  \E f \in [0 .. n + 1 -> Nat] : Sums(f, s, n + 1)
    OBVIOUS
  <2>1. PICK f \in [0 .. n -> Nat] : Sums(f, s, n)
    BY <1>2
  <2> DEFINE g == [i \in 0 .. n + 1 |-> IF i <= n THEN f[i]
                                        ELSE f[n] + s[n + 1].size]
  <2>2. s[n + 1].size \in Nat
    BY ItemType
  <2>3. g \in [0 .. n + 1 -> Nat]
    BY <2>2
  <2>4. g[0] = 0
    BY <2>1 DEF Sums
  <2>5. ASSUME NEW i \in 1 .. n + 1 PROVE g[i] = g[i - 1] + s[i].size
    BY <2>1 DEF Sums
  <2>6. Sums(g, s, n + 1)
    <3> HIDE DEF g
    <3> QED
      BY <2>4, <2>5 DEF Sums
  <2> HIDE DEF g
  <2> QED
    BY <2>3, <2>6
<1>3. Nat \subseteq T
  <2> HIDE DEF T
  <2> QED
    BY <1>1, <1>2, Induct
<1>4. Len(s) \in T
  BY <1>3
<1> QED
  BY <1>4

\* f holds the sums of s, up to its first n items.
Summing(f, s, n) == n \in Nat /\ f \in [0 .. n -> Nat] /\ Sums(f, s, n)

\* The n items of t are those of s, of m, that follow the k-th.
Shift(s, m, t, n, k) ==
    /\ k \in Nat /\ k + n <= m
    /\ \A i \in 1 .. m : s[i].size \in Nat
    /\ \A i \in 1 .. n : t[i].size = s[k + i].size

\* The sum of n items is the difference of two sums.
Differs(g, n, f, k) == g[n] = f[k + n] - f[k]

\* Where the next of the n items is, in both lists.
LEMMA NextPlace ==
    ASSUME NEW n \in Nat, NEW k \in Nat, NEW m \in Nat, k + n <= m,
           NEW j \in Nat, j + 1 <= n
    PROVE  /\ j + 1 \in 1 .. n /\ (j + 1) - 1 = j
           /\ k + (j + 1) \in 1 .. m /\ (k + (j + 1)) - 1 = k + j
OBVIOUS

\* A list that is another one from its k-th item on sums up to the difference.
LEMMA SumsShift ==
    ASSUME NEW n, NEW k, NEW m, NEW s, NEW t, NEW f, NEW g,
           Summing(f, s, m), Summing(g, t, n), Shift(s, m, t, n, k)
    PROVE  Differs(g, n, f, k)
<1> SUFFICES ASSUME n \in Nat, k \in Nat, m \in Nat, k + n <= m,
                    f \in [0 .. m -> Nat], g \in [0 .. n -> Nat],
                    Sums(f, s, m), Sums(g, t, n),
                    \A i \in 1 .. m : s[i].size \in Nat,
                    \A i \in 1 .. n : t[i].size = s[k + i].size
             PROVE  g[n] = f[k + n] - f[k]
  BY DEF Summing, Shift, Differs
<1> DEFINE T == {j \in Nat : j <= n => g[j] = f[k + j] - f[k]}
<1>1. 0 \in T
  BY DEF Sums
<1>2. ASSUME NEW j \in Nat, j \in T PROVE j + 1 \in T
  <2> SUFFICES ASSUME j + 1 <= n PROVE g[j + 1] = f[k + (j + 1)] - f[k]
    OBVIOUS
  <2>0. j + 1 <= n
    OBVIOUS
  <2>1. g[j] = f[k + j] - f[k]
    BY <1>2
  <2>2. g[j + 1] = g[j] + t[j + 1].size
    <3>1. j + 1 \in 1 .. n /\ (j + 1) - 1 = j
      BY <2>0, NextPlace
    <3> QED
      BY <3>1 DEF Sums
  <2>3. f[k + (j + 1)] = f[k + j] + s[k + (j + 1)].size
    <3>1. k + (j + 1) \in 1 .. m /\ (k + (j + 1)) - 1 = k + j
      BY <2>0, NextPlace
    <3> QED
      BY <3>1 DEF Sums
  <2>4. t[j + 1].size = s[k + (j + 1)].size
    <3>1. j + 1 \in 1 .. n
      BY <2>0, NextPlace
    <3> QED
      BY <3>1
  <2>5. /\ f[k] \in Nat /\ f[k + j] \in Nat
        /\ s[k + (j + 1)].size \in Nat /\ g[j] \in Nat
    OBVIOUS
  <2> DEFINE x == s[k + (j + 1)].size
             a == f[k]
             b == f[k + j]
  <2>6. g[j + 1] = (b - a) + x /\ f[k + (j + 1)] = b + x
    BY <2>1, <2>2, <2>3, <2>4
  <2>7. x \in Nat /\ a \in Nat /\ b \in Nat
    BY <2>5
  <2> HIDE DEF x, a, b
  <2>8. g[j + 1] = f[k + (j + 1)] - a
    BY <2>6, <2>7
  <2> QED
    BY <2>8 DEF a
<1>3. Nat \subseteq T
  <2> HIDE DEF T
  <2> QED
    BY <1>1, <1>2, Induct
<1>4. n \in T
  BY <1>3
<1> QED
  BY <1>4

\* Bytes is such a sum.
LEMMA BytesSums ==
    ASSUME NEW s \in Seq(Item)
    PROVE  \E f \in [0 .. Len(s) -> Nat] :
              Sums(f, s, Len(s)) /\ Bytes(s) = f[Len(s)]
<1> DEFINE Code(f) == f = [i \in 0 .. Len(s) |->
                              IF i = 0 THEN 0 ELSE f[i - 1] + s[i].size]
           g == CHOOSE f : Code(f)
<1>1. Bytes(s) = g[Len(s)]
  BY DEF Bytes
<1>2. PICK f \in [0 .. Len(s) -> Nat] : Sums(f, s, Len(s))
  BY SumsExist
<1>3. Code(f)
  <2>1. \A i \in 0 .. Len(s) : f[i] = IF i = 0 THEN 0 ELSE f[i - 1] + s[i].size
    BY <1>2 DEF Sums
  <2>2. f = [i \in 0 .. Len(s) |-> f[i]]
    OBVIOUS
  <2> QED
    BY <2>1, <2>2
<1>4. Code(g)
  <2> HIDE DEF Code
  <2> QED
    BY <1>3
<1> HIDE DEF g
<1>5. /\ g = [i \in 0 .. Len(s) |-> g[i]]
      /\ g[0] = 0 /\ \A i \in 1 .. Len(s) : g[i] = g[i - 1] + s[i].size
  BY <1>4
<1>6. Sums(g, s, Len(s))
  BY <1>5 DEF Sums
<1> DEFINE T == {j \in Nat : j <= Len(s) => g[j] \in Nat}
<1>7. 0 \in T
  BY <1>5
<1>8. ASSUME NEW j \in Nat, j \in T PROVE j + 1 \in T
  <2> SUFFICES ASSUME j + 1 <= Len(s) PROVE g[j + 1] \in Nat
    OBVIOUS
  <2>1. g[j + 1] = g[j] + s[j + 1].size
    <3>1. j + 1 \in 1 .. Len(s) /\ (j + 1) - 1 = j
      OBVIOUS
    <3> QED
      BY <1>5, <3>1
  <2>2. s[j + 1].size \in Nat
    BY ItemType
  <2> QED
    BY <1>8, <2>1, <2>2
<1>9. Nat \subseteq T
  <2> HIDE DEF T
  <2> QED
    BY <1>7, <1>8, Induct
<1>10. \A j \in 0 .. Len(s) : g[j] \in Nat
  BY <1>9
<1>11. g \in [0 .. Len(s) -> Nat]
  BY <1>5, <1>10
<1> QED
  BY <1>1, <1>6, <1>11

\* What is left of a list without its k oldest, and these.
LEMMA YoungerType ==
    ASSUME NEW s \in Seq(Item), NEW k \in 0 .. Len(s)
    PROVE  /\ Younger(s, k) \in Seq(Item)
           /\ Len(Younger(s, k)) = Len(s) - k
           /\ \A i \in 1 .. Len(s) - k : Younger(s, k)[i] = s[k + i]
           /\ Oldest(s, k) \in Seq(Item)
           /\ Len(Oldest(s, k)) = k
           /\ \A i \in 1 .. k : Oldest(s, k)[i] = s[i]
<1>1. /\ Younger(s, k) = [i \in 1 .. Len(s) - k |-> s[k + i]]
      /\ Oldest(s, k) = [i \in 1 .. k |-> s[i]]
  BY DEF Younger, Oldest
<1>2. \A i \in 1 .. Len(s) - k : s[k + i] \in Item
  OBVIOUS
<1>3. \A i \in 1 .. k : s[i] \in Item
  OBVIOUS
<1> QED
  BY <1>1, <1>2, <1>3

\* The bytes of a list are those of its oldest and of the rest, and one more item
\* adds its own.
LEMMA BytesSplit ==
    ASSUME NEW s \in Seq(Item)
    PROVE  /\ Bytes(s) \in Nat
           /\ \A k \in 0 .. Len(s) :
                 /\ Bytes(Oldest(s, k)) \in Nat
                 /\ Bytes(Younger(s, k)) = Bytes(s) - Bytes(Oldest(s, k))
           /\ \A p \in Item : Bytes(Append(s, p)) = Bytes(s) + p.size
<1>1. PICK f \in [0 .. Len(s) -> Nat] :
         Sums(f, s, Len(s)) /\ Bytes(s) = f[Len(s)]
  BY BytesSums
<1>2. f[0] = 0 /\ \A i \in 1 .. Len(s) : s[i].size \in Nat
  BY <1>1, ItemType DEF Sums
<1>3. ASSUME NEW k \in 0 .. Len(s)
      PROVE  /\ Bytes(Oldest(s, k)) = f[k]
             /\ Bytes(Younger(s, k)) = f[Len(s)] - f[k]
  <2> DEFINE u == Oldest(s, k)
             v == Younger(s, k)
  <2>1. /\ u \in Seq(Item) /\ Len(u) = k /\ \A i \in 1 .. k : u[i] = s[i]
        /\ v \in Seq(Item) /\ Len(v) = Len(s) - k
        /\ \A i \in 1 .. Len(s) - k : v[i] = s[k + i]
    BY YoungerType
  <2> HIDE DEF u, v
  <2>2. PICK g \in [0 .. k -> Nat] : Sums(g, u, k) /\ Bytes(u) = g[k]
    BY <2>1, BytesSums
  <2>3. \A i \in 1 .. k : u[i].size = s[0 + i].size
    BY <2>1
  <2>4. g[k] = f[0 + k] - f[0]
    <3>1. Summing(f, s, Len(s)) /\ Summing(g, u, k)
      BY <1>1, <2>2 DEF Summing
    <3>2. 0 \in Nat /\ 0 + k <= Len(s)
      OBVIOUS
    <3>3. Shift(s, Len(s), u, k, 0)
      BY <1>2, <2>3, <3>2, Zenon DEF Shift
    <3> QED
      BY <3>1, <3>3, SumsShift DEF Differs
  <2>5. g[k] = f[k]
    BY <1>2, <2>4
  <2> DEFINE n == Len(s) - k
  <2>6. n \in Nat /\ k + n = Len(s)
    OBVIOUS
  <2>7. PICK h \in [0 .. n -> Nat] : Sums(h, v, n) /\ Bytes(v) = h[n]
    BY <2>1, BytesSums
  <2>8. \A i \in 1 .. n : v[i].size = s[k + i].size
    BY <2>1
  <2> HIDE DEF n
  <2>9. h[n] = f[k + n] - f[k]
    <3>1. Summing(f, s, Len(s)) /\ Summing(h, v, n)
      BY <1>1, <2>6, <2>7 DEF Summing
    <3>2. Shift(s, Len(s), v, n, k)
      BY <1>2, <2>6, <2>8 DEF Shift
    <3> QED
      BY <3>1, <3>2, SumsShift DEF Differs
  <2> QED
    BY <2>2, <2>5, <2>6, <2>7, <2>9 DEF u, v
<1>4. ASSUME NEW p \in Item PROVE Bytes(Append(s, p)) = Bytes(s) + p.size
  <2> DEFINE t == Append(s, p)
             n == Len(s)
  <2>1. /\ t \in Seq(Item) /\ Len(t) = n + 1 /\ n \in Nat
        /\ \A i \in 1 .. n : t[i] = s[i]
        /\ t[n + 1] = p
    OBVIOUS
  <2> HIDE DEF t
  <2>2. PICK g \in [0 .. n + 1 -> Nat] : Sums(g, t, n + 1) /\ Bytes(t) = g[n + 1]
    BY <2>1, BytesSums
  <2>3. \A i \in 1 .. n + 1 : t[i].size \in Nat
    BY <2>1, ItemType
  <2>4. \A i \in 1 .. n : s[i].size = t[0 + i].size
    BY <2>1
  <2>5. f[n] = g[0 + n] - g[0]
    <3>1. Summing(g, t, n + 1) /\ Summing(f, s, n)
      BY <1>1, <2>1, <2>2 DEF Summing
    <3>2. Shift(t, n + 1, s, n, 0)
      BY <2>1, <2>3, <2>4 DEF Shift
    <3> QED
      BY <3>1, <3>2, SumsShift DEF Differs
  <2>6. g[0] = 0 /\ g[n + 1] = g[n] + p.size
    <3>1. n + 1 \in 1 .. n + 1 /\ (n + 1) - 1 = n
      BY <2>1
    <3> QED
      BY <2>1, <2>2, <3>1 DEF Sums
  <2>7. g[n] \in Nat
    BY <2>1
  <2>8. f[n] = g[n]
    BY <2>5, <2>6, <2>7
  <2> QED
    BY <1>1, <2>2, <2>6, <2>8 DEF t
<1>5. ASSUME NEW k \in 0 .. Len(s)
      PROVE  /\ Bytes(Oldest(s, k)) \in Nat
             /\ Bytes(Younger(s, k)) = Bytes(s) - Bytes(Oldest(s, k))
  BY <1>1, <1>3
<1> QED
  BY <1>1, <1>4, <1>5

\* Lists of the same sizes take the same bytes.
LEMMA BytesSame ==
    ASSUME NEW s \in Seq(Item), NEW t \in Seq(Item), Len(t) = Len(s),
           \A i \in 1 .. Len(s) : t[i].size = s[i].size
    PROVE  Bytes(t) = Bytes(s)
<1> DEFINE n == Len(s)
<1>1. PICK f \in [0 .. n -> Nat] : Sums(f, s, n) /\ Bytes(s) = f[n]
  BY BytesSums
<1>2. PICK g \in [0 .. n -> Nat] : Sums(g, t, n) /\ Bytes(t) = g[n]
  BY BytesSums
<1>3. \A i \in 1 .. n : s[i].size \in Nat /\ t[i].size = s[0 + i].size
  BY ItemType
<1>4. n \in Nat
  OBVIOUS
<1> HIDE DEF n
<1>5. g[n] = f[0 + n] - f[0]
  <2>1. Summing(f, s, n) /\ Summing(g, t, n)
    BY <1>1, <1>2, <1>4 DEF Summing
  <2>2. Shift(s, n, t, n, 0)
    BY <1>3, <1>4 DEF Shift
  <2>3. Differs(g, n, f, 0)
    BY <2>1, <2>2, SumsShift, Zenon
  <2> QED
    BY <2>3 DEF Differs
<1>6. f[0] = 0 /\ f[n] \in Nat /\ 0 + n = n
  BY <1>1, <1>4 DEF Sums
<1>7. g[n] = f[n]
  BY <1>5, <1>6
<1> QED
  BY <1>1, <1>2, <1>7

-----------------------------------------------------------------------------
(* What leaves: a front of the list.                                       *)

\* A set of positions that holds, with one, all before it, is a front.
LEMMA FrontSize ==
    ASSUME NEW n \in Nat, NEW P \in SUBSET (1 .. n),
           \A i \in P : \A j \in 1 .. i : j \in P
    PROVE  Cardinality(P) \in 0 .. n /\ P = 1 .. Cardinality(P)
<1> DEFINE B == (1 .. n + 1) \ P
<1>1. PICK m \in B : \A i \in B : m <= i
  <2>1. n + 1 \in B /\ B \in SUBSET Nat
    OBVIOUS
  <2> HIDE DEF B
  <2> QED
    BY <2>1, LeastOf
<1>2. m \in 1 .. n + 1 /\ m \notin P
  OBVIOUS
<1>3. ASSUME NEW i \in 1 .. m - 1 PROVE i \in P
  BY <1>1, <1>3
<1>4. ASSUME NEW i \in P PROVE i \in 1 .. m - 1
  <2>1. ~ (m <= i)
    BY <1>2
  <2> QED
    BY <1>2, <2>1
<1>5. P = 1 .. m - 1
  BY <1>3, <1>4
<1>6. Cardinality(1 .. m - 1) = m - 1
  BY <1>2, FS_Interval
<1> QED
  BY <1>2, <1>5, <1>6

\* The queue is well formed: the items are, oldest first, and so are the counts.
Good(c) == /\ c \in Queue /\ c.bytes = Bytes(c.items)
           /\ \A i, j \in DOMAIN c.items : i < j =>
                 c.items[i].age >= c.items[j].age

\* Nothing held is too old to be handed on.
Fresh(c) == Lifetime > 0 => \A i \in DOMAIN c.items : c.items[i].age <= Lifetime

\* d is c without its k oldest.
Without(d, c, k) ==
    /\ Good(d)
    /\ k \in 0 .. Len(c.items)
    /\ d.items = Younger(c.items, k)
    /\ d.bytes <= c.bytes
    /\ d.maxCustody = c.maxCustody
    /\ Fresh(c) => Fresh(d)

\* Items that leave take their bytes with them.
LEMMA RemovedKeeps ==
    ASSUME NEW c, Good(c), NEW k \in 0 .. Len(c.items)
    PROVE  /\ Without(Removed(c, k), c, k)
           /\ Removed(c, k).fwdNow = c.fwdNow
           /\ Removed(c, k).fwdCustody = c.fwdCustody
           /\ Removed(c, k).expired = c.expired
           /\ Removed(c, k).droppedSpace = c.droppedSpace
<1> DEFINE s == c.items
           d == Removed(c, k)
<1>0. c \in Queue /\ s \in Seq(Item) /\ c.bytes = Bytes(s)
  BY DEF Good, Queue
<1>1. /\ d.items = Younger(s, k)
      /\ d.bytes = c.bytes - Bytes(Oldest(s, k))
      /\ d.maxCustody = c.maxCustody
      /\ d.fwdNow = c.fwdNow /\ d.fwdCustody = c.fwdCustody
      /\ d.expired = c.expired /\ d.droppedSpace = c.droppedSpace
  BY <1>0 DEF Removed, Queue
<1>2. /\ Younger(s, k) \in Seq(Item) /\ Len(Younger(s, k)) = Len(s) - k
      /\ \A i \in 1 .. Len(s) - k : Younger(s, k)[i] = s[k + i]
  BY <1>0, YoungerType
<1>3. /\ Bytes(s) \in Nat /\ Bytes(Oldest(s, k)) \in Nat
      /\ Bytes(Younger(s, k)) = Bytes(s) - Bytes(Oldest(s, k))
  BY <1>0, BytesSplit
<1>4. d \in Queue
  <2>1. d = [c EXCEPT !.items = Younger(s, k),
                      !.bytes = c.bytes - Bytes(Oldest(s, k))]
    BY <1>0 DEF Removed, Queue
  <2>2. c.bytes - Bytes(Oldest(s, k)) \in Int
    BY <1>0, <1>3
  <2>3. \A u \in Seq(Item), b \in Int :
           [c EXCEPT !.items = u, !.bytes = b] \in Queue
    BY <1>0 DEF Queue
  <2> HIDE DEF d
  <2> QED
    BY <1>2, <2>1, <2>2, <2>3
<1> DEFINE v == Younger(s, k)
<1> HIDE DEF v, d
<1>5. DOMAIN d.items = 1 .. Len(s) - k
  BY <1>1, <1>2 DEF v
<1>6. ASSUME NEW i \in DOMAIN d.items, NEW j \in DOMAIN d.items, i < j
      PROVE  d.items[i].age >= d.items[j].age
  <2>1. k + i \in DOMAIN s /\ k + j \in DOMAIN s /\ k + i < k + j
    BY <1>0, <1>5, <1>6
  <2>2. s[k + i].age >= s[k + j].age
    BY <2>1 DEF Good
  <2> QED
    BY <1>1, <1>2, <1>5, <2>2
<1>7. Good(d)
  BY <1>0, <1>1, <1>3, <1>4, <1>6 DEF Good
<1>8. Fresh(c) => Fresh(d)
  <2> SUFFICES ASSUME Fresh(c), Lifetime > 0, NEW i \in DOMAIN d.items
               PROVE  d.items[i].age <= Lifetime
    BY DEF Fresh
  <2>1. k + i \in DOMAIN s
    BY <1>0, <1>5
  <2> QED
    BY <1>1, <1>2, <1>5, <2>1 DEF Fresh
<1>9. d.bytes <= c.bytes
  BY <1>0, <1>1, <1>3
<1> QED
  BY <1>1, <1>7, <1>8, <1>9 DEF Without, d

\* Leaving in two goes is leaving in one.
LEMMA YoungerTwice ==
    ASSUME NEW s \in Seq(Item), NEW k \in 0 .. Len(s), NEW l \in 0 .. Len(s) - k
    PROVE  Younger(Younger(s, k), l) = Younger(s, k + l)
<1> DEFINE u == Younger(s, k)
           v == Younger(u, l)
           w == Younger(s, k + l)
<1>1. /\ u \in Seq(Item) /\ Len(u) = Len(s) - k
      /\ \A i \in 1 .. Len(s) - k : u[i] = s[k + i]
  BY YoungerType
<1>2. /\ v \in Seq(Item) /\ Len(v) = (Len(s) - k) - l
      /\ \A i \in 1 .. (Len(s) - k) - l : v[i] = u[l + i]
  <2> HIDE DEF u
  <2>1. u \in Seq(Item) /\ l \in 0 .. Len(u)
    BY <1>1
  <2> QED
    BY <1>1, <2>1, YoungerType
<1>3. /\ w \in Seq(Item) /\ Len(w) = Len(s) - (k + l)
      /\ \A i \in 1 .. Len(s) - (k + l) : w[i] = s[(k + l) + i]
  <2>1. k + l \in 0 .. Len(s)
    OBVIOUS
  <2> QED
    BY <2>1, YoungerType
<1> HIDE DEF u, v, w
<1>4. Len(v) = Len(w)
  BY <1>2, <1>3
<1>5. ASSUME NEW i \in 1 .. Len(w) PROVE v[i] = w[i]
  <2>1. /\ i \in 1 .. (Len(s) - k) - l /\ l + i \in 1 .. Len(s) - k
        /\ i \in 1 .. Len(s) - (k + l) /\ k + (l + i) = (k + l) + i
    BY <1>3
  <2>2. v[i] = u[l + i] /\ u[l + i] = s[k + (l + i)] /\ w[i] = s[(k + l) + i]
    BY <1>1, <1>2, <1>3, <2>1
  <2> QED
    BY <2>1, <2>2
<1> QED
  BY <1>2, <1>3, <1>4, <1>5 DEF u, v, w

\* The packets a queue has counted, in custody or not.
Counted(c) == c.fwdNow + c.fwdCustody + c.expired
                 + c.droppedSpace + Len(c.items)

\* d is what c becomes when some of its oldest leave and are counted.
Loses(d, c) == Counted(d) = Counted(c) /\ \E k \in Nat : Without(d, c, k)

\* The counts of a queue.
LEMMA QueueCounts ==
    ASSUME NEW c \in Queue
    PROVE  /\ c.fwdNow \in Nat /\ c.fwdCustody \in Nat /\ c.expired \in Nat
           /\ c.droppedSpace \in Nat /\ c.maxCustody \in 0 .. MaxAge
           /\ c.bytes \in Int /\ c.items \in Seq(Item) /\ Len(c.items) \in Nat
BY DEF Queue

\* Losing in two goes.
LEMMA LosesTwice ==
    ASSUME NEW c, NEW d, NEW e, Good(c), Loses(d, c), Loses(e, d)
    PROVE  Loses(e, c)
<1>1. PICK k \in Nat : Without(d, c, k)
  BY DEF Loses
<1>2. PICK l \in Nat : Without(e, d, l)
  BY DEF Loses
<1>3. /\ c.items \in Seq(Item) /\ Good(d) /\ d.bytes \in Int /\ c.bytes \in Int
      /\ Good(e) /\ e.bytes \in Int
  BY <1>1, <1>2, QueueCounts DEF Good, Without
<1>4. k \in 0 .. Len(c.items) /\ d.items = Younger(c.items, k)
      /\ l \in 0 .. Len(d.items) /\ e.items = Younger(d.items, l)
  BY <1>1, <1>2 DEF Without
<1>5. Len(d.items) = Len(c.items) - k
  BY <1>3, <1>4, YoungerType
<1>6. e.items = Younger(c.items, k + l)
  BY <1>3, <1>4, <1>5, YoungerTwice
<1>7. k + l \in 0 .. Len(c.items) /\ k + l \in Nat
  BY <1>3, <1>4, <1>5
<1>8. e.bytes <= c.bytes
  <2>1. e.bytes <= d.bytes /\ d.bytes <= c.bytes
    BY <1>1, <1>2 DEF Without
  <2> QED
    BY <1>3, <2>1
<1>9. e.maxCustody = c.maxCustody /\ (Fresh(c) => Fresh(e))
  BY <1>1, <1>2 DEF Without
<1>10. Without(e, c, k + l)
  BY <1>3, <1>6, <1>7, <1>8, <1>9 DEF Without
<1> QED
  BY <1>7, <1>10 DEF Loses

\* ExpireStale: the stale items at the front leave, and the rest are fresh.
LEMMA ExpiredKeeps ==
    ASSUME NEW c, Good(c)
    PROVE  Loses(Expired(c), c) /\ Fresh(Expired(c))
<1> DEFINE s == c.items
           P == Stale(c)
           k == Cardinality(P)
           d == Removed(c, k)
           e == Expired(c)
<1>1. c \in Queue /\ s \in Seq(Item) /\ Len(s) \in Nat
  BY QueueCounts DEF Good
<1>2. DOMAIN s = 1 .. Len(s)
  BY <1>1
<1>3. k \in 0 .. Len(s) /\ P = 1 .. k
  <2>1. P \in SUBSET (1 .. Len(s))
    BY <1>2 DEF Stale
  <2>2. \A i \in P : \A j \in 1 .. i : j \in P
    <3> SUFFICES ASSUME NEW i \in P, NEW j \in 1 .. i PROVE j \in P
      OBVIOUS
    <3>1. i \in 1 .. Len(s) /\ Lifetime > 0
          /\ \A m \in 1 .. i : s[m].age > Lifetime
      BY <1>2 DEF Stale
    <3>2. j \in 1 .. Len(s) /\ \A m \in 1 .. j : m \in 1 .. i
      BY <1>1, <3>1
    <3> QED
      BY <1>2, <3>1, <3>2 DEF Stale
  <2> HIDE DEF P
  <2> QED
    BY <1>1, <2>1, <2>2, FrontSize
<1>4. /\ Without(d, c, k)
      /\ d.fwdNow = c.fwdNow /\ d.fwdCustody = c.fwdCustody
      /\ d.expired = c.expired /\ d.droppedSpace = c.droppedSpace
  <2> HIDE DEF k
  <2> QED
    BY <1>3, RemovedKeeps
<1>5. d \in Queue /\ Good(d) /\ d.items = Younger(s, k)
  BY <1>4 DEF Without, Good
<1>6. e = [d EXCEPT !.expired = d.expired + k]
  BY DEF Expired
<1> HIDE DEF k, P, d
<1>7. /\ e.items = d.items /\ e.bytes = d.bytes /\ e.maxCustody = d.maxCustody
      /\ e.fwdNow = d.fwdNow /\ e.fwdCustody = d.fwdCustody
      /\ e.droppedSpace = d.droppedSpace /\ e.expired = d.expired + k
      /\ e \in Queue
  BY <1>3, <1>5, <1>6 DEF Queue
<1> HIDE DEF e
<1>8. Good(e)
  BY <1>5, <1>7 DEF Good
<1>9. Without(e, c, k)
  <2>1. Fresh(c) => Fresh(e)
    BY <1>4, <1>7 DEF Without, Fresh
  <2> QED
    BY <1>4, <1>7, <1>8, <2>1 DEF Without
<1>10. Counted(e) = Counted(c)
  <2>1. Len(e.items) = Len(s) - k
    BY <1>1, <1>3, <1>5, <1>7, YoungerType
  <2>2. e.expired = c.expired + k /\ e.fwdNow = c.fwdNow
        /\ e.fwdCustody = c.fwdCustody /\ e.droppedSpace = c.droppedSpace
    BY <1>4, <1>7
  <2>3. c.fwdNow \in Nat /\ c.fwdCustody \in Nat /\ c.expired \in Nat
        /\ c.droppedSpace \in Nat
    BY <1>1, QueueCounts
  <2> QED
    BY <1>1, <1>3, <2>1, <2>2, <2>3 DEF Counted
<1>11. Fresh(e)
  <2> SUFFICES ASSUME Lifetime > 0, NEW i \in DOMAIN e.items
               PROVE  e.items[i].age <= Lifetime
    BY DEF Fresh
  <2>1. /\ e.items \in Seq(Item) /\ Len(e.items) = Len(s) - k
        /\ \A j \in 1 .. Len(s) - k : e.items[j] = s[k + j]
    <3>1. e.items = Younger(s, k)
      BY <1>5, <1>7
    <3> QED
      BY <1>1, <1>3, <3>1, YoungerType
  <2>2. /\ i \in 1 .. Len(s) - k /\ 1 \in 1 .. Len(s) - k
        /\ k + 1 \in 1 .. Len(s) /\ k + 1 \notin P
    BY <1>1, <1>3, <2>1
  <2>3. \E m \in 1 .. k + 1 : ~ (s[m].age > Lifetime)
    BY <1>2, <2>2 DEF P, Stale
  <2>4. ~ (s[k + 1].age > Lifetime)
    <3>1. PICK m \in 1 .. k + 1 : ~ (s[m].age > Lifetime)
      BY <2>3
    <3>2. CASE m \in 1 .. k
      <4>1. m \in P
        BY <1>3, <3>2
      <4>2. \A j \in 1 .. m : s[j].age > Lifetime
        BY <4>1 DEF P, Stale
      <4>3. m \in 1 .. m
        BY <1>3, <3>2
      <4> QED
        BY <3>1, <4>2, <4>3
    <3>3. CASE m = k + 1
      BY <3>1, <3>3
    <3> QED
      BY <1>3, <3>2, <3>3
  <2>5. s[k + 1].age \in Nat /\ Lifetime \in Nat
    <3>1. s[k + 1] \in Item
      BY <1>1, <2>2
    <3> QED
      BY <3>1, ItemType, CustodyAssumption
  <2>6. e.items[1].age <= Lifetime
    BY <2>1, <2>2, <2>4, <2>5
  <2>7. CASE i = 1
    BY <2>6, <2>7
  <2>8. CASE i # 1
    <3>1. 1 \in DOMAIN e.items /\ 1 < i
      BY <1>1, <1>3, <2>1, <2>2, <2>8
    <3>2. e.items[1].age >= e.items[i].age
      BY <1>8, <3>1 DEF Good
    <3>3. e.items[1] \in Item /\ e.items[i] \in Item
      BY <2>1, <3>1
    <3>4. e.items[1].age \in Nat /\ e.items[i].age \in Nat
      BY <3>3, ItemType
    <3> QED
      BY <2>5, <2>6, <3>2, <3>4
  <2> QED
    BY <2>7, <2>8
<1> QED
  BY <1>3, <1>9, <1>10, <1>11 DEF Loses, e

\* The drops that make room.
LEMMA RoomKeeps ==
    ASSUME NEW c, Good(c), NEW size
    PROVE  Loses(WithRoom(c, size), c)
<1> DEFINE s == c.items
           P == InTheWay(c, size)
           k == Cardinality(P)
           d == Removed(c, k)
           e == WithRoom(c, size)
<1>1. c \in Queue /\ s \in Seq(Item) /\ Len(s) \in Nat
  BY QueueCounts DEF Good
<1>2. k \in 0 .. Len(s)
  <2>1. P \subseteq 1 .. Len(s)
    BY <1>1 DEF InTheWay
  <2>2. IsFiniteSet(1 .. Len(s)) /\ Cardinality(1 .. Len(s)) = Len(s)
    BY <1>1, FS_Interval
  <2> HIDE DEF P
  <2>3. IsFiniteSet(P) /\ Cardinality(P) <= Cardinality(1 .. Len(s))
    BY <2>1, <2>2, FS_Subset
  <2>4. Cardinality(P) \in Nat
    BY <2>3, FS_CardinalityType
  <2> QED
    BY <1>1, <2>2, <2>3, <2>4
<1>3. /\ Without(d, c, k)
      /\ d.fwdNow = c.fwdNow /\ d.fwdCustody = c.fwdCustody
      /\ d.expired = c.expired /\ d.droppedSpace = c.droppedSpace
  <2> HIDE DEF k
  <2> QED
    BY <1>2, RemovedKeeps
<1>4. d \in Queue /\ Good(d) /\ d.items = Younger(s, k)
  BY <1>3 DEF Without, Good
<1>5. e = [d EXCEPT !.droppedSpace = d.droppedSpace + k]
  BY DEF WithRoom
<1> HIDE DEF k, P, d
<1>6. /\ e.items = d.items /\ e.bytes = d.bytes /\ e.maxCustody = d.maxCustody
      /\ e.fwdNow = d.fwdNow /\ e.fwdCustody = d.fwdCustody
      /\ e.expired = d.expired /\ e.droppedSpace = d.droppedSpace + k
      /\ e \in Queue
  BY <1>2, <1>4, <1>5 DEF Queue
<1> HIDE DEF e
<1>7. Good(e)
  BY <1>4, <1>6 DEF Good
<1>8. Without(e, c, k)
  <2>1. Fresh(c) => Fresh(e)
    BY <1>3, <1>6 DEF Without, Fresh
  <2> QED
    BY <1>3, <1>6, <1>7, <2>1 DEF Without
<1>9. Counted(e) = Counted(c)
  <2>1. Len(e.items) = Len(s) - k
    BY <1>1, <1>2, <1>4, <1>6, YoungerType
  <2>2. e.expired = c.expired /\ e.fwdNow = c.fwdNow
        /\ e.fwdCustody = c.fwdCustody /\ e.droppedSpace = c.droppedSpace + k
    BY <1>3, <1>6
  <2>3. c.fwdNow \in Nat /\ c.fwdCustody \in Nat /\ c.expired \in Nat
        /\ c.droppedSpace \in Nat
    BY <1>1, QueueCounts
  <2> QED
    BY <1>1, <1>2, <2>1, <2>2, <2>3 DEF Counted
<1> QED
  BY <1>2, <1>8, <1>9 DEF Loses, e

-----------------------------------------------------------------------------
(* One call at a time.                                                     *)

\* The invariant, of a queue that has been offered n packets.
Sound(c, n) ==
    /\ Good(c) /\ c.bytes <= Capacity /\ Counted(c) = n
    /\ Lifetime > 0 => c.maxCustody <= Lifetime

\* What leaves harms nothing.
LEMMA LosesSound ==
    ASSUME NEW c, NEW d, NEW n, Sound(c, n), Loses(d, c)
    PROVE  Sound(d, n)
<1>1. PICK k \in Nat : Without(d, c, k)
  BY DEF Loses
<1>2. Good(d) /\ Good(c) /\ d.bytes <= c.bytes /\ d.maxCustody = c.maxCustody
  BY <1>1 DEF Without, Sound
<1>3. d.bytes \in Int /\ c.bytes \in Int /\ c.bytes <= Capacity /\ Capacity \in Nat
  BY <1>2, QueueCounts, CustodyAssumption DEF Good, Sound
<1>4. d.bytes <= Capacity
  BY <1>2, <1>3
<1> QED
  BY <1>2, <1>4 DEF Sound, Loses

\* What leaves keeps the rest as fresh as it was.
LEMMA LosesFresh ==
    ASSUME NEW c, NEW d, Fresh(c), Loses(d, c)
    PROVE  Fresh(d)
BY DEF Loses, Without

\* d counts i more packets forwarded than c, j more dropped and k more held.
More(d, c, i, j, k) ==
    /\ d.fwdNow = c.fwdNow + i /\ i \in Nat
    /\ d.droppedSpace = c.droppedSpace + j /\ j \in Nat
    /\ Len(d.items) = Len(c.items) + k /\ k \in Nat
    /\ d.fwdCustody = c.fwdCustody /\ d.expired = c.expired

\* Then it counts as many more in all.
LEMMA CountedMore ==
    ASSUME NEW c, NEW d, NEW i, NEW j, NEW k, More(d, c, i, j, k), c \in Queue
    PROVE  Counted(d) = Counted(c) + (i + j + k)
<1> DEFINE a == c.fwdNow
           b == c.fwdCustody
           x == c.expired
           y == c.droppedSpace
           z == Len(c.items)
<1>1. /\ Counted(c) = a + b + x + y + z
      /\ Counted(d) = (a + i) + b + x + (y + j) + (z + k)
  BY DEF Counted, More
<1>2. /\ a \in Nat /\ b \in Nat /\ x \in Nat /\ y \in Nat /\ z \in Nat
      /\ i \in Nat /\ j \in Nat /\ k \in Nat
  BY QueueCounts DEF More
<1> HIDE DEF a, b, x, y, z
<1> QED
  BY <1>1, <1>2

\* A packet that fits is put at the back.
LEMMA PushedKeeps ==
    ASSUME NEW c, NEW n \in Nat, Sound(c, n), NEW p \in Item, p.age = 0,
           c.bytes + p.size <= Capacity
    PROVE  /\ Sound(Pushed(c, p), n + 1)
           /\ Fresh(c) => Fresh(Pushed(c, p))
           /\ Pushed(c, p).items = Append(c.items, p)
<1> DEFINE s == c.items
           d == Pushed(c, p)
           t == Append(s, p)
<1>1. c \in Queue /\ s \in Seq(Item) /\ Len(s) \in Nat /\ c.bytes = Bytes(s)
      /\ Good(c)
  BY QueueCounts DEF Sound, Good
<1>2. /\ t \in Seq(Item) /\ Len(t) = Len(s) + 1 /\ DOMAIN t = 1 .. Len(s) + 1
      /\ \A i \in 1 .. Len(s) : t[i] = s[i]
      /\ t[Len(s) + 1] = p /\ DOMAIN s = 1 .. Len(s)
  BY <1>1
<1>3. p.size \in Nat
  BY ItemType
<1>4. d = [c EXCEPT !.items = t, !.bytes = c.bytes + p.size]
  BY <1>1 DEF Pushed, Queue
<1>5. Bytes(t) = c.bytes + p.size
  BY <1>1, BytesSplit
<1> HIDE DEF t, d
<1>6. /\ d.items = t /\ d.bytes = c.bytes + p.size
      /\ d.fwdNow = c.fwdNow /\ d.fwdCustody = c.fwdCustody
      /\ d.expired = c.expired /\ d.droppedSpace = c.droppedSpace
      /\ d.maxCustody = c.maxCustody /\ d \in Queue
  <2>1. c.bytes + p.size \in Int
    BY <1>1, <1>3, QueueCounts
  <2> QED
    BY <1>1, <1>2, <1>4, <2>1 DEF Queue
<1>7. ASSUME NEW i \in DOMAIN d.items, NEW j \in DOMAIN d.items, i < j
      PROVE  d.items[i].age >= d.items[j].age
  <2>1. CASE j = Len(s) + 1
    <3>1. d.items[j].age = 0
      BY <1>2, <1>6, <2>1
    <3>2. d.items[i] \in Item
      BY <1>2, <1>6
    <3>3. d.items[i].age \in Nat
      BY <3>2, ItemType
    <3> QED
      BY <3>1, <3>3
  <2>2. CASE j # Len(s) + 1
    <3>1. i \in 1 .. Len(s) /\ j \in 1 .. Len(s)
      BY <1>1, <1>2, <1>6, <1>7, <2>2
    <3>2. s[i].age >= s[j].age
      BY <1>1, <1>2, <1>7, <3>1 DEF Good
    <3> QED
      BY <1>2, <1>6, <3>1, <3>2
  <2> QED
    BY <2>1, <2>2
<1>8. Good(d)
  BY <1>5, <1>6, <1>7 DEF Good
<1>9. Fresh(c) => Fresh(d)
  <2> SUFFICES ASSUME Fresh(c), Lifetime > 0, NEW i \in DOMAIN d.items
               PROVE  d.items[i].age <= Lifetime
    BY DEF Fresh
  <2>1. CASE i = Len(s) + 1
    <3>1. d.items[i].age = 0
      BY <1>2, <1>6, <2>1
    <3> QED
      BY <3>1, CustodyAssumption
  <2>2. CASE i # Len(s) + 1
    <3>1. i \in 1 .. Len(s)
      BY <1>1, <1>2, <1>6, <2>2
    <3>2. s[i].age <= Lifetime
      BY <1>2, <3>1 DEF Fresh
    <3> QED
      BY <1>2, <1>6, <3>1, <3>2
  <2> QED
    BY <2>1, <2>2
<1>10. Counted(d) = n + 1
  <2>1. Counted(c) = n
    BY DEF Sound
  <2>2. c.fwdNow \in Nat /\ c.fwdCustody \in Nat /\ c.expired \in Nat
        /\ c.droppedSpace \in Nat
    BY <1>1, QueueCounts
  <2>3. Len(d.items) = Len(s) + 1
    BY <1>2, <1>6
  <2>4. More(d, c, 0, 0, 1)
    BY <1>6, <2>2, <2>3 DEF More
  <2>5. Counted(d) = Counted(c) + (0 + 0 + 1)
    BY <1>1, <2>4, CountedMore
  <2> QED
    BY <2>1, <2>5
<1>11. Sound(d, n + 1)
  BY <1>6, <1>8, <1>10 DEF Sound
<1> QED
  BY <1>6, <1>9, <1>11 DEF t, d

\* The forwarder takes some of the oldest, none of them too old.
LEMMA DrainedKeeps ==
    ASSUME NEW c, NEW n, Sound(c, n), Fresh(c), NEW k \in 0 .. Len(c.items)
    PROVE  /\ Sound(Drained(c, k), n)
           /\ Drained(c, k).items = Younger(c.items, k)
<1> DEFINE s == c.items
           d == Removed(c, k)
           e == Drained(c, k)
           top == IF k = 0 THEN d.maxCustody ELSE Larger(d.maxCustody, s[1].age)
<1>1. c \in Queue /\ s \in Seq(Item) /\ Len(s) \in Nat /\ Good(c) /\ k \in Nat
  BY QueueCounts DEF Sound, Good
<1>2. /\ Without(d, c, k)
      /\ d.fwdNow = c.fwdNow /\ d.fwdCustody = c.fwdCustody
      /\ d.expired = c.expired /\ d.droppedSpace = c.droppedSpace
  BY <1>1, RemovedKeeps
<1>3. d \in Queue /\ Good(d) /\ d.items = Younger(s, k)
      /\ d.maxCustody = c.maxCustody /\ d.bytes <= c.bytes
  BY <1>2 DEF Without, Good
<1>4. e = [d EXCEPT !.fwdCustody = d.fwdCustody + k, !.maxCustody = top]
  BY <1>3 DEF Drained, Queue
<1>5. d.maxCustody \in 0 .. MaxAge /\ d.fwdCustody \in Nat
  BY <1>3, QueueCounts
<1>6. top \in 0 .. MaxAge /\ (Lifetime > 0 => top <= Lifetime)
  <2>1. Lifetime > 0 => d.maxCustody <= Lifetime
    BY <1>3 DEF Sound
  <2>2. CASE k = 0
    BY <1>5, <2>1, <2>2
  <2>3. CASE k # 0
    <3>1. 1 \in DOMAIN s /\ s[1] \in Item
      BY <1>1, <2>3
    <3>2. s[1].age \in 0 .. MaxAge
      BY <3>1, ItemType
    <3>3. Lifetime > 0 => s[1].age <= Lifetime
      BY <3>1 DEF Fresh
    <3>4. top = IF d.maxCustody > s[1].age THEN d.maxCustody ELSE s[1].age
      BY <2>3 DEF Larger
    <3> HIDE DEF top
    <3> QED
      BY <1>5, <2>1, <3>2, <3>3, <3>4
  <2> QED
    BY <2>2, <2>3
<1> HIDE DEF top, d
<1>7. /\ e.items = d.items /\ e.bytes = d.bytes /\ e.maxCustody = top
      /\ e.fwdNow = d.fwdNow /\ e.fwdCustody = d.fwdCustody + k
      /\ e.expired = d.expired /\ e.droppedSpace = d.droppedSpace
      /\ e \in Queue
  <2>1. d.fwdCustody + k \in Nat
    BY <1>1, <1>5
  <2>2. \A f \in Nat, m \in 0 .. MaxAge :
           LET w == [d EXCEPT !.fwdCustody = f, !.maxCustody = m] IN
           /\ w.items = d.items /\ w.bytes = d.bytes /\ w.maxCustody = m
           /\ w.fwdNow = d.fwdNow /\ w.fwdCustody = f
           /\ w.expired = d.expired /\ w.droppedSpace = d.droppedSpace
           /\ w \in Queue
    BY <1>3 DEF Queue
  <2> HIDE DEF e
  <2> QED
    BY <1>4, <1>6, <2>1, <2>2
<1> HIDE DEF e
<1>8. Good(e)
  BY <1>3, <1>7 DEF Good
<1>9. Counted(e) = n
  <2>1. Len(e.items) = Len(s) - k
    BY <1>1, <1>3, <1>7, YoungerType
  <2>2. e.expired = c.expired /\ e.fwdNow = c.fwdNow
        /\ e.fwdCustody = c.fwdCustody + k /\ e.droppedSpace = c.droppedSpace
    BY <1>2, <1>7
  <2>3. c.fwdNow \in Nat /\ c.fwdCustody \in Nat /\ c.expired \in Nat
        /\ c.droppedSpace \in Nat
    BY <1>1, QueueCounts
  <2>4. Counted(c) = n
    BY DEF Sound
  <2> QED
    BY <1>1, <2>1, <2>2, <2>3, <2>4 DEF Counted
<1>10. e.bytes <= Capacity
  <2>1. e.bytes \in Int /\ c.bytes \in Int /\ Capacity \in Nat
    BY <1>1, <1>7, QueueCounts, CustodyAssumption
  <2>2. c.bytes <= Capacity /\ e.bytes <= c.bytes
    BY <1>3, <1>7 DEF Sound
  <2> QED
    BY <2>1, <2>2
<1> QED
  BY <1>3, <1>6, <1>7, <1>8, <1>9, <1>10 DEF Sound, e

\* A packet that is forwarded or refused is counted.
LEMMA CountedOne ==
    ASSUME NEW c, NEW n \in Nat, Sound(c, n)
    PROVE  /\ Sound([c EXCEPT !.fwdNow = @ + 1], n + 1)
           /\ Sound([c EXCEPT !.droppedSpace = @ + 1], n + 1)
           /\ [c EXCEPT !.fwdNow = @ + 1].items = c.items
           /\ [c EXCEPT !.droppedSpace = @ + 1].items = c.items
<1> DEFINE d == [c EXCEPT !.fwdNow = @ + 1]
           e == [c EXCEPT !.droppedSpace = @ + 1]
<1>1. c \in Queue /\ Good(c) /\ Counted(c) = n
  BY DEF Sound, Good
<1>2. c.fwdNow \in Nat /\ c.fwdCustody \in Nat /\ c.expired \in Nat
      /\ c.droppedSpace \in Nat /\ Len(c.items) \in Nat
  BY <1>1, QueueCounts
<1>3. /\ d.items = c.items /\ d.bytes = c.bytes /\ d.maxCustody = c.maxCustody
      /\ d.fwdNow = c.fwdNow + 1 /\ d.fwdCustody = c.fwdCustody
      /\ d.expired = c.expired /\ d.droppedSpace = c.droppedSpace
      /\ d \in Queue
  BY <1>1, <1>2 DEF Queue
<1>4. /\ e.items = c.items /\ e.bytes = c.bytes /\ e.maxCustody = c.maxCustody
      /\ e.fwdNow = c.fwdNow /\ e.fwdCustody = c.fwdCustody
      /\ e.expired = c.expired /\ e.droppedSpace = c.droppedSpace + 1
      /\ e \in Queue
  BY <1>1, <1>2 DEF Queue
<1> HIDE DEF d, e
<1>5. Counted(d) = n + 1 /\ Counted(e) = n + 1
  <2>1. More(d, c, 1, 0, 0)
    BY <1>2, <1>3 DEF More
  <2>2. More(e, c, 0, 1, 0)
    BY <1>2, <1>4 DEF More
  <2>3. Counted(d) = Counted(c) + (1 + 0 + 0)
    BY <1>1, <2>1, CountedMore
  <2>4. Counted(e) = Counted(c) + (0 + 1 + 0)
    BY <1>1, <2>2, CountedMore
  <2> QED
    BY <1>1, <2>3, <2>4
<1>6. Good(d) /\ Good(e)
  BY <1>1, <1>3, <1>4 DEF Good
<1>7. Sound(d, n + 1) /\ Sound(e, n + 1)
  BY <1>3, <1>4, <1>5, <1>6 DEF Sound
<1> QED
  BY <1>3, <1>4, <1>7 DEF d, e

-----------------------------------------------------------------------------
(* The queue as a FIFO.                                                    *)

\* Of s and what arrives the K oldest leave: t is left, and out are the packets
\* handed on, the last n of those K.
Handed(s, arriving, K, n, t, out) ==
    LET all == s \o arriving IN
    /\ K \in 0 .. Len(all) /\ n \in 0 .. K
    /\ t = Younger(all, K)
    /\ out = [i \in 1 .. n |-> all[(K - n) + i].id]

\* Some left before what is left is handed on, or a front of it.
LEMMA HandedAfter ==
    ASSUME NEW s \in Seq(Item), NEW arr \in Seq(Item), NEW l \in 0 .. Len(s \o arr),
           NEW u, u = Younger(s \o arr, l), NEW k \in 0 .. Len(u)
    PROVE  Handed(s, arr, l + k, k, Younger(u, k), [i \in 1 .. k |-> u[i].id])
<1> DEFINE all == s \o arr
<1>1. all \in Seq(Item) /\ Len(all) \in Nat
  OBVIOUS
<1> HIDE DEF all
<1>2. l \in 0 .. Len(all) /\ u = Younger(all, l)
  BY DEF all
<1>3. /\ u \in Seq(Item) /\ Len(u) = Len(all) - l
      /\ \A i \in 1 .. Len(all) - l : u[i] = all[l + i]
  <2>1. /\ Younger(all, l) \in Seq(Item) /\ Len(Younger(all, l)) = Len(all) - l
        /\ \A i \in 1 .. Len(all) - l : Younger(all, l)[i] = all[l + i]
    BY <1>1, <1>2, YoungerType
  <2> QED
    BY <1>2, <2>1, Zenon
<1>4. k \in 0 .. Len(all) - l /\ l + k \in 0 .. Len(all) /\ k \in 0 .. l + k
  BY <1>1, <1>2, <1>3
<1>5. Younger(u, k) = Younger(all, l + k)
  BY <1>1, <1>2, <1>4, YoungerTwice
<1>6. \A i \in 1 .. k : u[i].id = all[((l + k) - k) + i].id
  <2> SUFFICES ASSUME NEW i \in 1 .. k PROVE u[i].id = all[((l + k) - k) + i].id
    OBVIOUS
  <2>1. i \in 1 .. Len(all) - l /\ ((l + k) - k) + i = l + i
    BY <1>1, <1>2, <1>4
  <2> QED
    BY <1>3, <2>1
<1>7. [i \in 1 .. k |-> u[i].id] = [i \in 1 .. k |-> all[((l + k) - k) + i].id]
  BY <1>6
<1> QED
  BY <1>4, <1>5, <1>7 DEF Handed, all

\* The same of the ids: so the FIFO steps.
Shown(s, arriving, K, n, t, out) ==
    LET a == Ids(s) \o Ids(arriving) IN
    /\ out \in Seq(1 .. MaxPackets)
    /\ K \in 0 .. Len(a) /\ n \in 0 .. Len(a)
    /\ Ids(t) = SubSeq(a, K + 1, Len(a))
    /\ \E pos \in Fifo!Picks(n, K) : out = [i \in 1 .. n |-> a[pos[i]]]

\* A function on 1 .. n is a sequence.
LEMMA FunctionIsSeq ==
    ASSUME NEW S, NEW n \in Nat, NEW f \in [1 .. n -> S]
    PROVE  f \in Seq(S)
OBVIOUS

\* What is handed on are packets, and the ids show a step of the FIFO.
LEMMA HandedFifo ==
    ASSUME NEW s \in Seq(Item), NEW arr \in Seq(Item), NEW K, NEW n, NEW t, NEW out,
           Handed(s, arr, K, n, t, out)
    PROVE  Shown(s, arr, K, n, t, out)
<1> DEFINE all == s \o arr
           a == Ids(s) \o Ids(arr)
<1>1. all \in Seq(Item) /\ Len(all) \in Nat /\ Len(all) = Len(s) + Len(arr)
      /\ Len(s) \in Nat /\ Len(arr) \in Nat
  OBVIOUS
<1>2. /\ \A i \in 1 .. Len(s) : all[i] = s[i]
      /\ \A i \in 1 .. Len(arr) : all[Len(s) + i] = arr[i]
  OBVIOUS
<1>3. \A i \in 1 .. Len(all) : all[i] \in Item /\ all[i].id \in 1 .. MaxPackets
  <2>1. \A i \in 1 .. Len(all) : all[i] \in Item
    BY <1>1
  <2> HIDE DEF all
  <2> QED
    BY <2>1, ItemType
<1>4. /\ Ids(s) \in Seq(1 .. MaxPackets) /\ Len(Ids(s)) = Len(s)
      /\ \A i \in 1 .. Len(s) : Ids(s)[i] = s[i].id
  <2>1. Ids(s) = [i \in 1 .. Len(s) |-> s[i].id]
    BY DEF Ids
  <2>2. \A i \in 1 .. Len(s) : s[i].id \in 1 .. MaxPackets
    BY ItemType
  <2> QED
    BY <1>1, <2>1, <2>2
<1>5. /\ Ids(arr) \in Seq(1 .. MaxPackets) /\ Len(Ids(arr)) = Len(arr)
      /\ \A i \in 1 .. Len(arr) : Ids(arr)[i] = arr[i].id
  <2>1. Ids(arr) = [i \in 1 .. Len(arr) |-> arr[i].id]
    BY DEF Ids
  <2>2. \A i \in 1 .. Len(arr) : arr[i].id \in 1 .. MaxPackets
    BY ItemType
  <2> QED
    BY <1>1, <2>1, <2>2
<1>6. /\ a \in Seq(1 .. MaxPackets) /\ Len(a) = Len(all)
      /\ \A i \in 1 .. Len(s) : a[i] = Ids(s)[i]
      /\ \A i \in 1 .. Len(arr) : a[Len(s) + i] = Ids(arr)[i]
  <2> DEFINE x == Ids(s)
             y == Ids(arr)
  <2>1. /\ x \in Seq(1 .. MaxPackets) /\ Len(x) = Len(s)
        /\ y \in Seq(1 .. MaxPackets) /\ Len(y) = Len(arr) /\ a = x \o y
    BY <1>4, <1>5
  <2> HIDE DEF x, y, a
  <2>2. /\ a \in Seq(1 .. MaxPackets) /\ Len(a) = Len(s) + Len(arr)
        /\ \A i \in 1 .. Len(s) : a[i] = x[i]
        /\ \A i \in 1 .. Len(arr) : a[Len(s) + i] = y[i]
    <3>1. /\ a \in Seq(1 .. MaxPackets) /\ Len(a) = Len(x) + Len(y)
          /\ \A i \in 1 .. Len(x) + Len(y) :
                a[i] = IF i <= Len(x) THEN x[i] ELSE y[i - Len(x)]
      <4>1. /\ x \o y \in Seq(1 .. MaxPackets) /\ Len(x \o y) = Len(x) + Len(y)
            /\ \A i \in 1 .. Len(x) + Len(y) :
                  (x \o y)[i] = IF i <= Len(x) THEN x[i] ELSE y[i - Len(x)]
        BY <2>1, ConcatProperties, Zenon
      <4> QED
        BY <2>1, <4>1, Zenon
    <3>2. \A i \in 1 .. Len(s) : i \in 1 .. Len(x) + Len(y) /\ i <= Len(x)
      BY <1>1, <2>1
    <3>3. \A i \in 1 .. Len(arr) :
             /\ Len(s) + i \in 1 .. Len(x) + Len(y) /\ ~ (Len(s) + i <= Len(x))
             /\ (Len(s) + i) - Len(x) = i
      BY <1>1, <2>1
    <3>4. Len(x) = Len(s) /\ Len(y) = Len(arr)
      BY <2>1
    <3> QED
      BY <3>1, <3>2, <3>3, <3>4
  <2> QED
    BY <1>1, <2>2 DEF x, y
<1> HIDE DEF all, a
<1>7. \A i \in 1 .. Len(all) : a[i] = all[i].id
  <2> SUFFICES ASSUME NEW i \in 1 .. Len(all) PROVE a[i] = all[i].id
    OBVIOUS
  <2>1. CASE i \in 1 .. Len(s)
    BY <1>2, <1>4, <1>6, <2>1
  <2>2. CASE i \notin 1 .. Len(s)
    <3>1. i - Len(s) \in 1 .. Len(arr) /\ Len(s) + (i - Len(s)) = i
      BY <1>1, <2>2
    <3> QED
      BY <1>2, <1>5, <1>6, <3>1
  <2> QED
    BY <2>1, <2>2
<1>8. /\ K \in 0 .. Len(all) /\ n \in 0 .. K /\ t = Younger(all, K)
      /\ out = [i \in 1 .. n |-> all[(K - n) + i].id]
  BY DEF Handed, all
<1>9. \A i \in 1 .. n : (K - n) + i \in 1 .. K /\ (K - n) + i \in 1 .. Len(all)
  BY <1>1, <1>8
<1>10. out \in Seq(1 .. MaxPackets)
  <2>1. \A i \in 1 .. n : all[(K - n) + i].id \in 1 .. MaxPackets
    BY <1>3, <1>9
  <2>2. n \in Nat
    BY <1>8
  <2>3. out \in [1 .. n -> 1 .. MaxPackets]
    BY <1>8, <2>1
  <2> QED
    BY <2>2, <2>3, FunctionIsSeq
<1>11. Ids(t) = SubSeq(a, K + 1, Len(a))
  <2>1. /\ t \in Seq(Item) /\ Len(t) = Len(all) - K
        /\ \A i \in 1 .. Len(all) - K : t[i] = all[K + i]
    BY <1>1, <1>8, YoungerType
  <2>2. Ids(t) = [i \in 1 .. Len(all) - K |-> t[i].id]
    BY <2>1 DEF Ids
  <2>3. SubSeq(a, K + 1, Len(a)) = [i \in 1 .. Len(all) - K |-> a[K + i]]
    BY <1>1, <1>6, <1>8
  <2>4. \A i \in 1 .. Len(all) - K : t[i].id = a[K + i]
    <3> SUFFICES ASSUME NEW i \in 1 .. Len(all) - K PROVE t[i].id = a[K + i]
      OBVIOUS
    <3>1. K + i \in 1 .. Len(all)
      BY <1>1, <1>8
    <3> QED
      BY <1>7, <2>1, <3>1
  <2> QED
    BY <2>2, <2>3, <2>4
<1>12. \E pos \in Fifo!Picks(n, K) : out = [i \in 1 .. n |-> a[pos[i]]]
  <2> DEFINE pos == [i \in 1 .. n |-> (K - n) + i]
  <2>1. pos \in Fifo!Picks(n, K)
    <3>1. pos \in [1 .. n -> 1 .. K]
      BY <1>9
    <3>2. \A i, j \in 1 .. n : i < j => pos[i] < pos[j]
      BY <1>8
    <3> HIDE DEF pos
    <3> QED
      BY <3>1, <3>2 DEF Fifo!Picks
  <2>2. \A i \in 1 .. n : a[pos[i]] = all[(K - n) + i].id
    BY <1>7, <1>9
  <2> HIDE DEF pos
  <2> QED
    BY <1>8, <2>1, <2>2
<1>13. K \in 0 .. Len(a) /\ n \in 0 .. Len(a)
  BY <1>1, <1>6, <1>8
<1> QED
  BY <1>10, <1>11, <1>12, <1>13, Zenon DEF a, Shown

\* The step hands on what Handed says.
HandsOver(arr) ==
    \E K, n, out : /\ Handed(cq.items, arr, K, n, cq'.items, out)
                   /\ delivered' = delivered \o out

\* Then it is a step of the FIFO.
LEMMA HandsOverFifo ==
    ASSUME cq.items \in Seq(Item), delivered \in Seq(1 .. MaxPackets),
           NEW arr \in Seq(Item), HandsOver(arr)
    PROVE  delivered' \in Seq(1 .. MaxPackets) /\ Fifo!FifoStep(Ids(arr))
<1>1. PICK K, n, out : /\ Handed(cq.items, arr, K, n, cq'.items, out)
                       /\ delivered' = delivered \o out
  BY DEF HandsOver
<1>2. Shown(cq.items, arr, K, n, cq'.items, out)
  BY <1>1, HandedFifo
<1>3. Fifo!FifoStep(Ids(arr))
  <2> DEFINE a == Ids(cq.items) \o Ids(arr)
  <2>1. /\ K \in 0 .. Len(a) /\ n \in 0 .. Len(a)
        /\ [i \in DOMAIN cq'.items |-> cq'.items[i].id] = SubSeq(a, K + 1, Len(a))
        /\ \E pos \in Fifo!Picks(n, K) : out = [i \in 1 .. n |-> a[pos[i]]]
    BY <1>2, Zenon DEF Shown, Ids
  <2>2. \E pos \in Fifo!Picks(n, K) :
           delivered' = delivered \o [i \in 1 .. n |-> a[pos[i]]]
    BY <1>1, <2>1, Zenon
  <2> QED
    BY <2>1, <2>2, Zenon DEF Fifo!FifoStep, Ids
<1>4. delivered' \in Seq(1 .. MaxPackets)
  <2>1. out \in Seq(1 .. MaxPackets)
    BY <1>2 DEF Shown
  <2> QED
    BY <1>1, <2>1
<1> QED
  BY <1>3, <1>4

-----------------------------------------------------------------------------
(* The invariant, and the calls.                                           *)

CInv == /\ Sound(cq, offered)
        /\ contactUp \in BOOLEAN /\ offered \in 0 .. MaxPackets
        /\ delivered \in Seq(1 .. MaxPackets)

\* It is the three properties the run checks, all at once.
LEMMA CInvMeans ==
    CInv <=> CustodyTypeOK /\ Accounted /\ FreshDelivery
BY Zenon DEF CInv, CustodyTypeOK, Accounted, FreshDelivery, Sound, Good, Counted

\* What is left after some were lost, seen from what there was.
LEMMA LostHands ==
    ASSUME NEW s \in Seq(Item), NEW c, NEW d, c.items = s, Loses(d, c)
    PROVE  \E l \in 0 .. Len(s) : d.items = Younger(s, l)
BY DEF Loses, Without

\* A queue that only lost some hands nothing on.
LEMMA LostOnly ==
    ASSUME cq.items \in Seq(Item), delivered \in Seq(1 .. MaxPackets),
           NEW d, Loses(d, cq), cq'.items = d.items, delivered' = delivered
    PROVE  HandsOver(<<>>)
<1> DEFINE s == cq.items
<1>1. PICK l \in 0 .. Len(s) : d.items = Younger(s, l)
  BY LostHands
<1>2. s \o <<>> = s /\ <<>> \in Seq(Item)
  BY ConcatEmptySeq, EmptySeq
<1> DEFINE u == Younger(s, l)
<1>3. u \in Seq(Item) /\ 0 \in 0 .. Len(u)
  BY YoungerType
<1>4. Handed(s, <<>>, l + 0, 0, Younger(u, 0), [i \in 1 .. 0 |-> u[i].id])
  <2>1. l \in 0 .. Len(s \o <<>>) /\ u = Younger(s \o <<>>, l)
    BY <1>2
  <2> HIDE DEF u
  <2> QED
    BY <1>2, <1>3, <2>1, HandedAfter
<1>5. Younger(u, 0) = u
  <2> HIDE DEF u
  <2> QED
    BY <1>3 DEF Younger
<1>6. delivered \o [i \in 1 .. 0 |-> u[i].id] = delivered
  OBVIOUS
<1> HIDE DEF u
<1>7. Handed(s, <<>>, l + 0, 0, cq'.items, [i \in 1 .. 0 |-> u[i].id])
  BY <1>1, <1>4, <1>5 DEF u
<1> QED
  BY <1>6, <1>7 DEF HandsOver

\* Draining after some were lost and what came was put at the back.
LEMMA DrainHands ==
    ASSUME NEW s \in Seq(Item), NEW arr \in Seq(Item), NEW l \in 0 .. Len(s \o arr),
           NEW u, u = Younger(s \o arr, l), NEW k \in 0 .. Len(u),
           s = cq.items, cq'.items = Younger(u, k),
           delivered' = delivered \o [i \in 1 .. k |-> u[i].id]
    PROVE  HandsOver(arr)
<1>1. Handed(s, arr, l + k, k, Younger(u, k), [i \in 1 .. k |-> u[i].id])
  BY HandedAfter
<1> QED
  BY <1>1 DEF HandsOver

\* A packet put behind what is left, seen from what there was.
LEMMA PutBehind ==
    ASSUME NEW s \in Seq(Item), NEW p \in Item, NEW l \in 0 .. Len(s)
    PROVE  /\ Append(Younger(s, l), p) = Younger(s \o <<p>>, l)
           /\ l \in 0 .. Len(s \o <<p>>) /\ <<p>> \in Seq(Item)
<1> DEFINE all == s \o <<p>>
           u == Younger(s, l)
           v == Younger(all, l)
<1>1. /\ <<p>> \in Seq(Item) /\ all \in Seq(Item) /\ Len(all) = Len(s) + 1
      /\ \A i \in 1 .. Len(s) : all[i] = s[i]
      /\ all[Len(s) + 1] = p /\ Len(s) \in Nat
  OBVIOUS
<1> HIDE DEF all
<1>2. l \in 0 .. Len(all)
  BY <1>1
<1>3. /\ u \in Seq(Item) /\ Len(u) = Len(s) - l
      /\ \A i \in 1 .. Len(s) - l : u[i] = s[l + i]
  BY YoungerType
<1>4. /\ v \in Seq(Item) /\ Len(v) = Len(all) - l
      /\ \A i \in 1 .. Len(all) - l : v[i] = all[l + i]
  BY <1>1, <1>2, YoungerType
<1> HIDE DEF u, v
<1>5. Len(Append(u, p)) = Len(v) /\ Append(u, p) \in Seq(Item)
  BY <1>1, <1>2, <1>3, <1>4
<1>6. ASSUME NEW i \in 1 .. Len(v) PROVE Append(u, p)[i] = v[i]
  <2>1. CASE i \in 1 .. Len(s) - l
    <3>1. l + i \in 1 .. Len(s) /\ i \in 1 .. Len(all) - l /\ i \in 1 .. Len(u)
      BY <1>1, <1>3, <2>1
    <3>2. Append(u, p)[i] = u[i]
      BY <1>3, <3>1
    <3> QED
      BY <1>1, <1>3, <1>4, <2>1, <3>1, <3>2
  <2>2. CASE i \notin 1 .. Len(s) - l
    <3>1. i = Len(u) + 1 /\ l + i = Len(s) + 1 /\ i \in 1 .. Len(all) - l
      BY <1>1, <1>3, <1>4, <2>2
    <3>2. Append(u, p)[i] = p
      BY <1>3, <3>1
    <3> QED
      BY <1>1, <1>4, <3>1, <3>2
  <2> QED
    BY <2>1, <2>2
<1>7. Append(u, p) = v
  <2> DEFINE w == Append(u, p)
  <2>1. w \in Seq(Item) /\ Len(w) = Len(v) /\ \A i \in 1 .. Len(v) : w[i] = v[i]
    BY <1>5, <1>6
  <2> HIDE DEF w
  <2>2. w = v
    BY <1>4, <2>1, SeqEqual
  <2> QED
    BY <2>2 DEF w
<1> QED
  BY <1>1, <1>2, <1>7 DEF all, u, v

\* What every call begins with.
LEMMA FirstExpires ==
    ASSUME CInv
    PROVE  /\ cq.items \in Seq(Item) /\ Good(cq) /\ offered \in Nat
           /\ Loses(Expired(cq), cq) /\ Sound(Expired(cq), offered)
           /\ Fresh(Expired(cq))
<1>1. Sound(cq, offered) /\ Good(cq) /\ offered \in 0 .. MaxPackets
  BY DEF CInv, Sound
<1>2. Loses(Expired(cq), cq) /\ Fresh(Expired(cq))
  BY <1>1, ExpiredKeeps
<1>3. Sound(Expired(cq), offered)
  BY <1>1, <1>2, LosesSound
<1>4. cq.items \in Seq(Item)
  BY <1>1, QueueCounts DEF Good
<1>5. \A n \in 0 .. MaxPackets : n \in Nat
  BY CustodyAssumption
<1> QED
  BY <1>1, <1>2, <1>3, <1>4, <1>5

\* A packet that goes straight through.
LEMMA ForwardNowKeeps ==
    ASSUME CInv, NEW p \in Item, ForwardNow(p)
    PROVE  Sound(cq', offered + 1) /\ HandsOver(<<p>>)
<1> DEFINE s == cq.items
           c == Expired(cq)
<1>1. /\ s \in Seq(Item) /\ Sound(c, offered) /\ offered \in Nat
      /\ c.items = <<>> /\ cq' = [c EXCEPT !.fwdNow = @ + 1]
      /\ delivered' = Append(delivered, p.id)
      /\ delivered \in Seq(1 .. MaxPackets) /\ p.id \in 1 .. MaxPackets
  BY FirstExpires, ItemType DEF ForwardNow, CInv
<1> HIDE DEF c
<1>2. Sound(cq', offered + 1) /\ cq'.items = <<>>
  BY <1>1, CountedOne
<1> DEFINE all == s \o <<p>>
           n == Len(s)
<1>3. /\ all \in Seq(Item) /\ Len(all) = n + 1 /\ n \in Nat
      /\ all[n + 1] = p
  BY <1>1
<1> HIDE DEF all
<1>4. Younger(all, n + 1) = <<>>
  BY <1>3 DEF Younger
<1> DEFINE out == [i \in 1 .. 1 |-> all[((n + 1) - 1) + i].id]
<1>5. delivered' = delivered \o out
  <2>1. out = <<p.id>>
    <3>1. \A i \in 1 .. 1 : i = 1 /\ ((n + 1) - 1) + i = n + 1
      BY <1>3
    <3>2. out = [i \in 1 .. 1 |-> p.id]
      BY <1>3, <3>1
    <3> QED
      BY <3>2
  <2> HIDE DEF out
  <2> QED
    BY <1>1, <2>1
<1>6. Handed(s, <<p>>, n + 1, 1, <<>>, out)
  <2>1. n + 1 \in 0 .. Len(all) /\ 1 \in 0 .. n + 1
    BY <1>3
  <2> HIDE DEF n
  <2> QED
    BY <1>4, <2>1 DEF Handed, all
<1> HIDE DEF out
<1> QED
  BY <1>2, <1>5, <1>6 DEF HandsOver

\* A packet that is put in custody: the queue may drain at once.
LEMMA TakeCustodyKeeps ==
    ASSUME CInv, NEW p \in Item, p.age = 0, TakeCustody(p)
    PROVE  Sound(cq', offered + 1) /\ HandsOver(<<p>>)
<1> DEFINE s == cq.items
           c1 == Expired(cq)
           c2 == WithRoom(c1, p.size)
           c3 == Pushed(c2, p)
<1>1. /\ s \in Seq(Item) /\ Good(cq) /\ offered \in Nat
      /\ Loses(c1, cq) /\ Sound(c1, offered) /\ Fresh(c1)
  BY FirstExpires
<1>2. c2.bytes + p.size <= Capacity /\ Drain(c3)
  BY DEF TakeCustody
<1>3. PICK k \in 0 .. Len(c3.items) :
         /\ cq' = Drained(c3, k)
         /\ delivered' = delivered \o [i \in 1 .. k |-> c3.items[i].id]
  <2>1. PICK k \in 0 .. (IF contactUp' THEN Len(c3.items) ELSE 0) :
           /\ cq' = Drained(c3, k)
           /\ delivered' = delivered \o [i \in 1 .. k |-> c3.items[i].id]
    BY <1>2, Zenon DEF Drain
  <2>2. Sound(c2, offered)
    <3> HIDE DEF c1
    <3>1. Good(c1)
      BY <1>1 DEF Sound
    <3>2. Loses(c2, c1)
      BY <3>1, RoomKeeps
    <3> QED
      BY <1>1, <3>2, LosesSound
  <2>3. c3.items = Append(c2.items, p) /\ c2.items \in Seq(Item)
    <3> HIDE DEF c2
    <3>1. c2.items \in Seq(Item)
      BY <2>2, QueueCounts DEF Sound, Good
    <3>2. c3.items = Append(c2.items, p)
      BY <1>1, <1>2, <2>2, PushedKeeps
    <3> QED
      BY <3>1, <3>2
  <2>4. Len(c3.items) \in Nat
    <3> HIDE DEF c2, c3
    <3> QED
      BY <2>3
  <2>5. k \in 0 .. Len(c3.items)
    <3> HIDE DEF c3
    <3> QED
      BY <2>1, <2>4
  <2> QED
    BY <2>1, <2>5, Zenon
<1> HIDE DEF c1
<1>4. Loses(c2, c1)
  <2>1. Good(c1)
    BY <1>1 DEF Sound
  <2> QED
    BY <2>1, RoomKeeps
<1> HIDE DEF c2
<1>5. Loses(c2, cq) /\ Sound(c2, offered) /\ Fresh(c2)
  BY <1>1, <1>4, LosesTwice, LosesSound, LosesFresh
<1>6. /\ Sound(c3, offered + 1) /\ Fresh(c3)
      /\ c3.items = Append(c2.items, p)
  BY <1>1, <1>2, <1>5, PushedKeeps
<1> HIDE DEF c3
<1>7. Sound(cq', offered + 1) /\ cq'.items = Younger(c3.items, k)
  BY <1>3, <1>6, DrainedKeeps
<1>8. PICK l \in 0 .. Len(s) : c2.items = Younger(s, l)
  BY <1>1, <1>5, LostHands
<1>9. /\ c3.items = Younger(s \o <<p>>, l)
      /\ l \in 0 .. Len(s \o <<p>>) /\ <<p>> \in Seq(Item)
  BY <1>1, <1>6, <1>8, PutBehind
<1>10. HandsOver(<<p>>)
  BY <1>1, <1>3, <1>7, <1>9, DrainHands
<1> QED
  BY <1>7, <1>10

\* A packet that is refused.
LEMMA RefuseOfferKeeps ==
    ASSUME CInv, NEW p \in Item, RefuseOffer(p)
    PROVE  Sound(cq', offered + 1) /\ HandsOver(<<>>)
<1> DEFINE c1 == Expired(cq)
           c2 == WithRoom(c1, p.size)
<1>1. /\ cq.items \in Seq(Item) /\ Good(cq) /\ offered \in Nat
      /\ Loses(c1, cq) /\ Sound(c1, offered) /\ Good(c1)
  BY FirstExpires DEF Sound
<1>2. cq' = [c2 EXCEPT !.droppedSpace = @ + 1] /\ delivered' = delivered
  BY DEF RefuseOffer
<1> HIDE DEF c1
<1>3. Loses(c2, c1)
  BY <1>1, RoomKeeps
<1> HIDE DEF c2
<1>4. Loses(c2, cq) /\ Sound(c2, offered)
  BY <1>1, <1>3, LosesTwice, LosesSound
<1>5. Sound(cq', offered + 1) /\ cq'.items = c2.items
  BY <1>1, <1>2, <1>4, CountedOne
<1>6. delivered \in Seq(1 .. MaxPackets)
  BY DEF CInv
<1> QED
  BY <1>1, <1>2, <1>4, <1>5, <1>6, LostOnly

\* A change of the contact, which drains when it opens.
LEMMA SetContactUpKeeps ==
    ASSUME CInv, NEW up \in BOOLEAN, SetContactUp(up)
    PROVE  Sound(cq', offered) /\ HandsOver(<<>>)
<1> DEFINE s == cq.items
           c == Expired(cq)
<1>1. /\ s \in Seq(Item) /\ Good(cq) /\ offered \in Nat
      /\ Loses(c, cq) /\ Sound(c, offered) /\ Fresh(c)
      /\ delivered \in Seq(1 .. MaxPackets)
  BY FirstExpires DEF CInv
<1>2. CASE up /\ ~contactUp
  <2>1. Drain(c)
    BY <1>2 DEF SetContactUp
  <2>2. PICK k \in 0 .. (IF contactUp' THEN Len(c.items) ELSE 0) :
           /\ cq' = Drained(c, k)
           /\ delivered' = delivered \o [i \in 1 .. k |-> c.items[i].id]
    BY <2>1, Zenon DEF Drain
  <2> HIDE DEF c
  <2>3. c.items \in Seq(Item)
    BY <1>1, QueueCounts DEF Sound, Good
  <2>4. k \in 0 .. Len(c.items)
    BY <2>2, <2>3
  <2>5. Sound(cq', offered) /\ cq'.items = Younger(c.items, k)
    BY <1>1, <2>2, <2>4, DrainedKeeps
  <2>6. PICK l \in 0 .. Len(s) : c.items = Younger(s, l)
    BY <1>1, LostHands
  <2>7. s \o <<>> = s /\ <<>> \in Seq(Item)
    BY <1>1, ConcatEmptySeq, EmptySeq
  <2>8. HandsOver(<<>>)
    BY <1>1, <2>2, <2>4, <2>5, <2>6, <2>7, DrainHands
  <2> QED
    BY <2>5, <2>8
<1>3. CASE ~ (up /\ ~contactUp)
  <2>1. cq' = c /\ delivered' = delivered
    BY <1>3 DEF SetContactUp
  <2> HIDE DEF c
  <2> QED
    BY <1>1, <2>1, LostOnly
<1> QED
  BY <1>2, <1>3

\* A tick of the scenario.
LEMMA ExpireStaleKeeps ==
    ASSUME CInv, ExpireStale
    PROVE  Sound(cq', offered) /\ HandsOver(<<>>)
<1>1. /\ cq.items \in Seq(Item) /\ Loses(Expired(cq), cq)
      /\ Sound(Expired(cq), offered) /\ delivered \in Seq(1 .. MaxPackets)
  BY FirstExpires DEF CInv
<1>2. cq' = Expired(cq) /\ delivered' = delivered
  BY DEF ExpireStale
<1> QED
  BY <1>1, <1>2, LostOnly

\* Time passes: every item ages, and its id stays.
LEMMA TickKeeps ==
    ASSUME CInv, Tick
    PROVE  Sound(cq', offered) /\ Ids(cq'.items) = Ids(cq.items)
<1> DEFINE s == cq.items
           Next1(a) == IF a < MaxAge THEN a + 1 ELSE a
           t == [i \in DOMAIN s |-> Older(s[i])]
<1>1. /\ Sound(cq, offered) /\ Good(cq) /\ cq \in Queue /\ s \in Seq(Item)
      /\ s = [i \in 1 .. Len(s) |-> s[i]] /\ Len(s) \in Nat
  BY QueueCounts DEF CInv, Sound, Good
<1>2. cq' = [cq EXCEPT !.items = t]
  BY <1>1 DEF Tick, Queue
<1>3. \A i \in 1 .. Len(s) :
         LET x == Older(s[i]) IN
         /\ x \in Item /\ x.id = s[i].id /\ x.size = s[i].size
         /\ x.age = Next1(s[i].age)
  <2> SUFFICES ASSUME NEW i \in 1 .. Len(s)
               PROVE  LET x == Older(s[i]) IN
                      /\ x \in Item /\ x.id = s[i].id /\ x.size = s[i].size
                      /\ x.age = Next1(s[i].age)
    OBVIOUS
  <2>1. s[i] \in Item
    BY <1>1
  <2>2. Next1(s[i].age) \in 0 .. MaxAge
    <3>1. s[i].age \in 0 .. MaxAge
      BY <2>1, ItemType
    <3> QED
      BY <3>1, CustodyAssumption
  <2>3. Older(s[i]) = [s[i] EXCEPT !.age = Next1(s[i].age)]
    BY <2>1 DEF Item, Older
  <2> HIDE DEF Next1
  <2> QED
    BY <2>1, <2>2, <2>3 DEF Item
<1>4. /\ t \in Seq(Item) /\ Len(t) = Len(s)
      /\ \A i \in 1 .. Len(s) : /\ t[i].id = s[i].id /\ t[i].size = s[i].size
                                /\ t[i].age = Next1(s[i].age)
  <2>1. DOMAIN s = 1 .. Len(s)
    BY <1>1
  <2>2. t = [i \in 1 .. Len(s) |-> Older(s[i])]
    BY <2>1
  <2> HIDE DEF t, Next1
  <2> QED
    BY <1>1, <1>3, <2>2
<1> HIDE DEF t
<1>5. /\ cq'.items = t /\ cq'.bytes = cq.bytes /\ cq'.maxCustody = cq.maxCustody
      /\ cq'.fwdNow = cq.fwdNow /\ cq'.fwdCustody = cq.fwdCustody
      /\ cq'.expired = cq.expired /\ cq'.droppedSpace = cq.droppedSpace
      /\ cq' \in Queue
  BY <1>1, <1>2, <1>4 DEF Queue
<1>6. Bytes(t) = Bytes(s)
  <2> HIDE DEF Next1
  <2> QED
    BY <1>1, <1>4, BytesSame
<1>7. ASSUME NEW i \in DOMAIN t, NEW j \in DOMAIN t, i < j
      PROVE  t[i].age >= t[j].age
  <2>1. i \in DOMAIN s /\ j \in DOMAIN s /\ i \in 1 .. Len(s) /\ j \in 1 .. Len(s)
    BY <1>1, <1>4
  <2>2. s[i].age >= s[j].age
    BY <1>1, <1>7, <2>1 DEF Good
  <2>3. s[i] \in Item /\ s[j] \in Item
    BY <1>1, <2>1
  <2>4. s[i].age \in 0 .. MaxAge /\ s[j].age \in 0 .. MaxAge
    BY <2>3, ItemType
  <2>5. \A a, b \in 0 .. MaxAge : a >= b => Next1(a) >= Next1(b)
    BY CustodyAssumption
  <2> HIDE DEF Next1
  <2> QED
    BY <1>4, <2>1, <2>2, <2>4, <2>5
<1>8. Good(cq')
  BY <1>1, <1>5, <1>6, <1>7 DEF Good
<1>9. Counted(cq') = Counted(cq)
  BY <1>4, <1>5 DEF Counted
<1>10. Sound(cq', offered)
  BY <1>1, <1>5, <1>8, <1>9 DEF Sound
<1>11. Ids(t) = Ids(s)
  <2>1. DOMAIN t = 1 .. Len(s) /\ DOMAIN s = 1 .. Len(s)
    BY <1>1, <1>4
  <2> HIDE DEF Next1
  <2> QED
    BY <1>4, <2>1 DEF Ids
<1> QED
  BY <1>5, <1>10, <1>11

-----------------------------------------------------------------------------
(* The theorems.                                                           *)

\* An offer: its packet is forwarded, taken in custody or refused.
LEMMA OfferKeeps ==
    ASSUME CInv, NEW size \in Sizes, Offer(size)
    PROVE  /\ Sound(cq', offered') /\ offered' \in 0 .. MaxPackets
           /\ contactUp' = contactUp
           /\ HandsOver(<<>>) \/ \E p \in Item : HandsOver(<<p>>)
<1> DEFINE p == [id |-> offered + 1, size |-> size, age |-> 0]
<1>1. /\ offered < MaxPackets /\ offered' = offered + 1 /\ contactUp' = contactUp
      /\ ForwardNow(p) \/ TakeCustody(p) \/ RefuseOffer(p)
  BY DEF Offer
<1>2. /\ offered + 1 \in 1 .. MaxPackets /\ offered + 1 \in 0 .. MaxPackets
      /\ 0 \in 0 .. MaxAge
  BY <1>1, CustodyAssumption DEF CInv
<1>3. p \in Item /\ p.age = 0
  BY <1>2 DEF Item
<1> HIDE DEF p
<1>4. CASE ForwardNow(p)
  BY <1>1, <1>2, <1>3, <1>4, ForwardNowKeeps
<1>5. CASE TakeCustody(p)
  BY <1>1, <1>2, <1>3, <1>5, TakeCustodyKeeps
<1>6. CASE RefuseOffer(p)
  BY <1>1, <1>2, <1>3, <1>6, RefuseOfferKeeps
<1> QED
  BY <1>1, <1>4, <1>5, <1>6

\* A step keeps the invariant and is a step of the FIFO, or shows nothing to it.
LEMMA StepKeeps ==
    ASSUME CInv, [Next]_vars
    PROVE  CInv' /\ [Fifo!FifoNext]_(Fifo!fifoVars)
<1> DEFINE Kept == /\ Sound(cq', offered') /\ offered' \in 0 .. MaxPackets
                    /\ contactUp' \in BOOLEAN
           Hands == HandsOver(<<>>) \/ \E p \in Item : HandsOver(<<p>>)
           Same == Ids(cq'.items) = Ids(cq.items) /\ delivered' = delivered
<1>0. /\ contactUp \in BOOLEAN /\ offered \in 0 .. MaxPackets
      /\ Sound(cq, offered) /\ delivered \in Seq(1 .. MaxPackets)
  BY DEF CInv
<1>1. ASSUME NEW size \in Sizes, Offer(size) PROVE Kept /\ Hands
  BY <1>0, <1>1, OfferKeeps
<1>2. ASSUME NEW up \in BOOLEAN, SetContactUp(up) PROVE Kept /\ Hands
  <2>1. Sound(cq', offered) /\ HandsOver(<<>>)
    BY <1>2, SetContactUpKeeps
  <2>2. contactUp' = up /\ offered' = offered
    BY <1>2 DEF SetContactUp
  <2> QED
    BY <1>0, <2>1, <2>2
<1>3. ASSUME ExpireStale PROVE Kept /\ Hands
  <2>1. Sound(cq', offered) /\ HandsOver(<<>>)
    BY <1>3, ExpireStaleKeeps
  <2>2. contactUp' = contactUp /\ offered' = offered
    BY <1>3 DEF ExpireStale
  <2> QED
    BY <1>0, <2>1, <2>2
<1>4. ASSUME Tick PROVE Kept /\ Same
  <2>1. Sound(cq', offered) /\ Ids(cq'.items) = Ids(cq.items)
    BY <1>4, TickKeeps
  <2>2. contactUp' = contactUp /\ offered' = offered /\ delivered' = delivered
    BY <1>4 DEF Tick
  <2> QED
    BY <1>0, <2>1, <2>2
<1>5. ASSUME UNCHANGED vars PROVE Kept /\ Same
  <2>1. cq' = cq /\ contactUp' = contactUp /\ offered' = offered
        /\ delivered' = delivered
    BY <1>5 DEF vars
  <2> QED
    BY <1>0, <2>1
<1>6. Kept /\ (Hands \/ Same)
  <2> HIDE DEF Kept, Hands, Same
  <2> QED
    BY <1>1, <1>2, <1>3, <1>4, <1>5 DEF Next
<1>7. cq.items \in Seq(Item)
  BY FirstExpires
<1>8. CASE Hands
  <2>1. PICK arr \in Seq(Item) :
           HandsOver(arr) /\ (arr = <<>> \/ \E p \in Item : arr = <<p>>)
    <3>1. CASE HandsOver(<<>>)
      BY <3>1, EmptySeq
    <3>2. CASE \E p \in Item : HandsOver(<<p>>)
      <4>1. PICK p \in Item : HandsOver(<<p>>)
        BY <3>2
      <4>2. <<p>> \in Seq(Item)
        OBVIOUS
      <4> QED
        BY <4>1, <4>2
    <3> QED
      BY <1>8, <3>1, <3>2
  <2>2. delivered' \in Seq(1 .. MaxPackets) /\ Fifo!FifoStep(Ids(arr))
    BY <1>0, <1>7, <2>1, HandsOverFifo
  <2>3. Ids(arr) = <<>> \/ \E x \in 1 .. MaxPackets : Ids(arr) = <<x>>
    <3>1. CASE arr = <<>>
      BY <3>1 DEF Ids
    <3>2. CASE \E p \in Item : arr = <<p>>
      <4>1. PICK p \in Item : arr = <<p>>
        BY <3>2
      <4>2. Ids(arr) = <<p.id>>
        BY <4>1 DEF Ids
      <4>3. p.id \in 1 .. MaxPackets
        BY ItemType
      <4> QED
        BY <4>2, <4>3
    <3> QED
      BY <2>1, <3>1, <3>2
  <2>4. Fifo!FifoNext
    <3>1. CASE Ids(arr) = <<>>
      BY <2>2, <3>1, Zenon DEF Fifo!FifoNext
    <3>2. CASE \E x \in 1 .. MaxPackets : Ids(arr) = <<x>>
      BY <2>2, <3>2, Zenon DEF Fifo!FifoNext
    <3> QED
      BY <2>3, <3>1, <3>2
  <2> QED
    BY <1>6, <2>2, <2>4 DEF CInv
<1>9. CASE Same
  <2>1. UNCHANGED Fifo!fifoVars
    BY <1>9 DEF Fifo!fifoVars, Ids
  <2> QED
    BY <1>0, <1>6, <1>9, <2>1 DEF CInv
<1> QED
  <2> HIDE DEF Hands, Same
  <2> QED
    BY <1>6, <1>8, <1>9

\* Every run starts there.
LEMMA InitKeeps ==
    ASSUME Init
    PROVE  CInv /\ Fifo!FifoInit
<1>1. cq = NewQueue /\ contactUp = FALSE /\ offered = 0 /\ delivered = <<>>
  BY DEF Init
<1>2. /\ cq.items = <<>> /\ cq.bytes = 0 /\ cq.fwdNow = 0 /\ cq.fwdCustody = 0
      /\ cq.expired = 0 /\ cq.droppedSpace = 0 /\ cq.maxCustody = 0
  BY <1>1 DEF NewQueue
<1>3. <<>> \in Seq(Item) /\ Len(<<>>) = 0 /\ 0 \in 0 .. MaxAge
  BY CustodyAssumption
<1>4. cq \in Queue
  BY <1>1, <1>3 DEF NewQueue, Queue
<1>5. Bytes(<<>>) = 0
  <2>1. PICK f \in [0 .. Len(<<>>) -> Nat] :
           Sums(f, <<>>, Len(<<>>)) /\ Bytes(<<>>) = f[Len(<<>>)]
    BY <1>3, BytesSums
  <2> QED
    BY <1>3, <2>1 DEF Sums
<1>6. Good(cq)
  <2>1. DOMAIN cq.items = {}
    BY <1>2
  <2> QED
    BY <1>2, <1>4, <1>5, <2>1 DEF Good
<1>7. Counted(cq) = 0
  BY <1>2, <1>3 DEF Counted
<1>8. Sound(cq, offered)
  BY <1>1, <1>2, <1>6, <1>7, CustodyAssumption DEF Sound
<1>9. CInv
  <2>1. offered \in 0 .. MaxPackets /\ contactUp \in BOOLEAN
    <3>1. 0 \in 0 .. MaxPackets
      BY CustodyAssumption
    <3> QED
      BY <1>1, <3>1, Zenon
  <2>2. delivered \in Seq(1 .. MaxPackets)
    <3>1. <<>> \in Seq(1 .. MaxPackets)
      BY EmptySeq, Zenon
    <3> QED
      BY <1>1, <3>1, Zenon
  <2> QED
    BY <1>8, <2>1, <2>2 DEF CInv
<1>10. Ids(cq.items) = <<>>
  BY <1>2 DEF Ids
<1> QED
  BY <1>1, <1>9, <1>10 DEF Fifo!FifoInit, Ids

\* The invariant holds always.
LEMMA CustodyInvariant == Spec => []CInv
<1>1. Init => CInv
  BY InitKeeps
<1>2. CInv /\ [Next]_vars => CInv'
  BY StepKeeps
<1> QED
  BY <1>1, <1>2, PTL DEF Spec

\* The queue is what it says: its items, oldest first, and the bytes they take,
\* never more than the capacity, after any mixture of drops, expiries and drains.
THEOREM CustodyTypeCorrect == Spec => []CustodyTypeOK
<1>1. CInv => CustodyTypeOK
  BY CInvMeans
<1> QED
  BY <1>1, CustodyInvariant, PTL

\* Every packet offered is counted exactly once.
THEOREM EveryPacketCounted == Spec => []Accounted
<1>1. CInv => Accounted
  BY CInvMeans
<1> QED
  BY <1>1, CustodyInvariant, PTL

\* Nothing older than the lifetime is ever handed on.
THEOREM NothingStaleDelivered == Spec => []FreshDelivery
<1>1. CInv => FreshDelivery
  BY CInvMeans
<1> QED
  BY <1>1, CustodyInvariant, PTL

\* The queue implements a lossy FIFO, whatever its capacity, lifetime and contact.
THEOREM QueueIsFifo == Spec => KeepsOrder
<1>1. Init => Fifo!FifoInit
  BY InitKeeps
<1>2. CInv /\ [Next]_vars => [Fifo!FifoNext]_(Fifo!fifoVars)
  BY StepKeeps
<1> QED
  BY <1>1, <1>2, CustodyInvariant, PTL DEF Spec, KeepsOrder, Fifo!FifoSpec
=============================================================================
