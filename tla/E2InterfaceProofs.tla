-------------------------- MODULE E2InterfaceProofs --------------------------
(***************************************************************************)
(* The indication path, for any nodes, xApps, buffer size and delays.      *)
(*                                                                         *)
(* The proof begins with sequences: what concatenation, a part of one and  *)
(* a removal do to the ids in them and to their order.  Then come the two  *)
(* halves of the invariant.  Booked is about the termination and the       *)
(* xApps: the routes are the one record from which all the others can be   *)
(* told.  Lined and Placed are about the way of a report: that a buffer is *)
(* in use in an outage only, and what is in it is younger than everything  *)
(* ahead, is what keeps the order when the link comes back.                *)
(***************************************************************************)
EXTENDS E2Interface, FiniteSetTheorems, SequenceTheorems, TLAPS

-----------------------------------------------------------------------------
(* Order in sequences of reports.                                          *)

Entry == Indication \cup Handed

Follows(a, b) == a.id < b.id \/ (a.id > b.id /\ a.level > b.level)

\* In the order allowed, in the order of the ids; and of two sequences.
Sorted(s) == \A i, j \in DOMAIN s : i < j => Follows(s[i], s[j])
Rising(s) == \A i, j \in DOMAIN s : i < j => s[i].id < s[j].id
Before(s, t) == \A i \in DOMAIN s, j \in DOMAIN t : Follows(s[i], t[j])
Under(s, t) == \A i \in DOMAIN s, j \in DOMAIN t : s[i].id < t[j].id

\* What an entry holds.
LEMMA EntryType ==
    ASSUME NEW x \in Entry
    PROVE  x.id \in 1 .. MaxInd /\ x.id \in Nat /\ x.level \in Nat
BY E2Assumption DEF Entry, Indication, Handed

\* Where the members of a concatenation come from, and go to.
LEMMA ConcatSplit ==
    ASSUME NEW S, NEW s \in Seq(S), NEW t \in Seq(S)
    PROVE  /\ s \o t \in Seq(S) /\ Len(s \o t) = Len(s) + Len(t)
           /\ \A i \in DOMAIN (s \o t) :
                 \/ i \in DOMAIN s /\ (s \o t)[i] = s[i]
                 \/ /\ i - Len(s) \in DOMAIN t
                    /\ i > Len(s) /\ (s \o t)[i] = t[i - Len(s)]
           /\ \A i \in DOMAIN s : i \in DOMAIN (s \o t) /\ (s \o t)[i] = s[i]
           /\ \A j \in DOMAIN t : /\ Len(s) + j \in DOMAIN (s \o t)
                                  /\ (s \o t)[Len(s) + j] = t[j]
<1> DEFINE u == s \o t
<1>1. /\ u \in Seq(S) /\ Len(u) = Len(s) + Len(t)
      /\ \A i \in 1 .. Len(s) + Len(t) :
            u[i] = IF i <= Len(s) THEN s[i] ELSE t[i - Len(s)]
  BY ConcatProperties
<1> HIDE DEF u
<1>2. /\ DOMAIN u = 1 .. Len(s) + Len(t)
      /\ DOMAIN s = 1 .. Len(s) /\ DOMAIN t = 1 .. Len(t)
      /\ Len(s) \in Nat /\ Len(t) \in Nat
  BY <1>1, LenProperties
<1>3. \A i \in DOMAIN u :
         \/ i \in DOMAIN s /\ u[i] = s[i]
         \/ i - Len(s) \in DOMAIN t /\ i > Len(s) /\ u[i] = t[i - Len(s)]
  BY <1>1, <1>2
<1>4. \A i \in DOMAIN s : i \in DOMAIN u /\ u[i] = s[i]
  BY <1>1, <1>2
<1>5. ASSUME NEW j \in DOMAIN t
      PROVE  Len(s) + j \in DOMAIN u /\ u[Len(s) + j] = t[j]
  <2>1. Len(s) + j \in 1 .. Len(s) + Len(t) /\ ~ (Len(s) + j <= Len(s))
        /\ (Len(s) + j) - Len(s) = j
    BY <1>2
  <2> QED
    BY <1>1, <1>2, <2>1
<1> QED
  BY <1>1, <1>3, <1>4, <1>5 DEF u

\* The ids in a concatenation.
LEMMA ConcatIds ==
    ASSUME NEW S, NEW s \in Seq(S), NEW t \in Seq(S)
    PROVE  Ids(s \o t) = Ids(s) \cup Ids(t)
<1> DEFINE u == s \o t
<1>1. /\ \A i \in DOMAIN u :
            \/ i \in DOMAIN s /\ u[i] = s[i]
            \/ i - Len(s) \in DOMAIN t /\ i > Len(s) /\ u[i] = t[i - Len(s)]
      /\ \A i \in DOMAIN s : i \in DOMAIN u /\ u[i] = s[i]
      /\ \A j \in DOMAIN t : Len(s) + j \in DOMAIN u /\ u[Len(s) + j] = t[j]
  BY ConcatSplit
<1> HIDE DEF u
<1>2. Ids(u) \subseteq Ids(s) \cup Ids(t)
  BY <1>1 DEF Ids
<1>3. Ids(s) \subseteq Ids(u)
  BY <1>1 DEF Ids
<1>4. ASSUME NEW j \in DOMAIN t PROVE t[j].id \in Ids(u)
  <2>1. Len(s) + j \in DOMAIN u /\ u[Len(s) + j].id = t[j].id
    BY <1>1
  <2> QED
    BY <2>1 DEF Ids
<1>5. Ids(t) \subseteq Ids(u)
  BY <1>4 DEF Ids
<1> QED
  BY <1>2, <1>3, <1>5 DEF u

\* A concatenation is in order if its parts and the pair of them are.
LEMMA ConcatOrder ==
    ASSUME NEW S, NEW s \in Seq(S), NEW t \in Seq(S)
    PROVE  /\ Sorted(s) /\ Sorted(t) /\ Before(s, t) => Sorted(s \o t)
           /\ Rising(s) /\ Rising(t) /\ Under(s, t) => Rising(s \o t)
<1> DEFINE u == s \o t
<1>1. /\ u \in Seq(S)
      /\ \A i \in DOMAIN u :
            \/ i \in DOMAIN s /\ u[i] = s[i]
            \/ i - Len(s) \in DOMAIN t /\ i > Len(s) /\ u[i] = t[i - Len(s)]
  BY ConcatSplit
<1> HIDE DEF u
<1>2. /\ DOMAIN u \subseteq Int /\ DOMAIN s = 1 .. Len(s) /\ Len(s) \in Nat
  BY <1>1, LenProperties
<1>3. ASSUME NEW i \in DOMAIN u, NEW j \in DOMAIN u, i < j
      PROVE  \/ i \in DOMAIN s /\ j \in DOMAIN s /\ u[i] = s[i] /\ u[j] = s[j]
             \/ /\ i \in DOMAIN s /\ j - Len(s) \in DOMAIN t
                /\ u[i] = s[i] /\ u[j] = t[j - Len(s)]
             \/ /\ i - Len(s) \in DOMAIN t /\ j - Len(s) \in DOMAIN t
                /\ i - Len(s) < j - Len(s)
                /\ u[i] = t[i - Len(s)] /\ u[j] = t[j - Len(s)]
  BY <1>1, <1>2, <1>3
<1>4. ASSUME Sorted(s), Sorted(t), Before(s, t) PROVE Sorted(u)
  BY <1>3, <1>4 DEF Sorted, Before
<1>5. ASSUME Rising(s), Rising(t), Under(s, t) PROVE Rising(u)
  BY <1>3, <1>5 DEF Rising, Under
<1> QED
  BY <1>4, <1>5 DEF u

\* Before and after a concatenation.
LEMMA ConcatPair ==
    ASSUME NEW S, NEW s \in Seq(S), NEW t \in Seq(S), NEW v
    PROVE  /\ Before(s, v) /\ Before(t, v) => Before(s \o t, v)
           /\ Before(v, s) /\ Before(v, t) => Before(v, s \o t)
           /\ Under(s, v) /\ Under(t, v) => Under(s \o t, v)
           /\ Under(v, s) /\ Under(v, t) => Under(v, s \o t)
<1> DEFINE u == s \o t
<1>1. \A i \in DOMAIN u : \/ i \in DOMAIN s /\ u[i] = s[i]
                          \/ \E j \in DOMAIN t : u[i] = t[j]
  BY ConcatSplit
<1> HIDE DEF u
<1>2. /\ Before(s, v) /\ Before(t, v) => Before(u, v)
      /\ Before(v, s) /\ Before(v, t) => Before(v, u)
  BY <1>1 DEF Before
<1>3. /\ Under(s, v) /\ Under(t, v) => Under(u, v)
      /\ Under(v, s) /\ Under(v, t) => Under(v, u)
  BY <1>1 DEF Under
<1> QED
  BY <1>2, <1>3 DEF u

\* t holds some members of s, in their order: those at the places p.
PartAt(t, s, p) ==
    /\ p \in [DOMAIN t -> DOMAIN s]
    /\ \A i, j \in DOMAIN t : i < j => p[i] < p[j]
    /\ \A i \in DOMAIN t : t[i] = s[p[i]]
Part(t, s) == \E p : PartAt(t, s, p)

\* Such a part is ordered like the whole.
LEMMA PartOrder ==
    ASSUME NEW s, NEW t, Part(t, s)
    PROVE  /\ Sorted(s) => Sorted(t)
           /\ Rising(s) => Rising(t)
           /\ Ids(t) \subseteq Ids(s)
           /\ \A v : /\ Before(s, v) => Before(t, v)
                     /\ Before(v, s) => Before(v, t)
                     /\ Under(s, v) => Under(t, v)
                     /\ Under(v, s) => Under(v, t)
<1>1. PICK p : PartAt(t, s, p)
  BY DEF Part
<1>2. /\ \A i \in DOMAIN t : p[i] \in DOMAIN s /\ t[i] = s[p[i]]
      /\ \A i, j \in DOMAIN t : i < j => p[i] < p[j]
  BY <1>1 DEF PartAt
<1>3. (Sorted(s) => Sorted(t)) /\ (Rising(s) => Rising(t))
  BY <1>2 DEF Sorted, Rising
<1>4. Ids(t) \subseteq Ids(s)
  BY <1>2 DEF Ids
<1>5. ASSUME NEW v PROVE /\ Before(s, v) => Before(t, v)
                         /\ Before(v, s) => Before(v, t)
  BY <1>2 DEF Before
<1>6. ASSUME NEW v PROVE /\ Under(s, v) => Under(t, v)
                         /\ Under(v, s) => Under(v, t)
  BY <1>2 DEF Under
<1> QED
  BY <1>3, <1>4, <1>5, <1>6

\* Two sequences with the same ids and levels are ordered alike.
Alike(s, t) ==
    /\ DOMAIN s = DOMAIN t
    /\ \A i \in DOMAIN s : s[i].id = t[i].id /\ s[i].level = t[i].level

\* What holds of one of them holds of the other.
LEMMA AlikeOrder ==
    ASSUME NEW s, NEW t, Alike(s, t)
    PROVE  /\ Sorted(s) => Sorted(t)
           /\ Ids(t) = Ids(s)
           /\ \A v : /\ Before(s, v) => Before(t, v)
                     /\ Before(v, s) => Before(v, t)
                     /\ Under(s, v) => Under(t, v)
BY DEF Alike, Sorted, Ids, Before, Under, Follows

\* The order of the ids is an order that is allowed.
LEMMA RisingSorted ==
    ASSUME NEW s, NEW t
    PROVE  /\ Rising(s) => Sorted(s)
           /\ Under(s, t) => Before(s, t)
BY DEF Rising, Sorted, Under, Before, Follows

\* Nothing comes before or after the empty sequence.
LEMMA EmptyOrder ==
    /\ Sorted(<<>>) /\ Rising(<<>>) /\ Ids(<<>>) = {}
    /\ \A s : /\ Before(s, <<>>) /\ Before(<<>>, s)
              /\ Under(s, <<>>) /\ Under(<<>>, s)
<1>1. DOMAIN <<>> = {}
  OBVIOUS
<1> QED
  BY <1>1 DEF Sorted, Rising, Ids, Before, Under

\* How long the rest of a sequence is after its first k.
LEMMA RestLength ==
    ASSUME NEW n \in Nat, NEW k \in Nat, k <= n
    PROVE  /\ n - (k + 1) + 1 = n - k
           /\ k + 1 <= n \/ n - k = 0
OBVIOUS

\* The front of a sequence and the rest are parts of it that share nothing.
LEMMA SplitParts ==
    ASSUME NEW S, \A x \in S : x.id \in Nat,
           NEW s \in Seq(S), NEW k \in 0 .. Len(s)
    PROVE  LET front == SubSeq(s, 1, k)
               rest == SubSeq(s, k + 1, Len(s))
           IN  /\ rest \in Seq(S) /\ Len(rest) = Len(s) - k
               /\ Part(rest, s)
               /\ Ids(front) \cup Ids(rest) = Ids(s)
               /\ Rising(s) => Ids(front) \cap Ids(rest) = {}
<1> DEFINE front == SubSeq(s, 1, k)
           rest == SubSeq(s, k + 1, Len(s))
<1>1. k \in Nat /\ k <= Len(s) /\ Len(s) \in Nat /\ DOMAIN s = 1 .. Len(s)
  BY LenProperties
<1>2. \A i \in 1 .. k : s[i] \in S
  BY <1>1, ElementOfSeq
<1>3. \A i \in k + 1 .. Len(s) : s[i] \in S
  BY <1>1, ElementOfSeq
<1>4. /\ front \in Seq(S) /\ Len(front) = k
      /\ \A i \in 1 .. k : front[i] = s[i]
  <2>1. /\ front \in Seq(S) /\ Len(front) = IF 1 <= k THEN k - 1 + 1 ELSE 0
        /\ \A i \in 1 .. k - 1 + 1 : front[i] = s[1 + i - 1]
    BY <1>1, <1>2, SubSeqProperties
  <2> HIDE DEF front
  <2>2. k - 1 + 1 = k /\ (1 <= k \/ k = 0)
    BY <1>1
  <2>3. \A i \in 1 .. k : 1 + i - 1 = i
    BY <1>1
  <2> QED
    BY <2>1, <2>2, <2>3
<1>5. /\ rest \in Seq(S) /\ Len(rest) = Len(s) - k
      /\ \A i \in 1 .. Len(s) - k : rest[i] = s[k + i]
  <2>1. /\ rest \in Seq(S)
        /\ Len(rest) = IF k + 1 <= Len(s) THEN Len(s) - (k + 1) + 1 ELSE 0
        /\ \A i \in 1 .. Len(s) - (k + 1) + 1 : rest[i] = s[(k + 1) + i - 1]
    BY <1>1, <1>3, SubSeqProperties
  <2> HIDE DEF rest
  <2>2. Len(s) - (k + 1) + 1 = Len(s) - k
        /\ (k + 1 <= Len(s) \/ Len(s) - k = 0)
    BY <1>1, RestLength
  <2>3. \A i \in 1 .. Len(s) - k : (k + 1) + i - 1 = k + i
    BY <1>1
  <2> QED
    BY <2>1, <2>2, <2>3
<1> HIDE DEF front, rest
<1>6. DOMAIN front = 1 .. k /\ DOMAIN rest = 1 .. Len(s) - k
  BY <1>4, <1>5, LenProperties
<1>7. Part(rest, s)
  <2> DEFINE p == [i \in 1 .. Len(s) - k |-> k + i]
  <2>1. PartAt(rest, s, p)
    BY <1>1, <1>5, <1>6 DEF PartAt
  <2> HIDE DEF p
  <2> QED
    BY <2>1 DEF Part
<1>8. Ids(front) \cup Ids(rest) = Ids(s)
  <2>1. \A i \in 1 .. k : i \in DOMAIN s
    BY <1>1
  <2>2. Ids(front) \subseteq Ids(s)
    BY <1>4, <1>6, <2>1 DEF Ids
  <2>3. Ids(rest) \subseteq Ids(s)
    BY <1>7, PartOrder
  <2>4. ASSUME NEW i \in DOMAIN s PROVE s[i].id \in Ids(front) \cup Ids(rest)
    <3>1. CASE i <= k
      <4>1. i \in DOMAIN front /\ front[i].id = s[i].id
        BY <1>1, <1>4, <1>6, <3>1
      <4> QED
        BY <4>1 DEF Ids
    <3>2. CASE ~(i <= k)
      <4>1. i - k \in 1 .. Len(s) - k /\ k + (i - k) = i
        BY <1>1, <3>2
      <4>2. i - k \in DOMAIN rest /\ rest[i - k].id = s[i].id
        BY <1>5, <1>6, <4>1
      <4> QED
        BY <4>2 DEF Ids
    <3> QED
      BY <3>1, <3>2
  <2> QED
    BY <2>2, <2>3, <2>4 DEF Ids
<1>9. ASSUME Rising(s) PROVE Ids(front) \cap Ids(rest) = {}
  <2> SUFFICES ASSUME NEW i \in DOMAIN front, NEW j \in DOMAIN rest
               PROVE  front[i].id # rest[j].id
    BY DEF Ids
  <2>1. i \in 1 .. k /\ j \in 1 .. Len(s) - k
    BY <1>6
  <2>2. i \in 1 .. Len(s) /\ k + j \in 1 .. Len(s) /\ i < k + j
    BY <1>1, <2>1
  <2>3. front[i] = s[i] /\ rest[j] = s[k + j]
    BY <1>4, <1>5, <2>1
  <2>4. i \in DOMAIN s /\ k + j \in DOMAIN s
    BY <1>1, <2>2
  <2>5. s[i].id < s[k + j].id
    BY <1>9, <2>2, <2>4 DEF Rising
  <2>6. s[i].id \in Nat /\ s[k + j].id \in Nat
    BY <2>2, ElementOfSeq
  <2>7. s[i].id # s[k + j].id
    BY <2>5, <2>6
  <2> QED
    BY <2>3, <2>7
<1> QED
  BY <1>5, <1>7, <1>8, <1>9 DEF front, rest

\* What is left when one is taken out is a part, without that one.
LEMMA RemoveParts ==
    ASSUME NEW S, NEW s \in Seq(S), NEW k \in 1 .. Len(s)
    PROVE  LET t == RemoveAt(s, k)
           IN  /\ t \in Seq(S)
               /\ Part(t, s)
               /\ \A i \in DOMAIN t : \E j \in DOMAIN s \ {k} : t[i] = s[j]
               /\ \A j \in DOMAIN s \ {k} : \E i \in DOMAIN t : t[i] = s[j]
<1> DEFINE front == SubSeq(s, 1, k - 1)
           rest == SubSeq(s, k + 1, Len(s))
           t == front \o rest
           n == Len(s)
<1>1. /\ k \in Nat /\ 1 <= k /\ k <= n /\ n \in Nat /\ DOMAIN s = 1 .. n
  BY LenProperties
<1>2. /\ front \in Seq(S) /\ Len(front) = k - 1
      /\ \A i \in 1 .. k - 1 : front[i] = s[i]
  <2>1. \A i \in 1 .. k - 1 : s[i] \in S
    BY <1>1, ElementOfSeq
  <2>2. /\ front \in Seq(S)
        /\ Len(front) = IF 1 <= k - 1 THEN k - 1 - 1 + 1 ELSE 0
        /\ \A i \in 1 .. k - 1 - 1 + 1 : front[i] = s[1 + i - 1]
    BY <1>1, <2>1, SubSeqProperties
  <2> HIDE DEF front
  <2>3. k - 1 - 1 + 1 = k - 1 /\ (1 <= k - 1 \/ k - 1 = 0)
    BY <1>1
  <2>4. \A i \in 1 .. k - 1 : 1 + i - 1 = i
    BY <1>1
  <2> QED
    BY <2>2, <2>3, <2>4
<1>3. /\ rest \in Seq(S) /\ Len(rest) = n - k
      /\ \A i \in 1 .. n - k : rest[i] = s[k + i]
  <2>1. \A i \in k + 1 .. n : s[i] \in S
    BY <1>1, ElementOfSeq
  <2>2. /\ rest \in Seq(S)
        /\ Len(rest) = IF k + 1 <= n THEN n - (k + 1) + 1 ELSE 0
        /\ \A i \in 1 .. n - (k + 1) + 1 : rest[i] = s[(k + 1) + i - 1]
    BY <1>1, <2>1, SubSeqProperties
  <2> HIDE DEF rest
  <2>3. n - (k + 1) + 1 = n - k /\ (k + 1 <= n \/ n - k = 0)
    <3> HIDE DEF n
    <3> QED
      BY <1>1, RestLength
  <2>4. \A i \in 1 .. n - k : (k + 1) + i - 1 = k + i
    BY <1>1
  <2> QED
    BY <2>2, <2>3, <2>4
<1>4. RemoveAt(s, k) = t
  BY DEF RemoveAt
<1> HIDE DEF front, rest
<1>5. /\ t \in Seq(S) /\ Len(t) = Len(front) + Len(rest)
      /\ \A i \in 1 .. Len(front) + Len(rest) :
            t[i] = IF i <= Len(front) THEN front[i] ELSE rest[i - Len(front)]
  BY <1>2, <1>3, ConcatProperties
<1> HIDE DEF t
<1> DEFINE p == [i \in 1 .. n - 1 |-> IF i < k THEN i ELSE i + 1]
<1>6. /\ DOMAIN t = 1 .. n - 1
      /\ \A i \in 1 .. n - 1 : t[i] = s[p[i]]
  <2>1. Len(front) + Len(rest) = n - 1
    BY <1>1, <1>2, <1>3
  <2>2. DOMAIN t = 1 .. n - 1
    BY <1>5, <2>1, LenProperties
  <2>3. ASSUME NEW i \in 1 .. n - 1 PROVE t[i] = s[p[i]]
    <3>1. CASE i < k
      <4>1. i <= k - 1 /\ i \in 1 .. k - 1
        BY <1>1, <3>1
      <4> QED
        BY <1>2, <1>5, <2>1, <3>1, <4>1
    <3>2. CASE ~(i < k)
      <4>1. /\ ~(i <= k - 1) /\ i - (k - 1) \in 1 .. n - k
            /\ k + (i - (k - 1)) = i + 1
        BY <1>1, <3>2
      <4>2. t[i] = rest[i - (k - 1)]
        BY <1>2, <1>5, <2>1, <4>1
      <4> QED
        BY <1>3, <3>2, <4>1, <4>2
    <3> QED
      BY <3>1, <3>2
  <2> QED
    BY <2>2, <2>3
<1>7. /\ p \in [1 .. n - 1 -> 1 .. n]
      /\ \A i, j \in 1 .. n - 1 : i < j => p[i] < p[j]
      /\ \A i \in 1 .. n - 1 : p[i] # k
  BY <1>1
<1>8. \A j \in (1 .. n) \ {k} : \E i \in 1 .. n - 1 : p[i] = j
  <2> SUFFICES ASSUME NEW j \in (1 .. n) \ {k}
               PROVE  \E i \in 1 .. n - 1 : p[i] = j
    OBVIOUS
  <2>1. CASE j < k
    <3>1. j \in 1 .. n - 1 /\ p[j] = j
      BY <1>1, <2>1
    <3> QED
      BY <3>1
  <2>2. CASE ~(j < k)
    <3>1. j - 1 \in 1 .. n - 1 /\ p[j - 1] = j
      BY <1>1, <2>2
    <3> QED
      BY <3>1
  <2> QED
    BY <2>1, <2>2
<1> HIDE DEF p, n
<1>9. DOMAIN s = 1 .. n
  BY <1>1
<1>10. PartAt(t, s, p)
  BY <1>6, <1>7, <1>9 DEF PartAt
<1>11. Part(t, s)
  BY <1>10 DEF Part
<1>12. \A i \in DOMAIN t : \E j \in DOMAIN s \ {k} : t[i] = s[j]
  BY <1>6, <1>7, <1>9
<1>13. \A j \in DOMAIN s \ {k} : \E i \in DOMAIN t : t[i] = s[j]
  BY <1>6, <1>8, <1>9
<1> QED
  BY <1>4, <1>5, <1>11, <1>12, <1>13

-----------------------------------------------------------------------------
(* Counting: ids are given by place, and maps are walked by id.            *)

\* How many members of S are smaller than n.
Rank(S, n) == Cardinality({m \in S : m < n})

\* Different members of a finite set have different ranks, all below its size.
LEMMA Ranks ==
    ASSUME NEW S \in SUBSET Nat, IsFiniteSet(S)
    PROVE  /\ Cardinality(S) \in Nat
           /\ \A n \in S : Rank(S, n) \in 0 .. Cardinality(S) - 1
           /\ \A m, n \in S : Rank(S, m) = Rank(S, n) => m = n
<1> DEFINE Smaller(n) == {m \in S : m < n}
<1>1. \A n : Smaller(n) \in SUBSET S
  OBVIOUS
<1>2. \A n : IsFiniteSet(Smaller(n)) /\ Cardinality(Smaller(n)) \in Nat
  BY <1>1, FS_Subset, FS_CardinalityType
<1>3. Cardinality(S) \in Nat
  BY FS_CardinalityType
<1>4. ASSUME NEW n \in S PROVE Rank(S, n) \in 0 .. Cardinality(S) - 1
  <2>1. n \notin Smaller(n)
    OBVIOUS
  <2>2. S # Smaller(n)
    BY <2>1
  <2>3. /\ Cardinality(Smaller(n)) <= Cardinality(S)
        /\ Cardinality(S) # Cardinality(Smaller(n))
    BY <1>1, <2>2, FS_Subset
  <2>4. Cardinality(Smaller(n)) \in 0 .. Cardinality(S) - 1
    <3> HIDE DEF Smaller
    <3> QED
      BY <1>2, <1>3, <2>3
  <2> QED
    BY <2>4 DEF Rank
<1>5. ASSUME NEW m \in S, NEW n \in S, m < n PROVE Rank(S, m) # Rank(S, n)
  <2>1. Smaller(m) \in SUBSET Smaller(n)
    <3>1. \A k \in S : k < m => k < n
      BY <1>5
    <3> QED
      BY <3>1
  <2>2. m \in Smaller(n) /\ m \notin Smaller(m)
    BY <1>5
  <2>3. Smaller(n) # Smaller(m)
    BY <2>2
  <2>4. Cardinality(Smaller(n)) # Cardinality(Smaller(m))
    BY <1>2, <2>1, <2>3, FS_Subset
  <2> QED
    BY <2>4 DEF Rank
<1>6. \A m, n \in S : m # n => m < n \/ n < m
  OBVIOUS
<1> QED
  BY <1>3, <1>4, <1>5, <1>6

\* The image of a finite set is finite.
LEMMA ImageFinite ==
    ASSUME NEW S, NEW T, IsFiniteSet(S), NEW f \in Surjection(S, T)
    PROVE  IsFiniteSet(T)
BY FS_Surjection

\* There are finitely many subscriptions.
LEMMA SubFinite == IsFiniteSet(Sub)
<1> DEFINE f == [p \in (1 .. MaxSub) \X Xapp |-> [id |-> p[1], xapp |-> p[2]]]
<1>1. IsFiniteSet((1 .. MaxSub) \X Xapp)
  <2>1. MaxSub \in Int /\ 1 \in Int /\ IsFiniteSet(Xapp)
    BY E2Assumption
  <2>2. IsFiniteSet(1 .. MaxSub)
    BY <2>1, FS_Interval
  <2> QED
    BY <2>1, <2>2, FS_Product
<1>2. f \in [(1 .. MaxSub) \X Xapp -> Sub]
  BY DEF Sub
<1>3. ASSUME NEW s \in Sub PROVE \E p \in (1 .. MaxSub) \X Xapp : f[p] = s
  <2>1. s = [id |-> s.id, xapp |-> s.xapp] /\ s.id \in 1 .. MaxSub /\ s.xapp \in Xapp
    BY DEF Sub
  <2>2. <<s.id, s.xapp>> \in (1 .. MaxSub) \X Xapp /\ f[<<s.id, s.xapp>>] = s
    BY <2>1
  <2> QED
    BY <2>2
<1>4. f \in Surjection((1 .. MaxSub) \X Xapp, Sub)
  BY <1>2, <1>3 DEF Surjection
<1> QED
  BY <1>1, <1>4, ImageFinite

\* A walk of a finite map.
LEMMA WalkType ==
    ASSUME NEW S, IsFiniteSet(S), NEW f \in ById(S)
    PROVE  f \in Seq(S) /\ Rising(f)
<1>1. Cardinality(S) \in Nat
  BY FS_CardinalityType
<1>2. /\ f \in [1 .. Cardinality(S) -> S]
      /\ \A i, j \in DOMAIN f : i < j => f[i].id < f[j].id
  BY DEF ById
<1> QED
  BY <1>1, <1>2 DEF Rising

-----------------------------------------------------------------------------
(* The termination and the xApps.                                          *)

RicType ==
    /\ registered \subseteq wired /\ wired \subseteq Node
    /\ left \subseteq wired
    /\ routes \subseteq Route /\ nextSub \in 1 .. MaxSub + 1
    /\ \A r, q \in routes : r.id = q.id => r = q
    /\ xstate \in [Xapp -> States]
    /\ xsubs \in [Xapp -> SUBSET (1 .. MaxSub)] /\ cycles \in [Xapp -> Nat]

DeskType ==
    /\ conf \in [kpm : SUBSET Node, align : SUBSET Node,
                 periodic : SUBSET Node]
    /\ subs \in [Node -> SUBSET Sub]
    /\ timers \in [Node -> SUBSET (1 .. MaxSub)]
    /\ latest \in [Node -> SUBSET Ue]

PathType ==
    /\ feeder \in [Node -> BOOLEAN] /\ level \in [Node -> 0 .. MaxLevel]
    /\ buffer \in [Node -> Seq(Indication)]
    /\ air \in [Node -> Seq(Indication)]
    /\ aligned \in [Node -> Seq(Indication)]
    /\ \A n \in Node : Len(buffer[n]) <= MaxBuffer
    /\ tick \in [Node -> BOOLEAN]
    /\ emitted \in 0 .. MaxInd /\ dropped \subseteq 1 .. MaxInd
    /\ handed \in [Node -> Seq(Handed)]

\* The type invariant is the three of them.
LEMMA TypeParts == E2TypeOK <=> RicType /\ DeskType /\ PathType
BY DEF E2TypeOK, RicType, DeskType, PathType

\* Ids not given yet are in no route, and the node of a route is or was there.
RoutesKnown == \A r \in routes : /\ r.id < nextSub
                                 /\ r.node \in registered \cup left

Booked == RicType /\ DeskType /\ NothingLeftBehind /\ RoutesKnown

\* The three parts of NothingLeftBehind, one xApp or node at a time.
HoldsRoutes(x) == xsubs[x] = {r.id : r \in {q \in routes : q.xapp = x}}
Alive(x) == /\ cycles[x] = (IF xstate[x] = "RUNNING" THEN 1 ELSE 0)
            /\ xsubs[x] # {} => xstate[x] \in {"RUNNING", "SUSPENDED"}
ServesRoutes(n) == n \notin left =>
    subs[n] = {[id |-> r.id, xapp |-> r.xapp] : r \in {q \in routes : q.node = n}}
Timed(n) == timers[n] = {s.id : s \in {t \in subs[n] : ~Required[t.xapp].event}}

\* NothingLeftBehind is their conjunction.
LEMMA BehindParts ==
    NothingLeftBehind <=> /\ \A x \in Xapp : HoldsRoutes(x) /\ Alive(x)
                          /\ \A n \in Node : ServesRoutes(n) /\ Timed(n)
BY DEF NothingLeftBehind, HoldsRoutes, Alive, ServesRoutes, Timed

\* What Start is granted: new ids, one for each node.
LEMMA GrantedFacts ==
    ASSUME RicType, NEW x \in Xapp
    PROVE  /\ Cardinality(registered) \in Nat
           /\ \A r \in Granted(x) :
                 /\ r.id \in nextSub .. nextSub + Cardinality(registered) - 1
                 /\ r.node \in registered /\ r.xapp = x
                 /\ r = [id |-> r.id, node |-> r.node, xapp |-> r.xapp]
           /\ \A r, q \in Granted(x) : r.id = q.id => r = q
<1>1. registered \in SUBSET Nat /\ IsFiniteSet(registered)
  BY E2Assumption, FS_Subset DEF RicType
<1>2. nextSub \in Nat
  BY E2Assumption DEF RicType
<1>3. Granted(x) = {[id |-> nextSub + Rank(registered, n), node |-> n, xapp |-> x] :
                       n \in registered \cap conf.kpm}
  BY DEF Granted, Rank
<1>4. /\ Cardinality(registered) \in Nat
      /\ \A n \in registered : Rank(registered, n) \in 0 .. Cardinality(registered) - 1
      /\ \A m, n \in registered :
            Rank(registered, m) = Rank(registered, n) => m = n
  BY <1>1, Ranks
<1>5. ASSUME NEW r \in Granted(x)
      PROVE  \E n \in registered :
                 /\ r = [id |-> nextSub + Rank(registered, n), node |-> n, xapp |-> x]
                 /\ r.id = nextSub + Rank(registered, n)
                 /\ r.node = n /\ r.xapp = x
  BY <1>3
<1>6. ASSUME NEW r \in Granted(x)
      PROVE  /\ r.id \in nextSub .. nextSub + Cardinality(registered) - 1
             /\ r.node \in registered /\ r.xapp = x
             /\ r = [id |-> r.id, node |-> r.node, xapp |-> r.xapp]
  <2>1. PICK n \in registered :
           /\ r = [id |-> nextSub + Rank(registered, n), node |-> n, xapp |-> x]
           /\ r.id = nextSub + Rank(registered, n)
           /\ r.node = n /\ r.xapp = x
    BY <1>5
  <2> QED
    BY <1>2, <1>4, <2>1
<1>7. ASSUME NEW r \in Granted(x), NEW q \in Granted(x), r.id = q.id PROVE r = q
  <2>1. PICK m \in registered :
           /\ r = [id |-> nextSub + Rank(registered, m), node |-> m, xapp |-> x]
           /\ r.id = nextSub + Rank(registered, m)
    BY <1>5
  <2>2. PICK n \in registered :
           /\ q = [id |-> nextSub + Rank(registered, n), node |-> n, xapp |-> x]
           /\ q.id = nextSub + Rank(registered, n)
    BY <1>5
  <2>3. Rank(registered, m) = Rank(registered, n)
    BY <1>2, <1>4, <1>7, <2>1, <2>2
  <2> QED
    BY <1>4, <2>1, <2>2, <2>3
<1> QED
  BY <1>4, <1>6, <1>7

\* Start books what it is granted, everywhere.
LEMMA StartKeeps ==
    ASSUME Booked, NEW x \in Xapp, Start(x)
    PROVE  Booked'
<1> DEFINE G == Granted(x)
           k == Cardinality(registered)
<1>1. RicType /\ DeskType /\ RoutesKnown
  BY DEF Booked
<1>2. /\ k \in Nat
      /\ \A r \in G : /\ r.id \in nextSub .. nextSub + k - 1
                      /\ r.node \in registered /\ r.xapp = x
                      /\ r = [id |-> r.id, node |-> r.node, xapp |-> r.xapp]
      /\ \A r, q \in G : r.id = q.id => r = q
  BY <1>1, GrantedFacts
<1>3. /\ xstate[x] \in {"REGISTERED", "DEREGISTERED"}
      /\ nextSub + k - 1 <= MaxSub
      /\ xstate' = [xstate EXCEPT ![x] = "RUNNING"]
      /\ cycles' = [cycles EXCEPT ![x] = cycles[x] + 1]
      /\ nextSub' = nextSub + k
      /\ routes' = routes \cup G
      /\ xsubs' = [xsubs EXCEPT ![x] = xsubs[x] \cup {r.id : r \in G}]
      /\ subs' = [n \in Node |-> subs[n] \cup
             {[id |-> r.id, xapp |-> x] : r \in {q \in G : q.node = n}}]
      /\ timers' = [n \in Node |-> timers[n] \cup
             {r.id : r \in {q \in G : q.node = n /\ ~Required[x].event}}]
      /\ UNCHANGED <<registered, conf, wired, latest, left>>
  BY DEF Start, history
<1> HIDE DEF G, k
<1>4. /\ nextSub \in Nat /\ nextSub >= 1 /\ MaxSub \in Nat
      /\ registered \subseteq Node
  BY <1>1, E2Assumption DEF RicType
<1>5. \A r \in G : /\ r.id \in 1 .. MaxSub /\ r.id >= nextSub
                   /\ r.id < nextSub + k /\ r.node \in Node
  BY <1>2, <1>3, <1>4
<1>6. \A r \in routes : r.id \in Nat /\ r.id < nextSub
  BY <1>1 DEF RicType, RoutesKnown, Route
<1>7. RicType'
  <2>1. G \subseteq Route
    BY <1>2, <1>5 DEF Route
  <2>2. \A r \in G, q \in routes : r.id # q.id
    BY <1>4, <1>5, <1>6
  <2>3. \A r, q \in routes' : r.id = q.id => r = q
    BY <1>1, <1>2, <1>3, <2>2 DEF RicType
  <2>4. nextSub' \in 1 .. MaxSub + 1
    BY <1>2, <1>3, <1>4
  <2>5. {r.id : r \in G} \subseteq 1 .. MaxSub
    BY <1>5
  <2>6. xsubs' \in [Xapp -> SUBSET (1 .. MaxSub)]
    BY <1>1, <1>3, <2>5 DEF RicType
  <2>7. xstate' \in [Xapp -> States] /\ cycles' \in [Xapp -> Nat]
    BY <1>1, <1>3 DEF RicType, States
  <2>8. routes' \subseteq Route
    BY <1>1, <1>3, <2>1 DEF RicType
  <2>9. (registered \subseteq wired /\ wired \subseteq Node /\ left \subseteq wired)'
    BY <1>1, <1>3 DEF RicType
  <2> QED
    BY <2>3, <2>4, <2>6, <2>7, <2>8, <2>9 DEF RicType
<1>8. DeskType'
  <2>1. \A n \in Node :
           {[id |-> r.id, xapp |-> x] : r \in {q \in G : q.node = n}} \subseteq Sub
    BY <1>5 DEF Sub
  <2>2. \A n \in Node :
           {r.id : r \in {q \in G : q.node = n /\ ~Required[x].event}}
              \subseteq 1 .. MaxSub
    BY <1>5
  <2>3. subs' \in [Node -> SUBSET Sub]
    BY <1>1, <1>3, <2>1 DEF DeskType
  <2>4. timers' \in [Node -> SUBSET (1 .. MaxSub)]
    BY <1>1, <1>3, <2>2 DEF DeskType
  <2> QED
    BY <1>1, <1>3, <2>3, <2>4 DEF DeskType
<1>9. RoutesKnown'
  <2>1. \A r \in routes : r.id < nextSub + k
    BY <1>2, <1>4, <1>6
  <2> QED
    BY <1>1, <1>2, <1>3, <1>5, <2>1 DEF RoutesKnown
<1>10. \A y \in Xapp : HoldsRoutes(y) /\ Alive(y)
  BY BehindParts DEF Booked
<1>11. ASSUME NEW y \in Xapp PROVE HoldsRoutes(y)'
  <2>1. HoldsRoutes(y)
    BY <1>10
  <2>2. CASE y = x
    <3>1. xsubs'[x] = xsubs[x] \cup {r.id : r \in G}
      BY <1>1, <1>3 DEF RicType
    <3>2. {q \in routes' : q.xapp = x} = {q \in routes : q.xapp = x} \cup G
      BY <1>2, <1>3
    <3> QED
      BY <2>1, <2>2, <3>1, <3>2 DEF HoldsRoutes
  <2>3. CASE y # x
    <3>1. xsubs'[y] = xsubs[y]
      BY <1>1, <1>3, <2>3 DEF RicType
    <3>2. {q \in routes' : q.xapp = y} = {q \in routes : q.xapp = y}
      BY <1>2, <1>3, <2>3
    <3> QED
      BY <2>1, <3>1, <3>2 DEF HoldsRoutes
  <2> QED
    BY <2>2, <2>3
<1>12. ASSUME NEW y \in Xapp PROVE Alive(y)'
  <2>1. Alive(y)
    BY <1>10
  <2>2. xstate'[y] = (IF y = x THEN "RUNNING" ELSE xstate[y])
        /\ cycles'[y] = (IF y = x THEN cycles[x] + 1 ELSE cycles[y])
        /\ (y # x => xsubs'[y] = xsubs[y])
    BY <1>1, <1>3 DEF RicType
  <2>3. y = x => cycles[x] = 0
    BY <1>3, <2>1 DEF Alive
  <2> QED
    BY <2>1, <2>2, <2>3 DEF Alive
<1>13. \A n \in Node : ServesRoutes(n) /\ Timed(n)
  BY BehindParts DEF Booked
<1>14. ASSUME NEW n \in Node PROVE ServesRoutes(n)'
  <2> SUFFICES ASSUME n \notin left
               PROVE  subs'[n] = {[id |-> r.id, xapp |-> r.xapp] :
                                     r \in {q \in routes' : q.node = n}}
    BY <1>3 DEF ServesRoutes
  <2>1. subs[n] = {[id |-> r.id, xapp |-> r.xapp] :
                      r \in {q \in routes : q.node = n}}
    BY <1>13 DEF ServesRoutes
  <2>2. subs'[n] = subs[n] \cup
                   {[id |-> r.id, xapp |-> x] : r \in {q \in G : q.node = n}}
    BY <1>3
  <2>3. {[id |-> r.id, xapp |-> x] : r \in {q \in G : q.node = n}}
        = {[id |-> r.id, xapp |-> r.xapp] : r \in {q \in G : q.node = n}}
    BY <1>2
  <2>4. {q \in routes' : q.node = n}
        = {q \in routes : q.node = n} \cup {q \in G : q.node = n}
    BY <1>3
  <2> QED
    BY <2>1, <2>2, <2>3, <2>4
<1>15. ASSUME NEW n \in Node PROVE Timed(n)'
  <2>1. timers[n] = {s.id : s \in {t \in subs[n] : ~Required[t.xapp].event}}
    BY <1>13 DEF Timed
  <2> DEFINE N == {[id |-> r.id, xapp |-> x] : r \in {q \in G : q.node = n}}
  <2>2. subs'[n] = subs[n] \cup N
    BY <1>3
  <2>3. timers'[n] = timers[n] \cup
           {r.id : r \in {q \in G : q.node = n /\ ~Required[x].event}}
    BY <1>3
  <2>4. {r.id : r \in {q \in G : q.node = n /\ ~Required[x].event}}
        = {s.id : s \in {t \in N : ~Required[t.xapp].event}}
    <3>1. \A s \in N : s.xapp = x
      OBVIOUS
    <3>2. CASE Required[x].event
      BY <3>1, <3>2
    <3>3. CASE ~Required[x].event
      <4>1. {t \in N : ~Required[t.xapp].event} = N
        BY <3>1, <3>3
      <4>2. \A r \in {q \in G : q.node = n} :
               [id |-> r.id, xapp |-> x] \in N /\ [id |-> r.id, xapp |-> x].id = r.id
        OBVIOUS
      <4>3. \A s \in N : \E r \in {q \in G : q.node = n} : s.id = r.id
        OBVIOUS
      <4>4. {s.id : s \in N} = {r.id : r \in {q \in G : q.node = n}}
        <5> HIDE DEF N
        <5>1. \A r \in {q \in G : q.node = n} : r.id \in {s.id : s \in N}
          BY <4>2
        <5> QED
          BY <4>3, <5>1
      <4> QED
        BY <3>3, <4>1, <4>4
    <3> QED
      BY <3>2, <3>3
  <2> HIDE DEF N
  <2>5. {t \in subs'[n] : ~Required[t.xapp].event}
        = {t \in subs[n] : ~Required[t.xapp].event}
          \cup {t \in N : ~Required[t.xapp].event}
    BY <2>2
  <2> QED
    BY <2>1, <2>3, <2>4, <2>5 DEF Timed
<1>16. NothingLeftBehind'
  BY <1>11, <1>12, <1>14, <1>15 DEF NothingLeftBehind, HoldsRoutes, Alive,
                                    ServesRoutes, Timed
<1> QED
  BY <1>7, <1>8, <1>9, <1>16 DEF Booked

\* Stop strikes out what its xApp holds, everywhere but on a node that is gone.
LEMMA StopKeeps ==
    ASSUME Booked, NEW x \in Xapp, Stop(x)
    PROVE  Booked'
<1> DEFINE Gone(n) == {r.id : r \in {q \in routes : q.node = n /\ q.id \in xsubs[x]
                                                   /\ n \in registered}}
<1>1. RicType /\ DeskType /\ RoutesKnown
  BY DEF Booked
<1>2. /\ xstate[x] # "DEREGISTERED"
      /\ xstate' = [xstate EXCEPT ![x] = "DEREGISTERED"]
      /\ cycles' = [cycles EXCEPT ![x] = IF cycles[x] > 0 THEN cycles[x] - 1 ELSE 0]
      /\ subs' = [n \in Node |-> {s \in subs[n] : s.id \notin Gone(n)}]
      /\ timers' = [n \in Node |-> timers[n] \ Gone(n)]
      /\ routes' = {r \in routes : r.id \notin xsubs[x]}
      /\ xsubs' = [xsubs EXCEPT ![x] = {}]
      /\ UNCHANGED <<registered, nextSub, conf, wired, latest, left>>
  BY DEF Stop, Cancelled, history
<1> HIDE DEF Gone
<1>3. \A y \in Xapp : HoldsRoutes(y) /\ Alive(y)
  BY BehindParts DEF Booked
<1>4. \A n \in Node : ServesRoutes(n) /\ Timed(n)
  BY BehindParts DEF Booked
<1>5. routes' = {r \in routes : r.xapp # x}
  <2>1. xsubs[x] = {r.id : r \in {q \in routes : q.xapp = x}}
    BY <1>3 DEF HoldsRoutes
  <2>2. \A r, q \in routes : r.id = q.id => r = q
    BY <1>1 DEF RicType
  <2>3. \A r \in routes : r.id \in xsubs[x] <=> r.xapp = x
    BY <2>1, <2>2
  <2> QED
    BY <1>2, <2>3
<1>6. RicType'
  <2>1. cycles' \in [Xapp -> Nat]
    BY <1>1, <1>2 DEF RicType
  <2>2. xstate' \in [Xapp -> States] /\ xsubs' \in [Xapp -> SUBSET (1 .. MaxSub)]
    BY <1>1, <1>2 DEF RicType, States
  <2>3. routes' \subseteq routes
    BY <1>2
  <2> QED
    BY <1>1, <1>2, <2>1, <2>2, <2>3 DEF RicType
<1>7. DeskType'
  <2>1. subs' \in [Node -> SUBSET Sub] /\ timers' \in [Node -> SUBSET (1 .. MaxSub)]
    BY <1>1, <1>2 DEF DeskType
  <2> QED
    BY <1>1, <1>2, <2>1 DEF DeskType
<1>8. RoutesKnown'
  BY <1>1, <1>2 DEF RoutesKnown
<1>9. ASSUME NEW y \in Xapp PROVE HoldsRoutes(y)'
  <2>1. xsubs[y] = {r.id : r \in {q \in routes : q.xapp = y}}
    BY <1>3 DEF HoldsRoutes
  <2>2. xsubs'[y] = IF y = x THEN {} ELSE xsubs[y]
    BY <1>1, <1>2 DEF RicType
  <2>3. {q \in routes' : q.xapp = y} = IF y = x THEN {}
                                       ELSE {q \in routes : q.xapp = y}
    BY <1>5
  <2> QED
    BY <2>1, <2>2, <2>3 DEF HoldsRoutes
<1>10. ASSUME NEW y \in Xapp PROVE Alive(y)'
  <2>1. Alive(y)
    BY <1>3
  <2>2. /\ xstate'[y] = (IF y = x THEN "DEREGISTERED" ELSE xstate[y])
        /\ cycles'[y] = (IF y = x THEN IF cycles[x] > 0 THEN cycles[x] - 1 ELSE 0
                                  ELSE cycles[y])
        /\ xsubs'[y] = (IF y = x THEN {} ELSE xsubs[y])
    BY <1>1, <1>2 DEF RicType
  <2>3. y = x => cycles[x] \in {0, 1}
    BY <2>1 DEF Alive
  <2> QED
    BY <2>1, <2>2, <2>3 DEF Alive
<1>11. ASSUME NEW n \in Node PROVE ServesRoutes(n)'
  <2> SUFFICES ASSUME n \notin left
               PROVE  subs'[n] = {[id |-> r.id, xapp |-> r.xapp] :
                                     r \in {q \in routes' : q.node = n}}
    BY <1>2 DEF ServesRoutes
  <2>1. subs[n] = {[id |-> r.id, xapp |-> r.xapp] :
                      r \in {q \in routes : q.node = n}}
    BY <1>4 DEF ServesRoutes
  <2>2. \A r \in routes : r.node = n => n \in registered
    BY <1>1 DEF RoutesKnown
  <2>3. \A r, q \in routes : r.id = q.id => r = q
    BY <1>1 DEF RicType
  <2>4. \A r \in routes : r.node = n =>
            (r.id \in Gone(n) <=> r.id \in xsubs[x])
    BY <2>2, <2>3 DEF Gone
  <2>5. subs'[n] = {s \in subs[n] : s.id \notin Gone(n)}
    BY <1>2
  <2>6. {q \in routes' : q.node = n}
        = {q \in routes : q.node = n /\ q.id \notin Gone(n)}
    BY <1>2, <2>4
  <2>7. ASSUME NEW s \in subs'[n]
        PROVE  \E r \in {q \in routes' : q.node = n} :
                   s = [id |-> r.id, xapp |-> r.xapp]
    <3>1. PICK r \in {q \in routes : q.node = n} : s = [id |-> r.id, xapp |-> r.xapp]
      BY <2>1, <2>5
    <3>2. r.id \notin Gone(n)
      BY <2>5, <3>1
    <3> QED
      BY <2>6, <3>1, <3>2
  <2>8. ASSUME NEW r \in {q \in routes' : q.node = n}
        PROVE  [id |-> r.id, xapp |-> r.xapp] \in subs'[n]
    <3>1. r \in {q \in routes : q.node = n} /\ r.id \notin Gone(n)
      BY <2>6
    <3>2. [id |-> r.id, xapp |-> r.xapp] \in subs[n]
      BY <2>1, <3>1
    <3> QED
      BY <2>5, <3>1, <3>2
  <2> QED
    BY <2>7, <2>8
<1>12. ASSUME NEW n \in Node PROVE Timed(n)'
  <2>1. timers[n] = {s.id : s \in {t \in subs[n] : ~Required[t.xapp].event}}
    BY <1>4 DEF Timed
  <2>2. /\ timers'[n] = timers[n] \ Gone(n)
        /\ subs'[n] = {s \in subs[n] : s.id \notin Gone(n)}
    BY <1>2
  <2> QED
    BY <2>1, <2>2 DEF Timed
<1>13. NothingLeftBehind'
  BY <1>9, <1>10, <1>11, <1>12 DEF NothingLeftBehind, HoldsRoutes, Alive,
                                   ServesRoutes, Timed
<1> QED
  BY <1>6, <1>7, <1>8, <1>13 DEF Booked

\* Suspend and Resume move the state and the decision event together.
LEMMA PauseKeeps ==
    ASSUME Booked, NEW x \in Xapp, Suspend(x) \/ Resume(x)
    PROVE  Booked'
<1>1. RicType /\ DeskType /\ RoutesKnown
  BY DEF Booked
<1>2. \A y \in Xapp : HoldsRoutes(y) /\ Alive(y)
  BY BehindParts DEF Booked
<1>3. \A n \in Node : ServesRoutes(n) /\ Timed(n)
  BY BehindParts DEF Booked
<1>4. UNCHANGED <<registered, routes, nextSub, xsubs, wired, conf, subs, timers,
                  latest, left>>
  BY DEF Suspend, Resume, desk
<1>5. /\ \A y \in Xapp : y # x => xstate'[y] = xstate[y] /\ cycles'[y] = cycles[y]
      /\ xstate'[x] \in {"RUNNING", "SUSPENDED"}
      /\ xstate[x] \in {"RUNNING", "SUSPENDED"} /\ xstate[x] # xstate'[x]
      /\ cycles'[x] = IF xstate'[x] = "RUNNING" THEN cycles[x] + 1
                      ELSE IF cycles[x] > 0 THEN cycles[x] - 1 ELSE 0
      /\ xstate' \in [Xapp -> States] /\ cycles' \in [Xapp -> Nat]
  BY <1>1 DEF Suspend, Resume, Cancelled, RicType, States
<1>6. RicType' /\ DeskType' /\ RoutesKnown'
  BY <1>1, <1>4, <1>5 DEF RicType, DeskType, RoutesKnown
<1>7. ASSUME NEW y \in Xapp PROVE Alive(y)'
  <2>1. Alive(y) /\ Alive(x)
    BY <1>2
  <2> QED
    BY <1>4, <1>5, <2>1 DEF Alive
<1>8. /\ \A y \in Xapp : HoldsRoutes(y)'
      /\ \A n \in Node : ServesRoutes(n)' /\ Timed(n)'
  BY <1>2, <1>3, <1>4 DEF HoldsRoutes, ServesRoutes, Timed
<1>9. NothingLeftBehind'
  BY <1>7, <1>8 DEF NothingLeftBehind, HoldsRoutes, Alive, ServesRoutes, Timed
<1> QED
  BY <1>6, <1>9 DEF Booked

\* Nodes come and go; a route's node is remembered as one that left.
LEMMA MembershipKeeps ==
    ASSUME Booked, NEW n \in Node, RegisterE2Node(n) \/ DeregisterE2Node(n)
    PROVE  Booked'
<1>1. RicType /\ DeskType /\ RoutesKnown /\ NothingLeftBehind
  BY DEF Booked
<1>2. /\ UNCHANGED <<routes, nextSub, xstate, xsubs, cycles, conf, subs, timers,
                     latest>>
      /\ left \subseteq left' /\ registered \cup left \subseteq registered' \cup left'
      /\ registered' \subseteq wired' /\ left' \subseteq wired'
      /\ wired' \subseteq Node
  BY <1>1 DEF RegisterE2Node, DeregisterE2Node, desk, RicType
<1>3. RicType' /\ DeskType'
  BY <1>1, <1>2 DEF RicType, DeskType
<1>4. RoutesKnown'
  BY <1>1, <1>2 DEF RoutesKnown
<1>5. NothingLeftBehind'
  BY <1>1, <1>2 DEF NothingLeftBehind
<1> QED
  BY <1>3, <1>4, <1>5 DEF Booked

\* Nothing here depends on the way of a report.
LEMMA BookedAlong ==
    ASSUME Booked, DeskType',
           UNCHANGED <<ric, wired, conf, subs, timers, left>>
    PROVE  Booked'
<1>1. UNCHANGED <<registered, routes, nextSub, xstate, xsubs, cycles, wired, conf,
                  subs, timers, left>>
  BY DEF ric
<1>2. RicType' /\ RoutesKnown' /\ NothingLeftBehind'
  BY <1>1 DEF Booked, RicType, RoutesKnown, NothingLeftBehind
<1> QED
  BY <1>2 DEF Booked

-----------------------------------------------------------------------------
(* The way of a report.                                                    *)

\* What a node has handed over, holds for the tick, has in the air and in its
\* buffer is in order, one place after the other.
Line(h, g, a, b) ==
    /\ Sorted(h) /\ Sorted(g) /\ Sorted(a) /\ Rising(b)
    /\ Before(h, g) /\ Before(h, a) /\ Before(g, a)
    /\ Under(h, b) /\ Under(g, b) /\ Under(a, b)

\* What is sent follows everything when nothing is buffered.
LEMMA LineSend ==
    ASSUME NEW S, NEW h, NEW g, NEW a \in Seq(S), NEW t \in Seq(S), NEW b,
           Line(h, g, a, b), Rising(t), Under(h, t), Under(g, t), Under(a, t)
    PROVE  Line(h, g, a \o t, <<>>)
<1>1. /\ Sorted(t) /\ Before(h, t) /\ Before(g, t) /\ Before(a, t)
  BY RisingSorted
<1>2. Sorted(a \o t)
  BY <1>1, ConcatOrder DEF Line
<1>3. Before(h, a \o t) /\ Before(g, a \o t)
  BY <1>1, ConcatPair DEF Line
<1> QED
  BY <1>2, <1>3, EmptyOrder DEF Line

\* A part of what was buffered and of what is added stays in line.
LEMMA LineBuffer ==
    ASSUME NEW S, NEW h, NEW g, NEW a, NEW b \in Seq(S), NEW t \in Seq(S), NEW r,
           Line(h, g, a, b), Rising(t),
           Under(h, t), Under(g, t), Under(a, t), Under(b, t), Part(r, b \o t)
    PROVE  Rising(b \o t) /\ Line(h, g, a, r)
<1>1. Rising(b \o t)
  BY ConcatOrder DEF Line
<1>2. Under(h, b \o t) /\ Under(g, b \o t) /\ Under(a, b \o t)
  BY ConcatPair DEF Line
<1>3. Rising(r) /\ Under(h, r) /\ Under(g, r) /\ Under(a, r)
  BY <1>1, <1>2, PartOrder
<1> QED
  BY <1>1, <1>3 DEF Line

\* A report that arrives may have overtaken only what was sent with more delay.
LEMMA LineArrive ==
    ASSUME NEW h, NEW g \in Seq(Indication), NEW a \in Seq(Indication), NEW b,
           Line(h, g, a, b), NEW k \in 1 .. Len(a),
           \A j \in 1 .. k - 1 : a[j].level < a[k].level
    PROVE  Line(h, g \o <<a[k]>>, RemoveAt(a, k), b)
<1> DEFINE t == RemoveAt(a, k)
           x == <<a[k]>>
<1>1. /\ t \in Seq(Indication) /\ Part(t, a)
      /\ \A i \in DOMAIN t : \E j \in DOMAIN a \ {k} : t[i] = a[j]
  BY RemoveParts
<1> HIDE DEF t
<1>2. DOMAIN a = 1 .. Len(a) /\ Len(a) \in Nat /\ k \in DOMAIN a
  BY LenProperties
<1>3. x \in Seq(Indication) /\ DOMAIN x = {1} /\ x[1] = a[k]
  BY <1>2, ElementOfSeq
<1> HIDE DEF x
<1>4. /\ Sorted(x)
      /\ Before(h, x) /\ Before(g, x) /\ (Under(a, b) => Under(x, b))
  BY <1>2, <1>3 DEF Line, Sorted, Before, Under
<1>5. Before(x, t)
  <2> SUFFICES ASSUME NEW j \in DOMAIN a \ {k}
               PROVE  Follows(a[k], a[j])
    BY <1>1, <1>3 DEF Before
  <2>1. /\ a[k].id \in Nat /\ a[j].id \in Nat
        /\ a[k].level \in Nat /\ a[j].level \in Nat
    BY <1>2, EntryType, ElementOfSeq DEF Entry
  <2>2. CASE k < j
    BY <1>2, <2>2 DEF Line, Sorted
  <2>3. CASE j < k
    <3>1. Follows(a[j], a[k])
      BY <1>2, <2>3 DEF Line, Sorted
    <3>2. a[j].level < a[k].level
      BY <1>2, <2>3
    <3> QED
      BY <2>1, <3>1, <3>2 DEF Follows
  <2> QED
    BY <1>2, <2>2, <2>3
<1>6. Sorted(g \o x) /\ Before(h, g \o x)
  BY <1>3, <1>4, ConcatOrder, ConcatPair DEF Line
<1>7. /\ Sorted(t) /\ Before(h, t) /\ Before(g, t) /\ Under(t, b)
  BY <1>1, PartOrder DEF Line
<1>8. Before(g \o x, t) /\ Under(g \o x, b)
  BY <1>3, <1>4, <1>5, <1>7, ConcatPair DEF Line
<1> QED
  BY <1>6, <1>7, <1>8 DEF Line, t, x

\* A tick hands over all that waited for it.
LEMMA LineHand ==
    ASSUME NEW S, NEW h \in Seq(S), NEW g, NEW a, NEW b, NEW f \in Seq(S),
           Line(h, g, a, b), Alike(g, f)
    PROVE  Line(h \o f, <<>>, a, b)
<1>1. Sorted(f) /\ Before(h, f) /\ Before(f, a) /\ Under(f, b)
  BY AlikeOrder DEF Line
<1>2. Sorted(h \o f) /\ Before(h \o f, a) /\ Under(h \o f, b)
  BY <1>1, ConcatOrder, ConcatPair DEF Line
<1> QED
  BY <1>2, EmptyOrder DEF Line

\* The line of a node; its buffer is for outages, its queue for alignment.
Lined(n) ==
    /\ Line(handed[n], aligned[n], air[n], buffer[n])
    /\ feeder[n] => buffer[n] = <<>>
    /\ n \notin conf.align => aligned[n] = <<>>

\* The ids a node holds.
Held(n) == Ids(handed[n]) \cup Ids(aligned[n]) \cup Ids(air[n]) \cup Ids(buffer[n])

Placed ==
    /\ 1 .. emitted = dropped \cup UNION {Held(n) : n \in Node}
    /\ \A n \in Node : /\ Held(n) \cap dropped = {}
                       /\ \A m \in Node \ {n} : Held(n) \cap Held(m) = {}

Way == PathType /\ Placed /\ \A n \in Node : Lined(n)

\* Ids that only change places stay where they belong.
LEMMA PlacedMoved ==
    ASSUME Placed, UNCHANGED <<emitted, dropped>>,
           \A n \in Node : Held(n)' = Held(n)
    PROVE  Placed'
BY DEF Placed

\* One node takes the next ids, and keeps or drops each.
LEMMA PlacedMore ==
    ASSUME Placed, emitted \in Nat, NEW k \in Nat, emitted' = emitted + k,
           NEW n \in Node, \A m \in Node \ {n} : Held(m)' = Held(m),
           dropped \subseteq dropped',
           dropped' \cup Held(n)' =
               dropped \cup Held(n) \cup (emitted + 1 .. emitted + k),
           Held(n)' \cap dropped' = {},
           Held(n)' \subseteq Held(n) \cup (emitted + 1 .. emitted + k)
    PROVE  Placed'
<1> DEFINE new == emitted + 1 .. emitted + k
<1>1. /\ 1 .. emitted' = (1 .. emitted) \cup new
      /\ (1 .. emitted) \cap new = {}
  OBVIOUS
<1> HIDE DEF new
<1>2. /\ \A m \in Node : Held(m) \subseteq 1 .. emitted
      /\ dropped \subseteq 1 .. emitted
  BY DEF Placed
<1>3. /\ \A m \in Node : Held(m) \cap new = {}
      /\ dropped \cap new = {}
  BY <1>1, <1>2
<1>4. /\ dropped' \cup Held(n)' = dropped \cup Held(n) \cup new
      /\ Held(n)' \subseteq Held(n) \cup new
  BY DEF new
<1>5. 1 .. emitted' = dropped' \cup UNION {Held(m)' : m \in Node}
  <2>1. UNION {Held(m) : m \in Node}
        = Held(n) \cup UNION {Held(m) : m \in Node \ {n}}
    OBVIOUS
  <2>2. UNION {Held(m)' : m \in Node}
        = Held(n)' \cup UNION {Held(m) : m \in Node \ {n}}
    OBVIOUS
  <2>3. 1 .. emitted = dropped \cup UNION {Held(m) : m \in Node}
    BY DEF Placed
  <2> QED
    BY <1>1, <1>4, <2>1, <2>2, <2>3
<1>6. ASSUME NEW m \in Node PROVE Held(m)' \cap dropped' = {}
  <2>1. CASE m = n
    BY <2>1
  <2>2. CASE m # n
    <3>1. Held(m) \cap dropped = {} /\ Held(m) \cap Held(n) = {}
      BY <2>2 DEF Placed
    <3> QED
      BY <1>3, <1>4, <2>2, <3>1
  <2> QED
    BY <2>1, <2>2
<1>7. ASSUME NEW m \in Node, NEW l \in Node \ {m}
      PROVE  Held(m)' \cap Held(l)' = {}
  <2>1. Held(m) \cap Held(l) = {}
    BY DEF Placed
  <2>2. CASE m = n
    BY <1>3, <1>4, <2>1, <2>2
  <2>3. CASE m # n
    BY <1>3, <1>4, <2>1, <2>3
  <2> QED
    BY <2>2, <2>3
<1> QED
  BY <1>5, <1>6, <1>7 DEF Placed

\* What a node has is numbered below what it makes next.
LEMMA FreshUnder ==
    ASSUME PathType, Placed, NEW n \in Node, NEW t,
           \A i \in DOMAIN t : t[i].id \in Nat /\ t[i].id > emitted
    PROVE  /\ Under(handed[n], t) /\ Under(aligned[n], t)
           /\ Under(air[n], t) /\ Under(buffer[n], t)
<1>1. emitted \in Nat
  BY E2Assumption DEF PathType
<1>2. Held(n) \subseteq 1 .. emitted
  BY DEF Placed
<1>3. ASSUME NEW s, Ids(s) \subseteq 1 .. emitted PROVE Under(s, t)
  <2>1. \A i \in DOMAIN s : s[i].id \in 1 .. emitted
    BY <1>3 DEF Ids
  <2> QED
    BY <1>1, <2>1 DEF Under
<1> QED
  BY <1>2, <1>3 DEF Held

\* What is made for a sequence of subscriptions.
LEMMA MadeFacts ==
    ASSUME PathType, NEW n \in Node, NEW due \in Seq(Sub),
           emitted + Len(due) <= MaxInd
    PROVE  LET t == Made(n, due)
           IN  /\ t \in Seq(Indication) /\ Rising(t)
               /\ Ids(t) = emitted + 1 .. emitted + Len(due)
               /\ \A i \in DOMAIN t : t[i].id \in Nat /\ t[i].id > emitted
<1> DEFINE t == Made(n, due)
           k == Len(due)
<1>1. emitted \in Nat /\ MaxInd \in Nat /\ level[n] \in 0 .. MaxLevel
  BY E2Assumption DEF PathType
<1>2. /\ k \in Nat /\ DOMAIN due = 1 .. k
      /\ \A i \in 1 .. k : due[i].id \in 1 .. MaxSub
  <2>1. k \in Nat /\ DOMAIN due = 1 .. k /\ due \in [1 .. k -> Sub]
    BY LenProperties
  <2>2. \A s \in Sub : s.id \in 1 .. MaxSub
    BY DEF Sub
  <2> QED
    BY <2>1, <2>2
<1>3. t = [i \in 1 .. k |-> [id |-> emitted + i, sub |-> due[i].id, level |-> level[n]]]
  BY <1>2 DEF Made
<1> HIDE DEF t
<1>4. emitted + k <= MaxInd
  OBVIOUS
<1> HIDE DEF k
<1>5. \A i \in 1 .. k : emitted + i \in 1 .. MaxInd
  BY <1>1, <1>2, <1>4
<1>6. ASSUME NEW i \in 1 .. k PROVE t[i] \in Indication /\ t[i].id = emitted + i
  BY <1>1, <1>2, <1>3, <1>5 DEF Indication
<1>7. DOMAIN t = 1 .. k /\ t \in Seq(Indication)
  BY <1>2, <1>3, <1>6
<1>8. Rising(t)
  <2> SUFFICES ASSUME NEW i \in 1 .. k, NEW j \in 1 .. k, i < j
               PROVE  t[i].id < t[j].id
    BY <1>7 DEF Rising
  <2>1. t[i].id = emitted + i /\ t[j].id = emitted + j
    BY <1>6
  <2> QED
    BY <1>1, <1>2, <2>1
<1>9. Ids(t) = emitted + 1 .. emitted + k
  <2>1. Ids(t) = {emitted + i : i \in 1 .. k}
    BY <1>6, <1>7 DEF Ids
  <2>2. ASSUME NEW m \in emitted + 1 .. emitted + k
        PROVE  m - emitted \in 1 .. k /\ emitted + (m - emitted) = m
    BY <1>1, <1>2
  <2>3. \A i \in 1 .. k : emitted + i \in emitted + 1 .. emitted + k
    BY <1>1, <1>2
  <2> QED
    BY <2>1, <2>2, <2>3
<1>10. \A i \in DOMAIN t : t[i].id \in Nat /\ t[i].id > emitted
  BY <1>1, <1>2, <1>6, <1>7
<1> QED
  BY <1>7, <1>8, <1>9, <1>10 DEF t, k

\* What of it is for the buffer.
LEMMA BatchFacts ==
    ASSUME PathType, NEW n \in Node, NEW due \in Seq(Sub),
           emitted + Len(due) <= MaxInd, NEW t \in ById(Batched(n, due))
    PROVE  /\ t \in Seq(Indication) /\ Rising(t)
           /\ Ids(t) \subseteq Ids(Made(n, due))
           /\ \A i \in DOMAIN t : t[i].id \in Nat /\ t[i].id > emitted
<1> DEFINE made == Made(n, due)
           D == {j \in DOMAIN due : Batches(due[j])}
           B == Batched(n, due)
           f == [i \in D |-> made[i]]
<1>1. /\ made \in Seq(Indication)
      /\ \A i \in DOMAIN made : made[i].id \in Nat /\ made[i].id > emitted
  BY MadeFacts
<1>2. DOMAIN made = DOMAIN due
  BY DEF Made
<1> HIDE DEF made
<1>3. DOMAIN due = 1 .. Len(due) /\ Len(due) \in Nat
  BY LenProperties
<1>4. IsFiniteSet(D)
  <2>1. IsFiniteSet(1 .. Len(due)) /\ D \in SUBSET (1 .. Len(due))
    BY <1>3, FS_Interval
  <2> QED
    BY <2>1, FS_Subset
<1>5. B = {made[i] : i \in D}
  BY DEF Batched, made
<1>6. f \in Surjection(D, B)
  BY <1>5 DEF Surjection
<1>7. IsFiniteSet(B)
  BY <1>4, <1>6, ImageFinite
<1>8. t \in Seq(B) /\ Rising(t)
  BY <1>7, WalkType
<1>9. \A x \in B : \E i \in DOMAIN made : x = made[i]
  BY <1>2, <1>5
<1> HIDE DEF B, D
<1>10. B \subseteq Indication
  BY <1>1, <1>9, ElementOfSeq, LenProperties
<1>11. \A i \in DOMAIN t : t[i] \in B
  BY <1>8, ElementOfSeq, LenProperties
<1>12. t \in Seq(Indication)
  BY <1>8, <1>10, SeqMonotonic
<1>13. \A i \in DOMAIN t : \E j \in DOMAIN made : t[i] = made[j]
  BY <1>9, <1>11
<1>14. Ids(t) \subseteq Ids(made)
  BY <1>13 DEF Ids
<1> QED
  BY <1>1, <1>8, <1>12, <1>13, <1>14 DEF made

\* The line of a node whose part of the way does not change.
LEMMA LinedStill ==
    ASSUME NEW m, Lined(m), conf' = conf, feeder'[m] = feeder[m],
           handed'[m] = handed[m], aligned'[m] = aligned[m],
           air'[m] = air[m], buffer'[m] = buffer[m]
    PROVE  Lined(m)' /\ Held(m)' = Held(m)
BY DEF Lined, Held

\* With the link up what is made goes into the air.
LEMMA EmitUp ==
    ASSUME Way, NEW n \in Node, NEW due \in Seq(Sub), Emit(n, due), feeder[n]
    PROVE  Way'
<1> DEFINE t == Made(n, due)
           k == Len(due)
<1>1. PathType /\ Placed /\ \A m \in Node : Lined(m)
  BY DEF Way
<1>2. /\ emitted' = emitted + k /\ emitted' <= MaxInd
      /\ air' = [air EXCEPT ![n] = air[n] \o t]
      /\ UNCHANGED <<buffer, dropped, conf, feeder, level, aligned, tick, handed>>
  BY DEF Emit
<1>3. /\ t \in Seq(Indication) /\ Rising(t)
      /\ Ids(t) = emitted + 1 .. emitted + k
      /\ \A i \in DOMAIN t : t[i].id \in Nat /\ t[i].id > emitted
  BY <1>1, <1>2, MadeFacts
<1> HIDE DEF t
<1>4. k \in Nat /\ emitted \in Nat /\ MaxInd \in Nat
  BY <1>1, E2Assumption, LenProperties DEF PathType
<1> HIDE DEF k
<1>5. air[n] \in Seq(Indication) /\ buffer[n] = <<>>
  BY <1>1 DEF PathType, Lined
<1>6. air[n] \o t \in Seq(Indication) /\ Ids(air[n] \o t) = Ids(air[n]) \cup Ids(t)
  <2>1. t \in Seq(Indication) /\ air[n] \in Seq(Indication)
    BY <1>3, <1>5
  <2>2. air[n] \o t \in Seq(Indication)
    BY <2>1, ConcatProperties
  <2>3. Ids(air[n] \o t) = Ids(air[n]) \cup Ids(t)
    BY <2>1, ConcatIds
  <2> QED
    BY <2>2, <2>3
<1>7. PathType'
  <2>1. air' \in [Node -> Seq(Indication)]
    BY <1>1, <1>2, <1>6 DEF PathType
  <2>2. emitted' \in 0 .. MaxInd
    BY <1>2, <1>4
  <2> QED
    BY <1>1, <1>2, <2>1, <2>2 DEF PathType
<1>8. /\ air'[n] = air[n] \o t
      /\ \A m \in Node \ {n} : air'[m] = air[m]
  BY <1>1, <1>2 DEF PathType
<1>9. \A m \in Node \ {n} : Lined(m)' /\ Held(m)' = Held(m)
  BY <1>1, <1>2, <1>8, LinedStill
<1>10. Lined(n)'
  <2>1. Line(handed[n], aligned[n], air[n], buffer[n])
    BY <1>1 DEF Lined
  <2>2. /\ Under(handed[n], t) /\ Under(aligned[n], t) /\ Under(air[n], t)
    BY <1>1, <1>3, FreshUnder
  <2>3. Line(handed[n], aligned[n], air[n] \o t, <<>>)
    BY <1>3, <1>5, <2>1, <2>2, LineSend
  <2> QED
    BY <1>1, <1>2, <1>5, <1>8, <2>3 DEF Lined
<1>11. Held(n)' = Held(n) \cup (emitted + 1 .. emitted + k)
  BY <1>2, <1>3, <1>6, <1>8 DEF Held
<1>12. Placed'
  <2>1. Held(n) \cap dropped = {} /\ dropped \subseteq 1 .. emitted
    BY <1>1 DEF Placed
  <2>2. (1 .. emitted) \cap (emitted + 1 .. emitted + k) = {}
    BY <1>4
  <2>3. Held(n)' \cap dropped' = {}
    BY <1>2, <1>11, <2>1, <2>2
  <2> QED
    BY <1>1, <1>2, <1>4, <1>9, <1>11, <2>3, PlacedMore
<1> QED
  BY <1>7, <1>9, <1>10, <1>12 DEF Way

\* With the link down it goes into the buffer, pushes out the oldest, or is lost.
LEMMA EmitDown ==
    ASSUME Way, NEW n \in Node, NEW due \in Seq(Sub), Emit(n, due), ~feeder[n]
    PROVE  Way'
<1> DEFINE k == Len(due)
           made == Made(n, due)
<1>1. PathType /\ Placed /\ \A m \in Node : Lined(m)
  BY DEF Way
<1>2. /\ emitted' = emitted + k /\ emitted' <= MaxInd
      /\ UNCHANGED <<air, conf, feeder, level, aligned, tick, handed>>
  BY DEF Emit
<1>3. PICK t \in ById(Batched(n, due)) :
         LET all == buffer[n] \o t
             over == IF Len(all) > MaxBuffer THEN Len(all) - MaxBuffer ELSE 0
         IN  /\ buffer' = [buffer EXCEPT ![n] = SubSeq(all, over + 1, Len(all))]
             /\ dropped' = dropped \cup (Ids(made) \ Ids(t))
                                   \cup Ids(SubSeq(all, 1, over))
  BY DEF Emit
<1> DEFINE all == buffer[n] \o t
           over == IF Len(all) > MaxBuffer THEN Len(all) - MaxBuffer ELSE 0
           front == SubSeq(all, 1, over)
           rest == SubSeq(all, over + 1, Len(all))
<1>4. /\ buffer' = [buffer EXCEPT ![n] = rest]
      /\ dropped' = dropped \cup (Ids(made) \ Ids(t)) \cup Ids(front)
  BY <1>3
<1>5. Ids(made) = emitted + 1 .. emitted + k
  BY <1>1, <1>2, MadeFacts
<1>6. /\ t \in Seq(Indication) /\ Rising(t) /\ Ids(t) \subseteq Ids(made)
      /\ \A i \in DOMAIN t : t[i].id \in Nat /\ t[i].id > emitted
  BY <1>1, <1>2, BatchFacts
<1>7. /\ k \in Nat /\ emitted \in Nat /\ MaxInd \in Nat /\ MaxBuffer \in Nat
  BY <1>1, E2Assumption, LenProperties DEF PathType
<1>8. buffer[n] \in Seq(Indication)
  BY <1>1 DEF PathType
<1>9. all \in Seq(Indication) /\ Ids(all) = Ids(buffer[n]) \cup Ids(t)
  BY <1>6, <1>8, ConcatProperties, ConcatIds
<1> HIDE DEF all, made, k
<1>10. Len(all) \in Nat /\ over \in 0 .. Len(all) /\ Len(all) - over <= MaxBuffer
  <2>1. Len(all) \in Nat
    BY <1>9, LenProperties
  <2> QED
    BY <1>7, <2>1
<1>11. \A x \in Indication : x.id \in Nat
  BY EntryType DEF Entry
<1> HIDE DEF over
<1>12. /\ rest \in Seq(Indication) /\ Len(rest) = Len(all) - over
       /\ Part(rest, all) /\ Ids(front) \cup Ids(rest) = Ids(all)
       /\ Rising(all) => Ids(front) \cap Ids(rest) = {}
  BY <1>9, <1>10, <1>11, SplitParts
<1> HIDE DEF front, rest
<1>13. Rising(all) /\ Line(handed[n], aligned[n], air[n], rest)
  <2>1. Line(handed[n], aligned[n], air[n], buffer[n])
    BY <1>1 DEF Lined
  <2>2. /\ Under(handed[n], t) /\ Under(aligned[n], t)
        /\ Under(air[n], t) /\ Under(buffer[n], t)
    BY <1>1, <1>6, FreshUnder
  <2>3. Part(rest, buffer[n] \o t)
    BY <1>12 DEF all
  <2>4. Rising(buffer[n] \o t) /\ Line(handed[n], aligned[n], air[n], rest)
    BY <1>6, <1>8, <2>1, <2>2, <2>3, LineBuffer
  <2> QED
    BY <2>4 DEF all
<1>14. /\ buffer'[n] = rest
       /\ \A m \in Node \ {n} : buffer'[m] = buffer[m]
  BY <1>1, <1>4 DEF PathType
<1>15. Ids(front) \cup Ids(rest) = Ids(buffer[n]) \cup Ids(t)
       /\ Ids(front) \cap Ids(rest) = {}
  BY <1>9, <1>12, <1>13
<1>16. \A m \in Node \ {n} : Lined(m)' /\ Held(m)' = Held(m)
  BY <1>1, <1>2, <1>14, LinedStill
<1>17. Lined(n)'
  BY <1>1, <1>2, <1>13, <1>14 DEF Lined
<1>18. Held(n)' = Ids(handed[n]) \cup Ids(aligned[n]) \cup Ids(air[n]) \cup Ids(rest)
  BY <1>2, <1>14 DEF Held
<1> DEFINE old == Ids(handed[n]) \cup Ids(aligned[n]) \cup Ids(air[n])
           new == emitted + 1 .. emitted + k
<1>19. /\ Held(n) = old \cup Ids(buffer[n]) /\ Held(n)' = old \cup Ids(rest)
       /\ Held(n) \cap dropped = {}
       /\ dropped' = dropped \cup (new \ Ids(t)) \cup Ids(front)
       /\ Ids(t) \subseteq new
  BY <1>1, <1>4, <1>5, <1>6, <1>18 DEF Held, Placed
<1>20. Held(n) \cap new = {} /\ dropped \cap new = {}
  <2>1. Held(n) \subseteq 1 .. emitted /\ dropped \subseteq 1 .. emitted
    BY <1>1 DEF Placed
  <2>2. (1 .. emitted) \cap new = {}
    BY <1>7
  <2> HIDE DEF new
  <2> QED
    BY <2>1, <2>2
<1>21. old \cap Ids(buffer[n]) = {}
  <2>1. /\ Under(handed[n], buffer[n]) /\ Under(aligned[n], buffer[n])
        /\ Under(air[n], buffer[n])
    BY <1>1 DEF Lined, Line
  <2>2. \A i \in DOMAIN buffer[n] : buffer[n][i].id \in Nat
    BY <1>8, <1>11, ElementOfSeq, LenProperties
  <2>3. ASSUME NEW s, Under(s, buffer[n]) PROVE Ids(s) \cap Ids(buffer[n]) = {}
    <3> SUFFICES ASSUME NEW i \in DOMAIN s, NEW j \in DOMAIN buffer[n],
                        s[i].id = buffer[n][j].id
                 PROVE  FALSE
      BY DEF Ids
    <3>1. s[i].id < buffer[n][j].id
      BY <2>3 DEF Under
    <3> QED
      BY <2>2, <3>1
  <2> QED
    BY <2>1, <2>3
<1> HIDE DEF old, new
<1>22. /\ dropped' \cup Held(n)' = dropped \cup Held(n) \cup new
       /\ Held(n)' \subseteq Held(n) \cup new
  BY <1>15, <1>19
<1>23. Held(n)' \cap dropped' = {}
  BY <1>15, <1>19, <1>20, <1>21
<1>24. Placed'
  BY <1>1, <1>2, <1>7, <1>16, <1>19, <1>22, <1>23, PlacedMore DEF new
<1>25. PathType'
  <2>1. buffer' \in [Node -> Seq(Indication)]
    BY <1>1, <1>4, <1>12 DEF PathType
  <2>2. \A m \in Node : Len(buffer'[m]) <= MaxBuffer
    BY <1>1, <1>10, <1>12, <1>14 DEF PathType
  <2>3. emitted' \in 0 .. MaxInd
    BY <1>2, <1>7
  <2>4. dropped' \subseteq 1 .. MaxInd
    <3>1. dropped' \subseteq 1 .. emitted'
      BY <1>24 DEF Placed
    <3>2. 1 .. emitted' \subseteq 1 .. MaxInd
      BY <1>7, <2>3
    <3> QED
      BY <3>1, <3>2
  <2> QED
    BY <1>1, <1>2, <2>1, <2>2, <2>3, <2>4 DEF PathType
<1> QED
  BY <1>16, <1>17, <1>24, <1>25 DEF Way

\* A report is made only for a subscription the node has.
LEMMA EmitKeeps ==
    ASSUME Booked, Way, NEW n \in Node,
           \/ \E u \in Ue, weak \in BOOLEAN : SubmitKpmMeasurement(n, u, weak)
           \/ \E id \in timers[n] : PeriodicReportTimer(n, id)
    PROVE  Way' /\ Booked'
<1>1. DeskType /\ IsFiniteSet(Ue)
  BY E2Assumption DEF Booked
<1>2. subs[n] \in SUBSET Sub /\ latest[n] \in SUBSET Ue
  BY <1>1 DEF DeskType
<1>3. ASSUME NEW due \in Seq(Sub), Emit(n, due) PROVE Way'
  BY <1>3, EmitUp, EmitDown
<1>4. ASSUME NEW due, Emit(n, due), timers' = timers,
             latest' \in [Node -> SUBSET Ue]
      PROVE  Booked'
  <2>1. UNCHANGED <<ric, wired, conf, subs, left>>
    BY <1>4 DEF Emit
  <2>2. DeskType'
    BY <1>1, <1>4, <2>1 DEF DeskType
  <2> QED
    BY <1>4, <2>1, <2>2, BookedAlong
<1>5. ASSUME NEW u \in Ue, NEW weak \in BOOLEAN, SubmitKpmMeasurement(n, u, weak)
      PROVE  Way' /\ Booked'
  <2> DEFINE due == {s \in subs[n] : Required[s.xapp].event => weak}
  <2>1. PICK t \in ById(due) : Emit(n, t)
    BY <1>5 DEF SubmitKpmMeasurement
  <2>2. due \in SUBSET Sub
    BY <1>2
  <2>3. /\ timers' = timers
        /\ latest' = [latest EXCEPT ![n] = latest[n] \cup {u}]
    BY <1>5 DEF SubmitKpmMeasurement
  <2> HIDE DEF due
  <2>4. IsFiniteSet(due)
    BY <2>2, SubFinite, FS_Subset
  <2>5. t \in Seq(due)
    BY <2>4, WalkType
  <2>6. t \in Seq(Sub)
    BY <2>2, <2>5, SeqMonotonic
  <2>7. latest' \in [Node -> SUBSET Ue]
    BY <1>1, <2>3 DEF DeskType
  <2> QED
    BY <1>3, <1>4, <2>1, <2>3, <2>6, <2>7
<1>6. ASSUME NEW id \in timers[n], PeriodicReportTimer(n, id)
      PROVE  Way' /\ Booked'
  <2> DEFINE due == {s \in subs[n] : s.id = id}
             count == IF n \in conf.periodic THEN Cardinality(latest[n]) ELSE 0
             t == IF due = {} THEN <<>>
                  ELSE [i \in 1 .. count |-> CHOOSE s \in due : TRUE]
  <2>1. /\ timers' = [timers EXCEPT ![n] = (timers[n] \ {id}) \cup {s.id : s \in due}]
        /\ Emit(n, t) /\ latest' = latest
    BY <1>6 DEF PeriodicReportTimer
  <2>2. count \in Nat
    <3>1. IsFiniteSet(latest[n])
      BY <1>1, <1>2, FS_Subset
    <3> QED
      BY <3>1, FS_CardinalityType
  <2> HIDE DEF count
  <2>3. t \in Seq(Sub)
    <3>1. CASE due = {}
      BY <3>1
    <3>2. CASE due # {}
      <4>1. (CHOOSE s \in due : TRUE) \in due
        BY <3>2
      <4>2. due \subseteq Sub
        BY <1>2
      <4> QED
        BY <2>2, <3>2, <4>1, <4>2
    <3> QED
      BY <3>1, <3>2
  <2>4. timers' = timers
    <3>1. timers[n] = {s.id : s \in {q \in subs[n] : ~Required[q.xapp].event}}
      BY BehindParts DEF Booked, Timed
    <3>2. PICK s \in subs[n] : s.id = id
      BY <3>1
    <3>3. {q.id : q \in due} = {id}
      BY <3>2
    <3>4. (timers[n] \ {id}) \cup {id} = timers[n]
      OBVIOUS
    <3> QED
      BY <1>1, <2>1, <3>3, <3>4 DEF DeskType
  <2> HIDE DEF t
  <2> QED
    BY <1>1, <1>3, <1>4, <2>1, <2>3, <2>4 DEF DeskType
<1> QED
  BY <1>5, <1>6

\* When the link comes back the buffer goes into the air, before anything new.
LEMMA FeederKeeps ==
    ASSUME Booked, Way, NEW n \in Node, NEW b \in BOOLEAN,
           SetFeederLinkAvailable(n, b)
    PROVE  Way' /\ Booked'
<1> DEFINE flushed == [i \in DOMAIN buffer[n] |->
                          [buffer[n][i] EXCEPT !.level = level[n]]]
           up == b /\ ~feeder[n]
<1>1. PathType /\ Placed /\ \A m \in Node : Lined(m)
  BY DEF Way
<1>2. /\ feeder' = [feeder EXCEPT ![n] = b]
      /\ air' = [air EXCEPT ![n] = IF up THEN air[n] \o flushed ELSE air[n]]
      /\ buffer' = [buffer EXCEPT ![n] = IF up THEN <<>> ELSE buffer[n]]
      /\ UNCHANGED <<ric, wired, conf, subs, timers, latest, level, aligned, tick,
                     emitted, dropped, handed, left>>
  BY DEF SetFeederLinkAvailable, desk, history
<1>3. /\ buffer[n] \in Seq(Indication) /\ air[n] \in Seq(Indication)
      /\ level[n] \in 0 .. MaxLevel
  BY <1>1 DEF PathType
<1>4. /\ flushed \in Seq(Indication) /\ DOMAIN flushed = DOMAIN buffer[n]
      /\ \A i \in DOMAIN flushed : flushed[i].id = buffer[n][i].id
  <2>1. DOMAIN buffer[n] = 1 .. Len(buffer[n]) /\ Len(buffer[n]) \in Nat
    BY <1>3, LenProperties
  <2>2. ASSUME NEW i \in 1 .. Len(buffer[n])
        PROVE  /\ flushed[i] \in Indication
               /\ flushed[i].id = buffer[n][i].id
    <3>1. buffer[n][i] \in Indication
      BY <1>3, <2>2, ElementOfSeq
    <3>2. flushed[i] = [buffer[n][i] EXCEPT !.level = level[n]]
      BY <2>1
    <3> QED
      BY <1>3, <3>1, <3>2 DEF Indication
  <2>3. DOMAIN flushed = DOMAIN buffer[n]
        /\ flushed = [i \in DOMAIN buffer[n] |-> flushed[i]]
    BY Zenon
  <2> HIDE DEF flushed
  <2>4. flushed \in [1 .. Len(buffer[n]) -> Indication]
    BY <2>1, <2>2, <2>3
  <2>5. flushed \in Seq(Indication)
    BY <2>1, <2>4
  <2> QED
    BY <2>1, <2>2, <2>3, <2>5
<1> HIDE DEF flushed, up
<1>5. Booked'
  <2>1. DeskType'
    BY <1>2 DEF Booked, DeskType
  <2> QED
    BY <1>2, <2>1, BookedAlong
<1>6. /\ feeder'[n] = b
      /\ air'[n] = (IF up THEN air[n] \o flushed ELSE air[n])
      /\ buffer'[n] = (IF up THEN <<>> ELSE buffer[n])
      /\ \A m \in Node \ {n} : /\ feeder'[m] = feeder[m] /\ air'[m] = air[m]
                               /\ buffer'[m] = buffer[m]
  BY <1>1, <1>2 DEF PathType
<1>7. /\ air[n] \o flushed \in Seq(Indication)
      /\ Ids(air[n] \o flushed) = Ids(air[n]) \cup Ids(flushed)
  <2>1. flushed \in Seq(Indication) /\ air[n] \in Seq(Indication)
    BY <1>3, <1>4
  <2>2. air[n] \o flushed \in Seq(Indication)
    BY <2>1, ConcatProperties
  <2>3. Ids(air[n] \o flushed) = Ids(air[n]) \cup Ids(flushed)
    BY <2>1, ConcatIds
  <2> QED
    BY <2>2, <2>3
<1>8. Ids(flushed) = Ids(buffer[n])
  BY <1>4 DEF Ids
<1>9. PathType'
  <2>1. air' \in [Node -> Seq(Indication)]
    BY <1>1, <1>2, <1>3, <1>7 DEF PathType
  <2>2. <<>> \in Seq(Indication) /\ Len(<<>>) = 0
    OBVIOUS
  <2>3. buffer' \in [Node -> Seq(Indication)]
    BY <1>1, <1>2, <1>3, <2>2 DEF PathType
  <2>4. ASSUME NEW m \in Node PROVE Len(buffer'[m]) <= MaxBuffer
    <3>1. Len(buffer[m]) <= MaxBuffer /\ 0 <= MaxBuffer
      BY <1>1, E2Assumption DEF PathType
    <3>2. buffer'[m] = buffer[m] \/ buffer'[m] = <<>>
      BY <1>6
    <3> QED
      BY <2>2, <3>1, <3>2
  <2>5. feeder' \in [Node -> BOOLEAN]
    BY <1>1, <1>2 DEF PathType
  <2> QED
    BY <1>1, <1>2, <2>1, <2>3, <2>4, <2>5 DEF PathType
<1>10. \A m \in Node \ {n} : Lined(m)' /\ Held(m)' = Held(m)
  BY <1>1, <1>2, <1>6, LinedStill
<1>11. Held(n)' = Held(n)
  <2>1. Ids(<<>>) = {}
    BY EmptyOrder
  <2> QED
    BY <1>2, <1>6, <1>7, <1>8, <2>1 DEF Held
<1>12. Lined(n)'
  <2>1. Line(handed[n], aligned[n], air[n], buffer[n])
    BY <1>1 DEF Lined
  <2>2. CASE up
    <3>1. /\ Rising(flushed) /\ Under(handed[n], flushed)
          /\ Under(aligned[n], flushed) /\ Under(air[n], flushed)
      BY <1>4, <2>1 DEF Line, Rising, Under
    <3>2. Line(handed[n], aligned[n], air[n] \o flushed, <<>>)
      BY <1>3, <1>4, <2>1, <3>1, LineSend
    <3> QED
      BY <1>1, <1>2, <1>6, <2>2, <3>2 DEF Lined
  <2>3. CASE ~up
    <3>1. b => feeder[n]
      BY <2>3 DEF up
    <3> QED
      BY <1>1, <1>2, <1>6, <2>3, <3>1 DEF Lined
  <2> QED
    BY <2>2, <2>3
<1>13. Placed'
  BY <1>1, <1>2, <1>10, <1>11, PlacedMoved
<1> QED
  BY <1>5, <1>9, <1>10, <1>12, <1>13 DEF Way

\* A shorter delay moves nothing.
LEMMA DelayKeeps ==
    ASSUME Booked, Way, NEW n \in Node, SetFeederLinkDelay(n)
    PROVE  Way' /\ Booked'
<1>1. PathType /\ Placed /\ \A m \in Node : Lined(m)
  BY DEF Way
<1>2. /\ level[n] < MaxLevel
      /\ level' = [level EXCEPT ![n] = level[n] + 1]
      /\ UNCHANGED <<ric, wired, conf, subs, timers, latest, feeder, buffer, air,
                     aligned, tick, emitted, dropped, handed, left>>
  BY DEF SetFeederLinkDelay, desk, history
<1>3. PathType'
  <2>1. level[n] + 1 \in 0 .. MaxLevel
    BY <1>1, <1>2, E2Assumption DEF PathType
  <2>2. level' \in [Node -> 0 .. MaxLevel]
    BY <1>1, <1>2, <2>1 DEF PathType
  <2> QED
    BY <1>1, <1>2, <2>2 DEF PathType
<1>4. \A m \in Node : Lined(m)' /\ Held(m)' = Held(m)
  BY <1>1, <1>2, LinedStill
<1>5. Placed'
  BY <1>1, <1>2, <1>4, PlacedMoved
<1>6. DeskType'
  BY <1>2 DEF Booked, DeskType
<1> QED
  BY <1>2, <1>3, <1>4, <1>5, <1>6, BookedAlong DEF Way

\* What is handed over of a sequence of reports.
Notes(inds) == [i \in DOMAIN inds |-> [id |-> inds[i].id, level |-> inds[i].level]]

\* It has their ids and levels.
LEMMA NotesType ==
    ASSUME NEW s \in Seq(Indication)
    PROVE  Notes(s) \in Seq(Handed) /\ Alike(s, Notes(s))
<1>1. DOMAIN s = 1 .. Len(s) /\ Len(s) \in Nat
  BY LenProperties
<1>2. ASSUME NEW i \in 1 .. Len(s)
      PROVE  /\ Notes(s)[i] = [id |-> s[i].id, level |-> s[i].level]
             /\ Notes(s)[i] \in Handed
  <2>1. s[i] \in Indication
    BY <1>2, ElementOfSeq
  <2> QED
    BY <1>1, <2>1 DEF Notes, Indication, Handed
<1>3. DOMAIN Notes(s) = 1 .. Len(s) /\ Notes(s) \in [1 .. Len(s) -> Handed]
  BY <1>1, <1>2 DEF Notes
<1>4. Notes(s) \in Seq(Handed)
  BY <1>1, <1>3
<1>5. Alike(s, Notes(s))
  BY <1>1, <1>2, <1>3 DEF Alike
<1> QED
  BY <1>4, <1>5

\* Handing over keeps the types and the ids of a node.
LEMMA HandFacts ==
    ASSUME PathType, NEW n \in Node, NEW s \in Seq(Indication), Dispatch(n, s)
    PROVE  /\ handed' = [handed EXCEPT ![n] = handed[n] \o Notes(s)]
           /\ handed' \in [Node -> Seq(Handed)]
           /\ handed'[n] = handed[n] \o Notes(s)
           /\ \A m \in Node \ {n} : handed'[m] = handed[m]
           /\ Ids(handed'[n]) = Ids(handed[n]) \cup Ids(s)
<1>1. handed' = [handed EXCEPT ![n] = handed[n] \o Notes(s)]
  BY DEF Dispatch, Notes
<1>2. handed[n] \in Seq(Handed) /\ Notes(s) \in Seq(Handed) /\ Alike(s, Notes(s))
  BY NotesType DEF PathType
<1>3. handed[n] \o Notes(s) \in Seq(Handed)
  BY <1>2, ConcatProperties
<1>4. Ids(handed[n] \o Notes(s)) = Ids(handed[n]) \cup Ids(Notes(s))
  BY <1>2, ConcatIds
<1>5. Ids(Notes(s)) = Ids(s)
  BY <1>2, AlikeOrder
<1>6. /\ handed' \in [Node -> Seq(Handed)]
      /\ handed'[n] = handed[n] \o Notes(s)
      /\ \A m \in Node \ {n} : handed'[m] = handed[m]
  BY <1>1, <1>3 DEF PathType
<1> QED
  BY <1>1, <1>4, <1>5, <1>6

\* A tick hands over all that waits.
LEMMA TickKeeps ==
    ASSUME Booked, Way, NEW n \in Node, DispatchAlignedIndications(n)
    PROVE  Way' /\ Booked'
<1>1. PathType /\ Placed /\ \A m \in Node : Lined(m)
  BY DEF Way
<1>2. /\ Dispatch(n, aligned[n])
      /\ aligned' = [aligned EXCEPT ![n] = <<>>]
      /\ tick' = [tick EXCEPT ![n] = FALSE]
      /\ UNCHANGED <<ric, wired, conf, subs, timers, latest, feeder, level, buffer,
                     air, emitted, dropped, left>>
  BY DEF DispatchAlignedIndications, desk
<1>3. aligned[n] \in Seq(Indication) /\ handed[n] \in Seq(Handed)
  BY <1>1 DEF PathType
<1>4. /\ handed' \in [Node -> Seq(Handed)]
      /\ handed'[n] = handed[n] \o Notes(aligned[n])
      /\ \A m \in Node \ {n} : handed'[m] = handed[m]
      /\ Ids(handed'[n]) = Ids(handed[n]) \cup Ids(aligned[n])
  BY <1>1, <1>2, <1>3, HandFacts
<1>5. /\ aligned'[n] = <<>> /\ \A m \in Node \ {n} : aligned'[m] = aligned[m]
  BY <1>1, <1>2 DEF PathType
<1>6. PathType'
  <2>1. <<>> \in Seq(Indication)
    OBVIOUS
  <2>2. aligned' \in [Node -> Seq(Indication)] /\ tick' \in [Node -> BOOLEAN]
    BY <1>1, <1>2, <2>1 DEF PathType
  <2> QED
    BY <1>1, <1>2, <1>4, <2>2 DEF PathType
<1>7. \A m \in Node \ {n} : Lined(m)' /\ Held(m)' = Held(m)
  BY <1>1, <1>2, <1>4, <1>5, LinedStill
<1>8. Held(n)' = Held(n)
  BY <1>2, <1>4, <1>5, EmptyOrder DEF Held
<1>9. Lined(n)'
  <2>1. Line(handed[n], aligned[n], air[n], buffer[n])
    BY <1>1 DEF Lined
  <2>2. Notes(aligned[n]) \in Seq(Handed) /\ Alike(aligned[n], Notes(aligned[n]))
    BY <1>3, NotesType
  <2>3. Line(handed[n] \o Notes(aligned[n]), <<>>, air[n], buffer[n])
    BY <1>3, <2>1, <2>2, LineHand
  <2> QED
    BY <1>1, <1>2, <1>4, <1>5, <2>3 DEF Lined
<1>10. Placed'
  BY <1>1, <1>2, <1>7, <1>8, PlacedMoved
<1>11. DeskType'
  BY <1>2 DEF Booked, DeskType
<1> QED
  BY <1>2, <1>6, <1>7, <1>9, <1>10, <1>11, BookedAlong DEF Way

\* A report that arrives waits for the tick, or is handed over.
LEMMA ArrivalKeeps ==
    ASSUME Booked, Way, NEW n \in Node, NEW k \in DOMAIN air[n],
           DeliverReport(n, k)
    PROVE  Way' /\ Booked'
<1> DEFINE x == <<air[n][k]>>
           t == RemoveAt(air[n], k)
<1>1. PathType /\ Placed /\ \A m \in Node : Lined(m)
  BY DEF Way
<1>2. /\ \A j \in 1 .. k - 1 : air[n][j].level < air[n][k].level
      /\ air' = [air EXCEPT ![n] = t]
      /\ UNCHANGED <<ric, wired, conf, subs, timers, latest, feeder, level, buffer,
                     emitted, dropped, left>>
  BY DEF DeliverReport, desk
<1>3. /\ n \in conf.align => /\ aligned' = [aligned EXCEPT ![n] = Append(aligned[n], air[n][k])]
                             /\ tick' = [tick EXCEPT ![n] = TRUE]
                             /\ handed' = handed
      /\ n \notin conf.align => Dispatch(n, x) /\ UNCHANGED <<aligned, tick>>
  BY DEF DeliverReport
<1>4. /\ air[n] \in Seq(Indication) /\ aligned[n] \in Seq(Indication)
      /\ handed[n] \in Seq(Handed)
      /\ DOMAIN air[n] = 1 .. Len(air[n]) /\ k \in 1 .. Len(air[n])
  <2>1. air[n] \in Seq(Indication)
    BY <1>1 DEF PathType
  <2> QED
    BY <1>1, <2>1, LenProperties DEF PathType
<1>5. /\ air[n][k] \in Indication
      /\ x \in Seq(Indication) /\ Ids(x) = {air[n][k].id}
  <2>1. air[n][k] \in Indication
    BY <1>4, ElementOfSeq
  <2>2. x \in Seq(Indication) /\ DOMAIN x = {1} /\ x[1] = air[n][k]
    BY <2>1
  <2>3. Ids(x) = {air[n][k].id}
    BY <2>2 DEF Ids
  <2> QED
    BY <2>1, <2>2, <2>3
<1>6. /\ t \in Seq(Indication)
      /\ \A i \in DOMAIN t : \E j \in DOMAIN air[n] \ {k} : t[i] = air[n][j]
      /\ \A j \in DOMAIN air[n] \ {k} : \E i \in DOMAIN t : t[i] = air[n][j]
  <2> DEFINE s == air[n]
  <2>1. s \in Seq(Indication) /\ k \in 1 .. Len(s)
    BY <1>4
  <2> HIDE DEF s
  <2>2. /\ RemoveAt(s, k) \in Seq(Indication)
        /\ \A i \in DOMAIN RemoveAt(s, k) : \E j \in DOMAIN s \ {k} : RemoveAt(s, k)[i] = s[j]
        /\ \A j \in DOMAIN s \ {k} : \E i \in DOMAIN RemoveAt(s, k) : RemoveAt(s, k)[i] = s[j]
    BY <2>1, RemoveParts
  <2> QED
    BY <2>2 DEF s
<1>7. Append(aligned[n], air[n][k]) = aligned[n] \o x
  BY <1>4, <1>5, AppendIsConcat
<1>8. Line(handed[n], aligned[n] \o x, t, buffer[n])
  <2>1. Line(handed[n], aligned[n], air[n], buffer[n])
    BY <1>1 DEF Lined
  <2> QED
    BY <1>2, <1>4, <2>1, LineArrive
<1> HIDE DEF x, t
<1>9. Ids(t) \cup Ids(x) = Ids(air[n])
  <2>1. Ids(t) \subseteq Ids(air[n]) /\ Ids(x) \subseteq Ids(air[n])
    <3>1. Ids(t) \subseteq Ids(air[n])
      BY <1>6 DEF Ids
    <3>2. air[n][k].id \in Ids(air[n])
      BY DEF Ids
    <3> QED
      BY <1>5, <3>1, <3>2
  <2>2. ASSUME NEW j \in DOMAIN air[n] PROVE air[n][j].id \in Ids(t) \cup Ids(x)
    <3>1. CASE j = k
      BY <1>5, <3>1
    <3>2. CASE j # k
      <4>1. PICK i \in DOMAIN t : t[i] = air[n][j]
        BY <1>6, <3>2
      <4> QED
        BY <4>1 DEF Ids
    <3> QED
      BY <3>1, <3>2
  <2> QED
    BY <2>1, <2>2 DEF Ids
<1>10. /\ aligned[n] \o x \in Seq(Indication)
       /\ Ids(aligned[n] \o x) = Ids(aligned[n]) \cup Ids(x)
  <2>1. aligned[n] \o x \in Seq(Indication)
    BY <1>4, <1>5, ConcatProperties
  <2>2. Ids(aligned[n] \o x) = Ids(aligned[n]) \cup Ids(x)
    BY <1>4, <1>5, ConcatIds
  <2> QED
    BY <2>1, <2>2
<1>11. /\ air' \in [Node -> Seq(Indication)] /\ air'[n] = t
       /\ \A m \in Node \ {n} : air'[m] = air[m]
  BY <1>1, <1>2, <1>6 DEF PathType
<1>12. ASSUME n \in conf.align
       PROVE  /\ aligned' \in [Node -> Seq(Indication)]
              /\ aligned'[n] = aligned[n] \o x
              /\ \A m \in Node \ {n} : aligned'[m] = aligned[m]
              /\ tick' \in [Node -> BOOLEAN] /\ handed' = handed
  <2>1. aligned' = [aligned EXCEPT ![n] = aligned[n] \o x]
    BY <1>3, <1>7, <1>12
  <2> QED
    BY <1>1, <1>3, <1>10, <1>12, <2>1 DEF PathType
<1>13. ASSUME n \notin conf.align
       PROVE  /\ handed' \in [Node -> Seq(Handed)]
              /\ handed'[n] = handed[n] \o Notes(x)
              /\ \A m \in Node \ {n} : handed'[m] = handed[m]
              /\ Ids(handed'[n]) = Ids(handed[n]) \cup Ids(x)
              /\ UNCHANGED <<aligned, tick>>
  BY <1>1, <1>3, <1>5, <1>13, HandFacts
<1>14. PathType'
  BY <1>1, <1>2, <1>11, <1>12, <1>13 DEF PathType
<1>15. ASSUME NEW m \in Node \ {n} PROVE Lined(m)' /\ Held(m)' = Held(m)
  <2>1. handed'[m] = handed[m] /\ aligned'[m] = aligned[m]
    BY <1>12, <1>13
  <2> QED
    BY <1>1, <1>2, <1>11, <2>1, LinedStill
<1>16. Held(n)' = Held(n)
  BY <1>2, <1>9, <1>10, <1>11, <1>12, <1>13 DEF Held
<1>17. Lined(n)'
  <2>1. CASE n \in conf.align
    BY <1>1, <1>2, <1>8, <1>11, <1>12, <2>1 DEF Lined
  <2>2. CASE n \notin conf.align
    <3>1. aligned[n] = <<>>
      BY <1>1, <2>2 DEF Lined
    <3>2. aligned[n] \o x = x
      BY <1>5, <3>1, ConcatEmptySeq
    <3>3. Line(handed[n], x, t, buffer[n])
      BY <1>8, <3>2
    <3>4. Notes(x) \in Seq(Handed) /\ Alike(x, Notes(x))
      BY <1>5, NotesType
    <3>5. Line(handed[n] \o Notes(x), <<>>, t, buffer[n])
      BY <1>4, <3>3, <3>4, LineHand
    <3> QED
      BY <1>1, <1>2, <1>11, <1>13, <2>2, <3>1, <3>5 DEF Lined
  <2> QED
    BY <2>1, <2>2
<1>18. Placed'
  BY <1>1, <1>2, <1>15, <1>16, PlacedMoved
<1>19. DeskType'
  BY <1>2 DEF Booked, DeskType
<1> QED
  BY <1>2, <1>14, <1>15, <1>17, <1>18, <1>19, BookedAlong DEF Way

-----------------------------------------------------------------------------
(* The theorems.                                                           *)

E2Inv == Booked /\ Way

\* Initially nothing is subscribed and nothing under way.
LEMMA InitE2Inv == Init => E2Inv
<1> SUFFICES ASSUME Init PROVE E2Inv
  OBVIOUS
<1>1. RicType
  BY E2Assumption DEF Init, RicType, States
<1>2. DeskType
  BY DEF Init, DeskType
<1>3. PathType
  <2>1. <<>> \in Seq(Indication) /\ <<>> \in Seq(Handed) /\ Len(<<>>) = 0
    OBVIOUS
  <2> QED
    BY <2>1, E2Assumption DEF Init, PathType
<1>4. RoutesKnown /\ NothingLeftBehind
  BY DEF Init, RoutesKnown, NothingLeftBehind
<1>5. ASSUME NEW n \in Node PROVE Lined(n) /\ Held(n) = {}
  <2>1. /\ handed[n] = <<>> /\ aligned[n] = <<>> /\ air[n] = <<>>
        /\ buffer[n] = <<>>
    BY DEF Init
  <2> QED
    BY <2>1, EmptyOrder DEF Lined, Line, Held
<1>6. Placed
  <2>1. emitted = 0 /\ dropped = {} /\ 1 .. 0 = {}
    BY DEF Init
  <2> QED
    BY <1>5, <2>1 DEF Placed
<1> QED
  BY <1>1, <1>2, <1>3, <1>4, <1>5, <1>6 DEF E2Inv, Booked, Way

\* Every step keeps the books and the way.
LEMMA NextE2Inv == E2Inv /\ [Next]_vars => E2Inv'
<1> SUFFICES ASSUME E2Inv, [Next]_vars PROVE E2Inv'
  OBVIOUS
<1>1. Booked /\ Way
  BY DEF E2Inv
<1>2. ASSUME UNCHANGED <<feeder, level, buffer, air, aligned, tick, emitted,
                         dropped, handed, conf>>
      PROVE  Way'
  <2>1. PathType /\ Placed /\ \A m \in Node : Lined(m)
    BY <1>1 DEF Way
  <2>2. \A m \in Node : Lined(m)' /\ Held(m)' = Held(m)
    BY <1>2, <2>1, LinedStill
  <2>3. Placed'
    BY <1>2, <2>1, <2>2, PlacedMoved
  <2> QED
    BY <1>2, <2>1, <2>2, <2>3 DEF Way, PathType
<1>3. CASE \E x \in Xapp : Start(x) \/ Stop(x) \/ Suspend(x) \/ Resume(x)
  <2>1. PICK x \in Xapp : Start(x) \/ Stop(x) \/ Suspend(x) \/ Resume(x)
    BY <1>3
  <2>2. Booked'
    BY <1>1, <2>1, StartKeeps, StopKeeps, PauseKeeps
  <2>3. UNCHANGED <<path, history, conf>>
    BY <2>1 DEF Start, Stop, Suspend, Resume, desk
  <2> QED
    BY <1>2, <2>2, <2>3 DEF E2Inv, path, history
<1>4. CASE \E n \in Node : RegisterE2Node(n) \/ DeregisterE2Node(n)
  <2>1. PICK n \in Node : RegisterE2Node(n) \/ DeregisterE2Node(n)
    BY <1>4
  <2>2. Booked'
    BY <1>1, <2>1, MembershipKeeps
  <2>3. UNCHANGED <<path, history, conf>>
    BY <2>1 DEF RegisterE2Node, DeregisterE2Node, desk
  <2> QED
    BY <1>2, <2>2, <2>3 DEF E2Inv, path, history
<1>5. CASE \E n \in Node :
             \/ \E u \in Ue, weak \in BOOLEAN : SubmitKpmMeasurement(n, u, weak)
             \/ \E id \in timers[n] : PeriodicReportTimer(n, id)
  BY <1>1, <1>5, EmitKeeps DEF E2Inv
<1>6. CASE \E n \in Node : \/ \E b \in BOOLEAN : SetFeederLinkAvailable(n, b)
                           \/ SetFeederLinkDelay(n)
  BY <1>1, <1>6, FeederKeeps, DelayKeeps DEF E2Inv
<1>7. CASE \E n \in Node : Progress(n)
  BY <1>1, <1>7, ArrivalKeeps, TickKeeps DEF E2Inv, Progress
<1>8. CASE UNCHANGED vars
  <2>1. UNCHANGED <<registered, routes, nextSub, xstate, xsubs, cycles, wired,
                    conf, subs, timers, latest, left>>
    BY <1>8 DEF vars, ric, desk
  <2>2. Booked'
    BY <1>1, <2>1 DEF Booked, RicType, DeskType, RoutesKnown, NothingLeftBehind
  <2> QED
    BY <1>2, <1>8, <2>1, <2>2 DEF vars, E2Inv, path, history
<1> QED
  BY <1>3, <1>4, <1>5, <1>6, <1>7, <1>8 DEF Next

\* The books and the way are right in every behaviour.
LEMMA E2InvHolds == Spec => []E2Inv
BY InitE2Inv, NextE2Inv, PTL DEF Spec

\* The values are of their types, there is one route for a subscription, and a
\* buffer never exceeds its limit.
THEOREM E2TypeCorrect == Spec => []E2TypeOK
<1>1. E2Inv => E2TypeOK
  BY TypeParts DEF E2Inv, Booked, Way
<1> QED
  BY <1>1, E2InvHolds, PTL

\* Routes, subscriptions, report timers and decision events are there exactly as
\* long as an xApp needs them.
THEOREM NothingStays == Spec => []NothingLeftBehind
<1>1. E2Inv => NothingLeftBehind
  BY DEF E2Inv, Booked
<1> QED
  BY <1>1, E2InvHolds, PTL

\* A report is handed over only to an xApp that holds its subscription then.
THEOREM HeardByItsOwner == Spec => OnlyOwn
<1>1. E2Inv => \A n \in Node : OwnHeard(n)
  <2> SUFFICES ASSUME E2Inv, NEW n \in Node, NEW ind, NEW x \in Receivers(n, ind)
               PROVE  /\ xstate[x] \in {"RUNNING", "SUSPENDED"}
                      /\ ind.sub \in xsubs[x]
    BY DEF OwnHeard
  <2>1. PICK r \in routes : r.id = ind.sub /\ x = r.xapp
    BY DEF Receivers
  <2>2. x \in Xapp
    BY <2>1 DEF E2Inv, Booked, RicType, Route
  <2>3. HoldsRoutes(x) /\ Alive(x)
    BY <2>2, BehindParts DEF E2Inv, Booked
  <2>4. ind.sub \in xsubs[x]
    BY <2>1, <2>3 DEF HoldsRoutes
  <2> QED
    BY <2>3, <2>4 DEF Alive
<1>2. E2Inv /\ [Next]_vars => [\A n \in Node : OwnHeard(n)]_vars
  BY <1>1
<1> QED
  BY <1>2, E2InvHolds, PTL DEF Spec, OnlyOwn

\* The path of a node is in order and holds what the node holds.
LEMMA PathIs ==
    ASSUME Way, NEW n \in Node
    PROVE  Sorted(Path(n)) /\ Ids(Path(n)) = Held(n)
<1> DEFINE h == handed[n]
           g == aligned[n]
           a == air[n]
           b == buffer[n]
<1>1. Line(h, g, a, b)
  BY DEF Way, Lined
<1>2. /\ h \in Seq(Entry) /\ g \in Seq(Entry)
      /\ a \in Seq(Entry) /\ b \in Seq(Entry)
  <2>1. /\ h \in Seq(Handed) /\ g \in Seq(Indication)
        /\ a \in Seq(Indication) /\ b \in Seq(Indication)
    BY DEF Way, PathType
  <2>2. Handed \subseteq Entry /\ Indication \subseteq Entry
    BY DEF Entry
  <2> QED
    BY <2>1, <2>2, SeqMonotonic
<1>3. Path(n) = ((h \o g) \o a) \o b
  BY DEF Path
<1>4. Held(n) = Ids(h) \cup Ids(g) \cup Ids(a) \cup Ids(b)
  BY DEF Held
<1>5. Sorted(b) /\ Before(h, b) /\ Before(g, b) /\ Before(a, b)
  BY <1>1, RisingSorted DEF Line
<1> HIDE DEF h, g, a, b
<1> DEFINE p == h \o g
           q == p \o a
<1>6. /\ p \in Seq(Entry) /\ Sorted(p) /\ Before(p, a) /\ Before(p, b)
      /\ Ids(p) = Ids(h) \cup Ids(g)
  <2>1. p \in Seq(Entry) /\ Ids(p) = Ids(h) \cup Ids(g)
    BY <1>2, ConcatProperties, ConcatIds
  <2>2. Sorted(p)
    BY <1>1, <1>2, ConcatOrder DEF Line
  <2>3. Before(p, a) /\ Before(p, b)
    BY <1>1, <1>2, <1>5, ConcatPair DEF Line
  <2> QED
    BY <2>1, <2>2, <2>3
<1> HIDE DEF p
<1>7. /\ q \in Seq(Entry) /\ Sorted(q) /\ Before(q, b)
      /\ Ids(q) = Ids(p) \cup Ids(a)
  <2>1. q \in Seq(Entry) /\ Ids(q) = Ids(p) \cup Ids(a)
    BY <1>2, <1>6, ConcatProperties, ConcatIds
  <2>2. Sorted(q)
    BY <1>1, <1>2, <1>6, ConcatOrder DEF Line
  <2>3. Before(q, b)
    BY <1>2, <1>5, <1>6, ConcatPair
  <2> QED
    BY <2>1, <2>2, <2>3
<1> HIDE DEF q
<1>8. Sorted(q \o b) /\ Ids(q \o b) = Ids(q) \cup Ids(b)
  BY <1>2, <1>5, <1>7, ConcatOrder, ConcatIds
<1> QED
  BY <1>3, <1>4, <1>6, <1>7, <1>8 DEF p, q

\* The reports of a node are in the order they were made in, from the buffer to
\* the xApps, but for those that overtook on a shorter delay.
THEOREM ReportsInOrder == Spec => []InOrder
<1>1. E2Inv => InOrder
  <2> SUFFICES ASSUME E2Inv, NEW n \in Node PROVE Sorted(Path(n))
    BY DEF InOrder, Sorted, Follows
  <2> QED
    BY PathIs DEF E2Inv
<1> QED
  BY <1>1, E2InvHolds, PTL

\* Each report made is in one place, or counted as dropped.
THEOREM NothingLost == Spec => []OnePlace
<1>1. E2Inv => OnePlace
  <2> SUFFICES ASSUME E2Inv PROVE OnePlace
    OBVIOUS
  <2>1. \A n \in Node : Ids(Path(n)) = Held(n)
    BY PathIs DEF E2Inv
  <2>2. Placed
    BY DEF E2Inv, Way
  <2>3. {Ids(Path(n)) : n \in Node} = {Held(n) : n \in Node}
    BY <2>1
  <2> QED
    BY <2>1, <2>2, <2>3 DEF OnePlace, Placed
<1> QED
  BY <1>1, E2InvHolds, PTL
=============================================================================
