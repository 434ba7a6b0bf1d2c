------------------------- MODULE TieBreakWalkProofs -------------------------
(***************************************************************************)
(* The tie-break loop, for lists of any length and any times to exit.      *)
(* LoopInv is inductive: the list is sorted, so a candidate that comes     *)
(* later can only lie further below the running best, and a candidate once *)
(* out of reach of epsilon stays out of reach.                             *)
(***************************************************************************)
EXTENDS TieBreakWalk, TLAPS

\* An entry of a list is a record of two numbers.
LEMMA EntryType ==
    ASSUME NEW list \in Lists, NEW j \in DOMAIN list
    PROVE  /\ DOMAIN list = 1 .. Len(list) /\ Len(list) \in Nat \ {0}
           /\ list[j].tte \in Int /\ list[j].sinr \in Int
<1>1. PICK n \in 1 .. MaxLength : list \in [1 .. n -> [tte : Ttes, sinr : Sinrs]]
  BY DEF Lists
<1>2. n \in Nat \ {0} /\ DOMAIN list = 1 .. n /\ Len(list) = n
  BY <1>1, WalkAssumption
<1>3. list[j] \in [tte : Ttes, sinr : Sinrs]
  BY <1>1, <1>2
<1>4. list[j].tte \in Ttes /\ list[j].sinr \in Sinrs
  BY <1>3
<1>5. Ttes \subseteq Int /\ Sinrs \subseteq Int
  BY WalkAssumption
<1>6. list[j].tte \in Int /\ list[j].sinr \in Int
  BY <1>4, <1>5, Zenon
<1> QED
  BY <1>2, <1>6

\* A list is not empty, and its length is a natural.
LEMMA ListLength ==
    ASSUME NEW list \in Lists
    PROVE  Len(list) \in Nat \ {0} /\ DOMAIN list = 1 .. Len(list)
<1>1. PICK n \in 1 .. MaxLength : list \in [1 .. n -> [tte : Ttes, sinr : Sinrs]]
  BY DEF Lists
<1> QED
  BY <1>1, WalkAssumption

\* Before the first turn the best is the head, and only it has been seen.
LEMMA InitLoopInv == Init => LoopInv
<1> SUFFICES ASSUME Init PROVE LoopInv
  OBVIOUS
<1>1. admissible \in Lists /\ Sorted(admissible)
  BY DEF Init
<1>2. Len(admissible) \in Nat \ {0} /\ DOMAIN admissible = 1 .. Len(admissible)
  BY <1>1, ListLength
<1>3. TypeOK
  BY <1>1, <1>2 DEF Init, TypeOK
<1>4. Passed
  <2>1. admissible[1].sinr \in Int
    BY <1>1, <1>2, EntryType
  <2> QED
    BY <2>1 DEF Init, Passed
<1> QED
  BY <1>3, <1>4 DEF LoopInv

\* One turn of the loop.
LEMMA IterateLoopInv == LoopInv /\ Iterate => LoopInv'
<1> SUFFICES ASSUME LoopInv, Iterate PROVE LoopInv'
  OBVIOUS
<1>1. /\ admissible \in Lists /\ admissible' = admissible
      /\ \A j, k \in DOMAIN admissible :
            j < k => admissible[j].tte >= admissible[k].tte
  BY DEF LoopInv, TypeOK, Iterate, Sorted
<1>2. /\ Len(admissible) \in Nat \ {0}
      /\ DOMAIN admissible = 1 .. Len(admissible)
  BY <1>1, ListLength
<1>3. /\ i \in 2 .. Len(admissible) /\ i' = i + 1
      /\ best \in 1 .. i - 1 /\ best' = IF Takes THEN i ELSE best
  BY <1>2 DEF LoopInv, TypeOK, Iterate
<1>4. TypeOK'
  BY <1>1, <1>2, <1>3 DEF LoopInv, TypeOK, Sorted
<1>5. ASSUME NEW j \in 1 .. i
      PROVE  \/ admissible[j].sinr <= admissible[best'].sinr
             \/ admissible[best'].tte - admissible[j].tte > Epsilon
  <2>1. /\ admissible[j].tte \in Int /\ admissible[j].sinr \in Int
        /\ admissible[i].tte \in Int /\ admissible[i].sinr \in Int
        /\ admissible[best].tte \in Int /\ admissible[best].sinr \in Int
    BY <1>1, <1>2, <1>3, EntryType
  <2>2. j < i => \/ admissible[j].sinr <= admissible[best].sinr
                 \/ admissible[best].tte - admissible[j].tte > Epsilon
    BY <1>3 DEF LoopInv, Passed
  <2>3. j < i => admissible[j].tte >= admissible[i].tte
    BY <1>1, <1>2, <1>3
  <2>4. CASE Takes
    <3>1. best' = i /\ admissible[best].tte - admissible[i].tte <= Epsilon
          /\ admissible[i].sinr > admissible[best].sinr
      BY <1>3, <2>4 DEF Takes
    <3>2. CASE j = i
      BY WalkAssumption, <2>1, <3>1, <3>2
    <3>3. CASE j < i
      BY WalkAssumption, <2>1, <2>2, <2>3, <3>1, <3>3
    <3> QED
      BY <1>3, <3>2, <3>3
  <2>5. CASE ~Takes
    <3>1. best' = best
      BY <1>3, <2>5
    <3>2. CASE j = i
      BY WalkAssumption, <2>1, <2>5, <3>1, <3>2 DEF Takes
    <3>3. CASE j < i
      BY <2>2, <3>1, <3>3
    <3> QED
      BY <1>3, <3>2, <3>3
  <2> QED
    BY <2>4, <2>5
<1>6. Passed'
  BY <1>1, <1>3, <1>5 DEF Passed
<1> QED
  BY <1>4, <1>6 DEF LoopInv

\* The running best is an entry already seen, and every entry already seen that is
\* stronger than it lies more than epsilon below it.
THEOREM LoopInvHolds == Spec => []LoopInv
<1>1. LoopInv /\ [Next]_vars => LoopInv'
  <2> SUFFICES ASSUME LoopInv, [Next]_vars PROVE LoopInv'
    OBVIOUS
  <2>1. CASE Iterate
    BY <2>1, IterateLoopInv
  <2>2. CASE UNCHANGED vars
    BY <2>2 DEF vars, LoopInv, TypeOK, Passed, Sorted
  <2> QED
    BY <2>1, <2>2 DEF Next
<1> QED
  BY InitLoopInv, <1>1, PTL DEF Spec

\* The candidate returned is dominated by no other, whatever epsilon is.
THEOREM ChoiceNotDominated == Spec => []NotDominated
<1>1. LoopInv => NotDominated
  <2> SUFFICES ASSUME LoopInv, Done, NEW j \in DOMAIN admissible,
                      admissible[j].tte >= admissible[best].tte,
                      admissible[j].sinr > admissible[best].sinr
               PROVE  FALSE
    BY DEF NotDominated
  <2>1. /\ admissible \in Lists /\ Len(admissible) \in Nat \ {0}
        /\ DOMAIN admissible = 1 .. Len(admissible)
    BY ListLength DEF LoopInv, TypeOK
  <2>2. i = Len(admissible) + 1 /\ j \in 1 .. i - 1 /\ best \in DOMAIN admissible
    BY <2>1 DEF LoopInv, TypeOK, Done
  <2>3. /\ admissible[j].tte \in Int /\ admissible[j].sinr \in Int
        /\ admissible[best].tte \in Int /\ admissible[best].sinr \in Int
    BY <2>1, <2>2, EntryType
  <2> QED
    BY WalkAssumption, <2>2, <2>3 DEF LoopInv, Passed
<1> QED
  BY LoopInvHolds, <1>1, PTL
=============================================================================
