---------------------------- MODULE TieBreakWalk ----------------------------
(***************************************************************************)
(* The last loop of SelectBestCandidate, one iteration per step, for a     *)
(* list of any length.  ChoCandidates states its result as one operator;   *)
(* here the loop has a state, so that an invariant of it can be stated.    *)
(***************************************************************************)
EXTENDS Integers, Sequences

CONSTANTS Ttes, Sinrs, Epsilon, MaxLength

ASSUME WalkAssumption == /\ Ttes \subseteq Nat /\ Sinrs \subseteq Int
                         /\ Epsilon \in Nat
                         /\ MaxLength \in Nat \ {0}

VARIABLES admissible, i, best

vars == <<admissible, i, best>>

Lists == UNION {[1 .. n -> [tte : Ttes, sinr : Sinrs]] : n \in 1 .. MaxLength}

\* Longest time to exit first.
Sorted(list) == \A j, k \in DOMAIN list : j < k => list[j].tte >= list[k].tte

Init == /\ admissible \in {list \in Lists : Sorted(list)}
        /\ best = 1
        /\ i = 2

\* Definitions whose name starts with Slip are not the code: each is the next
\* definition with one plausible mistake, for the mutation of the runs.
SlipTakesWeaker == /\ admissible[best].tte - admissible[i].tte <= Epsilon
                   /\ admissible[i].sinr < admissible[best].sinr
Takes == /\ admissible[best].tte - admissible[i].tte <= Epsilon
         /\ admissible[i].sinr > admissible[best].sinr

Iterate == /\ i <= Len(admissible)
           /\ best' = IF Takes THEN i ELSE best
           /\ i' = i + 1
           /\ UNCHANGED admissible

Done == i > Len(admissible)

Next == Iterate \/ (Done /\ UNCHANGED vars)

Spec == Init /\ [][Next]_vars

-----------------------------------------------------------------------------
\* The list stays as it was sorted, and the running best is an entry already seen.
TypeOK == /\ admissible \in Lists /\ Sorted(admissible)
          /\ i \in 2 .. Len(admissible) + 1
          /\ best \in 1 .. i - 1

\* A candidate already passed that is stronger than the running best lies more
\* than epsilon below it.
Passed == \A j \in 1 .. i - 1 :
            \/ admissible[j].sinr <= admissible[best].sinr
            \/ admissible[best].tte - admissible[j].tte > Epsilon

\* The loop invariant.
LoopInv == TypeOK /\ Passed

\* No candidate lasts at least as long as the chosen one and is stronger.
NotDominated ==
    Done => \A j \in DOMAIN admissible :
              ~ /\ admissible[j].tte >= admissible[best].tte
                /\ admissible[j].sinr > admissible[best].sinr

\* (Does not hold, see README.)  "Within epsilon of the best TTE, pick highest
\* SINR."
WithinEpsilonOfBest ==
    Done => admissible[1].tte - admissible[best].tte <= Epsilon
=============================================================================
