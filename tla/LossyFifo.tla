----------------------------- MODULE LossyFifo ------------------------------
(***************************************************************************)
(* What a store-and-forward buffer promises whatever its bound, its expiry *)
(* and the moments its link is open: an item put in leaves once, delivered *)
(* or discarded, and nothing delivered overtakes anything else.            *)
(***************************************************************************)
EXTENDS Naturals, Sequences

CONSTANT Item

VARIABLES held,      \* items accepted and still here, oldest first
          delivered  \* items handed on, oldest first

fifoVars == <<held, delivered>>

\* The ways to pick n of the positions 1 .. k, in order.
Picks(n, k) == {pos \in [1 .. n -> 1 .. k] :
                   \A i, j \in 1 .. n : i < j => pos[i] < pos[j]}

FifoInit == held = <<>> /\ delivered = <<>>

\* Items arrive, and then the k oldest leave: those at the positions pos are handed
\* on in order, the others are gone.
FifoStep(arriving) ==
    LET all == held \o arriving IN
    \E k \in 0 .. Len(all), n \in 0 .. Len(all) :
        /\ held' = SubSeq(all, k + 1, Len(all))
        /\ \E pos \in Picks(n, k) :
              delivered' = delivered \o [i \in 1 .. n |-> all[pos[i]]]

FifoNext == FifoStep(<<>>) \/ \E x \in Item : FifoStep(<<x>>)

FifoSpec == FifoInit /\ [][FifoNext]_fifoVars
=============================================================================
