---------------------------- MODULE CustodyQueue ----------------------------
(***************************************************************************)
(* Custody of packets while the next hop is out of contact                 *)
(* (sagin-custody-queue.cc): a bounded FIFO in front of a link that opens  *)
(* and closes, with a lifetime for what it holds.  The forwarder is the    *)
(* scenario's: it takes a packet or refuses it, as it likes (a queue with  *)
(* no forwarder is one that always refuses).                               *)
(*                                                                         *)
(* Time is kept as the age of each item, up to MaxAge.  delivered is       *)
(* history; ids distinguish packets of one size.                           *)
(***************************************************************************)
EXTENDS Integers, Sequences, FiniteSets

CONSTANTS
    Capacity,    \* m_capacityBytes
    Lifetime,    \* m_lifetime; 0 keeps a packet for ever
    Sizes,       \* packet sizes
    MaxPackets,  \* bound: packets offered
    MaxAge       \* bound: ages saturate here

ASSUME CustodyAssumption ==
    /\ Capacity \in Nat /\ Lifetime \in Nat /\ MaxPackets \in Nat
    /\ MaxAge \in Nat /\ MaxAge > Lifetime
    /\ Sizes \subseteq Nat \ {0}

VARIABLES
    cq,         \* the queue object
    contactUp,  \* m_contactUp
    offered,    \* number of packets offered
    delivered   \* packets the forwarder took, oldest first

vars == <<cq, contactUp, offered, delivered>>

Item == [id : 1 .. MaxPackets, size : Sizes, age : 0 .. MaxAge]

Queue == [items : Seq(Item), bytes : Int, fwdNow : Nat, fwdCustody : Nat,
          expired : Nat, droppedSpace : Nat, maxCustody : 0 .. MaxAge]

NewQueue == [items |-> <<>>, bytes |-> 0, fwdNow |-> 0, fwdCustody |-> 0,
             expired |-> 0, droppedSpace |-> 0, maxCustody |-> 0]

\* What the items of s take: upto[i] is what the first i do.
Bytes(s) == LET upto[i \in 0 .. Len(s)] ==
                    IF i = 0 THEN 0 ELSE upto[i - 1] + s[i].size
            IN  upto[Len(s)]
Oldest(s, k) == SubSeq(s, 1, k)
Younger(s, k) == SubSeq(s, k + 1, Len(s))
Larger(a, b) == IF a > b THEN a ELSE b

\* The k oldest items leave the queue.
Removed(c, k) == [c EXCEPT !.items = Younger(@, k),
                           !.bytes = @ - Bytes(Oldest(c.items, k))]
-----------------------------------------------------------------------------
\* The stale ones at the front (none when the lifetime is 0).
Stale(c) == {i \in DOMAIN c.items : Lifetime > 0 /\
                \A j \in 1 .. i : c.items[j].age > Lifetime}

\* Fault: an item that expires keeps its bytes counted.
SlipExpired(c) == LET k == Cardinality(Stale(c))
                  IN [c EXCEPT !.items = Younger(@, k), !.expired = @ + k]

Expired(c) == LET k == Cardinality(Stale(c))
              IN [Removed(c, k) EXCEPT !.expired = @ + k]

\* Drop the oldest while the packet does not fit and something is held.
InTheWay(c, size) ==
    {i \in DOMAIN c.items :
        c.bytes - Bytes(Oldest(c.items, i - 1)) + size > Capacity}

WithRoom(c, size) == LET k == Cardinality(InTheWay(c, size))
                     IN [Removed(c, k) EXCEPT !.droppedSpace = @ + k]

\* The forwarder takes the k oldest; it refuses the next one, if there is any.
\* Ages fall from the front of the queue, so the first was held longest.
Drained(c, k) ==
    [Removed(c, k) EXCEPT
        !.fwdCustody = @ + k,
        !.maxCustody = IF k = 0 THEN @ ELSE Larger(@, c.items[1].age)]

Pushed(c, p) == [c EXCEPT !.items = Append(@, p), !.bytes = @ + p.size]
-----------------------------------------------------------------------------
Init == cq = NewQueue /\ contactUp = FALSE /\ offered = 0 /\ delivered = <<>>

\* Hands over the k oldest items of c, or none while the contact is down.
Drain(c) ==
    \E k \in 0 .. (IF contactUp' THEN Len(c.items) ELSE 0) :
        /\ cq' = Drained(c, k)
        /\ delivered' = delivered \o [i \in 1 .. k |-> c.items[i].id]

\* Fault: a packet goes straight through although others wait.
SlipForwardNow(p) ==
    /\ contactUp
    /\ cq' = [Expired(cq) EXCEPT !.fwdNow = @ + 1]
    /\ delivered' = Append(delivered, p.id)

\* An open contact and no backlog: the packet goes straight through.
ForwardNow(p) ==
    /\ contactUp /\ Expired(cq).items = <<>>
    /\ cq' = [Expired(cq) EXCEPT !.fwdNow = @ + 1]
    /\ delivered' = Append(delivered, p.id)

\* It waits behind the others, which may leave at once.
TakeCustody(p) ==
    LET c == WithRoom(Expired(cq), p.size) IN
    /\ c.bytes + p.size <= Capacity
    /\ Drain(Pushed(c, p))

\* Fault: the packet that does not fit is not counted.
SlipRefuseOffer(p) ==
    LET c == WithRoom(Expired(cq), p.size) IN
    /\ c.bytes + p.size > Capacity
    /\ cq' = c
    /\ UNCHANGED delivered

\* It does not fit in the empty queue: everything held was dropped for it.
RefuseOffer(p) ==
    LET c == WithRoom(Expired(cq), p.size) IN
    /\ c.bytes + p.size > Capacity
    /\ cq' = [c EXCEPT !.droppedSpace = @ + 1]
    /\ UNCHANGED delivered

Offer(size) ==
    LET p == [id |-> offered + 1, size |-> size, age |-> 0] IN
    /\ offered < MaxPackets /\ offered' = offered + 1
    /\ UNCHANGED contactUp
    /\ ForwardNow(p) \/ TakeCustody(p) \/ RefuseOffer(p)

\* Fault: a change of the contact expires nothing.
SlipSetContactUp(up) ==
    /\ contactUp' = up
    /\ IF up /\ ~contactUp THEN Drain(cq) ELSE UNCHANGED <<cq, delivered>>
    /\ UNCHANGED offered

\* Only the opening drains; every call expires first.
SetContactUp(up) ==
    /\ contactUp' = up
    /\ IF up /\ ~contactUp THEN Drain(Expired(cq))
       ELSE cq' = Expired(cq) /\ UNCHANGED delivered
    /\ UNCHANGED offered

\* A scenario's tick.
ExpireStale == cq' = Expired(cq) /\ UNCHANGED <<contactUp, offered, delivered>>

\* Time passes.
Older(x) == [x EXCEPT !.age = IF @ < MaxAge THEN @ + 1 ELSE @]

Tick ==
    /\ \E i \in DOMAIN cq.items : cq.items[i].age < MaxAge
    /\ cq' = [cq EXCEPT !.items = [i \in DOMAIN @ |-> Older(@[i])]]
    /\ UNCHANGED <<contactUp, offered, delivered>>

Next == \/ \E size \in Sizes : Offer(size)
        \/ \E up \in BOOLEAN : SetContactUp(up)
        \/ ExpireStale
        \/ Tick

Spec == Init /\ [][Next]_vars

\* Time passes, and orbits open and close the contact again and again.
FairSpec == Spec /\ WF_vars(Tick)
                 /\ WF_vars(\E up \in BOOLEAN : /\ up # contactUp
                                                /\ SetContactUp(up))
-----------------------------------------------------------------------------
\* The queue holds items, oldest first; m_bytes is what they take, never more
\* than the capacity, after any mixture of drops, expiries and drains.
CustodyTypeOK ==
    /\ cq.bytes = Bytes(cq.items) /\ cq.bytes <= Capacity
    /\ cq \in Queue /\ contactUp \in BOOLEAN
    /\ offered \in 0 .. MaxPackets /\ delivered \in Seq(1 .. MaxPackets)
    /\ \A i, j \in DOMAIN cq.items : i < j => cq.items[i].age >= cq.items[j].age

\* Every packet offered is counted exactly once: forwarded, expired, dropped
\* or still in custody.
Accounted == offered = cq.fwdNow + cq.fwdCustody + cq.expired
                       + cq.droppedSpace + Len(cq.items)

\* Nothing older than the lifetime is ever handed on, though only some calls
\* expire: the longest custody of a delivered packet stays below it.
FreshDelivery == Lifetime > 0 => cq.maxCustody <= Lifetime

Ids(s) == [i \in DOMAIN s |-> s[i].id]
Fifo == INSTANCE LossyFifo WITH Item <- 1 .. MaxPackets,
                                held <- Ids(cq.items)
\* The queue is a lossy FIFO: each packet leaves once, in the order offered.
KeepsOrder == Fifo!FifoSpec

\* Custody ends: a packet is forwarded, dropped or expired, even if the
\* forwarder never takes it and no packet follows.
CustodyEnds == \A n \in 1 .. MaxPackets :
    (\E i \in DOMAIN cq.items : cq.items[i].id = n) ~>
    (\A i \in DOMAIN cq.items : cq.items[i].id # n)
=============================================================================
