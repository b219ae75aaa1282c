---------------------------- MODULE AbstractBook ----------------------------
(***************************************************************************)
(* What an order book promises: for every side and price level a queue of  *)
(* resting orders in arrival order.  There is no pool, no free list, no    *)
(* link and no cache here; OrderBook is shown to implement this module.    *)
(***************************************************************************)
EXTENDS Integers, Sequences, SequencesExt

CONSTANTS Sides, Ticks, Quantities, FillQuantities, MaxId

VARIABLES
    queue,      \* queue[side][tick]: the resting orders, oldest first
    lastId      \* ids are handed out in increasing order, never again

vars == <<queue, lastId>>

Init ==
    /\ queue = [side \in Sides |-> [t \in Ticks |-> <<>>]]
    /\ lastId = 0

Insert(side, t, qty) ==
    /\ lastId < MaxId
    /\ lastId' = lastId + 1
    /\ queue' = [queue EXCEPT ![side][t] =
                    Append(@, [id |-> lastId + 1, qty |-> qty, filled |-> 0])]

\* A partial fill leaves the order where it is in its queue.
Update(side, t, i, fillQty) ==
    /\ UNCHANGED lastId
    /\ LET o    == queue[side][t][i]
           open == o.qty - o.filled
       IN  queue' = [queue EXCEPT ![side][t][i].filled =
                        @ + (IF fillQty < open THEN fillQty ELSE open)]

\* A cancelled or completely filled order leaves its queue; the others keep
\* their order.
Depart(side, t, i) ==
    /\ UNCHANGED lastId
    /\ queue' = [queue EXCEPT ![side][t] = RemoveAt(@, i)]

Next ==
    \E side \in Sides, t \in Ticks :
        \/ \E qty \in Quantities : Insert(side, t, qty)
        \/ \E i \in 1..Len(queue[side][t]) :
              \/ \E fillQty \in FillQuantities : Update(side, t, i, fillQty)
              \/ Depart(side, t, i)

Spec == Init /\ [][Next]_vars
=============================================================================
