---------------------------- MODULE FifoChannel ----------------------------
(***************************************************************************)
(* What the hand-off rings promise: a bounded first-in first-out channel.  *)
(* Tokens are numbered 1, 2, 3, ... in the order in which the ring accepts *)
(* them.  `queue` holds the tokens that are published and not yet read,    *)
(* `delivered` the tokens the consumer has read, oldest first.             *)
(*                                                                         *)
(* A send may make several tokens visible at once (one Release store per   *)
(* burst in the SPSC ring; in the MPSC ring the store that closes a gap    *)
(* exposes every later token already written behind it).                   *)
(***************************************************************************)
EXTENDS Naturals, Sequences

CONSTANT Cap            \* ring capacity, positive

VARIABLES queue, delivered

vars == <<queue, delivered>>

\* Number of tokens accepted so far; the next one gets the next number.
Accepted == Len(delivered) + Len(queue)

Init == queue = <<>> /\ delivered = <<>>

Send ==
    \E n \in 1..Cap :
        /\ Len(queue) + n <= Cap
        /\ queue' = queue \o [i \in 1..n |-> Accepted + i]
        /\ UNCHANGED delivered

Receive ==
    /\ queue # <<>>
    /\ delivered' = Append(delivered, Head(queue))
    /\ queue' = Tail(queue)

Next == Send \/ Receive

Spec == Init /\ [][Next]_vars
=============================================================================
