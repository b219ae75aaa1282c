------------------------------- MODULE Churn -------------------------------
(***************************************************************************)
(* The churn workload (rust/smr-collections/common/src/churn.rs) driving a *)
(* flat book: `steady` inserts, then inserts at even and departures at odd *)
(* op indices, the victim any resting order, a fill or a cancel.  The      *)
(* random draws (price, side, victim, fill or cancel) are arbitrary.       *)
(*                                                                         *)
(* At an op boundary the book may be encoded and restored into a second    *)
(* book, the replica, which then applies the same operations (a replicated *)
(* state machine that joins from a snapshot).                              *)
(***************************************************************************)
EXTENDS BookSnapshot, SequencesExt

CONSTANTS
    SteadyMax,      \* largest SMRC_STEADY the configuration accepts
    MaxOps          \* bound: op index at which the run ends

ASSUME ChurnAssumption == SteadyMax \in Nat \ {0} /\ MaxOps \in Nat

VARIABLES
    steady,     \* SMRC_STEADY, accepted by from_env
    primary,
    live,       \* the driver's ids of resting orders, dense
    index,      \* global op index: alternation and order ids
    phase,      \* "prebuild", "churn" or "panicked"
    joined,     \* a snapshot was taken and restored
    replica     \* the restored book; a new one before that

churnVars == <<steady, primary, live, index, phase, joined, replica>>

\* from_env: steady is positive, at most the pool and at most 65535.
AcceptedSteady == {n \in 1..SteadyMax : n <= Cap}

ChurnInit ==
    /\ steady \in AcceptedSteady
    /\ primary = NewBook
    /\ live = <<>>
    /\ index = 0
    /\ phase = "prebuild"
    /\ joined = FALSE
    /\ replica = NewBook

OnReplica(newReplica) == replica' = IF joined THEN newReplica ELSE replica

\* insert_op and its application.  The pool may be exhausted: the book
\* panics after the driver has recorded the order.
InsertOp(t, side) ==
    LET id == index + 1
    IN  /\ index' = index + 1
        /\ live' = Append(live, id)
        /\ IF Exhausted(primary)
           THEN phase' = "panicked" /\ UNCHANGED <<primary, replica>>
           ELSE /\ primary' = Insert(primary, id, PriceOf(t), 1, side)
                /\ OnReplica(Insert(replica, id, PriceOf(t), 1, side))
                /\ phase' = IF phase = "prebuild" /\ index + 1 = steady
                            THEN "churn" ELSE phase
    /\ UNCHANGED <<steady, joined>>

PrebuildStep(t, side) ==
    /\ phase = "prebuild"
    /\ InsertOp(t, side)

\* next_op inserts at even indices, and whenever nothing is resting.
InsertDue == index % 2 = 0 \/ live = <<>>

ChurnInsert(t, side) ==
    /\ phase = "churn" /\ index < MaxOps
    /\ InsertDue
    /\ InsertOp(t, side)

\* Faulty variant: the victim's place is not refilled by the last id, the
\* last id is dropped instead.
SwapRemoveDropsLast(seq, v) == Front(seq)

\* Vec::swap_remove: the last element takes the victim's place.
SwapRemove(seq, v) == Front([seq EXCEPT ![v] = Last(seq)])

ChurnDepart(v, isFill) ==
    /\ phase = "churn" /\ index < MaxOps
    /\ ~InsertDue
    /\ index' = index + 1
    /\ live' = SwapRemove(live, v)
    /\ IF live[v] \notin DOMAIN primary.idmap
       THEN phase' = "panicked" /\ UNCHANGED <<primary, replica>>
       ELSE /\ primary' = IF isFill THEN Fill(primary, live[v]) ELSE Cancel(primary, live[v])
            /\ OnReplica(IF isFill THEN Fill(replica, live[v]) ELSE Cancel(replica, live[v]))
            /\ UNCHANGED phase
    /\ UNCHANGED <<steady, joined>>

\* Encode at an op boundary; the image is restored elsewhere.
TakeSnapshot ==
    /\ phase = "churn"
    /\ ~joined
    /\ IF EncodePanics(primary)
       THEN phase' = "panicked" /\ UNCHANGED <<joined, replica>>
       ELSE /\ joined' = TRUE
            /\ replica' = Restore(Encode(primary))
            /\ UNCHANGED phase
    /\ UNCHANGED <<steady, primary, live, index>>

ChurnNext ==
    \/ \E t \in Ticks, side \in Sides : PrebuildStep(t, side)
    \/ \E t \in Ticks, side \in Sides : ChurnInsert(t, side)
    \/ \E v \in 1..Len(live), isFill \in BOOLEAN : ChurnDepart(v, isFill)
    \/ TakeSnapshot

ChurnSpec == ChurnInit /\ [][ChurnNext]_churnVars

-----------------------------------------------------------------------------
(* Properties.                                                             *)

\* The driver's list and the book's id map name the same orders, each once:
\* cancel and fill are never called with an unknown or already freed id.
LiveMatchesBook ==
    phase # "panicked" =>
        /\ DOMAIN primary.idmap = {live[i] : i \in 1..Len(live)}
        /\ \A i, j \in 1..Len(live) : live[i] = live[j] => i = j

\* Slots are recycled: the pool never reaches further than the most orders
\* that rest at once, one more than `steady` when that is even (the first
\* churn op is then an insert), and a pool of that size is never exhausted.
PoolSuffices ==
    LET most == steady + 1 - (steady % 2)
    IN  /\ primary.hwm <= most
        /\ most <= Cap => phase # "panicked"

\* The groups of a snapshot never outgrow their 16-bit counters, for every
\* accepted `steady`: the count would wrap and the image be cut short without
\* any error (encode casts hwm as u16).
SnapshotEncodable ==
    phase = "churn" => Len(OrderElems(primary)) <= GroupMax /\ Len(LevelElems(primary)) <= GroupMax

\* The restored book is the original one and stays so: the same operations
\* find the same slots, queues and best prices in both, because the image
\* carries the freed slots and the head of the free list.
ReplicaFollows == joined => replica = primary

\* Alternating insertions and departures hold the set of resting orders
\* constant, as the churn design says.
LiveSetConstant == phase = "churn" => Len(live) <= steady
=============================================================================
