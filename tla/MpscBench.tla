----------------------------- MODULE MpscBench -----------------------------
(***************************************************************************)
(* The MPSC ring under its benchmark harness                               *)
(* (rust/handoff-compare/benches/mpsc.rs): persistent producer threads     *)
(* behind a start flag each, a consumer thread that drains the ring and    *)
(* adds to a sink, and a main thread that, in every iteration, resets the  *)
(* sink, raises the flags and spins until the sink shows every token.      *)
(*                                                                         *)
(* program "ring" is our_mp_ring, "base" the baseline whose producers add  *)
(* to the sink themselves, and "free" the ring without the harness:        *)
(* producers that publish bursts of any size whenever they like.           *)
(***************************************************************************)
EXTENDS MpscRing

CONSTANTS
    Size,       \* tokens per burst
    Iters       \* iterations of one benchmark call

ASSUME BenchAssumption ==
    /\ IsFiniteSet(Producers)
    /\ Size \in 1..MaxBurst /\ Iters \in Nat \ {0}
    /\ Size * Cardinality(Producers) * Iters <= Total

VARIABLES
    program,
    burstSize,  \* the shared AtomicI64
    sink,       \* tokens counted in this iteration
    flag,       \* per producer: start_barrier
    stop,       \* per producer: its stop flag
    stopCons,   \* the consumer's stop flag
    bpc,        \* per producer: "poll", "burst", "publish" or "joined"
    left,       \* per producer: baseline increments still to do
    bursts,     \* per producer: bursts made
    dpc,        \* consumer loop: "drain", "add" or "joined"
    main,       \* main: "store", "reset", "start", "spin", "stop", "join" or "end"
    pending,    \* producers main has still to start or to stop
    iter        \* iterations begun

benchVars == <<burstSize, sink, flag, stop, stopCons, bpc, left, bursts, dpc, main, pending, iter>>
allVars == <<vars, program, benchVars>>

Expected == Size * Cardinality(Producers)

BenchInit ==
    /\ Init
    /\ program \in {"ring", "base", "free"}
    /\ burstSize = 0 /\ sink = 0
    /\ flag = [p \in Producers |-> FALSE]
    /\ stop = [p \in Producers |-> FALSE]
    /\ stopCons = FALSE
    /\ bpc = [p \in Producers |-> "poll"]
    /\ left = [p \in Producers |-> 0]
    /\ bursts = [p \in Producers |-> 0]
    /\ dpc = "drain"
    /\ main = "store" /\ pending = {} /\ iter = 0

-----------------------------------------------------------------------------
(* A producer thread: BurstProducer::new.                                  *)

\* Faulty variant: the flag is read and not taken.
PollNoClear(p) ==
    /\ bpc[p] = "poll"
    /\ \/ flag[p] /\ bpc' = [bpc EXCEPT ![p] = "burst"] /\ UNCHANGED flag
       \/ ~flag[p] /\ stop[p] /\ bpc' = [bpc EXCEPT ![p] = "joined"] /\ UNCHANGED flag
    /\ UNCHANGED <<vars, burstSize, sink, stop, stopCons, left, bursts, dpc, main, pending, iter>>

\* One turn of the loop: take the flag if it is up, else look at stop.
Poll(p) ==
    /\ bpc[p] = "poll"
    /\ \/ /\ flag[p]
          /\ flag' = [flag EXCEPT ![p] = FALSE]
          /\ bpc' = [bpc EXCEPT ![p] = "burst"]
       \/ ~flag[p] /\ stop[p] /\ bpc' = [bpc EXCEPT ![p] = "joined"] /\ UNCHANGED flag
    /\ UNCHANGED <<vars, burstSize, sink, stop, stopCons, left, bursts, dpc, main, pending, iter>>

\* produce_one_burst begins: the size is loaded, the ring's range claimed.
BeginBurst(p) ==
    /\ bpc[p] = "burst"
    /\ IF program = "ring"
       THEN Claim(p, burstSize) /\ UNCHANGED left
       ELSE left' = [left EXCEPT ![p] = burstSize] /\ UNCHANGED vars
    /\ bpc' = [bpc EXCEPT ![p] = "publish"]
    /\ UNCHANGED <<burstSize, sink, flag, stop, stopCons, bursts, dpc, main, pending, iter>>

RingStep(p) ==
    /\ bpc[p] = "publish"
    /\ Deliver(p)
    /\ UNCHANGED benchVars

BaseAdd(p) ==
    /\ bpc[p] = "publish"
    /\ left[p] > 0
    /\ sink' = sink + 1
    /\ left' = [left EXCEPT ![p] = @ - 1]
    /\ UNCHANGED <<vars, burstSize, flag, stop, stopCons, bpc, bursts, dpc, main, pending, iter>>

EndBurst(p) ==
    /\ bpc[p] = "publish"
    /\ ppc[p] = "idle" /\ left[p] = 0
    /\ bursts' = [bursts EXCEPT ![p] = @ + 1]
    /\ bpc' = [bpc EXCEPT ![p] = "poll"]
    /\ UNCHANGED <<vars, burstSize, sink, flag, stop, stopCons, left, dpc, main, pending, iter>>

ProducerThread(p) == Poll(p) \/ BeginBurst(p) \/ RingStep(p) \/ BaseAdd(p) \/ EndBurst(p)

-----------------------------------------------------------------------------
(* The consumer thread of our_mp_ring; drain(usize::MAX) takes all it can. *)

DrainRing ==
    /\ dpc = "drain"
    /\ \/ ~stopCons /\ StartDrain /\ UNCHANGED dpc
       \/ (FindToken(Total) \/ LoadSlot) /\ UNCHANGED dpc
       \/ EndDrain(Total) /\ dpc' = IF count > 0 THEN "add" ELSE "drain"
    /\ UNCHANGED <<burstSize, sink, flag, stop, stopCons, bpc, left, bursts, main, pending, iter>>

\* Faulty variant: the sink is overwritten, not added to.
AddToSinkStore ==
    /\ dpc = "add"
    /\ sink' = count
    /\ dpc' = "drain"
    /\ UNCHANGED <<vars, burstSize, flag, stop, stopCons, bpc, left, bursts, main, pending, iter>>

AddToSink ==
    /\ dpc = "add"
    /\ sink' = sink + count
    /\ dpc' = "drain"
    /\ UNCHANGED <<vars, burstSize, flag, stop, stopCons, bpc, left, bursts, main, pending, iter>>

LeaveDrainLoop ==
    /\ dpc = "drain" /\ cpc = "idle"
    /\ stopCons
    /\ dpc' = "joined"
    /\ UNCHANGED <<vars, burstSize, sink, flag, stop, stopCons, bpc, left, bursts, main, pending, iter>>

ConsumerThread == program = "ring" /\ (DrainRing \/ AddToSink \/ LeaveDrainLoop)

-----------------------------------------------------------------------------
(* The main thread: run_benchmark, then the stops and joins.  for_each     *)
(* takes the producers in some order.                                      *)

StoreSize ==
    /\ main = "store"
    /\ burstSize' = Size
    /\ main' = "reset"
    /\ UNCHANGED <<vars, sink, flag, stop, stopCons, bpc, left, bursts, dpc, pending, iter>>

ResetSink ==
    /\ main = "reset"
    /\ sink' = 0
    /\ iter' = iter + 1
    /\ main' = "start" /\ pending' = Producers
    /\ UNCHANGED <<vars, burstSize, flag, stop, stopCons, bpc, left, bursts, dpc>>

StartProducer(p) ==
    /\ main = "start"
    /\ p \in pending
    /\ flag' = [flag EXCEPT ![p] = TRUE]
    /\ pending' = pending \ {p}
    /\ main' = IF pending = {p} THEN "spin" ELSE "start"
    /\ UNCHANGED <<vars, burstSize, sink, stop, stopCons, bpc, left, bursts, dpc, iter>>

\* The spin ends; its other turns change nothing.
SinkFull ==
    /\ main = "spin"
    /\ sink = Expected
    /\ IF iter < Iters THEN main' = "reset" /\ UNCHANGED pending
       ELSE main' = "stop" /\ pending' = Producers
    /\ UNCHANGED <<vars, burstSize, sink, flag, stop, stopCons, bpc, left, bursts, dpc, iter>>

StopProducer(p) ==
    /\ main = "stop"
    /\ p \in pending
    /\ stop' = [stop EXCEPT ![p] = TRUE]
    /\ main' = "join"
    /\ UNCHANGED <<vars, burstSize, sink, flag, stopCons, bpc, left, bursts, dpc, pending, iter>>

JoinProducer(p) ==
    /\ main = "join"
    /\ p \in pending /\ bpc[p] = "joined"
    /\ pending' = pending \ {p}
    /\ main' = IF pending = {p} THEN "end" ELSE "stop"
    /\ stopCons' = (pending = {p})
    /\ UNCHANGED <<vars, burstSize, sink, flag, stop, bpc, left, bursts, dpc, iter>>

MainThread ==
    \/ StoreSize \/ ResetSink \/ SinkFull
    \/ \E p \in Producers : StartProducer(p) \/ StopProducer(p) \/ JoinProducer(p)

Joined ==
    /\ main = "end"
    /\ program = "ring" => dpc = "joined"

-----------------------------------------------------------------------------

Harnessed == program # "free" /\ UNCHANGED program

FreeRing == program = "free" /\ Next /\ UNCHANGED <<program, benchVars>>

BenchNext ==
    \/ Harnessed /\ (MainThread \/ ConsumerThread \/ \E p \in Producers : ProducerThread(p))
    \/ FreeRing
    \/ Joined /\ UNCHANGED allVars

\* Every thread is a spinning OS thread and keeps running.
BenchSpec ==
    /\ BenchInit /\ [][BenchNext]_allVars
    /\ WF_allVars(Harnessed /\ MainThread)
    /\ WF_allVars(Harnessed /\ ConsumerThread)
    /\ \A p \in Producers : WF_allVars(Harnessed /\ ProducerThread(p))
    /\ \A p \in Producers : WF_allVars(program = "free" /\ Deliver(p) /\ UNCHANGED <<program, benchVars>>)
    /\ WF_allVars(program = "free" /\ Consumer /\ UNCHANGED <<program, benchVars>>)

-----------------------------------------------------------------------------
(* Properties.                                                             *)

\* The bursts a producer has been released for; it may be on its way back to
\* the flag with the last one already counted in the sink.
BurstsOf(p) == IF bpc[p] \in {"burst", "publish"} THEN bursts[p] + 1 ELSE bursts[p]

\* An iteration measures its own tokens: each producer makes one burst per
\* iteration although main raises its flag while it may still be on the way
\* back, the sink never shows more than one iteration's tokens, and when main
\* resets it everything published has been drained and counted.
IterationExact ==
    program # "free" =>
        /\ sink \in 0..Expected
        /\ \A p \in Producers :
              /\ BurstsOf(p) \in {iter - 1, iter}
              /\ flag[p] => BurstsOf(p) = iter - 1
        /\ main = "reset" /\ program = "ring" =>
              Len(out) = iter * Expected /\ claim = iter * Expected /\ dpc = "drain"

\* The benchmark ends: main sees every iteration's count, and all threads are
\* joined.
BenchEnds == program = "free" \/ <>Joined
=============================================================================
