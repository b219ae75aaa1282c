------------------------ MODULE ThreadHandoff_proofs ------------------------
(***************************************************************************)
(* Proofs about the programs of thread-handoff.                            *)
(*                                                                         *)
(* First the ring of the throughput program (SpscRing), for every          *)
(* capacity, burst size, drain size and number of tokens.  Inv is the      *)
(* inductive invariant: neither NoOverwrite nor FifoDelivery is inductive  *)
(* alone, because both rest on how far the cached indices may lag behind   *)
(* the shared ones (Lag) and on which slots hold which token (Contents).   *)
(*                                                                         *)
(* Then the latency programs, for every number of round trips and every    *)
(* spin budget, backoff ladder and weakly ordered memory.  Each program    *)
(* hands one token round.  The inductive invariants (Inv of Mailbox,       *)
(* SlotHandoff and ChannelHandoff) say where it is: which thread holds it, *)
(* or which box, queue or slot, and what the flags and buffered stores     *)
(* around that place must then be.                                         *)
(***************************************************************************)
EXTENDS ThreadHandoff, SequenceTheorems, FiniteSetTheorems, WellFoundedInduction, TLAPS

-----------------------------------------------------------------------------
(* The arithmetic of slots.                                                *)

\* A sequence number is mapped to a slot of the ring (buf[s % cap]).
LEMMA SlotInRange ==
    ASSUME NEW s \in Nat PROVE Slot(s) \in 0..(Cap - 1)
BY CapAssumption DEF Slot

\* Sequence numbers less than cap apart have different slots: the reason
\* why bounding the outstanding tokens by cap is enough.
LEMMA SlotsDistinct ==
    ASSUME NEW r \in Nat, NEW s \in Nat, r < s, s < r + Cap
    PROVE  Slot(r) # Slot(s)
<1>. DEFINE qr == r \div Cap
            qs == s \div Cap
<1>1. r = Cap * qr + Slot(r) /\ qr \in Nat
  BY CapAssumption DEF Slot
<1>2. s = Cap * qs + Slot(s) /\ qs \in Nat
  BY CapAssumption DEF Slot
<1>3. Slot(r) \in 0..(Cap - 1) /\ Slot(s) \in 0..(Cap - 1)
  BY SlotInRange
<1>. HIDE DEF qr, qs
<1>. SUFFICES ASSUME Slot(r) = Slot(s) PROVE FALSE
  OBVIOUS
<1>4. s - r = Cap * (qs - qr)
  BY <1>1, <1>2, <1>3, CapAssumption
<1>5. CASE qs <= qr
  <2>1. Cap * (qs - qr) <= 0
    BY <1>5, <1>1, <1>2, CapAssumption
  <2>. QED BY <2>1, <1>4
<1>6. CASE qs >= qr + 1
  <2>1. Cap * (qs - qr) >= Cap
    BY <1>6, <1>1, <1>2, CapAssumption
  <2>. QED BY <2>1, <1>4, CapAssumption
<1>. QED BY <1>5, <1>6, <1>1, <1>2
-----------------------------------------------------------------------------
(* The inductive invariant (also checked by TLC, see ThreadHandoff.cfg).        *)

\* Type correctness and the FIFO and barrier properties of the ring, for
\* every capacity, burst size, drain size and number of tokens: the initial
\* state satisfies the invariant.
LEMMA InitInv == Init => Inv
<1>. SUFFICES ASSUME Init PROVE Inv
  OBVIOUS
<1>1. TypeOK
  BY CapAssumption, BurstAssumption DEF Init, TypeOK
<1>. QED
  BY <1>1, CapAssumption, TotalAssumption
  DEF Init, Inv, Lag, Progress, Contents, NextRead, FifoDelivery, WarmupDrained, InTimedSection

\* Entering a push or a burst preserves the invariant.
LEMMA BatchPublishInv ==
    ASSUME Inv, NEW n \in 1..MaxBurst, BatchPublish(n) PROVE Inv'
<1>. USE CapAssumption, TotalAssumption, BurstAssumption
<1>0. /\ buf' = buf /\ head' = head /\ tail' = tail /\ cachedHead' = cachedHead
      /\ cachedTail' = cachedTail /\ cpc' = cpc /\ take' = take /\ got' = got /\ out' = out
      /\ burst' = n
      /\ ppc = "idle" /\ unwritten = {}
      /\ \/ /\ tail + n - cachedHead <= Cap
            /\ ppc' = "fill" /\ unwritten' = tail..(tail + n - 1)
         \/ ppc' = "full" /\ unwritten' = {}
  BY DEF Inv, Lag, BatchPublish, StartFill, HasSpace, consVars
<1>1. TypeOK'
  BY <1>0 DEF Inv, TypeOK
<1>2. Lag'
  BY <1>0 DEF Inv, TypeOK, Lag
<1>3. Progress' /\ FifoDelivery'
  BY <1>0 DEF Inv, TypeOK, Progress, FifoDelivery, NextRead
<1>4. Contents'
  BY <1>0 DEF Inv, TypeOK, Lag, Contents, NextRead, Slot
<1>5. WarmupDrained'
  BY <1>0 DEF Inv, TypeOK, WarmupDrained, InTimedSection, BatchPublish
<1>. QED BY <1>1, <1>2, <1>3, <1>4, <1>5 DEF Inv

\* Reloading the head while the ring looks full preserves the invariant.
LEMMA RefreshHeadInv == ASSUME Inv, RefreshHead PROVE Inv'
<1>. USE CapAssumption, TotalAssumption, BurstAssumption
<1>0. /\ buf' = buf /\ head' = head /\ tail' = tail /\ cachedHead' = head
      /\ cachedTail' = cachedTail /\ cpc' = cpc /\ take' = take /\ got' = got /\ out' = out
      /\ burst' = burst
      /\ ppc = "full" /\ unwritten = {}
      /\ \/ /\ tail + burst - head <= Cap
            /\ ppc' = "fill" /\ unwritten' = tail..(tail + burst - 1)
         \/ ppc' = "full" /\ unwritten' = {}
  BY DEF Inv, Lag, RefreshHead, StartFill, HasSpace, consVars
<1>1. TypeOK'
  BY <1>0 DEF Inv, TypeOK
<1>2. Lag'
  BY <1>0 DEF Inv, TypeOK, Lag
<1>3. Progress' /\ FifoDelivery'
  BY <1>0 DEF Inv, TypeOK, Progress, FifoDelivery, NextRead
<1>4. Contents'
  BY <1>0 DEF Inv, TypeOK, Lag, Contents, NextRead, Slot
<1>5. WarmupDrained'
  BY <1>0 DEF Inv, TypeOK, WarmupDrained, InTimedSection
<1>. QED BY <1>1, <1>2, <1>3, <1>4, <1>5 DEF Inv

\* A slot store preserves the invariant: the slot it overwrites belongs to a
\* sequence that is neither published and unread nor part of the burst.
LEMMA StoreSlotInv ==
    ASSUME Inv, NEW s \in unwritten, StoreSlot(s) PROVE Inv'
<1>. USE CapAssumption, TotalAssumption, BurstAssumption
<1>0. /\ s \in Nat /\ s \in tail..(tail + burst - 1)
      /\ \A r \in Nat : r \in NextRead..(tail + burst - 1) => s < r + Cap /\ r < s + Cap
  BY DEF Inv, TypeOK, Lag, StoreSlot, NextRead
<1>1. TypeOK'
  <2>1. Slot(s) \in 0..(Cap - 1)
    BY <1>0, SlotInRange
  <2>2. buf' \in [0..(Cap - 1) -> Nat]
    BY <2>1, <1>0 DEF Inv, TypeOK, StoreSlot
  <2>. QED BY <2>2 DEF Inv, TypeOK, StoreSlot, consVars
<1>2. Lag'
  BY DEF Inv, TypeOK, Lag, StoreSlot, consVars
<1>3. Progress' /\ FifoDelivery'
  BY DEF Inv, TypeOK, Progress, FifoDelivery, StoreSlot, NextRead, consVars
<1>4. Contents'
  <2>1. \A r \in NextRead..(tail + burst - 1) : r # s => Slot(r) # Slot(s)
    <3>. TAKE r \in NextRead..(tail + burst - 1)
    <3>. HAVE r # s
    <3>1. r \in Nat
      BY DEF Inv, TypeOK, NextRead
    <3>. QED BY <3>1, <1>0, SlotsDistinct
  <2>2. ASSUME NEW r \in NextRead..(tail + burst - 1), r # s
        PROVE  buf'[Slot(r)] = buf[Slot(r)]
    <3>1. r \in Nat
      BY DEF Inv, TypeOK, NextRead
    <3>. QED BY <3>1, <2>1, <2>2, <1>0, SlotInRange DEF Inv, TypeOK, StoreSlot
  <2>3. buf'[Slot(s)] = s + 1
    BY <1>0, SlotInRange DEF Inv, TypeOK, StoreSlot
  <2>4. NextRead' = NextRead /\ tail' = tail /\ burst' = burst /\ ppc' = ppc
        /\ unwritten' = unwritten \ {s} /\ NextRead <= tail /\ NextRead \in Nat
        /\ tail \in Nat /\ burst \in Nat
    BY DEF Inv, TypeOK, Lag, StoreSlot, NextRead, consVars
  <2>5. ASSUME NEW r \in NextRead..(tail - 1) PROVE buf'[Slot(r)] = r + 1
    <3>1. r # s /\ r \in NextRead..(tail + burst - 1)
      BY <1>0, <2>4
    <3>. QED BY <3>1, <2>2 DEF Inv, Contents
  <2>6. ASSUME NEW r \in tail..(tail + burst - 1), r \notin unwritten'
        PROVE  buf'[Slot(r)] = r + 1
    <3>1. r \in NextRead..(tail + burst - 1)
      BY <2>4
    <3>2. CASE r = s
      BY <3>2, <2>3
    <3>3. CASE r # s
      BY <3>1, <3>3, <2>2, <2>4, <2>6 DEF Inv, Contents, StoreSlot
    <3>. QED BY <3>2, <3>3
  <2>. QED BY <2>4, <2>5, <2>6 DEF Contents, Slot
<1>5. WarmupDrained'
  BY DEF Inv, TypeOK, WarmupDrained, InTimedSection, StoreSlot, consVars
<1>. QED BY <1>1, <1>2, <1>3, <1>4, <1>5 DEF Inv

\* Publishing the tail preserves the invariant: every slot of the burst
\* already holds its token.
LEMMA PublishTailInv == ASSUME Inv, PublishTail PROVE Inv'
<1>. USE CapAssumption, TotalAssumption, BurstAssumption
<1>1. TypeOK'
  BY DEF Inv, TypeOK, PublishTail, consVars
<1>2. Lag'
  BY DEF Inv, TypeOK, Lag, PublishTail, consVars
<1>3. Progress' /\ FifoDelivery'
  BY DEF Inv, TypeOK, Progress, FifoDelivery, PublishTail, NextRead, consVars
<1>4. Contents'
  <2>1. ASSUME NEW r \in NextRead..(tail + burst - 1) PROVE buf[Slot(r)] = r + 1
    <3>1. CASE r \in NextRead..(tail - 1)
      BY <3>1 DEF Inv, Contents
    <3>2. CASE r \in tail..(tail + burst - 1)
      BY <3>2 DEF Inv, Contents, PublishTail
    <3>. QED BY <3>1, <3>2 DEF Inv, TypeOK, NextRead
  <2>2. NextRead' = NextRead /\ tail' = tail + burst /\ buf' = buf /\ ppc' = "idle"
    BY DEF PublishTail, NextRead, consVars
  <2>3. tail + burst - 1 = tail' - 1
    BY <2>2 DEF Inv, TypeOK
  <2>4. \A r \in (NextRead')..(tail' - 1) : buf'[Slot(r)] = r + 1
    BY <2>1, <2>2, <2>3
  <2>. QED BY <2>2, <2>4 DEF Contents, Slot
<1>5. WarmupDrained'
  BY DEF Inv, TypeOK, WarmupDrained, InTimedSection, PublishTail, consVars
<1>. QED BY <1>1, <1>2, <1>3, <1>4, <1>5 DEF Inv

\* The start of a read (pop, its spin loop or drain) preserves the invariant:
\* what will be read is at most what the consumer has seen published.
LEMMA ReadStartInv ==
    ASSUME Inv,
           buf' = buf, head' = head, tail' = tail, cachedHead' = cachedHead,
           got' = got, out' = out, burst' = burst, ppc' = ppc, unwritten' = unwritten,
           take = 0,
           cachedTail' \in Nat, head <= cachedTail', cachedTail' <= tail,
           cpc' \in {"idle", "empty", "read"},
           take' \in Nat, head + take' <= cachedTail',
           cpc' # "read" => take' = 0
    PROVE  Inv'
<1>. USE CapAssumption, TotalAssumption, BurstAssumption
<1>1. TypeOK'
  BY DEF Inv, TypeOK
<1>2. Lag'
  BY DEF Inv, TypeOK, Lag
<1>3. Progress' /\ FifoDelivery' /\ Contents'
  BY DEF Inv, Progress, FifoDelivery, Contents, NextRead, Slot
<1>4. WarmupDrained'
  BY DEF Inv, WarmupDrained, InTimedSection
<1>. QED BY <1>1, <1>2, <1>3, <1>4 DEF Inv

\* Entering a pop preserves the invariant.
LEMMA PopInv == ASSUME Inv, Pop PROVE Inv'
<1>. USE CapAssumption, TotalAssumption, BurstAssumption
<1>0. /\ buf' = buf /\ head' = head /\ tail' = tail /\ cachedHead' = cachedHead
      /\ cachedTail' = cachedTail /\ got' = got /\ out' = out
      /\ burst' = burst /\ ppc' = ppc /\ unwritten' = unwritten
      /\ cpc = "idle" /\ take = 0
      /\ \/ head # cachedTail /\ cpc' = "read" /\ take' = 1
         \/ cpc' = "empty" /\ take' = 0
  BY DEF Inv, Lag, Pop, StartRead, prodVars
<1>1. /\ cachedTail' \in Nat /\ head <= cachedTail' /\ cachedTail' <= tail
      /\ take' \in Nat /\ head + take' <= cachedTail'
  BY <1>0 DEF Inv, TypeOK, Lag
<1>. QED BY <1>0, <1>1, ReadStartInv

\* Reloading the tail while the ring looks empty preserves the invariant.
LEMMA RefreshTailInv == ASSUME Inv, RefreshTail PROVE Inv'
<1>. USE CapAssumption, TotalAssumption, BurstAssumption
<1>0. /\ buf' = buf /\ head' = head /\ tail' = tail /\ cachedHead' = cachedHead
      /\ cachedTail' = tail /\ got' = got /\ out' = out
      /\ burst' = burst /\ ppc' = ppc /\ unwritten' = unwritten
      /\ cpc = "empty" /\ take = 0
      /\ \/ head # tail /\ cpc' = "read" /\ take' = 1
         \/ cpc' = "empty" /\ take' = 0
  BY DEF Inv, Lag, RefreshTail, StartRead, prodVars
<1>1. /\ cachedTail' \in Nat /\ head <= cachedTail' /\ cachedTail' <= tail
      /\ take' \in Nat /\ head + take' <= cachedTail'
  BY <1>0 DEF Inv, TypeOK, Lag
<1>. QED BY <1>0, <1>1, ReadStartInv

\* Entering a drain preserves the invariant.
LEMMA DrainInv == ASSUME Inv, Drain(MaxDrain) PROVE Inv'
<1>. USE CapAssumption, TotalAssumption, BurstAssumption
<1>. DEFINE avail == cachedTail' - head
            n     == IF avail < MaxDrain THEN avail ELSE MaxDrain
<1>0. /\ buf' = buf /\ head' = head /\ tail' = tail /\ cachedHead' = cachedHead
      /\ cachedTail' = (IF head = cachedTail THEN tail ELSE cachedTail)
      /\ got' = got /\ out' = out
      /\ burst' = burst /\ ppc' = ppc /\ unwritten' = unwritten
      /\ cpc = "idle" /\ take = 0
      /\ IF n > 0 THEN cpc' = "read" /\ take' = n ELSE cpc' = "idle" /\ take' = 0
  BY DEF Inv, Lag, Drain, StartRead, prodVars
<1>1. cachedTail' \in Nat /\ head <= cachedTail' /\ cachedTail' <= tail
  BY <1>0 DEF Inv, TypeOK, Lag
<1>2. n \in Nat /\ head + n <= cachedTail'
  <2>1. head \in Nat /\ MaxDrain \in Nat
    BY DEF Inv, TypeOK
  <2>2. avail \in Nat /\ head + avail = cachedTail'
    <3>1. \A a, b \in Nat : a <= b => b - a \in Nat /\ a + (b - a) = b
      OBVIOUS
    <3>. QED BY <1>1, <2>1, <3>1
  <2>. HIDE DEF avail
  <2>3. n \in Nat /\ n <= avail
    BY <2>1, <2>2
  <2>. QED BY <2>1, <2>2, <2>3
<1>. HIDE DEF n
<1>. QED BY <1>0, <1>1, <1>2, ReadStartInv

\* Loading a slot preserves the invariant: the slot read holds the token of
\* the next sequence number.
LEMMA LoadSlotInv == ASSUME Inv, LoadSlot PROVE Inv'
<1>. USE CapAssumption, TotalAssumption, BurstAssumption
<1>0. /\ buf' = buf /\ head' = head /\ tail' = tail /\ cachedHead' = cachedHead
      /\ cachedTail' = cachedTail /\ cpc' = cpc /\ take' = take
      /\ burst' = burst /\ ppc' = ppc /\ unwritten' = unwritten
      /\ cpc = "read" /\ got < take /\ got' = got + 1
      /\ out' = Append(out, buf[Slot(NextRead)])
  BY DEF LoadSlot, prodVars, NextRead
<1>1. NextRead \in Nat /\ NextRead' = NextRead + 1 /\ NextRead \in NextRead..(tail - 1)
  BY <1>0 DEF Inv, TypeOK, Lag, NextRead
<1>2. out' = Append(out, NextRead + 1) /\ NextRead + 1 \in Nat
  BY <1>0, <1>1 DEF Inv, Contents
<1>3. TypeOK'
  BY <1>0, <1>2 DEF Inv, TypeOK
<1>4. Lag'
  BY <1>0 DEF Inv, TypeOK, Lag
<1>5. Len(out') = Len(out) + 1 /\ Len(out) = NextRead
  BY <1>2 DEF Inv, TypeOK, Progress
<1>6. Progress'
  BY <1>1, <1>5 DEF Progress
<1>7. FifoDelivery'
  <2>. SUFFICES ASSUME NEW i \in 1..Len(out') PROVE out'[i] = i
    BY DEF FifoDelivery
  <2>1. CASE i \in 1..Len(out)
    BY <2>1, <1>2 DEF Inv, TypeOK, FifoDelivery
  <2>2. CASE i = Len(out) + 1
    BY <2>2, <1>2, <1>5 DEF Inv, TypeOK
  <2>. QED BY <2>1, <2>2, <1>1, <1>5
<1>8. Contents'
  <2>1. \A r \in (NextRead')..(tail' - 1) : buf'[Slot(r)] = r + 1
    BY <1>0, <1>1 DEF Inv, TypeOK, Contents
  <2>. QED BY <1>0, <2>1 DEF Inv, Contents, Slot
<1>9. WarmupDrained'
  BY <1>0 DEF Inv, WarmupDrained, InTimedSection
<1>. QED BY <1>3, <1>4, <1>6, <1>7, <1>8, <1>9 DEF Inv

\* Publishing the head preserves the invariant.
LEMMA PublishHeadInv == ASSUME Inv, PublishHead PROVE Inv'
<1>. USE CapAssumption, TotalAssumption, BurstAssumption
<1>0. /\ buf' = buf /\ head' = head + take /\ tail' = tail /\ cachedHead' = cachedHead
      /\ cachedTail' = cachedTail /\ cpc' = "idle" /\ take' = 0 /\ got' = 0
      /\ burst' = burst /\ ppc' = ppc /\ unwritten' = unwritten /\ out' = out
      /\ got = take
  BY DEF PublishHead, prodVars
<1>1. NextRead' = NextRead
  BY <1>0 DEF Inv, TypeOK, NextRead
<1>2. TypeOK'
  BY <1>0 DEF Inv, TypeOK
<1>3. Lag'
  BY <1>0 DEF Inv, TypeOK, Lag
<1>4. Progress' /\ FifoDelivery' /\ Contents'
  BY <1>0, <1>1 DEF Inv, Progress, FifoDelivery, Contents, Slot
<1>5. WarmupDrained'
  BY <1>0 DEF Inv, TypeOK, WarmupDrained, InTimedSection
<1>. QED BY <1>2, <1>3, <1>4, <1>5 DEF Inv

\* Every step of producer or consumer preserves the invariant.
LEMMA NextInv == Inv /\ [Next]_vars => Inv'
<1>. SUFFICES ASSUME Inv, [Next]_vars PROVE Inv'
  OBVIOUS
<1>1. CASE Producer
  BY <1>1, BatchPublishInv, RefreshHeadInv, StoreSlotInv, PublishTailInv DEF Producer
<1>2. CASE Consumer
  BY <1>2, PopInv, RefreshTailInv, DrainInv, LoadSlotInv, PublishHeadInv DEF Consumer
<1>3. CASE UNCHANGED vars
  BY <1>3 DEF vars, prodVars, consVars, Inv, TypeOK, Lag, Progress, Contents,
              FifoDelivery, WarmupDrained, InTimedSection, NextRead, Slot
<1>. QED BY <1>1, <1>2, <1>3 DEF Next, Finished

-----------------------------------------------------------------------------
(* The theorems.                                                           *)

\* The inductive invariant holds in every state of every run of the ring.
THEOREM SpecInv == Spec => []Inv
BY InitInv, NextInv, PTL DEF Spec

\* Every variable of the ring keeps its type.
THEOREM SpecTypeOK == Spec => []TypeOK
<1>1. Inv => TypeOK
  BY DEF Inv
<1>. QED BY <1>1, SpecInv, PTL

\* push and batch_publish never overwrite a slot that pop or drain has still
\* to read, however stale the producer's cached head is.
THEOREM SpecNoOverwrite == Spec => []NoOverwrite
<1>1. Inv => NoOverwrite
  <2>. SUFFICES ASSUME Inv, ppc = "fill", NEW s \in unwritten,
                       NEW r \in NextRead..(tail - 1)
                PROVE  Slot(s) # Slot(r)
    BY DEF NoOverwrite
  <2>1. r \in Nat /\ s \in Nat /\ r < s /\ s < r + Cap
    BY CapAssumption, BurstAssumption DEF Inv, TypeOK, Lag, NextRead
  <2>. QED BY <2>1, SlotsDistinct
<1>. QED BY <1>1, SpecInv, PTL

\* The consumer gets exactly the tokens pushed, in order, none lost, none
\* repeated.
THEOREM SpecFifoDelivery == Spec => []FifoDelivery
<1>1. Inv => FifoDelivery
  BY DEF Inv
<1>. QED BY <1>1, SpecInv, PTL

\* The timed section of the experiment starts only after every warm-up token
\* has been handed over.
THEOREM SpecTimedExcludesWarmup == Spec => []TimedExcludesWarmup
<1>1. Inv => TimedExcludesWarmup
  BY TotalAssumption DEF Inv, TypeOK, Progress, NextRead, WarmupDrained, TimedExcludesWarmup
<1>. QED BY <1>1, SpecInv, PTL

-----------------------------------------------------------------------------
(* The refinement of the bounded FIFO channel.                             *)

\* The tokens from lo + 1 to hi, in order.
Tokens(lo, hi) == [i \in 1..(hi - lo) |-> lo + i]

\* It is a sequence of that many tokens.
LEMMA TokensSeq ==
    ASSUME NEW lo \in Nat, NEW hi \in Nat, lo <= hi
    PROVE  /\ Tokens(lo, hi) \in Seq(Nat) /\ Len(Tokens(lo, hi)) = hi - lo
           /\ \A i \in 1..(hi - lo) : Tokens(lo, hi)[i] = lo + i
<1>1. hi - lo \in Nat /\ \A i \in 1..(hi - lo) : lo + i \in Nat
  OBVIOUS
<1>2. Tokens(lo, hi) \in Seq(Nat)
  BY <1>1, IsASeq DEF Tokens
<1>. QED BY <1>1, <1>2, LenProperties DEF Tokens

\* Publishing appends the tokens that follow.
LEMMA TokensAppended ==
    ASSUME NEW lo \in Nat, NEW mid \in Nat, NEW hi \in Nat, lo <= mid, mid <= hi
    PROVE  Tokens(lo, hi) = Tokens(lo, mid) \o Tokens(mid, hi)
<1>. DEFINE a == Tokens(lo, mid)
            b == Tokens(mid, hi)
            c == Tokens(lo, hi)
<1>1. /\ a \in Seq(Nat) /\ b \in Seq(Nat) /\ c \in Seq(Nat)
      /\ Len(a) = mid - lo /\ Len(b) = hi - mid /\ Len(c) = hi - lo
      /\ \A i \in 1..(mid - lo) : a[i] = lo + i
      /\ \A i \in 1..(hi - mid) : b[i] = mid + i
      /\ \A i \in 1..(hi - lo) : c[i] = lo + i
  <2>1. lo <= hi
    OBVIOUS
  <2>2. a \in Seq(Nat) /\ Len(a) = mid - lo /\ \A i \in 1..(mid - lo) : a[i] = lo + i
    BY TokensSeq
  <2>3. b \in Seq(Nat) /\ Len(b) = hi - mid /\ \A i \in 1..(hi - mid) : b[i] = mid + i
    BY TokensSeq
  <2>4. c \in Seq(Nat) /\ Len(c) = hi - lo /\ \A i \in 1..(hi - lo) : c[i] = lo + i
    BY <2>1, TokensSeq
  <2>. QED BY <2>2, <2>3, <2>4
<1>. HIDE DEF a, b, c
<1>2. /\ a \o b \in Seq(Nat) /\ Len(a \o b) = Len(a) + Len(b)
      /\ \A i \in 1..(Len(a) + Len(b)) : (a \o b)[i] = IF i <= Len(a) THEN a[i] ELSE b[i - Len(a)]
  BY <1>1, ConcatProperties
<1>3. Len(a) + Len(b) = hi - lo
  BY <1>1
<1>4. ASSUME NEW i \in 1..(hi - lo) PROVE c[i] = (a \o b)[i]
  <2>1. CASE i <= mid - lo
    BY <1>1, <1>2, <1>3, <2>1
  <2>2. CASE i > mid - lo
    <3>. DEFINE k == i - (mid - lo)
    <3>1. k \in 1..(hi - mid) /\ mid + k = lo + i
      BY <2>2
    <3>2. (a \o b)[i] = b[k]
      BY <1>1, <1>2, <1>3, <2>2, SMTT(30)
    <3>3. b[k] = mid + k
      BY <1>1, <3>1
    <3>. QED BY <1>1, <3>1, <3>2, <3>3
  <2>3. i <= mid - lo \/ i > mid - lo
    OBVIOUS
  <2>. QED BY <2>1, <2>2, <2>3
<1>5. c = a \o b
  BY <1>1, <1>2, <1>3, <1>4, SeqEqual
<1>. QED BY <1>5 DEF a, b, c

\* Reading takes the first token.
LEMMA TokensTaken ==
    ASSUME NEW lo \in Nat, NEW hi \in Nat, lo < hi
    PROVE  /\ Tokens(lo, hi) # <<>> /\ Head(Tokens(lo, hi)) = lo + 1
           /\ Tail(Tokens(lo, hi)) = Tokens(lo + 1, hi)
<1>. DEFINE a == Tokens(lo, hi)
            b == Tokens(lo + 1, hi)
<1>1. /\ a \in Seq(Nat) /\ b \in Seq(Nat)
      /\ Len(a) = hi - lo /\ Len(b) = hi - (lo + 1)
      /\ \A i \in 1..(hi - lo) : a[i] = lo + i
      /\ \A i \in 1..(hi - (lo + 1)) : b[i] = lo + 1 + i
  <2>1. lo <= hi /\ lo + 1 \in Nat /\ lo + 1 <= hi
    OBVIOUS
  <2>2. a \in Seq(Nat) /\ Len(a) = hi - lo /\ \A i \in 1..(hi - lo) : a[i] = lo + i
    BY <2>1, TokensSeq
  <2>3. /\ b \in Seq(Nat) /\ Len(b) = hi - (lo + 1)
        /\ \A i \in 1..(hi - (lo + 1)) : b[i] = lo + 1 + i
    BY <2>1, TokensSeq
  <2>. QED BY <2>2, <2>3
<1>. HIDE DEF a, b
<1>2. a # <<>> /\ Head(a) = lo + 1
  BY <1>1
<1>3. /\ Tail(a) \in Seq(Nat) /\ Len(Tail(a)) = Len(a) - 1
      /\ \A i \in 1..Len(Tail(a)) : Tail(a)[i] = a[i + 1]
  BY <1>1, <1>2, HeadTailProperties
<1>4. Len(Tail(a)) = hi - (lo + 1) /\ \A i \in 1..(hi - (lo + 1)) : Tail(a)[i] = b[i]
  BY <1>1, <1>3
<1>5. Tail(a) = b
  BY <1>1, <1>3, <1>4, SeqEqual
<1>. QED BY <1>2, <1>5 DEF a, b

\* What the ring shows of the channel: the queue holds the published tokens
\* that are still to be read.
LEMMA QueueIs ==
    Inv => /\ [i \in 1..(tail - NextRead) |-> buf[Slot(NextRead + i - 1)]] = Tokens(NextRead, tail)
           /\ NextRead \in Nat /\ tail \in Nat /\ NextRead <= tail /\ tail <= NextRead + Cap
           /\ Len(out) = NextRead
<1>. SUFFICES ASSUME Inv
              PROVE  /\ [i \in 1..(tail - NextRead) |-> buf[Slot(NextRead + i - 1)]]
                           = Tokens(NextRead, tail)
                     /\ NextRead \in Nat /\ tail \in Nat /\ NextRead <= tail
                     /\ tail <= NextRead + Cap
                     /\ Len(out) = NextRead
  OBVIOUS
<1>. USE CapAssumption, BurstAssumption
<1>1. /\ NextRead \in Nat /\ tail \in Nat /\ NextRead <= tail /\ tail <= NextRead + Cap
      /\ Len(out) = NextRead
  BY DEF Inv, TypeOK, Lag, NextRead, Progress
<1>2. ASSUME NEW i \in 1..(tail - NextRead) PROVE buf[Slot(NextRead + i - 1)] = NextRead + i
  <2>1. NextRead + i - 1 \in NextRead..(tail - 1) /\ NextRead + i - 1 + 1 = NextRead + i
    BY <1>1
  <2>. QED BY <2>1 DEF Inv, Contents
<1>. QED BY <1>1, <1>2 DEF Tokens

\* A step that moves neither end leaves the channel unchanged.
LEMMA ChannelUnchanged ==
    ASSUME Inv, Inv', NextRead' = NextRead, tail' = tail, out' = out
    PROVE  UNCHANGED Fifo!vars
<1>1. Tokens(NextRead, tail)' = Tokens(NextRead, tail)
  BY DEF Tokens
<1>2. [i \in 1..(tail - NextRead) |-> buf[Slot(NextRead + i - 1)]]'
         = [i \in 1..(tail - NextRead) |-> buf[Slot(NextRead + i - 1)]]
  <2>1. ([i \in 1..(tail - NextRead) |-> buf[Slot(NextRead + i - 1)]] = Tokens(NextRead, tail))'
    BY QueueIs, PTL
  <2>. QED BY <1>1, <2>1, QueueIs
<1>. QED BY <1>2 DEF Fifo!vars

\* The Release store of tail is the channel's Send of the whole burst.
LEMMA PublishTailSends ==
    ASSUME Inv, Inv', PublishTail PROVE [Fifo!Next]_(Fifo!vars)
<1>. USE CapAssumption, BurstAssumption
<1>. DEFINE queue == [i \in 1..(tail - NextRead) |-> buf[Slot(NextRead + i - 1)]]
<1>0. /\ tail' = tail + burst /\ NextRead' = NextRead /\ out' = out
      /\ burst \in 0..MaxBurst /\ burst \in Nat /\ tail \in Nat
  BY DEF PublishTail, NextRead, consVars, Inv, TypeOK
<1>1. CASE burst = 0
  BY <1>0, <1>1, ChannelUnchanged
<1>2. CASE burst # 0
  <2>1. /\ queue = Tokens(NextRead, tail)
        /\ NextRead \in Nat /\ tail \in Nat /\ NextRead <= tail
        /\ Len(out) = NextRead
    BY QueueIs
  <2>2. (queue = Tokens(NextRead, tail) /\ tail <= NextRead + Cap)'
    BY QueueIs, PTL
  <2>3. queue' = Tokens(NextRead, tail + burst) /\ tail + burst <= NextRead + Cap
    BY <1>0, <2>2
  <2>4. Len(queue) = tail - NextRead
    BY <2>1, TokensSeq
  <2>5. [i \in 1..burst |-> Len(out) + Len(queue) + i] = Tokens(tail, tail + burst)
    <3>. HIDE DEF queue
    <3>1. (tail + burst) - tail = burst /\ Len(out) + Len(queue) = tail
      BY <1>0, <2>1, <2>4
    <3>2. Tokens(tail, tail + burst) = [i \in 1..burst |-> tail + i]
      BY <3>1 DEF Tokens
    <3>. QED BY <3>1, <3>2
  <2>6. Tokens(NextRead, tail + burst) = Tokens(NextRead, tail) \o Tokens(tail, tail + burst)
    <3>1. tail + burst \in Nat /\ tail <= tail + burst
      BY <1>0
    <3>. QED BY <2>1, <3>1, TokensAppended, ZenonT(40)
  <2>7. burst \in 1..Cap /\ Len(queue) + burst <= Cap
    BY <1>0, <1>2, <2>1, <2>3, <2>4
  <2>. HIDE DEF queue
  <2>8. queue' = queue \o [i \in 1..burst |-> Len(out) + Len(queue) + i]
    BY <2>1, <2>3, <2>5, <2>6
  <2>. QED BY <1>0, <2>7, <2>8 DEF queue, Fifo!Next, Fifo!Send, Fifo!Accepted
<1>. QED BY <1>1, <1>2

\* A slot load is the channel's Receive.
LEMMA LoadSlotReceives ==
    ASSUME Inv, Inv', LoadSlot PROVE [Fifo!Next]_(Fifo!vars)
<1>. USE CapAssumption
<1>. DEFINE queue == [i \in 1..(tail - NextRead) |-> buf[Slot(NextRead + i - 1)]]
<1>0. /\ tail' = tail /\ out' = Append(out, buf[Slot(NextRead)])
      /\ cpc = "read" /\ got < take /\ got' = got + 1 /\ head' = head
  BY DEF LoadSlot, NextRead, prodVars
<1>1. NextRead' = NextRead + 1 /\ NextRead < tail
  BY <1>0 DEF Inv, TypeOK, Lag, NextRead
<1>2. queue = Tokens(NextRead, tail) /\ NextRead \in Nat /\ tail \in Nat
  BY QueueIs
<1>3. (queue = Tokens(NextRead, tail))'
  BY QueueIs, PTL
<1>4. queue' = Tokens(NextRead + 1, tail)
  BY <1>0, <1>1, <1>3
<1>5. buf[Slot(NextRead)] = NextRead + 1
  BY <1>1, <1>2 DEF Inv, Contents
<1>. HIDE DEF queue
<1>6. queue # <<>> /\ Head(queue) = NextRead + 1 /\ Tail(queue) = queue'
  BY <1>1, <1>2, <1>4, TokensTaken
<1>7. out' = Append(out, Head(queue))
  BY <1>0, <1>5, <1>6
<1>. QED BY <1>6, <1>7 DEF queue, Fifo!Next, Fifo!Receive

\* Every step of the ring is a step of the channel or leaves it unchanged.
LEMMA StepRefines ==
    ASSUME Inv, Inv', [Next]_vars PROVE [Fifo!Next]_(Fifo!vars)
<1>1. CASE PublishTail
  BY <1>1, PublishTailSends
<1>2. CASE LoadSlot
  BY <1>2, LoadSlotReceives
<1>3. ASSUME ~PublishTail, ~LoadSlot PROVE NextRead' = NextRead /\ tail' = tail /\ out' = out
  <2>1. CASE PublishHead
    BY <2>1 DEF PublishHead, NextRead, prodVars, Inv, TypeOK
  <2>2. CASE ~PublishHead
    BY <1>3, <2>2 DEF Next, Producer, Consumer, BatchPublish, RefreshHead, StoreSlot, Pop,
       RefreshTail, Drain, Finished, NextRead, vars, prodVars, consVars
  <2>. QED BY <2>1, <2>2
<1>. QED BY <1>1, <1>2, <1>3, ChannelUnchanged

\* An empty ring is an empty channel.
LEMMA InitRefines == Init => Fifo!Init
<1>. SUFFICES ASSUME Init PROVE Fifo!Init
  OBVIOUS
<1>1. tail - NextRead = 0 /\ out = <<>>
  BY DEF Init, NextRead
<1>. QED BY <1>1 DEF Fifo!Init

\* The ring implements the bounded FIFO channel: a burst is one Send, a slot
\* load one Receive, and every other access of shared memory is invisible.
THEOREM RingRefinesFifo == Spec => RefinesFifo
BY InitRefines, StepRefines, SpecInv, PTL DEF Spec, RefinesFifo, Fifo!Spec

-----------------------------------------------------------------------------
(* The latency programs.                                                   *)

USE DEF M!Threads, M!Boxes, M!SendsTo, M!RecvsFrom, M!None, M!Free, M!Labels,
        S!Threads, C!Threads, C!SendsTo, C!RecvsFrom

-----------------------------------------------------------------------------
(* The condvar mailboxes.                                                  *)

\* Before the first round trip.
LEMMA MailboxInit == M!Init => M!Inv
<1>. SUFFICES ASSUME M!Init PROVE M!Inv
  OBVIOUS
<1>. USE HandoffAssumption
<1>1. M!TypeOK
  BY DEF M!Init, M!TypeOK
<1>2. M!FlagMatchesSlot /\ M!FastPathNeverMisses
  BY DEF M!Init, M!FlagMatchesSlot, M!FastPathNeverMisses
<1>3. M!InBox
  BY DEF M!Init, M!InBox, M!LockedBy
<1>4. M!RoundPhase
  BY DEF M!Init, M!RoundPhase, M!If, M!Receiving, M!Sent, M!Taken
<1>. QED BY <1>1, <1>2, <1>3, <1>4 DEF M!Inv

\* Outside the lock, the flag says what is in the slot.
LEMMA FlagFromBox == M!TypeOK /\ M!InBox => M!FlagMatchesSlot
BY DEF M!TypeOK, M!InBox, M!LockedBy, M!FlagMatchesSlot

\* Each step of send and recv keeps the token in its place: the three parts of
\* the invariant from which the flag's meaning follows.
LEMMA MailboxStep ==
    ASSUME M!Inv, NEW t \in M!Threads, M!Step(t) \/ M!SpuriousWake(t)
    PROVE  (M!TypeOK /\ M!FastPathNeverMisses /\ M!InBox /\ M!RoundPhase)'
<1>. USE HandoffAssumption
<1>1. CASE M!LockToSend(t)
  <2>. USE <1>1 DEF M!LockToSend, M!Acquire, M!Goto
  <2>1. M!TypeOK'
    BY DEF M!Inv, M!TypeOK, M!RoundPhase
  <2>2. M!FastPathNeverMisses'
    BY DEF M!Inv, M!TypeOK, M!InBox, M!LockedBy, M!FastPathNeverMisses
  <2>3. M!InBox'
    BY DEF M!Inv, M!TypeOK, M!InBox, M!LockedBy
  <2>4. M!RoundPhase'
    BY DEF M!Inv, M!TypeOK, M!InBox, M!LockedBy, M!RoundPhase, M!If, M!Receiving, M!Sent, M!Taken
  <2>. QED BY <2>1, <2>2, <2>3, <2>4
<1>2. CASE M!FillSlot(t)
  <2>. USE <1>2 DEF M!FillSlot, M!Goto
  <2>0. mToken[t] \in 1..Rounds /\ mSlot[M!SendsTo(t)] = 0
    BY DEF M!Inv, M!TypeOK, M!RoundPhase, M!If, M!Receiving, M!Sent, M!Taken
  <2>1. M!TypeOK'
    BY <2>0 DEF M!Inv, M!TypeOK, M!RoundPhase
  <2>2. M!FastPathNeverMisses'
    BY <2>0 DEF M!Inv, M!TypeOK, M!InBox, M!LockedBy, M!FastPathNeverMisses
  <2>3. M!InBox'
    BY <2>0 DEF M!Inv, M!TypeOK, M!InBox, M!LockedBy
  <2>4. M!RoundPhase'
    BY DEF M!Inv, M!TypeOK, M!InBox, M!LockedBy, M!RoundPhase, M!If, M!Receiving, M!Sent, M!Taken
  <2>. QED BY <2>1, <2>2, <2>3, <2>4
<1>3. CASE M!RaiseFlag(t)
  <2>. USE <1>3 DEF M!RaiseFlag, M!Goto
  <2>1. M!TypeOK'
    BY DEF M!Inv, M!TypeOK, M!RoundPhase
  <2>2. M!FastPathNeverMisses'
    BY DEF M!Inv, M!TypeOK, M!InBox, M!LockedBy, M!FastPathNeverMisses
  <2>3. M!InBox'
    BY DEF M!Inv, M!TypeOK, M!InBox, M!LockedBy
  <2>4. M!RoundPhase'
    BY DEF M!Inv, M!TypeOK, M!InBox, M!LockedBy, M!RoundPhase, M!If, M!Receiving, M!Sent, M!Taken
  <2>. QED BY <2>1, <2>2, <2>3, <2>4
<1>4. CASE M!UnlockAfterSend(t)
  <2>. USE <1>4 DEF M!UnlockAfterSend, M!Release, M!Goto
  <2>1. M!TypeOK'
    BY DEF M!Inv, M!TypeOK, M!RoundPhase
  <2>2. M!FastPathNeverMisses'
    BY DEF M!Inv, M!TypeOK, M!InBox, M!LockedBy, M!FastPathNeverMisses
  <2>3. M!InBox'
    BY DEF M!Inv, M!TypeOK, M!InBox, M!LockedBy
  <2>4. M!RoundPhase'
    BY DEF M!Inv, M!TypeOK, M!InBox, M!LockedBy, M!RoundPhase, M!If, M!Receiving, M!Sent, M!Taken
  <2>. QED BY <2>1, <2>2, <2>3, <2>4
<1>5. CASE M!Notify(t)
  <2>. USE <1>5 DEF M!Notify, M!AfterSend, M!Goto
  <2>1. M!TypeOK'
    BY DEF M!Inv, M!TypeOK, M!RoundPhase
  <2>2. M!FastPathNeverMisses'
    BY DEF M!Inv, M!TypeOK, M!InBox, M!LockedBy, M!FastPathNeverMisses
  <2>3. M!InBox'
    BY DEF M!Inv, M!TypeOK, M!InBox, M!LockedBy
  <2>4. M!RoundPhase'
    BY DEF M!Inv, M!TypeOK, M!InBox, M!LockedBy, M!RoundPhase, M!If, M!Receiving, M!Sent, M!Taken
  <2>. QED BY <2>1, <2>2, <2>3, <2>4
<1>6. CASE M!SpinMiss(t)
  <2>. USE <1>6 DEF M!SpinMiss
  <2>1. M!TypeOK'
    BY DEF M!Inv, M!TypeOK, M!RoundPhase
  <2>2. M!FastPathNeverMisses'
    BY DEF M!Inv, M!TypeOK, M!InBox, M!LockedBy, M!FastPathNeverMisses
  <2>3. M!InBox'
    BY DEF M!Inv, M!TypeOK, M!InBox, M!LockedBy
  <2>4. M!RoundPhase'
    BY DEF M!Inv, M!TypeOK, M!InBox, M!LockedBy, M!RoundPhase, M!If, M!Receiving, M!Sent, M!Taken
  <2>. QED BY <2>1, <2>2, <2>3, <2>4
<1>7. CASE M!SpinHit(t)
  <2>. USE <1>7 DEF M!SpinHit, M!Goto
  <2>1. M!TypeOK'
    BY DEF M!Inv, M!TypeOK, M!RoundPhase
  <2>2. M!FastPathNeverMisses'
    BY DEF M!Inv, M!TypeOK, M!InBox, M!LockedBy, M!FastPathNeverMisses
  <2>3. M!InBox'
    BY DEF M!Inv, M!TypeOK, M!InBox, M!LockedBy
  <2>4. M!RoundPhase'
    BY DEF M!Inv, M!TypeOK, M!InBox, M!LockedBy, M!RoundPhase, M!If, M!Receiving, M!Sent, M!Taken
  <2>. QED BY <2>1, <2>2, <2>3, <2>4
<1>8. CASE M!GiveUpSpinning(t)
  <2>. USE <1>8 DEF M!GiveUpSpinning, M!Goto
  <2>1. M!TypeOK'
    BY DEF M!Inv, M!TypeOK, M!RoundPhase
  <2>2. M!FastPathNeverMisses'
    BY DEF M!Inv, M!TypeOK, M!InBox, M!LockedBy, M!FastPathNeverMisses
  <2>3. M!InBox'
    BY DEF M!Inv, M!TypeOK, M!InBox, M!LockedBy
  <2>4. M!RoundPhase'
    BY DEF M!Inv, M!TypeOK, M!InBox, M!LockedBy, M!RoundPhase, M!If, M!Receiving, M!Sent, M!Taken
  <2>. QED BY <2>1, <2>2, <2>3, <2>4
<1>9. CASE M!LockToRecv(t)
  <2>. USE <1>9 DEF M!LockToRecv, M!Acquire, M!Goto
  <2>1. M!TypeOK'
    BY DEF M!Inv, M!TypeOK, M!RoundPhase
  <2>2. M!FastPathNeverMisses'
    BY DEF M!Inv, M!TypeOK, M!InBox, M!LockedBy, M!FastPathNeverMisses
  <2>3. M!InBox'
    BY DEF M!Inv, M!TypeOK, M!InBox, M!LockedBy
  <2>4. M!RoundPhase'
    BY DEF M!Inv, M!TypeOK, M!InBox, M!LockedBy, M!RoundPhase, M!If, M!Receiving, M!Sent, M!Taken
  <2>. QED BY <2>1, <2>2, <2>3, <2>4
<1>10. CASE M!Take(t)
  <2>. USE <1>10 DEF M!Take, M!Goto
  <2>1. M!TypeOK'
    BY DEF M!Inv, M!TypeOK, M!RoundPhase
  <2>2. M!FastPathNeverMisses'
    BY DEF M!Inv, M!TypeOK, M!InBox, M!LockedBy, M!FastPathNeverMisses
  <2>3. M!InBox'
    BY DEF M!Inv, M!TypeOK, M!InBox, M!LockedBy
  <2>4. M!RoundPhase'
    BY DEF M!Inv, M!TypeOK, M!InBox, M!LockedBy, M!RoundPhase, M!If, M!Receiving, M!Sent, M!Taken
  <2>. QED BY <2>1, <2>2, <2>3, <2>4
<1>11. CASE M!LowerFlag(t)
  <2>. USE <1>11 DEF M!LowerFlag, M!Goto
  <2>0. mSlot[M!RecvsFrom(t)] = 0
    BY DEF M!Inv, M!TypeOK, M!RoundPhase, M!If, M!Receiving, M!Sent, M!Taken
  <2>1. M!TypeOK'
    BY <2>0 DEF M!Inv, M!TypeOK, M!RoundPhase
  <2>2. M!FastPathNeverMisses'
    BY <2>0 DEF M!Inv, M!TypeOK, M!InBox, M!LockedBy, M!FastPathNeverMisses
  <2>3. M!InBox'
    BY <2>0 DEF M!Inv, M!TypeOK, M!InBox, M!LockedBy
  <2>4. M!RoundPhase'
    BY DEF M!Inv, M!TypeOK, M!InBox, M!LockedBy, M!RoundPhase, M!If, M!Receiving, M!Sent, M!Taken
  <2>. QED BY <2>1, <2>2, <2>3, <2>4
<1>12. CASE M!Return(t)
  <2>. USE <1>12 DEF M!Return, M!Release, M!Goto
  <2>1. M!TypeOK'
    BY DEF M!Inv, M!TypeOK, M!RoundPhase
  <2>2. M!FastPathNeverMisses'
    BY DEF M!Inv, M!TypeOK, M!InBox, M!LockedBy, M!FastPathNeverMisses
  <2>3. M!InBox'
    BY DEF M!Inv, M!TypeOK, M!InBox, M!LockedBy
  <2>4. M!RoundPhase'
    BY DEF M!Inv, M!TypeOK, M!InBox, M!LockedBy, M!RoundPhase, M!If, M!Receiving, M!Sent, M!Taken
  <2>. QED BY <2>1, <2>2, <2>3, <2>4
<1>13. CASE M!Park(t)
  <2>. USE <1>13 DEF M!Park, M!Release, M!Goto
  <2>1. M!TypeOK'
    BY DEF M!Inv, M!TypeOK, M!RoundPhase
  <2>2. M!FastPathNeverMisses'
    BY DEF M!Inv, M!TypeOK, M!InBox, M!LockedBy, M!FastPathNeverMisses
  <2>3. M!InBox'
    BY DEF M!Inv, M!TypeOK, M!InBox, M!LockedBy
  <2>4. M!RoundPhase'
    BY DEF M!Inv, M!TypeOK, M!InBox, M!LockedBy, M!RoundPhase, M!If, M!Receiving, M!Sent, M!Taken
  <2>. QED BY <2>1, <2>2, <2>3, <2>4
<1>14. CASE M!SpuriousWake(t)
  <2>. USE <1>14 DEF M!SpuriousWake
  <2>1. M!TypeOK'
    BY DEF M!Inv, M!TypeOK, M!RoundPhase
  <2>2. M!FastPathNeverMisses'
    BY DEF M!Inv, M!TypeOK, M!InBox, M!LockedBy, M!FastPathNeverMisses
  <2>3. M!InBox'
    BY DEF M!Inv, M!TypeOK, M!InBox, M!LockedBy
  <2>4. M!RoundPhase'
    BY DEF M!Inv, M!TypeOK, M!InBox, M!LockedBy, M!RoundPhase, M!If, M!Receiving, M!Sent, M!Taken
  <2>. QED BY <2>1, <2>2, <2>3, <2>4
<1>. QED BY <1>1, <1>2, <1>3, <1>4, <1>5, <1>6, <1>7, <1>8, <1>9, <1>10, <1>11, <1>12, <1>13, <1>14 DEF M!Step

\* The mailboxes stay sound.
LEMMA MailboxNext == ASSUME M!Inv, [M!Next]_mailboxVars PROVE M!Inv'
<1>1. ASSUME NEW t \in M!Threads, M!Step(t) \/ M!SpuriousWake(t) PROVE M!Inv'
  <2>1. (M!TypeOK /\ M!FastPathNeverMisses /\ M!InBox /\ M!RoundPhase)'
    BY <1>1, MailboxStep
  <2>2. M!FlagMatchesSlot'
    BY <2>1, FlagFromBox, PTL
  <2>. QED BY <2>1, <2>2 DEF M!Inv
<1>2. CASE UNCHANGED mailboxVars
  BY <1>2 DEF mailboxVars, M!Inv, M!TypeOK, M!FlagMatchesSlot, M!FastPathNeverMisses, M!InBox,
              M!LockedBy, M!RoundPhase
<1>. QED BY <1>1, <1>2 DEF M!Next, M!vars, mailboxVars

\* One token at a time, from where it is.
LEMMA MailboxOneToken == M!Inv => M!OneTokenInFlight
BY DEF M!Inv, M!TypeOK, M!RoundPhase, M!If, M!Receiving, M!Sent, M!Taken, M!OneTokenInFlight

-----------------------------------------------------------------------------
(* The channels.                                                           *)

\* Before the first round trip.
LEMMA ChannelInit == C!Init => C!Inv
<1>. SUFFICES ASSUME C!Init PROVE C!Inv
  OBVIOUS
<1>. USE HandoffAssumption
<1>1. C!TypeOK
  <2>1. cQueue \in [{"req", "resp"} -> Seq(1..Rounds)]
    <3>1. <<>> \in Seq(1..Rounds)
      OBVIOUS
    <3>2. cQueue = [b \in {"req", "resp"} |-> <<>>]
      BY DEF C!Init
    <3>. QED BY <3>1, <3>2
  <2>2. /\ cPc \in [C!Threads -> {"send", "spin", "recv", "end"}]
        /\ cToken \in [C!Threads -> 0..(Rounds + 1)]
    BY DEF C!Init
  <2>. QED BY <2>1, <2>2 DEF C!Init, C!TypeOK
<1>2. C!RoundPhase
  BY DEF C!Init, C!RoundPhase, C!If, C!Blocked
<1>. QED BY <1>1, <1>2 DEF C!Inv

\* The balance of RoundPhase in numbers: whether the timer waits, whether the
\* responder has the token, and how many tokens each queue holds.
LEMMA ChannelBalance ==
    ASSUME C!Inv
    PROVE  \E a, b \in {0, 1} : \E q, r \in Nat :
               /\ q = Len(cQueue["req"]) /\ r = Len(cQueue["resp"])
               /\ a = 1 <=> cPc["timer"] \in C!Blocked
               /\ b = 1 <=> cPc["responder"] = "send"
               /\ cDone["timer"] \in 0..Rounds /\ cDone["responder"] \in 0..Rounds
               /\ cDone["timer"] + a = cDone["responder"] + b + q
               /\ cDone["responder"] = cDone["timer"] + r
<1>. DEFINE a == C!If(cPc["timer"] \in C!Blocked)
            b == C!If(cPc["responder"] = "send")
            q == Len(cQueue["req"])
            r == Len(cQueue["resp"])
<1>1. /\ a \in {0, 1} /\ (a = 1 <=> cPc["timer"] \in C!Blocked)
      /\ b \in {0, 1} /\ (b = 1 <=> cPc["responder"] = "send")
  BY DEF C!If
<1>2. /\ cQueue["req"] \in Seq(1..Rounds) /\ cQueue["resp"] \in Seq(1..Rounds)
      /\ cDone["timer"] \in 0..Rounds /\ cDone["responder"] \in 0..Rounds
  BY DEF C!Inv, C!TypeOK
<1>3. q \in Nat /\ r \in Nat
  BY <1>2
<1>4. /\ cDone["timer"] + a = cDone["responder"] + b + q
      /\ cDone["responder"] = cDone["timer"] + r
  BY DEF C!Inv, C!RoundPhase
<1>5. q = Len(cQueue["req"]) /\ r = Len(cQueue["resp"])
  OBVIOUS
<1>. HIDE DEF a, b, q, r
<1>. QED BY <1>1, <1>2, <1>3, <1>4, <1>5

\* Where the token is when a thread is about to send: in its hands, with both
\* queues empty and its peer still there.
LEMMA ChannelBeforeSend ==
    ASSUME C!Inv, NEW t \in C!Threads, cPc[t] = "send"
    PROVE  /\ cQueue["req"] = <<>> /\ cQueue["resp"] = <<>> /\ ~C!Gone(C!Peer(t))
           /\ cToken[t] = cDone["timer"] + 1 /\ cToken[t] \in 1..Rounds
           /\ t = "timer" => cPc["responder"] \in C!Blocked /\ cDone["responder"] = cDone["timer"]
           /\ t = "responder" => cPc["timer"] \in C!Blocked /\ cDone["responder"] = cDone["timer"]
<1>. USE HandoffAssumption
<1>1. /\ cQueue["req"] \in Seq(1..Rounds) /\ cQueue["resp"] \in Seq(1..Rounds)
      /\ cPc["timer"] \in {"send", "spin", "recv", "end"}
      /\ cPc["responder"] \in {"send", "spin", "recv", "end"}
  BY DEF C!Inv, C!TypeOK
<1>2. /\ cPc["timer"] = "end" <=> cDone["timer"] = Rounds
      /\ cPc["responder"] = "end" <=> cDone["responder"] = Rounds
      /\ cToken["timer"] = cDone["timer"] + 1
      /\ cPc["responder"] = "send" => cToken["responder"] = cDone["timer"] + 1
  BY DEF C!Inv, C!RoundPhase
<1>3. /\ Len(cQueue["req"]) = 0 /\ Len(cQueue["resp"]) = 0
      /\ cDone["responder"] = cDone["timer"] /\ cDone["timer"] \in 0..Rounds
      /\ cPc["timer"] \in C!Blocked <=> cPc["responder"] = "send"
  <2>1. PICK a \in {0, 1}, b \in {0, 1} : \E q, r \in Nat :
               /\ q = Len(cQueue["req"]) /\ r = Len(cQueue["resp"])
               /\ a = 1 <=> cPc["timer"] \in C!Blocked
               /\ b = 1 <=> cPc["responder"] = "send"
               /\ cDone["timer"] \in 0..Rounds /\ cDone["responder"] \in 0..Rounds
               /\ cDone["timer"] + a = cDone["responder"] + b + q
               /\ cDone["responder"] = cDone["timer"] + r
    BY ChannelBalance
  <2>2. a = 0 \/ b = 1
    <3>1. t = "timer" => cPc["timer"] \notin C!Blocked
      BY DEF C!Blocked
    <3>2. t = "timer" \/ t = "responder"
      OBVIOUS
    <3>. QED BY <2>1, <3>1, <3>2
  <2>3. PICK q \in Nat, r \in Nat :
               /\ q = Len(cQueue["req"]) /\ r = Len(cQueue["resp"])
               /\ a = 1 <=> cPc["timer"] \in C!Blocked
               /\ b = 1 <=> cPc["responder"] = "send"
               /\ cDone["timer"] \in 0..Rounds /\ cDone["responder"] \in 0..Rounds
               /\ cDone["timer"] + a = cDone["responder"] + b + q
               /\ cDone["responder"] = cDone["timer"] + r
    BY <2>1
  <2>4. q = 0 /\ r = 0 /\ a = b
    <3>1. /\ \A d, e \in Nat : d + a = e + b + q /\ e = d + r => a = b + q + r
          /\ a = b + q + r /\ (a = 0 \/ b = 1) => q = 0 /\ r = 0 /\ a = b
      <4>1. a \in 0..1 /\ b \in 0..1 /\ q \in Nat /\ r \in Nat
        OBVIOUS
      <4>. QED BY <4>1
    <3>2. /\ cDone["timer"] \in Nat /\ cDone["responder"] \in Nat
          /\ cDone["timer"] + a = cDone["responder"] + b + q
          /\ cDone["responder"] = cDone["timer"] + r
      BY <2>3
    <3>3. a = b + q + r
      BY <3>1, <3>2
    <3>. QED BY <2>2, <3>1, <3>3
  <2>5. cDone["responder"] = cDone["timer"]
    BY <2>3, <2>4
  <2>. QED BY <2>3, <2>4, <2>5
<1>4. cQueue["req"] = <<>> /\ cQueue["resp"] = <<>>
  BY <1>1, <1>3
<1>5. /\ t = "timer" => cPc["responder"] \in C!Blocked
      /\ t = "responder" => cPc["timer"] \in C!Blocked
      /\ cDone["timer"] # Rounds /\ cToken[t] = cDone["timer"] + 1
  <2>1. CASE t = "timer"
    BY <1>1, <1>2, <1>3, <2>1 DEF C!Blocked
  <2>2. CASE t = "responder"
    BY <1>1, <1>2, <1>3, <2>2 DEF C!Blocked
  <2>. QED BY <2>1, <2>2
<1>6. cToken[t] \in 1..Rounds
  BY <1>3, <1>5
<1>. QED BY <1>3, <1>4, <1>5, <1>6 DEF C!Gone, C!Peer, C!Blocked

\* Where the token is when a thread can receive: alone in its queue.
LEMMA ChannelBeforeReceive ==
    ASSUME C!Inv, NEW t \in C!Threads, cPc[t] \in C!Blocked, ~C!Empty(t)
    PROVE  /\ cQueue[C!RecvsFrom(t)] = <<cDone["timer"] + 1>> /\ cQueue[C!SendsTo(t)] = <<>>
           /\ cDone["timer"] + 1 \in 1..Rounds /\ cPc["timer"] \in C!Blocked
           /\ cPc["responder"] # "send"
           /\ cDone["responder"] = IF t = "timer" THEN cDone["timer"] + 1 ELSE cDone["timer"]
<1>. USE HandoffAssumption
<1>1. /\ Len(cQueue["req"]) \in Nat /\ Len(cQueue["resp"]) \in Nat
      /\ cQueue["req"] \in Seq(1..Rounds) /\ cQueue["resp"] \in Seq(1..Rounds)
  BY DEF C!Inv, C!TypeOK
<1>2. Len(cQueue[C!RecvsFrom(t)]) > 0
  BY <1>1 DEF C!Empty
<1>3. /\ Len(cQueue[C!RecvsFrom(t)]) = 1 /\ Len(cQueue[C!SendsTo(t)]) = 0
      /\ cPc["timer"] \in C!Blocked /\ cPc["responder"] # "send"
      /\ cDone["responder"] = IF t = "timer" THEN cDone["timer"] + 1 ELSE cDone["timer"]
  <2>. DEFINE q == Len(cQueue["req"])
              r == Len(cQueue["resp"])
              a == C!If(cPc["timer"] \in C!Blocked)
              b == C!If(cPc["responder"] = "send")
  <2>1. /\ a \in {0, 1} /\ (a = 1 <=> cPc["timer"] \in C!Blocked)
        /\ b \in {0, 1} /\ (b = 1 <=> cPc["responder"] = "send")
    BY DEF C!If
  <2>2. /\ cDone["timer"] \in Nat /\ cDone["responder"] \in Nat
        /\ cDone["timer"] + a = cDone["responder"] + b + q
        /\ cDone["responder"] = cDone["timer"] + r
    BY DEF C!Inv, C!TypeOK, C!RoundPhase
  <2>. HIDE DEF q, r, a, b
  <2>3. q \in Nat /\ r \in Nat /\ (t = "timer" => r > 0) /\ (t = "responder" => q > 0)
    BY <1>1, <1>2 DEF q, r
  <2>4. /\ a = 1 /\ b = 0
        /\ t = "timer" => r = 1 /\ q = 0
        /\ t = "responder" => r = 0 /\ q = 1
    BY <2>1, <2>2, <2>3
  <2>. QED BY <2>1, <2>2, <2>4 DEF q, r
<1>4. cQueue[C!RecvsFrom(t)][1] = cDone["timer"] + 1
  BY <1>3 DEF C!Inv, C!RoundPhase
<1>5. cDone["timer"] + 1 \in 1..Rounds
  BY <1>3 DEF C!Inv, C!TypeOK, C!RoundPhase, C!Blocked
<1>. QED BY <1>1, <1>3, <1>4, <1>5

\* Each step of the two threads keeps the token in its place.
LEMMA ChannelStep == ASSUME C!Inv, NEW t \in C!Threads, C!Step(t) PROVE C!Inv'
<1>. USE HandoffAssumption
<1>1. CASE C!Send(t)
  <2>1. /\ cPc[t] = "send" /\ cQueue' = [cQueue EXCEPT ![C!SendsTo(t)] = <<cDone["timer"] + 1>>]
        /\ cSpins' = [cSpins EXCEPT ![t] = SpinBudget] /\ cToken' = cToken
        /\ cPc' = [cPc EXCEPT ![t] = IF t = "timer" THEN "spin" ELSE C!NextPc(t, "spin")]
        /\ cDone' = [cDone EXCEPT ![t] = IF t = "timer" THEN @ ELSE @ + 1]
    BY <1>1, ChannelBeforeSend DEF C!Send, C!Inv, C!TypeOK
  <2>2. /\ cQueue["req"] = <<>> /\ cQueue["resp"] = <<>>
        /\ cToken[t] = cDone["timer"] + 1 /\ cToken[t] \in 1..Rounds
        /\ t = "timer" => cPc["responder"] \in C!Blocked
        /\ t = "responder" => cPc["timer"] \in C!Blocked
        /\ cDone["responder"] = cDone["timer"]
    BY <2>1, ChannelBeforeSend
  <2>3. /\ cQueue \in [{"req", "resp"} -> Seq(1..Rounds)] /\ cSpins \in [C!Threads -> 0..SpinBudget]
        /\ cPc \in [C!Threads -> {"send", "spin", "recv", "end"}]
        /\ cToken \in [C!Threads -> 0..(Rounds + 1)] /\ cDone \in [C!Threads -> 0..Rounds]
    BY DEF C!Inv, C!TypeOK
  <2>4. /\ cPc["responder"] = "end" <=> cDone["responder"] = Rounds
        /\ cPc["timer"] = "end" <=> cDone["timer"] = Rounds
        /\ \A u \in C!Threads : cPc[u] = "spin" => cSpins[u] > 0
        /\ cToken["timer"] = cDone["timer"] + 1
    BY DEF C!Inv, C!RoundPhase
  <2>5. <<cDone["timer"] + 1>> \in Seq(1..Rounds) /\ cDone["timer"] \in 0..Rounds /\ cDone["timer"] + 1 \in 0..Rounds
    BY <2>2, <2>3
  <2>6. cQueue' \in [{"req", "resp"} -> Seq(1..Rounds)] /\ cSpins' \in [C!Threads -> 0..SpinBudget]
    BY <2>1, <2>3, <2>5
  <2>7. CASE t = "timer"
    <3>1. /\ cPc' = [cPc EXCEPT !["timer"] = "spin"] /\ cDone' = cDone
          /\ cQueue' = [cQueue EXCEPT !["req"] = <<cDone["timer"] + 1>>]
      BY <2>1, <2>3, <2>7 DEF C!SendsTo
    <3>2. /\ cPc'["timer"] = "spin" /\ cPc'["responder"] \in C!Blocked
          /\ cPc'["responder"] = cPc["responder"]
          /\ cQueue'["req"] = <<cDone["timer"] + 1>> /\ cQueue'["resp"] = <<>>
      BY <2>2, <2>3, <2>7, <3>1
    <3>3. cPc' \in [C!Threads -> {"send", "spin", "recv", "end"}]
      BY <2>3, <3>1
    <3>4. C!TypeOK'
      BY <2>1, <2>3, <2>6, <3>1, <3>3 DEF C!TypeOK
    <3>5. Len(cQueue'["req"]) = 1 /\ cQueue'["req"][1] = cDone["timer"] + 1 /\ Len(cQueue'["resp"]) = 0
      BY <3>2
    <3>6. \A b \in {"req", "resp"} : \A i \in 1..Len(cQueue'[b]) : cQueue'[b][i] = cDone'["timer"] + 1
      BY <3>1, <3>5
    <3>7. /\ cDone'["timer"] + C!If(cPc'["timer"] \in C!Blocked)
               = cDone'["responder"] + C!If(cPc'["responder"] = "send") + Len(cQueue'["req"])
          /\ cDone'["responder"] = cDone'["timer"] + Len(cQueue'["resp"])
      <4>1. C!If(cPc'["timer"] \in C!Blocked) = 1 /\ C!If(cPc'["responder"] = "send") = 0
        BY <3>2 DEF C!If, C!Blocked
      <4>. QED BY <2>2, <2>5, <3>1, <3>5, <4>1
    <3>8. \A u \in C!Threads : (cPc'[u] = "end" <=> cDone'[u] = Rounds) /\ (cPc'[u] = "spin" => cSpins'[u] > 0)
      <4>1. cPc["timer"] = "send" /\ cDone["timer"] # Rounds
        BY <2>1, <2>4, <2>7
      <4>. QED BY <2>1, <2>3, <2>4, <2>7, <3>1, <3>2, <4>1
    <3>9. C!RoundPhase'
      <4>1. cToken'["timer"] = cDone'["timer"] + 1 /\ cPc'["responder"] # "send"
        BY <2>1, <2>4, <3>1, <3>2 DEF C!Blocked
      <4>. QED BY <3>6, <3>7, <3>8, <4>1 DEF C!RoundPhase, C!If
    <3>. QED BY <3>4, <3>9 DEF C!Inv
  <2>8. CASE t = "responder"
    <3>1. /\ cPc' = [cPc EXCEPT !["responder"] = IF cDone["responder"] + 1 = Rounds THEN "end" ELSE "spin"]
          /\ cDone' = [cDone EXCEPT !["responder"] = cDone["responder"] + 1]
          /\ cQueue' = [cQueue EXCEPT !["resp"] = <<cDone["timer"] + 1>>]
      BY <2>1, <2>3, <2>8 DEF C!SendsTo, C!NextPc
    <3>2. /\ cPc'["responder"] = IF cDone["timer"] + 1 = Rounds THEN "end" ELSE "spin"
          /\ cPc'["timer"] = cPc["timer"] /\ cPc'["timer"] \in C!Blocked
          /\ cDone'["timer"] = cDone["timer"] /\ cDone'["responder"] = cDone["timer"] + 1
          /\ cQueue'["resp"] = <<cDone["timer"] + 1>> /\ cQueue'["req"] = <<>>
      BY <2>2, <2>3, <2>8, <3>1
    <3>3. cPc' \in [C!Threads -> {"send", "spin", "recv", "end"}] /\ cDone' \in [C!Threads -> 0..Rounds]
      <4>1. cPc' \in [C!Threads -> {"send", "spin", "recv", "end"}]
        BY <2>3, <3>1
      <4>2. cDone' \in [C!Threads -> 0..Rounds]
        BY <2>2, <2>3, <2>5, <3>1
      <4>. QED BY <4>1, <4>2
    <3>4. C!TypeOK'
      BY <2>1, <2>3, <2>6, <3>3 DEF C!TypeOK
    <3>5. Len(cQueue'["resp"]) = 1 /\ cQueue'["resp"][1] = cDone["timer"] + 1 /\ Len(cQueue'["req"]) = 0
      BY <3>2
    <3>6. \A b \in {"req", "resp"} : \A i \in 1..Len(cQueue'[b]) : cQueue'[b][i] = cDone'["timer"] + 1
      BY <3>2, <3>5
    <3>7. /\ cDone'["timer"] + C!If(cPc'["timer"] \in C!Blocked)
               = cDone'["responder"] + C!If(cPc'["responder"] = "send") + Len(cQueue'["req"])
          /\ cDone'["responder"] = cDone'["timer"] + Len(cQueue'["resp"])
      <4>1. C!If(cPc'["timer"] \in C!Blocked) = 1 /\ C!If(cPc'["responder"] = "send") = 0
        BY <3>2 DEF C!If, C!Blocked
      <4>. QED BY <2>5, <3>2, <3>5, <4>1
    <3>8. \A u \in C!Threads : (cPc'[u] = "end" <=> cDone'[u] = Rounds) /\ (cPc'[u] = "spin" => cSpins'[u] > 0)
      <4>1. cSpins'["responder"] = SpinBudget /\ cSpins'["timer"] = cSpins["timer"]
        BY <2>1, <2>3, <2>8
      <4>. QED BY <2>4, <3>2, <4>1
    <3>9. C!RoundPhase'
      <4>1. cToken'["timer"] = cDone'["timer"] + 1 /\ cPc'["responder"] # "send"
        BY <2>1, <2>4, <3>2
      <4>. QED BY <3>6, <3>7, <3>8, <4>1 DEF C!RoundPhase, C!If
    <3>. QED BY <3>4, <3>9 DEF C!Inv
  <2>. QED BY <2>7, <2>8
<1>2. CASE C!SpinMiss(t)
  <2>1. C!TypeOK'
    <3>1. /\ cPc[t] = "spin" /\ cSpins[t] \in 0..SpinBudget /\ cSpins[t] > 0
          /\ cSpins' = [cSpins EXCEPT ![t] = cSpins[t] - 1]
          /\ cPc' = [cPc EXCEPT ![t] = IF cSpins[t] = 1 THEN "recv" ELSE "spin"]
          /\ cQueue' = cQueue /\ cToken' = cToken /\ cDone' = cDone
      BY <1>2 DEF C!Inv, C!TypeOK, C!RoundPhase, C!SpinMiss
    <3>2. cSpins[t] - 1 \in 0..SpinBudget
      BY <3>1
    <3>3. cSpins' \in [C!Threads -> 0..SpinBudget]
      BY <3>1, <3>2 DEF C!Inv, C!TypeOK
    <3>4. cPc' \in [C!Threads -> {"send", "spin", "recv", "end"}]
      BY <3>1 DEF C!Inv, C!TypeOK
    <3>. QED BY <3>1, <3>3, <3>4 DEF C!Inv, C!TypeOK
  <2>3. /\ cQueue' = cQueue /\ cDone' = cDone /\ cToken' = cToken
        /\ \A u \in C!Threads :
              /\ cPc'[u] \in C!Blocked <=> cPc[u] \in C!Blocked
              /\ cPc'[u] = "send" <=> cPc[u] = "send"
              /\ cPc'[u] = "end" <=> cPc[u] = "end"
              /\ cPc'[u] = "spin" => cSpins'[u] > 0
    BY <1>2 DEF C!Inv, C!TypeOK, C!RoundPhase, C!SpinMiss, C!Blocked
  <2>2. C!RoundPhase'
    BY <2>3 DEF C!Inv, C!RoundPhase, C!If
  <2>. QED BY <2>1, <2>2 DEF C!Inv
<1>3. CASE C!Receive(t)
  <2>1. /\ cPc[t] \in C!Blocked /\ ~C!Empty(t) /\ cSpins' = cSpins
        /\ cQueue' = [cQueue EXCEPT ![C!RecvsFrom(t)] = <<>>]
        /\ cToken' = [cToken EXCEPT ![t] = IF t = "timer" THEN cDone["timer"] + 2 ELSE cDone["timer"] + 1]
        /\ cPc' = [cPc EXCEPT ![t] = IF t = "timer" THEN C!NextPc(t, "send") ELSE "send"]
        /\ cDone' = [cDone EXCEPT ![t] = IF t = "timer" THEN @ + 1 ELSE @]
    <3>1. cPc[t] \in C!Blocked /\ ~C!Empty(t)
      BY <1>3 DEF C!Receive, C!Blocked
    <3>2. cQueue[C!RecvsFrom(t)] = <<cDone["timer"] + 1>>
      BY <3>1, ChannelBeforeReceive
    <3>3. Tail(cQueue[C!RecvsFrom(t)]) = <<>> /\ Head(cQueue[C!RecvsFrom(t)]) = cDone["timer"] + 1
      BY <3>2
    <3>4. t = "responder" => Head(cQueue["req"]) = cDone["timer"] + 1
      BY <3>3
    <3>. QED BY <1>3, <3>1, <3>3, <3>4 DEF C!Receive, C!Inv, C!TypeOK
  <2>2. /\ cQueue[C!SendsTo(t)] = <<>> /\ cDone["timer"] + 1 \in 1..Rounds
        /\ cPc["timer"] \in C!Blocked /\ cPc["responder"] # "send"
        /\ cDone["responder"] = IF t = "timer" THEN cDone["timer"] + 1 ELSE cDone["timer"]
    BY <2>1, ChannelBeforeReceive
  <2>3. /\ cQueue \in [{"req", "resp"} -> Seq(1..Rounds)] /\ cSpins \in [C!Threads -> 0..SpinBudget]
        /\ cPc \in [C!Threads -> {"send", "spin", "recv", "end"}]
        /\ cToken \in [C!Threads -> 0..(Rounds + 1)] /\ cDone \in [C!Threads -> 0..Rounds]
    BY DEF C!Inv, C!TypeOK
  <2>4. /\ cPc["responder"] = "end" <=> cDone["responder"] = Rounds
        /\ \A u \in C!Threads : cPc[u] = "spin" => cSpins[u] > 0
        /\ cToken["timer"] = cDone["timer"] + 1
    BY DEF C!Inv, C!RoundPhase
  <2>5. cQueue' \in [{"req", "resp"} -> Seq(1..Rounds)] /\ cQueue'["req"] = <<>> /\ cQueue'["resp"] = <<>>
    BY <2>1, <2>2, <2>3
  <2>6. cSpins' \in [C!Threads -> 0..SpinBudget]
    BY <2>1, <2>3
  <2>7. CASE t = "timer"
    <3>1. /\ cPc' = [cPc EXCEPT !["timer"] = IF cDone["timer"] + 1 = Rounds THEN "end" ELSE "send"]
          /\ cDone' = [cDone EXCEPT !["timer"] = cDone["timer"] + 1]
          /\ cToken' = [cToken EXCEPT !["timer"] = cDone["timer"] + 2]
          /\ cDone["responder"] = cDone["timer"] + 1
      BY <2>1, <2>2, <2>7 DEF C!NextPc
    <3>2. /\ cPc'["timer"] = IF cDone["timer"] + 1 = Rounds THEN "end" ELSE "send"
          /\ cPc'["responder"] = cPc["responder"]
          /\ cDone'["timer"] = cDone["timer"] + 1 /\ cDone'["responder"] = cDone["timer"] + 1
          /\ cToken'["timer"] = cDone["timer"] + 2
      BY <2>3, <3>1
    <3>3. /\ cPc' \in [C!Threads -> {"send", "spin", "recv", "end"}]
          /\ cToken' \in [C!Threads -> 0..(Rounds + 1)] /\ cDone' \in [C!Threads -> 0..Rounds]
      <4>1. cDone["timer"] + 1 \in 0..Rounds /\ cDone["timer"] + 2 \in 0..(Rounds + 1)
        <5>1. cDone["timer"] \in 0..Rounds /\ cDone["timer"] + 1 \in 1..Rounds
          BY <2>2, <2>3
        <5>. QED BY <5>1
      <4>2. cPc' \in [C!Threads -> {"send", "spin", "recv", "end"}]
        BY <2>3, <3>1
      <4>3. cToken' \in [C!Threads -> 0..(Rounds + 1)]
        BY <2>3, <3>1, <4>1
      <4>4. cDone' \in [C!Threads -> 0..Rounds]
        BY <2>3, <3>1, <4>1
      <4>. QED BY <4>2, <4>3, <4>4
    <3>4. C!TypeOK'
      BY <2>5, <2>6, <3>3 DEF C!TypeOK
    <3>5. C!RoundPhase'
      <4>1. /\ cPc'["timer"] \notin {"spin", "recv"} /\ cPc'["responder"] # "send"
            /\ cDone'["timer"] \in Nat
        BY <2>2, <2>3, <3>2
      <4>2. \A u \in C!Threads : (cPc'[u] = "end" <=> cDone'[u] = Rounds) /\ (cPc'[u] = "spin" => cSpins'[u] > 0)
        BY <2>1, <2>4, <3>1, <3>2
      <4>3. Len(cQueue'["req"]) = 0 /\ Len(cQueue'["resp"]) = 0
        BY <2>5
      <4>4. \A b \in {"req", "resp"} : \A i \in 1..Len(cQueue'[b]) : cQueue'[b][i] = cDone'["timer"] + 1
        BY <4>3
      <4>5. /\ cDone'["timer"] + C!If(cPc'["timer"] \in C!Blocked)
                 = cDone'["responder"] + C!If(cPc'["responder"] = "send") + Len(cQueue'["req"])
            /\ cDone'["responder"] = cDone'["timer"] + Len(cQueue'["resp"])
        <5>1. C!If(cPc'["timer"] \in C!Blocked) = 0 /\ C!If(cPc'["responder"] = "send") = 0
          BY <4>1 DEF C!If, C!Blocked
        <5>. QED BY <3>2, <4>1, <4>3, <5>1
      <4>6. /\ cToken'["timer"] = cDone'["timer"] + 1
            /\ cPc'["responder"] = "send" => cToken'["responder"] = cDone'["timer"] + 1
        <5>1. cDone["timer"] \in 0..Rounds
          BY <2>3
        <5>. QED BY <3>2, <4>1, <5>1
      <4>. QED BY <4>2, <4>4, <4>5, <4>6 DEF C!RoundPhase, C!If
    <3>. QED BY <3>4, <3>5 DEF C!Inv
  <2>8. CASE t = "responder"
    <3>1. /\ cPc' = [cPc EXCEPT !["responder"] = "send"]
          /\ cDone' = cDone /\ cDone["responder"] = cDone["timer"]
          /\ cToken' = [cToken EXCEPT !["responder"] = cDone["timer"] + 1]
      BY <2>1, <2>2, <2>3, <2>8
    <3>2. /\ cPc'["timer"] = cPc["timer"] /\ cPc'["responder"] = "send"
          /\ cToken'["timer"] = cToken["timer"] /\ cToken'["responder"] = cDone["timer"] + 1
      BY <2>3, <3>1
    <3>3. /\ cPc' \in [C!Threads -> {"send", "spin", "recv", "end"}]
          /\ cToken' \in [C!Threads -> 0..(Rounds + 1)] /\ cDone' \in [C!Threads -> 0..Rounds]
      <4>1. cDone["timer"] + 1 \in 0..(Rounds + 1)
        BY <2>2
      <4>2. cPc' \in [C!Threads -> {"send", "spin", "recv", "end"}]
        BY <2>3, <3>1
      <4>3. cToken' \in [C!Threads -> 0..(Rounds + 1)]
        BY <2>3, <3>1, <4>1
      <4>. QED BY <2>3, <3>1, <4>2, <4>3
    <3>4. C!TypeOK'
      BY <2>5, <2>6, <3>3 DEF C!TypeOK
    <3>5. C!RoundPhase'
      <4>1. /\ cPc'["timer"] \in {"spin", "recv"} /\ cDone["timer"] \in Nat /\ cDone["timer"] # Rounds
        BY <2>2, <2>3, <3>2 DEF C!Blocked
      <4>2. \A u \in C!Threads : (cPc'[u] = "end" <=> cDone'[u] = Rounds) /\ (cPc'[u] = "spin" => cSpins'[u] > 0)
        BY <2>1, <2>4, <3>1, <3>2, <4>1
      <4>3. Len(cQueue'["req"]) = 0 /\ Len(cQueue'["resp"]) = 0
        BY <2>5
      <4>4. \A b \in {"req", "resp"} : \A i \in 1..Len(cQueue'[b]) : cQueue'[b][i] = cDone'["timer"] + 1
        BY <4>3
      <4>5. /\ cDone'["timer"] + C!If(cPc'["timer"] \in C!Blocked)
                 = cDone'["responder"] + C!If(cPc'["responder"] = "send") + Len(cQueue'["req"])
            /\ cDone'["responder"] = cDone'["timer"] + Len(cQueue'["resp"])
        <5>1. C!If(cPc'["timer"] \in C!Blocked) = 1 /\ C!If(cPc'["responder"] = "send") = 1
          BY <3>2, <4>1 DEF C!If, C!Blocked
        <5>. QED BY <3>1, <4>1, <4>3, <5>1
      <4>6. /\ cToken'["timer"] = cDone'["timer"] + 1
            /\ cPc'["responder"] = "send" => cToken'["responder"] = cDone'["timer"] + 1
        BY <2>4, <3>1, <3>2
      <4>. QED BY <4>2, <4>4, <4>5, <4>6 DEF C!RoundPhase, C!If
    <3>. QED BY <3>4, <3>5 DEF C!Inv
  <2>. QED BY <2>7, <2>8
<1>. QED BY <1>1, <1>2, <1>3 DEF C!Step

\* The channels stay sound.
LEMMA ChannelNext == ASSUME C!Inv, [C!Next]_channelVars PROVE C!Inv'
<1>1. CASE UNCHANGED channelVars
  BY <1>1 DEF channelVars, C!Inv, C!TypeOK, C!RoundPhase
<1>. QED BY <1>1, ChannelStep DEF C!Next, C!vars, channelVars

\* One token at a time, from where it is.
LEMMA ChannelOneToken == C!Inv => C!OneTokenInFlight
BY SMTT(30) DEF C!Inv, C!TypeOK, C!RoundPhase, C!If, C!Blocked, C!OneTokenInFlight

-----------------------------------------------------------------------------
(* The atomic slots.                                                       *)

\* The stores of a buffer that holds one or two of them.
LEMMA OneStore ==
    ASSUME NEW x PROVE Len(<<x>>) = 1 /\ <<x>>[1] = x /\ S!RemoveAt(<<x>>, 1) = <<>>
<1>1. SubSeq(<<x>>, 1, 0) = <<>> /\ SubSeq(<<x>>, 2, 1) = <<>>
  OBVIOUS
<1>. QED BY <1>1 DEF S!RemoveAt

\* Removing the older of two stores.
LEMMA TwoStores ==
    ASSUME NEW x, NEW y
    PROVE  /\ Len(<<x, y>>) = 2 /\ <<x, y>>[1] = x /\ <<x, y>>[2] = y
           /\ S!RemoveAt(<<x, y>>, 1) = <<y>>
<1>. DEFINE s == <<x, y>>
            V == {x, y}
<1>1. s \in Seq(V) /\ Len(s) = 2 /\ s[1] = x /\ s[2] = y
  OBVIOUS
<1>. HIDE DEF s
<1>2. SubSeq(s, 1, 0) = <<>>
  BY <1>1
<1>3. /\ SubSeq(s, 2, 2) \in Seq(V) /\ Len(SubSeq(s, 2, 2)) = 1 /\ SubSeq(s, 2, 2)[1] = y
  BY <1>1
<1>4. SubSeq(s, 2, 2) = <<y>>
  <2>1. <<y>> \in Seq(V) /\ Len(<<y>>) = 1 /\ <<y>>[1] = y
    OBVIOUS
  <2>2. \A i \in 1..1 : i = 1
    OBVIOUS
  <2>. HIDE DEF V
  <2>. QED BY <1>3, <2>1, <2>2, SeqEqual
<1>5. <<>> \o SubSeq(s, 2, 2) = <<y>>
  BY <1>4
<1>6. S!RemoveAt(s, 1) = <<y>>
  <2>1. 1 - 1 = 0 /\ 1 + 1 = 2
    OBVIOUS
  <2>2. S!RemoveAt(s, 1) = SubSeq(s, 1, 0) \o SubSeq(s, 2, Len(s))
    BY <2>1 DEF S!RemoveAt
  <2>. QED BY <1>1, <1>2, <1>5, <2>2
<1>. QED BY <1>1, <1>6 DEF s

\* A thread lowers one slot and raises the other: what its buffer holds says
\* what it has in flight to each.
LEMMA StoresToSlot ==
    ASSUME NEW t, NEW low, NEW high, low.slot # high.slot,
           sBuffer[t] \in {<<>>, <<low>>, <<high>>, <<low, high>>}
    PROVE  /\ S!OwnStores(t, low.slot) # {} <=> sBuffer[t] \in {<<low>>, <<low, high>>}
           /\ S!OwnStores(t, high.slot) # {} <=> sBuffer[t] \in {<<high>>, <<low, high>>}
<1>1. CASE sBuffer[t] = <<>>
  <2>1. <<>> # <<low>> /\ <<>> # <<high>> /\ <<>> # <<low, high>>
    OBVIOUS
  <2>. QED BY <1>1, <2>1 DEF S!OwnStores
<1>2. ASSUME NEW x \in {low, high}, sBuffer[t] = <<x>>
      PROVE  /\ \A slot : S!OwnStores(t, slot) # {} <=> x.slot = slot
             /\ sBuffer[t] # <<low, high>>
             /\ sBuffer[t] = <<low>> <=> x = low
             /\ sBuffer[t] = <<high>> <=> x = high
  <2>1. Len(<<x>>) = 1 /\ <<x>>[1] = x /\ Len(<<low, high>>) = 2
    OBVIOUS
  <2>2. 1..Len(sBuffer[t]) = {1} /\ sBuffer[t][1] = x
    BY <1>2, <2>1
  <2>3. \A slot : S!OwnStores(t, slot) # {} <=> x.slot = slot
    BY <2>2 DEF S!OwnStores
  <2>4. (<<x>> = <<low>> <=> x = low) /\ (<<x>> = <<high>> <=> x = high)
    OBVIOUS
  <2>. QED BY <1>2, <2>1, <2>3, <2>4
<1>3. CASE sBuffer[t] = <<low, high>>
  <2>1. Len(<<low, high>>) = 2 /\ <<low, high>>[1] = low /\ <<low, high>>[2] = high
    OBVIOUS
  <2>2. 1 \in S!OwnStores(t, low.slot) /\ 2 \in S!OwnStores(t, high.slot)
    BY <1>3, <2>1 DEF S!OwnStores
  <2>. QED BY <1>3, <2>2
<1>. QED BY <1>1, <1>2, <1>3

\* What a thread has in flight to a slot, by the form of its buffer.
SlotsOfForms ==
    /\ S!OwnStores("timer", "resp") # {} <=>
          sBuffer["timer"] \in {<<S!Lower("resp")>>, <<S!Lower("resp"), S!Raise("req")>>}
    /\ S!OwnStores("timer", "req") # {} <=>
          sBuffer["timer"] \in {<<S!Raise("req")>>, <<S!Lower("resp"), S!Raise("req")>>}
    /\ S!OwnStores("responder", "req") # {} <=>
          sBuffer["responder"] \in {<<S!Lower("req")>>, <<S!Lower("req"), S!Raise("resp")>>}
    /\ S!OwnStores("responder", "resp") # {} <=>
          sBuffer["responder"] \in {<<S!Raise("resp")>>, <<S!Lower("req"), S!Raise("resp")>>}

\* The form of a buffer says which slots it still has stores for.
LEMMA OwnStoresAre == S!StoresInOrder => SlotsOfForms
<1>. SUFFICES ASSUME S!StoresInOrder PROVE SlotsOfForms
  OBVIOUS
<1>1. /\ S!Lower("resp").slot = "resp" /\ S!Raise("req").slot = "req"
      /\ S!Lower("req").slot = "req" /\ S!Raise("resp").slot = "resp"
  BY DEF S!Lower, S!Raise
<1>2. sBuffer["timer"] \in {<<>>, <<S!Lower("resp")>>, <<S!Raise("req")>>, <<S!Lower("resp"), S!Raise("req")>>}
  BY DEF S!StoresInOrder
<1>3. sBuffer["responder"] \in {<<>>, <<S!Lower("req")>>, <<S!Raise("resp")>>, <<S!Lower("req"), S!Raise("resp")>>}
  BY DEF S!StoresInOrder
<1>4. \A t, low, high :
         low.slot # high.slot /\ sBuffer[t] \in {<<>>, <<low>>, <<high>>, <<low, high>>} =>
            /\ S!OwnStores(t, low.slot) # {} <=> sBuffer[t] \in {<<low>>, <<low, high>>}
            /\ S!OwnStores(t, high.slot) # {} <=> sBuffer[t] \in {<<high>>, <<low, high>>}
  BY StoresToSlot, Zenon
<1>5. /\ S!OwnStores("timer", "resp") # {} <=>
            sBuffer["timer"] \in {<<S!Lower("resp")>>, <<S!Lower("resp"), S!Raise("req")>>}
      /\ S!OwnStores("timer", "req") # {} <=>
            sBuffer["timer"] \in {<<S!Raise("req")>>, <<S!Lower("resp"), S!Raise("req")>>}
  <2>1. S!Lower("resp").slot # S!Raise("req").slot
    BY <1>1
  <2>2. /\ S!OwnStores("timer", S!Lower("resp").slot) # {} <=>
              sBuffer["timer"] \in {<<S!Lower("resp")>>, <<S!Lower("resp"), S!Raise("req")>>}
        /\ S!OwnStores("timer", S!Raise("req").slot) # {} <=>
              sBuffer["timer"] \in {<<S!Raise("req")>>, <<S!Lower("resp"), S!Raise("req")>>}
    BY <1>2, <1>4, <2>1, Zenon
  <2>. QED BY <1>1, <2>2
<1>6. /\ S!OwnStores("responder", "req") # {} <=>
            sBuffer["responder"] \in {<<S!Lower("req")>>, <<S!Lower("req"), S!Raise("resp")>>}
      /\ S!OwnStores("responder", "resp") # {} <=>
            sBuffer["responder"] \in {<<S!Raise("resp")>>, <<S!Lower("req"), S!Raise("resp")>>}
  <2>1. S!Lower("req").slot # S!Raise("resp").slot
    BY <1>1
  <2>2. /\ S!OwnStores("responder", S!Lower("req").slot) # {} <=>
              sBuffer["responder"] \in {<<S!Lower("req")>>, <<S!Lower("req"), S!Raise("resp")>>}
        /\ S!OwnStores("responder", S!Raise("resp").slot) # {} <=>
              sBuffer["responder"] \in {<<S!Raise("resp")>>, <<S!Lower("req"), S!Raise("resp")>>}
    BY <1>3, <1>4, <2>1, Zenon
  <2>. QED BY <1>1, <2>2
<1>. QED BY <1>5, <1>6 DEF SlotsOfForms

\* The forms of a buffer are different.
LEMMA FormsDiffer ==
    ASSUME NEW x, NEW y, x # y
    PROVE  /\ <<>> # <<x>> /\ <<>> # <<y>> /\ <<>> # <<x, y>>
           /\ <<x>> # <<y>> /\ <<x>> # <<x, y>> /\ <<y>> # <<x, y>>
<1>1. Len(<<>>) = 0 /\ Len(<<x>>) = 1 /\ Len(<<y>>) = 1 /\ Len(<<x, y>>) = 2
  OBVIOUS
<1>2. <<x>>[1] = x /\ <<y>>[1] = y
  OBVIOUS
<1>. QED BY <1>1, <1>2

\* The forms of the two threads' buffers.
LEMMA BufferForms ==
    /\ <<>> # <<S!Lower("resp")>> /\ <<>> # <<S!Raise("req")>> /\ <<>> # <<S!Lower("resp"), S!Raise("req")>>
    /\ <<S!Lower("resp")>> # <<S!Raise("req")>>
    /\ <<S!Lower("resp")>> # <<S!Lower("resp"), S!Raise("req")>>
    /\ <<S!Raise("req")>> # <<S!Lower("resp"), S!Raise("req")>>
    /\ <<>> # <<S!Lower("req")>> /\ <<>> # <<S!Raise("resp")>> /\ <<>> # <<S!Lower("req"), S!Raise("resp")>>
    /\ <<S!Lower("req")>> # <<S!Raise("resp")>>
    /\ <<S!Lower("req")>> # <<S!Lower("req"), S!Raise("resp")>>
    /\ <<S!Raise("resp")>> # <<S!Lower("req"), S!Raise("resp")>>
<1>1. S!Lower("resp") # S!Raise("req") /\ S!Lower("req") # S!Raise("resp")
  BY DEF S!Lower, S!Raise
<1>. QED BY <1>1, FormsDiffer

\* A token that is awaited is not erased: it follows from where the slots and
\* the stores in flight are.
LEMMA NothingErased ==
    S!TypeOK /\ S!RoundsInStep /\ S!StoresInOrder /\ S!SlotsFollow => S!NoTokenErased
<1>. SUFFICES ASSUME S!TypeOK, S!RoundsInStep, S!StoresInOrder, S!SlotsFollow
              PROVE  S!NoTokenErased
  OBVIOUS
<1>0. sPosted \in Nat /\ sAnswered \in Nat /\ sDone \in Nat
  BY HandoffAssumption DEF S!TypeOK
<1>1. ASSUME sPc["responder"] = "wait", sPosted > sAnswered
      PROVE  S!Raised("timer", "req") /\ S!OwnStores("responder", "req") = {}
  <2>1. sPosted = sAnswered + 1 /\ sAnswered = sDone
    BY <1>0, <1>1 DEF S!RoundsInStep
  <2>2. S!OwnStores("responder", "req") = {}
    BY <1>0, <1>1, <2>1 DEF S!SlotsFollow
  <2>3. sMem["req"] = 1 \/ S!OwnStores("timer", "req") # {}
    BY <1>1, <2>1, <2>2 DEF S!SlotsFollow
  <2>. QED BY <2>2, <2>3 DEF S!Raised, S!OwnStores
<1>2. ASSUME sPc["timer"] = "wait", sAnswered = sPosted
      PROVE  S!Raised("responder", "resp") /\ S!OwnStores("timer", "resp") = {}
  <2>1. sAnswered = sDone + 1
    BY <1>0, <1>2 DEF S!SlotsFollow
  <2>2. S!OwnStores("timer", "resp") = {}
    BY <1>0, <2>1 DEF S!SlotsFollow
  <2>3. sMem["resp"] = 1 \/ S!OwnStores("responder", "resp") # {}
    BY <2>1, <2>2 DEF S!SlotsFollow
  <2>. QED BY <2>2, <2>3 DEF S!Raised, S!OwnStores
<1>. QED BY <1>1, <1>2 DEF S!NoTokenErased

\* Before the first round trip.
LEMMA SlotsInit == S!Init => S!Inv
<1>. SUFFICES ASSUME S!Init PROVE S!Inv
  OBVIOUS
<1>. USE HandoffAssumption
<1>1. S!TypeOK
  <2>1. sMem \in [{"req", "resp"} -> {0, 1}]
    BY DEF S!Init
  <2>2. sLadder \in [spins : 0..MaxSpins, yields : 0..MaxYields, park : MinPark..MaxPark]
    BY DEF S!Init, S!NewLadder
  <2>. QED BY <2>1, <2>2 DEF S!Init, S!TypeOK
<1>2. S!RoundsInStep
  BY DEF S!Init, S!RoundsInStep
<1>3. S!StoresInOrder
  BY DEF S!Init, S!StoresInOrder
<1>4. \A t \in S!Threads : \A slot : S!OwnStores(t, slot) = {}
  BY DEF S!Init, S!OwnStores
<1>5. S!SlotsFollow
  BY <1>4 DEF S!Init, S!SlotsFollow
<1>. QED BY <1>1, <1>2, <1>3, <1>5, NothingErased DEF S!Inv


\* At most two stores are in flight from a thread.
LEMMA ShortBuffers == S!StoresInOrder => \A t \in S!Threads : Len(sBuffer[t]) <= 2
<1>1. \A x, y : Len(<<>>) <= 2 /\ Len(<<x>>) <= 2 /\ Len(<<x, y>>) <= 2
  OBVIOUS
<1>. QED BY <1>1 DEF S!StoresInOrder

\* A second store joins the buffer behind the first.
LEMMA AppendStore == ASSUME NEW x, NEW y PROVE Append(<<>>, x) = <<x>> /\ Append(<<x>>, y) = <<x, y>>
<1>1. Append(<<>>, x) = <<x>>
  OBVIOUS
<1>. DEFINE V == {x, y}
            s == <<x>>
            u == <<x, y>>
<1>2. s \in Seq(V) /\ Len(s) = 1 /\ s[1] = x /\ u \in Seq(V) /\ Len(u) = 2 /\ u[1] = x /\ u[2] = y /\ y \in V
  OBVIOUS
<1>. HIDE DEF V, s, u
<1>3. Append(s, y) \in Seq(V) /\ Len(Append(s, y)) = 2 /\ Append(s, y)[1] = x /\ Append(s, y)[2] = y
  BY <1>2, AppendProperties
<1>4. \A i \in 1..2 : i = 1 \/ i = 2
  OBVIOUS
<1>5. Append(s, y) = u
  BY <1>2, <1>3, <1>4, SeqEqual
<1>. QED BY <1>1, <1>5 DEF s, u

\* A slot is raised: the timer posts a request.
LEMMA PostKeeps == ASSUME S!Inv, S!Post PROVE S!Inv'
<1>. USE HandoffAssumption
<1>. DEFINE L == S!Lower("resp")
            R == S!Raise("req")
<1>0. /\ sPc["timer"] = "post" /\ sPc' = [sPc EXCEPT !["timer"] = "wait"]
      /\ sPosted' = sPosted + 1 /\ UNCHANGED <<sMem, sAnswered, sDone, sLadder, sIdles>>
      /\ sBuffer' = [sBuffer EXCEPT !["timer"] = Append(sBuffer["timer"], R)]
  BY DEF S!Post, S!Store, S!Goto, S!Raise
<1>1. sBuffer["timer"] \in {<<>>, <<L>>}
  BY <1>0 DEF S!Inv, S!StoresInOrder
<1>2. /\ DOMAIN sBuffer' = S!Threads /\ sBuffer'["responder"] = sBuffer["responder"]
      /\ sBuffer'["timer"] = Append(sBuffer["timer"], R)
  BY <1>0 DEF S!Inv, S!TypeOK
<1>3. /\ sBuffer["timer"] = <<>> => sBuffer'["timer"] = <<R>>
      /\ sBuffer["timer"] = <<L>> => sBuffer'["timer"] = <<L, R>>
  BY <1>2, AppendStore
<1>4. /\ sPc' \in [S!Threads -> {"post", "wait", "clear", "answer", "end"}]
      /\ sPc'["timer"] = "wait" /\ sPc'["responder"] = sPc["responder"]
  BY <1>0 DEF S!Inv, S!TypeOK
<1>5. S!StoresInOrder'
  BY <1>0, <1>1, <1>2, <1>3, <1>4 DEF S!Inv, S!StoresInOrder
<1>6. /\ S!OwnStores("timer", "req")' # {}
      /\ S!OwnStores("timer", "resp")' # {} <=> S!OwnStores("timer", "resp") # {}
      /\ S!OwnStores("responder", "req")' # {} <=> S!OwnStores("responder", "req") # {}
      /\ S!OwnStores("responder", "resp")' # {} <=> S!OwnStores("responder", "resp") # {}
  <2>1. SlotsOfForms
    BY OwnStoresAre DEF S!Inv
  <2>2. SlotsOfForms'
    BY <1>5, OwnStoresAre, PTL
  <2>. QED BY <1>1, <1>2, <1>3, <2>1, <2>2, BufferForms DEF SlotsOfForms
<1>7. S!TypeOK'
  <2>1. sPosted' \in 0..Rounds
    BY <1>0 DEF S!Inv, S!TypeOK, S!SlotsFollow
  <2>2. (\A t \in S!Threads : Len(sBuffer[t]) <= 2)'
    BY <1>5, ShortBuffers, PTL
  <2>. QED BY <1>0, <1>2, <1>4, <2>1, <2>2 DEF S!Inv, S!TypeOK
<1>8. S!RoundsInStep'
  BY <1>0 DEF S!Inv, S!TypeOK, S!RoundsInStep, S!SlotsFollow
<1>9. S!SlotsFollow'
  <2>1. sPosted \in Nat /\ sAnswered = sPosted /\ sDone = sPosted /\ sPosted # Rounds
    BY <1>0 DEF S!Inv, S!TypeOK, S!SlotsFollow, S!RoundsInStep
  <2>2. sPc["responder"] = "wait" /\ S!OwnStores("responder", "resp") = {}
    BY <1>0, <2>1 DEF S!Inv, S!SlotsFollow
  <2>5. S!OwnStores("responder", "req") = {}
    <3>1. SlotsOfForms
      BY OwnStoresAre DEF S!Inv
    <3>2. sBuffer["responder"] \in {<<>>, <<S!Raise("resp")>>, <<S!Lower("req"), S!Raise("resp")>>}
      BY <2>2 DEF S!Inv, S!StoresInOrder
    <3>. QED BY <2>2, <3>1, <3>2, BufferForms DEF SlotsOfForms
  <2>3. /\ sMem'["req"] = 1 <=> S!OwnStores("responder", "req")' # {}
        /\ sMem'["resp"] = 1 <=> S!OwnStores("timer", "resp")' # {}
    BY <1>0, <1>6, <2>1, <2>2 DEF S!Inv, S!SlotsFollow
  <2>4. /\ sPosted' = sDone' + 1 /\ sPosted' = sAnswered' + 1 /\ sAnswered' = sDone'
        /\ sDone' # Rounds /\ sAnswered' # sDone' + 1 /\ sPc'["responder"] = "wait"
        /\ S!OwnStores("responder", "resp")' = {}
    BY <1>0, <1>4, <1>6, <2>1, <2>2
  <2>. QED BY <1>4, <1>6, <2>3, <2>4, <2>5 DEF S!SlotsFollow
<1>. QED BY <1>5, <1>7, <1>8, <1>9, NothingErased, PTL DEF S!Inv

\* A thread that has a store in flight to the slot it reads sees its own
\* lowering of it, so what it takes from a slot is in memory.
LEMMA LoadSees ==
    ASSUME NEW t, NEW slot, NEW other, slot # other,
           sBuffer[t] \in {<<>>, <<S!Lower(slot)>>, <<S!Raise(other)>>, <<S!Lower(slot), S!Raise(other)>>},
           S!Load(t, slot) # 0
    PROVE  S!OwnStores(t, slot) = {} /\ sMem[slot] # 0
<1>. DEFINE L == S!Lower(slot)
            R == S!Raise(other)
<1>1. L.slot = slot /\ R.slot = other /\ L.val = 0
  BY DEF S!Lower, S!Raise
<1>. HIDE DEF L, R
<1>2. ASSUME sBuffer[t] \in {<<L>>, <<L, R>>} PROVE FALSE
  <2>1. S!OwnStores(t, slot) = {1} /\ sBuffer[t][1] = L
    <3>1. CASE sBuffer[t] = <<L>>
      <4>1. Len(<<L>>) = 1 /\ <<L>>[1] = L
        OBVIOUS
      <4>. QED BY <1>1, <3>1, <4>1 DEF S!OwnStores
    <3>2. CASE sBuffer[t] = <<L, R>>
      <4>1. Len(<<L, R>>) = 2 /\ <<L, R>>[1] = L /\ <<L, R>>[2] = R
        OBVIOUS
      <4>2. 1..2 = {1, 2}
        OBVIOUS
      <4>. QED BY <1>1, <3>2, <4>1, <4>2 DEF S!OwnStores
    <3>. QED BY <1>2, <3>1, <3>2
  <2>2. S!Max({1}) = 1
    BY DEF S!Max
  <2>. QED BY <1>1, <2>1, <2>2 DEF S!Load
<1>3. sBuffer[t] \in {<<>>, <<R>>}
  BY <1>2 DEF L, R
<1>4. S!OwnStores(t, slot) = {}
  <2>1. CASE sBuffer[t] = <<>>
    BY <2>1 DEF S!OwnStores
  <2>2. CASE sBuffer[t] = <<R>>
    <3>1. Len(<<R>>) = 1 /\ <<R>>[1] = R
      OBVIOUS
    <3>. QED BY <1>1, <2>2, <3>1 DEF S!OwnStores
  <2>. QED BY <1>3, <2>1, <2>2
<1>. QED BY <1>4 DEF S!Load

\* The timer sees the answer: nothing of its own is in flight any more.
LEMMA GetAnswerKeeps == ASSUME S!Inv, S!GetAnswer PROVE S!Inv'
<1>. USE HandoffAssumption
<1>0. /\ sPc["timer"] = "wait" /\ sPc' = [sPc EXCEPT !["timer"] = "clear"]
      /\ UNCHANGED <<sMem, sBuffer, sPosted, sAnswered, sDone, sLadder, sIdles>>
      /\ S!Load("timer", "resp") # 0
  BY DEF S!GetAnswer, S!Goto
<1>1. sBuffer["timer"] \in {<<>>, <<S!Raise("req")>>, <<S!Lower("resp"), S!Raise("req")>>}
  BY <1>0 DEF S!Inv, S!StoresInOrder
<1>2. S!OwnStores("timer", "resp") = {} /\ sMem["resp"] = 1
  BY <1>0, <1>1, LoadSees DEF S!Inv, S!TypeOK
<1>3. /\ sDone \in Nat /\ sAnswered = sDone + 1 /\ sPosted = sDone + 1
      /\ S!OwnStores("responder", "resp") = {} /\ S!OwnStores("timer", "req") = {}
  BY <1>0, <1>2 DEF S!Inv, S!TypeOK, S!SlotsFollow
<1>4. sBuffer["timer"] = <<>>
  <2>1. SlotsOfForms
    BY OwnStoresAre DEF S!Inv
  <2>. QED BY <1>1, <1>2, <1>3, <2>1 DEF SlotsOfForms
<1>5. /\ sPc' \in [S!Threads -> {"post", "wait", "clear", "answer", "end"}]
      /\ sPc'["timer"] = "clear" /\ sPc'["responder"] = sPc["responder"]
  BY <1>0 DEF S!Inv, S!TypeOK
<1>6. S!StoresInOrder'
  BY <1>0, <1>4, <1>5 DEF S!Inv, S!StoresInOrder
<1>7. \A t, slot : S!OwnStores(t, slot)' = S!OwnStores(t, slot)
  BY <1>0 DEF S!OwnStores
<1>8. S!TypeOK' /\ S!RoundsInStep'
  BY <1>0, <1>5 DEF S!Inv, S!TypeOK, S!RoundsInStep
<1>9. S!SlotsFollow'
  BY <1>0, <1>3, <1>5, <1>7 DEF S!Inv, S!SlotsFollow
<1>. QED BY <1>6, <1>8, <1>9, NothingErased, PTL DEF S!Inv

\* The responder sees the request: nothing of its own is in flight to that
\* slot, and the answer before has been taken.
LEMMA GetRequestKeeps == ASSUME S!Inv, S!GetRequest PROVE S!Inv'
<1>. USE HandoffAssumption
<1>0. /\ sPc["responder"] = "wait" /\ sPc' = [sPc EXCEPT !["responder"] = "clear"]
      /\ UNCHANGED <<sMem, sBuffer, sPosted, sAnswered, sDone>>
      /\ sLadder' = S!NewLadder /\ sIdles' = 0 /\ S!Load("responder", "req") # 0
  BY DEF S!GetRequest, S!Reset, S!Goto
<1>1. sBuffer["responder"] \in {<<>>, <<S!Raise("resp")>>, <<S!Lower("req"), S!Raise("resp")>>}
  BY <1>0 DEF S!Inv, S!StoresInOrder
<1>2. S!OwnStores("responder", "req") = {} /\ sMem["req"] = 1
  BY <1>0, <1>1, LoadSees, ZenonT(40) DEF S!Inv, S!TypeOK
<1>3. /\ sDone \in Nat /\ sAnswered \in Nat /\ sPosted \in Nat
      /\ sPosted = sAnswered + 1 /\ S!OwnStores("timer", "req") = {}
  BY <1>0, <1>2 DEF S!Inv, S!TypeOK, S!SlotsFollow
<1>4. sAnswered = sDone /\ S!OwnStores("responder", "resp") = {}
  BY <1>3 DEF S!Inv, S!SlotsFollow, S!RoundsInStep
<1>5. sBuffer["responder"] = <<>>
  <2>1. SlotsOfForms
    BY OwnStoresAre DEF S!Inv
  <2>. QED BY <1>1, <1>2, <1>4, <2>1 DEF SlotsOfForms
<1>6. /\ sPc' \in [S!Threads -> {"post", "wait", "clear", "answer", "end"}]
      /\ sPc'["responder"] = "clear" /\ sPc'["timer"] = sPc["timer"]
  BY <1>0 DEF S!Inv, S!TypeOK
<1>7. S!StoresInOrder'
  BY <1>0, <1>5, <1>6 DEF S!Inv, S!StoresInOrder
<1>8. \A t, slot : S!OwnStores(t, slot)' = S!OwnStores(t, slot)
  BY <1>0 DEF S!OwnStores
<1>9. S!TypeOK' /\ S!RoundsInStep'
  <2>1. sLadder' \in [spins : 0..MaxSpins, yields : 0..MaxYields, park : MinPark..MaxPark]
    BY <1>0 DEF S!NewLadder
  <2>2. sIdles' \in 0..MaxIdles
    BY <1>0
  <2>. QED BY <1>0, <1>6, <2>1, <2>2 DEF S!Inv, S!TypeOK, S!RoundsInStep
<1>10. S!SlotsFollow'
  BY <1>0, <1>3, <1>4, <1>6, <1>8 DEF S!Inv, S!SlotsFollow
<1>. QED BY <1>7, <1>9, <1>10, NothingErased, PTL DEF S!Inv

\* Waiting climbs the ladder, within its limits, and touches nothing else.
LEMMA IdleKeeps == ASSUME S!Inv, S!Idle PROVE S!Inv'
<1>. USE HandoffAssumption
<1>0. /\ UNCHANGED <<sMem, sBuffer, sPc, sPosted, sAnswered, sDone>>
      /\ sLadder' = S!Climb /\ sIdles' = IF sIdles < MaxIdles THEN sIdles + 1 ELSE sIdles
  BY DEF S!Idle
<1>1. sLadder' \in [spins : 0..MaxSpins, yields : 0..MaxYields, park : MinPark..MaxPark]
  <2>1. /\ sLadder \in [spins : 0..MaxSpins, yields : 0..MaxYields, park : MinPark..MaxPark]
        /\ sLadder.spins \in 0..MaxSpins /\ sLadder.yields \in 0..MaxYields
        /\ sLadder.park \in MinPark..MaxPark
    BY DEF S!Inv, S!TypeOK
  <2>2. CASE sLadder.spins < MaxSpins
    <3>1. sLadder' = [sLadder EXCEPT !.spins = @ + 1] /\ sLadder.spins + 1 \in 0..MaxSpins
      BY <1>0, <2>1, <2>2 DEF S!Climb
    <3>. QED BY <2>1, <3>1
  <2>3. CASE ~(sLadder.spins < MaxSpins) /\ sLadder.yields < MaxYields
    <3>1. sLadder' = [sLadder EXCEPT !.yields = @ + 1] /\ sLadder.yields + 1 \in 0..MaxYields
      BY <1>0, <2>1, <2>3 DEF S!Climb
    <3>. QED BY <2>1, <3>1
  <2>4. CASE ~(sLadder.spins < MaxSpins) /\ ~(sLadder.yields < MaxYields)
    <3>. DEFINE p == IF sLadder.park * 2 < MaxPark THEN sLadder.park * 2 ELSE MaxPark
    <3>1. p \in MinPark..MaxPark
      BY <2>1
    <3>2. sLadder' = [sLadder EXCEPT !.park = p]
      BY <1>0, <2>1, <2>4 DEF S!Climb
    <3>. HIDE DEF p
    <3>. QED BY <2>1, <3>1, <3>2
  <2>. QED BY <2>2, <2>3, <2>4
<1>2. sIdles' \in 0..MaxIdles
  BY <1>0 DEF S!Inv, S!TypeOK
<1>3. \A t, slot : S!OwnStores(t, slot)' = S!OwnStores(t, slot)
  BY <1>0 DEF S!OwnStores
<1>4. S!TypeOK' /\ S!RoundsInStep' /\ S!StoresInOrder'
  BY <1>0, <1>1, <1>2 DEF S!Inv, S!TypeOK, S!RoundsInStep, S!StoresInOrder
<1>5. S!SlotsFollow'
  BY <1>0, <1>3 DEF S!Inv, S!SlotsFollow
<1>. QED BY <1>4, <1>5, NothingErased, PTL DEF S!Inv

\* The timer lowers the answer's slot: from its clearing store on, the slot is
\* only up until that store takes effect.
LEMMA ClearAnswerKeeps == ASSUME S!Inv, S!ClearAnswer PROVE S!Inv'
<1>. USE HandoffAssumption
<1>. DEFINE L == S!Lower("resp")
<1>0. /\ sPc["timer"] = "clear" /\ sPc' = [sPc EXCEPT !["timer"] = IF sDone + 1 = Rounds THEN "end" ELSE "post"]
      /\ sDone' = sDone + 1 /\ UNCHANGED <<sMem, sPosted, sAnswered, sLadder, sIdles>>
      /\ sBuffer' = [sBuffer EXCEPT !["timer"] = Append(sBuffer["timer"], L)]
  BY DEF S!ClearAnswer, S!Store, S!Goto, S!Lower
<1>1. sBuffer["timer"] = <<>>
  BY <1>0 DEF S!Inv, S!StoresInOrder
<1>2. /\ DOMAIN sBuffer' = S!Threads /\ sBuffer'["responder"] = sBuffer["responder"]
      /\ sBuffer'["timer"] = <<L>>
  BY <1>0, <1>1, AppendStore DEF S!Inv, S!TypeOK
<1>3. /\ sPc' \in [S!Threads -> {"post", "wait", "clear", "answer", "end"}]
      /\ sPc'["timer"] = IF sDone + 1 = Rounds THEN "end" ELSE "post"
      /\ sPc'["responder"] = sPc["responder"]
  BY <1>0 DEF S!Inv, S!TypeOK
<1>4. S!StoresInOrder'
  BY <1>2, <1>3 DEF S!Inv, S!StoresInOrder
<1>5. /\ S!OwnStores("timer", "req")' = {} /\ S!OwnStores("timer", "req") = {}
      /\ S!OwnStores("timer", "resp")' # {} /\ S!OwnStores("timer", "resp") = {}
      /\ S!OwnStores("responder", "req")' # {} <=> S!OwnStores("responder", "req") # {}
      /\ S!OwnStores("responder", "resp")' # {} <=> S!OwnStores("responder", "resp") # {}
  <2>1. SlotsOfForms
    BY OwnStoresAre DEF S!Inv
  <2>2. SlotsOfForms'
    BY <1>4, OwnStoresAre, PTL
  <2>. QED BY <1>1, <1>2, <2>1, <2>2, BufferForms DEF SlotsOfForms
<1>6. /\ sDone \in Nat /\ sPosted = sDone + 1 /\ sAnswered = sDone + 1 /\ sDone + 1 <= Rounds
      /\ sPc["responder"] \in {"wait", "end"} /\ (sPc["responder"] = "end" <=> sDone + 1 = Rounds)
  BY <1>0 DEF S!Inv, S!TypeOK, S!SlotsFollow
<1>7. S!TypeOK'
  <2>1. (\A t \in S!Threads : Len(sBuffer[t]) <= 2)'
    BY <1>4, ShortBuffers, PTL
  <2>2. sDone' \in 0..Rounds
    BY <1>0, <1>6
  <2>. QED BY <1>0, <1>2, <1>3, <2>1, <2>2 DEF S!Inv, S!TypeOK
<1>8. S!RoundsInStep'
  BY <1>0, <1>6 DEF S!RoundsInStep
<1>9. S!SlotsFollow'
  <2>1. S!OwnStores("responder", "resp") = {} /\ sMem["resp"] = 1
    BY <1>0, <1>5, <1>6 DEF S!Inv, S!SlotsFollow
  <2>2. sMem["req"] = 1 <=> S!OwnStores("responder", "req") # {}
    BY <1>5, <1>6 DEF S!Inv, S!SlotsFollow
  <2>3. /\ sPosted' = sDone' /\ sAnswered' = sDone' /\ sDone' # sDone' + 1 /\ sMem' = sMem
        /\ sPc'["timer"] \in {"post", "end"} /\ (sPc'["timer"] = "end" <=> sDone' = Rounds)
        /\ sPc'["responder"] \in {"wait", "end"} /\ (sPc'["responder"] = "end" <=> sDone' = Rounds)
    BY <1>0, <1>3, <1>6
  <2>. QED BY <1>5, <2>1, <2>2, <2>3 DEF S!SlotsFollow
<1>. QED BY <1>4, <1>7, <1>8, <1>9, NothingErased, PTL DEF S!Inv

\* The responder lowers the request's slot.
LEMMA ClearRequestKeeps == ASSUME S!Inv, S!ClearRequest PROVE S!Inv'
<1>. USE HandoffAssumption
<1>. DEFINE L == S!Lower("req")
<1>0. /\ sPc["responder"] = "clear" /\ sPc' = [sPc EXCEPT !["responder"] = "answer"]
      /\ UNCHANGED <<sMem, sPosted, sAnswered, sDone, sLadder, sIdles>>
      /\ sBuffer' = [sBuffer EXCEPT !["responder"] = Append(sBuffer["responder"], L)]
  BY DEF S!ClearRequest, S!Store, S!Goto, S!Lower
<1>1. sBuffer["responder"] = <<>>
  BY <1>0 DEF S!Inv, S!StoresInOrder
<1>2. /\ DOMAIN sBuffer' = S!Threads /\ sBuffer'["timer"] = sBuffer["timer"]
      /\ sBuffer'["responder"] = <<L>>
  BY <1>0, <1>1, AppendStore DEF S!Inv, S!TypeOK
<1>3. /\ sPc' \in [S!Threads -> {"post", "wait", "clear", "answer", "end"}]
      /\ sPc'["responder"] = "answer" /\ sPc'["timer"] = sPc["timer"]
  BY <1>0 DEF S!Inv, S!TypeOK
<1>4. S!StoresInOrder'
  BY <1>2, <1>3 DEF S!Inv, S!StoresInOrder
<1>5. /\ S!OwnStores("responder", "resp")' = {} /\ S!OwnStores("responder", "resp") = {}
      /\ S!OwnStores("responder", "req")' # {} /\ S!OwnStores("responder", "req") = {}
      /\ S!OwnStores("timer", "req")' # {} <=> S!OwnStores("timer", "req") # {}
      /\ S!OwnStores("timer", "resp")' # {} <=> S!OwnStores("timer", "resp") # {}
  <2>1. SlotsOfForms
    BY OwnStoresAre DEF S!Inv
  <2>2. SlotsOfForms'
    BY <1>4, OwnStoresAre, PTL
  <2>. QED BY <1>1, <1>2, <2>1, <2>2, BufferForms DEF SlotsOfForms
<1>6. /\ sAnswered \in Nat /\ sDone \in Nat /\ sPosted = sAnswered + 1 /\ sAnswered # Rounds
      /\ S!OwnStores("timer", "req") = {}
  BY <1>0 DEF S!Inv, S!TypeOK, S!SlotsFollow
<1>7. S!TypeOK' /\ S!RoundsInStep'
  <2>1. (\A t \in S!Threads : Len(sBuffer[t]) <= 2)'
    BY <1>4, ShortBuffers, PTL
  <2>. QED BY <1>0, <1>2, <1>3, <2>1 DEF S!Inv, S!TypeOK, S!RoundsInStep
<1>8. S!SlotsFollow'
  <2>1. sMem["req"] = 1
    BY <1>0, <1>6 DEF S!Inv, S!SlotsFollow
  <2>. QED BY <1>0, <1>3, <1>5, <1>6, <2>1 DEF S!Inv, S!SlotsFollow
<1>. QED BY <1>4, <1>7, <1>8, NothingErased, PTL DEF S!Inv

\* The responder raises the answer's slot, behind its own lowering of the
\* request's.
LEMMA AnswerKeeps == ASSUME S!Inv, S!Answer PROVE S!Inv'
<1>. USE HandoffAssumption
<1>. DEFINE L == S!Lower("req")
            R == S!Raise("resp")
<1>0. /\ sPc["responder"] = "answer"
      /\ sPc' = [sPc EXCEPT !["responder"] = IF sAnswered + 1 = Rounds THEN "end" ELSE "wait"]
      /\ sAnswered' = sAnswered + 1 /\ UNCHANGED <<sMem, sPosted, sDone, sLadder, sIdles>>
      /\ sBuffer' = [sBuffer EXCEPT !["responder"] = Append(sBuffer["responder"], R)]
  BY DEF S!Answer, S!Store, S!Goto, S!Raise
<1>1. sBuffer["responder"] \in {<<>>, <<L>>}
  BY <1>0 DEF S!Inv, S!StoresInOrder
<1>2. /\ DOMAIN sBuffer' = S!Threads /\ sBuffer'["timer"] = sBuffer["timer"]
      /\ sBuffer'["responder"] = Append(sBuffer["responder"], R)
  BY <1>0 DEF S!Inv, S!TypeOK
<1>3. /\ sBuffer["responder"] = <<>> => sBuffer'["responder"] = <<R>>
      /\ sBuffer["responder"] = <<L>> => sBuffer'["responder"] = <<L, R>>
  BY <1>2, AppendStore
<1>4. /\ sPc' \in [S!Threads -> {"post", "wait", "clear", "answer", "end"}]
      /\ sPc'["responder"] = IF sAnswered + 1 = Rounds THEN "end" ELSE "wait"
      /\ sPc'["timer"] = sPc["timer"]
  BY <1>0 DEF S!Inv, S!TypeOK
<1>5. S!StoresInOrder'
  BY <1>1, <1>2, <1>3, <1>4 DEF S!Inv, S!StoresInOrder
<1>6. /\ S!OwnStores("responder", "resp")' # {}
      /\ S!OwnStores("responder", "req")' # {} <=> S!OwnStores("responder", "req") # {}
      /\ S!OwnStores("timer", "req")' # {} <=> S!OwnStores("timer", "req") # {}
      /\ S!OwnStores("timer", "resp")' # {} <=> S!OwnStores("timer", "resp") # {}
  <2>1. SlotsOfForms
    BY OwnStoresAre DEF S!Inv
  <2>2. SlotsOfForms'
    BY <1>5, OwnStoresAre, PTL
  <2>. QED BY <1>1, <1>2, <1>3, <2>1, <2>2, BufferForms DEF SlotsOfForms
<1>7. /\ sAnswered \in Nat /\ sDone \in Nat /\ sPosted = sAnswered + 1 /\ sAnswered = sDone
      /\ sPosted <= Rounds /\ S!OwnStores("timer", "req") = {}
      /\ sPc["timer"] \in {"post", "wait", "clear", "end"}
  BY <1>0 DEF S!Inv, S!TypeOK, S!SlotsFollow, S!RoundsInStep
<1>8. sPc["timer"] = "wait"
  BY <1>7 DEF S!Inv, S!SlotsFollow
<1>9. S!OwnStores("timer", "resp") = {}
  <2>1. SlotsOfForms
    BY OwnStoresAre DEF S!Inv
  <2>2. sBuffer["timer"] \in {<<>>, <<S!Raise("req")>>, <<S!Lower("resp"), S!Raise("req")>>}
    BY <1>8 DEF S!Inv, S!StoresInOrder
  <2>. QED BY <1>7, <2>1, <2>2, BufferForms DEF SlotsOfForms
<1>10. S!TypeOK' /\ S!RoundsInStep'
  <2>1. (\A t \in S!Threads : Len(sBuffer[t]) <= 2)'
    BY <1>5, ShortBuffers, PTL
  <2>2. sAnswered' \in 0..Rounds
    BY <1>0, <1>7
  <2>3. S!RoundsInStep'
    BY <1>0, <1>7 DEF S!RoundsInStep
  <2>. QED BY <1>0, <1>2, <1>4, <2>1, <2>2, <2>3 DEF S!Inv, S!TypeOK
<1>11. S!SlotsFollow'
  <2>1. sMem["req"] = 1 <=> S!OwnStores("responder", "req") # {}
    BY <1>0 DEF S!Inv, S!SlotsFollow
  <2>2. sMem["resp"] # 1
    BY <1>7, <1>9 DEF S!Inv, S!SlotsFollow
  <2>3. sDone # Rounds
    BY <1>7
  <2>4. /\ sPosted' = sDone' + 1 /\ sAnswered' = sDone' + 1 /\ sPosted' = sAnswered' /\ sAnswered' # sAnswered' + 1
        /\ sAnswered' # sDone' /\ sMem' = sMem /\ sPc'["timer"] = "wait" /\ sDone' # Rounds
        /\ sPc'["responder"] \in {"wait", "end"} /\ (sPc'["responder"] = "end" <=> sAnswered' = Rounds)
    BY <1>0, <1>4, <1>7, <1>8, <2>3
  <2>. QED BY <1>6, <1>7, <1>9, <2>1, <2>2, <2>4 DEF S!SlotsFollow
<1>. QED BY <1>5, <1>10, <1>11, NothingErased, PTL DEF S!Inv

\* The store that takes effect is the oldest one: the Release store waits for
\* the Relaxed one before it.
LEMMA OldestTakesEffect ==
    ASSUME S!TypeOK, NEW t \in S!Threads, NEW low, NEW high, high.order = "release",
           sBuffer[t] \in {<<>>, <<low>>, <<high>>, <<low, high>>},
           S!Drain(t)
    PROVE  /\ UNCHANGED <<sPc, sPosted, sAnswered, sDone, sLadder, sIdles>>
           /\ DOMAIN sBuffer' = S!Threads
           /\ \A u \in S!Threads \ {t} : sBuffer'[u] = sBuffer[u]
           /\ \/ /\ sBuffer[t] = <<low>> /\ sBuffer'[t] = <<>>
                 /\ sMem' = [sMem EXCEPT ![low.slot] = low.val]
              \/ /\ sBuffer[t] = <<low, high>> /\ sBuffer'[t] = <<high>>
                 /\ sMem' = [sMem EXCEPT ![low.slot] = low.val]
              \/ /\ sBuffer[t] = <<high>> /\ sBuffer'[t] = <<>>
                 /\ sMem' = [sMem EXCEPT ![high.slot] = high.val]
<1>1. PICK i \in 1..Len(sBuffer[t]) : S!TakeEffect(t, i)
  BY DEF S!Drain
<1>2. /\ UNCHANGED <<sPc, sPosted, sAnswered, sDone, sLadder, sIdles>>
      /\ sMem' = [sMem EXCEPT ![sBuffer[t][i].slot] = sBuffer[t][i].val]
      /\ sBuffer' = [sBuffer EXCEPT ![t] = S!RemoveAt(sBuffer[t], i)]
      /\ \A j \in 1..(i - 1) : sBuffer[t][i].order # "release"
  BY <1>1 DEF S!TakeEffect
<1>3. /\ DOMAIN sBuffer' = S!Threads /\ sBuffer'[t] = S!RemoveAt(sBuffer[t], i)
      /\ \A u \in S!Threads \ {t} : sBuffer'[u] = sBuffer[u]
  BY <1>2 DEF S!TypeOK
<1>4. CASE sBuffer[t] = <<>>
  <2>1. Len(<<>>) = 0
    OBVIOUS
  <2>. QED BY <1>4, <2>1
<1>5. ASSUME NEW x, sBuffer[t] = <<x>>
      PROVE  sBuffer'[t] = <<>> /\ sMem' = [sMem EXCEPT ![x.slot] = x.val]
  <2>1. i = 1
    BY <1>5, OneStore
  <2>. QED BY <1>2, <1>3, <1>5, <2>1, OneStore
<1>6. CASE sBuffer[t] = <<low, high>>
  <2>0. /\ Len(sBuffer[t]) = 2 /\ sBuffer[t][1] = low /\ sBuffer[t][2] = high
        /\ S!RemoveAt(sBuffer[t], 1) = <<high>>
    BY <1>6, TwoStores
  <2>1. i = 1
    <3>1. i \in {1, 2}
      BY <2>0
    <3>2. CASE i = 2
      <4>1. 1 \in 1..(i - 1)
        BY <3>2
      <4>. QED BY <1>2, <2>0, <3>2, <4>1
    <3>. QED BY <3>1, <3>2
  <2>. QED BY <1>2, <1>3, <1>6, <2>0, <2>1
<1>. QED BY <1>2, <1>3, <1>4, <1>5, <1>6

\* A buffered store of the timer reaches memory.
LEMMA TimerDrainKeeps == ASSUME S!Inv, S!Drain("timer") PROVE S!Inv'
<1>. USE HandoffAssumption
<1>. DEFINE L == S!Lower("resp")
            R == S!Raise("req")
<1>1. sBuffer["timer"] \in {<<>>, <<L>>, <<R>>, <<L, R>>}
  BY DEF S!Inv, S!StoresInOrder
<1>2. L.slot = "resp" /\ L.val = 0 /\ R.slot = "req" /\ R.val = 1 /\ R.order = "release"
  BY DEF S!Lower, S!Raise
<1>3. /\ UNCHANGED <<sPc, sPosted, sAnswered, sDone, sLadder, sIdles>>
      /\ DOMAIN sBuffer' = S!Threads /\ sBuffer'["responder"] = sBuffer["responder"]
      /\ \/ /\ sBuffer["timer"] = <<L>> /\ sBuffer'["timer"] = <<>>
            /\ sMem' = [sMem EXCEPT !["resp"] = 0]
         \/ /\ sBuffer["timer"] = <<L, R>> /\ sBuffer'["timer"] = <<R>>
            /\ sMem' = [sMem EXCEPT !["resp"] = 0]
         \/ /\ sBuffer["timer"] = <<R>> /\ sBuffer'["timer"] = <<>>
            /\ sMem' = [sMem EXCEPT !["req"] = 1]
  <2>. HIDE DEF L, R
  <2>1. S!TypeOK /\ "timer" \in S!Threads /\ "responder" \in S!Threads \ {"timer"}
    BY DEF S!Inv
  <2>. QED BY <1>1, <1>2, <2>1, OldestTakesEffect
<1>4. S!StoresInOrder'
  BY <1>3, BufferForms DEF S!Inv, S!StoresInOrder
<1>5. SlotsOfForms /\ SlotsOfForms'
  <2>1. SlotsOfForms
    BY OwnStoresAre DEF S!Inv
  <2>2. SlotsOfForms'
    BY <1>4, OwnStoresAre, PTL
  <2>. QED BY <2>1, <2>2
<1>6. S!TypeOK' /\ S!RoundsInStep'
  <2>1. (\A t \in S!Threads : Len(sBuffer[t]) <= 2)'
    BY <1>4, ShortBuffers, PTL
  <2>2. sMem' \in [{"req", "resp"} -> {0, 1}]
    BY <1>3 DEF S!Inv, S!TypeOK
  <2>. QED BY <1>3, <2>1, <2>2 DEF S!Inv, S!TypeOK, S!RoundsInStep
<1>7. sDone \in Nat /\ sAnswered \in Nat /\ sPosted \in Nat /\ sMem \in [{"req", "resp"} -> {0, 1}]
  BY DEF S!Inv, S!TypeOK
<1>8. ASSUME sBuffer["timer"] \in {<<L>>, <<L, R>>} PROVE S!SlotsFollow'
  <2>1. sMem'["resp"] = 0 /\ sMem'["req"] = sMem["req"]
    BY <1>3, <1>7, <1>8, BufferForms
  <2>2. /\ S!OwnStores("timer", "resp") # {} /\ S!OwnStores("timer", "resp")' = {}
        /\ S!OwnStores("timer", "req")' # {} <=> S!OwnStores("timer", "req") # {}
        /\ S!OwnStores("responder", "req")' # {} <=> S!OwnStores("responder", "req") # {}
        /\ S!OwnStores("responder", "resp")' # {} <=> S!OwnStores("responder", "resp") # {}
    BY <1>3, <1>5, <1>8, BufferForms DEF SlotsOfForms
  <2>3. sAnswered = sDone /\ sAnswered # sDone + 1
    BY <1>7, <2>2 DEF S!Inv, S!SlotsFollow
  <2>. QED BY <1>3, <2>1, <2>2, <2>3 DEF S!Inv, S!SlotsFollow
<1>9. ASSUME sBuffer["timer"] = <<R>> PROVE S!SlotsFollow'
  <2>1. sMem'["req"] = 1 /\ sMem'["resp"] = sMem["resp"]
    BY <1>3, <1>7, <1>9, BufferForms
  <2>2. /\ S!OwnStores("timer", "req") # {} /\ S!OwnStores("timer", "req")' = {}
        /\ S!OwnStores("timer", "resp")' = {} /\ S!OwnStores("timer", "resp") = {}
        /\ S!OwnStores("responder", "req")' # {} <=> S!OwnStores("responder", "req") # {}
        /\ S!OwnStores("responder", "resp")' # {} <=> S!OwnStores("responder", "resp") # {}
    BY <1>3, <1>5, <1>9, BufferForms DEF SlotsOfForms
  <2>. QED BY <1>3, <2>1, <2>2 DEF S!Inv, S!SlotsFollow
<1>10. S!SlotsFollow'
  BY <1>3, <1>8, <1>9
<1>. QED BY <1>4, <1>6, <1>10, NothingErased, PTL DEF S!Inv

\* A buffered store of the responder reaches memory.
LEMMA ResponderDrainKeeps == ASSUME S!Inv, S!Drain("responder") PROVE S!Inv'
<1>. USE HandoffAssumption
<1>. DEFINE L == S!Lower("req")
            R == S!Raise("resp")
<1>1. sBuffer["responder"] \in {<<>>, <<L>>, <<R>>, <<L, R>>}
  BY DEF S!Inv, S!StoresInOrder
<1>2. L.slot = "req" /\ L.val = 0 /\ R.slot = "resp" /\ R.val = 1 /\ R.order = "release"
  BY DEF S!Lower, S!Raise
<1>3. /\ UNCHANGED <<sPc, sPosted, sAnswered, sDone, sLadder, sIdles>>
      /\ DOMAIN sBuffer' = S!Threads /\ sBuffer'["timer"] = sBuffer["timer"]
      /\ \/ /\ sBuffer["responder"] = <<L>> /\ sBuffer'["responder"] = <<>>
            /\ sMem' = [sMem EXCEPT !["req"] = 0]
         \/ /\ sBuffer["responder"] = <<L, R>> /\ sBuffer'["responder"] = <<R>>
            /\ sMem' = [sMem EXCEPT !["req"] = 0]
         \/ /\ sBuffer["responder"] = <<R>> /\ sBuffer'["responder"] = <<>>
            /\ sMem' = [sMem EXCEPT !["resp"] = 1]
  <2>. HIDE DEF L, R
  <2>1. S!TypeOK /\ "responder" \in S!Threads /\ "timer" \in S!Threads \ {"responder"}
    BY DEF S!Inv
  <2>. QED BY <1>1, <1>2, <2>1, OldestTakesEffect
<1>4. S!StoresInOrder'
  BY <1>3, BufferForms DEF S!Inv, S!StoresInOrder
<1>5. SlotsOfForms /\ SlotsOfForms'
  <2>1. SlotsOfForms
    BY OwnStoresAre DEF S!Inv
  <2>2. SlotsOfForms'
    BY <1>4, OwnStoresAre, PTL
  <2>. QED BY <2>1, <2>2
<1>6. S!TypeOK' /\ S!RoundsInStep'
  <2>1. (\A t \in S!Threads : Len(sBuffer[t]) <= 2)'
    BY <1>4, ShortBuffers, PTL
  <2>2. sMem' \in [{"req", "resp"} -> {0, 1}]
    BY <1>3 DEF S!Inv, S!TypeOK
  <2>. QED BY <1>3, <2>1, <2>2 DEF S!Inv, S!TypeOK, S!RoundsInStep
<1>7. sDone \in Nat /\ sAnswered \in Nat /\ sPosted \in Nat /\ sMem \in [{"req", "resp"} -> {0, 1}]
  BY DEF S!Inv, S!TypeOK
<1>8. ASSUME sBuffer["responder"] \in {<<L>>, <<L, R>>} PROVE S!SlotsFollow'
  <2>1. sMem'["req"] = 0 /\ sMem'["resp"] = sMem["resp"]
    BY <1>3, <1>7, <1>8, BufferForms
  <2>2. /\ S!OwnStores("responder", "req") # {} /\ S!OwnStores("responder", "req")' = {}
        /\ S!OwnStores("responder", "resp")' # {} <=> S!OwnStores("responder", "resp") # {}
        /\ S!OwnStores("timer", "req")' # {} <=> S!OwnStores("timer", "req") # {}
        /\ S!OwnStores("timer", "resp")' # {} <=> S!OwnStores("timer", "resp") # {}
    BY <1>3, <1>5, <1>8, BufferForms DEF SlotsOfForms
  <2>3. sPosted # sAnswered + 1 \/ sPc["responder"] = "answer"
    BY <1>7, <2>2 DEF S!Inv, S!SlotsFollow
  <2>. QED BY <1>3, <2>1, <2>2, <2>3 DEF S!Inv, S!SlotsFollow
<1>9. ASSUME sBuffer["responder"] = <<R>> PROVE S!SlotsFollow'
  <2>1. sMem'["resp"] = 1 /\ sMem'["req"] = sMem["req"]
    BY <1>3, <1>7, <1>9, BufferForms
  <2>2. /\ S!OwnStores("responder", "resp") # {} /\ S!OwnStores("responder", "resp")' = {}
        /\ S!OwnStores("responder", "req")' = {} /\ S!OwnStores("responder", "req") = {}
        /\ S!OwnStores("timer", "req")' # {} <=> S!OwnStores("timer", "req") # {}
        /\ S!OwnStores("timer", "resp")' # {} <=> S!OwnStores("timer", "resp") # {}
    BY <1>3, <1>5, <1>9, BufferForms DEF SlotsOfForms
  <2>. QED BY <1>3, <2>1, <2>2 DEF S!Inv, S!SlotsFollow
<1>10. S!SlotsFollow'
  BY <1>3, <1>8, <1>9
<1>. QED BY <1>4, <1>6, <1>10, NothingErased, PTL DEF S!Inv

\* The slots stay sound.
LEMMA SlotsNext == ASSUME S!Inv, [S!Next]_slotVars PROVE S!Inv'
<1>1. CASE UNCHANGED slotVars
  <2>1. \A t, slot : S!OwnStores(t, slot)' = S!OwnStores(t, slot)
    BY <1>1 DEF slotVars, S!OwnStores
  <2>2. (S!TypeOK /\ S!RoundsInStep /\ S!StoresInOrder)'
    BY <1>1 DEF slotVars, S!Inv, S!TypeOK, S!RoundsInStep, S!StoresInOrder
  <2>3. S!SlotsFollow'
    BY <1>1, <2>1 DEF slotVars, S!Inv, S!SlotsFollow
  <2>. QED BY <2>2, <2>3, NothingErased, PTL DEF S!Inv
<1>2. CASE S!TimerStep
  BY <1>2, PostKeeps, GetAnswerKeeps, ClearAnswerKeeps DEF S!TimerStep
<1>3. CASE S!Idle \/ S!ResponderStep
  BY <1>3, IdleKeeps, GetRequestKeeps, ClearRequestKeeps, AnswerKeeps DEF S!ResponderStep
<1>4. CASE \E t \in S!Threads : S!Drain(t)
  BY <1>4, TimerDrainKeeps, ResponderDrainKeeps
<1>. QED BY <1>1, <1>2, <1>3, <1>4 DEF S!Next, S!vars, slotVars

-----------------------------------------------------------------------------
(* The backoff ladder.                                                     *)

\* Every set of natural numbers that is not empty has a least one: the finite
\* sets are well-founded under inclusion, so one of the intervals up to a
\* number of the set has no smaller one below it.
LEMMA LeastNumber ==
    ASSUME NEW N \in SUBSET Nat, N # {}
    PROVE  \E m \in N : \A j \in N : m <= j
<1>. DEFINE R == StrictSubsetOrdering(Nat)
            T == {0..n : n \in N}
<1>1. IsWellFoundedOn(R, FiniteSubsetsOf(Nat))
  BY FS_StrictSubsetOrderingWellFounded
<1>2. T \subseteq FiniteSubsetsOf(Nat) /\ T # {}
  <2>1. \A n \in N : IsFiniteSet(0..n) /\ 0..n \in SUBSET Nat
    BY FS_Interval
  <2>. QED
    BY <2>1 DEF FiniteSubsetsOf
<1>3. \E x \in T : \A y \in T : ~(<<y, x>> \in R)
  <2>. HIDE DEF R, T
  <2>. QED
    BY <1>1, <1>2, WFMin
<1>4. PICK m \in N : \A n \in N : ~(<<0..n, 0..m>> \in R)
  BY <1>3
<1>5. \A n \in N : n < m => 0..n \subseteq 0..m /\ 0..n # 0..m
  OBVIOUS
<1>6. \A n \in N : n < m => <<0..n, 0..m>> \in R
  BY <1>5 DEF StrictSubsetOrdering
<1>7. \A n \in N : n \in Nat
  OBVIOUS
<1>8. \A n \in N : ~(n < m)
  BY <1>4, <1>6
<1>. QED
  BY <1>7, <1>8

\* The equation of the powers of two, up to m.
Doubles(m, f) ==
    /\ f \in [0..m -> Nat]
    /\ \A n \in 0..m : f[n] = IF n = 0 THEN 1 ELSE 2 * f[n - 1]

\* It has a solution: at the first m without one, the last solution can be
\* extended.
LEMMA DoublesExist == \E f : Doubles(MaxIdles, f)
<1>. USE HandoffAssumption
<1>. DEFINE Bad == {m \in Nat : ~\E f : Doubles(m, f)}
<1>. SUFFICES ASSUME Bad # {} PROVE FALSE
  OBVIOUS
<1>1. PICK m \in Bad : \A k \in Bad : m <= k
  <2>1. Bad \in SUBSET Nat
    OBVIOUS
  <2>. HIDE DEF Bad
  <2>. QED BY <2>1, LeastNumber
<1>2. m \in Nat /\ ~\E f : Doubles(m, f)
  BY <1>1
<1>3. CASE m = 0
  <2>1. Doubles(0, [n \in 0..0 |-> 1])
    BY DEF Doubles
  <2>. QED BY <1>2, <1>3, <2>1
<1>4. CASE m # 0
  <2>1. m - 1 \in Nat /\ ~(m <= m - 1)
    BY <1>2, <1>4
  <2>2. PICK f : Doubles(m - 1, f)
    BY <1>1, <2>1
  <2>. DEFINE g == [n \in 0..m |-> IF n = m THEN 2 * f[m - 1] ELSE f[n]]
  <2>3. Doubles(m, g)
    BY <1>2, <1>4, <2>2 DEF Doubles
  <2>. QED BY <1>2, <2>3
<1>. QED BY <1>3, <1>4

\* Pow2 is the solution.
LEMMA Pow2Doubles == Doubles(MaxIdles, S!Pow2)
<1>. USE HandoffAssumption
<1>. DEFINE F(f) == [n \in 0..MaxIdles |-> IF n = 0 THEN 1 ELSE 2 * f[n - 1]]
            c == CHOOSE f : f = F(f)
<1>1. PICK f : Doubles(MaxIdles, f)
  BY DoublesExist
<1>2. f = F(f)
  BY <1>1 DEF Doubles
<1>3. c = F(c)
  BY <1>2
<1>4. S!Pow2 = c
  BY DEF S!Pow2
<1>. HIDE DEF c
<1>5. \A n \in 0..MaxIdles : c[n] = IF n = 0 THEN 1 ELSE 2 * c[n - 1]
  BY <1>3
<1>. DEFINE Bad == {n \in 0..MaxIdles : c[n] # f[n]}
<1>6. Bad = {}
  <2>. SUFFICES ASSUME Bad # {} PROVE FALSE
    OBVIOUS
  <2>1. PICK m \in Bad : \A k \in Bad : m <= k
    <3>1. Bad \in SUBSET Nat
      OBVIOUS
    <3>. HIDE DEF Bad
    <3>. QED BY <3>1, LeastNumber
  <2>2. m # 0
    BY <1>1, <1>5, <2>1 DEF Doubles
  <2>3. m - 1 \in 0..MaxIdles /\ c[m - 1] = f[m - 1]
    BY <2>1, <2>2
  <2>. QED BY <1>1, <1>5, <2>1, <2>2, <2>3 DEF Doubles
<1>7. c \in [0..MaxIdles -> Nat]
  <2>1. c = [n \in 0..MaxIdles |-> c[n]]
    BY <1>3
  <2>2. \A n \in 0..MaxIdles : c[n] \in Nat
    BY <1>1, <1>6 DEF Doubles
  <2>. QED BY <2>1, <2>2
<1>. QED BY <1>4, <1>5, <1>7 DEF Doubles

\* A fresh ladder.
LEMMA NewLadderExact == sLadder = S!NewLadder /\ sIdles = 0 => S!LadderExact
BY HandoffAssumption DEF S!LadderExact, S!NewLadder

\* A call of idle(0) climbs one rung, also beyond the end of the history,
\* where the park period is at its limit.
LEMMA LadderClimbs ==
    ASSUME S!TypeOK, S!LadderExact, S!Idle
    PROVE  S!LadderExact'
<1>. USE HandoffAssumption
<1>. DEFINE parks == sIdles - MaxSpins - MaxYields
            last == MaxIdles - MaxSpins - MaxYields
            P == S!Pow2
<1>1. /\ sIdles \in 0..MaxIdles /\ last \in 0..MaxIdles
      /\ MinPark * P[last] >= MaxPark
  BY HistoryAssumption DEF S!TypeOK, S!MaxIdlesSuffices
<1>2. P \in [0..MaxIdles -> Nat] /\ P[0] = 1
      /\ \A n \in 1..MaxIdles : P[n] = 2 * P[n - 1]
  BY Pow2Doubles DEF Doubles
<1>. HIDE DEF P
<1>3. /\ sLadder = [spins |-> sLadder.spins, yields |-> sLadder.yields, park |-> sLadder.park]
      /\ sLadder.spins \in Nat /\ sLadder.yields \in Nat /\ sLadder.park \in Nat
  BY DEF S!TypeOK
<1>4. /\ sLadder.spins = IF sIdles < MaxSpins THEN sIdles ELSE MaxSpins
      /\ sIdles <= MaxSpins => sLadder.yields = 0
      /\ sIdles > MaxSpins => sLadder.yields = IF sIdles - MaxSpins < MaxYields
                                               THEN sIdles - MaxSpins ELSE MaxYields
      /\ parks <= 0 => sLadder.park = MinPark
      /\ parks > 0 => sLadder.park = IF MinPark * P[parks] < MaxPark
                                     THEN MinPark * P[parks] ELSE MaxPark
  BY DEF S!LadderExact, P
<1>5. sIdles' = IF sIdles < MaxIdles THEN sIdles + 1 ELSE sIdles
  BY DEF S!Idle
<1>6. CASE sIdles < MaxSpins
  <2>1. sLadder' = [spins |-> sLadder.spins + 1, yields |-> sLadder.yields, park |-> sLadder.park]
    BY <1>3, <1>4, <1>6 DEF S!Idle, S!Climb
  <2>. QED BY <1>1, <1>3, <1>4, <1>5, <1>6, <2>1 DEF S!LadderExact
<1>7. CASE sIdles >= MaxSpins /\ parks < 0
  <2>1. sLadder' = [spins |-> sLadder.spins, yields |-> sLadder.yields + 1, park |-> sLadder.park]
    BY <1>1, <1>3, <1>4, <1>7 DEF S!Idle, S!Climb
  <2>. QED BY <1>1, <1>3, <1>4, <1>5, <1>7, <2>1 DEF S!LadderExact
<1>8. CASE parks >= 0
  <2>. DEFINE park == IF sLadder.park * 2 < MaxPark THEN sLadder.park * 2 ELSE MaxPark
              x == MinPark * P[parks]
  <2>1. parks \in 0..MaxIdles /\ sIdles >= MaxSpins
    BY <1>1, <1>8
  <2>2. ~(sLadder.spins < MaxSpins) /\ ~(sLadder.yields < MaxYields)
    BY <1>1, <1>4, <1>8
  <2>3. sLadder' = [spins |-> sLadder.spins, yields |-> sLadder.yields, park |-> park]
    BY <1>3, <2>2 DEF S!Idle, S!Climb
  <2>4. x \in Nat /\ sLadder.park = IF x < MaxPark THEN x ELSE MaxPark
    BY <1>2, <1>4, <1>8, <2>1, SMTT(30)
  <2>5. CASE sIdles < MaxIdles
    <3>1. parks + 1 \in 1..MaxIdles
      BY <1>1, <1>8, <2>5
    <3>2. P[parks + 1] = 2 * P[parks]
      <4>. HIDE DEF parks
      <4>1. P[parks + 1] = 2 * P[(parks + 1) - 1]
        BY <1>2, <3>1
      <4>2. (parks + 1) - 1 = parks
        BY <2>1
      <4>. QED BY <4>1, <4>2
    <3>3. MinPark * P[parks + 1] = x * 2
      BY <1>2, <2>1, <3>2
    <3>4. park = IF MinPark * P[parks + 1] < MaxPark THEN MinPark * P[parks + 1] ELSE MaxPark
      BY <2>4, <3>3
    <3>5. sIdles' - MaxSpins - MaxYields = parks + 1 /\ sIdles' = sIdles + 1
      BY <1>1, <1>5, <2>5
    <3>. HIDE DEF park, x
    <3>. QED BY <1>1, <1>4, <1>8, <2>1, <2>3, <3>4, <3>5 DEF S!LadderExact, P
  <2>6. CASE sIdles = MaxIdles
    <3>1. sLadder.park = MaxPark
      BY <1>1, <2>4, <2>6
    <3>2. park = sLadder.park
      BY <3>1
    <3>3. sLadder' = sLadder /\ sIdles' = sIdles
      BY <1>3, <1>5, <2>3, <2>6, <3>2
    <3>. QED BY <3>3 DEF S!LadderExact
  <2>. QED BY <1>1, <2>5, <2>6
<1>. QED BY <1>1, <1>6, <1>7, <1>8

\* The ladder stays a function of the idle calls since the last request.
LEMMA LadderNext ==
    ASSUME S!Inv, S!LadderExact, [S!Next]_slotVars
    PROVE  S!LadderExact'
<1>1. CASE S!Idle
  BY <1>1, LadderClimbs DEF S!Inv
<1>2. CASE S!GetRequest
  <2>1. (sLadder = S!NewLadder /\ sIdles = 0)'
    BY <1>2 DEF S!GetRequest, S!Reset, S!NewLadder
  <2>2. S!LadderExact'
    BY <2>1, HandoffAssumption DEF S!LadderExact, S!NewLadder
  <2>. QED BY <2>2
<1>3. CASE sLadder' = sLadder /\ sIdles' = sIdles
  BY <1>3 DEF S!LadderExact
<1>4. S!Idle \/ S!GetRequest \/ (sLadder' = sLadder /\ sIdles' = sIdles)
  BY DEF S!Next, S!TimerStep, S!Post, S!GetAnswer, S!ClearAnswer, S!ResponderStep,
         S!ClearRequest, S!Answer, S!Drain, S!TakeEffect, S!vars, slotVars
<1>. QED BY <1>1, <1>2, <1>3, <1>4

-----------------------------------------------------------------------------
(* The programs.                                                           *)

\* A step of one program leaves the variables of the others alone.
LEMMA OneProgramSteps ==
    [HandoffNext]_allVars =>
        /\ [Next]_vars /\ [M!Next]_mailboxVars /\ [S!Next]_slotVars /\ [C!Next]_channelVars
BY DEF HandoffNext, allVars, InRing, InCondvar, InSlots, InChannel

\* The condvar mailboxes and the channels pass one token at a time, each
\* taken once and in its own round, whatever the number of round trips, the
\* spin budget, the spurious wake-ups and the order of the threads' steps; the
\* flag that recv trusts outside the lock never points at an empty box.
THEOREM BlockingSound == HandoffSpec => []BlockingHandoffSound
<1>1. HandoffInit => M!Inv /\ C!Inv
  BY MailboxInit, ChannelInit DEF HandoffInit
<1>2. M!Inv /\ C!Inv /\ [HandoffNext]_allVars => (M!Inv /\ C!Inv)'
  BY MailboxNext, ChannelNext, OneProgramSteps
<1>3. M!Inv /\ C!Inv => BlockingHandoffSound
  BY MailboxOneToken, ChannelOneToken DEF BlockingHandoffSound
<1>. QED BY <1>1, <1>2, <1>3, PTL DEF HandoffSpec

\* The two slots never lose or repeat a token although they are lowered with
\* Relaxed stores, for every order in which buffered stores reach memory; and
\* every wait climbs the backoff ladder from its first rung.
THEOREM SlotsAreSound == HandoffSpec => []SlotsSound
<1>1. HandoffInit => SlotsSound
  BY SlotsInit, NewLadderExact DEF HandoffInit, S!Init, SlotsSound
<1>2. SlotsSound /\ [HandoffNext]_allVars => SlotsSound'
  BY SlotsNext, LadderNext, OneProgramSteps DEF SlotsSound
<1>. QED BY <1>1, <1>2, PTL DEF HandoffSpec

\* The ring of the throughput program, run beside the others' variables, keeps
\* its invariant and hands every item over once and in order.
THEOREM RingAmongPrograms == HandoffSpec => []Inv /\ RefinesFifo
<1>1. HandoffInit => Init
  BY DEF HandoffInit
<1>2. [HandoffNext]_allVars => [Next]_vars
  BY OneProgramSteps
<1>3. HandoffSpec => []Inv
  BY <1>1, <1>2, InitInv, NextInv, PTL DEF HandoffSpec
<1>. QED BY <1>1, <1>2, <1>3, InitRefines, StepRefines, PTL DEF HandoffSpec, RefinesFifo, Fifo!Spec
=============================================================================
