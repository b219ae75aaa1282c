-------------------------- MODULE MpscBench_proofs --------------------------
(***************************************************************************)
(* Proofs about the multi-producer ring, free-running (MpscRing) and under *)
(* its benchmark harness (MpscBench): for every number of producers, every *)
(* capacity, burst and drain size.  Inv of MpscRing is the inductive       *)
(* invariant.  Delivery in order is not inductive alone: it rests on which *)
(* slot holds which token (NoOverwrite), that on every stored token lying  *)
(* within one round of the ring (Window), and that on what the producers   *)
(* checked before they stored (Claims).                                    *)
(***************************************************************************)
EXTENDS MpscBench, FiniteSetTheorems, SequenceTheorems, WellFoundedInduction, TLAPS

-----------------------------------------------------------------------------
(* The arithmetic of slots and rounds.                                     *)

\* A sequence is its round times the capacity plus its slot.
LEMMA SlotAndRound ==
    ASSUME NEW s \in Nat
    PROVE  /\ Slot(s) \in 0..(Cap - 1) /\ Round(s) \in 0..s
           /\ s = Cap * Round(s) + Slot(s)
<1>. USE RingAssumption
<1>. DEFINE q == s \div Cap
            r == s % Cap
<1>1. r \in 0..(Cap - 1) /\ q \in Nat /\ s = Cap * q + r
  OBVIOUS
<1>. HIDE DEF q, r
<1>2. Cap * q >= q
  BY <1>1
<1>3. q <= s
  BY <1>1, <1>2
<1>. QED BY <1>1, <1>3 DEF Slot, Round, q, r

\* Sequences less than cap apart have different slots.
LEMMA SlotsDistinct ==
    ASSUME NEW r \in Nat, NEW s \in Nat, r < s, s < r + Cap
    PROVE  Slot(r) # Slot(s)
<1>. USE RingAssumption
<1>. SUFFICES ASSUME Slot(r) = Slot(s) PROVE FALSE
  OBVIOUS
<1>. DEFINE qr == Round(r)
            qs == Round(s)
<1>1. /\ qr \in Nat /\ qs \in Nat /\ Slot(r) \in Nat
      /\ r = Cap * qr + Slot(r) /\ s = Cap * qs + Slot(r)
  BY SlotAndRound
<1>. HIDE DEF qr, qs
<1>2. s - r = Cap * (qs - qr)
  BY <1>1
<1>3. CASE qs <= qr
  <2>1. Cap * (qs - qr) <= 0
    BY <1>1, <1>3
  <2>. QED BY <1>2, <2>1
<1>4. CASE qs >= qr + 1
  <2>1. Cap * (qs - qr) >= Cap
    BY <1>1, <1>4
  <2>. QED BY <1>2, <2>1
<1>. QED BY <1>1, <1>3, <1>4

\* One capacity further is the same slot in the next round.
LEMMA NextRound ==
    ASSUME NEW s \in Nat PROVE Slot(s + Cap) = Slot(s) /\ Round(s + Cap) = Round(s) + 1
<1>. USE RingAssumption
<1>. DEFINE t == s + Cap
            q == Round(s)
            r == Slot(s)
            u == Round(t)
            v == Slot(t)
<1>1. /\ q \in Nat /\ u \in Nat /\ r \in 0..(Cap - 1) /\ v \in 0..(Cap - 1)
      /\ s = Cap * q + r /\ s + Cap = Cap * u + v
  BY SlotAndRound
<1>. HIDE DEF t, q, r, u, v
<1>2. Cap * (u - q - 1) = r - v
  BY <1>1
<1>3. CASE u - q - 1 >= 1
  <2>1. Cap * (u - q - 1) >= Cap
    BY <1>1, <1>3
  <2>. QED BY <1>1, <1>2, <2>1
<1>4. CASE u - q - 1 <= -1
  <2>1. Cap * (u - q - 1) <= -Cap
    BY <1>1, <1>4
  <2>. QED BY <1>1, <1>2, <2>1
<1>5. CASE u - q - 1 = 0
  <2>1. Cap * (u - q - 1) = 0
    BY <1>5
  <2>2. u = q + 1 /\ v = r
    BY <1>1, <1>2, <1>5, <2>1
  <2>. QED BY <2>2 DEF t, q, r, u, v
<1>. QED BY <1>1, <1>3, <1>4, <1>5

\* Least and greatest element of an interval (Min and Max of a range).
LEMMA IntervalEnds ==
    ASSUME NEW lo \in Int, NEW hi \in Int, lo <= hi
    PROVE  Min(lo..hi) = lo /\ Max(lo..hi) = hi
BY DEF Min, Max

-----------------------------------------------------------------------------
(* The ring: every step preserves Inv.                                     *)

\* The empty ring.
LEMMA InitInv == Init => Inv
<1>. SUFFICES ASSUME Init PROVE Inv
  OBVIOUS
<1>. USE RingAssumption
<1>1. TypeOK /\ FifoDelivery /\ NoOverwrite /\ Window
  BY DEF Init, TypeOK, FifoDelivery, NoOverwrite, Window
<1>2. RoundsUnambiguous
  <2>. SUFFICES ASSUME NEW s \in 0..(Cap - 1) PROVE avail[Slot(s)] # Round(s)
    BY DEF Init, RoundsUnambiguous, Published
  <2>1. Slot(s) \in 0..(Cap - 1) /\ Round(s) \in Nat
    BY SlotAndRound
  <2>. QED BY <2>1 DEF Init
<1>3. Claims
  <2>1. 0..(0 - 1) = {}
    OBVIOUS
  <2>. QED BY <2>1 DEF Init, Claims
<1>. QED BY <1>1, <1>2, <1>3 DEF Inv

\* Claiming a range: the new sequences are beyond everything claimed before,
\* and nothing is stored yet.
LEMMA ClaimInv ==
    ASSUME Inv, NEW p \in Producers, NEW n \in 1..MaxBurst, Claim(p, n) PROVE Inv'
<1>. USE RingAssumption
<1>0. /\ ppc[p] = "idle" /\ range[p] = {} /\ stored[p] = {}
      /\ claim + n <= Total /\ claim' = claim + n /\ claim \in Nat /\ n \in Nat \ {0}
      /\ range' = [range EXCEPT ![p] = claim..(claim + n - 1)]
      /\ buf' = buf /\ avail' = avail /\ stored' = stored /\ cachedHead' = cachedHead
      /\ head' = head /\ cpc' = cpc /\ next' = next /\ count' = count /\ out' = out
      /\ next \in Nat /\ next <= claim
      /\ ppc' \in [Producers -> {"idle", "wait", "fill"}]
      /\ \A q \in Producers : q # p => ppc'[q] = ppc[q] /\ range'[q] = range[q]
      /\ range'[p] = claim..(claim + n - 1)
      /\ ppc'[p] \in {"wait", "fill"}
      /\ ppc'[p] = "fill" => RoomFor(claim + n - 1, cachedHead[p])
  BY SMTT(30) DEF Inv, TypeOK, Claims, Claim, consVars
<1>1. TypeOK'
  <2>1. range' \in [Producers -> SUBSET (0..(claim' - 1))]
    BY <1>0, SMTT(30) DEF Inv, TypeOK
  <2>2. stored' \in [Producers -> SUBSET (0..(claim' - 1))]
    BY <1>0, SMTT(30) DEF Inv, TypeOK
  <2>3. claim' \in 0..Total /\ head' \in 0..(next') /\ next' \in 0..(claim') /\ count' \in 0..(next')
    BY <1>0 DEF Inv, TypeOK
  <2>. QED BY <1>0, <2>1, <2>2, <2>3 DEF Inv, TypeOK
<1>2. Outstanding' = Outstanding \cup claim..(claim + n - 1)
  BY <1>0 DEF Outstanding
<1>3. FifoDelivery'
  BY <1>0 DEF Inv, FifoDelivery
<1>4. \A s \in 0..(claim' - 1) : InSlot(s)' => s < claim /\ InSlot(s)
  BY <1>0, <1>2, SMTT(30) DEF InSlot, Inv, TypeOK
<1>5. NoOverwrite'
  BY <1>0, <1>4 DEF NoOverwrite, Inv, Slot
<1>6. RoundsUnambiguous'
  <2>1. ASSUME NEW s \in next..(next + Cap - 1)
        PROVE  s < claim' /\ s \notin Outstanding' <=> s < claim /\ s \notin Outstanding
    BY <1>0, <1>2
  <2>2. \A s : Published(s)' = Published(s)
    BY <1>0 DEF Published
  <2>. QED BY <1>0, <2>1, <2>2 DEF Inv, RoundsUnambiguous
<1>7. Claims'
  <2>1. ASSUME NEW q \in Producers, NEW r \in Producers, q # r
        PROVE  range'[q] \cap range'[r] = {}
    <3>1. \A t \in Producers : range[t] \cap claim..(claim + n - 1) = {}
      BY <1>0, SMTT(30) DEF Inv, TypeOK
    <3>. QED BY <1>0, <2>1, <3>1 DEF Inv, Claims
  <2>2. ASSUME NEW q \in Producers
        PROVE  /\ \E lo, hi \in (next')..(claim') : range'[q] = lo..(hi - 1)
               /\ ppc'[q] = "idle" <=> range'[q] = {}
    <3>1. CASE q = p
      <4>1. claim \in (next')..(claim') /\ claim + n \in (next')..(claim')
        BY <1>0
      <4>2. range'[q] = claim..((claim + n) - 1) /\ claim \in range'[q]
        BY <1>0, <3>1
      <4>3. \E lo, hi \in (next')..(claim') : range'[q] = lo..(hi - 1)
        BY <4>1, <4>2
      <4>4. ppc'[q] # "idle" /\ range'[q] # {}
        BY <1>0, <3>1, <4>2
      <4>. QED BY <4>3, <4>4
    <3>2. CASE q # p
      <4>1. PICK lo \in next..claim, hi \in next..claim : range[q] = lo..(hi - 1)
        BY DEF Inv, Claims
      <4>2. lo \in (next')..(claim') /\ hi \in (next')..(claim') /\ range'[q] = lo..(hi - 1)
        BY <1>0, <3>2, <4>1
      <4>. QED BY <1>0, <3>2, <4>2 DEF Inv, Claims
    <3>. QED BY <3>1, <3>2
  <2>3. ASSUME NEW q \in Producers
        PROVE  /\ stored'[q] \subseteq range'[q]
               /\ ppc'[q] # "fill" => stored'[q] = {}
               /\ ppc'[q] = "fill" => \A s \in range'[q] : RoomFor(s, cachedHead'[q])
    <3>1. CASE q = p
      BY <1>0, <3>1, SMTT(30) DEF RoomFor, Inv, TypeOK
    <3>2. CASE q # p
      BY <1>0, <3>2, SMTT(30) DEF Inv, Claims
    <3>. QED BY <3>1, <3>2
  <2>. QED BY <2>1, <2>2, <2>3 DEF Claims, RoomFor
<1>8. Window'
  BY <1>0, <1>2, <1>4 DEF Window, Inv, TypeOK
<1>. QED BY <1>1, <1>3, <1>5, <1>6, <1>7, <1>8 DEF Inv

\* One turn of the backpressure loop: the head seen is the real one.
LEMMA RefreshHeadInv ==
    ASSUME Inv, NEW p \in Producers, RefreshHead(p) PROVE Inv'
<1>. USE RingAssumption
<1>0. /\ ppc[p] = "wait"
      /\ cachedHead' = [cachedHead EXCEPT ![p] = head]
      /\ ppc' = [ppc EXCEPT ![p] = IF RoomFor(Max(range[p]), head) THEN "fill" ELSE "wait"]
      /\ buf' = buf /\ avail' = avail /\ claim' = claim /\ range' = range /\ stored' = stored
      /\ head' = head /\ cpc' = cpc /\ next' = next /\ count' = count /\ out' = out
  BY DEF RefreshHead, consVars
<1>1. TypeOK'
  <2>1. cachedHead' \in [Producers -> 0..(head')]
    BY <1>0 DEF Inv, TypeOK
  <2>2. ppc' \in [Producers -> {"idle", "wait", "fill"}]
    BY <1>0 DEF Inv, TypeOK
  <2>. QED BY <1>0, <2>1, <2>2 DEF Inv, TypeOK
<1>2. Outstanding' = Outstanding /\ \A s : InSlot(s)' = InSlot(s)
  BY <1>0 DEF Outstanding, InSlot
<1>3. FifoDelivery' /\ NoOverwrite' /\ RoundsUnambiguous' /\ Window'
  BY <1>0, <1>2 DEF Inv, FifoDelivery, NoOverwrite, RoundsUnambiguous, Window, Published,
                    Slot, Round
<1>4. Claims'
  <2>1. ASSUME ppc'[p] = "fill", NEW s \in range[p] PROVE RoomFor(s, head)
    <3>1. PICK lo \in next..claim, hi \in next..claim : range[p] = lo..(hi - 1)
      BY DEF Inv, Claims
    <3>2. Max(range[p]) = hi - 1 /\ s <= hi - 1
      BY <3>1, IntervalEnds DEF Inv, TypeOK
    <3>. QED BY <1>0, <2>1, <3>1, <3>2 DEF RoomFor, Inv, TypeOK
  <2>2. ASSUME NEW q \in Producers
        PROVE  /\ ppc'[q] = "idle" <=> range'[q] = {}
               /\ ppc'[q] # "fill" => stored'[q] = {}
               /\ ppc'[q] = "fill" => \A s \in range'[q] : RoomFor(s, cachedHead'[q])
    <3>1. CASE q = p
      <4>1. ppc'[p] \in {"wait", "fill"} /\ cachedHead'[p] = head
        BY <1>0 DEF Inv, TypeOK
      <4>. QED BY <1>0, <2>1, <3>1, <4>1 DEF Inv, Claims
    <3>2. CASE q # p
      <4>1. ppc'[q] = ppc[q] /\ cachedHead'[q] = cachedHead[q]
        BY <1>0, <3>2 DEF Inv, TypeOK
      <4>. QED BY <1>0, <4>1 DEF Inv, Claims
    <3>. QED BY <3>1, <3>2
  <2>. QED BY <1>0, <2>2, SMTT(30) DEF Inv, Claims, RoomFor
<1>. QED BY <1>1, <1>3, <1>4 DEF Inv

\* A slot store: the token it overwrites has been read, because every stored
\* token lies within one round of the ring and the producer saw room.
LEMMA StoreSlotInv ==
    ASSUME Inv, NEW p \in Producers, NEW s \in range[p], StoreSlot(p, s) PROVE Inv'
<1>. USE RingAssumption
<1>0. /\ ppc[p] = "fill" /\ s \in range[p] /\ s \notin stored[p]
      /\ buf' = [buf EXCEPT ![Slot(s)] = s + 1]
      /\ stored' = [stored EXCEPT ![p] = @ \cup {s}]
      /\ avail' = avail /\ claim' = claim /\ ppc' = ppc /\ range' = range
      /\ cachedHead' = cachedHead
      /\ head' = head /\ cpc' = cpc /\ next' = next /\ count' = count /\ out' = out
  BY DEF StoreSlot, consVars
<1>1. /\ s \in Nat /\ s \in next..(claim - 1) /\ s < head + Cap
      /\ head \in Nat /\ next \in Nat /\ claim \in Nat /\ head <= next /\ claim <= Total
  <2>1. PICK lo \in next..claim, hi \in next..claim : range[p] = lo..(hi - 1)
    BY DEF Inv, Claims
  <2>2. head \in Nat /\ next \in Nat /\ claim \in Nat /\ head <= next /\ claim <= Total
    BY DEF Inv, TypeOK
  <2>3. s \in next..(claim - 1)
    BY <1>0, <2>1, <2>2
  <2>4. s >= 0 /\ cachedHead[p] \in 0..head /\ cachedHead[p] >= s + 1 - Cap
    BY <1>0, <2>2, <2>3 DEF Inv, TypeOK, Claims, RoomFor
  <2>. QED BY <2>2, <2>3, <2>4
<1>2. TypeOK'
  <2>1. Slot(s) \in 0..(Cap - 1)
    BY <1>1, SlotAndRound
  <2>2. buf' \in [0..(Cap - 1) -> 0..Total]
    BY <1>0, <1>1, <2>1 DEF Inv, TypeOK
  <2>3. stored' \in [Producers -> SUBSET (0..(claim' - 1))]
    BY <1>0 DEF Inv, TypeOK
  <2>. QED BY <1>0, <2>2, <2>3 DEF Inv, TypeOK
<1>3. Outstanding' = Outstanding
  BY <1>0 DEF Outstanding
<1>4. \A r : InSlot(r)' <=> InSlot(r) \/ r = s
  BY <1>0, <1>3 DEF InSlot, Inv, TypeOK
<1>5. FifoDelivery' /\ RoundsUnambiguous'
  BY <1>0, <1>3 DEF Inv, FifoDelivery, RoundsUnambiguous, Published, Slot, Round
<1>6. NoOverwrite'
  <2>. SUFFICES ASSUME NEW r \in next..(claim - 1), InSlot(r)' PROVE buf'[Slot(r)] = r + 1
    BY <1>0 DEF NoOverwrite, Slot
  <2>1. r \in Nat /\ Slot(r) \in 0..(Cap - 1) /\ Slot(s) \in 0..(Cap - 1)
    BY <1>1, SlotAndRound
  <2>2. CASE r = s
    BY <1>0, <2>1, <2>2 DEF Inv, TypeOK
  <2>3. CASE r # s
    <3>1. InSlot(r)
      BY <1>4, <2>3
    <3>2. r < head + Cap
      BY <1>1, <3>1 DEF Inv, Window
    <3>3. Slot(r) # Slot(s)
      BY <1>1, <2>1, <2>3, <3>2, SlotsDistinct
    <3>4. buf[Slot(r)] = r + 1
      BY <3>1 DEF Inv, NoOverwrite
    <3>. QED BY <1>0, <2>1, <3>3, <3>4 DEF Inv, TypeOK
  <2>. QED BY <2>2, <2>3
<1>7. Claims'
  <2>1. \A q \in Producers : stored'[q] = IF q = p THEN stored[q] \cup {s} ELSE stored[q]
    BY <1>0 DEF Inv, TypeOK
  <2>2. \A q \in Producers : stored'[q] \subseteq range'[q] /\ (ppc'[q] # "fill" => stored'[q] = {})
    BY <1>0, <2>1 DEF Inv, Claims
  <2>3. \A q \in Producers :
           /\ \E lo, hi \in (next')..(claim') : range'[q] = lo..(hi - 1)
           /\ ppc'[q] = "idle" <=> range'[q] = {}
           /\ ppc'[q] = "fill" => \A r \in range'[q] : RoomFor(r, cachedHead'[q])
    BY <1>0 DEF Inv, Claims
  <2>4. \A q, r \in Producers : q # r => range'[q] \cap range'[r] = {}
    BY <1>0 DEF Inv, Claims
  <2>. QED BY <2>2, <2>3, <2>4 DEF Claims, RoomFor
<1>8. Window'
  BY <1>0, <1>1, <1>3, <1>4 DEF Inv, Window
<1>. QED BY <1>2, <1>5, <1>6, <1>7, <1>8 DEF Inv

\* What a Publish does, with the sequence it publishes named.
LEMMA PublishEffect ==
    ASSUME Inv, NEW p \in Producers, Publish(p)
    PROVE  \E s \in range[p], hi \in next..claim :
              /\ ppc[p] = "fill" /\ s \in stored[p]
              /\ s \in next..(claim - 1) /\ s \in Nat /\ s < head + Cap
              /\ range[p] = s..(hi - 1) /\ range'[p] = (s + 1)..(hi - 1)
              /\ avail' = [avail EXCEPT ![Slot(s)] = Round(s)]
              /\ range' = [range EXCEPT ![p] = @ \ {s}]
              /\ stored' = [stored EXCEPT ![p] = @ \ {s}]
              /\ ppc' = [ppc EXCEPT ![p] = IF range[p] = {s} THEN "idle" ELSE "fill"]
              /\ Outstanding' = Outstanding \ {s} /\ s \in Outstanding
              /\ \A r : InSlot(r)' <=> InSlot(r)
              /\ buf' = buf /\ claim' = claim /\ cachedHead' = cachedHead
              /\ head' = head /\ cpc' = cpc /\ next' = next /\ count' = count /\ out' = out
<1>. USE RingAssumption
<1>. DEFINE s == Min(range[p])
<1>1. PICK lo \in next..claim, hi \in next..claim : range[p] = lo..(hi - 1)
  BY DEF Inv, Claims
<1>2. range[p] # {} /\ next \in Nat /\ claim \in Nat
  BY DEF Inv, TypeOK, Claims, Publish
<1>3. lo <= hi - 1 /\ lo \in Int /\ hi - 1 \in Int
  BY <1>1, <1>2
<1>4. s = lo
  BY <1>1, <1>3, IntervalEnds
<1>5. /\ s \in range[p] /\ s \in next..(claim - 1) /\ s \in Nat
      /\ range[p] = s..(hi - 1) /\ range[p] \ {s} = (s + 1)..(hi - 1)
  BY <1>1, <1>2, <1>3, <1>4
<1>. HIDE DEF s
<1>6. /\ ppc[p] = "fill" /\ s \in stored[p]
      /\ avail' = [avail EXCEPT ![Slot(s)] = Round(s)]
      /\ range' = [range EXCEPT ![p] = @ \ {s}]
      /\ stored' = [stored EXCEPT ![p] = @ \ {s}]
      /\ ppc' = [ppc EXCEPT ![p] = IF range[p] = {s} THEN "idle" ELSE "fill"]
      /\ buf' = buf /\ claim' = claim /\ cachedHead' = cachedHead
      /\ head' = head /\ cpc' = cpc /\ next' = next /\ count' = count /\ out' = out
  BY DEF Publish, consVars, s
<1>7. range'[p] = (s + 1)..(hi - 1)
  BY <1>5, <1>6 DEF Inv, TypeOK
<1>8. s < head + Cap
  BY <1>5, <1>6 DEF Inv, TypeOK, Claims, RoomFor
<1>9. Outstanding' = Outstanding \ {s} /\ s \in Outstanding
  <2>1. \A q \in Producers : q # p => s \notin range[q]
    BY <1>5 DEF Inv, Claims
  <2>2. \A q \in Producers : range'[q] = range[q] \ {s}
    BY <1>6, <2>1 DEF Inv, TypeOK
  <2>. QED BY <1>5, <2>2 DEF Outstanding
<1>10. \A r : InSlot(r)' <=> InSlot(r)
  <2>1. \A q \in Producers : stored'[q] = IF q = p THEN stored[q] \ {s} ELSE stored[q]
    BY <1>6 DEF Inv, TypeOK
  <2>. QED BY <1>6, <1>9, <2>1 DEF InSlot
<1>. QED BY <1>5, <1>6, <1>7, <1>8, <1>9, <1>10

\* Publishing a round number: it is the slot's number for that one sequence
\* of the window only.
LEMMA PublishInv ==
    ASSUME Inv, NEW p \in Producers, Publish(p) PROVE Inv'
<1>. USE RingAssumption
<1>0. PICK s \in range[p], hi \in next..claim :
              /\ ppc[p] = "fill" /\ s \in stored[p]
              /\ s \in next..(claim - 1) /\ s \in Nat /\ s < head + Cap
              /\ range[p] = s..(hi - 1) /\ range'[p] = (s + 1)..(hi - 1)
              /\ avail' = [avail EXCEPT ![Slot(s)] = Round(s)]
              /\ range' = [range EXCEPT ![p] = @ \ {s}]
              /\ stored' = [stored EXCEPT ![p] = @ \ {s}]
              /\ ppc' = [ppc EXCEPT ![p] = IF range[p] = {s} THEN "idle" ELSE "fill"]
              /\ Outstanding' = Outstanding \ {s} /\ s \in Outstanding
              /\ \A r : InSlot(r)' <=> InSlot(r)
              /\ buf' = buf /\ claim' = claim /\ cachedHead' = cachedHead
              /\ head' = head /\ cpc' = cpc /\ next' = next /\ count' = count /\ out' = out
  BY PublishEffect
<1>1. Slot(s) \in 0..(Cap - 1) /\ Round(s) \in 0..s /\ claim \in Nat /\ next \in Nat /\ head \in Nat
      /\ head <= next /\ claim <= Total
  BY <1>0, SlotAndRound DEF Inv, TypeOK
<1>2. TypeOK'
  <2>0. Round(s) \in -1..Total
    BY <1>0, <1>1
  <2>1. avail' \in [0..(Cap - 1) -> -1..Total]
    BY <1>0, <1>1, <2>0 DEF Inv, TypeOK
  <2>2. range' \in [Producers -> SUBSET (0..(claim' - 1))] /\ stored' \in [Producers -> SUBSET (0..(claim' - 1))]
    BY <1>0 DEF Inv, TypeOK
  <2>3. ppc' \in [Producers -> {"idle", "wait", "fill"}]
    BY <1>0 DEF Inv, TypeOK
  <2>. QED BY <1>0, <2>1, <2>2, <2>3 DEF Inv, TypeOK
<1>3. FifoDelivery' /\ NoOverwrite'
  BY <1>0 DEF Inv, FifoDelivery, NoOverwrite, Slot
<1>4. RoundsUnambiguous'
  <2>. SUFFICES ASSUME NEW r \in next..(next + Cap - 1)
                PROVE  Published(r)' <=> r < claim /\ r \notin Outstanding'
    BY <1>0 DEF RoundsUnambiguous
  <2>0. r \in Nat
    BY <1>1
  <2>1. r \in Nat /\ Slot(r) \in 0..(Cap - 1)
    BY <2>0, SlotAndRound
  <2>2. CASE r = s
    BY <1>0, <1>1, <2>2 DEF Published, Inv, TypeOK
  <2>3. CASE r # s
    <3>1. Slot(r) # Slot(s)
      BY <1>0, <1>1, <2>1, <2>3, SlotsDistinct
    <3>2. avail'[Slot(r)] = avail[Slot(r)]
      BY <1>0, <1>1, <2>1, <3>1 DEF Inv, TypeOK
    <3>3. Published(r)' <=> Published(r)
      BY <3>2 DEF Published, Slot, Round
    <3>. QED BY <1>0, <2>3, <3>3 DEF Inv, RoundsUnambiguous
  <2>. QED BY <2>2, <2>3
<1>5. Claims'
  <2>1. \A q \in Producers :
           /\ range'[q] = IF q = p THEN range[q] \ {s} ELSE range[q]
           /\ stored'[q] = IF q = p THEN stored[q] \ {s} ELSE stored[q]
           /\ ppc'[q] = IF q = p THEN IF range[q] = {s} THEN "idle" ELSE "fill" ELSE ppc[q]
    BY <1>0 DEF Inv, TypeOK
  <2>2. \A q, r \in Producers : q # r => range'[q] \cap range'[r] = {}
    BY <2>1 DEF Inv, Claims
  <2>3. ASSUME NEW q \in Producers
        PROVE  \E lo, h \in (next')..(claim') : range'[q] = lo..(h - 1)
    <3>1. CASE q = p
      <4>1. s + 1 \in (next')..(claim') /\ hi \in (next')..(claim')
        BY <1>0, <1>1
      <4>. QED BY <1>0, <3>1, <4>1
    <3>2. CASE q # p
      BY <1>0, <2>1, <3>2 DEF Inv, Claims
    <3>. QED BY <3>1, <3>2
  <2>4. ASSUME NEW q \in Producers
        PROVE  /\ ppc'[q] = "idle" <=> range'[q] = {}
               /\ stored'[q] \subseteq range'[q]
               /\ ppc'[q] # "fill" => stored'[q] = {}
               /\ ppc'[q] = "fill" => \A r \in range'[q] : RoomFor(r, cachedHead'[q])
    <3>1. CASE q = p
      <4>1. ppc'[q] = "fill" <=> range[q] # {s}
        BY <2>1, <3>1
      <4>2. range'[q] = {} <=> range[q] = {s}
        <5>1. range'[q] = range[q] \ {s} /\ s \in range[q]
          BY <1>0, <2>1, <3>1
        <5>. QED BY <5>1
      <4>3. stored'[q] \subseteq range'[q]
        BY <2>1, <3>1 DEF Inv, Claims
      <4>4. \A r \in range'[q] : RoomFor(r, cachedHead'[q])
        <5>1. \A r \in range'[q] : r \in range[q]
          BY <2>1, <3>1
        <5>. QED BY <1>0, <3>1, <5>1 DEF Inv, Claims
      <4>. QED BY <2>1, <3>1, <4>1, <4>2, <4>3, <4>4
    <3>2. CASE q # p
      BY <1>0, <2>1, <3>2 DEF Inv, Claims
    <3>. QED BY <3>1, <3>2
  <2>. QED BY <2>2, <2>3, <2>4 DEF Claims, RoomFor
<1>6. Window'
  BY <1>0 DEF Inv, Window
<1>. QED BY <1>2, <1>3, <1>4, <1>5, <1>6 DEF Inv

\* The consumer's steps that move no cursor.
LEMMA ScanInv ==
    ASSUME Inv,
           UNCHANGED <<buf, avail, prodVars, next, out>>,
           head' \in head..next, cpc' \in {"idle", "scan", "read"}, count' \in 0..next,
           cpc' = "read" => Published(next)
    PROVE  Inv'
<1>. USE RingAssumption
<1>0. /\ buf' = buf /\ avail' = avail /\ claim' = claim /\ ppc' = ppc /\ range' = range
      /\ stored' = stored /\ cachedHead' = cachedHead /\ next' = next /\ out' = out
  BY DEF prodVars
<1>1. /\ head \in Nat /\ next \in Nat /\ head' \in Nat /\ head' <= next /\ head <= head'
      /\ claim \in Nat
  BY DEF Inv, TypeOK
<1>2. TypeOK'
  <2>1. cachedHead' \in [Producers -> 0..(head')]
    BY <1>0, <1>1 DEF Inv, TypeOK
  <2>2. head' \in 0..(next') /\ next' \in 0..(claim') /\ count' \in 0..(next')
    BY <1>0, <1>1 DEF Inv, TypeOK
  <2>. QED BY <1>0, <2>1, <2>2 DEF Inv, TypeOK
<1>3. Outstanding' = Outstanding /\ \A s : InSlot(s)' = InSlot(s)
  BY <1>0 DEF Outstanding, InSlot
<1>4. FifoDelivery' /\ NoOverwrite'
  BY <1>0, <1>3 DEF Inv, FifoDelivery, NoOverwrite, Slot
<1>6. RoundsUnambiguous'
  BY <1>0, <1>3 DEF Inv, RoundsUnambiguous, Published, Slot, Round
<1>7. Claims'
  BY <1>0 DEF Inv, Claims, RoomFor
<1>5. Window'
  <2>1. cpc' = "read" => next < claim /\ next \notin Outstanding
    BY <1>1 DEF Inv, RoundsUnambiguous
  <2>2. \A s \in 0..(claim - 1) : InSlot(s) => s < head' + Cap
    <3>. TAKE s \in 0..(claim - 1)
    <3>. HAVE InSlot(s)
    <3>1. s \in Nat /\ s < head + Cap
      BY <1>1 DEF Inv, Window
    <3>2. \A a, b, c \in Nat : a <= b /\ s < a + c => s < b + c
      BY <3>1
    <3>. QED BY <1>1, <3>1, <3>2
  <2>. QED BY <1>0, <1>3, <2>1, <2>2 DEF Window
<1>. QED BY <1>2, <1>4, <1>5, <1>6, <1>7 DEF Inv

\* Entering a drain.
LEMMA StartDrainInv == ASSUME Inv, StartDrain PROVE Inv'
<1>1. head' \in head..next /\ count' \in 0..next
  BY DEF Inv, TypeOK, StartDrain
<1>. QED BY <1>1, ScanInv DEF StartDrain

\* The consumer finds the next token published.
LEMMA FindTokenInv == ASSUME Inv, NEW max, FindToken(max) PROVE Inv'
<1>1. head' \in head..next /\ count' \in 0..next
  BY DEF Inv, TypeOK, FindToken
<1>. QED BY <1>1, ScanInv DEF FindToken

\* The end of a drain gives the slots back.
LEMMA EndDrainInv == ASSUME Inv, NEW max, EndDrain(max) PROVE Inv'
<1>1. head' \in head..next /\ count' \in 0..next
  BY DEF Inv, TypeOK, EndDrain
<1>. QED BY <1>1, ScanInv DEF EndDrain

\* Loading a slot: it holds the token of the next sequence, and the slot's
\* round number cannot be taken for the sequence one round later.
LEMMA LoadSlotInv == ASSUME Inv, LoadSlot PROVE Inv'
<1>. USE RingAssumption
<1>0. /\ cpc = "read" /\ cpc' = "scan"
      /\ out' = Append(out, buf[Slot(next)]) /\ next' = next + 1 /\ count' = count + 1
      /\ buf' = buf /\ avail' = avail /\ claim' = claim /\ ppc' = ppc /\ range' = range
      /\ stored' = stored /\ cachedHead' = cachedHead /\ head' = head
  BY DEF LoadSlot, prodVars
<1>1. /\ next < claim /\ next \notin Outstanding /\ next \in Nat /\ claim \in 0..Total
      /\ head \in Nat /\ head <= next /\ count \in Nat /\ count <= next /\ InSlot(next)
  BY <1>0 DEF Inv, TypeOK, Window, InSlot
<1>2. out' = Append(out, next + 1) /\ next + 1 \in 0..Total /\ out \in Seq(0..Total)
  BY <1>0, <1>1 DEF Inv, NoOverwrite, TypeOK
<1>3. TypeOK'
  <2>1. head' \in 0..(next') /\ next' \in 0..(claim') /\ count' \in 0..(next')
    BY <1>0, <1>1
  <2>2. out' \in Seq(0..Total)
    BY <1>2
  <2>. QED BY <1>0, <2>1, <2>2 DEF Inv, TypeOK
<1>4. Outstanding' = Outstanding /\ \A s : InSlot(s)' = InSlot(s)
  BY <1>0 DEF Outstanding, InSlot
<1>5. FifoDelivery'
  <2>1. Len(out) = next /\ Len(out') = next + 1
    BY <1>2 DEF Inv, FifoDelivery
  <2>2. ASSUME NEW i \in 1..(next + 1) PROVE out'[i] = i
    <3>1. CASE i \in 1..next
      BY <1>2, <2>1, <3>1 DEF Inv, FifoDelivery
    <3>2. CASE i = next + 1
      BY <1>2, <2>1, <3>2
    <3>. QED BY <1>1, <3>1, <3>2
  <2>. QED BY <1>0, <2>1, <2>2 DEF FifoDelivery
<1>6. NoOverwrite'
  BY <1>0, <1>1, <1>4 DEF Inv, NoOverwrite, Slot
<1>7. RoundsUnambiguous'
  <2>. SUFFICES ASSUME NEW s \in (next + 1)..(next + Cap)
                PROVE  Published(s) <=> s < claim /\ s \notin Outstanding
    <3>1. \A s : Published(s)' = Published(s)
      BY <1>0 DEF Published
    <3>2. next' + Cap - 1 = next + Cap
      BY <1>0, <1>1
    <3>. QED BY <1>0, <1>4, <3>1, <3>2 DEF RoundsUnambiguous
  <2>1. CASE s \in next..(next + Cap - 1)
    BY <2>1 DEF Inv, RoundsUnambiguous
  <2>2. CASE s = next + Cap
    <3>1. Published(next)
      BY <1>1 DEF Inv, RoundsUnambiguous
    <3>2. ~Published(s)
      <4>1. Slot(s) = Slot(next) /\ Round(s) = Round(next) + 1
        BY <1>1, <2>2, NextRound
      <4>2. Round(next) \in Nat
        BY <1>1, SlotAndRound
      <4>. QED BY <3>1, <4>1, <4>2 DEF Published
    <3>3. s < claim => ~InSlot(s)
      BY <1>1, <2>2 DEF Inv, Window
    <3>. QED BY <3>2, <3>3 DEF InSlot
  <2>. QED BY <1>1, <2>1, <2>2
<1>8. Claims'
  <2>1. ASSUME NEW p \in Producers
        PROVE  \E lo, hi \in (next')..(claim') : range'[p] = lo..(hi - 1)
    <3>1. PICK lo \in next..claim, hi \in next..claim : range[p] = lo..(hi - 1)
      BY DEF Inv, Claims
    <3>2. next \notin range[p]
      BY <1>1 DEF Outstanding
    <3>3. CASE lo <= hi - 1
      <4>1. lo # next
        BY <1>1, <3>1, <3>2, <3>3
      <4>2. lo \in (next')..(claim') /\ hi \in (next')..(claim')
        BY <1>0, <1>1, <3>1, <3>3, <4>1
      <4>. QED BY <1>0, <3>1, <4>2
    <3>4. CASE lo > hi - 1
      <4>1. range[p] = claim..(claim - 1) /\ claim \in (next')..(claim')
        BY <1>0, <1>1, <3>1, <3>4
      <4>. QED BY <1>0, <4>1
    <3>. QED BY <1>1, <3>1, <3>3, <3>4
  <2>2. \A p \in Producers :
           /\ ppc'[p] = "idle" <=> range'[p] = {}
           /\ stored'[p] \subseteq range'[p]
           /\ ppc'[p] # "fill" => stored'[p] = {}
           /\ ppc'[p] = "fill" => \A s \in range'[p] : RoomFor(s, cachedHead'[p])
    BY <1>0 DEF Inv, Claims
  <2>3. \A q, r \in Producers : q # r => range'[q] \cap range'[r] = {}
    BY <1>0 DEF Inv, Claims
  <2>. QED BY <2>1, <2>2, <2>3 DEF Claims, RoomFor
<1>9. Window'
  BY <1>0, <1>4 DEF Inv, Window
<1>. QED BY <1>3, <1>5, <1>6, <1>7, <1>8, <1>9 DEF Inv

\* A step of a producer that has claimed.
LEMMA DeliverInv == ASSUME Inv, NEW p \in Producers, Deliver(p) PROVE Inv'
BY RefreshHeadInv, StoreSlotInv, PublishInv DEF Deliver

\* A step of the free-running ring.
LEMMA RingNextInv == ASSUME Inv, Next PROVE Inv'
<1>1. ASSUME NEW p \in Producers, (\E n \in 1..MaxBurst : Claim(p, n)) \/ Deliver(p) PROVE Inv'
  BY <1>1, ClaimInv, DeliverInv
<1>2. CASE Consumer
  BY <1>2, StartDrainInv, FindTokenInv, LoadSlotInv, EndDrainInv DEF Consumer
<1>. QED BY <1>1, <1>2 DEF Next

\* A step that leaves the ring alone.
LEMMA StutterInv == ASSUME Inv, UNCHANGED vars PROVE Inv'
BY SMTT(30) DEF vars, prodVars, consVars, Inv, TypeOK, FifoDelivery, NoOverwrite, RoundsUnambiguous,
       Claims, Window, InSlot, Outstanding, RoomFor, Published, Slot, Round

\* The free-running ring is sound: tokens are delivered once and in order,
\* none is overwritten unread, no round number is mistaken (mpsc.rs).
THEOREM RingSound == Spec => []Inv
<1>1. Inv /\ [Next]_vars => Inv'
  BY RingNextInv, StutterInv
<1>. QED BY <1>1, InitInv, PTL DEF Spec

-----------------------------------------------------------------------------
(* The harness: each producer makes one burst per iteration, and what the  *)
(* sink shows is what was drained of it.                                   *)

\* The producers that have not begun their burst of this iteration.
Unclaimed == {p \in Producers : BurstsOf(p) = iter - 1 \/ bpc[p] = "burst"}

\* The increments the baseline's producers have still to make.
ToAdd == {x \in Producers \X (1..Size) : x[2] <= left[x[1]]}

\* The tokens the consumer has drained and not yet added to the sink.
InFlight == IF dpc = "add" \/ cpc # "idle" THEN count ELSE 0

\* The tokens of the iterations before this one.
Counted == IF iter = 0 THEN 0 ELSE (iter - 1) * Expected

\* Main is between two iterations, or past the last one.
Between == main \in {"store", "reset", "stop", "join", "end"}

\* The variables of the harness have their types.
BenchTypeOK ==
    /\ program \in {"ring", "base", "free"}
    /\ main \in {"store", "reset", "start", "spin", "stop", "join", "end"}
    /\ iter \in Nat /\ sink \in Nat
    /\ flag \in [Producers -> BOOLEAN]
    /\ bpc \in [Producers -> {"poll", "burst", "publish", "joined"}]
    /\ bursts \in [Producers -> Nat]
    /\ left \in [Producers -> 0..Size]
    /\ dpc \in {"drain", "add", "joined"}

\* Who is in which iteration (the flags of run_benchmark).
InStep ==
    /\ burstSize = IF main = "store" THEN 0 ELSE Size
    /\ main \in {"start", "spin", "stop", "join", "end"} => iter > 0
    /\ main = "store" => iter = 0 /\ sink = 0
    /\ \A p \in Producers :
          /\ BurstsOf(p) \in {iter - 1, iter}
          /\ flag[p] => BurstsOf(p) = iter - 1
          /\ bpc[p] = "burst" => BurstsOf(p) = iter
          /\ Between => ~flag[p] /\ BurstsOf(p) = iter /\ bpc[p] # "burst"
          /\ main = "start" /\ p \in pending => ~flag[p] /\ BurstsOf(p) = iter - 1
          /\ left[p] > 0 => bpc[p] = "publish"
    /\ stopCons => main = "end"
    /\ dpc = "joined" => stopCons

\* The tokens of our_mp_ring: claimed, drained and counted.
RingAccount ==
    program = "ring" =>
        /\ claim + Size * Cardinality(Unclaimed) = iter * Expected
        /\ sink + InFlight + Counted = next
        /\ dpc = "add" => cpc = "idle" /\ count > 0
        /\ main = "reset" => next = iter * Expected /\ InFlight = 0
        /\ \A p \in Producers : left[p] = 0

\* The increments of the baseline.
BaseAccount ==
    program = "base" =>
        /\ sink + Cardinality(ToAdd) + Size * Cardinality(Unclaimed)
              = IF iter = 0 THEN 0 ELSE Expected
        /\ main = "reset" => ToAdd = {}

\* The inductive invariant of the harness.
BenchInv == Inv /\ BenchTypeOK /\ (program # "free" => InStep /\ RingAccount /\ BaseAccount)

\* The sizes of the sets the accounts are about.
LEMMA Sizes ==
    ASSUME BenchTypeOK
    PROVE  /\ Size \in Nat \ {0} /\ Cardinality(Producers) \in Nat /\ Expected \in Nat
           /\ IsFiniteSet(Unclaimed) /\ Cardinality(Unclaimed) \in Nat
           /\ Size * Cardinality(Unclaimed) \in Nat
           /\ Unclaimed = {} => Size * Cardinality(Unclaimed) = 0
           /\ Unclaimed = Producers => Size * Cardinality(Unclaimed) = Expected
           /\ Size * Cardinality(Unclaimed) = 0 => Unclaimed = {}
           /\ IsFiniteSet(ToAdd) /\ Cardinality(ToAdd) \in Nat
           /\ Cardinality(ToAdd) = 0 <=> ToAdd = {}
<1>. USE RingAssumption, BenchAssumption
<1>1. Size \in Nat \ {0} /\ Cardinality(Producers) \in Nat
  BY FS_CardinalityType
<1>2. IsFiniteSet(Unclaimed) /\ Cardinality(Unclaimed) \in Nat
  BY FS_Subset, FS_CardinalityType DEF Unclaimed
<1>3. IsFiniteSet(Producers \X (1..Size))
  <2>1. IsFiniteSet(1..Size)
    BY <1>1, FS_Interval
  <2>. QED BY <2>1, FS_Product
<1>4. IsFiniteSet(ToAdd) /\ Cardinality(ToAdd) \in Nat
  BY <1>3, FS_Subset, FS_CardinalityType DEF ToAdd
<1>5. Expected \in Nat /\ (Unclaimed = Producers => Size * Cardinality(Unclaimed) = Expected)
  BY <1>1 DEF Expected
<1>6. Cardinality(Unclaimed) = 0 <=> Unclaimed = {}
  BY <1>2, FS_EmptySet
<1>7. Cardinality(ToAdd) = 0 <=> ToAdd = {}
  BY <1>4, FS_EmptySet
<1>8. \A n \in Nat : Size * n \in Nat /\ (Size * n = 0 <=> n = 0)
  BY <1>1
<1>. QED BY <1>1, <1>2, <1>4, <1>5, <1>6, <1>7, <1>8

\* Before the first iteration.
LEMMA InitBench == BenchInit => BenchInv
<1>. SUFFICES ASSUME BenchInit PROVE BenchInv
  OBVIOUS
<1>. USE RingAssumption, BenchAssumption
<1>1. Inv
  BY InitInv DEF BenchInit
<1>2. BenchTypeOK
  BY DEF BenchInit, BenchTypeOK
<1>3. \A p \in Producers : BurstsOf(p) = 0
  BY DEF BenchInit, BurstsOf
<1>4. InStep
  BY <1>3 DEF BenchInit, InStep
<1>5. Unclaimed = {} /\ ToAdd = {}
  BY <1>3 DEF Unclaimed, ToAdd, BenchInit
<1>6. Size * Cardinality(Unclaimed) = 0 /\ Cardinality(ToAdd) = 0 /\ Expected \in Nat
  BY <1>2, <1>5, Sizes
<1>7. iter = 0 /\ sink = 0 /\ claim = 0 /\ next = 0 /\ count = 0 /\ dpc = "drain" /\ cpc = "idle"
      /\ \A p \in Producers : left[p] = 0
  BY DEF BenchInit, Init
<1>8. RingAccount
  BY <1>6, <1>7 DEF RingAccount, InFlight, Counted
<1>9. BaseAccount
  BY <1>5, <1>6, <1>7 DEF BaseAccount
<1>. QED BY <1>1, <1>2, <1>4, <1>8, <1>9 DEF BenchInv

\* A producer takes its flag, or leaves.
LEMMA PollBench ==
    ASSUME BenchInv, program # "free", program' = program, NEW p \in Producers, Poll(p)
    PROVE  BenchInv'
<1>. USE RingAssumption, BenchAssumption
<1>0. /\ InStep /\ RingAccount /\ BaseAccount /\ BenchTypeOK /\ Inv
      /\ bpc[p] = "poll"
      /\ burstSize' = burstSize /\ sink' = sink /\ stop' = stop /\ stopCons' = stopCons
      /\ left' = left /\ bursts' = bursts /\ dpc' = dpc /\ main' = main /\ pending' = pending
      /\ iter' = iter
      /\ claim' = claim /\ next' = next /\ cpc' = cpc /\ count' = count
  BY DEF BenchInv, Poll, vars, prodVars, consVars
<1>1. Inv'
  BY StutterInv DEF BenchInv, Poll
<1>2. BenchTypeOK'
  BY <1>0 DEF BenchTypeOK, Poll
<1>3. /\ \A q \in Producers : q # p => BurstsOf(q)' = BurstsOf(q) /\ bpc'[q] = bpc[q] /\ flag'[q] = flag[q]
      /\ ~flag'[p]
      /\ \/ flag[p] /\ BurstsOf(p)' = BurstsOf(p) + 1 /\ bpc'[p] = "burst"
         \/ ~flag[p] /\ BurstsOf(p)' = BurstsOf(p) /\ bpc'[p] = "joined"
  BY <1>0 DEF Poll, BurstsOf, BenchTypeOK
<1>4. iter \in Nat /\ \A q \in Producers : BurstsOf(q) \in Nat
  BY <1>0 DEF BenchTypeOK, BurstsOf
<1>5. InStep'
  BY <1>0, <1>3, <1>4 DEF InStep, Between
<1>6. Unclaimed' = Unclaimed /\ ToAdd' = ToAdd
  BY <1>0, <1>3, <1>4 DEF Unclaimed, ToAdd, InStep
<1>7. RingAccount' /\ BaseAccount'
  BY <1>0, <1>6 DEF RingAccount, BaseAccount, InFlight, Counted, Expected
<1>. QED BY <1>1, <1>2, <1>5, <1>7 DEF BenchInv

\* A burst begins: the producer leaves Unclaimed with Size tokens.
LEMMA BeginBurstBench ==
    ASSUME BenchInv, program # "free", program' = program, NEW p \in Producers, BeginBurst(p)
    PROVE  BenchInv'
<1>. USE RingAssumption, BenchAssumption
<1>0. /\ InStep /\ RingAccount /\ BaseAccount /\ BenchTypeOK /\ Inv
      /\ bpc[p] = "burst" /\ bpc' = [bpc EXCEPT ![p] = "publish"]
      /\ burstSize' = burstSize /\ sink' = sink /\ flag' = flag /\ stopCons' = stopCons
      /\ bursts' = bursts /\ dpc' = dpc /\ main' = main /\ pending' = pending
      /\ iter' = iter
  BY DEF BenchInv, BeginBurst
<1>1. /\ main \notin {"store", "reset"} /\ burstSize = Size /\ Size \in 1..MaxBurst /\ Size \in Nat
      /\ iter > 0 /\ BurstsOf(p) = iter /\ ~Between /\ left[p] = 0 /\ iter \in Nat
  BY <1>0 DEF InStep, Between, BenchTypeOK
<1>2. \A q \in Producers : BurstsOf(q)' = BurstsOf(q)
  BY <1>0 DEF BurstsOf, BenchTypeOK
<1>3. p \in Unclaimed /\ Unclaimed' = Unclaimed \ {p}
  BY <1>0, <1>1, <1>2 DEF Unclaimed, BenchTypeOK
<1>4. /\ Cardinality(Unclaimed) \in Nat /\ Cardinality(Unclaimed') = Cardinality(Unclaimed) - 1
  BY <1>0, <1>3, Sizes, FS_RemoveElement
<1>5. Size * Cardinality(Unclaimed') = Size * Cardinality(Unclaimed) - Size
  BY <1>1, <1>4
<1>6. CASE program = "ring"
  <2>1. Claim(p, Size) /\ left' = left
    BY <1>0, <1>1, <1>6 DEF BeginBurst
  <2>2. /\ claim' = claim + Size /\ next' = next /\ cpc' = cpc /\ count' = count
        /\ claim \in Nat /\ Size * Cardinality(Unclaimed) \in Nat
    BY <1>0, <2>1, Sizes DEF Claim, consVars, Inv, TypeOK
  <2>3. Inv'
    BY <1>0, <1>1, <2>1, ClaimInv
  <2>4. BenchTypeOK'
    BY <1>0, <2>1 DEF BenchTypeOK
  <2>5. InStep'
    BY <1>0, <1>1, <1>2, <2>1 DEF InStep, Between, BenchTypeOK
  <2>6. claim' + Size * Cardinality(Unclaimed') = claim + Size * Cardinality(Unclaimed)
    BY <1>1, <1>5, <2>2
  <2>7. RingAccount' /\ BaseAccount'
    BY <1>0, <1>6, <2>1, <2>2, <2>6 DEF RingAccount, BaseAccount, InFlight, Counted, Expected
  <2>. QED BY <2>3, <2>4, <2>5, <2>7 DEF BenchInv
<1>7. CASE program = "base"
  <2>1. left' = [left EXCEPT ![p] = Size] /\ UNCHANGED vars
    BY <1>0, <1>1, <1>7 DEF BeginBurst
  <2>2. Inv'
    BY <1>0, <2>1, StutterInv
  <2>3. BenchTypeOK'
    BY <1>0, <1>1, <2>1 DEF BenchTypeOK
  <2>4. InStep'
    BY <1>0, <1>1, <1>2, <2>1 DEF InStep, Between, BenchTypeOK
  <2>. DEFINE Mine == {p} \X (1..Size)
  <2>5. ToAdd' = ToAdd \cup Mine /\ ToAdd \cap Mine = {}
    <3>1. \A q \in Producers : left'[q] = IF q = p THEN Size ELSE left[q]
      BY <1>0, <2>1 DEF BenchTypeOK
    <3>. QED BY <1>1, <3>1 DEF ToAdd
  <2>6. IsFiniteSet(Mine) /\ Cardinality(Mine) = Size
    <3>1. IsFiniteSet(1..Size) /\ Cardinality(1..Size) = Size
      BY <1>1, FS_Interval
    <3>2. IsFiniteSet({p}) /\ Cardinality({p}) = 1
      BY FS_Singleton
    <3>3. /\ IsFiniteSet({p} \X (1..Size))
          /\ Cardinality({p} \X (1..Size)) = Cardinality({p}) * Cardinality(1..Size)
      BY <3>1, <3>2, FS_Product
    <3>. QED BY <1>1, <3>1, <3>2, <3>3
  <2>. HIDE DEF Mine
  <2>7. Cardinality(ToAdd') = Cardinality(ToAdd) + Size
    <3>1. IsFiniteSet(ToAdd) /\ Cardinality(ToAdd) \in Nat
      BY <1>0, Sizes
    <3>2. Cardinality(ToAdd \cup Mine) = Cardinality(ToAdd) + Cardinality(Mine) - Cardinality({})
      BY <2>5, <2>6, <3>1, FS_Union
    <3>3. Cardinality({}) = 0
      BY FS_EmptySet
    <3>. QED BY <1>1, <2>5, <2>6, <3>1, <3>2, <3>3
  <2>8. Cardinality(ToAdd) \in Nat /\ Size * Cardinality(Unclaimed) \in Nat /\ sink \in Nat
    BY <1>0, Sizes DEF BenchTypeOK
  <2>9. sink + Cardinality(ToAdd') + Size * Cardinality(Unclaimed')
          = sink + Cardinality(ToAdd) + Size * Cardinality(Unclaimed)
    BY <1>1, <1>5, <2>7, <2>8
  <2>10. RingAccount' /\ BaseAccount'
    BY <1>0, <1>1, <1>7, <2>9 DEF RingAccount, BaseAccount, Expected
  <2>. QED BY <2>2, <2>3, <2>4, <2>10 DEF BenchInv
<1>. QED BY <1>0, <1>6, <1>7 DEF BenchTypeOK

\* A step of batch_publish.
LEMMA RingStepBench ==
    ASSUME BenchInv, program # "free", program' = program, NEW p \in Producers, RingStep(p)
    PROVE  BenchInv'
<1>0. /\ InStep /\ RingAccount /\ BaseAccount /\ BenchTypeOK /\ Inv /\ UNCHANGED benchVars
  BY DEF BenchInv, RingStep
<1>1. Inv'
  BY DeliverInv DEF BenchInv, RingStep
<1>2. claim' = claim /\ next' = next /\ cpc' = cpc /\ count' = count
  BY DEF RingStep, Deliver, RefreshHead, StoreSlot, Publish, consVars
<1>3. BenchTypeOK' /\ InStep'
  BY <1>0 DEF benchVars, BenchTypeOK, InStep, Between, BurstsOf
<1>4. Unclaimed' = Unclaimed /\ ToAdd' = ToAdd
  BY <1>0 DEF benchVars, Unclaimed, ToAdd, BurstsOf
<1>5. RingAccount' /\ BaseAccount'
  BY <1>0, <1>2, <1>4 DEF benchVars, RingAccount, BaseAccount, InFlight, Counted, Expected
<1>. QED BY <1>1, <1>3, <1>5 DEF BenchInv

\* An increment of the baseline.
LEMMA BaseAddBench ==
    ASSUME BenchInv, program # "free", program' = program, NEW p \in Producers, BaseAdd(p)
    PROVE  BenchInv'
<1>. USE RingAssumption, BenchAssumption
<1>0. /\ InStep /\ RingAccount /\ BaseAccount /\ BenchTypeOK /\ Inv
      /\ bpc[p] = "publish" /\ left[p] > 0 /\ sink' = sink + 1
      /\ left' = [left EXCEPT ![p] = @ - 1]
      /\ burstSize' = burstSize /\ flag' = flag /\ stopCons' = stopCons /\ bpc' = bpc
      /\ bursts' = bursts /\ dpc' = dpc /\ main' = main /\ pending' = pending
      /\ iter' = iter /\ UNCHANGED vars
  BY DEF BenchInv, BaseAdd
<1>1. /\ program = "base" /\ left[p] \in 1..Size /\ Size \in Nat /\ sink \in Nat
      /\ \A q \in Producers : left'[q] = IF q = p THEN left[q] - 1 ELSE left[q]
  BY <1>0 DEF BenchTypeOK, RingAccount
<1>2. Inv'
  BY <1>0, StutterInv
<1>3. <<p, left[p]>> \in ToAdd /\ ToAdd' = ToAdd \ {<<p, left[p]>>}
  BY <1>1 DEF ToAdd, BenchTypeOK
<1>4. Cardinality(ToAdd) \in Nat \ {0} /\ Cardinality(ToAdd') = Cardinality(ToAdd) - 1
  BY <1>0, <1>3, Sizes, FS_RemoveElement
<1>5. BenchTypeOK'
  <2>1. left' \in [Producers -> 0..Size]
    BY <1>0, <1>1 DEF BenchTypeOK
  <2>. QED BY <1>0, <1>1, <2>1 DEF BenchTypeOK
<1>6. \A q : BurstsOf(q)' = BurstsOf(q)
  BY <1>0 DEF BurstsOf
<1>7. Unclaimed' = Unclaimed
  BY <1>0, <1>6 DEF Unclaimed
<1>8. Size * Cardinality(Unclaimed) \in Nat
  BY <1>0, Sizes
<1>9. main \notin {"store", "reset"}
  BY <1>0, <1>1, <1>3, <1>4, <1>8 DEF InStep, BaseAccount
<1>10. InStep'
  BY <1>0, <1>1, <1>6, <1>9 DEF InStep, Between
<1>11. sink' + Cardinality(ToAdd') = sink + Cardinality(ToAdd)
  BY <1>0, <1>1, <1>4
<1>12. RingAccount' /\ BaseAccount'
  BY <1>0, <1>1, <1>7, <1>9, <1>11 DEF RingAccount, BaseAccount, Expected
<1>. QED BY <1>2, <1>5, <1>10, <1>12 DEF BenchInv

\* A producer is on its way back to its flag.
LEMMA EndBurstBench ==
    ASSUME BenchInv, program # "free", program' = program, NEW p \in Producers, EndBurst(p)
    PROVE  BenchInv'
<1>. USE RingAssumption, BenchAssumption
<1>0. /\ InStep /\ RingAccount /\ BaseAccount /\ BenchTypeOK /\ Inv
      /\ bpc[p] = "publish" /\ left[p] = 0
      /\ bursts' = [bursts EXCEPT ![p] = @ + 1] /\ bpc' = [bpc EXCEPT ![p] = "poll"]
      /\ burstSize' = burstSize /\ sink' = sink /\ flag' = flag /\ stopCons' = stopCons
      /\ left' = left /\ dpc' = dpc /\ main' = main /\ pending' = pending
      /\ iter' = iter /\ UNCHANGED vars
      /\ claim' = claim /\ next' = next /\ cpc' = cpc /\ count' = count
  BY DEF BenchInv, EndBurst, vars, prodVars, consVars
<1>1. Inv'
  BY <1>0, StutterInv
<1>2. BenchTypeOK'
  BY <1>0 DEF BenchTypeOK
<1>3. \A q \in Producers : BurstsOf(q)' = BurstsOf(q) /\ (bpc'[q] = "burst" <=> bpc[q] = "burst")
  BY <1>0 DEF BurstsOf, BenchTypeOK
<1>4. \A q \in Producers : left[q] > 0 => bpc'[q] = "publish"
  BY <1>0 DEF InStep, BenchTypeOK
<1>5. InStep'
  BY <1>0, <1>3, <1>4 DEF InStep, Between
<1>6. Unclaimed' = Unclaimed /\ ToAdd' = ToAdd
  BY <1>0, <1>3 DEF Unclaimed, ToAdd
<1>7. RingAccount' /\ BaseAccount'
  BY <1>0, <1>6 DEF RingAccount, BaseAccount, InFlight, Counted, Expected
<1>. QED BY <1>1, <1>2, <1>5, <1>7 DEF BenchInv

\* A step of drain: tokens move from the ring to the count in flight.
LEMMA DrainRingBench ==
    ASSUME BenchInv, program = "ring", program' = program, DrainRing
    PROVE  BenchInv'
<1>. USE RingAssumption, BenchAssumption
<1>0. /\ InStep /\ RingAccount /\ BaseAccount /\ BenchTypeOK /\ Inv
      /\ dpc = "drain"
      /\ burstSize' = burstSize /\ sink' = sink /\ flag' = flag /\ stopCons' = stopCons
      /\ bpc' = bpc /\ bursts' = bursts
      /\ left' = left /\ main' = main /\ pending' = pending
      /\ iter' = iter
  BY DEF BenchInv, DrainRing
<1>1. Inv'
  BY <1>0, StartDrainInv, FindTokenInv, LoadSlotInv, EndDrainInv DEF DrainRing
<1>2. dpc' \in {"drain", "add"} /\ claim' = claim
  BY <1>0 DEF DrainRing, StartDrain, FindToken, LoadSlot, EndDrain, prodVars
<1>3. BenchTypeOK'
  BY <1>0, <1>2 DEF BenchTypeOK
<1>4. \A q : BurstsOf(q)' = BurstsOf(q)
  BY <1>0 DEF BurstsOf
<1>5. InStep'
  BY <1>0, <1>2, <1>4 DEF InStep, Between
<1>6. Unclaimed' = Unclaimed
  BY <1>0, <1>4 DEF Unclaimed
<1>7. /\ next \in Nat /\ count \in Nat /\ sink \in Nat /\ Counted \in Nat
      /\ claim \in Nat /\ Counted' = Counted /\ iter * Expected \in Nat
  <2>1. Expected \in Nat /\ iter \in Nat
    BY <1>0, Sizes DEF BenchTypeOK
  <2>2. \A n \in Nat : n * Expected \in Nat
    BY <2>1
  <2>3. Counted \in Nat /\ iter * Expected \in Nat
    BY <2>1, <2>2 DEF Counted
  <2>. QED BY <1>0, <2>3 DEF Inv, TypeOK, BenchTypeOK, Counted, Expected
<1>8. /\ sink' + InFlight' + Counted' = next'
      /\ dpc' = "add" => cpc' = "idle" /\ count' > 0
      /\ main' = "reset" => next' = iter' * Expected /\ InFlight' = 0
  <2>1. CASE StartDrain /\ UNCHANGED dpc
    BY <1>0, <1>7, <2>1 DEF StartDrain, RingAccount, InFlight
  <2>2. CASE FindToken(Total) /\ UNCHANGED dpc
    BY <1>0, <1>7, <2>2 DEF FindToken, RingAccount, InFlight
  <2>3. CASE LoadSlot /\ UNCHANGED dpc
    <3>1. InFlight = count /\ InFlight' = count + 1 /\ next' = next + 1 /\ dpc' = "drain"
      BY <1>0, <2>3 DEF LoadSlot, InFlight
    <3>2. next < claim
      BY <1>0, <2>3 DEF LoadSlot, Inv, Window
    <3>3. main # "reset"
      <4>. SUFFICES ASSUME main = "reset" PROVE FALSE
        OBVIOUS
      <4>1. Unclaimed = {}
        BY <1>0, <1>4 DEF InStep, Between, Unclaimed, BenchTypeOK
      <4>2. claim = iter * Expected
        BY <1>0, <1>7, <4>1, Sizes DEF RingAccount
      <4>. QED BY <1>0, <3>2, <4>2, <1>7 DEF RingAccount
    <3>. QED BY <1>0, <1>7, <3>1, <3>3 DEF RingAccount
  <2>4. CASE EndDrain(Total) /\ dpc' = IF count > 0 THEN "add" ELSE "drain"
    <3>1. InFlight = count /\ InFlight' = count /\ next' = next /\ cpc' = "idle" /\ count' = count
      BY <1>0, <1>7, <2>4 DEF EndDrain, InFlight
    <3>. QED BY <1>0, <1>7, <2>4, <3>1 DEF RingAccount
  <2>. QED BY <2>1, <2>2, <2>3, <2>4 DEF DrainRing
<1>9. RingAccount' /\ BaseAccount'
  BY <1>0, <1>2, <1>6, <1>8 DEF RingAccount, BaseAccount, Expected
<1>. QED BY <1>1, <1>3, <1>5, <1>9 DEF BenchInv

\* The consumer adds what it has drained to the sink.
LEMMA AddToSinkBench ==
    ASSUME BenchInv, program = "ring", program' = program, AddToSink
    PROVE  BenchInv'
<1>. USE RingAssumption, BenchAssumption
<1>0. /\ InStep /\ RingAccount /\ BaseAccount /\ BenchTypeOK /\ Inv
      /\ dpc = "add" /\ sink' = sink + count /\ dpc' = "drain"
      /\ burstSize' = burstSize /\ flag' = flag /\ stopCons' = stopCons
      /\ bpc' = bpc /\ bursts' = bursts
      /\ left' = left /\ main' = main /\ pending' = pending
      /\ iter' = iter /\ UNCHANGED vars
      /\ claim' = claim /\ next' = next /\ cpc' = cpc /\ count' = count
  BY DEF BenchInv, AddToSink, vars, prodVars, consVars
<1>1. Inv'
  BY <1>0, StutterInv
<1>2. cpc = "idle" /\ count > 0 /\ count \in Nat /\ InFlight = count /\ InFlight' = 0
  BY <1>0 DEF RingAccount, InFlight, Inv, TypeOK
<1>3. /\ sink \in Nat /\ next \in Nat /\ Counted' = Counted
  BY <1>0 DEF BenchTypeOK, Inv, TypeOK, Counted, Expected
<1>4. Counted \in Nat
  <2>1. Expected \in Nat /\ iter \in Nat
    BY <1>0, Sizes DEF BenchTypeOK
  <2>2. \A n \in Nat : n * Expected \in Nat
    BY <2>1
  <2>. QED BY <2>1, <2>2 DEF Counted
<1>5. main \notin {"reset", "store"}
  <2>1. main # "reset"
    BY <1>0, <1>2 DEF RingAccount
  <2>2. SUFFICES ASSUME main = "store" PROVE FALSE
    BY <2>1
  <2>3. next > 0
    BY <1>0, <1>2, <1>3, <1>4 DEF RingAccount
  <2>4. iter = 0 /\ claim \in Nat /\ next <= claim /\ Expected \in Nat
    BY <1>0, <2>2, Sizes DEF InStep, Inv, TypeOK
  <2>5. Size * Cardinality(Unclaimed) \in Nat
    BY <1>0, Sizes
  <2>6. claim + Size * Cardinality(Unclaimed) = 0
    BY <1>0, <2>4 DEF RingAccount
  <2>. QED BY <1>3, <2>3, <2>4, <2>5, <2>6
<1>6. BenchTypeOK'
  BY <1>0, <1>2 DEF BenchTypeOK
<1>7. \A q : BurstsOf(q)' = BurstsOf(q)
  BY <1>0 DEF BurstsOf
<1>8. InStep'
  BY <1>0, <1>5, <1>7 DEF InStep, Between
<1>9. Unclaimed' = Unclaimed
  BY <1>0, <1>7 DEF Unclaimed
<1>10. sink' + InFlight' + Counted' = next'
  BY <1>0, <1>2, <1>3, <1>4 DEF RingAccount
<1>11. RingAccount' /\ BaseAccount'
  BY <1>0, <1>5, <1>9, <1>10 DEF RingAccount, BaseAccount, Expected
<1>. QED BY <1>1, <1>6, <1>8, <1>11 DEF BenchInv

\* The consumer leaves its loop.
LEMMA LeaveDrainLoopBench ==
    ASSUME BenchInv, program = "ring", program' = program, LeaveDrainLoop
    PROVE  BenchInv'
<1>0. /\ InStep /\ RingAccount /\ BaseAccount /\ BenchTypeOK /\ Inv
      /\ dpc = "drain" /\ cpc = "idle" /\ stopCons /\ dpc' = "joined"
      /\ burstSize' = burstSize /\ sink' = sink /\ flag' = flag /\ stopCons' = stopCons
      /\ bpc' = bpc /\ bursts' = bursts
      /\ left' = left /\ main' = main /\ pending' = pending
      /\ iter' = iter /\ UNCHANGED vars
      /\ claim' = claim /\ next' = next /\ cpc' = cpc /\ count' = count
  BY DEF BenchInv, LeaveDrainLoop, vars, prodVars, consVars
<1>1. Inv'
  BY <1>0, StutterInv
<1>2. BenchTypeOK'
  BY <1>0 DEF BenchTypeOK
<1>3. \A q : BurstsOf(q)' = BurstsOf(q)
  BY <1>0 DEF BurstsOf
<1>4. InStep'
  BY <1>0, <1>3 DEF InStep, Between
<1>5. Unclaimed' = Unclaimed /\ InFlight' = InFlight /\ Counted' = Counted
  BY <1>0, <1>3 DEF Unclaimed, InFlight, Counted, Expected
<1>6. RingAccount' /\ BaseAccount'
  BY <1>0, <1>5 DEF RingAccount, BaseAccount, Expected
<1>. QED BY <1>1, <1>2, <1>4, <1>6 DEF BenchInv

-----------------------------------------------------------------------------
(* The main thread.                                                        *)

\* The burst size is stored, before any producer is released.
LEMMA StoreSizeBench ==
    ASSUME BenchInv, program # "free", program' = program, StoreSize
    PROVE  BenchInv'
<1>. USE RingAssumption, BenchAssumption
<1>0. /\ InStep /\ RingAccount /\ BaseAccount /\ BenchTypeOK /\ Inv
      /\ main = "store" /\ main' = "reset" /\ burstSize' = Size
      /\ sink' = sink /\ flag' = flag /\ stopCons' = stopCons
      /\ bpc' = bpc /\ bursts' = bursts
      /\ left' = left /\ dpc' = dpc /\ pending' = pending
      /\ iter' = iter /\ UNCHANGED vars
      /\ claim' = claim /\ next' = next /\ cpc' = cpc /\ count' = count
  BY DEF BenchInv, StoreSize, vars, prodVars, consVars
<1>1. Inv'
  BY <1>0, StutterInv
<1>2. BenchTypeOK'
  BY <1>0 DEF BenchTypeOK
<1>3. \A q : BurstsOf(q)' = BurstsOf(q)
  BY <1>0 DEF BurstsOf
<1>4. InStep'
  BY <1>0, <1>3 DEF InStep, Between
<1>5. Unclaimed' = Unclaimed /\ ToAdd' = ToAdd /\ InFlight' = InFlight /\ Counted' = Counted
  BY <1>0, <1>3 DEF Unclaimed, ToAdd, InFlight, Counted, Expected
<1>6. /\ iter = 0 /\ sink = 0 /\ next \in Nat /\ claim \in Nat /\ next <= claim
      /\ Size * Cardinality(Unclaimed) \in Nat /\ Cardinality(ToAdd) \in Nat
      /\ Expected \in Nat /\ count \in Nat /\ InFlight \in Nat
  BY <1>0, Sizes DEF InStep, Inv, TypeOK, InFlight
<1>7. 0 * Expected = 0 /\ iter * Expected = 0
  BY <1>6
<1>8. program = "ring" => next = 0 /\ InFlight = 0
  BY <1>0, <1>6, <1>7 DEF RingAccount, Counted
<1>9. program = "base" => ToAdd = {}
  BY <1>0, <1>6, Sizes DEF BaseAccount
<1>10. RingAccount'
  BY <1>0, <1>5, <1>7, <1>8 DEF RingAccount, Expected
<1>11. BaseAccount'
  BY <1>0, <1>5, <1>9 DEF BaseAccount, Expected
<1>. QED BY <1>1, <1>2, <1>4, <1>10, <1>11 DEF BenchInv

\* The sink is reset: nothing of the iteration before is left anywhere.
LEMMA ResetSinkBench ==
    ASSUME BenchInv, program # "free", program' = program, ResetSink
    PROVE  BenchInv'
<1>. USE RingAssumption, BenchAssumption
<1>0. /\ InStep /\ RingAccount /\ BaseAccount /\ BenchTypeOK /\ Inv
      /\ main = "reset" /\ main' = "start" /\ pending' = Producers
      /\ sink' = 0 /\ iter' = iter + 1
      /\ burstSize' = burstSize /\ flag' = flag /\ stopCons' = stopCons
      /\ bpc' = bpc /\ bursts' = bursts
      /\ left' = left /\ dpc' = dpc /\ UNCHANGED vars
      /\ claim' = claim /\ next' = next /\ cpc' = cpc /\ count' = count
  BY DEF BenchInv, ResetSink, vars, prodVars, consVars
<1>1. Inv'
  BY <1>0, StutterInv
<1>2. BenchTypeOK'
  BY <1>0 DEF BenchTypeOK
<1>3. iter \in Nat /\ \A q : BurstsOf(q)' = BurstsOf(q)
  BY <1>0 DEF BurstsOf, BenchTypeOK
<1>4. \A q \in Producers : BurstsOf(q) = iter /\ bpc[q] # "burst" /\ ~flag[q]
  BY <1>0 DEF InStep, Between
<1>5. InStep'
  BY <1>0, <1>3, <1>4 DEF InStep, Between
<1>6. Unclaimed = {} /\ Unclaimed' = Producers
  BY <1>0, <1>3, <1>4 DEF Unclaimed
<1>7. /\ Size * Cardinality(Unclaimed) = 0 /\ Size * Cardinality(Unclaimed') = Expected
      /\ Expected \in Nat /\ claim \in Nat /\ next \in Nat
  <2>1. Size * Cardinality(Producers) = Expected
    BY DEF Expected
  <2>. QED BY <1>0, <1>6, <2>1, Sizes DEF Inv, TypeOK
<1>8. (iter + 1) * Expected = iter * Expected + Expected /\ iter * Expected \in Nat
  BY <1>3, <1>7
<1>9. Counted' = iter * Expected /\ InFlight' = InFlight /\ ToAdd' = ToAdd
  BY <1>0, <1>3 DEF Counted, InFlight, ToAdd, Expected
<1>10. RingAccount'
  <2>. SUFFICES ASSUME program = "ring" PROVE RingAccount'
    BY <1>0 DEF RingAccount
  <2>1. claim = iter * Expected /\ next = iter * Expected /\ InFlight = 0
    BY <1>0, <1>7 DEF RingAccount
  <2>2. claim' + Size * Cardinality(Unclaimed') = iter' * Expected
    BY <1>0, <1>7, <1>8, <2>1
  <2>3. sink' + InFlight' + Counted' = next'
    BY <1>0, <1>8, <1>9, <2>1
  <2>. QED BY <1>0, <2>2, <2>3 DEF RingAccount, Expected
<1>11. BaseAccount'
  <2>. SUFFICES ASSUME program = "base" PROVE BaseAccount'
    BY <1>0 DEF BaseAccount
  <2>1. ToAdd' = {} /\ Cardinality(ToAdd') = 0
    BY <1>0, <1>9, FS_EmptySet DEF BaseAccount
  <2>. QED BY <1>0, <1>3, <1>7, <2>1 DEF BaseAccount, Expected
<1>. QED BY <1>1, <1>2, <1>5, <1>10, <1>11 DEF BenchInv

\* A flag goes up.
LEMMA StartProducerBench ==
    ASSUME BenchInv, program # "free", program' = program, NEW p \in Producers, StartProducer(p)
    PROVE  BenchInv'
<1>. USE RingAssumption, BenchAssumption
<1>0. /\ InStep /\ RingAccount /\ BaseAccount /\ BenchTypeOK /\ Inv
      /\ main = "start" /\ main' \in {"start", "spin"} /\ p \in pending /\ pending' = pending \ {p}
      /\ flag' = [flag EXCEPT ![p] = TRUE]
      /\ burstSize' = burstSize /\ sink' = sink /\ stopCons' = stopCons
      /\ bpc' = bpc /\ bursts' = bursts
      /\ left' = left /\ dpc' = dpc /\ iter' = iter /\ UNCHANGED vars
      /\ claim' = claim /\ next' = next /\ cpc' = cpc /\ count' = count
  BY DEF BenchInv, StartProducer, vars, prodVars, consVars
<1>1. Inv'
  BY <1>0, StutterInv
<1>2. BenchTypeOK'
  BY <1>0 DEF BenchTypeOK
<1>3. /\ \A q : BurstsOf(q)' = BurstsOf(q)
      /\ \A q \in Producers : q # p => flag'[q] = flag[q]
  BY <1>0 DEF BurstsOf, BenchTypeOK
<1>4. BurstsOf(p) = iter - 1
  BY <1>0 DEF InStep
<1>5. InStep'
  BY <1>0, <1>3, <1>4 DEF InStep, Between
<1>6. Unclaimed' = Unclaimed /\ ToAdd' = ToAdd /\ InFlight' = InFlight /\ Counted' = Counted
  BY <1>0, <1>3 DEF Unclaimed, ToAdd, InFlight, Counted, Expected
<1>7. RingAccount' /\ BaseAccount'
  BY <1>0, <1>6 DEF RingAccount, BaseAccount, Expected
<1>. QED BY <1>1, <1>2, <1>5, <1>7 DEF BenchInv

\* The sink shows a whole iteration: every producer has begun its burst, and
\* nothing of it is left in the ring or on its way to the sink.
LEMMA FullSink ==
    ASSUME BenchInv, program # "free", main = "spin"
    PROVE  /\ sink <= Expected
           /\ sink = Expected =>
                 /\ Unclaimed = {}
                 /\ program = "ring" => next = iter * Expected /\ claim = iter * Expected /\ InFlight = 0
                 /\ program = "base" => ToAdd = {}
<1>. USE RingAssumption, BenchAssumption
<1>0. /\ InStep /\ RingAccount /\ BaseAccount /\ BenchTypeOK /\ Inv /\ iter \in Nat /\ iter > 0
      /\ sink \in Nat /\ claim \in Nat /\ next \in Nat /\ next <= claim /\ InFlight \in Nat
  <2>1. InStep /\ RingAccount /\ BaseAccount /\ BenchTypeOK /\ Inv
    BY DEF BenchInv
  <2>2. iter \in Nat /\ iter > 0 /\ sink \in Nat
    BY <2>1 DEF InStep, BenchTypeOK
  <2>3. claim \in Nat /\ next \in Nat /\ next <= claim /\ InFlight \in Nat
    BY <2>1 DEF Inv, TypeOK, InFlight
  <2>. QED BY <2>1, <2>2, <2>3
<1>1. /\ Expected \in Nat /\ Size * Cardinality(Unclaimed) \in Nat /\ Cardinality(ToAdd) \in Nat
      /\ Size * Cardinality(Unclaimed) = 0 => Unclaimed = {}
      /\ Cardinality(ToAdd) = 0 => ToAdd = {}
  BY <1>0, Sizes
<1>2. CASE program = "ring"
  <2>1. Counted = (iter - 1) * Expected
    BY <1>0 DEF Counted
  <2>2. iter * Expected = (iter - 1) * Expected + Expected /\ (iter - 1) * Expected \in Nat
    BY <1>0, <1>1
  <2>3. /\ claim + Size * Cardinality(Unclaimed) = iter * Expected
        /\ sink + InFlight + Counted = next
    BY <1>0, <1>2 DEF RingAccount
  <2>4. \A e, k, s, f, u, c, n, ie \in Nat :
           ie = k + e /\ c + u = ie /\ s + f + k = n /\ n <= c =>
              s <= e /\ (s = e => u = 0 /\ f = 0 /\ c = ie /\ n = ie)
    OBVIOUS
  <2>5. iter * Expected \in Nat
    BY <1>0, <1>1
  <2>. HIDE DEF Expected, Counted, InFlight
  <2>6. /\ sink <= Expected
        /\ sink = Expected => /\ Size * Cardinality(Unclaimed) = 0 /\ InFlight = 0
                              /\ claim = iter * Expected /\ next = iter * Expected
    BY <1>0, <1>1, <2>1, <2>2, <2>3, <2>4, <2>5
  <2>. QED BY <1>1, <1>2, <2>6
<1>3. CASE program = "base"
  <2>1. sink + Cardinality(ToAdd) + Size * Cardinality(Unclaimed) = Expected
    BY <1>0, <1>3 DEF BaseAccount
  <2>2. \A s, a, u, e \in Nat : s + a + u = e => s <= e /\ (s = e => a = 0 /\ u = 0)
    OBVIOUS
  <2>3. sink <= Expected /\ (sink = Expected => Cardinality(ToAdd) = 0 /\ Size * Cardinality(Unclaimed) = 0)
    BY <1>0, <1>1, <2>1, <2>2
  <2>. QED BY <1>1, <1>3, <2>3
<1>. QED BY <1>0, <1>2, <1>3 DEF BenchTypeOK

\* The spin ends.
LEMMA SinkFullBench ==
    ASSUME BenchInv, program # "free", program' = program, SinkFull
    PROVE  BenchInv'
<1>. USE RingAssumption, BenchAssumption
<1>0. /\ InStep /\ RingAccount /\ BaseAccount /\ BenchTypeOK /\ Inv
      /\ main = "spin" /\ sink = Expected /\ main' \in {"reset", "stop"}
      /\ burstSize' = burstSize /\ sink' = sink /\ flag' = flag /\ stopCons' = stopCons
      /\ bpc' = bpc /\ bursts' = bursts
      /\ left' = left /\ dpc' = dpc /\ iter' = iter /\ UNCHANGED vars
      /\ claim' = claim /\ next' = next /\ cpc' = cpc /\ count' = count
  BY DEF BenchInv, SinkFull, vars, prodVars, consVars
<1>1. Inv'
  BY <1>0, StutterInv
<1>2. BenchTypeOK'
  BY <1>0 DEF BenchTypeOK
<1>3. \A q : BurstsOf(q)' = BurstsOf(q)
  BY <1>0 DEF BurstsOf
<1>4. Unclaimed = {} /\ (program = "base" => ToAdd = {})
      /\ (program = "ring" => next = iter * Expected /\ InFlight = 0)
  BY <1>0, FullSink
<1>5. iter \in Nat /\ iter > 0
  BY <1>0 DEF InStep, BenchTypeOK
<1>6. \A q \in Producers : ~flag[q] /\ BurstsOf(q) = iter /\ bpc[q] # "burst"
  BY <1>0, <1>4, <1>5 DEF Unclaimed, InStep, BenchTypeOK
<1>7. InStep'
  BY <1>0, <1>3, <1>5, <1>6 DEF InStep, Between
<1>8. Unclaimed' = Unclaimed /\ ToAdd' = ToAdd /\ InFlight' = InFlight /\ Counted' = Counted
  BY <1>0, <1>3 DEF Unclaimed, ToAdd, InFlight, Counted, Expected
<1>9. RingAccount' /\ BaseAccount'
  BY <1>0, <1>4, <1>8 DEF RingAccount, BaseAccount, Expected
<1>. QED BY <1>1, <1>2, <1>7, <1>9 DEF BenchInv

\* A producer's stop flag goes up, or it is joined: main is past the last
\* iteration either way.
LEMMA StopAndJoinBench ==
    ASSUME BenchInv, program # "free", program' = program, NEW p \in Producers,
           StopProducer(p) \/ JoinProducer(p)
    PROVE  BenchInv'
<1>. USE RingAssumption, BenchAssumption
<1>0. /\ InStep /\ RingAccount /\ BaseAccount /\ BenchTypeOK /\ Inv
      /\ main \in {"stop", "join"} /\ main' \in {"stop", "join", "end"}
      /\ stopCons' = TRUE => stopCons = TRUE \/ main' = "end"
      /\ burstSize' = burstSize /\ sink' = sink /\ flag' = flag
      /\ bpc' = bpc /\ bursts' = bursts
      /\ left' = left /\ dpc' = dpc /\ iter' = iter /\ UNCHANGED vars
      /\ claim' = claim /\ next' = next /\ cpc' = cpc /\ count' = count
  BY DEF BenchInv, StopProducer, JoinProducer, vars, prodVars, consVars
<1>1. Inv'
  BY <1>0, StutterInv
<1>2. BenchTypeOK'
  BY <1>0 DEF BenchTypeOK
<1>3. \A q : BurstsOf(q)' = BurstsOf(q)
  BY <1>0 DEF BurstsOf
<1>4. ~stopCons /\ dpc # "joined"
  BY <1>0 DEF InStep
<1>5. stopCons' => main' = "end"
  BY <1>4 DEF StopProducer, JoinProducer
<1>6. InStep'
  BY <1>0, <1>3, <1>4, <1>5 DEF InStep, Between
<1>7. Unclaimed' = Unclaimed /\ ToAdd' = ToAdd /\ InFlight' = InFlight /\ Counted' = Counted
  BY <1>0, <1>3 DEF Unclaimed, ToAdd, InFlight, Counted, Expected
<1>8. RingAccount' /\ BaseAccount'
  BY <1>0, <1>7 DEF RingAccount, BaseAccount, Expected
<1>. QED BY <1>1, <1>2, <1>6, <1>8 DEF BenchInv

\* Any step of the benchmark.
LEMMA BenchNextInv == ASSUME BenchInv, [BenchNext]_allVars PROVE BenchInv'
<1>1. CASE Harnessed /\ MainThread
  BY <1>1, StoreSizeBench, ResetSinkBench, SinkFullBench, StartProducerBench, StopAndJoinBench
     DEF Harnessed, MainThread
<1>2. CASE Harnessed /\ ConsumerThread
  BY <1>2, DrainRingBench, AddToSinkBench, LeaveDrainLoopBench DEF Harnessed, ConsumerThread
<1>3. ASSUME Harnessed, NEW p \in Producers, ProducerThread(p) PROVE BenchInv'
  BY <1>3, PollBench, BeginBurstBench, RingStepBench, BaseAddBench, EndBurstBench
     DEF Harnessed, ProducerThread
<1>4. CASE FreeRing
  <2>1. Inv'
    BY <1>4, RingNextInv DEF FreeRing, BenchInv
  <2>2. BenchTypeOK' /\ program' = "free"
    BY <1>4 DEF FreeRing, BenchInv, BenchTypeOK, benchVars
  <2>. QED BY <2>1, <2>2 DEF BenchInv
<1>5. CASE UNCHANGED allVars
  <2>1. Inv'
    BY <1>5, StutterInv DEF allVars, BenchInv
  <2>2. /\ UNCHANGED <<program, benchVars>>
        /\ claim' = claim /\ next' = next /\ cpc' = cpc /\ count' = count
    BY <1>5 DEF allVars, vars, prodVars, consVars
  <2>3. BenchTypeOK' = BenchTypeOK /\ InStep' = InStep
    BY <2>2 DEF benchVars, BenchTypeOK, InStep, Between, BurstsOf
  <2>4. Unclaimed' = Unclaimed /\ ToAdd' = ToAdd
    BY <2>2 DEF benchVars, Unclaimed, ToAdd, BurstsOf
  <2>5. RingAccount' = RingAccount /\ BaseAccount' = BaseAccount
    BY <2>2, <2>4 DEF benchVars, RingAccount, BaseAccount, InFlight, Counted, Expected
  <2>. QED BY <2>1, <2>2, <2>3, <2>5 DEF BenchInv
<1>. QED BY <1>1, <1>2, <1>3, <1>4, <1>5 DEF BenchNext

\* The accounts of the harness hold in every state of all three programs.
THEOREM AccountsKept == BenchSpec => []BenchInv
BY InitBench, BenchNextInv, PTL DEF BenchSpec

\* The ring is sound under its harness as well, where a burst is one
\* batch_publish and a drain takes all it finds (benches/mpsc.rs).
THEOREM BenchRingSound == BenchSpec => []Inv
<1>1. BenchInv => Inv
  BY DEF BenchInv
<1>. QED BY <1>1, AccountsKept, PTL

\* An iteration measures its own tokens, for any number of producers, burst
\* size, iterations and ring capacity: the sink never shows more than one
\* iteration's tokens, and when main resets it the ring is empty.
THEOREM IterationsExact == BenchSpec => []IterationExact
<1>1. BenchInv => IterationExact
  <2>. SUFFICES ASSUME BenchInv, program # "free"
                PROVE  IterationExact
    BY DEF IterationExact
  <2>. USE RingAssumption, BenchAssumption
  <2>0. /\ InStep /\ RingAccount /\ BaseAccount /\ BenchTypeOK /\ Inv /\ iter \in Nat
        /\ sink \in Nat /\ claim \in Nat /\ next \in Nat /\ next <= claim /\ InFlight \in Nat
        /\ count \in Nat
    BY SMTT(30) DEF BenchInv, InStep, BenchTypeOK, Inv, TypeOK, InFlight
  <2>1. /\ Expected \in Nat /\ Size * Cardinality(Unclaimed) \in Nat /\ Cardinality(ToAdd) \in Nat
    BY <2>0, Sizes
  <2>2. sink <= Expected
    <3>1. CASE program = "ring"
      <4>1. CASE iter = 0
        <5>1. iter * Expected = 0
          BY <2>1, <4>1
        <5>. QED BY <2>0, <2>1, <3>1, <4>1, <5>1 DEF RingAccount, Counted
      <4>2. CASE iter > 0
        <5>1. iter * Expected = (iter - 1) * Expected + Expected /\ (iter - 1) * Expected \in Nat
          BY <2>0, <2>1, <4>2
        <5>2. /\ claim + Size * Cardinality(Unclaimed) = iter * Expected
              /\ sink + InFlight + (iter - 1) * Expected = next
          BY <2>0, <3>1, <4>2 DEF RingAccount, Counted
        <5>3. \A e, k, s, f, u, c, n, ie \in Nat :
                 ie = k + e /\ c + u = ie /\ s + f + k = n /\ n <= c => s <= e
          OBVIOUS
        <5>4. iter * Expected \in Nat
          BY <2>1, <5>1
        <5>. HIDE DEF Expected
        <5>. QED BY <2>0, <2>1, <5>1, <5>2, <5>3, <5>4
      <4>. QED BY <2>0, <4>1, <4>2
    <3>2. CASE program = "base"
      BY <2>0, <2>1, <3>2 DEF BaseAccount
    <3>. QED BY <2>0, <3>1, <3>2 DEF BenchTypeOK
  <2>3. ASSUME main = "reset", program = "ring"
        PROVE  Len(out) = iter * Expected /\ claim = iter * Expected /\ dpc = "drain"
    <3>1. next = iter * Expected /\ InFlight = 0 /\ Len(out) = next
      BY <2>0, <2>3 DEF RingAccount, Inv, FifoDelivery
    <3>2. Unclaimed = {}
      BY <2>0, <2>3 DEF InStep, Between, Unclaimed
    <3>3. claim = iter * Expected
      BY <2>0, <2>3, <3>2, Sizes DEF RingAccount
    <3>4. dpc # "add"
      BY <2>0, <2>3, <3>1 DEF RingAccount, InFlight
    <3>5. dpc # "joined"
      BY <2>0, <2>3 DEF InStep
    <3>. QED BY <2>0, <3>1, <3>3, <3>4, <3>5 DEF BenchTypeOK
  <2>4. \A p \in Producers : BurstsOf(p) \in {iter - 1, iter} /\ (flag[p] => BurstsOf(p) = iter - 1)
    BY <2>0 DEF InStep
  <2>. QED BY <2>0, <2>1, <2>2, <2>3, <2>4 DEF IterationExact
<1>. QED BY <1>1, AccountsKept, PTL

-----------------------------------------------------------------------------
(* The refinement of the bounded FIFO channel.                             *)

\* The tokens from lo + 1 to hi, in order.
Tokens(lo, hi) == [i \in 1..(hi - lo) |-> lo + i]

\* It is a sequence of that many tokens.
LEMMA TokensSeq ==
    ASSUME NEW lo \in Nat, NEW hi \in Nat, lo <= hi
    PROVE  /\ Tokens(lo, hi) \in Seq(Nat) /\ Len(Tokens(lo, hi)) = hi - lo
           /\ \A i \in 1..(hi - lo) : Tokens(lo, hi)[i] = lo + i
<1>1. hi - lo \in Nat /\ \A i \in 1..(hi - lo) : lo + i \in Nat
  OBVIOUS
<1>2. Tokens(lo, hi) \in Seq(Nat)
  BY <1>1, IsASeq DEF Tokens
<1>. QED BY <1>1, <1>2, LenProperties DEF Tokens

\* Publishing appends the tokens that follow.
LEMMA TokensAppended ==
    ASSUME NEW lo \in Nat, NEW mid \in Nat, NEW hi \in Nat, lo <= mid, mid <= hi
    PROVE  Tokens(lo, hi) = Tokens(lo, mid) \o Tokens(mid, hi)
<1>. DEFINE a == Tokens(lo, mid)
            b == Tokens(mid, hi)
            c == Tokens(lo, hi)
<1>1. /\ a \in Seq(Nat) /\ b \in Seq(Nat) /\ c \in Seq(Nat)
      /\ Len(a) = mid - lo /\ Len(b) = hi - mid /\ Len(c) = hi - lo
      /\ \A i \in 1..(mid - lo) : a[i] = lo + i
      /\ \A i \in 1..(hi - mid) : b[i] = mid + i
      /\ \A i \in 1..(hi - lo) : c[i] = lo + i
  <2>1. lo <= hi
    OBVIOUS
  <2>2. a \in Seq(Nat) /\ Len(a) = mid - lo /\ \A i \in 1..(mid - lo) : a[i] = lo + i
    BY TokensSeq
  <2>3. b \in Seq(Nat) /\ Len(b) = hi - mid /\ \A i \in 1..(hi - mid) : b[i] = mid + i
    BY TokensSeq
  <2>4. c \in Seq(Nat) /\ Len(c) = hi - lo /\ \A i \in 1..(hi - lo) : c[i] = lo + i
    BY <2>1, TokensSeq
  <2>. QED BY <2>2, <2>3, <2>4
<1>. HIDE DEF a, b, c
<1>2. /\ a \o b \in Seq(Nat) /\ Len(a \o b) = Len(a) + Len(b)
      /\ \A i \in 1..(Len(a) + Len(b)) : (a \o b)[i] = IF i <= Len(a) THEN a[i] ELSE b[i - Len(a)]
  BY <1>1, ConcatProperties
<1>3. Len(a) + Len(b) = hi - lo
  BY <1>1
<1>4. ASSUME NEW i \in 1..(hi - lo) PROVE c[i] = (a \o b)[i]
  <2>1. CASE i <= mid - lo
    BY <1>1, <1>2, <1>3, <2>1
  <2>2. CASE i > mid - lo
    <3>. DEFINE k == i - (mid - lo)
    <3>1. k \in 1..(hi - mid) /\ mid + k = lo + i
      BY <2>2
    <3>2. (a \o b)[i] = b[k]
      BY <1>1, <1>2, <1>3, <2>2, SMTT(30)
    <3>3. b[k] = mid + k
      BY <1>1, <3>1
    <3>. QED BY <1>1, <3>1, <3>2, <3>3
  <2>3. i <= mid - lo \/ i > mid - lo
    OBVIOUS
  <2>. QED BY <2>1, <2>2, <2>3
<1>5. c = a \o b
  BY <1>1, <1>2, <1>3, <1>4, SeqEqual
<1>. QED BY <1>5 DEF a, b, c

\* Reading takes the first token.
LEMMA TokensTaken ==
    ASSUME NEW lo \in Nat, NEW hi \in Nat, lo < hi
    PROVE  /\ Tokens(lo, hi) # <<>> /\ Head(Tokens(lo, hi)) = lo + 1
           /\ Tail(Tokens(lo, hi)) = Tokens(lo + 1, hi)
<1>. DEFINE a == Tokens(lo, hi)
            b == Tokens(lo + 1, hi)
<1>1. /\ a \in Seq(Nat) /\ b \in Seq(Nat)
      /\ Len(a) = hi - lo /\ Len(b) = hi - (lo + 1)
      /\ \A i \in 1..(hi - lo) : a[i] = lo + i
      /\ \A i \in 1..(hi - (lo + 1)) : b[i] = lo + 1 + i
  <2>1. lo <= hi /\ lo + 1 \in Nat /\ lo + 1 <= hi
    OBVIOUS
  <2>2. a \in Seq(Nat) /\ Len(a) = hi - lo /\ \A i \in 1..(hi - lo) : a[i] = lo + i
    BY <2>1, TokensSeq
  <2>3. /\ b \in Seq(Nat) /\ Len(b) = hi - (lo + 1)
        /\ \A i \in 1..(hi - (lo + 1)) : b[i] = lo + 1 + i
    BY <2>1, TokensSeq
  <2>. QED BY <2>2, <2>3
<1>. HIDE DEF a, b
<1>2. a # <<>> /\ Head(a) = lo + 1
  BY <1>1
<1>3. /\ Tail(a) \in Seq(Nat) /\ Len(Tail(a)) = Len(a) - 1
      /\ \A i \in 1..Len(Tail(a)) : Tail(a)[i] = a[i + 1]
  BY <1>1, <1>2, HeadTailProperties
<1>4. Len(Tail(a)) = hi - (lo + 1) /\ \A i \in 1..(hi - (lo + 1)) : Tail(a)[i] = b[i]
  BY <1>1, <1>3
<1>5. Tail(a) = b
  BY <1>1, <1>3, <1>4, SeqEqual
<1>. QED BY <1>2, <1>5 DEF a, b

\* Comparison of naturals has no infinite descent.
LEMMA NatLess == IsWellFoundedOn({ss \in Nat \X Nat : ss[1] < ss[2]}, Nat)
BY NatLessThanWellFounded DEF OpToRel

\* A set of naturals that is not empty has its minimum.
LEMMA MinIsLeast ==
    ASSUME NEW T \in SUBSET Nat, T # {}
    PROVE  Min(T) \in T /\ \A y \in T : Min(T) <= y
<1>. DEFINE R == {ss \in Nat \X Nat : ss[1] < ss[2]}
<1>1. PICK x \in T : \A y \in T : ~(<<y, x>> \in R)
  BY NatLess, WFMin
<1>2. ASSUME NEW y \in T PROVE x <= y
  <2>1. ~(y < x)
    <3>1. SUFFICES ASSUME y < x PROVE <<y, x>> \in R
      BY <1>1
    <3>. QED BY <3>1
  <2>. QED BY <2>1
<1>. QED BY <1>2 DEF Min

\* The published prefix ends at the first sequence that is not published; it
\* is never longer than the ring.
LEMMA PrefixEndIs ==
    Inv => /\ PrefixEnd \in Nat /\ next \in Nat /\ claim \in Nat
           /\ next <= PrefixEnd /\ PrefixEnd <= claim /\ PrefixEnd <= next + Cap
           /\ PrefixEnd = claim \/ PrefixEnd \in Outstanding
           /\ \A s \in next..(PrefixEnd - 1) : s \notin Outstanding
           /\ Len(out) = next
<1>. SUFFICES ASSUME Inv
              PROVE  /\ PrefixEnd \in Nat /\ next \in Nat /\ claim \in Nat
                     /\ next <= PrefixEnd /\ PrefixEnd <= claim /\ PrefixEnd <= next + Cap
                     /\ PrefixEnd = claim \/ PrefixEnd \in Outstanding
                     /\ \A s \in next..(PrefixEnd - 1) : s \notin Outstanding
                     /\ Len(out) = next
  OBVIOUS
<1>. USE RingAssumption
<1>. DEFINE T == {s \in next..claim : s = claim \/ s \in Outstanding}
<1>1. next \in Nat /\ claim \in Nat /\ head \in Nat /\ next <= claim /\ head <= next /\ Len(out) = next
  BY DEF Inv, TypeOK, FifoDelivery
<1>2. T \in SUBSET Nat /\ T # {}
  <2>1. claim \in T
    BY <1>1
  <2>2. \A s \in next..claim : s \in Nat
    BY <1>1
  <2>. QED BY <2>1, <2>2
<1>3. PrefixEnd \in T /\ \A y \in T : PrefixEnd <= y
  BY <1>2, MinIsLeast DEF PrefixEnd
<1>4. /\ PrefixEnd \in Nat /\ next <= PrefixEnd /\ PrefixEnd <= claim
      /\ PrefixEnd = claim \/ PrefixEnd \in Outstanding
  BY <1>1, <1>3
<1>5. ASSUME NEW s \in next..(PrefixEnd - 1) PROVE s \notin Outstanding /\ s \in 0..(claim - 1)
  BY <1>1, <1>3, <1>4
<1>6. PrefixEnd <= next + Cap
  <2>. SUFFICES ASSUME PrefixEnd > next + Cap PROVE FALSE
    BY <1>1, <1>4
  <2>1. next + Cap \in next..(PrefixEnd - 1)
    BY <1>1, <1>4
  <2>2. InSlot(next + Cap) /\ next + Cap \in 0..(claim - 1)
    BY <1>5, <2>1 DEF InSlot
  <2>3. next + Cap < head + Cap
    BY <2>2 DEF Inv, Window
  <2>. QED BY <1>1, <2>3
<1>. QED BY <1>1, <1>4, <1>5, <1>6

\* The end of the prefix is determined by the claims and what is outstanding.
LEMMA SameEnd ==
    ASSUME NEW lo \in Nat, NEW top \in Nat, NEW open, NEW d \in Nat, NEW e \in Nat,
           lo <= d, d <= top, d = top \/ d \in open, \A s \in lo..(d - 1) : s \notin open,
           lo <= e, e <= top, e = top \/ e \in open, \A s \in lo..(e - 1) : s \notin open
    PROVE  d = e
<1>1. ~(e < d)
  <2>. SUFFICES ASSUME e < d PROVE FALSE
    OBVIOUS
  <2>1. e \in lo..(d - 1) /\ e # top
    OBVIOUS
  <2>. QED BY <2>1
<1>2. ~(d < e)
  <2>. SUFFICES ASSUME d < e PROVE FALSE
    OBVIOUS
  <2>1. d \in lo..(e - 1) /\ d # top
    OBVIOUS
  <2>. QED BY <2>1
<1>. QED BY <1>1, <1>2

\* What PrefixEndIs says of the state after a step.
LEMMA PrefixEndAfter ==
    ASSUME Inv'
    PROVE  /\ PrefixEnd' \in Nat /\ next' \in Nat /\ claim' \in Nat
           /\ next' <= PrefixEnd' /\ PrefixEnd' <= claim' /\ PrefixEnd' <= next' + Cap
           /\ PrefixEnd' = claim' \/ PrefixEnd' \in Outstanding'
           /\ \A s \in (next')..(PrefixEnd' - 1) : s \notin Outstanding'
<1>1. (/\ PrefixEnd \in Nat /\ next \in Nat /\ claim \in Nat
       /\ next <= PrefixEnd /\ PrefixEnd <= claim /\ PrefixEnd <= next + Cap
       /\ PrefixEnd = claim \/ PrefixEnd \in Outstanding
       /\ \A s \in next..(PrefixEnd - 1) : s \notin Outstanding)'
  BY PrefixEndIs, PTL
<1>. QED BY <1>1

\* A step that moves neither end of the prefix leaves the channel unchanged.
LEMMA ChannelUnchanged ==
    ASSUME Inv, Inv', next' = next, out' = out, PrefixEnd' = PrefixEnd
    PROVE  UNCHANGED Fifo!vars
BY DEF Fifo!vars

\* A step that leaves the claims, what is outstanding and the consumer's
\* cursor alone.
LEMMA QuietStep ==
    ASSUME Inv, Inv', next' = next, out' = out, claim' = claim, Outstanding' = Outstanding
    PROVE  UNCHANGED Fifo!vars
<1>1. PrefixEnd' = PrefixEnd
  BY DEF PrefixEnd
<1>. QED BY <1>1, ChannelUnchanged

\* A claim opens a gap at the end of what was claimed: nothing is visible.
LEMMA ClaimQuiet ==
    ASSUME Inv, Inv', NEW p \in Producers, NEW n \in 1..MaxBurst, Claim(p, n)
    PROVE  UNCHANGED Fifo!vars
<1>. USE RingAssumption
<1>0. /\ claim' = claim + n /\ next' = next /\ out' = out /\ ppc[p] = "idle"
      /\ range' = [range EXCEPT ![p] = claim..(claim + n - 1)] /\ n \in Nat \ {0}
  BY DEF Claim, consVars
<1>1. Outstanding' = Outstanding \cup (claim..(claim + n - 1))
  <2>1. range[p] = {} /\ \A q \in Producers : range'[q] = IF q = p THEN claim..(claim + n - 1) ELSE range[q]
    BY <1>0 DEF Inv, Claims, TypeOK
  <2>. QED BY <2>1 DEF Outstanding
<1>2. /\ PrefixEnd \in Nat /\ next \in Nat /\ claim \in Nat /\ next <= PrefixEnd /\ PrefixEnd <= claim
      /\ PrefixEnd = claim \/ PrefixEnd \in Outstanding
      /\ \A s \in next..(PrefixEnd - 1) : s \notin Outstanding
  BY PrefixEndIs
<1>3. /\ PrefixEnd' \in Nat /\ next <= PrefixEnd' /\ PrefixEnd' <= claim'
      /\ PrefixEnd' = claim' \/ PrefixEnd' \in Outstanding'
      /\ \A s \in next..(PrefixEnd' - 1) : s \notin Outstanding'
  BY <1>0, PrefixEndAfter
<1>4. /\ claim' \in Nat /\ PrefixEnd <= claim' /\ PrefixEnd \in Outstanding'
      /\ \A s \in next..(PrefixEnd - 1) : s \notin Outstanding'
  <2>1. claim \in claim..(claim + n - 1) /\ claim + n \in Nat /\ PrefixEnd <= claim + n
    BY <1>0, <1>2
  <2>2. \A s \in next..(PrefixEnd - 1) : s \notin claim..(claim + n - 1)
    BY <1>0, <1>2
  <2>. QED BY <1>0, <1>1, <1>2, <2>1, <2>2
<1>5. PrefixEnd = PrefixEnd'
  BY <1>2, <1>3, <1>4, SameEnd
<1>. QED BY <1>0, <1>5, ChannelUnchanged

\* The store that closes the first gap is the channel's Send of every token up
\* to the next gap; any other availability store is invisible.
LEMMA PublishSends ==
    ASSUME Inv, Inv', NEW p \in Producers, Publish(p) PROVE [Fifo!Next]_(Fifo!vars)
<1>. DEFINE queue == [i \in 1..(PrefixEnd - next) |-> next + i]
<1>0. /\ claim' = claim /\ next' = next /\ out' = out
      /\ range' = [range EXCEPT ![p] = @ \ {Min(range[p])}]
  BY DEF Publish, consVars
<1>1. Outstanding' \subseteq Outstanding
  <2>1. \A q \in Producers : range'[q] \subseteq range[q]
    BY <1>0 DEF Inv, TypeOK
  <2>. QED BY <2>1 DEF Outstanding
<1>2. /\ PrefixEnd \in Nat /\ next \in Nat /\ claim \in Nat /\ next <= PrefixEnd /\ PrefixEnd <= claim
      /\ PrefixEnd = claim \/ PrefixEnd \in Outstanding
      /\ \A s \in next..(PrefixEnd - 1) : s \notin Outstanding
      /\ Len(out) = next
  BY PrefixEndIs
<1>3. PICK e \in Nat : /\ e = PrefixEnd' /\ next <= e /\ e <= claim /\ e <= next + Cap
                       /\ e = claim \/ e \in Outstanding'
  BY <1>0, PrefixEndAfter
<1>4. PrefixEnd <= e
  <2>. SUFFICES ASSUME e < PrefixEnd PROVE FALSE
    BY <1>2, <1>3
  <2>1. e \in next..(PrefixEnd - 1) /\ e # claim
    BY <1>2, <1>3
  <2>. QED BY <1>1, <1>2, <1>3, <2>1
<1>5. CASE e = PrefixEnd
  BY <1>0, <1>3, <1>5, ChannelUnchanged
<1>6. CASE e # PrefixEnd
  <2>. DEFINE n == e - PrefixEnd
  <2>0. \A a, b, c, k \in Nat :
           a <= b /\ b <= c /\ b # c /\ c <= a + k =>
              c - b \in 1..k /\ a + (b - a) = b /\ (b - a) + (c - b) <= k
    OBVIOUS
  <2>8. /\ next \in Nat /\ PrefixEnd \in Nat /\ Cap \in Nat /\ next <= PrefixEnd /\ PrefixEnd <= e
        /\ e <= next + Cap /\ next <= e /\ Len(out) = next
    BY <1>2, <1>3, <1>4, RingAssumption
  <2>1. n \in 1..Cap /\ next + (PrefixEnd - next) = PrefixEnd /\ (PrefixEnd - next) + n <= Cap
    BY <1>6, <2>0, <2>8
  <2>2. queue = Tokens(next, PrefixEnd) /\ queue' = Tokens(next, e)
    BY <1>0, <1>3 DEF Tokens
  <2>3. Len(queue) = PrefixEnd - next
    BY <1>2, <2>2, TokensSeq
  <2>4. Tokens(next, e) = Tokens(next, PrefixEnd) \o Tokens(PrefixEnd, e)
    BY <2>8, TokensAppended
  <2>. HIDE DEF queue
  <2>5. Len(out) + Len(queue) = PrefixEnd /\ Len(queue) + n <= Cap
    BY <2>1, <2>3, <2>8
  <2>6. Tokens(PrefixEnd, e) = [i \in 1..n |-> Len(out) + Len(queue) + i]
    BY <2>5 DEF Tokens
  <2>. HIDE DEF n
  <2>7. queue' = queue \o [i \in 1..n |-> Len(out) + Len(queue) + i]
    BY <2>2, <2>4, <2>6
  <2>. QED BY <1>0, <2>1, <2>5, <2>7 DEF queue, Fifo!Next, Fifo!Send, Fifo!Accepted
<1>. QED BY <1>5, <1>6

\* A slot load is the channel's Receive.
LEMMA LoadSlotReceives ==
    ASSUME Inv, Inv', LoadSlot PROVE [Fifo!Next]_(Fifo!vars)
<1>. USE RingAssumption
<1>. DEFINE queue == [i \in 1..(PrefixEnd - next) |-> next + i]
<1>0. /\ cpc = "read" /\ claim' = claim /\ next' = next + 1 /\ range' = range
      /\ out' = Append(out, buf[Slot(next)])
  BY DEF LoadSlot, prodVars
<1>1. next < claim /\ next \notin Outstanding /\ Outstanding' = Outstanding
  BY <1>0 DEF Inv, Window, Outstanding
<1>2. /\ PrefixEnd \in Nat /\ next \in Nat /\ claim \in Nat /\ next <= PrefixEnd /\ PrefixEnd <= claim
      /\ PrefixEnd = claim \/ PrefixEnd \in Outstanding
      /\ \A s \in next..(PrefixEnd - 1) : s \notin Outstanding
  BY PrefixEndIs
<1>3. PICK e \in Nat : /\ e = PrefixEnd' /\ next + 1 <= e /\ e <= claim
                       /\ e = claim \/ e \in Outstanding
                       /\ \A s \in (next + 1)..(e - 1) : s \notin Outstanding
  BY <1>0, <1>1, PrefixEndAfter
<1>9. next <= e /\ \A s \in next..(e - 1) : s \notin Outstanding
  <2>1. next \in Nat /\ next + 1 <= e
    BY <1>2, <1>3
  <2>2. next <= e /\ \A s \in next..(e - 1) : s = next \/ s \in (next + 1)..(e - 1)
    BY <2>1
  <2>. QED BY <1>1, <1>3, <2>2
<1>4. PrefixEnd' = PrefixEnd /\ next < PrefixEnd
  <2>1. PrefixEnd = e
    BY <1>2, <1>3, <1>9, SameEnd
  <2>2. next # PrefixEnd
    BY <1>1, <1>2
  <2>. QED BY <1>2, <1>3, <2>1, <2>2
<1>5. queue = Tokens(next, PrefixEnd) /\ queue' = Tokens(next + 1, PrefixEnd)
  BY <1>0, <1>4 DEF Tokens
<1>6. buf[Slot(next)] = next + 1
  <2>1. InSlot(next) /\ next \in next..(claim - 1)
    BY <1>1, <1>2 DEF InSlot
  <2>. QED BY <2>1 DEF Inv, NoOverwrite
<1>. HIDE DEF queue
<1>7. queue # <<>> /\ Head(queue) = next + 1 /\ Tail(queue) = queue'
  BY <1>2, <1>4, <1>5, TokensTaken
<1>8. out' = Append(out, Head(queue))
  BY <1>0, <1>6, <1>7
<1>. QED BY <1>7, <1>8 DEF queue, Fifo!Next, Fifo!Receive

\* A step of a producer that has claimed.
LEMMA DeliverRefines ==
    ASSUME Inv, Inv', NEW p \in Producers, Deliver(p) PROVE [Fifo!Next]_(Fifo!vars)
<1>1. CASE Publish(p)
  BY <1>1, PublishSends
<1>2. CASE ~Publish(p)
  <2>1. next' = next /\ out' = out /\ claim' = claim /\ range' = range
    BY <1>2 DEF Deliver, RefreshHead, StoreSlot, consVars
  <2>. QED BY <2>1, QuietStep DEF Outstanding
<1>. QED BY <1>1, <1>2

\* A step of the consumer.
LEMMA ConsumerRefines ==
    ASSUME Inv, Inv', NEW max, StartDrain \/ FindToken(max) \/ LoadSlot \/ EndDrain(max)
    PROVE  [Fifo!Next]_(Fifo!vars)
<1>1. CASE LoadSlot
  BY <1>1, LoadSlotReceives
<1>2. CASE ~LoadSlot
  <2>1. next' = next /\ out' = out /\ claim' = claim /\ range' = range
    BY <1>2 DEF StartDrain, FindToken, EndDrain, prodVars
  <2>. QED BY <2>1, QuietStep DEF Outstanding
<1>. QED BY <1>1, <1>2

\* A step that leaves the ring alone.
LEMMA StutterRefines == ASSUME Inv, Inv', UNCHANGED vars PROVE [Fifo!Next]_(Fifo!vars)
<1>1. next' = next /\ out' = out /\ claim' = claim /\ range' = range
  BY DEF vars, prodVars, consVars
<1>. QED BY <1>1, QuietStep DEF Outstanding

\* Every step of the benchmark's programs.
LEMMA BenchStepRefines ==
    ASSUME BenchInv, Inv', [BenchNext]_allVars PROVE [Fifo!Next]_(Fifo!vars)
<1>0. Inv
  BY DEF BenchInv
<1>1. CASE Harnessed /\ MainThread
  <2>1. UNCHANGED vars
    BY <1>1 DEF MainThread, StoreSize, ResetSink, SinkFull, StartProducer, StopProducer, JoinProducer
  <2>. QED BY <1>0, <2>1, StutterRefines
<1>2. CASE Harnessed /\ ConsumerThread
  <2>1. CASE DrainRing
    BY <1>0, <2>1, ConsumerRefines DEF DrainRing
  <2>2. CASE AddToSink \/ LeaveDrainLoop
    BY <1>0, <2>2, StutterRefines DEF AddToSink, LeaveDrainLoop
  <2>. QED BY <1>2, <2>1, <2>2 DEF ConsumerThread
<1>3. ASSUME Harnessed, NEW p \in Producers, ProducerThread(p) PROVE [Fifo!Next]_(Fifo!vars)
  <2>1. CASE Poll(p) \/ BaseAdd(p) \/ EndBurst(p)
    BY <1>0, <2>1, StutterRefines DEF Poll, BaseAdd, EndBurst
  <2>2. CASE RingStep(p)
    BY <1>0, <2>2, DeliverRefines DEF RingStep
  <2>3. CASE BeginBurst(p)
    <3>1. CASE program = "ring"
      <4>1. bpc[p] = "burst" /\ Claim(p, burstSize)
        BY <2>3, <3>1 DEF BeginBurst
      <4>2. burstSize = Size
        BY <3>1, <4>1 DEF BenchInv, InStep, Between
      <4>3. Size \in 1..MaxBurst
        BY BenchAssumption
      <4>. QED BY <1>0, <4>1, <4>2, <4>3, ClaimQuiet
    <3>2. CASE program # "ring"
      BY <1>0, <2>3, <3>2, StutterRefines DEF BeginBurst
    <3>. QED BY <3>1, <3>2
  <2>. QED BY <1>3, <2>1, <2>2, <2>3 DEF ProducerThread
<1>4. CASE FreeRing
  <2>1. ASSUME NEW p \in Producers, NEW n \in 1..MaxBurst, Claim(p, n)
        PROVE  [Fifo!Next]_(Fifo!vars)
    BY <1>0, <2>1, ClaimQuiet
  <2>2. ASSUME NEW p \in Producers, Deliver(p) PROVE [Fifo!Next]_(Fifo!vars)
    BY <1>0, <2>2, DeliverRefines
  <2>3. CASE Consumer
    BY <1>0, <2>3, ConsumerRefines DEF Consumer
  <2>. QED BY <1>4, <2>1, <2>2, <2>3 DEF FreeRing, Next
<1>5. CASE UNCHANGED allVars
  BY <1>0, <1>5, StutterRefines DEF allVars
<1>. QED BY <1>1, <1>2, <1>3, <1>4, <1>5 DEF BenchNext

\* The multi-producer ring implements the bounded FIFO channel although its
\* producers publish out of order: the store that closes a gap sends every
\* token behind it, a slot load receives one, nothing else shows.
THEOREM BenchRefinesFifo == BenchSpec => RefinesFifo
<1>1. BenchInit => Fifo!Init
  <2>. SUFFICES ASSUME BenchInit PROVE Fifo!Init
    OBVIOUS
  <2>1. Inv /\ next = 0 /\ claim = 0 /\ out = <<>>
    BY InitInv DEF BenchInit, Init
  <2>2. PrefixEnd - next = 0
    BY <2>1, PrefixEndIs
  <2>. QED BY <2>1, <2>2 DEF Fifo!Init
<1>2. BenchInv /\ BenchInv' /\ [BenchNext]_allVars => [Fifo!Next]_(Fifo!vars)
  <2>1. BenchInv' => Inv'
    BY DEF BenchInv
  <2>. QED BY <2>1, BenchStepRefines
<1>. QED BY <1>1, <1>2, AccountsKept, PTL DEF BenchSpec, RefinesFifo

=============================================================================
