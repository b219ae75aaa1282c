---------------------------- MODULE SlotHandoff ----------------------------
(***************************************************************************)
(* The hand-off through two atomic slots (rust/thread-handoff/spin and     *)
(* rust/thread-handoff/backoff): the timer raises `req` and spins on       *)
(* `resp`, the responder waits for `req`, lowers it and raises `resp`.     *)
(* The two programs differ only in how the responder waits: the first      *)
(* spins, the second climbs the backoff ladder of idle.rs, whose state is  *)
(* kept here and is ignored by the first.                                  *)
(*                                                                         *)
(* Memory is weakly ordered.  A store sits in the buffer of its thread     *)
(* until it takes effect: a Release store after every store before it, a   *)
(* Relaxed one after those to the same slot only.  A thread sees its own   *)
(* buffered stores.  Loads are Acquire and take effect at once.            *)
(***************************************************************************)
EXTENDS Integers, Sequences, SequencesExt

CONSTANTS
    Rounds,         \* warm-up plus measured round trips
    MaxSpins,       \* MAX_SPINS
    MaxYields,      \* MAX_YIELDS
    MinPark,        \* MIN_PARK_NS
    MaxPark,        \* MAX_PARK_NS
    MaxIdles        \* bound: consecutive idle calls that history counts

Threads == {"timer", "responder"}

VARIABLES
    mem,        \* the slots `req` and `resp`: 0 is empty
    buffer,     \* per thread: stores that have not taken effect, oldest first
    pc,         \* per thread
    posted,     \* requests the timer has stored
    answered,   \* answers the responder has stored
    done,       \* round trips the timer has completed
    ladder,     \* the responder's Backoff: spins, yields, park
    idles       \* history: idle(0) calls since the last reset, up to MaxIdles

vars == <<mem, buffer, pc, posted, answered, done, ladder, idles>>

NewLadder == [spins |-> 0, yields |-> 0, park |-> MinPark]

Init ==
    /\ mem = [req |-> 0, resp |-> 0]
    /\ buffer = [t \in Threads |-> <<>>]
    /\ pc = [t \in Threads |-> IF t = "timer" THEN "post" ELSE "wait"]
    /\ posted = 0 /\ answered = 0 /\ done = 0
    /\ ladder = NewLadder
    /\ idles = 0

-----------------------------------------------------------------------------
(* Memory.                                                                 *)

Goto(t, label) == pc' = [pc EXCEPT ![t] = label]

Store(t, slot, val, order) ==
    buffer' = [buffer EXCEPT ![t] = Append(@, [slot |-> slot, val |-> val, order |-> order])]

OwnStores(t, slot) == {i \in 1..Len(buffer[t]) : buffer[t][i].slot = slot}

Load(t, slot) ==
    IF OwnStores(t, slot) = {} THEN mem[slot] ELSE buffer[t][Max(OwnStores(t, slot))].val

\* The i-th buffered store of t takes effect.
TakeEffect(t, i) ==
    LET st == buffer[t][i]
    IN  /\ \A j \in 1..(i - 1) : st.order # "release" /\ buffer[t][j].slot # st.slot
        /\ mem' = [mem EXCEPT ![st.slot] = st.val]
        /\ buffer' = [buffer EXCEPT ![t] = RemoveAt(@, i)]
        /\ UNCHANGED <<pc, posted, answered, done, ladder, idles>>

-----------------------------------------------------------------------------
(* The timer.  Its spin on an empty slot changes nothing and has no action. *)

Post ==
    /\ pc["timer"] = "post"
    /\ Store("timer", "req", 1, "release")
    /\ posted' = posted + 1
    /\ Goto("timer", "wait")
    /\ UNCHANGED <<mem, answered, done, ladder, idles>>

GetAnswer ==
    /\ pc["timer"] = "wait"
    /\ Load("timer", "resp") # 0
    /\ Goto("timer", "clear")
    /\ UNCHANGED <<mem, buffer, posted, answered, done, ladder, idles>>

ClearAnswer ==
    /\ pc["timer"] = "clear"
    /\ Store("timer", "resp", 0, "relaxed")
    /\ done' = done + 1
    /\ Goto("timer", IF done + 1 = Rounds THEN "end" ELSE "post")
    /\ UNCHANGED <<mem, posted, answered, ladder, idles>>

TimerStep == Post \/ GetAnswer \/ ClearAnswer

-----------------------------------------------------------------------------
(* The responder.                                                          *)

\* idle(0): spin, then yield, then park for a period that doubles up to its
\* limit.  The park is a sleep: it always ends.
Climb ==
    IF ladder.spins < MaxSpins THEN [ladder EXCEPT !.spins = @ + 1]
    ELSE IF ladder.yields < MaxYields THEN [ladder EXCEPT !.yields = @ + 1]
    ELSE [ladder EXCEPT !.park = IF @ * 2 < MaxPark THEN @ * 2 ELSE MaxPark]

\* idle(1).
Reset == NewLadder

Idle ==
    /\ pc["responder"] = "wait"
    /\ Load("responder", "req") = 0
    /\ ladder' = Climb
    /\ idles' = IF idles < MaxIdles THEN idles + 1 ELSE idles
    /\ UNCHANGED <<mem, buffer, pc, posted, answered, done>>

GetRequest ==
    /\ pc["responder"] = "wait"
    /\ Load("responder", "req") # 0
    /\ ladder' = Reset
    /\ idles' = 0
    /\ Goto("responder", "clear")
    /\ UNCHANGED <<mem, buffer, posted, answered, done>>

\* Faulty variant: the request is left in its slot.
ClearRequestNot ==
    /\ pc["responder"] = "clear"
    /\ Goto("responder", "answer")
    /\ UNCHANGED <<mem, buffer, posted, answered, done, ladder, idles>>

ClearRequest ==
    /\ pc["responder"] = "clear"
    /\ Store("responder", "req", 0, "relaxed")
    /\ Goto("responder", "answer")
    /\ UNCHANGED <<mem, posted, answered, done, ladder, idles>>

Answer ==
    /\ pc["responder"] = "answer"
    /\ Store("responder", "resp", 1, "release")
    /\ answered' = answered + 1
    /\ Goto("responder", IF answered + 1 = Rounds THEN "end" ELSE "wait")
    /\ UNCHANGED <<mem, posted, done, ladder, idles>>

\* A step that makes headway, as opposed to waiting.
ResponderStep == GetRequest \/ ClearRequest \/ Answer

-----------------------------------------------------------------------------

Drain(t) == \E i \in 1..Len(buffer[t]) : TakeEffect(t, i)

Ended == \A t \in Threads : pc[t] = "end" /\ buffer[t] = <<>>

Next ==
    \/ TimerStep
    \/ Idle \/ ResponderStep
    \/ \E t \in Threads : Drain(t)
    \/ Ended /\ UNCHANGED vars

\* Both threads keep looking at their slots, and no store stays in a buffer
\* for ever.
Fairness ==
    /\ WF_vars(TimerStep)
    /\ WF_vars(ResponderStep)
    /\ \A t \in Threads : WF_vars(Drain(t))

Spec == Init /\ [][Next]_vars /\ Fairness

-----------------------------------------------------------------------------
(* Properties.                                                             *)

\* Every variable has its type; a thread never has more than two stores in
\* flight, and the park period stays between its limits.
TypeOK ==
    /\ mem \in [{"req", "resp"} -> {0, 1}]
    /\ \A t \in Threads : Len(buffer[t]) <= 2
    /\ DOMAIN buffer = Threads
    /\ pc \in [Threads -> {"post", "wait", "clear", "answer", "end"}]
    /\ posted \in 0..Rounds /\ answered \in 0..Rounds /\ done \in 0..Rounds
    /\ ladder \in [spins : 0..MaxSpins, yields : 0..MaxYields, park : MinPark..MaxPark]
    /\ idles \in 0..MaxIdles

\* A request is answered once and an answer taken once: the counts of the
\* two threads never differ by more than the round trip in progress.
RoundsInStep == done <= answered /\ answered <= posted /\ posted <= done + 1

Raised(t, slot) == mem[slot] = 1 \/ \E i \in 1..Len(buffer[t]) : buffer[t][i].slot = slot

\* Lowering a slot with a Relaxed store never erases the next token: while a
\* thread waits for a token that was stored, the token is in the slot or on
\* its way there, and no older store of the waiting thread can still lower
\* the slot behind it.
NoTokenErased ==
    /\ pc["responder"] = "wait" /\ posted > answered =>
          Raised("timer", "req") /\ OwnStores("responder", "req") = {}
    /\ pc["timer"] = "wait" /\ answered = posted =>
          Raised("responder", "resp") /\ OwnStores("timer", "resp") = {}

Raise(slot) == [slot |-> slot, val |-> 1, order |-> "release"]
Lower(slot) == [slot |-> slot, val |-> 0, order |-> "relaxed"]

\* What may be in flight from a thread that lowers one slot and then raises the
\* other: the Relaxed store may linger, but the Release store never overtakes
\* it.
StoresInOrder ==
    /\ buffer["timer"] \in
          CASE pc["timer"] \in {"post", "end"} -> {<<>>, <<Lower("resp")>>}
            [] pc["timer"] = "wait" -> {<<>>, <<Raise("req")>>, <<Lower("resp"), Raise("req")>>}
            [] OTHER -> {<<>>}
    /\ buffer["responder"] \in
          CASE pc["responder"] = "answer" -> {<<>>, <<Lower("req")>>}
            [] pc["responder"] \in {"wait", "end"} ->
                  {<<>>, <<Raise("resp")>>, <<Lower("req"), Raise("resp")>>}
            [] OTHER -> {<<>>}

\* A slot is up in memory exactly while its token waits there, or has been
\* taken and the store that lowers the slot is still in flight.
SlotsFollow ==
    /\ pc["timer"] \in {"post", "wait", "clear", "end"}
    /\ pc["responder"] \in {"wait", "clear", "answer", "end"}
    /\ posted = IF pc["timer"] \in {"wait", "clear"} THEN done + 1 ELSE done
    /\ pc["timer"] = "end" <=> done = Rounds
    /\ pc["responder"] = "end" <=> answered = Rounds
    /\ pc["responder"] \in {"clear", "answer"} => posted = answered + 1
    /\ pc["timer"] = "clear" => answered = posted
    /\ OwnStores("timer", "req") # {} => posted = answered + 1 /\ pc["responder"] = "wait"
    /\ OwnStores("responder", "req") # {} => answered = posted \/ pc["responder"] = "answer"
    /\ OwnStores("responder", "resp") # {} => answered = done + 1 /\ pc["timer"] = "wait"
    /\ OwnStores("timer", "resp") # {} => answered = done
    /\ mem["req"] = 1 <=>
          \/ OwnStores("responder", "req") # {}
          \/ /\ posted = answered + 1 /\ pc["responder"] \in {"wait", "clear"}
             /\ OwnStores("timer", "req") = {}
    /\ mem["resp"] = 1 <=>
          \/ OwnStores("timer", "resp") # {}
          \/ answered = done + 1 /\ OwnStores("responder", "resp") = {}

\* The slots hand over every token once, in the round it belongs to, although
\* main lowers them with Relaxed stores.  (Inductive.)
Inv == TypeOK /\ RoundsInStep /\ NoTokenErased /\ StoresInOrder /\ SlotsFollow

\* Powers of two.
Pow2[n \in 0..MaxIdles] == IF n = 0 THEN 1 ELSE 2 * Pow2[n - 1]

\* The history counts until the ladder has reached its end.
MaxIdlesSuffices ==
    /\ MaxSpins + MaxYields <= MaxIdles
    /\ MinPark * Pow2[MaxIdles - MaxSpins - MaxYields] >= MaxPark

\* The ladder is a function of the idle calls since the last request: the
\* spins first, then the yields, then parks of doubling length from the
\* shortest one; nothing of an earlier wait is left in it.
LadderExact ==
    LET parks == idles - MaxSpins - MaxYields
        atMost(n, limit) == IF n < limit THEN n ELSE limit
    IN  /\ ladder.spins = atMost(idles, MaxSpins)
        /\ idles <= MaxSpins => ladder.yields = 0
        /\ idles > MaxSpins => ladder.yields = atMost(idles - MaxSpins, MaxYields)
        /\ parks <= 0 => ladder.park = MinPark
        /\ parks > 0 => ladder.park = atMost(MinPark * Pow2[parks], MaxPark)

\* Every round trip completes and all stores reach memory.
AllRoundsComplete == <>Ended
=============================================================================
