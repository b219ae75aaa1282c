------------------------------ MODULE Mailbox ------------------------------
(***************************************************************************)
(* The condvar hand-off (rust/thread-handoff/condvar/src/main.rs): two     *)
(* one-slot mailboxes, `req` from the timer to the responder and `resp`    *)
(* back.  A mailbox is a slot under a mutex, a condition variable and an   *)
(* atomic flag `full` that lets recv spin before it parks.                 *)
(*                                                                         *)
(* send stores the token and the flag under the lock, unlocks, and         *)
(* notifies AFTER it has unlocked, so a notification may arrive when its   *)
(* token is long gone.  The condition variable may also wake a waiter      *)
(* without a notification.                                                 *)
(*                                                                         *)
(* Every token of the program is 1; here it is the number of the round     *)
(* trip, so that a token taken twice or in the wrong round can be seen.    *)
(***************************************************************************)
EXTENDS Integers

CONSTANTS
    Rounds,         \* warm-up plus measured round trips
    SpinBudget      \* tries before parking (SPIN_BUDGET)

Threads == {"timer", "responder"}
Boxes == {"req", "resp"}
SendsTo(t) == IF t = "timer" THEN "req" ELSE "resp"
RecvsFrom(t) == IF t = "timer" THEN "resp" ELSE "req"

None == 0           \* empty slot
Free == "free"      \* unlocked mutex

VARIABLES
    full,       \* per box: the AtomicBool
    slot,       \* per box: the token, or None
    lock,       \* per box: the thread inside the mutex, or Free
    waiting,    \* per box: the threads parked on the condition variable
    pc,         \* per thread
    spins,      \* per thread: tries left in this recv
    token,      \* per thread: the token it sends or has received
    done        \* per thread: round trips completed

vars == <<full, slot, lock, waiting, pc, spins, token, done>>

Init ==
    /\ full = [b \in Boxes |-> FALSE]
    /\ slot = [b \in Boxes |-> None]
    /\ lock = [b \in Boxes |-> Free]
    /\ waiting = [b \in Boxes |-> {}]
    /\ pc = [t \in Threads |-> IF t = "timer" THEN "send" ELSE "spin"]
    /\ spins = [t \in Threads |-> SpinBudget]
    /\ token = [t \in Threads |-> IF t = "timer" THEN 1 ELSE None]
    /\ done = [t \in Threads |-> 0]

Goto(t, label) == pc' = [pc EXCEPT ![t] = label]

Acquire(t, b) == lock[b] = Free /\ lock' = [lock EXCEPT ![b] = t]
Release(b) == lock' = [lock EXCEPT ![b] = Free]

-----------------------------------------------------------------------------
(* send.                                                                   *)

LockToSend(t) ==
    /\ pc[t] = "send"
    /\ Acquire(t, SendsTo(t))
    /\ Goto(t, "fill")
    /\ UNCHANGED <<full, slot, waiting, spins, token, done>>

FillSlot(t) ==
    /\ pc[t] = "fill"
    /\ slot' = [slot EXCEPT ![SendsTo(t)] = token[t]]
    /\ Goto(t, "flag")
    /\ UNCHANGED <<full, lock, waiting, spins, token, done>>

RaiseFlag(t) ==
    /\ pc[t] = "flag"
    /\ full' = [full EXCEPT ![SendsTo(t)] = TRUE]
    /\ Goto(t, "unlock")
    /\ UNCHANGED <<slot, lock, waiting, spins, token, done>>

UnlockAfterSend(t) ==
    /\ pc[t] = "unlock"
    /\ Release(SendsTo(t))
    /\ Goto(t, "notify")
    /\ UNCHANGED <<full, slot, waiting, spins, token, done>>

\* The responder counts a round trip when it has answered, the timer when
\* it has the answer.
AfterSend(t) ==
    IF t = "timer"
    THEN Goto(t, "spin") /\ UNCHANGED done
    ELSE /\ done' = [done EXCEPT ![t] = @ + 1]
         /\ Goto(t, IF done[t] + 1 = Rounds THEN "end" ELSE "spin")

\* Faulty variant: nobody is woken.
NotifyNobody(t) ==
    /\ pc[t] = "notify"
    /\ UNCHANGED waiting
    /\ AfterSend(t)
    /\ spins' = [spins EXCEPT ![t] = SpinBudget]
    /\ UNCHANGED <<full, slot, lock, token>>

\* notify_one: one waiter, if there is any, is woken.
Notify(t) ==
    /\ pc[t] = "notify"
    /\ \/ waiting[SendsTo(t)] = {} /\ UNCHANGED waiting
       \/ \E w \in waiting[SendsTo(t)] : waiting' = [waiting EXCEPT ![SendsTo(t)] = @ \ {w}]
    /\ AfterSend(t)
    /\ spins' = [spins EXCEPT ![t] = SpinBudget]
    /\ UNCHANGED <<full, slot, lock, token>>

-----------------------------------------------------------------------------
(* recv.                                                                   *)

\* The flag is down: one try less.
SpinMiss(t) ==
    /\ pc[t] = "spin" /\ spins[t] > 0
    /\ ~full[RecvsFrom(t)]
    /\ spins' = [spins EXCEPT ![t] = @ - 1]
    /\ UNCHANGED <<full, slot, lock, waiting, pc, token, done>>

SpinHit(t) ==
    /\ pc[t] = "spin" /\ spins[t] > 0
    /\ full[RecvsFrom(t)]
    /\ Goto(t, "lockfast")
    /\ UNCHANGED <<full, slot, lock, waiting, spins, token, done>>

\* The budget is used up.
GiveUpSpinning(t) ==
    /\ pc[t] = "spin" /\ spins[t] = 0
    /\ Goto(t, "lockslow")
    /\ UNCHANGED <<full, slot, lock, waiting, spins, token, done>>

\* Taking the lock, also again after a wake-up.
LockToRecv(t) ==
    /\ pc[t] \in {"lockfast", "lockslow"}
    /\ pc[t] = "lockslow" => t \notin waiting[RecvsFrom(t)]
    /\ Acquire(t, RecvsFrom(t))
    /\ Goto(t, IF pc[t] = "lockfast" THEN "takefast" ELSE "takeslow")
    /\ UNCHANGED <<full, slot, waiting, spins, token, done>>

\* g.take() finds the token.
Take(t) ==
    /\ pc[t] \in {"takefast", "takeslow"}
    /\ slot[RecvsFrom(t)] # None
    /\ token' = [token EXCEPT ![t] = slot[RecvsFrom(t)]]
    /\ slot' = [slot EXCEPT ![RecvsFrom(t)] = None]
    /\ Goto(t, "lower")
    /\ UNCHANGED <<full, lock, waiting, spins, done>>

\* Faulty variant: the flag stays up.
LowerFlagNot(t) ==
    /\ pc[t] = "lower"
    /\ Goto(t, "return")
    /\ UNCHANGED <<full, slot, lock, waiting, spins, token, done>>

\* The flag is lowered, still under the lock.
LowerFlag(t) ==
    /\ pc[t] = "lower"
    /\ full' = [full EXCEPT ![RecvsFrom(t)] = FALSE]
    /\ Goto(t, "return")
    /\ UNCHANGED <<slot, lock, waiting, spins, token, done>>

\* The token is returned, which unlocks.  The responder answers with it; the
\* timer has completed a round trip and sends the next token.
Return(t) ==
    /\ pc[t] = "return"
    /\ Release(RecvsFrom(t))
    /\ IF t = "responder"
       THEN Goto(t, "send") /\ UNCHANGED <<token, done>>
       ELSE /\ done' = [done EXCEPT ![t] = @ + 1]
            /\ token' = [token EXCEPT ![t] = done[t] + 2]
            /\ Goto(t, IF done[t] + 1 = Rounds THEN "end" ELSE "send")
    /\ UNCHANGED <<full, slot, waiting, spins>>

\* cv.wait: unlock and park in one step.
Park(t) ==
    /\ pc[t] = "takeslow"
    /\ slot[RecvsFrom(t)] = None
    /\ Release(RecvsFrom(t))
    /\ waiting' = [waiting EXCEPT ![RecvsFrom(t)] = @ \cup {t}]
    /\ Goto(t, "lockslow")
    /\ UNCHANGED <<full, slot, spins, token, done>>

\* A wake-up without a notification.
SpuriousWake(t) ==
    /\ t \in waiting[RecvsFrom(t)]
    /\ waiting' = [waiting EXCEPT ![RecvsFrom(t)] = @ \ {t}]
    /\ UNCHANGED <<full, slot, lock, pc, spins, token, done>>

-----------------------------------------------------------------------------

\* What a thread does by itself, as opposed to being woken by chance.
Step(t) ==
    \/ LockToSend(t) \/ FillSlot(t) \/ RaiseFlag(t) \/ UnlockAfterSend(t) \/ Notify(t)
    \/ SpinMiss(t) \/ SpinHit(t) \/ GiveUpSpinning(t) \/ LockToRecv(t)
    \/ Take(t) \/ LowerFlag(t) \/ Return(t) \/ Park(t)

Ended == \A t \in Threads : pc[t] = "end"

Next ==
    \/ \E t \in Threads : Step(t) \/ SpuriousWake(t)
    \/ Ended /\ UNCHANGED vars

\* Threads that can run do run, and a thread that finds a mutex free again
\* and again gets it in the end.  A spurious wake-up is never relied on.
Fairness ==
    \A t \in Threads :
        WF_vars(Step(t)) /\ SF_vars(LockToSend(t)) /\ SF_vars(LockToRecv(t))

Spec == Init /\ [][Next]_vars /\ Fairness

-----------------------------------------------------------------------------
(* Properties.                                                             *)

Labels == {"send", "fill", "flag", "unlock", "notify", "spin", "lockfast", "lockslow",
           "takefast", "takeslow", "lower", "return", "end"}

\* Every variable has its type.
TypeOK ==
    /\ full \in [Boxes -> BOOLEAN]
    /\ slot \in [Boxes -> 0..Rounds]
    /\ lock \in [Boxes -> Threads \cup {Free}]
    /\ waiting \in [Boxes -> SUBSET Threads]
    /\ pc \in [Threads -> Labels]
    /\ spins \in [Threads -> 0..SpinBudget]
    /\ token \in [Threads -> 0..(Rounds + 1)]
    /\ done \in [Threads -> 0..Rounds]

\* The flag recv trusts before it takes the lock says what the slot holds
\* whenever the mutex is free: a stale flag would cost a locked look at an
\* empty slot, or a park beside a full one.
FlagMatchesSlot ==
    \A b \in Boxes : lock[b] = Free => (full[b] <=> slot[b] # None)

\* The flag is never up in vain: recv, on the fast path, finds the token it
\* was promised.  The code keeps an `if let` there; with one receiver per
\* mailbox its other branch is dead, and has no action here.
FastPathNeverMisses ==
    \A t \in Threads : pc[t] \in {"lockfast", "takefast"} => slot[RecvsFrom(t)] # None

\* The mutex of a mailbox belongs to the thread that is between its lock and
\* its unlock.
LockedBy(b, t) ==
    \/ SendsTo(t) = b /\ pc[t] \in {"fill", "flag", "unlock"}
    \/ RecvsFrom(t) = b /\ pc[t] \in {"takefast", "takeslow", "lower", "return"}

\* Where send and recv stand between the slot and the flag: the flag is up
\* from the store that follows the token's to the one that follows its taking.
InBox ==
    \A b \in Boxes, t \in Threads :
        /\ lock[b] = t <=> LockedBy(b, t)
        /\ SendsTo(t) = b /\ pc[t] \in {"flag", "unlock"} => slot[b] # None
        /\ full[SendsTo(t)] <=> \/ slot[SendsTo(t)] # None /\ pc[t] # "flag"
                               \/ \E u \in Threads : RecvsFrom(u) = SendsTo(t) /\ pc[u] = "lower"

Receiving == {"spin", "lockfast", "lockslow", "takefast", "takeslow"}
Sent == {"flag", "unlock", "notify"}
Taken == {"lower", "return"}
If(condition) == IF condition THEN 1 ELSE 0

\* One token goes round: the requests sent are those taken and the one in its
\* box, and so are the answers; each carries the number of its round.
RoundPhase ==
    /\ done["timer"] + If(pc["timer"] \in Sent \cup Receiving \cup Taken)
         = done["responder"] + If(pc["responder"] \in Taken \cup {"send", "fill"} \cup Sent)
             + If(slot["req"] # None)
    /\ done["responder"] + If(pc["responder"] \in Sent)
         = done["timer"] + If(pc["timer"] \in Taken) + If(slot["resp"] # None)
    /\ \A t \in Threads : pc[t] = "end" <=> done[t] = Rounds
    /\ \A b \in Boxes : slot[b] \in {None, done["timer"] + 1}
    /\ token["timer"] = done["timer"] + 1
    /\ pc["responder"] \in Taken \cup {"send", "fill"} => token["responder"] = done["timer"] + 1

\* The flag and the slot of a mailbox belong together, seen from outside the
\* lock and from the fast path of recv.  (Inductive.)
Inv == TypeOK /\ FlagMatchesSlot /\ FastPathNeverMisses /\ InBox /\ RoundPhase

\* A round trip at a time: the responder answers the round the timer is in,
\* no token is overwritten by the next one, none is taken twice.
OneTokenInFlight ==
    /\ done["responder"] - done["timer"] \in -1..1
    /\ \A b \in Boxes : slot[b] \in {None, done["timer"] + 1}
    /\ ~(slot["req"] # None /\ slot["resp"] # None)
    /\ pc["responder"] \in {"lower", "return", "send", "fill"} => token["responder"] = done["timer"] + 1

\* No wake-up is lost: every round trip completes, on the parking path and
\* with notifications that come late, without help from a spurious wake-up.
AllRoundsComplete == <>Ended
=============================================================================
