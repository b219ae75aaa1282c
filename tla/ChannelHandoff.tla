--------------------------- MODULE ChannelHandoff ---------------------------
(***************************************************************************)
(* The channel hand-off (rust/thread-handoff/channel/src/main.rs): one     *)
(* unbounded std::sync::mpsc channel in each direction, and a receive that *)
(* polls try_recv a bounded number of times before it blocks in recv.      *)
(* The channel itself is the standard library's: a FIFO queue whose recv   *)
(* returns once a token is there and fails once the sender is gone and the *)
(* queue is empty.                                                         *)
(*                                                                         *)
(* Every token of the program is 1; here it is the number of the round.    *)
(***************************************************************************)
EXTENDS Integers, Sequences

CONSTANTS
    Rounds,         \* warm-up plus measured round trips
    SpinBudget      \* SPIN_BUDGET

Threads == {"timer", "responder"}
SendsTo(t) == IF t = "timer" THEN "req" ELSE "resp"
RecvsFrom(t) == IF t = "timer" THEN "resp" ELSE "req"
Peer(t) == IF t = "timer" THEN "responder" ELSE "timer"

VARIABLES
    queue,      \* per direction
    pc,         \* per thread: "send", "spin", "recv", "end" or "failed"
    spins,      \* per thread: try_recv calls left
    token,      \* per thread: the token it sends or has received
    done        \* per thread: rounds completed

vars == <<queue, pc, spins, token, done>>

Init ==
    /\ queue = [req |-> <<>>, resp |-> <<>>]
    /\ pc = [timer |-> "send", responder |-> "spin"]
    /\ spins = [t \in Threads |-> SpinBudget]
    /\ token = [timer |-> 1, responder |-> 0]
    /\ done = [t \in Threads |-> 0]

Empty(t) == queue[RecvsFrom(t)] = <<>>

\* The peer's thread is over and its end of both channels dropped.
Gone(t) == pc[t] \in {"end", "failed"}

\* A round is over for the responder when it has answered, for the timer when
\* it has the answer.
NextPc(t, more) == IF done[t] + 1 = Rounds THEN "end" ELSE more

\* send never blocks; it fails only when the receiver is gone.
Send(t) ==
    /\ pc[t] = "send"
    /\ IF Gone(Peer(t))
       THEN pc' = [pc EXCEPT ![t] = "failed"] /\ UNCHANGED <<queue, spins, done>>
       ELSE /\ queue' = [queue EXCEPT ![SendsTo(t)] = Append(@, token[t])]
            /\ spins' = [spins EXCEPT ![t] = SpinBudget]
            /\ pc' = [pc EXCEPT ![t] = IF t = "timer" THEN "spin" ELSE NextPc(t, "spin")]
            /\ done' = [done EXCEPT ![t] = IF t = "timer" THEN @ ELSE @ + 1]
    /\ UNCHANGED token

\* try_recv finds nothing; after the last try the thread blocks.
SpinMiss(t) ==
    /\ pc[t] = "spin"
    /\ Empty(t) /\ ~Gone(Peer(t))
    /\ spins' = [spins EXCEPT ![t] = @ - 1]
    /\ pc' = [pc EXCEPT ![t] = IF spins[t] = 1 THEN "recv" ELSE "spin"]
    /\ UNCHANGED <<queue, token, done>>

\* try_recv or recv returns a token; the responder answers with it.
Receive(t) ==
    /\ pc[t] \in {"spin", "recv"}
    /\ ~Empty(t)
    /\ queue' = [queue EXCEPT ![RecvsFrom(t)] = Tail(@)]
    /\ token' = [token EXCEPT ![t] = IF t = "timer" THEN done[t] + 2 ELSE Head(queue["req"])]
    /\ done' = [done EXCEPT ![t] = IF t = "timer" THEN @ + 1 ELSE @]
    /\ pc' = [pc EXCEPT ![t] = IF t = "timer" THEN NextPc(t, "send") ELSE "send"]
    /\ UNCHANGED spins

Step(t) == Send(t) \/ SpinMiss(t) \/ Receive(t)

Ended == \A t \in Threads : pc[t] = "end"

Next ==
    \/ \E t \in Threads : Step(t)
    \/ Ended /\ UNCHANGED vars

-----------------------------------------------------------------------------

Blocked == {"spin", "recv"}
If(condition) == IF condition THEN 1 ELSE 0

\* Every variable has its type.
TypeOK ==
    /\ queue \in [{"req", "resp"} -> Seq(1..Rounds)]
    /\ pc \in [Threads -> {"send", "spin", "recv", "end"}]
    /\ spins \in [Threads -> 0..SpinBudget] /\ token \in [Threads -> 0..(Rounds + 1)]
    /\ done \in [Threads -> 0..Rounds]

\* One token goes round: the requests sent are those taken and the one that is
\* queued, and so are the answers; each carries the number of its round.
RoundPhase ==
    /\ done["timer"] + If(pc["timer"] \in Blocked)
         = done["responder"] + If(pc["responder"] = "send") + Len(queue["req"])
    /\ done["responder"] = done["timer"] + Len(queue["resp"])
    /\ \A t \in Threads : (pc[t] = "end" <=> done[t] = Rounds) /\ (pc[t] = "spin" => spins[t] > 0)
    /\ \A b \in {"req", "resp"} : \A i \in 1..Len(queue[b]) : queue[b][i] = done["timer"] + 1
    /\ token["timer"] = done["timer"] + 1
    /\ pc["responder"] = "send" => token["responder"] = done["timer"] + 1

\* The channels are where the rounds say they are.  (Inductive.)
Inv == TypeOK /\ RoundPhase

\* "the queues never hold more than one element" (main, on the channels), and
\* the one they hold belongs to the round in progress; neither thread finds
\* the other gone.
OneTokenInFlight ==
    /\ Len(queue["req"]) + Len(queue["resp"]) <= 1
    /\ \A b \in {"req", "resp"} : \A i \in 1..Len(queue[b]) : queue[b][i] = done["timer"] + 1
    /\ \A t \in Threads : pc[t] # "failed" /\ spins[t] \in 0..SpinBudget
=============================================================================
