--------------------------- MODULE ThreadHandoff ---------------------------
(***************************************************************************)
(* The thread-handoff programs, one per behaviour: the SPSC ring, the      *)
(* condvar mailboxes, the atomic slots (spin and backoff) and the          *)
(* channels.  Each is a process of its own; `program` says which one runs, *)
(* and the variables of the others stay as they were.                      *)
(***************************************************************************)
EXTENDS SpscRing

CONSTANTS
    Rounds,         \* round trips of the latency programs
    SpinBudget,     \* tries before parking
    MaxSpins, MaxYields, MinPark, MaxPark,  \* the backoff ladder
    MaxIdles        \* bound: consecutive idle calls that history counts

ASSUME HandoffAssumption ==
    /\ Rounds \in Nat \ {0} /\ SpinBudget \in Nat \ {0}
    /\ MaxSpins \in Nat /\ MaxYields \in Nat /\ MaxIdles \in Nat
    /\ MinPark \in Nat \ {0} /\ MaxPark \in Nat /\ MinPark <= MaxPark

VARIABLES
    program,
    mFull, mSlot, mLock, mWaiting, mPc, mSpins, mToken, mDone,
    sMem, sBuffer, sPc, sPosted, sAnswered, sDone, sLadder, sIdles,
    cQueue, cPc, cSpins, cToken, cDone

M == INSTANCE Mailbox WITH
        full <- mFull, slot <- mSlot, lock <- mLock, waiting <- mWaiting,
        pc <- mPc, spins <- mSpins, token <- mToken, done <- mDone

S == INSTANCE SlotHandoff WITH
        mem <- sMem, buffer <- sBuffer, pc <- sPc, posted <- sPosted,
        answered <- sAnswered, done <- sDone, ladder <- sLadder, idles <- sIdles

C == INSTANCE ChannelHandoff WITH
        queue <- cQueue, pc <- cPc, spins <- cSpins, token <- cToken, done <- cDone

\* The history of idle calls reaches to the end of the ladder.
ASSUME HistoryAssumption == S!MaxIdlesSuffices

mailboxVars == <<mFull, mSlot, mLock, mWaiting, mPc, mSpins, mToken, mDone>>
slotVars == <<sMem, sBuffer, sPc, sPosted, sAnswered, sDone, sLadder, sIdles>>
channelVars == <<cQueue, cPc, cSpins, cToken, cDone>>
allVars == <<program, vars, mailboxVars, slotVars, channelVars>>

HandoffInit ==
    /\ program \in {"ring", "condvar", "slots", "channel"}
    /\ Init /\ M!Init /\ S!Init /\ C!Init

InRing == program = "ring" /\ UNCHANGED <<program, mailboxVars, slotVars, channelVars>>
InCondvar == program = "condvar" /\ UNCHANGED <<program, vars, slotVars, channelVars>>
InSlots == program = "slots" /\ UNCHANGED <<program, vars, mailboxVars, channelVars>>
InChannel == program = "channel" /\ UNCHANGED <<program, vars, mailboxVars, slotVars>>

HandoffNext ==
    \/ InRing /\ Next
    \/ InCondvar /\ M!Next
    \/ InSlots /\ S!Next
    \/ InChannel /\ C!Next

\* Each program under the fairness its own module states: threads that can
\* run do run, a mutex found free again and again is got in the end, a
\* buffered store takes effect; blocked receives are woken by the token.
HandoffSpec ==
    /\ HandoffInit /\ [][HandoffNext]_allVars
    /\ WF_allVars(InRing /\ Producer) /\ WF_allVars(InRing /\ Consumer)
    /\ \A t \in M!Threads :
          /\ WF_allVars(InCondvar /\ M!Step(t))
          /\ SF_allVars(InCondvar /\ M!LockToSend(t))
          /\ SF_allVars(InCondvar /\ M!LockToRecv(t))
    /\ WF_allVars(InSlots /\ S!TimerStep) /\ WF_allVars(InSlots /\ S!ResponderStep)
    /\ \A t \in S!Threads : WF_allVars(InSlots /\ S!Drain(t))
    /\ \A t \in C!Threads : WF_allVars(InChannel /\ C!Step(t))

-----------------------------------------------------------------------------
(* Properties.                                                             *)

\* The blocking hand-offs pass one token at a time: in the mailbox the flag
\* recv trusts outside the lock and the slot behind it belong together, and
\* in both programs a token is taken once, in its own round.
BlockingHandoffSound == M!Inv /\ M!OneTokenInFlight /\ C!Inv /\ C!OneTokenInFlight

\* Slots lowered with Relaxed stores never lose a token, whatever order the
\* threads' stores reach memory in; and the backoff ladder is a function of
\* the idle calls since the last request: a wait starts from the first spin
\* and parks for doubling periods at last.
SlotsSound == S!Inv /\ S!LadderExact

\* Every program comes to its end: no token is left in a ring, no wake-up is
\* lost although notify_one is called after the unlock, no store stays
\* invisible, no blocked receive stays blocked.
AllComplete ==
    <>(\/ program = "ring" /\ head = Total /\ Len(out) = Total
       \/ program = "condvar" /\ M!Ended
       \/ program = "slots" /\ S!Ended
       \/ program = "channel" /\ C!Ended)
=============================================================================
