------------------------------- MODULE Barrier -------------------------------
(***************************************************************************)
(* critical_concurrency/barrier.c: a reusable barrier built from a mutex   *)
(* and a condition variable.  times_used is 1 while the barrier is closed  *)
(* (it collects threads) and 0 while it is open (the threads of a round    *)
(* leave it).  A thread that arrives while it is open waits at the gate.   *)
(***************************************************************************)
EXTENDS Integers, FiniteSets

CONSTANTS
    Threads,    \* the n_threads threads that use the barrier
    Rounds      \* how often each of them calls barrier_wait

N == Cardinality(Threads)

ASSUME BarrierAssumption == IsFiniteSet(Threads) /\ N > 0 /\ Rounds \in Nat

VARIABLES
    count, times_used,  \* the fields of barrier_t
    pc,                 \* where each thread is
    entered, left       \* history: calls started, calls returned, per thread

vars == <<count, times_used, pc, entered, left>>

\* barrier_init
Init ==
    /\ count = 0
    /\ times_used = 1
    /\ pc = [t \in Threads |-> "out"]
    /\ entered = [t \in Threads |-> 0]
    /\ left = [t \in Threads |-> 0]

\* A thread calls barrier_wait and asks for the mutex.
Call(t) ==
    /\ pc[t] = "out"
    /\ entered[t] < Rounds
    /\ entered' = [entered EXCEPT ![t] = @ + 1]
    /\ pc' = [pc EXCEPT ![t] = "arrive"]
    /\ UNCHANGED <<count, times_used, left>>

\* pthread_cond_broadcast: those at the gate test it again, those who wait for
\* the others test that again; t returns.
Broadcast(t) ==
    pc' = [u \in Threads |-> IF u = t THEN "out"
                             ELSE IF pc[u] = "gate" THEN "arrive"
                             ELSE IF pc[u] = "wait" THEN "woken" ELSE pc[u]]

Return(t) == left' = [left EXCEPT ![t] = @ + 1]

\* Mutant: arriving threads ignore an open barrier.
GateIgnored == FALSE

\* The condition of the first while loop.
GateOpen == times_used = 0

\* The barrier is open: wait for the threads of the previous round to go.
WaitAtGate(t) ==
    /\ pc[t] = "arrive"
    /\ GateOpen
    /\ pc' = [pc EXCEPT ![t] = "gate"]
    /\ UNCHANGED <<count, times_used, entered, left>>

\* The last thread of a round opens the barrier.
LastArrives(t) ==
    /\ pc[t] = "arrive"
    /\ ~GateOpen
    /\ count + 1 = N
    /\ times_used' = 0
    /\ UNCHANGED count      \* incremented and decremented again
    /\ Broadcast(t)
    /\ Return(t)
    /\ UNCHANGED entered

\* Any other thread counts itself and sleeps.
Arrives(t) ==
    /\ pc[t] = "arrive"
    /\ ~GateOpen
    /\ count + 1 # N
    /\ count' = count + 1
    /\ pc' = [pc EXCEPT ![t] = "wait"]
    /\ UNCHANGED <<times_used, entered, left>>

\* A woken thread finds the barrier still closed.
SleepsAgain(t) ==
    /\ pc[t] = "woken"
    /\ count < N /\ times_used # 0
    /\ pc' = [pc EXCEPT ![t] = "wait"]
    /\ UNCHANGED <<count, times_used, entered, left>>

\* A woken thread leaves; the last one closes the barrier behind it.
Leaves(t) ==
    /\ pc[t] = "woken"
    /\ ~(count < N /\ times_used # 0)
    /\ count' = count - 1
    /\ times_used' = IF count = 1 THEN 1 ELSE times_used
    /\ Broadcast(t)
    /\ Return(t)
    /\ UNCHANGED entered

SpuriousWakeup(t) ==
    /\ pc[t] \in {"gate", "wait"}
    /\ pc' = [pc EXCEPT ![t] = IF @ = "gate" THEN "arrive" ELSE "woken"]
    /\ UNCHANGED <<count, times_used, entered, left>>

Done == \A t \in Threads : left[t] = Rounds

Step(t) ==
    \/ Call(t) \/ WaitAtGate(t) \/ LastArrives(t)
    \/ Arrives(t) \/ SleepsAgain(t) \/ Leaves(t)

Next ==
    \/ \E t \in Threads : Step(t) \/ SpuriousWakeup(t)
    \/ Done /\ UNCHANGED vars

\* Threads that can run are scheduled again and again.
Spec == Init /\ [][Next]_vars /\ \A t \in Threads : WF_vars(Step(t))

-----------------------------------------------------------------------------
\* Types, and the range of the unsigned count: it never wraps below 0.
TypeOK ==
    /\ count \in 0 .. N
    /\ times_used \in {0, 1}
    /\ pc \in [Threads -> {"out", "arrive", "gate", "wait", "woken"}]
    /\ entered \in [Threads -> 0 .. Rounds]
    /\ left \in [Threads -> 0 .. Rounds]

\* What a barrier is for: nobody returns from a round that some thread has not
\* entered, in the first use and in every reuse of the barrier.
Synchronised == \A t, u \in Threads : left[t] <= entered[u]

\* Nobody sleeps inside an open barrier, nobody at the gate of a closed one.
NoLostWakeup ==
    \A t \in Threads :
        /\ pc[t] = "wait" => times_used = 1
        /\ pc[t] = "gate" => times_used = 0

\* Every thread gets through all its rounds.
AllRounds == <>Done
=============================================================================
