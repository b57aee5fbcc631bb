------------------------------ MODULE Semamore ------------------------------
(***************************************************************************)
(* critical_concurrency/semamore.c: a counting semaphore that also blocks  *)
(* at a maximum.  semm_wait and semm_post sleep on the same condition      *)
(* variable and both broadcast, so a critical section is one step and a    *)
(* wake-up only lets a thread test its condition again.                    *)
(***************************************************************************)
EXTENDS Integers, FiniteSets

CONSTANTS
    Threads,
    Posters,        \* the threads that call semm_post; the others semm_wait
    Calls,          \* how many calls each thread makes
    InitVal, MaxVal \* the arguments of semm_init

\* semamore.h: max_val is not 0.
SemamoreAssumption ==
    /\ Posters \subseteq Threads
    /\ Calls \in Nat
    /\ MaxVal \in Nat \ {0}
    /\ InitVal \in 0 .. MaxVal

VARIABLES
    value,  \* s->value
    pc,     \* where each thread is
    left    \* calls each thread has still to make

vars == <<value, pc, left>>

\* semm_init
Init ==
    /\ value = InitVal
    /\ pc = [t \in Threads |-> "idle"]
    /\ left = [t \in Threads |-> Calls]

Call(t) ==
    /\ pc[t] = "idle"
    /\ left[t] > 0
    /\ left' = [left EXCEPT ![t] = @ - 1]
    /\ pc' = [pc EXCEPT ![t] = "lock"]
    /\ UNCHANGED value

\* Mutant: only one sleeper is woken.
BroadcastSignal(t) ==
    LET sleeping == {u \in Threads : pc[u] = "asleep"} IN
    IF sleeping = {} THEN pc' = [pc EXCEPT ![t] = "idle"]
    ELSE \E u \in sleeping : pc' = [pc EXCEPT ![t] = "idle", ![u] = "lock"]

\* pthread_cond_broadcast, unlock, return.
Broadcast(t) ==
    pc' = [u \in Threads |-> IF u = t THEN "idle"
                             ELSE IF pc[u] = "asleep" THEN "lock" ELSE pc[u]]

\* The condition of the while loop in semm_post, in semm_wait.
Blocked(t) == IF t \in Posters THEN value = MaxVal ELSE value = 0

Sleep(t) ==
    /\ pc[t] = "lock"
    /\ Blocked(t)
    /\ pc' = [pc EXCEPT ![t] = "asleep"]
    /\ UNCHANGED <<value, left>>

semm_wait(t) ==
    /\ t \notin Posters
    /\ pc[t] = "lock"
    /\ ~Blocked(t)
    /\ value' = value - 1
    /\ Broadcast(t)
    /\ UNCHANGED left

semm_post(t) ==
    /\ t \in Posters
    /\ pc[t] = "lock"
    /\ ~Blocked(t)
    /\ value' = value + 1
    /\ Broadcast(t)
    /\ UNCHANGED left

SpuriousWakeup(t) ==
    /\ pc[t] = "asleep"
    /\ pc' = [pc EXCEPT ![t] = "lock"]
    /\ UNCHANGED <<value, left>>

Done == \A t \in Threads : pc[t] = "idle" /\ left[t] = 0

Step(t) == Call(t) \/ Sleep(t) \/ semm_wait(t) \/ semm_post(t)

Next ==
    \/ \E t \in Threads : Step(t) \/ SpuriousWakeup(t)
    \/ Done /\ UNCHANGED vars

Spec == Init /\ [][Next]_vars /\ \A t \in Threads : WF_vars(Step(t))

-----------------------------------------------------------------------------
\* The semaphore never goes below 0 nor above max_val, however semm_wait and
\* semm_post interleave and whoever is woken first.
TypeOK ==
    /\ value \in 0 .. MaxVal
    /\ pc \in [Threads -> {"idle", "lock", "asleep"}]
    /\ left \in [Threads -> 0 .. Calls]

\* A thread sleeps in semm_wait (semm_post) only while the value is 0
\* (max_val), although both kinds share the condition variable.
NoLostWakeup == \A t \in Threads : pc[t] = "asleep" => Blocked(t)

\* When the calls balance out, every semm_wait and semm_post returns.
AllReturn == <>Done
=============================================================================
