---------------------------- MODULE QueueWorkload ----------------------------
(***************************************************************************)
(* The way critical_concurrency/queue_test.c drives the queue: threads     *)
(* that only push or only pull a fixed number of elements, as many pulls   *)
(* as pushes and elements left over for queue_destroy, which the main      *)
(* thread calls after it has joined them.  Used for liveness.              *)
(***************************************************************************)
EXTENDS CriticalQueue

CONSTANTS
    Producers,      \* the threads that push; the others pull
    Pushes, Pulls   \* how many calls each producer, each consumer makes

ASSUME WorkloadAssumption ==
    /\ Producers \subseteq Threads
    /\ Pushes \in Nat /\ Pulls \in Nat
    \* every pull finds an element, every push finds room
    /\ Cardinality(Threads \ Producers) * Pulls <= Cardinality(Producers) * Pushes
    /\ MaxSize > 0 =>
         Cardinality(Producers) * Pushes - Cardinality(Threads \ Producers) * Pulls
            <= MaxSize

VARIABLE left       \* calls each thread has still to make

wvars == <<vars, left>>

WInit ==
    /\ Init
    /\ left = [t \in Threads |-> IF t \in Producers THEN Pushes ELSE Pulls]

\* push(): the thread function of a producer.
Produce(t) ==
    /\ t \in Producers
    /\ left[t] > 0
    /\ left' = [left EXCEPT ![t] = @ - 1]
    /\ \E d \in Data : CallPush(t, d)

\* pull(): the thread function of a consumer.
Consume(t) ==
    /\ t \notin Producers
    /\ left[t] > 0
    /\ left' = [left EXCEPT ![t] = @ - 1]
    /\ CallPull(t)

\* pthread_join of every thread, then queue_destroy.
Finish ==
    /\ \A t \in Threads : left[t] = 0
    /\ queue_destroy
    /\ UNCHANGED left

ThreadStep(t) == Produce(t) \/ Consume(t) \/ (Step(t) /\ UNCHANGED left)

WNext ==
    \/ \E t \in Threads : ThreadStep(t)
    \/ \E t \in Threads : SpuriousWakeup(t) /\ UNCHANGED left
    \/ Finish
    \/ ~alive /\ UNCHANGED wvars

\* The kernel schedules every runnable thread again and again; nothing is
\* assumed about who gets the mutex, nor about spurious wake-ups.
WSpec ==
    /\ WInit /\ [][WNext]_wvars
    /\ \A t \in Threads : WF_wvars(ThreadStep(t))
    /\ WF_wvars(Finish)

-----------------------------------------------------------------------------
\* Every push and every pull of a balanced workload returns and the main thread
\* reaches queue_destroy: no call blocks for ever in pthread_cond_wait.
AllReturn == <>(~alive)
=============================================================================
