---------------------------- MODULE CriticalQueue ----------------------------
(***************************************************************************)
(* critical_concurrency/queue.c: the thread-safe FIFO queue, a singly      *)
(* linked list guarded by one mutex and ONE condition variable that        *)
(* producers (queue full) and consumers (queue empty) share.               *)
(*                                                                         *)
(* A thread that calls an operation competes for the mutex ("push",        *)
(* "pull"), and either finishes the operation inside one critical section  *)
(* or goes to sleep on the condition variable ("push_wait", "pull_wait").  *)
(* Every access to the queue's fields lies between lock and unlock, so one *)
(* critical section is one step.  A wake-up (broadcast, or a spurious one) *)
(* only puts the thread back among those that compete for the mutex: it    *)
(* must test its condition again.                                          *)
(***************************************************************************)
EXTENDS Integers, Sequences, FiniteSets

CONSTANTS
    Threads,    \* the threads that share the queue
    Data,       \* the pointers callers push
    Node,       \* addresses malloc can return for a queue_node
    NULL,       \* the null pointer
    MaxSize     \* max_size of queue_create: no limit when it is <= 0

ASSUME QueueAssumption ==
    /\ MaxSize \in Int
    /\ IsFiniteSet(Node)
    /\ NULL \notin Node
    /\ MaxSize > 0 => MaxSize <= Cardinality(Node)

VARIABLES
    alive,      \* the queue has not been destroyed
    head, tail, \* this->head, this->tail
    size,       \* this->size
    next, data, \* the fields of every node
    heap,       \* the nodes that are allocated
    pc,         \* where each thread is
    reg,        \* the thread's "data": argument of push, result of pull
    order       \* history: the allocated nodes in the order of the pushes

queue == <<alive, head, tail, size, next, data, heap, order>>
vars == <<alive, head, tail, size, next, data, heap, pc, reg, order>>

Ptr == Node \cup {NULL}
Value == Data \cup {NULL}

\* queue_create
Init ==
    /\ alive = TRUE
    /\ head = NULL
    /\ tail = NULL
    /\ size = 0
    /\ next = [n \in Node |-> NULL]
    /\ data = [n \in Node |-> NULL]
    /\ heap = {}
    /\ pc = [t \in Threads |-> "idle"]
    /\ reg = [t \in Threads |-> NULL]
    /\ order = << >>

-----------------------------------------------------------------------------
\* The two loop conditions under which an operation sleeps.
Full == MaxSize > 0 /\ size = MaxSize
Empty == size = 0

\* Mutant: pthread_cond_signal instead of pthread_cond_broadcast.
BroadcastSignal(t) ==
    LET sleeping == {u \in Threads : pc[u] \in {"push_wait", "pull_wait"}} IN
    IF sleeping = {} THEN pc' = [pc EXCEPT ![t] = "idle"]
    ELSE \E u \in sleeping :
           pc' = [pc EXCEPT ![t] = "idle",
                            ![u] = IF @ = "push_wait" THEN "push" ELSE "pull"]

\* pthread_cond_broadcast(&this->cv): every sleeper competes for the mutex.
Broadcast(t) ==
    pc' = [u \in Threads |->
             IF u = t THEN "idle"
             ELSE CASE pc[u] = "push_wait" -> "push"
                    [] pc[u] = "pull_wait" -> "pull"
                    [] OTHER -> pc[u]]

\* The bound of the model when the queue has no limit: no more pushes are
\* started than there are addresses for their nodes.
NodeBound ==
    MaxSize <= 0 =>
        size + Cardinality({t \in Threads : pc[t] = "push"}) < Cardinality(Node)

\* A thread enters queue_push(this, d) and asks for the mutex.
CallPush(t, d) ==
    /\ alive
    /\ pc[t] = "idle"
    /\ NodeBound
    /\ pc' = [pc EXCEPT ![t] = "push"]
    /\ reg' = [reg EXCEPT ![t] = d]
    /\ UNCHANGED queue

\* A thread enters queue_pull(this) and asks for the mutex.
CallPull(t) ==
    /\ alive
    /\ pc[t] = "idle"
    /\ pc' = [pc EXCEPT ![t] = "pull"]
    /\ UNCHANGED <<queue, reg>>

\* queue_push finds the queue full and sleeps.
PushSleeps(t) ==
    /\ pc[t] = "push"
    /\ Full
    /\ pc' = [pc EXCEPT ![t] = "push_wait"]
    /\ UNCHANGED <<queue, reg>>

\* queue_push appends a fresh node, wakes everybody and returns.
Push(t) ==
    /\ pc[t] = "push"
    /\ ~Full
    /\ \E n \in Node \ heap :
          /\ heap' = heap \cup {n}
          /\ data' = [data EXCEPT ![n] = reg[t]]
          /\ next' = IF tail = NULL
                       THEN [next EXCEPT ![n] = NULL]
                       ELSE [next EXCEPT ![n] = NULL, ![tail] = n]
          /\ head' = IF tail = NULL THEN n ELSE head
          /\ tail' = n
          /\ order' = Append(order, n)
    /\ size' = size + 1
    /\ Broadcast(t)
    /\ UNCHANGED <<alive, reg>>

\* queue_pull finds the queue empty and sleeps.
PullSleeps(t) ==
    /\ pc[t] = "pull"
    /\ Empty
    /\ pc' = [pc EXCEPT ![t] = "pull_wait"]
    /\ UNCHANGED <<queue, reg>>

\* Mutant: tail is not reset when the last node leaves.
PullKeepsTail(t) ==
    /\ pc[t] = "pull"
    /\ ~Empty
    /\ reg' = [reg EXCEPT ![t] = data[head]]
    /\ heap' = heap \ {head}
    /\ size' = size - 1
    /\ head' = IF size = 1 THEN NULL ELSE next[head]
    /\ order' = Tail(order)
    /\ Broadcast(t)
    /\ UNCHANGED <<alive, tail, next, data>>

\* Mutant: the data of the newest element is returned.
PullNewest(t) ==
    /\ pc[t] = "pull"
    /\ ~Empty
    /\ reg' = [reg EXCEPT ![t] = data[tail]]
    /\ heap' = heap \ {head}
    /\ size' = size - 1
    /\ head' = IF size = 1 THEN NULL ELSE next[head]
    /\ tail' = IF size = 1 THEN NULL ELSE tail
    /\ order' = Tail(order)
    /\ Broadcast(t)
    /\ UNCHANGED <<alive, next, data>>

\* queue_pull unlinks and frees the first node, wakes everybody and returns
\* the node's data.
Pull(t) ==
    /\ pc[t] = "pull"
    /\ ~Empty
    /\ reg' = [reg EXCEPT ![t] = data[head]]
    /\ heap' = heap \ {head}
    /\ size' = size - 1
    /\ head' = IF size = 1 THEN NULL ELSE next[head]
    /\ tail' = IF size = 1 THEN NULL ELSE tail
    /\ order' = Tail(order)
    /\ Broadcast(t)
    /\ UNCHANGED <<alive, next, data>>

\* POSIX lets pthread_cond_wait return without a broadcast.
SpuriousWakeup(t) ==
    /\ pc[t] \in {"push_wait", "pull_wait"}
    /\ pc' = [pc EXCEPT ![t] = IF @ = "push_wait" THEN "push" ELSE "pull"]
    /\ UNCHANGED <<queue, reg>>

\* Where queue_destroy is after i turns of its loop, which goes from head until it meets
\* tail.
walk[i \in 0 .. Cardinality(Node)] ==
    IF i = 0 THEN head
    ELSE IF walk[i - 1] \in {tail, NULL} THEN tail ELSE next[walk[i - 1]]

\* Mutant: the tail itself is not freed.
WalkStopsAtTail == {walk[i] : i \in 0 .. Cardinality(Node)} \ {NULL, tail}

\* The nodes queue_destroy frees, the tail last.  Freeing NULL does nothing.
Walk == {walk[i] : i \in 0 .. Cardinality(Node)} \ {NULL}

\* queue_destroy: the caller has to see to it that no thread is in the queue.
queue_destroy ==
    /\ alive
    /\ \A t \in Threads : pc[t] = "idle"
    /\ alive' = FALSE
    /\ heap' = heap \ Walk
    /\ UNCHANGED <<head, tail, size, next, data, order, pc, reg>>

-----------------------------------------------------------------------------
\* One critical section, or one trip to sleep, of a thread inside the queue.
Step(t) == PushSleeps(t) \/ Push(t) \/ PullSleeps(t) \/ Pull(t)

Next ==
    \/ \E t \in Threads :
          \/ \E d \in Value : CallPush(t, d)
          \/ CallPull(t)
          \/ Step(t)
          \/ SpuriousWakeup(t)
    \/ queue_destroy

Spec == Init /\ [][Next]_vars

-----------------------------------------------------------------------------
\* The variables of the queue and its threads have the types of the C fields.
TypeOK ==
    /\ alive \in BOOLEAN
    /\ head \in Ptr
    /\ tail \in Ptr
    /\ size \in Nat
    /\ next \in [Node -> Ptr]
    /\ data \in [Node -> Value]
    /\ heap \in SUBSET Node
    /\ pc \in [Threads -> {"idle", "push", "pull", "push_wait", "pull_wait"}]
    /\ reg \in [Threads -> Value]
    /\ order \in Seq(Node)

\* The linked list is sound: head and tail are the oldest and the newest node,
\* next leads from each node to the one pushed after it and from the newest to
\* NULL, size counts the nodes, and exactly the nodes of the list are
\* allocated (no leak, no link to a freed node), through every mixture of
\* queue_push and queue_pull, the empty queue included.
ListShape ==
    alive =>
        /\ size = Len(order)
        /\ order = << >> => head = NULL /\ tail = NULL
        /\ order # << >> =>
              /\ head = order[1]
              /\ tail = order[Len(order)]
              /\ next[tail] = NULL
        /\ \A i \in 1 .. Len(order) - 1 : next[order[i]] = order[i + 1]
        /\ \A i, j \in 1 .. Len(order) : order[i] = order[j] => i = j
        /\ heap = {order[i] : i \in 1 .. Len(order)}

\* No wake-up is lost although producers and consumers share one condition
\* variable: a thread that sleeps in queue_push does so because the queue is
\* full now, one that sleeps in queue_pull because it is empty now.
NoLostWakeup ==
    \A t \in Threads :
        /\ pc[t] = "push_wait" => Full
        /\ pc[t] = "pull_wait" => Empty

\* queue_destroy gives back every node, whatever was still in the queue.
NoLeak == ~alive => heap = {}

\* The queue implements the first-in first-out buffer of queue.h: the threads
\* see every element once, in the order of the pushes.  Once it is destroyed
\* the buffer keeps its last contents.
Fifo == INSTANCE BoundedFifo WITH
            fifo <- [i \in 1 .. Len(order) |-> data[order[i]]],
            pend <- [t \in Threads |-> CASE pc[t] = "push_wait" -> "push"
                                          [] pc[t] = "pull_wait" -> "pull"
                                          [] OTHER -> pc[t]]
FifoSpec == Fifo!Spec
=============================================================================
