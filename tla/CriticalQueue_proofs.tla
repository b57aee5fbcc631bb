------------------------ MODULE CriticalQueue_proofs ------------------------
(***************************************************************************)
(* Proofs about critical_concurrency/queue.c for any number of threads,    *)
(* any capacity and any supply of nodes.                                   *)
(***************************************************************************)
EXTENDS CriticalQueue, SequenceTheorems, FiniteSetTheorems, WellFoundedInduction, TLAPS

\* A thread inside the queue keeps it alive: the caller's obligation that
\* queue_destroy's guard states.
Quiet == ~alive => \A t \in Threads : pc[t] = "idle"

\* queue_push never overfills a queue with a positive max_size.
Capacity == MaxSize > 0 => size <= MaxSize

\* The inductive invariant.  Types alone are not inductive: the result of
\* queue_pull is data[head], which is typed only because head is a node of the
\* list whenever size is positive.
IInv == TypeOK /\ Quiet /\ Capacity /\ ListShape

LEMMA InitIInv == Init => IInv
  BY QueueAssumption DEF Init, IInv, TypeOK, Quiet, Capacity, ListShape, Ptr, Value

\* What Broadcast leaves behind.
LEMMA BroadcastFacts ==
  ASSUME TypeOK, NEW t \in Threads, Broadcast(t)
  PROVE  /\ pc' \in [Threads -> {"idle", "push", "pull"}]
         /\ \A u \in Threads : pc[u] = "idle" => pc'[u] = "idle"
  BY DEF Broadcast, TypeOK

LEMMA PushIInv ==
  ASSUME IInv, NEW t \in Threads, Push(t)
  PROVE  IInv'
<1> USE DEF IInv
<1>1. alive /\ alive' = alive
  BY DEF Push, Quiet
<1>2. PICK n \in Node \ heap :
        /\ heap' = heap \cup {n}
        /\ data' = [data EXCEPT ![n] = reg[t]]
        /\ next' = IF tail = NULL
                     THEN [next EXCEPT ![n] = NULL]
                     ELSE [next EXCEPT ![n] = NULL, ![tail] = n]
        /\ head' = IF tail = NULL THEN n ELSE head
        /\ tail' = n
        /\ order' = Append(order, n)
  BY DEF Push
<1>3. /\ order \in Seq(Node)
      /\ order' \in Seq(Node)
      /\ Len(order') = Len(order) + 1
      /\ \A i \in 1 .. Len(order) : order'[i] = order[i]
      /\ order'[Len(order) + 1] = n
      /\ Len(order) \in Nat
      /\ order' # << >>
  BY <1>2 DEF TypeOK
<1>4. /\ size = Len(order)
      /\ heap = {order[i] : i \in 1 .. Len(order)}
      /\ \A i \in 1 .. Len(order) : order[i] \in Node /\ order[i] # n
  BY <1>1, <1>2, <1>3 DEF ListShape, TypeOK
<1>5. tail = NULL <=> order = << >>
  BY <1>1, <1>3, QueueAssumption DEF ListShape
<1>6. TypeOK'
  <2>1. pc' \in [Threads -> {"idle", "push", "pull", "push_wait", "pull_wait"}]
    BY BroadcastFacts DEF Push
  <2>2. size' \in Nat
    BY DEF Push, TypeOK
  <2>3. next' \in [Node -> Ptr] /\ data' \in [Node -> Value]
    BY <1>2 DEF TypeOK, Ptr, Value
  <2>4. head' \in Ptr /\ tail' \in Ptr /\ heap' \in SUBSET Node
    BY <1>2 DEF TypeOK, Ptr
  <2> QED
    BY <1>3, <2>1, <2>2, <2>3, <2>4 DEF TypeOK, Push
<1>7. Quiet'
  BY <1>1 DEF Quiet
<1>8. Capacity'
  BY QueueAssumption DEF Capacity, Push, Full, TypeOK
<1>9. ListShape'
  <2>1. size' = Len(order')
    BY <1>3, <1>4 DEF Push
  <2>2. head' = order'[1] /\ tail' = order'[Len(order')]
    <3>1. CASE order = << >>
      BY <1>2, <1>3, <1>5, <3>1
    <3>2. CASE order # << >>
      BY <1>1, <1>2, <1>3, <1>5, <3>2 DEF ListShape
    <3> QED
      BY <3>1, <3>2
  <2>3. next'[tail'] = NULL
    <3>1. CASE tail = NULL
      BY <1>2, <3>1 DEF TypeOK
    <3>2. CASE tail # NULL
      <4>1. tail \in Node /\ tail # n
        BY <1>1, <1>3, <1>4, <1>5, <3>2 DEF ListShape
      <4> QED
        BY <1>2, <3>2, <4>1 DEF TypeOK
    <3> QED
      BY <3>1, <3>2
  <2>4. ASSUME NEW i \in 1 .. Len(order') - 1
        PROVE  next'[order'[i]] = order'[i + 1]
    <3>1. i \in 1 .. Len(order) /\ order # << >> /\ tail # NULL
      BY <1>3, <1>5
    <3>2. order'[i] = order[i] /\ order[i] \in Node /\ order[i] # n
      BY <1>3, <1>4, <3>1
    <3>3. tail = order[Len(order)] /\ tail \in Node
      BY <1>1, <1>4, <3>1, <1>3 DEF ListShape
    <3>4. CASE i = Len(order)
      BY <1>2, <1>3, <3>1, <3>2, <3>3, <3>4 DEF TypeOK
    <3>5. CASE i # Len(order)
      <4>1. i \in 1 .. Len(order) - 1 /\ i + 1 \in 1 .. Len(order)
        BY <3>1, <3>5, <1>3
      <4>2. order[i] # tail
        BY <1>1, <1>3, <3>1, <3>3, <3>5 DEF ListShape
      <4>3. next[order[i]] = order[i + 1]
        BY <1>1, <4>1 DEF ListShape
      <4> QED
        BY <1>2, <1>3, <3>1, <3>2, <4>1, <4>2, <4>3 DEF TypeOK
    <3> QED
      BY <3>4, <3>5
  <2>5. ASSUME NEW i \in 1 .. Len(order'), NEW j \in 1 .. Len(order'),
               order'[i] = order'[j]
        PROVE  i = j
    BY <1>1, <1>3, <1>4, <2>5 DEF ListShape
  <2>6. heap' = {order'[i] : i \in 1 .. Len(order')}
    BY <1>2, <1>3, <1>4
  <2> QED
    BY <1>3, <2>1, <2>2, <2>3, <2>4, <2>5, <2>6 DEF ListShape
<1> QED
  BY <1>6, <1>7, <1>8, <1>9

LEMMA PullIInv ==
  ASSUME IInv, NEW t \in Threads, Pull(t)
  PROVE  IInv'
<1> USE DEF IInv
<1>1. alive /\ alive' = alive /\ next' = next /\ data' = data
  BY DEF Pull, Quiet
<1>2. /\ order \in Seq(Node)
      /\ Len(order) \in Nat
      /\ size = Len(order)
      /\ order # << >>
      /\ Len(order) >= 1
      /\ head = order[1]
      /\ \A i \in 1 .. Len(order) : order[i] \in Node
      /\ head \in Node
  BY <1>1 DEF ListShape, TypeOK, Pull, Empty
<1>3. /\ order' = Tail(order)
      /\ order' \in Seq(Node)
      /\ Len(order') = Len(order) - 1
      /\ \A i \in 1 .. Len(order) - 1 : order'[i] = order[i + 1]
      /\ size' = Len(order')
  BY <1>2 DEF Pull
<1>4. /\ head' = IF size = 1 THEN NULL ELSE next[head]
      /\ tail' = IF size = 1 THEN NULL ELSE tail
      /\ heap' = heap \ {head}
      /\ heap = {order[i] : i \in 1 .. Len(order)}
  BY <1>1 DEF Pull, ListShape
<1>5. order' = << >> <=> size = 1
  <2>1. order' = << >> <=> Len(order') = 0
    BY <1>3, EmptySeq
  <2> QED
    BY <1>2, <1>3, <2>1
<1>6. TypeOK'
  <2>1. pc' \in [Threads -> {"idle", "push", "pull", "push_wait", "pull_wait"}]
    BY BroadcastFacts DEF Pull
  <2>2. reg' \in [Threads -> Value]
    BY <1>2 DEF Pull, TypeOK
  <2>3. size' \in Nat
    BY <1>2, <1>3
  <2>4. head' \in Ptr /\ tail' \in Ptr /\ heap' \in SUBSET Node
    BY <1>2, <1>4 DEF TypeOK, Ptr
  <2> QED
    BY <1>1, <1>3, <2>1, <2>2, <2>3, <2>4 DEF TypeOK
<1>7. Quiet'
  BY <1>1 DEF Quiet
<1>8. Capacity'
  BY QueueAssumption, <1>2, <1>3 DEF Capacity
<1>9. ListShape'
  <2>1. ASSUME order' # << >>
        PROVE  head' = order'[1] /\ tail' = order'[Len(order')] /\ next'[tail'] = NULL
    <3>1. size # 1 /\ Len(order) > 1
      BY <1>2, <1>5, <2>1
    <3>2. next[order[1]] = order[2] /\ tail = order[Len(order)] /\ next[tail] = NULL
      BY <1>1, <1>2, <3>1 DEF ListShape
    <3>3. order'[1] = order[2] /\ order'[Len(order')] = order[Len(order)]
      BY <1>2, <1>3, <3>1
    <3> QED
      BY <1>1, <1>2, <1>4, <3>1, <3>2, <3>3
  <2>2. ASSUME order' = << >>
        PROVE  head' = NULL /\ tail' = NULL
    BY <1>4, <1>5, <2>2
  <2>3. ASSUME NEW i \in 1 .. Len(order') - 1
        PROVE  next'[order'[i]] = order'[i + 1]
    <3>1. /\ i + 1 \in 1 .. Len(order) - 1
          /\ order'[i] = order[i + 1]
          /\ order'[i + 1] = order[i + 1 + 1]
      BY <1>2, <1>3
    <3> QED
      BY <1>1, <3>1 DEF ListShape
  <2>4. ASSUME NEW i \in 1 .. Len(order'), NEW j \in 1 .. Len(order'),
               order'[i] = order'[j]
        PROVE  i = j
    <3>1. /\ i + 1 \in 1 .. Len(order) /\ j + 1 \in 1 .. Len(order)
          /\ order[i + 1] = order[j + 1]
      BY <1>2, <1>3, <2>4
    <3>2. i + 1 = j + 1
      BY <1>1, <3>1 DEF ListShape
    <3> QED
      BY <3>2
  <2>5. heap' = {order'[i] : i \in 1 .. Len(order')}
    <3>1. ASSUME NEW n \in heap'
          PROVE  n \in {order'[i] : i \in 1 .. Len(order')}
      <4>1. PICK k \in 1 .. Len(order) : n = order[k]
        BY <1>4
      <4>2. k # 1
        BY <1>2, <1>4, <4>1
      <4>3. k - 1 \in 1 .. Len(order') /\ order'[k - 1] = n
        BY <1>2, <1>3, <4>1, <4>2
      <4> QED
        BY <4>3
    <3>2. ASSUME NEW i \in 1 .. Len(order')
          PROVE  order'[i] \in heap'
      <4>1. i + 1 \in 1 .. Len(order) /\ order'[i] = order[i + 1]
        BY <1>2, <1>3
      <4>2. order[i + 1] # order[1]
        <5>1. 1 \in 1 .. Len(order) /\ i + 1 # 1
          BY <1>2
        <5> QED
          BY <1>1, <4>1, <5>1 DEF ListShape
      <4> QED
        BY <1>2, <1>4, <4>1, <4>2
    <3> QED
      BY <3>1, <3>2
  <2> QED
    BY <1>3, <2>1, <2>2, <2>3, <2>4, <2>5 DEF ListShape
<1> QED
  BY <1>6, <1>7, <1>8, <1>9

LEMMA NextIInv == IInv /\ [Next]_vars => IInv'
<1> SUFFICES ASSUME IInv, [Next]_vars
             PROVE  IInv'
  OBVIOUS
<1>1. ASSUME NEW t \in Threads, NEW d \in Value, CallPush(t, d)
      PROVE  IInv'
  BY <1>1 DEF CallPush, queue, IInv, TypeOK, Quiet, Capacity, ListShape
<1>2. ASSUME NEW t \in Threads, CallPull(t)
      PROVE  IInv'
  BY <1>2 DEF CallPull, queue, IInv, TypeOK, Quiet, Capacity, ListShape
<1>3. ASSUME NEW t \in Threads, PushSleeps(t) \/ PullSleeps(t)
      PROVE  IInv'
  <2>1. alive /\ UNCHANGED <<queue, reg>>
    BY <1>3 DEF PushSleeps, PullSleeps, IInv, Quiet
  <2>2. pc' \in [Threads -> {"idle", "push", "pull", "push_wait", "pull_wait"}]
    BY <1>3 DEF PushSleeps, PullSleeps, IInv, TypeOK
  <2> QED
    BY <2>1, <2>2 DEF queue, IInv, TypeOK, Quiet, Capacity, ListShape
<1>4. ASSUME NEW t \in Threads, Push(t)
      PROVE  IInv'
  BY <1>4, PushIInv
<1>5. ASSUME NEW t \in Threads, Pull(t)
      PROVE  IInv'
  BY <1>5, PullIInv
<1>6. ASSUME NEW t \in Threads, SpuriousWakeup(t)
      PROVE  IInv'
  BY <1>6 DEF SpuriousWakeup, queue, IInv, TypeOK, Quiet, Capacity, ListShape
<1>7. CASE queue_destroy
  BY <1>7 DEF queue_destroy, IInv, TypeOK, Quiet, Capacity, ListShape
<1>8. CASE UNCHANGED vars
  BY <1>8 DEF vars, IInv, TypeOK, Quiet, Capacity, ListShape
<1> QED
  BY <1>1, <1>2, <1>3, <1>4, <1>5, <1>6, <1>7, <1>8 DEF Next, Step

THEOREM Invariance == Spec => []IInv
<1>1. IInv /\ [Next]_vars => IInv'
  BY NextIInv
<1> QED
  BY InitIInv, <1>1, PTL DEF Spec

\* The state of queue.c always has the types of its C declarations.
THEOREM TypeCorrect == Spec => []TypeOK
<1>1. IInv => TypeOK
  BY DEF IInv
<1> QED
  BY Invariance, <1>1, PTL

\* queue_push and queue_pull keep the linked list sound and free exactly what
\* they unlink.
THEOREM ListSound == Spec => []ListShape
<1>1. IInv => ListShape
  BY DEF IInv
<1> QED
  BY Invariance, <1>1, PTL

\* With pthread_cond_broadcast on one condition variable no wake-up is lost.
THEOREM NoWakeupLost == Spec => []NoLostWakeup
<1>1. Init => NoLostWakeup
  BY DEF Init, NoLostWakeup
<1>2. IInv /\ NoLostWakeup /\ [Next]_vars => NoLostWakeup'
  <2> SUFFICES ASSUME IInv, NoLostWakeup, [Next]_vars
               PROVE  NoLostWakeup'
    OBVIOUS
  <2>1. ASSUME NEW t \in Threads, NEW d \in Value, CallPush(t, d) \/ CallPull(t)
        PROVE  NoLostWakeup'
    BY <2>1 DEF CallPush, CallPull, queue, NoLostWakeup, Full, Empty, IInv, TypeOK
  <2>2. ASSUME NEW t \in Threads, PushSleeps(t) \/ PullSleeps(t) \/ SpuriousWakeup(t)
        PROVE  NoLostWakeup'
    BY <2>2 DEF PushSleeps, PullSleeps, SpuriousWakeup, queue, NoLostWakeup, Full,
                Empty, IInv, TypeOK
  <2>3. ASSUME NEW t \in Threads, Push(t) \/ Pull(t)
        PROVE  NoLostWakeup'
    <3>1. pc' \in [Threads -> {"idle", "push", "pull"}]
      BY <2>3, BroadcastFacts DEF Push, Pull, IInv
    <3> QED
      BY <3>1 DEF NoLostWakeup
  <2>4. CASE queue_destroy
    BY <2>4 DEF queue_destroy, NoLostWakeup
  <2>5. CASE UNCHANGED vars
    BY <2>5 DEF vars, NoLostWakeup, Full, Empty
  <2>6. Value # {}
    BY DEF Value
  <2> QED
    BY <2>1, <2>2, <2>3, <2>4, <2>5, <2>6 DEF Next, Step
<1> QED
  BY Invariance, <1>1, <1>2, PTL DEF Spec

-----------------------------------------------------------------------------
\* Every step of a thread inside the queue is a step of the FIFO buffer, or
\* invisible to it.
LEMMA FifoStep == IInv /\ [Next]_vars => [Fifo!Next]_(Fifo!vars)
<1> DEFINE f == [i \in 1 .. Len(order) |-> data[order[i]]]
           p == [t \in Threads |-> CASE pc[t] = "push_wait" -> "push"
                                     [] pc[t] = "pull_wait" -> "pull"
                                     [] OTHER -> pc[t]]
<1> SUFFICES ASSUME IInv, [Next]_vars
             PROVE  [Fifo!Next]_(Fifo!vars)
  OBVIOUS
<1>0. UNCHANGED <<order, data>> => f' = f
  OBVIOUS
<1>1. ASSUME NEW t \in Threads, NEW d \in Value, CallPush(t, d)
      PROVE  Fifo!Invoke(t)
  <2>1. f' = f
    BY <1>0, <1>1 DEF CallPush, queue
  <2>2. p[t] = "idle" /\ p' = [p EXCEPT ![t] = "push"]
    BY <1>1 DEF CallPush, IInv, TypeOK
  <2>3. reg' = [reg EXCEPT ![t] = d] /\ d \in Data \cup {NULL}
    BY <1>1 DEF CallPush, Value
  <2> QED
    BY <2>1, <2>2, <2>3 DEF Fifo!Invoke
<1>2. ASSUME NEW t \in Threads, CallPull(t)
      PROVE  Fifo!Invoke(t)
  <2>1. f' = f
    BY <1>0, <1>2 DEF CallPull, queue
  <2>2. p[t] = "idle" /\ p' = [p EXCEPT ![t] = "pull"]
    BY <1>2 DEF CallPull, IInv, TypeOK
  <2> QED
    BY <1>2, <2>1, <2>2 DEF Fifo!Invoke, CallPull
<1>3. ASSUME NEW t \in Threads, PushSleeps(t) \/ PullSleeps(t) \/ SpuriousWakeup(t)
      PROVE  UNCHANGED Fifo!vars
  <2>1. f' = f
    BY <1>0, <1>3 DEF PushSleeps, PullSleeps, SpuriousWakeup, queue
  <2>2. p' = p
    BY <1>3 DEF PushSleeps, PullSleeps, SpuriousWakeup, IInv, TypeOK
  <2> QED
    BY <1>3, <2>1, <2>2 DEF PushSleeps, PullSleeps, SpuriousWakeup, Fifo!vars
<1>4. ASSUME NEW t \in Threads, Push(t)
      PROVE  Fifo!Push(t)
  <2>1. PICK n \in Node \ heap :
          /\ data' = [data EXCEPT ![n] = reg[t]]
          /\ order' = Append(order, n)
    BY <1>4 DEF Push
  <2>2. /\ alive
        /\ order \in Seq(Node)
        /\ size = Len(order)
        /\ Len(order) \in Nat
        /\ \A i \in 1 .. Len(order) : order[i] \in Node /\ order[i] # n
    BY <1>4, <2>1 DEF Push, IInv, TypeOK, Quiet, ListShape
  <2>3. /\ Len(order') = Len(order) + 1
        /\ \A i \in 1 .. Len(order) : order'[i] = order[i]
        /\ order'[Len(order) + 1] = n
    BY <2>1, <2>2
  <2>4. f' = Append(f, reg[t])
    <3>1. /\ f \in Seq(Value) /\ Len(f) = Len(order)
      BY <2>2 DEF IInv, TypeOK
    <3>2. reg[t] \in Value
      BY DEF IInv, TypeOK
    <3>3. \A i \in 1 .. Len(order) : data'[order'[i]] = data[order[i]]
      BY <2>1, <2>2, <2>3 DEF IInv, TypeOK
    <3>4. data'[order'[Len(order) + 1]] = reg[t]
      BY <2>1, <2>3 DEF IInv, TypeOK
    <3>5. f' = [i \in 1 .. Len(order) + 1 |-> data'[order'[i]]]
      BY <2>3
    <3>6. Append(f, reg[t]) = [i \in 1 .. Len(order) + 1 |->
                                 IF i = Len(order) + 1 THEN reg[t] ELSE f[i]]
      BY <3>1, <3>2
    <3> QED
      BY <2>2, <3>3, <3>4, <3>5, <3>6
  <2>5. p[t] = "push" /\ p' = [p EXCEPT ![t] = "idle"]
    BY <1>4 DEF Push, Broadcast, IInv, TypeOK
  <2>6. MaxSize > 0 => Len(f) < MaxSize
    BY <1>4, <2>2, QueueAssumption DEF Push, Full, IInv, Capacity
  <2> QED
    BY <1>4, <2>4, <2>5, <2>6 DEF Fifo!Push, Push
<1>5. ASSUME NEW t \in Threads, Pull(t)
      PROVE  Fifo!Pull(t)
  <2>1. /\ order \in Seq(Node)
        /\ Len(order) \in Nat \ {0}
        /\ order # << >>
        /\ head = order[1]
        /\ \A i \in 1 .. Len(order) : order[i] \in Node
        /\ data' = data
        /\ order' = Tail(order)
    BY <1>5 DEF Pull, Empty, IInv, TypeOK, Quiet, ListShape
  <2>2. f \in Seq(Value) /\ Len(f) = Len(order) /\ f # << >> /\ Head(f) = data[head]
    BY <2>1 DEF IInv, TypeOK
  <2>3. f' = Tail(f)
    <3>1. /\ Len(order') = Len(order) - 1
          /\ \A i \in 1 .. Len(order) - 1 : order'[i] = order[i + 1]
      BY <2>1
    <3>2. Tail(f) = [i \in 1 .. Len(order) - 1 |-> f[i + 1]]
      BY <2>1, <2>2
    <3> QED
      BY <2>1, <3>1, <3>2
  <2>4. p[t] = "pull" /\ p' = [p EXCEPT ![t] = "idle"]
    BY <1>5 DEF Pull, Broadcast, IInv, TypeOK
  <2> QED
    BY <1>5, <2>2, <2>3, <2>4 DEF Fifo!Pull, Pull
<1>6. CASE queue_destroy
  <2>1. f' = f
    BY <1>0, <1>6 DEF queue_destroy
  <2>2. p' = p /\ reg' = reg
    BY <1>6 DEF queue_destroy
  <2> QED
    BY <2>1, <2>2 DEF Fifo!vars
<1>7. CASE UNCHANGED vars
  <2>1. f' = f
    BY <1>0, <1>7 DEF vars
  <2>2. p' = p /\ reg' = reg
    BY <1>7 DEF vars
  <2> QED
    BY <2>1, <2>2 DEF Fifo!vars
<1> QED
  BY <1>1, <1>2, <1>3, <1>4, <1>5, <1>6, <1>7 DEF Next, Step, Fifo!Next

\* queue.c implements the FIFO buffer that queue.h describes: under any
\* interleaving each call takes effect at one instant, in FIFO order.
THEOREM Refinement == Spec => FifoSpec
<1>1. Init => Fifo!Init
  BY DEF Init, Fifo!Init
<1>2. IInv /\ [Next]_vars => [Fifo!Next]_(Fifo!vars)
  BY FifoStep
<1> QED
  BY Invariance, <1>1, <1>2, PTL DEF Spec, FifoSpec, Fifo!Spec

-----------------------------------------------------------------------------
(* queue_destroy frees every node.                                           *)

Places == 0 .. Cardinality(Node)

\* What walk is, by its definition: some function with this equation.
WalkEquation(f) ==
    f = [i \in Places |->
            IF i = 0 THEN head
            ELSE IF f[i - 1] \in {tail, NULL} THEN tail ELSE next[f[i - 1]]]

\* Where the walk is when the list is sound: at its nodes in order, then at the tail.
Visits(i) == IF order = << >> THEN NULL ELSE IF i < Len(order) THEN order[i + 1] ELSE tail

LEMMA VisitsFollow ==
  ASSUME IInv, alive, NEW i \in Nat \ {0}
  PROVE  Visits(i) = IF Visits(i - 1) \in {tail, NULL} THEN tail ELSE next[Visits(i - 1)]
<1>1. /\ order \in Seq(Node) /\ Len(order) \in Nat
      /\ order = << >> => tail = NULL
      /\ order # << >> => tail = order[Len(order)]
      /\ \A k \in 1 .. Len(order) - 1 : next[order[k]] = order[k + 1]
      /\ \A k, j \in 1 .. Len(order) : order[k] = order[j] => k = j
  BY DEF IInv, TypeOK, ListShape
<1>2. CASE order = << >>
  BY <1>1, <1>2 DEF Visits
<1>3. CASE order # << >> /\ i < Len(order)
  <2>1. i \in 1 .. Len(order) - 1 /\ Visits(i - 1) = order[i] /\ Visits(i) = order[i + 1]
    BY <1>1, <1>3 DEF Visits
  <2>2. order[i] \in Node /\ order[i] # NULL
    BY <1>1, <2>1, QueueAssumption
  <2>3. order[i] # tail
    BY <1>1, <1>3, <2>1
  <2> QED  BY <1>1, <2>1, <2>2, <2>3
<1>4. CASE order # << >> /\ ~(i < Len(order))
  <2>1. Len(order) > 0
    BY <1>1, <1>4
  <2>2. Visits(i - 1) = tail
    BY <1>1, <1>4, <2>1 DEF Visits
  <2> QED  BY <1>4, <2>2 DEF Visits
<1> QED  BY <1>2, <1>3, <1>4

\* The walk meets the nodes in order.
LEMMA WalkVisits ==
  ASSUME IInv, alive
  PROVE  \A i \in Places : walk[i] = Visits(i)
<1>0. Cardinality(Node) \in Nat /\ Places \subseteq Nat
  BY QueueAssumption, FS_CardinalityType DEF Places
<1>1. Visits(0) = head
  <2>1. Len(order) \in Nat /\ order \in Seq(Node)
    BY DEF IInv, TypeOK
  <2>2. order # << >> => Len(order) > 0
    BY <2>1
  <2> QED  BY <2>1, <2>2 DEF IInv, ListShape, Visits
<1>2. \A i \in Nat \ {0} :
         Visits(i) = IF Visits(i - 1) \in {tail, NULL} THEN tail ELSE next[Visits(i - 1)]
  BY VisitsFollow
<1>3. WalkEquation([i \in Places |-> Visits(i)])
  <2> DEFINE v == [i \in Places |-> Visits(i)]
  <2>1. \A i \in Places : v[i] = Visits(i)
    OBVIOUS
  <2> HIDE DEF v
  <2>2. \A i \in Places : i # 0 => i - 1 \in Places /\ i \in Nat \ {0}
    BY <1>0 DEF Places
  <2>3. \A i \in Places :
           v[i] = IF i = 0 THEN head
                  ELSE IF v[i - 1] \in {tail, NULL} THEN tail ELSE next[v[i - 1]]
    BY <1>1, <1>2, <2>1, <2>2
  <2>4. v = [i \in Places |-> v[i]]
    BY DEF v
  <2>5. v = [i \in Places |->
               IF i = 0 THEN head
               ELSE IF v[i - 1] \in {tail, NULL} THEN tail ELSE next[v[i - 1]]]
    BY <2>3, <2>4
  <2>6. WalkEquation(v)
    BY <2>5 DEF WalkEquation
  <2> QED  BY <2>6 DEF v
<1>4. WalkEquation(walk)
  <2>1. \E f : WalkEquation(f)
    BY <1>3
  <2> QED  BY <2>1, Zenon DEF walk, WalkEquation, Places
<1>5. \A i \in Places :
         walk[i] = IF i = 0 THEN head
                   ELSE IF walk[i - 1] \in {tail, NULL} THEN tail ELSE next[walk[i - 1]]
  BY <1>4 DEF WalkEquation
<1> DEFINE Bad == {i \in Places : walk[i] # Visits(i)}
<1> SUFFICES ASSUME Bad # {} PROVE FALSE
  OBVIOUS
<1>6. Bad \subseteq Nat
  BY <1>0
<1>7. PICK i \in Bad : \A j \in Bad : ~(<<j, i>> \in OpToRel(<, Nat))
  BY <1>6, WFMin, NatLessThanWellFounded
<1>8. \A j \in Bad : ~(j < i)
  BY <1>6, <1>7, Zenon DEF OpToRel
<1>9. CASE i = 0
  BY <1>1, <1>5, <1>9
<1>10. CASE i # 0
  <2>1. i \in Nat \ {0} /\ i - 1 \in Places /\ i - 1 < i
    BY <1>0, <1>10 DEF Places
  <2>2. walk[i - 1] = Visits(i - 1)
    BY <1>8, <2>1
  <2> QED  BY <1>2, <1>5, <1>10, <2>1, <2>2
<1> QED  BY <1>9, <1>10

\* A list without repetition is no longer than there are nodes, so the walk sees it all.
LEMMA WalkFreesAll ==
  ASSUME IInv, alive
  PROVE  heap \subseteq Walk
<1>1. /\ order \in Seq(Node) /\ Len(order) \in Nat /\ order \in [1 .. Len(order) -> Node]
      /\ \A k, j \in 1 .. Len(order) : order[k] = order[j] => k = j
      /\ heap = {order[k] : k \in 1 .. Len(order)}
  BY DEF IInv, TypeOK, ListShape
<1>2. IsFiniteSet(1 .. Len(order)) /\ Cardinality(1 .. Len(order)) = Len(order)
  BY <1>1, FS_Interval
<1>3. Cardinality(Node) \in Nat
  BY QueueAssumption, FS_CardinalityType
<1>4. Len(order) <= Cardinality(Node)
  <2>1. Cardinality(Node) < Cardinality(1 .. Len(order)) =>
          \E k, j \in 1 .. Len(order) : k # j /\ order[k] = order[j]
    BY <1>1, <1>2, QueueAssumption, FS_PigeonHole
  <2> QED  BY <1>1, <1>2, <1>3, <2>1
<1>5. ASSUME NEW k \in 1 .. Len(order) PROVE order[k] \in Walk
  <2>1. k - 1 \in Places /\ k - 1 < Len(order) /\ order # << >> /\ (k - 1) + 1 = k
    BY <1>1, <1>3, <1>4 DEF Places
  <2>2. walk[k - 1] = order[k]
    BY <2>1, WalkVisits DEF Visits
  <2>3. order[k] # NULL
    BY <1>1, QueueAssumption
  <2> QED  BY <2>1, <2>2, <2>3 DEF Walk, Places
<1> QED  BY <1>1, <1>5

\* queue.c:51-63: whatever is still in the queue, queue_destroy, which stops at the tail
\* and not at a null pointer, gives every node back, and nobody allocates one after it.
THEOREM DestroyFreesAll == Spec => []NoLeak
<1>1. Init => NoLeak
  BY DEF Init, NoLeak
<1>2. IInv /\ NoLeak /\ [Next]_vars => NoLeak'
  <2> SUFFICES ASSUME IInv, NoLeak, [Next]_vars PROVE NoLeak'
    OBVIOUS
  <2>1. CASE queue_destroy
    <3>1. heap' = heap \ Walk /\ heap \subseteq Walk
      BY <2>1, WalkFreesAll DEF queue_destroy
    <3> QED  BY <3>1 DEF NoLeak
  <2>2. CASE UNCHANGED vars
    BY <2>2 DEF vars, NoLeak
  <2>3. ASSUME NEW t \in Threads, Push(t) \/ Pull(t) PROVE NoLeak'
    BY <2>3 DEF IInv, Quiet, Push, Pull, NoLeak
  <2>4. ASSUME NEW t \in Threads,
               \/ \E d \in Value : CallPush(t, d)
               \/ CallPull(t) \/ PushSleeps(t) \/ PullSleeps(t) \/ SpuriousWakeup(t)
        PROVE  NoLeak'
    BY <2>4 DEF CallPush, CallPull, PushSleeps, PullSleeps, SpuriousWakeup, queue, NoLeak
  <2> QED  BY <2>1, <2>2, <2>3, <2>4 DEF Next, Step
<1> QED  BY <1>1, <1>2, Invariance, PTL DEF Spec
=============================================================================
