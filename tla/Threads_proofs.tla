--------------------------- MODULE Threads_proofs ---------------------------
(***************************************************************************)
(* Proofs about the threads of module SyncPrimitives and others: the       *)
(* barrier for every number of threads and of rounds, the mutexes of       *)
(* libdrm, the semamore, the rendezvous, par_reduce for every list, the    *)
(* table of thread statuses, the workers of parallel_make, and the reports *)
(* of password_cracker's second version.                                   *)
(***************************************************************************)
EXTENDS SyncPrimitives, ParMake, Cracker2, Sequences, FiniteSetTheorems, SequenceTheorems,
        WellFoundedInduction, TLAPS

Shape ==
    /\ count \in Nat
    /\ times_used \in {0, 1}
    /\ pc \in [Threads -> {"out", "arrive", "gate", "wait", "woken"}]
    /\ entered \in [Threads -> Nat]
    /\ left \in [Threads -> Nat]

\* The threads of the current round that are past the gate and have not left.
Inside == {t \in Threads : pc[t] \in {"wait", "woken"}}

\* The field count is the number of threads inside.
Counted == count = Cardinality(Inside)

\* A call that has not returned is the one by which entered is ahead of left.
OneAhead == \A t \in Threads : entered[t] = left[t] + (IF pc[t] = "out" THEN 0 ELSE 1)

\* A closed barrier collects threads of one round, and not yet all of them.
Collecting == times_used = 1 => count < N /\ \A t, u \in Threads : left[t] = left[u]

\* An open barrier releases them: those outside are exactly one round ahead.
Releasing ==
    times_used = 0 =>
        /\ \A t, u \in Inside : left[t] = left[u]
        /\ \A t, u \in Threads \ Inside : left[t] = left[u]
        /\ \A t \in Inside, u \in Threads \ Inside : left[u] = left[t] + 1

\* The inductive invariant: that rounds never mix rests on count being exact, and on
\* which side of the opening each thread is.
IInv == Shape /\ Counted /\ OneAhead /\ Collecting /\ Releasing /\ NoLostWakeup

LEMMA InsideFinite ==
  ASSUME BarrierAssumption
  PROVE  /\ IsFiniteSet(Inside) /\ N \in Nat
         /\ Cardinality(Inside) \in Nat /\ Cardinality(Inside) <= N
  BY FS_Subset, FS_CardinalityType DEF BarrierAssumption, Inside, N

LEMMA InitIInv == ASSUME BarrierAssumption PROVE Init => IInv
<1> SUFFICES ASSUME Init PROVE IInv
  OBVIOUS
<1> USE DEF Init
<1>1. Inside = {}
  BY DEF Inside
<1>2. Counted
  BY <1>1, FS_EmptySet DEF Counted
<1>3. N \in Nat /\ N > 0
  BY InsideFinite DEF BarrierAssumption
<1> QED
  BY <1>2, <1>3 DEF IInv, Shape, OneAhead, Collecting, Releasing, NoLostWakeup

\* A step that moves no thread across the gate or out of the barrier.
LEMMA SameInside ==
  ASSUME BarrierAssumption, IInv, Inside' = Inside, Shape', OneAhead', NoLostWakeup',
         UNCHANGED <<count, times_used, left>>
  PROVE  IInv'
  BY DEF IInv, Counted, Collecting, Releasing, N

LEMMA CallIInv ==
  ASSUME BarrierAssumption, IInv, NEW t \in Threads,
         Call(t) \/ WaitAtGate(t) \/ SleepsAgain(t) \/ SpuriousWakeup(t)
  PROVE  IInv'
<1> USE DEF IInv, Shape
<1>1. Inside' = Inside
  BY DEF Inside, Call, WaitAtGate, SleepsAgain, SpuriousWakeup
<1>2. Shape' /\ OneAhead' /\ UNCHANGED <<count, times_used, left>>
  BY DEF OneAhead, Call, WaitAtGate, SleepsAgain, SpuriousWakeup
<1>3. NoLostWakeup'
  BY DEF NoLostWakeup, GateOpen, Call, WaitAtGate, SleepsAgain, SpuriousWakeup
<1> QED
  BY <1>1, <1>2, <1>3, SameInside

LEMMA ArrivesIInv ==
  ASSUME BarrierAssumption, IInv, NEW t \in Threads, Arrives(t)
  PROVE  IInv'
<1> USE DEF IInv, Shape, Arrives, GateOpen
<1>1. t \notin Inside /\ Inside' = Inside \cup {t}
  BY DEF Inside
<1>2. Counted'
  BY <1>1, InsideFinite, FS_AddElement DEF Counted
<1>3. Shape' /\ times_used = 1 /\ times_used' = 1
  OBVIOUS
<1>4. OneAhead' /\ NoLostWakeup'
  BY DEF OneAhead, NoLostWakeup
<1>5. Collecting' /\ Releasing'
  BY <1>3, InsideFinite DEF Collecting, Releasing, N
<1> QED
  BY <1>2, <1>3, <1>4, <1>5

\* When the last thread arrives, all the others are inside.
LEMMA LastArrivesIInv ==
  ASSUME BarrierAssumption, IInv, NEW t \in Threads, LastArrives(t)
  PROVE  IInv'
<1> USE DEF IInv, Shape, LastArrives, GateOpen, Broadcast, Return
<1>1. Inside \subseteq Threads \ {t}
  BY DEF Inside
<1>2. IsFiniteSet(Threads \ {t}) /\ Cardinality(Threads \ {t}) = N - 1
  BY FS_RemoveElement DEF BarrierAssumption, N
<1>3. Cardinality(Inside) = N - 1
  BY InsideFinite DEF Counted
<1>4. Inside = Threads \ {t}
  BY <1>1, <1>2, <1>3, FS_Subset
<1>5. Inside' = Threads \ {t}
  BY <1>4 DEF Inside
<1>6. Counted'
  BY <1>4, <1>5 DEF Counted
<1>7. Shape' /\ times_used = 1 /\ times_used' = 0
  OBVIOUS
<1>8. OneAhead' /\ NoLostWakeup'
  BY <1>4 DEF OneAhead, NoLostWakeup, Inside
<1>9. Collecting' /\ Releasing'
  BY <1>5, <1>7 DEF Collecting, Releasing
<1> QED
  BY <1>6, <1>7, <1>8, <1>9

\* A thread that leaves joins those that are one round ahead; the last one to leave
\* brings everybody to the same round.
LEMMA LeavesIInv ==
  ASSUME BarrierAssumption, IInv, NEW t \in Threads, Leaves(t)
  PROVE  IInv'
<1> USE DEF IInv, Shape, Leaves, Broadcast, Return
<1>1. times_used = 0 /\ t \in Inside
  BY DEF Collecting, Inside
<1>2. Inside' = Inside \ {t}
  BY DEF Inside
<1>3. Counted' /\ count >= 1
  <2>1. Cardinality(Inside \ {t}) = count - 1
    BY <1>1, InsideFinite, FS_RemoveElement DEF Counted
  <2>2. IsFiniteSet(Inside \ {t})
    BY InsideFinite, FS_RemoveElement
  <2> QED
    BY <1>2, <2>1, <2>2, FS_CardinalityType DEF Counted
<1>4. Shape'
  BY <1>3
<1>5. OneAhead'
  BY <1>1 DEF OneAhead, Inside
<1>6. NoLostWakeup'
  BY <1>1 DEF NoLostWakeup
<1>7. \A u \in Threads \ Inside' : left'[u] = left[t] + 1
  BY <1>1, <1>2 DEF Releasing
<1>8. Releasing'
  BY <1>1, <1>2, <1>7 DEF Releasing, Inside
<1>9. Collecting'
  <2> SUFFICES ASSUME times_used' = 1 PROVE Collecting'
    BY DEF Collecting
  <2>1. count = 1 /\ count' = 0
    BY <1>1
  <2>2. Inside' = {}
    BY <1>2, <1>3, <2>1, InsideFinite, FS_RemoveElement, FS_EmptySet DEF Counted
  <2>3. \A u, v \in Threads : left'[u] = left'[v]
    BY <1>7, <2>2
  <2> QED
    BY <2>1, <2>3, InsideFinite DEF Collecting, BarrierAssumption, N
<1> QED
  BY <1>3, <1>4, <1>5, <1>6, <1>8, <1>9

LEMMA NextIInv ==
  ASSUME BarrierAssumption, IInv, [Next]_vars
  PROVE  IInv'
<1>1. ASSUME UNCHANGED vars
      PROVE  IInv'
  BY <1>1 DEF vars, IInv, Shape, Inside, Counted, OneAhead, Collecting, Releasing, NoLostWakeup, N
<1> QED
  BY <1>1, CallIInv, ArrivesIInv, LastArrivesIInv, LeavesIInv DEF Next, Step

\* The barrier holds back: no thread returns from a round of barrier_wait that another
\* one has not entered, for any number of threads and however often it is reused.
THEOREM RoundsNeverMix == ASSUME BarrierAssumption PROVE Spec => []Synchronised
<1>1. IInv => Synchronised
  BY DEF IInv, Shape, OneAhead, Collecting, Releasing, Synchronised, Inside
<1> QED
  BY <1>1, InitIInv, NextIInv, PTL DEF Spec

\* No broadcast of barrier_wait is missing: nobody sleeps on the condition variable for
\* something that has already happened.
THEOREM NoSleepTooLong == ASSUME BarrierAssumption PROVE Spec => []NoLostWakeup
<1>1. IInv => NoLostWakeup
  BY DEF IInv
<1> QED
  BY <1>1, InitIInv, NextIInv, PTL DEF Spec


-----------------------------------------------------------------------------
\* The parts side by side, as SyncPrimitives runs them: they share no variable, so a step
\* of the whole is a step of each part or leaves it as it is.
LEMMA EachTakesItsStep ==
  ASSUME [SNext]_allvars
  PROVE  /\ [Next]_vars
         /\ [Sem!Next]_Sem!vars
         /\ [Res!Next]_Res!vars
<1> USE DEF semvars, drmvars, Sem!vars, Res!vars
<1>1. CASE \E t \in Threads : BarrierStep(t)
  BY <1>1 DEF BarrierStep, Next
<1>2. CASE \E t \in SemThreads : SemStep(t)
  BY <1>2 DEF SemStep, Sem!Next
<1>3. CASE (\E t \in RThreads : RdvStep(t)) \/ RdvMain
  BY <1>3 DEF RdvStep, RdvMain
<1>4. CASE /\ focus = "barrier" /\ \E t \in Threads : SpuriousWakeup(t)
           /\ UNCHANGED <<focus, semvars, drmvars, rdvvars, prvars, tsvars>>
  BY <1>4 DEF Next
<1>5. CASE /\ focus = "semamore" /\ \E t \in SemThreads : Sem!SpuriousWakeup(t)
           /\ UNCHANGED <<focus, vars, drmvars, rdvvars, prvars, tsvars>>
  BY <1>5 DEF Sem!Next
<1>6. CASE /\ focus = "drm" /\ Res!Next
           /\ UNCHANGED <<focus, vars, semvars, rdvvars, prvars, tsvars>>
  BY <1>6
<1>7. CASE \/ /\ focus = "par_reduce" /\ Par!PRNext
              /\ UNCHANGED <<focus, vars, semvars, drmvars, rdvvars, tsvars>>
           \/ /\ focus = "thread_status" /\ Sta!TSNext
              /\ UNCHANGED <<focus, vars, semvars, drmvars, rdvvars, prvars>>
  BY <1>7
<1>8. CASE UNCHANGED allvars
  BY <1>8 DEF allvars
<1> QED
  BY <1>1, <1>2, <1>3, <1>4, <1>5, <1>6, <1>7, <1>8 DEF SNext

\* barrier.c:26-55: the barrier of the composed system holds back as well.
THEOREM RoundsNeverMixInSystem == SSpec => []Synchronised
<1>1. SInit => IInv
  BY InitIInv, BarrierAssumption DEF SInit
<1>2. IInv /\ [SNext]_allvars => IInv'
  BY EachTakesItsStep, NextIInv, BarrierAssumption
<1>3. IInv => Synchronised
  BY DEF IInv, Shape, OneAhead, Collecting, Releasing, Synchronised, Inside
<1> QED
  BY <1>1, <1>2, <1>3, PTL DEF SSpec

-----------------------------------------------------------------------------
\* The mutexes of libdrm, for every set of threads and of drms.

\* The parts of the state the graph is compared with.
ResShape ==
    /\ owner \in [Drms -> DrmThreads \cup {None}]
    /\ drm_pc \in [DrmThreads -> {"idle", "block", "got"}]
    /\ want \in [DrmThreads -> Drms \cup {None}]

\* A thread inside drm_wait names a drm, and holds its mutex once it has got it.
ResWaiting ==
    \A t \in DrmThreads :
        /\ drm_pc[t] # "idle" => want[t] \in Drms
        /\ drm_pc[t] = "got" => owner[want[t]] = t

\* The inductive invariant: the edges follow the mutexes only together with what the
\* threads between pthread_mutex_lock and the end of drm_wait are about to do.
ResInv == ResShape /\ ResWaiting /\ Res!GraphMatches

LEMMA ResInitInv == ASSUME Res!DrmAssumption PROVE Res!Init => ResInv
  BY DEF Res!DrmAssumption, Res!Init, ResInv, ResShape, ResWaiting, Res!GraphMatches,
     Res!OwnershipEdges, Res!RequestEdges

LEMMA ResNextInv ==
  ASSUME Res!DrmAssumption, ResInv, [Res!Next]_Res!vars
  PROVE  ResInv'
<1> USE DEF Res!DrmAssumption, ResInv, ResShape, ResWaiting, Res!GraphMatches,
   Res!OwnershipEdges, Res!RequestEdges
<1>1. ASSUME NEW d \in Drms, Res!drm_init(d)
      PROVE  ResInv'
  BY <1>1 DEF Res!drm_init
<1>2. ASSUME NEW d \in Drms, Res!drm_destroy(d)
      PROVE  ResInv'
  BY <1>2 DEF Res!drm_destroy
<1>3. ASSUME NEW t \in DrmThreads, NEW d \in Drms, Res!drm_post(d, t)
      PROVE  ResInv'
  BY <1>3 DEF Res!drm_post
<1>4. ASSUME NEW t \in DrmThreads, NEW d \in Drms, Res!WaitOwned(d, t)
      PROVE  ResInv'
  BY <1>4 DEF Res!WaitOwned
<1>5. ASSUME NEW t \in DrmThreads, NEW d \in Drms, Res!WaitRefused(d, t)
      PROVE  ResInv'
  BY <1>5 DEF Res!WaitRefused
<1>6. ASSUME NEW t \in DrmThreads, NEW d \in Drms, Res!WaitRequests(d, t)
      PROVE  ResInv'
  BY <1>6 DEF Res!WaitRequests
<1>7. ASSUME NEW t \in DrmThreads, Res!WaitLocks(t)
      PROVE  ResInv'
  BY <1>7 DEF Res!WaitLocks
<1>8. ASSUME NEW t \in DrmThreads, Res!WaitAcquires(t)
      PROVE  ResInv'
  BY <1>8 DEF Res!WaitAcquires
<1>9. CASE UNCHANGED Res!vars
  BY <1>9 DEF Res!vars
<1>10. QED
  BY <1>1, <1>2, <1>3, <1>4, <1>5, <1>6, <1>7, <1>8, <1>9 DEF Res!Next

\* libdrm.c:75-129: with any number of threads and drms, the resource allocation graph
\* has an edge from a drm to the thread that holds its mutex and from a thread to the drm
\* its drm_wait is about, and no others, although drm_wait changes the mutex and the graph
\* at different times and gives m_global up in between.
THEOREM GraphStaysRight == SSpec => []GraphMatches
<1>1. Res!DrmAssumption
  BY SyncAssumption
<1>2. SInit => ResInv
  BY <1>1, ResInitInv DEF SInit
<1>3. ResInv /\ [SNext]_allvars => ResInv'
  BY <1>1, EachTakesItsStep, ResNextInv
<1>4. ResInv => GraphMatches
  BY DEF ResInv, GraphMatches
<1> QED
  BY <1>2, <1>3, <1>4, PTL DEF SSpec

-----------------------------------------------------------------------------
\* The semamore.

\* semamore.c:24-57: the value of the semaphore never leaves 0 .. max_val, however
\* semm_wait and semm_post interleave, and a thread sleeps in semm_wait only while the
\* value is 0 and in semm_post only while it is max_val, although both kinds of sleepers
\* share one condition variable.
THEOREM SemaphoreSound == SSpec => [](Sem!TypeOK /\ Sem!NoLostWakeup)
<1> DEFINE SemInv == Sem!TypeOK /\ Sem!NoLostWakeup
<1>1. Sem!SemamoreAssumption
  BY SyncAssumption
<1>2. SInit => SemInv
  BY <1>1 DEF SInit, Sem!Init, Sem!TypeOK, Sem!NoLostWakeup, Sem!SemamoreAssumption
<1>3. ASSUME SemInv, [SNext]_allvars PROVE SemInv'
  <2>1. [Sem!Next]_Sem!vars
    BY <1>3, EachTakesItsStep
  <2> USE <1>1, <1>3 DEF Sem!TypeOK, Sem!NoLostWakeup, Sem!SemamoreAssumption, Sem!Blocked
  <2>2. ASSUME NEW t \in SemThreads, Sem!Call(t) PROVE SemInv'
    BY <2>2 DEF Sem!Call
  <2>3. ASSUME NEW t \in SemThreads, Sem!Sleep(t) PROVE SemInv'
    BY <2>3 DEF Sem!Sleep
  <2>4. ASSUME NEW t \in SemThreads, Sem!semm_wait(t) PROVE SemInv'
    BY <2>4 DEF Sem!semm_wait, Sem!Broadcast
  <2>5. ASSUME NEW t \in SemThreads, Sem!semm_post(t) PROVE SemInv'
    BY <2>5 DEF Sem!semm_post, Sem!Broadcast
  <2>6. ASSUME NEW t \in SemThreads, Sem!SpuriousWakeup(t) PROVE SemInv'
    BY <2>6 DEF Sem!SpuriousWakeup
  <2>7. CASE UNCHANGED Sem!vars
    BY <2>7 DEF Sem!vars
  <2> QED
    BY <2>1, <2>2, <2>3, <2>4, <2>5, <2>6, <2>7 DEF Sem!Next, Sem!Step
<1> QED
  BY <1>2, <1>3, PTL DEF SSpec

-----------------------------------------------------------------------------
\* The rendezvous.

\* A semaphore is posted by a thread that has decoded its quote, and a thread prints
\* after it has taken the other one's post.
RdvInv ==
    /\ decoded \in [RThreads -> Int]
    /\ sem \in [RThreads -> Nat]
    /\ rdv_pc \in [RThreads -> {"modify", "post", "wait", "print", "returned"}]
    /\ printed \in [RThreads -> {-1, QuoteLen}]
    /\ \A t \in RThreads :
          /\ rdv_pc[t] # "modify" => decoded[t] = QuoteLen
          /\ sem[t] > 0 => rdv_pc[t] \notin {"modify", "post"}
          /\ rdv_pc[Partner(t)] = "print" => rdv_pc[t] \notin {"modify", "post"}

LEMMA RdvNextInv ==
  ASSUME RdvInv, (\E t \in RThreads : RdvThread(t)) \/ join_and_free
  PROVE  RdvInv'
<1> USE DEF RdvInv, RThreads, Partner, RdvGoto
<1>1. ASSUME NEW t \in RThreads, modify(t) PROVE RdvInv'
  BY <1>1 DEF modify
<1>2. ASSUME NEW t \in RThreads, sem_post(t) PROVE RdvInv'
  BY <1>2 DEF sem_post
<1>3. ASSUME NEW t \in RThreads, sem_wait(t) PROVE RdvInv'
  BY <1>3 DEF sem_wait
<1>4. ASSUME NEW t \in RThreads, print(t) PROVE RdvInv'
  BY <1>4 DEF print
<1>5. CASE join_and_free
  BY <1>5 DEF join_and_free
<1> QED
  BY <1>1, <1>2, <1>3, <1>4, <1>5 DEF RdvThread

-----------------------------------------------------------------------------
\* The status array.

TSLabels == {"none", "out", "find self", "find child", "add self", "add child",
             "load", "save", "blocked", "load again", "restore"}
Statuses == {"(none)", "waits", "set", Sta!Fresh}

StaTypes ==
    /\ slots \in Seq([id : TSThreads \cup {Sta!Fresh}, status : Statuses])
    /\ array_gen \in Nat \ {0}
    /\ ts_pc \in [TSThreads -> TSLabels]
    /\ ts_mutex \in TSThreads \cup {Sta!TSFree}
    /\ self \in [TSThreads -> Nat]
    /\ loaded \in [TSThreads -> Nat]
    /\ saved \in [TSThreads -> Statuses]
    /\ what \in [TSThreads -> {"waits", "set"}]
    /\ creating \in TSThreads

\* No two slots have the same id; one that is not filled yet is the last one, and somebody
\* holds the mutex to fill it.
SlotsApart ==
    /\ \A i, j \in DOMAIN slots : slots[i].id = slots[j].id => i = j
    /\ \A i \in DOMAIN slots :
          slots[i].id = Sta!Fresh => i = Len(slots) /\ ts_mutex # Sta!TSFree

\* The thread between the two halves of findThreadId holds the mutex, and the id it adds
\* has no slot.
Adding ==
    \A t \in TSThreads :
        /\ ts_pc[t] \in {"add self", "add child"} <=> ts_mutex = t
        /\ ts_mutex = t =>
             /\ slots # <<>> /\ slots[Len(slots)].id = Sta!Fresh
             /\ \A i \in DOMAIN slots : slots[i].id # Sta!Wanted(t)
        /\ ts_pc[t] \in {"find child", "add child"} => t = MainThread

\* A thread that goes on to use the array has the index of its own slot.
OwnSlot ==
    \A t \in TSThreads :
        ts_pc[t] \in {"load", "save", "blocked", "load again", "restore"} =>
            self[t] \in DOMAIN slots /\ slots[self[t]].id = t

\* As long as the array has not moved, every address of it is good and the statuses are
\* those of the calls in progress.
StatusesKept ==
    array_gen = 1 =>
        /\ ~dangling
        /\ \A t \in TSThreads :
            /\ ts_pc[t] \in {"save", "restore"} => loaded[t] = 1
            /\ ts_pc[t] = "blocked" => slots[self[t]].status = "waits"
            /\ ts_pc[t] \in {"blocked", "load again", "restore"} => saved[t] # "waits"
            /\ ts_pc[t] \notin {"blocked", "load again", "restore"} =>
                  \A i \in DOMAIN slots : slots[i].id = t => slots[i].status # "waits"

StaInv == StaTypes /\ SlotsApart /\ Adding /\ OwnSlot /\ StatusesKept

LEMMA StaInitInv == Sta!TSInit => StaInv
<1> SUFFICES ASSUME Sta!TSInit PROVE StaInv
  OBVIOUS
<1> USE SyncAssumption DEF Sta!TSInit, Sta!ThreadStatusAssumption, Sta!Fresh, Sta!TSFree
<1>1. StaTypes
  <2>1. slots \in Seq([id : TSThreads \cup {Sta!Fresh}, status : Statuses])
    BY DEF Statuses
  <2> QED
    BY <2>1 DEF StaTypes, TSLabels, Statuses
<1>2. SlotsApart /\ Adding /\ OwnSlot
  BY DEF SlotsApart, Adding, OwnSlot
<1>3. StatusesKept
  BY DEF StatusesKept
<1> QED
  BY <1>1, <1>2, <1>3 DEF StaInv

\* Steps that write neither the slots nor who holds the mutex.
LEMMA StaQuietInv ==
  ASSUME StaInv, NEW t \in TSThreads,
         \/ Sta!ts_pthread_create(t) \/ Sta!call_wrapper(t) \/ Sta!load(t)
         \/ Sta!wrapped_returns(t)
  PROVE  StaInv'
<1> USE SyncAssumption
    DEF Sta!ThreadStatusAssumption, Sta!At, Sta!To, Sta!rest, Sta!ts_pthread_create,
        Sta!call_wrapper, Sta!load, Sta!wrapped_returns, StaInv
<1>1. StaTypes'
  BY ZenonT(40) DEF StaTypes, TSLabels
<1>2. SlotsApart'
  BY DEF SlotsApart
<1>3. Adding'
  BY ZenonT(40) DEF Adding, Sta!Wanted, StaTypes
<1>4. OwnSlot'
  BY DEF OwnSlot, StaTypes
<1>5. StatusesKept'
  <2> USE DEF StatusesKept, StaTypes
  <2>1. CASE Sta!ts_pthread_create(t)
    BY <2>1
  <2>2. CASE Sta!call_wrapper(t)
    BY <2>2, ZenonT(40)
  <2>3. CASE Sta!load(t)
    BY <2>3
  <2>4. CASE Sta!wrapped_returns(t)
    BY <2>4
  <2> QED
    BY <2>1, <2>2, <2>3, <2>4
<1> QED
  BY <1>1, <1>2, <1>3, <1>4, <1>5

\* findThreadId finds the slot.
LEMMA StaFoundInv ==
  ASSUME StaInv, NEW t \in TSThreads, Sta!findThreadId(t), Sta!found(t) # {}
  PROVE  StaInv'
<1> DEFINE i == CHOOSE j \in Sta!found(t) : TRUE
<1>1. i \in DOMAIN slots /\ slots[i].id = Sta!Wanted(t)
  BY DEF Sta!found, Sta!Indices
<1>2. i \in Nat
  BY <1>1 DEF StaInv, StaTypes
<1> HIDE DEF i
<1>3. /\ ts_pc[t] \in {"find self", "find child"}
      /\ ts_pc' = [ts_pc EXCEPT ![t] = IF ts_pc[t] = "find self" THEN "load" ELSE "out"]
      /\ self' = IF ts_pc[t] = "find self" THEN [self EXCEPT ![t] = i] ELSE self
      /\ UNCHANGED <<slots, array_gen, ts_mutex, loaded, saved, what, creating, dangling>>
  BY DEF Sta!findThreadId, Sta!To, Sta!At, Sta!AfterFind, i
<1> USE SyncAssumption DEF Sta!ThreadStatusAssumption, StaInv
<1>4. StaTypes'
  BY <1>2, <1>3 DEF StaTypes, TSLabels
<1>5. SlotsApart'
  BY <1>3 DEF SlotsApart
<1>6. Adding'
  BY <1>3 DEF Adding, Sta!Wanted, Sta!At, StaTypes
<1>7. OwnSlot'
  BY <1>1, <1>3 DEF OwnSlot, StaTypes, Sta!Wanted, Sta!At
<1>8. StatusesKept'
  BY <1>3 DEF StatusesKept, StaTypes
<1> QED
  BY <1>4, <1>5, <1>6, <1>7, <1>8

LEMMA Appended ==
  ASSUME NEW S, NEW s \in Seq(S), NEW x \in S, NEW s2, s2 = Append(s, x)
  PROVE  /\ Len(s2) = Len(s) + 1 /\ Len(s) \in Nat
         /\ DOMAIN s = 1 .. Len(s) /\ DOMAIN s2 = 1 .. Len(s2)
         /\ \A j \in DOMAIN s : s2[j] = s[j]
         /\ s2[Len(s2)] = x
         /\ s2 \in Seq(S)
  OBVIOUS

\* findThreadId adds a slot, for which the array may have to grow and move.
LEMMA StaAddInv ==
  ASSUME StaInv, NEW t \in TSThreads, Sta!findThreadId(t), Sta!found(t) = {}
  PROVE  StaInv'
<1> DEFINE new == [id |-> Sta!Fresh, status |-> Sta!Fresh]
<1>1. /\ ts_pc[t] \in {"find self", "find child"} /\ ts_mutex = Sta!TSFree
      /\ ts_mutex' = t
      /\ ts_pc' = [ts_pc EXCEPT ![t] =
                     IF ts_pc[t] = "find self" THEN "add self" ELSE "add child"]
      /\ UNCHANGED <<self, loaded, saved, what, creating, dangling>>
  BY DEF Sta!findThreadId, Sta!To, Sta!At
<1>13. slots' = Append(slots, new)
  BY DEF Sta!findThreadId
<1>14. array_gen' \in Nat \ {0} /\ array_gen' >= array_gen /\ array_gen \in Nat \ {0}
  <2>1. array_gen' = array_gen \/ array_gen' = array_gen + 1
    BY DEF Sta!findThreadId
  <2>2. array_gen \in Nat \ {0}
    BY DEF StaInv, StaTypes
  <2> QED
    BY <2>1, <2>2
<1>2. \A j \in DOMAIN slots : slots[j].id # Sta!Wanted(t)
  BY DEF Sta!found, Sta!Indices
<1> USE SyncAssumption DEF Sta!ThreadStatusAssumption, StaInv
<1>3. new \in [id : TSThreads \cup {Sta!Fresh}, status : Statuses]
  BY DEF Statuses
<1>6. new.id = Sta!Fresh
  OBVIOUS
<1> DEFINE Slot == [id : TSThreads \cup {Sta!Fresh}, status : Statuses]
<1>0. slots \in Seq(Slot) /\ new \in Slot
  BY <1>3 DEF StaTypes
<1> HIDE DEF new, Slot
<1>5. /\ Len(slots') = Len(slots) + 1 /\ Len(slots) \in Nat
      /\ DOMAIN slots = 1 .. Len(slots) /\ DOMAIN slots' = 1 .. Len(slots')
      /\ \A j \in DOMAIN slots : slots'[j] = slots[j]
      /\ slots'[Len(slots')] = new
      /\ slots' \in Seq(Slot)
  BY <1>0, <1>13, Appended, SMT
<1>4. StaTypes'
  <2>1. slots' \in Seq([id : TSThreads \cup {Sta!Fresh}, status : Statuses])
    BY <1>5 DEF Slot
  <2>3. ts_pc' \in [TSThreads -> TSLabels]
    BY <1>1 DEF StaTypes, TSLabels
  <2> QED
    BY <1>1, <1>14, <2>1, <2>3 DEF StaTypes
<1>7. SlotsApart'
  <2>1. ts_mutex' # Sta!TSFree
    BY <1>1
  <2>2. \A i \in DOMAIN slots : slots[i].id # Sta!Fresh
    BY <1>1 DEF SlotsApart
  <2>3. \A i, j \in DOMAIN slots' : slots'[i].id = slots'[j].id => i = j
    BY <2>2, <1>5, <1>6 DEF SlotsApart
  <2> QED
    BY <2>1, <2>2, <2>3, <1>5 DEF SlotsApart
<1>8. Sta!Wanted(t)' = Sta!Wanted(t) /\ Sta!Wanted(t) \in TSThreads
  BY <1>1 DEF Sta!Wanted, Sta!At, StaTypes
<1>9. slots' # <<>>
  BY <1>5
<1>10. Adding'
  <2> SUFFICES ASSUME NEW u \in TSThreads
               PROVE  /\ ts_pc'[u] \in {"add self", "add child"} <=> ts_mutex' = u
                      /\ ts_mutex' = u =>
                           /\ slots' # <<>> /\ slots'[Len(slots')].id = Sta!Fresh
                           /\ \A i \in DOMAIN slots' : slots'[i].id # Sta!Wanted(u)'
                      /\ ts_pc'[u] \in {"find child", "add child"} => u = MainThread
    BY DEF Adding
  <2>1. CASE u = t
    <3>1. \A i \in DOMAIN slots' : slots'[i].id # Sta!Wanted(t)'
      BY <1>2, <1>5, <1>6, <1>8 DEF Sta!Fresh
    <3> QED
      BY <1>1, <1>5, <1>6, <1>9, <2>1, <3>1 DEF StaTypes, Adding
  <2>2. CASE u # t
    BY <1>1, <2>2 DEF StaTypes, Adding, Sta!TSFree
  <2> QED
    BY <2>1, <2>2
<1>11. OwnSlot'
  <2>1. DOMAIN slots \subseteq DOMAIN slots'
    BY <1>5
  <2> QED
    BY <1>1, <1>5, <2>1 DEF OwnSlot, StaTypes
<1>12. StatusesKept'
  <2> SUFFICES ASSUME array_gen' = 1 PROVE StatusesKept'
    BY DEF StatusesKept
  <2>1. array_gen = 1
    BY <1>14
  <2>2. \A u \in TSThreads, i \in DOMAIN slots' :
           slots'[i].id = u => i \in DOMAIN slots /\ slots'[i] = slots[i]
    BY <1>5, <1>6
  <2> SUFFICES ASSUME NEW u \in TSThreads
               PROVE  /\ ~dangling'
                      /\ ts_pc'[u] \in {"save", "restore"} => loaded'[u] = 1
                      /\ ts_pc'[u] = "blocked" => slots'[self'[u]].status = "waits"
                      /\ ts_pc'[u] \in {"blocked", "load again", "restore"} => saved'[u] # "waits"
                      /\ ts_pc'[u] \notin {"blocked", "load again", "restore"} =>
                           \A i \in DOMAIN slots' : slots'[i].id = u => slots'[i].status # "waits"
    BY DEF StatusesKept
  <2>3. ts_pc'[u] = ts_pc[u] \/ (u = t /\ ts_pc'[u] \in {"add self", "add child"})
    BY <1>1 DEF StaTypes
  <2>4. ts_pc[u] = "blocked" => slots'[self'[u]].status = "waits"
    <3> SUFFICES ASSUME ts_pc[u] = "blocked" PROVE slots'[self'[u]].status = "waits"
      OBVIOUS
    <3>1. self'[u] = self[u] /\ self[u] \in DOMAIN slots
      BY <1>1 DEF OwnSlot
    <3>2. slots'[self[u]] = slots[self[u]]
      BY <1>5, <3>1
    <3>3. slots[self[u]].status = "waits"
      BY <2>1 DEF StatusesKept
    <3> QED
      BY <3>1, <3>2, <3>3
  <2> QED
    BY <1>1, <2>1, <2>2, <2>3, <2>4, ZenonT(40) DEF StatusesKept
<1> QED
  BY <1>4, <1>7, <1>10, <1>11, <1>12

\* initThread fills the slot that findThreadId has counted.
LEMMA StaFillInv ==
  ASSUME StaInv, NEW t \in TSThreads, Sta!initThread(t)
  PROVE  StaInv'
<1> DEFINE new == [id |-> Sta!Wanted(t), status |-> "(none)"]
<1> DEFINE n == Len(slots)
<1> DEFINE Slot == [id : TSThreads \cup {Sta!Fresh}, status : Statuses]
<1>1. /\ ts_pc[t] \in {"add self", "add child"} /\ ts_mutex' = Sta!TSFree
      /\ self' = IF ts_pc[t] = "add self" THEN [self EXCEPT ![t] = n] ELSE self
      /\ ts_pc' = [ts_pc EXCEPT ![t] = IF ts_pc[t] = "add self" THEN "load" ELSE "out"]
      /\ UNCHANGED <<array_gen, loaded, saved, what, creating, dangling>>
  BY DEF Sta!initThread, Sta!To, Sta!At, Sta!AfterFind
<1>2. slots' = [slots EXCEPT ![n] = new]
  BY DEF Sta!initThread
<1>3. Sta!Wanted(t) \in TSThreads /\ (ts_pc[t] = "add self" => Sta!Wanted(t) = t)
  BY DEF Sta!Wanted, Sta!At, StaInv, StaTypes
<1>4. new.id = Sta!Wanted(t) /\ new.status = "(none)" /\ new \in Slot
  BY <1>3 DEF Statuses
<1>5. slots \in Seq(Slot) /\ slots # <<>>
  BY <1>1 DEF StaInv, StaTypes, Adding
<1> HIDE DEF new, Slot
<1>6. /\ n \in DOMAIN slots /\ DOMAIN slots' = DOMAIN slots /\ Len(slots') = n
      /\ slots'[n] = new /\ \A j \in DOMAIN slots : j # n => slots'[j] = slots[j]
      /\ slots' \in Seq(Slot) /\ n \in Nat
  BY <1>2, <1>4, <1>5
<1> HIDE DEF n
<1>7. ts_mutex = t
  BY <1>1 DEF StaInv, Adding
<1>8. /\ \A j \in DOMAIN slots : slots[j].id # Sta!Wanted(t)
      /\ slots[n].id = Sta!Fresh /\ Sta!Fresh \notin TSThreads
  BY <1>7, SyncAssumption DEF StaInv, Adding, n, Sta!ThreadStatusAssumption
<1>9. \A j \in DOMAIN slots : slots[j].id = Sta!Fresh => j = n
  BY DEF StaInv, SlotsApart, n
<1> USE DEF StaInv
<1>10. StaTypes'
  <2>1. slots' \in Seq([id : TSThreads \cup {Sta!Fresh}, status : Statuses])
    BY <1>6 DEF Slot
  <2> QED
    BY <1>1, <1>6, <2>1 DEF StaTypes, TSLabels
<1>11. SlotsApart'
  <2>1. \A j \in DOMAIN slots' : slots'[j].id # Sta!Fresh
    BY <1>3, <1>4, <1>6, <1>8, <1>9
  <2>2. \A i, j \in DOMAIN slots' : slots'[i].id = slots'[j].id => i = j
    BY <1>4, <1>6, <1>8 DEF SlotsApart
  <2> QED
    BY <2>1, <2>2 DEF SlotsApart
<1>12. Adding'
  <2>1. \A u \in TSThreads : ts_mutex' # u
    BY <1>1, SyncAssumption DEF Sta!ThreadStatusAssumption
  <2> QED
    BY <1>1, <1>7, <2>1 DEF Adding, StaTypes
<1>13. OwnSlot'
  <2> SUFFICES ASSUME NEW u \in TSThreads,
                      ts_pc'[u] \in {"load", "save", "blocked", "load again", "restore"}
               PROVE  self'[u] \in DOMAIN slots' /\ slots'[self'[u]].id = u
    BY DEF OwnSlot
  <2>1. CASE u = t
    <3>1. ts_pc[t] = "add self" /\ self'[t] = n
      BY <1>1, <2>1 DEF StaTypes
    <3> QED
      BY <1>3, <1>4, <1>6, <2>1, <3>1
  <2>2. CASE u # t
    <3>1. ts_pc'[u] = ts_pc[u] /\ self'[u] = self[u]
      BY <1>1, <2>2 DEF StaTypes
    <3>2. self[u] \in DOMAIN slots /\ slots[self[u]].id = u
      BY <3>1 DEF OwnSlot
    <3>3. self[u] # n
      BY <3>2, <1>8
    <3> QED
      BY <1>6, <3>1, <3>2, <3>3
  <2> QED
    BY <2>1, <2>2
<1>14. StatusesKept'
  <2> SUFFICES ASSUME array_gen = 1, NEW u \in TSThreads
               PROVE  /\ ~dangling'
                      /\ ts_pc'[u] \in {"save", "restore"} => loaded'[u] = 1
                      /\ ts_pc'[u] = "blocked" => slots'[self'[u]].status = "waits"
                      /\ ts_pc'[u] \in {"blocked", "load again", "restore"} => saved'[u] # "waits"
                      /\ ts_pc'[u] \notin {"blocked", "load again", "restore"} =>
                           \A i \in DOMAIN slots' : slots'[i].id = u => slots'[i].status # "waits"
    BY <1>1 DEF StatusesKept
  <2>1. ts_pc'[u] = ts_pc[u] \/ (u = t /\ ts_pc'[u] \in {"load", "out"})
    BY <1>1 DEF StaTypes
  <2>2. ts_pc[u] = "blocked" => slots'[self'[u]].status = "waits"
    <3> SUFFICES ASSUME ts_pc[u] = "blocked" PROVE slots'[self'[u]].status = "waits"
      OBVIOUS
    <3>1. self'[u] = self[u]
      BY <1>1 DEF StaTypes
    <3>2. self[u] \in DOMAIN slots /\ slots[self[u]].id = u
      BY DEF OwnSlot
    <3>3. slots'[self[u]] = slots[self[u]]
      BY <3>2, <1>6, <1>8
    <3>4. slots[self[u]].status = "waits"
      BY DEF StatusesKept
    <3> QED
      BY <3>1, <3>3, <3>4
  <2>3. u = t => ts_pc[u] \notin {"blocked", "load again", "restore"}
    BY <1>1
  <2>4. \A i \in DOMAIN slots' : slots'[i].status = "waits" => slots'[i] = slots[i]
    BY <1>4, <1>6
  <2>5. ts_pc[u] \notin {"blocked", "load again", "restore"} =>
           \A i \in DOMAIN slots' : slots'[i].id = u => slots'[i].status # "waits"
    BY <1>6, <2>4, ZenonT(40) DEF StatusesKept
  <2>6. /\ ~dangling' /\ loaded' = loaded /\ saved' = saved
    BY <1>1 DEF StatusesKept
  <2> QED
    BY <2>1, <2>2, <2>3, <2>5, <2>6 DEF StatusesKept
<1> QED
  BY <1>10, <1>11, <1>12, <1>13, <1>14

LEMMA ElementOf ==
  ASSUME NEW S, NEW s \in Seq(S), NEW i \in DOMAIN s
  PROVE  s[i] \in S
  OBVIOUS

\* A store of a status through a good address changes the thread's own slot.
LEMMA StaStored ==
  ASSUME StaInv, NEW t \in TSThreads, NEW sts \in Statuses, Sta!Store(t, sts),
         ts_pc[t] \in {"save", "restore"}
  PROVE  /\ DOMAIN slots' = DOMAIN slots
         /\ slots' \in Seq([id : TSThreads \cup {Sta!Fresh}, status : Statuses])
         /\ Len(slots') = Len(slots)
         /\ \A i \in DOMAIN slots : slots'[i].id = slots[i].id
         /\ \A i \in DOMAIN slots : slots[i].id # t => slots'[i] = slots[i]
         /\ array_gen = 1 => /\ \A i \in DOMAIN slots : slots[i].id = t => slots'[i].status = sts
                             /\ ~dangling'
<1> DEFINE Slot == [id : TSThreads \cup {Sta!Fresh}, status : Statuses]
<1>1. slots \in Seq(Slot) /\ \A r \in Slot : [r EXCEPT !.status = sts] \in Slot
  BY DEF StaInv, StaTypes
<1>2. self[t] \in DOMAIN slots /\ slots[self[t]].id = t
  BY DEF StaInv, OwnSlot
<1>3. \A i \in DOMAIN slots : slots[i].id = t => i = self[t]
  BY <1>2 DEF StaInv, SlotsApart
<1>4. slots[self[t]] \in Slot
  <2> HIDE DEF Slot
  <2> QED
    BY <1>1, <1>2, ElementOf
<1> DEFINE new == [slots[self[t]] EXCEPT !.status = sts]
<1>5. new \in Slot /\ new.id = t /\ new.status = sts
  BY <1>1, <1>2, <1>4
<1>6. CASE loaded[t] = array_gen
  <2>1. slots' = [slots EXCEPT ![self[t]] = new] /\ dangling' = dangling
    BY <1>6 DEF Sta!Store
  <2> HIDE DEF Slot, new
  <2>2. /\ DOMAIN slots' = DOMAIN slots /\ slots' \in Seq(Slot) /\ Len(slots') = Len(slots)
        /\ slots'[self[t]] = new
        /\ \A i \in DOMAIN slots : i # self[t] => slots'[i] = slots[i]
    BY <1>1, <1>2, <1>5, <2>1
  <2>3. slots' \in Seq([id : TSThreads \cup {Sta!Fresh}, status : Statuses])
    BY <2>2 DEF Slot
  <2>4. array_gen = 1 => ~dangling'
    BY <2>1 DEF StaInv, StatusesKept
  <2> QED
    BY <1>2, <1>3, <1>5, <2>2, <2>3, <2>4
<1>7. CASE loaded[t] # array_gen
  <2>1. array_gen # 1
    BY <1>7 DEF StaInv, StatusesKept
  <2> QED
    BY <1>1, <1>7, <2>1 DEF Sta!Store
<1> QED
  BY <1>6, <1>7

\* A step that stores: the slots keep their ids, and the statuses of the other threads.
LEMMA StaStoreInv ==
  ASSUME StaInv, NEW t \in TSThreads, Sta!saveStatus(t) \/ Sta!restoreStatus(t)
  PROVE  StaInv'
<1> DEFINE sts == IF ts_pc[t] = "save" THEN what[t] ELSE saved[t]
<1>1. /\ ts_pc[t] \in {"save", "restore"} /\ Sta!Store(t, sts)
      /\ UNCHANGED <<array_gen, ts_mutex, self, loaded, what, creating>>
  BY DEF Sta!saveStatus, Sta!restoreStatus, Sta!At
<1>2. ts_pc' = [ts_pc EXCEPT ![t] =
                  IF ts_pc[t] = "save" /\ what[t] = "waits" THEN "blocked" ELSE "out"]
  BY DEF Sta!saveStatus, Sta!restoreStatus, Sta!At, Sta!To
<1>3. sts \in Statuses /\ ts_pc \in [TSThreads -> TSLabels] /\ saved \in [TSThreads -> Statuses]
  BY DEF StaInv, StaTypes, Statuses
<1> HIDE DEF sts
<1>4. /\ DOMAIN slots' = DOMAIN slots
      /\ slots' \in Seq([id : TSThreads \cup {Sta!Fresh}, status : Statuses])
      /\ Len(slots') = Len(slots)
      /\ \A i \in DOMAIN slots : slots'[i].id = slots[i].id
      /\ \A i \in DOMAIN slots : slots[i].id # t => slots'[i] = slots[i]
      /\ array_gen = 1 => /\ \A i \in DOMAIN slots : slots[i].id = t => slots'[i].status = sts
                          /\ ~dangling'
  BY <1>1, <1>3, StaStored
<1>5. self[t] \in DOMAIN slots /\ slots[self[t]].id = t
  BY <1>1 DEF StaInv, OwnSlot
<1>6. saved' \in [TSThreads -> Statuses]
  <2>1. slots[self[t]].status \in Statuses
    <3> DEFINE Slot == [id : TSThreads \cup {Sta!Fresh}, status : Statuses]
    <3>1. slots \in Seq(Slot)
      BY DEF StaInv, StaTypes
    <3>2. \A x \in Slot : x.status \in Statuses
      OBVIOUS
    <3> HIDE DEF Slot
    <3>3. slots[self[t]] \in Slot
      BY <1>5, <3>1, ElementOf
    <3> QED
      BY <3>2, <3>3
  <2>2. \E x \in Statuses : saved' = [saved EXCEPT ![t] = x] \/ saved' = saved
    BY <2>1, <1>3 DEF Sta!saveStatus, Sta!restoreStatus, Statuses
  <2> QED
    BY <1>3, <2>2
<1>7. StaTypes'
  BY <1>1, <1>2, <1>3, <1>4, <1>6 DEF StaInv, StaTypes, TSLabels
<1>8. SlotsApart'
  BY <1>1, <1>4 DEF StaInv, SlotsApart
<1>9. Adding'
  <2>1. slots' # <<>> <=> slots # <<>>
    BY <1>4 DEF StaInv, StaTypes
  <2>2. \A u \in TSThreads : ts_pc[u] \in {"add self", "add child", "find child"} =>
                                /\ ts_pc'[u] = ts_pc[u] /\ Sta!Wanted(u)' = Sta!Wanted(u)
    BY <1>1, <1>2, <1>3 DEF Sta!Wanted, Sta!At
  <2>3. \A u \in TSThreads : ts_pc'[u] \in {"add self", "add child", "find child"} =>
                                ts_pc'[u] = ts_pc[u]
    BY <1>1, <1>2, <1>3
  <2>4. slots # <<>> => Len(slots) \in DOMAIN slots
    BY DEF StaInv, StaTypes
  <2> QED
    BY <1>1, <1>4, <2>1, <2>2, <2>3, <2>4 DEF StaInv, Adding
<1>10. OwnSlot'
  BY <1>1, <1>2, <1>3, <1>4 DEF StaInv, OwnSlot
<1>11. StatusesKept'
  <2> SUFFICES ASSUME array_gen = 1, NEW u \in TSThreads
               PROVE  /\ ~dangling'
                      /\ ts_pc'[u] \in {"save", "restore"} => loaded'[u] = 1
                      /\ ts_pc'[u] = "blocked" => slots'[self'[u]].status = "waits"
                      /\ ts_pc'[u] \in {"blocked", "load again", "restore"} => saved'[u] # "waits"
                      /\ ts_pc'[u] \notin {"blocked", "load again", "restore"} =>
                           \A i \in DOMAIN slots' : slots'[i].id = u => slots'[i].status # "waits"
    BY <1>1 DEF StatusesKept
  <2>1. /\ ~dangling' /\ loaded[t] = 1
        /\ ts_pc[t] = "restore" => saved[t] # "waits"
        /\ ts_pc[t] = "save" => slots[self[t]].status # "waits"
    BY <1>1, <1>4, <1>5 DEF StaInv, StatusesKept
  <2>2. CASE u = t
    <3>1. CASE ts_pc[t] = "save" /\ what[t] = "waits"
      <4>1. ts_pc'[t] = "blocked" /\ sts = "waits"
        BY <1>2, <1>3, <3>1 DEF sts
      <4>2. saved'[t] = slots[self[t]].status
        BY <1>3, <2>1, <3>1 DEF Sta!saveStatus, Sta!restoreStatus, Sta!At
      <4>3. slots'[self[t]].status = "waits"
        BY <1>4, <1>5, <4>1
      <4> QED
        BY <1>1, <2>1, <2>2, <3>1, <4>1, <4>2, <4>3
    <3>2. CASE ~(ts_pc[t] = "save" /\ what[t] = "waits")
      <4>1. ts_pc'[t] = "out" /\ sts # "waits"
        BY <1>1, <1>2, <1>3, <2>1, <3>2 DEF sts
      <4> QED
        BY <1>4, <2>1, <2>2, <4>1
    <3> QED
      BY <3>1, <3>2
  <2>3. CASE u # t
    <3>1. ts_pc'[u] = ts_pc[u] /\ loaded'[u] = loaded[u] /\ self'[u] = self[u]
      BY <1>1, <1>2, <1>3, <2>3
    <3>2. saved'[u] = saved[u]
      BY <1>3, <2>3 DEF Sta!saveStatus, Sta!restoreStatus
    <3>3. \A i \in DOMAIN slots : slots[i].id = u => slots'[i] = slots[i]
      BY <1>4, <2>3
    <3>4. ts_pc[u] = "blocked" => slots'[self[u]].status = "waits"
      BY <3>3 DEF StaInv, OwnSlot, StatusesKept
    <3>5. ts_pc[u] \notin {"blocked", "load again", "restore"} =>
             \A i \in DOMAIN slots' : slots'[i].id = u => slots'[i].status # "waits"
      BY <1>4, <3>3, ZenonT(40) DEF StaInv, StatusesKept
    <3> QED
      BY <2>1, <3>1, <3>2, <3>4, <3>5 DEF StaInv, StatusesKept
  <2> QED
    BY <2>2, <2>3
<1> QED
  BY <1>7, <1>8, <1>9, <1>10, <1>11 DEF StaInv

LEMMA StaUnchanged ==
  ASSUME StaInv, UNCHANGED <<slots, array_gen, ts_mutex, self, ts_pc, loaded, saved, what,
                             creating, dangling>>
  PROVE  StaInv'
<1>1. StaTypes' /\ SlotsApart'
  BY DEF StaInv, StaTypes, SlotsApart
<1>2. Adding' /\ OwnSlot'
  BY DEF StaInv, Adding, Sta!Wanted, Sta!At, OwnSlot
<1>3. StatusesKept'
  BY DEF StaInv, StatusesKept
<1> QED
  BY <1>1, <1>2, <1>3 DEF StaInv

LEMMA StaNextInv ==
  ASSUME StaInv, Sta!TSNext
  PROVE  StaInv'
<1>1. CASE Sta!threadStatusPrint
  <2>1. UNCHANGED <<slots, array_gen, ts_mutex, self, ts_pc, loaded, saved, what, creating,
                    dangling>>
    BY <1>1 DEF Sta!threadStatusPrint, Sta!rest
  <2> QED
    BY <2>1, StaUnchanged
<1>2. ASSUME NEW t \in TSThreads, Sta!TSStep(t) PROVE StaInv'
  BY <1>2, StaQuietInv, StaFoundInv, StaAddInv, StaFillInv, StaStoreInv DEF Sta!TSStep
<1> QED
  BY <1>1, <1>2 DEF Sta!TSNext

\* What thread_status promises follows.
LEMMA StaRight ==
  ASSUME StaInv
  PROVE  Sta!StatusRight
<1>1. \A t \in TSThreads : \A i, j \in Sta!Indices(t) : i = j
  BY DEF Sta!Indices, StaInv, SlotsApart
<1>2. ASSUME NEW t \in TSThreads, array_gen = 1, Sta!At(t, "blocked")
      PROVE  slots[self[t]] = [id |-> t, status |-> "waits"]
  <2>1. self[t] \in DOMAIN slots /\ slots[self[t]].id = t /\ slots[self[t]].status = "waits"
    BY <1>2 DEF StaInv, OwnSlot, StatusesKept, Sta!At
  <2> DEFINE Slot == [id : TSThreads \cup {Sta!Fresh}, status : Statuses]
  <2>2. slots \in Seq(Slot)
    BY DEF StaInv, StaTypes
  <2>3. slots[self[t]] \in Slot
    <3> HIDE DEF Slot
    <3> QED
      BY <2>1, <2>2, ElementOf
  <2> QED
    BY <2>1, <2>3
<1>3. ASSUME NEW t \in TSThreads, array_gen = 1, Sta!At(t, "out")
      PROVE  \A i \in Sta!Indices(t) : slots[i].status # "waits"
  BY <1>3 DEF StaInv, StatusesKept, Sta!At, Sta!Indices
<1>4. array_gen = 1 => ~dangling
  BY DEF StaInv, StatusesKept
<1> QED
  <2>2. \A t \in TSThreads : array_gen = 1 =>
           /\ Sta!At(t, "blocked") => slots[self[t]] = [id |-> t, status |-> "waits"]
           /\ Sta!At(t, "out") => \A i \in Sta!Indices(t) : slots[i].status # "waits"
    BY <1>2, <1>3
  <2> QED
    BY <1>1, <2>2, <1>4 DEF Sta!StatusRight

-----------------------------------------------------------------------------
\* par_reduce.

\* Induction up to n, for a set rather than for a formula.
LEMMA InductUpTo ==
  ASSUME NEW n \in Nat, NEW G, 0 \in G, \A i \in 1 .. n : i - 1 \in G => i \in G
  PROVE  \A i \in 0 .. n : i \in G
<1> DEFINE Bad == {i \in 0 .. n : i \notin G}
<1> SUFFICES ASSUME Bad # {} PROVE FALSE
  OBVIOUS
<1>1. Bad \subseteq Nat
  OBVIOUS
<1>2. PICK i \in Bad : \A j \in Bad : ~(<<j, i>> \in OpToRel(<, Nat))
  BY <1>1, WFMin, NatLessThanWellFounded
<1>3. \A j \in Bad : ~(j < i)
  BY <1>1, <1>2, Zenon DEF OpToRel
<1>4. i \in 1 .. n /\ i - 1 \in 0 .. n /\ i - 1 < i /\ i \notin G
  <2>1. i \in 0 .. n /\ i \notin G
    BY <1>2
  <2>2. i # 0
    BY <2>1
  <2> QED
    BY <2>1, <2>2
<1>5. i - 1 \in G
  BY <1>3, <1>4
<1> QED
  BY <1>4, <1>5

\* A fold from the left exists: the recursive functions of the model denote one.
FoldEquation(f, n, b, h, s) ==
    f = [i \in 0 .. n |-> IF i = 0 THEN b ELSE h[<<f[i - 1], s[i]>>]]

LEMMA FoldExists ==
  ASSUME NEW n \in Nat, NEW b \in Int, NEW h \in [Int \X Int -> Int], NEW s \in [1 .. n -> Int]
  PROVE  \E f \in [0 .. n -> Int] : FoldEquation(f, n, b, h, s)
<1> DEFINE G == {m \in 0 .. n : \E f \in [0 .. m -> Int] : FoldEquation(f, m, b, h, s)}
<1>1. 0 \in G
  <2> DEFINE f == [i \in 0 .. 0 |-> b]
  <2>1. f \in [0 .. 0 -> Int]
    OBVIOUS
  <2>2. f = [i \in 0 .. 0 |-> IF i = 0 THEN b ELSE h[<<f[i - 1], s[i]>>]]
    OBVIOUS
  <2>3. FoldEquation(f, 0, b, h, s)
    BY <2>2 DEF FoldEquation
  <2> QED
    BY <2>1, <2>3
<1>2. ASSUME NEW m \in 1 .. n, m - 1 \in G PROVE m \in G
  <2>1. PICK f \in [0 .. m - 1 -> Int] : FoldEquation(f, m - 1, b, h, s)
    BY <1>2
  <2>2. \A i \in 0 .. m - 1 : f[i] = IF i = 0 THEN b ELSE h[<<f[i - 1], s[i]>>]
    BY <2>1 DEF FoldEquation
  <2> DEFINE g == [i \in 0 .. m |-> IF i = m THEN h[<<f[m - 1], s[m]>>] ELSE f[i]]
  <2>3. h[<<f[m - 1], s[m]>>] \in Int
    <3>1. f[m - 1] \in Int /\ s[m] \in Int
      BY <1>2
    <3> QED
      BY <3>1
  <2>4. g \in [0 .. m -> Int]
    <3>1. \A i \in 0 .. m : i # m => i \in 0 .. m - 1
      BY <1>2
    <3> QED
      BY <2>3, <3>1
  <2>5. \A i \in 0 .. m : g[i] = IF i = 0 THEN b ELSE h[<<g[i - 1], s[i]>>]
    <3> SUFFICES ASSUME NEW i \in 0 .. m
                 PROVE  g[i] = IF i = 0 THEN b ELSE h[<<g[i - 1], s[i]>>]
      OBVIOUS
    <3>0. \A j \in 0 .. m : g[j] = IF j = m THEN h[<<f[m - 1], s[m]>>] ELSE f[j]
      OBVIOUS
    <3> HIDE DEF g
    <3>1. i # 0 => g[i - 1] = f[i - 1]
      BY <1>2, <3>0
    <3>2. CASE i = m
      <4>1. i # 0
        BY <1>2, <3>2
      <4>2. g[i] = h[<<f[m - 1], s[m]>>]
        BY <3>0, <3>2, Zenon
      <4> QED
        BY <3>1, <3>2, <4>1, <4>2
    <3>3. CASE i # m
      <4>1. i \in 0 .. m - 1 /\ g[i] = f[i]
        BY <1>2, <3>0, <3>3
      <4> QED
        BY <2>2, <3>1, <4>1
    <3> QED
      BY <3>2, <3>3
  <2> HIDE DEF g
  <2>6. g = [i \in 0 .. m |-> IF i = 0 THEN b ELSE h[<<g[i - 1], s[i]>>]]
    BY <2>4, <2>5
  <2>7. FoldEquation(g, m, b, h, s)
    BY <2>6 DEF FoldEquation
  <2> QED
    BY <1>2, <2>4, <2>7
<1> HIDE DEF G
<1>3. \A m \in 0 .. n : m \in G
  BY <1>1, <1>2, InductUpTo
<1>4. n \in G
  BY <1>3
<1> QED
  BY <1>4 DEF G

\* Division does not turn an order round.
LEMMA QuotientsGrow ==
  ASSUME NEW k \in Nat \ {0}, NEW a \in Nat, NEW c \in Nat, a <= c
  PROVE  a \div k \in Nat /\ c \div k \in Nat /\ a \div k <= c \div k
<1>1. \A x \in Nat : /\ x \div k \in Nat
                     /\ k * (x \div k) <= x /\ x < k * (x \div k) + k
  OBVIOUS
<1>2. a \div k \in Nat /\ c \div k \in Nat
  BY <1>1
<1>3. SUFFICES ASSUME a \div k >= c \div k + 1 PROVE FALSE
  BY <1>2
<1>4. PICK p \in Nat : p = a \div k
  BY <1>2
<1>5. PICK q \in Nat : q = c \div k
  BY <1>2
<1>6. k * p <= a /\ c < k * q + k /\ p >= q + 1
  BY <1>1, <1>3, <1>4, <1>5
<1>7. k * p >= k * (q + 1)
  BY <1>6
<1>8. k * (q + 1) = k * q + k
  OBVIOUS
<1>9. k * p \in Nat /\ k * q \in Nat
  OBVIOUS
<1> QED
  BY <1>6, <1>7, <1>8, <1>9

\* Where a thread's range begins: at the end of the one before it, from the first
\* element to the last.
LEMMA Bounds ==
  ASSUME NEW n \in Nat, NEW k \in Nat \ {0}
  PROVE  /\ Par!bound(n, 0, k) = 0 /\ Par!bound(n, k, k) = n
         /\ \A t \in 0 .. k - 1 : /\ Par!bound(n, t, k) \in Nat
                                  /\ Par!bound(n, t, k) <= Par!bound(n, t + 1, k)
                                  /\ Par!bound(n, t + 1, k) <= n
<1>1. \A a \in Nat : a \div k \in Nat
  OBVIOUS
<1>2. ASSUME NEW a \in Nat, NEW c \in Nat, a <= c PROVE a \div k <= c \div k
  BY <1>2, QuotientsGrow
<1>3. (n * k) \div k = n /\ (n * 0) \div k = 0
  OBVIOUS
<1>4. ASSUME NEW t \in 0 .. k - 1
      PROVE  n * t \in Nat /\ n * (t + 1) \in Nat /\ n * t <= n * (t + 1) /\ n * (t + 1) <= n * k
  <2>1. n * (t + 1) = n * t + n
    OBVIOUS
  <2>2. t \in Nat /\ n * t \in Nat
    OBVIOUS
  <2>3. PICK u \in Nat : k = t + 1 + u
    <3>1. k - (t + 1) \in Nat
      OBVIOUS
    <3> QED
      BY <3>1
  <2>4. n * k = n * (t + 1) + n * u /\ n * u \in Nat
    BY <2>3
  <2> QED
    BY <2>1, <2>2, <2>4
<1>5. n * k \in Nat
  OBVIOUS
<1> QED
  BY <1>1, <1>2, <1>3, <1>4, <1>5 DEF Par!bound

\* What a fold with the reducer r gives.
Results(r) == IF r = "slow" THEN {56} ELSE Int

LEMMA ApplyLaws ==
  ASSUME NEW r \in Par!Reducers
  PROVE  /\ Par!get_reducer_base_case(r) \in Results(r) /\ Results(r) \subseteq Int
         /\ \A x, y \in Int : Par!apply(r, x, y) \in Results(r)
         /\ \A x \in Results(r) : Par!apply(r, x, Par!get_reducer_base_case(r)) = x
         /\ \A x, y, z \in Int :
               Par!apply(r, Par!apply(r, x, y), z) = Par!apply(r, x, Par!apply(r, y, z))
<1> USE DEF Par!Reducers, Par!get_reducer_base_case, Par!apply, Results
<1>1. CASE r = "add"
  BY <1>1
<1>2. CASE r = "mult"
  <2>1. \A x, y, z \in Int : (x * y) * z = x * (y * z)
    OBVIOUS
  <2> QED
    BY <1>2, <2>1
<1>3. CASE r = "slow"
  BY <1>3
<1> QED
  BY <1>1, <1>2, <1>3

\* The arguments of par_reduce, as main passes them.
ParArgs ==
    /\ list \in Seq(Int) /\ Len(list) >= 1
    /\ reducer \in Par!Reducers
    /\ asked \in Nat \ {0}

LEMMA ThreadCount ==
  ASSUME ParArgs
  PROVE  Par!num_threads \in Nat \ {0} /\ Len(list) \in Nat
  BY DEF ParArgs, Par!num_threads

LEMMA ReduceFolds ==
  ASSUME ParArgs
  PROVE  /\ Par!reduce[0] = Par!get_reducer_base_case(reducer)
         /\ \A n \in 1 .. Len(list) :
               Par!reduce[n] = Par!apply(reducer, Par!reduce[n - 1], list[n])
         /\ \A n \in 0 .. Len(list) : Par!reduce[n] \in Results(reducer)
<1> DEFINE m == Len(list)
           b == Par!get_reducer_base_case(reducer)
           h == [p \in Int \X Int |-> Par!apply(reducer, p[1], p[2])]
           Eq(f) == f = [n \in 0 .. m |-> IF n = 0 THEN b
                                          ELSE Par!apply(reducer, f[n - 1], list[n])]
<1>1. m \in Nat /\ list \in [1 .. m -> Int] /\ \A n \in 1 .. m : list[n] \in Int
  BY DEF ParArgs
<1>2. b \in Int /\ b \in Results(reducer)
  BY ApplyLaws DEF ParArgs
<1>3. \A x, y \in Int :
        Par!apply(reducer, x, y) \in Int /\ Par!apply(reducer, x, y) \in Results(reducer)
  BY ApplyLaws DEF ParArgs
<1>4. h \in [Int \X Int -> Int] /\ \A x, y \in Int : h[<<x, y>>] = Par!apply(reducer, x, y)
  BY <1>3
<1>5. \E f : Eq(f)
  <2> HIDE DEF b, h, m
  <2>1. PICK f \in [0 .. m -> Int] : FoldEquation(f, m, b, h, list)
    BY <1>1, <1>2, <1>4, FoldExists
  <2>2. \A n \in 0 .. m : f[n] = IF n = 0 THEN b ELSE h[<<f[n - 1], list[n]>>]
    BY <2>1 DEF FoldEquation
  <2>3. \A n \in 0 .. m : n # 0 => f[n - 1] \in Int /\ list[n] \in Int
    BY <1>1, <2>1
  <2>4. \A n \in 0 .. m : f[n] = IF n = 0 THEN b ELSE Par!apply(reducer, f[n - 1], list[n])
    BY <1>4, <2>2, <2>3
  <2>5. f = [n \in 0 .. m |-> f[n]]
    BY <2>1
  <2> QED
    BY <2>4, <2>5
<1>6. Eq(Par!reduce)
  BY <1>5, Zenon DEF Par!reduce
<1> HIDE DEF h
<1>7. \A n \in 0 .. m : Par!reduce[n] = IF n = 0 THEN b
                                       ELSE Par!apply(reducer, Par!reduce[n - 1], list[n])
  BY <1>6
<1> HIDE DEF b, m
<1> DEFINE G == {n \in 0 .. m : Par!reduce[n] \in Results(reducer)}
<1>8. 0 \in G
  BY <1>1, <1>2, <1>7
<1>9. ASSUME NEW n \in 1 .. m, n - 1 \in G PROVE n \in G
  <2>1. Par!reduce[n - 1] \in Int
    BY <1>9, ApplyLaws DEF ParArgs
  <2>2. n \in 0 .. m /\ n # 0 /\ list[n] \in Int
    BY <1>1, <1>9
  <2>3. Par!reduce[n] = Par!apply(reducer, Par!reduce[n - 1], list[n])
    BY <1>7, <2>2
  <2>4. Par!reduce[n] \in Results(reducer)
    BY <1>3, <2>1, <2>2, <2>3
  <2> QED
    BY <2>2, <2>4
<1> HIDE DEF G
<1>10. \A n \in 0 .. m : n \in G
  BY <1>1, <1>8, <1>9, InductUpTo
<1> QED
  BY <1>1, <1>7, <1>10 DEF G, b, m

LEMMA ReduceUnchanged ==
  ASSUME list' = list, reducer' = reducer
  PROVE  Par!reduce' = Par!reduce
  BY DEF Par!reduce

\* A thread is inside its range, and the elements it has folded so far, put after the
\* fold of all the elements before its range, give the fold up to where it is.
PartRight(t) ==
    /\ worker[t] \in [next : Nat, right : Nat, acc : Int]
    /\ worker[t].right = Par!bound(Len(list), t + 1, Par!num_threads)
    /\ Par!bound(Len(list), t, Par!num_threads) <= worker[t].next
    /\ worker[t].next <= worker[t].right
    /\ Par!reduce[worker[t].next] =
          Par!apply(reducer, Par!reduce[Par!bound(Len(list), t, Par!num_threads)], worker[t].acc)

ParInv ==
    /\ ParArgs
    /\ DOMAIN worker = Par!Workers /\ \A t \in Par!Workers : PartRight(t)
    /\ joined \in Nat /\ joined <= Par!num_threads
    /\ \A t \in Par!Workers : t < joined => worker[t].next = worker[t].right
    /\ Par!ReduceRight

LEMMA WorkerBounds ==
  ASSUME ParArgs, NEW t \in Par!Workers
  PROVE  /\ t \in Nat
         /\ Par!bound(Len(list), t, Par!num_threads) \in 0 .. Len(list)
         /\ Par!bound(Len(list), t + 1, Par!num_threads) \in 0 .. Len(list)
         /\ Par!bound(Len(list), t, Par!num_threads) <= Par!bound(Len(list), t + 1, Par!num_threads)
<1>1. t \in 0 .. Par!num_threads - 1 /\ Par!num_threads \in Nat \ {0} /\ Len(list) \in Nat
  BY ThreadCount DEF Par!Workers
<1>2. t + 1 \in 0 .. Par!num_threads - 1 \/ t + 1 = Par!num_threads
  BY <1>1
<1>3. Par!bound(Len(list), t + 1, Par!num_threads) \in Nat
  BY <1>1, <1>2, Bounds
<1>4. /\ Par!bound(Len(list), t, Par!num_threads) \in Nat
      /\ Par!bound(Len(list), t, Par!num_threads) <= Par!bound(Len(list), t + 1, Par!num_threads)
      /\ Par!bound(Len(list), t + 1, Par!num_threads) <= Len(list)
  BY <1>1, Bounds
<1> QED
  BY <1>1, <1>3, <1>4

LEMMA ParInitInv == Par!PRInit => ParInv
<1> SUFFICES ASSUME Par!PRInit PROVE ParInv
  OBVIOUS
<1>1. ParArgs
  <2>1. PICK n \in 1 .. MaxList : list \in [1 .. n -> Elems]
    BY DEF Par!PRInit
  <2>2. list \in [1 .. n -> Int]
    BY <2>1, SyncAssumption DEF Par!ParReduceAssumption
  <2>3. n \in Nat /\ n >= 1
    BY <2>1
  <2>4. list \in Seq(Int) /\ Len(list) = n
    BY <2>2, <2>3
  <2> QED
    BY <2>3, <2>4 DEF Par!PRInit, ParArgs
<1>2. ASSUME NEW t \in Par!Workers PROVE PartRight(t)
  <2> DEFINE l == Par!bound(Len(list), t, Par!num_threads)
             r == Par!bound(Len(list), t + 1, Par!num_threads)
             b == Par!get_reducer_base_case(reducer)
  <2>1. worker[t] = [next |-> l, right |-> r, acc |-> b]
    BY DEF Par!PRInit
  <2>2. l \in 0 .. Len(list) /\ r \in 0 .. Len(list) /\ l <= r /\ Len(list) \in Nat
    BY <1>1, WorkerBounds, ThreadCount
  <2>3. b \in Int
    BY <1>1, ApplyLaws DEF ParArgs
  <2>4. Par!reduce[l] = Par!apply(reducer, Par!reduce[l], b)
    BY <1>1, <2>2, ReduceFolds, ApplyLaws DEF ParArgs
  <2> HIDE DEF b, r, l
  <2>5. worker[t].next = l /\ worker[t].right = r /\ worker[t].acc = b
    BY <2>1
  <2>6. worker[t] \in [next : Nat, right : Nat, acc : Int]
    BY <2>1, <2>2, <2>3
  <2> QED
    BY <2>2, <2>4, <2>5, <2>6 DEF PartRight, l, r
<1>3. Par!num_threads \in Nat \ {0}
  BY <1>1, ThreadCount
<1>4. joined \in Nat /\ joined = 0 /\ DOMAIN worker = Par!Workers /\ reduced = <<>>
  BY DEF Par!PRInit
<1> QED
  BY <1>1, <1>2, <1>3, <1>4 DEF ParInv, Par!ReduceRight, Par!Workers

\* A turn of the worker's loop.
LEMMA ParSolveInv ==
  ASSUME ParInv, NEW t \in Par!Workers, Par!solve_worker(t)
  PROVE  ParInv'
<1>1. /\ t \in Nat
      /\ Par!bound(Len(list), t, Par!num_threads) \in 0 .. Len(list)
      /\ Par!bound(Len(list), t + 1, Par!num_threads) \in 0 .. Len(list)
  BY WorkerBounds DEF ParInv
<1>2. Len(list) \in Nat /\ Par!num_threads \in Nat \ {0}
  BY ThreadCount DEF ParInv
<1>3. /\ worker[t].next < worker[t].right /\ joined' = joined /\ reduced' = reduced
      /\ list' = list /\ reducer' = reducer /\ asked' = asked
  BY DEF Par!solve_worker, Par!args
<1> DEFINE w == worker[t]
           p == Par!reduce[Par!bound(Len(list), t, Par!num_threads)]
           w2 == [next |-> w.next + 1, right |-> w.right,
                  acc |-> Par!apply(reducer, w.acc, list[w.next + 1])]
<1>4. /\ w \in [next : Nat, right : Nat, acc : Int]
      /\ Par!bound(Len(list), t, Par!num_threads) <= w.next /\ w.right <= Len(list)
      /\ w.next < w.right /\ w.right = Par!bound(Len(list), t + 1, Par!num_threads)
      /\ Par!reduce[w.next] = Par!apply(reducer, p, w.acc)
  BY <1>1, <1>3 DEF ParInv, PartRight
<1>5. worker' = [worker EXCEPT ![t] = w2]
  BY DEF Par!solve_worker
<1>6. w.next + 1 \in 1 .. Len(list) /\ w.next \in 0 .. Len(list)
  BY <1>2, <1>4
<1>7. list[w.next + 1] \in Int
  BY <1>6 DEF ParInv, ParArgs
<1>8. Par!reduce[w.next + 1] = Par!apply(reducer, Par!reduce[w.next], list[w.next + 1])
  <2>1. (w.next + 1) - 1 = w.next
    BY <1>4
  <2> QED
    BY <1>6, <2>1, ReduceFolds DEF ParInv
<1>9. p \in Int
  BY <1>1, ReduceFolds, ApplyLaws DEF ParInv, ParArgs
<1>10. Par!reduce[w.next + 1] = Par!apply(reducer, p, Par!apply(reducer, w.acc, list[w.next + 1]))
  BY <1>4, <1>7, <1>8, <1>9, ApplyLaws DEF ParInv, ParArgs
<1>11. Par!apply(reducer, w.acc, list[w.next + 1]) \in Int
  BY <1>4, <1>7, ApplyLaws DEF ParInv, ParArgs
<1>12. /\ w2 \in [next : Nat, right : Nat, acc : Int]
       /\ w2.next = w.next + 1 /\ w2.right = w.right
       /\ w2.acc = Par!apply(reducer, w.acc, list[w.next + 1])
  BY <1>4, <1>11
<1>13. worker'[t] = w2 /\ DOMAIN worker' = Par!Workers
       /\ \A u \in Par!Workers : u # t => worker'[u] = worker[u]
  BY <1>5 DEF ParInv
<1>14. Par!num_threads' = Par!num_threads /\ Par!reduce' = Par!reduce /\ Par!Workers' = Par!Workers
  BY <1>3, ReduceUnchanged DEF Par!num_threads, Par!Workers
<1> HIDE DEF w2
<1>15. ASSUME NEW u \in Par!Workers PROVE PartRight(u)'
  <2>1. CASE u = t
    <3>1. /\ worker'[u] = w2 /\ w2.next <= w2.right
          /\ Par!bound(Len(list), t, Par!num_threads) <= w2.next
      BY <1>1, <1>4, <1>12, <1>13, <2>1
    <3>2. Par!reduce[w2.next] = Par!apply(reducer, p, w2.acc)
      BY <1>10, <1>12
    <3> QED
      BY <1>3, <1>4, <1>12, <1>14, <2>1, <3>1, <3>2 DEF PartRight, Par!bound
  <2>2. CASE u # t
    <3>1. worker'[u] = worker[u] /\ PartRight(u)
      BY <1>13, <2>2 DEF ParInv
    <3> QED
      BY <1>3, <1>14, <3>1 DEF PartRight, Par!bound
  <2> QED
    BY <2>1, <2>2
<1>16. t >= joined
  <2>1. joined \in Nat /\ (t < joined => w.next = w.right)
    BY DEF ParInv
  <2> QED
    BY <1>1, <1>4, <2>1
<1>17. \A u \in Par!Workers : u < joined => worker'[u].next = worker'[u].right
  BY <1>1, <1>13, <1>16 DEF ParInv
<1>18. Par!ReduceRight'
  BY <1>3, <1>14 DEF ParInv, Par!ReduceRight
<1> QED
  BY <1>3, <1>13, <1>14, <1>15, <1>17, <1>18 DEF ParInv, ParArgs

\* When every thread has been joined, combining their results in order gives the fold of
\* the whole list.
LEMMA CombinedRight ==
  ASSUME ParInv, joined = Par!num_threads
  PROVE  Par!par_reduced[Par!num_threads] = Par!reduce[Len(list)]
<1> DEFINE k == Par!num_threads
           m == Len(list)
           b == Par!get_reducer_base_case(reducer)
           h == [p \in Int \X Int |-> Par!apply(reducer, p[1], p[2])]
           s == [t \in 1 .. k |-> worker[t - 1].acc]
           at(t) == Par!reduce[Par!bound(m, t, k)]
           Eq(f) == f = [t \in 0 .. k |-> IF t = 0 THEN b
                                          ELSE Par!apply(reducer, f[t - 1], worker[t - 1].acc)]
<1>1. k \in Nat \ {0} /\ m \in Nat
  BY ThreadCount DEF ParInv
<1>2. ASSUME NEW t \in 1 .. k
      PROVE  /\ worker[t - 1].acc \in Int
             /\ at(t) = Par!apply(reducer, at(t - 1), worker[t - 1].acc)
  <2>1. t - 1 \in Par!Workers /\ t - 1 < joined /\ (t - 1) + 1 = t
    BY <1>1, <1>2 DEF Par!Workers
  <2>2. PartRight(t - 1) /\ worker[t - 1].next = worker[t - 1].right
    BY <2>1 DEF ParInv
  <2>3. worker[t - 1].next = Par!bound(m, t, k)
    BY <2>1, <2>2 DEF PartRight
  <2> QED
    BY <2>2, <2>3 DEF PartRight
<1>3. b \in Int
  BY ApplyLaws DEF ParInv, ParArgs
<1>4. \A x, y \in Int : Par!apply(reducer, x, y) \in Int
  BY ApplyLaws DEF ParInv, ParArgs
<1>5. h \in [Int \X Int -> Int] /\ \A x, y \in Int : h[<<x, y>>] = Par!apply(reducer, x, y)
  BY <1>4
<1>6. s \in [1 .. k -> Int] /\ \A t \in 1 .. k : s[t] = worker[t - 1].acc
  BY <1>2
<1>7. at(0) = b /\ at(k) = Par!reduce[m]
  BY <1>1, Bounds, ReduceFolds DEF ParInv
<1>8. \E f : Eq(f)
  <2> HIDE DEF b, h, m, k, s
  <2>1. PICK f \in [0 .. k -> Int] : FoldEquation(f, k, b, h, s)
    BY <1>1, <1>3, <1>5, <1>6, FoldExists
  <2>2. \A t \in 0 .. k : f[t] = IF t = 0 THEN b ELSE h[<<f[t - 1], s[t]>>]
    BY <2>1 DEF FoldEquation
  <2>3. \A t \in 0 .. k : t # 0 => /\ f[t - 1] \in Int /\ s[t] \in Int
                                   /\ s[t] = worker[t - 1].acc
    BY <1>1, <1>6, <2>1
  <2>4. \A t \in 0 .. k : f[t] = IF t = 0 THEN b
                                 ELSE Par!apply(reducer, f[t - 1], worker[t - 1].acc)
    BY <1>5, <2>2, <2>3, ZenonT(40)
  <2>5. f = [t \in 0 .. k |-> f[t]]
    BY <2>1
  <2> QED
    BY <2>4, <2>5
<1>9. Eq(Par!par_reduced)
  BY <1>8, Zenon DEF Par!par_reduced
<1> HIDE DEF h, s
<1>10. \A t \in 0 .. k : Par!par_reduced[t] =
          IF t = 0 THEN b ELSE Par!apply(reducer, Par!par_reduced[t - 1], worker[t - 1].acc)
  BY <1>9
<1> DEFINE G == {t \in 0 .. k : Par!par_reduced[t] = at(t)}
<1> SUFFICES k \in G
  BY <1>7
<1> HIDE DEF b, m, k, at
<1>11. 0 \in G
  BY <1>1, <1>7, <1>10
<1>12. ASSUME NEW t \in 1 .. k, t - 1 \in G PROVE t \in G
  <2>1. t \in 0 .. k /\ t # 0
    BY <1>1, <1>12
  <2>2. Par!par_reduced[t] = Par!apply(reducer, Par!par_reduced[t - 1], worker[t - 1].acc)
    BY <1>10, <2>1
  <2>3. Par!par_reduced[t - 1] = at(t - 1)
    BY <1>12
  <2>4. at(t) = Par!apply(reducer, at(t - 1), worker[t - 1].acc)
    BY <1>2
  <2> QED
    BY <2>1, <2>2, <2>3, <2>4
<1> HIDE DEF G
<1>13. \A t \in 0 .. k : t \in G
  BY <1>1, <1>11, <1>12, InductUpTo
<1> QED
  BY <1>1, <1>13

LEMMA ArgsUnchanged ==
  ASSUME ParInv, UNCHANGED <<list, reducer, asked, worker>>
  PROVE  /\ Par!num_threads' = Par!num_threads /\ Par!reduce' = Par!reduce
         /\ Par!Workers' = Par!Workers /\ ParArgs'
         /\ \A t \in Par!Workers : PartRight(t)'
<1>1. Par!num_threads' = Par!num_threads /\ Par!reduce' = Par!reduce /\ Par!Workers' = Par!Workers
  BY ReduceUnchanged DEF Par!num_threads, Par!Workers
<1>2. \A t \in Par!Workers : PartRight(t)'
  BY <1>1 DEF ParInv, PartRight, Par!bound
<1> QED
  BY <1>1, <1>2 DEF ParInv, ParArgs

LEMMA ParUnchanged ==
  ASSUME ParInv, UNCHANGED <<list, reducer, asked, worker, joined, reduced>>
  PROVE  ParInv'
  BY ArgsUnchanged DEF ParInv, Par!ReduceRight

LEMMA ParNextInv ==
  ASSUME ParInv, Par!PRNext
  PROVE  ParInv'
<1>2. CASE Par!pthread_create
  BY <1>2, ParUnchanged DEF Par!pthread_create, Par!args
<1>3. CASE Par!pthread_join
  <2>1. /\ joined < Par!num_threads /\ worker[joined].next = worker[joined].right
        /\ joined' = joined + 1 /\ reduced' = reduced
        /\ list' = list /\ reducer' = reducer /\ asked' = asked /\ worker' = worker
    BY <1>3 DEF Par!pthread_join, Par!args
  <2>2. Par!num_threads \in Nat \ {0} /\ joined \in Nat /\ Par!Workers \subseteq Nat
    BY ThreadCount DEF ParInv, Par!Workers
  <2>3. \A t \in Par!Workers : t < joined' => worker'[t].next = worker'[t].right
    BY <2>1, <2>2 DEF ParInv
  <2>4. /\ Par!num_threads' = Par!num_threads /\ Par!reduce' = Par!reduce
        /\ Par!Workers' = Par!Workers /\ ParArgs'
        /\ \A t \in Par!Workers : PartRight(t)'
    BY <2>1, ArgsUnchanged
  <2>5. joined' \in Nat /\ joined' <= Par!num_threads'
    BY <2>1, <2>2, <2>4
  <2>6. Par!ReduceRight' /\ DOMAIN worker' = Par!Workers'
    BY <2>1, <2>4 DEF ParInv, Par!ReduceRight
  <2> QED
    BY <2>3, <2>4, <2>5, <2>6 DEF ParInv
<1>4. CASE Par!combine
  <2>1. /\ joined = Par!num_threads /\ joined' = joined
        /\ list' = list /\ reducer' = reducer /\ asked' = asked /\ worker' = worker
        /\ reduced' = <<Par!par_reduced[Par!num_threads]>>
    BY <1>4 DEF Par!combine, Par!args
  <2>2. reduced'[1] = Par!reduce[Len(list)]
    BY <2>1, CombinedRight
  <2> QED
    BY <2>1, <2>2, ArgsUnchanged DEF ParInv, Par!ReduceRight
<1> QED
  BY <1>2, <1>3, <1>4, ParSolveInv DEF Par!PRNext

-----------------------------------------------------------------------------
\* The inductive invariant of the three: each is about the part that runs.
ResultsInv ==
    /\ focus = "rendezvous" => RdvInv
    /\ focus = "par_reduce" => ParInv
    /\ focus = "thread_status" => StaInv

LEMMA ResultsInit == SInit => ResultsInv
<1> SUFFICES ASSUME SInit PROVE ResultsInv
  OBVIOUS
<1>1. focus = "rendezvous" => RdvInv
  <2>1. focus = "rendezvous" => RdvInit
    BY DEF SInit
  <2>2. ASSUME RdvInit PROVE RdvInv
    BY <2>2 DEF RdvInv, RdvInit, RThreads, Partner
  <2> QED
    BY <2>1, <2>2
<1>2. focus = "par_reduce" => ParInv
  BY ParInitInv DEF SInit
<1>3. focus = "thread_status" => StaInv
  BY StaInitInv DEF SInit
<1> QED
  BY <1>1, <1>2, <1>3 DEF ResultsInv

LEMMA ResultsNext == ASSUME ResultsInv, [SNext]_allvars PROVE ResultsInv'
<1>1. CASE (\E t \in RThreads : RdvStep(t)) \/ RdvMain
  BY <1>1, RdvNextInv DEF RdvStep, RdvMain, ResultsInv
<1>2. CASE focus = "par_reduce" /\ Par!PRNext /\ UNCHANGED focus
  BY <1>2, ParNextInv DEF ResultsInv
<1>3. CASE focus = "thread_status" /\ Sta!TSNext /\ UNCHANGED focus
  BY <1>3, StaNextInv DEF ResultsInv
<1>4. CASE focus' = focus /\ focus \notin {"rendezvous", "par_reduce", "thread_status"}
  BY <1>4 DEF ResultsInv
<1>5. CASE UNCHANGED allvars
  <2>1. RdvInv => RdvInv'
    BY <1>5 DEF allvars, rdvvars, RdvInv
  <2>2. StaInv => StaInv'
    BY <1>5, StaUnchanged DEF allvars, tsvars
  <2>3. ParInv => ParInv'
    BY <1>5, ParUnchanged DEF allvars, prvars
  <2> QED
    BY <1>5, <2>1, <2>2, <2>3 DEF ResultsInv, allvars
<1>6. (\E t \in Threads : BarrierStep(t)) \/ (\E t \in SemThreads : SemStep(t)) =>
         focus' = focus /\ focus \notin {"rendezvous", "par_reduce", "thread_status"}
  BY DEF BarrierStep, SemStep
<1> QED
  BY <1>1, <1>2, <1>3, <1>4, <1>5, <1>6 DEF SNext

\* What the threads hand to each other is whole.  rendezvous.c:52-83: a quote is decoded to
\* its end before it is printed.  par_reduce.c:34-73: for every list of integers and any
\* number of threads, however they run, the combined result is the fold of the list.
\* thread_status.c:206-295: a thread has at most one slot, and as long as the array has not
\* moved, its status stays with it.
THEOREM ResultsStayWhole == SSpec => []ThreadResults
<1>1. ResultsInv => ThreadResults
  <2>1. RdvInv => QuotesWhole
    BY DEF RdvInv, QuotesWhole
  <2>2. ParInv => Par!ReduceRight
    BY DEF ParInv
  <2> QED
    BY <2>1, <2>2, StaRight DEF ResultsInv, ThreadResults
<1> QED
  BY <1>1, ResultsInit, ResultsNext, PTL DEF SSpec

-----------------------------------------------------------------------------
\* The workers of parallel_make, for every number of threads and of rules, every graph of
\* dependencies and every outcome of the commands.

MakeShape ==
    /\ deps \in [Rules -> SUBSET Rules]
    /\ mtime \in [Rules -> 0 .. Last]
    /\ state \in [Rules -> {DEFAULT, VALID, INVALID}]
    /\ rules \in Seq(Rules)
    /\ rules_lock \in Makers \cup {Nobody}
    /\ mk_pc \in [Makers -> {"lock", "scan", "run", "publish", "wait", "asleep", "exit"}]
    /\ mk_i \in [Makers -> Nat]
    /\ job \in [Makers -> Nat]
    /\ st \in [Makers -> {DEFAULT, VALID, INVALID}]
    /\ ran \in [Rules -> Nat]

\* A scan holds rules_lock and stays within the vector.
MakeScanning ==
    \A t \in Makers :
        /\ mk_pc[t] \in {"scan", "wait"} => rules_lock = t
        /\ mk_pc[t] = "scan" => mk_i[t] \in 1 .. Len(rules)

MakeBusy(t) == mk_pc[t] \in {"run", "publish"}

\* A rule is in the vector once and untouched, or one thread works on it and its state
\* is not yet published, or it is finished.
MakeOwned ==
    /\ \A k, l \in 1 .. Len(rules) : k # l => rules[k] # rules[l]
    /\ \A k \in 1 .. Len(rules) : ran[rules[k]] = 0 /\ state[rules[k]] = DEFAULT
    /\ \A t \in Makers :
          MakeBusy(t) =>
            /\ job[t] \in Rules
            /\ state[job[t]] = DEFAULT
            /\ mk_pc[t] = "run" => ran[job[t]] = 0
            /\ \A k \in 1 .. Len(rules) : rules[k] # job[t]
            /\ \A u \in Makers : MakeBusy(u) /\ u # t => job[u] # job[t]
    /\ \A r \in Rules : ran[r] <= 1

MakeDepsValid(r) == \A d \in deps[r] : state[d] = VALID

\* What has been run, or is about to be or to count as satisfied, without being a file
\* has only satisfied dependencies.
MakeJustified ==
    /\ \A r \in Rules :
          ~IsFile(r) /\ (ran[r] > 0 \/ state[r] = VALID) => MakeDepsValid(r)
    /\ \A t \in Makers :
          ~IsFile(job[t]) /\ (mk_pc[t] = "run" \/ (mk_pc[t] = "publish" /\ st[t] = VALID))
             => MakeDepsValid(job[t])

\* The inductive invariant.
MakeInv == MakeShape /\ MakeScanning /\ MakeOwned /\ MakeJustified

LEMMA MakeStateCodes ==
  DEFAULT # VALID /\ DEFAULT # INVALID /\ VALID # INVALID
  BY DEF DEFAULT, VALID, INVALID

LEMMA MakeWithoutFacts ==
  ASSUME NEW s \in Seq(Rules), NEW k \in 1 .. Len(s)
  PROVE  /\ Without(s, k) \in Seq(Rules)
         /\ Len(Without(s, k)) = Len(s) - 1
         /\ \A j \in 1 .. Len(s) - 1 : Without(s, k)[j] = s[IF j < k THEN j ELSE j + 1]
<1> DEFINE a == SubSeq(s, 1, k - 1)
           b == SubSeq(s, k + 1, Len(s))
<1>1. Len(s) \in Nat /\ k \in Nat
  OBVIOUS
<1>2. a \in Seq(Rules) /\ Len(a) = k - 1 /\ \A j \in 1 .. k - 1 : a[j] = s[j]
  BY <1>1
<1>3. /\ b \in Seq(Rules) /\ Len(b) = Len(s) - k
      /\ \A j \in 1 .. Len(s) - k : b[j] = s[j + k]
  BY <1>1
<1> HIDE DEF a, b
<1>4. /\ a \o b \in Seq(Rules) /\ Len(a \o b) = Len(s) - 1
      /\ \A j \in 1 .. Len(s) - 1 : (a \o b)[j] = IF j < k THEN a[j] ELSE b[j - k + 1]
  <2>1. a \o b \in Seq(Rules) /\ Len(a \o b) = Len(a) + Len(b)
    BY <1>2, <1>3, ConcatProperties
  <2>2. \A j \in 1 .. Len(a) + Len(b) :
           (a \o b)[j] = IF j <= Len(a) THEN a[j] ELSE b[j - Len(a)]
    BY <1>2, <1>3, ConcatProperties
  <2>3. Len(a) + Len(b) = Len(s) - 1
    BY <1>1, <1>2, <1>3
  <2>4. ASSUME NEW j \in 1 .. Len(s) - 1
        PROVE  (a \o b)[j] = IF j < k THEN a[j] ELSE b[j - k + 1]
    <3>1. (j <= Len(a) <=> j < k) /\ j - Len(a) = j - k + 1
      BY <1>1, <1>2
    <3> QED
      BY <2>2, <2>3, <3>1
  <2> QED
    BY <2>1, <2>3, <2>4
<1>5. \A j \in 1 .. Len(s) - 1 : (a \o b)[j] = s[IF j < k THEN j ELSE j + 1]
  BY <1>1, <1>2, <1>3, <1>4
<1> QED
  BY <1>4, <1>5 DEF a, b, Without

\* What run_status promises about the dependencies of a target that is not a file.
LEMMA MakeRunStatusFacts ==
  ASSUME NEW r \in Rules, MakeShape, ~IsFile(r)
  PROVE  /\ run_status(r) # "SAT_NO_RUN"
         /\ run_status(r) = "RUN_IMM" => MakeDepsValid(r)
<1> DEFINE open == {d \in deps[r] : state[d] # VALID}
<1>1. CASE deps[r] = {}
  BY <1>1 DEF run_status, MakeDepsValid
<1>2. CASE deps[r] # {}
  <2>1. CASE open = {}
    <3>1. run_status(r) = "RUN_IMM"
      BY <1>2, <2>1 DEF run_status
    <3> QED
      BY <3>1, <2>1 DEF MakeDepsValid
  <2>2. CASE open # {}
    <3>1. run_status(r) \in {"NOT_FINISHED", "ERR"}
      BY <1>2, <2>2 DEF run_status
    <3> QED
      BY <3>1
  <2> QED
    BY <2>1, <2>2
<1> QED
  BY <1>1, <1>2

LEMMA MakeInitInv == MakeInit => MakeInv
<1> SUFFICES ASSUME MakeInit PROVE MakeInv
  OBVIOUS
<1> USE ParMakeAssumption DEF MakeInit, Rules, Last, DEFAULT, VALID,
   INVALID
<1>1. MakeShape
  <2>1. rules \in Seq(Rules) /\ Len(rules) = NRules
    OBVIOUS
  <2> QED
    BY <2>1 DEF MakeShape
<1>2. MakeScanning /\ MakeJustified
  BY DEF MakeScanning, MakeJustified
<1>3. MakeOwned
  BY DEF MakeOwned, MakeBusy
<1> QED
  BY <1>1, <1>2, <1>3 DEF MakeInv

\* Steps that neither touch the vector nor a rule.
LEMMA MakeQuietInv ==
  ASSUME MakeInv, NEW t \in Makers,
         Lock(t) \/ Leave(t) \/ Skip(t) \/ Sleep(t) \/ MakerWakes(t)
  PROVE  MakeInv'
<1> USE DEF MakeInv, Goto, input
<1>1. UNCHANGED <<deps, mtime, state, rules, job, st, ran>>
  BY DEF Lock, Leave, Skip, Sleep, MakerWakes
<1>2. MakeShape'
  <2>1. rules_lock' \in Makers \cup {Nobody}
    BY DEF MakeShape, Lock, Leave, Skip, Sleep, MakerWakes
  <2>2. mk_i' \in [Makers -> Nat]
    <3>1. CASE Skip(t)
      <4>1. mk_i' = mk_i \/ mk_i' = [mk_i EXCEPT ![t] = mk_i[t] + 1]
        BY <3>1 DEF Skip
      <4>2. mk_i[t] + 1 \in Nat
        BY DEF MakeShape
      <4> QED
        BY <4>1, <4>2 DEF MakeShape
    <3>2. CASE Lock(t)
      BY <3>2 DEF MakeShape, Lock
    <3> QED
      BY <3>1, <3>2 DEF MakeShape, Leave, Sleep, MakerWakes
  <2>3. mk_pc' \in [Makers -> {"lock", "scan", "run", "publish", "wait", "asleep", "exit"}]
    BY DEF MakeShape, Lock, Leave, Skip, Sleep, MakerWakes
  <2> QED
    BY <1>1, <2>1, <2>2, <2>3 DEF MakeShape
<1>3. MakeScanning'
  <2> USE ParMakeAssumption DEF MakeShape, MakeScanning
  <2>0. Len(rules) \in Nat /\ (rules # << >> => Len(rules) > 0)
    OBVIOUS
  <2>1. CASE Lock(t)
    BY <2>0, <2>1 DEF Lock
  <2>2. CASE Skip(t)
    BY <2>0, <2>2 DEF Skip
  <2>3. CASE Leave(t) \/ Sleep(t) \/ MakerWakes(t)
    BY <2>3 DEF Leave, Sleep, MakerWakes
  <2> QED
    BY <2>1, <2>2, <2>3
<1>4. \A u \in Makers : MakeBusy(u)' = MakeBusy(u) /\ (MakeBusy(u) => mk_pc'[u] = mk_pc[u])
  BY DEF MakeShape, MakeBusy, Lock, Leave, Skip, Sleep, MakerWakes
<1>5. MakeOwned'
  BY <1>1, <1>4 DEF MakeOwned, MakeBusy
<1>6. MakeJustified'
  BY <1>1, <1>4 DEF MakeJustified, MakeBusy, MakeDepsValid, IsFile
<1> QED
  BY <1>2, <1>3, <1>5, <1>6

\* A thread takes a rule out of the vector.
LEMMA MakeTakeInv ==
  ASSUME MakeInv, NEW t \in Makers,
         TakeToRun(t) \/ TakeDecided(t)
  PROVE  MakeInv'
<1> USE DEF MakeInv, Goto, input
<1> DEFINE r == rules[mk_i[t]]
<1>1. mk_pc[t] = "scan" /\ mk_i[t] \in 1 .. Len(rules) /\ r \in Rules /\ rules_lock = t
  BY DEF MakeShape, MakeScanning, TakeToRun, TakeDecided
<1>2. /\ rules' = Without(rules, mk_i[t]) /\ job' = [job EXCEPT ![t] = r] /\ rules_lock' = Nobody
      /\ UNCHANGED <<deps, mtime, state, mk_i, ran>>
  BY DEF TakeToRun, TakeDecided
<1>3. /\ rules' \in Seq(Rules) /\ Len(rules') = Len(rules) - 1
      /\ \A j \in 1 .. Len(rules') : rules'[j] = rules[IF j < mk_i[t] THEN j ELSE j + 1]
  BY <1>1, <1>2, MakeWithoutFacts DEF MakeShape
<1>4. /\ \A u \in Makers \ {t} : mk_pc'[u] = mk_pc[u] /\ job'[u] = job[u] /\ st'[u] = st[u]
      /\ job'[t] = r /\ mk_pc'[t] \in {"run", "publish"}
  BY DEF MakeShape, TakeToRun, TakeDecided
<1>5. MakeShape'
  <2>1. st' \in [Makers -> {DEFAULT, VALID, INVALID}]
    BY DEF MakeShape, TakeToRun, TakeDecided
  <2>2. mk_pc' \in [Makers -> {"lock", "scan", "run", "publish", "wait", "asleep", "exit"}]
    BY DEF MakeShape, TakeToRun, TakeDecided
  <2>3. r \in Nat
    BY <1>1 DEF Rules
  <2> QED
    BY <1>2, <1>3, <2>1, <2>2, <2>3 DEF MakeShape
<1>6. MakeScanning'
  BY <1>1, <1>4 DEF MakeScanning
<1>7. MakeOwned'
  <2>0. Len(rules) \in Nat
    BY DEF MakeShape
  <2>1. \A k \in 1 .. Len(rules') :
           \E l \in 1 .. Len(rules) : l # mk_i[t] /\ rules'[k] = rules[l]
    BY <2>0, <1>1, <1>3, SMTT(30)
  <2>2. \A k, l \in 1 .. Len(rules') : k # l => rules'[k] # rules'[l]
    <3> DEFINE o(j) == IF j < mk_i[t] THEN j ELSE j + 1
    <3>1. \A j \in 1 .. Len(rules') : o(j) \in 1 .. Len(rules) /\ rules'[j] = rules[o(j)]
      BY <2>0, <1>1, <1>3
    <3>2. \A k, l \in 1 .. Len(rules') : k # l => o(k) # o(l)
      BY <2>0, <1>1, <1>3
    <3> HIDE DEF o
    <3> QED
      BY <3>1, <3>2 DEF MakeOwned
  <2>3. \A k \in 1 .. Len(rules') : ran'[rules'[k]] = 0 /\ state'[rules'[k]] = DEFAULT
    BY <1>2, <2>1 DEF MakeOwned
  <2>4. \A k \in 1 .. Len(rules') : rules'[k] # r
    BY <1>1, <2>1 DEF MakeOwned
  <2>5. \A u \in Makers : MakeBusy(u) => job[u] # r
    BY <1>1 DEF MakeOwned
  <2>6. ASSUME NEW u \in Makers, MakeBusy(u)'
        PROVE  /\ job'[u] \in Rules
               /\ state'[job'[u]] = DEFAULT
               /\ mk_pc'[u] = "run" => ran'[job'[u]] = 0
               /\ \A k \in 1 .. Len(rules') : rules'[k] # job'[u]
               /\ \A v \in Makers : MakeBusy(v)' /\ v # u => job'[v] # job'[u]
    <3>1. CASE u = t
      BY <3>1, <1>1, <1>2, <1>4, <2>4, <2>5 DEF MakeOwned, MakeBusy
    <3>2. CASE u # t
      <4>1. MakeBusy(u) /\ job'[u] = job[u] /\ mk_pc'[u] = mk_pc[u]
        BY <3>2, <2>6, <1>4 DEF MakeBusy
      <4>2. \A k \in 1 .. Len(rules') : rules'[k] # job'[u]
        BY <4>1, <2>1 DEF MakeOwned
      <4>3. \A v \in Makers : MakeBusy(v)' /\ v # u => job'[v] # job'[u]
        BY <4>1, <1>4, <2>5 DEF MakeOwned, MakeBusy
      <4> QED
        BY <4>1, <4>2, <4>3, <1>2 DEF MakeOwned
    <3> QED
      BY <3>1, <3>2
  <2>7. \A q \in Rules : ran'[q] <= 1
    BY <1>2 DEF MakeOwned
  <2> QED
    BY <2>2, <2>3, <2>6, <2>7 DEF MakeOwned
<1>8. MakeJustified'
  <2>1. ASSUME ~IsFile(r)
        PROVE  \/ mk_pc'[t] = "run" /\ MakeDepsValid(r)
               \/ mk_pc'[t] = "publish" /\ st'[t] # VALID
    <3>1. CASE TakeToRun(t)
      BY <3>1, <2>1, <1>1, MakeRunStatusFacts DEF TakeToRun, MakeShape
    <3>2. CASE TakeDecided(t)
      <4>1. run_status(r) = "ERR"
        BY <3>2, <2>1, <1>1, MakeRunStatusFacts DEF TakeDecided
      <4>2. st'[t] = INVALID /\ mk_pc'[t] = "publish"
        BY <3>2, <4>1 DEF TakeDecided, MakeShape
      <4> QED
        BY <4>2, MakeStateCodes
    <3> QED
      BY <3>1, <3>2
  <2> QED
    BY <2>1, <1>2, <1>4 DEF MakeJustified, MakeDepsValid, IsFile
<1> QED
  BY <1>5, <1>6, <1>7, <1>8

LEMMA MakeRunInv ==
  ASSUME MakeInv, NEW t \in Makers, Run(t)
  PROVE  MakeInv'
<1> USE DEF MakeInv, Goto, input
<1> DEFINE r == job[t]
<1>1. mk_pc[t] = "run" /\ r \in Rules /\ ran[r] = 0
  BY DEF MakeOwned, MakeBusy, Run
<1>2. /\ UNCHANGED <<deps, state, rules, rules_lock, mk_i, job>>
      /\ mk_pc' = [mk_pc EXCEPT ![t] = "publish"] /\ ran' = [ran EXCEPT ![r] = @ + 1]
  BY DEF Run
<1>3. /\ mtime' \in [Rules -> 0 .. Last]
      /\ \A q \in Rules : mtime'[q] = 0 => mtime[q] = 0
  <2>1. CASE outcome[r] = "make"
    <3>1. PICK now \in {Last - 1, Last} : mtime' = [mtime EXCEPT ![r] = now]
      BY <2>1 DEF Run
    <3>2. now \in 0 .. Last /\ now # 0
      BY <3>1 DEF Last
    <3> QED
      BY <1>1, <3>1, <3>2 DEF MakeShape
  <2>2. CASE outcome[r] # "make"
    BY <2>2 DEF Run, MakeShape
  <2> QED
    BY <2>1, <2>2
<1>4. /\ st' \in [Makers -> {DEFAULT, VALID, INVALID}]
      /\ \A u \in Makers \ {t} : st'[u] = st[u]
  BY DEF Run, MakeShape
<1>5. MakeShape'
  <2>1. ran' \in [Rules -> Nat]
    BY <1>1, <1>2 DEF MakeShape
  <2>2. mk_pc' \in [Makers -> {"lock", "scan", "run", "publish", "wait", "asleep", "exit"}]
    BY <1>2 DEF MakeShape
  <2> QED
    BY <1>2, <1>3, <1>4, <2>1, <2>2 DEF MakeShape
<1>6. MakeScanning'
  BY <1>2 DEF MakeScanning, MakeShape
<1>7. \A u \in Makers : MakeBusy(u)' = MakeBusy(u) /\ (u # t => mk_pc'[u] = mk_pc[u])
  BY <1>1, <1>2 DEF MakeBusy, MakeShape
<1>8. \A q \in Rules : ran'[q] = IF q = r THEN 1 ELSE ran[q]
  BY <1>1, <1>2 DEF MakeShape
<1>9. MakeOwned'
  <2>1. \A k \in 1 .. Len(rules) : rules[k] \in Rules /\ rules[k] # r
    BY <1>1 DEF MakeOwned, MakeBusy, MakeShape
  <2>2. \A u \in Makers : u # t /\ MakeBusy(u) => job[u] # r /\ job[u] \in Rules
    BY <1>1 DEF MakeOwned, MakeBusy
  <2>3. mk_pc'[t] = "publish"
    BY <1>2 DEF MakeShape
  <2> QED
    BY <1>2, <1>7, <1>8, <2>1, <2>2, <2>3 DEF MakeOwned
<1>10. MakeJustified'
  <2>1. mtime'[r] = 0 => MakeDepsValid(r)
    BY <1>1, <1>3 DEF MakeJustified, IsFile
  <2>2. ASSUME NEW q \in Rules, mtime'[q] = 0, ran'[q] > 0 \/ state[q] = VALID
        PROVE  MakeDepsValid(q)
    BY <2>1, <2>2, <1>3, <1>8 DEF MakeJustified, IsFile
  <2>3. ASSUME NEW u \in Makers, mtime'[job[u]] = 0,
               mk_pc'[u] = "run" \/ (mk_pc'[u] = "publish" /\ st'[u] = VALID)
        PROVE  MakeDepsValid(job[u])
    <3>1. job[u] \in Rules
      BY <2>3, <1>7 DEF MakeOwned, MakeBusy
    <3> QED
      BY <2>1, <2>3, <3>1, <1>3, <1>4, <1>7 DEF MakeJustified, IsFile
  <2> QED
    BY <2>2, <2>3, <1>2 DEF MakeJustified, IsFile, MakeDepsValid
<1> QED
  BY <1>5, <1>6, <1>9, <1>10

LEMMA MakePublishInv ==
  ASSUME MakeInv, NEW t \in Makers, Publish(t)
  PROVE  MakeInv'
<1> USE DEF MakeInv, input
<1> DEFINE r == job[t]
<1>1. mk_pc[t] = "publish" /\ r \in Rules /\ state[r] = DEFAULT
  BY DEF MakeOwned, MakeBusy, Publish
<1>2. UNCHANGED <<deps, mtime, rules, rules_lock, mk_i, job, st, ran>>
  BY DEF Publish
<1>3. \A q \in Rules : state'[q] = IF q = r THEN st[t] ELSE state[q]
  BY <1>1 DEF Publish, MakeShape
<1>4. MakeShape'
  BY <1>1 DEF Publish, MakeShape
<1>5. \A u \in Makers : mk_pc'[u] # "lock" => u # t /\ mk_pc'[u] = mk_pc[u]
  BY DEF Publish, MakeShape
<1>6. MakeScanning'
  BY <1>2, <1>5 DEF MakeScanning
<1>7. MakeOwned'
  <2>1. \A k \in 1 .. Len(rules) : rules[k] \in Rules /\ rules[k] # r
    BY <1>1 DEF MakeOwned, MakeBusy, MakeShape
  <2>2. \A u \in Makers : MakeBusy(u)' => MakeBusy(u) /\ u # t /\ mk_pc'[u] = mk_pc[u]
    BY <1>5 DEF MakeBusy
  <2>3. \A u \in Makers : MakeBusy(u)' => job[u] # r /\ job[u] \in Rules
    BY <1>1, <2>2 DEF MakeOwned, MakeBusy
  <2> QED
    BY <1>2, <1>3, <2>1, <2>2, <2>3 DEF MakeOwned
<1>8. MakeJustified'
  <2>1. \A q \in Rules : MakeDepsValid(q) => MakeDepsValid(q)'
    BY <1>1, <1>2, <1>3, MakeStateCodes DEF MakeDepsValid, MakeShape
  <2>2. mtime[r] = 0 /\ st[t] = VALID => MakeDepsValid(r)
    BY <1>1 DEF MakeJustified, IsFile
  <2>3. ASSUME NEW u \in Makers, ~IsFile(job[u]),
               mk_pc'[u] = "run" \/ (mk_pc'[u] = "publish" /\ st[u] = VALID)
        PROVE  MakeDepsValid(job[u]) /\ job[u] \in Rules
    BY <2>3, <1>5 DEF MakeJustified, MakeOwned, MakeBusy
  <2> QED
    BY <1>2, <1>3, <2>1, <2>2, <2>3 DEF MakeJustified, IsFile
<1> QED
  BY <1>4, <1>6, <1>7, <1>8

LEMMA MakeNextInv ==
  ASSUME MakeInv, [MakeNext]_makevars
  PROVE  MakeInv'
<1>1. ASSUME UNCHANGED makevars
      PROVE  MakeInv'
  BY <1>1 DEF makevars, MakeInv, MakeShape, MakeScanning, MakeOwned, MakeJustified, MakeBusy,
     MakeDepsValid, IsFile
<1> QED
  BY <1>1, MakeQuietInv, MakeTakeInv, MakeRunInv, MakePublishInv DEF MakeNext, MakerStep

\* A build is safe whatever the threads' scans, commands and wake-ups overlap with:
\* solve runs no rule twice, and one whose target is not a file neither before its
\* dependencies are satisfied nor after one of them has failed.
THEOREM BuildIsSafe == MakeSpec => []BuildSafe
<1>1. MakeInv => BuildSafe
  <2> SUFFICES ASSUME MakeInv PROVE BuildSafe
    OBVIOUS
  <2> USE DEF MakeInv
  <2>1. RunOnce
    BY DEF RunOnce, MakeOwned, MakeBusy
  <2>2. DepsFirst
    BY DEF DepsFirst, MakeJustified, MakeDepsValid
  <2>3. FailurePropagates
    <3>1. \A r \in Rules : ran[r] \in Nat
      BY DEF MakeShape
    <3>2. \A r \in Rules : (\E d \in deps[r] : state[d] = INVALID) => ~MakeDepsValid(r)
      BY MakeStateCodes DEF MakeDepsValid
    <3>3. \A r \in Rules : ran[r] > 0 \/ ran[r] = 0
      BY <3>1
    <3> QED
      BY <3>2, <3>3 DEF FailurePropagates, MakeJustified
  <2> QED
    BY <2>1, <2>2, <2>3 DEF BuildSafe
<1> QED
  BY <1>1, MakeInitInv, MakeNextInv, PTL DEF MakeSpec

-----------------------------------------------------------------------------
(* password_cracker, version 2: the workers search parts of one task.        *)

\* max of getSubrange is a number.
LEMMA CombinationsCount ==
  ASSUME CrackerAssumption
  PROVE  \A d \in 0 .. MaxDots : combinations[d] \in Nat
<1>1. MaxDots \in Nat /\ Letters \in Nat
  BY DEF CrackerAssumption
<1> DEFINE h == [p \in Int \X Int |-> p[1] * Letters]
           s == [n \in 1 .. MaxDots |-> 1]
           Eq(f) == f = [d \in 0 .. MaxDots |-> IF d = 0 THEN 1 ELSE f[d - 1] * Letters]
<1>2. /\ h \in [Int \X Int -> Int] /\ s \in [1 .. MaxDots -> Int] /\ 1 \in Int
      /\ \A x, y \in Int : h[<<x, y>>] = x * Letters
  BY <1>1
<1>3. \E f : Eq(f)
  <2> HIDE DEF h
  <2>1. PICK f \in [0 .. MaxDots -> Int] : FoldEquation(f, MaxDots, 1, h, s)
    <3> HIDE DEF s
    <3> QED
      BY <1>1, <1>2, FoldExists
  <2>2. \A n \in 0 .. MaxDots : f[n] = IF n = 0 THEN 1 ELSE h[<<f[n - 1], s[n]>>]
    <3> HIDE DEF s
    <3> QED
      BY <2>1 DEF FoldEquation
  <2>3. \A n \in 0 .. MaxDots : n # 0 => f[n - 1] \in Int /\ s[n] \in Int
    BY <1>1, <2>1
  <2>4. \A n \in 0 .. MaxDots : f[n] = IF n = 0 THEN 1 ELSE f[n - 1] * Letters
    <3> HIDE DEF s
    <3> QED
      BY <1>2, <2>2, <2>3
  <2>5. f = [n \in 0 .. MaxDots |-> f[n]]
    BY <2>1
  <2> QED
    BY <2>4, <2>5
<1>4. Eq(combinations)
  BY <1>3, Zenon DEF combinations
<1>5. \A n \in 0 .. MaxDots : combinations[n] =
        IF n = 0 THEN 1 ELSE combinations[n - 1] * Letters
  BY <1>4
<1> DEFINE G == {n \in 0 .. MaxDots : combinations[n] \in Nat}
<1>6. 0 \in G
  BY <1>1, <1>5
<1>7. ASSUME NEW n \in 1 .. MaxDots, n - 1 \in G PROVE n \in G
  <2>1. n \in 0 .. MaxDots /\ n # 0 /\ combinations[n - 1] \in Nat
    BY <1>1, <1>7
  <2>2. combinations[n - 1] * Letters \in Nat
    BY <1>1, <2>1
  <2> QED
    BY <1>5, <2>1, <2>2
<1> HIDE DEF G
<1>8. \A n \in 0 .. MaxDots : n \in G
  BY <1>1, <1>6, <1>7, InductUpTo
<1> QED
  BY <1>8 DEF G

\* x is the sum of f over the workers: S adds it up.
SumIs(f, x) ==
    \E S \in [0 .. THREAD_COUNT -> Int] :
        /\ S[0] = 0 /\ x = S[THREAD_COUNT]
        /\ \A k \in 1 .. THREAD_COUNT : S[k] = S[k - 1] + f[k]

\* One summand more, one summand changed, and sums compared.
LEMMA SumOfZeros ==
  ASSUME THREAD_COUNT \in Nat, NEW f, \A k \in 1 .. THREAD_COUNT : f[k] = 0
  PROVE  SumIs(f, 0)
<1> DEFINE S == [k \in 0 .. THREAD_COUNT |-> 0]
<1>1. /\ S \in [0 .. THREAD_COUNT -> Int] /\ S[0] = 0 /\ S[THREAD_COUNT] = 0
      /\ \A k \in 1 .. THREAD_COUNT : S[k] = S[k - 1] + f[k]
  OBVIOUS
<1> HIDE DEF S
<1> QED
  BY <1>1 DEF SumIs

LEMMA SumChanges ==
  ASSUME THREAD_COUNT \in Nat, NEW f, NEW g, NEW x, NEW d \in Int, NEW t \in 1 .. THREAD_COUNT,
         \A k \in 1 .. THREAD_COUNT : f[k] \in Int /\ g[k] = IF k = t THEN f[k] + d ELSE f[k],
         SumIs(f, x)
  PROVE  SumIs(g, x + d)
<1>1. PICK S \in [0 .. THREAD_COUNT -> Int] :
        /\ S[0] = 0 /\ x = S[THREAD_COUNT]
        /\ \A k \in 1 .. THREAD_COUNT : S[k] = S[k - 1] + f[k]
  BY DEF SumIs
<1> DEFINE R == [k \in 0 .. THREAD_COUNT |-> IF k >= t THEN S[k] + d ELSE S[k]]
<1>2. \A k \in 0 .. THREAD_COUNT : R[k] = IF k >= t THEN S[k] + d ELSE S[k]
  OBVIOUS
<1>3. R \in [0 .. THREAD_COUNT -> Int]
  OBVIOUS
<1> HIDE DEF R
<1>4. R[0] = 0 /\ R[THREAD_COUNT] = x + d
  BY <1>1, <1>2
<1>5. ASSUME NEW k \in 1 .. THREAD_COUNT PROVE R[k] = R[k - 1] + g[k]
  <2>1. /\ k \in 0 .. THREAD_COUNT /\ k - 1 \in 0 .. THREAD_COUNT /\ k \in Int /\ t \in Int
        /\ S[k] \in Int /\ S[k - 1] \in Int /\ f[k] \in Int
    BY <1>5
  <2>2. S[k] = S[k - 1] + f[k] /\ g[k] = IF k = t THEN f[k] + d ELSE f[k]
    BY <1>1, <1>5
  <2>3. /\ R[k] = IF k >= t THEN S[k] + d ELSE S[k]
        /\ R[k - 1] = IF k - 1 >= t THEN S[k - 1] + d ELSE S[k - 1]
    BY <1>2, <2>1
  <2> QED
    BY <2>1, <2>2, <2>3
<1> QED
  BY <1>3, <1>4, <1>5 DEF SumIs

LEMMA SumsCompare ==
  ASSUME THREAD_COUNT \in Nat, NEW f, NEW g, NEW x, NEW y, SumIs(f, x), SumIs(g, y),
         \A k \in 1 .. THREAD_COUNT : f[k] \in Int /\ g[k] \in Int /\ f[k] <= g[k]
  PROVE  x <= y
<1>1. PICK S \in [0 .. THREAD_COUNT -> Int] :
        /\ S[0] = 0 /\ x = S[THREAD_COUNT]
        /\ \A k \in 1 .. THREAD_COUNT : S[k] = S[k - 1] + f[k]
  BY DEF SumIs
<1>2. PICK R \in [0 .. THREAD_COUNT -> Int] :
        /\ R[0] = 0 /\ y = R[THREAD_COUNT]
        /\ \A k \in 1 .. THREAD_COUNT : R[k] = R[k - 1] + g[k]
  BY DEF SumIs
<1> DEFINE G == {k \in 0 .. THREAD_COUNT : S[k] <= R[k]}
<1>3. 0 \in G
  BY <1>1, <1>2
<1>4. ASSUME NEW k \in 1 .. THREAD_COUNT, k - 1 \in G PROVE k \in G
  <2>1. S[k - 1] \in Int /\ R[k - 1] \in Int /\ S[k - 1] <= R[k - 1] /\ k \in 0 .. THREAD_COUNT
    BY <1>4
  <2>2. S[k] = S[k - 1] + f[k] /\ R[k] = R[k - 1] + g[k] /\ f[k] \in Int /\ g[k] \in Int
        /\ f[k] <= g[k]
    BY <1>1, <1>2, <1>4
  <2>3. S[k] <= R[k]
    BY <2>1, <2>2
  <2> QED
    BY <2>1, <2>3
<1> HIDE DEF G
<1>5. \A k \in 0 .. THREAD_COUNT : k \in G
  BY <1>3, <1>4, InductUpTo
<1> QED
  BY <1>1, <1>2, <1>5 DEF G

\* Lengths of adjacent ranges add up to the length of the whole.
LEMMA SumTelescopes ==
  ASSUME THREAD_COUNT \in Nat, NEW f, NEW x, NEW b \in [0 .. THREAD_COUNT -> Int], SumIs(f, x),
         \A k \in 1 .. THREAD_COUNT : f[k] = b[k] - b[k - 1]
  PROVE  x = b[THREAD_COUNT] - b[0]
<1>1. PICK S \in [0 .. THREAD_COUNT -> Int] :
        /\ S[0] = 0 /\ x = S[THREAD_COUNT]
        /\ \A k \in 1 .. THREAD_COUNT : S[k] = S[k - 1] + f[k]
  BY DEF SumIs
<1> DEFINE G == {k \in 0 .. THREAD_COUNT : S[k] = b[k] - b[0]}
<1>2. 0 \in G
  <2>1. b[0] \in Int
    OBVIOUS
  <2> QED
    BY <1>1, <2>1
<1>3. ASSUME NEW k \in 1 .. THREAD_COUNT, k - 1 \in G PROVE k \in G
  <2>1. /\ S[k - 1] = b[k - 1] - b[0] /\ k \in 0 .. THREAD_COUNT
        /\ b[k - 1] \in Int /\ b[0] \in Int /\ b[k] \in Int
    BY <1>3
  <2>2. S[k] = S[k - 1] + (b[k] - b[k - 1])
    BY <1>1, <1>3
  <2>3. S[k] = b[k] - b[0]
    BY <2>1, <2>2
  <2> QED
    BY <2>1, <2>3
<1> HIDE DEF G
<1>4. \A k \in 0 .. THREAD_COUNT : k \in G
  BY <1>2, <1>3, InductUpTo
<1> QED
  BY <1>1, <1>4 DEF G

\* HashesDone is a sum.
LEMMA HashesSum ==
  ASSUME THREAD_COUNT \in Nat, hashes \in [1 .. THREAD_COUNT -> Int]
  PROVE  SumIs(hashes, HashesDone)
<1> DEFINE h == [p \in Int \X Int |-> p[1] + p[2]]
           Eq(f) == f = [t \in 0 .. THREAD_COUNT |-> IF t = 0 THEN 0 ELSE f[t - 1] + hashes[t]]
           U == CHOOSE f : Eq(f)
<1>1. PICK s : s = hashes
  OBVIOUS
<1>2. h \in [Int \X Int -> Int] /\ 0 \in Int /\ \A x, y \in Int : h[<<x, y>>] = x + y
  OBVIOUS
<1>3. PICK f \in [0 .. THREAD_COUNT -> Int] : FoldEquation(f, THREAD_COUNT, 0, h, s)
  <2> HIDE DEF h
  <2> QED
    BY <1>1, <1>2, FoldExists
<1>4. \A n \in 0 .. THREAD_COUNT : f[n] = IF n = 0 THEN 0 ELSE h[<<f[n - 1], s[n]>>]
  <2> HIDE DEF h
  <2> QED
    BY <1>3 DEF FoldEquation
<1>5. \A n \in 0 .. THREAD_COUNT : n # 0 => f[n - 1] \in Int /\ s[n] \in Int
  BY <1>1, <1>3
<1>6. \A n \in 0 .. THREAD_COUNT : f[n] = IF n = 0 THEN 0 ELSE f[n - 1] + hashes[n]
  <2> HIDE DEF h
  <2> QED
    BY <1>1, <1>2, <1>4, <1>5
<1>7. f = [n \in 0 .. THREAD_COUNT |-> f[n]]
  BY <1>3
<1>8. Eq(f)
  BY <1>6, <1>7
<1>9. Eq(U)
  BY <1>8, Zenon
<1>10. HashesDone = U[THREAD_COUNT]
  BY Zenon DEF HashesDone
<1> HIDE DEF U
<1>11. \A n \in 0 .. THREAD_COUNT : U[n] = IF n = 0 THEN 0 ELSE U[n - 1] + hashes[n]
  BY <1>9
<1> DEFINE G == {n \in 0 .. THREAD_COUNT : U[n] \in Int}
<1>12. 0 \in G
  BY <1>11
<1>13. ASSUME NEW n \in 1 .. THREAD_COUNT, n - 1 \in G PROVE n \in G
  BY <1>11, <1>13
<1> HIDE DEF G
<1>14. \A n \in 0 .. THREAD_COUNT : n \in G
  BY <1>12, <1>13, InductUpTo
<1>15. U \in [0 .. THREAD_COUNT -> Int]
  <2>1. U = [n \in 0 .. THREAD_COUNT |-> IF n = 0 THEN 0 ELSE U[n - 1] + hashes[n]]
    BY <1>9
  <2>2. \A n \in 0 .. THREAD_COUNT : U[n] \in Int
    BY <1>14 DEF G
  <2> QED
    BY <2>1, <2>2
<1>16. U[0] = 0 /\ \A k \in 1 .. THREAD_COUNT : U[k] = U[k - 1] + hashes[k]
  BY <1>11
<1> QED
  BY <1>10, <1>15, <1>16 DEF SumIs

\* Where the range of worker t + 1 begins, and that of worker t ends.
Cut(t) == Par!bound(combinations[curr_task.dots], t, THREAD_COUNT)

LEMMA Cuts ==
  ASSUME CrackerAssumption, curr_task \in Tasks
  PROVE  /\ combinations[curr_task.dots] \in Nat /\ curr_task.at \in Int
         /\ curr_task.at = -1 \/ curr_task.at \in 0 .. combinations[curr_task.dots] - 1
         /\ THREAD_COUNT \in Nat /\ THREAD_COUNT >= 1
         /\ Cut(0) = 0 /\ Cut(THREAD_COUNT) = combinations[curr_task.dots]
         /\ \A t \in 0 .. THREAD_COUNT : Cut(t) \in Nat
         /\ \A t, u \in 0 .. THREAD_COUNT : t <= u => Cut(t) <= Cut(u)
         /\ \A t \in 1 .. THREAD_COUNT :
                getSubrange(curr_task.dots, t) = [start |-> Cut(t - 1), end |-> Cut(t)]
<1>1. PICK m, k : m = combinations[curr_task.dots] /\ k = THREAD_COUNT
  OBVIOUS
<1>2. k \in Nat \ {0} /\ MaxDots \in Nat
  BY <1>1 DEF CrackerAssumption
<1>3. /\ curr_task \in [dots : 0 .. MaxDots, at : -1 .. combinations[MaxDots] - 1]
      /\ curr_task.at < m
  BY <1>1 DEF Tasks, Absent
<1>4. m \in Nat /\ combinations[MaxDots] \in Nat
  BY <1>1, <1>2, <1>3, CombinationsCount
<1>5. curr_task.at \in Int /\ (curr_task.at = -1 \/ curr_task.at \in 0 .. m - 1)
  BY <1>3, <1>4
<1>6. Par!bound(m, 0, k) = 0 /\ Par!bound(m, k, k) = m
  BY <1>2, <1>4, Bounds
<1>7. ASSUME NEW t \in 0 .. k, NEW u \in 0 .. k, t <= u
      PROVE  Par!bound(m, t, k) \in Nat /\ Par!bound(m, t, k) <= Par!bound(m, u, k)
  <2>1. PICK d \in Nat : u = t + d
    <3>1. u - t \in Nat /\ u = t + (u - t)
      BY <1>2, <1>7
    <3> QED
      BY <3>1
  <2>2. t \in Nat /\ u \in Nat
    BY <1>2
  <2>3. m * t \in Nat /\ m * d \in Nat /\ m * u \in Nat
    BY <1>4, <2>1, <2>2
  <2>4. m * u = m * t + m * d
    BY <1>4, <2>1, <2>2
  <2>5. m * t <= m * u
    BY <2>3, <2>4
  <2>6. PICK a, c \in Nat : a = m * t /\ c = m * u
    BY <2>3
  <2>7. a \div k \in Nat /\ a \div k <= c \div k
    BY <1>2, <2>5, <2>6, QuotientsGrow
  <2> QED
    BY <2>6, <2>7 DEF Par!bound
<1>8. \A t \in 0 .. k : Par!bound(m, t, k) \in Nat
  BY <1>2, <1>7
<1>9. \A t \in 1 .. THREAD_COUNT :
        getSubrange(curr_task.dots, t) = [start |-> Cut(t - 1), end |-> Cut(t)]
  BY DEF getSubrange, Cut, Par!bound
<1> QED
  BY <1>1, <1>2, <1>4, <1>5, <1>6, <1>7, <1>8, <1>9 DEF Cut

\* Every candidate is in a range.
LEMMA RangesCover ==
  ASSUME CrackerAssumption, curr_task \in Tasks, curr_task.at # -1
  PROVE  \E t \in 1 .. THREAD_COUNT : curr_task.at \in Cut(t - 1) .. Cut(t) - 1
<1>1. PICK c, m : m = THREAD_COUNT /\ c = [t \in 0 .. m |-> Cut(t)]
  OBVIOUS
<1>2. PICK x : x = curr_task.at
  OBVIOUS
<1>3. /\ m \in Nat /\ c \in [0 .. m -> Nat] /\ x \in Int /\ c[0] = 0 /\ 0 <= x /\ x < c[m]
      /\ \A t \in 0 .. m : c[t] = Cut(t)
  BY <1>1, <1>2, Cuts
<1> DEFINE G == {k \in 0 .. m : x < c[k] => \E t \in 1 .. m : c[t - 1] <= x /\ x < c[t]}
<1>4. 0 \in G
  BY <1>3
<1>5. ASSUME NEW k \in 1 .. m, k - 1 \in G PROVE k \in G
  <2>1. k \in 0 .. m /\ c[k - 1] \in Nat /\ c[k] \in Nat
    BY <1>3
  <2>2. CASE x < c[k - 1]
    BY <1>5, <2>1, <2>2
  <2>3. CASE ~(x < c[k - 1])
    <3>1. c[k - 1] <= x
      BY <1>3, <2>1, <2>3
    <3> QED
      BY <2>1, <3>1
  <2> QED
    BY <2>2, <2>3
<1> HIDE DEF G
<1>6. \A k \in 0 .. m : k \in G
  BY <1>3, <1>4, <1>5, InductUpTo
<1>7. m \in G /\ m \in 0 .. m
  BY <1>3, <1>6
<1>8. PICK t \in 1 .. m : c[t - 1] <= x /\ x < c[t]
  BY <1>3, <1>7 DEF G
<1>9. /\ t \in 0 .. m /\ t - 1 \in 0 .. m /\ c[t - 1] \in Nat /\ c[t] \in Nat
      /\ c[t - 1] = Cut(t - 1) /\ c[t] = Cut(t)
  BY <1>3
<1> QED
  BY <1>1, <1>2, <1>3, <1>8, <1>9

\* No candidate is in two of them.
LEMMA RangesApart ==
  ASSUME CrackerAssumption, curr_task \in Tasks,
         NEW t \in 1 .. THREAD_COUNT, NEW u \in 1 .. THREAD_COUNT,
         curr_task.at \in Cut(t - 1) .. Cut(t) - 1, curr_task.at \in Cut(u - 1) .. Cut(u) - 1
  PROVE  t = u
<1>1. /\ THREAD_COUNT \in Nat
      /\ \A v \in 0 .. THREAD_COUNT : Cut(v) \in Nat
      /\ \A v, w \in 0 .. THREAD_COUNT : v <= w => Cut(v) <= Cut(w)
  BY Cuts
<1>2. /\ t \in 0 .. THREAD_COUNT /\ t - 1 \in 0 .. THREAD_COUNT
      /\ u \in 0 .. THREAD_COUNT /\ u - 1 \in 0 .. THREAD_COUNT
  BY <1>1
<1>3. /\ t <= u - 1 => Cut(t) <= Cut(u - 1)
      /\ u <= t - 1 => Cut(u) <= Cut(t - 1)
  BY <1>1, <1>2
<1>4. Cut(t) \in Nat /\ Cut(u) \in Nat /\ Cut(t - 1) \in Nat /\ Cut(u - 1) \in Nat
  BY <1>1, <1>2
<1>5. ~(t <= u - 1) /\ ~(u <= t - 1)
  BY <1>3, <1>4
<1> QED
  BY <1>1, <1>2, <1>5

-----------------------------------------------------------------------------
\* Where main and the workers are, as the barrier keeps them together, and what holds
\* between two tasks.
CrackShape ==
    /\ curr_task \in Tasks
    /\ main \in {"read", "before", "after", "summary", "last", "join"}
    /\ task_done \in BOOLEAN /\ found \in BOOLEAN
    /\ cr_pc \in [1 .. THREAD_COUNT ->
                    {"before", "start", "loop", "hit", "miss", "check", "add", "after", "exit"}]
    /\ pos \in [1 .. THREAD_COUNT -> Int] /\ last \in [1 .. THREAD_COUNT -> Int]
    /\ hashes \in [1 .. THREAD_COUNT -> Nat]
    /\ said \in [1 .. THREAD_COUNT -> {{}, {0}, {1}, {2}}]
    /\ total_hashes \in Int
    /\ task_done <=> main \in {"last", "join"}
    /\ main \in {"read", "before", "last", "summary"} =>
            \A t \in 1 .. THREAD_COUNT : cr_pc[t] = "before"
    /\ main = "after" => \A t \in 1 .. THREAD_COUNT : cr_pc[t] \notin {"before", "exit"}
    /\ main = "join" => \A t \in 1 .. THREAD_COUNT : cr_pc[t] \in {"start", "exit"}
    /\ main \notin {"after", "summary"} => ~found /\ total_hashes = 0

\* A worker between its two barriers: the password is not among the candidates it has
\* tried, and each way out of its search tells something of found or of its range.
Searched(t) ==
    /\ last[t] = Cut(t) /\ Cut(t - 1) <= pos[t] /\ pos[t] <= last[t]
    /\ curr_task.at \notin Cut(t - 1) .. pos[t] - 1
    /\ cr_pc[t] = "loop" => said[t] = {} /\ hashes[t] = pos[t] - Cut(t - 1)
    /\ cr_pc[t] \in {"hit", "miss"} => /\ said[t] = {} /\ pos[t] < last[t]
                                       /\ hashes[t] = pos[t] + 1 - Cut(t - 1)
    /\ cr_pc[t] = "hit" => pos[t] = curr_task.at
    /\ cr_pc[t] = "miss" => pos[t] # curr_task.at
    /\ cr_pc[t] = "add" => said[t] # {}
    /\ cr_pc[t] = "check" => said[t] # {2}
    /\ cr_pc[t] = "check" /\ said[t] = {} => pos[t] = last[t] /\ hashes[t] = last[t] - Cut(t - 1)
    /\ said[t] = {0} => pos[t] = curr_task.at /\ pos[t] < last[t] /\ found
    /\ said[t] = {1} => found
    /\ said[t] = {2} => pos[t] = last[t] /\ hashes[t] = last[t] - Cut(t - 1)
    /\ cr_pc[t] \in {"after", "before"} /\ said[t] = {} => found

\* The part of a worker's hashes that total_hashes has.
Added == [t \in 1 .. THREAD_COUNT |->
            IF cr_pc[t] \in {"check", "after", "before"} /\ said[t] # {} THEN hashes[t] ELSE 0]

CrackSearch ==
    main \in {"after", "summary"} =>
        /\ \A t \in 1 .. THREAD_COUNT : cr_pc[t] # "start" => Searched(t)
        /\ found => /\ curr_password = curr_task.at /\ curr_task.at # -1
                    /\ \E t \in 1 .. THREAD_COUNT : cr_pc[t] # "start" /\ said[t] = {0}
        /\ SumIs(Added, total_hashes)

CrackInv == CrackShape /\ CrackSearch

LEMMA CrackStarts == ASSUME CrackerAssumption PROVE CrackInit => CrackInv
<1> SUFFICES ASSUME CrackInit PROVE CrackInv
  OBVIOUS
<1>1. curr_task \in Tasks
  <2>1. /\ MaxDots \in Nat /\ combinations[MaxDots] \in Nat
        /\ combinations[0] \in Nat
    BY CombinationsCount DEF CrackerAssumption
  <2>2. curr_task = [dots |-> 0, at |-> -1]
    BY DEF CrackInit, Absent
  <2> QED
    BY <2>1, <2>2 DEF Tasks, Absent
<1>2. /\ main = "read" /\ task_done = FALSE /\ found = FALSE /\ total_hashes = 0
      /\ cr_pc = [t \in 1 .. THREAD_COUNT |-> "before"]
      /\ pos = [t \in 1 .. THREAD_COUNT |-> 0] /\ last = [t \in 1 .. THREAD_COUNT |-> 0]
      /\ hashes = [t \in 1 .. THREAD_COUNT |-> 0] /\ said = [t \in 1 .. THREAD_COUNT |-> {}]
  BY DEF CrackInit, Workers
<1>3. /\ cr_pc \in [1 .. THREAD_COUNT ->
                    {"before", "start", "loop", "hit", "miss", "check", "add", "after", "exit"}]
      /\ pos \in [1 .. THREAD_COUNT -> Int] /\ last \in [1 .. THREAD_COUNT -> Int]
      /\ hashes \in [1 .. THREAD_COUNT -> Nat]
      /\ said \in [1 .. THREAD_COUNT -> {{}, {0}, {1}, {2}}]
      /\ \A t \in 1 .. THREAD_COUNT : cr_pc[t] = "before"
  BY <1>2
<1>4. CrackShape
  <2>1. /\ task_done \in BOOLEAN /\ found \in BOOLEAN /\ ~found
        /\ task_done <=> main \in {"last", "join"}
    BY <1>2
  <2> HIDE DEF CrackInit
  <2> QED
    BY <1>1, <1>2, <1>3, <2>1 DEF CrackShape
<1>5. CrackSearch
  BY <1>2 DEF CrackSearch
<1> QED
  BY <1>4, <1>5 DEF CrackInv

LEMMA AddedType ==
  ASSUME CrackShape
  PROVE  \A t \in 1 .. THREAD_COUNT : Added[t] \in Nat
BY DEF CrackShape, Added

\* Between the barriers only one worker moves at a time: the others keep what they have.
LEMMA OthersSearch ==
  ASSUME NEW u \in 1 .. THREAD_COUNT, Searched(u), curr_task' = curr_task,
         cr_pc'[u] = cr_pc[u], pos'[u] = pos[u], last'[u] = last[u], hashes'[u] = hashes[u],
         said'[u] = said[u], found => found'
  PROVE  Searched(u)'
BY DEF Searched, Cut

\* A step of worker t that leaves total_hashes alone.
LEMMA WorkerSearch ==
  ASSUME CrackerAssumption, CrackShape, CrackSearch, main = "after",
         NEW t \in 1 .. THREAD_COUNT,
         UNCHANGED <<curr_task, main>>, found' = found, curr_password' = curr_password,
         \A u \in 1 .. THREAD_COUNT :
            u # t => /\ cr_pc'[u] = cr_pc[u] /\ pos'[u] = pos[u] /\ last'[u] = last[u]
                     /\ hashes'[u] = hashes[u] /\ said'[u] = said[u],
         said[t] = {0} /\ cr_pc[t] # "start" => said'[t] = {0},
         cr_pc'[t] # "start", Searched(t)', SumIs(Added', total_hashes')
  PROVE  CrackSearch'
<1>1. \A u \in 1 .. THREAD_COUNT : cr_pc'[u] # "start" => Searched(u)'
  <2> SUFFICES ASSUME NEW u \in 1 .. THREAD_COUNT, cr_pc'[u] # "start" PROVE Searched(u)'
    OBVIOUS
  <2>1. CASE u = t
    BY <2>1
  <2>2. CASE u # t
    <3>1. /\ cr_pc'[u] = cr_pc[u] /\ pos'[u] = pos[u] /\ last'[u] = last[u]
          /\ hashes'[u] = hashes[u] /\ said'[u] = said[u]
      BY <2>2
    <3>2. Searched(u)
      BY <3>1 DEF CrackSearch
    <3> QED
      BY <3>1, <3>2, OthersSearch
  <2> QED
    BY <2>1, <2>2
<1>2. ASSUME found'
      PROVE  /\ curr_password' = curr_task'.at /\ curr_task'.at # -1
             /\ \E u \in 1 .. THREAD_COUNT : cr_pc'[u] # "start" /\ said'[u] = {0}
  <2>1. found
    BY <1>2
  <2>2. PICK u \in 1 .. THREAD_COUNT : cr_pc[u] # "start" /\ said[u] = {0}
    BY <2>1 DEF CrackSearch
  <2>3. cr_pc'[u] # "start" /\ said'[u] = {0}
    BY <2>2
  <2>4. curr_password = curr_task.at /\ curr_task.at # -1
    BY <2>1 DEF CrackSearch
  <2> QED
    BY <2>3, <2>4
<1> QED
  BY <1>1, <1>2 DEF CrackSearch

\* total_hashes and what it has stay the same.
LEMMA SameAdded ==
  ASSUME CrackShape, THREAD_COUNT \in Nat, SumIs(Added, total_hashes),
         total_hashes' = total_hashes, NEW t \in 1 .. THREAD_COUNT,
         \A u \in 1 .. THREAD_COUNT :
            u # t => cr_pc'[u] = cr_pc[u] /\ hashes'[u] = hashes[u] /\ said'[u] = said[u],
         \/ /\ ~(cr_pc[t] \in {"check", "after", "before"} /\ said[t] # {})
            /\ ~(cr_pc'[t] \in {"check", "after", "before"} /\ said'[t] # {})
         \/ /\ cr_pc[t] \in {"check", "after", "before"} /\ hashes'[t] = hashes[t]
            /\ cr_pc'[t] \in {"check", "after", "before"} /\ said'[t] = said[t]
  PROVE  SumIs(Added', total_hashes')
<1>1. \A u \in 1 .. THREAD_COUNT : Added'[u] = Added[u]
  <2> SUFFICES ASSUME NEW u \in 1 .. THREAD_COUNT PROVE Added'[u] = Added[u]
    OBVIOUS
  <2>1. /\ Added[u] = IF cr_pc[u] \in {"check", "after", "before"} /\ said[u] # {}
                      THEN hashes[u] ELSE 0
        /\ Added'[u] = IF cr_pc'[u] \in {"check", "after", "before"} /\ said'[u] # {}
                       THEN hashes'[u] ELSE 0
    BY DEF Added
  <2>2. CASE u = t
    BY <2>1, <2>2
  <2>3. CASE u # t
    <3>1. cr_pc'[u] = cr_pc[u] /\ hashes'[u] = hashes[u] /\ said'[u] = said[u]
      BY <2>3
    <3> QED
      BY <2>1, <3>1
  <2> QED
    BY <2>2, <2>3
<1>2. PICK f, g, x, d : f = Added /\ g = Added' /\ x = total_hashes /\ d = 0
  OBVIOUS
<1>3. /\ \A u \in 1 .. THREAD_COUNT : f[u] \in Int /\ g[u] = IF u = t THEN f[u] + d ELSE f[u]
      /\ d \in Int
  BY <1>1, <1>2, AddedType
<1>4. SumIs(g, x + d)
  <2>1. SumIs(f, x)
    BY <1>2, Zenon
  <2> QED
    BY <1>3, <2>1, SumChanges
<1>5. x + d = total_hashes'
  BY <1>2 DEF CrackShape
<1> QED
  BY <1>2, <1>4, <1>5

\* A worker takes its range; it leaves instead when there is no task.
LEMMA StartInv ==
  ASSUME CrackerAssumption, CrackInv, NEW t \in 1 .. THREAD_COUNT, Start(t)
  PROVE  CrackInv'
<1>0. CrackShape /\ CrackSearch
  BY DEF CrackInv
<1>1. /\ cr_pc[t] = "start"
      /\ UNCHANGED <<curr_task, main, found, total_hashes, curr_password, task_done>>
  BY DEF Start, shared
<1>2. main \in {"after", "join"} /\ THREAD_COUNT \in Nat
  BY <1>0, <1>1 DEF CrackShape, CrackerAssumption
<1>3. CASE task_done
  <2>1. main = "join" /\ cr_pc' = [cr_pc EXCEPT ![t] = "exit"]
        /\ UNCHANGED <<pos, last, hashes, said>>
    BY <1>0, <1>2, <1>3 DEF CrackShape, Start, local
  <2>2. CrackShape'
    BY <1>0, <1>1, <2>1 DEF CrackShape
  <2>3. CrackSearch'
    BY <1>1, <2>1 DEF CrackSearch
  <2> QED
    BY <2>2, <2>3 DEF CrackInv
<1>4. CASE ~task_done
  <2>1. main = "after"
    BY <1>0, <1>2, <1>4 DEF CrackShape
  <2>2. /\ pos' = [pos EXCEPT ![t] = Cut(t - 1)] /\ last' = [last EXCEPT ![t] = Cut(t)]
        /\ hashes' = [hashes EXCEPT ![t] = 0] /\ said' = [said EXCEPT ![t] = {}]
        /\ cr_pc' = [cr_pc EXCEPT ![t] = "loop"]
    <3>1. getSubrange(curr_task.dots, t) = [start |-> Cut(t - 1), end |-> Cut(t)]
      BY <1>0, Cuts DEF CrackShape
    <3> QED
      BY <1>4, <3>1 DEF Start
  <2>3. /\ t - 1 \in 0 .. THREAD_COUNT /\ t \in 0 .. THREAD_COUNT /\ t - 1 <= t
    BY <1>2
  <2>4. Cut(t - 1) \in Nat /\ Cut(t) \in Nat /\ Cut(t - 1) <= Cut(t)
    BY <1>0, <2>3, Cuts DEF CrackShape
  <2>5. /\ cr_pc'[t] = "loop" /\ pos'[t] = Cut(t - 1) /\ last'[t] = Cut(t) /\ hashes'[t] = 0
        /\ said'[t] = {}
        /\ \A u \in 1 .. THREAD_COUNT :
            u # t => /\ cr_pc'[u] = cr_pc[u] /\ pos'[u] = pos[u] /\ last'[u] = last[u]
                     /\ hashes'[u] = hashes[u] /\ said'[u] = said[u]
    BY <1>0, <2>2 DEF CrackShape
  <2>6. CrackShape'
    <3>1. /\ pos' \in [1 .. THREAD_COUNT -> Int] /\ last' \in [1 .. THREAD_COUNT -> Int]
          /\ hashes' \in [1 .. THREAD_COUNT -> Nat]
          /\ said' \in [1 .. THREAD_COUNT -> {{}, {0}, {1}, {2}}]
      BY <1>0, <2>2, <2>4, SMTT(30) DEF CrackShape
    <3> QED
      BY <1>0, <1>1, <2>1, <2>2, <3>1 DEF CrackShape
  <2>7. Cut(t - 1)' = Cut(t - 1) /\ Cut(t)' = Cut(t)
    BY <1>1 DEF Cut
  <2>8. Searched(t)'
    BY <2>4, <2>5, <2>7 DEF Searched
  <2>9. SumIs(Added', total_hashes')
    <3>1. SumIs(Added, total_hashes)
      BY <1>0, <2>1 DEF CrackSearch
    <3> QED
      BY <1>0, <1>1, <1>2, <2>5, <3>1, SameAdded
  <2>10. CrackSearch'
    BY <1>0, <1>1, <2>1, <2>5, <2>8, <2>9, WorkerSearch
  <2> QED
    BY <2>6, <2>10 DEF CrackInv
<1> QED
  BY <1>3, <1>4

\* What every step between the barriers starts from.
LEMMA Between ==
  ASSUME CrackerAssumption, CrackInv, NEW t \in 1 .. THREAD_COUNT,
         cr_pc[t] \in {"loop", "hit", "miss", "check", "add"}
  PROVE  /\ CrackShape /\ CrackSearch /\ main = "after" /\ Searched(t) /\ ~task_done
         /\ SumIs(Added, total_hashes) /\ THREAD_COUNT \in Nat
         /\ Cut(t - 1) \in Nat /\ Cut(t) \in Nat /\ curr_task.at \in Int
         /\ pos[t] \in Int /\ last[t] \in Int /\ hashes[t] \in Nat
         /\ said[t] \in {{}, {0}, {1}, {2}}
<1>1. CrackShape /\ CrackSearch /\ THREAD_COUNT \in Nat
  BY DEF CrackInv, CrackerAssumption
<1>2. main = "after"
  BY <1>1 DEF CrackShape
<1>3. Searched(t) /\ SumIs(Added, total_hashes)
  BY <1>1, <1>2 DEF CrackSearch
<1>4. t - 1 \in 0 .. THREAD_COUNT /\ t \in 0 .. THREAD_COUNT
  BY <1>1
<1>5. Cut(t - 1) \in Nat /\ Cut(t) \in Nat /\ curr_task.at \in Int
  BY <1>1, <1>4, Cuts DEF CrackShape
<1>6. /\ pos[t] \in Int /\ last[t] \in Int /\ hashes[t] \in Nat /\ ~task_done
      /\ said[t] \in {{}, {0}, {1}, {2}}
  BY <1>1, <1>2 DEF CrackShape
<1> QED
  BY <1>1, <1>2, <1>3, <1>5, <1>6

\* A step of worker t between the barriers keeps CrackShape.
LEMMA BetweenShape ==
  ASSUME CrackShape, main = "after", NEW t \in 1 .. THREAD_COUNT,
         UNCHANGED <<curr_task, main, task_done, last>>, found' \in BOOLEAN, total_hashes' \in Int,
         NEW p \in {"loop", "hit", "miss", "check", "add", "after"},
         cr_pc' = [cr_pc EXCEPT ![t] = p],
         pos' \in [1 .. THREAD_COUNT -> Int], hashes' \in [1 .. THREAD_COUNT -> Nat],
         said' \in [1 .. THREAD_COUNT -> {{}, {0}, {1}, {2}}]
  PROVE  CrackShape'
BY DEF CrackShape

LEMMA CrackHashInv ==
  ASSUME CrackerAssumption, CrackInv, NEW t \in 1 .. THREAD_COUNT, Hash(t)
  PROVE  CrackInv'
<1>1. /\ cr_pc[t] = "loop" /\ pos[t] < last[t]
      /\ hashes' = [hashes EXCEPT ![t] = @ + 1]
      /\ cr_pc' = [cr_pc EXCEPT ![t] = IF pos[t] = curr_task.at THEN "hit" ELSE "miss"]
      /\ UNCHANGED <<curr_task, main, found, total_hashes, curr_password, task_done, pos, last,
                     said>>
  BY DEF Hash, shared
<1>2. /\ CrackShape /\ CrackSearch /\ main = "after" /\ Searched(t)
      /\ SumIs(Added, total_hashes) /\ THREAD_COUNT \in Nat
      /\ Cut(t - 1) \in Nat /\ Cut(t) \in Nat /\ curr_task.at \in Int
      /\ pos[t] \in Int /\ last[t] \in Int /\ hashes[t] \in Nat
  BY <1>1, Between
<1>3. /\ hashes'[t] = hashes[t] + 1
      /\ cr_pc'[t] = IF pos[t] = curr_task.at THEN "hit" ELSE "miss"
      /\ \A u \in 1 .. THREAD_COUNT :
            u # t => cr_pc'[u] = cr_pc[u] /\ hashes'[u] = hashes[u]
      /\ hashes' \in [1 .. THREAD_COUNT -> Nat]
  BY <1>1, <1>2, SMTT(30) DEF CrackShape
<1>4. CrackShape'
  BY <1>1, <1>2, <1>3, BetweenShape DEF CrackShape
<1>5. Cut(t - 1)' = Cut(t - 1) /\ Cut(t)' = Cut(t)
  BY <1>1 DEF Cut
<1>6. Searched(t)'
  BY <1>1, <1>2, <1>3, <1>5, SMTT(30) DEF Searched
<1>7. said[t] = {}
  BY <1>1, <1>2 DEF Searched
<1>8. SumIs(Added', total_hashes')
  BY <1>1, <1>2, <1>3, <1>7, SameAdded
<1>9. CrackSearch'
  <2>1. said[t] # {0} /\ cr_pc'[t] # "start"
    BY <1>3, <1>7
  <2> QED
    BY <1>1, <1>2, <1>3, <1>6, <1>8, <2>1, WorkerSearch
<1> QED
  BY <1>4, <1>9 DEF CrackInv

\* The password is published: only here found becomes TRUE.
LEMMA CrackHitInv ==
  ASSUME CrackerAssumption, CrackInv, NEW t \in 1 .. THREAD_COUNT, Hit(t)
  PROVE  CrackInv'
<1>1. /\ cr_pc[t] = "hit" /\ curr_password' = pos[t] /\ found' = TRUE
      /\ said' = [said EXCEPT ![t] = @ \cup {0}]
      /\ cr_pc' = [cr_pc EXCEPT ![t] = "add"]
      /\ UNCHANGED <<curr_task, main, total_hashes, task_done, pos, last, hashes>>
  BY DEF Hit
<1>2. /\ CrackShape /\ CrackSearch /\ main = "after" /\ Searched(t)
      /\ SumIs(Added, total_hashes) /\ THREAD_COUNT \in Nat
      /\ Cut(t - 1) \in Nat /\ Cut(t) \in Nat /\ curr_task.at \in Int
      /\ pos[t] \in Int /\ last[t] \in Int /\ hashes[t] \in Nat
  BY <1>1, Between
<1>3. said[t] = {} /\ pos[t] = curr_task.at /\ Cut(t - 1) <= pos[t] /\ pos[t] < last[t]
  BY <1>1, <1>2 DEF Searched
<1>4. /\ said'[t] = {0} /\ cr_pc'[t] = "add"
      /\ \A u \in 1 .. THREAD_COUNT : u # t => cr_pc'[u] = cr_pc[u] /\ said'[u] = said[u]
      /\ said' \in [1 .. THREAD_COUNT -> {{}, {0}, {1}, {2}}]
  BY <1>1, <1>2, <1>3 DEF CrackShape
<1>5. CrackShape'
  <2>1. found' \in BOOLEAN
    BY <1>1, Zenon
  <2> QED
    BY <1>1, <1>2, <1>4, <2>1, BetweenShape DEF CrackShape
<1>6. Cut(t - 1)' = Cut(t - 1) /\ Cut(t)' = Cut(t)
  BY <1>1 DEF Cut
<1>7. Searched(t)'
  BY <1>1, <1>2, <1>3, <1>4, <1>6, SMTT(30) DEF Searched
<1>8. SumIs(Added', total_hashes')
  BY <1>1, <1>2, <1>3, <1>4, SameAdded
<1>9. \A u \in 1 .. THREAD_COUNT : cr_pc'[u] # "start" => Searched(u)'
  <2> SUFFICES ASSUME NEW u \in 1 .. THREAD_COUNT, cr_pc'[u] # "start", u # t PROVE Searched(u)'
    BY <1>7
  <2>1. Searched(u)
    BY <1>2, <1>4 DEF CrackSearch
  <2> QED
    BY <1>1, <1>4, <2>1, OthersSearch
<1>10. curr_password' = curr_task'.at /\ curr_task'.at # -1
  BY <1>1, <1>2, <1>3
<1>11. CrackSearch'
  BY <1>4, <1>8, <1>9, <1>10 DEF CrackSearch
<1> QED
  BY <1>5, <1>11 DEF CrackInv

\* found is seen, or the next candidate is taken.
LEMMA CrackMissInv ==
  ASSUME CrackerAssumption, CrackInv, NEW t \in 1 .. THREAD_COUNT, Miss(t)
  PROVE  CrackInv'
<1>1. /\ cr_pc[t] = "miss"
      /\ UNCHANGED <<curr_task, main, found, total_hashes, curr_password, task_done, last,
                     hashes>>
  BY DEF Miss, shared
<1>2. /\ CrackShape /\ CrackSearch /\ main = "after" /\ Searched(t)
      /\ SumIs(Added, total_hashes) /\ THREAD_COUNT \in Nat
      /\ Cut(t - 1) \in Nat /\ Cut(t) \in Nat /\ curr_task.at \in Int
      /\ pos[t] \in Int /\ last[t] \in Int /\ hashes[t] \in Nat
  BY <1>1, Between
<1>3. /\ said[t] = {} /\ pos[t] < last[t] /\ pos[t] # curr_task.at
      /\ last[t] = Cut(t) /\ Cut(t - 1) <= pos[t] /\ hashes[t] = pos[t] + 1 - Cut(t - 1)
      /\ curr_task.at \notin Cut(t - 1) .. pos[t] - 1
  BY <1>1, <1>2 DEF Searched
<1>4. Cut(t - 1)' = Cut(t - 1) /\ Cut(t)' = Cut(t)
  BY <1>1 DEF Cut
<1>5. CASE found
  <2>1. /\ said' = [said EXCEPT ![t] = @ \cup {1}] /\ cr_pc' = [cr_pc EXCEPT ![t] = "add"]
        /\ pos' = pos
    BY <1>5 DEF Miss
  <2>2. /\ said'[t] = {1} /\ cr_pc'[t] = "add"
        /\ \A u \in 1 .. THREAD_COUNT : u # t => cr_pc'[u] = cr_pc[u] /\ said'[u] = said[u]
        /\ said' \in [1 .. THREAD_COUNT -> {{}, {0}, {1}, {2}}]
    BY <1>2, <1>3, <2>1 DEF CrackShape
  <2>3. CrackShape'
    BY <1>1, <1>2, <2>1, <2>2, BetweenShape DEF CrackShape
  <2>4. found'
    BY <1>1, <1>5
  <2>5. Searched(t)'
    <3>1. {1} # {0} /\ {1} # {2} /\ {1} # {}
      OBVIOUS
    <3>2. UNCHANGED <<curr_task, pos, last, hashes>> /\ pos[t] <= last[t]
      BY <1>1, <1>2, <1>3, <2>1
    <3> QED
      BY <1>3, <1>4, <2>2, <2>4, <3>1, <3>2 DEF Searched
  <2>6. SumIs(Added', total_hashes')
    BY <1>1, <1>2, <1>3, <2>2, SameAdded
  <2>7. CrackSearch'
    BY <1>1, <1>2, <1>3, <2>1, <2>2, <2>5, <2>6, WorkerSearch
  <2> QED
    BY <2>3, <2>7 DEF CrackInv
<1>6. CASE ~found
  <2>1. /\ pos' = [pos EXCEPT ![t] = @ + 1] /\ cr_pc' = [cr_pc EXCEPT ![t] = "loop"]
        /\ said' = said
    BY <1>6 DEF Miss
  <2>2. /\ pos'[t] = pos[t] + 1 /\ cr_pc'[t] = "loop"
        /\ \A u \in 1 .. THREAD_COUNT : u # t => cr_pc'[u] = cr_pc[u] /\ pos'[u] = pos[u]
        /\ pos' \in [1 .. THREAD_COUNT -> Int]
    BY <1>2, <2>1, SMTT(30) DEF CrackShape
  <2>3. CrackShape'
    BY <1>1, <1>2, <2>1, <2>2, BetweenShape DEF CrackShape
  <2>4. curr_task.at \notin Cut(t - 1) .. pos[t]
    BY <1>2, <1>3
  <2>5. pos[t] + 1 - 1 = pos[t] /\ Cut(t - 1) <= pos[t] + 1 /\ pos[t] + 1 <= last[t]
    BY <1>2, <1>3
  <2>6. Searched(t)'
    <3>1. /\ UNCHANGED <<curr_task, last, hashes>> /\ said'[t] = {}
          /\ {0} # {} /\ {1} # {} /\ {2} # {}
      BY <1>1, <1>3, <2>1
    <3>2. pos'[t] - 1 = pos[t] /\ hashes[t] = pos'[t] - Cut(t - 1)
      <4>1. PICK p, c, h : p = pos[t] /\ c = Cut(t - 1) /\ h = hashes[t]
        OBVIOUS
      <4>2. p \in Int /\ c \in Int /\ h = p + 1 - c /\ pos'[t] = p + 1
        BY <1>2, <1>3, <2>2, <4>1
      <4>3. p + 1 - 1 = p
        BY <4>2
      <4> QED
        BY <4>1, <4>2, <4>3
    <3>3. curr_task'.at \notin Cut(t - 1)' .. pos'[t] - 1
      BY <1>4, <2>4, <3>1, <3>2
    <3>4. /\ last'[t] = Cut(t)' /\ Cut(t - 1)' <= pos'[t] /\ pos'[t] <= last'[t]
          /\ hashes'[t] = pos'[t] - Cut(t - 1)'
      BY <1>3, <1>4, <2>2, <2>5, <3>1, <3>2
    <3> QED
      BY <2>2, <3>1, <3>3, <3>4 DEF Searched
  <2>7. SumIs(Added', total_hashes')
    BY <1>1, <1>2, <1>3, <2>1, <2>2, SameAdded
  <2>8. CrackSearch'
    BY <1>1, <1>2, <1>3, <2>1, <2>2, <2>6, <2>7, WorkerSearch
  <2> QED
    BY <2>3, <2>8 DEF CrackInv
<1> QED
  BY <1>5, <1>6

LEMMA CrackExhaustedInv ==
  ASSUME CrackerAssumption, CrackInv, NEW t \in 1 .. THREAD_COUNT, Exhausted(t)
  PROVE  CrackInv'
<1>1. /\ cr_pc[t] = "loop" /\ pos[t] >= last[t]
      /\ cr_pc' = [cr_pc EXCEPT ![t] = "check"]
      /\ UNCHANGED <<curr_task, main, found, total_hashes, curr_password, task_done, pos, last,
                     hashes, said>>
  BY DEF Exhausted, shared, local
<1>2. /\ CrackShape /\ CrackSearch /\ main = "after" /\ Searched(t)
      /\ SumIs(Added, total_hashes) /\ THREAD_COUNT \in Nat
      /\ Cut(t - 1) \in Nat /\ Cut(t) \in Nat
      /\ pos[t] \in Int /\ last[t] \in Int /\ hashes[t] \in Nat
  BY <1>1, Between
<1>3. said[t] = {} /\ pos[t] = last[t] /\ hashes[t] = pos[t] - Cut(t - 1)
  BY <1>1, <1>2 DEF Searched
<1>4. /\ cr_pc'[t] = "check"
      /\ \A u \in 1 .. THREAD_COUNT : u # t => cr_pc'[u] = cr_pc[u]
  BY <1>1, <1>2 DEF CrackShape
<1>5. CrackShape'
  BY <1>1, <1>2, BetweenShape DEF CrackShape
<1>6. Cut(t - 1)' = Cut(t - 1) /\ Cut(t)' = Cut(t)
  BY <1>1 DEF Cut
<1>7. Searched(t)'
  BY <1>1, <1>2, <1>3, <1>4, <1>6 DEF Searched
<1>8. SumIs(Added', total_hashes')
  BY <1>1, <1>2, <1>3, <1>4, SameAdded
<1>9. CrackSearch'
  BY <1>1, <1>2, <1>3, <1>4, <1>7, <1>8, WorkerSearch
<1> QED
  BY <1>5, <1>9 DEF CrackInv

\* Behind the loop found is read once more: who has read FALSE has searched its range.
LEMMA CrackCheckInv ==
  ASSUME CrackerAssumption, CrackInv, NEW t \in 1 .. THREAD_COUNT, Check(t)
  PROVE  CrackInv'
<1>1. /\ cr_pc[t] = "check"
      /\ UNCHANGED <<curr_task, main, found, total_hashes, curr_password, task_done, pos, last,
                     hashes>>
  BY DEF Check, shared
<1>2. /\ CrackShape /\ CrackSearch /\ main = "after" /\ Searched(t)
      /\ SumIs(Added, total_hashes) /\ THREAD_COUNT \in Nat
      /\ said[t] \in {{}, {0}, {1}, {2}}
  BY <1>1, Between
<1>3. Cut(t - 1)' = Cut(t - 1) /\ Cut(t)' = Cut(t)
  BY <1>1 DEF Cut
<1>4. CASE found
  <2>1. cr_pc' = [cr_pc EXCEPT ![t] = "after"] /\ said' = said
    BY <1>4 DEF Check
  <2>2. /\ cr_pc'[t] = "after"
        /\ \A u \in 1 .. THREAD_COUNT : u # t => cr_pc'[u] = cr_pc[u]
    BY <1>2, <2>1 DEF CrackShape
  <2>3. CrackShape'
    BY <1>1, <1>2, <2>1, BetweenShape DEF CrackShape
  <2>4. found'
    BY <1>1, <1>4
  <2>5. Searched(t)'
    BY <1>1, <1>2, <1>3, <2>1, <2>2, <2>4 DEF Searched
  <2>6. SumIs(Added', total_hashes')
    BY <1>1, <1>2, <2>1, <2>2, SameAdded
  <2>7. CrackSearch'
    BY <1>1, <1>2, <2>1, <2>2, <2>5, <2>6, WorkerSearch
  <2> QED
    BY <2>3, <2>7 DEF CrackInv
<1>5. CASE ~found
  <2>1. cr_pc' = [cr_pc EXCEPT ![t] = "add"] /\ said' = [said EXCEPT ![t] = @ \cup {2}]
    BY <1>5 DEF Check
  <2>2. said[t] = {}
    BY <1>1, <1>2, <1>5 DEF Searched
  <2>3. /\ cr_pc'[t] = "add" /\ said'[t] = {2}
        /\ \A u \in 1 .. THREAD_COUNT : u # t => cr_pc'[u] = cr_pc[u] /\ said'[u] = said[u]
        /\ said' \in [1 .. THREAD_COUNT -> {{}, {0}, {1}, {2}}]
    BY <1>2, <2>1, <2>2 DEF CrackShape
  <2>4. CrackShape'
    BY <1>1, <1>2, <2>1, <2>3, BetweenShape DEF CrackShape
  <2>5. Searched(t)'
    BY <1>1, <1>2, <1>3, <2>2, <2>3, SMTT(30) DEF Searched
  <2>6. SumIs(Added', total_hashes')
    BY <1>1, <1>2, <2>2, <2>3, SameAdded
  <2>7. CrackSearch'
    BY <1>1, <1>2, <2>2, <2>3, <2>5, <2>6, WorkerSearch
  <2> QED
    BY <2>4, <2>7 DEF CrackInv
<1> QED
  BY <1>4, <1>5

LEMMA CrackAddInv ==
  ASSUME CrackerAssumption, CrackInv, NEW t \in 1 .. THREAD_COUNT, Add(t)
  PROVE  CrackInv'
<1>1. /\ cr_pc[t] = "add" /\ total_hashes' = total_hashes + hashes[t]
      /\ cr_pc' = [cr_pc EXCEPT ![t] = IF 2 \in said[t] THEN "after" ELSE "check"]
      /\ UNCHANGED <<curr_task, main, found, curr_password, task_done, pos, last, hashes, said>>
  BY DEF Add, local
<1>2. /\ CrackShape /\ CrackSearch /\ main = "after" /\ Searched(t)
      /\ SumIs(Added, total_hashes) /\ THREAD_COUNT \in Nat
      /\ said[t] \in {{}, {0}, {1}, {2}} /\ hashes[t] \in Nat
  BY <1>1, Between
<1>3. Cut(t - 1)' = Cut(t - 1) /\ Cut(t)' = Cut(t)
  BY <1>1 DEF Cut
<1>4. said[t] # {} /\ (2 \in said[t] <=> said[t] = {2})
  BY <1>1, <1>2 DEF Searched
<1>5. /\ cr_pc'[t] = IF said[t] = {2} THEN "after" ELSE "check"
      /\ \A u \in 1 .. THREAD_COUNT : u # t => cr_pc'[u] = cr_pc[u]
  BY <1>1, <1>2, <1>4 DEF CrackShape
<1>6. CrackShape'
  <2>1. total_hashes' \in Int
    BY <1>1, <1>2 DEF CrackShape
  <2> QED
    BY <1>1, <1>2, <2>1, BetweenShape DEF CrackShape
<1>7. Searched(t)'
  BY <1>1, <1>2, <1>3, <1>4, <1>5 DEF Searched
<1>8. SumIs(Added', total_hashes')
  <2>1. PICK f, g, x, d : f = Added /\ g = Added' /\ x = total_hashes /\ d = hashes[t]
    OBVIOUS
  <2>2. \A u \in 1 .. THREAD_COUNT : Added'[u] = IF u = t THEN Added[u] + d ELSE Added[u]
    <3> SUFFICES ASSUME NEW u \in 1 .. THREAD_COUNT
                 PROVE  Added'[u] = IF u = t THEN Added[u] + d ELSE Added[u]
      OBVIOUS
    <3>1. /\ Added[u] = IF cr_pc[u] \in {"check", "after", "before"} /\ said[u] # {}
                        THEN hashes[u] ELSE 0
          /\ Added'[u] = IF cr_pc'[u] \in {"check", "after", "before"} /\ said'[u] # {}
                         THEN hashes'[u] ELSE 0
      BY DEF Added
    <3>2. CASE u = t
      <4>1. Added[u] = 0 /\ Added'[u] = hashes[t]
        BY <1>1, <1>4, <1>5, <3>1, <3>2
      <4> QED
        BY <1>2, <2>1, <3>2, <4>1
    <3>3. CASE u # t
      BY <1>1, <1>5, <3>1, <3>3
    <3> QED
      BY <3>2, <3>3
  <2>3. \A u \in 1 .. THREAD_COUNT : f[u] \in Int /\ g[u] = IF u = t THEN f[u] + d ELSE f[u]
    BY <1>2, <2>1, <2>2, AddedType
  <2>4. SumIs(f, x)
    BY <1>2, <2>1, Zenon
  <2>5. SumIs(g, x + d)
    <3>1. d \in Int
      BY <1>2, <2>1
    <3> QED
      BY <1>2, <2>3, <2>4, <3>1, SumChanges
  <2> QED
    BY <1>1, <2>1, <2>5
<1>9. CrackSearch'
  BY <1>1, <1>2, <1>5, <1>7, <1>8, WorkerSearch
<1> QED
  BY <1>6, <1>9 DEF CrackInv

\* The barriers and main.
LEMMA CrackStartsInv ==
  ASSUME CrackerAssumption, CrackInv, Starts PROVE CrackInv'
<1>1. /\ main \in {"before", "last"} /\ main' = IF main = "last" THEN "join" ELSE "after"
      /\ cr_pc' = [t \in 1 .. THREAD_COUNT |-> "start"]
      /\ UNCHANGED <<curr_task, found, total_hashes, curr_password, task_done, pos, last, hashes,
                     said>>
  BY DEF Starts, shared, local, Workers
<1>2. CrackShape /\ ~found /\ total_hashes = 0 /\ THREAD_COUNT \in Nat
  BY <1>1 DEF CrackInv, CrackShape, CrackerAssumption
<1>3. /\ \A t \in 1 .. THREAD_COUNT : cr_pc'[t] = "start"
      /\ cr_pc' \in [1 .. THREAD_COUNT ->
                    {"before", "start", "loop", "hit", "miss", "check", "add", "after", "exit"}]
  BY <1>1
<1>4. CrackShape'
  BY <1>1, <1>2, <1>3 DEF CrackShape
<1>5. SumIs(Added', total_hashes')
  <2>1. PICK g : g = Added'
    OBVIOUS
  <2>2. \A t \in 1 .. THREAD_COUNT : g[t] = 0
    BY <1>3, <2>1 DEF Added
  <2>3. SumIs(g, 0)
    BY <1>2, <2>2, SumOfZeros
  <2> QED
    BY <1>1, <1>2, <2>1, <2>3
<1>6. CrackSearch'
  BY <1>1, <1>2, <1>3, <1>5 DEF CrackSearch
<1> QED
  BY <1>4, <1>6 DEF CrackInv

LEMMA CrackEndsInv ==
  ASSUME CrackerAssumption, CrackInv, Ends PROVE CrackInv'
<1>1. /\ main = "after" /\ main' = "summary"
      /\ \A t \in 1 .. THREAD_COUNT : cr_pc[t] = "after"
      /\ cr_pc' = [t \in 1 .. THREAD_COUNT |-> "before"]
      /\ UNCHANGED <<curr_task, found, total_hashes, curr_password, task_done, pos, last, hashes,
                     said>>
  BY DEF Ends, shared, local, Workers
<1>2. CrackShape /\ CrackSearch
  BY DEF CrackInv
<1>3. /\ \A t \in 1 .. THREAD_COUNT : cr_pc'[t] = "before"
      /\ cr_pc' \in [1 .. THREAD_COUNT ->
                    {"before", "start", "loop", "hit", "miss", "check", "add", "after", "exit"}]
  BY <1>1
<1>4. CrackShape'
  BY <1>1, <1>2, <1>3 DEF CrackShape
<1>5. ASSUME NEW t \in 1 .. THREAD_COUNT PROVE Searched(t)'
  <2>1. Searched(t) /\ cr_pc[t] = "after" /\ cr_pc'[t] = "before"
    BY <1>1, <1>2, <1>3 DEF CrackSearch
  <2>2. Cut(t - 1)' = Cut(t - 1) /\ Cut(t)' = Cut(t)
    BY <1>1 DEF Cut
  <2> QED
    BY <1>1, <2>1, <2>2 DEF Searched
<1>6. Added' = Added
  BY <1>1, <1>3 DEF Added
<1>7. SumIs(Added', total_hashes')
  BY <1>1, <1>2, <1>6, Zenon DEF CrackSearch
<1>8. found' => /\ curr_password' = curr_task'.at /\ curr_task'.at # -1
                /\ \E t \in 1 .. THREAD_COUNT : cr_pc'[t] # "start" /\ said'[t] = {0}
  BY <1>1, <1>2, <1>3 DEF CrackSearch
<1>9. CrackSearch'
  BY <1>5, <1>7, <1>8 DEF CrackSearch
<1> QED
  BY <1>4, <1>9 DEF CrackInv

LEMMA CrackMainInv ==
  ASSUME CrackerAssumption, CrackInv, start PROVE CrackInv'
<1>1. UNCHANGED <<cr_pc, pos, last, hashes, said>>
  BY DEF start, ReadTask, EndOfInput, Summary, local
<1>2. CrackShape
  BY DEF CrackInv
<1>3. main' \in {"before", "last", "read"}
  BY DEF start, ReadTask, EndOfInput, Summary
<1>4. CrackSearch'
  BY <1>3 DEF CrackSearch
<1>5. CrackShape'
  <2>1. CASE ReadTask
    BY <1>1, <1>2, <2>1 DEF CrackShape, ReadTask, shared
  <2>2. CASE EndOfInput
    <3>1. task_done' = TRUE /\ main' = "last" /\ main = "read"
          /\ UNCHANGED <<curr_task, found, total_hashes>>
      BY <2>2 DEF EndOfInput, shared
    <3>2. task_done' \in BOOLEAN /\ task_done'
      BY <3>1
    <3> QED
      BY <1>1, <1>2, <3>1, <3>2 DEF CrackShape
  <2>3. CASE Summary
    <3>1. found' = FALSE /\ total_hashes' = 0 /\ main' = "read" /\ main = "summary"
          /\ UNCHANGED <<curr_task, task_done>>
      BY <2>3 DEF Summary
    <3>2. found' \in BOOLEAN /\ ~found'
      BY <3>1
    <3> QED
      BY <1>1, <1>2, <3>1, <3>2 DEF CrackShape
  <2> QED
    BY <2>1, <2>2, <2>3 DEF start
<1> QED
  BY <1>4, <1>5 DEF CrackInv

LEMMA CrackNextInv ==
  ASSUME CrackerAssumption, CrackInv, [CrackNext]_crackvars PROVE CrackInv'
<1>1. CASE start \/ Starts \/ Ends
  BY <1>1, CrackMainInv, CrackStartsInv, CrackEndsInv
<1>2. ASSUME NEW t \in 1 .. THREAD_COUNT, solve_task(t) PROVE CrackInv'
  BY <1>2, StartInv, CrackHashInv, CrackHitInv, CrackMissInv, CrackExhaustedInv, CrackCheckInv,
     CrackAddInv DEF solve_task
<1>3. CASE UNCHANGED crackvars
  BY <1>3 DEF crackvars, shared, local, CrackInv, CrackShape, CrackSearch, Searched,
              Added, Cut
<1> QED
  BY <1>1, <1>2, <1>3 DEF CrackNext, Workers

\* Both modules count alike.
LEMMA SameCardinality == ASSUME NEW S PROVE Cardinality(S) = Cardinality(S)
BY Zenon DEF Cardinality, Cardinality

\* At the summary every worker has left its search.
LEMMA SummaryRight ==
  ASSUME CrackerAssumption, CrackInv PROVE ReportsRight
<1> USE DEF ReportsRight, AnswerRight, FailureCoversAll, ReportsAgree
<1>0. CASE main # "summary"
  BY <1>0, Zenon
<1> SUFFICES ASSUME main = "summary" PROVE ReportsRight
  BY <1>0
<1> HIDE DEF ReportsRight, AnswerRight, FailureCoversAll, ReportsAgree
<1>1. CrackShape /\ CrackSearch /\ curr_task \in Tasks
  BY DEF CrackInv, CrackShape
<1>2. \A t \in 1 .. THREAD_COUNT : cr_pc[t] = "before" /\ Searched(t)
  BY <1>1 DEF CrackShape, CrackSearch
<1>3. /\ \A t \in 1 .. THREAD_COUNT : said[t] \in {{}, {0}, {1}, {2}}
      /\ \A t \in 1 .. THREAD_COUNT : hashes[t] \in Nat
      /\ found \in BOOLEAN
  BY <1>1 DEF CrackShape
<1>4. Workers = 1 .. THREAD_COUNT /\ Absent = -1 /\ THREAD_COUNT \in Nat
  BY DEF Workers, Absent, CrackerAssumption
<1>5. found => /\ curr_password = curr_task.at /\ curr_task.at # -1
               /\ \E t \in 1 .. THREAD_COUNT : said[t] = {0}
  BY <1>1 DEF CrackSearch
<1>6. ASSUME ~found PROVE \A t \in 1 .. THREAD_COUNT : said[t] = {2}
  BY <1>2, <1>3, <1>6 DEF Searched
<1>7. ASSUME ~found PROVE curr_task.at = -1
  <2> SUFFICES ASSUME curr_task.at # -1 PROVE FALSE
    OBVIOUS
  <2>1. PICK t \in 1 .. THREAD_COUNT : curr_task.at \in Cut(t - 1) .. Cut(t) - 1
    BY <1>1, RangesCover
  <2>2. said[t] = {2} /\ Searched(t)
    BY <1>2, <1>6, <1>7
  <2>3. pos[t] = Cut(t) /\ curr_task.at \notin Cut(t - 1) .. pos[t] - 1
    BY <2>2 DEF Searched
  <2> QED
    BY <2>1, <2>3
<1>8. found = (curr_task.at # -1)
  <2>1. CASE found
    BY <1>3, <1>5, <2>1
  <2>2. CASE ~found
    BY <1>3, <1>7, <2>2
  <2> QED
    BY <2>1, <2>2
<1>9. SumIs(Added, total_hashes)
  BY <1>1 DEF CrackSearch
<1>10. \A t \in 1 .. THREAD_COUNT : Added[t] = IF said[t] # {} THEN hashes[t] ELSE 0
  BY <1>2 DEF Added
<1>11. ASSUME ~found PROVE total_hashes = combinations[curr_task.dots]
  <2>1. PICK b : b = [t \in 0 .. THREAD_COUNT |-> Cut(t)]
    OBVIOUS
  <2>2. /\ b \in [0 .. THREAD_COUNT -> Int] /\ b[0] = 0
        /\ b[THREAD_COUNT] = combinations[curr_task.dots]
        /\ b[THREAD_COUNT] \in Nat /\ \A t \in 0 .. THREAD_COUNT : b[t] = Cut(t)
    BY <1>1, <1>4, <2>1, Cuts
  <2>3. ASSUME NEW t \in 1 .. THREAD_COUNT PROVE Added[t] = b[t] - b[t - 1]
    <3>1. said[t] = {2} /\ Searched(t)
      BY <1>2, <1>6, <1>11
    <3>2. hashes[t] = Cut(t) - Cut(t - 1)
      BY <3>1 DEF Searched
    <3>3. t \in 0 .. THREAD_COUNT /\ t - 1 \in 0 .. THREAD_COUNT
      BY <1>4
    <3>4. Added[t] = hashes[t]
      BY <1>10, <3>1
    <3> QED
      BY <2>2, <3>2, <3>3, <3>4
  <2>4. PICK f, x : f = Added /\ x = total_hashes
    OBVIOUS
  <2>5. SumIs(f, x)
    BY <1>9, <2>4, Zenon
  <2>6. \A t \in 1 .. THREAD_COUNT : f[t] = b[t] - b[t - 1]
    BY <2>3, <2>4
  <2>7. x = b[THREAD_COUNT] - b[0]
    BY <1>4, <2>2, <2>5, <2>6, SumTelescopes
  <2> QED
    BY <2>2, <2>4, <2>7
<1>12. total_hashes <= HashesDone
  <2>1. SumIs(hashes, HashesDone)
    BY <1>1, <1>4, HashesSum DEF CrackShape
  <2>2. \A t \in 1 .. THREAD_COUNT : Added[t] \in Int /\ hashes[t] \in Int /\ Added[t] <= hashes[t]
    BY <1>3, <1>10
  <2>3. PICK f, g, x, y : f = Added /\ g = hashes /\ x = total_hashes /\ y = HashesDone
    OBVIOUS
  <2>4. SumIs(f, x) /\ SumIs(g, y)
    BY <1>9, <2>1, <2>3, Zenon
  <2>5. \A k \in 1 .. THREAD_COUNT : f[k] \in Int /\ g[k] \in Int /\ f[k] <= g[k]
    BY <2>2, <2>3
  <2>6. x <= y
    BY <1>4, <2>4, <2>5, SumsCompare
  <2> QED
    BY <2>3, <2>6
<1>13. ASSUME NEW t \in 1 .. THREAD_COUNT PROVE Cardinality(said[t]) <= 1
  <2>1. Cardinality({}) = 0 /\ Cardinality({0}) = 1 /\ Cardinality({1}) = 1
        /\ Cardinality({2}) = 1
    BY FS_EmptySet, FS_Singleton
  <2> QED
    BY <1>3, <2>1
<1>14. Cardinality({t \in 1 .. THREAD_COUNT : 0 \in said[t]}) = IF found THEN 1 ELSE 0
  <2>1. \A t \in 1 .. THREAD_COUNT : 0 \in said[t] <=> said[t] = {0}
    BY <1>3
  <2>2. CASE ~found
    <3>1. {t \in 1 .. THREAD_COUNT : 0 \in said[t]} = {}
      BY <1>6, <2>2
    <3> QED
      BY <2>2, <3>1, FS_EmptySet
  <2>3. CASE found
    <3>1. PICK t \in 1 .. THREAD_COUNT : said[t] = {0}
      BY <1>5, <2>3
    <3>2. ASSUME NEW u \in 1 .. THREAD_COUNT, said[u] = {0}
          PROVE  curr_task.at \in Cut(u - 1) .. Cut(u) - 1
      <4>1. u - 1 \in 0 .. THREAD_COUNT /\ u \in 0 .. THREAD_COUNT
        BY <1>4
      <4>2. Cut(u - 1) \in Nat /\ Cut(u) \in Nat /\ curr_task.at \in Int
        BY <1>1, <4>1, Cuts
      <4>3. Cut(u - 1) <= curr_task.at /\ curr_task.at < Cut(u)
        BY <1>2, <3>2 DEF Searched
      <4> QED
        BY <4>2, <4>3
    <3>3. \A u \in 1 .. THREAD_COUNT : said[u] = {0} => u = t
      BY <1>1, <3>1, <3>2, RangesApart
    <3>4. {u \in 1 .. THREAD_COUNT : 0 \in said[u]} = {t}
      BY <2>1, <3>1, <3>3
    <3> QED
      BY <2>3, <3>4, FS_Singleton
  <2> QED
    BY <2>2, <2>3
<1>15. AnswerRight
  BY <1>4, <1>5, <1>8 DEF AnswerRight
<1>16. FailureCoversAll
  BY <1>4, <1>6, <1>11 DEF FailureCoversAll
<1>17. ReportsAgree
  <2>1. Cardinality({t \in Workers : 0 \in said[t]}) = IF found THEN 1 ELSE 0
    BY <1>4, <1>14, SameCardinality, Zenon
  <2>2. \A t \in Workers : Cardinality(said[t]) <= 1
    BY <1>4, <1>13, SameCardinality, Zenon
  <2> QED
    BY <1>12, <2>1, <2>2, Zenon DEF ReportsAgree
<1> QED
  BY <1>15, <1>16, <1>17 DEF ReportsRight

\* cracker2.c:96-233, for any number of threads, letters, dots and tasks: however the
\* workers' reads of found, their reports and their additions interleave, the summary names
\* the password exactly when it is among the candidates; a failure has hashed every
\* candidate exactly once, in ranges that do not overlap; at most one worker has found the
\* password and none has said two things; and total_hashes counts no hash twice.
THEOREM ReportsStayRight ==
  ASSUME CrackerAssumption PROVE CrackSpec => []ReportsRight
<1>1. CrackInit => CrackInv
  BY CrackStarts
<1>2. CrackInv /\ [CrackNext]_crackvars => CrackInv'
  BY CrackNextInv
<1>3. CrackInv => ReportsRight
  BY SummaryRight
<1> QED
  BY <1>1, <1>2, <1>3, PTL DEF CrackSpec
=============================================================================
