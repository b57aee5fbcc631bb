--------------------------- MODULE SyncPrimitives ---------------------------
(***************************************************************************)
(* The threads of the repository's smaller concurrent parts for TLC: the   *)
(* barrier, the semamore and the rendezvous of critical_concurrency, the   *)
(* deadlock-resistant mutexes, par_reduce of teaching_threads, and the     *)
(* thread status library of password_cracker.  They share nothing, so a    *)
(* behaviour exercises one of them, its focus, and the others stay idle.   *)
(***************************************************************************)
EXTENDS Barrier

CONSTANTS
    SemThreads, Posters, Calls, InitVal, MaxVal,
    DrmThreads, Drms, None,
    QuoteLen,       \* the characters of each quote of the rendezvous
    Elems, MaxList, MaxThreads,
    TSThreads, MainThread, INIT_ARRAY_SIZE, TSCalls

VARIABLES
    focus,                                          \* the component that runs
    value, sem_pc, sem_left,                        \* of the semamore
    vertices, edges, visited, owner, drm_pc, want, result,  \* of libdrm
    decoded,    \* rendezvous: the characters of each quote that are decoded, a prefix
    sem,        \* s1 (posted by A) and s2 (posted by B)
    rdv_pc,     \* "modify", "post", "wait", "print" or "returned"
    printed,    \* how much of each quote was decoded when it was printed; -1 before
    freed,      \* main has freed the quotes and destroyed the semaphores
    list, reducer, asked, started, joined, worker, reduced, \* of par_reduce
    slots, cap, array_gen, ts_pc, ts_mutex, self, loaded, saved, calls, what,
    creating, dangling, unset                       \* of thread_status

semvars == <<value, sem_pc, sem_left>>
drmvars == <<vertices, edges, visited, owner, drm_pc, want, result>>
rdvvars == <<decoded, sem, rdv_pc, printed, freed>>
prvars  == <<list, reducer, asked, started, joined, worker, reduced>>
tsvars  == <<slots, cap, array_gen, ts_pc, ts_mutex, self, loaded, saved, calls, what,
             creating, dangling, unset>>
allvars == <<focus, vars, semvars, drmvars, rdvvars, prvars, tsvars>>

Sem == INSTANCE Semamore WITH Threads <- SemThreads, pc <- sem_pc, left <- sem_left
Res == INSTANCE Drm WITH Threads <- DrmThreads, pc <- drm_pc
Par == INSTANCE ParReduce
Sta == INSTANCE ThreadStatus

ASSUME SyncAssumption ==
    /\ Sem!SemamoreAssumption /\ Res!DrmAssumption
    /\ Par!ParReduceAssumption /\ Sta!ThreadStatusAssumption

-----------------------------------------------------------------------------
(* critical_concurrency's rendezvous: each of two threads decodes one quote  *)
(* character by character, posts its semaphore, waits for the other one and  *)
(* prints the quote that the other thread has decoded.                       *)

RThreads == {"A", "B"}
Partner(t) == IF t = "A" THEN "B" ELSE "A"

RdvInit ==
    /\ decoded = [t \in RThreads |-> 0]
    /\ sem = [t \in RThreads |-> 0]
    /\ rdv_pc = [t \in RThreads |-> "modify"]
    /\ printed = [t \in RThreads |-> -1]
    /\ freed = FALSE

RdvGoto(t, l) == rdv_pc' = [rdv_pc EXCEPT ![t] = l]

\* One turn of the loop, until the quote's final zero.
modify(t) ==
    /\ rdv_pc[t] = "modify"
    /\ IF decoded[t] = QuoteLen THEN RdvGoto(t, "post") /\ UNCHANGED decoded
       ELSE decoded' = [decoded EXCEPT ![t] = @ + 1] /\ UNCHANGED rdv_pc
    /\ UNCHANGED <<sem, printed, freed>>

sem_post(t) ==
    /\ rdv_pc[t] = "post"
    /\ sem' = [sem EXCEPT ![t] = @ + 1]
    /\ RdvGoto(t, "wait")
    /\ UNCHANGED <<decoded, printed, freed>>

\* Mutant: the thread takes back its own post.
sem_wait_own(t) ==
    /\ rdv_pc[t] = "wait" /\ sem[t] > 0
    /\ sem' = [sem EXCEPT ![t] = @ - 1]
    /\ RdvGoto(t, "print")
    /\ UNCHANGED <<decoded, printed, freed>>

sem_wait(t) ==
    /\ rdv_pc[t] = "wait" /\ sem[Partner(t)] > 0
    /\ sem' = [sem EXCEPT ![Partner(t)] = @ - 1]
    /\ RdvGoto(t, "print")
    /\ UNCHANGED <<decoded, printed, freed>>

print(t) ==
    /\ rdv_pc[t] = "print"
    /\ printed' = [printed EXCEPT ![Partner(t)] = decoded[Partner(t)]]
    /\ RdvGoto(t, "returned")
    /\ UNCHANGED <<decoded, sem, freed>>

\* main joins both threads, then frees.
join_and_free ==
    /\ \A t \in RThreads : rdv_pc[t] = "returned"
    /\ ~freed /\ freed' = TRUE
    /\ UNCHANGED <<decoded, sem, rdv_pc, printed>>

RdvThread(t) == modify(t) \/ sem_post(t) \/ sem_wait(t) \/ print(t)

\* rendezvous.c:52-83: what is printed is a quote that its thread has decoded to the end.
QuotesWhole == \A t \in RThreads : printed[t] \in {-1, QuoteLen}

-----------------------------------------------------------------------------
(* The components beside each other.                                         *)

RdvIdle == decoded = {} /\ sem = {} /\ rdv_pc = {} /\ printed = {} /\ freed = FALSE
ParIdle == /\ list = {} /\ reducer = {} /\ asked = {} /\ started = {} /\ joined = {}
           /\ worker = {} /\ reduced = {}
StaIdle == /\ slots = {} /\ cap = {} /\ array_gen = {} /\ ts_pc = {} /\ ts_mutex = {}
           /\ self = {} /\ loaded = {} /\ saved = {} /\ calls = {} /\ what = {}
           /\ creating = {} /\ dangling = {} /\ unset = {}

SInit ==
    /\ Init /\ Sem!Init /\ Res!Init
    /\ \/ focus \in {"barrier", "semamore", "drm"} /\ RdvIdle /\ ParIdle /\ StaIdle
       \/ focus = "rendezvous" /\ RdvInit /\ ParIdle /\ StaIdle
       \/ focus = "par_reduce" /\ Par!PRInit /\ RdvIdle /\ StaIdle
       \/ focus = "thread_status" /\ Sta!TSInit /\ RdvIdle /\ ParIdle

BarrierStep(t) ==
    /\ focus = "barrier" /\ Step(t)
    /\ UNCHANGED <<focus, semvars, drmvars, rdvvars, prvars, tsvars>>
SemStep(t) ==
    /\ focus = "semamore" /\ Sem!Step(t)
    /\ UNCHANGED <<focus, vars, drmvars, rdvvars, prvars, tsvars>>
RdvStep(t) ==
    /\ focus = "rendezvous" /\ RdvThread(t)
    /\ UNCHANGED <<focus, vars, semvars, drmvars, prvars, tsvars>>
RdvMain ==
    /\ focus = "rendezvous" /\ join_and_free
    /\ UNCHANGED <<focus, vars, semvars, drmvars, prvars, tsvars>>

SNext ==
    \/ \E t \in Threads : BarrierStep(t)
    \/ \E t \in SemThreads : SemStep(t)
    \/ \E t \in RThreads : RdvStep(t)
    \/ RdvMain
    \/ /\ focus = "barrier" /\ \E t \in Threads : SpuriousWakeup(t)
       /\ UNCHANGED <<focus, semvars, drmvars, rdvvars, prvars, tsvars>>
    \/ /\ focus = "semamore" /\ \E t \in SemThreads : Sem!SpuriousWakeup(t)
       /\ UNCHANGED <<focus, vars, drmvars, rdvvars, prvars, tsvars>>
    \/ /\ focus = "drm" /\ Res!Next
       /\ UNCHANGED <<focus, vars, semvars, rdvvars, prvars, tsvars>>
    \/ /\ focus = "par_reduce" /\ Par!PRNext
       /\ UNCHANGED <<focus, vars, semvars, drmvars, rdvvars, tsvars>>
    \/ /\ focus = "thread_status" /\ Sta!TSNext
       /\ UNCHANGED <<focus, vars, semvars, drmvars, rdvvars, prvars>>

\* Every thread is scheduled again and again.
SSpec ==
    /\ SInit /\ [][SNext]_allvars
    /\ \A t \in Threads : WF_allvars(BarrierStep(t))
    /\ \A t \in SemThreads : WF_allvars(SemStep(t))
    /\ \A t \in RThreads : WF_allvars(RdvStep(t))
    /\ WF_allvars(RdvMain)

-----------------------------------------------------------------------------
\* Nobody waits for ever.  barrier.c:34: every thread gets through all its rounds of
\* barrier_wait.  semamore.c:32: when the calls balance out, every semm_wait and semm_post
\* returns, although both kinds of sleepers share one condition variable.
\* rendezvous.c:60: the two threads meet whichever comes first, and main joins both.
ThreadsReturn ==
    /\ focus = "barrier" => AllRounds
    /\ focus = "semamore" => Sem!AllReturn
    /\ focus = "rendezvous" => <>freed

\* libdrm.c:79-129: the resource allocation graph tells who owns what and who waits for
\* what, also while drm_wait has given up m_global; see module Drm.
GraphMatches == Res!GraphMatches

\* What the threads hand to each other is whole: rendezvous.c:52, a quote is decoded before
\* it is printed; par_reduce.c:44, the parts cover the list once for any number of threads;
\* thread_status.c:229-272, a status stays with the thread that set it.
ThreadResults ==
    /\ focus = "rendezvous" => QuotesWhole
    /\ focus = "par_reduce" => Par!ReduceRight
    /\ focus = "thread_status" => Sta!StatusRight
=============================================================================
