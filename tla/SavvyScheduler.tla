--------------------------- MODULE SavvyScheduler ---------------------------
(***************************************************************************)
(* savvy_scheduler: libscheduler.c and its priority queue, driven by the   *)
(* green threads of gthreads.c.  The running job stays in the queue; the   *)
(* library takes it out when it finishes.  Time is a clock that ticks      *)
(* while a job, or the main thread, runs; an alarm comes between any two   *)
(* ticks, and every other one goes to the main thread.  A job finishes     *)
(* after the running time it was given.                                    *)
(***************************************************************************)
EXTENDS Integers, Sequences, FiniteSets, SequencesExt, FiniteSetsExt

CONSTANTS
    NJobs,          \* bound on the jobs
    Main,           \* the main thread, gtmain
    None,
    Schemes,        \* the schemes to check
    MaxPriority,
    MaxRunning, MaxOther,   \* bounds on the running time, of SJF and PSRTF, of others
    MaxLong,        \* bound on the jobs that need more than one tick
    MaxIdle         \* the main thread's own ticks end at this time

AllSchemes == {"FCFS", "PRI", "PPRI", "PSRTF", "RR", "SJF"}

\* Jobs are numbered in the order in which gtgo creates them.
Jobs == 1 .. NJobs

ASSUME SchedulerAssumption ==
    /\ NJobs \in Nat
    /\ Main \notin Jobs /\ None \notin Jobs \union {Main}
    /\ Schemes \subseteq AllSchemes
    /\ MaxRunning \in Nat \ {0} /\ MaxPriority \in Nat \ {0}
    /\ MaxOther \in 1 .. MaxRunning /\ MaxIdle \in Nat /\ MaxLong \in Nat

VARIABLES
    scheme,         \* pqueue_scheme
    pqueue,         \* the jobs in the queue's order
    info,           \* the metadata of each job
    response_time, n_jobs,
    currjob,        \* None: a job was freed that is still in the queue
    suspended,
    counter,        \* 0: the last alarm went to the main thread
    clock,
    life,           \* of a job: "new", "alive", "done"
    ran, firstRun,  \* ticks a job had; when it first had the processor
    overtaken       \* a job was put in front of the one that had the processor

stats == <<response_time, n_jobs>>
vars == <<scheme, pqueue, info, stats, currjob, suspended, counter, clock, life,
          ran, firstRun, overtaken>>

is_preemptive == scheme \in {"PPRI", "PSRTF", "RR"}

\* scheduler_start_up, gtinit; what a job will need is chosen here.
Init ==
    /\ scheme \in Schemes
    /\ pqueue = <<>>
    /\ info \in [Jobs -> [priority : 1 .. MaxPriority, running : 1 .. MaxRunning,
                          remaining : {0}, arrival : {0}, start : {-1}, next : {-1},
                          resumed : {0}]]
    /\ \A j \in Jobs :
        /\ scheme \notin {"PRI", "PPRI"} => info[j].priority = 1
        /\ scheme \notin {"SJF", "PSRTF"} => info[j].running <= MaxOther
    /\ Cardinality({j \in Jobs : info[j].running > 1}) <= MaxLong
    /\ response_time = 0 /\ n_jobs = 0
    /\ currjob = Main /\ suspended = None /\ counter = 1
    /\ clock = 0
    /\ life = [j \in Jobs |-> "new"]
    /\ ran = [j \in Jobs |-> 0]
    /\ firstRun = [j \in Jobs |-> -1]
    /\ overtaken = FALSE

-----------------------------------------------------------------------------
(* The comparers and the priority queue.                                    *)

Key(m) == CASE scheme = "FCFS" -> m.arrival
            [] scheme \in {"PRI", "PPRI"} -> m.priority
            [] scheme = "PSRTF" -> m.remaining
            [] scheme = "RR" -> m.next
            [] scheme = "SJF" -> m.running

\* comparer(a, b) < 0; ties are broken by comparer_fcfs.
Precedes(m, a, b) ==
    \/ Key(m[a]) < Key(m[b])
    \/ Key(m[a]) = Key(m[b]) /\ m[a].arrival < m[b].arrival

\* Mutant: an equal job is put in front.
OfferFront(m, q, j) ==
    LET behind == {i \in DOMAIN q : ~Precedes(m, q[i], j)} IN
    InsertAt(q, IF behind = {} THEN Len(q) + 1
                ELSE CHOOSE i \in behind : \A k \in behind : i <= k, j)

\* priqueue_offer: in front of the head, else behind the first entry that does not
\* come after the new one and whose successor does, or at the end.
priqueue_offer(m, q, j) ==
    IF q = <<>> \/ Precedes(m, j, Head(q)) THEN <<j>> \o q
    ELSE LET places == {i \in DOMAIN q :
                            i = Len(q) \/ (/\ ~Precedes(m, j, q[i])
                                           /\ Precedes(m, j, q[i + 1]))}
             p == CHOOSE i \in places : \A k \in places : i <= k
         IN SubSeq(q, 1, p) \o <<j>> \o SubSeq(q, p + 1, Len(q))

\* Mutant: nothing is taken out.
PolledNothing(q) == q

\* priqueue_poll
Polled(q) == IF q = <<>> THEN q ELSE Tail(q)

-----------------------------------------------------------------------------
(* scheduler_quantum_expired, as the queue, the metadata and the job it     *)
(* leaves behind, from those it is called with.                             *)

\* The head gets a start time if it has none.
Started(m, q) ==
    IF q # <<>> /\ m[Head(q)].start = -1 THEN [m EXCEPT ![Head(q)].start = clock]
    ELSE m

\* A preemptive scheme: the head is polled and offered again, and only then the
\* evicted job's remaining time is taken down.
Preempt(m, q, job_evicted) ==
    LET next_job == Head(q)
        m1 == [m EXCEPT ![job_evicted].next = clock]
        m2 == [m1 EXCEPT ![next_job].resumed = clock]
        q1 == priqueue_offer(m2, Tail(q), next_job)
        m3 == [m2 EXCEPT ![job_evicted].remaining =
                    @ - (clock - m2[job_evicted].resumed)]
    IN [q |-> q1, m |-> m3, job |-> Head(q1)]

scheduler_quantum_expired(m0, q, job_evicted) ==
    LET m == Started(m0, q) IN
    IF job_evicted = None
    THEN IF q = <<>> THEN [q |-> q, m |-> m, job |-> None]
         ELSE [q |-> q, m |-> [m EXCEPT ![Head(q)].resumed = clock], job |-> Head(q)]
    ELSE IF is_preemptive THEN Preempt(m, q, job_evicted)
    ELSE [q |-> q, m |-> [m EXCEPT ![job_evicted].next = clock], job |-> job_evicted]

-----------------------------------------------------------------------------
(* gthreads.c                                                               *)

\* The end of gtyield: the chosen job, or main, has the processor.
SwitchTo(r) ==
    /\ pqueue' = r.q /\ info' = r.m
    /\ currjob' = IF r.job = None THEN Main ELSE r.job
    /\ firstRun' = [j \in Jobs |-> IF j = r.job /\ firstRun[j] = -1 THEN clock
                                   ELSE firstRun[j]]

Running == IF currjob = Main THEN suspended ELSE currjob

\* Job a is in front of job b.
Ahead(q, a, b) == \E i, k \in DOMAIN q : i < k /\ q[i] = a /\ q[k] = b

\* gtgo with scheduler_new_job, called by main at any time, also while a job that it
\* interrupted is suspended.
NewJob(j) ==
    /\ currjob = Main /\ life[j] = "new" /\ \A k \in 1 .. j - 1 : life[k] # "new"
    /\ info' = [info EXCEPT ![j].arrival = clock, ![j].resumed = clock,
                            ![j].remaining = info[j].running]
    /\ pqueue' = priqueue_offer(info', pqueue, j)
    /\ life' = [life EXCEPT ![j] = "alive"]
    /\ overtaken' = (overtaken \/ Ahead(pqueue', j, Running))
    /\ UNCHANGED <<scheme, stats, currjob, suspended, counter, clock, ran,
                   firstRun>>

Alive == {j \in Jobs : life[j] = "alive"}

\* gtyield in main with a suspended thread: back to it.  A job goes on with the
\* gtyield it was in and asks the scheduler; main itself, which suspends itself when
\* an alarm finds it running, just returns.
MainResumes ==
    /\ currjob = Main /\ suspended # None
    /\ IF suspended = Main THEN UNCHANGED <<pqueue, info, currjob, firstRun>>
       ELSE SwitchTo(scheduler_quantum_expired(info, pqueue, suspended))
    /\ suspended' = None
    /\ UNCHANGED <<scheme, stats, counter, clock, life, ran, overtaken>>

\* gtdoyield(0), an alarm or gtsleep in main, with no suspended thread.
MainYields(alarm) ==
    /\ currjob = Main /\ suspended = None
    /\ counter' = IF alarm THEN 1 - counter ELSE counter
    /\ suspended' = IF alarm /\ counter' = 0 /\ Alive # {} THEN Main ELSE None
    /\ SwitchTo(scheduler_quantum_expired(info, pqueue, None))
    /\ UNCHANGED <<scheme, stats, clock, life, ran, overtaken>>

\* SIGALRM in a job: every other one goes to main before the scheduler is asked.
Alarm ==
    /\ currjob \in Jobs
    /\ counter' = 1 - counter
    /\ IF counter' = 0
       THEN /\ suspended' = currjob /\ currjob' = Main
            /\ UNCHANGED <<pqueue, info, firstRun>>
       ELSE /\ SwitchTo(scheduler_quantum_expired(info, pqueue, currjob))
            /\ UNCHANGED suspended
    /\ UNCHANGED <<scheme, stats, clock, life, ran, overtaken>>

\* gtstop: scheduler_job_finished, which polls the head, and the next job.  When the
\* head is another job, that one is lost and the queue keeps the job that is freed:
\* what follows is undefined and not modelled.
JobFinished ==
    /\ currjob \in Alive /\ ran[currjob] = info[currjob].running
    /\ n_jobs' = n_jobs + 1
    /\ response_time' = response_time + (info[currjob].start - info[currjob].arrival)
    /\ life' = [life EXCEPT ![currjob] = "done"]
    /\ IF Head(pqueue) = currjob
       THEN SwitchTo(scheduler_quantum_expired(info, Polled(pqueue), None))
       ELSE /\ pqueue' = Polled(pqueue) /\ currjob' = None
            /\ UNCHANGED <<info, firstRun>>
    /\ UNCHANGED <<scheme, suspended, counter, clock, ran, overtaken>>

Tick ==
    \/ /\ currjob \in Jobs /\ ran[currjob] < info[currjob].running
       /\ ran' = [ran EXCEPT ![currjob] = @ + 1]
       /\ clock' = clock + 1
       /\ UNCHANGED <<scheme, pqueue, info, stats, currjob, suspended, counter, life,
                      firstRun, overtaken>>
    \/ /\ currjob = Main /\ clock < MaxIdle
       /\ clock' = clock + 1
       /\ UNCHANGED <<scheme, pqueue, info, stats, currjob, suspended, counter, life,
                      ran, firstRun, overtaken>>

Next ==
    \/ \E j \in Jobs : NewJob(j)
    \/ \E alarm \in BOOLEAN : MainYields(alarm)
    \/ MainResumes \/ Alarm \/ JobFinished \/ Tick

\* The processor works, main yields in its sleep and in gtret.
Spec == /\ Init /\ [][Next]_vars
        /\ SF_vars(Tick) /\ SF_vars(JobFinished)
        /\ WF_vars(MainYields(FALSE)) /\ WF_vars(MainResumes)

-----------------------------------------------------------------------------
TypeOK ==
    /\ scheme \in AllSchemes
    /\ pqueue \in Seq(Jobs)
    /\ currjob \in Jobs \union {Main, None} /\ suspended \in Jobs \union {Main, None}
    /\ counter \in 0 .. 1
    /\ clock \in Nat
    /\ life \in [Jobs -> {"new", "alive", "done"}]
    /\ ran \in [Jobs -> 0 .. MaxRunning]

\* libscheduler.c:265: scheduler_job_finished polls the head because the job that is done
\* "is at the top of the PQ".
DoneIsHead ==
    currjob \in Alive /\ ran[currjob] = info[currjob].running => Head(pqueue) = currjob

\* What is true of it.  The queue holds the jobs that are not done, once each.  The job
\* that has the processor is the head, as long as none was put in front of it; with a
\* preemptive scheme it is the head again whenever it goes on.  In front of it are only
\* jobs that never ran.  The wrong job is polled with PRI and SJF only, and with FCFS no
\* job is overtaken.
HeadRuns ==
    /\ currjob = None => overtaken /\ scheme \in {"PRI", "SJF"}
    /\ scheme = "FCFS" => ~overtaken
    /\ currjob # None =>
        /\ ToSet(pqueue) = Alive /\ Len(pqueue) = Cardinality(Alive)
        /\ Running \in Jobs =>
            /\ Running \in ToSet(pqueue)
            /\ ~overtaken \/ (is_preemptive /\ currjob # Main) => Head(pqueue) = Running
            /\ \A j \in Jobs : Ahead(pqueue, j, Running) => firstRun[j] = -1

\* The queue is in the comparer's order although the keys of the jobs in it change: with
\* RR a job whose turn is over comes after every one that has waited longer.  Where the
\* keys change, an arrival in front of the suspended job ends it: that job is not at the
\* head when its key is set and stays where it is.
QueueInOrder ==
    (currjob # None /\ ~(overtaken /\ scheme \in {"RR", "PSRTF"})) =>
        \A i \in 1 .. Len(pqueue) - 1 : ~Precedes(info, pqueue[i + 1], pqueue[i])

\* All jobs that have arrived are finished in the end, under every scheme, unless the
\* wrong job was polled.
AllFinish == <>[](Alive = {} \/ currjob = None)

\* libscheduler.h:217: "use the first time a job was started as the job's start time".
\* The response times that are summed up run from arrival to the job's first turn.
ResponseTimeRight ==
    LET done == {j \in Jobs : life[j] = "done"}
        Response(j, sum) == sum + firstRun[j] - info[j].arrival
    IN response_time = FoldSet(Response, 0, done)

\* libscheduler.c:201: the time kept is used "to calculate `remaining time`".  A job
\* that waits has as much time left as it was given and did not use.
RemainingRight ==
    \A j \in Alive \ {Running} : info[j].remaining = info[j].running - ran[j]

-----------------------------------------------------------------------------
(* The scheduler for TLC, in two halves: its queue and what it decides, as   *)
(* above, and the contexts and stacks below it for any decision (module      *)
(* Gthreads).  A behaviour exercises one half, its focus.                    *)

CONSTANTS MAX_JOBS, MaxAlarms, MaxWork

VARIABLES
    focus,
    script, mode, gt_on, place, gt_sig, ctx, gt_curr, gt_suspended, gt_counter, leak_stack,
    job_count, jobcount, ticking, held, frees, freed_jobs, work, alarms     \* of Gthreads

gtvars == <<script, mode, gt_on, place, gt_sig, ctx, gt_curr, gt_suspended, gt_counter,
            leak_stack, job_count, jobcount, ticking, held, frees, freed_jobs, work, alarms>>
allvars == <<focus, vars, gtvars>>

Gt == INSTANCE Gthreads

ASSUME ContextAssumption == Gt!GthreadsAssumption

GtIdle == /\ script = {} /\ mode = {} /\ gt_on = {} /\ place = {} /\ gt_sig = {} /\ ctx = {}
          /\ gt_curr = {} /\ gt_suspended = {} /\ gt_counter = {} /\ leak_stack = {}
          /\ job_count = {} /\ jobcount = {} /\ ticking = {} /\ held = {} /\ frees = {}
          /\ freed_jobs = {} /\ work = {} /\ alarms = {}

SSInit ==
    \/ focus = "scheduler" /\ Init /\ GtIdle
    \/ focus = "gthreads" /\ Gt!gtinit /\ Init /\ scheme = "FCFS"

\* A step of the scheduler's half.
Sched(A) == focus = "scheduler" /\ A /\ UNCHANGED <<focus, gtvars>>

SSNext ==
    \/ focus = "scheduler" /\ Next /\ UNCHANGED <<focus, gtvars>>
    \/ focus = "gthreads" /\ Gt!GtNext /\ UNCHANGED <<focus, vars>>

\* The processor works, main yields in its sleep and in gtret.
SSSpec == /\ SSInit /\ [][SSNext]_allvars
          /\ SF_allvars(Sched(Tick)) /\ SF_allvars(Sched(JobFinished))
          /\ WF_allvars(Sched(MainYields(FALSE))) /\ WF_allvars(Sched(MainResumes))

-----------------------------------------------------------------------------
\* libscheduler.c:186-266: jobs that arrive while another one has the processor, alarms and
\* ends of jobs in any order keep the queue and the running job as HeadRuns has it, and the
\* queue in the comparer's order as QueueInOrder has it.
QueueRight == HeadRuns /\ QueueInOrder

\* gthreads.c:99-216: a stack that is in use is not freed and no switch goes to a context
\* that is not there; see module Gthreads.
ContextsRight == focus = "gthreads" => Gt!ContextsRight
=============================================================================
