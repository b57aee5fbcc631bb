------------------------------ MODULE Gthreads ------------------------------
(***************************************************************************)
(* savvy_scheduler/gthreads/gthreads.c below the scheduler: the contexts,  *)
(* stacks and job blocks that gtgo sets up, gtyield switches between and   *)
(* gtdestroy frees, under the test programs of main.c.  The scheduler may  *)
(* choose any job it holds; module SavvyScheduler says which one it does.  *)
(*                                                                         *)
(* An alarm comes while a thread runs code of its own, of gtgo or of       *)
(* gtstop; gtdoyield blocks it.  A handler is done before the next alarm   *)
(* is due: a quantum is 100 ms.                                            *)
(***************************************************************************)
EXTENDS Integers, Sequences

CONSTANTS
    MAX_JOBS,           \* the length of jobs[] and stacks[]
    MaxAlarms, MaxWork  \* bounds: alarms in a behaviour, steps of a job

\* gtgo does not look at the length of jobs[]; the test programs make up to three jobs.
GthreadsAssumption == MAX_JOBS \in Nat /\ MAX_JOBS > 3

VARIABLES
    script,         \* what is left of main's calls: "go", "start", "sleep"
    mode,           \* "run", "yield" (in gtyield), "ask", "switch" (its parts), "crashed", "exit"
    gt_on,          \* the thread whose stack the processor runs on
    place,          \* per thread: "user", "queued" (within gtgo), "stopping" (within gtstop)
    gt_sig,         \* per thread: the argument of its last gtyield
    ctx,            \* per thread: "unset", "work", "back" (out of gtyield), "wake" (into "ask")
    gt_curr, gt_suspended, gt_counter, leak_stack, job_count, jobcount, ticking,
    held,           \* the jobs the scheduler holds
    frees, freed_jobs,      \* how often a stack was freed; the job blocks that were
    work, alarms

threadvars == <<place, gt_sig, ctx>>
memvars == <<leak_stack, frees, freed_jobs>>
gtvars == <<script, mode, gt_on, threadvars, gt_curr, gt_suspended, gt_counter, memvars, job_count,
            jobcount, ticking, held, work, alarms>>

gtmain == 0
NoThread == -1
\* Job n has stacks[n]: gtgo raises jobcount before it takes the stack.
JobIds == 1 .. MAX_JOBS - 1
GtThreads == {gtmain} \cup JobIds

GTSTOP == -1
SIGALRM == 14
GTSLEEP_SIG == 1

\* main.c: the jobs at once and then the alarms, or the alarms first and jobs in between.
rr_fcfs_sjf_test == <<"go", "go", "start">>
psrtf_test == <<"start", "go", "sleep", "go">>
ppri_pri_test == <<"start", "go", "go", "sleep", "go">>

\* main: the scheme named on the command line decides which test runs.
AllSchemes == {"FCFS", "SJF", "RR", "PSRTF", "PRI", "PPRI"}
test_of(s) == IF s \in {"FCFS", "SJF", "RR"} THEN rr_fcfs_sjf_test
              ELSE IF s = "PSRTF" THEN psrtf_test ELSE ppri_pri_test

gtinit ==
    /\ script \in {test_of(s) : s \in AllSchemes}
    /\ mode = "run" /\ gt_on = gtmain
    /\ place = [t \in GtThreads |-> "user"] /\ gt_sig = [t \in GtThreads |-> 0]
    /\ ctx = [t \in GtThreads |-> "unset"]
    /\ gt_curr = gtmain /\ gt_suspended = NoThread /\ gt_counter = 1 /\ leak_stack = 0
    /\ job_count = 0 /\ jobcount = 0 /\ ticking = FALSE
    /\ held = {} /\ frees = [j \in JobIds |-> 0] /\ freed_jobs = {}
    /\ work = [t \in GtThreads |-> 0] /\ alarms = 0

-----------------------------------------------------------------------------
(* The threads' own code.                                                  *)

Runs(t, p) == mode = "run" /\ gt_on = t /\ place[t] = p
NextCall(c) == Runs(gtmain, "user") /\ script # << >> /\ Head(script) = c

\* gtgo up to scheduler_new_job: the scheduler has the job.
gtgo_queue ==
    /\ NextCall("go")
    /\ job_count' = job_count + 1 /\ jobcount' = jobcount + 1
    /\ held' = held \cup {jobcount + 1}
    /\ place' = [place EXCEPT ![gtmain] = "queued"]
    /\ UNCHANGED <<script, mode, gt_on, gt_sig, ctx, gt_curr, gt_suspended, gt_counter, memvars,
                   ticking, work, alarms>>

\* The rest of gtgo: the job's context.
gtgo_context ==
    /\ Runs(gtmain, "queued")
    /\ ctx' = [ctx EXCEPT ![jobcount] = "work"]
    /\ place' = [place EXCEPT ![gtmain] = "user"] /\ script' = Tail(script)
    /\ UNCHANGED <<mode, gt_on, gt_sig, gt_curr, gt_suspended, gt_counter, memvars, job_count,
                   jobcount, ticking, held, work, alarms>>

gtstart ==
    /\ NextCall("start")
    /\ ticking' = TRUE /\ script' = Tail(script)
    /\ UNCHANGED <<mode, gt_on, threadvars, gt_curr, gt_suspended, gt_counter, memvars, job_count,
                   jobcount, held, work, alarms>>

\* Into gtyield, from wherever the thread is.
call_gtyield(sig) ==
    /\ gt_sig' = [gt_sig EXCEPT ![gt_on] = sig] /\ mode' = "yield"
    /\ UNCHANGED <<gt_on, place, ctx, gt_curr, gt_suspended, gt_counter, memvars, job_count, jobcount,
                   ticking, held, work>>

\* One turn of gtsleep's loop: the time is over after it, or not yet.
gtsleep ==
    NextCall("sleep") /\ call_gtyield(GTSLEEP_SIG) /\ script' \in {script, Tail(script)}
    /\ UNCHANGED alarms

\* One turn of gtret's loop in main.
gtret == Runs(gtmain, "user") /\ script = << >> /\ call_gtyield(0) /\ UNCHANGED <<script, alarms>>

gthandle ==
    /\ mode = "run" /\ ticking /\ alarms < MaxAlarms
    /\ alarms' = alarms + 1 /\ call_gtyield(SIGALRM) /\ UNCHANGED script

\* A job works, and returns into gtstop.
job_works ==
    /\ gt_on # gtmain /\ Runs(gt_on, "user")
    /\ \/ /\ work[gt_on] < MaxWork /\ work' = [work EXCEPT ![gt_on] = @ + 1]
          /\ UNCHANGED <<place, job_count>>
       \/ /\ place' = [place EXCEPT ![gt_on] = "stopping"] /\ job_count' = job_count - 1
          /\ UNCHANGED work
    /\ UNCHANGED <<script, mode, gt_on, gt_sig, ctx, gt_curr, gt_suspended, gt_counter, memvars,
                   jobcount, ticking, held, alarms>>

gtstop ==
    /\ gt_on # gtmain /\ Runs(gt_on, "stopping")
    /\ call_gtyield(GTSTOP) /\ UNCHANGED <<script, alarms>>

-----------------------------------------------------------------------------
(* gtyield.                                                                *)

\* free(leak_stack) where one waits for it.
FreedLeak == IF leak_stack = 0 THEN frees ELSE [frees EXCEPT ![leak_stack] = @ + 1]

\* gtswtch(old, new): the running thread is to go on at "resume" ("gone": never); a context
\* that was never set is a jump to wherever the job's block happens to point.
gtswtch(new, resume) ==
    LET saved == IF resume = "gone" THEN ctx ELSE [ctx EXCEPT ![gt_on] = resume] IN
    /\ gt_on' = new
    /\ ctx' = [saved EXCEPT ![new] = "unset"]
    /\ mode' = CASE saved[new] = "unset" -> "crashed"
                 [] saved[new] = "wake" -> "ask"
                 [] OTHER -> "run"

\* The first part: back to the suspended job, or every other time to main.
gtyield ==
    /\ mode = "yield"
    /\ frees' = FreedLeak /\ leak_stack' = 0
    /\ LET toMain == gt_sig[gt_on] \in {SIGALRM, GTSLEEP_SIG}
           resume == gt_curr = gtmain /\ gt_suspended # NoThread
       IN  /\ gt_counter' = IF toMain /\ ~resume THEN (gt_counter + 1) % 2 ELSE gt_counter
           /\ IF resume
              THEN /\ gt_curr' = gt_suspended /\ gt_suspended' = NoThread
                   /\ gtswtch(gt_suspended, "back")
              ELSE IF toMain /\ gt_counter' = 0 /\ job_count # 0
              THEN gt_suspended' = gt_curr /\ gt_curr' = gtmain /\ gtswtch(gtmain, "wake")
              ELSE mode' = "ask" /\ UNCHANGED <<gt_on, ctx, gt_curr, gt_suspended>>
    /\ UNCHANGED <<script, place, gt_sig, freed_jobs, job_count, jobcount, ticking, held, work,
                   alarms>>

Ends == gt_sig[gt_on] = GTSTOP

\* Mutant: the stack of the job that ends, on which this very code runs, is freed at once.
gtdestroy_now(j) ==
    /\ freed_jobs' = freed_jobs \cup {j}
    /\ leak_stack' = 0
    /\ frees' = [frees EXCEPT ![j] = @ + 1]

\* gtdestroy: the block is freed, the stack left for the next gtyield.
gtdestroy(j) ==
    /\ freed_jobs' = freed_jobs \cup {j}
    /\ frees' = FreedLeak
    /\ leak_stack' = j

\* The scheduler's part: a job that ends leaves it, and any job it still holds is next;
\* without one, main.  A turn of gtret that finds nothing else to run ends the program.
gtyield_ask ==
    /\ mode = "ask"
    /\ held' = IF Ends /\ gt_curr # gtmain THEN held \ {gt_curr} ELSE held
    /\ \E newjob \in IF held' = {} THEN {gtmain} ELSE held' :
         IF newjob = gt_curr
         THEN /\ mode' = IF gt_sig[gt_on] = 0 THEN "exit" ELSE "run"
              /\ UNCHANGED <<gt_on, ctx, gt_curr, memvars>>
         ELSE /\ gt_curr' = newjob /\ mode' = "switch"
              /\ IF Ends THEN gtdestroy(gt_curr) ELSE UNCHANGED memvars
              /\ UNCHANGED <<gt_on, ctx>>
    /\ UNCHANGED <<script, place, gt_sig, gt_suspended, gt_counter, job_count, jobcount, ticking,
                   work, alarms>>

\* The end of gtyield, still on the stack of the thread that yields.
gtyield_switch ==
    /\ mode = "switch"
    /\ gtswtch(gt_curr, IF Ends THEN "gone" ELSE "back")
    /\ UNCHANGED <<script, place, gt_sig, gt_curr, gt_suspended, gt_counter, memvars, job_count,
                   jobcount, ticking, held, work, alarms>>

GtNext ==
    \/ gtgo_queue \/ gtgo_context \/ gtstart \/ gtsleep \/ gtret \/ gthandle
    \/ job_works \/ gtstop \/ gtyield \/ gtyield_ask \/ gtyield_switch

-----------------------------------------------------------------------------
\* gthreads.c:99-106, 136-216: the processor runs on the stack of the job it takes for the current
\* one, a stack that is not freed and a job whose block is not freed; each stack is freed at most
\* once, and only after its job has left the scheduler; no switch goes to a context that was not
\* set, except when an alarm came inside gtgo, after the scheduler got the job and before its
\* context was stored; and the program ends with no job left.
ContextsRight ==
    /\ mode \in {"run", "yield"} => gt_on = gt_curr
    /\ mode # "crashed" /\ gt_on # gtmain =>
         frees[gt_on] = 0 /\ (mode = "switch" \/ gt_on \notin freed_jobs)
    /\ \A j \in JobIds : frees[j] <= 1 /\ (frees[j] = 1 => j \notin held)
    /\ (held \cup {gt_curr, gt_suspended}) \cap freed_jobs = {}
    /\ mode = "crashed" => place[gtmain] = "queued" /\ gt_on = jobcount
    /\ mode = "exit" => held = {} /\ job_count = 0 /\ gt_suspended = NoThread
=============================================================================
