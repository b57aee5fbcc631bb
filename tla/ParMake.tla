------------------------------- MODULE ParMake -------------------------------
(***************************************************************************)
(* parallel_make/parmake.c: the worker threads of parmake (solve), which   *)
(* take rules from the vector "rules" (dependencies before dependents, see *)
(* ParMakeOrder) and run the ones that are ready.  rules_lock guards the   *)
(* vector and is held for a whole scan; the states of the rules change     *)
(* under g_lock only, and the broadcast that announces a change is sent    *)
(* under g_lock too, although the sleepers wait with rules_lock.           *)
(***************************************************************************)
EXTENDS Integers, Sequences, FiniteSets

CONSTANTS
    Makers,     \* the threads that call solve
    NRules,     \* the rules are 1 .. NRules, numbered in the order of "rules"
    Nobody      \* holds rules_lock when it is free

ASSUME ParMakeAssumption == NRules \in Nat /\ Nobody \notin Makers

Rules == 1 .. NRules
Last == 3       \* the newest modification time the model distinguishes
DEFAULT == 0
VALID == 1
INVALID == -1

VARIABLES
    deps,       \* the graph: what each rule depends on
    descending, \* the Makefile lists dependencies in descending order
    outcome,    \* what a rule's commands do: fail, succeed, or create the target
    mtime,      \* modification time of the file named like the rule, 0: no file
    state,      \* rule->state
    rules,      \* the vector of rules nobody has taken yet
    rules_lock, \* the thread that holds it
    mk_pc, mk_i, \* where each thread is; its index in the scan
    job, st,    \* the rule a thread has taken, the state it will publish
    ran         \* history: how often the commands of a rule were run

input == <<deps, descending, outcome>>
makevars == <<deps, descending, outcome, mtime, state, rules, rules_lock, mk_pc, mk_i,
              job, st, ran>>

\* parmake() just before it creates the threads.
MakeInit ==
    /\ deps \in {d \in [Rules -> SUBSET Rules] : \A r \in Rules : d[r] \subseteq 1 .. r - 1}
    /\ descending \in BOOLEAN
    /\ outcome \in [Rules -> {"fail", "ok", "make"}]
    /\ mtime \in [Rules -> 0 .. Last - 1]
    /\ state = [r \in Rules |-> DEFAULT]
    /\ rules = [r \in Rules |-> r]
    /\ rules_lock = Nobody
    /\ mk_pc = [t \in Makers |-> "lock"]
    /\ mk_i = [t \in Makers |-> 1]
    /\ job = [t \in Makers |-> 1]
    /\ st = [t \in Makers |-> DEFAULT]
    /\ ran = [r \in Rules |-> 0]

IsFile(r) == mtime[r] # 0

\* Mutant: dependencies that have not finished are taken for satisfied.
run_status_eager(r) ==
    IF deps[r] = {} THEN IF IsFile(r) THEN "SAT_NO_RUN" ELSE "RUN_IMM"
    ELSE IF IsFile(r)
      THEN IF \E d \in deps[r] : ~IsFile(d) \/ mtime[r] < mtime[d]
             THEN "RUN_IMM" ELSE "SAT_NO_RUN"
      ELSE IF \E d \in deps[r] : state[d] = INVALID THEN "ERR" ELSE "RUN_IMM"

\* run_status(target).  For a target that is not a file the answer is the state
\* of the first dependency (in the order of the graph) that is not VALID.
run_status(r) ==
    IF deps[r] = {} THEN IF IsFile(r) THEN "SAT_NO_RUN" ELSE "RUN_IMM"
    ELSE IF IsFile(r)
      THEN IF \E d \in deps[r] : ~IsFile(d) \/ mtime[r] < mtime[d]
             THEN "RUN_IMM" ELSE "SAT_NO_RUN"
      ELSE LET open == {d \in deps[r] : state[d] # VALID} IN
           IF open = {} THEN "RUN_IMM"
           ELSE LET first == CHOOSE d \in open :
                               \A e \in open : IF descending THEN d >= e ELSE d <= e
                IN  IF state[first] = DEFAULT THEN "NOT_FINISHED" ELSE "ERR"

Without(s, k) == SubSeq(s, 1, k - 1) \o SubSeq(s, k + 1, Len(s))
Goto(t, l) == mk_pc' = [mk_pc EXCEPT ![t] = l]

-----------------------------------------------------------------------------
\* solve takes rules_lock and starts a scan.
Lock(t) ==
    /\ mk_pc[t] = "lock" /\ rules # << >>
    /\ rules_lock = Nobody /\ rules_lock' = t
    /\ mk_i' = [mk_i EXCEPT ![t] = 1]
    /\ Goto(t, "scan")
    /\ UNCHANGED <<input, mtime, state, rules, job, st, ran>>

\* Nothing is left in the vector: the thread unlocks and ends.
Leave(t) ==
    /\ mk_pc[t] = "lock" /\ rules = << >>
    /\ rules_lock = Nobody
    /\ Goto(t, "exit")
    /\ UNCHANGED <<input, mtime, state, rules, rules_lock, mk_i, job, st, ran>>

\* A rule that is ready is erased from the vector before the lock is released.
TakeToRun(t) ==
    /\ mk_pc[t] = "scan"
    /\ run_status(rules[mk_i[t]]) = "RUN_IMM"
    /\ job' = [job EXCEPT ![t] = rules[mk_i[t]]]
    /\ rules' = Without(rules, mk_i[t])
    /\ rules_lock' = Nobody
    /\ Goto(t, "run")
    /\ UNCHANGED <<input, mtime, state, mk_i, st, ran>>

\* A rule that is satisfied already, or whose dependency failed.
TakeDecided(t) ==
    LET code == run_status(rules[mk_i[t]]) IN
    /\ mk_pc[t] = "scan"
    /\ code \in {"SAT_NO_RUN", "ERR"}
    /\ job' = [job EXCEPT ![t] = rules[mk_i[t]]]
    /\ st' = [st EXCEPT ![t] = IF code = "ERR" THEN INVALID ELSE VALID]
    /\ rules' = Without(rules, mk_i[t])
    /\ rules_lock' = Nobody
    /\ Goto(t, "publish")
    /\ UNCHANGED <<input, mtime, state, mk_i, ran>>

\* A rule that is not ready is skipped; after the last one the thread is about
\* to call pthread_cond_wait and still holds rules_lock.
Skip(t) ==
    /\ mk_pc[t] = "scan"
    /\ run_status(rules[mk_i[t]]) = "NOT_FINISHED"
    /\ IF mk_i[t] = Len(rules)
         THEN Goto(t, "wait") /\ UNCHANGED mk_i
         ELSE mk_i' = [mk_i EXCEPT ![t] = @ + 1] /\ UNCHANGED mk_pc
    /\ UNCHANGED <<input, mtime, state, rules, rules_lock, job, st, ran>>

\* pthread_cond_wait releases rules_lock and sleeps.
Sleep(t) ==
    /\ mk_pc[t] = "wait"
    /\ rules_lock' = Nobody
    /\ Goto(t, "asleep")
    /\ UNCHANGED <<input, mtime, state, rules, mk_i, job, st, ran>>

\* A wake-up without a broadcast; the thread only locks and unlocks rules_lock
\* before it starts over.
MakerWakes(t) ==
    /\ mk_pc[t] = "asleep"
    /\ Goto(t, "lock")
    /\ UNCHANGED <<input, mtime, state, rules, rules_lock, mk_i, job, st, ran>>

\* The commands of the rule, run through system() without any lock.  They may
\* create the target within the second of its newest dependency, or later.
Run(t) ==
    LET r == job[t] IN
    /\ mk_pc[t] = "run"
    /\ ran' = [ran EXCEPT ![r] = @ + 1]
    /\ st' = [st EXCEPT ![t] = IF outcome[r] = "fail" THEN INVALID ELSE VALID]
    /\ IF outcome[r] = "make"
         THEN \E now \in {Last - 1, Last} : mtime' = [mtime EXCEPT ![r] = now]
         ELSE UNCHANGED mtime
    /\ Goto(t, "publish")
    /\ UNCHANGED <<input, state, rules, rules_lock, mk_i, job>>

\* Mutant: nobody is told about the new state.
PublishSilently(t) ==
    /\ mk_pc[t] = "publish"
    /\ state' = [state EXCEPT ![job[t]] = st[t]]
    /\ Goto(t, "lock")
    /\ UNCHANGED <<input, mtime, rules, rules_lock, mk_i, job, st, ran>>

\* Under g_lock: set the state and broadcast.
Publish(t) ==
    /\ mk_pc[t] = "publish"
    /\ state' = [state EXCEPT ![job[t]] = st[t]]
    /\ mk_pc' = [u \in Makers |-> IF u = t \/ mk_pc[u] = "asleep" THEN "lock" ELSE mk_pc[u]]
    /\ UNCHANGED <<input, mtime, rules, rules_lock, mk_i, job, st, ran>>

MakersDone == \A t \in Makers : mk_pc[t] = "exit"

MakerStep(t) ==
    \/ Lock(t) \/ Leave(t) \/ TakeToRun(t) \/ TakeDecided(t) \/ Skip(t)
    \/ Sleep(t) \/ Run(t) \/ Publish(t)

MakeNext ==
    \/ \E t \in Makers : MakerStep(t) \/ MakerWakes(t)
    \/ MakersDone /\ UNCHANGED makevars

\* Every runnable thread runs again and again, and every command ends.
MakeSpec == MakeInit /\ [][MakeNext]_makevars /\ \A t \in Makers : WF_makevars(MakerStep(t))

-----------------------------------------------------------------------------
\* The commands of a rule are run at most once, by one thread, whatever the
\* threads' scans overlap with; a rule still in the vector is undecided, so the
\* ALREADY_DONE answer of run_status is never given.
RunOnce ==
    /\ \A r \in Rules : ran[r] <= 1
    /\ \A k \in 1 .. Len(rules) : state[rules[k]] = DEFAULT
    /\ \A t, u \in Makers :
          t # u /\ mk_pc[t] \in {"run", "publish"} /\ mk_pc[u] \in {"run", "publish"}
             => job[t] # job[u]

\* A rule whose target is not a file starts only when all rules it depends on
\* are satisfied (the comment at the end of run_status's last branch).
DepsFirst ==
    \A t \in Makers :
        mk_pc[t] = "run" /\ ~IsFile(job[t]) =>
            \A d \in deps[job[t]] : state[d] = VALID

\* A failure is passed on: a rule that is not a file on disk is not run once
\* something it depends on has failed, and ends up failed itself.
FailurePropagates ==
    \A r \in Rules :
        (\E d \in deps[r] : state[d] = INVALID) /\ ~IsFile(r) =>
            ran[r] = 0 /\ state[r] # VALID

\* parmake.c:152-226: the commands of a rule run at most once; for a target that is not
\* a file not before those of the rules it depends on, and not at all when one of those
\* has failed.
BuildSafe == RunOnce /\ DepsFirst /\ FailurePropagates

\* All workers leave: although the broadcast is not sent under the sleepers'
\* mutex and can come between a thread's last look and its sleep, nobody
\* sleeps for ever.
WorkersExit == <>MakersDone

\* run_status's description of RUN_IMM, "all deps are satisfied, run
\* IMMEDIATELY", for every target.
RunsOnlyWhenDepsSatisfied ==
    \A t \in Makers :
        mk_pc[t] = "run" => \A d \in deps[job[t]] : state[d] = VALID
=============================================================================
