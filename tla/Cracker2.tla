------------------------------ MODULE Cracker2 ------------------------------
(***************************************************************************)
(* password_cracker/cracker2.c: all workers search parts of one task at a  *)
(* time.  main and the workers meet at a barrier before and after each     *)
(* task; in between the workers share found (written under a lock, read    *)
(* without one), total_hashes (under mtx) and curr_password.  A candidate  *)
(* is its position among all that fit the dots, and pthread_barrier_wait   *)
(* lets everyone go when the last one has come.                            *)
(***************************************************************************)
EXTENDS Integers, FiniteSets

CONSTANTS
    THREAD_COUNT,
    Letters,    \* size of the alphabet, 26 in the code
    MaxDots,    \* bound on the letters that are not known
    NTasks      \* bound on the lines of the input

CrackerAssumption ==
    /\ THREAD_COUNT \in Nat \ {0}
    /\ Letters \in Nat \ {0} /\ MaxDots \in Nat /\ NTasks \in Nat

Workers == 1 .. THREAD_COUNT
Absent == -1

\* max of getSubrange: the candidates for that many unknown letters.
combinations[unknown \in 0 .. MaxDots] ==
    IF unknown = 0 THEN 1 ELSE combinations[unknown - 1] * Letters

\* A task: how many letters are unknown, where the password is, or Absent.
Tasks == {t \in [dots : 0 .. MaxDots, at : Absent .. combinations[MaxDots] - 1] :
            t.at < combinations[t.dots]}

VARIABLES
    curr_task, lines,       \* the task, and the lines read so far
    found, total_hashes, curr_password, task_done,
    main,                   \* where the main thread is
    cr_pc,                  \* where each worker is
    pos, last, hashes,      \* pwd, the end of the range, hashes
    said                    \* what v2_print_thread_result said for this task

shared == <<found, total_hashes, curr_password>>
local == <<pos, last, hashes, said>>
crackvars == <<curr_task, lines, shared, task_done, main, cr_pc, local>>

CrackInit ==
    /\ curr_task = [dots |-> 0, at |-> Absent] /\ lines = 0
    /\ found = FALSE /\ total_hashes = 0 /\ curr_password = Absent
    /\ task_done = FALSE
    /\ main = "read"
    /\ cr_pc = [t \in Workers |-> "before"]
    /\ pos = [t \in Workers |-> 0] /\ last = [t \in Workers |-> 0]
    /\ hashes = [t \in Workers |-> 0]
    /\ said = [t \in Workers |-> {}]

-----------------------------------------------------------------------------
(* pthread_barrier_wait: main and the workers, at the start or at the end.  *)

Starts ==
    /\ main \in {"before", "last"} /\ \A t \in Workers : cr_pc[t] = "before"
    /\ main' = IF main = "last" THEN "join" ELSE "after"
    /\ cr_pc' = [t \in Workers |-> "start"]
    /\ UNCHANGED <<curr_task, lines, shared, task_done, local>>

Ends ==
    /\ main = "after" /\ \A t \in Workers : cr_pc[t] = "after"
    /\ main' = "summary"
    /\ cr_pc' = [t \in Workers |-> "before"]
    /\ UNCHANGED <<curr_task, lines, shared, task_done, local>>

-----------------------------------------------------------------------------
(* The main thread.                                                         *)

\* getline and create_curr_task
ReadTask ==
    /\ main = "read" /\ lines < NTasks
    /\ lines' = lines + 1
    /\ curr_task' \in Tasks
    /\ main' = "before"
    /\ UNCHANGED <<shared, task_done, cr_pc, local>>

EndOfInput ==
    /\ main = "read"
    /\ task_done' = TRUE
    /\ main' = "last"
    /\ UNCHANGED <<curr_task, lines, shared, cr_pc, local>>

\* v2_print_summary, then found and total_hashes are reset.
Summary ==
    /\ main = "summary"
    /\ found' = FALSE /\ total_hashes' = 0
    /\ main' = "read"
    /\ UNCHANGED <<curr_task, lines, curr_password, task_done, cr_pc, local>>

-----------------------------------------------------------------------------
(* A worker.                                                                *)

\* Mutant: the end of the range is not computed from the next one's start.
SubrangeEven(dots, t) ==
    LET max == combinations[dots] IN
    [start |-> (max \div THREAD_COUNT) * (t - 1),
     end |-> (max \div THREAD_COUNT) * t]

\* getSubrange: where the worker starts, and the position behind its last one.
getSubrange(dots, t) ==
    LET max == combinations[dots] IN
    [start |-> (max * (t - 1)) \div THREAD_COUNT,
     end |-> (max * t) \div THREAD_COUNT]

Start(t) ==
    /\ cr_pc[t] = "start"
    /\ IF task_done
       THEN /\ cr_pc' = [cr_pc EXCEPT ![t] = "exit"]
            /\ UNCHANGED local
       ELSE LET range == getSubrange(curr_task.dots, t) IN
            /\ pos' = [pos EXCEPT ![t] = range.start]
            /\ last' = [last EXCEPT ![t] = range.end]
            /\ hashes' = [hashes EXCEPT ![t] = 0]
            /\ said' = [said EXCEPT ![t] = {}]
            /\ cr_pc' = [cr_pc EXCEPT ![t] = "loop"]
    /\ UNCHANGED <<curr_task, lines, shared, task_done, main>>

\* crypt_r and the comparison with the task's hash.
Hash(t) ==
    /\ cr_pc[t] = "loop" /\ pos[t] < last[t]
    /\ hashes' = [hashes EXCEPT ![t] = @ + 1]
    /\ cr_pc' = [cr_pc EXCEPT ![t] = IF pos[t] = curr_task.at THEN "hit" ELSE "miss"]
    /\ UNCHANGED <<curr_task, lines, shared, task_done, main, pos, last, said>>

Hit(t) ==
    /\ cr_pc[t] = "hit"
    /\ curr_password' = pos[t] /\ found' = TRUE
    /\ said' = [said EXCEPT ![t] = @ \union {0}]
    /\ cr_pc' = [cr_pc EXCEPT ![t] = "add"]
    /\ UNCHANGED <<curr_task, lines, total_hashes, task_done, main, pos, last, hashes>>

\* found is read, without the lock: give up, or the next candidate.
Miss(t) ==
    /\ cr_pc[t] = "miss"
    /\ IF found
       THEN /\ said' = [said EXCEPT ![t] = @ \union {1}]
            /\ cr_pc' = [cr_pc EXCEPT ![t] = "add"]
            /\ UNCHANGED pos
       ELSE /\ pos' = [pos EXCEPT ![t] = @ + 1]
            /\ cr_pc' = [cr_pc EXCEPT ![t] = "loop"]
            /\ UNCHANGED said
    /\ UNCHANGED <<curr_task, lines, shared, task_done, main, last, hashes>>

\* The range is searched; the worker leaves the loop.
Exhausted(t) ==
    /\ cr_pc[t] = "loop" /\ pos[t] >= last[t]
    /\ cr_pc' = [cr_pc EXCEPT ![t] = "check"]
    /\ UNCHANGED <<curr_task, lines, shared, task_done, main, local>>

\* if (!found) behind the loop, again without the lock.
Check(t) ==
    /\ cr_pc[t] = "check"
    /\ IF found
       THEN /\ cr_pc' = [cr_pc EXCEPT ![t] = "after"]
            /\ UNCHANGED said
       ELSE /\ cr_pc' = [cr_pc EXCEPT ![t] = "add"]
            /\ said' = [said EXCEPT ![t] = @ \union {2}]
    /\ UNCHANGED <<curr_task, lines, shared, task_done, main, pos, last, hashes>>

\* total_hashes += hashes under mtx; after a break the check is still to come.
Add(t) ==
    /\ cr_pc[t] = "add"
    /\ total_hashes' = total_hashes + hashes[t]
    /\ cr_pc' = [cr_pc EXCEPT ![t] = IF 2 \in said[t] THEN "after" ELSE "check"]
    /\ UNCHANGED <<curr_task, lines, found, curr_password, task_done, main, local>>

solve_task(t) ==
    \/ Start(t) \/ Hash(t) \/ Hit(t) \/ Miss(t)
    \/ Exhausted(t) \/ Check(t) \/ Add(t)

start == ReadTask \/ EndOfInput \/ Summary

CrackNext == start \/ Starts \/ Ends \/ \E t \in Workers : solve_task(t)

\* Threads that can run do; the barrier lets everyone go.
CrackSpec == /\ CrackInit /\ [][CrackNext]_crackvars
        /\ WF_crackvars(start) /\ WF_crackvars(Starts) /\ WF_crackvars(Ends)
        /\ \A t \in Workers : WF_crackvars(solve_task(t))

-----------------------------------------------------------------------------
CrackTypeOK ==
    /\ curr_task \in Tasks /\ lines \in 0 .. NTasks
    /\ found \in BOOLEAN /\ task_done \in BOOLEAN
    /\ total_hashes \in Nat /\ curr_password \in Absent .. combinations[MaxDots] - 1
    /\ main \in {"read", "before", "after", "summary", "last", "join"}
    /\ cr_pc \in [Workers -> {"before", "start", "loop", "hit", "miss", "check",
                           "add", "after", "exit"}]
    /\ pos \in [Workers -> 0 .. combinations[MaxDots]]
    /\ last \in [Workers -> 0 .. combinations[MaxDots]]
    /\ hashes \in [Workers -> 0 .. combinations[MaxDots]]
    /\ said \in [Workers -> SUBSET 0 .. 2]

\* The hashes that all workers together have computed.
HashesDone ==
    LET Upto[t \in 0 .. THREAD_COUNT] == IF t = 0 THEN 0 ELSE Upto[t - 1] + hashes[t]
    IN  Upto[THREAD_COUNT]

\* What v2_print_summary says about the password is right: it is found exactly if
\* it is among the candidates, whatever the workers' ranges and the order in which
\* they run, and no answer is left over from the task before.
AnswerRight ==
    main = "summary" =>
        /\ found = (curr_task.at # Absent)
        /\ found => curr_password = curr_task.at

\* When the search fails, the ranges have covered every candidate exactly once
\* and every worker has said that it finished its range.
FailureCoversAll ==
    main = "summary" /\ ~found =>
        /\ total_hashes = combinations[curr_task.dots]
        /\ \A t \in Workers : said[t] = {2}

\* A worker says at most one thing about a task, and only one worker that it
\* found the password; the sum never counts a hash twice.
ReportsAgree ==
    main = "summary" =>
        /\ \A t \in Workers : Cardinality(said[t]) <= 1
        /\ Cardinality({t \in Workers : 0 \in said[t]}) = IF found THEN 1 ELSE 0
        /\ total_hashes <= HashesDone

\* cracker2.c:96-233: the summary is right about the password, about the range every
\* worker has searched and about what the workers have reported.
ReportsRight == AnswerRight /\ FailureCoversAll /\ ReportsAgree

\* Everyone gets through all the barriers: main joins workers that have left.
AllEnd == <>[](main = "join" /\ \A t \in Workers : cr_pc[t] = "exit")

\* libs/format.h:93: the summary's hash count is the number of hashes computed.
HashesCounted == main = "summary" => total_hashes = HashesDone
=============================================================================
