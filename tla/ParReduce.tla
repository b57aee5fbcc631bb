------------------------------ MODULE ParReduce ------------------------------
(***************************************************************************)
(* teaching_threads: par_reduce cuts a list into ranges, folds each in a   *)
(* thread of its own and folds the threads' results.                       *)
(***************************************************************************)
EXTENDS Integers, Sequences

CONSTANTS
    Elems,          \* what the list may hold
    MaxList,        \* its greatest length
    MaxThreads      \* the greatest num_threads asked for

\* The list is one of integers.
ParReduceAssumption == Elems \subseteq Int

VARIABLES
    list, reducer, asked,   \* the arguments of par_reduce
    started,                \* threads created so far
    joined,                 \* threads joined so far
    worker,                 \* worklist_t of each thread: next, right and acc
    reduced                 \* <<result>> when par_reduce has returned

prvars == <<list, reducer, asked, started, joined, worker, reduced>>

Reducers == {"add", "mult", "slow"}
get_reducer_base_case(r) == CASE r = "add" -> 0 [] r = "mult" -> 1 [] r = "slow" -> 56
apply(r, x, y) == CASE r = "add" -> x + y [] r = "mult" -> x * y [] r = "slow" -> 56

num_threads == IF Len(list) < asked THEN Len(list) ELSE asked
Workers == 0 .. num_threads - 1

\* Where the range of thread t begins; that of thread t - 1 ends there.
bound(n, t, threads) == (n * t) \div threads

\* validate_args: both numbers are at least 1.
PRInit ==
    /\ list \in UNION {[1 .. n -> Elems] : n \in 1 .. MaxList}
    /\ reducer \in Reducers
    /\ asked \in 1 .. MaxThreads
    /\ started = 0 /\ joined = 0
    /\ worker = [t \in Workers |-> [next |-> bound(Len(list), t, num_threads),
                                    right |-> bound(Len(list), t + 1, num_threads),
                                    acc |-> get_reducer_base_case(reducer)]]
    /\ reduced = <<>>

args == <<list, reducer, asked>>

pthread_create ==
    /\ started < num_threads
    /\ started' = started + 1
    /\ UNCHANGED <<args, joined, worker, reduced>>

\* One turn of the worker's loop.
solve_worker(t) ==
    /\ t < started
    /\ worker[t].next < worker[t].right
    /\ worker' = [worker EXCEPT ![t] = [next |-> @.next + 1, right |-> @.right,
                                       acc |-> apply(reducer, @.acc, list[@.next + 1])]]
    /\ UNCHANGED <<args, started, joined, reduced>>

\* The joins begin when the last thread has been created.
pthread_join ==
    /\ started = num_threads /\ joined < num_threads
    /\ worker[joined].next = worker[joined].right
    /\ joined' = joined + 1
    /\ UNCHANGED <<args, started, worker, reduced>>

\* par_reduced after the results of the first t threads.
par_reduced[t \in 0 .. num_threads] ==
    IF t = 0 THEN get_reducer_base_case(reducer)
    ELSE apply(reducer, par_reduced[t - 1], worker[t - 1].acc)

combine ==
    /\ joined = num_threads /\ reduced = <<>>
    /\ reduced' = <<par_reduced[num_threads]>>
    /\ UNCHANGED <<args, started, joined, worker>>

PRNext == \/ pthread_create \/ pthread_join \/ combine
          \/ \E t \in Workers : solve_worker(t)

-----------------------------------------------------------------------------
\* reduce.c: the fold from the left of the first n elements.
reduce[n \in 0 .. Len(list)] ==
    IF n = 0 THEN get_reducer_base_case(reducer) ELSE apply(reducer, reduce[n - 1], list[n])

\* par_reduce.c:34-73 and verify of main.c: however the threads run, the result is the
\* sequential one.
ReduceRight == reduced # <<>> => reduced[1] = reduce[Len(list)]
=============================================================================
