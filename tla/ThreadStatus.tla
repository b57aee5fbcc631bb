----------------------------- MODULE ThreadStatus -----------------------------
(***************************************************************************)
(* password_cracker's thread_status: an array with a slot per thread says  *)
(* which blocking call the thread is in.  findThreadId looks a slot up, or *)
(* adds one, under the mutex; the slot is then read and written without it *)
(* (LOCK_IF_SANITIZED is empty in a normal build), while addThread may move *)
(* the array.  array_gen stands for the array's address.                   *)
(***************************************************************************)
EXTENDS Integers, Sequences

CONSTANTS
    TSThreads,      \* the threads, main among them
    MainThread,
    INIT_ARRAY_SIZE,
    TSCalls         \* wrapped calls each thread makes

Fresh == "unset"        \* a slot that is counted and not filled yet
TSFree == "free"        \* nobody holds the mutex

ThreadStatusAssumption ==
    /\ MainThread \in TSThreads /\ {Fresh, TSFree} \cap TSThreads = {}
    /\ INIT_ARRAY_SIZE \in Nat \ {0} /\ TSCalls \in Nat

VARIABLES
    slots,          \* status_array up to thread_count: records [id, status]
    cap,            \* status_array_cap; 0 before the array exists
    array_gen,      \* which array it is; realloc makes another
    ts_pc,          \* where each thread is
    ts_mutex,       \* the thread that holds the mutex, or "free"
    self,           \* tid: the slot that findThreadId gave the thread
    loaded,         \* the array whose address the thread has loaded
    saved,          \* what saveStatus has put aside, per thread
    calls,          \* calls of this library still to make
    what,           \* what the thread is about to store: "waits" or "set"
    creating,       \* the thread that main has just created
    dangling,       \* an access has gone to an array that realloc had freed
    unset           \* threadStatusPrint has read a slot before initThread filled it

tsvars == <<slots, cap, array_gen, ts_pc, ts_mutex, self, loaded, saved, calls, what,
            creating, dangling, unset>>

\* initThreadArray has run in main, before any pthread_create.
TSInit ==
    /\ slots = <<[id |-> MainThread, status |-> "(none)"]>>
    /\ cap = INIT_ARRAY_SIZE
    /\ array_gen = 1
    /\ ts_pc = [t \in TSThreads |-> IF t = MainThread THEN "out" ELSE "none"]
    /\ ts_mutex = TSFree
    /\ self = [t \in TSThreads |-> 0]
    /\ loaded = [t \in TSThreads |-> 0]
    /\ saved = [t \in TSThreads |-> "(none)"]
    /\ calls = [t \in TSThreads |-> TSCalls]
    /\ what = [t \in TSThreads |-> "waits"]
    /\ creating = MainThread
    /\ dangling = FALSE /\ unset = FALSE

At(t, l) == ts_pc[t] = l
To(t, l) == ts_pc' = [ts_pc EXCEPT ![t] = l]
rest == <<slots, cap, array_gen, ts_mutex, self>>

\* ts_pthread_create: the new thread runs; its slot is looked up after that.
ts_pthread_create(t) ==
    /\ At(MainThread, "out") /\ At(t, "none")
    /\ ts_pc' = [ts_pc EXCEPT ![t] = "out", ![MainThread] = "find child"]
    /\ creating' = t
    /\ UNCHANGED <<rest, loaded, saved, calls, what, dangling, unset>>

\* A thread calls a ts_ wrapper (saveStatus) or threadStatusSetInternal; both begin with
\* findThreadId(0).
call_wrapper(t) ==
    /\ At(t, "out") /\ calls[t] > 0
    /\ calls' = [calls EXCEPT ![t] = @ - 1]
    /\ \E w \in {"waits", "set"} : what' = [what EXCEPT ![t] = w]
    /\ To(t, "find self")
    /\ UNCHANGED <<rest, loaded, saved, creating, dangling, unset>>

Wanted(t) == IF At(t, "find child") \/ At(t, "add child") THEN creating ELSE t
Indices(id) == {i \in DOMAIN slots : slots[i].id = id}

found(t) == Indices(Wanted(t))

AfterFind(t) == IF ts_pc[t] \in {"find self", "add self"} THEN "load" ELSE "out"

\* findThreadId, first half: the mutex, and the search.
findThreadId(t) ==
    /\ ts_pc[t] \in {"find self", "find child"}
    /\ ts_mutex = TSFree
    /\ IF found(t) # {}
       THEN /\ To(t, AfterFind(t)) /\ UNCHANGED <<slots, cap, array_gen, ts_mutex>>
            /\ self' = IF At(t, "find self")
                       THEN [self EXCEPT ![t] = CHOOSE i \in found(t) : TRUE] ELSE self
       ELSE \* addThread: grow, count the slot
            /\ IF cap = Len(slots) THEN cap' = cap * 2 /\ array_gen' = array_gen + 1
               ELSE UNCHANGED <<cap, array_gen>>
            /\ slots' = Append(slots, [id |-> Fresh, status |-> Fresh])
            /\ ts_mutex' = t
            /\ To(t, IF At(t, "find self") THEN "add self" ELSE "add child")
            /\ UNCHANGED self
    /\ UNCHANGED <<loaded, saved, calls, what, creating, dangling, unset>>

\* findThreadId, second half: initThread fills the new slot.
initThread(t) ==
    /\ ts_pc[t] \in {"add self", "add child"}
    /\ slots' = [slots EXCEPT ![Len(slots)] = [id |-> Wanted(t), status |-> "(none)"]]
    /\ self' = IF At(t, "add self") THEN [self EXCEPT ![t] = Len(slots)] ELSE self
    /\ ts_mutex' = TSFree
    /\ To(t, AfterFind(t))
    /\ UNCHANGED <<cap, array_gen, loaded, saved, calls, what, creating, dangling, unset>>

\* The address of status_array is loaded ...
load(t) ==
    /\ ts_pc[t] \in {"load", "load again"}
    /\ loaded' = [loaded EXCEPT ![t] = array_gen]
    /\ To(t, IF At(t, "load") THEN "save" ELSE "restore")
    /\ UNCHANGED <<rest, saved, calls, what, creating, dangling, unset>>

\* ... and used: a store to an array that has been moved is lost, or worse.
Store(t, status) ==
    IF loaded[t] = array_gen
    THEN slots' = [slots EXCEPT ![self[t]].status = status] /\ UNCHANGED dangling
    ELSE dangling' = TRUE /\ UNCHANGED slots

\* saveStatus, and the assignments of threadStatusSetInternal, which puts nothing back.
saveStatus(t) ==
    /\ At(t, "save")
    /\ saved' = [saved EXCEPT ![t] =
                    IF loaded[t] = array_gen THEN slots[self[t]].status ELSE Fresh]
    /\ Store(t, what[t])
    /\ To(t, IF what[t] = "waits" THEN "blocked" ELSE "out")
    /\ UNCHANGED <<cap, array_gen, ts_mutex, self, loaded, calls, what, creating, unset>>

\* The wrapped call (a lock, a wait, a join) returns.
wrapped_returns(t) ==
    /\ At(t, "blocked")
    /\ To(t, "load again")
    /\ UNCHANGED <<rest, loaded, saved, calls, what, creating, dangling, unset>>

restoreStatus(t) ==
    /\ At(t, "restore")
    /\ Store(t, saved[t])
    /\ To(t, "out")
    /\ UNCHANGED <<cap, array_gen, ts_mutex, self, loaded, saved, calls, what, creating, unset>>

\* SIGINT: threadStatusPrint walks the array, whatever the other threads are doing.
threadStatusPrint ==
    /\ ~unset
    /\ unset' = \E i \in DOMAIN slots : slots[i].id = Fresh
    /\ UNCHANGED <<rest, ts_pc, loaded, saved, calls, what, creating, dangling>>

TSStep(t) == \/ ts_pthread_create(t) \/ call_wrapper(t) \/ findThreadId(t) \/ initThread(t)
             \/ load(t) \/ saveStatus(t) \/ wrapped_returns(t) \/ restoreStatus(t)
TSNext == threadStatusPrint \/ \E t \in TSThreads : TSStep(t)

-----------------------------------------------------------------------------
\* thread_status.c:206-295: a thread has one slot, though it and its creator may both
\* look for it first.  As long as the array has not grown, no access is to a freed
\* array, a blocked thread's slot says so and that of a thread that runs does not.
StatusRight ==
    /\ \A t \in TSThreads : \A i, j \in Indices(t) : i = j
    /\ array_gen = 1 =>
        /\ ~dangling
        /\ \A t \in TSThreads :
            /\ At(t, "blocked") => slots[self[t]] = [id |-> t, status |-> "waits"]
            /\ At(t, "out") => \A i \in Indices(t) : slots[i].status # "waits"
=============================================================================
