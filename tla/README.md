# A TLA+ development of CS341-SystemProgramming

The repository holds the programs of a systems-programming course: about twenty
independent C programs and libraries, each in a directory of its own. What they
have in common is that most of their difficulty is not in the algorithms but in
threads, signals, pipes, sockets and memory that several parties share. This
directory models them, checks them with TLC on small instances, and proves the safety
of most of them (the queue, the synchronisation libraries, parmake's workers, the second
cracker, the file server, the chat room, the shell and the programs that run a command,
the MMU, the allocator and the leak checker, the scheduler with its green threads) with
TLAPS for every size.

Paths below are relative to the repository's root (`src/` in `PROJECT.json`).

## 1. Inventory

| component | state it keeps | operations | what is hard | what makes it correct |
|---|---|---|---|---|
| `critical_concurrency/queue.c` | linked list (head, tail, size), one mutex, one condition variable | create, push, pull, destroy | producers and consumers sleep on the same condition variable | the list is sound, it is a bounded FIFO buffer, nobody sleeps for ever, destroy leaks nothing |
| `critical_concurrency/semamore.c` | value, max_val | init, wait, post | two kinds of sleepers on one condition variable | calls that balance out all return |
| `critical_concurrency/barrier.c` | count, times_used | init, wait | reuse: fast threads re-enter while slow ones leave | nobody leaves a round somebody has not entered; everyone gets through |
| `critical_concurrency/rendezvous.c` | two semaphores, two quotes | decode, post, wait, print | who waits for whom | only whole quotes are printed, both threads end |
| `teaching_threads` | ranges of a list, an accumulator per thread | create, work, join, combine | more threads than elements, uneven ranges | the result is that of the sequential fold |
| `deadlock_demolition/libdrm.c` | resource allocation graph, visited set, the mutexes | init, wait, post, destroy | the lock is taken while the global mutex is given up | the graph says who owns and who waits; no circle of waiting threads |
| `parallel_make` | the lines of a makefile, the graph, rules with their states | parse, cycle search, ordering, worker threads | recipes given twice, quotes and comments; two mutexes, scanning while others publish | the graph is what the makefile says; rules run once, after their dependencies, failures propagate, workers end |
| `nonstop_networking/server.c`, `client.c` | directory on disk, `file_list`, `file_size`, the connections | start, PUT, GET, LIST, DELETE, SIGINT | blocking reads in an event loop, clients that leave, failed uploads | the three views of the files agree, acknowledged uploads stay, everyone is answered |
| `password_cracker` 1 and 2 | queue of tasks; shared task, found, hash total | search by strings, by ranges | `found` is read without the lock; barriers | every candidate tried once, right answer, all threads end |
| `password_cracker/libs/thread_status.c`, `tools` | an array with a status per thread; examples | find, add, save, restore, print; create | the array is moved while others write to it | one slot per thread, the status of a blocked thread; the example takes as many hashes as it says |
| `charming_chatroom/server.c` | slots, count, flag of SIGINT | accept, broadcast, leave | descriptors reused, signal against accept | count and slots agree, one order for all, slots come free |
| `charming_chatroom/client.c`, `chat_window.c` | socket, two threads, their buffers | send, show, SIGINT | partial reads and writes, cancellation at any system call | whole messages, nothing leaked, the socket closed under no thread, an end |
| `savvy_scheduler` | priority queue, metadata of jobs; contexts and stacks | arrive, quantum, finish, six schemes; gtgo, gtyield, gtdestroy | the running job stays in the queue; a thread cannot free the stack it runs on | the job that runs is the head unless a late arrival went in front of it, the queue is in order, all jobs finish; no stack in use is freed |
| `ideal_indirection` | page directories and tables, TLB, frames, swap files | read, write, add and remove process, delete | pages move between frames and files under live pointers | a page holds what was written, frames are exclusive, TLB entries are current |
| `malloc/alloc.c` | blocks with headers and boundary tags, free list | malloc, free, realloc | splitting and merging in any order | the blocks tile the heap, the free list is exact |
| `mini_memcheck` | list of blocks, three totals; the hooks that replace the C library's functions | malloc, calloc, realloc, free, report | failing C library; the C library and the checker itself allocate through the hooks | the leak reported is the leak |
| `vector` | array of pointers, capacity; strings | every operation of `vector.h` and `sstring.h` | growth, insert and erase at the ends, null elements | the vector is the sequence its calls describe, each copy made and destroyed once |
| `extreme_edge_cases` | the table camel_caser returns | camel_caser, destroy | empty sentences, blanks at the ends | what the header says of the result |
| `shell/shell.c` | table of processes, history; the command of a child | lines, builtins, signals; redirection | SIGCHLD and SIGINT while the table is searched, shortened or walked by index | live children are in the table, one foreground command, an orderly end kills and reaps; a child runs what its line says |
| `mapreduce` | pipes with their open ends, processes, the reducer's datastore | split, map, reduce, wait | an end of file comes only when every process has closed the write end; stdio tears records | the counts are right, everything ends |
| `utilities_unleashed`, `malloc/mcontest.c` | one child, its status, a timer thread with a flag | fork, exec, wait, kill | the timer against the wait | the environment is right, success is reported only for success, mcontest ends |
| `finding_filesystems/minixfs*.c` | inodes, block map, data and indirect blocks | create, write, unlink, read, chmod, chown, mkdir, stat, directories | running out of blocks half way | blocks are exclusive, sizes are backed, data reads back |
| `finding_filesystems/fakefs_src` | `fd_map` over the process's descriptors, paths, directories | the hooked system calls, start, end, cp | two tables of descriptors that must agree, dup, counts of references | a descriptor stands for what POSIX says; cp copies |
| `deepfried_dd` | two positions, counters, a flag | seek, copy, SIGUSR1, report | a signal between any two steps | the bytes asked for, and reports that count what has been done |
| `mad_mad_access_patterns` | a tree in a file | look a word up by reads or in a mapping | words that are prefixes of others, broken files | found exactly when it is there |
| `perilous_pointers`, printing functions, provided callbacks, `pi` | none | | | not modelled, section 7 |

The programs do not call each other. Within a program the components interact by
calls under a mutex (queue, semamore, barrier, libdrm, parmake, cracker), by
sockets and pipes (the two servers and their clients, mapreduce), by signals (shell,
chat, dd, the scheduler's alarms), by threads that share an array (thread_status,
par_reduce), or by shared memory structures (mmu with kernel and TLB, minixfs under
fakefs, mini_memcheck under its hooks). `PROJECT.json` lists the components, the
hazards with the line where each bites, and the definition-to-line map.

## 2. Modules

| module | models | state and actions |
|---|---|---|
| `CriticalQueue` | `queue.c` | heap cells `next`, `data`, the fields of the queue, a `pc` per thread. `Push`, `Pull` are one critical section each; a thread that must wait gives the mutex up and is woken by `Broadcast` or spuriously. `order` is a history variable: the list as a sequence |
| `BoundedFifo` | what a queue promises | a sequence and a reply per thread; `CriticalQueue` implements it through the mapping of `FifoSpec` (sequence of the data in the nodes of `order`) |
| `QueueWorkload` | a test program as in `queue_test.c` | producers and consumers with balanced calls, then `queue_destroy` with the elements left |
| `CriticalQueue_proofs`, `NonstopServer_proofs`, `Chatroom_proofs`, `Mmu_proofs`, `SavvyScheduler_proofs` | | proofs about the module of that name, section 5 |
| `Threads_proofs`, `Processes_proofs`, `Allocators_proofs` | | proofs about `SyncPrimitives` with its components, `ParMake` and `Cracker2`; about `Shell` and `Runners` in `Processes`; about `Malloc` and `MiniMemcheck` in `Allocators` |
| `Barrier`, `Semamore`, `Drm` | the three synchronisation libraries | one action per critical section |
| `ParReduce` | `par_reduce.c` | one action per turn of a loop and per call |
| `ThreadStatus` | `thread_status.c` | loading the array's address and using it are steps of their own, `array_gen` tells the arrays that realloc made apart |
| `SyncPrimitives` | `rendezvous.c` | models rendezvous, one action per turn of a loop and per call, and runs it or one of these five, its `focus` |
| `ParMakeParser` | `parser.c`, `rule.c`, `parmake_main.c` | one action per turn of the loop over the lines; a line is a sequence of the characters the parser tells apart. `ParserRight` reads the meaning off the whole text instead |
| `ParMakeOrder` | `tricolor`, the pruning, `get_rules`, goal selection | recursive operators over every graph of `N` vertices |
| `ParMake` | `run_status`, `solve` | `Lock`, `TakeToRun`, `TakeDecided` and `Skip` are the scan, `Run` holds no lock, then `Publish` and `Sleep` |
| `ParMakeProgram` | | runs one of the three parts, each from every result the one before it can have |
| `NonstopServer` | `server.c`, `common.c`, `client.c` | start-up with SIGINT in it, the event loop with its blocking reads (`cur`), one action per handler and outcome, the client's parts |
| `Cracker1`, `Cracker2` | both crackers | every unlocked read of `found` is a step of its own |
| `Crackers` | `create_examples.c`, `writeInt` | runs one of the two crackers, or the tool, which it models |
| `ChatServer` | `server.c` | main between accept and the slots, one thread per slot, broadcast one `write` at a time |
| `ChatClient` | `client.c`, `chat_window.c`, `utils.c` | main, the handler and both threads; a message is some units of length and of text, a read or write moves one or more; every system call is a cancellation point |
| `Chatroom` | | runs the server with its connections, or one client |
| `Gthreads` | `gthreads.c`, `main.c` | contexts, stacks and job blocks under the three tests; the scheduler may choose any job |
| `SavvyScheduler` | `libscheduler.c`, `libpriqueue.c` | ticks, alarms, arrivals at any time (from main, while a job is suspended), the end of a job; `overtaken` records that a job was put in front of the one that has the processor; runs this or `Gthreads` |
| `Mmu` | `mmu.c`, `tlb.c`, `kernel.c`, `segments.c` | reads, writes, adding and removing a process, delete; a page fault with its eviction is part of the access that causes it |
| `Malloc` | `alloc.c` | one action per call |
| `MiniMemcheck` | `mini_memcheck.c`, `mini_hacks.c` | one action per call, from the loading of the library to its report, with the C library's own allocations |
| `Vector`, `CamelCaser` | `vector.c`, `callbacks.c`, `sstring.c`, `camelCaser.c` | one action per call |
| `Allocators` | | runs one of malloc, the leak checker, vector, sstring and camelCaser |
| `Shell` | `shell.c` | the loop, fork, setpgid, waitpid and both signal handlers, which interrupt the loop and each other (`frame`, `below`). `remove_process` and `delete_process` go through the table entry by entry (`look`) and erase by the index they found in a later step (`erase`, `stale_erase`); `wanted`, `pos` and `hit` are their locals, one for each frame. In a second part a child between fork and exec: splitting a command, redirection, arguments |
| `MapReduce` | `mapreduce.c`, `splitter.c`, the core library, four mappers, `sum.c` | `fds` has the pipe ends each process holds; one action per fork, exec, read, write and wait. Records are characters, a write of stdio ends anywhere in them, and the reducer takes lines, malformed ones too, off what has arrived |
| `Runners` | `time.c`, `env.c`, `mcontest.c` | parent, child and timer |
| `Processes` | | runs one of these four |
| `Minixfs` | `minixfs.c`, `minixfs_provided.c`, `minixfs_utils.c` | one action per system call, with each way it can fail half way |
| `Fakefs` | `fakefs_src` over the interface of minixfs | one action per hooked call; an image is a function from paths to nodes. `ref` is what POSIX says of the same calls |
| `FilePrograms` | `dd.c`, `lookup1.c`, `lookup2.c` | models dd and lookup, one action per turn of the loop, the signal between any two; runs one of these or of the two above |

A module whose name is that of a component holds its specification; the composed
modules (`SyncPrimitives`, `ParMakeProgram`, `Crackers`, `Chatroom`, `SavvyScheduler`,
`Allocators`, `Processes`, `FilePrograms`) put components under one next-state
relation, so that one run covers them: a variable chosen in the initial state says
which of them runs, and the variables of the others keep a fixed value. Data is
abstracted to what the properties tell apart: an uploaded file is its sender and its
length, a message its sender and a number, a command of parmake its outcome, a page a
value. Code outside the repository (pthreads, the `graph`, `set` and `queue`
archives, the C library, the kernel) appears as the few definitions marked external.
Definitions introduced with "Mutant:" are not part of the models: each is the
definition after it with one plausible mistake, which the listed property catches.

## 3. Runs

Every run is `tlc -config <cfg> <module>`.

* **queue** (`QueueWorkload.cfg`). Three producers, two consumers, capacity two, two
  pushes per producer and two pulls per consumer, with two elements left for
  `queue_destroy`. Capacity two is the smallest at which head, tail and an inner
  pointer differ, and five threads are the fewest with sleepers of both kinds and
  more than one of a kind. `ListShape`, `NoLostWakeup`, `NoLeak`, refinement of
  `BoundedFifo` (`FifoSpec`), and `AllReturn`.
* **sync** (`SyncPrimitives.cfg`). Four threads and three uses of the barrier (a
  third round is the first that could mix with the first if the closing of the
  second failed): `Synchronised`. Three posters and three waiters with two calls each
  on a semaphore of maximum two that starts at one; the two threads of rendezvous with
  quotes of two characters: `ThreadsReturn`, of all of these. Three threads and two
  drms: `GraphMatches`. Rendezvous, `par_reduce` on every list of up to four elements
  with up to four threads (as many as, fewer and more than elements), and three
  threads in a status array of two, so that it grows: `ThreadResults`.
* **drm_deadlock** (`DrmNoDeadlock.cfg`), a violation: see section 6.
* **parmake** (`ParMakeProgram.cfg`). Every makefile of up to three lines out of
  eleven kinds, or of four out of five kinds (four lines are the fewest that give a
  rule a second recipe), and lists of options and goals: `ParserRight`. All graphs over
  three vertices with all lists of up to three goals: `OrderRight`. All acyclic sets of
  three rules, all mixtures of files, failures and file times, two workers:
  `BuildSafe` (no rule runs twice or before its dependencies are decided, a failure
  reaches all that depend on it) and `AllWorkersExit`.
* **nonstop** (`NonstopServer.cfg`). Start-up, two connections, any verb, one file name
  and the empty name, files of up to two units that arrive in parts, clients that
  leave at any point, SIGINT at any point: `FilesSound`, `Served`.
* **cracker** (`Crackers.cfg`). Version 1: two workers, one or two tasks of every shape
  with up to three letters over an alphabet of two. Version 2: three workers (more than
  there are candidates of one letter), two tasks in a row. The examples for 1 to 81
  hashes with an alphabet of three: `SearchExhaustive`, `ReportsRight`, `EveryoneEnds`.
* **chat** (`Chatroom.cfg`). Three clients for two slots, so that one is refused or
  reuses a slot and a descriptor; two talk: `CountMatches`, `Delivery`. One client that
  sends and gets two messages in pieces, with SIGINT at any point: `ClientRight`. Both:
  `PartiesLeave`.
* **scheduler** (`SavvyScheduler.cfg`). Three jobs that arrive at any time, all six schemes,
  alarms at any time: `QueueRight` and `AllFinish`, which say what becomes of a job that is
  put in front of the running one: with the preemptive schemes (PPRI, PSRTF, RR) nothing is
  lost, with PRI and SJF the wrong job may be polled (section 6). The tests of `main.c` with
  up to four alarms: `ContextsRight`.
* **mmu** (`Mmu.cfg`). Two processes, one of them added again after its removal, three
  pages under two page tables, and six frames, most of which directories and tables
  take, so pages are evicted; a TLB of two entries: `PageHolds`, `FramesRight`.
* **allocators** (`Allocators.cfg`). A heap of eleven units: three blocks, of equal or
  different sizes, so that a block is freed between two free neighbours, and all three ways
  to merge happen (`HeapStaysSound` covers larger heaps): `HeapSound`. Five calls of the
  leak checker under the C library's own: `ReportRight`. A vector of up to three elements
  with capacity two at first: `VectorRight`. Every string up to four characters, and every
  input of camel_caser up to five: `StringsRight`.
* **processes** (`Processes.cfg`). The shell with two lines, two children and one SIGINT,
  the least with which a search in one frame is interrupted by a handler that erases another
  entry, and a SIGINT by a SIGCHLD: `ChildrenKept`, `ZombiesReaped`. Every command of up to
  five words, and `time`, `env` (up to three arguments, one variable inherited and one not)
  and `mcontest` with any outcome of the command: `CommandsRight`. mapreduce with two
  mappers, pipes that hold one line or write, and a stdio buffer of seven characters, so
  that a line with two records is torn in the middle of the second: `ReducedRight`.
  `ProgramsEnd`: mapreduce and mcontest come to an end.
* **files** (`FilePrograms.cfg`). Six blocks (so few that block 0 becomes a table of block
  numbers, which a stray directory entry can hit), two direct and three indirect entries per
  inode, three names (symmetric), two writes of three cells at offsets 3 and 4 and one
  unlink. A block has two cells, so a write at 3 goes from the last direct block into the
  first of the table (two direct blocks, the table and one entry), and one at 4 leaves the
  direct blocks as a hole and fills two blocks of the table, which with the directory takes
  all six blocks; what the first copy of such a write puts there is read back through the
  table, and with a second file the blocks run out half way. Which free block an allocation
  gets is open in the code (`minixfs_utils.c:118-128`); a call takes the first free one of
  an order, and the run has an ascending and a mixed order (`Orders`), from which each call
  chooses: `BlocksRight`, `ReadBack`. Any four system calls in a process with three
  descriptors (the fewest with one that is duplicated over another), writes that run out of
  space among them: `FdsRight`. cp between five pairs of paths, dd with every input up to
  five bytes, block sizes up to three, to a device with and without room and to stdout, and
  two signals, and every tree of three words: `FileToolsRight`.

Deadlock is checked for the queue and parmake, which may only stop when all threads
are done; the others have final states (bounds used up, a server that was told to
stop), so their configurations switch the check off and state progress as a property
where there is something to promise.

## 4. Fairness

Threads of the pthread programs have weak fairness: a runnable thread is scheduled
again and again. Mutexes give strong fairness only where a property needs a thread to
win a contended lock (`Clear`, `Lock`, `Refuse` and `Admit` of the chat server); the
waits on condition variables need none, since a broadcast makes all sleepers
runnable. In `NonstopServer` an accept and a ready connection have strong fairness,
because `epoll_wait` reports them again each time the server comes back to it, and
clients close their half of the connection in the end (`Finish`): without that a
blocking read may last for ever, which the code does not guard against. In the
scheduler the alarm may come between any two ticks but time goes on (strong fairness
of `Tick`), a job that has used its time ends, and main, which sleeps between arrivals,
comes back from its sleep. In the shell the loop, the handlers
and an endless wait are weakly fair; nothing makes a child end, or a user type.
In mapreduce every process is weakly fair: a pipe with room, or with data, lets its
writer or reader go on. In mcontest the parent, the timer and the C code of the child
are; a command that runs for ever is not, and `ProgramsEnd` does not need it to be. In
the chat client main, the handler and both threads are weakly fair, the user and the
server are not: that the client ends after SIGINT must not depend on them. The tools
of `FilePrograms` and `Allocators` are only checked for safety.

## 5. Proofs

Every theorem is about a specification that a run checks, and none has hypotheses
beyond the named assumptions on the constants, except where it says so. The provers do
not do induction over data by themselves, but the facts below that need it follow from
the least counterexample in a set of numbers (`WFMin` of the library), which can be
stated for sets rather than for formulas (`InductUpTo`, `Least`).

### The queue

`CriticalQueue_proofs` (602 obligations) proves for every set of threads, every
`max_size` including the unbounded ones (`<= 0`) and every supply of nodes:

* `TypeCorrect`: `Spec => []TypeOK`.
* `ListSound`: `Spec => []ListShape`. Following `next` from `head` visits exactly the
  allocated nodes, in the order of insertion, and ends in `tail`; both are NULL
  together, and `size` is the number of nodes.
* `NoWakeupLost`: `Spec => []NoLostWakeup`. A thread sleeps in push only while the
  queue is full, in pull only while it is empty, so no broadcast is missing.
* `DestroyFreesAll`: `Spec => []NoLeak`. The walk of `queue_destroy` frees every node.
* `Refinement`: `Spec => FifoSpec`. The queue implements `BoundedFifo`: each push and
  pull takes effect in one step, in which pull returns the oldest element.

The inductive invariant (`Invariance`) is
`IInv == TypeOK /\ Quiet /\ Capacity /\ ListShape`. Types alone are not inductive:
what `queue_pull` returns is `data[head]`, which is a value only because `head` is a
node whenever `size > 0`, and that needs the list's shape. The shape needs `Quiet`
(nobody is inside a queue that was destroyed), which is the caller's obligation and a
guard of destroy, and the refinement needs `Capacity`. The proof has one lemma
for push (append to the sequence), one for pull (drop its head), the others leave the
list alone; the refinement maps each action to one of the abstract ones or a stutter.
For `NoLeak`, the walk of destroy is a recursive function; the proof shows that the
function exists, that it visits the nodes of `order` one after the other (a least place
where it does not is a contradiction) and that, `order` having no node twice and no more
entries than there are nodes, it has come to the end. The only assumption is
`QueueAssumption`, on the constants.

### The synchronisation libraries

The first part of `Threads_proofs` (2882 obligations in all) is about the six components
that run `sync` puts side by side. For every finite set of threads and every number of rounds
(`BarrierAssumption`) it proves of the barrier `RoundsNeverMix`,
`Spec => []Synchronised`, and `NoSleepTooLong`, `Spec => []NoLostWakeup`.
`Synchronised` only compares history counters, so it says nothing about the next step.
The inductive invariant adds that `count` is the number of threads inside (`Counted`),
that a closed barrier holds fewer than all of them and everybody has left equally often
(`Collecting`), and that those outside an open one are exactly one round ahead of those
inside (`Releasing`). The interesting steps are the last arrival (`count + 1 = N` must
mean that *all* others are inside, a fact about cardinalities) and the last leaver
(`count = 1` must mean that nobody else is inside when the barrier closes). Spurious
wake-ups are steps of the specification.

Of the whole, `SSpec`, it proves, after a lemma that a step of the system is a step of
one component and a stutter of the others (`EachTakesItsStep`):

* `RoundsNeverMixInSystem`: `[]Synchronised` again.
* `GraphStaysRight`: `[]GraphMatches`, for any disjoint sets of threads and drms
  (`DrmAssumption`). The invariant adds where each thread is inside `drm_wait`
  (`Waiting`): between `pthread_mutex_lock` returning and the update under the graph's
  lock the edges lag behind the mutexes, by exactly the request edge of the thread that
  has the mutex. The theorem is about the graph, not about `has_cycle`, which
  `drm_deadlock` shows to be wrong.
* `SemaphoreSound`: the semamore's value stays in range and whoever sleeps has a reason
  to, although `semm_wait` and `semm_post` broadcast only at the boundary values. That is
  enough because the invariant knows that a sleeper in `semm_wait` means 0 and one in
  `semm_post` means the maximum.
* `ResultsStayWhole`: `[]ThreadResults`. Rendezvous: the invariant ties each semaphore's
  value to how far the two threads are. `par_reduce`: each worker's accumulator is the
  fold of its part of the list so far, the parts' bounds meet (`Bounds`, arithmetic on
  integer division), and folding the parts and then the results is the sequential fold,
  by associativity of the four reducers and induction over the threads (`ReduceFolds`,
  `CombinedRight`); the two recursive functions of the model are shown to exist
  (`FoldExists`). Assumption: the elements are integers. Thread statuses: a slot is
  claimed under the lock and never given back, and who has stored "waits" is who is
  between the store and its restoring. Assumption: the marks for a free and for a fresh
  slot are no threads.

### Parallel make

The second part of `Threads_proofs` proves `BuildIsSafe`: `Spec => []BuildSafe`, for any
number of workers and rules, any acyclic graph, any outcome of the commands and any
modification times (`ParMakeAssumption`; TLC has two workers and three rules). The
invariant: whoever scans holds `rules_lock` and its index lies in the vector
(`Scanning`); a rule is once in the vector and untouched, or in the hands of one worker
and unpublished, or finished (`Owned`); and what has run, or is about to be run or to
count as satisfied, without being a file has only satisfied dependencies (`Justified`).
It holds although `run_status` has released `g_lock` when its answer is used, because a
satisfied rule stays satisfied: a state is written once.

### The second cracker

The third part of `Threads_proofs` proves `ReportsStayRight`: `Spec => []ReportsRight` of
`Cracker2`, for any number of threads, letters, dots and tasks (`CrackerAssumption`). The
summary names the password exactly when it is among the candidates, a failure has hashed
every candidate once, nobody says two things about one task, and `total_hashes` counts no
hash twice, although `found` is read without the lock. The invariant says where main and
the workers are with respect to the two barriers (`CrackShape`), that what a worker has
tried does not hold the password unless it says so (`Searched`), and that `total_hashes`
is the sum of what the workers that have added theirs have done (`SumIs(Added, ...)`: a
sum is a function that adds up from the first worker on, so that a step of one worker
changes it by one lemma, `SumChanges`). `SumTelescopes` gives that the ranges of
`getSubrange`, which meet (`Cut`), have all the candidates; the recursive function
`combinations`, which counts them, is shown to exist.

### The file server

`NonstopServer_proofs` (1264 obligations) proves `FilesStaySound`:
`Spec => []FilesSound`, for any connections, names and lengths, with SIGINT at any moment
and clients that leave at any moment: the directory and `file_size` agree, no half of a
file is served, and an upload that was answered with OK stays as long as nobody else
asks for a change of the file. None of the three parts is inductive alone. A PUT opens
its file before it has read the body, so in between the directory holds a file that
`file_size` does not know; the invariant says that this is so for one connection at most,
the one the event loop is in (its handlers block, `cur`), and what each stage of that
connection has established. And "stays" needs what the other requests can still do:
a connection that is through with its request never comes back to it.

### The chat room

`Chatroom_proofs` (1833 obligations) proves for any finite set of connections and any
number of slots and messages of the server

* `CountIsRight`: `Spec => []CountMatches`. `clientsCount` is the number of used slots
  and a slot is used exactly as long as it has a thread, whatever the order of accept,
  leave and shutdown.
* `BroadcastsDeliver`: `Spec => []Delivery`. All hear the messages in one order, and at
  the end of a broadcast everybody with a slot was sent the message. The invariant says
  that the holder of the mutex is the only one in the middle of a broadcast, and that
  everybody has heard the same messages as everybody else who was there, but for the one
  that is being sent, which exactly those before the position of the loop have heard.

and of the room, in which the server or a client runs (`RoomSpec`), `ServerStaysRight`
(both again) and `ClientStaysRight`: `RoomSpec => []ClientRight`, for any sizes of the
length field and of the text above 0 (`ClientAssumption`). The client's invariant relates
how many units of a message each thread has moved to what has gone through the socket
(`Sending`, `Receiving`), which buffers a thread owns at each of its steps (`Buffers`),
and who has been cancelled when the handler goes on to close the socket (`Closing`,
`Leaving`); it has to say so for a thread that is cancelled in the middle of a message.

### The shell and the programs that run a command

`Processes_proofs` (2083 obligations) proves of `PrSpec`

* `ChildrenStayKept`: `[]ChildrenKept`, for any number of children, lines and SIGINTs
  (`ShellAssumption`), wherever SIGCHLD and SIGINT interrupt the main thread, a search of
  the table or each other. As long as no `vector_erase` has hit an entry other than the one
  that was matched, and the shell lives, a child that lives is in the table unless it was
  sent SIGKILL, no foreground command outlives its turn, and an orderly end leaves no child
  that was not killed. From the first stale erase on nothing is claimed (the model stops
  there, `astray`): section 6 has one that drops a live child. Whoever is looked for, in any
  frame, is dead or was sent a SIGKILL, which a handler in between does not change
  (`Searching`), and only a frame that runs or was interrupted looks for a process
  (`Nested`); so an erase takes a doomed process out of the table and nobody else (`Erased`,
  `Loses`). A foreground child lives only while main is busy with it (`Busy`). And the walk
  of `killAllChildProcesses`, whose bound `n` is read before the loop while handlers shorten
  the table under it: as long as the table has its length, what lies behind the index is
  doomed; once it is shorter, the index never gets to the end, and the shell crashes instead
  of ending (`Walk`).
* `CommandsStayRight`: `[]CommandsRight`, for all words, commands, names, arguments and
  outcomes (`WordsAssumption`, `RunnersAssumption`). A child of the shell: the invariant
  follows it from the split to exec (`ChildInv`), and `ArgumentsEnd` says where the list of
  arguments ends, from the least position of an operator and the `&`. `env`, `time` and
  `mcontest`: the environment is what the arguments read so far mean (`ArgsRead`; the
  recursive function `Meaning`, which starts with what is inherited, is unfolded by
  `MeaningSteps`), and the parent knows of the child what it has waited for, whatever the
  timer does (`ChildSeen`).

### The allocator and the leak checker

`Allocators_proofs` (5015 obligations) proves of `ASpec`

* `HeapStaysSound`: `[]HeapSound`, for a heap of any size, requests of any size and any
  splitting threshold (`MallocAssumption`). `HeapSound` computes the blocks by a walk from
  the start of the heap and the free list by a walk along its links; neither can be kept
  by induction. The invariant `Whole` says instead that there are a set `B` of blocks and a
  list `L` such that the blocks lie behind each other without overlap up to the end of the
  heap, each with its size in the tag behind it (`Tiled`), `L` has the free ones once each
  and the links follow it both ways (`Listed`), and the blocks in use are the client's
  (`Held`). That each block but the first has one that ends where it starts is what makes
  the tag in front of a block that of its neighbour (`PrevIs`). The lemmas are about these
  sets, one for each thing the code does: `MergeTiles`, `SplitTiles`, `ExtendTiles` for the
  blocks, `RemoveList`, `InsertList` for the list; the three ways to merge in `free`
  (`Three`, `Before`, `After`) and the two in `malloc` (`SplitKeeps`, `AllocNew`) are put
  together from them. `BlocksAre` and `FreeListIs` show that the two walks compute `B` and
  `L`. `tail_mem` need only be some block, as it is not the last one (section 6).
* `ReportsAreRight`: `[]ReportRight`, for any pointers, and any number and sizes of calls
  (`MemcheckAssumption`), with the C library allocating through the same hooks. `ReportRight`
  has a part about the running program and one about the finished report; what connects
  them is `Books`: the list and the report share the program's blocks between them, each
  once and with its size, and the sizes in the list add up to what the totals differ by
  less what is reported (`Sums`). One lemma for each thing that happens to a list
  (`BooksTake`, `BooksDrop`, `BooksMove`, `BooksList`). A realloc that fails has changed
  the totals and then crashes, so nothing is claimed from there on, as in the code.

### The MMU

`Mmu_proofs` (2689 obligations) proves for any processes, any number of frames, any
length of the TLB above 1 and any values

* `PagesHold`: `Spec => []PageHolds`. A process reads what it wrote last, whatever was
  evicted and brought back meanwhile, unless a removed process has left a swap file for
  the entry.
* `FramesStayRight`: `Spec => []FramesRight`. Each frame in use is one table or one page of
  one process, `entry_mapping` is the inverse of the page tables, and what the TLB says
  is what the tables say.

Both rest on one invariant, because each access may evict the page of another process
and the proof needs to know that it changes that page's entry and nothing else: tables
are apart from each other and are never evicted, an entry that is present points to a
frame that points back to it, an entry that is not has its page in the swap file or was
never written, and the TLB holds entries of the running process only. A lemma states
what an eviction keeps, and the access is proved from it in stages: table, frame, page
in, TLB, read or write. `MmuAssumption` has tables of three entries and pages 0 to 4, as
the run has; the marks NULL and RESERVED are different from the rest. The size of the
tables enters the model's arithmetic of page numbers and is not general.

### The scheduler

`SavvyScheduler_proofs` (3017 obligations) proves

* `QueueStaysRight`: `SSSpec => []QueueRight`, for any number of jobs that arrive at any
  time, all six schemes, any priorities and running times. The queue holds the live jobs
  once each; the job with the processor has only jobs that never ran in front of it, is the
  head unless an arrival overtook it, and is the head again whenever a preemptive scheme
  lets it run; the wrong job is polled only with PRI and SJF, after such an arrival; and the
  queue is in the comparer's order, except with RR and PSRTF once a job was overtaken.
  The order is kept although keys change in place, because every key that an alarm changes
  is that of the head, which is polled and offered again: `next` before the offer,
  `remaining` after it, where the difference is 0 as the job was marked as resumed a
  moment ago. `OfferPlaces` says where `priqueue_offer` puts a job (its loop stops at the
  right place at the end of the list too, by the least counterexample), `OfferKeepsOrder`
  what that does to an ordered queue, `Answers` what `scheduler_quantum_expired` returns
  for any head. The invariant `QInv` has the types (`QTypes`), that the wrong job was
  polled only after an arrival in front (`QLost`), that nobody is overtaken with FCFS
  (`QFcfs`), because nobody in the queue arrived later than now (`QArrived`), and, until
  the wrong job is polled, the state of the queue (`QQueue`): who is in it, who is in front
  of the running job, and that a job which has not arrived had no turn.
* `ContextsStayRight`: `SSSpec => []ContextsRight`, for any number of alarms, any work of
  the jobs and any choice of the next job, for the test programs of `main.c` and any
  array of more than three jobs. The invariant: whoever may be switched to has a context
  (`GContexts`), but for the job that gtgo is about to give one; only a job with nothing
  left to do asks to be stopped (`GSignals`); a block that was freed belongs to a job that
  the scheduler no longer holds, and its stack is freed by the next gtyield, which runs on
  another one (`GMemory`); a suspended job waits for main, which runs (`GRuns`).

### Only model-checked

All liveness, as the provers at hand do not deal with fairness. Everything about
`ParMakeOrder`, whose operators are recursive (`OrderRight`), and the results of the other
algorithms over text and numbers, which need an induction over the text that the provers
do not have: `ParserRight`, `SearchExhaustive`, `StringsRight`, `FileToolsRight`. Further
`VectorRight`, `ReducedRight`, `BlocksRight`, `ReadBack` and `FdsRight`, whose loops are folds
over a state of several parts; section 8 has the ones that are planned.

## 6. Where the code and its comments disagree

**The finding of run `drm_deadlock`.** `has_cycle` (`deadlock_demolition/libdrm.c:22-48`)
recurses only into vertices that are not in `visited` (line 40), so the test at line
30 never sees a vertex again and no cycle is found from a fresh set. Two threads each
holding what the other wants wait for ever, although `libdrm.h:36-39` says the request
is then refused.

Each of the following definitions states what a comment says, and TLC finds a short
counterexample when it is checked alone on the component's own module, with
constants about as small as in the component's run (`EraseRight` on `Processes` with
`Foci = {"shell"}`). They are not among the listed runs.

| definition | what happens |
|---|---|
| `Barrier!AllRounds`, with one thread | the barrier is opened and never closed, so the second use waits for ever (`barrier.c:36-40`) |
| `Drm!RefusedOnlyOnDeadlock` | the visited set is global and cleared only when drm_wait ends, after it has blocked on the drm; meanwhile another thread's search meets the stale set and a harmless request is refused (`libdrm.c:113-125`) |
| `Drm!PostReportsUnlock` | drm_post returns 1 also when the thread does not own the drm and nothing is unlocked (`libdrm.c:79`); `libdrm.h` says 0 |
| `ParMake!RunsOnlyWhenDepsSatisfied` | `run_status` answers RUN_IMM for a file target as soon as a dependency is newer or not a file (`parmake.c:98-108`), so it runs while the dependency's rule still runs, or after it failed; `parmake.c:63` and `:137` say all dependencies are satisfied |
| `NonstopServer!ListIsDir` | a failed PUT over an existing file removes it (`server.c:723`) but leaves its name in `file_list`; the next PUT adds the name twice, while `server.c:540` says LIST writes the directory's files |
| `NonstopServer!OkOnlyForWholePut`, `!WholePutAccepted`, `!NoBrokenAnswer` | PUTs at the edges of their length, and answers that race with a DELETE, differ from `format.h:12` and `:36` |
| `Cracker1!TasksEnd`, with `AnyPrefix = TRUE` | known letters that are all the last of the alphabet, with no match, make version 1 search for ever |
| `Cracker2!HashesCounted` | a worker that ends its range after another one has set `found` never adds its hashes (`cracker2.c:140`); `libs/format.h:93` speaks of all hashes |
| `ChatServer!NoMessageTwice` | a descriptor is closed before its slot is cleared (`server.c:258`); accept reuses the number, and the new client gets every message twice |
| `ChatServer!SigintEnds` | SIGINT between the test of the flag and accept is lost until the next client comes |
| `SavvyScheduler!DoneIsHead`, with PRI or SJF | `scheduler_job_finished` polls the head of the queue, whoever has finished, because the job "is at the top of the PQ" (`libscheduler.c:265`). A job that main starts while another one is suspended may go in front of it; the suspended job goes on all the same (`:246`), and when it ends the arrival is polled in its stead and never runs |
| `SavvyScheduler!ResponseTimeRight`, `!RemainingRight` | under preemption the start time goes to the wrong job, and remaining time is never taken down (`libscheduler.c:201`, `:215`, `:241`) |
| `Mmu!NoForeignPage` | swap files outlive their process (`remove_swap_file` leaves out the ".bin" of the file's name) and are keyed by an address that another process's table gets, which then reads the old page (`kernel.c:27`) |
| `Malloc!TailIsLast` | `tail_mem` is not moved by `alloc_new`, so it is not the last block as `alloc.c:33` says; blocks behind it are never merged forward |
| `MiniMemcheck!ReallocSurvives` | when realloc fails, `mini_realloc` dereferences NULL; `mini_memcheck.h:150` says it returns NULL |
| `Shell!EraseRight`, with three children | `shell.c:139` says that `remove_process` removes the process with the given pid. It finds the index (line 146) and erases by it (line 150), with SIGCHLD unblocked in between. `kill 2` finds the second entry, the first child dies, the handler erases the first entry, and `vector_erase` takes out the third child, which lives and is then known to nobody; the entry that stays was freed. `delete_process` (lines 206 and 215) has the same gap |
| `Minixfs!WriteCopies` | the second and later blocks of a write start again at the beginning of the buffer (`minixfs.c:292`; `minixfs.h:213`) |
| `Minixfs!LinksMatchEntries` | a directory entry is written at the start of a block that already holds one, which hides the earlier file (`minixfs.h:103`) |
| `Minixfs!BlocksExclusive` without `~overrun` | a directory that has shrunk has no free slot, `add_data_block_to_inode` answers 0, and the next entry goes over block 0, whoever owns it (`minixfs_provided.c:35`, `minixfs.c:189`); when block 0 is a table, a file's block number is made of a name |
| `Minixfs!BlocksFreed` | unlink of a file with an indirect block frees only as many of its entries as there are direct ones (`minixfs.h:319`) |

Further behaviour the models contain, and the properties state around (each property's
comment says how):

* *thread_status*: once the array has grown, a thread may store through an address
  loaded before (`thread_status.c:260-272`), and a slot is counted before it is filled,
  so the report of a signal may read it too early (`:135`, `:213`).
* *parser*: tabs stay part of a dependency's name, and of `a b: c` only `a` is a target.
* *file server*: SIGINT before the tables exist crashes the handler (`server.c:614`,
  `:624`) and leaves the directory behind, as the exits of `setup_epoll` and accept do.
* *chat client*: SIGINT before both threads exist cancels a thread that is not there
  (`client.c:192`); the writer's buffer is leaked when a write fails (`:151`).
* *gthreads*: an alarm inside gtgo, after the job is in the queue, may switch to a
  context that is not set up (`gthreads.c:274-285`).
* *vector*: insert at position 0 runs its index below zero (`vector.c:303`).
* *sstring*: the split of an empty string has no parts (`sstring.c:52`), where python3's
  split, which `sstring.h:62-65` promises, gives one empty part.
* *camelCaser*: a sentence that is one letter, alone or after blanks, keeps its case
  (`camelCaser.c:94` takes the branch that only notes the first word).
* *shell*: when the SIGCHLD handler reaps the foreground child, its waitpid fails and the
  shell exits or aborts (`shell.c:434`); when setpgid fails because the child has already
  called exec, it exits and leaves the child (`:402-428`); a file name takes in all words up
  to the end of the line, `f &` included, or up to the other operator when both `>` and `>>`
  occur, and a file that cannot be opened is used all the same.
* *mapreduce*: a line with more output than stdio's buffer is written in pieces, between
  which another mapper's may come. A line that has lost its ": " is reported and skipped
  (`reducer.c:33-36`), others are counted under a torn key: records are lost.
  `ReducedRight` promises exact counts when the records of a line fit one write or one
  mapper has all the input, and no leak in any case.
* *mcontest*: the timer may test the flag, main reap the child and clear it, and the
  timer then signal a pid that is free (`mcontest.c:140`). A command that ignores SIGTERM
  keeps it waiting for ever (`:145`).
* *dd*: the report counts what was read, also when the device had no room for it
  (`dd.c:126`).
* *lookup1*: when a node's word is longer than the target, the terminating zero is
  written one byte behind the buffer (`lookup1.c:22`).
* *minixfs*: behind the direct blocks unlink searches the table of the file instead of the
  directory's (`minixfs_provided.c:228-230`), so the entry stays and may come to name a
  free inode, where the model stops; a lookup reads no more than the first
  `NUM_DIRECT_BLOCKS` entries of the table (`minixfs_utils.c:215`).
* *fakefs*: dup and dup2 share an open file without counting it (`dup.c:13`, `:24`), so
  the first close frees it; dup2 of a real descriptor over a virtual one leaves `fd_map`
  alone (`dup.c:8`); close does not close the stand-in on /dev/null (`core.c:116`), so
  descriptors run out, and the one that then fails is entered as -1 (`core.c:70-79`);
  fs_fini leaves directories open (`init.c:16`); chmod with more than the nine
  permission bits changes the type (`minixfs.c:96`); cp does not truncate its target.

## 7. Not modelled

`perilous_pointers` (exercises about pointers, without state), the printing functions
(`format.c`, `output` of shell and others), `shell_main.c` and other mains that only
pass arguments on, the provided callbacks, `mapreduce/pi` (digits of pi, arithmetic on
big numbers), the testers, and headers that only declare. The provided `dictionary`,
`set`, `graph` and `queue` are archives; models of their users take them as functions
and sets.

Inside modelled components: the fields that ps prints, pid reuse. In the shell a step
ends with one access to the table: the test of an index, the `vector_get` and the
comparison are one step, the frees belong to the match, and a handler that runs inside one
`vector_*` or `malloc` call is left out. Commands that start or end with a redirection
operator are left out too (`solve_redirection` then reads behind the string,
`shell.c:240-241`). In the allocator, `get_prev_mem` reads the word below `start_mem` before
it tests for the first block (`alloc.c:110-113`), which the model does not show, and the
sums of sizes (`alloc.c:188`, `:263`) are unbounded where `size_t` would wrap around. In the
chat server a message arrives whole (in the code a frame that a leaving client cuts short,
`utils.c:62`, is broadcast as far as it came, or its length is partly undefined), and
`pthread_create` succeeds. The MMU handles a page's payload as a C string (`mmu.c:147`),
the model as one value. Further:
times in minixfs; segments that grow in the MMU, and its statistics; turnaround and wait
sums of the scheduler; names with a slash and request lines cut in the middle of the
file server; the data race of `drm_destroy`; the capacity of sockets, hence the chat
server blocking on a client that does not read; ncurses; how `mini_hacks` looks up
symbols and lines; the memory statistics of mcontest; `/proc` in the crackers' monitor.

## 8. Plan

Done, in this order: queue with refinement and proofs; barrier, semamore, libdrm;
parmake; the file server; the crackers; the chat server; the scheduler; MMU;
allocators; shell; minixfs; then rendezvous, par_reduce and thread_status; the parser;
the chat client; green threads; vector, sstring, camelCaser and the hooks; the shell's
children, mapreduce and the runners; fakefs, dd and lookup.

Next, model: segments that grow and shrink in `Mmu`; the file server's request lines cut
in the middle; sockets that fill up in `ChatServer`.

Proved so far: queue, synchronisation libraries, parmake's workers, the second cracker,
file server, chat room, shell and runners, MMU, allocator and leak checker, scheduler and
green threads.

Next, prove: `VectorRight` of `Vector`; `BlocksRight` of `Minixfs`.
