---------------------------- MODULE MiniMemcheck ----------------------------
(***************************************************************************)
(* mini_memcheck.c: a list of the blocks a program holds, with totals of   *)
(* what it asked for and gave back.  A block is known by its payload       *)
(* pointer.  The C library gives out any pointer that is not in use, may   *)
(* move a block it resizes, and may fail.  Then mini_hacks.c: the checker  *)
(* from the loading of the library to its report.                          *)
(***************************************************************************)
EXTENDS Integers, Sequences, FiniteSets

CONSTANTS
    Ptrs,       \* pointers of the C library
    MaxSize,    \* bound on a request
    MaxCalls    \* bound on the calls

ASSUME MemcheckAssumption == MaxSize \in Nat \ {0} /\ MaxCalls \in Nat

VARIABLES
    head,       \* the list: [ptr, request_size] from the head
    total_memory_requested, total_memory_freed, invalid_addresses,
    owned,      \* what the program has been given: the size by pointer
    crashed,    \* a NULL pointer was dereferenced
    calls

vars == <<head, total_memory_requested, total_memory_freed, invalid_addresses, owned,
          crashed, calls>>

Init ==
    /\ head = <<>>
    /\ total_memory_requested = 0 /\ total_memory_freed = 0 /\ invalid_addresses = 0
    /\ owned = [p \in {} |-> 0]
    /\ crashed = FALSE /\ calls = 0

Unused == Ptrs \ {head[i].ptr : i \in DOMAIN head}

\* valid_ptr: where the pointer is in the list.
valid_ptr(p) == {i \in DOMAIN head : head[i].ptr = p}

Give(p, size) == [q \in DOMAIN owned \union {p} |-> IF q = p THEN size ELSE owned[q]]

\* A call that ends without a crash.
Call == ~crashed /\ calls < MaxCalls /\ calls' = calls + 1

\* mini_malloc and mini_calloc; nothing changes when the library has no memory.
mini_malloc(size) ==
    /\ Call
    /\ \E p \in Unused :
        /\ head' = <<[ptr |-> p, request_size |-> size]>> \o head
        /\ owned' = Give(p, size)
    /\ total_memory_requested' = total_memory_requested + size
    /\ UNCHANGED <<total_memory_freed, invalid_addresses, crashed>>

\* realloc and mini_free of a pointer that is not in the list.
Invalid(p) ==
    /\ Call /\ valid_ptr(p) = {}
    /\ invalid_addresses' = invalid_addresses + 1
    /\ UNCHANGED <<head, total_memory_requested, total_memory_freed, owned, crashed>>

\* The node is unlinked from the list.
WithoutNode(i) ==
    [j \in 1 .. Len(head) - 1 |-> IF j < i THEN head[j] ELSE head[j + 1]]

TakeBack(p) == [q \in DOMAIN owned \ {p} |-> owned[q]]

mini_free(p) ==
    /\ Call
    /\ \E i \in valid_ptr(p) :
        /\ head' = WithoutNode(i)
        /\ total_memory_freed' = total_memory_freed + head[i].request_size
    /\ owned' = TakeBack(p)
    /\ UNCHANGED <<total_memory_requested, invalid_addresses, crashed>>

\* The totals are brought up to date before the library is asked.
Resized(i, size) ==
    LET prev_size == head[i].request_size IN
    IF prev_size < size
    THEN /\ total_memory_requested' = total_memory_requested + (size - prev_size)
         /\ UNCHANGED total_memory_freed
    ELSE /\ total_memory_freed' = total_memory_freed + (prev_size - size)
         /\ UNCHANGED total_memory_requested

mini_realloc(p, size) ==
    /\ Call
    /\ \E i \in valid_ptr(p), q \in Unused \union {p} :
        /\ Resized(i, size)
        /\ head' = [head EXCEPT ![i] = [ptr |-> q, request_size |-> size]]
        /\ owned' = [r \in (DOMAIN owned \ {p}) \union {q} |->
                        IF r = q THEN size ELSE owned[r]]
    /\ UNCHANGED <<invalid_addresses, crashed>>

\* realloc returns NULL, which is dereferenced at once.
ReallocFails(p, size) ==
    /\ Call
    /\ \E i \in valid_ptr(p) : Resized(i, size)
    /\ crashed' = TRUE
    /\ UNCHANGED <<head, invalid_addresses, owned>>

Next ==
    \/ \E size \in 1 .. MaxSize : mini_malloc(size)
    \/ \E p \in Ptrs :
        \/ Invalid(p) \/ mini_free(p)
        \/ \E size \in 1 .. MaxSize : mini_realloc(p, size) \/ ReallocFails(p, size)

Spec == Init /\ [][Next]_vars

-----------------------------------------------------------------------------
\* The sizes in the list, added up from its head.
AddedUp[i \in 0 .. Len(head)] ==
    IF i = 0 THEN 0 ELSE AddedUp[i - 1] + head[i].request_size

\* mini_memcheck.c:110-191: whatever was resized, moved or freed twice, the list has the
\* blocks that the program still holds, each once and with its size, and what the totals
\* differ by is the sum of these: the leak that is reported at the end is the leak there is.
LeakReported ==
    ~crashed =>
        /\ {<<head[i].ptr, head[i].request_size>> : i \in DOMAIN head}
                = {<<p, owned[p]>> : p \in DOMAIN owned}
        /\ Len(head) = Cardinality(DOMAIN owned)
        /\ total_memory_requested - total_memory_freed = AddedUp[Len(head)]

\* mini_memcheck.h:150: "If the function fails to allocate the requested block of
\* memory, return a NULL pointer."
ReallocSurvives == ~crashed

-----------------------------------------------------------------------------
(* mini_hacks.c.  The C library allocates too, through the same hooks: libcs *)
(* are the blocks it holds, which it frees itself when finalize asks it to,  *)
(* together with memory that the checker has never seen.                     *)

CONSTANTS
    MaxForeign,     \* blocks that the C library frees and the checker does not know
    MaxOpen         \* descriptors that the process may have open in the report

VARIABLES
    stage,          \* "greet", "loading", "run", "freeres", "report" or "done"
    hooks_active,
    real_loaded,    \* real_malloc and the others are set
    libcs,          \* the C library's own blocks
    invalid_addresses_temp,
    foreign,        \* blocks of MaxForeign that are freed
    fds,            \* descriptors that resolve_addr2line has left open
    total_leak,
    reported        \* what the report lists: the pointer, its size, resolved or not

hackvars == <<stage, hooks_active, real_loaded, libcs, invalid_addresses_temp, foreign, fds,
              total_leak, reported>>

HInit ==
    /\ Init
    /\ stage = "greet" /\ hooks_active = TRUE /\ real_loaded = FALSE
    /\ libcs = {} /\ invalid_addresses_temp = 0 /\ foreign = 0 /\ fds = 0
    /\ total_leak = 0 /\ reported = <<>>

\* print_greeting, by printmsg: what it allocates goes to the real malloc, which is loaded
\* first.
print_greeting ==
    /\ stage = "greet"
    /\ hooks_active' = FALSE
    /\ stage' = "loading"
    /\ UNCHANGED <<vars, real_loaded, libcs, invalid_addresses_temp, foreign, fds, total_leak,
                   reported>>

\* load_real_malloc: calls that dlsym makes are refused by the guard and get NULL.  printmsg
\* restores the hooks.
load_real_malloc ==
    /\ stage = "loading" /\ ~hooks_active
    /\ real_loaded' = TRUE
    /\ hooks_active' = TRUE
    /\ stage' = "run"
    /\ UNCHANGED <<vars, libcs, invalid_addresses_temp, foreign, fds, total_leak, reported>>

\* The hooks malloc, calloc, realloc and free: what they call is not hooked.
program_calls ==
    /\ stage = "run" /\ hooks_active
    /\ Next
    /\ libcs' = libcs \cap DOMAIN owned'
    /\ UNCHANGED <<stage, hooks_active, real_loaded, invalid_addresses_temp, foreign, fds,
                   total_leak, reported>>

\* The C library allocates for itself (printf's buffer): the hooks cannot tell.
libc_allocates ==
    /\ stage = "run" /\ hooks_active
    /\ mini_malloc(1)
    /\ libcs' = libcs \cup (DOMAIN owned' \ DOMAIN owned)
    /\ UNCHANGED <<stage, hooks_active, real_loaded, invalid_addresses_temp, foreign, fds,
                   total_leak, reported>>

\* print_leak_info begins with finalize, which keeps the count of bad calls.
finalize ==
    /\ stage = "run" /\ ~crashed
    /\ stage' = "freeres"
    /\ invalid_addresses_temp' = invalid_addresses
    /\ UNCHANGED <<vars, hooks_active, real_loaded, libcs, foreign, fds, total_leak, reported>>

\* __libc_freeres, one block at a time: one from the list, or one that the hooks take for
\* a bad call.
libc_freeres ==
    /\ stage = "freeres" /\ hooks_active
    /\ \/ \E p \in libcs : \E i \in valid_ptr(p) :
            /\ head' = WithoutNode(i)
            /\ total_memory_freed' = total_memory_freed + head[i].request_size
            /\ owned' = TakeBack(p)
            /\ libcs' = libcs \ {p}
            /\ UNCHANGED <<invalid_addresses, foreign>>
       \/ /\ foreign < MaxForeign
          /\ foreign' = foreign + 1
          /\ invalid_addresses' = invalid_addresses + 1
          /\ UNCHANGED <<head, total_memory_freed, owned, libcs>>
    /\ UNCHANGED <<total_memory_requested, crashed, calls, stage, hooks_active, real_loaded,
                   invalid_addresses_temp, fds, total_leak, reported>>

\* Mutant: the count is not put back.
hooks_off_keeps ==
    /\ stage = "freeres" /\ libcs = {}
    /\ hooks_active' = FALSE
    /\ stage' = "report"
    /\ UNCHANGED <<vars, real_loaded, libcs, invalid_addresses_temp, foreign, fds, total_leak,
                   reported>>

\* The rest of finalize: the count is put back, and the hooks are switched off.
hooks_off ==
    /\ stage = "freeres" /\ libcs = {}
    /\ invalid_addresses' = invalid_addresses_temp
    /\ hooks_active' = FALSE
    /\ stage' = "report"
    /\ UNCHANGED <<head, total_memory_requested, total_memory_freed, owned, crashed, calls,
                   real_loaded, libcs, invalid_addresses_temp, foreign, fds, total_leak,
                   reported>>

\* resolve_addr2line: no pipe, no process (both ends stay open), a tool that fails (one end
\* stays open), or an answer.
resolve(name) ==
    \/ fds + 2 > MaxOpen /\ name = "??" /\ fds' = fds
    \/ fds + 2 <= MaxOpen /\ name = "??" /\ fds' \in {fds + 1, fds + 2}
    \/ fds + 2 <= MaxOpen /\ name = "known" /\ fds' = fds

\* print_leak_info, one turn of its loop: the node is listed, and freed by the real free.
report_leak ==
    /\ stage = "report" /\ head # <<>>
    /\ total_leak' = total_leak + Head(head).request_size
    /\ \E name \in {"??", "known"} :
        /\ resolve(name)
        /\ reported' = Append(reported, <<Head(head).ptr, Head(head).request_size, name>>)
    /\ head' = Tail(head)
    /\ UNCHANGED <<total_memory_requested, total_memory_freed, invalid_addresses, owned, crashed,
                   calls, stage, hooks_active, real_loaded, libcs, invalid_addresses_temp, foreign>>

print_summary ==
    /\ stage = "report" /\ head = <<>>
    /\ stage' = "done"
    /\ UNCHANGED <<vars, hooks_active, real_loaded, libcs, invalid_addresses_temp, foreign, fds,
                   total_leak, reported>>

HNext ==
    \/ print_greeting \/ load_real_malloc \/ program_calls \/ libc_allocates
    \/ finalize \/ libc_freeres \/ hooks_off \/ report_leak \/ print_summary

-----------------------------------------------------------------------------
\* mini_hacks.c:316-391: the report lists what the program holds at its end, every block
\* once and none of the C library's, whatever becomes of addr2line; its total is what the
\* totals differ by, so that the last assert holds; and the count of bad calls is the
\* program's.
ReportRight ==
    /\ stage \in {"greet", "loading", "run"} => LeakReported
    /\ stage \in {"report", "done"} => invalid_addresses = invalid_addresses_temp
    /\ stage = "done" =>
        /\ {<<reported[i][1], reported[i][2]>> : i \in DOMAIN reported}
                = {<<p, owned[p]>> : p \in DOMAIN owned}
        /\ Len(reported) = Cardinality(DOMAIN owned)
        /\ total_leak = total_memory_requested - total_memory_freed
=============================================================================
