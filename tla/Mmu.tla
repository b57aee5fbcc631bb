-------------------------------- MODULE Mmu --------------------------------
(***************************************************************************)
(* ideal_indirection: mmu.c with its TLB (tlb.c), the kernel's frames and  *)
(* swap files (kernel.c) and the segments (segments.c).  An address is a   *)
(* page number, the address of a page table entry the frame of its table   *)
(* and its index.  A frame holds a table or one value; the values written  *)
(* are C strings that, read as a table, have no present bit.  The flags    *)
(* that nothing reads and the statistics are left out.                     *)
(***************************************************************************)
EXTENDS Integers, Sequences, FiniteSets, SequencesExt, FiniteSetsExt

CONSTANTS
    Pids,               \* process ids, 0 among them
    NUM_PHYSICAL_PAGES,
    NUM_ENTRIES,        \* of a page directory or page table, 1024 in the code
    MAX_NODES,          \* of the TLB, 16 in the code
    Pages,              \* the pages that processes access
    Values,             \* what processes write
    MaxAdds,            \* bound on the calls of mmu_add_process
    NULL, RESERVED

Frames == 0 .. NUM_PHYSICAL_PAGES - 1
Index == 0 .. NUM_ENTRIES - 1
PteAddrs == Frames \X Index
Contents == [table : [Index -> [present : BOOLEAN, base : Frames]],
             value : Values \union {0}]

ASSUME MmuAssumption ==
    /\ 0 \in Pids
    /\ NUM_ENTRIES = 3 /\ MAX_NODES \in Nat \ {0, 1}
    /\ NUM_PHYSICAL_PAGES \in Nat
    /\ Pages \subseteq 0 .. 4 /\ 0 \notin Values /\ MaxAdds \in Nat
    /\ NULL \notin Frames \union PteAddrs \union Contents
    /\ RESERVED \notin PteAddrs \union {NULL}

\* Three of the segments of mmu_add_process, the last two in the second table, as
\* pages; an access is never at the first byte of a page, so that the end of a
\* segment, which find_segment counts as part of it, makes no difference.
Segments == {[name |-> "TESTING", pages |-> {1, 2}, write |-> TRUE],
             [name |-> "DATA", pages |-> {3}, write |-> TRUE],
             [name |-> "TEXT", pages |-> {4}, write |-> FALSE]}

VARIABLES
    physical_memory,    \* the contents of each frame
    entry_mapping,      \* NULL, RESERVED or the entry that points to the frame
    swap_files,         \* for each pte address the page in its file, or NULL
    page_directories,   \* the frame of each process's directory, or NULL
    tlb, curr_pid,
    adds,               \* calls of mmu_add_process so far
    written,            \* what each live process wrote last to each page, 0: nothing
    stale               \* addresses whose swap file a removed process left behind

kernel == [mem |-> physical_memory, map |-> entry_mapping, swap |-> swap_files]
vars == <<physical_memory, entry_mapping, swap_files, page_directories, tlb, curr_pid,
          adds, written, stale>>

NoEntry == [present |-> FALSE, base |-> 0]
ZeroFrame == [table |-> [i \in Index |-> NoEntry], value |-> 0]

\* tlb_create: a node for page 0 without an entry.
Dummy == [page |-> 0, entry |-> NULL]

Init ==
    /\ physical_memory = [f \in Frames |-> ZeroFrame]
    /\ entry_mapping = [f \in Frames |-> NULL]
    /\ swap_files = [a \in PteAddrs |-> NULL]
    /\ page_directories = [p \in Pids |-> NULL]
    /\ tlb = <<Dummy>> /\ curr_pid = 0
    /\ written = [p \in Pids |-> [v \in Pages |-> 0]]
    /\ stale = {} /\ adds = 0

-----------------------------------------------------------------------------
(* kernel.c, on a record k of memory, mapping and swap files.               *)

FreeFrames(k) == {f \in Frames : k.map[f] = NULL}

Entry(k, a) == k.mem[a[1]].table[a[2]]

SetEntry(k, a, e) == [k EXCEPT !.mem[a[1]].table[a[2]] = e]

write_page_to_disk(k, a) == [k EXCEPT !.swap[a] = k.mem[Entry(k, a).base]]

\* Mutant: the file is not looked for.
ReadNothing(k, a) == k

read_page_from_disk(k, a) ==
    IF k.swap[a] = NULL THEN k ELSE [k EXCEPT !.mem[Entry(k, a).base] = k.swap[a]]

\* The first frame that holds a page, other than the one asked for, goes to disk.
Evict(k, entry) ==
    LET f == Min({i \in Frames : k.map[i] \notin {RESERVED, entry}})
        out == write_page_to_disk(k, k.map[f])
    IN [SetEntry(out, k.map[f], NoEntry) EXCEPT !.map[f] = NULL]

\* After n more tables there is still a frame for a page.  Without one
\* ask_kernel_for_frame returns address 0, which lies outside physical_memory.
Room(n) ==
    Cardinality({f \in Frames : entry_mapping[f] = RESERVED}) + n < NUM_PHYSICAL_PAGES

\* The first free frame, cleared; if there is none, after an eviction.
ask_kernel_for_frame(k0, entry) ==
    LET k == IF FreeFrames(k0) = {} THEN Evict(k0, entry) ELSE k0
        f == Min(FreeFrames(k))
    IN [k |-> [k EXCEPT !.mem[f] = ZeroFrame,
                        !.map[f] = IF entry = NULL THEN RESERVED ELSE entry],
        frame |-> f]

\* A frame for the entry at a, and what its swap file says.
Fault(k, a, entry) ==
    LET r == ask_kernel_for_frame(k, entry)
    IN read_page_from_disk(SetEntry(r.k, a, [present |-> TRUE, base |-> r.frame]), a)

\* The same without the file: mmu_add_process.
Map(k, a, entry) ==
    LET r == ask_kernel_for_frame(k, entry)
    IN SetEntry(r.k, a, [present |-> TRUE, base |-> r.frame])

SetKernel(k) ==
    /\ physical_memory' = k.mem /\ entry_mapping' = k.map /\ swap_files' = k.swap

-----------------------------------------------------------------------------
(* tlb.c: the list from its head.                                           *)

At(t, page) == {i \in DOMAIN t : t[i].page = page}

\* tlb_get_pte: the entry, and the list with the node found in front.
tlb_get_pte(t, page) ==
    IF At(t, page) = {} THEN [entry |-> NULL, list |-> t]
    ELSE LET i == Min(At(t, page))
         IN [entry |-> t[i].entry, list |-> <<t[i]>> \o RemoveAt(t, i)]

\* tlb_add_pte: in front, after the last one has left a full list.
tlb_add_pte(t, page, entry) ==
    <<[page |-> page, entry |-> entry]>>
        \o IF Len(t) > 1 /\ Len(t) >= MAX_NODES THEN Front(t) ELSE t

-----------------------------------------------------------------------------
(* mmu.c                                                                    *)

find_segment(page) == {s \in Segments : page \in s.pages}

Allowed(page, write) == \E s \in find_segment(page) : write => s.write

TlbOf(pid) == IF pid # curr_pid THEN <<Dummy>> ELSE tlb

Pde(pid, page) == <<page_directories[pid], page \div NUM_ENTRIES>>

\* The page table's entry for a page, once the directory's entry is present.
Pte(k, pid, page) == <<Entry(k, Pde(pid, page)).base, page % NUM_ENTRIES>>

\* mmu_rw_from_virtual_address outside the segments.
SegmentationFault(pid) ==
    /\ tlb' = TlbOf(pid) /\ curr_pid' = pid
    /\ UNCHANGED <<physical_memory, entry_mapping, swap_files, page_directories,
                   adds, written, stale>>

\* The kernel with the directory's entry and then the page's entry present.
WithTable(pid, page, hit) ==
    IF hit # NULL \/ Entry(kernel, Pde(pid, page)).present THEN kernel
    ELSE Fault(kernel, Pde(pid, page), NULL)

Resident(k, pte) == IF Entry(k, pte).present THEN k ELSE Fault(k, pte, pte)

\* A read or, with a value that is not 0, a write.
Access(pid, page, value) ==
    LET got == tlb_get_pte(TlbOf(pid), page)
        k1 == WithTable(pid, page, got.entry)
        pte == IF got.entry # NULL THEN got.entry ELSE Pte(k1, pid, page)
        k2 == Resident(k1, pte)
        frame == Entry(k2, pte).base
    IN /\ SetKernel(IF value = 0 THEN k2 ELSE [k2 EXCEPT !.mem[frame].value = value])
       /\ tlb' = tlb_add_pte(got.list, page, pte)
       /\ curr_pid' = pid
       /\ written' = IF value = 0 THEN written
                     ELSE [written EXCEPT ![pid][page] = value]
       /\ UNCHANGED <<page_directories, adds, stale>>

mmu_rw_from_virtual_address(pid, page, value) ==
    /\ page_directories[pid] # NULL
    /\ IF Allowed(page, value # 0)
       THEN (Entry(kernel, Pde(pid, page)).present \/ Room(1)) /\ Access(pid, page, value)
       ELSE SegmentationFault(pid)

\* The directory, the first table, and the pages 1 and 2.
mmu_add_process(pid) ==
    /\ page_directories[pid] = NULL /\ adds < MaxAdds /\ Room(2)
    /\ adds' = adds + 1
    /\ LET dir == ask_kernel_for_frame(kernel, NULL)
           k1 == Map(dir.k, <<dir.frame, 0>>, NULL)
           Pt(i) == <<Entry(k1, <<dir.frame, 0>>).base, i>>
           k2 == Map(k1, Pt(1), Pt(1))
       IN /\ SetKernel(Map(k2, Pt(2), Pt(2)))
          /\ page_directories' = [page_directories EXCEPT ![pid] = dir.frame]
    /\ UNCHANGED <<tlb, curr_pid, written, stale>>

TablesOf(pid) ==
    {Entry(kernel, <<page_directories[pid], i>>).base :
        i \in {j \in Index : Entry(kernel, <<page_directories[pid], j>>).present}}

FramesOf(pid) ==
    {page_directories[pid]} \union TablesOf(pid)
        \union {Entry(kernel, a).base :
                    a \in {b \in TablesOf(pid) \X Index : Entry(kernel, b).present}}

return_frame_to_kernel(frames) ==
    [f \in Frames |-> IF f \in frames THEN NULL ELSE entry_mapping[f]]

\* The addresses of the entries of pid whose files outlive it: remove_swap_file names files
\* that do not exist, without the ".bin".
remove_swap_file(pid) == {a \in TablesOf(pid) \X Index : swap_files[a] # NULL}

\* Mutant: the frames of the pages are not given back.
RemoveTablesOnly(pid) ==
    /\ page_directories[pid] # NULL
    /\ entry_mapping' = return_frame_to_kernel({page_directories[pid]} \union TablesOf(pid))
    /\ page_directories' = [page_directories EXCEPT ![pid] = NULL]
    /\ stale' = stale \union remove_swap_file(pid)
    /\ written' = [written EXCEPT ![pid] = [v \in Pages |-> 0]]
    /\ tlb' = IF curr_pid = pid THEN <<Dummy>> ELSE tlb
    /\ UNCHANGED <<physical_memory, swap_files, curr_pid, adds>>

\* Every frame goes back, the swap files of the process stay.
mmu_remove_process(pid) ==
    /\ page_directories[pid] # NULL
    /\ entry_mapping' = return_frame_to_kernel(FramesOf(pid))
    /\ page_directories' = [page_directories EXCEPT ![pid] = NULL]
    /\ stale' = stale \union remove_swap_file(pid)
    /\ written' = [written EXCEPT ![pid] = [v \in Pages |-> 0]]
    /\ tlb' = IF curr_pid = pid THEN <<Dummy>> ELSE tlb
    /\ UNCHANGED <<physical_memory, swap_files, curr_pid, adds>>

remove_swap_files == [a \in PteAddrs |-> NULL]

\* Every process is removed and every file of the swap directory deleted; the memory and
\* its mapping are global, and the next mmu_create finds them as they are.
mmu_delete ==
    /\ entry_mapping' = return_frame_to_kernel(
            UNION {FramesOf(pid) : pid \in {p \in Pids : page_directories[p] # NULL}})
    /\ page_directories' = [p \in Pids |-> NULL]
    /\ swap_files' = remove_swap_files
    /\ stale' = {}
    /\ written' = [p \in Pids |-> [v \in Pages |-> 0]]
    /\ tlb' = <<Dummy>> /\ curr_pid' = 0
    /\ UNCHANGED <<physical_memory, adds>>

Next ==
    \/ mmu_delete
    \/ \E pid \in Pids :
          \/ mmu_add_process(pid)
          \/ mmu_remove_process(pid)
          \/ \E page \in Pages, value \in Values \union {0} :
                mmu_rw_from_virtual_address(pid, page, value)

Spec == Init /\ [][Next]_vars

-----------------------------------------------------------------------------
TypeOK ==
    /\ physical_memory \in [Frames -> Contents]
    /\ entry_mapping \in [Frames -> {NULL, RESERVED} \union PteAddrs]
    /\ swap_files \in [PteAddrs -> Contents \union {NULL}]
    /\ page_directories \in [Pids -> Frames \union {NULL}]
    /\ Len(tlb) \in 1 .. MAX_NODES /\ curr_pid \in Pids

Live(pid) == page_directories[pid] # NULL
HasTable(pid, page) == Entry(kernel, Pde(pid, page)).present

\* What the process would read there now, in memory or brought in from its file.
Reads(pid, page) ==
    IF ~HasTable(pid, page) THEN 0
    ELSE LET pte == Pte(kernel, pid, page) IN
         IF Entry(kernel, pte).present THEN physical_memory[Entry(kernel, pte).base].value
         ELSE IF swap_files[pte] # NULL THEN swap_files[pte].value ELSE 0

\* mmu.c:54-122 with kernel.c:22-53: whatever was evicted and brought back meanwhile,
\* a process reads from a page what it wrote there last, and 0 from a page it never
\* wrote to, as long as no removed process has left a file for the page's entry.
PageHolds ==
    \A pid \in Pids : Live(pid) =>
        \A page \in Pages :
            HasTable(pid, page) /\ Pte(kernel, pid, page) \notin stale
                => Reads(pid, page) = written[pid][page]

\* kernel.c:20: entry_mapping is the inverse of the page tables.  Each frame in use
\* is a table of one process or a page of one process, and what the eviction is going
\* to take from a process is the page that its entry points to.
FramesExclusive ==
    LET tables == UNION {{page_directories[p]} \union TablesOf(p) :
                            p \in {q \in Pids : Live(q)}}
        ptes == UNION {TablesOf(p) \X Index : p \in {q \in Pids : Live(q)}}
    IN /\ \A f \in Frames : (entry_mapping[f] = RESERVED) = (f \in tables)
       /\ \A f \in Frames, a \in PteAddrs :
            (entry_mapping[f] = a)
                = (a \in ptes /\ Entry(kernel, a) = [present |-> TRUE, base |-> f])

\* mmu.c:25 and 268: the TLB only holds pages of the current process, each with the
\* entry that a walk through its tables would find, although frames are evicted,
\* given back and used again.
TlbCurrent ==
    \A i \in DOMAIN tlb : tlb[i].entry # NULL =>
        /\ Live(curr_pid) /\ HasTable(curr_pid, tlb[i].page)
        /\ tlb[i].entry = Pte(kernel, curr_pid, tlb[i].page)

\* mmu.c:25 and 268, kernel.c:20: frames, tables and TLB agree on who owns what.
FramesRight == FramesExclusive /\ TlbCurrent

\* kernel.c:27: "an os does not want processes reading other processes' pages".
\* A process reads nothing from a page that it has not written.
NoForeignPage ==
    \A pid \in Pids : Live(pid) =>
        \A page \in Pages : Reads(pid, page) = written[pid][page]
=============================================================================
