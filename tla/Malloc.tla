------------------------------- MODULE Malloc -------------------------------
(***************************************************************************)
(* malloc/alloc.c: a heap of adjacent blocks, each a header (node_t), the  *)
(* payload and a boundary tag (btag_t), and a doubly linked free list.     *)
(* A header and a tag take one unit of memory each, start_mem is 0, sbrk   *)
(* fails when the heap has HeapSize units.  Clients overwrite the whole    *)
(* payload they are given, so whatever the allocator wrote there is Junk.  *)
(* calloc is malloc of a product, and what is written to memory apart from *)
(* headers and tags is left out.  Requests are so small that no sum or     *)
(* product of sizes wraps around.                                          *)
(***************************************************************************)
EXTENDS Integers, FiniteSets, SequencesExt, FiniteSetsExt

CONSTANTS
    HeapSize,       \* units sbrk can give
    MaxRequest,     \* bound on the size of a request
    SPLIT_TRESHOLD

MallocAssumption ==
    HeapSize \in Nat /\ MaxRequest \in Nat \ {0} /\ SPLIT_TRESHOLD \in Nat

None == -1
Junk == -2
Addr == 0 .. HeapSize - 1
meta_btag_size == 2
JunkHeader == [size |-> Junk, is_free |-> FALSE, prev |-> None, next |-> None]

VARIABLES
    heap,   \* headers and tags by address, head_free, tail_mem, the program break
    live    \* what the client holds: the size it asked for by pointer

vars == <<heap, live>>

Init ==
    /\ heap = [node |-> [a \in Addr |-> JunkHeader], btag |-> [a \in Addr |-> Junk],
               head |-> None, tail |-> None, brk |-> 0]
    /\ live = [p \in {} |-> 0]

-----------------------------------------------------------------------------
get_node_btag(h, n) == n + 1 + h.node[n].size

\* get_next_mem: no block behind tail_mem is looked at.
get_next_mem(h, n) ==
    LET cand == n + meta_btag_size + h.node[n].size IN
    IF cand > h.tail THEN None ELSE cand

\* get_prev_mem: by the tag in front.  In front of start_mem the code reads a tag that is not
\* there; whichever size that gives, the block would lie below start_mem.
get_prev_mem(h, n) ==
    IF n = 0 THEN None
    ELSE LET prev == n - meta_btag_size - h.btag[n - 1] IN
         IF prev < 0 THEN None ELSE prev

IsFree(h, n) == n # None /\ h.node[n].is_free

insert_free(h, n) ==
    IF h.head = None
    THEN [h EXCEPT !.node[n].prev = None, !.node[n].next = None, !.head = n]
    ELSE [h EXCEPT !.node[n].prev = None, !.node[n].next = h.head,
                   !.node[h.head].prev = n, !.head = n]

\* The new head keeps its prev_free.
remove_free(h, n) ==
    IF n = h.head THEN [h EXCEPT !.head = h.node[n].next]
    ELSE LET prev == h.node[n].prev
             next == h.node[n].next
             Link(a, m) == IF a = prev THEN [m EXCEPT !.next = next]
                           ELSE IF a = next THEN [m EXCEPT !.prev = prev]
                           ELSE IF a = n THEN [m EXCEPT !.prev = None, !.next = None]
                           ELSE m
         IN [h EXCEPT !.node = [a \in Addr |-> Link(a, h.node[a])]]

\* update_node_size: the merged block starts at n and ends with the tag at t.
update_node_size(h, n, t, new_size) ==
    [h EXCEPT !.node[n].size = @ + new_size, !.btag[t] = h.node[n].size + new_size]

coalesce_three_blocks(h, n, prev, next) ==
    LET h1 == remove_free(h, next)
        h2 == IF get_next_mem(h1, next) = None THEN [h1 EXCEPT !.tail = prev] ELSE h1
    IN update_node_size(h2, prev, get_node_btag(h2, next),
                        2 * meta_btag_size + h.node[n].size + h.node[next].size)

coalesce_two_blocks_before(h, n, prev, next) ==
    LET h1 == IF next = None THEN [h EXCEPT !.tail = prev] ELSE h
    IN update_node_size(h1, prev, get_node_btag(h, n), meta_btag_size + h.node[n].size)

\* Mutant: the block behind stays in the free list.
AfterKeepsNext(h, n, next) ==
    LET h2 == IF get_next_mem(h, next) = None THEN [h EXCEPT !.tail = n] ELSE h
        h3 == [h2 EXCEPT !.node[n].is_free = TRUE]
    IN insert_free(update_node_size(h3, n, get_node_btag(h3, next),
                                    meta_btag_size + h.node[next].size), n)

coalesce_two_blocks_after(h, n, next) ==
    LET h1 == remove_free(h, next)
        h2 == IF get_next_mem(h1, next) = None THEN [h1 EXCEPT !.tail = n] ELSE h1
        h3 == [h2 EXCEPT !.node[n].is_free = TRUE]
    IN insert_free(update_node_size(h3, n, get_node_btag(h3, next),
                                    meta_btag_size + h.node[next].size), n)

-----------------------------------------------------------------------------
\* The payload of a block is the client's to overwrite.
HandOut(h, n) ==
    LET payload == n + 1 .. n + h.node[n].size IN
    [h EXCEPT !.node = [a \in Addr |-> IF a \in payload THEN JunkHeader ELSE h.node[a]],
              !.btag = [a \in Addr |-> IF a \in payload THEN Junk ELSE h.btag[a]]]

\* alloc_new at the program break; only the very first node becomes tail_mem.
alloc_new(h, size) ==
    LET n == h.brk IN
    [h EXCEPT !.node[n] = [size |-> size, is_free |-> FALSE, prev |-> None,
                           next |-> None],
              !.btag[n + 1 + size] = size,
              !.tail = IF h.tail = None THEN n ELSE h.tail,
              !.brk = n + meta_btag_size + size]

alloc_free_split(h, n, size) ==
    LET extra == n + meta_btag_size + size
        rest == h.node[n].size - meta_btag_size - size
    IN insert_free([h EXCEPT !.node[extra].size = rest, !.node[extra].is_free = TRUE,
                             !.btag[extra + 1 + rest] = rest,
                             !.tail = IF extra > h.tail THEN extra ELSE h.tail,
                             !.node[n].size = size, !.node[n].is_free = FALSE,
                             !.btag[n + 1 + size] = size], extra)

alloc_free(h, n, size) ==
    LET h1 == IF h.node[n].size >= meta_btag_size + size + SPLIT_TRESHOLD
              THEN alloc_free_split(h, n, size) ELSE h
    IN [h1 EXCEPT !.node[n].is_free = FALSE]

\* The free list from its head, up to a node that was there before.
FreeList(h) ==
    LET Visit[k \in 0 .. HeapSize] ==
            IF k = 0 THEN <<>>
            ELSE LET before == Visit[k - 1]
                     n == IF before = <<>> THEN h.head ELSE h.node[before[Len(before)]].next
                 IN IF n = None \/ \E i \in DOMAIN before : before[i] = n
                    THEN before ELSE Append(before, n)
    IN Visit[HeapSize]

\* First fit in the free list, else from the kernel; ptr is None if that has nothing.
malloc(h, size) ==
    LET list == FreeList(h)
        fits == {i \in DOMAIN list : h.node[list[i]].size >= size}
    IN IF fits # {}
       THEN LET n == list[Min(fits)]
            IN [h |-> HandOut(alloc_free(remove_free(h, n), n, size), n), ptr |-> n + 1]
       ELSE IF h.brk + meta_btag_size + size > HeapSize THEN [h |-> h, ptr |-> None]
       ELSE [h |-> HandOut(alloc_new(h, size), h.brk), ptr |-> h.brk + 1]

free(h, ptr) ==
    LET n == ptr - 1
        prev == get_prev_mem(h, n)
        next == get_next_mem(h, n)
    IN IF h.node[n].is_free THEN h
       ELSE IF IsFree(h, prev) /\ IsFree(h, next)
            THEN coalesce_three_blocks(h, n, prev, next)
       ELSE IF IsFree(h, prev) THEN coalesce_two_blocks_before(h, n, prev, next)
       ELSE IF IsFree(h, next) THEN coalesce_two_blocks_after(h, n, next)
       ELSE insert_free([h EXCEPT !.node[n].is_free = TRUE], n)

-----------------------------------------------------------------------------
Without(p) == [q \in DOMAIN live \ {p} |-> live[q]]
With(l, p, size) ==
    IF p = None THEN l
    ELSE [q \in DOMAIN l \union {p} |-> IF q = p THEN size ELSE l[q]]

Malloc(size) ==
    /\ heap' = malloc(heap, size).h
    /\ live' = With(live, malloc(heap, size).ptr, size)

Free(p) ==
    /\ heap' = free(heap, p)
    /\ live' = Without(p)

\* realloc of a pointer the client holds: free for 0, in place if the block is large
\* enough, else a new block and then free, unless there is none.
Realloc(p, size) ==
    IF size = 0 THEN Free(p)
    ELSE IF size <= heap.node[p - 1].size
    THEN /\ live' = [live EXCEPT ![p] = size]
         /\ UNCHANGED heap
    ELSE LET r == malloc(heap, size) IN
         IF r.ptr = None THEN UNCHANGED vars
         ELSE /\ heap' = free(r.h, p)
              /\ live' = With(Without(p), r.ptr, size)

Next ==
    \/ \E size \in 1 .. MaxRequest : Malloc(size)
    \/ \E p \in DOMAIN live : Free(p)
    \/ \E p \in DOMAIN live, size \in 0 .. MaxRequest : Realloc(p, size)

Spec == Init /\ [][Next]_vars

-----------------------------------------------------------------------------
\* The blocks that a walk from start_mem by their sizes finds.
Blocks ==
    LET IsBlock(n) == n < heap.brk /\ heap.node[n].size >= 0
        Walk[k \in 0 .. HeapSize] ==
            IF k = 0 THEN 0
            ELSE LET n == Walk[k - 1] IN
                 IF IsBlock(n) THEN n + meta_btag_size + heap.node[n].size ELSE n
    IN {n \in {Walk[k] : k \in 0 .. HeapSize} : IsBlock(n)}

Ends(n) == n + meta_btag_size + heap.node[n].size

\* alloc.c:89-153, 206-226: whatever was split and merged, the blocks fill the heap
\* without a gap, each with a tag of its size, and tail_mem is one of them.
BlocksTile ==
    LET blocks == Blocks IN
    /\ \A n \in blocks :
        /\ Ends(n) \in blocks \union {heap.brk}
        /\ heap.btag[Ends(n) - 1] = heap.node[n].size
    /\ heap.brk > 0 => 0 \in blocks /\ heap.tail \in blocks

\* alloc.c:155-185: the free list holds exactly the free blocks, once each, and a
\* block that is taken out of its middle is unlinked from both sides.
FreeListExact ==
    LET list == FreeList(heap) IN
    /\ {list[i] : i \in DOMAIN list} = {n \in Blocks : heap.node[n].is_free}
    /\ list # <<>> => heap.node[list[Len(list)]].next = None
    /\ \A i \in 2 .. Len(list) : heap.node[list[i]].prev = list[i - 1]

\* alloc.c:294-437: the blocks that are not free are exactly the ones the client
\* holds, each as large as it was asked for: no two of them overlap, none is lost,
\* and none is in the free list.
ClientHasBlocks ==
    /\ {p - 1 : p \in DOMAIN live} = {n \in Blocks : ~heap.node[n].is_free}
    /\ \A p \in DOMAIN live : heap.node[p - 1].size >= live[p]

\* alloc.c:33: tail_mem is the "ptr to metadata of last node allocated in mem".
TailIsLast == heap.brk > 0 => Ends(heap.tail) = heap.brk
=============================================================================
