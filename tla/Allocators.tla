----------------------------- MODULE Allocators -----------------------------
(***************************************************************************)
(* The allocator, the leak checker with its hooks, and the sequential      *)
(* parts that live on the heap: vector, sstring and camelCaser, for TLC.   *)
(* They are programs of their own: a behaviour is one of its focus.        *)
(***************************************************************************)
EXTENDS MiniMemcheck

CONSTANTS
    HeapSize, MaxRequest, SPLIT_TRESHOLD,
    INITIAL_CAPACITY, GROWTH_FACTOR, Values, Default, MaxElems,
    Alphabet, MaxStr, MaxArg,
    MaxInput

VARIABLES
    focus,
    heap, live,                                                 \* of alloc.c
    shallow, vec, blocks_live, wrong, undefined, ideal,         \* of vector.c
    sstr, before, call, answer,                                 \* of sstring.c
    input, table, allocs                                        \* of camelCaser.c

memvars == <<vars, hackvars>>
heapvars == <<heap, live>>
vecvars == <<shallow, vec, blocks_live, wrong, undefined, ideal>>
strvars == <<sstr, before, call, answer>>
camelvars == <<input, table, allocs>>
allvars == <<focus, memvars, heapvars, vecvars, strvars, camelvars>>

Alloc == INSTANCE Malloc
Vec == INSTANCE Vector
Camel == INSTANCE CamelCaser

ASSUME AllocatorsAssumption == Alloc!MallocAssumption /\ Vec!VectorAssumption

VecIdle == /\ shallow = {} /\ vec = {} /\ blocks_live = {} /\ wrong = {} /\ undefined = {}
           /\ ideal = {}
StrIdle == sstr = {} /\ before = {} /\ call = {} /\ answer = {}
CamelIdle == input = {} /\ table = {} /\ allocs = {}

AInit ==
    /\ HInit /\ Alloc!Init
    /\ \/ focus \in {"malloc", "memcheck"} /\ VecIdle /\ StrIdle /\ CamelIdle
       \/ focus = "vector" /\ Vec!VInit /\ StrIdle /\ CamelIdle
       \/ focus = "sstring" /\ Vec!SInitStr /\ VecIdle /\ CamelIdle
       \/ focus = "camelCaser" /\ Camel!CCInit /\ VecIdle /\ StrIdle

ANext ==
    \/ focus = "memcheck" /\ HNext /\ UNCHANGED <<focus, heapvars, vecvars, strvars, camelvars>>
    \/ focus = "malloc" /\ Alloc!Next /\ UNCHANGED <<focus, memvars, vecvars, strvars, camelvars>>
    \/ focus = "vector" /\ Vec!VNext /\ UNCHANGED <<focus, memvars, heapvars, strvars, camelvars>>
    \/ focus = "sstring" /\ Vec!SNextStr
       /\ UNCHANGED <<focus, memvars, heapvars, vecvars, camelvars>>
    \/ focus = "camelCaser" /\ Camel!CCNext
       /\ UNCHANGED <<focus, memvars, heapvars, vecvars, strvars>>

ASpec == AInit /\ [][ANext]_allvars

-----------------------------------------------------------------------------
\* alloc.c:89-437: the blocks fill the heap, each with its tag, the free list is exactly
\* the free ones, and the blocks in use are the ones the client holds; see Malloc.
HeapSound == Alloc!BlocksTile /\ Alloc!FreeListExact /\ Alloc!ClientHasBlocks

\* vector.c:128-337: the vector is the sequence its calls describe, and each element's
\* copy is made once and destroyed once; see Vector.
VectorRight == focus = "vector" => Vec!VectorRight

\* sstring.c:34-111 and camelCaser.c:15-165: what the string functions return is what
\* their headers say, but for the split of the empty string; see Vector and CamelCaser.
StringsRight ==
    /\ focus = "sstring" => Vec!SstringRight
    /\ focus = "camelCaser" => Camel!CamelRight
=============================================================================
