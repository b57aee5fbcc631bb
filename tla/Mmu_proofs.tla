----------------------------- MODULE Mmu_proofs -----------------------------
(***************************************************************************)
(* Proofs about the MMU: frames, page tables, swap files and TLB agree     *)
(* whatever is evicted, brought back, given back and used again.           *)
(***************************************************************************)
EXTENDS Mmu, FiniteSetTheorems, SequenceTheorems, WellFoundedInduction, TLAPS

Entries == [present : BOOLEAN, base : Frames]
Kernels == [mem : [Frames -> Contents],
            map : [Frames -> {NULL, RESERVED} \union PteAddrs],
            swap : [PteAddrs -> Contents \union {NULL}]]

\* A frame that no entry of a table can be read from.
NoTable(c) == \A i \in Index : ~c.table[i].present

\* An entry at b points to the frame f.
Points(k, b, f) == Entry(k, b).present /\ Entry(k, b).base = f

\* The frames of a kernel k with the directories D and the page tables T.
Reserves(k, D, T) ==
    /\ D \subseteq Frames /\ T \subseteq Frames /\ D \intersect T = {}
    /\ \A f \in Frames : k.map[f] = RESERVED <=> f \in D \union T

\* Each table is in one entry of one directory, and nothing else is.
Directories(k, D, T) ==
    /\ \A t \in Frames : t \in T <=> \E b \in D \X Index : Points(k, b, t)
    /\ \A b, c \in D \X Index, t \in Frames : Points(k, b, t) /\ Points(k, c, t) => b = c

\* entry_mapping is the inverse of the page tables.
Mapped(k, T) ==
    \A f \in Frames, a \in PteAddrs : k.map[f] = a <=> (a[1] \in T /\ Points(k, a, f))

\* What a process wrote is no table, in memory or on disk.
PagesOnly(k) ==
    /\ \A f \in Frames : k.map[f] \in PteAddrs => NoTable(k.mem[f])
    /\ \A a \in PteAddrs : k.swap[a] # NULL => NoTable(k.swap[a])

KernelRight(k, D, T) ==
    k \in Kernels /\ Reserves(k, D, T) /\ Directories(k, D, T) /\ Mapped(k, T) /\ PagesOnly(k)

\* What is read through the entry at a.
Held(k, a) == IF Entry(k, a).present THEN k.mem[Entry(k, a).base].value
              ELSE IF k.swap[a] # NULL THEN k.swap[a].value ELSE 0

-----------------------------------------------------------------------------
(* The operations on a kernel, field by field.                               *)

LEMMA Constants ==
    /\ NULL # RESERVED /\ NULL \notin PteAddrs /\ RESERVED \notin PteAddrs
    /\ NULL \notin Frames /\ NULL \notin Contents
    /\ Frames \subseteq Nat /\ Index = {0, 1, 2}
    /\ Frames # {} => 0 \in Frames
    /\ Frames # {} => NoEntry \in Entries /\ ZeroFrame \in Contents
    /\ NoTable(ZeroFrame) /\ ZeroFrame.value = 0 /\ ~NoEntry.present
<1>1. /\ NULL # RESERVED /\ NULL \notin PteAddrs /\ RESERVED \notin PteAddrs
      /\ NULL \notin Frames /\ NULL \notin Contents
    BY MmuAssumption
<1>2. Frames \subseteq Nat /\ Index = {0, 1, 2}
    BY MmuAssumption DEF Frames, Index
<1>3. Frames # {} => 0 \in Frames
    BY MmuAssumption DEF Frames
<1>4. Frames # {} => NoEntry \in Entries
    BY <1>3 DEF NoEntry, Entries
<1>5. Frames # {} => ZeroFrame \in Contents
    BY <1>4 DEF ZeroFrame, Contents, Entries
<1>6. NoTable(ZeroFrame) /\ ZeroFrame.value = 0 /\ ~NoEntry.present
    BY DEF NoTable, ZeroFrame, NoEntry
<1> QED  BY <1>1, <1>2, <1>3, <1>4, <1>5, <1>6

LEMMA LeastIsThere ==
    ASSUME NEW S \in SUBSET Nat, S # {}
    PROVE  Min(S) \in S
<1>1. PICK x \in S : \A y \in S : ~(<<y, x>> \in OpToRel(<, Nat))
    BY WFMin, NatLessThanWellFounded
<1>2. ASSUME NEW y \in S PROVE x <= y
    <2>1. CASE y < x
        <3>1. <<y, x>> \in OpToRel(<, Nat)
            BY <2>1, Zenon DEF OpToRel
        <3> QED  BY <1>1, <3>1
    <2> QED  BY <2>1
<1> QED  BY <1>1, <1>2 DEF Min

LEMMA SetEntryHas ==
    ASSUME NEW k \in Kernels, NEW a \in PteAddrs, NEW e \in Entries,
           NEW k2, k2 = SetEntry(k, a, e)
    PROVE  /\ k2 \in Kernels /\ k2.map = k.map /\ k2.swap = k.swap
           /\ Entry(k2, a) = e
           /\ \A b \in PteAddrs : b # a => Entry(k2, b) = Entry(k, b)
           /\ \A f \in Frames : k2.mem[f].value = k.mem[f].value
           /\ \A f \in Frames : f # a[1] => k2.mem[f] = k.mem[f]
<1>1. a[1] \in Frames /\ a[2] \in Index /\ a = <<a[1], a[2]>>
    BY DEF PteAddrs
<1> DEFINE m == k.mem
<1>2. m \in [Frames -> Contents] /\ k.map \in [Frames -> {NULL, RESERVED} \union PteAddrs]
      /\ k.swap \in [PteAddrs -> Contents \union {NULL}]
    BY DEF Kernels
<1> DEFINE row == m[a[1]]
           tab == [row.table EXCEPT ![a[2]] = e]
           row2 == [row EXCEPT !.table = tab]
           m2 == [m EXCEPT ![a[1]] = row2]
<1>3. row \in Contents
    BY <1>1, <1>2
<1>4. row.table \in [Index -> Entries] /\ row.value \in Values \union {0}
    BY <1>3 DEF Contents, Entries
<1>5. /\ tab \in [Index -> Entries]
      /\ tab[a[2]] = e /\ \A i \in Index : i # a[2] => tab[i] = row.table[i]
    BY <1>1, <1>4
<1>6. k2 = [k EXCEPT !.mem = m2]
    BY DEF SetEntry
<1> HIDE DEF tab
<1>7. row2 = [table |-> tab, value |-> row.value]
    BY <1>3 DEF Contents
<1>8. row2 \in Contents /\ row2.table = tab /\ row2.value = row.value
    BY <1>4, <1>5, <1>7 DEF Contents, Entries
<1> HIDE DEF row2
<1>9. /\ m2 \in [Frames -> Contents] /\ m2[a[1]] = row2
      /\ \A f \in Frames : f # a[1] => m2[f] = m[f]
    BY <1>1, <1>2, <1>8
<1> HIDE DEF m2
<1>10. k2 \in Kernels /\ k2.mem = m2 /\ k2.map = k.map /\ k2.swap = k.swap
    BY <1>2, <1>6, <1>9 DEF Kernels
<1>11. Entry(k2, a) = e
    BY <1>1, <1>5, <1>8, <1>9, <1>10 DEF Entry
<1>12. ASSUME NEW b \in PteAddrs, b # a PROVE Entry(k2, b) = Entry(k, b)
    <2>1. b[1] \in Frames /\ b[2] \in Index /\ b = <<b[1], b[2]>>
        BY DEF PteAddrs
    <2>2. CASE b[1] = a[1]
        BY <1>1, <1>5, <1>8, <1>9, <1>10, <1>12, <2>1, <2>2 DEF Entry
    <2>3. CASE b[1] # a[1]
        BY <1>9, <1>10, <2>1, <2>3 DEF Entry
    <2> QED  BY <2>2, <2>3
<1> QED  BY <1>8, <1>9, <1>10, <1>11, <1>12

\* A frame is overwritten.
SetFrame(k, f, c) == [k EXCEPT !.mem[f] = c]

LEMMA SetFrameHas ==
    ASSUME NEW k \in Kernels, NEW f \in Frames, NEW c \in Contents,
           NEW k2, k2 = SetFrame(k, f, c)
    PROVE  /\ k2 \in Kernels /\ k2.map = k.map /\ k2.swap = k.swap
           /\ k2.mem[f] = c
           /\ \A g \in Frames : g # f => k2.mem[g] = k.mem[g]
<1> DEFINE m2 == [k.mem EXCEPT ![f] = c]
<1>1. /\ k.mem \in [Frames -> Contents]
      /\ k.map \in [Frames -> {NULL, RESERVED} \union PteAddrs]
      /\ k.swap \in [PteAddrs -> Contents \union {NULL}]
    BY DEF Kernels
<1>2. /\ m2 \in [Frames -> Contents] /\ m2[f] = c
      /\ \A g \in Frames : g # f => m2[g] = k.mem[g]
    BY <1>1
<1>3. k2 = [k EXCEPT !.mem = m2]
    BY DEF SetFrame
<1> HIDE DEF m2
<1>4. k2 \in Kernels /\ k2.mem = m2 /\ k2.map = k.map /\ k2.swap = k.swap
    BY <1>1, <1>2, <1>3 DEF Kernels
<1> QED  BY <1>2, <1>4


-----------------------------------------------------------------------------
(* Eviction.                                                                 *)

\* What a process sees of its memory: its tables, and what its entries hold.
SameView(k, k2, D, T) ==
    /\ \A b \in D \X Index : Entry(k2, b) = Entry(k, b)
    /\ \A b \in T \X Index : /\ Held(k2, b) = Held(k, b)
                             /\ Entry(k2, b).present => Entry(k, b).present
    /\ \A b \in PteAddrs : b[1] \notin T => k2.swap[b] = k.swap[b]

\* There is a frame that holds a page or nothing, and none holds the page of entry.
Spare(k, entry) ==
    /\ \E f \in Frames : k.map[f] # RESERVED
    /\ \A f \in Frames : entry # NULL => k.map[f] # entry

\* The kernel from which ask_kernel_for_frame takes a free frame.
Freed(k, entry) == IF FreeFrames(k) = {} THEN Evict(k, entry) ELSE k

\* The page of the entry at a has left the frame f.
Evicted(k, k2, f, a) ==
    /\ k.map[f] = a
    /\ k2 \in Kernels
    /\ k2.map = [k.map EXCEPT ![f] = NULL]
    /\ k2.swap = [k.swap EXCEPT ![a] = k.mem[f]]
    /\ ~Entry(k2, a).present
    /\ \A b \in PteAddrs : b # a => Entry(k2, b) = Entry(k, b)
    /\ \A g \in Frames : k2.mem[g].value = k.mem[g].value
    /\ \A g \in Frames : g # a[1] => k2.mem[g] = k.mem[g]

LEMMA EvictHas ==
    ASSUME NEW D, NEW T, NEW k, KernelRight(k, D, T), NEW entry,
           FreeFrames(k) = {}, Spare(k, entry),
           NEW k2, k2 = Evict(k, entry)
    PROVE  \E f \in Frames, a \in PteAddrs : Evicted(k, k2, f, a)
<1> DEFINE S == {i \in Frames : k.map[i] \notin {RESERVED, entry}}
           f == Min(S)
           a == k.map[f]
<1>0. /\ k \in Kernels
      /\ k.mem \in [Frames -> Contents]
      /\ k.map \in [Frames -> {NULL, RESERVED} \union PteAddrs]
      /\ k.swap \in [PteAddrs -> Contents \union {NULL}]
    BY DEF KernelRight, Kernels
<1>1. S # {} /\ S \subseteq Nat
    <2>1. PICK g \in Frames : k.map[g] # RESERVED
        BY DEF Spare
    <2>2. k.map[g] # NULL
        BY DEF FreeFrames
    <2>3. k.map[g] # entry
        BY <2>2 DEF Spare
    <2> QED  BY <2>1, <2>3, Constants
<1>2. f \in S
    BY <1>1, LeastIsThere
<1>3. f \in Frames /\ k.map[f] = a /\ a # RESERVED /\ a # NULL
    BY <1>2 DEF FreeFrames
<1>4. a \in PteAddrs
    BY <1>0, <1>3
<1>5. Entry(k, a).base = f
    BY <1>3, <1>4 DEF KernelRight, Mapped, Points
<1> DEFINE s2 == [k.swap EXCEPT ![a] = k.mem[f]]
           k1 == write_page_to_disk(k, a)
           k3 == SetEntry(k1, a, NoEntry)
<1>6. k2 = [k3 EXCEPT !.map[f] = NULL]
    BY DEF Evict
<1> HIDE DEF f, a
<1>7. s2 \in [PteAddrs -> Contents \union {NULL}]
    BY <1>0, <1>3, <1>4
<1>8. k1 = [k EXCEPT !.swap = s2]
    BY <1>5 DEF write_page_to_disk
<1> HIDE DEF s2, k1
<1>9. k1 \in Kernels /\ k1.mem = k.mem /\ k1.map = k.map /\ k1.swap = s2
    BY <1>0, <1>7, <1>8 DEF Kernels
<1>10. /\ k3 \in Kernels /\ k3.map = k1.map /\ k3.swap = k1.swap
       /\ Entry(k3, a) = NoEntry
       /\ \A b \in PteAddrs : b # a => Entry(k3, b) = Entry(k1, b)
       /\ \A g \in Frames : k3.mem[g].value = k1.mem[g].value
       /\ \A g \in Frames : g # a[1] => k3.mem[g] = k1.mem[g]
    <2>1. NoEntry \in Entries
        BY <1>3, Constants
    <2> QED  BY <1>4, <1>9, <2>1, SetEntryHas
<1> HIDE DEF k3
<1>11. \A b : Entry(k1, b) = Entry(k, b)
    BY <1>9 DEF Entry
<1> DEFINE m2 == [k.map EXCEPT ![f] = NULL]
<1>12. m2 \in [Frames -> {NULL, RESERVED} \union PteAddrs]
    BY <1>0, <1>3
<1>13. k2 = [k3 EXCEPT !.map = m2]
    BY <1>6, <1>9, <1>10
<1> HIDE DEF m2
<1>14. k2 \in Kernels /\ k2.mem = k3.mem /\ k2.map = m2 /\ k2.swap = k3.swap
    BY <1>10, <1>12, <1>13 DEF Kernels
<1>15. \A b : Entry(k2, b) = Entry(k3, b)
    BY <1>14 DEF Entry
<1>16. /\ ~Entry(k2, a).present
       /\ \A b \in PteAddrs : b # a => Entry(k2, b) = Entry(k, b)
       /\ \A g \in Frames : k2.mem[g].value = k.mem[g].value
       /\ \A g \in Frames : g # a[1] => k2.mem[g] = k.mem[g]
    BY <1>9, <1>10, <1>11, <1>14, <1>15, Constants
<1>17. Evicted(k, k2, f, a)
    BY <1>3, <1>9, <1>10, <1>14, <1>16 DEF m2, s2, Evicted
<1> QED  BY <1>3, <1>4, <1>17

\* An eviction frees a frame, and no process sees it.
LEMMA EvictKeeps ==
    ASSUME NEW D, NEW T, NEW k, KernelRight(k, D, T), NEW entry,
           FreeFrames(k) = {}, Spare(k, entry),
           NEW k2, k2 = Evict(k, entry)
    PROVE  KernelRight(k2, D, T) /\ SameView(k, k2, D, T) /\ FreeFrames(k2) # {}
<1>1. PICK f \in Frames, a \in PteAddrs : Evicted(k, k2, f, a)
    BY EvictHas
<1> USE DEF Evicted
<1>2. /\ k \in Kernels /\ Reserves(k, D, T) /\ Directories(k, D, T) /\ Mapped(k, T)
      /\ PagesOnly(k)
      /\ k.mem \in [Frames -> Contents]
      /\ k.map \in [Frames -> {NULL, RESERVED} \union PteAddrs]
      /\ k.swap \in [PteAddrs -> Contents \union {NULL}]
    BY DEF KernelRight, Kernels
<1>3. k.map[f] = a /\ a[1] \in T /\ Points(k, a, f) /\ ~Entry(k2, a).present
    BY <1>1, <1>2 DEF Mapped
<1>4. /\ k2.map[f] = NULL /\ \A g \in Frames : g # f => k2.map[g] = k.map[g]
      /\ k2.swap[a] = k.mem[f] /\ \A b \in PteAddrs : b # a => k2.swap[b] = k.swap[b]
    BY <1>1, <1>2
<1>5. /\ D \subseteq Frames /\ T \subseteq Frames
      /\ \A b \in D \X Index : b \in PteAddrs /\ b # a
      /\ \A b \in T \X Index : b \in PteAddrs
    <2>1. D \subseteq Frames /\ T \subseteq Frames /\ D \intersect T = {}
        BY <1>2 DEF Reserves
    <2> QED  BY <1>3, <2>1 DEF PteAddrs
<1>6. Reserves(k2, D, T)
    BY <1>1, <1>2, <1>4, Constants DEF Reserves
<1>7. \A b \in D \X Index : Entry(k2, b) = Entry(k, b)
    BY <1>1, <1>5
<1>8. Directories(k2, D, T)
    BY <1>2, <1>7 DEF Directories, Points
<1>9. Mapped(k2, T)
    <2> SUFFICES ASSUME NEW g \in Frames, NEW b \in PteAddrs
                 PROVE  k2.map[g] = b <=> (b[1] \in T /\ Points(k2, b, g))
        BY DEF Mapped
    <2>0. k.map[g] = b <=> (b[1] \in T /\ Points(k, b, g))
        BY <1>2 DEF Mapped
    <2>1. CASE b = a
        <3>1. Points(k, a, g) => g = f
            BY <1>3 DEF Points
        <3>2. k2.map[g] # a
            BY <1>3, <1>4, <2>0, <2>1, <3>1, Constants
        <3> QED  BY <1>3, <2>1, <3>2 DEF Points
    <2>2. CASE b # a
        <3>1. Entry(k2, b) = Entry(k, b)
            BY <1>1, <2>2
        <3>2. k2.map[g] = b <=> k.map[g] = b
            BY <1>3, <1>4, <2>2, Constants
        <3> QED  BY <2>0, <3>1, <3>2 DEF Points
    <2> QED  BY <2>1, <2>2
<1>10. PagesOnly(k2)
    <2>1. ASSUME NEW g \in Frames, k2.map[g] \in PteAddrs PROVE NoTable(k2.mem[g])
        <3>1. g # f /\ k2.map[g] = k.map[g]
            BY <1>4, <2>1, Constants
        <3>2. g # a[1]
            BY <1>2, <1>3, <2>1, <3>1, Constants DEF Reserves
        <3> QED  BY <1>1, <1>2, <2>1, <3>1, <3>2 DEF PagesOnly
    <2>2. ASSUME NEW b \in PteAddrs, k2.swap[b] # NULL PROVE NoTable(k2.swap[b])
        BY <1>1, <1>2, <1>4, <2>2 DEF PagesOnly
    <2> QED  BY <2>1, <2>2 DEF PagesOnly
<1>11. ASSUME NEW b \in T \X Index PROVE Held(k2, b) = Held(k, b)
    <2>1. CASE b = a
        <3>1. Held(k, b) = k.mem[f].value
            BY <1>3, <2>1 DEF Held, Points
        <3>2. k2.swap[b] # NULL /\ k2.swap[b].value = k.mem[f].value
            BY <1>2, <1>4, <2>1, Constants
        <3> QED  BY <1>1, <2>1, <3>1, <3>2 DEF Held
    <2>2. CASE b # a
        <3>1. Entry(k2, b) = Entry(k, b) /\ k2.swap[b] = k.swap[b]
            BY <1>1, <1>4, <1>5, <2>2
        <3>2. Entry(k, b).base \in Frames
            BY <1>2, <1>5 DEF Entry, Contents, PteAddrs
        <3> QED  BY <1>1, <3>1, <3>2 DEF Held
    <2> QED  BY <2>1, <2>2
<1>12. SameView(k, k2, D, T)
    BY <1>1, <1>3, <1>4, <1>5, <1>7, <1>11 DEF SameView
<1> QED  BY <1>1, <1>4, <1>6, <1>8, <1>9, <1>10, <1>12 DEF KernelRight, FreeFrames

LEMMA FreedKeeps ==
    ASSUME NEW D, NEW T, NEW k, KernelRight(k, D, T), NEW entry, Spare(k, entry),
           NEW k2, k2 = Freed(k, entry)
    PROVE  KernelRight(k2, D, T) /\ SameView(k, k2, D, T) /\ FreeFrames(k2) # {}
BY EvictKeeps DEF Freed, SameView


-----------------------------------------------------------------------------
(* A frame is taken for the entry at a, and is owned by o.                   *)

Takes(k, k2, f, a, o, v) ==
    /\ k2 \in Kernels
    /\ k2.map = [k.map EXCEPT ![f] = o] /\ k2.swap = k.swap
    /\ Points(k2, a, f)
    /\ \A b \in PteAddrs : b # a /\ b[1] # f => Entry(k2, b) = Entry(k, b)
    /\ NoTable(k2.mem[f]) /\ k2.mem[f].value = v
    /\ \A g \in Frames : g # f => k2.mem[g].value = k.mem[g].value
    /\ \A g \in Frames : g # f /\ g # a[1] => k2.mem[g] = k.mem[g]

\* ask_kernel_for_frame, once there is a free frame: it is cleared.
LEMMA AskHas ==
    ASSUME NEW k0, NEW entry, entry = NULL \/ entry \in PteAddrs,
           NEW k, k = Freed(k0, entry), k \in Kernels, FreeFrames(k) # {},
           NEW r, r = ask_kernel_for_frame(k0, entry)
    PROVE  /\ r.frame \in Frames /\ k.map[r.frame] = NULL
           /\ r.k \in Kernels /\ r.k.swap = k.swap
           /\ r.k.map = [k.map EXCEPT ![r.frame] = IF entry = NULL THEN RESERVED ELSE entry]
           /\ r.k.mem[r.frame] = ZeroFrame
           /\ \A g \in Frames : g # r.frame => r.k.mem[g] = k.mem[g]
<1> DEFINE f == Min(FreeFrames(k))
           o == IF entry = NULL THEN RESERVED ELSE entry
           m2 == [k.mem EXCEPT ![f] = ZeroFrame]
           p2 == [k.map EXCEPT ![f] = o]
           k2 == [k EXCEPT !.mem[f] = ZeroFrame, !.map[f] = o]
<1>1. r = [k |-> k2, frame |-> f]
    BY DEF ask_kernel_for_frame, Freed
<1>2. f \in Frames /\ k.map[f] = NULL
    BY LeastIsThere, Constants DEF FreeFrames
<1> HIDE DEF f
<1>3. /\ k.mem \in [Frames -> Contents]
      /\ k.map \in [Frames -> {NULL, RESERVED} \union PteAddrs]
      /\ k.swap \in [PteAddrs -> Contents \union {NULL}]
    BY DEF Kernels
<1>4. /\ m2 \in [Frames -> Contents] /\ m2[f] = ZeroFrame
      /\ \A g \in Frames : g # f => m2[g] = k.mem[g]
    BY <1>2, <1>3, Constants
<1>5. o \in {NULL, RESERVED} \union PteAddrs
    OBVIOUS
<1>6. k2 = [k EXCEPT !.mem = m2, !.map = p2]
    OBVIOUS
<1> HIDE DEF o
<1>7. p2 \in [Frames -> {NULL, RESERVED} \union PteAddrs]
    BY <1>2, <1>3, <1>5
<1> HIDE DEF m2, p2, k2
<1>8. k2 \in Kernels /\ k2.mem = m2 /\ k2.map = p2 /\ k2.swap = k.swap
    BY <1>3, <1>4, <1>6, <1>7 DEF Kernels
<1>9. r.k = k2 /\ r.frame = f
    BY <1>1
<1> QED  BY <1>2, <1>4, <1>8, <1>9 DEF p2, o

LEMMA MapTakes ==
    ASSUME NEW k0, NEW entry, entry = NULL \/ entry \in PteAddrs,
           NEW k, k = Freed(k0, entry), k \in Kernels, FreeFrames(k) # {},
           NEW a \in PteAddrs, k.map[a[1]] # NULL,
           NEW k2, k2 = Map(k0, a, entry)
    PROVE  \E f \in Frames : /\ k.map[f] = NULL
                             /\ Takes(k, k2, f, a, IF entry = NULL THEN RESERVED ELSE entry, 0)
<1> DEFINE r == ask_kernel_for_frame(k0, entry)
           f == r.frame
           o == IF entry = NULL THEN RESERVED ELSE entry
           e == [present |-> TRUE, base |-> f]
<1>1. /\ f \in Frames /\ k.map[f] = NULL
      /\ r.k \in Kernels /\ r.k.swap = k.swap
      /\ r.k.map = [k.map EXCEPT ![f] = o]
      /\ r.k.mem[f] = ZeroFrame
      /\ \A g \in Frames : g # f => r.k.mem[g] = k.mem[g]
    BY AskHas
<1>2. k2 = SetEntry(r.k, a, e)
    BY DEF Map
<1>3. e \in Entries /\ e.present /\ e.base = f
    BY <1>1 DEF Entries
<1> HIDE DEF r, o, e
<1>4. /\ k2 \in Kernels /\ k2.map = r.k.map /\ k2.swap = r.k.swap
      /\ Entry(k2, a) = e
      /\ \A b \in PteAddrs : b # a => Entry(k2, b) = Entry(r.k, b)
      /\ \A g \in Frames : k2.mem[g].value = r.k.mem[g].value
      /\ \A g \in Frames : g # a[1] => k2.mem[g] = r.k.mem[g]
    BY <1>1, <1>2, <1>3, SetEntryHas
<1> HIDE DEF f
<1>5. f # a[1] /\ a[1] \in Frames
    BY <1>1 DEF PteAddrs
<1>6. Points(k2, a, f)
    BY <1>3, <1>4 DEF Points
<1>7. \A b \in PteAddrs : b # a /\ b[1] # f => Entry(k2, b) = Entry(k, b)
    BY <1>1, <1>4 DEF Entry, PteAddrs
<1>8. k2.mem[f] = ZeroFrame
    BY <1>1, <1>4, <1>5
<1>9. Takes(k, k2, f, a, o, 0)
    BY <1>1, <1>4, <1>6, <1>7, <1>8, Constants DEF Takes
<1> QED  BY <1>1, <1>9 DEF o

\* The same and what the file says, if there is one.
LEMMA FaultTakes ==
    ASSUME NEW k0, NEW entry, entry = NULL \/ entry \in PteAddrs,
           NEW k, k = Freed(k0, entry), k \in Kernels, FreeFrames(k) # {}, PagesOnly(k),
           NEW a \in PteAddrs, k.map[a[1]] # NULL,
           NEW k2, k2 = Fault(k0, a, entry)
    PROVE  \E f \in Frames :
              /\ k.map[f] = NULL
              /\ Takes(k, k2, f, a, IF entry = NULL THEN RESERVED ELSE entry,
                       IF k.swap[a] # NULL THEN k.swap[a].value ELSE 0)
<1> DEFINE k1 == Map(k0, a, entry)
           o == IF entry = NULL THEN RESERVED ELSE entry
           v == IF k.swap[a] # NULL THEN k.swap[a].value ELSE 0
<1>1. PICK f \in Frames : k.map[f] = NULL /\ Takes(k, k1, f, a, o, 0)
    BY MapTakes
<1>2. k2 = read_page_from_disk(k1, a)
    BY DEF Fault, Map
<1> HIDE DEF k1, o
<1>3. /\ k1 \in Kernels /\ k1.map = [k.map EXCEPT ![f] = o] /\ k1.swap = k.swap
      /\ Points(k1, a, f)
      /\ \A b \in PteAddrs : b # a /\ b[1] # f => Entry(k1, b) = Entry(k, b)
      /\ \A g \in Frames : g # f => k1.mem[g].value = k.mem[g].value
      /\ \A g \in Frames : g # f /\ g # a[1] => k1.mem[g] = k.mem[g]
    BY <1>1 DEF Takes
<1>4. CASE k.swap[a] = NULL
    BY <1>1, <1>2, <1>3, <1>4 DEF read_page_from_disk, o
<1>5. CASE k.swap[a] # NULL
    <2> DEFINE c == k.swap[a]
    <2>1. c \in Contents /\ NoTable(c)
        BY <1>5 DEF Kernels, PagesOnly
    <2>2. k2 = SetFrame(k1, f, c)
        BY <1>2, <1>3, <1>5 DEF SetFrame, read_page_from_disk, Points
    <2> HIDE DEF c
    <2>0. k1 \in Kernels
        BY <1>3
    <2>3. /\ k2 \in Kernels /\ k2.map = k1.map /\ k2.swap = k1.swap
          /\ k2.mem[f] = c
          /\ \A g \in Frames : g # f => k2.mem[g] = k1.mem[g]
        BY <2>0, <2>1, <2>2, SetFrameHas
    <2>4. f # a[1] /\ a[1] \in Frames
        BY <1>1 DEF PteAddrs
    <2>5. \A b \in PteAddrs : b[1] # f => Entry(k2, b) = Entry(k1, b)
        BY <2>3 DEF Entry, PteAddrs
    <2>6. Points(k2, a, f)
        BY <1>3, <2>4, <2>5 DEF Points
    <2>7. v = c.value
        BY <1>5 DEF c
    <2> HIDE DEF v
    <2>8. Takes(k, k2, f, a, o, v)
        BY <1>3, <2>1, <2>3, <2>5, <2>6, <2>7 DEF Takes
    <2> QED  BY <1>1, <2>8 DEF o, v
<1> QED  BY <1>4, <1>5


\* What holds in every kernel that is right, in the terms of its fields.
LEMMA RightFields ==
    ASSUME NEW D, NEW T, NEW k, KernelRight(k, D, T)
    PROVE  /\ k \in Kernels /\ k.mem \in [Frames -> Contents]
           /\ k.map \in [Frames -> {NULL, RESERVED} \union PteAddrs]
           /\ k.swap \in [PteAddrs -> Contents \union {NULL}]
           /\ D \subseteq Frames /\ T \subseteq Frames /\ D \intersect T = {}
           /\ \A f \in Frames : k.map[f] = NULL => f \notin D \union T
           /\ \A f \in D \union T : k.map[f] # NULL
           /\ \A b \in (D \union T) \X Index :
                /\ b \in PteAddrs /\ b[1] \in D \union T /\ b[2] \in Index /\ b = <<b[1], b[2]>>
                /\ Entry(k, b) \in Entries
           /\ \A f \in Frames, b \in (D \union T) \X Index : k.map[f] = NULL => ~Points(k, b, f)
<1>1. /\ k \in Kernels /\ k.mem \in [Frames -> Contents]
      /\ k.map \in [Frames -> {NULL, RESERVED} \union PteAddrs]
      /\ k.swap \in [PteAddrs -> Contents \union {NULL}]
    BY DEF KernelRight, Kernels
<1>2. /\ D \subseteq Frames /\ T \subseteq Frames /\ D \intersect T = {}
      /\ \A f \in Frames : k.map[f] = RESERVED <=> f \in D \union T
    BY DEF KernelRight, Reserves
<1>3. ASSUME NEW b \in (D \union T) \X Index
      PROVE  b \in PteAddrs /\ b[1] \in D \union T /\ b[2] \in Index /\ b = <<b[1], b[2]>>
    BY <1>2 DEF PteAddrs
<1>4. ASSUME NEW b \in PteAddrs PROVE Entry(k, b) \in Entries
    <2>1. b[1] \in Frames /\ b[2] \in Index
        BY DEF PteAddrs
    <2>2. k.mem[b[1]] \in Contents
        BY <1>1, <2>1
    <2> QED  BY <2>1, <2>2 DEF Entry, Contents, Entries
<1>5. ASSUME NEW f \in Frames, k.map[f] = NULL, NEW b \in (D \union T) \X Index, Points(k, b, f)
      PROVE  FALSE
    <2>1. b \in PteAddrs
        BY <1>3
    <2>2. CASE b[1] \in T
        BY <1>5, <2>1, <2>2, Constants DEF KernelRight, Mapped
    <2>3. CASE b[1] \in D
        <3>1. b \in D \X Index
            BY <2>3
        <3>2. f \in T
            BY <1>5, <3>1 DEF KernelRight, Directories
        <3> QED  BY <1>2, <1>5, <3>2, Constants
    <2> QED  BY <1>3, <2>2, <2>3
<1> QED  BY <1>1, <1>2, <1>3, <1>4, <1>5, Constants

\* The directory's entry at a has got the new table t.
NewTable(k, k2, D, T, a, t) ==
    /\ KernelRight(k2, D, T \union {t}) /\ t \notin D /\ t \notin T /\ Points(k2, a, t)
    /\ \A b \in D \X Index : b # a => Entry(k2, b) = Entry(k, b)
    /\ \A b \in T \X Index : Held(k2, b) = Held(k, b)
    /\ \A b \in PteAddrs : b[1] \notin T => k2.swap[b] = k.swap[b]
    /\ \A i \in Index : /\ ~Entry(k2, <<t, i>>).present
                        /\ k.swap[<<t, i>>] = NULL => Held(k2, <<t, i>>) = 0

\* The entry at a has got a frame.
NewPage(k, k2, D, T, a) ==
    /\ KernelRight(k2, D, T) /\ Entry(k2, a).present /\ Entry(k2, a).base \in Frames
    /\ \A b \in D \X Index : Entry(k2, b) = Entry(k, b)
    /\ \A b \in T \X Index : b # a => /\ Held(k2, b) = Held(k, b)
                                      /\ Entry(k2, b).present => Entry(k, b).present
    /\ \A b \in PteAddrs : b[1] \notin T => k2.swap[b] = k.swap[b]

\* A frame for a table of a directory.
LEMMA TakeTable ==
    ASSUME NEW D, NEW T, NEW k, KernelRight(k, D, T),
           NEW f \in Frames, k.map[f] = NULL,
           NEW a \in D \X Index, ~Entry(k, a).present,
           NEW v, NEW k2, Takes(k, k2, f, a, RESERVED, v)
    PROVE  NewTable(k, k2, D, T, a, f)
<1>1. /\ D \subseteq Frames /\ T \subseteq Frames /\ D \intersect T = {}
      /\ k.map \in [Frames -> {NULL, RESERVED} \union PteAddrs]
      /\ f \notin D /\ f \notin T
      /\ \A b \in D \X Index : b \in PteAddrs /\ b[1] \in D
      /\ \A b \in T \X Index : b \in PteAddrs /\ b[1] \in T /\ Entry(k, b).base \in Frames
      /\ \A b \in D \X Index : ~Points(k, b, f)
      /\ \A b \in T \X Index : ~Points(k, b, f)
    BY RightFields DEF Entries
<1>2. /\ k2 \in Kernels /\ k2.swap = k.swap /\ Points(k2, a, f)
      /\ k2.map = [k.map EXCEPT ![f] = RESERVED]
      /\ \A b \in PteAddrs : b # a /\ b[1] # f => Entry(k2, b) = Entry(k, b)
      /\ NoTable(k2.mem[f])
      /\ \A g \in Frames : g # f => k2.mem[g].value = k.mem[g].value
      /\ \A g \in Frames : g # f /\ g # a[1] => k2.mem[g] = k.mem[g]
    BY DEF Takes
<1>3. k2.map[f] = RESERVED /\ \A g \in Frames : g # f => k2.map[g] = k.map[g]
    BY <1>1, <1>2
<1>4. \A b \in D \X Index : b # a => Entry(k2, b) = Entry(k, b)
    BY <1>1, <1>2
<1>5. \A b \in T \X Index : Entry(k2, b) = Entry(k, b)
    BY <1>1, <1>2
<1>6. \A b \in PteAddrs : b[1] = f => ~Entry(k2, b).present
    BY <1>2 DEF NoTable, Entry, PteAddrs
<1>7. Reserves(k2, D, T \union {f})
    BY <1>1, <1>3 DEF KernelRight, Reserves
<1>8. Directories(k2, D, T \union {f})
    <2>1. ASSUME NEW b \in D \X Index, NEW t \in Frames
          PROVE  Points(k2, b, t) <=> Points(k, b, t) \/ (b = a /\ t = f)
        BY <1>2, <1>4 DEF Points
    <2>2. /\ \A t \in Frames : t \in T <=> \E b \in D \X Index : Points(k, b, t)
          /\ \A b, c \in D \X Index, t \in Frames : Points(k, b, t) /\ Points(k, c, t) => b = c
        BY DEF KernelRight, Directories
    <2>3. \A t \in Frames : t \in T \union {f} <=> \E b \in D \X Index : Points(k2, b, t)
        BY <2>1, <2>2
    <2>4. \A b, c \in D \X Index, t \in Frames : Points(k2, b, t) /\ Points(k2, c, t) => b = c
        BY <1>1, <2>1, <2>2
    <2> QED  BY <2>3, <2>4 DEF Directories
<1>9. Mapped(k2, T \union {f})
    <2> SUFFICES ASSUME NEW g \in Frames, NEW b \in PteAddrs
                 PROVE  k2.map[g] = b <=> (b[1] \in T \union {f} /\ Points(k2, b, g))
        BY DEF Mapped
    <2>1. k.map[g] = b <=> (b[1] \in T /\ Points(k, b, g))
        BY DEF KernelRight, Mapped
    <2>2. b[1] \in T => b \in T \X Index
        BY DEF PteAddrs
    <2>3. k2.map[g] = b <=> k.map[g] = b
        BY <1>3, Constants
    <2>4. b[1] \in T => (Points(k2, b, g) <=> Points(k, b, g))
        BY <1>5, <2>2 DEF Points
    <2>5. b[1] = f => ~Points(k2, b, g)
        BY <1>6 DEF Points
    <2> QED  BY <1>1, <2>1, <2>3, <2>4, <2>5
<1>10. PagesOnly(k2)
    <2>1. ASSUME NEW g \in Frames, k2.map[g] \in PteAddrs PROVE NoTable(k2.mem[g])
        <3>1. g # f /\ k.map[g] \in PteAddrs
            BY <1>3, <2>1, Constants
        <3>2. g # a[1]
            BY <1>1, <3>1, Constants DEF KernelRight, Reserves
        <3> QED  BY <1>2, <3>1, <3>2 DEF KernelRight, PagesOnly
    <2> QED  BY <1>2, <2>1 DEF KernelRight, PagesOnly
<1>11. ASSUME NEW b \in T \X Index PROVE Held(k2, b) = Held(k, b)
    <2>1. Entry(k2, b) = Entry(k, b) /\ k2.swap[b] = k.swap[b] /\ Entry(k, b).base \in Frames
        BY <1>1, <1>2, <1>5
    <2>2. Entry(k, b).present => Entry(k, b).base # f
        BY <1>1 DEF Points
    <2> QED  BY <1>2, <2>1, <2>2 DEF Held
<1>12. ASSUME NEW i \in Index
       PROVE  /\ ~Entry(k2, <<f, i>>).present
              /\ k.swap[<<f, i>>] = NULL => Held(k2, <<f, i>>) = 0
    <2>1. <<f, i>> \in PteAddrs
        BY DEF PteAddrs
    <2> QED  BY <1>2, <1>6, <2>1 DEF Held
<1>13. KernelRight(k2, D, T \union {f})
    BY <1>2, <1>7, <1>8, <1>9, <1>10 DEF KernelRight
<1> QED  BY <1>1, <1>2, <1>4, <1>11, <1>12, <1>13 DEF NewTable

\* A frame for a page.
LEMMA TakePage ==
    ASSUME NEW D, NEW T, NEW k, KernelRight(k, D, T),
           NEW f \in Frames, k.map[f] = NULL,
           NEW a \in T \X Index, ~Entry(k, a).present,
           NEW v, NEW k2, Takes(k, k2, f, a, a, v)
    PROVE  NewPage(k, k2, D, T, a) /\ Held(k2, a) = v
<1>1. /\ D \subseteq Frames /\ T \subseteq Frames /\ D \intersect T = {}
      /\ k.map \in [Frames -> {NULL, RESERVED} \union PteAddrs]
      /\ f \notin D /\ f \notin T
      /\ \A b \in D \X Index : b \in PteAddrs /\ b[1] \in D
      /\ \A b \in T \X Index : b \in PteAddrs /\ b[1] \in T /\ Entry(k, b).base \in Frames
      /\ \A b \in D \X Index : ~Points(k, b, f)
      /\ \A b \in T \X Index : ~Points(k, b, f)
    BY RightFields DEF Entries
<1>2. /\ k2 \in Kernels /\ k2.swap = k.swap /\ Points(k2, a, f)
      /\ k2.map = [k.map EXCEPT ![f] = a]
      /\ \A b \in PteAddrs : b # a /\ b[1] # f => Entry(k2, b) = Entry(k, b)
      /\ NoTable(k2.mem[f]) /\ k2.mem[f].value = v
      /\ \A g \in Frames : g # f => k2.mem[g].value = k.mem[g].value
      /\ \A g \in Frames : g # f /\ g # a[1] => k2.mem[g] = k.mem[g]
    BY DEF Takes
<1>3. k2.map[f] = a /\ \A g \in Frames : g # f => k2.map[g] = k.map[g]
    BY <1>1, <1>2
<1>4. \A b \in D \X Index : Entry(k2, b) = Entry(k, b)
    BY <1>1, <1>2
<1>5. \A b \in T \X Index : b # a => Entry(k2, b) = Entry(k, b)
    BY <1>1, <1>2
<1>6. a \in PteAddrs /\ a[1] \in T
    BY <1>1
<1>7. Reserves(k2, D, T)
    BY <1>1, <1>3, <1>6, Constants DEF KernelRight, Reserves
<1>8. Directories(k2, D, T)
    BY <1>4 DEF KernelRight, Directories, Points
<1>9. Mapped(k2, T)
    <2> SUFFICES ASSUME NEW g \in Frames, NEW b \in PteAddrs
                 PROVE  k2.map[g] = b <=> (b[1] \in T /\ Points(k2, b, g))
        BY DEF Mapped
    <2>1. k.map[g] = b <=> (b[1] \in T /\ Points(k, b, g))
        BY DEF KernelRight, Mapped
    <2>2. b[1] \in T => b \in T \X Index
        BY DEF PteAddrs
    <2>3. CASE b = a
        <3>1. Points(k2, a, g) <=> g = f
            BY <1>2 DEF Points
        <3>2. k.map[g] # a
            BY <2>1, <2>3 DEF Points
        <3> QED  BY <1>3, <1>6, <2>3, <3>1, <3>2
    <2>4. CASE b # a
        <3>1. k2.map[g] = b <=> k.map[g] = b /\ g # f
            BY <1>3, <2>4
        <3>2. b[1] \in T => (Points(k2, b, g) <=> Points(k, b, g))
            BY <1>5, <2>2, <2>4 DEF Points
        <3>3. b[1] \in T /\ Points(k, b, g) => g # f
            BY <1>1, <2>2
        <3> QED  BY <2>1, <3>1, <3>2, <3>3
    <2> QED  BY <2>3, <2>4
<1>10. PagesOnly(k2)
    <2>1. ASSUME NEW g \in Frames, g # f, k2.map[g] \in PteAddrs PROVE NoTable(k2.mem[g])
        <3>1. k.map[g] \in PteAddrs
            BY <1>3, <2>1
        <3>2. g # a[1]
            BY <1>6, <3>1, Constants DEF KernelRight, Reserves
        <3> QED  BY <1>2, <2>1, <3>1, <3>2 DEF KernelRight, PagesOnly
    <2> QED  BY <1>2, <2>1 DEF KernelRight, PagesOnly
<1>11. ASSUME NEW b \in T \X Index, b # a PROVE Held(k2, b) = Held(k, b)
    <2>1. Entry(k2, b) = Entry(k, b) /\ k2.swap[b] = k.swap[b] /\ Entry(k, b).base \in Frames
        BY <1>1, <1>2, <1>5, <1>11
    <2>2. Entry(k, b).present => Entry(k, b).base # f
        BY <1>1 DEF Points
    <2> QED  BY <1>2, <2>1, <2>2 DEF Held
<1>12. Held(k2, a) = v
    BY <1>2 DEF Held, Points
<1>13. KernelRight(k2, D, T)
    BY <1>2, <1>7, <1>8, <1>9, <1>10 DEF KernelRight
<1>14. Entry(k2, a).present /\ Entry(k2, a).base \in Frames
    BY <1>2 DEF Points
<1> QED  BY <1>2, <1>4, <1>5, <1>11, <1>12, <1>13, <1>14 DEF NewPage


-----------------------------------------------------------------------------
(* The operations of kernel.c on a kernel that is right.                     *)

HasSpare(k) == \E f \in Frames : k.map[f] # RESERVED

LEMMA TableMapped ==
    ASSUME NEW D, NEW T, NEW k, KernelRight(k, D, T), HasSpare(k),
           NEW a \in D \X Index, ~Entry(k, a).present,
           NEW k2, k2 = Map(k, a, NULL) \/ k2 = Fault(k, a, NULL)
    PROVE  \E t \in Frames : NewTable(k, k2, D, T, a, t)
<1> DEFINE kf == Freed(k, NULL)
<1>1. KernelRight(kf, D, T) /\ SameView(k, kf, D, T) /\ FreeFrames(kf) # {}
    BY FreedKeeps DEF Spare, HasSpare
<1> HIDE DEF kf
<1>2. kf \in Kernels /\ PagesOnly(kf)
    BY <1>1 DEF KernelRight
<1>3. a \in PteAddrs /\ kf.map[a[1]] # NULL
    BY <1>1, RightFields
<1>4. PICK t \in Frames : kf.map[t] = NULL /\ \E v : Takes(kf, k2, t, a, RESERVED, v)
    <2>1. CASE k2 = Map(k, a, NULL)
        <3>1. \E t \in Frames : kf.map[t] = NULL /\ Takes(kf, k2, t, a, RESERVED, 0)
            BY <1>1, <1>2, <1>3, <2>1, MapTakes DEF kf
        <3> QED  BY <3>1
    <2>2. CASE k2 = Fault(k, a, NULL)
        <3> DEFINE v == IF kf.swap[a] # NULL THEN kf.swap[a].value ELSE 0
        <3>1. \E t \in Frames : kf.map[t] = NULL /\ Takes(kf, k2, t, a, RESERVED, v)
            BY <1>1, <1>2, <1>3, <2>2, FaultTakes DEF kf
        <3> HIDE DEF v
        <3> QED  BY <3>1
    <2> QED  BY <2>1, <2>2
<1>5. ~Entry(kf, a).present
    BY <1>1 DEF SameView
<1> PICK v : Takes(kf, k2, t, a, RESERVED, v)
    BY <1>4
<1>6. NewTable(kf, k2, D, T, a, t)
    BY <1>1, <1>4, <1>5, TakeTable
<1>7. ASSUME NEW i \in Index PROVE kf.swap[<<t, i>>] = k.swap[<<t, i>>]
    <2>1. <<t, i>> \in PteAddrs /\ <<t, i>>[1] = t
        BY DEF PteAddrs
    <2> QED  BY <1>1, <1>6, <2>1 DEF SameView, NewTable
<1>8. NewTable(k, k2, D, T, a, t)
    BY <1>1, <1>6, <1>7 DEF NewTable, SameView
<1> QED  BY <1>8

LEMMA PageMapped ==
    ASSUME NEW D, NEW T, NEW k, KernelRight(k, D, T), HasSpare(k),
           NEW a \in T \X Index, ~Entry(k, a).present, NEW k2
    PROVE  /\ k2 = Map(k, a, a) => NewPage(k, k2, D, T, a) /\ Held(k2, a) = 0
           /\ k2 = Fault(k, a, a) => NewPage(k, k2, D, T, a) /\ Held(k2, a) = Held(k, a)
<1> DEFINE kf == Freed(k, a)
<1>0. a \in PteAddrs /\ a # NULL
    BY RightFields, Constants
<1>1. KernelRight(kf, D, T) /\ SameView(k, kf, D, T) /\ FreeFrames(kf) # {}
    <2>1. \A f \in Frames : k.map[f] # a
        BY <1>0 DEF KernelRight, Mapped, Points
    <2>2. Spare(k, a)
        BY <2>1 DEF Spare, HasSpare
    <2> QED  BY <2>2, FreedKeeps
<1> HIDE DEF kf
<1>2. kf \in Kernels /\ PagesOnly(kf)
    BY <1>1 DEF KernelRight
<1>3. kf.map[a[1]] # NULL
    BY <1>1, RightFields
<1>4. ~Entry(kf, a).present
    BY <1>1 DEF SameView
<1>5. ASSUME NEW f \in Frames, NEW v, kf.map[f] = NULL, Takes(kf, k2, f, a, a, v)
      PROVE  NewPage(k, k2, D, T, a) /\ Held(k2, a) = v
    <2>1. NewPage(kf, k2, D, T, a) /\ Held(k2, a) = v
        BY <1>1, <1>4, <1>5, TakePage
    <2> QED  BY <1>1, <2>1 DEF NewPage, SameView
<1>6. ASSUME k2 = Map(k, a, a) PROVE NewPage(k, k2, D, T, a) /\ Held(k2, a) = 0
    <2>1. PICK f \in Frames : kf.map[f] = NULL /\ Takes(kf, k2, f, a, a, 0)
        BY <1>0, <1>1, <1>2, <1>3, <1>6, MapTakes DEF kf
    <2> QED  BY <1>5, <2>1
<1>7. ASSUME k2 = Fault(k, a, a) PROVE NewPage(k, k2, D, T, a) /\ Held(k2, a) = Held(k, a)
    <2> DEFINE v == IF kf.swap[a] # NULL THEN kf.swap[a].value ELSE 0
    <2>1. PICK f \in Frames : kf.map[f] = NULL /\ Takes(kf, k2, f, a, a, v)
        BY <1>0, <1>1, <1>2, <1>3, <1>7, FaultTakes DEF kf
    <2>2. v = Held(kf, a)
        BY <1>4 DEF Held
    <2>3. Held(kf, a) = Held(k, a)
        BY <1>1 DEF SameView
    <2> HIDE DEF v
    <2> QED  BY <1>5, <2>1, <2>2, <2>3
<1> QED  BY <1>6, <1>7

\* A frame for a directory, none of whose entries is present.
LEMMA NewDirectory ==
    ASSUME NEW D, NEW T, NEW k, KernelRight(k, D, T), HasSpare(k),
           NEW r, r = ask_kernel_for_frame(k, NULL)
    PROVE  /\ KernelRight(r.k, D \union {r.frame}, T)
           /\ r.frame \in Frames /\ r.frame \notin D /\ r.frame \notin T
           /\ \A i \in Index : ~Entry(r.k, <<r.frame, i>>).present
           /\ \A b \in D \X Index : Entry(r.k, b) = Entry(k, b)
           /\ \A b \in T \X Index : Held(r.k, b) = Held(k, b)
           /\ \A b \in PteAddrs : b[1] \notin T => r.k.swap[b] = k.swap[b]
<1> DEFINE kf == Freed(k, NULL)
           f == r.frame
           k2 == r.k
<1>1. KernelRight(kf, D, T) /\ SameView(k, kf, D, T) /\ FreeFrames(kf) # {}
    BY FreedKeeps DEF Spare, HasSpare
<1>2. kf \in Kernels
    BY <1>1 DEF KernelRight
<1>3. /\ f \in Frames /\ kf.map[f] = NULL
      /\ k2 \in Kernels /\ k2.swap = kf.swap
      /\ k2.map = [kf.map EXCEPT ![f] = RESERVED]
      /\ k2.mem[f] = ZeroFrame
      /\ \A g \in Frames : g # f => k2.mem[g] = kf.mem[g]
    BY <1>1, <1>2, AskHas
<1> HIDE DEF kf, f, k2
<1>4. /\ D \subseteq Frames /\ T \subseteq Frames /\ D \intersect T = {}
      /\ kf.map \in [Frames -> {NULL, RESERVED} \union PteAddrs]
      /\ f \notin D /\ f \notin T
      /\ \A b \in D \X Index : b \in PteAddrs /\ b[1] \in D
      /\ \A b \in T \X Index : b \in PteAddrs /\ b[1] \in T /\ Entry(kf, b).base \in Frames
      /\ \A b \in T \X Index : ~Points(kf, b, f)
    BY <1>1, <1>3, RightFields DEF Entries
<1>5. k2.map[f] = RESERVED /\ \A g \in Frames : g # f => k2.map[g] = kf.map[g]
    BY <1>3, <1>4
<1>6. \A b \in PteAddrs : b[1] # f => Entry(k2, b) = Entry(kf, b)
    BY <1>3 DEF Entry, PteAddrs
<1>7. \A b \in PteAddrs : b[1] = f => ~Entry(k2, b).present
    BY <1>3, Constants DEF NoTable, Entry, PteAddrs
<1>8. Reserves(k2, D \union {f}, T)
    BY <1>1, <1>3, <1>4, <1>5 DEF KernelRight, Reserves
<1>9. Directories(k2, D \union {f}, T)
    <2>1. ASSUME NEW b \in (D \union {f}) \X Index, NEW t \in Frames
          PROVE  Points(k2, b, t) <=> (b \in D \X Index /\ Points(kf, b, t))
        <3>1. b \in PteAddrs /\ (b \in D \X Index <=> b[1] # f)
            BY <1>3, <1>4 DEF PteAddrs
        <3> QED  BY <1>6, <1>7, <3>1 DEF Points
    <2>2. /\ \A t \in Frames : t \in T <=> \E b \in D \X Index : Points(kf, b, t)
          /\ \A b, c \in D \X Index, t \in Frames : Points(kf, b, t) /\ Points(kf, c, t) => b = c
        BY <1>1 DEF KernelRight, Directories
    <2>3. D \X Index \subseteq (D \union {f}) \X Index
        OBVIOUS
    <2>4. \A t \in Frames : t \in T <=> \E b \in (D \union {f}) \X Index : Points(k2, b, t)
        BY <2>1, <2>2, <2>3
    <2>5. \A b, c \in (D \union {f}) \X Index, t \in Frames :
                Points(k2, b, t) /\ Points(k2, c, t) => b = c
        BY <2>1, <2>2
    <2> QED  BY <2>4, <2>5 DEF Directories
<1>10. Mapped(k2, T)
    <2> SUFFICES ASSUME NEW g \in Frames, NEW b \in PteAddrs
                 PROVE  k2.map[g] = b <=> (b[1] \in T /\ Points(k2, b, g))
        BY DEF Mapped
    <2>1. kf.map[g] = b <=> (b[1] \in T /\ Points(kf, b, g))
        BY <1>1 DEF KernelRight, Mapped
    <2>2. k2.map[g] = b <=> kf.map[g] = b
        BY <1>3, <1>5, Constants
    <2>3. b[1] \in T => (Points(k2, b, g) <=> Points(kf, b, g))
        BY <1>4, <1>6 DEF Points
    <2> QED  BY <2>1, <2>2, <2>3
<1>11. PagesOnly(k2)
    <2>1. ASSUME NEW g \in Frames, k2.map[g] \in PteAddrs PROVE NoTable(k2.mem[g])
        <3>1. g # f /\ kf.map[g] \in PteAddrs
            BY <1>5, <2>1, Constants
        <3> QED  BY <1>1, <1>3, <3>1 DEF KernelRight, PagesOnly
    <2> QED  BY <1>1, <1>3, <2>1 DEF KernelRight, PagesOnly
<1>12. ASSUME NEW b \in T \X Index PROVE Held(k2, b) = Held(kf, b)
    <2>1. Entry(k2, b) = Entry(kf, b) /\ k2.swap[b] = kf.swap[b] /\ Entry(kf, b).base \in Frames
        BY <1>3, <1>4, <1>6
    <2>2. Entry(kf, b).present => Entry(kf, b).base # f
        BY <1>4 DEF Points
    <2> QED  BY <1>3, <2>1, <2>2 DEF Held
<1>13. KernelRight(k2, D \union {f}, T)
    BY <1>3, <1>8, <1>9, <1>10, <1>11 DEF KernelRight
<1>14. \A i \in Index : ~Entry(k2, <<f, i>>).present
    BY <1>3, <1>7 DEF PteAddrs
<1>15. /\ \A b \in D \X Index : Entry(k2, b) = Entry(k, b)
       /\ \A b \in T \X Index : Held(k2, b) = Held(k, b)
       /\ \A b \in PteAddrs : b[1] \notin T => k2.swap[b] = k.swap[b]
    BY <1>1, <1>3, <1>4, <1>6, <1>12 DEF SameView
<1> QED  BY <1>3, <1>4, <1>13, <1>14, <1>15 DEF f, k2


\* A value is written to the page of the entry at a.
Store(k, f, v) == [k EXCEPT !.mem[f].value = v]

LEMMA PageStored ==
    ASSUME NEW D, NEW T, NEW k, KernelRight(k, D, T),
           NEW a \in T \X Index, NEW f \in Frames, Points(k, a, f), NEW v \in Values,
           NEW k2, k2 = Store(k, f, v)
    PROVE  /\ KernelRight(k2, D, T) /\ k2.swap = k.swap
           /\ \A b \in PteAddrs : Entry(k2, b) = Entry(k, b)
           /\ \A b \in T \X Index : b # a => Held(k2, b) = Held(k, b)
           /\ Held(k2, a) = v
<1>1. /\ k \in Kernels /\ k.mem \in [Frames -> Contents]
      /\ \A b \in T \X Index : b \in PteAddrs /\ Entry(k, b).base \in Frames
      /\ \A b \in T \X Index : b[1] \in T
    BY RightFields DEF Entries
<1> DEFINE c == [k.mem[f] EXCEPT !.value = v]
<1>2. c \in Contents /\ c.table = k.mem[f].table /\ c.value = v
    BY <1>1 DEF Contents
<1>3. k2 = SetFrame(k, f, c)
    BY DEF Store, SetFrame
<1> HIDE DEF c
<1>0. k \in Kernels /\ c \in Contents
    BY <1>1, <1>2
<1>4. /\ k2 \in Kernels /\ k2.map = k.map /\ k2.swap = k.swap
      /\ k2.mem[f] = c
      /\ \A g \in Frames : g # f => k2.mem[g] = k.mem[g]
    BY <1>0, <1>3, SetFrameHas
<1>5. \A g \in Frames : k2.mem[g].table = k.mem[g].table
    BY <1>2, <1>4
<1>6. \A b \in PteAddrs : Entry(k2, b) = Entry(k, b)
    BY <1>5 DEF Entry, PteAddrs
<1>7. Reserves(k2, D, T) /\ Mapped(k2, T)
    BY <1>4, <1>6 DEF KernelRight, Reserves, Mapped, Points
<1>8. Directories(k2, D, T)
    <2>1. \A b \in D \X Index : Entry(k2, b) = Entry(k, b)
        BY <1>6, RightFields
    <2> QED  BY <2>1 DEF KernelRight, Directories, Points
<1>9. PagesOnly(k2)
    BY <1>4, <1>5 DEF KernelRight, PagesOnly, NoTable
<1>10. ASSUME NEW b \in T \X Index, b # a PROVE Held(k2, b) = Held(k, b)
    <2>1. b \in PteAddrs /\ a \in PteAddrs /\ Entry(k, b).base \in Frames /\ b[1] \in T
          /\ a[1] \in T
        BY <1>1
    <2>2. ~Points(k, b, f)
        BY <1>10, <2>1 DEF KernelRight, Mapped
    <2>3. Entry(k, b).present => Entry(k, b).base # f
        BY <2>2 DEF Points
    <2> QED  BY <1>4, <1>6, <2>1, <2>3 DEF Held
<1>11. Held(k2, a) = v
    <2>1. Entry(k2, a) = Entry(k, a)
        BY <1>1, <1>6
    <2> QED  BY <1>2, <1>4, <2>1 DEF Held, Points
<1> QED  BY <1>4, <1>6, <1>7, <1>8, <1>9, <1>10, <1>11 DEF KernelRight

\* The tables that directories point to.
TablesIn(k, D) == {t \in Frames : \E b \in D \X Index : Points(k, b, t)}

LEMMA TablesAre ==
    ASSUME NEW D, NEW T, NEW k, KernelRight(k, D, T)
    PROVE  TablesIn(k, D) = T
BY DEF KernelRight, Directories, Reserves, TablesIn

\* The frames that belong to the directories X.
Belong(k, X) ==
    X \union TablesIn(k, X)
      \union {f \in Frames : \E b \in TablesIn(k, X) \X Index : Points(k, b, f)}

\* The frames of some processes go back to the kernel, with or without the files.
LEMMA FramesReturned ==
    ASSUME NEW D, NEW T, NEW k, KernelRight(k, D, T), NEW X \in SUBSET D,
           NEW k2 \in Kernels, k2.mem = k.mem,
           k2.map = [f \in Frames |-> IF f \in Belong(k, X) THEN NULL ELSE k.map[f]],
           \A a \in PteAddrs : k2.swap[a] \in {NULL, k.swap[a]}
    PROVE  /\ KernelRight(k2, D \ X, T \ TablesIn(k, X))
           /\ \A b : Entry(k2, b) = Entry(k, b)
<1> DEFINE TX == TablesIn(k, X)
           F == Belong(k, X)
<1>1. /\ D \subseteq Frames /\ T \subseteq Frames /\ D \intersect T = {}
      /\ \A f \in Frames : k.map[f] = RESERVED <=> f \in D \union T
      /\ \A t \in Frames : t \in T <=> \E b \in D \X Index : Points(k, b, t)
      /\ \A b, c \in D \X Index, t \in Frames : Points(k, b, t) /\ Points(k, c, t) => b = c
      /\ \A f \in Frames, a \in PteAddrs : k.map[f] = a <=> (a[1] \in T /\ Points(k, a, f))
    BY DEF KernelRight, Reserves, Directories, Mapped
<1>2. \A b : Entry(k2, b) = Entry(k, b)
    BY DEF Entry
<1>3. \A b, f : Points(k2, b, f) <=> Points(k, b, f)
    BY <1>2 DEF Points
<1>4. TX \subseteq T /\ TX \subseteq Frames /\ \A t \in TX : \E b \in X \X Index : Points(k, b, t)
    BY <1>1 DEF TablesIn
<1>5. \A f \in Frames : f \in F <=> \/ f \in X \/ f \in TX
                                   \/ \E b \in TX \X Index : Points(k, b, f)
    BY DEF Belong
<1>6. \A f \in Frames : k2.map[f] = IF f \in F THEN NULL ELSE k.map[f]
    OBVIOUS
<1>7. ASSUME NEW f \in Frames, NEW b \in TX \X Index, Points(k, b, f) PROVE k.map[f] = b
    <2>1. b \in PteAddrs /\ b[1] \in T
        BY <1>4 DEF PteAddrs
    <2> QED  BY <1>1, <1>7, <2>1
<1>8. \A b \in TX \X Index : b \in PteAddrs /\ b[1] \in TX
    BY <1>4 DEF PteAddrs
<1> HIDE DEF TX, F
<1>9. Reserves(k2, D \ X, T \ TX)
    <2>1. ASSUME NEW f \in Frames
          PROVE  k2.map[f] = RESERVED <=> f \in (D \ X) \union (T \ TX)
        <3>1. CASE f \in X \union TX
            <4>1. k2.map[f] = NULL
                BY <1>5, <1>6, <3>1
            <4>2. f \notin (D \ X) \union (T \ TX)
                BY <1>1, <1>4, <3>1
            <4> QED  BY <4>1, <4>2, Constants
        <3>2. CASE f \notin X \union TX
            <4>1. f \in F => k.map[f] \in PteAddrs
                BY <1>5, <1>7, <1>8, <3>2
            <4> QED  BY <1>1, <1>6, <3>2, <4>1, Constants
        <3> QED  BY <3>1, <3>2
    <2> QED  BY <1>1, <2>1 DEF Reserves
<1>10. Directories(k2, D \ X, T \ TX)
    <2>1. ASSUME NEW t \in T \ TX PROVE \E b \in (D \ X) \X Index : Points(k, b, t)
        <3>1. PICK b \in D \X Index : Points(k, b, t)
            BY <1>1
        <3>2. b \notin X \X Index
            BY <1>1, <3>1 DEF TX, TablesIn
        <3>3. b \in (D \ X) \X Index
            BY <3>2
        <3> QED  BY <3>1, <3>3
    <2>2. ASSUME NEW t \in Frames, NEW b \in (D \ X) \X Index, Points(k, b, t)
          PROVE  t \in T \ TX
        <3>1. b \in D \X Index
            OBVIOUS
        <3>2. t \in T
            BY <1>1, <2>2, <3>1
        <3>3. ASSUME t \in TX PROVE FALSE
            <4>1. PICK c \in X \X Index : Points(k, c, t)
                BY <1>4, <3>3
            <4>2. c \in D \X Index
                OBVIOUS
            <4>3. b = c
                BY <1>1, <2>2, <3>1, <4>1, <4>2
            <4> QED  BY <4>3
        <3> QED  BY <3>2, <3>3
    <2>3. \A b, c \in (D \ X) \X Index, t \in Frames : Points(k, b, t) /\ Points(k, c, t) => b = c
        BY <1>1
    <2> QED  BY <1>3, <2>1, <2>2, <2>3 DEF Directories
<1>11. Mapped(k2, T \ TX)
    <2> SUFFICES ASSUME NEW f \in Frames, NEW a \in PteAddrs
                 PROVE  k2.map[f] = a <=> (a[1] \in T \ TX /\ Points(k, a, f))
        BY <1>3 DEF Mapped
    <2>1. a[1] \in TX /\ Points(k, a, f) => f \in F
        <3>1. a[1] \in TX => a \in TX \X Index
            BY DEF PteAddrs
        <3> QED  BY <1>5, <3>1
    <2>2. ASSUME a[1] \in T \ TX, Points(k, a, f), f \in F PROVE FALSE
        <3>1. k.map[f] = a
            BY <1>1, <2>2
        <3>2. f \notin X /\ f \notin TX
            BY <1>1, <1>4, <3>1, Constants
        <3>3. PICK b \in TX \X Index : Points(k, b, f)
            BY <1>5, <2>2, <3>2
        <3>4. b = a
            BY <1>7, <3>1, <3>3
        <3> QED  BY <1>8, <2>2, <3>4
    <2>3. k.map[f] = a <=> (a[1] \in T /\ Points(k, a, f))
        BY <1>1
    <2> QED  BY <1>6, <2>1, <2>2, <2>3, Constants
<1>12. PagesOnly(k2)
    BY <1>6, Constants DEF KernelRight, PagesOnly
<1> QED  BY <1>2, <1>9, <1>10, <1>11, <1>12 DEF KernelRight, TX

LEMMA TablesFinite ==
    ASSUME NEW D, NEW T, NEW k, KernelRight(k, D, T)
    PROVE  IsFiniteSet(D \union T)
<1>1. IsFiniteSet(Frames)
    <2>1. 0 \in Int /\ NUM_PHYSICAL_PAGES - 1 \in Int
        BY MmuAssumption
    <2> QED  BY <2>1, FS_Interval DEF Frames
<1>2. D \union T \subseteq Frames
    BY DEF KernelRight, Reserves
<1> QED  BY <1>1, <1>2, FS_Subset

\* Tables leave room for pages.
LEMMA RoomForPages ==
    ASSUME NEW D, NEW T, NEW k, KernelRight(k, D, T)
    PROVE  /\ Cardinality(D \union T) \in Nat
           /\ Cardinality(D \union T) < NUM_PHYSICAL_PAGES => HasSpare(k)
           /\ \A t \in Frames : t \notin D \union T =>
                 Cardinality((D \union T) \union {t}) = Cardinality(D \union T) + 1
<1>1. IsFiniteSet(Frames) /\ Cardinality(Frames) = NUM_PHYSICAL_PAGES
    <2>1. 0 \in Int /\ NUM_PHYSICAL_PAGES - 1 \in Int
        BY MmuAssumption
    <2> QED  BY <2>1, FS_Interval, MmuAssumption DEF Frames
<1>2. D \union T \subseteq Frames /\ \A f \in Frames : k.map[f] = RESERVED <=> f \in D \union T
    BY DEF KernelRight, Reserves
<1>3. IsFiniteSet(D \union T) /\ Cardinality(D \union T) \in Nat
    BY <1>1, <1>2, FS_Subset, FS_CardinalityType
<1>4. Cardinality(D \union T) < NUM_PHYSICAL_PAGES => D \union T # Frames
    BY <1>1, <1>3
<1>5. \A t \in Frames : t \notin D \union T =>
                 Cardinality((D \union T) \union {t}) = Cardinality(D \union T) + 1
    BY <1>3, FS_AddElement
<1> QED  BY <1>2, <1>3, <1>4, <1>5 DEF HasSpare


-----------------------------------------------------------------------------
(* An access, on the kernel.                                                 *)

\* From k to k2 the table that the directory's entry pde points to has come into
\* being, unless it was there.
TableThere(k, k2, D, T, T2, pde) ==
    /\ KernelRight(k2, D, T2) /\ T \subseteq T2
    /\ Entry(k2, pde).present /\ Entry(k2, pde).base \in T2
    /\ Entry(k, pde).present => T2 = T /\ Entry(k2, pde) = Entry(k, pde)
    /\ ~Entry(k, pde).present => /\ Entry(k2, pde).base \notin D \union T
                                 /\ T2 = T \union {Entry(k2, pde).base}
    /\ \A b \in D \X Index : b # pde => Entry(k2, b) = Entry(k, b)
    /\ \A b \in PteAddrs : b[1] \notin T2 => k2.swap[b] = k.swap[b]

\* What the entries hold, but for the one at a.
HeldBut(k, k2, T, T2, a) ==
    /\ \A b \in T \X Index : b # a => Held(k2, b) = Held(k, b)
    /\ \A b \in T2 \X Index : b # a /\ b[1] \notin T /\ k.swap[b] = NULL => Held(k2, b) = 0

\* At a there is the value v, or with v = 0 what was there.
HeldAt(k, k2, T, a, v) ==
    /\ v # 0 => Held(k2, a) = v
    /\ v = 0 /\ a[1] \in T => Held(k2, a) = Held(k, a)
    /\ v = 0 /\ a[1] \notin T /\ k.swap[a] = NULL => Held(k2, a) = 0

\* From k to k2 the page j of the table at pde has been read, or written if v # 0.
Reached(k, k2, D, T, T2, pde, j, pte, v) ==
    /\ TableThere(k, k2, D, T, T2, pde) /\ HeldBut(k, k2, T, T2, pte)
    /\ pte = <<Entry(k2, pde).base, j>> /\ HeldAt(k, k2, T, pte, v)

LEMMA AccessKernel ==
    ASSUME NEW D, NEW T, NEW k, KernelRight(k, D, T),
           NEW pde \in D \X Index, NEW j \in Index,
           Cardinality(D \union T) + (IF Entry(k, pde).present THEN 0 ELSE 1)
                < NUM_PHYSICAL_PAGES,
           NEW k1, k1 = IF Entry(k, pde).present THEN k ELSE Fault(k, pde, NULL),
           NEW pte, pte = <<Entry(k1, pde).base, j>>,
           NEW k2, k2 = Resident(k1, pte),
           NEW v \in Values \union {0},
           NEW k3, k3 = IF v = 0 THEN k2 ELSE Store(k2, Entry(k2, pte).base, v)
    PROVE  \E T2 \in SUBSET Frames :
              Reached(k, k3, D, T, T2, pde, j, pte, v)
<1>0. Cardinality(D \union T) \in Nat /\ HasSpare(k)
    <2>1. Cardinality(D \union T) \in Nat
        BY RoomForPages
    <2>2. Cardinality(D \union T) < NUM_PHYSICAL_PAGES
        BY <2>1, MmuAssumption
    <2> QED  BY <2>1, <2>2, RoomForPages
<1>1. PICK T2 \in SUBSET Frames :
        /\ TableThere(k, k1, D, T, T2, pde) /\ HasSpare(k1)
        /\ \A b \in T \X Index : Held(k1, b) = Held(k, b)
        /\ \A b \in T2 \X Index : b[1] \notin T /\ k.swap[b] = NULL => Held(k1, b) = 0
    <2>1. CASE Entry(k, pde).present
        <3>1. Entry(k, pde).base \in Frames
            BY RightFields DEF Entries
        <3>2. Entry(k, pde).base \in T
            BY <2>1, <3>1 DEF KernelRight, Directories, Points
        <3>3. k1 = k /\ T \in SUBSET Frames
            BY <2>1, RightFields
        <3>4. TableThere(k, k1, D, T, T, pde)
            BY <2>1, <3>2, <3>3 DEF TableThere
        <3>5. \A b \in T \X Index : b[1] \in T
            OBVIOUS
        <3> QED  BY <1>0, <3>3, <3>4, <3>5
    <2>2. CASE ~Entry(k, pde).present
        <3>1. PICK t \in Frames : NewTable(k, k1, D, T, pde, t)
            BY <1>0, <2>2, TableMapped
        <3> DEFINE T2 == T \union {t}
        <3>2. /\ KernelRight(k1, D, T2) /\ t \notin D /\ t \notin T /\ Points(k1, pde, t)
              /\ \A b \in D \X Index : b # pde => Entry(k1, b) = Entry(k, b)
              /\ \A b \in T \X Index : Held(k1, b) = Held(k, b)
              /\ \A b \in PteAddrs : b[1] \notin T => k1.swap[b] = k.swap[b]
              /\ \A i \in Index : k.swap[<<t, i>>] = NULL => Held(k1, <<t, i>>) = 0
            BY <3>1, Zenon DEF NewTable
        <3>3. Entry(k1, pde).present /\ Entry(k1, pde).base = t
            BY <3>2 DEF Points
        <3>4. T2 \in SUBSET Frames
            BY <3>2, RightFields
        <3>5. TableThere(k, k1, D, T, T2, pde)
            BY <2>2, <3>2, <3>3 DEF TableThere
        <3>6. Cardinality(D \union T2) < NUM_PHYSICAL_PAGES
            <4>1. (D \union T) \union {t} = D \union T2
                OBVIOUS
            <4>2. Cardinality(D \union T2) = Cardinality(D \union T) + 1
                BY <3>2, <4>1, RoomForPages
            <4> QED  BY <1>0, <2>2, <4>2
        <3>7. HasSpare(k1)
            BY <3>2, <3>6, RoomForPages
        <3>8. ASSUME NEW b \in T2 \X Index, b[1] \notin T, k.swap[b] = NULL PROVE Held(k1, b) = 0
            <4>1. b = <<t, b[2]>> /\ b[2] \in Index
                BY <3>8
            <4> QED  BY <3>2, <3>8, <4>1
        <3> HIDE DEF T2
        <3> QED  BY <3>2, <3>4, <3>5, <3>7, <3>8
    <2> QED  BY <2>1, <2>2
<1>2. /\ KernelRight(k1, D, T2) /\ pte \in T2 \X Index /\ pte[1] = Entry(k1, pde).base
      /\ D \subseteq Frames /\ D \intersect T2 = {} /\ \A b \in D \X Index : b \in PteAddrs
    <2>1. KernelRight(k1, D, T2) /\ Entry(k1, pde).base \in T2
        BY <1>1 DEF TableThere
    <2> QED  BY <2>1, RightFields
<1>3. /\ KernelRight(k2, D, T2) /\ Entry(k2, pte).present /\ Entry(k2, pte).base \in Frames
      /\ \A b \in D \X Index : Entry(k2, b) = Entry(k1, b)
      /\ \A b \in T2 \X Index : Held(k2, b) = Held(k1, b)
      /\ \A b \in PteAddrs : b[1] \notin T2 => k2.swap[b] = k1.swap[b]
    <2>1. CASE Entry(k1, pte).present
        BY <1>2, <2>1, RightFields DEF Resident, Entries
    <2>2. CASE ~Entry(k1, pte).present
        <3>1. k2 = Fault(k1, pte, pte)
            BY <2>2 DEF Resident
        <3>2. NewPage(k1, k2, D, T2, pte) /\ Held(k2, pte) = Held(k1, pte)
            BY <1>1, <1>2, <2>2, <3>1, PageMapped
        <3> QED  BY <3>2 DEF NewPage
    <2> QED  BY <2>1, <2>2
<1>4. /\ KernelRight(k3, D, T2)
      /\ \A b \in D \X Index : Entry(k3, b) = Entry(k2, b)
      /\ \A b \in T2 \X Index : b # pte => Held(k3, b) = Held(k2, b)
      /\ k3.swap = k2.swap
      /\ v # 0 => Held(k3, pte) = v
      /\ v = 0 => Held(k3, pte) = Held(k2, pte)
    <2>1. CASE v = 0
        BY <1>3, <2>1
    <2>2. CASE v # 0
        <3> DEFINE f == Entry(k2, pte).base
        <3>1. Points(k2, pte, f) /\ f \in Frames /\ v \in Values /\ k3 = Store(k2, f, v)
            BY <1>3, <2>2 DEF Points
        <3> HIDE DEF f
        <3>2. KernelRight(k2, D, T2)
            BY <1>3
        <3>3. /\ KernelRight(k3, D, T2) /\ k3.swap = k2.swap
              /\ \A b \in PteAddrs : Entry(k3, b) = Entry(k2, b)
              /\ \A b \in T2 \X Index : b # pte => Held(k3, b) = Held(k2, b)
              /\ Held(k3, pte) = v
            BY <1>2, <3>1, <3>2, PageStored
        <3> QED  BY <1>2, <2>2, <3>3
    <2> QED  BY <2>1, <2>2
<1>5. TableThere(k, k3, D, T, T2, pde)
    <2>1. \A b \in D \X Index : Entry(k3, b) = Entry(k1, b)
        BY <1>3, <1>4
    <2>2. \A b \in PteAddrs : b[1] \notin T2 => k3.swap[b] = k1.swap[b]
        BY <1>3, <1>4
    <2>3. TableThere(k, k1, D, T, T2, pde) /\ KernelRight(k3, D, T2)
        BY <1>1, <1>4
    <2>4. Entry(k3, pde) = Entry(k1, pde)
        BY <2>1
    <2> QED  BY <2>1, <2>2, <2>3, <2>4, ZenonT(40) DEF TableThere
<1>6. \A b \in T \X Index : b \in T2 \X Index
    BY <1>1 DEF TableThere
<1>7. HeldBut(k, k3, T, T2, pte)
    BY <1>1, <1>3, <1>4, <1>6 DEF HeldBut
<1>8. Entry(k3, pde) = Entry(k1, pde)
    BY <1>3, <1>4
<1>9. v = 0 => /\ pte[1] \in T => Held(k3, pte) = Held(k, pte)
               /\ pte[1] \notin T /\ k.swap[pte] = NULL => Held(k3, pte) = 0
    <2>1. pte[1] \in T => pte \in T \X Index
        BY <1>2
    <2> QED  BY <1>1, <1>2, <1>3, <1>4, <2>1
<1>10. HeldAt(k, k3, T, pte, v)
    BY <1>4, <1>9 DEF HeldAt
<1>11. pte = <<Entry(k3, pde).base, j>>
    BY <1>8
<1>12. Reached(k, k3, D, T, T2, pde, j, pte, v)
    BY <1>5, <1>7, <1>10, <1>11 DEF Reached
<1> QED  BY <1>12


-----------------------------------------------------------------------------
(* A new process, on the kernel: a directory x, a table t and two pages.     *)

Added(k, k2, D, T, x, t) ==
    /\ x \in Frames /\ t \in Frames /\ x \notin D \union T /\ t \notin D \union T /\ x # t
    /\ KernelRight(k2, D \union {x}, T \union {t})
    /\ \A b \in D \X Index : Entry(k2, b) = Entry(k, b)
    /\ Points(k2, <<x, 0>>, t)
    /\ \A i \in Index \ {0} : ~Entry(k2, <<x, i>>).present
    /\ \A b \in T \X Index : Held(k2, b) = Held(k, b)
    /\ \A i \in Index : k.swap[<<t, i>>] = NULL => Held(k2, <<t, i>>) = 0
    /\ \A b \in PteAddrs : b[1] \notin T \union {t} => k2.swap[b] = k.swap[b]

LEMMA AddKernel ==
    ASSUME NEW D, NEW T, NEW k, KernelRight(k, D, T),
           Cardinality(D \union T) + 2 < NUM_PHYSICAL_PAGES,
           NEW r, r = ask_kernel_for_frame(k, NULL),
           NEW k1, k1 = Map(r.k, <<r.frame, 0>>, NULL),
           NEW t, t = Entry(k1, <<r.frame, 0>>).base,
           NEW k2, k2 = Map(k1, <<t, 1>>, <<t, 1>>),
           NEW k3, k3 = Map(k2, <<t, 2>>, <<t, 2>>)
    PROVE  Added(k, k3, D, T, r.frame, t)
<1> DEFINE x == r.frame
           kr == r.k
           D2 == D \union {x}
           T2 == T \union {t}
<1>0. Index = {0, 1, 2}
    BY Constants
<1>1. Cardinality(D \union T) \in Nat /\ HasSpare(k)
    <2>1. Cardinality(D \union T) \in Nat
        BY RoomForPages
    <2>2. Cardinality(D \union T) < NUM_PHYSICAL_PAGES
        BY <2>1, MmuAssumption
    <2> QED  BY <2>1, <2>2, RoomForPages
<1>2. /\ KernelRight(kr, D2, T)
      /\ x \in Frames /\ x \notin D /\ x \notin T
      /\ \A i \in Index : ~Entry(kr, <<x, i>>).present
      /\ \A b \in D \X Index : Entry(kr, b) = Entry(k, b)
      /\ \A b \in T \X Index : Held(kr, b) = Held(k, b)
      /\ \A b \in PteAddrs : b[1] \notin T => kr.swap[b] = k.swap[b]
    BY <1>1, NewDirectory
<1>3. /\ k1 = Map(kr, <<x, 0>>, NULL) /\ t = Entry(k1, <<x, 0>>).base
      /\ D2 = D \union {x}
    OBVIOUS
<1> HIDE DEF x, kr, D2
<1>4. Cardinality(D2 \union T) = Cardinality(D \union T) + 1
    <2>1. (D \union T) \union {x} = D2 \union T
        BY <1>3
    <2> QED  BY <1>2, <2>1, RoomForPages
<1>5. HasSpare(kr)
    <2>1. Cardinality(D2 \union T) < NUM_PHYSICAL_PAGES
        BY <1>1, <1>4, MmuAssumption
    <2> QED  BY <1>2, <2>1, RoomForPages
<1>6. NewTable(kr, k1, D2, T, <<x, 0>>, t)
    <2>1. <<x, 0>> \in D2 \X Index /\ ~Entry(kr, <<x, 0>>).present
        BY <1>0, <1>2, <1>3
    <2>2. PICK u \in Frames : NewTable(kr, k1, D2, T, <<x, 0>>, u)
        BY <1>2, <1>3, <1>5, <2>1, TableMapped
    <2>3. u = t
        BY <1>3, <2>2 DEF NewTable, Points
    <2> QED  BY <2>2, <2>3
<1>7. /\ KernelRight(k1, D2, T2) /\ t \notin D2 /\ t \notin T /\ Points(k1, <<x, 0>>, t)
      /\ \A b \in D2 \X Index : b # <<x, 0>> => Entry(k1, b) = Entry(kr, b)
      /\ \A b \in T \X Index : Held(k1, b) = Held(kr, b)
      /\ \A b \in PteAddrs : b[1] \notin T => k1.swap[b] = kr.swap[b]
      /\ \A i \in Index : /\ ~Entry(k1, <<t, i>>).present
                          /\ kr.swap[<<t, i>>] = NULL => Held(k1, <<t, i>>) = 0
    BY <1>6 DEF NewTable
<1>8. T2 \subseteq Frames /\ t \in Frames /\ T2 = T \union {t}
    <2>1. KernelRight(k1, D2, T2)
        BY <1>7
    <2> QED  BY <2>1, RightFields
<1> HIDE DEF T2
<1>9. Cardinality(D2 \union T2) < NUM_PHYSICAL_PAGES
    <2>1. (D2 \union T) \union {t} = D2 \union T2
        BY <1>8
    <2>2. Cardinality(D2 \union T2) = Cardinality(D2 \union T) + 1
        BY <1>2, <1>7, <1>8, <2>1, RoomForPages
    <2> QED  BY <1>1, <1>4, <2>2, MmuAssumption
<1>10. <<t, 1>> \in T2 \X Index /\ <<t, 2>> \in T2 \X Index /\ <<t, 1>> # <<t, 2>>
    BY <1>0, <1>8
<1>11. NewPage(k1, k2, D2, T2, <<t, 1>>) /\ Held(k2, <<t, 1>>) = 0
    <2>1. HasSpare(k1) /\ ~Entry(k1, <<t, 1>>).present
        BY <1>0, <1>7, <1>9, RoomForPages
    <2> QED  BY <1>7, <1>10, <2>1, PageMapped
<1>12. NewPage(k2, k3, D2, T2, <<t, 2>>) /\ Held(k3, <<t, 2>>) = 0
    <2>0. KernelRight(k2, D2, T2)
        BY <1>11 DEF NewPage
    <2>1. HasSpare(k2)
        BY <1>9, <2>0, RoomForPages
    <2>2. ~Entry(k2, <<t, 2>>).present
        BY <1>0, <1>7, <1>10, <1>11, SMTT(30) DEF NewPage
    <2> QED  BY <1>10, <2>0, <2>1, <2>2, PageMapped
<1> DEFINE p1 == <<t, 1>>
           p2 == <<t, 2>>
<1> HIDE DEF p1, p2
<1>13. /\ NewPage(k1, k2, D2, T2, p1) /\ Held(k2, p1) = 0
      /\ NewPage(k2, k3, D2, T2, p2) /\ Held(k3, p2) = 0
      /\ p1 # p2 /\ p1 \in T2 \X Index
    BY <1>10, <1>11, <1>12 DEF p1, p2
<1>14. /\ KernelRight(k3, D2, T2)
       /\ \A b \in D2 \X Index : Entry(k3, b) = Entry(k1, b)
       /\ \A b \in PteAddrs : b[1] \notin T2 => k3.swap[b] = k1.swap[b]
    <2>1. KernelRight(k3, D2, T2)
        BY <1>13, Zenon DEF NewPage
    <2>2. ASSUME NEW b \in D2 \X Index PROVE Entry(k3, b) = Entry(k1, b)
        <3>1. Entry(k3, b) = Entry(k2, b)
            BY <1>13, Zenon DEF NewPage
        <3>2. Entry(k2, b) = Entry(k1, b)
            BY <1>13, Zenon DEF NewPage
        <3> QED  BY <3>1, <3>2, Zenon
    <2>3. ASSUME NEW b \in PteAddrs, b[1] \notin T2 PROVE k3.swap[b] = k1.swap[b]
        <3>1. k3.swap[b] = k2.swap[b]
            BY <1>13, <2>3, Zenon DEF NewPage
        <3>2. k2.swap[b] = k1.swap[b]
            BY <1>13, <2>3, Zenon DEF NewPage
        <3> QED  BY <3>1, <3>2, Zenon
    <2> QED  BY <2>1, <2>2, <2>3, Zenon
<1>15. \A b \in T2 \X Index : b # p1 /\ b # p2 => Held(k3, b) = Held(k1, b)
    <2> SUFFICES ASSUME NEW b \in T2 \X Index, b # p1, b # p2
                 PROVE  Held(k3, b) = Held(k1, b)
        BY Zenon
    <2>1. Held(k3, b) = Held(k2, b)
        BY <1>13, Zenon DEF NewPage
    <2>2. Held(k2, b) = Held(k1, b)
        BY <1>13, Zenon DEF NewPage
    <2> QED  BY <2>1, <2>2, Zenon
<1>16. \A b \in T2 \X Index : b # <<t, 1>> /\ b # <<t, 2>> => Held(k3, b) = Held(k1, b)
    BY <1>15, Zenon DEF p1, p2
<1>17. Held(k3, p1) = 0 /\ Held(k3, p2) = 0
    BY <1>13 DEF NewPage
<1>18. Held(k3, <<t, 1>>) = 0 /\ Held(k3, <<t, 2>>) = 0
    BY <1>17 DEF p1, p2
<1>19. /\ \A b \in D \X Index : Entry(k3, b) = Entry(k, b)
       /\ Points(k3, <<x, 0>>, t)
       /\ \A i \in Index \ {0} : ~Entry(k3, <<x, i>>).present
    <2>1. ASSUME NEW b \in D \X Index PROVE b \in D2 \X Index /\ b # <<x, 0>>
        BY <1>2, <1>3
    <2>2. <<x, 0>> \in D2 \X Index
        BY <1>0, <1>3
    <2>3. ASSUME NEW i \in Index \ {0} PROVE <<x, i>> \in D2 \X Index /\ <<x, i>> # <<x, 0>>
        BY <1>3
    <2>4. \A b \in D \X Index : Entry(k3, b) = Entry(k, b)
        BY <1>2, <1>7, <1>14, <2>1
    <2>5. Points(k3, <<x, 0>>, t)
        BY <1>7, <1>14, <2>2 DEF Points
    <2>6. \A i \in Index \ {0} : ~Entry(k3, <<x, i>>).present
        BY <1>2, <1>7, <1>14, <2>3, SMTT(30)
    <2> QED  BY <2>4, <2>5, <2>6
<1>20. ASSUME NEW b \in T \X Index PROVE Held(k3, b) = Held(k, b)
    <2>1. b \in T2 \X Index /\ b # <<t, 1>> /\ b # <<t, 2>>
        BY <1>7, <1>8
    <2> QED  BY <1>2, <1>7, <1>16, <2>1
<1>21. ASSUME NEW i \in Index, k.swap[<<t, i>>] = NULL PROVE Held(k3, <<t, i>>) = 0
    <2>1. CASE i \in {1, 2}
        BY <1>18, <2>1
    <2>2. CASE i = 0
        <3>1. <<t, i>> \in PteAddrs /\ <<t, i>>[1] = t
            BY <1>8 DEF PteAddrs
        <3>2. kr.swap[<<t, i>>] = NULL
            BY <1>2, <1>7, <1>21, <3>1
        <3>3. <<t, i>> \in T2 \X Index /\ <<t, i>> # <<t, 1>> /\ <<t, i>> # <<t, 2>>
            BY <1>8, <2>2
        <3> QED  BY <1>7, <1>16, <3>2, <3>3
    <2> QED  BY <1>0, <2>1, <2>2
<1>22. \A b \in PteAddrs : b[1] \notin T2 => k3.swap[b] = k.swap[b]
    <2> SUFFICES ASSUME NEW b \in PteAddrs, b[1] \notin T2 PROVE k3.swap[b] = k.swap[b]
        BY Zenon
    <2>1. b[1] \notin T
        BY <1>8
    <2>2. k3.swap[b] = k1.swap[b]
        BY <1>14, Zenon
    <2>3. k1.swap[b] = kr.swap[b]
        BY <1>7, <2>1, Zenon
    <2>4. kr.swap[b] = k.swap[b]
        BY <1>2, <2>1, Zenon
    <2> QED  BY <2>2, <2>3, <2>4, Zenon
<1>23. x \in Frames /\ t \in Frames /\ x \notin D \union T /\ t \notin D \union T /\ x # t
    BY <1>2, <1>3, <1>7, <1>8
<1>24. Added(k, k3, D, T, x, t)
    BY <1>3, <1>8, <1>14, <1>19, <1>20, <1>21, <1>22, <1>23 DEF Added
<1> QED  BY <1>24 DEF x


-----------------------------------------------------------------------------
(* The invariant.                                                            *)

Dirs == {page_directories[p] : p \in {q \in Pids : Live(q)}}
Tabs == TablesIn(kernel, Dirs)

\* The nodes a TLB of the current process may have.
Nodes == {n \in [page : Pages \union {0}, entry : PteAddrs \union {NULL}] :
            n.entry # NULL => /\ Live(curr_pid) /\ HasTable(curr_pid, n.page)
                              /\ n.entry = Pte(kernel, curr_pid, n.page)}

Types ==
    /\ page_directories \in [Pids -> Frames \union {NULL}]
    /\ written \in [Pids -> [Pages -> Values \union {0}]]
    /\ curr_pid \in Pids

DirsDistinct ==
    \A p, q \in Pids : Live(p) /\ page_directories[p] = page_directories[q] => p = q

\* The tables of live processes never take the last frame.
RoomLeft == Dirs # {} => Cardinality(Dirs \union Tabs) < NUM_PHYSICAL_PAGES

\* A swap file belongs to a live process or was left behind by a removed one.
SwapOwned == \A a \in PteAddrs : swap_files[a] # NULL => a \in stale \/ a[1] \in Tabs

Mapping(p, q) == Live(p) /\ HasTable(p, q)

Holds ==
    \A p \in Pids, q \in Pages :
        Mapping(p, q) /\ Pte(kernel, p, q) \notin stale
            => Held(kernel, Pte(kernel, p, q)) = written[p][q]

Unwritten == \A p \in Pids, q \in Pages : ~Mapping(p, q) => written[p][q] = 0

Inv ==
    /\ Types /\ KernelRight(kernel, Dirs, Tabs) /\ DirsDistinct /\ RoomLeft
    /\ tlb \in Seq(Nodes) /\ SwapOwned /\ Holds /\ Unwritten

-----------------------------------------------------------------------------
(* tlb.c                                                                     *)

LEMMA TlbGets ==
    ASSUME NEW S, NEW t \in Seq(S), NEW page, NEW r, r = tlb_get_pte(t, page)
    PROVE  /\ r.list \in Seq(S)
           /\ r.entry # NULL => \E n \in S : n.page = page /\ n.entry = r.entry
<1>1. CASE At(t, page) = {}
    BY <1>1 DEF tlb_get_pte
<1>2. CASE At(t, page) # {}
    <2> DEFINE i == Min(At(t, page))
    <2>1. Len(t) \in Nat /\ DOMAIN t = 1 .. Len(t)
        OBVIOUS
    <2>2. At(t, page) \subseteq Nat
        BY <2>1 DEF At
    <2>3. i \in At(t, page)
        BY <1>2, <2>2, LeastIsThere
    <2>4. r = [entry |-> t[i].entry, list |-> <<t[i]>> \o RemoveAt(t, i)]
        BY <1>2 DEF tlb_get_pte
    <2> HIDE DEF i
    <2>5. i \in 1 .. Len(t) /\ t[i] \in S /\ t[i].page = page
        BY <2>1, <2>3 DEF At
    <2>6. SubSeq(t, 1, i - 1) \in Seq(S) /\ SubSeq(t, i + 1, Len(t)) \in Seq(S)
        <3>1. \A k \in 1 .. i - 1 : t[k] \in S
            BY <2>1, <2>5
        <3>2. \A k \in i + 1 .. Len(t) : t[k] \in S
            BY <2>1, <2>5
        <3> QED  BY <2>1, <2>5, <3>1, <3>2, SubSeqProperties
    <2>7. RemoveAt(t, i) \in Seq(S)
        BY <2>6, ConcatProperties DEF RemoveAt
    <2>8. <<t[i]>> \in Seq(S)
        BY <2>5
    <2>9. <<t[i]>> \o RemoveAt(t, i) \in Seq(S)
        BY <2>7, <2>8, ConcatProperties
    <2> QED  BY <2>4, <2>5, <2>9
<1> QED  BY <1>1, <1>2

LEMMA TlbAdds ==
    ASSUME NEW S, NEW t \in Seq(S), NEW page, NEW entry, [page |-> page, entry |-> entry] \in S
    PROVE  tlb_add_pte(t, page, entry) \in Seq(S)
<1> DEFINE n == [page |-> page, entry |-> entry]
           rest == IF Len(t) > 1 /\ Len(t) >= MAX_NODES THEN Front(t) ELSE t
<1>1. Len(t) \in Nat /\ DOMAIN t = 1 .. Len(t)
    OBVIOUS
<1>2. CASE Len(t) > 1
    <2>1. Front(t) \in Seq(S)
        BY <1>1, <1>2, SubSeqProperties DEF Front
    <2>2. rest \in Seq(S)
        BY <2>1
    <2>3. <<n>> \in Seq(S)
        OBVIOUS
    <2> HIDE DEF n, rest
    <2>4. <<n>> \o rest \in Seq(S)
        BY <2>2, <2>3, ConcatProperties
    <2> QED  BY <2>4 DEF tlb_add_pte, n, rest
<1>3. CASE ~(Len(t) > 1)
    <2>1. rest = t
        BY <1>3
    <2>3. <<n>> \in Seq(S)
        OBVIOUS
    <2> HIDE DEF n, rest
    <2>4. <<n>> \o rest \in Seq(S)
        BY <2>1, <2>3, ConcatProperties
    <2> QED  BY <2>4 DEF tlb_add_pte, n, rest
<1> QED  BY <1>2, <1>3

-----------------------------------------------------------------------------
(* Directories, tables and entries of the live processes.                    *)

LEMMA PageIndex ==
    /\ \A q \in Pages \union {0} : q \div NUM_ENTRIES \in Index /\ q % NUM_ENTRIES \in Index
    /\ \A q, r \in Pages \union {0} :
         q \div NUM_ENTRIES = r \div NUM_ENTRIES /\ q % NUM_ENTRIES = r % NUM_ENTRIES => q = r
<1>1. NUM_ENTRIES = 3 /\ Pages \union {0} \subseteq 0 .. 4 /\ Index = {0, 1, 2}
    BY MmuAssumption, Constants
<1>2. \A q \in 0 .. 4 : q \div 3 \in {0, 1, 2} /\ q % 3 \in {0, 1, 2}
    OBVIOUS
<1>3. \A q, r \in 0 .. 4 : q \div 3 = r \div 3 /\ q % 3 = r % 3 => q = r
    OBVIOUS
<1> QED  BY <1>1, <1>2, <1>3

LEMMA KernelFields ==
    /\ kernel.mem = physical_memory /\ kernel.map = entry_mapping /\ kernel.swap = swap_files
BY DEF kernel

LEMMA KernelIs ==
    ASSUME NEW k \in Kernels, SetKernel(k)
    PROVE  kernel' = k
BY DEF kernel, SetKernel, Kernels

\* A page's place in the directory of its process.
LEMMA PdeThere ==
    ASSUME Inv, NEW p \in Pids, NEW q \in Pages \union {0}
    PROVE  Live(p) => /\ page_directories[p] \in Dirs /\ page_directories[p] \in Frames
                      /\ Pde(p, q) \in Dirs \X Index
                      /\ Pde(p, q) = <<page_directories[p], q \div NUM_ENTRIES>>
BY PageIndex DEF Inv, Types, Dirs, Pde, Live

\* And in its page table.
LEMMA PteThere ==
    ASSUME Inv, NEW p \in Pids, NEW q \in Pages \union {0}, Mapping(p, q)
    PROVE  /\ Pte(kernel, p, q) \in Tabs \X Index /\ Pte(kernel, p, q) \in PteAddrs
           /\ Points(kernel, Pde(p, q), Pte(kernel, p, q)[1])
<1>1. Live(p) /\ Pde(p, q) \in Dirs \X Index /\ Entry(kernel, Pde(p, q)).present
    BY PdeThere DEF Mapping, HasTable
<1>2. KernelRight(kernel, Dirs, Tabs)
    BY DEF Inv
<1>3. Entry(kernel, Pde(p, q)).base \in Frames /\ Tabs \subseteq Frames
    BY <1>1, <1>2, RightFields DEF Entries
<1>4. Entry(kernel, Pde(p, q)).base \in Tabs
    BY <1>1, <1>3 DEF Tabs, TablesIn, Points
<1>5. q % NUM_ENTRIES \in Index
    BY PageIndex
<1> QED  BY <1>1, <1>3, <1>4, <1>5 DEF Pte, PteAddrs, Points

\* No two pages share an entry.
LEMMA PteOwner ==
    ASSUME Inv, NEW p \in Pids, NEW q \in Pages, NEW p2 \in Pids, NEW q2 \in Pages,
           Mapping(p, q), Mapping(p2, q2), Pte(kernel, p, q) = Pte(kernel, p2, q2)
    PROVE  p = p2 /\ q = q2
<1>1. /\ Pde(p, q) \in Dirs \X Index /\ Pde(p2, q2) \in Dirs \X Index
      /\ Pde(p, q) = <<page_directories[p], q \div NUM_ENTRIES>>
      /\ Pde(p2, q2) = <<page_directories[p2], q2 \div NUM_ENTRIES>>
    BY PdeThere DEF Mapping
<1> DEFINE t == Pte(kernel, p, q)[1]
<1>2. t \in Frames /\ Points(kernel, Pde(p, q), t) /\ Points(kernel, Pde(p2, q2), t)
    BY PteThere DEF PteAddrs
<1> HIDE DEF t
<1>3. Pde(p, q) = Pde(p2, q2)
    BY <1>1, <1>2 DEF Inv, KernelRight, Directories
<1>4. page_directories[p] = page_directories[p2] /\ q \div NUM_ENTRIES = q2 \div NUM_ENTRIES
    BY <1>1, <1>3
<1>5. p = p2
    BY <1>4 DEF Inv, DirsDistinct, Mapping
<1>6. q % NUM_ENTRIES = q2 % NUM_ENTRIES
    BY DEF Pte
<1> QED  BY <1>4, <1>5, <1>6, PageIndex


-----------------------------------------------------------------------------
(* mmu_rw_from_virtual_address.                                              *)

LEMMA ReservedAre ==
    ASSUME Inv
    PROVE  {f \in Frames : entry_mapping[f] = RESERVED} = Dirs \union Tabs
<1>1. Reserves(kernel, Dirs, Tabs)
    BY DEF Inv, KernelRight
<1> QED  BY <1>1, KernelFields DEF Reserves

LEMMA TlbOfRight ==
    ASSUME Inv, NEW pid \in Pids, NEW page, NEW r, r = tlb_get_pte(TlbOf(pid), page), r.entry # NULL
    PROVE  Mapping(pid, page) /\ r.entry = Pte(kernel, pid, page)
<1>1. CASE pid = curr_pid
    <2>1. TlbOf(pid) \in Seq(Nodes)
        BY <1>1 DEF Inv, TlbOf
    <2>2. PICK n \in Nodes : n.page = page /\ n.entry = r.entry
        BY <2>1, TlbGets
    <2> QED  BY <1>1, <2>2 DEF Nodes, Mapping
<1>2. CASE pid # curr_pid
    <2>1. TlbOf(pid) \in Seq({Dummy})
        BY <1>2 DEF TlbOf
    <2>2. PICK n \in {Dummy} : n.page = page /\ n.entry = r.entry
        BY <2>1, TlbGets
    <2> QED  BY <2>2 DEF Dummy
<1> QED  BY <1>1, <1>2

\* What an access does to the kernel, with the new table if there is one.
Accessed(pid, page, v, T2, pte) ==
    /\ TableThere(kernel, kernel', Dirs, Tabs, T2, Pde(pid, page))
    /\ HeldBut(kernel, kernel', Tabs, T2, pte)
    /\ pte = <<Entry(kernel', Pde(pid, page)).base, page % NUM_ENTRIES>>
    /\ HeldAt(kernel, kernel', Tabs, pte, v)
    /\ tlb' = tlb_add_pte(tlb_get_pte(TlbOf(pid), page).list, page, pte)
    /\ Cardinality(Dirs \union T2) < NUM_PHYSICAL_PAGES

LEMMA AccessHas ==
    ASSUME Inv, NEW pid \in Pids, NEW page \in Pages, NEW v \in Values \union {0},
           Live(pid), HasTable(pid, page) \/ Room(1), Access(pid, page, v)
    PROVE  \E T2 \in SUBSET Frames, pte \in PteAddrs : Accessed(pid, page, v, T2, pte)
<1> DEFINE got == tlb_get_pte(TlbOf(pid), page)
           k1 == WithTable(pid, page, got.entry)
           pte == IF got.entry # NULL THEN got.entry ELSE Pte(k1, pid, page)
           k2 == Resident(k1, pte)
           frame == Entry(k2, pte).base
           k3 == IF v = 0 THEN k2 ELSE Store(k2, frame, v)
           pde == Pde(pid, page)
           j == page % NUM_ENTRIES
<1>1. /\ SetKernel(k3)
      /\ tlb' = tlb_add_pte(got.list, page, pte)
    BY DEF Access, Store
<1>2. pde \in Dirs \X Index /\ j \in Index
    BY PdeThere, PageIndex
<1>3. got.entry # NULL => HasTable(pid, page) /\ got.entry = Pte(kernel, pid, page)
    BY TlbOfRight DEF Mapping
<1>4. k1 = IF Entry(kernel, pde).present THEN kernel ELSE Fault(kernel, pde, NULL)
    BY <1>3 DEF WithTable, HasTable
<1>5. pte = <<Entry(k1, pde).base, j>>
    <2>1. CASE got.entry # NULL
        <3>1. k1 = kernel
            BY <2>1 DEF WithTable
        <3> QED  BY <1>3, <2>1, <3>1 DEF Pte
    <2>2. CASE got.entry = NULL
        BY <2>2 DEF Pte
    <2> QED  BY <2>1, <2>2
<1>6. k2 = Resident(k1, pte) /\ k3 = IF v = 0 THEN k2 ELSE Store(k2, Entry(k2, pte).base, v)
    OBVIOUS
<1>7. KernelRight(kernel, Dirs, Tabs)
    BY DEF Inv
<1>8. Cardinality(Dirs \union Tabs) \in Nat
    BY <1>7, RoomForPages
<1>9. /\ Cardinality(Dirs \union Tabs) < NUM_PHYSICAL_PAGES
      /\ ~Entry(kernel, pde).present => Cardinality(Dirs \union Tabs) + 1 < NUM_PHYSICAL_PAGES
    <2>1. Dirs # {}
        BY <1>2
    <2>2. Room(1) => Cardinality(Dirs \union Tabs) + 1 < NUM_PHYSICAL_PAGES
        BY ReservedAre DEF Room
    <2> QED  BY <2>1, <2>2 DEF Inv, RoomLeft, HasTable
<1>10. Cardinality(Dirs \union Tabs) + (IF Entry(kernel, pde).present THEN 0 ELSE 1)
                < NUM_PHYSICAL_PAGES
    BY <1>8, <1>9
<1> HIDE DEF got, k1, pte, k2, frame, k3, pde, j
<1>11. PICK T2 \in SUBSET Frames : Reached(kernel, k3, Dirs, Tabs, T2, pde, j, pte, v)
    BY <1>2, <1>4, <1>5, <1>6, <1>7, <1>10, AccessKernel, SMTT(30)
<1>12. k3 \in Kernels
    BY <1>11 DEF Reached, TableThere, KernelRight
<1>13. kernel' = k3
    BY <1>1, <1>12, KernelIs
<1>14. pte \in PteAddrs
    BY <1>2, <1>11 DEF Reached, TableThere, PteAddrs
<1>15. Cardinality(Dirs \union T2) < NUM_PHYSICAL_PAGES
    <2>1. CASE Entry(kernel, pde).present
        BY <1>9, <1>11, <2>1 DEF Reached, TableThere
    <2>2. CASE ~Entry(kernel, pde).present
        <3> DEFINE t == Entry(k3, pde).base
        <3>1. T2 = Tabs \union {t} /\ t \notin Dirs \union Tabs
            BY <1>11, <2>2 DEF Reached, TableThere
        <3> HIDE DEF t
        <3>2. t \in Frames /\ (Dirs \union Tabs) \union {t} = Dirs \union T2
            BY <3>1
        <3>3. Cardinality(Dirs \union T2) = Cardinality(Dirs \union Tabs) + 1
            BY <1>7, <3>1, <3>2, RoomForPages
        <3> QED  BY <1>8, <1>9, <2>2, <3>3
    <2> QED  BY <2>1, <2>2
<1>16. Accessed(pid, page, v, T2, pte)
    BY <1>1, <1>11, <1>13, <1>15 DEF Accessed, Reached, pde, j, got
<1> QED  BY <1>14, <1>16

\* Where the frames are after a step: the tables are what the directories point to.
LEMMA TabsAre ==
    ASSUME NEW T, KernelRight(kernel', Dirs', T)
    PROVE  Tabs' = T /\ KernelRight(kernel, Dirs, Tabs)'
<1>1. TablesIn(kernel', Dirs') = T
    BY TablesAre
<1> QED  BY <1>1 DEF Tabs

\* The step keeps the processes, and their tables and entries.
Keeps(pid) ==
    /\ page_directories' = page_directories /\ stale' = stale /\ curr_pid' = pid
    /\ Dirs' = Dirs

\* The entries of the directories after an access.
LEMMA AccessMaps ==
    ASSUME Inv, NEW pid \in Pids, NEW page \in Pages, NEW v, NEW T2, NEW pte \in PteAddrs,
           Live(pid), Accessed(pid, page, v, T2, pte), Keeps(pid),
           NEW p \in Pids, NEW q \in Pages \union {0}
    PROVE  /\ Mapping(p, q) => Mapping(p, q)' /\ Pte(kernel, p, q)' = Pte(kernel, p, q)
           /\ Mapping(p, q)' => /\ Pte(kernel, p, q)' \in T2 \X Index
                                /\ ~Mapping(p, q) => Pte(kernel, p, q)'[1] \notin Tabs
           /\ Mapping(pid, page)' /\ Pte(kernel, pid, page)' = pte
<1> DEFINE pde == Pde(pid, page)
           d == Pde(p, q)
<1>1. /\ pde \in Dirs \X Index
      /\ Live(p) => d \in Dirs \X Index
    BY PdeThere
<1>2. /\ KernelRight(kernel', Dirs, T2)
      /\ Entry(kernel', pde).present /\ Entry(kernel', pde).base \in T2
      /\ Entry(kernel, pde).present => Entry(kernel', pde) = Entry(kernel, pde)
      /\ ~Entry(kernel, pde).present => Entry(kernel', pde).base \notin Dirs \union Tabs
      /\ \A b \in Dirs \X Index : b # pde => Entry(kernel', b) = Entry(kernel, b)
      /\ T2 \subseteq Frames
      /\ Tabs \subseteq T2
    BY DEF Accessed, TableThere, KernelRight, Reserves
<1>3. /\ Live(p)' <=> Live(p)
      /\ Live(pid)'
      /\ Pde(p, q)' = d /\ Pde(pid, page)' = pde
    BY DEF Keeps, Live, Pde
<1>4. /\ Mapping(p, q) <=> Live(p) /\ Entry(kernel, d).present
      /\ Mapping(p, q)' <=> Live(p) /\ Entry(kernel', d).present
      /\ Mapping(pid, page)' <=> Entry(kernel', pde).present
    BY <1>3 DEF Mapping, HasTable
<1>5. /\ Pte(kernel, p, q) = <<Entry(kernel, d).base, q % NUM_ENTRIES>>
      /\ Pte(kernel, p, q)' = <<Entry(kernel', d).base, q % NUM_ENTRIES>>
      /\ Pte(kernel, pid, page)' = <<Entry(kernel', pde).base, page % NUM_ENTRIES>>
      /\ q % NUM_ENTRIES \in Index
    BY <1>3, PageIndex DEF Pte
<1>6. Mapping(p, q) => Entry(kernel, d).base \in Tabs
    <2>1. ASSUME Mapping(p, q) PROVE Pte(kernel, p, q)[1] \in Tabs
        BY <2>1, PteThere
    <2> QED  BY <1>5, <2>1
<1> HIDE DEF pde, d
<1>7. Mapping(p, q) => Mapping(p, q)' /\ Pte(kernel, p, q)' = Pte(kernel, p, q)
    BY <1>1, <1>2, <1>4, <1>5
<1>8. Mapping(p, q)' /\ ~Mapping(p, q) => d = pde /\ ~Entry(kernel, pde).present
    BY <1>1, <1>2, <1>4
<1>9. Mapping(p, q)' => Entry(kernel', d).base \in T2
    <2>1. CASE Mapping(p, q)
        <3>1. Entry(kernel', d) = Entry(kernel, d)
            BY <1>1, <1>2, <1>4, <2>1
        <3> QED  BY <1>2, <1>6, <2>1, <3>1
    <2>2. CASE ~Mapping(p, q)
        BY <1>2, <1>8, <2>2
    <2> QED  BY <2>1, <2>2
<1>10. Mapping(pid, page)' /\ Pte(kernel, pid, page)' = pte
    BY <1>2, <1>4, <1>5 DEF Accessed, pde
<1> QED  BY <1>2, <1>5, <1>7, <1>8, <1>9, <1>10

\* No other page has the entry that was accessed.
LEMMA AccessOwner ==
    ASSUME Inv, NEW pid \in Pids, NEW page \in Pages, NEW v, NEW T2, NEW pte \in PteAddrs,
           Live(pid), Accessed(pid, page, v, T2, pte), Keeps(pid),
           NEW p \in Pids, NEW q \in Pages, Mapping(p, q)', Pte(kernel, p, q)' = pte
    PROVE  p = pid /\ q = page
<1>1. KernelRight(kernel', Dirs, T2)
    BY DEF Accessed, TableThere
<1>2. /\ Live(p) /\ Pde(p, q)' = Pde(p, q) /\ Pde(pid, page)' = Pde(pid, page)
      /\ Entry(kernel', Pde(p, q)).present
    BY DEF Keeps, Live, Pde, Mapping, HasTable
<1>3. /\ Pde(p, q) \in Dirs \X Index /\ Pde(pid, page) \in Dirs \X Index
      /\ Pde(p, q) = <<page_directories[p], q \div NUM_ENTRIES>>
      /\ Pde(pid, page) = <<page_directories[pid], page \div NUM_ENTRIES>>
    BY <1>2, PdeThere
<1>4. Entry(kernel', Pde(p, q)).base = pte[1] /\ q % NUM_ENTRIES = pte[2]
    BY <1>2 DEF Pte
<1>5. /\ Entry(kernel', Pde(pid, page)).present
      /\ Entry(kernel', Pde(pid, page)).base = pte[1] /\ page % NUM_ENTRIES = pte[2]
    BY DEF Accessed, TableThere
<1>6. pte[1] \in Frames
    BY DEF PteAddrs
<1>7. Points(kernel', Pde(p, q), pte[1]) /\ Points(kernel', Pde(pid, page), pte[1])
    BY <1>2, <1>4, <1>5 DEF Points
<1>8. Pde(p, q) = Pde(pid, page)
    BY <1>1, <1>3, <1>6, <1>7 DEF KernelRight, Directories
<1>9. page_directories[p] = page_directories[pid] /\ q \div NUM_ENTRIES = page \div NUM_ENTRIES
    BY <1>3, <1>8
<1>10. p = pid
    BY <1>2, <1>9 DEF Inv, DirsDistinct
<1> QED  BY <1>4, <1>5, <1>9, <1>10, PageIndex

LEMMA AccessHolds ==
    ASSUME Inv, NEW pid \in Pids, NEW page \in Pages, NEW v \in Values \union {0},
           NEW T2, NEW pte \in PteAddrs,
           Live(pid), Accessed(pid, page, v, T2, pte), Keeps(pid),
           written' = IF v = 0 THEN written ELSE [written EXCEPT ![pid][page] = v]
    PROVE  Holds' /\ Unwritten'
<1>1. written \in [Pids -> [Pages -> Values \union {0}]] /\ Holds /\ Unwritten /\ SwapOwned
    BY DEF Inv, Types
<1>2. /\ v # 0 => written'[pid][page] = v
      /\ \A p \in Pids, q \in Pages :
            ~(p = pid /\ q = page) => written'[p][q] = written[p][q]
      /\ v = 0 => written' = written
    BY <1>1
<1>3. /\ HeldBut(kernel, kernel', Tabs, T2, pte) /\ HeldAt(kernel, kernel', Tabs, pte, v)
    BY DEF Accessed
<1>4. \A a \in PteAddrs : a \notin stale /\ a[1] \notin Tabs => kernel.swap[a] = NULL
    BY <1>1, KernelFields DEF SwapOwned
<1>5. T2 \subseteq Frames
    BY DEF Accessed, TableThere, KernelRight, Reserves
<1>6. \A p \in Pids, q \in Pages :
          /\ Mapping(p, q) => Mapping(p, q)' /\ Pte(kernel, p, q)' = Pte(kernel, p, q)
          /\ Mapping(p, q)' => /\ Pte(kernel, p, q)' \in T2 \X Index
                               /\ ~Mapping(p, q) => Pte(kernel, p, q)'[1] \notin Tabs
    BY AccessMaps
<1>7. Mapping(pid, page)' /\ Pte(kernel, pid, page)' = pte
    BY AccessMaps
<1>8. ASSUME NEW p \in Pids, NEW q \in Pages, Mapping(p, q)', Pte(kernel, p, q)' \notin stale
      PROVE  Held(kernel', Pte(kernel, p, q)') = written'[p][q]
    <2> DEFINE a == Pte(kernel, p, q)'
    <2> SUFFICES Held(kernel', a) = written'[p][q]
        OBVIOUS
    <2>1. a \in T2 \X Index /\ a \in PteAddrs
        BY <1>5, <1>6, <1>8 DEF PteAddrs
    <2>2. Mapping(p, q) => a \in Tabs \X Index /\ Held(kernel, a) = written[p][q]
        <3>1. ASSUME Mapping(p, q) PROVE a = Pte(kernel, p, q)
            BY <1>6, <3>1
        <3>2. ASSUME Mapping(p, q) PROVE Pte(kernel, p, q) \in Tabs \X Index
            BY <3>2, PteThere
        <3> QED  BY <1>1, <1>8, <3>1, <3>2 DEF Holds
    <2>3. ~Mapping(p, q) => a[1] \notin Tabs /\ kernel.swap[a] = NULL /\ written[p][q] = 0
        BY <1>1, <1>4, <1>6, <1>8, <2>1 DEF Unwritten
    <2>4. CASE p = pid /\ q = page
        <3>1. a = pte
            BY <1>7, <2>4
        <3> HIDE DEF a
        <3>2. CASE v # 0
            BY <1>2, <1>3, <2>4, <3>1, <3>2 DEF HeldAt
        <3>3. CASE v = 0 /\ Mapping(p, q)
            BY <1>2, <1>3, <2>2, <3>1, <3>3 DEF HeldAt
        <3>4. CASE v = 0 /\ ~Mapping(p, q)
            BY <1>2, <1>3, <2>3, <3>1, <3>4 DEF HeldAt
        <3> QED  BY <3>2, <3>3, <3>4
    <2>5. CASE ~(p = pid /\ q = page)
        <3>1. a # pte
            BY <1>8, <2>5, AccessOwner
        <3>2. written'[p][q] = written[p][q]
            BY <1>2, <2>5
        <3> HIDE DEF a
        <3>3. CASE Mapping(p, q)
            BY <1>3, <2>2, <3>1, <3>2, <3>3 DEF HeldBut
        <3>4. CASE ~Mapping(p, q)
            BY <1>3, <2>1, <2>3, <3>1, <3>2, <3>4 DEF HeldBut
        <3> QED  BY <3>3, <3>4
    <2> QED  BY <2>4, <2>5
<1>9. Holds'
    BY <1>8 DEF Holds, Keeps
<1>10. ASSUME NEW p \in Pids, NEW q \in Pages, ~Mapping(p, q)' PROVE written'[p][q] = 0
    <2>1. ~Mapping(p, q) /\ ~(p = pid /\ q = page)
        BY <1>6, <1>7, <1>10
    <2> QED  BY <1>1, <1>2, <2>1 DEF Unwritten
<1> QED  BY <1>9, <1>10 DEF Unwritten

\* The TLB afterwards: the list that was there, and the entry that was used.
LEMMA AccessTlb ==
    ASSUME Inv, NEW pid \in Pids, NEW page \in Pages, NEW v, NEW T2, NEW pte \in PteAddrs,
           Live(pid), Accessed(pid, page, v, T2, pte), Keeps(pid)
    PROVE  (tlb \in Seq(Nodes))'
<1>1. \A q \in Pages \union {0} :
          Mapping(pid, q) => Mapping(pid, q)' /\ Pte(kernel, pid, q)' = Pte(kernel, pid, q)
    BY AccessMaps
<1>2. Mapping(pid, page)' /\ Pte(kernel, pid, page)' = pte /\ curr_pid' = pid
    BY AccessMaps DEF Keeps
<1>3. ASSUME NEW n \in [page : Pages \union {0}, entry : PteAddrs \union {NULL}],
             n.entry # NULL => Mapping(pid, n.page)' /\ n.entry = Pte(kernel, pid, n.page)'
      PROVE  n \in Nodes'
    BY <1>2, <1>3 DEF Nodes, Mapping
<1>4. Dummy \in Nodes'
    <2>1. Dummy.entry = NULL /\ Dummy \in [page : Pages \union {0}, entry : PteAddrs \union {NULL}]
        BY DEF Dummy
    <2> QED  BY <1>3, <2>1
<1>5. TlbOf(pid) \in Seq(Nodes')
    <2>1. CASE pid = curr_pid
        <3>1. ASSUME NEW n \in Nodes PROVE n \in Nodes'
            <4>1. /\ n \in [page : Pages \union {0}, entry : PteAddrs \union {NULL}]
                  /\ n.entry # NULL => Mapping(pid, n.page) /\ n.entry = Pte(kernel, pid, n.page)
                BY <2>1 DEF Nodes, Mapping
            <4>2. n.page \in Pages \union {0}
                BY <4>1
            <4> QED  BY <1>1, <1>3, <4>1, <4>2
        <3>2. tlb \in Seq(Nodes) /\ TlbOf(pid) = tlb
            BY <2>1 DEF Inv, TlbOf
        <3> QED  BY <3>1, <3>2
    <2>2. CASE pid # curr_pid
        BY <1>4, <2>2 DEF TlbOf
    <2> QED  BY <2>1, <2>2
<1> DEFINE n == [page |-> page, entry |-> pte]
           r == tlb_get_pte(TlbOf(pid), page)
<1>6. n \in Nodes'
    <2>1. /\ n \in [page : Pages \union {0}, entry : PteAddrs \union {NULL}]
          /\ n.page = page /\ n.entry = pte
        OBVIOUS
    <2> QED  BY <1>2, <1>3, <2>1
<1>7. r.list \in Seq(Nodes')
    BY <1>5, TlbGets
<1> HIDE DEF r
<1>8. tlb_add_pte(r.list, page, pte) \in Seq(Nodes')
    BY <1>6, <1>7, TlbAdds
<1> QED  BY <1>8 DEF Accessed, r

LEMMA AccessStep ==
    ASSUME Inv, NEW pid \in Pids, NEW page \in Pages, NEW v \in Values \union {0},
           Live(pid), HasTable(pid, page) \/ Room(1), Access(pid, page, v)
    PROVE  Inv'
<1>1. PICK T2 \in SUBSET Frames, pte \in PteAddrs : Accessed(pid, page, v, T2, pte)
    BY AccessHas
<1>2. /\ page_directories' = page_directories /\ stale' = stale /\ curr_pid' = pid
      /\ written' = IF v = 0 THEN written ELSE [written EXCEPT ![pid][page] = v]
    BY DEF Access
<1>3. Dirs' = Dirs
    BY <1>2 DEF Dirs, Live
<1>4. Keeps(pid)
    BY <1>2, <1>3 DEF Keeps
<1>5. Tabs' = T2 /\ KernelRight(kernel, Dirs, Tabs)'
    <2>1. KernelRight(kernel', Dirs', T2)
        BY <1>1, <1>3 DEF Accessed, TableThere
    <2> QED  BY <2>1, TabsAre
<1>6. Types'
    BY <1>2 DEF Inv, Types
<1>7. DirsDistinct'
    BY <1>2 DEF Inv, DirsDistinct, Live
<1>8. RoomLeft'
    BY <1>1, <1>3, <1>5 DEF RoomLeft, Accessed
<1>9. Holds' /\ Unwritten'
    BY <1>1, <1>2, <1>4, AccessHolds
<1>10. (tlb \in Seq(Nodes))'
    BY <1>1, <1>4, AccessTlb
<1>11. SwapOwned'
    <2>1. /\ Tabs \subseteq T2
          /\ \A b \in PteAddrs : b[1] \notin T2 => kernel'.swap[b] = kernel.swap[b]
        BY <1>1 DEF Accessed, TableThere
    <2>2. kernel'.swap = swap_files' /\ kernel.swap = swap_files
        BY DEF kernel
    <2> QED  BY <1>2, <1>5, <2>1, <2>2 DEF Inv, SwapOwned
<1> QED  BY <1>5, <1>6, <1>7, <1>8, <1>9, <1>10, <1>11 DEF Inv

LEMMA FaultStep ==
    ASSUME Inv, NEW pid \in Pids, SegmentationFault(pid)
    PROVE  Inv'
<1>1. /\ kernel' = kernel /\ page_directories' = page_directories /\ written' = written
      /\ stale' = stale /\ swap_files' = swap_files /\ curr_pid' = pid /\ tlb' = TlbOf(pid)
    BY DEF SegmentationFault, kernel
<1>2. /\ \A p : Live(p)' <=> Live(p)
      /\ \A p, q : /\ HasTable(p, q)' <=> HasTable(p, q)
                   /\ Pte(kernel, p, q)' = Pte(kernel, p, q)
                   /\ Mapping(p, q)' <=> Mapping(p, q)
    BY <1>1 DEF Live, HasTable, Pte, Pde, Mapping
<1>3. Dirs' = Dirs
    BY <1>1 DEF Dirs, Live
<1>4. Tabs' = Tabs
    BY <1>1, <1>3 DEF Tabs
<1>5. Types' /\ DirsDistinct' /\ RoomLeft' /\ SwapOwned'
    BY <1>1, <1>2, <1>3, <1>4 DEF Inv, Types, DirsDistinct, RoomLeft, SwapOwned
<1>6. KernelRight(kernel, Dirs, Tabs)'
    BY <1>1, <1>3, <1>4 DEF Inv
<1>7. Holds' /\ Unwritten'
    BY <1>1, <1>2 DEF Inv, Holds, Unwritten
<1>8. (tlb \in Seq(Nodes))'
    <2>1. CASE pid = curr_pid
        <3>1. Nodes' = Nodes
            BY <1>1, <1>2, <2>1 DEF Nodes
        <3> QED  BY <1>1, <2>1, <3>1 DEF Inv, TlbOf
    <2>2. CASE pid # curr_pid
        <3>1. Dummy \in Nodes'
            BY DEF Dummy, Nodes
        <3> QED  BY <1>1, <2>2, <3>1 DEF TlbOf
    <2> QED  BY <2>1, <2>2
<1> QED  BY <1>5, <1>6, <1>7, <1>8 DEF Inv

-----------------------------------------------------------------------------
(* mmu_remove_process and mmu_delete.                                        *)

\* What the loops over a directory and its tables return is what belongs to it.
LEMMA FramesBelong ==
    ASSUME Inv, NEW pid \in Pids, Live(pid)
    PROVE  /\ TablesOf(pid) = TablesIn(kernel, {page_directories[pid]})
           /\ FramesOf(pid) = Belong(kernel, {page_directories[pid]})
<1> DEFINE x == page_directories[pid]
<1>1. x \in Frames
    BY DEF Inv, Types, Live
<1>2. \A b \in PteAddrs : Entry(kernel, b).base \in Frames
    <2>1. kernel.mem \in [Frames -> Contents]
        BY DEF Inv, KernelRight, Kernels
    <2>2. \A f \in Frames, i \in Index : kernel.mem[f].table[i].base \in Frames
        BY <2>1 DEF Contents
    <2> QED  BY <2>2 DEF Entry, PteAddrs
<1>3. \A i \in Index : <<x, i>> \in PteAddrs
    BY <1>1 DEF PteAddrs
<1>4. TablesOf(pid) = {Entry(kernel, <<x, i>>).base :
                          i \in {j \in Index : Entry(kernel, <<x, j>>).present}}
    BY DEF TablesOf
<1>5. \A b \in {x} \X Index : \E i \in Index : b = <<x, i>>
    OBVIOUS
<1>6. \A i \in Index : <<x, i>> \in {x} \X Index
    OBVIOUS
<1> HIDE DEF x
<1>7. TablesOf(pid) = TablesIn(kernel, {x})
    <2>1. ASSUME NEW t \in TablesOf(pid) PROVE t \in TablesIn(kernel, {x})
        <3>1. PICK i \in Index : Entry(kernel, <<x, i>>).present /\ t = Entry(kernel, <<x, i>>).base
            BY <1>4, <2>1
        <3>2. Points(kernel, <<x, i>>, t) /\ t \in Frames
            BY <1>2, <1>3, <3>1 DEF Points
        <3> QED  BY <1>6, <3>2 DEF TablesIn
    <2>2. ASSUME NEW t \in TablesIn(kernel, {x}) PROVE t \in TablesOf(pid)
        <3>1. PICK b \in {x} \X Index : Points(kernel, b, t)
            BY <2>2 DEF TablesIn
        <3>2. PICK i \in Index : b = <<x, i>>
            BY <1>5, <3>1
        <3> QED  BY <1>4, <3>1, <3>2 DEF Points
    <2> QED  BY <2>1, <2>2
<1> DEFINE T == TablesIn(kernel, {x})
<1>8. T \subseteq Frames
    BY DEF TablesIn
<1>9. {Entry(kernel, a).base : a \in {b \in T \X Index : Entry(kernel, b).present}}
        = {f \in Frames : \E b \in T \X Index : Points(kernel, b, f)}
    <2>1. T \X Index \subseteq PteAddrs
        BY <1>8 DEF PteAddrs
    <2> HIDE DEF T
    <2> QED  BY <1>2, <2>1 DEF Points
<1> QED  BY <1>7, <1>9 DEF FramesOf, Belong, x

\* The processes that stay, and their pages, see nothing of it.
LEMMA RemoveStep ==
    ASSUME Inv, NEW pid \in Pids, mmu_remove_process(pid)
    PROVE  Inv'
<1> DEFINE x == page_directories[pid]
           TX == TablesIn(kernel, {x})
<1>1. /\ Live(pid)
      /\ page_directories' = [page_directories EXCEPT ![pid] = NULL]
      /\ written' = [written EXCEPT ![pid] = [v \in Pages |-> 0]]
      /\ tlb' = (IF curr_pid = pid THEN <<Dummy>> ELSE tlb) /\ curr_pid' = curr_pid
      /\ swap_files' = swap_files /\ physical_memory' = physical_memory
    BY DEF mmu_remove_process, Live
<1>2. TablesOf(pid) = TX /\ FramesOf(pid) = Belong(kernel, {x})
    BY <1>1, FramesBelong
<1>3. /\ entry_mapping' = [f \in Frames |-> IF f \in Belong(kernel, {x}) THEN NULL
                                            ELSE entry_mapping[f]]
      /\ stale' = stale \union {a \in TX \X Index : swap_files[a] # NULL}
    BY <1>2 DEF mmu_remove_process, return_frame_to_kernel, remove_swap_file
<1>4. Types /\ Types'
    <2>1. Types
        BY DEF Inv
    <2> QED  BY <1>1, <2>1 DEF Types
<1>5. /\ KernelRight(kernel, Dirs, Tabs) /\ DirsDistinct /\ RoomLeft /\ SwapOwned /\ Holds
      /\ Unwritten
    BY DEF Inv
<1>6. x \in Dirs /\ x \in Frames
    BY <1>1, <1>4 DEF Dirs, Live, Types
<1>7. \A p \in Pids : /\ p # pid => page_directories'[p] = page_directories[p]
                      /\ page_directories'[pid] = NULL
                      /\ p # pid => written'[p] = written[p]
                      /\ written'[pid] = [v \in Pages |-> 0]
    BY <1>1, <1>4 DEF Types
<1>8. \A p \in Pids : Live(p)' <=> Live(p) /\ p # pid
    BY <1>7 DEF Live
<1>9. Dirs' = Dirs \ {x}
    BY <1>5, <1>1, <1>7, <1>8 DEF Dirs, DirsDistinct
<1>10. /\ kernel'.mem = kernel.mem /\ kernel'.swap = kernel.swap
       /\ kernel'.map = [f \in Frames |-> IF f \in Belong(kernel, {x}) THEN NULL
                                          ELSE kernel.map[f]]
    BY <1>1, <1>3 DEF kernel
<1>11. kernel' \in Kernels
    <2>1. kernel \in Kernels
        BY <1>5 DEF KernelRight
    <2>2. /\ physical_memory \in [Frames -> Contents]
          /\ entry_mapping \in [Frames -> {NULL, RESERVED} \union PteAddrs]
          /\ swap_files \in [PteAddrs -> Contents \union {NULL}]
        BY <2>1, KernelFields DEF Kernels
    <2>3. entry_mapping' \in [Frames -> {NULL, RESERVED} \union PteAddrs]
        BY <1>3, <2>2
    <2> QED  BY <1>1, <2>2, <2>3 DEF kernel, Kernels
<1> HIDE DEF x, TX
<1>12. /\ KernelRight(kernel', Dirs \ {x}, Tabs \ TX)
       /\ \A b : Entry(kernel', b) = Entry(kernel, b)
    <2>1. {x} \in SUBSET Dirs
        BY <1>6
    <2>2. \A a \in PteAddrs : kernel'.swap[a] \in {NULL, kernel.swap[a]}
        BY <1>10
    <2>3. KernelRight(kernel, Dirs, Tabs)
        BY <1>5
    <2>4. /\ KernelRight(kernel', Dirs \ {x}, Tabs \ TablesIn(kernel, {x}))
          /\ \A b : Entry(kernel', b) = Entry(kernel, b)
        BY <1>10, <1>11, <2>1, <2>2, <2>3, FramesReturned
    <2> QED  BY <2>4 DEF TX
<1>13. Tabs' = Tabs \ TX /\ KernelRight(kernel, Dirs, Tabs)'
    <2>1. KernelRight(kernel', Dirs', Tabs \ TX)
        BY <1>9, <1>12
    <2> QED  BY <2>1, TabsAre
<1>14. \A q : \A p \in Pids : p # pid =>
            /\ HasTable(p, q)' <=> HasTable(p, q)
            /\ Pte(kernel, p, q)' = Pte(kernel, p, q)
            /\ Mapping(p, q)' <=> Mapping(p, q)
    BY <1>7, <1>8, <1>12 DEF HasTable, Pte, Pde, Mapping
<1>15. \A b : Held(kernel', b) = Held(kernel, b)
    BY <1>10, <1>12 DEF Held
<1>16. DirsDistinct'
    BY <1>5, <1>7, <1>8 DEF DirsDistinct, Live
<1>17. RoomLeft'
    <2>1. CASE Dirs = {}
        BY <1>9, <2>1 DEF RoomLeft
    <2>2. CASE Dirs # {}
        <3>1. Dirs' \union Tabs' \subseteq Dirs \union Tabs
            BY <1>9, <1>13
        <3>2. IsFiniteSet(Dirs \union Tabs)
            BY <1>5, TablesFinite
        <3>3. /\ IsFiniteSet(Dirs' \union Tabs')
              /\ Cardinality(Dirs' \union Tabs') <= Cardinality(Dirs \union Tabs)
            BY <3>1, <3>2, FS_Subset
        <3>4. Cardinality(Dirs' \union Tabs') \in Nat /\ Cardinality(Dirs \union Tabs) \in Nat
            BY <3>2, <3>3, FS_CardinalityType
        <3> QED  BY <1>5, <2>2, <3>3, <3>4, MmuAssumption DEF RoomLeft
    <2> QED  BY <2>1, <2>2
<1>18. SwapOwned'
    <2>1. ASSUME NEW a \in PteAddrs, swap_files[a] # NULL PROVE a \in stale' \/ a[1] \in Tabs'
        <3>1. a[1] \in TX => a \in TX \X Index
            BY DEF PteAddrs
        <3> QED  BY <1>3, <1>5, <1>13, <2>1, <3>1 DEF SwapOwned
    <2> QED  BY <1>1, <2>1 DEF SwapOwned
<1>19. Holds'
    <2>1. ASSUME NEW p \in Pids, NEW q \in Pages, Mapping(p, q)', Pte(kernel, p, q)' \notin stale'
          PROVE  Held(kernel', Pte(kernel, p, q)') = written'[p][q]
        <3>1. p # pid
            BY <1>8, <2>1 DEF Mapping
        <3> QED  BY <1>3, <1>5, <1>7, <1>14, <1>15, <2>1, <3>1 DEF Holds
    <2> QED  BY <2>1 DEF Holds
<1>20. Unwritten'
    <2>1. ASSUME NEW p \in Pids, NEW q \in Pages, ~Mapping(p, q)' PROVE written'[p][q] = 0
        <3>1. CASE p = pid
            BY <1>7, <3>1
        <3>2. CASE p # pid
            BY <1>5, <1>7, <1>14, <2>1, <3>2 DEF Unwritten
        <3> QED  BY <3>1, <3>2
    <2> QED  BY <2>1 DEF Unwritten
<1>21. (tlb \in Seq(Nodes))'
    <2>1. CASE curr_pid = pid
        <3>1. Dummy \in Nodes'
            BY DEF Dummy, Nodes
        <3> QED  BY <1>1, <2>1, <3>1
    <2>2. CASE curr_pid # pid
        <3>1. Nodes' = Nodes
            BY <1>1, <1>4, <1>8, <1>14, <2>2 DEF Nodes, Types
        <3> QED  BY <1>1, <2>2, <3>1 DEF Inv
    <2> QED  BY <2>1, <2>2
<1> QED  BY <1>4, <1>13, <1>16, <1>17, <1>18, <1>19, <1>20, <1>21 DEF Inv

\* The frames of all processes.
LEMMA AllBelong ==
    ASSUME Inv
    PROVE  UNION {FramesOf(p) : p \in {q \in Pids : Live(q)}} = Belong(kernel, Dirs)
<1>1. \A p \in Pids : Live(p) => FramesOf(p) = Belong(kernel, {page_directories[p]})
    BY FramesBelong
<1>2. \A f : f \in Belong(kernel, Dirs) <=> \E x \in Dirs : f \in Belong(kernel, {x})
    <2>1. \A t : t \in TablesIn(kernel, Dirs) <=> \E x \in Dirs : t \in TablesIn(kernel, {x})
        <3>1. ASSUME NEW t \in TablesIn(kernel, Dirs)
              PROVE  \E x \in Dirs : t \in TablesIn(kernel, {x})
            <4>1. PICK x \in Dirs, i \in Index : Points(kernel, <<x, i>>, t)
                BY DEF TablesIn
            <4>2. <<x, i>> \in {x} \X Index
                OBVIOUS
            <4>3. t \in TablesIn(kernel, {x})
                BY <4>1, <4>2 DEF TablesIn
            <4> QED  BY <4>3
        <3>2. ASSUME NEW x \in Dirs, NEW t \in TablesIn(kernel, {x})
              PROVE  t \in TablesIn(kernel, Dirs)
            <4>1. {x} \X Index \subseteq Dirs \X Index
                OBVIOUS
            <4> QED  BY <4>1 DEF TablesIn
        <3> QED  BY <3>1, <3>2
    <2>2. \A X, f : (\E b \in TablesIn(kernel, X) \X Index : Points(kernel, b, f))
             <=> \E t \in TablesIn(kernel, X), i \in Index : Points(kernel, <<t, i>>, f)
        <3>1. ASSUME NEW X, NEW f, NEW t \in TablesIn(kernel, X), NEW i \in Index,
                     Points(kernel, <<t, i>>, f)
              PROVE  \E b \in TablesIn(kernel, X) \X Index : Points(kernel, b, f)
            <4>1. <<t, i>> \in TablesIn(kernel, X) \X Index
                OBVIOUS
            <4> QED  BY <3>1, <4>1
        <3>2. ASSUME NEW X, NEW f, NEW b \in TablesIn(kernel, X) \X Index, Points(kernel, b, f)
              PROVE  \E t \in TablesIn(kernel, X), i \in Index : Points(kernel, <<t, i>>, f)
            <4>1. b[1] \in TablesIn(kernel, X) /\ b[2] \in Index /\ b = <<b[1], b[2]>>
                OBVIOUS
            <4> QED  BY <3>2, <4>1
        <3> QED  BY <3>1, <3>2
    <2> QED  BY <2>1, <2>2 DEF Belong
<1> QED  BY <1>1, <1>2 DEF Dirs

LEMMA DeleteStep ==
    ASSUME Inv, mmu_delete
    PROVE  Inv'
<1>1. /\ page_directories' = [p \in Pids |-> NULL]
      /\ written' = [p \in Pids |-> [v \in Pages |-> 0]]
      /\ tlb' = <<Dummy>> /\ curr_pid' = 0
      /\ swap_files' = [a \in PteAddrs |-> NULL] /\ physical_memory' = physical_memory
    BY DEF mmu_delete, remove_swap_files
<1>2. entry_mapping' = [f \in Frames |-> IF f \in Belong(kernel, Dirs) THEN NULL
                                         ELSE entry_mapping[f]]
    <2>1. {p \in Pids : page_directories[p] # NULL} = {q \in Pids : Live(q)}
        BY DEF Live
    <2> QED  BY <2>1, AllBelong DEF mmu_delete, return_frame_to_kernel
<1>3. KernelRight(kernel, Dirs, Tabs)
    BY DEF Inv
<1>4. Types'
    BY <1>1, MmuAssumption DEF Types
<1>5. \A p \in Pids : ~Live(p)'
    BY <1>1 DEF Live
<1>6. Dirs' = {}
    BY <1>5 DEF Dirs
<1>7. /\ kernel'.mem = kernel.mem /\ kernel'.swap = [a \in PteAddrs |-> NULL]
      /\ kernel'.map = [f \in Frames |-> IF f \in Belong(kernel, Dirs) THEN NULL
                                         ELSE kernel.map[f]]
    BY <1>1, <1>2 DEF kernel
<1>8. kernel' \in Kernels
    <2>1. /\ physical_memory \in [Frames -> Contents]
          /\ entry_mapping \in [Frames -> {NULL, RESERVED} \union PteAddrs]
        BY <1>3, KernelFields, RightFields
    <2>2. entry_mapping' \in [Frames -> {NULL, RESERVED} \union PteAddrs]
        BY <1>2, <2>1
    <2> QED  BY <1>1, <2>1, <2>2 DEF kernel, Kernels
<1>9. KernelRight(kernel', {}, {})
    <2>1. Dirs \in SUBSET Dirs
        OBVIOUS
    <2>2. \A a \in PteAddrs : kernel'.swap[a] \in {NULL, kernel.swap[a]}
        BY <1>7
    <2>3. KernelRight(kernel', Dirs \ Dirs, Tabs \ TablesIn(kernel, Dirs))
        BY <1>3, <1>7, <1>8, <2>1, <2>2, FramesReturned
    <2>4. Dirs \ Dirs = {} /\ Tabs \ TablesIn(kernel, Dirs) = {}
        BY DEF Tabs
    <2> QED  BY <2>3, <2>4
<1>10. KernelRight(kernel, Dirs, Tabs)'
    BY <1>6, <1>9, TabsAre
<1>11. RoomLeft' /\ DirsDistinct'
    BY <1>5, <1>6 DEF RoomLeft, DirsDistinct
<1>12. SwapOwned'
    BY <1>1 DEF SwapOwned
<1>13. Holds' /\ Unwritten'
    BY <1>1, <1>5 DEF Holds, Unwritten, Mapping
<1>14. (tlb \in Seq(Nodes))'
    <2>1. Dummy \in Nodes'
        BY DEF Dummy, Nodes
    <2> QED  BY <1>1, <2>1
<1> QED  BY <1>4, <1>10, <1>11, <1>12, <1>13, <1>14 DEF Inv

-----------------------------------------------------------------------------
(* mmu_add_process.                                                          *)

LEMMA AddStep ==
    ASSUME Inv, NEW pid \in Pids, mmu_add_process(pid)
    PROVE  Inv'
<1> DEFINE r == ask_kernel_for_frame(kernel, NULL)
           x == r.frame
           k1 == Map(r.k, <<x, 0>>, NULL)
           t == Entry(k1, <<x, 0>>).base
           k2 == Map(k1, <<t, 1>>, <<t, 1>>)
           k3 == Map(k2, <<t, 2>>, <<t, 2>>)
<1>1. /\ ~Live(pid) /\ Room(2) /\ SetKernel(k3)
      /\ page_directories' = [page_directories EXCEPT ![pid] = x]
      /\ tlb' = tlb /\ curr_pid' = curr_pid /\ written' = written /\ stale' = stale
    BY DEF mmu_add_process, Live
<1>2. /\ KernelRight(kernel, Dirs, Tabs) /\ DirsDistinct /\ Types /\ SwapOwned /\ Holds
      /\ Unwritten
    BY DEF Inv
<1>3. Cardinality(Dirs \union Tabs) + 2 < NUM_PHYSICAL_PAGES
    BY <1>1, ReservedAre DEF Room
<1>4. /\ k1 = Map(r.k, <<r.frame, 0>>, NULL) /\ t = Entry(k1, <<r.frame, 0>>).base
      /\ k2 = Map(k1, <<t, 1>>, <<t, 1>>) /\ k3 = Map(k2, <<t, 2>>, <<t, 2>>)
    OBVIOUS
<1> HIDE DEF k1, t, k2, k3
<1>5. KernelRight(kernel, Dirs, Tabs)
    BY <1>2
<1>6. Added(kernel, k3, Dirs, Tabs, r.frame, t)
    BY <1>3, <1>4, <1>5, AddKernel
<1> HIDE DEF r, x
<1>7. k3 \in Kernels
    BY <1>6 DEF Added, KernelRight
<1>8. kernel' = k3
    BY <1>1, <1>7, KernelIs
<1>9. Added(kernel, kernel', Dirs, Tabs, x, t)
    BY <1>6, <1>8 DEF x
<1> DEFINE D2 == Dirs \union {x}
           T2 == Tabs \union {t}
<1>10. /\ x \in Frames /\ t \in Frames /\ x \notin Dirs \union Tabs /\ t \notin Dirs \union Tabs
       /\ x # t /\ KernelRight(kernel', D2, T2)
    BY <1>9 DEF Added
<1>11. \A p \in Pids : /\ p # pid => page_directories'[p] = page_directories[p]
                       /\ page_directories'[pid] = x
    BY <1>1, <1>2 DEF Types
<1>12. \A p \in Pids : Live(p)' <=> (Live(p) \/ p = pid)
    BY <1>10, <1>11, Constants DEF Live
<1>13. Dirs' = D2
    BY <1>1, <1>11, <1>12 DEF Dirs
<1>14. Tabs' = T2 /\ KernelRight(kernel, Dirs, Tabs)'
    <2>1. KernelRight(kernel', Dirs', T2)
        BY <1>10, <1>13
    <2> QED  BY <2>1, TabsAre
<1>15. Types'
    BY <1>1, <1>2, <1>10 DEF Types
<1>16. DirsDistinct'
    <2>1. \A p \in Pids : Live(p) => page_directories[p] # x
        BY <1>10 DEF Dirs
    <2> QED  BY <1>1, <1>2, <1>10, <1>11, <1>12, <2>1, Constants DEF DirsDistinct, Live
<1>17. RoomLeft'
    <2> DEFINE S == Dirs \union Tabs
    <2>1. IsFiniteSet(S) /\ Cardinality(S) \in Nat
        BY <1>5, TablesFinite, FS_CardinalityType
    <2>2. IsFiniteSet(S \union {x}) /\ Cardinality(S \union {x}) = Cardinality(S) + 1
        BY <1>10, <2>1, FS_AddElement
    <2>3. t \notin S \union {x}
        BY <1>10
    <2>4. Cardinality((S \union {x}) \union {t}) = Cardinality(S \union {x}) + 1
        BY <2>2, <2>3, FS_AddElement
    <2>5. (S \union {x}) \union {t} = Dirs' \union Tabs'
        BY <1>13, <1>14
    <2>6. Cardinality(Dirs' \union Tabs') = Cardinality(S \union {x}) + 1
        BY <2>4, <2>5, Zenon
    <2> DEFINE c == Cardinality(S)
               c1 == Cardinality(S \union {x})
    <2>7. c \in Nat /\ c1 = c + 1 /\ c + 2 < NUM_PHYSICAL_PAGES
        BY <1>3, <2>1, <2>2
    <2> HIDE DEF c, c1
    <2>8. c1 + 1 < NUM_PHYSICAL_PAGES
        BY <2>7, MmuAssumption
    <2> QED  BY <2>6, <2>8 DEF RoomLeft, c1
<1>18. SwapOwned'
    <2>1. \A b \in PteAddrs : b[1] \notin T2 => kernel'.swap[b] = kernel.swap[b]
        BY <1>9 DEF Added
    <2>2. kernel'.swap = swap_files' /\ kernel.swap = swap_files
        BY DEF kernel
    <2> QED  BY <1>1, <1>2, <1>14, <2>1, <2>2 DEF SwapOwned
<1>19. ASSUME NEW p \in Pids, NEW q \in Pages \union {0}, p # pid
       PROVE  /\ Mapping(p, q)' <=> Mapping(p, q)
              /\ Mapping(p, q) => Pte(kernel, p, q)' = Pte(kernel, p, q)
    <2>1. Live(p)' <=> Live(p)
        BY <1>12, <1>19
    <2>2. Pde(p, q)' = Pde(p, q)
        BY <1>11, <1>19 DEF Pde
    <2>3. Live(p) => Entry(kernel', Pde(p, q)) = Entry(kernel, Pde(p, q))
        BY <1>9, PdeThere DEF Added
    <2> QED  BY <2>1, <2>2, <2>3 DEF Mapping, HasTable, Pte
<1>20. ASSUME NEW q \in Pages, Mapping(pid, q)', Pte(kernel, pid, q)' \notin stale
       PROVE  Held(kernel', Pte(kernel, pid, q)') = 0
    <2> DEFINE i == q \div NUM_ENTRIES
               j == q % NUM_ENTRIES
    <2>1. i \in Index /\ j \in Index
        BY PageIndex
    <2> HIDE DEF i, j
    <2>2. Pde(pid, q)' = <<x, i>> /\ Entry(kernel', <<x, i>>).present
        BY <1>11, <1>20 DEF Pde, Mapping, HasTable, i
    <2>3. i = 0
        BY <1>9, <2>1, <2>2 DEF Added
    <2>4. Entry(kernel', <<x, 0>>).base = t
        BY <1>9 DEF Added, Points
    <2>5. Pte(kernel, pid, q)' = <<t, j>>
        BY <2>2, <2>3, <2>4 DEF Pte, j
    <2>6. <<t, j>> \in PteAddrs /\ <<t, j>>[1] \notin Tabs
        BY <1>10, <2>1 DEF PteAddrs
    <2>7. kernel.swap[<<t, j>>] = NULL
        BY <1>2, <1>20, <2>5, <2>6, KernelFields DEF SwapOwned
    <2>8. Held(kernel', <<t, j>>) = 0
        BY <1>9, <2>1, <2>7 DEF Added
    <2> QED  BY <2>5, <2>8
<1>21. \A q \in Pages : written[pid][q] = 0
    BY <1>1, <1>2 DEF Unwritten, Mapping
<1>22. Holds'
    <2>1. ASSUME NEW p \in Pids, NEW q \in Pages, Mapping(p, q)', Pte(kernel, p, q)' \notin stale
          PROVE  Held(kernel', Pte(kernel, p, q)') = written[p][q]
        <3>1. CASE p = pid
            BY <1>20, <1>21, <2>1, <3>1
        <3>2. CASE p # pid
            <4>1. Mapping(p, q) /\ Pte(kernel, p, q)' = Pte(kernel, p, q)
                BY <1>19, <2>1, <3>2
            <4>2. Pte(kernel, p, q) \in Tabs \X Index
                BY <4>1, PteThere
            <4>3. Held(kernel', Pte(kernel, p, q)) = Held(kernel, Pte(kernel, p, q))
                BY <1>9, <4>2 DEF Added
            <4>4. Pte(kernel, p, q) \notin stale
                BY <2>1, <4>1
            <4>5. Held(kernel, Pte(kernel, p, q)) = written[p][q]
                BY <1>2, <4>1, <4>4 DEF Holds
            <4> QED  BY <4>1, <4>3, <4>5
        <3> QED  BY <3>1, <3>2
    <2> QED  BY <1>1, <2>1 DEF Holds
<1>23. Unwritten'
    <2>1. ASSUME NEW p \in Pids, NEW q \in Pages, ~Mapping(p, q)' PROVE written[p][q] = 0
        <3>1. CASE p = pid
            BY <1>21, <3>1
        <3>2. CASE p # pid
            <4>1. ~Mapping(p, q)
                BY <1>19, <2>1, <3>2
            <4> QED  BY <1>2, <4>1 DEF Unwritten
        <3> QED  BY <3>1, <3>2
    <2> QED  BY <1>1, <2>1 DEF Unwritten
<1>24. (tlb \in Seq(Nodes))'
    <2>1. ASSUME NEW n \in Nodes PROVE n \in Nodes'
        <3>1. /\ n \in [page : Pages \union {0}, entry : PteAddrs \union {NULL}]
              /\ n.page \in Pages \union {0}
              /\ n.entry # NULL => /\ Mapping(curr_pid, n.page)
                                   /\ n.entry = Pte(kernel, curr_pid, n.page)
            BY DEF Nodes, Mapping
        <3>2. curr_pid \in Pids
            BY <1>2 DEF Types
        <3>3. Mapping(curr_pid, n.page) => curr_pid # pid
            BY <1>1 DEF Mapping
        <3>4. n.entry # NULL => /\ Mapping(curr_pid, n.page)'
                                /\ n.entry = Pte(kernel, curr_pid, n.page)'
            BY <1>1, <1>19, <3>1, <3>2, <3>3 DEF Mapping, HasTable, Live, Pte, Pde
        <3> QED  BY <1>1, <3>1, <3>4 DEF Nodes, Mapping
    <2> QED  BY <1>1, <2>1 DEF Inv
<1> QED  BY <1>14, <1>15, <1>16, <1>17, <1>18, <1>22, <1>23, <1>24 DEF Inv

-----------------------------------------------------------------------------
(* The theorems.                                                             *)

LEMMA InitInv == Init => Inv
<1> SUFFICES ASSUME Init PROVE Inv
    OBVIOUS
<1> USE DEF Init
<1>1. \A p \in Pids : ~Live(p)
    BY DEF Live
<1>2. Dirs = {} /\ Tabs = {}
    BY <1>1 DEF Dirs, Tabs, TablesIn
<1>3. kernel \in Kernels
    <2>1. physical_memory \in [Frames -> Contents]
        BY Constants
    <2>2. entry_mapping \in [Frames -> {NULL, RESERVED} \union PteAddrs]
        OBVIOUS
    <2>3. swap_files \in [PteAddrs -> Contents \union {NULL}]
        OBVIOUS
    <2> QED  BY <2>1, <2>2, <2>3 DEF kernel, Kernels
<1>4. /\ \A f \in Frames : kernel.map[f] = NULL
      /\ \A a \in PteAddrs : kernel.swap[a] = NULL
    BY KernelFields
<1>5. Reserves(kernel, {}, {})
    BY <1>4, Constants DEF Reserves
<1>6. Directories(kernel, {}, {})
    BY DEF Directories
<1>7. Mapped(kernel, {})
    BY <1>4, Constants DEF Mapped
<1>8. PagesOnly(kernel)
    BY <1>4, Constants DEF PagesOnly
<1>9. KernelRight(kernel, Dirs, Tabs)
    BY <1>2, <1>3, <1>5, <1>6, <1>7, <1>8 DEF KernelRight
<1>10. Types
    BY MmuAssumption DEF Types
<1>11. DirsDistinct /\ RoomLeft /\ SwapOwned
    BY <1>1, <1>2 DEF DirsDistinct, RoomLeft, SwapOwned
<1>12. Holds /\ Unwritten
    BY <1>1 DEF Holds, Unwritten, Mapping
<1>13. tlb \in Seq(Nodes)
    <2>1. Dummy \in Nodes
        BY DEF Dummy, Nodes
    <2> QED  BY <2>1
<1> QED  BY <1>9, <1>10, <1>11, <1>12, <1>13 DEF Inv

LEMMA StutterInv ==
    ASSUME Inv, UNCHANGED vars
    PROVE  Inv'
<1>1. kernel' = kernel
    BY DEF vars, kernel
<1>2. /\ page_directories' = page_directories /\ tlb' = tlb /\ curr_pid' = curr_pid
      /\ swap_files' = swap_files /\ written' = written /\ stale' = stale
    BY DEF vars
<1>3. Dirs' = Dirs
    BY <1>2 DEF Dirs, Live
<1>4. Tabs' = Tabs
    BY <1>1, <1>3 DEF Tabs
<1>5. Types' /\ DirsDistinct' /\ RoomLeft' /\ SwapOwned'
    BY <1>2, <1>3, <1>4 DEF Inv, Types, DirsDistinct, RoomLeft, SwapOwned, Live
<1>6. KernelRight(kernel, Dirs, Tabs)'
    BY <1>1, <1>3, <1>4 DEF Inv
<1>7. Holds' /\ Unwritten'
    BY <1>1, <1>2 DEF Inv, Holds, Unwritten, Mapping, HasTable, Live, Pte, Pde
<1>8. (tlb \in Seq(Nodes))'
    <2>1. Nodes' = Nodes
        BY <1>1, <1>2 DEF Nodes, HasTable, Live, Pte, Pde
    <2> QED  BY <1>2, <2>1 DEF Inv
<1> QED  BY <1>5, <1>6, <1>7, <1>8 DEF Inv

\* Frames, tables, swap files and TLB keep the invariant at every step of mmu.c.
THEOREM InvHolds == Spec => []Inv
<1>1. Init => Inv
    BY InitInv
<1>2. Inv /\ [Next]_vars => Inv'
    <2> SUFFICES ASSUME Inv, [Next]_vars PROVE Inv'
        OBVIOUS
    <2>1. CASE mmu_delete
        BY <2>1, DeleteStep
    <2>2. ASSUME NEW pid \in Pids, mmu_add_process(pid) PROVE Inv'
        BY <2>2, AddStep
    <2>3. ASSUME NEW pid \in Pids, mmu_remove_process(pid) PROVE Inv'
        BY <2>3, RemoveStep
    <2>4. ASSUME NEW pid \in Pids, NEW page \in Pages, NEW value \in Values \union {0},
                 mmu_rw_from_virtual_address(pid, page, value)
          PROVE  Inv'
        <3>1. CASE Allowed(page, value # 0)
            <4>1. /\ Live(pid) /\ (HasTable(pid, page) \/ Room(1)) /\ Access(pid, page, value)
                BY <2>4, <3>1 DEF mmu_rw_from_virtual_address, Live, HasTable
            <4> QED  BY <4>1, AccessStep
        <3>2. CASE ~Allowed(page, value # 0)
            <4>1. SegmentationFault(pid)
                BY <2>4, <3>2 DEF mmu_rw_from_virtual_address
            <4> QED  BY <4>1, FaultStep
        <3> QED  BY <3>1, <3>2
    <2>5. CASE UNCHANGED vars
        BY <2>5, StutterInv
    <2> QED  BY <2>1, <2>2, <2>3, <2>4, <2>5 DEF Next
<1> QED  BY <1>1, <1>2, PTL DEF Spec

\* mmu.c:54-122 with kernel.c:22-53: a process reads from a page what it wrote there
\* last, whatever the kernel evicted, brought back, gave back and used again meanwhile,
\* unless a removed process left a file for the page's entry.
THEOREM PagesHold == Spec => []PageHolds
<1>1. Inv => PageHolds
    <2> SUFFICES ASSUME Inv, NEW pid \in Pids, Live(pid), NEW page \in Pages,
                        HasTable(pid, page), Pte(kernel, pid, page) \notin stale
                 PROVE  Reads(pid, page) = written[pid][page]
        BY DEF PageHolds
    <2>1. Held(kernel, Pte(kernel, pid, page)) = written[pid][page]
        BY DEF Inv, Holds, Mapping
    <2>2. Reads(pid, page) = Held(kernel, Pte(kernel, pid, page))
        BY KernelFields DEF Reads, Held
    <2> QED  BY <2>1, <2>2
<1> QED  BY <1>1, InvHolds, PTL

\* mmu.c:25 and 268, kernel.c:20: each frame in use is a table or a page of one
\* process, entry_mapping is the inverse of the page tables, and the TLB only holds
\* entries that a walk through the tables of the current process would find.
THEOREM FramesStayRight == Spec => []FramesRight
<1>1. Inv => FramesRight
    <2> SUFFICES ASSUME Inv PROVE FramesExclusive /\ TlbCurrent
        BY DEF FramesRight
    <2>1. /\ Reserves(kernel, Dirs, Tabs) /\ Mapped(kernel, Tabs) /\ kernel \in Kernels
          /\ Tabs \subseteq Frames
        BY DEF Inv, KernelRight, Reserves
    <2>2. \A p \in Pids : Live(p) => TablesOf(p) = TablesIn(kernel, {page_directories[p]})
        BY FramesBelong
    <2> DEFINE L == {q \in Pids : Live(q)}
               tables == UNION {{page_directories[p]} \union TablesOf(p) : p \in L}
               ptes == UNION {TablesOf(p) \X Index : p \in L}
    <2>3. \A t : t \in Tabs <=> \E p \in L : t \in TablesOf(p)
        <3>1. ASSUME NEW t \in Tabs PROVE \E p \in L : t \in TablesOf(p)
            <4>1. PICK x \in Dirs, i \in Index : Points(kernel, <<x, i>>, t)
                BY DEF Tabs, TablesIn
            <4>2. PICK p \in L : x = page_directories[p]
                BY <4>1 DEF Dirs
            <4>3. <<x, i>> \in {x} \X Index /\ t \in Frames
                BY <2>1
            <4>4. t \in TablesIn(kernel, {x})
                BY <4>1, <4>3 DEF TablesIn
            <4> QED  BY <2>2, <4>2, <4>4
        <3>2. ASSUME NEW p \in L, NEW t \in TablesOf(p) PROVE t \in Tabs
            <4>1. page_directories[p] \in Dirs
                BY DEF Dirs
            <4>2. {page_directories[p]} \X Index \subseteq Dirs \X Index
                BY <4>1
            <4>3. t \in TablesIn(kernel, {page_directories[p]})
                BY <2>2
            <4> QED  BY <4>2, <4>3 DEF Tabs, TablesIn
        <3> QED  BY <3>1, <3>2
    <2>4. tables = Dirs \union Tabs
        BY <2>3 DEF Dirs
    <2>5. ptes = Tabs \X Index
        BY <2>3
    <2>6. \A f \in Frames : (entry_mapping[f] = RESERVED) = (f \in tables)
        BY <2>1, <2>4, KernelFields DEF Reserves
    <2>7. \A f \in Frames, a \in PteAddrs :
             (entry_mapping[f] = a)
                = (a \in ptes /\ Entry(kernel, a) = [present |-> TRUE, base |-> f])
        <3> SUFFICES ASSUME NEW f \in Frames, NEW a \in PteAddrs
                     PROVE  (entry_mapping[f] = a)
                                <=> (a \in ptes /\ Entry(kernel, a) = [present |-> TRUE, base |-> f])
            OBVIOUS
        <3>1. a[1] \in Tabs <=> a \in Tabs \X Index
            BY <2>1 DEF PteAddrs
        <3>2. Entry(kernel, a) \in Entries
            BY <2>1 DEF Kernels, Contents, Entries, Entry, PteAddrs
        <3>3. Points(kernel, a, f) <=> Entry(kernel, a) = [present |-> TRUE, base |-> f]
            BY <3>2 DEF Points, Entries
        <3>4. entry_mapping[f] = a <=> (a[1] \in Tabs /\ Points(kernel, a, f))
            BY <2>1, KernelFields DEF Mapped
        <3> QED  BY <2>5, <3>1, <3>3, <3>4
    <2>8. FramesExclusive
        BY <2>6, <2>7 DEF FramesExclusive
    <2>9. TlbCurrent
        <3>1. tlb \in Seq(Nodes)
            BY DEF Inv
        <3>2. \A i \in DOMAIN tlb : tlb[i] \in Nodes
            BY <3>1
        <3> QED  BY <3>2 DEF TlbCurrent, Nodes
    <2> QED  BY <2>8, <2>9
<1> QED  BY <1>1, InvHolds, PTL
=============================================================================
