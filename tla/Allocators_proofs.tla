------------------------- MODULE Allocators_proofs -------------------------
(***************************************************************************)
(* What malloc/alloc.c promises, proved for a heap of any size, requests   *)
(* of any size and any splitting threshold: HeapSound.  The invariant      *)
(* names what HeapSound computes: the set of blocks, instead of the walk   *)
(* by their sizes, and the order of the free list, instead of the walk by  *)
(* its links.  It adds that blocks do not overlap and that each is behind  *)
(* another one, which is what makes the tag in front of a block that of    *)
(* its neighbour.                                                          *)
(*                                                                         *)
(* And what mini_memcheck promises, proved for any pointers and any number *)
(* of calls: ReportRight.  The invariant is about the list and the report  *)
(* together, which share the program's blocks between them.                *)
(***************************************************************************)
EXTENDS Allocators, FiniteSetTheorems, SequenceTheorems, WellFoundedInduction, TLAPS

NoAddr == -1
Cells == 0 .. HeapSize - 1
Header == [size : Int, is_free : BOOLEAN, prev : Int, next : Int]
HeapType(h) ==
    h \in [node : [Cells -> Header], btag : [Cells -> Int], head : Int, tail : Int, brk : Int]

EndOf(h, n) == n + 2 + h.node[n].size

\* B are the blocks of the heap h.
Tiled(h, B) ==
    /\ h.brk \in 0 .. HeapSize
    /\ B \subseteq Cells
    /\ \A n \in B : /\ h.node[n].size \in Nat
                    /\ EndOf(h, n) \in B \union {h.brk} /\ EndOf(h, n) <= h.brk
                    /\ h.btag[EndOf(h, n) - 1] = h.node[n].size
    /\ \A n, m \in B : n < m => EndOf(h, n) <= m
    /\ \A x \in B \union {h.brk} : x # 0 => \E m \in B : EndOf(h, m) = x
    /\ h.brk > 0 => 0 \in B /\ h.tail \in B
    /\ h.brk = 0 => h.tail = NoAddr

\* L is the free list of the heap h, of k nodes, and F is what is in it.
Listed(h, F, k, L) ==
    /\ k \in Nat /\ L \in [1 .. k -> F]
    /\ \A i, j \in 1 .. k : L[i] = L[j] => i = j
    /\ \A n \in F : \E i \in 1 .. k : L[i] = n
    /\ h.head = IF k = 0 THEN NoAddr ELSE L[1]
    /\ \A i \in 1 .. k : h.node[L[i]].next = IF i = k THEN NoAddr ELSE L[i + 1]
    /\ \A i \in 2 .. k : h.node[L[i]].prev = L[i - 1]

FreeOf(h, B) == {n \in B : h.node[n].is_free}

\* The client holds the blocks that are not free.
Held(h, B, l) ==
    /\ \A p \in DOMAIN l : /\ p \in Int /\ l[p] \in Int /\ p - 1 \in B
                           /\ ~h.node[p - 1].is_free /\ h.node[p - 1].size >= l[p]
    /\ \A n \in B : ~h.node[n].is_free => n + 1 \in DOMAIN l

Whole(h, l) ==
    /\ HeapType(h)
    /\ \E B, k, L : Tiled(h, B) /\ Listed(h, FreeOf(h, B), k, L) /\ Held(h, B, l)

LEMMA HeapConstants ==
  /\ HeapSize \in Nat /\ MaxRequest \in Nat \ {0} /\ SPLIT_TRESHOLD \in Nat
  /\ Alloc!Addr = Cells /\ Alloc!None = NoAddr /\ Alloc!meta_btag_size = 2
BY AllocatorsAssumption DEF Alloc!MallocAssumption, Alloc!Addr, Alloc!None,
   Alloc!meta_btag_size, Cells, NoAddr

LEMMA BlockBounds ==
  ASSUME NEW h, NEW B, Tiled(h, B)
  PROVE  /\ HeapSize \in Nat /\ h.brk \in 0 .. HeapSize /\ B \subseteq Cells
         /\ \A n \in B : /\ n \in Int /\ n >= 0 /\ n < h.brk /\ n < HeapSize
                         /\ h.node[n].size \in Nat
                         /\ EndOf(h, n) \in Int /\ EndOf(h, n) > n + 1 /\ EndOf(h, n) <= h.brk
<1>1. HeapSize \in Nat /\ h.brk \in 0 .. HeapSize /\ B \subseteq Cells
      /\ \A n \in B : h.node[n].size \in Nat /\ EndOf(h, n) <= h.brk
  BY HeapConstants DEF Tiled
<1> SUFFICES ASSUME NEW n \in B
             PROVE  /\ n \in Int /\ n >= 0 /\ n < h.brk /\ n < HeapSize
                    /\ EndOf(h, n) \in Int /\ EndOf(h, n) > n + 1
  BY <1>1
<1>2. n \in Int /\ n >= 0 /\ n < HeapSize /\ h.node[n].size \in Nat /\ EndOf(h, n) <= h.brk
  BY <1>1 DEF Cells
<1> QED
  BY <1>1, <1>2 DEF EndOf

\* Two heaps that the blocks do not tell apart.
SameBlocks(h, g, B) ==
    /\ g.brk = h.brk /\ g.tail = h.tail
    /\ \A n \in B : /\ g.node[n].size = h.node[n].size
                    /\ g.btag[EndOf(h, n) - 1] = h.btag[EndOf(h, n) - 1]

LEMMA SameTiles ==
  ASSUME NEW h, NEW g, NEW B, Tiled(h, B), SameBlocks(h, g, B)
  PROVE  Tiled(g, B)
<1>1. \A n \in B : EndOf(g, n) = EndOf(h, n)
  BY DEF SameBlocks, EndOf
<1>2. \A n \in B : g.node[n].size = h.node[n].size
                   /\ g.btag[EndOf(g, n) - 1] = h.btag[EndOf(h, n) - 1]
  BY <1>1 DEF SameBlocks
<1>3. g.brk = h.brk /\ g.tail = h.tail
  BY DEF SameBlocks
<1> QED
  BY <1>1, <1>2, <1>3 DEF Tiled

\* Blocks that follow each other become one: n, up to where e starts.
LEMMA MergeTiles ==
  ASSUME NEW h, NEW g, NEW B, NEW n \in B, NEW e \in B \union {h.brk}, n < e,
         Tiled(h, B), g.brk = h.brk,
         NEW C, C = {m \in B : m <= n \/ m >= e}, g.tail \in C,
         \A m \in C \ {n} : /\ g.node[m].size = h.node[m].size
                            /\ g.btag[EndOf(h, m) - 1] = h.btag[EndOf(h, m) - 1],
         g.node[n].size \in Nat, EndOf(g, n) = e, g.btag[e - 1] = g.node[n].size
  PROVE  Tiled(g, C)
<1>0. HeapSize \in Nat /\ h.brk \in 0 .. HeapSize /\ B \subseteq Cells /\ e \in Int /\ e <= h.brk
      /\ (\A m \in B : m \in Int /\ m < h.brk /\ m >= 0 /\ EndOf(h, m) > m /\ EndOf(h, m) \in Int)
  BY BlockBounds
<1>1. \A m \in C \ {n} : EndOf(g, m) = EndOf(h, m)
  BY DEF EndOf
<1>2. \A m \in C : m \in B /\ (m # n => m < n \/ m >= e)
  BY <1>0
<1>3. \A m \in B : m < n => EndOf(h, m) <= n
  BY DEF Tiled
<1>4. \A m \in C : /\ g.node[m].size \in Nat
                   /\ EndOf(g, m) \in C \union {g.brk} /\ EndOf(g, m) <= g.brk
                   /\ g.btag[EndOf(g, m) - 1] = g.node[m].size
  <2> SUFFICES ASSUME NEW m \in C
               PROVE  /\ g.node[m].size \in Nat
                      /\ EndOf(g, m) \in C \union {g.brk} /\ EndOf(g, m) <= g.brk
                      /\ g.btag[EndOf(g, m) - 1] = g.node[m].size
    OBVIOUS
  <2>1. CASE m = n
    BY <2>1, <1>0
  <2>2. CASE m # n
    <3>1. g.node[m].size \in Nat /\ EndOf(g, m) = EndOf(h, m) /\ EndOf(h, m) <= g.brk
          /\ g.btag[EndOf(g, m) - 1] = g.node[m].size
          /\ EndOf(h, m) \in B \union {h.brk}
      BY <2>2, <1>1, <1>2 DEF Tiled
    <3>2. EndOf(h, m) <= n \/ EndOf(h, m) >= e
      BY <2>2, <1>0, <1>2, <1>3
    <3> QED
      BY <3>1, <3>2
  <2> QED
    BY <2>1, <2>2
<1>5. \A m1, m2 \in C : m1 < m2 => EndOf(g, m1) <= m2
  <2> SUFFICES ASSUME NEW m1 \in C, NEW m2 \in C, m1 < m2 PROVE EndOf(g, m1) <= m2
    OBVIOUS
  <2>1. CASE m1 = n
    BY <2>1, <1>0
  <2>2. CASE m1 # n
    BY <2>2, <1>1, <1>2 DEF Tiled
  <2> QED
    BY <2>1, <2>2
<1>6. \A x \in C \union {g.brk} : x # 0 => \E m \in C : EndOf(g, m) = x
  <2> SUFFICES ASSUME NEW x \in C \union {g.brk}, x # 0 PROVE \E m \in C : EndOf(g, m) = x
    OBVIOUS
  <2>1. x \in B \union {h.brk} /\ x \in Int /\ (x <= n \/ x >= e)
    BY <1>0
  <2>2. PICK m \in B : EndOf(h, m) = x
    BY <2>1 DEF Tiled
  <2>3. CASE x = e
    BY <2>3, <1>0
  <2>4. CASE x <= n
    <3>1. m \in C \ {n}
      BY <2>2, <2>4, <1>0
    <3> QED
      BY <2>2, <3>1, <1>1
  <2>5. CASE x > e
    <3>1. x <= h.brk
      BY <1>0, <2>1
    <3>2. e \in B
      BY <3>1, <2>5, <1>0
    <3>3. m < e => EndOf(h, m) <= e
      BY <3>2 DEF Tiled
    <3>4. m >= e
      BY <3>3, <2>2, <2>5, <1>0
    <3> QED
      BY <3>4, <2>2, <1>1, <1>0
  <2> QED
    BY <2>1, <2>3, <2>4, <2>5, <1>0
<1>7. 0 \in C
  BY <1>0 DEF Tiled
<1>8. C \subseteq Cells /\ g.brk \in 0 .. HeapSize /\ g.brk > 0
  BY <1>0
<1> QED
  BY <1>4, <1>5, <1>6, <1>7, <1>8 DEF Tiled

\* A block becomes two: n, and e behind it.
LEMMA SplitTiles ==
  ASSUME NEW h, NEW g, NEW B, NEW n \in B, NEW e, Tiled(h, B), g.brk = h.brk,
         g.tail \in B \union {e},
         \A m \in B \ {n} : /\ g.node[m].size = h.node[m].size
                            /\ g.btag[EndOf(h, m) - 1] = h.btag[EndOf(h, m) - 1],
         g.node[n].size \in Nat, g.node[e].size \in Nat,
         EndOf(g, n) = e, EndOf(g, e) = EndOf(h, n),
         g.btag[e - 1] = g.node[n].size, g.btag[EndOf(h, n) - 1] = g.node[e].size
  PROVE  Tiled(g, B \union {e}) /\ e \notin B
<1>0. HeapSize \in Nat /\ h.brk \in 0 .. HeapSize /\ B \subseteq Cells
      /\ (\A m \in B : m \in Int /\ m < h.brk /\ m >= 0 /\ EndOf(h, m) > m /\ EndOf(h, m) \in Int
                       /\ EndOf(h, m) <= h.brk)
  BY BlockBounds
<1>1. e \in Int /\ e > n /\ e < EndOf(h, n)
  BY <1>0 DEF EndOf
<1>2. \A m \in B \ {n} : EndOf(g, m) = EndOf(h, m)
  BY DEF EndOf
<1>3. \A m1, m2 \in B : m1 < m2 => EndOf(h, m1) <= m2
  BY DEF Tiled
<1>4. e \notin B
  BY <1>0, <1>1, <1>3
<1> DEFINE C == B \union {e}
<1>5. \A m \in C : /\ g.node[m].size \in Nat
                   /\ EndOf(g, m) \in C \union {g.brk} /\ EndOf(g, m) <= g.brk
                   /\ g.btag[EndOf(g, m) - 1] = g.node[m].size
  <2> SUFFICES ASSUME NEW m \in C
               PROVE  /\ g.node[m].size \in Nat
                      /\ EndOf(g, m) \in C \union {g.brk} /\ EndOf(g, m) <= g.brk
                      /\ g.btag[EndOf(g, m) - 1] = g.node[m].size
    OBVIOUS
  <2>0. EndOf(h, n) \in B \union {h.brk} /\ EndOf(h, n) <= h.brk
    BY DEF Tiled
  <2>1. CASE m = n
    BY <2>0, <2>1, <1>0, <1>1
  <2>2. CASE m = e
    BY <2>0, <2>2, <1>0
  <2>3. CASE m \in B \ {n}
    <3>1. g.node[m].size \in Nat /\ EndOf(g, m) = EndOf(h, m) /\ EndOf(h, m) <= g.brk
          /\ g.btag[EndOf(g, m) - 1] = g.node[m].size
          /\ EndOf(h, m) \in B \union {h.brk}
      BY <2>3, <1>2 DEF Tiled
    <3> QED
      BY <3>1
  <2> QED
    BY <2>1, <2>2, <2>3
<1>6. \A m1, m2 \in C : m1 < m2 => EndOf(g, m1) <= m2
  <2> SUFFICES ASSUME NEW m1 \in C, NEW m2 \in C, m1 < m2 PROVE EndOf(g, m1) <= m2
    OBVIOUS
  <2>0. \A m \in B : m > n => m >= EndOf(h, n)
    BY <1>3
  <2>1. CASE m1 = n
    BY <2>0, <2>1, <1>0, <1>1
  <2>2. CASE m1 = e
    BY <2>0, <2>2, <1>0, <1>1
  <2>3. CASE m1 \in B \ {n}
    <3>1. EndOf(g, m1) = EndOf(h, m1)
      BY <2>3, <1>2
    <3>2. CASE m2 \in B
      BY <3>1, <3>2, <2>3, <1>3
    <3>3. CASE m2 = e
      <4>1. m1 < n
        BY <3>3, <2>0, <2>3, <1>0, <1>1
      <4>2. EndOf(h, m1) <= n
        BY <4>1, <2>3, <1>3
      <4> QED
        BY <4>2, <3>1, <3>3, <2>3, <1>0, <1>1
    <3> QED
      BY <3>2, <3>3
  <2> QED
    BY <2>1, <2>2, <2>3
<1>7. \A x \in C \union {g.brk} : x # 0 => \E m \in C : EndOf(g, m) = x
  <2> SUFFICES ASSUME NEW x \in C \union {g.brk}, x # 0 PROVE \E m \in C : EndOf(g, m) = x
    OBVIOUS
  <2>1. CASE x = e
    BY <2>1
  <2>2. CASE x \in B \union {h.brk}
    <3>1. PICK m \in B : EndOf(h, m) = x
      BY <2>2 DEF Tiled
    <3>2. CASE m = n
      BY <3>1, <3>2
    <3>3. CASE m # n
      BY <3>1, <3>3, <1>2
    <3> QED
      BY <3>2, <3>3
  <2> QED
    BY <2>1, <2>2
<1>8. 0 \in C /\ C \subseteq Cells /\ g.brk \in 0 .. HeapSize /\ g.brk > 0
  <2>1. 0 \in B
    BY <1>0 DEF Tiled
  <2>2. e \in Cells
    BY <1>0, <1>1 DEF Cells
  <2> QED
    BY <2>1, <2>2, <1>0
<1> QED
  BY <1>4, <1>5, <1>6, <1>7, <1>8 DEF Tiled

\* A block at the program break.
LEMMA ExtendTiles ==
  ASSUME NEW h, NEW g, NEW B, NEW n, Tiled(h, B), n = h.brk,
         g.brk = EndOf(g, n), g.brk <= HeapSize,
         g.tail = IF h.tail = NoAddr THEN n ELSE h.tail,
         \A m \in B : /\ g.node[m].size = h.node[m].size
                      /\ g.btag[EndOf(h, m) - 1] = h.btag[EndOf(h, m) - 1],
         g.node[n].size \in Nat, g.btag[g.brk - 1] = g.node[n].size
  PROVE  Tiled(g, B \union {n}) /\ n \notin B
<1>0. HeapSize \in Nat /\ h.brk \in 0 .. HeapSize /\ B \subseteq Cells
      /\ (\A m \in B : m \in Int /\ m < h.brk /\ m >= 0 /\ EndOf(h, m) > m /\ EndOf(h, m) \in Int
                       /\ EndOf(h, m) <= h.brk)
  BY BlockBounds
<1>1. n \in Nat /\ g.brk \in Nat /\ g.brk > n + 1 /\ n \notin B
  BY <1>0 DEF EndOf
<1>2. \A m \in B : EndOf(g, m) = EndOf(h, m)
  BY DEF EndOf
<1> DEFINE C == B \union {n}
<1>3. \A m \in C : /\ g.node[m].size \in Nat
                   /\ EndOf(g, m) \in C \union {g.brk} /\ EndOf(g, m) <= g.brk
                   /\ g.btag[EndOf(g, m) - 1] = g.node[m].size
  <2> SUFFICES ASSUME NEW m \in C
               PROVE  /\ g.node[m].size \in Nat
                      /\ EndOf(g, m) \in C \union {g.brk} /\ EndOf(g, m) <= g.brk
                      /\ g.btag[EndOf(g, m) - 1] = g.node[m].size
    OBVIOUS
  <2>1. CASE m = n
    BY <2>1, <1>1
  <2>2. CASE m \in B
    <3>1. g.node[m].size \in Nat /\ EndOf(g, m) = EndOf(h, m) /\ EndOf(h, m) <= h.brk
          /\ g.btag[EndOf(g, m) - 1] = g.node[m].size
          /\ EndOf(h, m) \in B \union {h.brk}
      BY <2>2, <1>2 DEF Tiled
    <3> QED
      BY <3>1, <2>2, <1>0, <1>1
  <2> QED
    BY <2>1, <2>2
<1>4. \A m1, m2 \in C : m1 < m2 => EndOf(g, m1) <= m2
  <2> SUFFICES ASSUME NEW m1 \in C, NEW m2 \in C, m1 < m2 PROVE EndOf(g, m1) <= m2
    OBVIOUS
  <2>1. m1 \in B
    BY <1>0, <1>1
  <2>2. CASE m2 = n
    BY <2>1, <2>2, <1>0, <1>2
  <2>3. CASE m2 \in B
    BY <2>1, <2>3, <1>2 DEF Tiled
  <2> QED
    BY <2>2, <2>3
<1>5. \A x \in C \union {g.brk} : x # 0 => \E m \in C : EndOf(g, m) = x
  <2> SUFFICES ASSUME NEW x \in C \union {g.brk}, x # 0 PROVE \E m \in C : EndOf(g, m) = x
    OBVIOUS
  <2>1. CASE x = g.brk
    BY <2>1
  <2>2. CASE x \in B \union {h.brk}
    <3>1. PICK m \in B : EndOf(h, m) = x
      BY <2>2 DEF Tiled
    <3> QED
      BY <3>1, <1>2
  <2> QED
    BY <2>1, <2>2
<1>6. 0 \in C /\ g.tail \in C
  <2>1. CASE h.brk = 0
    BY <2>1 DEF Tiled
  <2>2. CASE h.brk # 0
    <3>1. 0 \in B /\ h.tail \in B
      BY <2>2, <1>0 DEF Tiled
    <3>2. h.tail # NoAddr
      BY <3>1, <1>0 DEF NoAddr
    <3> QED
      BY <3>1, <3>2
  <2> QED
    BY <2>1, <2>2
<1>7. C \subseteq Cells /\ g.brk \in 0 .. HeapSize
  <2>1. n \in Cells
    BY <1>0, <1>1 DEF Cells
  <2> QED
    BY <2>1, <1>0, <1>1
<1> QED
  BY <1>1, <1>3, <1>4, <1>5, <1>6, <1>7 DEF Tiled

-----------------------------------------------------------------------------
\* The free list.
LEMMA SameList ==
  ASSUME NEW h, NEW g, NEW F, NEW k, NEW L, Listed(h, F, k, L), g.head = h.head,
         \A n \in F : g.node[n].prev = h.node[n].prev /\ g.node[n].next = h.node[n].next
  PROVE  Listed(g, F, k, L)
<1>1. \A i \in 1 .. k : L[i] \in F
  BY DEF Listed
<1>2. \A i \in 2 .. k : i \in 1 .. k
  BY DEF Listed
<1> QED
  BY <1>1, <1>2 DEF Listed

\* n is taken out of the list, or put in front of it.
LinksCut(h, g, F, n) ==
    /\ n = h.head =>
        /\ g.head = h.node[n].next
        /\ \A a \in F \ {n} : g.node[a].prev = h.node[a].prev /\ g.node[a].next = h.node[a].next
    /\ n # h.head =>
        /\ g.head = h.head
        /\ \A a \in F \ {n} :
              /\ g.node[a].next = IF a = h.node[n].prev THEN h.node[n].next ELSE h.node[a].next
              /\ g.node[a].prev = IF a # h.node[n].prev /\ a = h.node[n].next
                                  THEN h.node[n].prev ELSE h.node[a].prev

LinksAdded(h, g, F, n) ==
    /\ g.head = n /\ g.node[n].next = h.head
    /\ \A a \in F : /\ g.node[a].next = h.node[a].next
                    /\ g.node[a].prev = IF a = h.head THEN n ELSE h.node[a].prev

LEMMA RemoveList ==
  ASSUME NEW h, NEW g, NEW F, NEW k, NEW L, Listed(h, F, k, L), NEW n \in F, NoAddr \notin F,
         LinksCut(h, g, F, n)
  PROVE  \E M : Listed(g, F \ {n}, k - 1, M)
<1> USE DEF LinksCut
<1>1. k \in Nat /\ (\A i \in 1 .. k : L[i] \in F) /\ (\A i, j \in 1 .. k : L[i] = L[j] => i = j)
  BY DEF Listed
<1>2. PICK x \in 1 .. k : L[x] = n
  BY DEF Listed
<1>3. k \in Nat /\ k >= 1 /\ x \in Nat /\ x >= 1 /\ x <= k /\ k - 1 \in Nat
  BY <1>1, <1>2
<1> DEFINE M == [i \in 1 .. k - 1 |-> IF i < x THEN L[i] ELSE L[i + 1]]
           To(i) == IF i < x THEN i ELSE i + 1
<1>4. \A i \in 1 .. k - 1 : To(i) \in 1 .. k /\ To(i) # x /\ M[i] = L[To(i)]
  BY <1>1, <1>2, <1>3
<1>5. \A i, j \in 1 .. k - 1 : To(i) = To(j) => i = j
  BY <1>1, <1>2, <1>3
<1>6. \A i \in 1 .. k : i # x => \E j \in 1 .. k - 1 : To(j) = i
  <2> SUFFICES ASSUME NEW i \in 1 .. k, i # x PROVE \E j \in 1 .. k - 1 : To(j) = i
    OBVIOUS
  <2>1. CASE i < x
    BY <2>1, <1>2, <1>3
  <2>2. CASE i > x
    <3>1. i - 1 \in 1 .. k - 1 /\ To(i - 1) = i
      BY <2>2, <1>2, <1>3
    <3> QED
      BY <3>1
  <2> QED
    BY <2>1, <2>2, <1>2, <1>3
<1>7. M \in [1 .. k - 1 -> F \ {n}]
  <2>1. \A i \in 1 .. k - 1 : M[i] \in F \ {n}
    BY <1>4, <1>1, <1>2
  <2> QED
    BY <2>1
<1>8. \A i \in 1 .. k : L[i] # n => i # x
  BY <1>2
<1>9. /\ h.head = L[1] /\ (n = h.head <=> x = 1)
      /\ \A i \in 1 .. k : h.node[L[i]].next = IF i = k THEN NoAddr ELSE L[i + 1]
      /\ \A i \in 2 .. k : h.node[L[i]].prev = L[i - 1]
  <2>1. h.head = L[1] /\ 1 \in 1 .. k
    BY <1>3 DEF Listed
  <2>2. n = h.head <=> x = 1
    BY <2>1, <1>1, <1>2
  <2> QED
    BY <2>1, <2>2 DEF Listed
<1> HIDE DEF M
<1>10. \A i, j \in 1 .. k - 1 : M[i] = M[j] => i = j
  BY <1>4, <1>5, <1>1
<1>11. \A m \in F \ {n} : \E i \in 1 .. k - 1 : M[i] = m
  <2> SUFFICES ASSUME NEW m \in F \ {n} PROVE \E i \in 1 .. k - 1 : M[i] = m
    OBVIOUS
  <2>1. PICK i \in 1 .. k : L[i] = m
    BY DEF Listed
  <2>2. PICK j \in 1 .. k - 1 : To(j) = i
    BY <2>1, <1>2, <1>6
  <2> QED
    BY <2>1, <2>2, <1>4
<1>12. CASE x = 1
  <2>1. \A i \in 1 .. k - 1 : M[i] = L[i + 1] /\ i + 1 \in 2 .. k
    BY <1>12, <1>3, <1>4
  <2>2. g.head = IF k - 1 = 0 THEN NoAddr ELSE M[1]
    <3>1. g.head = IF k = 1 THEN NoAddr ELSE L[2]
      BY <1>12, <1>9, <1>2
    <3>2. k # 1 => M[1] = L[2]
      BY <2>1, <1>3
    <3> QED
      BY <3>1, <3>2, <1>3
  <2>3. \A i \in 1 .. k - 1 : g.node[M[i]].next = IF i = k - 1 THEN NoAddr ELSE M[i + 1]
    <3> SUFFICES ASSUME NEW i \in 1 .. k - 1
                 PROVE  g.node[M[i]].next = IF i = k - 1 THEN NoAddr ELSE M[i + 1]
      OBVIOUS
    <3>1. g.node[M[i]].next = h.node[L[i + 1]].next
      BY <1>7, <1>9, <1>12, <2>1
    <3>2. h.node[L[i + 1]].next = IF i + 1 = k THEN NoAddr ELSE L[(i + 1) + 1]
      BY <2>1, <1>9, <1>3
    <3>3. i # k - 1 => M[i + 1] = L[(i + 1) + 1]
      BY <2>1, <1>3
    <3> QED
      BY <3>1, <3>2, <3>3, <1>3
  <2>4. \A i \in 2 .. k - 1 : g.node[M[i]].prev = M[i - 1]
    <3> SUFFICES ASSUME NEW i \in 2 .. k - 1 PROVE g.node[M[i]].prev = M[i - 1]
      OBVIOUS
    <3>0. i \in 1 .. k - 1 /\ i - 1 \in 1 .. k - 1 /\ i + 1 \in 2 .. k /\ (i - 1) + 1 = i
          /\ (i + 1) - 1 = i
      BY <1>3
    <3>1. g.node[M[i]].prev = h.node[L[i + 1]].prev
      BY <3>0, <1>7, <1>9, <1>12, <2>1
    <3>2. h.node[L[i + 1]].prev = L[i]
      BY <3>0, <1>9
    <3> QED
      BY <3>0, <3>1, <3>2, <2>1
  <2> QED
    BY <2>2, <2>3, <2>4, <1>3, <1>7, <1>10, <1>11 DEF Listed
<1>13. CASE x # 1
  <2>0. h.node[n].prev = L[x - 1] /\ x - 1 \in 1 .. k /\ n # h.head
        /\ h.node[n].next = IF x = k THEN NoAddr ELSE L[x + 1]
    <3>1. x \in 2 .. k /\ x - 1 \in 1 .. k
      BY <1>13, <1>2, <1>3
    <3> QED
      BY <3>1, <1>2, <1>9, <1>13
  <2>1. g.head = IF k - 1 = 0 THEN NoAddr ELSE M[1]
    <3>1. 1 \in 1 .. k - 1 /\ To(1) = 1
      BY <1>13, <1>2, <1>3
    <3> QED
      BY <3>1, <2>0, <1>4, <1>9
  <2>2. \A i \in 1 .. k - 1 : g.node[M[i]].next = IF i = k - 1 THEN NoAddr ELSE M[i + 1]
    <3> SUFFICES ASSUME NEW i \in 1 .. k - 1
                 PROVE  g.node[M[i]].next = IF i = k - 1 THEN NoAddr ELSE M[i + 1]
      OBVIOUS
    <3>1. M[i] \in F \ {n} /\ M[i] = L[To(i)] /\ To(i) \in 1 .. k
      BY <1>4, <1>7
    <3>2. CASE i = x - 1
      <4>1. To(i) = x - 1
        BY <3>2, <1>3
      <4>2. g.node[M[i]].next = h.node[n].next
        BY <4>1, <3>1, <2>0
      <4>3. i # k - 1 => M[i + 1] = L[x + 1]
        <5> SUFFICES ASSUME i # k - 1 PROVE M[i + 1] = L[x + 1]
          OBVIOUS
        <5>1. i + 1 \in 1 .. k - 1 /\ To(i + 1) = x + 1
          BY <3>2, <1>3
        <5> QED
          BY <5>1, <1>4
      <4>4. i = k - 1 <=> x = k
        BY <3>2, <1>3
      <4> QED
        BY <4>2, <4>3, <4>4, <2>0
    <3>3. CASE i # x - 1
      <4>1. To(i) # x - 1
        BY <3>3, <1>3
      <4>2. M[i] # L[x - 1]
        BY <4>1, <3>1, <2>0, <1>1
      <4>3. g.node[M[i]].next = IF To(i) = k THEN NoAddr ELSE L[To(i) + 1]
        BY <4>2, <3>1, <2>0, <1>9
      <4>4. To(i) = k <=> i = k - 1
        BY <3>3, <1>2, <1>3
      <4>5. i # k - 1 => i + 1 \in 1 .. k - 1 /\ To(i + 1) = To(i) + 1
        BY <3>3, <1>3
      <4> QED
        BY <4>3, <4>4, <4>5, <1>4
    <3> QED
      BY <3>2, <3>3
  <2>3. \A i \in 2 .. k - 1 : g.node[M[i]].prev = M[i - 1]
    <3> SUFFICES ASSUME NEW i \in 2 .. k - 1 PROVE g.node[M[i]].prev = M[i - 1]
      OBVIOUS
    <3>0. i \in 1 .. k - 1 /\ i - 1 \in 1 .. k - 1 /\ To(i) \in 2 .. k
      BY <1>3
    <3>1. M[i] \in F \ {n} /\ M[i] = L[To(i)] /\ To(i) \in 1 .. k /\ M[i - 1] = L[To(i - 1)]
      BY <1>4, <1>7, <3>0
    <3>2. CASE i = x
      <4>1. To(i) = x + 1 /\ To(i - 1) = x - 1 /\ x # k
        BY <3>2, <1>3
      <4>2. M[i] = h.node[n].next /\ M[i - 1] = h.node[n].prev
        BY <4>1, <3>1, <2>0
      <4>3. M[i] # h.node[n].prev
        <5>1. To(i) # x - 1
          BY <4>1, <1>3
        <5> QED
          BY <5>1, <3>1, <2>0, <1>1
      <4> QED
        BY <4>2, <4>3, <3>1, <2>0
    <3>3. CASE i # x
      <4>1. To(i - 1) = To(i) - 1
        BY <3>3, <3>0, <1>3
      <4>2. h.node[M[i]].prev = L[To(i) - 1]
        BY <3>0, <3>1, <1>9
      <4>3. M[i] # h.node[n].next
        <5>1. To(i) # x + 1
          BY <3>3, <3>0, <1>3
        <5>2. x # k => x + 1 \in 1 .. k
          BY <1>3, <1>2
        <5> QED
          BY <5>1, <5>2, <3>1, <2>0, <1>1
      <4> QED
        BY <4>1, <4>2, <4>3, <3>1, <2>0
    <3> QED
      BY <3>2, <3>3
  <2> QED
    BY <2>1, <2>2, <2>3, <1>3, <1>7, <1>10, <1>11 DEF Listed
<1> QED
  BY <1>12, <1>13

LEMMA InsertList ==
  ASSUME NEW h, NEW g, NEW F, NEW k, NEW L, Listed(h, F, k, L), NEW n, n \notin F,
         LinksAdded(h, g, F, n)
  PROVE  \E M : Listed(g, F \union {n}, k + 1, M)
<1> USE DEF LinksAdded
<1>1. k \in Nat /\ (\A i \in 1 .. k : L[i] \in F) /\ (\A i, j \in 1 .. k : L[i] = L[j] => i = j)
  BY DEF Listed
<1>2. /\ h.head = IF k = 0 THEN NoAddr ELSE L[1]
      /\ \A i \in 1 .. k : h.node[L[i]].next = IF i = k THEN NoAddr ELSE L[i + 1]
      /\ \A i \in 2 .. k : h.node[L[i]].prev = L[i - 1]
      /\ \A m \in F : \E i \in 1 .. k : L[i] = m
  BY DEF Listed
<1> DEFINE M == [i \in 1 .. k + 1 |-> IF i = 1 THEN n ELSE L[i - 1]]
<1>3. k + 1 \in Nat /\ k + 1 # 0 /\ 1 \in 1 .. k + 1 /\ M[1] = n
      /\ (\A i \in 2 .. k + 1 : i - 1 \in 1 .. k /\ M[i] = L[i - 1])
      /\ (\A i \in 1 .. k + 1 : i # 1 => i \in 2 .. k + 1)
      /\ (\A i \in 1 .. k : i + 1 \in 2 .. k + 1 /\ i + 1 \in 1 .. k + 1 /\ (i + 1) - 1 = i)
  BY <1>1
<1>4. M \in [1 .. k + 1 -> F \union {n}]
  BY <1>1, <1>3
<1> HIDE DEF M
<1>5. \A i, j \in 1 .. k + 1 : M[i] = M[j] => i = j
  <2> SUFFICES ASSUME NEW i \in 1 .. k + 1, NEW j \in 1 .. k + 1, M[i] = M[j] PROVE i = j
    OBVIOUS
  <2>1. \A m \in 2 .. k + 1 : M[m] # n
    BY <1>1, <1>3
  <2>2. CASE i = 1 \/ j = 1
    BY <2>1, <2>2, <1>3
  <2>3. CASE i # 1 /\ j # 1
    <3>1. i - 1 = j - 1
      BY <2>3, <1>1, <1>3
    <3> QED
      BY <3>1
  <2> QED
    BY <2>2, <2>3
<1>6. \A m \in F \union {n} : \E i \in 1 .. k + 1 : M[i] = m
  <2> SUFFICES ASSUME NEW m \in F PROVE \E i \in 1 .. k + 1 : M[i] = m
    BY <1>3
  <2>1. PICK i \in 1 .. k : L[i] = m
    BY <1>2
  <2> QED
    BY <2>1, <1>3
<1>7. \A i \in 1 .. k + 1 : g.node[M[i]].next = IF i = k + 1 THEN NoAddr ELSE M[i + 1]
  <2> SUFFICES ASSUME NEW i \in 1 .. k + 1
               PROVE  g.node[M[i]].next = IF i = k + 1 THEN NoAddr ELSE M[i + 1]
    OBVIOUS
  <2>1. CASE i = 1
    <3>1. k # 0 => M[2] = L[1] /\ 1 + 1 = 2
      BY <1>1, <1>3
    <3>2. 1 = k + 1 <=> k = 0
      BY <1>1
    <3> QED
      BY <2>1, <3>1, <3>2, <1>2, <1>3
  <2>2. CASE i # 1
    <3>1. i - 1 \in 1 .. k /\ M[i] = L[i - 1] /\ L[i - 1] \in F
      BY <2>2, <1>1, <1>3
    <3>2. g.node[M[i]].next = IF i - 1 = k THEN NoAddr ELSE L[(i - 1) + 1]
      BY <3>1, <1>2
    <3>3. i # k + 1 => M[i + 1] = L[(i - 1) + 1]
      <4> SUFFICES ASSUME i # k + 1 PROVE M[i + 1] = L[(i - 1) + 1]
        OBVIOUS
      <4>1. i + 1 \in 2 .. k + 1 /\ (i + 1) - 1 = (i - 1) + 1
        BY <1>1
      <4> QED
        BY <4>1, <1>3
    <3>4. i - 1 = k <=> i = k + 1
      BY <1>1
    <3> QED
      BY <3>2, <3>3, <3>4
  <2> QED
    BY <2>1, <2>2
<1>8. \A i \in 2 .. k + 1 : g.node[M[i]].prev = M[i - 1]
  <2> SUFFICES ASSUME NEW i \in 2 .. k + 1 PROVE g.node[M[i]].prev = M[i - 1]
    OBVIOUS
  <2>1. i - 1 \in 1 .. k /\ M[i] = L[i - 1] /\ L[i - 1] \in F /\ k # 0
    BY <1>1, <1>3
  <2>2. CASE i = 2
    <3>1. M[i] = h.head /\ M[i - 1] = n
      BY <2>1, <2>2, <1>2, <1>3
    <3> QED
      BY <2>1, <3>1
  <2>3. CASE i # 2
    <3>1. i - 1 \in 2 .. k /\ i - 1 \in 2 .. k + 1 /\ i - 1 # 1 /\ 1 \in 1 .. k
      BY <2>1, <2>3, <1>1
    <3>2. M[i] # h.head
      BY <2>1, <3>1, <1>1, <1>2
    <3>3. h.node[M[i]].prev = L[(i - 1) - 1]
      BY <2>1, <3>1, <1>2
    <3>4. M[i - 1] = L[(i - 1) - 1]
      BY <3>1, <1>3
    <3> QED
      BY <2>1, <3>2, <3>3, <3>4
  <2> QED
    BY <2>2, <2>3
<1>9. g.head = IF k + 1 = 0 THEN NoAddr ELSE M[1]
  BY <1>3
<1>10. Listed(g, F \union {n}, k + 1, M)
  BY <1>3, <1>4, <1>5, <1>6, <1>7, <1>8, <1>9 DEF Listed
<1> QED
  BY <1>10

-----------------------------------------------------------------------------
\* The operations on the free list, field by field.
LEMMA HeapFields ==
  ASSUME NEW h, HeapType(h)
  PROVE  /\ h.node \in [Cells -> Header] /\ h.btag \in [Cells -> Int]
         /\ h.head \in Int /\ h.tail \in Int /\ h.brk \in Int
         /\ \A a \in Cells : /\ h.node[a] \in Header /\ h.btag[a] \in Int
                             /\ h.node[a].size \in Int /\ h.node[a].is_free \in BOOLEAN
                             /\ h.node[a].prev \in Int /\ h.node[a].next \in Int
BY DEF HeapType, Header

\* One assignment at a time.
PutNode(h, n, m) == [h EXCEPT !.node[n] = m]
PutSize(h, n, v) == [h EXCEPT !.node[n].size = v]
PutFree(h, n, v) == [h EXCEPT !.node[n].is_free = v]
PutPrev(h, n, v) == [h EXCEPT !.node[n].prev = v]
PutNext(h, n, v) == [h EXCEPT !.node[n].next = v]
PutTag(h, n, v) == [h EXCEPT !.btag[n] = v]
PutHead(h, v) == [h EXCEPT !.head = v]
PutTail(h, v) == [h EXCEPT !.tail = v]
PutBrk(h, v) == [h EXCEPT !.brk = v]

NodeSet(g, h, n, m) ==
    /\ HeapType(g) /\ g.btag = h.btag /\ g.head = h.head /\ g.tail = h.tail /\ g.brk = h.brk
    /\ g.node[n] = m /\ \A a \in Cells \ {n} : g.node[a] = h.node[a]
SizeSet(g, h, n, v) ==
    /\ HeapType(g) /\ g.btag = h.btag /\ g.head = h.head /\ g.tail = h.tail /\ g.brk = h.brk
    /\ \A a \in Cells : /\ g.node[a].size = IF a = n THEN v ELSE h.node[a].size
                        /\ g.node[a].is_free = h.node[a].is_free
                        /\ g.node[a].prev = h.node[a].prev
                        /\ g.node[a].next = h.node[a].next
FreeSet(g, h, n, v) ==
    /\ HeapType(g) /\ g.btag = h.btag /\ g.head = h.head /\ g.tail = h.tail /\ g.brk = h.brk
    /\ \A a \in Cells : /\ g.node[a].size = h.node[a].size
                        /\ g.node[a].is_free = IF a = n THEN v ELSE h.node[a].is_free
                        /\ g.node[a].prev = h.node[a].prev
                        /\ g.node[a].next = h.node[a].next
PrevSet(g, h, n, v) ==
    /\ HeapType(g) /\ g.btag = h.btag /\ g.head = h.head /\ g.tail = h.tail /\ g.brk = h.brk
    /\ \A a \in Cells : /\ g.node[a].size = h.node[a].size
                        /\ g.node[a].is_free = h.node[a].is_free
                        /\ g.node[a].prev = IF a = n THEN v ELSE h.node[a].prev
                        /\ g.node[a].next = h.node[a].next
NextSet(g, h, n, v) ==
    /\ HeapType(g) /\ g.btag = h.btag /\ g.head = h.head /\ g.tail = h.tail /\ g.brk = h.brk
    /\ \A a \in Cells : /\ g.node[a].size = h.node[a].size
                        /\ g.node[a].is_free = h.node[a].is_free
                        /\ g.node[a].prev = h.node[a].prev
                        /\ g.node[a].next = IF a = n THEN v ELSE h.node[a].next
TagSet(g, h, n, v) ==
    /\ HeapType(g) /\ g.node = h.node /\ g.head = h.head /\ g.tail = h.tail /\ g.brk = h.brk
    /\ \A a \in Cells : g.btag[a] = IF a = n THEN v ELSE h.btag[a]
HeadSet(g, h, v) ==
    /\ HeapType(g) /\ g.node = h.node /\ g.btag = h.btag /\ g.head = v
    /\ g.tail = h.tail /\ g.brk = h.brk
TailSet(g, h, v) ==
    /\ HeapType(g) /\ g.node = h.node /\ g.btag = h.btag /\ g.head = h.head
    /\ g.tail = v /\ g.brk = h.brk
BrkSet(g, h, v) ==
    /\ HeapType(g) /\ g.node = h.node /\ g.btag = h.btag /\ g.head = h.head
    /\ g.tail = h.tail /\ g.brk = v

LEMMA SetNode ==
  ASSUME NEW h, HeapType(h), NEW n \in Cells, NEW m \in Header
  PROVE  NodeSet(PutNode(h, n, m), h, n, m)
<1> DEFINE g == PutNode(h, n, m)
<1>1. PICK N : N = [h.node EXCEPT ![n] = m]
  OBVIOUS
<1>2. N \in [Cells -> Header] /\ N[n] = m /\ \A a \in Cells \ {n} : N[a] = h.node[a]
  BY <1>1, HeapFields
<1>3. g = [h EXCEPT !.node = N]
  BY <1>1, Zenon DEF PutNode
<1> QED
  BY <1>2, <1>3 DEF HeapType, NodeSet

LEMMA SetSize ==
  ASSUME NEW h, HeapType(h), NEW n \in Cells, NEW v \in Int
  PROVE  SizeSet(PutSize(h, n, v), h, n, v)
<1> DEFINE g == PutSize(h, n, v)
<1>1. PICK o : o = h.node[n]
  OBVIOUS
<1>2. PICK m : m = [o EXCEPT !.size = v]
  OBVIOUS
<1>3. o \in Header
  BY <1>1, HeapFields
<1>4. m \in Header /\ m.size = v /\ m.is_free = o.is_free /\ m.prev = o.prev /\ m.next = o.next
  BY <1>2, <1>3 DEF Header
<1>5. g = PutNode(h, n, m)
  BY <1>1, <1>2, Zenon DEF PutSize, PutNode
<1> HIDE DEF g
<1>6. NodeSet(g, h, n, m)
  BY <1>4, <1>5, SetNode
<1>7. \A a \in Cells : a = n \/ a \in Cells \ {n}
  OBVIOUS
<1>8. SizeSet(g, h, n, v)
  BY <1>1, <1>4, <1>6, <1>7 DEF SizeSet, NodeSet
<1> QED
  BY <1>8 DEF g

LEMMA SetFree ==
  ASSUME NEW h, HeapType(h), NEW n \in Cells, NEW v \in BOOLEAN
  PROVE  FreeSet(PutFree(h, n, v), h, n, v)
<1> DEFINE g == PutFree(h, n, v)
<1>1. PICK o : o = h.node[n]
  OBVIOUS
<1>2. PICK m : m = [o EXCEPT !.is_free = v]
  OBVIOUS
<1>3. o \in Header
  BY <1>1, HeapFields
<1>4. m \in Header /\ m.size = o.size /\ m.is_free = v /\ m.prev = o.prev /\ m.next = o.next
  BY <1>2, <1>3 DEF Header
<1>5. g = PutNode(h, n, m)
  BY <1>1, <1>2, Zenon DEF PutFree, PutNode
<1> HIDE DEF g
<1>6. NodeSet(g, h, n, m)
  BY <1>4, <1>5, SetNode
<1>7. \A a \in Cells : a = n \/ a \in Cells \ {n}
  OBVIOUS
<1>8. FreeSet(g, h, n, v)
  BY <1>1, <1>4, <1>6, <1>7 DEF FreeSet, NodeSet
<1> QED
  BY <1>8 DEF g

LEMMA SetPrev ==
  ASSUME NEW h, HeapType(h), NEW n \in Cells, NEW v \in Int
  PROVE  PrevSet(PutPrev(h, n, v), h, n, v)
<1> DEFINE g == PutPrev(h, n, v)
<1>1. PICK o : o = h.node[n]
  OBVIOUS
<1>2. PICK m : m = [o EXCEPT !.prev = v]
  OBVIOUS
<1>3. o \in Header
  BY <1>1, HeapFields
<1>4. m \in Header /\ m.size = o.size /\ m.is_free = o.is_free /\ m.prev = v /\ m.next = o.next
  BY <1>2, <1>3 DEF Header
<1>5. g = PutNode(h, n, m)
  BY <1>1, <1>2, Zenon DEF PutPrev, PutNode
<1> HIDE DEF g
<1>6. NodeSet(g, h, n, m)
  BY <1>4, <1>5, SetNode
<1>7. \A a \in Cells : a = n \/ a \in Cells \ {n}
  OBVIOUS
<1>8. PrevSet(g, h, n, v)
  BY <1>1, <1>4, <1>6, <1>7 DEF PrevSet, NodeSet
<1> QED
  BY <1>8 DEF g

LEMMA SetNext ==
  ASSUME NEW h, HeapType(h), NEW n \in Cells, NEW v \in Int
  PROVE  NextSet(PutNext(h, n, v), h, n, v)
<1> DEFINE g == PutNext(h, n, v)
<1>1. PICK o : o = h.node[n]
  OBVIOUS
<1>2. PICK m : m = [o EXCEPT !.next = v]
  OBVIOUS
<1>3. o \in Header
  BY <1>1, HeapFields
<1>4. m \in Header /\ m.size = o.size /\ m.is_free = o.is_free /\ m.prev = o.prev /\ m.next = v
  BY <1>2, <1>3 DEF Header
<1>5. g = PutNode(h, n, m)
  BY <1>1, <1>2, Zenon DEF PutNext, PutNode
<1> HIDE DEF g
<1>6. NodeSet(g, h, n, m)
  BY <1>4, <1>5, SetNode
<1>7. \A a \in Cells : a = n \/ a \in Cells \ {n}
  OBVIOUS
<1>8. NextSet(g, h, n, v)
  BY <1>1, <1>4, <1>6, <1>7 DEF NextSet, NodeSet
<1> QED
  BY <1>8 DEF g

LEMMA SetTag ==
  ASSUME NEW h, HeapType(h), NEW n \in Cells, NEW v \in Int
  PROVE  TagSet(PutTag(h, n, v), h, n, v)
<1> DEFINE g == PutTag(h, n, v)
<1>1. PICK N : N = [h.btag EXCEPT ![n] = v]
  OBVIOUS
<1>2. N \in [Cells -> Int] /\ \A a \in Cells : N[a] = IF a = n THEN v ELSE h.btag[a]
  BY <1>1, HeapFields
<1>3. g = [h EXCEPT !.btag = N]
  BY <1>1, Zenon DEF PutTag
<1> QED
  BY <1>2, <1>3 DEF HeapType, TagSet

LEMMA SetHead ==
  ASSUME NEW h, HeapType(h), NEW v \in Int
  PROVE  HeadSet(PutHead(h, v), h, v)
BY DEF HeapType, PutHead, HeadSet

LEMMA SetTail ==
  ASSUME NEW h, HeapType(h), NEW v \in Int
  PROVE  TailSet(PutTail(h, v), h, v)
BY DEF HeapType, PutTail, TailSet

LEMMA SetBrk ==
  ASSUME NEW h, HeapType(h), NEW v \in Int
  PROVE  BrkSet(PutBrk(h, v), h, v)
BY DEF HeapType, PutBrk, BrkSet

\* remove_free and insert_free.
Unlinked(g, h, n) ==
    /\ HeapType(g) /\ g.btag = h.btag /\ g.tail = h.tail /\ g.brk = h.brk
    /\ \A a \in Cells : g.node[a].size = h.node[a].size /\ g.node[a].is_free = h.node[a].is_free
    /\ n = h.head => g.head = h.node[n].next /\ g.node = h.node
    /\ n # h.head =>
        /\ g.head = h.head
        /\ \A a \in Cells \ {n} :
              /\ g.node[a].next = IF a = h.node[n].prev THEN h.node[n].next ELSE h.node[a].next
              /\ g.node[a].prev = IF a # h.node[n].prev /\ a = h.node[n].next
                                  THEN h.node[n].prev ELSE h.node[a].prev

Linked(g, h, n) ==
    /\ HeapType(g) /\ g.btag = h.btag /\ g.tail = h.tail /\ g.brk = h.brk
    /\ \A a \in Cells : g.node[a].size = h.node[a].size /\ g.node[a].is_free = h.node[a].is_free
    /\ g.head = n /\ g.node[n].next = h.head
    /\ \A a \in Cells \ {n} : /\ g.node[a].next = h.node[a].next
                              /\ g.node[a].prev = IF a = h.head THEN n ELSE h.node[a].prev

LEMMA RemoveIs ==
  ASSUME NEW h, HeapType(h), NEW n \in Cells
  PROVE  Unlinked(Alloc!remove_free(h, n), h, n)
<1>0. PICK g : g = Alloc!remove_free(h, n)
  OBVIOUS
<1> SUFFICES Unlinked(g, h, n)
  BY <1>0
<1>1. CASE n = h.head
  <2>1. g = PutHead(h, h.node[n].next)
    BY <1>0, <1>1, Zenon DEF Alloc!remove_free, PutHead
  <2>2. h.node[n].next \in Int
    BY HeapFields
  <2>3. HeadSet(g, h, h.node[n].next)
    BY <2>1, <2>2, SetHead
  <2> QED
    BY <1>1, <2>3 DEF HeadSet, Unlinked
<1>2. CASE n # h.head
  <2> DEFINE P == h.node[n].prev
             X == h.node[n].next
             Link(a, m) == IF a = P THEN [m EXCEPT !.next = X]
                           ELSE IF a = X THEN [m EXCEPT !.prev = P]
                           ELSE IF a = n THEN [m EXCEPT !.prev = NoAddr, !.next = NoAddr]
                           ELSE m
             N == [a \in Cells |-> Link(a, h.node[a])]
  <2>1. g = [h EXCEPT !.node = N]
    BY <1>0, <1>2, HeapConstants, Zenon DEF Alloc!remove_free
  <2>2. P \in Int /\ X \in Int /\ NoAddr \in Int
    BY HeapFields DEF NoAddr
  <2>3. \A a \in Cells :
           /\ N[a] \in Header /\ N[a].size = h.node[a].size
           /\ N[a].is_free = h.node[a].is_free
           /\ a # n => /\ N[a].next = IF a = P THEN X ELSE h.node[a].next
                       /\ N[a].prev = IF a # P /\ a = X THEN P ELSE h.node[a].prev
    <3> SUFFICES ASSUME NEW a \in Cells
                 PROVE  /\ N[a] \in Header /\ N[a].size = h.node[a].size
                        /\ N[a].is_free = h.node[a].is_free
                        /\ a # n => /\ N[a].next = IF a = P THEN X ELSE h.node[a].next
                                    /\ N[a].prev = IF a # P /\ a = X THEN P
                                                   ELSE h.node[a].prev
      OBVIOUS
    <3>1. PICK m : m = h.node[a]
      OBVIOUS
    <3>2. m \in Header
      BY <3>1, HeapFields
    <3>3. N[a] = Link(a, m)
      BY <3>1
    <3> HIDE DEF P, X, N
    <3> QED
      BY <2>2, <3>1, <3>2, <3>3 DEF Header
  <2>4. N \in [Cells -> Header]
    BY <2>3
  <2>5. g.node = N /\ g.btag = h.btag /\ g.tail = h.tail /\ g.brk = h.brk /\ g.head = h.head
        /\ HeapType(g)
    <3> HIDE DEF N
    <3> QED
      BY <2>1, <2>4 DEF HeapType
  <2> HIDE DEF N
  <2> QED
    BY <1>2, <2>3, <2>5 DEF Unlinked
<1> QED
  BY <1>1, <1>2

LEMMA InsertIs ==
  ASSUME NEW h, HeapType(h), NEW n \in Cells, h.head \in Cells \union {NoAddr}, n # h.head
  PROVE  Linked(Alloc!insert_free(h, n), h, n)
<1>0. PICK g : g = Alloc!insert_free(h, n)
  OBVIOUS
<1> SUFFICES Linked(g, h, n)
  BY <1>0
<1>1. NoAddr \in Int /\ n \in Int /\ NoAddr \notin Cells /\ h.head \in Int
  BY HeapConstants, HeapFields DEF NoAddr, Cells
<1>2. PICK h1 : h1 = PutPrev(h, n, NoAddr)
  OBVIOUS
<1>3. PICK h2 : h2 = PutNext(h1, n, h.head)
  OBVIOUS
<1>4. PrevSet(h1, h, n, NoAddr)
  BY <1>1, <1>2, SetPrev
<1>5. NextSet(h2, h1, n, h.head)
  <2>1. HeapType(h1)
    BY <1>4 DEF PrevSet
  <2> QED
    BY <2>1, <1>1, <1>3, SetNext
<1>6. HeapType(h2)
  BY <1>5 DEF NextSet
<1>7. CASE h.head = NoAddr
  <2>1. g = [h EXCEPT !.node[n].prev = NoAddr, !.node[n].next = NoAddr, !.head = n]
    BY <1>0, <1>7, HeapConstants, Zenon DEF Alloc!insert_free
  <2>2. g = PutHead(h2, n)
    BY <2>1, <1>2, <1>3, <1>7, Zenon DEF PutPrev, PutNext, PutHead
  <2>3. HeadSet(g, h2, n)
    BY <2>2, <1>1, <1>6, SetHead
  <2> QED
    BY <2>3, <1>1, <1>4, <1>5, <1>7 DEF HeadSet, PrevSet, NextSet, Linked
<1>8. CASE h.head # NoAddr
  <2>0. h.head \in Cells
    BY <1>8
  <2>1. g = [h EXCEPT !.node[n].prev = NoAddr, !.node[n].next = h.head,
                      !.node[h.head].prev = n, !.head = n]
    BY <1>0, <1>8, HeapConstants, Zenon DEF Alloc!insert_free
  <2>2. PICK h3 : h3 = PutPrev(h2, h.head, n)
    OBVIOUS
  <2>3. PrevSet(h3, h2, h.head, n)
    BY <2>0, <2>2, <1>1, <1>6, SetPrev
  <2>4. g = PutHead(h3, n)
    BY <2>1, <2>2, <1>2, <1>3, Zenon DEF PutPrev, PutNext, PutHead
  <2>5. HeadSet(g, h3, n)
    <3>1. HeapType(h3)
      BY <2>3 DEF PrevSet
    <3> QED
      BY <2>4, <3>1, <1>1, SetHead
  <2> QED
    BY <2>0, <2>3, <2>5, <1>4, <1>5 DEF HeadSet, PrevSet, NextSet, Linked
<1> QED
  BY <1>7, <1>8

LEMMA RemoveKeeps ==
  ASSUME NEW h, HeapType(h), NEW B, Tiled(h, B), NEW F, F \subseteq B, NEW k, NEW L,
         Listed(h, F, k, L), NEW n \in F, NEW g, g = Alloc!remove_free(h, n)
  PROVE  Unlinked(g, h, n) /\ Tiled(g, B) /\ \E M : Listed(g, F \ {n}, k - 1, M)
<1>0. B \subseteq Cells /\ F \subseteq Cells /\ n \in Cells /\ NoAddr \notin F
  BY BlockBounds DEF Cells, NoAddr
<1>1. Unlinked(g, h, n)
  BY <1>0, RemoveIs
<1>2. SameBlocks(h, g, B)
  BY <1>0, <1>1 DEF Unlinked, SameBlocks
<1>3. LinksCut(h, g, F, n)
  BY <1>0, <1>1 DEF Unlinked, LinksCut
<1>4. \E M : Listed(g, F \ {n}, k - 1, M)
  BY <1>0, <1>3, RemoveList
<1> QED
  BY <1>1, <1>2, <1>4, SameTiles

LEMMA InsertKeeps ==
  ASSUME NEW h, HeapType(h), NEW F, F \subseteq Cells, NEW k, NEW L, Listed(h, F, k, L),
         NEW n \in Cells \ F, NEW g, g = Alloc!insert_free(h, n)
  PROVE  Linked(g, h, n) /\ \E M : Listed(g, F \union {n}, k + 1, M)
<1>0. h.head \in F \union {NoAddr} /\ NoAddr \notin Cells
  <2>1. k \in Nat /\ h.head = IF k = 0 THEN NoAddr ELSE L[1]
    BY DEF Listed
  <2>2. k # 0 => L[1] \in F
    BY <2>1 DEF Listed
  <2>3. NoAddr \notin Cells
    BY DEF NoAddr, Cells
  <2> QED
    BY <2>1, <2>2, <2>3
<1>1. Linked(g, h, n)
  BY <1>0, InsertIs
<1>2. LinksAdded(h, g, F, n)
  BY <1>1 DEF Linked, LinksAdded
<1>3. \E M : Listed(g, F \union {n}, k + 1, M)
  BY <1>2, InsertList
<1> QED
  BY <1>1, <1>3

LEMMA InsertTiles ==
  ASSUME NEW h, NEW B, Tiled(h, B), NEW g, NEW n, Linked(g, h, n)
  PROVE  Tiled(g, B)
<1>1. SameBlocks(h, g, B)
  BY BlockBounds DEF Linked, SameBlocks
<1> QED
  BY <1>1, SameTiles

-----------------------------------------------------------------------------
\* The neighbours of a block.
LEMMA NextIs ==
  ASSUME NEW h, HeapType(h), NEW B, Tiled(h, B), NEW n \in B
  PROVE  \/ Alloc!get_next_mem(h, n) = NoAddr /\ h.tail < EndOf(h, n)
         \/ Alloc!get_next_mem(h, n) = EndOf(h, n) /\ EndOf(h, n) \in B /\ EndOf(h, n) <= h.tail
<1>1. Alloc!get_next_mem(h, n) = IF EndOf(h, n) > h.tail THEN NoAddr ELSE EndOf(h, n)
  BY HeapConstants DEF Alloc!get_next_mem, EndOf
<1>2. h.tail \in B /\ EndOf(h, n) \in B \union {h.brk}
  BY BlockBounds DEF Tiled
<1>3. h.tail < h.brk /\ h.tail \in Int /\ EndOf(h, n) \in Int /\ h.brk \in Int
  BY <1>2, BlockBounds
<1> QED
  BY <1>1, <1>2, <1>3

LEMMA PrevIs ==
  ASSUME NEW h, HeapType(h), NEW B, Tiled(h, B), NEW n \in B
  PROVE  \/ n = 0 /\ Alloc!get_prev_mem(h, n) = NoAddr
         \/ /\ Alloc!get_prev_mem(h, n) \in B
            /\ EndOf(h, Alloc!get_prev_mem(h, n)) = n
<1>1. CASE n = 0
  BY <1>1, HeapConstants DEF Alloc!get_prev_mem
<1>2. CASE n # 0
  <2>1. PICK m \in B : EndOf(h, m) = n
    BY <1>2 DEF Tiled
  <2>2. h.btag[n - 1] = h.node[m].size
    BY <2>1 DEF Tiled
  <2>3. m \in Int /\ m >= 0 /\ h.node[m].size \in Nat
    BY BlockBounds
  <2>4. n - 2 - h.btag[n - 1] = m
    BY <2>1, <2>2, <2>3 DEF EndOf
  <2>5. Alloc!get_prev_mem(h, n) = m
    BY <1>2, <2>3, <2>4, HeapConstants DEF Alloc!get_prev_mem
  <2> QED
    BY <2>1, <2>5
<1> QED
  BY <1>1, <1>2

\* The size of a block that has taken in its neighbours, and its tag.
SizeUpdated(g, h, n, t, v) ==
    /\ HeapType(g) /\ g.head = h.head /\ g.tail = h.tail /\ g.brk = h.brk
    /\ \A a \in Cells : /\ g.node[a].size = IF a = n THEN v ELSE h.node[a].size
                        /\ g.node[a].is_free = h.node[a].is_free
                        /\ g.node[a].prev = h.node[a].prev
                        /\ g.node[a].next = h.node[a].next
                        /\ g.btag[a] = IF a = t THEN v ELSE h.btag[a]

LEMMA UpdateIs ==
  ASSUME NEW h, HeapType(h), NEW n \in Cells, NEW t \in Cells, NEW d \in Int
  PROVE  SizeUpdated(Alloc!update_node_size(h, n, t, d), h, n, t, h.node[n].size + d)
<1>1. PICK v : v = h.node[n].size + d
  OBVIOUS
<1>2. v \in Int
  BY <1>1, HeapFields
<1>3. PICK g : g = Alloc!update_node_size(h, n, t, d)
  OBVIOUS
<1>4. PICK h1 : h1 = PutSize(h, n, v)
  OBVIOUS
<1>5. g = PutTag(h1, t, v)
  BY <1>1, <1>3, <1>4, Zenon DEF Alloc!update_node_size, PutSize, PutTag
<1>6. SizeSet(h1, h, n, v)
  BY <1>2, <1>4, SetSize
<1>7. TagSet(g, h1, t, v)
  <2>1. HeapType(h1)
    BY <1>6 DEF SizeSet
  <2> QED
    BY <2>1, <1>2, <1>5, SetTag
<1>8. SizeUpdated(g, h, n, t, v)
  BY <1>6, <1>7 DEF SizeSet, TagSet, SizeUpdated
<1> QED
  BY <1>1, <1>3, <1>8

-----------------------------------------------------------------------------
\* free.

\* What is left of the blocks B when the ones between n and e are part of n.
Merged(B, n, e) == {m \in B : m <= n \/ m >= e}

LEMMA MergeBlocks ==
  ASSUME NEW h, NEW h2, NEW g, NEW B, Tiled(h, B), NEW n \in B, NEW e \in B \union {h.brk}, n < e,
         \A a \in Cells : h2.node[a].size = h.node[a].size, h2.btag = h.btag, h2.brk = h.brk,
         h2.tail \in Merged(B, n, e), NEW v, v = e - n - 2, v \in Nat,
         NEW t, t = e - 1, SizeUpdated(g, h2, n, t, v)
  PROVE  Tiled(g, Merged(B, n, e))
<1>0. HeapSize \in Nat /\ h.brk \in 0 .. HeapSize /\ B \subseteq Cells
      /\ (\A m \in B : m \in Int /\ m >= 0 /\ m < h.brk /\ h.node[m].size \in Nat
                       /\ EndOf(h, m) \in Int /\ EndOf(h, m) > m + 1 /\ EndOf(h, m) <= h.brk)
  BY BlockBounds
<1> DEFINE C == Merged(B, n, e)
<1>1. C = {m \in B : m <= n \/ m >= e}
  BY DEF Merged
<1>2. e \in Int /\ e <= h.brk
  BY <1>0
<1>3. \A m \in C \ {n} : /\ m \in Cells /\ m # n /\ EndOf(h, m) - 1 \in Cells
                         /\ EndOf(h, m) - 1 # e - 1
  <2> SUFFICES ASSUME NEW m \in C \ {n}
               PROVE  /\ m \in Cells /\ m # n /\ EndOf(h, m) - 1 \in Cells
                      /\ EndOf(h, m) - 1 # e - 1
    OBVIOUS
  <2>1. m \in B /\ m # n /\ (m < n \/ m >= e)
    BY <1>0, <1>1
  <2>2. m < n => EndOf(h, m) <= n
    BY <2>1 DEF Tiled
  <2>3. EndOf(h, m) # e
    BY <2>1, <2>2, <1>0, <1>2
  <2>4. EndOf(h, m) - 1 \in Cells
    BY <2>1, <1>0 DEF Cells
  <2>5. EndOf(h, m) - 1 # e - 1
    BY <2>1, <2>3, <1>0, <1>2
  <2> QED
    BY <2>1, <2>4, <2>5, <1>0
<1>4. g.brk = h.brk /\ g.tail \in C /\ g.node[n].size = v
      /\ (\A m \in C \ {n} : /\ g.node[m].size = h.node[m].size
                             /\ g.btag[EndOf(h, m) - 1] = h.btag[EndOf(h, m) - 1])
  <2>1. n \in Cells
    BY <1>0
  <2> QED
    BY <2>1, <1>3 DEF SizeUpdated
<1>5. EndOf(g, n) = e
  BY <1>0, <1>2, <1>4 DEF EndOf
<1>6. g.btag[e - 1] = v
  <2>1. e - 1 \in Cells
    BY <1>0, <1>2 DEF Cells
  <2> QED
    BY <2>1 DEF SizeUpdated
<1> HIDE DEF C
<1>7. Tiled(g, C)
  BY <1>1, <1>4, <1>5, <1>6, MergeTiles
<1> QED
  BY <1>7 DEF C

\* tail_mem when the last block it knew is merged into the block n.
LEMMA TailMoves ==
  ASSUME NEW h, HeapType(h), NEW B, Tiled(h, B), NEW x \in B, NEW n \in B, NEW e, e = EndOf(h, x),
         NEW g, g = IF Alloc!get_next_mem(h, x) = NoAddr THEN PutTail(h, n) ELSE h
  PROVE  /\ HeapType(g) /\ g.node = h.node /\ g.btag = h.btag /\ g.head = h.head /\ g.brk = h.brk
         /\ g.tail \in Merged(B, n, e)
<1>0. n \in Int /\ e \in Int /\ e > 0 /\ h.tail \in B
  BY BlockBounds DEF Tiled
<1>1. CASE Alloc!get_next_mem(h, x) = NoAddr
  <2>1. TailSet(g, h, n)
    BY <1>0, <1>1, SetTail
  <2> QED
    BY <2>1, <1>0 DEF TailSet, Merged
<1>2. CASE Alloc!get_next_mem(h, x) # NoAddr
  <2>1. e <= h.tail
    BY <1>2, NextIs
  <2> QED
    BY <1>0, <1>2, <2>1 DEF Merged
<1> QED
  BY <1>1, <1>2

\* From the blocks B of h to the blocks C of g, what the client holds has lost n.
Released(h, g, B, C, n) ==
    /\ C \subseteq B
    /\ \A m \in B : m # n /\ ~h.node[m].is_free =>
          m \in C /\ ~g.node[m].is_free /\ g.node[m].size = h.node[m].size
    /\ \A m \in C : ~g.node[m].is_free => ~h.node[m].is_free /\ m # n

Less(l, p) == [q \in DOMAIN l \ {p} |-> l[q]]

LEMMA HeldLess ==
  ASSUME NEW h, NEW g, NEW B, NEW C, NEW l, Held(h, B, l), NEW p \in DOMAIN l, B \subseteq Int,
         Released(h, g, B, C, p - 1)
  PROVE  Held(g, C, Less(l, p))
<1>1. DOMAIN Less(l, p) = DOMAIN l \ {p} /\ \A q \in DOMAIN l \ {p} : Less(l, p)[q] = l[q]
  BY DEF Less
<1>2. ASSUME NEW q \in DOMAIN l \ {p}
      PROVE  /\ q \in Int /\ l[q] \in Int /\ q - 1 \in C
             /\ ~g.node[q - 1].is_free /\ g.node[q - 1].size >= l[q]
  <2>1. q \in Int /\ p \in Int /\ l[q] \in Int /\ q - 1 \in B
        /\ ~h.node[q - 1].is_free /\ h.node[q - 1].size >= l[q]
    BY DEF Held
  <2>2. q - 1 # p - 1
    BY <2>1
  <2> QED
    BY <2>1, <2>2 DEF Released
<1>3. ASSUME NEW m \in C, ~g.node[m].is_free PROVE m + 1 \in DOMAIN l \ {p}
  <2>1. m \in B /\ ~h.node[m].is_free /\ m # p - 1
    BY <1>3 DEF Released
  <2>2. m + 1 \in DOMAIN l /\ p \in Int
    BY <2>1 DEF Held
  <2> QED
    BY <2>1, <2>2
<1> QED
  BY <1>1, <1>2, <1>3 DEF Held

LEMMA Three ==
  ASSUME NEW h, HeapType(h), NEW B, Tiled(h, B), NEW F, F = FreeOf(h, B), NEW k, NEW L,
         Listed(h, F, k, L), NEW n \in B, n \notin F, NEW prev \in F, EndOf(h, prev) = n,
         NEW next \in F, EndOf(h, n) = next,
         NEW g, g = Alloc!coalesce_three_blocks(h, n, prev, next)
  PROVE  \E C, j, M : /\ HeapType(g) /\ Tiled(g, C) /\ Listed(g, FreeOf(g, C), j, M)
                      /\ Released(h, g, B, C, n)
<1>0. B \subseteq Cells /\ F \subseteq B /\ HeapSize \in Nat /\ h.brk \in 0 .. HeapSize
      /\ (\A m \in B : m \in Int /\ m >= 0 /\ m < h.brk /\ h.node[m].size \in Nat
                       /\ EndOf(h, m) \in Int /\ EndOf(h, m) > m + 1 /\ EndOf(h, m) <= h.brk)
  BY BlockBounds DEF FreeOf
<1>1. PICK h1 : h1 = Alloc!remove_free(h, next)
  OBVIOUS
<1>2. Unlinked(h1, h, next) /\ Tiled(h1, B) /\ HeapType(h1)
  <2>1. Unlinked(h1, h, next) /\ Tiled(h1, B)
    BY <1>0, <1>1, RemoveKeeps
  <2> QED
    BY <2>1 DEF Unlinked
<1>3. PICK M : Listed(h1, F \ {next}, k - 1, M)
  BY <1>0, <1>1, RemoveKeeps
<1>4. PICK e : e = EndOf(h, next)
  OBVIOUS
<1>5. EndOf(h1, next) = e
  BY <1>0, <1>2, <1>4 DEF Unlinked, EndOf
<1>6. PICK h2 : h2 = IF Alloc!get_next_mem(h1, next) = NoAddr THEN PutTail(h1, prev) ELSE h1
  OBVIOUS
<1>7. /\ HeapType(h2) /\ h2.node = h1.node /\ h2.btag = h1.btag /\ h2.head = h1.head
      /\ h2.brk = h1.brk /\ h2.tail \in Merged(B, prev, e)
  BY <1>0, <1>2, <1>5, <1>6, TailMoves
<1>8. PICK d : d = 4 + h.node[n].size + h.node[next].size
  OBVIOUS
<1>9. PICK t : t = e - 1
  OBVIOUS
<1>10. g = Alloc!update_node_size(h2, prev, t, d)
  <2>1. Alloc!get_node_btag(h2, next) = t
    <3>1. Alloc!get_node_btag(h2, next) = next + 1 + h2.node[next].size
      BY DEF Alloc!get_node_btag
    <3>2. h2.node[next].size = h.node[next].size
      BY <1>0, <1>2, <1>7 DEF Unlinked
    <3> QED
      BY <3>1, <3>2, <1>0, <1>4, <1>9 DEF EndOf
  <2>2. d = 2 * Alloc!meta_btag_size + h.node[n].size + h.node[next].size
    BY <1>8, HeapConstants
  <2>3. h2 = IF Alloc!get_next_mem(h1, next) = Alloc!None THEN [h1 EXCEPT !.tail = prev] ELSE h1
    BY <1>6, HeapConstants, Zenon DEF PutTail
  <2> QED
    BY <2>1, <2>2, <2>3, <1>1, Zenon DEF Alloc!coalesce_three_blocks
<1>11. PICK v : v = h2.node[prev].size + d
  OBVIOUS
<1>12. /\ d \in Int /\ t \in Cells /\ e \in Int /\ prev \in Cells
       /\ v = e - prev - 2 /\ v \in Nat /\ prev < n /\ n < next /\ next < e
  <2>1. h2.node[prev].size = h.node[prev].size
    BY <1>0, <1>2, <1>7 DEF Unlinked
  <2>2. prev + 2 + h.node[prev].size = n /\ n + 2 + h.node[n].size = next
        /\ next + 2 + h.node[next].size = e
    BY <1>4 DEF EndOf
  <2>3. /\ prev \in Int /\ n \in Int /\ next \in Int /\ e \in Int /\ prev >= 0 /\ e <= h.brk
        /\ h.node[prev].size \in Nat /\ h.node[n].size \in Nat /\ h.node[next].size \in Nat
        /\ prev \in Cells
    BY <1>0, <1>4
  <2>4. v = e - prev - 2 /\ v \in Nat /\ d \in Int /\ prev < n /\ n < next /\ next < e
    BY <2>1, <2>2, <2>3, <1>8, <1>11
  <2>5. t \in Cells
    BY <2>3, <2>4, <1>0, <1>9 DEF Cells
  <2> QED
    BY <2>3, <2>4, <2>5
<1>13. SizeUpdated(g, h2, prev, t, v)
  BY <1>7, <1>10, <1>11, <1>12, UpdateIs
<1> DEFINE C == Merged(B, prev, e)
<1>14. Tiled(g, C)
  <2>1. e \in B \union {h1.brk}
    <3>1. e \in B \union {h.brk} /\ h1.brk = h.brk
      BY <1>0, <1>2, <1>4 DEF Unlinked, Tiled
    <3> QED
      BY <3>1
  <2>2. (\A a \in Cells : h2.node[a].size = h1.node[a].size)
        /\ h2.btag = h1.btag /\ h2.brk = h1.brk
    BY <1>7
  <2>3. prev < e
    BY <1>0, <1>12
  <2> QED
    BY <2>1, <2>2, <2>3, <1>0, <1>2, <1>7, <1>9, <1>12, <1>13, MergeBlocks
<1>15. C = B \ {n, next}
  <2>1. \A m \in B : m < n => EndOf(h, m) <= n
    BY DEF Tiled
  <2>2. \A m \in B : m < next /\ m > n => FALSE
    BY <1>0 DEF Tiled
  <2>3. \A m \in B : m < e /\ m > next => FALSE
    BY <1>0, <1>4 DEF Tiled
  <2>4. \A m \in B : m < n /\ m > prev => FALSE
    BY <1>0 DEF Tiled
  <2> QED
    BY <2>2, <2>3, <2>4, <1>0, <1>12 DEF Merged
<1>16. \A a \in Cells : g.node[a].is_free = h.node[a].is_free
  BY <1>2, <1>7, <1>13 DEF SizeUpdated, Unlinked
<1>17. FreeOf(g, C) = F \ {next}
  BY <1>0, <1>15, <1>16 DEF FreeOf
<1>18. Listed(g, F \ {next}, k - 1, M)
  <2>1. g.head = h1.head
        /\ \A a \in F \ {next} : g.node[a].prev = h1.node[a].prev /\ g.node[a].next = h1.node[a].next
    BY <1>0, <1>7, <1>13 DEF SizeUpdated
  <2> QED
    BY <2>1, <1>3, SameList
<1>19. Released(h, g, B, C, n)
  <2>1. \A m \in B : m # prev => g.node[m].size = h.node[m].size
    BY <1>0, <1>2, <1>7, <1>13 DEF SizeUpdated, Unlinked
  <2>2. h.node[prev].is_free /\ h.node[next].is_free
    BY DEF FreeOf
  <2> QED
    BY <2>1, <2>2, <1>0, <1>15, <1>16 DEF Released
<1>20. HeapType(g)
  BY <1>13 DEF SizeUpdated
<1> QED
  BY <1>14, <1>17, <1>18, <1>19, <1>20

LEMMA Before ==
  ASSUME NEW h, HeapType(h), NEW B, Tiled(h, B), NEW F, F = FreeOf(h, B), NEW k, NEW L,
         Listed(h, F, k, L), NEW n \in B, n \notin F, NEW prev \in F, EndOf(h, prev) = n,
         NEW next, next = Alloc!get_next_mem(h, n),
         NEW g, g = Alloc!coalesce_two_blocks_before(h, n, prev, next)
  PROVE  \E C, j, M : /\ HeapType(g) /\ Tiled(g, C) /\ Listed(g, FreeOf(g, C), j, M)
                      /\ Released(h, g, B, C, n)
<1>0. B \subseteq Cells /\ F \subseteq B /\ HeapSize \in Nat /\ h.brk \in 0 .. HeapSize
      /\ (\A m \in B : m \in Int /\ m >= 0 /\ m < h.brk /\ h.node[m].size \in Nat
                       /\ EndOf(h, m) \in Int /\ EndOf(h, m) > m + 1 /\ EndOf(h, m) <= h.brk)
  BY BlockBounds DEF FreeOf
<1>1. PICK e : e = EndOf(h, n)
  OBVIOUS
<1>2. PICK h1 : h1 = IF next = NoAddr THEN PutTail(h, prev) ELSE h
  OBVIOUS
<1>3. /\ HeapType(h1) /\ h1.node = h.node /\ h1.btag = h.btag /\ h1.head = h.head
      /\ h1.brk = h.brk /\ h1.tail \in Merged(B, prev, e)
  BY <1>0, <1>1, <1>2, TailMoves
<1>4. PICK d : d = 2 + h.node[n].size
  OBVIOUS
<1>5. PICK t : t = e - 1
  OBVIOUS
<1>6. g = Alloc!update_node_size(h1, prev, t, d)
  <2>1. Alloc!get_node_btag(h, n) = t
    BY <1>0, <1>1, <1>5 DEF Alloc!get_node_btag, EndOf
  <2>2. d = Alloc!meta_btag_size + h.node[n].size
    BY <1>4, HeapConstants
  <2>3. h1 = IF next = Alloc!None THEN [h EXCEPT !.tail = prev] ELSE h
    BY <1>2, HeapConstants, Zenon DEF PutTail
  <2> QED
    BY <2>1, <2>2, <2>3, Zenon DEF Alloc!coalesce_two_blocks_before
<1>7. PICK v : v = h1.node[prev].size + d
  OBVIOUS
<1>8. /\ d \in Int /\ t \in Cells /\ e \in Int /\ prev \in Cells
      /\ v = e - prev - 2 /\ v \in Nat /\ prev < n /\ n < e /\ prev < e
  <2>1. h1.node[prev].size = h.node[prev].size
    BY <1>3
  <2>2. prev + 2 + h.node[prev].size = n /\ n + 2 + h.node[n].size = e
    BY <1>1 DEF EndOf
  <2>3. /\ prev \in Int /\ n \in Int /\ e \in Int /\ prev >= 0 /\ e <= h.brk
        /\ h.node[prev].size \in Nat /\ h.node[n].size \in Nat /\ prev \in Cells
    BY <1>0, <1>1
  <2>4. v = e - prev - 2 /\ v \in Nat /\ d \in Int /\ prev < n /\ n < e /\ prev < e
    BY <2>1, <2>2, <2>3, <1>4, <1>7
  <2>5. t \in Cells
    BY <2>3, <2>4, <1>0, <1>5 DEF Cells
  <2> QED
    BY <2>3, <2>4, <2>5
<1>9. SizeUpdated(g, h1, prev, t, v)
  BY <1>3, <1>6, <1>7, <1>8, UpdateIs
<1> DEFINE C == Merged(B, prev, e)
<1>10. Tiled(g, C)
  <2>1. e \in B \union {h.brk}
    BY <1>1 DEF Tiled
  <2>2. \A a \in Cells : h1.node[a].size = h.node[a].size
    BY <1>3
  <2> QED
    BY <2>1, <2>2, <1>0, <1>3, <1>5, <1>8, <1>9, MergeBlocks
<1>11. C = B \ {n}
  <2>1. \A m \in B : m < e /\ m > n => FALSE
    BY <1>0, <1>1 DEF Tiled
  <2>2. \A m \in B : m < n /\ m > prev => FALSE
    BY <1>0 DEF Tiled
  <2> QED
    BY <2>1, <2>2, <1>0, <1>8 DEF Merged
<1>12. \A a \in Cells : g.node[a].is_free = h.node[a].is_free
  BY <1>3, <1>9 DEF SizeUpdated
<1>13. FreeOf(g, C) = F
  BY <1>0, <1>11, <1>12 DEF FreeOf
<1>14. Listed(g, F, k, L)
  <2>1. g.head = h.head
        /\ \A a \in F : g.node[a].prev = h.node[a].prev /\ g.node[a].next = h.node[a].next
    BY <1>0, <1>3, <1>9 DEF SizeUpdated
  <2> QED
    BY <2>1, SameList
<1>15. Released(h, g, B, C, n)
  <2>1. \A m \in B : m # prev => g.node[m].size = h.node[m].size
    BY <1>0, <1>3, <1>9 DEF SizeUpdated
  <2>2. h.node[prev].is_free
    BY DEF FreeOf
  <2> QED
    BY <2>1, <2>2, <1>0, <1>11, <1>12 DEF Released
<1>16. HeapType(g)
  BY <1>9 DEF SizeUpdated
<1> QED
  BY <1>10, <1>13, <1>14, <1>15, <1>16

LEMMA After ==
  ASSUME NEW h, HeapType(h), NEW B, Tiled(h, B), NEW F, F = FreeOf(h, B), NEW k, NEW L,
         Listed(h, F, k, L), NEW n \in B, n \notin F, NEW next \in F, EndOf(h, n) = next,
         NEW g, g = Alloc!coalesce_two_blocks_after(h, n, next)
  PROVE  \E C, j, M : /\ HeapType(g) /\ Tiled(g, C) /\ Listed(g, FreeOf(g, C), j, M)
                      /\ Released(h, g, B, C, n)
<1>0. B \subseteq Cells /\ F \subseteq B /\ HeapSize \in Nat /\ h.brk \in 0 .. HeapSize
      /\ (\A m \in B : m \in Int /\ m >= 0 /\ m < h.brk /\ h.node[m].size \in Nat
                       /\ EndOf(h, m) \in Int /\ EndOf(h, m) > m + 1 /\ EndOf(h, m) <= h.brk)
  BY BlockBounds DEF FreeOf
<1>1. PICK h1 : h1 = Alloc!remove_free(h, next)
  OBVIOUS
<1>2. Unlinked(h1, h, next) /\ Tiled(h1, B) /\ HeapType(h1)
  <2>1. Unlinked(h1, h, next) /\ Tiled(h1, B)
    BY <1>0, <1>1, RemoveKeeps
  <2> QED
    BY <2>1 DEF Unlinked
<1>3. PICK M : Listed(h1, F \ {next}, k - 1, M)
  BY <1>0, <1>1, RemoveKeeps
<1>4. PICK e : e = EndOf(h, next)
  OBVIOUS
<1>5. EndOf(h1, next) = e
  BY <1>0, <1>2, <1>4 DEF Unlinked, EndOf
<1>6. PICK h2 : h2 = IF Alloc!get_next_mem(h1, next) = NoAddr THEN PutTail(h1, n) ELSE h1
  OBVIOUS
<1>7. /\ HeapType(h2) /\ h2.node = h1.node /\ h2.btag = h1.btag /\ h2.head = h1.head
      /\ h2.brk = h1.brk /\ h2.tail \in Merged(B, n, e)
  BY <1>0, <1>2, <1>5, <1>6, TailMoves
<1>8. PICK h3 : h3 = PutFree(h2, n, TRUE)
  OBVIOUS
<1>9. FreeSet(h3, h2, n, TRUE)
  BY <1>0, <1>7, <1>8, SetFree
<1>9a. \A a \in Cells : /\ h3.node[a].size = h2.node[a].size
                        /\ a # n => h3.node[a].is_free = h2.node[a].is_free
                        /\ h3.node[a].prev = h2.node[a].prev
                        /\ h3.node[a].next = h2.node[a].next
  BY <1>9, Zenon DEF FreeSet
<1>9b. \A a \in Cells : h2.node[a].size = h.node[a].size
                        /\ h2.node[a].is_free = h.node[a].is_free
  BY <1>2, <1>7, Zenon DEF Unlinked
<1>9c. \A a \in Cells : h3.node[a].size = h.node[a].size
                       /\ (a # n => h3.node[a].is_free = h.node[a].is_free)
  <2> SUFFICES ASSUME NEW a \in Cells
               PROVE  h3.node[a].size = h.node[a].size
                      /\ (a # n => h3.node[a].is_free = h.node[a].is_free)
    OBVIOUS
  <2>1. h3.node[a].size = h2.node[a].size /\ (a # n => h3.node[a].is_free = h2.node[a].is_free)
    BY <1>9a, Zenon
  <2>2. h2.node[a].size = h.node[a].size /\ h2.node[a].is_free = h.node[a].is_free
    BY <1>9b, Zenon
  <2> QED
    BY <2>1, <2>2
<1>10. PICK d : d = 2 + h.node[next].size
  OBVIOUS
<1>11. PICK t : t = e - 1
  OBVIOUS
<1>12. PICK h4 : h4 = Alloc!update_node_size(h3, n, t, d)
  OBVIOUS
<1>13. g = Alloc!insert_free(h4, n)
  <2>1. Alloc!get_node_btag(h3, next) = t
    <3>1. Alloc!get_node_btag(h3, next) = next + 1 + h3.node[next].size
      BY DEF Alloc!get_node_btag
    <3>2. h3.node[next].size = h.node[next].size
      BY <1>0, <1>9c
    <3> QED
      BY <3>1, <3>2, <1>0, <1>4, <1>11 DEF EndOf
  <2>2. d = Alloc!meta_btag_size + h.node[next].size
    BY <1>10, HeapConstants
  <2>3. h2 = IF Alloc!get_next_mem(h1, next) = Alloc!None THEN [h1 EXCEPT !.tail = n] ELSE h1
    BY <1>6, HeapConstants, Zenon DEF PutTail
  <2>4. h3 = [h2 EXCEPT !.node[n].is_free = TRUE]
    BY <1>8, Zenon DEF PutFree
  <2> QED
    BY <2>1, <2>2, <2>3, <2>4, <1>1, <1>12, Zenon DEF Alloc!coalesce_two_blocks_after
<1>14. PICK v : v = h3.node[n].size + d
  OBVIOUS
<1>15. /\ d \in Int /\ t \in Cells /\ e \in Int /\ n \in Cells
       /\ v = e - n - 2 /\ v \in Nat /\ n < next /\ next < e /\ n < e
  <2>1. h3.node[n].size = h.node[n].size
    BY <1>0, <1>9c
  <2>2. n + 2 + h.node[n].size = next /\ next + 2 + h.node[next].size = e
    BY <1>4 DEF EndOf
  <2>3. /\ n \in Int /\ next \in Int /\ e \in Int /\ n >= 0 /\ e <= h.brk
        /\ h.node[n].size \in Nat /\ h.node[next].size \in Nat /\ n \in Cells
    BY <1>0, <1>4
  <2>4. v = e - n - 2 /\ v \in Nat /\ d \in Int /\ n < next /\ next < e /\ n < e
    BY <2>1, <2>2, <2>3, <1>10, <1>14
  <2>5. t \in Cells
    BY <2>3, <2>4, <1>0, <1>11 DEF Cells
  <2> QED
    BY <2>3, <2>4, <2>5
<1>16. SizeUpdated(h4, h3, n, t, v)
  <2>1. HeapType(h3)
    BY <1>9 DEF FreeSet
  <2> QED
    BY <2>1, <1>12, <1>14, <1>15, UpdateIs
<1> DEFINE C == Merged(B, n, e)
<1>17. Tiled(h4, C)
  <2>1. e \in B \union {h1.brk}
    <3>1. e \in B \union {h.brk} /\ h1.brk = h.brk
      BY <1>0, <1>2, <1>4 DEF Unlinked, Tiled
    <3> QED
      BY <3>1
  <2>2. (\A a \in Cells : h3.node[a].size = h1.node[a].size)
        /\ h3.btag = h1.btag /\ h3.brk = h1.brk /\ h3.tail \in Merged(B, n, e)
    BY <1>7, <1>9 DEF FreeSet
  <2> QED
    BY <2>1, <2>2, <1>0, <1>2, <1>11, <1>15, <1>16, MergeBlocks
<1>18. C = B \ {next}
  <2>1. \A m \in B : m < next /\ m > n => FALSE
    BY <1>0 DEF Tiled
  <2>2. \A m \in B : m < e /\ m > next => FALSE
    BY <1>0, <1>4 DEF Tiled
  <2> QED
    BY <2>1, <2>2, <1>0, <1>15 DEF Merged
<1>19. Listed(h4, F \ {next}, k - 1, M)
  <2>1. h4.head = h1.head
        /\ \A a \in F \ {next} : h4.node[a].prev = h1.node[a].prev
                                 /\ h4.node[a].next = h1.node[a].next
    <3>1. h4.head = h3.head /\ h3.head = h2.head /\ h2.head = h1.head /\ h2.node = h1.node
      BY <1>7, <1>9, <1>16 DEF SizeUpdated, FreeSet
    <3>2. \A a \in Cells : h4.node[a].prev = h3.node[a].prev /\ h4.node[a].next = h3.node[a].next
      BY <1>16 DEF SizeUpdated
    <3>3. \A a \in Cells : h3.node[a].prev = h1.node[a].prev /\ h3.node[a].next = h1.node[a].next
      BY <3>1, <1>9a, Zenon
    <3>4. F \ {next} \subseteq Cells
      BY <1>0
    <3> QED
      BY <3>1, <3>2, <3>3, <3>4
  <2> QED
    BY <2>1, <1>3, SameList
<1>20. HeapType(h4)
  BY <1>16 DEF SizeUpdated
<1>21. n \in Cells \ (F \ {next}) /\ F \ {next} \subseteq Cells
  BY <1>0
<1>22. Linked(g, h4, n)
  BY <1>13, <1>19, <1>20, <1>21, InsertKeeps
<1>23. PICK Q : Listed(g, (F \ {next}) \union {n}, k - 1 + 1, Q)
  BY <1>13, <1>19, <1>20, <1>21, InsertKeeps
<1>24. Tiled(g, C)
  BY <1>17, <1>22, InsertTiles
<1>25. \A a \in Cells : a # n => g.node[a].is_free = h.node[a].is_free
                                 /\ g.node[a].size = h.node[a].size
  <2>1. \A a \in Cells : g.node[a].is_free = h4.node[a].is_free
                         /\ g.node[a].size = h4.node[a].size
    BY <1>22, Zenon DEF Linked
  <2>2. \A a \in Cells : a # n => h4.node[a].is_free = h3.node[a].is_free
                                  /\ h4.node[a].size = h3.node[a].size
    BY <1>16, Zenon DEF SizeUpdated
  <2> QED
    BY <2>1, <2>2, <1>9c, Zenon
<1>26. g.node[n].is_free
  BY <1>0, <1>9, <1>16, <1>22 DEF SizeUpdated, FreeSet, Linked
<1>27. FreeOf(g, C) = (F \ {next}) \union {n}
  BY <1>0, <1>15, <1>18, <1>25, <1>26 DEF FreeOf
<1>28. Released(h, g, B, C, n)
  <2>1. h.node[next].is_free
    BY DEF FreeOf
  <2> QED
    BY <2>1, <1>0, <1>18, <1>25, <1>26 DEF Released
<1>29. HeapType(g)
  BY <1>22 DEF Linked
<1> QED
  BY <1>23, <1>24, <1>27, <1>28, <1>29

LEMMA Alone ==
  ASSUME NEW h, HeapType(h), NEW B, Tiled(h, B), NEW F, F = FreeOf(h, B), NEW k, NEW L,
         Listed(h, F, k, L), NEW n \in B, n \notin F,
         NEW h1, h1 = PutFree(h, n, TRUE), NEW g, g = Alloc!insert_free(h1, n)
  PROVE  \E C, j, M : /\ HeapType(g) /\ Tiled(g, C) /\ Listed(g, FreeOf(g, C), j, M)
                      /\ Released(h, g, B, C, n)
<1>0. B \subseteq Cells /\ F \subseteq B
  BY BlockBounds DEF FreeOf
<1>1. FreeSet(h1, h, n, TRUE)
  BY <1>0, SetFree
<1>2. HeapType(h1)
  BY <1>1 DEF FreeSet
<1>3. Tiled(h1, B)
  <2>1. SameBlocks(h, h1, B)
    BY <1>0, <1>1 DEF FreeSet, SameBlocks
  <2> QED
    BY <2>1, SameTiles
<1>4. Listed(h1, F, k, L)
  <2>1. h1.head = h.head
        /\ \A a \in F : h1.node[a].prev = h.node[a].prev /\ h1.node[a].next = h.node[a].next
    BY <1>0, <1>1 DEF FreeSet
  <2> QED
    BY <2>1, SameList
<1>5. n \in Cells \ F /\ F \subseteq Cells
  BY <1>0
<1>6. Linked(g, h1, n)
  BY <1>2, <1>4, <1>5, InsertKeeps
<1>7. PICK Q : Listed(g, F \union {n}, k + 1, Q)
  BY <1>2, <1>4, <1>5, InsertKeeps
<1>8. Tiled(g, B)
  BY <1>3, <1>6, InsertTiles
<1>9. \A a \in Cells : a # n => g.node[a].is_free = h.node[a].is_free
                                /\ g.node[a].size = h.node[a].size
  <2>1. \A a \in Cells : g.node[a].is_free = h1.node[a].is_free
                         /\ g.node[a].size = h1.node[a].size
    BY <1>6, Zenon DEF Linked
  <2>2. \A a \in Cells : a # n => h1.node[a].is_free = h.node[a].is_free
                                  /\ h1.node[a].size = h.node[a].size
    BY <1>1, Zenon DEF FreeSet
  <2> QED
    BY <2>1, <2>2, Zenon
<1>10. g.node[n].is_free
  BY <1>0, <1>1, <1>6 DEF FreeSet, Linked
<1>11. FreeOf(g, B) = F \union {n}
  BY <1>0, <1>9, <1>10 DEF FreeOf
<1>12. Released(h, g, B, B, n)
  BY <1>0, <1>9, <1>10 DEF Released
<1>13. HeapType(g)
  BY <1>6 DEF Linked
<1> QED
  BY <1>7, <1>8, <1>11, <1>12, <1>13

LEMMA FreeKeeps ==
  ASSUME NEW h, NEW l, Whole(h, l), NEW p \in DOMAIN l
  PROVE  Whole(Alloc!free(h, p), Less(l, p))
<1>0. HeapType(h)
  BY DEF Whole
<1>1. PICK B, k, L : Tiled(h, B) /\ Listed(h, FreeOf(h, B), k, L) /\ Held(h, B, l)
  BY DEF Whole
<1>2. PICK n : n = p - 1
  OBVIOUS
<1>3. PICK F : F = FreeOf(h, B)
  OBVIOUS
<1>4. n \in B /\ ~h.node[n].is_free /\ n \notin F
  BY <1>1, <1>2, <1>3 DEF Held, FreeOf
<1>5. PICK g : g = Alloc!free(h, p)
  OBVIOUS
<1>6. PICK prev : prev = Alloc!get_prev_mem(h, n)
  OBVIOUS
<1>7. PICK next : next = Alloc!get_next_mem(h, n)
  OBVIOUS
<1>8. PICK h1 : h1 = PutFree(h, n, TRUE)
  OBVIOUS
<1>9. g = IF Alloc!IsFree(h, prev) /\ Alloc!IsFree(h, next)
          THEN Alloc!coalesce_three_blocks(h, n, prev, next)
          ELSE IF Alloc!IsFree(h, prev) THEN Alloc!coalesce_two_blocks_before(h, n, prev, next)
          ELSE IF Alloc!IsFree(h, next) THEN Alloc!coalesce_two_blocks_after(h, n, next)
          ELSE Alloc!insert_free(h1, n)
  BY <1>2, <1>4, <1>5, <1>6, <1>7, <1>8, Zenon DEF Alloc!free, PutFree
<1>10. NoAddr \notin B
  BY <1>1, BlockBounds DEF NoAddr
<1>11. Alloc!IsFree(h, prev) => prev \in F /\ EndOf(h, prev) = n
  <2>1. prev = NoAddr \/ (prev \in B /\ EndOf(h, prev) = n)
    BY <1>0, <1>1, <1>4, <1>6, PrevIs
  <2> QED
    BY <2>1, <1>3, HeapConstants DEF Alloc!IsFree, FreeOf
<1>12. Alloc!IsFree(h, next) => next \in F /\ EndOf(h, n) = next
  <2>1. next = NoAddr \/ (next \in B /\ EndOf(h, n) = next)
    BY <1>0, <1>1, <1>4, <1>7, NextIs
  <2> QED
    BY <2>1, <1>3, HeapConstants DEF Alloc!IsFree, FreeOf
<1>13. \E C, j, M : /\ HeapType(g) /\ Tiled(g, C) /\ Listed(g, FreeOf(g, C), j, M)
                    /\ Released(h, g, B, C, n)
  <2>0. Tiled(h, B) /\ Listed(h, F, k, L)
    BY <1>1, <1>3
  <2>1. CASE Alloc!IsFree(h, prev) /\ Alloc!IsFree(h, next)
    BY <2>0, <2>1, <1>0, <1>3, <1>4, <1>9, <1>11, <1>12, Three
  <2>2. CASE Alloc!IsFree(h, prev) /\ ~Alloc!IsFree(h, next)
    BY <2>0, <2>2, <1>0, <1>3, <1>4, <1>7, <1>9, <1>11, Before
  <2>3. CASE ~Alloc!IsFree(h, prev) /\ Alloc!IsFree(h, next)
    BY <2>0, <2>3, <1>0, <1>3, <1>4, <1>9, <1>12, After
  <2>4. CASE ~Alloc!IsFree(h, prev) /\ ~Alloc!IsFree(h, next)
    BY <2>0, <2>4, <1>0, <1>3, <1>4, <1>8, <1>9, Alone
  <2> QED
    BY <2>1, <2>2, <2>3, <2>4
<1>14. PICK C, j, M : /\ HeapType(g) /\ Tiled(g, C) /\ Listed(g, FreeOf(g, C), j, M)
                      /\ Released(h, g, B, C, n)
  BY <1>13
<1>15. Held(g, C, Less(l, p))
  <2>1. B \subseteq Int
    BY <1>1, BlockBounds
  <2> QED
    BY <2>1, <1>1, <1>2, <1>14, HeldLess
<1> QED
  BY <1>5, <1>14, <1>15 DEF Whole

-----------------------------------------------------------------------------
\* The walk along the free list finds its nodes in their order.

\* Induction up to n, for a set rather than for a formula.
LEMMA InductUpTo ==
  ASSUME NEW n \in Nat, NEW G, 0 \in G, \A i \in 1 .. n : i - 1 \in G => i \in G
  PROVE  \A i \in 0 .. n : i \in G
<1> DEFINE Bad == {i \in 0 .. n : i \notin G}
<1> SUFFICES ASSUME Bad # {} PROVE FALSE
  OBVIOUS
<1>1. Bad \subseteq Nat
  OBVIOUS
<1>2. PICK i \in Bad : \A j \in Bad : ~(<<j, i>> \in OpToRel(<, Nat))
  BY <1>1, WFMin, NatLessThanWellFounded
<1>3. \A j \in Bad : ~(j < i)
  BY <1>1, <1>2, Zenon DEF OpToRel
<1>4. i \in 1 .. n /\ i - 1 \in 0 .. n /\ i - 1 < i /\ i \notin G
  <2>1. i \in 0 .. n /\ i \notin G
    BY <1>2
  <2>2. i # 0
    BY <2>1
  <2> QED
    BY <2>1, <2>2
<1>5. i - 1 \in G
  BY <1>3, <1>4
<1> QED
  BY <1>4, <1>5

LEMMA ListShort ==
  ASSUME NEW h, NEW F, F \subseteq Cells, NEW k, NEW L, Listed(h, F, k, L)
  PROVE  k \in Nat /\ k <= HeapSize
<1>1. k \in Nat /\ L \in [1 .. k -> F] /\ \A i, j \in 1 .. k : L[i] = L[j] => i = j
  BY DEF Listed
<1>2. L \in Injection(1 .. k, Cells)
  <2>1. L \in [1 .. k -> Cells]
    BY <1>1
  <2> QED
    BY <1>1, <2>1 DEF Injection, IsInjective
<1>3. HeapSize \in Nat /\ IsFiniteSet(Cells) /\ Cardinality(Cells) = HeapSize
  <2>1. HeapSize \in Nat /\ 0 \in Int /\ HeapSize - 1 \in Int
    BY HeapConstants
  <2>2. IsFiniteSet(0 .. HeapSize - 1)
        /\ Cardinality(0 .. HeapSize - 1)
              = IF 0 > HeapSize - 1 THEN 0 ELSE HeapSize - 1 - 0 + 1
    BY <2>1, FS_Interval
  <2> QED
    BY <2>1, <2>2 DEF Cells
<1>4. Cardinality(1 .. k) <= Cardinality(Cells)
  BY <1>2, <1>3, FS_Injection
<1>5. Cardinality(1 .. k) = k
  <2>1. Cardinality(1 .. k) = IF 1 > k THEN 0 ELSE k - 1 + 1
    BY <1>1, FS_Interval
  <2> QED
    BY <1>1, <2>1
<1> QED
  BY <1>1, <1>3, <1>4, <1>5

\* The first j nodes of L, or all k of them.
Part(L, k, j) == [i \in 1 .. (IF j <= k THEN j ELSE k) |-> L[i]]
VisitNext(h, b) ==
    LET n == IF b = <<>> THEN h.head ELSE h.node[b[Len(b)]].next
    IN IF n = NoAddr \/ \E i \in DOMAIN b : b[i] = n THEN b ELSE Append(b, n)

LEMMA PartSteps ==
  ASSUME NEW h, NEW F, F \subseteq Cells, NEW k, NEW L, Listed(h, F, k, L), NEW j \in Nat, j # 0
  PROVE  VisitNext(h, Part(L, k, j - 1)) = Part(L, k, j)
<1>1. k \in Nat /\ (\A i \in 1 .. k : L[i] \in F) /\ (\A i, m \in 1 .. k : L[i] = L[m] => i = m)
      /\ h.head = (IF k = 0 THEN NoAddr ELSE L[1])
      /\ (\A i \in 1 .. k : h.node[L[i]].next = IF i = k THEN NoAddr ELSE L[i + 1])
  BY DEF Listed
<1>2. NoAddr \notin F
  BY DEF NoAddr, Cells
<1>3. PICK b : b = Part(L, k, j - 1)
  OBVIOUS
<1>4. PICK c : c = IF j - 1 <= k THEN j - 1 ELSE k
  OBVIOUS
<1>5. c \in Nat /\ c <= k /\ (c < k => c = j - 1)
  <2>1. k \in Nat /\ j - 1 \in Nat
    BY <1>1
  <2> QED
    BY <2>1, <1>4
<1>6. b = [i \in 1 .. c |-> L[i]]
  BY <1>3, <1>4, Zenon DEF Part
<1>7. b \in Seq(F) /\ Len(b) = c /\ DOMAIN b = 1 .. c /\ \A i \in 1 .. c : b[i] = L[i]
  <2>1. \A i \in 1 .. c : L[i] \in F
    BY <1>1, <1>5
  <2>2. b \in [1 .. c -> F]
    BY <1>6, <2>1
  <2>3. b \in Seq(F)
    BY <2>2, <1>5
  <2> QED
    BY <2>2, <2>3, <1>5, <1>6
<1>8. b = <<>> <=> c = 0
  BY <1>5, <1>7
<1>9. PICK n : n = IF b = <<>> THEN h.head ELSE h.node[b[Len(b)]].next
  OBVIOUS
<1>10. n = IF c = k THEN NoAddr ELSE L[c + 1]
  <2>1. CASE c = 0
    BY <2>1, <1>1, <1>8, <1>9
  <2>2. CASE c # 0
    <3>1. c \in 1 .. k /\ c \in 1 .. c
      BY <2>2, <1>1, <1>5
    <3>2. n = h.node[L[c]].next
      BY <2>2, <3>1, <1>7, <1>8, <1>9
    <3> QED
      BY <3>1, <3>2, <1>1
  <2> QED
    BY <2>1, <2>2
<1>11. VisitNext(h, b) = IF n = NoAddr \/ \E i \in DOMAIN b : b[i] = n THEN b ELSE Append(b, n)
  BY <1>9, Zenon DEF VisitNext
<1>12. CASE c = k
  <2>1. VisitNext(h, b) = b
    BY <1>10, <1>11, <1>12
  <2>2. (IF j <= k THEN j ELSE k) = c
    BY <1>1, <1>4, <1>5, <1>12
  <2>3. Part(L, k, j) = [i \in 1 .. c |-> L[i]]
    BY <2>2, Zenon DEF Part
  <2> QED
    BY <2>1, <2>3, <1>3, <1>6
<1>13. CASE c # k
  <2>1. c = j - 1 /\ j \in 1 .. k /\ c + 1 = j /\ c + 1 \in 1 .. k
    BY <1>1, <1>5, <1>13
  <2>2. n = L[j] /\ n \in F
    BY <2>1, <1>1, <1>10, <1>13
  <2>3. ~\E i \in DOMAIN b : b[i] = n
    <3> SUFFICES ASSUME NEW i \in 1 .. c, b[i] = n PROVE FALSE
      BY <1>7
    <3>1. i \in 1 .. k /\ i # j
      BY <2>1, <1>1
    <3> QED
      BY <3>1, <2>1, <2>2, <1>1, <1>7
  <2>4. VisitNext(h, b) = Append(b, n)
    BY <2>2, <2>3, <1>2, <1>11
  <2>5. (IF j <= k THEN j ELSE k) = j
    BY <2>1
  <2>6. Part(L, k, j) = [i \in 1 .. j |-> L[i]]
    BY <2>5, Zenon DEF Part
  <2>7. Append(b, n) = [i \in 1 .. j |-> L[i]]
    <3>1. Append(b, n) \in Seq(F) /\ Len(Append(b, n)) = j
          /\ \A i \in 1 .. j : Append(b, n)[i] = IF i = j THEN n ELSE b[i]
      BY <2>1, <2>2, <1>7
    <3>2. \A i \in 1 .. j : Append(b, n)[i] = L[i]
      <4> SUFFICES ASSUME NEW i \in 1 .. j PROVE Append(b, n)[i] = L[i]
        OBVIOUS
      <4>1. i # j => i \in 1 .. c
        BY <2>1
      <4> QED
        BY <3>1, <4>1, <2>2, <1>7
    <3>3. DOMAIN Append(b, n) = 1 .. j
      BY <3>1
    <3>4. PICK a : a = Append(b, n)
      OBVIOUS
    <3>5. a = [i \in 1 .. j |-> a[i]]
      <4>1. a \in Seq(F) /\ Len(a) = j
        BY <3>1, <3>4
      <4>2. a \in [1 .. Len(a) -> F]
        BY <4>1
      <4> QED
        BY <4>1, <4>2
    <3> QED
      BY <3>2, <3>4, <3>5
  <2> QED
    BY <2>4, <2>6, <2>7, <1>3
<1> QED
  BY <1>12, <1>13

LEMMA FreeListIs ==
  ASSUME NEW h, NEW F, F \subseteq Cells, NEW k, NEW L, Listed(h, F, k, L)
  PROVE  Alloc!FreeList(h) = L
<1>1. k \in Nat /\ k <= HeapSize /\ HeapSize \in Nat
  BY ListShort, HeapConstants
<1> DEFINE Eq(f) == f = [j \in 0 .. HeapSize |-> IF j = 0 THEN <<>> ELSE VisitNext(h, f[j - 1])]
           Visit == CHOOSE f : Eq(f)
           P == [j \in 0 .. HeapSize |-> Part(L, k, j)]
<1>2. Part(L, k, 0) = <<>>
  <2>1. (IF 0 <= k THEN 0 ELSE k) = 0
    BY <1>1
  <2>2. Part(L, k, 0) = [i \in 1 .. 0 |-> L[i]]
    BY <2>1, Zenon DEF Part
  <2> QED
    BY <2>2
<1>3. \A j \in 0 .. HeapSize : j # 0 => VisitNext(h, Part(L, k, j - 1)) = Part(L, k, j)
  <2> SUFFICES ASSUME NEW j \in 0 .. HeapSize, j # 0
               PROVE  VisitNext(h, Part(L, k, j - 1)) = Part(L, k, j)
    OBVIOUS
  <2>1. j \in Nat
    BY <1>1
  <2> QED
    BY <2>1, PartSteps
<1>4. Eq(P)
  <2>1. \A j \in 0 .. HeapSize : P[j] = Part(L, k, j)
    OBVIOUS
  <2>2. \A j \in 0 .. HeapSize : j # 0 => j - 1 \in 0 .. HeapSize
    BY <1>1
  <2>3. \A j \in 0 .. HeapSize : j # 0 => VisitNext(h, P[j - 1]) = P[j]
    BY <2>1, <2>2, <1>3, Zenon
  <2>4. 0 \in 0 .. HeapSize
    BY <1>1
  <2>5. \A j \in 0 .. HeapSize : P[j] = IF j = 0 THEN <<>> ELSE VisitNext(h, P[j - 1])
    BY <2>1, <2>3, <2>4, <1>2, Zenon
  <2>6. P = [j \in 0 .. HeapSize |-> P[j]]
    OBVIOUS
  <2> HIDE DEF P
  <2> QED
    BY <2>5, <2>6, Zenon
<1>5. Eq(Visit)
  BY <1>4, Zenon
<1>6. Alloc!FreeList(h) = Visit[HeapSize]
  BY HeapConstants, Zenon DEF Alloc!FreeList, VisitNext, Alloc!None, NoAddr
<1>7. \A j \in 0 .. HeapSize : Visit[j] = IF j = 0 THEN <<>> ELSE VisitNext(h, Visit[j - 1])
  <2> HIDE DEF Visit
  <2> QED
    BY <1>5
<1> HIDE DEF Visit, Eq
<1> DEFINE G == {j \in 0 .. HeapSize : Visit[j] = Part(L, k, j)}
<1>8. 0 \in G
  <2>1. 0 \in 0 .. HeapSize
    BY <1>1
  <2> QED
    BY <2>1, <1>2, <1>7
<1>9. \A j \in 1 .. HeapSize : j - 1 \in G => j \in G
  <2> SUFFICES ASSUME NEW j \in 1 .. HeapSize, j - 1 \in G PROVE j \in G
    OBVIOUS
  <2>1. j \in 0 .. HeapSize /\ j # 0
    BY <1>1
  <2>2. Visit[j - 1] = Part(L, k, j - 1)
    OBVIOUS
  <2>3. Visit[j] = VisitNext(h, Visit[j - 1])
    BY <2>1, <1>7, Zenon
  <2>4. Visit[j] = Part(L, k, j)
    BY <2>1, <2>2, <2>3, <1>3, Zenon
  <2> QED
    BY <2>1, <2>4
<1> HIDE DEF G
<1>10. HeapSize \in G
  <2>1. \A j \in 0 .. HeapSize : j \in G
    BY <1>1, <1>8, <1>9, InductUpTo
  <2> QED
    BY <2>1, <1>1
<1>11. Visit[HeapSize] = Part(L, k, HeapSize)
  BY <1>10 DEF G
<1>12. Part(L, k, HeapSize) = L
  <2>1. (IF HeapSize <= k THEN HeapSize ELSE k) = k
    BY <1>1
  <2>2. Part(L, k, HeapSize) = [i \in 1 .. k |-> L[i]]
    BY <2>1, Zenon DEF Part
  <2> QED
    BY <2>2 DEF Listed
<1> QED
  BY <1>6, <1>11, <1>12

-----------------------------------------------------------------------------
\* malloc.
LEMMA HandOutKeeps ==
  ASSUME NEW h, HeapType(h), NEW B, Tiled(h, B), NEW n \in B, NEW g, g = Alloc!HandOut(h, n)
  PROVE  /\ HeapType(g) /\ Tiled(g, B) /\ g.head = h.head
         /\ \A m \in B : g.node[m] = h.node[m]
<1>0. B \subseteq Cells /\ HeapSize \in Nat /\ h.brk \in 0 .. HeapSize
      /\ (\A m \in B : m \in Int /\ m >= 0 /\ m < h.brk /\ h.node[m].size \in Nat
                       /\ EndOf(h, m) \in Int /\ EndOf(h, m) > m + 1 /\ EndOf(h, m) <= h.brk)
  BY BlockBounds
<1>1. PICK D : D = n + 1 .. n + h.node[n].size
  OBVIOUS
<1>2. PICK J : J = Alloc!JunkHeader
  OBVIOUS
<1>3. PICK N : N = [a \in Cells |-> IF a \in D THEN J ELSE h.node[a]]
  OBVIOUS
<1>4. PICK T : T = [a \in Cells |-> IF a \in D THEN Alloc!Junk ELSE h.btag[a]]
  OBVIOUS
<1>5. g = [h EXCEPT !.node = N, !.btag = T]
  BY <1>1, <1>2, <1>3, <1>4, HeapConstants, Zenon DEF Alloc!HandOut
<1>6. J \in Header /\ Alloc!Junk \in Int
  BY <1>2 DEF Alloc!JunkHeader, Alloc!Junk, Alloc!None, Header
<1>7. N \in [Cells -> Header] /\ \A a \in Cells : a \notin D => N[a] = h.node[a]
  BY <1>3, <1>6, HeapFields
<1>8. T \in [Cells -> Int] /\ \A a \in Cells : a \notin D => T[a] = h.btag[a]
  BY <1>4, <1>6, HeapFields
<1>9. HeapType(g) /\ g.node = N /\ g.btag = T /\ g.head = h.head /\ g.tail = h.tail /\ g.brk = h.brk
  BY <1>5, <1>7, <1>8 DEF HeapType
<1>10. \A m \in B : m \notin D /\ EndOf(h, m) - 1 \notin D /\ EndOf(h, m) - 1 \in Cells
  <2> SUFFICES ASSUME NEW m \in B
               PROVE  m \notin D /\ EndOf(h, m) - 1 \notin D /\ EndOf(h, m) - 1 \in Cells
    OBVIOUS
  <2>1. n + 2 + h.node[n].size = EndOf(h, n)
    BY DEF EndOf
  <2>2. (m < n => EndOf(h, m) <= n) /\ (n < m => EndOf(h, n) <= m)
    BY DEF Tiled
  <2>3. m \notin D /\ EndOf(h, m) - 1 \notin D
    BY <2>1, <2>2, <1>0, <1>1, SMTT(40)
  <2>4. EndOf(h, m) - 1 \in Cells
    BY <1>0 DEF Cells
  <2> QED
    BY <2>3, <2>4
<1>11. \A m \in B : g.node[m] = h.node[m]
  BY <1>0, <1>7, <1>9, <1>10
<1>12. SameBlocks(h, g, B)
  BY <1>8, <1>9, <1>10, <1>11 DEF SameBlocks
<1> QED
  BY <1>9, <1>11, <1>12, SameTiles

\* From the blocks B of h to the blocks C of g, the client has got n.
Granted(h, g, B, C, n, size) ==
    /\ n \in C /\ ~g.node[n].is_free /\ g.node[n].size >= size
    /\ n \in B => h.node[n].is_free
    /\ \A m \in B : m # n /\ ~h.node[m].is_free =>
          m \in C /\ ~g.node[m].is_free /\ g.node[m].size = h.node[m].size
    /\ \A m \in C : m # n /\ ~g.node[m].is_free => m \in B /\ ~h.node[m].is_free

LEMMA HeldMore ==
  ASSUME NEW h, NEW g, NEW B, NEW C, NEW l, Held(h, B, l), NEW n \in Nat, NEW size \in Int,
         C \subseteq Int, Granted(h, g, B, C, n, size)
  PROVE  Held(g, C, Alloc!With(l, n + 1, size)) /\ n + 1 \notin DOMAIN l
<1>1. n + 1 \notin DOMAIN l
  <2>1. n + 1 \in DOMAIN l => (n + 1) - 1 \in B /\ ~h.node[(n + 1) - 1].is_free
    BY DEF Held
  <2>2. (n + 1) - 1 = n
    OBVIOUS
  <2> QED
    BY <2>1, <2>2 DEF Granted
<1>2. PICK w : w = Alloc!With(l, n + 1, size)
  OBVIOUS
<1>3. w = [q \in DOMAIN l \union {n + 1} |-> IF q = n + 1 THEN size ELSE l[q]]
  <2>1. n + 1 # NoAddr
    BY DEF NoAddr
  <2> QED
    BY <2>1, <1>2, HeapConstants, Zenon DEF Alloc!With
<1>4. DOMAIN w = DOMAIN l \union {n + 1} /\ w[n + 1] = size
      /\ \A q \in DOMAIN l : w[q] = l[q]
  BY <1>1, <1>3
<1>5. ASSUME NEW q \in DOMAIN w
      PROVE  /\ q \in Int /\ w[q] \in Int /\ q - 1 \in C
             /\ ~g.node[q - 1].is_free /\ g.node[q - 1].size >= w[q]
  <2>1. CASE q = n + 1
    <3>1. q \in Int /\ q - 1 = n
      BY <2>1
    <3> QED
      BY <2>1, <3>1, <1>4 DEF Granted
  <2>2. CASE q \in DOMAIN l
    <3>1. q \in Int /\ l[q] \in Int /\ q - 1 \in B
          /\ ~h.node[q - 1].is_free /\ h.node[q - 1].size >= l[q]
      BY <2>2 DEF Held
    <3>2. q - 1 # n
      BY <2>2, <3>1, <1>1
    <3> QED
      BY <2>2, <3>1, <3>2, <1>4 DEF Granted
  <2> QED
    BY <2>1, <2>2, <1>4
<1>6. ASSUME NEW m \in C, ~g.node[m].is_free PROVE m + 1 \in DOMAIN w
  <2>1. CASE m = n
    BY <2>1, <1>4
  <2>2. CASE m # n
    <3>1. m \in B /\ ~h.node[m].is_free
      BY <2>2, <1>6 DEF Granted
    <3> QED
      BY <3>1, <1>4 DEF Held
  <2> QED
    BY <2>1, <2>2
<1>7. Held(g, C, w)
  BY <1>5, <1>6 DEF Held
<1> QED
  BY <1>1, <1>2, <1>7

LEMMA AllocNew ==
  ASSUME NEW h, HeapType(h), NEW B, Tiled(h, B), NEW F, F = FreeOf(h, B), NEW k, NEW L,
         Listed(h, F, k, L), NEW size \in Nat, h.brk + 2 + size <= HeapSize,
         NEW h1, h1 = Alloc!alloc_new(h, size), NEW g, g = Alloc!HandOut(h1, h.brk)
  PROVE  \E C, j, M : /\ HeapType(g) /\ Tiled(g, C) /\ Listed(g, FreeOf(g, C), j, M)
                      /\ Granted(h, g, B, C, h.brk, size)
<1>0. B \subseteq Cells /\ F \subseteq B /\ HeapSize \in Nat /\ h.brk \in 0 .. HeapSize
      /\ (\A m \in B : m \in Int /\ m >= 0 /\ m < h.brk /\ h.node[m].size \in Nat
                       /\ EndOf(h, m) \in Int /\ EndOf(h, m) > m + 1 /\ EndOf(h, m) <= h.brk)
  BY BlockBounds DEF FreeOf
<1>1. PICK n : n = h.brk
  OBVIOUS
<1>2. PICK r : r = [size |-> size, is_free |-> FALSE, prev |-> NoAddr, next |-> NoAddr]
  OBVIOUS
<1>3. PICK x : x = IF h.tail = NoAddr THEN n ELSE h.tail
  OBVIOUS
<1>4. PICK t : t = n + 1 + size
  OBVIOUS
<1>5. PICK b : b = n + 2 + size
  OBVIOUS
<1>6. PICK g1 : g1 = PutNode(h, n, r)
  OBVIOUS
<1>7. PICK g2 : g2 = PutTag(g1, t, size)
  OBVIOUS
<1>8. PICK g3 : g3 = PutTail(g2, x)
  OBVIOUS
<1>9. h1 = PutBrk(g3, b)
  BY <1>1, <1>2, <1>3, <1>4, <1>5, <1>6, <1>7, <1>8, HeapConstants, Zenon
     DEF Alloc!alloc_new, PutNode, PutTag, PutTail, PutBrk
<1>10. /\ n \in Cells /\ t \in Cells /\ x \in Int /\ b \in Int /\ size \in Int /\ r \in Header
       /\ r.size = size /\ ~r.is_free
  <2>1. h.tail \in Int
    BY HeapFields
  <2>2. r \in Header /\ r.size = size /\ ~r.is_free
    BY <1>2 DEF Header, NoAddr
  <2>3. n \in Int /\ n >= 0 /\ n + 2 + size <= HeapSize
    BY <1>0, <1>1
  <2>4. n \in Cells /\ t \in Cells /\ b \in Int
    BY <2>3, <1>0, <1>4, <1>5 DEF Cells
  <2> QED
    BY <2>1, <2>2, <2>3, <2>4, <1>3
<1>11. NodeSet(g1, h, n, r) /\ HeapType(g1)
  <2>1. NodeSet(g1, h, n, r)
    BY <1>6, <1>10, SetNode
  <2> QED
    BY <2>1 DEF NodeSet
<1>12. TagSet(g2, g1, t, size) /\ HeapType(g2)
  <2>1. TagSet(g2, g1, t, size)
    BY <1>7, <1>10, <1>11, SetTag
  <2> QED
    BY <2>1 DEF TagSet
<1>13. TailSet(g3, g2, x) /\ HeapType(g3)
  <2>1. TailSet(g3, g2, x)
    BY <1>8, <1>10, <1>12, SetTail
  <2> QED
    BY <2>1 DEF TailSet
<1>14. BrkSet(h1, g3, b) /\ HeapType(h1)
  <2>1. BrkSet(h1, g3, b)
    BY <1>9, <1>10, <1>13, SetBrk
  <2> QED
    BY <2>1 DEF BrkSet
<1>15. /\ h1.brk = b /\ h1.tail = x /\ h1.head = h.head /\ h1.node[n] = r
       /\ (\A a \in Cells \ {n} : h1.node[a] = h.node[a])
       /\ h1.btag[t] = size /\ (\A a \in Cells \ {t} : h1.btag[a] = h.btag[a])
  <2>1. h1.brk = b /\ h1.node = g1.node /\ h1.btag = g2.btag /\ h1.head = h.head /\ h1.tail = x
    BY <1>11, <1>12, <1>13, <1>14 DEF NodeSet, TagSet, TailSet, BrkSet
  <2>2. g1.node[n] = r /\ \A a \in Cells \ {n} : g1.node[a] = h.node[a]
    BY <1>11 DEF NodeSet
  <2>3. g1.btag = h.btag
    BY <1>11 DEF NodeSet
  <2>4. g2.btag[t] = size /\ \A a \in Cells \ {t} : g2.btag[a] = g1.btag[a]
    BY <1>10, <1>12 DEF TagSet
  <2> QED
    BY <2>1, <2>2, <2>3, <2>4
<1>16. \A m \in B : /\ m \in Cells \ {n} /\ h1.node[m] = h.node[m]
                    /\ h1.btag[EndOf(h, m) - 1] = h.btag[EndOf(h, m) - 1]
  <2> SUFFICES ASSUME NEW m \in B
               PROVE  /\ m \in Cells \ {n} /\ h1.node[m] = h.node[m]
                      /\ h1.btag[EndOf(h, m) - 1] = h.btag[EndOf(h, m) - 1]
    OBVIOUS
  <2>1. m \in Cells \ {n}
    BY <1>0, <1>1
  <2>2. EndOf(h, m) - 1 \in Cells \ {t}
    BY <1>0, <1>1, <1>4 DEF Cells
  <2> QED
    BY <2>1, <2>2, <1>15
<1> DEFINE C == B \union {n}
<1>17. Tiled(h1, C) /\ n \notin B
  <2>1. h1.brk = EndOf(h1, n) /\ h1.brk <= HeapSize /\ h1.node[n].size \in Nat
    BY <1>0, <1>1, <1>5, <1>10, <1>15 DEF EndOf
  <2>2. h1.btag[h1.brk - 1] = h1.node[n].size
    <3>1. h1.brk - 1 = t
      BY <1>0, <1>1, <1>4, <1>5, <1>15
    <3> QED
      BY <3>1, <1>10, <1>15
  <2>3. h1.tail = IF h.tail = NoAddr THEN n ELSE h.tail
    BY <1>3, <1>15
  <2>4. \A m \in B : /\ h1.node[m].size = h.node[m].size
                     /\ h1.btag[EndOf(h, m) - 1] = h.btag[EndOf(h, m) - 1]
    BY <1>16
  <2> QED
    BY <2>1, <2>2, <2>3, <2>4, <1>1, ExtendTiles
<1>18. HeapType(g) /\ Tiled(g, C) /\ g.head = h1.head /\ \A m \in C : g.node[m] = h1.node[m]
  <2>1. n \in C
    OBVIOUS
  <2> HIDE DEF C
  <2> QED
    BY <2>1, <1>1, <1>14, <1>17, HandOutKeeps
<1>19. g.node[n] = r /\ \A m \in B : g.node[m] = h.node[m]
  BY <1>15, <1>16, <1>18
<1>20. FreeOf(g, C) = F
  BY <1>10, <1>17, <1>19 DEF FreeOf
<1>21. Listed(g, F, k, L)
  <2>1. g.head = h.head
        /\ \A a \in F : g.node[a].prev = h.node[a].prev /\ g.node[a].next = h.node[a].next
    BY <1>0, <1>15, <1>18, <1>19
  <2> QED
    BY <2>1, SameList
<1>22. Granted(h, g, B, C, n, size)
  BY <1>10, <1>17, <1>19 DEF Granted
<1> QED
  BY <1>1, <1>18, <1>20, <1>21, <1>22

\* A block that is taken out of the free list and split: its rest is a block of its own.
Cleft(h, g, B, n, x, size) ==
    /\ HeapType(g) /\ Tiled(g, B \union {x}) /\ x \notin B
    /\ g.node[n].size = size /\ ~g.node[n].is_free /\ g.node[x].is_free
    /\ \A m \in B \ {n} : g.node[m].size = h.node[m].size /\ g.node[m].is_free = h.node[m].is_free

LEMMA SplitKeeps ==
  ASSUME NEW h, HeapType(h), NEW B, Tiled(h, B), NEW F, F \subseteq B, NEW k, NEW L,
         Listed(h, F, k, L), NEW n \in B, n \notin F, NEW size \in Nat, h.node[n].size >= 2 + size,
         NEW x, x = n + 2 + size, NEW g, g = Alloc!alloc_free_split(h, n, size)
  PROVE  Cleft(h, g, B, n, x, size) /\ \E M : Listed(g, F \union {x}, k + 1, M)
<1>0. B \subseteq Cells /\ F \subseteq Cells /\ HeapSize \in Nat /\ h.brk \in 0 .. HeapSize
      /\ (\A m \in B : m \in Int /\ m >= 0 /\ m < h.brk /\ h.node[m].size \in Nat
                       /\ EndOf(h, m) \in Int /\ EndOf(h, m) > m + 1 /\ EndOf(h, m) <= h.brk)
  BY BlockBounds
<1>1. PICK rest : rest = h.node[n].size - 2 - size
  OBVIOUS
<1>2. PICK u : u = x + 1 + rest
  OBVIOUS
<1>3. PICK t : t = n + 1 + size
  OBVIOUS
<1>4. PICK w : w = IF x > h.tail THEN x ELSE h.tail
  OBVIOUS
<1>5. /\ rest \in Nat /\ n \in Cells /\ x \in Cells /\ u \in Cells /\ t \in Cells /\ w \in Int
      /\ size \in Int /\ n # x /\ u # t /\ u = EndOf(h, n) - 1 /\ t = x - 1 /\ h.tail \in B
      /\ n \in Int /\ x \in Int /\ x > n /\ x < EndOf(h, n) /\ rest \in Int
  <2>1. n \in Int /\ n >= 0 /\ n < h.brk /\ h.node[n].size \in Nat /\ EndOf(h, n) <= h.brk
        /\ EndOf(h, n) = n + 2 + h.node[n].size
    BY <1>0 DEF EndOf
  <2>2. h.tail \in B /\ h.tail \in Int
    BY <2>1, <1>0, HeapFields DEF Tiled
  <2>3. rest \in Nat /\ rest \in Int
    BY <2>1, <1>1
  <2>4. u = EndOf(h, n) - 1 /\ t = x - 1 /\ x > n /\ x < EndOf(h, n) /\ u # t /\ n # x /\ x \in Int
    BY <2>1, <2>3, <1>1, <1>2, <1>3
  <2>5. x \in Cells /\ u \in Cells /\ t \in Cells
    BY <2>1, <2>3, <2>4, <1>0 DEF Cells
  <2> QED
    BY <2>1, <2>2, <2>3, <2>4, <2>5, <1>0, <1>4
<1>6. PICK g1 : g1 = PutSize(h, x, rest)
  OBVIOUS
<1>7. PICK g2 : g2 = PutFree(g1, x, TRUE)
  OBVIOUS
<1>8. PICK g3 : g3 = PutTag(g2, u, rest)
  OBVIOUS
<1>9. PICK g4 : g4 = PutTail(g3, w)
  OBVIOUS
<1>10. PICK g5 : g5 = PutSize(g4, n, size)
  OBVIOUS
<1>11. PICK g6 : g6 = PutFree(g5, n, FALSE)
  OBVIOUS
<1>12. PICK g7 : g7 = PutTag(g6, t, size)
  OBVIOUS
<1>13. g = Alloc!insert_free(g7, x)
  BY <1>1, <1>2, <1>3, <1>4, <1>6, <1>7, <1>8, <1>9, <1>10, <1>11, <1>12, HeapConstants, Zenon
     DEF Alloc!alloc_free_split, PutSize, PutFree, PutTag, PutTail
<1>14. SizeSet(g1, h, x, rest) /\ HeapType(g1)
  <2>1. SizeSet(g1, h, x, rest)
    BY <1>5, <1>6, SetSize
  <2> QED
    BY <2>1 DEF SizeSet
<1>15. FreeSet(g2, g1, x, TRUE) /\ HeapType(g2)
  <2>1. FreeSet(g2, g1, x, TRUE)
    BY <1>5, <1>7, <1>14, SetFree
  <2> QED
    BY <2>1 DEF FreeSet
<1>16. TagSet(g3, g2, u, rest) /\ HeapType(g3)
  <2>1. TagSet(g3, g2, u, rest)
    BY <1>5, <1>8, <1>15, SetTag
  <2> QED
    BY <2>1 DEF TagSet
<1>17. TailSet(g4, g3, w) /\ HeapType(g4)
  <2>1. TailSet(g4, g3, w)
    BY <1>5, <1>9, <1>16, SetTail
  <2> QED
    BY <2>1 DEF TailSet
<1>18. SizeSet(g5, g4, n, size) /\ HeapType(g5)
  <2>1. SizeSet(g5, g4, n, size)
    BY <1>5, <1>10, <1>17, SetSize
  <2> QED
    BY <2>1 DEF SizeSet
<1>19. FreeSet(g6, g5, n, FALSE) /\ HeapType(g6)
  <2>1. FreeSet(g6, g5, n, FALSE)
    BY <1>5, <1>11, <1>18, SetFree
  <2> QED
    BY <2>1 DEF FreeSet
<1>20. TagSet(g7, g6, t, size) /\ HeapType(g7)
  <2>1. TagSet(g7, g6, t, size)
    BY <1>5, <1>12, <1>19, SetTag
  <2> QED
    BY <2>1 DEF TagSet
<1>21. g7.head = h.head /\ g7.tail = w /\ g7.brk = h.brk
  BY <1>14, <1>15, <1>16, <1>17, <1>18, <1>19, <1>20 DEF SizeSet, FreeSet, TagSet, TailSet
<1>22. \A a \in Cells : a # u /\ a # t => g7.btag[a] = h.btag[a]
  <2>1. g2.btag = h.btag /\ g4.btag = g3.btag /\ g6.btag = g4.btag
    BY <1>14, <1>15, <1>17, <1>18, <1>19 DEF SizeSet, FreeSet, TailSet
  <2>2. \A a \in Cells : a # u => g3.btag[a] = g2.btag[a]
    BY <1>16, Zenon DEF TagSet
  <2>3. \A a \in Cells : a # t => g7.btag[a] = g6.btag[a]
    BY <1>20, Zenon DEF TagSet
  <2> QED
    BY <2>1, <2>2, <2>3, Zenon
<1>23. g7.btag[u] = rest /\ g7.btag[t] = size
  <2>1. g4.btag = g3.btag /\ g6.btag = g4.btag
    BY <1>17, <1>18, <1>19 DEF SizeSet, FreeSet, TailSet
  <2>2. g3.btag[u] = rest
    BY <1>5, <1>16, Zenon DEF TagSet
  <2>3. g7.btag[t] = size /\ g7.btag[u] = g6.btag[u]
    BY <1>5, <1>20, Zenon DEF TagSet
  <2> QED
    BY <2>1, <2>2, <2>3
<1>24. g7.node = g6.node /\ g4.node = g2.node
  BY <1>16, <1>17, <1>20 DEF TagSet, TailSet
<1>25. \A a \in Cells : /\ g7.node[a].prev = h.node[a].prev /\ g7.node[a].next = h.node[a].next
                        /\ a # n /\ a # x => g7.node[a].size = h.node[a].size
                                             /\ g7.node[a].is_free = h.node[a].is_free
  <2> SUFFICES ASSUME NEW a \in Cells
               PROVE  /\ g7.node[a].prev = h.node[a].prev /\ g7.node[a].next = h.node[a].next
                      /\ a # n /\ a # x => g7.node[a].size = h.node[a].size
                                           /\ g7.node[a].is_free = h.node[a].is_free
    OBVIOUS
  <2>1. /\ g1.node[a].prev = h.node[a].prev /\ g1.node[a].next = h.node[a].next
        /\ g1.node[a].is_free = h.node[a].is_free /\ (a # x => g1.node[a].size = h.node[a].size)
    BY <1>14, Zenon DEF SizeSet
  <2>2. /\ g2.node[a].prev = g1.node[a].prev /\ g2.node[a].next = g1.node[a].next
        /\ g2.node[a].size = g1.node[a].size /\ (a # x => g2.node[a].is_free = g1.node[a].is_free)
    BY <1>15, Zenon DEF FreeSet
  <2>3. /\ g5.node[a].prev = g4.node[a].prev /\ g5.node[a].next = g4.node[a].next
        /\ g5.node[a].is_free = g4.node[a].is_free /\ (a # n => g5.node[a].size = g4.node[a].size)
    BY <1>18, Zenon DEF SizeSet
  <2>4. /\ g6.node[a].prev = g5.node[a].prev /\ g6.node[a].next = g5.node[a].next
        /\ g6.node[a].size = g5.node[a].size /\ (a # n => g6.node[a].is_free = g5.node[a].is_free)
    BY <1>19, Zenon DEF FreeSet
  <2> QED
    BY <2>1, <2>2, <2>3, <2>4, <1>24
<1>26. g7.node[n].size = size /\ g7.node[x].size = rest
  <2>1. g1.node[x].size = rest /\ g2.node[x].size = g1.node[x].size
    BY <1>5, <1>14, <1>15, Zenon DEF SizeSet, FreeSet
  <2>2. g5.node[x].size = g4.node[x].size /\ g6.node[x].size = g5.node[x].size
    BY <1>5, <1>18, <1>19, Zenon DEF SizeSet, FreeSet
  <2>3. g5.node[n].size = size /\ g6.node[n].size = g5.node[n].size
    BY <1>5, <1>18, <1>19, Zenon DEF SizeSet, FreeSet
  <2> QED
    BY <2>1, <2>2, <2>3, <1>24
<1>27. ~g7.node[n].is_free /\ g7.node[x].is_free
  <2>1. g2.node[x].is_free = TRUE
    BY <1>5, <1>15, Zenon DEF FreeSet
  <2>2. g5.node[x].is_free = g4.node[x].is_free
    BY <1>5, <1>18, Zenon DEF SizeSet
  <2>3. g6.node[n].is_free = FALSE /\ g6.node[x].is_free = g5.node[x].is_free
    BY <1>5, <1>19, Zenon DEF FreeSet
  <2> QED
    BY <2>1, <2>2, <2>3, <1>24
<1>28. \A m \in B \ {n} : /\ m # x /\ m \in Cells /\ EndOf(h, m) - 1 \in Cells
                          /\ EndOf(h, m) - 1 # u /\ EndOf(h, m) - 1 # t
  <2> SUFFICES ASSUME NEW m \in B \ {n}
               PROVE  /\ m # x /\ m \in Cells /\ EndOf(h, m) - 1 \in Cells
                      /\ EndOf(h, m) - 1 # u /\ EndOf(h, m) - 1 # t
    OBVIOUS
  <2>1. (m < n => EndOf(h, m) <= n) /\ (n < m => EndOf(h, n) <= m)
    BY DEF Tiled
  <2>2. m # x /\ EndOf(h, m) - 1 # u /\ EndOf(h, m) - 1 # t
    <3>1. m \in Int /\ EndOf(h, m) \in Int /\ EndOf(h, m) > m + 1 /\ EndOf(h, n) \in Int /\ m # n
      BY <1>0
    <3>2. n \in Int /\ x \in Int /\ x > n /\ x < EndOf(h, n) /\ u = EndOf(h, n) - 1 /\ t = x - 1
      BY <1>5
    <3>3. CASE m < n
      BY <3>1, <3>2, <3>3, <2>1
    <3>4. CASE n < m
      BY <3>1, <3>2, <3>4, <2>1
    <3> QED
      BY <3>1, <3>2, <3>3, <3>4
  <2>3. EndOf(h, m) - 1 \in Cells
    BY <1>0 DEF Cells
  <2> QED
    BY <2>2, <2>3, <1>0
<1>29. Tiled(g7, B \union {x}) /\ x \notin B
  <2>1. g7.tail \in B \union {x}
    BY <1>4, <1>5, <1>21
  <2>2. \A m \in B \ {n} : /\ g7.node[m].size = h.node[m].size
                           /\ g7.btag[EndOf(h, m) - 1] = h.btag[EndOf(h, m) - 1]
    BY <1>22, <1>25, <1>28
  <2>3. g7.node[n].size \in Nat /\ g7.node[x].size \in Nat
    BY <1>5, <1>26
  <2>4. EndOf(g7, n) = x /\ EndOf(g7, x) = EndOf(h, n)
    <3>1. h.node[n].size \in Nat
      BY <1>0
    <3> QED
      BY <3>1, <1>1, <1>5, <1>26 DEF EndOf
  <2>5. g7.btag[x - 1] = g7.node[n].size /\ g7.btag[EndOf(h, n) - 1] = g7.node[x].size
    BY <1>5, <1>23, <1>26
  <2> QED
    BY <2>1, <2>2, <2>3, <2>4, <2>5, <1>21, SplitTiles
<1>30. Listed(g7, F, k, L)
  <2>1. g7.head = h.head
        /\ \A a \in F : g7.node[a].prev = h.node[a].prev /\ g7.node[a].next = h.node[a].next
    BY <1>0, <1>21, <1>25
  <2> QED
    BY <2>1, SameList
<1>31. x \in Cells \ F
  BY <1>5, <1>29
<1>32. Linked(g, g7, x)
  BY <1>0, <1>13, <1>20, <1>30, <1>31, InsertKeeps
<1>33. \E M : Listed(g, F \union {x}, k + 1, M)
  BY <1>0, <1>13, <1>20, <1>30, <1>31, InsertKeeps
<1>34. Tiled(g, B \union {x})
  BY <1>29, <1>32, InsertTiles
<1>35. \A a \in Cells : g.node[a].size = g7.node[a].size /\ g.node[a].is_free = g7.node[a].is_free
  BY <1>32 DEF Linked
<1>36. HeapType(g)
  BY <1>32 DEF Linked
<1>37. g.node[n].size = size /\ ~g.node[n].is_free /\ g.node[x].is_free
  BY <1>5, <1>26, <1>27, <1>35
<1>38. \A m \in B \ {n} : g.node[m].size = h.node[m].size /\ g.node[m].is_free = h.node[m].is_free
  BY <1>25, <1>28, <1>35
<1> QED
  BY <1>29, <1>33, <1>34, <1>36, <1>37, <1>38 DEF Cleft

\* alloc_free of a block that fits.
LEMMA Taken ==
  ASSUME NEW h, HeapType(h), NEW B, Tiled(h, B), NEW F, F = FreeOf(h, B), NEW k, NEW L,
         Listed(h, F, k, L), NEW n \in F, NEW size \in Nat, h.node[n].size >= size,
         NEW h1, h1 = Alloc!remove_free(h, n), NEW h2, h2 = Alloc!alloc_free(h1, n, size),
         NEW g, g = Alloc!HandOut(h2, n)
  PROVE  \E C, j, M : /\ HeapType(g) /\ Tiled(g, C) /\ Listed(g, FreeOf(g, C), j, M)
                      /\ Granted(h, g, B, C, n, size)
<1>0. B \subseteq Cells /\ F \subseteq B /\ n \in B /\ h.node[n].is_free
      /\ \A m \in B : h.node[m].size \in Nat /\ m \in Int
  BY BlockBounds DEF FreeOf
<1>1. Unlinked(h1, h, n) /\ Tiled(h1, B) /\ HeapType(h1)
  <2>1. Unlinked(h1, h, n) /\ Tiled(h1, B)
    BY <1>0, RemoveKeeps
  <2> QED
    BY <2>1 DEF Unlinked
<1>2. PICK M : Listed(h1, F \ {n}, k - 1, M)
  BY <1>0, RemoveKeeps
<1>3. \A m \in B : h1.node[m].size = h.node[m].size /\ h1.node[m].is_free = h.node[m].is_free
  BY <1>0, <1>1 DEF Unlinked
<1>4. PICK h3 : h3 = IF h1.node[n].size >= Alloc!meta_btag_size + size + SPLIT_TRESHOLD
                     THEN Alloc!alloc_free_split(h1, n, size) ELSE h1
  OBVIOUS
<1>5. h2 = PutFree(h3, n, FALSE)
  BY <1>4, Zenon DEF Alloc!alloc_free, PutFree
\* Of the heap before the payload is handed out: its blocks C, and what is in its list.
<1>6. \E C, j, P, E :
        /\ HeapType(h3) /\ Tiled(h3, C) /\ Listed(h3, E, j, P)
        /\ n \in C /\ n \notin E /\ E \subseteq C /\ h3.node[n].size >= size
        /\ \A m \in C \ {n} : h3.node[m].is_free <=> m \in E
        /\ \A m \in B \ {n} : m \in C /\ (~h.node[m].is_free => ~h3.node[m].is_free)
                              /\ h3.node[m].size = h.node[m].size
        /\ \A m \in C \ {n} : ~h3.node[m].is_free => m \in B /\ ~h.node[m].is_free
  <2>1. CASE h1.node[n].size >= 2 + size + SPLIT_TRESHOLD
    <3>0. h1.node[n].size >= 2 + size
      BY <2>1, <1>0, <1>3, HeapConstants
    <3>1. PICK x : x = n + 2 + size
      OBVIOUS
    <3>2. h3 = Alloc!alloc_free_split(h1, n, size)
      BY <2>1, <1>4, HeapConstants
    <3>3. F \ {n} \subseteq B /\ n \notin F \ {n}
      BY <1>0
    <3>4. Cleft(h1, h3, B, n, x, size)
      BY <3>0, <3>1, <3>2, <3>3, <1>0, <1>1, <1>2, SplitKeeps
    <3>5. PICK P : Listed(h3, (F \ {n}) \union {x}, k - 1 + 1, P)
      BY <3>0, <3>1, <3>2, <3>3, <1>0, <1>1, <1>2, SplitKeeps
    <3>6. /\ HeapType(h3) /\ Tiled(h3, B \union {x}) /\ x \notin B
          /\ h3.node[n].size = size /\ ~h3.node[n].is_free /\ h3.node[x].is_free
      BY <3>4 DEF Cleft
    <3>7. \A m \in B \ {n} : /\ h3.node[m].size = h.node[m].size
                             /\ h3.node[m].is_free = h.node[m].is_free
      BY <3>4, <1>3 DEF Cleft
    <3>8. PICK C : C = B \union {x}
      OBVIOUS
    <3>9. PICK E : E = (F \ {n}) \union {x}
      OBVIOUS
    <3>10. n \in C /\ n \notin E /\ E \subseteq C /\ h3.node[n].size >= size
      BY <3>6, <3>8, <3>9, <1>0
    <3>11. \A m \in C \ {n} : h3.node[m].is_free <=> m \in E
      BY <3>6, <3>7, <3>8, <3>9 DEF FreeOf
    <3>12. \A m \in B \ {n} : m \in C /\ (~h.node[m].is_free => ~h3.node[m].is_free)
                              /\ h3.node[m].size = h.node[m].size
      BY <3>7, <3>8
    <3>13. \A m \in C \ {n} : ~h3.node[m].is_free => m \in B /\ ~h.node[m].is_free
      BY <3>6, <3>7, <3>8
    <3>14. HeapType(h3) /\ Tiled(h3, C) /\ Listed(h3, E, k - 1 + 1, P)
      BY <3>5, <3>6, <3>8, <3>9
    <3> QED
      BY <3>10, <3>11, <3>12, <3>13, <3>14
  <2>2. CASE ~(h1.node[n].size >= 2 + size + SPLIT_TRESHOLD)
    <3>1. h3 = h1
      BY <2>2, <1>4, HeapConstants
    <3>2. PICK E : E = F \ {n}
      OBVIOUS
    <3>3. n \notin E /\ E \subseteq B /\ h3.node[n].size >= size
      BY <3>1, <3>2, <1>0, <1>3
    <3>4. \A m \in B \ {n} : h3.node[m].is_free <=> m \in E
      BY <3>1, <3>2, <1>3 DEF FreeOf
    <3>5. \A m \in B \ {n} : /\ ~h.node[m].is_free => ~h3.node[m].is_free
                             /\ h3.node[m].size = h.node[m].size
                             /\ ~h3.node[m].is_free => ~h.node[m].is_free
      BY <3>1, <1>3
    <3>6. HeapType(h3) /\ Tiled(h3, B) /\ Listed(h3, E, k - 1, M)
      BY <3>1, <3>2, <1>1, <1>2
    <3> QED
      BY <3>3, <3>4, <3>5, <3>6, <1>0
  <2> QED
    BY <2>1, <2>2
<1>7. PICK C, j, P, E :
        /\ HeapType(h3) /\ Tiled(h3, C) /\ Listed(h3, E, j, P)
        /\ n \in C /\ n \notin E /\ E \subseteq C /\ h3.node[n].size >= size
        /\ \A m \in C \ {n} : h3.node[m].is_free <=> m \in E
        /\ \A m \in B \ {n} : m \in C /\ (~h.node[m].is_free => ~h3.node[m].is_free)
                              /\ h3.node[m].size = h.node[m].size
        /\ \A m \in C \ {n} : ~h3.node[m].is_free => m \in B /\ ~h.node[m].is_free
  BY <1>6
<1>8. C \subseteq Cells /\ n \in Cells /\ HeapType(h3)
  BY <1>7, BlockBounds
<1>9. FreeSet(h2, h3, n, FALSE)
  BY <1>5, <1>8, SetFree
<1>10. /\ HeapType(h2) /\ h2.head = h3.head
       /\ \A a \in Cells : /\ h2.node[a].size = h3.node[a].size
                           /\ h2.node[a].prev = h3.node[a].prev
                           /\ h2.node[a].next = h3.node[a].next
  BY <1>9 DEF FreeSet
<1>11. ~h2.node[n].is_free /\ \A a \in Cells : a # n => h2.node[a].is_free = h3.node[a].is_free
  <2>1. h2.node[n].is_free = FALSE
    BY <1>8, <1>9, Zenon DEF FreeSet
  <2>2. \A a \in Cells : a # n => h2.node[a].is_free = h3.node[a].is_free
    BY <1>9, Zenon DEF FreeSet
  <2> QED
    BY <2>1, <2>2
<1>12. Tiled(h2, C)
  <2>1. SameBlocks(h3, h2, C)
    BY <1>8, <1>9, <1>10 DEF FreeSet, SameBlocks
  <2> QED
    BY <2>1, <1>7, SameTiles
<1>13. /\ HeapType(g) /\ Tiled(g, C) /\ g.head = h2.head
       /\ \A m \in C : g.node[m] = h2.node[m]
  BY <1>7, <1>10, <1>12, HandOutKeeps
<1>14. /\ g.head = h3.head /\ ~g.node[n].is_free /\ g.node[n].size >= size
       /\ (\A m \in C : /\ g.node[m].size = h3.node[m].size /\ g.node[m].prev = h3.node[m].prev
                        /\ g.node[m].next = h3.node[m].next)
       /\ (\A m \in C \ {n} : g.node[m].is_free = h3.node[m].is_free)
  BY <1>7, <1>8, <1>10, <1>11, <1>13
<1>15. FreeOf(g, C) = E
  BY <1>7, <1>14 DEF FreeOf
<1>16. Listed(g, E, j, P)
  <2>1. \A a \in E : g.node[a].prev = h3.node[a].prev /\ g.node[a].next = h3.node[a].next
    BY <1>7, <1>14
  <2> QED
    BY <2>1, <1>7, <1>14, SameList
<1>17. Granted(h, g, B, C, n, size)
  BY <1>0, <1>7, <1>14 DEF Granted
<1> QED
  BY <1>13, <1>15, <1>16, <1>17

LEMMA LeastIsThere ==
  ASSUME NEW S \in SUBSET Nat, S # {}
  PROVE  Alloc!Min(S) \in S
<1>1. PICK x \in S : \A y \in S : ~(<<y, x>> \in OpToRel(<, Nat))
  BY WFMin, NatLessThanWellFounded
<1>2. ASSUME NEW y \in S PROVE x <= y
  <2>1. CASE y < x
    <3>1. <<y, x>> \in OpToRel(<, Nat)
      BY <2>1, Zenon DEF OpToRel
    <3> QED
      BY <1>1, <3>1
  <2> QED
    BY <2>1
<1> QED
  BY <1>1, <1>2 DEF Alloc!Min

LEMMA MallocKeeps ==
  ASSUME NEW h, NEW l, Whole(h, l), NEW size \in Nat, NEW r, r = Alloc!malloc(h, size)
  PROVE  \/ r.ptr = NoAddr /\ r.h = h
         \/ /\ r.ptr # NoAddr /\ r.ptr \notin DOMAIN l
            /\ Whole(r.h, Alloc!With(l, r.ptr, size))
<1>0. HeapType(h)
  BY DEF Whole
<1>1. PICK B, k, L : Tiled(h, B) /\ Listed(h, FreeOf(h, B), k, L) /\ Held(h, B, l)
  BY DEF Whole
<1>2. PICK F : F = FreeOf(h, B)
  OBVIOUS
<1>3. B \subseteq Cells /\ F \subseteq Cells /\ Listed(h, F, k, L) /\ HeapSize \in Nat
      /\ h.brk \in 0 .. HeapSize /\ F \subseteq Nat
  <2>1. B \subseteq Cells /\ HeapSize \in Nat /\ h.brk \in 0 .. HeapSize
    BY <1>1, BlockBounds
  <2>2. Cells \subseteq Nat
    BY <2>1 DEF Cells
  <2> QED
    BY <2>1, <2>2, <1>1, <1>2 DEF FreeOf
<1>4. Alloc!FreeList(h) = L
  BY <1>3, FreeListIs
<1>5. k \in Nat /\ L \in [1 .. k -> F]
  BY <1>3 DEF Listed
<1>6. PICK fits : fits = {i \in DOMAIN L : h.node[L[i]].size >= size}
  OBVIOUS
<1>7. PICK n : n = L[Alloc!Min(fits)]
  OBVIOUS
<1>8. r = IF fits # {}
          THEN [h |-> Alloc!HandOut(Alloc!alloc_free(Alloc!remove_free(h, n), n, size), n),
                ptr |-> n + 1]
          ELSE IF h.brk + 2 + size > HeapSize THEN [h |-> h, ptr |-> NoAddr]
          ELSE [h |-> Alloc!HandOut(Alloc!alloc_new(h, size), h.brk), ptr |-> h.brk + 1]
  BY <1>4, <1>6, <1>7, HeapConstants, Zenon DEF Alloc!malloc
<1>9. CASE fits # {}
  <2>1. PICK i : i = Alloc!Min(fits)
    OBVIOUS
  <2>2. i \in fits
    <3>1. fits \in SUBSET Nat
      BY <1>5, <1>6
    <3> QED
      BY <2>1, <3>1, <1>9, LeastIsThere
  <2>3. n \in F /\ h.node[n].size >= size
    BY <2>1, <2>2, <1>5, <1>6, <1>7
  <2>4. PICK h1 : h1 = Alloc!remove_free(h, n)
    OBVIOUS
  <2>5. PICK h2 : h2 = Alloc!alloc_free(h1, n, size)
    OBVIOUS
  <2>6. PICK g : g = Alloc!HandOut(h2, n)
    OBVIOUS
  <2>7. r.h = g /\ r.ptr = n + 1
    BY <2>4, <2>5, <2>6, <1>8, <1>9
  <2>8. PICK C, j, M : /\ HeapType(g) /\ Tiled(g, C) /\ Listed(g, FreeOf(g, C), j, M)
                       /\ Granted(h, g, B, C, n, size)
    BY <2>3, <2>4, <2>5, <2>6, <1>0, <1>1, <1>2, <1>3, Taken
  <2>9. C \subseteq Int /\ n \in Nat /\ size \in Int
    BY <2>3, <2>8, <1>3, BlockBounds
  <2>10. Held(g, C, Alloc!With(l, n + 1, size)) /\ n + 1 \notin DOMAIN l
    BY <2>8, <2>9, <1>1, HeldMore
  <2>11. n + 1 # NoAddr
    BY <2>9 DEF NoAddr
  <2> QED
    BY <2>7, <2>8, <2>10, <2>11 DEF Whole
<1>10. CASE fits = {} /\ h.brk + 2 + size > HeapSize
  BY <1>8, <1>10
<1>11. CASE fits = {} /\ ~(h.brk + 2 + size > HeapSize)
  <2>1. PICK n1 : n1 = h.brk
    OBVIOUS
  <2>2. PICK h1 : h1 = Alloc!alloc_new(h, size)
    OBVIOUS
  <2>3. PICK g : g = Alloc!HandOut(h1, h.brk)
    OBVIOUS
  <2>4. r.h = g /\ r.ptr = n1 + 1
    BY <2>1, <2>2, <2>3, <1>8, <1>11
  <2>5. h.brk + 2 + size <= HeapSize /\ n1 \in Nat
    BY <2>1, <1>3, <1>11
  <2>6. PICK C, j, M : /\ HeapType(g) /\ Tiled(g, C) /\ Listed(g, FreeOf(g, C), j, M)
                       /\ Granted(h, g, B, C, n1, size)
    BY <2>1, <2>2, <2>3, <2>5, <1>0, <1>1, <1>2, <1>3, AllocNew
  <2>7. C \subseteq Int /\ size \in Int
    BY <2>6, BlockBounds
  <2>8. Held(g, C, Alloc!With(l, n1 + 1, size)) /\ n1 + 1 \notin DOMAIN l
    BY <2>5, <2>6, <2>7, <1>1, HeldMore
  <2>9. n1 + 1 # NoAddr
    BY <2>5 DEF NoAddr
  <2> QED
    BY <2>4, <2>6, <2>8, <2>9 DEF Whole
<1> QED
  BY <1>9, <1>10, <1>11

-----------------------------------------------------------------------------
\* The walk by the sizes finds the blocks.
Iterate(f, n, b, s) == f = [i \in 0 .. n |-> IF i = 0 THEN b ELSE s[f[i - 1]]]

LEMMA IterateExists ==
  ASSUME NEW n \in Nat, NEW S, NEW b \in S, NEW s \in [S -> S]
  PROVE  \E f \in [0 .. n -> S] : Iterate(f, n, b, s)
<1> DEFINE G == {m \in 0 .. n : \E f \in [0 .. m -> S] : Iterate(f, m, b, s)}
<1>1. 0 \in G
  <2> DEFINE f == [i \in 0 .. 0 |-> b]
  <2>1. f \in [0 .. 0 -> S]
    OBVIOUS
  <2>2. f = [i \in 0 .. 0 |-> IF i = 0 THEN b ELSE s[f[i - 1]]]
    OBVIOUS
  <2>3. Iterate(f, 0, b, s)
    BY <2>2 DEF Iterate
  <2> QED
    BY <2>1, <2>3
<1>2. ASSUME NEW m \in 1 .. n, m - 1 \in G PROVE m \in G
  <2>1. PICK f \in [0 .. m - 1 -> S] : Iterate(f, m - 1, b, s)
    BY <1>2
  <2>2. \A i \in 0 .. m - 1 : f[i] = IF i = 0 THEN b ELSE s[f[i - 1]]
    BY <2>1 DEF Iterate
  <2> DEFINE g == [i \in 0 .. m |-> IF i = m THEN s[f[m - 1]] ELSE f[i]]
  <2>3. s[f[m - 1]] \in S
    <3>1. f[m - 1] \in S
      BY <1>2
    <3> QED
      BY <3>1
  <2>4. g \in [0 .. m -> S]
    <3>1. \A i \in 0 .. m : i # m => i \in 0 .. m - 1
      BY <1>2
    <3> QED
      BY <2>3, <3>1
  <2>5. \A i \in 0 .. m : g[i] = IF i = 0 THEN b ELSE s[g[i - 1]]
    <3> SUFFICES ASSUME NEW i \in 0 .. m PROVE g[i] = IF i = 0 THEN b ELSE s[g[i - 1]]
      OBVIOUS
    <3>0. \A j \in 0 .. m : g[j] = IF j = m THEN s[f[m - 1]] ELSE f[j]
      OBVIOUS
    <3> HIDE DEF g
    <3>1. i # 0 => g[i - 1] = f[i - 1]
      BY <1>2, <3>0
    <3>2. CASE i = m
      <4>1. i # 0
        BY <1>2, <3>2
      <4>2. g[i] = s[f[m - 1]]
        BY <3>0, <3>2, Zenon
      <4> QED
        BY <3>1, <3>2, <4>1, <4>2
    <3>3. CASE i # m
      <4>1. i \in 0 .. m - 1 /\ g[i] = f[i]
        BY <1>2, <3>0, <3>3
      <4> QED
        BY <2>2, <3>1, <4>1
    <3> QED
      BY <3>2, <3>3
  <2> HIDE DEF g
  <2>6. g = [i \in 0 .. m |-> IF i = 0 THEN b ELSE s[g[i - 1]]]
    BY <2>4, <2>5
  <2>7. Iterate(g, m, b, s)
    BY <2>6 DEF Iterate
  <2> QED
    BY <1>2, <2>4, <2>7
<1> HIDE DEF G
<1>3. \A m \in 0 .. n : m \in G
  BY <1>1, <1>2, InductUpTo
<1>4. n \in G
  BY <1>3
<1> QED
  BY <1>4 DEF G

BlockAt(h, n) == n < h.brk /\ h.node[n].size >= 0
Following(h, n) == IF BlockAt(h, n) THEN n + 2 + h.node[n].size ELSE n
WalkEquation(h, f) ==
    f = [k \in 0 .. HeapSize |-> IF k = 0 THEN 0 ELSE Following(h, f[k - 1])]
WalkOf(h) == CHOOSE f : WalkEquation(h, f)
BlocksOf(h) == {n \in {WalkOf(h)[k] : k \in 0 .. HeapSize} : BlockAt(h, n)}

LEMMA BlocksAre ==
  ASSUME NEW h, NEW B, Tiled(h, B)
  PROVE  BlocksOf(h) = B
<1>0. B \subseteq Cells /\ HeapSize \in Nat /\ h.brk \in 0 .. HeapSize
      /\ (\A m \in B : m \in Int /\ m >= 0 /\ m < h.brk /\ m < HeapSize /\ h.node[m].size \in Nat
                       /\ EndOf(h, m) \in Int /\ EndOf(h, m) > m + 1 /\ EndOf(h, m) <= h.brk)
  BY BlockBounds
<1> DEFINE S == B \union {h.brk}
<1>1. /\ 0 \in S /\ (\A m \in B : EndOf(h, m) \in S) /\ (\A m \in S : m \in Int /\ m <= h.brk)
      /\ h.brk \notin B
  <2>1. 0 \in S
    <3>1. h.brk > 0 => 0 \in B
      BY DEF Tiled
    <3> QED
      BY <3>1, <1>0
  <2>2. \A m \in B : EndOf(h, m) \in S
    BY DEF Tiled
  <2>3. \A m \in S : m \in Int /\ m <= h.brk
    BY <1>0
  <2>4. h.brk \notin B
    BY <1>0
  <2> QED
    BY <2>1, <2>2, <2>3, <2>4
<1>2. \A m \in S : (BlockAt(h, m) <=> m \in B)
  <2>1. \A m \in B : BlockAt(h, m)
    BY <1>0 DEF BlockAt
  <2>2. ~BlockAt(h, h.brk)
    BY <1>0 DEF BlockAt
  <2> QED
    BY <2>1, <2>2, <1>1
<1>3. \A m \in S : Following(h, m) = IF m \in B THEN EndOf(h, m) ELSE m
  BY <1>2, Zenon DEF Following, EndOf
<1> DEFINE s == [m \in S |-> Following(h, m)]
<1>4. s \in [S -> S]
  <2>1. \A m \in S : Following(h, m) \in S
    BY <1>1, <1>3
  <2> HIDE DEF S
  <2> QED
    BY <2>1
<1>5. \E f : WalkEquation(h, f)
  <2>1. \A m \in S : s[m] = Following(h, m)
    OBVIOUS
  <2> HIDE DEF S, s
  <2>2. PICK f \in [0 .. HeapSize -> S] : Iterate(f, HeapSize, 0, s)
    BY <1>0, <1>1, <1>4, IterateExists
  <2>3. \A k \in 0 .. HeapSize : f[k] = IF k = 0 THEN 0 ELSE s[f[k - 1]]
    BY <2>2 DEF Iterate
  <2>4. \A k \in 0 .. HeapSize : k # 0 => f[k - 1] \in S
    BY <1>0, <2>2
  <2>5. \A k \in 0 .. HeapSize : f[k] = IF k = 0 THEN 0 ELSE Following(h, f[k - 1])
    BY <2>1, <2>3, <2>4
  <2>6. f = [k \in 0 .. HeapSize |-> f[k]]
    BY <2>2
  <2> QED
    BY <2>5, <2>6, Zenon DEF WalkEquation
<1>6. PICK W : W = WalkOf(h)
  OBVIOUS
<1>7. WalkEquation(h, W)
  BY <1>5, <1>6, Zenon DEF WalkOf
<1>8. \A k \in 0 .. HeapSize : W[k] = IF k = 0 THEN 0 ELSE Following(h, W[k - 1])
  BY <1>7 DEF WalkEquation
\* The walk stays on blocks, and each step but the last takes it two units on at least.
<1> DEFINE G == {k \in 0 .. HeapSize : W[k] \in S /\ (W[k] \in B => W[k] >= k)}
<1>9. 0 \in G
  <2>1. 0 \in 0 .. HeapSize
    BY <1>0
  <2>2. W[0] = 0
    BY <2>1, <1>8
  <2> QED
    BY <2>1, <2>2, <1>1
<1>10. \A k \in 1 .. HeapSize : k - 1 \in G => k \in G
  <2> SUFFICES ASSUME NEW k \in 1 .. HeapSize, k - 1 \in G PROVE k \in G
    OBVIOUS
  <2>1. k \in 0 .. HeapSize /\ k # 0
    BY <1>0
  <2>2. W[k - 1] \in S /\ (W[k - 1] \in B => W[k - 1] >= k - 1)
    OBVIOUS
  <2>3. W[k] = Following(h, W[k - 1])
    BY <2>1, <1>8, Zenon
  <2>4. W[k] = IF W[k - 1] \in B THEN EndOf(h, W[k - 1]) ELSE W[k - 1]
    BY <2>2, <2>3, <1>3
  <2>5. CASE W[k - 1] \in B
    <3>1. W[k] = EndOf(h, W[k - 1]) /\ W[k] \in S
      BY <2>4, <2>5, <1>1
    <3>2. W[k] >= k
      BY <3>1, <2>2, <2>5, <1>0
    <3> QED
      BY <3>1, <3>2, <2>1
  <2>6. CASE W[k - 1] \notin B
    BY <2>1, <2>2, <2>4, <2>6
  <2> QED
    BY <2>5, <2>6
<1> HIDE DEF G
<1>11. \A k \in 0 .. HeapSize : k \in G
  BY <1>0, <1>9, <1>10, InductUpTo
<1>12. \A k \in 0 .. HeapSize : W[k] \in S /\ (W[k] \in B => W[k] >= k)
  BY <1>11 DEF G
\* Every block is reached: else take the first one that is not.
<1>13. \A n \in B : \E k \in 0 .. HeapSize : W[k] = n
  <2> DEFINE Bad == {n \in B : ~\E k \in 0 .. HeapSize : W[k] = n}
  <2> SUFFICES ASSUME Bad # {} PROVE FALSE
    OBVIOUS
  <2>1. Bad \subseteq Nat
    BY <1>0
  <2>2. PICK n \in Bad : \A m \in Bad : ~(<<m, n>> \in OpToRel(<, Nat))
    BY <2>1, WFMin, NatLessThanWellFounded
  <2>3. \A m \in Bad : ~(m < n)
    BY <2>1, <2>2, Zenon DEF OpToRel
  <2>4. n \in B /\ ~\E k \in 0 .. HeapSize : W[k] = n
    BY <2>2
  <2>5. n # 0
    BY <2>4, <1>0, <1>8
  <2>6. PICK m \in B : EndOf(h, m) = n
    BY <2>4, <2>5 DEF Tiled
  <2>7. m < n
    BY <2>4, <2>6, <1>0
  <2>8. PICK k \in 0 .. HeapSize : W[k] = m
    BY <2>3, <2>6, <2>7
  <2>9. m >= k /\ m < HeapSize
    BY <2>6, <2>8, <1>0, <1>12
  <2>10. k + 1 \in 0 .. HeapSize /\ k + 1 # 0 /\ (k + 1) - 1 = k
    BY <2>8, <2>9, <1>0
  <2>11. W[k + 1] = Following(h, m)
    BY <2>8, <2>10, <1>8
  <2>12. W[k + 1] = n
    BY <2>6, <2>11, <1>3
  <2> QED
    BY <2>4, <2>10, <2>12
<1>14. BlocksOf(h) = {n \in {W[k] : k \in 0 .. HeapSize} : BlockAt(h, n)}
  BY <1>6, Zenon DEF BlocksOf
<1> QED
  BY <1>2, <1>12, <1>13, <1>14

-----------------------------------------------------------------------------
\* The invariant, and what follows from it.
WholeHeap == Whole(heap, live)

LEMMA WholeStarts == ASSUME Alloc!Init PROVE WholeHeap
<1>1. PICK h : h = heap
  OBVIOUS
<1>2. PICK l : l = live
  OBVIOUS
<1>3. /\ h = [node |-> [a \in Cells |-> Alloc!JunkHeader], btag |-> [a \in Cells |-> Alloc!Junk],
              head |-> NoAddr, tail |-> NoAddr, brk |-> 0]
      /\ l = [p \in {} |-> 0]
  BY <1>1, <1>2, HeapConstants, Zenon DEF Alloc!Init
<1>4. Alloc!JunkHeader \in Header /\ Alloc!Junk \in Int /\ NoAddr \in Int /\ HeapSize \in Nat
  BY HeapConstants DEF Alloc!JunkHeader, Alloc!Junk, Alloc!None, Header, NoAddr
<1>5. HeapType(h) /\ h.brk = 0 /\ h.head = NoAddr /\ h.tail = NoAddr
  BY <1>3, <1>4 DEF HeapType
<1>6. Tiled(h, {})
  BY <1>4, <1>5 DEF Tiled
<1>7. FreeOf(h, {}) = {}
  BY DEF FreeOf
<1>8. PICK L : L = [i \in 1 .. 0 |-> 0]
  OBVIOUS
<1>9. Listed(h, {}, 0, L)
  <2>1. L \in [1 .. 0 -> {}]
    BY <1>8
  <2>2. \A i \in 1 .. 0 : FALSE
    OBVIOUS
  <2>3. \A i \in 2 .. 0 : FALSE
    OBVIOUS
  <2> QED
    BY <2>1, <2>2, <2>3, <1>5 DEF Listed
<1>10. Held(h, {}, l)
  <2>1. DOMAIN l = {}
    BY <1>3
  <2> QED
    BY <2>1 DEF Held
<1>11. Whole(h, l)
  BY <1>5, <1>6, <1>7, <1>9, <1>10 DEF Whole
<1> QED
  BY <1>1, <1>2, <1>11 DEF WholeHeap

\* A block that is large enough already stays what it is.
LEMMA InPlaceKeeps ==
  ASSUME NEW h, NEW l, Whole(h, l), NEW p \in DOMAIN l, NEW size \in Int,
         size <= h.node[p - 1].size
  PROVE  Whole(h, [l EXCEPT ![p] = size])
<1>1. PICK B, k, L : Tiled(h, B) /\ Listed(h, FreeOf(h, B), k, L) /\ Held(h, B, l)
  BY DEF Whole
<1>2. PICK w : w = [l EXCEPT ![p] = size]
  OBVIOUS
<1>3. DOMAIN w = DOMAIN l /\ w[p] = size /\ \A q \in DOMAIN l : q # p => w[q] = l[q]
  BY <1>2
<1>4. h.node[p - 1].size \in Int
  <2>1. p - 1 \in B
    BY <1>1 DEF Held
  <2> QED
    BY <2>1, <1>1, BlockBounds
<1>5. Held(h, B, w)
  <2>1. ASSUME NEW q \in DOMAIN l
        PROVE  /\ q \in Int /\ w[q] \in Int /\ q - 1 \in B
               /\ ~h.node[q - 1].is_free /\ h.node[q - 1].size >= w[q]
    <3>1. /\ q \in Int /\ l[q] \in Int /\ q - 1 \in B
          /\ ~h.node[q - 1].is_free /\ h.node[q - 1].size >= l[q]
      BY <1>1 DEF Held
    <3>2. CASE q = p
      BY <3>1, <3>2, <1>3, <1>4
    <3>3. CASE q # p
      BY <3>1, <3>3, <1>3
    <3> QED
      BY <3>2, <3>3
  <2>2. \A n \in B : ~h.node[n].is_free => n + 1 \in DOMAIN l
    BY <1>1 DEF Held
  <2> QED
    BY <2>1, <2>2, <1>3 DEF Held
<1>6. Whole(h, w)
  BY <1>1, <1>5 DEF Whole
<1> QED
  BY <1>2, <1>6

\* The client gives back p only after it has got another block.
LEMMA MovedLive ==
  ASSUME NEW l, NEW p \in DOMAIN l, NEW q, q \notin DOMAIN l, q # NoAddr, NEW size
  PROVE  Alloc!With(Less(l, p), q, size) = Less(Alloc!With(l, q, size), p)
         /\ p \in DOMAIN Alloc!With(l, q, size)
<1>1. PICK w : w = [r \in DOMAIN l \union {q} |-> IF r = q THEN size ELSE l[r]]
  OBVIOUS
<1>2. Alloc!With(l, q, size) = w
  BY <1>1, HeapConstants, Zenon DEF Alloc!With
<1>3. DOMAIN w = DOMAIN l \union {q} /\ \A r \in DOMAIN w : w[r] = IF r = q THEN size ELSE l[r]
  BY <1>1
<1>4. PICK v : v = Less(l, p)
  OBVIOUS
<1>5. DOMAIN v = DOMAIN l \ {p} /\ \A r \in DOMAIN v : v[r] = l[r]
  BY <1>4 DEF Less
<1>6. Alloc!With(v, q, size) = [r \in DOMAIN v \union {q} |-> IF r = q THEN size ELSE v[r]]
  BY HeapConstants, Zenon DEF Alloc!With
<1>7. Less(w, p) = [r \in DOMAIN w \ {p} |-> w[r]]
  BY DEF Less
<1>8. DOMAIN v \union {q} = DOMAIN w \ {p}
  BY <1>3, <1>5
<1>9. \A r \in DOMAIN w \ {p} : (IF r = q THEN size ELSE v[r]) = w[r]
  BY <1>3, <1>5
<1>10. Alloc!With(v, q, size) = Less(w, p)
  BY <1>6, <1>7, <1>8, <1>9
<1> QED
  BY <1>2, <1>3, <1>4, <1>10

LEMMA WholeNext == ASSUME WholeHeap, Alloc!Next PROVE WholeHeap'
<1>0. PICK h : h = heap
  OBVIOUS
<1>1. PICK l : l = live
  OBVIOUS
<1>2. PICK hp : hp = heap'
  OBVIOUS
<1>3. PICK lp : lp = live'
  OBVIOUS
<1>4. Whole(h, l)
  BY <1>0, <1>1 DEF WholeHeap
<1> SUFFICES Whole(hp, lp)
  BY <1>2, <1>3 DEF WholeHeap
<1>5. \A p : Alloc!Without(p) = Less(l, p)
  BY <1>1 DEF Alloc!Without, Less
<1>6. ASSUME NEW size \in 1 .. MaxRequest, Alloc!Malloc(size) PROVE Whole(hp, lp)
  <2>1. PICK r : r = Alloc!malloc(h, size)
    OBVIOUS
  <2>2. hp = r.h /\ lp = Alloc!With(l, r.ptr, size)
    BY <2>1, <1>0, <1>1, <1>2, <1>3, <1>6 DEF Alloc!Malloc
  <2>3. size \in Nat
    OBVIOUS
  <2>4. CASE r.ptr = NoAddr /\ r.h = h
    <3>1. Alloc!With(l, r.ptr, size) = l
      BY <2>4, HeapConstants DEF Alloc!With
    <3> QED
      BY <2>2, <2>4, <3>1, <1>4
  <2>5. CASE Whole(r.h, Alloc!With(l, r.ptr, size))
    BY <2>2, <2>5
  <2> QED
    BY <2>1, <2>3, <2>4, <2>5, <1>4, MallocKeeps
<1>7. ASSUME NEW p \in DOMAIN live, Alloc!Free(p) PROVE Whole(hp, lp)
  <2>1. hp = Alloc!free(h, p) /\ lp = Less(l, p) /\ p \in DOMAIN l
    BY <1>0, <1>1, <1>2, <1>3, <1>5, <1>7 DEF Alloc!Free
  <2> QED
    BY <2>1, <1>4, FreeKeeps
<1>8. ASSUME NEW p \in DOMAIN live, NEW size \in 0 .. MaxRequest, Alloc!Realloc(p, size)
      PROVE  Whole(hp, lp)
  <2>0. p \in DOMAIN l /\ size \in Nat /\ size \in Int
    BY <1>1
  <2>1. CASE size = 0
    <3>1. Alloc!Free(p)
      BY <1>8, <2>1 DEF Alloc!Realloc
    <3> QED
      BY <3>1, <1>7
  <2>2. CASE size # 0 /\ size <= h.node[p - 1].size
    <3>1. hp = h /\ lp = [l EXCEPT ![p] = size]
      BY <2>2, <1>0, <1>1, <1>2, <1>3, <1>8 DEF Alloc!Realloc
    <3> QED
      BY <2>0, <2>2, <3>1, <1>4, InPlaceKeeps
  <2>3. CASE size # 0 /\ ~(size <= h.node[p - 1].size)
    <3>1. PICK r : r = Alloc!malloc(h, size)
      OBVIOUS
    <3>2. IF r.ptr = NoAddr THEN hp = h /\ lp = l
          ELSE hp = Alloc!free(r.h, p) /\ lp = Alloc!With(Less(l, p), r.ptr, size)
      BY <2>3, <3>1, <1>0, <1>1, <1>2, <1>3, <1>5, <1>8, HeapConstants, Zenon
         DEF Alloc!Realloc, Alloc!vars
    <3>3. CASE r.ptr = NoAddr
      BY <3>2, <3>3, <1>4
    <3>4. CASE r.ptr # NoAddr
      <4>1. r.ptr \notin DOMAIN l /\ Whole(r.h, Alloc!With(l, r.ptr, size))
        BY <2>0, <3>1, <3>4, <1>4, MallocKeeps
      <4>2. PICK w : w = Alloc!With(l, r.ptr, size)
        OBVIOUS
      <4>3. Alloc!With(Less(l, p), r.ptr, size) = Less(w, p) /\ p \in DOMAIN w
        BY <2>0, <3>4, <4>1, <4>2, MovedLive
      <4>4. Whole(Alloc!free(r.h, p), Less(w, p))
        BY <4>1, <4>2, <4>3, FreeKeeps
      <4> QED
        BY <3>2, <3>4, <4>3, <4>4
    <3> QED
      BY <3>3, <3>4
  <2> QED
    BY <2>1, <2>2, <2>3
<1> QED
  BY <1>6, <1>7, <1>8 DEF Alloc!Next

LEMMA WholeIsSound == ASSUME WholeHeap PROVE HeapSound
<1>0. PICK h : h = heap
  OBVIOUS
<1>1. PICK l : l = live
  OBVIOUS
<1>2. HeapType(h) /\ Whole(h, l)
  BY <1>0, <1>1 DEF WholeHeap, Whole
<1>3. PICK B, k, L : Tiled(h, B) /\ Listed(h, FreeOf(h, B), k, L) /\ Held(h, B, l)
  BY <1>2 DEF Whole
<1>4. Alloc!Blocks = B
  <2>1. Alloc!Blocks = BlocksOf(heap)
    BY Zenon DEF Alloc!Blocks, BlocksOf, WalkOf, WalkEquation, Following, BlockAt,
       Alloc!meta_btag_size
  <2> QED
    BY <2>1, <1>0, <1>3, BlocksAre
<1>5. \A n \in B : Alloc!Ends(n) = EndOf(h, n)
  BY <1>0, HeapConstants DEF Alloc!Ends, EndOf
<1>6. Alloc!BlocksTile
  <2>1. \A n \in B : /\ EndOf(h, n) \in B \union {h.brk}
                     /\ h.btag[EndOf(h, n) - 1] = h.node[n].size
    BY <1>3 DEF Tiled
  <2>2. h.brk > 0 => 0 \in B /\ h.tail \in B
    BY <1>3 DEF Tiled
  <2> QED
    BY <2>1, <2>2, <1>0, <1>4, <1>5 DEF Alloc!BlocksTile
<1>7. Alloc!FreeListExact
  <2>0. B \subseteq Cells /\ FreeOf(h, B) \subseteq Cells
    BY <1>3, BlockBounds DEF FreeOf
  <2>1. Alloc!FreeList(heap) = L
    BY <2>0, <1>0, <1>3, FreeListIs
  <2>2. k \in Nat /\ L \in [1 .. k -> FreeOf(h, B)] /\ DOMAIN L = 1 .. k
    BY <1>3 DEF Listed
  <2>3. L \in Seq(FreeOf(h, B)) /\ Len(L) = k
    BY <2>2
  <2>4. {L[i] : i \in DOMAIN L} = {n \in B : h.node[n].is_free}
    <3>1. \A n \in FreeOf(h, B) : \E i \in 1 .. k : L[i] = n
      BY <1>3 DEF Listed
    <3>2. \A i \in 1 .. k : L[i] \in FreeOf(h, B)
      BY <2>2
    <3>3. FreeOf(h, B) = {n \in B : h.node[n].is_free}
      BY DEF FreeOf
    <3> QED
      BY <2>2, <3>1, <3>2, <3>3
  <2>5. L # <<>> => h.node[L[Len(L)]].next = NoAddr
    <3>1. L # <<>> => k \in 1 .. k
      BY <2>2, <2>3
    <3>2. k \in 1 .. k => h.node[L[k]].next = NoAddr
      BY <1>3 DEF Listed
    <3> QED
      BY <2>3, <3>1, <3>2
  <2>6. \A i \in 2 .. Len(L) : h.node[L[i]].prev = L[i - 1]
    BY <2>3, <1>3 DEF Listed
  <2> QED
    BY <2>1, <2>4, <2>5, <2>6, <1>0, <1>4, HeapConstants, ZenonT(40) DEF Alloc!FreeListExact
<1>8. Alloc!ClientHasBlocks
  <2>1. B \subseteq Int
    BY <1>3, BlockBounds
  <2>2. {p - 1 : p \in DOMAIN l} = {n \in B : ~h.node[n].is_free}
    <3>1. ASSUME NEW p \in DOMAIN l PROVE p - 1 \in B /\ ~h.node[p - 1].is_free
      BY <1>3 DEF Held
    <3>2. ASSUME NEW n \in B, ~h.node[n].is_free PROVE \E p \in DOMAIN l : n = p - 1
      <4>1. n + 1 \in DOMAIN l
        BY <3>2, <1>3 DEF Held
      <4>2. n = (n + 1) - 1
        BY <2>1
      <4> QED
        BY <4>1, <4>2
    <3> QED
      BY <3>1, <3>2
  <2>3. \A p \in DOMAIN l : h.node[p - 1].size >= l[p]
    BY <1>3 DEF Held
  <2> QED
    BY <2>2, <2>3, <1>0, <1>1, <1>4 DEF Alloc!ClientHasBlocks
<1> QED
  BY <1>6, <1>7, <1>8 DEF HeapSound

-----------------------------------------------------------------------------
\* Whatever malloc, free and realloc are called with and however large the heap is: the
\* blocks of alloc.c fill it without a gap, each with a tag of its size, the free list
\* holds exactly the free ones, linked both ways, and the others are the client's, each
\* as large as it asked for.
THEOREM HeapStaysSound == ASpec => []HeapSound
<1>1. AInit => WholeHeap
  BY WholeStarts DEF AInit
<1>2. WholeHeap /\ [ANext]_allvars => WholeHeap'
  <2> SUFFICES ASSUME WholeHeap, [ANext]_allvars PROVE WholeHeap'
    OBVIOUS
  <2>1. CASE Alloc!Next
    BY <2>1, WholeNext
  <2>2. CASE UNCHANGED heapvars
    BY <2>2 DEF heapvars, WholeHeap
  <2> QED
    BY <2>1, <2>2 DEF ANext, allvars
<1> QED
  BY <1>1, <1>2, WholeIsSound, PTL DEF ASpec

-----------------------------------------------------------------------------
(* The leak checker.  Its books: the list h has every block of the program o *)
(* once, but for those that the report r has listed already, and the sizes   *)
(* in it add up to d.                                                        *)

Nodes == [ptr : Ptrs, request_size : Nat]
Lines == Ptrs \X Nat \X {"??", "known"}

Adds(h, n, f) ==
    /\ f \in [0 .. n -> Int] /\ f[0] = 0
    /\ \A i \in 1 .. n : f[i] = f[i - 1] + h[i].request_size

Owed(h, n, o) ==
    /\ \A i \in 1 .. n : h[i].ptr \in DOMAIN o /\ o[h[i].ptr] = h[i].request_size
    /\ \A i, j \in 1 .. n : h[i].ptr = h[j].ptr => i = j
Listing(r, m, o) ==
    /\ \A i \in 1 .. m : r[i][1] \in DOMAIN o /\ o[r[i][1]] = r[i][2]
    /\ \A i, j \in 1 .. m : r[i][1] = r[j][1] => i = j
Shared(h, n, r, m, o) ==
    /\ \A i \in 1 .. n, j \in 1 .. m : h[i].ptr # r[j][1]
    /\ \A p \in DOMAIN o : (\E i \in 1 .. n : h[i].ptr = p) \/ (\E j \in 1 .. m : r[j][1] = p)
Sums(h, n, d) == \E f : Adds(h, n, f) /\ f[n] = d

Books(h, r, o, d) ==
    /\ h \in Seq(Nodes) /\ r \in Seq(Lines) /\ d \in Int
    /\ Owed(h, Len(h), o) /\ Listing(r, Len(r), o) /\ Shared(h, Len(h), r, Len(r), o)
    /\ Sums(h, Len(h), d)

\* A node more in front.
LEMMA SumMore ==
  ASSUME NEW h, NEW n \in Nat, NEW d \in Int, Sums(h, n, d), NEW g, NEW s \in Nat,
         \A j \in 1 .. n : h[j].request_size \in Nat,
         g[1].request_size = s, \A i \in 1 .. n : g[i + 1] = h[i]
  PROVE  Sums(g, n + 1, d + s)
<1>1. PICK f : Adds(h, n, f) /\ f[n] = d
  BY DEF Sums
<1>2. f \in [0 .. n -> Int] /\ f[0] = 0 /\ \A i \in 1 .. n : f[i] = f[i - 1] + h[i].request_size
  BY <1>1 DEF Adds
<1> DEFINE e == [k \in 0 .. n + 1 |-> IF k = 0 THEN 0 ELSE f[k - 1] + s]
<1>3. e \in [0 .. n + 1 -> Int]
  <2>1. \A k \in 0 .. n + 1 : k = 0 \/ k - 1 \in 0 .. n
    OBVIOUS
  <2> QED
    BY <1>2, <2>1
<1>4. e[0] = 0 /\ e[1] = s /\ \A k \in 1 .. n + 1 : e[k] = f[k - 1] + s
  BY <1>2
<1>5. ASSUME NEW k \in 1 .. n + 1 PROVE e[k] = e[k - 1] + g[k].request_size
  <2>1. CASE k = 1
    BY <2>1, <1>4
  <2>2. CASE k # 1
    <3>1. k - 1 \in 1 .. n /\ (k - 1) + 1 = k
      BY <2>2, <1>5
    <3>2. g[k] = h[k - 1]
      BY <3>1
    <3>3. f[k - 1] = f[(k - 1) - 1] + h[k - 1].request_size
      BY <3>1, <1>2
    <3>4. e[k - 1] = f[(k - 1) - 1] + s /\ e[k] = f[k - 1] + s
      BY <3>1, <1>4
    <3>5. f[(k - 1) - 1] \in Int /\ f[k - 1] \in Int
      BY <3>1, <1>2
    <3>6. PICK x : x = h[k - 1].request_size
      OBVIOUS
    <3>7. x \in Int
      BY <3>1, <3>6
    <3> HIDE DEF e
    <3> QED
      BY <3>2, <3>3, <3>4, <3>5, <3>6, <3>7
  <2> QED
    BY <2>1, <2>2
<1>6. e[n + 1] = d + s
  BY <1>1, <1>4
<1> HIDE DEF e
<1>7. Adds(g, n + 1, e)
  BY <1>3, <1>4, <1>5 DEF Adds
<1> QED
  BY <1>6, <1>7 DEF Sums

\* The i-th node less.
LEMMA SumLess ==
  ASSUME NEW h, NEW n \in Nat \ {0}, NEW d \in Int, Sums(h, n, d), NEW i \in 1 .. n, NEW g,
         \A j \in 1 .. n : h[j].request_size \in Nat,
         \A j \in 1 .. n - 1 : g[j] = IF j < i THEN h[j] ELSE h[j + 1]
  PROVE  Sums(g, n - 1, d - h[i].request_size)
<1>1. PICK f : Adds(h, n, f) /\ f[n] = d
  BY DEF Sums
<1>2. f \in [0 .. n -> Int] /\ f[0] = 0 /\ \A j \in 1 .. n : f[j] = f[j - 1] + h[j].request_size
  BY <1>1 DEF Adds
<1>3. PICK s \in Nat : s = h[i].request_size
  OBVIOUS
<1> DEFINE e == [k \in 0 .. n - 1 |-> IF k < i THEN f[k] ELSE f[k + 1] - s]
<1>4. e \in [0 .. n - 1 -> Int]
  <2>1. \A k \in 0 .. n - 1 : k \in 0 .. n /\ k + 1 \in 0 .. n
    OBVIOUS
  <2> QED
    BY <1>2, <2>1
<1>5. /\ \A k \in 0 .. n - 1 : k < i => e[k] = f[k]
      /\ \A k \in 0 .. n - 1 : ~(k < i) => e[k] = f[k + 1] - s
  OBVIOUS
<1>6. f[i] = f[i - 1] + s
  BY <1>2, <1>3
<1> HIDE DEF e
<1>7. ASSUME NEW k \in 1 .. n - 1 PROVE e[k] = e[k - 1] + g[k].request_size
  <2>0. /\ k \in 0 .. n - 1 /\ k - 1 \in 0 .. n - 1 /\ k \in 1 .. n /\ k + 1 \in 1 .. n
        /\ (k + 1) - 1 = k /\ (k - 1) + 1 = k
        /\ k \in 0 .. n /\ k - 1 \in 0 .. n /\ k + 1 \in 0 .. n
    BY <1>7
  <2>1. f[k] \in Int /\ f[k - 1] \in Int /\ f[k + 1] \in Int
    BY <2>0, <1>2
  <2>2. CASE k < i
    <3>1. k - 1 < i /\ g[k] = h[k] /\ e[k] = f[k] /\ e[k - 1] = f[k - 1]
      BY <2>0, <2>2, <1>5
    <3>2. f[k] = f[k - 1] + h[k].request_size
      BY <2>0, <1>2
    <3> QED
      BY <3>1, <3>2
  <2>3. CASE ~(k < i)
    <3>1. g[k] = h[k + 1] /\ e[k] = f[k + 1] - s
      BY <2>0, <2>3, <1>5
    <3>2. f[k + 1] = f[k] + h[k + 1].request_size
      BY <2>0, <1>2
    <3>3. e[k - 1] = f[k] - s
      <4>1. CASE k = i
        BY <4>1, <2>0, <2>1, <1>5, <1>6
      <4>2. CASE k # i
        <5>1. ~(k - 1 < i)
          BY <4>2, <2>3, <2>0
        <5> QED
          BY <5>1, <2>0, <1>5
      <4> QED
        BY <4>1, <4>2
    <3>4. PICK x \in Nat : x = h[k + 1].request_size
      BY <2>0
    <3> QED
      BY <3>1, <3>2, <3>3, <3>4, <2>1
  <2> QED
    BY <2>2, <2>3
<1>8. e[0] = 0
  BY <1>2, <1>5
<1>9. e[n - 1] = d - s
  <2>1. n - 1 \in 0 .. n - 1 /\ (n - 1) + 1 = n /\ n - 1 \in 0 .. n
    OBVIOUS
  <2>2. CASE n - 1 < i
    <3>1. n = i
      BY <2>2
    <3> QED
      BY <2>1, <2>2, <3>1, <1>1, <1>2, <1>5, <1>6
  <2>3. CASE ~(n - 1 < i)
    BY <2>1, <2>3, <1>1, <1>5
  <2> QED
    BY <2>2, <2>3
<1>10. Adds(g, n - 1, e)
  BY <1>4, <1>7, <1>8 DEF Adds
<1> QED
  BY <1>3, <1>9, <1>10 DEF Sums

\* The i-th node has another size.
LEMMA SumOther ==
  ASSUME NEW h, NEW n \in Nat, NEW d \in Int, Sums(h, n, d), NEW i \in 1 .. n, NEW g,
         \A j \in 1 .. n : h[j].request_size \in Nat,
         NEW s \in Nat, g[i].request_size = s, \A j \in 1 .. n : j # i => g[j] = h[j]
  PROVE  Sums(g, n, d + (s - h[i].request_size))
<1>1. PICK f : Adds(h, n, f) /\ f[n] = d
  BY DEF Sums
<1>2. f \in [0 .. n -> Int] /\ f[0] = 0 /\ \A j \in 1 .. n : f[j] = f[j - 1] + h[j].request_size
  BY <1>1 DEF Adds
<1>3. PICK t \in Nat : t = h[i].request_size
  OBVIOUS
<1> DEFINE e == [k \in 0 .. n |-> IF k < i THEN f[k] ELSE f[k] + (s - t)]
<1>4. e \in [0 .. n -> Int]
  BY <1>2
<1>5. /\ \A k \in 0 .. n : k < i => e[k] = f[k]
      /\ \A k \in 0 .. n : ~(k < i) => e[k] = f[k] + (s - t)
  OBVIOUS
<1> HIDE DEF e
<1>7. ASSUME NEW k \in 1 .. n PROVE e[k] = e[k - 1] + g[k].request_size
  <2>0. k \in 0 .. n /\ k - 1 \in 0 .. n
    BY <1>7
  <2>1. f[k] \in Int /\ f[k - 1] \in Int
    BY <2>0, <1>2
  <2>2. f[k] = f[k - 1] + h[k].request_size
    BY <1>2
  <2>3. PICK x \in Nat : x = h[k].request_size
    OBVIOUS
  <2>4. CASE k = i
    BY <2>0, <2>1, <2>2, <2>4, <1>3, <1>5
  <2>5. CASE k # i
    <3>1. g[k].request_size = x
      BY <2>3, <2>5
    <3>2. CASE k < i
      BY <2>0, <2>1, <2>2, <2>3, <3>1, <3>2, <1>5
    <3>3. CASE ~(k < i)
      <4>1. ~(k - 1 < i)
        BY <2>5, <3>3
      <4> QED
        BY <2>0, <2>1, <2>2, <2>3, <3>1, <3>3, <4>1, <1>5
    <3> QED
      BY <3>2, <3>3
  <2> QED
    BY <2>4, <2>5
<1>8. e[0] = 0
  BY <1>2, <1>5
<1>9. e[n] = d + (s - t)
  BY <1>1, <1>5
<1>10. Adds(g, n, e)
  BY <1>4, <1>7, <1>8 DEF Adds
<1> QED
  BY <1>3, <1>9, <1>10 DEF Sums

LEMMA BooksTypes ==
  ASSUME NEW h, NEW r, NEW o, NEW d, Books(h, r, o, d)
  PROVE  /\ h \in Seq(Nodes) /\ r \in Seq(Lines) /\ d \in Int
         /\ Len(h) \in Nat /\ Len(r) \in Nat /\ DOMAIN h = 1 .. Len(h) /\ DOMAIN r = 1 .. Len(r)
         /\ \A i \in 1 .. Len(h) : /\ h[i] \in Nodes /\ h[i].ptr \in Ptrs
                                   /\ h[i].request_size \in Nat
         /\ Owed(h, Len(h), o) /\ Listing(r, Len(r), o) /\ Shared(h, Len(h), r, Len(r), o)
         /\ Sums(h, Len(h), d)
<1>1. h \in Seq(Nodes) /\ r \in Seq(Lines) /\ d \in Int
  BY DEF Books
<1>2. Len(h) \in Nat /\ Len(r) \in Nat /\ DOMAIN h = 1 .. Len(h) /\ DOMAIN r = 1 .. Len(r)
  BY <1>1
<1>3. \A i \in 1 .. Len(h) : h[i] \in Nodes
  BY <1>1
<1>4. \A i \in 1 .. Len(h) : h[i].ptr \in Ptrs /\ h[i].request_size \in Nat
  BY <1>3 DEF Nodes
<1> QED
  BY <1>1, <1>2, <1>3, <1>4, Zenon DEF Books

\* The program u has the block p more than o, and the list g the node for it in front of h.
GivenTo(u, o, p, s) == u = [q \in DOMAIN o \union {p} |-> IF q = p THEN s ELSE o[q]]
InFront(g, p, s, h) == g = <<[ptr |-> p, request_size |-> s]>> \o h

\* mini_malloc: a block more, which the program does not have.
LEMMA BooksTake ==
  ASSUME NEW h, NEW r, NEW o, NEW d, Books(h, r, o, d), NEW p \in Ptrs, p \notin DOMAIN o,
         NEW s \in Nat, NEW g, InFront(g, p, s, h), NEW u, GivenTo(u, o, p, s)
  PROVE  Books(g, r, u, d + s)
<1>1. PICK n : n = Len(h)
  OBVIOUS
<1>2. PICK m : m = Len(r)
  OBVIOUS
<1>3. /\ h \in Seq(Nodes) /\ r \in Seq(Lines) /\ d \in Int /\ n \in Nat /\ m \in Nat
      /\ \A i \in 1 .. n : h[i].ptr \in Ptrs /\ h[i].request_size \in Nat
      /\ Owed(h, n, o) /\ Listing(r, m, o) /\ Shared(h, n, r, m, o) /\ Sums(h, n, d)
  BY <1>1, <1>2, BooksTypes
<1>4. PICK x : x = [ptr |-> p, request_size |-> s]
  OBVIOUS
<1>5. x \in Nodes /\ x.ptr = p /\ x.request_size = s
  BY <1>4 DEF Nodes
<1>6. <<x>> \in Seq(Nodes) /\ Len(<<x>>) = 1 /\ <<x>>[1] = x
  BY <1>5
<1>7. /\ g \in Seq(Nodes) /\ Len(g) = 1 + n
      /\ \A i \in 1 .. 1 + n : g[i] = IF i <= 1 THEN <<x>>[i] ELSE h[i - 1]
  <2>1. g = <<x>> \o h
    BY <1>4 DEF InFront
  <2> QED
    BY <2>1, <1>1, <1>3, <1>6, ConcatProperties
<1>8. Len(g) = n + 1 /\ n + 1 \in Nat /\ g[1] = x
  BY <1>3, <1>6, <1>7
<1>9. \A i \in 1 .. n : g[i + 1] = h[i]
  BY <1>3, <1>7
<1>10. \A i \in 1 .. n + 1 : i = 1 \/ (i - 1 \in 1 .. n /\ g[i] = h[i - 1])
  BY <1>3, <1>7
<1>11. /\ DOMAIN u = DOMAIN o \union {p} /\ u[p] = s
       /\ \A q \in DOMAIN o : u[q] = o[q]
  BY Zenon DEF GivenTo
<1>12. Owed(g, n + 1, u)
  <2>1. \A i \in 1 .. n : h[i].ptr \in DOMAIN o /\ o[h[i].ptr] = h[i].request_size
    BY <1>3 DEF Owed
  <2>2. \A i, j \in 1 .. n : h[i].ptr = h[j].ptr => i = j
    BY <1>3 DEF Owed
  <2>3. ASSUME NEW i \in 1 .. n + 1
        PROVE  g[i].ptr \in DOMAIN u /\ u[g[i].ptr] = g[i].request_size
    BY <2>1, <1>5, <1>8, <1>10, <1>11
  <2>4. ASSUME NEW i \in 1 .. n + 1, NEW j \in 1 .. n + 1, g[i].ptr = g[j].ptr PROVE i = j
    <3>1. CASE i = 1 /\ j = 1
      BY <3>1
    <3>2. CASE i = 1 /\ j # 1
      BY <3>2, <2>1, <2>4, <1>5, <1>8, <1>10
    <3>3. CASE i # 1 /\ j = 1
      BY <3>3, <2>1, <2>4, <1>5, <1>8, <1>10
    <3>4. CASE i # 1 /\ j # 1
      <4>1. i - 1 = j - 1
        BY <3>4, <2>2, <2>4, <1>10
      <4> QED
        BY <4>1, <1>3
    <3> QED
      BY <3>1, <3>2, <3>3, <3>4
  <2> QED
    BY <2>3, <2>4 DEF Owed
<1>13. Listing(r, m, u)
  BY <1>3, <1>11, Zenon DEF Listing
<1>14. Shared(g, n + 1, r, m, u)
  <2>1. \A i \in 1 .. m : r[i][1] \in DOMAIN o
    BY <1>3 DEF Listing
  <2>2. /\ \A i \in 1 .. n, j \in 1 .. m : h[i].ptr # r[j][1]
        /\ \A q \in DOMAIN o : (\E i \in 1 .. n : h[i].ptr = q) \/ (\E j \in 1 .. m : r[j][1] = q)
    BY <1>3 DEF Shared
  <2>3. ASSUME NEW i \in 1 .. n + 1, NEW j \in 1 .. m PROVE g[i].ptr # r[j][1]
    BY <2>1, <2>2, <1>5, <1>8, <1>10
  <2>4. ASSUME NEW q \in DOMAIN u
        PROVE  (\E i \in 1 .. n + 1 : g[i].ptr = q) \/ (\E j \in 1 .. m : r[j][1] = q)
    <3>1. CASE q = p
      <4>1. 1 \in 1 .. n + 1 /\ g[1].ptr = p
        BY <1>3, <1>5, <1>8
      <4> QED
        BY <3>1, <4>1
    <3>2. CASE q \in DOMAIN o
      <4>1. ASSUME NEW i \in 1 .. n, h[i].ptr = q PROVE \E k \in 1 .. n + 1 : g[k].ptr = q
        <5>1. i + 1 \in 1 .. n + 1
          BY <1>3
        <5>2. g[i + 1].ptr = q
          BY <4>1, <1>9
        <5> QED
          BY <5>1, <5>2
      <4> QED
        BY <3>2, <4>1, <2>2
    <3> QED
      BY <3>1, <3>2, <1>11
  <2> QED
    BY <2>3, <2>4 DEF Shared
<1>15. Sums(g, n + 1, d + s)
  BY <1>3, <1>5, <1>8, <1>9, SumMore
<1>16. d + s \in Int
  BY <1>3
<1> QED
  BY <1>2, <1>3, <1>7, <1>8, <1>12, <1>13, <1>14, <1>15, <1>16 DEF Books

\* The list g is h, of n nodes, without its i-th one.
Shorter(g, h, n, i) ==
    /\ n \in Nat \ {0} /\ i \in 1 .. n /\ g \in Seq(Nodes) /\ Len(g) = n - 1
    /\ \A j \in 1 .. n - 1 : g[j] = IF j < i THEN h[j] ELSE h[j + 1]

LEMMA ShorterIs ==
  ASSUME NEW h \in Seq(Nodes), NEW i \in 1 .. Len(h),
         NEW g, g = [j \in 1 .. Len(h) - 1 |-> IF j < i THEN h[j] ELSE h[j + 1]]
  PROVE  Shorter(g, h, Len(h), i)
<1>1. PICK n : n = Len(h)
  OBVIOUS
<1>2. n \in Nat /\ i \in 1 .. n /\ n \in Nat \ {0} /\ n - 1 \in Nat
  BY <1>1
<1>3. \A j \in 1 .. n : h[j] \in Nodes
  BY <1>1
<1>4. /\ DOMAIN g = 1 .. n - 1
      /\ \A j \in 1 .. n - 1 : g[j] = IF j < i THEN h[j] ELSE h[j + 1]
  BY <1>1
<1>5. \A j \in 1 .. n - 1 : j \in 1 .. n /\ j + 1 \in 1 .. n
  BY <1>2
<1>6. g \in [1 .. n - 1 -> Nodes]
  BY <1>1, <1>3, <1>5
<1>7. g \in Seq(Nodes) /\ Len(g) = n - 1
  BY <1>2, <1>6
<1> QED
  BY <1>1, <1>2, <1>4, <1>7 DEF Shorter

LEMMA ShorterNodes ==
  ASSUME NEW g, NEW h, NEW n, NEW i, Shorter(g, h, n, i)
  PROVE  /\ \A j \in 1 .. n - 1 : \E k \in 1 .. n : k # i /\ g[j] = h[k]
                                          /\ k = IF j < i THEN j ELSE j + 1
         /\ \A k \in 1 .. n : k # i => \E j \in 1 .. n - 1 : g[j] = h[k]
<1>2. n \in Nat \ {0} /\ i \in 1 .. n
  BY DEF Shorter
<1>4. \A j \in 1 .. n - 1 : g[j] = IF j < i THEN h[j] ELSE h[j + 1]
  BY DEF Shorter
<1>5. \A j \in 1 .. n - 1 : j \in 1 .. n /\ j + 1 \in 1 .. n
  BY <1>2
<1>8. ASSUME NEW j \in 1 .. n - 1
      PROVE  \E k \in 1 .. n : k # i /\ g[j] = h[k] /\ k = IF j < i THEN j ELSE j + 1
  <2>1. CASE j < i
    BY <2>1, <1>2, <1>4, <1>5
  <2>2. CASE ~(j < i)
    <3>1. j + 1 # i /\ g[j] = h[j + 1] /\ j + 1 \in 1 .. n
      BY <2>2, <1>2, <1>4, <1>5
    <3> QED
      BY <2>2, <3>1
  <2> QED
    BY <2>1, <2>2
<1>9. ASSUME NEW k \in 1 .. n, k # i PROVE \E j \in 1 .. n - 1 : g[j] = h[k]
  <2>1. CASE k < i
    <3>1. k \in 1 .. n - 1
      BY <2>1, <1>2
    <3> QED
      BY <2>1, <3>1, <1>4
  <2>2. CASE ~(k < i)
    <3>1. k - 1 \in 1 .. n - 1 /\ ~(k - 1 < i) /\ (k - 1) + 1 = k
      BY <2>2, <1>2, <1>9
    <3> QED
      BY <3>1, <1>4
  <2> QED
    BY <2>1, <2>2
<1> QED
  BY <1>8, <1>9

\* What is so of the nodes of h is so of those of g.
LEMMA OwedLess ==
  ASSUME NEW g, NEW h, NEW n, NEW i, Shorter(g, h, n, i), NEW o, Owed(h, n, o)
  PROVE  Owed(g, n - 1, o) /\ \A j \in 1 .. n - 1 : g[j].ptr # h[i].ptr
<1>2. n \in Nat /\ i \in 1 .. n
  BY DEF Shorter
<1>3. \A j \in 1 .. n - 1 : \E k \in 1 .. n : k # i /\ g[j] = h[k]
                                          /\ k = IF j < i THEN j ELSE j + 1
  BY ShorterNodes
<1>4. \A k \in 1 .. n : h[k].ptr \in DOMAIN o /\ o[h[k].ptr] = h[k].request_size
  BY DEF Owed
<1>5. \A k, l \in 1 .. n : h[k].ptr = h[l].ptr => k = l
  BY DEF Owed
<1>6. \A j \in 1 .. n - 1 : g[j].ptr \in DOMAIN o /\ o[g[j].ptr] = g[j].request_size
  BY <1>3, <1>4
<1>7. \A j \in 1 .. n - 1 : g[j].ptr # h[i].ptr
  BY <1>2, <1>3, <1>5
<1>8. ASSUME NEW j \in 1 .. n - 1, NEW l \in 1 .. n - 1, g[j].ptr = g[l].ptr PROVE j = l
  <2>1. PICK k \in 1 .. n : g[j] = h[k] /\ k = IF j < i THEN j ELSE j + 1
    BY <1>3
  <2>2. PICK q \in 1 .. n : g[l] = h[q] /\ q = IF l < i THEN l ELSE l + 1
    BY <1>3
  <2>3. k = q
    BY <1>5, <1>8, <2>1, <2>2
  <2> QED
    BY <1>2, <2>1, <2>2, <2>3
<1>9. Owed(g, n - 1, o)
  BY <1>6, <1>8 DEF Owed
<1> QED
  BY <1>7, <1>9

\* mini_free and the C library's own: the i-th node is unlinked.
LEMMA BooksDrop ==
  ASSUME NEW h, NEW r, NEW o, NEW d, Books(h, r, o, d), NEW i \in 1 .. Len(h),
         NEW g, Shorter(g, h, Len(h), i),
         NEW u, u = [q \in DOMAIN o \ {h[i].ptr} |-> o[q]]
  PROVE  Books(g, r, u, d - h[i].request_size)
<1>1. PICK n : n = Len(h)
  OBVIOUS
<1>2. PICK m : m = Len(r)
  OBVIOUS
<1>3. /\ h \in Seq(Nodes) /\ r \in Seq(Lines) /\ d \in Int /\ n \in Nat /\ m \in Nat
      /\ \A j \in 1 .. n : h[j].ptr \in Ptrs /\ h[j].request_size \in Nat
      /\ Owed(h, n, o) /\ Listing(r, m, o) /\ Shared(h, n, r, m, o) /\ Sums(h, n, d)
  BY <1>1, <1>2, BooksTypes
<1>4. Shorter(g, h, n, i)
  BY <1>1
<1>5. Owed(g, n - 1, o) /\ \A j \in 1 .. n - 1 : g[j].ptr # h[i].ptr
  BY <1>3, <1>4, OwedLess
<1>6. /\ DOMAIN u = DOMAIN o \ {h[i].ptr}
      /\ \A q \in DOMAIN o : q # h[i].ptr => q \in DOMAIN u /\ u[q] = o[q]
  BY Zenon
<1>7. /\ \A k \in 1 .. n, j \in 1 .. m : h[k].ptr # r[j][1]
      /\ \A q \in DOMAIN o : (\E k \in 1 .. n : h[k].ptr = q) \/ (\E j \in 1 .. m : r[j][1] = q)
  BY <1>3 DEF Shared
<1>8. Owed(g, n - 1, u)
  <2>1. \A j \in 1 .. n - 1 : g[j].ptr \in DOMAIN o /\ o[g[j].ptr] = g[j].request_size
    BY <1>5 DEF Owed
  <2>2. \A j \in 1 .. n - 1 : g[j].ptr \in DOMAIN u /\ u[g[j].ptr] = g[j].request_size
    BY <2>1, <1>5, <1>6
  <2> QED
    BY <2>2, <1>5 DEF Owed
<1>9. Listing(r, m, u)
  <2>1. \A j \in 1 .. m : r[j][1] \in DOMAIN o /\ o[r[j][1]] = r[j][2]
    BY <1>3 DEF Listing
  <2>2. \A j \in 1 .. m : r[j][1] # h[i].ptr
    BY <1>1, <1>7
  <2>3. \A j \in 1 .. m : r[j][1] \in DOMAIN u /\ u[r[j][1]] = r[j][2]
    BY <2>1, <2>2, <1>6
  <2> QED
    BY <2>3, <1>3 DEF Listing
<1>10. Shared(g, n - 1, r, m, u)
  <2>1. \A j \in 1 .. n - 1 : \E k \in 1 .. n : g[j] = h[k]
    BY <1>4, ShorterNodes
  <2>2. \A k \in 1 .. n - 1, j \in 1 .. m : g[k].ptr # r[j][1]
    BY <2>1, <1>7
  <2>3. ASSUME NEW q \in DOMAIN u
        PROVE  (\E k \in 1 .. n - 1 : g[k].ptr = q) \/ (\E j \in 1 .. m : r[j][1] = q)
    <3>1. q \in DOMAIN o /\ q # h[i].ptr
      BY <1>6
    <3>2. CASE \E k \in 1 .. n : h[k].ptr = q
      <4>1. PICK k \in 1 .. n : h[k].ptr = q
        BY <3>2
      <4>2. k # i
        BY <3>1, <4>1
      <4>3. PICK j \in 1 .. n - 1 : g[j] = h[k]
        BY <4>2, <1>4, ShorterNodes
      <4> QED
        BY <4>1, <4>3
    <3> QED
      BY <3>1, <3>2, <1>7
  <2> QED
    BY <2>2, <2>3 DEF Shared
<1>11. Sums(g, n - 1, d - h[i].request_size)
  BY <1>1, <1>3, <1>4, SumLess DEF Shorter
<1>12. d - h[i].request_size \in Int
  BY <1>1, <1>3
<1> QED
  BY <1>2, <1>3, <1>4, <1>8, <1>9, <1>10, <1>11, <1>12 DEF Books, Shorter

\* mini_realloc: the i-th block has another size and perhaps another address.
LEMMA BooksMove ==
  ASSUME NEW h, NEW r, NEW o, NEW d, Books(h, r, o, d), NEW i \in 1 .. Len(h),
         NEW p \in Ptrs, p = h[i].ptr \/ p \notin DOMAIN o, NEW s \in Nat,
         NEW g, g = [h EXCEPT ![i] = [ptr |-> p, request_size |-> s]],
         NEW u, u = [q \in (DOMAIN o \ {h[i].ptr}) \union {p} |-> IF q = p THEN s ELSE o[q]]
  PROVE  Books(g, r, u, d + (s - h[i].request_size))
<1>1. PICK n : n = Len(h)
  OBVIOUS
<1>2. PICK m : m = Len(r)
  OBVIOUS
<1>3. /\ h \in Seq(Nodes) /\ r \in Seq(Lines) /\ d \in Int /\ n \in Nat /\ m \in Nat
      /\ \A j \in 1 .. n : h[j].ptr \in Ptrs /\ h[j].request_size \in Nat
      /\ Owed(h, n, o) /\ Listing(r, m, o) /\ Shared(h, n, r, m, o) /\ Sums(h, n, d)
  BY <1>1, <1>2, BooksTypes
<1>4. PICK x : x = [ptr |-> p, request_size |-> s]
  OBVIOUS
<1>5. x \in Nodes /\ x.ptr = p /\ x.request_size = s
  BY <1>4 DEF Nodes
<1>6. g = [h EXCEPT ![i] = x]
  BY <1>4
<1>7. g \in Seq(Nodes) /\ Len(g) = n /\ g[i] = x /\ \A j \in 1 .. n : j # i => g[j] = h[j]
  BY <1>1, <1>3, <1>5, <1>6
<1>8. /\ DOMAIN u = (DOMAIN o \ {h[i].ptr}) \union {p} /\ u[p] = s
      /\ \A q \in DOMAIN o : q # h[i].ptr /\ q # p => q \in DOMAIN u /\ u[q] = o[q]
  BY Zenon
<1>9. /\ \A k \in 1 .. n, j \in 1 .. m : h[k].ptr # r[j][1]
      /\ \A q \in DOMAIN o : (\E k \in 1 .. n : h[k].ptr = q) \/ (\E j \in 1 .. m : r[j][1] = q)
  BY <1>3 DEF Shared
<1>10. \A j \in 1 .. n : h[j].ptr \in DOMAIN o /\ o[h[j].ptr] = h[j].request_size
  BY <1>3 DEF Owed
<1>11. \A j, k \in 1 .. n : h[j].ptr = h[k].ptr => j = k
  BY <1>3 DEF Owed
<1>12. \A j \in 1 .. m : r[j][1] \in DOMAIN o /\ o[r[j][1]] = r[j][2]
  BY <1>3 DEF Listing
<1>13. \A j \in 1 .. n : j # i => h[j].ptr # h[i].ptr /\ h[j].ptr # p
  BY <1>1, <1>10, <1>11
<1>14. \A j \in 1 .. m : r[j][1] # h[i].ptr /\ r[j][1] # p
  BY <1>1, <1>9, <1>12
<1>15. Owed(g, n, u)
  <2>1. ASSUME NEW j \in 1 .. n
        PROVE  g[j].ptr \in DOMAIN u /\ u[g[j].ptr] = g[j].request_size
    <3>1. CASE j = i
      <4>1. g[j].ptr = p /\ g[j].request_size = s
        BY <3>1, <1>5, <1>7
      <4> QED
        BY <4>1, <1>8
    <3>2. CASE j # i
      <4>1. g[j] = h[j] /\ h[j].ptr # h[i].ptr /\ h[j].ptr # p
        BY <3>2, <1>7, <1>13
      <4> QED
        BY <4>1, <1>8, <1>10
    <3> QED
      BY <3>1, <3>2
  <2>2. ASSUME NEW j \in 1 .. n, NEW k \in 1 .. n, g[j].ptr = g[k].ptr PROVE j = k
    <3>1. CASE j = i /\ k = i
      BY <3>1
    <3>2. CASE j = i /\ k # i
      BY <3>2, <2>2, <1>5, <1>7, <1>13
    <3>3. CASE j # i /\ k = i
      BY <3>3, <2>2, <1>5, <1>7, <1>13
    <3>4. CASE j # i /\ k # i
      BY <3>4, <2>2, <1>7, <1>11
    <3> QED
      BY <3>1, <3>2, <3>3, <3>4
  <2> QED
    BY <2>1, <2>2 DEF Owed
<1>16. Listing(r, m, u)
  <2>1. \A j \in 1 .. m : r[j][1] \in DOMAIN u /\ u[r[j][1]] = r[j][2]
    BY <1>8, <1>12, <1>14
  <2> QED
    BY <2>1, <1>3 DEF Listing
<1>17. Shared(g, n, r, m, u)
  <2>1. ASSUME NEW k \in 1 .. n, NEW j \in 1 .. m PROVE g[k].ptr # r[j][1]
    <3>1. CASE k = i
      BY <3>1, <1>5, <1>7, <1>14
    <3>2. CASE k # i
      BY <3>2, <1>7, <1>9
    <3> QED
      BY <3>1, <3>2
  <2>2. ASSUME NEW q \in DOMAIN u
        PROVE  (\E k \in 1 .. n : g[k].ptr = q) \/ (\E j \in 1 .. m : r[j][1] = q)
    <3>1. CASE q = p
      <4>1. i \in 1 .. n /\ g[i].ptr = p
        BY <1>1, <1>5, <1>7
      <4> QED
        BY <3>1, <4>1
    <3>2. CASE q # p
      <4>1. q \in DOMAIN o /\ q # h[i].ptr
        BY <3>2, <1>8
      <4>2. ASSUME NEW k \in 1 .. n, h[k].ptr = q PROVE g[k].ptr = q
        <5>1. k # i
          BY <4>1, <4>2
        <5> QED
          BY <5>1, <4>2, <1>7
      <4> QED
        BY <4>1, <4>2, <1>9
    <3> QED
      BY <3>1, <3>2
  <2> QED
    BY <2>1, <2>2 DEF Shared
<1>18. Sums(g, n, d + (s - h[i].request_size))
  <2>1. g[i].request_size = s
    BY <1>5, <1>7
  <2> QED
    BY <2>1, <1>1, <1>3, <1>7, SumOther
<1>19. d + (s - h[i].request_size) \in Int
  BY <1>1, <1>3
<1> QED
  BY <1>2, <1>3, <1>7, <1>15, <1>16, <1>17, <1>18, <1>19 DEF Books

\* print_leak_info: the first node goes from the list to the report.
LEMMA BooksList ==
  ASSUME NEW h, NEW r, NEW o, NEW d, Books(h, r, o, d), h # <<>>,
         NEW name \in {"??", "known"},
         NEW e, e = Append(r, <<Head(h).ptr, Head(h).request_size, name>>)
  PROVE  Books(Tail(h), e, o, d - Head(h).request_size)
<1>1. PICK n : n = Len(h)
  OBVIOUS
<1>2. PICK m : m = Len(r)
  OBVIOUS
<1>3. /\ h \in Seq(Nodes) /\ r \in Seq(Lines) /\ d \in Int /\ n \in Nat /\ m \in Nat
      /\ \A j \in 1 .. n : h[j].ptr \in Ptrs /\ h[j].request_size \in Nat
      /\ Owed(h, n, o) /\ Listing(r, m, o) /\ Shared(h, n, r, m, o) /\ Sums(h, n, d)
  BY <1>1, <1>2, BooksTypes
<1>4. PICK g : g = Tail(h)
  OBVIOUS
<1>5. /\ n \in Nat \ {0} /\ Head(h) = h[1] /\ g \in Seq(Nodes) /\ Len(g) = n - 1
      /\ \A j \in 1 .. n - 1 : g[j] = h[j + 1]
  BY <1>1, <1>3, <1>4, HeadTailProperties
<1>6. 1 \in 1 .. n /\ \A j \in 1 .. n - 1 : j + 1 \in 1 .. n /\ j + 1 # 1
  BY <1>5
<1>7. PICK x : x = <<h[1].ptr, h[1].request_size, name>>
  OBVIOUS
<1>8. x \in Lines /\ x[1] = h[1].ptr /\ x[2] = h[1].request_size
  BY <1>3, <1>6, <1>7 DEF Lines
<1>9. /\ e \in Seq(Lines) /\ Len(e) = m + 1 /\ e[m + 1] = x
      /\ \A j \in 1 .. m : e[j] = r[j]
  <2>1. e = Append(r, x)
    BY <1>5, <1>7
  <2> QED
    <3>0. r \in Seq(Lines) /\ x \in Lines
      BY <1>3, <1>8
    <3>1. Append(r, x) \in Seq(Lines) /\ Len(Append(r, x)) = Len(r) + 1
      BY <3>0, AppendProperties
    <3>2. \A j \in 1 .. Len(r) : Append(r, x)[j] = r[j]
      BY <3>0, AppendProperties
    <3>3. Append(r, x)[Len(r) + 1] = x
      BY <3>0, AppendProperties
    <3> QED
      BY <2>1, <3>1, <3>2, <3>3, <1>2, Zenon
<1>10. \A j \in 1 .. n : h[j].ptr \in DOMAIN o /\ o[h[j].ptr] = h[j].request_size
  BY <1>3 DEF Owed
<1>11. \A j, k \in 1 .. n : h[j].ptr = h[k].ptr => j = k
  BY <1>3 DEF Owed
<1>12. \A j \in 1 .. m : r[j][1] \in DOMAIN o /\ o[r[j][1]] = r[j][2]
  BY <1>3 DEF Listing
<1>13. \A j, k \in 1 .. m : r[j][1] = r[k][1] => j = k
  BY <1>3 DEF Listing
<1>14. /\ \A k \in 1 .. n, j \in 1 .. m : h[k].ptr # r[j][1]
       /\ \A q \in DOMAIN o : (\E k \in 1 .. n : h[k].ptr = q) \/ (\E j \in 1 .. m : r[j][1] = q)
  BY <1>3 DEF Shared
<1>15. \A j \in 1 .. m + 1 : j = m + 1 \/ (j \in 1 .. m /\ e[j] = r[j])
  BY <1>3, <1>9
<1>16. Owed(g, n - 1, o)
  <2>1. \A j \in 1 .. n - 1 : g[j].ptr \in DOMAIN o /\ o[g[j].ptr] = g[j].request_size
    BY <1>5, <1>6, <1>10
  <2>2. ASSUME NEW j \in 1 .. n - 1, NEW k \in 1 .. n - 1, g[j].ptr = g[k].ptr PROVE j = k
    <3>1. g[j] = h[j + 1] /\ g[k] = h[k + 1] /\ j + 1 \in 1 .. n /\ k + 1 \in 1 .. n
      BY <1>5, <1>6, Zenon
    <3>2. j + 1 = k + 1
      BY <2>2, <3>1, <1>11, Zenon
    <3> QED
      BY <3>2, <1>5
  <2> QED
    BY <2>1, <2>2 DEF Owed
<1>17. Listing(e, m + 1, o)
  <2>1. ASSUME NEW j \in 1 .. m + 1 PROVE e[j][1] \in DOMAIN o /\ o[e[j][1]] = e[j][2]
    <3>1. CASE j = m + 1
      BY <3>1, <1>6, <1>8, <1>9, <1>10
    <3>2. CASE j \in 1 .. m /\ e[j] = r[j]
      BY <3>2, <1>12
    <3> QED
      BY <3>1, <3>2, <1>15
  <2>2. ASSUME NEW j \in 1 .. m + 1, NEW k \in 1 .. m + 1, e[j][1] = e[k][1] PROVE j = k
    BY <2>2, <1>6, <1>8, <1>9, <1>13, <1>14, <1>15
  <2> QED
    BY <2>1, <2>2 DEF Listing
<1>18. Shared(g, n - 1, e, m + 1, o)
  <2>1. ASSUME NEW k \in 1 .. n - 1, NEW j \in 1 .. m + 1 PROVE g[k].ptr # e[j][1]
    <3>1. g[k] = h[k + 1] /\ k + 1 \in 1 .. n /\ h[k + 1].ptr # h[1].ptr
      BY <1>5, <1>6, <1>11
    <3>2. CASE j = m + 1
      BY <3>1, <3>2, <1>8, <1>9
    <3>3. CASE j \in 1 .. m /\ e[j] = r[j]
      BY <3>1, <3>3, <1>14
    <3> QED
      BY <3>2, <3>3, <1>15
  <2>2. ASSUME NEW q \in DOMAIN o
        PROVE  (\E k \in 1 .. n - 1 : g[k].ptr = q) \/ (\E j \in 1 .. m + 1 : e[j][1] = q)
    <3>1. ASSUME NEW k \in 1 .. n, h[k].ptr = q
          PROVE  (\E l \in 1 .. n - 1 : g[l].ptr = q) \/ (\E j \in 1 .. m + 1 : e[j][1] = q)
      <4>1. CASE k = 1
        <5>1. m + 1 \in 1 .. m + 1 /\ e[m + 1][1] = q
          BY <3>1, <4>1, <1>3, <1>8, <1>9
        <5> QED
          BY <5>1
      <4>2. CASE k # 1
        <5>1. k - 1 \in 1 .. n - 1 /\ (k - 1) + 1 = k
          BY <4>2, <1>5
        <5>2. g[k - 1].ptr = q
          BY <3>1, <5>1, <1>5
        <5> QED
          BY <5>1, <5>2
      <4> QED
        BY <4>1, <4>2
    <3>2. ASSUME NEW j \in 1 .. m, r[j][1] = q PROVE \E k \in 1 .. m + 1 : e[k][1] = q
      <4>1. j \in 1 .. m + 1 /\ e[j][1] = q
        BY <3>2, <1>3, <1>9
      <4> QED
        BY <4>1
    <3> QED
      BY <3>1, <3>2, <1>14
  <2> QED
    BY <2>1, <2>2 DEF Shared
<1>19. Sums(g, n - 1, d - h[1].request_size)
  <2>1. \A j \in 1 .. n - 1 : g[j] = IF j < 1 THEN h[j] ELSE h[j + 1]
    BY <1>5
  <2> QED
    BY <2>1, <1>3, <1>5, <1>6, SumLess
<1>20. d - h[1].request_size \in Int
  BY <1>3, <1>6
<1>21. Books(g, e, o, d - h[1].request_size)
  BY <1>5, <1>9, <1>16, <1>17, <1>18, <1>19, <1>20 DEF Books
<1> QED
  BY <1>4, <1>5, <1>21

\* At the beginning.
LEMMA BooksEmpty == ASSUME NEW o, o = [p \in {} |-> 0] PROVE Books(<<>>, <<>>, o, 0)
<1>1. <<>> \in Seq(Nodes) /\ <<>> \in Seq(Lines) /\ Len(<<>>) = 0
  OBVIOUS
<1>2. DOMAIN o = {}
  OBVIOUS
<1>3. Owed(<<>>, 0, o) /\ Listing(<<>>, 0, o) /\ Shared(<<>>, 0, <<>>, 0, o)
  BY <1>2 DEF Owed, Listing, Shared
<1>4. Sums(<<>>, 0, 0)
  <2> DEFINE f == [i \in 0 .. 0 |-> 0]
  <2>1. f \in [0 .. 0 -> Int] /\ f[0] = 0
    OBVIOUS
  <2> HIDE DEF f
  <2>2. Adds(<<>>, 0, f)
    BY <2>1 DEF Adds
  <2> QED
    BY <2>1, <2>2 DEF Sums
<1> QED
  BY <1>1, <1>3, <1>4 DEF Books

\* A sequence that lists D without repetition is as long as D is large.
LEMMA CountOnce ==
  ASSUME NEW n \in Nat, NEW D, NEW f \in [1 .. n -> D],
         \A i, j \in 1 .. n : f[i] = f[j] => i = j, \A x \in D : \E i \in 1 .. n : f[i] = x
  PROVE  n = Cardinality(D)
<1>1. f \in Bijection(1 .. n, D)
  BY DEF Bijection, Injection, Surjection, IsInjective
<1>2. ExistsBijection(1 .. n, D)
  BY <1>1 DEF ExistsBijection
<1>3. IsFiniteSet(1 .. n) /\ Cardinality(1 .. n) = n
  BY FS_Interval
<1> QED
  BY <1>2, <1>3, FS_Bijection

SamePairs(h, o) ==
    {<<h[i].ptr, h[i].request_size>> : i \in DOMAIN h} = {<<p, o[p]>> : p \in DOMAIN o}

\* While nothing is reported the list is what the program has.
LEMMA BooksComplete ==
  ASSUME NEW h, NEW o, NEW d, Books(h, <<>>, o, d)
  PROVE  /\ {h[i].ptr : i \in DOMAIN h} = DOMAIN o
         /\ SamePairs(h, o)
         /\ Len(h) = Cardinality(DOMAIN o)
<1>1. PICK n : n = Len(h)
  OBVIOUS
<1>2. n \in Nat /\ DOMAIN h = 1 .. n /\ Owed(h, n, o) /\ Shared(h, n, <<>>, 0, o)
  <2>1. Len(<<>>) = 0
    OBVIOUS
  <2> QED
    BY <2>1, <1>1, BooksTypes
<1>3. \A i \in 1 .. n : h[i].ptr \in DOMAIN o /\ o[h[i].ptr] = h[i].request_size
  BY <1>2 DEF Owed
<1>4. \A i, j \in 1 .. n : h[i].ptr = h[j].ptr => i = j
  BY <1>2 DEF Owed
<1>5. \A p \in DOMAIN o : \E i \in 1 .. n : h[i].ptr = p
  BY <1>2 DEF Shared
<1>6. {h[i].ptr : i \in DOMAIN h} = DOMAIN o
  BY <1>2, <1>3, <1>5
<1>7. {<<h[i].ptr, h[i].request_size>> : i \in DOMAIN h} = {<<p, o[p]>> : p \in DOMAIN o}
  <2>1. ASSUME NEW i \in 1 .. n
        PROVE  \E p \in DOMAIN o : <<h[i].ptr, h[i].request_size>> = <<p, o[p]>>
    BY <1>3
  <2>2. ASSUME NEW p \in DOMAIN o
        PROVE  \E i \in 1 .. n : <<p, o[p]>> = <<h[i].ptr, h[i].request_size>>
    BY <1>3, <1>5
  <2>3. \A x \in {<<h[i].ptr, h[i].request_size>> : i \in DOMAIN h} :
            x \in {<<p, o[p]>> : p \in DOMAIN o}
    BY <2>1, <1>2
  <2>4. \A x \in {<<p, o[p]>> : p \in DOMAIN o} :
            x \in {<<h[i].ptr, h[i].request_size>> : i \in DOMAIN h}
    BY <2>2, <1>2
  <2> QED
    BY <2>3, <2>4, Zenon
<1>8. n = Cardinality(DOMAIN o)
  <2> DEFINE f == [i \in 1 .. n |-> h[i].ptr]
  <2>1. f \in [1 .. n -> DOMAIN o]
    BY <1>3
  <2>2. \A i, j \in 1 .. n : f[i] = f[j] => i = j
    BY <1>4
  <2>3. \A x \in DOMAIN o : \E i \in 1 .. n : f[i] = x
    BY <1>5
  <2> HIDE DEF f
  <2> QED
    BY <2>1, <2>2, <2>3, <1>2, CountOnce
<1> QED
  BY <1>1, <1>6, <1>7, <1>8 DEF SamePairs

\* When the list is used up the report is.
LEMMA BooksReported ==
  ASSUME NEW r, NEW o, NEW d, Books(<<>>, r, o, d)
  PROVE  /\ {<<r[i][1], r[i][2]>> : i \in DOMAIN r} = {<<p, o[p]>> : p \in DOMAIN o}
         /\ Len(r) = Cardinality(DOMAIN o) /\ d = 0
<1>1. PICK m : m = Len(r)
  OBVIOUS
<1>2. /\ m \in Nat /\ DOMAIN r = 1 .. m /\ Listing(r, m, o) /\ Shared(<<>>, 0, r, m, o)
      /\ Sums(<<>>, 0, d)
  <2>1. Len(<<>>) = 0
    OBVIOUS
  <2> QED
    BY <2>1, <1>1, BooksTypes
<1>3. \A i \in 1 .. m : r[i][1] \in DOMAIN o /\ o[r[i][1]] = r[i][2]
  BY <1>2 DEF Listing
<1>4. \A i, j \in 1 .. m : r[i][1] = r[j][1] => i = j
  BY <1>2 DEF Listing
<1>5. \A p \in DOMAIN o : \E i \in 1 .. m : r[i][1] = p
  BY <1>2 DEF Shared
<1>6. {<<r[i][1], r[i][2]>> : i \in DOMAIN r} = {<<p, o[p]>> : p \in DOMAIN o}
  <2>1. ASSUME NEW i \in 1 .. m
        PROVE  \E p \in DOMAIN o : <<r[i][1], r[i][2]>> = <<p, o[p]>>
    BY <1>3
  <2>2. ASSUME NEW p \in DOMAIN o
        PROVE  \E i \in 1 .. m : <<p, o[p]>> = <<r[i][1], r[i][2]>>
    BY <1>3, <1>5
  <2>3. \A x \in {<<r[i][1], r[i][2]>> : i \in DOMAIN r} : x \in {<<p, o[p]>> : p \in DOMAIN o}
    BY <2>1, <1>2
  <2>4. \A x \in {<<p, o[p]>> : p \in DOMAIN o} : x \in {<<r[i][1], r[i][2]>> : i \in DOMAIN r}
    BY <2>2, <1>2
  <2> QED
    BY <2>3, <2>4, Zenon
<1>7. m = Cardinality(DOMAIN o)
  <2> DEFINE f == [i \in 1 .. m |-> r[i][1]]
  <2>1. f \in [1 .. m -> DOMAIN o]
    BY <1>3
  <2>2. \A i, j \in 1 .. m : f[i] = f[j] => i = j
    BY <1>4
  <2>3. \A x \in DOMAIN o : \E i \in 1 .. m : f[i] = x
    BY <1>5
  <2> HIDE DEF f
  <2> QED
    BY <2>1, <2>2, <2>3, <1>2, CountOnce
<1>8. d = 0
  BY <1>2 DEF Sums, Adds
<1> QED
  BY <1>1, <1>6, <1>7, <1>8

\* AddedUp is the sum that the books have.
LEMMA AddedUpIs ==
  ASSUME NEW d, head \in Seq(Nodes), Sums(head, Len(head), d)
  PROVE  AddedUp[Len(head)] = d
<1>1. PICK h : h = head
  OBVIOUS
<1>2. PICK n : n = Len(h)
  OBVIOUS
<1>3. n \in Nat /\ n = Len(head)
  BY <1>1, <1>2
<1>4. PICK f : Adds(h, n, f) /\ f[n] = d
  BY <1>1, <1>2 DEF Sums
<1>5. f \in [0 .. n -> Int] /\ f[0] = 0 /\ \A i \in 1 .. n : f[i] = f[i - 1] + h[i].request_size
  BY <1>4 DEF Adds
<1> DEFINE E(g) == g = [i \in 0 .. Len(head) |->
                          IF i = 0 THEN 0 ELSE g[i - 1] + head[i].request_size]
<1>6. E(f)
  <2>1. ASSUME NEW i \in 0 .. n
        PROVE  f[i] = IF i = 0 THEN 0 ELSE f[i - 1] + h[i].request_size
    <3>1. CASE i = 0
      BY <3>1, <1>5
    <3>2. CASE i # 0
      <4>1. i \in 1 .. n
        BY <3>2, <1>3
      <4> QED
        BY <3>2, <4>1, <1>5
    <3> QED
      BY <3>1, <3>2
  <2>2. f = [i \in 0 .. n |-> f[i]]
    BY <1>5
  <2>3. f = [i \in 0 .. n |-> IF i = 0 THEN 0 ELSE f[i - 1] + h[i].request_size]
    BY <2>1, <2>2, Zenon
  <2> QED
    BY <2>3, <1>1, <1>3, Zenon
<1>7. AddedUp = CHOOSE g : E(g)
  BY DEF AddedUp
<1>8. E(AddedUp)
  BY <1>6, <1>7, Zenon
<1>9. PICK g : g = AddedUp
  OBVIOUS
<1>10. \A i \in 0 .. n : g[i] = IF i = 0 THEN 0 ELSE g[i - 1] + h[i].request_size
  BY <1>1, <1>3, <1>8, <1>9, Zenon
<1> DEFINE G == {i \in 0 .. n : g[i] = f[i]}
<1>11. 0 \in G
  BY <1>3, <1>5, <1>10
<1>12. ASSUME NEW i \in 1 .. n, i - 1 \in G PROVE i \in G
  <2>1. i \in 0 .. n /\ i # 0
    BY <1>3
  <2>2. g[i] = g[i - 1] + h[i].request_size
    BY <2>1, <1>10
  <2>3. g[i - 1] = f[i - 1]
    BY <1>12
  <2>4. f[i] = f[i - 1] + h[i].request_size
    BY <1>5
  <2> QED
    BY <2>1, <2>2, <2>3, <2>4
<1>13. \A i \in 0 .. n : i \in G
  <2> HIDE DEF G
  <2> QED
    BY <1>3, <1>11, <1>12, InductUpTo
<1>14. n \in 0 .. n
  BY <1>3
<1> QED
  BY <1>3, <1>4, <1>9, <1>13, <1>14

\* What the program has and has not been charged for.
Missing == total_memory_requested - total_memory_freed
Totals == total_memory_requested \in Int /\ total_memory_freed \in Int
Balanced == Totals /\ Books(head, <<>>, owned, Missing)

LEMMA MallocBalances ==
  ASSUME Balanced, NEW size \in Nat, mini_malloc(size)
  PROVE  Balanced'
<1>1. PICK h, o : h = head /\ o = owned
  OBVIOUS
<1>2. PICK t, f : t = total_memory_requested /\ f = total_memory_freed
  OBVIOUS
<1>3. t \in Int /\ f \in Int /\ Books(h, <<>>, o, t - f)
  BY <1>1, <1>2 DEF Balanced, Totals, Missing
<1>4. PICK p \in Unused : head' = <<[ptr |-> p, request_size |-> size]>> \o head
                          /\ owned' = Give(p, size)
  BY DEF mini_malloc
<1>5. p \in Ptrs /\ p \notin DOMAIN o
  <2>1. {h[i].ptr : i \in DOMAIN h} = DOMAIN o
    BY <1>3, BooksComplete
  <2>2. p \in Ptrs \ {h[i].ptr : i \in DOMAIN h}
    BY <1>1, <1>4 DEF Unused
  <2> QED
    BY <2>1, <2>2, Zenon
<1>6. PICK g, u : g = head' /\ u = owned'
  OBVIOUS
<1>7. /\ g = <<[ptr |-> p, request_size |-> size]>> \o h
      /\ u = [q \in DOMAIN o \union {p} |-> IF q = p THEN size ELSE o[q]]
  BY <1>1, <1>4, <1>6, Zenon DEF Give
<1>8. Books(g, <<>>, u, (t - f) + size)
  <2>1. PICK d : d = t - f
    OBVIOUS
  <2>2. Books(h, <<>>, o, d)
    BY <2>1, <1>3
  <2>3. Books(g, <<>>, u, d + size)
    <3>1. GivenTo(u, o, p, size) /\ InFront(g, p, size, h)
      BY <1>7, Zenon DEF GivenTo, InFront
    <3> QED
      BY <2>2, <3>1, <1>5, BooksTake
  <2> QED
    BY <2>1, <2>3
<1>9. total_memory_requested' = t + size /\ total_memory_freed' = f
  BY <1>2 DEF mini_malloc
<1>10. (t - f) + size = (t + size) - f /\ t + size \in Int
  BY <1>3
<1> QED
  BY <1>3, <1>6, <1>8, <1>9, <1>10 DEF Balanced, Totals, Missing

LEMMA FreeBalances ==
  ASSUME Balanced, NEW p, NEW i \in valid_ptr(p), head' = WithoutNode(i),
         total_memory_freed' = total_memory_freed + head[i].request_size,
         owned' = TakeBack(p), UNCHANGED total_memory_requested
  PROVE  Balanced'
<1>1. PICK h, o : h = head /\ o = owned
  OBVIOUS
<1>2. PICK t, f : t = total_memory_requested /\ f = total_memory_freed
  OBVIOUS
<1>3. t \in Int /\ f \in Int /\ Books(h, <<>>, o, t - f)
  BY <1>1, <1>2 DEF Balanced, Totals, Missing
<1>4. h \in Seq(Nodes) /\ i \in 1 .. Len(h) /\ h[i].ptr = p
  <2>1. i \in DOMAIN h /\ h[i].ptr = p
    BY <1>1 DEF valid_ptr
  <2> QED
    BY <2>1, <1>3, BooksTypes
<1>5. PICK s \in Nat : s = h[i].request_size
  BY <1>3, <1>4, BooksTypes
<1>6. PICK g, u : g = head' /\ u = owned'
  OBVIOUS
<1>7. /\ g = [j \in 1 .. Len(h) - 1 |-> IF j < i THEN h[j] ELSE h[j + 1]]
      /\ u = [q \in DOMAIN o \ {h[i].ptr} |-> o[q]]
  BY <1>1, <1>4, <1>6, Zenon DEF WithoutNode, TakeBack
<1>8. Shorter(g, h, Len(h), i)
  BY <1>4, <1>7, ShorterIs
<1>9. Books(g, <<>>, u, (t - f) - h[i].request_size)
  BY <1>3, <1>4, <1>7, <1>8, BooksDrop
<1>10. total_memory_freed' = f + s /\ total_memory_requested' = t
  BY <1>1, <1>2, <1>5
<1>11. (t - f) - s = t - (f + s) /\ f + s \in Int
  BY <1>3
<1> QED
  BY <1>3, <1>5, <1>6, <1>9, <1>10, <1>11 DEF Balanced, Totals, Missing

LEMMA ResizedIs ==
  ASSUME Balanced, NEW i \in DOMAIN head, NEW size \in Nat, Resized(i, size)
  PROVE  Totals' /\ Missing' = Missing + (size - head[i].request_size)
<1>1. PICK t, f : t = total_memory_requested /\ f = total_memory_freed
  OBVIOUS
<1>2. t \in Int /\ f \in Int
  BY <1>1 DEF Balanced, Totals
<1>3. PICK s \in Nat : s = head[i].request_size
  <2>1. PICK h : h = head
    OBVIOUS
  <2>2. Books(h, <<>>, owned, Missing)
    BY <2>1 DEF Balanced
  <2>3. DOMAIN h = 1 .. Len(h) /\ \A k \in 1 .. Len(h) : h[k].request_size \in Nat
    BY <2>2, BooksTypes
  <2> QED
    BY <2>1, <2>3
<1>4. PICK v, w : v = total_memory_requested' /\ w = total_memory_freed'
  OBVIOUS
<1>5. \/ s < size /\ v = t + (size - s) /\ w = f
      \/ ~(s < size) /\ w = f + (s - size) /\ v = t
  BY <1>1, <1>3, <1>4 DEF Resized
<1>6. v \in Int /\ w \in Int /\ v - w = (t - f) + (size - s)
  BY <1>2, <1>3, <1>5
<1> QED
  BY <1>1, <1>3, <1>4, <1>6 DEF Totals, Missing

LEMMA ReallocBalances ==
  ASSUME Balanced, NEW p, NEW size \in Nat, mini_realloc(p, size)
  PROVE  Balanced'
<1>1. PICK h, o : h = head /\ o = owned
  OBVIOUS
<1>2. PICK d : d = Missing
  OBVIOUS
<1>3. Books(h, <<>>, o, d)
  BY <1>1, <1>2 DEF Balanced
<1>4. PICK i \in valid_ptr(p), q \in Unused \union {p} :
        /\ Resized(i, size)
        /\ head' = [head EXCEPT ![i] = [ptr |-> q, request_size |-> size]]
        /\ owned' = [r \in (DOMAIN owned \ {p}) \union {q} |-> IF r = q THEN size ELSE owned[r]]
  BY DEF mini_realloc
<1>5. i \in DOMAIN head /\ i \in 1 .. Len(h) /\ h[i].ptr = p /\ p \in Ptrs
  <2>1. i \in DOMAIN h /\ h[i].ptr = p
    BY <1>1 DEF valid_ptr
  <2> QED
    BY <2>1, <1>1, <1>3, BooksTypes
<1>6. q \in Ptrs /\ (q = h[i].ptr \/ q \notin DOMAIN o)
  <2>1. {h[j].ptr : j \in DOMAIN h} = DOMAIN o
    BY <1>3, BooksComplete
  <2>2. q = p \/ q \in Ptrs \ {h[j].ptr : j \in DOMAIN h}
    BY <1>1, <1>4 DEF Unused
  <2> QED
    BY <2>1, <2>2, <1>5, Zenon
<1>7. PICK g, u : g = head' /\ u = owned'
  OBVIOUS
<1>8. /\ g = [h EXCEPT ![i] = [ptr |-> q, request_size |-> size]]
      /\ u = [r \in (DOMAIN o \ {h[i].ptr}) \union {q} |-> IF r = q THEN size ELSE o[r]]
  BY <1>1, <1>4, <1>5, <1>7, Zenon
<1>9. Books(g, <<>>, u, d + (size - h[i].request_size))
  BY <1>3, <1>5, <1>6, <1>8, BooksMove
<1>10. Totals' /\ Missing' = d + (size - h[i].request_size)
  BY <1>1, <1>2, <1>4, <1>5, ResizedIs
<1>11. (<<>>)' = <<>>
  OBVIOUS
<1> QED
  BY <1>7, <1>9, <1>10, Zenon DEF Balanced

\* A call of the program keeps the balance, unless it ends in a crash.
LEMMA CallBalances == ASSUME Balanced, Next PROVE Totals' /\ (crashed' \/ Balanced')
<1>0. 1 .. MaxSize \subseteq Nat
  OBVIOUS
<1>1. CASE \E size \in 1 .. MaxSize : mini_malloc(size)
  BY <1>0, <1>1, MallocBalances DEF Balanced
<1>2. ASSUME NEW p \in Ptrs, Invalid(p) PROVE Balanced'
  BY <1>2 DEF Invalid, Balanced, Totals, Missing
<1>3. ASSUME NEW p \in Ptrs, mini_free(p) PROVE Balanced'
  BY <1>3, FreeBalances DEF mini_free
<1>4. ASSUME NEW p \in Ptrs, NEW size \in 1 .. MaxSize, mini_realloc(p, size) PROVE Balanced'
  BY <1>0, <1>4, ReallocBalances
<1>5. ASSUME NEW p \in Ptrs, NEW size \in 1 .. MaxSize, ReallocFails(p, size)
      PROVE  Totals' /\ crashed'
  <2>1. PICK i \in valid_ptr(p) : Resized(i, size)
    BY <1>5 DEF ReallocFails
  <2>2. i \in DOMAIN head
    BY DEF valid_ptr
  <2>3. Totals'
    BY <1>0, <2>1, <2>2, ResizedIs
  <2> QED
    BY <2>3, <1>5 DEF ReallocFails
<1> QED
  BY <1>1, <1>2, <1>3, <1>4, <1>5 DEF Next, Balanced

-----------------------------------------------------------------------------
Stages == {"greet", "loading", "run", "freeres", "report", "done"}
Late == stage \in {"report", "done"}

BooksInv ==
    /\ stage \in Stages /\ Totals /\ total_leak \in Int
    /\ crashed \in BOOLEAN /\ (crashed => stage = "run")
    /\ Late => invalid_addresses = invalid_addresses_temp
    /\ ~Late => reported = <<>> /\ total_leak = 0
    /\ stage = "done" => head = <<>>
    /\ ~crashed => Books(head, reported, owned, Missing - total_leak)

\* Before the report the books are balanced, and balanced books are good before it.
LEMMA EarlyBalance == ASSUME BooksInv, ~Late, ~crashed PROVE Balanced
<1>1. /\ reported = <<>> /\ total_leak = 0 /\ Totals
      /\ Books(head, reported, owned, Missing - total_leak)
  BY DEF BooksInv
<1>2. Missing - 0 = Missing
  BY <1>1 DEF Totals, Missing
<1> QED
  BY <1>1, <1>2 DEF Balanced

LEMMA BalanceEarly ==
  ASSUME BooksInv, ~Late, stage' \in Stages, ~Late', UNCHANGED <<reported, total_leak>>,
         Totals', crashed' \in BOOLEAN, crashed' => stage' = "run", ~crashed' => Balanced'
  PROVE  BooksInv'
<1>1. reported' = <<>> /\ total_leak' = 0
  BY DEF BooksInv
<1>2. Missing' - total_leak' = Missing'
  <2>1. PICK m : m = Missing'
    OBVIOUS
  <2>2. m \in Int
    BY <2>1 DEF Totals, Missing
  <2>3. m - 0 = m
    BY <2>2
  <2> QED
    BY <1>1, <2>1, <2>3, Zenon
<1>3. ~crashed' => Books(head, reported, owned, Missing - total_leak)'
  BY <1>1, <1>2 DEF Balanced
<1>4. stage' # "done"
  BY DEF Late
<1> QED
  BY <1>1, <1>3, <1>4 DEF BooksInv

LEMMA BooksNext == ASSUME BooksInv, HNext PROVE BooksInv'
<1>0. MaxSize \in Nat
  BY MemcheckAssumption
<1>1. CASE print_greeting \/ load_real_malloc
  <2>1. /\ UNCHANGED vars /\ UNCHANGED <<reported, total_leak>>
        /\ ~Late /\ ~Late' /\ stage' \in Stages /\ stage # "run"
    BY <1>1 DEF print_greeting, load_real_malloc, Late, Stages
  <2>2. ~crashed /\ ~crashed' /\ crashed' \in BOOLEAN
    BY <2>1 DEF BooksInv, vars
  <2>3. Balanced
    BY <2>1, <2>2, EarlyBalance
  <2>4. Balanced' /\ Totals'
    BY <2>1, <2>3 DEF Balanced, Totals, Missing, vars
  <2> QED
    BY <2>1, <2>2, <2>4, BalanceEarly
<1>2. CASE program_calls
  <2>1. stage = "run" /\ stage' = "run" /\ Next /\ UNCHANGED <<reported, total_leak>>
    BY <1>2 DEF program_calls
  <2>2. ~Late /\ ~Late' /\ stage' \in Stages
    BY <2>1 DEF Late, Stages
  <2>3. ~crashed /\ crashed' \in BOOLEAN
    BY <2>1 DEF Next, mini_malloc, Invalid, mini_free, mini_realloc, ReallocFails, Call, BooksInv
  <2>4. Balanced
    BY <2>2, <2>3, EarlyBalance
  <2>5. Totals' /\ (crashed' \/ Balanced')
    BY <2>1, <2>4, CallBalances
  <2> QED
    BY <2>1, <2>2, <2>3, <2>5, BalanceEarly
<1>3. CASE libc_allocates
  <2>1. stage = "run" /\ stage' = "run" /\ mini_malloc(1) /\ UNCHANGED <<reported, total_leak>>
    BY <1>3 DEF libc_allocates
  <2>2. ~Late /\ ~Late' /\ stage' \in Stages
    BY <2>1 DEF Late, Stages
  <2>3. ~crashed /\ ~crashed' /\ crashed' \in BOOLEAN
    BY <2>1 DEF mini_malloc, Call, BooksInv
  <2>4. Balanced
    BY <2>2, <2>3, EarlyBalance
  <2>5. Balanced'
    BY <2>1, <2>4, MallocBalances
  <2> QED
    BY <2>1, <2>2, <2>3, <2>5, BalanceEarly DEF Balanced
<1>4. CASE finalize
  <2>1. /\ UNCHANGED vars /\ UNCHANGED <<reported, total_leak>>
        /\ ~Late /\ ~Late' /\ stage' \in Stages /\ ~crashed
    BY <1>4 DEF finalize, Late, Stages
  <2>2. ~crashed' /\ crashed' \in BOOLEAN
    BY <2>1 DEF vars, BooksInv
  <2>3. Balanced
    BY <2>1, EarlyBalance
  <2>4. Balanced' /\ Totals'
    BY <2>1, <2>3 DEF Balanced, Totals, Missing, vars
  <2> QED
    BY <2>1, <2>2, <2>4, BalanceEarly
<1>5. CASE libc_freeres
  <2>1. /\ stage = "freeres" /\ stage' = "freeres" /\ UNCHANGED <<reported, total_leak>>
        /\ UNCHANGED <<total_memory_requested, crashed>>
    BY <1>5 DEF libc_freeres
  <2>2. ~Late /\ ~Late' /\ stage' \in Stages
    BY <2>1 DEF Late, Stages
  <2>3. ~crashed /\ ~crashed' /\ crashed' \in BOOLEAN
    BY <2>1 DEF BooksInv
  <2>4. Balanced
    BY <2>2, <2>3, EarlyBalance
  <2>5. Balanced'
    <3>1. CASE \E p \in libcs : \E i \in valid_ptr(p) :
                 /\ head' = WithoutNode(i)
                 /\ total_memory_freed' = total_memory_freed + head[i].request_size
                 /\ owned' = TakeBack(p)
      BY <2>1, <2>4, <3>1, FreeBalances
    <3>2. CASE UNCHANGED <<head, total_memory_freed, owned>>
      BY <2>1, <2>4, <3>2 DEF Balanced, Totals, Missing
    <3> QED
      BY <1>5, <3>1, <3>2 DEF libc_freeres
  <2> QED
    BY <2>1, <2>2, <2>3, <2>5, BalanceEarly DEF Balanced
<1>6. CASE hooks_off
  <2>1. /\ stage = "freeres" /\ stage' = "report"
        /\ invalid_addresses' = invalid_addresses_temp
        /\ UNCHANGED <<head, total_memory_requested, total_memory_freed, owned, crashed,
                       invalid_addresses_temp, total_leak, reported>>
    BY <1>6 DEF hooks_off
  <2>2. ~crashed
    BY <2>1 DEF BooksInv
  <2>3. Books(head, reported, owned, Missing - total_leak)'
    BY <2>1, <2>2 DEF BooksInv, Missing
  <2> QED
    BY <2>1, <2>2, <2>3 DEF BooksInv, Late, Stages, Totals
<1>7. CASE report_leak
  <2>1. /\ stage = "report" /\ stage' = "report" /\ head # <<>>
        /\ total_leak' = total_leak + Head(head).request_size /\ head' = Tail(head)
        /\ UNCHANGED <<total_memory_requested, total_memory_freed, invalid_addresses, owned,
                       crashed, invalid_addresses_temp>>
    BY <1>7 DEF report_leak
  <2>2. PICK name \in {"??", "known"} :
          reported' = Append(reported, <<Head(head).ptr, Head(head).request_size, name>>)
    BY <1>7 DEF report_leak
  <2>3. ~crashed
    BY <2>1 DEF BooksInv
  <2>4. PICK h, r, o, m, l : h = head /\ r = reported /\ o = owned /\ m = Missing /\ l = total_leak
    OBVIOUS
  <2>5. m \in Int /\ l \in Int /\ Books(h, r, o, m - l)
    BY <2>3, <2>4 DEF BooksInv, Totals, Missing
  <2>6. PICK e : e = reported'
    OBVIOUS
  <2>7. e = Append(r, <<Head(h).ptr, Head(h).request_size, name>>) /\ h # <<>>
    BY <2>1, <2>2, <2>4, <2>6
  <2>8. Books(Tail(h), e, o, (m - l) - Head(h).request_size)
    BY <2>5, <2>7, BooksList
  <2>9. PICK s \in Nat : s = Head(h).request_size
    <3>1. h \in Seq(Nodes) /\ \A i \in 1 .. Len(h) : h[i].request_size \in Nat
      BY <2>5, BooksTypes
    <3>2. 1 \in 1 .. Len(h) /\ Head(h) = h[1]
      BY <3>1, <2>7
    <3> QED
      BY <3>1, <3>2
  <2>10. Missing' = m /\ total_leak' = l + s /\ head' = Tail(h) /\ owned' = o
    BY <2>1, <2>4, <2>9 DEF Missing
  <2>11. (m - l) - s = m - (l + s) /\ l + s \in Int
    BY <2>5
  <2>12. Books(head', reported', owned', Missing' - total_leak')
    BY <2>6, <2>8, <2>9, <2>10, <2>11
  <2>13. total_leak' \in Int
    BY <2>10, <2>11
  <2> QED
    BY <2>1, <2>3, <2>12, <2>13 DEF BooksInv, Late, Stages, Totals
<1>8. CASE print_summary
  <2>1. /\ stage = "report" /\ stage' = "done" /\ head = <<>> /\ UNCHANGED vars
        /\ UNCHANGED <<invalid_addresses_temp, total_leak, reported>>
    BY <1>8 DEF print_summary
  <2>2. ~crashed
    BY <2>1 DEF BooksInv
  <2>3. Books(head, reported, owned, Missing - total_leak)'
    BY <2>1, <2>2 DEF BooksInv, Missing, vars
  <2> QED
    BY <2>1, <2>2, <2>3 DEF BooksInv, Late, Stages, Totals, vars
<1> QED
  BY <1>1, <1>2, <1>3, <1>4, <1>5, <1>6, <1>7, <1>8 DEF HNext

LEMMA BooksAreRight == ASSUME BooksInv PROVE ReportRight
<1>1. stage \in {"report", "done"} => invalid_addresses = invalid_addresses_temp
  BY DEF BooksInv, Late
<1>2. ASSUME stage \in {"greet", "loading", "run"} PROVE LeakReported
  <2> SUFFICES ASSUME ~crashed
               PROVE  /\ {<<head[i].ptr, head[i].request_size>> : i \in DOMAIN head}
                            = {<<p, owned[p]>> : p \in DOMAIN owned}
                      /\ Len(head) = Cardinality(DOMAIN owned)
                      /\ total_memory_requested - total_memory_freed = AddedUp[Len(head)]
    BY DEF LeakReported
  <2>1. ~Late
    BY <1>2 DEF Late
  <2>2. Books(head, <<>>, owned, Missing)
    BY <2>1, EarlyBalance DEF Balanced
  <2>3. /\ {<<head[i].ptr, head[i].request_size>> : i \in DOMAIN head}
              = {<<p, owned[p]>> : p \in DOMAIN owned}
        /\ Len(head) = Cardinality(DOMAIN owned)
    <3>1. SamePairs(head, owned) /\ Len(head) = Cardinality(DOMAIN owned)
      BY <2>2, BooksComplete
    <3> QED
      BY <3>1, Zenon DEF SamePairs
  <2>4. head \in Seq(Nodes) /\ Sums(head, Len(head), Missing)
    BY <2>2, BooksTypes
  <2>5. AddedUp[Len(head)] = Missing
    BY <2>4, AddedUpIs
  <2> QED
    BY <2>3, <2>5, Zenon DEF Missing
<1>3. ASSUME stage = "done"
      PROVE  /\ {<<reported[i][1], reported[i][2]>> : i \in DOMAIN reported}
                    = {<<p, owned[p]>> : p \in DOMAIN owned}
             /\ Len(reported) = Cardinality(DOMAIN owned)
             /\ total_leak = total_memory_requested - total_memory_freed
  <2>1. head = <<>> /\ ~crashed
    BY <1>3 DEF BooksInv
  <2>2. Books(<<>>, reported, owned, Missing - total_leak)
    BY <2>1 DEF BooksInv
  <2>3. /\ {<<reported[i][1], reported[i][2]>> : i \in DOMAIN reported}
              = {<<p, owned[p]>> : p \in DOMAIN owned}
        /\ Len(reported) = Cardinality(DOMAIN owned) /\ Missing - total_leak = 0
    BY <2>2, BooksReported
  <2>4. total_leak = total_memory_requested - total_memory_freed
    BY <2>3 DEF BooksInv, Totals, Missing
  <2> QED
    BY <2>3, <2>4, Zenon
<1> QED
  BY <1>1, <1>2, <1>3 DEF ReportRight

LEMMA BooksStart == ASSUME HInit PROVE BooksInv
<1>1. /\ stage = "greet" /\ total_leak = 0 /\ reported = <<>> /\ head = <<>> /\ crashed = FALSE
      /\ total_memory_requested = 0 /\ total_memory_freed = 0 /\ owned = [p \in {} |-> 0]
  BY DEF HInit, Init
<1>2. Missing - total_leak = 0
  BY <1>1 DEF Missing
<1>3. PICK o : o = owned
  OBVIOUS
<1>4. Books(<<>>, <<>>, o, 0)
  BY <1>1, <1>3, BooksEmpty
<1> QED
  <2>1. Books(head, reported, owned, Missing - total_leak)
    BY <1>1, <1>2, <1>3, <1>4, Zenon
  <2>2. Totals /\ total_leak \in Int
    BY <1>1 DEF Totals
  <2>3. stage \in Stages /\ stage # "run" /\ stage # "done" /\ ~Late
    BY <1>1 DEF Stages, Late
  <2> QED
    BY <2>1, <2>2, <2>3, <1>1 DEF BooksInv

-----------------------------------------------------------------------------
\* Whatever the program allocates, resizes, moves, frees and frees twice, with any number of
\* blocks and calls, and whatever the C library allocates and gives back through the same
\* hooks: while it runs, the list of mini_memcheck.c is what the program holds and the
\* totals differ by its size; the report of mini_hacks.c lists every block of the program
\* that is left, once, and no other, and its total is what the totals differ by.
THEOREM ReportsAreRight == ASpec => []ReportRight
<1>1. AInit => BooksInv
  BY BooksStart DEF AInit
<1>2. BooksInv /\ [ANext]_allvars => BooksInv'
  <2> SUFFICES ASSUME BooksInv, [ANext]_allvars PROVE BooksInv'
    OBVIOUS
  <2>1. CASE HNext
    BY <2>1, BooksNext
  <2>2. CASE UNCHANGED memvars
    BY <2>2 DEF memvars, vars, hackvars, BooksInv, Late, Totals, Missing
  <2> QED
    BY <2>1, <2>2 DEF ANext, allvars
<1> QED
  BY <1>1, <1>2, BooksAreRight, PTL DEF ASpec
=============================================================================
