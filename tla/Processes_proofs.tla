------------------------- MODULE Processes_proofs -------------------------
(***************************************************************************)
(* What the shell promises about its children, proved for any number of    *)
(* children, lines and signals: ChildrenKept.  A table without repetition  *)
(* is not needed for it: what is needed is that whoever is looked for, to  *)
(* be taken out of it, is dead or about to die, and that the walk of       *)
(* killAllChildProcesses notices when the table got shorter under it.      *)
(***************************************************************************)
EXTENDS Processes, SequenceTheorems, WellFoundedInduction, TLAPS

Labels == {"read", "exec", "push", "setpgid", "wait", "delete", "killrm", "ps",
           "killall", "free", "save"} \union Gone

Handler == [i : Nat \ {0}, n : Nat]

Types ==
    /\ pc \in Labels
    /\ child \in [Pids -> Child] /\ procs \in Seq(Pids)
    /\ forks \in 0 .. MaxForks /\ i \in Nat /\ n \in Nat
    /\ sig \in Handler

\* Dead, or sent a SIGKILL that nothing will take back.
Doomed(p) == Live(p) => child[p].killed
AllDoomed == \A p \in Pids : Doomed(p)

\* Whoever is looked for, to be taken out of the table, is doomed.
Searching ==
    /\ wanted \in [Frames -> Nat] /\ pos \in [Frames -> Nat \ {0}]
    /\ \A f \in Frames : wanted[f] # 0 => wanted[f] \in Pids /\ Doomed(wanted[f])

\* Handlers are nested, and only code that runs or was interrupted looks for a process.
Nested ==
    /\ frame \in Frames /\ below \in Frames
    /\ frame = "main" => below = "main"
    /\ \A f \in {"int", "chld"} : wanted[f] # 0 => f \in {frame, below}
    /\ wanted["main"] # 0 => pc \in {"killrm", "delete"} \union Gone

Marked == pc \in {"push", "setpgid", "wait"} => cur \in Pids

\* A foreground child lives only while the main thread is busy with it.
Busy ==
    /\ \A p \in Pids : Live(p) /\ ~child[p].bg =>
            pc \in Gone \/ (p = cur /\ pc \in {"push", "setpgid", "wait"})
    /\ pc \in {"push", "setpgid"} /\ Head(todo) = "Bg" /\ Live(cur) => child[cur].bg

\* The walk of killAllChildProcesses: as long as the table is as long as at the start, what
\* lies behind the index is doomed; once it is shorter, the index does not get to the end.
Behind(k) == Len(procs) = n /\ \A j \in DOMAIN procs : j < k => Doomed(procs[j])

Walk ==
    /\ pc \in {"killall", "free"} => i > 0
    /\ pc = "killall" => AllDoomed \/ Behind(i) \/ (Len(procs) < n /\ i <= n)
    /\ pc = "free" => AllDoomed \/ Behind(i + 1) \/ (Len(procs) < n /\ i < n)
    /\ pc \in {"save", "ended"} => AllDoomed

Inv == Types /\ ChildrenTracked /\ Searching /\ Marked /\ Busy /\ Walk


-----------------------------------------------------------------------------
(* The table.                                                                *)

LEMMA Least ==
    ASSUME NEW S \in SUBSET Nat, S # {}
    PROVE  Min(S) \in S /\ \A y \in S : Min(S) <= y
<1>1. PICK x \in S : \A y \in S : ~(<<y, x>> \in OpToRel(<, Nat))
    BY WFMin, NatLessThanWellFounded
<1>2. \A y \in S : ~(y < x)
    BY <1>1, Zenon DEF OpToRel
<1>3. \A y \in S : x <= y
    BY <1>2
<1> QED  BY <1>3 DEF Min

\* Induction up to m, for a set rather than for a formula.
LEMMA InductUpTo ==
    ASSUME NEW m \in Nat, NEW G, 0 \in G, \A k \in 1 .. m : k - 1 \in G => k \in G
    PROVE  \A k \in 0 .. m : k \in G
<1> DEFINE Bad == {k \in 0 .. m : k \notin G}
<1> SUFFICES ASSUME Bad # {} PROVE FALSE
    OBVIOUS
<1>1. PICK k \in Bad : \A j \in Bad : k <= j
    <2>1. Bad \in SUBSET Nat
        OBVIOUS
    <2> HIDE DEF Bad
    <2> QED  BY <2>1, Least
<1>2. k \in 1 .. m /\ k - 1 \in 0 .. m /\ ~(k <= k - 1) /\ k \notin G
    <2>1. k \in 0 .. m /\ k \notin G
        BY <1>1
    <2>2. k # 0
        BY <2>1
    <2> QED  BY <2>1, <2>2
<1>3. k - 1 \in G
    BY <1>1, <1>2
<1> QED  BY <1>2, <1>3

\* A function that is defined step by step up to m exists.
Stepwise(f, m, b, h) == f = [k \in 0 .. m |-> IF k = 0 THEN b ELSE h[<<k, f[k - 1]>>]]

LEMMA StepwiseExists ==
    ASSUME NEW m \in Nat, NEW S, NEW b \in S, NEW h \in [(1 .. m) \X S -> S]
    PROVE  \E f \in [0 .. m -> S] : Stepwise(f, m, b, h)
<1> DEFINE G == {l \in 0 .. m : \E f \in [0 .. l -> S] : Stepwise(f, l, b, h)}
<1>1. 0 \in G
    <2> DEFINE f == [k \in 0 .. 0 |-> b]
    <2>1. f \in [0 .. 0 -> S]
        OBVIOUS
    <2>2. f = [k \in 0 .. 0 |-> IF k = 0 THEN b ELSE h[<<k, f[k - 1]>>]]
        OBVIOUS
    <2>3. Stepwise(f, 0, b, h)
        BY <2>2 DEF Stepwise
    <2> QED  BY <2>1, <2>3
<1>2. ASSUME NEW l \in 1 .. m, l - 1 \in G PROVE l \in G
    <2>1. PICK f \in [0 .. l - 1 -> S] : Stepwise(f, l - 1, b, h)
        BY <1>2
    <2>2. \A k \in 0 .. l - 1 : f[k] = IF k = 0 THEN b ELSE h[<<k, f[k - 1]>>]
        BY <2>1 DEF Stepwise
    <2> DEFINE g == [k \in 0 .. l |-> IF k = l THEN h[<<l, f[l - 1]>>] ELSE f[k]]
    <2>3. h[<<l, f[l - 1]>>] \in S
        <3>1. f[l - 1] \in S
            BY <1>2
        <3> QED  BY <3>1
    <2>4. g \in [0 .. l -> S]
        <3>1. \A k \in 0 .. l : k # l => k \in 0 .. l - 1
            BY <1>2
        <3> QED  BY <2>3, <3>1
    <2>5. \A k \in 0 .. l : g[k] = IF k = 0 THEN b ELSE h[<<k, g[k - 1]>>]
        <3> SUFFICES ASSUME NEW k \in 0 .. l
                     PROVE  g[k] = IF k = 0 THEN b ELSE h[<<k, g[k - 1]>>]
            OBVIOUS
        <3>0. \A j \in 0 .. l : g[j] = IF j = l THEN h[<<l, f[l - 1]>>] ELSE f[j]
            OBVIOUS
        <3> HIDE DEF g
        <3>1. k # 0 => g[k - 1] = f[k - 1]
            BY <1>2, <3>0
        <3>2. CASE k = l
            <4>1. k # 0
                BY <1>2, <3>2
            <4>2. g[k] = h[<<l, f[l - 1]>>]
                BY <3>0, <3>2, Zenon
            <4> QED  BY <3>1, <3>2, <4>1, <4>2
        <3>3. CASE k # l
            <4>1. k \in 0 .. l - 1 /\ g[k] = f[k]
                BY <1>2, <3>0, <3>3
            <4> QED  BY <2>2, <3>1, <4>1
        <3> QED  BY <3>2, <3>3
    <2> HIDE DEF g
    <2>6. g = [k \in 0 .. l |-> IF k = 0 THEN b ELSE h[<<k, g[k - 1]>>]]
        BY <2>4, <2>5
    <2>7. Stepwise(g, l, b, h)
        BY <2>6 DEF Stepwise
    <2> QED  BY <1>2, <2>4, <2>7
<1> HIDE DEF G
<1>3. \A l \in 0 .. m : l \in G
    BY <1>1, <1>2, InductUpTo
<1>4. m \in G
    BY <1>3
<1> QED  BY <1>4 DEF G

\* What taking out the members of Z may do to a table.
Shrinks(r, s, Z) ==
    /\ r \in Seq(Pids) /\ Len(r) <= Len(s)
    /\ Len(r) = Len(s) => r = s
    /\ Range(s) \ Z \subseteq Range(r)

\* vector_erase of an entry that holds p.
LEMMA EraseShrinks ==
    ASSUME NEW s \in Seq(Pids), NEW p, NEW at \in 1 .. Len(s), s[at] = p
    PROVE  Shrinks(SubSeq(s, 1, at - 1) \o SubSeq(s, at + 1, Len(s)), s, {p})
<1> DEFINE a == SubSeq(s, 1, at - 1)
           b == SubSeq(s, at + 1, Len(s))
           x == at - 1
           y == Len(s) - at
           r == a \o b
<1>1. Len(s) \in Nat /\ DOMAIN s = 1 .. Len(s) /\ \A k \in 1 .. Len(s) : s[k] \in Pids
    OBVIOUS
<1>2. /\ x \in Nat /\ y \in Nat /\ at = x + 1 /\ Len(s) = x + 1 + y
      /\ a = SubSeq(s, 1, x) /\ b = SubSeq(s, x + 2, Len(s))
    BY <1>1
<1> HIDE DEF x, y, a, b
<1>3. a \in Seq(Pids) /\ Len(a) = x /\ \A k \in 1 .. x : a[k] = s[k]
    BY <1>1, <1>2
<1>4. b \in Seq(Pids) /\ Len(b) = y /\ \A k \in 1 .. y : b[k] = s[x + 1 + k]
    BY <1>1, <1>2
<1>5. /\ r \in Seq(Pids) /\ Len(r) = x + y
      /\ \A k \in 1 .. x + y : r[k] = IF k <= x THEN a[k] ELSE b[k - x]
    <2>1. a \in Seq(Pids) /\ b \in Seq(Pids) /\ Len(a) = x /\ Len(b) = y
        BY <1>3, <1>4
    <2>2. /\ r \in Seq(Pids) /\ Len(r) = Len(a) + Len(b)
          /\ \A k \in 1 .. Len(a) + Len(b) : r[k] = IF k <= Len(a) THEN a[k] ELSE b[k - Len(a)]
        BY <2>1, ConcatProperties, Zenon
    <2> HIDE DEF r
    <2> QED  BY <2>1, <2>2, Zenon
<1> HIDE DEF r
<1>6. Len(r) = Len(s) - 1 /\ DOMAIN r = 1 .. Len(s) - 1
    <2>1. Len(r) = Len(s) - 1 /\ DOMAIN r = 1 .. Len(r)
        BY <1>2, <1>5
    <2> QED  BY <2>1
<1>7. \A k \in 1 .. at - 1 : r[k] = s[k]
    BY <1>2, <1>3, <1>5
<1>8. ASSUME NEW k \in at .. Len(s) - 1 PROVE r[k] = s[k + 1]
    <2>1. k \in 1 .. x + y /\ ~(k <= x) /\ k - x \in 1 .. y /\ x + 1 + (k - x) = k + 1
        BY <1>2
    <2> QED  BY <1>4, <1>5, <2>1
<1>9. ASSUME NEW k \in 1 .. Len(s), s[k] # p PROVE \E l \in DOMAIN r : r[l] = s[k]
    <2>1. CASE k < at
        <3>1. k \in DOMAIN r /\ r[k] = s[k]
            BY <1>1, <1>6, <1>7, <2>1
        <3> QED  BY <3>1
    <2>2. CASE k > at
        <3>1. k - 1 \in DOMAIN r /\ r[k - 1] = s[k]
            BY <1>1, <1>6, <1>8, <2>2
        <3> QED  BY <3>1
    <2> QED  BY <1>1, <1>9, <2>1, <2>2
<1>10. Range(s) \ {p} \subseteq Range(r)
    BY <1>1, <1>9 DEF Range
<1>11. Shrinks(r, s, {p})
    BY <1>1, <1>5, <1>6, <1>10 DEF Shrinks
<1> QED  BY <1>11 DEF r, a, b

-----------------------------------------------------------------------------
(* The children.                                                             *)

\* What happens to children that exist already: nobody rises from the dead, changes
\* between foreground and background or is pardoned.
Calm ==
    \A p \in Pids :
        /\ Live(p)' => /\ Live(p) /\ child'[p].bg = child[p].bg
                       /\ child[p].killed => child'[p].killed
        /\ child[p].st = "reaped" => child'[p].st = "reaped"

Children == child' \in [Pids -> Child] /\ Calm

LEMMA ChildrenStay ==
    ASSUME child \in [Pids -> Child], child' = child PROVE Children
BY DEF Children, Calm, Live

LEMMA ExecCalm ==
    ASSUME Types, NEW p \in Pids, Exec(p) PROVE Children
BY DEF Types, Exec, Children, Calm, Live, Child

LEMMA DieCalm ==
    ASSUME Types, NEW p \in Pids, Die(p) PROVE Children
<1>1. PICK c \in 0 .. 2 :
        child' = [child EXCEPT ![p].st = "zombie", ![p].code = c,
                               ![p].stopped = FALSE, ![p].killed = FALSE]
    BY DEF Die
<1>2. child \in [Pids -> Child] /\ child[p] \in Child
    BY DEF Types
<1>3. /\ child' = [child EXCEPT ![p] = child'[p]]
      /\ child'[p] = [child[p] EXCEPT !.st = "zombie", !.code = c, !.stopped = FALSE,
                                     !.killed = FALSE]
    BY <1>1, <1>2
<1>4. child'[p] \in Child /\ child'[p].st = "zombie"
    BY <1>2, <1>3 DEF Child
<1>5. child' \in [Pids -> Child] /\ \A q \in Pids : q # p => child'[q] = child[q]
    BY <1>2, <1>3, <1>4
<1>6. Live(p)
    BY DEF Die
<1> QED  BY <1>4, <1>5, <1>6 DEF Children, Calm, Live

LEMMA KilledCalm ==
    ASSUME Types, NEW p \in Pids, child' = Killed(p)
    PROVE  Children /\ Doomed(p)'
BY DEF Types, Killed, Children, Calm, Live, Child, Doomed

LEMMA StopCalm ==
    ASSUME Types, NEW p \in Pids,
           NEW b \in BOOLEAN, child' = [child EXCEPT ![p].stopped = b]
    PROVE  Children
<1>1. child \in [Pids -> Child] /\ child[p] \in Child
    BY DEF Types
<1>2. child'[p] = [child[p] EXCEPT !.stopped = b]
    BY <1>1
<1>3. /\ child'[p] \in Child /\ child'[p].st = child[p].st /\ child'[p].bg = child[p].bg
      /\ child'[p].killed = child[p].killed
    BY <1>1, <1>2 DEF Child
<1>4. child' \in [Pids -> Child] /\ \A q \in Pids : q # p => child'[q] = child[q]
    BY <1>1, <1>3
<1> QED  BY <1>3, <1>4 DEF Children, Calm, Live

LEMMA GroupCalm ==
    ASSUME Types, NEW p \in Pids, child' = [child EXCEPT ![p].grp = TRUE]
    PROVE  Children
BY DEF Types, Children, Calm, Live, Child

LEMMA ReapOneCalm ==
    ASSUME Types, NEW p \in Pids, child' = [child EXCEPT ![p] = Fresh("reaped", FALSE)]
    PROVE  Children /\ child'[p].st = "reaped"
BY DEF Types, Fresh, Children, Calm, Live, Child

\* A doomed child stays doomed.
LEMMA DoomLasts ==
    ASSUME Children
    PROVE  /\ \A p \in Pids : Doomed(p) => Doomed(p)'
           /\ AllDoomed => AllDoomed'
BY DEF Children, Calm, Doomed, AllDoomed

\* The table may lose the doomed.
LEMMA Tracks ==
    ASSUME Inv, Children, NEW Z, Shrinks(procs', procs, Z), \A p \in Pids \intersect Z : Doomed(p)',
           pc' \notin Gone => pc \notin Gone /\ (pc = "push" => pc' = "push" /\ cur' = cur)
    PROVE  ChildrenTracked'
<1> SUFFICES ASSUME pc' \notin Gone, NEW p \in Pids, Live(p)', ~child'[p].killed,
                    ~(pc' = "push" /\ p = cur')
             PROVE  p \in Range(procs')
    BY Zenon DEF ChildrenTracked
<1>1. Live(p) /\ ~child[p].killed
    BY DEF Children, Calm
<1>2. p \in Range(procs)
    BY <1>1 DEF Inv, ChildrenTracked
<1>3. p \notin Z
    BY DEF Doomed
<1> QED  BY <1>2, <1>3 DEF Shrinks

\* Once the index is past the end of a table that kept its length, all are doomed.
LEMMA PassedAll ==
    ASSUME Inv, pc \notin Gone \union {"push"}, NEW k \in Nat, Behind(k), k > n
    PROVE  AllDoomed
<1>1. /\ n \in Nat /\ procs \in Seq(Pids) /\ Len(procs) \in Nat
      /\ DOMAIN procs = 1 .. Len(procs)
    BY DEF Inv, Types
<1>2. \A j \in DOMAIN procs : Doomed(procs[j])
    BY <1>1 DEF Behind
<1>3. \A p \in Range(procs) : Doomed(p)
    BY <1>2 DEF Range
<1> SUFFICES ASSUME NEW p \in Pids, ~Doomed(p) PROVE FALSE
    BY DEF AllDoomed
<1> QED  BY <1>3 DEF Inv, ChildrenTracked, Doomed

\* The walk notices that the table shrinks.
LEMMA Walks ==
    ASSUME Inv, Children, NEW Z, Shrinks(procs', procs, Z), \A p \in Pids \intersect Z : Doomed(p)',
           pc' = pc, pc \notin Gone, i' = i, n' = n
    PROVE  Walk'
<1>0. /\ i \in Nat /\ n \in Nat /\ procs \in Seq(Pids) /\ Len(procs) \in Nat
      /\ DOMAIN procs = 1 .. Len(procs) /\ procs' \in Seq(Pids) /\ Len(procs') \in Nat
    BY DEF Inv, Types, Shrinks
<1>10. pc' \in {"killall", "free"} => i' > 0
    BY DEF Inv, Walk
<1>1. CASE AllDoomed
    BY <1>1, <1>10, DoomLasts DEF Walk
<1>2. ASSUME NEW k \in Nat, Behind(k) PROVE Behind(k)' \/ Len(procs') < n
    <2>1. CASE Len(procs') = Len(procs)
        <3>1. procs' = procs
            BY <2>1 DEF Shrinks
        <3>2. \A j \in DOMAIN procs : procs[j] \in Pids
            BY <1>0
        <3> QED  BY <1>2, <3>1, <3>2, DoomLasts DEF Behind
    <2>2. CASE Len(procs') # Len(procs)
        BY <1>0, <1>2, <2>2 DEF Shrinks, Behind
    <2> QED  BY <2>1, <2>2
<1>3. ASSUME NEW k \in Nat, Behind(k), k > n, pc # "push" PROVE AllDoomed
    BY <1>3, PassedAll
<1>4. CASE ~AllDoomed /\ pc = "killall"
    <2>1. CASE Behind(i)
        <3>1. i <= n
            BY <1>0, <1>3, <1>4, <2>1
        <3> QED  BY <1>0, <1>2, <1>4, <1>10, <2>1, <3>1 DEF Walk, Gone
    <2>2. CASE Len(procs) < n /\ i <= n
        BY <1>0, <1>4, <1>10, <2>2 DEF Walk, Shrinks, Gone
    <2> QED  BY <1>4, <2>1, <2>2 DEF Inv, Walk
<1>5. CASE ~AllDoomed /\ pc = "free"
    <2>1. CASE Behind(i + 1)
        <3>1. i < n
            BY <1>0, <1>3, <1>5, <2>1
        <3>2. Behind(i + 1)' \/ Len(procs') < n
            BY <1>0, <1>2, <2>1
        <3> QED  BY <1>0, <1>5, <1>10, <3>1, <3>2 DEF Walk, Gone
    <2>2. CASE Len(procs) < n /\ i < n
        BY <1>0, <1>5, <1>10, <2>2 DEF Walk, Shrinks, Gone
    <2> QED  BY <1>5, <2>1, <2>2 DEF Inv, Walk
<1>6. CASE pc \in {"save", "ended"}
    BY <1>1, <1>6 DEF Inv, Walk
<1>7. CASE pc \notin {"killall", "free", "save", "ended"}
    BY <1>7 DEF Walk
<1> QED  BY <1>1, <1>4, <1>5, <1>6, <1>7


-----------------------------------------------------------------------------
(* remove_process and delete_process.                                        *)

LEMMA SearchStays ==
    ASSUME Inv, Children, wanted' = wanted, pos' \in [Frames -> Nat \ {0}]
    PROVE  Searching'
<1>1. ASSUME NEW f \in Frames, wanted[f] # 0 PROVE wanted[f] \in Pids /\ Doomed(wanted[f])'
    <2>1. PICK p \in Pids : p = wanted[f] /\ Doomed(p)
        BY <1>1 DEF Inv, Searching
    <2>2. Doomed(p)'
        BY <2>1, DoomLasts
    <2> QED  BY <2>1, <2>2 DEF Doomed, Live
<1>2. wanted \in [Frames -> Nat]
    BY DEF Inv, Searching
<1> QED  BY <1>1, <1>2, Zenon DEF Searching

LEMMA Seeks ==
    ASSUME Inv, Children, NEW f \in Frames, NEW p \in Pids, Doomed(p)', Seek(f, p)
    PROVE  Searching'
<1>0. wanted \in [Frames -> Nat] /\ pos \in [Frames -> Nat \ {0}] /\ p \in Nat
    BY ShellAssumption DEF Inv, Searching, Pids
<1>1. /\ wanted' \in [Frames -> Nat] /\ pos' \in [Frames -> Nat \ {0}] /\ wanted'[f] = p
      /\ \A g \in Frames : g # f => wanted'[g] = wanted[g]
    BY <1>0 DEF Seek
<1>2. ASSUME NEW g \in Frames, wanted'[g] # 0 PROVE wanted'[g] \in Pids /\ Doomed(wanted[g])'
    <2>1. CASE g = f
        BY <1>1, <2>1 DEF Doomed, Live
    <2>2. CASE g # f
        <3>1. PICK q \in Pids : q = wanted[g] /\ q = wanted'[g] /\ Doomed(q)
            BY <1>1, <1>2, <2>2 DEF Inv, Searching
        <3>2. Doomed(q)'
            BY <3>1, DoomLasts
        <3> QED  BY <3>1, <3>2 DEF Doomed, Live
    <2> QED  BY <2>1, <2>2
<1> QED  BY <1>1, <1>2, Zenon DEF Searching

LEMMA Forgets ==
    ASSUME Inv, Children, NEW f \in Frames, Forget(f)
    PROVE  Searching'
<1>0. wanted \in [Frames -> Nat] /\ pos \in [Frames -> Nat \ {0}]
    BY DEF Inv, Searching
<1>1. /\ wanted' \in [Frames -> Nat] /\ pos' \in [Frames -> Nat \ {0}] /\ wanted'[f] = 0
      /\ \A g \in Frames : g # f => wanted'[g] = wanted[g]
    BY <1>0 DEF Forget
<1>2. ASSUME NEW g \in Frames, wanted'[g] # 0 PROVE wanted'[g] \in Pids /\ Doomed(wanted[g])'
    <2>1. g # f
        BY <1>1, <1>2
    <2>2. PICK q \in Pids : q = wanted[g] /\ q = wanted'[g] /\ Doomed(q)
        BY <1>1, <1>2, <2>1 DEF Inv, Searching
    <2>3. Doomed(q)'
        BY <2>2, DoomLasts
    <2> QED  BY <2>2, <2>3 DEF Doomed, Live
<1> QED  BY <1>1, <1>2, Zenon DEF Searching

\* What the table loses is doomed.
Loses == \E Z : Shrinks(procs', procs, Z) /\ \A p \in Pids \intersect Z : Doomed(p)'

LEMMA LosesNothing ==
    ASSUME Inv, procs' = procs PROVE Loses
<1>1. Shrinks(procs', procs, {})
    BY DEF Inv, Types, Shrinks
<1> QED  BY <1>1 DEF Loses

LEMMA Erased ==
    ASSUME Inv, Children, NEW f \in Frames, erase(f) PROVE Loses
<1>1. PICK q, k : q = wanted[f] /\ k = pos[f]
    OBVIOUS
<1>2. /\ procs \in Seq(Pids) /\ k \in 1 .. Len(procs) /\ procs[k] = q
      /\ procs' = SubSeq(procs, 1, k - 1) \o SubSeq(procs, k + 1, Len(procs))
    BY <1>1 DEF Inv, Types, Searching, erase
<1>3. Shrinks(procs', procs, {q})
    BY <1>2, EraseShrinks
<1>4. q \in Pids /\ q # 0
    BY <1>2, ShellAssumption DEF Pids
<1>5. Doomed(q)
    BY <1>1, <1>4 DEF Inv, Searching
<1>6. Doomed(q)'
    BY <1>4, <1>5, DoomLasts
<1>7. \A p \in Pids \intersect {q} : Doomed(p)'
    BY <1>6 DEF Doomed, Live
<1> QED  BY <1>3, <1>7 DEF Loses

LEMMA Removed ==
    ASSUME Inv, Children, NEW f \in Frames, remove_process(f) \/ delete_process(f)
    PROVE  Loses /\ Searching'
<1>1. Loses
    BY Erased, LosesNothing DEF remove_process, delete_process
<1>2. Searching'
    BY Forgets DEF remove_process, delete_process
<1> QED  BY <1>1, <1>2

-----------------------------------------------------------------------------
(* The steps of the system and of the handlers: the main thread stays where  *)
(* it is, or the shell crashes.                                              *)

LEMMA Interrupted ==
    ASSUME Inv, Children, Loses, Searching',
           pc \notin Gone, pc' = pc \/ pc' \in {"crashed", "astray"},
           UNCHANGED <<cur, todo, i, n, forks>>, sig' \in Handler
    PROVE  Inv'
<1>0. PICK Z : Shrinks(procs', procs, Z) /\ \A p \in Pids \intersect Z : Doomed(p)'
    BY DEF Loses
<1>1. Types'
    BY <1>0 DEF Inv, Types, Children, Shrinks, Labels, Gone
<1>2. ChildrenTracked'
    <2>1. pc' \notin Gone => pc' = pc
        BY DEF Gone
    <2> QED  BY <1>0, <2>1, Tracks
<1>3. Marked'
    BY DEF Inv, Marked
<1>4. Busy'
    <2>1. ASSUME NEW p \in Pids, Live(p)', ~child'[p].bg
          PROVE  pc' \in Gone \/ (p = cur' /\ pc' \in {"push", "setpgid", "wait"})
        <3>1. Live(p) /\ ~child[p].bg
            BY <2>1 DEF Children, Calm
        <3> QED  BY <2>1, <3>1 DEF Inv, Busy, Gone
    <2>2. ASSUME pc' \in {"push", "setpgid"}, Head(todo') = "Bg", Live(cur)'
          PROVE  child'[cur'].bg
        <3>1. pc = pc' /\ cur \in Pids
            BY <2>2 DEF Inv, Marked
        <3>2. Live(cur) /\ child'[cur].bg = child[cur].bg
            BY <2>2, <3>1 DEF Children, Calm
        <3> QED  BY <2>2, <3>1, <3>2 DEF Inv, Busy
    <2> QED  BY <2>1, <2>2 DEF Busy
<1>5. Walk'
    <2>1. CASE pc' = pc
        BY <1>0, <2>1, Walks
    <2>2. CASE pc' \in {"crashed", "astray"}
        BY <2>2 DEF Walk
    <2> QED  BY <2>1, <2>2
<1> QED  BY <1>1, <1>2, <1>3, <1>4, <1>5 DEF Inv

LEMMA ExecInv == ASSUME Inv, NEW p \in Pids, Exec(p) PROVE Inv'
<1>1. Children
    BY ExecCalm DEF Inv
<1>2. /\ pc \notin Gone /\ pc' = pc /\ UNCHANGED <<cur, todo, i, n, forks>>
      /\ sig' = sig /\ procs' = procs /\ wanted' = wanted /\ pos' = pos
    BY DEF Exec, job, signal, search
<1>3. Loses /\ Searching' /\ sig' \in Handler
    BY <1>1, <1>2, LosesNothing, SearchStays DEF Inv, Types, Searching
<1> QED  BY <1>1, <1>2, <1>3, Interrupted

LEMMA DieInv == ASSUME Inv, NEW p \in Pids, Die(p) PROVE Inv'
<1>1. Children
    BY DieCalm DEF Inv
<1>2. /\ pc \notin Gone /\ pc' = pc /\ UNCHANGED <<cur, todo, i, n, forks>>
      /\ sig' = sig /\ procs' = procs /\ wanted' = wanted /\ pos' = pos
    BY DEF Die, job, signal, search
<1>3. Loses /\ Searching' /\ sig' \in Handler
    BY <1>1, <1>2, LosesNothing, SearchStays DEF Inv, Types, Searching
<1> QED  BY <1>1, <1>2, <1>3, Interrupted

LEMMA TablesInv == ASSUME Inv, NEW f \in Frames, Tables(f) PROVE Inv'
<1>1. /\ pc \notin Gone /\ UNCHANGED <<cur, todo, i, n, forks>> /\ sig' = sig
      /\ procs' = procs /\ child' = child /\ wanted' = wanted
      /\ pc' = pc \/ pc' \in {"crashed", "astray"}
      /\ pos' = pos \/ pos' = [pos EXCEPT ![f] = @ + 1]
    <2>1. CASE look(f)
        BY <2>1 DEF look, Runs, job, kernel
    <2>2. CASE delete_nothing(f) \/ stale_erase(f)
        BY <2>2 DEF delete_nothing, stale_erase, Runs, job, kernel, signal, search
    <2> QED  BY <2>1, <2>2 DEF Tables
<1>2. Children
    BY <1>1, ChildrenStay DEF Inv, Types
<1>3. pos' \in [Frames -> Nat \ {0}]
    BY <1>1 DEF Inv, Searching
<1>4. Loses /\ Searching' /\ sig' \in Handler
    BY <1>1, <1>2, <1>3, LosesNothing, SearchStays DEF Inv, Types
<1> QED  BY <1>1, <1>2, <1>4, Interrupted

LEMMA ChldArrivesInv == ASSUME Inv, ChldArrives PROVE Inv'
<1>1. /\ pc \notin Gone /\ pc' = pc /\ UNCHANGED <<cur, todo, i, n, forks>> /\ child' = child
      /\ sig' = sig /\ procs' = procs /\ wanted' = wanted /\ pos' = pos
    BY DEF ChldArrives, job, search
<1>2. Children
    BY <1>1, ChildrenStay DEF Inv, Types
<1>3. Loses /\ Searching' /\ sig' \in Handler
    BY <1>1, <1>2, LosesNothing, SearchStays DEF Inv, Types, Searching
<1> QED  BY <1>1, <1>2, <1>3, Interrupted

LEMMA ReapInv == ASSUME Inv, wait_for_all_background_child_processes PROVE Inv'
<1>1. /\ pc \notin Gone /\ pc' = pc /\ UNCHANGED <<cur, todo, i, n, forks>>
      /\ sig' = sig /\ procs' = procs
    BY DEF wait_for_all_background_child_processes, Runs, job
<1>2. Loses /\ sig' \in Handler
    BY <1>1, LosesNothing DEF Inv, Types
<1>3. CASE UNCHANGED <<child, search>>
    <2>1. Children
        BY <1>3, ChildrenStay DEF Inv, Types
    <2>2. Searching'
        BY <1>3, <2>1, SearchStays DEF Inv, Searching, search
    <2> QED  BY <1>1, <1>2, <2>1, <2>2, Interrupted
<1>4. ASSUME NEW z \in Pids, child' = [child EXCEPT ![z] = Fresh("reaped", FALSE)],
             Seek("chld", z)
      PROVE  Inv'
    <2>1. Children /\ Doomed(z)'
        BY <1>4, ReapOneCalm DEF Inv, Doomed, Live
    <2>2. Searching'
        BY <1>4, <2>1, Seeks DEF Frames
    <2> QED  BY <1>1, <1>2, <2>1, <2>2, Interrupted
<1> QED  BY <1>3, <1>4 DEF wait_for_all_background_child_processes, Zombies

LEMMA DeleteReapedInv == ASSUME Inv, delete_reaped PROVE Inv'
<1>1. /\ pc \notin Gone /\ pc' = pc /\ UNCHANGED <<cur, todo, i, n, forks>>
      /\ sig' = sig /\ child' = child /\ delete_process("chld")
    BY DEF delete_reaped, Runs, job, kernel
<1>2. Children
    BY <1>1, ChildrenStay DEF Inv, Types
<1>3. Loses /\ Searching'
    BY <1>1, <1>2, Removed DEF Frames
<1>4. sig' \in Handler
    BY <1>1 DEF Inv, Types
<1> QED  BY <1>1, <1>2, <1>3, <1>4, Interrupted

LEMMA IntInv == ASSUME Inv, IntArrives PROVE Inv'
<1>1. /\ pc \notin Gone /\ pc' = pc /\ UNCHANGED <<cur, todo, i, n, forks>>
      /\ sig' = [i |-> 1, n |-> Len(procs)]
      /\ procs' = procs /\ child' = child /\ wanted' = wanted /\ pos' = pos
    BY DEF IntArrives, job, kernel, search
<1>2. Children
    BY <1>1, ChildrenStay DEF Inv, Types
<1>3. Loses /\ Searching'
    BY <1>1, <1>2, LosesNothing, SearchStays DEF Inv, Searching
<1>4. sig' \in Handler
    BY <1>1 DEF Inv, Types, Handler
<1> QED  BY <1>1, <1>2, <1>3, <1>4, Interrupted

LEMMA SigintInv == ASSUME Inv, handle_SIGINT PROVE Inv'
<1>0. /\ sig \in Handler /\ procs \in Seq(Pids)
      /\ child \in [Pids -> Child] /\ Len(procs) \in Nat
    BY DEF Inv, Types
<1>1. pc \notin Gone /\ UNCHANGED <<cur, todo, i, n, forks>> /\ procs' = procs
    BY DEF handle_SIGINT, Runs, job
<1>2. Loses
    BY <1>1, LosesNothing
<1>3. ASSUME UNCHANGED <<child, search>>, sig' \in Handler, pc' = pc \/ pc' = "crashed"
      PROVE  Inv'
    <2>1. Children
        BY <1>0, <1>3, ChildrenStay
    <2>2. Searching'
        BY <1>3, <2>1, SearchStays DEF Inv, Searching, search
    <2> QED  BY <1>1, <1>2, <1>3, <2>1, <2>2, Interrupted
<1>4. ASSUME NEW p \in Pids, Seek("int", p), child' = Killed(p), sig' = sig, pc' = pc
      PROVE  Inv'
    <2>1. Children /\ Doomed(p)'
        BY <1>4, KilledCalm DEF Inv
    <2>2. Searching'
        BY <1>4, <2>1, Seeks DEF Frames
    <2> QED  BY <1>0, <1>1, <1>2, <1>4, <2>1, <2>2, Interrupted
<1>5. ASSUME sig.i <= Len(procs), NEW p \in read_pid(procs[sig.i]), pc' = pc,
             IF p = 0 \/ own_group(p)
             THEN sig' = [sig EXCEPT !.i = @ + 1] /\ UNCHANGED <<child, search>>
             ELSE Seek("int", p) /\ child' = Killed(p) /\ sig' = sig
      PROVE  Inv'
    <2>1. procs[sig.i] \in Pids
        BY <1>0, <1>5 DEF Handler
    <2>2. p = 0 \/ p \in Pids
        BY <1>5, <2>1 DEF read_pid
    <2>3. CASE p = 0 \/ own_group(p)
        <3>1. sig' = [sig EXCEPT !.i = @ + 1] /\ UNCHANGED <<child, search>>
            BY <1>5, <2>3
        <3>2. sig' \in Handler
            BY <1>0, <3>1 DEF Handler
        <3> QED  BY <1>3, <1>5, <3>1, <3>2
    <2>4. CASE ~(p = 0 \/ own_group(p))
        <3>1. Seek("int", p) /\ child' = Killed(p) /\ sig' = sig
            BY <1>5, <2>4
        <3> QED  BY <1>4, <1>5, <2>2, <2>4, <3>1
    <2> QED  BY <2>3, <2>4
<1>6. CASE UNCHANGED <<pc, child, sig, search>> \/ (pc' = "crashed" /\ UNCHANGED <<child, sig, search>>)
    BY <1>0, <1>3, <1>6
<1> QED  BY <1>5, <1>6 DEF handle_SIGINT

LEMMA SigintRemoveInv == ASSUME Inv, handle_SIGINT_remove PROVE Inv'
<1>1. /\ pc \notin Gone /\ UNCHANGED <<pc, cur, todo, i, n, forks>> /\ child' = child
      /\ sig' = [sig EXCEPT !.i = @ + 1] /\ remove_process("int")
    BY DEF handle_SIGINT_remove, Runs, job, kernel
<1>2. Children
    BY <1>1, ChildrenStay DEF Inv, Types
<1>3. Loses /\ Searching'
    BY <1>1, <1>2, Removed DEF Frames
<1>4. sig' \in Handler
    BY <1>1 DEF Inv, Types, Handler
<1> QED  BY <1>1, <1>2, <1>3, <1>4, Interrupted

-----------------------------------------------------------------------------
(* The steps of the main thread.                                             *)

\* One that neither forks nor stands right after a fork.  It gives up a child it was busy
\* with only when that child is in the background or no more.
LEMMA Goes ==
    ASSUME Inv, Children, Loses, Searching',
           pc \notin Gone \union {"push"}, pc' \in Labels \ {"push", "setpgid"},
           sig' = sig, forks' = forks, i' \in Nat, n' \in Nat,
           pc' = "wait" => pc = "setpgid" /\ cur' = cur,
           pc \in {"setpgid", "wait"} =>
               pc' \in Gone \union {"wait"} \/ \A p \in Pids : p = cur /\ Live(p)' => child'[p].bg,
           Walk'
    PROVE  Inv'
<1>0. PICK Z : Shrinks(procs', procs, Z) /\ \A p \in Pids \intersect Z : Doomed(p)'
    BY DEF Loses
<1>1. Types'
    BY <1>0 DEF Inv, Types, Children, Shrinks
<1>2. ChildrenTracked'
    BY <1>0, Tracks
<1>3. Marked'
    BY DEF Inv, Marked
<1>4. Busy'
    <2>1. ASSUME NEW p \in Pids, Live(p)', ~child'[p].bg
          PROVE  pc' \in Gone \/ (p = cur' /\ pc' \in {"push", "setpgid", "wait"})
        <3>1. Live(p) /\ ~child[p].bg
            BY <2>1 DEF Children, Calm
        <3>2. p = cur /\ pc \in {"setpgid", "wait"}
            BY <3>1 DEF Inv, Busy
        <3> QED  BY <2>1, <3>2
    <2> QED  BY <2>1 DEF Busy
<1> QED  BY <1>1, <1>2, <1>3, <1>4 DEF Inv

\* What most steps have in common: the table and the searches stay.
LEMMA StaysPut ==
    ASSUME Inv, Children, procs' = procs, signal' = signal,
           pc \notin Gone \union {"push"}, pc' \in Labels \ {"push", "setpgid"},
           forks' = forks, i' \in Nat, n' \in Nat,
           pc' = "wait" => pc = "setpgid" /\ cur' = cur,
           pc \in {"setpgid", "wait"} =>
               pc' \in Gone \union {"wait"} \/ \A p \in Pids : p = cur /\ Live(p)' => child'[p].bg,
           Walk'
    PROVE  Inv'
<1>1. Loses
    BY LosesNothing
<1>2. wanted' = wanted /\ pos' = pos /\ sig' = sig
    BY DEF signal, search
<1>3. Searching'
    BY <1>2, SearchStays DEF Inv, Searching
<1> QED  BY <1>1, <1>2, <1>3, Goes

LEMMA RunLineInv == ASSUME Inv, NEW l, run_line(l) PROVE Inv'
<1>1. /\ pc = "read" /\ pc' = "exec" /\ procs' = procs /\ signal' = signal /\ forks' = forks
      /\ i' = i /\ n' = n /\ child' = child
    BY DEF run_line, NextLine, At, kernel
<1>2. Children
    BY <1>1, ChildrenStay DEF Inv, Types
<1> QED  BY <1>1, <1>2, StaysPut DEF Inv, Types, Labels, Gone, Walk

LEMMA ReplayInv == ASSUME Inv, NEW l, replay(l) PROVE Inv'
<1>1. /\ pc = "read" /\ pc' = "exec" /\ procs' = procs /\ signal' = signal /\ forks' = forks
      /\ i' = i /\ n' = n /\ child' = child
    BY DEF replay, NextLine, At, kernel
<1>2. Children
    BY <1>1, ChildrenStay DEF Inv, Types
<1> QED  BY <1>1, <1>2, StaysPut DEF Inv, Types, Labels, Gone, Walk

LEMMA NoEffectInv == ASSUME Inv, no_effect PROVE Inv'
<1>1. /\ pc = "read" /\ pc' = "read" /\ procs' = procs /\ signal' = signal /\ forks' = forks
      /\ i' = i /\ n' = n /\ child' = child
    BY DEF no_effect, NextLine, At, kernel
<1>2. Children
    BY <1>1, ChildrenStay DEF Inv, Types
<1> QED  BY <1>1, <1>2, StaysPut DEF Inv, Types, Labels, Gone, Walk

LEMMA StartPsInv == ASSUME Inv, start_ps PROVE Inv'
<1>1. /\ pc = "read" /\ pc' = "ps" /\ procs' = procs /\ signal' = signal /\ forks' = forks
      /\ i' = 1 /\ n' = Len(procs) /\ child' = child
    BY DEF start_ps, NextLine, At, kernel
<1>2. Children
    BY <1>1, ChildrenStay DEF Inv, Types
<1>3. n' \in Nat
    BY <1>1 DEF Inv, Types
<1> QED  BY <1>1, <1>2, <1>3, StaysPut DEF Labels, Gone, Walk

LEMMA PsInv == ASSUME Inv, execute_ps PROVE Inv'
<1>1. /\ pc = "ps" /\ pc' \in {"read", "crashed", "exit1", "ps"}
      /\ procs' = procs /\ signal' = signal /\ forks' = forks
      /\ i' \in {i, i + 1} /\ n' = n /\ child' = child
    BY DEF execute_ps, At, kernel
<1>2. Children
    BY <1>1, ChildrenStay DEF Inv, Types
<1>3. i' \in Nat /\ n' \in Nat
    BY <1>1 DEF Inv, Types
<1> QED  BY <1>1, <1>2, <1>3, StaysPut DEF Labels, Gone, Walk

LEMMA KillInv == ASSUME Inv, NEW p \in Pids, kill_cmd(p) PROVE Inv'
<1>1. /\ pc = "read" /\ pc' = "killrm" /\ procs' = procs /\ sig' = sig /\ forks' = forks
      /\ i' = i /\ n' = n /\ child' = Killed(p) /\ Seek("main", p)
    BY DEF kill_cmd, NextLine, At
<1>2. Children /\ Doomed(p)'
    BY <1>1, KilledCalm DEF Inv
<1>3. Loses /\ Searching'
    BY <1>1, <1>2, LosesNothing, Seeks DEF Frames
<1> QED  BY <1>1, <1>2, <1>3, Goes DEF Inv, Types, Labels, Gone, Walk

LEMMA StopInv == ASSUME Inv, NEW p \in Pids, stop_cmd(p) PROVE Inv'
<1>1. /\ pc = "read" /\ pc' = "read" /\ procs' = procs /\ signal' = signal /\ forks' = forks
      /\ i' = i /\ n' = n
      /\ child' = IF Live(p) THEN [child EXCEPT ![p].stopped = TRUE] ELSE child
    BY DEF stop_cmd, NextLine, At
<1>2. Children
    <2>1. CASE Live(p)
        BY <1>1, <2>1, StopCalm DEF Inv
    <2>2. CASE ~Live(p)
        BY <1>1, <2>2, ChildrenStay DEF Inv, Types
    <2> QED  BY <2>1, <2>2
<1> QED  BY <1>1, <1>2, StaysPut DEF Inv, Types, Labels, Gone, Walk

LEMMA ContInv == ASSUME Inv, NEW p \in Pids, cont_cmd(p) PROVE Inv'
<1>1. /\ pc = "read" /\ pc' = "read" /\ procs' = procs /\ signal' = signal /\ forks' = forks
      /\ i' = i /\ n' = n /\ child' = [child EXCEPT ![p].stopped = FALSE]
    BY DEF cont_cmd, NextLine, At
<1>2. Children
    BY <1>1, StopCalm DEF Inv
<1> QED  BY <1>1, <1>2, StaysPut DEF Inv, Types, Labels, Gone, Walk

LEMMA KillRemoveInv == ASSUME Inv, kill_remove PROVE Inv'
<1>1. /\ pc = "killrm" /\ pc' = "read" /\ remove_process("main")
      /\ sig' = sig /\ forks' = forks /\ i' = i /\ n' = n /\ child' = child
    BY DEF kill_remove, At, kernel
<1>2. Children
    BY <1>1, ChildrenStay DEF Inv, Types
<1>3. Loses /\ Searching'
    BY <1>1, <1>2, Removed DEF Frames
<1> QED  BY <1>1, <1>2, <1>3, Goes DEF Inv, Types, Labels, Gone, Walk

LEMMA ExitInv == ASSUME Inv, exit_cmd PROVE Inv'
<1>1. /\ pc = "read" /\ pc' = "killall" /\ procs' = procs /\ signal' = signal /\ forks' = forks
      /\ i' = 1 /\ n' = Len(procs) /\ child' = child
    BY DEF exit_cmd, At, kernel
<1>2. Children
    BY <1>1, ChildrenStay DEF Inv, Types
<1>3. n' \in Nat /\ DOMAIN procs = 1 .. Len(procs)
    BY <1>1 DEF Inv, Types
<1>4. Walk'
    BY <1>1, <1>3 DEF Walk, Behind
<1> QED  BY <1>1, <1>2, <1>3, <1>4, StaysPut DEF Labels, Gone

LEMMA Returns ==
    ASSUME NEW r, Return(r) PROVE pc' \in {"read", "exec"}
BY DEF Return

LEMMA CdInv == ASSUME Inv, execute_cd PROVE Inv'
<1>1. /\ pc = "exec" /\ pc' \in {"read", "exec"} /\ procs' = procs /\ signal' = signal
      /\ forks' = forks /\ i' = i /\ n' = n /\ child' = child
    BY Returns DEF execute_cd, At, kernel
<1>2. Children
    BY <1>1, ChildrenStay DEF Inv, Types
<1> QED  BY <1>1, <1>2, StaysPut DEF Inv, Types, Labels, Gone, Walk

\* The new child is the one the main thread is busy with.
LEMMA ForkInv == ASSUME Inv, Nested, execute_fork PROVE Inv'
<1>0. child \in [Pids -> Child] /\ procs \in Seq(Pids) /\ forks \in 0 .. MaxForks
    BY DEF Inv, Types
<1>1. /\ pc = "exec" /\ procs' = procs /\ signal' = signal /\ i' = i /\ n' = n /\ todo' = todo
    BY DEF execute_fork, At
<1>2. CASE pc' = "exit1" /\ UNCHANGED <<forks, child, cur>>
    <2>1. Children
        BY <1>0, <1>2, ChildrenStay
    <2> QED  BY <1>1, <1>2, <2>1, StaysPut DEF Inv, Types, Labels, Gone, Walk
<1>3. CASE /\ forks < MaxForks
           /\ forks' = forks + 1 /\ cur' = forks + 1
           /\ child' = [child EXCEPT ![forks + 1] = Fresh("new", Head(todo) = "Bg")]
           /\ pc' = "push"
    <2> PICK q : q = forks + 1
        OBVIOUS
    <2>0. q \in Pids /\ q = forks + 1 /\ q \in 0 .. MaxForks
        BY <1>0, <1>3, ShellAssumption DEF Pids
    <2> PICK b \in BOOLEAN : b = (Head(todo) = "Bg")
        OBVIOUS
    <2>1. Fresh("new", b) \in Child /\ Fresh("new", b).bg = b
        BY DEF Fresh, Child
    <2>2. /\ child' \in [Pids -> Child] /\ \A p \in Pids : p # q => child'[p] = child[p]
          /\ Head(todo) = "Bg" => child'[q].bg
        BY <1>0, <1>3, <2>0, <2>1
    <2>3. Types'
        BY <1>1, <1>3, <2>0, <2>2 DEF Inv, Types, Labels, signal
    <2>4. ChildrenTracked'
        <3> SUFFICES ASSUME NEW p \in Pids, Live(p)', ~child'[p].killed, p # q
                     PROVE  p \in Range(procs')
            BY <1>3, <2>0, Zenon DEF ChildrenTracked
        <3>1. Live(p) /\ ~child[p].killed
            BY <2>2 DEF Live
        <3> QED  BY <1>1, <3>1 DEF Inv, ChildrenTracked, Gone
    <2>5. Marked' /\ Searching'
        <3>1. \A f \in Frames : wanted[f] = 0
            BY <1>1 DEF execute_fork, At, Nested, Frames, Gone
        <3>2. wanted' = wanted /\ pos' = pos
            BY <1>1 DEF signal, search
        <3>3. Searching'
            BY <3>1, <3>2 DEF Inv, Searching
        <3> QED  BY <1>3, <2>0, <3>3 DEF Marked
    <2>6. Busy'
        <3>1. ASSUME NEW p \in Pids, Live(p)', ~child'[p].bg PROVE p = cur'
            <4> SUFFICES ASSUME p # q PROVE FALSE
                BY <1>3, <2>0
            <4>1. Live(p) /\ ~child[p].bg
                BY <2>2, <3>1 DEF Live
            <4> QED  BY <1>1, <4>1 DEF Inv, Busy, Gone
        <3>2. Head(todo') = "Bg" => child'[cur'].bg
            BY <1>1, <1>3, <2>0, <2>2
        <3> QED  BY <1>3, <3>1, <3>2 DEF Busy
    <2>7. Walk'
        BY <1>3 DEF Walk
    <2> QED  BY <2>3, <2>4, <2>5, <2>6, <2>7 DEF Inv
<1> QED  BY <1>2, <1>3 DEF execute_fork

LEMMA PushInv == ASSUME Inv, push_process PROVE Inv'
<1>0. child \in [Pids -> Child] /\ procs \in Seq(Pids) /\ cur \in Pids
    BY DEF Inv, Types, Marked, push_process, At
<1>1. /\ pc = "push" /\ pc' = "setpgid" /\ procs' = Append(procs, cur) /\ signal' = signal
      /\ UNCHANGED <<i, n, todo, cur, forks, child>>
    BY DEF push_process, At, job, kernel
<1>2. procs' \in Seq(Pids) /\ Range(procs) \union {cur} \subseteq Range(procs')
    <2>1. /\ procs' \in Seq(Pids) /\ Len(procs') = Len(procs) + 1 /\ Len(procs) \in Nat
          /\ DOMAIN procs = 1 .. Len(procs) /\ DOMAIN procs' = 1 .. Len(procs) + 1
          /\ procs'[Len(procs) + 1] = cur
          /\ \A j \in 1 .. Len(procs) : procs'[j] = procs[j]
        BY <1>0, <1>1
    <2> QED  BY <2>1 DEF Range
<1>3. Types'
    BY <1>1, <1>2 DEF Inv, Types, Labels, signal
<1>4. ChildrenTracked'
    <2> SUFFICES ASSUME NEW p \in Pids, Live(p)', ~child'[p].killed
                 PROVE  p \in Range(procs')
        BY Zenon DEF ChildrenTracked
    <2>1. Live(p) /\ ~child[p].killed
        BY <1>1 DEF Live
    <2> QED  BY <1>1, <1>2, <2>1 DEF Inv, ChildrenTracked, Gone
<1>5. Marked' /\ Searching'
    <2>1. Children
        BY <1>0, <1>1, ChildrenStay
    <2>2. Searching'
        BY <1>1, <2>1, SearchStays DEF Inv, Searching, signal, search
    <2> QED  BY <1>0, <1>1, <2>2 DEF Marked
<1>6. Busy'
    BY <1>0, <1>1 DEF Inv, Busy, Live, Gone
<1>7. Walk'
    BY <1>1 DEF Walk
<1> QED  BY <1>3, <1>4, <1>5, <1>6, <1>7 DEF Inv

LEMMA GroupInv == ASSUME Inv, set_group PROVE Inv'
<1>0. child \in [Pids -> Child] /\ cur \in Pids
    BY DEF Inv, Types, Marked, set_group, At
<1>1. /\ pc = "setpgid" /\ procs' = procs /\ signal' = signal /\ forks' = forks
      /\ i' = i /\ n' = n
    BY DEF set_group, At
<1>2. CASE pc' \in {"exit1", "wait"} /\ UNCHANGED <<job, child>>
    <2>1. Children /\ cur' = cur
        BY <1>0, <1>2, ChildrenStay DEF job
    <2> QED  BY <1>1, <1>2, <2>1, StaysPut DEF Inv, Types, Labels, Gone, Walk
<1>3. CASE /\ Head(todo) = "Bg" /\ Return(0)
           /\ child' = [child EXCEPT ![cur].grp = TRUE]
    <2> PICK q : q = cur
        OBVIOUS
    <2>1. Children
        BY <1>0, <1>3, GroupCalm DEF Inv
    <2>2. pc' \in {"read", "exec"}
        BY <1>3, Returns
    <2>3. \A p \in Pids : p = cur /\ Live(p)' => child'[p].bg
        BY <1>1, <1>3, <2>1 DEF Inv, Busy, Children, Calm
    <2> QED  BY <1>1, <2>1, <2>2, <2>3, StaysPut DEF Inv, Types, Labels, Gone, Walk
<1> QED  BY <1>2, <1>3 DEF set_group

LEMMA WaitInv == ASSUME Inv, wait_foreground PROVE Inv'
<1>0. child \in [Pids -> Child] /\ cur \in Pids
    BY DEF Inv, Types, Marked, wait_foreground, At
<1>1. /\ pc = "wait" /\ procs' = procs /\ sig' = sig /\ UNCHANGED <<frames, ints>>
      /\ forks' = forks /\ i' = i /\ n' = n /\ cur' = cur
    BY DEF wait_foreground, At
<1>2. CASE pc' = "exit1" /\ UNCHANGED <<child, search>>
    <2>1. Children /\ signal' = signal
        BY <1>0, <1>1, <1>2, ChildrenStay DEF signal
    <2> QED  BY <1>1, <1>2, <2>1, StaysPut DEF Inv, Types, Labels, Gone, Walk
<1>3. CASE /\ pc' = "delete" /\ child' = [child EXCEPT ![cur] = Fresh("reaped", FALSE)]
           /\ Seek("main", cur)
    <2> PICK q \in Pids : q = cur
        BY <1>0
    <2>1. Children /\ child'[q].st = "reaped"
        BY <1>3, ReapOneCalm DEF Inv
    <2>2. ~Live(q)' /\ Doomed(q)'
        BY <2>1 DEF Live, Doomed
    <2>3. Loses /\ Searching'
        BY <1>1, <1>3, <2>1, <2>2, LosesNothing, Seeks DEF Frames
    <2> QED  BY <1>1, <1>3, <2>1, <2>2, <2>3, Goes DEF Inv, Types, Labels, Gone, Walk
<1> QED  BY <1>2, <1>3 DEF wait_foreground

LEMMA DeleteInv == ASSUME Inv, delete_foreground PROVE Inv'
<1>1. /\ pc = "delete" /\ sig' = sig /\ forks' = forks /\ delete_process("main")
      /\ i' = i /\ n' = n /\ child' = child /\ pc' \in {"read", "exec"}
    BY Returns DEF delete_foreground, At, kernel
<1>2. Children
    BY <1>1, ChildrenStay DEF Inv, Types
<1>3. Loses /\ Searching'
    BY <1>1, <1>2, Removed DEF Frames
<1> QED  BY <1>1, <1>2, <1>3, Goes DEF Inv, Types, Labels, Gone, Walk

LEMMA KillChildInv == ASSUME Inv, kill_child PROVE Inv'
<1>0. /\ child \in [Pids -> Child] /\ procs \in Seq(Pids) /\ i \in Nat /\ n \in Nat
      /\ Len(procs) \in Nat /\ DOMAIN procs = 1 .. Len(procs)
    BY DEF Inv, Types
<1>1. /\ pc = "killall" /\ signal' = signal /\ forks' = forks
      /\ i' = i /\ n' = n /\ procs' = procs
    BY DEF kill_child, At
<1>2. AllDoomed \/ Behind(i) \/ (Len(procs) < n /\ i <= n)
    BY <1>1 DEF Inv, Walk
<1>3. CASE i > n /\ pc' = "save" /\ UNCHANGED <<child, cur>>
    <2>1. Children
        BY <1>0, <1>3, ChildrenStay
    <2>2. AllDoomed
        BY <1>0, <1>1, <1>2, <1>3, PassedAll DEF Gone
    <2>3. Walk'
        BY <1>3, <2>1, <2>2, DoomLasts DEF Walk
    <2> QED  BY <1>0, <1>1, <1>3, <2>1, <2>3, StaysPut DEF Labels, Gone
<1>4. CASE pc' = "crashed" /\ UNCHANGED <<child, cur>>
    <2>1. Children
        BY <1>0, <1>4, ChildrenStay
    <2> QED  BY <1>0, <1>1, <1>4, <2>1, StaysPut DEF Labels, Gone, Walk
<1>5. CASE /\ i <= n /\ i <= Len(procs)
           /\ cur' = procs[i] /\ child' = Killed(procs[i]) /\ pc' = "free"
    <2> PICK q \in Pids : q = procs[i]
        BY <1>0, <1>1, <1>5 DEF Inv, Walk
    <2>1. Children /\ Doomed(q)'
        BY <1>5, KilledCalm DEF Inv
    <2>2. Walk'
        <3>0. i' > 0
            BY <1>1 DEF Inv, Walk
        <3>1. CASE AllDoomed
            BY <1>5, <2>1, <3>0, <3>1, DoomLasts DEF Walk
        <3>2. CASE Behind(i)
            <4>1. ASSUME NEW j \in DOMAIN procs, j < i + 1 PROVE Doomed(procs[j])'
                <5>1. CASE j = i
                    BY <1>1, <2>1, <5>1 DEF Doomed, Live
                <5>2. CASE j # i
                    <6>1. Doomed(procs[j]) /\ procs[j] \in Pids
                        BY <1>0, <3>2, <4>1, <5>2 DEF Behind
                    <6>2. PICK p \in Pids : p = procs[j]
                        BY <6>1
                    <6>3. Doomed(p)'
                        BY <2>1, <6>1, <6>2, DoomLasts
                    <6> QED  BY <1>1, <6>2, <6>3 DEF Doomed, Live
                <5> QED  BY <5>1, <5>2
            <4>2. Behind(i + 1)'
                BY <1>1, <3>2, <4>1 DEF Behind
            <4> QED  BY <1>5, <3>0, <4>2 DEF Walk
        <3>3. CASE Len(procs) < n /\ i <= n
            BY <1>0, <1>1, <1>5, <3>0, <3>3 DEF Walk
        <3> QED  BY <1>2, <3>1, <3>2, <3>3
    <2> QED  BY <1>0, <1>1, <1>5, <2>1, <2>2, StaysPut DEF Labels, Gone
<1> QED  BY <1>3, <1>4, <1>5 DEF kill_child

LEMMA FreeChildInv == ASSUME Inv, free_child PROVE Inv'
<1>0. child \in [Pids -> Child] /\ i \in Nat /\ n \in Nat /\ Len(procs) \in Nat
    BY DEF Inv, Types
<1>1. /\ pc = "free" /\ signal' = signal /\ forks' = forks /\ n' = n /\ procs' = procs
      /\ child' = child
      /\ \/ pc' = "killall" /\ i' = i + 1
         \/ pc' = "crashed" /\ i' = i
    BY DEF free_child, At, kernel
<1>2. Children
    BY <1>0, <1>1, ChildrenStay
<1>3. Walk'
    <2>1. CASE pc' = "killall" /\ i' = i + 1
        <3>1. i' > 0 /\ (AllDoomed \/ Behind(i + 1) \/ (Len(procs) < n /\ i < n))
            BY <1>0, <1>1, <2>1 DEF Inv, Walk
        <3>2. CASE AllDoomed
            BY <1>2, <2>1, <3>1, <3>2, DoomLasts DEF Walk
        <3>3. CASE Behind(i + 1)
            <4>1. Behind(i)'
                BY <1>1, <2>1, <3>3 DEF Behind, Doomed, Live
            <4> QED  BY <2>1, <3>1, <4>1 DEF Walk
        <3>4. CASE Len(procs) < n /\ i < n
            BY <1>0, <1>1, <2>1, <3>1, <3>4 DEF Walk
        <3> QED  BY <3>1, <3>2, <3>3, <3>4
    <2>2. CASE pc' = "crashed"
        BY <2>2 DEF Walk
    <2> QED  BY <1>1, <2>1, <2>2
<1>4. i' \in Nat
    BY <1>0, <1>1
<1> QED  BY <1>0, <1>1, <1>2, <1>3, <1>4, StaysPut DEF Labels, Gone

LEMMA SaveInv == ASSUME Inv, save_history PROVE Inv'
<1>0. child \in [Pids -> Child] /\ i \in Nat /\ n \in Nat
    BY DEF Inv, Types
<1>1. /\ pc = "save" /\ pc' = "ended" /\ signal' = signal /\ forks' = forks /\ n' = n
      /\ procs' = procs /\ child' = child /\ i' = i
    BY DEF save_history, At, kernel
<1>2. Children
    BY <1>0, <1>1, ChildrenStay
<1>3. Walk'
    BY <1>1, <1>2, DoomLasts DEF Inv, Walk
<1> QED  BY <1>0, <1>1, <1>2, <1>3, StaysPut DEF Labels, Gone

-----------------------------------------------------------------------------
(* The specification.                                                        *)

LEMMA NestedStays ==
    ASSUME Nested, signal' = signal,
           pc' = pc \/ pc' \in Gone \/ pc \notin {"killrm", "delete"} \union Gone
    PROVE  Nested'
BY DEF Nested, signal, frames, search

\* A search begins, ends or goes on in code that runs.
LEMMA NestedSearch ==
    ASSUME Inv, Nested, NEW f \in Frames, NEW v, frame = f, frame' = frame, below' = below,
           wanted' = [wanted EXCEPT ![f] = v],
           f = "main" => v = 0 \/ pc' \in {"killrm", "delete"},
           f # "main" => pc' = pc
    PROVE  Nested'
<1>1. wanted'[f] = v /\ \A g \in Frames : g # f => wanted'[g] = wanted[g]
    BY DEF Inv, Searching
<1> QED  BY <1>1 DEF Nested, Frames

LEMMA TablesNest == ASSUME Nested, NEW f \in Frames, Tables(f) PROVE Nested'
<1>1. /\ frame' = frame /\ below' = below /\ wanted' = wanted
      /\ pc' = pc \/ pc' \in Gone
    BY DEF Tables, look, delete_nothing, stale_erase, signal, frames, search, Gone
<1> QED  BY <1>1 DEF Nested

\* A handler is entered, or its loop is over.
LEMMA EnterNests ==
    ASSUME Nested, NEW f \in {"int", "chld"}, ~Blocked(f), Enter(f), wanted' = wanted, pc' = pc
    PROVE  Nested'
BY DEF Nested, Blocked, Enter, Frames

LEMMA LeaveNests ==
    ASSUME Nested, frame # "main", wanted[frame] = 0, Leave, wanted' = wanted, pc' = pc
    PROVE  Nested'
BY DEF Nested, Leave, Frames

LEMMA ChldNests == ASSUME Inv, Nested, ChldHandler PROVE Nested'
<1>1. CASE ChldArrives
    BY <1>1, EnterNests DEF ChldArrives, search
<1>2. CASE wait_for_all_background_child_processes
    <2>1. frame = "chld" /\ wanted["chld"] = 0 /\ pc' = pc
        BY <1>2 DEF wait_for_all_background_child_processes, Runs
    <2>2. CASE Leave /\ UNCHANGED search
        BY <2>1, <2>2, LeaveNests DEF search
    <2>3. CASE UNCHANGED frames /\ \E z \in Zombies : Seek("chld", z)
        BY <2>1, <2>3, NestedSearch DEF frames, Seek, Frames
    <2> QED  BY <1>2, <2>2, <2>3 DEF wait_for_all_background_child_processes
<1>3. CASE delete_reaped
    BY <1>3, NestedSearch
       DEF delete_reaped, Runs, delete_process, Forget, waits_again, frames, Frames
<1> QED  BY <1>1, <1>2, <1>3, TablesNest DEF ChldHandler, Frames

LEMMA IntNests == ASSUME Inv, Nested, IntHandler PROVE Nested'
<1>1. CASE handle_SIGINT
    <2>1. frame = "int" /\ wanted["int"] = 0 /\ pc \notin Gone
        BY <1>1 DEF handle_SIGINT, Runs
    <2>2. CASE Leave /\ UNCHANGED <<pc, search>>
        BY <2>1, <2>2, LeaveNests DEF search
    <2>3. CASE UNCHANGED <<frames, search>> /\ (pc' = pc \/ pc' = "crashed")
        BY <2>3 DEF Nested, frames, search, Gone
    <2>4. CASE UNCHANGED <<pc, frames>> /\ \E p : Seek("int", p)
        BY <2>1, <2>4, NestedSearch DEF frames, Seek, Frames
    <2>5. CASE /\ \E p \in read_pid(procs[sig.i]) :
                    IF p = 0 \/ own_group(p)
                    THEN sig' = [sig EXCEPT !.i = @ + 1] /\ UNCHANGED <<child, search>>
                    ELSE Seek("int", p) /\ child' = Killed(p) /\ sig' = sig
               /\ UNCHANGED <<pc, frames>>
        BY <2>3, <2>4, <2>5
    <2> QED  BY <1>1, <2>2, <2>3, <2>5 DEF handle_SIGINT
<1>2. CASE handle_SIGINT_remove
    BY <1>2, NestedSearch
       DEF handle_SIGINT_remove, Runs, remove_process, Forget, frames, Frames
<1> QED  BY <1>1, <1>2, TablesNest DEF IntHandler, Frames

LEMMA TypedNests == ASSUME Inv, Nested, Typed PROVE Nested'
<1>1. ASSUME NEW l, run_line(l) \/ replay(l) PROVE Nested'
    BY <1>1, NestedStays DEF run_line, replay, NextLine, At, Gone
<1>2. ASSUME NEW p, stop_cmd(p) \/ cont_cmd(p) PROVE Nested'
    BY <1>2, NestedStays DEF stop_cmd, cont_cmd, NextLine, At, Gone
<1>3. ASSUME NEW p, kill_cmd(p) PROVE Nested'
    BY <1>3, NestedSearch DEF kill_cmd, NextLine, At, Seek, frames, Frames
<1>4. CASE no_effect \/ start_ps \/ exit_cmd
    BY <1>4, NestedStays DEF no_effect, start_ps, exit_cmd, NextLine, At, Gone
<1> QED  BY <1>1, <1>2, <1>3, <1>4 DEF Typed

LEMMA WorkNests == ASSUME Inv, Nested, Work PROVE Nested'
<1>1. CASE execute_ps \/ execute_cd \/ execute_fork \/ push_process
    BY <1>1, NestedStays DEF execute_ps, execute_cd, execute_fork, push_process, At, Gone
<1>2. CASE set_group \/ kill_child \/ free_child \/ save_history
    BY <1>2, NestedStays DEF set_group, kill_child, free_child, save_history, At, Gone
<1>3. CASE kill_remove
    BY <1>3, NestedSearch DEF kill_remove, At, remove_process, Forget, frames, Frames
<1>4. CASE delete_foreground
    BY <1>4, NestedSearch DEF delete_foreground, At, delete_process, Forget, frames, Frames
<1>5. CASE wait_foreground
    <2>1. pc = "wait" /\ frame = "main" /\ UNCHANGED <<frames, sig, ints>>
        BY <1>5 DEF wait_foreground, At
    <2>2. CASE pc' = "delete" /\ Seek("main", cur)
        BY <2>1, <2>2, NestedSearch DEF Seek, frames, Frames
    <2>3. CASE UNCHANGED search
        BY <2>1, <2>3, NestedStays DEF signal, Gone
    <2> QED  BY <1>5, <2>2, <2>3 DEF wait_foreground
<1> QED  BY <1>1, <1>2, <1>3, <1>4, <1>5, TablesNest DEF Work, Frames

LEMMA SystemNests ==
    ASSUME Inv, Nested, (\E p \in Pids : Exec(p) \/ Die(p)) \/ IntArrives PROVE Nested'
<1>1. CASE \E p \in Pids : Exec(p) \/ Die(p)
    BY <1>1, NestedStays DEF Exec, Die
<1>2. CASE IntArrives
    BY <1>2, EnterNests DEF IntArrives, search
<1> QED  BY <1>1, <1>2

LEMMA Starts == Init => Inv /\ Nested
<1> SUFFICES ASSUME Init PROVE Inv /\ Nested
    OBVIOUS
<1>1. child = [p \in Pids |-> Fresh("none", FALSE)] /\ Fresh("none", FALSE) \in Child
    BY DEF Init, Fresh, Child
<1>2. \A p \in Pids : child[p] = Fresh("none", FALSE) /\ ~Live(p)
    BY <1>1 DEF Live, Fresh
<1>3. sig \in Handler
    BY DEF Init, Handler
<1>4. Searching
    BY DEF Init, Searching
<1>5. Types
    <2>1. child \in [Pids -> Child]
        BY <1>1
    <2>2. <<>> \in Seq(Pids) /\ 0 \in 0 .. MaxForks
        BY ShellAssumption
    <2> QED  BY <1>3, <2>1, <2>2 DEF Init, Types, Labels
<1>6. ChildrenTracked
    BY <1>2 DEF ChildrenTracked
<1>7. Marked /\ Busy /\ Walk
    BY <1>2 DEF Init, Marked, Busy, Walk
<1>8. Nested
    BY DEF Init, Nested, Frames
<1> QED  BY <1>4, <1>5, <1>6, <1>7, <1>8 DEF Inv

LEMMA TypedInv == ASSUME Inv, Typed PROVE Inv'
<1>1. ASSUME NEW l, run_line(l) PROVE Inv'
    BY <1>1, RunLineInv
<1>2. ASSUME NEW l, replay(l) PROVE Inv'
    BY <1>2, ReplayInv
<1>3. ASSUME NEW p \in Pids, kill_cmd(p) \/ stop_cmd(p) \/ cont_cmd(p) PROVE Inv'
    BY <1>3, KillInv, StopInv, ContInv
<1> QED  BY <1>1, <1>2, <1>3, NoEffectInv, StartPsInv, ExitInv DEF Typed

LEMMA WorkInv == ASSUME Inv, Nested, Work PROVE Inv'
<1>1. CASE Tables("main")
    BY <1>1, TablesInv DEF Frames
<1> QED  BY <1>1, PsInv, KillRemoveInv, CdInv, ForkInv, PushInv, GroupInv, WaitInv, DeleteInv,
            KillChildInv, FreeChildInv, SaveInv DEF Work

LEMMA Idles == ASSUME Inv, Nested, UNCHANGED vars PROVE Inv' /\ Nested'
<1>1. Nested'
    BY DEF vars, signal, frames, search, Nested
<1>2. Inv'
    BY DEF Inv, vars, job, input, kernel, signal, search, Types, ChildrenTracked, Searching,
           Marked, Busy, Walk, Behind, AllDoomed, Doomed, Live
<1> QED  BY <1>1, <1>2

LEMMA Implied == Inv => ChildrenKept
<1> SUFFICES ASSUME Inv PROVE ChildrenKept
    OBVIOUS
<1>1. ForegroundAlone
    BY DEF Inv, Busy, Gone, ForegroundAlone
<1>2. EndsClean
    BY DEF Inv, Walk, AllDoomed, Doomed, EndsClean
<1> QED  BY <1>1, <1>2 DEF Inv, ChildrenKept

\* However many children the shell forks and wherever SIGCHLD and SIGINT interrupt its
\* reading, its commands, the search of remove_process and delete_process between the match
\* and the erase, each other's handlers and the walk of killAllChildProcesses (shell.c:42,
\* 141-225, 434, 847): until vector_erase takes out another process than the one that was
\* found, or the shell ends, a child that lives is in the table unless it was sent SIGKILL and
\* no foreground command outlives its turn; and an orderly end leaves no child behind that was
\* not killed.
THEOREM ChildrenStayKept == PrSpec => []ChildrenKept
<1>1. PrInit => Inv /\ Nested
    BY Starts DEF PrInit
<1>2. Inv /\ Nested /\ [PrNext]_allvars => Inv' /\ Nested'
    <2> SUFFICES ASSUME Inv, Nested, [PrNext]_allvars PROVE Inv' /\ Nested'
        OBVIOUS
    <2>1. CASE ShellChldHandler
        <3>1. Inv'
            BY <2>1, ChldArrivesInv, ReapInv, DeleteReapedInv, TablesInv
               DEF ShellChldHandler, ChldHandler, Frames
        <3> QED  BY <2>1, <3>1, ChldNests DEF ShellChldHandler
    <2>2. CASE ShellIntHandler
        <3>1. Inv'
            BY <2>2, SigintInv, SigintRemoveInv, TablesInv DEF ShellIntHandler, IntHandler, Frames
        <3> QED  BY <2>2, <3>1, IntNests DEF ShellIntHandler
    <2>3. CASE ShellWork
        BY <2>3, WorkInv, WorkNests DEF ShellWork
    <2>4. CASE (\E p \in Pids : Exec(p) \/ Die(p)) \/ IntArrives \/ Typed
        <3>1. Inv'
            BY <2>4, ExecInv, DieInv, IntInv, TypedInv
        <3> QED  BY <2>4, <3>1, SystemNests, TypedNests
    <2>5. CASE UNCHANGED vars
        BY <2>5, Idles
    <2>6. CASE MrMain \/ \E p \in Mr!Children : MrChild(p)
        BY <2>5, <2>6 DEF MrMain, MrChild, MrFrame
    <2>7. CASE RunParent \/ RunChild \/ RunTimer
        BY <2>5, <2>7 DEF RunParent, RunChild, RunTimer, RunFrame
    <2>8. CASE UNCHANGED allvars
        BY <2>5, <2>8 DEF allvars
    <2> QED  BY <2>1, <2>2, <2>3, <2>4, <2>5, <2>6, <2>7, <2>8 DEF PrNext
<1> QED  BY <1>1, <1>2, Implied, PTL DEF PrSpec


-----------------------------------------------------------------------------
(* A child between fork and exec.                                            *)

Untouched ==
    /\ stdio = [in |-> Terminal, out |-> Terminal]
    /\ written = [name |-> Terminal, mode |-> "none"]

\* What solve_redirection has done, if there was something to do.
Redirected ==
    IF Positions(Operators) = {} THEN Untouched
    ELSE /\ redirect_cmd = command[Max(Positions(Operators))]
         /\ stdio = IF redirect_cmd = "<" THEN [in |-> filename, out |-> Terminal]
                    ELSE [in |-> Terminal, out |-> filename]
         /\ written = IF redirect_cmd = "<" THEN [name |-> Terminal, mode |-> "none"]
                      ELSE [name |-> filename,
                            mode |-> IF redirect_cmd = ">" THEN "emptied" ELSE "kept"]

\* How far the child has come: nothing yet, the words counted, the file in place, the
\* arguments handed to exec.
ChildInv ==
    /\ command \in Commands
    /\ ch_pc \in {"split", "open", "exec", "program", "failed", "crashed"}
    /\ ch_pc \in {"split", "open"} => Untouched
    /\ ch_pc \in {"open", "exec", "program", "failed"} =>
            tokens_until_redirect_symbol = count_tokens
    /\ ch_pc = "open" => /\ Positions(Operators) # {}
                         /\ redirect_cmd = command[Max(Positions(Operators))]
    /\ ch_pc \in {"exec", "program", "failed"} => Redirected
    /\ ch_pc \in {"program", "failed"} => args = cmds_to_null

LEMMA ChildStarts == ShInit => ChildInv
BY DEF ShInit, ChildInv, Untouched

LEMMA ChildNextInv == ASSUME ChildInv, ShNext PROVE ChildInv'
<1> USE DEF Positions, count_tokens
<1>1. CASE split_command
    <2>1. command' = command /\ stdio' = stdio /\ written' = written /\ ch_pc = "split"
        BY <1>1 DEF split_command
    <2>2. /\ tokens_until_redirect_symbol' = count_tokens'
          /\ is_redirection' = (Positions(Operators)' # {})
          /\ ch_pc' = IF is_redirection' THEN "open" ELSE "exec"
          /\ Positions(Operators)' # {} => (redirect_cmd = command[Max(Positions(Operators))])'
        BY <1>1, <2>1 DEF split_command
    <2>3. Untouched'
        BY <2>1 DEF ChildInv, Untouched
    <2> QED  BY <2>1, <2>2, <2>3 DEF ChildInv, Redirected
<1>2. CASE solve_redirection
    <2>1. /\ ch_pc = "open"
          /\ UNCHANGED <<command, redirect_cmd, tokens_until_redirect_symbol>>
          /\ ch_pc' \in {"exec", "crashed"}
        BY <1>2 DEF solve_redirection
    <2>2. filename' = filename /\ Positions(Operators)' = Positions(Operators)
          /\ count_tokens' = count_tokens
        BY <2>1 DEF filename
    <2>3. ASSUME ch_pc' = "exec" PROVE Redirected'
        <3>1. /\ stdio' = IF redirect_cmd = "<" THEN [stdio EXCEPT !.in = filename]
                          ELSE [stdio EXCEPT !.out = filename]
              /\ written' = IF redirect_cmd = "<" THEN written
                            ELSE [name |-> filename,
                                  mode |-> IF redirect_cmd = ">" THEN "emptied" ELSE "kept"]
            BY <1>2, <2>3 DEF solve_redirection
        <3>2. /\ stdio = [in |-> Terminal, out |-> Terminal]
              /\ written = [name |-> Terminal, mode |-> "none"]
            BY <2>1 DEF ChildInv, Untouched
        <3>3. /\ Positions(Operators)' # {}
              /\ redirect_cmd' = command'[Max(Positions(Operators)')]
            BY <2>1, <2>2 DEF ChildInv
        <3> HIDE DEF Positions
        <3>4. stdio' = IF redirect_cmd = "<" THEN [in |-> filename, out |-> Terminal]
                       ELSE [in |-> Terminal, out |-> filename]
            BY <3>1, <3>2
        <3> QED  BY <2>1, <2>2, <3>1, <3>2, <3>3, <3>4 DEF Redirected
    <2> HIDE DEF Positions, count_tokens
    <2>4. tokens_until_redirect_symbol' = count_tokens'
        BY <2>1, <2>2 DEF ChildInv
    <2> QED  BY <2>1, <2>3, <2>4 DEF ChildInv
<1>3. CASE execvp
    <2>1. /\ ch_pc = "exec" /\ ch_pc' \in {"program", "failed"} /\ args' = cmds_to_null
          /\ UNCHANGED <<command, redirect_cmd, tokens_until_redirect_symbol, stdio, written>>
        BY <1>3 DEF execvp
    <2>2. cmds_to_null' = cmds_to_null
        BY <2>1 DEF cmds_to_null
    <2>3. Redirected' = Redirected /\ count_tokens' = count_tokens
        BY <2>1 DEF Redirected, Untouched, filename
    <2> QED  BY <2>1, <2>2, <2>3 DEF ChildInv
<1> QED  BY <1>1, <1>2, <1>3 DEF ShNext

\* Where the arguments end: in front of the first operator and of the &.
LEMMA ArgumentsEnd ==
    ASSUME ChildInv, ch_pc \in {"program", "failed"}
    PROVE  /\ command \in Seq(Words \cup Operators \cup {"&"}) /\ Len(command) \in Nat \ {0}
           /\ \E e \in 1 .. Len(command) :
                /\ args = SubSeq(command, 1, e)
                /\ \A j \in 1 .. e : command[j] \in Words
                /\ Positions(Operators) = {} =>
                       e = IF command[Len(command)] = "&" THEN Len(command) - 1 ELSE Len(command)
                /\ \A k \in 1 .. Len(command) :
                       (Positions(Operators) = {k} /\ command[Len(command)] # "&") => e = k - 1
<1>0. command \in Commands /\ args = cmds_to_null /\ tokens_until_redirect_symbol = count_tokens
    BY DEF ChildInv
<1>1. PICK L \in 1 .. MaxWords : command \in [1 .. L -> Words \cup Operators \cup {"&"}]
    BY <1>0 DEF Commands
<1>2. L \in Nat /\ 1 <= L
    BY WordsAssumption
<1>3. command \in Seq(Words \cup Operators \cup {"&"}) /\ Len(command) = L
      /\ DOMAIN command = 1 .. L
    BY <1>1, <1>2
<1>4. command[1] \in Words /\ \A k \in 1 .. L : command[k] = "&" => k = L
    BY <1>0, <1>3 DEF Commands
<1>5. PICK c : c = command
    OBVIOUS
<1>6. PICK t : t = count_tokens
    OBVIOUS
<1>7. PICK P : P = Positions(Operators)
    OBVIOUS
<1>8. P = {k \in 1 .. L : c[k] \in Operators} /\ P \in SUBSET Nat
    BY <1>2, <1>3, <1>5, <1>7 DEF Positions
<1>9. t = IF P = {} THEN L ELSE Min(P) - 1
    BY <1>3, <1>6, <1>7 DEF count_tokens
<1>10. c[1] \notin Operators /\ c[1] # "&"
    BY <1>4, <1>5, WordsAssumption
<1>11. /\ t \in 1 .. L
       /\ \A j \in 1 .. t : j \notin P
       /\ P = {} => t = L
       /\ \A k \in 1 .. L : P = {k} => t = k - 1
    <2>1. CASE P = {}
        BY <1>2, <1>9, <2>1
    <2>2. CASE P # {}
        <3>1. PICK f : f = Min(P)
            OBVIOUS
        <3>2. f \in P /\ \A y \in P : f <= y
            BY <1>8, <2>2, <3>1, Least
        <3>3. f \in 1 .. L /\ f # 1
            BY <1>8, <1>10, <3>2
        <3>4. t = f - 1
            BY <1>9, <2>2, <3>1
        <3> QED  BY <1>2, <2>2, <3>2, <3>3, <3>4
    <2> QED  BY <2>1, <2>2
<1>12. PICK N : N = {t + 1} \cup {k \in 1 .. L : k = L /\ c[k] = "&"}
    OBVIOUS
<1>13. args = SubSeq(c, 1, Min(N) - 1)
    BY <1>0, <1>3, <1>5, <1>6, <1>12 DEF cmds_to_null
<1>14. PICK m : m = Min(N)
    OBVIOUS
<1>15. m \in N /\ \A y \in N : m <= y
    BY <1>2, <1>11, <1>12, <1>14, Least
<1>16. PICK amp \in BOOLEAN : amp <=> c[L] = "&"
    OBVIOUS
<1>17. /\ N = {t + 1} \cup (IF amp THEN {L} ELSE {})
       /\ amp => L # 1
    BY <1>2, <1>10, <1>12, <1>16
<1>18. m - 1 = IF amp /\ t = L THEN L - 1 ELSE t
    BY <1>2, <1>11, <1>15, <1>17
<1>19. PICK e : e = m - 1
    OBVIOUS
<1>20. e \in 1 .. L /\ e <= t /\ (amp => e < L)
    BY <1>2, <1>11, <1>17, <1>18, <1>19
<1>21. args = SubSeq(command, 1, e)
    BY <1>5, <1>13, <1>14, <1>19
<1>22. \A j \in 1 .. e : command[j] \in Words
    <2> SUFFICES ASSUME NEW j \in 1 .. e PROVE command[j] \in Words
        OBVIOUS
    <2>1. j \in 1 .. t /\ j \in 1 .. L /\ (amp => j # L)
        BY <1>2, <1>11, <1>20
    <2>2. command[j] \notin Operators
        BY <1>5, <1>8, <1>11, <2>1
    <2>3. command[j] # "&"
        BY <1>4, <1>5, <1>16, <2>1
    <2>4. command[j] \in Words \cup Operators \cup {"&"}
        BY <1>1, <2>1
    <2> QED  BY <2>2, <2>3, <2>4
<1>23. P = {} => e = IF amp THEN L - 1 ELSE L
    BY <1>11, <1>18, <1>19
<1>24. \A k \in 1 .. L : P = {k} /\ ~amp => e = k - 1
    BY <1>11, <1>18, <1>19
<1>25. Len(command) \in Nat \ {0}
    BY <1>2, <1>3
<1>26. Positions(Operators) = {} =>
           e = IF command[Len(command)] = "&" THEN Len(command) - 1 ELSE Len(command)
    BY <1>3, <1>5, <1>7, <1>16, <1>23
<1>27. \A k \in 1 .. Len(command) :
           (Positions(Operators) = {k} /\ command[Len(command)] # "&") => e = k - 1
    BY <1>3, <1>5, <1>7, <1>16, <1>24
<1> QED  BY <1>3, <1>20, <1>21, <1>22, <1>25, <1>26, <1>27

\* One element cut out of a sequence.
LEMMA OneElement ==
    ASSUME NEW s, NEW k \in Int
    PROVE  SubSeq(s, k, k) = <<s[k]>>
<1>1. PICK q : q = SubSeq(s, k, k)
    OBVIOUS
<1>2. DOMAIN q = 1 .. 1 /\ q = [j \in 1 .. 1 |-> s[k]]
    BY <1>1
<1>3. q[1] = s[k] /\ q \in Seq({s[k]}) /\ Len(q) = 1
    BY <1>2
<1>4. PICK r : r = <<s[k]>>
    OBVIOUS
<1>5. r \in Seq({s[k]}) /\ Len(r) = 1 /\ r[1] = s[k]
    BY <1>4
<1>6. q = r
    BY <1>3, <1>5
<1> QED  BY <1>1, <1>4, <1>6

\* With one operator in front of one name, that name is the file.
LEMMA OneName ==
    ASSUME ChildInv, Redirected, NEW k \in DOMAIN command, Positions(Operators) = {k},
           command \in Seq(Words \cup Operators \cup {"&"}), k + 1 = Len(command)
    PROVE  redirect_cmd = command[k] /\ command[k] \in Operators
           /\ filename = <<command[k + 1]>>
<1>1. /\ Len(command) \in Nat /\ DOMAIN command = 1 .. Len(command) /\ k \in Nat
      /\ k + 1 \in 1 .. Len(command)
    OBVIOUS
<1>2. Max({k}) = k /\ Min({k}) = k
    BY DEF Max, Min
<1>3. redirect_cmd = command[k] /\ command[k] \in Operators
    BY <1>2 DEF Redirected, Positions
<1>4. Positions(IF redirect_cmd = "<" THEN {"<"} ELSE {">", ">>"}) = {k}
    BY <1>3 DEF Positions, Operators
<1>5. filename = SubSeq(command, k + 1, Len(command))
    BY <1>2, <1>3, <1>4 DEF filename
<1>6. SubSeq(command, k + 1, k + 1) = <<command[k + 1]>>
    BY <1>1, OneElement
<1> QED  BY <1>3, <1>5, <1>6

LEMMA RedirectImplied == ChildInv => RedirectRight
<1> SUFFICES ASSUME ChildInv, ch_pc \in {"program", "failed"}
             PROVE  /\ args # << >> /\ OnlyWords(args) /\ IsPrefix(args, command)
                    /\ Positions(Operators) = {} => Wanted("", BeforeAmp, << >>)
                    /\ \A k \in DOMAIN command :
                          (Positions(Operators) = {k} /\ k + 1 = Len(command)
                                                      /\ command[k + 1] # "&") =>
                             Wanted(command[k], SubSeq(command, 1, k - 1), <<command[k + 1]>>)
    BY Zenon DEF RedirectRight
<1>1. PICK e \in 1 .. Len(command) :
        /\ args = SubSeq(command, 1, e)
        /\ \A j \in 1 .. e : command[j] \in Words
        /\ Positions(Operators) = {} =>
               e = IF command[Len(command)] = "&" THEN Len(command) - 1 ELSE Len(command)
        /\ \A k \in 1 .. Len(command) :
               (Positions(Operators) = {k} /\ command[Len(command)] # "&") => e = k - 1
    BY ArgumentsEnd
<1>2. /\ command \in Seq(Words \cup Operators \cup {"&"}) /\ Len(command) \in Nat \ {0}
      /\ DOMAIN command = 1 .. Len(command)
    BY ArgumentsEnd
<1>3. /\ args \in Seq(Words \cup Operators \cup {"&"}) /\ Len(args) = e /\ e \in Nat \ {0}
      /\ DOMAIN args = 1 .. e /\ \A j \in 1 .. e : args[j] = command[j]
    <2>1. e \in Nat /\ 1 <= e /\ e <= Len(command) /\ e - 1 + 1 = e
        BY <1>2
    <2>2. PICK A : A = Words \cup Operators \cup {"&"}
        OBVIOUS
    <2>3. \A j \in 1 .. e : command[j] \in A
        BY <1>1, <2>2
    <2>4. /\ args \in Seq(A) /\ Len(args) = e
          /\ \A j \in 1 .. e : args[j] = command[1 + j - 1]
        <3>1. PICK c, q : c = command /\ q = SubSeq(c, 1, e) /\ q = args
            BY <1>1
        <3>2. 1 \in Int /\ e \in Int /\ \A j \in 1 .. e : c[j] \in A
            BY <2>1, <2>3, <3>1
        <3>3. /\ q \in Seq(A) /\ Len(q) = IF 1 <= e THEN e - 1 + 1 ELSE 0
              /\ \A j \in 1 .. e - 1 + 1 : q[j] = c[1 + j - 1]
            BY <3>1, <3>2, SubSeqProperties
        <3> QED  BY <2>1, <3>1, <3>3
    <2>5. \A j \in 1 .. e : 1 + j - 1 = j
        BY <2>1
    <2> QED  BY <2>1, <2>2, <2>4, <2>5
<1>4. args # << >> /\ OnlyWords(args)
    BY <1>1, <1>3 DEF OnlyWords
<1>5. IsPrefix(args, command)
    <2>1. SubSeq(args, 1, e) = args
        BY <1>3
    <2>2. Len(args) <= Len(command)
        BY <1>2, <1>3
    <2> QED  BY <1>1, <1>3, <2>1, <2>2, Zenon DEF IsPrefix
<1>6. ASSUME Positions(Operators) = {} PROVE Wanted("", BeforeAmp, << >>)
    <2>1. args = BeforeAmp
        <3>1. SubSeq(command, 1, Len(command)) = command
            BY <1>2
        <3> QED  BY <1>1, <1>6, <3>1 DEF BeforeAmp
    <2>2. Untouched
        BY <1>6 DEF ChildInv, Redirected
    <2> QED  BY <2>1, <2>2 DEF Wanted, Untouched
<1>7. ASSUME NEW k \in DOMAIN command, Positions(Operators) = {k}, k + 1 = Len(command),
             command[k + 1] # "&"
      PROVE  Wanted(command[k], SubSeq(command, 1, k - 1), <<command[k + 1]>>)
    <2>1. args = SubSeq(command, 1, k - 1)
        BY <1>1, <1>2, <1>7
    <2>2. Redirected
        BY DEF ChildInv
    <2>3. redirect_cmd = command[k] /\ command[k] \in Operators /\ filename = <<command[k + 1]>>
        BY <1>2, <1>7, <2>2, OneName
    <2>4. Positions(Operators) # {}
        BY <1>7
    <2> QED  BY <2>1, <2>2, <2>3, <2>4 DEF Redirected, Wanted, Operators
<1> QED  BY <1>4, <1>5, <1>6, <1>7


-----------------------------------------------------------------------------
(* Programs that run one command.                                            *)

Values == {""} \cup {Inherited[name] : name \in Names} \cup {a.val : a \in EnvArgs}

\* What one more argument, a, makes of the environment q.
Assigned(a, q) == [name \in Names |->
    IF a.kind \notin {"lit", "ref"} \/ a.key # name THEN q[name]
    ELSE IF a.kind = "lit" THEN a.val
    ELSE IF q[a.val] = Run!NoEnv THEN "" ELSE q[a.val]]

LEMMA AssignedType ==
    ASSUME NEW a \in EnvArgs, NEW q \in [Names -> Values]
    PROVE  Assigned(a, q) \in [Names -> Values]
<1>1. a.val \in Values /\ "" \in Values
    BY DEF Values
<1>2. a.kind = "ref" => q[a.val] \in Values
    BY ProcessesAssumption DEF Run!RunnersAssumption
<1> QED  BY <1>1, <1>2 DEF Assigned

\* One turn of the recursive definition, and what it defines.
MeaningAt(f, w, k) == [name \in Names |->
    IF k = 0 THEN Inherited[name]
    ELSE IF w[k].kind \notin {"lit", "ref"} \/ w[k].key # name THEN f[k - 1][name]
    ELSE IF w[k].kind = "lit" THEN w[k].val
    ELSE IF f[k - 1][w[k].val] = Run!NoEnv THEN "" ELSE f[k - 1][w[k].val]]
MeaningOf(w, l) == CHOOSE f : f = [k \in 0 .. l |-> MeaningAt(f, w, k)]

\* The recursive definition of the reference defines a function: it starts with what
\* is inherited, and each argument does what Assigned says.
LEMMA MeaningSteps ==
    ASSUME argv \in Seq(EnvArgs)
    PROVE  /\ Run!Meaning[0] = [name \in Names |-> Inherited[name]]
           /\ \A k \in 1 .. Len(argv) : Run!Meaning[k] = Assigned(argv[k], Run!Meaning[k - 1])
<1>1. PICK v, m : v = argv /\ m = Len(argv)
    OBVIOUS
<1>2. m \in Nat /\ DOMAIN v = 1 .. m /\ \A k \in 1 .. m : v[k] \in EnvArgs
    BY <1>1
<1> DEFINE S == [Names -> Values]
           b == [name \in Names |-> Inherited[name]]
           h == [x \in (1 .. m) \X S |-> Assigned(v[x[1]], x[2])]
           Eq(f) == f = [k \in 0 .. m |-> MeaningAt(f, v, k)]
           M == MeaningOf(v, m)
<1>3. b \in S
    BY DEF Values
<1>4. h \in [(1 .. m) \X S -> S]
    <2> SUFFICES ASSUME NEW x \in (1 .. m) \X S PROVE Assigned(v[x[1]], x[2]) \in S
        OBVIOUS
    <2>1. v[x[1]] \in EnvArgs /\ x[2] \in S
        BY <1>2
    <2> QED  BY <2>1, AssignedType
<1>5. \A k \in 1 .. m, q \in S : h[<<k, q>>] = Assigned(v[k], q)
    <2> HIDE DEF S
    <2> QED  OBVIOUS
<1>6. \E f : Eq(f)
    <2>1. PICK f \in [0 .. m -> S] : Stepwise(f, m, b, h)
        <3> HIDE DEF S, b, h
        <3> QED  BY <1>2, <1>3, <1>4, StepwiseExists
    <2>2. \A k \in 0 .. m : f[k] = IF k = 0 THEN b ELSE h[<<k, f[k - 1]>>]
        <3> HIDE DEF b, h, S
        <3> QED  BY <2>1 DEF Stepwise
    <2>3. \A k \in 0 .. m : k # 0 => k \in 1 .. m /\ f[k - 1] \in S
        <3> HIDE DEF S
        <3> QED  BY <1>2, <2>1
    <2>4. \A k \in 0 .. m : f[k] = IF k = 0 THEN b ELSE Assigned(v[k], f[k - 1])
        <3> HIDE DEF b, h, S
        <3> QED  BY <1>5, <2>2, <2>3
    <2>5. \A k \in 0 .. m : f[k] = MeaningAt(f, v, k)
        BY <2>4, ZenonT(40) DEF Assigned, MeaningAt
    <2>6. f = [k \in 0 .. m |-> f[k]]
        BY <2>1
    <2> QED  BY <2>5, <2>6, Zenon
<1>7. Eq(M)
    BY <1>6, Zenon DEF MeaningOf
<1>8. Run!Meaning = M
    <2>1. Run!Meaning = MeaningOf(argv, Len(argv))
        BY Zenon DEF Run!Meaning, MeaningOf, MeaningAt
    <2> QED  BY <1>1, <2>1, Zenon
<1>9. 0 \in 0 .. m /\ \A k \in 1 .. m : k \in 0 .. m /\ k # 0
    BY <1>2
<1>10. M[0] = b
    <2> HIDE DEF M
    <2> QED  BY <1>7, <1>9, Zenon DEF MeaningAt
<1>11. \A k \in 1 .. m : M[k] = Assigned(v[k], M[k - 1])
    <2> HIDE DEF M
    <2> QED  BY <1>7, <1>9, Zenon DEF Assigned, MeaningAt
<1> QED  BY <1>1, <1>8, <1>10, <1>11, Zenon

\* How far env has read its arguments, and that it runs the command at the -- only.
ArgsRead ==
    /\ tool \in {"time", "env", "mcontest"}
    /\ argv \in Seq(EnvArgs) /\ arg \in 1 .. Len(argv) + 1
    /\ environ = Run!Meaning[arg - 1]
    /\ \A k \in 1 .. arg - 1 : argv[k].kind \in {"lit", "ref"}
    /\ tool = "env" /\ (run_child = "runs" \/ run_status = "signal") =>
            arg < Len(argv) /\ argv[arg].kind = "--"

\* The life of the child, and what of it the parent has seen.
ChildSeen ==
    /\ run_child \in {"none", "setup", "runs", "zombie", "reaped"}
    /\ run_child \in {"none", "setup", "runs"} => run_status = "none"
    /\ run_status \in {"none", "ok", "failed", "signal"}
    /\ tool # "mcontest" => /\ timer \in {"none", "gone"}
                            /\ parent \notin {"create timer", "set flag", "clear flag"}
    /\ parent = "fork" => run_child = "none"
    /\ parent \in {"clear flag", "print"} => run_child = "reaped"
    /\ tool = "mcontest" /\ run_status = "ok" => ~endless
    /\ report = "duration" => run_status = "ok" /\ run_child = "reaped"
    /\ tool = "mcontest" /\ report = "ok" => run_status = "ok" /\ run_child = "reaped"

RunInv == ArgsRead /\ ChildSeen

LEMMA RunStarts == Run!RInit => RunInv
<1> SUFFICES ASSUME Run!RInit PROVE RunInv
    OBVIOUS
<1>1. argv \in Seq(EnvArgs)
    <2>1. CASE tool = "env"
        <3>1. argv \in Run!SeqOf(EnvArgs, MaxArgs)
            BY <2>1 DEF Run!RInit
        <3>2. PICK m \in 0 .. MaxArgs : argv \in [1 .. m -> EnvArgs]
            BY <3>1 DEF Run!SeqOf
        <3>3. m \in Nat
            BY ProcessesAssumption DEF Run!RunnersAssumption
        <3> QED  BY <3>2, <3>3
    <2>2. CASE tool # "env"
        BY <2>2 DEF Run!RInit
    <2> QED  BY <2>1, <2>2
<1>2. /\ tool \in {"time", "env", "mcontest"} /\ arg = 1
      /\ environ = Inherited
    BY Zenon DEF Run!RInit
<1>3. environ = Run!Meaning[0]
    <2>1. Inherited = [name \in Names |-> Inherited[name]]
        BY ProcessesAssumption DEF Run!RunnersAssumption
    <2> QED  BY <1>1, <1>2, <2>1, MeaningSteps, Zenon
<1>4. arg - 1 = 0 /\ arg \in 1 .. Len(argv) + 1
    BY <1>1, <1>2
<1>5. run_child = "none" /\ run_status = "none"
    BY DEF Run!RInit
<1>6. environ = Run!Meaning[arg - 1]
    BY <1>3, <1>4, Zenon
<1>7. \A k \in 1 .. arg - 1 : argv[k].kind \in {"lit", "ref"}
    BY <1>2
<1>8. ArgsRead
    BY <1>1, <1>2, <1>4, <1>5, <1>6, <1>7 DEF ArgsRead
<1>9. ChildSeen
    BY DEF Run!RInit, ChildSeen
<1> QED  BY <1>8, <1>9 DEF RunInv

\* The meaning of the arguments stays while they do.
LEMMA MeaningKept == ASSUME argv' = argv PROVE (Run!Meaning)' = Run!Meaning
<1>1. Run!Meaning = MeaningOf(argv, Len(argv))
    BY Zenon DEF Run!Meaning, MeaningOf, MeaningAt
<1>2. (Run!Meaning)' = MeaningOf(argv', Len(argv'))
    BY Zenon DEF Run!Meaning, MeaningOf, MeaningAt
<1> QED  BY <1>1, <1>2, Zenon

\* A step that reads no argument and runs no command.
LEMMA ArgsKept ==
    ASSUME ArgsRead, UNCHANGED <<tool, Run!envvars>>,
           tool = "env" /\ (run_child' = "runs" \/ run_status' = "signal") =>
                arg < Len(argv) /\ argv[arg].kind = "--"
    PROVE  ArgsRead'
<1>1. UNCHANGED <<tool, argv, arg, environ>>
    BY DEF Run!envvars
<1>2. (Run!Meaning)' = Run!Meaning
    BY <1>1, MeaningKept
<1>3. environ' = (Run!Meaning)'[arg' - 1]
    BY <1>1, <1>2, Zenon DEF ArgsRead
<1> QED  BY <1>1, <1>3 DEF ArgsRead

LEMMA RunParentInv == ASSUME RunInv, Run!ParentStep PROVE RunInv'
<1> USE DEF RunInv
<1>1. /\ UNCHANGED <<tool, Run!envvars, endless, run_status>>
      /\ run_child' = "runs" => run_child = "runs"
    BY DEF Run!ParentStep, Run!usage, Run!fork, Run!create_timer, Run!set_flag, Run!wait,
           Run!clear_flag, Run!print_and_exit
<1>2. ArgsRead'
    BY <1>1, ArgsKept DEF ArgsRead
<1>3. ChildSeen'
    <2>0. endless' = endless /\ tool' = tool /\ run_status' = run_status
        BY <1>1
    <2>1. CASE Run!usage
        BY <2>0, <2>1 DEF Run!usage, Run!timervars, ChildSeen
    <2>2. CASE Run!fork
        <3>1. /\ parent = "fork" /\ timer' = timer
              /\ run_child' \in {"setup", run_child} /\ report' \in {report, "fork failed"}
              /\ parent' \in {"wait", "done"} \/ (parent' = "create timer" /\ tool = "mcontest")
            BY <2>2 DEF Run!fork, Run!timervars
        <3>2. run_child = "none"
            BY <3>1 DEF ChildSeen
        <3> QED  BY <2>0, <3>1, <3>2 DEF ChildSeen
    <2>3. CASE Run!create_timer
        <3>1. /\ parent = "create timer" /\ timer' = "sleep" /\ parent' = "set flag"
              /\ UNCHANGED <<run_child, report>>
            BY <2>3 DEF Run!create_timer
        <3> QED  BY <2>0, <3>1 DEF ChildSeen
    <2>4. CASE Run!set_flag
        <3>1. /\ parent = "set flag" /\ parent' = "wait"
              /\ UNCHANGED <<run_child, report, timer>>
            BY <2>4 DEF Run!set_flag
        <3> QED  BY <2>0, <3>1 DEF ChildSeen
    <2>5. CASE Run!wait
        <3>1. /\ timer' = timer
              /\ \/ /\ run_child' = "reaped" /\ report' = report
                    /\ parent' = IF tool = "mcontest" THEN "clear flag" ELSE "print"
                 \/ run_child' = run_child /\ parent' = "done" /\ report' = "wait failed"
              /\ run_child \in {"zombie", "none"}
            BY <2>5 DEF Run!wait, Run!timervars
        <3> QED  BY <2>0, <3>1 DEF ChildSeen
    <2>6. CASE Run!clear_flag
        <3>1. /\ parent = "clear flag" /\ parent' = "print"
              /\ UNCHANGED <<run_child, report, timer>>
            BY <2>6 DEF Run!clear_flag
        <3> QED  BY <2>0, <3>1 DEF ChildSeen
    <2>7. CASE Run!print_and_exit
        <3>1. tool \in {"time", "env", "mcontest"}
            BY DEF ArgsRead
        <3> QED  BY <1>1, <2>7, <3>1
                 DEF Run!print_and_exit, Run!display_results, Run!print_stats, ChildSeen
    <2> QED  BY <2>1, <2>2, <2>3, <2>4, <2>5, <2>6, <2>7 DEF Run!ParentStep
<1> QED  BY <1>2, <1>3

\* One assignment: the environment is what the arguments mean, one argument further.
LEMMA AssignInv ==
    ASSUME ArgsRead, tool = "env", arg <= Len(argv), argv[arg].kind \in {"lit", "ref"},
           UNCHANGED <<tool, argv, run_child, run_status>>, run_child = "setup",
           run_status = "none",
           environ' = [environ EXCEPT ![argv[arg].key] = Run!value(argv[arg])], arg' = arg + 1
    PROVE  ArgsRead'
<1>1. PICK a, q, e : a = argv[arg] /\ q = environ /\ e = environ'
    OBVIOUS
<1>2. arg \in 1 .. Len(argv) /\ arg \in Int /\ a \in EnvArgs /\ Len(argv) \in Nat
    BY <1>1 DEF ArgsRead
<1>3. Run!Meaning[arg] = Assigned(a, q)
    BY <1>1, <1>2, MeaningSteps DEF ArgsRead
<1>4. DOMAIN q = Names
    <2>1. PICK g : g = arg - 1
        OBVIOUS
    <2>2. g = 0 \/ g \in 1 .. Len(argv)
        BY <1>2, <2>1
    <2>3. q = Run!Meaning[g]
        BY <1>1, <2>1 DEF ArgsRead
    <2>4. CASE g = 0
        BY <2>3, <2>4, MeaningSteps DEF ArgsRead
    <2>5. CASE g \in 1 .. Len(argv)
        <3>1. q = Assigned(argv[g], Run!Meaning[g - 1])
            BY <2>3, <2>5, MeaningSteps DEF ArgsRead
        <3> QED  BY <3>1 DEF Assigned
    <2> QED  BY <2>2, <2>4, <2>5
<1>5. e = [q EXCEPT ![a.key] = IF a.kind = "ref" THEN (IF q[a.val] = Run!NoEnv THEN ""
                                                        ELSE q[a.val])
                               ELSE a.val]
    BY <1>1 DEF Run!value, Run!getenv
<1>6. a.kind \in {"lit", "ref"}
    BY <1>1
<1>7. e = Assigned(a, q)
    BY <1>4, <1>5, <1>6 DEF Assigned
<1>8. (Run!Meaning)' = Run!Meaning
    BY MeaningKept
<1>9. arg' - 1 = arg /\ arg' \in 1 .. Len(argv) + 1
    BY <1>2
<1>10. environ' = (Run!Meaning)'[arg' - 1]
    BY <1>1, <1>3, <1>7, <1>8, <1>9
<1>11. \A k \in 1 .. arg' - 1 : argv'[k].kind \in {"lit", "ref"}
    <2> SUFFICES ASSUME NEW k \in 1 .. arg PROVE argv[k].kind \in {"lit", "ref"}
        BY <1>9
    <2>1. k = arg \/ k \in 1 .. arg - 1
        BY <1>2
    <2> QED  BY <2>1 DEF ArgsRead
<1> QED  BY <1>9, <1>10, <1>11 DEF ArgsRead

LEMMA RunChildInv == ASSUME RunInv, Run!ChildStep PROVE RunInv'
<1> USE DEF RunInv
<1>1. CASE Run!exec_command
    <2>1. /\ UNCHANGED <<tool, Run!envvars, parent, endless, Run!timervars, report>>
          /\ run_child = "setup" /\ tool # "env"
          /\ \/ run_child' = "runs" /\ run_status' = run_status
             \/ run_child' = "zombie" /\ run_status' = "failed"
        BY <1>1 DEF Run!exec_command, Run!ChildExits
    <2>2. ArgsRead'
        BY <2>1, ArgsKept
    <2>3. ChildSeen'
        BY <2>1 DEF ChildSeen, Run!timervars, Run!envvars
    <2> QED  BY <2>2, <2>3
<1>2. CASE Run!command_ends
    <2>1. /\ UNCHANGED <<tool, Run!envvars, parent, endless, Run!timervars, report>>
          /\ run_child = "runs" /\ ~endless /\ run_child' = "zombie"
          /\ run_status' \in {"ok", "failed", "signal"}
        BY <1>2 DEF Run!command_ends, Run!ChildExits
    <2>2. ArgsRead'
        BY <2>1, ArgsKept DEF ArgsRead
    <2>3. ChildSeen'
        BY <2>1 DEF ChildSeen, Run!timervars, Run!envvars
    <2> QED  BY <2>2, <2>3
<1>3. CASE Run!env_argument
    <2>1. /\ UNCHANGED <<tool, argv, parent, endless, Run!timervars, report>>
          /\ run_child = "setup" /\ tool = "env" /\ run_status = "none"
        BY <1>3 DEF Run!env_argument, ChildSeen
    <2>2. \/ /\ UNCHANGED <<arg, environ>> /\ run_child' = "zombie"
             /\ run_status' \in {"ok", "failed"}
          \/ /\ UNCHANGED <<arg, environ>> /\ run_child' = "runs" /\ run_status' = run_status
             /\ argv[arg].kind = "--" /\ arg + 1 <= Len(argv)
          \/ /\ UNCHANGED <<run_child, run_status>> /\ ~(arg > Len(argv))
             /\ argv[arg].kind \in {"lit", "ref"} /\ arg' = arg + 1
             /\ environ' = [environ EXCEPT ![argv[arg].key] = Run!value(argv[arg])]
        BY <1>3 DEF Run!env_argument, Run!ChildExits
    <2>3. ChildSeen'
        BY <2>1, <2>2 DEF ChildSeen, Run!timervars
    <2>4. arg \in Int /\ Len(argv) \in Int
        BY DEF ArgsRead
    <2>5. ArgsRead'
        <3>1. CASE ~(arg > Len(argv)) /\ argv[arg].kind \in {"lit", "ref"}
                    /\ arg' = arg + 1 /\ UNCHANGED <<run_child, run_status>>
                    /\ environ' = [environ EXCEPT ![argv[arg].key] = Run!value(argv[arg])]
            <4>1. arg <= Len(argv)
                BY <2>4, <3>1
            <4> QED  BY <2>1, <3>1, <4>1, AssignInv
        <3>2. CASE /\ UNCHANGED <<arg, environ>> /\ run_child' = "zombie"
                   /\ run_status' \in {"ok", "failed"}
            BY <2>1, <3>2, ArgsKept DEF Run!envvars
        <3>3. CASE /\ UNCHANGED <<arg, environ>> /\ run_child' = "runs"
                   /\ argv[arg].kind = "--" /\ arg + 1 <= Len(argv)
            <4>1. arg < Len(argv)
                BY <2>4, <3>3
            <4> QED  BY <2>1, <3>3, <4>1, ArgsKept DEF Run!envvars
        <3> QED  BY <2>2, <3>1, <3>2, <3>3
    <2> QED  BY <2>3, <2>5
<1> QED  BY <1>1, <1>2, <1>3 DEF Run!ChildStep

LEMMA RunTimerInv == ASSUME RunInv, Run!TimerStep PROVE RunInv'
<1> USE DEF RunInv
<1>1. /\ UNCHANGED <<tool, Run!envvars, parent, endless, report>>
      /\ tool = "mcontest" /\ timer' \in {"kill", "done"} /\ parent # "done"
      /\ \/ UNCHANGED <<run_child, run_status>>
         \/ /\ run_child \in {"setup", "runs"} /\ run_child' = "zombie"
            /\ run_status' = "signal"
    BY DEF Run!TimerStep, Run!timeout_test, Run!timeout_kill, Run!ChildExits, ChildSeen
<1>2. ArgsRead'
    BY <1>1, ArgsKept
<1>3. ChildSeen'
    BY <1>1 DEF ChildSeen
<1> QED  BY <1>2, <1>3

LEMMA RunImplied == RunInv => Run!RunnersRight
BY DEF RunInv, ArgsRead, ChildSeen, Run!RunnersRight

Programs ==
    /\ focus \in {"shell", "shell child", "mapreduce", "runners"}
    /\ focus = "shell child" => ChildInv
    /\ focus = "runners" => RunInv

\* However the child, its parent and mcontest's timer interleave, and wherever exec, fork,
\* fopen or the command fails (env.c:29, time.c:41, mcontest.c:99, shell.c:352): env's
\* command runs after well-formed assignments only and in the environment they mean, time
\* and mcontest report success of a command that ran and exited with 0 only, and a child of
\* the shell hands to exec the words in front of the first redirection, with the file of
\* its one redirection in place.
THEOREM CommandsStayRight == PrSpec => []CommandsRight
<1>1. PrInit => Programs
    BY ChildStarts, RunStarts DEF PrInit, Programs
<1>2. Programs /\ [PrNext]_allvars => Programs'
    <2> SUFFICES ASSUME Programs, [PrNext]_allvars PROVE Programs'
        OBVIOUS
    <2>1. CASE UNCHANGED <<focus, childvars, rvars>>
        <3>1. focus = "shell child" => ChildInv'
            BY <2>1 DEF Programs, childvars, ChildInv, Untouched, Redirected, Positions,
                        count_tokens, filename, cmds_to_null
        <3>2. ASSUME focus = "runners" PROVE RunInv'
            <4>1. /\ UNCHANGED <<tool, Run!envvars, run_child, run_status>>
                  /\ UNCHANGED <<timer, parent, endless, report>> /\ RunInv
                BY <2>1, <3>2 DEF rvars, Run!envvars, Programs
            <4>2. ArgsRead'
                BY <4>1, ArgsKept DEF RunInv, ArgsRead
            <4>3. ChildSeen'
                BY <4>1 DEF RunInv, ChildSeen
            <4> QED  BY <4>2, <4>3 DEF RunInv
        <3> QED  BY <2>1, <3>1, <3>2 DEF Programs
    <2>2. CASE focus = "shell child" /\ ShNext /\ UNCHANGED <<focus, vars, mrvars, rvars>>
        BY <2>2, ChildNextInv DEF Programs
    <2>3. CASE RunParent \/ RunChild \/ RunTimer
        <3>1. focus = "runners" /\ focus' = focus
              /\ (Run!ParentStep \/ Run!ChildStep \/ Run!TimerStep)
            BY <2>3 DEF RunParent, RunChild, RunTimer, RunFrame
        <3> QED  BY <3>1, RunParentInv, RunChildInv, RunTimerInv DEF Programs
    <2>4. CASE MrMain \/ \E p \in Mr!Children : MrChild(p)
        BY <2>1, <2>4 DEF MrMain, MrChild, MrFrame
    <2>5. CASE UNCHANGED allvars
        BY <2>1, <2>5 DEF allvars
    <2>6. CASE ShellFrame
        BY <2>1, <2>6 DEF ShellFrame
    <2> QED
        BY <2>2, <2>3, <2>4, <2>5, <2>6
        DEF PrNext, ShellChldHandler, ShellIntHandler, ShellWork
<1>3. Programs => CommandsRight
    BY RedirectImplied, RunImplied DEF Programs, CommandsRight
<1> QED  BY <1>1, <1>2, <1>3, PTL DEF PrSpec
=============================================================================
