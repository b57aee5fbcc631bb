----------------------- MODULE SavvyScheduler_proofs ------------------------
(***************************************************************************)
(* Proofs about module SavvyScheduler: the queue of libscheduler.c for any *)
(* number of jobs, any priorities and running times, and the contexts and  *)
(* stacks of gthreads.c for any number of alarms.                          *)
(***************************************************************************)
EXTENDS SavvyScheduler, FiniteSetTheorems, SequenceTheorems, WellFoundedInduction, TLAPS

\* The metadata of a job.
Meta == [priority : Int, running : Int, remaining : Int, arrival : Int, start : Int,
         next : Int, resumed : Int]

\* The sequence r is q with j put in behind the first p elements.
Inserted(q, j, p, r) ==
    /\ r \in Seq(Jobs) /\ Len(r) = Len(q) + 1
    /\ \A i \in 1 .. p : r[i] = q[i]
    /\ r[p + 1] = j
    /\ \A i \in p + 1 .. Len(q) : r[i + 1] = q[i]

\* The least of a set of naturals.
LEMMA Least ==
  ASSUME NEW S \in SUBSET Nat, S # {}
  PROVE  \E i \in S : \A k \in S : i <= k
<1>1. PICK i \in S : \A k \in S : ~(<<k, i>> \in OpToRel(<, Nat))
  BY WFMin, NatLessThanWellFounded
<1>2. \A k \in S : ~(k < i)
  BY <1>1, Zenon DEF OpToRel
<1>3. \A k \in S : i <= k
  BY <1>2
<1> QED
  BY <1>3

LEMMA BetweenHalves ==
  ASSUME NEW q \in Seq(Jobs), NEW j \in Jobs, NEW p \in 0 .. Len(q)
  PROVE  Inserted(q, j, p, SubSeq(q, 1, p) \o <<j>> \o SubSeq(q, p + 1, Len(q)))
<1> DEFINE a == SubSeq(q, 1, p)
           b == SubSeq(q, p + 1, Len(q))
           r == a \o <<j>> \o b
<1> SUFFICES Inserted(q, j, p, r)
  OBVIOUS
<1>1. Len(q) \in Nat /\ p \in Nat
  BY LenProperties
<1>2. a \in Seq(Jobs) /\ Len(a) = p /\ \A i \in 1 .. p : a[i] = q[i]
  BY <1>1
<1>3. b \in Seq(Jobs) /\ Len(b) = Len(q) - p /\ \A i \in 1 .. Len(q) - p : b[i] = q[p + i]
  BY <1>1
<1>4. <<j>> \in Seq(Jobs) /\ Len(<<j>>) = 1 /\ <<j>>[1] = j
  OBVIOUS
<1> HIDE DEF a, b
<1> DEFINE c == a \o <<j>>
<1>6. /\ c \in Seq(Jobs) /\ Len(c) = p + 1
      /\ \A i \in 1 .. p : c[i] = q[i]
      /\ c[p + 1] = j
  BY <1>1, <1>2, <1>4
<1> HIDE DEF c
<1>7. r = c \o b
  BY DEF c
<1>8. /\ r \in Seq(Jobs) /\ Len(r) = Len(q) + 1
      /\ \A i \in 1 .. p + 1 : r[i] = c[i]
      /\ \A i \in p + 2 .. Len(q) + 1 : r[i] = b[i - (p + 1)]
  <2>1. /\ c \o b \in Seq(Jobs) /\ Len(c \o b) = Len(c) + Len(b)
        /\ \A i \in 1 .. Len(c) + Len(b) : (c \o b)[i] = IF i <= Len(c) THEN c[i]
                                                         ELSE b[i - Len(c)]
    <3> HIDE DEF r
    <3> QED
      BY <1>3, <1>6, ConcatProperties
  <2> HIDE DEF r
  <2> QED
    BY <1>1, <1>3, <1>6, <1>7, <2>1
<1> HIDE DEF r
<1>9. \A i \in p + 1 .. Len(q) : r[i + 1] = q[i]
  <2> TAKE i \in p + 1 .. Len(q)
  <2>1. i + 1 \in p + 2 .. Len(q) + 1 /\ i + 1 - (p + 1) = i - p /\ i - p \in 1 .. Len(q) - p
        /\ p + (i - p) = i
    BY <1>1
  <2>2. r[i + 1] = b[i + 1 - (p + 1)]
    BY <1>8, <2>1
  <2>3. b[i - p] = q[p + (i - p)]
    BY <1>3, <2>1
  <2> QED
    BY <2>1, <2>2, <2>3
<1> QED
  BY <1>1, <1>6, <1>8, <1>9 DEF Inserted

\* libpriqueue.c:16-52, priqueue_offer puts the new job behind one that it does not
\* precede, or at the front, and in front of one that it precedes, or at the end.
LEMMA OfferPlaces ==
  ASSUME NEW m, NEW q \in Seq(Jobs), NEW j \in Jobs
  PROVE  \E p \in 0 .. Len(q) :
            /\ Inserted(q, j, p, priqueue_offer(m, q, j))
            /\ p > 0 => ~Precedes(m, j, q[p])
            /\ p < Len(q) => Precedes(m, j, q[p + 1])
<1>1. Len(q) \in Nat /\ (q = <<>> <=> Len(q) = 0) /\ (q # <<>> => Head(q) = q[1])
  BY LenProperties
<1>2. CASE q = <<>> \/ Precedes(m, j, Head(q))
  <2>1. priqueue_offer(m, q, j) = <<j>> \o q
    BY <1>2 DEF priqueue_offer
  <2>2. Inserted(q, j, 0, <<j>> \o q)
    BY <1>1 DEF Inserted
  <2>3. 0 < Len(q) => Precedes(m, j, q[0 + 1])
    BY <1>1, <1>2
  <2> QED
    BY <1>1, <2>1, <2>2, <2>3
<1>3. CASE ~(q = <<>> \/ Precedes(m, j, Head(q)))
  <2> DEFINE places == {i \in DOMAIN q : i = Len(q) \/ (/\ ~Precedes(m, j, q[i])
                                                       /\ Precedes(m, j, q[i + 1]))}
             p == CHOOSE i \in places : \A k \in places : i <= k
  <2>1. DOMAIN q = 1 .. Len(q) /\ Len(q) > 0 /\ ~Precedes(m, j, q[1])
    BY <1>1, <1>3
  <2>2. Len(q) \in places /\ places \in SUBSET Nat
    BY <1>1, <2>1
  <2>3. p \in places /\ \A k \in places : p <= k
    <3>1. \E i \in places : \A k \in places : i <= k
      <4> HIDE DEF places
      <4> QED
        BY <2>2, Least
    <3> HIDE DEF places
    <3> QED
      BY <3>1
  <2>4. priqueue_offer(m, q, j) = SubSeq(q, 1, p) \o <<j>> \o SubSeq(q, p + 1, Len(q))
    BY <1>3 DEF priqueue_offer
  <2> HIDE DEF p
  <2>5. p \in 1 .. Len(q)
    BY <2>1, <2>3
  <2>6. Inserted(q, j, p, priqueue_offer(m, q, j))
    BY <1>1, <2>4, <2>5, BetweenHalves
  <2>7. p < Len(q) => ~Precedes(m, j, q[p]) /\ Precedes(m, j, q[p + 1])
    BY <1>1, <2>3, <2>5
  <2>8. ~Precedes(m, j, q[p])
    <3> SUFFICES ASSUME p = Len(q), Precedes(m, j, q[p]) PROVE FALSE
      BY <1>1, <2>5, <2>7
    <3> DEFINE Bad == {i \in 1 .. Len(q) : Precedes(m, j, q[i])}
    <3>1. PICK i \in Bad : \A k \in Bad : i <= k
      <4>1. Bad \in SUBSET Nat /\ Bad # {}
        BY <1>1, <2>5
      <4> HIDE DEF Bad
      <4> QED
        BY <4>1, Least
    <3>2. i \in 1 .. Len(q) /\ i # 1 /\ Precedes(m, j, q[i])
      BY <2>1, <3>1
    <3>3. i - 1 \in 1 .. Len(q) /\ i - 1 < Len(q) /\ i - 1 < i /\ (i - 1) + 1 = i
      BY <1>1, <3>2
    <3>4. ~Precedes(m, j, q[i - 1])
      BY <1>1, <3>1, <3>2, <3>3
    <3>5. i - 1 \in places
      BY <2>1, <3>2, <3>3, <3>4
    <3> HIDE DEF places, Bad
    <3> QED
      BY <1>1, <2>3, <2>5, <3>3, <3>5
  <2> QED
    BY <1>1, <2>5, <2>6, <2>7, <2>8
<1> QED
  BY <1>2, <1>3

-----------------------------------------------------------------------------
(* The order of the queue.                                                  *)

Sorted(m, q) == \A i \in 1 .. Len(q) - 1 : ~Precedes(m, q[i + 1], q[i])
OnceEach(q) == \A i, k \in 1 .. Len(q) : q[i] = q[k] => i = k
In(j, q) == \E i \in 1 .. Len(q) : q[i] = j

\* The comparers cannot tell the metadata m and n of job x apart.
Agree(m, n, x) == Key(n[x]) = Key(m[x]) /\ n[x].arrival = m[x].arrival

LEMMA KeyType ==
  ASSUME scheme \in AllSchemes, NEW x \in Meta
  PROVE  Key(x) \in Int
BY DEF AllSchemes, Meta, Key

LEMMA Asymmetric ==
  ASSUME scheme \in AllSchemes, NEW m \in [Jobs -> Meta], NEW a \in Jobs, NEW b \in Jobs,
         Precedes(m, a, b)
  PROVE  ~Precedes(m, b, a)
<1>1. m[a] \in Meta /\ m[b] \in Meta
  OBVIOUS
<1>2. Key(m[a]) \in Int /\ Key(m[b]) \in Int
  BY <1>1, KeyType
<1>3. m[a].arrival \in Int /\ m[b].arrival \in Int
  BY <1>1 DEF Meta
<1> QED
  BY <1>2, <1>3 DEF Precedes

LEMMA SortedAgain ==
  ASSUME NEW q \in Seq(Jobs), NEW m, NEW n, Sorted(m, q), \A i \in 1 .. Len(q) : Agree(m, n, q[i])
  PROVE  Sorted(n, q)
<1> SUFFICES ASSUME NEW i \in 1 .. Len(q) - 1 PROVE ~Precedes(n, q[i + 1], q[i])
  BY DEF Sorted
<1>1. i \in 1 .. Len(q) /\ i + 1 \in 1 .. Len(q)
  BY LenProperties
<1>2. ~Precedes(m, q[i + 1], q[i])
  BY DEF Sorted
<1>3. Agree(m, n, q[i]) /\ Agree(m, n, q[i + 1])
  BY <1>1
<1> QED
  BY <1>2, <1>3 DEF Agree, Precedes

\* What priqueue_offer makes of a queue that does not hold the job: one in order stays in
\* order, the others keep their places relative to each other, the head is the head if the
\* new job does not come in front of it, and a job that precedes none goes to the end.
LEMMA OfferKeepsOrder ==
  ASSUME scheme \in AllSchemes, NEW m \in [Jobs -> Meta], NEW q \in Seq(Jobs), NEW j \in Jobs,
         OnceEach(q), ~In(j, q), NEW r, r = priqueue_offer(m, q, j)
  PROVE  /\ r \in Seq(Jobs) /\ Len(r) = Len(q) + 1
         /\ Sorted(m, q) => Sorted(m, r)
         /\ OnceEach(r)
         /\ \A x : In(x, r) <=> In(x, q) \/ x = j
         /\ \A x, y : Ahead(r, x, y) /\ x # j /\ y # j => Ahead(q, x, y)
         /\ q # <<>> /\ ~Ahead(r, j, q[1]) => r[1] = q[1]
         /\ (\A i \in 1 .. Len(q) : ~Precedes(m, j, q[i])) => \A y : ~Ahead(r, j, y)
<1>1. PICK p \in 0 .. Len(q) : /\ Inserted(q, j, p, r)
                               /\ p > 0 => ~Precedes(m, j, q[p])
                               /\ p < Len(q) => Precedes(m, j, q[p + 1])
  BY OfferPlaces
<1>2. /\ r \in Seq(Jobs) /\ Len(r) = Len(q) + 1
      /\ \A i \in 1 .. p : r[i] = q[i]
      /\ r[p + 1] = j
      /\ \A i \in p + 1 .. Len(q) : r[i + 1] = q[i]
  BY <1>1 DEF Inserted
<1>3. Len(q) \in Nat /\ p \in Nat /\ p <= Len(q) /\ \A i \in 1 .. Len(q) : q[i] \in Jobs
  BY LenProperties, ElementOfSeq
<1>4. \A i \in p + 2 .. Len(r) : i - 1 \in p + 1 .. Len(q) /\ r[i] = q[i - 1]
  <2> TAKE i \in p + 2 .. Len(r)
  <2>1. i - 1 \in p + 1 .. Len(q) /\ (i - 1) + 1 = i
    BY <1>2, <1>3
  <2> QED
    BY <1>2, <2>1
<1>5. Sorted(m, q) => Sorted(m, r)
  <2> SUFFICES ASSUME Sorted(m, q), NEW i \in 1 .. Len(r) - 1 PROVE ~Precedes(m, r[i + 1], r[i])
    BY DEF Sorted
  <2>1. CASE i < p
    <3>1. i \in 1 .. p /\ i + 1 \in 1 .. p /\ i \in 1 .. Len(q) - 1
      BY <1>2, <1>3, <2>1
    <3> QED
      BY <1>2, <3>1 DEF Sorted
  <2>2. CASE i = p
    <3>1. p > 0 /\ i \in 1 .. p
      BY <1>2, <1>3, <2>2
    <3> QED
      BY <1>1, <1>2, <2>2, <3>1
  <2>3. CASE i = p + 1
    <3>1. p < Len(q) /\ p + 1 \in 1 .. Len(q) /\ p + 1 \in p + 1 .. Len(q)
      BY <1>2, <1>3, <2>3
    <3>2. r[i + 1] = q[p + 1] /\ r[i] = j
      BY <1>2, <2>3, <3>1
    <3>3. Precedes(m, j, q[p + 1]) /\ q[p + 1] \in Jobs
      BY <1>1, <1>3, <3>1
    <3> QED
      BY <3>2, <3>3, Asymmetric
  <2>4. CASE i > p + 1
    <3>1. i \in p + 2 .. Len(r) /\ i + 1 \in p + 2 .. Len(r) /\ i - 1 \in 1 .. Len(q) - 1
          /\ (i + 1) - 1 = (i - 1) + 1
      BY <1>2, <1>3, <2>4
    <3>2. r[i] = q[i - 1] /\ r[i + 1] = q[(i - 1) + 1]
      BY <1>4, <3>1
    <3> QED
      BY <3>1, <3>2 DEF Sorted
  <2> QED
    BY <1>2, <1>3, <2>1, <2>2, <2>3, <2>4
<1>6. \A i \in 1 .. Len(r) : i <= p \/ i = p + 1 \/ i \in p + 2 .. Len(r)
  BY <1>2, <1>3
<1>7. OnceEach(r)
  <2> DEFINE pre(i) == IF i <= p THEN i ELSE i - 1
  <2>1. \A i \in 1 .. Len(r) : i # p + 1 => pre(i) \in 1 .. Len(q) /\ r[i] = q[pre(i)]
    <3> TAKE i \in 1 .. Len(r)
    <3>1. CASE i <= p
      BY <1>2, <1>3, <3>1
    <3>2. CASE i \in p + 2 .. Len(r)
      BY <1>2, <1>3, <1>4, <3>2
    <3> QED
      BY <1>6, <3>1, <3>2
  <2>2. \A i \in 1 .. Len(r) : i # p + 1 => r[i] # j
    BY <2>1 DEF In
  <2>3. \A i, k \in 1 .. Len(r) : i # p + 1 /\ k # p + 1 /\ pre(i) = pre(k) => i = k
    BY <1>2, <1>3
  <2> HIDE DEF pre
  <2>4. ASSUME NEW i \in 1 .. Len(r), NEW k \in 1 .. Len(r), r[i] = r[k]
        PROVE  i = k
    <3>1. CASE i # p + 1 /\ k # p + 1
      <4>1. pre(i) = pre(k)
        BY <2>1, <2>4, <3>1 DEF OnceEach
      <4> QED
        BY <2>3, <3>1, <4>1
    <3>2. CASE i = p + 1 \/ k = p + 1
      BY <1>2, <2>2, <2>4, <3>2
    <3> QED
      BY <3>1, <3>2
  <2> QED
    BY <2>4 DEF OnceEach
<1>8. ASSUME NEW x PROVE In(x, r) <=> In(x, q) \/ x = j
  <2>1. In(x, r) => In(x, q) \/ x = j
    <3> SUFFICES ASSUME NEW i \in 1 .. Len(r), r[i] = x, x # j PROVE In(x, q)
      BY DEF In
    <3>1. CASE i <= p
      BY <1>2, <1>3, <3>1 DEF In
    <3>2. CASE i \in p + 2 .. Len(r)
      <4>1. i - 1 \in 1 .. Len(q) /\ q[i - 1] = x
        BY <1>3, <1>4, <3>2
      <4> QED
        BY <4>1 DEF In
    <3> QED
      BY <1>2, <1>6, <3>1, <3>2
  <2>2. ASSUME In(x, q) PROVE In(x, r)
    <3>1. PICK i \in 1 .. Len(q) : q[i] = x
      BY <2>2 DEF In
    <3>2. CASE i <= p
      <4>1. i \in 1 .. Len(r) /\ r[i] = x
        BY <1>2, <1>3, <3>1, <3>2
      <4> QED
        BY <4>1 DEF In
    <3>3. CASE i > p
      <4>1. i \in p + 1 .. Len(q) /\ i + 1 \in 1 .. Len(r)
        BY <1>2, <1>3, <3>3
      <4>2. r[i + 1] = x
        BY <1>2, <3>1, <4>1
      <4> QED
        BY <4>1, <4>2 DEF In
    <3> QED
      BY <1>3, <3>2, <3>3
  <2>3. In(j, r)
    <3>1. p + 1 \in 1 .. Len(r)
      BY <1>2, <1>3
    <3> QED
      BY <1>2, <3>1 DEF In
  <2> QED
    BY <2>1, <2>2, <2>3
<1>10. DOMAIN r = 1 .. Len(r) /\ DOMAIN q = 1 .. Len(q)
  BY <1>2, LenProperties
<1>11. \A i \in 1 .. Len(r) : r[i] = j => i = p + 1
  <2> TAKE i \in 1 .. Len(r)
  <2>1. p + 1 \in 1 .. Len(r)
    BY <1>2, <1>3
  <2> QED
    BY <1>2, <1>7, <2>1 DEF OnceEach
<1>12. ASSUME NEW x, NEW y, Ahead(r, x, y), x # j, y # j PROVE Ahead(q, x, y)
  <2>1. PICK i \in 1 .. Len(r), k \in 1 .. Len(r) : i < k /\ r[i] = x /\ r[k] = y
    BY <1>10, <1>12 DEF Ahead
  <2>2. i # p + 1 /\ k # p + 1
    BY <1>2, <1>12, <2>1
  <2> DEFINE pre(n) == IF n <= p THEN n ELSE n - 1
  <2>3. \A n \in 1 .. Len(r) : n # p + 1 => pre(n) \in 1 .. Len(q) /\ r[n] = q[pre(n)]
    <3> TAKE n \in 1 .. Len(r)
    <3>1. CASE n <= p
      BY <1>2, <1>3, <3>1
    <3>2. CASE n \in p + 2 .. Len(r)
      BY <1>2, <1>3, <1>4, <3>2
    <3> QED
      BY <1>6, <3>1, <3>2
  <2>4. pre(i) < pre(k)
    BY <1>2, <1>3, <2>1, <2>2
  <2>5. /\ pre(i) \in 1 .. Len(q) /\ pre(k) \in 1 .. Len(q)
        /\ q[pre(i)] = x /\ q[pre(k)] = y
    BY <2>1, <2>2, <2>3
  <2> HIDE DEF pre
  <2> QED
    BY <1>10, <2>4, <2>5 DEF Ahead
<1>9. ASSUME q # <<>>, ~Ahead(r, j, q[1]) PROVE r[1] = q[1]
  <2>1. Len(q) > 0
    BY <1>3, <1>9, EmptySeq
  <2>2. CASE p = 0
    <3>1. 1 \in 1 .. Len(r) /\ 2 \in 1 .. Len(r) /\ 1 \in p + 1 .. Len(q)
      BY <1>2, <1>3, <2>1, <2>2
    <3>2. r[1] = j /\ r[2] = q[1]
      BY <1>2, <2>2, <3>1
    <3>3. 1 < 2
      OBVIOUS
    <3>4. Ahead(r, j, q[1])
      BY <1>10, <3>1, <3>2, <3>3 DEF Ahead
    <3> QED
      BY <1>9, <3>4
  <2>3. CASE p > 0
    <3>1. 1 \in 1 .. p
      BY <1>3, <2>3
    <3> QED
      BY <1>2, <3>1
  <2> QED
    BY <1>3, <2>2, <2>3
<1>13. ASSUME \A i \in 1 .. Len(q) : ~Precedes(m, j, q[i]), NEW y, Ahead(r, j, y) PROVE FALSE
  <2>1. p = Len(q)
    <3>1. p < Len(q) => p + 1 \in 1 .. Len(q)
      BY <1>3
    <3> QED
      BY <1>1, <1>3, <1>13, <3>1
  <2>2. PICK i \in 1 .. Len(r), k \in 1 .. Len(r) : i < k /\ r[i] = j /\ r[k] = y
    BY <1>10, <1>13 DEF Ahead
  <2>3. i = p + 1
    BY <1>11, <2>2
  <2> QED
    BY <1>2, <1>3, <2>1, <2>2, <2>3
<1> QED
  BY <1>2, <1>5, <1>7, <1>8, <1>9, <1>12, <1>13

-----------------------------------------------------------------------------
(* scheduler_quantum_expired.                                               *)

\* What is left of a queue when its head is polled.
LEMMA TailKeepsOrder ==
  ASSUME NEW m, NEW q \in Seq(Jobs), q # <<>>, OnceEach(q)
  PROVE  /\ Tail(q) \in Seq(Jobs) /\ OnceEach(Tail(q))
         /\ Sorted(m, q) => Sorted(m, Tail(q))
         /\ Len(Tail(q)) = Len(q) - 1 /\ q[1] \in Jobs /\ Head(q) = q[1]
         /\ \A x : In(x, Tail(q)) <=> In(x, q) /\ x # q[1]
<1> DEFINE t == Tail(q)
<1>1. /\ t \in Seq(Jobs) /\ Len(t) = Len(q) - 1 /\ Len(q) \in Nat \ {0}
      /\ \A i \in 1 .. Len(t) : t[i] = q[i + 1]
  BY HeadTailProperties, EmptySeq
<1>2. q[1] \in Jobs /\ Head(q) = q[1]
  BY <1>1
<1> HIDE DEF t
<1>3. \A i \in 1 .. Len(t) : i + 1 \in 1 .. Len(q)
  BY <1>1
<1>4. Sorted(m, q) => Sorted(m, t)
  <2> SUFFICES ASSUME Sorted(m, q), NEW i \in 1 .. Len(t) - 1 PROVE ~Precedes(m, t[i + 1], t[i])
    BY DEF Sorted
  <2>1. i \in 1 .. Len(t) /\ i + 1 \in 1 .. Len(t) /\ i + 1 \in 1 .. Len(q) - 1
    BY <1>1
  <2>2. t[i] = q[i + 1] /\ t[i + 1] = q[(i + 1) + 1]
    BY <1>1, <2>1
  <2> QED
    BY <2>1, <2>2 DEF Sorted
<1>5. OnceEach(t)
  <2> SUFFICES ASSUME NEW i \in 1 .. Len(t), NEW k \in 1 .. Len(t), t[i] = t[k] PROVE i = k
    BY DEF OnceEach
  <2>1. q[i + 1] = q[k + 1]
    BY <1>1
  <2>2. i + 1 = k + 1
    BY <1>3, <2>1 DEF OnceEach
  <2> QED
    BY <2>2
<1>6. ASSUME NEW x PROVE In(x, t) <=> In(x, q) /\ x # q[1]
  <2>1. ASSUME In(x, t) PROVE In(x, q) /\ x # q[1]
    <3>1. PICK i \in 1 .. Len(t) : t[i] = x
      BY <2>1 DEF In
    <3>2. q[i + 1] = x /\ i + 1 \in 1 .. Len(q) /\ i + 1 # 1 /\ 1 \in 1 .. Len(q)
      BY <1>1, <1>3, <3>1
    <3> QED
      BY <3>2 DEF In, OnceEach
  <2>2. ASSUME In(x, q), x # q[1] PROVE In(x, t)
    <3>1. PICK i \in 1 .. Len(q) : q[i] = x
      BY <2>2 DEF In
    <3>2. i - 1 \in 1 .. Len(t) /\ (i - 1) + 1 = i
      BY <1>1, <2>2, <3>1
    <3>3. t[i - 1] = x
      BY <1>1, <3>1, <3>2
    <3> QED
      BY <3>2, <3>3 DEF In
  <2> QED
    BY <2>1, <2>2
<1> QED
  BY <1>1, <1>2, <1>4, <1>5, <1>6 DEF t

\* Setting one field of a job's metadata.
LEMMA FieldSet ==
  ASSUME NEW m \in [Jobs -> Meta], NEW e \in Jobs, NEW c \in Int
  PROVE  /\ [m EXCEPT ![e].start = c] \in [Jobs -> Meta]
         /\ [m EXCEPT ![e].next = c] \in [Jobs -> Meta]
         /\ [m EXCEPT ![e].resumed = c] \in [Jobs -> Meta]
         /\ [m EXCEPT ![e].remaining = c] \in [Jobs -> Meta]
<1>1. \A x \in Meta : /\ [x EXCEPT !.start = c] \in Meta /\ [x EXCEPT !.next = c] \in Meta
                      /\ [x EXCEPT !.resumed = c] \in Meta /\ [x EXCEPT !.remaining = c] \in Meta
  BY DEF Meta
<1>2. m[e] \in Meta
  OBVIOUS
<1> QED
  BY <1>1, <1>2

\* The scheduler is asked for a job, by the job that has the processor or by none: the
\* queue holds the same jobs, and the answer is its head, or with a scheme that is not
\* preemptive the job that asks, whose queue stays as it is.  A queue in order stays in
\* order, unless the key of a job behind the head changes.
Answer(m, q, e, r) ==
    /\ r.q \in Seq(Jobs) /\ r.m \in [Jobs -> Meta] /\ OnceEach(r.q)
    /\ \A x : In(x, r.q) <=> In(x, q)
    /\ \A x \in Jobs : r.m[x].arrival = m[x].arrival
    /\ r.q = <<>> <=> q = <<>>
    /\ q = <<>> => r.job = None
    /\ q # <<>> => IF e # None /\ ~is_preemptive THEN r.job = e /\ r.q = q ELSE r.job = r.q[1]

KeepsOrder(m, q, e, r) ==
    Sorted(m, q) /\ (scheme \notin {"RR", "PSRTF"} \/ e = None \/ e = q[1]) => Sorted(r.m, r.q)

LEMMA Answers ==
  ASSUME scheme \in AllSchemes, clock \in Nat, NEW m0 \in [Jobs -> Meta], NEW q \in Seq(Jobs),
         OnceEach(q), NEW job_evicted, job_evicted # None => q # <<>> /\ job_evicted \in Jobs
  PROVE  /\ Answer(m0, q, job_evicted, scheduler_quantum_expired(m0, q, job_evicted))
         /\ KeepsOrder(m0, q, job_evicted, scheduler_quantum_expired(m0, q, job_evicted))
<1> DEFINE m == Started(m0, q)
           r == scheduler_quantum_expired(m0, q, job_evicted)
<1>1. Len(q) \in Nat /\ \A i \in 1 .. Len(q) : q[i] \in Jobs
  BY LenProperties, ElementOfSeq
<1>2. q # <<>> => Head(q) = q[1] /\ q[1] \in Jobs
  BY HeadTailProperties
<1>0. clock \in Int
  OBVIOUS
<1>3. m \in [Jobs -> Meta]
  <2>1. CASE q # <<>> /\ m0[Head(q)].start = -1
    <3>1. [m0 EXCEPT ![Head(q)].start = clock] \in [Jobs -> Meta]
      BY <1>0, <1>2, <2>1, FieldSet
    <3> QED
      BY <2>1, <3>1 DEF Started
  <2>2. CASE ~(q # <<>> /\ m0[Head(q)].start = -1)
    BY <2>2, Zenon DEF Started
  <2> QED
    BY <2>1, <2>2
<1>4. \A x \in Jobs : Agree(m0, m, x)
  BY <1>2 DEF Started, Agree, Key, Meta, AllSchemes
<1> HIDE DEF m
<1>5. Sorted(m0, q) => Sorted(m, q)
  BY <1>1, <1>4, SortedAgain
<1>6. CASE job_evicted = None /\ q = <<>>
  <2>1. r = [q |-> q, m |-> m, job |-> None]
    BY <1>6 DEF m, scheduler_quantum_expired
  <2>2. r.q = q /\ r.m = m /\ r.job = None
    BY <2>1
  <2> HIDE DEF r
  <2>3. Answer(m0, q, job_evicted, r)
    BY <1>3, <1>4, <1>6, <2>2 DEF Answer, Agree
  <2>4. KeepsOrder(m0, q, job_evicted, r)
    BY <1>5, <2>2 DEF KeepsOrder
  <2> QED
    BY <2>3, <2>4 DEF r
<1>7. CASE job_evicted = None /\ q # <<>>
  <2> DEFINE n == [m EXCEPT ![Head(q)].resumed = clock]
  <2>1. r = [q |-> q, m |-> n, job |-> Head(q)]
    BY <1>7 DEF m, scheduler_quantum_expired
  <2>2. n \in [Jobs -> Meta]
    BY <1>0, <1>2, <1>3, <1>7, FieldSet, Zenon
  <2>3. \A x \in Jobs : Agree(m, n, x)
    BY <1>2, <1>3, <1>7 DEF Agree, Key, Meta, AllSchemes
  <2> HIDE DEF n
  <2>4. Sorted(m0, q) => Sorted(n, q)
    BY <1>1, <1>5, <2>3, SortedAgain
  <2>5. r.q = q /\ r.m = n /\ r.job = q[1]
    BY <1>2, <1>7, <2>1
  <2> HIDE DEF r
  <2>6. Answer(m0, q, job_evicted, r)
    BY <1>4, <1>7, <2>2, <2>3, <2>5 DEF Answer, Agree
  <2>7. KeepsOrder(m0, q, job_evicted, r)
    BY <2>4, <2>5 DEF KeepsOrder
  <2> QED
    BY <2>6, <2>7 DEF r
<1>8. CASE job_evicted # None /\ ~is_preemptive
  <2> DEFINE n == [m EXCEPT ![job_evicted].next = clock]
  <2>1. r = [q |-> q, m |-> n, job |-> job_evicted]
    BY <1>8 DEF m, scheduler_quantum_expired
  <2>2. n \in [Jobs -> Meta]
    BY <1>0, <1>3, <1>8, FieldSet, Zenon
  <2>3. \A x \in Jobs : Agree(m, n, x)
    BY <1>3, <1>8 DEF Agree, Key, Meta, AllSchemes, is_preemptive
  <2> HIDE DEF n
  <2>4. Sorted(m0, q) => Sorted(n, q)
    BY <1>1, <1>5, <2>3, SortedAgain
  <2>5. r.q = q /\ r.m = n /\ r.job = job_evicted
    BY <2>1
  <2> HIDE DEF r
  <2>6. Answer(m0, q, job_evicted, r)
    BY <1>4, <1>8, <2>2, <2>3, <2>5 DEF Answer, Agree
  <2>7. KeepsOrder(m0, q, job_evicted, r)
    BY <2>4, <2>5 DEF KeepsOrder
  <2> QED
    BY <2>6, <2>7 DEF r
<1>9. CASE job_evicted # None /\ is_preemptive
  <2> DEFINE e == q[1]
             v == job_evicted
             m1 == [m EXCEPT ![v].next = clock]
             m2 == [m1 EXCEPT ![e].resumed = clock]
             q1 == priqueue_offer(m2, Tail(q), e)
             m3 == [m2 EXCEPT ![v].remaining = @ - (clock - m2[v].resumed)]
  <2>1. q # <<>> /\ e \in Jobs /\ Head(q) = e /\ v \in Jobs
    BY <1>2, <1>9
  <2>2. r = [q |-> q1, m |-> m3, job |-> Head(q1)]
    BY <1>9, <2>1 DEF m, scheduler_quantum_expired, Preempt
  <2>3. m2 \in [Jobs -> Meta] /\ m2[e].resumed = clock
    <3>1. m1 \in [Jobs -> Meta]
      BY <1>0, <1>3, <2>1, FieldSet, Zenon
    <3> HIDE DEF m1
    <3>2. m2 \in [Jobs -> Meta]
      BY <1>0, <2>1, <3>1, FieldSet, Zenon
    <3> QED
      BY <2>1, <3>1, <3>2 DEF Meta
  <2>4. \A x \in Jobs \ {e} : v = e \/ scheme \notin {"RR", "PSRTF"} => Agree(m, m2, x)
    <3> TAKE x \in Jobs \ {e}
    <3> HIDE DEF e, v
    <3>1. CASE v = e
      BY <1>3, <2>1, <3>1 DEF Agree, Key, Meta, AllSchemes
    <3>2. CASE scheme \notin {"RR", "PSRTF"}
      BY <1>3, <2>1, <3>2 DEF Agree, Key, Meta, AllSchemes
    <3> QED
      BY <3>1, <3>2
  <2>5. \A x \in Jobs : m2[x].arrival = m[x].arrival
    <3> HIDE DEF e, v
    <3> QED
      BY <1>3, <2>1 DEF Meta
  <2>6. /\ m3 \in [Jobs -> Meta] /\ \A x \in Jobs : m3[x].arrival = m2[x].arrival
        /\ v = e \/ scheme \notin {"RR", "PSRTF"} => \A x \in Jobs : Agree(m2, m3, x)
    <3> HIDE DEF m2, e, v
    <3>1. m2[v].remaining \in Int /\ m2[v].resumed \in Int /\ m2[v] \in Meta
      BY <2>1, <2>3 DEF Meta
    <3> DEFINE c == m2[v].remaining - (clock - m2[v].resumed)
    <3>2. c \in Int
      BY <3>1
    <3>3. m3 = [m2 EXCEPT ![v].remaining = c]
      BY <2>1, <2>3
    <3>4. m3 \in [Jobs -> Meta]
      <4> HIDE DEF m3, c
      <4> QED
        BY <2>1, <2>3, <3>2, <3>3, FieldSet, Zenon
    <3>5. v = e => c = m2[v].remaining
      BY <2>3, <3>1
    <3> HIDE DEF c, m3
    <3>6. \A x \in Jobs : m3[x].arrival = m2[x].arrival
      BY <2>1, <2>3, <3>3 DEF Meta
    <3>7. CASE v = e
      <4>1. m3 = m2
        BY <2>1, <2>3, <3>3, <3>5, <3>7 DEF Meta
      <4> QED
        BY <3>4, <3>6, <4>1 DEF Agree
    <3>8. CASE scheme \notin {"RR", "PSRTF"}
      <4>1. \A x \in Jobs : Agree(m2, m3, x)
        BY <2>1, <2>3, <3>3, <3>8 DEF Agree, Key, Meta, AllSchemes
      <4> QED
        BY <3>4, <3>6, <4>1
    <3> QED
      BY <3>4, <3>6, <3>7, <3>8
  <2> HIDE DEF m1, m2, m3
  <2>7. /\ Tail(q) \in Seq(Jobs) /\ OnceEach(Tail(q))
        /\ Sorted(m, q) => Sorted(m, Tail(q))
        /\ \A x : In(x, Tail(q)) <=> In(x, q) /\ x # e
    BY <2>1, TailKeepsOrder
  <2>8. \A i \in 1 .. Len(Tail(q)) : Tail(q)[i] \in Jobs \ {e}
    BY <2>7, ElementOfSeq DEF In
  <2> DEFINE ok == Sorted(m0, q) /\ (scheme \notin {"RR", "PSRTF"} \/ v = e)
  <2>9. ok => Sorted(m2, Tail(q))
    BY <1>5, <2>4, <2>7, <2>8, SortedAgain
  <2>10. /\ q1 \in Seq(Jobs) /\ Len(q1) = Len(Tail(q)) + 1
         /\ ok => Sorted(m2, q1)
         /\ OnceEach(q1)
         /\ \A x : In(x, q1) <=> In(x, Tail(q)) \/ x = e
    <3>1. ~In(e, Tail(q))
      BY <2>7
    <3> DEFINE t == Tail(q)
    <3>2. q1 = priqueue_offer(m2, t, e)
      OBVIOUS
    <3>3. t \in Seq(Jobs) /\ OnceEach(t) /\ ~In(e, t) /\ (ok => Sorted(m2, t))
      BY <2>7, <2>9, <3>1
    <3> HIDE DEF q1, e, t, ok
    <3>4. /\ q1 \in Seq(Jobs) /\ Len(q1) = Len(t) + 1
          /\ Sorted(m2, t) => Sorted(m2, q1)
          /\ OnceEach(q1)
          /\ \A x : In(x, q1) <=> In(x, t) \/ x = e
      BY <2>1, <2>3, <3>2, <3>3, OfferKeepsOrder
    <3> QED
      BY <3>3, <3>4 DEF t
  <2> HIDE DEF q1
  <2>11. ok => Sorted(m3, q1)
    <3>1. \A i \in 1 .. Len(q1) : q1[i] \in Jobs
      BY <2>10, ElementOfSeq
    <3> QED
      BY <2>6, <2>10, <3>1, SortedAgain
  <2>12. q1 # <<>> /\ Head(q1) = q1[1]
    BY <2>7, <2>10
  <2>13. In(e, q) /\ \A x : In(x, q1) <=> In(x, q)
    <3>1. 1 \in 1 .. Len(q)
      BY <1>1, <2>1
    <3>2. In(e, q)
      BY <3>1 DEF In
    <3> QED
      BY <2>7, <2>10, <3>2
  <2>14. \A x \in Jobs : m3[x].arrival = m0[x].arrival
    BY <1>4, <2>5, <2>6 DEF Agree
  <2>15. r.q = q1 /\ r.m = m3 /\ r.job = q1[1]
    BY <2>2, <2>12
  <2> HIDE DEF r
  <2>16. Answer(m0, q, job_evicted, r)
    BY <1>9, <2>1, <2>6, <2>10, <2>12, <2>13, <2>14, <2>15 DEF Answer
  <2>17. KeepsOrder(m0, q, job_evicted, r)
    BY <1>9, <2>11, <2>15 DEF KeepsOrder
  <2> QED
    BY <2>16, <2>17 DEF r
<1> QED
  BY <1>6, <1>7, <1>8, <1>9

-----------------------------------------------------------------------------
(* The inductive invariant.                                                 *)

QTypes ==
    /\ scheme \in AllSchemes /\ clock \in Nat
    /\ pqueue \in Seq(Jobs) /\ info \in [Jobs -> Meta]
    /\ currjob \in Jobs \union {Main, None} /\ suspended \in Jobs \union {Main, None}
    /\ life \in [Jobs -> {"new", "alive", "done"}]
    /\ firstRun \in [Jobs -> Int] /\ overtaken \in BOOLEAN

\* The wrong job was polled: only with PRI and SJF, after an arrival in front of it.
QLost == currjob = None => overtaken /\ scheme \in {"PRI", "SJF"}

\* With FCFS a new job goes to the end.
QFcfs == scheme = "FCFS" => ~overtaken

\* The queue holds the jobs that are alive, once each.
QHeld == OnceEach(pqueue) /\ \A j \in Jobs : In(j, pqueue) <=> life[j] = "alive"

\* The job that has the processor, or had it when main took over, is in the queue, has had
\* its first turn, and has in front of it only jobs that had not.
QRuns == Running \in Jobs =>
            /\ In(Running, pqueue) /\ firstRun[Running] # -1
            /\ \A x \in Jobs : Ahead(pqueue, x, Running) => firstRun[x] = -1

\* It is the head, if it was not overtaken, and whenever a preemptive scheme lets it run.
QHead == Running \in Jobs /\ (~overtaken \/ (is_preemptive /\ currjob # Main)) =>
            pqueue # <<>> /\ pqueue[1] = Running

\* No job but main is suspended while a job runs.
QSuspended == currjob \in Jobs => suspended \notin Jobs

\* Nobody in the queue arrived later than now: with FCFS a new job precedes none.
QArrived == \A j \in Jobs : life[j] = "alive" => info[j].arrival <= clock

\* A job that has not arrived had no turn.
QNew == \A j \in Jobs : life[j] = "new" => firstRun[j] = -1

Ordered == ~(overtaken /\ scheme \in {"RR", "PSRTF"})

QSorted == Ordered => Sorted(info, pqueue)

QQueue == QHeld /\ QRuns /\ QHead /\ QSuspended /\ QArrived /\ QNew /\ QSorted

QInv == QTypes /\ QLost /\ QFcfs /\ (currjob # None => QQueue)

LEMMA QInit ==
  ASSUME Init
  PROVE  QInv
<1>1. QTypes
  <2>1. scheme \in AllSchemes /\ clock \in Nat /\ currjob = Main /\ suspended = None
        /\ life = [j \in Jobs |-> "new"] /\ firstRun = [j \in Jobs |-> -1] /\ overtaken = FALSE
        /\ pqueue = <<>>
    BY SchedulerAssumption DEF Init
  <2>2. info \in [Jobs -> [priority : 1 .. MaxPriority, running : 1 .. MaxRunning,
                          remaining : {0}, arrival : {0}, start : {-1}, next : {-1},
                          resumed : {0}]]
    BY DEF Init
  <2>3. info \in [Jobs -> Meta]
    BY <2>2, SchedulerAssumption DEF Meta
  <2>4. pqueue \in Seq(Jobs) /\ overtaken \in BOOLEAN /\ currjob \in {Main} /\ suspended \in {None}
    BY <2>1, EmptySeq
  <2>5. life \in [Jobs -> {"new", "alive", "done"}]
    BY <2>1
  <2>6. firstRun \in [Jobs -> Int]
    BY <2>1
  <2> QED
    BY <2>1, <2>3, <2>4, <2>5, <2>6, Zenon DEF QTypes
<1>2. pqueue = <<>> /\ Len(pqueue) = 0 /\ currjob = Main /\ suspended = None
      /\ life = [j \in Jobs |-> "new"] /\ firstRun = [j \in Jobs |-> -1] /\ overtaken = FALSE
  BY DEF Init
<1>3. QHeld /\ QArrived /\ QNew /\ Sorted(info, pqueue)
  BY <1>2 DEF QHeld, QArrived, QNew, Sorted, OnceEach, In
<1>4. QRuns /\ QHead /\ QSuspended
  BY <1>2, SchedulerAssumption DEF QRuns, QHead, QSuspended, Running
<1>5. QLost /\ QFcfs
  BY <1>2, SchedulerAssumption DEF QLost, QFcfs
<1> QED
  BY <1>1, <1>3, <1>4, <1>5 DEF QInv, QQueue, QSorted

\* Nobody is in front of the head.
LEMMA HeadFirst ==
  ASSUME NEW q \in Seq(Jobs), OnceEach(q), q # <<>>, NEW x
  PROVE  ~Ahead(q, x, q[1])
<1> SUFFICES ASSUME Ahead(q, x, q[1]) PROVE FALSE
  OBVIOUS
<1>1. Len(q) \in Nat \ {0} /\ DOMAIN q = 1 .. Len(q)
  BY LenProperties, EmptySeq
<1>2. PICK i \in 1 .. Len(q), k \in 1 .. Len(q) : i < k /\ q[k] = q[1]
  BY <1>1 DEF Ahead
<1>3. k = 1
  BY <1>1, <1>2 DEF OnceEach
<1> QED
  BY <1>1, <1>2, <1>3

\* The end of gtyield, with the scheduler's answer about the jobs that are alive now.
LEMMA Switched ==
  ASSUME QInv, currjob # None, NEW q, NEW e, NEW r, Answer(info, q, e, r), SwitchTo(r),
         Ordered => Sorted(r.m, r.q),
         e # None => e = Running /\ e \in Jobs /\ q = pqueue,
         scheme' = scheme, clock' = clock, overtaken' = overtaken,
         life' \in [Jobs -> {"new", "alive", "done"}],
         \A x \in Jobs : life'[x] = "alive" => life[x] = "alive",
         \A x \in Jobs : life'[x] = "new" => life[x] = "new",
         \A x \in Jobs : In(x, q) <=> life'[x] = "alive",
         suspended' \in {Main, None}
  PROVE  QInv'
<1>0. /\ QTypes /\ QFcfs /\ QRuns /\ QHead /\ QArrived /\ QNew
      /\ r.q \in Seq(Jobs) /\ r.m \in [Jobs -> Meta] /\ OnceEach(r.q)
      /\ \A x : In(x, r.q) <=> In(x, q)
      /\ \A x \in Jobs : r.m[x].arrival = info[x].arrival
      /\ r.q = <<>> <=> q = <<>>
      /\ q = <<>> => r.job = None
      /\ q # <<>> => IF e # None /\ ~is_preemptive THEN r.job = e /\ r.q = q ELSE r.job = r.q[1]
  BY DEF QInv, QQueue, Answer
<1>1. /\ pqueue' = r.q /\ info' = r.m
      /\ currjob' = IF r.job = None THEN Main ELSE r.job
      /\ firstRun' = [j \in Jobs |-> IF j = r.job /\ firstRun[j] = -1 THEN clock ELSE firstRun[j]]
  BY DEF SwitchTo
<1>2. r.q # <<>> => r.q[1] \in Jobs /\ In(r.q[1], r.q)
  <2>1. r.q # <<>> => 1 \in 1 .. Len(r.q)
    BY <1>0, EmptySeq, LenProperties
  <2> QED
    BY <1>0, <2>1, ElementOfSeq DEF In
\* The job that goes on is the head, or the one that asked.
<1>3. \/ r.job = None
      \/ r.q # <<>> /\ r.job = r.q[1]
      \/ ~is_preemptive /\ r.job = Running /\ Running \in Jobs /\ r.q = pqueue
  BY <1>0
<1>4. r.job # None => r.job \in Jobs /\ In(r.job, r.q)
  <2>1. Running \in Jobs => In(Running, pqueue)
    BY <1>0 DEF QRuns
  <2> QED
    BY <1>2, <1>3, <2>1
<1>5. currjob' # None /\ currjob' \in Jobs \union {Main} /\ (currjob' \in Jobs <=> r.job # None)
  BY <1>1, <1>4, SchedulerAssumption
<1>6. QTypes'
  <2>1. firstRun' \in [Jobs -> Int]
    BY <1>0, <1>1 DEF QTypes
  <2> QED
    BY <1>0, <1>1, <1>5, <2>1 DEF QTypes
<1>7. QHeld'
  <2>1. \A x \in Jobs : In(x, r.q) <=> life'[x] = "alive"
    BY <1>0
  <2> QED
    BY <1>0, <1>1, <2>1 DEF QHeld, OnceEach, In
<1>8. QSuspended' /\ (Running' \in Jobs => r.job # None /\ Running' = r.job)
  BY <1>1, <1>5, SchedulerAssumption DEF QSuspended, Running
<1>9. QLost' /\ QFcfs'
  BY <1>0, <1>5 DEF QLost, QFcfs
<1>10. QNew'
  <2> SUFFICES ASSUME NEW x \in Jobs, life'[x] = "new" PROVE firstRun'[x] = -1
    BY DEF QNew
  <2>1. x # r.job
    <3>1. ~In(x, r.q)
      BY <1>0
    <3> QED
      BY <1>4, <3>1, SchedulerAssumption
  <2>2. firstRun[x] = -1
    BY <1>0 DEF QNew
  <2> QED
    BY <1>1, <2>1, <2>2
<1>11. ASSUME Running' \in Jobs
       PROVE  /\ In(Running, pqueue)' /\ firstRun'[Running'] # -1
              /\ \A x \in Jobs : Ahead(pqueue', x, Running') => firstRun'[x] = -1
              /\ ~overtaken \/ is_preemptive => pqueue' # <<>> /\ pqueue'[1] = Running'
  <2>1. r.job \in Jobs /\ Running' = r.job /\ In(r.job, r.q)
    BY <1>4, <1>8, <1>11
  <2>2. firstRun'[r.job] # -1
    <3>1. clock # -1
      BY <1>0 DEF QTypes
    <3> QED
      BY <1>1, <2>1, <3>1
  <2>3. In(Running, pqueue)'
    BY <1>1, <2>1 DEF In
  <2>4. CASE r.q # <<>> /\ r.job = r.q[1]
    <3>1. \A x : ~Ahead(r.q, x, r.q[1])
      BY <1>0, <2>4, HeadFirst
    <3> QED
      BY <1>1, <2>1, <2>2, <2>3, <2>4, <3>1
  <2>5. CASE ~is_preemptive /\ r.job = Running /\ Running \in Jobs /\ r.q = pqueue
    <3>1. firstRun[Running] # -1 /\ \A x \in Jobs : Ahead(pqueue, x, Running) => firstRun[x] = -1
      BY <1>0, <2>5 DEF QRuns
    <3>2. \A x \in Jobs : firstRun'[x] = firstRun[x]
      BY <1>1, <2>5, <3>1
    <3>3. ~overtaken => pqueue # <<>> /\ pqueue[1] = Running
      BY <1>0, <2>5 DEF QHead
    <3> QED
      BY <1>1, <2>1, <2>2, <2>3, <2>5, <3>1, <3>2, <3>3
  <2> QED
    BY <1>3, <2>1, <2>4, <2>5, SchedulerAssumption
<1>12. QRuns'
  BY <1>11 DEF QRuns
<1>13. QHead'
  BY <1>11 DEF QHead, is_preemptive
<1>14. QArrived'
  BY <1>0, <1>1 DEF QArrived
<1>15. QSorted'
  <2>1. Ordered' = Ordered
    BY DEF Ordered
  <2>2. Ordered => Sorted(r.m, r.q)
    OBVIOUS
  <2> QED
    BY <1>1, <2>1, <2>2 DEF QSorted, Sorted, Precedes, Key
<1> QED
  BY <1>6, <1>7, <1>8, <1>9, <1>10, <1>12, <1>13, <1>14, <1>15 DEF QInv, QQueue

LEMMA NewJobKeeps ==
  ASSUME QInv, NEW j \in Jobs, NewJob(j)
  PROVE  QInv'
<1>1. /\ currjob = Main /\ life[j] = "new"
      /\ info' = [info EXCEPT ![j].arrival = clock, ![j].resumed = clock,
                              ![j].remaining = info[j].running]
      /\ pqueue' = priqueue_offer(info', pqueue, j)
      /\ life' = [life EXCEPT ![j] = "alive"]
      /\ overtaken' = (overtaken \/ Ahead(pqueue', j, Running))
      /\ scheme' = scheme /\ currjob' = currjob /\ suspended' = suspended
      /\ clock' = clock /\ firstRun' = firstRun
  BY DEF NewJob
<1>0. /\ QTypes /\ QFcfs /\ QHeld /\ QRuns /\ QHead /\ QSuspended /\ QArrived /\ QNew /\ QSorted
      /\ currjob # None
  BY <1>1, SchedulerAssumption DEF QInv, QQueue
<1>2. /\ scheme \in AllSchemes /\ clock \in Int /\ pqueue \in Seq(Jobs)
      /\ info \in [Jobs -> Meta] /\ Len(pqueue) \in Nat /\ overtaken \in BOOLEAN
  BY <1>0 DEF QTypes
<1>3. info' \in [Jobs -> Meta] /\ info'[j].arrival = clock /\ \A x \in Jobs \ {j} : info'[x] = info[x]
  <2>1. info[j] \in Meta /\ info[j].running \in Int
    BY <1>2 DEF Meta
  <2>2. [info[j] EXCEPT !.arrival = clock, !.resumed = clock, !.remaining = info[j].running] \in Meta
    BY <1>2, <2>1 DEF Meta
  <2>3. /\ info'[j] = [info[j] EXCEPT !.arrival = clock, !.resumed = clock,
                                      !.remaining = info[j].running]
        /\ info' = [info EXCEPT ![j] = info'[j]]
    BY <1>1, <1>2
  <2>4. info'[j].arrival = clock
    BY <2>1, <2>3 DEF Meta
  <2>5. info' \in [Jobs -> Meta]
    BY <1>2, <2>2, <2>3
  <2> QED
    BY <1>2, <2>3, <2>4, <2>5
<1>4. ~In(j, pqueue) /\ OnceEach(pqueue)
  BY <1>0, <1>1 DEF QHeld
<1>5. \A i \in 1 .. Len(pqueue) : pqueue[i] \in Jobs \ {j} /\ life[pqueue[i]] = "alive"
  <2> TAKE i \in 1 .. Len(pqueue)
  <2>1. pqueue[i] \in Jobs /\ In(pqueue[i], pqueue)
    BY <1>2, ElementOfSeq DEF In
  <2> QED
    BY <1>0, <1>4, <2>1 DEF QHeld
<1>6. Sorted(info, pqueue) => Sorted(info', pqueue)
  <2>1. \A i \in 1 .. Len(pqueue) : Agree(info, info', pqueue[i])
    BY <1>3, <1>5 DEF Agree
  <2> QED
    BY <1>2, <2>1, SortedAgain
<1>7. /\ pqueue' \in Seq(Jobs) /\ Len(pqueue') = Len(pqueue) + 1
      /\ Sorted(info', pqueue) => Sorted(info', pqueue')
      /\ OnceEach(pqueue')
      /\ \A x : In(x, pqueue') <=> In(x, pqueue) \/ x = j
      /\ \A x, y : Ahead(pqueue', x, y) /\ x # j /\ y # j => Ahead(pqueue, x, y)
      /\ pqueue # <<>> /\ ~Ahead(pqueue', j, pqueue[1]) => pqueue'[1] = pqueue[1]
      /\ (\A i \in 1 .. Len(pqueue) : ~Precedes(info', j, pqueue[i])) =>
            \A y : ~Ahead(pqueue', j, y)
  <2>1. ASSUME NEW m \in [Jobs -> Meta], NEW r, r = priqueue_offer(m, pqueue, j)
        PROVE  /\ r \in Seq(Jobs) /\ Len(r) = Len(pqueue) + 1
               /\ Sorted(m, pqueue) => Sorted(m, r)
               /\ OnceEach(r)
               /\ \A x : In(x, r) <=> In(x, pqueue) \/ x = j
               /\ \A x, y : Ahead(r, x, y) /\ x # j /\ y # j => Ahead(pqueue, x, y)
               /\ pqueue # <<>> /\ ~Ahead(r, j, pqueue[1]) => r[1] = pqueue[1]
               /\ (\A i \in 1 .. Len(pqueue) : ~Precedes(m, j, pqueue[i])) => \A y : ~Ahead(r, j, y)
    BY <1>2, <1>4, <2>1, OfferKeepsOrder
  <2> QED
    BY <1>1, <1>3, <2>1
<1>8. QTypes'
  BY <1>0, <1>1, <1>3, <1>7 DEF QTypes
<1>9. QHeld'
  <2>1. \A x \in Jobs : In(x, pqueue') <=> life'[x] = "alive"
    BY <1>0, <1>1, <1>7 DEF QHeld, QTypes
  <2> QED
    BY <1>7, <2>1 DEF QHeld, OnceEach, In
<1>10. QSuspended'
  BY <1>0, <1>1 DEF QSuspended
<1>11. QFcfs' /\ QLost'
  <2>1. ASSUME scheme = "FCFS" PROVE \A y : ~Ahead(pqueue', j, y)
    <3>1. ASSUME NEW i \in 1 .. Len(pqueue) PROVE ~Precedes(info', j, pqueue[i])
      <4>1. pqueue[i] \in Jobs \ {j} /\ life[pqueue[i]] = "alive"
        BY <1>5
      <4>2. info'[pqueue[i]] = info[pqueue[i]] /\ info[pqueue[i]] \in Meta
        BY <1>2, <1>3, <4>1
      <4>3. info'[pqueue[i]].arrival <= clock /\ info'[pqueue[i]].arrival \in Int
        BY <1>0, <4>1, <4>2 DEF QArrived, Meta
      <4> QED
        BY <1>2, <1>3, <2>1, <4>3 DEF Precedes, Key
    <3> QED
      BY <1>7, <3>1
  <2>2. QFcfs'
    BY <1>0, <1>1, <2>1 DEF QFcfs
  <2>3. QLost'
    BY <1>0, <1>1 DEF QLost
  <2> QED
    BY <2>2, <2>3
<1>12. Running' = Running
  BY <1>1 DEF Running
<1>13. QNew'
  BY <1>0, <1>1 DEF QNew, QTypes
<1>14. ASSUME Running \in Jobs
       PROVE  /\ Running # j /\ In(Running, pqueue') /\ firstRun[Running] # -1
              /\ \A x \in Jobs : Ahead(pqueue', x, Running) => firstRun[x] = -1
  <2>1. /\ In(Running, pqueue) /\ firstRun[Running] # -1
        /\ \A x \in Jobs : Ahead(pqueue, x, Running) => firstRun[x] = -1
    BY <1>0, <1>14 DEF QRuns
  <2>2. firstRun[j] = -1 /\ Running # j
    BY <1>0, <1>1, <2>1 DEF QNew
  <2> QED
    BY <1>7, <2>1, <2>2
<1>15. QRuns'
  <2>1. Running' \in Jobs => /\ In(Running', pqueue') /\ firstRun'[Running'] # -1
                             /\ \A x \in Jobs : Ahead(pqueue', x, Running') => firstRun'[x] = -1
    BY <1>1, <1>12, <1>14
  <2> QED
    BY <2>1 DEF QRuns, In
<1>16. QHead'
  <2> SUFFICES ASSUME Running \in Jobs, ~overtaken' PROVE pqueue' # <<>> /\ pqueue'[1] = Running
    BY <1>1, <1>12 DEF QHead
  <2>1. ~overtaken /\ ~Ahead(pqueue', j, Running)
    BY <1>1
  <2>2. pqueue # <<>> /\ pqueue[1] = Running
    BY <1>0, <2>1 DEF QHead
  <2>3. pqueue' # <<>>
    BY <1>2, <1>7, EmptySeq
  <2> QED
    BY <1>7, <2>1, <2>2, <2>3
<1>17. QArrived'
  <2> SUFFICES ASSUME NEW x \in Jobs, life'[x] = "alive" PROVE info'[x].arrival <= clock
    BY <1>1 DEF QArrived
  <2>1. CASE x = j
    BY <1>2, <1>3, <2>1
  <2>2. CASE x # j
    BY <1>0, <1>1, <1>3, <2>2 DEF QArrived, QTypes
  <2> QED
    BY <2>1, <2>2
<1>18. QSorted'
  <2>1. Ordered' => Ordered
    BY <1>1 DEF Ordered
  <2>2. Ordered' => Sorted(info', pqueue')
    BY <1>0, <1>6, <1>7, <2>1 DEF QSorted
  <2> QED
    BY <1>1, <2>2 DEF QSorted, Sorted, Precedes, Key
<1> QED
  BY <1>8, <1>9, <1>10, <1>11, <1>13, <1>15, <1>16, <1>17, <1>18 DEF QInv, QQueue

\* What a step that leaves the queue alone keeps.
LEMMA SameQueue ==
  ASSUME QTypes, QQueue, QFcfs, QTypes',
         scheme' = scheme, clock' \in {clock, clock + 1}, pqueue' = pqueue, info' = info,
         life' = life, firstRun' = firstRun, overtaken' = overtaken,
         currjob' # None, QSuspended',
         Running' \in Jobs => Running' = Running /\ (currjob' = currjob \/ currjob' = Main)
  PROVE  QInv'
<1>0. QHeld /\ QRuns /\ QHead /\ QArrived /\ QNew /\ QSorted
  BY DEF QQueue
<1>1. QHeld' /\ QNew' /\ QFcfs' /\ QLost'
  BY <1>0 DEF QHeld, QNew, QFcfs, QLost, OnceEach, In
<1>2. QArrived'
  <2> SUFFICES ASSUME NEW x \in Jobs, life[x] = "alive" PROVE info[x].arrival <= clock'
    BY DEF QArrived
  <2>1. info[x].arrival \in Int /\ info[x].arrival <= clock /\ clock \in Nat
    BY <1>0 DEF QArrived, QTypes, Meta
  <2> QED
    BY <2>1
<1>3. QRuns'
  BY <1>0 DEF QRuns, In, Ahead
<1>4. QHead'
  BY <1>0 DEF QHead, is_preemptive
<1>5. QSorted'
  BY <1>0 DEF QSorted, Ordered, Sorted, Precedes, Key
<1> QED
  BY <1>1, <1>2, <1>3, <1>4, <1>5 DEF QInv, QQueue

\* Every step of the scheduler keeps the invariant.
LEMMA SchedulerKeeps ==
  ASSUME QInv, [Next]_vars
  PROVE  QInv'
<1>10. ASSUME UNCHANGED vars PROVE QInv'
  BY <1>10, ZenonT(40) DEF vars, QInv, QTypes, QLost, QFcfs, QQueue, QHeld, QRuns, QHead, QSuspended,
             QArrived, QNew, QSorted, Ordered, Running, Sorted, OnceEach, In, Ahead, Precedes, Key,
             is_preemptive
<1> SUFFICES ASSUME Next PROVE QInv'
  BY <1>10
<1>12. currjob # None
  BY SchedulerAssumption DEF Next, NewJob, MainYields, MainResumes, Alarm, JobFinished, Tick, Alive
<1>0. QTypes /\ QFcfs /\ QQueue /\ QHeld /\ QRuns /\ QHead /\ QSuspended /\ QArrived /\ QNew /\ QSorted
  BY <1>12 DEF QInv, QQueue
<1>1. /\ scheme \in AllSchemes /\ clock \in Nat /\ pqueue \in Seq(Jobs)
      /\ info \in [Jobs -> Meta] /\ OnceEach(pqueue)
      /\ currjob \in Jobs \union {Main, None} /\ suspended \in Jobs \union {Main, None}
      /\ life \in [Jobs -> {"new", "alive", "done"}] /\ firstRun \in [Jobs -> Int]
      /\ overtaken \in BOOLEAN
  BY <1>0 DEF QTypes, QHeld
<1>2. \A x \in Jobs : In(x, pqueue) <=> life[x] = "alive"
  BY <1>0 DEF QHeld
<1> DEFINE a == scheduler_quantum_expired(info, pqueue, None)
<1>13. Answer(info, pqueue, None, a) /\ (Ordered => Sorted(a.m, a.q))
  <2>1. Answer(info, pqueue, None, a) /\ KeepsOrder(info, pqueue, None, a)
    BY <1>1, Answers
  <2> HIDE DEF a
  <2> QED
    BY <1>0, <2>1 DEF KeepsOrder, QSorted
<1> DEFINE b == scheduler_quantum_expired(info, pqueue, Running)
<1>4. ASSUME Running \in Jobs
      PROVE  /\ Answer(info, pqueue, Running, b) /\ (Ordered => Sorted(b.m, b.q))
             /\ pqueue # <<>>
  <2>1. pqueue # <<>>
    <3>1. In(Running, pqueue)
      BY <1>0, <1>4 DEF QRuns
    <3>2. pqueue = <<>> => Len(pqueue) = 0
      OBVIOUS
    <3> QED
      BY <3>1, <3>2 DEF In
  <2>2. Running # None
    BY <1>4, SchedulerAssumption
  <2>3. Answer(info, pqueue, Running, b) /\ KeepsOrder(info, pqueue, Running, b)
    BY <1>1, <1>4, <2>1, <2>2, Answers
  <2>4. ~overtaken => Running = pqueue[1]
    BY <1>0, <1>4 DEF QHead
  <2> HIDE DEF b
  <2>5. Ordered => Sorted(b.m, b.q)
    BY <1>0, <2>3, <2>4 DEF KeepsOrder, QSorted, Ordered
  <2> QED
    BY <2>1, <2>3, <2>5
<1>5. ASSUME NEW alarm \in BOOLEAN, MainYields(alarm) PROVE QInv'
  <2>1. /\ SwitchTo(a)
        /\ suspended' \in {Main, None}
        /\ scheme' = scheme /\ clock' = clock /\ life' = life /\ overtaken' = overtaken
    BY <1>5 DEF MainYields
  <2> HIDE DEF a
  <2> QED
    BY <1>1, <1>2, <1>12, <1>13, <2>1, Switched
<1>6. ASSUME MainResumes PROVE QInv'
  <2>1. /\ currjob = Main /\ suspended # None /\ suspended' = None
        /\ scheme' = scheme /\ clock' = clock /\ life' = life /\ overtaken' = overtaken
    BY <1>6 DEF MainResumes
  <2>2. CASE suspended = Main
    <3>1. pqueue' = pqueue /\ info' = info /\ currjob' = currjob /\ firstRun' = firstRun
      BY <1>6, <2>2 DEF MainResumes
    <3>2. QSuspended' /\ Running' \notin Jobs /\ currjob' # None
      BY <1>12, <2>1, <3>1, SchedulerAssumption DEF QSuspended, Running
    <3>3. QTypes'
      BY <1>0, <2>1, <3>1 DEF QTypes
    <3> QED
      BY <1>0, <2>1, <3>1, <3>2, <3>3, SameQueue
  <2>3. CASE suspended # Main
    <3>1. Running \in Jobs /\ Running = suspended
      BY <1>1, <2>1, <2>3 DEF Running
    <3>2. SwitchTo(b)
      BY <1>6, <2>3, <3>1 DEF MainResumes
    <3>3. Running # None
      BY <3>1, SchedulerAssumption
    <3> HIDE DEF b
    <3> QED
      BY <1>1, <1>2, <1>4, <1>12, <2>1, <3>1, <3>2, <3>3, Switched
  <2> QED
    BY <2>2, <2>3
<1>7. ASSUME Alarm PROVE QInv'
  <2>1. /\ currjob \in Jobs /\ currjob # Main
        /\ scheme' = scheme /\ clock' = clock /\ life' = life /\ overtaken' = overtaken
    BY <1>7, SchedulerAssumption DEF Alarm
  <2>2. CASE counter' = 0
    <3>1. /\ suspended' = currjob /\ currjob' = Main
          /\ pqueue' = pqueue /\ info' = info /\ firstRun' = firstRun
      BY <1>7, <2>2 DEF Alarm
    <3>2. QSuspended' /\ Running' = Running /\ currjob' # None
      BY <2>1, <3>1, SchedulerAssumption DEF QSuspended, Running
    <3>3. QTypes'
      BY <1>0, <2>1, <3>1 DEF QTypes
    <3> QED
      BY <1>0, <2>1, <3>1, <3>2, <3>3, SameQueue
  <2>3. CASE counter' # 0
    <3>1. SwitchTo(scheduler_quantum_expired(info, pqueue, currjob)) /\ suspended' = suspended
      BY <1>7, <2>3 DEF Alarm
    <3>2. Running = currjob /\ suspended \in {Main, None} /\ Running # None
      BY <1>0, <1>1, <1>12, <2>1 DEF QSuspended, Running
    <3>3. SwitchTo(b)
      BY <3>1, <3>2
    <3> HIDE DEF b
    <3> QED
      BY <1>1, <1>2, <1>4, <1>12, <2>1, <3>1, <3>2, <3>3, Switched
  <2> QED
    BY <2>2, <2>3
<1>8. ASSUME JobFinished PROVE QInv'
  <2>1. /\ currjob \in Jobs /\ currjob # Main
        /\ life' = [life EXCEPT ![currjob] = "done"]
        /\ scheme' = scheme /\ clock' = clock /\ suspended' = suspended /\ overtaken' = overtaken
    BY <1>8, SchedulerAssumption DEF JobFinished, Alive
  <2>2. Running = currjob /\ suspended \in {Main, None} /\ Running \in Jobs
    BY <1>0, <1>1, <2>1 DEF QSuspended, Running
  <2>3. pqueue # <<>> /\ Polled(pqueue) = Tail(pqueue)
    BY <1>4, <2>2 DEF Polled
  <2>4. Head(pqueue) = pqueue[1]
    BY <1>1, <2>3
  <2>5. /\ Tail(pqueue) \in Seq(Jobs) /\ OnceEach(Tail(pqueue))
        /\ Sorted(info, pqueue) => Sorted(info, Tail(pqueue))
        /\ \A x : In(x, Tail(pqueue)) <=> In(x, pqueue) /\ x # pqueue[1]
    BY <1>1, <2>3, TailKeepsOrder
  <2>6. life' \in [Jobs -> {"new", "alive", "done"}]
        /\ (\A x \in Jobs : life'[x] = "alive" => life[x] = "alive")
        /\ (\A x \in Jobs : life'[x] = "new" => life[x] = "new")
    BY <1>1, <2>1
  <2> DEFINE t == Tail(pqueue)
             c == scheduler_quantum_expired(info, t, None)
  <2>7. CASE Head(pqueue) = currjob
    <3>1. SwitchTo(c)
      BY <1>8, <2>3, <2>7 DEF JobFinished
    <3> HIDE DEF t
    <3>2. Answer(info, t, None, c) /\ KeepsOrder(info, t, None, c)
      BY <1>1, <2>5, Answers DEF t
    <3> HIDE DEF c
    <3>3. Ordered => Sorted(c.m, c.q)
      BY <1>0, <2>5, <3>2 DEF t, KeepsOrder, QSorted
    <3>4. \A x \in Jobs : In(x, t) <=> life'[x] = "alive"
      BY <1>1, <1>2, <2>1, <2>4, <2>5, <2>7 DEF t
    <3> QED
      BY <1>12, <2>1, <2>2, <2>6, <3>1, <3>2, <3>3, <3>4, Switched
  <2>8. CASE Head(pqueue) # currjob
    <3>1. pqueue' = Tail(pqueue) /\ currjob' = None /\ info' = info /\ firstRun' = firstRun
      BY <1>8, <2>3, <2>8 DEF JobFinished
    <3>2. overtaken /\ ~is_preemptive
      BY <1>0, <2>1, <2>2, <2>4, <2>8 DEF QHead
    <3>3. scheme \in {"PRI", "SJF"}
      BY <1>0, <1>1, <3>2 DEF QFcfs, is_preemptive, AllSchemes
    <3>4. QTypes'
      BY <1>1, <2>1, <2>2, <2>5, <2>6, <3>1 DEF QTypes
    <3>5. QLost' /\ QFcfs'
      BY <1>0, <2>1, <3>2, <3>3 DEF QLost, QFcfs
    <3> QED
      BY <3>1, <3>4, <3>5 DEF QInv
  <2> QED
    BY <2>7, <2>8
<1>9. ASSUME Tick PROVE QInv'
  <2>1. /\ clock' = clock + 1 /\ scheme' = scheme /\ pqueue' = pqueue /\ info' = info
        /\ currjob' = currjob /\ suspended' = suspended /\ life' = life /\ firstRun' = firstRun
        /\ overtaken' = overtaken
    BY <1>9 DEF Tick
  <2>2. QSuspended' /\ Running' = Running
    BY <1>0, <2>1 DEF QSuspended, Running
  <2>3. QTypes'
    <3>1. clock' \in Nat
      BY <1>1, <2>1
    <3> QED
      BY <1>0, <2>1, <3>1 DEF QTypes
  <2> QED
    BY <1>0, <1>12, <2>1, <2>2, <2>3, SameQueue
<1> QED
  BY <1>5, <1>6, <1>7, <1>8, <1>9, NewJobKeeps DEF Next

LEMMA QInvImpliesQueueRight ==
  ASSUME QInv
  PROVE  QueueRight
<1>0. QTypes /\ QLost /\ QFcfs
  BY DEF QInv
<1>1. pqueue \in Seq(Jobs) /\ Len(pqueue) \in Nat /\ DOMAIN pqueue = 1 .. Len(pqueue)
      /\ \A i \in 1 .. Len(pqueue) : pqueue[i] \in Jobs
  BY <1>0, LenProperties, ElementOfSeq DEF QTypes
<1>2. CASE currjob = None
  BY <1>0, <1>2 DEF QueueRight, HeadRuns, QueueInOrder, QLost, QFcfs
<1>3. CASE currjob # None
  <2>0. QHeld /\ QRuns /\ QHead /\ QSorted
    BY <1>3 DEF QInv, QQueue
  <2>1. QueueInOrder
    BY <2>0 DEF QSorted, Ordered, Sorted, QueueInOrder
  <2>2. \A x : x \in ToSet(pqueue) <=> In(x, pqueue)
    BY <1>1 DEF ToSet, In
  <2>3. ToSet(pqueue) = Alive
    <3>1. \A x : In(x, pqueue) => x \in Jobs
      BY <1>1 DEF In
    <3>2. \A x : x \in Alive <=> In(x, pqueue)
      BY <2>0, <3>1 DEF Alive, QHeld
    <3> QED
      BY <2>2, <3>2
  <2>4. Len(pqueue) = Cardinality(Alive)
    <3> DEFINE D == 1 .. Len(pqueue)
    <3>1. IsFiniteSet(D) /\ Cardinality(D) = Len(pqueue)
      <4>1. ASSUME NEW n \in Nat PROVE IsFiniteSet(1 .. n) /\ Cardinality(1 .. n) = n
        BY FS_Interval
      <4> QED
        BY <1>1, <4>1
    <3>2. pqueue \in Bijection(D, Alive)
      <4>1. pqueue \in [D -> Alive] /\ \A x \in Alive : \E i \in D : pqueue[i] = x
        BY <1>1, <2>3 DEF ToSet
      <4>2. \A i, k \in D : pqueue[i] = pqueue[k] => i = k
        BY <2>0 DEF QHeld, OnceEach
      <4> QED
        BY <4>1, <4>2 DEF Bijection, Injection, Surjection, IsInjective
    <3> HIDE DEF D
    <3>3. ExistsBijection(D, Alive)
      BY <3>2 DEF ExistsBijection
    <3> QED
      BY <3>1, <3>3, FS_Bijection
  <2>5. ASSUME Running \in Jobs
        PROVE  /\ Running \in ToSet(pqueue)
               /\ ~overtaken \/ (is_preemptive /\ currjob # Main) => Head(pqueue) = Running
               /\ \A j \in Jobs : Ahead(pqueue, j, Running) => firstRun[j] = -1
    <3>1. pqueue # <<>> => Head(pqueue) = pqueue[1]
      BY <1>1
    <3> QED
      BY <2>0, <2>2, <2>5, <3>1 DEF QRuns, QHead
  <2>6. HeadRuns
    BY <1>0, <1>3, <2>3, <2>4, <2>5 DEF HeadRuns, QLost, QFcfs
  <2> QED
    BY <2>1, <2>6 DEF QueueRight
<1> QED
  BY <1>2, <1>3

\* libscheduler.c:186-266: jobs arrive, also in front of the one that has the processor,
\* alarms come and jobs end in any order, whatever the scheme, the jobs and their times.  The
\* queue holds the jobs that are alive, once each; the job that has the processor has in
\* front of it only jobs that never ran, is the head unless it was overtaken, and is the
\* head again when a preemptive scheme lets it run.  The wrong job is polled at a job's end
\* with PRI and SJF only, after such an arrival.
THEOREM QueueStaysRight == SSSpec => []QueueRight
<1>1. SSInit => QInv
  BY QInit DEF SSInit
<1>2. QInv /\ [SSNext]_allvars => QInv'
  <2> SUFFICES ASSUME QInv, [SSNext]_allvars PROVE QInv'
    OBVIOUS
  <2>1. [Next]_vars
    BY DEF SSNext, allvars, vars
  <2> QED
    BY <2>1, SchedulerKeeps
<1>3. QInv => QueueRight
  BY QInvImpliesQueueRight
<1> QED
  BY <1>1, <1>2, <1>3, PTL DEF SSSpec

-----------------------------------------------------------------------------
(* The contexts and stacks of gthreads.c.                                   *)

GTypes ==
    /\ mode \in {"run", "yield", "ask", "switch", "crashed", "exit"}
    /\ gt_on \in Gt!GtThreads /\ gt_curr \in Gt!GtThreads
    /\ gt_suspended \in Gt!GtThreads \union {Gt!NoThread}
    /\ place \in [Gt!GtThreads -> {"user", "queued", "stopping"}]
    /\ gt_sig \in [Gt!GtThreads -> {0, 1, 14, -1}]
    /\ ctx \in [Gt!GtThreads -> {"unset", "work", "back", "wake"}]
    /\ leak_stack \in Gt!GtThreads /\ frees \in [Gt!JobIds -> Nat]
    /\ jobcount \in Nat /\ job_count \in Int

Queued == place[Gt!gtmain] = "queued"

\* How many jobs main has made when s is left of its calls.
Made(s, n) ==
    \/ s = <<"go", "go", "start">> /\ n = 0
    \/ s = <<"go", "start">> /\ n = 1
    \/ s = <<"start">> /\ n = 2
    \/ s = <<"start", "go", "sleep", "go">> /\ n = 0
    \/ s = <<"go", "sleep", "go">> /\ n \in {0, 1}
    \/ s = <<"sleep", "go">> /\ n \in {1, 2}
    \/ s = <<"go">> /\ n \in {1, 2}
    \/ s = <<"start", "go", "go", "sleep", "go">> /\ n = 0
    \/ s = <<"go", "go", "sleep", "go">> /\ n = 0
    \/ s = <<>> /\ n \in {2, 3}

GScript ==
    /\ place[Gt!gtmain] \in {"user", "queued"}
    /\ Made(script, IF Queued THEN jobcount - 1 ELSE jobcount)
    /\ Queued => script # <<>> /\ Head(script) = "go"

\* The jobs that the scheduler holds and those that were freed are jobs that were made.
GJobs ==
    /\ held \subseteq 1 .. jobcount /\ held \subseteq Gt!JobIds
    /\ freed_jobs \subseteq 1 .. jobcount /\ freed_jobs \subseteq Gt!JobIds
    /\ \A j \in Gt!JobIds : /\ place[j] # "queued"
                            /\ j > jobcount => place[j] = "user" /\ ctx[j] = "unset"

\* Who runs, who is the current one and who is suspended.
GRuns ==
    /\ mode \in {"run", "yield", "ask"} => gt_on = gt_curr
    /\ mode = "switch" => gt_on # gt_curr
    /\ gt_curr # Gt!gtmain => gt_curr \in held
    /\ gt_suspended \in Gt!JobIds =>
        gt_suspended \in held /\ gt_curr = Gt!gtmain /\ mode \in {"run", "yield"}
    /\ mode = "switch" /\ gt_on # Gt!gtmain =>
        IF Gt!Ends THEN gt_on = leak_stack ELSE gt_on \in held
    /\ mode = "crashed" => Queued /\ gt_on = jobcount
    /\ mode = "exit" => gt_on = Gt!gtmain /\ held = {} /\ gt_suspended = Gt!NoThread

\* Whoever may get the processor has a context to go on with, but for the job that gtgo
\* is about to make one for.
GContexts ==
    mode # "crashed" =>
        /\ gt_on # Gt!gtmain => ctx[Gt!gtmain] = "back"
        /\ \A j \in held \ {gt_on} : ctx[j] = "unset" => Queued /\ j = jobcount
        /\ gt_suspended \in Gt!JobIds => ctx[gt_suspended] = "wake"
        /\ Queued => ctx[jobcount] = "unset" /\ gt_on # jobcount /\ jobcount \in held

\* Only a job that is through with its work asks to be stopped, and only main asks with 0,
\* which it does when nobody is suspended.
GSignals ==
    /\ gt_sig[Gt!gtmain] # -1
    /\ \A j \in Gt!JobIds : /\ gt_sig[j] = -1 => place[j] = "stopping"
                            /\ ctx[j] = "wake" => gt_sig[j] # 0
    /\ mode \in {"yield", "ask", "switch"} /\ gt_on # Gt!gtmain => gt_sig[gt_on] # 0
    /\ mode = "ask" /\ gt_on = Gt!gtmain /\ gt_sig[Gt!gtmain] = 0 => gt_suspended = Gt!NoThread

\* A stack is freed once, when its job has left the scheduler and the processor the stack.
GMemory ==
    /\ \A j \in Gt!JobIds : frees[j] \in {0, 1} /\ (frees[j] = 1 => j \in freed_jobs /\ j # leak_stack)
    /\ leak_stack # 0 => leak_stack \in freed_jobs
    /\ held \cap freed_jobs = {}
    /\ gt_on \in freed_jobs => mode = "switch" /\ Gt!Ends

\* job_count counts the jobs that have not come to gtstop.
GCount == job_count = Cardinality({j \in held : place[j] # "stopping"})

GInv == GTypes /\ GScript /\ GJobs /\ GRuns /\ GContexts /\ GSignals /\ GMemory /\ GCount

ZZInv == focus = "gthreads" => GInv

\* The threads are main, which is 0, and the jobs, which are numbered from 1.
LEMMA Ids ==
  /\ Gt!gtmain = 0 /\ Gt!NoThread = -1 /\ 0 \notin Gt!JobIds /\ -1 \notin Gt!JobIds
  /\ Gt!GtThreads = {0} \union Gt!JobIds /\ Gt!JobIds \subseteq Nat
  /\ 1 \in Gt!JobIds /\ 2 \in Gt!JobIds /\ 3 \in Gt!JobIds
  /\ IsFiniteSet(Gt!JobIds)
<1>1. MAX_JOBS \in Nat /\ MAX_JOBS > 3
  BY ContextAssumption DEF Gt!GthreadsAssumption
<1>2. IsFiniteSet(1 .. MAX_JOBS - 1)
  BY <1>1, FS_Interval
<1> QED
  BY <1>1, <1>2 DEF Gt!gtmain, Gt!NoThread, Gt!JobIds, Gt!GtThreads

LEMMA GInit ==
  ASSUME Gt!gtinit
  PROVE  GInv
<1>1. GTypes
  BY Ids DEF Gt!gtinit, GTypes
<1>2. GScript
  BY Ids DEF Gt!gtinit, GScript, Made, Queued, Gt!test_of, Gt!rr_fcfs_sjf_test, Gt!psrtf_test,
             Gt!ppri_pri_test
<1>3. GJobs /\ GRuns /\ GContexts /\ GSignals /\ GMemory
  BY Ids DEF Gt!gtinit, GJobs, GRuns, GContexts, GSignals, GMemory, Queued
<1>4. GCount
  <2>1. {j \in held : place[j] # "stopping"} = {}
    BY DEF Gt!gtinit
  <2> QED
    BY <2>1, FS_EmptySet DEF Gt!gtinit, GCount
<1> QED
  BY <1>1, <1>2, <1>3, <1>4 DEF GInv

\* A call that main has made moves it on in its script.
LEMMA Progress ==
  ASSUME NEW s, NEW n \in Int, Made(s, n)
  PROVE  /\ n \in 0 .. 3
         /\ s # <<>> /\ Head(s) = "go" => n \in 0 .. 2 /\ Made(Tail(s), n + 1)
         /\ s # <<>> /\ Head(s) \in {"start", "sleep"} => Made(Tail(s), n)
<1>1. n \in 0 .. 3 /\ (s # <<>> /\ Head(s) = "go" => n \in 0 .. 2)
  BY DEF Made
<1>2. CASE s = <<"go", "go", "start">> /\ n = 0
  <2>1. s # <<>> /\ Head(s) = "go" /\ Tail(s) = <<"go", "start">>
    BY <1>2
  <2>2. Made(<<"go", "start">>, n + 1)
    BY <1>2 DEF Made
  <2> QED
    BY <1>1, <2>1, <2>2
<1>3. CASE s = <<"go", "start">> /\ n = 1
  <2>1. s # <<>> /\ Head(s) = "go" /\ Tail(s) = <<"start">>
    BY <1>3
  <2>2. Made(<<"start">>, n + 1)
    BY <1>3 DEF Made
  <2> QED
    BY <1>1, <2>1, <2>2
<1>4. CASE s = <<"start">> /\ n = 2
  <2>1. s # <<>> /\ Head(s) = "start" /\ Tail(s) = <<>>
    BY <1>4
  <2>2. Made(<<>>, n)
    BY <1>4 DEF Made
  <2> QED
    BY <1>1, <2>1, <2>2
<1>5. CASE s = <<"start", "go", "sleep", "go">> /\ n = 0
  <2>1. s # <<>> /\ Head(s) = "start" /\ Tail(s) = <<"go", "sleep", "go">>
    BY <1>5
  <2>2. Made(<<"go", "sleep", "go">>, n)
    BY <1>5 DEF Made
  <2> QED
    BY <1>1, <2>1, <2>2
<1>6. CASE s = <<"go", "sleep", "go">> /\ n \in {0, 1}
  <2>1. s # <<>> /\ Head(s) = "go" /\ Tail(s) = <<"sleep", "go">>
    BY <1>6
  <2>2. Made(<<"sleep", "go">>, n + 1)
    BY <1>6 DEF Made
  <2> QED
    BY <1>1, <2>1, <2>2
<1>7. CASE s = <<"sleep", "go">> /\ n \in {1, 2}
  <2>1. s # <<>> /\ Head(s) = "sleep" /\ Tail(s) = <<"go">>
    BY <1>7
  <2>2. Made(<<"go">>, n)
    BY <1>7 DEF Made
  <2> QED
    BY <1>1, <2>1, <2>2
<1>8. CASE s = <<"go">> /\ n \in {1, 2}
  <2>1. s # <<>> /\ Head(s) = "go" /\ Tail(s) = <<>>
    BY <1>8
  <2>2. Made(<<>>, n + 1)
    BY <1>8 DEF Made
  <2> QED
    BY <1>1, <2>1, <2>2
<1>9. CASE s = <<"start", "go", "go", "sleep", "go">> /\ n = 0
  <2>1. s # <<>> /\ Head(s) = "start" /\ Tail(s) = <<"go", "go", "sleep", "go">>
    BY <1>9
  <2>2. Made(<<"go", "go", "sleep", "go">>, n)
    BY <1>9 DEF Made
  <2> QED
    BY <1>1, <2>1, <2>2
<1>10. CASE s = <<"go", "go", "sleep", "go">> /\ n = 0
  <2>1. s # <<>> /\ Head(s) = "go" /\ Tail(s) = <<"go", "sleep", "go">>
    BY <1>10
  <2>2. Made(<<"go", "sleep", "go">>, n + 1)
    BY <1>10 DEF Made
  <2> QED
    BY <1>1, <2>1, <2>2
<1>11. CASE s = <<>>
  BY <1>1, <1>11
<1> QED
  BY <1>2, <1>3, <1>4, <1>5, <1>6, <1>7, <1>8, <1>9, <1>10, <1>11 DEF Made

LEMMA QueueKeeps ==
  ASSUME GInv, Gt!gtgo_queue
  PROVE  GInv'
<1> USE Ids
<1>0. GTypes /\ GScript /\ GJobs /\ GRuns /\ GContexts /\ GSignals /\ GMemory /\ GCount
  BY DEF GInv
<1>1. /\ mode = "run" /\ gt_on = 0 /\ place[0] = "user"
      /\ script # <<>> /\ Head(script) = "go"
      /\ job_count' = job_count + 1
      /\ jobcount' = jobcount + 1
      /\ held' = held \union {jobcount + 1}
      /\ place' = [place EXCEPT ![0] = "queued"]
      /\ script' = script /\ mode' = mode /\ gt_on' = gt_on /\ gt_sig' = gt_sig
      /\ ctx' = ctx /\ gt_curr' = gt_curr /\ gt_suspended' = gt_suspended /\ leak_stack' = leak_stack
      /\ frees' = frees /\ freed_jobs' = freed_jobs
  BY DEF Gt!gtgo_queue, Gt!NextCall, Gt!Runs, Gt!threadvars, Gt!memvars
<1>2. GTypes'
  BY <1>0, <1>1 DEF GTypes, Queued, Gt!Ends
<1>a. jobcount \in 0 .. 2 /\ Made(script, jobcount)
  <2>1. jobcount \in Int /\ Made(script, jobcount)
    BY <1>0, <1>1 DEF GScript, GTypes, Queued
  <2> QED
    BY <1>1, <2>1, Progress
<1> DEFINE new == jobcount + 1
<1>b. /\ new \in Gt!JobIds /\ new \in Nat /\ new # 0 /\ new \notin held /\ new \notin freed_jobs
      /\ new - 1 = jobcount /\ new \in 1 .. new /\ 1 .. jobcount \subseteq 1 .. new
      /\ new > jobcount
  <2>1. jobcount = 0 \/ jobcount = 1 \/ jobcount = 2
    BY <1>a
  <2>2. new \in {1, 2, 3} /\ new - 1 = jobcount /\ new > jobcount /\ new \in 1 .. new
        /\ 1 .. jobcount \subseteq 1 .. new /\ new \notin 1 .. jobcount
    BY <2>1
  <2>3. new \notin held /\ new \notin freed_jobs
    BY <1>0, <2>2 DEF GJobs
  <2> QED
    BY <2>2, <2>3
<1>c. place[new] = "user" /\ jobcount' = new /\ held' = held \union {new}
  BY <1>0, <1>1, <1>b DEF GJobs
<1> HIDE DEF new
<1>3. GScript'
  <2>1. place'[0] = "queued"
    BY <1>0, <1>1 DEF GTypes
  <2>2. Made(script', jobcount' - 1)
    BY <1>1, <1>a, <1>b, <1>c
  <2> QED
    BY <1>1, <2>1, <2>2 DEF GScript, Queued
<1>4. GJobs'
  <2>1. held' \subseteq 1 .. new /\ held' \subseteq Gt!JobIds
        /\ freed_jobs' \subseteq 1 .. new /\ freed_jobs' \subseteq Gt!JobIds
    BY <1>0, <1>1, <1>b, <1>c DEF GJobs
  <2>2. \A j \in Gt!JobIds : place'[j] = place[j] /\ j \in Nat
    BY <1>0, <1>1 DEF GTypes
  <2>3. \A j \in Gt!JobIds : j > new => j > jobcount
    BY <1>0, <1>b DEF GTypes
  <2> QED
    BY <1>0, <1>1, <1>c, <2>1, <2>2, <2>3 DEF GJobs
<1>5. GRuns'
  BY <1>0, <1>1 DEF GRuns, Queued, Gt!Ends
<1>6. GContexts'
  <2>1. ~Queued /\ Queued' /\ gt_on' # new /\ new \in held'
    BY <1>0, <1>1, <1>b, <1>c DEF GTypes, Queued
  <2>2. ctx[new] = "unset"
    BY <1>0, <1>b, <1>c DEF GJobs
  <2> QED
    BY <1>0, <1>1, <1>b, <1>c, <2>1, <2>2 DEF GContexts
<1>7. GSignals'
  BY <1>0, <1>1 DEF GSignals, Queued, Gt!Ends
<1>8. GMemory'
  BY <1>0, <1>1, <1>b, <1>c DEF GMemory, Gt!Ends
<1>9. GCount'
  <2> DEFINE S == {j \in held : place[j] # "stopping"}
  <2>1. IsFiniteSet(S) /\ new \notin S /\ Cardinality(S) \in Nat
    <3>1. S \in SUBSET Gt!JobIds /\ new \notin S
      BY <1>0, <1>b DEF GJobs
    <3> QED
      BY <3>1, FS_Subset, FS_CardinalityType
  <2>2. {j \in held' : place'[j] # "stopping"} = S \union {new}
    <3>1. \A j \in held : place'[j] = place[j]
      BY <1>0, <1>1 DEF GTypes, GJobs
    <3>2. place'[new] = "user"
      BY <1>0, <1>1, <1>b, <1>c DEF GTypes
    <3> QED
      BY <1>c, <3>1, <3>2
  <2> HIDE DEF S
  <2>3. Cardinality(S \union {new}) = Cardinality(S) + 1
    BY <2>1, FS_AddElement
  <2>4. job_count = Cardinality(S)
    BY <1>0 DEF GCount, S
  <2> QED
    BY <1>1, <2>2, <2>3, <2>4 DEF GCount
<1> QED
  BY <1>2, <1>3, <1>4, <1>5, <1>6, <1>7, <1>8, <1>9 DEF GInv

LEMMA ContextKeeps ==
  ASSUME GInv, Gt!gtgo_context
  PROVE  GInv'
<1> USE Ids
<1>0. GTypes /\ GScript /\ GJobs /\ GRuns /\ GContexts /\ GSignals /\ GMemory /\ GCount
  BY DEF GInv
<1>1. /\ mode = "run" /\ gt_on = 0 /\ place[0] = "queued"
      /\ ctx' = [ctx EXCEPT ![jobcount] = "work"]
      /\ place' = [place EXCEPT ![0] = "user"]
      /\ script' = Tail(script)
      /\ mode' = mode /\ gt_on' = gt_on /\ gt_sig' = gt_sig /\ gt_curr' = gt_curr
      /\ gt_suspended' = gt_suspended /\ leak_stack' = leak_stack /\ frees' = frees /\ freed_jobs' = freed_jobs
      /\ job_count' = job_count /\ jobcount' = jobcount /\ held' = held
  BY DEF Gt!gtgo_context, Gt!Runs, Gt!threadvars, Gt!memvars
<1>2. GTypes'
  BY <1>0, <1>1 DEF GTypes, Queued, Gt!Ends
<1>a. jobcount \in Nat /\ jobcount - 1 \in Int /\ Made(script, jobcount - 1)
      /\ script # <<>> /\ Head(script) = "go"
  BY <1>0, <1>1 DEF GScript, GTypes, Queued
<1>b. place'[0] = "user" /\ \A j \in Gt!JobIds : place'[j] = place[j]
  BY <1>0, <1>1 DEF GTypes
<1>c. jobcount \in held /\ jobcount \in Gt!JobIds /\ ctx[jobcount] = "unset"
  BY <1>0, <1>1 DEF GContexts, GJobs, Queued
<1>3. GScript'
  <2>1. Made(Tail(script), (jobcount - 1) + 1) /\ (jobcount - 1) + 1 = jobcount
    BY <1>a, Progress
  <2> QED
    BY <1>1, <1>b, <2>1 DEF GScript, Queued
<1>4. GJobs'
  BY <1>0, <1>1 DEF GJobs, Queued, Gt!Ends
<1>5. GRuns'
  BY <1>0, <1>1 DEF GRuns, Queued, Gt!Ends
<1>6. GContexts'
  <2>1. \A j \in Gt!JobIds : ctx'[j] = IF j = jobcount THEN "work" ELSE ctx[j]
    BY <1>0, <1>1, <1>c DEF GTypes
  <2>2. gt_suspended \in Gt!JobIds => gt_suspended # jobcount
    BY <1>0, <1>1, <1>c DEF GContexts
  <2>3. ~Queued' /\ held \subseteq Gt!JobIds
    BY <1>0, <1>b DEF Queued, GJobs
  <2> QED
    BY <1>0, <1>1, <2>1, <2>2, <2>3 DEF GContexts
<1>7. GSignals'
  BY <1>0, <1>1 DEF GSignals, Queued, Gt!Ends
<1>8. GMemory'
  BY <1>0, <1>1 DEF GMemory, Queued, Gt!Ends
<1>9. GCount'
  <2>1. {j \in held' : place'[j] # "stopping"} = {j \in held : place[j] # "stopping"}
    BY <1>0, <1>1, <1>b DEF GJobs
  <2> QED
    BY <1>0, <1>1, <2>1 DEF GCount
<1> QED
  BY <1>2, <1>3, <1>4, <1>5, <1>6, <1>7, <1>8, <1>9 DEF GInv

LEMMA StartKeeps ==
  ASSUME GInv, Gt!gtstart
  PROVE  GInv'
<1> USE Ids
<1>0. GTypes /\ GScript /\ GJobs /\ GRuns /\ GContexts /\ GSignals /\ GMemory /\ GCount
  BY DEF GInv
<1>1. /\ mode = "run" /\ gt_on = 0 /\ place[0] = "user"
      /\ script # <<>> /\ Head(script) = "start"
      /\ script' = Tail(script)
      /\ mode' = mode /\ gt_on' = gt_on /\ place' = place /\ gt_sig' = gt_sig
      /\ ctx' = ctx /\ gt_curr' = gt_curr /\ gt_suspended' = gt_suspended /\ leak_stack' = leak_stack
      /\ frees' = frees /\ freed_jobs' = freed_jobs /\ job_count' = job_count /\ jobcount' = jobcount
      /\ held' = held
  BY DEF Gt!gtstart, Gt!NextCall, Gt!Runs, Gt!threadvars, Gt!memvars
<1>2. GTypes'
  BY <1>0, <1>1 DEF GTypes, Queued, Gt!Ends
<1>3. GScript'
  <2>1. jobcount \in Int /\ Made(script, jobcount)
    BY <1>0, <1>1 DEF GScript, GTypes, Queued
  <2>2. Made(Tail(script), jobcount)
    BY <1>1, <2>1, Progress
  <2> QED
    BY <1>0, <1>1, <2>2 DEF GScript, Queued
<1>4. GJobs'
  BY <1>0, <1>1 DEF GJobs, Queued, Gt!Ends
<1>5. GRuns'
  BY <1>0, <1>1 DEF GRuns, Queued, Gt!Ends
<1>6. GContexts'
  BY <1>0, <1>1 DEF GContexts, Queued, Gt!Ends
<1>7. GSignals'
  BY <1>0, <1>1 DEF GSignals, Queued, Gt!Ends
<1>8. GMemory'
  BY <1>0, <1>1 DEF GMemory, Queued, Gt!Ends
<1>9. GCount'
  BY <1>0, <1>1 DEF GCount, Queued, Gt!Ends
<1> QED
  BY <1>2, <1>3, <1>4, <1>5, <1>6, <1>7, <1>8, <1>9 DEF GInv

\* Into gtyield: main with 0, GTSLEEP_SIG or SIGALRM, a job with SIGALRM or, in the end, GTSTOP.
LEMMA YieldKeeps ==
  ASSUME GInv, mode = "run", NEW sig \in {0, 1, 14, -1}, Gt!call_gtyield(sig), GScript',
         gt_on = 0 => sig # -1,
         gt_on # 0 => sig # 0 /\ (sig = -1 => place[gt_on] = "stopping")
  PROVE  GInv'
<1> USE Ids
<1>0. GTypes /\ GScript /\ GJobs /\ GRuns /\ GContexts /\ GSignals /\ GMemory /\ GCount
  BY DEF GInv
<1>1. /\ gt_sig' = [gt_sig EXCEPT ![gt_on] = sig] /\ mode' = "yield"
      /\ gt_on' = gt_on /\ place' = place /\ ctx' = ctx /\ gt_curr' = gt_curr
      /\ gt_suspended' = gt_suspended /\ leak_stack' = leak_stack /\ frees' = frees /\ freed_jobs' = freed_jobs
      /\ job_count' = job_count /\ jobcount' = jobcount /\ held' = held
  BY DEF Gt!call_gtyield, Gt!memvars
<1>a. gt_on \in Gt!GtThreads /\ \A t \in Gt!GtThreads : gt_sig'[t] = IF t = gt_on THEN sig ELSE gt_sig[t]
  BY <1>0, <1>1 DEF GTypes
<1>2. GTypes'
  BY <1>0, <1>1 DEF GTypes, Queued, Gt!Ends
<1>3. GScript'
  OBVIOUS
<1>4. GJobs'
  BY <1>0, <1>1 DEF GJobs, Queued, Gt!Ends
<1>5. GRuns'
  BY <1>0, <1>1 DEF GRuns, Queued, Gt!Ends
<1>6. GContexts'
  BY <1>0, <1>1 DEF GContexts, Queued, Gt!Ends
<1>7. GSignals'
  BY <1>0, <1>1, <1>a DEF GSignals, GTypes
<1>8. GMemory'
  BY <1>0, <1>1 DEF GMemory, Queued, Gt!Ends
<1>9. GCount'
  <2>1. {j \in held' : place'[j] # "stopping"} = {j \in held : place[j] # "stopping"}
    BY <1>1
  <2> QED
    BY <1>0, <1>1, <2>1 DEF GCount
<1> QED
  BY <1>2, <1>3, <1>4, <1>5, <1>6, <1>7, <1>8, <1>9 DEF GInv

\* The calls that lead there.
LEMMA CallsKeep ==
  ASSUME GInv, Gt!gtsleep \/ Gt!gtret \/ Gt!gthandle \/ Gt!gtstop
  PROVE  GInv'
<1> USE Ids
<1>0. GTypes /\ GScript /\ GJobs /\ GRuns /\ GContexts /\ GSignals /\ GMemory /\ GCount
  BY DEF GInv
<1>1. CASE Gt!gtsleep
  <2>1. /\ mode = "run" /\ gt_on = 0 /\ place[0] = "user" /\ script # <<>> /\ Head(script) = "sleep"
        /\ Gt!call_gtyield(1) /\ script' \in {script, Tail(script)}
        /\ place' = place /\ jobcount' = jobcount
    BY <1>1 DEF Gt!gtsleep, Gt!NextCall, Gt!Runs, Gt!call_gtyield, Gt!GTSLEEP_SIG
  <2>2. jobcount \in Int /\ Made(script, jobcount)
    BY <1>0, <2>1 DEF GScript, GTypes, Queued
  <2>3. Made(Tail(script), jobcount)
    BY <2>1, <2>2, Progress
  <2>4. GScript'
    BY <1>0, <2>1, <2>2, <2>3 DEF GScript, Queued
  <2> QED
    BY <2>1, <2>4, YieldKeeps
<1>2. CASE Gt!gtret
  <2>1. /\ mode = "run" /\ gt_on = 0
        /\ Gt!call_gtyield(0) /\ script' = script /\ place' = place /\ jobcount' = jobcount
    BY <1>2 DEF Gt!gtret, Gt!Runs, Gt!call_gtyield
  <2>2. GScript'
    BY <1>0, <2>1 DEF GScript, Queued
  <2> QED
    BY <2>1, <2>2, YieldKeeps
<1>3. CASE Gt!gthandle
  <2>1. /\ mode = "run"
        /\ Gt!call_gtyield(14) /\ script' = script /\ place' = place /\ jobcount' = jobcount
    BY <1>3 DEF Gt!gthandle, Gt!call_gtyield, Gt!SIGALRM
  <2>2. GScript'
    BY <1>0, <2>1 DEF GScript, Queued
  <2> QED
    BY <2>1, <2>2, YieldKeeps
<1>4. CASE Gt!gtstop
  <2>1. /\ mode = "run" /\ gt_on # 0 /\ place[gt_on] = "stopping"
        /\ Gt!call_gtyield(-1) /\ script' = script /\ place' = place /\ jobcount' = jobcount
    BY <1>4 DEF Gt!gtstop, Gt!Runs, Gt!call_gtyield, Gt!GTSTOP
  <2>2. GScript'
    BY <1>0, <2>1 DEF GScript, Queued
  <2> QED
    BY <2>1, <2>2, YieldKeeps
<1> QED
  BY <1>1, <1>2, <1>3, <1>4

LEMMA WorkKeeps ==
  ASSUME GInv, Gt!job_works
  PROVE  GInv'
<1> USE Ids
<1>0. GTypes /\ GScript /\ GJobs /\ GRuns /\ GContexts /\ GSignals /\ GMemory /\ GCount
  BY DEF GInv
<1>1. /\ mode = "run" /\ gt_on # 0 /\ place[gt_on] = "user"
      /\ \/ place' = place /\ job_count' = job_count
         \/ place' = [place EXCEPT ![gt_on] = "stopping"] /\ job_count' = job_count - 1
      /\ script' = script /\ mode' = mode /\ gt_on' = gt_on /\ gt_sig' = gt_sig
      /\ ctx' = ctx /\ gt_curr' = gt_curr /\ gt_suspended' = gt_suspended /\ leak_stack' = leak_stack
      /\ frees' = frees /\ freed_jobs' = freed_jobs /\ jobcount' = jobcount /\ held' = held
  BY DEF Gt!job_works, Gt!Runs, Gt!memvars
<1>a. gt_on \in Gt!JobIds /\ gt_on \in held /\ gt_on <= jobcount /\ gt_on \in Nat /\ jobcount \in Nat
  BY <1>0, <1>1 DEF GTypes, GRuns, GJobs
<1>b. \A t \in Gt!GtThreads : place'[t] = place[t] \/ (t = gt_on /\ place'[t] = "stopping")
  BY <1>0, <1>1 DEF GTypes
<1>c. place'[0] = place[0]
  BY <1>1, <1>b
<1>2. GTypes'
  BY <1>0, <1>1 DEF GTypes, Queued, Gt!Ends
<1>3. GScript'
  BY <1>0, <1>1, <1>c DEF GScript, Queued
<1>4. GJobs'
  BY <1>0, <1>1, <1>a, <1>b DEF GJobs
<1>5. GRuns'
  BY <1>0, <1>1, <1>c DEF GRuns, Queued
<1>6. GContexts'
  BY <1>0, <1>1, <1>c DEF GContexts, Queued
<1>7. GSignals'
  BY <1>0, <1>1, <1>b DEF GSignals
<1>8. GMemory'
  BY <1>0, <1>1 DEF GMemory, Queued, Gt!Ends
<1>9. GCount'
  <2> DEFINE S == {j \in held : place[j] # "stopping"}
  <2>1. IsFiniteSet(S) /\ gt_on \in S /\ Cardinality(S) \in Nat
    <3>1. S \in SUBSET Gt!JobIds /\ gt_on \in S
      BY <1>0, <1>1, <1>a DEF GJobs
    <3> QED
      BY <3>1, FS_Subset, FS_CardinalityType
  <2>2. job_count = Cardinality(S)
    BY <1>0 DEF GCount
  <2>3. CASE place' = place /\ job_count' = job_count
    BY <1>0, <1>1, <2>3 DEF GCount
  <2>4. CASE place' = [place EXCEPT ![gt_on] = "stopping"] /\ job_count' = job_count - 1
    <3>1. {j \in held' : place'[j] # "stopping"} = S \ {gt_on}
      BY <1>0, <1>1, <1>a, <2>4 DEF GTypes, GJobs
    <3> HIDE DEF S
    <3>2. Cardinality(S \ {gt_on}) = Cardinality(S) - 1
      BY <2>1, FS_RemoveElement
    <3> QED
      BY <2>2, <2>4, <3>1, <3>2 DEF GCount
  <2> QED
    BY <1>1, <2>3, <2>4
<1> QED
  BY <1>2, <1>3, <1>4, <1>5, <1>6, <1>7, <1>8, <1>9 DEF GInv

LEMMA GtyieldKeeps ==
  ASSUME GInv, Gt!gtyield
  PROVE  GInv'
<1> USE Ids
<1>0. GTypes /\ GScript /\ GJobs /\ GRuns /\ GContexts /\ GSignals /\ GMemory /\ GCount
  BY DEF GInv
<1>1. /\ mode = "yield" /\ frees' = Gt!FreedLeak /\ leak_stack' = 0
      /\ script' = script /\ place' = place /\ gt_sig' = gt_sig /\ freed_jobs' = freed_jobs
      /\ job_count' = job_count /\ jobcount' = jobcount /\ held' = held
  BY DEF Gt!gtyield
<1>a. /\ gt_on \in Gt!GtThreads /\ gt_on = gt_curr /\ gt_on \notin freed_jobs
      /\ gt_on # 0 => gt_on \in held /\ gt_on \in Gt!JobIds
  BY <1>0, <1>1 DEF GTypes, GRuns, GMemory, GJobs
<1>b. frees' \in [Gt!JobIds -> Nat]
      /\ \A j \in Gt!JobIds : frees'[j] \in {0, 1} /\ (frees'[j] = 1 => j \in freed_jobs)
  <2>1. CASE leak_stack = 0
    BY <1>0, <1>1, <2>1 DEF GTypes, GMemory, Gt!FreedLeak
  <2>2. CASE leak_stack # 0
    <3>1. leak_stack \in Gt!JobIds /\ leak_stack \in freed_jobs /\ frees[leak_stack] = 0
      BY <1>0, <2>2 DEF GTypes, GMemory
    <3>2. frees' = [frees EXCEPT ![leak_stack] = 1]
      BY <1>0, <1>1, <2>2, <3>1 DEF GTypes, Gt!FreedLeak
    <3> QED
      BY <1>0, <3>1, <3>2 DEF GTypes, GMemory
  <2> QED
    BY <2>1, <2>2
<1>c. ASSUME gt_on' \notin freed_jobs PROVE GMemory'
  BY <1>0, <1>1, <1>b, <1>c, Zenon DEF GMemory
<1>d. {j \in held' : place'[j] # "stopping"} = {j \in held : place[j] # "stopping"}
  BY <1>1
<1>e. held \subseteq Gt!JobIds /\ held \cap freed_jobs = {} /\ 0 \notin freed_jobs
  BY <1>0 DEF GJobs, GMemory
<1>2. CASE gt_curr = 0 /\ gt_suspended # -1
  <2>1. gt_curr' = gt_suspended /\ gt_suspended' = -1 /\ Gt!gtswtch(gt_suspended, "back")
    BY <1>2 DEF Gt!gtyield
  <2>2. CASE gt_suspended = 0
    <3>1. /\ gt_on' = 0 /\ ctx' = [[ctx EXCEPT ![0] = "back"] EXCEPT ![0] = "unset"] /\ mode' = "run"
      BY <1>0, <1>2, <1>a, <2>1, <2>2 DEF Gt!gtswtch, GTypes
    <3>2. ctx' \in [Gt!GtThreads -> {"unset", "work", "back", "wake"}]
          /\ \A j \in Gt!JobIds : ctx'[j] = ctx[j]
      BY <1>0, <3>1 DEF GTypes
    <3>4. GTypes'
      BY <1>0, <1>1, <1>a, <1>b, <1>e, <1>2, <2>1, <2>2, <3>1, <3>2 DEF GTypes
    <3>5. GScript'
      BY <1>0, <1>1 DEF GScript, Queued
    <3>6. GJobs'
      BY <1>0, <1>1, <1>a, <1>b, <1>e, <1>2, <2>1, <2>2, <3>1, <3>2 DEF GJobs
    <3>7. GRuns'
      BY <1>0, <1>1, <1>a, <1>b, <1>e, <1>2, <2>1, <2>2, <3>1, <3>2 DEF GRuns, Queued, Gt!Ends
    <3>8. GContexts'
      BY <1>0, <1>1, <1>a, <1>b, <1>e, <1>2, <2>1, <2>2, <3>1, <3>2 DEF GContexts, Queued
    <3>9. GSignals'
      BY <1>0, <1>1, <1>a, <1>b, <1>e, <1>2, <2>1, <2>2, <3>1, <3>2 DEF GSignals
    <3>10. GMemory'
      BY <1>0, <1>1, <1>a, <1>b, <1>e, <1>2, <2>1, <2>2, <3>1, <3>2, <1>c
    <3>11. GCount'
      BY <1>0, <1>1, <1>d DEF GCount
    <3> QED
      BY <3>4, <3>5, <3>6, <3>7, <3>8, <3>9, <3>10, <3>11 DEF GInv
  <2>3. CASE gt_suspended # 0
    <3> DEFINE s == gt_suspended
    <3>0. s \in Gt!JobIds /\ s \in held /\ ctx[s] = "wake"
      BY <1>0, <1>1, <1>2, <2>3 DEF GTypes, GRuns, GContexts
    <3>1. /\ gt_on' = s /\ ctx' = [[ctx EXCEPT ![0] = "back"] EXCEPT ![s] = "unset"] /\ mode' = "ask"
      BY <1>0, <1>2, <1>a, <2>1, <3>0 DEF Gt!gtswtch, GTypes
    <3>2. ctx' \in [Gt!GtThreads -> {"unset", "work", "back", "wake"}] /\ ctx'[0] = "back"
          /\ \A j \in Gt!JobIds : ctx'[j] = IF j = s THEN "unset" ELSE ctx[j]
      BY <1>0, <3>0, <3>1 DEF GTypes
    <3>3. Queued => s # jobcount /\ jobcount \in held /\ ctx[jobcount] = "unset"
      BY <1>0, <1>1, <3>0 DEF GContexts
    <3>4. GTypes'
      BY <1>0, <1>1, <1>a, <1>b, <1>e, <1>2, <2>1, <2>3, <3>0, <3>1, <3>2, <3>3 DEF GTypes
    <3>5. GScript'
      BY <1>0, <1>1 DEF GScript, Queued
    <3>6. GJobs'
      BY <1>0, <1>1, <1>a, <1>b, <1>e, <1>2, <2>1, <2>3, <3>0, <3>1, <3>2, <3>3 DEF GJobs
    <3>7. GRuns'
      BY <1>0, <1>1, <1>a, <1>b, <1>e, <1>2, <2>1, <2>3, <3>0, <3>1, <3>2, <3>3 DEF GRuns, Queued, Gt!Ends
    <3>8. GContexts'
      BY <1>0, <1>1, <1>a, <1>b, <1>e, <1>2, <2>1, <2>3, <3>0, <3>1, <3>2, <3>3 DEF GContexts, Queued
    <3>9. GSignals'
      BY <1>0, <1>1, <1>a, <1>b, <1>e, <1>2, <2>1, <2>3, <3>0, <3>1, <3>2, <3>3 DEF GSignals
    <3>10. GMemory'
      BY <1>0, <1>1, <1>a, <1>b, <1>e, <1>2, <2>1, <2>3, <3>0, <3>1, <3>2, <3>3, <1>c
    <3>11. GCount'
      BY <1>0, <1>1, <1>d DEF GCount
    <3> QED
      BY <3>4, <3>5, <3>6, <3>7, <3>8, <3>9, <3>10, <3>11 DEF GInv
  <2> QED
    BY <2>2, <2>3
<1>3. CASE ~(gt_curr = 0 /\ gt_suspended # -1) /\ gt_sig[gt_on] \in {14, 1} /\ gt_counter' = 0 /\ job_count # 0
  <2>1. gt_suspended' = gt_curr /\ gt_curr' = 0 /\ Gt!gtswtch(0, "wake")
    BY <1>3 DEF Gt!gtyield, Gt!SIGALRM, Gt!GTSLEEP_SIG
  <2>2. CASE gt_on = 0
    <3>1. /\ gt_on' = 0 /\ ctx' = [[ctx EXCEPT ![0] = "wake"] EXCEPT ![0] = "unset"] /\ mode' = "ask"
      BY <1>0, <1>a, <2>1, <2>2 DEF Gt!gtswtch, GTypes
    <3>2. ctx' \in [Gt!GtThreads -> {"unset", "work", "back", "wake"}]
          /\ \A j \in Gt!JobIds : ctx'[j] = ctx[j]
      BY <1>0, <3>1 DEF GTypes
    <3>3. gt_sig[0] # 0
      BY <1>3, <2>2
    <3>4. GTypes'
      BY <1>0, <1>1, <1>a, <1>b, <1>e, <1>3, <2>1, <2>2, <3>1, <3>2, <3>3 DEF GTypes
    <3>5. GScript'
      BY <1>0, <1>1 DEF GScript, Queued
    <3>6. GJobs'
      BY <1>0, <1>1, <1>a, <1>b, <1>e, <1>3, <2>1, <2>2, <3>1, <3>2, <3>3 DEF GJobs
    <3>7. GRuns'
      BY <1>0, <1>1, <1>a, <1>b, <1>e, <1>3, <2>1, <2>2, <3>1, <3>2, <3>3 DEF GRuns, Queued, Gt!Ends
    <3>8. GContexts'
      BY <1>0, <1>1, <1>a, <1>b, <1>e, <1>3, <2>1, <2>2, <3>1, <3>2, <3>3 DEF GContexts, Queued
    <3>9. GSignals'
      BY <1>0, <1>1, <1>a, <1>b, <1>e, <1>3, <2>1, <2>2, <3>1, <3>2, <3>3 DEF GSignals
    <3>10. GMemory'
      BY <1>0, <1>1, <1>a, <1>b, <1>e, <1>3, <2>1, <2>2, <3>1, <3>2, <3>3, <1>c
    <3>11. GCount'
      BY <1>0, <1>1, <1>d DEF GCount
    <3> QED
      BY <3>4, <3>5, <3>6, <3>7, <3>8, <3>9, <3>10, <3>11 DEF GInv
  <2>3. CASE gt_on # 0
    <3>0. ctx[0] = "back" /\ gt_sig[gt_on] # 0
      BY <1>0, <1>1, <1>3, <2>3 DEF GContexts
    <3>1. /\ gt_on' = 0 /\ ctx' = [[ctx EXCEPT ![gt_on] = "wake"] EXCEPT ![0] = "unset"] /\ mode' = "run"
      BY <1>0, <1>a, <2>1, <2>3, <3>0 DEF Gt!gtswtch, GTypes
    <3>2. ctx' \in [Gt!GtThreads -> {"unset", "work", "back", "wake"}]
          /\ \A j \in Gt!JobIds : ctx'[j] = IF j = gt_on THEN "wake" ELSE ctx[j]
      BY <1>0, <1>a, <2>3, <3>1 DEF GTypes
    <3>3. Queued => jobcount \in held /\ ctx[jobcount] = "unset" /\ jobcount # gt_on /\ jobcount # 0
      BY <1>0, <1>1, <1>e DEF GContexts
    <3>4. GTypes'
      BY <1>0, <1>1, <1>a, <1>b, <1>e, <1>3, <2>1, <2>3, <3>0, <3>1, <3>2, <3>3 DEF GTypes
    <3>5. GScript'
      BY <1>0, <1>1 DEF GScript, Queued
    <3>6. GJobs'
      <4>1. jobcount \in Nat /\ gt_on \in 1 .. jobcount
        BY <1>0, <1>a, <2>3 DEF GTypes, GJobs
      <4>2. \A j \in Gt!JobIds : j > jobcount => j # gt_on
        BY <4>1
      <4> QED
        BY <1>0, <1>1, <3>2, <4>2 DEF GJobs
    <3>7. GRuns'
      BY <1>0, <1>1, <1>a, <1>b, <1>e, <1>3, <2>1, <2>3, <3>0, <3>1, <3>2, <3>3 DEF GRuns, Queued, Gt!Ends
    <3>8. GContexts'
      BY <1>0, <1>1, <1>a, <1>b, <1>e, <1>3, <2>1, <2>3, <3>0, <3>1, <3>2, <3>3 DEF GContexts, Queued
    <3>9. GSignals'
      BY <1>0, <1>1, <1>a, <1>b, <1>e, <1>3, <2>1, <2>3, <3>0, <3>1, <3>2, <3>3 DEF GSignals
    <3>10. GMemory'
      BY <1>0, <1>1, <1>a, <1>b, <1>e, <1>3, <2>1, <2>3, <3>0, <3>1, <3>2, <3>3, <1>c
    <3>11. GCount'
      BY <1>0, <1>1, <1>d DEF GCount
    <3> QED
      BY <3>4, <3>5, <3>6, <3>7, <3>8, <3>9, <3>10, <3>11 DEF GInv
  <2> QED
    BY <2>2, <2>3
<1>4. CASE /\ ~(gt_curr = 0 /\ gt_suspended # -1)
           /\ ~(gt_sig[gt_on] \in {14, 1} /\ gt_counter' = 0 /\ job_count # 0)
  <2>1. mode' = "ask" /\ gt_on' = gt_on /\ ctx' = ctx /\ gt_curr' = gt_curr /\ gt_suspended' = gt_suspended
    BY <1>4 DEF Gt!gtyield, Gt!SIGALRM, Gt!GTSLEEP_SIG
  <2>4. GTypes'
    BY <1>0, <1>1, <1>a, <1>b, <1>e, <1>4, <2>1 DEF GTypes
  <2>5. GScript'
    BY <1>0, <1>1 DEF GScript, Queued
  <2>6. GJobs'
    BY <1>0, <1>1, <1>a, <1>b, <1>e, <1>4, <2>1 DEF GJobs
  <2>7. GRuns'
    BY <1>0, <1>1, <1>a, <1>b, <1>e, <1>4, <2>1 DEF GRuns, Queued, Gt!Ends
  <2>8. GContexts'
    BY <1>0, <1>1, <1>a, <1>b, <1>e, <1>4, <2>1 DEF GContexts, Queued
  <2>9. GSignals'
    BY <1>0, <1>1, <1>a, <1>b, <1>e, <1>4, <2>1 DEF GSignals
  <2>10. GMemory'
    BY <1>0, <1>1, <1>a, <1>b, <1>e, <1>4, <2>1, <1>c
  <2>11. GCount'
    BY <1>0, <1>1, <1>d DEF GCount
  <2> QED
    BY <2>4, <2>5, <2>6, <2>7, <2>8, <2>9, <2>10, <2>11 DEF GInv
<1> QED
  BY <1>2, <1>3, <1>4

\* The scheduler's part: a job that ends has left it, and any job it holds may be next.
LEMMA AskKeeps ==
  ASSUME GInv, Gt!gtyield_ask
  PROVE  GInv'
<1> USE Ids
<1>0. GTypes /\ GScript /\ GJobs /\ GRuns /\ GContexts /\ GSignals /\ GMemory /\ GCount
  BY DEF GInv
<1>1. /\ mode = "ask" /\ script' = script /\ place' = place /\ gt_sig' = gt_sig /\ gt_on' = gt_on /\ ctx' = ctx
      /\ gt_suspended' = gt_suspended /\ job_count' = job_count /\ jobcount' = jobcount
      /\ held' = IF gt_sig[gt_on] = -1 /\ gt_curr # 0 THEN held \ {gt_curr} ELSE held
  BY DEF Gt!gtyield_ask, Gt!Ends, Gt!GTSTOP
<1>2. PICK newjob \in IF held' = {} THEN {0} ELSE held' :
         IF newjob = gt_curr
         THEN /\ mode' = IF gt_sig[gt_on] = 0 THEN "exit" ELSE "run"
              /\ gt_curr' = gt_curr /\ leak_stack' = leak_stack /\ frees' = frees /\ freed_jobs' = freed_jobs
         ELSE /\ gt_curr' = newjob /\ mode' = "switch"
              /\ IF gt_sig[gt_on] = -1 THEN Gt!gtdestroy(gt_curr)
                 ELSE leak_stack' = leak_stack /\ frees' = frees /\ freed_jobs' = freed_jobs
  BY DEF Gt!gtyield_ask, Gt!Ends, Gt!GTSTOP, Gt!memvars
<1>a. /\ gt_on \in Gt!GtThreads /\ gt_on = gt_curr /\ gt_on \notin freed_jobs
      /\ gt_on # 0 => gt_on \in held /\ gt_on \in Gt!JobIds /\ gt_sig[gt_on] # 0
      /\ gt_suspended \notin Gt!JobIds
  BY <1>0, <1>1 DEF GTypes, GRuns, GMemory, GJobs, GSignals
<1>b. /\ held \subseteq Gt!JobIds /\ held' \subseteq held
      /\ newjob = 0 => held' = {}
      /\ newjob # 0 => newjob \in held' /\ newjob \in Gt!JobIds
      /\ newjob \in Gt!GtThreads
  BY <1>0, <1>1, <1>2 DEF GJobs
<1>c. gt_sig[gt_on] = -1 => gt_on # 0 /\ place[gt_on] = "stopping" /\ held' = held \ {gt_on} /\ newjob # gt_curr
  BY <1>0, <1>1, <1>2, <1>a, <1>b DEF GSignals
<1>d. Queued => jobcount \in held' /\ gt_on # jobcount
  <2>1. Queued => jobcount \in held /\ gt_on # jobcount
    BY <1>0, <1>1 DEF GContexts
  <2> QED
    BY <1>1, <1>a, <2>1
<1>e. {j \in held' : place'[j] # "stopping"} = {j \in held : place[j] # "stopping"}
  BY <1>1, <1>a, <1>c
<1>3. CASE newjob = gt_curr
  <2>1. /\ mode' = IF gt_sig[gt_on] = 0 THEN "exit" ELSE "run"
        /\ gt_curr' = gt_curr /\ leak_stack' = leak_stack /\ frees' = frees /\ freed_jobs' = freed_jobs
        /\ gt_sig[gt_on] # -1 /\ held' = held
    BY <1>1, <1>2, <1>3, <1>c
  <2>2. gt_sig[gt_on] = 0 => gt_on = 0 /\ held = {} /\ gt_suspended = -1
    BY <1>0, <1>1, <1>3, <1>a, <1>b, <2>1 DEF GSignals
  <2>3. GTypes'
    BY <1>0, <1>1, <1>a, <1>b, <1>c, <1>d, <1>3, <2>1, <2>2 DEF GTypes
  <2>4. GScript'
    BY <1>0, <1>1, <1>a, <1>b, <1>c, <1>d, <1>3, <2>1, <2>2 DEF GScript, Queued
  <2>5. GJobs'
    BY <1>0, <1>1, <1>a, <1>b, <1>c, <1>d, <1>3, <2>1, <2>2 DEF GJobs
  <2>6. GRuns'
    BY <1>0, <1>1, <1>a, <1>b, <1>c, <1>d, <1>3, <2>1, <2>2 DEF GRuns, Queued, Gt!Ends, Gt!GTSTOP
  <2>7. GContexts'
    BY <1>0, <1>1, <1>a, <1>b, <1>c, <1>d, <1>3, <2>1, <2>2 DEF GContexts, Queued
  <2>8. GSignals'
    BY <1>0, <1>1, <1>a, <1>b, <1>c, <1>d, <1>3, <2>1, <2>2 DEF GSignals
  <2>9. GMemory'
    BY <1>0, <1>1, <1>a, <1>b, <1>c, <1>d, <1>3, <2>1, <2>2 DEF GMemory, Gt!Ends, Gt!GTSTOP
  <2>10. GCount'
    BY <1>0, <1>1, <1>e DEF GCount
  <2> QED
    BY <2>3, <2>4, <2>5, <2>6, <2>7, <2>8, <2>9, <2>10 DEF GInv
<1>4. CASE newjob # gt_curr /\ gt_sig[gt_on] # -1
  <2>1. /\ gt_curr' = newjob /\ mode' = "switch"
        /\ leak_stack' = leak_stack /\ frees' = frees /\ freed_jobs' = freed_jobs /\ held' = held
    BY <1>1, <1>2, <1>4
  <2>3. GTypes'
    BY <1>0, <1>1, <1>a, <1>b, <1>c, <1>d, <1>4, <2>1 DEF GTypes
  <2>4. GScript'
    BY <1>0, <1>1, <1>a, <1>b, <1>c, <1>d, <1>4, <2>1 DEF GScript, Queued
  <2>5. GJobs'
    BY <1>0, <1>1, <1>a, <1>b, <1>c, <1>d, <1>4, <2>1 DEF GJobs
  <2>6. GRuns'
    BY <1>0, <1>1, <1>a, <1>b, <1>c, <1>d, <1>4, <2>1 DEF GRuns, Queued, Gt!Ends, Gt!GTSTOP
  <2>7. GContexts'
    BY <1>0, <1>1, <1>a, <1>b, <1>c, <1>d, <1>4, <2>1 DEF GContexts, Queued
  <2>8. GSignals'
    BY <1>0, <1>1, <1>a, <1>b, <1>c, <1>d, <1>4, <2>1 DEF GSignals
  <2>9. GMemory'
    BY <1>0, <1>1, <1>a, <1>b, <1>c, <1>d, <1>4, <2>1 DEF GMemory, Gt!Ends, Gt!GTSTOP
  <2>10. GCount'
    BY <1>0, <1>1, <1>e DEF GCount
  <2> QED
    BY <2>3, <2>4, <2>5, <2>6, <2>7, <2>8, <2>9, <2>10 DEF GInv
<1>5. CASE newjob # gt_curr /\ gt_sig[gt_on] = -1
  <2>1. /\ gt_curr' = newjob /\ mode' = "switch" /\ held' = held \ {gt_on}
        /\ freed_jobs' = freed_jobs \union {gt_on} /\ frees' = Gt!FreedLeak /\ leak_stack' = gt_on
        /\ gt_on # 0 /\ gt_on \in Gt!JobIds /\ gt_on \in held
    BY <1>2, <1>5, <1>a, <1>c DEF Gt!gtdestroy
  <2>2. frees' \in [Gt!JobIds -> Nat]
        /\ \A j \in Gt!JobIds : frees'[j] \in {0, 1} /\ (frees'[j] = 1 => j \in freed_jobs)
    <3>1. CASE leak_stack = 0
      BY <1>0, <2>1, <3>1 DEF GTypes, GMemory, Gt!FreedLeak
    <3>2. CASE leak_stack # 0
      <4>1. leak_stack \in Gt!JobIds /\ leak_stack \in freed_jobs /\ frees[leak_stack] = 0
        BY <1>0, <3>2 DEF GTypes, GMemory
      <4>2. frees' = [frees EXCEPT ![leak_stack] = 1]
        BY <1>0, <2>1, <3>2, <4>1 DEF GTypes, Gt!FreedLeak
      <4> QED
        BY <1>0, <4>1, <4>2 DEF GTypes, GMemory
    <3> QED
      BY <3>1, <3>2
  <2>3. GTypes'
    BY <1>0, <1>1, <1>a, <1>b, <1>c, <1>d, <1>5, <2>1, <2>2 DEF GTypes
  <2>4. GScript'
    BY <1>0, <1>1, <1>a, <1>b, <1>c, <1>d, <1>5, <2>1, <2>2 DEF GScript, Queued
  <2>5. GJobs'
    BY <1>0, <1>1, <1>a, <1>b, <1>c, <1>d, <1>5, <2>1, <2>2 DEF GJobs
  <2>6. GRuns'
    BY <1>0, <1>1, <1>a, <1>b, <1>c, <1>d, <1>5, <2>1, <2>2 DEF GRuns, Queued, Gt!Ends, Gt!GTSTOP
  <2>7. GContexts'
    BY <1>0, <1>1, <1>a, <1>b, <1>c, <1>d, <1>5, <2>1, <2>2 DEF GContexts, Queued
  <2>8. GSignals'
    BY <1>0, <1>1, <1>a, <1>b, <1>c, <1>d, <1>5, <2>1, <2>2 DEF GSignals
  <2>9. GMemory'
    BY <1>0, <1>1, <1>a, <1>b, <1>c, <1>d, <1>5, <2>1, <2>2 DEF GMemory, Gt!Ends, Gt!GTSTOP
  <2>10. GCount'
    BY <1>0, <1>1, <1>e DEF GCount
  <2> QED
    BY <2>3, <2>4, <2>5, <2>6, <2>7, <2>8, <2>9, <2>10 DEF GInv
<1> QED
  BY <1>3, <1>4, <1>5

\* The end of gtyield: the switch.
LEMMA SwitchKeeps ==
  ASSUME GInv, Gt!gtyield_switch
  PROVE  GInv'
<1> USE Ids
<1>0. GTypes /\ GScript /\ GJobs /\ GRuns /\ GContexts /\ GSignals /\ GMemory /\ GCount
  BY DEF GInv
<1>1. /\ mode = "switch" /\ script' = script /\ place' = place /\ gt_sig' = gt_sig /\ gt_curr' = gt_curr
      /\ gt_suspended' = gt_suspended /\ job_count' = job_count /\ jobcount' = jobcount /\ held' = held
      /\ leak_stack' = leak_stack /\ frees' = frees /\ freed_jobs' = freed_jobs
      /\ Gt!gtswtch(gt_curr, IF gt_sig[gt_on] = -1 THEN "gone" ELSE "back")
  BY DEF Gt!gtyield_switch, Gt!memvars, Gt!Ends, Gt!GTSTOP
<1>a. /\ gt_on \in Gt!GtThreads /\ gt_curr \in Gt!GtThreads /\ gt_curr # gt_on
      /\ held \subseteq Gt!JobIds /\ held \cap freed_jobs = {} /\ 0 \notin freed_jobs
      /\ gt_curr # 0 => gt_curr \in held
      /\ gt_on # 0 => gt_on \in Gt!JobIds
      /\ gt_suspended \notin Gt!JobIds
  BY <1>0, <1>1 DEF GTypes, GRuns, GJobs, GMemory
<1>b. gt_sig[gt_on] = -1 => gt_on # 0 /\ gt_on \notin held
  BY <1>0, <1>1, <1>a DEF GSignals, GRuns, GMemory, Gt!Ends, Gt!GTSTOP
<1> DEFINE saved == IF gt_sig[gt_on] = -1 THEN ctx ELSE [ctx EXCEPT ![gt_on] = "back"]
<1>c. /\ gt_on' = gt_curr /\ ctx' = [saved EXCEPT ![gt_curr] = "unset"]
      /\ mode' = CASE saved[gt_curr] = "unset" -> "crashed"
                    [] saved[gt_curr] = "wake" -> "ask"
                    [] OTHER -> "run"
  BY <1>1 DEF Gt!gtswtch
<1>d. saved \in [Gt!GtThreads -> {"unset", "work", "back", "wake"}] /\ saved[gt_curr] = ctx[gt_curr]
      /\ \A t \in Gt!GtThreads : saved[t] = IF t = gt_on /\ gt_sig[gt_on] # -1 THEN "back" ELSE ctx[t]
  BY <1>0, <1>a DEF GTypes
<1> HIDE DEF saved
<1>e. ctx' \in [Gt!GtThreads -> {"unset", "work", "back", "wake"}]
      /\ \A t \in Gt!GtThreads : ctx'[t] = IF t = gt_curr THEN "unset" ELSE saved[t]
  BY <1>a, <1>c, <1>d
<1>f. mode' \in {"crashed", "ask", "run"} /\ (mode' = "crashed" <=> ctx[gt_curr] = "unset")
      /\ (mode' = "ask" <=> ctx[gt_curr] = "wake")
  BY <1>c, <1>d
<1>g. mode' = "crashed" => gt_curr \in held /\ Queued /\ gt_curr = jobcount
  <2>1. gt_curr = 0 => ctx[gt_curr] # "unset"
    BY <1>0, <1>1, <1>a DEF GContexts
  <2> QED
    BY <1>0, <1>1, <1>a, <1>f, <2>1 DEF GContexts
<1>h. jobcount \in Nat /\ \A j \in held : j <= jobcount
  BY <1>0, <1>a DEF GTypes, GJobs
<1>i. {j \in held' : place'[j] # "stopping"} = {j \in held : place[j] # "stopping"}
  BY <1>1
<1>2. GTypes'
  BY <1>0, <1>1, <1>a, <1>b, <1>c, <1>d, <1>e, <1>f, <1>g, <1>h DEF GTypes
<1>3. GScript'
  BY <1>0, <1>1, <1>a, <1>b, <1>c, <1>d, <1>e, <1>f, <1>g, <1>h DEF GScript, Queued
<1>4. GJobs'
  <2>1. gt_on # 0 => gt_on \in held \/ gt_on \in freed_jobs
    BY <1>0, <1>1 DEF GRuns, GMemory
  <2>2. \A j \in Gt!JobIds : j > jobcount => j # gt_on /\ j # gt_curr
    <3>1. held \subseteq 1 .. jobcount /\ freed_jobs \subseteq 1 .. jobcount
      BY <1>0 DEF GJobs
    <3>2. \A j \in Gt!JobIds : j > jobcount => j \notin 1 .. jobcount /\ j # 0
      BY <1>h
    <3> QED
      BY <1>a, <2>1, <3>1, <3>2
  <2>3. \A j \in Gt!JobIds : j > jobcount => ctx'[j] = ctx[j]
    BY <1>d, <1>e, <2>2
  <2> QED
    BY <1>0, <1>1, <2>3 DEF GJobs
<1>5. GRuns'
  BY <1>0, <1>1, <1>a, <1>b, <1>c, <1>d, <1>e, <1>f, <1>g, <1>h DEF GRuns, Queued, Gt!Ends, Gt!GTSTOP
<1>6. GContexts'
  BY <1>0, <1>1, <1>a, <1>b, <1>c, <1>d, <1>e, <1>f, <1>g, <1>h DEF GContexts, Queued
<1>7. GSignals'
  <2>1. \A j \in Gt!JobIds : ctx'[j] = "wake" => ctx[j] = "wake"
    BY <1>d, <1>e
  <2>2. gt_curr = 0 => ctx[0] = "back"
    BY <1>0, <1>1, <1>a DEF GContexts
  <2>3. mode' = "ask" => gt_curr \in Gt!JobIds /\ gt_sig[gt_curr] # 0
    BY <1>0, <1>a, <1>f, <2>2 DEF GSignals
  <2> QED
    BY <1>0, <1>1, <1>c, <1>f, <2>1, <2>3 DEF GSignals
<1>8. GMemory'
  BY <1>0, <1>1, <1>a, <1>b, <1>c, <1>d, <1>e, <1>f, <1>g, <1>h DEF GMemory, Gt!Ends, Gt!GTSTOP
<1>9. GCount'
  BY <1>0, <1>1, <1>i DEF GCount
<1> QED
  BY <1>2, <1>3, <1>4, <1>5, <1>6, <1>7, <1>8, <1>9 DEF GInv

\* gthreads.c:99-291 keeps the invariant.
LEMMA GthreadsKeep ==
  ASSUME GInv, Gt!GtNext
  PROVE  GInv'
BY QueueKeeps, ContextKeeps, StartKeeps, CallsKeep, WorkKeeps, GtyieldKeeps, AskKeeps, SwitchKeeps
   DEF Gt!GtNext

LEMMA GInvImpliesContextsRight ==
  ASSUME GInv
  PROVE  Gt!ContextsRight
<1> USE Ids
<1>0. GTypes /\ GScript /\ GJobs /\ GRuns /\ GContexts /\ GSignals /\ GMemory /\ GCount
  BY DEF GInv
<1>1. mode \in {"run", "yield"} => gt_on = gt_curr
  BY <1>0 DEF GRuns
<1>2. mode # "crashed" /\ gt_on # 0 => frees[gt_on] = 0 /\ (mode = "switch" \/ gt_on \notin freed_jobs)
  <2> SUFFICES ASSUME mode # "crashed", gt_on # 0
               PROVE  frees[gt_on] = 0 /\ (mode = "switch" \/ gt_on \notin freed_jobs)
    OBVIOUS
  <2>1. gt_on \in Gt!JobIds
    BY <1>0 DEF GTypes
  <2>2. frees[gt_on] = 1 => gt_on \in freed_jobs /\ gt_on # leak_stack
    BY <1>0, <2>1 DEF GMemory
  <2>3. gt_on \in freed_jobs => mode = "switch" /\ gt_on = leak_stack
    BY <1>0 DEF GMemory, GRuns
  <2>4. frees[gt_on] \in {0, 1}
    BY <1>0, <2>1 DEF GMemory
  <2> QED
    BY <2>2, <2>3, <2>4
<1>3. \A j \in Gt!JobIds : frees[j] <= 1 /\ (frees[j] = 1 => j \notin held)
  BY <1>0 DEF GMemory
<1>4. (held \cup {gt_curr, gt_suspended}) \cap freed_jobs = {}
  <2>1. freed_jobs \subseteq Gt!JobIds /\ held \cap freed_jobs = {}
    BY <1>0 DEF GJobs, GMemory
  <2>2. (gt_curr \in Gt!JobIds => gt_curr \in held) /\ (gt_suspended \in Gt!JobIds => gt_suspended \in held)
    BY <1>0 DEF GRuns
  <2> QED
    BY <2>1, <2>2
<1>5. mode = "crashed" => place[0] = "queued" /\ gt_on = jobcount
  BY <1>0 DEF GRuns, Queued
<1>6. mode = "exit" => held = {} /\ job_count = 0 /\ gt_suspended = -1
  <2> SUFFICES ASSUME mode = "exit" PROVE held = {} /\ job_count = 0 /\ gt_suspended = -1
    OBVIOUS
  <2>1. held = {} /\ gt_suspended = -1
    BY <1>0 DEF GRuns
  <2>2. {j \in held : place[j] # "stopping"} = {}
    BY <2>1
  <2>3. job_count = 0
    BY <1>0, <2>2, FS_EmptySet DEF GCount
  <2> QED
    BY <2>1, <2>3
<1> QED
  BY <1>1, <1>2, <1>3, <1>4, <1>5, <1>6 DEF Gt!ContextsRight

\* gthreads.c:99-216: whatever job the scheduler chooses and whenever an alarm comes, a stack
\* in use is not freed, each stack is freed once at most, and every switch goes to a context
\* that is there, but for the alarm inside gtgo.
THEOREM ContextsStayRight == SSSpec => []ContextsRight
<1> DEFINE I == focus = "gthreads" => GInv
<1>1. SSInit => I
  BY GInit DEF SSInit
<1>2. I /\ [SSNext]_allvars => I'
  <2> SUFFICES ASSUME I, [SSNext]_allvars PROVE I'
    OBVIOUS
  <2>1. CASE focus = "scheduler" /\ Next /\ UNCHANGED <<focus, gtvars>>
    BY <2>1
  <2>2. CASE focus = "gthreads" /\ Gt!GtNext /\ UNCHANGED <<focus, vars>>
    BY <2>2, GthreadsKeep
  <2>3. CASE UNCHANGED allvars
    BY <2>3 DEF allvars, gtvars, GInv, GTypes, GScript, GJobs, GRuns, GContexts, GSignals, GMemory,
                GCount, Queued, Gt!Ends
  <2> QED
    BY <2>1, <2>2, <2>3 DEF SSNext
<1>3. I => ContextsRight
  BY GInvImpliesContextsRight DEF ContextsRight
<1> HIDE DEF I
<1> QED
  BY <1>1, <1>2, <1>3, PTL DEF SSSpec
=============================================================================
