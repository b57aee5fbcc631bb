------------------------------ MODULE Cracker1 ------------------------------
(***************************************************************************)
(* password_cracker/cracker1.c: every worker takes whole tasks from one    *)
(* unbounded queue.  The NULL at its end stops a worker, which pushes it   *)
(* back for the next one.  A password is a sequence of letters 0 .. z.     *)
(* The queue is the library that comes with the assignment: push never     *)
(* blocks, pull blocks while it is empty, each is one step.                *)
(***************************************************************************)
EXTENDS Integers, Sequences, FiniteSets, SequencesExt

CONSTANTS
    Workers,
    Letters,    \* size of the alphabet, 26 in the code
    MaxLen,     \* bound on the length of a password
    NTasks,     \* bound on the lines of the input
    AnyPrefix   \* FALSE: the known part has a letter that is not the last one

CrackerAssumption ==
    /\ Letters \in Nat \ {0, 1}
    /\ MaxLen \in Nat \ {0}
    /\ NTasks \in Nat
    /\ AnyPrefix \in BOOLEAN

z == Letters - 1
Letter == 0 .. z
Words(n) == [1 .. n -> Letter]

\* A line of the input: the letters that are known, the number of dots, and the
\* password behind the hash, which need not start with those letters.
Tasks ==
    UNION {{[known |-> k, dots |-> d, password |-> p] :
                k \in {w \in Words(n) : AnyPrefix \/ \E i \in 1 .. n : w[i] # z},
                d \in 0 .. MaxLen - n, p \in Words(MaxLen)} : n \in 0 .. MaxLen}

\* crypt_r(pwd) is the hash of the line; a password of another length never is.
Matches(pwd, tsk) ==
    /\ Len(pwd) = Len(tsk.known) + tsk.dots
    /\ pwd = SubSeq(tsk.password, 1, Len(pwd))

\* hashes is an int: it comes round again, after more than every candidate.
IntRange == 2 * Letters ^ MaxLen

NULL == [known |-> <<>>, dots |-> -1, password |-> <<>>]

VARIABLES
    Q,              \* the queue
    pc,             \* "pull", "search", "result", "push", "exit"
    tsk, pwd, hashes, succ,
    numRecovered, numFailed

vars == <<Q, pc, tsk, pwd, hashes, succ, numRecovered, numFailed>>

\* start: all lines are pushed, then the NULL, before a worker is created.
Init ==
    /\ \E n \in 0 .. NTasks : \E lines \in [1 .. n -> Tasks] : Q = Append(lines, NULL)
    /\ pc = [w \in Workers |-> "pull"]
    /\ tsk = [w \in Workers |-> NULL]
    /\ pwd = [w \in Workers |-> <<>>]
    /\ hashes = [w \in Workers |-> 0]
    /\ succ = [w \in Workers |-> FALSE]
    /\ numRecovered = 0 /\ numFailed = 0

\* setStringPosition(pwd + dotsStart, 0)
FirstPassword(t) == t.known \o [i \in 1 .. t.dots |-> 0]

\* Mutant: the letters behind the incremented one are kept.
incrementKeeps(s) ==
    LET at == {i \in DOMAIN s : s[i] # z /\ \A j \in i + 1 .. Len(s) : s[j] = z} IN
    [i \in DOMAIN s |-> IF i \in at THEN s[i] + 1 ELSE s[i]]

\* The last letter that is not z is incremented, the ones behind it start again;
\* a string of z is left as it is.
incrementString(s) ==
    LET at == {i \in DOMAIN s : s[i] # z /\ \A j \in i + 1 .. Len(s) : s[j] = z} IN
    [i \in DOMAIN s |-> IF i \in at THEN s[i] + 1
                        ELSE IF \E k \in at : k < i THEN 0 ELSE s[i]]

samePrefix(s, t) == SubSeq(s, 1, Len(t.known)) = t.known

PullTask(w) ==
    /\ pc[w] = "pull" /\ Q # <<>> /\ Head(Q) # NULL
    /\ Q' = Tail(Q)
    /\ tsk' = [tsk EXCEPT ![w] = Head(Q)]
    /\ pwd' = [pwd EXCEPT ![w] = FirstPassword(Head(Q))]
    /\ hashes' = [hashes EXCEPT ![w] = 0]
    /\ succ' = [succ EXCEPT ![w] = FALSE]
    /\ pc' = [pc EXCEPT ![w] = "search"]
    /\ UNCHANGED <<numRecovered, numFailed>>

\* One turn of the inner loop.
Hash(w) ==
    /\ pc[w] = "search"
    /\ hashes' = [hashes EXCEPT ![w] = (@ + 1) % IntRange]
    /\ pwd' = [pwd EXCEPT ![w] = incrementString(@)]
    /\ succ' = [succ EXCEPT ![w] = @ \/ Matches(pwd[w], tsk[w])]
    /\ numRecovered' = IF Matches(pwd[w], tsk[w]) THEN numRecovered + 1
                       ELSE numRecovered
    /\ pc' = [pc EXCEPT ![w] =
                IF Matches(pwd[w], tsk[w]) \/ ~samePrefix(pwd'[w], tsk[w])
                THEN "result" ELSE "search"]
    /\ UNCHANGED <<Q, tsk, numFailed>>

Result(w) ==
    /\ pc[w] = "result"
    /\ numFailed' = IF succ[w] THEN numFailed ELSE numFailed + 1
    /\ pc' = [pc EXCEPT ![w] = "pull"]
    /\ UNCHANGED <<Q, tsk, pwd, hashes, succ, numRecovered>>

PullNull(w) ==
    /\ pc[w] = "pull" /\ Q # <<>> /\ Head(Q) = NULL
    /\ Q' = Tail(Q)
    /\ pc' = [pc EXCEPT ![w] = "push"]
    /\ UNCHANGED <<tsk, pwd, hashes, succ, numRecovered, numFailed>>

\* Mutant: the NULL is not pushed back.
ExitSilently(w) ==
    /\ pc[w] = "push"
    /\ pc' = [pc EXCEPT ![w] = "exit"]
    /\ UNCHANGED <<Q, tsk, pwd, hashes, succ, numRecovered, numFailed>>

PushNull(w) ==
    /\ pc[w] = "push"
    /\ Q' = Append(Q, NULL)
    /\ pc' = [pc EXCEPT ![w] = "exit"]
    /\ UNCHANGED <<tsk, pwd, hashes, succ, numRecovered, numFailed>>

solve_task(w) == PullTask(w) \/ Hash(w) \/ Result(w) \/ PullNull(w) \/ PushNull(w)

Next == \E w \in Workers : solve_task(w)

\* A worker that can run runs.
Spec == Init /\ [][Next]_vars /\ \A w \in Workers : WF_vars(solve_task(w))

-----------------------------------------------------------------------------
TypeOK ==
    /\ Q \in Seq(Tasks \union {NULL})
    /\ pc \in [Workers -> {"pull", "search", "result", "push", "exit"}]
    /\ tsk \in [Workers -> Tasks \union {NULL}]
    /\ \A w \in Workers : \A i \in DOMAIN pwd[w] : pwd[w][i] \in Letter
    /\ succ \in [Workers -> BOOLEAN]
    /\ numRecovered \in Nat /\ numFailed \in Nat

\* Where the password stands among the candidates of its task.
PlaceOf(t) == Cardinality({p \in Words(t.dots) :
    \E i \in 1 .. t.dots :
        /\ \A j \in 1 .. i - 1 : p[j] = t.password[Len(t.known) + j]
        /\ p[i] < t.password[Len(t.known) + i]})

HasPassword(t) ==
    /\ Len(t.known) + t.dots <= MaxLen
    /\ SubSeq(t.password, 1, Len(t.known)) = t.known

\* A worker that is through with a task has found the password if there is one
\* that starts with the known letters, and tried every candidate up to it, all of
\* them if there is none, none of them twice.
SearchExhaustive ==
    \A w \in Workers : pc[w] = "result" =>
        /\ succ[w] = HasPassword(tsk[w])
        /\ hashes[w] = IF succ[w] THEN PlaceOf(tsk[w]) + 1
                       ELSE Cardinality(Words(tsk[w].dots))

\* All workers come to their end, so that start can join them and print.
WorkersExit == <>[](\A w \in Workers : pc[w] = "exit")

\* libs/format.h:33: a task ends with the result 0 or with the result 1.
TasksEnd == \A w \in Workers : pc[w] = "search" ~> pc[w] = "result"
=============================================================================
