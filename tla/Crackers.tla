------------------------------ MODULE Crackers ------------------------------
(***************************************************************************)
(* Both password crackers and the tool that makes their examples, for TLC. *)
(* They are three programs: a behaviour is one of version 1, of version 2  *)
(* or of the tool.  The tool is modelled here: create_examples makes a     *)
(* password for which a cracker, who tries the unknown letters in order,   *)
(* needs a given number of attempts; beside it writeInt of thread_status,  *)
(* which formats a number for a signal handler.  A letter is a digit in    *)
(* base NLetters.                                                          *)
(***************************************************************************)
EXTENDS Cracker2, Sequences, SequencesExt

CONSTANTS
    Workers1, MaxLen, NTasks1, AnyPrefix,
    NLetters,           \* 26 in the code
    PASSWORD_LEN,
    MinIter, MaxIter,   \* the command line's limits on the attempts
    MaxInt              \* bound on the numbers given to writeInt

VARIABLES
    version,                                                \* 1, 2, or 0: the tool
    example,            \* the last one made: password, prefix and iter_count
    wrote,              \* the number given to writeInt and the characters it wrote
    Q, pc1, tsk, pwd, hashes1, succ, numRecovered, numFailed    \* of cracker1.c

vars1 == <<Q, pc1, tsk, pwd, hashes1, succ, numRecovered, numFailed>>
toolvars == <<example, wrote>>
allvars == <<version, crackvars, vars1, toolvars>>

V1 == INSTANCE Cracker1 WITH
    Workers <- Workers1, NTasks <- NTasks1, pc <- pc1, hashes <- hashes1

ASSUME CrackersAssumption == V1!CrackerAssumption /\ CrackerAssumption

-----------------------------------------------------------------------------
(* create_examples and writeInt.                                            *)

Dot == -1               \* '.', an unknown letter

NoExample == [password |-> <<>>, prefix |-> <<>>, iter |-> 0]
ToolsInit == example = NoExample /\ wrote = [x |-> 0, buf |-> <<"0">>]

\* The base-NLetters digits of n, the least significant first; none for 0.
digits[n \in Nat] == IF n = 0 THEN <<>> ELSE <<n % NLetters>> \o digits[n \div NLetters]

offset(iter_count) == iter_count - 1

\* createPassword: the digits overwrite the end of the random letters, dots the prefix.
createPassword(letters, iter_count) ==
    LET d == digits[offset(iter_count)]
    IN [password |-> [k \in 1 .. PASSWORD_LEN |-> IF k > PASSWORD_LEN - Len(d)
                        THEN d[PASSWORD_LEN + 1 - k] ELSE letters[k]],
        prefix |-> [k \in 1 .. PASSWORD_LEN |-> IF k > PASSWORD_LEN - Len(d)
                        THEN Dot ELSE letters[k]],
        iter |-> iter_count]

create_example ==
    /\ example = NoExample /\ wrote.x = 0
    /\ \E letters \in [1 .. PASSWORD_LEN -> 0 .. NLetters - 1], n \in MinIter .. MaxIter :
         example' = createPassword(letters, n)
    /\ UNCHANGED wrote

Char == <<"0", "1", "2", "3", "4", "5", "6", "7", "8", "9">>
decimal[n \in Nat] == IF n = 0 THEN <<>> ELSE <<Char[(n % 10) + 1]>> \o decimal[n \div 10]

\* The exchange of buf[i] and buf[buf_len - i - 1] for the first half of the buffer.
reversed(buf) ==
    LET half == Len(buf) \div 2
    IN [k \in DOMAIN buf |-> IF k <= half \/ k > Len(buf) - half THEN buf[Len(buf) + 1 - k]
                             ELSE buf[k]]

writeInt(sx) ==
    IF sx = 0 THEN <<"0">>
    ELSE reversed(decimal[IF sx < 0 THEN -sx ELSE sx] \o IF sx < 0 THEN <<"-">> ELSE <<>>)

write_a_number ==
    /\ example = NoExample /\ wrote.x = 0
    /\ \E x \in -MaxInt .. MaxInt : wrote' = [x |-> x, buf |-> writeInt(x)]
    /\ UNCHANGED example

ToolsNext == create_example \/ write_a_number

-----------------------------------------------------------------------------
\* incrementString, as the crackers step through the unknown letters.
increment(s) ==
    LET p == Max({k \in DOMAIN s : s[k] # NLetters - 1})
    IN [k \in DOMAIN s |-> IF k < p THEN s[k] ELSE IF k = p THEN s[k] + 1 ELSE 0]
Attempt(prefix, n) ==
    FoldLeft(LAMBDA s, k : increment(s),
             [k \in DOMAIN prefix |-> IF prefix[k] = Dot THEN 0 ELSE prefix[k]],
             [k \in 1 .. n - 1 |-> k])

\* The number that the characters read as.
ReadBackNumber(buf) ==
    LET neg == buf[1] = "-"
        ds == IF neg THEN Tail(buf) ELSE buf
        n == FoldLeft(LAMBDA acc, c : acc * 10 + (CHOOSE k \in 1 .. 10 : Char[k] = c) - 1, 0, ds)
    IN IF neg THEN -n ELSE n

\* create_examples.c:40-61 and thread_status.c:81-120: the attempt with number iter_count
\* of a cracker that is given the prefix is the password; what writeInt writes is the
\* number, without leading zeroes.
ToolsRight ==
    /\ example # NoExample => Attempt(example.prefix, example.iter) = example.password
    /\ ReadBackNumber(wrote.buf) = wrote.x
    /\ Len(wrote.buf) > 1 => wrote.buf[1] # "0"

-----------------------------------------------------------------------------
(* The three programs.                                                      *)

CInit ==
    /\ version \in {0, 1, 2}
    /\ version # 1 => Q = <<V1!NULL>>
    /\ CrackInit /\ V1!Init /\ ToolsInit

Worker1(w) == version = 1 /\ V1!solve_task(w) /\ UNCHANGED <<version, crackvars, toolvars>>
Main2 == version = 2 /\ start /\ UNCHANGED <<version, vars1, toolvars>>
Barrier2 == version = 2 /\ (Starts \/ Ends) /\ UNCHANGED <<version, vars1, toolvars>>
Worker2(t) == version = 2 /\ solve_task(t) /\ UNCHANGED <<version, vars1, toolvars>>

CNext ==
    \/ \E w \in Workers1 : Worker1(w)
    \/ Main2 \/ Barrier2
    \/ \E t \in Workers : Worker2(t)
    \/ version = 0 /\ ToolsNext /\ UNCHANGED <<version, crackvars, vars1>>

\* Threads that can run do; the barrier lets everyone go.
CSpec ==
    /\ CInit /\ [][CNext]_allvars
    /\ \A w \in Workers1 : WF_allvars(Worker1(w))
    /\ WF_allvars(Main2) /\ WF_allvars(Barrier2)
    /\ \A t \in Workers : WF_allvars(Worker2(t))

-----------------------------------------------------------------------------
\* cracker1.c:85: a worker that is through with a task has found the password if
\* there is one, and tried every candidate up to it once; see module Cracker1.
\* create_examples.c:54: the answer that comes with an example is what the crackers will
\* find, after the number of hashes that was asked for; see ToolsRight.
SearchExhaustive == V1!SearchExhaustive /\ ToolsRight

\* cracker1.c:124: one NULL stops any number of workers, all of them in the end.
\* cracker2.c:212: main and the workers get through all the barriers, and main joins
\* workers that have left.
EveryoneEnds ==
    /\ version = 1 => V1!WorkersExit
    /\ version = 2 => AllEnd
=============================================================================
