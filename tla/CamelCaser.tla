----------------------------- MODULE CamelCaser -----------------------------
(***************************************************************************)
(* extreme_edge_cases: camel_caser turns each sentence of its input (the   *)
(* text up to a punctuation mark) into one camel-cased word and returns    *)
(* them as a table the caller gives back to destroy.  A character is a     *)
(* member of Chars; upper and lower case are the functions below.          *)
(***************************************************************************)
EXTENDS Integers, Sequences, SequencesExt, FiniteSetsExt, Functions

CONSTANTS MaxInput      \* the longest input string

VARIABLES
    input,      \* input_str, or NULL as the one-element tuple <<"NULL">>
    table,      \* splitted, the strings in it; <<"none">> when there is no table
    allocs      \* the allocations of camel_caser and destroy that are live

ccvars == <<input, table, allocs>>

Chars == {"a", "B", "1", " ", "."}
Null == <<"NULL">>
isalpha(c) == c \in {"a", "A", "b", "B"}
isspace(c) == c = " "
ispunct(c) == c = "."
toupper(c) == IF c = "a" THEN "A" ELSE IF c = "b" THEN "B" ELSE c
tolower(c) == IF c = "A" THEN "a" ELSE IF c = "B" THEN "b" ELSE c

CCInit ==
    /\ input \in {Null} \cup BoundedSeq(Chars, MaxInput)
    /\ table = <<"none">>
    /\ allocs = 0

\* Every part that a punctuation mark ends, without it; the rest of the input is left out.
split_str(s) ==
    LET step(acc, c) == IF ispunct(c) THEN [out |-> Append(acc.out, acc.part), part |-> <<>>]
                        ELSE [acc EXCEPT !.part = Append(@, c)]
    IN FoldLeft(step, [out |-> <<>>, part |-> <<>>], s).out

\* The word s[i+1..j]: its first letter is cased by its place, the others are lowered.
camel_case_word(s, i, j, first_word) ==
    LET letters == {k \in i + 1 .. j : isalpha(s[k])}
    IN [k \in DOMAIN s |->
          IF k \notin letters THEN s[k]
          ELSE IF k = Min(letters) /\ ~first_word THEN toupper(s[k]) ELSE tolower(s[k])]

\* The two nested loops visit every j once; i is where the word that j is in begins.
camel_case_str(s) ==
    LET n == Len(s)
        step(acc, j) ==
            IF ~isspace(acc.s[j]) /\ ~acc.seen THEN [acc EXCEPT !.seen = TRUE]
            ELSE IF isspace(acc.s[j]) /\ acc.seen
                 THEN [acc EXCEPT !.s = camel_case_word(@, acc.i, j - 1, acc.i = 0), !.i = j]
            ELSE IF j = n THEN [acc EXCEPT !.s = camel_case_word(@, acc.i, n, acc.i = 0)]
            ELSE acc
    IN FoldLeft(step, [s |-> s, i |-> 0, seen |-> FALSE], [j \in 1 .. n |-> j]).s

NotSpace(c) == ~isspace(c)
remove_whitespaces_str(s) == SelectSeq(s, NotSpace)

\* One call of camel_caser: a string per sentence and the table itself.
camel_caser ==
    /\ table = <<"none">> /\ allocs = 0 /\ input # Null
    /\ LET parts == split_str(input)
       IN /\ table' = [k \in DOMAIN parts |-> remove_whitespaces_str(camel_case_str(parts[k]))]
          /\ allocs' = Len(parts) + 1
    /\ UNCHANGED input

\* The caller gives the table back; a second input is then taken up.
destroy ==
    /\ table # <<"none">>
    /\ allocs' = allocs - Len(table) - 1
    /\ table' = <<"none">>
    /\ input' = Null

CCNext == camel_caser \/ destroy

-----------------------------------------------------------------------------
(* The reference: a word is a maximal run of other characters than blanks. *)
Words(s) ==
    LET step(acc, c) ==
            IF ~isspace(c) THEN [acc EXCEPT !.w = Append(@, c)]
            ELSE [ws |-> IF acc.w = <<>> THEN acc.ws ELSE Append(acc.ws, acc.w), w |-> <<>>]
    IN FoldLeft(step, [ws |-> <<>>, w |-> <<>>], Append(s, " ")).ws

\* All of a word in small letters, but the first letter of a word after the first.
Cased(w, k) ==
    [i \in DOMAIN w |->
        IF k > 1 /\ isalpha(w[i]) /\ \A j \in 1 .. i - 1 : ~isalpha(w[j]) THEN toupper(w[i])
        ELSE tolower(w[i])]

Camel(s) == LET ws == Words(s) IN FlattenSeq([k \in DOMAIN ws |-> Cased(ws[k], k)])

\* camel_case_str never looks again at a first word that is the last character.
LoneLast(s) == Len(s) > 0 /\ ~isspace(s[Len(s)]) /\ \A k \in 1 .. Len(s) - 1 : isspace(s[k])

\* camelCaser.c:84-117 and 143-195: the n-th string is the n-th sentence in camel case,
\* and every string and the table are freed once.  A sentence of one character after
\* blanks keeps its case (line 94 takes the branch that only sets first_word_seen).
CamelRight ==
    /\ allocs = IF table = <<"none">> THEN 0 ELSE Len(table) + 1
    /\ table # <<"none">> =>
        LET parts == split_str(input)
        IN /\ Len(table) = Len(parts)
           /\ \A k \in DOMAIN parts :
                table[k] = IF LoneLast(parts[k]) THEN Words(parts[k])[1] ELSE Camel(parts[k])
=============================================================================
