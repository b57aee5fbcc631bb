-------------------------------- MODULE Vector --------------------------------
(***************************************************************************)
(* vector.c: a growing array of pointers whose elements are made and       *)
(* destroyed by callbacks.  A vector of strings or numbers owns a copy of  *)
(* each element, a shallow vector holds the caller's pointers; an element   *)
(* is null, a block that the vector allocated or the caller's pointer.     *)
(***************************************************************************)
EXTENDS Integers, Sequences, FiniteSets, FiniteSetsExt, SequencesExt

CONSTANTS
    INITIAL_CAPACITY, GROWTH_FACTOR,
    Values,         \* what elements may be
    Default,        \* what the default constructor makes
    MaxElems        \* the greatest size of a behaviour

VectorAssumption ==
    INITIAL_CAPACITY \in Nat \ {0} /\ GROWTH_FACTOR \in Nat \ {0, 1} /\ MaxElems \in Nat

VARIABLES
    shallow,        \* which callbacks the vector was made with
    vec,            \* the vector: array (its whole capacity), size, capacity
    blocks_live,    \* the blocks of its elements that are allocated, with their values
    wrong,          \* a block was freed twice, or a freed one was read
    undefined,      \* vector_insert has left the array
    ideal           \* the sequence of values that the calls so far describe

vvars == <<shallow, vec, blocks_live, wrong, undefined, ideal>>

Null == <<"null", 0>>
Own(n) == <<"own", n>>
Extern(v) == <<"caller's", v>>

get_new_capacity(target) ==
    LET grown[c \in Nat] == IF c >= target THEN c ELSE grown[c * GROWTH_FACTOR] IN grown[1]

\* vector_create, after vector_destroy of the one before.
VInit ==
    /\ shallow \in BOOLEAN
    /\ vec = [array |-> [k \in 1 .. INITIAL_CAPACITY |-> Null], size |-> 0,
              capacity |-> INITIAL_CAPACITY, exists |-> TRUE]
    /\ blocks_live = [n \in {} |-> Default]
    /\ wrong = FALSE /\ undefined = FALSE
    /\ ideal = <<>>

-----------------------------------------------------------------------------
(* The callbacks, on a state s of the vector's memory: the array, the       *)
(* blocks and whether something went wrong.                                 *)

Memory == [array |-> vec.array, blocks |-> blocks_live, wrong |-> wrong]

NewBlock(s) == Min((1 .. Cardinality(DOMAIN s.blocks) + 1) \ DOMAIN s.blocks)
Put(s, k, e) == [s EXCEPT !.array[k] = e]
Allocate(s, k, v) ==
    LET n == NewBlock(s)
    IN [Put(s, k, Own(n)) EXCEPT
          !.blocks = [m \in DOMAIN s.blocks \cup {n} |-> IF m = n THEN v ELSE s.blocks[m]]]

ValueOf(s, e) == IF e[1] = "own" /\ e[2] \in DOMAIN s.blocks THEN s.blocks[e[2]] ELSE e[2]

\* array[k] = copy_constructor(e)
copy_constructor(s, k, e) ==
    IF shallow \/ e = Null THEN Put(s, k, e)
    ELSE IF e[1] = "own" /\ e[2] \notin DOMAIN s.blocks THEN [s EXCEPT !.wrong = TRUE]
    ELSE Allocate(s, k, ValueOf(s, e))

default_constructor(s, k) == IF shallow THEN Put(s, k, Null) ELSE Allocate(s, k, Default)

\* destructor(array[k])
destructor(s, k) ==
    LET e == s.array[k]
    IN IF shallow \/ e[1] # "own" THEN s
       ELSE IF e[2] \notin DOMAIN s.blocks THEN [s EXCEPT !.wrong = TRUE]
       ELSE [s EXCEPT !.blocks = [m \in DOMAIN s.blocks \ {e[2]} |-> s.blocks[m]]]

Over(ks, op(_, _), s) == FoldLeft(op, s, ks)
Up(a, b) == [k \in 1 .. Max({0, b - a + 1}) |-> a + k - 1]
Down(a, b) == [k \in 1 .. Max({0, a - b + 1}) |-> a - k + 1]

\* The callers' elements: a value or NULL.
Elements == {Extern(v) : v \in Values} \cup {Null}
Meaning(e) == IF e = Null THEN "NULL" ELSE e[2]

\* The vector after memory s, with the size n.
Becomes(s, n, cap) ==
    /\ vec' = [vec EXCEPT !.array = s.array, !.size = n, !.capacity = cap]
    /\ blocks_live' = s.blocks
    /\ wrong' = s.wrong
    /\ UNCHANGED <<shallow, undefined>>

\* vector_reserve(n): the array it leaves.
Reserved(n) ==
    IF n <= vec.capacity THEN [array |-> vec.array, capacity |-> vec.capacity]
    ELSE LET cap == get_new_capacity(n)
         IN [array |-> [k \in 1 .. cap |-> IF k <= vec.capacity THEN vec.array[k] ELSE Null],
             capacity |-> cap]
Ready == vec.exists /\ ~undefined

-----------------------------------------------------------------------------
(* The operations; positions count from 0 as in the code.                  *)

vector_reserve(n) ==
    /\ Ready
    /\ LET r == Reserved(n) IN Becomes([Memory EXCEPT !.array = r.array], vec.size, r.capacity)
    /\ UNCHANGED ideal

vector_push_back(e) ==
    /\ Ready /\ vec.size < MaxElems
    /\ LET r == Reserved(vec.size + 1)
       IN Becomes(copy_constructor([Memory EXCEPT !.array = r.array], vec.size + 1, e),
                  vec.size + 1, r.capacity)
    /\ ideal' = Append(ideal, Meaning(e))

vector_pop_back ==
    /\ Ready /\ vec.size # 0
    /\ Becomes(destructor(Memory, vec.size), vec.size - 1, vec.capacity)
    /\ ideal' = Front(ideal)

vector_set(p, e) ==
    /\ Ready /\ p < vec.size
    /\ Becomes(copy_constructor(destructor(Memory, p + 1), p + 1, e), vec.size, vec.capacity)
    /\ ideal' = [ideal EXCEPT ![p + 1] = Meaning(e)]

vector_resize(n) ==
    /\ Ready /\ n <= MaxElems
    /\ LET r == Reserved(n)
           s == [Memory EXCEPT !.array = r.array]
       IN IF n < vec.size
          THEN Becomes(Over(Up(n + 1, vec.size), destructor, Memory), n, vec.capacity)
          ELSE Becomes(Over(Up(vec.size + 1, n), default_constructor, s), n, r.capacity)
    /\ ideal' = [k \in 1 .. n |-> IF k <= Len(ideal) THEN ideal[k]
                                  ELSE IF shallow THEN "NULL" ELSE Default]

\* The loop copies array[i] to array[i+1] and destroys it, for i from old_size - 1 down
\* to position; with size_t i it never ends when position is 0.
vector_insert(p, e) ==
    /\ Ready /\ p <= vec.size /\ vec.size < MaxElems
    /\ IF p = 0
       THEN undefined' = TRUE /\ UNCHANGED <<shallow, vec, blocks_live, wrong, ideal>>
       ELSE /\ LET r == Reserved(vec.size + 1)
                   shift(s, i) == destructor(copy_constructor(s, i + 2, s.array[i + 1]), i + 1)
                   s1 == Over(Down(vec.size - 1, p), shift, [Memory EXCEPT !.array = r.array])
               IN Becomes(copy_constructor(s1, p + 1, e), vec.size + 1, r.capacity)
            /\ ideal' = InsertAt(ideal, p + 1, Meaning(e))

\* Mutant: the element that moves down is not destroyed in its old place.
vector_erase_keeps_last(p) ==
    /\ Ready /\ p < vec.size
    /\ LET shift(s, i) == copy_constructor(destructor(s, i + 1), i + 1, s.array[i + 2])
           s1 == Over(Up(p, vec.size - 2), shift, Memory)
       IN Becomes(s1, vec.size - 1, vec.capacity)
    /\ ideal' = RemoveAt(ideal, p + 1)

vector_erase(p) ==
    /\ Ready /\ p < vec.size
    /\ LET shift(s, i) == copy_constructor(destructor(s, i + 1), i + 1, s.array[i + 2])
           s1 == Over(Up(p, vec.size - 2), shift, Memory)
       IN Becomes(destructor(s1, vec.size), vec.size - 1, vec.capacity)
    /\ ideal' = RemoveAt(ideal, p + 1)

DestroyAll(s, k) == Put(destructor(s, k), k, Null)

vector_clear ==
    /\ Ready
    /\ Becomes(Over(Up(1, vec.size), DestroyAll, Memory), 0, vec.capacity)
    /\ ideal' = <<>>

vector_destroy ==
    /\ Ready
    /\ LET s == Over(Up(1, vec.size), DestroyAll, Memory)
       IN /\ vec' = [vec EXCEPT !.array = <<>>, !.size = 0, !.capacity = 0, !.exists = FALSE]
          /\ blocks_live' = s.blocks /\ wrong' = s.wrong
    /\ ideal' = <<>>
    /\ UNCHANGED <<shallow, undefined>>

VNext ==
    \/ vector_pop_back \/ vector_clear \/ vector_destroy
    \/ \E n \in 0 .. MaxElems + 1 : vector_reserve(n) \/ vector_resize(n)
    \/ \E e \in Elements : vector_push_back(e)
    \/ \E p \in 0 .. MaxElems :
         \/ vector_erase(p)
         \/ \E e \in Elements : vector_set(p, e) \/ vector_insert(p, e)

-----------------------------------------------------------------------------
Contents == [k \in 1 .. vec.size |->
    IF vec.array[k] = Null THEN "NULL" ELSE ValueOf(Memory, vec.array[k])]
Owned == {vec.array[k][2] : k \in {k \in 1 .. vec.size : vec.array[k][1] = "own"}}

\* vector.c:112-338: whatever sequence of calls, the vector holds the values that a plain
\* sequence would, its blocks are exactly the ones its slots point to, one each (nothing
\* leaks, nothing is freed twice or used after it was freed), and the size fits the array.
VectorRight ==
    /\ ~wrong
    /\ ~undefined =>
        /\ Contents = ideal
        /\ vec.size <= vec.capacity /\ vec.capacity = Len(vec.array)
        /\ DOMAIN blocks_live = Owned
        /\ \A i, j \in 1 .. vec.size :
             i # j /\ vec.array[i][1] = "own" => vec.array[i] # vec.array[j]

-----------------------------------------------------------------------------
(* sstring.c: strings that own their characters, on top of vector.  A        *)
(* string is a sequence of characters; the operations return what the        *)
(* caller gets.                                                              *)

CONSTANTS
    Alphabet,       \* the characters
    MaxStr,         \* the longest string
    MaxArg          \* the longest argument

VARIABLES
    sstr,           \* this->str
    before,         \* the string before the last call
    call,           \* the last call, with its arguments
    answer          \* what it returned: a sequence

svars == <<sstr, before, call, answer>>

Strings == BoundedSeq(Alphabet, MaxStr)
Args == BoundedSeq(Alphabet, MaxArg)

\* cstr_to_sstring.
SInitStr ==
    /\ sstr \in Strings
    /\ before = sstr /\ call = <<"cstr_to_sstring">> /\ answer = <<>>

Does(c, s, a) == call' = c /\ before' = sstr /\ sstr' = s /\ answer' = a

sstring_append(t) ==
    /\ Len(sstr) + Len(t) <= MaxStr
    /\ Does(<<"append", t>>, sstr \o t, <<Len(sstr \o t)>>)

\* strchr(s + p, c), as an index from 1; 0 when there is none.
strchr(s, p, c) == Min({k \in p .. Len(s) : s[k] = c} \cup {Len(s) + 1})

\* Mutant: no empty string after a delimiter at the end.
split_from_short(s, delimiter) ==
    LET n == Len(s)
        from[p \in 1 .. n + 1] ==
            IF p > n THEN <<>>
            ELSE LET e == strchr(s, p, delimiter)
                 IN IF e > n THEN <<SubSeq(s, p, n)>> ELSE <<SubSeq(s, p, e - 1)>> \o from[e + 1]
    IN from[1]

\* The loop of sstring_split from the position p on.
split_from(s, delimiter) ==
    LET n == Len(s)
        from[p \in 1 .. n + 1] ==
            IF p > n THEN <<>>
            ELSE LET e == strchr(s, p, delimiter)
                 IN IF e > n THEN <<SubSeq(s, p, n)>>
                    ELSE <<SubSeq(s, p, e - 1)>> \o (IF e = n THEN <<<<>>>> ELSE <<>>)
                            \o from[e + 1]
    IN from[1]

sstring_split(delimiter) ==
    Does(<<"split", delimiter>>, sstr, split_from(sstr, delimiter))

\* strstr(s + offset, target): the number of characters before the match, -1 for none.
strstr(s, offset, target) ==
    LET hits == {k \in offset .. Len(s) - Len(target) :
                    SubSeq(s, k + 1, k + Len(target)) = target}
    IN IF hits = {} THEN -1 ELSE Min(hits)

sstring_substitute(offset, target, substitution) ==
    /\ offset <= Len(sstr)
    /\ LET next == strstr(sstr, offset, target)
       IN IF next = -1 THEN Does(<<"substitute", offset, target, substitution>>, sstr, <<-1>>)
          ELSE LET new == SubSeq(sstr, 1, next) \o substitution
                            \o SubSeq(sstr, next + Len(target) + 1, Len(sstr))
               IN /\ Len(new) <= MaxStr
                  /\ Does(<<"substitute", offset, target, substitution>>, new, <<0>>)

sstring_slice(start, end) ==
    /\ start <= end /\ end <= Len(sstr)
    /\ Does(<<"slice", start, end>>, sstr, SubSeq(sstr, start + 1, end))

SNextStr ==
    \/ \E t \in Args : sstring_append(t)
    \/ \E c \in Alphabet : sstring_split(c)
    \/ \E o \in 0 .. MaxStr, t, u \in Args : sstring_substitute(o, t, u)
    \/ \E a, b \in 0 .. MaxStr : sstring_slice(a, b)

-----------------------------------------------------------------------------
\* Reference: python3's split, the pieces between one delimiter, or end, and the next.
PythonSplit(s, c) ==
    LET cuts == SetToSortSeq({0, Len(s) + 1} \cup {k \in DOMAIN s : s[k] = c}, <)
    IN [k \in 1 .. Len(cuts) - 1 |-> SubSeq(s, cuts[k] + 1, cuts[k + 1] - 1)]

\* sstring.c:35-112 and sstring.h:43-107: split gives what python3's split does, except that
\* the empty string has no parts where python3 gives one empty part; a substitution changes
\* the first match at or after the offset and nothing else, and is refused only when there
\* is none; append and slice give the characters of the one string and the other, and only
\* append and substitute change the string.
SstringRight ==
    CASE call[1] = "split" ->
            /\ answer = IF before = <<>> THEN <<>> ELSE PythonSplit(before, call[2])
            /\ sstr = before
      [] call[1] = "substitute" ->
            IF answer = <<0>>
            THEN \E a, b \in 0 .. Len(before) :
                    /\ a >= call[2] /\ b = a + Len(call[3])
                    /\ SubSeq(before, a + 1, b) = call[3]
                    /\ sstr = SubSeq(before, 1, a) \o call[4] \o SubSeq(before, b + 1, Len(before))
                    /\ \A k \in call[2] .. a - 1 :
                         SubSeq(before, k + 1, Min({k + Len(call[3]), Len(before)})) # call[3]
            ELSE \A k \in call[2] .. Len(before) :
                    SubSeq(before, k + 1, Min({k + Len(call[3]), Len(before)})) # call[3]
      [] call[1] = "append" -> answer = <<Len(sstr)>> /\ sstr = before \o call[2]
      [] call[1] = "slice" ->
            /\ Len(answer) = call[3] - call[2] /\ sstr = before
            /\ \A k \in DOMAIN answer : answer[k] = before[call[2] + k]
      [] call[1] = "cstr_to_sstring" -> sstr = before
=============================================================================
