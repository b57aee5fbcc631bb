------------------------------ MODULE MapReduce ------------------------------
(***************************************************************************)
(* mapreduce: main makes a pipe per mapper and one for the reducer and     *)
(* forks the splitters, the mappers and the reducer, each of which inherits *)
(* the ends main still has open.  A reader sees the end of its input only  *)
(* when every process has closed or lost the write end, so the order of    *)
(* close and fork decides whether anybody ever finishes.  A record that a  *)
(* mapper prints is a key, a colon, a blank, 1 and a newline; stdio writes *)
(* its buffer out whenever it is full, in the middle of a record or not.   *)
(***************************************************************************)
EXTENDS Integers, Sequences, FiniteSets, SequencesExt, FiniteSetsExt, Functions, TLC

CONSTANTS
    Texts,          \* the input files of whole runs, sequences of characters
    PortionTexts,   \* the inputs of the splitter run by hand
    NMappers,       \* mapper_count
    PipeCap,        \* the lines a mapper's pipe holds
    RedCap,         \* the writes the reducer's pipe holds
    StdioBuf        \* the characters stdio buffers before it writes

MapReduceAssumption ==
    NMappers \in Nat \ {0} /\ PipeCap \in Nat \ {0} /\ RedCap \in Nat \ {0}
        /\ StdioBuf \in Nat \ {0}

VARIABLES
    text,       \* the input file
    mapper,     \* the mapper that runs: mapper_exec
    fault,      \* what the system refuses in this behaviour
    main,       \* where main is: <<step, index>>
    proc,       \* the state of each child
    fds,        \* the pipe ends each process has open
    todo,       \* the lines each splitter has still to write
    pipe,       \* mp: the lines in each mapper's pipe
    outbuf,     \* the writes each mapper has still to do for its line
    red,        \* the writes in the reducer's pipe
    store,      \* the reducer's datastore and what it has read ahead
    blocks,     \* the allocations the reducer holds
    output      \* the output file, <<sums>> once the reducer has printed it

mrvars == <<text, mapper, fault, main, proc, fds, todo, pipe, outbuf, red, store, blocks,
            output>>

Idx == 0 .. NMappers - 1
Main == <<"main", 0>>
Splitter(i) == <<"splitter", i>>
Mapper(i) == <<"mapper", i>>
Reducer == <<"reducer", 0>>
Children == {Splitter(i) : i \in Idx} \cup {Mapper(i) : i \in Idx} \cup {Reducer}
InR(i) == <<"in", i, "r">>
InW(i) == <<"in", i, "w">>
RedR == <<"red", 0, "r">>
RedW == <<"red", 0, "w">>
Ends == {InR(i) : i \in Idx} \cup {InW(i) : i \in Idx} \cup {RedR, RedW}

NL == "n"       \* the newline
SP == " "
Letters == {"a", "b"}

-----------------------------------------------------------------------------
(* The splitter: which bytes of the file portion index of count is.        *)

getSubrange(length, count, idx) == <<(length * idx) \div count,
                                     Min({(length * (idx + 1)) \div count, length})>>

\* The offset just after the first newline at or after p.
nextLine(data, p) ==
    Min({q + 1 : q \in {q \in p .. Len(data) - 1 : data[q + 1] = NL}} \cup {Len(data)})

write_portion(data, count, index) ==
    LET range == getSubrange(Len(data), count, index)
        from == IF index = 0 THEN 0 ELSE nextLine(data, range[1])
        to == IF index = count - 1 THEN Len(data) ELSE nextLine(data, range[2])
    IN SubSeq(data, from + 1, to)     \* empty unless end_ptr > start_ptr

\* The pieces of s between separators, the empty ones left out (strtok; and
\* getline's lines, where an empty line maps to no record).
Pieces(s, sep) ==
    LET cut(acc, c) ==
            IF c # sep THEN [acc EXCEPT !.word = Append(@, c)]
            ELSE [words |-> IF acc.word = <<>> THEN acc.words ELSE Append(acc.words, acc.word),
                  word |-> <<>>]
    IN FoldLeft(cut, [words |-> <<>>, word |-> <<>>], Append(s, sep)).words

-----------------------------------------------------------------------------
(* The mappers: the keys a line is mapped to, each printed with ": 1".     *)

IsLetter(c) == c \in Letters
asciicount(line) == LET ls == SelectSeq(line, IsLetter)
                    IN [k \in DOMAIN ls |-> <<ls[k]>>]
lettercount(line) == [k \in DOMAIN SelectSeq(line, IsLetter) |-> <<"letters">>]
replace_chars(line) == [k \in DOMAIN line |-> IF line[k] = ":" THEN ";" ELSE line[k]]
wordcount(line) == Pieces(replace_chars(line), SP)
wordlengths(line) == LET ws == Pieces(line, SP)
                     IN [k \in DOMAIN ws |-> <<ToString(Len(ws[k]))>>]
Mappers == {"asciicount", "lettercount", "wordcount", "wordlengths"}
Keys(line) == CASE mapper = "asciicount" -> asciicount(line)
                [] mapper = "lettercount" -> lettercount(line)
                [] mapper = "wordcount" -> wordcount(line)
                [] mapper = "wordlengths" -> wordlengths(line)

\* What fprintf puts into the buffer for a line: a record for each key.
Printed(line) == LET ks == Keys(line)
                 IN FlattenSeq([k \in DOMAIN ks |-> ks[k] \o <<":", SP, "1", NL>>])

\* fprintf writes the buffer out when it is full, fflush the rest at the end of the line.
Writes(line) ==
    LET p == Printed(line)
        n == (Len(p) + StdioBuf - 1) \div StdioBuf
    IN [k \in 1 .. n |-> SubSeq(p, (k - 1) * StdioBuf + 1, Min({k * StdioBuf, Len(p)}))]

-----------------------------------------------------------------------------
(* The reducer: the datastore maps a key to its value; an entry is three    *)
(* allocations (the entry, its key and its value).                         *)

datastore_init == [k \in {} |-> <<>>]
EmptyStore == [read |-> <<>>, sums |-> datastore_init]
dictionary_tfind(ds, key) == key \in DOMAIN ds
malloc_entry_t == 3                 \* the allocations of an entry
destroy_with_element_free == 3      \* and what its end frees

\* atoi: the number at the start of a value, 0 if there is none.
Digits == {"0", "1", "2", "3", "4", "5", "6", "7", "8", "9"}
atoi(value) ==
    LET m == Max({k \in 0 .. Len(value) : \A l \in 1 .. k : value[l] \in Digits})
        digit(c) == CHOOSE d \in 0 .. 9 : ToString(d) = c
    IN FoldLeft(LAMBDA acc, c : 10 * acc + digit(c), 0, SubSeq(value, 1, m))

\* A number as printf writes it.
Decimal(x) ==
    LET m == Min({k \in 1 .. 9 : 10 ^ k > x})
    IN [k \in 1 .. m |-> ToString((x \div 10 ^ (m - k)) % 10)]

datastore_put(ds, key, value) ==
    IF dictionary_tfind(ds, key) THEN ds
    ELSE [x \in DOMAIN ds \cup {key} |-> IF x = key THEN value ELSE ds[x]]
\* sum.c: the reducer function adds the two values.
reducer(value1, value2) == Decimal(atoi(value1) + atoi(value2))
datastore_update(ds, key, value) == [ds EXCEPT ![key] = value]

\* split_key_value: the line is cut at its first ": ", if it has one.
Cuts(line) == {k \in 1 .. Len(line) - 1 : line[k] = ":" /\ line[k + 1] = SP}
malformed(line) == Cuts(line) = {}
Key(line) == SubSeq(line, 1, Min(Cuts(line)) - 1)
Value(line) == SubSeq(line, Min(Cuts(line)) + 2, Len(line))

\* Mutant: a value is put for a key that is there already, which changes nothing.
take_line_put(ds, line) ==
    IF malformed(line) THEN ds ELSE datastore_put(ds, Key(line), Value(line))

\* One turn of run_reducer_on's loop: datastore_get and datastore_update, or datastore_put;
\* a malformed line is skipped.
take_line(ds, line) ==
    IF malformed(line) THEN ds
    ELSE IF dictionary_tfind(ds, Key(line))
    THEN datastore_update(ds, Key(line), reducer(ds[Key(line)], Value(line)))
    ELSE datastore_put(ds, Key(line), Value(line))

\* The allocations left by the same line: a new entry; or datastore_get's copy and the
\* reducer's result, both freed, and a value in exchange for the old one.
blocks_after(ds, line) ==
    IF malformed(line) \/ dictionary_tfind(ds, Key(line)) THEN 0 ELSE malloc_entry_t

datastore_destroy(ds) == destroy_with_element_free * Cardinality(DOMAIN ds)
datastore_iterate(ds) == <<ds>>

\* getline: what comes before the first newline is a line.
has_line(read) == \E k \in DOMAIN read : read[k] = NL
line_end(read) == Min({k \in DOMAIN read : read[k] = NL})

-----------------------------------------------------------------------------
MRInit ==
    /\ main \in {<<"splitter alone", 0>>, <<"fork splitter", 0>>}
    /\ text \in IF main[1] = "splitter alone" THEN PortionTexts ELSE Texts
    /\ mapper \in IF main[1] = "splitter alone" THEN {"asciicount"} ELSE Mappers
    /\ fault \in IF main[1] = "splitter alone" THEN {"none"}
                 ELSE {"none", "no splitter", "no mapper", "no reducer", "no fork"}
    /\ proc = [p \in Children |-> "none"]
    /\ fds = [p \in Children \cup {Main} |-> IF p = Main THEN Ends ELSE {}]
    /\ todo = [i \in Idx |-> <<>>]
    /\ pipe = [i \in Idx |-> <<>>]
    /\ outbuf = [i \in Idx |-> <<>>]
    /\ red = <<>>
    /\ store = EmptyStore
    /\ blocks = 0
    /\ output = <<>>

data == <<todo, pipe, outbuf, red, store, blocks, output>>
inputs == <<text, mapper, fault>>

\* Mutant: main keeps the write end of the mapper's pipe.
closes_before_none(p) == IF p = Reducer THEN {RedW} ELSE {}

\* What main closes just before it forks p.
closes_before(p) ==
    CASE p[1] = "splitter" -> {}
      [] p[1] = "mapper" -> {InW(p[2])}
      [] p[1] = "reducer" -> {RedW}

After(p) ==
    IF p[1] = "reducer" THEN <<"wait splitter", 0>>
    ELSE IF p[2] + 1 < NMappers THEN <<main[1], p[2] + 1>>
    ELSE IF p[1] = "splitter" THEN <<"fork mapper", 0>> ELSE <<"fork reducer", 0>>

\* main forks p, which inherits what main has open.
fork(p) ==
    /\ main = <<"fork " \o p[1], p[2]>>
    /\ fault # "no fork"
    /\ LET open == fds[Main] \ closes_before(p)
       IN fds' = [fds EXCEPT ![Main] = open, ![p] = open]
    /\ proc' = [proc EXCEPT ![p] = "forked"]
    /\ main' = After(p)
    /\ UNCHANGED <<inputs, data>>

\* fork returns -1: main exits and leaves the children it has to themselves.
fork_fails ==
    /\ main[1] \in {"fork splitter", "fork mapper", "fork reducer"}
    /\ fault = "no fork"
    /\ fds' = [fds EXCEPT ![Main] = {}]
    /\ main' = <<"exited", 0>>
    /\ UNCHANGED <<inputs, proc, data>>

\* What a child closes before it execs.
closes_in(p) == CASE p[1] = "splitter" -> {InR(p[2])}
                  [] p[1] = "mapper" -> {RedR}
                  [] p[1] = "reducer" -> {}

\* The child arranges its descriptors and execs its program, or exits when it cannot.
exec(p) ==
    /\ proc[p] = "forked"
    /\ IF fault = "no " \o p[1]
       THEN /\ proc' = [proc EXCEPT ![p] = "exited"]
            /\ fds' = [fds EXCEPT ![p] = {}]
            /\ UNCHANGED todo
       ELSE /\ proc' = [proc EXCEPT ![p] = "runs"]
            /\ fds' = [fds EXCEPT ![p] = @ \ closes_in(p)]
            /\ todo' = IF p[1] # "splitter" THEN todo
                       ELSE [todo EXCEPT ![p[2]] =
                                Pieces(write_portion(text, NMappers, p[2]), NL)]
    /\ UNCHANGED <<inputs, main, pipe, outbuf, red, store, blocks, output>>

HeldBySome(e) == \E p \in DOMAIN fds : e \in fds[p]
Exit(p) == proc' = [proc EXCEPT ![p] = "exited"] /\ fds' = [fds EXCEPT ![p] = {}]

\* fwrite of the portion, as far as the pipe has room; SIGPIPE when nobody can read it.
splitter_step(i) ==
    /\ proc[Splitter(i)] = "runs"
    /\ \/ /\ todo[i] = <<>> \/ ~HeldBySome(InR(i))
          /\ Exit(Splitter(i)) /\ UNCHANGED <<todo, pipe>>
       \/ /\ todo[i] # <<>> /\ HeldBySome(InR(i)) /\ Len(pipe[i]) < PipeCap
          /\ pipe' = [pipe EXCEPT ![i] = Append(@, Head(todo[i]))]
          /\ todo' = [todo EXCEPT ![i] = Tail(@)]
          /\ UNCHANGED <<proc, fds>>
    /\ UNCHANGED <<inputs, main, outbuf, red, store, blocks, output>>

\* run_mapper_on_fds: getline, the mapper function, fflush; the end of the input ends it.
mapper_step(i) ==
    /\ proc[Mapper(i)] = "runs"
    /\ \/ /\ outbuf[i] = <<>> /\ pipe[i] # <<>>
          /\ pipe' = [pipe EXCEPT ![i] = Tail(@)]
          /\ outbuf' = [outbuf EXCEPT ![i] = Writes(Head(pipe[i]))]
          /\ UNCHANGED <<proc, fds, red>>
       \/ /\ outbuf[i] # <<>> /\ HeldBySome(RedR) /\ Len(red) < RedCap
          /\ red' = Append(red, Head(outbuf[i]))
          /\ outbuf' = [outbuf EXCEPT ![i] = Tail(@)]
          /\ UNCHANGED <<proc, fds, pipe>>
       \/ /\ \/ outbuf[i] = <<>> /\ pipe[i] = <<>> /\ ~HeldBySome(InW(i))
             \/ outbuf[i] # <<>> /\ ~HeldBySome(RedR)       \* SIGPIPE
          /\ Exit(Mapper(i)) /\ UNCHANGED <<pipe, outbuf, red>>
    /\ UNCHANGED <<inputs, main, todo, store, blocks, output>>

\* run_reducer_on: a line, if one has come, or what comes next; at the end of the input a
\* line without a newline is malformed, and the datastore is printed and destroyed.
reducer_step ==
    /\ proc[Reducer] = "runs"
    /\ \/ /\ has_line(store.read)
          /\ \E line \in {SubSeq(store.read, 1, line_end(store.read) - 1)} :
                /\ store' = [read |-> SubSeq(store.read, Len(line) + 2, Len(store.read)),
                             sums |-> take_line(store.sums, line)]
                /\ blocks' = blocks + blocks_after(store.sums, line)
          /\ UNCHANGED <<proc, fds, red, output>>
       \/ /\ ~has_line(store.read) /\ red # <<>>
          /\ store' = [store EXCEPT !.read = @ \o Head(red)]
          /\ red' = Tail(red)
          /\ UNCHANGED <<proc, fds, blocks, output>>
       \/ /\ ~has_line(store.read) /\ red = <<>> /\ ~HeldBySome(RedW)
          /\ output' = datastore_iterate(store.sums)
          /\ blocks' = blocks - datastore_destroy(store.sums)
          /\ Exit(Reducer)
          /\ UNCHANGED <<red, store>>
    /\ UNCHANGED <<inputs, main, todo, pipe, outbuf>>

\* main waits for the splitters, the mappers and the reducer, in this order.
AfterWait(p) ==
    IF p[1] = "reducer" THEN <<"exited", 0>>
    ELSE IF p[2] + 1 < NMappers THEN <<main[1], p[2] + 1>>
    ELSE IF p[1] = "splitter" THEN <<"wait mapper", 0>> ELSE <<"wait reducer", 0>>

waitpid(p) ==
    /\ main = <<"wait " \o p[1], p[2]>>
    /\ proc[p] = "exited"
    /\ main' = AfterWait(p)
    /\ fds' = IF p = Reducer THEN [fds EXCEPT ![Main] = {}] ELSE fds
    /\ UNCHANGED <<inputs, proc, data>>

MainStep == \/ \E p \in Children : fork(p)
            \/ fork_fails
            \/ \E p \in Children : waitpid(p)
ChildStep(p) == \/ exec(p)
                \/ p[1] = "splitter" /\ splitter_step(p[2])
                \/ p[1] = "mapper" /\ mapper_step(p[2])
                \/ p[1] = "reducer" /\ reducer_step

-----------------------------------------------------------------------------
\* splitter.c:22: "If the output files are concatenated in order, the result is the same
\* as the input file", and line 25: "All chunks except the last one end with a newline".
PortionsRight ==
    \A count \in 1 .. 3 :
        LET portion == [k \in 1 .. count |-> write_portion(text, count, k - 1)]
        IN /\ FlattenSeq(portion) = text
           /\ \A k \in 1 .. count - 1 :
                portion[k] = <<>> \/ portion[k][Len(portion[k])] = NL
                    \/ \A j \in k + 1 .. count : portion[j] = <<>>

AllKeys == FlattenSeq([k \in DOMAIN Pieces(text, NL) |-> Keys(Pieces(text, NL)[k])])
Expected == [key \in ToSet(AllKeys) |->
                Decimal(Cardinality({k \in DOMAIN AllKeys : AllKeys[k] = key}))]

\* No write of a mapper falls between two writes of the records of one line.
Untorn ==
    \/ \A k \in DOMAIN Pieces(text, NL) : Len(Writes(Pieces(text, NL)[k])) <= 1
    \/ \A i \in Idx \ {0} : write_portion(text, NMappers, i) = <<>>

\* mapreduce.c:49-133 and reducer.c:22-60: when the programs can be started, the output
\* file has, for every key of the input, the number of its records, however the mappers
\* interleave and however the pipe cuts up the stream, provided that the records of a line
\* fit stdio's buffer or only one mapper has input (a torn record may be lost or counted
\* under another key).  The reducer frees all it allocated, torn records or not.
ReducedRight ==
    /\ main[1] = "splitter alone" => PortionsRight
    /\ output # <<>> => blocks = 0
    /\ output # <<>> /\ fault = "none" /\ Untorn => output[1] = Expected

\* mapreduce.c:53-148: no process waits for an end of file that cannot come: when the
\* mappers and the reducer can be started, every process ends and main after them.
\* Neither condition changes in a behaviour; the property says that this comes about.
MapReduceEnded == fault \in {"none", "no splitter"} /\ main[1] # "splitter alone" =>
    main = <<"exited", 0>> /\ \A p \in Children : proc[p] = "exited"
=============================================================================
