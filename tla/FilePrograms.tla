---------------------------- MODULE FilePrograms ----------------------------
(***************************************************************************)
(* What the repository does with files for TLC: the file system minixfs    *)
(* itself, fakefs with its system calls and goat's cp on top of it, dd,    *)
(* and the two programs lookup1 and lookup2 that search a tree in a file.  *)
(* A behaviour exercises one of them, its focus, and the others stay idle. *)
(* Minixfs keeps the blocks of one directory, Fakefs the descriptors and   *)
(* paths above a file system whose files are sequences.                    *)
(***************************************************************************)
EXTENDS Minixfs, FiniteSetsExt, Functions

CONSTANTS
    PathArgs, CpArgs, MaxFd, MaxCalls, Specials,
    Inputs,               \* the contents the input of dd may have
    BlockSizes,           \* -b
    DdCounts,             \* -c; -1 for no -c, which is larger than any count
    DdOffsets,            \* -p and -k, in blocks
    Rooms,                \* how many bytes the output may grow to
    MaxSignals,           \* bound: SIGUSR1 signals in a behaviour
    Words,                \* the words of trees and searches, sequences over 1, 2, ...
    MaxNodes,             \* bound: nodes in a file
    MaxTargets            \* bound: words on the command line

\* The path arguments: a path inside the image, or one of the real file system.
InImage(rest) == [real |-> "img", rest |-> rest]
MCPathArgs == {InImage(<<"f">>), InImage(<<"d", "..", "g">>), InImage(<<"virtual", "info">>),
               InImage(<<"virtual", "x">>), [real |-> "other", rest |-> << >>]}
MCCpArgs == {<<InImage(<<"f">>), InImage(<<"g">>)>>,
             <<InImage(<<"d", "..", "f">>), InImage(<<"d", "g">>)>>,
             <<InImage(<<"virtual", "info">>), InImage(<<"f">>)>>,
             <<InImage(<<"f">>), InImage(<<"f">>)>>, <<InImage(<<"g">>), InImage(<<"f">>)>>}
\* Blocks from the first on, and scattered.
MCOrders == {<<0, 1, 2, 3, 4, 5>>, <<2, 5, 0, 3, 1, 4>>}
\* The inputs of dd, up to five distinct bytes, and -1 for a missing -c.
MCInputs == {[k \in 1 .. len |-> ToString(k)] : len \in 0 .. 5}
MCCounts == {-1, 0, 1, 2}
\* Words of which some are prefixes of others.
MCWords == {<<1>>, <<1, 1>>, <<1, 2>>, <<2>>}

VARIABLES
    focus,                                                  \* the program that runs
    fk_pc, w, calls, cp, ref, odd,                          \* of fakefs
    opt,            \* dd: the options, where in and out are, what out has room for
    dd_pc,          \* "seek", "loop", "read", "report", "done" or "exited"
    in_pos, out_pos, dd_out, full, partial, total_bytes_copied, blocks_copied,
    received_sigusr,
    signals,        \* how many have arrived
    reports,        \* what print_rep printed: [full, partial, total]
    version,        \* lookup: 1 or 2
    file,           \* the file: "missing", "other" or a tree, offset -> node
    targets,        \* the words still to be looked up
    off,            \* the node search_word is at; -1 between searches
    held,           \* the words that lookup1's active calls of search_word hold
    answers,        \* <<word, found>> for each search so far
    exitcode        \* -1 while it runs

fkvars  == <<fk_pc, w, calls, cp, ref, odd>>
ddvars  == <<opt, dd_pc, in_pos, out_pos, dd_out, full, partial, total_bytes_copied,
             blocks_copied, received_sigusr, signals, reports>>
lvars   == <<version, file, targets, off, held, answers, exitcode>>
allvars == <<focus, vars, fkvars, ddvars, lvars>>

Fk == INSTANCE Fakefs

-----------------------------------------------------------------------------
(* deepfried_dd: a copy of block_count blocks from one file to another,    *)
(* with offsets in both, and a status report whenever SIGUSR1 has arrived. *)
(* A file is a sequence of bytes; a hole that a seek leaves is zeroes.     *)

ZERO == "0"

\* set_default_params and parse_in: -o truncates the output file; a file that cannot be
\* opened, or an unknown option, ends the run.
DdInit ==
    /\ opt \in [in : Inputs, from_stdin : BOOLEAN, to_stdout : BOOLEAN, room : Rooms,
                block_size : BlockSizes, block_count : DdCounts, p_blocks : DdOffsets,
                k_blocks : DdOffsets]
    /\ dd_pc \in {"seek", "exited"}
    /\ in_pos = 0 /\ out_pos = 0 /\ dd_out = <<>>
    /\ full = 0 /\ partial = 0 /\ total_bytes_copied = 0 /\ blocks_copied = 0
    /\ received_sigusr = FALSE /\ signals = 0
    /\ reports = <<>>

copyvars == <<in_pos, out_pos, dd_out, full, partial, total_bytes_copied, blocks_copied>>
sigvars == <<received_sigusr, signals, reports>>

\* sighandler, at any point of the run.
sighandler ==
    /\ dd_pc \notin {"done", "exited"} /\ signals < MaxSignals
    /\ received_sigusr' = TRUE
    /\ signals' = signals + 1
    /\ UNCHANGED <<opt, dd_pc, copyvars, reports>>

\* What is skipped of the input, and the hole in the output: stdin and stdout stay where
\* they are.
in_off == IF opt.from_stdin THEN 0 ELSE opt.p_blocks * opt.block_size
out_off == IF opt.to_stdout THEN 0 ELSE opt.k_blocks * opt.block_size

\* main: fseek on both files, which may fail if there is something to skip.
seek ==
    /\ dd_pc = "seek"
    /\ \/ in_pos' = in_off /\ out_pos' = out_off /\ dd_pc' = "loop"
       \/ /\ in_off # 0 \/ out_off # 0
          /\ dd_pc' = "exited" /\ UNCHANGED <<in_pos, out_pos>>
    /\ UNCHANGED <<opt, dd_out, full, partial, total_bytes_copied, blocks_copied, sigvars>>

Report == [full |-> full, partial |-> partial, total |-> total_bytes_copied]
print_rep == reports' = Append(reports, Report) /\ received_sigusr' = FALSE

\* The head of the loop: the report a signal has asked for.
check_signal ==
    /\ dd_pc = "loop"
    /\ IF received_sigusr THEN print_rep ELSE UNCHANGED <<reports, received_sigusr>>
    /\ dd_pc' = "read"
    /\ UNCHANGED <<opt, copyvars, signals>>

fread == SubSeq(opt.in, in_pos + 1, Min({in_pos + opt.block_size, Len(opt.in)}))

\* The output after buf is written at out_pos; what finds no room is lost, and nobody looks
\* at what fwrite returns.
fwrite(buf) ==
    [k \in 1 .. Min({opt.room, Max({Len(dd_out), out_pos + Len(buf)})}) |->
        IF k > out_pos /\ k <= out_pos + Len(buf) THEN buf[k - out_pos]
        ELSE IF k <= Len(dd_out) THEN dd_out[k] ELSE ZERO]

\* Mutant: the count is tested before the block that completes it has been counted.
last_block_early(n) == opt.block_count = n - 1
last_block(n) == opt.block_count = n

\* The rest of the loop's body: a block is read, written and counted.
copy_block ==
    /\ dd_pc = "read"
    /\ LET buf == fread
           n == Len(buf)
       IN IF n = 0 THEN dd_pc' = "report" /\ UNCHANGED copyvars
          ELSE /\ dd_out' = fwrite(buf)
               /\ in_pos' = in_pos + n
               /\ out_pos' = out_pos + n
               /\ total_bytes_copied' = total_bytes_copied + n
               /\ blocks_copied' = blocks_copied + 1
               /\ IF n # opt.block_size
                  THEN partial' = partial + 1 /\ full' = full /\ dd_pc' = "report"
                  ELSE /\ full' = full + 1 /\ partial' = partial
                       /\ dd_pc' = IF last_block(blocks_copied + 1) THEN "report" ELSE "loop"
    /\ UNCHANGED <<opt, sigvars>>

\* main: the last report, and both files are closed.
finish ==
    /\ dd_pc = "report"
    /\ print_rep
    /\ dd_pc' = "done"
    /\ UNCHANGED <<opt, copyvars, signals>>

DdNext == sighandler \/ seek \/ check_signal \/ copy_block \/ finish

\* The bytes that are to be copied; a block_count of 0 is never reached and copies all.
Wanted ==
    LET to == IF opt.block_count <= 0 THEN Len(opt.in)
              ELSE Min({Len(opt.in), in_off + opt.block_count * opt.block_size})
    IN SubSeq(opt.in, in_off + 1, to)

\* The output that they make, were there room for it.
Copied == IF Wanted = <<>> THEN <<>> ELSE [k \in 1 .. out_off |-> ZERO] \o Wanted

\* dd.c:106-145 and 152-184: the output is the wanted part of the input after the hole, as
\* far as there is room for it, and every report, asked for at any moment, counts exactly
\* the blocks and bytes that were read and written by then: no block is counted twice or
\* missed by a signal.
CopyRight ==
    /\ LET reached == IF total_bytes_copied = 0 THEN 0 ELSE out_off + total_bytes_copied
       IN  Len(dd_out) = Min({opt.room, reached})
    /\ \A r \in ToSet(reports) :
         /\ r.partial = (IF r.total % opt.block_size = 0 THEN 0 ELSE 1)
         /\ r.full = r.total \div opt.block_size
    /\ Len(reports) <= signals + 1
    /\ dd_pc = "done" =>
         /\ dd_out = SubSeq(Copied, 1, Min({opt.room, Len(Copied)}))
         /\ reports[Len(reports)].total = Len(Wanted)

-----------------------------------------------------------------------------
(* mad_mad_access_patterns: words looked up in a file that holds a binary  *)
(* search tree, by lookup1, which seeks and reads no more of a node's word *)
(* than it needs to compare, and by lookup2, which maps the file.          *)

ROOT == 4           \* BINTREE_ROOT_NODE_OFFSET

\* strcmp(s, t) < 0.
Less(s, t) ==
    \E k \in 1 .. Len(t) :
        /\ Len(s) >= k - 1 /\ SubSeq(s, 1, k - 1) = SubSeq(t, 1, k - 1)
        /\ Len(s) = k - 1 \/ s[k] < t[k]

Node(word) == [left |-> 0, right |-> 0, word |-> word]
\* The file a sequence of words makes: each is put below the tree of those before it.
Grow(tree, word) ==
    LET new == ROOT + Cardinality(DOMAIN tree)
        path[o \in DOMAIN tree] ==      \* the offset of the node that gets the child
            LET next == IF Less(word, tree[o].word) THEN tree[o].left ELSE tree[o].right
            IN IF next = 0 THEN o ELSE path[next]
        extended == [o \in DOMAIN tree \cup {new} |-> IF o = new THEN Node(word) ELSE tree[o]]
    IN IF tree = <<>> THEN [o \in {ROOT} |-> Node(word)]
       ELSE IF Less(word, tree[path[ROOT]].word)
            THEN [extended EXCEPT ![path[ROOT]].left = new]
            ELSE [extended EXCEPT ![path[ROOT]].right = new]
Trees == {FoldLeft(Grow, <<>>, ws) :
            ws \in {s \in BoundedSeq(Words, MaxNodes) : s # <<>> /\ IsInjective(s)}}

LInit ==
    /\ version \in {1, 2}
    /\ file \in {[kind |-> k, tree |-> <<>>] : k \in {"missing", "other"}}
                    \cup {[kind |-> "tree", tree |-> t] : t \in Trees}
    /\ targets \in BoundedSeq(Words, MaxTargets)
    /\ off = -1 /\ held = <<>> /\ answers = <<>>
    /\ exitcode = -1

\* main's checks: the arguments, the file, its first four bytes; mmap may fail.
refuse ==
    /\ exitcode = -1 /\ answers = <<>> /\ off = -1
    /\ \/ targets = <<>> /\ exitcode' = 1
       \/ targets # <<>> /\ file.kind # "tree" /\ exitcode' = 2
       \/ targets # <<>> /\ version = 2 /\ file.kind # "missing" /\ exitcode' = 3
    /\ UNCHANGED <<version, file, targets, off, held, answers>>

\* main calls search_word for the next word.
start_search ==
    /\ exitcode = -1 /\ file.kind = "tree"
    /\ off = -1 /\ targets # <<>>
    /\ off' = ROOT
    /\ UNCHANGED <<version, file, targets, held, answers, exitcode>>

\* At most len bytes of the word and, if it goes on, one more (which, with the final
\* zero byte, is one byte past the len + 1 that calloc gave).
read_at_most(len, word) == SubSeq(word, 1, Min({len + 1, Len(word)}))

curr_word(target) ==
    IF version = 1 THEN read_at_most(Len(target), file.tree[off].word) ELSE file.tree[off].word

Answer(found) ==
    /\ answers' = Append(answers, <<Head(targets), found>>)
    /\ targets' = Tail(targets)
    /\ off' = -1 /\ held' = <<>>

\* One call of search_word: not found below a leaf, found, or the call for a child.
search_word ==
    /\ exitcode = -1 /\ off >= 0
    /\ LET target == Head(targets)
       IN \/ off = 0 /\ Answer(FALSE)
          \/ /\ off # 0 /\ curr_word(target) = target /\ Answer(TRUE)
          \/ /\ off # 0 /\ curr_word(target) # target
             /\ off' = IF Less(target, curr_word(target)) THEN file.tree[off].left
                       ELSE file.tree[off].right
             /\ held' = IF version = 1 THEN Append(held, curr_word(target)) ELSE held
             /\ UNCHANGED <<answers, targets>>
    /\ UNCHANGED <<version, file, exitcode>>

finish_lookup ==
    /\ exitcode = -1 /\ file.kind = "tree"
    /\ targets = <<>> /\ off = -1 /\ answers # <<>>
    /\ exitcode' = 0
    /\ UNCHANGED <<version, file, targets, off, held, answers>>

LNext == refuse \/ start_search \/ search_word \/ finish_lookup

\* lookup1.c:10-61 and lookup2.c:15-40: a word is found exactly when the tree has it,
\* although lookup1 compares with a part of each word only, and no search visits a node
\* twice.
LookupRight ==
    /\ \A a \in ToSet(answers) :
        a[2] <=> \E o \in DOMAIN file.tree : file.tree[o].word = a[1]
    /\ Len(held) <= Cardinality(DOMAIN file.tree)

-----------------------------------------------------------------------------
(* The programs beside each other.                                         *)

\* An image that is not there: nothing is claimed of it.
MIdle  == /\ fs = {} /\ shadow = {} /\ broken = TRUE /\ overrun = TRUE
          /\ writes = 0 /\ unlinks = 0
FkIdle == fk_pc = {} /\ w = {} /\ calls = {} /\ cp = {} /\ ref = {} /\ odd = {}
DdIdle == /\ opt = {} /\ dd_pc = {} /\ in_pos = {} /\ out_pos = {} /\ dd_out = {} /\ full = {}
          /\ partial = {} /\ total_bytes_copied = {} /\ blocks_copied = {}
          /\ received_sigusr = {} /\ signals = {} /\ reports = {}
LIdle  == /\ version = {} /\ file = {} /\ targets = {} /\ off = {} /\ held = {}
          /\ answers = {} /\ exitcode = {}

FInit ==
    \/ focus = "minixfs" /\ Init /\ FkIdle /\ DdIdle /\ LIdle
    \/ focus = "fakefs" /\ MIdle /\ Fk!FkInit /\ DdIdle /\ LIdle
    \/ focus = "dd" /\ MIdle /\ FkIdle /\ DdInit /\ LIdle
    \/ focus = "lookup" /\ MIdle /\ FkIdle /\ DdIdle /\ LInit

FNext ==
    \/ focus = "minixfs" /\ Next /\ UNCHANGED <<focus, fkvars, ddvars, lvars>>
    \/ focus = "fakefs" /\ Fk!FkNext /\ UNCHANGED <<focus, vars, ddvars, lvars>>
    \/ focus = "dd" /\ DdNext /\ UNCHANGED <<focus, vars, fkvars, lvars>>
    \/ focus = "lookup" /\ LNext /\ UNCHANGED <<focus, vars, fkvars, ddvars>>

FSpec == FInit /\ [][FNext]_allvars

-----------------------------------------------------------------------------
\* minixfs_provided.c:18, minixfs_utils.c:60, minixfs.c:272: no block serves two purposes
\* and every cell of a file lies in a block of its own; see module Minixfs.
BlocksRight == focus = "minixfs" => BlocksExclusive /\ SizeBacked

\* core.c:49-152, dup.c:7-28, dir.c:6-80: a descriptor stands for the open file that POSIX
\* says it does, except after the calls named in module Fakefs.
FdsRight == focus = "fakefs" => Fk!FdsRight

\* cp.c:35-57, dd.c:106-184, lookup1.c:10-61, lookup2.c:15-40: what is copied is what was
\* to be copied and what is reported is what was done, at any moment; a word is found
\* exactly when it is there; see module Fakefs and the parts above.
FileToolsRight ==
    /\ focus = "fakefs" => Fk!CpRight
    /\ focus = "dd" => CopyRight
    /\ focus = "lookup" => LookupRight
=============================================================================
