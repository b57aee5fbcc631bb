------------------------------ MODULE Minixfs ------------------------------
(***************************************************************************)
(* The file system of src/finding_filesystems: inodes, the map of used     *)
(* data blocks, direct and indirect blocks, the root directory and the     *)
(* operations create, write, unlink and read on it, as minixfs.c,          *)
(* minixfs_provided.c and minixfs_utils.c implement them.                  *)
(*                                                                         *)
(* A data block holds CELLS cells; a cell is a unit of file data, a        *)
(* directory entry, or empty (zero bytes).  An indirect block holds        *)
(* NUM_INDIRECT_BLOCKS block numbers instead.  All files are in the root   *)
(* directory.  A lookup that reads an entry of zeros first compares the    *)
(* name with an uninitialized pointer, a shrunk directory is extended      *)
(* through a block number in front of a table, and an entry can go over    *)
(* the block numbers of a table: the behaviour is undefined from then on,  *)
(* and the model stops (broken).  It stops as well when a lookup returns   *)
(* an inode that is free.  Times, owners and permissions are left out.     *)
(***************************************************************************)
EXTENDS Integers, FiniteSets, Sequences, SequencesExt

CONSTANTS
    INODES_NUMBER, NUM_DIRECT_BLOCKS, NUM_INDIRECT_BLOCKS,
    DATA_NUMBER,          \* data blocks
    CELLS,                \* cells of a data block
    Names,                \* file names
    Orders,               \* the orders in which the coins may let free blocks be found
    Offsets, Counts,      \* what write is called with
    MaxWrites, MaxUnlinks \* bounds on the calls

ASSUME MinixfsAssumption ==
    /\ {INODES_NUMBER, NUM_DIRECT_BLOCKS, NUM_INDIRECT_BLOCKS, DATA_NUMBER, CELLS}
          \subseteq Nat \ {0}
    /\ NUM_DIRECT_BLOCKS <= NUM_INDIRECT_BLOCKS /\ CELLS <= NUM_INDIRECT_BLOCKS
    /\ \A o \in Orders : IsInjective(o) /\ ToSet(o) = 0..(DATA_NUMBER - 1)
    /\ Offsets \subseteq Nat /\ Counts \subseteq Nat \ {0}

UNASSIGNED == -1
Inodes == 0..(INODES_NUMBER - 1)
Root == 0
Blocks == 0..(DATA_NUMBER - 1)
MaxBlocks == NUM_DIRECT_BLOCKS + NUM_INDIRECT_BLOCKS
MAX_SIZE == MaxBlocks * CELLS

VARIABLES
    fs,        \* the image: inodes, the map of used blocks, the blocks
    broken,    \* what happens from here on is not modelled
    overrun,   \* history: a directory entry went to the block of another owner
    shadow,    \* history: what was last written to each cell of a file, and whether
               \* the cell lay in the first block of its write
    writes, unlinks

vars == <<fs, broken, overrun, shadow, writes, unlinks>>

Empty == <<"zero">>
Data(v) == <<"data", v>>
Entry(name, x) == <<"entry", name, x>>
Ptr(b) == <<"ptr", b>>
Zeros == [c \in 1..CELLS |-> Empty]
Fresh == [c \in 0..(MAX_SIZE - 1) |-> [val |-> Empty, sure |-> TRUE]]

\* init_inode.
init_inode == [nlink |-> 1, size |-> 0, indirect |-> UNASSIGNED,
               direct |-> [k \in 1..NUM_DIRECT_BLOCKS |-> UNASSIGNED]]

\* minixfs_mkfs: an empty root, every block free.
Init ==
    /\ fs = [ino |-> [x \in Inodes |-> IF x = Root THEN init_inode
                                       ELSE [init_inode EXCEPT !.nlink = 0]],
             used |-> {}, data |-> [b \in Blocks |-> Zeros]]
    /\ broken = FALSE /\ overrun = FALSE
    /\ shadow = [x \in Inodes |-> Fresh]
    /\ writes = 0 /\ unlinks = 0

-----------------------------------------------------------------------------
(* Blocks.                                                                 *)

\* first_unused_data: a coin is tossed for each free block, round and round, so any of them
\* may be found, and a call of the file system finds different ones; they are the first free
\* ones of an order of all blocks.
first_unused_data(f, order) ==
    LET free == {k \in DOMAIN order : order[k] \notin f.used}
    IN  IF free = {} THEN UNASSIGNED ELSE order[Min(free)]

\* The result of an allocation: the image and the block number returned.
Result(f, b) == [fs |-> f, blk |-> b]

\* The first unassigned slot of a table of block numbers, 0 if there is none.
FirstSlot(t) ==
    LET S == {k \in DOMAIN t : t[k] = UNASSIGNED} IN IF S = {} THEN 0 ELSE Min(S)

\* The block numbers in an indirect block.
indirects(f, ind) == [k \in 1..NUM_INDIRECT_BLOCKS |-> f.data[ind][k][2]]

\* Mutant: the block is not marked as used.
add_unmarked(f, x, order) ==
    LET k == FirstSlot(f.ino[x].direct) b == first_unused_data(f, order)
    IN  IF k = 0 THEN Result(f, 0)
        ELSE IF b = UNASSIGNED THEN Result(f, b)
        ELSE Result([f EXCEPT !.ino[x].direct[k] = b], b)

\* add_data_block_to_inode: 0 when every direct slot is taken.
add_data_block_to_inode(f, x, order) ==
    LET k == FirstSlot(f.ino[x].direct) b == first_unused_data(f, order)
    IN  IF k = 0 THEN Result(f, 0)
        ELSE IF b = UNASSIGNED THEN Result(f, b)
        ELSE Result([f EXCEPT !.ino[x].direct[k] = b, !.used = @ \cup {b}], b)

\* add_data_block_to_indirect_block, ind being the indirect block.
add_data_block_to_indirect_block(f, ind, order) ==
    LET k == FirstSlot(indirects(f, ind)) b == first_unused_data(f, order)
    IN  IF k = 0 THEN Result(f, 0)
        ELSE IF b = UNASSIGNED THEN Result(f, b)
        ELSE Result([f EXCEPT !.data[ind][k] = Ptr(b), !.used = @ \cup {b}], b)

\* add_single_indirect_block: 0 if there is one or it was added.
add_single_indirect_block(f, x, order) ==
    LET b == first_unused_data(f, order)
    IN  IF f.ino[x].indirect # UNASSIGNED THEN Result(f, 0)
        ELSE IF b = UNASSIGNED THEN Result(f, b)
        ELSE Result([f EXCEPT !.ino[x].indirect = b, !.used = @ \cup {b}, !.ino[x].nlink = 1,
                              !.data[b] = [k \in 1..NUM_INDIRECT_BLOCKS |-> Ptr(UNASSIGNED)]], 0)

\* The k-th block of an inode, k from 0: get_block, get_indirects.
get_block(f, x, k) ==
    LET node == f.ino[x]
    IN  IF k < NUM_DIRECT_BLOCKS THEN node.direct[k + 1]
        ELSE IF node.indirect = UNASSIGNED THEN UNASSIGNED
        ELSE indirects(f, node.indirect)[k - NUM_DIRECT_BLOCKS + 1]

-----------------------------------------------------------------------------
(* The root directory.                                                     *)

\* The k-th block that a scan of the directory looks at.  Behind the direct ones it reads
\* the table of inode y, and when it has read as many blocks again, the same ones.
scanned(f, y, k) ==
    IF k < NUM_DIRECT_BLOCKS THEN f.ino[Root].direct[k + 1]
    ELSE IF f.ino[y].indirect = UNASSIGNED THEN UNASSIGNED
    ELSE indirects(f, f.ino[y].indirect)[((k - NUM_DIRECT_BLOCKS) % NUM_DIRECT_BLOCKS) + 1]

\* The s-th entry that such a scan reads, s from 0.
entry(f, y, s) ==
    LET b == scanned(f, y, s \div CELLS)
    IN  IF b = UNASSIGNED THEN Empty ELSE f.data[b][(s % CELLS) + 1]

IsEntry(e) == e[1] = "entry"

\* find_inode_named: the entry with the name, among those that the size covers.
matches(f, name) ==
    {s \in 0..(f.ino[Root].size - 1) :
        LET e == entry(f, Root, s) IN IsEntry(e) /\ e[2] = name}

\* get_inode of a file in the root directory, Root if there is none.
get_inode(f, name) ==
    LET m == matches(f, name) IN IF m = {} THEN Root ELSE entry(f, Root, Min(m))[3]

\* The scan that finds inode x starts with an entry of zeros: node.name is not
\* initialized.  Or the entry it finds is one that unlink has left behind, and x is free.
unmodelled_lookup(f, x) ==
    \/ f.ino[Root].size > 0 /\ ~IsEntry(entry(f, Root, 0))
    \/ f.ino[x].nlink = 0

\* first_unused_inode, Root if there is none.
first_unused_inode(f) ==
    LET S == {x \in Inodes \ {Root} : f.ino[x].nlink = 0} IN IF S = {} THEN Root ELSE Min(S)

-----------------------------------------------------------------------------
(* minixfs_create_inode_for_path.                                          *)

\* The outcome of a call: the image, the inode (Root for NULL), undefined behaviour, and
\* whether the new entry went to a block that is not the directory's.
Made(f, x) == [fs |-> f, node |-> x, bad |-> FALSE, astray |-> FALSE]

\* The block for the new entry: the last one if it has room, else a new one.
entry_block(f, order) ==
    LET root == f.ino[Root]
    IN  IF root.size % CELLS # 0 THEN Result(f, get_block(f, Root, root.size \div CELLS))
        ELSE IF root.indirect = UNASSIGNED THEN add_data_block_to_inode(f, Root, order)
        ELSE add_data_block_to_indirect_block(f, root.indirect, order)

\* With an indirect block, the last block is always looked for there: in front of the
\* table if the directory has shrunk.
before_indirects(f) ==
    LET root == f.ino[Root]
    IN  root.size % CELLS # 0 /\ root.indirect # UNASSIGNED
        /\ root.size \div CELLS < NUM_DIRECT_BLOCKS

\* The entry is written at the start of the block, whatever the block holds there: a table
\* of block numbers too.
add_entry(r, name, x) ==
    [fs |-> [r.fs EXCEPT !.data[r.blk][1] = Entry(name, x), !.ino[Root].size = @ + 1],
     node |-> x,
     bad |-> \E y \in Inodes : r.fs.ino[y].nlink > 0 /\ r.fs.ino[y].indirect = r.blk,
     astray |-> \A k \in 0..(MaxBlocks - 1) : get_block(r.fs, Root, k) # r.blk]

\* The inode is initialized before the block is found: when there is none, it stays
\* taken although no entry names it.
create(f, name, order) ==
    LET x  == first_unused_inode(f)
        full == f.ino[Root].size \div CELLS >= NUM_DIRECT_BLOCKS
        r1 == IF full THEN add_single_indirect_block(f, Root, order) ELSE Result(f, 0)
        f2 == [r1.fs EXCEPT !.ino[x] = init_inode]
        r3 == entry_block(f2, order)
        old == get_inode(f, name)
    IN  IF unmodelled_lookup(f, old) THEN [Made(f, Root) EXCEPT !.bad = TRUE]
        ELSE IF old # Root \/ x = Root THEN Made(f, Root)
        ELSE IF r1.blk = UNASSIGNED THEN Made(r1.fs, Root)
        ELSE IF before_indirects(f2) THEN [Made(f2, Root) EXCEPT !.bad = TRUE]
        ELSE IF r3.blk = UNASSIGNED THEN Made(r3.fs, Root)
        ELSE add_entry(r3, name, x)

-----------------------------------------------------------------------------
(* minixfs_min_blockcount: block k of inode x is added, and cleared, if it *)
(* is missing; the loop ends at the first failure.                         *)

\* Mutant: a block that was used before is not cleared.
add_block_dirty(r, x, k, order) ==
    LET a == IF k < NUM_DIRECT_BLOCKS THEN add_data_block_to_inode(r.fs, x, order)
             ELSE add_data_block_to_indirect_block(r.fs, r.fs.ino[x].indirect, order)
    IN  IF r.blk = UNASSIGNED \/ get_block(r.fs, x, k) # UNASSIGNED THEN r ELSE a

add_block(r, x, k, order) ==
    LET a == IF k < NUM_DIRECT_BLOCKS THEN add_data_block_to_inode(r.fs, x, order)
             ELSE add_data_block_to_indirect_block(r.fs, r.fs.ino[x].indirect, order)
    IN  IF r.blk = UNASSIGNED \/ get_block(r.fs, x, k) # UNASSIGNED THEN r
        ELSE IF a.blk = UNASSIGNED THEN a
        ELSE Result([a.fs EXCEPT !.data[a.blk] = Zeros], a.blk)

Upto(lo, last) == [k \in 1..(last - lo) |-> lo + k - 1]

min_blockcount(f, x, count, order) ==
    LET add(r, k) == add_block(r, x, k, order)
        few == FoldLeft(add, Result(f, 0), Upto(0, count))
        direct == FoldLeft(add, Result(f, 0), Upto(0, NUM_DIRECT_BLOCKS))
        indirect == add_single_indirect_block(direct.fs, x, order)
    IN  IF count < NUM_DIRECT_BLOCKS THEN few
        ELSE IF direct.blk = UNASSIGNED THEN direct
        ELSE IF indirect.blk = UNASSIGNED THEN indirect
        ELSE FoldLeft(add, indirect, Upto(NUM_DIRECT_BLOCKS, count))

-----------------------------------------------------------------------------
(* minixfs_write: the buffer holds v and another value in turn, and each   *)
(* write starts with the other value than the one before it.               *)

Buf(v) == [j \in 0..(Max(Counts) - 1) |-> Data((v + j) % 2)]

\* The index into the buffer for the j-th cell written: the copies after the first one
\* start at the beginning of the buffer again, and so does each of them.
buffer_index(off, j) ==
    LET first == CELLS - (off % CELLS)
    IN  IF j < first THEN j ELSE (j - first) % CELLS

\* The image after the copies, which go through get_block.
copied(f, x, off, count, v) ==
    LET blk(p) == get_block(f, x, p \div CELLS)
        src == [p \in off..(off + count - 1) |-> Buf(v)[buffer_index(off, p - off)]]
    IN  [f EXCEPT !.data = [b \in Blocks |-> [c \in DOMAIN @[b] |->
            LET P == {p \in DOMAIN src : blk(p) = b /\ (p % CELLS) + 1 = c}
            IN  IF P = {} THEN @[b][c] ELSE src[CHOOSE p \in P : TRUE]]],
                  !.ino[x].size = Max({@, off + count})]

ceil(p, q) == (p + q - 1) \div q

\* What the caller handed over for each cell, as minixfs.h:213 has it.
written(sh, off, count, v) ==
    [p \in DOMAIN sh |-> IF p \in off..(off + count - 1)
                         THEN [val |-> Buf(v)[p - off], sure |-> p - off < CELLS - (off % CELLS)]
                         ELSE sh[p]]

\* An inode that was taken anew has no contents yet.
renewed(f) == [x \in Inodes |-> IF fs.ino[x].nlink = 0 /\ f.ino[x].nlink = 1 THEN Fresh
                                ELSE shadow[x]]

\* minixfs_write looks the file up, or creates it; minixfs_min_blockcount looks it up once
\* more, or creates it once more.
Found(f, name, order) ==
    LET x == get_inode(f, name)
    IN  IF unmodelled_lookup(f, x) THEN [Made(f, Root) EXCEPT !.bad = TRUE]
        ELSE IF x # Root THEN Made(f, x)
        ELSE create(f, name, order)

Write(name, off, count, order) ==
    LET v  == writes % 2
        m1 == Found(fs, name, order)
        m2 == IF m1.bad THEN m1 ELSE Found(m1.fs, name, order)
        r  == min_blockcount(m2.fs, m2.node, ceil(off + count, CELLS), order)
        x  == m2.node
    IN  /\ ~broken /\ writes < MaxWrites
        /\ off + count <= MAX_SIZE
        /\ overrun' = (overrun \/ m1.astray \/ m2.astray)
        /\ \/ /\ m2.bad \/ (x # Root /\ m1.node # x)
              /\ broken' = TRUE
              /\ UNCHANGED <<fs, shadow>>
           \/ /\ ~m2.bad /\ x = Root           \* ENOSPC: no inode or entry
              /\ fs' = m2.fs
              /\ shadow' = renewed(m2.fs)
              /\ UNCHANGED broken
           \/ /\ ~m2.bad /\ x # Root /\ m1.node = x
              /\ IF r.blk = UNASSIGNED
                 THEN fs' = r.fs /\ shadow' = renewed(r.fs)     \* ENOSPC: no block
                 ELSE /\ fs' = copied(r.fs, x, off, count, v)
                      /\ shadow' = [renewed(r.fs) EXCEPT ![x] = written(@, off, count, v)]
              /\ UNCHANGED broken
        /\ writes' = writes + 1
        /\ UNCHANGED unlinks

\* minixfs_open with O_CREAT.
Create(name, order) ==
    LET m == Found(fs, name, order)
    IN  /\ ~broken
        /\ fs' = m.fs /\ broken' = m.bad /\ overrun' = (overrun \/ m.astray)
        /\ shadow' = renewed(m.fs)
        /\ UNCHANGED <<writes, unlinks>>

-----------------------------------------------------------------------------
(* minixfs_unlink and minixfs_read.                                        *)

\* free_inode: of the blocks that the indirect block names, as many are freed as there are
\* direct ones.
free_inode(f, x) ==
    LET node == f.ino[x]
        named == IF node.indirect = UNASSIGNED THEN {}
                 ELSE {indirects(f, node.indirect)[k] : k \in 1..NUM_DIRECT_BLOCKS}
    IN  [f EXCEPT !.used = @ \ (ToSet(node.direct) \cup named \cup {node.indirect}),
                  !.ino[x].nlink = 0]

\* The entries behind the removed one move up within their block.  Behind the direct
\* blocks the search goes through the table of the file, not of the directory: the entry
\* is not found there and stays, but the directory shrinks.
remove_entry(f, x) ==
    LET hits == {s \in 0..(f.ino[Root].size - 1) :
                     LET e == entry(f, x, s) IN IsEntry(e) /\ e[3] = x}
        b == scanned(f, x, Min(hits) \div CELLS)
        c == (Min(hits) % CELLS) + 1
        f1 == IF hits = {} THEN f
              ELSE [f EXCEPT !.data[b] =
                      [k \in DOMAIN @ |-> IF k >= c /\ k < CELLS THEN @[k + 1] ELSE @[k]]]
    IN  [f1 EXCEPT !.ino[Root].size = @ - 1]

Unlink(name) ==
    LET x == get_inode(fs, name)
    IN  /\ ~broken /\ unlinks < MaxUnlinks
        /\ broken' = unmodelled_lookup(fs, x)
        /\ fs' = IF broken' \/ x = Root THEN fs ELSE free_inode(remove_entry(fs, x), x)
        /\ unlinks' = unlinks + 1
        /\ UNCHANGED <<overrun, shadow, writes>>

\* minixfs_read: the cells that a read of count cells from off returns.
read(f, x, off, count) ==
    LET got == Min({count, f.ino[x].size - off})
    IN  [j \in 0..(got - 1) |->
            f.data[get_block(f, x, (off + j) \div CELLS)][((off + j) % CELLS) + 1]]

-----------------------------------------------------------------------------
Next ==
    \/ \E name \in Names, order \in Orders :
          \/ Create(name, order)
          \/ \E off \in Offsets, count \in Counts : Write(name, off, count, order)
    \/ \E name \in Names : Unlink(name)

Spec == Init /\ [][Next]_vars

\* The code only compares names.
NameSymmetry == Permutations(Names)

-----------------------------------------------------------------------------
(* Properties.                                                             *)

LiveInodes == {x \in Inodes : fs.ino[x].nlink > 0}
Files == LiveInodes \ {Root}

\* The places of inode x that name a block.
Places(x) ==
    LET node == fs.ino[x] IN
    {<<x, "direct", k>> : k \in {j \in 1..NUM_DIRECT_BLOCKS : node.direct[j] # UNASSIGNED}}
    \cup (IF node.indirect = UNASSIGNED THEN {}
          ELSE {<<x, "indirect", 0>>}
               \cup {<<x, "entry", k>> : k \in {j \in 1..NUM_INDIRECT_BLOCKS :
                        indirects(fs, node.indirect)[j] # UNASSIGNED}})

BlockAt(p) ==
    CASE p[2] = "direct" -> fs.ino[p[1]].direct[p[3]]
      [] p[2] = "indirect" -> fs.ino[p[1]].indirect
      [] p[2] = "entry" -> indirects(fs, fs.ino[p[1]].indirect)[p[3]]

\* No block serves two purposes: every block that a live inode names, direct, indirect or
\* in its indirect block, is marked as used and named nowhere else, whatever was created,
\* written and unlinked before, unless a directory entry has gone to a foreign block
\* (minixfs_provided.c:18, minixfs_utils.c:60).
BlocksExclusive == ~overrun =>
    LET places == UNION {Places(x) : x \in LiveInodes} IN
    /\ \A p \in places : BlockAt(p) \in fs.used
    /\ \A p, q \in places : BlockAt(p) = BlockAt(q) => p = q

\* Every cell below the size of a file lies in a block of its own, also after writes behind
\* the end and writes that ran out of blocks half-way (minixfs.c:272, 300).
SizeBacked ==
    \A x \in Files : \A p \in 0..(fs.ino[x].size - 1) :
        get_block(fs, x, p \div CELLS) # UNASSIGNED

\* A cell that was last written by the first copy of a write, or that was skipped by a write
\* behind the end, reads as it was written or as zero, unless a directory entry has gone to a
\* foreign block before (minixfs.c:250, 308).
ReadBack ==
    ~overrun => \A x \in Files : \A off \in 0..(fs.ino[x].size - 1) :
        LET got == read(fs, x, off, MAX_SIZE)
        IN  \A j \in DOMAIN got : shadow[x][off + j].sure => got[j] = shadow[x][off + j].val

\* "On success count bytes will be copied from buff": minixfs.h:213.
WriteCopies ==
    ~overrun => \A x \in Files : \A off \in 0..(fs.ino[x].size - 1) :
        LET got == read(fs, x, off, MAX_SIZE)
        IN  \A j \in DOMAIN got : got[j] = shadow[x][off + j].val

\* "The number of links equals the number of times it appears in a directory":
\* minixfs.h:103.
LinksMatchEntries ==
    ~broken => \A x \in Files :
        \E s \in 0..(fs.ino[Root].size - 1) :
            IsEntry(entry(fs, Root, s)) /\ entry(fs, Root, s)[3] = x

\* Unlinking frees "all associated blocks": minixfs.h:319.
BlocksFreed ==
    fs.used = {BlockAt(p) : p \in UNION {Places(x) : x \in LiveInodes}}
=============================================================================
