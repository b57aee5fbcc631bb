-------------------------------- MODULE Fakefs --------------------------------
(***************************************************************************)
(* fakefs of src/finding_filesystems: a preloaded library that answers a   *)
(* program's file calls from a minixfs image when the path or the          *)
(* descriptor is virtual, and hands all others on to the C library; main,  *)
(* which starts a command under it; and the command cp.                    *)
(*                                                                         *)
(* A path argument has a part that realpath resolves ("img" is the image,  *)
(* "other" a real file, "none" nothing) and the components behind it.  The *)
(* image is a function from virtual paths to nodes, with the directory     *)
(* entries as minixfs keeps them: module Minixfs has its blocks.  Where    *)
(* the behaviour of the code is undefined (a freed fakefile, a parent that *)
(* is missing or is a file, a first entry of zeros, a write over entries)  *)
(* the model stops: broken.                                                *)
(***************************************************************************)
EXTENDS Integers, FiniteSets, Sequences, SequencesExt, FiniteSetsExt, Functions

CONSTANTS
    PathArgs,     \* the path arguments that programs use
    CpArgs,       \* <<source, target>> of cp
    MaxFd,        \* descriptors of a process
    MaxCalls,     \* calls of a behaviour
    Specials      \* what chmod may add above the permissions: sticky is 1, setgid 2

VARIABLES
    fk_pc,        \* "start", "run", "cp", "copy", "write", "closing", "exited"
    w,            \* the process: disk, real, fd_map, files, dirs, ret, broken
    calls,        \* calls so far
    cp,           \* of cp: its arguments, descriptors, buffer
    ref, odd      \* history: what each descriptor stands for, and where the code departs

fkvars == <<fk_pc, w, calls, cp, ref, odd>>

BUFSIZE == 1
TYPE_FILE == 1
TYPE_DIRECTORY == 2
Root == <<>>
Zero == "zero"                       \* a directory entry of zeros
Rwx == {"r", "w", "x"}
Info == <<"i", "i">>                 \* what block_info_string writes
Fds == -1 .. (MaxFd - 1)
Node(kind, mode) == [kind |-> kind, mode |-> mode, owner |-> 0, data |-> <<>>]
Dir(entries) == [Node(TYPE_DIRECTORY, Rwx) EXCEPT !.data = entries]
File(data) == [Node(TYPE_FILE, {"r", "w"}) EXCEPT !.data = data]
mkfs_image == Root :> Dir(<<>>)
Image == Root :> Dir(<<"f", "d">>) @@ <<"f">> :> File(<<1, 2>>) @@ <<"d">> :> Dir(<<>>)

-----------------------------------------------------------------------------
(* Paths.                                                                  *)

is_virtual_path(p) == p # Root /\ p[1] = "virtual"
virtual_known(p) == p \in {<<"virtual">>, <<"virtual", "info">>}

\* One component of the virtual path: at the root, ".." shortens the base path.
resolve(acc, c) ==
    IF c \in {".", ""} THEN acc
    ELSE IF c # ".." THEN [acc EXCEPT !.virtual = Append(@, c)]
    ELSE IF acc.virtual # Root THEN [acc EXCEPT !.virtual = Front(@)]
    ELSE [acc EXCEPT !.base = "parent"]

NoPath == [base |-> "NULL", virtual |-> Root]
fakefs_realpath(arg) ==
    IF arg.real = "img" THEN FoldLeft(resolve, [base |-> "img", virtual |-> Root], arg.rest)
    ELSE NoPath
Virtual(arg) == fakefs_realpath(arg).base # "NULL"
VPath(arg) == fakefs_realpath(arg).virtual

-----------------------------------------------------------------------------
(* minixfs, one node at a time.                                            *)

\* get_inode: every component but the last has to be a directory that names the next.
Ancestors(p) == {SubSeq(p, 1, k) : k \in 0 .. (Len(p) - 1)}
get_inode(d, p) ==
    p = Root \/ /\ p \in DOMAIN d
                /\ \A q \in Ancestors(p) : q \in DOMAIN d /\ d[q].kind = TYPE_DIRECTORY
\* A directory on the way starts with an entry of zeros: the name compared is not set.
undefined_lookup(d, p) ==
    \E q \in Ancestors(p) : /\ get_inode(d, q) /\ d[q].kind = TYPE_DIRECTORY
                            /\ d[q].data # <<>> /\ d[q].data[1] = Zero

Below(p, q) == q # p /\ Len(q) > Len(p) /\ SubSeq(q, 1, Len(p)) = p
Drop(d, p) == [q \in {x \in DOMAIN d : x # p /\ ~Below(p, x)} |-> d[q]]

\* minixfs_create_inode_for_path: the entry goes to the start of the block, over the
\* first of those that are there, and an entry of zeros is added at the end.
create(d, p) ==
    LET dir == d[Front(p)]
        hidden == Append(Front(p), dir.data[1])
        entries == IF dir.data = <<>> THEN <<Last(p)>>
                   ELSE <<Last(p)>> \o Tail(dir.data) \o <<Zero>>
        rest == IF dir.data = <<>> THEN d ELSE Drop(d, hidden)
    IN  (p :> Node(TYPE_FILE, dir.mode)) @@ [rest EXCEPT ![Front(p)].data = entries]
\* The parent is missing (a null pointer), or a file whose data become entries.
bad_parent(d, p) == ~get_inode(d, Front(p)) \/ d[Front(p)].kind # TYPE_DIRECTORY

Res(d, ret, bad) == [disk |-> d, ret |-> ret, bad |-> bad]
minixfs_open(d, p, creat) ==
    IF is_virtual_path(p) THEN Res(d, IF virtual_known(p) THEN 0 ELSE 1, FALSE)
    ELSE IF undefined_lookup(d, p) THEN Res(d, -1, TRUE)
    ELSE IF get_inode(d, p) THEN Res(d, 0, FALSE)
    ELSE IF ~creat THEN Res(d, -1, FALSE)
    ELSE IF bad_parent(d, p) THEN Res(d, -1, TRUE)
    ELSE Res(create(d, p), 0, FALSE)

minixfs_access(d, p, mode) ==
    Res(d, IF get_inode(d, p) /\ mode \subseteq d[p].mode THEN 0 ELSE -1, undefined_lookup(d, p))

minixfs_mkdir(d, p, mode) ==
    IF undefined_lookup(d, p) \/ (~get_inode(d, p) /\ bad_parent(d, p)) THEN Res(d, -1, TRUE)
    ELSE IF get_inode(d, p) THEN Res(d, -1, FALSE)
    ELSE Res([create(d, p) EXCEPT ![p].kind = TYPE_DIRECTORY, ![p].mode = @ \cup mode], 0, FALSE)

\* The bits of two types, 1, 2 or 3, put together.
Or(k, special) == IF special \in {0, k} THEN k ELSE 3
minixfs_chmod(d, p, mode, special) ==
    IF undefined_lookup(d, p) THEN Res(d, -1, TRUE)
    ELSE IF ~get_inode(d, p) THEN Res(d, -1, FALSE)
    ELSE Res([d EXCEPT ![p].mode = mode, ![p].kind = Or(@, special)], 0, FALSE)

minixfs_chown(d, p, owner) ==
    IF undefined_lookup(d, p) THEN Res(d, -1, TRUE)
    ELSE IF ~get_inode(d, p) THEN Res(d, -1, FALSE)
    ELSE Res([d EXCEPT ![p].owner = IF owner = -1 THEN @ ELSE owner], 0, FALSE)

\* minixfs_stat: the kind and the size; a virtual file that is not known gives 1.
minixfs_stat(d, p) ==
    IF is_virtual_path(p) THEN Res(d, IF virtual_known(p) THEN 0 ELSE 1, FALSE)
    ELSE Res(d, IF get_inode(d, p) THEN 0 ELSE -1, undefined_lookup(d, p))
st_size(d, p) == IF is_virtual_path(p) THEN 0 ELSE Len(d[p].data)

\* minixfs_readdir: an entry of zeros repeats the name before it.
minixfs_readdir(d, p) ==
    LET e == d[p].data
        name[k \in 0 .. Len(e)] ==
            IF k = 0 THEN "" ELSE IF e[k] = Zero THEN name[k - 1] ELSE e[k]
        names == [k \in 1 .. Len(e) |-> name[k]]
    IN  IF is_virtual_path(p) THEN <<"info">>
        ELSE IF p = Root THEN <<"virtual">> \o names ELSE names
readdir_fails(d, p) ==
    IF is_virtual_path(p) THEN p # <<"virtual">>
    ELSE ~get_inode(d, p) \/ d[p].kind = TYPE_FILE

\* minixfs_unlink: the entries behind move up; the root is freed like any other.
minixfs_unlink(d, p) ==
    LET dir == d[Front(p)]
        k == CHOOSE j \in DOMAIN dir.data : dir.data[j] = Last(p)
    IN  IF undefined_lookup(d, p) \/ p = Root THEN Res(d, -1, TRUE)
        ELSE IF ~get_inode(d, p) THEN Res(d, -1, FALSE)
        ELSE Res([Drop(d, p) EXCEPT ![Front(p)].data = RemoveAt(@, k)], 0, FALSE)

\* minixfs_read and minixfs_virtual_read: what is read from off (a negative offset counts as
\* a large one), and whether the offset is outside the virtual file, where the bytes copied
\* are not in the string.
minixfs_read(d, p, off, count) ==
    LET src == IF is_virtual_path(p) THEN Info ELSE d[p].data
    IN  IF off < 0 THEN <<>> ELSE SubSeq(src, off + 1, Min({off + count, Len(src)}))
bad_read(d, p, off) ==
    IF is_virtual_path(p) THEN p = <<"virtual", "info">> /\ off \notin 0 .. Len(Info)
    ELSE undefined_lookup(d, p)
no_read(d, p) == IF is_virtual_path(p) THEN p # <<"virtual", "info">> ELSE ~get_inode(d, p)

\* minixfs_write, of one cell: a missing file is created.
minixfs_write(d, p, off, v) ==
    LET d1 == IF get_inode(d, p) THEN d ELSE create(d, p)
        old == d1[p].data
        new == [k \in 1 .. Max({Len(old), off + 1}) |->
                   IF k = off + 1 THEN v ELSE IF k <= Len(old) THEN old[k] ELSE 0]
    IN  [d1 EXCEPT ![p].data = new]
\* The file has to grow: its image may have no block left, and the write fails with ENOSPC.
grows(d, p, off) == ~get_inode(d, p) \/ off >= Len(d[p].data)
bad_write(d, p, off) ==
    \/ undefined_lookup(d, p) \/ off < 0
    \/ ~get_inode(d, p) /\ bad_parent(d, p)
    \/ get_inode(d, p) /\ d[p].kind # TYPE_FILE

-----------------------------------------------------------------------------
(* The hooks, as operators on the process.                                 *)

orig_open(s) == LET free == (0 .. (MaxFd - 1)) \ s.real IN IF free = {} THEN -1 ELSE Min(free)
Taken(s, fd) == [s EXCEPT !.real = @ \cup ({fd} \ {-1}), !.ret = fd]
Ret(s, r) == [s EXCEPT !.ret = r]
WithDisk(s, r) == [s EXCEPT !.disk = r.disk, !.ret = r.ret, !.broken = @ \/ r.bad]
Fake(s, fd) == fd \in DOMAIN s.fd_map
file(s, fd) == s.files[s.fd_map[fd]]
Freed(s, fd) == file(s, fd).refcount = 0
Broken(s) == [s EXCEPT !.broken = TRUE]

open(s, arg, creat) ==
    LET r == minixfs_open(s.disk, VPath(arg), creat)
        v_fd == orig_open(s)
        id == Len(s.files) + 1
        f == [path |-> VPath(arg), offset |-> 0, refcount |-> 1]
    IN  IF ~Virtual(arg)
        THEN IF arg.real = "other" \/ creat THEN Taken(s, orig_open(s)) ELSE Ret(s, -1)
        ELSE IF r.bad THEN Broken(s)
        ELSE IF r.ret < 0 THEN Ret(s, -1)
        ELSE [Taken(s, v_fd) EXCEPT !.disk = r.disk, !.files = Append(@, f),
                                    !.fd_map = (v_fd :> id) @@ @]

\* close: the descriptor that stands in for the virtual file stays open.
close(s, fd) ==
    IF ~Fake(s, fd) THEN Ret([s EXCEPT !.real = @ \ {fd}], IF fd \in s.real THEN 0 ELSE -1)
    ELSE IF Freed(s, fd) THEN Broken(s)
    ELSE Ret([s EXCEPT !.files[s.fd_map[fd]].refcount = @ - 1,
                       !.fd_map = [x \in DOMAIN @ \ {fd} |-> @[x]]], 0)

\* fchmod and fchown do not look at what minixfs answers.
Ignored(r) == [r EXCEPT !.ret = 0]

\* fchmod, fchown and fstat of a descriptor, by the operator that works on the image.
fcall(s, fd, Op(_, _)) ==
    IF ~Fake(s, fd) THEN Ret(s, IF fd \in s.real THEN 0 ELSE -1)
    ELSE IF Freed(s, fd) THEN Broken(s)
    ELSE WithDisk(s, Op(s.disk, file(s, fd).path))

\* chmod, lchown and the stat calls: the file is opened, the descriptor used and closed.
by_open(s, arg, Op(_, _)) ==
    LET s1 == open(s, arg, FALSE)
        s2 == fcall(s1, s1.ret, Op)
        s3 == close(s2, s1.ret)
    IN  IF s1.broken THEN s1 ELSE Ret(s3, s2.ret)
\* The stat calls give up when open fails, and leave what open has put into the map.
stat_by_open(s, arg) ==
    LET s1 == open(s, arg, FALSE)
    IN  IF s1.ret = -1 THEN s1 ELSE by_open(s, arg, minixfs_stat)

dup(s, oldfd) ==
    LET newfd == orig_open(s)
    IN  IF ~Fake(s, oldfd) THEN IF oldfd \in s.real THEN Taken(s, newfd) ELSE Ret(s, -1)
        ELSE IF Freed(s, oldfd) THEN Broken(s)
        ELSE IF newfd > 0 THEN [Taken(s, newfd) EXCEPT !.fd_map = (newfd :> s.fd_map[oldfd]) @@ @]
        ELSE Taken(s, newfd)

\* Mutant: the kernel does not learn of the new descriptor.
dup2_map_only(s, oldfd, newfd) ==
    IF ~Fake(s, oldfd)
    THEN IF oldfd \in s.real THEN Taken(s, newfd) ELSE Ret(s, -1)
    ELSE [s EXCEPT !.fd_map = (newfd :> s.fd_map[oldfd]) @@ @, !.ret = 1]

\* dup2: a real descriptor put on a number in the map leaves the map as it is.
dup2(s, oldfd, newfd) ==
    IF ~Fake(s, oldfd)
    THEN IF oldfd \in s.real THEN Taken(s, newfd) ELSE Ret(s, -1)
    ELSE [Taken(s, newfd) EXCEPT !.fd_map = (newfd :> s.fd_map[oldfd]) @@ @, !.ret = 1]

target_offset(s, fd, offset, whence) ==
    CASE whence = "SET" -> offset
      [] whence = "CUR" -> file(s, fd).offset + offset
      [] whence = "END" -> st_size(s.disk, file(s, fd).path) + offset
lseek(s, fd, offset, whence) ==
    LET st == minixfs_stat(s.disk, file(s, fd).path)
        to == target_offset(s, fd, offset, whence)
    IN  IF ~Fake(s, fd) THEN Ret(s, 0)
        ELSE IF Freed(s, fd) \/ (whence = "END" /\ st.bad) THEN Broken(s)
        ELSE IF whence = "END" /\ st.ret < 0 THEN Ret(s, -1)
        ELSE Ret([s EXCEPT !.files[s.fd_map[fd]].offset = to], to)

read(s, fd) ==
    LET f == file(s, fd)
        got == minixfs_read(s.disk, f.path, f.offset, BUFSIZE)
    IN  IF ~Fake(s, fd) THEN Ret(s, 0)
        ELSE IF Freed(s, fd) \/ bad_read(s.disk, f.path, f.offset) THEN Broken(s)
        ELSE IF no_read(s.disk, f.path) THEN Ret(s, -1)
        ELSE Ret([s EXCEPT !.files[s.fd_map[fd]].offset = @ + Len(got)], Len(got))

write(s, fd, v, full) ==
    LET f == file(s, fd)
    IN  IF ~Fake(s, fd) THEN Ret(s, 1)
        ELSE IF Freed(s, fd) \/ bad_write(s.disk, f.path, f.offset) THEN Broken(s)
        ELSE IF full /\ grows(s.disk, f.path, f.offset)
        THEN Ret([s EXCEPT !.disk = IF get_inode(@, f.path) THEN @ ELSE create(@, f.path)], -1)
        ELSE Ret([s EXCEPT !.disk = minixfs_write(s.disk, f.path, f.offset, v),
                           !.files[s.fd_map[fd]].offset = @ + 1], 1)

\* opendir and fdopendir: a virtual directory is a list of entries and a real DIR.
opendir(s, arg) ==
    LET s1 == open(s, arg, FALSE)
        p == file(s1, s1.ret).path
    IN  IF s1.broken \/ ~Fake(s1, s1.ret) THEN s1
        ELSE IF readdir_fails(s1.disk, p) THEN Ret(s1, -1)
        ELSE IF ~is_virtual_path(p) /\ (\/ s1.disk[p].kind # TYPE_DIRECTORY
                                        \/ undefined_lookup(s1.disk, Append(p, Zero))) THEN Broken(s1)
        ELSE [s1 EXCEPT !.dirs = Append(@, [fd |-> s1.ret, entries |-> minixfs_readdir(s1.disk, p),
                                            entries_read |-> 0, open |-> TRUE])]
readdir(s, d) ==
    LET dir == s.dirs[d]
    IN  IF dir.entries_read >= Len(dir.entries) THEN Ret(s, 0)
        ELSE Ret([s EXCEPT !.dirs[d].entries_read = @ + 1], dir.entries_read + 1)
closedir(s, d) == Ret([close(s, s.dirs[d].fd) EXCEPT !.dirs[d].open = FALSE], 0)

-----------------------------------------------------------------------------
(* The programs.                                                           *)

Fresh(disk) == [disk |-> disk, real |-> {0}, fd_map |-> <<>>, files |-> <<>>, dirs |-> <<>>,
                ret |-> 0, broken |-> FALSE]
NoCp == [args |-> <<>>, src |-> -1, dst |-> -1, buf |-> <<>>, ret |-> 0, before |-> <<>>,
         old |-> <<>>]
NoRef == [tab |-> [fd \in Fds |-> IF fd = 0 THEN -1 ELSE 0], pos |-> <<>>]

FkInit ==
    /\ fk_pc = "start"
    /\ w \in {Fresh(mkfs_image), Fresh(Image)}
    /\ calls = 0 /\ cp = NoCp /\ ref = NoRef /\ odd = {}

\* main of fakefs: mkfs, too few arguments, an image that is not there, or the command,
\* ours from this directory before the one in PATH; fs_init runs when it is loaded.
main ==
    /\ fk_pc = "start"
    /\ \/ fk_pc' = "exited" /\ w' = Fresh(mkfs_image) /\ UNCHANGED cp
       \/ fk_pc' = "exited" /\ UNCHANGED <<w, cp>>
       \/ \E a \in CpArgs : fk_pc' = "cp" /\ cp' = [cp EXCEPT !.args = a] /\ UNCHANGED w
       \/ fk_pc' = "run" /\ UNCHANGED <<w, cp>>
    /\ UNCHANGED <<calls, ref, odd>>

\* A program is running that may make another call.
MayCall == fk_pc = "run" /\ ~w.broken /\ calls < MaxCalls
Call(s) ==
    /\ w' = s /\ calls' = calls + 1
    /\ UNCHANGED <<fk_pc, cp>>
Opened(s, r) ==
    IF s.ret < 0 \/ s.broken THEN r
    ELSE [tab |-> [r.tab EXCEPT ![s.ret] = IF Fake(s, s.ret) THEN Len(s.files) ELSE -1],
          pos |-> IF Fake(s, s.ret) THEN Append(r.pos, 0) ELSE r.pos]
\* Files that a call opened and closed again, or could not give a descriptor, have no place.
Places(s, r) == [r EXCEPT !.pos = r.pos \o [k \in 1 .. (Len(s.files) - Len(r.pos)) |-> 0]]

OpenCall(arg, creat) ==
    LET s == open(w, arg, creat)
    IN  Call(s) /\ ref' = Places(s, Opened(s, ref)) /\ UNCHANGED odd
PathCall(s) == Call(s) /\ ref' = Places(s, ref) /\ UNCHANGED odd
access(arg, mode) ==
    Virtual(arg) /\ PathCall(WithDisk(w, minixfs_access(w.disk, VPath(arg), mode)))
unlink(arg) == Virtual(arg) /\ PathCall(WithDisk(w, minixfs_unlink(w.disk, VPath(arg))))
mkdir(arg, mode) == Virtual(arg) /\ PathCall(WithDisk(w, minixfs_mkdir(w.disk, VPath(arg), mode)))
chmod(arg, mode, special) ==
    LET Op(d, p) == Ignored(minixfs_chmod(d, p, mode, special)) IN PathCall(by_open(w, arg, Op))
lchown(arg, owner) ==
    LET Op(d, p) == Ignored(minixfs_chown(d, p, owner)) IN PathCall(by_open(w, arg, Op))
stat(arg) == PathCall(stat_by_open(w, arg))
fchmod(fd, mode) ==
    LET Op(d, p) == Ignored(minixfs_chmod(d, p, mode, 0)) IN PathCall(fcall(w, fd, Op))
fchown(fd, owner) ==
    LET Op(d, p) == Ignored(minixfs_chown(d, p, owner)) IN PathCall(fcall(w, fd, Op))

\* A file that several descriptors share is freed with the first of them.
Close(fd, s) ==
    /\ Call(s)
    /\ ref' = [ref EXCEPT !.tab[fd] = 0]
    /\ odd' = IF ref.tab[fd] > 0 /\ \E x \in Fds \ {fd} : ref.tab[x] = ref.tab[fd]
              THEN odd \cup {<<"id", ref.tab[fd]>>} ELSE odd
Held == {fd \in Fds : ref.tab[fd] # 0}
Moved(fd, to) ==
    ref' = IF ref.tab[fd] <= 0 THEN ref ELSE [ref EXCEPT !.pos[ref.tab[fd]] = to]
Read(fd) ==
    LET s == read(w, fd)
    IN  Call(s) /\ UNCHANGED odd
        /\ Moved(fd, ref.pos[ref.tab[fd]] + Max({0, s.ret}))
Write(fd, v, full) ==
    LET s == write(w, fd, v, full)
    IN  Call(s) /\ UNCHANGED odd /\ Moved(fd, ref.pos[ref.tab[fd]] + Max({0, s.ret}))
Lseek(fd, offset, whence) ==
    LET s == lseek(w, fd, offset, whence)
        base == CASE whence = "SET" -> 0 [] whence = "CUR" -> ref.pos[ref.tab[fd]]
                  [] whence = "END" -> st_size(w.disk, w.files[ref.tab[fd]].path)
    IN  /\ Call(s) /\ UNCHANGED odd
        /\ IF s.broken \/ (s.files = w.files /\ s.ret < 0) THEN UNCHANGED ref
           ELSE Moved(fd, base + offset)
\* newfd and fd are not what they should be, and neither are the files behind them.
Departs(newfd, fd) ==
    odd \cup {<<"fd", newfd>>, <<"id", ref.tab[fd]>>}
        \cup {<<"id", w.fd_map[x]>> : x \in {newfd, fd} \cap DOMAIN w.fd_map}
Dup(fd) ==
    LET s == dup(w, fd)
    IN  /\ Call(s)
        /\ ref' = IF s.ret < 0 THEN ref ELSE [ref EXCEPT !.tab[s.ret] = ref.tab[fd]]
        /\ odd' = IF s.ret = 0 \/ (s.ret > 0 /\ <<"fd", fd>> \in odd)
                  THEN Departs(s.ret, fd) ELSE odd
Dup2(fd, newfd) ==
    /\ fd # newfd
    /\ Call(dup2(w, fd, newfd))
    /\ ref' = [ref EXCEPT !.tab[newfd] = ref.tab[fd]]
    /\ odd' = IF (Fake(w, newfd) /\ ~Fake(w, fd)) \/ <<"fd", fd>> \in odd
              THEN Departs(newfd, fd) ELSE odd
Opendir(arg) ==
    LET s == opendir(w, arg)
        fd == open(w, arg, FALSE)
    IN  Virtual(arg) /\ Call(s) /\ ref' = Places(s, Opened(fd, ref)) /\ UNCHANGED odd
Readdir(d) == w.dirs[d].open /\ PathCall(readdir(w, d))
Closedir(d) == w.dirs[d].open /\ Close(w.dirs[d].fd, closedir(w, d))
\* fsync, fdatasync and mmap of a virtual file do nothing.
unimplemented(fd) == Fake(w, fd) /\ PathCall(Ret(w, 0))

\* The C library's exit runs fs_fini, which closes what is in fd_map, looks at fd_map once
\* more where dir_fd_map is meant, and so leaves the directories.
fs_fini(s) == FoldSet(LAMBDA fd, acc : IF acc.broken THEN acc ELSE close(acc, fd), s, DOMAIN s.fd_map)
Exit ==
    /\ fk_pc = "run" /\ ~w.broken
    /\ w' = fs_fini(w) /\ fk_pc' = "exited"
    /\ UNCHANGED <<calls, cp, ref, odd>>

-----------------------------------------------------------------------------
(* cp: one block is read and written at a time.                            *)

DataOf(s, arg) ==
    IF is_virtual_path(VPath(arg)) THEN Info
    ELSE IF get_inode(s.disk, VPath(arg)) THEN s.disk[VPath(arg)].data ELSE <<>>
Cp(pc, s, c) ==
    /\ ~w.broken
    /\ fk_pc' = pc /\ w' = s /\ cp' = c
    /\ UNCHANGED <<calls, ref, odd>>
cp_open ==
    LET s1 == open(w, cp.args[1], FALSE)
        s2 == open(s1, cp.args[2], TRUE)
        ok == s1.ret >= 0 /\ s2.ret >= 0
    IN  /\ fk_pc = "cp"
        /\ Cp(IF ok THEN "copy" ELSE "closing", IF s1.broken THEN s1 ELSE s2,
              [cp EXCEPT !.src = s1.ret, !.dst = s2.ret, !.ret = 1,
                         !.before = DataOf(w, cp.args[1]), !.old = DataOf(w, cp.args[2])])
cp_read ==
    LET s == read(w, cp.src)
        f == file(w, cp.src)
    IN  /\ fk_pc = "copy"
        /\ Cp(IF s.ret > 0 THEN "write" ELSE "closing", s,
              [cp EXCEPT !.ret = s.ret,
                         !.buf = IF s.ret > 0 THEN minixfs_read(w.disk, f.path, f.offset, BUFSIZE) ELSE @])
cp_write(full) ==
    LET s == write(w, cp.dst, cp.buf[1], full)
    IN  /\ fk_pc = "write"
        /\ Cp(IF s.ret < 0 THEN "closing" ELSE "copy", s, [cp EXCEPT !.ret = s.ret])
cp_close ==
    /\ fk_pc = "closing"
    /\ Cp("exited", fs_fini(close(close(w, cp.src), cp.dst)), cp)

Offs == {-1, 1}
FkNext ==
    \/ main \/ Exit \/ cp_open \/ cp_read \/ cp_close
    \/ \E full \in BOOLEAN : cp_write(full)
    \/ /\ MayCall
       /\ \/ \E arg \in PathArgs :
              \/ \E creat \in BOOLEAN : OpenCall(arg, creat)
              \/ \E mode \in {{}, {"r", "x"}} : access(arg, mode) \/ mkdir(arg, mode)
              \/ \E special \in Specials : chmod(arg, {"r"}, special)
              \/ lchown(arg, 1) \/ stat(arg) \/ unlink(arg) \/ Opendir(arg)
          \/ \E fd \in Held :
              \/ fchmod(fd, {"w"}) \/ fchown(fd, -1) \/ Read(fd)
              \/ \E full \in BOOLEAN : Write(fd, 1, full)
              \/ Close(fd, close(w, fd)) \/ Dup(fd) \/ unimplemented(fd)
              \/ \E newfd \in 0 .. (MaxFd - 1) : Dup2(fd, newfd)
              \/ \E o \in Offs, whence \in {"SET", "CUR", "END"} : Lseek(fd, o, whence)
          \/ \E d \in DOMAIN w.dirs : Readdir(d) \/ Closedir(d)

-----------------------------------------------------------------------------
\* core.c:49-152, dup.c:7-28 and dir.c:6-80: except for the descriptors of a file whose
\* dup has been closed, and those that dup2 has put a real file on, a descriptor stands for
\* the open file that POSIX says it does and is at that file's place; and every number in
\* fd_map is also taken in the kernel, so that no later open gives it out again.
FdsRight ==
    ~w.broken =>
    /\ \A fd \in 0 .. (MaxFd - 1) : <<"fd", fd>> \notin odd /\ fk_pc = "run" =>
        IF ref.tab[fd] > 0 THEN Fake(w, fd) /\ w.fd_map[fd] = ref.tab[fd] ELSE ~Fake(w, fd)
    /\ \A fd \in DOMAIN w.fd_map :
        /\ fd = -1 \/ fd \in w.real
        /\ (fk_pc = "run" /\ <<"id", w.fd_map[fd]>> \notin odd) =>
             ~Freed(w, fd) /\ (fd = -1 \/ file(w, fd).offset = ref.pos[w.fd_map[fd]])
    /\ fk_pc = "exited" => DOMAIN w.fd_map = {}

\* cp.c:35-57: a cp that reports success has copied the whole source over the beginning of
\* the target, whatever else the directory went through.
CpRight ==
    (fk_pc = "exited" /\ ~w.broken /\ cp.args # <<>> /\ cp.ret = 0) =>
        DataOf(w, cp.args[2]) =
            cp.before \o SubSeq(cp.old, Len(cp.before) + 1, Len(cp.old))
=============================================================================
