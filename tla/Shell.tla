------------------------------- MODULE Shell -------------------------------
(***************************************************************************)
(* The shell of src/shell/shell.c: the read loop, execute_command with its *)
(* fork, setpgid and waitpid, the table `processes`, the history, and the  *)
(* two signal handlers that interrupt all of it.                           *)
(*                                                                         *)
(* A line is a command, or two commands joined by && || or ;, or one of    *)
(* the builtins.  A command is Fg (an external command), Bg (one that ends *)
(* in &) or Cd.  What a program prints is left out.  Redirections and the  *)
(* splitting of arguments happen in the child, which the last part of this *)
(* module follows by itself.                                               *)
(*                                                                         *)
(* A signal handler runs between two steps of the code it interrupts, of   *)
(* the other handler too; its own signal is blocked meanwhile.  A step     *)
(* ends with one access to the table: the test of an index, the vector_get *)
(* and the comparison behind it are one step, the frees that follow a      *)
(* match belong to it, and vector_erase is a step of its own.  The vector  *)
(* is that of src/vector/vector.c: an index out of range fails an          *)
(* assertion, which aborts the shell.                                      *)
(***************************************************************************)
EXTENDS Naturals, FiniteSets, Sequences, SequencesExt

CONSTANTS
    MaxForks,    \* bound: children forked in a session
    MaxLines,    \* bound: lines read in a session
    MaxInts      \* bound: SIGINTs that arrive

ASSUME ShellAssumption == MaxForks \in Nat \ {0} /\ MaxLines \in Nat /\ MaxInts \in Nat

Pids == 1..MaxForks

\* The lines that run commands: one of each form the loop tells apart.
Lines == {[op |-> "none", cmds |-> <<c>>] : c \in {"Fg", "Bg", "Cd"}}
         \cup {[op |-> o, cmds |-> <<"Fg", "Fg">>] : o \in {"and", "or"}}
         \cup {[op |-> "seq", cmds |-> <<"Bg", "Bg">>]}

VARIABLES
    pc,          \* where the main thread is
    todo, op,    \* the commands of the line still to run, and what joins them
    status,      \* what waitpid said of the foreground child
    i, n,        \* index and bound of the loop over `processes` that runs
    cur,         \* the process the main thread works on: the pid in child or p
    nlines,      \* lines read so far
    history,     \* the vector `history`
    file,        \* the history file (the shell runs with -h)
    procs,       \* the vector `processes`, as pids
    freed,       \* entries of it whose memory was freed
    forks,       \* children forked so far
    child,       \* the kernel's view of each child
    chld,        \* SIGCHLD is pending
    frame,       \* the code that runs: the main thread or a handler
    below,       \* the code that a handler interrupted
    sig,         \* the index and the bound of the SIGINT handler's loop
    ints,        \* SIGINTs so far
    wanted,      \* of each frame, the pid that remove_process or delete_process looks for
    pos,         \* ... how far it has come in the table
    hit          \* the frames in which it has found the pid

job    == <<todo, op, status, cur>>
input  == <<nlines, history, file>>
kernel == <<forks, child, chld>>
frames == <<frame, below>>
search == <<wanted, pos, hit>>
signal == <<frames, sig, ints, search>>
vars   == <<pc, job, i, n, input, procs, freed, kernel, signal>>

\* A child runs the shell's code until it execs, ends as a zombie and is gone
\* once reaped; grp says that it leads a process group of its own.
Child == [st : {"none", "new", "running", "zombie", "reaped"}, execd : BOOLEAN,
          grp : BOOLEAN, stopped : BOOLEAN, killed : BOOLEAN, bg : BOOLEAN,
          code : 0..2]

Fresh(s, b) == [st |-> s, execd |-> FALSE, grp |-> FALSE, stopped |-> FALSE,
                killed |-> FALSE, bg |-> b, code |-> 0]

\* The code that stands for death by a signal; 1 is any other failure.
BySignal == 2

\* The shell has ended, or ("astray") taken a process out of the table that it did not
\* look for, and kept one whose memory it freed: what follows is not modelled.
Gone == {"ended", "exit1", "crashed", "astray"}
Frames == {"main", "int", "chld"}
Live(p) == child[p].st \in {"new", "running"}
Zombies == {p \in Pids : child[p].st = "zombie"}

TypeOK ==
    /\ pc \in {"read", "exec", "push", "setpgid", "wait", "delete", "killrm", "ps",
               "killall", "free", "save"} \cup Gone
    /\ todo \in BoundedSeq({"Fg", "Bg", "Cd"}, 2)
    /\ op \in {"none", "and", "or", "seq"} /\ status \in 0..2 /\ cur \in 0..MaxForks
    /\ i \in 0..(MaxForks + 1) /\ n \in 0..MaxForks
    /\ nlines \in 0..MaxLines /\ Range(history) \cup Range(file) \subseteq Lines
    /\ procs \in BoundedSeq(Pids, MaxForks)
    /\ freed \subseteq Pids /\ forks \in 0..MaxForks
    /\ child \in [Pids -> Child]
    /\ chld \in BOOLEAN /\ ints \in 0..MaxInts
    /\ sig \in [i : 1..(MaxForks + 1), n : 0..MaxForks]
    /\ frame \in Frames /\ below \in Frames
    /\ wanted \in [Frames -> 0..MaxForks] /\ pos \in [Frames -> 1..(MaxForks + 1)]
    /\ hit \subseteq Frames

\* start_shell: the history file, if there is one, holds a line of an earlier session.
Init ==
    /\ pc = "read" /\ todo = <<>> /\ op = "none" /\ status = 0 /\ cur = 0
    /\ i = 0 /\ n = 0 /\ nlines = 0 /\ procs = <<>> /\ freed = {} /\ forks = 0
    /\ file \in {<<>>, <<[op |-> "and", cmds |-> <<"Fg", "Fg">>]>>}
    /\ history = file
    /\ child = [p \in Pids |-> Fresh("none", FALSE)]
    /\ chld = FALSE /\ ints = 0
    /\ sig = [i |-> 1, n |-> 0] /\ frame = "main" /\ below = "main"
    /\ wanted = [f \in Frames |-> 0] /\ pos = [f \in Frames |-> 1] /\ hit = {}

-----------------------------------------------------------------------------
(* The operating system.  What the children do once the shell is gone is   *)
(* of no interest here.                                                    *)

\* The child's side of execute_command: it prepares its arguments and calls exec.
Exec(p) ==
    /\ pc \notin Gone /\ child[p].st = "new" /\ ~child[p].stopped /\ ~child[p].killed
    /\ child' = [child EXCEPT ![p].st = "running", ![p].execd = TRUE]
    /\ UNCHANGED <<pc, job, i, n, input, procs, freed, forks, chld, signal>>

\* A child ends: killed, by exit, because its exec failed (exit 1), or because the file of
\* a redirection cannot be opened (fclose of NULL).  SIGKILL ends
\* a stopped child too.  Nobody asks for the code of a background child.  The signal SIGCHLD is pending once, however many died.
Die(p) ==
    /\ pc \notin Gone /\ Live(p)
    /\ \E c \in 0..2 :
          /\ child[p].stopped => child[p].killed
          /\ IF child[p].killed \/ child[p].bg THEN c = BySignal
             ELSE child[p].st = "new" => c # 0
          /\ child' = [child EXCEPT ![p].st = "zombie", ![p].code = c,
                                   ![p].stopped = FALSE, ![p].killed = FALSE]
    /\ chld' = TRUE
    /\ UNCHANGED <<pc, job, i, n, input, procs, freed, forks, signal>>

\* kill(pid, SIGKILL): nothing happens to a process that is dead or gone.
Killed(p) == IF Live(p) THEN [child EXCEPT ![p].killed = TRUE] ELSE child

-----------------------------------------------------------------------------
(* remove_process and delete_process, in whichever frame they run.         *)

Runs(f) == frame = f /\ pc \notin Gone

\* What p->pid may be: freed memory holds the pid still, or something that names no
\* process, 0 here.
read_pid(p) == IF p \in freed THEN {p, 0} ELSE {p}

\* The call: the search for pid starts at the first entry.
Seek(f, pid) ==
    wanted' = [wanted EXCEPT ![f] = pid] /\ pos' = [pos EXCEPT ![f] = 1] /\ hit' = hit

Searches(f) == wanted[f] # 0 /\ f \notin hit

\* One turn of the loop: the next entry, or a match, and its memory is freed.  To free it
\* twice aborts or goes unnoticed.
look(f) ==
    /\ Runs(f) /\ Searches(f) /\ pos[f] <= Len(procs)
    /\ \E v \in read_pid(procs[pos[f]]) :
          \/ /\ v # wanted[f]
             /\ pos' = [pos EXCEPT ![f] = @ + 1]
             /\ UNCHANGED <<pc, hit, freed>>
          \/ /\ v = wanted[f]
             /\ hit' = hit \cup {f} /\ freed' = freed \cup {v}
             /\ UNCHANGED <<pc, pos>>
          \/ /\ v = wanted[f] /\ v \in freed
             /\ pc' = "crashed"
             /\ UNCHANGED <<pos, hit, freed>>
    /\ UNCHANGED <<job, i, n, input, procs, kernel, frames, sig, ints, wanted>>

\* The loop has passed the last entry.
not_found(f) == Searches(f) /\ pos[f] > Len(procs)

\* The call is one of delete_process, not of remove_process.
deletes(f) == f = "chld" \/ (f = "main" /\ pc = "delete")

\* delete_process erases position -1 then, which aborts.
delete_nothing(f) ==
    /\ Runs(f) /\ not_found(f) /\ deletes(f)
    /\ pc' = "crashed"
    /\ UNCHANGED <<job, i, n, input, procs, freed, kernel, signal>>

\* vector_erase when the table has changed since the match: another process is at the
\* index, or none.
stale_erase(f) ==
    /\ Runs(f) /\ f \in hit
    /\ \/ pos[f] > Len(procs) /\ pc' = "crashed"
       \/ pos[f] <= Len(procs) /\ procs[pos[f]] # wanted[f] /\ pc' = "astray"
    /\ UNCHANGED <<job, i, n, input, procs, freed, kernel, signal>>

\* vector_erase of the entry that was found.
erase(f) ==
    /\ f \in hit /\ pos[f] <= Len(procs) /\ procs[pos[f]] = wanted[f]
    /\ procs' = SubSeq(procs, 1, pos[f] - 1) \o SubSeq(procs, pos[f] + 1, Len(procs))
    /\ freed' = freed \ {wanted[f]}

\* The call returns.
Forget(f) ==
    wanted' = [wanted EXCEPT ![f] = 0] /\ pos' = [pos EXCEPT ![f] = 1] /\ hit' = hit \ {f}

\* remove_process has done its work, or found nothing to do.
remove_process(f) ==
    /\ erase(f) \/ (not_found(f) /\ UNCHANGED <<procs, freed>>)
    /\ Forget(f)

delete_process(f) == erase(f) /\ Forget(f)

-----------------------------------------------------------------------------
(* The handlers.                                                           *)

\* A signal is blocked while its handler runs.
Blocked(f) == f \in {frame, below}

Enter(f) == frame' = f /\ below' = frame
Leave == frame' = below /\ below' = "main"

\* SIGCHLD is delivered.
ChldArrives ==
    /\ chld /\ pc \notin Gone /\ ~Blocked("chld")
    /\ chld' = FALSE /\ Enter("chld")
    /\ UNCHANGED <<pc, job, i, n, input, procs, freed, forks, child, sig, ints, search>>

\* wait_for_all_background_child_processes: waitpid(-1, WNOHANG) reaps one zombie, the
\* foreground child not excepted, or finds none, and the handler returns.
wait_for_all_background_child_processes ==
    /\ Runs("chld") /\ wanted["chld"] = 0
    /\ \/ /\ Zombies = {} /\ Leave
          /\ UNCHANGED <<child, search>>
       \/ \E z \in Zombies :
             /\ child' = [child EXCEPT ![z] = Fresh("reaped", FALSE)]
             /\ Seek("chld", z)
             /\ UNCHANGED frames
    /\ UNCHANGED <<pc, job, i, n, input, procs, freed, forks, chld, sig, ints>>

\* Mutant: an if instead of the while: one child is reaped for one signal.
waits_no_more == Leave

\* The loop goes on for as long as there are zombies.
waits_again == UNCHANGED frames

\* delete_process for the child that was reaped.
delete_reaped ==
    /\ Runs("chld") /\ delete_process("chld") /\ waits_again
    /\ UNCHANGED <<pc, job, i, n, input, kernel, sig, ints>>

\* SIGINT arrives; the handler fixes n before the loop.
IntArrives ==
    /\ ints < MaxInts /\ pc \notin Gone /\ ~Blocked("int")
    /\ ints' = ints + 1 /\ Enter("int")
    /\ sig' = [i |-> 1, n |-> Len(procs)]
    /\ UNCHANGED <<pc, job, i, n, input, procs, freed, kernel, search>>

\* getpgid(pid) = pid; it is -1 for a process that was reaped.
own_group(p) == child[p].st # "reaped" /\ child[p].grp

\* Mutant: every process is taken for a foreground one, and none is killed.
handle_SIGINT_no_kill ==
    /\ Runs("int") /\ wanted["int"] = 0
    /\ \/ sig.i > sig.n /\ Leave /\ UNCHANGED <<pc, search>>
       \/ sig.i <= sig.n /\ sig.i > Len(procs) /\ pc' = "crashed" /\ UNCHANGED <<frames, search>>
       \/ sig.i <= sig.n /\ sig.i <= Len(procs) /\ Seek("int", procs[sig.i])
          /\ UNCHANGED <<pc, frames>>
    /\ UNCHANGED <<job, i, n, input, procs, freed, kernel, sig, ints>>

\* handle_SIGINT, up to and including the kill of one process: the ones that do not
\* lead a group of their own.  What is read from freed memory names no process to kill
\* or remove, or the process it was.
handle_SIGINT ==
    /\ Runs("int") /\ wanted["int"] = 0
    /\ \/ /\ sig.i > sig.n /\ Leave
          /\ UNCHANGED <<pc, child, sig, search>>
       \/ /\ sig.i \in (Len(procs) + 1)..sig.n
          /\ pc' = "crashed"
          /\ UNCHANGED <<child, frames, sig, search>>
       \/ /\ sig.i <= sig.n /\ sig.i <= Len(procs)
          /\ \E p \in read_pid(procs[sig.i]) :
                IF p = 0 \/ own_group(p)
                THEN sig' = [sig EXCEPT !.i = @ + 1] /\ UNCHANGED <<child, search>>
                ELSE Seek("int", p) /\ child' = Killed(p) /\ sig' = sig
          /\ UNCHANGED <<pc, frames>>
    /\ UNCHANGED <<job, i, n, input, procs, freed, forks, chld, ints>>

\* ... and its remove_process, which finds nothing if SIGCHLD was faster.
handle_SIGINT_remove ==
    /\ Runs("int") /\ remove_process("int")
    /\ sig' = [sig EXCEPT !.i = @ + 1]
    /\ UNCHANGED <<pc, job, i, n, input, kernel, frames, ints>>

-----------------------------------------------------------------------------
(* The main thread, which a running handler suspends.                      *)

At(l) == pc = l /\ frame = "main"

\* A new line is read, for as long as the bound allows.
NextLine == At("read") /\ nlines < MaxLines /\ nlines' = nlines + 1

\* The line runs commands: it goes into the history and execute_command starts.
run_line(l) ==
    /\ NextLine
    /\ history' = Append(history, l)
    /\ todo' = l.cmds /\ op' = l.op /\ pc' = "exec"
    /\ UNCHANGED <<status, cur, i, n, file, procs, freed, kernel, signal>>

\* The command that execute_command sees when it is given a whole line: the operators
\* are arguments to it then.
whole_line(l) == IF l.cmds[1] = "Cd" THEN "Cd" ELSE Last(l.cmds)

\* The lines that #n names, n being any valid index.
indexed == {history[k] : k \in DOMAIN history}

\* The line that !prefix names: the last one that starts with the prefix, a command here;
\* the empty prefix names the last line of all.
prefixed(prefix) ==
    LET hits == {k \in DOMAIN history : prefix \in {"", history[k].cmds[1]}}
    IN  IF hits = {} THEN {} ELSE {history[Max(hits)]}

\* #n and !prefix: the line found is logged again and given to execute_command.
replay(l) ==
    /\ NextLine
    /\ history' = Append(history, l)
    /\ todo' = <<whole_line(l)>> /\ op' = "none" /\ pc' = "exec"
    /\ UNCHANGED <<status, cur, i, n, file, procs, freed, kernel, signal>>

\* An empty line, !history, a builtin without its argument, a pid that get_process_by_pid
\* does not find, or a line of the history that does not exist: nothing changes.
no_effect ==
    /\ NextLine
    /\ UNCHANGED <<pc, job, i, n, history, file, procs, freed, kernel, signal>>

\* ps: the loop over the table starts.
start_ps ==
    /\ NextLine
    /\ pc' = "ps" /\ i' = 1 /\ n' = Len(procs)
    /\ UNCHANGED <<job, history, file, procs, freed, kernel, signal>>

\* execute_ps: /proc has no entry for a process that was reaped, and the shell exits.
execute_ps ==
    /\ At("ps")
    /\ pc' = IF i > n THEN "read"
             ELSE IF i > Len(procs) THEN "crashed"
             ELSE IF child[procs[i]].st = "reaped" THEN "exit1" ELSE "ps"
    /\ i' = IF i <= n THEN i + 1 ELSE i
    /\ UNCHANGED <<job, n, input, procs, freed, kernel, signal>>

\* The table has an entry for the pid.
get_process_by_pid(p) == p \in Range(procs)

\* kill pid: the signal first ...
kill_cmd(p) ==
    /\ NextLine /\ get_process_by_pid(p)
    /\ child' = Killed(p)
    /\ Seek("main", p) /\ pc' = "killrm"
    /\ UNCHANGED <<job, i, n, history, file, procs, freed, forks, chld, frames, sig, ints>>

\* ... then remove_process, which finds nothing if SIGCHLD was faster.
kill_remove ==
    /\ At("killrm") /\ remove_process("main")
    /\ pc' = "read"
    /\ UNCHANGED <<job, i, n, input, kernel, frames, sig, ints>>

\* stop pid and cont pid.
stop_cmd(p) ==
    /\ NextLine /\ get_process_by_pid(p)
    /\ child' = IF Live(p) THEN [child EXCEPT ![p].stopped = TRUE] ELSE child
    /\ UNCHANGED <<pc, job, i, n, history, file, procs, freed, forks, chld, signal>>

cont_cmd(p) ==
    /\ NextLine /\ get_process_by_pid(p)
    /\ child' = [child EXCEPT ![p].stopped = FALSE]
    /\ UNCHANGED <<pc, job, i, n, history, file, procs, freed, forks, chld, signal>>

\* exit or the end of the input.
exit_cmd ==
    /\ At("read")
    /\ pc' = "killall" /\ i' = 1 /\ n' = Len(procs)
    /\ UNCHANGED <<job, input, procs, freed, kernel, signal>>

-----------------------------------------------------------------------------
(* execute_command, and what the loop does with its result.                *)

\* Whether the second command runs after the first returned r.
runs_right(o, r) ==
    \/ o = "seq"
    \/ o = "and" /\ r = 0
    \/ o = "or" /\ r # 0

\* execute_command returns r, and its locals are gone.
Return(r) ==
    /\ todo' = IF runs_right(op, r) THEN Tail(todo) ELSE <<>>
    /\ pc' = IF todo' = <<>> THEN "read" ELSE "exec"
    /\ op' = IF todo' = <<>> THEN "none" ELSE op
    /\ cur' = 0 /\ status' = 0

\* cd finds its directory or not.
execute_cd ==
    /\ At("exec") /\ Head(todo) = "Cd"
    /\ \E r \in {0, 1} : Return(r)
    /\ UNCHANGED <<i, n, input, procs, freed, kernel, signal>>

\* fork, which may fail.
execute_fork ==
    /\ At("exec") /\ Head(todo) # "Cd"
    /\ \/ /\ pc' = "exit1"
          /\ UNCHANGED <<forks, child, cur>>
       \/ /\ forks < MaxForks
          /\ forks' = forks + 1 /\ cur' = forks + 1
          /\ child' = [child EXCEPT ![forks + 1] = Fresh("new", Head(todo) = "Bg")]
          /\ pc' = "push"
    /\ UNCHANGED <<todo, op, status, i, n, input, procs, freed, chld, signal>>

\* vector_push_back(processes, new_process(...)).
push_process ==
    /\ At("push")
    /\ procs' = Append(procs, cur)
    /\ pc' = "setpgid"
    /\ UNCHANGED <<job, i, n, input, freed, kernel, signal>>

\* setpgid fails once the child has called exec or was reaped, and the shell exits.  The
\* group of a background child is its own; the shell waits for any other child.
set_group ==
    /\ At("setpgid")
    /\ \/ /\ child[cur].execd \/ child[cur].st = "reaped"
          /\ pc' = "exit1"
          /\ UNCHANGED <<job, child>>
       \/ /\ ~child[cur].execd /\ child[cur].st # "reaped"
          /\ IF Head(todo) = "Bg"
             THEN Return(0) /\ child' = [child EXCEPT ![cur].grp = TRUE]
             ELSE pc' = "wait" /\ UNCHANGED <<job, child>>
    /\ UNCHANGED <<i, n, input, procs, freed, forks, chld, signal>>

\* waitpid(child, &status, 0): returns when the child is a zombie; fails, and the shell
\* exits, when the SIGCHLD handler has reaped it.
wait_foreground ==
    /\ At("wait") /\ child[cur].st \in {"zombie", "reaped"}
    /\ IF child[cur].st = "zombie"
       THEN /\ child' = [child EXCEPT ![cur] = Fresh("reaped", FALSE)]
            /\ status' = child[cur].code /\ pc' = "delete" /\ Seek("main", cur)
       ELSE pc' = "exit1" /\ UNCHANGED <<child, status, search>>
    /\ UNCHANGED <<todo, op, cur, i, n, input, procs, freed, forks, chld, frames, sig, ints>>

\* delete_process(child) and the result: 1 only for a child that exited with a failure.
delete_foreground ==
    /\ At("delete") /\ delete_process("main")
    /\ Return(IF status = 1 THEN 1 ELSE 0)
    /\ UNCHANGED <<i, n, input, kernel, frames, sig, ints>>

-----------------------------------------------------------------------------
(* The end.                                                                *)

\* killAllChildProcesses: the bound was fixed before, the table may have shrunk since.
kill_child ==
    /\ At("killall")
    /\ \/ i > n /\ pc' = "save" /\ UNCHANGED <<child, cur>>
       \/ i <= n /\ i > Len(procs) /\ pc' = "crashed" /\ UNCHANGED <<child, cur>>
       \/ /\ i <= n /\ i <= Len(procs)
          /\ cur' = procs[i] /\ child' = Killed(procs[i]) /\ pc' = "free"
    /\ UNCHANGED <<todo, op, status, i, n, input, procs, freed, forks, chld, signal>>

\* free(p->command), free(p): a second time if the SIGCHLD handler was faster, which
\* aborts or goes unnoticed.
free_child ==
    /\ At("free")
    /\ \/ pc' = "killall" /\ i' = i + 1 /\ freed' = freed \cup {cur}
       \/ cur \notin Range(procs) /\ pc' = "crashed" /\ UNCHANGED <<i, freed>>
    /\ UNCHANGED <<job, n, input, procs, kernel, signal>>

\* The history goes to its file and shell() returns.
save_history ==
    /\ At("save")
    /\ pc' = "ended" /\ file' = history
    /\ UNCHANGED <<job, i, n, nlines, history, procs, freed, kernel, signal>>

-----------------------------------------------------------------------------
Tables(f) == look(f) \/ delete_nothing(f) \/ stale_erase(f)

ChldHandler ==
    ChldArrives \/ wait_for_all_background_child_processes \/ delete_reaped \/ Tables("chld")
IntHandler == handle_SIGINT \/ handle_SIGINT_remove \/ Tables("int")

Typed ==
    \/ \E l \in Lines : run_line(l)
    \/ \E l \in indexed : replay(l)
    \/ \E prefix \in {"", "Fg", "Bg", "Cd"} : \E l \in prefixed(prefix) : replay(l)
    \/ \E p \in Pids : kill_cmd(p) \/ stop_cmd(p) \/ cont_cmd(p)
    \/ no_effect \/ start_ps \/ exit_cmd

Work ==
    \/ execute_ps \/ kill_remove \/ Tables("main")
    \/ execute_cd \/ execute_fork \/ push_process \/ set_group
    \/ wait_foreground \/ delete_foreground
    \/ kill_child \/ free_child \/ save_history

Next ==
    \/ \E p \in Pids : Exec(p) \/ Die(p)
    \/ IntArrives \/ ChldHandler \/ IntHandler \/ Typed \/ Work

\* The operating system delivers a pending signal and schedules the shell; neither the
\* children nor the user owe anything.
Spec ==
    /\ Init /\ [][Next]_vars
    /\ WF_vars(ChldHandler) /\ WF_vars(IntHandler) /\ WF_vars(Work)

-----------------------------------------------------------------------------
(* Properties.                                                             *)

\* Every child that lives and was not killed has an entry in `processes`, once it was
\* pushed, wherever handlers ran, as long as none has run between the match of a process
\* and its vector_erase and made the shell erase another one (stale_erase): only so can ps,
\* kill, stop, cont, SIGINT and the end of the shell reach it (shell.c:141, 155, 199, 218).
ChildrenTracked ==
    pc \notin Gone =>
        \A p \in Pids : Live(p) /\ ~child[p].killed /\ ~(pc = "push" /\ p = cur)
                        => p \in Range(procs)

\* A foreground command has ended before the shell goes on to the next command of the line
\* or prompts for the next line (shell.c:434).
ForegroundAlone ==
    pc \in {"read", "exec"} => \A p \in Pids : Live(p) => child[p].bg

\* When the shell ends in an orderly way, it leaves no child behind that was not sent
\* SIGKILL, although the SIGCHLD handler erases entries while killAllChildProcesses walks
\* the table by index (shell.c:42, 847).
EndsClean ==
    pc = "ended" => \A p \in Pids : Live(p) => child[p].killed

\* One SIGCHLD may stand for several children: every zombie is reaped nevertheless, if the
\* shell lives on (shell.c:221).  A session has finitely many children, so that in the end no
\* zombie is left.
ZombiesReaped == <>[](Zombies = {} \/ pc \in Gone)

\* remove_process removes the process with the given pid from the table (the comment at
\* shell.c:139): what it is about to erase is that process, if the table holds it still.
EraseRight ==
    \A f \in Frames :
        Runs(f) /\ f \in hit /\ wanted[f] \in Range(procs) /\ pos[f] \in DOMAIN procs
        => procs[pos[f]] = wanted[f]

-----------------------------------------------------------------------------
(* What a child does between fork and exec (execute_command and            *)
(* solve_redirection): it splits its command into words, cuts them at the  *)
(* first redirection operator, opens the file of the last one and puts it  *)
(* in place of its input or output.  The words are separated by single     *)
(* blanks; a file name is the sequence of words that is handed to fopen as *)
(* one string.                                                             *)

CONSTANTS
    Words,       \* the words that are no operator
    MaxWords     \* bound on the length of a command

Operators == {">", ">>", "<"}

ASSUME WordsAssumption == MaxWords \in Nat /\ Words \cap (Operators \cup {"&"}) = {}

\* The commands: they start with a word, and no operator is the last word.
Commands == {s \in UNION {[1 .. m -> Words \cup Operators \cup {"&"}] : m \in 1 .. MaxWords} :
                /\ s[1] \in Words /\ s[Len(s)] \notin Operators
                /\ \A k \in DOMAIN s : s[k] = "&" => k = Len(s)}

Terminal == <<"terminal">>
\* A name that starts in the middle of another word.
Garbled == <<"garbled">>

VARIABLES
    command,        \* the string buffer
    ch_pc,          \* "split", "open", "exec", "program", "failed" or "crashed"
    is_redirection, redirect_cmd, tokens_until_redirect_symbol,
    args,           \* cmds, as far as its NULL
    stdio,          \* what descriptors 0 and 1 stand for
    written         \* what became of a file opened for output: name and mode

childvars == <<command, ch_pc, is_redirection, redirect_cmd, tokens_until_redirect_symbol,
               args, stdio, written>>

ShInit ==
    /\ command \in Commands
    /\ ch_pc = "split" /\ is_redirection = FALSE /\ redirect_cmd = ""
    /\ tokens_until_redirect_symbol = 0 /\ args = << >>
    /\ stdio = [in |-> Terminal, out |-> Terminal]
    /\ written = [name |-> Terminal, mode |-> "none"]

Positions(ops) == {k \in DOMAIN command : command[k] \in ops}

\* The words in front of the first operator.
count_tokens == IF Positions(Operators) = {} THEN Len(command)
                ELSE Min(Positions(Operators)) - 1

\* The loop over the words: the last operator is the one that is obeyed.
split_command ==
    /\ ch_pc = "split"
    /\ is_redirection' = (Positions(Operators) # {})
    /\ redirect_cmd' = IF Positions(Operators) = {} THEN ""
                       ELSE command[Max(Positions(Operators))]
    /\ tokens_until_redirect_symbol' = count_tokens
    /\ ch_pc' = IF is_redirection' THEN "open" ELSE "exec"
    /\ UNCHANGED <<command, args, stdio, written>>

\* strsep looks for the character, so both > and >> end the search for either of them, and
\* the rest of the string, all of it, is the name.  The operator that was obeyed decides how
\* many characters are skipped, wherever the search ended.
filename ==
    LET hits == Positions(IF redirect_cmd = "<" THEN {"<"} ELSE {">", ">>"})
        at == Min(hits)
        rest == SubSeq(command, at + 1, Len(command))
    IN  IF command[at] = redirect_cmd THEN rest ELSE Garbled \o rest

\* fopen may fail, and fclose(NULL) crashes then; the file of > is emptied, that of >> kept.
solve_redirection ==
    /\ ch_pc = "open"
    /\ \/ /\ ch_pc' = "exec"
          /\ stdio' = IF redirect_cmd = "<" THEN [stdio EXCEPT !.in = filename]
                      ELSE [stdio EXCEPT !.out = filename]
          /\ written' = IF redirect_cmd = "<" THEN written
                        ELSE [name |-> filename,
                              mode |-> IF redirect_cmd = ">" THEN "emptied" ELSE "kept"]
       \/ ch_pc' = "crashed" /\ UNCHANGED <<stdio, written>>
    /\ UNCHANGED <<command, is_redirection, redirect_cmd, tokens_until_redirect_symbol, args>>

\* cmds is NULL at its end, in place of a last &, and behind the words that count.
cmds_to_null ==
    LET nulls == {tokens_until_redirect_symbol + 1}
                 \cup {k \in DOMAIN command : k = Len(command) /\ command[k] = "&"}
    IN  SubSeq(command, 1, Min(nulls) - 1)

execvp ==
    /\ ch_pc = "exec"
    /\ args' = cmds_to_null
    /\ ch_pc' \in {"program", "failed"}
    /\ UNCHANGED <<command, is_redirection, redirect_cmd, tokens_until_redirect_symbol, stdio,
                   written>>

ShNext == split_command \/ solve_redirection \/ execvp

-----------------------------------------------------------------------------
OnlyWords(s) == \A k \in DOMAIN s : s[k] \in Words

\* The command without the & at its end.
BeforeAmp == IF command[Len(command)] = "&" THEN SubSeq(command, 1, Len(command) - 1)
             ELSE command

\* Reference: a command of the form `words op name` runs words with that file as its input
\* or output; one without an operator keeps the terminal.
Wanted(symbol, words, name) ==
    /\ args = words
    /\ stdio = [in |-> IF symbol = "<" THEN name ELSE Terminal,
                out |-> IF symbol \in {">", ">>"} THEN name ELSE Terminal]
    /\ written.mode = CASE symbol = ">" -> "emptied" [] symbol = ">>" -> "kept" [] OTHER -> "none"

\* shell.c:352-381: no operator, no file name and no & reaches the program as an argument,
\* however many redirections the command has; with one redirection, to one name, the
\* program gets the words before it and exactly that file.
RedirectRight ==
    ch_pc \in {"program", "failed"} =>
        /\ args # << >> /\ OnlyWords(args) /\ IsPrefix(args, command)
        /\ Positions(Operators) = {} => Wanted("", BeforeAmp, << >>)
        /\ \A k \in DOMAIN command :
              (Positions(Operators) = {k} /\ k + 1 = Len(command) /\ command[k + 1] # "&") =>
                 Wanted(command[k], SubSeq(command, 1, k - 1), <<command[k + 1]>>)
=============================================================================
