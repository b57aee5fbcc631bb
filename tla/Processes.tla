----------------------------- MODULE Processes -----------------------------
(***************************************************************************)
(* The programs of the repository that fork for TLC: the shell, with what  *)
(* its child does before exec, mapreduce and its splitters, mappers and    *)
(* reducer, and the three programs that run one command, time, env and     *)
(* mcontest.  They share nothing, so a behaviour exercises one of them,    *)
(* its focus, and the others stay idle.                                    *)
(***************************************************************************)
EXTENDS Shell

CONSTANTS
    Foci,        \* the programs that a run looks at
    Texts, PortionTexts, NMappers, PipeCap, RedCap, StdioBuf,
    Names, Inherited, EnvArgs, MaxArgs

\* The values of Texts, PortionTexts, Inherited and EnvArgs; "n" is the newline.  The second text has
\* a colon, which the reducer splits at, and an empty line; the records of the third and the
\* fourth are torn by stdio, those of the fourth with nobody to write in between.
MCTexts ==
    {<<"a", "n", "b", "n", "a">>, <<"a", " ", "b", "n", "b", ":", "n", "n", "a", "n">>,
     <<"a", "b", "a", "n", "b">>, <<"a", "b", "a">>, << >>}
MCPortionTexts == UNION {[1 .. k -> {"a", "n"}] : k \in 0 .. 6}
MCInherited == [A |-> "unset", B |-> "y"]
MCEnvArgs ==
    {[kind |-> "lit", key |-> "A", val |-> "x"], [kind |-> "ref", key |-> "B", val |-> "A"],
     [kind |-> "ref", key |-> "A", val |-> "B"], [kind |-> "blank", key |-> "A", val |-> ""],
     [kind |-> "word", key |-> "", val |-> ""], [kind |-> "--", key |-> "", val |-> ""]}

VARIABLES
    focus,                                          \* the program that runs
    text, mapper, fault, main, proc, fds, lines, pipe, outbuf, red, store, blocks,
    output,                                         \* of mapreduce
    tool, argv, arg, environ, parent, run_child, endless, run_status, child_still_running,
    timer, report, stray                            \* of time, env and mcontest

mrvars    == <<text, mapper, fault, main, proc, fds, lines, pipe, outbuf, red, store, blocks,
               output>>
rvars     == <<tool, argv, arg, environ, parent, run_child, endless, run_status,
               child_still_running, timer, report, stray>>
allvars   == <<focus, vars, childvars, mrvars, rvars>>

Mr  == INSTANCE MapReduce WITH todo <- lines
Run == INSTANCE Runners WITH child <- run_child, status <- run_status

ASSUME FociAssumption == Foci \subseteq {"shell", "shell child", "mapreduce", "runners"}
ASSUME ProcessesAssumption == Mr!MapReduceAssumption /\ Run!RunnersAssumption

ChiIdle == /\ command = {} /\ ch_pc = {} /\ is_redirection = {} /\ redirect_cmd = {}
           /\ tokens_until_redirect_symbol = {} /\ args = {} /\ stdio = {} /\ written = {}
MrIdle  == /\ text = {} /\ mapper = {} /\ fault = "idle" /\ main = <<"idle", 0>>
           /\ proc = [p \in Mr!Children |-> "idle"] /\ fds = {} /\ lines = {} /\ pipe = {}
           /\ outbuf = {} /\ red = {} /\ store = {} /\ blocks = {} /\ output = {}
RunIdle == /\ tool = "idle" /\ argv = {} /\ arg = {} /\ environ = {} /\ parent = "idle"
           /\ run_child = {} /\ endless = FALSE /\ run_status = {}
           /\ child_still_running = {} /\ timer = {} /\ report = {} /\ stray = {}

NoFile == file = << >>

PrInit ==
    /\ focus \in Foci
    /\ \/ focus = "shell" /\ Init /\ ChiIdle /\ MrIdle /\ RunIdle
       \/ focus = "shell child" /\ Init /\ NoFile /\ ShInit /\ MrIdle /\ RunIdle
       \/ focus = "mapreduce" /\ Init /\ NoFile /\ ChiIdle /\ Mr!MRInit /\ RunIdle
       \/ focus = "runners" /\ Init /\ NoFile /\ ChiIdle /\ MrIdle /\ Run!RInit

ShellFrame == UNCHANGED <<focus, childvars, mrvars, rvars>>
MrFrame    == UNCHANGED <<focus, vars, childvars, rvars>>
RunFrame   == UNCHANGED <<focus, vars, childvars, mrvars>>

ShellChldHandler ==
    focus = "shell" /\ ChldHandler /\ ShellFrame
ShellIntHandler ==
    focus = "shell" /\ IntHandler /\ ShellFrame
ShellWork  == focus = "shell" /\ Work /\ ShellFrame
MrMain     == focus = "mapreduce" /\ Mr!MainStep /\ MrFrame
MrChild(p) == focus = "mapreduce" /\ Mr!ChildStep(p) /\ MrFrame
RunParent  == focus = "runners" /\ Run!ParentStep /\ RunFrame
RunChild   == focus = "runners" /\ Run!ChildStep /\ RunFrame
RunTimer   == focus = "runners" /\ Run!TimerStep /\ RunFrame

PrNext ==
    \/ ShellChldHandler \/ ShellIntHandler \/ ShellWork
    \/ /\ focus = "shell"
       /\ (\E p \in Pids : Exec(p) \/ Die(p)) \/ IntArrives \/ Typed
       /\ ShellFrame
    \/ /\ focus = "shell child" /\ ShNext
       /\ UNCHANGED <<focus, vars, mrvars, rvars>>
    \/ MrMain
    \/ \E p \in Mr!Children : MrChild(p)
    \/ RunParent \/ RunChild \/ RunTimer

\* Every process and thread is scheduled again and again, and pending signals are delivered;
\* the shell's children and its user owe nothing.
PrSpec ==
    /\ PrInit /\ [][PrNext]_allvars
    /\ WF_allvars(ShellChldHandler) /\ WF_allvars(ShellIntHandler) /\ WF_allvars(ShellWork)
    /\ WF_allvars(MrMain) /\ \A p \in Mr!Children : WF_allvars(MrChild(p))
    /\ WF_allvars(RunParent) /\ WF_allvars(RunChild) /\ WF_allvars(RunTimer)

-----------------------------------------------------------------------------
\* shell.c:141, 155, 199, 218, 434 and 847: a child that lives is in the table, a foreground
\* command is over before the next one starts, and an orderly end of the shell leaves no
\* child alone, wherever the handlers ran, until one of them makes the shell erase the
\* wrong entry, after which nothing is claimed; see module Shell.
ChildrenKept == ChildrenTracked /\ ForegroundAlone /\ EndsClean

\* mapreduce.c:49-133, splitter.c:20-60, reducer.c:22-60: the output counts every record of
\* the input under its key, however the processes interleave, unless the records of a line
\* are too long for one write; see module MapReduce.
ReducedRight == focus = "mapreduce" => Mr!ReducedRight

\* mapreduce.c:53-148: no process of mapreduce waits for an end of file that cannot come.
\* mcontest.c:99-151: mcontest ends although the command may not, if SIGTERM ends the command;
\* time and env end with theirs.
ProgramsEnd ==
    <>(/\ focus = "mapreduce" => Mr!MapReduceEnded
       /\ focus = "runners" => Run!RunnersEnded)

\* env.c:29-69, time.c:41-54, mcontest.c:106-163, shell.c:352-381: the command runs with the
\* arguments, the environment and the files its command line means, and success is reported
\* only for a command that ran and exited with 0; see modules Runners and Shell.
CommandsRight ==
    /\ focus = "runners" => Run!RunnersRight
    /\ focus = "shell child" => RedirectRight
=============================================================================
