------------------------------- MODULE Runners -------------------------------
(***************************************************************************)
(* Three programs that fork one child, exec a command in it and wait: time *)
(* and env of utilities_unleashed, and malloc's mcontest, whose timer      *)
(* thread kills a child that runs too long while main may be reaping it.   *)
(* A behaviour is a run of one of them.                                    *)
(***************************************************************************)
EXTENDS Integers, Sequences, SequencesExt, FiniteSetsExt

CONSTANTS
    Names,      \* names of environment variables
    Inherited,  \* the environment env is started in
    EnvArgs,    \* the arguments env may be given, in records [kind, key, val]
    MaxArgs     \* bound on their number

\* What an argument refers to is the name of a variable.
RunnersAssumption ==
    /\ MaxArgs \in Nat /\ \A a \in EnvArgs : a.kind = "ref" => a.val \in Names
    /\ Inherited \in [Names -> STRING]

NoEnv == "unset"

VARIABLES
    tool,                   \* "time", "env" or "mcontest"
    argv,                   \* env's arguments
    arg,                    \* i, env's position in them
    environ,                \* the environment of env's child
    parent,                 \* where main is
    child,                  \* the child: "none", "setup", "runs", "zombie" or "reaped"
    endless,                \* the command does not end by itself
    status,                 \* how the child ended
    child_still_running,    \* mcontest's flag
    timer,                  \* mcontest's timer thread
    report,                 \* what the program says of the child
    stray                   \* a signal was sent to a pid already reaped

rvars == <<tool, argv, arg, environ, parent, child, endless, status, child_still_running,
           timer, report, stray>>

RInit ==
    /\ tool \in {"time", "env", "mcontest"}
    /\ argv \in IF tool = "env" THEN SeqOf(EnvArgs, MaxArgs) ELSE {<<>>}
    /\ arg = 1
    /\ environ = Inherited
    /\ parent = "fork"
    /\ child = "none"
    /\ endless \in BOOLEAN
    /\ status = "none"
    /\ child_still_running = 1
    /\ timer = "none"
    /\ report = "none"
    /\ stray = FALSE

envvars == <<argv, arg, environ>>
timervars == <<child_still_running, timer, stray>>

\* env needs two arguments (argc < 3); the others are given a command here.
usage ==
    /\ parent = "fork" /\ tool = "env" /\ Len(argv) < 2
    /\ parent' = "done" /\ report' = "usage"
    /\ UNCHANGED <<tool, envvars, child, endless, status, timervars>>

\* print_fork_failed exits; mcontest does not test for -1.
fork ==
    /\ parent = "fork" /\ (tool = "env" => Len(argv) >= 2)
    /\ \/ /\ child' = "setup"
          /\ parent' = IF tool = "mcontest" THEN "create timer" ELSE "wait"
          /\ report' = report
       \/ /\ child' = child
          /\ parent' = IF tool = "mcontest" THEN "create timer" ELSE "done"
          /\ report' = IF tool = "mcontest" THEN report ELSE "fork failed"
    /\ UNCHANGED <<tool, envvars, endless, status, timervars>>

ChildExits(s) == child' = "zombie" /\ status' = s

\* The child of time and mcontest execs the command at once.
exec_command ==
    /\ child = "setup" /\ tool # "env"
    /\ \/ child' = "runs" /\ status' = status
       \/ ChildExits("failed")
    /\ UNCHANGED <<tool, envvars, parent, endless, timervars, report>>

getenv(name) == IF environ[name] = NoEnv THEN "" ELSE environ[name]

\* Mutant: the name of the reference is stored instead of its value.
value_unresolved(a) == a.val

\* What NAME=VALUE stores: a %REFERENCE stands for that variable's value.
value(a) == IF a.kind = "ref" THEN getenv(a.val) ELSE a.val

\* One turn of env's loop over its arguments, in the child.
env_argument ==
    /\ child = "setup" /\ tool = "env"
    /\ IF arg > Len(argv) THEN ChildExits("ok") /\ UNCHANGED <<arg, environ>>
       ELSE LET a == argv[arg]
            IN \/ /\ a.kind \in {"lit", "ref"}
                  /\ environ' = [environ EXCEPT ![a.key] = value(a)]
                  /\ arg' = arg + 1
                  /\ UNCHANGED <<child, status>>
               \* NAME=, =VALUE (which setenv refuses), and a word without '=' end it
               \/ /\ a.kind \in {"blank", "nameless", "word"}
                  /\ ChildExits("failed") /\ UNCHANGED <<arg, environ>>
               \/ /\ a.kind = "--" /\ arg + 1 > Len(argv)
                  /\ ChildExits("failed") /\ UNCHANGED <<arg, environ>>
               \/ /\ a.kind = "--" /\ arg + 1 <= Len(argv)
                  /\ \/ child' = "runs" /\ status' = status
                     \/ ChildExits("failed")
                  /\ UNCHANGED <<arg, environ>>
    /\ UNCHANGED <<tool, argv, parent, endless, timervars, report>>

\* The command ends, well or not, unless it is one that runs for ever.
command_ends ==
    /\ child = "runs" /\ ~endless
    /\ \E s \in {"ok", "failed", "signal"} : ChildExits(s)
    /\ UNCHANGED <<tool, envvars, parent, endless, timervars, report>>

\* mcontest's main: pthread_create, then the flag is set once more.
create_timer ==
    /\ parent = "create timer"
    /\ timer' = "sleep" /\ parent' = "set flag"
    /\ UNCHANGED <<tool, envvars, child, endless, status, child_still_running, report, stray>>

set_flag ==
    /\ parent = "set flag"
    /\ child_still_running' = 1 /\ parent' = "wait"
    /\ UNCHANGED <<tool, envvars, child, endless, status, timer, report, stray>>

\* waitpid, or wait4, which fails when fork did.
wait ==
    /\ parent = "wait"
    /\ \/ /\ child = "zombie" /\ child' = "reaped"
          /\ parent' = IF tool = "mcontest" THEN "clear flag" ELSE "print"
          /\ report' = report
       \/ /\ child = "none" /\ child' = child
          /\ parent' = "done" /\ report' = "wait failed"
    /\ UNCHANGED <<tool, envvars, endless, status, timervars>>

clear_flag ==
    /\ parent = "clear flag"
    /\ child_still_running' = 0 /\ parent' = "print"
    /\ UNCHANGED <<tool, envvars, child, endless, status, timer, report, stray>>

\* time prints the duration of a command that went well, mcontest how the child ended.
display_results == IF status = "ok" THEN "duration" ELSE "none"
print_stats == status

\* env prints nothing; then the process and its timer thread are gone.
print_and_exit ==
    /\ parent = "print"
    /\ report' = CASE tool = "time" -> display_results
                   [] tool = "env" -> "none"
                   [] tool = "mcontest" -> print_stats
    /\ parent' = "done" /\ timer' = "gone"
    /\ UNCHANGED <<tool, envvars, child, endless, status, child_still_running, stray>>

\* The timer thread wakes up and tests the flag; the kill is a later step.
timeout_test ==
    /\ timer = "sleep" /\ parent # "done"
    /\ timer' = IF child_still_running = 1 THEN "kill" ELSE "done"
    /\ UNCHANGED <<tool, envvars, parent, child, endless, status, child_still_running,
                   report, stray>>

\* SIGTERM ends the child, but a command may ignore it.
timeout_kill ==
    /\ timer = "kill" /\ parent # "done"
    /\ timer' = "done"
    /\ \/ child \in {"setup", "runs"} /\ ChildExits("signal")
       \/ child # "setup" /\ UNCHANGED <<child, status>>
    /\ stray' = (stray \/ child = "reaped")
    /\ UNCHANGED <<tool, envvars, parent, endless, child_still_running, report>>

ParentStep == usage \/ fork \/ create_timer \/ set_flag \/ wait \/ clear_flag \/ print_and_exit
ChildStep == exec_command \/ env_argument \/ command_ends
TimerStep == timeout_test \/ timeout_kill

-----------------------------------------------------------------------------
\* The value a reader of the arguments 1..k gives to name: the last assignment to it
\* counts, and a reference is read with the assignments before it; the rest is inherited.
Meaning[k \in 0 .. Len(argv)] == [name \in Names |->
    IF k = 0 THEN Inherited[name]
    ELSE IF argv[k].kind \notin {"lit", "ref"} \/ argv[k].key # name THEN Meaning[k - 1][name]
    ELSE IF argv[k].kind = "lit" THEN argv[k].val
    ELSE IF Meaning[k - 1][argv[k].val] = NoEnv THEN "" ELSE Meaning[k - 1][argv[k].val]]

\* env.c:29-69, time.c:41-54 and mcontest.c:106-163: env's command runs only after
\* well-formed assignments and a "--", in the environment they mean; time gives a
\* duration only, and mcontest an OK only, for a command that ran and exited with 0.
RunnersRight ==
    /\ tool = "env" /\ (child = "runs" \/ status = "signal") =>
        /\ arg < Len(argv) /\ argv[arg].kind = "--"
        /\ \A k \in 1 .. arg - 1 : argv[k].kind \in {"lit", "ref"}
        /\ environ = Meaning[arg - 1]
    /\ report = "duration" => status = "ok"
    /\ tool = "mcontest" /\ report = "ok" => ~endless /\ child = "reaped"

\* mcontest.c:99-151: mcontest ends, also when the command would not, unless it survives
\* SIGTERM; time and env end when the command does.  The property says that this comes about.
RunnersEnded ==
    tool = "mcontest" \/ ~endless =>
        parent = "done" \/ (endless /\ timer = "done" /\ child = "runs")
=============================================================================
