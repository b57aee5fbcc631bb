--------------------------- MODULE ParMakeProgram ---------------------------
(***************************************************************************)
(* The three parts of parmake for TLC: a behaviour parses a makefile       *)
(* (ParMakeParser), searches and orders the rules of a graph               *)
(* (ParMakeOrder), or runs the workers (ParMake) from a vector in such an  *)
(* order.  Each part starts from every result the one before it can have.  *)
(***************************************************************************)
EXTENDS ParMake

CONSTANTS N, MaxGoals, MaxLines

\* Rule lines with spaces, comments and a second target; recipe lines with comments and
\* quotes; lines that are blank, only a comment, or begin no target.
MakefileLines ==
    {<<"a", ":", " ", "b", " ", "#", "c">>, <<"a", ":">>,
     <<" ", "b", " ", "c", ":", "a", " ", " ", "c">>,
     <<"\t", "a", "#">>, <<"\t", "b", " ", "#", "c">>, <<"\t", "\"", "#", "\"">>,
     <<"\t", "\\", "\"", "#", "a">>, <<"\t", " ">>, <<"#", "a">>, <<"%">>, <<"a", "b">>}
RecipeLines == {<<"a", ":">>, <<" ", "b", " ", "c", ":", "a", " ", " ", "c">>,
                <<"\t", "a", "#">>, <<"\t", "\"", "#", "\"">>, <<"#", "a">>}
GoalLists == {<< >>, <<<<"a">>>>, <<<<"b">>, <<"a">>>>, <<<<"c">>>>}
OptionLists == {<< >>, <<<<"j", 2>>>>, <<<<"j", 0>>>>, <<<<"f", "other">>, <<"j", 3>>>>}

VARIABLES
    half,                                                           \* the part that runs
    children, vertices, goals, k, mp, reported, found, phase,       \* of ParMakeOrder
    argv, text, makefile, num_threads, line_number, curr_rule, in_command_block,
    first_target, graph, pm_pc, exit_code                           \* of ParMakeParser

ordervars == <<children, vertices, goals, k, mp, reported, found, phase>>
parservars == <<argv, text, makefile, num_threads, line_number, curr_rule, in_command_block,
                first_target, graph, pm_pc, exit_code>>
allvars == <<half, makevars, ordervars, parservars>>

Order == INSTANCE ParMakeOrder WITH rules <- found
Parser == INSTANCE ParMakeParser
    WITH Lines <- MakefileLines, PlainLines <- RecipeLines, GoalArgs <- GoalLists, OptionArgs <- OptionLists

ASSUME ProgramAssumption == Order!OrderAssumption

ParserIdle ==
    /\ argv = {} /\ text = {} /\ makefile = {} /\ num_threads = {} /\ line_number = {}
    /\ curr_rule = {} /\ in_command_block = {} /\ first_target = {} /\ graph = {}
    /\ pm_pc = "idle" /\ exit_code = {}

WorkersIdle ==
    /\ deps = [r \in Rules |-> {}] /\ outcome = [r \in Rules |-> "ok"]
    /\ mtime = [r \in Rules |-> 0] /\ descending = FALSE
    /\ MakeInit

OrderIdle == children = [n \in 1 .. N |-> {}] /\ goals = <<1>> /\ Order!Init

OInit ==
    \/ half = "parser" /\ Parser!PInit /\ OrderIdle /\ WorkersIdle
    \/ half = "order" /\ Order!Init /\ ParserIdle /\ WorkersIdle
    \/ half = "workers" /\ MakeInit /\ ParserIdle /\ OrderIdle

WorkerStep(t) == half = "workers" /\ MakerStep(t) /\ UNCHANGED <<half, ordervars, parservars>>

ONext ==
    \/ \E t \in Makers : WorkerStep(t)
    \/ /\ half = "workers" /\ \E t \in Makers : MakerWakes(t)
       /\ UNCHANGED <<half, ordervars, parservars>>
    \/ half = "order" /\ Order!Next /\ UNCHANGED <<half, makevars, parservars>>
    \/ half = "parser" /\ Parser!PNext /\ UNCHANGED <<half, makevars, ordervars>>
    \/ half = "workers" /\ MakersDone /\ UNCHANGED allvars
    \/ half = "parser" /\ pm_pc \in {"parsed", "exit"} /\ UNCHANGED allvars

OSpec == OInit /\ [][ONext]_allvars /\ \A t \in Makers : WF_allvars(WorkerStep(t))

-----------------------------------------------------------------------------
\* All workers leave; see WorkersExit of module ParMake.
AllWorkersExit == half = "workers" => WorkersExit

\* parmake.c:246-322, 342-398: the cycle search reports exactly the goals that cannot be
\* made, and the vector of rules has every rule after its dependencies; see ParMakeOrder.
OrderRight == Order!ReportsDoomedGoals /\ Order!TopologicalOrder

\* parser.c:181-329: the graph says what the makefile says; see module ParMakeParser.
ParserRight == half = "parser" => Parser!ParserRight
=============================================================================
