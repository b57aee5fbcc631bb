--------------------------- MODULE ParMakeParser ----------------------------
(***************************************************************************)
(* parallel_make/parser.c, rule.c and parmake_main.c: the command line,    *)
(* the choice of the makefile, and the pass over its lines that builds the *)
(* dependency graph parmake() works on.                                    *)
(*                                                                         *)
(* A line is a sequence of characters of which only the ones the parser    *)
(* tells apart matter: tab, space, '#', '"', '\', ':', letters that begin  *)
(* a target, and "%", which begins none.  A name and a command are         *)
(* sequences of such characters; the sentinel vertex "" is << >>.          *)
(***************************************************************************)
EXTENDS Integers, Sequences, FiniteSets, SequencesExt, FiniteSetsExt

CONSTANTS
    Lines,          \* the lines a makefile is put together from
    MaxLines,       \* bound on the lines of a makefile
    PlainLines,     \* the lines of the makefiles that are one line longer
    GoalArgs,       \* the lists of goals on the command line
    OptionArgs      \* the lists of options: <<"f", file>> or <<"j", value>>

VARIABLES
    argv,           \* [options, goals, readable]: the command line and the files at hand
    text,           \* the lines of the makefile
    makefile, num_threads,
    line_number,    \* lines read so far
    curr_rule,      \* the target of the current rule; NoTarget is NULL
    in_command_block,
    first_target,
    graph,          \* [rules, edges]: the rule of every vertex, and the dependencies
    pm_pc, exit_code

parservars == <<argv, text, makefile, num_threads, line_number, curr_rule,
                in_command_block, first_target, graph, pm_pc, exit_code>>

NoTarget == <<"NULL">>
NoFile == ""
Sentinel == << >>
TAB == "\t"
isspace(c) == c \in {TAB, " "}
is_makefile_target(line) == line[1] \in {"a", "b", "c", ".", "/"}

\* rule_init, called by the graph for every new vertex.
rule_init == [commands |-> << >>, state |-> 0]

graph_create == [rules |-> (Sentinel :> rule_init), edges |-> {}]

add_vertex(g, v) ==
    IF v \in DOMAIN g.rules THEN g ELSE [g EXCEPT !.rules = (v :> rule_init) @@ @]

-----------------------------------------------------------------------------
(* Taking a line apart.                                                    *)

strip_back_whitespace(s) ==
    SubSeq(s, 1, Max({0} \cup {i \in DOMAIN s : ~isspace(s[i])}))

skip_whitespace(s) ==
    SubSeq(s, Min({Len(s) + 1} \cup {i \in DOMAIN s : ~isspace(s[i])}), Len(s))

terminate_whitespace(s) ==
    SubSeq(s, 1, Min({Len(s) + 1} \cup {i \in DOMAIN s : isspace(s[i])}) - 1)

\* The scan up to position p: a backslash takes the next character with it.
in_quotes(s, p) ==
    LET scan[i \in Nat] ==
          IF i >= p THEN FALSE
          ELSE IF s[i] = "\\" THEN scan[i + 2]
          ELSE IF s[i] = "\"" THEN ~scan[i + 1] ELSE scan[i + 1]
    IN  scan[1]

\* The first '#' outside quotes begins the comment.
strip_back_comments(s) ==
    SubSeq(s, 1, Min({Len(s) + 1} \cup {i \in DOMAIN s : s[i] = "#" /\ ~in_quotes(s, i)}) - 1)

\* The tokens: the longest runs without a space.
split_line_on_spaces(s) ==
    {SubSeq(s, r[1], r[2]) : r \in {x \in (DOMAIN s) \X (DOMAIN s) :
        /\ x[1] <= x[2] /\ \A i \in x[1] .. x[2] : s[i] # " "
        /\ x[1] = 1 \/ s[x[1] - 1] = " "
        /\ x[2] = Len(s) \/ s[x[2] + 1] = " "}}

-----------------------------------------------------------------------------
(* The steps of the program.                                               *)

PInit ==
    /\ argv \in [options : OptionArgs, goals : GoalArgs,
                 readable : {{"makefile"}, {"Makefile"}, {"makefile", "other"}, {}}]
    /\ text \in UNION {[1 .. n -> Lines] : n \in 0 .. MaxLines}
                  \cup [1 .. MaxLines + 1 -> PlainLines]
    \* The command line varies for the short makefiles only.
    /\ Len(text) > 1 => argv.options = << >> /\ argv.readable = {"makefile"}
    /\ makefile = NoFile /\ num_threads = 1
    /\ line_number = 0 /\ curr_rule = NoTarget /\ in_command_block = FALSE
    /\ first_target = NoTarget /\ graph = graph_create
    /\ pm_pc = "args" /\ exit_code = 0

exit(code) == pm_pc' = "exit" /\ exit_code' = code

\* parse_args: getopt's loop stops at a -j that is no positive integer.
parse_args ==
    /\ pm_pc = "args"
    /\ LET o == argv.options
           bad == {i \in DOMAIN o : o[i][1] = "j" /\ o[i][2] < 1}
           last(k) == {i \in DOMAIN o : o[i][1] = k}
       IN  IF bad # {}
           THEN exit(2) /\ UNCHANGED <<makefile, num_threads>>
           ELSE /\ num_threads' = IF last("j") = {} THEN 1 ELSE o[Max(last("j"))][2]
                /\ makefile' = IF last("f") # {} THEN o[Max(last("f"))][2]
                               ELSE IF "makefile" \in argv.readable THEN "makefile"
                               ELSE IF "Makefile" \in argv.readable THEN "Makefile" ELSE NoFile
                /\ pm_pc' = "open" /\ UNCHANGED exit_code
    /\ UNCHANGED <<argv, text, line_number, curr_rule, in_command_block, first_target, graph>>

open_makefile ==
    /\ pm_pc = "open"
    /\ IF makefile \in argv.readable THEN pm_pc' = "lines" /\ UNCHANGED exit_code ELSE exit(2)
    /\ UNCHANGED <<argv, text, makefile, num_threads, line_number, curr_rule,
                   in_command_block, first_target, graph>>

\* Mutant: a second recipe is added to the first.
push_command_keep(r, cmd) ==
    [commands |-> Append(r.commands, cmd),
     state |-> IF in_command_block THEN r.state ELSE line_number + 1]

\* The first command of a block takes the place of an earlier recipe.
push_command(r, cmd) ==
    [commands |-> Append(IF ~in_command_block /\ r.state # 0 THEN << >> ELSE r.commands, cmd),
     state |-> IF in_command_block THEN r.state ELSE line_number + 1]

recipe_line(line) ==
    IF curr_rule = NoTarget
    THEN exit(2) /\ UNCHANGED <<curr_rule, in_command_block, first_target, graph>>
    ELSE /\ graph' = [graph EXCEPT !.rules[curr_rule] = push_command(@, line)]
         /\ in_command_block' = TRUE
         /\ UNCHANGED <<curr_rule, first_target, pm_pc, exit_code>>

target_line(line) ==
    LET colons == {i \in DOMAIN line : line[i] = ":"}
        target == terminate_whitespace(SubSeq(line, 1, Min(colons) - 1))
        deps == split_line_on_spaces(SubSeq(line, Min(colons) + 1, Len(line)))
        new == target \notin DOMAIN graph.rules
        vertices(g) == [rules |-> [v \in DOMAIN g.rules \cup deps |->
                                     IF v \in DOMAIN g.rules THEN g.rules[v] ELSE rule_init],
                        edges |-> g.edges \cup {<<target, d>> : d \in deps}]
    IN  /\ in_command_block' = FALSE
        /\ IF colons = {}
           THEN curr_rule' = NoTarget /\ exit(2) /\ UNCHANGED <<first_target, graph>>
           ELSE /\ curr_rule' = target
                /\ graph' = vertices(add_vertex(graph, target))
                /\ first_target' = IF new /\ first_target = NoTarget THEN target ELSE first_target
                /\ UNCHANGED <<pm_pc, exit_code>>

\* One turn of the loop over the lines.
parse_line ==
    /\ pm_pc = "lines" /\ line_number < Len(text)
    /\ line_number' = line_number + 1
    /\ LET lineBuf == strip_back_whitespace(text[line_number + 1])
           line == strip_back_comments(skip_whitespace(lineBuf))
       IN  IF line = << >>
           THEN UNCHANGED <<curr_rule, in_command_block, first_target, graph, pm_pc, exit_code>>
           ELSE IF lineBuf[1] = TAB THEN recipe_line(line)
           ELSE IF is_makefile_target(line) THEN target_line(line)
           ELSE exit(2) /\ UNCHANGED <<curr_rule, in_command_block, first_target, graph>>
    /\ UNCHANGED <<argv, text, makefile, num_threads>>

zero_out_states(g) == [g EXCEPT !.rules = [v \in DOMAIN @ |-> [@[v] EXCEPT !.state = 0]]]

\* The goals, or the first target, become the neighbours of the sentinel.
set_goals ==
    /\ pm_pc = "lines" /\ line_number = Len(text)
    /\ LET goals == IF argv.goals = << >> THEN <<first_target>> ELSE argv.goals
       IN  IF goals = <<NoTarget>> THEN exit(2) /\ UNCHANGED graph
           ELSE IF Range(goals) \subseteq DOMAIN graph.rules
           THEN /\ graph' = zero_out_states([graph EXCEPT
                               !.edges = @ \cup {<<Sentinel, t>> : t \in Range(goals)}])
                /\ pm_pc' = "parsed" /\ UNCHANGED exit_code
           ELSE exit(1) /\ UNCHANGED graph
    /\ UNCHANGED <<argv, text, makefile, num_threads, line_number, curr_rule,
                   in_command_block, first_target>>

PNext == parse_args \/ open_makefile \/ parse_line \/ set_goals

-----------------------------------------------------------------------------
(* What a makefile means, read off the whole text.                         *)

\* A quote counts when an even number of backslashes stands before it.
Quotes(s) == {i \in DOMAIN s : s[i] = "\"" /\
                LET plain == {0} \cup {j \in 1 .. i - 1 : s[j] # "\\"}
                IN  (i - 1 - Max(plain)) % 2 = 0}
Comments(s) == {i \in DOMAIN s : s[i] = "#" /\ Cardinality({q \in Quotes(s) : q < i}) % 2 = 0}
Ink(s) == {i \in DOMAIN s : ~isspace(s[i]) /\ \A c \in Comments(s) : i < c}

IsRecipe(i) == Ink(text[i]) # {} /\ text[i][1] = TAB
IsTarget(i) == Ink(text[i]) # {} /\ text[i][1] # TAB
TargetOf(i) ==
    LET s == text[i]
        a == Min(Ink(s))
        b == Min({j \in DOMAIN s : j > a /\ (s[j] = ":" \/ isspace(s[j]))})
    IN  SubSeq(s, a, b - 1)
\* What the rule line names between its colon and its end or comment.
DepsOf(i) ==
    LET s == text[i]
        end == Min({Max({j \in DOMAIN s : ~isspace(s[j])}) + 1} \cup Comments(s))
    IN  split_line_on_spaces(SubSeq(s, Min({j \in DOMAIN s : s[j] = ":"}) + 1, end - 1))
OwnerOf(i) == Max({j \in 1 .. i : IsTarget(j)})
Recipes(v) == {i \in DOMAIN text : IsRecipe(i) /\ TargetOf(OwnerOf(i)) = v}
\* The command of a recipe line keeps the blanks before its comment.
CommandAt(i) ==
    LET s == text[i]
        e == Min({Max({j \in DOMAIN s : ~isspace(s[j])}) + 1} \cup Comments(s))
    IN  SubSeq(s, Min(Ink(s)), e - 1)

\* parser.c:181-329: when the makefile is accepted, every rule has the commands of the last of
\* its recipes and nothing of an earlier one, in the order of the lines, with comments (a '#'
\* outside quotes) gone, and depends on what any of its rule lines names; the goals are the
\* ones asked for, or the target of the first rule; every vertex starts the build with
\* state 0; and there is a makefile to read and a thread to work.
ParserRight ==
    pm_pc = "parsed" =>
      /\ \A v \in DOMAIN graph.rules \ {Sentinel} :
           LET lines == Recipes(v)
               block == {i \in lines : OwnerOf(i) = OwnerOf(Max(lines))}
               order == SetToSortSeq(block, <)
           IN  graph.rules[v].commands = [n \in DOMAIN order |-> CommandAt(order[n])]
      /\ {e[2] : e \in {x \in graph.edges : x[1] = Sentinel}} =
           IF argv.goals # << >> THEN Range(argv.goals)
           ELSE {TargetOf(Min({i \in DOMAIN text : IsTarget(i)}))}
      /\ \A v \in DOMAIN graph.rules : graph.rules[v].state = 0
      /\ {e \in graph.edges : e[1] # Sentinel} =
           UNION {{TargetOf(i)} \X DepsOf(i) : i \in {j \in DOMAIN text : IsTarget(j)}}
      /\ {e[1] : e \in graph.edges} \cup {e[2] : e \in graph.edges} \subseteq DOMAIN graph.rules
      /\ num_threads >= 1 /\ makefile \in argv.readable
=============================================================================
