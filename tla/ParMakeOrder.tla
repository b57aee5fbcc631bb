---------------------------- MODULE ParMakeOrder ----------------------------
(***************************************************************************)
(* parallel_make/parmake.c, the sequential part of parmake(): the tricolor *)
(* search reports the goals that run into a cycle, the grey vertices are   *)
(* removed, and a depth-first walk from the remaining goals fills the      *)
(* vector "rules".  Every graph over 1 .. N and every list of goals is an  *)
(* initial state; neighbours are visited in ascending order.               *)
(***************************************************************************)
EXTENDS Integers, Sequences, FiniteSets, SequencesExt

CONSTANTS N, MaxGoals

OrderAssumption == N \in Nat \ {0} /\ MaxGoals \in 1 .. N

Nodes == 1 .. N

VARIABLES
    children,   \* graph_neighbors of every vertex
    vertices,   \* the vertices still in the graph
    goals,      \* the goal rules: the neighbours of ""
    k,          \* goals searched so far
    mp,         \* colours: 0 white, 1 grey, 2 black
    reported,   \* goals passed to print_cycle_failure
    rules,      \* the vector the workers take rules from
    phase

vars == <<children, vertices, goals, k, mp, reported, rules, phase>>

GoalLists == {g \in UNION {[1 .. n -> Nodes] : n \in 1 .. MaxGoals} :
                \A x, y \in DOMAIN g : g[x] = g[y] => x = y}

Init ==
    /\ children \in [Nodes -> SUBSET Nodes]
    /\ vertices = Nodes
    /\ goals \in GoalLists
    /\ k = 0
    /\ mp = [n \in Nodes |-> 0]
    /\ reported = {}
    /\ rules = << >>
    /\ phase = "search"

Neighbours(v) == SetToSortSeq(children[v] \cap vertices, <)

RECURSIVE tricolor(_, _), TriChildren(_, _)

\* Mutant: a vertex is finished (black) even when its search ran into a cycle.
tricolor_black(m, v) ==
    IF m[v] = 1 THEN [m |-> m, cycle |-> TRUE]
    ELSE IF m[v] = 2 THEN [m |-> m, cycle |-> FALSE]
    ELSE LET r == TriChildren([m EXCEPT ![v] = 1], Neighbours(v)) IN
         [m |-> [r.m EXCEPT ![v] = 2], cycle |-> r.cycle]

\* tricolor(mp, target): the new colours and TRUE if a cycle was found.
tricolor(m, v) ==
    IF m[v] = 1 THEN [m |-> m, cycle |-> TRUE]
    ELSE IF m[v] = 2 THEN [m |-> m, cycle |-> FALSE]
    ELSE LET r == TriChildren([m EXCEPT ![v] = 1], Neighbours(v)) IN
         IF r.cycle THEN r ELSE [m |-> [r.m EXCEPT ![v] = 2], cycle |-> FALSE]

\* The loop over the children.
TriChildren(m, s) ==
    IF s = << >> THEN [m |-> m, cycle |-> FALSE]
    ELSE LET r == tricolor(m, Head(s)) IN
         IF r.cycle THEN r ELSE TriChildren(r.m, Tail(s))

\* get_rules(cnt, targets): every target after all its dependencies.
RECURSIVE get_rules(_, _)
get_rules(s, targets) ==
    IF targets = << >> THEN s
    ELSE LET v == Head(targets)
             s1 == get_rules(s, Neighbours(v))
             s2 == IF v \in ToSet(s1) THEN s1 ELSE Append(s1, v)
         IN  get_rules(s2, Tail(targets))

\* A vertex of the graph that is one of the goal rules.
get_goal_rule(v) == Contains(goals, v)

-----------------------------------------------------------------------------
\* One goal of the loop that looks for cycles.
Search ==
    /\ phase = "search"
    /\ k < Len(goals)
    /\ k' = k + 1
    /\ LET r == tricolor(mp, goals[k + 1]) IN
         /\ mp' = r.m
         /\ reported' = IF r.cycle THEN reported \cup {goals[k + 1]} ELSE reported
    /\ UNCHANGED <<children, vertices, goals, rules, phase>>

\* The grey vertices leave the graph.
Prune ==
    /\ phase = "search"
    /\ k = Len(goals)
    /\ vertices' = {n \in Nodes : mp[n] # 1}
    /\ phase' = "order"
    /\ UNCHANGED <<children, goals, k, mp, reported, rules>>

\* The goals that are left, in the order in which the dictionary lists its
\* keys, and everything they depend on.
Order ==
    /\ phase = "order"
    /\ \E valid \in SetToSeqs({v \in vertices : get_goal_rule(v)}) :
          rules' = get_rules(<< >>, valid)
    /\ phase' = "done"
    /\ UNCHANGED <<children, vertices, goals, k, mp, reported>>

Next == Search \/ Prune \/ Order \/ (phase = "done" /\ UNCHANGED vars)
Spec == Init /\ [][Next]_vars

-----------------------------------------------------------------------------
\* Reference definitions: reachability in the Makefile's graph.
Reachable(S) ==
    LET r[x \in 0 .. N] == IF x = 0 THEN S ELSE r[x - 1] \cup UNION {children[v] : v \in r[x - 1]}
    IN  r[N]
Doomed(v) == \E w \in Reachable({v}) : w \in Reachable(children[w])

\* print_cycle_failure is called for exactly the goals that depend, directly or
\* not, on a rule in a cycle: the colours left behind by one goal's failed
\* search never condemn or save another goal.
ReportsDoomedGoals ==
    \A x \in 1 .. k : goals[x] \in reported <=> Doomed(goals[x])

\* "rules" holds each rule the good goals need exactly once, dependencies
\* first, and nothing else; a good goal loses no dependency to the pruning.
TopologicalOrder ==
    phase = "done" =>
        LET good == {v \in ToSet(goals) : ~Doomed(v)} IN
        /\ ToSet(rules) = Reachable(good)
        /\ \A x, y \in 1 .. Len(rules) :
              /\ rules[x] = rules[y] => x = y
              /\ rules[y] \in children[rules[x]] => y < x
=============================================================================
