--------------------------------- MODULE Drm ---------------------------------
(***************************************************************************)
(* deadlock_demolition/libdrm.c: deadlock-resistant mutexes.  All calls    *)
(* share one resource allocation graph g (an edge from a drm to its owner, *)
(* an edge from a thread to the drm it wants) and one global set "visited" *)
(* of the depth-first search.  m_global guards both, but drm_wait gives it *)
(* up while it blocks on the drm, and resets visited only afterwards.      *)
(***************************************************************************)
EXTENDS Integers, FiniteSets

CONSTANTS
    Threads,
    Drms,
    None        \* no owner, no drm

DrmAssumption == None \notin Threads \cup Drms /\ Threads \cap Drms = {}

VARIABLES
    vertices,   \* the vertices of g
    edges,      \* the edges of g, as pairs
    visited,    \* the global set of the search ({}: NULL or empty)
    owner,      \* who holds each drm's pthread mutex
    pc,         \* "idle", "block" (at pthread_mutex_lock(&drm->m)), "got" it
    want,       \* the drm of the drm_wait in progress
    result      \* history: the last result of each thread, and whether the
                \* header's description of that result was true of the graph

vars == <<vertices, edges, visited, owner, pc, want, result>>

Init ==
    /\ vertices = {}
    /\ edges = {}
    /\ visited = {}
    /\ owner = [d \in Drms |-> None]
    /\ pc = [t \in Threads |-> "idle"]
    /\ want = [t \in Threads |-> None]
    /\ result = [t \in Threads |-> [call |-> "none", value |-> 0, true |-> TRUE]]

Succ(E, S) == {e[2] : e \in {x \in E : x[1] \in S}}

\* Nodes that can be reached from node in E without entering "avoid".
Reach(E, node, avoid) ==
    LET r[i \in 0 .. Cardinality(Threads) + Cardinality(Drms)] ==
          IF i = 0 THEN {node} ELSE r[i - 1] \cup (Succ(E, r[i - 1]) \ avoid)
    IN  r[Cardinality(Threads) + Cardinality(Drms)]

\* A cycle through node: what the search is meant to find.
OnCycle(E, node) == \E n \in Succ(E, {node}) : node \in Reach(E, n, {})

\* has_cycle(g, node): the recursion only enters nodes that are not yet in
\* visited, so no recursive call ever answers 1.  The answer is 1 exactly when
\* node itself was in visited before the call; otherwise the search adds what
\* it reaches.
HasCycle(node) == node \in visited
Searched(E, node) == IF HasCycle(node) THEN visited
                     ELSE visited \cup Reach(E, node, visited)

-----------------------------------------------------------------------------
drm_init(d) ==
    /\ d \notin vertices
    /\ vertices' = vertices \cup {d}
    /\ UNCHANGED <<edges, visited, owner, pc, want, result>>

\* drm_post(drm, thread_id)
drm_post(d, t) ==
    LET known == {d, t} \subseteq vertices
        owns == known /\ <<d, t>> \in edges IN
    /\ pc[t] = "idle"
    /\ d \in vertices      \* drm points to a drm that exists
    /\ edges' = IF owns THEN edges \ {<<d, t>>} ELSE edges
    /\ owner' = IF owns THEN [owner EXCEPT ![d] = None] ELSE owner
    /\ result' = [result EXCEPT ![t] = [call |-> "post",
                                        value |-> IF known THEN 1 ELSE 0,
                                        true |-> known = (owner[d] = t)]]
    /\ UNCHANGED <<vertices, visited, pc, want>>

\* drm_wait up to the point where it returns 0 or blocks on the drm: the
\* thread becomes a vertex, ...
\* ... it already owns the drm (visited keeps its contents),
WaitOwned(d, t) ==
    /\ pc[t] = "idle"
    /\ d \in vertices
    /\ vertices' = vertices \cup {t}
    /\ <<d, t>> \in edges
    /\ result' = [result EXCEPT ![t] = [call |-> "wait", value |-> 0, true |-> TRUE]]
    /\ UNCHANGED <<edges, visited, owner, pc, want>>

\* ... or the search reports a cycle and the request is withdrawn,
WaitRefused(d, t) ==
    /\ pc[t] = "idle"
    /\ d \in vertices
    /\ vertices' = vertices \cup {t}
    /\ <<d, t>> \notin edges
    /\ HasCycle(t)
    /\ visited' = {}
    /\ result' = [result EXCEPT ![t] =
                    [call |-> "wait", value |-> 0,
                     true |-> OnCycle(edges \cup {<<t, d>>}, t)]]
    /\ UNCHANGED <<edges, owner, pc, want>>

\* ... or the request stays in the graph, m_global is released and the thread
\* goes on to lock the drm.
WaitRequests(d, t) ==
    /\ pc[t] = "idle"
    /\ d \in vertices
    /\ vertices' = vertices \cup {t}
    /\ <<d, t>> \notin edges
    /\ ~HasCycle(t)
    /\ edges' = edges \cup {<<t, d>>}
    /\ visited' = Searched(edges \cup {<<t, d>>}, t)
    /\ pc' = [pc EXCEPT ![t] = "block"]
    /\ want' = [want EXCEPT ![t] = d]
    /\ UNCHANGED <<owner, result>>

\* pthread_mutex_lock(&drm->m) succeeds.
WaitLocks(t) ==
    /\ pc[t] = "block"
    /\ owner[want[t]] = None
    /\ owner' = [owner EXCEPT ![want[t]] = t]
    /\ pc' = [pc EXCEPT ![t] = "got"]
    /\ UNCHANGED <<vertices, edges, visited, want, result>>

\* Mutant: the request edge is left in the graph.
WaitKeepsRequest(t) ==
    /\ pc[t] = "got"
    /\ edges' = edges \cup {<<want[t], t>>}
    /\ visited' = {}
    /\ pc' = [pc EXCEPT ![t] = "idle"]
    /\ want' = [want EXCEPT ![t] = None]
    /\ result' = [result EXCEPT ![t] = [call |-> "wait", value |-> 1, true |-> TRUE]]
    /\ UNCHANGED <<vertices, owner>>

\* The end of drm_wait under m_global: the request becomes an ownership edge.
WaitAcquires(t) ==
    /\ pc[t] = "got"
    /\ edges' = (edges \ {<<t, want[t]>>}) \cup {<<want[t], t>>}
    /\ visited' = {}
    /\ pc' = [pc EXCEPT ![t] = "idle"]
    /\ want' = [want EXCEPT ![t] = None]
    /\ result' = [result EXCEPT ![t] = [call |-> "wait", value |-> 1, true |-> TRUE]]
    /\ UNCHANGED <<vertices, owner>>

\* drm_destroy, when nobody holds the drm or asks for it (the caller's duty:
\* the code takes no lock here).
drm_destroy(d) ==
    /\ d \in vertices
    /\ owner[d] = None
    /\ \A t \in Threads : want[t] # d
    /\ vertices' = vertices \ {d}
    /\ edges' = {e \in edges : d \notin {e[1], e[2]}}
    /\ UNCHANGED <<visited, owner, pc, want, result>>

Next ==
    \/ \E d \in Drms : drm_init(d) \/ drm_destroy(d)
    \/ \E t \in Threads, d \in Drms :
          drm_post(d, t) \/ WaitOwned(d, t) \/ WaitRefused(d, t) \/ WaitRequests(d, t)
    \/ \E t \in Threads : WaitLocks(t) \/ WaitAcquires(t)

Spec == Init /\ [][Next]_vars

-----------------------------------------------------------------------------
\* Types of the graph, the search state and the threads.
TypeOK ==
    /\ vertices \subseteq Threads \cup Drms
    /\ edges \subseteq (Threads \X Drms) \cup (Drms \X Threads)
    /\ visited \subseteq Threads \cup Drms
    /\ owner \in [Drms -> Threads \cup {None}]
    /\ pc \in [Threads -> {"idle", "block", "got"}]
    /\ want \in [Threads -> Drms \cup {None}]
    /\ result \in [Threads -> [call : {"none", "post", "wait"}, value : {0, 1},
                               true : BOOLEAN]]

\* The graph tells who owns what: a drm has an edge to a thread exactly when
\* the thread holds its mutex, except while the thread is between locking the
\* mutex and taking m_global again.  In particular a drm has at most one
\* outgoing edge, and drm_post unlocks a mutex only for its holder.
OwnershipEdges ==
    \A d \in Drms, t \in Threads :
        <<d, t>> \in edges <=> owner[d] = t /\ ~(pc[t] = "got" /\ want[t] = d)

\* The graph tells who waits for what: a thread has an edge to a drm exactly
\* while its drm_wait for it is in progress, so it has at most one.
RequestEdges ==
    \A d \in Drms, t \in Threads :
        <<t, d>> \in edges <=> pc[t] # "idle" /\ want[t] = d

\* libdrm.c:75-124: the graph tells who owns and who waits for what, also while
\* drm_wait has given up m_global.
GraphMatches == OwnershipEdges /\ RequestEdges

-----------------------------------------------------------------------------
\* libdrm.h: drm_wait returns 0 "if attempting to lock this drm with the
\* specified thread would cause deadlock".
RefusedOnlyOnDeadlock ==
    \A t \in Threads : result[t].call = "wait" /\ result[t].value = 0 => result[t].true

\* libdrm.h: the attempt is only allowed to wait "if no cycle exists", so no
\* set of threads is ever waiting in a circle.
NoDeadlock == \A t \in Threads : pc[t] = "block" => ~OnCycle(edges, t)

\* libdrm.h: drm_post returns 0 "if the specified thread is not able to unlock
\* the given drm", 1 if it is.
PostReportsUnlock ==
    \A t \in Threads : result[t].call = "post" => result[t].true
=============================================================================
