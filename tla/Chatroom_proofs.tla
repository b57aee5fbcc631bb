-------------------------- MODULE Chatroom_proofs --------------------------
(***************************************************************************)
(* Proofs about the chat room: the server's count of clients and its       *)
(* broadcasts, and what the client sends, shows and leaves behind.         *)
(***************************************************************************)
EXTENDS Chatroom, FiniteSetTheorems, SequenceTheorems, TLAPS

Messages == Conns \X Nat
Busy == {"lock", "write"}       \* the thread carries a message
Active(s) == pc[s] \notin {"none", "clear"}

Types ==
    /\ server \in {"up", "killed"} /\ endSession \in BOOLEAN
    /\ clientsCount \in Int
    /\ clients \in [Slots -> FDs \union {Free}]
    /\ fds \in [FDs -> Conns \union {NoConn}]
    /\ mutex \in Slots \union {Free}
    /\ main \in {"test", "call", "accept", "admit", "cleanup", "done"}
    /\ newFd \in FDs \union {Free}
    /\ pc \in [Slots -> {"none", "loop", "read", "lock", "write", "leave", "clear"}]
    /\ msg \in [Slots -> Messages \union {<<>>}]
    /\ at \in [Slots -> Nat]
    /\ peer \in [Conns -> {"idle", "queued", "accepted", "gone"}]
    /\ nsent \in [Conns -> Nat]
    /\ inbox \in [Conns -> Seq(Messages)]
    /\ heard \in [Conns -> Seq(Messages)]

\* The mutex is held exactly by the thread that broadcasts.
MutexHeld == \A s \in Slots : (pc[s] = "write") <=> (mutex = s)

\* A descriptor stands for one connection, and one that was accepted.
FdsDistinct ==
    /\ \A f, g \in FDs : fds[f] # NoConn /\ fds[f] = fds[g] => f = g
    /\ \A f \in FDs : fds[f] # NoConn => peer[fds[f]] \notin {"idle", "queued"}

\* Until cleanup has closed them all, each thread that has not closed its descriptor has
\* one of its own, an open one, and so has the client that is being admitted.
FdsOwned ==
    /\ \A s, t \in Slots :
        Active(s) /\ Active(t) /\ clients[s] = clients[t] => s = t
    /\ main # "done" => \A s \in Slots : Active(s) => fds[clients[s]] # NoConn
    /\ main = "admit" =>
        /\ newFd \in FDs
        /\ fds[newFd] # NoConn
        /\ \A s \in Slots : Active(s) => clients[s] # newFd

\* The messages that wait are in the order in which they were sent.
InboxSorted ==
    \A c \in Conns :
        /\ \A i \in 1 .. Len(inbox[c]) :
            inbox[c][i][1] = c /\ inbox[c][i][2] <= nsent[c]
        /\ \A i, j \in 1 .. Len(inbox[c]) : i < j => inbox[c][i][2] < inbox[c][j][2]

\* m was sent before every message of its sender that still waits.
Past(m) ==
    /\ m \in Messages
    /\ m[2] <= nsent[m[1]]
    /\ \A i \in 1 .. Len(inbox[m[1]]) : m[2] < inbox[m[1]][i][2]

\* A message that a thread carries, or that was broadcast, waits no more;
\* no two threads carry the same one.
TakenOnce ==
    /\ \A s \in Slots : pc[s] \in Busy => Past(msg[s])
    /\ \A c \in Conns : \A i \in 1 .. Len(heard[c]) : Past(heard[c][i])
    /\ \A s, t \in Slots :
        pc[s] \in Busy /\ pc[t] \in Busy /\ msg[s] = msg[t] => s = t

\* Nobody has heard a message before its thread has the mutex; while it has the mutex,
\* nobody hears another one after it.
Latest ==
    \A s \in Slots : \A c \in Conns :
        /\ pc[s] = "lock" => \A i \in 1 .. Len(heard[c]) : heard[c][i] # msg[s]
        /\ pc[s] = "write" =>
            \A i, j \in 1 .. Len(heard[c]) :
                i < j /\ heard[c][i] = msg[s] => heard[c][j] = msg[s]

\* The slots before the loop's index have been served.
Served ==
    \A s, t \in Slots :
        /\ pc[s] = "write" /\ t < at[s]
        /\ clients[t] # Free /\ pc[t] # "clear" /\ Mine(t) # NoConn
        => \E i \in 1 .. Len(heard[Mine(t)]) : heard[Mine(t)][i] = msg[s]

Precedes(c, m, n) ==
    \E i, j \in 1 .. Len(heard[c]) : i < j /\ heard[c][i] = m /\ heard[c][j] = n

\* No two clients disagree about the order of two messages.
Agree ==
    \A c, d \in Conns : \A m, n \in Messages :
        m # n /\ Precedes(c, m, n) => ~Precedes(d, n, m)

Inv == /\ Types /\ CountMatches /\ MutexHeld /\ FdsDistinct /\ FdsOwned
       /\ InboxSorted /\ TakenOnce /\ Latest /\ Served
       /\ Agree

-----------------------------------------------------------------------------
(* The least member of a set of naturals, and the free slot and descriptor.  *)

LEMMA MinOfNaturals ==
    ASSUME NEW S \in SUBSET Nat, S # {}
    PROVE  Min(S) \in S /\ \A y \in S : Min(S) <= y
<1>1. PICK x \in S : \A y \in S : ~(<<y, x>> \in OpToRel(<, Nat))
    BY WFMin, NatLessThanWellFounded
<1>2. ASSUME NEW y \in S, y < x PROVE FALSE
    <2>1. <<y, x>> \in OpToRel(<, Nat)
        BY <1>2, Zenon DEF OpToRel
    <2> QED  BY <1>1, <2>1
<1>3. \A y \in S : x <= y
    BY <1>2
<1> QED  BY <1>3 DEF Min

\* The constants are what the other proofs need to know of them.
LEMMA Constants ==
    /\ MAX_CLIENTS \in Nat /\ MAX_CLIENTS > 0
    /\ Slots = 0 .. MAX_CLIENTS - 1 /\ Slots \subseteq Nat
    /\ IsFiniteSet(Slots) /\ Cardinality(Slots) = MAX_CLIENTS
    /\ Free \in Int /\ Free \notin Nat
    /\ FDs \subseteq Nat
    /\ Cardinality(Conns) \in Nat /\ NoConn \notin Conns
<1>1. MAX_CLIENTS \in Nat /\ MAX_CLIENTS > 0
    BY ChatAssumption
<1>2. IsFiniteSet(Slots) /\ Cardinality(Slots) = MAX_CLIENTS
    BY <1>1, FS_Interval DEF Slots
<1>3. Cardinality(Conns) \in Nat
    BY ChatAssumption, FS_CardinalityType
<1> QED  BY <1>1, <1>2, <1>3, ChatAssumption DEF Slots, FDs, Free

\* A client that waits to be accepted has no descriptor yet, so one is left for it.
LEMMA FreeDescriptor ==
    ASSUME Types, FdsDistinct, NEW c \in Conns, peer[c] = "queued"
    PROVE  LET free == {f \in FDs : fds[f] = NoConn} IN Min(free) \in free
<1> DEFINE free == {f \in FDs : fds[f] = NoConn}
<1> DEFINE others == Conns \ {c}
<1>1. IsFiniteSet(others) /\ Cardinality(others) = Cardinality(Conns) - 1
    BY ChatAssumption, FS_RemoveElement
<1>2. IsFiniteSet(FDs) /\ Cardinality(FDs) = Cardinality(Conns)
    <2>1. Cardinality(Conns) \in Nat
        BY Constants
    <2>2. Cardinality(Conns) # 0
        BY FS_EmptySet, ChatAssumption
    <2> QED  BY <2>1, <2>2, FS_Interval DEF FDs
<1>3. ASSUME free = {} PROVE FALSE
    <2>1. fds \in [FDs -> others]
        <3>1. \A f \in FDs : fds[f] \in Conns
            BY <1>3 DEF Types
        <3>2. \A f \in FDs : fds[f] # c
            BY <1>3 DEF FdsDistinct
        <3> QED  BY <3>1, <3>2 DEF Types
    <2>2. Cardinality(others) < Cardinality(FDs)
        BY <1>1, <1>2, Constants
    <2>3. PICK f, g \in FDs : f # g /\ fds[f] = fds[g]
        BY <1>1, <1>2, <2>1, <2>2, FS_PigeonHole
    <2> QED  BY <1>3, <2>3 DEF FdsDistinct
<1>4. free \in SUBSET Nat
    BY Constants
<1> HIDE DEF free
<1>5. Min(free) \in free
    BY <1>3, <1>4, MinOfNaturals
<1> QED  BY <1>5 DEF free

\* As long as the count is less than MAX_CLIENTS there is a free slot.
LEMMA FreeSlot ==
    ASSUME Types, CountMatches, ~Full, clientsCount <= MAX_CLIENTS
    PROVE  LET unused == {s \in Slots : clients[s] = Free}
           IN unused # {} /\ Min(unused) \in unused
<1> DEFINE unused == {s \in Slots : clients[s] = Free}
<1>1. ASSUME unused = {} PROVE FALSE
    <2>1. {s \in Slots : clients[s] # Free} = Slots
        BY <1>1
    <2> QED  BY <2>1, Constants DEF CountMatches, Full
<1>2. unused \in SUBSET Nat
    BY Constants
<1> HIDE DEF unused
<1>3. unused # {} /\ Min(unused) \in unused
    BY <1>1, <1>2, MinOfNaturals
<1> QED  BY <1>3 DEF unused

-----------------------------------------------------------------------------
(* One lemma per part of the invariant: every step preserves it.              *)

\* Where the table has an entry the thread's descriptor is one.
LEMMA SlotHasFd ==
    ASSUME Inv, NEW s \in Slots, pc[s] # "none"
    PROVE  clients[s] \in FDs /\ Mine(s) \in Conns \union {NoConn}
BY DEF Inv, CountMatches, Types, Mine

\* The client that is let in gets a slot and a thread.
LEMMA AdmitFinds ==
    ASSUME Inv, Admit
    PROVE  \E u \in Slots :
            /\ clients[u] = Free /\ pc[u] = "none"
            /\ clients' = [clients EXCEPT ![u] = newFd]
            /\ pc' = [pc EXCEPT ![u] = "loop"]
<1> DEFINE unused == {s \in Slots : clients[s] = Free}
<1>1. clientsCount <= MAX_CLIENTS
    BY Constants, FS_Subset DEF Inv, CountMatches
<1>2. unused # {} /\ Min(unused) \in unused
    BY <1>1, FreeSlot DEF Inv, Admit
<1>3. /\ clients' = [clients EXCEPT ![Min(unused)] = newFd]
      /\ pc' = [pc EXCEPT ![Min(unused)] = "loop"]
    BY <1>2 DEF Admit
<1>4. Min(unused) \in Slots /\ clients[Min(unused)] = Free
    BY <1>2
<1> HIDE DEF unused
<1> QED  BY <1>3, <1>4 DEF Inv, CountMatches

LEMMA TypesStep ==
    ASSUME Inv, Next
    PROVE  Types'
<1> USE DEF Inv, Types, world, table
<1>1. ASSUME NEW c \in Conns, Connect(c) \/ Disconnect(c) PROVE Types'
    BY <1>1 DEF Connect, Disconnect
<1>2. ASSUME NEW c \in Conns, SendMessage(c) PROVE Types'
    <2>1. <<c, nsent[c] + 1>> \in Messages
        BY DEF Messages
    <2>2. Append(inbox[c], <<c, nsent[c] + 1>>) \in Seq(Messages)
        BY <2>1
    <2> QED  BY <1>2, <2>2 DEF SendMessage
<1>3. CASE TestEnd \/ EnterAccept \/ AcceptFails \/ close_server
    BY <1>3 DEF TestEnd, EnterAccept, AcceptFails, close_server
<1>4. ASSUME NEW c \in Conns, Accept(c) PROVE Types'
    <2>1. newFd' \in FDs
        BY <1>4, FreeDescriptor DEF Accept
    <2> QED  BY <1>4, <2>1 DEF Accept
<1>5. CASE Refuse
    BY <1>5 DEF Refuse
<1>6. CASE Admit
    <2>1. newFd \in FDs
        BY <1>6 DEF Admit, FdsOwned
    <2>2. clients' \in [Slots -> FDs \union {Free}]
        BY <1>6, <2>1, AdmitFinds
    <2>3. pc' \in [Slots -> {"none", "loop", "read", "lock", "write", "leave", "clear"}]
        BY <1>6, AdmitFinds
    <2> HIDE DEF Inv
    <2> QED  BY <1>6, <2>2, <2>3 DEF Admit, Inv
<1>7. CASE cleanup
    BY <1>7 DEF cleanup
<1>8. ASSUME NEW s \in Slots, process_client(s) PROVE Types'
    <2>1. CASE Loop(s)
        BY <2>1 DEF Loop
    <2>2. CASE ReadEnd(s)
        BY <2>2 DEF ReadEnd
    <2>3. CASE Lock(s)
        BY <2>3 DEF Lock
    <2>4. CASE ReadMessage(s)
        <3>1. Mine(s) \in Conns
            BY <2>4, SlotHasFd DEF ReadMessage
        <3>2. inbox[Mine(s)] \in Seq(Messages) /\ inbox[Mine(s)] # <<>>
            BY <2>4, <3>1 DEF ReadMessage
        <3>3. Head(inbox[Mine(s)]) \in Messages /\ Tail(inbox[Mine(s)]) \in Seq(Messages)
            BY <3>2
        <3> QED  BY <2>4, <3>1, <3>3 DEF ReadMessage
    <2>5. CASE WriteTo(s)
        <3>1. msg[s] \in Messages
            BY <2>5 DEF WriteTo, TakenOnce, Busy, Past
        <3>2. heard' \in [Conns -> Seq(Messages)]
            <4>1. CASE Target(s) \in Conns
                BY <2>5, <3>1, <4>1 DEF WriteTo
            <4>2. CASE Target(s) = NoConn
                BY <2>5, <4>2 DEF WriteTo
            <4>3. Target(s) \in Conns \union {NoConn}
                <5>1. at[s] \in Slots
                    BY <2>5, Constants DEF WriteTo, InLoop
                <5> QED  BY <5>1 DEF Target
            <4> QED  BY <4>1, <4>2, <4>3
        <3> QED  BY <2>5, <3>2 DEF WriteTo
    <2>6. CASE SigPipe(s)
        BY <2>6 DEF SigPipe
    <2>7. CASE Leave(s)
        BY <2>7 DEF Leave
    <2>8. CASE Unlock(s)
        BY <2>8 DEF Unlock
    <2>9. CASE Clear(s)
        BY <2>9 DEF Clear
    <2> QED  BY <1>8, <2>1, <2>2, <2>3, <2>4, <2>5, <2>6, <2>7, <2>8, <2>9 DEF process_client
<1> QED  BY <1>1, <1>2, <1>3, <1>4, <1>5, <1>6, <1>7, <1>8 DEF Next, run_server

\* Only Admit and Clear change the table, under the mutex and together with the count.
LEMMA CountStep ==
    ASSUME Inv, Next
    PROVE  CountMatches'
<1> USE DEF world, table
<1>1. CASE Admit
    <2>1. PICK u \in Slots :
            /\ clients[u] = Free /\ pc[u] = "none"
            /\ clients' = [clients EXCEPT ![u] = newFd]
            /\ pc' = [pc EXCEPT ![u] = "loop"]
        BY <1>1, AdmitFinds
    <2>2. newFd # Free
        BY <1>1, Constants DEF Inv, FdsOwned, Admit
    <2>3. {s \in Slots : clients'[s] # Free} = {s \in Slots : clients[s] # Free} \cup {u}
        BY <2>1, <2>2 DEF Inv, Types
    <2>4. IsFiniteSet({s \in Slots : clients[s] # Free})
        BY Constants, FS_Subset
    <2>5. clientsCount' = Cardinality({s \in Slots : clients'[s] # Free})
        BY <1>1, <2>1, <2>3, <2>4, FS_AddElement DEF Admit, Inv, CountMatches
    <2>6. \A s \in Slots : (clients'[s] # Free) = (pc'[s] # "none")
        BY <2>1, <2>2 DEF Inv, CountMatches, Types
    <2> QED  BY <2>5, <2>6 DEF CountMatches
<1>2. ASSUME NEW u \in Slots, Clear(u) PROVE CountMatches'
    <2>1. clients[u] # Free
        BY <1>2 DEF Clear, Inv, CountMatches
    <2>3. {s \in Slots : clients'[s] # Free} = {s \in Slots : clients[s] # Free} \ {u}
        BY <1>2 DEF Clear, Inv, Types
    <2>4. IsFiniteSet({s \in Slots : clients[s] # Free})
        BY Constants, FS_Subset
    <2>5. clientsCount' = Cardinality({s \in Slots : clients'[s] # Free})
        BY <1>2, <2>1, <2>3, <2>4, FS_RemoveElement DEF Clear, Inv, CountMatches
    <2>6. \A s \in Slots : (clients'[s] # Free) = (pc'[s] # "none")
        BY <1>2 DEF Clear, Inv, CountMatches, Types
    <2> QED  BY <2>5, <2>6 DEF CountMatches
<1>3. ASSUME table' = table, \A s \in Slots : (pc'[s] = "none") <=> (pc[s] = "none")
      PROVE  CountMatches'
    BY <1>3 DEF Inv, CountMatches
<1>4. ASSUME NEW s \in Slots, process_client(s) PROVE CountMatches'
    <2> DEFINE same == \A t \in Slots : (pc'[t] = "none") <=> (pc[t] = "none")
    <2>1. CASE Loop(s)
        <3>1. same
            BY <2>1 DEF Loop, Inv, Types
        <3> QED  BY <1>3, <2>1, <3>1 DEF Loop
    <2>2. CASE ReadMessage(s)
        <3>1. same
            BY <2>2 DEF ReadMessage, Inv, Types
        <3> QED  BY <1>3, <2>2, <3>1 DEF ReadMessage
    <2>3. CASE ReadEnd(s)
        <3>1. same
            BY <2>3 DEF ReadEnd, Inv, Types
        <3> QED  BY <1>3, <2>3, <3>1 DEF ReadEnd
    <2>4. CASE Lock(s) \/ Unlock(s)
        <3>1. same
            BY <2>4 DEF Lock, Unlock, Inv, Types
        <3> QED  BY <1>3, <2>4, <3>1 DEF Lock, Unlock
    <2>5. CASE Leave(s)
        <3>1. same
            BY <2>5 DEF Leave, Inv, Types
        <3> QED  BY <1>3, <2>5, <3>1 DEF Leave
    <2>6. CASE WriteTo(s) \/ SigPipe(s)
        BY <2>6 DEF WriteTo, SigPipe, Inv, CountMatches
    <2> QED  BY <1>2, <1>4, <2>1, <2>2, <2>3, <2>4, <2>5, <2>6 DEF process_client
<1>5. CASE UNCHANGED <<table, pc>>
    BY <1>5 DEF Inv, CountMatches
<1>6. ASSUME NEW c \in Conns, Connect(c) \/ SendMessage(c) \/ Disconnect(c) \/ Accept(c)
      PROVE  CountMatches'
    BY <1>5, <1>6 DEF Connect, SendMessage, Disconnect, Accept
<1>7. CASE TestEnd \/ EnterAccept \/ AcceptFails \/ Refuse \/ close_server \/ cleanup
    BY <1>5, <1>7 DEF TestEnd, EnterAccept, AcceptFails, Refuse, close_server, cleanup
<1> QED  BY <1>1, <1>4, <1>6, <1>7 DEF Next, run_server

LEMMA MutexStep ==
    ASSUME Inv, Next
    PROVE  MutexHeld'
<1> USE DEF MutexHeld
<1>1. CASE Admit
    BY <1>1, AdmitFinds, Constants DEF Admit, Inv, Types
<1>2. ASSUME NEW s \in Slots, process_client(s) PROVE MutexHeld'
    <2>1. CASE Loop(s)
        BY <2>1 DEF Loop, Inv, Types
    <2>2. CASE ReadMessage(s)
        BY <2>2 DEF ReadMessage, Inv, Types
    <2>3. CASE ReadEnd(s)
        BY <2>3 DEF ReadEnd, Inv, Types
    <2>4. CASE Lock(s)
        BY <2>4, Constants DEF Lock, Inv, Types
    <2>5. CASE WriteTo(s) \/ SigPipe(s)
        BY <2>5 DEF WriteTo, SigPipe, Inv
    <2>6. CASE Unlock(s)
        BY <2>6, Constants DEF Unlock, Inv, Types
    <2>7. CASE Leave(s)
        BY <2>7 DEF Leave, Inv, Types
    <2>8. CASE Clear(s)
        BY <2>8 DEF Clear, Inv, Types
    <2> QED  BY <1>2, <2>1, <2>2, <2>3, <2>4, <2>5, <2>6, <2>7, <2>8 DEF process_client
<1>3. CASE UNCHANGED <<mutex, pc>>
    BY <1>3 DEF Inv
<1>4. ASSUME NEW c \in Conns, Connect(c) \/ SendMessage(c) \/ Disconnect(c) \/ Accept(c)
      PROVE  MutexHeld'
    BY <1>3, <1>4 DEF Connect, SendMessage, Disconnect, Accept
<1>5. CASE TestEnd \/ EnterAccept \/ AcceptFails \/ Refuse \/ close_server \/ cleanup
    BY <1>3, <1>5 DEF TestEnd, EnterAccept, AcceptFails, Refuse, close_server, cleanup
<1> QED  BY <1>1, <1>2, <1>4, <1>5 DEF Next, run_server

\* A descriptor is given out only for a connection that was accepted at that moment.
LEMMA DistinctStep ==
    ASSUME Inv, Next
    PROVE  FdsDistinct'
<1> USE DEF FdsDistinct, world
<1>1. CASE UNCHANGED <<fds, peer>>
    BY <1>1 DEF Inv
<1>2. ASSUME NEW c \in Conns, Connect(c) PROVE FdsDistinct'
    <2>1. \A f \in FDs : fds[f] # c
        BY <1>2, ChatAssumption DEF Connect, Inv, Types
    <2> QED  BY <1>2, <2>1 DEF Connect, Inv, Types
<1>3. ASSUME NEW c \in Conns, Disconnect(c) PROVE FdsDistinct'
    BY <1>3 DEF Disconnect, Inv, Types
<1>4. ASSUME NEW c \in Conns, Accept(c) PROVE FdsDistinct'
    <2>1. newFd' \in FDs
        BY <1>4, FreeDescriptor DEF Accept, Inv
    <2>2. \A f \in FDs : fds[f] # c
        BY <1>4, ChatAssumption DEF Accept, Inv, Types
    <2>3. fds' = [fds EXCEPT ![newFd'] = c] /\ peer' = [peer EXCEPT ![c] = "accepted"]
        BY <1>4 DEF Accept
    <2> QED  BY <2>1, <2>2, <2>3 DEF Inv, Types
<1>5. ASSUME \A f \in FDs : fds'[f] \in {fds[f], NoConn}, peer' = peer PROVE FdsDistinct'
    BY <1>5 DEF Inv
<1>6. CASE Refuse
    BY <1>5, <1>6 DEF Refuse, Inv, Types
<1>7. CASE cleanup
    BY <1>5, <1>7 DEF cleanup
<1>8. ASSUME NEW s \in Slots, process_client(s) PROVE FdsDistinct'
    <2>1. CASE Leave(s)
        BY <1>5, <2>1 DEF Leave, Inv, Types
    <2>2. CASE Loop(s) \/ ReadMessage(s) \/ ReadEnd(s) \/ Lock(s)
        BY <1>1, <2>2 DEF Loop, ReadMessage, ReadEnd, Lock
    <2>3. CASE WriteTo(s) \/ SigPipe(s) \/ Unlock(s) \/ Clear(s)
        BY <1>1, <2>3 DEF WriteTo, SigPipe, Unlock, Clear
    <2> QED  BY <1>8, <2>1, <2>2, <2>3 DEF process_client
<1>9. ASSUME NEW c \in Conns, SendMessage(c) PROVE FdsDistinct'
    BY <1>1, <1>9 DEF SendMessage
<1>10. CASE TestEnd \/ EnterAccept \/ AcceptFails \/ Admit \/ close_server
    BY <1>1, <1>10 DEF TestEnd, EnterAccept, AcceptFails, Admit, close_server
<1> QED  BY <1>2, <1>3, <1>4, <1>6, <1>7, <1>8, <1>9, <1>10 DEF Next, run_server

\* accept gives a descriptor that no thread still has to close; a thread closes its own.
LEMMA OwnedStep ==
    ASSUME Inv, Next
    PROVE  FdsOwned'
<1> USE DEF FdsOwned, Active, table
<1>1. CASE UNCHANGED <<clients, fds, main, newFd, pc>>
    BY <1>1 DEF Inv
<1>2. ASSUME UNCHANGED <<clients, fds, main, newFd>>,
             \A s \in Slots : Active(s)' => Active(s)
      PROVE  FdsOwned'
    BY <1>2 DEF Inv
<1>3. ASSUME NEW c \in Conns, Connect(c) \/ SendMessage(c) \/ Disconnect(c) PROVE FdsOwned'
    BY <1>1, <1>3 DEF Connect, SendMessage, Disconnect
<1>4. CASE TestEnd \/ EnterAccept \/ AcceptFails \/ close_server
    BY <1>4 DEF TestEnd, EnterAccept, AcceptFails, close_server, Inv
<1>5. ASSUME NEW c \in Conns, Accept(c) PROVE FdsOwned'
    <2>1. newFd' \in FDs /\ fds[newFd'] = NoConn
        BY <1>5, FreeDescriptor DEF Accept, Inv
    <2>2. /\ fds' = [fds EXCEPT ![newFd'] = c] /\ main' = "admit" /\ main = "accept"
          /\ UNCHANGED <<clients, pc>>
        BY <1>5 DEF Accept
    <2>3. c # NoConn
        BY ChatAssumption
    <2> QED  BY <2>1, <2>2, <2>3 DEF Inv, Types
<1>6. CASE Refuse
    <2>1. \A s \in Slots : Active(s) => clients[s] \in FDs /\ clients[s] # newFd
        BY <1>6, SlotHasFd DEF Refuse, Inv
    <2> QED  BY <1>6, <2>1 DEF Refuse, Inv, Types
<1>7. CASE Admit
    <2>1. PICK u \in Slots :
            /\ clients[u] = Free /\ pc[u] = "none"
            /\ clients' = [clients EXCEPT ![u] = newFd]
            /\ pc' = [pc EXCEPT ![u] = "loop"]
        BY <1>7, AdmitFinds
    <2>2. main = "admit" /\ main' = "test" /\ fds' = fds
        BY <1>7 DEF Admit
    <2> QED  BY <2>1, <2>2 DEF Inv, Types
<1>8. CASE cleanup
    BY <1>8 DEF cleanup, Inv
<1>9. ASSUME NEW s \in Slots, process_client(s) PROVE FdsOwned'
    <2> DEFINE fewer == \A t \in Slots : Active(t)' => Active(t)
    <2>1. CASE Loop(s)
        <3>1. fewer
            BY <2>1 DEF Loop, Inv, Types
        <3> QED  BY <1>2, <2>1, <3>1 DEF Loop
    <2>2. CASE ReadMessage(s)
        <3>1. fewer
            BY <2>2 DEF ReadMessage, Inv, Types
        <3> QED  BY <1>2, <2>2, <3>1 DEF ReadMessage
    <2>3. CASE ReadEnd(s)
        <3>1. fewer
            BY <2>3 DEF ReadEnd, Inv, Types
        <3> QED  BY <1>2, <2>3, <3>1 DEF ReadEnd
    <2>4. CASE Lock(s) \/ Unlock(s)
        <3>1. fewer
            BY <2>4 DEF Lock, Unlock, Inv, Types
        <3> QED  BY <1>2, <2>4, <3>1 DEF Lock, Unlock
    <2>5. CASE WriteTo(s) \/ SigPipe(s)
        BY <1>1, <2>5 DEF WriteTo, SigPipe
    <2>6. CASE Leave(s)
        <3>1. clients[s] \in FDs
            BY <2>6, SlotHasFd DEF Leave
        <3>2. \A t \in Slots : t # s /\ Active(t) =>
                clients[t] \in FDs /\ clients[t] # clients[s]
            BY <2>6, SlotHasFd DEF Leave, Inv
        <3>3. /\ fds' = [fds EXCEPT ![clients[s]] = NoConn]
              /\ pc' = [pc EXCEPT ![s] = "clear"]
              /\ UNCHANGED <<clients, main, newFd>> /\ pc[s] = "leave"
            BY <2>6 DEF Leave
        <3> QED  BY <3>1, <3>2, <3>3 DEF Inv, Types
    <2>7. CASE Clear(s)
        <3>1. /\ clients' = [clients EXCEPT ![s] = Free]
              /\ pc' = [pc EXCEPT ![s] = "none"]
              /\ UNCHANGED <<fds, main, newFd>> /\ pc[s] = "clear"
            BY <2>7 DEF Clear
        <3> QED  BY <3>1 DEF Inv, Types
    <2> QED  BY <1>9, <2>1, <2>2, <2>3, <2>4, <2>5, <2>6, <2>7 DEF process_client
<1> QED  BY <1>3, <1>4, <1>5, <1>6, <1>7, <1>8, <1>9 DEF Next, run_server

\* A thread reads the oldest of the messages that wait on its connection.
LEMMA ReadTakes ==
    ASSUME Inv, NEW s \in Slots, ReadMessage(s)
    PROVE  \E c \in Conns :
            /\ inbox[c] \in Seq(Messages) /\ Len(inbox[c]) \in Nat /\ Len(inbox[c]) > 0
            /\ msg' = [msg EXCEPT ![s] = inbox[c][1]]
            /\ inbox' = [inbox EXCEPT ![c] = Tail(inbox[c])]
            /\ Len(Tail(inbox[c])) = Len(inbox[c]) - 1
            /\ \A i \in 1 .. Len(inbox[c]) - 1 : Tail(inbox[c])[i] = inbox[c][i + 1]
<1> DEFINE c == Mine(s)
<1>1. c \in Conns
    BY SlotHasFd DEF ReadMessage
<1>2. inbox[c] \in Seq(Messages) /\ inbox[c] # <<>>
    BY <1>1 DEF ReadMessage, Inv, Types
<1>3. /\ msg' = [msg EXCEPT ![s] = Head(inbox[c])]
      /\ inbox' = [inbox EXCEPT ![c] = Tail(inbox[c])]
    BY DEF ReadMessage
<1> HIDE DEF c
<1>4. Len(inbox[c]) \in Nat /\ Len(inbox[c]) > 0 /\ Head(inbox[c]) = inbox[c][1]
    BY <1>2
<1>5. /\ Len(Tail(inbox[c])) = Len(inbox[c]) - 1
      /\ \A i \in 1 .. Len(inbox[c]) - 1 : Tail(inbox[c])[i] = inbox[c][i + 1]
    BY <1>2
<1> QED  BY <1>1, <1>2, <1>3, <1>4, <1>5

LEMMA InboxStep ==
    ASSUME Inv, Next
    PROVE  InboxSorted'
<1> USE DEF InboxSorted, world
<1>1. CASE UNCHANGED <<nsent, inbox>>
    BY <1>1 DEF Inv
<1>2. ASSUME NEW c \in Conns, SendMessage(c) PROVE InboxSorted'
    <2> DEFINE m == <<c, nsent[c] + 1>>
    <2>1. inbox[c] \in Seq(Messages) /\ nsent[c] \in Nat /\ m \in Messages
        BY DEF Inv, Types, Messages
    <2>2. /\ Len(inbox[c]) \in Nat
          /\ Len(Append(inbox[c], m)) = Len(inbox[c]) + 1
          /\ \A i \in 1 .. Len(inbox[c]) : Append(inbox[c], m)[i] = inbox[c][i]
          /\ Append(inbox[c], m)[Len(inbox[c]) + 1] = m
        BY <2>1
    <2>3. \A i \in 1 .. Len(inbox[c]) : inbox[c][i][2] \in Nat
        BY <2>1 DEF Messages
    <2>4. inbox' = [inbox EXCEPT ![c] = Append(inbox[c], m)]
        BY <1>2 DEF SendMessage
    <2>5. nsent' = [nsent EXCEPT ![c] = nsent[c] + 1]
        BY <1>2 DEF SendMessage
    <2>6. m[1] = c /\ m[2] = nsent[c] + 1
        OBVIOUS
    <2> HIDE DEF m
    <2>7. ASSUME NEW d \in Conns, d # c
          PROVE  inbox'[d] = inbox[d] /\ nsent'[d] = nsent[d]
        BY <2>4, <2>5, <2>7 DEF Inv, Types
    <2>8. inbox'[c] = Append(inbox[c], m) /\ nsent'[c] = nsent[c] + 1
        BY <2>4, <2>5 DEF Inv, Types
    <2>9. /\ \A i \in 1 .. Len(inbox'[c]) : inbox'[c][i][1] = c /\ inbox'[c][i][2] <= nsent'[c]
          /\ \A i, j \in 1 .. Len(inbox'[c]) : i < j => inbox'[c][i][2] < inbox'[c][j][2]
        <3>1. \A i \in 1 .. Len(inbox'[c]) :
                \/ i \in 1 .. Len(inbox[c]) /\ inbox'[c][i] = inbox[c][i]
                \/ i = Len(inbox[c]) + 1 /\ inbox'[c][i] = m
            BY <2>2, <2>8
        <3> QED  BY <2>1, <2>2, <2>3, <2>6, <2>8, <3>1 DEF Inv
    <2> QED  BY <2>7, <2>9 DEF Inv
<1>3. ASSUME NEW s \in Slots, ReadMessage(s) PROVE InboxSorted'
    <2>1. nsent' = nsent
        BY <1>3 DEF ReadMessage
    <2>2. PICK c \in Conns :
            /\ Len(inbox[c]) \in Nat /\ Len(inbox[c]) > 0
            /\ inbox' = [inbox EXCEPT ![c] = Tail(inbox[c])]
            /\ Len(Tail(inbox[c])) = Len(inbox[c]) - 1
            /\ \A i \in 1 .. Len(inbox[c]) - 1 : Tail(inbox[c])[i] = inbox[c][i + 1]
        BY <1>3, ReadTakes
    <2>3. \A d \in Conns : d # c => inbox'[d] = inbox[d]
        BY <2>2 DEF Inv, Types
    <2>4. inbox'[c] = Tail(inbox[c])
        BY <2>2 DEF Inv, Types
    <2> QED  BY <2>1, <2>2, <2>3, <2>4 DEF Inv
<1>4. ASSUME NEW c \in Conns, Connect(c) \/ Disconnect(c) \/ Accept(c) PROVE InboxSorted'
    BY <1>1, <1>4 DEF Connect, Disconnect, Accept
<1>5. CASE TestEnd \/ EnterAccept \/ AcceptFails \/ Refuse \/ Admit \/ close_server \/ cleanup
    BY <1>1, <1>5 DEF TestEnd, EnterAccept, AcceptFails, Refuse, Admit, close_server, cleanup
<1>6. ASSUME NEW s \in Slots, process_client(s) PROVE InboxSorted'
    <2>1. CASE Loop(s) \/ ReadEnd(s) \/ Lock(s) \/ WriteTo(s)
        BY <1>1, <2>1 DEF Loop, ReadEnd, Lock, WriteTo
    <2>2. CASE SigPipe(s) \/ Unlock(s) \/ Leave(s) \/ Clear(s)
        BY <1>1, <2>2 DEF SigPipe, Unlock, Leave, Clear
    <2> QED  BY <1>3, <1>6, <2>1, <2>2 DEF process_client
<1> QED  BY <1>2, <1>4, <1>5, <1>6 DEF Next, run_server

\* What is past stays past: messages join the inbox behind it and leave it in front.
LEMMA PastStays ==
    ASSUME Inv, Next, NEW m, Past(m)
    PROVE  Past(m)'
<1> USE DEF world
<1>1. CASE UNCHANGED <<nsent, inbox>>
    BY <1>1 DEF Past
<1>0. m[1] \in Conns /\ m[2] \in Nat
    BY DEF Past, Messages
<1>2. ASSUME NEW c \in Conns, SendMessage(c) PROVE Past(m)'
    <2> DEFINE e == <<c, nsent[c] + 1>>
    <2>1. inbox[c] \in Seq(Messages) /\ nsent[c] \in Nat /\ e \in Messages
        BY DEF Inv, Types, Messages
    <2>2. /\ Len(inbox[c]) \in Nat
          /\ Len(Append(inbox[c], e)) = Len(inbox[c]) + 1
          /\ \A i \in 1 .. Len(inbox[c]) : Append(inbox[c], e)[i] = inbox[c][i]
          /\ Append(inbox[c], e)[Len(inbox[c]) + 1] = e
        BY <2>1
    <2>3. inbox' = [inbox EXCEPT ![c] = Append(inbox[c], e)]
        BY <1>2 DEF SendMessage
    <2>4. nsent' = [nsent EXCEPT ![c] = nsent[c] + 1]
        BY <1>2 DEF SendMessage
    <2>5. e[2] = nsent[c] + 1
        OBVIOUS
    <2> HIDE DEF e
    <2>6. CASE m[1] # c
        <3>1. inbox'[m[1]] = inbox[m[1]] /\ nsent'[m[1]] = nsent[m[1]]
            BY <1>0, <2>3, <2>4, <2>6 DEF Inv, Types
        <3> QED  BY <3>1 DEF Past
    <2>7. CASE m[1] = c
        <3>1. inbox'[c] = Append(inbox[c], e) /\ nsent'[c] = nsent[c] + 1
            BY <2>3, <2>4 DEF Inv, Types
        <3>2. m[2] <= nsent[c] /\ \A i \in 1 .. Len(inbox[c]) : m[2] < inbox[c][i][2]
            BY <2>7 DEF Past
        <3>3. \A i \in 1 .. Len(inbox'[c]) : m[2] < inbox'[c][i][2]
            <4>1. \A i \in 1 .. Len(inbox'[c]) :
                    \/ i \in 1 .. Len(inbox[c]) /\ inbox'[c][i] = inbox[c][i]
                    \/ i = Len(inbox[c]) + 1 /\ inbox'[c][i] = e
                BY <2>2, <3>1
            <4> QED  BY <1>0, <2>1, <2>2, <2>5, <3>1, <3>2, <4>1
        <3> QED  BY <1>0, <2>1, <2>7, <3>1, <3>2, <3>3 DEF Past
    <2> QED  BY <2>6, <2>7
<1>3. ASSUME NEW s \in Slots, ReadMessage(s) PROVE Past(m)'
    <2>1. nsent' = nsent
        BY <1>3 DEF ReadMessage
    <2>2. PICK c \in Conns :
            /\ Len(inbox[c]) \in Nat /\ Len(inbox[c]) > 0
            /\ inbox' = [inbox EXCEPT ![c] = Tail(inbox[c])]
            /\ Len(Tail(inbox[c])) = Len(inbox[c]) - 1
            /\ \A i \in 1 .. Len(inbox[c]) - 1 : Tail(inbox[c])[i] = inbox[c][i + 1]
        BY <1>3, ReadTakes
    <2>3. \A d \in Conns : d # c => inbox'[d] = inbox[d]
        BY <2>2 DEF Inv, Types
    <2>4. inbox'[c] = Tail(inbox[c])
        BY <2>2 DEF Inv, Types
    <2> QED  BY <1>0, <2>1, <2>2, <2>3, <2>4 DEF Past
<1>4. ASSUME NEW c \in Conns, Connect(c) \/ Disconnect(c) \/ Accept(c) PROVE Past(m)'
    BY <1>1, <1>4 DEF Connect, Disconnect, Accept
<1>5. CASE TestEnd \/ EnterAccept \/ AcceptFails \/ Refuse \/ Admit \/ close_server \/ cleanup
    BY <1>1, <1>5 DEF TestEnd, EnterAccept, AcceptFails, Refuse, Admit, close_server, cleanup
<1>6. ASSUME NEW s \in Slots, process_client(s) PROVE Past(m)'
    <2>1. CASE Loop(s) \/ ReadEnd(s) \/ Lock(s) \/ WriteTo(s)
        BY <1>1, <2>1 DEF Loop, ReadEnd, Lock, WriteTo
    <2>2. CASE SigPipe(s) \/ Unlock(s) \/ Leave(s) \/ Clear(s)
        BY <1>1, <2>2 DEF SigPipe, Unlock, Leave, Clear
    <2> QED  BY <1>3, <1>6, <2>1, <2>2 DEF process_client
<1> QED  BY <1>2, <1>4, <1>5, <1>6 DEF Next, run_server

\* A turn of the loop adds nothing but the message to what anybody has heard, and adds it
\* to what its target has heard.
LEMMA WriteAppends ==
    ASSUME Inv, NEW s \in Slots, WriteTo(s)
    PROVE  /\ msg[s] \in Messages
           /\ Target(s) \in Conns \union {NoConn}
           /\ \A c \in Conns :
                /\ Len(heard[c]) \in Nat /\ Len(heard'[c]) \in Nat
                /\ Len(heard[c]) <= Len(heard'[c])
                /\ \A i \in 1 .. Len(heard[c]) : heard'[c][i] = heard[c][i]
                /\ \A i \in 1 .. Len(heard'[c]) :
                    i > Len(heard[c]) => heard'[c][i] = msg[s]
           /\ Target(s) # NoConn =>
                \E i \in 1 .. Len(heard'[Target(s)]) : heard'[Target(s)][i] = msg[s]
<1>1. msg[s] \in Messages
    BY DEF Inv, WriteTo, TakenOnce, Busy, Past
<1>2. Target(s) \in Conns \union {NoConn}
    <2>1. at[s] \in Slots
        BY Constants DEF Inv, Types, WriteTo, InLoop
    <2> QED  BY <2>1 DEF Inv, Types, Target
<1>3. \A c \in Conns : heard[c] \in Seq(Messages) /\ Len(heard[c]) \in Nat
    BY DEF Inv, Types
<1>4. CASE Target(s) = NoConn
    BY <1>1, <1>2, <1>3, <1>4 DEF WriteTo
<1>5. CASE Target(s) # NoConn
    <2> DEFINE d == Target(s)
               h == Append(heard[d], msg[s])
    <2>1. d \in Conns /\ heard' = [heard EXCEPT ![d] = h]
        BY <1>2, <1>5 DEF WriteTo
    <2>2. /\ Len(h) = Len(heard[d]) + 1
          /\ \A i \in 1 .. Len(heard[d]) : h[i] = heard[d][i]
          /\ h[Len(heard[d]) + 1] = msg[s]
        BY <1>1, <1>3, <2>1
    <2> HIDE DEF d, h
    <2>3. heard'[d] = h /\ \A c \in Conns : c # d => heard'[c] = heard[c]
        BY <2>1 DEF Inv, Types
    <2>4. \E i \in 1 .. Len(heard'[d]) : heard'[d][i] = msg[s]
        BY <1>3, <2>1, <2>2, <2>3
    <2>5. ASSUME NEW c \in Conns
          PROVE  /\ Len(heard[c]) \in Nat /\ Len(heard'[c]) \in Nat
                 /\ Len(heard[c]) <= Len(heard'[c])
                 /\ \A i \in 1 .. Len(heard[c]) : heard'[c][i] = heard[c][i]
                 /\ \A i \in 1 .. Len(heard'[c]) :
                     i > Len(heard[c]) => heard'[c][i] = msg[s]
        <3>1. CASE c = d
            BY <1>3, <2>2, <2>3, <3>1
        <3>2. CASE c # d
            BY <1>3, <2>3, <3>2
        <3> QED  BY <3>1, <3>2
    <2> QED  BY <1>1, <1>2, <2>4, <2>5 DEF d
<1> QED  BY <1>4, <1>5

\* A thread takes a message out of the inbox before it, or any other, carries it.
LEMMA TakenStep ==
    ASSUME Inv, Next
    PROVE  TakenOnce'
<1> USE DEF world
<1>0. \A m \in Messages : Past(m) => Past(m)'
    BY PastStays
<1>1. ASSUME msg' = msg, heard' = heard, \A s \in Slots : pc'[s] \in Busy => pc[s] \in Busy
      PROVE  TakenOnce'
    BY <1>0, <1>1 DEF Inv, TakenOnce, Past
<1>2. ASSUME NEW s \in Slots, ReadMessage(s) PROVE TakenOnce'
    <2>1. PICK c \in Conns :
            /\ inbox[c] \in Seq(Messages) /\ Len(inbox[c]) \in Nat /\ Len(inbox[c]) > 0
            /\ msg' = [msg EXCEPT ![s] = inbox[c][1]]
            /\ inbox' = [inbox EXCEPT ![c] = Tail(inbox[c])]
            /\ Len(Tail(inbox[c])) = Len(inbox[c]) - 1
            /\ \A i \in 1 .. Len(inbox[c]) - 1 : Tail(inbox[c])[i] = inbox[c][i + 1]
        BY <1>2, ReadTakes
    <2> DEFINE m == inbox[c][1]
    <2>2. m \in Messages /\ m[1] = c /\ m[2] \in Nat /\ m[2] <= nsent[c]
        BY <2>1 DEF Inv, InboxSorted, Messages
    <2>3. ~Past(m)
        BY <2>1, <2>2 DEF Past
    <2>4. nsent' = nsent /\ heard' = heard /\ pc' = [pc EXCEPT ![s] = "lock"]
        BY <1>2 DEF ReadMessage
    <2>5. \A i \in 1 .. Len(inbox[c]) - 1 : m[2] < Tail(inbox[c])[i][2]
        BY <2>1 DEF Inv, InboxSorted
    <2>6. inbox'[c] = Tail(inbox[c])
        BY <2>1 DEF Inv, Types
    <2>7. /\ m[2] <= nsent'[m[1]]
          /\ \A i \in 1 .. Len(inbox'[m[1]]) : m[2] < inbox'[m[1]][i][2]
        BY <2>1, <2>2, <2>4, <2>5, <2>6
    <2>8. \A t \in Slots : t # s => msg'[t] = msg[t] /\ pc'[t] = pc[t]
        BY <2>1, <2>4 DEF Inv, Types
    <2>9. msg'[s] = m /\ pc'[s] = "lock"
        BY <2>1, <2>4 DEF Inv, Types
    <2> HIDE DEF m
    <2>10. \A t \in Slots : t # s /\ pc'[t] \in Busy => Past(msg[t]) /\ msg[t] # m
        BY <2>3, <2>8 DEF Inv, TakenOnce
    <2>11. \A t \in Slots : pc'[t] \in Busy => Past(msg[t])'
        <3>1. Past(msg[s])'
            BY <2>2, <2>7, <2>9 DEF Past
        <3>2. ASSUME NEW t \in Slots, t # s, pc'[t] \in Busy PROVE Past(msg[t])'
            BY <1>0, <2>8, <2>10, <3>2 DEF Past
        <3> QED  BY <3>1, <3>2
    <2>12. \A d \in Conns : \A i \in 1 .. Len(heard'[d]) : Past(heard[d][i])'
        BY <1>0, <2>4 DEF Inv, TakenOnce, Past
    <2>13. \A t, u \in Slots :
            pc'[t] \in Busy /\ pc'[u] \in Busy /\ msg'[t] = msg'[u] => t = u
        BY <2>8, <2>9, <2>10 DEF Inv, TakenOnce
    <2> QED  BY <2>11, <2>12, <2>13 DEF TakenOnce
<1>3. ASSUME NEW s \in Slots, WriteTo(s) PROVE TakenOnce'
    <2>1. UNCHANGED <<msg, pc, nsent, inbox>> /\ pc[s] = "write"
        BY <1>3 DEF WriteTo
    <2>2. Past(msg[s])
        BY <2>1 DEF Inv, TakenOnce, Busy
    <2>3. \A c \in Conns : \A i \in 1 .. Len(heard'[c]) : Past(heard'[c][i])
        <3> SUFFICES ASSUME NEW c \in Conns, NEW i \in 1 .. Len(heard'[c])
                     PROVE  Past(heard'[c][i])
            OBVIOUS
        <3>1. \/ i \in 1 .. Len(heard[c]) /\ heard'[c][i] = heard[c][i]
              \/ heard'[c][i] = msg[s]
            BY <1>3, WriteAppends
        <3> QED  BY <2>2, <3>1 DEF Inv, TakenOnce
    <2> QED  BY <2>1, <2>3 DEF Inv, TakenOnce, Past
<1>4. ASSUME NEW s \in Slots, process_client(s) PROVE TakenOnce'
    <2> DEFINE fewer == \A t \in Slots : pc'[t] \in Busy => pc[t] \in Busy
    <2> USE DEF Busy
    <2>1. CASE Loop(s)
        <3>1. fewer
            BY <2>1 DEF Loop, Inv, Types
        <3> QED  BY <1>1, <2>1, <3>1 DEF Loop
    <2>2. CASE ReadEnd(s)
        <3>1. fewer
            BY <2>2 DEF ReadEnd, Inv, Types
        <3> QED  BY <1>1, <2>2, <3>1 DEF ReadEnd
    <2>3. CASE Lock(s)
        <3>1. fewer
            BY <2>3 DEF Lock, Inv, Types
        <3> QED  BY <1>1, <2>3, <3>1 DEF Lock
    <2>4. CASE SigPipe(s)
        BY <1>1, <2>4 DEF SigPipe
    <2>5. CASE Unlock(s)
        <3>1. /\ msg' = [msg EXCEPT ![s] = <<>>] /\ pc' = [pc EXCEPT ![s] = "loop"]
              /\ UNCHANGED <<heard, nsent, inbox>>
            BY <2>5 DEF Unlock
        <3>2. \A t \in Slots : pc'[t] \in Busy => t # s /\ msg'[t] = msg[t] /\ pc'[t] = pc[t]
            BY <3>1 DEF Inv, Types
        <3> QED  BY <3>1, <3>2 DEF Inv, TakenOnce, Past
    <2>6. CASE Leave(s)
        <3>1. fewer
            BY <2>6 DEF Leave, Inv, Types
        <3> QED  BY <1>1, <2>6, <3>1 DEF Leave
    <2>7. CASE Clear(s)
        <3>1. fewer
            BY <2>7 DEF Clear, Inv, Types
        <3> QED  BY <1>1, <2>7, <3>1 DEF Clear
    <2> HIDE DEF Busy
    <2> QED  BY <1>2, <1>3, <1>4, <2>1, <2>2, <2>3, <2>4, <2>5, <2>6, <2>7
             DEF process_client
<1>5. CASE Admit
    <2>1. \A t \in Slots : pc'[t] \in Busy => pc[t] \in Busy
        BY <1>5, AdmitFinds DEF Inv, Types, Busy
    <2> QED  BY <1>1, <1>5, <2>1 DEF Admit
<1>6. ASSUME NEW c \in Conns, Connect(c) \/ SendMessage(c) \/ Disconnect(c) \/ Accept(c)
      PROVE  TakenOnce'
    BY <1>1, <1>6 DEF Connect, SendMessage, Disconnect, Accept
<1>7. CASE TestEnd \/ EnterAccept \/ AcceptFails \/ Refuse \/ close_server \/ cleanup
    BY <1>1, <1>7 DEF TestEnd, EnterAccept, AcceptFails, Refuse, close_server, cleanup
<1> QED  BY <1>4, <1>5, <1>6, <1>7 DEF Next, run_server

\* The mutex keeps every other message out from the first write of a broadcast to its last.
LEMMA LatestStep ==
    ASSUME Inv, Next
    PROVE  Latest'
<1> USE DEF world
<1>1. ASSUME heard' = heard,
             \A s \in Slots : pc'[s] \in Busy => pc'[s] = pc[s] /\ msg'[s] = msg[s]
      PROVE  Latest'
    BY <1>1 DEF Inv, Latest, Busy
<1>2. ASSUME NEW s \in Slots, ReadMessage(s) PROVE Latest'
    <2>1. PICK c \in Conns :
            /\ inbox[c] \in Seq(Messages) /\ Len(inbox[c]) \in Nat /\ Len(inbox[c]) > 0
            /\ msg' = [msg EXCEPT ![s] = inbox[c][1]]
        BY <1>2, ReadTakes
    <2> DEFINE m == inbox[c][1]
    <2>2. m \in Messages /\ m[1] = c /\ m[2] \in Nat
        BY <2>1 DEF Inv, InboxSorted, Messages
    <2>3. ~Past(m)
        BY <2>1, <2>2 DEF Past
    <2>4. heard' = heard /\ pc' = [pc EXCEPT ![s] = "lock"]
        BY <1>2 DEF ReadMessage
    <2>5. \A t \in Slots : t # s => msg'[t] = msg[t] /\ pc'[t] = pc[t]
        BY <2>1, <2>4 DEF Inv, Types
    <2>6. msg'[s] = m /\ pc'[s] = "lock"
        BY <2>1, <2>4 DEF Inv, Types
    <2> HIDE DEF m
    <2>7. \A d \in Conns : \A i \in 1 .. Len(heard'[d]) : heard'[d][i] # m
        BY <2>3, <2>4 DEF Inv, TakenOnce
    <2> QED  BY <2>4, <2>5, <2>6, <2>7 DEF Inv, Latest
<1>3. ASSUME NEW s \in Slots, Lock(s) PROVE Latest'
    <2>1. UNCHANGED <<heard, msg>> /\ pc[s] = "lock" /\ pc' = [pc EXCEPT ![s] = "write"]
        BY <1>3 DEF Lock
    <2>2. \A t \in Slots : t # s => pc'[t] = pc[t]
        BY <2>1 DEF Inv, Types
    <2>3. pc'[s] = "write"
        BY <2>1 DEF Inv, Types
    <2> QED  BY <2>1, <2>2, <2>3 DEF Inv, Latest
<1>4. ASSUME NEW s \in Slots, WriteTo(s) PROVE Latest'
    <2>1. UNCHANGED <<msg, pc>> /\ pc[s] = "write"
        BY <1>4 DEF WriteTo
    <2>2. \A t \in Slots : t # s => pc[t] # "write"
        BY <2>1 DEF Inv, MutexHeld
    <2>3. \A t \in Slots : pc[t] = "lock" => msg[t] # msg[s]
        BY <2>1 DEF Inv, TakenOnce, Busy
    <2>4. \A c \in Conns :
            /\ Len(heard[c]) \in Nat /\ Len(heard'[c]) \in Nat
            /\ \A i \in 1 .. Len(heard'[c]) :
                \/ i \in 1 .. Len(heard[c]) /\ heard'[c][i] = heard[c][i]
                \/ i > Len(heard[c]) /\ heard'[c][i] = msg[s]
        BY <1>4, WriteAppends
    <2>5. ASSUME NEW c \in Conns, NEW i \in 1 .. Len(heard'[c]), NEW j \in 1 .. Len(heard'[c]),
                 i < j, heard'[c][i] = msg[s]
          PROVE  heard'[c][j] = msg[s]
        BY <2>1, <2>4, <2>5 DEF Inv, Latest
    <2>6. ASSUME NEW c \in Conns, NEW i \in 1 .. Len(heard'[c]),
                 NEW t \in Slots, pc[t] = "lock"
          PROVE  heard'[c][i] # msg[t]
        BY <2>3, <2>4, <2>6 DEF Inv, Latest
    <2> QED  BY <2>1, <2>2, <2>5, <2>6 DEF Latest
<1>5. ASSUME NEW s \in Slots, process_client(s) PROVE Latest'
    <2> DEFINE same == \A t \in Slots : pc'[t] \in Busy => pc'[t] = pc[t] /\ msg'[t] = msg[t]
    <2>1. CASE Loop(s)
        <3>1. same
            BY <2>1 DEF Loop, Inv, Types, Busy
        <3> QED  BY <1>1, <2>1, <3>1 DEF Loop
    <2>2. CASE ReadEnd(s)
        <3>1. same
            BY <2>2 DEF ReadEnd, Inv, Types, Busy
        <3> QED  BY <1>1, <2>2, <3>1 DEF ReadEnd
    <2>3. CASE SigPipe(s)
        BY <1>1, <2>3 DEF SigPipe
    <2>4. CASE Unlock(s)
        <3>1. same
            BY <2>4 DEF Unlock, Inv, Types, Busy
        <3> QED  BY <1>1, <2>4, <3>1 DEF Unlock
    <2>5. CASE Leave(s)
        <3>1. same
            BY <2>5 DEF Leave, Inv, Types, Busy
        <3> QED  BY <1>1, <2>5, <3>1 DEF Leave
    <2>6. CASE Clear(s)
        <3>1. same
            BY <2>6 DEF Clear, Inv, Types, Busy
        <3> QED  BY <1>1, <2>6, <3>1 DEF Clear
    <2> QED  BY <1>2, <1>3, <1>4, <1>5, <2>1, <2>2, <2>3, <2>4, <2>5, <2>6
             DEF process_client
<1>6. CASE Admit
    <2>1. \A t \in Slots : pc'[t] \in Busy => pc'[t] = pc[t]
        BY <1>6, AdmitFinds DEF Inv, Types, Busy
    <2> QED  BY <1>1, <1>6, <2>1 DEF Admit
<1>7. ASSUME NEW c \in Conns, Connect(c) \/ SendMessage(c) \/ Disconnect(c) \/ Accept(c)
      PROVE  Latest'
    BY <1>1, <1>7 DEF Connect, SendMessage, Disconnect, Accept
<1>8. CASE TestEnd \/ EnterAccept \/ AcceptFails \/ Refuse \/ close_server \/ cleanup
    BY <1>1, <1>8 DEF TestEnd, EnterAccept, AcceptFails, Refuse, close_server, cleanup
<1> QED  BY <1>5, <1>6, <1>7, <1>8 DEF Next, run_server

\* Nothing a broadcast has passed comes back unserved: the table stands still under the
\* mutex, and accept never opens a descriptor that a served thread has.
LEMMA ServedStep ==
    ASSUME Inv, Next
    PROVE  Served'
<1> USE DEF world, table
<1>1. ASSUME UNCHANGED <<clients, msg, at, heard>>,
             \A s \in Slots : /\ pc'[s] = "write" => pc[s] = "write"
                              /\ pc[s] = "clear" => pc'[s] = "clear",
             \A t \in Slots : clients[t] # Free /\ pc[t] # "clear" =>
                fds'[clients[t]] \in {fds[clients[t]], NoConn}
      PROVE  Served'
    BY <1>1 DEF Inv, Served, Mine
<1>2. CASE UNCHANGED <<clients, fds, pc, msg, at, heard>>
    BY <1>2 DEF Inv, Served, Mine
<1>3. ASSUME mutex = Free, \A s \in Slots : pc'[s] = "write" => pc[s] = "write" PROVE Served'
    <2>1. \A s \in Slots : pc[s] # "write"
        BY <1>3, Constants DEF Inv, MutexHeld
    <2> QED  BY <1>3, <2>1 DEF Served
<1>4. ASSUME NEW c \in Conns, Connect(c) \/ SendMessage(c) \/ Disconnect(c) PROVE Served'
    BY <1>2, <1>4 DEF Connect, SendMessage, Disconnect
<1>5. CASE TestEnd \/ EnterAccept \/ AcceptFails \/ close_server
    BY <1>2, <1>5 DEF TestEnd, EnterAccept, AcceptFails, close_server
<1>6. ASSUME NEW c \in Conns, Accept(c) PROVE Served'
    <2>1. newFd' \in FDs /\ fds[newFd'] = NoConn
        BY <1>6, FreeDescriptor DEF Accept, Inv
    <2>2. \A t \in Slots : clients[t] # Free /\ pc[t] # "clear" =>
            clients[t] \in FDs /\ fds[clients[t]] # NoConn
        BY <1>6, SlotHasFd DEF Accept, Inv, FdsOwned, Active, CountMatches
    <2>3. fds' = [fds EXCEPT ![newFd'] = c] /\ UNCHANGED <<clients, pc, msg, at, heard>>
        BY <1>6 DEF Accept
    <2>4. \A t \in Slots : clients[t] # Free /\ pc[t] # "clear" =>
            fds'[clients[t]] = fds[clients[t]]
        BY <2>1, <2>2, <2>3 DEF Inv, Types
    <2> QED  BY <1>1, <2>3, <2>4
<1>7. CASE Refuse
    BY <1>3, <1>7 DEF Refuse
<1>8. CASE Admit
    <2>1. \A s \in Slots : pc'[s] = "write" => pc[s] = "write"
        BY <1>8, AdmitFinds DEF Inv, Types
    <2> QED  BY <1>3, <1>8, <2>1 DEF Admit
<1>9. CASE cleanup
    <2>1. \A t \in Slots : clients[t] # Free => fds'[clients[t]] \in {fds[clients[t]], NoConn}
        BY <1>9 DEF cleanup, Inv, Types
    <2> QED  BY <1>1, <1>9, <2>1 DEF cleanup
<1>10. ASSUME NEW s \in Slots, WriteTo(s) PROVE Served'
    <2>1. /\ UNCHANGED <<clients, fds, pc, msg>> /\ pc[s] = "write"
          /\ at' = [at EXCEPT ![s] = at[s] + 1]
        BY <1>10 DEF WriteTo
    <2>2. \A t \in Slots : t # s => pc[t] # "write"
        BY <2>1 DEF Inv, MutexHeld
    <2>3. at'[s] = at[s] + 1 /\ at[s] \in Nat
        BY <2>1 DEF Inv, Types
    <2>4. ASSUME NEW t \in Slots, t < at'[s],
                 clients[t] # Free, pc[t] # "clear", Mine(t) # NoConn
          PROVE  \E i \in 1 .. Len(heard'[Mine(t)]) : heard'[Mine(t)][i] = msg[s]
        <3>1. CASE t = at[s]
            <4>1. Target(s) = Mine(t)
                BY <2>4, <3>1 DEF Target, Mine
            <4> QED  BY <1>10, <2>4, <4>1, WriteAppends
        <3>2. CASE t < at[s]
            <4>1. Mine(t) \in Conns
                BY <2>4, SlotHasFd DEF Inv, CountMatches
            <4>2. PICK i \in 1 .. Len(heard[Mine(t)]) : heard[Mine(t)][i] = msg[s]
                BY <2>1, <2>4, <3>2 DEF Inv, Served
            <4>3. /\ Len(heard[Mine(t)]) \in Nat /\ Len(heard'[Mine(t)]) \in Nat
                  /\ Len(heard[Mine(t)]) <= Len(heard'[Mine(t)])
                  /\ \A k \in 1 .. Len(heard[Mine(t)]) : heard'[Mine(t)][k] = heard[Mine(t)][k]
                BY <1>10, <4>1, WriteAppends
            <4>4. i \in 1 .. Len(heard'[Mine(t)]) /\ heard'[Mine(t)][i] = msg[s]
                BY <4>2, <4>3
            <4> QED  BY <4>4
        <3> QED  BY <2>3, <2>4, <3>1, <3>2, Constants
    <2> QED  BY <2>1, <2>2, <2>4 DEF Served, Mine
<1>11. ASSUME NEW s \in Slots, process_client(s) PROVE Served'
    <2> DEFINE fewer == \A t \in Slots : /\ pc'[t] = "write" => pc[t] = "write"
                                         /\ pc[t] = "clear" => pc'[t] = "clear"
    <2>1. CASE Loop(s)
        <3>1. fewer
            BY <2>1 DEF Loop, Inv, Types
        <3> QED  BY <1>1, <2>1, <3>1 DEF Loop
    <2>2. CASE ReadMessage(s)
        <3>1. /\ UNCHANGED <<clients, fds, at, heard>> /\ pc' = [pc EXCEPT ![s] = "lock"]
              /\ pc[s] = "read" /\ msg' = [msg EXCEPT ![s] = Head(inbox[Mine(s)])]
            BY <2>2 DEF ReadMessage
        <3>2. \A t \in Slots : t # s => pc'[t] = pc[t] /\ msg'[t] = msg[t]
            BY <3>1 DEF Inv, Types
        <3>3. pc'[s] = "lock"
            BY <3>1 DEF Inv, Types
        <3> QED  BY <3>1, <3>2, <3>3 DEF Inv, Served, Mine
    <2>3. CASE ReadEnd(s)
        <3>1. fewer
            BY <2>3 DEF ReadEnd, Inv, Types
        <3> QED  BY <1>1, <2>3, <3>1 DEF ReadEnd
    <2>4. CASE Lock(s)
        <3>1. \A t \in Slots : pc[t] # "write"
            BY <2>4, Constants DEF Lock, Inv, MutexHeld
        <3>2. \A t \in Slots : pc'[t] = "write" => at'[t] = 0
            BY <2>4, <3>1 DEF Lock, Inv, Types
        <3> QED  BY <3>2, Constants DEF Served
    <2>5. CASE SigPipe(s)
        BY <1>2, <2>5 DEF SigPipe
    <2>6. CASE Unlock(s)
        <3>1. \A t \in Slots : t # s => pc[t] # "write"
            BY <2>6 DEF Unlock, Inv, MutexHeld
        <3>2. \A t \in Slots : pc'[t] # "write"
            BY <2>6, <3>1 DEF Unlock, Inv, Types
        <3> QED  BY <3>2 DEF Served
    <2>7. CASE Leave(s)
        <3>1. fewer
            BY <2>7 DEF Leave, Inv, Types
        <3>2. \A t \in Slots : clients[t] # Free =>
                fds'[clients[t]] \in {fds[clients[t]], NoConn}
            BY <2>7 DEF Leave, Inv, Types
        <3> QED  BY <1>1, <2>7, <3>1, <3>2 DEF Leave
    <2>8. CASE Clear(s)
        <3>1. \A t \in Slots : pc'[t] = "write" => pc[t] = "write"
            BY <2>8 DEF Clear, Inv, Types
        <3> QED  BY <1>3, <2>8, <3>1 DEF Clear
    <2> QED  BY <1>10, <1>11, <2>1, <2>2, <2>3, <2>4, <2>5, <2>6, <2>7, <2>8
             DEF process_client
<1> QED  BY <1>4, <1>5, <1>6, <1>7, <1>8, <1>9, <1>11 DEF Next, run_server

LEMMA AgreeStep ==
    ASSUME Inv, Next
    PROVE  Agree'
<1> USE DEF world
<1>1. CASE heard' = heard
    BY <1>1 DEF Inv, Agree, Precedes
<1>2. ASSUME NEW s \in Slots, WriteTo(s) PROVE Agree'
    <2>1. pc'[s] = "write" /\ msg'[s] = msg[s]
        BY <1>2 DEF WriteTo
    <2>2. \A c \in Conns :
            /\ Len(heard[c]) \in Nat /\ Len(heard'[c]) \in Nat
            /\ \A i \in 1 .. Len(heard'[c]) :
                \/ i \in 1 .. Len(heard[c]) /\ heard'[c][i] = heard[c][i]
                \/ i > Len(heard[c]) /\ heard'[c][i] = msg[s]
        BY <1>2, WriteAppends
    <2>3. ASSUME NEW c \in Conns, NEW m \in Messages, NEW n \in Messages, m # n,
                 Precedes(c, m, n)'
          PROVE  m # msg[s] /\ (n # msg[s] => Precedes(c, m, n))
        <3>1. PICK i, j \in 1 .. Len(heard'[c]) :
                i < j /\ heard'[c][i] = m /\ heard'[c][j] = n
            BY <2>3 DEF Precedes
        <3>2. m # msg[s]
            BY <2>1, <2>3, <3>1, LatestStep DEF Latest
        <3>3. ASSUME n # msg[s] PROVE Precedes(c, m, n)
            BY <2>2, <3>1, <3>2, <3>3 DEF Precedes
        <3> QED  BY <3>2, <3>3
    <2>4. ASSUME NEW c \in Conns, NEW d \in Conns, NEW m \in Messages, NEW n \in Messages,
                 m # n, Precedes(c, m, n)', Precedes(d, n, m)'
          PROVE  FALSE
        <3>1. m # msg[s] /\ n # msg[s]
            BY <2>3, <2>4
        <3>2. Precedes(c, m, n) /\ Precedes(d, n, m)
            BY <2>3, <2>4, <3>1
        <3> QED  BY <2>4, <3>2 DEF Inv, Agree
    <2> QED  BY <2>4 DEF Agree
<1>3. ASSUME NEW s \in Slots, process_client(s) PROVE Agree'
    <2>1. CASE Loop(s) \/ ReadMessage(s) \/ ReadEnd(s) \/ Lock(s)
        BY <1>1, <2>1 DEF Loop, ReadMessage, ReadEnd, Lock
    <2>2. CASE SigPipe(s) \/ Unlock(s) \/ Leave(s) \/ Clear(s)
        BY <1>1, <2>2 DEF SigPipe, Unlock, Leave, Clear
    <2> QED  BY <1>2, <1>3, <2>1, <2>2 DEF process_client
<1>4. ASSUME NEW c \in Conns, Connect(c) \/ SendMessage(c) \/ Disconnect(c) \/ Accept(c)
      PROVE  Agree'
    BY <1>1, <1>4 DEF Connect, SendMessage, Disconnect, Accept
<1>5. CASE TestEnd \/ EnterAccept \/ AcceptFails \/ Refuse \/ Admit \/ close_server \/ cleanup
    BY <1>1, <1>5 DEF TestEnd, EnterAccept, AcceptFails, Refuse, Admit, close_server, cleanup
<1> QED  BY <1>3, <1>4, <1>5 DEF Next, run_server

-----------------------------------------------------------------------------
LEMMA InvInit == ASSUME Init PROVE Inv
<1>1. Types
    <2>1. <<>> \in Seq(Messages)
        OBVIOUS
    <2>2. /\ inbox \in [Conns -> Seq(Messages)]
          /\ heard \in [Conns -> Seq(Messages)]
        BY <2>1 DEF Init
    <2>3. /\ pc \in [Slots -> {"none", "loop", "read", "lock", "write", "leave", "clear"}]
          /\ msg \in [Slots -> Messages \union {<<>>}]
          /\ at \in [Slots -> Nat]
        BY DEF Init
    <2>4. /\ peer \in [Conns -> {"idle", "queued", "accepted", "gone"}]
          /\ nsent \in [Conns -> Nat]
        BY DEF Init
    <2>5. /\ server \in {"up", "killed"} /\ endSession \in BOOLEAN
          /\ mutex \in Slots \union {Free} /\ newFd \in FDs \union {Free}
          /\ main \in {"test", "call", "accept", "admit", "cleanup", "done"}
        BY Zenon DEF Init
    <2>7. clientsCount \in Int
        BY DEF Init
    <2>6. /\ clients \in [Slots -> FDs \union {Free}]
          /\ fds \in [FDs -> Conns \union {NoConn}]
        BY DEF Init
    <2> QED  BY <2>2, <2>3, <2>4, <2>5, <2>6, <2>7, Zenon DEF Types
<1>2. CountMatches
    <2>1. {s \in Slots : clients[s] # Free} = {}
        BY DEF Init
    <2> QED  BY <2>1, FS_EmptySet DEF Init, CountMatches
<1>3. MutexHeld /\ FdsDistinct /\ FdsOwned
    BY Constants DEF Init, MutexHeld, FdsDistinct, FdsOwned, Active
<1>4. InboxSorted /\ TakenOnce /\ Latest /\ Served
    BY DEF Init, InboxSorted, TakenOnce, Busy, Latest, Served
<1>5. Agree
    BY DEF Init, Agree, Precedes
<1> QED  BY <1>1, <1>2, <1>3, <1>4, <1>5 DEF Inv

LEMMA InvStep == ASSUME Inv, [Next]_vars PROVE Inv'
<1>1. CASE Next
    BY <1>1, TypesStep, CountStep, MutexStep, DistinctStep, OwnedStep, InboxStep,
       TakenStep, LatestStep, ServedStep, AgreeStep DEF Inv
<1>2. CASE UNCHANGED vars
    <2>1. (Types /\ CountMatches /\ MutexHeld)'
        BY <1>2 DEF vars, world, table, Inv, Types, CountMatches, MutexHeld
    <2>2. (FdsDistinct /\ FdsOwned)'
        BY <1>2 DEF vars, world, table, Inv, FdsDistinct, FdsOwned, Active
    <2>3. (InboxSorted /\ TakenOnce)'
        BY <1>2 DEF vars, world, Inv, InboxSorted, TakenOnce, Past
    <2>4. (Latest /\ Served)'
        BY <1>2 DEF vars, world, table, Inv, Latest, Served, Mine
    <2>5. Agree'
        BY <1>2 DEF vars, Inv, Agree, Precedes
    <2> QED  BY <2>1, <2>2, <2>3, <2>4, <2>5 DEF Inv
<1> QED  BY <1>1, <1>2 DEF vars

LEMMA InvHolds == Spec => []Inv
BY InvInit, InvStep, PTL DEF Spec

\* server.c:159-197 and 235-266: whatever the threads do between close and the mutex, the
\* count is the number of used slots; a client that is let in finds one and gets a thread.
THEOREM CountIsRight == Spec => []CountMatches
BY InvHolds, PTL DEF Inv

LEMMA InvDelivers == ASSUME Inv PROVE Delivery
<1>1. \A c \in Conns : /\ heard[c] \in Seq(Messages) /\ Len(heard[c]) \in Nat
                       /\ DOMAIN heard[c] = 1 .. Len(heard[c])
    BY DEF Inv, Types
<1>2. SameOrder
    <2> SUFFICES ASSUME NEW c \in Conns, NEW d \in Conns,
                        NEW m \in Range(heard[c]), NEW n \in Range(heard[c]),
                        m # n, Before(c, m, n), Before(d, n, m)
                 PROVE  FALSE
        BY DEF SameOrder
    <2>1. m \in Messages /\ n \in Messages
        BY <1>1 DEF Range
    <2>2. Precedes(c, m, n) /\ Precedes(d, n, m)
        BY <1>1 DEF Before, Precedes
    <2> QED  BY <2>1, <2>2 DEF Inv, Agree
<1>3. AllHear
    <2> SUFFICES ASSUME NEW s \in Slots, pc[s] = "write", ~InLoop(at[s]),
                        NEW t \in Slots,
                        clients[t] # Free, pc[t] # "clear", Mine(t) # NoConn
                 PROVE  msg[s] \in Range(heard[Mine(t)])
        BY DEF AllHear
    <2>1. t < at[s]
        BY Constants DEF InLoop, Inv, Types
    <2>2. \E i \in 1 .. Len(heard[Mine(t)]) : heard[Mine(t)][i] = msg[s]
        BY <2>1 DEF Inv, Served
    <2>3. Mine(t) \in Conns
        BY SlotHasFd DEF Inv, CountMatches
    <2> QED  BY <1>1, <2>2, <2>3 DEF Range
<1> QED  BY <1>2, <1>3 DEF Delivery

\* server.c:206-225 and 235-266: for any number of clients, slots and messages, a broadcast
\* reaches every connection that a thread has open and all clients hear all
\* messages in one order, although descriptors are closed and given out again outside
\* the mutex.
THEOREM BroadcastsDeliver == Spec => []Delivery
BY InvHolds, InvDelivers, PTL

-----------------------------------------------------------------------------
\* The client.

ClientTypes ==
    /\ status \in {"up", "exited", "failed", "killed", "crashed"}
    /\ w_pc \in {"read", "input", "size", "body", "ended"}
    /\ r_pc \in {"size", "body", "show", "ended"}
    /\ w_done \in Nat /\ typed \in Nat /\ out \in Nat
    /\ in_sent \in Nat /\ in_read \in Nat /\ r_got \in Nat
    /\ shown \in Seq([last : Nat, units : Nat])

\* Between two messages all lines typed so far are out; inside one, as much of the last
\* line as the thread has written.
Sending ==
    /\ w_pc \in {"read", "input"} => out = typed * Cl!Message
    /\ w_pc = "size" => w_done < SizeUnits /\ out + Cl!Message = typed * Cl!Message + w_done
    /\ w_pc = "body" => w_done < TextUnits /\ out + TextUnits = typed * Cl!Message + w_done

WholeUpTo(n) == \A i \in 1 .. n : shown[i].last = i * Cl!Message /\ shown[i].units = TextUnits

Drained == ~server_up /\ in_read = in_sent

\* The units read are those of the messages shown, and of the one that is being read.
InStep ==
    /\ WholeUpTo(Len(shown))
    /\ r_pc = "size" => r_got < SizeUnits /\ in_read = Len(shown) * Cl!Message + r_got
    /\ r_pc = "body" => r_got < TextUnits /\ in_read = Len(shown) * Cl!Message + SizeUnits + r_got
    /\ r_pc = "show" => r_got = TextUnits /\ in_read = Len(shown) * Cl!Message + SizeUnits + r_got

\* The connection has broken inside a message, and there is nothing left to read.
CutShort ==
    /\ Drained
    /\ \/ r_pc = "body" /\ r_got = 0 /\ WholeUpTo(Len(shown))
       \/ r_pc = "show" /\ r_got < TextUnits /\ WholeUpTo(Len(shown))
       \/ /\ r_pc = "size" /\ r_got = 0 /\ shown # << >>
          /\ WholeUpTo(Len(shown) - 1) /\ shown[Len(shown)].units < TextUnits

Receiving == InStep \/ CutShort \/ (r_pc = "ended" /\ Cl!ShownRight)

\* Who is no longer using the socket, or will stop at the next system call.
WriterOff == w_pc = "ended" \/ Cl!Writer \in cancel
ReaderOff == r_pc = "ended" \/ Cl!Reader \in cancel

Closing ==
    /\ handler \in {"none", "cancel0", "cancel1", "close_chat", "close_connection"}
    /\ Cl!Writer \in joined => w_pc = "ended"
    /\ Cl!Reader \in joined => r_pc = "ended"
    /\ handler \in {"cancel1", "close_chat", "close_connection"} => WriterOff
    /\ handler \in {"close_chat", "close_connection"} => ReaderOff
    /\ serverSocket = "closed" => WriterOff /\ ReaderOff

Buffers ==
    /\ r_pc = "ended" => ~r_buffer
    /\ w_pc \notin {"size", "body"} => ~w_msg
    /\ w_pc = "ended" => (w_buffer => w_failed)

Leaving ==
    /\ c_main = "join1" => joined = {Cl!Writer}
    /\ c_main = "return" => joined = {Cl!Writer, Cl!Reader}
    /\ status = "exited" => windows = "destroyed" /\ joined = {Cl!Writer, Cl!Reader}

ClientInv == ClientTypes /\ Sending /\ Receiving /\ Closing /\ Buffers /\ Leaving

LEMMA Units ==
    /\ SizeUnits \in Nat \ {0} /\ TextUnits \in Nat \ {0}
    /\ Cl!Message \in Nat /\ Cl!Message = SizeUnits + TextUnits
    /\ \A n \in Nat : n * Cl!Message \in Nat /\ (n + 1) * Cl!Message = n * Cl!Message + Cl!Message
<1>1. SizeUnits \in Nat \ {0} /\ TextUnits \in Nat \ {0}
    BY RoomAssumption DEF Cl!ClientAssumption
<1>2. Cl!Message \in Nat /\ Cl!Message = SizeUnits + TextUnits
    BY <1>1 DEF Cl!Message
<1> HIDE DEF Cl!Message
<1>3. \A n, m \in Nat : n * m \in Nat /\ (n + 1) * m = n * m + m
    OBVIOUS
<1> QED  BY <1>1, <1>2, <1>3

LEMMA ClientInit == Cl!CInit => ClientInv
<1> SUFFICES ASSUME Cl!CInit PROVE ClientInv
    OBVIOUS
<1> USE DEF Cl!CInit
<1>1. ClientTypes
    <2>1. << >> \in Seq([last : Nat, units : Nat])
        OBVIOUS
    <2> QED  BY <2>1 DEF ClientTypes
<1>2. Sending /\ InStep
    <2>1. 0 * Cl!Message = 0 /\ Len(<< >>) = 0
        BY Units
    <2> QED  BY <2>1, Units DEF Sending, InStep, WholeUpTo
<1>3. Closing /\ Buffers /\ Leaving
    BY DEF Closing, Buffers, Leaving
<1> QED  BY <1>1, <1>2, <1>3 DEF ClientInv, Receiving

LEMMA ClientShows == ASSUME ClientInv PROVE Cl!ShownRight
<1>1. Len(shown) \in Nat /\ DOMAIN shown = 1 .. Len(shown)
    BY DEF ClientInv, ClientTypes
<1>2. CASE InStep
    BY <1>1, <1>2 DEF InStep, WholeUpTo, Cl!ShownRight
<1>3. CASE CutShort
    BY <1>1, <1>3 DEF CutShort, Drained, WholeUpTo, Cl!ShownRight
<1> QED  BY <1>2, <1>3 DEF ClientInv, Receiving

LEMMA ClientPromise == ASSUME ClientInv PROVE Cl!ClientRight
<1>1. serverSocket = "closed" => (w_pc = "ended" \/ Cl!Writer \in cancel) /\
                                 (r_pc = "ended" \/ Cl!Reader \in cancel)
    BY DEF ClientInv, Closing, WriterOff, ReaderOff
<1>2. /\ r_pc = "ended" => ~r_buffer
      /\ w_pc = "ended" => ~w_msg /\ (w_buffer => w_failed)
    BY DEF ClientInv, Buffers
<1>3. w_pc \in {"read", "input"} => out = typed * Cl!Message
    BY DEF ClientInv, Sending
<1>4. status = "exited" => windows = "destroyed" /\ joined = {Cl!Writer, Cl!Reader}
    BY DEF ClientInv, Leaving
<1> QED  BY <1>1, <1>2, <1>3, <1>4, ClientShows DEF Cl!ClientRight


\* What a thread leaves alone stays right.
LEMMA SendingKept ==
    ASSUME ClientInv, UNCHANGED <<w_pc, w_done, typed, out>>
    PROVE  Sending'
BY DEF ClientInv, Sending

LEMMA ReceivingKept ==
    ASSUME ClientInv, UNCHANGED <<server_up, in_sent, in_read, r_pc, r_got, shown>>
    PROVE  Receiving'
BY DEF ClientInv, Receiving, InStep, CutShort, Drained, WholeUpTo, Cl!ShownRight

LEMMA ClosingKept ==
    ASSUME ClientInv, UNCHANGED <<handler, joined, cancel, serverSocket>>,
           w_pc' = w_pc \/ w_pc # "ended", r_pc' = r_pc \/ r_pc # "ended"
    PROVE  Closing'
<1>1. WriterOff => WriterOff'
    BY DEF WriterOff
<1>2. ReaderOff => ReaderOff'
    BY DEF ReaderOff
<1>3. (w_pc = "ended" => w_pc' = "ended") /\ (r_pc = "ended" => r_pc' = "ended")
    OBVIOUS
<1> QED  BY <1>1, <1>2, <1>3 DEF ClientInv, Closing

LEMMA MainInv ==
    ASSUME ClientInv, Cl!MainThread
    PROVE  ClientInv'
<1>1. /\ UNCHANGED <<handler, cancel, closeChat, server_up, in_sent>>
      /\ UNCHANGED <<w_pc, w_done, w_buffer, w_msg, w_failed, typed, out>>
      /\ UNCHANGED <<r_pc, r_got, r_buffer, shown, in_read>>
      /\ status = "up"
    BY DEF Cl!MainThread, Cl!InMain, Cl!netvars, Cl!writervars, Cl!readervars
<1>2. PICK step \in {1, 2, 3, 4, 5} :
         \/ step = 1 /\ Cl!create_windows
         \/ step = 2 /\ Cl!connect_to_server
         \/ step = 3 /\ Cl!pthread_create
         \/ step = 4 /\ Cl!pthread_join
         \/ step = 5 /\ Cl!destroy_windows
    BY DEF Cl!MainThread
<1>3. status' \in {"up", "exited", "failed", "killed", "crashed"}
    BY <1>1, <1>2 DEF Cl!create_windows, Cl!connect_to_server, Cl!pthread_create,
                      Cl!pthread_join, Cl!destroy_windows
<1>4. ClientTypes'
    BY <1>1, <1>3 DEF ClientInv, ClientTypes
<1>5. Sending' /\ Receiving'
    BY <1>1, SendingKept, ReceivingKept
<1>6. Closing'
    <2>1. /\ serverSocket' = "closed" => serverSocket = "closed"
          /\ Cl!Writer \in joined' => Cl!Writer \in joined \/ w_pc = "ended"
          /\ Cl!Reader \in joined' => Cl!Reader \in joined \/ r_pc = "ended"
        <3>1. Cl!Writer # Cl!Reader
            BY DEF Cl!Writer, Cl!Reader
        <3>2. CASE Cl!pthread_join
            BY <3>1, <3>2 DEF Cl!pthread_join, ClientInv, Closing, Leaving
        <3>3. CASE ~Cl!pthread_join
            BY <1>2, <3>3 DEF Cl!create_windows, Cl!connect_to_server, Cl!pthread_create,
                              Cl!destroy_windows
        <3> QED  BY <3>2, <3>3
    <2> QED  BY <1>1, <2>1 DEF ClientInv, Closing, WriterOff, ReaderOff
<1>7. Buffers'
    BY <1>1 DEF ClientInv, Buffers
<1>8. Leaving'
    BY <1>1, <1>2 DEF Cl!create_windows, Cl!connect_to_server, Cl!pthread_create,
                      Cl!pthread_join, Cl!destroy_windows, ClientInv, Leaving
<1> QED  BY <1>4, <1>5, <1>6, <1>7, <1>8 DEF ClientInv

LEMMA HandlerInv ==
    ASSUME ClientInv, Cl!Sigint \/ Cl!HandlerStep
    PROVE  ClientInv'
<1>1. /\ UNCHANGED <<windows, c_main, started, joined, server_up, in_sent>>
      /\ UNCHANGED <<w_pc, w_done, w_buffer, w_msg, w_failed, typed, out>>
      /\ UNCHANGED <<r_pc, r_got, r_buffer, shown, in_read>>
      /\ status = "up" /\ status' \in {"up", "crashed"}
    BY DEF Cl!Sigint, Cl!HandlerStep, Cl!InMain, Cl!close_program, Cl!pthread_cancel,
           Cl!mainvars, Cl!netvars, Cl!writervars, Cl!readervars
<1>2. ClientTypes'
    BY <1>1 DEF ClientInv, ClientTypes
<1>3. Sending' /\ Receiving'
    BY <1>1, SendingKept, ReceivingKept
<1>4. Closing'
    <2>1. CASE Cl!Sigint
        BY <1>1, <2>1 DEF Cl!Sigint, ClientInv, Closing, WriterOff, ReaderOff
    <2>2. CASE Cl!HandlerStep
        <3>1. Cl!close_program /\ cancel \subseteq cancel'
            BY <2>2 DEF Cl!HandlerStep, Cl!close_program, Cl!pthread_cancel
        <3>2. (WriterOff => WriterOff') /\ (ReaderOff => ReaderOff')
            BY <1>1, <3>1 DEF WriterOff, ReaderOff
        <3>3. CASE handler = "cancel0"
            BY <1>1, <3>1, <3>2, <3>3 DEF Cl!close_program, Cl!pthread_cancel, ClientInv, Closing,
                                          WriterOff
        <3>4. CASE handler = "cancel1"
            BY <1>1, <3>1, <3>2, <3>4 DEF Cl!close_program, Cl!pthread_cancel, ClientInv, Closing,
                                          ReaderOff
        <3>5. CASE handler \in {"close_chat", "close_connection"}
            BY <1>1, <3>1, <3>2, <3>5 DEF Cl!close_program, ClientInv, Closing
        <3> QED  BY <3>1, <3>3, <3>4, <3>5 DEF Cl!close_program
    <2> QED  BY <2>1, <2>2
<1>5. Buffers' /\ Leaving'
    BY <1>1 DEF ClientInv, Buffers, Leaving
<1> QED  BY <1>2, <1>3, <1>4, <1>5 DEF ClientInv

LEMMA ServerEndInv ==
    ASSUME ClientInv, Cl!ServerSends \/ Cl!ServerCloses
    PROVE  ClientInv'
<1>1. /\ UNCHANGED <<status, windows, c_main, started, joined>>
      /\ UNCHANGED <<handler, cancel, serverSocket>>
      /\ UNCHANGED <<w_pc, w_done, w_buffer, w_msg, w_failed, typed, out>>
      /\ UNCHANGED <<r_pc, r_got, r_buffer, shown, in_read>>
      /\ server_up
    BY DEF Cl!ServerSends, Cl!ServerCloses, Cl!mainvars, Cl!sigvars, Cl!writervars, Cl!readervars
<1>2. in_sent' \in Nat
    BY DEF Cl!ServerSends, Cl!ServerCloses, ClientInv, ClientTypes
<1>3. ClientTypes'
    BY <1>1, <1>2 DEF ClientInv, ClientTypes
<1>4. Sending' /\ Closing'
    BY <1>1, SendingKept, ClosingKept
<1>5. Receiving'
    <2>1. InStep => InStep'
        BY <1>1 DEF InStep, WholeUpTo
    <2>2. ~CutShort
        BY <1>1 DEF CutShort, Drained
    <2>3. Cl!ShownRight => Cl!ShownRight'
        BY <1>1 DEF Cl!ShownRight
    <2> QED  BY <1>1, <2>1, <2>2, <2>3 DEF ClientInv, Receiving
<1>6. Buffers' /\ Leaving'
    BY <1>1 DEF ClientInv, Buffers, Leaving
<1> QED  BY <1>3, <1>4, <1>5, <1>6 DEF ClientInv


\* The thread that sends.
LEMMA WriterInv ==
    ASSUME ClientInv, Cl!WriterThread
    PROVE  ClientInv'
<1>1. /\ UNCHANGED <<windows, c_main, started, joined>>
      /\ UNCHANGED <<handler, cancel, serverSocket, server_up, in_sent>>
      /\ UNCHANGED <<r_pc, r_got, r_buffer, shown, in_read>>
      /\ status = "up" /\ w_pc # "ended"
    BY DEF Cl!WriterThread, Cl!WriterWorks, Cl!WriterCancelled, Cl!AskForLine,
           Cl!write_all_to_socket, Cl!write_fails, Cl!read_message_from_screen, Cl!WriterRuns,
           Cl!UnchangedByWriter, Cl!sigvars, Cl!netvars, Cl!readervars
<1>2. Receiving' /\ Closing'
    BY <1>1, ReceivingKept, ClosingKept
<1>3. status' \in {"up", "killed"}
    BY <1>1 DEF Cl!WriterThread, Cl!WriterWorks, Cl!WriterCancelled, Cl!AskForLine,
                Cl!write_all_to_socket, Cl!write_fails, Cl!read_message_from_screen
<1>4. Leaving'
    BY <1>1, <1>3 DEF ClientInv, Leaving
<1>5. SUFFICES /\ w_pc' \in {"read", "input", "size", "body", "ended"}
               /\ w_done' \in Nat /\ typed' \in Nat /\ out' \in Nat
               /\ Sending' /\ Buffers'
    BY <1>1, <1>2, <1>3, <1>4 DEF ClientInv, ClientTypes
<1>6. /\ w_pc \in {"read", "input", "size", "body", "ended"}
      /\ w_done \in Nat /\ typed \in Nat /\ out \in Nat
    BY DEF ClientInv, ClientTypes
<1>7. CASE Cl!WriterCancelled
    BY <1>1, <1>6, <1>7 DEF Cl!WriterCancelled, ClientInv, Sending, Buffers
<1>8. CASE Cl!AskForLine
    BY <1>1, <1>6, <1>8 DEF Cl!AskForLine, ClientInv, Sending, Buffers
<1>9. CASE Cl!read_message_from_screen
    <2>1. /\ w_pc = "input" /\ w_done' = 0 /\ UNCHANGED <<w_failed, out>>
          /\ \/ w_pc' = "ended" /\ ~w_msg' /\ ~w_buffer' /\ typed' \in {typed, typed + 1}
             \/ w_pc' = "size" /\ typed' = typed + 1
        BY <1>9 DEF Cl!read_message_from_screen
    <2>2. w_pc' = "size" => out + Cl!Message = typed' * Cl!Message
        BY <1>6, <2>1, Units DEF ClientInv, Sending
    <2>3. typed' \in Nat
        BY <1>6, <2>1
    <2>4. Sending'
        <3>0. 0 < SizeUnits /\ \A m \in Nat : m * Cl!Message \in Nat
            BY Units
        <3>1. typed' * Cl!Message \in Nat /\ 0 < SizeUnits
            BY <2>3, <3>0
        <3>2. typed' * Cl!Message + 0 = typed' * Cl!Message
            BY <3>1
        <3> QED  BY <2>1, <2>2, <3>1, <3>2 DEF Sending
    <2>5. Buffers'
        BY <1>1, <2>1 DEF ClientInv, Buffers
    <2> QED  BY <1>6, <2>1, <2>3, <2>4, <2>5
<1>10. CASE Cl!write_all_to_socket
    <2>1. PICK n \in 1 .. Cl!Part(w_pc) - w_done :
             /\ out' = out + n
             /\ IF w_done + n < Cl!Part(w_pc)
                THEN w_done' = w_done + n /\ UNCHANGED <<w_pc, w_msg>>
                ELSE /\ w_done' = 0
                     /\ w_pc' = IF w_pc = "size" THEN "body" ELSE "read"
                     /\ w_msg' = (w_pc = "size")
        BY <1>10 DEF Cl!write_all_to_socket
    <2>2. w_pc \in {"size", "body"} /\ UNCHANGED <<w_buffer, w_failed, typed>>
        BY <1>10 DEF Cl!write_all_to_socket
    <2>3. /\ w_pc = "size" => Cl!Part(w_pc) = SizeUnits
          /\ w_pc = "body" => Cl!Part(w_pc) = TextUnits
          /\ Cl!Part(w_pc) \in Nat
        BY <2>2, Units DEF Cl!Part
    <2>4. n \in Nat /\ w_done + n <= Cl!Part(w_pc)
        BY <1>6, <2>1, <2>3
    <2>5. w_done' \in Nat /\ out' \in Nat /\ w_pc' \in {"read", "size", "body"}
        BY <1>6, <2>1, <2>2, <2>4
    <2>6. Sending'
        <3>1. typed * Cl!Message \in Nat /\ Cl!Message = SizeUnits + TextUnits
            BY <1>6, Units
        <3> DEFINE total == typed * Cl!Message
        <3>2. /\ w_pc = "size" => out + Cl!Message = total + w_done
              /\ w_pc = "body" => out + TextUnits = total + w_done
            BY DEF ClientInv, Sending
        <3>3. total \in Nat /\ typed' * Cl!Message = total
            BY <2>2, <3>1
        <3> HIDE DEF total
        <3>4. CASE w_done + n < Cl!Part(w_pc)
            <4>1. w_done' = w_done + n /\ w_pc' = w_pc /\ out' = out + n
                BY <2>1, <3>4
            <4> QED  BY <1>6, <2>2, <2>3, <2>4, <3>1, <3>2, <3>3, <3>4, <4>1, Units DEF Sending
        <3>5. CASE ~(w_done + n < Cl!Part(w_pc))
            <4>1. /\ w_done' = 0 /\ w_pc' = (IF w_pc = "size" THEN "body" ELSE "read")
                  /\ out' = out + n /\ w_done + n = Cl!Part(w_pc)
                BY <1>6, <2>1, <2>3, <2>4, <3>5
            <4> QED  BY <1>6, <2>2, <2>3, <2>4, <3>1, <3>2, <3>3, <4>1, Units DEF Sending
        <3> QED  BY <3>4, <3>5
    <2>7. Buffers'
        <3>1. w_pc' = "read" => ~w_msg'
            BY <2>1, <2>2
        <3> QED  BY <1>1, <2>2, <2>5, <3>1 DEF ClientInv, Buffers
    <2> QED  BY <1>6, <2>2, <2>5, <2>6, <2>7
<1>11. CASE Cl!write_fails
    <2>1. /\ UNCHANGED <<w_done, w_buffer, typed, out>>
          /\ \/ UNCHANGED <<w_pc, w_msg, w_failed>>
             \/ w_pc' = "ended" /\ ~w_msg' /\ w_failed'
        BY <1>11 DEF Cl!write_fails
    <2> QED  BY <1>1, <1>6, <2>1 DEF ClientInv, Sending, Buffers
<1> QED  BY <1>7, <1>8, <1>9, <1>10, <1>11 DEF Cl!WriterThread, Cl!WriterWorks


\* The thread that shows.
LEMMA ReaderInv ==
    ASSUME ClientInv, Cl!ReaderThread
    PROVE  ClientInv'
<1>1. /\ UNCHANGED <<status, windows, c_main, started, joined>>
      /\ UNCHANGED <<handler, cancel, serverSocket, server_up, in_sent>>
      /\ UNCHANGED <<w_pc, w_done, w_buffer, w_msg, w_failed, typed, out>>
      /\ r_pc # "ended"
    BY DEF Cl!ReaderThread, Cl!ReaderCancelled, Cl!read_all_from_socket, Cl!read_ends,
           Cl!write_message_to_screen, Cl!ReaderRuns, Cl!UnchangedByReader, Cl!mainvars,
           Cl!sigvars, Cl!netvars, Cl!writervars
<1>2. Sending' /\ Closing' /\ Leaving'
    <2>1. Leaving'
        BY <1>1 DEF ClientInv, Leaving
    <2> QED  BY <1>1, <2>1, SendingKept, ClosingKept
<1>3. SUFFICES /\ r_pc' \in {"size", "body", "show", "ended"}
               /\ r_got' \in Nat /\ in_read' \in Nat
               /\ shown' \in Seq([last : Nat, units : Nat])
               /\ Receiving' /\ (r_pc' = "ended" => ~r_buffer')
    BY <1>1, <1>2 DEF ClientInv, ClientTypes, Buffers
<1>4. /\ r_pc \in {"size", "body", "show", "ended"}
      /\ r_got \in Nat /\ in_read \in Nat /\ in_sent \in Nat
      /\ shown \in Seq([last : Nat, units : Nat])
      /\ Len(shown) \in Nat /\ Len(shown) * Cl!Message \in Nat
    BY Units DEF ClientInv, ClientTypes
<1>5. InStep \/ CutShort
    BY <1>1 DEF ClientInv, Receiving
<1> DEFINE total == Len(shown) * Cl!Message
<1>6. CASE Cl!ReaderCancelled
    <2>1. r_pc' = "ended" /\ ~r_buffer' /\ UNCHANGED <<r_got, shown, in_read>>
        BY <1>6 DEF Cl!ReaderCancelled
    <2>2. Cl!ShownRight'
        BY <1>1, <2>1, ClientShows DEF Cl!ShownRight
    <2> QED  BY <1>4, <2>1, <2>2 DEF Receiving
<1>7. CASE Cl!read_all_from_socket
    <2>1. PICK n \in 1 .. Cl!Part(r_pc) - r_got :
             /\ in_read + n <= in_sent /\ in_read' = in_read + n
             /\ IF r_got + n < Cl!Part(r_pc) THEN r_got' = r_got + n /\ UNCHANGED <<r_pc, r_buffer>>
                ELSE /\ r_got' = IF r_pc = "size" THEN 0 ELSE r_got + n
                     /\ r_pc' = IF r_pc = "size" THEN "body" ELSE "show"
                     /\ r_buffer' = TRUE
        BY <1>7 DEF Cl!read_all_from_socket
    <2>2. r_pc \in {"size", "body"} /\ shown' = shown
        BY <1>7 DEF Cl!read_all_from_socket
    <2>3. /\ r_pc = "size" => Cl!Part(r_pc) = SizeUnits
          /\ r_pc = "body" => Cl!Part(r_pc) = TextUnits
          /\ Cl!Part(r_pc) \in Nat
        BY <2>2, Units DEF Cl!Part
    <2>4. n \in Nat /\ n >= 1 /\ r_got + n <= Cl!Part(r_pc)
        BY <1>4, <2>1, <2>3
    <2>5. InStep
        BY <1>4, <1>5, <2>1, <2>4 DEF CutShort, Drained
    <2>6. r_got' \in Nat /\ in_read' \in Nat /\ r_pc' \in {"size", "body", "show"}
        BY <1>4, <2>1, <2>2, <2>4
    <2>7. InStep'
        <3>1. WholeUpTo(Len(shown))' /\ Len(shown') * Cl!Message = total
            BY <2>2, <2>5 DEF InStep, WholeUpTo
        <3>2. total \in Nat
            BY <1>4
        <3>3. /\ r_pc = "size" => in_read = total + r_got
              /\ r_pc = "body" => in_read = total + SizeUnits + r_got
            BY <2>5 DEF InStep
        <3> HIDE DEF total
        <3>6. SizeUnits \in Nat /\ TextUnits \in Nat /\ 0 < TextUnits
            BY Units
        <3>7. /\ r_pc' = "size" => r_got' < SizeUnits /\ in_read' = total + r_got'
              /\ r_pc' = "body" => r_got' < TextUnits /\ in_read' = total + SizeUnits + r_got'
              /\ r_pc' = "show" => r_got' = TextUnits /\ in_read' = total + SizeUnits + r_got'
            <4>0. r_got \in Nat /\ in_read \in Nat
                BY <1>4
            <4>1. CASE r_got + n < Cl!Part(r_pc)
                <5>1. r_got' = r_got + n /\ r_pc' = r_pc /\ in_read' = in_read + n
                    BY <2>1, <4>1
                <5> QED  BY <2>2, <2>3, <2>4, <3>2, <3>3, <3>6, <4>0, <4>1, <5>1
            <4>2. CASE ~(r_got + n < Cl!Part(r_pc))
                <5>1. /\ r_got' = (IF r_pc = "size" THEN 0 ELSE r_got + n)
                      /\ r_pc' = (IF r_pc = "size" THEN "body" ELSE "show")
                      /\ in_read' = in_read + n
                    BY <2>1, <4>2
                <5>2. r_got + n = Cl!Part(r_pc)
                    BY <2>3, <2>4, <4>0, <4>2
                <5> QED  BY <2>2, <2>3, <2>4, <3>2, <3>3, <3>6, <4>0, <5>1, <5>2
            <4> QED  BY <4>1, <4>2
        <3> QED  BY <3>1, <3>7 DEF InStep
    <2> QED  BY <1>4, <2>2, <2>6, <2>7 DEF Receiving
<1>8. CASE Cl!read_ends
    <2>1. /\ Cl!Reader \notin cancel /\ r_pc \in {"size", "body"} /\ UNCHANGED <<shown, in_read>>
          /\ serverSocket = "closed" \/ (~server_up /\ in_read = in_sent)
          /\ IF r_got = 0 THEN r_pc' = "ended" /\ r_buffer' = FALSE /\ r_got' = 0
             ELSE IF r_pc = "size" THEN r_pc' = "body" /\ r_buffer' = TRUE /\ r_got' = 0
             ELSE r_pc' = "show" /\ UNCHANGED <<r_buffer, r_got>>
        BY <1>8 DEF Cl!read_ends
    <2>2. Drained'
        BY <1>1, <2>1 DEF ClientInv, Closing, ReaderOff, Drained
    <2>3. CASE r_got = 0
        <3>1. Cl!ShownRight'
            BY <1>1, <2>1, ClientShows DEF Cl!ShownRight
        <3> QED  BY <1>4, <2>1, <2>3, <3>1 DEF Receiving
    <2>4. CASE r_got # 0
        <3>1. InStep
            BY <1>5, <2>1, <2>4 DEF CutShort
        <3>2. WholeUpTo(Len(shown))'
            BY <2>1, <3>1 DEF InStep, WholeUpTo
        <3>3. r_pc = "body" => r_got < TextUnits
            BY <3>1 DEF InStep
        <3>4. CutShort'
            BY <2>1, <2>2, <2>4, <3>2, <3>3 DEF CutShort
        <3> QED  BY <1>4, <2>1, <2>4, <3>4 DEF Receiving
    <2> QED  BY <2>3, <2>4
<1>9. CASE Cl!write_message_to_screen
    <2> DEFINE new == [last |-> in_read, units |-> r_got]
               Frame == [last : Nat, units : Nat]
    <2>1. /\ r_pc = "show" /\ in_read' = in_read
          /\ shown' = Append(shown, new)
          /\ ~r_buffer' /\ r_got' = 0 /\ r_pc' = "size"
        BY <1>9 DEF Cl!write_message_to_screen
    <2>2. new \in Frame /\ shown \in Seq(Frame) /\ new.last = in_read /\ new.units = r_got
        BY <1>4
    <2> HIDE DEF new, Frame
    <2>3. /\ shown' \in Seq(Frame) /\ Len(shown') = Len(shown) + 1
          /\ shown'[Len(shown')] = new /\ shown' # << >>
          /\ \A i \in 1 .. Len(shown) : shown'[i] = shown[i]
        BY <2>1, <2>2
    <2>4. WholeUpTo(Len(shown))
        BY <1>5, <2>1 DEF InStep, CutShort
    <2>5. \A i \in 1 .. Len(shown) :
             shown'[i].last = i * Cl!Message /\ shown'[i].units = TextUnits
        BY <2>3, <2>4 DEF WholeUpTo
    <2>6. CASE InStep
        <3>1. r_got = TextUnits /\ in_read = total + SizeUnits + TextUnits
            BY <2>1, <2>6 DEF InStep
        <3>2. Len(shown') * Cl!Message = total + Cl!Message
            BY <1>4, <2>3, Units
        <3>3. in_read = Len(shown') * Cl!Message
            BY <1>4, <3>1, <3>2, Units
        <3>4. \A i \in 1 .. Len(shown') : i \in 1 .. Len(shown) \/ i = Len(shown')
            BY <1>4, <2>3
        <3>5. \A i \in 1 .. Len(shown') :
                 shown'[i].last = i * Cl!Message /\ shown'[i].units = TextUnits
            BY <2>2, <2>3, <2>5, <3>1, <3>3, <3>4
        <3>6. WholeUpTo(Len(shown))'
            BY <3>5 DEF WholeUpTo
        <3>7. in_read' = Len(shown') * Cl!Message + r_got' /\ r_got' < SizeUnits
            BY <1>4, <2>1, <3>3, Units
        <3>8. InStep'
            BY <2>1, <3>6, <3>7 DEF InStep
        <3> QED  BY <1>4, <2>1, <2>3, <3>8 DEF Receiving, Frame
    <2>7. CASE CutShort
        <3>1. Drained' /\ r_got < TextUnits
            BY <1>1, <2>1, <2>7 DEF CutShort, Drained
        <3>2. Len(shown') - 1 = Len(shown)
            BY <1>4, <2>3
        <3>3. WholeUpTo(Len(shown) - 1)'
            BY <2>5, <3>2 DEF WholeUpTo
        <3>4. CutShort'
            BY <2>1, <2>2, <2>3, <3>1, <3>3 DEF CutShort
        <3> QED  BY <1>4, <2>1, <2>3, <3>4 DEF Receiving, Frame
    <2> QED  BY <1>5, <2>6, <2>7
<1> QED  BY <1>6, <1>7, <1>8, <1>9 DEF Cl!ReaderThread

\* server.c:159-266: the server of the composed system, which runs or stays idle, keeps the
\* count and delivers too.
THEOREM ServerStaysRight == RoomSpec => [](CountMatches /\ Delivery)
<1>1. RoomInit => Inv
    BY InvInit DEF RoomInit
<1>2. Inv /\ [RoomNext]_allvars => Inv'
    BY InvStep DEF RoomNext, allvars
<1>3. Inv => CountMatches /\ Delivery
    BY InvDelivers DEF Inv
<1> QED  BY <1>1, <1>2, <1>3, PTL DEF RoomSpec

\* client.c:121-197, utils.c:54-99, in the composed system: whatever the lengths of reads
\* and writes, the user, the server and SIGINT do, the client sends and shows whole messages
\* in order, the last one alone may be cut by a broken connection; it closes its
\* socket only under threads that have ended or are cancelled, and leaves no buffer behind
\* unless the writer's last write failed.
THEOREM ClientStaysRight == RoomSpec => []ClientRight
<1>1. RoomInit => ClientInv
    BY ClientInit DEF RoomInit
<1>2. ASSUME ClientInv, [RoomNext]_allvars PROVE ClientInv'
    <2>1. CASE UNCHANGED clientvars
        <3>1. /\ UNCHANGED <<status, windows, c_main, started, joined>>
              /\ UNCHANGED <<handler, cancel, serverSocket, server_up, in_sent>>
              /\ UNCHANGED <<w_pc, w_done, w_buffer, w_msg, w_failed, typed, out>>
              /\ UNCHANGED <<r_pc, r_got, r_buffer, shown, in_read>>
            BY <2>1 DEF clientvars
        <3>2. Sending' /\ Receiving' /\ Closing'
            BY <1>2, <3>1, SendingKept, ReceivingKept, ClosingKept
        <3>3. ClientTypes' /\ Buffers' /\ Leaving'
            BY <1>2, <3>1 DEF ClientInv, ClientTypes, Buffers, Leaving
        <3> QED  BY <3>2, <3>3 DEF ClientInv
    <2>2. CASE Cl!CNext
        BY <1>2, <2>2, MainInv, HandlerInv, ServerEndInv, WriterInv, ReaderInv DEF Cl!CNext
    <2> QED  BY <1>2, <2>1, <2>2 DEF RoomNext, allvars
<1>3. ClientInv => ClientRight
    BY ClientPromise DEF ClientRight
<1> QED  BY <1>1, <1>2, <1>3, PTL DEF RoomSpec
=============================================================================
