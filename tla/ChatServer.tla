----------------------------- MODULE ChatServer -----------------------------
(***************************************************************************)
(* charming_chatroom/server.c: main accepts connections, one thread per    *)
(* slot of clients[] reads messages and broadcasts each under the mutex.   *)
(* Descriptors are numbers that the kernel gives out again, lowest first;  *)
(* fds says which connection an open one stands for.  A message is named   *)
(* by its sender and a number, and arrives as a whole or not at all.       *)
(***************************************************************************)
EXTENDS Integers, Sequences, FiniteSets, FiniteSetsExt, Functions

CONSTANTS
    Conns,          \* clients, one connection each
    MAX_CLIENTS,
    Talkers,        \* the clients that send messages
    MaxMsgs,        \* bound on the messages such a client sends
    NoConn

ASSUME ChatAssumption ==
    /\ MAX_CLIENTS \in Nat \ {0}
    /\ Talkers \subseteq Conns /\ MaxMsgs \in Nat
    /\ NoConn \notin Conns /\ IsFiniteSet(Conns)

Slots == 0 .. MAX_CLIENTS - 1
FDs == 1 .. Cardinality(Conns)
Free == -1
VARIABLES
    server,         \* "up", or "killed" by SIGPIPE or a failed accept
    endSession, clientsCount, clients,
    fds,            \* the connection of each descriptor, or NoConn
    mutex,          \* the slot whose thread holds it, or Free
    main,           \* "test", "call", "accept", "admit", "cleanup", "done"
    newFd,          \* client_fd in run_server
    pc,             \* where the thread of a slot is, "none" without one
    msg, at,        \* the message it broadcasts, and the loop's index
    peer,           \* the client: "idle", "queued", "accepted", "gone"
    nsent, inbox,   \* messages it sent, messages that wait to be read
    heard           \* messages it was sent by the server

world == <<peer, nsent, inbox>>
table == <<clientsCount, clients>>
vars == <<server, endSession, table, fds, mutex, main, newFd, pc, msg, at, world,
          heard>>

Init ==
    /\ server = "up" /\ endSession = FALSE
    /\ clientsCount = 0 /\ clients = [s \in Slots |-> Free]
    /\ fds = [f \in FDs |-> NoConn]
    /\ mutex = Free /\ main = "test" /\ newFd = Free
    /\ pc = [s \in Slots |-> "none"]
    /\ msg = [s \in Slots |-> <<>>] /\ at = [s \in Slots |-> 0]
    /\ peer = [c \in Conns |-> "idle"]
    /\ nsent = [c \in Conns |-> 0]
    /\ inbox = [c \in Conns |-> <<>>] /\ heard = [c \in Conns |-> <<>>]

Up == server = "up"
Open(c) == c \in Range(fds)

-----------------------------------------------------------------------------
(* The clients.                                                             *)

Connect(c) ==
    /\ Up /\ peer[c] = "idle" /\ main \notin {"cleanup", "done"}
    /\ peer' = [peer EXCEPT ![c] = "queued"]
    /\ UNCHANGED <<server, endSession, table, fds, mutex, main, newFd, pc, msg, at,
                   nsent, inbox, heard>>

SendMessage(c) ==
    /\ Up /\ peer[c] = "accepted" /\ Open(c)
    /\ c \in Talkers /\ nsent[c] < MaxMsgs
    /\ nsent' = [nsent EXCEPT ![c] = @ + 1]
    /\ inbox' = [inbox EXCEPT ![c] = Append(@, <<c, nsent[c] + 1>>)]
    /\ UNCHANGED <<server, endSession, table, fds, mutex, main, newFd, pc, msg, at,
                   peer, heard>>

Disconnect(c) ==
    /\ Up /\ peer[c] = "accepted"
    /\ peer' = [peer EXCEPT ![c] = "gone"]
    /\ UNCHANGED <<server, endSession, table, fds, mutex, main, newFd, pc, msg, at,
                   nsent, inbox, heard>>

-----------------------------------------------------------------------------
(* run_server, close_server, cleanup.                                       *)

TestEnd ==
    /\ Up /\ main = "test"
    /\ main' = IF endSession THEN "cleanup" ELSE "call"
    /\ UNCHANGED <<server, endSession, table, fds, mutex, newFd, pc, msg, at, world,
                   heard>>

\* main is in accept, where a signal interrupts it.
EnterAccept ==
    /\ Up /\ main = "call"
    /\ main' = "accept"
    /\ UNCHANGED <<server, endSession, table, fds, mutex, newFd, pc, msg, at, world,
                   heard>>

Accept(c) ==
    /\ Up /\ main = "accept" /\ peer[c] = "queued"
    /\ newFd' = Min({f \in FDs : fds[f] = NoConn})
    /\ fds' = [fds EXCEPT ![newFd'] = c]
    /\ peer' = [peer EXCEPT ![c] = "accepted"]
    /\ main' = "admit"
    /\ UNCHANGED <<server, endSession, table, mutex, pc, msg, at, nsent, inbox, heard>>

\* accept fails, not with EINTR: exit(1).
AcceptFails ==
    /\ Up /\ main = "accept"
    /\ server' = "killed"
    /\ UNCHANGED <<endSession, table, fds, mutex, main, newFd, pc, msg, at, world, heard>>

Full == clientsCount = MAX_CLIENTS

\* Under the mutex: a client too many is shut down.
Refuse ==
    /\ Up /\ main = "admit" /\ mutex = Free /\ Full
    /\ fds' = [fds EXCEPT ![newFd] = NoConn]
    /\ newFd' = Free /\ main' = "test"
    /\ UNCHANGED <<server, endSession, table, mutex, pc, msg, at, world, heard>>

\* Under the mutex: the first free slot, if there is one, gets a thread.
Admit ==
    /\ Up /\ main = "admit" /\ mutex = Free /\ ~Full
    /\ clientsCount' = clientsCount + 1
    /\ LET unused == {s \in Slots : clients[s] = Free} IN
       IF unused = {} THEN UNCHANGED <<clients, pc>>
       ELSE /\ clients' = [clients EXCEPT ![Min(unused)] = newFd]
            /\ pc' = [pc EXCEPT ![Min(unused)] = "loop"]
    /\ newFd' = Free /\ main' = "test"
    /\ UNCHANGED <<server, endSession, fds, mutex, msg, at, world, heard>>

\* SIGINT: the flag is set; accept fails with EINTR if main is in it.
close_server ==
    /\ Up /\ ~endSession
    /\ endSession' = TRUE
    /\ main' = IF main = "accept" THEN "cleanup" ELSE main
    /\ UNCHANGED <<server, table, fds, mutex, newFd, pc, msg, at, world, heard>>

\* Every descriptor in clients[] is shut down and closed, without the mutex.
cleanup ==
    /\ Up /\ main = "cleanup"
    /\ fds' = [f \in FDs |-> IF f \in Range(clients) THEN NoConn ELSE fds[f]]
    /\ main' = "done"
    /\ UNCHANGED <<server, endSession, table, mutex, newFd, pc, msg, at, world, heard>>

-----------------------------------------------------------------------------
(* process_client of slot s.                                                *)

\* The connection its descriptor stands for now, NoConn if it is closed.
Mine(s) == fds[clients[s]]

Loop(s) ==
    /\ Up /\ pc[s] = "loop"
    /\ pc' = [pc EXCEPT ![s] = IF endSession THEN "leave" ELSE "read"]
    /\ UNCHANGED <<server, endSession, table, fds, mutex, main, newFd, msg, at, world,
                   heard>>

ReadMessage(s) ==
    /\ Up /\ pc[s] = "read" /\ Mine(s) # NoConn /\ inbox[Mine(s)] # <<>>
    /\ msg' = [msg EXCEPT ![s] = Head(inbox[Mine(s)])]
    /\ inbox' = [inbox EXCEPT ![Mine(s)] = Tail(@)]
    /\ pc' = [pc EXCEPT ![s] = "lock"]
    /\ UNCHANGED <<server, endSession, table, fds, mutex, main, newFd, at, peer, nsent,
                   heard>>

\* End of file, or the descriptor was shut down by cleanup.
ReadEnd(s) ==
    /\ Up /\ pc[s] = "read"
    /\ \/ Mine(s) = NoConn
       \/ Mine(s) # NoConn /\ inbox[Mine(s)] = <<>> /\ peer[Mine(s)] = "gone"
    /\ pc' = [pc EXCEPT ![s] = "leave"]
    /\ UNCHANGED <<server, endSession, table, fds, mutex, main, newFd, msg, at, world,
                   heard>>

Lock(s) ==
    /\ Up /\ pc[s] = "lock" /\ mutex = Free
    /\ mutex' = s
    /\ at' = [at EXCEPT ![s] = 0]
    /\ pc' = [pc EXCEPT ![s] = "write"]
    /\ UNCHANGED <<server, endSession, table, fds, main, newFd, msg, world, heard>>

\* Mutant: the last slot is left out.
InLoopShort(i) == i < MAX_CLIENTS - 1

InLoop(i) == i < MAX_CLIENTS

\* Whom the loop writes to: whatever connection the descriptor is open for.
Target(s) == LET fd == clients[at[s]] IN IF fd = Free THEN NoConn ELSE fds[fd]

\* One turn of write_to_clients.
WriteTo(s) ==
    /\ Up /\ pc[s] = "write" /\ InLoop(at[s])
    /\ heard' = IF Target(s) = NoConn THEN heard
                ELSE [heard EXCEPT ![Target(s)] = Append(@, msg[s])]
    /\ at' = [at EXCEPT ![s] = @ + 1]
    /\ UNCHANGED <<server, endSession, table, fds, mutex, main, newFd, pc, msg, world>>

\* SIGPIPE is not ignored: writing to a client that is gone may end the server.
SigPipe(s) ==
    /\ Up /\ pc[s] = "write" /\ InLoop(at[s])
    /\ Target(s) # NoConn /\ peer[Target(s)] = "gone"
    /\ server' = "killed"
    /\ UNCHANGED <<endSession, table, fds, mutex, main, newFd, pc, msg, at, world,
                   heard>>

\* Mutant: the mutex is not unlocked.
UnlockForgets(s) ==
    /\ Up /\ pc[s] = "write" /\ ~InLoop(at[s])
    /\ msg' = [msg EXCEPT ![s] = <<>>] /\ at' = [at EXCEPT ![s] = 0]
    /\ pc' = [pc EXCEPT ![s] = "loop"]
    /\ UNCHANGED <<server, endSession, table, fds, mutex, main, newFd, world, heard>>

Unlock(s) ==
    /\ Up /\ pc[s] = "write" /\ ~InLoop(at[s])
    /\ mutex' = Free
    /\ msg' = [msg EXCEPT ![s] = <<>>] /\ at' = [at EXCEPT ![s] = 0]
    /\ pc' = [pc EXCEPT ![s] = "loop"]
    /\ UNCHANGED <<server, endSession, table, fds, main, newFd, world, heard>>

\* close(clients[clientId]), before the mutex is taken.
Leave(s) ==
    /\ Up /\ pc[s] = "leave"
    /\ fds' = [fds EXCEPT ![clients[s]] = NoConn]
    /\ pc' = [pc EXCEPT ![s] = "clear"]
    /\ UNCHANGED <<server, endSession, table, mutex, main, newFd, msg, at, world, heard>>

\* Mutant: the count is not taken down.
ClearOnly(s) ==
    /\ Up /\ pc[s] = "clear" /\ mutex = Free
    /\ clients' = [clients EXCEPT ![s] = Free]
    /\ pc' = [pc EXCEPT ![s] = "none"]
    /\ UNCHANGED <<server, endSession, clientsCount, fds, mutex, main, newFd, msg, at,
                   world, heard>>

Clear(s) ==
    /\ Up /\ pc[s] = "clear" /\ mutex = Free
    /\ clients' = [clients EXCEPT ![s] = Free]
    /\ clientsCount' = clientsCount - 1
    /\ pc' = [pc EXCEPT ![s] = "none"]
    /\ UNCHANGED <<server, endSession, fds, mutex, main, newFd, msg, at, world, heard>>

process_client(s) ==
    \/ Loop(s) \/ ReadMessage(s) \/ ReadEnd(s) \/ Lock(s) \/ WriteTo(s) \/ SigPipe(s)
    \/ Unlock(s) \/ Leave(s) \/ Clear(s)

run_server == TestEnd \/ EnterAccept \/ (\E c \in Conns : Accept(c)) \/ Refuse \/ Admit

Next ==
    \/ \E c \in Conns : Connect(c) \/ SendMessage(c) \/ Disconnect(c)
    \/ run_server \/ AcceptFails \/ close_server \/ cleanup
    \/ \E s \in Slots : process_client(s)

\* The scheduler runs every thread; the mutex is not taken for ever, and a thread
\* that asks for it again and again does not keep another one out.
Fairness ==
    /\ WF_vars(TestEnd \/ EnterAccept) /\ WF_vars(\E c \in Conns : Accept(c))
    /\ SF_vars(Refuse \/ Admit) /\ WF_vars(cleanup)
    /\ \A s \in Slots : WF_vars(process_client(s)) /\ SF_vars(Clear(s) \/ Lock(s))

Spec == Init /\ [][Next]_vars
FairSpec == Spec /\ Fairness

-----------------------------------------------------------------------------
TypeOK ==
    /\ server \in {"up", "killed"} /\ endSession \in BOOLEAN
    /\ clientsCount \in 0 .. MAX_CLIENTS
    /\ clients \in [Slots -> FDs \union {Free}]
    /\ fds \in [FDs -> Conns \union {NoConn}]
    /\ mutex \in Slots \union {Free}
    /\ main \in {"test", "call", "accept", "admit", "cleanup", "done"}
    /\ newFd \in FDs \union {Free}
    /\ pc \in [Slots -> {"none", "loop", "read", "lock", "write", "leave", "clear"}]
    /\ at \in [Slots -> 0 .. MAX_CLIENTS]
    /\ peer \in [Conns -> {"idle", "queued", "accepted", "gone"}]
    /\ nsent \in [Conns -> 0 .. MaxMsgs]

\* Whoever holds no place in the middle of the mutex sees a count that is the
\* number of used slots: so run_server finds a free slot whenever it looks for
\* one, and a client that is let in always gets a thread.
CountMatches ==
    /\ clientsCount = Cardinality({s \in Slots : clients[s] # Free})
    /\ \A s \in Slots : (clients[s] # Free) = (pc[s] # "none")

Before(c, m, n) ==
    \E i, j \in DOMAIN heard[c] : i < j /\ heard[c][i] = m /\ heard[c][j] = n

\* All clients hear the messages in the same order: no two of them disagree about
\* which of two messages came first.
SameOrder ==
    \A c, d \in Conns : \A m, n \in Range(heard[c]) :
        m # n /\ Before(c, m, n) => ~Before(d, n, m)

\* At the end of a broadcast every connection that a thread has open
\* was sent the message; the sender too.
AllHear ==
    \A s \in Slots : Up /\ pc[s] = "write" /\ ~InLoop(at[s]) =>
        \A t \in Slots :
            clients[t] # Free /\ pc[t] # "clear" /\ Mine(t) # NoConn
            => msg[s] \in Range(heard[Mine(t)])

\* server.c:206-225: a broadcast reaches everyone, and everyone in the same order.
Delivery == SameOrder /\ AllHear

\* No slot is held for a client that has left.
SlotsFree ==
    \A s \in Slots :
        (clients[s] # Free /\ Mine(s) # NoConn /\ peer[Mine(s)] = "gone") => ~Up

\* main tests the flag and then blocks in accept.  A SIGINT has ended it, or it sits in an
\* accept that it entered after the test; a client that comes would set it free.
SigintHeeded ==
    endSession => \/ ~Up \/ main = "done"
                  \/ main = "accept" /\ \A c \in Conns : peer[c] # "queued"

\* server.c:201: a message is broadcast to all connected clients; none of them
\* gets it twice.
NoMessageTwice ==
    \A c \in Conns : \A i, j \in DOMAIN heard[c] :
        i # j => heard[c][i] # heard[c][j]

\* server.c:32: SIGINT is used to set the flag that ends the server.
SigintEnds == endSession ~> (~Up \/ main = "done")
=============================================================================
