------------------------------ MODULE Chatroom ------------------------------
(***************************************************************************)
(* The two programs of charming_chatroom for TLC: the server with its      *)
(* clients, or one client with its server.  Each is checked against every  *)
(* behaviour of the other's end that its own module admits, so a behaviour *)
(* exercises one of them, its focus, and the other stays idle.             *)
(***************************************************************************)
EXTENDS ChatServer

CONSTANTS SizeUnits, TextUnits, MaxTyped, MaxFrames, MaxSigint

VARIABLES
    focus,                                      \* the program that runs
    status, to_file, windows, c_main, handler, sigints, started, joined, cancel, closeChat,
    serverSocket, server_up, in_sent, in_read, w_pc, w_done, w_buffer, w_msg, w_failed, typed,
    out, r_pc, r_got, r_buffer, shown           \* of the client

clientvars == <<status, to_file, windows, c_main, handler, sigints, started, joined, cancel,
                closeChat, serverSocket, server_up, in_sent, in_read, w_pc, w_done, w_buffer,
                w_msg, w_failed, typed, out, r_pc, r_got, r_buffer, shown>>
allvars == <<focus, vars, clientvars>>

Cl == INSTANCE ChatClient

ASSUME RoomAssumption == Cl!ClientAssumption

RoomInit ==
    /\ Init /\ Cl!CInit
    /\ focus \in {"server", "client"}
    /\ focus = "server" => to_file = FALSE

Serves == focus = "server"
Chats  == focus = "client"

RoomNext ==
    \/ /\ focus = "server" /\ Next
       /\ UNCHANGED <<focus, clientvars>>
    \/ /\ focus = "client" /\ Cl!CNext
       /\ UNCHANGED <<focus, vars>>

\* The server's fairness is that of module ChatServer; every thread of the client is
\* scheduled again and again, the user and the server owe it nothing.
RoomSpec ==
    /\ RoomInit /\ [][RoomNext]_allvars
    /\ WF_vars(Serves /\ (TestEnd \/ EnterAccept))
    /\ WF_vars(Serves /\ \E c \in Conns : Accept(c))
    /\ SF_vars(Serves /\ (Refuse \/ Admit)) /\ WF_vars(Serves /\ cleanup)
    /\ \A s \in Slots : /\ WF_vars(Serves /\ process_client(s))
                        /\ SF_vars(Serves /\ (Clear(s) \/ Lock(s)))
    /\ WF_clientvars(Chats /\ Cl!MainThread) /\ WF_clientvars(Chats /\ Cl!HandlerStep)
    /\ WF_clientvars(Chats /\ Cl!WriterWorks) /\ WF_clientvars(Chats /\ Cl!ReaderThread)

-----------------------------------------------------------------------------
\* client.c:121-197 and utils.c:54-99: the client sends and shows whole messages, leaves no
\* buffer behind and closes its socket only under cancelled threads; see module ChatClient.
ClientRight == focus = "client" => Cl!ClientRight

\* server.c:260: a client that leaves gives its slot back.  server.c:162: after SIGINT the
\* server ends, or main sits in an accept it entered after it had tested the flag, and then
\* nobody waits to be let in.  client.c:190: after SIGINT the client ends, wherever its
\* threads are blocked.  No client comes a second time and signals are few, so what must
\* happen has happened again and again.
PartiesLeave == []<>(SlotsFree /\ SigintHeeded /\ Cl!Closed)
=============================================================================
