----------------------------- MODULE ChatClient -----------------------------
(***************************************************************************)
(* charming_chatroom/client.c with chat_window.c and the client's side of  *)
(* utils.c: main and its SIGINT handler, the thread that sends what the    *)
(* user types, and the thread that shows what the server sends.            *)
(*                                                                         *)
(* A message travels as SizeUnits units of length and TextUnits units of   *)
(* text; a read or write of the socket moves one unit or more.  Every      *)
(* system call of a thread is a cancellation point, where a pending        *)
(* cancellation takes effect.  The kernel hands SIGINT to the main thread. *)
(***************************************************************************)
EXTENDS Integers, Sequences

CONSTANTS
    SizeUnits, TextUnits,     \* units of a message's length and of its text
    MaxTyped,       \* bound on the lines the user types
    MaxFrames,      \* bound on the messages the server sends
    MaxSigint

\* A message has a length and a text; client.c:141 counts the final zero.
ClientAssumption == SizeUnits \in Nat \ {0} /\ TextUnits \in Nat \ {0}

VARIABLES
    status,         \* "up", "exited", "failed" (exit(1)), "killed", "crashed"
    to_file,        \* an output file was given on the command line
    windows,        \* "none", "open", "destroyed"
    c_main,         \* where main is
    handler,        \* where close_program is, "none" when it does not run
    sigints,
    started, joined, cancel,    \* sets of threads
    closeChat, serverSocket,    \* "none", "open", "closed"
    server_up, in_sent, in_read,    \* the server's end; units it sent, units read of them
    w_pc, w_done, w_buffer, w_msg, w_failed, typed, out,
    r_pc, r_got, r_buffer, shown

clientvars == <<status, to_file, windows, c_main, handler, sigints, started, joined, cancel,
                closeChat, serverSocket, server_up, in_sent, in_read, w_pc, w_done, w_buffer,
                w_msg, w_failed, typed, out, r_pc, r_got, r_buffer, shown>>
mainvars == <<status, windows, c_main, started, joined>>
sigvars == <<handler, sigints, cancel, closeChat, serverSocket>>
netvars == <<server_up, in_sent>>
writervars == <<w_pc, w_done, w_buffer, w_msg, w_failed, typed, out>>
readervars == <<r_pc, r_got, r_buffer, shown, in_read>>

Writer == "write_to_server"
Reader == "read_from_server"
Message == SizeUnits + TextUnits

CInit ==
    /\ status = "up" /\ to_file \in BOOLEAN /\ windows = "none" /\ c_main = "windows"
    /\ handler = "none" /\ sigints = 0
    /\ started = {} /\ joined = {} /\ cancel = {}
    /\ closeChat = FALSE /\ serverSocket = "none"
    /\ server_up = TRUE /\ in_sent = 0 /\ in_read = 0
    /\ w_pc = "read" /\ w_done = 0 /\ w_buffer = FALSE /\ w_msg = FALSE /\ w_failed = FALSE
    /\ typed = 0 /\ out = 0
    /\ r_pc = "size" /\ r_got = 0 /\ r_buffer = FALSE /\ shown = << >>

-----------------------------------------------------------------------------
(* main.                                                                   *)

InMain == status = "up" /\ handler = "none"

\* create_windows: opening the output file may fail; atexit is not yet registered.
create_windows ==
    /\ c_main = "windows"
    /\ \/ windows' = "open" /\ c_main' = "connect" /\ UNCHANGED status
       \/ to_file /\ status' = "failed" /\ UNCHANGED <<windows, c_main>>
    /\ UNCHANGED <<started, joined, serverSocket>>

\* connect_to_server: an address, a socket and a connection, or exit(1).
connect_to_server ==
    /\ c_main = "connect"
    /\ \/ serverSocket' = "open" /\ c_main' = "create0" /\ UNCHANGED <<status, windows>>
       \/ status' = "failed" /\ windows' = "destroyed" /\ UNCHANGED <<serverSocket, c_main>>
    /\ UNCHANGED <<started, joined>>

pthread_create ==
    /\ \/ c_main = "create0" /\ started' = {Writer} /\ c_main' = "create1"
       \/ c_main = "create1" /\ started' = {Writer, Reader} /\ c_main' = "join0"
    /\ UNCHANGED <<status, windows, joined, serverSocket>>

pthread_join ==
    /\ \/ c_main = "join0" /\ w_pc = "ended" /\ joined' = {Writer} /\ c_main' = "join1"
       \/ c_main = "join1" /\ r_pc = "ended" /\ joined' = {Writer, Reader} /\ c_main' = "return"
    /\ UNCHANGED <<status, windows, started, serverSocket>>

\* return from main, and what atexit registered.
destroy_windows ==
    /\ c_main = "return"
    /\ windows' = "destroyed" /\ status' = "exited"
    /\ UNCHANGED <<c_main, started, joined, serverSocket>>

MainThread ==
    /\ InMain
    /\ create_windows \/ connect_to_server \/ pthread_create \/ pthread_join \/ destroy_windows
    /\ UNCHANGED <<to_file, handler, sigints, cancel, closeChat, netvars, writervars, readervars>>

-----------------------------------------------------------------------------
(* close_program, in the main thread at any point after signal().          *)

Sigint ==
    /\ InMain /\ sigints < MaxSigint
    /\ sigints' = sigints + 1 /\ handler' = "cancel0"
    /\ UNCHANGED <<to_file, mainvars, cancel, closeChat, serverSocket, netvars, writervars,
                   readervars>>

\* Before pthread_create the identifier is 0, which pthread_cancel follows as a pointer;
\* one of a thread that was joined is stale, and may or may not point to something.
pthread_cancel(t, next) ==
    \/ /\ t \in started
       /\ cancel' = IF t \in joined THEN cancel ELSE cancel \cup {t}
       /\ handler' = next /\ UNCHANGED status
    \/ /\ t \notin started \/ t \in joined
       /\ status' = "crashed" /\ UNCHANGED <<cancel, handler>>

\* Mutant: the connection is closed before the threads are cancelled.
close_program_reversed ==
    /\ status = "up"
    /\ \/ /\ handler = "cancel0" /\ closeChat' = TRUE /\ handler' = "cancel1"
          /\ serverSocket' = IF serverSocket = "open" THEN "closed" ELSE serverSocket
          /\ UNCHANGED <<cancel, status>>
       \/ /\ handler = "cancel1" /\ pthread_cancel(Writer, "close_chat")
          /\ UNCHANGED <<closeChat, serverSocket>>
       \/ /\ handler = "close_chat" /\ pthread_cancel(Reader, "none")
          /\ UNCHANGED <<closeChat, serverSocket>>

close_program ==
    /\ status = "up"
    /\ \/ /\ handler = "cancel0" /\ pthread_cancel(Writer, "cancel1")
          /\ UNCHANGED <<closeChat, serverSocket>>
       \/ /\ handler = "cancel1" /\ pthread_cancel(Reader, "close_chat")
          /\ UNCHANGED <<closeChat, serverSocket>>
       \/ /\ handler = "close_chat" /\ closeChat' = TRUE /\ handler' = "close_connection"
          /\ UNCHANGED <<cancel, status, serverSocket>>
       \/ /\ handler = "close_connection" /\ handler' = "none"
          /\ serverSocket' = IF serverSocket = "open" THEN "closed" ELSE serverSocket
          /\ UNCHANGED <<cancel, status, closeChat>>

HandlerStep ==
    /\ close_program
    /\ UNCHANGED <<to_file, windows, c_main, started, joined, sigints, netvars, writervars,
                   readervars>>

-----------------------------------------------------------------------------
(* The server's end of the connection.                                     *)

ServerSends ==
    /\ status = "up" /\ serverSocket = "open" /\ server_up /\ in_sent < MaxFrames * Message
    /\ in_sent' = in_sent + 1
    /\ UNCHANGED <<to_file, mainvars, sigvars, server_up, writervars, readervars>>

ServerCloses ==
    /\ status = "up" /\ serverSocket = "open" /\ server_up
    /\ server_up' = FALSE
    /\ UNCHANGED <<to_file, mainvars, sigvars, in_sent, writervars, readervars>>

-----------------------------------------------------------------------------
(* write_to_server.                                                        *)

WriterRuns == status = "up" /\ Writer \in started /\ w_pc # "ended"
UnchangedByWriter == UNCHANGED <<to_file, windows, c_main, started, joined, sigvars, netvars,
                                 readervars>>

\* thread_cancellation_handler, run where a system call finds the cancellation.
WriterCancelled ==
    /\ WriterRuns /\ Writer \in cancel /\ w_pc \in {"input", "size", "body"}
    /\ w_buffer' = FALSE /\ w_msg' = FALSE /\ w_pc' = "ended"
    /\ UNCHANGED <<w_done, w_failed, typed, out, status>>
    /\ UnchangedByWriter

\* read_message_from_screen up to its wait: the buffer is allocated the first time.
AskForLine ==
    /\ WriterRuns /\ w_pc = "read"
    /\ w_buffer' = TRUE /\ w_pc' = "input"
    /\ UNCHANGED <<w_done, w_msg, w_failed, typed, out, status>>
    /\ UnchangedByWriter

\* A line came, or the input ended; closeChat is looked at only now.
read_message_from_screen ==
    /\ WriterRuns /\ Writer \notin cancel /\ w_pc = "input"
    /\ \E error \in BOOLEAN :
         /\ ~error => typed < MaxTyped
         /\ typed' = IF error THEN typed ELSE typed + 1
         /\ IF closeChat \/ error
            THEN w_buffer' = FALSE /\ w_msg' = FALSE /\ w_pc' = "ended"
            ELSE w_buffer' = w_buffer /\ w_msg' = TRUE /\ w_pc' = "size"
    /\ w_done' = 0
    /\ UNCHANGED <<w_failed, out, status>>
    /\ UnchangedByWriter

Part(p) == IF p = "size" THEN SizeUnits ELSE TextUnits

\* One write of write_all_to_socket.
write_all_to_socket ==
    /\ WriterRuns /\ Writer \notin cancel /\ w_pc \in {"size", "body"} /\ serverSocket = "open"
    /\ \E n \in 1 .. Part(w_pc) - w_done :
         /\ out' = out + n
         /\ IF w_done + n < Part(w_pc) THEN w_done' = w_done + n /\ UNCHANGED <<w_pc, w_msg>>
            ELSE /\ w_done' = 0
                 /\ w_pc' = IF w_pc = "size" THEN "body" ELSE "read"
                 /\ w_msg' = (w_pc = "size")
    /\ UNCHANGED <<w_buffer, w_failed, typed, status>>
    /\ UnchangedByWriter

\* The server is gone: write fails, or its SIGPIPE ends the program.
write_fails ==
    /\ WriterRuns /\ Writer \notin cancel /\ w_pc \in {"size", "body"}
    /\ ~server_up \/ serverSocket = "closed"
    /\ \/ /\ serverSocket = "open" /\ status' = "killed"
          /\ UNCHANGED <<w_pc, w_msg, w_failed>>
       \/ /\ w_pc' = "ended" /\ w_msg' = FALSE /\ w_failed' = TRUE /\ UNCHANGED status
    /\ UNCHANGED <<w_done, w_buffer, typed, out>>
    /\ UnchangedByWriter

\* Everything but the wait for the user.
WriterWorks == WriterCancelled \/ AskForLine \/ write_all_to_socket \/ write_fails

WriterThread == WriterWorks \/ read_message_from_screen

-----------------------------------------------------------------------------
(* read_from_server.                                                       *)

ReaderRuns == status = "up" /\ Reader \in started /\ r_pc # "ended"
UnchangedByReader == UNCHANGED <<to_file, mainvars, sigvars, netvars, writervars>>

ReaderCancelled ==
    /\ ReaderRuns /\ Reader \in cancel
    /\ r_buffer' = FALSE /\ r_pc' = "ended"
    /\ UNCHANGED <<r_got, shown, in_read>>
    /\ UnchangedByReader

\* One read of read_all_from_socket, for the length or for the text.
read_all_from_socket ==
    /\ ReaderRuns /\ Reader \notin cancel /\ r_pc \in {"size", "body"} /\ serverSocket = "open"
    /\ \E n \in 1 .. Part(r_pc) - r_got :
         /\ in_read + n <= in_sent /\ in_read' = in_read + n
         /\ IF r_got + n < Part(r_pc) THEN r_got' = r_got + n /\ UNCHANGED <<r_pc, r_buffer>>
            ELSE /\ r_got' = IF r_pc = "size" THEN 0 ELSE r_got + n
                 /\ r_pc' = IF r_pc = "size" THEN "body" ELSE "show"
                 /\ r_buffer' = TRUE
    /\ UNCHANGED shown
    /\ UnchangedByReader

\* End of file: what came counts as the result.  A length cut short is taken for one.
read_ends ==
    /\ ReaderRuns /\ Reader \notin cancel /\ r_pc \in {"size", "body"}
    /\ serverSocket = "closed" \/ (~server_up /\ in_read = in_sent)
    /\ IF r_got = 0 THEN r_pc' = "ended" /\ r_buffer' = FALSE /\ r_got' = 0
       ELSE IF r_pc = "size" THEN r_pc' = "body" /\ r_buffer' = TRUE /\ r_got' = 0
       ELSE r_pc' = "show" /\ UNCHANGED <<r_buffer, r_got>>
    /\ UNCHANGED <<shown, in_read>>
    /\ UnchangedByReader

write_message_to_screen ==
    /\ ReaderRuns /\ Reader \notin cancel /\ r_pc = "show"
    /\ shown' = Append(shown, [last |-> in_read, units |-> r_got])
    /\ r_buffer' = FALSE /\ r_got' = 0 /\ r_pc' = "size"
    /\ UNCHANGED in_read
    /\ UnchangedByReader

ReaderThread ==
    ReaderCancelled \/ read_all_from_socket \/ read_ends \/ write_message_to_screen

CNext ==
    MainThread \/ Sigint \/ HandlerStep \/ ServerSends \/ ServerCloses \/ WriterThread \/ ReaderThread

-----------------------------------------------------------------------------
Over == status # "up"

\* What is shown are the server's messages, each whole and in order; only when the
\* connection broke may the last one be cut short.
ShownRight ==
    \A i \in DOMAIN shown :
        \/ shown[i].last = i * Message /\ shown[i].units = TextUnits
        \/ i = Len(shown) /\ ~server_up /\ in_read = in_sent /\ shown[i].units < TextUnits

\* client.c:121-197, utils.c:54-99: what is sent and what is shown are whole messages in order
\* although reads and writes stop anywhere; once the connection is closed no thread that is
\* not about to be cancelled can touch the descriptor; and the threads leave no buffer
\* behind, unless the writer's last write failed.
ClientRight ==
    /\ ShownRight
    /\ w_pc \in {"read", "input"} => out = typed * Message
    /\ serverSocket = "closed" => (w_pc = "ended" \/ Writer \in cancel) /\
                                  (r_pc = "ended" \/ Reader \in cancel)
    /\ r_pc = "ended" => ~r_buffer
    /\ w_pc = "ended" => ~w_msg /\ (w_buffer => w_failed)
    /\ status = "exited" => windows = "destroyed" /\ joined = {Writer, Reader}

\* A SIGINT that found both threads running, or crashed the program, has ended it.
Closed == closeChat \/ handler # "none" => Over
=============================================================================
