--------------------------- MODULE NonstopServer ---------------------------
(***************************************************************************)
(* nonstop_networking: the file server (server.c, common.c) and the client *)
(* (client.c).  The server is one thread around epoll_wait, its sockets    *)
(* block: reading a request keeps it in read_header until the client has   *)
(* sent enough or has closed its half of the connection, and nobody else   *)
(* is served meanwhile (cur).  Executing the request and reporting an      *)
(* error are later events of the same connection, so other clients'        *)
(* requests come in between.  A file is [from, len]: the connection whose  *)
(* bytes it holds, and how many.  A request line is a verb and a name; a   *)
(* name with a slash and a line cut in the middle are left out.            *)
(***************************************************************************)
EXTENDS Integers, Sequences, FiniteSets, Functions

CONSTANTS
    Conns,      \* connections, one request each
    Verbs,      \* what the clients ask for
    Files,      \* file names
    NoName,     \* the empty file name
    MaxSize,    \* bound on the size of a file that is sent
    NoConn

ASSUME ServerAssumption ==
    /\ NoName \notin Files
    /\ NoConn \notin Conns
    /\ Verbs \subseteq {"GET", "PUT", "DELETE", "LIST", "OTHER"}
    /\ MaxSize \in Nat

Names == Files \union {NoName}
Requests ==
    {r \in [verb : Verbs, name : Names, size : 0 .. MaxSize] :
        /\ r.verb \in {"LIST", "OTHER"} => r.name = NoName
        /\ r.verb # "PUT" \/ r.name = NoName => r.size = 0}
Contents == [from : Conns, len : 0 .. MaxSize + 1]

VARIABLES
    server,     \* the stage main has reached, "up" in the loop of setup_epoll;
                \* "exited" by close_server, "failed" by exit(1), "crashed"
    dir,        \* does g_temp_dir exist
    disk,       \* the files in it
    file_list, file_size,
    cur,        \* the connection whose request is being read
    reading,    \* "header" or "body" of that request
    existed,    \* read_file != NULL in read_put_from_client
    link,       \* "idle", "connected" (not yet accepted), "accepted", "closed"
    state,      \* c_info_ptr->state
    req,        \* the request a client sends
    sent,       \* what of it has arrived: Nothing .. TooMuch
    eof,        \* the client's half is closed
    out,        \* the status lines the server wrote
    got,        \* the file a GET was answered with
    result      \* what the client made of the answer

store == <<dir, disk, file_list, file_size>>
loop == <<cur, reading, existed>>
client == <<req, sent, eof, result>>
vars == <<server, store, loop, link, state, client, out, got>>

\* A file that is written, an entry that dictionary_set sets.
With(table, key, val) == [x \in DOMAIN table \union {key} |-> IF x = key THEN val ELSE table[x]]

\* The kernel takes connections from listen() on, before epoll watches them.
Listening == {"listening", "up"}

Nothing == 0
Header == 1
Size == 2       \* PUT: the size has arrived, the data only in part
Data == 3       \* PUT: all of the data
TooMuch == 4    \* at least one byte more

Init ==
    /\ server = "start" /\ dir = FALSE
    /\ disk = <<>> /\ file_list = <<>> /\ file_size = <<>>
    /\ cur = NoConn /\ reading = "header" /\ existed = FALSE
    /\ link = [c \in Conns |-> "idle"]
    /\ state = [c \in Conns |-> 0]
    /\ req \in [Conns -> Requests]
    /\ sent = [c \in Conns |-> Nothing]
    /\ eof = [c \in Conns |-> FALSE]
    /\ out = [c \in Conns |-> <<>>]
    /\ got = [c \in Conns |-> [from |-> c, len |-> 0]]
    /\ result = [c \in Conns |-> "none"]

-----------------------------------------------------------------------------
(* The client.                                                             *)

Connect(c) ==
    /\ server \in Listening /\ link[c] = "idle"
    /\ link' = [link EXCEPT ![c] = "connected"]
    /\ UNCHANGED <<server, store, loop, state, client, out, got>>

\* The stages of a request: client.c sends no byte too many, other clients may.
NextPart(c) == IF req[c].verb = "PUT" THEN sent[c] + 1
            ELSE IF sent[c] = Nothing THEN Header ELSE TooMuch

\* run_client_request, perform_put: the next part of the request arrives.
Send(c) ==
    /\ server \in Listening /\ link[c] \in {"connected", "accepted"}
    /\ ~eof[c] /\ sent[c] < TooMuch
    /\ sent' = [sent EXCEPT ![c] = NextPart(c)]
    /\ UNCHANGED <<server, store, loop, link, state, req, eof, result, out, got>>

WholeRequest(c) ==
    IF req[c].verb = "PUT"
    THEN sent[c] = (IF req[c].size = 0 THEN Size ELSE Data)
    ELSE sent[c] = Header

\* The half close after the request; or the client exits early, as it does
\* when the local file of a PUT is missing, and reads no answer.
Finish(c) ==
    /\ link[c] \in {"connected", "accepted"} /\ ~eof[c]
    /\ eof' = [eof EXCEPT ![c] = TRUE]
    /\ \/ WholeRequest(c) /\ UNCHANGED result
       \/ ~WholeRequest(c) /\ result' = [result EXCEPT ![c] = "exited"]
    /\ UNCHANGED <<server, store, loop, link, state, req, sent, out, got>>

\* What read_server_response prints or returns.  The size it reads after an OK
\* that is followed by an error line is taken from that line.
Outcome(r, answer) ==
    CASE answer = <<>> -> "connection closed"
      [] answer = <<"OK">> /\ r.verb \in {"PUT", "DELETE"} -> "success"
      [] answer = <<"OK">> /\ r.verb \in {"GET", "LIST"} -> "data"
      [] Head(answer) # "OK" -> answer[1]
      [] OTHER -> "too little data"

read_server_response(c) ==
    /\ eof[c] /\ link[c] = "closed" /\ result[c] = "none"
    /\ result' = [result EXCEPT ![c] = Outcome(req[c], out[c])]
    /\ UNCHANGED <<server, store, loop, link, state, req, sent, eof, out, got>>

-----------------------------------------------------------------------------
(* The server: start-up, and its ends.                                     *)

\* The process is gone: the kernel closes its sockets.
Gone(how) ==
    /\ server' = how
    /\ link' = [c \in Conns |-> "closed"]
    /\ cur' = NoConn /\ reading' = "header" /\ existed' = FALSE
    /\ UNCHANGED <<state, client, out, got>>

Stage(from, to) ==
    /\ server = from /\ server' = to
    /\ UNCHANGED <<loop, link, state, client, out, got>>

setup_handlers ==
    /\ Stage("start", "handlers") \/ Stage("start", "failed")
    /\ UNCHANGED store

\* The result of mkdtemp goes to strdup unseen.
setup_dir ==
    /\ \/ Stage("handlers", "dir") /\ dir' = TRUE
       \/ Stage("handlers", "crashed") /\ dir' = dir
    /\ UNCHANGED <<disk, file_list, file_size>>

setup_global_variables == Stage("dir", "globals") /\ UNCHANGED store

\* close_server takes the directory with its files.  Called before
\* setup_global_variables it runs into tables that are not there; and without
\* the directory rm_unempty_dir passes a null DIR to readdir.
CloseServer ==
    IF server \in {"globals"} \union Listening
    THEN /\ Gone(IF dir THEN "exited" ELSE "crashed")
         /\ dir' = FALSE /\ disk' = <<>> /\ file_list' = <<>> /\ file_size' = <<>>
    ELSE Gone("crashed") /\ UNCHANGED store

\* socket, getaddrinfo, setsockopt, bind or listen may fail.
setup_server_conn ==
    \/ Stage("globals", "listening") /\ UNCHANGED store
    \/ server = "globals" /\ CloseServer

setup_epoll == Stage("listening", "up") /\ UNCHANGED store

\* epoll_create, epoll_ctl, epoll_wait or accept fails: exit(1), which leaves
\* the directory behind.
ExitUnclean ==
    /\ server \in Listening /\ cur = NoConn
    /\ Gone("failed")
    /\ UNCHANGED store

\* SIGINT, from the moment its handler is set.
sigint_handler ==
    /\ server \in {"handlers", "dir", "globals"} \union Listening
    /\ CloseServer

-----------------------------------------------------------------------------
(* The server: accepting and reading a request.                            *)

Serving == server = "up" /\ cur = NoConn

Accept(c) ==
    /\ Serving /\ link[c] = "connected"
    /\ link' = [link EXCEPT ![c] = "accepted"]
    /\ state' = [state EXCEPT ![c] = 0]
    /\ UNCHANGED <<server, store, loop, client, out, got>>

\* Byte by byte until the newline or the end of what the client sends.
EndOfHeader(c) == eof[c] \/ sent[c] >= Header

\* EPOLLIN on a connection in state 0: the server enters read_header.
ReadHeader(c) ==
    /\ Serving /\ link[c] = "accepted" /\ state[c] = 0
    /\ eof[c] \/ sent[c] > Nothing
    /\ cur' = c /\ reading' = "header"
    /\ UNCHANGED <<server, store, existed, link, state, client, out, got>>

\* The request is read: its new state is set, back to epoll_wait.
Parsed(c, s) ==
    /\ state' = [state EXCEPT ![c] = s]
    /\ cur' = NoConn /\ reading' = "header" /\ existed' = FALSE
    /\ UNCHANGED <<server, link, client, out, got>>

\* No line, or one with no known verb: bad request.
HeaderBad(c) ==
    /\ server = "up" /\ cur = c /\ reading = "header"
    /\ EndOfHeader(c)
    /\ sent[c] = Nothing \/ req[c].verb = "OTHER"
    /\ Parsed(c, -1)
    /\ UNCHANGED store

\* GET, DELETE, LIST: read_after_newline wants the client's end of file.  Its
\* buffer is not initialised, so it may take a byte more for none.
HeaderPlain(c) ==
    /\ server = "up" /\ cur = c /\ reading = "header"
    /\ req[c].verb \in {"GET", "DELETE", "LIST"}
    /\ \/ eof[c] /\ sent[c] = Header /\ Parsed(c, 1)
       \/ sent[c] = TooMuch /\ \E s \in {1, -1} : Parsed(c, s)
    /\ UNCHANGED store

\* read_put_from_client cannot open the file for writing.
PutOpenFails(c) ==
    /\ server = "up" /\ cur = c /\ reading = "header"
    /\ req[c].verb = "PUT" /\ sent[c] >= Header
    /\ req[c].name = NoName \/ ~dir
    /\ Parsed(c, -2)
    /\ UNCHANGED store

\* The file is opened with "r", to see if it is there, and truncated with "w".
PutOpens(c) ==
    /\ server = "up" /\ cur = c /\ reading = "header"
    /\ req[c].verb = "PUT" /\ sent[c] >= Header
    /\ req[c].name \in Files /\ dir
    /\ existed' = (req[c].name \in DOMAIN disk)
    /\ disk' = With(disk, req[c].name, [from |-> c, len |-> 0])
    /\ reading' = "body"
    /\ UNCHANGED <<server, dir, file_list, file_size, cur, link, state, client,
                   out, got>>

\* size in read_put_from_client: 0 when the connection ends before it.
SizeRead(c) == IF sent[c] >= Size THEN req[c].size ELSE 0

\* bytes_read after the loop: it asks for one byte more than the size.
BytesRead(c) ==
    {n \in 0 .. req[c].size + 1 :
        \/ sent[c] = TooMuch /\ n = req[c].size + 1
        \/ sent[c] = Data /\ n = req[c].size
        \/ sent[c] = Size /\ (n < req[c].size \/ n = 0)
        \/ sent[c] < Size /\ n = 0}

\* The connection closed, too little data or too much of it.
is_error(n, size) == (n = 0 /\ size # 0) \/ n < size \/ n > size

BodyRead(c) ==
    /\ server = "up" /\ cur = c /\ reading = "body"
    /\ eof[c] \/ sent[c] = TooMuch

\* is_error: the file is removed from the directory, nothing else is changed.
PutFails(c) ==
    /\ BodyRead(c)
    /\ \E n \in BytesRead(c) : is_error(n, SizeRead(c))
    /\ disk' = Restrict(disk, DOMAIN disk \ {req[c].name})
    /\ Parsed(c, -2)
    /\ UNCHANGED <<dir, file_list, file_size>>

\* Mutant: more data than announced is not an error.
PutSucceedsMore(c) ==
    /\ BodyRead(c)
    /\ \E n \in BytesRead(c) :
        /\ n >= SizeRead(c)
        /\ disk' = With(disk, req[c].name, [from |-> c, len |-> n])
    /\ file_list' = IF existed THEN file_list ELSE Append(file_list, req[c].name)
    /\ file_size' = With(file_size, req[c].name, SizeRead(c))
    /\ Parsed(c, 1)
    /\ UNCHANGED dir

PutSucceeds(c) ==
    /\ BodyRead(c)
    /\ \E n \in BytesRead(c) :
        /\ ~is_error(n, SizeRead(c))
        /\ disk' = With(disk, req[c].name, [from |-> c, len |-> n])
    /\ file_list' = IF existed THEN file_list ELSE Append(file_list, req[c].name)
    /\ file_size' = With(file_size, req[c].name, SizeRead(c))
    /\ Parsed(c, 1)
    /\ UNCHANGED dir

-----------------------------------------------------------------------------
(* The server: executing a request, EPOLLOUT on a connection.              *)

Executing(c, verb) ==
    Serving /\ link[c] = "accepted" /\ state[c] = 1 /\ req[c].verb = verb

\* The line goes out whole: the socket blocks and the loop goes on until all of
\* it is written.
write_to_socket(c, line) == out' = [out EXCEPT ![c] = Append(@, line)]

\* ... then clean_client.
Answer(c, line) ==
    /\ write_to_socket(c, line)
    /\ link' = [link EXCEPT ![c] = "closed"]

\* Mutant: the state is not changed.
FailOpen(c) == UNCHANGED <<state, link, out>>

\* The connection is kept for handle_errors.
Fail(c) ==
    /\ state' = [state EXCEPT ![c] = -3]
    /\ UNCHANGED <<link, out>>

\* fopen fails; or it opens the directory itself, for the empty name, and OK is
\* written before the name is looked at; or the file is sent with its size.
exec_get(c) ==
    /\ Executing(c, "GET")
    /\ \/ /\ ~dir \/ req[c].name \in Files \ DOMAIN disk
          /\ Fail(c)
          /\ UNCHANGED got
       \/ /\ dir /\ req[c].name = NoName
          /\ write_to_socket(c, "OK")
          /\ state' = [state EXCEPT ![c] = -1]
          /\ UNCHANGED <<link, got>>
       \/ /\ req[c].name \in DOMAIN disk
          /\ got' = [got EXCEPT ![c] = [from |-> disk[req[c].name].from,
                                        len |-> file_size[req[c].name]]]
          /\ Answer(c, "OK")
          /\ UNCHANGED state
    /\ UNCHANGED <<server, store, loop, client>>

exec_put(c) ==
    /\ Executing(c, "PUT")
    /\ Answer(c, "OK")
    /\ UNCHANGED <<server, store, loop, state, client, got>>

exec_list(c) ==
    /\ Executing(c, "LIST")
    /\ Answer(c, "OK")
    /\ UNCHANGED <<server, store, loop, state, client, got>>

FirstAt(f) == CHOOSE i \in DOMAIN file_list :
                /\ file_list[i] = f
                /\ \A j \in 1 .. i - 1 : file_list[j] # f

\* remove() takes the file away; its first entry in file_list and its size go.
DeleteKnown(c) ==
    /\ Executing(c, "DELETE") /\ req[c].name \in DOMAIN disk
    /\ disk' = Restrict(disk, DOMAIN disk \ {req[c].name})
    /\ file_list' = [i \in 1 .. Len(file_list) - 1 |->
                        file_list[IF i < FirstAt(req[c].name) THEN i ELSE i + 1]]
    /\ file_size' = Restrict(file_size, DOMAIN file_size \ {req[c].name})
    /\ Answer(c, "OK")
    /\ UNCHANGED <<server, dir, loop, state, client, got>>

\* remove() fails; or, given the empty name, it removes the empty directory
\* itself, and the name is not in file_list.
DeleteUnknown(c) ==
    /\ Executing(c, "DELETE") /\ req[c].name \notin DOMAIN disk
    /\ dir' = (dir /\ (req[c].name # NoName \/ DOMAIN disk # {}))
    /\ Fail(c)
    /\ UNCHANGED <<server, disk, file_list, file_size, loop, client, got>>

ErrorLine(s) == CASE s = -1 -> "bad request"
                  [] s = -2 -> "bad file size"
                  [] OTHER -> "no such file"

handle_errors(c) ==
    /\ Serving /\ link[c] = "accepted" /\ state[c] < 0
    /\ Answer(c, ErrorLine(state[c]))
    /\ UNCHANGED <<server, store, loop, state, client, got>>

-----------------------------------------------------------------------------
run_client(c) ==
    \/ ReadHeader(c) \/ HeaderBad(c) \/ HeaderPlain(c)
    \/ PutOpenFails(c) \/ PutOpens(c) \/ PutFails(c) \/ PutSucceeds(c)
    \/ exec_get(c) \/ exec_put(c) \/ exec_list(c)
    \/ DeleteKnown(c) \/ DeleteUnknown(c) \/ handle_errors(c)

Next ==
    \/ \E c \in Conns : Connect(c) \/ Send(c) \/ Finish(c)
                        \/ read_server_response(c) \/ Accept(c) \/ run_client(c)
    \/ setup_handlers \/ setup_dir \/ setup_global_variables
    \/ setup_server_conn \/ setup_epoll
    \/ ExitUnclean \/ sigint_handler

\* A batch of epoll_wait holds every ready connection and each is served once;
\* a client that has connected sooner or later closes its half.
Fairness ==
    /\ WF_vars(setup_epoll)
    /\ \A c \in Conns : /\ SF_vars(Accept(c)) /\ SF_vars(run_client(c))
                        /\ WF_vars(Finish(c))
                        /\ WF_vars(read_server_response(c))

Spec == Init /\ [][Next]_vars
FairSpec == Spec /\ Fairness

-----------------------------------------------------------------------------
TypeOK ==
    /\ server \in {"start", "handlers", "dir", "globals", "listening", "up",
                  "exited", "failed", "crashed"}
    /\ dir \in BOOLEAN
    /\ DOMAIN disk \subseteq Files
    /\ \A f \in DOMAIN disk : disk[f] \in Contents
    /\ file_list \in Seq(Files)
    /\ DOMAIN file_size \subseteq Files
    /\ cur \in Conns \union {NoConn} /\ reading \in {"header", "body"}
    /\ existed \in BOOLEAN
    /\ link \in [Conns -> {"idle", "connected", "accepted", "closed"}]
    /\ state \in [Conns -> -3 .. 1]
    /\ req \in [Conns -> Requests]
    /\ sent \in [Conns -> Nothing .. TooMuch] /\ eof \in [Conns -> BOOLEAN]
    /\ got \in [Conns -> Contents]

\* server.c:509: exec_get dereferences the size it looks up.  Between requests
\* every file in the directory has an entry in file_list and its own length in
\* file_size, whatever other clients stored, overwrote, deleted or failed to
\* send in between.
SizesKnown ==
    Serving => \A f \in DOMAIN disk :
        /\ f \in DOMAIN file_size /\ file_size[f] = disk[f].len
        /\ f \in Range(file_list)

\* What a GET answers was put under that name, by one connection, and it is
\* all of what that connection announced: no half-written upload is served.
OnlyWholeFiles ==
    \A c \in Conns :
        (/\ link[c] = "closed" /\ out[c] = <<"OK">>
         /\ req[c].verb = "GET" /\ req[c].name \in Files) =>
        LET w == got[c].from IN
            /\ req[w].verb = "PUT" /\ req[w].name = req[c].name
            /\ got[c].len = SizeRead(w) /\ sent[w] < TooMuch

\* A PUT that was answered with OK is in the directory as long as nobody else
\* asked for a change of that file.
AckedPutStays ==
    \A c \in Conns :
        (/\ server = "up" /\ req[c].verb = "PUT" /\ out[c] = <<"OK">>
         /\ \A d \in Conns \ {c} : req[d].name = req[c].name => req[d].verb = "GET")
        => req[c].name \in DOMAIN disk /\ disk[req[c].name].from = c

\* server.c:515, 690-740: after any requests, failed ones included, the
\* directory and the recorded sizes agree, no half of a file is served, and an
\* acknowledged upload stays.
FilesSound == SizesKnown /\ OnlyWholeFiles /\ AckedPutStays

\* Every connection is answered and closed once the clients have closed their
\* halves: the handlers leave no connection behind in a state that is never
\* finished.
Served ==
    \A c \in Conns : link[c] = "connected" ~> (link[c] = "closed" /\
                                               (server = "up" => out[c] # <<>>))

\* server.c:540: LIST writes [files_from_dir].  The names in file_list are the
\* files of the directory, once each.
ListIsDir ==
    Serving => /\ Range(file_list) = DOMAIN disk
               /\ Len(file_list) = Cardinality(DOMAIN disk)

\* format.h:12: "Bad file size" is sent when the client sends too little or too
\* much data; a PUT that is answered with OK was sent as a whole.
OkOnlyForWholePut ==
    \A c \in Conns : req[c].verb = "PUT" /\ out[c] = <<"OK">> => WholeRequest(c)

\* format.h:12 again: a PUT of a file that arrives as a whole is not refused.
WholePutAccepted ==
    \A c \in Conns :
        req[c].verb = "PUT" /\ req[c].name \in Files /\ out[c] = <<"bad file size">>
        => ~WholeRequest(c)

\* format.h:36: an error reaches the client as a status line that starts with
\* ERROR; a client that sent its whole request never sees a broken transfer.
NoBrokenAnswer ==
    \A c \in Conns : result[c] # "too little data"
=============================================================================
