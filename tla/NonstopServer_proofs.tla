------------------------ MODULE NonstopServer_proofs ------------------------
(***************************************************************************)
(* Proofs about the file server: the directory, the recorded sizes and     *)
(* what the clients are sent, whatever the interleaving of their requests. *)
(***************************************************************************)
EXTENDS NonstopServer, WellFoundedInduction, TLAPS

\* Between the first line of main and the end of the process.
Runs == server \notin {"exited", "failed", "crashed"}

Lines == {"OK", "bad request", "bad file size", "no such file"}

StoreTypes ==
    /\ DOMAIN disk \subseteq Files
    /\ \A f \in DOMAIN disk : disk[f].from \in Conns /\ disk[f].len \in Nat
    /\ file_list \in Seq(Files)

ConnTypes ==
    /\ existed \in BOOLEAN
    /\ cur \in Conns \union {NoConn}
    /\ link \in [Conns -> {"idle", "connected", "accepted", "closed"}]
    /\ state \in [Conns -> Int]
    /\ req \in [Conns -> Requests]
    /\ sent \in [Conns -> 0 .. 4] /\ eof \in [Conns -> BOOLEAN]

AnswerTypes ==
    /\ out \in [Conns -> Seq(Lines)]
    /\ got \in [Conns -> [from : Conns, len : Nat]]

Types == StoreTypes /\ ConnTypes /\ AnswerTypes

\* A client is read from while its connection is open and in state 0.
CurReads ==
    cur # NoConn =>
        /\ link[cur] = "accepted" /\ state[cur] = 0
        /\ reading = "body" =>
            req[cur].verb = "PUT" /\ req[cur].name \in Files /\ req[cur].name \in DOMAIN disk

\* The file that a PUT has opened and not finished.
Unfinished(f) == cur # NoConn /\ reading = "body" /\ req[cur].name = f

\* w has put n bytes under the name f, all that it announced, and can send no more.
Whole(f, w, n) ==
    /\ req[w].verb = "PUT" /\ req[w].name = f
    /\ eof[w] /\ sent[w] < TooMuch /\ n = SizeRead(w)

\* The tables have the right size of f, and f is whole.
Known(f) ==
    /\ f \in DOMAIN file_size /\ file_size[f] = disk[f].len
    /\ Whole(f, disk[f].from, disk[f].len)

\* Every finished file is known and listed; one that is overwritten stays listed.
FilesKnown ==
    Runs => \A f \in DOMAIN disk :
        /\ ~Unfinished(f) => Known(f)
        /\ ~Unfinished(f) \/ existed => f \in Range(file_list)

GotWhole ==
    \A c \in Conns :
        out[c] = <<"OK">> /\ req[c].verb = "GET" /\ req[c].name \in Files
        => Whole(req[c].name, got[c].from, got[c].len)

\* A PUT is answered once, when its connection is closed.
PutAnswer == \A c \in Conns : req[c].verb = "PUT" /\ link[c] # "closed" => out[c] = <<>>

\* No other client asks for a change of the file that c puts.
Alone(c) == \A d \in Conns \ {c} : req[d].name = req[c].name => req[d].verb = "GET"

PutStays ==
    \A c \in Conns :
        /\ Runs /\ req[c].verb = "PUT" /\ Alone(c)
        /\ out[c] = <<"OK">> \/ state[c] = 1
        => req[c].name \in DOMAIN disk /\ disk[req[c].name].from = c

Inv == Types /\ CurReads /\ FilesKnown /\ GotWhole /\ PutAnswer /\ PutStays

-----------------------------------------------------------------------------
(* The tables.                                                               *)

LEMMA RestrictHas ==
    ASSUME NEW table, NEW S
    PROVE  /\ DOMAIN Restrict(table, S) = S
           /\ \A x \in S : Restrict(table, S)[x] = table[x]
BY DEF Restrict

\* A name in the list has a first place there.
LEMMA FirstIsThere ==
    ASSUME file_list \in Seq(Files), NEW f \in Range(file_list)
    PROVE  /\ FirstAt(f) \in 1 .. Len(file_list) /\ Len(file_list) \in Nat
           /\ file_list[FirstAt(f)] = f
<1> DEFINE places == {i \in 1 .. Len(file_list) : file_list[i] = f}
<1>1. /\ DOMAIN file_list = 1 .. Len(file_list)
      /\ Len(file_list) \in Nat
    OBVIOUS
<1>2. places # {} /\ places \subseteq Nat
    BY <1>1 DEF Range
<1>3. PICK i \in places : \A j \in places : ~(<<j, i>> \in OpToRel(<, Nat))
    BY <1>2, WFMin, NatLessThanWellFounded
<1>4. ASSUME NEW j \in 1 .. i - 1, file_list[j] = f PROVE FALSE
    <2>1. j \in places /\ j < i /\ j \in Nat /\ i \in Nat
        BY <1>1, <1>4
    <2>2. <<j, i>> \in OpToRel(<, Nat)
        BY <2>1, Zenon DEF OpToRel
    <2> QED  BY <1>3, <2>1, <2>2
<1>5. i \in DOMAIN file_list /\ file_list[i] = f /\ \A j \in 1 .. i - 1 : file_list[j] # f
    BY <1>1, <1>4
<1> QED  BY <1>1, <1>5 DEF FirstAt

\* Taking the first place of f out of the list takes no other name out of it.
LEMMA OthersStayListed ==
    ASSUME file_list \in Seq(Files), NEW f \in Range(file_list),
           NEW list,
           list = [i \in 1 .. Len(file_list) - 1 |->
                        file_list[IF i < FirstAt(f) THEN i ELSE i + 1]]
    PROVE  /\ list \in Seq(Files)
           /\ \A g \in Range(file_list) : g # f => g \in Range(list)
<1>1. /\ FirstAt(f) \in 1 .. Len(file_list) /\ Len(file_list) \in Nat
      /\ file_list[FirstAt(f)] = f
      /\ DOMAIN file_list = 1 .. Len(file_list)
    BY FirstIsThere
<1> DEFINE k == FirstAt(f)
           n == Len(file_list)
<1>2. k \in 1 .. n /\ n \in Nat /\ file_list[k] = f
    BY <1>1
<1>3. \A i \in 1 .. n : file_list[i] \in Files
    OBVIOUS
<1>4. list = [i \in 1 .. n - 1 |-> file_list[IF i < k THEN i ELSE i + 1]]
    OBVIOUS
<1> HIDE DEF k, n
<1>5. \A i \in 1 .. n - 1 : list[i] \in Files
    BY <1>2, <1>3, <1>4
<1>6. n - 1 \in Nat
    BY <1>2
<1>7. list \in Seq(Files)
    BY <1>4, <1>5, <1>6
<1>8. ASSUME NEW g \in Range(file_list), g # f PROVE g \in Range(list)
    <2>1. PICK i \in 1 .. n : file_list[i] = g
        BY <1>1 DEF Range, n
    <2>2. i # k
        BY <1>2, <1>8, <2>1
    <2>3. CASE i < k
        <3>1. i \in 1 .. n - 1 /\ list[i] = g
            BY <1>2, <1>4, <2>1, <2>3
        <3> QED  BY <1>4, <3>1 DEF Range
    <2>4. CASE i > k
        <3>1. i - 1 \in 1 .. n - 1 /\ list[i - 1] = g
            BY <1>2, <1>4, <2>1, <2>4
        <3> QED  BY <1>4, <3>1 DEF Range
    <2> QED  BY <1>2, <2>1, <2>2, <2>3, <2>4
<1> QED  BY <1>7, <1>8

-----------------------------------------------------------------------------
(* What the steps leave alone.                                               *)

\* A client that has closed its half sends nothing more, and no request changes.
LEMMA ClientFrame ==
    ASSUME Inv, Next
    PROVE  /\ req' = req
           /\ \A w \in Conns : eof[w] => eof'[w] /\ sent'[w] = sent[w]
<1> USE DEF store, loop, client
<1>1. CASE UNCHANGED <<req, sent, eof>>
    BY <1>1
<1>2. ASSUME NEW c \in Conns, Connect(c) \/ read_server_response(c) \/ Accept(c)
      PROVE  UNCHANGED <<req, sent, eof>>
    BY <1>2 DEF Connect, read_server_response, Accept
<1>3. ASSUME NEW c \in Conns, Send(c)
      PROVE  req' = req /\ \A w \in Conns : eof[w] => eof'[w] /\ sent'[w] = sent[w]
    BY <1>3 DEF Send, Inv, Types
<1>4. ASSUME NEW c \in Conns, Finish(c)
      PROVE  req' = req /\ \A w \in Conns : eof[w] => eof'[w] /\ sent'[w] = sent[w]
    BY <1>4 DEF Finish, Inv, Types
<1>5. ASSUME NEW c \in Conns, run_client(c) PROVE UNCHANGED <<req, sent, eof>>
    <2>1. CASE ReadHeader(c) \/ HeaderBad(c) \/ HeaderPlain(c) \/ PutOpenFails(c)
        BY <2>1 DEF ReadHeader, HeaderBad, HeaderPlain, PutOpenFails, Parsed
    <2>2. CASE PutOpens(c) \/ PutFails(c) \/ PutSucceeds(c)
        BY <2>2 DEF PutOpens, PutFails, PutSucceeds, Parsed
    <2>3. CASE exec_get(c) \/ exec_put(c) \/ exec_list(c)
        BY <2>3 DEF exec_get, exec_put, exec_list
    <2>4. CASE DeleteKnown(c) \/ DeleteUnknown(c) \/ handle_errors(c)
        BY <2>4 DEF DeleteKnown, DeleteUnknown, handle_errors
    <2> QED  BY <1>5, <2>1, <2>2, <2>3, <2>4 DEF run_client
<1>6. CASE setup_handlers \/ setup_dir \/ setup_global_variables \/ setup_epoll
    BY <1>6 DEF setup_handlers, setup_dir, setup_global_variables, setup_epoll, Stage
<1>7. CASE setup_server_conn \/ ExitUnclean \/ sigint_handler
    BY <1>7 DEF setup_server_conn, Stage, ExitUnclean, sigint_handler, CloseServer, Gone
<1> QED  BY <1>1, <1>2, <1>3, <1>4, <1>5, <1>6, <1>7 DEF Next

\* The ends of the process.
LEMMA Ends ==
    ASSUME Inv, ExitUnclean \/ sigint_handler \/ (server = "globals" /\ CloseServer)
    PROVE  /\ ~Runs' /\ cur' = NoConn /\ existed' = FALSE
           /\ link' = [c \in Conns |-> "closed"]
           /\ UNCHANGED <<state, req, sent, eof, out, got>>
           /\ \/ UNCHANGED <<disk, file_list, file_size>>
              \/ disk' = <<>> /\ file_list' = <<>> /\ file_size' = <<>>
<1> USE DEF store, loop, client, Runs, Gone
<1>1. CASE ExitUnclean
    BY <1>1 DEF ExitUnclean
<1>2. CASE CloseServer
    BY <1>2 DEF CloseServer
<1> QED  BY <1>1, <1>2 DEF sigint_handler

\* Start-up.
LEMMA Starts ==
    ASSUME Inv, \/ setup_handlers \/ setup_dir \/ setup_global_variables \/ setup_epoll
                \/ Stage("globals", "listening") /\ UNCHANGED store
    PROVE  /\ Runs
           /\ UNCHANGED <<disk, file_list, file_size, loop, link, state, req, sent, eof,
                          out, got>>
<1> USE DEF store, loop, client, Stage, Runs
<1>1. CASE setup_handlers
    BY <1>1 DEF setup_handlers
<1>2. CASE setup_dir
    BY <1>2 DEF setup_dir
<1>3. CASE setup_global_variables
    BY <1>3 DEF setup_global_variables
<1>4. CASE setup_epoll
    BY <1>4 DEF setup_epoll
<1>5. CASE Stage("globals", "listening") /\ UNCHANGED store
    BY <1>5
<1> QED  BY <1>1, <1>2, <1>3, <1>4, <1>5

-----------------------------------------------------------------------------
(* One lemma per part of the invariant: every step preserves it.              *)

\* A PUT that is accepted was sent as a whole.
LEMMA PutIsWhole ==
    ASSUME Inv, NEW c \in Conns, PutSucceeds(c)
    PROVE  /\ req[c].verb = "PUT" /\ req[c].name \in Files /\ cur = c /\ reading = "body"
           /\ eof[c] /\ sent[c] < TooMuch
           /\ SizeRead(c) \in Nat
           /\ disk' = With(disk, req[c].name, [from |-> c, len |-> SizeRead(c)])
<1>1. cur = c /\ reading = "body" /\ c # NoConn
    BY ServerAssumption DEF PutSucceeds, BodyRead
<1>2. req[c].verb = "PUT" /\ req[c].name \in Files
    BY <1>1 DEF Inv, CurReads
<1>3. PICK n \in BytesRead(c) :
        /\ ~is_error(n, SizeRead(c))
        /\ disk' = With(disk, req[c].name, [from |-> c, len |-> n])
    BY DEF PutSucceeds
<1>4. sent[c] \in 0 .. 4 /\ req[c].size \in Nat
    BY ServerAssumption DEF Inv, Types, ConnTypes, Requests
<1>5. SizeRead(c) \in Nat
    BY <1>4 DEF SizeRead
<1>6. n \in Int
    BY <1>3, <1>4 DEF BytesRead
<1>7. n = SizeRead(c)
    BY <1>3, <1>5, <1>6 DEF is_error
<1>8. ASSUME sent[c] = TooMuch PROVE FALSE
    <2>1. n = req[c].size + 1
        BY <1>3, <1>8 DEF BytesRead, TooMuch, Data, Size
    <2>2. SizeRead(c) = req[c].size
        BY <1>8 DEF SizeRead, TooMuch, Size
    <2>3. req[c].size + 1 = req[c].size
        BY <1>7, <2>1, <2>2
    <2> QED  BY <1>4, <2>3
<1>9. eof[c] /\ sent[c] < TooMuch
    BY <1>4, <1>8 DEF PutSucceeds, BodyRead, TooMuch
<1> QED  BY <1>1, <1>2, <1>3, <1>5, <1>7, <1>9

\* Between two requests the tables know every file.
LEMMA ServingKnows ==
    ASSUME Inv, Serving, NEW f \in DOMAIN disk
    PROVE  /\ f \in DOMAIN file_size /\ file_size[f] = disk[f].len
           /\ f \in Range(file_list)
           /\ Whole(f, disk[f].from, disk[f].len)
BY DEF Inv, FilesKnown, Known, Serving, Unfinished, Runs

LEMMA StoreTypesStep ==
    ASSUME Inv, Next
    PROVE  StoreTypes'
<1> USE DEF StoreTypes, store, loop, client
<1>0. StoreTypes
    BY DEF Inv, Types
<1>1. CASE UNCHANGED <<disk, file_list>>
    BY <1>0, <1>1
<1>2. ASSUME NEW c \in Conns, Connect(c) \/ Send(c) \/ Finish(c) \/ read_server_response(c)
                              \/ Accept(c)
      PROVE  StoreTypes'
    BY <1>1, <1>2 DEF Connect, Send, Finish, read_server_response, Accept
<1>3. ASSUME NEW c \in Conns, run_client(c) PROVE StoreTypes'
    <2>1. CASE ReadHeader(c) \/ HeaderBad(c) \/ HeaderPlain(c) \/ PutOpenFails(c)
        BY <1>1, <2>1 DEF ReadHeader, HeaderBad, HeaderPlain, PutOpenFails
    <2>2. CASE exec_get(c) \/ exec_put(c) \/ exec_list(c) \/ DeleteUnknown(c)
               \/ handle_errors(c)
        BY <1>1, <2>2 DEF exec_get, exec_put, exec_list, DeleteUnknown, handle_errors
    <2>3. ASSUME NEW n \in Nat, req[c].name \in Files,
                 disk' = With(disk, req[c].name, [from |-> c, len |-> n])
          PROVE  /\ DOMAIN disk' \subseteq Files
                 /\ \A f \in DOMAIN disk' : disk'[f].from \in Conns /\ disk'[f].len \in Nat
        <3> DEFINE e == [from |-> c, len |-> n]
        <3>1. disk' = With(disk, req[c].name, e) /\ e.from \in Conns /\ e.len \in Nat
            BY <2>3
        <3> HIDE DEF e
        <3>2. /\ DOMAIN disk' = DOMAIN disk \union {req[c].name}
              /\ disk'[req[c].name] = e
              /\ \A f \in DOMAIN disk : f # req[c].name => disk'[f] = disk[f]
            BY <3>1 DEF With
        <3> QED  BY <1>0, <2>3, <3>1, <3>2
    <2>4. CASE PutOpens(c)
        <3>1. req[c].name \in Files /\ file_list' = file_list
            BY <2>4 DEF PutOpens
        <3>2. disk' = With(disk, req[c].name, [from |-> c, len |-> 0])
            BY <2>4 DEF PutOpens
        <3> QED  BY <1>0, <2>3, <3>1, <3>2
    <2>5. CASE PutFails(c)
        <3>1. /\ DOMAIN disk' = DOMAIN disk \ {req[c].name}
              /\ \A f \in DOMAIN disk' : disk'[f] = disk[f]
            BY <2>5, RestrictHas DEF PutFails
        <3>2. file_list' = file_list
            BY <2>5 DEF PutFails
        <3> QED  BY <1>0, <3>1, <3>2
    <2>6. CASE PutSucceeds(c)
        <3>1. /\ req[c].name \in Files /\ SizeRead(c) \in Nat
              /\ disk' = With(disk, req[c].name, [from |-> c, len |-> SizeRead(c)])
            BY <2>6, PutIsWhole
        <3>2. file_list' \in Seq(Files)
            BY <1>0, <2>6, <3>1 DEF PutSucceeds
        <3> QED  BY <2>3, <3>1, <3>2
    <2>7. CASE DeleteKnown(c)
        <3>1. /\ DOMAIN disk' = DOMAIN disk \ {req[c].name}
              /\ \A f \in DOMAIN disk' : disk'[f] = disk[f]
            BY <2>7, RestrictHas DEF DeleteKnown
        <3>2. req[c].name \in Range(file_list)
            BY <2>7, ServingKnows DEF DeleteKnown, Executing
        <3>3. file_list' = [i \in 1 .. Len(file_list) - 1 |->
                    file_list[IF i < FirstAt(req[c].name) THEN i ELSE i + 1]]
            BY <2>7 DEF DeleteKnown
        <3>4. file_list' \in Seq(Files)
            BY <1>0, <3>2, <3>3, OthersStayListed
        <3> QED  BY <1>0, <3>1, <3>4
    <2> QED  BY <1>3, <2>1, <2>2, <2>4, <2>5, <2>6, <2>7 DEF run_client
<1>4. CASE setup_handlers \/ setup_dir \/ setup_global_variables \/ setup_epoll
    BY <1>1, <1>4, Starts
<1>5. ASSUME ExitUnclean \/ sigint_handler \/ (server = "globals" /\ CloseServer)
      PROVE  StoreTypes'
    <2>1. \/ UNCHANGED <<disk, file_list>>
          \/ disk' = <<>> /\ file_list' = <<>>
        BY <1>5, Ends
    <2>2. CASE disk' = <<>> /\ file_list' = <<>>
        <3>1. DOMAIN disk' = {} /\ file_list' \in Seq(Files)
            BY <2>2
        <3> QED  BY <3>1
    <2> QED  BY <1>1, <2>1, <2>2
<1>6. CASE setup_server_conn
    BY <1>1, <1>5, <1>6, Starts DEF setup_server_conn
<1> QED  BY <1>2, <1>3, <1>4, <1>5, <1>6 DEF Next

LEMMA ConnTypesStep ==
    ASSUME Inv, Next
    PROVE  ConnTypes'
<1> USE DEF store, loop, client
<1>0. ConnTypes
    BY DEF Inv, Types
<1>1. CASE UNCHANGED <<existed, cur, link, state, req, sent, eof>>
    BY <1>0, <1>1 DEF ConnTypes
<1>2. ASSUME NEW c \in Conns, Connect(c) PROVE ConnTypes'
    BY <1>0, <1>2 DEF Connect, ConnTypes
<1>3. ASSUME NEW c \in Conns, Send(c) PROVE ConnTypes'
    <2>1. sent[c] \in 0 .. 4 /\ sent[c] < 4
        BY <1>0, <1>3 DEF Send, TooMuch, ConnTypes
    <2>2. NextPart(c) \in 0 .. 4
        BY <2>1 DEF NextPart, TooMuch, Nothing, Header
    <2> QED  BY <1>0, <1>3, <2>2 DEF Send, ConnTypes
<1>4. ASSUME NEW c \in Conns, Finish(c) PROVE ConnTypes'
    BY <1>0, <1>4 DEF Finish, ConnTypes
<1>5. ASSUME NEW c \in Conns, read_server_response(c) PROVE ConnTypes'
    BY <1>1, <1>5 DEF read_server_response
<1>6. ASSUME NEW c \in Conns, Accept(c) PROVE ConnTypes'
    BY <1>0, <1>6 DEF Accept, ConnTypes
<1>7. ASSUME NEW c \in Conns, run_client(c) PROVE ConnTypes'
    <2>1. CASE ReadHeader(c)
        BY <1>0, <2>1 DEF ReadHeader, ConnTypes
    <2>2. ASSUME NEW s \in Int, Parsed(c, s) PROVE ConnTypes'
        BY <1>0, <2>2 DEF Parsed, ConnTypes
    <2>3. CASE HeaderBad(c)
        BY <2>2, <2>3 DEF HeaderBad
    <2>4. CASE HeaderPlain(c)
        BY <2>2, <2>4 DEF HeaderPlain
    <2>5. CASE PutOpenFails(c)
        BY <2>2, <2>5 DEF PutOpenFails
    <2>6. CASE PutFails(c)
        BY <2>2, <2>6 DEF PutFails
    <2>7. CASE PutSucceeds(c)
        BY <2>2, <2>7 DEF PutSucceeds
    <2>8. CASE PutOpens(c)
        <3>1. existed' \in BOOLEAN
            BY <2>8 DEF PutOpens
        <3> QED  BY <1>0, <2>8, <3>1 DEF PutOpens, ConnTypes
    <2>9. ASSUME UNCHANGED <<existed, cur, req, sent, eof>>,
                 link' \in {link, [link EXCEPT ![c] = "closed"]},
                 \E s \in Int : state' \in {state, [state EXCEPT ![c] = s]}
          PROVE  ConnTypes'
        BY <1>0, <2>9 DEF ConnTypes
    <2>10. CASE exec_get(c)
        BY <2>9, <2>10 DEF exec_get, Fail, Answer
    <2>11. CASE exec_put(c)
        BY <2>9, <2>11 DEF exec_put, Answer
    <2>12. CASE exec_list(c)
        BY <2>9, <2>12 DEF exec_list, Answer
    <2>13. CASE DeleteKnown(c)
        BY <2>9, <2>13 DEF DeleteKnown, Answer
    <2>14. CASE DeleteUnknown(c)
        <3>1. state' = [state EXCEPT ![c] = -3] /\ -3 \in Int
            BY <2>14 DEF DeleteUnknown, Fail
        <3> QED  BY <2>9, <2>14, <3>1 DEF DeleteUnknown, Fail
    <2>15. CASE handle_errors(c)
        BY <2>9, <2>15 DEF handle_errors, Answer
    <2> QED  BY <1>7, <2>1, <2>3, <2>4, <2>5, <2>6, <2>7, <2>8, <2>10, <2>11, <2>12,
                <2>13, <2>14, <2>15 DEF run_client
<1>8. CASE setup_handlers \/ setup_dir \/ setup_global_variables \/ setup_epoll
    BY <1>1, <1>8, Starts
<1>9. ASSUME ExitUnclean \/ sigint_handler \/ (server = "globals" /\ CloseServer)
      PROVE  ConnTypes'
    <2>1. /\ cur' = NoConn /\ existed' = FALSE
          /\ link' = [c \in Conns |-> "closed"]
          /\ UNCHANGED <<state, req, sent, eof>>
        BY <1>9, Ends
    <2> QED  BY <1>0, <2>1 DEF ConnTypes
<1>10. CASE setup_server_conn
    BY <1>1, <1>9, <1>10, Starts DEF setup_server_conn
<1> QED  BY <1>2, <1>3, <1>4, <1>5, <1>6, <1>7, <1>8, <1>9, <1>10 DEF Next

\* The answers grow by a line at a time.
LEMMA Writes ==
    ASSUME Inv, NEW c \in Conns, NEW l \in Lines, write_to_socket(c, l)
    PROVE  /\ out' \in [Conns -> Seq(Lines)]
           /\ \A d \in Conns : d # c => out'[d] = out[d]
           /\ out'[c] = <<"OK">> => l = "OK"
<1>1. out[c] \in Seq(Lines) /\ out \in [Conns -> Seq(Lines)]
    BY DEF Inv, Types, AnswerTypes
<1>2. /\ Append(out[c], l) \in Seq(Lines)
      /\ Len(out[c]) \in Nat
      /\ Len(Append(out[c], l)) = Len(out[c]) + 1
      /\ Append(out[c], l)[Len(out[c]) + 1] = l
    BY <1>1
<1>3. out' = [out EXCEPT ![c] = Append(out[c], l)]
    BY DEF write_to_socket
<1>4. out'[c] = Append(out[c], l)
    BY <1>1, <1>3
<1>5. ASSUME Append(out[c], l) = <<"OK">> PROVE l = "OK"
    <2>1. Len(out[c]) + 1 = 1
        BY <1>2, <1>5
    <2> QED  BY <1>2, <1>5, <2>1
<1> QED  BY <1>1, <1>2, <1>3, <1>4, <1>5

LEMMA AnswerTypesStep ==
    ASSUME Inv, Next
    PROVE  AnswerTypes'
<1> USE DEF store, loop, client
<1>0. AnswerTypes
    BY DEF Inv, Types
<1>1. CASE UNCHANGED <<out, got>>
    BY <1>0, <1>1 DEF AnswerTypes
<1>2. ASSUME NEW c \in Conns, Connect(c) \/ Send(c) \/ Finish(c) \/ read_server_response(c)
                              \/ Accept(c)
      PROVE  AnswerTypes'
    BY <1>1, <1>2 DEF Connect, Send, Finish, read_server_response, Accept
<1>3. ASSUME NEW c \in Conns, run_client(c) PROVE AnswerTypes'
    <2>1. CASE ReadHeader(c) \/ HeaderBad(c) \/ HeaderPlain(c) \/ PutOpenFails(c)
        BY <1>1, <2>1 DEF ReadHeader, HeaderBad, HeaderPlain, PutOpenFails, Parsed
    <2>2. CASE PutOpens(c) \/ PutFails(c) \/ PutSucceeds(c)
        BY <1>1, <2>2 DEF PutOpens, PutFails, PutSucceeds, Parsed
    <2>3. ASSUME NEW l \in Lines, write_to_socket(c, l), got' = got PROVE AnswerTypes'
        BY <1>0, <2>3, Writes DEF AnswerTypes
    <2>4. "OK" \in Lines /\ ErrorLine(state[c]) \in Lines
        BY DEF Lines, ErrorLine
    <2>5. CASE exec_get(c)
        <3>1. CASE UNCHANGED <<out, got>>
            BY <1>1, <3>1
        <3>2. CASE write_to_socket(c, "OK") /\ got' = got
            BY <2>3, <2>4, <3>2
        <3>3. CASE /\ req[c].name \in DOMAIN disk /\ write_to_socket(c, "OK")
                   /\ got' = [got EXCEPT ![c] = [from |-> disk[req[c].name].from,
                                                 len |-> file_size[req[c].name]]]
            <4>1. disk[req[c].name].from \in Conns /\ file_size[req[c].name] \in Nat
                BY <2>5, <3>3, ServingKnows DEF exec_get, Executing, Inv, Types, StoreTypes
            <4>2. got' \in [Conns -> [from : Conns, len : Nat]]
                BY <1>0, <3>3, <4>1 DEF AnswerTypes
            <4>3. out' \in [Conns -> Seq(Lines)]
                BY <2>4, <3>3, Writes
            <4> QED  BY <4>2, <4>3 DEF AnswerTypes
        <3> QED  BY <2>5, <3>1, <3>2, <3>3 DEF exec_get, Fail, Answer
    <2>6. CASE exec_put(c) \/ exec_list(c) \/ DeleteKnown(c)
        BY <2>3, <2>4, <2>6 DEF exec_put, exec_list, DeleteKnown, Answer
    <2>7. CASE DeleteUnknown(c)
        BY <1>1, <2>7 DEF DeleteUnknown, Fail
    <2>8. CASE handle_errors(c)
        BY <2>3, <2>4, <2>8 DEF handle_errors, Answer
    <2> QED  BY <1>3, <2>1, <2>2, <2>5, <2>6, <2>7, <2>8 DEF run_client
<1>4. CASE setup_handlers \/ setup_dir \/ setup_global_variables \/ setup_epoll
    BY <1>1, <1>4, Starts
<1>5. CASE ExitUnclean \/ sigint_handler \/ (server = "globals" /\ CloseServer)
    BY <1>1, <1>5, Ends
<1>6. CASE setup_server_conn
    BY <1>1, <1>5, <1>6, Starts DEF setup_server_conn
<1> QED  BY <1>2, <1>3, <1>4, <1>5, <1>6 DEF Next

\* Only the request that is read next changes what CurReads says.
LEMMA CurReadsStep ==
    ASSUME Inv, Next
    PROVE  CurReads'
<1> USE DEF store, loop, client, CurReads
<1>0. CurReads /\ ConnTypes
    BY DEF Inv, Types
<1>1. CASE UNCHANGED <<disk, cur, reading, link, state, req>>
    BY <1>0, <1>1
<1>2. CASE cur' = NoConn
    BY <1>2
<1>3. ASSUME NEW c \in Conns, Connect(c) PROVE CurReads'
    <2>1. cur # NoConn => cur # c /\ cur \in Conns
        BY <1>0, <1>3 DEF Connect, ConnTypes
    <2> QED  BY <1>0, <1>3, <2>1 DEF Connect, ConnTypes
<1>4. ASSUME NEW c \in Conns, Send(c) \/ Finish(c) \/ read_server_response(c)
      PROVE  CurReads'
    BY <1>1, <1>4 DEF Send, Finish, read_server_response
<1>5. ASSUME NEW c \in Conns, Accept(c) PROVE CurReads'
    BY <1>2, <1>5 DEF Accept, Serving
<1>6. ASSUME NEW c \in Conns, run_client(c) PROVE CurReads'
    <2>1. CASE ReadHeader(c)
        BY <2>1 DEF ReadHeader
    <2>2. CASE HeaderBad(c) \/ HeaderPlain(c) \/ PutOpenFails(c)
        BY <1>2, <2>2 DEF HeaderBad, HeaderPlain, PutOpenFails, Parsed
    <2>3. CASE PutFails(c) \/ PutSucceeds(c)
        BY <1>2, <2>3 DEF PutFails, PutSucceeds, Parsed
    <2>4. CASE PutOpens(c)
        <3>1. /\ req[c].verb = "PUT" /\ req[c].name \in Files /\ cur = c
              /\ UNCHANGED <<cur, link, state, req>>
              /\ disk' = With(disk, req[c].name, [from |-> c, len |-> 0])
            BY <2>4 DEF PutOpens
        <3>2. req[c].name \in DOMAIN disk'
            BY <3>1 DEF With
        <3> QED  BY <1>0, <3>1, <3>2
    <2>5. CASE exec_get(c) \/ exec_put(c) \/ exec_list(c)
        BY <1>2, <2>5 DEF exec_get, exec_put, exec_list, Executing, Serving
    <2>6. CASE DeleteKnown(c) \/ DeleteUnknown(c) \/ handle_errors(c)
        BY <1>2, <2>6 DEF DeleteKnown, DeleteUnknown, handle_errors, Executing, Serving
    <2> QED  BY <1>6, <2>1, <2>2, <2>3, <2>4, <2>5, <2>6 DEF run_client
<1>7. CASE setup_handlers \/ setup_dir \/ setup_global_variables \/ setup_epoll
    BY <1>1, <1>7, Starts
<1>8. CASE ExitUnclean \/ sigint_handler \/ (server = "globals" /\ CloseServer)
    BY <1>2, <1>8, Ends
<1>9. CASE setup_server_conn
    BY <1>1, <1>8, <1>9, Starts DEF setup_server_conn
<1> QED  BY <1>3, <1>4, <1>5, <1>6, <1>7, <1>8, <1>9 DEF Next

LEMMA KnownStays ==
    ASSUME Inv, Next, NEW f \in DOMAIN disk, Known(f),
           disk'[f] = disk[f], f \in DOMAIN file_size', file_size'[f] = file_size[f]
    PROVE  Known(f)'
<1>1. disk[f].from \in Conns
    BY DEF Inv, Types, StoreTypes
<1>2. req' = req /\ \A w \in Conns : eof[w] => eof'[w] /\ sent'[w] = sent[w]
    BY ClientFrame
<1> QED  BY <1>1, <1>2 DEF Known, Whole, SizeRead

LEMMA FilesKnownStep ==
    ASSUME Inv, Next
    PROVE  FilesKnown'
<1> USE DEF store, loop, client
<1>0. FilesKnown /\ StoreTypes
    BY DEF Inv, Types
<1>1. CASE ~Runs'
    BY <1>1 DEF FilesKnown
<1>2. ASSUME Runs, UNCHANGED <<disk, file_list, file_size>>,
             \A f \in DOMAIN disk : /\ Unfinished(f) => Unfinished(f)'
                                    /\ ~Unfinished(f)' \/ existed' => ~Unfinished(f) \/ existed
      PROVE  FilesKnown'
    <2> SUFFICES ASSUME NEW f \in DOMAIN disk
                 PROVE  /\ ~Unfinished(f)' => Known(f)'
                        /\ ~Unfinished(f)' \/ existed' => f \in Range(file_list)
        BY <1>2 DEF FilesKnown
    <2>1. ~Unfinished(f)' => Known(f)'
        <3>1. ASSUME ~Unfinished(f)' PROVE Known(f)'
            <4>1. Known(f)
                BY <1>0, <1>2, <3>1 DEF FilesKnown
            <4>2. f \in DOMAIN file_size
                BY <4>1 DEF Known
            <4> QED  BY <1>2, <4>1, <4>2, KnownStays
        <3> QED  BY <3>1
    <2> QED  BY <1>0, <1>2, <2>1 DEF FilesKnown
<1>3. CASE Runs /\ UNCHANGED <<disk, file_list, file_size, cur, reading, existed, req>>
    BY <1>2, <1>3 DEF Unfinished
<1>4. ASSUME NEW c \in Conns, Connect(c) \/ Send(c) \/ Finish(c) \/ read_server_response(c)
                              \/ Accept(c)
      PROVE  FilesKnown'
    BY <1>1, <1>3, <1>4 DEF Connect, Send, Finish, read_server_response, Accept, Runs
<1>5. ASSUME NEW c \in Conns, run_client(c) PROVE FilesKnown'
    <2>0. Runs /\ Runs' /\ c # NoConn /\ req' = req
        <3>1. server = "up" /\ server' = server
            <4>1. CASE ReadHeader(c) \/ HeaderBad(c) \/ HeaderPlain(c) \/ PutOpenFails(c)
                BY <4>1 DEF ReadHeader, HeaderBad, HeaderPlain, PutOpenFails, Parsed, Serving
            <4>2. CASE PutOpens(c) \/ PutFails(c) \/ PutSucceeds(c)
                BY <4>2 DEF PutOpens, PutFails, PutSucceeds, BodyRead, Parsed
            <4>3. CASE exec_get(c) \/ exec_put(c) \/ exec_list(c)
                BY <4>3 DEF exec_get, exec_put, exec_list, Executing, Serving
            <4>4. CASE DeleteKnown(c) \/ DeleteUnknown(c) \/ handle_errors(c)
                BY <4>4 DEF DeleteKnown, DeleteUnknown, handle_errors, Executing, Serving
            <4> QED  BY <1>5, <4>1, <4>2, <4>3, <4>4 DEF run_client
        <3> QED  BY <3>1, ServerAssumption, ClientFrame DEF Runs
    <2>1. CASE ReadHeader(c)
        BY <1>2, <2>0, <2>1 DEF ReadHeader, Serving, Unfinished
    <2>2. CASE HeaderBad(c) \/ HeaderPlain(c) \/ PutOpenFails(c)
        <3>1. /\ UNCHANGED <<disk, file_list, file_size>>
              /\ cur' = NoConn /\ reading = "header" /\ existed' = FALSE
            BY <2>2 DEF HeaderBad, HeaderPlain, PutOpenFails, Parsed
        <3> QED  BY <1>2, <2>0, <3>1 DEF Unfinished
    <2>3. CASE exec_get(c) \/ exec_put(c) \/ exec_list(c)
        BY <1>3, <2>0, <2>3 DEF exec_get, exec_put, exec_list
    <2>4. CASE DeleteUnknown(c) \/ handle_errors(c)
        BY <1>3, <2>0, <2>4 DEF DeleteUnknown, handle_errors
    <2> DEFINE name == req[c].name
    <2>5. CASE PutOpens(c)
        <3>1. /\ existed' = (name \in DOMAIN disk)
              /\ disk' = With(disk, name, [from |-> c, len |-> 0])
              /\ cur = c /\ reading = "header" /\ cur' = c /\ reading' = "body"
              /\ UNCHANGED <<file_list, file_size>>
            BY <2>5 DEF PutOpens
        <3>2. /\ DOMAIN disk' = DOMAIN disk \union {name}
              /\ \A f \in DOMAIN disk : f # name => disk'[f] = disk[f]
            BY <3>1 DEF With
        <3>3. \A f \in DOMAIN disk : Known(f) /\ f \in Range(file_list)
            BY <1>0, <2>0, <3>1 DEF FilesKnown, Unfinished
        <3>4. \A f : Unfinished(f)' <=> f = name
            BY <2>0, <3>1 DEF Unfinished
        <3>5. ASSUME NEW f \in DOMAIN disk, f # name PROVE Known(f)' /\ f \in Range(file_list)'
            <4>1. Known(f) /\ f \in DOMAIN file_size /\ f \in Range(file_list)
                BY <3>3 DEF Known
            <4> QED  BY <3>1, <3>2, <3>5, <4>1, KnownStays
        <3>6. existed' => name \in Range(file_list)'
            BY <3>1, <3>3
        <3> HIDE DEF name
        <3> QED  BY <3>2, <3>4, <3>5, <3>6 DEF FilesKnown
    <2>6. CASE PutFails(c)
        <3>1. /\ disk' = Restrict(disk, DOMAIN disk \ {name})
              /\ cur = c /\ reading = "body" /\ cur' = NoConn
              /\ UNCHANGED <<file_list, file_size>>
            BY <2>6 DEF PutFails, Parsed, BodyRead
        <3>2. /\ DOMAIN disk' = DOMAIN disk \ {name}
              /\ \A f \in DOMAIN disk' : disk'[f] = disk[f]
            BY <3>1, RestrictHas
        <3>3. \A f \in DOMAIN disk : f # name => Known(f) /\ f \in Range(file_list)
            BY <1>0, <2>0, <3>1 DEF FilesKnown, Unfinished
        <3>4. ASSUME NEW f \in DOMAIN disk, f # name PROVE Known(f)' /\ f \in Range(file_list)'
            <4>1. Known(f) /\ f \in DOMAIN file_size /\ f \in Range(file_list)
                BY <3>3, <3>4 DEF Known
            <4> QED  BY <3>1, <3>2, <3>4, <4>1, KnownStays
        <3> HIDE DEF name
        <3> QED  BY <3>2, <3>4 DEF FilesKnown
    <2>7. CASE PutSucceeds(c)
        <3> DEFINE e == [from |-> c, len |-> SizeRead(c)]
        <3>1. /\ req[c].verb = "PUT" /\ cur = c /\ reading = "body" /\ name \in Files
              /\ eof[c] /\ sent[c] < TooMuch
              /\ disk' = With(disk, name, e)
            BY <2>7, PutIsWhole
        <3>2. /\ file_list' = IF existed THEN file_list ELSE Append(file_list, name)
              /\ file_size' = With(file_size, name, SizeRead(c))
              /\ cur' = NoConn /\ UNCHANGED <<sent, eof>>
            BY <2>7 DEF PutSucceeds, Parsed
        <3>3. e.from = c /\ e.len = SizeRead(c)
            OBVIOUS
        <3> HIDE DEF e
        <3>4. /\ DOMAIN disk' = DOMAIN disk \union {name}
              /\ disk'[name] = e
              /\ \A f \in DOMAIN disk : f # name => disk'[f] = disk[f]
            BY <3>1 DEF With
        <3>5. /\ DOMAIN file_size' = DOMAIN file_size \union {name}
              /\ file_size'[name] = SizeRead(c)
              /\ \A f \in DOMAIN file_size : f # name => file_size'[f] = file_size[f]
            BY <3>2 DEF With
        <3>6. \A f \in DOMAIN disk : f # name => Known(f) /\ f \in Range(file_list)
            BY <1>0, <2>0, <3>1 DEF FilesKnown, Unfinished
        <3>7. Range(file_list) \subseteq Range(file_list') /\ name \in Range(file_list')
            <4>1. CASE existed
                <5>1. name \in DOMAIN disk
                    BY <2>0, <3>1 DEF Inv, CurReads
                <5>2. name \in Range(file_list)
                    BY <1>0, <2>0, <4>1, <5>1 DEF FilesKnown
                <5> QED  BY <3>2, <4>1, <5>2
            <4>2. CASE ~existed
                <5>1. file_list \in Seq(Files) /\ file_list' = Append(file_list, name)
                    BY <1>0, <3>2, <4>2 DEF StoreTypes
                <5>2. /\ Len(file_list) \in Nat
                      /\ DOMAIN file_list = 1 .. Len(file_list)
                      /\ DOMAIN file_list' = 1 .. Len(file_list) + 1
                      /\ \A i \in 1 .. Len(file_list) : file_list'[i] = file_list[i]
                      /\ file_list'[Len(file_list) + 1] = name
                    BY <3>1, <5>1
                <5> HIDE DEF name
                <5> QED  BY <5>2 DEF Range
            <4> QED  BY <4>1, <4>2
        <3>8. ASSUME NEW f \in DOMAIN disk, f # name PROVE Known(f)' /\ f \in Range(file_list)'
            <4>1. Known(f) /\ f \in DOMAIN file_size /\ f \in Range(file_list)
                BY <3>6, <3>8 DEF Known
            <4>2. Known(f)'
                BY <3>4, <3>5, <3>8, <4>1, KnownStays
            <4> QED  BY <3>7, <4>1, <4>2
        <3>9. ASSUME NEW f, f = name PROVE Known(f)'
            BY <2>0, <3>1, <3>2, <3>3, <3>4, <3>5, <3>9 DEF Known, Whole, SizeRead
        <3> HIDE DEF name
        <3> QED  BY <3>4, <3>7, <3>8, <3>9 DEF FilesKnown
    <2>8. CASE DeleteKnown(c)
        <3>1. /\ disk' = Restrict(disk, DOMAIN disk \ {name})
              /\ file_size' = Restrict(file_size, DOMAIN file_size \ {name})
              /\ name \in DOMAIN disk /\ Serving /\ UNCHANGED loop
              /\ file_list' = [i \in 1 .. Len(file_list) - 1 |->
                                  file_list[IF i < FirstAt(name) THEN i ELSE i + 1]]
            BY <2>8 DEF DeleteKnown, Executing
        <3>2. \A f \in DOMAIN disk : Known(f) /\ f \in Range(file_list)
            BY <3>1, ServingKnows DEF Known
        <3>3. \A f \in Range(file_list) : f # name => f \in Range(file_list')
            BY <1>0, <3>1, <3>2, OthersStayListed DEF StoreTypes
        <3>4. /\ DOMAIN disk' = DOMAIN disk \ {name}
              /\ \A f \in DOMAIN disk' : disk'[f] = disk[f]
              /\ DOMAIN file_size' = DOMAIN file_size \ {name}
              /\ \A f \in DOMAIN file_size' : file_size'[f] = file_size[f]
            BY <3>1, RestrictHas
        <3>5. ASSUME NEW f \in DOMAIN disk, f # name PROVE Known(f)' /\ f \in Range(file_list)'
            <4>1. Known(f) /\ f \in DOMAIN file_size /\ f \in Range(file_list)
                BY <3>2 DEF Known
            <4>2. Known(f)'
                BY <3>4, <3>5, <4>1, KnownStays
            <4> QED  BY <3>3, <3>5, <4>1, <4>2
        <3> HIDE DEF name
        <3> QED  BY <3>4, <3>5 DEF FilesKnown
    <2> QED  BY <1>5, <2>1, <2>2, <2>3, <2>4, <2>5, <2>6, <2>7, <2>8 DEF run_client
<1>6. CASE setup_handlers \/ setup_dir \/ setup_global_variables \/ setup_epoll
    BY <1>3, <1>6, Starts
<1>7. CASE ExitUnclean \/ sigint_handler \/ (server = "globals" /\ CloseServer)
    BY <1>1, <1>7, Ends
<1>8. CASE setup_server_conn
    BY <1>3, <1>7, <1>8, Starts DEF setup_server_conn
<1> QED  BY <1>4, <1>5, <1>6, <1>7, <1>8 DEF Next

LEMMA GotWholeStep ==
    ASSUME Inv, Next
    PROVE  GotWhole'
<1> USE DEF store, loop, client
<1>0. req' = req /\ \A w \in Conns : eof[w] => eof'[w] /\ sent'[w] = sent[w]
    BY ClientFrame
<1>1. ASSUME NEW c \in Conns, out'[c] = out[c], got'[c] = got[c],
             out'[c] = <<"OK">>, req[c].verb = "GET", req[c].name \in Files
      PROVE  Whole(req[c].name, got[c].from, got[c].len)'
    <2>1. got[c].from \in Conns /\ Whole(req[c].name, got[c].from, got[c].len)
        BY <1>1 DEF Inv, Types, AnswerTypes, GotWhole
    <2> QED  BY <1>0, <1>1, <2>1 DEF Whole, SizeRead
<1>2. CASE UNCHANGED <<out, got>>
    BY <1>0, <1>1, <1>2 DEF GotWhole
<1>3. ASSUME NEW c \in Conns, Connect(c) \/ Send(c) \/ Finish(c) \/ read_server_response(c)
                              \/ Accept(c)
      PROVE  GotWhole'
    BY <1>2, <1>3 DEF Connect, Send, Finish, read_server_response, Accept
<1>4. ASSUME NEW c \in Conns, run_client(c) PROVE GotWhole'
    <2>1. CASE ReadHeader(c) \/ HeaderBad(c) \/ HeaderPlain(c) \/ PutOpenFails(c)
        BY <1>2, <2>1 DEF ReadHeader, HeaderBad, HeaderPlain, PutOpenFails, Parsed
    <2>2. CASE PutOpens(c) \/ PutFails(c) \/ PutSucceeds(c)
        BY <1>2, <2>2 DEF PutOpens, PutFails, PutSucceeds, Parsed
    <2>3. ASSUME NEW l \in Lines, write_to_socket(c, l), got' = got,
                 l # "OK" \/ req[c].verb # "GET" \/ req[c].name \notin Files
          PROVE  GotWhole'
        <3>1. /\ \A d \in Conns : d # c => out'[d] = out[d]
              /\ out'[c] = <<"OK">> => l = "OK"
            BY <2>3, Writes
        <3> QED  BY <1>0, <1>1, <2>3, <3>1 DEF GotWhole
    <2>4. "OK" \in Lines /\ ErrorLine(state[c]) \in Lines /\ ErrorLine(state[c]) # "OK"
        BY DEF Lines, ErrorLine
    <2>5. CASE exec_get(c)
        <3>1. CASE UNCHANGED <<out, got>>
            BY <1>2, <3>1
        <3>2. CASE write_to_socket(c, "OK") /\ got' = got /\ req[c].name = NoName
            BY <2>3, <2>4, <3>2, ServerAssumption
        <3>3. CASE /\ req[c].name \in DOMAIN disk /\ write_to_socket(c, "OK")
                   /\ got' = [got EXCEPT ![c] = [from |-> disk[req[c].name].from,
                                                 len |-> file_size[req[c].name]]]
            <4> DEFINE f == req[c].name
            <4>1. /\ disk[f].from \in Conns /\ file_size[f] = disk[f].len
                  /\ Whole(f, disk[f].from, disk[f].len)
                BY <2>5, <3>3, ServingKnows DEF exec_get, Executing, Inv, Types, StoreTypes
            <4>2. /\ got'[c].from = disk[f].from /\ got'[c].len = disk[f].len
                  /\ \A d \in Conns : d # c => got'[d] = got[d]
                BY <3>3, <4>1 DEF Inv, Types, AnswerTypes
            <4>3. Whole(req[c].name, got[c].from, got[c].len)'
                BY <1>0, <4>1, <4>2 DEF Whole, SizeRead
            <4>4. \A d \in Conns : d # c => out'[d] = out[d]
                BY <2>4, <3>3, Writes
            <4> HIDE DEF f
            <4> QED  BY <1>0, <1>1, <4>2, <4>3, <4>4 DEF GotWhole
        <3> QED  BY <2>5, <3>1, <3>2, <3>3 DEF exec_get, Fail, Answer
    <2>6. CASE exec_put(c) \/ exec_list(c) \/ DeleteKnown(c)
        BY <2>3, <2>4, <2>6 DEF exec_put, exec_list, DeleteKnown, Answer, Executing
    <2>7. CASE DeleteUnknown(c)
        BY <1>2, <2>7 DEF DeleteUnknown, Fail
    <2>8. CASE handle_errors(c)
        BY <2>3, <2>4, <2>8 DEF handle_errors, Answer
    <2> QED  BY <1>4, <2>1, <2>2, <2>5, <2>6, <2>7, <2>8 DEF run_client
<1>5. CASE setup_handlers \/ setup_dir \/ setup_global_variables \/ setup_epoll
    BY <1>2, <1>5, Starts
<1>6. CASE ExitUnclean \/ sigint_handler \/ (server = "globals" /\ CloseServer)
    BY <1>2, <1>6, Ends
<1>7. CASE setup_server_conn
    BY <1>2, <1>6, <1>7, Starts DEF setup_server_conn
<1> QED  BY <1>3, <1>4, <1>5, <1>6, <1>7 DEF Next

LEMMA PutAnswerStep ==
    ASSUME Inv, Next
    PROVE  PutAnswer'
<1> USE DEF store, loop, client
<1>0. PutAnswer /\ req' = req /\ link \in [Conns -> {"idle", "connected", "accepted", "closed"}]
    BY ClientFrame DEF Inv, Types, ConnTypes
<1>1. ASSUME out' = out, \A c \in Conns : link[c] = "closed" => link'[c] = "closed"
      PROVE  PutAnswer'
    BY <1>0, <1>1 DEF PutAnswer
<1>2. ASSUME NEW c \in Conns, Connect(c) \/ Accept(c) PROVE PutAnswer'
    <2>1. out' = out /\ \A d \in Conns : link[d] = "closed" => link'[d] = "closed"
        BY <1>0, <1>2 DEF Connect, Accept
    <2> QED  BY <1>1, <2>1
<1>3. ASSUME NEW c \in Conns, Send(c) \/ Finish(c) \/ read_server_response(c)
      PROVE  PutAnswer'
    BY <1>1, <1>3 DEF Send, Finish, read_server_response
<1>4. ASSUME NEW c \in Conns, run_client(c) PROVE PutAnswer'
    <2>1. CASE ReadHeader(c) \/ HeaderBad(c) \/ HeaderPlain(c) \/ PutOpenFails(c)
        BY <1>1, <2>1 DEF ReadHeader, HeaderBad, HeaderPlain, PutOpenFails, Parsed
    <2>2. CASE PutOpens(c) \/ PutFails(c) \/ PutSucceeds(c)
        BY <1>1, <2>2 DEF PutOpens, PutFails, PutSucceeds, Parsed
    <2>3. ASSUME NEW l \in Lines, write_to_socket(c, l),
                 link' = [link EXCEPT ![c] = "closed"] \/ (link' = link /\ req[c].verb # "PUT")
          PROVE  PutAnswer'
        <3>1. \A d \in Conns : d # c => out'[d] = out[d]
            BY <2>3, Writes
        <3>2. CASE link' = [link EXCEPT ![c] = "closed"]
            BY <1>0, <3>1, <3>2 DEF PutAnswer
        <3>3. CASE link' = link /\ req[c].verb # "PUT"
            BY <1>0, <3>1, <3>3 DEF PutAnswer
        <3> QED  BY <2>3, <3>2, <3>3
    <2>4. "OK" \in Lines /\ ErrorLine(state[c]) \in Lines
        BY DEF Lines, ErrorLine
    <2>5. CASE exec_get(c)
        <3>1. CASE UNCHANGED <<out, link>>
            BY <1>1, <3>1
        <3>2. CASE write_to_socket(c, "OK")
            BY <2>3, <2>4, <2>5, <3>2 DEF exec_get, Executing, Answer, Fail
        <3> QED  BY <2>5, <3>1, <3>2 DEF exec_get, Fail, Answer
    <2>6. CASE exec_put(c) \/ exec_list(c) \/ DeleteKnown(c)
        BY <2>3, <2>4, <2>6 DEF exec_put, exec_list, DeleteKnown, Answer
    <2>7. CASE DeleteUnknown(c)
        BY <1>1, <2>7 DEF DeleteUnknown, Fail
    <2>8. CASE handle_errors(c)
        BY <2>3, <2>4, <2>8 DEF handle_errors, Answer
    <2> QED  BY <1>4, <2>1, <2>2, <2>5, <2>6, <2>7, <2>8 DEF run_client
<1>5. CASE setup_handlers \/ setup_dir \/ setup_global_variables \/ setup_epoll
    BY <1>1, <1>5, Starts
<1>6. CASE ExitUnclean \/ sigint_handler \/ (server = "globals" /\ CloseServer)
    BY <1>1, <1>6, Ends
<1>7. CASE setup_server_conn
    BY <1>1, <1>6, <1>7, Starts DEF setup_server_conn
<1> QED  BY <1>2, <1>3, <1>4, <1>5, <1>6, <1>7 DEF Next


\* Only the client itself, or one that is not alone with it, touches its file.
LEMMA PutStaysStep ==
    ASSUME Inv, Next
    PROVE  PutStays'
<1> USE DEF store, loop, client
<1>0. /\ PutStays /\ PutAnswer /\ CurReads /\ ConnTypes /\ req' = req
      /\ state \in [Conns -> Int]
    BY ClientFrame DEF Inv, Types, ConnTypes
<1>1. CASE ~Runs'
    BY <1>1 DEF PutStays
<1>2. ASSUME Runs, UNCHANGED disk,
             \A d \in Conns : /\ req[d].verb = "PUT"
                              /\ out'[d] = <<"OK">> \/ state'[d] = 1
                              => out[d] = <<"OK">> \/ state[d] = 1
      PROVE  PutStays'
    BY <1>0, <1>2 DEF PutStays, Alone
<1>3. ASSUME NEW c \in Conns, Connect(c) \/ Send(c) \/ Finish(c) \/ read_server_response(c)
      PROVE  PutStays'
    BY <1>1, <1>2, <1>3 DEF Connect, Send, Finish, read_server_response, Runs
<1>4. ASSUME NEW c \in Conns, Accept(c) PROVE PutStays'
    <2>1. Runs /\ disk' = disk /\ out' = out /\ \A d \in Conns : state'[d] \in {0, state[d]}
        BY <1>0, <1>4 DEF Accept, Runs, Serving
    <2> QED  BY <1>2, <2>1
<1>5. ASSUME NEW c \in Conns, run_client(c) PROVE PutStays'
    <2>1. CASE ReadHeader(c)
        BY <1>2, <2>1 DEF ReadHeader, Runs, Serving
    <2>2. ASSUME NEW s \in Int, Parsed(c, s)
          PROVE  /\ out' = out /\ state'[c] = s
                 /\ \A d \in Conns : d # c => state'[d] = state[d]
        BY <1>0, <2>2 DEF Parsed
    <2>3. CASE HeaderBad(c)
        <3>1. Parsed(c, -1) /\ -1 \in Int /\ disk' = disk /\ Runs
            BY <2>3 DEF HeaderBad, Runs
        <3> QED  BY <1>2, <2>2, <3>1
    <2>4. CASE PutOpenFails(c)
        <3>1. Parsed(c, -2) /\ -2 \in Int /\ disk' = disk /\ Runs
            BY <2>4 DEF PutOpenFails, Runs
        <3> QED  BY <1>2, <2>2, <3>1
    <2>5. CASE HeaderPlain(c)
        <3>1. PICK s \in Int : Parsed(c, s)
            BY <2>5 DEF HeaderPlain
        <3>2. disk' = disk /\ Runs /\ req[c].verb # "PUT"
            BY <2>5 DEF HeaderPlain, Runs
        <3> QED  BY <1>2, <2>2, <3>1, <3>2
    <2>6. ASSUME Runs, req[c].verb \in {"PUT", "DELETE"},
                 \A d \in Conns : d # c => out'[d] = out[d] /\ state'[d] = state[d],
                 \A f \in DOMAIN disk : f # req[c].name => f \in DOMAIN disk' /\ disk'[f] = disk[f],
                 /\ req[c].verb = "PUT"
                 /\ out'[c] = <<"OK">> \/ state'[c] = 1
                 => req[c].name \in DOMAIN disk' /\ disk'[req[c].name].from = c
          PROVE  PutStays'
        <3> SUFFICES ASSUME NEW d \in Conns, req[d].verb = "PUT", Alone(d),
                            out'[d] = <<"OK">> \/ state'[d] = 1
                     PROVE  req[d].name \in DOMAIN disk' /\ disk'[req[d].name].from = d
            BY <1>0 DEF PutStays, Alone
        <3>1. CASE d = c
            BY <2>6, <3>1
        <3>2. CASE d # c
            <4>1. req[c].name # req[d].name
                BY <2>6, <3>2 DEF Alone
            <4>2. req[d].name \in DOMAIN disk /\ disk[req[d].name].from = d
                BY <1>0, <2>6, <3>2 DEF PutStays
            <4> QED  BY <2>6, <4>1, <4>2
        <3> QED  BY <3>1, <3>2
    <2>7. CASE PutOpens(c)
        <3>1. /\ Runs /\ req[c].verb = "PUT" /\ cur = c /\ c # NoConn
              /\ UNCHANGED <<out, state>>
              /\ disk' = With(disk, req[c].name, [from |-> c, len |-> 0])
            BY <2>7, ServerAssumption DEF PutOpens, Runs
        <3>2. out[c] = <<>> /\ state[c] = 0
            BY <1>0, <3>1 DEF CurReads, PutAnswer
        <3>3. ~(out'[c] = <<"OK">> \/ state'[c] = 1)
            BY <3>1, <3>2
        <3>4. \A f \in DOMAIN disk : f # req[c].name => f \in DOMAIN disk' /\ disk'[f] = disk[f]
            BY <3>1 DEF With
        <3> QED  BY <2>6, <3>1, <3>3, <3>4
    <2>8. CASE PutFails(c)
        <3>1. /\ Runs /\ cur = c /\ reading = "body" /\ c # NoConn
              /\ Parsed(c, -2) /\ -2 \in Int
              /\ disk' = Restrict(disk, DOMAIN disk \ {req[c].name})
            BY <2>8, ServerAssumption DEF PutFails, BodyRead, Runs
        <3>2. out[c] = <<>> /\ req[c].verb = "PUT"
            BY <1>0, <3>1 DEF CurReads, PutAnswer
        <3>3. /\ out' = out /\ state'[c] = -2
              /\ \A d \in Conns : d # c => state'[d] = state[d]
            BY <2>2, <3>1
        <3>4. ~(out'[c] = <<"OK">> \/ state'[c] = 1)
            BY <3>2, <3>3, SMTT(30)
        <3>5. \A f \in DOMAIN disk : f # req[c].name => f \in DOMAIN disk' /\ disk'[f] = disk[f]
            BY <3>1, RestrictHas
        <3> QED  BY <2>6, <3>1, <3>2, <3>3, <3>4, <3>5
    <2>9. CASE PutSucceeds(c)
        <3> DEFINE e == [from |-> c, len |-> SizeRead(c)]
        <3>1. /\ req[c].verb = "PUT" /\ disk' = With(disk, req[c].name, e)
              /\ e.from = c
            BY <2>9, PutIsWhole
        <3>2. Runs /\ Parsed(c, 1) /\ 1 \in Int
            BY <2>9 DEF PutSucceeds, BodyRead, Runs
        <3>3. \A d \in Conns : d # c => out'[d] = out[d] /\ state'[d] = state[d]
            BY <2>2, <3>2
        <3> HIDE DEF e
        <3>4. /\ req[c].name \in DOMAIN disk' /\ disk'[req[c].name] = e
              /\ \A f \in DOMAIN disk : f # req[c].name => f \in DOMAIN disk' /\ disk'[f] = disk[f]
            BY <3>1 DEF With
        <3> QED  BY <2>6, <3>1, <3>2, <3>3, <3>4
    <2>10. "OK" \in Lines /\ ErrorLine(state[c]) \in Lines /\ ErrorLine(state[c]) # "OK"
        BY DEF Lines, ErrorLine
    <2>11. ASSUME NEW l \in Lines, write_to_socket(c, l), disk' = disk, Runs,
                  state[c] = 1 \/ l # "OK", state' = state
           PROVE  PutStays'
        <3>1. /\ \A d \in Conns : d # c => out'[d] = out[d]
              /\ out'[c] = <<"OK">> => l = "OK"
            BY <2>11, Writes
        <3> QED  BY <1>2, <2>11, <3>1
    <2>12. CASE exec_get(c)
        <3>1. \A d \in Conns : d # c => out'[d] = out[d] /\ state'[d] = state[d]
            <4>1. out' = out \/ write_to_socket(c, "OK")
                BY <2>12 DEF exec_get, Fail, Answer
            <4>2. \A d \in Conns : d # c => out'[d] = out[d]
                BY <2>10, <4>1, Writes
            <4>3. \A d \in Conns : d # c => state'[d] = state[d]
                BY <1>0, <2>12 DEF exec_get, Fail
            <4> QED  BY <4>2, <4>3
        <3>2. disk' = disk /\ Runs /\ req[c].verb # "PUT"
            BY <2>12 DEF exec_get, Executing, Serving, Runs
        <3> QED  BY <1>2, <3>1, <3>2
    <2>13. CASE exec_put(c) \/ exec_list(c)
        BY <2>10, <2>11, <2>13 DEF exec_put, exec_list, Answer, Executing, Serving, Runs
    <2>14. CASE handle_errors(c)
        BY <2>10, <2>11, <2>14 DEF handle_errors, Answer, Serving, Runs
    <2>15. CASE DeleteUnknown(c)
        <3>1. /\ Runs /\ UNCHANGED <<disk, out>>
              /\ \A d \in Conns : state'[d] \in {-3, state[d]}
            BY <1>0, <2>15 DEF DeleteUnknown, Fail, Executing, Serving, Runs
        <3> QED  BY <1>2, <3>1
    <2>16. CASE DeleteKnown(c)
        <3>1. /\ Runs /\ req[c].verb = "DELETE" /\ state' = state
              /\ write_to_socket(c, "OK")
              /\ disk' = Restrict(disk, DOMAIN disk \ {req[c].name})
            BY <2>16 DEF DeleteKnown, Answer, Executing, Serving, Runs
        <3>2. \A d \in Conns : d # c => out'[d] = out[d]
            BY <2>10, <3>1, Writes
        <3>3. \A f \in DOMAIN disk : f # req[c].name => f \in DOMAIN disk' /\ disk'[f] = disk[f]
            BY <3>1, RestrictHas
        <3> QED  BY <2>6, <3>1, <3>2, <3>3
    <2> QED  BY <1>5, <2>1, <2>3, <2>4, <2>5, <2>7, <2>8, <2>9, <2>12, <2>13, <2>14,
                <2>15, <2>16 DEF run_client
<1>6. CASE setup_handlers \/ setup_dir \/ setup_global_variables \/ setup_epoll
    BY <1>2, <1>6, Starts
<1>7. CASE ExitUnclean \/ sigint_handler \/ (server = "globals" /\ CloseServer)
    BY <1>1, <1>7, Ends
<1>8. CASE setup_server_conn
    BY <1>2, <1>7, <1>8, Starts DEF setup_server_conn
<1> QED  BY <1>3, <1>4, <1>5, <1>6, <1>7, <1>8 DEF Next

-----------------------------------------------------------------------------
LEMMA InvHolds == Spec => []Inv
<1> USE DEF store, loop, client
<1>1. Init => Inv
    <2> SUFFICES ASSUME Init PROVE Inv
        OBVIOUS
    <2>1. /\ disk = <<>> /\ file_list = <<>> /\ cur = NoConn /\ existed = FALSE
          /\ link = [c \in Conns |-> "idle"] /\ state = [c \in Conns |-> 0]
          /\ req \in [Conns -> Requests] /\ sent = [c \in Conns |-> 0]
          /\ eof = [c \in Conns |-> FALSE] /\ out = [c \in Conns |-> <<>>]
          /\ got = [c \in Conns |-> [from |-> c, len |-> 0]]
        BY DEF Init, Nothing
    <2>2. DOMAIN disk = {} /\ file_list \in Seq(Files) /\ <<>> \in Seq(Lines)
        BY <2>1
    <2>3. StoreTypes
        BY <2>2 DEF StoreTypes
    <2>4. ConnTypes
        <3>1. existed \in BOOLEAN /\ eof \in [Conns -> BOOLEAN]
            BY <2>1
        <3>2. /\ link \in [Conns -> {"idle", "connected", "accepted", "closed"}]
              /\ state \in [Conns -> Int] /\ sent \in [Conns -> 0 .. 4]
            BY <2>1
        <3> QED  BY <2>1, <3>1, <3>2 DEF ConnTypes
    <2>5. AnswerTypes
        BY <2>1, <2>2 DEF AnswerTypes
    <2>6. CurReads /\ FilesKnown
        BY <2>1, <2>2 DEF CurReads, FilesKnown
    <2>7. \A c \in Conns : out[c] = <<>> /\ out[c] # <<"OK">> /\ state[c] # 1
        BY <2>1
    <2>8. GotWhole /\ PutAnswer /\ PutStays
        BY <2>7 DEF GotWhole, PutAnswer, PutStays
    <2> QED  BY <2>3, <2>4, <2>5, <2>6, <2>8 DEF Inv, Types
<1>2. Inv /\ [Next]_vars => Inv'
    <2> SUFFICES ASSUME Inv, [Next]_vars PROVE Inv'
        OBVIOUS
    <2>1. CASE Next
        BY <2>1, StoreTypesStep, ConnTypesStep, AnswerTypesStep, CurReadsStep,
           FilesKnownStep, GotWholeStep, PutAnswerStep, PutStaysStep DEF Inv, Types
    <2>2. CASE UNCHANGED vars
        <3> USE <2>2 DEF vars
        <3>1. Types' /\ CurReads'
            BY DEF Inv, Types, StoreTypes, ConnTypes, AnswerTypes, CurReads
        <3>2. FilesKnown'
            BY DEF Inv, FilesKnown, Known, Whole, SizeRead, Unfinished, Runs
        <3>3. GotWhole' /\ PutAnswer'
            BY DEF Inv, GotWhole, Whole, SizeRead, PutAnswer
        <3>4. PutStays'
            BY DEF Inv, PutStays, Alone, Runs
        <3> QED  BY <3>1, <3>2, <3>3, <3>4 DEF Inv
    <2> QED  BY <2>1, <2>2
<1> QED  BY <1>1, <1>2, PTL DEF Spec

\* server.c:496-524 and 667-734: for any number of connections and files and any
\* order of their requests, failed ones included, exec_get finds the size it
\* dereferences, a GET is answered with all of one upload of that name, and an
\* upload that was answered with OK stays until another client changes it.
THEOREM FilesStaySound == Spec => []FilesSound
<1>1. Inv => FilesSound
    <2> SUFFICES ASSUME Inv PROVE FilesSound
        OBVIOUS
    <2>1. SizesKnown
        BY ServingKnows DEF SizesKnown
    <2>2. OnlyWholeFiles
        BY DEF Inv, GotWhole, Whole, OnlyWholeFiles
    <2>3. AckedPutStays
        BY DEF Inv, PutStays, Alone, Runs, AckedPutStays
    <2> QED  BY <2>1, <2>2, <2>3 DEF FilesSound
<1> QED  BY <1>1, InvHolds, PTL
=============================================================================
