----------------------------- MODULE BoardServer -----------------------------
(***************************************************************************)
(* The message-board server of src/lab3/server.c: one select() loop over   *)
(* stdin, the listening socket and client_sockets[MAX_CLIENTS], where an   *)
(* empty slot holds 0, the number of STDIN_FILENO.                         *)
(*                                                                         *)
(* One iteration of the loop is a sequence of steps, as in the code: a     *)
(* select() that snapshots the readable descriptors, the stdin branch, the *)
(* accept branch, then the client loop over the slots in order.  A read    *)
(* or accept with nothing to return blocks: its step is not enabled.       *)
(* Descriptors are numbers; fdTab says what each refers to, and accept     *)
(* returns the lowest closed one, as POSIX requires.  The terminals and    *)
(* the TCP streams are the environment.  A client line is "GET" or         *)
(* "POST <m>" with m in Msg (any other line changes nothing, as GET); one  *)
(* read returns one line.                                                  *)
(*                                                                         *)
(* The clients are the program of src/lab3/client.c: a select() loop over  *)
(* its terminal and its socket that prints what the server writes, relays *)
(* each typed line, and on Ctrl-D shuts down its writing half; it exits    *)
(* when the server closes the connection.  What the server writes to a     *)
(* client is abstracted to whether unread bytes are waiting: one read()    *)
(* takes all of them.                                                      *)
(***************************************************************************)
EXTENDS Integers, Sequences, FiniteSets

CONSTANTS
    Client,       \* client processes that may connect
    Msg,          \* message texts of POST lines
    MaxClients,   \* MAX_CLIENTS
    BoardSize,    \* BOARD_SIZE
    MaxFd,        \* highest descriptor number the process may get
    MaxSend,      \* lines a client sends before closing
    Talker,       \* the clients whose users type lines before Ctrl-D
    StdinLines,   \* lines typed on the server's terminal (0: it stays silent)
    StdinCloses   \* whether the terminal may send EOF (Ctrl-D)

StdinFd == 0
ListenFd == 3     \* socket() after stdin, stdout and stderr
Fd == 0..MaxFd
Slot == 1..MaxClients
NoMsg == "empty"  \* a board line still all zero bytes
Line == {"GET"} \cup Msg
EOF == "EOF"      \* the end of a stream (read returns 0)

ASSUME /\ MaxClients \in Nat \ {0} /\ BoardSize \in Nat \ {0}
       /\ MaxFd >= ListenFd /\ MaxSend \in Nat /\ StdinLines \in Nat
       /\ StdinCloses \in BOOLEAN /\ NoMsg \notin Msg /\ EOF \notin Line

VARIABLES
    slots,      \* client_sockets[]
    nClients,   \* n_clients
    board,      \* board[], each line a message or NoMsg
    count,      \* board_msg_count
    fdTab,      \* fdTab[fd]: "closed", "tty" (stdin/stdout/stderr), "listen" or a client
    pc,         \* the server's next step: "select", "stdin", "listen", "client" or "exit"
    cur,        \* i of the client loop
    ready,      \* readfds as select() left it
    cstate,     \* cstate[c]: "idle", "pending" (in the backlog), "accepted" or "rejected"
    stream,     \* stream[c]: lines c sent that the server has not read, then EOF
    sent,       \* sent[c]: lines c has sent
    tty,        \* lines typed on the terminal not yet read, then EOF
    typed,      \* lines typed so far
    unread,     \* unread[c]: the server has written bytes c has not read
    exited      \* exited[c]: the client process has exited

procVars == <<unread, exited>>
vars == <<slots, nClients, board, count, fdTab, pc, cur, ready, cstate, stream, sent, tty, typed, procVars>>

-----------------------------------------------------------------------------
\* What read() on descriptor fd finds: "data", "eof", "error" or "block".
ReadResult(fd) ==
    LET o == fdTab[fd] IN
    CASE o = "closed" -> "error"
      [] o = "tty" -> IF tty = <<>> THEN "block"
                      ELSE IF Head(tty) = EOF THEN "eof" ELSE "data"
      [] o \in Client -> IF stream[o] = <<>> THEN "block"
                         ELSE IF Head(stream[o]) = EOF THEN "eof" ELSE "data"
      [] OTHER -> "error"

\* The line read() returns on fd, and consuming it.
LineOn(fd) == IF fdTab[fd] = "tty" THEN Head(tty) ELSE Head(stream[fdTab[fd]])
Consume(fd) ==
    IF fdTab[fd] = "tty" THEN /\ tty' = Tail(tty) /\ UNCHANGED stream
    ELSE /\ stream' = [stream EXCEPT ![fdTab[fd]] = Tail(@)] /\ UNCHANGED tty

\* Whether select() reports fd readable.
Readable(fd) ==
    \/ fdTab[fd] = "listen" /\ \E c \in Client : cstate[c] = "pending"
    \/ fdTab[fd] # "listen" /\ ReadResult(fd) # "block"

\* FD_ISSET(fd, &readfds).
IsSet(fd) == fd \in ready

\* The admission test of the accept branch.
Full == nClients >= MaxClients


\* write() of some bytes to each descriptor in fds: the client at the other
\* end of a connection finds them readable.
WriteTo(fds) ==
    unread' = [c \in Client |-> unread[c] \/ \E fd \in fds : fdTab[fd] = c]

\* The POST handler: the message goes to board[board_msg_count % BOARD_SIZE]
\* and is written to every other slot holding a positive descriptor.
Post(m, sockfd) ==
    /\ board' = [board EXCEPT ![count % BoardSize] = m]
    /\ count' = count + 1
    /\ WriteTo({slots[j] : j \in Slot} \ {0, sockfd})

\* The GET handler: each non-empty board line is written back to sockfd.
Get(sockfd) ==
    /\ WriteTo(IF \E k \in DOMAIN board : board[k] # NoMsg THEN {sockfd} ELSE {})
    /\ UNCHANGED <<board, count>>

\* Mutant: an empty slot is marked -1, as select() servers often do.
Disconnect_MinusOne(i) ==
    /\ slots' = [slots EXCEPT ![i] = -1]
    /\ fdTab' = [fdTab EXCEPT ![slots[i]] = "closed"]
    /\ nClients' = nClients - 1

\* The n == 0 and n < 0 branches of the client loop: close(sockfd), empty
\* the slot, n_clients--.
Disconnect(i) ==
    /\ slots' = [slots EXCEPT ![i] = 0]
    /\ fdTab' = [fdTab EXCEPT ![slots[i]] = "closed"]
    /\ nClients' = nClients - 1

-----------------------------------------------------------------------------
Init ==
    /\ slots = [i \in Slot |-> 0]
    /\ nClients = 0
    /\ board = [k \in 0..BoardSize - 1 |-> NoMsg]
    /\ count = 0
    /\ fdTab = [fd \in Fd |-> CASE fd \in 0..2 -> "tty"
                                [] fd = ListenFd -> "listen"
                                [] OTHER -> "closed"]
    /\ pc = "select"
    /\ cur = 1
    /\ ready = {}
    /\ cstate = [c \in Client |-> "idle"]
    /\ stream = [c \in Client |-> <<>>]
    /\ sent = [c \in Client |-> 0]
    /\ tty = <<>>
    /\ typed = 0
    /\ unread = [c \in Client |-> FALSE]
    /\ exited = [c \in Client |-> FALSE]

\* select() on stdin, the listening socket and every slot holding a
\* positive descriptor.  It blocks until one is readable; if one of them
\* is closed it fails with EBADF and leaves the sets as they were built.
Select ==
    LET watched == {StdinFd, ListenFd} \cup {slots[i] : i \in {j \in Slot : slots[j] > 0}}
    IN  /\ pc = "select"
        /\ IF \E fd \in watched : fdTab[fd] = "closed"
           THEN ready' = watched
           ELSE /\ ready' = {fd \in watched : Readable(fd)}
                /\ ready' # {}
        /\ pc' = "stdin"
        /\ UNCHANGED <<slots, nClients, board, count, fdTab, cur, cstate, stream, sent, tty, typed, procVars>>

\* The stdin branch: read(STDIN_FILENO, buf, 10); end of file shuts the
\* server down, anything else is ignored.
StdinStep ==
    /\ pc = "stdin"
    /\ ~IsSet(StdinFd) \/ ReadResult(StdinFd) # "block"
    /\ pc' = IF IsSet(StdinFd) /\ ReadResult(StdinFd) = "eof" THEN "exit" ELSE "listen"
    /\ IF IsSet(StdinFd) /\ ReadResult(StdinFd) = "data" THEN Consume(StdinFd)
       ELSE UNCHANGED <<tty, stream>>
    /\ UNCHANGED <<slots, nClients, board, count, fdTab, cur, ready, cstate, sent, typed, procVars>>

\* The accept branch.  accept() blocks until a connection is pending and
\* returns the lowest closed descriptor (none left: accept fails and the
\* server exits).  A full server closes it; otherwise it goes into the
\* first slot holding 0, and n_clients++.
ListenStep ==
    /\ pc = "listen"
    /\ \/ /\ ~IsSet(ListenFd)
          /\ pc' = "client"
          /\ UNCHANGED <<slots, nClients, fdTab, cstate>>
       \/ /\ IsSet(ListenFd)
          /\ \E c \in Client :
               /\ cstate[c] = "pending"
               /\ IF \A fd \in Fd : fdTab[fd] # "closed"
                  THEN /\ pc' = "exit"
                       /\ UNCHANGED <<slots, nClients, fdTab, cstate>>
                  ELSE LET connfd == CHOOSE fd \in Fd : fdTab[fd] = "closed" /\
                                       \A g \in 0..fd - 1 : fdTab[g] # "closed"
                           free   == {i \in Slot : slots[i] = 0}
                       IN  /\ pc' = "client"
                           /\ IF Full
                              THEN /\ cstate' = [cstate EXCEPT ![c] = "rejected"]
                                   /\ UNCHANGED <<slots, nClients, fdTab>>
                              ELSE /\ cstate' = [cstate EXCEPT ![c] = "accepted"]
                                   /\ fdTab' = [fdTab EXCEPT ![connfd] = c]
                                   /\ IF free = {} THEN UNCHANGED <<slots, nClients>>
                                      ELSE LET i == CHOOSE j \in free : \A k \in free : j <= k
                                           IN  /\ slots' = [slots EXCEPT ![i] = connfd]
                                               /\ nClients' = nClients + 1
    /\ cur' = 1
    /\ UNCHANGED <<board, count, ready, stream, sent, tty, typed, procVars>>

\* The client loop at slot i: sockfd = client_sockets[i] (0 when empty);
\* if FD_ISSET(sockfd), read it: 0 or -1 disconnects the slot, a line is
\* handled (POST stores it on the board, GET only writes back).
ClientStep(i) ==
    LET fd == slots[i] IN
    /\ pc = "client"
    /\ cur = i
    /\ ~IsSet(fd) \/ ReadResult(fd) # "block"
    /\ pc' = IF i = MaxClients THEN "select" ELSE "client"
    /\ cur' = IF i = MaxClients THEN 1 ELSE i + 1
    /\ IF ~IsSet(fd)
       THEN UNCHANGED <<slots, nClients, fdTab, board, count, tty, stream, unread>>
       ELSE IF ReadResult(fd) \in {"eof", "error"}
       THEN /\ Disconnect(i)
            /\ UNCHANGED <<board, count, unread>>
            /\ IF ReadResult(fd) = "eof" THEN Consume(fd) ELSE UNCHANGED <<tty, stream>>
       ELSE /\ IF LineOn(fd) \in Msg THEN Post(LineOn(fd), fd) ELSE Get(fd)
            /\ Consume(fd)
            /\ UNCHANGED <<slots, nClients, fdTab>>
    /\ UNCHANGED <<ready, cstate, sent, typed, exited>>

-----------------------------------------------------------------------------
(* The clients (src/lab3/client.c) and the server's terminal.              *)

ServerVars == <<slots, nClients, board, count, fdTab, pc, cur, ready>>

\* The server has closed c's connection: c was refused (close(connfd)), its
\* slot was closed, or the server process has exited, which closes every
\* descriptor and resets the connections still in the backlog.
Hup(c) ==
    \/ pc = "exit"
    \/ cstate[c] = "rejected"
    \/ cstate[c] = "accepted" /\ \A fd \in Fd : fdTab[fd] # c

\* select() reports c's socket readable.
SockReady(c) == unread[c] \/ Hup(c)

\* Lines 44-62: socket() and connect(), which returns as soon as the
\* server's kernel has queued the connection, before accept().  With the
\* server gone, connect fails and the client exits.
Connect(c) ==
    /\ cstate[c] = "idle" /\ ~exited[c]
    /\ IF pc = "exit"
       THEN exited' = [exited EXCEPT ![c] = TRUE] /\ UNCHANGED cstate
       ELSE cstate' = [cstate EXCEPT ![c] = "pending"] /\ UNCHANGED exited
    /\ UNCHANGED <<ServerVars, stream, sent, tty, typed, unread>>

\* handle_server_message: read() returns the bytes waiting, which are
\* printed; 0 (or an error) means the server closed, and the client exits.
HandleServerMessage(c) ==
    IF unread[c]
    THEN unread' = [unread EXCEPT ![c] = FALSE] /\ UNCHANGED exited
    ELSE exited' = [exited EXCEPT ![c] = TRUE] /\ UNCHANGED unread

\* Mutant: Ctrl-D closes the socket instead of shutting down its writing
\* half; the next select() fails with EBADF and the client exits.
HandleUserInput_Close(c, l) ==
    /\ stream' = [stream EXCEPT ![c] = Append(@, l)]
    /\ sent' = [sent EXCEPT ![c] = IF l = EOF THEN MaxSend + 1 ELSE @ + 1]
    /\ exited' = [exited EXCEPT ![c] = l = EOF]

\* handle_user_input: fgets() got line l, which is written to the socket,
\* or end of file, and shutdown(SHUT_WR) sends the server EOF; sent[c] =
\* MaxSend + 1 once it has.
HandleUserInput(c, l) ==
    /\ stream' = [stream EXCEPT ![c] = Append(@, l)]
    /\ sent' = [sent EXCEPT ![c] = IF l = EOF THEN MaxSend + 1 ELSE @ + 1]
    /\ UNCHANGED exited

\* An iteration of the loop of lines 68-84 in which select() returns the
\* socket alone.  After Ctrl-D stdin stays readable at end of file, and
\* each iteration repeats a shutdown() that changes nothing.
ClientSock(c) ==
    /\ cstate[c] # "idle" /\ ~exited[c]
    /\ SockReady(c)
    /\ HandleServerMessage(c)
    /\ UNCHANGED <<ServerVars, cstate, stream, sent, tty, typed>>

\* An iteration in which the user has typed line l or Ctrl-D (not yet
\* typed before).  The socket branch comes first: at end of file the
\* client exits before it reads stdin; bytes waiting are printed.
ClientInput(c, l) ==
    /\ cstate[c] # "idle" /\ ~exited[c]
    /\ sent[c] <= MaxSend
    /\ l # EOF => sent[c] < MaxSend /\ c \in Talker
    /\ IF Hup(c) /\ ~unread[c]
       THEN /\ exited' = [exited EXCEPT ![c] = TRUE]
            /\ UNCHANGED <<unread, stream, sent>>
       ELSE /\ unread' = [unread EXCEPT ![c] = FALSE]
            /\ HandleUserInput(c, l)
    /\ UNCHANGED <<ServerVars, cstate, tty, typed>>

\* Someone types a line, or Ctrl-D, on the server's terminal; typed =
\* StdinLines + 1 once Ctrl-D has been typed.
Type(l) ==
    /\ typed <= StdinLines
    /\ l # EOF => typed < StdinLines
    /\ l = EOF => StdinCloses
    /\ tty' = Append(tty, l)
    /\ typed' = IF l = EOF THEN StdinLines + 1 ELSE typed + 1
    /\ UNCHANGED <<ServerVars, cstate, stream, sent, procVars>>

ServerStep == Select \/ StdinStep \/ ListenStep \/ \E i \in Slot : ClientStep(i)

Next ==
    \/ ServerStep
    \/ \E c \in Client : Connect(c) \/ ClientSock(c)
    \/ \E c \in Client, l \in Line \cup {EOF} : ClientInput(c, l)
    \/ \E l \in Line \cup {EOF} : Type(l)

\* The server and each client are single-threaded processes that wait only
\* in select(), read() and accept(): the server runs whenever one of its
\* steps can, and a client whose socket is readable gets out of select()
\* and reads it.  The users need not type, nor start a client.
Spec == Init /\ [][Next]_vars /\ WF_vars(ServerStep)
            /\ \A c \in Client : WF_vars(ClientSock(c))

-----------------------------------------------------------------------------
(* Properties.                                                             *)

\* The type invariant: every variable holds a value of its C type's model.
TypeOK ==
    /\ slots \in [Slot -> Fd]
    /\ nClients \in Int
    /\ board \in [0..BoardSize - 1 -> Msg \cup {NoMsg}]
    /\ count \in Nat
    /\ fdTab \in [Fd -> {"closed", "tty", "listen"} \cup Client]
    /\ pc \in {"select", "stdin", "listen", "client", "exit"}
    /\ cur \in Slot
    /\ ready \subseteq Fd
    /\ cstate \in [Client -> {"idle", "pending", "accepted", "rejected"}]
    /\ \A c \in Client : stream[c] \in Seq(Line \cup {EOF})
    /\ tty \in Seq(Line \cup {EOF})
    /\ unread \in [Client -> BOOLEAN]
    /\ exited \in [Client -> BOOLEAN]

\* The server never writes to a client process that has exited.  Such a
\* write (a POST broadcast or a GET reply) is answered with a reset, and
\* the next one raises SIGPIPE, which kills the server.  client.c exits only
\* once the server has closed its end; this needs the client to half-close
\* on Ctrl-D and the server to drop the slot on the EOF it then reads.  It
\* holds also when a line typed on the server's terminal sends the client
\* loop reading stdin for an empty slot, closing descriptor 0 and letting
\* accept() hand a client descriptor 0 (the server.c:130 hazard).
NoWriteToExitedClient == \A c \in Client : exited[c] => ~unread[c]

=============================================================================
