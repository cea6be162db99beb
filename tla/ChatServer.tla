----------------------------- MODULE ChatServer -----------------------------
(***************************************************************************)
(* src/hw2/chatroom_server.c: the main thread's select() loop, the pool    *)
(* of worker threads running process_message, the clients list, the two    *)
(* queues and the SIGINT shutdown, with the clients on the other side of   *)
(* their TCP connections.                                                  *)
(*                                                                         *)
(* Each clients_mtx critical section is one atomic step; the steps of a    *)
(* thread between two of them are where the others interleave.  The        *)
(* queues are the FIFOs of FifoQueue (ChatQueue shows that the linked      *)
(* list implements one), each q_ operation one step.                       *)
(*                                                                         *)
(* A connection is a model value; its Client struct is named by it, so     *)
(* freed holds the connections whose struct has been free'd.  A line is a  *)
(* word (a valid username, or chat text), "/quit" or EOF; a recv returns   *)
(* one line.  What the server writes to clients is not modelled: it        *)
(* changes no state of the server.                                         *)
(***************************************************************************)
EXTENDS Naturals, Sequences, FiniteSets

CONSTANTS
    Conn,        \* client connections
    Word,        \* lines that are valid usernames (and chat text)
    Quit,        \* the line "/quit"
    EOF,         \* recv returning 0
    NoName,      \* username[0] == '\0'
    Free,        \* a descriptor number that is not open
    Worker,      \* the num_workers worker threads
    MaxClients,  \* max_clients
    MaxLines,    \* lines a client sends before it hangs up
    MaxSent      \* lines all the clients send together

ASSUME /\ Quit \notin Word /\ EOF \notin Word \cup {Quit} /\ NoName \notin Word
       /\ MaxClients \in Nat \ {0} /\ MaxLines \in Nat /\ MaxSent \in Nat

ServerFd == 3
\* Descriptors accept can return (one per connection is enough).
Fd == 4..(3 + Cardinality(Conn))

Line == Word \cup {Quit}

VARIABLES
    \* the clients
    cst,      \* cst[k]: "idle", "pending" (in the backlog), "open", "rejected"
    inbox,    \* inbox[k]: lines k has sent that the server has not read
    nsent,    \* nsent[k]: lines k has sent (MaxLines + 1 once it hung up)
    sent,     \* lines sent by all clients
    \* the kernel
    fdConn,   \* fdConn[fd]: the connection descriptor fd refers to, or Free
    srvOpen,  \* server_fd is open
    \* the server's data
    clients,  \* the clients list, head first (new clients are prepended)
    cfd,      \* cfd[k]: client->fd of k's Client
    cname,    \* cname[k]: client->username of k's Client
    freed,    \* connections whose Client has been free'd
    current,  \* current_clients
    jobq,     \* job_queue: jobs [fd (sender_fd), line (msg)]
    bq,       \* bcast_queue: [excl, who]
    jclosed, bclosed, \* the closed flags of the queues
    shut,     \* shutdown_flag
    \* the main thread
    mpc,      \* "select", "accept", "scan", "drain", "cleanup", "join", "exit"
    ready,    \* the descriptors select() reported readable
    scan,     \* the clients the loop over the list has still to visit
    \* the workers
    wpc,      \* wpc[w]: "top", "pop", "find", "check", "taken", "set", "exit"
    job,      \* job[w]: the job w has popped
    sender    \* sender[w]: the Client process_message found

envVars  == <<cst, inbox, nsent, sent>>
dataVars == <<fdConn, srvOpen, clients, cfd, cname, freed, current,
              jobq, bq, jclosed, bclosed, shut>>
mainVars == <<mpc, ready, scan>>
wVars    == <<wpc, job, sender>>
vars     == <<envVars, dataVars, mainVars, wVars>>

NoJob == [fd |-> Free, line |-> EOF]

Init ==
    /\ cst = [k \in Conn |-> "idle"]
    /\ inbox = [k \in Conn |-> <<>>]
    /\ nsent = [k \in Conn |-> 0]
    /\ sent = 0
    /\ fdConn = [fd \in Fd |-> Free]
    /\ srvOpen = TRUE
    /\ clients = <<>>
    /\ cfd = [k \in Conn |-> Free]
    /\ cname = [k \in Conn |-> NoName]
    /\ freed = {}
    /\ current = 0
    /\ jobq = <<>> /\ bq = <<>>
    /\ jclosed = FALSE /\ bclosed = FALSE
    /\ shut = FALSE
    /\ mpc = "select" /\ ready = {} /\ scan = <<>>
    /\ wpc = [w \in Worker |-> "top"]
    /\ job = [w \in Worker |-> NoJob]
    /\ sender = [w \in Worker |-> NoName]

\* Mutant: only a client at the head of the list is unlinked (the walk to
\* its predecessor is missing).
Unlinked_HeadOnly(k) ==
    IF clients # <<>> /\ Head(clients) = k THEN Tail(clients) ELSE clients

\* The list without k (remove_client's unlink).
Unlinked(k) == SelectSeq(clients, LAMBDA x : x # k)

LowestFree == CHOOSE fd \in Fd : fdConn[fd] = Free /\ \A g \in Fd : fdConn[g] = Free => fd <= g

\* The Client the list reaches first with client->fd == fd, if any.
FirstWithFd(fd) ==
    LET is == {i \in 1..Len(clients) : cfd[clients[i]] = fd}
    IN  IF is = {} THEN NoName
        ELSE clients[CHOOSE i \in is : \A j \in is : i <= j]

-----------------------------------------------------------------------------
(* The clients.  Once the server has left its loop nothing it does        *)
(* depends on them, so they are stopped there.                             *)

InLoop == mpc \in {"select", "accept", "scan", "drain"}

Connect(k) ==
    /\ InLoop
    /\ cst[k] = "idle"
    /\ cst' = [cst EXCEPT ![k] = "pending"]
    /\ UNCHANGED <<inbox, nsent, sent, dataVars, mainVars, wVars>>

Send(k, l) ==
    /\ InLoop
    /\ cst[k] \in {"pending", "open"}
    /\ nsent[k] < MaxLines /\ sent < MaxSent
    /\ inbox' = [inbox EXCEPT ![k] = Append(@, l)]
    /\ nsent' = [nsent EXCEPT ![k] = @ + 1]
    /\ sent' = sent + 1
    /\ UNCHANGED <<cst, dataVars, mainVars, wVars>>

\* The client closes its end: recv returns 0 after the lines before it.
Hangup(k) ==
    /\ InLoop
    /\ cst[k] \in {"pending", "open"}
    /\ nsent[k] <= MaxLines
    /\ inbox' = [inbox EXCEPT ![k] = Append(@, EOF)]
    /\ nsent' = [nsent EXCEPT ![k] = MaxLines + 1]
    /\ UNCHANGED <<cst, sent, dataVars, mainVars, wVars>>

\* handle_signal: shutdown_flag = 1, server_fd closed (and set to -1),
\* both queues closed (q_close wakes the workers blocked in q_pop).
HandleSignal ==
    /\ shut' = TRUE
    /\ srvOpen' = FALSE
    /\ jclosed' = TRUE /\ bclosed' = TRUE

\* SIGINT handled between two steps of some thread.  A blocking recv it
\* interrupts is restarted (signal() installs the handler with SA_RESTART).
Sigint ==
    /\ ~shut
    /\ HandleSignal
    /\ UNCHANGED <<envVars, fdConn, clients, cfd, cname, freed, current,
                   jobq, bq, mainVars, wVars>>

-----------------------------------------------------------------------------
(* The main thread.                                                        *)

\* The descriptors of the listed clients.
ListedFds == {cfd[clients[i]] : i \in 1..Len(clients)}

\* The clients of the list whose descriptor is in read_fds: those the loop
\* over the list (which holds clients_mtx except around each
\* handle_client_message, and which no other thread changes) calls
\* handle_client_message for, in list order.
ToHandle(list, fds) == SelectSeq(list, LAMBDA k : cfd[k] \in fds)

\* Top of the while (!shutdown_flag) loop: the fd set is built from the
\* list under clients_mtx and select() called.  A descriptor in the set
\* that is not open makes select fail with EBADF, and the loop breaks.
\* Otherwise select returns the descriptors that are readable (it returns
\* after the 1 s timeout when none is, or with EINTR).
MSelect ==
    LET rd == {fd \in ListedFds : inbox[fdConn[fd]] # <<>>}
              \cup (IF srvOpen /\ \E k \in Conn : cst[k] = "pending"
                    THEN {ServerFd} ELSE {})
    IN
    /\ mpc = "select"
    /\ IF shut \/ \E fd \in ListedFds : fdConn[fd] = Free
       THEN /\ mpc' = "cleanup" /\ UNCHANGED <<ready, scan>>
       ELSE IF ServerFd \in rd
       THEN /\ mpc' = "accept" /\ ready' = rd /\ UNCHANGED scan
       ELSE /\ mpc' = "scan" /\ scan' = ToHandle(clients, rd)
            /\ UNCHANGED ready
    /\ UNCHANGED <<envVars, dataVars, wVars>>

\* SIGINT handled while main waits in select(): select returns -1 with
\* EINTR, which the loop does not treat as an error, and leaves read_fds
\* as built, so every listed client's descriptor reads as ready.
\* handle_new_connection(-1) fails in accept and changes nothing; the loop
\* over the list then calls handle_client_message for every client.
SigintInSelect ==
    /\ mpc = "select"
    /\ ~shut
    /\ HandleSignal
    /\ mpc' = "scan"
    /\ scan' = clients
    /\ UNCHANGED <<envVars, fdConn, clients, cfd, cname, freed, current,
                   jobq, bq, ready, wVars>>

\* handle_new_connection (server_fd readable): accept takes a pending
\* connection; with current_clients >= max_clients it is sent "Server is
\* full" and closed, otherwise it gets the lowest free descriptor and a
\* Client at the head of the list.  Then the loop over the list starts
\* from its (new) head.
MAccept ==
    /\ mpc = "accept"
    /\ mpc' = "scan"
    /\ ready' = {}
    /\ \E k \in Conn :
         /\ cst[k] = "pending"
         /\ IF current >= MaxClients
            THEN /\ cst' = [cst EXCEPT ![k] = "rejected"]
                 /\ scan' = ToHandle(clients, ready)
                 /\ UNCHANGED <<fdConn, clients, cfd, cname, current>>
            ELSE LET fd == LowestFree IN
                 /\ cst' = [cst EXCEPT ![k] = "open"]
                 /\ fdConn' = [fdConn EXCEPT ![fd] = k]
                 /\ cfd' = [cfd EXCEPT ![k] = fd]
                 /\ cname' = [cname EXCEPT ![k] = NoName]
                 /\ clients' = <<k>> \o clients
                 /\ current' = current + 1
                 /\ scan' = SelectSeq(clients', LAMBDA x : cfd'[x] \in ready)
    /\ UNCHANGED <<inbox, nsent, sent, srvOpen, freed, jobq, bq, jclosed, bclosed,
                   shut, wVars>>

\* Mutant: remove_client without current_clients--.
RemoveClient_NoDecrement(k) ==
    /\ clients' = Unlinked(k)
    /\ current' = current
    /\ fdConn' = [fdConn EXCEPT ![cfd[k]] = Free]
    /\ freed' = freed \cup {k}

\* remove_client(k), under clients_mtx: k unlinked (at the head, or after
\* its predecessor), current_clients--, its descriptor closed (whatever
\* that descriptor now refers to) and the Client freed.  The leave message
\* is broadcast directly, which changes no state.
RemoveClient(k) ==
    /\ clients' = Unlinked(k)
    /\ current' = current - 1
    /\ fdConn' = [fdConn EXCEPT ![cfd[k]] = Free]
    /\ freed' = freed \cup {k}

\* The next client the loop over the list reaches whose descriptor is in
\* read_fds (next was saved before the call): handle_client_message does
\* a recv on it: an error (the descriptor is closed) or EOF removes the client;
\* a line becomes a job {sender_fd = client->fd, msg} pushed on job_queue.
\* recv blocks while the connection has nothing to read.  When the loop
\* ends, the first q_try_pop of the drain loop finds the queue empty or
\* not.
MScan ==
    /\ mpc = "scan"
    /\ IF scan = <<>>
       THEN /\ mpc' = IF bq = <<>> THEN "select" ELSE "drain"
            /\ UNCHANGED <<scan, inbox, fdConn, clients, freed, current, jobq>>
       ELSE LET k == Head(scan)  fd == cfd[k]  peer == fdConn[fd] IN
            /\ scan' = Tail(scan)
            /\ mpc' = "scan"
            /\ IF peer = Free
               THEN /\ RemoveClient(k)
                    /\ UNCHANGED <<inbox, jobq>>
               ELSE /\ inbox[peer] # <<>>
                    /\ inbox' = [inbox EXCEPT ![peer] = Tail(@)]
                    /\ IF Head(inbox[peer]) = EOF
                       THEN /\ RemoveClient(k)
                            /\ UNCHANGED jobq
                       ELSE /\ jobq' = Append(jobq, [fd |-> fd,
                                                     line |-> Head(inbox[peer])])
                            /\ UNCHANGED <<fdConn, clients, freed, current>>
    /\ UNCHANGED <<cst, nsent, sent, srvOpen, cfd, cname, bq, jclosed, bclosed, shut,
                   ready, wVars>>

\* The loop over q_try_pop(&bcast_queue): each job is broadcast and freed;
\* NULL ends it and the while loop goes round.
MDrain ==
    /\ mpc = "drain"
    /\ IF bq = <<>>
       THEN /\ mpc' = "select" /\ UNCHANGED bq
       ELSE /\ bq' = Tail(bq) /\ UNCHANGED mpc
    /\ UNCHANGED <<envVars, fdConn, srvOpen, clients, cfd, cname, freed,
                   current, jobq, jclosed, bclosed, shut, ready, scan, wVars>>

\* After the loop: server_fd closed; every listed client's descriptor
\* closed and its Client freed, the list emptied; each queue closed
\* unless it already is.
MCleanup ==
    /\ mpc = "cleanup"
    /\ mpc' = "join"
    /\ srvOpen' = FALSE
    /\ fdConn' = [fd \in Fd |-> IF fd \in ListedFds THEN Free ELSE fdConn[fd]]
    /\ freed' = freed \cup {clients[i] : i \in 1..Len(clients)}
    /\ clients' = <<>>
    /\ jclosed' = TRUE /\ bclosed' = TRUE
    /\ UNCHANGED <<envVars, cfd, cname, current, jobq, bq, shut, ready, scan,
                   wVars>>

\* pthread_join of every worker; then main returns and the process exits.
MJoin ==
    /\ mpc = "join"
    /\ \A w \in Worker : wpc[w] = "exit"
    /\ mpc' = "exit"
    /\ UNCHANGED <<envVars, dataVars, ready, scan, wVars>>

-----------------------------------------------------------------------------
(* The workers: worker_thread and process_message.                         *)

SetW(w, pc) == wpc' = [wpc EXCEPT ![w] = pc]

\* process_message returns and worker_thread frees the job.
Ret(w) ==
    /\ SetW(w, "top")
    /\ job' = [job EXCEPT ![w] = NoJob]
    /\ sender' = [sender EXCEPT ![w] = NoName]

\* while (!shutdown_flag): the test at the top of the loop.
WTop(w) ==
    /\ wpc[w] = "top"
    /\ SetW(w, IF shut THEN "exit" ELSE "pop")
    /\ UNCHANGED <<envVars, dataVars, mainVars, job, sender>>

\* Mutant: q_pop waits while the queue is empty, closed or not.
WPop_IgnoreClosed(w) ==
    /\ wpc[w] = "pop"
    /\ jobq # <<>>
    /\ job' = [job EXCEPT ![w] = Head(jobq)]
    /\ jobq' = Tail(jobq)
    /\ SetW(w, "find")
    /\ UNCHANGED <<envVars, fdConn, srvOpen, clients, cfd, cname, freed,
                   current, bq, jclosed, bclosed, shut, mainVars, sender>>

\* q_pop(&job_queue): blocks while the queue is empty and open, returns
\* NULL (the worker leaves its loop) once it is closed and empty.
WPop(w) ==
    /\ wpc[w] = "pop"
    /\ jobq # <<>> \/ jclosed
    /\ IF jobq # <<>>
       THEN /\ job' = [job EXCEPT ![w] = Head(jobq)]
            /\ jobq' = Tail(jobq)
            /\ SetW(w, "find")
       ELSE /\ SetW(w, "exit") /\ UNCHANGED <<job, jobq>>
    /\ UNCHANGED <<envVars, fdConn, srvOpen, clients, cfd, cname, freed,
                   current, bq, jclosed, bclosed, shut, mainVars, sender>>

\* The search of the list for client->fd == job->sender_fd, under
\* clients_mtx; no sender ends process_message.
WFind(w) ==
    LET c == FirstWithFd(job[w].fd) IN
    /\ wpc[w] = "find"
    /\ IF c = NoName
       THEN Ret(w)
       ELSE /\ sender' = [sender EXCEPT ![w] = c]
            /\ SetW(w, "check")
            /\ UNCHANGED job
    /\ UNCHANGED <<envVars, dataVars, mainVars>>

\* With the lock released: sender->username is read.  Empty: the line is
\* a username; "/quit" fails validation (an error is sent), a word goes on
\* to is_username_taken.  Otherwise "/quit" does close(sender->fd) and
\* returns, leaving the Client in the list; any other line is formatted
\* with sender->username and pushed on bcast_queue with sender->fd.
WCheck(w) ==
    LET c == sender[w]  l == job[w].line IN
    /\ wpc[w] = "check"
    /\ \/ /\ cname[c] = NoName /\ l = Quit
          /\ Ret(w)
          /\ UNCHANGED <<fdConn, bq>>
       \/ /\ cname[c] = NoName /\ l # Quit
          /\ SetW(w, "taken")
          /\ UNCHANGED <<fdConn, bq, job, sender>>
       \/ /\ cname[c] # NoName /\ l = Quit
          /\ fdConn' = [fdConn EXCEPT ![cfd[c]] = Free]
          /\ Ret(w)
          /\ UNCHANGED bq
       \/ /\ cname[c] # NoName /\ l # Quit
          /\ bq' = Append(bq, [excl |-> cfd[c], who |-> cname[c]])
          /\ Ret(w)
          /\ UNCHANGED fdConn
    /\ UNCHANGED <<envVars, srvOpen, clients, cfd, cname, freed, current,
                   jobq, jclosed, bclosed, shut, mainVars>>

\* is_username_taken, under clients_mtx: some listed client has the name
\* (an error is sent and process_message returns).
WTaken(w) ==
    /\ wpc[w] = "taken"
    /\ IF \E i \in 1..Len(clients) : cname[clients[i]] = job[w].line
       THEN Ret(w)
       ELSE SetW(w, "set") /\ UNCHANGED <<job, sender>>
    /\ UNCHANGED <<envVars, dataVars, mainVars>>

\* With no lock held: sender->username = the name, the welcome sent and a
\* "joined" job pushed on bcast_queue with sender->fd.
WSet(w) ==
    LET c == sender[w] IN
    /\ wpc[w] = "set"
    /\ cname' = [cname EXCEPT ![c] = job[w].line]
    /\ bq' = Append(bq, [excl |-> cfd[c], who |-> job[w].line])
    /\ Ret(w)
    /\ UNCHANGED <<envVars, fdConn, srvOpen, clients, cfd, freed, current,
                   jobq, jclosed, bclosed, shut, mainVars>>

-----------------------------------------------------------------------------
Next ==
    \/ \E k \in Conn : \/ Connect(k) \/ Hangup(k)
                       \/ \E l \in Line : Send(k, l)
    \/ Sigint \/ SigintInSelect
    \/ MSelect \/ MAccept \/ MScan \/ MDrain \/ MCleanup \/ MJoin
    \/ \E w \in Worker : \/ WTop(w) \/ WPop(w) \/ WFind(w)
                         \/ WCheck(w) \/ WTaken(w) \/ WSet(w)

\* Every thread runs when it can (weak fairness of each thread's steps);
\* the clients and the signal are not obliged to do anything.
Fairness ==
    /\ WF_vars(MSelect \/ MAccept \/ MScan \/ MDrain \/ MCleanup \/ MJoin)
    /\ \A w \in Worker : WF_vars(WTop(w) \/ WPop(w) \/ WFind(w) \/ WCheck(w)
                                 \/ WTaken(w) \/ WSet(w))

Spec == Init /\ [][Next]_vars /\ Fairness

-----------------------------------------------------------------------------
(* Properties.                                                             *)

Listed == {clients[i] : i \in 1..Len(clients)}

\* No Client on the list has been freed: remove_client unlinks the client
\* (whether it is at the head or further down) before it frees it, and the
\* cleanup empties the list as it frees.
NoFreedListed ==
    Listed \cap freed = {}

\* While the select loop runs, current_clients counts the clients on the
\* list: accept adds one and remove_client takes one off, both under
\* clients_mtx, and a rejected connection changes neither.
CountMatchesList ==
    mpc \in {"select", "accept", "scan", "drain"} => current = Len(clients)

\* After SIGINT every worker leaves its loop: q_close wakes those blocked in
\* q_pop, which then drain the queue and get NULL, and the others see
\* shutdown_flag at the top of the loop.
WorkersStop ==
    shut ~> \A w \in Worker : wpc[w] = "exit"

\* The server leaves its select loop (and shuts down) only on SIGINT: a
\* client's "/quit" ends that client's session, not the server's.
ServerStopsOnlyOnSigint ==
    mpc \in {"cleanup", "join", "exit"} => shut

\* A worker never uses a freed Client: between the search that finds the
\* sender and the end of process_message, the Client it uses is live.
NoUseAfterFree ==
    \A w \in Worker : wpc[w] \in {"check", "taken", "set"} => sender[w] \notin freed

\* After SIGINT the server process exits (main joins every worker).
ShutdownCompletes ==
    shut ~> mpc = "exit"

=============================================================================
