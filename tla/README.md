# TLA+ models of CSCI-4220 Network Programming

This directory holds TLA+ models of the programs in `src/`, the TLC configurations
that check them, and `PROJECT.json`, which lists the components, runs, mutants, the map
from each definition to the source lines it models, the findings and the hazards.

## 1. Inventory

The repository has five programs. `spec.md` describes the router (hw3), which is the
only one with a distributed protocol. The others are socket servers, and several of them
run concurrently.

### 1.1 Distance-vector router — `src/hw3/starter/starter/router.c` (core)

One process per router. It has a single thread, which runs the `select()` loop of
`main()`. Routers exchange datagrams over UDP. `common.h`, which defines
`rt_find_or_add`, `rt_lookup`, `log_table`, `get_data_port` and the message structs,
is not in the repository. Its behaviour is modelled from `spec.md` and marked
`spec_modelled`.

| component | state | operations |
|---|---|---|
| RoutingTable | `R.routes[]`: dest_net, mask, next_hop (0.0.0.0 = connected / unset), cost (uint16, 65535 = INF), last_update, iface | `rt_find_or_add`, `rt_lookup` (LPM), entries never removed |
| NeighborTable | `R.neighbors[]`: ip, ctrl_port, link cost, last_heard, alive | set by `parse_conf`, `alive` changed by the timeout scan and by `dv_update` |
| DVEngine | – | `send_dv` (split horizon + poison reverse), `broadcast_dv` (to **alive** neighbours only), `dv_update` (Bellman-Ford with 16-bit sum) |
| LivenessMonitor | – | timeout scan in `main()`: `now - last_heard > DEAD_INTERVAL_SEC` → dead, poison routes through it |
| Forwarder | – | `forward_data`: LPM, connected delivery, self delivery, TTL drop, next-hop-down, forward |
| EventLoop | `next_broadcast`, `running` | per iteration: broadcast if due, **then** timeout scan, then one control datagram, then one data datagram; SIGINT ends the loop |

**How the parts interact.** All state is shared inside one thread. Between routers the
only link is control datagrams, which can be lost, reordered or delayed, and data
datagrams.

**What is hard.**
- Convergence has to survive lost and reordered advertisements.
- 16-bit cost arithmetic.
- Timeouts measured in wall-clock seconds.
- The order of broadcast and timeout scan inside one iteration.
- A neighbour's liveness depends on what the other side sends.

**What makes it correct.**
- Costs are never below the true path cost.
- Connected routes stay stable.
- Routes through a dead neighbour are poisoned.
- Advertisements follow split horizon.
- A dead neighbour recovers once it is heard again.
- Packets are forwarded only to live next hops and never forwarded with TTL 0.
- Every packet is eventually delivered or dropped.
- LPM picks the longest prefix.

### 1.2 Chatroom server — `src/hw2/chatroom_server.c`

The main thread runs a `select()` loop that accepts connections and reads client lines.
It also drains `bcast_queue`. A pool of `num_workers` threads pops `job_queue` and runs
`process_message`. A SIGINT handler closes the queues.

Shared state:
- the `clients` list with `current_clients`, under `clients_mtx`;
- two `Queue`s (a linked list, a mutex, a condition variable and a `closed` flag);
- `shutdown_flag`.

Operations: `q_push`, `q_pop`, `q_try_pop`, `q_close`, `handle_new_connection`,
`handle_client_message`, `remove_client`, `broadcast_message`, `is_username_taken`,
`process_message` (username set-up, `/who`, `/me`, `/quit`, chat line).

**What is hard.**
- `process_message` finds the sender under the lock, unlocks, and then reads and
  writes `sender`. Meanwhile the main thread may `free` it in `remove_client`.
- The username is checked (`is_username_taken`) and then set, in two separate steps.
- Clients are identified by fd, and fds are reused.
- `/quit` closes the fd but leaves the client in the list.
- Workers reorder a client's lines.
- `handle_signal` locks a mutex inside a signal handler.
- `inbuf` is scanned with `strchr` past `inbuf_len`.

**What makes it correct.**
- Usernames are unique.
- No job touches a removed client.
- Each client's broadcasts keep the order it sent them in.
- The queues are FIFO and lose nothing.
- Shutdown terminates.

`test_client.c` is a scripted client and is not modelled.

### 1.3 TFTP server — `src/hw1/tftp_server.c`

The parent process receives requests and forks one child per request. Each child gets
the next port from `next_port`, which wraps around inside the configured range.

- The RRQ child sends DATA blocks stop-and-wait. On each timeout it retransmits, up to
  10 times.
- The WRQ child ACKs blocks and re-ACKs duplicates. After 10 timeouts it deletes the
  partial file.

**What is hard.**
- Lost and duplicated DATA and ACK packets.
- Retransmission racing a late ACK.
- The final zero-length block.
- `block_number` is a 16-bit counter.
- The port range wraps while children still hold ports.

**What makes it correct.**
- The receiver writes each block once and in order.
- The transfer ends with both sides agreeing.
- A file whose size is a multiple of 512 still ends with an empty block.
- There are no runaway duplicates (Sorcerer's Apprentice).

### 1.4 Message board server — `src/lab3/server.c`

A `select()` loop over a fixed array `client_sockets[5]`, where an empty slot is 0. It
keeps `n_clients` and a circular `board[10]` with `board_msg_count`. The handlers are
`POST` (store and broadcast) and `GET`.

**What is hard.**
- An empty slot holds 0, which is `STDIN_FILENO`. The per-client loop then reads stdin
  as a client and "closes" it, which decrements `n_clients`.
- The circular index overflows.

`client.c` is the terminal client. It runs a `select()` loop over its terminal and its
socket: it prints what the server writes, relays each typed line, shuts down its
writing half on Ctrl-D, and exits when the server closes the connection.

**What is hard across the two.** The server writes a POST's broadcast to every other
served socket and a GET's reply to its sender without checking the peer. A write to a
process that has exited brings a reset and then SIGPIPE, which kills the server. A
client's exit depends on the server reading its EOF.

### 1.5 Fibonacci server — `src/lab4/lab4.c`

Each client gets a detached handler thread. The handler splits 1..N into `num_threads`
ranges, starts one worker per range, joins them and sums the results.

**What is hard.**
- The range split must cover 1..N exactly once, including when N < threads.
- `long` overflow in `fib` and in the sums.
- The fixed `result[256]` buffer.

`client_test.c` is not modelled.

## 2. Plan

Modules are listed in order of importance. Items marked ✔ exist.

1. ✔ **DVRouter**: the control plane of a network of routers. It covers the event loop,
   `send_dv`/`broadcast_dv`, `dv_update` and the timeout scan, over a lossy, reordering
   UDP network. `MC_DVRouter` instantiates it on a line A–B–C.
2. ✔ **DVForwarder**: the data plane. It EXTENDS DVRouter, adds addresses, prefixes,
   `rt_lookup` as an LPM operator (checked against a brute-force reference) and data
   packets with TTL moving between routers. Properties:
   - packets are never forwarded with TTL 0 or to a dead hop;
   - every packet is eventually delivered or dropped;
   - "DELIVER connected" happens only at a router that really has the network
     connected. `rt_find_or_add` leaves new entries with next hop 0.0.0.0, the same
     value as the connected sentinel.
3. ✔ **ChatQueue**: `Queue` with mutex, condition variable and close. It is shown to
   refine an abstract FIFO, `FifoQueue` (`INSTANCE ... WITH`), and is checked with two
   blocking consumers and one `q_try_pop` consumer.
4. ✔ **ChatServer**: the main thread, the workers, the client list and the clients'
   connections, using the queues as FIFOs. It covers use-after-free of `sender`, fd
   reuse after `/quit` and removal, and shutdown. Still open: username uniqueness (the
   race is reachable, but no run is spent on it) and per-client order.
5. ✔ **TftpTransfer**: the forked child (`handle_request`, `handle_rrq`, `handle_wrq`)
   against an RFC 1350 client over a lossy, reordering network, with the 10-retry
   timeouts. `handle_wrq`'s file refines the abstract `TftpFile`. Violation run: the
   multiple-of-512 ending. The duplicate-driven retransmission and the block-number wrap
   were checked in scratch models and are recorded as hazards.
6. ✔ **TftpListener**: `main` and `dg_tftp_listen` around the modelled transfer:
   forks for other clients, `next_port` and its wrap, and `Bind` failing on a port
   that another child holds.
7. ✔ **BoardServer**: slots, `n_clients` and the stdin-as-slot-0 bug. It also covers the
   circular board, the server's writes, and `client.c` as the client processes.
8. ✔ **FibServer**: the accept loop and one connection of the Fibonacci server: the range split, every
   worker iteration with exact `long` arithmetic, the joins, and the buffer lengths.

An abstract specification worth stating for the router is the neighbour-liveness state
machine (alive/dead per link, with what each transition requires) and DVRouter as a
refinement of it.

## 3. What is modelled so far

### DVRouter (`DVRouter.tla`, `MC_DVRouter.tla`)

**State.**

| variable | code |
|---|---|
| `routes[r]` | `R.routes` of router r, a function from the networks it holds to `[cost, nh]`. Its domain grows as `rt_find_or_add` creates entries. |
| `alive[<<r,n>>]` | `neighbor_t.alive` |
| `silence[<<r,n>>]` | `now - last_heard`, saturated at `DeadInterval+1`. The code only compares it with `DEAD_INTERVAL_SEC`. |
| `bcastIn[r]` | `next_broadcast - now`, saturated at 0 |
| `ctrl` | the set of DV datagrams in the network or in a socket buffer. A set, so datagrams are reordered. |
| `running[r]` | the `running` flag that `on_sigint` clears |

**Actions.**

| action | code |
|---|---|
| `Iterate(r)` | one pass of the `while(running)` loop with no control datagram: broadcast if due, from the current table, then the timeout scan with poisoning |
| `IterateRecv(r, m)` | the same pass, then `recvfrom` of datagram `m` and `dv_update` (or a drop, if the sender is not a configured neighbour) |
| `Tick` | `time(NULL)` advances by one second |
| `LoseMsg` | UDP loses a datagram |
| `Shutdown(r)` | Ctrl+C: `on_sigint` clears `running`. A `select` it interrupts returns EINTR and the loop `continue`s to its test. The loop ends, both sockets are closed with whatever their buffers hold, and `main` returns. Only the routers in the constant `Stoppable` may be stopped. |

`Step` is every step but `Shutdown`. A datagram sent to a router that has shut down is
dropped on arrival.

A send to a link that already holds `MaxInFlight` datagrams is dropped, as a full
socket buffer drops it.

The cost arithmetic is `(link + adv) % 2^16`, clamped at 65535, as in the `uint16_t
new_cost` of `dv_update`.

**Bounds.**
- Three routers on a line A–B–C with links of cost 1. Three routers are the fewest
  that let a route be learned from one neighbour and poisoned by another.
- The routing-table invariants are checked in `fwd_safety` (see DVForwarder), on two
  routers A–B whose static routes to NetX point at each other. An earlier run on the
  A–B–C line with NetA only at A (83k states) and one with a network at every router
  (785k states, 2m50s without coverage) found no violation either; they are not kept
  as runs.
- The violation runs use a network at every router. TLC finds their counterexamples
  within seconds.
- `DeadInterval = 1`, `UpdateInterval = 1`. Timeouts and broadcasts happen within a few
  ticks. Only the order of "broadcast due" and "neighbour silent too long" matters to
  the code, not the 15 s value.
- `MaxInFlight = 1` per link. Reordering happens across links. Loss is explicit.
- `Stoppable`: empty in `dv_cost_wrap`, which does not need a shutdown; A and B in
  `dv_mutual_dead`; only B in `fwd_safety`, so that A is left running to detect it.

**Fairness** (in `Spec`, used by the liveness run).
- `Tick` is weakly fair: time passes.
- Each router's `Iterate` is weakly fair: `select` returns at least every second.
- Receiving on each link is strongly fair: a datagram that keeps being offered is
  eventually read. Loss is not fair: any datagram may be lost.
- `Shutdown` has no fairness: the operator is never obliged to press Ctrl+C. Liveness
  properties are stated for the routers still running (`DeadNeighborRecovers` holds
  trivially once either end has stopped).

**Runs.**

| run | expect | what it shows |
|---|---|---|
| (`fwd_safety`) | pass | The routing-table invariants are checked in the DVForwarder run below (the type invariant `TypeOK` as part of `FwdTypeOK`):<br>• `DeadNeighborRoutesPoisoned`: no finite-cost route goes through a neighbour declared dead;<br>• `ConnectedRouteKept`: no advertisement, poisoned or not, displaces a connected route. |
| `dv_cost_wrap` | violation | `CostNeverBelowShortestPath`. `dv_update` adds link cost and advertised cost into a `uint16_t`, so a poisoned 65535 plus link cost 1 wraps to 0. In the A–B–C line, C poisons its route to NetA back to B, and B adopts NetA via C at cost 0. With the spec's `min(INF, link+adv)` the invariant holds (checked separately: 677k states). |
| `dv_mutual_dead` | violation | `DeadNeighborRecovers`. `broadcast_dv` sends only to neighbours believed alive. Once A and B have timed each other out (after loss, or a pause longer than the dead interval), neither ever sends to the other again, and the link never recovers, although both routers keep running. Sending to every neighbour, as spec 4.3 says, makes the property hold (checked separately). |

Two further disagreements met while modelling are recorded as hazards rather than runs:
- `main()` broadcasts *before* the timeout scan, while spec 5 orders the scan first. In
  the iteration that declares a neighbour dead, routes through it go out once more at
  their old finite cost; the next broadcast corrects them.
- A link of cost 0 (`parse_conf` accepts any integer) lets a poisoned advertisement for
  a network the router never learned create an entry (INF, 0.0.0.0), which
  `forward_data` reads as "deliver connected". With cost-1 links only the 16-bit wrap
  of `dv_update` hides this; under the spec's `min(INF, ...)` rule it happens on any
  link.

### DVForwarder (`DVForwarder.tla`, `MC_DVForwarder.tla`)

**Structure.** `DVForwarder` EXTENDS `DVRouter` and adds `pkts`, the data datagrams in
flight or waiting in a data socket. Each packet has:
- `from`: the router that sent it, or `Outside` for a host;
- `at`: the router whose socket holds it;
- `dst`;
- `ttl`.

An address is a model value. A network is the set of addresses it covers plus its
prefix length, and `rt_lookup` reads nothing else of a (network, mask) pair.

**Operators and actions.**
- `RtLookup` is the longest-prefix match of spec 4.1. It is modelled from the spec
  because `common.h` is missing.
- `ForwardData(r, t, al, p)` is `forward_data`. Its early returns come in the code's
  order: no match, connected (next hop 0), self, `ttl <= 1`, and next hop unknown or
  dead. Otherwise it sends `ttl - 1` to the next hop.
- `IterateData(r, p)` is a loop iteration that reads a data datagram. It runs
  `LoopHead` (the broadcast and timeout scan) and then `forward_data` on the table and
  alive flags that `LoopHead` leaves. When select reports both sockets, the loop
  handles control first, then data. In the model that is `IterateRecv` followed by
  `IterateData`, and the second `LoopHead` changes nothing within the same second.
- `HostSend` is an outside host sending to a router's data port, with any ttl in
  `0..MaxTTL`.
- `LosePkt` is UDP loss.

**Configuration.** Routers A–B each have a /24 holding their own address and a host.
NetX is a /8 containing B's /24. Each conf file has a static route to NetX via the
other router, so packets for HostX loop between them. A packet for HostB is a
longest-prefix choice between NetB and NetX. `MaxTTL = 3` lets a packet make two hops
and then be dropped. `MaxPackets = 1` keeps one packet in flight.

**Shutdown.** `Shutdown` also discards the stopped router's data packets. A packet
`forward_data` sends to a stopped router is dropped on arrival.

**Fairness.** Each router's `IterateData` is weakly fair, because `select` returns as
soon as the data socket is readable. `Tick` and each router's `Iterate` are weakly fair,
as in DVRouter, because the clock runs and `select`'s one-second timeout keeps the loop
going.

| run | expect | what it shows |
|---|---|---|
| `fwd_safety` | pass | Checks these while tables change, neighbours time out and B may shut down (28k states, about 75 s), besides the DVRouter invariants above:<br>• `ForwardedTTLPositive`: nothing is forwarded with ttl 0;<br>• `PacketEventuallyConsumed`: a packet caught in the static routing loop still leaves the network;<br>• `StoppedRouterDetected` (DVRouter): once B has shut down, A eventually marks it dead and holds no finite-cost route through it. Nothing tells A. Only its dead timer and the scan that `select`'s timeout keeps running find out, and the advertisements B sent before stopping, still in flight, can revive B for a while. A scan done only in iterations that read a datagram (mutant `Iterate_NoScan`) never detects B. |

### BoardServer (`BoardServer.tla`, `MC_BoardServer.tla`)

**Control.** One iteration of the `while (1)` loop of `src/lab3/server.c` is a sequence
of server steps, tracked by `pc` and `cur` (the loop's `i`):
1. `Select` builds readfds from stdin, the listening socket and every slot holding a
   positive descriptor. It blocks until one is readable. If one of them is closed it
   fails with EBADF and leaves the sets as built.
2. `StdinStep` is the stdin branch. EOF exits.
3. `ListenStep` is accept, the `n_clients >= MAX_CLIENTS` refusal and the
   first-slot-holding-0 search.
4. `ClientStep(i)` runs once per slot: `FD_ISSET`, read, disconnect, or a POST to
   `board[count % BOARD_SIZE]`.

A read or accept with nothing to return blocks, so its step is simply not enabled.

**Data.**
- Descriptors are numbers. `fdTab` says what each one is: the terminal, the listening
  socket, a client, or closed. `accept` returns the lowest closed one.
- The terminal (`tty`) and each client's TCP stream (`stream`) are sequences of lines
  ending in EOF. A line is `GET` or `POST m`, and one read returns one line.
- What the server writes to a client (`WriteTo`, for the POST broadcast and the GET
  reply) is abstracted to `unread[c]`: bytes are waiting. One `read` takes all of them.

**Clients.** Each client is the program of `src/lab3/client.c`, with `exited[c]` as its
process state.
- `Connect` is `socket` and `connect`. It returns once the server's kernel has queued
  the connection, before `accept`. With the server gone it fails and the client exits.
- One iteration of the client's loop is one step:
  - `ClientSock(c)`: `select` returned the socket only. `handle_server_message`
    prints the waiting bytes, or reads 0 and exits.
  - `ClientInput(c, l)`: the user typed `l`, or Ctrl-D. The socket branch comes first,
    then `handle_user_input` writes the line, or calls `shutdown(SHUT_WR)`, which the
    server reads as EOF.
- The client's socket is readable when bytes are waiting or the server has closed its
  end (`Hup`). That is the case after a refusal, after the slot is closed, or once the
  server process has exited.
- The model keeps the client's iteration atomic. This is safe because the client's state
  is its own, and a step of another process between its `select` and its reads only
  makes more descriptors readable.

**Fairness.** The server is weakly fair: it is one thread, and it waits only in
`select`, `read` and `accept`. Each client's `ClientSock` is weakly fair for the same
reason: when its socket is readable, `select` returns. Users need not type, and a
client need not be started. Even under this fairness the stdin freeze below keeps a
client from ever being released, so the run states no liveness property.

**Bounds.**
- Three clients and two slots, so the third is refused while both are served.
- Descriptors 0..6: the terminal, the listener and three for connections. The third
  is the one `accept` takes and then closes for a refused client.
- The users of `c1` and `c2` (`Talker`) type one line, GET or a POST, and then Ctrl-D.
  The user of `c3` only types Ctrl-D.
- The server's terminal (`StdinLines = 1`) may type one line and then Ctrl-D. One line
  is what the stdin miscount below needs: it sends the client loop reading stdin for an
  empty slot, so descriptor 0 is closed and `accept` can return it.
  - This still reaches the refused third connection and the broadcast to a client that
    has half-closed.
  - With a third typing user the state space grows to 1.1M states and the liveness check
    takes 13 minutes.
- The run checks safety properties only: about 1.1M states, under a minute.

| run | expect | what it shows |
|---|---|---|
| `board_safety` | pass | `NoWriteToExitedClient`: the server never writes to a client process that has exited. This holds because `client.c` half-closes and exits only on the server's close. It holds also along the stdin miscount below, where a client can sit on descriptor 0. It fails for a client that closes its socket on Ctrl-D (the mutant `HandleUserInput_Close`). |

**Stdin miscount (no run kept).** An empty slot holds 0, the number of stdin, and stdin
is always in readfds. Someone types a line; the stdin branch reads it; the client loop
reaches an empty slot and calls `read(0)` again; Ctrl-D returns 0, and the loop
"disconnects" stdin: `close(0)`, `n_clients--` down to −1. From there the server
accepts more than `MAX_CLIENTS` clients, and the next `accept` returns descriptor 0,
which the loop takes for an empty slot. `board_safety` explores this trace, and
an invariant that `n_clients` counts the served clients, or that no accepted connection
is left unread, fails along it. All the runs the project keeps are spent on other
findings, so this one is recorded as the hazards at `server.c:130`, `:113` and `:108`.

The same `read(0)` for an empty slot also blocks. After a single typed line the server
waits in that read while a connected client's line waits, until someone types again.
A client whose user typed Ctrl-D then waits for the server's close, which does not
come, so no liveness property is claimed for the clients. This is recorded as the
hazards at `server.c:132` and `client.c:81`.

### FibServer (`FibServer.tla`, `MC_FibServer.tla`)

**Scope.** One connection of `lab4.c`: `client_handler` and its `worker_thread`s.
Connections share nothing except `client_counter`, which `main` increments under
`counter_mutex`. Each handler has its own stack arrays and its own malloc'ed
`client_data`. One handler is therefore modelled in detail. `main`'s accept loop is the action
`Accept`: it takes the next number from `client_counter` and starts a handler. The
first accept starts the modelled handler. Later accepts only advance the counter,
because their handlers touch none of the modelled state. `MaxConn` bounds the
accepts: 2 in `fib_partition`, and 1 in `fib_result_overflow`, where a second
connection adds nothing to the overflow.

**Numbers.** A C `long` is a sequence of decimal digits, least significant first.
`Plus` is schoolbook addition, so fib(92) and the
sums are exact although TLC's own integers have 32 bits. `Fib` is `fib`'s loop
(`Body` is one iteration, `c = a + b; a = b; b = c`). `Loop` runs the iterations
lo..hi, doing long stretches as two halves one after the other, which keeps TLC's
evaluation shallow. What `snprintf("%ld")` writes is the digit sequence, so its length
is `Len`.

**State and actions.**

| variable | code |
|---|---|
| `counter` | `client_counter` |
| `num` | `client_num` of the modelled connection |
| `hpc` | where `client_handler` is: accepted yet, reading N, workers running / joins, responded, closed |
| `n` | `N` |
| `data[w]` | `thread_data[w-1]`: `start`, `end`, the loop index `i`, `sum`, and `len` = `strlen(result)` |
| `joined` | the next thread `pthread_join` waits for |
| `total` | `total_sum` |

| action | code |
|---|---|
| `Accept` | `accept`, `client_counter++` under the mutex, and `pthread_create` of a detached handler |
| `ReadN(v)` | `read`, `atoi`, the `N <= 0` close, the range computation (`Ranges`) and the `pthread_create` loop |
| `WorkerStep(w)` | one iteration of the worker loop: `sum += fib(i)`, the `" "` and the digits `strcat`'ed onto `result` |
| `Join` | `pthread_join` of the next thread once its loop is done, `total_sum += sum` |
| `Respond` | the summary, `write` and `close` |

Workers interleave arbitrarily. No fairness is assumed, because all properties are
safety properties.

| run | expect | what it shows |
|---|---|---|
| `fib_partition` | pass | With the default 4 threads and N ∈ {−1, 0, 1, 3, 4, 5, 6, 9}, which covers empty ranges and every remainder, `PartitionExact` holds: the ranges cover 1..N exactly once. `TotalIsFibSum` holds too: the `Sum` sent equals Σ fib(k) computed by a naive recursive reference, whatever order the workers run in. |
| `fib_result_overflow` | violation | `ResultFits`. With 4 threads and N = 72, the last range 55..72 prints 259 characters into `result[256]`. 55..72 is the last thread's range, so the write runs past the end of the `thread_data` array on the handler's stack (the range of an earlier thread would run into the next element, while its worker may be running). N = 72 is the smallest N that overflows at 4 threads, and all values still fit a `long`. |

`response[4096]` also overflows when `num_threads` (argv, checked only for > 0) is
large: at N = 1, 231 threads fill it. Line formatting is not modelled, so this is a
hazard, not a run.

The sums also overflow a signed `long`, which is undefined behaviour: with 4 threads and
N = 91, worker 4's sum over 70..91 is fib(93) − fib(71) > LONG_MAX. No run checks
this. It needs N ≥ 91, which is far beyond N = 72, where `result` already overflows
(`fib_result_overflow`). It is listed as a hazard.

### ChatQueue (`FifoQueue.tla`, `ChatQueue.tla`, `MC_ChatQueue.tla`)

**Scope.** The `Queue` of `chatroom_server.c` (`q_init`, `q_push`, `q_pop`,
`q_try_pop`, `q_close`) at the level of its pointers. Every operation runs under
`q->mtx`, so each one is a single atomic step. The exception is the
`pthread_cond_wait` in `q_pop`: it releases the mutex, and a thread waiting there can
be woken by a signal, by the broadcast, or spuriously.

| variable | code |
|---|---|
| `head`, `tail` | `q->head`, `q->tail` |
| `next[n]`, `val[n]` | the `next` field and the payload of Job `n`; the payload is the number of the push, so that order is visible |
| `inUse` | Jobs malloc'ed and not yet taken off the list |
| `closed` | `q->closed` |
| `waiting`, `woken` | threads in the condition variable's wait set, and threads woken but not yet holding the mutex again |
| `out[t]` | what thread `t`'s last pop returned |
| `pushed` | number of `q_push` calls |

| action | code |
|---|---|
| `QPush(n)` | `q_push`: `j->next = NULL`, link at the tail (`Link`), `pthread_cond_signal` (`Signal`) |
| `QPop(t)` | `q_pop` with the mutex taken: wait, return NULL (closed and empty), or unlink the head (`Unlink`, which resets `tail` when the list empties) |
| `QTryPop(t)` | `q_try_pop` |
| `QClose` | `q_close`: `closed = 1` and `pthread_cond_broadcast` |
| `SpuriousWakeup(t)` | `pthread_cond_wait` returning without a signal |

`FifoQueue` is what the queue promises: a closable FIFO. `ChatQueue` maps to it
(`Fifo == INSTANCE FifoQueue WITH items <- Contents, ...`). `Contents` is the sequence
of payloads read from `head` along the `next` pointers. Abstract `nPushed` is mapped
from `pushed`, so that a push the list loses cannot pass as a stutter.

**Fairness.** A woken thread is runnable, so its `QPop` is weakly fair. Pushing,
popping and closing are up to the callers and are not fair.

**Bounds.** Two `q_pop` threads (the workers), one `q_try_pop` thread (main draining
`bcast_queue`), three Job addresses (so nodes are reused after being freed), and four
pushes. This gives 148k states in about 25 s.

| run | expect | what it shows |
|---|---|---|
| `chat_queue` | pass | The list is well formed (`ListWellFormed`). The queue refines the FIFO (`ImplementsFifo`). A waiter is never left asleep while jobs are queued, because every push signals (`NoLostWakeup`). After `q_close` every thread in `q_pop`, blocked or already woken, eventually returns, and none blocks again (`CloseReleasesAll`), which `main`'s `pthread_join`s rely on; a `q_close` that signals instead of broadcasting leaves a second waiter asleep. |

### ChatServer (`ChatServer.tla`, `MC_ChatServer.tla`)

**Scope.**
- The main thread: the `select()` loop, `handle_new_connection`,
  `handle_client_message`, `remove_client`, the `bcast_queue` drain, the cleanup and
  the joins.
- The `num_workers` workers: `worker_thread` and `process_message`.
- `handle_signal`.
- The clients, seen from the other end of their TCP connections.

The queues are FIFOs of records, and each `q_` operation is one step. `ChatQueue`
justifies this: the linked list implements exactly that FIFO. Each `clients_mtx`
critical section is one step. The steps a thread takes between two critical sections
are where the other threads interleave.

**Data.**
- A connection is a model value, and its `Client` struct is named by it; `freed` holds
  the connections whose struct has been freed. A freed struct keeps its last contents,
  which is what a read after `free` typically returns.
- Descriptors are numbers, and `accept` returns the lowest free one. `fdConn` says which
  connection a descriptor refers to. `close` frees the number, whoever now owns it.
- A line is a word (a valid username, and chat text), `/quit`, or EOF. One `recv`
  returns one line.
- The text sent to clients, `/who` and `/me` are left out. `/who` and `/me` change no
  server state beyond what a chat line does.

| variable | code |
|---|---|
| `cst`, `inbox`, `nsent`, `sent` | each connection's state (idle, in the backlog, open, rejected), the lines it has sent and the server has not read, and the counters that bound what clients send |
| `fdConn`, `srvOpen` | the descriptor table; whether `server_fd` is open |
| `clients`, `cfd`, `cname`, `freed`, `current` | the list (head first), `client->fd`, `client->username`, the freed Clients, `current_clients` |
| `jobq`, `bq`, `jclosed`, `bclosed` | `job_queue` (jobs `[fd, line]`), `bcast_queue`, and their `closed` flags |
| `shut` | `shutdown_flag` |
| `mpc`, `ready`, `scan` | where main is; `read_fds` after `select`; the clients the list walk still has to hand to `handle_client_message` |
| `wpc`, `job`, `sender` | where each worker is; its job; the `Client *` `process_message` found |

| action | code |
|---|---|
| `MSelect` | `while (!shutdown_flag)`, the fd set built under the lock, and `select`. EBADF on a closed descriptor breaks the loop |
| `SigintInSelect` | SIGINT while main waits in `select`: the EINTR return is not an error, and `read_fds` is left as built, so every listed client is handled |
| `MAccept` | `handle_new_connection`: the rejection when `current_clients >= max_clients`, or a new Client at the head |
| `MScan` | one `handle_client_message` of the list walk: `recv` error or EOF runs `RemoveClient`; a line is pushed as a job. `recv` blocks while there is nothing to read |
| `MDrain` | one `q_try_pop` + `broadcast_message` of the drain loop |
| `MCleanup`, `MJoin` | closing and freeing every listed client, closing the queues, and `pthread_join` |
| `WTop`, `WPop` | the worker loop's flag test, and `q_pop` (blocking, NULL once closed and empty) |
| `WFind` | the search for `client->fd == job->sender_fd` under the lock |
| `WCheck` | `process_message` after the unlock: a username line goes to validation; for a named sender, `/quit` does `close(sender->fd)`, and any other line is pushed as a chat broadcast |
| `WTaken`, `WSet` | `is_username_taken`, then (in a later step) `sender->username = name` and the "joined" broadcast |
| `Sigint` | `handle_signal` run between two steps of any thread |

**Fairness.** Main and each worker are weakly fair as threads. They block only in
`recv`, `q_pop` and `pthread_join`, and each of those is a disabled step. The clients
and the signal are not fair: a client may stay silent for ever.

**Bounds.**
- Two connections, two workers, one word, at most two lines per client and two in
  total, and hang-ups.
- Two lines are enough to name a client and then `/quit` or chat. They are also enough
  for two clients to race for a name, or to send a line and disconnect.
- Once the server has left its loop, the clients stop acting: nothing the server does
  after that point depends on them.
- `chat_server` has 438k states and takes about 2 minutes with coverage.
- `chat_quit_shutdown` uses `max_clients = 1`, so it also reaches the rejection path.

| run | expect | what it shows |
|---|---|---|
| `chat_server` | pass | No Client on the list is ever freed (`NoFreedListed`); `remove_client` unlinks non-head clients too. `current_clients` equals the list length while the loop runs (`CountMatchesList`). After SIGINT every worker leaves its loop (`WorkersStop`). |
| `chat_quit_shutdown` | violation | `ServerStopsOnlyOnSigint`. A named client sends `/quit`. The worker closes its descriptor but leaves it on the list. The next `select` gets EBADF, and the loop breaks: one client's `/quit` shuts down the server for everyone. |
| `chat_use_after_free` | violation | `NoUseAfterFree`. A client sends its name and hangs up. A worker finds the sender and releases `clients_mtx`. Main reads the EOF and `remove_client` frees the Client. The worker then reads `sender->username`, which is freed memory. |

**SIGINT in `select` (no run kept).** Ctrl-C arrives while main is in `select`, so
`select` returns EINTR with every listed descriptor still set. Main `recv`s on an idle
client; the `recv` is restarted after the handler (SA_RESTART) and blocks. The workers
exit, but main never reaches `pthread_join`. TLC finds `ShutdownCompletes` violated
along this trace with the constants of `MC_ChatServer.cfg` and `PROPERTY
ShutdownCompletes`. It is recorded as the hazard at `chatroom_server.c:246`.

**Unique usernames.** This race is reachable but no run checks it. Two clients (or two
lines of one client) pass `is_username_taken` in two workers before either sets the
name. The result is two clients with one name, or one client announced twice.

### TftpTransfer (`TftpFile.tla`, `TftpTransfer.tla`, `MC_TftpTransfer.tla`)

**Structure.** One forked child of `dg_tftp_listen` and its client, with the listener
around them. The state has five parts:
- the request: `req` (RRQ or WRQ) and the file, `nfull` blocks of 512 bytes and then a
  shorter block if `rem`;
- the child's locals: `spc` (where it is), `bn` = `block_number`, `rc` =
  `retransmit_count`, `br` = `bytes_read`, `rd` = the number of `fread`s that returned
  data (`ftell == 0` iff `rd = 0`), `final` for the closing empty-DATA loop of
  `handle_rrq` (lines 362-405), and `outcome`;
- for a WRQ, the server's disk: `exists` and `disk`, the blocks `fwrite` wrote;
- the client and the network: `toSrv` and `toCli` are sets of datagrams, each a record
  of opcode, block number, the index of the block it carries and its size class
  (`full`, `short`, `zero`);
- the listener: `myPort` (this child's `port_to_use`), `nextPort` (`next_port`),
  `held` (the ports bound by other children still running) and `nreq`. Ports are
  counted from `start_port`.

Block numbers are taken modulo `BlockMod` (65536 in the code). Data are abstracted to
the index of the block in the file, so a duplicate or out-of-order write is visible.

**Actions.**
- `HandleRequest` (lines 97-137): a port past `end_port` is refused. `Bind` fails
  exactly when another child holds the port (`Bound`), and the wrapper's `err_sys` ends
  the child silently. Otherwise the opcode chooses the handler.
- The listener (lines 41-95):
  - `ListenInit` is its state when it forked this child, after any number of earlier
    requests.
  - `ListenFork` receives another client's request and forks a child with `next_port`.
    That child binds the port, or fails if it is in use. The parent then moves
    `next_port` on and wraps it at `end_port` (`NextPort`, lines 86-92).
  - `ChildExit` is another child returning and freeing its port.
  - The other children's transfers are abstracted to the port each one holds.
- `handle_rrq`: `RRead` is the `fread` at line 304, with the line-362 test
  (`AfterLoop`) when it returns 0. `RSend` sends the current DATA packet. `RRecv` takes a
  datagram: the ACK of `block_number` (`IsAckOf`, line 328) ends the block; anything else
  goes back to the top of the loop and sends the DATA packet again. `RTimeout` is the
  alarm: after `MaxRetry` timeouts the child returns.
- `handle_wrq`: `WOpen` is the existence check, `fopen` (which may fail) and ACK 0.
  `WRecv` takes a datagram: a non-DATA packet or a future block gets ERROR and ends the
  transfer; the expected block is written and ACKed, and a short one ends it; an older
  block is ACKed again. `WTimeout` re-sends ACK `block_number - 1` and, after
  `MaxRetry` timeouts, removes the file.
- The client is the environment, following RFC 1350. It ACKs (RRQ) or sends the next
  block (WRQ), re-ACKs duplicates, ignores stray ACKs, re-sends its last packet on a
  timeout, gives up after `CliRetry` timeouts, stops on ERROR, and may abort with ERROR
  at any time. `Lose` drops any datagram.

**Bounds.** `MaxFull = 3`: files of 1 to 4 packets, including the empty file, a file of
one short block and files of 512 and 1536 bytes. `BlockMod = 4`, so block 4 travels as
number 0 and the 16-bit wrap is exercised, while no two blocks in flight share a number.
`MaxRetry = 3` instead of 10: only "fewer than the limit" and "at the limit" differ.
`CliRetry = 2`.
- `NPorts = 1` (`end_port = start_port + 1`): every fork wraps `next_port`. This is the
  configuration in which a child meets a port that another child still holds.
- `MaxReq = 1`: one other request during the transfer, before or after this child binds.
  With two ports and two requests the run grows to 1.5M states and 2 minutes, and shows
  nothing new.
- The run has 267k states and takes about 25 s.

**Fairness.** `WF_vars(Child)`: a child that can act does. In `recv` the alarm is always
armed, so a recv with nothing to read ends with `EINTR`. The client and the network get
no fairness: the client may stop, and any datagram may be lost.

**Runs.**

| run | expect | what it shows |
|---|---|---|
| `tftp_transfer` | pass | Under loss, reordering, retransmission and timeouts that race late answers:<br>• `ServerNeverAhead`: `handle_rrq` reads block k+1 only once the client holds block k;<br>• `ImplementsTftpFile`: the file `handle_wrq` writes refines `TftpFile`. It is created only under a new name, grows by the client's next block each time, and is only ever removed as a whole;<br>• `WrqDoneMeansFileWhole`: a WRQ client holding the ACK of its last block leaves the whole file on the server. The server acknowledges a block only after writing it, acknowledges a duplicate under its own number, and removes the file only on a timeout, which cannot follow the last write. This is stated for files whose block numbers do not wrap. With `MaxFull = 3` a file of 4 blocks wraps, and then the delayed ACK 0 of the WRQ reads as the ACK of block 4: the client stops with the server one block short. RFC 1350's 16-bit block numbers cannot tell the two apart;<br>• `ServerTerminates`: every child returns. |
| `tftp_rrq_512` | violation | `RrqCompleteMeansClientDone`. A 512-byte file: block 1 is sent and ACKed, the next `fread` returns 0 and leaves the loop with `bytes_read == 0`, and the line-362 test is false because `ftell` is 512. The child prints "File transfer completed" without sending the empty DATA block, so the client never learns the file has ended. The branch for `bytes_read == DATA_SIZE` can never run. |

Two more behaviours were confirmed in scratch models and are recorded as hazards rather
than runs:
- **Resend on a wrong packet** (line 334). `handle_rrq` re-sends DATA for every datagram
  that is not the expected ACK. That includes a duplicate ACK or the client's ERROR,
  though the comment says such packets are ignored. An action property "leaving `recv`
  to send again needs a timeout" is violated after one duplicate ACK.
- **Block-number wrap** (line 253). After `block_number` wraps to 0, the client's
  retransmission of block 65535 (its ACK delayed) has `recv_block > block_number`, and
  the child aborts with "Unexpected block number". The invariant "a WRQ ends in error
  only if the client aborted" is violated in 10 steps with `BlockMod = 4`.

## 4. Not modelled, and why

- Configuration parsing, socket set-up, log formatting (`log_table`, `printf`) and
  `get_data_port`. These are I/O and text. Their results enter only as the initial state
  and the constants.
- The scripted clients `lab4/client_test.c` and `hw2/test_client.c`. These are front
  ends with no state of interest. (`lab3/client.c` is modelled in BoardServer.)
- A board client killed by a signal. It would break `NoWriteToExitedClient` (see
  the hazard at `server.c:162`). The model's clients end only as `client.c` ends them.
- In the chat server:
  - The bytes of `inbuf` and the line splitting. One `recv` is one line.
  - `broadcast_message` and `send_to_client`. They only write to sockets.
  - The signal handler interrupting a thread that holds a queue mutex. A `q_` operation
    is atomic in ChatServer.
- In the TFTP server:
  - The transfers of the listener's other children, which hold their ports and nothing
    else in the model.
  - The exchange of the second child that a client's repeated RRQ/WRQ to the listening
    port starts. `ListenFork` takes that child's port, but the modelled client keeps
    talking to the first child.
  - The request datagram's bytes, including the one-byte overrun `mesg[n] = 0` when
    `Recvfrom` fills `MAXLINE` bytes (hazard at line 80).
  - Mode strings (only octet is accepted), error codes and messages, an RRQ for a
    missing file, the `default:` branch for an unknown opcode and `recv` errors other
    than `EINTR` (`err_sys`). These are single error replies with no later state.
  - A partial file left by an error blocking a later WRQ for the same name. This needs
    a second request.
- `last_update` and `iface` of route entries. Nothing reads them.
