------------------------------ MODULE DVRouter ------------------------------
(***************************************************************************)
(* The distance-vector routing core of src/hw3/starter/starter/router.c:   *)
(* a set of routers, each running the select() loop of main() until Ctrl+C *)
(* stops it, exchanging DV advertisements (send_dv / dv_update) over UDP   *)
(* and timing out silent neighbours.  Data forwarding (forward_data) is    *)
(* modelled in DVForwarder.                                                *)
(*                                                                         *)
(* A router's id stands for its self_ip; a network stands for one exact    *)
(* (dest_net, mask) key of the routing table.  Costs keep their 16-bit     *)
(* width: the sum in dv_update is stored in a uint16_t.                    *)
(***************************************************************************)
EXTENDS Integers, FiniteSets

CONSTANTS
    Router,         \* the routers (and their self_ip addresses)
    Net,            \* destination networks (dest_net, mask)
    ConnectedNet,   \* [Router -> SUBSET Net]: the "routes" lines with next hop 0.0.0.0
    StaticRoute,    \* [Router -> (nets -> gateway)]: the "routes" lines with a next hop
    LinkCost,       \* [<<r, n>> -> cost]: the "neighbors" section of r's conf file
    ZeroAddr,       \* 0.0.0.0: next hop of a connected (or not yet set) route
    DeadInterval,   \* DEAD_INTERVAL_SEC, in ticks
    UpdateInterval, \* UPDATE_INTERVAL_SEC, in ticks
    MaxInFlight,    \* datagrams a link buffers; UDP drops any further one
    Stoppable       \* the routers whose operator may press Ctrl+C

INF == 65535        \* INF_COST
CostMod == 2^16     \* width of uint16_t new_cost in dv_update

Link == DOMAIN LinkCost
Nbrs(r) == {n \in Router : <<r, n>> \in Link}

ASSUME /\ ZeroAddr \notin Router
       /\ \A r \in Router : ConnectedNet[r] \subseteq Net
       /\ \A r \in Router : /\ DOMAIN StaticRoute[r] \subseteq Net \ ConnectedNet[r]
                            /\ \A x \in DOMAIN StaticRoute[r] : StaticRoute[r][x] \in Nbrs(r)
       /\ \A l \in Link : l[1] # l[2] /\ LinkCost[l] \in 0..INF
       /\ DeadInterval \in Nat /\ UpdateInterval \in Nat \ {0}
       /\ MaxInFlight \in Nat \ {0}
       /\ Stoppable \subseteq Router

VARIABLES
    routes,    \* routes[r]: r's routing table, a function from the nets it holds to entries
    alive,     \* alive[<<r, n>>]: r's neighbor_t.alive for neighbour n
    silence,   \* silence[<<r, n>>]: now - last_heard, saturated at DeadInterval + 1
    bcastIn,   \* bcastIn[r]: next_broadcast - now, saturated at 0 (0 = due)
    ctrl,      \* DV datagrams in flight or in a control socket's receive buffer
    running    \* running[r]: r's main loop has not seen on_sigint's running = 0

vars == <<routes, alive, silence, bcastIn, ctrl, running>>

Entry(c, h) == [cost |-> c, nh |-> h]

-----------------------------------------------------------------------------
(* Routing table and DV engine, as pure operators on a table t.            *)

\* rt_find_or_add (common.h): an existing entry, or a new one with
\* cost = INF and next_hop unset, i.e. 0.0.0.0 (router.c:307 tests it so).
RtFindOrAdd(t, x) ==
    IF x \in DOMAIN t THEN t[x] ELSE Entry(INF, ZeroAddr)

\* new_cost = sender_cost_to_nb + advertised_cost, stored in a uint16_t,
\* then clamped at INF_COST.
NewCost(link, adv) ==
    LET c == (link + adv) % CostMod
    IN  IF c >= INF THEN INF ELSE c

\* Mutant: a route is adopted on an equal cost too.
Relax_LessEq(e, nb, c) ==
    IF c <= e.cost THEN Entry(c, nb)
    ELSE IF e.nh = nb /\ c # e.cost THEN [e EXCEPT !.cost = c]
    ELSE e

\* The Bellman-Ford rule of dv_update for one entry e and candidate cost c
\* learned from neighbour nb: adopt a cheaper path, or follow the current
\* next hop's new cost, or ignore.
Relax(e, nb, c) ==
    IF c < e.cost THEN Entry(c, nb)
    ELSE IF e.nh = nb /\ c # e.cost THEN [e EXCEPT !.cost = c]
    ELSE e

\* dv_update on table t of router r for advertisement adv from neighbour nb.
\* Entries are independent (one per net), so their order does not matter.
DVUpdate(r, t, nb, adv) ==
    [x \in DOMAIN t \cup DOMAIN adv |->
        IF x \in DOMAIN adv
        THEN Relax(RtFindOrAdd(t, x), nb, NewCost(LinkCost[<<r, nb>>], adv[x]))
        ELSE t[x]]

\* send_dv: every route, at its cost, or at INF_COST to the neighbour that
\* is its next hop (split horizon with poison reverse).
Advert(t, n) == [x \in DOMAIN t |-> IF t[x].nh = n THEN INF ELSE t[x].cost]

\* broadcast_dv: one send_dv to each neighbour r still believes alive.
BroadcastDV(r, t) ==
    { [from |-> r, to |-> n, adv |-> Advert(t, n)] :
        n \in {n \in Nbrs(r) : alive[<<r, n>>]} }

\* The neighbours whose timeout expires in this iteration of main().
TimedOut(r) == {n \in Nbrs(r) : alive[<<r, n>>] /\ silence[<<r, n>>] > DeadInterval}

\* Mutant: the neighbour is marked dead but its routes are left alone.
PoisonVia_Skip(t, D) == t

\* The timeout scan of main(): every route through a dead neighbour gets
\* cost INF_COST.
PoisonVia(t, D) ==
    [x \in DOMAIN t |-> IF t[x].nh \in D THEN [t[x] EXCEPT !.cost = INF] ELSE t[x]]

\* sendto() on a UDP socket: a datagram that finds its link full is lost,
\* and so is one for a router that has closed its control socket.
Enqueue(ch, msgs) ==
    ch \cup {m \in msgs :
               /\ running[m.to]
               /\ Cardinality({o \in ch : o.from = m.from /\ o.to = m.to}) < MaxInFlight}

-----------------------------------------------------------------------------
(* The system.                                                             *)

\* parse_conf: a "routes" line gets cost 0 if its next hop is 0.0.0.0 and
\* cost 1 otherwise; every neighbour is alive and just heard;
\* next_broadcast = now + UPDATE_INTERVAL_SEC.
Init ==
    /\ routes = [r \in Router |->
                   [x \in ConnectedNet[r] \cup DOMAIN StaticRoute[r] |->
                      IF x \in ConnectedNet[r] THEN Entry(0, ZeroAddr)
                      ELSE Entry(1, StaticRoute[r][x])]]
    /\ alive = [l \in Link |-> TRUE]
    /\ silence = [l \in Link |-> 0]
    /\ bcastIn = [r \in Router |-> UpdateInterval]
    /\ ctrl = {}
    /\ running = [r \in Router |-> TRUE]

\* One second of wall-clock time passes (time(NULL) advances).
Tick ==
    /\ silence' = [l \in Link |-> IF silence[l] > DeadInterval THEN silence[l]
                                  ELSE silence[l] + 1]
    /\ bcastIn' = [r \in Router |-> IF bcastIn[r] = 0 THEN 0 ELSE bcastIn[r] - 1]
    /\ UNCHANGED <<routes, alive, ctrl, running>>

\* The part of one iteration of r's main loop before the control socket is
\* read: the periodic broadcast (from the table as it is), then the timeout
\* scan.  Returns the datagrams sent, the new table and the new alive flags.
LoopHead(r) ==
    LET due == bcastIn[r] = 0
        D   == TimedOut(r)
    IN  [out   |-> IF due THEN BroadcastDV(r, routes[r]) ELSE {},
         bcast |-> IF due THEN UpdateInterval ELSE bcastIn[r],
         table |-> PoisonVia(routes[r], D),
         alive |-> [l \in Link |-> IF l[1] = r /\ l[2] \in D THEN FALSE ELSE alive[l]]]

\* Mutant: the timeout scan is done only in an iteration that reads a
\* datagram, not in one where select() times out.
Iterate_NoScan(r) ==
    LET h == LoopHead(r) IN
    /\ running[r]
    /\ bcastIn' = [bcastIn EXCEPT ![r] = h.bcast]
    /\ ctrl' = Enqueue(ctrl, h.out)
    /\ UNCHANGED <<routes, alive, silence, running>>

\* An iteration of r's loop in which select() reports no control datagram
\* (it timed out after one second, or was interrupted: EINTR continues).
Iterate(r) ==
    LET h == LoopHead(r) IN
    /\ running[r]
    /\ routes' = [routes EXCEPT ![r] = h.table]
    /\ alive' = h.alive
    /\ bcastIn' = [bcastIn EXCEPT ![r] = h.bcast]
    /\ ctrl' = Enqueue(ctrl, h.out)
    /\ UNCHANGED <<silence, running>>

\* An iteration of r's loop that also reads DV datagram m: a datagram from a
\* configured neighbour is applied by dv_update (which first marks the
\* neighbour heard and alive); one from anyone else is dropped.
IterateRecv(r, m) ==
    LET h  == LoopHead(r)
        nb == m.from
        known == nb \in Nbrs(r)
    IN
    /\ running[r]
    /\ m \in ctrl
    /\ m.to = r
    /\ routes' = [routes EXCEPT ![r] = IF known THEN DVUpdate(r, h.table, nb, m.adv)
                                                 ELSE h.table]
    /\ alive' = IF known THEN [h.alive EXCEPT ![<<r, nb>>] = TRUE] ELSE h.alive
    /\ silence' = IF known THEN [silence EXCEPT ![<<r, nb>>] = 0] ELSE silence
    /\ bcastIn' = [bcastIn EXCEPT ![r] = h.bcast]
    /\ ctrl' = Enqueue(ctrl \ {m}, h.out)
    /\ UNCHANGED running

\* The network loses a datagram.
LoseMsg(m) ==
    /\ ctrl' = ctrl \ {m}
    /\ UNCHANGED <<routes, alive, silence, bcastIn, running>>

\* Ctrl+C: on_sigint sets running = 0 (a select() it interrupts returns
\* EINTR and the loop "continue"s to its test); the loop ends, both
\* sockets are closed, discarding what their buffers hold, and main
\* returns.  The routers' steps in between change nothing that matters.
Shutdown(r) ==
    /\ running[r]
    /\ running' = [running EXCEPT ![r] = FALSE]
    /\ ctrl' = {m \in ctrl : m.to # r}
    /\ UNCHANGED <<routes, alive, silence, bcastIn>>

\* The steps of the running routers, time and the network.
Step ==
    \/ Tick
    \/ \E r \in Router : Iterate(r)
    \/ \E r \in Router, m \in ctrl : IterateRecv(r, m)
    \/ \E m \in ctrl : LoseMsg(m)

Next == Step \/ \E r \in Stoppable : Shutdown(r)

\* Every router's loop runs (select() times out after one second), time
\* advances, and a datagram that keeps being offered is eventually read.
Fairness ==
    /\ WF_vars(Tick)
    /\ \A r \in Router : WF_vars(Iterate(r))
    /\ \A l \in Link :
         SF_vars(\E m \in ctrl : m.from = l[1] /\ IterateRecv(l[2], m))

Spec == Init /\ [][Next]_vars /\ Fairness

-----------------------------------------------------------------------------
(* Properties.                                                             *)

\* The type invariant of the routing tables, the liveness flags and the
\* datagrams in flight (checked as part of DVForwarder's FwdTypeOK).
TypeOK ==
    /\ \A r \in Router :
         /\ DOMAIN routes[r] \subseteq Net
         /\ \A x \in DOMAIN routes[r] :
              /\ routes[r][x].cost \in 0..INF
              /\ routes[r][x].nh \in Nbrs(r) \cup {ZeroAddr}
    /\ alive \in [Link -> BOOLEAN]
    /\ silence \in [Link -> 0..DeadInterval + 1]
    /\ bcastIn \in [Router -> 0..UpdateInterval]
    /\ running \in [Router -> BOOLEAN]
    /\ \A m \in ctrl : /\ <<m.from, m.to>> \in Link
                       /\ DOMAIN m.adv \subseteq Net
                       /\ \A x \in DOMAIN m.adv : m.adv[x] \in 0..INF

\* Once r has declared neighbour n dead (timeout scan), no route of r goes
\* through n at a finite cost until n is heard from again: the poisoning
\* of the timeout scan and dv_update's "alive = true" together keep
\* forward_data from being offered a live-looking route via a dead hop.
DeadNeighborRoutesPoisoned ==
    \A r \in Router : \A x \in DOMAIN routes[r] :
        LET e == routes[r][x] IN
        (e.nh \in Nbrs(r) /\ ~alive[<<r, e.nh>>]) => e.cost = INF

\* A connected route (cost 0, next hop 0.0.0.0 from the conf file) is never
\* displaced or re-costed by any advertisement, poisoned or not.
ConnectedRouteKept ==
    \A r \in Router : \A x \in ConnectedNet[r] :
        routes[r][x] = Entry(0, ZeroAddr)

\* Cost of the cheapest path of at most k links from r to a router that has
\* x connected (INF_COST when there is none).
RECURSIVE HopDist(_, _, _)
HopDist(r, x, k) ==
    IF k = 0 THEN IF x \in ConnectedNet[r] THEN 0 ELSE INF
    ELSE LET costs == {HopDist(r, x, k - 1)} \cup
                      {LinkCost[<<r, n>>] + HopDist(n, x, k - 1) : n \in Nbrs(r)}
             best  == CHOOSE c \in costs : \A d \in costs : c <= d
         IN  IF best > INF THEN INF ELSE best

\* The true shortest-path cost of the static topology, for every router and net.
ShortestDist == [r \in Router, x \in Net |-> HopDist(r, x, Cardinality(Router))]

\* The Bellman-Ford invariant the spec's rule "candidate = min(INF,
\* linkCost + advertisedCost)" guarantees under any loss or reordering: a
\* route's cost is never below the true cost of reaching its network.
CostNeverBelowShortestPath ==
    \A r \in Router : \A x \in DOMAIN routes[r] :
        routes[r][x].cost >= ShortestDist[r, x]

\* Spec 4.3/4.4: advertisements go to every neighbour once per interval and
\* a dead neighbour becomes alive again on its next advertisement, so with
\* a network that does not lose every datagram a neighbour declared dead is
\* eventually alive again, unless one of the two has shut down.
DeadNeighborRecovers ==
    \A l \in Link : ~alive[l] ~> (alive[l] \/ ~running[l[1]] \/ ~running[l[2]])

\* A router that has shut down sends nothing more, and each running
\* neighbour finds out by the dead timer alone: its silence grows with the
\* clock, the timeout scan of some later iteration (with or without a
\* datagram) marks it dead and poisons every route through it, and only
\* an advertisement of the stopped router, of which finitely many are
\* still in flight, could undo that.
StoppedRouterDetected ==
    \A l \in Link :
        ~running[l[2]] ~>
            \/ ~running[l[1]]
            \/ /\ ~alive[l]
               /\ \A x \in DOMAIN routes[l[1]] :
                     routes[l[1]][x].nh = l[2] => routes[l[1]][x].cost = INF

=============================================================================
