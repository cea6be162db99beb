----------------------------- MODULE DVForwarder -----------------------------
(***************************************************************************)
(* The data plane of src/hw3/starter/starter/router.c on top of DVRouter:  *)
(* data datagrams read from a router's data socket in main() and handed to *)
(* forward_data, which looks the destination up by longest-prefix match    *)
(* (rt_lookup) in the routing table that the control plane keeps changing. *)
(*                                                                         *)
(* An address is a model value; a network covers a set of addresses and   *)
(* has a prefix length, which is all rt_lookup reads of (dest_net, mask).  *)
(* A router's id is its self_ip, so Router \subseteq Addr.  Source address *)
(* and payload are only printed and are left out.                          *)
(***************************************************************************)
EXTENDS DVRouter

CONSTANTS
    Addr,        \* IPv4 addresses that packets are sent to
    Covers,      \* Covers[x]: the addresses inside network x (dest_net/mask)
    PrefixLen,   \* PrefixLen[x]: the number of one bits of x's mask
    Outside,     \* a host outside the routers that sends data packets
    MaxTTL,      \* largest ttl a host puts in a packet (the field is 8 bits)
    MaxPackets   \* data datagrams in flight at once

ASSUME /\ Router \subseteq Addr /\ Outside \notin Router
       /\ \A x \in Net : Covers[x] \subseteq Addr /\ PrefixLen[x] \in 0..32
       \* prefixes of one length are disjoint, as masked networks are
       /\ \A x, y \in Net : x # y /\ PrefixLen[x] = PrefixLen[y] =>
                              Covers[x] \cap Covers[y] = {}
       /\ MaxTTL \in 0..255 /\ MaxPackets \in Nat \ {0}

VARIABLE
    pkts    \* data datagrams in flight or in a data socket's receive buffer

fvars == <<vars, pkts>>

\* A data_msg_t: who sent it into the data socket it sits in, the router
\* owning that socket, the destination address and the ttl.
Packet == [from : Router \cup {Outside}, at : Router, dst : Addr, ttl : 0..MaxTTL]

-----------------------------------------------------------------------------
\* rt_lookup (common.h, spec 4.1): the entries whose network contains a,
\* those of the longest prefix among them.  Prefixes of one length are
\* disjoint, so the result has at most one element and the spec's
\* tie-breaks (lower cost, then earliest created) never apply.
RtLookup(t, a) ==
    LET M == {x \in DOMAIN t : a \in Covers[x]}
    IN  {x \in M : \A y \in M : PrefixLen[x] >= PrefixLen[y]}

\* The next hop entry rt_lookup returns (only used when it returns one).
BestRoute(t, a) == t[CHOOSE x \in RtLookup(t, a) : TRUE]

\* Mutant: the "ttl <= 1" drop is missing (the uint8_t ttl-- wraps at 0).
ForwardData_NoTTLCheck(r, t, al, p) ==
    LET e == BestRoute(t, p.dst) IN
    IF RtLookup(t, p.dst) = {} \/ e.nh = ZeroAddr \/ p.dst = r
       \/ e.nh \notin Nbrs(r) \/ ~al[<<r, e.nh>>]
    THEN {}
    ELSE {[from |-> r, at |-> e.nh, dst |-> p.dst, ttl |-> (p.ttl - 1) % 256]}

\* Mutant: in_msg->ttl-- is missing.
ForwardData_NoDecrement(r, t, al, p) ==
    LET e == BestRoute(t, p.dst) IN
    IF RtLookup(t, p.dst) = {} \/ e.nh = ZeroAddr \/ p.dst = r
       \/ p.ttl <= 1 \/ e.nh \notin Nbrs(r) \/ ~al[<<r, e.nh>>]
    THEN {}
    ELSE {[from |-> r, at |-> e.nh, dst |-> p.dst, ttl |-> p.ttl]}

\* forward_data of packet p at router r with table t and alive flags al:
\* the datagrams it sends.  In order it returns without sending on NO
\* MATCH, DELIVER connected (next_hop 0), DELIVER self, DROP ttl (ttl <= 1)
\* and NEXT HOP DOWN (next hop not a neighbour, or not alive); otherwise it
\* decrements ttl and sends to the next hop's data port.
ForwardData(r, t, al, p) ==
    LET e == BestRoute(t, p.dst) IN
    IF RtLookup(t, p.dst) = {} \/ e.nh = ZeroAddr \/ p.dst = r
       \/ p.ttl <= 1 \/ e.nh \notin Nbrs(r) \/ ~al[<<r, e.nh>>]
    THEN {}
    ELSE {[from |-> r, at |-> e.nh, dst |-> p.dst, ttl |-> p.ttl - 1]}

-----------------------------------------------------------------------------
FwdInit == Init /\ pkts = {}

\* A host outside the routers sends a data packet to router r's data port.
HostSend(r, a, ttl) ==
    /\ running[r]
    /\ Cardinality(pkts) < MaxPackets
    /\ pkts' = pkts \cup {[from |-> Outside, at |-> r, dst |-> a, ttl |-> ttl]}
    /\ UNCHANGED vars

\* An iteration of r's main loop in which select() reports a data datagram
\* p: the broadcast and timeout scan of LoopHead, then recvfrom and
\* forward_data on the table and alive flags they leave.  (When both
\* sockets are readable the loop first runs dv_update; that iteration is
\* IterateRecv followed by IterateData, whose LoopHead then changes nothing.)
\* A datagram sent to a router that has shut down is dropped on arrival.
IterateData(r, p) ==
    LET h == LoopHead(r) IN
    /\ running[r]
    /\ p \in pkts
    /\ p.at = r
    /\ routes' = [routes EXCEPT ![r] = h.table]
    /\ alive' = h.alive
    /\ bcastIn' = [bcastIn EXCEPT ![r] = h.bcast]
    /\ ctrl' = Enqueue(ctrl, h.out)
    /\ pkts' = (pkts \ {p}) \cup {q \in ForwardData(r, h.table, h.alive, p) : running[q.at]}
    /\ UNCHANGED <<silence, running>>

\* The network loses a data datagram.
LosePkt(p) ==
    /\ pkts' = pkts \ {p}
    /\ UNCHANGED vars

\* Shutdown also closes r's data socket and what it holds.
FwdNext ==
    \/ Step /\ UNCHANGED pkts
    \/ \E r \in Stoppable : Shutdown(r) /\ pkts' = {p \in pkts : p.at # r}
    \/ \E r \in Router, a \in Addr, ttl \in 0..MaxTTL : HostSend(r, a, ttl)
    \/ \E r \in Router, p \in pkts : IterateData(r, p)
    \/ \E p \in pkts : LosePkt(p)

\* select() returns as soon as the data socket is readable, and every
\* iteration reads one datagram from it; as in DVRouter, the clock runs
\* and select()'s one-second timeout keeps every running loop going.
FwdFairness ==
    /\ \A r \in Router : WF_fvars(\E p \in pkts : IterateData(r, p))
    /\ WF_fvars(Tick /\ UNCHANGED pkts)
    /\ \A r \in Router : WF_fvars(Iterate(r) /\ UNCHANGED pkts)

FwdSpec == FwdInit /\ [][FwdNext]_fvars /\ FwdFairness

-----------------------------------------------------------------------------
(* Properties.                                                             *)

\* The type invariant of the routers' state and of the packets in flight.
FwdTypeOK == TypeOK /\ pkts \subseteq Packet

\* Spec 9: a packet with ttl <= 1 is dropped, never forwarded with a ttl
\* of 0: every datagram a router's forward_data has sent carries ttl >= 1.
ForwardedTTLPositive ==
    \A p \in pkts : p.from \in Router => p.ttl >= 1

\* Every data packet eventually leaves the network (delivered, dropped or
\* lost), even when the tables route it in a loop: forward_data's ttl
\* decrement bounds its hops.  Hosts may keep sending, so this is stated
\* for one packet in flight at a time (MaxPackets = 1): the network is
\* then eventually empty again.
PacketEventuallyConsumed ==
    pkts # {} ~> pkts = {}

=============================================================================
