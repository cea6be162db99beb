--------------------------- MODULE MC_DVForwarder ---------------------------
(* Model-checking instance of DVForwarder: routers A - B (link cost 1),    *)
(* each with a /24 network holding its own address and one host, and a    *)
(* /8 network NetX that contains B's /24.  The conf files give each router *)
(* a static route to NetX via the other, so packets to HostX loop, and a   *)
(* packet for HostB is a longest-prefix-match choice between NetB and NetX.*)
EXTENDS DVForwarder, TLC

CONSTANTS A, B, NetA, NetB, NetX, HostA, HostB, HostX

MCRouter == {A, B}
MCNet == {NetA, NetB, NetX}
MCConnectedNet == (A :> {NetA}) @@ (B :> {NetB})
MCStaticRoute == (A :> (NetX :> B)) @@ (B :> (NetX :> A))
MCLinkCost == (<<A, B>> :> 1) @@ (<<B, A>> :> 1)
MCAddr == {A, B, HostA, HostB, HostX}
MCCovers == (NetA :> {A, HostA}) @@ (NetB :> {B, HostB})
                @@ (NetX :> {B, HostB, HostX})
MCPrefixLen == (NetA :> 24) @@ (NetB :> 24) @@ (NetX :> 8)

\* B may be stopped with Ctrl+C; A keeps running and must find out.
MCStoppable == {B}
=============================================================================
