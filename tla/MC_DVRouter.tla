---------------------------- MODULE MC_DVRouter ----------------------------
(* Model-checking instance of DVRouter: three routers on a line A - B - C, *)
(* each with one connected network, all links of cost 1.                   *)
EXTENDS DVRouter, TLC

CONSTANTS A, B, C, NetA, NetB, NetC

MCRouter == {A, B, C}
MCNet == {NetA, NetB, NetC}
MCConnectedNet == (A :> {NetA}) @@ (B :> {NetB}) @@ (C :> {NetC})
MCNoStatic == [r \in MCRouter |-> <<>>]
MCLinkCost == (<<A, B>> :> 1) @@ (<<B, A>> :> 1) @@ (<<B, C>> :> 1) @@ (<<C, B>> :> 1)

\* The same line with only NetA connected, at its end: B learns it over
\* one link and C over two, and both lose it when a link times out.
MCNetA == {NetA}
MCConnectedNetA == (A :> {NetA}) @@ (B :> {}) @@ (C :> {})

\* Two routers A - B, for the liveness run.
MCRouterAB == {A, B}
MCNetAB == {NetA, NetB}
MCLinkCostAB == (<<A, B>> :> 1) @@ (<<B, A>> :> 1)

\* The line with a link of cost 0 between A and B (parse_conf takes any
\* integer cost).
MCLinkCostZero == (<<A, B>> :> 0) @@ (<<B, A>> :> 0) @@ (<<B, C>> :> 1) @@ (<<C, B>> :> 1)
=============================================================================
