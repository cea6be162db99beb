----------------------------- MODULE MC_ChatQueue -----------------------------
EXTENDS ChatQueue

CONSTANTS w1, w2, m, n1, n2, n3

\* Two workers blocking in q_pop, the main thread polling with q_try_pop.
MCPoppers == {w1, w2}
MCTryPoppers == {m}

\* Three Job addresses: enough for a push to reuse a freed one while
\* another job is queued.
MCNode == {n1, n2, n3}

=============================================================================
