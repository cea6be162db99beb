----------------------------- MODULE MC_FibServer -----------------------------
EXTENDS FibServer

\* atoi of a client's line: garbage or "0" gives 0, "-1" gives -1, and
\* N below, at and above the thread count, with remainders 0 to 3.
MCInputN == {-1, 0, 1, 3, 4, 5, 6, 9}

=============================================================================
