---------------------------- MODULE MC_ChatServer ----------------------------
(* ChatServer with two connections, two workers and one word.           *)
EXTENDS ChatServer

CONSTANTS k1, k2, w1, w2, a

MCConn == {k1, k2}
MCWorker == {w1, w2}
MCWord == {a}

=============================================================================
