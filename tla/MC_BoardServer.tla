--------------------------- MODULE MC_BoardServer ---------------------------
(* Model-checking instance of BoardServer: three clients against a server  *)
(* that serves two (so the third is refused while both are connected), a   *)
(* board of two lines, descriptors 0..6 (stdin/stdout/stderr, the listening *)
(* socket and three for connections).  The users of two clients type one   *)
(* line (GET or a POST) before Ctrl-D; the third only connects and types   *)
(* Ctrl-D.  The server's terminal may type one line and then Ctrl-D: the   *)
(* line is what sends the client loop reading stdin for an empty slot, so  *)
(* descriptor 0 can be closed and reused for a client.                     *)
EXTENDS BoardServer

CONSTANTS c1, c2, c3, m1

MCClient == {c1, c2, c3}
MCMsg == {m1}
MCTalker == {c1, c2}

=============================================================================
