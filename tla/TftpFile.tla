------------------------------ MODULE TftpFile ------------------------------
(***************************************************************************)
(* What handle_wrq of src/hw1/tftp_server.c promises about the file it     *)
(* writes: it creates the file only when no file of that name exists,      *)
(* then appends the client's blocks one at a time and in order, never      *)
(* past the end of the client's file, and may delete it again (the         *)
(* clean-up of a timed-out transfer).  A block is named by its index in    *)
(* the client's file, so disk = <<1, 2, ..., k>> is the first k blocks;   *)
(* a file that was there before the transfer holds <<0>>.                  *)
(***************************************************************************)
EXTENDS Naturals, Sequences

VARIABLES
    exists,  \* a file of the requested name is on the server's disk
    disk,    \* the blocks written to it by this transfer
    total    \* the number of blocks of the client's file

Init ==
    /\ exists \in BOOLEAN
    /\ disk = IF exists THEN <<0>> ELSE <<>>
    /\ total \in Nat

\* disk holds the first blocks of the client's file and nothing else.
Own(d) == \A i \in 1..Len(d) : d[i] = i

\* fopen(filename, "wb") of a name that does not exist: an empty file.
Create ==
    /\ ~exists
    /\ exists' = TRUE
    /\ disk' = <<>>
    /\ UNCHANGED total

\* The next block of the client's file is appended.
Write ==
    /\ exists /\ Own(disk)
    /\ Len(disk) < total
    /\ disk' = Append(disk, Len(disk) + 1)
    /\ UNCHANGED <<exists, total>>

\* remove(filename).
Remove ==
    /\ exists
    /\ exists' = FALSE
    /\ disk' = <<>>
    /\ UNCHANGED total

Next == Create \/ Write \/ Remove

Spec == Init /\ [][Next]_<<exists, disk, total>>

=============================================================================
