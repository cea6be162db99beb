---------------------------- MODULE TftpTransfer ----------------------------
(***************************************************************************)
(* One transfer of src/hw1/tftp_server.c: the child that handle_request    *)
(* forks for a request runs handle_rrq (it sends a file) or handle_wrq (it *)
(* receives one) on its own UDP socket, against a client that follows      *)
(* RFC 1350.  Datagrams in each direction are a set: UDP may reorder them  *)
(* and may lose any of them (Lose); duplicates arise from retransmission.  *)
(*                                                                         *)
(* Data are abstracted to block sizes: a file is nfull blocks of 512       *)
(* bytes followed, if rem, by one shorter block; "zero" is a read or a     *)
(* DATA packet of 0 bytes.  A DATA packet carries the index of the block   *)
(* in the file it was read from, so order and duplication can be seen.     *)
(* Block numbers travel as uint16_t, i.e. modulo BlockMod.                 *)
(*                                                                         *)
(* alarm(1) and sig_alrm make a blocked recv return EINTR with             *)
(* timeout_occured set; the model lets the timeout fire whenever the child *)
(* is in recv, also when an answer is on its way.  The client is the       *)
(* environment: it is not code of this repository.                        *)
(*                                                                         *)
(* The listener (main and dg_tftp_listen) forked this child with port      *)
(* start_port + myPort; it goes on receiving other clients' requests and   *)
(* forking children, which bind the ports it hands out in turn.  Ports are *)
(* numbered from start_port: port k is start_port + k.                     *)
(***************************************************************************)
EXTENDS Naturals, Sequences

CONSTANTS
    MaxFull,   \* most full blocks in a file
    BlockMod,  \* 65536 in the code: block_number is a uint16_t
    MaxRetry,  \* the 10 of "while (retransmit_count < 10)"
    CliRetry,  \* timeouts the client sits out for one block before giving up
    NPorts,    \* end_port - start_port
    MaxReq     \* other clients' requests the listener receives

ASSUME MaxFull \in Nat /\ BlockMod \in Nat \ {0} /\ MaxRetry \in Nat \ {0}
       /\ CliRetry \in Nat /\ NPorts \in Nat \ {0} /\ MaxReq \in Nat

VARIABLES
    req,      \* "RRQ" or "WRQ": the opcode handle_request switched on
    nfull,    \* the file: nfull full blocks ...
    rem,      \* ... and then a short block if rem
    spc,      \* where the child is: "bind", "open", "read", "send", "recv",
              \* "done"
    bn,       \* block_number
    rc,       \* retransmit_count
    br,       \* bytes_read of handle_rrq's last fread
    rd,       \* blocks fread so far; rd = 0 iff ftell(file) = 0
    final,    \* handle_rrq is in its closing empty-DATA loop (lines 362-405)
    outcome,  \* how the handler returned: "none" yet, "complete", "gaveup", "error"
    exists,   \* handle_wrq: filename exists on the server's disk
    disk,     \* its content: the blocks fwrite put into it, <<0>> for a file
              \* that was there before
    cpc,      \* client: "run", "done" or "abort"
    cblk,     \* WRQ client: the block it last sent (0: the WRQ itself)
    recvd,    \* RRQ client: the blocks it accepted, in order
    ctries,   \* client: timeouts for the current block
    toSrv,    \* datagrams on their way to the child's socket
    toCli,    \* datagrams on their way to the client
    myPort,   \* port_to_use of this child
    nextPort, \* the listener's next_port
    held,     \* ports bound by the other children still running
    nreq      \* other requests received so far

srvVars == <<spc, bn, rc, br, rd, final, outcome, exists, disk>>
cliVars == <<cpc, cblk, recvd, ctries>>
lstVars == <<myPort, nextPort, held, nreq>>
vars == <<req, nfull, rem, srvVars, cliVars, toSrv, toCli, lstVars>>

Size == {"full", "short", "zero"}

\* A datagram.  ACK and ERROR carry no data; data = 0 and sz = "zero" there.
Pkt(op, b, d, s) == [op |-> op, blk |-> b, data |-> d, sz |-> s]
Ack(b) == Pkt("ACK", b, 0, "zero")
Err == Pkt("ERROR", 0, 0, "zero")

\* The size of block i of the file (what the i-th fread of 512 returns).
BlockSize(i) ==
    IF i <= nfull THEN "full"
    ELSE IF i = nfull + 1 /\ rem THEN "short"
    ELSE "zero"

\* RFC 1350 ends a transfer with the first DATA packet shorter than 512:
\* the short block, or an empty one when the size is a multiple of 512.
Last == nfull + 1

\* The DATA packet for block i of the file, as the WRQ client sends it.
DataOf(i) == Pkt("DATA", i % BlockMod, i, BlockSize(i))

\* block_number - 1 and block_number++ on a uint16_t.
Dec(b) == (b + BlockMod - 1) % BlockMod

\* Mutant: the block counter kept in an int, never truncated.
Inc_NoWrap(b) == b + 1

Inc(b) == (b + 1) % BlockMod

TypeOK ==
    /\ req \in {"RRQ", "WRQ"}
    /\ spc \in {"bind", "open", "read", "send", "recv", "done"}
    /\ bn \in 0..(BlockMod - 1)
    /\ rc \in 0..MaxRetry
    /\ br \in Size
    /\ rd \in 0..(Last + 1)
    /\ outcome \in {"none", "complete", "gaveup", "error"}
    /\ disk \in Seq(0..Last)
    /\ cpc \in {"run", "done", "abort"}
    /\ cblk \in 0..Last
    /\ ctries \in 0..CliRetry
    /\ toSrv \cup toCli \subseteq
         [op : {"DATA", "ACK", "ERROR"}, blk : 0..(BlockMod - 1),
          data : 0..Last, sz : Size]

Send(p) == toCli' = toCli \cup {p}

\* Port p is bound by a running child: another one, or this one between
\* its Bind and the Close at line 138.
Bound(p) == p \in held \/ (p = myPort /\ spc \notin {"bind", "done"})

\* handle_request (lines 97-137) in the forked child: a port past end_port
\* is refused (line 98); Bind of a port another child still holds fails,
\* and the Bind wrapper's err_sys exits the child without a word to the
\* client; otherwise the socket is connected to the client and the opcode
\* selects the handler.
HandleRequest ==
    /\ spc = "bind"
    /\ IF myPort > NPorts \/ Bound(myPort)
       THEN spc' = "done" /\ outcome' = "error"
       ELSE spc' = (IF req = "RRQ" THEN "read" ELSE "open") /\ UNCHANGED outcome
    /\ UNCHANGED <<req, nfull, rem, bn, rc, br, rd, final, exists, disk,
                   cliVars, toSrv, toCli>>

-----------------------------------------------------------------------------
(* handle_rrq (lines 271-410), after its fopen has succeeded.              *)

\* Line 362: the test after the fread loop, reached with bytes_read b and
\* block_number n.  It sends an empty DATA packet when the file is empty
\* or the loop ended on a read of exactly 512 bytes; else it returns.
AfterLoop(b, n) ==
    IF (b = "zero" /\ rd = 0) \/ b = "full"
    THEN /\ spc' = "send"
         /\ final' = TRUE
         /\ rc' = 0
         /\ bn' = IF b = "full" THEN Inc(n) ELSE n
         /\ UNCHANGED outcome
    ELSE /\ spc' = "done"
         /\ outcome' = "complete"
         /\ bn' = n
         /\ UNCHANGED <<final, rc>>

\* Line 304: fread of the next 512 bytes.  A non-empty read starts a block
\* with retransmit_count = 0; a read of 0 bytes ends the loop.
RRead ==
    /\ req = "RRQ" /\ spc = "read"
    /\ br' = BlockSize(rd + 1)
    /\ \/ /\ br' # "zero"
          /\ rd' = rd + 1
          /\ rc' = 0
          /\ spc' = "send"
          /\ UNCHANGED <<bn, final, outcome>>
       \/ /\ br' = "zero"
          /\ AfterLoop("zero", bn)
          /\ UNCHANGED rd
    /\ UNCHANGED <<req, nfull, rem, exists, disk, cliVars, toSrv, toCli>>

\* Lines 369-378: the closing DATA packet, 0 bytes under block_number.
FinalPkt == Pkt("DATA", bn, rd + 1, "zero")

\* Lines 313-315 and 376-378: send the current DATA packet (bytes_read
\* bytes, or 0 bytes in the closing loop) and arm the alarm.
RSend ==
    /\ req = "RRQ" /\ spc = "send"
    /\ Send(IF final THEN FinalPkt ELSE Pkt("DATA", bn, rd, br))
    /\ spc' = "recv"
    /\ UNCHANGED <<req, nfull, rem, bn, rc, br, rd, final, outcome, exists,
                   disk, cliVars, toSrv>>

\* Mutant: any ACK is taken for the ACK of the current block.
IsAckOf_OpOnly(p, n) == p.op = "ACK"

\* Lines 328 and 388: ack_opcode == TFTP_ACK && ack_block == block_number.
IsAckOf(p, n) == p.op = "ACK" /\ p.blk = n

\* Lines 317-335 and 380-391: recv returns a datagram.  The ACK of
\* block_number ends the block: block_number++ and the next fread, or the
\* line-362 test after a short block, or the return after the closing
\* packet.  Anything else goes back to the top of the loop, which sends
\* the DATA packet again.
RRecv ==
    /\ req = "RRQ" /\ spc = "recv"
    /\ \E p \in toSrv :
         /\ toSrv' = toSrv \ {p}
         /\ \/ /\ IsAckOf(p, bn) /\ final
               /\ spc' = "done"
               /\ outcome' = "complete"
               /\ UNCHANGED <<bn, rc, final>>
            \/ /\ IsAckOf(p, bn) /\ ~final /\ br = "full"
               /\ spc' = "read"
               /\ bn' = Inc(bn)
               /\ UNCHANGED <<rc, final, outcome>>
            \/ /\ IsAckOf(p, bn) /\ ~final /\ br # "full"
               /\ AfterLoop(br, Inc(bn))
            \/ /\ ~IsAckOf(p, bn)
               /\ spc' = "send"
               /\ UNCHANGED <<bn, rc, final, outcome>>
    /\ UNCHANGED <<req, nfull, rem, br, rd, exists, disk, cliVars, toCli>>

\* Mutant: retransmit_count is not incremented on a timeout.
RTimeout_NoCount ==
    /\ req = "RRQ" /\ spc = "recv"
    /\ rc' = rc
    /\ spc' = "send"
    /\ UNCHANGED <<req, nfull, rem, bn, br, rd, final, outcome, exists, disk,
                   cliVars, toSrv, toCli>>

\* Lines 336-352 and 392-404: the alarm fires.  After the tenth timeout
\* the child gives up (in the closing loop it prints "timed out" and then
\* returns all the same); before, it sends the packet again.
RTimeout ==
    /\ req = "RRQ" /\ spc = "recv"
    /\ rc' = rc + 1
    /\ IF rc + 1 < MaxRetry
       THEN spc' = "send" /\ UNCHANGED outcome
       ELSE spc' = "done" /\ outcome' = "gaveup"
    /\ UNCHANGED <<req, nfull, rem, bn, br, rd, final, exists, disk, cliVars,
                   toSrv, toCli>>

-----------------------------------------------------------------------------
(* handle_wrq (lines 141-269).                                             *)

\* Mutant: the access(filename, F_OK) test is left out.
WOpen_NoAccessCheck ==
    /\ req = "WRQ" /\ spc = "open"
    /\ \/ /\ Send(Err)
          /\ spc' = "done" /\ outcome' = "error"
          /\ UNCHANGED <<bn, exists, disk>>
       \/ /\ exists' = TRUE /\ disk' = <<>>
          /\ Send(Ack(0))
          /\ bn' = 1
          /\ spc' = "recv"
          /\ UNCHANGED outcome
    /\ UNCHANGED <<req, nfull, rem, rc, br, rd, final, cliVars, toSrv>>

\* Lines 156-179: an existing name is refused with FILE_EXISTS, and fopen
\* "wb" may fail (ACCESS_VIOLATION); otherwise the file is created, ACK 0
\* is sent and block_number becomes 1.
WOpen ==
    /\ req = "WRQ" /\ spc = "open"
    /\ \/ /\ Send(Err)
          /\ spc' = "done" /\ outcome' = "error"
          /\ UNCHANGED <<bn, exists, disk>>
       \/ /\ ~exists
          /\ exists' = TRUE /\ disk' = <<>>
          /\ Send(Ack(0))
          /\ bn' = 1
          /\ spc' = "recv"
          /\ UNCHANGED outcome
    /\ UNCHANGED <<req, nfull, rem, rc, br, rd, final, cliVars, toSrv>>

\* Mutant: an older block is answered with the ACK of the block expected.
WRecv_AckCurrent ==
    /\ req = "WRQ" /\ spc = "recv"
    /\ \E p \in toSrv :
         /\ toSrv' = toSrv \ {p}
         /\ rc' = 0
         /\ \/ /\ p.op # "DATA" \/ p.blk > bn
               /\ Send(Err)
               /\ spc' = "done" /\ outcome' = "error"
               /\ UNCHANGED <<bn, disk>>
            \/ /\ p.op = "DATA" /\ p.blk = bn
               /\ disk' = Append(disk, p.data)
               /\ Send(Ack(bn))
               /\ IF p.sz # "full"
                  THEN spc' = "done" /\ outcome' = "complete" /\ bn' = bn
                  ELSE bn' = Inc(bn) /\ UNCHANGED <<spc, outcome>>
            \/ /\ p.op = "DATA" /\ p.blk < bn
               /\ Send(Ack(bn))
               /\ UNCHANGED <<spc, outcome, bn, disk>>
    /\ UNCHANGED <<req, nfull, rem, br, rd, final, exists, cliVars>>

\* Lines 195-265: recv returns a datagram (retransmit_count starts again
\* at 0 for the next one).  A non-DATA packet or a block from the future
\* is answered with ERROR and ends the transfer, leaving the file as it
\* is; the expected block is written and acknowledged, and a short one
\* ends the transfer; an older block is acknowledged again.
WRecv ==
    /\ req = "WRQ" /\ spc = "recv"
    /\ \E p \in toSrv :
         /\ toSrv' = toSrv \ {p}
         /\ rc' = 0
         /\ \/ /\ p.op # "DATA" \/ p.blk > bn
               /\ Send(Err)
               /\ spc' = "done" /\ outcome' = "error"
               /\ UNCHANGED <<bn, disk>>
            \/ /\ p.op = "DATA" /\ p.blk = bn
               /\ disk' = Append(disk, p.data)
               /\ Send(Ack(bn))
               /\ IF p.sz # "full"
                  THEN spc' = "done" /\ outcome' = "complete" /\ bn' = bn
                  ELSE bn' = Inc(bn) /\ UNCHANGED <<spc, outcome>>
            \/ /\ p.op = "DATA" /\ p.blk < bn
               /\ Send(Ack(p.blk))
               /\ UNCHANGED <<spc, outcome, bn, disk>>
    /\ UNCHANGED <<req, nfull, rem, br, rd, final, exists, cliVars>>

\* Lines 201-223: the alarm fires; ACK block_number - 1 is sent again.
\* The tenth timeout closes and removes the partial file.
WTimeout ==
    /\ req = "WRQ" /\ spc = "recv"
    /\ Send(Ack(Dec(bn)))
    /\ rc' = rc + 1
    /\ IF rc + 1 < MaxRetry
       THEN UNCHANGED <<spc, outcome, exists, disk>>
       ELSE /\ spc' = "done" /\ outcome' = "gaveup"
            /\ exists' = FALSE /\ disk' = <<>>
    /\ UNCHANGED <<req, nfull, rem, bn, br, rd, final, cliVars, toSrv>>

-----------------------------------------------------------------------------
(* The client (RFC 1350) and the network: the environment.                 *)

ToSrv(p) == toSrv' = toSrv \cup {p}

\* The RRQ client takes a DATA packet: the next block is kept and
\* acknowledged, a short one ends the transfer; a duplicate is
\* acknowledged again.
CRecvData ==
    /\ req = "RRQ" /\ cpc = "run"
    /\ \E p \in toCli :
         /\ p.op = "DATA"
         /\ toCli' = toCli \ {p}
         /\ ToSrv(Ack(p.blk))
         /\ \/ /\ p.blk = (Len(recvd) + 1) % BlockMod
               /\ recvd' = Append(recvd, p.data)
               /\ ctries' = 0
               /\ cpc' = IF p.sz = "full" THEN "run" ELSE "done"
            \/ /\ p.blk # (Len(recvd) + 1) % BlockMod
               /\ UNCHANGED <<recvd, ctries, cpc>>
    /\ UNCHANGED <<req, nfull, rem, srvVars, cblk>>

\* The WRQ client takes an ACK: the ACK of the block it sent releases the
\* next block, or ends the transfer after the last; others are ignored.
CRecvAck ==
    /\ req = "WRQ" /\ cpc = "run"
    /\ \E p \in toCli :
         /\ p.op = "ACK"
         /\ toCli' = toCli \ {p}
         /\ \/ /\ p.blk = cblk % BlockMod /\ cblk = Last
               /\ cpc' = "done"
               /\ UNCHANGED <<cblk, ctries, toSrv>>
            \/ /\ p.blk = cblk % BlockMod /\ cblk < Last
               /\ cblk' = cblk + 1
               /\ ctries' = 0
               /\ ToSrv(DataOf(cblk + 1))
               /\ UNCHANGED cpc
            \/ /\ p.blk # cblk % BlockMod
               /\ UNCHANGED <<cpc, cblk, ctries, toSrv>>
    /\ UNCHANGED <<req, nfull, rem, srvVars, recvd>>

\* An ERROR packet ends the transfer for the client.
CRecvErr ==
    /\ cpc = "run"
    /\ \E p \in toCli :
         /\ p.op = "ERROR"
         /\ toCli' = toCli \ {p}
         /\ cpc' = "abort"
    /\ UNCHANGED <<req, nfull, rem, srvVars, cblk, recvd, ctries, toSrv>>

\* The client times out and sends its last packet to the child again (a
\* repeated RRQ or WRQ goes to the listening port and starts another child,
\* which ListenFork stands for), or gives up after CliRetry timeouts.
CTimeout ==
    /\ cpc = "run"
    /\ \/ /\ ctries < CliRetry
          /\ ctries' = ctries + 1
          /\ \/ req = "RRQ" /\ recvd # <<>> /\ ToSrv(Ack(Len(recvd) % BlockMod))
             \/ req = "WRQ" /\ cblk > 0 /\ ToSrv(DataOf(cblk))
             \/ /\ \/ req = "RRQ" /\ recvd = <<>>
                   \/ req = "WRQ" /\ cblk = 0
                /\ UNCHANGED toSrv
          /\ UNCHANGED cpc
       \/ /\ ctries = CliRetry
          /\ cpc' = "abort"
          /\ UNCHANGED <<ctries, toSrv>>
    /\ UNCHANGED <<req, nfull, rem, srvVars, cblk, recvd, toCli>>

\* The user interrupts the client, which sends ERROR and stops.
CAbort ==
    /\ cpc = "run"
    /\ ToSrv(Err)
    /\ cpc' = "abort"
    /\ UNCHANGED <<req, nfull, rem, srvVars, cblk, recvd, ctries, toCli>>

\* A datagram is lost.
Lose ==
    \/ \E p \in toSrv : toSrv' = toSrv \ {p} /\ UNCHANGED toCli
    \/ \E p \in toCli : toCli' = toCli \ {p} /\ UNCHANGED toSrv

-----------------------------------------------------------------------------
(* dg_tftp_listen (lines 66-95) and the other children it forks.           *)

\* next_port++ and the wrap of lines 87-92.
NextPort(p) == IF p + 1 > NPorts THEN 1 ELSE p + 1

\* Lines 75-93: Recvfrom returns another client's request and Fork starts
\* a child with next_port.  In the child, handle_request refuses a port
\* past end_port and Bind fails on a port in use; otherwise the child
\* holds the port for its transfer.  The parent moves next_port on.
ListenFork ==
    /\ nreq < MaxReq
    /\ nreq' = nreq + 1
    /\ held' = IF nextPort > NPorts \/ Bound(nextPort) THEN held ELSE held \cup {nextPort}
    /\ nextPort' = NextPort(nextPort)
    /\ UNCHANGED myPort

\* Another child's handler returns: Close(data_sockfd) and exit(0)
\* (lines 84 and 138) free its port.
ChildExit ==
    /\ \E p \in held : held' = held \ {p}
    /\ UNCHANGED <<myPort, nextPort, nreq>>

Listener == ListenFork \/ ChildExit

\* main binds start_port and enters dg_tftp_listen with next_port =
\* start_port + 1; this child got the port next_port had when its request
\* came, after any number of earlier requests, whose children may still
\* hold any of the ports.
ListenInit ==
    /\ myPort \in 1..NPorts
    /\ nextPort = NextPort(myPort)
    /\ held \in SUBSET (1..NPorts)
    /\ nreq = 0

-----------------------------------------------------------------------------

\* The request and the file: an RRQ for an existing file of nfull full
\* blocks and a short one if rem, or a WRQ of such a file under a name
\* that may already exist on the server.  The WRQ client has sent the WRQ.
Init ==
    /\ req \in {"RRQ", "WRQ"}
    /\ nfull \in 0..MaxFull
    /\ rem \in BOOLEAN
    /\ spc = "bind"
    /\ bn = IF req = "RRQ" THEN 1 ELSE 0
    /\ rc = 0
    /\ br = "zero"
    /\ rd = 0
    /\ final = FALSE
    /\ outcome = "none"
    /\ exists \in IF req = "RRQ" THEN {TRUE} ELSE BOOLEAN
    /\ disk = IF exists THEN <<0>> ELSE <<>>
    /\ cpc = "run"
    /\ cblk = 0
    /\ recvd = <<>>
    /\ ctries = 0
    /\ toSrv = {}
    /\ toCli = {}
    /\ ListenInit

Server == HandleRequest \/ RRead \/ RSend \/ RRecv \/ RTimeout \/ WOpen \/ WRecv \/ WTimeout

Client == CRecvData \/ CRecvAck \/ CRecvErr \/ CTimeout \/ CAbort

\* A step of this child, which leaves the listener as it is.
Child == Server /\ UNCHANGED lstVars

Next == \/ Child
        \/ (Client \/ (Lose /\ UNCHANGED <<req, nfull, rem, srvVars, cliVars>>))
           /\ UNCHANGED lstVars
        \/ Listener /\ UNCHANGED <<req, nfull, rem, srvVars, cliVars, toSrv, toCli>>

\* The child runs until it returns: recv either yields a datagram or is
\* interrupted by the alarm.  The client and the network get no fairness.
Spec == Init /\ [][Next]_vars /\ WF_vars(Child)

-----------------------------------------------------------------------------
(* Properties.                                                             *)

\* handle_rrq moves on to the next fread only after the ACK of the block
\* it has sent: whatever the network loses, duplicates or delays, every
\* block before the one the child is sending is with the client.
ServerNeverAhead ==
    req = "RRQ" => rd <= Len(recvd) + 1

\* The child always returns: each recv ends with a datagram or with the
\* alarm, and retransmit_count bounds the timeouts of every block.
ServerTerminates == <>(spc = "done")

\* A WRQ client that has the ACK of its last block, and so considers the
\* upload done, leaves the whole file on the server's disk: handle_wrq
\* acknowledges a block only once it is written, answers a duplicate with
\* that duplicate's own number, and removes the file only on a timeout,
\* which cannot come after the last block is written.  Stated for files
\* whose block numbers do not wrap: after a wrap, a delayed ACK 0 (of the
\* WRQ) reads as the ACK of block BlockMod, which RFC 1350 cannot tell apart.
WrqDoneMeansFileWhole ==
    (req = "WRQ" /\ cpc = "done" /\ Last < BlockMod)
        => exists /\ disk = [i \in 1..Last |-> i]

\* When handle_rrq reports "File transfer completed" after the ACK of its
\* last packet, the client has received the end of the file.
RrqCompleteMeansClientDone ==
    (req = "RRQ" /\ outcome = "complete") => cpc = "done"

=============================================================================
