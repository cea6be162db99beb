------------------------------ MODULE FifoQueue ------------------------------
(***************************************************************************)
(* What the Queue of src/hw2/chatroom_server.c promises its callers: a     *)
(* FIFO of jobs that can be closed.  q_push appends; q_pop returns the     *)
(* oldest job, or NULL once the queue is closed and empty; q_try_pop       *)
(* returns the oldest job or NULL when there is none; q_close marks the    *)
(* queue closed.  out[t] is the result of thread t's last pop.             *)
(***************************************************************************)
EXTENDS Naturals, Sequences

CONSTANTS
    Thread,   \* threads that use the queue
    Payload,  \* the jobs that can be pushed
    Null      \* the NULL a pop returns

VARIABLES
    items,    \* the jobs in the queue, oldest first
    closed,   \* the closed flag
    out,      \* out[t]: what t's last pop returned
    nPushed   \* how many jobs have been pushed

Init ==
    /\ items = <<>>
    /\ closed = FALSE
    /\ out = [t \in Thread |-> Null]
    /\ nPushed = 0

Push(x) ==
    /\ items' = Append(items, x)
    /\ nPushed' = nPushed + 1
    /\ UNCHANGED <<closed, out>>

\* q_pop or q_try_pop handing out the oldest job.
PopJob(t) ==
    /\ items # <<>>
    /\ out' = [out EXCEPT ![t] = Head(items)]
    /\ items' = Tail(items)
    /\ UNCHANGED <<closed, nPushed>>

\* q_pop returning NULL: only once the queue is closed and empty.
PopNull(t) ==
    /\ closed /\ items = <<>>
    /\ out' = [out EXCEPT ![t] = Null]
    /\ UNCHANGED <<items, closed, nPushed>>

\* q_try_pop returning NULL: only when the queue is empty.
TryPopNull(t) ==
    /\ items = <<>>
    /\ out' = [out EXCEPT ![t] = Null]
    /\ UNCHANGED <<items, closed, nPushed>>

Close ==
    /\ closed' = TRUE
    /\ UNCHANGED <<items, out, nPushed>>

Next ==
    \/ \E x \in Payload : Push(x)
    \/ \E t \in Thread : PopJob(t) \/ PopNull(t) \/ TryPopNull(t)
    \/ Close

Spec == Init /\ [][Next]_<<items, closed, out, nPushed>>

=============================================================================
