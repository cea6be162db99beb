------------------------------ MODULE ChatQueue ------------------------------
(***************************************************************************)
(* The Queue of src/hw2/chatroom_server.c at the level of its pointers:    *)
(* a singly linked list of malloc'ed Jobs with head and tail, a closed     *)
(* flag, a mutex and a condition variable.  Every operation runs between   *)
(* pthread_mutex_lock and pthread_mutex_unlock of q->mtx, so each is one   *)
(* atomic step, except that q_pop's pthread_cond_wait releases the mutex:  *)
(* a waiting thread sits in the cv's wait set until it is signalled (or    *)
(* wakes spuriously) and then takes the mutex again and re-tests its loop  *)
(* condition.                                                              *)
(*                                                                         *)
(* Jobs are nodes of a small heap; each push mallocs a free node and       *)
(* stores the number of the push in it, so that order can be observed.     *)
(***************************************************************************)
EXTENDS Naturals, Sequences, FiniteSets

CONSTANTS
    Poppers,     \* threads that call q_pop (the workers on job_queue)
    TryPoppers,  \* threads that call q_try_pop (main on bcast_queue)
    Node,        \* addresses malloc can return for a Job
    Null,        \* NULL
    MaxPush      \* number of q_push calls

ASSUME Poppers \cap TryPoppers = {} /\ Null \notin Node /\ MaxPush \in Nat

Thread == Poppers \cup TryPoppers

VARIABLES
    head, tail,  \* q->head, q->tail
    next,        \* next[n]: the next field of Job n
    val,         \* val[n]: the payload of Job n (the number of its push)
    inUse,       \* nodes malloc'ed and not yet freed
    closed,      \* q->closed
    waiting,     \* threads blocked in pthread_cond_wait on q->cv
    woken,       \* threads woken from the wait, about to re-take the mutex
    out,         \* out[t]: the payload t's last pop returned, or Null
    pushed       \* number of q_push calls so far

qvars == <<head, tail, next, val, inUse, closed, waiting, woken, out, pushed>>

QInit ==
    /\ head = Null /\ tail = Null
    /\ next = [n \in Node |-> Null]
    /\ val = [n \in Node |-> 0]
    /\ inUse = {}
    /\ closed = FALSE
    /\ waiting = {} /\ woken = {}
    /\ out = [t \in Thread |-> Null]
    /\ pushed = 0

\* The nodes from head along the next pointers (at most |Node| + 1 of them,
\* so that a list with a cycle shows as longer than the heap).
RECURSIVE Walk(_, _)
Walk(n, fuel) ==
    IF n = Null \/ fuel = 0 THEN <<>> ELSE <<n>> \o Walk(next[n], fuel - 1)

ListNodes == Walk(head, Cardinality(Node) + 1)

\* The payloads of the list, head first.
Contents == [i \in 1..Len(ListNodes) |-> val[ListNodes[i]]]

\* pthread_cond_signal: wakes one waiter, if any.
Signal ==
    IF waiting = {} THEN UNCHANGED <<waiting, woken>>
    ELSE \E w \in waiting : /\ waiting' = waiting \ {w}
                            /\ woken' = woken \cup {w}

\* Mutant: q_push does not set j->next = NULL (a reused Job keeps its
\* old next pointer).
Link_NoNextReset(n) ==
    IF tail = Null
    THEN /\ head' = n /\ tail' = n /\ UNCHANGED next
    ELSE /\ next' = [next EXCEPT ![tail] = n] /\ tail' = n /\ UNCHANGED head

\* j->next = NULL, then j becomes head and tail of an empty list, or is
\* linked after tail and becomes the tail.
Link(n) ==
    IF tail = Null
    THEN /\ head' = n /\ tail' = n /\ next' = [next EXCEPT ![n] = Null]
    ELSE /\ next' = [next EXCEPT ![tail] = n, ![n] = Null] /\ tail' = n
         /\ UNCHANGED head

\* Mutant: q_push does not signal the condition variable.
QPush_NoSignal(n) ==
    /\ pushed < MaxPush
    /\ n \notin inUse
    /\ inUse' = inUse \cup {n}
    /\ val' = [val EXCEPT ![n] = pushed + 1]
    /\ pushed' = pushed + 1
    /\ Link(n)
    /\ UNCHANGED <<closed, out, waiting, woken>>

\* The caller mallocs Job n and fills it in; q_push links it at the tail
\* and signals the condition variable.
QPush(n) ==
    /\ pushed < MaxPush
    /\ n \notin inUse
    /\ inUse' = inUse \cup {n}
    /\ val' = [val EXCEPT ![n] = pushed + 1]
    /\ pushed' = pushed + 1
    /\ Link(n)
    /\ Signal
    /\ UNCHANGED <<closed, out>>

\* Mutant: the tail is not reset when the last job is taken.
Unlink_KeepTail(t) ==
    /\ out' = [out EXCEPT ![t] = val[head]]
    /\ head' = next[head]
    /\ inUse' = inUse \ {head}
    /\ UNCHANGED tail

\* Taking the head job: head = head->next, tail = NULL when that empties the
\* list.  The caller frees the job once it has processed it, which touches
\* nothing of the queue, so the node is free from here on.
Unlink(t) ==
    /\ out' = [out EXCEPT ![t] = val[head]]
    /\ head' = next[head]
    /\ inUse' = inUse \ {head}
    /\ tail' = IF next[head] = Null THEN Null ELSE tail

\* q_pop by t with the mutex taken (first call, or after a wake-up): wait
\* while the queue is empty and open, return NULL if it is closed and
\* empty, otherwise take the head job.
QPop(t) ==
    /\ t \in Poppers
    /\ t \notin waiting
    /\ woken' = woken \ {t}
    /\ \/ /\ head = Null /\ ~closed
          /\ waiting' = waiting \cup {t}
          /\ UNCHANGED <<head, tail, inUse, out>>
       \/ /\ head = Null /\ closed
          /\ out' = [out EXCEPT ![t] = Null]
          /\ UNCHANGED <<waiting, head, tail, inUse>>
       \/ /\ head # Null
          /\ Unlink(t)
          /\ UNCHANGED waiting
    /\ UNCHANGED <<next, val, closed, pushed>>

\* q_try_pop: NULL when the queue is empty, otherwise the head job.
QTryPop(t) ==
    /\ t \in TryPoppers
    /\ \/ /\ head = Null
          /\ out' = [out EXCEPT ![t] = Null]
          /\ UNCHANGED <<head, tail, inUse>>
       \/ /\ head # Null
          /\ Unlink(t)
    /\ UNCHANGED <<next, val, closed, pushed, waiting, woken>>

\* Mutant: q_close signals one waiter instead of broadcasting.
QClose_Signal ==
    /\ closed' = TRUE
    /\ Signal
    /\ UNCHANGED <<head, tail, next, val, inUse, out, pushed>>

\* q_close: closed = 1 and pthread_cond_broadcast wakes every waiter.
QClose ==
    /\ closed' = TRUE
    /\ woken' = woken \cup waiting
    /\ waiting' = {}
    /\ UNCHANGED <<head, tail, next, val, inUse, out, pushed>>

\* pthread_cond_wait may return without a signal.
SpuriousWakeup(t) ==
    /\ t \in waiting
    /\ waiting' = waiting \ {t}
    /\ woken' = woken \cup {t}
    /\ UNCHANGED <<head, tail, next, val, inUse, closed, out, pushed>>

QNext ==
    \/ \E n \in Node : QPush(n)
    \/ \E t \in Thread : QPop(t) \/ QTryPop(t) \/ SpuriousWakeup(t)
    \/ QClose

\* A woken thread is runnable and the scheduler runs it: it takes the
\* mutex again and re-tests (weak fairness of its QPop).  Callers are not
\* obliged to push, pop or close.
QFairness == \A t \in Poppers : WF_qvars(t \in woken /\ QPop(t))

QSpec == QInit /\ [][QNext]_qvars /\ QFairness

-----------------------------------------------------------------------------
(* Properties.                                                             *)

\* The list q_push and q_pop keep is well formed: head and tail are NULL
\* together; otherwise tail is the last node reached from head, its next
\* is NULL, and every node on the list is a live (not freed) Job.
ListWellFormed ==
    /\ (head = Null) = (tail = Null)
    /\ head # Null =>
          /\ Len(ListNodes) <= Cardinality(Node)
          /\ ListNodes[Len(ListNodes)] = tail
          /\ next[tail] = Null
          /\ \A i \in 1..Len(ListNodes) : ListNodes[i] \in inUse

\* The linked list implements the FIFO of FifoQueue: the payloads from head
\* along next are the abstract queue, and every push, pop, NULL return and
\* close is the matching abstract step.
Fifo == INSTANCE FifoQueue WITH Thread <- Thread, Payload <- 1..MaxPush, Null <- Null,
                                items <- Contents, closed <- closed, out <- out,
                                nPushed <- pushed

ImplementsFifo == Fifo!Spec

\* A thread blocked in q_pop does not stay blocked while jobs are waiting
\* in the queue: q_push's signal wakes a waiter for every job it adds, so
\* whenever a thread waits with a job queued, eventually the queue is
\* empty again or no thread waits.
NoLostWakeup ==
    (waiting # {} /\ head # Null) ~> (head = Null \/ waiting = {})

\* After q_close every thread inside q_pop returns: the threads that were
\* blocked in pthread_cond_wait when the queue closed, and those already
\* woken but still waiting for the mutex, all leave q_pop and none blocks
\* again (so that the pthread_join of the workers in main's shutdown
\* returns).  It needs the broadcast: a signal wakes only one of them.
CloseReleasesAll == closed ~> (waiting = {} /\ woken = {})

=============================================================================
