------------------------------ MODULE FibServer ------------------------------
(***************************************************************************)
(* src/lab4/lab4.c: main accepts connections, numbers them from           *)
(* client_counter and starts a detached client_handler for each, which    *)
(* reads N, splits 1..N into num_threads consecutive ranges, starts a      *)
(* worker_thread per range, joins them in order, appends each worker's     *)
(* line to response and sends it.  Handlers share nothing but stdout, so   *)
(* one of them (with its workers) is modelled in detail; main's accepts    *)
(* of the others only advance client_counter.                              *)
(*                                                                         *)
(* A C long is a sequence of decimal digits, least significant first, so   *)
(* that fib(92) and the sums TLC's integers cannot hold are exact; the     *)
(* length of what snprintf("%ld") writes is then the number of digits.     *)
(* A worker's result string is tracked by its strlen, so a property can   *)
(* compare it with the array strcat writes it into.                        *)
(***************************************************************************)
EXTENDS Integers, Sequences, FiniteSets

CONSTANTS
    NumThreads,  \* num_threads: argv[2] or DEFAULT_NUM_THREADS (4)
    InputN,      \* values atoi(buffer) may give for the client's line
    MaxConn      \* connections main accepts

\* main exits on num_threads <= 0 ("Invalid number of threads").
ASSUME NumThreads \in Nat \ {0} /\ InputN \subseteq Int /\ MaxConn \in Nat \ {0}

Worker == 1..NumThreads

\* The size of fib_data_t.result.
ResultSize == 256

-----------------------------------------------------------------------------
(* Decimal numbers.                                                        *)

Digit == 0..9

\* The digits of a natural number k.
RECURSIVE Num(_)
Num(k) == IF k < 10 THEN <<k>> ELSE <<k % 10>> \o Num(k \div 10)

Low(a) == IF a = <<>> THEN 0 ELSE Head(a)
Rest(a) == IF a = <<>> THEN <<>> ELSE Tail(a)

\* Schoolbook addition with carry c.
RECURSIVE AddC(_, _, _)
AddC(a, b, c) ==
    IF a = <<>> /\ b = <<>>
    THEN IF c = 0 THEN <<>> ELSE <<c>>
    ELSE LET x == Low(a) + Low(b) + c
         IN  <<x % 10>> \o AddC(Rest(a), Rest(b), x \div 10)

\* The long addition c = a + b (exact: no wrap at LONG_MAX).
Plus(a, b) == AddC(a, b, 0)

\* One iteration of fib's loop on <<a, b>>: c = a + b; a = b; b = c.
Body(s) == <<s[2], Plus(s[1], s[2])>>

\* <<a, b>> after the iterations i = lo..hi of fib's loop, starting from s.
\* Long stretches are done as two halves, one after the other: the same
\* sequence of iterations.  (The test t = t makes TLC evaluate the first
\* half before it starts the second, which keeps its evaluation shallow.)
RECURSIVE Loop(_, _, _)
Loop(s, lo, hi) ==
    IF lo > hi THEN s
    ELSE IF hi - lo < 8 THEN Loop(Body(s), lo + 1, hi)
    ELSE LET mid == (lo + hi) \div 2
             t   == Loop(s, lo, mid)
         IN  IF t = t THEN Loop(t, mid + 1, hi) ELSE s

\* fib(n): 1 for n <= 2, otherwise b after "for (i = 3; i <= n; i++)" from
\* a = b = 1.
Fib(n) == IF n <= 2 THEN Num(1) ELSE Loop(<<Num(1), Num(1)>>, 3, n)[2]

-----------------------------------------------------------------------------
(* The partition of client_handler.                                        *)

\* Mutant: the remainder goes to threads 0..remainder (i <= remainder).
Ranges_LeRemainder(N, T) ==
    LET size(i) == N \div T + (IF i - 1 <= N % T THEN 1 ELSE 0)
        RECURSIVE st(_)
        st(i) == IF i = 1 THEN 1 ELSE st(i - 1) + size(i - 1)
    IN  [i \in 1..T |-> [start |-> st(i), end |-> st(i) + size(i) - 1]]

\* thread_data[i-1].start/.end for i in 1..T: range_per_thread = N / T,
\* the first N % T threads get one more, each range starts after the last.
Ranges(N, T) ==
    LET size(i) == N \div T + (IF i - 1 < N % T THEN 1 ELSE 0)
        RECURSIVE st(_)
        st(i) == IF i = 1 THEN 1 ELSE st(i - 1) + size(i - 1)
    IN  [i \in 1..T |-> [start |-> st(i), end |-> st(i) + size(i) - 1]]

-----------------------------------------------------------------------------
VARIABLES
    counter,  \* client_counter
    num,      \* client_num of the modelled connection (0 until it is accepted)
    hpc,      \* client_handler: "accept" (not yet started), "read", "run"
              \* (workers/joins), "done", "closed"
    n,        \* N
    data,     \* thread_data[]: start, end, loop index i, sum, strlen(result)
    joined,   \* the next thread pthread_join waits for
    total     \* total_sum

vars == <<counter, num, hpc, n, data, joined, total>>

Init ==
    /\ counter = 0
    /\ num = 0
    /\ hpc = "accept"
    /\ n = 0
    /\ data = [w \in Worker |-> [start |-> 0, end |-> 0, i |-> 0,
                                 sum |-> Num(0), len |-> 0]]
    /\ joined = 1
    /\ total = Num(0)

\* One turn of main's accept loop that gets a connection (a failed accept
\* only "continue"s): client_data is filled, client_num = ++client_counter
\* under counter_mutex, and a detached client_handler started.  The
\* connection is the modelled one, or another whose handler is not.
Accept ==
    /\ counter < MaxConn
    /\ counter' = counter + 1
    /\ \/ /\ hpc = "accept"
          /\ hpc' = "read"
          /\ num' = counter + 1
       \/ UNCHANGED <<hpc, num>>
    /\ UNCHANGED <<n, data, joined, total>>

\* read and atoi of the client's number; N <= 0 closes the connection.
\* Otherwise the ranges are computed and one worker started per range
\* (worker_thread first sets sum = 0 and result = "").
ReadN(v) ==
    /\ hpc = "read"
    /\ n' = v
    /\ IF v <= 0
       THEN /\ hpc' = "closed"
            /\ UNCHANGED data
       ELSE /\ hpc' = "run"
            /\ data' = [w \in Worker |->
                          [start |-> Ranges(v, NumThreads)[w].start,
                           end   |-> Ranges(v, NumThreads)[w].end,
                           i     |-> Ranges(v, NumThreads)[w].start,
                           sum   |-> Num(0), len |-> 0]]
    /\ UNCHANGED <<counter, num, joined, total>>

\* Mutant: the loop runs while i < end, skipping the range's last number.
InRange_Lt(d) == d.i < d.end

\* The worker loop's condition i <= end.
InRange(d) == d.i <= d.end

\* One iteration of worker w's loop: sum += fib(i), and " " (unless first)
\* and the digits of fib(i) are strcat'ed onto result.
WorkerStep(w) ==
    LET d == data[w]  f == Fib(d.i) IN
    /\ hpc = "run"
    /\ InRange(d)
    /\ data' = [data EXCEPT ![w].sum = Plus(d.sum, f),
                            ![w].len = d.len + (IF d.i = d.start THEN 0 ELSE 1) + Len(f),
                            ![w].i = d.i + 1]
    /\ UNCHANGED <<counter, num, hpc, n, joined, total>>

\* pthread_join returns once the worker has left its loop; its sum is added
\* to total_sum (its line for response is formatting and left out).
Join ==
    LET w == joined IN
    /\ hpc = "run"
    /\ joined \in Worker
    /\ ~InRange(data[w])
    /\ joined' = joined + 1
    /\ total' = Plus(total, data[w].sum)
    /\ UNCHANGED <<counter, num, hpc, n, data>>

\* After the last join: the summary is appended, response written and the
\* connection closed.
Respond ==
    /\ hpc = "run"
    /\ joined = NumThreads + 1
    /\ hpc' = "done"
    /\ UNCHANGED <<counter, num, n, data, joined, total>>

Next ==
    \/ Accept
    \/ \E v \in InputN : ReadN(v)
    \/ \E w \in Worker : WorkerStep(w)
    \/ Join
    \/ Respond

\* The properties are safety properties: no fairness is assumed.
Spec == Init /\ [][Next]_vars

-----------------------------------------------------------------------------
(* Properties.                                                             *)

\* The numbers a worker computes are the usual Fibonacci numbers (the
\* reference definition, on TLC integers, so for small N only).
RECURSIVE FibRef(_)
FibRef(k) == IF k <= 2 THEN 1 ELSE FibRef(k - 1) + FibRef(k - 2)

RECURSIVE FibSumRef(_)
FibSumRef(k) == IF k = 0 THEN 0 ELSE FibRef(k) + FibSumRef(k - 1)

\* client_handler's ranges cover every number of 1..N exactly once, for
\* every N and num_threads (also N < num_threads, where the last threads
\* get the empty range [N+1, N]), so no number is computed twice or left
\* out and no worker reads past N.
PartitionExact ==
    hpc \in {"run", "done"} =>
        /\ \A k \in 1..n : Cardinality({w \in Worker : data[w].start <= k
                                                      /\ k <= data[w].end}) = 1
        /\ \A w \in Worker : data[w].start >= 1 /\ data[w].end <= n

\* The "Sum =" the server sends is fib(1) + ... + fib(N): each worker's
\* loop adds every number of its range and the joins add every worker.
TotalIsFibSum ==
    hpc = "done" => total = Num(FibSumRef(n))

\* strcat never writes past the end of a worker's result[256]: the
\* numbers of a range, separated by spaces, and the NUL fit.
ResultFits ==
    \A w \in Worker : data[w].len < ResultSize

=============================================================================
