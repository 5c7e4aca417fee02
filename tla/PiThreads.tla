----------------------------- MODULE PiThreads -----------------------------
(***************************************************************************)
(* lab8-9/8.c: n threads sum the terms of a series, thread ofs the terms   *)
(* ofs, ofs + n, ofs + 2n ..., num_steps of them in an iteration.  After a *)
(* SIGINT they all stop, at the same iteration, or the sum has a gap.      *)
(*                                                                         *)
(* The signal handler writes sig_flag without iter_mutex, so the region    *)
(* under it is cut at its two reads of sig_flag.                           *)
(***************************************************************************)
EXTENDS Integers, FiniteSets

CONSTANTS
  N,          \* nThreads
  Steps,      \* num_steps
  MaxIter     \* without a signal no thread goes on beyond this iteration

ASSUME PiAssumption ==
  /\ N \in Nat \ {0}
  /\ Steps \in Nat \ {0}
  /\ MaxIter \in Nat

Thread == 0..(N - 1)
Nobody == N

VARIABLES
  sig_flag,
  farthest_iter,
  iter_mutex,      \* its holder
  created, joined, \* how many threads main has created and joined
  pc, iter,        \* a thread: its place, and its iteration
  isDumped,
  thread_sig_iteration,
  summed           \* the iterations whose terms are in a thread's pi

threadVars == <<pc, iter, isDumped, thread_sig_iteration, summed>>
vars == <<sig_flag, farthest_iter, iter_mutex, created, joined, threadVars>>

Init ==
  /\ sig_flag = FALSE
  /\ farthest_iter = 0
  /\ iter_mutex = Nobody
  /\ created = 0 /\ joined = 0
  /\ pc = [t \in Thread |-> "sum"]
  /\ iter = [t \in Thread |-> 0]
  /\ isDumped = [t \in Thread |-> FALSE]
  /\ thread_sig_iteration = [t \in Thread |-> 0]
  /\ summed = [t \in Thread |-> 0]

-----------------------------------------------------------------------------
(* quit_handler *)
Signal ==
  /\ ~ sig_flag
  /\ sig_flag' = TRUE
  /\ UNCHANGED <<farthest_iter, iter_mutex, created, joined, threadVars>>

MoreToCreate == created < N

(* main: pthread_create of thread number created. *)
Create ==
  /\ MoreToCreate
  /\ created' = created + 1
  /\ UNCHANGED <<sig_flag, farthest_iter, iter_mutex, joined, threadVars>>

(* Mutant of Joinable: main does not wait for the thread. *)
BadJoinable(t) == TRUE

Joinable(t) == pc[t] = "stopped"

(* main: pthread_join of thread number joined, whose pi is added. *)
Join ==
  /\ created = N /\ joined < N
  /\ Joinable(joined)
  /\ joined' = joined + 1
  /\ UNCHANGED <<sig_flag, farthest_iter, iter_mutex, created, threadVars>>

(* The for loop adds the terms of one iteration. *)
Sum(t) ==
  /\ t < created /\ pc[t] = "sum"
  /\ sig_flag \/ iter[t] < MaxIter
  /\ summed' = [summed EXCEPT ![t] = @ + 1]
  /\ pc' = [pc EXCEPT ![t] = "lock"]
  /\ UNCHANGED <<sig_flag, farthest_iter, iter_mutex, created, joined, iter, isDumped,
                 thread_sig_iteration>>

Lock(t) ==
  /\ pc[t] = "lock" /\ iter_mutex = Nobody
  /\ iter_mutex' = t
  /\ pc' = [pc EXCEPT ![t] = "dump"]
  /\ UNCHANGED <<sig_flag, farthest_iter, created, joined, iter, isDumped, thread_sig_iteration,
                 summed>>

(* if(!isDumped && sig_flag) *)
Dump(t) ==
  /\ pc[t] = "dump"
  /\ IF ~ isDumped[t] /\ sig_flag
       THEN /\ isDumped' = [isDumped EXCEPT ![t] = TRUE]
            /\ thread_sig_iteration' = [thread_sig_iteration EXCEPT ![t] = iter[t]]
       ELSE UNCHANGED <<isDumped, thread_sig_iteration>>
  /\ pc' = [pc EXCEPT ![t] = "decide"]
  /\ UNCHANGED <<sig_flag, farthest_iter, iter_mutex, created, joined, iter, summed>>

(* Mutant of MayStop: a thread stops as soon as it sees the signal. *)
BadMayStop(t) == sig_flag

MayStop(t) == sig_flag /\ iter[t] = farthest_iter

Farthest(n) == IF n > farthest_iter THEN n ELSE farthest_iter

(* Mutant of Released: the early exit forgets the mutex. *)
BadReleased(t) == IF MayStop(t) THEN t ELSE Nobody

Released(t) == Nobody

(* The second read of sig_flag, and the rest of the region. *)
Decide(t) ==
  /\ pc[t] = "decide"
  /\ iter_mutex' = Released(t)
  /\ IF MayStop(t)
       THEN /\ pc' = [pc EXCEPT ![t] = "stopped"]
            /\ UNCHANGED <<iter, farthest_iter>>
       ELSE /\ pc' = [pc EXCEPT ![t] = "sum"]
            /\ iter' = [iter EXCEPT ![t] = @ + 1]
            /\ farthest_iter' = Farthest(iter[t] + 1)
  /\ UNCHANGED <<sig_flag, created, joined, isDumped, thread_sig_iteration, summed>>

-----------------------------------------------------------------------------
Work(t) == Sum(t) \/ Lock(t) \/ Dump(t) \/ Decide(t)

Main == Create \/ Join

Next == Signal \/ Main \/ \E t \in Thread : Work(t)

SafeSpec == Init /\ [][Next]_vars

(* Threads are scheduled; nothing is assumed of the order in which they    *)
(* obtain the mutex, and nobody has to press Ctrl-C.                       *)
Spec ==
  /\ SafeSpec
  /\ WF_vars(Main)
  /\ \A t \in Thread : WF_vars(Work(t))

-----------------------------------------------------------------------------
TypeOK ==
  /\ sig_flag \in BOOLEAN
  /\ farthest_iter \in Nat
  /\ iter_mutex \in Thread \cup {Nobody}
  /\ created \in 0..N /\ joined \in 0..N
  /\ pc \in [Thread -> {"sum", "lock", "dump", "decide", "stopped"}]
  /\ iter \in [Thread -> Nat]
  /\ isDumped \in [Thread -> BOOLEAN]
  /\ thread_sig_iteration \in [Thread -> Nat]
  /\ summed \in [Thread -> Nat]

Stopped(t) == pc[t] = "stopped"

(* Whoever has stopped has stopped at the farthest iteration of all, and   *)
(* nobody who still runs is or will be beyond it, although each decides    *)
(* for itself and the signal may come between any two steps.               *)
OneLastIteration ==
  \A t \in Thread : Stopped(t) =>
    /\ sig_flag /\ iter[t] = farthest_iter
    /\ \A u \in Thread : iter[u] <= farthest_iter

(* Once a thread has stopped, the goal the others run for stays where it   *)
(* is.                                                                     *)
GoalStands ==
  [][(\E t \in Thread : Stopped(t)) => farthest_iter' = farthest_iter]_farthest_iter

(* The terms of thread t: ofs + n * k for every k so far. *)
Terms(t) == {t + N * k : k \in 0..(Steps * summed[t] - 1)}

(* When main has joined all threads, their sums hold the first terms of    *)
(* the series, each in one thread's sum: no gap, none twice.               *)
SumHasNoGap ==
  joined = N =>
    /\ UNION {Terms(t) : t \in Thread} = 0..(N * Steps * (farthest_iter + 1) - 1)
    /\ \A t, u \in Thread : t # u => Terms(t) \cap Terms(u) = {}

(* After the signal main gets to its end: everyone catches up and stops.   *)
SignalEndsAll == sig_flag ~> joined = N

=============================================================================
