----------------------------- MODULE LabsProofs -----------------------------
(***************************************************************************)
(* The programs of the labs that count and that take turns.                *)
(*                                                                         *)
(* Labs 8-9, for any number of threads and of steps in an iteration: all   *)
(* threads stop at one iteration, and their sums together are the          *)
(* beginning of the series, without a gap.                                 *)
(*                                                                         *)
(* Labs 14, 11 and 16, for every Count and every number of runs: whose     *)
(* turn it is.  In 14.c the invariant says where the one post is, in 11.c  *)
(* which mutexes of the ring each thread holds, and in 16.c that the       *)
(* semaphores of the processes, and those the names stand for, never hold  *)
(* more than one post together, whatever a killed run left behind.         *)
(***************************************************************************)
EXTENDS PiThreads, MCTurns, TLAPS

-----------------------------------------------------------------------------
(* 8.c *)

(* A thread holds the mutex within the region, is not beyond the farthest  *)
(* iteration, and has summed its iterations.                               *)
Progress ==
  \A t \in Thread :
    /\ pc[t] \in {"dump", "decide"} <=> iter_mutex = t
    /\ iter[t] <= farthest_iter
    /\ summed[t] = IF pc[t] = "sum" THEN iter[t] ELSE iter[t] + 1

StoppedAtFarthest == \A t \in Thread : Stopped(t) => sig_flag /\ iter[t] = farthest_iter

Joined == \A t \in Thread : t < joined => Stopped(t)

IInv == TypeOK /\ Progress /\ StoppedAtFarthest /\ Joined

-----------------------------------------------------------------------------
LEMMA TimesMonotone ==
  ASSUME NEW n \in Nat, NEW a \in Nat, NEW b \in Nat, a <= b
  PROVE  n * a <= n * b
<1>1. PICK d \in Nat : b = a + d
  <2>1. b - a \in Nat /\ b = a + (b - a)
    OBVIOUS
  <2> QED BY <2>1
<1>2. n * d \in Nat /\ n * (a + d) = n * a + n * d
  OBVIOUS
<1>3. PICK p \in Nat, q \in Nat : p = n * a /\ q = n * d
  OBVIOUS
<1> QED BY <1>1, <1>2, <1>3

(* Division with remainder.                                                *)
LEMMA Division ==
  ASSUME NEW n \in Int, n > 0, NEW x \in Int,
         NEW q \in Int, NEW r \in Int, q = x \div n, r = x % n
  PROVE  x = n * q + r
OBVIOUS

(* The residue classes of n up to n * m are the numbers below n * m.       *)
LEMMA Classes ==
  ASSUME NEW n \in Nat \ {0}, NEW m \in Nat
  PROVE  UNION {{t + n * k : k \in 0..(m - 1)} : t \in 0..(n - 1)} = 0..(n * m - 1)
<1>0. PICK c \in Nat : c = n * m
  OBVIOUS
<1>1. ASSUME NEW t \in 0..(n - 1), NEW k \in 0..(m - 1)
      PROVE  t + n * k \in 0..(n * m - 1)
  <2>1. PICK a \in Nat : a = n * k
    OBVIOUS
  <2>2. n * k + n = n * (k + 1)
    OBVIOUS
  <2>3. n * (k + 1) <= n * m
    BY k + 1 \in Nat, k + 1 <= m, TimesMonotone
  <2>4. a + n <= c
    BY <1>0, <2>1, <2>2, <2>3
  <2>5. t + a \in 0..(c - 1)
    BY ONLY <2>4, n \in Nat \ {0}, t \in 0..(n - 1), a \in Nat, c \in Nat
  <2> QED BY <1>0, <2>1, <2>5
<1>2. ASSUME NEW x \in 0..(n * m - 1)
      PROVE  \E t \in 0..(n - 1), k \in 0..(m - 1) : x = t + n * k
  <2>1. x \in Nat /\ x < c
    BY <1>0
  <2>2. x \div n \in Nat /\ x % n \in 0..(n - 1)
    BY <2>1
  <2>3. PICK q \in Nat, t \in 0..(n - 1) : x = n * q + t
    BY <2>1, <2>2, Division
  <2>4. q < m
    <3> SUFFICES ASSUME q >= m PROVE FALSE
      OBVIOUS
    <3>1. n * m <= n * q
      BY TimesMonotone
    <3>2. PICK p \in Nat : p = n * q
      OBVIOUS
    <3> QED BY <1>0, <2>1, <2>3, <3>1, <3>2
  <2> QED BY <2>3, <2>4
<1> DEFINE Class(t) == {t + n * k : k \in 0..(m - 1)}
<1>3. ASSUME NEW x \in UNION {Class(t) : t \in 0..(n - 1)} PROVE x \in 0..(n * m - 1)
  <2>1. PICK t \in 0..(n - 1) : x \in Class(t)
    OBVIOUS
  <2>2. PICK k \in 0..(m - 1) : x = t + n * k
    BY <2>1
  <2> QED BY <2>2, <1>1
<1>4. ASSUME NEW x \in 0..(n * m - 1) PROVE x \in UNION {Class(t) : t \in 0..(n - 1)}
  <2>1. PICK t \in 0..(n - 1), k \in 0..(m - 1) : x = t + n * k
    BY <1>2
  <2>2. x \in Class(t)
    BY <2>1
  <2> QED BY ONLY <2>2, t \in 0..(n - 1)
<1>5. UNION {Class(t) : t \in 0..(n - 1)} = 0..(n * m - 1)
  <2> HIDE DEF Class
  <2> QED BY <1>3, <1>4
<1> QED BY <1>5

(* A number is in one class only.                                          *)
LEMMA ClassesApart ==
  ASSUME NEW n \in Nat \ {0}, NEW t \in 0..(n - 1), NEW u \in 0..(n - 1),
         NEW j \in Nat, NEW k \in Nat, t + n * j = u + n * k
  PROVE  t = u
<1>1. PICK a \in Nat, b \in Nat : a = n * j /\ b = n * k
  OBVIOUS
<1>2. ~ (j < k)
  <2> SUFFICES ASSUME j < k PROVE FALSE
    OBVIOUS
  <2>1. n * (j + 1) = n * j + n /\ n * (j + 1) <= n * k
    BY TimesMonotone
  <2> QED BY <1>1, <2>1
<1>3. ~ (k < j)
  <2> SUFFICES ASSUME k < j PROVE FALSE
    OBVIOUS
  <2>1. n * (k + 1) = n * k + n /\ n * (k + 1) <= n * j
    BY TimesMonotone
  <2> QED BY <1>1, <2>1
<1>4. j = k
  BY <1>2, <1>3
<1> QED BY <1>1, <1>4

-----------------------------------------------------------------------------
(* The initial state satisfies the invariant. *)
LEMMA InitIInv == Init => IInv
<1> SUFFICES ASSUME Init PROVE IInv
  OBVIOUS
<1> USE PiAssumption DEF PiAssumption, Init, Thread, Nobody
<1>1. TypeOK
  <2>1. isDumped \in [Thread -> BOOLEAN]
    OBVIOUS
  <2>2. sig_flag \in BOOLEAN
    OBVIOUS
  <2>4. farthest_iter \in Nat /\ created \in 0..N /\ joined \in 0..N
    OBVIOUS
  <2>5. iter_mutex \in Thread \cup {Nobody}
    OBVIOUS
  <2>3. /\ pc \in [Thread -> {"sum", "lock", "dump", "decide", "stopped"}]
        /\ iter \in [Thread -> Nat] /\ thread_sig_iteration \in [Thread -> Nat]
        /\ summed \in [Thread -> Nat]
    OBVIOUS
  <2> QED BY <2>1, <2>2, <2>3, <2>4, <2>5 DEF TypeOK
<1>2. Progress
  BY DEF Progress
<1>3. StoppedAtFarthest /\ Joined
  BY DEF StoppedAtFarthest, Joined, Stopped
<1> QED BY <1>1, <1>2, <1>3 DEF IInv

(* Every step keeps it. *)
LEMMA NextIInv == IInv /\ [Next]_vars => IInv'
<1> SUFFICES ASSUME IInv, [Next]_vars PROVE IInv'
  OBVIOUS
<1> USE PiAssumption DEF PiAssumption, IInv, Stopped, Thread, Nobody
<1>1. CASE Signal
  BY <1>1 DEF Signal, threadVars, TypeOK, Progress, StoppedAtFarthest, Joined
<1>2. CASE Create
  BY <1>2 DEF Create, MoreToCreate, threadVars, TypeOK, Progress, StoppedAtFarthest, Joined
<1>3. CASE Join
  BY <1>3 DEF Join, Joinable, threadVars, TypeOK, Progress, StoppedAtFarthest, Joined
<1>4. ASSUME NEW t \in Thread, Sum(t) PROVE IInv'
  <2>1. TypeOK'
    <3>1. /\ summed' = [summed EXCEPT ![t] = @ + 1] /\ pc' = [pc EXCEPT ![t] = "lock"]
          /\ UNCHANGED <<sig_flag, farthest_iter, iter_mutex, created, joined, iter, isDumped,
                         thread_sig_iteration>>
      BY <1>4 DEF Sum
    <3>0. summed \in [Thread -> Nat] /\ pc \in [Thread -> {"sum", "lock", "dump", "decide", "stopped"}]
      BY DEF TypeOK
    <3>2. summed' \in [Thread -> Nat]
      BY ONLY <3>0, <3>1
    <3>3. pc' \in [Thread -> {"sum", "lock", "dump", "decide", "stopped"}]
      BY ONLY <3>0, <3>1
    <3>4. /\ sig_flag \in BOOLEAN /\ isDumped \in [Thread -> BOOLEAN]
          /\ farthest_iter \in Nat /\ iter_mutex \in Thread \cup {Nobody}
          /\ created \in 0..N /\ joined \in 0..N
          /\ iter \in [Thread -> Nat] /\ thread_sig_iteration \in [Thread -> Nat]
      BY DEF TypeOK
    <3> QED BY ONLY <3>1, <3>2, <3>3, <3>4 DEF TypeOK
  <2>2. Progress'
    BY <1>4 DEF Sum, TypeOK, Progress
  <2>3. StoppedAtFarthest' /\ Joined'
    BY <1>4 DEF Sum, TypeOK, StoppedAtFarthest, Joined
  <2> QED BY <2>1, <2>2, <2>3
<1>5. ASSUME NEW t \in Thread, Lock(t) PROVE IInv'
  <2>1. TypeOK'
    BY <1>5 DEF Lock, TypeOK
  <2>2. Progress'
    BY <1>5 DEF Lock, TypeOK, Progress
  <2>3. StoppedAtFarthest' /\ Joined'
    BY <1>5 DEF Lock, TypeOK, StoppedAtFarthest, Joined
  <2> QED BY <2>1, <2>2, <2>3
<1>6. ASSUME NEW t \in Thread, Dump(t) PROVE IInv'
  <2>1. TypeOK'
    BY <1>6 DEF Dump, TypeOK
  <2>2. Progress'
    BY <1>6 DEF Dump, TypeOK, Progress
  <2>3. StoppedAtFarthest' /\ Joined'
    BY <1>6 DEF Dump, TypeOK, StoppedAtFarthest, Joined
  <2> QED BY <2>1, <2>2, <2>3
<1>7. ASSUME NEW t \in Thread, Decide(t) PROVE IInv'
  <2>1. iter_mutex = t /\ iter_mutex' = Nobody /\ pc[t] = "decide" /\ iter[t] <= farthest_iter
    BY <1>7 DEF Decide, Released, Progress
  <2>2. CASE MayStop(t)
    <3>1. /\ pc' = [pc EXCEPT ![t] = "stopped"]
          /\ UNCHANGED <<sig_flag, farthest_iter, created, joined, iter, isDumped,
                         thread_sig_iteration, summed>>
      BY <1>7, <2>2 DEF Decide
    <3>2. TypeOK'
      BY <2>1, <3>1 DEF TypeOK
    <3>3. Progress'
      BY <2>1, <3>1 DEF TypeOK, Progress
    <3>4. StoppedAtFarthest' /\ Joined'
      BY <2>2, <3>1 DEF TypeOK, StoppedAtFarthest, Joined, MayStop
    <3> QED BY <3>2, <3>3, <3>4
  <2>3. CASE ~ MayStop(t)
    <3>1. /\ pc' = [pc EXCEPT ![t] = "sum"] /\ iter' = [iter EXCEPT ![t] = @ + 1]
          /\ farthest_iter' = Farthest(iter[t] + 1)
          /\ UNCHANGED <<sig_flag, created, joined, isDumped, thread_sig_iteration, summed>>
      BY <1>7, <2>3 DEF Decide
    <3>2. farthest_iter' \in Nat /\ farthest_iter <= farthest_iter' /\ iter[t] + 1 <= farthest_iter'
      BY <3>1 DEF TypeOK, Farthest
    <3>3. TypeOK'
      <4>1. pc' \in [Thread -> {"sum", "lock", "dump", "decide", "stopped"}]
        BY <3>1 DEF TypeOK
      <4>2. iter' \in [Thread -> Nat]
        <5>1. iter \in [Thread -> Nat]
          BY DEF TypeOK
        <5> QED BY ONLY <3>1, <5>1
      <4>3. iter_mutex' \in Thread \cup {Nobody}
        BY <2>1
      <4> QED BY ONLY <3>1, <3>2, <4>1, <4>2, <4>3, TypeOK DEF TypeOK
    <3>4. Progress'
      <4> SUFFICES ASSUME NEW u \in Thread
                   PROVE  /\ pc'[u] \in {"dump", "decide"} <=> iter_mutex' = u
                          /\ iter'[u] <= farthest_iter'
                          /\ summed'[u] = IF pc'[u] = "sum" THEN iter'[u] ELSE iter'[u] + 1
        BY DEF Progress
      <4>1. CASE u = t
        BY <2>1, <3>1, <3>2, <4>1 DEF TypeOK, Progress
      <4>2. CASE u # t
        <5>1. pc'[u] = pc[u] /\ iter'[u] = iter[u] /\ summed'[u] = summed[u]
          BY <3>1, <4>2 DEF TypeOK
        <5>2. /\ pc[u] \in {"dump", "decide"} <=> iter_mutex = u
              /\ iter[u] <= farthest_iter
              /\ summed[u] = IF pc[u] = "sum" THEN iter[u] ELSE iter[u] + 1
          BY DEF Progress
        <5>3. iter[u] \in Nat /\ farthest_iter \in Nat
          BY DEF TypeOK
        <5>4. iter[u] <= farthest_iter'
          BY ONLY <3>2, <5>2, <5>3
        <5>5. u # Nobody
          BY PiAssumption DEF Nobody, Thread
        <5> QED BY ONLY <2>1, <4>2, <5>1, <5>2, <5>4, <5>5
      <4> QED BY <4>1, <4>2
    <3>5. ASSUME NEW u \in Thread, Stopped(u) PROVE farthest_iter' = farthest_iter
      <4>1. sig_flag /\ iter[u] = farthest_iter
        BY <3>5 DEF StoppedAtFarthest
      <4>2. iter[t] # farthest_iter
        BY <2>3, <4>1 DEF MayStop
      <4>3. iter[t] \in Nat /\ farthest_iter \in Nat
        BY DEF TypeOK
      <4> QED BY ONLY <2>1, <3>1, <4>2, <4>3 DEF Farthest
    <3>6. StoppedAtFarthest' /\ Joined'
      BY <2>1, <3>1, <3>5 DEF TypeOK, StoppedAtFarthest, Joined
    <3> QED BY <3>3, <3>4, <3>6
  <2> QED BY <2>2, <2>3
<1>8. CASE UNCHANGED vars
  BY <1>8 DEF vars, threadVars, TypeOK, Progress, StoppedAtFarthest, Joined
<1> QED BY <1>1, <1>2, <1>3, <1>4, <1>5, <1>6, <1>7, <1>8 DEF Next, Main, Work

(* The invariant holds in every behaviour. *)
THEOREM Invariance == SafeSpec => []IInv
BY InitIInv, NextIInv, PTL DEF SafeSpec

(* Type correctness. *)
THEOREM TypeCorrect == SafeSpec => []TypeOK
<1>1. IInv => TypeOK
  BY DEF IInv
<1> QED BY Invariance, <1>1, PTL

(* All threads that have stopped stopped at the farthest iteration.        *)
THEOREM StopTogether == SafeSpec => []OneLastIteration
<1>1. IInv => OneLastIteration
  BY DEF IInv, Progress, StoppedAtFarthest, OneLastIteration
<1> QED BY Invariance, <1>1, PTL

(* The first thread to stop fixes the goal.                                *)
THEOREM GoalFixed == SafeSpec => GoalStands
<1>1. IInv /\ [Next]_vars =>
        [(\E t \in Thread : Stopped(t)) => farthest_iter' = farthest_iter]_farthest_iter
  <2> SUFFICES ASSUME IInv, Next, NEW u \in Thread, Stopped(u)
               PROVE  farthest_iter' = farthest_iter
    BY DEF vars
  <2>1. ASSUME NEW t \in Thread, Decide(t) PROVE farthest_iter' = farthest_iter
    BY <2>1 DEF Decide, IInv, Progress, StoppedAtFarthest, MayStop, Farthest, TypeOK, Thread
  <2> QED BY <2>1 DEF Next, Main, Work, Signal, Create, Join, Sum, Lock, Dump
<1> QED BY Invariance, <1>1, PTL DEF SafeSpec, GoalStands

(* What the threads have summed when main has joined them is the beginning *)
(* of the series, each term once.                                          *)
THEOREM NoGap == SafeSpec => []SumHasNoGap
<1>1. IInv => SumHasNoGap
  <2> SUFFICES ASSUME IInv, joined = N
               PROVE  /\ UNION {Terms(t) : t \in Thread} = 0..(N * Steps * (farthest_iter + 1) - 1)
                      /\ \A t, u \in Thread : t # u => Terms(t) \cap Terms(u) = {}
    BY DEF SumHasNoGap
  <2> DEFINE m == Steps * (farthest_iter + 1)
  <2>1. N \in Nat \ {0} /\ Steps \in Nat /\ farthest_iter + 1 \in Nat
    BY PiAssumption DEF PiAssumption, IInv, TypeOK
  <2>2. m \in Nat /\ N * m = N * Steps * (farthest_iter + 1)
    BY <2>1
  <2>3. ASSUME NEW t \in Thread PROVE Terms(t) = {t + N * k : k \in 0..(m - 1)}
    <3>1. Stopped(t)
      BY PiAssumption DEF PiAssumption, IInv, Joined, Thread
    <3>2. summed[t] = farthest_iter + 1
      BY <3>1 DEF IInv, Progress, StoppedAtFarthest, Stopped
    <3> QED BY <3>2 DEF Terms
  <2> HIDE DEF m
  <2>4. UNION {Terms(t) : t \in Thread} = 0..(N * m - 1)
    <3>1. UNION {{t + N * k : k \in 0..(m - 1)} : t \in 0..(N - 1)} = 0..(N * m - 1)
      BY <2>1, <2>2, Classes
    <3> DEFINE Class(t) == {t + N * k : k \in 0..(m - 1)}
    <3>2. \A t \in Thread : Terms(t) = Class(t)
      BY <2>3
    <3>3. UNION {Class(t) : t \in Thread} = 0..(N * m - 1)
      BY <3>1 DEF Thread
    <3> HIDE DEF Class
    <3> QED BY <3>2, <3>3
  <2>5. ASSUME NEW t \in Thread, NEW u \in Thread, t # u PROVE Terms(t) \cap Terms(u) = {}
    <3> SUFFICES ASSUME NEW x \in Terms(t), x \in Terms(u) PROVE FALSE
      OBVIOUS
    <3>1. PICK j \in 0..(m - 1) : x = t + N * j
      BY <2>3
    <3>2. PICK k \in 0..(m - 1) : x = u + N * k
      BY <2>3
    <3>3. j \in Nat /\ k \in Nat /\ t \in 0..(N - 1) /\ u \in 0..(N - 1)
      BY <2>2 DEF Thread
    <3>4. t + N * j = u + N * k
      BY <3>1, <3>2
    <3>5. t = u
      BY ONLY <2>1, <3>3, <3>4, ClassesApart
    <3> QED BY <2>5, <3>5
  <2> QED BY <2>2, <2>4, <2>5
<1> QED BY Invariance, <1>1, PTL

-----------------------------------------------------------------------------
(* 8.c comes to its end after the signal: the two parts of the argument    *)
(* that need no fairness.                                                  *)
CanMove8(t) ==
  \/ pc[t] \in {"dump", "decide"}
  \/ pc[t] = "lock" /\ iter_mutex = Nobody
  \/ pc[t] = "sum" /\ t < created /\ (sig_flag \/ iter[t] < MaxIter)

(* main creates, or joins the next one. *)
MainCanMove8 == created < N \/ (joined < N /\ Stopped(joined))

NobodyStuck8 == sig_flag => joined = N \/ MainCanMove8 \/ \E t \in Thread : CanMove8(t)

(* With the signal there, main's end is near, or somebody can go on: no    *)
(* thread waits for a mutex that is never unlocked.                        *)
THEOREM NoDeadlock8 == SafeSpec => []NobodyStuck8
<1>1. IInv => NobodyStuck8
  <2> SUFFICES ASSUME IInv, sig_flag, joined # N, ~ MainCanMove8, \A t \in Thread : ~ CanMove8(t)
               PROVE  FALSE
    BY DEF NobodyStuck8
  <2> USE PiAssumption DEF IInv, TypeOK, Thread, Nobody
  <2>1. created = N /\ joined \in Thread /\ pc[joined] # "stopped"
    BY DEF MainCanMove8, Stopped
  <2>2. pc[joined] = "lock" /\ iter_mutex \in Thread
    BY <2>1 DEF CanMove8
  <2>3. pc[iter_mutex] \in {"dump", "decide"}
    BY <2>2 DEF Progress
  <2> QED BY <2>2, <2>3 DEF CanMove8
<1> QED BY Invariance, <1>1, PTL

(* The steps a thread has before it, and those of main.                    *)
Place(p) == CASE p = "sum" -> 4 [] p = "lock" -> 3 [] p = "dump" -> 2 [] p = "decide" -> 1 [] OTHER -> 0

Left(t) == 4 * (farthest_iter - iter[t]) + Place(pc[t])

LeftForMain == (N - created) + (N - joined)

(* After the signal the farthest iteration is fixed, whoever has seen it,  *)
(* and each step is one step less, of a thread or of main: so there are    *)
(* only so many of them.                                                   *)
Countdown ==
  [][sig_flag =>
       /\ farthest_iter' = farthest_iter
       /\ LeftForMain \in Nat /\ \A t \in Thread : Left(t) \in Nat
       /\ LeftForMain' <= LeftForMain /\ \A t \in Thread : Left(t)' <= Left(t)
       /\ LeftForMain' < LeftForMain \/ \E t \in Thread : Left(t)' < Left(t)]_vars

THEOREM CountsDown == SafeSpec => Countdown
<1> DEFINE A == /\ farthest_iter' = farthest_iter
                /\ LeftForMain \in Nat /\ \A t \in Thread : Left(t) \in Nat
                /\ LeftForMain' <= LeftForMain /\ \A t \in Thread : Left(t)' <= Left(t)
                /\ LeftForMain' < LeftForMain \/ \E t \in Thread : Left(t)' < Left(t)
<1>1. ASSUME IInv, Next, sig_flag PROVE A
  <2> USE <1>1, PiAssumption DEF IInv, TypeOK
  <2>1. \A p \in {"sum", "lock", "dump", "decide", "stopped"} : Place(p) \in 0..4
    BY DEF Place
  <2>2. LeftForMain \in Nat /\ \A t \in Thread : Left(t) \in Nat
    BY <2>1 DEF LeftForMain, Left, Progress
  <2>3. CASE Create \/ Join
    <3>1. UNCHANGED <<farthest_iter, pc, iter>>
      BY <2>3 DEF Create, Join, threadVars
    <3>2. LeftForMain' = LeftForMain - 1
      <4>1. CASE Create
        BY <4>1 DEF Create, MoreToCreate, LeftForMain
      <4>2. CASE Join
        BY <4>2 DEF Join, LeftForMain
      <4> QED BY <2>3, <4>1, <4>2
    <3>3. \A t \in Thread : Left(t)' = Left(t)
      BY <3>1 DEF Left
    <3> QED BY ONLY <2>2, <3>1, <3>2, <3>3
  <2>4. ASSUME NEW t \in Thread, Work(t) PROVE A
    <3>1. LeftForMain' = LeftForMain
      BY <2>4 DEF Work, Sum, Lock, Dump, Decide, LeftForMain
    <3>2. /\ \A u \in Thread \ {t} : pc'[u] = pc[u] /\ iter'[u] = iter[u]
          /\ farthest_iter' = farthest_iter
          /\ \/ iter'[t] = iter[t] /\ Place(pc'[t]) < Place(pc[t])
             \/ iter'[t] = iter[t] + 1 /\ pc[t] = "decide" /\ pc'[t] = "sum"
      <4>1. CASE Sum(t)
        BY <4>1 DEF Sum, Place
      <4>2. CASE Lock(t)
        BY <4>2 DEF Lock, Place
      <4>3. CASE Dump(t)
        BY <4>3 DEF Dump, Place
      <4>4. CASE Decide(t) /\ MayStop(t)
        BY <4>4 DEF Decide, Place
      <4>5. CASE Decide(t) /\ ~ MayStop(t)
        <5>1. iter[t] < farthest_iter
          BY <4>5 DEF MayStop, Progress
        <5> QED BY <4>5, <5>1 DEF Decide, Farthest
      <4> QED BY <2>4, <4>1, <4>2, <4>3, <4>4, <4>5 DEF Work
    <3>3. \A u \in Thread \ {t} : Left(u)' = Left(u)
      BY <3>2 DEF Left
    <3>4. Left(t)' < Left(t) /\ Left(t)' \in Int
      <4>1. CASE iter'[t] = iter[t] /\ Place(pc'[t]) < Place(pc[t])
        <5>1. pc'[t] \in {"sum", "lock", "dump", "decide", "stopped"}
          BY <2>4 DEF Work, Sum, Lock, Dump, Decide
        <5> QED BY <2>1, <3>2, <4>1, <5>1 DEF Left
      <4>2. CASE iter'[t] = iter[t] + 1 /\ pc[t] = "decide" /\ pc'[t] = "sum"
        BY <3>2, <4>2 DEF Left, Place
      <4> QED BY <3>2, <4>1, <4>2
    <3> HIDE DEF Left
    <3> QED BY ONLY <2>2, <3>1, <3>2, <3>3, <3>4, t \in Thread
  <2>5. ~ Signal
    BY DEF Signal
  <2> QED BY <2>3, <2>4, <2>5 DEF Next, Main
<1>2. IInv /\ [Next]_vars => [sig_flag => A]_vars
  BY <1>1
<1> QED BY Invariance, <1>2, PTL DEF SafeSpec, Countdown

-----------------------------------------------------------------------------
(* 14.c *)

(* The post is with w, who keeps it when it fails. *)
Busy14(w) == pc14[w] \in {"write", "post", "failed"}

(* One post, in one place; it does not get lost. *)
OneSem14 == /\ sem14["parent"] + sem14["child"] <= 1
            /\ sem14["parent"] + sem14["child"] = 1 \/ Busy14("parent") \/ Busy14("child")
            /\ \A w \in Lab14!Writer : Busy14(w) => sem14["parent"] + sem14["child"] = 0
            /\ ~ (Busy14("parent") /\ Busy14("child"))

(* The lines of a thread are those of the turns it has finished, and the   *)
(* one before its sem_post.                                                *)
Counted14 == \A w \in Lab14!Writer :
  /\ written14[w] = IF pc14[w] = "post" THEN i14[w] + 1 ELSE i14[w]
  /\ pc14[w] \in {"wait", "write", "post"} => i14[w] < Count
  /\ pc14[w] = "done" => i14[w] = Count

(* Where the post is tells whose turn it is. *)
ParentsTurn14 ==
  sem14["parent"] > 0 \/ pc14["parent"] = "write" \/ pc14["child"] = "post"
    => written14["parent"] = written14["child"]

ChildsTurn14 ==
  sem14["child"] > 0 \/ pc14["child"] = "write" \/ pc14["parent"] = "post"
    => written14["parent"] = written14["child"] + 1

Joined14 == joined14 => pc14["parent"] = "done" /\ pc14["child"] \in {"done", "failed"}

(* Before the child is created. *)
Begun14 == /\ pc14["parent"] = "create" \/ pc14["child"] = "none" => i14 = [w \in Lab14!Writer |-> 0]
           /\ pc14["parent"] = "create" <=> pc14["child"] = "none"
           /\ pc14["child"] # "create" /\ pc14["parent"] # "none"

Inv14 == Lab14!TypeOK /\ OneSem14 /\ Counted14 /\ ParentsTurn14 /\ ChildsTurn14 /\ Joined14 /\ Begun14

LEMMA Init14 == Lab14!Init => Inv14
<1> SUFFICES ASSUME Lab14!Init PROVE Inv14
  OBVIOUS
<1> USE CountAssumption DEF Lab14!Init, Lab14!Writer
<1>1. sem14["parent"] = 1 /\ sem14["child"] = 0
  BY DEF Lab14!Initially
<1>2. Lab14!TypeOK
  <2>1. sem14 \in [Lab14!Writer -> Nat]
    BY DEF Lab14!Initially
  <2>2. pc14 \in [Lab14!Writer -> {"create", "none"}]
    OBVIOUS
  <2>3. i14 \in [Lab14!Writer -> 0..Count] /\ written14 \in [Lab14!Writer -> 0..Count]
    OBVIOUS
  <2> QED
    BY <2>1, <2>2, <2>3 DEF Lab14!TypeOK
<1>3. OneSem14
  BY <1>1 DEF OneSem14, Busy14
<1>4. Counted14
  BY DEF Counted14
<1>5. ParentsTurn14 /\ ChildsTurn14
  BY <1>1 DEF ParentsTurn14, ChildsTurn14
<1>6. Joined14 /\ Begun14
  BY DEF Joined14, Begun14
<1> QED
  BY <1>2, <1>3, <1>4, <1>5, <1>6 DEF Inv14

LEMMA Step14 == Inv14 /\ [Lab14!Next]_vars14 => Inv14'
<1> SUFFICES ASSUME Inv14, [Lab14!Next]_vars14 PROVE Inv14'
  OBVIOUS
<1> USE CountAssumption DEF Inv14, Lab14!TypeOK
<1>1. CASE Lab14!Create
  <2>1. Lab14!TypeOK'
    BY <1>1 DEF Lab14!Create, Lab14!Writer
  <2>2. OneSem14'
    BY <1>1 DEF Lab14!Create, Begun14, OneSem14, Busy14, Lab14!Writer
  <2>3. pc14' = [w \in Lab14!Writer |-> "wait"] /\ i14 = [w \in Lab14!Writer |-> 0]
    BY <1>1 DEF Lab14!Create, Begun14
  <2>4. Counted14'
    BY <1>1, <2>3 DEF Lab14!Create, Counted14, Begun14, Lab14!Writer
  <2>5. (ParentsTurn14 /\ ChildsTurn14)'
    BY <1>1, <2>3 DEF Lab14!Create, OneSem14, Busy14, Counted14, ParentsTurn14, ChildsTurn14, Begun14, Lab14!Writer
  <2>6. (Joined14 /\ Begun14)'
    BY <1>1, <2>3 DEF Lab14!Create, Joined14, Begun14, Lab14!Writer
  <2> QED
    BY <2>1, <2>2, <2>4, <2>5, <2>6
<1>2. CASE Lab14!Join
  BY <1>2 DEF Lab14!Join, OneSem14, Busy14, Counted14, ParentsTurn14, ChildsTurn14, Joined14, Begun14, Lab14!Writer
<1>3. ASSUME NEW w \in Lab14!Writer, Lab14!Wait(w) PROVE Inv14'
  <2>1. Lab14!TypeOK'
    BY <1>3 DEF Lab14!Wait, Lab14!Writer
  <2>2. OneSem14'
    BY <1>3 DEF Lab14!Wait, OneSem14, Busy14, Lab14!Writer
  <2>3. Counted14'
    BY <1>3 DEF Lab14!Wait, Counted14, Lab14!Writer
  <2>4. (ParentsTurn14 /\ ChildsTurn14)'
    BY <1>3 DEF Lab14!Wait, OneSem14, Busy14, ParentsTurn14, ChildsTurn14, Lab14!Writer
  <2>5. (Joined14 /\ Begun14)'
    BY <1>3 DEF Lab14!Wait, Joined14, Begun14, Lab14!Writer
  <2> QED
    BY <2>1, <2>2, <2>3, <2>4, <2>5
<1>4. ASSUME NEW w \in Lab14!Writer, Lab14!Write(w) PROVE Inv14'
  <2>1. Lab14!TypeOK'
    BY <1>4 DEF Lab14!Write, Counted14, Lab14!Writer
  <2>2. OneSem14'
    BY <1>4 DEF Lab14!Write, OneSem14, Busy14, Lab14!Writer
  <2>3. Counted14'
    BY <1>4 DEF Lab14!Write, Counted14, Lab14!Writer
  <2>4. (ParentsTurn14 /\ ChildsTurn14)'
    BY <1>4 DEF Lab14!Write, OneSem14, Busy14, ParentsTurn14, ChildsTurn14, Lab14!Writer
  <2>5. (Joined14 /\ Begun14)'
    BY <1>4 DEF Lab14!Write, Joined14, Begun14, Lab14!Writer
  <2> QED
    BY <2>1, <2>2, <2>3, <2>4, <2>5
<1>5. ASSUME NEW w \in Lab14!Writer, Lab14!WriteFails(w) PROVE Inv14'
  <2>1. Lab14!TypeOK'
    BY <1>5 DEF Lab14!WriteFails, Lab14!Writer
  <2>2. OneSem14'
    BY <1>5 DEF Lab14!WriteFails, OneSem14, Busy14, Lab14!Writer
  <2>3. Counted14'
    BY <1>5 DEF Lab14!WriteFails, Counted14, Lab14!Writer
  <2>4. (ParentsTurn14 /\ ChildsTurn14)'
    BY <1>5 DEF Lab14!WriteFails, ParentsTurn14, ChildsTurn14, Lab14!Writer
  <2>5. (Joined14 /\ Begun14)'
    BY <1>5 DEF Lab14!WriteFails, Joined14, Begun14, Lab14!Writer
  <2> QED
    BY <2>1, <2>2, <2>3, <2>4, <2>5
<1>6. ASSUME NEW w \in Lab14!Writer, Lab14!Post(w) PROVE Inv14'
  <2>1. Lab14!TypeOK'
    BY <1>6 DEF Lab14!Post, Counted14, Lab14!OtherSem, Lab14!Again, Lab14!Writer
  <2>2. OneSem14'
    BY <1>6 DEF Lab14!Post, Lab14!OtherSem, Lab14!Again, OneSem14, Busy14, Lab14!Writer
  <2>3. Counted14'
    BY <1>6 DEF Lab14!Post, Lab14!OtherSem, Lab14!Again, Counted14, Lab14!Writer
  <2>4. (ParentsTurn14 /\ ChildsTurn14)'
    BY <1>6 DEF Lab14!Post, Lab14!OtherSem, Lab14!Again, OneSem14, Busy14, ParentsTurn14, ChildsTurn14, Lab14!Writer
  <2>5. (Joined14 /\ Begun14)'
    BY <1>6 DEF Lab14!Post, Lab14!Again, Joined14, Begun14, Lab14!Writer
  <2> QED
    BY <2>1, <2>2, <2>3, <2>4, <2>5
<1>7. CASE UNCHANGED vars14
  BY <1>7 DEF vars14, OneSem14, Busy14, Counted14, ParentsTurn14, ChildsTurn14, Joined14, Begun14
<1> QED
  BY <1>1, <1>2, <1>3, <1>4, <1>5, <1>6, <1>7 DEF Lab14!Next

(* The strengthened invariant holds throughout. *)
THEOREM Invariance14 == Lab14!SafeSpec => []Inv14
BY Init14, Step14, PTL DEF Lab14!SafeSpec, Lab14!vars, vars14

(* The variables keep their types: no counter runs past Count. *)
THEOREM TypeCorrect14 == Lab14!SafeSpec => []Lab14!TypeOK
<1>1. Inv14 => Lab14!TypeOK
  BY DEF Inv14
<1> QED
  BY <1>1, Invariance14, PTL

(* When main is past pthread_join, all lines are out but one that failed.  *)
THEOREM JoinedComplete == Lab14!SafeSpec => []Lab14!JoinedAtTheEnd
<1>1. Inv14 => Lab14!JoinedAtTheEnd
  BY DEF Inv14, Lab14!TypeOK, Joined14, Counted14, Lab14!JoinedAtTheEnd, Lab14!Failed, Lab14!Writer
<1> QED
  BY <1>1, Invariance14, PTL

(* The steps of 14.c are those of Alternation. *)
LEMMA Refine14 ==
  /\ Lab14!Init => Lab14!Abstract!Init
  /\ Inv14 /\ [Lab14!Next]_vars14 => [Lab14!Abstract!Next]_<<written14, Lab14!Failed>>
<1>1. Lab14!Init => Lab14!Abstract!Init
  BY DEF Lab14!Init, Lab14!Failed, Lab14!Abstract!Init, Lab14!Abstract!Writer, Lab14!Writer
<1>2. Inv14 /\ [Lab14!Next]_vars14 => [Lab14!Abstract!Next]_<<written14, Lab14!Failed>>
  <2> SUFFICES ASSUME Inv14, [Lab14!Next]_vars14 PROVE [Lab14!Abstract!Next]_<<written14, Lab14!Failed>>
    OBVIOUS
  <2> USE DEF Inv14, Lab14!TypeOK
  <2>1. CASE Lab14!Create
    <3>1. \A w \in Lab14!Writer : pc14[w] # "failed" /\ pc14'[w] # "failed"
      BY <2>1 DEF Lab14!Create, Begun14, Lab14!Writer
    <3> QED BY <2>1, <3>1 DEF Lab14!Create, Lab14!Failed
  <2>2. CASE Lab14!Join
    BY <2>2 DEF Lab14!Join, Lab14!Failed
  <2>3. ASSUME NEW w \in Lab14!Writer, Lab14!Wait(w) PROVE UNCHANGED <<written14, Lab14!Failed>>
    BY <2>3 DEF Lab14!Wait, Lab14!Failed
  <2>4. ASSUME NEW w \in Lab14!Writer, Lab14!Write(w) PROVE Lab14!Abstract!WriteLine(w)
    <3>1. w = Lab14!Abstract!Turn
      BY <2>4 DEF Lab14!Write, ParentsTurn14, ChildsTurn14, Lab14!Abstract!Turn, Lab14!Writer
    <3>2. w \notin Lab14!Failed /\ UNCHANGED Lab14!Failed
      BY <2>4 DEF Lab14!Write, Lab14!Failed
    <3>3. written14[w] < Count
      BY <2>4 DEF Lab14!Write, Counted14
    <3> QED
      BY <2>4, <3>1, <3>2, <3>3 DEF Lab14!Write, Lab14!Abstract!WriteLine
  <2>5. ASSUME NEW w \in Lab14!Writer, Lab14!WriteFails(w) PROVE Lab14!Abstract!Stop(w)
    BY <2>5 DEF Lab14!WriteFails, Lab14!Failed, Lab14!Abstract!Stop
  <2>6. ASSUME NEW w \in Lab14!Writer, Lab14!Post(w) PROVE UNCHANGED <<written14, Lab14!Failed>>
    BY <2>6 DEF Lab14!Post, Lab14!Failed
  <2>7. CASE UNCHANGED vars14
    BY <2>7 DEF vars14, Lab14!Failed
  <2> QED
    BY <2>1, <2>2, <2>3, <2>4, <2>5, <2>6, <2>7 DEF Lab14!Next, Lab14!Abstract!Next, Lab14!Abstract!Writer, Lab14!Writer
<1> QED BY <1>1, <1>2

(* The threads implement the alternation: parent first, then in turns,     *)
(* Count lines each, and nobody after it has failed.                       *)
THEOREM TakesTurns == Lab14!SafeSpec => Lab14!AlternationSafe
BY Refine14, Invariance14, PTL DEF Lab14!SafeSpec, Lab14!vars, vars14, Lab14!AlternationSafe, Lab14!Abstract!SafeSpec

-----------------------------------------------------------------------------
(* 11.c *)

(* The mutexes a thread holds at its place. *)
Has11(w) ==
  CASE pc11[w] \in {"none", "start", "done"} -> {}
    [] pc11[w] = "retry" -> {cur_mutex[w], 2}
    [] pc11[w] \in {"write", "unlock", "failed"} -> {cur_mutex[w], Lab11!Next_mutex(w)}
    [] OTHER -> {cur_mutex[w]}

Held11 == \A m \in Lab11!Mutex, w \in Writer : mutex[m] = w <=> m \in Has11(w)

(* Before the child holds number 2. *)
Handshake11 ==
  /\ pc11["parent"] \notin {"none", "start"} /\ pc11["child"] \notin {"create", "trylock", "retry"}
  /\ pc11["parent"] = "create" <=> pc11["child"] = "none"
  /\ pc11["child"] \in {"none", "start"} =>
       pc11["parent"] \in {"create", "trylock", "retry"} /\ i11["child"] = 0
  /\ pc11["parent"] \in {"create", "trylock", "retry"} =>
       /\ pc11["child"] \in {"none", "start", "lock"} /\ i11 = [w \in Writer |-> 0]
       /\ cur_mutex["parent"] = 0

(* The lines of a thread are those of the turns it has finished. *)
Counted11 == \A w \in Writer :
  /\ written11[w] = IF pc11[w] = "unlock" THEN i11[w] + 1 ELSE i11[w]
  /\ pc11[w] \in {"lock", "write", "unlock"} => i11[w] < Count
  /\ pc11[w] \in {"last", "done"} => i11[w] = Count

(* The two go around the ring, the child one or two places ahead. *)
Ring11 ==
  pc11["child"] \notin {"none", "start"} =>
    \/ i11["parent"] = i11["child"] /\ cur_mutex["child"] = (cur_mutex["parent"] + 2) % 3
    \/ i11["parent"] = i11["child"] + 1 /\ cur_mutex["child"] = (cur_mutex["parent"] + 1) % 3

(* Past its lock a thread is the one whose turn it is. *)
Turns11 ==
  /\ pc11["parent"] \in {"write", "unlock", "failed"} => i11["parent"] = i11["child"]
  /\ pc11["child"] \in {"write", "unlock", "failed"} => i11["parent"] = i11["child"] + 1

(* The inductive invariant of 11.c *)
Inv11 ==
  /\ Lab11!TypeOK /\ Lab11!NoMutexError
  /\ Held11 /\ Handshake11 /\ Counted11 /\ Ring11 /\ Turns11

(* The three mutexes, one after the other. *)
LEMMA Ring ==
  /\ Lab11!Mutex = {0, 1, 2}
  /\ \A w \in Writer : cur_mutex[w] = 0 => Lab11!Next_mutex(w) = 1
  /\ \A w \in Writer : cur_mutex[w] = 1 => Lab11!Next_mutex(w) = 2
  /\ \A w \in Writer : cur_mutex[w] = 2 => Lab11!Next_mutex(w) = 0
  /\ (0 + 1) % 3 = 1 /\ (1 + 1) % 3 = 2 /\ (2 + 1) % 3 = 0
  /\ (0 + 2) % 3 = 2 /\ (1 + 2) % 3 = 0 /\ (2 + 2) % 3 = 1
<1>1. (0 + 1) % 3 = 1 /\ (1 + 1) % 3 = 2 /\ (2 + 1) % 3 = 0
  OBVIOUS
<1>2. (0 + 2) % 3 = 2 /\ (1 + 2) % 3 = 0 /\ (2 + 2) % 3 = 1
  OBVIOUS
<1> QED BY <1>1, <1>2 DEF Lab11!Mutex, Lab11!MUTEXES, Lab11!Next_mutex

LEMMA Init11 == Lab11!Init => Inv11
<1> SUFFICES ASSUME Lab11!Init PROVE Inv11
  OBVIOUS
<1> USE CountAssumption, Ring DEF Lab11!Init, Lab11!Writer, Writer, Lab11!Nobody
<1>1. Lab11!TypeOK
  BY DEF Lab11!TypeOK
<1>2. Lab11!NoMutexError /\ Handshake11 /\ Counted11 /\ Ring11 /\ Turns11
  BY DEF Lab11!NoMutexError, Handshake11, Counted11, Ring11, Turns11
<1>3. Held11
  BY DEF Held11, Has11
<1> QED BY <1>1, <1>2, <1>3 DEF Inv11

LEMMA Step11 == Inv11 /\ [Lab11!Next]_vars11 => Inv11'
<1> SUFFICES ASSUME Inv11, [Lab11!Next]_vars11 PROVE Inv11'
  OBVIOUS
<1> USE CountAssumption, Ring DEF Inv11, Lab11!Writer, Writer, Lab11!Nobody, Lab11!TypeOK, Lab11!Goto
<1>1. CASE Lab11!Create
  <2> USE <1>1 DEF Lab11!Create
  <2>1. Lab11!TypeOK'
    OBVIOUS
  <2>2. (Lab11!NoMutexError /\ Handshake11 /\ Counted11 /\ Ring11 /\ Turns11)'
    BY DEF Lab11!NoMutexError, Handshake11, Counted11, Ring11, Turns11
  <2>3. Held11'
    BY DEF Held11, Has11, Handshake11
  <2> QED BY <2>1, <2>2, <2>3
<1>2. CASE Lab11!TryLock
  <2> USE <1>2 DEF Lab11!TryLock, Lab11!Busy
  <2>1. Lab11!TypeOK'
    OBVIOUS
  <2>2. pc11["child"] \notin {"none", "start"} => mutex[2] # "nobody"
    BY DEF Held11, Has11, Handshake11, Ring11
  <2>3. (Lab11!NoMutexError /\ Handshake11 /\ Counted11 /\ Ring11 /\ Turns11)'
    BY DEF Lab11!NoMutexError, Handshake11, Counted11, Ring11, Turns11, Held11, Has11
  <2>4. Held11'
    BY DEF Held11, Has11, Handshake11
  <2> QED BY <2>1, <2>3, <2>4
<1>3. CASE Lab11!Retry
  <2> USE <1>3 DEF Lab11!Retry
  <2>1. Lab11!TypeOK'
    OBVIOUS
  <2>2. (Lab11!NoMutexError /\ Handshake11 /\ Counted11 /\ Ring11 /\ Turns11)'
    BY DEF Lab11!NoMutexError, Handshake11, Counted11, Ring11, Turns11
  <2>3. Held11'
    BY DEF Held11, Has11, Handshake11
  <2> QED BY <2>1, <2>2, <2>3
<1>4. CASE Lab11!ChildStart
  <2> USE <1>4 DEF Lab11!ChildStart
  <2>1. Lab11!TypeOK'
    OBVIOUS
  <2>2. (Lab11!NoMutexError /\ Handshake11 /\ Counted11 /\ Ring11 /\ Turns11)'
    BY DEF Lab11!NoMutexError, Handshake11, Counted11, Ring11, Turns11, Held11, Has11
  <2>3. Held11'
    BY DEF Held11, Has11, Handshake11
  <2> QED BY <2>1, <2>2, <2>3
<1>5. ASSUME NEW w \in Writer, Lab11!Lock(w) PROVE Inv11'
  <2> USE <1>5 DEF Lab11!Lock
  <2>1. Lab11!TypeOK'
    OBVIOUS
  <2>2. mutex[Lab11!Next_mutex(w)] = "nobody"
    BY DEF Held11, Has11
  <2>3. (Lab11!NoMutexError /\ Counted11 /\ Ring11)'
    BY <2>2 DEF Lab11!NoMutexError, Handshake11, Counted11, Ring11
  <2>4. Held11'
    <3> DEFINE m == Lab11!Next_mutex(w)
    <3>1. m \in Lab11!Mutex /\ m # cur_mutex[w]
      OBVIOUS
    <3>2. Lab11!Next_mutex(w)' = m /\ mutex' = [mutex EXCEPT ![m] = w] /\ mutex[m] = "nobody"
      BY <2>2 DEF Lab11!Next_mutex
    <3>3. Has11(w)' = Has11(w) \cup {m}
      BY <3>2 DEF Has11
    <3>4. \A v \in Writer \ {w} : Has11(v)' = Has11(v)
      BY DEF Has11, Lab11!Next_mutex
    <3> HIDE DEF m
    <3> QED BY <3>1, <3>2, <3>3, <3>4 DEF Held11
  <2>5. Turns11'
    BY <2>2 DEF Held11, Has11, Handshake11, Counted11, Ring11, Turns11
  <2>6. Handshake11'
    BY <2>2 DEF Held11, Has11, Handshake11, Ring11
  <2> QED BY <2>1, <2>3, <2>4, <2>5, <2>6
<1>6. ASSUME NEW w \in Writer, Lab11!Write(w) \/ Lab11!WriteFails(w) PROVE Inv11'
  <2> USE <1>6 DEF Lab11!Write, Lab11!WriteFails
  <2>1. Lab11!TypeOK'
    BY DEF Counted11
  <2>2. (Lab11!NoMutexError /\ Handshake11 /\ Counted11 /\ Ring11 /\ Turns11)'
    BY DEF Lab11!NoMutexError, Handshake11, Counted11, Ring11, Turns11
  <2>3. Held11'
    <3>1. \A v \in Writer : Has11(v)' = Has11(v)
      BY DEF Has11, Lab11!Next_mutex
    <3> QED BY <3>1 DEF Held11
  <2> QED BY <2>1, <2>2, <2>3
<1>7. ASSUME NEW w \in Writer, Lab11!Unlock(w) PROVE Inv11'
  <2> USE <1>7 DEF Lab11!Unlock, Lab11!Passed, Lab11!Again
  <2>1. mutex[cur_mutex[w]] = w
    BY DEF Held11, Has11
  <2>2. Lab11!TypeOK'
    BY <2>1 DEF Counted11
  <2>3. (Lab11!NoMutexError /\ Handshake11 /\ Counted11 /\ Turns11)'
    BY <2>1 DEF Lab11!NoMutexError, Handshake11, Counted11, Turns11
  <2>4. Held11'
    <3>1. Has11(w)' = Has11(w) \ {cur_mutex[w]}
      BY <2>1 DEF Has11
    <3>2. \A v \in Writer \ {w} : Has11(v)' = Has11(v)
      BY <2>1 DEF Has11, Lab11!Next_mutex
    <3> QED BY <2>1, <3>1, <3>2 DEF Held11
  <2>5. Ring11'
    BY <2>1 DEF Handshake11, Counted11, Ring11, Turns11
  <2> QED BY <2>2, <2>3, <2>4, <2>5
<1>8. ASSUME NEW w \in Writer, Lab11!LastUnlock(w) PROVE Inv11'
  <2> USE <1>8 DEF Lab11!LastUnlock
  <2>1. mutex[cur_mutex[w]] = w
    BY DEF Held11, Has11
  <2>2. Lab11!TypeOK'
    BY <2>1
  <2>3. (Lab11!NoMutexError /\ Handshake11 /\ Counted11 /\ Ring11 /\ Turns11)'
    BY <2>1 DEF Lab11!NoMutexError, Handshake11, Counted11, Ring11, Turns11
  <2>4. Held11'
    <3>1. Has11(w)' = Has11(w) \ {cur_mutex[w]}
      BY <2>1 DEF Has11
    <3>2. \A v \in Writer \ {w} : Has11(v)' = Has11(v)
      BY <2>1 DEF Has11, Lab11!Next_mutex
    <3> QED BY <2>1, <3>1, <3>2 DEF Held11
  <2> QED BY <2>2, <2>3, <2>4
<1>9. CASE UNCHANGED vars11
  BY <1>9 DEF vars11, Lab11!NoMutexError, Held11, Has11, Handshake11, Counted11, Ring11, Turns11, Lab11!Next_mutex
<1> QED BY <1>1, <1>2, <1>3, <1>4, <1>5, <1>6, <1>7, <1>8, <1>9 DEF Lab11!Next, Lab11!Start, Lab11!Body

(* The steps of 11.c are those of Alternation. *)
LEMMA Refine11 ==
  /\ Lab11!Init => Lab11!Abstract!Init
  /\ Inv11 /\ [Lab11!Next]_vars11 =>
       [Lab11!Abstract!Next]_<<written11, {w \in Writer : pc11[w] \in {"failed", "error"}}>>
<1>1. Lab11!Init => Lab11!Abstract!Init
  BY DEF Lab11!Init, Lab11!Abstract!Init, Lab11!Abstract!Writer, Lab11!Writer
<1>2. ASSUME Inv11, [Lab11!Next]_vars11
      PROVE  [Lab11!Abstract!Next]_<<written11, {w \in Writer : pc11[w] \in {"failed", "error"}}>>
  <2> DEFINE stopped == {w \in Writer : pc11[w] \in {"failed", "error"}}
  <2> USE <1>2, CountAssumption DEF Inv11, Lab11!TypeOK, Lab11!Writer, Writer, Lab11!Goto
  <2>1. CASE Lab11!Create \/ Lab11!TryLock \/ Lab11!Retry \/ Lab11!ChildStart
    <3>1. UNCHANGED <<written11, stopped>>
      BY <2>1 DEF Lab11!Create, Lab11!TryLock, Lab11!Retry, Lab11!ChildStart, Handshake11
    <3> QED BY <3>1
  <2>2. ASSUME NEW w \in Writer, Lab11!Lock(w) \/ Lab11!Unlock(w) \/ Lab11!LastUnlock(w)
        PROVE  UNCHANGED <<written11, stopped>>
    <3>1. pc11'[w] # "error"
      BY <2>2, Step11 DEF Lab11!NoMutexError
    <3> QED BY <2>2, <3>1 DEF Lab11!Lock, Lab11!Unlock, Lab11!LastUnlock
  <2>3. ASSUME NEW w \in Writer, Lab11!Write(w) PROVE Lab11!Abstract!WriteLine(w)
    <3>1. w = Lab11!Abstract!Turn
      BY <2>3 DEF Lab11!Write, Counted11, Turns11, Handshake11, Lab11!Abstract!Turn
    <3>2. w \notin stopped /\ UNCHANGED stopped
      BY <2>3 DEF Lab11!Write
    <3>3. written11[w] < Count
      BY <2>3 DEF Lab11!Write, Counted11
    <3> QED BY <2>3, <3>1, <3>2, <3>3 DEF Lab11!Write, Lab11!Abstract!WriteLine
  <2>4. ASSUME NEW w \in Writer, Lab11!WriteFails(w) PROVE Lab11!Abstract!Stop(w)
    BY <2>4 DEF Lab11!WriteFails, Lab11!Abstract!Stop
  <2>5. CASE UNCHANGED vars11
    BY <2>5 DEF vars11
  <2> QED
    BY <2>1, <2>2, <2>3, <2>4, <2>5
       DEF Lab11!Next, Lab11!Start, Lab11!Body, Lab11!Abstract!Next, Lab11!Abstract!Writer
<1> QED BY <1>1, <1>2

-----------------------------------------------------------------------------
(* 16.c *)

(* How many of its two names a process has opened. *)
Opened16(w) ==
  (IF sem16[w]["parent"] = Lab16!None THEN 0 ELSE 1) + (IF sem16[w]["child"] = Lab16!None THEN 0 ELSE 1)

(* sem_open never makes more semaphores than there is room for, a name     *)
(* and a process agree on which kind a semaphore is, and a process waits   *)
(* only when it has both.                                                  *)
Made16 ==
  /\ made <= 4 * (run - 1) + Opened16("parent") + Opened16("child")
  /\ \A n \in Writer : link[n] <= made /\ \A w \in Writer : sem16[w][n] <= made
  /\ \A m, n \in Writer : m # n =>
       /\ link[m] = link[n] => link[m] = Lab16!None
       /\ \A w \in Writer : sem16[w][m] = link[n] => link[n] = Lab16!None
       /\ \A w, v \in Writer : sem16[w][m] = sem16[v][n] => sem16[w][m] = Lab16!None
  /\ \A w \in Writer :
       /\ pc16[w] = "open1" => sem16[w]["parent"] = Lab16!None /\ sem16[w]["child"] = Lab16!None
       /\ pc16[w] = "open2" => sem16[w]["parent"] # Lab16!None /\ sem16[w]["child"] = Lab16!None
       /\ pc16[w] \in {"wait", "write", "post"} => \A n \in Writer : sem16[w][n] # Lab16!None

(* The lines of the run are those of the turns that a process has finished. *)
Counted16 == \A w \in Writer :
  /\ pc16[w] \in {"open1", "open2"} => i16[w] = 0
  /\ pc16[w] \in {"open1", "open2", "wait", "write"} => written16[w] = i16[w] /\ i16[w] < Count
  /\ pc16[w] = "post" => written16[w] = i16[w] + 1 /\ i16[w] < Count
  /\ last = w => written16[w] > 0

(* The invariant that holds over kills and failures of every kind. *)
Inv16Types == Lab16!TypeOK /\ Made16 /\ Counted16

(* The posts that a sem_open of the name would find, by creating if need be. *)
Linked16(n) == IF link[n] = Lab16!None THEN Lab16!Initially(n) ELSE value[link[n]]
(* The posts that a process waits for, or will when it has opened its name. *)
Own16(w) == IF sem16[w][w] = Lab16!None THEN Linked16(w) ELSE value[sem16[w][w]]
(* A process between its sem_wait and its sem_post; and past its loop. *)
InHand16(w) == pc16[w] \in {"write", "post"}
Past16(w) == pc16[w] \in {"reap", "report", "free1", "free2", "ended", "killed"}
(* The turns that a process can still take, while it has not left its loop. *)
Posts16(w) == IF Past16(w) THEN 0 ELSE Own16(w) + IF InHand16(w) THEN 1 ELSE 0
(* The post that a process will put where the name of the other one leads. *)
Flying16(w) == IF InHand16(w) /\ sem16[w][Lab16!Other(w)] = link[Lab16!Other(w)] THEN 1 ELSE 0
Freeing16 == \E w \in Writer : pc16[w] = "free2"

(* Together the processes have at most one turn to take. *)
OnePost16 == Posts16("parent") + Posts16("child") <= 1

(* What the next run would find: at most one post, also when those on the  *)
(* way have arrived.  Between the two sem_unlinks the child's name does    *)
(* not count.                                                              *)
OneLinked16 ==
  /\ ~ Freeing16 => Linked16("parent") + Linked16("child") + Flying16("parent") + Flying16("child") <= 1
  /\ Freeing16 => Linked16("parent") + Flying16("child") <= 1

(* When the parent unlinks its names the child has no turn left. *)
ParentPast16 == pc16["parent"] \in {"free1", "free2", "ended"} => Posts16("child") = 0

(* The parent's semaphore has lost its name: the child has unlinked it,    *)
(* being done with its loop, and what the parent will still post does not  *)
(* count for the next run.                                                 *)
StaleParent16 ==
  pc16["parent"] \in {"open2", "wait", "write", "post"} /\ sem16["parent"]["parent"] # link["parent"] =>
    /\ pc16["child"] \in {"free2", "ended"}
    /\ pc16["child"] = "ended" => sem16["parent"]["child"] # link["child"] \/ Posts16("parent") = 0
    /\ pc16["parent"] = "open2" => Posts16("parent") = 0

(* The child's semaphore has lost its name only to a parent that has ended. *)
StaleChild16 ==
  pc16["child"] \in {"wait", "write", "post"} /\ sem16["child"]["child"] # link["child"] =>
    pc16["parent"] = "ended"

(* Before the parent has opened both names the child can have used up the  *)
(* post of a run before, but no more.                                      *)
Early16 ==
  /\ pc16["parent"] \in {"open1", "open2"} => i16["child"] = 0 \/ (i16["child"] = 1 /\ Posts16("child") = 0)
  /\ pc16["parent"] \in {"open1", "open2"} /\ pc16["child"] = "free1" => Posts16("parent") = 0
  /\ pc16["parent"] \in {"open1", "open2"} /\ pc16["child"] \in {"open2", "wait", "write", "post", "free1"} =>
       link["parent"] # Lab16!None

(* Who wrote the last line has posted since, or will, and has no post itself. *)
Last16 == \A w \in Writer :
  /\ pc16[w] = "post" => last = w
  /\ last = w /\ ~ Past16(w) => pc16[w] \in {"wait", "post"} /\ Own16(w) = 0

TurnsInv16 == /\ OnePost16 /\ OneLinked16 /\ ParentPast16 /\ StaleParent16 /\ StaleChild16 /\ Early16 /\ Last16

(* A kill between the two sem_unlinks can leave two posts; and with a      *)
(* single line each, nobody ever uses a second post.                       *)
Turns16 == ~ cut /\ Count > 1 => TurnsInv16

LEMMA InitTypes16 == Lab16!Init => Inv16Types
<1> SUFFICES ASSUME Lab16!Init PROVE Inv16Types
  OBVIOUS
<1> USE CountAssumption, RunsAssumption
    DEF Lab16!Init, Lab16!Writer, Lab16!Name, Writer, Lab16!Fresh, Lab16!Closed, Lab16!None, Lab16!Sem
<1>1. Lab16!TypeOK
  <2>1. sem16 \in [Writer -> [Writer -> Lab16!Sem \cup {0}]]
    OBVIOUS
  <2>2. link \in [Writer -> Lab16!Sem \cup {0}] /\ value \in [Lab16!Sem -> Nat]
    OBVIOUS
  <2>3. i16 \in [Writer -> 0..Count] /\ written16 \in [Writer -> 0..Count]
    OBVIOUS
  <2>4. made \in 0..(4 * MaxRuns) /\ run \in 1..MaxRuns
    OBVIOUS
  <2> QED BY <2>1, <2>2, <2>3, <2>4 DEF Lab16!TypeOK
<1>2. Made16
  BY DEF Made16, Opened16
<1>3. Counted16
  BY DEF Counted16
<1> QED BY <1>1, <1>2, <1>3 DEF Inv16Types

(* Semaphores are numbers up to the last one made. *)
LEMMA Numbers16 ==
  ASSUME Inv16Types
  PROVE  /\ made \in Nat
         /\ \A n \in Writer : link[n] \in Nat /\ link[n] <= made
         /\ \A w, n \in Writer : sem16[w][n] \in Nat /\ sem16[w][n] <= made
<1>1. \A k \in Lab16!Sem \cup {0} : k \in Nat
  BY RunsAssumption DEF Lab16!Sem
<1>2. made \in Nat
  BY RunsAssumption DEF Inv16Types, Lab16!TypeOK
<1>3. \A w, n \in Writer : link[n] \in Lab16!Sem \cup {0} /\ sem16[w][n] \in Lab16!Sem \cup {0}
  BY DEF Inv16Types, Lab16!TypeOK, Lab16!None, Lab16!Writer, Lab16!Name, Writer
<1> QED BY <1>1, <1>2, <1>3 DEF Inv16Types, Made16

(* What a sem_open does to the names, whether it creates or not. *)
LEMMA Opening16 ==
  ASSUME Inv16Types, NEW w \in Writer, NEW n \in Writer, NEW place, NEW next,
         Lab16!Open(w, n, place, next), sem16[w][n] = Lab16!None
  PROVE  /\ link'[n] \in Lab16!Sem /\ link' = [link EXCEPT ![n] = link'[n]] /\ link'[n] <= made'
         /\ made' \in 0..(4 * MaxRuns) /\ made <= made'
         /\ sem16'[w][n] = link'[n]
         /\ \A v, m \in Writer : v # w \/ m # n => sem16'[v][m] = sem16[v][m]
         /\ sem16' \in [Writer -> [Writer -> Lab16!Sem \cup {Lab16!None}]]
         /\ \/ link[n] # Lab16!None /\ UNCHANGED <<link, value, made>>
            \/ /\ link[n] = Lab16!None /\ link'[n] = made' /\ made' = made + 1
               /\ value' = [value EXCEPT ![made'] = Lab16!Initially(n)]
         /\ made' <= 4 * (run - 1) + Opened16("parent")' + Opened16("child")'
<1> USE RunsAssumption DEF Inv16Types, Lab16!TypeOK, Lab16!Name, Lab16!Writer, Lab16!None, Lab16!Sem
<1>1. Opened16("parent") \in 0..2 /\ Opened16("child") \in 0..2 /\ Opened16(w) \in 0..1
  BY DEF Opened16, Writer
<1>2. /\ run \in 1..MaxRuns /\ made \in 0..(4 * MaxRuns)
      /\ made <= 4 * (run - 1) + Opened16("parent") + Opened16("child")
  BY DEF Made16
<1>3. made < 4 * MaxRuns
  <2> HIDE DEF Inv16Types
  <2> QED BY <1>1, <1>2 DEF Writer
<1>4. link \in [Writer -> Lab16!Sem \cup {0}] /\ link[n] <= made
  <2>1. link \in [Writer -> Lab16!Sem \cup {0}]
    BY DEF Writer
  <2>2. link[n] <= made
    BY DEF Made16
  <2> QED BY <2>1, <2>2
<1>5. /\ link'[n] \in Lab16!Sem /\ link' = [link EXCEPT ![n] = link'[n]] /\ link'[n] <= made'
      /\ made' \in 0..(4 * MaxRuns) /\ made <= made'
      /\ \/ link[n] # Lab16!None /\ UNCHANGED <<link, value, made>>
         \/ /\ link[n] = Lab16!None /\ link'[n] = made' /\ made' = made + 1
            /\ value' = [value EXCEPT ![made'] = Lab16!Initially(n)]
  <2>1. CASE link[n] = 0
    <3>1. /\ made' = made + 1 /\ link' = [link EXCEPT ![n] = made + 1]
          /\ value' = [value EXCEPT ![made + 1] = Lab16!Initially(n)]
      BY <2>1 DEF Lab16!Open
    <3> HIDE DEF Inv16Types
    <3> QED BY <1>2, <1>3, <1>4, <2>1, <3>1
  <2>2. CASE link[n] # 0
    <3>1. UNCHANGED <<made, link, value>>
      BY <2>2 DEF Lab16!Open
    <3> HIDE DEF Inv16Types
    <3> QED BY <1>2, <1>4, <2>2, <3>1
  <2> QED BY <2>1, <2>2
<1>6. sem16' = [sem16 EXCEPT ![w][n] = link'[n]] /\ UNCHANGED run
  BY DEF Lab16!Open
<1>7. /\ sem16'[w][n] = link'[n]
      /\ \A v, m \in Writer : v # w \/ m # n => sem16'[v][m] = sem16[v][m]
      /\ sem16' \in [Writer -> [Writer -> Lab16!Sem \cup {Lab16!None}]]
  BY <1>5, <1>6 DEF Writer
<1>8. Opened16(w)' = Opened16(w) + 1 /\ \A v \in Writer \ {w} : Opened16(v)' = Opened16(v)
  <2>1. \A v \in Writer \ {w} : Opened16(v)' = Opened16(v)
    BY <1>7 DEF Opened16, Writer
  <2>2. sem16'[w][n] # 0 /\ sem16[w][n] = 0
    BY <1>5, <1>7
  <2>3. \A m \in Writer \ {n} : sem16'[w][m] = sem16[w][m]
    BY <1>7
  <2> HIDE DEF Inv16Types
  <2>4. Opened16(w)' = Opened16(w) + 1
    <3>1. CASE n = "parent"
      BY <2>2, <2>3, <3>1 DEF Opened16, Writer
    <3>2. CASE n = "child"
      BY <2>2, <2>3, <3>2 DEF Opened16, Writer
    <3> QED BY <3>1, <3>2 DEF Writer
  <2> QED BY <2>1, <2>4
<1>9. made' <= 4 * (run - 1) + Opened16("parent")' + Opened16("child")'
  <2>1. made' <= made + 1 /\ made' \in Nat
    BY <1>2, <1>5
  <2>2. Opened16("parent")' + Opened16("child")' = Opened16("parent") + Opened16("child") + 1
    <3> HIDE DEF Inv16Types
    <3> QED BY <1>1, <1>8 DEF Writer
  <2>3. 4 * (run - 1) \in Int /\ Opened16("parent")' \in Nat /\ Opened16("child")' \in Nat
    <3> HIDE DEF Inv16Types
    <3> QED BY <1>1, <1>2, <1>8 DEF Writer
  <2> HIDE DEF Inv16Types
  <2> QED BY <1>1, <1>2, <2>1, <2>2, <2>3
<1> QED BY <1>5, <1>7, <1>9

(* Every step of 16.c, also a kill and a restart, keeps that invariant. *)
LEMMA Step16Types == Inv16Types /\ [Lab16!Next]_vars16 => Inv16Types'
<1> SUFFICES ASSUME Inv16Types, [Lab16!Next]_vars16 PROVE Inv16Types'
  OBVIOUS
<1> USE RunsAssumption, CountAssumption DEF Lab16!Writer, Lab16!Name, Lab16!Goto, Lab16!None
<1>1. ASSUME NEW w \in Writer, NEW n \in Writer, sem16[w][n] = 0,
             \/ n = "parent" /\ pc16[w] = "open1" /\ Lab16!Open(w, n, "open1", "open2")
             \/ n = "child" /\ pc16[w] = "open2" /\ Lab16!Open(w, n, "open2", "wait")
      PROVE  Inv16Types'
  <2>1. PICK place, next : /\ Lab16!Open(w, n, place, next) /\ pc16[w] = place
                           /\ pc16' = [pc16 EXCEPT ![w] = next]
                           /\ \/ n = "parent" /\ place = "open1" /\ next = "open2"
                              \/ n = "child" /\ place = "open2" /\ next = "wait"
    BY <1>1 DEF Lab16!Open
  <2>2. UNCHANGED <<run, i16, written16, last, cut>>
    BY <2>1 DEF Lab16!Open
  <2> USE DEF Inv16Types
  <2>3. Lab16!TypeOK'
    BY <1>1, <2>1, <2>2, Opening16 DEF Lab16!TypeOK, Lab16!Initially, Writer
  <2>4. Made16'
    <3>1. /\ link'[n] \in Lab16!Sem /\ link' = [link EXCEPT ![n] = link'[n]] /\ link'[n] <= made' /\ made <= made'
          /\ made \in Nat /\ made' \in Nat
          /\ sem16'[w][n] = link'[n]
          /\ \A v, m \in Writer : v # w \/ m # n => sem16'[v][m] = sem16[v][m]
          /\ link[n] = link'[n] \/ (link'[n] = made' /\ made' = made + 1)
      BY <1>1, <2>1, Opening16 DEF Lab16!TypeOK
    <3>2. \A m \in Writer : m # n => link'[m] = link[m] /\ link[m] \in Nat /\ link[m] <= made
      <4> HIDE DEF Inv16Types
      <4>1. \A m \in Writer \ {n} : link'[m] = link[m]
        BY <3>1 DEF Inv16Types, Lab16!TypeOK, Writer
      <4> QED BY <4>1, Numbers16
    <3>3. \A v, m \in Writer : sem16[v][m] \in Nat /\ sem16[v][m] <= made
      BY Numbers16
    <3>4. link'[n] # 0 /\ link'[n] \in Nat
      BY <3>1 DEF Lab16!Sem
    <3>5. \A m \in Writer : link'[m] <= made' /\ \A v \in Writer : sem16'[v][m] <= made'
      <4> HIDE DEF Inv16Types
      <4> QED BY <3>1, <3>2, <3>3
    <3>6. \A m \in Writer \ {n} :
            link[m] # link'[n] /\ \A v \in Writer : sem16[v][m] # link'[n]
      <4>1. CASE link'[n] = link[n]
        BY <3>4, <4>1 DEF Made16
      <4>2. CASE link'[n] = made + 1
        <5> HIDE DEF Inv16Types
        <5> QED BY <3>1, <3>2, <3>3, <4>2
      <4> QED BY <3>1, <4>1, <4>2
    <3>7. \A m, k \in Writer : m # k =>
            /\ link'[m] = link'[k] => link'[m] = 0
            /\ \A v \in Writer : sem16'[v][m] = link'[k] => link'[k] = 0
            /\ \A u, v \in Writer : sem16'[u][m] = sem16'[v][k] => sem16'[u][m] = 0
      <4> SUFFICES ASSUME NEW m \in Writer, NEW k \in Writer, m # k
                   PROVE  /\ link'[m] = link'[k] => link'[m] = 0
                          /\ \A v \in Writer : sem16'[v][m] = link'[k] => link'[k] = 0
                          /\ \A u, v \in Writer : sem16'[u][m] = sem16'[v][k] => sem16'[u][m] = 0
        OBVIOUS
      <4>1. CASE m = n
        BY <3>1, <3>2, <3>6, <4>1 DEF Made16
      <4>2. CASE k = n
        BY <3>1, <3>2, <3>6, <4>2 DEF Made16
      <4>3. CASE m # n /\ k # n
        BY <3>1, <3>2, <4>3 DEF Made16
      <4> QED BY <4>1, <4>2, <4>3
    <3>8. \A v \in Writer :
            /\ pc16'[v] = "open1" => sem16'[v]["parent"] = 0 /\ sem16'[v]["child"] = 0
            /\ pc16'[v] = "open2" => sem16'[v]["parent"] # 0 /\ sem16'[v]["child"] = 0
            /\ pc16'[v] \in {"wait", "write", "post"} => \A m \in Writer : sem16'[v][m] # 0
      BY <2>1, <3>1, <3>4 DEF Made16, Lab16!TypeOK, Writer
    <3> QED BY <1>1, <2>1, <2>2, <3>5, <3>7, <3>8, Opening16 DEF Made16
  <2>5. Counted16'
    BY <2>1, <2>2 DEF Counted16, Lab16!TypeOK, Writer
  <2> QED BY <2>3, <2>4, <2>5
<1>2. ASSUME NEW w \in Writer, Lab16!Wait(w) \/ Lab16!Post(w) PROVE Inv16Types'
  <2> USE <1>2 DEF Inv16Types, Lab16!Wait, Lab16!Post, Lab16!Again, Writer
  <2>1. Lab16!TypeOK'
    <3>1. sem16[w][w] \in Lab16!Sem /\ Lab16!Target(w) \in Lab16!Sem
      BY DEF Lab16!TypeOK, Made16, Lab16!Target, Lab16!Other
    <3>2. value' \in [Lab16!Sem -> Nat]
      BY <3>1 DEF Lab16!TypeOK
    <3> QED BY <3>2 DEF Lab16!TypeOK, Counted16
  <2>2. Made16'
    BY DEF Made16, Opened16, Lab16!TypeOK
  <2>3. Counted16'
    BY DEF Counted16, Lab16!TypeOK
  <2> QED BY <2>1, <2>2, <2>3
<1>3. ASSUME NEW w \in Writer, Lab16!Write(w) \/ Lab16!WriteFails(w) \/ Lab16!Kill(w) PROVE Inv16Types'
  <2> USE <1>3 DEF Inv16Types, Lab16!Write, Lab16!WriteFails, Lab16!Kill, Writer
  <2>1. Lab16!TypeOK'
    <3>1. written16' \in [Writer -> 0..Count] /\ last' \in Writer \cup {"none"}
      BY DEF Lab16!TypeOK, Counted16
    <3>2. \E place \in {"post", "free1", "killed"} : pc16' = [pc16 EXCEPT ![w] = place]
      OBVIOUS
    <3>4. pc16' \in [Writer -> {"open1", "open2", "wait", "write", "post", "reap", "report", "free1", "free2",
                               "ended", "killed"}]
      BY <3>2 DEF Lab16!TypeOK
    <3>5. cut' \in BOOLEAN
      BY DEF Lab16!TypeOK
    <3>3. UNCHANGED <<link, value, made, run, sem16, i16>>
      OBVIOUS
    <3> QED BY <3>1, <3>3, <3>4, <3>5 DEF Lab16!TypeOK
  <2>2. Made16'
    BY DEF Made16, Opened16, Lab16!TypeOK
  <2>3. Counted16'
    BY DEF Counted16, Lab16!TypeOK
  <2> QED BY <2>1, <2>2, <2>3
<1>4. ASSUME NEW w \in Writer, Lab16!Unlink1(w) \/ Lab16!Unlink2(w) PROVE Inv16Types'
  <2> USE <1>4 DEF Inv16Types, Lab16!Unlink1, Lab16!Unlink2, Lab16!Unlinked, Writer
  <2>1. Lab16!TypeOK'
    BY DEF Lab16!TypeOK
  <2>2. Made16'
    BY DEF Made16, Opened16, Lab16!TypeOK
  <2>3. Counted16'
    BY DEF Counted16, Lab16!TypeOK
  <2> QED BY <2>1, <2>2, <2>3
<1>5. CASE Lab16!Reap
  <2> USE <1>5 DEF Inv16Types, Lab16!Reap, Writer
  <2>1. Lab16!TypeOK'
    BY DEF Lab16!TypeOK
  <2>2. Made16'
    BY DEF Made16, Opened16, Lab16!TypeOK
  <2>3. Counted16'
    BY DEF Counted16, Lab16!TypeOK
  <2> QED BY <2>1, <2>2, <2>3
<1>6. CASE Lab16!Restart
  <2> USE <1>6 DEF Inv16Types, Lab16!Restart, Lab16!Fresh, Lab16!Closed, Writer
  <2>1. Lab16!TypeOK'
    BY DEF Lab16!TypeOK
  <2>2. Made16'
    BY DEF Made16, Opened16, Lab16!TypeOK
  <2>3. Counted16'
    BY DEF Counted16, Lab16!TypeOK
  <2> QED BY <2>1, <2>2, <2>3
<1>7. CASE UNCHANGED vars16
  BY <1>7 DEF vars16, Inv16Types, Lab16!TypeOK, Made16, Opened16, Counted16
<1>8. ASSUME NEW w \in Writer,
             Lab16!Open(w, "parent", "open1", "open2") \/ Lab16!Open(w, "child", "open2", "wait")
      PROVE  Inv16Types'
  <2>1. \/ pc16[w] = "open1" /\ sem16[w]["parent"] = 0
        \/ pc16[w] = "open2" /\ sem16[w]["child"] = 0
    BY <1>8 DEF Lab16!Open, Inv16Types, Made16
  <2> QED BY <1>1, <1>8, <2>1 DEF Lab16!Open, Writer
<1> QED BY <1>2, <1>3, <1>4, <1>5, <1>6, <1>7, <1>8 DEF Lab16!Next, Lab16!Step, Writer

(* The measures are numbers, and which of them a place fixes. *)
LEMMA Values16 ==
  ASSUME Inv16Types
  PROVE  /\ \A n \in Writer : Linked16(n) \in Nat /\ Own16(n) \in Nat /\ Posts16(n) \in Nat /\ Flying16(n) \in {0, 1}
         /\ \A w \in Writer : InHand16(w) => Posts16(w) = Own16(w) + 1 /\ Posts16(w) > 0
         /\ \A w \in Writer : pc16[w] \in {"open1", "open2", "wait"} => Posts16(w) = Own16(w)
         /\ \A w \in Writer : Past16(w) => Posts16(w) = 0 /\ Flying16(w) = 0
         /\ \A w \in Writer : ~ InHand16(w) => Flying16(w) = 0
         /\ \A w \in Writer : pc16[w] \in {"wait", "write", "post"} => Own16(w) = value[sem16[w][w]]
<1>1. \A n \in Writer : Linked16(n) \in Nat
  BY DEF Inv16Types, Lab16!TypeOK, Linked16, Lab16!Initially, Lab16!None, Writer, Lab16!Name, Lab16!Writer
<1>2. \A w \in Writer : sem16[w][w] \in Lab16!Sem \cup {0}
  BY DEF Inv16Types, Lab16!TypeOK, Lab16!None, Lab16!Name, Lab16!Writer, Writer
<1>3. \A n \in Writer : Own16(n) \in Nat
  BY <1>1, <1>2 DEF Inv16Types, Lab16!TypeOK, Own16, Lab16!None
<1>4. \A w \in Writer : InHand16(w) => ~ Past16(w)
  BY DEF InHand16, Past16
<1>5. \A w \in Writer : pc16[w] \in {"open1", "open2", "wait"} => ~ Past16(w) /\ ~ InHand16(w)
  BY DEF InHand16, Past16
<1>6. \A w \in Writer : pc16[w] \in {"wait", "write", "post"} => Own16(w) = value[sem16[w][w]]
  BY DEF Inv16Types, Made16, Own16, Lab16!None
<1> QED BY <1>1, <1>3, <1>4, <1>5, <1>6 DEF Posts16, Flying16

(* sem_open makes a semaphore of what its name stood for. *)
LEMMA OpenMeasures ==
  ASSUME Inv16Types, NEW w \in Writer,
         Lab16!Open(w, "parent", "open1", "open2") \/ Lab16!Open(w, "child", "open2", "wait")
  PROVE  /\ \A v \in Writer : /\ Linked16(v)' = Linked16(v) /\ Own16(v)' = Own16(v)
                              /\ Posts16(v)' = Posts16(v) /\ Flying16(v)' = Flying16(v)
         /\ \A v \in Writer \ {w} : pc16'[v] = pc16[v] /\ sem16'[v] = sem16[v]
         /\ \/ pc16[w] = "open1" /\ pc16'[w] = "open2" /\ sem16'[w]["parent"] = link'["parent"] /\ UNCHANGED link["child"]
            \/ /\ pc16[w] = "open2" /\ pc16'[w] = "wait" /\ sem16'[w]["child"] = link'["child"]
               /\ UNCHANGED <<sem16[w]["parent"], link["parent"]>>
         /\ \A n \in Writer : (link[n] # 0 => link'[n] = link[n])
         /\ pc16[w] = "open1" => link'["parent"] # 0
         /\ UNCHANGED <<i16, last, cut>>
<1> USE DEF Lab16!None, Lab16!Writer, Lab16!Name
<1>1. PICK n, place, next :
         /\ n \in Writer /\ Lab16!Open(w, n, place, next) /\ pc16[w] = place
         /\ pc16' = [pc16 EXCEPT ![w] = next] /\ UNCHANGED <<i16, last, cut>>
         /\ \/ n = "parent" /\ place = "open1" /\ next = "open2"
            \/ n = "child" /\ place = "open2" /\ next = "wait"
  BY DEF Lab16!Open, Lab16!Goto, Writer
<1>2. sem16[w][n] = 0
  BY <1>1 DEF Inv16Types, Made16
<1>3. /\ link'[n] \in Lab16!Sem /\ link' = [link EXCEPT ![n] = link'[n]]
      /\ sem16'[w][n] = link'[n]
      /\ \A v, m \in Writer : v # w \/ m # n => sem16'[v][m] = sem16[v][m]
      /\ \/ link[n] # 0 /\ UNCHANGED <<link, value, made>>
         \/ /\ link[n] = 0 /\ link'[n] = made' /\ made' = made + 1
            /\ value' = [value EXCEPT ![made'] = Lab16!Initially(n)]
  BY <1>1, <1>2, Opening16
<1>4. /\ made \in Nat
      /\ \A m \in Writer : link[m] \in Nat /\ link[m] <= made
      /\ \A v, m \in Writer : sem16[v][m] \in Nat /\ sem16[v][m] <= made
  BY Numbers16
<1>5. link'[n] # 0 /\ \A m \in Writer \ {n} : link'[m] = link[m]
  BY <1>3 DEF Lab16!Sem, Inv16Types, Lab16!TypeOK, Writer
<1>6. \A k \in Lab16!Sem : k <= made => value'[k] = value[k]
  <2>1. value \in [Lab16!Sem -> Nat]
    BY DEF Inv16Types, Lab16!TypeOK
  <2>2. \A k \in Lab16!Sem : k \in Nat
    BY DEF Lab16!Sem
  <2> QED BY <1>3, <1>4, <2>1, <2>2
<1>7. \A m \in Writer : link[m] # 0 => link[m] \in Lab16!Sem /\ link'[m] = link[m]
  BY <1>3, <1>5 DEF Inv16Types, Lab16!TypeOK, Writer
<1>8. \A m \in Writer : Linked16(m)' = Linked16(m)
  <2> SUFFICES ASSUME NEW m \in Writer PROVE Linked16(m)' = Linked16(m)
    OBVIOUS
  <2>1. CASE link[m] # 0
    BY <1>4, <1>6, <1>7, <2>1 DEF Linked16
  <2>2. CASE link[m] = 0 /\ m = n
    <3>1. link'[n] = made' /\ value' = [value EXCEPT ![made'] = Lab16!Initially(n)] /\ made' \in Lab16!Sem
      BY <1>3, <2>2
    <3>2. value'[made'] = Lab16!Initially(n)
      BY <3>1 DEF Inv16Types, Lab16!TypeOK
    <3> QED BY <1>5, <2>2, <3>1, <3>2 DEF Linked16, Lab16!Initially
  <2>3. CASE link[m] = 0 /\ m # n
    BY <1>5, <2>3 DEF Linked16, Lab16!Initially
  <2> QED BY <2>1, <2>2, <2>3
<1>9. \A v, m \in Writer : sem16[v][m] # 0 => sem16[v][m] \in Lab16!Sem
  BY DEF Inv16Types, Lab16!TypeOK, Writer
<1>10. \A v \in Writer : Own16(v)' = Own16(v)
  <2> SUFFICES ASSUME NEW v \in Writer PROVE Own16(v)' = Own16(v)
    OBVIOUS
  <2>1. CASE sem16[v][v] # 0
    <3>1. sem16'[v][v] = sem16[v][v]
      BY <1>2, <1>3, <2>1
    <3> QED BY <1>4, <1>6, <1>9, <2>1, <3>1 DEF Own16
  <2>2. CASE sem16[v][v] = 0 /\ v = w /\ v = n
    BY <1>3, <1>5, <1>8, <2>2 DEF Own16, Linked16
  <2>3. CASE sem16[v][v] = 0 /\ (v # w \/ v # n)
    BY <1>3, <1>8, <2>3 DEF Own16
  <2> QED BY <2>1, <2>2, <2>3
<1>11. \A v \in Writer : (InHand16(v)' <=> InHand16(v)) /\ (Past16(v)' <=> Past16(v))
  BY <1>1 DEF InHand16, Past16, Inv16Types, Lab16!TypeOK
<1>12. \A v \in Writer : Posts16(v)' = Posts16(v)
  BY <1>10, <1>11 DEF Posts16
<1>13. \A v \in Writer : Flying16(v)' = Flying16(v)
  <2>1. ASSUME NEW v \in Writer, NEW o \in Writer, InHand16(v)
        PROVE  sem16'[v][o] = link'[o] <=> sem16[v][o] = link[o]
    <3>1. v # w
      BY <1>1, <2>1 DEF InHand16
    <3>2. sem16[v][o] # 0 /\ sem16'[v][o] = sem16[v][o]
      BY <1>3, <2>1, <3>1 DEF Inv16Types, Made16, InHand16
    <3>3. CASE link[o] # 0
      BY <1>7, <3>2, <3>3
    <3>4. CASE link[o] = 0 /\ o # n
      BY <1>5, <3>2, <3>4
    <3>5. CASE link[o] = 0 /\ o = n
      <4>1. link'[o] = made + 1
        BY <1>3, <3>5
      <4>2. sem16[v][o] # made + 1
        BY <1>4
      <4> QED BY <3>2, <3>5, <4>1, <4>2
    <3> QED BY <3>3, <3>4, <3>5
  <2>2. \A v \in Writer : Lab16!Other(v) \in Writer
    BY DEF Lab16!Other, Writer
  <2> QED BY <1>11, <2>1, <2>2 DEF Flying16
<1>14. \A v \in Writer \ {w} : pc16'[v] = pc16[v] /\ sem16'[v] = sem16[v]
  BY <1>1 DEF Lab16!Open, Inv16Types, Lab16!TypeOK
<1>15. \/ pc16[w] = "open1" /\ pc16'[w] = "open2" /\ sem16'[w]["parent"] = link'["parent"] /\ UNCHANGED link["child"]
      \/ /\ pc16[w] = "open2" /\ pc16'[w] = "wait" /\ sem16'[w]["child"] = link'["child"]
         /\ UNCHANGED <<sem16[w]["parent"], link["parent"]>>
  <2>1. pc16[w] = place /\ pc16'[w] = next
    BY <1>1 DEF Inv16Types, Lab16!TypeOK, Writer
  <2>2. CASE n = "parent"
    BY <1>1, <1>3, <1>5, <2>1, <2>2 DEF Writer
  <2>3. CASE n = "child"
    BY <1>1, <1>3, <1>5, <2>1, <2>3 DEF Writer
  <2> QED BY <1>1, <2>2, <2>3 DEF Writer
<1>16. pc16[w] = "open1" => link'["parent"] # 0
  BY <1>1, <1>5
<1>17. \A m \in Writer : link[m] # 0 => link'[m] = link[m]
  BY <1>7
<1> QED BY <1>1, <1>8, <1>10, <1>12, <1>13, <1>14, <1>15, <1>16, <1>17

(* What names one semaphore never names the other. *)
LEMMA Apart16 ==
  ASSUME Inv16Types, NEW w \in Writer, NEW o \in Writer, w # o
  PROVE  /\ pc16 \in [Writer -> {"open1", "open2", "wait", "write", "post", "reap", "report", "free1", "free2",
                                 "ended", "killed"}]
         /\ i16 \in [Writer -> 0..Count] /\ i16[w] \in Nat
         /\ value \in [Lab16!Sem -> Nat] /\ link \in [Writer -> Lab16!Sem \cup {0}]
         /\ 0 \notin Lab16!Sem
         /\ \A v \in {w, o} : sem16[v][w] # 0 =>
              /\ sem16[v][w] \in Lab16!Sem /\ sem16[v][w] # link[o] /\ sem16[v][w] # sem16[o][o]
         /\ link[w] # 0 => link[w] \in Lab16!Sem /\ link[w] # link[o] /\ link[w] # sem16[o][o]
         /\ pc16[w] = "open1" => sem16[w][w] = 0 /\ sem16[w][o] = 0
         /\ w = "parent" /\ pc16[w] = "open2" => sem16[w][w] # 0 /\ sem16[w][o] = 0
         /\ pc16[w] \in {"wait", "write", "post"} => sem16[w][w] # 0 /\ sem16[w][o] # 0
<1>1. 0 \notin Lab16!Sem
  BY DEF Lab16!Sem
<1> QED BY <1>1 DEF Inv16Types, Lab16!TypeOK, Made16, Lab16!None, Lab16!Name, Lab16!Writer, Writer

(* A step that leaves the semaphores and their names alone. *)
LEMMA SameMeasures ==
  ASSUME UNCHANGED <<sem16, link, value>>
  PROVE  /\ \A v \in Writer : Linked16(v)' = Linked16(v) /\ Own16(v)' = Own16(v)
         /\ \A v \in Writer : pc16'[v] = pc16[v] => Posts16(v)' = Posts16(v) /\ Flying16(v)' = Flying16(v)
         /\ \A v \in Writer : InHand16(v) /\ InHand16(v)' => Posts16(v)' = Posts16(v) /\ Flying16(v)' = Flying16(v)
         /\ \A v \in Writer : Past16(v)' => Posts16(v)' = 0 /\ Flying16(v)' = 0
<1>1. \A v \in Writer : Linked16(v)' = Linked16(v)
  BY DEF Linked16
<1>2. \A v \in Writer : Own16(v)' = Own16(v)
  BY <1>1 DEF Own16
<1>3. \A v \in Writer : Past16(v)' => ~ InHand16(v)'
  BY DEF Past16, InHand16
<1>4. \A v \in Writer : InHand16(v) => ~ Past16(v)
  BY DEF Past16, InHand16
<1>5. \A v \in Writer : InHand16(v)' => ~ Past16(v)'
  BY DEF Past16, InHand16
<1>6. \A v \in Writer : pc16'[v] = pc16[v] => (Past16(v)' <=> Past16(v)) /\ (InHand16(v)' <=> InHand16(v))
  BY DEF Past16, InHand16
<1> QED BY <1>1, <1>2, <1>3, <1>4, <1>5, <1>6 DEF Posts16, Flying16

LEMMA OpenKeeps16 ==
  ASSUME Inv16Types, TurnsInv16, NEW w \in Writer,
         Lab16!Open(w, "parent", "open1", "open2") \/ Lab16!Open(w, "child", "open2", "wait")
  PROVE  TurnsInv16'
<1>1. /\ \A v \in Writer : /\ Linked16(v)' = Linked16(v) /\ Own16(v)' = Own16(v)
                           /\ Posts16(v)' = Posts16(v) /\ Flying16(v)' = Flying16(v)
      /\ \A v \in Writer \ {w} : pc16'[v] = pc16[v] /\ sem16'[v] = sem16[v]
      /\ \/ pc16[w] = "open1" /\ pc16'[w] = "open2" /\ sem16'[w]["parent"] = link'["parent"] /\ UNCHANGED link["child"]
         \/ /\ pc16[w] = "open2" /\ pc16'[w] = "wait" /\ sem16'[w]["child"] = link'["child"]
            /\ UNCHANGED <<sem16[w]["parent"], link["parent"]>>
      /\ \A n \in Writer : link[n] # 0 => link'[n] = link[n]
      /\ pc16[w] = "open1" => link'["parent"] # 0
      /\ UNCHANGED <<i16, last, cut>>
  BY OpenMeasures DEF Lab16!None
<1>2. /\ pc16["parent"] \in {"open2", "wait", "write", "post"} => sem16["parent"]["parent"] # 0
      /\ pc16["child"] \in {"wait", "write", "post"} => sem16["child"]["child"] # 0
  BY Apart16 DEF Writer
<1> USE DEF TurnsInv16
<1>3. OnePost16'
  BY <1>1 DEF OnePost16, Writer
<1>4. OneLinked16'
  <2>1. Freeing16' <=> Freeing16
    BY <1>1 DEF Freeing16
  <2> QED BY <1>1, <2>1 DEF OneLinked16, Writer
<1>5. ParentPast16'
  BY <1>1 DEF ParentPast16, Writer
<1>6. CASE w = "parent"
  <2> USE <1>1, <1>2, <1>6 DEF Writer
  <2>1. StaleParent16'
    BY DEF StaleParent16
  <2>2. StaleChild16'
    BY DEF StaleChild16
  <2>3. Early16'
    BY DEF Early16, Lab16!None
  <2>4. Last16'
    BY DEF Last16, Past16
  <2> QED BY <1>3, <1>4, <1>5, <2>1, <2>2, <2>3, <2>4
<1>7. CASE w = "child"
  <2> USE <1>1, <1>2, <1>7 DEF Writer
  <2>1. StaleParent16'
    BY DEF StaleParent16
  <2>2. StaleChild16'
    BY DEF StaleChild16
  <2>3. Early16'
    BY DEF Early16, Lab16!None
  <2>4. Last16'
    BY DEF Last16, Past16
  <2> QED BY <1>3, <1>4, <1>5, <2>1, <2>2, <2>3, <2>4
<1> QED BY <1>6, <1>7 DEF Writer

(* write(), by the one who has taken the only post. *)
LEMMA WriteKeeps16 ==
  ASSUME Inv16Types, TurnsInv16, NEW w \in Writer, Lab16!Write(w)
  PROVE  TurnsInv16' /\ last # w
<1> DEFINE o == Lab16!Other(w)
<1>1. o \in Writer /\ o # w /\ \A v \in Writer : v = w \/ v = o
  BY DEF Lab16!Other, Writer
<1> HIDE DEF o
<1>2. pc16[w] = "write" /\ pc16'[w] = "post" /\ pc16'[o] = pc16[o] /\ last' = w
  BY <1>1, Apart16 DEF Lab16!Write, Lab16!Goto
<1>3. InHand16(w) /\ InHand16(w)' /\ UNCHANGED <<sem16, link, value, i16>>
  BY <1>2 DEF InHand16, Lab16!Write
<1>4. \A v \in Writer : /\ Linked16(v)' = Linked16(v) /\ Own16(v)' = Own16(v)
                        /\ Posts16(v)' = Posts16(v) /\ Flying16(v)' = Flying16(v)
  BY <1>1, <1>2, <1>3, SameMeasures
<1>5. /\ Posts16(w) = Own16(w) + 1 /\ Own16(w) \in Nat /\ Posts16(o) \in Nat
      /\ pc16[o] = "post" => Posts16(o) > 0
  BY <1>1, <1>3, Values16 DEF InHand16
<1> USE DEF TurnsInv16
<1>6. Own16(w) = 0 /\ Posts16(o) = 0
  <2>1. Posts16(w) + Posts16(o) <= 1
    BY <1>1, <1>5 DEF OnePost16, Writer
  <2> HIDE DEF TurnsInv16
  <2> QED BY <1>5, <2>1
<1>7. OnePost16' /\ ParentPast16'
  BY <1>1, <1>2, <1>4 DEF OnePost16, ParentPast16, Writer
<1>8. OneLinked16'
  <2>1. Freeing16' <=> Freeing16
    BY <1>1, <1>2 DEF Freeing16
  <2> QED BY <1>4, <2>1 DEF OneLinked16, Writer
<1>9. StaleParent16' /\ StaleChild16'
  BY <1>1, <1>2, <1>3, <1>4 DEF StaleParent16, StaleChild16, Writer
<1>10. Early16'
  BY <1>1, <1>2, <1>3, <1>4 DEF Early16, Writer
<1>11. Last16'
  BY <1>1, <1>2, <1>4, <1>5, <1>6 DEF Last16
<1>12. last # w
  BY <1>2 DEF Last16, Past16
<1> QED BY <1>7, <1>8, <1>9, <1>10, <1>11, <1>12

(* What a failed write, a signal and the end of wait() have in common. *)
LEMMA LeavingKeeps16 ==
  ASSUME Inv16Types, TurnsInv16, NEW w \in Writer,
         \/ Lab16!WriteFails(w)
         \/ Lab16!Kill(w) /\ pc16[w] # "free2"
         \/ w = "parent" /\ Lab16!Reap
  PROVE  TurnsInv16'
<1> DEFINE o == Lab16!Other(w)
<1>1. o \in Writer /\ o # w /\ \A v \in Writer : v = w \/ v = o
  BY DEF Lab16!Other, Writer
<1>0. (w = "parent" /\ o = "child") \/ (w = "child" /\ o = "parent")
  BY DEF Lab16!Other, Writer
<1> HIDE DEF o
<1>2. /\ pc16'[o] = pc16[o]
      /\ UNCHANGED <<sem16, link, value, i16, last>>
      /\ \/ pc16[w] = "write" /\ pc16'[w] = "free1"
         \/ pc16[w] \notin {"free2", "ended", "killed"} /\ pc16'[w] = "killed"
         \/ w = "parent" /\ pc16[w] = "reap" /\ pc16'[w] = "free1" /\ pc16[o] \in {"ended", "killed"}
  BY <1>1, <1>0, Apart16 DEF Lab16!WriteFails, Lab16!Kill, Lab16!Reap, Lab16!Goto, Lab16!verify, Lab16!ChildPid,
     Lab16!Ended
<1>3. Past16(w)'
  BY <1>2 DEF Past16
<1>4. /\ Posts16(w)' = 0 /\ Flying16(w)' = 0
      /\ Posts16(o)' = Posts16(o) /\ Flying16(o)' = Flying16(o)
      /\ \A v \in Writer : Linked16(v)' = Linked16(v) /\ Own16(v)' = Own16(v)
  BY <1>1, <1>2, <1>3, SameMeasures
<1>5. /\ Posts16(w) \in Nat /\ Posts16(o) \in Nat /\ Flying16(w) \in Nat /\ Flying16(o) \in Nat
      /\ \A v \in Writer : Linked16(v) \in Nat
      /\ pc16[w] = "write" => Posts16(w) > 0
      /\ pc16[o] \in {"ended", "killed"} => Posts16(o) = 0
  BY <1>1, Values16 DEF InHand16, Past16
<1> USE DEF TurnsInv16
<1>6. Posts16(w) + Posts16(o) <= 1
  BY <1>0, <1>5 DEF OnePost16
<1>7. pc16[w] = "write" => Posts16(o) = 0
  <2> HIDE DEF TurnsInv16
  <2> QED BY <1>5, <1>6
<1>8. OnePost16'
  <2>1. Posts16(w)' + Posts16(o)' <= 1
    <3> HIDE DEF TurnsInv16
    <3> QED BY <1>4, <1>5, <1>6
  <2> QED BY <1>0, <1>4, <1>5, <2>1 DEF OnePost16
<1>9. OneLinked16'
  <2>1. Freeing16' <=> Freeing16
    BY <1>1, <1>2 DEF Freeing16
  <2>2. CASE Freeing16
    BY <1>0, <1>4, <1>5, <2>1, <2>2 DEF OneLinked16, Writer
  <2>3. CASE ~ Freeing16
    BY <1>0, <1>4, <1>5, <2>1, <2>3 DEF OneLinked16, Writer
  <2> QED BY <2>2, <2>3
<1>10. ParentPast16'
  BY <1>0, <1>2, <1>4, <1>5, <1>7 DEF ParentPast16
<1>11. StaleParent16' /\ StaleChild16'
  BY <1>0, <1>2, <1>4 DEF StaleParent16, StaleChild16
<1>12. Early16'
  BY <1>0, <1>2, <1>4, <1>7 DEF Early16
<1>13. Last16'
  BY <1>1, <1>2, <1>3, <1>4 DEF Last16, Past16
<1> QED BY <1>8, <1>9, <1>10, <1>11, <1>12, <1>13

(* wait() on one's own semaphore. *)
LEMMA WaitKeeps16 ==
  ASSUME Inv16Types, TurnsInv16, NEW w \in Writer, Lab16!Wait(w)
  PROVE  TurnsInv16'
<1> DEFINE o == Lab16!Other(w)
           x == sem16[w][w]
<1>1. /\ o \in Writer /\ o # w /\ \A v \in Writer : v = w \/ v = o
      /\ (w = "parent" /\ o = "child") \/ (w = "child" /\ o = "parent")
  BY DEF Lab16!Other, Writer
<1> HIDE DEF o
<1>2. /\ pc16[w] = "wait" /\ pc16'[w] = "write" /\ pc16'[o] = pc16[o]
      /\ UNCHANGED <<sem16, link, i16, last>>
      /\ x # 0 /\ x \in Lab16!Sem /\ value[x] \in Nat /\ value[x] > 0
      /\ value'[x] = value[x] - 1 /\ \A y \in Lab16!Sem \ {x} : value'[y] = value[y]
  BY <1>1, Apart16 DEF Lab16!Wait, Lab16!Goto
<1>3. /\ sem16[o][o] # x /\ link[o] # x /\ link[w] \in Lab16!Sem \cup {0}
      /\ link[o] \in Lab16!Sem \cup {0} /\ sem16[o][o] \in Lab16!Sem \cup {0}
  BY <1>1, <1>2, Apart16
<1> HIDE DEF x
<1>4. /\ Linked16(o)' = Linked16(o)
      /\ link[w] = x => Linked16(w) = value[x] /\ Linked16(w)' = value[x] - 1
      /\ link[w] # x => Linked16(w)' = Linked16(w)
  BY <1>2, <1>3 DEF Linked16, Lab16!None
<1>5. Own16(o)' = Own16(o) /\ Own16(w) = value[x] /\ Own16(w)' = value[x] - 1
  BY <1>2, <1>3, <1>4 DEF Own16, Lab16!None, x
<1>6. /\ InHand16(w)' /\ ~ InHand16(w) /\ ~ Past16(w) /\ ~ Past16(w)'
      /\ (InHand16(o)' <=> InHand16(o)) /\ (Past16(o)' <=> Past16(o))
  BY <1>2 DEF InHand16, Past16
<1>7. Posts16(w)' = Posts16(w) /\ Posts16(o)' = Posts16(o) /\ Posts16(w) = value[x]
  BY <1>2, <1>5, <1>6 DEF Posts16
<1>8. /\ Flying16(o)' = Flying16(o) /\ Flying16(w) = 0
      /\ Flying16(w)' = IF sem16[w][o] = link[o] THEN 1 ELSE 0
  BY <1>2, <1>6 DEF Flying16, o
<1>9. \A v \in Writer : Linked16(v) \in Nat /\ Posts16(v) \in Nat /\ Flying16(v) \in {0, 1}
  BY Values16
<1> USE DEF TurnsInv16
<1>10. OnePost16' /\ ParentPast16'
  BY <1>1, <1>2, <1>7 DEF OnePost16, ParentPast16
<1>11. OneLinked16'
  <2>1. Freeing16' <=> Freeing16
    BY <1>1, <1>2 DEF Freeing16
  <2>2. CASE w = "parent" /\ Freeing16
    BY <1>1, <1>2, <1>4, <1>8, <1>9, <2>1, <2>2 DEF OneLinked16
  <2>3. CASE w = "child" /\ Freeing16
    <3>1. pc16["parent"] = "free2"
      BY <1>1, <1>2, <2>3 DEF Freeing16
    <3> QED BY <1>2, <1>7, <2>3, <3>1 DEF ParentPast16
  <2>4. CASE ~ Freeing16 /\ link[w] = x
    <3>1. Linked16(w) + Linked16(o) + Flying16(w) + Flying16(o) <= 1
      BY <1>1, <1>9, <2>4 DEF OneLinked16
    <3> HIDE DEF TurnsInv16
    <3>2. Linked16(w)' + Linked16(o)' + Flying16(w)' + Flying16(o)' <= 1
      BY <1>1, <1>2, <1>4, <1>8, <1>9, <2>4, <3>1
    <3>3. Linked16(w)' \in Nat /\ Linked16(o)' \in Nat /\ Flying16(w)' \in Nat /\ Flying16(o)' \in Nat
      BY <1>1, <1>2, <1>4, <1>8, <1>9, <2>4
    <3> QED BY <1>1, <2>1, <2>4, <3>2, <3>3 DEF OneLinked16
  <2>5. CASE ~ Freeing16 /\ link[w] # x
    <3>1. Flying16(w)' = 0
      BY <1>1, <1>2, <1>7, <1>8, <2>5 DEF StaleParent16, StaleChild16, ParentPast16, Freeing16, x
    <3> QED BY <1>1, <1>4, <1>8, <2>1, <2>5, <3>1 DEF OneLinked16
  <2> QED BY <1>1, <2>2, <2>3, <2>4, <2>5
<1>12. StaleParent16' /\ StaleChild16'
  BY <1>1, <1>2, <1>7 DEF StaleParent16, StaleChild16
<1>13. Early16'
  BY <1>1, <1>2, <1>7 DEF Early16
<1>14. Last16'
  BY <1>1, <1>2, <1>5, <1>6 DEF Last16
<1> QED BY <1>10, <1>11, <1>12, <1>13, <1>14

(* sem_post on the other one's semaphore. *)
LEMMA PostKeeps16 ==
  ASSUME Inv16Types, TurnsInv16, Count > 1, NEW w \in Writer, Lab16!Post(w)
  PROVE  TurnsInv16'
<1> DEFINE o == Lab16!Other(w)
           t == sem16[w][o]
<1>1. /\ o \in Writer /\ o # w /\ \A v \in Writer : v = w \/ v = o
      /\ (w = "parent" /\ o = "child") \/ (w = "child" /\ o = "parent")
  BY DEF Lab16!Other, Writer
<1>target. Lab16!Target(w) = t
  BY DEF Lab16!Target
<1> HIDE DEF o
<1>2. /\ pc16[w] = "post" /\ pc16'[o] = pc16[o]
      /\ pc16'[w] = IF Lab16!Again(i16[w] + 1) THEN "wait" ELSE IF w = "parent" THEN "reap" ELSE "free1"
      /\ i16'[w] = i16[w] + 1 /\ i16'[o] = i16[o] /\ i16[w] \in Nat
      /\ UNCHANGED <<sem16, link, last>>
      /\ t # 0 /\ t \in Lab16!Sem /\ value[t] \in Nat
      /\ value'[t] = value[t] + 1 /\ \A y \in Lab16!Sem \ {t} : value'[y] = value[y]
  BY <1>1, <1>target, Apart16 DEF Lab16!Post, Lab16!Goto
<1>3. /\ sem16[w][w] # t /\ link[w] # t /\ link[w] \in Lab16!Sem \cup {0}
      /\ link[o] \in Lab16!Sem \cup {0} /\ sem16[o][o] \in Lab16!Sem \cup {0}
      /\ sem16[w][w] # 0 /\ sem16[w][w] \in Lab16!Sem
  BY <1>1, <1>2, Apart16
<1>0. /\ \A v \in Writer : /\ Linked16(v) \in Nat /\ Own16(v) \in Nat
                           /\ Posts16(v) \in Nat /\ Flying16(v) \in {0, 1}
      /\ Posts16(w) = Own16(w) + 1
      /\ pc16[o] = "post" => Posts16(o) > 0
  BY <1>1, <1>2, Values16 DEF InHand16
<1>4. /\ Linked16(w)' = Linked16(w)
      /\ Linked16(o)' = Linked16(o) + IF link[o] = t THEN 1 ELSE 0
  BY <1>2, <1>3, <1>0, <1>1 DEF Linked16, Lab16!None, Lab16!Initially
<1>5. Own16(w)' = Own16(w) /\ Own16(o)' \in {Own16(o), Own16(o) + 1}
  BY <1>1, <1>2, <1>3, <1>4, <1>0 DEF Own16, Lab16!None
<1>6. /\ ~ InHand16(w)' /\ InHand16(w) /\ ~ Past16(w)
      /\ (InHand16(o)' <=> InHand16(o)) /\ (Past16(o)' <=> Past16(o))
  BY <1>2 DEF InHand16, Past16
<1> USE DEF TurnsInv16
<1>7. Own16(w) = 0 /\ Posts16(o) = 0
  <2>1. Posts16(w) + Posts16(o) <= 1
    BY <1>1, <1>0 DEF OnePost16
  <2> HIDE DEF TurnsInv16
  <2> QED BY <1>1, <1>0, <2>1
<1>8. Posts16(w)' = 0 /\ Posts16(o)' \in {0, 1}
  <2> HIDE DEF TurnsInv16
  <2>1. Posts16(w)' = 0
    BY <1>5, <1>6, <1>7 DEF Posts16
  <2>2. CASE Past16(o)
    BY <1>6, <2>1, <2>2 DEF Posts16
  <2>3. CASE ~ Past16(o) /\ ~ InHand16(o)
    BY <1>1, <1>0, <1>5, <1>6, <1>7, <2>1, <2>3 DEF Posts16
  <2>4. CASE ~ Past16(o) /\ InHand16(o)
    BY <1>1, <1>0, <1>7, <2>4 DEF Posts16
  <2> QED BY <2>2, <2>3, <2>4
<1>9. /\ Flying16(w)' = 0 /\ Flying16(o)' = Flying16(o)
      /\ Flying16(w) = IF link[o] = t THEN 1 ELSE 0
  BY <1>2, <1>6 DEF Flying16, o
<1> HIDE DEF t
<1>10. OnePost16'
  BY <1>1, <1>8 DEF OnePost16
<1>11. OneLinked16'
  <2>1. Freeing16' <=> Freeing16
    BY <1>1, <1>2 DEF Freeing16
  <2>2. Linked16(w)' + Linked16(o)' + Flying16(w)' + Flying16(o)' =
          Linked16(w) + Linked16(o) + Flying16(w) + Flying16(o)
    <3> HIDE DEF TurnsInv16
    <3> QED BY <1>1, <1>0, <1>4, <1>9
  <2>3. Linked16(w)' \in Nat /\ Linked16(o)' \in Nat /\ Flying16(w)' \in Nat /\ Flying16(o)' \in Nat
    <3> HIDE DEF TurnsInv16
    <3> QED BY <1>1, <1>0, <1>4, <1>9
  <2>4. CASE ~ Freeing16
    <3>1. Linked16(w) + Linked16(o) + Flying16(w) + Flying16(o) <= 1
      BY <1>1, <1>0, <2>4 DEF OneLinked16
    <3> QED BY <1>1, <2>1, <2>2, <2>3, <2>4, <3>1 DEF OneLinked16
  <2>5. CASE Freeing16
    <3>1. Linked16("parent") + Flying16("child") <= 1
      BY <2>5 DEF OneLinked16
    <3>2. Linked16("parent")' + Flying16("child")' <= 1
      <4> HIDE DEF TurnsInv16
      <4>1. CASE w = "parent"
        BY <1>1, <1>4, <1>9, <3>1, <4>1
      <4>2. CASE w = "child"
        BY <1>1, <1>0, <1>4, <1>9, <3>1, <4>2
      <4> QED BY <1>1, <4>1, <4>2
    <3> QED BY <2>1, <2>5, <3>2 DEF OneLinked16
  <2> QED BY <2>4, <2>5
<1>12. ParentPast16'
  BY <1>1, <1>2, <1>8 DEF ParentPast16
<1>13. StaleParent16' /\ StaleChild16'
  BY <1>1, <1>2, <1>8 DEF StaleParent16, StaleChild16
<1>14. Early16'
  <2>1. CASE w = "parent"
    BY <1>1, <1>2, <2>1 DEF Early16
  <2>2. CASE w = "child" /\ pc16["parent"] \in {"open1", "open2"}
    <3>1. i16["child"] = 0
      BY <1>1, <1>2, <1>0, <2>2 DEF Early16
    <3>2. i16'["child"] = 1 /\ pc16'["child"] = "wait"
      <4> HIDE DEF TurnsInv16
      <4>1. Lab16!Again(1)
        BY DEF Lab16!Again
      <4> QED BY <1>2, <2>2, <3>1, <4>1
    <3> QED BY <1>1, <1>2, <1>8, <2>2, <3>2 DEF Early16
  <2>3. CASE w = "child" /\ pc16["parent"] \notin {"open1", "open2"}
    BY <1>1, <1>2, <2>3 DEF Early16
  <2> QED BY <1>1, <2>1, <2>2, <2>3
<1>15. Last16'
  BY <1>1, <1>2, <1>0, <1>5, <1>7 DEF Last16, Past16
<1> QED BY <1>10, <1>11, <1>12, <1>13, <1>14, <1>15

(* free_resources, the first name. *)
LEMMA Unlink1Keeps16 ==
  ASSUME Inv16Types, TurnsInv16, NEW w \in Writer, Lab16!Unlink1(w)
  PROVE  TurnsInv16'
<1> DEFINE o == Lab16!Other(w)
<1>1. /\ o \in Writer /\ o # w /\ \A v \in Writer : v = w \/ v = o
      /\ (w = "parent" /\ o = "child") \/ (w = "child" /\ o = "parent")
  BY DEF Lab16!Other, Writer
<1> HIDE DEF o
<1>2. /\ pc16[w] = "free1" /\ pc16'[w] = "free2" /\ pc16'[o] = pc16[o]
      /\ UNCHANGED <<sem16, value, i16, last>>
      /\ link'["parent"] = 0 /\ link'["child"] = link["child"]
  BY <1>1, Apart16 DEF Lab16!Unlink1, Lab16!Goto, Lab16!None, Writer
<1>3. /\ Linked16("parent")' = 1 /\ Linked16("child")' = Linked16("child")
      /\ \A v \in Writer : sem16[v][v] # 0 => Own16(v)' = Own16(v)
      /\ Own16("child")' = Own16("child")
      /\ sem16["parent"]["parent"] = 0 => Own16("parent")' = 1
  BY <1>2 DEF Linked16, Own16, Lab16!None, Lab16!Initially
<1>4. /\ pc16["parent"] \in {"open2", "wait", "write", "post"} => sem16["parent"]["parent"] # 0
      /\ pc16["child"] \in {"wait", "write", "post"} => sem16["child"]["parent"] # 0 /\ sem16["child"]["child"] # 0
      /\ pc16["parent"] = "open1" => sem16["parent"]["parent"] = 0
      /\ pc16["parent"] \in {"open1", "open2", "wait", "write", "post"} \/ Past16("parent")
  BY Apart16 DEF Writer, Past16
<1>5. /\ (InHand16(o)' <=> InHand16(o)) /\ (Past16(o)' <=> Past16(o)) /\ Past16(w) /\ Past16(w)' /\ ~ InHand16(w)'
  BY <1>2 DEF InHand16, Past16
<1>6. Posts16(w)' = 0 /\ \A v \in Writer : Posts16(v) \in Nat
  BY <1>5, Values16 DEF Posts16
<1>7. w = "parent" => Posts16("child")' = Posts16("child")
  BY <1>1, <1>3, <1>5 DEF Posts16
<1>8. w = "child" =>
        \/ Posts16("parent")' \in {0, 1} /\ pc16["parent"] \notin {"open2", "wait", "write", "post"}
        \/ Posts16("parent")' = Posts16("parent")
  <2> SUFFICES ASSUME w = "child"
               PROVE  \/ Posts16("parent")' \in {0, 1} /\ pc16["parent"] \notin {"open2", "wait", "write", "post"}
                      \/ Posts16("parent")' = Posts16("parent")
    OBVIOUS
  <2>1. CASE pc16["parent"] \in {"open2", "wait", "write", "post"}
    <3>1. Own16("parent")' = Own16("parent")
      BY <1>3, <1>4, <2>1 DEF Writer
    <3> QED BY <1>1, <1>5, <3>1 DEF Posts16
  <2>2. CASE pc16["parent"] = "open1"
    <3>1. Own16("parent")' = 1 /\ ~ InHand16("parent")' /\ ~ Past16("parent")'
      BY <1>1, <1>2, <1>3, <1>4, <2>2 DEF InHand16, Past16
    <3> QED BY <2>2, <3>1 DEF Posts16
  <2>3. CASE Past16("parent")
    BY <1>1, <1>5, <2>3 DEF Posts16
  <2> QED BY <1>4, <2>1, <2>2, <2>3
<1>9. Flying16("child")' = 0
  BY <1>1, <1>2, <1>4, <1>5 DEF Flying16, InHand16, Lab16!Other
<1> USE DEF TurnsInv16
<1>10. OnePost16'
  BY <1>1, <1>6, <1>7, <1>8 DEF OnePost16, Writer
<1>11. OneLinked16'
  <2>1. Freeing16'
    BY <1>2 DEF Freeing16
  <2> QED BY <1>3, <1>9, <2>1 DEF OneLinked16
<1>12. ParentPast16'
  BY <1>1, <1>2, <1>6, <1>7 DEF ParentPast16
<1>13. StaleParent16'
  BY <1>1, <1>2, <1>8 DEF StaleParent16, Early16
<1>14. StaleChild16'
  BY <1>1, <1>2 DEF StaleChild16
<1>15. Early16'
  BY <1>1, <1>2, <1>6 DEF Early16
<1>16. Last16'
  <2>1. \A v \in Writer : pc16[v] \in {"wait", "post"} => Own16(v)' = Own16(v)
    BY <1>3, Apart16 DEF Writer
  <2> QED BY <1>1, <1>2, <1>5, <2>1 DEF Last16
<1> QED BY <1>10, <1>11, <1>12, <1>13, <1>14, <1>15, <1>16

(* free_resources, the second name. *)
LEMMA Unlink2Keeps16 ==
  ASSUME Inv16Types, TurnsInv16, NEW w \in Writer, Lab16!Unlink2(w)
  PROVE  TurnsInv16'
<1> DEFINE o == Lab16!Other(w)
<1>1. /\ o \in Writer /\ o # w /\ \A v \in Writer : v = w \/ v = o
      /\ (w = "parent" /\ o = "child") \/ (w = "child" /\ o = "parent")
  BY DEF Lab16!Other, Writer
<1> HIDE DEF o
<1>2. /\ pc16[w] = "free2" /\ pc16'[w] = "ended" /\ pc16'[o] = pc16[o]
      /\ UNCHANGED <<sem16, value, i16, last>>
      /\ link'["child"] = 0 /\ link'["parent"] = link["parent"]
  BY <1>1, Apart16 DEF Lab16!Unlink2, Lab16!Unlinked, Lab16!Goto, Lab16!None, Writer
<1>3. /\ Linked16("child")' = 0 /\ Linked16("parent")' = Linked16("parent")
      /\ \A v \in Writer : sem16[v][v] # 0 => Own16(v)' = Own16(v)
      /\ Own16("parent")' = Own16("parent")
      /\ Own16("child")' = Own16("child") \/ Own16("child")' = 0
  BY <1>2 DEF Linked16, Own16, Lab16!None, Lab16!Initially
<1>4. /\ pc16["parent"] \in {"wait", "write", "post"} => sem16["parent"]["child"] # 0
      /\ pc16["child"] \in {"wait", "write", "post"} => sem16["child"]["child"] # 0
  BY Apart16 DEF Writer
<1>5. /\ (InHand16(o)' <=> InHand16(o)) /\ (Past16(o)' <=> Past16(o)) /\ Past16(w) /\ Past16(w)'
      /\ ~ InHand16(w)' /\ ~ InHand16(w)
  BY <1>2 DEF InHand16, Past16
<1>6. Posts16(w)' = 0 /\ \A v \in Writer : Posts16(v) \in Nat /\ Linked16(v) \in Nat /\ Flying16(v) \in {0, 1}
  BY <1>5, Values16 DEF Posts16
<1>7. Posts16("parent")' \in {0, Posts16("parent")} /\ Posts16("child")' \in {0, Posts16("child")}
  <2>1. CASE w = "parent"
    <3>1. CASE InHand16("child")
      <4>1. Own16("child")' = Own16("child")
        BY <1>3, <1>4, <3>1 DEF InHand16, Writer
      <4> QED BY <1>1, <1>5, <1>6, <2>1, <4>1 DEF Posts16
    <3>2. CASE ~ InHand16("child")
      BY <1>1, <1>3, <1>5, <1>6, <2>1, <3>2 DEF Posts16, Writer
    <3> QED BY <3>1, <3>2
  <2>2. CASE w = "child"
    BY <1>1, <1>3, <1>5, <1>6, <2>2 DEF Posts16
  <2> QED BY <1>1, <2>1, <2>2
<1>8. Flying16("parent")' = 0 /\ Flying16("child")' = Flying16("child")
  <2>1. Flying16("parent")' = 0
    BY <1>1, <1>2, <1>4, <1>5 DEF Flying16, InHand16, Lab16!Other
  <2>2. Flying16("child")' = Flying16("child")
    BY <1>1, <1>2, <1>5 DEF Flying16, Lab16!Other
  <2> QED BY <2>1, <2>2
<1>9. w = "child" => Posts16("parent")' = Posts16("parent")
  BY <1>1, <1>3, <1>5 DEF Posts16
<1> USE DEF TurnsInv16
<1>10. OnePost16'
  BY <1>6, <1>7 DEF OnePost16, Writer
<1>11. OneLinked16'
  <2>1. Freeing16
    BY <1>2 DEF Freeing16
  <2> QED BY <1>3, <1>6, <1>8, <2>1 DEF OneLinked16, Writer
<1>12. ParentPast16'
  BY <1>1, <1>2, <1>6, <1>7 DEF ParentPast16
<1>13. StaleParent16'
  BY <1>1, <1>2, <1>4, <1>9 DEF StaleParent16
<1>14. StaleChild16'
  BY <1>1, <1>2 DEF StaleChild16
<1>15. Early16'
  BY <1>1, <1>2, <1>6 DEF Early16
<1>16. Last16'
  <2>1. \A v \in Writer : pc16[v] \in {"wait", "post"} => Own16(v)' = Own16(v)
    BY <1>3, Apart16 DEF Writer
  <2> QED BY <1>1, <1>2, <1>5, <2>1 DEF Last16
<1> QED BY <1>10, <1>11, <1>12, <1>13, <1>14, <1>15, <1>16

(* The next run finds at most one post. *)
LEMMA RestartKeeps16 ==
  ASSUME Inv16Types, TurnsInv16, Lab16!Restart
  PROVE  TurnsInv16'
<1>1. /\ \A v \in Writer : /\ pc16[v] \in {"ended", "killed"} /\ pc16'[v] = "open1" /\ i16'[v] = 0
                           /\ sem16'[v][v] = 0
      /\ UNCHANGED <<link, value>> /\ last' = "none"
  BY DEF Lab16!Restart, Lab16!Fresh, Lab16!Closed, Lab16!None, Lab16!Name, Lab16!Writer, Lab16!Ended, Writer
<1>2. \A v \in Writer : /\ Linked16(v)' = Linked16(v) /\ Own16(v)' = Linked16(v)
                        /\ ~ InHand16(v)' /\ ~ Past16(v)'
                        /\ ~ Freeing16 /\ ~ Freeing16'
  BY <1>1 DEF Linked16, Own16, Lab16!None, InHand16, Past16, Freeing16
<1>3. \A v \in Writer : Posts16(v)' = Linked16(v) + 0 /\ Flying16(v)' = 0
  BY <1>2 DEF Posts16, Flying16
<1>4. \A v \in Writer : Linked16(v) \in Nat /\ Flying16(v) \in {0, 1}
  BY Values16
<1>5. Linked16("parent") + Linked16("child") <= 1
  BY <1>2, <1>4 DEF TurnsInv16, OneLinked16, Writer
<1> USE <1>1, <1>2, <1>3, <1>4, <1>5 DEF Writer
<1>6. OnePost16' /\ OneLinked16'
  BY DEF OnePost16, OneLinked16
<1>7. ParentPast16' /\ StaleParent16' /\ StaleChild16'
  BY DEF ParentPast16, StaleParent16, StaleChild16
<1>8. Early16' /\ Last16'
  BY DEF Early16, Last16
<1> QED BY <1>6, <1>7, <1>8 DEF TurnsInv16

(* A first run begins with the one post that the parent's name stands for. *)
LEMMA InitTurns16 == Lab16!Init => Turns16
<1> SUFFICES ASSUME Lab16!Init PROVE TurnsInv16
  BY DEF Turns16
<1>1. \A v \in Writer : /\ pc16[v] = "open1" /\ i16[v] = 0 /\ last = "none"
                        /\ sem16[v][v] = 0 /\ link[v] = 0
  BY DEF Lab16!Init, Lab16!Fresh, Lab16!Closed, Lab16!None, Lab16!Name, Lab16!Writer, Writer
<1>2. \A v \in Writer : /\ Linked16(v) = Lab16!Initially(v) /\ Own16(v) = Linked16(v)
                        /\ ~ InHand16(v) /\ ~ Past16(v) /\ ~ Freeing16
  BY <1>1 DEF Linked16, Own16, Lab16!None, InHand16, Past16, Freeing16
<1>3. \A v \in Writer : Posts16(v) = Lab16!Initially(v) + 0 /\ Flying16(v) = 0
  BY <1>2 DEF Posts16, Flying16
<1> USE <1>1, <1>2, <1>3 DEF Writer, Lab16!Initially
<1>4. OnePost16 /\ OneLinked16
  BY DEF OnePost16, OneLinked16
<1>5. ParentPast16 /\ StaleParent16 /\ StaleChild16
  BY DEF ParentPast16, StaleParent16, StaleChild16
<1>6. Early16 /\ Last16
  BY DEF Early16, Last16
<1> QED BY <1>4, <1>5, <1>6 DEF TurnsInv16

(* At most one post, unless somebody is killed between its two sem_unlinks. *)
LEMMA StepTurns16 == Inv16Types /\ Turns16 /\ [Lab16!Next]_vars16 => Turns16'
<1> SUFFICES ASSUME Inv16Types, Turns16, [Lab16!Next]_vars16, ~ cut', Count > 1 PROVE TurnsInv16'
  BY DEF Turns16
<1>1. ~ cut /\ \A w \in Writer : ~ (Lab16!Kill(w) /\ pc16[w] = "free2")
  BY DEF Lab16!Next, Lab16!Step, Lab16!Open, Lab16!Wait, Lab16!Write, Lab16!WriteFails, Lab16!Post, Lab16!Reap,
     Lab16!Unlink1, Lab16!Unlink2, Lab16!Kill, Lab16!Restart, vars16, Inv16Types, Lab16!TypeOK
<1>2. TurnsInv16
  BY <1>1 DEF Turns16
<1>3. ASSUME NEW w \in Writer, Lab16!Step(w) PROVE TurnsInv16'
  BY <1>2, <1>3, OpenKeeps16, WaitKeeps16, WriteKeeps16, PostKeeps16, Unlink1Keeps16, Unlink2Keeps16
     DEF Lab16!Step
<1>4. ASSUME NEW w \in Writer, Lab16!WriteFails(w) \/ Lab16!Kill(w) PROVE TurnsInv16'
  BY <1>1, <1>2, <1>4, LeavingKeeps16
<1>5. CASE Lab16!Reap
  <2>1. "parent" \in Writer
    BY DEF Writer
  <2> QED BY <1>2, <1>5, <2>1, LeavingKeeps16
<1>6. CASE Lab16!Restart
  BY <1>2, <1>6, RestartKeeps16
<1>7. CASE UNCHANGED vars16
  BY <1>2, <1>7 DEF vars16, TurnsInv16, OnePost16, OneLinked16, ParentPast16, StaleParent16, StaleChild16, Early16,
     Last16, Posts16, Own16, Linked16, Flying16, Freeing16, InHand16, Past16
<1> QED BY <1>3, <1>4, <1>5, <1>6, <1>7 DEF Lab16!Next, Lab16!Writer, Writer

(* A line is only written by the one whose line was not the last. *)
LEMMA Alternates16 ==
  Inv16Types /\ Turns16 /\ [Lab16!Next]_vars16 =>
    [\A w \in Writer : written16'[w] > written16[w] /\ ~ cut => last # w]_written16
<1> SUFFICES ASSUME Inv16Types, Turns16, [Lab16!Next]_vars16, written16' # written16, ~ cut,
                    NEW w \in Writer, written16'[w] > written16[w]
             PROVE  last # w
  OBVIOUS
<1>1. Lab16!Write(w) \/ Lab16!Restart
  <2>1. PICK v \in Writer : Lab16!Write(v) \/ Lab16!Restart
    BY DEF Lab16!Next, Lab16!Step, Lab16!Open, Lab16!Wait, Lab16!WriteFails, Lab16!Post, Lab16!Reap,
       Lab16!Unlink1, Lab16!Unlink2, Lab16!Kill, Lab16!Writer, Writer, vars16
  <2>2. CASE Lab16!Write(v) /\ v # w
    <3>1. written16'[w] = written16[w] /\ written16[w] \in Nat
      BY <2>2, CountAssumption DEF Lab16!Write, Inv16Types, Lab16!TypeOK, Lab16!Writer, Writer
    <3> QED BY <3>1
  <2> QED BY <2>1, <2>2
<1>2. CASE Lab16!Restart
  <2>1. written16'[w] = 0 /\ written16[w] \in Nat
    BY <1>2, CountAssumption DEF Lab16!Restart, Lab16!Fresh, Inv16Types, Lab16!TypeOK, Lab16!Writer, Writer
  <2> QED BY <2>1
<1>3. CASE Lab16!Write(w) /\ Count > 1
  BY <1>3, WriteKeeps16 DEF Turns16
<1>4. CASE Lab16!Write(w) /\ Count = 1
  <2>1. pc16[w] = "write"
    BY <1>4 DEF Lab16!Write
  <2>2. written16[w] < 1 /\ written16[w] \in Nat /\ (last = w => written16[w] > 0)
    BY <1>4, <2>1 DEF Inv16Types, Counted16, Lab16!TypeOK, Lab16!Writer, Writer
  <2> QED BY <2>2
<1> QED BY <1>1, <1>2, <1>3, <1>4, CountAssumption

-----------------------------------------------------------------------------
(* All three *)

(* Each program makes its own steps. *)
LEMMA ProgramSteps ==
  [MCNext]_<<program, vars14, vars11, vars16>> =>
    [Lab14!Next]_vars14 /\ [Lab11!Next]_vars11 /\ [Lab16!Next]_vars16
BY DEF MCNext

(* The invariants of the three programs together. *)
Inv == Inv14 /\ Inv11 /\ Inv16Types /\ Turns16

(* Each program keeps its own invariant, and the others stay where they are. *)
LEMMA TurnsInvariance == MCSpec => []Inv
<1>1. MCInit => Inv
  BY Init14, Init11, InitTypes16, InitTurns16 DEF MCInit, Inv
<1>2. Inv /\ [MCNext]_<<program, vars14, vars11, vars16>> => Inv'
  BY ProgramSteps, Step14, Step11, Step16Types, StepTurns16 DEF Inv
<1> QED BY <1>1, <1>2, PTL DEF MCSpec

(* The variables of all three programs keep their types: nobody writes     *)
(* more than Count lines, and no semaphore runs below 0.                   *)
THEOREM TypesOfAllThree == MCSpec => []MCTypeOK
<1>1. Inv => MCTypeOK
  BY DEF Inv, Inv14, Inv11, Inv16Types, MCTypeOK
<1> QED BY <1>1, TurnsInvariance, PTL

(* No error checking mutex of 11.c reports an error, and the lock is       *)
(* handed over; the joined child of 14.c has left no line out, unless a      *)
(* write failed.                                                             *)
THEOREM InStep == MCSpec => []NothingOutOfStep
<1>1. Inv11 => Lab11!NoMutexError /\ Lab11!Handover
  BY Ring DEF Inv11, Lab11!Handover, Held11, Has11, Lab11!TypeOK, Lab11!Writer, Writer
<1>2. Inv14 => Lab14!JoinedAtTheEnd
  BY DEF Inv14, Lab14!TypeOK, Joined14, Counted14, Lab14!JoinedAtTheEnd, Lab14!Failed, Lab14!Writer
<1>3. Inv => NothingOutOfStep
  BY <1>1, <1>2 DEF Inv, NothingOutOfStep
<1> QED BY <1>3, TurnsInvariance, PTL

(* The semaphores of 14.c and the mutexes of 11.c both implement the       *)
(* steps of Alternation, failed writes included.                           *)
THEOREM BothImplementAlternation == MCSpec => TakeTurns
<1>1. MCInit => Lab14!Init /\ Lab11!Abstract!Init /\ Lab14!Abstract!Init
  BY Refine11, Refine14 DEF MCInit
<1>2. Inv /\ [MCNext]_<<program, vars14, vars11, vars16>> => [Lab14!Abstract!Next]_<<written14, Lab14!Failed>>
  BY ProgramSteps, Refine14 DEF Inv
<1>3. Inv /\ [MCNext]_<<program, vars14, vars11, vars16>> =>
        [Lab11!Abstract!Next]_<<written11, {w \in Lab11!Writer : pc11[w] \in {"failed", "error"}}>>
  <2>1. Lab11!Writer = Writer
    BY DEF Lab11!Writer, Writer
  <2> QED BY <2>1, ProgramSteps, Refine11 DEF Inv
<1> QED
  BY <1>1, <1>2, <1>3, TurnsInvariance, PTL
     DEF MCSpec, TakeTurns, Lab14!AlternationSafe, Lab14!Abstract!SafeSpec, Lab11!AlternationSafe, Lab11!Abstract!SafeSpec

(* 16.c: over kills and restarts no two lines in a row are of the same     *)
(* process.                                                                *)
THEOREM NamedSemaphoresAlternate == MCSpec => LinesAlternate
<1>1. Inv /\ [MCNext]_<<program, vars14, vars11, vars16>> =>
        [\A w \in Lab16!Writer : written16'[w] > written16[w] /\ ~ cut => last # w]_written16
  <2>1. Lab16!Writer = Writer
    BY DEF Lab16!Writer, Writer
  <2> QED BY <2>1, ProgramSteps, Alternates16 DEF Inv
<1> QED
  BY <1>1, TurnsInvariance, PTL DEF MCSpec, LinesAlternate, Lab16!LinesAlternate

-----------------------------------------------------------------------------
(* Who can go on: the guards of the steps, without the failing write. *)
CanMove14(w) ==
  \/ pc14[w] \in {"create", "write", "post"}
  \/ pc14[w] = "wait" /\ sem14[w] > 0
  \/ w = "parent" /\ pc14[w] = "done" /\ pc14["child"] = "done" /\ ~ joined14

CanMove11(w) ==
  \/ pc11[w] \in {"create", "trylock", "retry", "write", "unlock", "last"}
  \/ pc11[w] = "start" /\ mutex[2] = Lab11!Nobody
  \/ pc11[w] = "lock" /\ mutex[Lab11!Next_mutex(w)] = Lab11!Nobody

(* As long as no write has failed, somebody can go on up to the join.      *)
NobodyStuck14 == Lab14!Failed # {} \/ joined14 \/ \E w \in Writer : CanMove14(w)

NobodyStuck11 ==
  \/ \E w \in Writer : pc11[w] = "failed" \/ CanMove11(w)
  \/ \A w \in Writer : pc11[w] = "done"

LEMMA Moves14 == Inv14 => NobodyStuck14
<1> SUFFICES ASSUME Inv14, Lab14!Failed = {}, ~ joined14, \A w \in Writer : ~ CanMove14(w)
             PROVE  FALSE
  BY DEF NobodyStuck14
<1> USE CountAssumption DEF Inv14, Lab14!TypeOK, Lab14!Writer, Writer
<1>1. \A w \in Writer : pc14[w] \in {"wait", "done"}
  BY DEF CanMove14, Lab14!Failed, Begun14
<1>2. sem14["parent"] > 0 \/ sem14["child"] > 0
  BY <1>1 DEF OneSem14, Busy14
<1>3. CASE sem14["parent"] > 0
  <2>1. pc14["parent"] = "done" /\ written14["parent"] = Count /\ written14["child"] = Count
    BY <1>1, <1>3 DEF CanMove14, Counted14, ParentsTurn14
  <2>2. pc14["child"] = "done"
    BY <1>1, <2>1 DEF Counted14
  <2> QED BY <2>1, <2>2 DEF CanMove14
<1>4. CASE sem14["child"] > 0
  BY <1>1, <1>4 DEF CanMove14, Counted14, ChildsTurn14
<1> QED BY <1>2, <1>3, <1>4

LEMMA Moves11 == Inv11 => NobodyStuck11
<1> SUFFICES ASSUME Inv11, \A w \in Writer : pc11[w] # "failed" /\ ~ CanMove11(w),
                    NEW v \in Writer, pc11[v] # "done"
             PROVE  FALSE
  BY DEF NobodyStuck11
<1> USE CountAssumption, Ring DEF Inv11, Lab11!TypeOK, Lab11!Writer, Writer, Lab11!Nobody
<1>1. \A w \in Writer : pc11[w] \in {"none", "start", "lock", "done"}
  BY DEF CanMove11, Lab11!NoMutexError
<1>2. pc11["parent"] \in {"lock", "done"} /\ pc11["child"] \in {"lock", "done"}
  BY <1>1 DEF Handshake11
<1>3. \A w \in Writer : Has11(w) = IF pc11[w] = "lock" THEN {cur_mutex[w]} ELSE {}
  BY <1>2 DEF Has11
<1>4. CASE pc11["parent"] = "lock" /\ mutex[Lab11!Next_mutex("parent")] = "child"
  <2>1. pc11["child"] = "lock" /\ cur_mutex["child"] = Lab11!Next_mutex("parent")
    BY <1>2, <1>3, <1>4 DEF Held11
  <2>2. Lab11!Next_mutex("child") # cur_mutex["parent"] /\ Lab11!Next_mutex("child") # cur_mutex["child"]
    BY <2>1
  <2>3. mutex[Lab11!Next_mutex("child")] = "nobody"
    BY <1>2, <1>3, <2>1, <2>2 DEF Held11
  <2> QED BY <2>1, <2>3 DEF CanMove11
<1>5. CASE pc11["child"] = "lock" /\ mutex[Lab11!Next_mutex("child")] = "parent"
  <2>1. pc11["parent"] = "lock" /\ cur_mutex["parent"] = Lab11!Next_mutex("child")
    BY <1>2, <1>3, <1>5 DEF Held11
  <2>2. Lab11!Next_mutex("parent") # cur_mutex["parent"] /\ Lab11!Next_mutex("parent") # cur_mutex["child"]
    BY <2>1
  <2>3. mutex[Lab11!Next_mutex("parent")] = "nobody"
    BY <1>2, <1>3, <2>1, <2>2 DEF Held11
  <2> QED BY <2>1, <2>3 DEF CanMove11
<1>6. \A w \in Writer : pc11[w] = "lock" => mutex[Lab11!Next_mutex(w)] # w
  BY <1>3 DEF Held11
<1> QED BY <1>2, <1>4, <1>5, <1>6 DEF CanMove11

(* Neither 14.c nor 11.c deadlocks, for any number of lines: what ends     *)
(* them before their last line is a write that fails.                      *)
THEOREM NoDeadlock == MCSpec => [](NobodyStuck14 /\ NobodyStuck11)
<1>1. Inv => NobodyStuck14 /\ NobodyStuck11
  BY Moves14, Moves11 DEF Inv
<1> QED BY <1>1, TurnsInvariance, PTL

-----------------------------------------------------------------------------
(* What Alternation's steps amount to: the parent is at most one line      *)
(* ahead, the child never, and nobody writes more than Count lines.        *)
OneAhead(w) == /\ w \in [Writer -> 0..Count]
               /\ w["parent"] = w["child"] \/ w["parent"] = w["child"] + 1

LEMMA Ahead14 == Lab14!AlternationSafe => []OneAhead(written14)
<1> USE CountAssumption DEF Writer, Lab14!Abstract!Writer
<1>1. Lab14!Abstract!Init => OneAhead(written14)
  BY DEF Lab14!Abstract!Init, OneAhead
<1>2. ASSUME OneAhead(written14), [Lab14!Abstract!Next]_<<written14, Lab14!Failed>>
      PROVE  OneAhead(written14)'
  BY <1>2 DEF OneAhead, Lab14!Abstract!Next, Lab14!Abstract!WriteLine, Lab14!Abstract!Stop, Lab14!Abstract!Turn
<1> QED BY <1>1, <1>2, PTL DEF Lab14!AlternationSafe, Lab14!Abstract!SafeSpec

LEMMA Ahead11 == Lab11!AlternationSafe => []OneAhead(written11)
<1> USE CountAssumption DEF Writer, Lab11!Abstract!Writer
<1> DEFINE stopped == {w \in Lab11!Writer : pc11[w] \in {"failed", "error"}}
<1>1. Lab11!Abstract!Init => OneAhead(written11)
  BY DEF Lab11!Abstract!Init, OneAhead
<1>2. ASSUME OneAhead(written11), [Lab11!Abstract!Next]_<<written11, stopped>>
      PROVE  OneAhead(written11)'
  BY <1>2 DEF OneAhead, Lab11!Abstract!Next, Lab11!Abstract!WriteLine, Lab11!Abstract!Stop, Lab11!Abstract!Turn
<1> QED BY <1>1, <1>2, PTL DEF Lab11!AlternationSafe, Lab11!Abstract!SafeSpec

(* In 14.c and 11.c alike the parent's and the child's lines differ by one *)
(* at most, whoever fails: what was proved of Alternation holds of both.   *)
THEOREM AtMostOneAhead == MCSpec => [](OneAhead(written14) /\ OneAhead(written11))
BY BothImplementAlternation, Ahead14, Ahead11, PTL DEF TakeTurns
=============================================================================
