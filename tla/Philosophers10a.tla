-------------------------- MODULE Philosophers10a --------------------------
(***************************************************************************)
(* lab10/10andrey.c: philosophers that lock their two forks one after the  *)
(* other, the lower number first.  A thread gets the address of main's     *)
(* loop variable and reads its number there while main goes on: two may    *)
(* read the same number, and one that reads after the loop finds PHILO,    *)
(* which is no seat: its forks are beyond the array, and what becomes of   *)
(* it once it has a dish is not modelled, except that it does not end.     *)
(***************************************************************************)
EXTENDS Integers, FiniteSets

CONSTANTS
  N,       \* PHILO
  Food     \* FOOD

Thread == 0..(N - 1)
Seat == 0..(N - 1)
Nobody == N

VARIABLES
  main, i,     \* main's place and its loop variable
  food,
  fork,        \* a fork's holder, a thread
  pc, id,
  meals        \* history: the meals that have begun

vars == <<main, i, food, fork, pc, id, meals>>

Init ==
  /\ main = "create" /\ i = 0
  /\ food = Food
  /\ fork = [f \in Seat |-> Nobody]
  /\ pc = [t \in Thread |-> "none"]
  /\ id = [t \in Thread |-> N]
  /\ meals = 0

Goto(t, place) == pc' = [pc EXCEPT ![t] = place]

-----------------------------------------------------------------------------
Create ==
  /\ main = "create"
  /\ Goto(i, "starts")
  /\ main' = "next"
  /\ UNCHANGED <<i, food, fork, id, meals>>

(* i++ of the first loop *)
Increment ==
  /\ main = "next"
  /\ i' = i + 1
  /\ main' = IF i + 1 < N THEN "create" ELSE "reset"
  /\ UNCHANGED <<food, fork, pc, id, meals>>

(* i = 0 of the second loop *)
Reset ==
  /\ main = "reset"
  /\ i' = 0
  /\ main' = "join"
  /\ UNCHANGED <<food, fork, pc, id, meals>>

Join ==
  /\ main = "join" /\ pc[i] = "gone"
  /\ i' = i + 1
  /\ main' = IF i + 1 < N THEN "join" ELSE "end"
  /\ UNCHANGED <<food, fork, pc, id, meals>>

End == main = "end" /\ UNCHANGED vars

(* The thread reads its number from main's variable. *)
ReadNumber(t) ==
  /\ pc[t] = "starts"
  /\ id' = [id EXCEPT ![t] = i]
  /\ Goto(t, "table")
  /\ UNCHANGED <<main, i, food, fork, meals>>

LeftOver(n) == IF n > 0 THEN n - 1 ELSE n

(* food_on_table, which returns what is left. *)
TakeDish(t) ==
  /\ pc[t] = "table"
  /\ food' = LeftOver(food)
  /\ Goto(t, IF food' = 0 THEN "gone" ELSE IF id[t] \in Seat THEN "first" ELSE "stray")
  /\ UNCHANGED <<main, i, fork, id, meals>>

right_fork(t) == id[t]
left_fork(t) == IF id[t] + 1 = N THEN 0 ELSE id[t] + 1

(* Mutant of First: the right one first, for everybody. *)
BadFirst(t) == right_fork(t)

(* get_forks locks the lower one first ... *)
First(t) == IF right_fork(t) < left_fork(t) THEN right_fork(t) ELSE left_fork(t)

(* ... then the other one; down_forks starts with it. *)
Second(t) == IF First(t) = right_fork(t) THEN left_fork(t) ELSE right_fork(t)

(* Mutant of Obtain: the fork is not waited for. *)
BadObtain(t, f) == fork' = [fork EXCEPT ![f] = t]

(* get_fork *)
Obtain(t, f) == fork[f] = Nobody /\ fork' = [fork EXCEPT ![f] = t]

LockFirst(t) ==
  /\ pc[t] = "first"
  /\ Obtain(t, First(t))
  /\ Goto(t, "second")
  /\ UNCHANGED <<main, i, food, id, meals>>

(* The meal begins. *)
LockSecond(t) ==
  /\ pc[t] = "second"
  /\ Obtain(t, Second(t))
  /\ meals' = meals + 1
  /\ Goto(t, "eats")
  /\ UNCHANGED <<main, i, food, id>>

UnlockSecond(t) ==
  /\ pc[t] = "eats"
  /\ fork' = [fork EXCEPT ![Second(t)] = Nobody]
  /\ Goto(t, "done")
  /\ UNCHANGED <<main, i, food, id, meals>>

UnlockFirst(t) ==
  /\ pc[t] = "done"
  /\ fork' = [fork EXCEPT ![First(t)] = Nobody]
  /\ Goto(t, "table")
  /\ UNCHANGED <<main, i, food, id, meals>>

-----------------------------------------------------------------------------
Main == Create \/ Increment \/ Reset \/ Join

Step(t) ==
  \/ ReadNumber(t) \/ TakeDish(t)
  \/ LockFirst(t) \/ LockSecond(t) \/ UnlockSecond(t) \/ UnlockFirst(t)

Next == Main \/ End \/ \E t \in Thread : Step(t)

SafeSpec == Init /\ [][Next]_vars

(* Threads are scheduled; nothing is assumed of who gets a fork. *)
Spec == SafeSpec /\ WF_vars(Main) /\ \A t \in Thread : WF_vars(Step(t))

-----------------------------------------------------------------------------
TypeOK ==
  /\ main \in {"create", "next", "reset", "join", "end"}
  /\ i \in 0..N
  /\ food \in 0..Food
  /\ fork \in [Seat -> Thread \cup {Nobody}]
  /\ pc \in [Thread -> {"none", "starts", "stray", "table", "first", "second", "eats", "done",
                        "gone"}]
  /\ id \in [Thread -> Seat \cup {N}]
  /\ meals \in Nat

Stray == \E t \in Thread : pc[t] = "stray"

(* Whatever numbers the threads have read, also if two sit on the same     *)
(* seat, a fork is held by the thread that has locked it and not yet       *)
(* unlocked it.                                                            *)
ForksOfHolders ==
  \A f \in Seat, t \in Thread :
    fork[f] = t <=>
      \/ pc[t] \in {"second", "eats", "done"} /\ f = First(t)
      \/ pc[t] = "eats" /\ f = Second(t)

(* No circle of philosophers that wait for each other's forks: the program *)
(* ends, with the nap of number 1 or without it, if everybody has a seat.  *)
EndsIfSeated == <>(main = "end" \/ Stray)

(* Eating, and the number of meals, are those of Dinner, also when two     *)
(* threads have the same number.                                           *)
Abstract == INSTANCE Dinner WITH eating <- {id[t] : t \in {u \in Thread : pc[u] = "eats"}}

ImplementsDinner == Abstract!Spec

=============================================================================
