--------------------------- MODULE Philosophers22 ---------------------------
(***************************************************************************)
(* lab22/22.c: philosophers that take their forks with trylock inside a    *)
(* monitor (monlock).  Who does not get both puts dish and fork back and   *)
(* waits on the condition until allowed_to_wake; who has eaten sets it and *)
(* wakes all.  A philosopher that has been woken still holds monlock when  *)
(* it goes for its next dish.                                              *)
(*                                                                         *)
(* A step is what happens between two points at which other threads can    *)
(* interfere; forks are only touched under monlock, food under foodlock.   *)
(***************************************************************************)
EXTENDS Integers, FiniteSets

CONSTANTS
  N,       \* PHILO
  Food     \* FOOD

ASSUME PhilosophersAssumption ==
  /\ N \in Nat /\ N > 1
  /\ Food \in Nat \ {0}

Philosopher == 0..(N - 1)
Nobody == N

VARIABLES
  food,             \* what is on the table
  allowed_to_wake,
  monlock,          \* the monitor's holder
  fork,             \* a fork's holder
  pc, awaken,       \* a philosopher
  signalled,        \* who has been woken and waits for monlock
  meals             \* history: the meals that have begun

vars == <<food, allowed_to_wake, monlock, fork, pc, awaken, signalled, meals>>

Left(p) == IF p + 1 = N THEN 0 ELSE p + 1
Right(p) == p

Init ==
  /\ food = Food
  /\ allowed_to_wake = FALSE
  /\ monlock = Nobody
  /\ fork = [f \in Philosopher |-> Nobody]
  /\ pc = [p \in Philosopher |-> "hungry"]
  /\ awaken = [p \in Philosopher |-> FALSE]
  /\ signalled = {}
  /\ meals = 0

Goto(p, place) == pc' = [pc EXCEPT ![p] = place]

-----------------------------------------------------------------------------
(* Mutant of LeftOver: the last dish is taken more than once. *)
BadLeftOver(n) == n - 1

LeftOver(n) == IF n > 0 THEN n - 1 ELSE n

(* food_on_table, which returns what is left. *)
TakeDish(p) ==
  /\ pc[p] = "hungry"
  /\ food' = LeftOver(food)
  /\ Goto(p, IF food' = 0 THEN "leave" ELSE IF awaken[p] THEN "try" ELSE "enter")
  /\ UNCHANGED <<allowed_to_wake, monlock, fork, awaken, signalled, meals>>

Enter(p) ==
  /\ pc[p] = "enter" /\ monlock = Nobody
  /\ monlock' = p
  /\ Goto(p, "try")
  /\ UNCHANGED <<food, allowed_to_wake, fork, awaken, signalled, meals>>

(* Both calls of try_get_fork succeed. *)
Free(p) == fork[Left(p)] = Nobody /\ fork[Right(p)] = Nobody

(* drop_food *)
PutBack(n) == n + 1

(* try_get_fork, left then right: eat with both, or give all back and      *)
(* wait.  allowed_to_wake is reset in either case.                         *)
Try(p) ==
  /\ pc[p] = "try"
  /\ awaken' = [awaken EXCEPT ![p] = FALSE]
  /\ allowed_to_wake' = FALSE
  /\ monlock' = Nobody
  /\ IF Free(p)
       THEN /\ fork' = [fork EXCEPT ![Left(p)] = p, ![Right(p)] = p]
            /\ meals' = meals + 1
            /\ Goto(p, "eat")
            /\ UNCHANGED food
       ELSE /\ food' = PutBack(food)
            /\ Goto(p, "asleep")
            /\ UNCHANGED <<fork, meals>>
  /\ UNCHANGED signalled

(* pthread_cond_wait returns without a signal. *)
SpuriousWakeup(p) ==
  /\ pc[p] = "asleep" /\ p \notin signalled
  /\ signalled' = signalled \cup {p}
  /\ UNCHANGED <<food, allowed_to_wake, monlock, fork, pc, awaken, meals>>

(* Awake, and monlock is free: go on with it, or go back to sleep.         *)
WakeUp(p) ==
  /\ p \in signalled /\ monlock = Nobody
  /\ signalled' = signalled \ {p}
  /\ IF allowed_to_wake
       THEN monlock' = p /\ awaken' = [awaken EXCEPT ![p] = TRUE] /\ Goto(p, "hungry")
       ELSE UNCHANGED <<monlock, awaken, pc>>
  /\ UNCHANGED <<food, allowed_to_wake, fork, meals>>

Asleep == {p \in Philosopher : pc[p] = "asleep" /\ p \notin signalled}

(* Mutant of Dropped: the flag is not set before the broadcast. *)
BadDropped(p) ==
  /\ fork' = [fork EXCEPT ![Left(p)] = Nobody, ![Right(p)] = Nobody]
  /\ allowed_to_wake' = allowed_to_wake

(* drop_forks *)
Dropped(p) ==
  /\ fork' = [fork EXCEPT ![Left(p)] = Nobody, ![Right(p)] = Nobody]
  /\ allowed_to_wake' = TRUE

(* The meal is over: forks down, flag up and the broadcast, under monlock. *)
FinishMeal(p) ==
  /\ pc[p] = "eat" /\ monlock = Nobody
  /\ Dropped(p)
  /\ signalled' = signalled \cup Asleep
  /\ Goto(p, "hungry")
  /\ UNCHANGED <<food, monlock, awaken, meals>>

(* pthread_cond_signal: at least one of those asleep, if there is any.     *)
WakesOne(W) == W \subseteq Asleep /\ (Asleep # {} => W # {})

(* No dish is left.  Who still holds monlock wakes another one, and        *)
(* releases it.                                                            *)
Leave(p) ==
  /\ pc[p] = "leave"
  /\ Goto(p, "gone")
  /\ IF awaken[p]
       THEN /\ allowed_to_wake' = TRUE
            /\ \E W \in SUBSET Asleep : WakesOne(W) /\ signalled' = signalled \cup W
            /\ monlock' = Nobody
       ELSE UNCHANGED <<allowed_to_wake, signalled, monlock>>
  /\ UNCHANGED <<food, fork, awaken, meals>>

(* main joins them all. *)
Join ==
  /\ \A p \in Philosopher : pc[p] = "gone"
  /\ UNCHANGED vars

-----------------------------------------------------------------------------
Step(p) ==
  \/ TakeDish(p) \/ Enter(p) \/ Try(p) \/ WakeUp(p) \/ FinishMeal(p) \/ Leave(p)

Next == Join \/ \E p \in Philosopher : Step(p) \/ SpuriousWakeup(p)

SafeSpec == Init /\ [][Next]_vars

(* Threads are scheduled; nothing is assumed of who gets monlock. *)
Spec == SafeSpec /\ \A p \in Philosopher : WF_vars(Step(p))

-----------------------------------------------------------------------------
TypeOK ==
  /\ food \in 0..Food
  /\ allowed_to_wake \in BOOLEAN
  /\ monlock \in Philosopher \cup {Nobody}
  /\ fork \in [Philosopher -> Philosopher \cup {Nobody}]
  /\ pc \in [Philosopher -> {"hungry", "enter", "try", "eat", "asleep", "leave", "gone"}]
  /\ awaken \in [Philosopher -> BOOLEAN]
  /\ signalled \in SUBSET Philosopher
  /\ meals \in Nat

(* A fork is held by who eats with it, and by nobody else: so neighbours   *)
(* never eat at the same time (Abstract).                                  *)
ForksOfEaters ==
  \A f, p \in Philosopher : fork[f] = p <=> pc[p] = "eat" /\ f \in {Left(p), Right(p)}

InHand == {p \in Philosopher : pc[p] \in {"enter", "try"}}

Gone == {p \in Philosopher : pc[p] \in {"leave", "gone"}}

(* No dish is lost by putting it back: each is on the table, in a hand or  *)
(* eaten, except for the last ones, which leave with the philosopher that  *)
(* finds them the last.                                                    *)
DishesCounted ==
  LET lost == Food - food - meals - Cardinality(InHand)
  IN  lost \in 0..Cardinality(Gone)

(* Although whoever tries for forks resets allowed_to_wake under the feet  *)
(* of those that the last broadcast has woken, somebody asleep is never    *)
(* forgotten: there is one who eats and will wake them all, one in the     *)
(* monitor, or one woken that may go on.                                   *)
NoLostWakeup ==
  Asleep # {} =>
    \/ \E p \in Philosopher : pc[p] = "eat"
    \/ monlock # Nobody
    \/ allowed_to_wake /\ signalled # {}

(* Everyone's while loop ends and main joins them. *)
AllLeave == <>(\A p \in Philosopher : pc[p] = "gone")

(* Eating, and the number of meals, are those of Dinner. *)
Abstract == INSTANCE Dinner WITH eating <- {p \in Philosopher : pc[p] = "eat"}

DinnerSafe == Abstract!SafeSpec

ImplementsDinner == Abstract!Spec
=============================================================================
