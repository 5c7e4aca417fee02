--------------------------- MODULE Philosophers10 ---------------------------
(***************************************************************************)
(* lab10/10.c: philosophers with a state each and a semaphore each.        *)
(* Whoever is hungry tests itself, and whoever has eaten tests its         *)
(* neighbours, under forklock; who passes the test eats when it comes      *)
(* back from sem_wait, which may be before the tester, another philosopher *)
(* often enough, has locked its forks for it.                              *)
(*                                                                         *)
(* The region under forklock is cut at sem_post, the one thing in it that  *)
(* others see.  sem_init and state[i] = THINKING are not in the loop above *)
(* them (the braces are missing), but what they would write is zero, as    *)
(* the globals are anyway.  A fork is unlocked by another thread than the  *)
(* one that locked it, which a mutex of the default kind lets pass.        *)
(***************************************************************************)
EXTENDS Integers, FiniteSets, Sequences

CONSTANTS
  N,       \* PHILO
  Food     \* FOOD

Philosopher == 0..(N - 1)
Nobody == N

VARIABLES
  food,
  forklock,      \* its holder
  todo, taking,  \* its holder's: whom it has to test yet, whose forks it takes
  state,
  s,             \* a philosopher's semaphore
  fork,          \* is it locked?
  pc,
  meals          \* history: the meals that have begun

vars == <<food, forklock, todo, taking, state, s, fork, pc, meals>>

LEFT(i) == (i + N - 1) % N
RIGHT(i) == (i + 1) % N

(* sem_init(&s[i], 0, 0) *)
Posts == 0

Init ==
  /\ food = Food
  /\ forklock = Nobody
  /\ todo = <<>> /\ taking = Nobody
  /\ state = [p \in Philosopher |-> "THINKING"]
  /\ s = [p \in Philosopher |-> Posts]
  /\ fork = [f \in Philosopher |-> FALSE]
  /\ pc = [p \in Philosopher |-> "table"]
  /\ meals = 0

Goto(p, place) == pc' = [pc EXCEPT ![p] = place]

-----------------------------------------------------------------------------
LeftOver(n) == IF n > 0 THEN n - 1 ELSE n

(* food_on_table, which returns what is left. *)
TakeDish(p) ==
  /\ pc[p] = "table"
  /\ food' = LeftOver(food)
  /\ Goto(p, IF food' = 0 THEN "gone" ELSE "hungry")
  /\ UNCHANGED <<forklock, todo, taking, state, s, fork, meals>>

Ask(p) ==
  /\ pc[p] = "hungry" /\ forklock = Nobody
  /\ forklock' = p
  /\ state' = [state EXCEPT ![p] = "HUNGRY"]
  /\ todo' = <<p>>
  /\ Goto(p, "asks")
  /\ UNCHANGED <<food, taking, s, fork, meals>>

Passes(i) == state[i] = "HUNGRY" /\ state[LEFT(i)] # "EATING" /\ state[RIGHT(i)] # "EATING"

(* test, up to its sem_post. *)
Test(p) ==
  /\ forklock = p /\ todo # <<>> /\ taking = Nobody
  /\ LET i == Head(todo) IN
       IF Passes(i)
         THEN /\ state' = [state EXCEPT ![i] = "EATING"]
              /\ s' = [s EXCEPT ![i] = @ + 1]
              /\ taking' = i
              /\ UNCHANGED todo
         ELSE /\ todo' = Tail(todo)
              /\ UNCHANGED <<state, s, taking>>
  /\ UNCHANGED <<food, forklock, fork, pc, meals>>

Forks(p) == {p, RIGHT(p)}

(* get_forks: blocks if one of the two is locked. *)
GetForks(p) ==
  /\ forklock = p /\ taking # Nobody
  /\ \A f \in Forks(taking) : ~ fork[f]
  /\ fork' = [f \in Philosopher |-> fork[f] \/ f \in Forks(taking)]
  /\ taking' = Nobody
  /\ todo' = Tail(todo)
  /\ UNCHANGED <<food, forklock, state, s, pc, meals>>

Unlock(p) ==
  /\ forklock = p /\ todo = <<>>
  /\ forklock' = Nobody
  /\ Goto(p, IF pc[p] = "asks" THEN "waits" ELSE "table")
  /\ UNCHANGED <<food, todo, taking, state, s, fork, meals>>

(* sem_wait, and the meal begins. *)
Eat(p) ==
  /\ pc[p] = "waits" /\ s[p] > 0
  /\ s' = [s EXCEPT ![p] = @ - 1]
  /\ meals' = meals + 1
  /\ Goto(p, "eats")
  /\ UNCHANGED <<food, forklock, todo, taking, state, fork>>

(* Mutant of ToTest: the neighbour on the left is forgotten. *)
BadToTest(p) == <<RIGHT(p)>>

ToTest(p) == <<RIGHT(p), LEFT(p)>>

DownForks(p) == [f \in Philosopher |-> fork[f] /\ f \notin Forks(p)]

Finish(p) ==
  /\ pc[p] = "eats" /\ forklock = Nobody
  /\ forklock' = p
  /\ state' = [state EXCEPT ![p] = "THINKING"]
  /\ fork' = DownForks(p)
  /\ todo' = ToTest(p)
  /\ Goto(p, "done")
  /\ UNCHANGED <<food, taking, s, meals>>

(* main joins them all. *)
Join ==
  /\ \A p \in Philosopher : pc[p] = "gone"
  /\ UNCHANGED vars

-----------------------------------------------------------------------------
Step(p) ==
  \/ TakeDish(p) \/ Ask(p) \/ Test(p) \/ GetForks(p) \/ Unlock(p) \/ Eat(p) \/ Finish(p)

Next == Join \/ \E p \in Philosopher : Step(p)

SafeSpec == Init /\ [][Next]_vars

(* Threads are scheduled; nothing is assumed of who gets forklock.         *)
Spec == SafeSpec /\ \A p \in Philosopher : WF_vars(Step(p))

-----------------------------------------------------------------------------
TypeOK ==
  /\ food \in 0..Food
  /\ forklock \in Philosopher \cup {Nobody}
  /\ todo \in Seq(Philosopher) /\ Len(todo) <= 2
  /\ taking \in Philosopher \cup {Nobody}
  /\ state \in [Philosopher -> {"THINKING", "HUNGRY", "EATING"}]
  /\ s \in [Philosopher -> 0..1]
  /\ fork \in [Philosopher -> BOOLEAN]
  /\ pc \in [Philosopher -> {"table", "hungry", "asks", "waits", "eats", "done", "gone"}]
  /\ meals \in Nat

(* The forks are always locked for exactly those whose state is EATING,    *)
(* but for the one for whom they are being locked, whoever locks them;     *)
(* those two are free, so that nobody blocks in get_forks under forklock.  *)
ForksOfEaters ==
  \A f \in Philosopher :
    fork[f] <=> \E p \in Philosopher : state[p] = "EATING" /\ f \in Forks(p) /\ p # taking

(* One post for each test passed, consumed by the philosopher itself, who  *)
(* eats only while its state is EATING: a post too many would let it eat   *)
(* again without forks.                                                    *)
OnePostPerMeal ==
  \A p \in Philosopher :
    /\ s[p] = IF state[p] = "EATING" /\ pc[p] \in {"asks", "waits"} THEN 1 ELSE 0
    /\ pc[p] = "eats" => state[p] = "EATING"

(* When nobody is at it, whoever waits hungry has a neighbour who eats and *)
(* will test it: nobody is forgotten.                                      *)
NobodyForgotten ==
  forklock = Nobody =>
    \A p \in Philosopher :
      state[p] = "HUNGRY" => \E q \in {LEFT(p), RIGHT(p)} : state[q] = "EATING"

(* Everyone's while loop ends and main joins them. *)
AllLeave == <>(\A p \in Philosopher : pc[p] = "gone")

(* Eating, and the number of meals, are those of Dinner. *)
Abstract == INSTANCE Dinner WITH eating <- {p \in Philosopher : pc[p] = "eats"}

ImplementsDinner == Abstract!Spec
=============================================================================
