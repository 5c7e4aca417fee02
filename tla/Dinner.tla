------------------------------- MODULE Dinner -------------------------------
(***************************************************************************)
(* What the dining philosophers of labs 10 and 22 promise, with no forks,  *)
(* locks or semaphores in it: neighbours do not eat at the same time,      *)
(* every meal ends, and there are no more meals than dishes.               *)
(* Philosophers10, Philosophers10a and Philosophers22 implement it.        *)
(***************************************************************************)
EXTENDS Integers, FiniteSets

CONSTANTS
  N,       \* PHILO, the number of seats
  Food     \* FOOD, the dishes on the table

VARIABLES
  eating,  \* the seats at which somebody eats
  meals    \* how many meals have begun

Seat == 0..(N - 1)

NextSeat(s) == IF s + 1 = N THEN 0 ELSE s + 1

Neighbours(s) == {t \in Seat : t = NextSeat(s) \/ s = NextSeat(t)}

Init == eating = {} /\ meals = 0

(* The last dish is announced as no dish at all (food_on_table), so one    *)
(* is always left over.                                                    *)
Begin(s) ==
  /\ s \notin eating /\ Neighbours(s) \cap eating = {}
  /\ meals < Food - 1
  /\ eating' = eating \cup {s}
  /\ meals' = meals + 1

Finish(s) ==
  /\ s \in eating
  /\ eating' = eating \ {s}
  /\ UNCHANGED meals

Next == \E s \in Seat : Begin(s) \/ Finish(s)

SafeSpec == Init /\ [][Next]_<<eating, meals>>

Spec == SafeSpec /\ \A s \in Seat : WF_<<eating, meals>>(Finish(s))
=============================================================================
