------------------------------ MODULE MCDinner ------------------------------
(***************************************************************************)
(* The three programs with philosophers, one of them at a time: the others *)
(* stay at their beginning.                                                *)
(***************************************************************************)
EXTENDS Philosophers22

CONSTANT Few  \* PHILO of 10andrey.c

ASSUME FewAssumption == Few \in Nat /\ Few > 1

VARIABLES
  program,
  food10, forklock, todo, taking, state, s, fork10, pc10, meals10,
  main, i, food10a, fork10a, pc10a, id, meals10a

vars10 == <<food10, forklock, todo, taking, state, s, fork10, pc10, meals10>>
vars10a == <<main, i, food10a, fork10a, pc10a, id, meals10a>>

Lab10 == INSTANCE Philosophers10
           WITH food <- food10, fork <- fork10, pc <- pc10, meals <- meals10

Lab10a == INSTANCE Philosophers10a
            WITH N <- Few, food <- food10a, fork <- fork10a, pc <- pc10a, meals <- meals10a

MCInit ==
  /\ program \in {"22", "10", "10a"}
  /\ Init /\ Lab10!Init /\ Lab10a!Init

MCNext ==
  /\ UNCHANGED program
  /\ \/ program = "22" /\ Next /\ UNCHANGED <<vars10, vars10a>>
     \/ program = "10" /\ Lab10!Next /\ UNCHANGED <<vars, vars10a>>
     \/ program = "10a" /\ Lab10a!Next /\ UNCHANGED <<vars, vars10>>

(* The fairness of each program, while it is the one that runs. *)
MCSpec ==
  /\ MCInit /\ [][MCNext]_<<program, vars, vars10, vars10a>>
  /\ \A p \in Philosopher : WF_vars(program = "22" /\ Step(p))
  /\ \A p \in Philosopher : WF_vars10(program = "10" /\ Lab10!Step(p))
  /\ WF_vars10a(program = "10a" /\ Lab10a!Main)
  /\ \A t \in Lab10a!Thread : WF_vars10a(program = "10a" /\ Lab10a!Step(t))

MCTypeOK == TypeOK /\ Lab10!TypeOK /\ Lab10a!TypeOK

(* Locked forks match who eats (or holds one), in all three programs; in   *)
(* 10.c the posts match the states, and nobody who is hungry is forgotten; *)
(* in 22.c a dish is on the table, with somebody, or eaten.                *)
ForksAndPosts ==
  /\ ForksOfEaters /\ Lab10!ForksOfEaters /\ Lab10a!ForksOfHolders
  /\ Lab10!OnePostPerMeal /\ Lab10!NobodyForgotten
  /\ DishesCounted

(* Every dinner ends: 22.c and 10.c always, 10andrey.c if all have a seat. *)
DinnerEnds ==
  /\ program = "22" => AllLeave
  /\ program = "10" => Lab10!AllLeave
  /\ program = "10a" => Lab10a!EndsIfSeated

(* All three programs implement Dinner. *)
AllImplementDinner == ImplementsDinner /\ Lab10!ImplementsDinner /\ Lab10a!ImplementsDinner
=============================================================================
