---------------------------- MODULE DinnerProofs ----------------------------
(***************************************************************************)
(* Labs 10 and 22, for any number of philosophers and dishes: 22.c, 10.c   *)
(* and 10andrey.c implement Dinner's safety.  In 22.c no sleeper is        *)
(* forgotten; in 10.c nobody hungry is, although the test of a neighbour   *)
(* is under way while the forks are not all locked; in 10andrey.c the      *)
(* forks are those of their holders whatever numbers the threads read.     *)
(***************************************************************************)
EXTENDS MCDinner, Sequences, TLAPS, FiniteSetTheorems

-----------------------------------------------------------------------------
(* 22.c *)

(* Who is inside the monitor, and who can be there. *)
Monitor ==
  /\ \A p \in Philosopher :
       monlock = p <=> pc[p] = "try" \/ (awaken[p] /\ pc[p] \in {"hungry", "leave"})
  /\ \A p \in Philosopher : pc[p] \in {"enter", "eat", "asleep"} => ~ awaken[p]
  /\ \A p \in signalled : pc[p] = "asleep"

(* Somebody sleeps; somebody eats. *)
Sleeper == \E p \in Philosopher : pc[p] = "asleep"

Eater == \E p \in Philosopher : pc[p] = "eat"

(* NoLostWakeup, for those who have been woken and not yet looked, too.    *)
SleepersServed == Sleeper => Eater \/ monlock # Nobody \/ (allowed_to_wake /\ signalled # {})

(* One dish is always left over, on the table or with who found it last;   *)
(* and nobody leaves with more than one.                                   *)
Dishes ==
  /\ Cardinality(InHand) \in Nat /\ Cardinality(Gone) \in Nat
  /\ Food - food - meals - Cardinality(InHand) <= Cardinality(Gone)
  /\ food + meals + Cardinality(InHand) <= Food
  /\ meals + Cardinality(InHand) < Food

(* The invariant of 22.c, the strengthening that makes it inductive included. *)
IInv == TypeOK /\ ForksOfEaters /\ Monitor /\ SleepersServed /\ Dishes

-----------------------------------------------------------------------------
(* The seats in a ring. *)
LEMMA Ring ==
  /\ Nobody \notin Philosopher
  /\ \A p \in Philosopher : Left(p) \in Philosopher /\ Right(p) \in Philosopher
  /\ \A p \in Philosopher : Left(p) # Right(p)
  /\ \A p, q \in Philosopher : Left(p) = Left(q) => p = q
BY PhilosophersAssumption DEF Nobody, Philosopher, Left, Right

(* So that the dishes in hands can be counted. *)
LEMMA FiniteSeats == IsFiniteSet(Philosopher)
BY PhilosophersAssumption, FS_Interval DEF Philosopher

(* How the number of dishes in hands changes with one philosopher. *)
LEMMA HandCount ==
  ASSUME NEW S, S \subseteq Philosopher, NEW p \in Philosopher
  PROVE  /\ Cardinality(S) \in Nat
         /\ p \notin S => Cardinality(S \cup {p}) = Cardinality(S) + 1
         /\ p \in S => Cardinality(S \ {p}) = Cardinality(S) - 1 /\ Cardinality(S) > 0
<1>1. IsFiniteSet(S)
  BY FiniteSeats, FS_Subset
<1>2. Cardinality(S) \in Nat
  BY <1>1, FS_CardinalityType
<1>3. p \notin S => Cardinality(S \cup {p}) = Cardinality(S) + 1
  BY <1>1, FS_AddElement
<1>4. p \in S => Cardinality(S \ {p}) = Cardinality(S) - 1
  BY <1>1, FS_RemoveElement
<1>5. p \in S => Cardinality(S) > 0
  BY <1>1, <1>2, FS_EmptySet
<1> QED
  BY <1>2, <1>3, <1>4, <1>5

(* The beginning of 22.c. *)
LEMMA InitIInv == Init => IInv
<1> SUFFICES ASSUME Init PROVE IInv
  OBVIOUS
<1> USE PhilosophersAssumption DEF Init
<1>1. TypeOK
  <2>1. food \in 0..Food /\ meals \in Nat /\ signalled \in SUBSET Philosopher
    OBVIOUS
  <2>2. fork \in [Philosopher -> Philosopher \cup {Nobody}]
    OBVIOUS
  <2>3. pc \in [Philosopher -> {"hungry"}] /\ awaken \in [Philosopher -> BOOLEAN]
    OBVIOUS
  <2> QED
    BY <2>1, <2>2, <2>3 DEF TypeOK
<1>2. ForksOfEaters
  BY Ring DEF ForksOfEaters
<1>3. Monitor /\ SleepersServed
  BY Ring DEF Monitor, SleepersServed, Sleeper
<1>4. InHand = {} /\ Gone = {}
  BY DEF InHand, Gone
<1>5. Dishes
  BY <1>4, FS_EmptySet DEF Dishes
<1> QED
  BY <1>1, <1>2, <1>3, <1>5 DEF IInv

-----------------------------------------------------------------------------
LEMMA TakeDishIInv ==
  ASSUME IInv, NEW p \in Philosopher, TakeDish(p)
  PROVE  IInv'
<1> USE PhilosophersAssumption DEF IInv, TypeOK, TakeDish, Goto, LeftOver
<1>1. food' \in 0..Food /\ food' <= food
  OBVIOUS
<1>2. CASE food' = 0
  <2>1. pc' = [pc EXCEPT ![p] = "leave"]
    BY <1>2
  <2>2. TypeOK'
    BY <1>1, <2>1
  <2>3. ForksOfEaters'
    BY <2>1 DEF ForksOfEaters
  <2>4. Monitor'
    BY <2>1 DEF Monitor
  <2>5. SleepersServed'
    BY <2>1 DEF SleepersServed, Sleeper, Eater
  <2>6. InHand' = InHand /\ Gone' = Gone \cup {p} /\ p \notin Gone
    BY <2>1 DEF InHand, Gone
  <2>7. Cardinality(Gone') = Cardinality(Gone) + 1
    BY <2>6, HandCount DEF Gone
  <2>9. food - food' <= 1
    OBVIOUS
  <2>8. Dishes'
    BY <1>1, <2>6, <2>7, <2>9 DEF Dishes
  <2> QED
    BY <2>2, <2>3, <2>4, <2>5, <2>8
<1>3. CASE food' > 0
  <2>0. food' = food - 1
    BY <1>3
  <2> DEFINE place == IF awaken[p] THEN "try" ELSE "enter"
  <2>1. /\ pc' = [pc EXCEPT ![p] = place]
        /\ place \in {"try", "enter"}
        /\ awaken[p] => place = "try"
        /\ ~ awaken[p] => place = "enter"
    <3>1. food' # 0
      BY <1>3
    <3>2. pc' = [pc EXCEPT ![p] = place]
      BY ONLY <3>1, TakeDish(p), Zenon DEF TakeDish, Goto, place
    <3>3. /\ place \in {"try", "enter"}
          /\ awaken[p] => place = "try"
          /\ ~ awaken[p] => place = "enter"
      BY ONLY Zenon DEF place
    <3> QED
      BY <3>2, <3>3, Zenon
  <2> HIDE DEF place
  <2>2. TypeOK'
    <3>1. pc' \in [Philosopher -> {"hungry", "enter", "try", "eat", "asleep", "leave", "gone"}]
      BY <2>1
    <3>2. food' \in 0..Food
      BY <1>1
    <3> QED
      BY ONLY TypeOK, <3>1, <3>2, UNCHANGED <<allowed_to_wake, monlock, fork, awaken, signalled, meals>>
         DEF TypeOK
  <2>3. ForksOfEaters'
    BY <2>1 DEF ForksOfEaters
  <2>4. Monitor'
    BY <2>1 DEF Monitor
  <2>5. SleepersServed'
    BY <2>1 DEF SleepersServed, Sleeper, Eater
  <2>6. InHand' = InHand \cup {p} /\ p \notin InHand /\ Gone' = Gone
    BY <2>1 DEF InHand, Gone
  <2>7. Cardinality(InHand') = Cardinality(InHand) + 1
    BY <2>6, HandCount DEF InHand
  <2>8. Dishes'
    BY <1>3, <2>0, <2>6, <2>7 DEF Dishes
  <2> QED
    BY <2>2, <2>3, <2>4, <2>5, <2>8
<1> QED
  BY <1>1, <1>2, <1>3

(* One lemma for each step of 22.c. *)
LEMMA EnterIInv ==
  ASSUME IInv, NEW p \in Philosopher, Enter(p)
  PROVE  IInv'
<1> USE DEF IInv, TypeOK, Enter, Goto
<1>1. TypeOK'
  OBVIOUS
<1>2. ForksOfEaters'
  BY DEF ForksOfEaters
<1>3. Monitor'
  BY Ring DEF Monitor
<1>4. SleepersServed'
  BY Ring DEF SleepersServed
<1>5. InHand' = InHand /\ Gone' = Gone
  BY DEF InHand, Gone
<1>6. Dishes'
  BY <1>5 DEF Dishes
<1> QED
  BY <1>1, <1>2, <1>3, <1>4, <1>6

(* A failed attempt means that somebody eats. *)
LEMMA TakenByEater ==
  ASSUME IInv, NEW p \in Philosopher, ~ Free(p)
  PROVE  Eater
BY Ring DEF IInv, TypeOK, Free, ForksOfEaters, Eater

LEMMA TryIInv ==
  ASSUME IInv, NEW p \in Philosopher, Try(p)
  PROVE  IInv'
<1> USE PhilosophersAssumption DEF IInv, TypeOK, Try, Goto
<1>1. p \in InHand /\ ~ awaken'[p]
  BY DEF InHand
<1>2. CASE Free(p)
  <2>1. /\ pc' = [pc EXCEPT ![p] = "eat"]
        /\ fork' = [fork EXCEPT ![Left(p)] = p, ![Right(p)] = p]
        /\ meals' = meals + 1 /\ food' = food
    BY <1>2
  <2>2. TypeOK'
    <3>1. fork' \in [Philosopher -> Philosopher \cup {Nobody}]
      BY <2>1, Ring
    <3>2. pc' \in [Philosopher -> {"hungry", "enter", "try", "eat", "asleep", "leave", "gone"}]
      BY <2>1
    <3>3. awaken' \in [Philosopher -> BOOLEAN]
      OBVIOUS
    <3>4. meals' \in Nat /\ food' \in 0..Food
      BY <2>1
    <3>5. allowed_to_wake' \in BOOLEAN /\ monlock' \in Philosopher \cup {Nobody}
      OBVIOUS
    <3>6. signalled' \in SUBSET Philosopher
      OBVIOUS
    <3> QED
      BY ONLY <3>1, <3>2, <3>3, <3>4, <3>5, <3>6 DEF TypeOK
  <2>3. ForksOfEaters'
    <3> SUFFICES ASSUME NEW f \in Philosopher, NEW q \in Philosopher
                 PROVE  fork'[f] = q <=> pc'[q] = "eat" /\ f \in {Left(q), Right(q)}
      BY DEF ForksOfEaters
    <3>1. CASE f \in {Left(p), Right(p)}
      <4>1. fork'[f] = p /\ fork[f] = Nobody
        BY <1>2, <2>1, <3>1, Ring DEF Free
      <4>2. CASE q = p
        BY <2>1, <3>1, <4>1, <4>2
      <4>3. CASE q # p
        BY <2>1, <4>1, <4>3, Ring DEF ForksOfEaters
      <4> QED
        BY <4>2, <4>3
    <3>2. CASE f \notin {Left(p), Right(p)}
      <4>1. fork'[f] = fork[f]
        BY <2>1, <3>2
      <4>2. CASE q = p
        BY <2>1, <3>2, <4>1, <4>2 DEF ForksOfEaters
      <4>3. CASE q # p
        BY <2>1, <4>1, <4>3 DEF ForksOfEaters
      <4> QED
        BY <4>2, <4>3
    <3> QED
      BY <3>1, <3>2
  <2>4. Monitor'
    BY <2>1, Ring DEF Monitor
  <2>5. SleepersServed'
    BY <2>1 DEF SleepersServed, Eater
  <2>6. InHand' = InHand \ {p} /\ Gone' = Gone
    BY <2>1 DEF InHand, Gone
  <2>7. Cardinality(InHand') = Cardinality(InHand) - 1 /\ Cardinality(InHand) > 0
    BY <1>1, <2>6, HandCount DEF InHand
  <2>8. Dishes'
    BY <2>1, <2>6, <2>7 DEF Dishes
  <2> QED
    BY <2>2, <2>3, <2>4, <2>5, <2>8
<1>3. CASE ~ Free(p)
  <2>1. /\ pc' = [pc EXCEPT ![p] = "asleep"]
        /\ fork' = fork /\ meals' = meals /\ food' = food + 1
    BY <1>3 DEF PutBack
  <2>2. InHand' = InHand \ {p} /\ Gone' = Gone
    BY <2>1 DEF InHand, Gone
  <2>3. Cardinality(InHand') = Cardinality(InHand) - 1 /\ Cardinality(InHand) > 0
    BY <1>1, <2>2, HandCount DEF InHand
  <2>4. Dishes'
    BY <2>1, <2>2, <2>3 DEF Dishes
  <2>5. TypeOK'
    <3>1. food' \in 0..Food
      BY <2>1, <2>3, <2>4 DEF Dishes
    <3>2. pc' \in [Philosopher -> {"hungry", "enter", "try", "eat", "asleep", "leave", "gone"}]
      BY <2>1
    <3>3. awaken' \in [Philosopher -> BOOLEAN]
      OBVIOUS
    <3> QED
      BY <2>1, <3>1, <3>2, <3>3
  <2>6. ForksOfEaters'
    BY <2>1 DEF ForksOfEaters
  <2>7. Monitor'
    BY <2>1, Ring DEF Monitor
  <2>8. SleepersServed'
    BY <1>3, <2>1, TakenByEater DEF SleepersServed, Eater
  <2> QED
    BY <2>4, <2>5, <2>6, <2>7, <2>8
<1> QED
  BY <1>2, <1>3

LEMMA SpuriousWakeupIInv ==
  ASSUME IInv, NEW p \in Philosopher, SpuriousWakeup(p)
  PROVE  IInv'
<1> USE DEF IInv, TypeOK, SpuriousWakeup
<1>1. TypeOK' /\ ForksOfEaters'
  BY DEF ForksOfEaters
<1>2. Monitor'
  BY DEF Monitor
<1>3. SleepersServed'
  BY DEF SleepersServed, Sleeper, Eater
<1>4. InHand' = InHand /\ Gone' = Gone
  BY DEF InHand, Gone
<1>5. Dishes'
  BY <1>4 DEF Dishes
<1> QED
  BY <1>1, <1>2, <1>3, <1>5

LEMMA WakeUpIInv ==
  ASSUME IInv, NEW p \in Philosopher, WakeUp(p)
  PROVE  IInv'
<1> USE DEF IInv, TypeOK, WakeUp, Goto
<1>1. pc[p] = "asleep"
  BY DEF Monitor
<1>2. CASE allowed_to_wake
  <2>1. /\ monlock' = p
        /\ awaken' = [awaken EXCEPT ![p] = TRUE]
        /\ pc' = [pc EXCEPT ![p] = "hungry"]
    BY <1>2
  <2>2. TypeOK'
    BY <2>1
  <2>3. ForksOfEaters'
    BY <1>1, <2>1 DEF ForksOfEaters
  <2>4. Monitor'
    BY <1>1, <2>1, Ring DEF Monitor
  <2>5. SleepersServed'
    BY <2>1, Ring DEF SleepersServed
  <2>6. InHand' = InHand /\ Gone' = Gone
    BY <1>1, <2>1 DEF InHand, Gone
  <2>7. Dishes'
    BY <2>6 DEF Dishes
  <2> QED
    BY <2>2, <2>3, <2>4, <2>5, <2>7
<1>3. CASE ~ allowed_to_wake
  <2>1. UNCHANGED <<monlock, awaken, pc>>
    BY <1>3
  <2>2. TypeOK' /\ ForksOfEaters'
    BY <2>1 DEF ForksOfEaters
  <2>3. Monitor'
    BY <2>1 DEF Monitor
  <2>4. SleepersServed'
    BY <1>1, <1>3, <2>1 DEF SleepersServed, Sleeper, Eater
  <2>5. InHand' = InHand /\ Gone' = Gone
    BY <2>1 DEF InHand, Gone
  <2>6. Dishes'
    BY <2>5 DEF Dishes
  <2> QED
    BY <2>2, <2>3, <2>4, <2>6
<1> QED
  BY <1>2, <1>3

LEMMA FinishMealIInv ==
  ASSUME IInv, NEW p \in Philosopher, FinishMeal(p)
  PROVE  IInv'
<1> USE DEF IInv, TypeOK, FinishMeal, Goto, Dropped
<1>1. TypeOK'
  BY Ring DEF Asleep
<1>2. ForksOfEaters'
  <2> SUFFICES ASSUME NEW f \in Philosopher, NEW q \in Philosopher
               PROVE  fork'[f] = q <=> pc'[q] = "eat" /\ f \in {Left(q), Right(q)}
    BY DEF ForksOfEaters
  <2>1. CASE f \in {Left(p), Right(p)}
    <3>1. fork'[f] = Nobody /\ fork[f] = p
      BY <2>1, Ring DEF ForksOfEaters
    <3> QED
      BY <3>1, Ring DEF ForksOfEaters
  <2>2. CASE f \notin {Left(p), Right(p)}
    BY <2>2, Ring DEF ForksOfEaters
  <2> QED
    BY <2>1, <2>2
<1>3. Monitor'
  BY Ring DEF Monitor, Asleep
<1>4. SleepersServed'
  BY DEF SleepersServed, Sleeper, Asleep
<1>5. InHand' = InHand /\ Gone' = Gone
  BY DEF InHand, Gone
<1>6. Dishes'
  BY <1>5 DEF Dishes
<1> QED
  BY <1>1, <1>2, <1>3, <1>4, <1>6

LEMMA LeaveIInv ==
  ASSUME IInv, NEW p \in Philosopher, Leave(p)
  PROVE  IInv'
<1> USE DEF IInv, TypeOK, Leave, Goto
<1>1. ForksOfEaters'
  BY DEF ForksOfEaters
<1>2. InHand' = InHand /\ Gone' = Gone
  BY DEF InHand, Gone
<1>3. Dishes'
  BY <1>2 DEF Dishes
<1>4. CASE awaken[p]
  <2>1. PICK W \in SUBSET Asleep : WakesOne(W) /\ signalled' = signalled \cup W
    BY <1>4
  <2>2. TypeOK'
    BY <1>4, <2>1 DEF Asleep
  <2>3. Monitor'
    BY <1>4, <2>1, Ring DEF Monitor, Asleep
  <2>4. SleepersServed'
    BY <1>4, <2>1 DEF SleepersServed, Sleeper, WakesOne, Asleep
  <2> QED
    BY <1>1, <1>3, <2>2, <2>3, <2>4
<1>5. CASE ~ awaken[p]
  <2>1. TypeOK'
    BY <1>5
  <2>2. Monitor'
    BY <1>5 DEF Monitor
  <2>3. SleepersServed'
    BY <1>5 DEF SleepersServed, Sleeper, Eater
  <2> QED
    BY <1>1, <1>3, <2>1, <2>2, <2>3
<1> QED
  BY <1>4, <1>5

LEMMA StutterIInv == IInv /\ UNCHANGED vars => IInv'
BY DEF vars, IInv, TypeOK, ForksOfEaters, Monitor, SleepersServed, Sleeper, Eater, Dishes, InHand, Gone

LEMMA StepIInv == IInv /\ [Next]_vars => IInv'
BY TakeDishIInv, EnterIInv, TryIInv, SpuriousWakeupIInv, WakeUpIInv, FinishMealIInv, LeaveIInv,
   StutterIInv
   DEF Next, Step, Join

-----------------------------------------------------------------------------
(* The strengthened invariant holds throughout. *)
THEOREM Invariance == SafeSpec => []IInv
BY InitIInv, StepIInv, PTL DEF SafeSpec

(* The variables keep their types: food is never negative, and never more  *)
(* than there was.                                                         *)
THEOREM TypeCorrect == SafeSpec => []TypeOK
<1>1. IInv => TypeOK
  BY DEF IInv
<1> QED
  BY <1>1, Invariance, PTL

(* A fork is held exactly by who eats with it. *)
THEOREM ForksHeld == SafeSpec => []ForksOfEaters
<1>1. IInv => ForksOfEaters
  BY DEF IInv
<1> QED
  BY <1>1, Invariance, PTL

(* A sleeper has an eater, a holder of the monitor or a woken one that     *)
(* will come to wake it.                                                   *)
THEOREM NobodyForgotten == SafeSpec => []NoLostWakeup
<1>1. IInv => NoLostWakeup
  BY DEF IInv, NoLostWakeup, SleepersServed, Sleeper, Eater, Asleep
<1> QED
  BY <1>1, Invariance, PTL

(* Who eats in 22.c, as Dinner sees it. *)
Eating == {p \in Philosopher : pc[p] = "eat"}

(* Steps that leave the eaters and their meals alone. *)
LEMMA NoMeal ==
  ASSUME IInv, NEW p \in Philosopher,
         TakeDish(p) \/ Enter(p) \/ WakeUp(p) \/ Leave(p) \/ SpuriousWakeup(p)
  PROVE  UNCHANGED <<Eating, meals>>
BY DEF IInv, TypeOK, Monitor, TakeDish, Enter, WakeUp, Leave, SpuriousWakeup, Goto, Eating

(* Who gets both forks has no neighbour that eats. *)
LEMMA BeginsMeal ==
  ASSUME IInv, NEW p \in Philosopher, Try(p)
  PROVE  Abstract!Begin(p) \/ UNCHANGED <<Eating, meals>>
<1> USE PhilosophersAssumption DEF IInv, TypeOK, Try, Goto
<1>1. CASE Free(p)
  <2>1. Eating' = Eating \cup {p} /\ meals' = meals + 1 /\ p \notin Eating
    BY <1>1 DEF Eating
  <2>2. ASSUME NEW q \in Eating, q \in Abstract!Neighbours(p)
        PROVE  FALSE
    <3>1. Left(p) = q \/ Left(q) = p
      BY <2>2 DEF Abstract!Neighbours, Abstract!NextSeat, Abstract!Seat, Left, Philosopher
    <3>2. fork[Left(q)] = q /\ fork[Right(q)] = q
      BY <2>2, Ring DEF ForksOfEaters, Eating
    <3> QED
      BY <1>1, <3>1, <3>2, <2>2, Ring DEF Free, Right, Eating
  <2>3. meals < Food - 1
    <3>1. p \in InHand
      BY DEF InHand
    <3>2. Cardinality(InHand) > 0
      BY <3>1, HandCount DEF InHand
    <3> QED
      BY <3>2 DEF Dishes
  <2> QED
    BY <2>1, <2>2, <2>3 DEF Abstract!Begin, Eating
<1>2. CASE ~ Free(p)
  BY <1>2 DEF Eating
<1> QED
  BY <1>1, <1>2

(* The end of a meal is that of Dinner. *)
LEMMA EndsMeal ==
  ASSUME IInv, NEW p \in Philosopher, FinishMeal(p)
  PROVE  Abstract!Finish(p)
BY DEF IInv, TypeOK, FinishMeal, Goto, Eating, Abstract!Finish

(* Each step of 22.c is one of Dinner, or none. *)
LEMMA Refine22 ==
  /\ Init => Abstract!Init
  /\ IInv /\ [Next]_vars => [Abstract!Next]_<<Eating, meals>>
<1>1. Init => Abstract!Init
  BY DEF Init, Abstract!Init
<1>2. IInv /\ [Next]_vars => [Abstract!Next]_<<Eating, meals>>
  <2>1. UNCHANGED vars => UNCHANGED <<Eating, meals>>
    BY DEF vars, Eating
  <2> QED
    BY <2>1, NoMeal, BeginsMeal, EndsMeal
       DEF Next, Step, Join, Abstract!Next, Abstract!Seat, Philosopher
<1> QED
  BY <1>1, <1>2

(* The philosophers implement Dinner: neighbours never eat at the same     *)
(* time, and one dish is always left over.                                 *)
THEOREM Refinement == SafeSpec => DinnerSafe
BY Refine22, Invariance, PTL DEF SafeSpec, DinnerSafe, Abstract!SafeSpec, Eating

-----------------------------------------------------------------------------
(* 10.c *)

(* Who holds forklock, and what it has still to do. *)
Locked10 ==
  /\ \A p \in Philosopher : forklock = p <=> pc10[p] \in {"asks", "done"}
  /\ forklock = Lab10!Nobody => todo = <<>> /\ taking = Lab10!Nobody
  /\ \A p \in Philosopher :
       /\ pc10[p] = "asks" => todo = <<p>> \/ todo = <<>>
       /\ pc10[p] = "done" => todo \in {<<Lab10!RIGHT(p), Lab10!LEFT(p)>>, <<Lab10!LEFT(p)>>, <<>>}
  /\ taking # Lab10!Nobody => todo # <<>> /\ Head(todo) = taking /\ state[taking] = "EATING"

(* The state of a philosopher at its place, and its posts. *)
States10 ==
  /\ \A p \in Philosopher : pc10[p] \in {"asks", "waits", "eats"} <=> state[p] # "THINKING"
  /\ Lab10!OnePostPerMeal

(* Neighbours never eat at the same time, as far as their states say. *)
Apart10 == \A p \in Philosopher : state[p] = "EATING" => state[Lab10!RIGHT(p)] # "EATING"

(* p is among those that are still to be tested. *)
Named(q, p) == \E k \in 1..Len(q) : q[k] = p

(* NobodyForgotten, while somebody is at it, too. *)
Served10 ==
  \A p \in Philosopher :
    state[p] = "HUNGRY" =>
      Named(todo, p) \/ \E q \in {Lab10!LEFT(p), Lab10!RIGHT(p)} : state[q] = "EATING"

(* Who has a dish and has not begun its meal. *)
InHand10 == {p \in Philosopher : pc10[p] \in {"hungry", "asks", "waits"}}

(* One dish is always left over in 10.c, too. *)
Dishes10 ==
  /\ Cardinality(InHand10) \in Nat
  /\ food10 + meals10 + Cardinality(InHand10) <= Food
  /\ meals10 + Cardinality(InHand10) < Food

(* The invariant of 10.c. *)
Inv10 == Lab10!TypeOK /\ Locked10 /\ States10 /\ Apart10 /\ Lab10!ForksOfEaters /\ Served10 /\ Dishes10

(* The neighbours around the table of 10.c. *)
LEMMA Ring10 ==
  /\ \A p \in Philosopher : Lab10!RIGHT(p) = Left(p)
  /\ \A p \in Philosopher : Lab10!LEFT(p) = IF p = 0 THEN N - 1 ELSE p - 1
  /\ \A p \in Philosopher : Lab10!RIGHT(p) \in Philosopher /\ Lab10!LEFT(p) \in Philosopher
  /\ \A p \in Philosopher : Lab10!RIGHT(p) # p /\ Lab10!LEFT(p) # p
  /\ \A p, q \in Philosopher : Lab10!RIGHT(p) = q <=> Lab10!LEFT(q) = p
  /\ \A p, q \in Philosopher : Lab10!RIGHT(p) = Lab10!RIGHT(q) => p = q
<1> USE PhilosophersAssumption
<1>1. ASSUME NEW m \in 0..(N - 1) PROVE m % N = m
  BY <1>1
<1>2. N % N = 0
  OBVIOUS
<1>3. ASSUME NEW m \in 0..(N - 1) PROVE (m + N) % N = m
  BY <1>3
<1>4. \A p \in Philosopher : Lab10!RIGHT(p) = Left(p)
  <2> SUFFICES ASSUME NEW p \in Philosopher PROVE (p + 1) % N = IF p + 1 = N THEN 0 ELSE p + 1
    BY DEF Lab10!RIGHT, Left
  <2>1. p + 1 # N => p + 1 \in 0..(N - 1)
    BY DEF Philosopher
  <2> QED BY <1>1, <1>2, <2>1
<1>5. \A p \in Philosopher : Lab10!LEFT(p) = IF p = 0 THEN N - 1 ELSE p - 1
  <2> SUFFICES ASSUME NEW p \in Philosopher PROVE (p + N - 1) % N = IF p = 0 THEN N - 1 ELSE p - 1
    BY DEF Lab10!LEFT
  <2>1. CASE p = 0
    <3>1. p + N - 1 = N - 1 /\ N - 1 \in 0..(N - 1)
      BY <2>1
    <3> QED BY <1>1, <2>1, <3>1
  <2>2. CASE p # 0
    <3>1. p - 1 \in 0..(N - 1) /\ p + N - 1 = (p - 1) + N
      BY <2>2 DEF Philosopher
    <3> QED BY <1>3, <2>2, <3>1
  <2> QED BY <2>1, <2>2
<1> HIDE PhilosophersAssumption
<1>6. \A p \in Philosopher : /\ Lab10!RIGHT(p) \in Philosopher /\ Lab10!LEFT(p) \in Philosopher
                             /\ Lab10!RIGHT(p) # p /\ Lab10!LEFT(p) # p
  BY <1>4, <1>5, PhilosophersAssumption DEF Left, Philosopher
<1>7. \A p, q \in Philosopher : Lab10!RIGHT(p) = q <=> Lab10!LEFT(q) = p
  BY <1>4, <1>5, PhilosophersAssumption DEF Left, Philosopher
<1>8. \A p, q \in Philosopher : Lab10!RIGHT(p) = Lab10!RIGHT(q) => p = q
  BY <1>4, Ring
<1> QED BY <1>4, <1>5, <1>6, <1>7, <1>8

(* 10.c has the seats of 22.c. *)
LEMMA Same10 == Lab10!Philosopher = Philosopher /\ Lab10!Nobody = Nobody /\ Nobody \notin Philosopher
BY Ring DEF Lab10!Philosopher, Philosopher, Lab10!Nobody, Nobody

(* What there can be to test. *)
LEMMA ToDo10 ==
  /\ <<>> \in Seq(Philosopher) /\ Len(<<>>) = 0 /\ \A p : ~ Named(<<>>, p)
  /\ \A a \in Philosopher :
       /\ <<a>> \in Seq(Philosopher) /\ Len(<<a>>) = 1 /\ <<a>> # <<>> /\ Head(<<a>>) = a /\ Tail(<<a>>) = <<>>
       /\ \A p : Named(<<a>>, p) <=> p = a
  /\ \A a, b \in Philosopher :
       /\ <<a, b>> \in Seq(Philosopher) /\ Len(<<a, b>>) = 2 /\ <<a, b>> # <<>>
       /\ Head(<<a, b>>) = a /\ Tail(<<a, b>>) = <<b>>
       /\ \A p : Named(<<a, b>>, p) <=> p = a \/ p = b
<1>1. /\ <<>> \in Seq(Philosopher) /\ Len(<<>>) = 0 /\ \A p : ~ Named(<<>>, p)
  BY DEF Named
<1>2. ASSUME NEW a \in Philosopher
      PROVE  /\ <<a>> \in Seq(Philosopher) /\ Len(<<a>>) = 1 /\ <<a>> # <<>>
             /\ Head(<<a>>) = a /\ Tail(<<a>>) = <<>>
             /\ \A p : Named(<<a>>, p) <=> p = a
  <2>1. Len(<<a>>) = 1
    OBVIOUS
  <2>2. \A p : Named(<<a>>, p) <=> p = a
    BY <2>1 DEF Named
  <2> QED BY <2>1, <2>2
<1>3. ASSUME NEW a \in Philosopher, NEW b \in Philosopher
      PROVE  /\ <<a, b>> \in Seq(Philosopher) /\ Len(<<a, b>>) = 2 /\ <<a, b>> # <<>>
             /\ Head(<<a, b>>) = a /\ Tail(<<a, b>>) = <<b>>
             /\ \A p : Named(<<a, b>>, p) <=> p = a \/ p = b
  <2>1. Len(<<a, b>>) = 2
    OBVIOUS
  <2>2. \A p : Named(<<a, b>>, p) <=> p = a \/ p = b
    <3>1. <<a, b>>[1] = a /\ <<a, b>>[2] = b
      OBVIOUS
    <3> QED BY <2>1, <3>1 DEF Named
  <2> QED BY <2>1, <2>2
<1> QED BY <1>1, <1>2, <1>3

(* The beginning of 10.c. *)
LEMMA Init10 == Lab10!Init => Inv10
<1> SUFFICES ASSUME Lab10!Init PROVE Inv10
  OBVIOUS
<1> USE PhilosophersAssumption, Same10 DEF Lab10!Init, Lab10!Posts
<1>1. Lab10!TypeOK
  <2>1. todo \in Seq(Philosopher) /\ Len(todo) <= 2
    BY ToDo10
  <2>2. s \in [Philosopher -> 0..1] /\ fork10 \in [Philosopher -> BOOLEAN]
    OBVIOUS
  <2>3. state \in [Philosopher -> {"THINKING"}] /\ pc10 \in [Philosopher -> {"table"}]
    OBVIOUS
  <2> QED BY <2>1, <2>2, <2>3 DEF Lab10!TypeOK
<1>2. Locked10 /\ States10 /\ Apart10 /\ Served10
  BY Ring10 DEF Locked10, States10, Lab10!OnePostPerMeal, Apart10, Served10
<1>3. Lab10!ForksOfEaters
  BY DEF Lab10!ForksOfEaters
<1>4. InHand10 = {}
  BY DEF InHand10
<1>5. Dishes10
  BY <1>4, FS_EmptySet DEF Dishes10
<1> QED BY <1>1, <1>2, <1>3, <1>5 DEF Inv10

(* The next one to be tested, and the rest. *)
LEMMA Testing10 ==
  ASSUME Inv10, NEW h \in Philosopher, forklock = h, todo # <<>>
  PROVE  /\ Head(todo) \in Philosopher
         /\ pc10[h] \in {"asks", "done"}
         /\ pc10[h] = "asks" => Tail(todo) = <<>>
         /\ pc10[h] = "done" => Tail(todo) \in {<<Lab10!LEFT(h)>>, <<>>}
         /\ Tail(todo) \in Seq(Philosopher) /\ Len(Tail(todo)) <= 2
         /\ \A p \in Philosopher : Named(todo, p) => p = Head(todo) \/ Named(Tail(todo), p)
<1>1. Lab10!LEFT(h) \in Philosopher /\ Lab10!RIGHT(h) \in Philosopher
  BY Ring10
<1>2. \/ pc10[h] = "asks" /\ todo = <<h>>
      \/ pc10[h] = "done" /\ todo \in {<<Lab10!RIGHT(h), Lab10!LEFT(h)>>, <<Lab10!LEFT(h)>>}
  BY DEF Inv10, Locked10
<1>3. CASE pc10[h] = "asks" /\ todo = <<h>>
  BY <1>3, ToDo10
<1>4. CASE pc10[h] = "done" /\ todo = <<Lab10!RIGHT(h), Lab10!LEFT(h)>>
  BY <1>1, <1>4, ToDo10
<1>5. CASE pc10[h] = "done" /\ todo = <<Lab10!LEFT(h)>>
  BY <1>1, <1>5, ToDo10
<1> QED BY <1>2, <1>3, <1>4, <1>5

(* One lemma for each step of 10.c: food_on_table ... *)
LEMMA TakeDish10 ==
  ASSUME Inv10, NEW p \in Philosopher, Lab10!TakeDish(p)
  PROVE  Inv10'
<1> USE PhilosophersAssumption, Same10 DEF Inv10, Lab10!TypeOK, Lab10!TakeDish, Lab10!Goto, Lab10!LeftOver
<1>1. food10' \in 0..Food /\ food10' <= food10
  OBVIOUS
<1>2. PICK place \in {"gone", "hungry"} : /\ pc10' = [pc10 EXCEPT ![p] = place]
                                          /\ place = "gone" <=> food10' = 0
  OBVIOUS
<1>3. Lab10!TypeOK'
  BY <1>1, <1>2
<1>4. Locked10'
  BY <1>2 DEF Locked10
<1>5. States10'
  BY <1>2 DEF States10, Lab10!OnePostPerMeal
<1>6. Apart10' /\ Lab10!ForksOfEaters' /\ Served10'
  BY DEF Apart10, Lab10!ForksOfEaters, Served10
<1>7. Dishes10'
  <2>1. CASE place = "gone"
    <3>1. InHand10' = InHand10
      BY <1>2, <2>1 DEF InHand10
    <3> QED BY <1>1, <3>1 DEF Dishes10
  <2>2. CASE place = "hungry"
    <3>1. InHand10' = InHand10 \cup {p} /\ p \notin InHand10
      BY <1>2, <2>2 DEF InHand10
    <3>2. InHand10 \subseteq Philosopher
      BY DEF InHand10
    <3>3. Cardinality(InHand10') = Cardinality(InHand10) + 1
      BY <3>1, <3>2, HandCount
    <3>4. food10' = food10 - 1 /\ food10' > 0
      BY <1>1, <1>2, <2>2
    <3> QED BY <3>3, <3>4 DEF Dishes10
  <2> QED BY <2>1, <2>2
<1> QED BY <1>3, <1>4, <1>5, <1>6, <1>7

(* ... the beginning of take_forks, with forklock ... *)
LEMMA Ask10 ==
  ASSUME Inv10, NEW p \in Philosopher, Lab10!Ask(p)
  PROVE  Inv10'
<1> USE Same10 DEF Inv10, Lab10!TypeOK, Lab10!Ask, Lab10!Goto
<1>1. todo' = <<p>> /\ todo = <<>> /\ taking = Nobody
  BY DEF Locked10
<1>2. Lab10!TypeOK'
  BY <1>1, ToDo10
<1>3. Locked10'
  BY <1>1 DEF Locked10
<1>4. state[p] = "THINKING"
  BY DEF States10
<1>5. States10'
  BY DEF States10, Lab10!OnePostPerMeal
<1>6. Apart10' /\ Lab10!ForksOfEaters'
  BY <1>4 DEF Apart10, Lab10!ForksOfEaters
<1>7. Served10'
  <2>1. Named(todo', p) /\ \A q \in Philosopher : ~ Named(todo, q)
    BY <1>1, ToDo10
  <2> QED BY <1>4, <2>1, Ring10 DEF Served10
<1>8. InHand10' = InHand10
  BY DEF InHand10
<1>9. Dishes10'
  BY <1>8 DEF Dishes10
<1> QED BY <1>2, <1>3, <1>5, <1>6, <1>7, <1>9

(* ... one call of test, up to get_forks ... *)
LEMMA Test10 ==
  ASSUME Inv10, NEW h \in Philosopher, Lab10!Test(h)
  PROVE  Inv10'
<1> DEFINE t == Head(todo)
<1> USE Same10 DEF Inv10
<1>1. /\ forklock = h /\ todo # <<>> /\ taking = Nobody
      /\ t \in Philosopher /\ pc10[h] \in {"asks", "done"}
      /\ UNCHANGED <<food10, forklock, fork10, pc10, meals10>>
  BY Testing10 DEF Lab10!Test
<1>2. InHand10' = InHand10
  BY <1>1 DEF InHand10
<1>3. Dishes10'
  BY <1>1, <1>2 DEF Dishes10
<1>4. CASE Lab10!Passes(t)
  <2>1. /\ state' = [state EXCEPT ![t] = "EATING"] /\ s' = [s EXCEPT ![t] = @ + 1]
        /\ taking' = t /\ todo' = todo
    BY <1>1, <1>4 DEF Lab10!Test
  <2>2. /\ state[t] = "HUNGRY" /\ state[Lab10!LEFT(t)] # "EATING" /\ state[Lab10!RIGHT(t)] # "EATING"
    BY <1>4 DEF Lab10!Passes
  <2>3. pc10[t] \in {"asks", "waits"} /\ s[t] = 0 /\ s'[t] = 1
    BY <1>1, <2>1, <2>2 DEF States10, Lab10!OnePostPerMeal, Lab10!TypeOK
  <2>4. \A q \in Philosopher : q # t => state'[q] = state[q] /\ s'[q] = s[q]
    BY <1>1, <2>1 DEF Lab10!TypeOK
  <2>5. state'[t] = "EATING"
    BY <1>1, <2>1 DEF Lab10!TypeOK
  <2>6. Lab10!TypeOK'
    <3>1. s' \in [Philosopher -> 0..1]
      BY <1>1, <2>1, <2>3 DEF Lab10!TypeOK
    <3> QED BY <1>1, <2>1, <3>1 DEF Lab10!TypeOK
  <2> HIDE DEF t
  <2>7. Locked10'
    BY <1>1, <2>1, <2>5 DEF Locked10, t
  <2>8. States10'
    BY <1>1, <2>2, <2>3, <2>4, <2>5 DEF States10, Lab10!OnePostPerMeal
  <2>9. Apart10'
    BY <1>1, <2>2, <2>4, <2>5, Ring10 DEF Apart10
  <2>10. Lab10!ForksOfEaters'
    <3> SUFFICES ASSUME NEW f \in Philosopher
                 PROVE  fork10[f] <=> \E p \in Philosopher : state'[p] = "EATING" /\ f \in Lab10!Forks(p) /\ p # t
      BY <1>1, <2>1 DEF Lab10!ForksOfEaters
    <3>1. fork10[f] <=> \E p \in Philosopher : state[p] = "EATING" /\ f \in Lab10!Forks(p) /\ p # taking
      BY DEF Lab10!ForksOfEaters
    <3> QED BY <1>1, <2>2, <2>4, <3>1
  <2>11. Served10'
    <3>1. \A q \in Philosopher : state[q] = "EATING" => state'[q] = "EATING"
      BY <2>4, <2>5
    <3> QED BY <2>1, <2>4, <2>5, <3>1, Ring10 DEF Served10
  <2> QED BY <1>3, <2>6, <2>7, <2>8, <2>9, <2>10, <2>11
<1>5. CASE ~ Lab10!Passes(t)
  <2>1. todo' = Tail(todo) /\ UNCHANGED <<state, s, taking>>
    BY <1>1, <1>5 DEF Lab10!Test
  <2>2. /\ pc10[h] = "asks" => todo' = <<>>
        /\ pc10[h] = "done" => todo' \in {<<Lab10!LEFT(h)>>, <<>>}
        /\ todo' \in Seq(Philosopher) /\ Len(todo') <= 2
        /\ \A p \in Philosopher : Named(todo, p) => p = t \/ Named(todo', p)
    BY <1>1, <2>1, Testing10
  <2>3. Lab10!TypeOK'
    BY <1>1, <2>1, <2>2 DEF Lab10!TypeOK
  <2>4. Locked10'
    BY <1>1, <2>1, <2>2 DEF Locked10
  <2>5. States10' /\ Apart10' /\ Lab10!ForksOfEaters'
    BY <1>1, <2>1 DEF States10, Lab10!OnePostPerMeal, Apart10, Lab10!ForksOfEaters
  <2>6. Served10'
    <3>1. state[t] = "HUNGRY" => \E q \in {Lab10!LEFT(t), Lab10!RIGHT(t)} : state[q] = "EATING"
      BY <1>5 DEF Lab10!Passes
    <3> HIDE DEF t
    <3> QED BY <1>1, <2>1, <2>2, <3>1 DEF Served10
  <2> QED BY <1>3, <2>3, <2>4, <2>5, <2>6
<1> QED BY <1>4, <1>5

(* ... get_forks and the post ... *)
LEMMA GetForks10 ==
  ASSUME Inv10, NEW h \in Philosopher, Lab10!GetForks(h)
  PROVE  Inv10'
<1> DEFINE t == taking
<1> USE Same10 DEF Inv10
<1>1. /\ forklock = h /\ t # Nobody /\ t \in Philosopher /\ taking' = Nobody
      /\ fork10' = [f \in Philosopher |-> fork10[f] \/ f \in Lab10!Forks(t)]
      /\ todo' = Tail(todo)
      /\ UNCHANGED <<food10, forklock, state, s, pc10, meals10>>
  BY DEF Lab10!GetForks, Lab10!TypeOK
<1>2. todo # <<>> /\ Head(todo) = t /\ state[t] = "EATING" /\ pc10[h] \in {"asks", "done"}
  BY <1>1 DEF Locked10
<1>3. /\ pc10[h] = "asks" => todo' = <<>>
      /\ pc10[h] = "done" => todo' \in {<<Lab10!LEFT(h)>>, <<>>}
      /\ todo' \in Seq(Philosopher) /\ Len(todo') <= 2
      /\ \A p \in Philosopher : Named(todo, p) => p = t \/ Named(todo', p)
  BY <1>1, <1>2, Testing10
<1>4. Lab10!TypeOK'
  <2>1. fork10' \in [Philosopher -> BOOLEAN]
    BY <1>1 DEF Lab10!TypeOK
  <2> QED BY <1>1, <1>3, <2>1 DEF Lab10!TypeOK
<1>5. Locked10'
  BY <1>1, <1>2, <1>3 DEF Locked10
<1>6. States10' /\ Apart10'
  BY <1>1 DEF States10, Lab10!OnePostPerMeal, Apart10
<1>7. Lab10!ForksOfEaters'
  <2> SUFFICES ASSUME NEW f \in Philosopher
               PROVE  fork10'[f] <=>
                        \E p \in Philosopher : state[p] = "EATING" /\ f \in Lab10!Forks(p) /\ p # Nobody
    BY <1>1 DEF Lab10!ForksOfEaters
  <2>1. fork10[f] <=> \E p \in Philosopher : state[p] = "EATING" /\ f \in Lab10!Forks(p) /\ p # t
    BY DEF Lab10!ForksOfEaters
  <2>2. fork10'[f] <=> fork10[f] \/ f \in Lab10!Forks(t)
    BY <1>1
  <2> HIDE DEF t
  <2> QED BY <1>1, <1>2, <2>1, <2>2
<1>8. Served10'
  <2> HIDE DEF t
  <2> QED BY <1>1, <1>2, <1>3 DEF Served10
<1>9. InHand10' = InHand10
  BY <1>1 DEF InHand10
<1>10. Dishes10'
  BY <1>1, <1>9 DEF Dishes10
<1> QED BY <1>4, <1>5, <1>6, <1>7, <1>8, <1>10

(* ... the release of forklock ... *)
LEMMA Unlock10 ==
  ASSUME Inv10, NEW p \in Philosopher, Lab10!Unlock(p)
  PROVE  Inv10'
<1> USE Same10 DEF Inv10
<1>1. PICK place \in {"waits", "table"} :
         /\ pc10' = [pc10 EXCEPT ![p] = place]
         /\ place = "waits" <=> pc10[p] = "asks"
  BY DEF Lab10!Unlock, Lab10!Goto
<1>2. /\ forklock = p /\ todo = <<>> /\ forklock' = Nobody /\ pc10[p] \in {"asks", "done"}
      /\ UNCHANGED <<food10, todo, taking, state, s, fork10, meals10>>
  BY DEF Lab10!Unlock, Locked10
<1>3. taking = Nobody
  BY <1>2 DEF Locked10
<1>4. Lab10!TypeOK'
  BY <1>1, <1>2 DEF Lab10!TypeOK
<1>5. Locked10'
  BY <1>1, <1>2, <1>3 DEF Locked10, Lab10!TypeOK
<1>6. States10'
  BY <1>1, <1>2 DEF States10, Lab10!OnePostPerMeal, Lab10!TypeOK
<1>7. Apart10' /\ Lab10!ForksOfEaters' /\ Served10'
  BY <1>2 DEF Apart10, Lab10!ForksOfEaters, Served10
<1>8. InHand10' = InHand10
  BY <1>1, <1>2 DEF InHand10, Lab10!TypeOK
<1>9. Dishes10'
  BY <1>2, <1>8 DEF Dishes10
<1> QED BY <1>4, <1>5, <1>6, <1>7, <1>9

(* ... the wait for the post, and the meal ... *)
LEMMA Eat10 ==
  ASSUME Inv10, NEW p \in Philosopher, Lab10!Eat(p)
  PROVE  Inv10' /\ state[p] = "EATING" /\ meals10 < Food - 1
<1> USE PhilosophersAssumption, Same10 DEF Inv10
<1>1. /\ pc10[p] = "waits" /\ s[p] > 0 /\ s' = [s EXCEPT ![p] = @ - 1]
      /\ meals10' = meals10 + 1 /\ pc10' = [pc10 EXCEPT ![p] = "eats"]
      /\ UNCHANGED <<food10, forklock, todo, taking, state, fork10>>
  BY DEF Lab10!Eat, Lab10!Goto
<1>2. state[p] = "EATING" /\ s[p] = 1
  BY <1>1 DEF States10, Lab10!OnePostPerMeal
<1>3. Lab10!TypeOK'
  BY <1>1, <1>2 DEF Lab10!TypeOK
<1>4. Locked10'
  BY <1>1 DEF Locked10, Lab10!TypeOK
<1>5. States10'
  BY <1>1, <1>2 DEF States10, Lab10!OnePostPerMeal, Lab10!TypeOK
<1>6. Apart10' /\ Lab10!ForksOfEaters' /\ Served10'
  BY <1>1 DEF Apart10, Lab10!ForksOfEaters, Served10
<1>7. InHand10' = InHand10 \ {p} /\ p \in InHand10
  BY <1>1 DEF InHand10, Lab10!TypeOK
<1>8. Cardinality(InHand10') = Cardinality(InHand10) - 1 /\ Cardinality(InHand10) > 0
  BY <1>7, HandCount DEF InHand10
<1>9. Dishes10' /\ meals10 < Food - 1
  BY <1>1, <1>8 DEF Dishes10, Lab10!TypeOK
<1> QED BY <1>2, <1>3, <1>4, <1>5, <1>6, <1>9

(* ... and down_forks, which puts both neighbours to the test. *)
LEMMA Finish10 ==
  ASSUME Inv10, NEW p \in Philosopher, Lab10!Finish(p)
  PROVE  Inv10'
<1> USE Same10 DEF Inv10
<1>1. /\ pc10[p] = "eats" /\ forklock = Nobody /\ forklock' = p
      /\ state' = [state EXCEPT ![p] = "THINKING"] /\ pc10' = [pc10 EXCEPT ![p] = "done"]
      /\ fork10' = [f \in Philosopher |-> fork10[f] /\ f \notin Lab10!Forks(p)]
      /\ todo' = <<Lab10!RIGHT(p), Lab10!LEFT(p)>>
      /\ UNCHANGED <<food10, taking, s, meals10>>
  BY DEF Lab10!Finish, Lab10!Goto, Lab10!DownForks, Lab10!ToTest
<1>2. todo = <<>> /\ taking = Nobody /\ state[p] = "EATING"
  BY <1>1 DEF Locked10, States10, Lab10!OnePostPerMeal
<1>3. \A q \in Philosopher : q # p => state'[q] = state[q] /\ pc10'[q] = pc10[q]
  BY <1>1 DEF Lab10!TypeOK
<1>4. state'[p] = "THINKING" /\ pc10'[p] = "done"
  BY <1>1 DEF Lab10!TypeOK
<1>5. Lab10!RIGHT(p) \in Philosopher /\ Lab10!LEFT(p) \in Philosopher
  BY Ring10
<1>6. Lab10!TypeOK'
  <2>1. fork10' \in [Philosopher -> BOOLEAN]
    BY <1>1 DEF Lab10!TypeOK
  <2>2. todo' \in Seq(Philosopher) /\ Len(todo') <= 2
    BY <1>1, <1>5, ToDo10
  <2> QED BY <1>1, <2>1, <2>2 DEF Lab10!TypeOK
<1>7. Locked10'
  BY <1>1, <1>2, <1>3, <1>4 DEF Locked10
<1>8. States10'
  BY <1>1, <1>2, <1>3, <1>4 DEF States10, Lab10!OnePostPerMeal
<1>9. Apart10'
  BY <1>3, <1>4, Ring10 DEF Apart10
<1>10. Lab10!ForksOfEaters'
  <2> SUFFICES ASSUME NEW f \in Philosopher
               PROVE  fork10'[f] <=>
                        \E q \in Philosopher : state'[q] = "EATING" /\ f \in Lab10!Forks(q) /\ q # Nobody
    BY <1>1, <1>2 DEF Lab10!ForksOfEaters
  <2>1. fork10[f] <=> \E q \in Philosopher : state[q] = "EATING" /\ f \in Lab10!Forks(q) /\ q # Nobody
    BY <1>2 DEF Lab10!ForksOfEaters
  <2>2. fork10'[f] <=> fork10[f] /\ f \notin Lab10!Forks(p)
    BY <1>1
  <2>3. ASSUME NEW q \in Philosopher, q # p, state[q] = "EATING", f \in Lab10!Forks(q)
        PROVE  f \notin Lab10!Forks(p)
    BY <1>2, <2>3, Ring10 DEF Apart10, Lab10!Forks
  <2> QED BY <1>3, <1>4, <2>1, <2>2, <2>3
<1>11. Served10'
  <2>1. \A q \in Philosopher : Named(todo', q) <=> q = Lab10!RIGHT(p) \/ q = Lab10!LEFT(p)
    BY <1>1, <1>5, ToDo10
  <2>2. \A q \in Philosopher : ~ Named(todo, q)
    BY <1>2, ToDo10
  <2> QED BY <1>3, <1>4, <2>1, <2>2, Ring10 DEF Served10
<1>12. InHand10' = InHand10
  BY <1>1, <1>3, <1>4 DEF InHand10
<1>13. Dishes10'
  BY <1>1, <1>12 DEF Dishes10
<1> QED BY <1>6, <1>7, <1>8, <1>9, <1>10, <1>11, <1>13

(* All steps of 10.c. *)
LEMMA Step10 == Inv10 /\ [Lab10!Next]_vars10 => Inv10'
<1>1. Inv10 /\ UNCHANGED vars10 => Inv10'
  BY DEF vars10, Inv10, Lab10!TypeOK, Locked10, States10, Lab10!OnePostPerMeal, Apart10, Lab10!ForksOfEaters,
     Served10, Dishes10, InHand10
<1> QED
  BY <1>1, Same10, TakeDish10, Ask10, Test10, GetForks10, Unlock10, Eat10, Finish10
     DEF Lab10!Next, Lab10!Step, Lab10!Join, Lab10!vars, vars10

(* The philosophers of 10.c implement Dinner. *)
Eating10 == {p \in Philosopher : pc10[p] = "eats"}

LEMMA Refine10 ==
  /\ Lab10!Init => Lab10!Abstract!Init
  /\ Inv10 /\ [Lab10!Next]_vars10 => [Lab10!Abstract!Next]_<<Eating10, meals10>>
<1>1. Lab10!Init => Lab10!Abstract!Init
  BY DEF Lab10!Init, Lab10!Abstract!Init
<1>2. ASSUME Inv10, [Lab10!Next]_vars10 PROVE [Lab10!Abstract!Next]_<<Eating10, meals10>>
  <2> USE <1>2, Same10 DEF Inv10
  <2>1. ASSUME NEW p \in Philosopher,
               \/ Lab10!TakeDish(p) \/ Lab10!Ask(p) \/ Lab10!Test(p) \/ Lab10!GetForks(p) \/ Lab10!Unlock(p)
        PROVE  UNCHANGED <<Eating10, meals10>>
    BY <2>1 DEF Lab10!TakeDish, Lab10!Ask, Lab10!Test, Lab10!GetForks, Lab10!Unlock, Lab10!Goto, Eating10,
       Lab10!TypeOK, Locked10
  <2>2. ASSUME NEW p \in Philosopher, Lab10!Eat(p) PROVE Lab10!Abstract!Begin(p)
    <3>1. p \notin Eating10 /\ Eating10' = Eating10 \cup {p} /\ meals10' = meals10 + 1
      BY <2>2 DEF Lab10!Eat, Lab10!Goto, Eating10, Lab10!TypeOK
    <3>2. state[p] = "EATING" /\ meals10 < Food - 1
      BY <2>2, Eat10
    <3>3. ASSUME NEW q \in Eating10, q \in Lab10!Abstract!Neighbours(p) PROVE FALSE
      <4>1. q \in Philosopher /\ state[q] = "EATING"
        BY <3>3 DEF Eating10, States10, Lab10!OnePostPerMeal
      <4>2. Lab10!RIGHT(p) = q \/ Lab10!RIGHT(q) = p
        BY <3>3, <4>1, Ring10 DEF Lab10!Abstract!Neighbours, Lab10!Abstract!NextSeat, Left
      <4> QED BY <3>2, <4>1, <4>2 DEF Apart10
    <3> QED BY <3>1, <3>2, <3>3 DEF Lab10!Abstract!Begin, Eating10
  <2>3. ASSUME NEW p \in Philosopher, Lab10!Finish(p) PROVE Lab10!Abstract!Finish(p)
    BY <2>3 DEF Lab10!Finish, Lab10!Goto, Eating10, Lab10!TypeOK, Lab10!Abstract!Finish
  <2>4. CASE UNCHANGED vars10
    BY <2>4 DEF vars10, Eating10
  <2>5. Lab10!Abstract!Seat = Philosopher
    BY DEF Lab10!Abstract!Seat, Philosopher
  <2> QED
    BY <2>1, <2>2, <2>3, <2>4, <2>5
       DEF Lab10!Next, Lab10!Step, Lab10!Join, Lab10!vars, vars10, Lab10!Abstract!Next
<1> QED BY <1>1, <1>2

-----------------------------------------------------------------------------
(* 10andrey.c *)

(* Threads that main has not created yet have nothing; it creates them all. *)
Created10a ==
  /\ main \in {"create", "next", "join"} => i < Few
  /\ main = "create" => \A t \in Lab10a!Thread : t >= i => pc10a[t] = "none"
  /\ main = "next" => \A t \in Lab10a!Thread : t > i => pc10a[t] = "none"
  /\ \A t \in Lab10a!Thread : pc10a[t] = "none" => main \in {"create", "next"} /\ t >= i
  /\ main = "next" => pc10a[i] # "none"

(* Whoever reaches for forks has a seat. *)
Seated10a == \A t \in Lab10a!Thread :
  pc10a[t] \in {"first", "second", "eats", "done"} => id[t] \in Lab10a!Seat

(* Who has a dish, a seat, and not begun its meal. *)
InHand10a == {t \in Lab10a!Thread : pc10a[t] \in {"first", "second"}}

(* One dish is always left over in 10andrey.c, too. *)
Dishes10a ==
  /\ Cardinality(InHand10a) \in Nat
  /\ food10a + meals10a + Cardinality(InHand10a) <= Food
  /\ meals10a + Cardinality(InHand10a) < Food

(* The invariant of 10andrey.c. *)
Inv10a == Lab10a!TypeOK /\ Created10a /\ Seated10a /\ Lab10a!ForksOfHolders /\ Dishes10a

(* The forks of a thread that has a seat: those of the seat. *)
LEMMA Forks10a ==
  /\ Lab10a!Nobody \notin Lab10a!Thread /\ Lab10a!Seat = Lab10a!Thread
  /\ \A t \in Lab10a!Thread : id[t] \in Lab10a!Seat =>
       /\ Lab10a!First(t) \in Lab10a!Seat /\ Lab10a!Second(t) \in Lab10a!Seat
       /\ Lab10a!First(t) # Lab10a!Second(t)
       /\ \A f : f \in {Lab10a!First(t), Lab10a!Second(t)} <=> f \in {id[t], Lab10a!Abstract!NextSeat(id[t])}
BY FewAssumption
   DEF Lab10a!Nobody, Lab10a!Thread, Lab10a!Seat, Lab10a!First, Lab10a!Second, Lab10a!right_fork, Lab10a!left_fork,
       Lab10a!Abstract!NextSeat

(* How the number of dishes in hands changes with one thread. *)
LEMMA HandCount10a ==
  ASSUME NEW S, S \subseteq Lab10a!Thread, NEW t \in Lab10a!Thread
  PROVE  /\ Cardinality(S) \in Nat
         /\ t \notin S => Cardinality(S \cup {t}) = Cardinality(S) + 1
         /\ t \in S => Cardinality(S \ {t}) = Cardinality(S) - 1 /\ Cardinality(S) > 0
<1>1. IsFiniteSet(S)
  <2>1. IsFiniteSet(Lab10a!Thread)
    BY FewAssumption, FS_Interval DEF Lab10a!Thread
  <2> QED BY <2>1, FS_Subset
<1>2. Cardinality(S) \in Nat
  BY <1>1, FS_CardinalityType
<1>3. t \notin S => Cardinality(S \cup {t}) = Cardinality(S) + 1
  BY <1>1, FS_AddElement
<1>4. t \in S => Cardinality(S \ {t}) = Cardinality(S) - 1
  BY <1>1, FS_RemoveElement
<1>5. t \in S => Cardinality(S) > 0
  BY <1>1, <1>2, FS_EmptySet
<1> QED BY <1>2, <1>3, <1>4, <1>5

(* The beginning of 10andrey.c. *)
LEMMA Init10a == Lab10a!Init => Inv10a
<1> SUFFICES ASSUME Lab10a!Init PROVE Inv10a
  OBVIOUS
<1> USE PhilosophersAssumption, FewAssumption, Forks10a DEF Lab10a!Init
<1>1. Lab10a!TypeOK
  <2>1. fork10a \in [Lab10a!Seat -> {Lab10a!Nobody}] /\ pc10a \in [Lab10a!Thread -> {"none"}]
    OBVIOUS
  <2>2. id \in [Lab10a!Thread -> {Few}]
    OBVIOUS
  <2> QED BY <2>1, <2>2 DEF Lab10a!TypeOK
<1>2. Created10a /\ Seated10a
  BY DEF Created10a, Seated10a, Lab10a!Thread
<1>3. Lab10a!ForksOfHolders
  BY DEF Lab10a!ForksOfHolders
<1>4. InHand10a = {}
  BY DEF InHand10a
<1>5. Dishes10a
  BY <1>4, FS_EmptySet DEF Dishes10a
<1> QED BY <1>1, <1>2, <1>3, <1>5 DEF Inv10a

(* A thread at the same place, with the same number, has the same forks. *)
LEMMA SameForks10a ==
  ASSUME NEW t \in Lab10a!Thread, id'[t] = id[t]
  PROVE  Lab10a!First(t)' = Lab10a!First(t) /\ Lab10a!Second(t)' = Lab10a!Second(t)
BY DEF Lab10a!First, Lab10a!Second, Lab10a!right_fork, Lab10a!left_fork

(* main's steps *)
LEMMA Main10a ==
  ASSUME Inv10a, Lab10a!Main
  PROVE  Inv10a'
<1> USE FewAssumption, Forks10a DEF Inv10a, Lab10a!Main, Lab10a!Goto
<1>1. UNCHANGED <<food10a, fork10a, id, meals10a>>
  BY DEF Lab10a!Create, Lab10a!Increment, Lab10a!Reset, Lab10a!Join
<1>2. \A t \in Lab10a!Thread : Lab10a!First(t)' = Lab10a!First(t) /\ Lab10a!Second(t)' = Lab10a!Second(t)
  BY <1>1, SameForks10a
<1>3. CASE Lab10a!Create
  <2>1. /\ main = "create" /\ i \in Lab10a!Thread /\ pc10a[i] = "none" /\ main' = "next" /\ i' = i
        /\ pc10a' = [pc10a EXCEPT ![i] = "starts"]
    BY <1>3 DEF Lab10a!Create, Created10a, Lab10a!TypeOK, Lab10a!Thread
  <2>2. Lab10a!TypeOK'
    BY <1>1, <2>1 DEF Lab10a!TypeOK
  <2>3. Created10a'
    BY <2>1 DEF Created10a, Lab10a!TypeOK, Lab10a!Thread
  <2>4. Seated10a'
    BY <1>1, <2>1 DEF Seated10a, Lab10a!TypeOK
  <2>5. Lab10a!ForksOfHolders'
    BY <1>1, <1>2, <2>1 DEF Lab10a!ForksOfHolders, Lab10a!TypeOK
  <2>6. InHand10a' = InHand10a
    BY <2>1 DEF InHand10a, Lab10a!TypeOK
  <2>7. Dishes10a'
    BY <1>1, <2>6 DEF Dishes10a
  <2> QED BY <2>2, <2>3, <2>4, <2>5, <2>7
<1>4. CASE Lab10a!Increment \/ Lab10a!Reset \/ Lab10a!Join
  <2>1. pc10a' = pc10a
    BY <1>4 DEF Lab10a!Increment, Lab10a!Reset, Lab10a!Join
  <2>2. Lab10a!TypeOK'
    BY <1>1, <1>4, <2>1 DEF Lab10a!TypeOK, Created10a, Lab10a!Increment, Lab10a!Reset, Lab10a!Join
  <2>3. Created10a'
    BY <1>4, <2>1 DEF Created10a, Lab10a!TypeOK, Lab10a!Thread, Lab10a!Increment, Lab10a!Reset, Lab10a!Join
  <2>4. Seated10a'
    BY <1>1, <2>1 DEF Seated10a
  <2>5. Lab10a!ForksOfHolders'
    BY <1>1, <1>2, <2>1 DEF Lab10a!ForksOfHolders
  <2>6. Dishes10a'
    BY <1>1, <2>1 DEF Dishes10a, InHand10a
  <2> QED BY <2>2, <2>3, <2>4, <2>5, <2>6
<1> QED BY <1>3, <1>4

(* A thread on its way to its seat, and from dish to dish. *)
LEMMA Seats10a ==
  ASSUME Inv10a, NEW t \in Lab10a!Thread, Lab10a!ReadNumber(t) \/ Lab10a!TakeDish(t)
  PROVE  Inv10a'
<1> USE FewAssumption, PhilosophersAssumption, Forks10a DEF Inv10a
<1>1. PICK place \in {"table", "gone", "first", "stray"} :
         /\ pc10a' = [pc10a EXCEPT ![t] = place]
         /\ pc10a[t] \in {"starts", "table"}
         /\ UNCHANGED <<main, i, fork10a, meals10a>>
         /\ \A u \in Lab10a!Thread \ {t} : id'[u] = id[u]
         /\ id' \in [Lab10a!Thread -> 0..Few]
         /\ place = "first" => id'[t] \in Lab10a!Seat
         /\ food10a' \in 0..Food /\ food10a' <= food10a
         /\ place = "first" => food10a' = food10a - 1 /\ food10a' > 0
  <2>1. CASE Lab10a!ReadNumber(t)
    BY <2>1 DEF Lab10a!ReadNumber, Lab10a!Goto, Lab10a!TypeOK, Lab10a!Seat
  <2>2. CASE Lab10a!TakeDish(t)
    <3>1. food10a' \in 0..Food /\ food10a' <= food10a /\ (food10a' # 0 => food10a' = food10a - 1)
      BY <2>2 DEF Lab10a!TakeDish, Lab10a!LeftOver, Lab10a!TypeOK
    <3>2. id' = id /\ id \in [Lab10a!Thread -> 0..Few]
      BY <2>2 DEF Lab10a!TakeDish, Lab10a!TypeOK, Lab10a!Seat
    <3>3. PICK place \in {"gone", "first", "stray"} :
             /\ pc10a' = [pc10a EXCEPT ![t] = place]
             /\ place = "first" => food10a' # 0 /\ id[t] \in Lab10a!Seat
      BY <2>2 DEF Lab10a!TakeDish, Lab10a!Goto
    <3>4. pc10a[t] = "table" /\ UNCHANGED <<main, i, fork10a, meals10a>>
      BY <2>2 DEF Lab10a!TakeDish
    <3>5. place = "first" => food10a' = food10a - 1 /\ food10a' > 0
      <4>1. place = "first" => food10a' # 0
        BY ONLY <3>3
      <4>2. food10a' \in 0..Food
        BY ONLY <3>1, Zenon
      <4>3. Food \in Nat
        BY ONLY PhilosophersAssumption
      <4>4. food10a' # 0 => food10a' > 0
        BY ONLY <4>2, <4>3
      <4> QED BY ONLY <3>1, <4>1, <4>4, Zenon
    <3> HIDE FewAssumption, PhilosophersAssumption, Forks10a DEF Inv10a
    <3>6. \A u \in Lab10a!Thread \ {t} : id'[u] = id[u]
      BY <3>2
    <3> QED BY ONLY <3>1, <3>2, <3>3, <3>4, <3>5, <3>6
  <2> QED BY <2>1, <2>2
<1>2. \A u \in Lab10a!Thread \ {t} :
         /\ Lab10a!First(u)' = Lab10a!First(u) /\ Lab10a!Second(u)' = Lab10a!Second(u)
         /\ pc10a'[u] = pc10a[u]
  BY <1>1, SameForks10a DEF Lab10a!TypeOK
<1>3. pc10a'[t] = place
  BY <1>1 DEF Lab10a!TypeOK
<1>4. Lab10a!TypeOK'
  BY <1>1 DEF Lab10a!TypeOK, Lab10a!Seat
<1>5. Created10a'
  BY <1>1, <1>2, <1>3 DEF Created10a
<1>6. Seated10a'
  BY <1>1, <1>2, <1>3 DEF Seated10a
<1>7. Lab10a!ForksOfHolders'
  BY <1>1, <1>2, <1>3 DEF Lab10a!ForksOfHolders
<1>8. Dishes10a'
  <2>1. CASE place = "first"
    <3>1. InHand10a' = InHand10a \cup {t} /\ t \notin InHand10a /\ InHand10a \subseteq Lab10a!Thread
      BY <1>1, <1>2, <1>3, <2>1 DEF InHand10a
    <3>2. Cardinality(InHand10a') = Cardinality(InHand10a) + 1
      BY <3>1, HandCount10a
    <3> QED BY <1>1, <2>1, <3>2 DEF Dishes10a, Lab10a!TypeOK
  <2>2. CASE place # "first"
    <3>1. InHand10a' = InHand10a
      BY <1>1, <1>2, <1>3, <2>2 DEF InHand10a
    <3> QED BY <1>1, <3>1 DEF Dishes10a, Lab10a!TypeOK
  <2> QED BY <2>1, <2>2
<1> QED BY <1>4, <1>5, <1>6, <1>7, <1>8

(* One fork more, or one fork less. *)
LEMMA Fork10a ==
  ASSUME Inv10a, NEW t \in Lab10a!Thread,
         Lab10a!LockFirst(t) \/ Lab10a!LockSecond(t) \/ Lab10a!UnlockSecond(t) \/ Lab10a!UnlockFirst(t)
  PROVE  Inv10a' /\ id[t] \in Lab10a!Seat /\ (Lab10a!LockSecond(t) => meals10a < Food - 1)
<1> DEFINE first == Lab10a!First(t)
           second == Lab10a!Second(t)
<1> USE Forks10a DEF Inv10a
<1>1. /\ UNCHANGED <<main, i, food10a, id>> /\ id[t] \in Lab10a!Seat
      /\ first \in Lab10a!Seat /\ second \in Lab10a!Seat /\ first # second
  BY DEF Lab10a!LockFirst, Lab10a!LockSecond, Lab10a!UnlockSecond, Lab10a!UnlockFirst, Seated10a
<1>2. \A u \in Lab10a!Thread : Lab10a!First(u)' = Lab10a!First(u) /\ Lab10a!Second(u)' = Lab10a!Second(u)
  BY <1>1, SameForks10a
<1>3. PICK place \in {"second", "eats", "done", "table"} :
         /\ pc10a' = [pc10a EXCEPT ![t] = place]
         /\ \/ /\ pc10a[t] = "first" /\ place = "second" /\ fork10a[first] = Lab10a!Nobody
               /\ fork10a' = [fork10a EXCEPT ![first] = t] /\ meals10a' = meals10a
            \/ /\ pc10a[t] = "second" /\ place = "eats" /\ fork10a[second] = Lab10a!Nobody
               /\ fork10a' = [fork10a EXCEPT ![second] = t] /\ meals10a' = meals10a + 1
            \/ /\ pc10a[t] = "eats" /\ place = "done"
               /\ fork10a' = [fork10a EXCEPT ![second] = Lab10a!Nobody] /\ meals10a' = meals10a
            \/ /\ pc10a[t] = "done" /\ place = "table"
               /\ fork10a' = [fork10a EXCEPT ![first] = Lab10a!Nobody] /\ meals10a' = meals10a
  BY DEF Lab10a!LockFirst, Lab10a!LockSecond, Lab10a!UnlockSecond, Lab10a!UnlockFirst, Lab10a!Obtain, Lab10a!Goto
<1> HIDE DEF first, second
<1>4. Lab10a!TypeOK'
  BY <1>1, <1>3 DEF Lab10a!TypeOK
<1>5. \A u \in Lab10a!Thread \ {t} : pc10a'[u] = pc10a[u]
  BY <1>3 DEF Lab10a!TypeOK
<1>6. pc10a'[t] = place
  BY <1>3 DEF Lab10a!TypeOK
<1>7. Created10a'
  BY <1>1, <1>3, <1>5, <1>6 DEF Created10a
<1>8. Seated10a'
  BY <1>1, <1>5 DEF Seated10a
<1>9. Lab10a!ForksOfHolders'
  <2> SUFFICES ASSUME NEW f \in Lab10a!Seat, NEW u \in Lab10a!Thread
               PROVE  fork10a'[f] = u <=>
                        \/ pc10a'[u] \in {"second", "eats", "done"} /\ f = Lab10a!First(u)
                        \/ pc10a'[u] = "eats" /\ f = Lab10a!Second(u)
    BY <1>2 DEF Lab10a!ForksOfHolders
  <2>1. /\ fork10a[f] = u <=>
              \/ pc10a[u] \in {"second", "eats", "done"} /\ f = Lab10a!First(u)
              \/ pc10a[u] = "eats" /\ f = Lab10a!Second(u)
        /\ fork10a[f] = t <=>
              \/ pc10a[t] \in {"second", "eats", "done"} /\ f = first
              \/ pc10a[t] = "eats" /\ f = second
    BY DEF Lab10a!ForksOfHolders, first, second
  <2>2. CASE u = t
    BY <1>1, <1>3, <1>6, <2>1, <2>2 DEF Lab10a!TypeOK, first, second
  <2>3. CASE u # t
    BY <1>1, <1>3, <1>5, <2>1, <2>3 DEF Lab10a!TypeOK
  <2> QED BY <2>2, <2>3
<1>10. Dishes10a' /\ (pc10a[t] = "second" => meals10a < Food - 1)
  <2>1. InHand10a \subseteq Lab10a!Thread
    BY DEF InHand10a
  <2>2. CASE pc10a[t] = "second"
    <3>1. InHand10a' = InHand10a \ {t} /\ t \in InHand10a
      BY <1>3, <1>5, <1>6, <2>2 DEF InHand10a
    <3>2. Cardinality(InHand10a') = Cardinality(InHand10a) - 1 /\ Cardinality(InHand10a) > 0
      BY <2>1, <3>1, HandCount10a
    <3> QED BY <1>1, <1>3, <2>2, <3>2, PhilosophersAssumption DEF Dishes10a, Lab10a!TypeOK
  <2>3. CASE pc10a[t] # "second"
    <3>1. InHand10a' = InHand10a
      BY <1>3, <1>5, <1>6, <2>3 DEF InHand10a
    <3> QED BY <1>1, <1>3, <2>3, <3>1 DEF Dishes10a
  <2> QED BY <2>2, <2>3
<1>11. Lab10a!LockSecond(t) => pc10a[t] = "second"
  BY DEF Lab10a!LockSecond
<1> QED BY <1>1, <1>4, <1>7, <1>8, <1>9, <1>10, <1>11

(* All steps of 10andrey.c. *)
LEMMA Step10a == Inv10a /\ [Lab10a!Next]_vars10a => Inv10a'
<1>1. Inv10a /\ UNCHANGED vars10a => Inv10a'
  <2>1. UNCHANGED vars10a =>
          \A u \in Lab10a!Thread : Lab10a!First(u)' = Lab10a!First(u) /\ Lab10a!Second(u)' = Lab10a!Second(u)
    BY SameForks10a DEF vars10a
  <2> QED BY <2>1
       DEF vars10a, Inv10a, Lab10a!TypeOK, Created10a, Seated10a, Lab10a!ForksOfHolders, Dishes10a, InHand10a
<1> QED
  BY <1>1, Main10a, Seats10a, Fork10a DEF Lab10a!Next, Lab10a!End, Lab10a!Step, Lab10a!vars, vars10a

(* The philosophers of 10andrey.c implement Dinner, by seat. *)
Eating10a == {id[t] : t \in {u \in Lab10a!Thread : pc10a[u] = "eats"}}

LEMMA Refine10a ==
  /\ Lab10a!Init => Lab10a!Abstract!Init
  /\ Inv10a /\ [Lab10a!Next]_vars10a => [Lab10a!Abstract!Next]_<<Eating10a, meals10a>>
<1>1. Lab10a!Init => Lab10a!Abstract!Init
  BY DEF Lab10a!Init, Lab10a!Abstract!Init
<1>2. ASSUME Inv10a, [Lab10a!Next]_vars10a PROVE [Lab10a!Abstract!Next]_<<Eating10a, meals10a>>
  <2> DEFINE Eaters == {u \in Lab10a!Thread : pc10a[u] = "eats"}
  <2> USE <1>2, Forks10a DEF Inv10a
  <2>1. ASSUME Eaters' = Eaters, \A u \in Eaters : id'[u] = id[u]
        PROVE  Eating10a' = Eating10a
    BY <2>1 DEF Eating10a
  <2>2. CASE Lab10a!Main
    <3>1. id' = id /\ meals10a' = meals10a
      BY <2>2 DEF Lab10a!Main, Lab10a!Create, Lab10a!Increment, Lab10a!Reset, Lab10a!Join
    <3>2. CASE Lab10a!Create
      <4>1. i \in Lab10a!Thread /\ pc10a[i] = "none" /\ pc10a' = [pc10a EXCEPT ![i] = "starts"]
        BY <3>2, FewAssumption DEF Lab10a!Create, Lab10a!Goto, Created10a, Lab10a!TypeOK, Lab10a!Thread
      <4>2. Eaters' = Eaters
        BY <4>1 DEF Lab10a!TypeOK
      <4> QED BY <2>1, <3>1, <4>2
    <3>3. CASE ~ Lab10a!Create
      <4>1. pc10a' = pc10a
        BY <2>2, <3>3 DEF Lab10a!Main, Lab10a!Increment, Lab10a!Reset, Lab10a!Join
      <4> QED BY <2>1, <3>1, <4>1
    <3> QED BY <3>2, <3>3
  <2>3. ASSUME NEW t \in Lab10a!Thread,
               Lab10a!ReadNumber(t) \/ Lab10a!TakeDish(t) \/ Lab10a!LockFirst(t) \/ Lab10a!UnlockFirst(t)
        PROVE  UNCHANGED <<Eating10a, meals10a>>
    <3>1. Eaters' = Eaters /\ meals10a' = meals10a /\ \A u \in Eaters : id'[u] = id[u]
      BY <2>3 DEF Lab10a!ReadNumber, Lab10a!TakeDish, Lab10a!LockFirst, Lab10a!UnlockFirst, Lab10a!Goto,
         Lab10a!TypeOK
    <3> QED BY <2>1, <3>1
  <2>4. \A u, v \in Eaters : id[u] = id[v] => u = v
    BY DEF Lab10a!ForksOfHolders, Seated10a
  <2>5. ASSUME NEW t \in Lab10a!Thread, Lab10a!LockSecond(t), NEW seat, seat = id[t]
        PROVE  Lab10a!Abstract!Begin(seat)
    <3>1. id[t] \in Lab10a!Seat /\ meals10a < Food - 1
      BY ONLY <2>5, Inv10a, Fork10a
    <3>2. /\ id' = id /\ meals10a' = meals10a + 1 /\ pc10a[t] = "second"
          /\ pc10a' = [pc10a EXCEPT ![t] = "eats"] /\ fork10a[Lab10a!Second(t)] = Lab10a!Nobody
      BY ONLY <2>5 DEF Lab10a!LockSecond, Lab10a!Goto, Lab10a!Obtain
    <3>3. Eaters' = Eaters \cup {t}
      BY <3>2 DEF Lab10a!TypeOK
    <3>4. /\ id[t] \in Lab10a!Seat /\ meals10a < Food - 1 /\ id' = id /\ meals10a' = meals10a + 1
          /\ pc10a[t] = "second" /\ Eaters' = Eaters \cup {t} /\ fork10a[Lab10a!Second(t)] = Lab10a!Nobody
      BY <3>1, <3>3, <3>2
    <3>5. fork10a[Lab10a!First(t)] = t
      BY <3>4 DEF Lab10a!ForksOfHolders
    <3>6. ASSUME NEW u \in Eaters, NEW f, f \in {Lab10a!First(u), Lab10a!Second(u)}
          PROVE  f \notin {Lab10a!First(t), Lab10a!Second(t)}
      <4>1. id[u] \in Lab10a!Seat
        BY DEF Seated10a
      <4>2. fork10a[f] = u /\ u # t
        BY <3>4, <3>6, <4>1 DEF Lab10a!ForksOfHolders
      <4> QED BY <3>4, <3>5, <4>2
    <3>7. id[t] \notin Eating10a
      BY <3>4, <3>6 DEF Eating10a, Seated10a
    <3>8. Lab10a!Abstract!Neighbours(id[t]) \cap Eating10a = {}
      BY <3>4, <3>6 DEF Eating10a, Seated10a, Lab10a!Abstract!Neighbours
    <3>9. Eating10a' = Eating10a \cup {id[t]}
      BY <3>4 DEF Eating10a
    <3> QED BY <2>5, <3>4, <3>7, <3>8, <3>9 DEF Lab10a!Abstract!Begin, Lab10a!Abstract!Neighbours, Eating10a
  <2>6. ASSUME NEW t \in Lab10a!Thread, Lab10a!UnlockSecond(t), NEW seat, seat = id[t]
        PROVE  Lab10a!Abstract!Finish(seat)
    <3>1. id' = id /\ meals10a' = meals10a /\ Eaters' = Eaters \ {t} /\ t \in Eaters
      BY <2>6 DEF Lab10a!UnlockSecond, Lab10a!Goto, Lab10a!TypeOK
    <3>2. Eating10a' = Eating10a \ {id[t]} /\ id[t] \in Eating10a
      BY <2>4, <3>1 DEF Eating10a
    <3> QED BY <2>6, <3>1, <3>2 DEF Lab10a!Abstract!Finish, Eating10a
  <2>7. CASE UNCHANGED vars10a
    BY <2>1, <2>7 DEF vars10a
  <2>8. Lab10a!Abstract!Seat = Lab10a!Seat
    BY DEF Lab10a!Abstract!Seat, Lab10a!Seat
  <2>9. \A t \in Lab10a!Thread : Lab10a!LockSecond(t) \/ Lab10a!UnlockSecond(t) => id[t] \in Lab10a!Seat
    BY Fork10a
  <2> HIDE Forks10a DEF Eaters, Inv10a
  <2>10. ASSUME NEW t \in Lab10a!Thread, Lab10a!Step(t)
         PROVE  [Lab10a!Abstract!Next]_<<Eating10a, meals10a>>
    <3>1. CASE Lab10a!LockSecond(t)
      <4> PICK seat \in Lab10a!Abstract!Seat : seat = id[t]
        BY ONLY <2>10, <2>8, <2>9, <3>1
      <4>1. Lab10a!Abstract!Begin(seat)
        BY ONLY <2>10, <2>5, <3>1, seat = id[t]
      <4>3. Lab10a!Abstract!Next
        BY ONLY <4>1 DEF Lab10a!Abstract!Next
      <4> QED BY ONLY <4>3
    <3>2. CASE Lab10a!UnlockSecond(t)
      <4> PICK seat \in Lab10a!Abstract!Seat : seat = id[t]
        BY ONLY <2>10, <2>8, <2>9, <3>2
      <4>1. Lab10a!Abstract!Finish(seat)
        BY ONLY <2>10, <2>6, <3>2, seat = id[t]
      <4>3. Lab10a!Abstract!Next
        BY ONLY <4>1 DEF Lab10a!Abstract!Next
      <4> QED BY ONLY <4>3
    <3>3. CASE Lab10a!ReadNumber(t) \/ Lab10a!TakeDish(t) \/ Lab10a!LockFirst(t) \/ Lab10a!UnlockFirst(t)
      BY ONLY <2>10, <2>3, <3>3
    <3> QED BY ONLY <2>10, <3>1, <3>2, <3>3 DEF Lab10a!Step
  <2>11. Lab10a!Main \/ UNCHANGED vars10a \/ \E t \in Lab10a!Thread : Lab10a!Step(t)
    BY ONLY <1>2 DEF Lab10a!Next, Lab10a!End, Lab10a!vars, vars10a
  <2> QED
    BY ONLY <2>2, <2>7, <2>10, <2>11
<1> QED BY <1>1, <1>2

-----------------------------------------------------------------------------
(* All three *)

(* A step of the runs is one of a program's own, or leaves it alone. *)
LEMMA ProgramSteps ==
  [MCNext]_<<program, vars, vars10, vars10a>> =>
    [Next]_vars /\ [Lab10!Next]_vars10 /\ [Lab10a!Next]_vars10a
BY DEF MCNext

(* The invariants of the three programs together. *)
Inv == IInv /\ Inv10 /\ Inv10a

(* Each program keeps its own invariant, and the others stay where they are. *)
LEMMA DinnerInvariance == MCSpec => []Inv
<1>1. MCInit => Inv
  BY InitIInv, Init10, Init10a DEF MCInit, Inv
<1>2. Inv /\ [MCNext]_<<program, vars, vars10, vars10a>> => Inv'
  BY ProgramSteps, StepIInv, Step10, Step10a DEF Inv
<1> QED BY <1>1, <1>2, PTL DEF MCSpec

(* The variables of all three programs keep their types: no semaphore of   *)
(* 10.c counts beyond 1, and food is never negative.                       *)
THEOREM TypesOfAllThree == MCSpec => []MCTypeOK
<1>1. Inv => MCTypeOK
  BY DEF Inv, IInv, Inv10, Inv10a, MCTypeOK
<1> QED BY <1>1, DinnerInvariance, PTL

(* A fork is locked exactly for who eats (in 10.c for whose state is       *)
(* EATING), in all three programs; in 10.c each post is consumed by one    *)
(* meal and nobody hungry is forgotten while forklock is free; in 22.c a   *)
(* dish leaves the table only once.                                        *)
THEOREM ForksMatchEaters == MCSpec => []ForksAndPosts
<1>1. Inv10 => Lab10!ForksOfEaters /\ Lab10!OnePostPerMeal
  BY DEF Inv10, States10
<1>2. Inv10 => Lab10!NobodyForgotten
  <2> SUFFICES ASSUME Inv10, forklock = Lab10!Nobody, NEW p \in Philosopher, state[p] = "HUNGRY"
               PROVE  \E q \in {Lab10!LEFT(p), Lab10!RIGHT(p)} : state[q] = "EATING"
    BY Same10 DEF Lab10!NobodyForgotten
  <2>1. Len(todo) = 0
    BY DEF Inv10, Locked10
  <2>2. ~ Named(todo, p)
    BY <2>1 DEF Named
  <2> QED BY <2>2 DEF Inv10, Served10
<1>3. IInv => DishesCounted
  BY PhilosophersAssumption DEF IInv, Dishes, TypeOK, DishesCounted
<1>4. Inv => ForksAndPosts
  BY <1>1, <1>2, <1>3 DEF Inv, IInv, Inv10a, ForksAndPosts
<1> QED BY <1>4, DinnerInvariance, PTL

(* Neighbours never eat at the same time, and there are fewer meals than   *)
(* dishes, in all three programs: the safety half of AllImplementDinner.   *)
THEOREM AllDinnersSafe ==
  MCSpec => DinnerSafe /\ Lab10!Abstract!SafeSpec /\ Lab10a!Abstract!SafeSpec
<1>1. MCInit => Abstract!Init /\ Lab10!Abstract!Init /\ Lab10a!Abstract!Init
  BY Refine22, Refine10, Refine10a DEF MCInit
<1>2. Inv /\ [MCNext]_<<program, vars, vars10, vars10a>> => [Abstract!Next]_<<Eating, meals>>
  BY ProgramSteps, Refine22 DEF Inv
<1>3. Inv /\ [MCNext]_<<program, vars, vars10, vars10a>> =>
        [Lab10!Abstract!Next]_<<{p \in Lab10!Philosopher : pc10[p] = "eats"}, meals10>>
  BY ProgramSteps, Refine10, Same10 DEF Inv, Eating10
<1>4. Inv /\ [MCNext]_<<program, vars, vars10, vars10a>> =>
        [Lab10a!Abstract!Next]_<<{id[t] : t \in {u \in Lab10a!Thread : pc10a[u] = "eats"}}, meals10a>>
  BY ProgramSteps, Refine10a DEF Inv, Eating10a
<1> QED
  BY <1>1, <1>2, <1>3, <1>4, DinnerInvariance, PTL
     DEF MCSpec, Eating, DinnerSafe, Abstract!SafeSpec, Lab10!Abstract!SafeSpec, Lab10a!Abstract!SafeSpec

-----------------------------------------------------------------------------
(* Who can go on: the guards of the steps. *)

(* 22.c; who has been woken has to find the flag set, or it would go back  *)
(* to sleep.                                                               *)
CanMove(p) ==
  \/ pc[p] \in {"hungry", "try", "leave"}
  \/ pc[p] \in {"enter", "eat"} /\ monlock = Nobody
  \/ p \in signalled /\ allowed_to_wake /\ monlock = Nobody

(* 10.c; under forklock the forks to be taken have to be free. *)
CanMove10(p) ==
  \/ pc10[p] = "table"
  \/ pc10[p] \in {"hungry", "eats"} /\ forklock = Nobody
  \/ pc10[p] = "waits" /\ s[p] > 0
  \/ forklock = p /\ (taking = Nobody \/ \A f \in Lab10!Forks(taking) : ~ fork10[f])

(* 10andrey.c, a thread and main *)
CanMove10a(t) ==
  \/ pc10a[t] \in {"starts", "table", "eats", "done"}
  \/ pc10a[t] = "first" /\ fork10a[Lab10a!First(t)] = Lab10a!Nobody
  \/ pc10a[t] = "second" /\ fork10a[Lab10a!Second(t)] = Lab10a!Nobody

MainCanMove10a == main \in {"create", "next", "reset"} \/ (main = "join" /\ pc10a[i] = "gone")

(* Somebody can go on until all have left. *)
NobodyStuck == (\A p \in Philosopher : pc[p] = "gone") \/ \E p \in Philosopher : CanMove(p)

(* The same, and whoever holds forklock can: nobody blocks in get_forks    *)
(* under it.                                                               *)
NobodyStuck10 ==
  /\ \A p \in Philosopher : forklock = p => CanMove10(p)
  /\ (\A p \in Philosopher : pc10[p] = "gone") \/ \E p \in Philosopher : CanMove10(p)

(* Those who reach for forks never wait in a circle, whatever numbers the  *)
(* threads have read, and main gets to its end unless it joins one without *)
(* a seat.                                                                 *)
NobodyStuck10a ==
  /\ \A t \in Lab10a!Thread : pc10a[t] \in {"first", "second"} => \E u \in Lab10a!Thread : CanMove10a(u)
  /\ \/ main = "end" \/ MainCanMove10a \/ pc10a[i] = "stray"
     \/ \E t \in Lab10a!Thread : CanMove10a(t)

LEMMA Moves22 == IInv => NobodyStuck
<1> SUFFICES ASSUME IInv, NEW p \in Philosopher, pc[p] # "gone", \A q \in Philosopher : ~ CanMove(q)
             PROVE  FALSE
  BY DEF NobodyStuck
<1> USE Ring DEF IInv, CanMove
<1>1. monlock = Nobody
  BY DEF TypeOK, Monitor
<1>2. \A q \in Philosopher : pc[q] \in {"asleep", "gone"}
  BY <1>1 DEF TypeOK
<1>3. Sleeper /\ ~ Eater
  BY <1>2 DEF Sleeper, Eater
<1>4. allowed_to_wake /\ signalled # {}
  BY <1>1, <1>3 DEF SleepersServed
<1> QED BY <1>1, <1>4 DEF TypeOK

LEMMA Moves10 == Inv10 => NobodyStuck10
<1> SUFFICES ASSUME Inv10 PROVE NobodyStuck10
  OBVIOUS
<1> USE Same10, Ring10 DEF Inv10
<1>1. ASSUME NEW p \in Philosopher, forklock = p PROVE CanMove10(p)
  <2> SUFFICES ASSUME taking # Nobody, NEW f \in Lab10!Forks(taking) PROVE ~ fork10[f]
    BY <1>1 DEF CanMove10
  <2>1. taking \in Philosopher /\ state[taking] = "EATING" /\ f \in Philosopher
    BY DEF Locked10, Lab10!TypeOK, Lab10!Forks
  <2>2. ASSUME NEW q \in Philosopher, state[q] = "EATING", f \in Lab10!Forks(q), q # taking PROVE FALSE
    BY <2>1, <2>2 DEF Apart10, Lab10!Forks
  <2> QED BY <2>1, <2>2 DEF Lab10!ForksOfEaters
<1>2. ASSUME NEW p \in Philosopher, pc10[p] # "gone", \A q \in Philosopher : ~ CanMove10(q) PROVE FALSE
  <2>1. forklock = Nobody
    BY <1>1, <1>2 DEF Lab10!TypeOK
  <2>2. \A q \in Philosopher : pc10[q] \in {"waits", "gone"} /\ (pc10[q] = "waits" => s[q] = 0)
    BY <1>2, <2>1 DEF CanMove10, Lab10!TypeOK, Locked10
  <2>3. \A q \in Philosopher : state[q] # "EATING"
    BY <2>2 DEF States10, Lab10!OnePostPerMeal
  <2>4. state[p] = "HUNGRY"
    BY <1>2, <2>2, <2>3 DEF States10, Lab10!TypeOK
  <2>5. ~ Named(todo, p)
    BY <2>1, ToDo10 DEF Locked10
  <2> QED BY <2>3, <2>4, <2>5 DEF Served10
<1> QED BY <1>1, <1>2 DEF NobodyStuck10

(* Every non-empty set of natural numbers has a smallest one. *)
LEMMA Smallest ==
  ASSUME NEW T, T \subseteq Nat, T # {}
  PROVE  \E x \in T : \A y \in T : x <= y
<1>1. PICK x \in T : \A y \in T : <<y, x>> \notin OpToRel(<, Nat)
  BY WFMin, NatLessThanWellFounded, Zenon
<1>2. \A y \in T : ~ (y < x)
  BY <1>1 DEF OpToRel
<1> QED BY <1>2

(* Of those who wait for their second fork, the one whose first fork is    *)
(* the last of them gets it: who holds it would hold a later one.          *)
LEMMA LastOfAll10a ==
  ASSUME Inv10a, NEW t \in Lab10a!Thread, pc10a[t] = "second"
  PROVE  \E u \in Lab10a!Thread : CanMove10a(u)
<1> SUFFICES ASSUME \A u \in Lab10a!Thread : ~ CanMove10a(u) PROVE FALSE
  OBVIOUS
<1> DEFINE Waiting == {u \in Lab10a!Thread : pc10a[u] = "second"}
           T == {Few - Lab10a!First(u) : u \in Waiting}
<1> USE Forks10a, FewAssumption DEF Inv10a
<1>1. \A u \in Waiting : /\ Lab10a!First(u) \in 0..(Few - 1) /\ Lab10a!Second(u) \in 0..(Few - 1)
                         /\ Lab10a!First(u) < Lab10a!Second(u)
  BY DEF Seated10a, Lab10a!Seat, Lab10a!First, Lab10a!Second, Lab10a!right_fork, Lab10a!left_fork
<1>2. T \subseteq Nat /\ T # {}
  BY <1>1
<1>3. PICK last \in Waiting : \A u \in Waiting : Few - Lab10a!First(last) <= Few - Lab10a!First(u)
  <2>1. PICK x \in T : \A y \in T : x <= y
    BY <1>2, Smallest
  <2> QED BY <2>1
<1>4. PICK u \in Waiting : Lab10a!First(u) = Lab10a!Second(last)
  <2> DEFINE f == Lab10a!Second(last)
  <2>1. f \in Lab10a!Seat /\ fork10a[f] # Lab10a!Nobody
    BY <1>1 DEF CanMove10a, Lab10a!Seat
  <2>2. fork10a[f] \in Lab10a!Thread
    BY <2>1 DEF Lab10a!TypeOK
  <2>3. pc10a[fork10a[f]] = "second" /\ f = Lab10a!First(fork10a[f])
    BY <2>1, <2>2 DEF Lab10a!ForksOfHolders, CanMove10a
  <2> QED BY <2>2, <2>3
<1>5. Few - Lab10a!First(last) <= Few - Lab10a!First(u)
  BY <1>3
<1> QED BY <1>1, <1>4, <1>5

LEMMA Moves10a == Inv10a => NobodyStuck10a
<1> SUFFICES ASSUME Inv10a PROVE NobodyStuck10a
  OBVIOUS
<1> USE Forks10a DEF Inv10a
<1>1. ASSUME NEW t \in Lab10a!Thread, pc10a[t] \in {"first", "second"}
      PROVE  \E u \in Lab10a!Thread : CanMove10a(u)
  <2>1. CASE pc10a[t] = "first" /\ fork10a[Lab10a!First(t)] # Lab10a!Nobody
    <3>1. Lab10a!First(t) \in Lab10a!Seat
      BY <1>1 DEF Seated10a
    <3>2. PICK u \in Lab10a!Thread : fork10a[Lab10a!First(t)] = u
      BY <2>1, <3>1 DEF Lab10a!TypeOK
    <3>3. pc10a[u] \in {"second", "eats", "done"}
      BY <3>1, <3>2 DEF Lab10a!ForksOfHolders
    <3> QED BY <3>3, LastOfAll10a DEF CanMove10a
  <2>2. CASE pc10a[t] = "second"
    BY <2>2, LastOfAll10a
  <2>3. CASE pc10a[t] = "first" /\ fork10a[Lab10a!First(t)] = Lab10a!Nobody
    BY <2>3 DEF CanMove10a
  <2> QED BY <1>1, <2>1, <2>2, <2>3
<1>2. ASSUME main # "end", ~ MainCanMove10a, pc10a[i] # "stray", \A t \in Lab10a!Thread : ~ CanMove10a(t)
      PROVE  FALSE
  <2>1. main = "join" /\ i \in Lab10a!Thread /\ pc10a[i] # "gone"
    BY <1>2, FewAssumption DEF MainCanMove10a, Created10a, Lab10a!TypeOK, Lab10a!Thread
  <2>2. pc10a[i] # "none"
    BY <2>1 DEF Created10a
  <2>3. pc10a[i] \in {"first", "second"}
    BY <1>2, <2>1, <2>2 DEF CanMove10a, Lab10a!TypeOK
  <2> QED BY <1>1, <1>2, <2>1, <2>3
<1> QED BY <1>1, <1>2 DEF NobodyStuck10a

(* No deadlock, at a table of any size: in 22.c a sleeper never waits for  *)
(* nobody, in 10.c nobody blocks under forklock and whoever is hungry      *)
(* waits for one who eats, in 10andrey.c the order of the forks excludes a *)
(* circle.                                                                 *)
THEOREM NoDeadlock == MCSpec => [](NobodyStuck /\ NobodyStuck10 /\ NobodyStuck10a)
<1>1. Inv => NobodyStuck /\ NobodyStuck10 /\ NobodyStuck10a
  BY Moves22, Moves10, Moves10a DEF Inv
<1> QED BY <1>1, DinnerInvariance, PTL

-----------------------------------------------------------------------------
(* What Dinner's steps amount to, for the three programs that make them:   *)
(* neighbours do not eat at the same time, and a dish is left over.        *)
NeighboursApart22 ==
  /\ meals \in Nat /\ meals < Food
  /\ Eating \subseteq Abstract!Seat
  /\ \A p, q \in Eating : q \notin Abstract!Neighbours(p)

NeighboursApart10 ==
  /\ meals10 \in Nat /\ meals10 < Food
  /\ Eating10 \subseteq Lab10!Abstract!Seat
  /\ \A p, q \in Eating10 : q \notin Lab10!Abstract!Neighbours(p)

NeighboursApart10a ==
  /\ meals10a \in Nat /\ meals10a < Food
  /\ Eating10a \subseteq Lab10a!Abstract!Seat
  /\ \A p, q \in Eating10a : q \notin Lab10a!Abstract!Neighbours(p)

LEMMA Dinner22 == Abstract!SafeSpec => []NeighboursApart22
<1> USE PhilosophersAssumption
<1> DEFINE e == Eating
<1>1. Abstract!Init => NeighboursApart22
  BY DEF Abstract!Init, NeighboursApart22, Eating
<1>2. ASSUME NeighboursApart22, [Abstract!Next]_<<e, meals>> PROVE NeighboursApart22'
  <2>1. ASSUME NEW p \in Abstract!Seat, Abstract!Begin(p) PROVE NeighboursApart22'
    <3>1. /\ e' = e \cup {p} /\ meals' = meals + 1 /\ meals < Food - 1
          /\ \A q \in Abstract!Neighbours(p) : q \notin e
      BY <2>1 DEF Abstract!Begin, Eating
    <3>2. p \notin Abstract!Neighbours(p)
      BY <2>1 DEF Abstract!Neighbours, Abstract!NextSeat, Abstract!Seat
    <3>3. \A q \in Abstract!Seat : p \in Abstract!Neighbours(q) => q \in Abstract!Neighbours(p)
      BY DEF Abstract!Neighbours
    <3>4. \A q, r \in e' : r \notin Abstract!Neighbours(q)
      <4> HIDE DEF e
      <4> QED BY <1>2, <3>1, <3>2, <3>3 DEF NeighboursApart22, e
    <3> QED BY <1>2, <2>1, <3>1, <3>4 DEF NeighboursApart22, Abstract!Neighbours
  <2>2. ASSUME NEW p \in Abstract!Seat, Abstract!Finish(p) PROVE NeighboursApart22'
    <3>1. e' = e \ {p} /\ meals' = meals
      BY <2>2 DEF Abstract!Finish, Eating
    <3> QED BY <1>2, <3>1 DEF NeighboursApart22, Abstract!Neighbours
  <2>3. CASE UNCHANGED <<e, meals>>
    BY <1>2, <2>3 DEF NeighboursApart22, Abstract!Neighbours
  <2> QED BY <1>2, <2>1, <2>2, <2>3 DEF Abstract!Next
<1> QED BY <1>1, <1>2, PTL DEF Abstract!SafeSpec, Eating

LEMMA Dinner10 == Lab10!Abstract!SafeSpec => []NeighboursApart10
<1> USE PhilosophersAssumption DEF Philosopher, Lab10!Philosopher
<1> DEFINE e == Eating10
<1>1. Lab10!Abstract!Init => NeighboursApart10
  BY DEF Lab10!Abstract!Init, NeighboursApart10, Eating10
<1>2. ASSUME NeighboursApart10, [Lab10!Abstract!Next]_<<e, meals10>> PROVE NeighboursApart10'
  <2>1. ASSUME NEW p \in Lab10!Abstract!Seat, Lab10!Abstract!Begin(p) PROVE NeighboursApart10'
    <3>1. /\ e' = e \cup {p} /\ meals10' = meals10 + 1 /\ meals10 < Food - 1
          /\ \A q \in Lab10!Abstract!Neighbours(p) : q \notin e
      BY <2>1 DEF Lab10!Abstract!Begin, Eating10
    <3>2. p \notin Lab10!Abstract!Neighbours(p)
      BY <2>1 DEF Lab10!Abstract!Neighbours, Lab10!Abstract!NextSeat, Lab10!Abstract!Seat
    <3>3. \A q \in Lab10!Abstract!Seat : p \in Lab10!Abstract!Neighbours(q) => q \in Lab10!Abstract!Neighbours(p)
      BY DEF Lab10!Abstract!Neighbours
    <3>4. \A q, r \in e' : r \notin Lab10!Abstract!Neighbours(q)
      <4> HIDE DEF e
      <4> QED BY <1>2, <3>1, <3>2, <3>3 DEF NeighboursApart10, e
    <3> QED BY <1>2, <2>1, <3>1, <3>4 DEF NeighboursApart10, Lab10!Abstract!Neighbours
  <2>2. ASSUME NEW p \in Lab10!Abstract!Seat, Lab10!Abstract!Finish(p) PROVE NeighboursApart10'
    <3>1. e' = e \ {p} /\ meals10' = meals10
      BY <2>2 DEF Lab10!Abstract!Finish, Eating10
    <3> QED BY <1>2, <3>1 DEF NeighboursApart10, Lab10!Abstract!Neighbours
  <2>3. CASE UNCHANGED <<e, meals10>>
    BY <1>2, <2>3 DEF NeighboursApart10, Lab10!Abstract!Neighbours
  <2> QED BY <1>2, <2>1, <2>2, <2>3 DEF Lab10!Abstract!Next
<1> QED BY <1>1, <1>2, PTL DEF Lab10!Abstract!SafeSpec, Eating10

LEMMA Dinner10a == Lab10a!Abstract!SafeSpec => []NeighboursApart10a
<1> USE PhilosophersAssumption, FewAssumption
<1> DEFINE e == Eating10a
<1>1. Lab10a!Abstract!Init => NeighboursApart10a
  BY DEF Lab10a!Abstract!Init, NeighboursApart10a, Eating10a
<1>2. ASSUME NeighboursApart10a, [Lab10a!Abstract!Next]_<<e, meals10a>> PROVE NeighboursApart10a'
  <2>1. ASSUME NEW p \in Lab10a!Abstract!Seat, Lab10a!Abstract!Begin(p) PROVE NeighboursApart10a'
    <3>1. /\ e' = e \cup {p} /\ meals10a' = meals10a + 1 /\ meals10a < Food - 1
          /\ \A q \in Lab10a!Abstract!Neighbours(p) : q \notin e
      BY <2>1 DEF Lab10a!Abstract!Begin, Eating10a
    <3>2. p \notin Lab10a!Abstract!Neighbours(p)
      BY <2>1 DEF Lab10a!Abstract!Neighbours, Lab10a!Abstract!NextSeat, Lab10a!Abstract!Seat
    <3>3. \A q \in Lab10a!Abstract!Seat : p \in Lab10a!Abstract!Neighbours(q) => q \in Lab10a!Abstract!Neighbours(p)
      BY DEF Lab10a!Abstract!Neighbours
    <3>4. \A q, r \in e' : r \notin Lab10a!Abstract!Neighbours(q)
      <4> HIDE DEF e
      <4> QED BY <1>2, <3>1, <3>2, <3>3 DEF NeighboursApart10a, e
    <3> QED BY <1>2, <2>1, <3>1, <3>4 DEF NeighboursApart10a, Lab10a!Abstract!Neighbours
  <2>2. ASSUME NEW p \in Lab10a!Abstract!Seat, Lab10a!Abstract!Finish(p) PROVE NeighboursApart10a'
    <3>1. e' = e \ {p} /\ meals10a' = meals10a
      BY <2>2 DEF Lab10a!Abstract!Finish, Eating10a
    <3> QED BY <1>2, <3>1 DEF NeighboursApart10a, Lab10a!Abstract!Neighbours
  <2>3. CASE UNCHANGED <<e, meals10a>>
    BY <1>2, <2>3 DEF NeighboursApart10a, Lab10a!Abstract!Neighbours
  <2> QED BY <1>2, <2>1, <2>2, <2>3 DEF Lab10a!Abstract!Next
<1> QED BY <1>1, <1>2, PTL DEF Lab10a!Abstract!SafeSpec, Eating10a

(* Neighbours never eat at the same time, and the last dish is never       *)
(* eaten, in all three programs: what was proved of Dinner holds of them.  *)
THEOREM OneOfTwoNeighboursEats == MCSpec => [](NeighboursApart22 /\ NeighboursApart10 /\ NeighboursApart10a)
BY AllDinnersSafe, Dinner22, Dinner10, Dinner10a, PTL DEF DinnerSafe
=============================================================================
