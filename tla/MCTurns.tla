------------------------------ MODULE MCTurns ------------------------------
(***************************************************************************)
(* The three programs that take turns, one of them at a time: the others   *)
(* stay at their beginning.                                                *)
(***************************************************************************)
EXTENDS Integers

CONSTANTS
  Count,    \* COUNT, the lines of each
  MaxRuns   \* bound of Processes16

ASSUME CountAssumption == Count \in Nat \ {0}

ASSUME RunsAssumption == MaxRuns \in Nat \ {0}

VARIABLES
  program,
  sem14, i14, pc14, written14, joined14,
  mutex, cur_mutex, i11, pc11, written11,
  link, value, made, run, sem16, i16, pc16, written16, last, cut

vars14 == <<sem14, i14, pc14, written14, joined14>>
vars11 == <<mutex, cur_mutex, i11, pc11, written11>>
vars16 == <<link, value, made, run, sem16, i16, pc16, written16, last, cut>>

Writer == {"parent", "child"}

Lab14 == INSTANCE Semaphores14
  WITH sem <- sem14, i <- i14, pc <- pc14, written <- written14, joined <- joined14

Lab11 == INSTANCE Mutexes11 WITH i <- i11, pc <- pc11, written <- written11

Lab16 == INSTANCE Processes16 WITH sem <- sem16, i <- i16, pc <- pc16, written <- written16

MCInit ==
  /\ program \in {"14", "11", "16"}
  /\ Lab14!Init /\ Lab11!Init /\ Lab16!Init

MCNext ==
  /\ UNCHANGED program
  /\ \/ program = "14" /\ Lab14!Next /\ UNCHANGED <<vars11, vars16>>
     \/ program = "11" /\ Lab11!Next /\ UNCHANGED <<vars14, vars16>>
     \/ program = "16" /\ Lab16!Next /\ UNCHANGED <<vars14, vars11>>

(* The fairness of each program, while it is the one that runs. *)
MCSpec ==
  /\ MCInit /\ [][MCNext]_<<program, vars14, vars11, vars16>>
  /\ WF_vars14(program = "14" /\ Lab14!Create) /\ WF_vars14(program = "14" /\ Lab14!Join)
  /\ \A w \in Writer :
       /\ WF_vars14(program = "14" /\ (Lab14!Wait(w) \/ Lab14!Write(w) \/ Lab14!Post(w)))
       /\ WF_vars11(program = "11" /\ Lab11!Body(w))
       /\ WF_vars16(program = "16" /\ Lab16!Step(w))
  /\ WF_vars11(program = "11" /\ Lab11!Start)
  /\ SF_vars11(program = "11" /\ Lab11!ChildStart)
  /\ WF_vars16(program = "16" /\ Lab16!Reap)

MCTypeOK == Lab14!TypeOK /\ Lab11!TypeOK /\ Lab16!TypeOK

(* The error checking mutexes of 11.c never report an error, from the      *)
(* handshake to the last unlock, and a thread between two lines holds the  *)
(* one that keeps the other thread from its next line; in 14.c the child   *)
(* that main has joined has left no line out, unless a write failed.       *)
NothingOutOfStep == Lab11!NoMutexError /\ Lab11!Handover /\ Lab14!JoinedAtTheEnd

(* 14.c and 11.c implement the steps of Alternation: whoever writes a line *)
(* is the one whose turn it is, also after a failed write.                 *)
TakeTurns == Lab14!AlternationSafe /\ Lab11!AlternationSafe

(* 16.c: no two lines in a row are of the same process, over kills and     *)
(* restarts.                                                               *)
LinesAlternate == Lab16!LinesAlternate

(* All three get to their last line unless a write fails or (16.c) one of  *)
(* the processes is killed.                                                *)
TurnsEnd ==
  /\ program = "14" => Lab14!AlternationEnds
  /\ program = "11" => Lab11!AlternationEnds
  /\ program = "16" => Lab16!UndisturbedRunEnds
=============================================================================
