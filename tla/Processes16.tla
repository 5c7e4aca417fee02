---------------------------- MODULE Processes16 ----------------------------
(***************************************************************************)
(* lab16/16.c: parent and child process pass one post back and forth       *)
(* between two named semaphores, which each opens or creates after the     *)
(* fork.  Names and values outlive a process that is killed, and the next  *)
(* run of the program begins with what it finds.                           *)
(***************************************************************************)
EXTENDS Integers

CONSTANTS
  Count,     \* COUNT, the lines of each
  MaxRuns    \* bound: how often the program is started

Writer == {"parent", "child"}
Name == Writer          \* SEM_PRT_NAME and SEM_CLD_NAME, by who waits on it
Sem == 1..(4 * MaxRuns) \* all semaphores that can be created
None == 0

VARIABLES
  link,      \* the semaphore of a name, or None
  value,     \* a semaphore's posts
  made,      \* how many have been created
  run,       \* the number of this run
  sem,       \* the semaphore that a process has under a name
  i, pc,     \* a process: its loop variable, its place
  written,   \* history of the run: the lines that are out
  last,      \* history of the run: whose line was the last one
  cut        \* history: somebody was killed between its two sem_unlinks

vars == <<link, value, made, run, sem, i, pc, written, last, cut>>

Other(w) == IF w = "parent" THEN "child" ELSE "parent"

Fresh(x) == [w \in Writer |-> x]

Closed == [n \in Name |-> None]

Init ==
  /\ link = [n \in Name |-> None]
  /\ value = [m \in Sem |-> 0]
  /\ made = 0 /\ run = 1
  /\ sem = Fresh(Closed)
  /\ i = Fresh(0) /\ pc = Fresh("open1")
  /\ written = Fresh(0) /\ last = "none"
  /\ cut = FALSE

Goto(w, place) == pc' = [pc EXCEPT ![w] = place]

-----------------------------------------------------------------------------
(* The argument of sem_open *)
Initially(n) == IF n = "parent" THEN 1 ELSE 0

(* sem_open: what the name stands for, or a new semaphore. *)
Open(w, n, place, next) ==
  /\ pc[w] = place
  /\ IF link[n] = None
       THEN /\ made' = made + 1
            /\ link' = [link EXCEPT ![n] = made + 1]
            /\ value' = [value EXCEPT ![made + 1] = Initially(n)]
       ELSE UNCHANGED <<made, link, value>>
  /\ sem' = [sem EXCEPT ![w][n] = link'[n]]
  /\ Goto(w, next)
  /\ UNCHANGED <<run, i, written, last, cut>>

Wait(w) ==
  /\ pc[w] = "wait"
  /\ value[sem[w][w]] > 0
  /\ value' = [value EXCEPT ![sem[w][w]] = @ - 1]
  /\ Goto(w, "write")
  /\ UNCHANGED <<link, made, run, sem, i, written, last, cut>>

Write(w) ==
  /\ pc[w] = "write"
  /\ written' = [written EXCEPT ![w] = @ + 1]
  /\ last' = w
  /\ Goto(w, "post")
  /\ UNCHANGED <<link, value, made, run, sem, i, cut>>

(* verify_e: free_resources and the end. *)
WriteFails(w) ==
  /\ pc[w] = "write"
  /\ Goto(w, "free1")
  /\ UNCHANGED <<link, value, made, run, sem, i, written, last, cut>>

(* Mutant of Again: one line more. *)
BadAgain(n) == n <= Count

(* i < COUNT *)
Again(n) == n < Count

(* Mutant of Target: one's own semaphore is posted. *)
BadTarget(w) == sem[w][w]

Target(w) == sem[w][Other(w)]

Post(w) ==
  /\ pc[w] = "post"
  /\ value' = [value EXCEPT ![Target(w)] = @ + 1]
  /\ i' = [i EXCEPT ![w] = @ + 1]
  /\ Goto(w, IF Again(i[w] + 1) THEN "wait" ELSE IF w = "parent" THEN "reap" ELSE "free1")
  /\ UNCHANGED <<link, made, run, sem, written, last, cut>>

Ended(w) == pc[w] \in {"ended", "killed"}

(* Errors are results other than 0. *)
verify(rc) == rc = 0

(* What wait returns: the number of the child's process. *)
ChildPid == 1

(* verify(wait(...)): past it the parent would report how the child ended; *)
(* otherwise free_resources and the end.                                   *)
Reap ==
  /\ pc["parent"] = "reap" /\ Ended("child")
  /\ Goto("parent", IF verify(ChildPid) THEN "report" ELSE "free1")
  /\ UNCHANGED <<link, value, made, run, sem, i, written, last, cut>>

(* free_resources unlinks one name ... *)
Unlink1(w) ==
  /\ pc[w] = "free1"
  /\ link' = [link EXCEPT !["parent"] = None]
  /\ Goto(w, "free2")
  /\ UNCHANGED <<value, made, run, sem, i, written, last, cut>>

Unlinked == [link EXCEPT !["child"] = None]

(* ... and then the other one. *)
Unlink2(w) ==
  /\ pc[w] = "free2"
  /\ link' = Unlinked
  /\ Goto(w, "ended")
  /\ UNCHANGED <<value, made, run, sem, i, written, last, cut>>

(* A signal ends a process at any place. *)
Kill(w) ==
  /\ ~ Ended(w)
  /\ Goto(w, "killed")
  /\ cut' = (cut \/ pc[w] = "free2")
  /\ UNCHANGED <<link, value, made, run, sem, i, written, last>>

(* The program is started again when both have ended. *)
Restart ==
  /\ run < MaxRuns
  /\ \A w \in Writer : Ended(w)
  /\ run' = run + 1
  /\ sem' = Fresh(Closed)
  /\ i' = Fresh(0) /\ pc' = Fresh("open1")
  /\ written' = Fresh(0) /\ last' = "none"
  /\ UNCHANGED <<link, value, made, cut>>

-----------------------------------------------------------------------------
Step(w) ==
  \/ Open(w, "parent", "open1", "open2") \/ Open(w, "child", "open2", "wait")
  \/ Wait(w) \/ Write(w) \/ Post(w) \/ Unlink1(w) \/ Unlink2(w)

Next == Reap \/ Restart \/ \E w \in Writer : Step(w) \/ WriteFails(w) \/ Kill(w)

SafeSpec == Init /\ [][Next]_vars

(* The processes are scheduled, and write() returns; nobody has to fail,   *)
(* to be killed or to be started again.                                    *)
Spec == SafeSpec /\ WF_vars(Reap) /\ \A w \in Writer : WF_vars(Step(w))

-----------------------------------------------------------------------------
TypeOK ==
  /\ link \in [Name -> Sem \cup {None}]
  /\ value \in [Sem -> Nat]
  /\ made \in 0..(4 * MaxRuns)
  /\ run \in 1..MaxRuns
  /\ sem \in [Writer -> [Name -> Sem \cup {None}]]
  /\ i \in [Writer -> 0..Count]
  /\ pc \in [Writer -> {"open1", "open2", "wait", "write", "post", "reap", "report", "free1", "free2",
                        "ended", "killed"}]
  /\ written \in [Writer -> 0..Count]
  /\ last \in Writer \cup {"none"}
  /\ cut \in BOOLEAN

(* Wherever processes have been killed, and whatever the run before left   *)
(* in the semaphores: no two lines in a row are of the same process, since *)
(* there is never a second post on the way.  (A kill between the two       *)
(* sem_unlinks is the one exception.)                                      *)
LinesAlternate == [][\A w \in Writer : written'[w] > written[w] /\ ~ cut => last # w]_written

AllWritten == \A w \in Writer : written[w] = Count

(* If nobody is killed and no write fails, the first run writes its lines  *)
(* to the end, in whatever order the processes open the semaphores.        *)
UndisturbedRunEnds ==
  [](\A w \in Writer : Ended(w) \/ pc[w] = "free1" => pc[w] # "killed" /\ i[w] = Count)
    => <>AllWritten
=============================================================================
