---------------------------- MODULE Semaphores14 ----------------------------
(***************************************************************************)
(* lab14/14.c: parent and child thread pass one post back and forth        *)
(* between two semaphores.  A write that fails ends its thread             *)
(* (verify_e), which takes the post with it; sem_destroy, called then,     *)
(* does not change what a waiting thread sees.                             *)
(***************************************************************************)
EXTENDS Integers

CONSTANT Count  \* COUNT, the lines of each

Writer == {"parent", "child"}

VARIABLES
  sem,      \* parent_sem, child_sem
  i,        \* each one's loop variable
  pc,
  written,  \* history: the lines that are out
  joined    \* main is past pthread_join

vars == <<sem, i, pc, written, joined>>

(* Mutant of OtherSem: back into one's own semaphore. *)
BadOtherSem(w) == w

OtherSem(w) == IF w = "parent" THEN "child" ELSE "parent"

(* sem_init *)
Initially(w) == IF w = "parent" THEN 1 ELSE 0

Init ==
  /\ sem = [w \in Writer |-> Initially(w)]
  /\ i = [w \in Writer |-> 0]
  /\ pc = [w \in Writer |-> IF w = "parent" THEN "create" ELSE "none"]
  /\ written = [w \in Writer |-> 0]
  /\ joined = FALSE

-----------------------------------------------------------------------------
(* pthread_create; the parent goes on as thread_body, too. *)
Create ==
  /\ pc["parent"] = "create"
  /\ pc' = [w \in Writer |-> "wait"]
  /\ UNCHANGED <<sem, i, written, joined>>

Wait(w) ==
  /\ pc[w] = "wait" /\ sem[w] > 0
  /\ sem' = [sem EXCEPT ![w] = @ - 1]
  /\ pc' = [pc EXCEPT ![w] = "write"]
  /\ UNCHANGED <<i, written, joined>>

Write(w) ==
  /\ pc[w] = "write"
  /\ written' = [written EXCEPT ![w] = @ + 1]
  /\ pc' = [pc EXCEPT ![w] = "post"]
  /\ UNCHANGED <<sem, i, joined>>

WriteFails(w) ==
  /\ pc[w] = "write"
  /\ pc' = [pc EXCEPT ![w] = "failed"]
  /\ UNCHANGED <<sem, i, written, joined>>

(* i < COUNT *)
Again(n) == n < Count

Post(w) ==
  /\ pc[w] = "post"
  /\ sem' = [sem EXCEPT ![OtherSem(w)] = @ + 1]
  /\ i' = [i EXCEPT ![w] = @ + 1]
  /\ pc' = [pc EXCEPT ![w] = IF Again(i[w] + 1) THEN "wait" ELSE "done"]
  /\ UNCHANGED <<written, joined>>

Join ==
  /\ pc["parent"] = "done" /\ ~ joined
  /\ pc["child"] \in {"done", "failed"}
  /\ joined' = TRUE
  /\ UNCHANGED <<sem, i, pc, written>>

-----------------------------------------------------------------------------
Next ==
  \/ Create \/ Join
  \/ \E w \in Writer : Wait(w) \/ Write(w) \/ WriteFails(w) \/ Post(w)

SafeSpec == Init /\ [][Next]_vars

(* Threads are scheduled, and write() returns, with or without an error.   *)
Spec ==
  /\ SafeSpec
  /\ WF_vars(Create) /\ WF_vars(Join)
  /\ \A w \in Writer : WF_vars(Wait(w) \/ Write(w) \/ Post(w))

-----------------------------------------------------------------------------
TypeOK ==
  /\ sem \in [Writer -> Nat]
  /\ i \in [Writer -> 0..Count]
  /\ pc \in [Writer -> {"create", "none", "wait", "write", "post", "done", "failed"}]
  /\ written \in [Writer -> 0..Count]
  /\ joined \in BOOLEAN

Failed == {w \in Writer : pc[w] = "failed"}

(* What main tells of its child when it has joined it: all lines are out   *)
(* but the one that the child may have failed to write.                    *)
JoinedAtTheEnd ==
  joined => /\ written["parent"] = Count
            /\ Failed = {} => written["child"] = Count

(* Lines and failures are those of Alternation. *)
Abstract == INSTANCE Alternation WITH stopped <- Failed

AlternationSafe == Abstract!SafeSpec

AlternationEnds == Abstract!Ends
=============================================================================
