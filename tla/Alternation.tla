---------------------------- MODULE Alternation ----------------------------
(***************************************************************************)
(* What the parent and the child of labs 11 and 14 promise, whatever       *)
(* they synchronise with: they write Count lines each, the parent first,   *)
(* and then in turns, each line number once.  Mutexes11 and Semaphores14   *)
(* implement it; Processes16 keeps the turns over restarts as well.        *)
(***************************************************************************)
EXTENDS Integers

CONSTANT Count

VARIABLES
  written,  \* how many lines each has written
  stopped   \* who has failed or been killed

Writer == {"parent", "child"}

Init == written = [w \in Writer |-> 0] /\ stopped = {}

Turn == IF written["parent"] = written["child"] THEN "parent" ELSE "child"

WriteLine(w) ==
  /\ w = Turn /\ w \notin stopped
  /\ written[w] < Count
  /\ written' = [written EXCEPT ![w] = @ + 1]
  /\ UNCHANGED stopped

Stop(w) ==
  /\ stopped' = stopped \cup {w}
  /\ UNCHANGED written

Next == \E w \in Writer : WriteLine(w) \/ Stop(w)

SafeSpec == Init /\ [][Next]_<<written, stopped>>

(* They go on to the end as long as nobody has stopped. *)
Ends == <>(stopped # {} \/ \A w \in Writer : written[w] = Count)

Spec == SafeSpec /\ Ends
=============================================================================
