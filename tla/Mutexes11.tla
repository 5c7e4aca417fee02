----------------------------- MODULE Mutexes11 -----------------------------
(***************************************************************************)
(* lab11/11.c: parent and child thread take turns with three error         *)
(* checking mutexes: each locks the next one, writes, and unlocks the one  *)
(* before.  It begins when the child holds number 2, which the parent      *)
(* finds out by trying to lock it.  A write that fails ends its thread,    *)
(* with what it has locked.                                                *)
(***************************************************************************)
EXTENDS Integers

CONSTANT Count  \* COUNT, the lines of each

MUTEXES == 3
Mutex == 0..(MUTEXES - 1)
Writer == {"parent", "child"}
Nobody == "nobody"

VARIABLES
  mutex,       \* their holders
  cur_mutex,   \* each one's
  i,           \* each one's loop variable
  pc,
  written      \* history: the lines that are out

vars == <<mutex, cur_mutex, i, pc, written>>

(* pthread_mutex_lock(mutex) is behind main. *)
Init ==
  /\ mutex = [m \in Mutex |-> IF m = 0 THEN "parent" ELSE Nobody]
  /\ cur_mutex = [w \in Writer |-> 0]
  /\ i = [w \in Writer |-> 0]
  /\ pc = [w \in Writer |-> IF w = "parent" THEN "create" ELSE "none"]
  /\ written = [w \in Writer |-> 0]

Goto(w, place) == pc' = [pc EXCEPT ![w] = place]

Next_mutex(w) == (cur_mutex[w] + 1) % MUTEXES

-----------------------------------------------------------------------------
Create ==
  /\ pc["parent"] = "create"
  /\ pc' = [parent |-> "trylock", child |-> "start"]
  /\ UNCHANGED <<mutex, cur_mutex, i, written>>

(* Mutant of Busy: one attempt is enough. *)
BadBusy == TRUE

Busy == mutex[2] # Nobody

(* The parent's loop, one trylock and, if it succeeds, the unlock. *)
TryLock ==
  /\ pc["parent"] = "trylock"
  /\ IF Busy
       THEN Goto("parent", "lock") /\ UNCHANGED mutex
       ELSE Goto("parent", "retry") /\ mutex' = [mutex EXCEPT ![2] = "parent"]
  /\ UNCHANGED <<cur_mutex, i, written>>

Retry ==
  /\ pc["parent"] = "retry"
  /\ mutex' = [mutex EXCEPT ![2] = Nobody]
  /\ Goto("parent", "trylock")
  /\ UNCHANGED <<cur_mutex, i, written>>

ChildStart ==
  /\ pc["child"] = "start" /\ mutex[2] = Nobody
  /\ mutex' = [mutex EXCEPT ![2] = "child"]
  /\ cur_mutex' = [cur_mutex EXCEPT !["child"] = 2]
  /\ Goto("child", "lock")
  /\ UNCHANGED <<i, written>>

(* mutex[m] is locked, or verify ends the thread (EDEADLK). *)
Lock(w) ==
  /\ pc[w] = "lock"
  /\ LET m == Next_mutex(w) IN
       IF mutex[m] = w
         THEN Goto(w, "error") /\ UNCHANGED mutex
         ELSE mutex[m] = Nobody /\ mutex' = [mutex EXCEPT ![m] = w] /\ Goto(w, "write")
  /\ UNCHANGED <<cur_mutex, i, written>>

Write(w) ==
  /\ pc[w] = "write"
  /\ written' = [written EXCEPT ![w] = @ + 1]
  /\ Goto(w, "unlock")
  /\ UNCHANGED <<mutex, cur_mutex, i>>

WriteFails(w) ==
  /\ pc[w] = "write"
  /\ Goto(w, "failed")
  /\ UNCHANGED <<mutex, cur_mutex, i, written>>

(* Mutant of Passed: the one just locked is unlocked. *)
BadPassed(w) == Next_mutex(w)

Passed(w) == cur_mutex[w]

(* i < COUNT *)
Again(n) == n < Count

(* The mutex before is unlocked, or verify ends the thread (EPERM). *)
Unlock(w) ==
  /\ pc[w] = "unlock"
  /\ IF mutex[Passed(w)] = w
       THEN /\ mutex' = [mutex EXCEPT ![Passed(w)] = Nobody]
            /\ cur_mutex' = [cur_mutex EXCEPT ![w] = Next_mutex(w)]
            /\ i' = [i EXCEPT ![w] = @ + 1]
            /\ Goto(w, IF Again(i[w] + 1) THEN "lock" ELSE "last")
       ELSE Goto(w, "error") /\ UNCHANGED <<mutex, cur_mutex, i>>
  /\ UNCHANGED written

LastUnlock(w) ==
  /\ pc[w] = "last"
  /\ IF mutex[cur_mutex[w]] = w
       THEN mutex' = [mutex EXCEPT ![cur_mutex[w]] = Nobody] /\ Goto(w, "done")
       ELSE Goto(w, "error") /\ UNCHANGED mutex
  /\ UNCHANGED <<cur_mutex, i, written>>

-----------------------------------------------------------------------------
Start == Create \/ TryLock \/ Retry

Body(w) == Lock(w) \/ Write(w) \/ Unlock(w) \/ LastUnlock(w)

Next ==
  \/ Start \/ ChildStart
  \/ \E w \in Writer : Body(w) \/ WriteFails(w)

SafeSpec == Init /\ [][Next]_vars

(* Threads are scheduled, and write() returns.  Strong fairness for the    *)
(* child's first lock: the parent holds number 2 only for moments.         *)
Spec ==
  /\ SafeSpec
  /\ WF_vars(Start) /\ SF_vars(ChildStart)
  /\ \A w \in Writer : WF_vars(Body(w))

-----------------------------------------------------------------------------
TypeOK ==
  /\ mutex \in [Mutex -> Writer \cup {Nobody}]
  /\ cur_mutex \in [Writer -> Mutex]
  /\ i \in [Writer -> 0..Count]
  /\ pc \in [Writer -> {"create", "none", "start", "trylock", "retry", "lock", "write", "unlock",
                        "last", "done", "failed", "error"}]
  /\ written \in [Writer -> 0..Count]

(* No error of the error checking mutexes: nobody locks what it holds or   *)
(* unlocks what it does not hold, at any place of the ring.                *)
NoMutexError == \A w \in Writer : pc[w] # "error"

(* Whoever is between two lines holds the mutex that keeps the other one   *)
(* from its next line; so the two are never both past their locks.         *)
Handover ==
  \A w \in Writer : pc[w] \in {"lock", "write", "unlock"} => mutex[cur_mutex[w]] = w

(* Lines and failures are those of Alternation. *)
Abstract == INSTANCE Alternation WITH stopped <- {w \in Writer : pc[w] \in {"failed", "error"}}

AlternationSafe == Abstract!SafeSpec

AlternationEnds == Abstract!Ends
=============================================================================
