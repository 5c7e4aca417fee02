--------------------------- MODULE ShutdownProofs ---------------------------
(***************************************************************************)
(* The end of the proxy, for a pool of any size: what is destroyed in      *)
(* which order, that an idle proxy ends cleanly, and that threads which    *)
(* are to end wait for each other in vain only at a lock whose owner left  *)
(* by check_panic.                                                         *)
(*                                                                         *)
(* The invariant says which places go with a lock, with a destroyed part   *)
(* and with the flag.  Only one thread comes past cache_destroy on its way *)
(* to destroy_workers, or two would join each other.                       *)
(***************************************************************************)
EXTENDS Shutdown, TLAPS

Places ==
  {"check", "init", "accept", "wait", "latch", "put", "matched", "body", "find", "lag", "in",
   "freecache", "destroy", "join", "gone"}

TypeOK ==
  /\ {exit_flag, cacheGone, dispatcherGone, running, quiet} \subseteq BOOLEAN
  /\ pc \in [Thread -> Places]
  /\ owner \in [Lock -> Thread \cup {None}]

(* A thread in a critical section has its lock; no thread has two, and     *)
(* whoever else has one has left the section by check_panic.               *)
Locking ==
  /\ \A l \in Lock : owner[l] # None =>
       pc[owner[l]] \in {"in", "gone", "freecache", "destroy", "join"}
  /\ \A l, k \in Lock : owner[l] # None /\ owner[l] = owner[k] => l = k
  /\ \A t \in Thread : pc[t] = "in" => \E l \in Lock : owner[l] = t

(* The listener does nothing but accept and put, the workers do not match, *)
(* and only workers touch the cache.                                       *)
Roles ==
  /\ \A t \in Thread : pc[t] \in {"check", "init", "accept"} => t = "listener"
  /\ \A t \in Thread : pc[t] \in {"wait", "matched"} => t = "dispatcher"
  /\ \A t \in Thread : pc[t] \in {"latch", "body", "find", "lag"} => t \in Worker
  /\ \A l \in Lock \ {"dpatch_lock"} : owner[l] \in Worker \cup {None}

(* One thread at a time waits in destroy_workers, after cache_destroy and  *)
(* before the dispatcher is destroyed.                                     *)
OneDestroys ==
  /\ dispatcherGone => cacheGone
  /\ \A t \in Thread : pc[t] = "join" => cacheGone /\ ~ dispatcherGone
  /\ \A t, u \in Thread : pc[t] = "join" /\ pc[u] = "join" => t = u

(* Nothing is destroyed before the flag is set, and nobody has left a lock *)
(* locked.                                                                 *)
Before ==
  ~ exit_flag =>
    /\ ~ cacheGone /\ ~ dispatcherGone /\ running
    /\ \A t \in Thread : pc[t] \notin {"freecache", "destroy", "join"}
    /\ \A l \in Lock : owner[l] # None => pc[owner[l]] = "in"

(* After one signal to an idle proxy the listener puts nothing more, the   *)
(* workers only leave, and the dispatcher destroys all, in order.  A       *)
(* listener between check_panic and accept may be overtaken by that.       *)
QuietEnd ==
  quiet =>
    /\ exit_flag /\ (running \/ pc["listener"] = "init")
    /\ pc["listener"] \in {"check", "init", "accept", "gone"}
    /\ pc["dispatcher"] \in {"wait", "destroy", "join", "gone"}
    /\ \A w \in Worker : pc[w] \in {"latch", "gone"}
    /\ \A l \in Lock : owner[l] = None
    /\ cacheGone => pc["dispatcher"] \in {"join", "gone"}
    /\ dispatcherGone => pc["dispatcher"] = "gone"

(* The inductive invariant *)
IInv == TypeOK /\ Locking /\ Roles /\ OneDestroys /\ Before /\ JoinedFirst /\ QuietEnd

(* Who is who. *)
LEMMA ThreadSet ==
  /\ Worker \subseteq Thread /\ "listener" \in Thread /\ "dispatcher" \in Thread
  /\ None \notin Thread /\ "listener" \notin Worker /\ "dispatcher" \notin Worker
  /\ Lock = {"dpatch_lock", "structural_lock", "lag_lock"}
  /\ \A w \in Worker : Top(w) = "latch"
  /\ Top("listener") = "check" /\ Top("dispatcher") = "wait"
  /\ \A t \in Thread : t \in Worker \/ t \in {"listener", "dispatcher"}
BY ShutdownAssumption DEF Thread, Lock, Top

(* IInv is inductive. *)
LEMMA InitIInv == Init => IInv
<1> SUFFICES ASSUME Init PROVE IInv
  OBVIOUS
<1> USE ThreadSet DEF Init
<1>1. TypeOK
  <2>1. \A t \in Thread : Top(t) \in Places
    BY DEF Places
  <2> QED BY <2>1 DEF TypeOK
<1>2. Locking /\ OneDestroys /\ Before /\ JoinedFirst /\ QuietEnd
  <2>1. \A t \in Thread : pc[t] \in {"check", "wait", "latch"}
    OBVIOUS
  <2> QED BY <2>1 DEF Locking, OneDestroys, Before, JoinedFirst, QuietEnd
<1>3. Roles
  BY DEF Roles
<1> QED BY <1>1, <1>2, <1>3 DEF IInv

LEMMA StepIInv == IInv /\ [Next]_vars => IInv'
<1> SUFFICES ASSUME IInv, [Next]_vars PROVE IInv'
  OBVIOUS
<1> USE ThreadSet DEF IInv
<1>1. CASE Interrupt
  <2> USE <1>1 DEF Interrupt, Goto
  <2>1. exit_flag' /\ UNCHANGED <<owner, cacheGone, dispatcherGone, running>> /\ running
    OBVIOUS
  <2>2. \A t \in Thread \ {"listener"} : Top(t) \in {"wait", "latch"}
    OBVIOUS
  <2>3. \/ UNCHANGED pc
        \/ pc["listener"] = "accept" /\ pc' = [pc EXCEPT !["listener"] = "gone"]
        \/ \E t \in Thread \ {"listener"} :
             /\ pc["listener"] = "gone" /\ pc[t] = Top(t)
             /\ pc' = [pc EXCEPT ![t] = "destroy"]
    OBVIOUS
  <2>4. TypeOK'
    BY <2>1, <2>3 DEF TypeOK, Places
  <2>5. Locking'
    BY <2>1, <2>2, <2>3 DEF TypeOK, Locking
  <2>6. Before'
    BY <2>1 DEF Before
  <2>7. JoinedFirst' /\ OneDestroys' /\ Roles'
    BY <2>1, <2>2, <2>3 DEF TypeOK, JoinedFirst, OneDestroys, Roles
  <2>8. QuietEnd'
    <3> SUFFICES ASSUME quiet' PROVE QuietEnd'
      BY DEF QuietEnd
    <3>1. /\ ~ exit_flag
          /\ pc["listener"] \in {"check", "init", "accept"}
          /\ \A t \in Thread \ {"listener"} : pc[t] = Top(t)
      BY DEF Idle
    <3>2. pc["dispatcher"] = "wait" /\ \A w \in Worker : pc[w] = "latch"
      BY <3>1
    <3>3. \/ UNCHANGED pc
          \/ pc["listener"] = "accept" /\ pc' = [pc EXCEPT !["listener"] = "gone"]
      BY <2>3, <3>1
    <3>4. \A t \in Thread : pc[t] \in {"check", "init", "accept", "wait", "latch"}
      BY <3>1, <3>2
    <3>5. \A l \in Lock : owner[l] = None
      BY <3>4 DEF TypeOK, Locking
    <3>6. ~ cacheGone /\ ~ dispatcherGone
      BY <3>1 DEF Before
    <3> QED BY <2>1, <3>1, <3>2, <3>3, <3>5, <3>6 DEF QuietEnd, TypeOK
  <2> QED BY <2>4, <2>5, <2>6, <2>7, <2>8
<1>2. CASE Accept \/ Check \/ InitConnection
  <2> USE <1>2 DEF Accept, Check, InitConnection, At, Goto, Stay, TypeOK
  <2>1. TypeOK'
    BY DEF Places
  <2>2. /\ pc["listener"] \in {"check", "init", "accept"}
        /\ pc'["listener"] \in {"init", "accept", "put", "gone"}
        /\ \A t \in Thread \ {"listener"} : pc'[t] = pc[t]
    OBVIOUS
  <2>3. UNCHANGED <<exit_flag, owner, cacheGone, dispatcherGone, running, quiet>> /\ running
    OBVIOUS
  <2>4. exit_flag => pc'["listener"] \in {"accept", "gone"}
    OBVIOUS
  <2>5. Locking' /\ Before' /\ JoinedFirst'
    BY <2>2, <2>3 DEF Locking, Before, JoinedFirst
  <2>6. OneDestroys' /\ Roles'
    BY <2>2, <2>3 DEF OneDestroys, Roles
  <2>7. QuietEnd'
    BY <2>2, <2>3, <2>4 DEF QuietEnd
  <2> QED BY <2>1, <2>5, <2>6, <2>7
<1>3. CASE Wait
  <2> USE <1>3 DEF Wait, At, Goto, Stay, TypeOK
  <2>1. TypeOK'
    BY DEF Places
  <2>2. Locking' /\ Before' /\ JoinedFirst'
    BY DEF Locking, Before, JoinedFirst
  <2>3. OneDestroys' /\ Roles'
    BY DEF OneDestroys, Roles
  <2>4. QuietEnd'
    BY DEF QuietEnd
  <2> QED BY <2>1, <2>2, <2>3, <2>4
<1>4. CASE Match
  <2> USE <1>4 DEF Match, At, Goto, Stay, TypeOK
  <2>1. TypeOK'
    BY DEF Places
  <2>2. Locking' /\ Before' /\ JoinedFirst'
    BY DEF Locking, Before, JoinedFirst
  <2>3. OneDestroys' /\ Roles'
    BY DEF OneDestroys, Roles
  <2>4. QuietEnd'
    BY DEF QuietEnd
  <2> QED BY <2>1, <2>2, <2>3, <2>4
<1>5. ASSUME NEW w \in Worker, WorkerChecks(w) \/ Turn(w) PROVE IInv'
  <2> USE <1>5 DEF WorkerChecks, Turn, ChecksAt, WorkerExit,
        At, Goto, Stay, TypeOK
  <2>1. TypeOK'
    BY DEF Places
  <2>2. /\ w # "listener" /\ w # "dispatcher" /\ pc' = [pc EXCEPT ![w] = pc'[w]]
        /\ pc[w] \in {"latch", "body"} /\ pc'[w] \in {"gone", "find", "lag", "put", "latch"}
    OBVIOUS
  <2>3. UNCHANGED <<exit_flag, owner, cacheGone, dispatcherGone, running, quiet>>
    OBVIOUS
  <2>4. Locking' /\ Before' /\ JoinedFirst'
    BY <2>2, <2>3 DEF Locking, Before, JoinedFirst
  <2>5. OneDestroys' /\ Roles'
    BY <2>2, <2>3 DEF OneDestroys, Roles
  <2>6. quiet => pc'[w] = "gone"
    BY DEF QuietEnd
  <2>7. \A t \in Thread \ {w} : pc'[t] = pc[t]
    OBVIOUS
  <2>8. quiet => \A v \in Worker : pc'[v] \in {"latch", "gone"}
    BY <2>6, <2>7 DEF QuietEnd
  <2>9. QuietEnd'
    BY <2>2, <2>3, <2>7, <2>8 DEF QuietEnd
  <2> QED BY <2>1, <2>4, <2>5, <2>9
<1>6. ASSUME NEW t \in Thread, NEW l \in Lock, Enter(t, l) PROVE IInv'
  <2> USE <1>6 DEF Enter, Wants, Cleanup, Goto, TypeOK
  <2>1. TypeOK'
    BY DEF Places
  <2>2. Locking'
    <3>1. \A k \in Lock : owner[k] # t
      BY DEF Locking
    <3>2. pc'[t] \in {"in", "gone", "freecache", "destroy"}
      OBVIOUS
    <3>3. pc' = [pc EXCEPT ![t] = pc'[t]] /\ owner' = [owner EXCEPT ![l] = t]
      OBVIOUS
    <3> QED BY <3>1, <3>2, <3>3 DEF Locking
  <2>3. Before' /\ JoinedFirst'
    BY DEF Before, JoinedFirst
  <2>4. OneDestroys' /\ Roles'
    BY DEF OneDestroys, Roles
  <2>5. QuietEnd'
    BY DEF QuietEnd
  <2> QED BY <2>1, <2>2, <2>3, <2>4, <2>5
<1>7. ASSUME NEW t \in Thread, NEW l \in Lock, Leave(t, l) PROVE IInv'
  <2> USE <1>7 DEF Leave, After, Cleanup, At, Goto, TypeOK
  <2>1. TypeOK'
    BY DEF Places
  <2>2. \A k \in Lock \ {l} : owner[k] # t
    BY DEF Locking
  <2>3. pc'[t] # "in" /\ pc' = [pc EXCEPT ![t] = pc'[t]] /\ owner' = [owner EXCEPT ![l] = None]
    BY DEF Top
  <2>4. Locking'
    BY <2>2, <2>3 DEF Locking
  <2>5. Before' /\ JoinedFirst'
    BY <2>2, <2>3 DEF Before, JoinedFirst, Locking
  <2>6. \/ pc'[t] \in {"gone", "freecache", "destroy"}
        \/ pc'[t] = "body" /\ t \in Worker
        \/ pc'[t] = "matched" /\ t = "dispatcher"
        \/ pc'[t] = Top(t)
    BY DEF Roles
  <2>7. OneDestroys' /\ Roles'
    BY <2>6 DEF OneDestroys, Roles
  <2>8. QuietEnd'
    BY DEF QuietEnd
  <2> QED BY <2>1, <2>4, <2>5, <2>7, <2>8
<1>8. ASSUME NEW t \in Thread, DestroyCache(t) PROVE IInv'
  <2> USE <1>8 DEF DestroyCache, Goto, TypeOK
  <2>1. TypeOK'
    BY DEF Places
  <2>2. /\ pc[t] \in {"freecache", "destroy"} /\ pc'[t] \in {"join", "gone"}
        /\ \A u \in Thread \ {t} : pc'[u] = pc[u]
        /\ UNCHANGED <<exit_flag, owner, dispatcherGone, running, quiet>>
        /\ ~ cacheGone
    OBVIOUS
  <2>5. Locking' /\ Before'
    BY <2>2 DEF Locking, Before
  <2>6. JoinedFirst'
    BY <2>2 DEF OneDestroys, JoinedFirst
  <2>3. OneDestroys' /\ Roles'
    BY DEF OneDestroys, Roles
  <2>4. QuietEnd'
    BY DEF QuietEnd
  <2> QED BY <2>1, <2>3, <2>4, <2>5, <2>6
<1>9. ASSUME NEW t \in Thread, DestroyDispatcher(t) PROVE IInv'
  <2> USE <1>9 DEF DestroyDispatcher, Joined, At, Goto, TypeOK
  <2>1. TypeOK'
    BY DEF Places
  <2>2. Locking' /\ Before'
    BY DEF Locking, Before
  <2>3. JoinedFirst'
    BY DEF JoinedFirst, OneDestroys
  <2>4. OneDestroys' /\ Roles'
    BY DEF OneDestroys, Roles
  <2>5. quiet => t = "dispatcher"
    BY DEF QuietEnd
  <2>6. quiet => running' /\ pc' = [pc EXCEPT !["dispatcher"] = "gone"]
    BY <2>5
  <2>7. QuietEnd'
    BY <2>6 DEF QuietEnd
  <2> QED BY <2>1, <2>2, <2>3, <2>4, <2>7
<1>10. ASSUME NEW t \in Thread, Undefined(t) PROVE IInv'
  <2> USE <1>10 DEF Undefined, TypeOK
  <2>1. TypeOK'
    OBVIOUS
  <2>2. Locking' /\ Before' /\ JoinedFirst'
    BY DEF Locking, Before, JoinedFirst, Destroyed
  <2>3. OneDestroys' /\ Roles'
    BY DEF OneDestroys, Roles
  <2>4. quiet => pc["listener"] = "init"
    BY DEF QuietEnd, Destroyed, Roles
  <2> QED BY <2>1, <2>2, <2>3, <2>4 DEF QuietEnd
<1>11. CASE UNCHANGED vars
  BY <1>11 DEF vars, TypeOK, Locking, Roles, OneDestroys, Before, JoinedFirst, QuietEnd
<1> QED
  BY <1>1, <1>2, <1>3, <1>4, <1>5, <1>6, <1>7, <1>8, <1>9, <1>10, <1>11 DEF Next, Step

(* The invariant holds throughout. *)
THEOREM Invariance == Spec => []IInv
BY InitIInv, StepIInv, PTL DEF Spec

(* The dispatcher is freed after every worker has ended, whichever thread  *)
(* the signal makes call dispatcher_cleanup, for a pool of any size.       *)
THEOREM DestroyedAfterJoin == Spec => []JoinedFirst
<1>1. IInv => JoinedFirst
  BY DEF IInv
<1> QED BY <1>1, Invariance, PTL

(* One signal to a proxy in which nobody has anything to do: no thread     *)
(* ever uses what another has freed, and no lock stays locked.             *)
THEOREM QuietShutdown == Spec => []QuietEndIsSafe
<1>1. IInv => QuietEndIsSafe
  BY ThreadSet DEF IInv, QuietEnd, QuietEndIsSafe, Abandoned
<1> QED BY <1>1, Invariance, PTL

(* As long as no signal has come nothing is destroyed, nobody uses what is *)
(* destroyed, and only a thread inside of a critical section has a lock.   *)
NoEndYet ==
  ~ exit_flag =>
    /\ ~ cacheGone /\ ~ dispatcherGone /\ running
    /\ \A l \in Lock : owner[l] # None => pc[owner[l]] = "in"

THEOREM NoEndBeforeSignal == Spec => []NoEndYet
<1>1. IInv => NoEndYet
  BY DEF IInv, Before, NoEndYet
<1> QED BY <1>1, Invariance, PTL

-----------------------------------------------------------------------------
(* What a thread needs to make its next step, once the flag is set: the    *)
(* guards of Step.                                                         *)
CanMove(t) ==
  \/ pc[t] \in {"check", "init", "in", "wait", "matched", "latch", "body", "freecache", "destroy"}
  \/ \E l \in Lock : Wants(t, l) /\ (owner[l] = None \/ Destroyed(l))
  \/ pc[t] = "join" /\ Joined(t)

(* Who waits after the signal waits for somebody who can go on, and not    *)
(* just to accept, unless he waits for a lock that was left locked or      *)
(* something freed has been used: nobody waits in destroy_workers for a    *)
(* thread that waits for him, or itself.                                   *)
NobodyWaitsInVain ==
  exit_flag /\ running =>
    \/ Ended
    \/ \E t \in Thread : Stranded(t)
    \/ \E t \in Thread : CanMove(t) /\ pc[t] \notin {"check", "init"}

(* A place that is not the door of a lock wants none. *)
LEMMA Doors ==
  ASSUME NEW t
  PROVE  /\ Wants(t, "lag_lock") <=> pc[t] = "lag"
         /\ Wants(t, "structural_lock") <=> pc[t] = "find"
         /\ Wants(t, "dpatch_lock") <=> pc[t] = "put"
  BY DEF Wants

(* A step is only taken by a thread that can move. *)
LEMMA Guards == ASSUME IInv, exit_flag, NEW t \in Thread, Step(t) PROVE running /\ CanMove(t)
<1> USE ThreadSet DEF IInv, CanMove, At
<1>1. CASE \E l \in Lock : Enter(t, l) \/ Leave(t, l)
  BY <1>1 DEF Enter, Leave
<1>2. CASE DestroyCache(t) \/ DestroyDispatcher(t)
  BY <1>2 DEF DestroyCache, DestroyDispatcher
<1>3. CASE Undefined(t)
  <2>1. CASE pc[t] \in {"find", "lag"} /\ cacheGone
    BY <2>1, <1>3, Doors DEF Undefined, Destroyed
  <2>2. CASE pc[t] = "put" /\ dispatcherGone
    BY <2>2, <1>3, Doors DEF Undefined, Destroyed
  <2> QED BY <2>1, <2>2, <1>3 DEF Undefined
<1>4. CASE t = "dispatcher" /\ (Wait \/ Match)
  BY <1>4 DEF Wait, Match
<1>5. CASE t \in Worker /\ (WorkerChecks(t) \/ Turn(t))
  BY <1>5 DEF WorkerChecks, ChecksAt, Turn
<1>6. CASE t = "listener" /\ (Check \/ InitConnection)
  BY <1>6 DEF Check, InitConnection
<1> QED BY <1>1, <1>2, <1>3, <1>4, <1>5, <1>6 DEF Step

(* The end of the proxy is free of deadlocks but for the locks that        *)
(* check_panic leaves locked, whoever destroys, for a pool of any size.    *)
THEOREM OnlyAbandonedLocksBlock == Spec => []NobodyWaitsInVain
<1>1. IInv => NobodyWaitsInVain
  <2> SUFFICES ASSUME IInv, exit_flag, running, ~ Ended,
                      \A t \in Thread : ~ Stranded(t),
                      \A t \in Thread : CanMove(t) => pc[t] \in {"check", "init"}
               PROVE  FALSE
    BY DEF NobodyWaitsInVain
  <2> USE ThreadSet DEF IInv
  <2>1. ASSUME NEW t \in Thread, NEW l \in Lock PROVE ~ Wants(t, l)
    <3> SUFFICES ASSUME Wants(t, l) PROVE FALSE
      OBVIOUS
    <3>1. ~ CanMove(t)
      BY Doors
    <3>2. owner[l] # None /\ ~ Abandoned(l)
      BY <3>1 DEF CanMove, Stranded
    <3>3. owner[l] \in Thread /\ pc[owner[l]] = "in"
      BY <3>2 DEF TypeOK, Locking, Abandoned
    <3> QED BY <3>3 DEF CanMove
  <2>2. ASSUME NEW t \in Thread PROVE pc[t] \in {"check", "init", "accept", "join", "gone"}
    <3>1. pc[t] \notin {"lag", "find", "put"}
      BY <2>1, Doors
    <3> QED BY <3>1 DEF CanMove, TypeOK, Places
  <2>3. PICK t \in Thread \ {"listener"} : pc[t] # "gone"
    BY DEF Ended
  <2>4. pc[t] = "join"
    BY <2>2, <2>3 DEF Roles
  <2>5. PICK w \in Worker \ {t} : pc[w] # "gone"
    BY <2>4 DEF CanMove, Joined
  <2>6. pc[w] = "join"
    BY <2>2, <2>5 DEF Roles
  <2> QED BY <2>4, <2>5, <2>6 DEF OneDestroys
<1> QED BY <1>1, Invariance, PTL
=============================================================================
