------------------------------- MODULE Shutdown -------------------------------
(***************************************************************************)
(* How the proxy ends (_proxy/src/verify.c, dispatcher.c, cache.c, main.c; *)
(* the pool of workers): SIGINT sets exit_flag, and every check_panic,     *)
(* also inside of verify, cleans up what the caller names and ends the     *)
(* thread.  A verify of pthread_mutex_lock does so with the lock held.     *)
(* There is one lag_lock here, for the entry all connections use.  What    *)
(* workers do with their connections is a matter of Connections and        *)
(* CacheStream; here a turn is a series of critical sections.              *)
(*                                                                         *)
(* Use of what another thread has freed is undefined and ends the model    *)
(* (running).  destroy_workers itself reads cur->next right after          *)
(* free(cur); nobody else has allocated since, and the field is still      *)
(* there.                                                                  *)
(***************************************************************************)
EXTENDS Naturals, FiniteSets

CONSTANTS Worker, None

VARIABLES
  exit_flag,
  pc,               \* of every thread
  owner,            \* of every lock
  cacheGone,        \* cache_destroy has run
  dispatcherGone,   \* dispatcher_destroy has ended
  running,
  quiet             \* history: the flag was set by one signal, while nobody
                    \* had a connection in hand

vars == <<exit_flag, pc, owner, cacheGone, dispatcherGone, running, quiet>>

Thread == Worker \cup {"listener", "dispatcher"}
Lock == {"dpatch_lock", "structural_lock", "lag_lock"}

(* Where a thread's loop begins: check_panic in the listener, a timed wait *)
(* in the others.                                                          *)
Top(t) == CASE t = "listener" -> "check" [] t = "dispatcher" -> "wait" [] OTHER -> "latch"

ASSUME ShutdownAssumption == None \notin Thread /\ Worker \cap {"listener", "dispatcher"} = {}

Init ==
  /\ exit_flag = FALSE /\ quiet = FALSE /\ running = TRUE
  /\ pc = [t \in Thread |-> Top(t)]
  /\ owner = [l \in Lock |-> None]
  /\ cacheGone = FALSE /\ dispatcherGone = FALSE

At(t, place) == running /\ pc[t] = place
Goto(t, place) == pc' = [pc EXCEPT ![t] = place]
Stay == UNCHANGED <<exit_flag, owner, cacheGone, dispatcherGone, running, quiet>>

-----------------------------------------------------------------------------
Idle ==
  /\ pc["listener"] \in {"check", "init", "accept"}
  /\ \A t \in Thread \ {"listener"} : pc[t] = Top(t)

(* quit_handler.  Linux gives the signal to the main thread, the listener, *)
(* as long as there is one.  If that is blocked in accept, accept fails,   *)
(* and listener_cleanup ends the thread; anywhere else, also between       *)
(* check_panic and accept, the handler sets the flag and the listener goes *)
(* on.  Once it has gone a sem_timedwait may fail, and dispatcher_cleanup  *)
(* is called right there.                                                  *)
Interrupt ==
  /\ running
  /\ exit_flag' = TRUE
  /\ quiet' = (~ exit_flag /\ Idle)
  /\ CASE pc["listener"] = "accept" -> Goto("listener", "gone")
       [] pc["listener"] = "gone" ->
            \/ UNCHANGED pc
            \/ \E t \in Thread \ {"listener"} : pc[t] = Top(t) /\ Goto(t, "destroy")
       [] OTHER -> UNCHANGED pc
  /\ UNCHANGED <<owner, cacheGone, dispatcherGone, running>>

(* spin_listener: check_panic. *)
Check ==
  /\ At("listener", "check")
  /\ Goto("listener", IF exit_flag THEN "gone" ELSE "init")
  /\ Stay

(* spin_listener: init_connection reads d->cache, and accept blocks, which *)
(* it also does when the flag has been set since check_panic.              *)
InitConnection ==
  /\ At("listener", "init") /\ ~ dispatcherGone
  /\ Goto("listener", "accept")
  /\ Stay

(* accept has returned: the connection is to be put, unless there is an    *)
(* error or the flag is set.                                               *)
Accept ==
  /\ At("listener", "accept")
  /\ \E place \in {"put", "gone"} : (exit_flag => place = "gone") /\ Goto("listener", place)
  /\ Stay

(* dispatcher_body after dispatcher_wait, which ends after a second if not *)
(* before.                                                                 *)
Wait ==
  /\ At("dispatcher", "wait") /\ ~ dispatcherGone
  /\ Goto("dispatcher", IF exit_flag THEN "destroy" ELSE "put")
  /\ Stay

(* perform_match after one of its critical sections: back to the wait, or  *)
(* one more section, perhaps after giving a connection to an idle worker.  *)
Match ==
  /\ At("dispatcher", "matched") /\ ~ dispatcherGone
  /\ \/ Goto("dispatcher", IF exit_flag THEN "destroy" ELSE "wait")
     \/ Goto("dispatcher", "put")
     \/ \E w \in Worker :
          pc[w] = "latch" /\ pc' = [pc EXCEPT !["dispatcher"] = "put", ![w] = "body"]
  /\ Stay

(* Mutant of WorkerExit: workers call dispatcher_cleanup, too. *)
BadWorkerExit == "destroy"

(* check_panic without a cleanup: "all is covered by dispatcher". *)
WorkerExit == "gone"

(* Mutant of ChecksAt: worker_body waits for its latch without a timeout. *)
BadChecksAt(w) == pc[w] = "body"

(* check_panic runs whenever the wait for the latch ends, after a second   *)
(* if not before, and with any verified system call in the turn.           *)
ChecksAt(w) == pc[w] \in {"latch", "body"}

WorkerChecks(w) ==
  /\ running /\ ChecksAt(w) /\ exit_flag
  /\ Goto(w, WorkerExit)
  /\ Stay

(* A turn comes to a critical section of the cache ("find") or of an entry *)
(* ("lag"), or ends: the connection is put back or has been freed.         *)
Turn(w) ==
  /\ At(w, "body")
  /\ \E place \in {"find", "lag", "put", "latch"} : Goto(w, place)
  /\ Stay

-----------------------------------------------------------------------------
(* The cleanup that goes with the critical sections of a lock: none for    *)
(* lag_lock, cache_cleanup, dispatcher_cleanup.                            *)
Cleanup(l) ==
  CASE l = "lag_lock" -> "gone" [] l = "structural_lock" -> "freecache" [] l = "dpatch_lock" -> "destroy"

Wants(t, l) ==
  pc[t] = (CASE l = "lag_lock" -> "lag" [] l = "structural_lock" -> "find" [] l = "dpatch_lock" -> "put")

Destroyed(l) == IF l = "dpatch_lock" THEN dispatcherGone ELSE cacheGone

(* verify(pthread_mutex_lock()). *)
Enter(t, l) ==
  /\ running /\ Wants(t, l) /\ owner[l] = None /\ ~ Destroyed(l)
  /\ owner' = [owner EXCEPT ![l] = t]
  /\ Goto(t, IF exit_flag THEN Cleanup(l) ELSE "in")
  /\ UNCHANGED <<exit_flag, cacheGone, dispatcherGone, running, quiet>>

After(t, l) ==
  IF l # "dpatch_lock" THEN "body" ELSE IF t = "dispatcher" THEN "matched" ELSE Top(t)

(* verify(pthread_mutex_unlock()). *)
Leave(t, l) ==
  /\ At(t, "in") /\ owner[l] = t /\ ~ Destroyed(l)
  /\ owner' = [owner EXCEPT ![l] = None]
  /\ Goto(t, IF exit_flag THEN Cleanup(l) ELSE After(t, l))
  /\ UNCHANGED <<exit_flag, cacheGone, dispatcherGone, running, quiet>>

(* cache_destroy, for cache_cleanup or as the first part of                *)
(* dispatcher_destroy.                                                     *)
DestroyCache(t) ==
  /\ running /\ pc[t] \in {"freecache", "destroy"} /\ ~ cacheGone
  /\ cacheGone' = TRUE
  /\ Goto(t, IF pc[t] = "destroy" THEN "join" ELSE "gone")
  /\ UNCHANGED <<exit_flag, owner, dispatcherGone, running, quiet>>

(* Mutant of Joined: destroy_workers does not wait. *)
BadJoined(t) == TRUE

(* destroy_workers joins all; a worker that joins itself gets EDEADLK, and *)
(* nobody looks at that.                                                   *)
Joined(t) == \A w \in Worker \ {t} : pc[w] = "gone"

(* The rest of dispatcher_destroy.  A worker, whose own memory is freed    *)
(* here too, writes to it afterwards.                                      *)
DestroyDispatcher(t) ==
  /\ At(t, "join") /\ Joined(t)
  /\ dispatcherGone' = TRUE
  /\ Goto(t, "gone")
  /\ running' \in IF t \in Worker THEN BOOLEAN ELSE {TRUE}
  /\ UNCHANGED <<exit_flag, owner, cacheGone, quiet>>

(* A thread uses what another has freed. *)
Undefined(t) ==
  /\ running
  /\ \/ cacheGone /\ pc[t] \in {"body", "find", "lag", "freecache", "destroy"}
     \/ dispatcherGone /\ pc[t] \in {"init", "put", "matched", "wait"}
     \/ \E l \in Lock : pc[t] = "in" /\ owner[l] = t /\ Destroyed(l)
  /\ running' = FALSE
  /\ UNCHANGED <<exit_flag, pc, owner, cacheGone, dispatcherGone, quiet>>

-----------------------------------------------------------------------------
Step(t) ==
  \/ \E l \in Lock : Enter(t, l) \/ Leave(t, l)
  \/ DestroyCache(t) \/ DestroyDispatcher(t) \/ Undefined(t)
  \/ t = "listener" /\ (Check \/ InitConnection)
  \/ t = "dispatcher" /\ (Wait \/ Match)
  \/ t \in Worker /\ (WorkerChecks(t) \/ Turn(t))

Next == Interrupt \/ Accept \/ \E t \in Thread : Step(t)

(* Threads run; nobody need ever connect. *)
Spec == Init /\ [][Next]_vars /\ \A t \in Thread : WF_vars(Step(t))

-----------------------------------------------------------------------------
Ended == \A t \in Thread \ {"listener"} : pc[t] = "gone"

(* A lock whose owner has ended, or is cleaning up and will end. *)
Abandoned(l) == owner[l] # None /\ pc[owner[l]] \in {"gone", "freecache", "destroy", "join"}

(* The dispatcher is freed when no worker runs any more, and then nobody   *)
(* else is on the way to free it again, whoever frees it.                  *)
JoinedFirst ==
  dispatcherGone =>
    (\A w \in Worker : pc[w] = "gone") /\ \A t \in Thread : pc[t] # "join"

(* One SIGINT in a proxy that is doing nothing frees all once, no lock is  *)
(* left locked, and no thread uses what another has freed but one: if the  *)
(* signal came between the listener's check_panic and its accept, that may *)
(* still read the cache's address in a dispatcher that has been freed.     *)
QuietEndIsSafe ==
  quiet => (running \/ pc["listener"] = "init") /\ \A l \in Lock : ~ Abandoned(l)

(* It waits for a lock that nobody will give back. *)
Stranded(t) == \E l \in Lock : Wants(t, l) /\ Abandoned(l)

(* After SIGINT the dispatcher and the workers end, but when somebody was  *)
(* in a turn: then they may use freed memory, or one waits for a lock      *)
(* whose owner has left by check_panic.  The listener may stay in accept.  *)
EndsOrStrands == exit_flag ~> Ended \/ ~ running \/ \E t \in Thread : Stranded(t)
=============================================================================
