------------------------------ MODULE WorkQueue ------------------------------
(***************************************************************************)
(* What the worker-thread (WTCLASS) proxy promises about its connections,  *)
(* with no threads, semaphores or linked lists in it: a connection that    *)
(* arrived is served in FIFO order, by one worker at a time, by at most    *)
(* Limit workers at once, any number of times, until it is over.           *)
(* Dispatcher.tla is shown to implement this module.                       *)
(***************************************************************************)
EXTENDS Naturals, Sequences, FiniteSets

CONSTANTS
  Conn,    \* every connection there can be
  Limit    \* how many connections may be served at once

VARIABLES
  phase,   \* where a connection is in its life
  ready    \* the connections waiting to be served, oldest first

vars == <<phase, ready>>

Phase == {"absent", "ready", "served", "yielding", "over"}

Init ==
  /\ phase = [c \in Conn |-> "absent"]
  /\ ready = <<>>

Served == {c \in Conn : phase[c] = "served"}

(* A new connection joins the end of the queue. *)
Arrive(c) ==
  /\ phase[c] = "absent"
  /\ phase' = [phase EXCEPT ![c] = "ready"]
  /\ ready' = Append(ready, c)

(* The oldest waiting connection is served; nobody overtakes it. *)
Take ==
  /\ ready # <<>>
  /\ Cardinality(Served) < Limit
  /\ phase' = [phase EXCEPT ![Head(ready)] = "served"]
  /\ ready' = Tail(ready)

(* A served connection that wants more service first leaves its server ... *)
Yield(c) ==
  /\ phase[c] = "served"
  /\ phase' = [phase EXCEPT ![c] = "yielding"]
  /\ UNCHANGED ready

(* ... and then queues behind everyone who is waiting. *)
Requeue(c) ==
  /\ phase[c] = "yielding"
  /\ phase' = [phase EXCEPT ![c] = "ready"]
  /\ ready' = Append(ready, c)

(* Only a connection nobody waits for comes to its end. *)
Finish(c) ==
  /\ phase[c] \in {"absent", "served", "yielding"}
  /\ phase' = [phase EXCEPT ![c] = "over"]
  /\ UNCHANGED ready

Next ==
  \/ \E c \in Conn : Arrive(c) \/ Yield(c) \/ Requeue(c) \/ Finish(c)
  \/ Take

SafeSpec == Init /\ [][Next]_vars

(* The oldest waiting connection does not wait for ever. *)
Spec == SafeSpec /\ WF_vars(Take)
=============================================================================
