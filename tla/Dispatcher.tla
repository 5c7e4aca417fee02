----------------------------- MODULE Dispatcher -----------------------------
(***************************************************************************)
(* The worker-thread class (WTCLASS) of the proxy's dispatcher,            *)
(* _proxy/src/dispatcher.c: the listener thread, the dispatcher thread and *)
(* WORKERS_AMOUNT worker threads that share the queue of connections and   *)
(* hand them over through two kinds of semaphores.                         *)
(*                                                                         *)
(* A connection is <<r, CLIENT>> or <<r, SERVER>> for an accepted request  *)
(* r; the tag is Common_connection.type.  Its body is what client_body or  *)
(* server_body does to the dispatcher in one call: return the connection   *)
(* to be queued again, free it, or (a client whose request missed the      *)
(* cache) queue its server connection first.                               *)
(*                                                                         *)
(* The region of code under dpatch_lock in dispatcher_put, check_head_conn *)
(* and remove_head_conn is one step; everything between two such regions,  *)
(* and every semaphore operation, is a step of its own.  A timed wait that *)
(* expires and only restarts its loop (worker_body) is a stuttering step.  *)
(* The behaviours are those before exit_flag is raised.                    *)
(***************************************************************************)
EXTENDS Naturals, Sequences, SequencesExt

CONSTANTS
  Request,      \* the requests clients may connect with
  NumWorkers,   \* WORKERS_AMOUNT
  SemMax,       \* SEM_VALUE_MAX: sem_post fails at it, and nobody looks
  NoConn        \* no connection

Conn == Request \X {"CLIENT", "SERVER"}
Worker == 1..NumWorkers   \* in list order, head_worker first

ASSUME DispatcherAssumption ==
  /\ NumWorkers \in Nat \ {0}
  /\ SemMax \in Nat \ {0}
  /\ NoConn \notin Conn

VARIABLES
  life,        \* a connection's state field ("Read" stands for Read, Proxy
               \* and Done), or what became of its memory
  listening,   \* the accept loop still runs
  queue,       \* the list head_conn .. last_conn
  staleness,   \* semaphore: dispatcher_put has news for the dispatcher
  dpc, scan,   \* the dispatcher thread: its place, and cur_wrk
  state,       \* Worker.state, read by the dispatcher without a lock
  arg,         \* Worker.arg
  latch,       \* Worker.latch
  wpc, res     \* a worker thread: its place, and its local result

dispatcherVars == <<dpc, scan>>
workerVars == <<state, arg, latch, wpc, res>>
vars == <<life, listening, queue, staleness, dispatcherVars, workerVars>>

Init ==
  /\ life = [c \in Conn |-> "absent"]
  /\ listening = TRUE
  /\ queue = <<>>
  /\ staleness = 0
  /\ dpc = "wait" /\ scan = 1
  /\ state = [w \in Worker |-> "Empty"]
  /\ arg = [w \in Worker |-> NoConn]
  /\ latch = [w \in Worker |-> 0]
  /\ wpc = [w \in Worker |-> "latch"]
  /\ res = [w \in Worker |-> NoConn]

-----------------------------------------------------------------------------
SemPost(n) == IF n < SemMax THEN n + 1 ELSE n

(* Mutant of Put: the new entry becomes the head of the list. *)
BadPut(c) ==
  /\ queue' = <<c>> \o queue
  /\ staleness' = SemPost(staleness)

(* dispatcher_put(d, c) that got its D_entry. *)
Put(c) ==
  /\ queue' = Append(queue, c)
  /\ staleness' = SemPost(staleness)

(* The listener: init_connection, accept, dispatcher_spin_client_reader. *)
Accept(r) ==
  /\ listening
  /\ life[<<r, "CLIENT">>] = "absent"
  /\ life' = [life EXCEPT ![<<r, "CLIENT">>] = "Parse"]
  /\ Put(<<r, "CLIENT">>)
  /\ UNCHANGED <<listening, dispatcherVars, workerVars>>

(* make_entry failed: E_DISPATCH, the listener closes its socket and exits *)
(* and the connection it has just accepted is forgotten.                   *)
AcceptNoMemory(r) ==
  /\ listening
  /\ life[<<r, "CLIENT">>] = "absent"
  /\ life' = [life EXCEPT ![<<r, "CLIENT">>] = "lost"]
  /\ listening' = FALSE
  /\ UNCHANGED <<queue, staleness, dispatcherVars, workerVars>>

-----------------------------------------------------------------------------
(* Mutant of TimedOut: sem_wait instead of sem_timedwait. *)
BadTimedOut == FALSE

(* sem_timedwait on staleness gives up after one second without a post. *)
TimedOut == staleness = 0

(* dispatcher_wait: the news arrived, or one second passed without any. *)
DispatcherWait ==
  /\ dpc = "wait"
  /\ staleness > 0 \/ TimedOut
  /\ dpc' = "check"
  /\ staleness' = IF staleness > 0 THEN staleness - 1 ELSE 0
  /\ UNCHANGED <<life, listening, queue, scan, workerVars>>

HeadFound == queue # <<>>

(* perform_match, left conjunct: check_head_conn. *)
CheckHeadConn ==
  /\ dpc = "check"
  /\ dpc' = IF HeadFound THEN "scan" ELSE "wait"
  /\ scan' = 1
  /\ UNCHANGED <<life, listening, queue, staleness, workerVars>>

(* Mutant of Assign: the worker is not marked Working. *)
BadAssign(w, c) ==
  /\ arg' = [arg EXCEPT ![w] = c]
  /\ latch' = [latch EXCEPT ![w] = SemPost(@)]
  /\ UNCHANGED state

Assign(w, c) ==
  /\ arg' = [arg EXCEPT ![w] = c]
  /\ state' = [state EXCEPT ![w] = "Working"]
  /\ latch' = [latch EXCEPT ![w] = SemPost(@)]

(* try_dispatch: cur_wrk is Empty and gets head_conn's connection. *)
TryDispatch ==
  /\ dpc = "scan"
  /\ state[scan] = "Empty"
  /\ Assign(scan, Head(queue))
  /\ dpc' = "remove"
  /\ UNCHANGED <<life, listening, queue, staleness, scan, wpc, res>>

LastWorker(w) == w = NumWorkers

(* Mutant of OutOfWorkers: the result of try_dispatch is not compared with *)
(* S_DISPATCH (the error perform_match's comment remembers).               *)
BadOutOfWorkers == "remove"

(* What perform_match does next when try_dispatch found nobody. *)
OutOfWorkers == "wait"

(* try_dispatch: cur_wrk is busy; go on to the next, or out of workers. *)
SkipWorker ==
  /\ dpc = "scan"
  /\ state[scan] = "Working"
  /\ IF LastWorker(scan)
       THEN dpc' = OutOfWorkers /\ scan' = 1
       ELSE dpc' = "scan" /\ scan' = scan + 1
  /\ UNCHANGED <<life, listening, queue, staleness, workerVars>>

(* Mutant of Unlink: head_conn stays where it is. *)
BadUnlink(list) == list

Unlink(list) == Tail(list)

(* remove_head_conn, after the connection is already in a worker's hands. *)
RemoveHeadConn ==
  /\ dpc = "remove"
  /\ queue' = Unlink(queue)
  /\ dpc' = "check"
  /\ UNCHANGED <<life, listening, staleness, scan, workerVars>>

-----------------------------------------------------------------------------
(* worker_body: sem_timedwait on the latch succeeds, w->body(w->arg). *)
WorkerWake(w) ==
  /\ wpc[w] = "latch"
  /\ latch[w] > 0
  /\ latch' = [latch EXCEPT ![w] = @ - 1]
  /\ wpc' = [wpc EXCEPT ![w] = "body"]
  /\ UNCHANGED <<life, listening, queue, staleness, dispatcherVars, state, arg, res>>

(* client_register of a cacheable miss: dispatcher_spin_server_reader.     *)
(* It is the last thing that body does before it returns its connection.   *)
SpinServerReader(w) ==
  LET r == arg[w][1] IN
  /\ wpc[w] = "body"
  /\ life[arg[w]] = "Parse"
  /\ life' = [life EXCEPT ![<<r, "CLIENT">>] = "Read", ![<<r, "SERVER">>] = "Read"]
  /\ Put(<<r, "SERVER">>)
  /\ wpc' = [wpc EXCEPT ![w] = "return"]
  /\ UNCHANGED <<listening, dispatcherVars, state, arg, latch, res>>

(* The same with no memory for the D_entry: nobody will run the server     *)
(* connection, and client_register fails.                                  *)
SpinServerNoMemory(w) ==
  /\ wpc[w] = "body"
  /\ life[arg[w]] = "Parse"
  /\ life' = [life EXCEPT ![<<arg[w][1], "SERVER">>] = "lost"]
  /\ wpc' = [wpc EXCEPT ![w] = "free"]
  /\ UNCHANGED <<listening, queue, staleness, dispatcherVars, state, arg, latch, res>>

(* A body that never returns.  read() gives 0 for ever to a parser that    *)
(* wants more (client.c:160, server.c:188), or the peer lets read(),       *)
(* write() or connect() wait: no socket has a timeout.                     *)
BodyHangs(w) ==
  /\ wpc[w] = "body"
  /\ wpc' = [wpc EXCEPT ![w] = "hangs"]
  /\ UNCHANGED <<life, listening, queue, staleness, dispatcherVars, state, arg, latch, res>>

(* The body returns its connection for another turn; w->state = Empty.     *)
(* From here on the dispatcher may overwrite w->arg.                       *)
BodyReturn(w) ==
  /\ wpc[w] \in {"body", "return"}
  /\ life' = [life EXCEPT ![arg[w]] = "Read"]
  /\ res' = [res EXCEPT ![w] = arg[w]]
  /\ state' = [state EXCEPT ![w] = "Empty"]
  /\ wpc' = [wpc EXCEPT ![w] = "put"]
  /\ UNCHANGED <<listening, queue, staleness, dispatcherVars, arg, latch>>

(* Mutant of BodyFree: the body returns the pointer it has freed. *)
BadBodyFree(w) ==
  /\ wpc[w] \in {"body", "free"}
  /\ life' = [life EXCEPT ![arg[w]] = "freed"]
  /\ state' = [state EXCEPT ![w] = "Empty"]
  /\ res' = [res EXCEPT ![w] = arg[w]]
  /\ wpc' = [wpc EXCEPT ![w] = "put"]
  /\ UNCHANGED <<listening, queue, staleness, dispatcherVars, arg, latch>>

(* The body frees its connection and returns NULL; w->state = Empty. *)
BodyFree(w) ==
  /\ wpc[w] \in {"body", "free"}
  /\ life' = [life EXCEPT ![arg[w]] = "freed"]
  /\ state' = [state EXCEPT ![w] = "Empty"]
  /\ wpc' = [wpc EXCEPT ![w] = "latch"]
  /\ UNCHANGED <<listening, queue, staleness, dispatcherVars, arg, latch, res>>

(* worker_body: dispatcher_put(w->d, res). *)
WorkerPut(w) ==
  /\ wpc[w] = "put"
  /\ Put(res[w])
  /\ res' = [res EXCEPT ![w] = NoConn]
  /\ wpc' = [wpc EXCEPT ![w] = "latch"]
  /\ UNCHANGED <<life, listening, dispatcherVars, state, arg, latch>>

(* worker_body does not look at dispatcher_put's E_DISPATCH. *)
WorkerPutNoMemory(w) ==
  /\ wpc[w] = "put"
  /\ life' = [life EXCEPT ![res[w]] = "lost"]
  /\ res' = [res EXCEPT ![w] = NoConn]
  /\ wpc' = [wpc EXCEPT ![w] = "latch"]
  /\ UNCHANGED <<listening, queue, staleness, dispatcherVars, state, arg, latch>>

-----------------------------------------------------------------------------
Listener == \E r \in Request : Accept(r) \/ AcceptNoMemory(r)

DispatcherThread ==
  \/ DispatcherWait \/ CheckHeadConn \/ TryDispatch \/ SkipWorker \/ RemoveHeadConn

WorkerThread(w) ==
  \/ WorkerWake(w) \/ SpinServerReader(w) \/ SpinServerNoMemory(w)
  \/ BodyHangs(w) \/ BodyReturn(w) \/ BodyFree(w) \/ WorkerPut(w) \/ WorkerPutNoMemory(w)

Next == Listener \/ DispatcherThread \/ \E w \in Worker : WorkerThread(w)

SafeSpec == Init /\ [][Next]_vars

(* Threads are scheduled: a body returns unless it hangs, which any may.   *)
(* Nobody has to connect.                                                  *)
Spec ==
  /\ SafeSpec
  /\ WF_vars(DispatcherThread)
  /\ \A w \in Worker : WF_vars(WorkerThread(w))

-----------------------------------------------------------------------------
(* The queue without the entry whose connection is already handed over.    *)
Pending == IF dpc = "remove" THEN Tail(queue) ELSE queue

Live(c) == life[c] \in {"Parse", "Read"}
Holding(w) == state[w] = "Working"
Returning(w) == wpc[w] = "put"

TypeOK ==
  /\ life \in [Conn -> {"absent", "Parse", "Read", "freed", "lost"}]
  /\ listening \in BOOLEAN
  /\ queue \in Seq(Conn)
  /\ staleness \in 0..SemMax
  /\ dpc \in {"wait", "check", "scan", "remove"}
  /\ scan \in Worker
  /\ state \in [Worker -> {"Empty", "Working"}]
  /\ arg \in [Worker -> Conn \cup {NoConn}]
  /\ latch \in [Worker -> 0..SemMax]
  /\ wpc \in [Worker -> {"latch", "body", "hangs", "return", "free", "put"}]
  /\ res \in [Worker -> Conn \cup {NoConn}]

(* One thread at a time owns a connection, although the dispatcher hands   *)
(* it to a worker before it takes it off the queue, and a worker declares  *)
(* itself Empty before it has queued its connection again: a connection is *)
(* waiting once, or held by one worker, or being returned by one.  The     *)
(* connection structs have no lock: this is what makes them safe to use.   *)
SingleOwner ==
  /\ IsInjective(Pending)
  /\ \A w \in Worker : Holding(w) => arg[w] \notin ToSet(Pending)
  /\ \A w \in Worker : Returning(w) => res[w] \notin ToSet(Pending)
  /\ \A v, w \in Worker :
       /\ v # w /\ Holding(v) /\ Holding(w) => arg[v] # arg[w]
       /\ v # w /\ Returning(v) /\ Returning(w) => res[v] # res[w]
       /\ Holding(v) /\ Returning(w) => arg[v] # res[w]

(* No thread keeps a pointer to a connection whose body has freed it,      *)
(* apart from the queue entry the dispatcher is about to unlink.           *)
NoDanglingConnection ==
  /\ \A c \in ToSet(Pending) : Live(c)
  /\ \A w \in Worker : Holding(w) => arg[w] \in Conn /\ Live(arg[w])
  /\ \A w \in Worker : Returning(w) => res[w] \in Conn /\ Live(res[w])

(* A connection that is not over can always be found by somebody: races    *)
(* between the dispatcher and the workers lose none (a failed make_entry   *)
(* does, and marks it "lost").                                             *)
NoneStranded ==
  \A c \in Conn : Live(c) =>
     \/ c \in ToSet(Pending)
     \/ \E w \in Worker : Holding(w) /\ arg[w] = c
     \/ \E w \in Worker : Returning(w) /\ res[w] = c

(* A latch opens once per assignment: a worker whose state says Empty is   *)
(* not in a body and has no post left that would run one it was not given, *)
(* and a Working one has its post or is using it.                          *)
LatchDiscipline ==
  \A w \in Worker :
    /\ wpc[w] \in {"body", "hangs", "return", "free"} => Holding(w)
    /\ latch[w] = (IF Holding(w) /\ wpc[w] \in {"latch", "put"} THEN 1 ELSE 0)

(* remove_head_conn reads d->head_conn->next with no NULL test of its own: *)
(* the entry try_dispatch looked at must still be there.                   *)
HeadStillThere == dpc \in {"scan", "remove"} => queue # <<>>

(* Every pointer that is about to be followed leads to something: the      *)
(* workers', the queue's and the dispatcher's own.                         *)
PointersGood == NoDanglingConnection /\ HeadStillThere

Waiting(c) == c \in ToSet(Pending)

PoolStopped == \A w \in Worker : wpc[w] = "hangs"

(* Every queued connection is handed to a worker in the end, unless the    *)
(* whole pool hangs: one worker that comes back is enough.  That holds     *)
(* also when the post that announced it was used up while all workers were *)
(* busy: only the one second limit of dispatcher_wait brings the           *)
(* dispatcher back.                                                        *)
EveryConnectionServed ==
  \A c \in Conn :
    Waiting(c) ~> PoolStopped \/ \E w \in Worker : Holding(w) /\ arg[w] = c

-----------------------------------------------------------------------------
(* Refinement of WorkQueue.                                                *)
Phase ==
  [c \in Conn |->
     IF life[c] = "absent" THEN "absent"
     ELSE IF c \in ToSet(Pending) THEN "ready"
     ELSE IF \E w \in Worker : Holding(w) /\ arg[w] = c THEN "served"
     ELSE IF \E w \in Worker : Returning(w) /\ res[w] = c THEN "yielding"
     ELSE "over"]

Abstract == INSTANCE WorkQueue WITH
  Limit <- NumWorkers, phase <- Phase, ready <- Pending

(* The threads together are a first-in-first-out queue with one owner per  *)
(* connection, bounded service and no overtaking; and its head is taken    *)
(* while fewer than Limit are being served.                                *)
ImplementsWorkQueue == Abstract!Spec
=============================================================================
