# A verification of systems2

The repository holds the C programs of an operating-systems course: a caching
HTTP/1.0 proxy (`src/_proxy`), a TCP relay (`src/_lab27(relay)`) and a row of small
thread and process exercises (`src/lab1` … `src/lab22`, `src/lectures`). The proxy is
the program with a design of its own and with most of the code, so it comes first.

1. [Inventory](#1-inventory) · 2. [Plan](#2-plan) · 3. [Modules](#3-the-modules-and-the-code)
· 4. [Runs](#4-the-runs) · 5. [Findings](#5-what-the-code-does-against-its-own-words)
· 6. [Proofs](#6-the-proofs) · 7. [Not modelled](#7-not-modelled-and-abstractions)

## 1. Inventory

### 1.1 The proxy, `_proxy/src` and `_proxy/include`

`main.c` takes a port and a class. Class `MTCLASS` runs one thread per connection,
class `WTCLASS` runs `WORKERS_AMOUNT` (2) worker threads behind a dispatcher thread.
A client's request is parsed and looked up in the cache; on a miss it is fetched from
its server. A response with status 200 for which the cache has room goes through a
cache entry, from which any number of clients read while it is being filled; any other
response is proxied by the client's own connection.

| component | state | operations | interacts with |
|---|---|---|---|
| listener (`dispatcher.c:120-174`) | listening socket | `spin_listener`, `listener_cleanup` | makes client connections, queues them |
| dispatcher, WTCLASS (`dispatcher.c:223-412`) | list `head_conn..last_conn`, semaphore `staleness`, workers with `state`, `arg`, `latch` | `dispatcher_put`, `dispatcher_wait`, `perform_match` (`check_head_conn`, `try_dispatch`, `remove_head_conn`), `worker_body` | runs `client_body` and `server_body`, which queue connections again |
| dispatcher, MTCLASS (`dispatcher.c:163-221`) | `threads[]`, `num_threads` | `dispatcher_spin_client_reader`, `dispatcher_spin_server_reader` | a thread per connection |
| client connection (`client.c`) | `state`, `request`, `entry`, `current`, `bytes_read`, `is_registered` | `client_register`, `client_read_n`, `client_proxy_n`, `free_connection` | finds or makes an entry, reads its chunks; owns the server connection when proxying |
| server connection (`server.c`) | `state`, `buf`, `buflen`, `entry` | `server_init_connection`, `server_parse_into_response`, `choose_read_or_proxy`, `server_read_n`, `server_destroy_connection` | fills one entry, wakes its readers |
| cache entry (`cache.c:60-142`) | chunk list, `bytes_ready`, `bytes_expected`, `readers_amount`, `lag_lock`, `lag_cond` | `centry_put`, `lag_broadcast`, `wait_for_ready_bytes` | one writer, many readers |
| cache (`cache.c:144-294`) | entry list `head..last`, `current_expected_bytes`, `marked`, `structural_lock` | `cache_find`, `cache_put`, `cache_garbage_check`, `cache_garbage_collect`, `cache_free_marked` | shared by all workers |
| errors and shutdown (`verify.c`, `main.c`, `dispatcher.c:41-118`) | `exit_flag` | `verify`, `check_panic`, `dispatcher_destroy` | every thread polls the flag |
| parsers, logging (`pico`, `clog`, `logger.h`) | none shared | vendored | |

What is hard there. A connection has no lock of its own and moves from thread to
thread. An entry is shared by a writer and by readers that come and go. Two lists
(connections and entries) are walked partly outside their locks. Every wait has a limit
of one second, which hides or repairs lost wakeups. Memory can run out in the middle of
a handover. A check (is there room, is the worker free) and the act it permits are
separate steps. A thread may exit at any `verify`, with whatever it has locked.

What makes each component correct:

* **dispatcher**: a connection belongs to one thread at a time, none is lost, none is
  used after it was freed, and all are served, first come first served;
* **cache entry**: every reader gets the response in order, with no gap and never ahead
  of what was published, whatever the other readers do, and gets to its end;
* **cache**: an entry in use stays in the list, list and byte count agree, the
  threshold is kept, clients that ask for the same find the same;
* **connection lifecycle**: what one connection frees no other one uses;
* **thread per connection**: a slot of `threads` is never used twice at a time;
* **shutdown**: every thread ends, and nobody uses what has been released.

### 1.2 The relay, `_lab27(relay)/src/27.c`

The listener starts a thread per session; a thread connects to the target, polls both
sockets and copies what it reads from one to the other. State: `threads[]`,
`num_threads`, `exit_flag`, two sockets per session. Hard: one flag shared by all
sessions, ends of input that are not hang-ups. Correct: bytes arrive in order, a session
ends when its peers do, and one session's end is not another's.

### 1.3 The exercises

| exercise | state | hard part |
|---|---|---|
| `lab10/10.c`, `lab10/10andrey.c`, `lab22/22.c` | forks, a food counter, semaphores or a monitor | deadlock, lost wakeups, arguments passed by address |
| `lab11`, `lab14`, `lab16` | three mutexes, two semaphores, two named semaphores | two threads or processes print in strict alternation |
| `lab8-9/8.c` | `sig_flag`, `farthest_iter`, `iter_mutex` | all threads stop at the same iteration, or the sum has a gap |
| `lab1`, `lab3`, `lab4-5` | none shared | start, join, cancel |
| `lectures/exp1.c` | a queue's state flag and condition | a close that must wake its waiters |

## 2. Plan

Modules by what they matter to the repository's main program; those marked *done* are there.

| module(s) | models | composes / refines | theorems |
|---|---|---|---|
| `WorkQueue` (abstract), `Dispatcher` | listener, dispatcher thread, workers | `Dispatcher` implements `WorkQueue` | done: ownership, no dangling pointer, nothing lost, latches, refinement |
| `CacheStream` | one entry, its server connection, its readers | | done: order, no torn chunk, no lost wakeup, readers come to their end |
| `Cache` | the list of entries, its collector, registration | | done: list order, in-use entries stay, hits agree, the threshold's overrun is bounded, the lock is given back and walks end |
| `Connections` | the read loops of the parsers, connecting, the choice between cache and proxy mode, `client_proxy_n`, `free_connection`; freed memory used again | takes from `Dispatcher` that each queued connection gets its turn | done: who owns a proxied server connection, what leaks, the order of a proxied response |
| `Shutdown` | `exit_flag`, `check_panic` inside locked regions, destruction order | over the thread structure of `Dispatcher` | done: join before free, an idle proxy's end, nothing ends before the signal, only abandoned locks block |
| `Relay` | sessions, poll, the shared flag | | done: its limits, every byte passed on |
| `Alternation` (abstract), `Mutexes11`, `Semaphores14`, `Processes16`, `MCTurns` | labs 11, 14, 16 | the first two implement `Alternation` | done: both implement it, the processes alternate over kills, no deadlock |
| `PiThreads` | lab 8-9 | | done: all threads stop at one iteration, no gap, after finitely many steps |
| `Dinner` (abstract), `Philosophers22`, `Philosophers10`, `Philosophers10a`, `MCDinner` | labs 10, 10andrey, 22 | all three implement `Dinner` | done: all three implement it, forks are those of who eats, nobody is forgotten, no deadlock |

A component has one run in which safety and liveness share an instance, and one more where
the code does not do what the repository says of it. What the plan once had and what is left
out now, with the reasons, is in section 7.

## 3. The modules and the code

Conventions. A region under one lock is one step, since nothing outside the lock's
users can tell its inside apart; whatever is *not* under a lock is cut at every read
and write that another thread can see. Failures of `malloc`, `read`, `write` and of
dispatching are alternatives of the step in which they occur. Time is not modelled: a
timed wait may end at any moment the code lets it matter. Operators called `Bad…`
stand before the operator they are a broken variant of; no specification uses them.
They document which mistake the properties detect.

### `Dispatcher`

A connection is `<<r, "CLIENT">>` or `<<r, "SERVER">>` for a request `r`.

| variable | code |
|---|---|
| `life` | a connection's `state` field, or `freed` / `lost` (no pointer left) |
| `queue` | the list `head_conn … last_conn`; `Put` is the region under `dpatch_lock` with its `sem_post` |
| `staleness`, `latch` | the semaphores, with `SEM_VALUE_MAX` = `SemMax`: `sem_post` fails there unnoticed |
| `dpc`, `scan` | the dispatcher thread in `dispatcher_wait`, `check_head_conn`, `try_dispatch` (`cur_wrk`), `remove_head_conn` |
| `state`, `arg` | `Worker.state`, `Worker.arg`, written by both threads without a lock |
| `wpc`, `res` | a worker in `worker_body` |

One action per step of each thread: `Accept`, `AcceptNoMemory` (listener);
`DispatcherWait`, `CheckHeadConn`, `TryDispatch`, `SkipWorker`, `RemoveHeadConn`
(dispatcher); `WorkerWake`, then one of `SpinServerReader`, `SpinServerNoMemory`,
`BodyReturn`, `BodyFree` (what `client_body` and `server_body` do to the dispatcher) or
`BodyHangs` (a body that never returns, section 5), `WorkerPut`, `WorkerPutNoMemory`. `WorkQueue` is the abstract promise: a FIFO queue
whose elements are served by at most `Limit` workers, any number of times.

### `CacheStream`

One entry. A byte is its position in the response; a chunk `[from, size]` holds the
bytes after `from`. `length` is what the server will send, `expected` is
`bytes_expected` (`BE_INF` where the response did not say).

The server connection (`spc`): `BeginTurn` stores what is left in its buffer, or an
empty chunk; `AppendChunk`, `ReadSome` up to `ChunksToRead` times; `Publish` (region
under `lag_lock`), `Broadcast` (after it); `PutNoMemory`, `ReadEnd("gone")` are the
errors, `ReadEnd("done")` and `ServerDone` the end. `then` is where the thread goes
after the broadcast. A reader (`rpc`): `Join`, `Look` and `LookAgain` (regions under
`lag_lock`, `check_pointers_correctness` included), `Timeout`, `SpuriousWakeup`,
`SendChunk` (`write` of a whole chunk, without a lock), `WriteError`, `BrokenPipe`
(the default action of SIGPIPE), `EndSend` (`check_if_done`).

### `Cache`

The list. An entry is named by the client that makes it. `Find`, `FindHit`, `FindNext`
(one hop under the lock), `FindMiss` are `cache_find`; `Respond`, `RespondOther`,
`GiveUp` what comes of the server's answer; `Check`, `Collect`, `Scan` (one iteration),
`ScanEnd`, `Recheck`, `Link`, `FreeMarked` are `cache_put` with
`cache_garbage_check`, `cache_garbage_collect` and `cache_free_marked`; `Register`,
`Spin`, `SpinFails`, `Leave` are registration, queueing of the server connection and
`free_connection`. `Unlinked` keeps what the collector really does to the list, with
`head` and `last` left where they are. A lookup that compares with a request that has
been freed may go either way. `puts` and `charged` are history variables: the order of
the links, and which puts have counted in `current_expected_bytes`.
`Threads` bounds how many clients are inside `client_register` at a time: that many
workers there are.

### `Connections`

The lives of connections. `pc` is a client's place in its turn of `client_body` (`queued`
between turns), `state` its `state` field, `ptr` its pointer `c` to a server connection. A
server connection is a `Block`, the memory `malloc` gave for it: `block` is its `state` field,
or `raw` after `malloc`, or `free`; `buf` the part of the response in its buffer; `served`
those that have been dispatched to `server_body`. `ptr` is never reset by the code when
`server_body` frees the block, and so it is not here. `maker` and `strayed` are
history variables.

`Parsed`, `ParseFails`, `Spins` are the outcomes of `parse_into_request` (`Spins` also of
`server_parse_into_response`: `read` gives 0 and the parser says "incomplete", for ever);
`FindHit` and `FindMiss` of `cache_find`; `Connected`, `ConnectFails`, `Sent`, `SendFails`
the steps of `spin_server_connection`; `ChooseProxy`, `ChooseRead`, `ChooseCrashes` what
`choose_read_or_proxy` makes of a status and a mime that may be uninitialised; `Spun`,
`SpinFails` its dispatching. `Rewrite`, `Fetch`, `FetchEnd`, `FetchFails`, `Write`,
`WriteFails` are `client_proxy_n`. `FreeAlone`, `FreeBoth`, `FreeTwice` are
`free_connection`, by what it finds behind its pointer. The outcomes are free choices;
parts are counted, not read. A proxying client that finds its server connection gone or
another's (`~ Sound`) ends the model.

### `Shutdown`

The same threads as `Dispatcher`'s, with what matters to their end: where each is (`pc`),
who owns each lock, and what is freed. The listener's loop is `Check` (`check_panic`),
`InitConnection` (which reads the cache's address in the dispatcher) and `Accept`.
`Interrupt` is SIGINT, at any moment and any number of times. It fails `accept` in a
listener that is blocked there; anywhere else the listener goes on, after `Check` into
`accept` with the flag set. Once the listener has gone, it may fail a `sem_timedwait` of some
other thread. `Turn` takes a worker's turn to its next critical section, of the cache
(`find`) or an entry (`lag`), or to its end. `Enter` and `Leave` are
`verify(pthread_mutex_lock())` and `verify(pthread_mutex_unlock())`: with the flag set they
end the thread through the cleanup their caller has named, *after* the lock was taken. `Wants`
says which lock a thread is about to take, `Cleanup` what each critical section names;
`Stranded`: the owner of the lock that a thread wants has ended, or is about to.
`DestroyCache`, `DestroyDispatcher` (after `Joined`) are what the cleanups do. `Undefined`: a
thread uses what another has freed.

### `Relay`

`main` in its loop of `Accept`, `Create`, `Count`; a session's thread in `Connect`,
`Polled`, `Read`, `Write` (the halves of `transmit`, with the check of the flag between
them), `EndSession`, `TransmitFails`; peers that `Send` and `HangUp` (end their output, or
reset the connection). `threads` are the sessions counted in `num_threads`. Bytes have
numbers, and those in `NulBytes` the value 0: `Text` is what `write(..., strlen(buf))`
passes on, with `Junk` for what lies behind a full buffer.

### `Dinner`, `Philosophers22`, `Philosophers10`, `Philosophers10a`

`Dinner` is what the three programs promise: who sits next to somebody who eats does not
begin to, at most `Food - 1` meals begin (the last dish is announced as none,
`food_on_table` returns what is *left*), and each meal ends. `eating` and the history
variable `meals` are what is mapped.

* `Philosophers22` (`lab22/22.c`): a philosopher's `pc` names the points where others can
  interfere: `TakeDish` (under `foodlock`), `Enter` (`monlock`), `Try` (both trylocks, the
  dish put back, the wait begun), `WakeUp` (the condition of the wait looked at again),
  `FinishMeal`, `Leave` (whose
  `pthread_cond_signal` wakes at least one). `signalled` are those who have been woken and do
  not have `monlock` yet; `awaken` is the local variable of that name, with which a
  philosopher keeps `monlock` while it goes for its next dish. Spurious wakeups are there.
* `Philosophers10` (`lab10/10.c`): `forklock`'s holder has a list `todo` of those it has to
  `Test`; between the `sem_post` of a test and the `GetForks` for the one who passed it,
  that one may already `Eat`. That is the only place where the region under the lock shows.
* `Philosophers10a` (`lab10/10andrey.c`): main's `i` with `Create`, `Increment`, `Reset` and
  `Join`, since its address is each thread's argument; `ReadNumber` may come at any time. A
  thread that reads `PHILO` has no seat (`stray`). Forks are locked lower number first.

`MCDinner` puts the three side by side, `program` chooses the one that runs; the other two
stay in their initial states. The three do not interact; this is one question
put to three programs, not a composition.

### `Alternation`, `Semaphores14`, `Mutexes11`, `Processes16`

`Alternation`: parent and child write `Count` lines each, in turns, the parent first, and
get to the end (`Ends`) unless one of them has stopped. `written` and `stopped` are mapped.

* `Semaphores14` (`lab14/14.c`): `Wait`, `Write` or `WriteFails`, `Post` for each thread,
  `Create` and `Join` for main.
* `Mutexes11` (`lab11/11.c`): a mutex's holder, each thread's `cur_mutex`; the handshake is
  `TryLock` and `Retry` against `ChildStart`. A lock of what one holds and an unlock of what
  one does not hold lead to `error`, as for the error checking type.
* `Processes16` (`lab16/16.c`): `link` and `value` are the names and the semaphores that
  outlive a process; `Open` finds or creates; `Kill` ends a process between any two steps,
  `Restart` begins the next run with what is left. `Reap` is `verify(wait(...))`.

`MCTurns` combines them as `MCDinner` does; all three are instances, with one `Count`.

### `PiThreads`

`lab8-9/8.c`. The terms are not computed: `summed` says how many iterations of terms a
thread has added, `Terms` which terms these are. The region under `iter_mutex` is cut
at its two reads of `sig_flag` (`Dump`, `Decide`), which the handler (`Signal`) writes
at any time. Before the signal no thread goes beyond `MaxIter`; after it no bound
is needed.

## 4. The runs

| run | specification, bounds | shows |
|---|---|---|
| `dispatcher` | 2 requests (4 connections), 2 workers, `SemMax` 2, fairness | `SingleOwner`, `PointersGood`, `NoneStranded`, `LatchDiscipline`; `EveryConnectionServed`; `ImplementsWorkQueue` |
| `stream` | 2 readers; lengths 1, 3, 4; expected 3 or 9; buffer 2; 2 chunks a turn; fairness | `ReadyBetween`, `NoTornRead`, `Contiguous`, `NoLostWakeup`; `EveryReaderFinishes` |
| `stream_drop` | 2 readers, length 3 | violated, see 5 |
| `cache` | 3 clients, 2 threads, 2 hosts (one a prefix of the other), size and threshold 2, fairness | `ListInPutOrder`, `InUseIsLinked`, `OnlyLostTailCrashes`, `OverCommitBounded`, `HitsOldest`; `EveryCallReturns` |
| `connections` | 2 clients, 2 blocks, 2 workers, 2 chunks a turn, 5 parts of a response, fairness | `ProxyOwner`, `OnlyFailuresLeak`, `PartsInOrder`; `EverySessionEnds` |
| `connections_reuse` | the same, no fairness | violated, see 5 |
| `shutdown` | 3 workers, listener, dispatcher, 3 locks, fairness | `JoinedFirst`, `QuietEndIsSafe`; `EndsOrStrands` |
| `relay` | 3 clients for a table of 2; buffer 2; 4 bytes one way (the second is NUL), 1 the other; fairness | `WithinLimits`, `PassedOn`; `FlagEndsSessions` |
| `relay_end` | 1 session, 1 byte, fairness | violated, see 5 |
| `pi` | 3 threads, 2 steps, `MaxIter` 3, fairness | `OneLastIteration`, `SumHasNoGap`, `SignalEndsAll` |
| `dinner` | 4 philosophers (3 in 10andrey), 5 dishes, fairness | `ForksAndPosts`, `NoLostWakeup`, `DinnerEnds`, `AllImplementDinner` |
| `turns` | 2 lines each, 3 runs of lab 16, fairness | `NothingOutOfStep`, `TakeTurns`, `LinesAlternate`, `TurnsEnd` |

The type invariants are theorems (section 6); `dinner` and `turns` check those of the exercises,
which the proofs of all three programs together use, too.

The bounds, and why they reach the interesting cases.
*Dispatcher.* The number of workers is the code's own. Two requests give four
connections for two workers, so both workers are busy while the list is longer than one
and the dispatcher is between `try_dispatch` and `remove_head_conn`; `SemMax` 2
lets the semaphores saturate. *CacheStream.* A turn of two chunks and a
response of up to four bytes give two turns and make a turn end by its limit, by the
end of the input and by errors, in any position; two readers suffice to tell a broadcast
from a signal; a server sends less than it promised (1), exactly that (3), or more (4).
*Cache.* Three clients on two threads let one look up while two put; one entry fits, so
the check fails, collects and fails again as soon as there is one, and two that have
passed it at the same time overrun the threshold; the prefix of a host name is there because
`mdata_is_equal` compares by prefix. *Connections.* Two clients, because a stale pointer
needs one to keep it and another to be given the memory; two blocks, so that both can
have a server connection, or one of them an old block that is used again; five parts
make three turns of `client_proxy_n`. The case of `EverySessionEnds` in which two spinning
clients keep a third from ever getting a worker would need a third client; with two it
is there as their both spinning. *Shutdown.* Three workers, so
that one can hold a lock, one wait for it and one destroy. *Relay.* One session more than
the table has; four bytes with a buffer of two, the second of them NUL, make buffers that
are empty, cut by a NUL, full without one, and read again. Only the first session
talks; the second is there to be ended by the first one's errors.

*Exercises.* Four philosophers are the least of whom two can eat at once while a third one
waits for both, and five dishes make the last ones contested. Three threads of lab 8-9
let one be ahead, one behind and one already stopped. Two lines take the ring of three
mutexes once round and a half, and the third run of lab 16 begins with what a run that
itself began with leftovers has left.

`CHECK_DEADLOCK FALSE` is used where the model really may stop: all clients are gone,
all threads have ended, or the process has died.

**Fairness.** `Dispatcher!Spec` is weakly fair to the dispatcher thread and to each
worker: threads are scheduled, and a body returns or hangs, which any of them may
(`BodyHangs`): a peer may be silent for ever, and the loops over `read` at the end of the input
never end. So nothing is assumed of the peers, and `EveryConnectionServed` promises a turn
unless all workers hang (`PoolStopped`). `CacheStream!Spec` is weakly fair to the
server connection and to each client that has joined: that each gets its turns is
`EveryConnectionServed`, on the assumption that some worker of the pool does not hang, and that
their own peers do not block them for ever. Nobody has to join. `Cache!Spec` is weakly fair to a
thread only inside `cache_find` and `cache_put`; a thread waiting for `structural_lock`
is not assumed to obtain it whenever it is free again and again. It does in the end
because each client passes a bounded number of locked regions. `Connections!Spec` is
weakly fair to a turn that has begun: no `read` or `write` blocks for ever, which is an
assumption about the peers (the loop at the end of the input is `Spins`). It is strongly
fair to the beginning of a turn, since workers that come free again and again serve the
queue in order (`EveryConnectionServed`), and to `server_body`, which also means that
responses end. `Shutdown!Spec` and `Relay!Spec` are weakly fair to each thread, which again
assumes that no `read` or `write` blocks for ever; nobody need ever connect, and `accept` may
wait for ever, also after the flag has been set. The exercises' models are
weakly fair to each thread or process; nothing is assumed of who obtains a lock. The one
strong fairness is the child's first lock in lab 11 (`ChildStart`): the parent's trylock
loop takes and gives back that mutex again and again, so weak fairness would let
the child starve, and a scheduler that runs the child while the mutex is free does not.

## 5. What the code does against its own words

Each of these runs checks one property taken from the repository's text; TLC shows a
behaviour of the code that breaks it.

* `stream_drop`, `DropEndsOneSession`. `_proxy/README.md:8` says a client that drops is
  handled by shutting only its connection down. `write` on a socket whose peer has gone
  raises SIGPIPE, which nothing ignores or handles: the process ends.
* `connections_reuse`, `EndsOnlyItsOwn`. The same sentence. A client that reads from the
  cache keeps its pointer to the server connection that `server_body` frees at the end of the
  response. `malloc` may give that memory to the server connection of another
  client; if this one proxies, `free_connection` (`client.c:85`) finds `Proxy` there and
  closes and frees it in the middle of the other's response.
* `relay_end`, `PeerEndEndsSession`. `_lab27(relay)/README.md:25` asks that the relay break a
  connection when its peer does. It does so on POLLHUP, which needs a reset or both
  directions shut; a peer that closes in order is polled readable for ever, and every `read`
  of 0 bytes is passed on as nothing.

Further disagreements, seen while modelling; no run is needed to see them:

* `cache.c:153` says that there is no caching beyond the threshold. The check is made without
  the lock and `cache_put` adds later: two clients that check at the same time both pass.
  `OverCommitBounded` says how far this can go.
* `client.c:88` says that a request belongs to the cache with its entry. When the server
  connection cannot be queued (`server.c:143`) the client frees it (`client.c:95`) although
  the entry is in the list (`SpinFails`), and every later lookup compares with it.
* `server.c:110` and `server.c:143` return without freeing the server connection: its memory
  and its socket are lost. `OnlyFailuresLeak` says that there is no other way to lose one.
* `client.c:382` writes what is in the buffer at the beginning of every turn, also what the
  last turn ended with: of a response longer than `CHUNKS_TO_READ` reads the client gets
  every tenth part twice. `PartsInOrder` says exactly which.
* `client.c:160` and `server.c:188` do not look for `read` returning 0: a peer that closes
  early takes a worker away for good, and two such stop the proxy (`Spins`; `BodyHangs` and
  `PoolStopped` in `EveryConnectionServed`).
* `server.c:114` leaves `status` and `mime` uninitialised and `server.c:116` ignores the
  result of the parse: without a Content-Type the mime that is stored is not a pointer, with an
  unreadable response the decision is made by what was in memory (`ChooseCrashes`,
  `ServerCrashes`).
* `dispatcher.c:284` says "all is covered by dispatcher", but a worker whose `sem_timedwait`
  fails (`dispatcher.c:281`), or that comes out of `dispatcher_put` with the flag set, calls
  `dispatcher_cleanup` itself: it joins itself, frees its own memory and may do so while
  the dispatcher does the same (`Undefined`).
* `dispatcher.c:111` frees the cache before the workers are joined, while they may be in it.
  `destroy_workers` reads `cur->next` after `free(cur)` (`dispatcher.c:80`), which
  works as long as nothing overwrites the field.
* `verify.c:44` ends a thread that has just locked; `EndsOrStrands` says what can become of
  the others. After one SIGINT in an idle proxy no lock is left locked, and all is freed once
  (`QuietEndIsSafe`), with the exception that follows.
* `dispatcher.c:164` looks at the flag, `dispatcher.c:166` blocks in `accept`. A SIGINT in
  between fails nothing: `init_connection` (`client.c:63`) then reads the cache's address in a
  dispatcher that its own thread may have freed meanwhile, and the listener blocks in `accept`
  with the flag set until somebody connects or a second signal comes. `QuietEndIsSafe` allows for
  just this read, and `EndsOrStrands` leaves the listener out.
* `27.c:83` counts sessions ever made: with the 510th the relay sets its own flag and ends
  all, while `_lab27(relay)/README.md:27` asks for 510 at a time.
* `27.c:102` passes on `strlen(buf)` bytes: what follows a NUL is lost, and a full buffer is
  read past its end, although `_lab27(relay)/README.md:25` asks for all data.
* `structs.h:55` says that with `MCI_DEAD` the first reader that stumbles becomes master.
  Nothing assigns `MCI_DEAD`, and its branch (`client.c:223`) is a stub: readers of an entry
  whose server connection has ended early time out for ever, and those of one that sent more
  than it announced are never exactly done. `EveryReaderFinishes` therefore speaks only of
  entries that got exactly what was expected.
* `structs.h:65` says `readers_amount` changes under the collector's lock. It changes under
  the entry's `lag_lock` (`client.c:103`), which the collector does not take. `InUseIsLinked`
  shows that this has no consequence at present.
* `8.c:82` and `8.c:87` read `sig_flag` separately: a signal in between lets a thread stop
  without `thread_sig_iteration`, which the report at `8.c:114` then gives as 0.
* `10andrey.c:74` reads the number through the address of main's loop variable: numbers may
  be missing, doubled or `PHILO`, so the philosopher number 1 that `10andrey.c:85` thanks
  need not exist. Nor is the absence of deadlock due to its nap: `DinnerEnds` has no nap.
* `16.c:63` passes the result of `wait`, a process number, to `verify`, which takes all but 0
  for an error: the exit status and the signal (`16.c:66`, `16.c:69`) are never reported.
* In lab 16 a second kill, after one between the two `sem_unlink` of `free_resources`
  (`16.c:24-28`), can leave two posts, and then two lines in a row are of the same process.
  `LinesAlternate` excludes just that, by the history variable `cut`.

One thing about the cache deserves a paragraph of its own. `readers_amount` starts at 1 for the
entry itself and nobody ever gives that count back, and a client that hits an entry is
never counted. So nothing is ever eligible for collection, and `Unlinked`, which loses
`head` and `last`, and the loop of `cache_free_marked`, which follows NULL, never have
anything to do. The properties `ListInPutOrder`, `InUseIsLinked` and
`OnlyLostTailCrashes` hold for this reason alone, and each is broken by the smallest
change that would make the collector work (`BadInitialReaders`, `BadEligible`). In return
the cache fills up once, after which every response is proxied.

## 6. The proofs

All theorems are for any values of the constants that satisfy the modules' assumptions:
any number of requests, workers, readers and clients, any response length, buffer size
and threshold.

| module | theorem | states |
|---|---|---|
| `DispatcherProofs` | `TypeCorrect`, `OneOwner`, `PointersStayGood`, `NoneLost`, `LatchOncePerAssignment` | the invariants of `dispatcher` |
| | `Refinement` | every behaviour of the threads is one of `WorkQueue!SafeSpec` |
| `CacheStreamProofs` | `TypeCorrect`, `ReadyStaysBetween`, `NoChunkTorn`, `PrefixSent`, `WakeupsKept` | the invariants of `stream` |
| | `ReadersCountDown` | with all bytes there a reader has finitely many turns left |
| `CacheProofs` | `TypeCorrect`, `ListKept`, `InUseStaysLinked`, `NoOtherCrash`, `HitsAgree`, `OverrunBounded` | `ListInPutOrder`, `InUseIsLinked`, `OnlyLostTailCrashes`, `HitsOldest`, `OverCommitBounded` |
| | `LockGivenBack`, `WalksEnd` | a client in the cache, or the holder of `structural_lock`, can go on; walks over the list go forward |
| `ConnectionsProofs` | `TypeCorrect`, `ProxyStaysOwned`, `OnlyFailuresStrand`, `PartsKeepOrder` | `ProxyOwner`, `OnlyFailuresLeak`, `PartsInOrder` |
| `RelayProofs` | `RelayTypes`, `RelayWithinLimits`, `BytesPassedOn` | `TypeOK`, `WithinLimits`, `PassedOn` |
| `ShutdownProofs` | `DestroyedAfterJoin`, `QuietShutdown` | `JoinedFirst`, `QuietEndIsSafe` |
| | `NoEndBeforeSignal`, `OnlyAbandonedLocksBlock` | before the flag nothing is destroyed; after it somebody can go on to the end, unless one waits for a lock whose owner has exited |
| `DinnerProofs` | `TypeCorrect`, `ForksHeld`, `NobodyForgotten`, `Refinement` | of lab 22: `TypeOK`, `ForksOfEaters`, `NoLostWakeup`, every behaviour is one of `Dinner!SafeSpec` |
| | `TypesOfAllThree`, `ForksMatchEaters`, `AllDinnersSafe` | `MCTypeOK`, `ForksAndPosts`, the safety half of `AllImplementDinner` |
| | `OneOfTwoNeighboursEats` | what follows for the three programs from `Dinner`'s steps |
| | `NoDeadlock` | somebody can always go on, in each of the three programs |
| `LabsProofs` | `TypeCorrect`, `StopTogether`, `GoalFixed`, `NoGap` | of lab 8-9: `TypeOK`, `OneLastIteration`, `GoalStands` (`farthest_iter` is fixed once a thread has stopped), `SumHasNoGap` |
| | `NoDeadlock8`, `CountsDown` | of lab 8-9: after the signal somebody can go on to the end, and each step is one less |
| | `TypeCorrect14`, `JoinedComplete`, `TakesTurns` | of lab 14: `TypeOK`, `JoinedAtTheEnd`, every behaviour is one of `Alternation!SafeSpec` |
| | `TypesOfAllThree`, `InStep`, `BothImplementAlternation`, `NamedSemaphoresAlternate` | `MCTypeOK`, `NothingOutOfStep`, `TakeTurns`, `LinesAlternate` |
| | `AtMostOneAhead` | what follows for labs 14 and 11 from `Alternation`'s steps |
| | `NoDeadlock` | of labs 14 and 11: somebody can go on to the last line unless a write has failed |

Each follows one pattern: an inductive invariant `IInv`, a lemma for `Init`, one for every
action, one that `IInv` implies the properties, and a temporal step.

* *Dispatcher.* `SingleOwner` is not inductive. That a connection queued by `Accept` or
  `SpinServerReader` is not queued already needs `ServerAfterClient` and
  `NoDanglingConnection`; that the one a body returns is nobody else's needs
  `LatchDiscipline`. The refinement maps the list without the entry already handed over
  to the abstract queue, so that `TryDispatch` is the abstract `Take` and
  `RemoveHeadConn` stutters; that at most `NumWorkers` are served is a counting argument
  on the injection from served connections to workers.
* *CacheStream.* `Chain`: the chunks follow each other without a gap and hold what was
  read. `Accounting`: `bytes_ready` plus what is still to be published is what is stored,
  and `bytes_ready` lies at the end of a chunk. From both it follows that a reader below
  `bytes_ready` has a next chunk, that this chunk is complete, and that after it the
  reader is still not beyond `bytes_ready` (`Places`). `Turns` keeps the counter of a
  turn within its limit. With all expected bytes published and the server gone, `StepsLeft`
  orders a reader's places between two chunks: whoever looks at `bytes_ready` then has more to
  send (`NotYet`), also after a timeout or a spurious wakeup, so it takes a chunk before it
  waits again, and the list of chunks has an end. (If nothing was expected,
  `expected = 0`, a reader may wait for ever, hence the condition in `AllThere`.)
* *Cache.* `Counts` gives every entry a count of at least 1, hence the collector's branch
  that moves an entry is never taken (`Unmarked`), hence the list only grows at its end
  (`ListInPutOrder`, `PutsOnce`), hence a position in it stays in it (`Positions`) and
  what a lookup has passed stays passed (`Lookups`). `LostTail` tells the one crash that
  is left from the others. For the overrun of the threshold `OverCommitBounded` is not
  inductive: `Room` adds that everybody between the check and the link fitted in alone, and
  that there is room for one of them and the threshold once more for each of the others;
  the rest is counting the at most `Threads` clients that are in `client_register`.
  `structural_lock` over several steps is only the collector's (`LockWithCollector`), which
  can always go on.
* *Connections.* `ProxyOwner` needs to know that nobody else has the block: a client that is
  making a server connection holds it alone (`Making`), since `malloc` gives only what is
  free; what is dispatched is `Read` or `Done`, never `Proxy` (`Dispatched`); a place in
  `client_proxy_n` goes with the state `Proxy` (`Bodies`, `Early`). All of it holds only until
  the first stray free, hence the premise `~ strayed`. For the leaks, `Kept` says that
  what is neither free nor dispatched has its maker, or is in one of the two lost states.
  `PartsInOrder` holds with strays, too: `Steady` counts the turns of `client_proxy_n`. After
  `q` of them a client has got `q * (ChunksToRead + 1)` parts, and its buffer holds part
  `q * ChunksToRead`; and a block that is not `Sound` any more never is again for that
  client, which crashes at its next access, so it gets nothing more that could be out of
  order.
* *Relay.* A sequence is taken apart only by positions: the buffer between two steps holds the
  bytes from one number on (`AllKept`), so what was passed on before it ends there, and a
  `write` moves the number on by what it read, the bytes behind a NUL (`Hidden`) included.
  The limits are counted by main's place: at most one session exists that is not in
  `num_threads` yet.
* *Shutdown.* `Locking` says who can hold a lock, and that nobody holds two; `Roles`, which
  threads run which cleanup; `Before`, that nothing is destroyed before the flag is set; `OneDestroys`,
  that only one thread is ever between the two halves of `dispatcher_destroy`. With these
  `JoinedFirst` is inductive. `QuietEnd` says where everybody can be after one signal
  to a proxy in which nobody is in the middle of a turn: the locks are free, only the
  dispatcher destroys, and the listener has gone or has no connection in hand (`check`,
  `init`, `accept`). Who holds a lock and has not exited is inside its region and can
  leave it (`Doors`), so whoever waits for a lock and is not `Stranded` has somebody it waits
  for who can go on.
* *Lab 8-9.* `Progress`: nobody is beyond `farthest_iter`, and only the holder of
  `iter_mutex` decides. So whoever stops is at the farthest iteration and nobody can
  go past it any more (`StoppedAtFarthest`). That the residue classes of the threads
  fill a beginning of the natural numbers is the lemma `Classes`. After the signal a
  thread below `farthest_iter` catches up and one at it stops, so `farthest_iter` stays, and
  `Left`, four times its distance and its place in the iteration, falls with each step.
* *Dinner, lab 22.* `Monitor` says who is in the monitor by `pc` and `awaken`. `NoLostWakeup` as it
  stands is not inductive: a woken philosopher may find `allowed_to_wake` reset and sleep
  again; `SleepersServed` says what is there for all who sleep, woken or not. `Dishes`
  keeps one dish in reserve, which bounds the meals of the refinement. Not all who are
  left can be asleep, by `SleepersServed` again.
* *Dinner, lab 10.* `NobodyForgotten` speaks of the moments at which `forklock` is free; in
  between, `Served10` says that a hungry philosopher without an eating neighbour is still on
  its tester's list (`todo`). `Locked10` says what that list can be for each place of
  the holder, so that it is empty when the lock is given back. Neighbours eat apart by their
  `state` (`Apart10`) although the forks of the one who has just passed a test may not be
  locked yet (`taking`); a post is there exactly between that test and the meal. Whoever holds `forklock` can go
  on: the forks it locks are free by `Locked10`.
* *Dinner, 10andrey.* `ForksOfHolders` is nearly inductive, whatever numbers the threads read: its
  strengthening says that threads main has not created have nothing (`Created10a`) and that
  whoever reaches for forks has a seat (`Seated10a`). From it: two who eat never have the
  same seat, which is what the refinement needs. That those who wait for their second fork form no
  circle: take the one whose first fork is the last of all first forks. Its second fork is later
  (`Seated10a`), and whoever held it would hold it as a later first fork, or eat. That a
  last one exists is well-foundedness of the natural numbers (`Smallest`).
* *Lab 14.* `OneSem`: there is one post, in a semaphore or with the thread that writes;
  `Counted` ties lines to turns; `ParentsTurn` and `ChildsTurn` say what the place of the post
  tells about the number of lines, which is the abstract guard `Turn`. The post never gets
  lost but with a thread that has failed, hence no deadlock.
* *Lab 11.* `Held11`: at each place a thread holds the one or two mutexes of the ring that
  its place and its `cur_mutex` say, and no other; so no lock of one's own and no unlock of
  another's, and whose turn it is follows from who holds what. `Handshake11` is the
  beginning, before the child holds number 2. Two threads at their locks hold one mutex each,
  so one of the three is free, and it is the one that one of them wants.
* *Lab 16.* A run may end anywhere and leave names, values and half a clean-up behind, so the
  invariant is about all semaphores at once, those the names stand for and those the
  processes of the current run have open: as long as no clean-up was cut they never have
  more than one post together (`OnePost16`), and what the next run would find by the
  names is at most one post, with those on their way to a named semaphore counted in
  (`OneLinked16`). `StaleParent16` and `StaleChild16` say when a process can have a semaphore
  that has lost its name: the other one has unlinked it, being done, so that what is still
  posted there does not count for the next run. With a single line each (`Count = 1`)
  nobody ever uses a second post, and `LinesAlternate` holds without all this. TLC checked
  the invariant with 2 lines in 4 runs, 4 in 2 and 3 in 3 before it was proved.

The assumptions the proofs use are the modules' own; among them `RelayAssumption` (a table
with room for a session, a buffer of at least one byte), `RunsAssumption` (at least one run of
lab 16), `PhilosophersAssumption` and `FewAssumption` (at least two seats).

`LockGivenBack`, `WalksEnd`, `ReadersCountDown`, `OnlyAbandonedLocksBlock`, `NoDeadlock`,
`NoDeadlock8` and `CountsDown` are what can be proved of liveness: ENABLED is out of the
prover's reach, so who can go on is stated by the guards of the steps (`CanMove`, `CanGoOn`).
For five of the models TLC has compared these with ENABLED in all states of the runs' instances:
`Cache`, `Shutdown` after the flag is set, `Dinner`, and labs 14 and 11 in states where nobody
failed. Those of `PiThreads` and `CacheStream` are proved only. What they leave to TLC is
that fairness turns "somebody can go on" and "each step counts down" into "it ends".

Every invariant of the passing runs is a theorem, and so is the safety half of each
refinement. Only model-checked is liveness (`EveryConnectionServed`, `EveryReaderFinishes`,
`EveryCallReturns`, `EverySessionEnds`, `EndsOrStrands`, `FlagEndsSessions`,
`SignalEndsAll`, `DinnerEnds`, `TurnsEnd` and the liveness halves of `ImplementsWorkQueue`
and `AllImplementDinner`), since fairness and ENABLED are out of the prover's reach; and with it
that 16.c does not deadlock when nobody is killed.

## 7. Not modelled, and abstractions

* Text: HTTP parsing (`pico`, `server_parse_into_response`), arguments, logging. The
  models take what parsing decides (cacheable or not, how long) as a free choice.
  `strncpy` in `centry_put` stops at a NUL byte; a chunk is taken to hold what it counts.
* Widths: sizes and counts are natural numbers. `Content-Length` passes through `atoi`,
  an `int` and a `size_t` (`server.c:213`): a `bytes_expected` that is wrong in either direction
  is in `CacheStream`, how it comes about is not.
* Exercises: failures of `pthread_create`, `fork`, `sem_open` and of other pthread calls end a
  thread or the program and are left out. Naps, priorities and eating times only bias the
  choice between steps that are possible anyway. The term index of `8.c:76` is an `int` and
  overflows after about 2^31 terms; the terms' values are not modelled.
* `exit_flag`: the models of the proxy other than `Shutdown` are of the time before it is
  raised. `Shutdown` abstracts a worker's turn to the locks it takes; that pthread calls fail
  for other reasons than the flag, and the cleanup functions of single entries, are left out.
* The MT class (`dispatcher.c:163-221`). `init_dispatcher` does not initialise `num_threads`, so
  the first `pthread_create` already writes to `threads` at an index that may be
  anything; whatever happens after that is undefined, and a faithful model has no
  property that holds. The bodies its threads run are those of `Connections` and `CacheStream`.
* An abstract `Delivery` for `CacheStream` was planned; `Contiguous` says the same about each
  reader without a second module.
* `lectures/exp1.c`: two functions no program calls. `close_with_wakeup` closes and signals
  without the mutex, so an `open_with_wait` between its failed `open` and its wait may miss it.
* `lab1`, `lab3`, `lab4-5`, `pi_serial.c`, `threadtest.c`: a thread or two with nothing
  shared; there is no interleaving to check. `lectures/open-wait` is preprocessor output.
