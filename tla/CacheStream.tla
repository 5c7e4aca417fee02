---------------------------- MODULE CacheStream ----------------------------
(***************************************************************************)
(* One cache entry of the proxy while its server connection fills it and   *)
(* clients read from it: server_read_n, centry_put and lag_broadcast on    *)
(* one side, client_read_n and wait_for_ready_bytes on the other           *)
(* (_proxy/src/server.c, cache.c, client.c).                               *)
(*                                                                         *)
(* The chunk list is read by the clients without a lock; only bytes_ready  *)
(* is written and read under lag_lock.  Bytes are positions in the         *)
(* response: chunk [from, size] holds the response's bytes from+1 to       *)
(* from+size.  Each region under lag_lock, each list append, each read()   *)
(* from the server and each chunk written to a client is one step.  A      *)
(* thread's turn is one call of server_read_n or client_read_n.            *)
(***************************************************************************)
EXTENDS Naturals, Sequences, SequencesExt

CONSTANTS
  Reader,        \* the clients that may read the entry
  Lengths,       \* how many bytes the server may send before it closes
  Expectations,  \* what bytes_expected may be (BE_INF: more than any length)
  BufSize,       \* REQBUFSIZE: what one read() may return
  ChunksToRead   \* CHUNKS_TO_READ: chunks in one turn

ASSUME CacheStreamAssumption ==
  /\ Lengths \subseteq Nat
  /\ Expectations \subseteq Nat
  /\ BufSize \in Nat \ {0}
  /\ ChunksToRead \in Nat \ {0}

VARIABLES
  length, expected,   \* what the server will send, Cache_entry.bytes_expected
  chunks, ready,      \* the chunk list, Cache_entry.bytes_ready
  resp,               \* Server_Connection.buflen: response bytes not stored yet
  fetched,            \* how many bytes were read from the server
  spc, then,          \* the server thread: its place, and where it returns to
  turn, batch, news,  \* i, read_on_iteration, lag_broadcast's new_bytes
  rpc,                \* a reader: its place
  at, got,            \* Client_connection.current (0: NULL) and bytes_read
  seen, sent,         \* client_read_n's bytes_ready and i
  running             \* no signal has ended the process

entryVars == <<length, expected, chunks, ready>>
serverVars == <<resp, fetched, spc, then, turn, batch, news>>
readerVars == <<rpc, at, got, seen, sent>>
vars == <<entryVars, serverVars, readerVars, running>>

(* cache_put has made the entry; the first part of the response, its       *)
(* headers at least, is still in the server connection's buffer.           *)
Init ==
  /\ length \in Lengths
  /\ expected \in Expectations
  /\ chunks = <<>> /\ ready = 0
  /\ resp \in 1..BufSize /\ resp <= length
  /\ fetched = resp
  /\ spc = "turn" /\ then = "turn"
  /\ turn = 0 /\ batch = 0 /\ news = 0
  /\ rpc = [r \in Reader |-> "absent"]
  /\ at = [r \in Reader |-> 0] /\ got = [r \in Reader |-> 0]
  /\ seen = [r \in Reader |-> 0] /\ sent = [r \in Reader |-> 0]
  /\ running = TRUE

-----------------------------------------------------------------------------
(* Mutant of KeptResponse: sc->buflen is not reset. *)
BadKeptResponse == resp

KeptResponse == 0

FirstBatch == 0

(* server_read_n: centry_put of what is left of the response, which        *)
(* publishes it at once, or of an empty chunk.                             *)
BeginTurn ==
  /\ running /\ spc = "turn"
  /\ chunks' = Append(chunks, [from |-> IF resp > 0 THEN 0 ELSE fetched, size |-> resp])
  /\ resp' = KeptResponse
  /\ news' = resp
  /\ spc' = IF resp > 0 THEN "publish" ELSE "append"
  /\ then' = "append"
  /\ turn' = 0 /\ batch' = FirstBatch
  /\ UNCHANGED <<length, expected, ready, fetched, readerVars, running>>

(* centry_put got no memory: BROADCAST_AND_RETURN(E_READ), and server_body *)
(* destroys the connection.                                                *)
PutNoMemory ==
  /\ running /\ spc \in {"turn", "append"}
  /\ news' = IF spc = "turn" THEN FirstBatch ELSE batch
  /\ resp' = KeptResponse
  /\ spc' = "publish" /\ then' = "gone"
  /\ UNCHANGED <<entryVars, fetched, turn, batch, readerVars, running>>

(* centry_put(sc->entry, NULL, 0): the chunk the next read() fills. *)
AppendChunk ==
  /\ running /\ spc = "append"
  /\ chunks' = Append(chunks, [from |-> fetched, size |-> 0])
  /\ spc' = "read"
  /\ UNCHANGED <<length, expected, ready, resp, fetched, then, turn, batch, news, readerVars, running>>

LastOfTurn == turn + 1 = ChunksToRead

(* read() returned n bytes into the last chunk. *)
ReadSome(n) ==
  /\ running /\ spc = "read"
  /\ fetched + n <= length
  /\ chunks' = [chunks EXCEPT ![Len(chunks)].size = n]
  /\ fetched' = fetched + n
  /\ batch' = batch + n
  /\ turn' = turn + 1
  /\ IF LastOfTurn
       THEN spc' = "publish" /\ then' = "turn" /\ news' = batch + n
       ELSE spc' = "append" /\ UNCHANGED <<then, news>>
  /\ UNCHANGED <<length, expected, ready, resp, readerVars, running>>

(* read() returned 0, the server has closed: sc->state = Done; or it       *)
(* failed: E_READ.  Both publish what this turn has read.                  *)
ReadEnd(next) ==
  /\ running /\ spc = "read"
  /\ next = "done" => fetched = length
  /\ news' = batch
  /\ spc' = "publish" /\ then' = next
  /\ UNCHANGED <<entryVars, resp, fetched, turn, batch, readerVars, running>>

(* server_body finds the connection Done: server_destroy_connection. *)
ServerDone ==
  /\ running /\ spc = "done"
  /\ spc' = "gone"
  /\ UNCHANGED <<entryVars, resp, fetched, then, turn, batch, news, readerVars, running>>

(* Mutant of Published: the new bytes replace the old ones. *)
BadPublished == news

Published == ready + news

(* lag_broadcast: the region under lag_lock ... *)
Publish ==
  /\ running /\ spc = "publish"
  /\ ready' = Published
  /\ spc' = "broadcast"
  /\ UNCHANGED <<length, expected, chunks, resp, fetched, then, turn, batch, news, readerVars, running>>

(* Mutant of Wakes: pthread_cond_signal instead of a broadcast. *)
BadWakes(r) == rpc[r] = "waiting" /\ \A q \in Reader \ {r} : rpc[q] # "waiting"

Wakes(r) == rpc[r] = "waiting"

(* ... and the broadcast, after it. *)
Broadcast ==
  /\ running /\ spc = "broadcast"
  /\ rpc' = [r \in Reader |-> IF Wakes(r) THEN "woken" ELSE rpc[r]]
  /\ spc' = then
  /\ UNCHANGED <<entryVars, resp, fetched, then, turn, batch, news, at, got, seen, sent, running>>

-----------------------------------------------------------------------------
(* The client that missed, or one whose request hits the entry. *)
Join(r) ==
  /\ running /\ rpc[r] = "absent"
  /\ rpc' = [rpc EXCEPT ![r] = "queued"]
  /\ UNCHANGED <<entryVars, serverVars, at, got, seen, sent, running>>

(* Where a reader goes that has just read bytes_ready under lag_lock. *)
AfterLook(r) == IF ready = got[r] THEN "waiting" ELSE "send"

(* wait_for_ready_bytes: check_pointers_correctness raises a panic on      *)
(* ready < read; otherwise send, or wait on lag_cond for more.             *)
Look(r) ==
  /\ running /\ rpc[r] = "queued"
  /\ seen' = [seen EXCEPT ![r] = ready]
  /\ sent' = [sent EXCEPT ![r] = 0]
  /\ rpc' = [rpc EXCEPT ![r] = IF ready < got[r] THEN "panic" ELSE AfterLook(r)]
  /\ UNCHANGED <<entryVars, serverVars, at, got, running>>

(* wait_on_lock_cond has been woken and has lag_lock again. *)
LookAgain(r) ==
  /\ running /\ rpc[r] = "woken"
  /\ seen' = [seen EXCEPT ![r] = ready]
  /\ rpc' = [rpc EXCEPT ![r] = AfterLook(r)]
  /\ UNCHANGED <<entryVars, serverVars, at, got, sent, running>>

SpuriousWakeup(r) ==
  /\ running /\ rpc[r] = "waiting"
  /\ rpc' = [rpc EXCEPT ![r] = "woken"]
  /\ UNCHANGED <<entryVars, serverVars, at, got, seen, sent, running>>

(* pthread_cond_timedwait gives up after one second: S_WAIT, with the      *)
(* bytes_ready of before.                                                  *)
Timeout(r) ==
  /\ running /\ rpc[r] = "waiting"
  /\ rpc' = [rpc EXCEPT ![r] = "send"]
  /\ UNCHANGED <<entryVars, serverVars, at, got, seen, sent, running>>

(* Mutant of More: the comparison with bytes_ready is dropped. *)
BadMore(r) == sent[r] < ChunksToRead

(* The loop condition of client_read_n. *)
More(r) == sent[r] < ChunksToRead /\ got[r] < seen[r]

(* The next chunk is written to the client's socket as a whole; without    *)
(* one, "chunks have less than bytes_ready".                               *)
SendChunk(r) ==
  /\ running /\ rpc[r] = "send" /\ More(r)
  /\ IF at[r] = Len(chunks)
       THEN rpc' = [rpc EXCEPT ![r] = "short"] /\ UNCHANGED <<at, got, sent>>
       ELSE /\ at' = [at EXCEPT ![r] = @ + 1]
            /\ got' = [got EXCEPT ![r] = @ + chunks[at[r] + 1].size]
            /\ sent' = [sent EXCEPT ![r] = @ + 1]
            /\ UNCHANGED rpc
  /\ UNCHANGED <<entryVars, serverVars, seen, running>>

(* The client is gone and write() says so (ECONNRESET): free_connection.   *)
WriteError(r) ==
  /\ running /\ rpc[r] = "send" /\ More(r)
  /\ rpc' = [rpc EXCEPT ![r] = "dropped"]
  /\ UNCHANGED <<entryVars, serverVars, at, got, seen, sent, running>>

(* The client is gone and write() raises SIGPIPE (EPIPE), which main does  *)
(* not ignore: the process ends.                                           *)
BrokenPipe(r) ==
  /\ running /\ rpc[r] = "send" /\ More(r)
  /\ running' = FALSE
  /\ rpc' = [rpc EXCEPT ![r] = "dropped"]
  /\ UNCHANGED <<entryVars, serverVars, at, got, seen, sent>>

(* Mutant of Finished: more than was expected must have been sent. *)
BadFinished(r) == got[r] > expected

(* check_if_done *)
Finished(r) == got[r] = expected

EndSend(r) ==
  /\ running /\ rpc[r] = "send" /\ ~ More(r)
  /\ rpc' = [rpc EXCEPT ![r] = IF Finished(r) THEN "finished" ELSE "queued"]
  /\ UNCHANGED <<entryVars, serverVars, at, got, seen, sent, running>>

-----------------------------------------------------------------------------
Server ==
  \/ BeginTurn \/ PutNoMemory \/ AppendChunk
  \/ \E n \in 1..BufSize : ReadSome(n)
  \/ \E next \in {"done", "gone"} : ReadEnd(next)
  \/ ServerDone \/ Publish \/ Broadcast

ClientTurn(r) ==
  \/ Look(r) \/ LookAgain(r) \/ Timeout(r)
  \/ SendChunk(r) \/ WriteError(r) \/ BrokenPipe(r) \/ EndSend(r)

Next ==
  \/ Server
  \/ \E r \in Reader : Join(r) \/ SpuriousWakeup(r) \/ ClientTurn(r)

SafeSpec == Init /\ [][Next]_vars

(* The worker threads give the server and every client that has joined one *)
(* turn after another, and no read() or write() blocks for ever.           *)
Spec ==
  /\ SafeSpec
  /\ WF_vars(Server)
  /\ \A r \in Reader : WF_vars(ClientTurn(r))

-----------------------------------------------------------------------------
End(i) == IF i = 0 THEN 0 ELSE chunks[i].from + chunks[i].size

Filling == spc = "read"
Reading(r) == rpc[r] \in {"queued", "waiting", "woken", "send"}

Chunk == [from : Nat, size : Nat]

TypeOK ==
  /\ length \in Lengths /\ expected \in Expectations
  /\ chunks \in Seq(Chunk) /\ ready \in Nat
  /\ resp \in 0..BufSize /\ fetched \in Nat
  /\ spc \in {"turn", "append", "read", "publish", "broadcast", "done", "gone"}
  /\ then \in {"turn", "append", "done", "gone"}
  /\ turn \in 0..ChunksToRead /\ batch \in Nat /\ news \in Nat
  /\ rpc \in [Reader -> {"absent", "queued", "waiting", "woken", "send",
                         "finished", "dropped", "panic", "short"}]
  /\ at \in [Reader -> Nat] /\ got \in [Reader -> Nat]
  /\ seen \in [Reader -> Nat] /\ sent \in [Reader -> 0..ChunksToRead]
  /\ running \in BOOLEAN

(* No reader is ever ahead of what was published: ready < read, the        *)
(* client's reason for a panic of the whole proxy, does not happen.        *)
NeverAhead == \A r \in Reader : got[r] <= ready /\ rpc[r] # "panic"

(* bytes_ready never promises a byte that is in no chunk, so a reader      *)
(* finds a chunk for every byte it has been promised.                      *)
ChunkForEveryByte == ready <= End(Len(chunks)) /\ \A r \in Reader : rpc[r] # "short"

(* bytes_ready stays between what any reader has sent and what the chunks  *)
(* hold, so neither the panic nor the error for a missing chunk occurs.    *)
ReadyBetween == NeverAhead /\ ChunkForEveryByte

(* The chunk a reader takes next is not the one read() is writing into,    *)
(* although neither of them holds a lock.                                  *)
NoTornRead ==
  \A r \in Reader : rpc[r] = "send" /\ More(r) => ~ (Filling /\ at[r] + 1 = Len(chunks))

(* What a reader has sent is the beginning of the response, each byte once *)
(* and in order: the next non-empty chunk continues where it stopped.      *)
Contiguous ==
  \A r \in Reader : Reading(r) =>
    /\ got[r] = End(at[r])
    /\ at[r] < Len(chunks) /\ chunks[at[r] + 1].size > 0 => chunks[at[r] + 1].from = got[r]

(* A reader that waits although there are new bytes is about to be woken:  *)
(* the broadcast outside lag_lock loses nobody.                            *)
NoLostWakeup ==
  \A r \in Reader : rpc[r] = "waiting" /\ got[r] < ready => spc = "broadcast"

(* Once all expected bytes are there, every client that reads the entry    *)
(* gets to its end, whatever became of the other clients and of the server *)
(* connection.                                                             *)
EveryReaderFinishes ==
  \A r \in Reader :
    (Reading(r) /\ ready = expected /\ spc \in {"done", "gone"}) ~> (~ running \/ ~ Reading(r))

(* "parallel download on client drop hadled trivially, by shutting only    *)
(* client connection down" (_proxy/README.md:8): a client that goes away   *)
(* ends its own session only.                                              *)
DropEndsOneSession == [][\A r \in Reader : rpc'[r] = "dropped" => running']_vars
=============================================================================
