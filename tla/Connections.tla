----------------------------- MODULE Connections -----------------------------
(***************************************************************************)
(* The life of the proxy's connections (_proxy/src/client.c, server.c): a  *)
(* client's request is parsed and looked up; after a miss the client makes *)
(* a server connection, which either goes to a thread of its own body and  *)
(* a cache entry (Read) or stays with the client, who copies from it       *)
(* (Proxy); at the end the client frees itself and, when proxying, the     *)
(* server connection.                                                      *)
(*                                                                         *)
(* A client connection keeps its pointer to the server connection for its  *)
(* whole life, also when server_body has freed that.  malloc may hand the  *)
(* same memory to another client: a server connection is a block, and      *)
(* blocks are used again.  What becomes of an entry and its readers is     *)
(* CacheStream's; here a client that reads just takes turns.               *)
(*                                                                         *)
(* A step is what one thread does between two accesses to what others see: *)
(* a system call with the code up to the next.  A turn of server_body and  *)
(* a reading turn are one step.                                            *)
(***************************************************************************)
EXTENDS Naturals, Sequences, FiniteSets

CONSTANTS
  Client, Null,
  Block,         \* where malloc may place a Server_Connection
  Workers,       \* WORKERS_AMOUNT: turns at a time
  ChunksToRead,  \* CHUNKS_TO_READ
  MaxParts       \* bound: reads of a proxied response after its first part

ASSUME ConnectionsAssumption ==
  /\ Null \notin Block
  /\ ChunksToRead \in Nat \ {0}
  /\ MaxParts \in Nat

VARIABLES
  pc, state, ptr,   \* a client: its place, Client_connection.state and c
  block, buf,       \* Server_Connection.state, or "free", or "raw" (just
                    \* allocated); the number of the part in its buffer
  served,           \* the server connections that have been dispatched
  i, out,           \* client_proxy_n's i; the parts written to a client
  cached,           \* the cache has an entry
  running,          \* the process lives and its behaviour is defined
  maker, strayed    \* history: who made a server connection; a client has
                    \* destroyed one that another had made

serverVars == <<block, buf, served, maker>>
proxyVars == <<i, out>>
vars == <<pc, state, ptr, serverVars, proxyVars, cached, running, strayed>>

Unset == MaxParts + 1   \* buflen is still E_COMPARE

Init ==
  /\ pc = [c \in Client |-> "absent"]
  /\ state = [c \in Client |-> "Parse"] /\ ptr = [c \in Client |-> Null]
  /\ block = [a \in Block |-> "free"] /\ buf = [a \in Block |-> Unset]
  /\ served = {}
  /\ i = [c \in Client |-> 0] /\ out = [c \in Client |-> <<>>]
  /\ cached = FALSE /\ running = TRUE
  /\ maker = [a \in Block |-> Null] /\ strayed = FALSE

At(c, place) == running /\ pc[c] = place
Goto(c, place) == pc' = [pc EXCEPT ![c] = place]

InTurn == {c \in Client : pc[c] \notin {"absent", "queued", "gone"}}
WorkerFree == Cardinality(InTurn) < Workers

-----------------------------------------------------------------------------
(* init_connection, accept and the first dispatcher_put. *)
Accept(c) ==
  /\ At(c, "absent")
  /\ Goto(c, "queued")
  /\ UNCHANGED <<state, ptr, serverVars, proxyVars, cached, running, strayed>>

(* Mutant of BodyOf: a connection that is Done is put back, not freed. *)
BadBodyOf(s) ==
  CASE s = "Parse" -> "parse" [] s = "Read" -> "read" [] s = "Proxy" -> "rewrite" [] OTHER -> "queued"

(* The switch of client_body. *)
BodyOf(s) ==
  CASE s = "Parse" -> "parse" [] s = "Read" -> "read" [] s = "Proxy" -> "rewrite" [] s = "Done" -> "free"

TakeTurn(c) ==
  /\ At(c, "queued") /\ WorkerFree
  /\ Goto(c, BodyOf(state[c]))
  /\ UNCHANGED <<state, ptr, serverVars, proxyVars, cached, running, strayed>>

(* client_read_n, as far as it goes: another turn, or the end. *)
ReadTurn(c) ==
  /\ At(c, "read")
  /\ \E place \in {"queued", "free"} : Goto(c, place)
  /\ UNCHANGED <<state, ptr, serverVars, proxyVars, cached, running, strayed>>

-----------------------------------------------------------------------------
(* free_as_request_owner: the state is Done, client_body frees c. *)
Fail(c) ==
  /\ state' = [state EXCEPT ![c] = "Done"]
  /\ Goto(c, "free")

(* parse_into_request has a GET with a Host ... *)
Parsed(c) ==
  /\ At(c, "parse")
  /\ Goto(c, "find")
  /\ UNCHANGED <<state, ptr, serverVars, proxyVars, cached, running, strayed>>

(* ... or read() failed, the request is bad, too big or not a GET ... *)
ParseFails(c) ==
  /\ At(c, "parse")
  /\ Fail(c)
  /\ UNCHANGED <<ptr, serverVars, proxyVars, cached, running, strayed>>

(* ... or the peer, the client here or the server in                       *)
(* server_parse_into_response, has ended its output too early: read()      *)
(* returns 0, the parser says incomplete, and so on for ever.              *)
Spins(c) ==
  /\ running /\ pc[c] \in {"parse", "response"}
  /\ Goto(c, "spins")
  /\ UNCHANGED <<state, ptr, serverVars, proxyVars, cached, running, strayed>>

FindHit(c) ==
  /\ At(c, "find") /\ cached
  /\ state' = [state EXCEPT ![c] = "Read"]
  /\ Goto(c, "queued")
  /\ UNCHANGED <<ptr, serverVars, proxyVars, cached, running, strayed>>

(* server_init_connection: malloc, which clears nothing. *)
FindMiss(c, a) ==
  /\ At(c, "find") /\ block[a] = "free"
  /\ block' = [block EXCEPT ![a] = "raw"]
  /\ maker' = [maker EXCEPT ![a] = c]
  /\ ptr' = [ptr EXCEPT ![c] = a]
  /\ Goto(c, "connect")
  /\ UNCHANGED <<state, buf, served, proxyVars, cached, running, strayed>>

(* server_connect found the host and connected ... *)
Connected(c) ==
  /\ At(c, "connect")
  /\ block' = [block EXCEPT ![ptr[c]] = "Parse"]
  /\ buf' = [buf EXCEPT ![ptr[c]] = Unset]
  /\ Goto(c, "send")
  /\ UNCHANGED <<state, ptr, served, maker, proxyVars, cached, running, strayed>>

(* ... or did not. *)
ConnectFails(c) ==
  /\ At(c, "connect")
  /\ block' = [block EXCEPT ![ptr[c]] = "free"]
  /\ ptr' = [ptr EXCEPT ![c] = Null]
  /\ Fail(c)
  /\ UNCHANGED <<buf, served, maker, proxyVars, cached, running, strayed>>

Sent(c) ==
  /\ At(c, "send")
  /\ Goto(c, "response")
  /\ UNCHANGED <<state, ptr, serverVars, proxyVars, cached, running, strayed>>

(* server_send_request failed: nobody will free the server connection. *)
SendFails(c) ==
  /\ At(c, "send")
  /\ Fail(c)
  /\ UNCHANGED <<ptr, serverVars, proxyVars, cached, running, strayed>>

(* Mutant of ChooseProxy: the connection is dispatched before the client   *)
(* finds that it has to proxy.                                             *)
BadChooseProxy(c, b) ==
  /\ At(c, "response")
  /\ buf' = [buf EXCEPT ![ptr[c]] = b]
  /\ block' = [block EXCEPT ![ptr[c]] = "Proxy"]
  /\ state' = [state EXCEPT ![c] = "Proxy"]
  /\ served' = served \cup {ptr[c]}
  /\ Goto(c, "queued")
  /\ UNCHANGED <<ptr, maker, proxyVars, cached, running, strayed>>

(* server_parse_into_response has left part b in the buffer: the first, or *)
(* nothing if its first read() failed.  Its result is not looked at, so    *)
(* status may be anything: choose_read_or_proxy proxies ...                *)
ChooseProxy(c, b) ==
  /\ At(c, "response")
  /\ buf' = [buf EXCEPT ![ptr[c]] = b]
  /\ block' = [block EXCEPT ![ptr[c]] = "Proxy"]
  /\ state' = [state EXCEPT ![c] = "Proxy"]
  /\ Goto(c, "queued")
  /\ UNCHANGED <<ptr, served, maker, proxyVars, cached, running, strayed>>

(* ... or caches ... *)
ChooseRead(c, b) ==
  /\ At(c, "response")
  /\ buf' = [buf EXCEPT ![ptr[c]] = b]
  /\ block' = [block EXCEPT ![ptr[c]] = "Read"]
  /\ state' = [state EXCEPT ![c] = "Read"]
  /\ cached' = TRUE
  /\ Goto(c, "spin")
  /\ UNCHANGED <<ptr, served, maker, proxyVars, running, strayed>>

(* ... or finds no space in the cache and gives centry_destroy a mime that *)
(* was never assigned, as there was no Content-Type.                       *)
ChooseCrashes(c) ==
  /\ At(c, "response")
  /\ running' = FALSE
  /\ UNCHANGED <<pc, state, ptr, serverVars, proxyVars, cached, strayed>>

(* dispatcher_spin_server_reader: from now on server_body owns it ... *)
Spun(c) ==
  /\ At(c, "spin")
  /\ served' = served \cup {ptr[c]}
  /\ Goto(c, "queued")
  /\ UNCHANGED <<state, ptr, block, buf, maker, proxyVars, cached, running, strayed>>

(* ... or nobody does. *)
SpinFails(c) ==
  /\ At(c, "spin")
  /\ Fail(c)
  /\ UNCHANGED <<ptr, serverVars, proxyVars, cached, running, strayed>>

-----------------------------------------------------------------------------
(* server_body reads, until the response ends (Done) or fails; it destroys *)
(* the connection.  Turns that only read are not seen here.                *)
ServerTurn(a) ==
  /\ running /\ a \in served /\ WorkerFree
  /\ \/ /\ block[a] = "Read" /\ buf[a] # Unset
        /\ block' = [block EXCEPT ![a] = "Done"]
        /\ UNCHANGED served
     \/ /\ (block[a] = "Read" /\ buf[a] # Unset) \/ block[a] = "Done"
        /\ block' = [block EXCEPT ![a] = "free"]
        /\ served' = served \ {a}
  /\ UNCHANGED <<pc, state, ptr, buf, maker, proxyVars, cached, running, strayed>>

(* centry_put copies E_COMPARE bytes. *)
ServerCrashes(a) ==
  /\ running /\ a \in served /\ WorkerFree
  /\ block[a] = "Read" /\ buf[a] = Unset
  /\ running' = FALSE
  /\ UNCHANGED <<pc, state, ptr, serverVars, proxyVars, cached, strayed>>

-----------------------------------------------------------------------------
(* The proxying client has its server connection and something in its      *)
(* buffer; proxying without is undefined behaviour and ends the model.     *)
Sound(c) == block[ptr[c]] = "Proxy" /\ maker[ptr[c]] = c /\ buf[ptr[c]] # Unset

ProxyCrashes(c) ==
  /\ running /\ pc[c] \in {"rewrite", "fetch", "write"} /\ ~ Sound(c)
  /\ running' = FALSE
  /\ UNCHANGED <<pc, state, ptr, serverVars, proxyVars, cached, strayed>>

(* Mutant of Rewritten: the turn does not begin with a write. *)
BadRewritten(c) == out[c]

Rewritten(c) == Append(out[c], buf[ptr[c]])

(* client_proxy_n: what is in the buffer is written first, whether or not  *)
(* an earlier turn has written it.                                         *)
Rewrite(c) ==
  /\ At(c, "rewrite") /\ Sound(c)
  /\ out' = [out EXCEPT ![c] = Rewritten(c)]
  /\ i' = [i EXCEPT ![c] = 0]
  /\ Goto(c, "fetch")
  /\ UNCHANGED <<state, ptr, serverVars, cached, running, strayed>>

(* proxy_read: the next part, the end, or an error. *)
Fetch(c) ==
  /\ At(c, "fetch") /\ Sound(c) /\ buf[ptr[c]] < MaxParts
  /\ buf' = [buf EXCEPT ![ptr[c]] = @ + 1]
  /\ Goto(c, "write")
  /\ UNCHANGED <<state, ptr, block, served, maker, proxyVars, cached, running, strayed>>

FetchEnd(c) ==
  /\ At(c, "fetch") /\ Sound(c)
  /\ state' = [state EXCEPT ![c] = "Done"]
  /\ Goto(c, "queued")
  /\ UNCHANGED <<ptr, serverVars, proxyVars, cached, running, strayed>>

FetchFails(c) ==
  /\ At(c, "fetch") /\ Sound(c)
  /\ Goto(c, "free")
  /\ UNCHANGED <<state, ptr, serverVars, proxyVars, cached, running, strayed>>

(* proxy_write; after CHUNKS_TO_READ of them the turn is over. *)
Write(c) ==
  /\ At(c, "write") /\ Sound(c)
  /\ out' = [out EXCEPT ![c] = Append(@, buf[ptr[c]])]
  /\ i' = [i EXCEPT ![c] = @ + 1]
  /\ Goto(c, IF i[c] + 1 = ChunksToRead THEN "queued" ELSE "fetch")
  /\ UNCHANGED <<state, ptr, serverVars, cached, running, strayed>>

(* write() fails, or raises SIGPIPE, which ends the process. *)
WriteFails(c) ==
  /\ running /\ pc[c] \in {"rewrite", "write"} /\ Sound(c)
  /\ \/ Goto(c, "free") /\ UNCHANGED running
     \/ running' = FALSE /\ UNCHANGED pc
  /\ UNCHANGED <<state, ptr, serverVars, proxyVars, cached, strayed>>

-----------------------------------------------------------------------------
(* Mutant of OwnsIt: only a connection that is Done is destroyed. *)
BadOwnsIt(s) == s = "Done"

(* What free_connection takes for a server connection of its own. *)
OwnsIt(s) == s = "Proxy"

(* free_connection of a client without a server connection, or with one it *)
(* leaves alone.  Memory that has been freed, or just been allocated, may  *)
(* hold any state.                                                         *)
FreeAlone(c) ==
  /\ At(c, "free")
  /\ ptr[c] # Null => ~ OwnsIt(block[ptr[c]])
  /\ Goto(c, "gone")
  /\ UNCHANGED <<state, ptr, serverVars, proxyVars, cached, running, strayed>>

(* The same with server_destroy_connection. *)
FreeBoth(c) ==
  /\ At(c, "free") /\ ptr[c] # Null /\ OwnsIt(block[ptr[c]])
  /\ block' = [block EXCEPT ![ptr[c]] = "free"]
  /\ strayed' = (strayed \/ maker[ptr[c]] # c)
  /\ Goto(c, "gone")
  /\ UNCHANGED <<state, ptr, buf, served, maker, proxyVars, cached, running>>

(* Such memory says Proxy: freed twice. *)
FreeTwice(c) ==
  /\ At(c, "free") /\ ptr[c] # Null /\ block[ptr[c]] \in {"free", "raw"}
  /\ running' = FALSE
  /\ UNCHANGED <<pc, state, ptr, serverVars, proxyVars, cached, strayed>>

-----------------------------------------------------------------------------
(* The rest of a turn that has begun. *)
Turn(c) ==
  \/ ReadTurn(c) \/ Parsed(c) \/ ParseFails(c) \/ Spins(c)
  \/ FindHit(c) \/ (\E a \in Block : FindMiss(c, a))
  \/ Connected(c) \/ ConnectFails(c) \/ Sent(c) \/ SendFails(c)
  \/ (\E b \in {0, Unset} : ChooseProxy(c, b) \/ ChooseRead(c, b))
  \/ ChooseCrashes(c) \/ Spun(c) \/ SpinFails(c)
  \/ ProxyCrashes(c) \/ Rewrite(c) \/ Fetch(c) \/ FetchEnd(c) \/ FetchFails(c)
  \/ Write(c) \/ WriteFails(c) \/ FreeAlone(c) \/ FreeBoth(c) \/ FreeTwice(c)

Server(a) == ServerTurn(a) \/ ServerCrashes(a)

Next ==
  \/ \E c \in Client : Accept(c) \/ TakeTurn(c) \/ Turn(c)
  \/ \E a \in Block : Server(a)

SafeSpec == Init /\ [][Next]_vars

(* A turn that can go on does, so no system call blocks for ever; whoever  *)
(* is queued gets a worker if workers come free again and again, which is  *)
(* what Dispatcher's EveryConnectionServed says; responses end.            *)
Spec ==
  /\ SafeSpec
  /\ \A c \in Client : WF_vars(Turn(c)) /\ SF_vars(TakeTurn(c))
  /\ \A a \in Block : SF_vars(Server(a))

-----------------------------------------------------------------------------
TypeOK ==
  /\ pc \in [Client -> {"absent", "queued", "parse", "find", "connect", "send", "response", "spin",
                        "read", "rewrite", "fetch", "write", "free", "spins", "gone"}]
  /\ state \in [Client -> {"Parse", "Read", "Proxy", "Done"}]
  /\ ptr \in [Client -> Block \cup {Null}]
  /\ block \in [Block -> {"free", "raw", "Parse", "Read", "Proxy", "Done"}]
  /\ buf \in [Block -> 0..Unset]
  /\ served \subseteq Block
  /\ i \in [Client -> 0..ChunksToRead] /\ out \in [Client -> Seq(0..MaxParts)]
  /\ cached \in BOOLEAN /\ running \in BOOLEAN /\ strayed \in BOOLEAN
  /\ maker \in [Block -> Client \cup {Null}]

Holds(c, s) == ptr[c] \in Block \ served /\ block[ptr[c]] = s /\ maker[ptr[c]] = c

(* Until a client follows its old pointer into memory that has become      *)
(* another's, a client that proxies has a live server connection for       *)
(* itself: it made it, no server_body has it, no other client proxies it.  *)
ProxyOwner ==
  ~ strayed => \A c \in Client : state[c] = "Proxy" /\ pc[c] # "gone" => Holds(c, "Proxy")

(* A server connection is dispatched, or the client that made it is still  *)
(* there to free it.  The only ones nobody will ever close are those whose *)
(* request could not be sent (Parse) or that could not be dispatched       *)
(* (Read).                                                                 *)
Orphan(a) ==
  /\ block[a] # "free" /\ a \notin served
  /\ ~ \E c \in Client : ptr[c] = a /\ maker[a] = c /\ pc[c] # "gone"

OnlyFailuresLeak == \A a \in Block : Orphan(a) => block[a] \in {"Parse", "Read"}

(* A proxied client gets every part in order, and those that end a full    *)
(* turn twice: a turn begins with what the last one ended with.            *)
PartsInOrder ==
  \A c \in Client : \A n \in 1..Len(out[c]) :
    out[c][n] = ((n - 1) \div (ChunksToRead + 1)) * ChunksToRead + ((n - 1) % (ChunksToRead + 1))

Spinning == {c \in Client : pc[c] = "spins"}

(* A session ends, or is one of those that read the cache (CacheStream) or *)
(* wait for the end of an input for ever, or as many as there are workers  *)
(* wait like that: two clients that hang up early stop the proxy.          *)
EverySessionEnds ==
  \A c \in Client :
    pc[c] = "queued" /\ state[c] # "Read" ~>
      \/ ~ running \/ pc[c] \in {"gone", "spins"} \/ state[c] = "Read"
      \/ Cardinality(Spinning) = Workers

(* "by shutting only client connection down on client drop"                *)
(* (_proxy/README.md:8): a client that ends destroys no server connection  *)
(* but its own.                                                            *)
EndsOnlyItsOwn ==
  [][\A c \in Client, a \in Block :
       pc[c] = "free" /\ pc'[c] = "gone" /\ block[a] # "free" /\ block'[a] = "free" => maker[a] = c]_vars
=============================================================================
