------------------------------- MODULE Cache -------------------------------
(***************************************************************************)
(* The list of cache entries that all clients share: client_register looks *)
(* a host up hop by hop (cache_find), and after a miss checks for space    *)
(* without the lock (cache_garbage_check), collects under it               *)
(* (cache_garbage_collect), links a new entry under it (cache_put),        *)
(* registers as its reader and hands it to a server connection             *)
(* (_proxy/src/cache.c, client.c, server.c).                               *)
(*                                                                         *)
(* A client makes at most one entry, so an entry is named by the client    *)
(* that made it.  A step is one region under structural_lock or lag_lock,  *)
(* one iteration of the collector, or one unlocked read that decides what  *)
(* comes next.                                                             *)
(***************************************************************************)
EXTENDS Integers, Sequences, FiniteSetsExt, Functions

CONSTANTS
  Client,       \* the clients, and the entries they make
  Null,
  Host,         \* host names
  Takes,        \* <<h, g>>: mdata_is_equal(h, g), g begins with h
  Sizes,        \* what bytes_expected may be
  Threshold,    \* max_size_bytes * collect_threshold_percent / 100
  Threads       \* how many client_register calls run at a time

ASSUME CacheAssumption ==
  /\ Null \notin Client
  /\ \A h \in Host : <<h, h>> \in Takes
  /\ Sizes \subseteq Nat
  /\ Threshold \in Nat /\ Threads \in Nat

VARIABLES
  head, last, marked,   \* Cache
  total,                \* Cache.current_expected_bytes
  lock,                 \* who holds Cache.structural_lock
  next, readers, size,  \* an entry: next, readers_amount, bytes_expected
  request,              \* its mdata, the request of the client that made it
  host, pc,             \* a client: its host, its place in client_register
  pos, prev, found,     \* current, previous, marked_head
  new, entry,           \* newentry, Client_connection.entry
  registered,           \* is_registered
  running,              \* the process has not crashed
  puts, charged         \* history: the entries in the order they were linked,
                        \* and the clients whose put counted in total

cacheVars == <<head, last, marked, total, lock>>
entryVars == <<next, readers, size, request>>
walkVars == <<pos, prev, found>>
putVars == <<new, entry, registered>>
history == <<puts, charged>>
vars == <<cacheVars, entryVars, host, pc, walkVars, putVars, running, history>>

Entry == Client \cup {Null}
NoEntry == [c \in Client |-> Null]

Init ==
  /\ head = Null /\ last = Null /\ marked = Null
  /\ total = 0 /\ lock = Null
  /\ next = NoEntry /\ readers = [e \in Client |-> 0] /\ size = [e \in Client |-> 0]
  /\ request = [e \in Client |-> "alive"]
  /\ host \in [Client -> Host]
  /\ pc = [c \in Client |-> "start"]
  /\ pos = NoEntry /\ prev = NoEntry /\ found = NoEntry
  /\ new = NoEntry /\ entry = NoEntry
  /\ registered = [c \in Client |-> FALSE]
  /\ running = TRUE
  /\ puts = <<>> /\ charged = {}

Goto(c, place) == pc' = [pc EXCEPT ![c] = place]
At(c, place) == running /\ pc[c] = place

(* The client's thread is in client_register. *)
Registering(c) == pc[c] \notin {"start", "read", "proxy", "leave", "gone"}

-----------------------------------------------------------------------------
(* Mutant of Oldest: the lookup begins with the newest entry. *)
BadOldest == last

Oldest == head

(* cache_find reads c->head, without the lock. *)
Find(c) ==
  /\ At(c, "start")
  /\ Cardinality({d \in Client : Registering(d)}) < Threads
  /\ pos' = [pos EXCEPT ![c] = Oldest]
  /\ Goto(c, "find")
  /\ UNCHANGED <<cacheVars, entryVars, host, prev, found, putVars, running, history>>

(* mdata_is_equal *)
Same(c, e) == <<host[c], host[e]>> \in Takes

(* It may say anything of a request that has been freed. *)
SaysSame(c, e) == Same(c, e) \/ request[e] = "freed"
SaysOther(c, e) == ~ Same(c, e) \/ request[e] = "freed"

FindHit(c) ==
  /\ At(c, "find") /\ pos[c] # Null /\ SaysSame(c, pos[c])
  /\ entry' = [entry EXCEPT ![c] = pos[c]]
  /\ Goto(c, "read")
  /\ UNCHANGED <<cacheVars, entryVars, host, walkVars, new, registered, running, history>>

(* One hop: current = current->next, under the lock. *)
FindNext(c) ==
  /\ At(c, "find") /\ pos[c] # Null /\ SaysOther(c, pos[c])
  /\ lock = Null
  /\ pos' = [pos EXCEPT ![c] = next[pos[c]]]
  /\ UNCHANGED <<cacheVars, entryVars, host, pc, prev, found, putVars, running, history>>

FindMiss(c) ==
  /\ At(c, "find") /\ pos[c] = Null
  /\ Goto(c, "respond")
  /\ UNCHANGED <<cacheVars, entryVars, host, walkVars, putVars, running, history>>

(* No request, or no server: free_as_request_owner. *)
GiveUp(c) ==
  /\ running /\ pc[c] \in {"start", "respond"}
  /\ request' = [request EXCEPT ![c] = "freed"]
  /\ Goto(c, "gone")
  /\ UNCHANGED <<cacheVars, next, readers, size, host, walkVars, putVars, running, history>>

(* The response is not a 200: it is not cached. *)
RespondOther(c) ==
  /\ At(c, "respond")
  /\ Goto(c, "proxy")
  /\ UNCHANGED <<cacheVars, entryVars, host, walkVars, putVars, running, history>>

(* Mutant of InitialReaders: the entry itself does not count. *)
BadInitialReaders == 0

InitialReaders == 1

(* A 200 that promises n bytes.  cache_put calls centry_init, which has no *)
(* memory or makes the entry; cache_put goes on in either case.            *)
Respond(c, n, e) ==
  /\ At(c, "respond")
  /\ size' = [size EXCEPT ![c] = n]
  /\ new' = [new EXCEPT ![c] = e]
  /\ readers' = [readers EXCEPT ![c] = IF e = Null THEN 0 ELSE InitialReaders]
  /\ Goto(c, "check")
  /\ UNCHANGED <<cacheVars, next, request, host, walkVars, entry, registered, running, history>>

-----------------------------------------------------------------------------
NoSpace(c) == Threshold < total + size[c]

(* cache_garbage_check, without the lock; then cache_garbage_collect reads *)
(* c->head.                                                                *)
Check(c) ==
  /\ At(c, "check")
  /\ IF NoSpace(c)
       THEN /\ pos' = [pos EXCEPT ![c] = head]
            /\ prev' = [prev EXCEPT ![c] = Null]
            /\ found' = [found EXCEPT ![c] = Null]
            /\ Goto(c, "collect")
       ELSE Goto(c, "append") /\ UNCHANGED walkVars
  /\ UNCHANGED <<cacheVars, entryVars, host, putVars, running, history>>

Collect(c) ==
  /\ At(c, "collect") /\ lock = Null
  /\ lock' = c
  /\ Goto(c, "scan")
  /\ UNCHANGED <<head, last, marked, total, entryVars, host, walkVars, putVars, running, history>>

(* Mutant of Eligible: the initial count is taken to be no reader. *)
BadEligible(e) == readers[e] <= 1

(* is_eligible_to_collect *)
Eligible(e) == readers[e] = 0

(* The collector moves e to the marked ones: previous->next, which skips   *)
(* e, marked_last->next (marked_last never advances) and current->next, in *)
(* this order.  head and last stay.                                        *)
Unlinked(c, e) ==
  [d \in Client |-> CASE d = e        -> Null
                      [] d = found[c] -> e
                      [] d = prev[c]  -> next[e]
                      [] OTHER        -> next[d]]

(* An iteration of the collector; bytes_collected stays 0, so it goes      *)
(* through the whole list.                                                 *)
Scan(c) ==
  /\ At(c, "scan") /\ pos[c] # Null
  /\ LET e == pos[c] IN
       /\ pos' = [pos EXCEPT ![c] = next[e]]
       /\ IF Eligible(e)
            THEN /\ total' = total - size[e]
                 /\ next' = Unlinked(c, e)
                 /\ found' = [found EXCEPT ![c] = IF @ = Null THEN e ELSE @]
                 /\ UNCHANGED prev
            ELSE /\ prev' = [prev EXCEPT ![c] = e]
                 /\ UNCHANGED <<total, next, found>>
  /\ UNCHANGED <<head, last, marked, lock, readers, size, request, host, pc, putVars, running,
                 history>>

(* Mutant of Unlocked: the collector keeps the lock. *)
BadUnlocked(c) == c

Unlocked(c) == Null

ScanEnd(c) ==
  /\ At(c, "scan") /\ pos[c] = Null
  /\ lock' = Unlocked(c)
  /\ Goto(c, "recheck")
  /\ UNCHANGED <<head, last, marked, total, entryVars, host, walkVars, putVars, running, history>>

(* Mutant of AfterCollect: the result of the check is dropped. *)
BadAfterCollect(c) == "append"

AfterCollect(c) == IF NoSpace(c) THEN "nospace" ELSE "append"

(* The rest of cache_garbage_check, again without the lock. *)
Recheck(c) ==
  /\ At(c, "recheck")
  /\ marked' = found[c]
  /\ Goto(c, AfterCollect(c))
  /\ UNCHANGED <<head, last, total, lock, entryVars, host, walkVars, putVars, running, history>>

(* Mutant of Newest: c->last stays where it was. *)
BadNewest(c) == IF head = Null THEN new[c] ELSE last

Newest(c) == new[c]

Charge(c) == total + size[c]

(* cache_put links the entry, or the NULL it has for one, at the end; last *)
(* is dereferenced whenever head is not NULL.                              *)
Link(c) ==
  /\ At(c, "append") /\ lock = Null
  /\ IF head # Null /\ last = Null
       THEN running' = FALSE /\ UNCHANGED <<cacheVars, next, pc, history>>
       ELSE /\ head' = IF head = Null THEN new[c] ELSE head
            /\ next' = IF head = Null THEN next ELSE [next EXCEPT ![last] = new[c]]
            /\ last' = Newest(c)
            /\ total' = Charge(c)
            /\ puts' = IF new[c] = Null THEN puts ELSE Append(puts, c)
            /\ charged' = charged \cup {c}
            /\ Goto(c, "put")
            /\ UNCHANGED <<marked, lock, running>>
  /\ UNCHANGED <<readers, size, request, host, walkVars, putVars>>

(* cache_free_marked: with anything marked the loop runs until it follows  *)
(* the NULL at its end.  Then cache_put returns, with an entry or not.     *)
FreeMarked(c) ==
  /\ running /\ pc[c] \in {"put", "nospace"}
  /\ IF marked # Null
       THEN running' = FALSE /\ UNCHANGED <<pc, entry>>
       ELSE /\ IF pc[c] = "nospace" \/ new[c] = Null
                 THEN Goto(c, "proxy") /\ UNCHANGED entry
                 ELSE Goto(c, "register") /\ entry' = [entry EXCEPT ![c] = new[c]]
            /\ UNCHANGED running
  /\ UNCHANGED <<cacheVars, entryVars, host, walkVars, new, registered, history>>

-----------------------------------------------------------------------------
(* register_connection, under the entry's lag_lock. *)
Register(c) ==
  /\ At(c, "register")
  /\ readers' = [readers EXCEPT ![entry[c]] = @ + 1]
  /\ registered' = [registered EXCEPT ![c] = TRUE]
  /\ Goto(c, "spin")
  /\ UNCHANGED <<cacheVars, next, size, request, host, walkVars, new, entry, running, history>>

(* dispatcher_spin_server_reader queues the server connection ... *)
Spin(c) ==
  /\ At(c, "spin")
  /\ Goto(c, "read")
  /\ UNCHANGED <<cacheVars, entryVars, host, walkVars, putVars, running, history>>

(* ... or cannot: free_as_request_owner. *)
SpinFails(c) ==
  /\ At(c, "spin")
  /\ request' = [request EXCEPT ![c] = "freed"]
  /\ Goto(c, "leave")
  /\ UNCHANGED <<cacheVars, next, readers, size, host, walkVars, putVars, running, history>>

Counted(c) == registered[c]

(* free_connection: unregister_connection, under lag_lock. *)
Leave(c) ==
  /\ running /\ pc[c] \in {"read", "proxy", "leave"}
  /\ readers' = IF Counted(c) THEN [readers EXCEPT ![entry[c]] = @ - 1] ELSE readers
  /\ registered' = [registered EXCEPT ![c] = FALSE]
  /\ Goto(c, "gone")
  /\ UNCHANGED <<cacheVars, next, size, request, host, walkVars, new, entry, running, history>>

-----------------------------------------------------------------------------
(* The steps inside cache_find and cache_put. *)
InCache(c) ==
  \/ FindHit(c) \/ FindNext(c) \/ FindMiss(c)
  \/ Check(c) \/ Collect(c) \/ Scan(c) \/ ScanEnd(c) \/ Recheck(c)
  \/ Link(c) \/ FreeMarked(c)

Step(c) ==
  \/ Find(c) \/ InCache(c) \/ GiveUp(c) \/ RespondOther(c)
  \/ \E n \in Sizes, e \in {c, Null} : Respond(c, n, e)
  \/ Register(c) \/ Spin(c) \/ SpinFails(c) \/ Leave(c)

Next == \E c \in Client : Step(c)

SafeSpec == Init /\ [][Next]_vars

(* A thread inside the cache that can go on does; nothing is assumed of    *)
(* the order in which threads obtain the lock, or of the network.          *)
Spec ==
  /\ SafeSpec
  /\ \A c \in Client : WF_vars(InCache(c))

-----------------------------------------------------------------------------
TypeOK ==
  /\ head \in Entry /\ last \in Entry /\ marked \in Entry /\ lock \in Entry
  /\ total \in Nat
  /\ next \in [Client -> Entry] /\ readers \in [Client -> Nat] /\ size \in [Client -> Sizes \cup {0}]
  /\ request \in [Client -> {"alive", "freed"}]
  /\ host \in [Client -> Host]
  /\ pc \in [Client -> {"start", "find", "respond", "check", "collect", "scan", "recheck", "append",
                        "put", "nospace", "register", "spin", "read", "proxy", "leave", "gone"}]
  /\ pos \in [Client -> Entry] /\ prev \in [Client -> Entry] /\ found \in [Client -> Entry]
  /\ new \in [Client -> Entry] /\ entry \in [Client -> Entry]
  /\ registered \in [Client -> BOOLEAN]
  /\ running \in BOOLEAN
  /\ puts \in Seq(Client) /\ charged \in SUBSET Client

(* "head is oldest, kept by adding as last" (structs.h:83): the list is    *)
(* every entry that was ever linked, in the order of the links, whatever   *)
(* lookups and collections run meanwhile.                                  *)
ListInPutOrder ==
  /\ head = IF puts = <<>> THEN Null ELSE puts[1]
  /\ \A i \in 1..Len(puts) :
       next[puts[i]] = IF i = Len(puts) THEN Null ELSE puts[i + 1]
  /\ last # Null => puts # <<>> /\ last = puts[Len(puts)]

(* Nobody looks at an entry that is not in the list, or reads one that the *)
(* collector may take.                                                     *)
InUseIsLinked ==
  \A c \in Client :
    /\ pc[c] \in {"find", "scan"} /\ pos[c] # Null => pos[c] \in Range(puts)
    /\ pc[c] \in {"spin", "read"} => entry[c] \in Range(puts) /\ ~ Eligible(entry[c])

(* cache_free_marked and the hops never follow NULL: the process crashes   *)
(* only in cache_put, and only after an entry could not be allocated.      *)
OnlyLostTailCrashes ==
  ~ running => /\ \E c \in charged : new[c] = Null
               /\ head # Null /\ last = Null

(* The check and the link are not one step, but no more than Threads       *)
(* clients can be between them, and each of them fitted in alone.          *)
OverCommitBounded == total <= Threads * Threshold

(* All clients that hit an entry for a host hit the same, the oldest one   *)
(* that will do (as long as no cached request has been freed).             *)
HitsOldest ==
  (\A e \in Range(puts) : request[e] = "alive") =>
    \A c \in Client : entry[c] # Null /\ entry[c] # c =>
      \E i \in 1..Len(puts) :
        /\ puts[i] = entry[c] /\ Same(c, puts[i])
        /\ \A j \in 1..(i - 1) : ~ Same(c, puts[j])

(* A call of cache_find or cache_put returns, unless the process crashes:  *)
(* structural_lock is always given back and the list has an end.           *)
EveryCallReturns ==
  \A c \in Client :
    pc[c] \in {"find", "check", "collect", "scan", "recheck", "append", "put", "nospace"}
      ~> (~ running \/ pc[c] \in {"respond", "read", "proxy", "register"})
=============================================================================
