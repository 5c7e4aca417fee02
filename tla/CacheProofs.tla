---------------------------- MODULE CacheProofs ----------------------------
(***************************************************************************)
(* For any clients, hosts, sizes and threads: the list of cache entries    *)
(* keeps every entry in the order of the puts, because the counts of       *)
(* cache.c and client.c never let an entry become eligible for collection; *)
(* lookups stay on the list and agree on the oldest entry for a host, and  *)
(* the unlocked check lets total reach at most Threads * Threshold.        *)
(***************************************************************************)
EXTENDS Cache, SequenceTheorems, FiniteSetTheorems, TLAPS

InList(e) == \E i \in 1..Len(puts) : puts[i] = e

(* An entry is linked once, by the client that made it.                    *)
PutsOnce ==
  /\ \A i, j \in 1..Len(puts) : puts[i] = puts[j] => i = j
  /\ \A i \in 1..Len(puts) :
       /\ new[puts[i]] = puts[i]
       /\ pc[puts[i]] \in {"put", "register", "spin", "read", "leave", "gone"}
  /\ \A e \in Client : next[e] # Null => InList(e)

(* readers_amount: one for the entry itself, one more for its maker while  *)
(* that is registered; who hits the entry is never counted.                *)
Counts ==
  \A c \in Client :
    /\ new[c] \in {Null, c}
    /\ readers[c] = IF new[c] = Null THEN 0 ELSE IF registered[c] THEN 2 ELSE 1
    /\ registered[c] => entry[c] = c /\ new[c] = c /\ pc[c] \in {"spin", "read", "leave"}
    /\ pc[c] \in {"start", "find", "respond"} => new[c] = Null

(* The collector finds nothing. *)
Unmarked == marked = Null /\ \A c \in Client : found[c] = Null

Positions ==
  \A c \in Client :
    /\ pc[c] \in {"find", "collect", "scan"} /\ pos[c] # Null => InList(pos[c])
    /\ pc[c] = "put" /\ new[c] # Null => InList(c)
    /\ pc[c] = "register" => entry[c] = c /\ new[c] = c
    /\ pc[c] \in {"spin", "read"} => entry[c] # Null
    /\ entry[c] # Null => InList(entry[c])

(* last is lost only with an entry that was not allocated. *)
LostTail ==
  /\ ~ running => head # Null /\ last = Null
  /\ head # Null /\ last = Null => \E c \in charged : new[c] = Null
  /\ \A c \in charged : pc[c] \in {"put", "register", "spin", "read", "leave", "proxy", "gone"}

AllKept == \A i \in 1..Len(puts) : request[puts[i]] = "alive"

(* What a lookup has passed was not what it looks for. *)
OldestFor(c, e) ==
  \E i \in 1..Len(puts) : puts[i] = e /\ \A j \in 1..(i - 1) : ~ Same(c, puts[j])

Lookups ==
  AllKept => \A c \in Client :
    /\ pc[c] = "find" /\ pos[c] # Null => OldestFor(c, pos[c])
    /\ entry[c] # Null /\ entry[c] # c => OldestFor(c, entry[c]) /\ Same(c, entry[c])

IInv == TypeOK /\ ListInPutOrder /\ PutsOnce /\ Counts /\ Unmarked /\ Positions /\ LostTail /\ Lookups

-----------------------------------------------------------------------------
(* Range(puts) is what the list holds. *)
LEMMA RangeOfPuts ==
  ASSUME TypeOK, NEW e
  PROVE  e \in Range(puts) <=> InList(e)
BY DEF Range, InList, TypeOK

(* An entry in the list has a reader, so it is not collected. *)
LEMMA ListedHasReader ==
  ASSUME IInv, NEW e, InList(e)
  PROVE  e \in Client /\ ~ Eligible(e)
<1>1. PICK i \in 1..Len(puts) : puts[i] = e
  BY DEF InList
<1>2. e \in Client /\ new[e] = e
  BY <1>1 DEF IInv, PutsOnce, TypeOK
<1>3. e # Null
  BY <1>2, CacheAssumption DEF CacheAssumption
<1> QED BY <1>2, <1>3 DEF IInv, Counts, Eligible

(* The invariant implies the properties. *)
LEMMA IInvImplies ==
  ASSUME IInv
  PROVE  ListInPutOrder /\ InUseIsLinked /\ OnlyLostTailCrashes /\ HitsOldest
<1> USE DEF IInv
<1>1. InUseIsLinked
  BY RangeOfPuts, ListedHasReader DEF InUseIsLinked, Positions
<1>2. OnlyLostTailCrashes
  BY DEF OnlyLostTailCrashes, LostTail
<1>3. HitsOldest
  <2> SUFFICES ASSUME \A e \in Range(puts) : request[e] = "alive",
                      NEW c \in Client, entry[c] # Null, entry[c] # c
               PROVE  \E i \in 1..Len(puts) :
                        /\ puts[i] = entry[c] /\ Same(c, puts[i])
                        /\ \A j \in 1..(i - 1) : ~ Same(c, puts[j])
    BY DEF HitsOldest
  <2>1. AllKept
    BY RangeOfPuts DEF AllKept, InList
  <2>2. OldestFor(c, entry[c]) /\ Same(c, entry[c])
    BY <2>1 DEF Lookups
  <2> QED BY <2>2 DEF OldestFor
<1> QED BY <1>1, <1>2, <1>3

(* The initial states satisfy the invariant. *)
LEMMA InitIInv == Init => IInv
<1> SUFFICES ASSUME Init PROVE IInv
  OBVIOUS
<1> USE DEF Init, NoEntry
<1>1. TypeOK
  BY DEF TypeOK, Entry
<1>2. puts = <<>> /\ Len(puts) = 0
  OBVIOUS
<1>3. ListInPutOrder /\ PutsOnce /\ Unmarked /\ Positions
  BY <1>2 DEF ListInPutOrder, PutsOnce, Unmarked, Positions
<1>4. Counts /\ LostTail
  BY DEF Counts, LostTail
<1>5. Lookups
  BY DEF Lookups
<1> QED BY <1>1, <1>3, <1>4, <1>5 DEF IInv

-----------------------------------------------------------------------------
(* A step that links nothing leaves the list as it is: what is left to     *)
(* show is about the client c that takes it.                               *)
LEMMA Frame ==
  ASSUME IInv, NEW c \in Client, TypeOK',
         UNCHANGED <<head, last, next, host, puts, charged>>,
         marked' = Null, found'[c] = Null,
         ~ running' => head # Null /\ last = Null,
         \A d \in Client \ {c} :
           /\ pc'[d] = pc[d] /\ pos'[d] = pos[d] /\ found'[d] = found[d]
           /\ new'[d] = new[d] /\ entry'[d] = entry[d] /\ registered'[d] = registered[d]
           /\ readers'[d] = readers[d] /\ request'[d] = request[d],
         request'[c] = "alive" => request[c] = "alive",
         new'[c] # new[c] => c \notin charged /\ ~ InList(c),
         InList(c) => pc'[c] \in {"put", "register", "spin", "read", "leave", "gone"},
         c \in charged => pc'[c] \in {"put", "register", "spin", "read", "leave", "proxy", "gone"},
         new'[c] \in {Null, c},
         readers'[c] = IF new'[c] = Null THEN 0 ELSE IF registered'[c] THEN 2 ELSE 1,
         registered'[c] => entry'[c] = c /\ new'[c] = c /\ pc'[c] \in {"spin", "read", "leave"},
         pc'[c] \in {"start", "find", "respond"} => new'[c] = Null,
         pc'[c] \in {"find", "collect", "scan"} /\ pos'[c] # Null => InList(pos'[c]),
         pc'[c] = "put" /\ new'[c] # Null => InList(c),
         pc'[c] = "register" => entry'[c] = c /\ new'[c] = c,
         pc'[c] \in {"spin", "read"} => entry'[c] # Null,
         entry'[c] # Null => InList(entry'[c]),
         AllKept =>
           /\ pc'[c] = "find" /\ pos'[c] # Null => OldestFor(c, pos'[c])
           /\ entry'[c] # Null /\ entry'[c] # c => OldestFor(c, entry'[c]) /\ Same(c, entry'[c])
  PROVE  IInv'
<1> USE DEF IInv
<1>1. ListInPutOrder'
  BY DEF ListInPutOrder
<1>2. PutsOnce'
  <2>1. \A i \in 1..Len(puts) : puts[i] \in Client
    BY DEF TypeOK
  <2>2. ASSUME NEW i \in 1..Len(puts)
        PROVE  /\ new'[puts[i]] = puts[i]
               /\ pc'[puts[i]] \in {"put", "register", "spin", "read", "leave", "gone"}
    <3>1. CASE puts[i] = c
      BY <3>1 DEF PutsOnce, InList
    <3>2. CASE puts[i] # c
      BY <3>2, <2>1 DEF PutsOnce
    <3> QED BY <3>1, <3>2
  <2> QED BY <2>2 DEF PutsOnce, InList
<1>3. Counts'
  <2> SUFFICES ASSUME NEW d \in Client
               PROVE  /\ new'[d] \in {Null, d}
                      /\ readers'[d] = IF new'[d] = Null THEN 0 ELSE IF registered'[d] THEN 2 ELSE 1
                      /\ registered'[d] => entry'[d] = d /\ new'[d] = d /\ pc'[d] \in {"spin", "read", "leave"}
                      /\ pc'[d] \in {"start", "find", "respond"} => new'[d] = Null
    BY DEF Counts
  <2>1. CASE d = c
    BY <2>1
  <2>2. CASE d # c
    BY <2>2 DEF Counts
  <2> QED BY <2>1, <2>2
<1>4. Unmarked'
  BY DEF Unmarked
<1>5. Positions'
  <2> SUFFICES ASSUME NEW d \in Client
               PROVE  /\ pc'[d] \in {"find", "collect", "scan"} /\ pos'[d] # Null => InList(pos'[d])
                      /\ pc'[d] = "put" /\ new'[d] # Null => InList(d)
                      /\ pc'[d] = "register" => entry'[d] = d /\ new'[d] = d
                      /\ pc'[d] \in {"spin", "read"} => entry'[d] # Null
                      /\ entry'[d] # Null => InList(entry'[d])
    BY DEF Positions, InList
  <2>1. CASE d = c
    BY <2>1
  <2>2. CASE d # c
    BY <2>2 DEF Positions
  <2> QED BY <2>1, <2>2
<1>6. LostTail'
  <2>1. \A d \in charged : d \in Client
    BY DEF TypeOK
  <2>2. \A d \in charged : new'[d] = new[d]
    BY <2>1
  <2>3. \A d \in charged : pc'[d] \in {"put", "register", "spin", "read", "leave", "proxy", "gone"}
    BY <2>1 DEF LostTail
  <2> QED BY <2>2, <2>3 DEF LostTail
<1>7. Lookups'
  <2> SUFFICES ASSUME AllKept', NEW d \in Client
               PROVE  /\ pc'[d] = "find" /\ pos'[d] # Null => OldestFor(d, pos'[d])
                      /\ entry'[d] # Null /\ entry'[d] # d => OldestFor(d, entry'[d]) /\ Same(d, entry'[d])
    BY DEF Lookups, OldestFor, Same
  <2>1. AllKept
    <3> SUFFICES ASSUME NEW i \in 1..Len(puts) PROVE request[puts[i]] = "alive"
      BY DEF AllKept
    <3>1. request'[puts[i]] = "alive"
      BY DEF AllKept
    <3>2. puts[i] \in Client
      BY DEF TypeOK
    <3>3. CASE puts[i] = c
      BY <3>1, <3>3
    <3>4. CASE puts[i] # c
      <4>1. request'[puts[i]] = request[puts[i]]
        BY <3>2, <3>4
      <4> QED BY ONLY <3>1, <4>1
    <3> QED BY ONLY <3>3, <3>4
  <2>2. CASE d = c
    BY <2>1, <2>2
  <2>3. CASE d # c
    BY <2>1, <2>3 DEF Lookups
  <2> QED BY <2>2, <2>3
<1> QED BY <1>1, <1>2, <1>3, <1>4, <1>5, <1>6, <1>7
(* Before its cache_put has linked it, a client's entry is not in the list. *)
LEMMA NotYetListed ==
  ASSUME IInv, NEW c \in Client
  PROVE  /\ InList(c) => new[c] = c /\ pc[c] \in {"put", "register", "spin", "read", "leave", "gone"}
         /\ c \in charged => pc[c] \in {"put", "register", "spin", "read", "leave", "proxy", "gone"}
BY DEF IInv, PutsOnce, LostTail, InList

-----------------------------------------------------------------------------
(* The steps of cache_find. *)
LEMMA FindIInv ==
  ASSUME IInv, NEW c \in Client, Find(c) \/ FindNext(c)
  PROVE  IInv'
<1> DEFINE e == IF pc[c] = "start" THEN head ELSE next[pos[c]]
<1> USE DEF IInv
<1>1. /\ pos' = [pos EXCEPT ![c] = e] /\ pc' = [pc EXCEPT ![c] = "find"]
      /\ pc[c] \in {"start", "find"} /\ (pc[c] = "find" => pos[c] # Null /\ SaysOther(c, pos[c]))
      /\ UNCHANGED <<head, last, marked, total, lock, next, readers, size, request, host, prev, found,
                     new, entry, registered, running, puts, charged>>
  BY DEF Find, FindNext, Oldest, Goto, At, cacheVars, entryVars, putVars, history, TypeOK
<1>2. \A i \in 1..Len(puts) : puts[i] \in Client
  BY DEF TypeOK
<1>3. e # Null => InList(e) /\ (AllKept => OldestFor(c, e))
  <2> SUFFICES ASSUME e # Null PROVE InList(e) /\ (AllKept => OldestFor(c, e))
    OBVIOUS
  <2>1. CASE pc[c] = "start"
    <3>1. puts # <<>> /\ e = puts[1] /\ 1 \in 1..Len(puts)
      BY <2>1 DEF ListInPutOrder, TypeOK
    <3>2. \A j \in 1..(1 - 1) : FALSE
      OBVIOUS
    <3> QED BY <3>1, <3>2 DEF InList, OldestFor
  <2>2. CASE pc[c] = "find"
    <3> DEFINE NotBefore(i) == AllKept => \A j \in 1..(i - 1) : ~ Same(c, puts[j])
    <3>1. PICK i \in 1..Len(puts) : puts[i] = pos[c] /\ NotBefore(i)
      <4>1. CASE AllKept
        BY <1>1, <2>2, <4>1 DEF Lookups, OldestFor
      <4>2. CASE ~ AllKept
        BY <1>1, <2>2, <4>2 DEF Positions, InList
      <4> QED BY <4>1, <4>2
    <3>2. i + 1 \in 1..Len(puts) /\ e = puts[i + 1]
      BY <1>1, <2>2, <3>1 DEF ListInPutOrder, TypeOK
    <3>3. AllKept => ~ Same(c, puts[i])
      BY <1>1, <2>2, <3>1 DEF AllKept, SaysOther
    <3>4. \A j \in 1..(i + 1 - 1) : j \in 1..(i - 1) \/ j = i
      BY <3>1
    <3> QED BY <3>1, <3>2, <3>3, <3>4 DEF InList, OldestFor
  <2> QED BY <1>1, <2>1, <2>2
<1>4. TypeOK'
  <2>1. e \in Entry
    BY <1>1 DEF TypeOK, Entry
  <2> QED BY <1>1, <2>1 DEF TypeOK
<1>5. /\ pc'[c] = "find" /\ pos'[c] = e
      /\ \A d \in Client \ {c} : pc'[d] = pc[d] /\ pos'[d] = pos[d]
  BY <1>1 DEF TypeOK
<1>6. c \notin charged /\ ~ InList(c) /\ new[c] = Null /\ ~ registered[c] /\ readers[c] = 0
  BY <1>1, NotYetListed DEF Counts
<1>7. /\ marked = Null /\ found[c] = Null /\ (~ running => head # Null /\ last = Null)
      /\ (entry[c] # Null => InList(entry[c]))
      /\ (AllKept /\ entry[c] # Null /\ entry[c] # c
           => OldestFor(c, entry[c]) /\ Same(c, entry[c]))
  BY DEF Unmarked, LostTail, Positions, Lookups
<1> QED BY <1>1, <1>3, <1>4, <1>5, <1>6, <1>7, Frame

(* A hit is on the list, and the oldest that will do. *)
LEMMA FindHitIInv ==
  ASSUME IInv, NEW c \in Client, FindHit(c)
  PROVE  IInv'
<1> USE DEF IInv
<1>1. /\ entry' = [entry EXCEPT ![c] = pos[c]] /\ pc' = [pc EXCEPT ![c] = "read"]
      /\ pc[c] = "find" /\ pos[c] # Null /\ SaysSame(c, pos[c])
      /\ UNCHANGED <<head, last, marked, total, lock, next, readers, size, request, host, pos, prev, found,
                     new, registered, running, puts, charged>>
  BY DEF FindHit, Goto, At, cacheVars, entryVars, walkVars, history
<1>2. InList(pos[c]) /\ (AllKept => OldestFor(c, pos[c]) /\ Same(c, pos[c]))
  <2>1. InList(pos[c])
    BY <1>1 DEF Positions
  <2>2. AllKept => OldestFor(c, pos[c])
    BY <1>1 DEF Lookups
  <2>3. AllKept => Same(c, pos[c])
    BY <1>1, <2>1 DEF SaysSame, AllKept, InList
  <2> QED BY <2>1, <2>2, <2>3
<1>3. TypeOK'
  BY <1>1 DEF TypeOK
<1>4. /\ pc'[c] = "read" /\ entry'[c] = pos[c]
      /\ \A d \in Client \ {c} : pc'[d] = pc[d] /\ entry'[d] = entry[d]
  BY <1>1 DEF TypeOK
<1>5. c \notin charged /\ ~ InList(c) /\ new[c] = Null /\ ~ registered[c] /\ readers[c] = 0
  BY <1>1, NotYetListed DEF Counts
<1>6. /\ marked = Null /\ found[c] = Null /\ (~ running => head # Null /\ last = Null)
  BY DEF Unmarked, LostTail
<1> QED BY <1>1, <1>2, <1>3, <1>4, <1>5, <1>6, Frame

-----------------------------------------------------------------------------
(* Steps that change a client's place and nothing of the list. *)
LEMMA MoveIInv ==
  ASSUME IInv, NEW c \in Client, FindMiss(c) \/ RespondOther(c) \/ GiveUp(c) \/ Spin(c) \/ SpinFails(c)
  PROVE  IInv'
<1> USE DEF IInv
<1>1. /\ \/ pc[c] \in {"start", "find", "respond"} /\ pc' = [pc EXCEPT ![c] = "respond"]
         \/ pc[c] \in {"start", "respond"} /\ pc' = [pc EXCEPT ![c] = "proxy"]
         \/ pc[c] \in {"start", "respond"} /\ pc' = [pc EXCEPT ![c] = "gone"]
         \/ pc[c] = "spin" /\ pc' = [pc EXCEPT ![c] = "read"]
         \/ pc[c] = "spin" /\ pc' = [pc EXCEPT ![c] = "leave"]
      /\ request' \in {request, [request EXCEPT ![c] = "freed"]}
      /\ UNCHANGED <<head, last, marked, total, lock, next, readers, size, host, pos, prev, found,
                     new, entry, registered, running, puts, charged>>
  BY DEF FindMiss, RespondOther, GiveUp, Spin, SpinFails, Goto, At, cacheVars, entryVars, walkVars,
         putVars, history
<1>2. TypeOK'
  BY <1>1 DEF TypeOK
<1>3. /\ \/ pc[c] \in {"start", "find", "respond"} /\ pc'[c] \in {"respond", "proxy", "gone"}
         \/ pc[c] = "spin" /\ pc'[c] \in {"read", "leave"}
      /\ \A d \in Client \ {c} : pc'[d] = pc[d] /\ request'[d] = request[d]
      /\ (request'[c] = "alive" => request[c] = "alive")
  BY <1>1 DEF TypeOK
<1>4. /\ pc[c] \in {"start", "find", "respond"} =>
           c \notin charged /\ ~ InList(c) /\ new[c] = Null /\ ~ registered[c] /\ readers[c] = 0
      /\ pc[c] = "spin" => entry[c] # Null
  BY NotYetListed DEF Counts, Positions
<1>5. /\ marked = Null /\ found[c] = Null /\ (~ running => head # Null /\ last = Null)
      /\ (entry[c] # Null => InList(entry[c]))
      /\ (AllKept /\ entry[c] # Null /\ entry[c] # c
           => OldestFor(c, entry[c]) /\ Same(c, entry[c]))
      /\ new[c] \in {Null, c}
      /\ readers[c] = (IF new[c] = Null THEN 0 ELSE IF registered[c] THEN 2 ELSE 1)
      /\ (registered[c] => entry[c] = c /\ new[c] = c)
  BY DEF Unmarked, LostTail, Positions, Lookups, Counts
<1> QED BY <1>1, <1>2, <1>3, <1>4, <1>5, Frame
(* A new entry counts one reader. *)
LEMMA RespondIInv ==
  ASSUME IInv, NEW c \in Client, NEW n \in Sizes, NEW e \in {c, Null}, Respond(c, n, e)
  PROVE  IInv'
<1> USE DEF IInv
<1>1. /\ pc[c] = "respond" /\ pc' = [pc EXCEPT ![c] = "check"]
      /\ size' = [size EXCEPT ![c] = n] /\ new' = [new EXCEPT ![c] = e]
      /\ readers' = [readers EXCEPT ![c] = IF e = Null THEN 0 ELSE 1]
      /\ UNCHANGED <<head, last, marked, total, lock, next, request, host, pos, prev, found,
                     entry, registered, running, puts, charged>>
  BY DEF Respond, InitialReaders, Goto, At, cacheVars, walkVars, history
<1>2. TypeOK'
  BY <1>1 DEF TypeOK, Entry
<1>3. /\ pc'[c] = "check" /\ new'[c] = e /\ readers'[c] = IF e = Null THEN 0 ELSE 1
      /\ \A d \in Client \ {c} : pc'[d] = pc[d] /\ new'[d] = new[d] /\ readers'[d] = readers[d]
  BY <1>1 DEF TypeOK
<1>4. c \notin charged /\ ~ InList(c) /\ ~ registered[c]
  BY <1>1, NotYetListed DEF Counts
<1>5. /\ marked = Null /\ found[c] = Null /\ (~ running => head # Null /\ last = Null)
      /\ (entry[c] # Null => InList(entry[c]))
      /\ (AllKept /\ entry[c] # Null /\ entry[c] # c
           => OldestFor(c, entry[c]) /\ Same(c, entry[c]))
  BY DEF Unmarked, LostTail, Positions, Lookups
<1> QED BY <1>1, <1>2, <1>3, <1>4, <1>5, Frame

-----------------------------------------------------------------------------
(* cache_garbage_check; the collector begins at the head of the list. *)
LEMMA CheckIInv ==
  ASSUME IInv, NEW c \in Client, Check(c)
  PROVE  IInv'
<1> USE DEF IInv
<1>1. /\ pc[c] = "check"
      /\ \/ /\ pc' = [pc EXCEPT ![c] = "collect"] /\ pos' = [pos EXCEPT ![c] = head]
            /\ prev' = [prev EXCEPT ![c] = Null] /\ found' = [found EXCEPT ![c] = Null]
         \/ pc' = [pc EXCEPT ![c] = "append"] /\ pos' = pos /\ prev' = prev /\ found' = found
      /\ UNCHANGED <<head, last, marked, total, lock, next, readers, size, request, host,
                     new, entry, registered, running, puts, charged>>
  BY DEF Check, Goto, At, cacheVars, entryVars, walkVars, putVars, history
<1>2. TypeOK'
  <2>1. /\ Null \in Entry /\ head \in Entry
        /\ pos \in [Client -> Entry] /\ prev \in [Client -> Entry] /\ found \in [Client -> Entry]
    BY DEF TypeOK, Entry
  <2>2. /\ [pos EXCEPT ![c] = head] \in [Client -> Entry]
        /\ [prev EXCEPT ![c] = Null] \in [Client -> Entry]
        /\ [found EXCEPT ![c] = Null] \in [Client -> Entry]
    BY ONLY <2>1
  <2>3. pos' \in [Client -> Entry] /\ prev' \in [Client -> Entry] /\ found' \in [Client -> Entry]
    BY ONLY <1>1, <2>1, <2>2
  <2> QED BY <1>1, <2>3 DEF TypeOK
<1>3. /\ \/ pc'[c] = "collect" /\ pos'[c] = head
         \/ pc'[c] = "append"
      /\ found'[c] = Null
      /\ \A d \in Client \ {c} : pc'[d] = pc[d] /\ pos'[d] = pos[d] /\ found'[d] = found[d]
  BY <1>1 DEF TypeOK, Unmarked
<1>4. head # Null => InList(head)
  BY DEF ListInPutOrder, InList, TypeOK
<1>5. c \notin charged /\ ~ InList(c)
  BY <1>1, NotYetListed
<1>6. /\ marked = Null /\ (~ running => head # Null /\ last = Null)
      /\ (entry[c] # Null => InList(entry[c]))
      /\ (AllKept /\ entry[c] # Null /\ entry[c] # c
           => OldestFor(c, entry[c]) /\ Same(c, entry[c]))
      /\ new[c] \in {Null, c}
      /\ readers[c] = (IF new[c] = Null THEN 0 ELSE IF registered[c] THEN 2 ELSE 1)
      /\ ~ registered[c]
  BY <1>1 DEF Unmarked, LostTail, Positions, Lookups, Counts
<1> QED BY <1>1, <1>2, <1>3, <1>4, <1>5, <1>6, Frame

(* The collector takes the lock, gives it back, and marks what it found,   *)
(* which is nothing.                                                       *)
LEMMA CollectIInv ==
  ASSUME IInv, NEW c \in Client, Collect(c) \/ ScanEnd(c) \/ Recheck(c)
  PROVE  IInv'
<1> USE DEF IInv
<1>1. PICK p \in {"scan", "recheck", "append", "nospace"} :
        /\ pc[c] \in {"collect", "scan", "recheck"} /\ pc' = [pc EXCEPT ![c] = p]
        /\ p = "scan" => pc[c] = "collect"
  BY DEF Collect, ScanEnd, Recheck, AfterCollect, Goto, At
<1>2. /\ marked' \in {marked, found[c]} /\ lock' \in {lock, c, Null}
      /\ UNCHANGED <<head, last, total, next, readers, size, request, host, pos, prev, found,
                     new, entry, registered, running, puts, charged>>
  BY DEF Collect, ScanEnd, Recheck, Unlocked, cacheVars, entryVars, walkVars, putVars, history
<1>3. marked' = Null /\ found[c] = Null
  BY <1>2 DEF Unmarked
<1>4. TypeOK'
  BY <1>1, <1>2, <1>3 DEF TypeOK, Entry
<1>5. pc'[c] = p /\ \A d \in Client \ {c} : pc'[d] = pc[d]
  BY <1>1 DEF TypeOK
<1>6. c \notin charged /\ ~ InList(c)
  BY <1>1, NotYetListed
<1>7. /\ (~ running => head # Null /\ last = Null)
      /\ (p = "scan" /\ pos[c] # Null => InList(pos[c]))
      /\ (entry[c] # Null => InList(entry[c]))
      /\ (AllKept /\ entry[c] # Null /\ entry[c] # c
           => OldestFor(c, entry[c]) /\ Same(c, entry[c]))
      /\ new[c] \in {Null, c}
      /\ readers[c] = (IF new[c] = Null THEN 0 ELSE IF registered[c] THEN 2 ELSE 1)
      /\ ~ registered[c]
  BY <1>1 DEF LostTail, Positions, Lookups, Counts
<1> QED BY <1>1, <1>2, <1>3, <1>4, <1>5, <1>6, <1>7, Frame

(* The collector passes a listed entry by: it has a reader. *)
LEMMA ScanIInv ==
  ASSUME IInv, NEW c \in Client, Scan(c)
  PROVE  IInv'
<1> USE DEF IInv
<1>1. pc[c] = "scan" /\ pos[c] # Null /\ InList(pos[c])
  BY DEF Scan, At, Positions
<1>2. pos[c] \in Client /\ ~ Eligible(pos[c])
  BY <1>1, ListedHasReader
<1>3. /\ pos' = [pos EXCEPT ![c] = next[pos[c]]] /\ prev' = [prev EXCEPT ![c] = pos[c]]
      /\ UNCHANGED <<head, last, marked, total, lock, next, readers, size, request, host, pc, found,
                     new, entry, registered, running, puts, charged>>
  BY <1>2 DEF Scan, putVars, history
<1>4. next[pos[c]] # Null => InList(next[pos[c]])
  <2>1. PICK i \in 1..Len(puts) : puts[i] = pos[c]
    BY <1>1 DEF InList
  <2> QED BY <2>1 DEF ListInPutOrder, InList, TypeOK
<1>5. TypeOK'
  BY <1>2, <1>3 DEF TypeOK, Entry
<1>6. pos'[c] = next[pos[c]] /\ \A d \in Client \ {c} : pos'[d] = pos[d]
  BY <1>3 DEF TypeOK
<1>7. c \notin charged /\ ~ InList(c)
  BY <1>1, NotYetListed
<1>8. /\ marked = Null /\ found[c] = Null /\ (~ running => head # Null /\ last = Null)
      /\ (entry[c] # Null => InList(entry[c]))
      /\ (AllKept /\ entry[c] # Null /\ entry[c] # c
           => OldestFor(c, entry[c]) /\ Same(c, entry[c]))
      /\ new[c] \in {Null, c}
      /\ readers[c] = (IF new[c] = Null THEN 0 ELSE IF registered[c] THEN 2 ELSE 1)
      /\ ~ registered[c]
  BY <1>1 DEF Unmarked, LostTail, Positions, Lookups, Counts
<1> QED BY <1>1, <1>3, <1>4, <1>5, <1>6, <1>7, <1>8, Frame

(* cache_free_marked finds nothing marked. *)
LEMMA FreeMarkedIInv ==
  ASSUME IInv, NEW c \in Client, FreeMarked(c)
  PROVE  IInv'
<1> USE DEF IInv
<1>1. /\ pc[c] \in {"put", "nospace"} /\ marked = Null /\ found[c] = Null
      /\ \/ /\ pc' = [pc EXCEPT ![c] = "proxy"] /\ entry' = entry
            /\ pc[c] = "nospace" \/ new[c] = Null
         \/ /\ pc' = [pc EXCEPT ![c] = "register"] /\ entry' = [entry EXCEPT ![c] = new[c]]
            /\ pc[c] = "put" /\ new[c] # Null
      /\ UNCHANGED <<head, last, marked, total, lock, next, readers, size, request, host, pos, prev, found,
                     new, registered, running, puts, charged>>
  BY DEF FreeMarked, Unmarked, Goto, cacheVars, entryVars, walkVars, history
<1>2. TypeOK'
  BY <1>1 DEF TypeOK
<1>3. /\ \/ /\ pc'[c] = "proxy" /\ entry'[c] = entry[c]
            /\ pc[c] = "nospace" \/ new[c] = Null
         \/ /\ pc'[c] = "register" /\ entry'[c] = new[c]
            /\ pc[c] = "put" /\ new[c] # Null
      /\ \A d \in Client \ {c} : pc'[d] = pc[d] /\ entry'[d] = entry[d]
  BY <1>1 DEF TypeOK
<1>4. /\ (c \in charged \/ InList(c) => pc[c] = "put")
      /\ (InList(c) => new[c] = c)
      /\ (pc[c] = "put" /\ new[c] # Null => InList(c) /\ new[c] = c)
      /\ new[c] \in {Null, c} /\ ~ registered[c]
  BY <1>1, NotYetListed DEF Counts, Positions
<1>5. c # Null
  BY CacheAssumption DEF CacheAssumption
<1>6. /\ (~ running => head # Null /\ last = Null)
      /\ (entry[c] # Null => InList(entry[c]))
      /\ (AllKept /\ entry[c] # Null /\ entry[c] # c
           => OldestFor(c, entry[c]) /\ Same(c, entry[c]))
      /\ readers[c] = (IF new[c] = Null THEN 0 ELSE IF registered[c] THEN 2 ELSE 1)
  BY DEF LostTail, Positions, Lookups, Counts
<1> QED BY <1>1, <1>2, <1>3, <1>4, <1>5, <1>6, Frame

-----------------------------------------------------------------------------
(* Registering and leaving: the maker of an entry counts twice, then once. *)
LEMMA RegisterIInv ==
  ASSUME IInv, NEW c \in Client, Register(c) \/ Leave(c)
  PROVE  IInv'
<1> USE DEF IInv
<1>1. /\ \/ /\ pc[c] = "register" /\ pc' = [pc EXCEPT ![c] = "spin"]
            /\ registered' = [registered EXCEPT ![c] = TRUE]
            /\ readers' = [readers EXCEPT ![entry[c]] = readers[entry[c]] + 1]
         \/ /\ pc[c] \in {"read", "proxy", "leave"} /\ pc' = [pc EXCEPT ![c] = "gone"]
            /\ registered' = [registered EXCEPT ![c] = FALSE]
            /\ readers' = IF registered[c] THEN [readers EXCEPT ![entry[c]] = readers[entry[c]] - 1]
                                           ELSE readers
      /\ UNCHANGED <<head, last, marked, total, lock, next, size, request, host, pos, prev, found,
                     new, entry, running, puts, charged>>
  BY DEF Register, Leave, Counted, Goto, At, cacheVars, walkVars, history
<1>2. /\ pc[c] = "register" => entry[c] = c /\ new[c] = c /\ ~ registered[c] /\ InList(c)
      /\ registered[c] => entry[c] = c /\ new[c] = c
      /\ readers[c] = (IF new[c] = Null THEN 0 ELSE IF registered[c] THEN 2 ELSE 1)
      /\ new[c] \in {Null, c} /\ c # Null
  BY CacheAssumption DEF Counts, Positions, CacheAssumption
<1>3. /\ \/ /\ pc[c] = "register" /\ pc'[c] = "spin"
            /\ registered'[c] = TRUE /\ readers'[c] = 2
         \/ /\ pc[c] \in {"read", "proxy", "leave"} /\ pc'[c] = "gone"
            /\ registered'[c] = FALSE /\ readers'[c] = IF new[c] = Null THEN 0 ELSE 1
      /\ \A d \in Client \ {c} : pc'[d] = pc[d] /\ registered'[d] = registered[d] /\ readers'[d] = readers[d]
  BY <1>1, <1>2 DEF TypeOK
<1>4. readers' \in [Client -> Nat]
  <2>1. \A d \in Client : readers'[d] \in Nat
    <3>1. readers'[c] \in Nat
      BY <1>3
    <3>2. \A d \in Client \ {c} : readers'[d] \in Nat
      BY <1>3 DEF TypeOK
    <3> QED BY <3>1, <3>2
  <2>2. readers' = [d \in Client |-> readers'[d]]
    BY <1>1 DEF TypeOK
  <2> QED BY <2>1, <2>2
<1>5. TypeOK'
  BY <1>1, <1>4 DEF TypeOK
<1>6. /\ marked = Null /\ found[c] = Null /\ (~ running => head # Null /\ last = Null)
      /\ (entry[c] # Null => InList(entry[c]))
      /\ (AllKept /\ entry[c] # Null /\ entry[c] # c
           => OldestFor(c, entry[c]) /\ Same(c, entry[c]))
  BY DEF Unmarked, LostTail, Positions, Lookups
<1> QED BY <1>1, <1>2, <1>3, <1>5, <1>6, Frame
-----------------------------------------------------------------------------
(* bytes_expected counts in natural numbers. *)
LEMMA ChargeType ==
  ASSUME TypeOK, NEW c \in Client
  PROVE  total + size[c] \in Nat
<1>1. total \in Nat /\ size[c] \in Sizes \cup {0}
  BY DEF TypeOK
<1>2. Sizes \subseteq Nat
  BY CacheAssumption DEF CacheAssumption
<1>3. \A n \in Sizes \cup {0} : n \in Nat
  BY ONLY <1>2
<1>4. size[c] \in Nat
  BY <1>1, <1>3, Zenon
<1> QED BY <1>1, <1>4

(* The crash of cache_put on a NULL last moves nothing. *)
LEMMA CrashIInv ==
  ASSUME IInv, NEW c \in Client, Link(c), head # Null, last = Null
  PROVE  IInv'
<1> USE DEF IInv
<1>1. /\ running' = FALSE
      /\ UNCHANGED <<head, last, marked, total, lock, next, readers, size, request, host, pos, prev, found,
                     pc, new, entry, registered, puts, charged>>
  BY DEF Link, cacheVars, walkVars, putVars, history
<1>2. TypeOK'
  BY <1>1 DEF TypeOK
<1>3. marked = Null /\ found[c] = Null
  BY DEF Unmarked
<1>4. /\ new[c] \in {Null, c} /\ pc[c] = "append" /\ ~ registered[c]
      /\ readers[c] = (IF new[c] = Null THEN 0 ELSE IF registered[c] THEN 2 ELSE 1)
  BY DEF Counts, Link, At
<1>5. c \notin charged /\ ~ InList(c) /\ (entry[c] # Null => InList(entry[c]))
      /\ (AllKept /\ entry[c] # Null /\ entry[c] # c
           => OldestFor(c, entry[c]) /\ Same(c, entry[c]))
  BY <1>4, NotYetListed DEF Positions, Lookups
<1> QED BY <1>1, <1>2, <1>3, <1>4, <1>5, Frame

(* An entry that could not be allocated leaves the list as it is, but for  *)
(* last.                                                                   *)
LEMMA LinkNothingIInv ==
  ASSUME IInv, NEW c \in Client, Link(c), head = Null \/ last # Null, new[c] = Null
  PROVE  IInv'
<1> USE DEF IInv
<1>1. /\ pc[c] = "append" /\ pc' = [pc EXCEPT ![c] = "put"]
      /\ head' = (IF head = Null THEN Null ELSE head) /\ last' = Null
      /\ next' = (IF head = Null THEN next ELSE [next EXCEPT ![last] = Null])
      /\ total' = total + size[c] /\ charged' = charged \cup {c} /\ puts' = puts
      /\ UNCHANGED <<marked, lock, readers, size, request, host, pos, prev, found,
                     new, entry, registered, running>>
  BY DEF Link, Newest, Charge, Goto, At, walkVars, putVars
<1>2. head' = head /\ next' = next
  <2>1. CASE head = Null
    BY <1>1, <2>1
  <2>2. CASE head # Null
    <3>1. last # Null /\ puts # <<>> /\ last = puts[Len(puts)] /\ Len(puts) \in 1..Len(puts)
      BY <2>2 DEF ListInPutOrder, TypeOK
    <3>2. next[last] = Null
      BY <3>1 DEF ListInPutOrder
    <3> QED BY <1>1, <2>2, <3>2 DEF TypeOK
  <2> QED BY <2>1, <2>2
<1>3. total + size[c] \in Nat
  BY ChargeType
<1>4. TypeOK'
  BY <1>1, <1>2, <1>3 DEF TypeOK, Entry
<1>5. pc'[c] = "put" /\ \A d \in Client \ {c} : pc'[d] = pc[d]
  BY <1>1 DEF TypeOK
<1>6. ~ InList(c)
  BY <1>1, NotYetListed
<1>7. ListInPutOrder' /\ Unmarked'
  BY <1>1, <1>2 DEF ListInPutOrder, Unmarked
<1>8. PutsOnce'
  <2>1. \A i \in 1..Len(puts) : puts[i] \in Client /\ puts[i] # c
    BY <1>6 DEF InList, TypeOK
  <2> QED BY <1>1, <1>2, <1>5, <2>1 DEF PutsOnce, InList
<1>9. Counts' /\ Positions'
  BY <1>1, <1>5 DEF Counts, Positions, InList
<1>10. LostTail'
  BY <1>1, <1>2, <1>5 DEF LostTail, TypeOK
<1>11. Lookups'
  BY <1>1, <1>5 DEF Lookups, AllKept, OldestFor, Same
<1> QED BY <1>4, <1>7, <1>8, <1>9, <1>10, <1>11

(* An entry is linked behind all others. *)
LEMMA LinkEntryIInv ==
  ASSUME IInv, NEW c \in Client, Link(c), head = Null \/ last # Null, new[c] = c
  PROVE  IInv'
<1> DEFINE L == Len(puts)
<1> USE DEF IInv
<1>1. /\ pc[c] = "append" /\ pc' = [pc EXCEPT ![c] = "put"] /\ c # Null
      /\ head' = (IF head = Null THEN c ELSE head) /\ last' = c
      /\ next' = (IF head = Null THEN next ELSE [next EXCEPT ![last] = c])
      /\ total' = total + size[c] /\ charged' = charged \cup {c} /\ puts' = Append(puts, c)
      /\ UNCHANGED <<marked, lock, readers, size, request, host, pos, prev, found,
                     new, entry, registered, running>>
  BY CacheAssumption DEF Link, Newest, Charge, Goto, At, walkVars, putVars, CacheAssumption
<1>2. /\ L \in Nat /\ Len(puts') = L + 1 /\ puts'[L + 1] = c
      /\ \A i \in 1..L : puts'[i] = puts[i] /\ puts[i] \in Client
      /\ puts' \in Seq(Client) /\ puts' # <<>>
  <2>1. puts \in Seq(Client)
    BY DEF TypeOK
  <2>2. /\ L \in Nat /\ Len(puts') = L + 1 /\ puts'[L + 1] = c
        /\ puts' \in Seq(Client) /\ \A i \in 1..L : puts'[i] = puts[i]
    BY ONLY <1>1, <2>1, AppendProperties, LenProperties
  <2>3. \A i \in 1..L : puts[i] \in Client
    BY ONLY <2>1, ElementOfSeq
  <2>4. puts' # <<>>
    BY ONLY <2>2, EmptySeq
  <2> QED BY <2>2, <2>3, <2>4
<1>3. ~ InList(c) /\ next[c] = Null /\ \A i \in 1..L : puts[i] # c
  BY <1>1, NotYetListed DEF PutsOnce, InList
<1>4. head # Null => L \in 1..L /\ last = puts[L] /\ last # c
  BY <1>2, <1>3 DEF ListInPutOrder, TypeOK
<1>5. head = Null => L = 0
  <2>1. puts # <<>> => puts[1] \in Client /\ head = puts[1]
    BY DEF ListInPutOrder, TypeOK
  <2> QED BY <2>1, CacheAssumption DEF CacheAssumption, TypeOK
<1>6. /\ \A d \in Client : next'[d] = IF head # Null /\ d = last THEN c ELSE next[d]
  BY <1>1 DEF TypeOK
<1>7. \A e : InList(e)' <=> (InList(e) \/ e = c)
  BY <1>2 DEF InList
<1>8. TypeOK'
  <2>1. total + size[c] \in Nat
    BY ChargeType
  <2> QED BY <1>1, <1>2, <2>1 DEF TypeOK, Entry
<1>9. ListInPutOrder'
  <2>1. head' = puts'[1]
    <3>1. CASE head = Null
      BY <1>1, <1>2, <1>5, <3>1
    <3>2. CASE head # Null
      BY <1>1, <1>2, <1>4, <3>2 DEF ListInPutOrder
    <3> QED BY <3>1, <3>2
  <2>2. ASSUME NEW i \in 1..(L + 1)
        PROVE  next'[puts'[i]] = IF i = L + 1 THEN Null ELSE puts'[i + 1]
    <3>1. CASE i = L + 1
      BY <1>2, <1>3, <1>4, <1>6, <3>1
    <3>2. CASE i = L
      <4>1. i \in 1..L /\ puts'[i] = puts[i] /\ head # Null /\ puts[i] = last /\ puts[i] \in Client
        BY <1>2, <1>4, <1>5, <3>2
      <4> QED BY <1>2, <1>6, <3>2, <4>1
    <3>3. CASE i # L /\ i # L + 1
      <4>1. i \in 1..L /\ i + 1 \in 1..L /\ puts'[i] = puts[i] /\ puts'[i + 1] = puts[i + 1]
        BY <1>2, <3>3
      <4>2. next[puts[i]] = puts[i + 1]
        BY <3>3, <4>1 DEF ListInPutOrder
      <4>3. puts[i] \in Client /\ ~ (head # Null /\ puts[i] = last)
        BY <1>2, <1>4, <3>3, <4>1 DEF PutsOnce
      <4> QED BY <1>6, <3>3, <4>1, <4>2, <4>3
    <3> QED BY <3>1, <3>2, <3>3
  <2> QED BY <1>1, <1>2, <2>1, <2>2 DEF ListInPutOrder
<1>10. pc'[c] = "put" /\ \A d \in Client \ {c} : pc'[d] = pc[d]
  BY <1>1 DEF TypeOK
<1>11. PutsOnce'
  <2>1. \A i, j \in 1..(L + 1) : puts'[i] = puts'[j] => i = j
    BY <1>2, <1>3 DEF PutsOnce
  <2>2. ASSUME NEW i \in 1..(L + 1)
        PROVE  /\ new'[puts'[i]] = puts'[i]
               /\ pc'[puts'[i]] \in {"put", "register", "spin", "read", "leave", "gone"}
    <3>1. CASE i = L + 1
      BY <1>1, <1>2, <1>10, <3>1
    <3>2. CASE i \in 1..L
      BY <1>1, <1>2, <1>3, <1>10, <3>2 DEF PutsOnce
    <3> QED BY <3>1, <3>2, <1>2
  <2>3. \A e \in Client : next'[e] # Null => InList(e)'
    BY <1>4, <1>6, <1>7, <1>2 DEF PutsOnce, InList
  <2> QED BY <1>2, <2>1, <2>2, <2>3 DEF PutsOnce
<1>12. Counts' /\ Unmarked'
  BY <1>1, <1>10 DEF Counts, Unmarked
<1>13. Positions'
  BY <1>1, <1>7, <1>10 DEF Positions
<1>14. LostTail'
  BY <1>1, <1>10 DEF LostTail, TypeOK
<1>15. Lookups'
  <2> SUFFICES ASSUME AllKept', NEW d \in Client
               PROVE  /\ pc'[d] = "find" /\ pos[d] # Null => OldestFor(d, pos[d])'
                      /\ entry[d] # Null /\ entry[d] # d => OldestFor(d, entry[d])' /\ Same(d, entry[d])'
    BY <1>1 DEF Lookups
  <2> DEFINE Before(i) == \A j \in 1..(i - 1) : <<host[d], host[puts[j]]>> \notin Takes
             BeforeNow(i) == \A j \in 1..(i - 1) : <<host[d], host[puts'[j]]>> \notin Takes
  <2>1. AllKept
    <3>1. \A i \in 1..L : i \in 1..Len(puts') /\ puts'[i] = puts[i]
      BY <1>2
    <3> QED BY <1>1, <3>1 DEF AllKept
  <2>2. \A e : (\E i \in 1..L : puts[i] = e /\ Before(i))
                  => \E i \in 1..Len(puts') : puts'[i] = e /\ BeforeNow(i)
    <3> SUFFICES ASSUME NEW e, NEW i \in 1..L, puts[i] = e, Before(i)
                 PROVE  i \in 1..Len(puts') /\ puts'[i] = e /\ BeforeNow(i)
      OBVIOUS
    <3>1. \A j \in 1..(i - 1) : puts'[j] = puts[j]
      BY <1>2
    <3> QED BY <1>2, <3>1
  <2>3. ASSUME pc'[d] = "find", pos[d] # Null PROVE OldestFor(d, pos[d])'
    <3>1. OldestFor(d, pos[d])
      BY <1>10, <2>1, <2>3 DEF Lookups
    <3>2. \E i \in 1..Len(puts') : puts'[i] = pos[d] /\ BeforeNow(i)
      BY <2>2, <3>1 DEF OldestFor, Same
    <3> QED BY <1>1, <3>2 DEF OldestFor, Same
  <2>4. ASSUME entry[d] # Null, entry[d] # d PROVE OldestFor(d, entry[d])' /\ Same(d, entry[d])'
    <3>1. OldestFor(d, entry[d]) /\ Same(d, entry[d])
      BY <2>1, <2>4 DEF Lookups
    <3>2. \E i \in 1..Len(puts') : puts'[i] = entry[d] /\ BeforeNow(i)
      BY <2>2, <3>1 DEF OldestFor, Same
    <3> QED BY <1>1, <3>1, <3>2 DEF OldestFor, Same
  <2> QED BY <2>3, <2>4
<1> QED BY <1>8, <1>9, <1>11, <1>12, <1>13, <1>14, <1>15

-----------------------------------------------------------------------------
(* The invariant is inductive. *)
THEOREM Invariance == SafeSpec => []IInv
<1>1. Init => IInv
  BY InitIInv
<1>2. IInv /\ [Next]_vars => IInv'
  <2> SUFFICES ASSUME IInv, [Next]_vars PROVE IInv'
    OBVIOUS
  <2>1. ASSUME NEW c \in Client, Step(c)
        PROVE  IInv'
    <3>1. CASE Link(c)
      <4>1. new[c] \in {Null, c}
        BY DEF IInv, Counts
      <4> QED BY <3>1, <4>1, CrashIInv, LinkNothingIInv, LinkEntryIInv
    <3>2. CASE InCache(c) /\ ~ Link(c)
      BY <3>2, FindIInv, FindHitIInv, MoveIInv, CheckIInv, CollectIInv, ScanIInv, FreeMarkedIInv
      DEF InCache
    <3>3. CASE \E n \in Sizes, e \in {c, Null} : Respond(c, n, e)
      BY <3>3, RespondIInv
    <3> QED BY <2>1, <3>1, <3>2, <3>3, FindIInv, MoveIInv, RegisterIInv DEF Step
  <2>2. CASE UNCHANGED vars
    <3>1. UNCHANGED <<head, last, marked, total, lock, next, readers, size, request, host, pc,
                      pos, prev, found, new, entry, registered, running, puts, charged>>
      BY <2>2 DEF vars, cacheVars, entryVars, walkVars, putVars, history
    <3>2. TypeOK'
      BY <3>1 DEF IInv, TypeOK
    <3>3. ListInPutOrder' /\ PutsOnce' /\ Counts' /\ Unmarked' /\ LostTail'
      BY <3>1 DEF IInv, ListInPutOrder, PutsOnce, Counts, Unmarked, LostTail, InList
    <3>4. Positions'
      BY <3>1 DEF IInv, Positions, InList
    <3>5. Lookups'
      BY <3>1 DEF IInv, Lookups, AllKept, OldestFor, Same
    <3> QED BY <3>2, <3>3, <3>4, <3>5 DEF IInv
  <2> QED BY <2>1, <2>2 DEF Next
<1> QED BY <1>1, <1>2, PTL DEF SafeSpec

(* The cache, its entries and its clients keep their shape. *)
THEOREM TypeCorrect == SafeSpec => []TypeOK
<1>1. IInv => TypeOK
  BY DEF IInv
<1> QED BY <1>1, Invariance, PTL

(* structs.h:83: head is the oldest entry and the list keeps every entry   *)
(* in the order of the puts.                                               *)
THEOREM ListKept == SafeSpec => []ListInPutOrder
<1>1. IInv => ListInPutOrder
  BY IInvImplies
<1> QED BY <1>1, Invariance, PTL

(* cache_find and cache_garbage_collect stand on listed entries, and what  *)
(* a client reads is not eligible for collection.                          *)
THEOREM InUseStaysLinked == SafeSpec => []InUseIsLinked
<1>1. IInv => InUseIsLinked
  BY IInvImplies
<1> QED BY <1>1, Invariance, PTL

(* A NULL pointer is followed only by cache_put, after centry_init had no  *)
(* memory.                                                                 *)
THEOREM NoOtherCrash == SafeSpec => []OnlyLostTailCrashes
<1>1. IInv => OnlyLostTailCrashes
  BY IInvImplies
<1> QED BY <1>1, Invariance, PTL

(* All hits for a host find the same entry, the oldest. *)
THEOREM HitsAgree == SafeSpec => []HitsOldest
<1>1. IInv => HitsOldest
  BY IInvImplies
<1> QED BY <1>1, Invariance, PTL

-----------------------------------------------------------------------------
(* How far the unlocked check lets the cache grow. *)
Between == {c \in Client : pc[c] = "append"}
Inside == {c \in Client : Registering(c)}
Limit == Threads * Threshold

(* Whoever is between the check and the link has fitted in alone, and      *)
(* there is room for one of them and Threshold for each of the others.     *)
Room ==
  /\ IsFiniteSet(Inside) /\ Cardinality(Inside) <= Threads
  /\ \A c \in Between : size[c] <= Threshold
  /\ Between = {} => total <= Limit
  /\ Between # {} =>
       \E c \in Between : total + size[c] + Cardinality(Between \ {c}) * Threshold <= Limit

LEMMA Products ==
  /\ \A n \in Nat : n * Threshold \in Nat /\ (n + 1) * Threshold = n * Threshold + Threshold
  /\ \A m, n \in Nat : m <= n => m * Threshold <= n * Threshold
<1>1. Threshold \in Nat
  BY CacheAssumption DEF CacheAssumption
<1>2. ASSUME NEW n \in Nat
      PROVE  n * Threshold \in Nat /\ (n + 1) * Threshold = n * Threshold + Threshold
  BY <1>1
<1>3. ASSUME NEW m \in Nat, NEW n \in Nat, m <= n
      PROVE  m * Threshold <= n * Threshold
  <2>1. PICK k \in Nat : n = m + k
    BY <1>3
  <2>2. n * Threshold = m * Threshold + k * Threshold
    BY <1>1, <2>1
  <2>3. k * Threshold \in Nat /\ m * Threshold \in Nat
    BY <1>1
  <2> QED BY <2>2, <2>3
<1> QED BY <1>2, <1>3

(* What the entries promise are numbers of bytes. *)
LEMMA Numbers ==
  ASSUME IInv
  PROVE  Threshold \in Nat /\ Threads \in Nat /\ total \in Nat /\ \A d \in Client : size[d] \in Nat
<1>1. Sizes \subseteq Nat /\ Threshold \in Nat /\ Threads \in Nat
  BY CacheAssumption DEF CacheAssumption
<1>2. size \in [Client -> Sizes \cup {0}] /\ total \in Nat
  BY DEF IInv, TypeOK
<1>3. ASSUME NEW d \in Client
      PROVE  size[d] \in Nat
  <2>1. size[d] \in Sizes \/ size[d] = 0
    BY <1>2
  <2>2. CASE size[d] \in Sizes
    BY <1>1, <2>2
  <2> QED BY <2>1, <2>2
<1> QED BY <1>1, <1>2, <1>3

(* The set of those between two places shrinks and grows by one at a time. *)
LEMMA OneLess ==
  ASSUME NEW S, IsFiniteSet(S), NEW x \in S
  PROVE  /\ Cardinality(S) \in Nat /\ Cardinality(S \ {x}) \in Nat
         /\ Cardinality(S) = Cardinality(S \ {x}) + 1
<1>1. IsFiniteSet(S \ {x}) /\ Cardinality(S \ {x}) = Cardinality(S) - 1
  BY FS_RemoveElement
<1>2. Cardinality(S) \in Nat /\ Cardinality(S \ {x}) \in Nat
  BY <1>1, FS_CardinalityType
<1> QED BY <1>1, <1>2

LEMMA BetweenFinite ==
  ASSUME IsFiniteSet(Inside), NEW x \in Inside, x \notin Between
  PROVE  /\ IsFiniteSet(Between)
         /\ Cardinality(Between) \in Nat /\ Cardinality(Between) + 1 <= Cardinality(Inside)
<1>1. Between \in SUBSET (Inside \ {x})
  BY DEF Between, Inside, Registering
<1>2. IsFiniteSet(Inside \ {x})
  BY FS_RemoveElement
<1>3. IsFiniteSet(Between) /\ Cardinality(Between) <= Cardinality(Inside \ {x})
  BY <1>1, <1>2, FS_Subset
<1>4. Cardinality(Between) \in Nat
  BY <1>3, FS_CardinalityType
<1> QED BY <1>3, <1>4, OneLess

(* Only Find lets one more in. *)
LEMMA InsideKept ==
  ASSUME Room, Inside' \in SUBSET Inside
  PROVE  IsFiniteSet(Inside') /\ Cardinality(Inside') <= Threads
<1>1. IsFiniteSet(Inside) /\ Cardinality(Inside) <= Threads /\ Cardinality(Inside) \in Nat
  BY FS_CardinalityType DEF Room
<1>2. IsFiniteSet(Inside') /\ Cardinality(Inside') <= Cardinality(Inside)
  BY <1>1, FS_Subset
<1>3. Cardinality(Inside') \in Nat
  BY <1>2, FS_CardinalityType
<1> QED BY <1>1, <1>2, <1>3, CacheAssumption DEF CacheAssumption

(* A step that leaves total and those between as they are. *)
LEMMA SameRoom ==
  ASSUME Room, Between' = Between, total' = total, \A c \in Between : size'[c] = size[c],
         IsFiniteSet(Inside'), Cardinality(Inside') <= Threads
  PROVE  Room'
<1>1. Limit' = Limit
  BY DEF Limit
<1>2. \A c \in Between' : size'[c] <= Threshold
  BY DEF Room
<1>3. Between' = {} => total' <= Limit'
  BY <1>1 DEF Room
<1>4. ASSUME Between' # {}
      PROVE  \E c \in Between' : total' + size'[c] + Cardinality(Between' \ {c}) * Threshold <= Limit'
  <2>1. PICK c \in Between : total + size[c] + Cardinality(Between \ {c}) * Threshold <= Limit
    BY <1>4 DEF Room
  <2>2. total' + size'[c] + Cardinality(Between' \ {c}) * Threshold <= Limit'
    BY <1>1, <2>1
  <2> QED BY <2>2
<1> QED BY <1>2, <1>3, <1>4 DEF Room

LEMMA FindRoom ==
  ASSUME IInv, Room, NEW c \in Client, Find(c)
  PROVE  Room'
<1>1. Inside' = Inside \cup {c} /\ c \notin Inside /\ Between' = Between
  BY DEF IInv, TypeOK, Find, At, Goto, Inside, Between, Registering
<1>2. total' = total /\ size' = size
  BY DEF Find, cacheVars, entryVars
<1>3. IsFiniteSet(Inside) /\ Cardinality(Inside) \in Nat /\ Cardinality(Inside) < Threads
  BY FS_CardinalityType DEF Room, Find, Inside
<1>4. IsFiniteSet(Inside') /\ Cardinality(Inside') = Cardinality(Inside) + 1
  BY <1>1, <1>3, FS_AddElement
<1>5. Cardinality(Inside') <= Threads
  BY <1>3, <1>4, CacheAssumption DEF CacheAssumption
<1> QED BY <1>1, <1>2, <1>4, <1>5, SameRoom

(* cache_garbage_check has let c go on. *)
LEMMA FitsRoom ==
  ASSUME IInv, Room, NEW c \in Client, pc[c] \in {"check", "recheck"},
         ~ NoSpace(c), pc' = [pc EXCEPT ![c] = "append"], total' = total, size' = size
  PROVE  Room'
<1>1. Between' = Between \cup {c} /\ Between' \ {c} = Between /\ c \in Inside /\ c \notin Between
  BY DEF IInv, TypeOK, Inside, Between, Registering
<1>2. Inside' \in SUBSET Inside
  BY DEF IInv, TypeOK, Inside, Registering
<1>3. size[c] \in Nat /\ total \in Nat /\ total + size[c] <= Threshold /\ Threshold \in Nat /\ Threads \in Nat
  BY Numbers DEF NoSpace
<1>4. IsFiniteSet(Inside) /\ Cardinality(Inside) <= Threads /\ Cardinality(Inside) \in Nat
  BY FS_CardinalityType DEF Room
<1>5. Cardinality(Between) \in Nat /\ Cardinality(Between) + 1 <= Cardinality(Inside)
  BY <1>1, <1>4, BetweenFinite
<1>6. (Cardinality(Between) + 1) * Threshold <= Limit
  <2>1. Cardinality(Between) + 1 \in Nat /\ Cardinality(Between) + 1 <= Threads
    BY <1>3, <1>4, <1>5
  <2> QED BY <1>3, <2>1, Products DEF Limit
<1>7. total' + size'[c] + Cardinality(Between' \ {c}) * Threshold <= Limit'
  <2>1. /\ Cardinality(Between) * Threshold \in Nat
        /\ (Cardinality(Between) + 1) * Threshold = Cardinality(Between) * Threshold + Threshold
    BY <1>5, Products
  <2>2. Limit' = Limit /\ Limit \in Nat
    BY <1>3, Products DEF Limit
  <2>3. total + size[c] + Cardinality(Between) * Threshold <= Limit
    BY <1>3, <1>6, <2>1, <2>2
  <2> QED BY <1>1, <2>2, <2>3
<1>8. \A d \in Between' : size'[d] <= Threshold
  BY <1>1, <1>3 DEF Room
<1>9. c \in Between' /\ Between' # {}
  BY <1>1
<1> QED BY <1>2, <1>7, <1>8, <1>9, InsideKept DEF Room

(* cache_put has added what c takes. *)
LEMMA LinkRoom ==
  ASSUME IInv, Room, NEW c \in Client, pc[c] = "append",
         pc' = [pc EXCEPT ![c] = "put"], total' = total + size[c], size' = size
  PROVE  Room'
<1>1. Between' = Between \ {c} /\ c \in Between
  BY DEF IInv, TypeOK, Between
<1>2. Inside' \in SUBSET Inside
  BY DEF IInv, TypeOK, Inside, Registering
<1>3. Threshold \in Nat /\ Threads \in Nat /\ total \in Nat /\ \A d \in Client : size[d] \in Nat
  BY Numbers
<1>4. Limit' = Limit /\ Limit \in Nat
  BY <1>3, Products DEF Limit
<1>5. IsFiniteSet(Between)
  <2>1. Between \in SUBSET Inside /\ IsFiniteSet(Inside)
    BY DEF Between, Inside, Registering, Room
  <2> QED BY <2>1, FS_Subset
<1>6. IsFiniteSet(Between')
  BY <1>1, <1>5, FS_RemoveElement
<1>7. \A d \in Between : size[d] <= Threshold /\ d \in Client
  BY DEF Room, Between
<1>8. PICK d \in Between : total + size[d] + Cardinality(Between \ {d}) * Threshold <= Limit
  BY <1>1 DEF Room
<1>9. Cardinality(Between \ {d}) \in Nat /\ Cardinality(Between \ {d}) * Threshold \in Nat
  BY <1>5, OneLess, Products
<1>10. Between' = {} => total' <= Limit'
  <2>1. ASSUME Between' = {}
        PROVE  d = c
    BY <1>1, <2>1
  <2> QED BY <1>3, <1>4, <1>7, <1>8, <1>9, <2>1
<1>11. ASSUME Between' # {}
       PROVE  \E e \in Between' : total' + size'[e] + Cardinality(Between' \ {e}) * Threshold <= Limit'
  <2>1. CASE d = c
    <3>1. PICK e \in Between' : TRUE
      BY <1>11
    <3>2. /\ Cardinality(Between' \ {e}) \in Nat
          /\ Cardinality(Between') = Cardinality(Between' \ {e}) + 1
      BY <1>6, OneLess
    <3>3. /\ Cardinality(Between' \ {e}) * Threshold \in Nat
          /\ Cardinality(Between') * Threshold = Cardinality(Between' \ {e}) * Threshold + Threshold
      BY <3>2, Products
    <3>4. total + size[c] + Cardinality(Between') * Threshold <= Limit
      BY <1>1, <1>8, <2>1
    <3>5. size[e] <= Threshold /\ size[e] \in Nat /\ size[c] \in Nat
      BY <1>1, <1>3, <1>7
    <3>6. (total + size[c]) + size[e] + Cardinality(Between' \ {e}) * Threshold <= Limit
      BY <1>3, <1>4, <3>3, <3>4, <3>5
    <3> QED BY <1>4, <3>6
  <2>2. CASE d # c
    <3>1. d \in Between' /\ c \in Between \ {d} /\ Between' \ {d} = (Between \ {d}) \ {c}
      BY <1>1, <2>2
    <3>2. IsFiniteSet(Between \ {d})
      BY <1>5, FS_RemoveElement
    <3>3. /\ Cardinality(Between' \ {d}) \in Nat
          /\ Cardinality(Between \ {d}) = Cardinality(Between' \ {d}) + 1
      BY <3>1, <3>2, OneLess
    <3>4. /\ Cardinality(Between' \ {d}) * Threshold \in Nat
          /\ Cardinality(Between \ {d}) * Threshold = Cardinality(Between' \ {d}) * Threshold + Threshold
      BY <3>3, Products
    <3>5. size[c] <= Threshold /\ size[c] \in Nat /\ size[d] \in Nat
      BY <1>1, <1>3, <1>7
    <3>6. (total + size[c]) + size[d] + Cardinality(Between' \ {d}) * Threshold <= Limit
      BY <1>3, <1>4, <1>8, <3>4, <3>5
    <3> QED BY <1>4, <3>1, <3>6
  <2> QED BY <2>1, <2>2
<1>12. \A e \in Between' : size'[e] <= Threshold
  BY <1>1, <1>7
<1> QED BY <1>2, <1>10, <1>11, <1>12, InsideKept DEF Room

(* All other steps. *)
LEMMA QuietRoom ==
  ASSUME IInv, Room, NEW c \in Client, NEW place,
         \/ pc' = pc
         \/ /\ pc' = [pc EXCEPT ![c] = place]
            /\ pc[c] # "append" /\ place # "append"
            /\ pc[c] \in {"start", "read", "proxy", "leave", "gone"} => place = "gone",
         total' = total, \A d \in Client : pc[d] = "append" => size'[d] = size[d]
  PROVE  Room'
<1>1. Between' = Between
  BY DEF IInv, TypeOK, Between
<1>2. Inside' \in SUBSET Inside
  BY DEF IInv, TypeOK, Inside, Registering
<1>3. \A d \in Between : size'[d] = size[d]
  BY DEF Between
<1> QED BY <1>1, <1>2, <1>3, InsideKept, SameRoom

LEMMA StepRoom ==
  ASSUME IInv, Room, NEW c \in Client, Step(c)
  PROVE  Room'
<1>1. CASE Find(c)
  BY <1>1, FindRoom
<1>2. CASE FindHit(c)
  BY <1>2, QuietRoom DEF FindHit, At, Goto, cacheVars, entryVars
<1>3. CASE FindNext(c)
  BY <1>3, QuietRoom DEF FindNext, cacheVars, entryVars
<1>4. CASE FindMiss(c)
  BY <1>4, QuietRoom DEF FindMiss, At, Goto, cacheVars, entryVars
<1>5. CASE Check(c)
  <2>1. pc[c] = "check" /\ total' = total /\ size' = size
    BY <1>5 DEF Check, At, cacheVars, entryVars
  <2>2. CASE NoSpace(c)
    BY <1>5, <2>1, <2>2, QuietRoom DEF Check, Goto
  <2>3. CASE ~ NoSpace(c)
    BY <1>5, <2>1, <2>3, FitsRoom DEF Check, Goto
  <2> QED BY <2>2, <2>3
<1>6. CASE Collect(c)
  BY <1>6, QuietRoom DEF Collect, At, Goto, entryVars
<1>7. CASE Scan(c)
  <2>1. InList(pos[c])
    BY <1>7 DEF IInv, Positions, Scan, At
  <2>2. ~ Eligible(pos[c])
    BY <2>1, ListedHasReader
  <2> QED BY <1>7, <2>2, QuietRoom DEF Scan
<1>8. CASE ScanEnd(c)
  BY <1>8, QuietRoom DEF ScanEnd, At, Goto, entryVars
<1>9. CASE Recheck(c)
  <2>1. pc[c] = "recheck" /\ total' = total /\ size' = size
    BY <1>9 DEF Recheck, At, entryVars
  <2>2. CASE NoSpace(c)
    BY <1>9, <2>1, <2>2, QuietRoom DEF Recheck, Goto, AfterCollect
  <2>3. CASE ~ NoSpace(c)
    BY <1>9, <2>1, <2>3, FitsRoom DEF Recheck, Goto, AfterCollect
  <2> QED BY <2>2, <2>3
<1>10. CASE Link(c)
  <2>1. pc[c] = "append" /\ size' = size
    BY <1>10 DEF Link, At
  <2>2. CASE head # Null /\ last = Null
    BY <1>10, <2>1, <2>2, QuietRoom DEF Link, cacheVars
  <2>3. CASE ~ (head # Null /\ last = Null)
    BY <1>10, <2>1, <2>3, LinkRoom DEF Link, Goto, Charge
  <2> QED BY <2>2, <2>3
<1>11. CASE FreeMarked(c)
  BY <1>11, QuietRoom DEF FreeMarked, Goto, cacheVars, entryVars
<1>12. CASE GiveUp(c)
  BY <1>12, QuietRoom DEF GiveUp, Goto, cacheVars
<1>13. CASE RespondOther(c)
  BY <1>13, QuietRoom DEF RespondOther, At, Goto, cacheVars, entryVars
<1>14. CASE \E n \in Sizes, e \in {c, Null} : Respond(c, n, e)
  <2>1. PICK n \in Sizes, e \in {c, Null} : Respond(c, n, e)
    BY <1>14
  <2>2. \A d \in Client : pc[d] = "append" => size'[d] = size[d]
    BY <2>1 DEF Respond, At, IInv, TypeOK
  <2> QED BY <2>1, <2>2, QuietRoom DEF Respond, At, Goto, cacheVars
<1>15. CASE Register(c)
  BY <1>15, QuietRoom DEF Register, At, Goto, cacheVars
<1>16. CASE Spin(c)
  BY <1>16, QuietRoom DEF Spin, At, Goto, cacheVars, entryVars
<1>17. CASE SpinFails(c)
  BY <1>17, QuietRoom DEF SpinFails, At, Goto, cacheVars
<1>18. CASE Leave(c)
  BY <1>18, QuietRoom DEF Leave, Goto, cacheVars
<1> QED BY <1>1, <1>2, <1>3, <1>4, <1>5, <1>6, <1>7, <1>8, <1>9, <1>10, <1>11, <1>12, <1>13, <1>14,
           <1>15, <1>16, <1>17, <1>18 DEF Step, InCache

LEMMA InitRoom == Init => Room
<1> SUFFICES ASSUME Init PROVE Room
  OBVIOUS
<1>1. Inside = {} /\ Between = {}
  BY DEF Init, Inside, Between, Registering
<1>2. IsFiniteSet({}) /\ Cardinality({}) = 0
  BY FS_EmptySet
<1>3. Limit \in Nat /\ Threads \in Nat /\ total = 0
  BY Products, CacheAssumption DEF Init, Limit, CacheAssumption
<1> QED BY <1>1, <1>2, <1>3 DEF Room

LEMMA RoomBounds ==
  ASSUME IInv, Room
  PROVE  OverCommitBounded
<1>1. CASE Between = {}
  BY <1>1 DEF Room, OverCommitBounded, Limit
<1>2. CASE Between # {}
  <2>1. PICK c \in Between : total + size[c] + Cardinality(Between \ {c}) * Threshold <= Limit
    BY <1>2 DEF Room
  <2>2. Between \in SUBSET Inside /\ IsFiniteSet(Inside)
    BY DEF Between, Inside, Registering, Room
  <2>3. Cardinality(Between \ {c}) * Threshold \in Nat
    BY <2>2, FS_Subset, OneLess, Products
  <2>4. size[c] \in Nat /\ total \in Nat /\ Limit \in Nat
    BY Numbers, Products DEF Between, Limit
  <2> QED BY <2>1, <2>3, <2>4 DEF OverCommitBounded, Limit
<1> QED BY <1>1, <1>2

(* However the unlocked check and the puts of different threads interleave *)
(* (cache.c:150, 276), the cache promises at most Threads times what it    *)
(* should.                                                                 *)
THEOREM OverrunBounded == SafeSpec => []OverCommitBounded
<1>1. Init => Room
  BY InitRoom
<1>2. IInv /\ Room /\ [Next]_vars => Room'
  <2> SUFFICES ASSUME IInv, Room, [Next]_vars
               PROVE  Room'
    OBVIOUS
  <2>1. CASE Next
    BY <2>1, StepRoom DEF Next
  <2>2. CASE UNCHANGED vars
    <3>1. pc' = pc /\ total' = total /\ size' = size
      BY <2>2 DEF vars, cacheVars, entryVars
    <3>2. Inside' = Inside /\ Between' = Between /\ Limit' = Limit
      BY <3>1 DEF Inside, Between, Registering, Limit
    <3> QED BY <3>1, <3>2 DEF Room
  <2> QED BY <2>1, <2>2
<1>3. IInv /\ Room => OverCommitBounded
  BY RoomBounds
<1> QED BY <1>1, <1>2, <1>3, Invariance, PTL DEF SafeSpec

-----------------------------------------------------------------------------
(* Why a call of cache_find or cache_put returns, apart from fairness:     *)
(* structural_lock is free or its holder can go on, and the walks over the *)
(* list go forward to its end.                                             *)
LockWithCollector == \A c \in Client : lock = c <=> pc[c] = "scan"

LEMMA LockInvariance == SafeSpec => []LockWithCollector
<1>1. Init => LockWithCollector
  BY CacheAssumption DEF Init, LockWithCollector, CacheAssumption
<1>2. LockWithCollector /\ TypeOK /\ [Next]_vars => LockWithCollector'
  <2> SUFFICES ASSUME LockWithCollector, TypeOK, [Next]_vars PROVE LockWithCollector'
    OBVIOUS
  <2> USE CacheAssumption DEF LockWithCollector, TypeOK, CacheAssumption, At, Goto
  <2>1. ASSUME NEW c \in Client, Step(c) PROVE LockWithCollector'
    <3>1. CASE Find(c) \/ FindHit(c) \/ FindNext(c) \/ FindMiss(c) \/ GiveUp(c) \/ RespondOther(c)
      BY <3>1 DEF Find, FindHit, FindNext, FindMiss, GiveUp, RespondOther, cacheVars
    <3>2. CASE (\E n \in Sizes, e \in {c, Null} : Respond(c, n, e)) \/ Check(c) \/ Recheck(c)
      BY <3>2 DEF Respond, Check, Recheck, AfterCollect, cacheVars
    <3>3. CASE Collect(c) \/ ScanEnd(c)
      BY <3>3 DEF Collect, ScanEnd, Unlocked
    <3>4. CASE Scan(c)
      BY <3>4 DEF Scan
    <3>5. CASE Link(c)
      BY <3>5 DEF Link, cacheVars
    <3>6. CASE FreeMarked(c)
      BY <3>6 DEF FreeMarked, cacheVars
    <3>7. CASE Register(c) \/ Spin(c) \/ SpinFails(c) \/ Leave(c)
      BY <3>7 DEF Register, Spin, SpinFails, Leave, cacheVars
    <3> QED BY <2>1, <3>1, <3>2, <3>3, <3>4, <3>5, <3>6, <3>7 DEF Step, InCache
  <2>2. CASE UNCHANGED vars
    BY <2>2 DEF vars, cacheVars
  <2> QED BY <2>1, <2>2 DEF Next
<1> QED BY <1>1, <1>2, TypeCorrect, PTL DEF SafeSpec

(* The guards of InCache's steps. *)
CanGoOn(c) ==
  /\ running
  /\ \/ pc[c] = "find" /\ (pos[c] = Null \/ SaysSame(c, pos[c]) \/ lock = Null)
     \/ pc[c] \in {"collect", "append"} /\ lock = Null
     \/ pc[c] \in {"check", "scan", "recheck", "put", "nospace"}

NobodyStuck ==
  \A c \in Client :
    running /\ pc[c] \in {"find", "check", "collect", "scan", "recheck", "append", "put", "nospace"}
      => CanGoOn(c) \/ (lock \in Client /\ CanGoOn(lock))

(* A client inside the cache can go on, or the one that holds              *)
(* structural_lock can: the lock is never left behind.                     *)
THEOREM LockGivenBack == SafeSpec => []NobodyStuck
<1>1. TypeOK /\ LockWithCollector => NobodyStuck
  BY DEF TypeOK, Entry, LockWithCollector, NobodyStuck, CanGoOn
<1> QED BY <1>1, TypeCorrect, LockInvariance, PTL

(* A hop of a lookup or of the collector leads from an entry to the one    *)
(* that was put next, and the list does not grow under the collector: the  *)
(* walk ends, whatever is put or collected meanwhile.                      *)
HopsGoForward ==
  [][\A c \in Client :
       /\ pc[c] \in {"find", "scan"} /\ pos'[c] # pos[c] =>
            \E k \in 1..Len(puts) :
              pos[c] = puts[k] /\ pos'[c] = IF k = Len(puts) THEN Null ELSE puts[k + 1]
       /\ pc[c] = "scan" => puts' = puts]_vars

THEOREM WalksEnd == SafeSpec => HopsGoForward
<1> DEFINE A == \A c \in Client :
       /\ pc[c] \in {"find", "scan"} /\ pos'[c] # pos[c] =>
            \E k \in 1..Len(puts) :
              pos[c] = puts[k] /\ pos'[c] = IF k = Len(puts) THEN Null ELSE puts[k + 1]
       /\ pc[c] = "scan" => puts' = puts
<1>1. ASSUME IInv, LockWithCollector, NEW d \in Client, Step(d) PROVE A
  <2> SUFFICES ASSUME NEW c \in Client
               PROVE  /\ pc[c] \in {"find", "scan"} /\ pos'[c] # pos[c] =>
                           \E k \in 1..Len(puts) :
                             pos[c] = puts[k] /\ pos'[c] = IF k = Len(puts) THEN Null ELSE puts[k + 1]
                      /\ pc[c] = "scan" => puts' = puts
    OBVIOUS
  <2> USE <1>1, CacheAssumption DEF IInv, TypeOK, CacheAssumption, At, Goto
  <2>1. CASE FindNext(d) \/ Scan(d)
    <3>1. pc[d] \in {"find", "scan"} /\ pos[d] # Null /\ pos' = [pos EXCEPT ![d] = next[pos[d]]] /\ puts' = puts
      BY <2>1 DEF FindNext, Scan, history
    <3>2. PICK k \in 1..Len(puts) : puts[k] = pos[d]
      BY <3>1 DEF Positions, InList
    <3>3. next[pos[d]] = IF k = Len(puts) THEN Null ELSE puts[k + 1]
      BY <3>2 DEF ListInPutOrder
    <3> QED BY <3>1, <3>2, <3>3
  <2>2. CASE Find(d) \/ Check(d)
    BY <2>2 DEF Find, Check, walkVars, history
  <2>3. CASE Link(d)
    BY <2>3 DEF Link, LockWithCollector, walkVars
  <2>4. CASE FindHit(d) \/ FindMiss(d) \/ GiveUp(d) \/ RespondOther(d) \/ (\E n \in Sizes, e \in {d, Null} : Respond(d, n, e))
    BY <2>4 DEF FindHit, FindMiss, GiveUp, RespondOther, Respond, walkVars, history
  <2>5. CASE Collect(d) \/ ScanEnd(d) \/ Recheck(d) \/ FreeMarked(d)
    BY <2>5 DEF Collect, ScanEnd, Recheck, FreeMarked, walkVars, history
  <2>6. CASE Register(d) \/ Spin(d) \/ SpinFails(d) \/ Leave(d)
    BY <2>6 DEF Register, Spin, SpinFails, Leave, walkVars, history
  <2> QED BY <2>1, <2>2, <2>3, <2>4, <2>5, <2>6 DEF Step, InCache
<1>2. IInv /\ LockWithCollector /\ [Next]_vars => [A]_vars
  BY <1>1 DEF Next
<1> QED BY Invariance, LockInvariance, <1>2, PTL DEF SafeSpec, HopsGoForward
=============================================================================
