------------------------- MODULE CacheStreamProofs -------------------------
(***************************************************************************)
(* For any number of clients, any response length and any buffer size: no  *)
(* client is ahead of bytes_ready, none takes a chunk that is being        *)
(* written, none misses or repeats a byte, and none sleeps through the     *)
(* news.                                                                   *)
(***************************************************************************)
EXTENDS CacheStream, SequenceTheorems, TLAPS

Stored == End(Len(chunks))

(* The server connection is on its way out and appends no more. *)
Ending == spc \in {"done", "gone"} \/ (spc \in {"publish", "broadcast"} /\ then \in {"done", "gone"})

(* The chunks follow each other without a gap, and as long as the server   *)
(* connection is there they hold all that was read from the server.        *)
Chain ==
  /\ \A i \in 1..Len(chunks) : chunks[i].from = End(i - 1)
  /\ \A i \in 1..Len(chunks) : End(i) <= Stored
  /\ resp > 0 => chunks = <<>> /\ spc = "turn" /\ fetched = resp
  /\ ~ Ending /\ resp = 0 => fetched = Stored
  /\ Filling => Len(chunks) > 0 /\ chunks[Len(chunks)].size = 0 /\ ~ Ending /\ resp = 0

(* bytes_ready, with what is still to be published, is what is stored; and *)
(* it ends where a chunk ends.                                             *)
Accounting ==
  /\ Stored = ready + (CASE spc \in {"append", "read"} -> batch
                         [] spc = "publish" -> news
                         [] OTHER -> 0)
  /\ spc \in {"publish", "broadcast"} /\ then = "append" => batch = 0
  /\ \A i \in 1..Len(chunks) : End(i) <= ready \/ ready <= chunks[i].from

(* A reader stands at the end of its current chunk, within what it has     *)
(* seen of bytes_ready.                                                    *)
Places ==
  \A r \in Reader :
    /\ at[r] <= Len(chunks) /\ got[r] = End(at[r])
    /\ got[r] <= ready /\ seen[r] <= ready
    /\ rpc[r] \notin {"panic", "short"}
    /\ rpc[r] = "waiting" /\ got[r] < ready => spc = "broadcast"
    /\ Filling => at[r] < Len(chunks)

(* Within a turn there is a chunk left to read. *)
Turns == spc \in {"append", "read"} \/ (spc \in {"publish", "broadcast"} /\ then = "append")
           => turn < ChunksToRead

IInv == TypeOK /\ Turns /\ Chain /\ Accounting /\ Places

-----------------------------------------------------------------------------
(* Chunks begin and end at natural numbers. *)
LEMMA ChunkType ==
  ASSUME TypeOK, NEW i \in 1..Len(chunks)
  PROVE  /\ chunks[i] \in Chunk /\ chunks[i].from \in Nat /\ chunks[i].size \in Nat
         /\ End(i) = chunks[i].from + chunks[i].size
         /\ End(i) \in Nat
<1>1. chunks[i] \in Chunk
  BY ElementOfSeq DEF TypeOK
<1>2. i # 0
  OBVIOUS
<1> QED BY <1>1, <1>2 DEF Chunk, End

(* The list ends at a natural number too.                                  *)
LEMMA EndType ==
  ASSUME TypeOK, NEW i \in 0..Len(chunks)
  PROVE  End(i) \in Nat
<1>1. CASE i = 0
  BY <1>1 DEF End
<1>2. CASE i # 0
  <2>1. i \in 1..Len(chunks)
    BY <1>2
  <2> QED BY <2>1, ChunkType
<1> QED BY <1>1, <1>2

(* The first conjuncts of the properties follow from the invariant. *)
LEMMA IInvImplies ==
  ASSUME IInv
  PROVE  /\ NeverAhead /\ ChunkForEveryByte /\ NoTornRead /\ Contiguous /\ NoLostWakeup
<1> USE DEF IInv
<1>1. Len(chunks) \in Nat /\ Stored \in Nat /\ ready \in Nat /\ batch \in Nat /\ news \in Nat
  BY EndType DEF Stored, TypeOK
<1>2. NeverAhead
  BY DEF NeverAhead, Places
<1>3. ready <= Stored
  BY <1>1 DEF Accounting
<1>4. ChunkForEveryByte
  BY <1>3 DEF ChunkForEveryByte, Places, Stored
<1>5. NoTornRead
  <2> SUFFICES ASSUME NEW r \in Reader, More(r), Filling, at[r] + 1 = Len(chunks)
               PROVE  FALSE
    BY DEF NoTornRead
  <2>1. at[r] = Len(chunks) - 1 /\ at[r] \in Nat
    BY <1>1 DEF TypeOK
  <2>2. got[r] = chunks[Len(chunks)].from
    BY <1>1, <2>1 DEF Places, Chain
  <2>3. Stored = chunks[Len(chunks)].from
    BY <1>1, ChunkType DEF Stored, Chain
  <2>4. got[r] < seen[r] /\ seen[r] <= ready /\ seen[r] \in Nat /\ got[r] \in Nat
    BY DEF More, Places, TypeOK
  <2> QED BY <1>1, <1>3, <2>2, <2>3, <2>4
<1>6. Contiguous
  <2> SUFFICES ASSUME NEW r \in Reader
               PROVE  /\ got[r] = End(at[r])
                      /\ at[r] < Len(chunks) => chunks[at[r] + 1].from = got[r]
    BY DEF Contiguous
  <2>1. at[r] \in Nat /\ got[r] = End(at[r])
    BY DEF TypeOK, Places
  <2>2. CASE at[r] < Len(chunks)
    <3>1. at[r] + 1 \in 1..Len(chunks) /\ (at[r] + 1) - 1 = at[r]
      BY <1>1, <2>1, <2>2
    <3> QED BY <2>1, <3>1 DEF Chain
  <2> QED BY <2>1, <2>2
<1>7. NoLostWakeup
  BY DEF NoLostWakeup, Places
<1> QED BY <1>2, <1>4, <1>5, <1>6, <1>7

(* The initial states satisfy the invariant. *)
LEMMA InitIInv == Init => IInv
<1> SUFFICES ASSUME Init PROVE IInv
  OBVIOUS
<1> USE DEF Init
<1>1. TypeOK /\ Turns
  BY CacheStreamAssumption DEF TypeOK, Turns, CacheStreamAssumption, Chunk
<1>2. Len(chunks) = 0 /\ Stored = 0
  BY DEF Stored, End
<1>3. Chain
  BY <1>2, CacheStreamAssumption DEF Chain, Filling, CacheStreamAssumption
<1>4. Accounting
  BY <1>2 DEF Accounting
<1>5. Places
  BY <1>2 DEF Places, End, Filling
<1> QED BY <1>1, <1>3, <1>4, <1>5 DEF IInv
-----------------------------------------------------------------------------
(* An appended chunk leaves the others as they are. *)
LEMMA AppendFacts ==
  ASSUME TypeOK, NEW f \in Nat, NEW n \in Nat,
         chunks' = Append(chunks, [from |-> f, size |-> n])
  PROVE  /\ Len(chunks) \in Nat /\ Len(chunks') = Len(chunks) + 1
         /\ chunks' \in Seq(Chunk) /\ chunks' # <<>>
         /\ \A i \in 1..Len(chunks) : chunks'[i] = chunks[i]
         /\ \A i \in 0..Len(chunks) : End(i)' = End(i)
         /\ chunks'[Len(chunks')].from = f /\ chunks'[Len(chunks')].size = n
         /\ Stored' = f + n
<1>1. [from |-> f, size |-> n] \in Chunk
  BY DEF Chunk
<1>2. /\ Len(chunks) \in Nat /\ Len(chunks') = Len(chunks) + 1
      /\ chunks' \in Seq(Chunk)
      /\ \A i \in 1..Len(chunks) : chunks'[i] = chunks[i]
      /\ chunks'[Len(chunks')] = [from |-> f, size |-> n]
  BY <1>1, AppendProperties DEF TypeOK
<1>3. \A i \in 0..Len(chunks) : End(i)' = End(i)
  BY <1>2 DEF End
<1>4. Stored' = f + n
  BY <1>2 DEF Stored, End
<1>5. chunks' # <<>>
  BY <1>2, EmptySeq
<1> QED BY <1>2, <1>3, <1>4, <1>5

(* Filling the last chunk leaves the others as they are. *)
LEMMA FillFacts ==
  ASSUME TypeOK, NEW n \in Nat, Len(chunks) > 0,
         chunks' = [chunks EXCEPT ![Len(chunks)].size = n]
  PROVE  /\ Len(chunks) \in Nat /\ Len(chunks') = Len(chunks)
         /\ chunks' \in Seq(Chunk) /\ chunks' # <<>>
         /\ \A i \in 1..Len(chunks) : chunks'[i].from = chunks[i].from
         /\ \A i \in 0..(Len(chunks) - 1) : End(i)' = End(i)
         /\ Stored' = chunks[Len(chunks)].from + n
<1> DEFINE L == Len(chunks)
           e == [chunks[L] EXCEPT !.size = n]
<1>1. L \in Nat /\ L \in 1..L /\ chunks \in Seq(Chunk)
  BY LenProperties DEF TypeOK
<1>2. chunks[L] \in Chunk
  BY <1>1, ChunkType
<1>3. e \in Chunk /\ e.from = chunks[L].from /\ e.size = n
  BY <1>2 DEF Chunk
<1>4. chunks' = [chunks EXCEPT ![L] = e]
  OBVIOUS
<1>5. /\ chunks' \in Seq(Chunk) /\ Len(chunks') = L
      /\ \A i \in 1..L : chunks'[i] = IF i = L THEN e ELSE chunks[i]
  BY <1>1, <1>3, <1>4, ExceptSeq
<1>6. \A i \in 0..(L - 1) : End(i)' = End(i)
  BY <1>1, <1>5 DEF End
<1>7. Stored' = chunks[L].from + n
  BY <1>1, <1>3, <1>5 DEF Stored, End
<1>8. chunks' # <<>>
  BY <1>1, <1>5, EmptySeq
<1> QED BY <1>1, <1>3, <1>5, <1>6, <1>7, <1>8

(* No chunk ends after the last, when only the last one is new.            *)
LEMMA EarlierEnds ==
  ASSUME IInv, Len(chunks') \in Nat,
         \A i \in 1..(Len(chunks') - 1) : i \in 1..Len(chunks) /\ End(i)' = End(i),
         Stored' \in Nat, Stored <= Stored'
  PROVE  \A i \in 1..Len(chunks') : End(i)' <= Stored'
<1> SUFFICES ASSUME NEW i \in 1..Len(chunks') PROVE End(i)' <= Stored'
  OBVIOUS
<1>1. CASE i \in 1..(Len(chunks') - 1)
  <2>1. End(i)' = End(i) /\ End(i) <= Stored /\ End(i) \in Nat
    BY <1>1, EndType DEF IInv, Chain
  <2>2. Stored \in Nat
    BY EndType, LenProperties DEF Stored, IInv, TypeOK
  <2> QED BY <2>1, <2>2
<1>2. CASE i = Len(chunks')
  BY <1>2 DEF Stored
<1> QED BY <1>1, <1>2

(* A step of the server connection that moves no reader keeps them where   *)
(* they are, as long as bytes_ready does not shrink.                       *)
LEMMA PlacesKept ==
  ASSUME IInv, UNCHANGED <<rpc, at, got, seen>>,
         Len(chunks') \in Nat, Len(chunks') >= Len(chunks),
         ready' \in Nat, ready' >= ready,
         ready' > ready \/ spc = "broadcast" => spc' = "broadcast",
         \A r \in Reader : End(at[r])' = End(at[r]),
         Filling' => Len(chunks') > Len(chunks)
  PROVE  Places'
<1>1. Len(chunks) \in Nat /\ ready \in Nat
  BY DEF IInv, TypeOK
<1> SUFFICES ASSUME NEW r \in Reader
             PROVE  /\ at[r] <= Len(chunks') /\ got[r] = End(at[r])
                    /\ got[r] <= ready' /\ seen[r] <= ready'
                    /\ rpc[r] \notin {"panic", "short"}
                    /\ rpc[r] = "waiting" /\ got[r] < ready' => spc' = "broadcast"
                    /\ Filling' => at[r] < Len(chunks')
  BY DEF Places
<1>2. at[r] \in Nat /\ got[r] \in Nat /\ seen[r] \in Nat
  BY DEF IInv, TypeOK
<1> QED BY <1>1, <1>2 DEF IInv, Places

-----------------------------------------------------------------------------
(* What is left of the response is stored in one chunk, or an empty one.   *)
LEMMA BeginTurnIInv ==
  ASSUME IInv, BeginTurn
  PROVE  IInv'
<1> DEFINE f == IF resp > 0 THEN 0 ELSE fetched
<1> USE DEF IInv
<1>1. f \in Nat /\ resp \in Nat /\ resp \in 0..BufSize /\ ready \in Nat /\ fetched \in Nat
  BY CacheStreamAssumption DEF TypeOK, CacheStreamAssumption
<1>2. /\ spc = "turn" /\ ~ Ending /\ chunks' = Append(chunks, [from |-> f, size |-> resp])
      /\ resp' = 0 /\ news' = resp /\ batch' = 0 /\ turn' = 0 /\ then' = "append"
      /\ spc' = (IF resp > 0 THEN "publish" ELSE "append")
      /\ UNCHANGED <<length, expected, ready, fetched, rpc, at, got, seen, sent, running>>
  BY DEF BeginTurn, KeptResponse, FirstBatch, readerVars, Ending
<1>3. /\ Len(chunks) \in Nat /\ Len(chunks') = Len(chunks) + 1
      /\ chunks' \in Seq(Chunk) /\ chunks' # <<>>
      /\ \A i \in 1..Len(chunks) : chunks'[i] = chunks[i]
      /\ \A i \in 0..Len(chunks) : End(i)' = End(i)
      /\ chunks'[Len(chunks')].from = f /\ chunks'[Len(chunks')].size = resp
      /\ Stored' = f + resp
  BY <1>1, <1>2, AppendFacts
<1>4. Stored = ready /\ Stored = f /\ Stored = End(Len(chunks))
  <2>1. Stored = ready
    BY <1>1, <1>2 DEF Accounting
  <2>2. CASE resp > 0
    BY <1>2, <2>1, <2>2 DEF Chain, Stored, End
  <2>3. CASE resp = 0
    BY <1>2, <2>1, <2>3 DEF Chain, Stored
  <2> QED BY <1>1, <2>1, <2>2, <2>3
<1>5. TypeOK' /\ Turns'
  BY <1>1, <1>2, <1>3, CacheStreamAssumption DEF TypeOK, Turns, CacheStreamAssumption
<1>6. Chain'
  <2>1. \A i \in 1..Len(chunks') : chunks'[i].from = End(i - 1)'
    <3> SUFFICES ASSUME NEW i \in 1..Len(chunks') PROVE chunks'[i].from = End(i - 1)'
      OBVIOUS
    <3>1. i - 1 \in 0..Len(chunks)
      BY <1>3
    <3>2. CASE i \in 1..Len(chunks)
      BY <1>3, <3>1, <3>2 DEF Chain
    <3>3. CASE i = Len(chunks')
      BY <1>3, <1>4, <3>1, <3>3
    <3> QED BY <1>3, <3>2, <3>3
  <2>2. fetched' = Stored'
    BY <1>1, <1>2, <1>3, <1>4 DEF Chain
  <2>3. Stored <= Stored' /\ Stored' \in Nat
    BY <1>1, <1>3, <1>4
  <2>4. \A i \in 1..Len(chunks') : End(i)' <= Stored'
    BY <2>3, EarlierEnds, <1>3
  <2> QED BY <1>1, <1>2, <2>1, <2>2, <2>4 DEF Chain, Filling
<1>7. Accounting'
  <2>1. Stored' = ready' + resp
    BY <1>1, <1>2, <1>3, <1>4
  <2>2. \A i \in 1..Len(chunks') : End(i)' <= ready' \/ ready' <= chunks'[i].from
    <3> SUFFICES ASSUME NEW i \in 1..Len(chunks')
                 PROVE  End(i)' <= ready' \/ ready' <= chunks'[i].from
      OBVIOUS
    <3>1. CASE i \in 1..Len(chunks)
      BY <1>2, <1>3, <3>1 DEF Accounting
    <3>2. CASE i = Len(chunks')
      BY <1>1, <1>2, <1>3, <1>4, <3>2
    <3> QED BY <1>3, <3>1, <3>2
  <2> QED BY <1>1, <1>2, <2>1, <2>2 DEF Accounting
<1>8. Places'
  <2>1. \A r \in Reader : End(at[r])' = End(at[r])
    BY <1>2, <1>3 DEF Places, TypeOK
  <2> QED BY <1>1, <1>2, <1>3, <2>1, PlacesKept
<1> QED BY <1>5, <1>6, <1>7, <1>8

(* centry_put fails: what was read so far is still to be published.        *)
LEMMA PutNoMemoryIInv ==
  ASSUME IInv, PutNoMemory
  PROVE  IInv'
<1> USE DEF IInv
<1>1. /\ spc \in {"turn", "append"} /\ ~ Ending /\ resp' = 0
      /\ news' = (IF spc = "turn" THEN 0 ELSE batch)
      /\ spc' = "publish" /\ then' = "gone"
      /\ UNCHANGED <<length, expected, chunks, ready, fetched, turn, batch, rpc, at, got, seen, sent, running>>
  BY DEF PutNoMemory, KeptResponse, FirstBatch, readerVars, entryVars, Ending
<1>2. TypeOK' /\ Turns'
  BY <1>1, CacheStreamAssumption DEF TypeOK, Turns, CacheStreamAssumption
<1>3. Stored' = Stored /\ \A i \in 0..Len(chunks) : End(i)' = End(i)
  BY <1>1 DEF Stored, End
<1>4. Chain'
  BY <1>1, <1>3 DEF Chain, Ending, Filling, End
<1>5. Accounting'
  BY <1>1, <1>3 DEF Accounting, End
<1>6. Places'
  BY <1>1 DEF Places, Filling, End
<1> QED BY <1>2, <1>4, <1>5, <1>6

(* The new empty chunk is not counted, and no reader stands behind it.     *)
LEMMA AppendChunkIInv ==
  ASSUME IInv, AppendChunk
  PROVE  IInv'
<1> USE DEF IInv
<1>1. /\ spc = "append" /\ ~ Ending /\ resp = 0
      /\ chunks' = Append(chunks, [from |-> fetched, size |-> 0])
      /\ spc' = "read"
      /\ UNCHANGED <<length, expected, ready, resp, fetched, then, turn, batch, news,
                     rpc, at, got, seen, sent, running>>
  BY DEF AppendChunk, readerVars, Ending, Chain, TypeOK
<1>2. fetched \in Nat /\ ready \in Nat /\ batch \in Nat /\ Stored = fetched
      /\ Stored = ready + batch
  BY <1>1 DEF TypeOK, Chain, Accounting
<1>3. /\ Len(chunks) \in Nat /\ Len(chunks') = Len(chunks) + 1
      /\ chunks' \in Seq(Chunk) /\ chunks' # <<>>
      /\ \A i \in 1..Len(chunks) : chunks'[i] = chunks[i]
      /\ \A i \in 0..Len(chunks) : End(i)' = End(i)
      /\ chunks'[Len(chunks')].from = fetched /\ chunks'[Len(chunks')].size = 0
      /\ Stored' = fetched
  <2>1. /\ TypeOK /\ fetched \in Nat /\ 0 \in Nat
        /\ chunks' = Append(chunks, [from |-> fetched, size |-> 0])
    BY <1>1, <1>2
  <2>2. /\ Len(chunks) \in Nat /\ Len(chunks') = Len(chunks) + 1
        /\ chunks' \in Seq(Chunk) /\ chunks' # <<>>
        /\ \A i \in 1..Len(chunks) : chunks'[i] = chunks[i]
        /\ \A i \in 0..Len(chunks) : End(i)' = End(i)
        /\ chunks'[Len(chunks')].from = fetched /\ chunks'[Len(chunks')].size = 0
        /\ Stored' = fetched + 0
    BY ONLY <2>1, AppendFacts
  <2>3. fetched + 0 = fetched
    BY ONLY <2>1
  <2> QED BY ONLY <2>2, <2>3
<1>4. TypeOK' /\ Turns'
  BY <1>1, <1>3 DEF TypeOK, Turns
<1>5. Chain'
  <2>1. \A i \in 1..Len(chunks') : chunks'[i].from = End(i - 1)'
    <3> SUFFICES ASSUME NEW i \in 1..Len(chunks') PROVE chunks'[i].from = End(i - 1)'
      OBVIOUS
    <3>1. i - 1 \in 0..Len(chunks)
      BY <1>3
    <3>2. CASE i \in 1..Len(chunks)
      BY <1>3, <3>1, <3>2 DEF Chain
    <3>3. CASE i = Len(chunks')
      BY <1>2, <1>3, <3>1, <3>3 DEF Stored
    <3> QED BY <1>3, <3>2, <3>3
  <2>2. Stored <= Stored' /\ Stored' \in Nat
    <3>1. Stored' = fetched /\ Stored = fetched /\ fetched \in Nat
      BY <1>2, <1>3
    <3> QED BY ONLY <3>1
  <2>3. \A i \in 1..Len(chunks') : End(i)' <= Stored'
    BY <1>3, <2>2, EarlierEnds
  <2> QED BY <1>1, <1>3, <2>1, <2>3 DEF Chain, Filling, Ending
<1>6. Accounting'
  <2>1. \A i \in 1..Len(chunks') : End(i)' <= ready' \/ ready' <= chunks'[i].from
    <3> SUFFICES ASSUME NEW i \in 1..Len(chunks')
                 PROVE  End(i)' <= ready' \/ ready' <= chunks'[i].from
      OBVIOUS
    <3>1. CASE i \in 1..Len(chunks)
      BY <1>1, <1>3, <3>1 DEF Accounting
    <3>2. CASE i = Len(chunks')
      BY <1>1, <1>2, <1>3, <3>2
    <3> QED BY <1>3, <3>1, <3>2
  <2> QED BY <1>1, <1>2, <1>3, <2>1 DEF Accounting
<1>7. Places'
  <2>1. \A r \in Reader : End(at[r])' = End(at[r])
    BY <1>1, <1>3 DEF Places, TypeOK
  <2> QED BY <1>1, <1>2, <1>3, <2>1, PlacesKept
<1> QED BY <1>4, <1>5, <1>6, <1>7

(* Bytes read into the last chunk are owed to the readers as read_on_iteration. *)
LEMMA ReadSomeIInv ==
  ASSUME IInv, NEW n \in 1..BufSize, ReadSome(n)
  PROVE  IInv'
<1> DEFINE L == Len(chunks)
<1> USE DEF IInv
<1>1. /\ spc = "read" /\ ~ Ending /\ resp = 0 /\ L > 0 /\ chunks[L].size = 0
      /\ chunks' = [chunks EXCEPT ![L].size = n]
      /\ fetched' = fetched + n /\ batch' = batch + n /\ turn' = turn + 1
      /\ \/ spc' = "publish" /\ then' = "turn" /\ news' = batch + n /\ turn + 1 = ChunksToRead
         \/ spc' = "append" /\ then' = then /\ news' = news /\ turn + 1 # ChunksToRead
      /\ UNCHANGED <<length, expected, ready, resp, rpc, at, got, seen, sent, running>>
  BY DEF ReadSome, LastOfTurn, readerVars, Chain, Filling
<1>2. n \in Nat /\ ready \in Nat /\ batch \in Nat /\ fetched \in Nat
  BY CacheStreamAssumption DEF TypeOK, CacheStreamAssumption
<1>3. /\ L \in Nat /\ Len(chunks') = L
      /\ chunks' \in Seq(Chunk) /\ chunks' # <<>>
      /\ \A i \in 1..L : chunks'[i].from = chunks[i].from
      /\ \A i \in 0..(L - 1) : End(i)' = End(i)
      /\ Stored' = chunks[L].from + n
  BY <1>1, <1>2, FillFacts
<1>4. Stored = chunks[L].from /\ Stored = fetched /\ Stored = ready + batch
  <2>1. Stored = chunks[L].from + chunks[L].size /\ chunks[L].from \in Nat
    BY <1>1, <1>3, ChunkType DEF Stored
  <2> QED BY <1>1, <2>1 DEF Chain, Accounting
<1>5. TypeOK' /\ Turns'
  <2>1. turn + 1 \in 0..ChunksToRead /\ (turn + 1 # ChunksToRead => turn + 1 < ChunksToRead)
    <3>1. turn < ChunksToRead
      BY <1>1 DEF Turns
    <3> QED BY <3>1, CacheStreamAssumption DEF TypeOK, CacheStreamAssumption
  <2>2. fetched + n \in Nat /\ batch + n \in Nat
    BY <1>2
  <2>3. TypeOK'
    BY <1>1, <1>3, <2>1, <2>2 DEF TypeOK
  <2>4. Turns'
    BY <1>1, <2>1 DEF Turns
  <2> QED BY <2>3, <2>4
<1>6. Chain'
  <2>1. \A i \in 1..L : chunks'[i].from = End(i - 1)'
    BY <1>3 DEF Chain
  <2>2. Stored <= Stored' /\ Stored' \in Nat
    BY <1>2, <1>3, <1>4
  <2>3. \A i \in 1..L : End(i)' <= Stored'
    BY <1>3, <2>2, EarlierEnds
  <2> QED BY <1>1, <1>2, <1>3, <1>4, <2>1, <2>3 DEF Chain, Filling, Ending
<1>7. Accounting'
  <2>1. \A i \in 1..L : End(i)' <= ready' \/ ready' <= chunks'[i].from
    <3> SUFFICES ASSUME NEW i \in 1..L
                 PROVE  End(i)' <= ready' \/ ready' <= chunks'[i].from
      OBVIOUS
    <3>1. CASE i # L
      BY <1>1, <1>3, <3>1 DEF Accounting
    <3>2. CASE i = L
      <4>1. chunks'[L].from = ready + batch
        BY <1>3, <1>4, <3>2
      <4>2. ready' <= chunks'[L].from
        BY <1>1, <1>2, <4>1
      <4> QED BY <3>2, <4>2
    <3> QED BY <3>1, <3>2
  <2>2. Stored' = ready' + (batch + n)
    BY <1>1, <1>2, <1>3, <1>4
  <2> QED BY <1>1, <1>2, <1>3, <2>1, <2>2 DEF Accounting
<1>8. Places'
  <2>1. \A r \in Reader : End(at[r])' = End(at[r])
    BY <1>1, <1>3 DEF Places, TypeOK, Filling
  <2>2. ~ Filling'
    BY <1>1 DEF Filling
  <2> QED BY <1>1, <1>2, <1>3, <2>1, <2>2, PlacesKept
<1> QED BY <1>5, <1>6, <1>7, <1>8

(* The end of the response publishes what its turn has read.               *)
LEMMA ReadEndIInv ==
  ASSUME IInv, NEW next \in {"done", "gone"}, ReadEnd(next)
  PROVE  IInv'
<1> USE DEF IInv
<1>1. /\ spc = "read" /\ ~ Ending
      /\ news' = batch /\ spc' = "publish" /\ then' = next
      /\ UNCHANGED <<length, expected, chunks, ready, resp, fetched, turn, batch,
                     rpc, at, got, seen, sent, running>>
  BY DEF ReadEnd, readerVars, entryVars, Ending
<1>2. TypeOK' /\ Turns'
  BY <1>1 DEF TypeOK, Turns
<1>3. Stored' = Stored
  BY <1>1 DEF Stored, End
<1>4. Chain'
  BY <1>1, <1>3 DEF Chain, Ending, Filling, End
<1>5. Accounting'
  BY <1>1, <1>3 DEF Accounting, End
<1>6. Places'
  BY <1>1 DEF Places, Filling, End
<1> QED BY <1>2, <1>4, <1>5, <1>6

(* A connection that is done has published everything.                     *)
LEMMA ServerDoneIInv ==
  ASSUME IInv, ServerDone
  PROVE  IInv'
<1> USE DEF IInv
<1>1. /\ spc = "done" /\ spc' = "gone"
      /\ UNCHANGED <<length, expected, chunks, ready, resp, fetched, then, turn, batch, news,
                     rpc, at, got, seen, sent, running>>
  BY DEF ServerDone, readerVars, entryVars
<1>2. TypeOK' /\ Turns'
  BY <1>1 DEF TypeOK, Turns
<1>3. Stored' = Stored
  BY <1>1 DEF Stored, End
<1>4. Chain'
  BY <1>1, <1>3 DEF Chain, Ending, Filling, End
<1>5. Accounting'
  BY <1>1, <1>3 DEF Accounting, End
<1>6. Places'
  BY <1>1 DEF Places, Filling, End
<1> QED BY <1>2, <1>4, <1>5, <1>6

(* lag_broadcast: bytes_ready catches up with the list, at the end of a chunk. *)
LEMMA PublishIInv ==
  ASSUME IInv, Publish
  PROVE  IInv'
<1> USE DEF IInv
<1>1. /\ spc = "publish" /\ spc' = "broadcast" /\ ready' = ready + news
      /\ UNCHANGED <<length, expected, chunks, resp, fetched, then, turn, batch, news,
                     rpc, at, got, seen, sent, running>>
  BY DEF Publish, Published, readerVars
<1>2. ready \in Nat /\ news \in Nat /\ Len(chunks) \in Nat /\ Stored = ready + news
  BY <1>1 DEF TypeOK, Accounting
<1>3. TypeOK' /\ Turns'
  BY <1>1, <1>2 DEF TypeOK, Turns
<1>4. Stored' = Stored /\ \A i \in 0..Len(chunks) : End(i)' = End(i)
  BY <1>1 DEF Stored, End
<1>5. Chain'
  BY <1>1, <1>4 DEF Chain, Ending, Filling, End
<1>6. Accounting'
  <2>1. \A i \in 1..Len(chunks) : End(i)' <= ready'
    BY <1>1, <1>2, <1>4 DEF Chain
  <2>2. Stored' = ready' + 0
    BY <1>1, <1>2, <1>4
  <2> QED BY <1>1, <2>1, <2>2 DEF Accounting
<1>7. Places'
  <2>1. \A r \in Reader : End(at[r])' = End(at[r])
    BY <1>1 DEF End
  <2> QED BY <1>1, <1>2, <2>1, PlacesKept DEF Filling
<1> QED BY <1>3, <1>5, <1>6, <1>7

(* After the broadcast nobody waits.                                       *)
LEMMA BroadcastIInv ==
  ASSUME IInv, Broadcast
  PROVE  IInv'
<1> USE DEF IInv
<1>1. /\ spc = "broadcast" /\ spc' = then
      /\ rpc' = [r \in Reader |-> IF rpc[r] = "waiting" THEN "woken" ELSE rpc[r]]
      /\ UNCHANGED <<length, expected, chunks, ready, resp, fetched, then, turn, batch, news,
                     at, got, seen, sent, running>>
  BY DEF Broadcast, Wakes, entryVars
<1>2. then \in {"turn", "append", "done", "gone"}
  BY DEF TypeOK
<1>3. \A r \in Reader : rpc'[r] = IF rpc[r] = "waiting" THEN "woken" ELSE rpc[r]
  BY <1>1
<1>4. TypeOK' /\ Turns'
  BY <1>1, <1>2 DEF TypeOK, Turns
<1>5. Stored' = Stored /\ (Ending' <=> Ending)
  BY <1>1, <1>2 DEF Stored, End, Ending
<1>6. Chain'
  BY <1>1, <1>2, <1>5 DEF Chain, Filling, End
<1>7. Accounting'
  BY <1>1, <1>2, <1>5 DEF Accounting, End
<1>8. Places'
  <2> SUFFICES ASSUME NEW r \in Reader
               PROVE  /\ at[r] <= Len(chunks) /\ got[r] = End(at[r])'
                      /\ got[r] <= ready /\ seen[r] <= ready
                      /\ rpc'[r] \notin {"panic", "short", "waiting"}
                      /\ ~ Filling'
    BY <1>1 DEF Places
  <2> QED BY <1>1, <1>2, <1>3 DEF Places, Filling, End
<1> QED BY <1>4, <1>6, <1>7, <1>8

-----------------------------------------------------------------------------
(* A step of one reader disturbs only its own place. *)
LEMMA ReaderStep ==
  ASSUME IInv, NEW r \in Reader, UNCHANGED <<entryVars, serverVars>>, TypeOK',
         \A q \in Reader \ {r} :
           rpc'[q] = rpc[q] /\ at'[q] = at[q] /\ got'[q] = got[q] /\ seen'[q] = seen[q],
         at'[r] <= Len(chunks) /\ got'[r] = End(at'[r]),
         got'[r] <= ready /\ seen'[r] <= ready,
         rpc'[r] \notin {"panic", "short"},
         rpc'[r] = "waiting" => (got'[r] < ready => spc = "broadcast"),
         Filling => at'[r] < Len(chunks)
  PROVE  IInv'
<1> USE DEF IInv, entryVars, serverVars
<1>1. Stored' = Stored /\ (Ending' <=> Ending) /\ (Filling' <=> Filling)
  BY DEF Stored, End, Ending, Filling
<1>2. Turns' /\ Chain'
  BY <1>1 DEF Turns, Chain, End
<1>3. Accounting'
  BY <1>1 DEF Accounting, End
<1>4. Places'
  BY <1>1 DEF Places, End
<1> QED BY <1>2, <1>3, <1>4

(* Joining, being woken and giving up change where a reader is in its      *)
(* turn, not what it holds.                                                *)
LEMMA JoinIInv ==
  ASSUME IInv, NEW r \in Reader, Join(r) \/ SpuriousWakeup(r) \/ Timeout(r)
  PROVE  IInv'
<1>1. /\ UNCHANGED <<entryVars, serverVars, at, got, seen, sent, running>>
      /\ \E p \in {"queued", "woken", "send"} : rpc' = [rpc EXCEPT ![r] = p]
  BY DEF Join, SpuriousWakeup, Timeout
<1>2. TypeOK'
  BY <1>1 DEF IInv, TypeOK, entryVars, serverVars
<1>3. rpc'[r] \in {"queued", "woken", "send"} /\ \A q \in Reader \ {r} : rpc'[q] = rpc[q]
  BY <1>1 DEF IInv, TypeOK
<1> QED BY <1>1, <1>2, <1>3, ReaderStep DEF IInv, Places

(* bytes_ready is never less than what a reader has read, so that taking   *)
(* a look at it raises no panic, and a reader that waits has it all.       *)
LEMMA LookIInv ==
  ASSUME IInv, NEW r \in Reader, Look(r) \/ LookAgain(r)
  PROVE  IInv'
<1>1. /\ UNCHANGED <<entryVars, serverVars, at, got, running>>
      /\ seen' = [seen EXCEPT ![r] = ready]
      /\ sent' = sent \/ sent' = [sent EXCEPT ![r] = 0]
      /\ rpc' = [rpc EXCEPT ![r] = IF ready = got[r] THEN "waiting" ELSE "send"]
  <2>1. ~ (ready < got[r])
    BY DEF IInv, Places, TypeOK
  <2> QED BY <2>1 DEF Look, LookAgain, AfterLook
<1>2. TypeOK'
  BY <1>1, CacheStreamAssumption DEF IInv, TypeOK, entryVars, serverVars, CacheStreamAssumption
<1>3. /\ rpc'[r] = (IF ready = got[r] THEN "waiting" ELSE "send") /\ seen'[r] = ready
      /\ \A q \in Reader \ {r} : rpc'[q] = rpc[q] /\ seen'[q] = seen[q]
  BY <1>1 DEF IInv, TypeOK
<1>4. ready \in Nat /\ ready <= ready
  BY DEF IInv, TypeOK
<1> QED BY <1>1, <1>2, <1>3, <1>4, ReaderStep DEF IInv, Places

(* There is a chunk for a reader that has not yet read all it has seen of  *)
(* bytes_ready, and the chunk is a published one.                          *)
LEMMA NextChunk ==
  ASSUME IInv, NEW r \in Reader, More(r)
  PROVE  /\ at[r] + 1 \in 1..Len(chunks)
         /\ End(at[r] + 1) = got[r] + chunks[at[r] + 1].size
         /\ End(at[r] + 1) <= ready
         /\ Filling => at[r] + 1 < Len(chunks)
<1> DEFINE k == at[r] + 1
<1> USE DEF IInv
<1>1. /\ Len(chunks) \in Nat /\ at[r] \in Nat /\ at[r] <= Len(chunks) /\ got[r] = End(at[r])
      /\ got[r] \in Nat /\ seen[r] \in Nat /\ ready \in Nat /\ batch \in Nat /\ news \in Nat
      /\ got[r] < ready
  BY DEF TypeOK, Places, More
<1>2. ready <= Stored /\ Stored \in Nat
  BY <1>1, EndType DEF Accounting, Stored
<1>3. k \in 1..Len(chunks) /\ k - 1 = at[r]
  BY <1>1, <1>2 DEF Stored
<1>4. /\ chunks[k].from = got[r] /\ chunks[k].size \in Nat
      /\ End(k) = chunks[k].from + chunks[k].size
  BY <1>1, <1>3, ChunkType DEF Chain
<1>5. End(k) <= ready
  BY <1>1, <1>3, <1>4 DEF Accounting
<1>6. Filling => k < Len(chunks)
  <2> SUFFICES ASSUME Filling, k = Len(chunks) PROVE FALSE
    BY <1>1, <1>3
  <2>1. chunks[k].size = 0
    BY DEF Chain
  <2> QED BY <1>1, <1>2, <1>4, <2>1 DEF Stored
<1> QED BY <1>3, <1>4, <1>5, <1>6

(* A chunk sent moves the reader to the end of a published chunk.          *)
LEMMA SendChunkIInv ==
  ASSUME IInv, NEW r \in Reader, SendChunk(r)
  PROVE  IInv'
<1>1. /\ at[r] + 1 \in 1..Len(chunks)
      /\ End(at[r] + 1) = got[r] + chunks[at[r] + 1].size
      /\ End(at[r] + 1) <= ready
      /\ Filling => at[r] + 1 < Len(chunks)
      /\ End(at[r] + 1) \in Nat
  BY NextChunk, ChunkType DEF SendChunk, IInv
<1>2. at[r] \in Nat /\ sent[r] \in 0..ChunksToRead /\ sent[r] < ChunksToRead /\ Len(chunks) \in Nat
  BY DEF IInv, TypeOK, SendChunk, More
<1>3. /\ at' = [at EXCEPT ![r] = at[r] + 1]
      /\ got' = [got EXCEPT ![r] = got[r] + chunks[at[r] + 1].size]
      /\ sent' = [sent EXCEPT ![r] = sent[r] + 1]
      /\ UNCHANGED <<entryVars, serverVars, rpc, seen, running>>
  <2>1. at[r] # Len(chunks)
    BY <1>1, <1>2
  <2> QED BY <2>1 DEF SendChunk
<1>4. TypeOK'
  <2>1. got[r] + chunks[at[r] + 1].size \in Nat /\ at[r] + 1 \in Nat /\ sent[r] + 1 \in 0..ChunksToRead
    BY <1>1, <1>2, CacheStreamAssumption DEF CacheStreamAssumption
  <2> QED BY <1>3, <2>1 DEF IInv, TypeOK, entryVars, serverVars
<1>5. /\ at'[r] = at[r] + 1 /\ got'[r] = End(at'[r])
      /\ \A q \in Reader \ {r} : at'[q] = at[q] /\ got'[q] = got[q]
  BY <1>1, <1>3 DEF IInv, TypeOK
<1>6. rpc[r] = "send"
  BY DEF SendChunk
<1> QED BY <1>1, <1>2, <1>3, <1>4, <1>5, <1>6, ReaderStep DEF IInv, Places

(* Ending a turn, or the session, leaves what the reader holds. *)
LEMMA EndSendIInv ==
  ASSUME IInv, NEW r \in Reader, WriteError(r) \/ BrokenPipe(r) \/ EndSend(r)
  PROVE  IInv'
<1>1. /\ UNCHANGED <<entryVars, serverVars, at, got, seen, sent>>
      /\ \E p \in {"dropped", "finished", "queued"} : rpc' = [rpc EXCEPT ![r] = p]
      /\ running' \in BOOLEAN
  BY DEF WriteError, BrokenPipe, EndSend, IInv, TypeOK
<1>2. TypeOK'
  BY <1>1 DEF IInv, TypeOK, entryVars, serverVars
<1>3. rpc'[r] \in {"dropped", "finished", "queued"} /\ \A q \in Reader \ {r} : rpc'[q] = rpc[q]
  BY <1>1 DEF IInv, TypeOK
<1> QED BY <1>1, <1>2, <1>3, ReaderStep DEF IInv, Places

-----------------------------------------------------------------------------
(* The invariant is inductive: it holds in every reachable state, for any  *)
(* clients, response lengths, expectations and buffer size.                *)
THEOREM Invariance == SafeSpec => []IInv
<1>1. Init => IInv
  BY InitIInv
<1>2. IInv /\ [Next]_vars => IInv'
  <2> SUFFICES ASSUME IInv, [Next]_vars PROVE IInv'
    OBVIOUS
  <2>1. CASE Server
    BY <2>1, BeginTurnIInv, PutNoMemoryIInv, AppendChunkIInv, ReadSomeIInv, ReadEndIInv,
       ServerDoneIInv, PublishIInv, BroadcastIInv DEF Server
  <2>2. ASSUME NEW r \in Reader, Join(r) \/ SpuriousWakeup(r) \/ ClientTurn(r)
        PROVE  IInv'
    BY <2>2, JoinIInv, LookIInv, SendChunkIInv, EndSendIInv DEF ClientTurn
  <2>3. CASE UNCHANGED vars
    <3>1. UNCHANGED <<length, expected, chunks, ready, resp, fetched, spc, then, turn, batch, news,
                      rpc, at, got, seen, sent, running>>
      BY <2>3 DEF vars, entryVars, serverVars, readerVars
    <3> QED BY <3>1 DEF IInv, TypeOK, Turns, Chain, Accounting, Places, Stored, End, Ending, Filling
  <2> QED BY <2>1, <2>2, <2>3 DEF Next
<1> QED BY <1>1, <1>2, PTL DEF SafeSpec

(* The state of the entry, its server and its readers keeps its shape. *)
THEOREM TypeCorrect == SafeSpec => []TypeOK
<1>1. IInv => TypeOK
  BY DEF IInv
<1> QED BY <1>1, Invariance, PTL

(* The panic "ready < read" of check_pointers_correctness never happens. *)
THEOREM NobodyAhead == SafeSpec => []NeverAhead
<1>1. IInv => NeverAhead
  BY IInvImplies
<1> QED BY <1>1, Invariance, PTL

(* "chunks have less than bytes_ready" never happens in client_read_n. *)
THEOREM ChunksSuffice == SafeSpec => []ChunkForEveryByte
<1>1. IInv => ChunkForEveryByte
  BY IInvImplies
<1> QED BY <1>1, Invariance, PTL

(* bytes_ready lies between the clients' bytes_read and the chunks' bytes. *)
THEOREM ReadyStaysBetween == SafeSpec => []ReadyBetween
BY NobodyAhead, ChunksSuffice, PTL DEF ReadyBetween

(* No client writes out a chunk while server_read_n reads into it, though  *)
(* the list is not locked.                                                 *)
THEOREM NoChunkTorn == SafeSpec => []NoTornRead
<1>1. IInv => NoTornRead
  BY IInvImplies
<1> QED BY <1>1, Invariance, PTL

(* Every client is sent a beginning of the response, each byte once and in *)
(* order.                                                                  *)
THEOREM PrefixSent == SafeSpec => []Contiguous
<1>1. IInv => Contiguous
  BY IInvImplies
<1> QED BY <1>1, Invariance, PTL

(* lag_broadcast, outside lag_lock, loses no waiting client. *)
THEOREM WakeupsKept == SafeSpec => []NoLostWakeup
<1>1. IInv => NoLostWakeup
  BY IInvImplies
<1> QED BY <1>1, Invariance, PTL

-----------------------------------------------------------------------------
(* How far a reader has to go when the whole response is there: why its    *)
(* turns come to an end, apart from fairness.                              *)

(* A reader that goes on has not had all that is expected, and has sent    *)
(* nothing in this turn as long as it waits.                               *)
NotYet ==
  \A r \in Reader :
    /\ rpc[r] \in {"queued", "waiting", "woken"} /\ expected # 0 => got[r] # expected
    /\ rpc[r] \in {"waiting", "woken"} => sent[r] = 0
    /\ rpc[r] = "absent" => got[r] = 0

LEMMA NotYetAlways == SafeSpec => []NotYet
<1>1. Init => NotYet
  BY DEF Init, NotYet
<1>2. NotYet /\ TypeOK /\ [Next]_vars => NotYet'
  <2> SUFFICES ASSUME NotYet, TypeOK, [Next]_vars PROVE NotYet'
    OBVIOUS
  <2> USE DEF NotYet, TypeOK, entryVars, serverVars, readerVars
  <2>1. CASE Server
    <3>1. UNCHANGED <<expected, got, sent>>
      BY <2>1 DEF Server, BeginTurn, PutNoMemory, AppendChunk, ReadSome, ReadEnd, ServerDone, Publish, Broadcast
    <3>2. \A r \in Reader : rpc'[r] = rpc[r] \/ (rpc[r] = "waiting" /\ rpc'[r] = "woken")
      BY <2>1 DEF Server, BeginTurn, PutNoMemory, AppendChunk, ReadSome, ReadEnd, ServerDone, Publish,
                  Broadcast, Wakes
    <3> QED BY <3>1, <3>2
  <2>2. ASSUME NEW r \in Reader, Join(r) \/ SpuriousWakeup(r) \/ ClientTurn(r) PROVE NotYet'
    <3>1. CASE Join(r) \/ SpuriousWakeup(r) \/ Timeout(r) \/ WriteError(r) \/ BrokenPipe(r)
      BY <3>1 DEF Join, SpuriousWakeup, Timeout, WriteError, BrokenPipe
    <3>2. CASE Look(r) \/ LookAgain(r)
      BY <3>2 DEF Look, LookAgain, AfterLook
    <3>3. CASE SendChunk(r)
      BY <3>3 DEF SendChunk
    <3>4. CASE EndSend(r)
      BY <3>4 DEF EndSend, Finished
    <3> QED BY <2>2, <3>1, <3>2, <3>3, <3>4 DEF ClientTurn
  <2>3. CASE UNCHANGED vars
    BY <2>3 DEF vars
  <2> QED BY <2>1, <2>2, <2>3 DEF Next
<1> QED BY <1>1, <1>2, TypeCorrect, PTL DEF SafeSpec

(* A reader's steps until it takes its next chunk. *)
Place(r) ==
  CASE rpc[r] = "waiting"             -> 6
    [] rpc[r] = "woken"               -> 5
    [] rpc[r] = "send" /\ ~ More(r)   -> 4
    [] rpc[r] = "queued"              -> 3
    [] OTHER                          -> 0

StepsLeft(r) == 7 * (Len(chunks) - at[r]) + Place(r)

AllThere == expected # 0 /\ ready = expected /\ spc \in {"done", "gone"}

(* Once all that was expected is published and the server connection is    *)
(* over, every turn of a reader is one of finitely many, although woken    *)
(* readers may look again, timeouts come with an old bytes_ready, chunks   *)
(* may be empty and the others read or go away: nothing makes it wait      *)
(* twice without a chunk in between.                                       *)
ReadersComeToTheirEnd ==
  [][AllThere =>
       \A r \in Reader : Reading(r) /\ Reading(r)' =>
         /\ StepsLeft(r) \in Nat /\ StepsLeft(r)' <= StepsLeft(r)
         /\ ClientTurn(r) => StepsLeft(r)' < StepsLeft(r)]_vars

THEOREM ReadersCountDown == SafeSpec => ReadersComeToTheirEnd
<1> DEFINE A == \A r \in Reader : Reading(r) /\ Reading(r)' =>
                  /\ StepsLeft(r) \in Nat /\ StepsLeft(r)' <= StepsLeft(r)
                  /\ ClientTurn(r) => StepsLeft(r)' < StepsLeft(r)
<1>1. ASSUME IInv, IInv', NotYet, Next, AllThere PROVE A
  <2> SUFFICES ASSUME NEW r \in Reader, Reading(r), Reading(r)'
               PROVE  /\ StepsLeft(r) \in Nat /\ StepsLeft(r)' <= StepsLeft(r)
                      /\ ClientTurn(r) => StepsLeft(r)' < StepsLeft(r)
    OBVIOUS
  <2> USE <1>1, CacheStreamAssumption DEF IInv, TypeOK, CacheStreamAssumption, AllThere
  <2>1. Len(chunks) \in Nat /\ at[r] \in Nat /\ at[r] <= Len(chunks) /\ Place(r) \in 0..6
    BY DEF Places, Place
  <2>2. StepsLeft(r) \in Nat
    BY ONLY <2>1 DEF StepsLeft
  <2>3. CASE Server
    <3>1. ServerDone
      BY <2>3 DEF Server, BeginTurn, PutNoMemory, AppendChunk, ReadSome, ReadEnd, Publish, Broadcast
    <3>2. StepsLeft(r)' = StepsLeft(r)
      BY <3>1 DEF ServerDone, StepsLeft, Place, More, entryVars, readerVars
    <3>3. ~ ClientTurn(r)
      BY <3>1 DEF ServerDone, ClientTurn, Look, LookAgain, Timeout, SendChunk, WriteError, BrokenPipe, EndSend,
                  serverVars
    <3> QED BY <2>2, <3>2, <3>3
  <2>4. ASSUME NEW q \in Reader \ {r}, Join(q) \/ SpuriousWakeup(q) \/ ClientTurn(q)
        PROVE  StepsLeft(r)' = StepsLeft(r) /\ ~ ClientTurn(r)
    <3>1. chunks' = chunks /\ rpc'[r] = rpc[r] /\ at'[r] = at[r] /\ got'[r] = got[r] /\ seen'[r] = seen[r] /\ sent'[r] = sent[r]
      BY <2>4 DEF ClientTurn, Join, SpuriousWakeup, Look, LookAgain, Timeout, SendChunk, WriteError,
                  BrokenPipe, EndSend, entryVars
    <3>2. StepsLeft(r)' = StepsLeft(r)
      BY <3>1 DEF StepsLeft, Place, More
    <3>3. ~ (Look(r) \/ LookAgain(r) \/ Timeout(r))
      BY <3>1 DEF Look, LookAgain, AfterLook, Timeout
    <3>4. ~ (WriteError(r) \/ BrokenPipe(r) \/ EndSend(r))
      BY <3>1 DEF WriteError, BrokenPipe, EndSend
    <3>5. ASSUME SendChunk(r) PROVE FALSE
      <4>1. (rpc'[r] = "short" /\ rpc[r] = "send") \/ at'[r] = at[r] + 1
        BY <3>5 DEF SendChunk
      <4> QED BY ONLY <2>1, <3>1, <4>1
    <3> QED BY <3>2, <3>3, <3>4, <3>5 DEF ClientTurn
  <2>5. CASE Join(r) \/ WriteError(r) \/ BrokenPipe(r)
    BY <2>5 DEF Join, WriteError, BrokenPipe, Reading
  <2>6. CASE Look(r) \/ LookAgain(r) \/ SpuriousWakeup(r) \/ Timeout(r) \/ EndSend(r)
    <3>1. at'[r] = at[r] /\ chunks' = chunks
      BY <2>6 DEF Look, LookAgain, SpuriousWakeup, Timeout, EndSend, entryVars
    <3>2. Place(r)' < Place(r)
      <4>1. CASE Look(r)
        <5>1. got[r] # ready /\ got[r] <= ready /\ got[r] \in Nat /\ ready \in Nat
          BY <4>1 DEF Look, NotYet, Places
        <5>2. rpc[r] = "queued" /\ rpc'[r] = "send" /\ seen'[r] = ready /\ sent'[r] = 0 /\ got'[r] = got[r]
          BY <4>1, <5>1 DEF Look, AfterLook
        <5>3. More(r)'
          BY ONLY <5>1, <5>2, CacheStreamAssumption DEF More
        <5> QED BY <5>2, <5>3 DEF Place
      <4>2. CASE LookAgain(r)
        <5>1. got[r] # ready /\ got[r] <= ready /\ got[r] \in Nat /\ ready \in Nat
          BY <4>2 DEF LookAgain, NotYet, Places
        <5>2. rpc[r] = "woken" /\ rpc'[r] = "send" /\ seen'[r] = ready /\ sent'[r] = 0 /\ got'[r] = got[r]
          BY <4>2, <5>1 DEF LookAgain, AfterLook, NotYet
        <5>3. More(r)'
          BY ONLY <5>1, <5>2, CacheStreamAssumption DEF More
        <5> QED BY <5>2, <5>3 DEF Place
      <4>3. CASE SpuriousWakeup(r)
        BY <4>3 DEF SpuriousWakeup, Place
      <4>4. CASE Timeout(r)
        BY <4>4 DEF Timeout, Place
      <4>5. CASE EndSend(r)
        <5>1. rpc[r] = "send" /\ ~ More(r) /\ rpc'[r] = "queued"
          BY <4>5 DEF EndSend, Reading
        <5> QED BY <5>1 DEF Place
      <4> QED BY <2>6, <4>1, <4>2, <4>3, <4>4, <4>5
    <3>3. Place(r)' \in 0..6
      BY ONLY DEF Place
    <3>4. StepsLeft(r)' = 7 * (Len(chunks) - at[r]) + Place(r)'
      BY <3>1 DEF StepsLeft
    <3>5. \A n \in Int, p \in 0..6, q \in 0..6 : p < q => n + p < n + q
      OBVIOUS
    <3>6. 7 * (Len(chunks) - at[r]) \in Int
      BY ONLY <2>1
    <3>7. StepsLeft(r)' < StepsLeft(r)
      BY ONLY <2>1, <3>2, <3>3, <3>4, <3>5, <3>6 DEF StepsLeft
    <3>8. StepsLeft(r)' \in Int
      BY ONLY <3>3, <3>4, <3>6
    <3> HIDE DEF StepsLeft
    <3> QED BY ONLY <2>2, <3>7, <3>8
  <2>7. CASE SendChunk(r)
    <3>1. at'[r] = at[r] + 1 /\ chunks' = chunks
      BY <2>7 DEF SendChunk, Reading, entryVars
    <3>2. rpc[r] = "send" /\ More(r) /\ rpc'[r] = "send"
      BY <2>7 DEF SendChunk, Reading
    <3>3. Place(r)' \in 0..4 /\ Place(r) = 0
      BY ONLY <3>2 DEF Place
    <3>4. Len(chunks') = Len(chunks)
      BY <3>1
    <3> QED BY ONLY <2>1, <2>2, <3>1, <3>3, <3>4 DEF StepsLeft
  <2> QED
    <3> HIDE DEF StepsLeft
    <3>1. Server \/ \E q \in Reader : Join(q) \/ SpuriousWakeup(q) \/ ClientTurn(q)
      BY DEF Next
    <3>2. CASE \E q \in Reader \ {r} : Join(q) \/ SpuriousWakeup(q) \/ ClientTurn(q)
      BY ONLY <2>2, <2>4, <3>2
    <3>3. CASE Join(r) \/ SpuriousWakeup(r) \/ ClientTurn(r)
      BY ONLY <2>5, <2>6, <2>7, <3>3 DEF ClientTurn
    <3> QED BY <2>3, <3>1, <3>2, <3>3
<1>2. IInv /\ IInv' /\ NotYet /\ [Next]_vars => [AllThere => A]_vars
  BY <1>1
<1> QED BY Invariance, NotYetAlways, <1>2, PTL DEF SafeSpec, ReadersComeToTheirEnd
=============================================================================
