-------------------------- MODULE DispatcherProofs --------------------------
(***************************************************************************)
(* For any number of requests and workers: every connection has one owner, *)
(* no thread holds a freed one, none is stranded, and the threads together *)
(* implement the safety part of WorkQueue.                                 *)
(***************************************************************************)
EXTENDS Dispatcher, SequenceTheorems, FiniteSetTheorems, TLAPS

(* A server connection exists only once its client has been parsed, and    *)
(* only client connections are ever in the Parse state.                    *)
ServerAfterClient ==
  \A r \in Request :
    /\ life[<<r, "SERVER">>] # "Parse"
    /\ life[<<r, "CLIENT">>] \in {"absent", "Parse"}
         => life[<<r, "SERVER">>] \in {"absent", "lost"}

(* The inductive invariant.  SingleOwner alone is not inductive: that a    *)
(* connection queued by Accept or SpinServerReader is not queued already   *)
(* follows from ServerAfterClient and NoDanglingConnection, and that the   *)
(* one a body returns is nobody else's follows from LatchDiscipline.       *)
IInv ==
  /\ TypeOK
  /\ HeadStillThere
  /\ ServerAfterClient
  /\ LatchDiscipline
  /\ NoDanglingConnection
  /\ SingleOwner
  /\ NoneStranded

-----------------------------------------------------------------------------
(* Appending an element a sequence does not hold keeps it injective. *)
LEMMA AppendNew ==
  ASSUME NEW S, NEW s \in Seq(S), NEW e \in S, e \notin ToSet(s), IsInjective(s)
  PROVE  /\ Append(s, e) \in Seq(S)
         /\ IsInjective(Append(s, e))
         /\ ToSet(Append(s, e)) = ToSet(s) \cup {e}
  BY DEF ToSet, IsInjective

(* Removing the head of an injective sequence removes it from its range. *)
LEMMA TailOfInjective ==
  ASSUME NEW S, NEW s \in Seq(S), s # <<>>, IsInjective(s)
  PROVE  /\ Head(s) \in S
         /\ Tail(s) \in Seq(S)
         /\ IsInjective(Tail(s))
         /\ ToSet(Tail(s)) = ToSet(s) \ {Head(s)}
         /\ Head(s) \in ToSet(s)
<1>1. /\ Head(s) \in S /\ Tail(s) \in Seq(S)
      /\ Len(s) \in Nat \ {0} /\ DOMAIN s = 1..Len(s)
      /\ Head(s) = s[1]
      /\ Len(Tail(s)) = Len(s) - 1
      /\ DOMAIN Tail(s) = 1..(Len(s) - 1)
      /\ \A i \in 1..(Len(s) - 1) : Tail(s)[i] = s[i + 1]
  BY HeadTailProperties, EmptySeq
<1>2. IsInjective(Tail(s))
  BY <1>1, SMT DEF IsInjective
<1>3. ToSet(Tail(s)) \subseteq ToSet(s) \ {Head(s)}
  BY <1>1, SMT DEF ToSet, IsInjective
<1>4. ASSUME NEW i \in 1..Len(s), s[i] # Head(s)
      PROVE  s[i] \in ToSet(Tail(s))
  <2>1. i - 1 \in 1..(Len(s) - 1) /\ Tail(s)[i - 1] = s[i]
    BY <1>1, <1>4
  <2> QED BY <1>1, <2>1 DEF ToSet
<1>5. Head(s) \in ToSet(s)
  BY <1>1 DEF ToSet
<1>6. ToSet(s) \subseteq ToSet(Tail(s)) \cup {Head(s)}
  BY <1>4 DEF ToSet
<1>7. ToSet(Tail(s)) = ToSet(s) \ {Head(s)}
  BY <1>3, <1>6
<1> QED BY <1>1, <1>2, <1>5, <1>7

(* Members of a sequence over S are in S. *)
LEMMA ToSetIn ==
  ASSUME NEW S, NEW s \in Seq(S)
  PROVE  ToSet(s) \subseteq S
  BY DEF ToSet

(* What the dispatcher still has to hand over is a sequence of connections. *)
LEMMA PendingType ==
  ASSUME TypeOK, HeadStillThere
  PROVE  Pending \in Seq(Conn) /\ ToSet(Pending) \subseteq Conn
<1>1. Pending \in Seq(Conn)
  BY HeadTailProperties DEF TypeOK, HeadStillThere, Pending
<1> QED BY <1>1, ToSetIn

(* Whoever queues a connection, it joins the end of Pending. *)
LEMMA PutPending ==
  ASSUME TypeOK, HeadStillThere, IsInjective(Pending),
         NEW c \in Conn, c \notin ToSet(Pending), Put(c), dpc' = dpc
  PROVE  /\ queue' \in Seq(Conn) /\ staleness' \in 0..SemMax
         /\ HeadStillThere'
         /\ Pending' = Append(Pending, c)
         /\ IsInjective(Pending')
         /\ ToSet(Pending') = ToSet(Pending) \cup {c}
<1>1. queue' = Append(queue, c) /\ queue' \in Seq(Conn) /\ queue' # <<>>
  BY AppendProperties DEF Put, TypeOK
<1>2. staleness' \in 0..SemMax
  BY DispatcherAssumption DEF Put, SemPost, TypeOK, DispatcherAssumption
<1>3. Pending' = Append(Pending, c)
  BY <1>1, HeadTailAppend DEF Pending, HeadStillThere, TypeOK
<1> QED BY <1>1, <1>2, <1>3, PendingType, AppendNew DEF HeadStillThere

-----------------------------------------------------------------------------
(* The initial states satisfy the inductive invariant. *)
LEMMA InitIInv == Init => IInv
<1> SUFFICES ASSUME Init PROVE IInv
  OBVIOUS
<1> USE DEF Init
<1>1. TypeOK
  BY DispatcherAssumption DEF TypeOK, Worker, DispatcherAssumption
<1>2. Pending = <<>> /\ ToSet(Pending) = {} /\ IsInjective(Pending)
  BY DEF Pending, ToSet, IsInjective
<1>3. \A w \in Worker : ~ Holding(w) /\ ~ Returning(w)
  BY DEF Holding, Returning
<1>4. HeadStillThere /\ LatchDiscipline
  BY DEF HeadStillThere, LatchDiscipline, Holding
<1>5. ServerAfterClient
  BY DEF ServerAfterClient, Conn
<1>6. NoDanglingConnection /\ SingleOwner
  BY <1>2, <1>3 DEF NoDanglingConnection, SingleOwner
<1>7. NoneStranded
  BY <1>3 DEF NoneStranded, Live
<1> QED BY <1>1, <1>4, <1>5, <1>6, <1>7 DEF IInv

(* A step of any thread preserves the inductive invariant. *)
LEMMA AcceptIInv ==
  ASSUME IInv, NEW r \in Request, Accept(r)
  PROVE  IInv'
<1> DEFINE c == <<r, "CLIENT">>
<1> USE DEF IInv
<1>1. c \in Conn /\ c \notin ToSet(Pending)
  BY DEF Accept, NoDanglingConnection, Live, Conn
<1>2. \A w \in Worker : /\ Holding(w) => arg[w] # c
                        /\ Returning(w) => res[w] # c
  BY DEF Accept, NoDanglingConnection, Live
<1>3. /\ queue' \in Seq(Conn) /\ staleness' \in 0..SemMax
      /\ HeadStillThere'
      /\ IsInjective(Pending')
      /\ ToSet(Pending') = ToSet(Pending) \cup {c}
  BY <1>1, PutPending DEF Accept, SingleOwner, dispatcherVars
<1>4. /\ life' = [life EXCEPT ![c] = "Parse"]
      /\ UNCHANGED <<dpc, scan, state, arg, latch, wpc, res, listening>>
  BY DEF Accept, dispatcherVars, workerVars
<1>5. TypeOK'
  BY <1>1, <1>3, <1>4 DEF TypeOK
<1>6. \A w \in Worker : Holding(w)' = Holding(w) /\ Returning(w)' = Returning(w)
  BY <1>4 DEF Holding, Returning
<1>7. ServerAfterClient'
  BY <1>1, <1>4 DEF ServerAfterClient, TypeOK, Conn, Accept
<1>8. LatchDiscipline'
  BY <1>4, <1>6 DEF LatchDiscipline
<1>9. NoDanglingConnection'
  BY <1>1, <1>2, <1>3, <1>4, <1>6, PendingType DEF NoDanglingConnection, Live, TypeOK
<1>10. SingleOwner'
  BY <1>2, <1>3, <1>4, <1>6 DEF SingleOwner
<1>11. NoneStranded'
  BY <1>1, <1>3, <1>4, <1>6 DEF NoneStranded, Live, TypeOK
<1> QED BY <1>3, <1>5, <1>7, <1>8, <1>9, <1>10, <1>11

(* The dispatcher's steps that only look: they leave Pending as it is. *)
LEMMA QuietIInv ==
  ASSUME IInv,
         DispatcherWait \/ CheckHeadConn \/ SkipWorker
  PROVE  IInv'
<1> USE DEF IInv
<1>1. /\ UNCHANGED <<life, listening, queue, state, arg, latch, wpc, res>>
      /\ dpc # "remove" /\ dpc' # "remove"
  BY DEF DispatcherWait, CheckHeadConn, SkipWorker, OutOfWorkers, workerVars
<1>2. Pending' = Pending
  BY <1>1 DEF Pending
<1>3. TypeOK'
  <2>1. CASE DispatcherWait
    <3>1. dpc' = "check" /\ scan' = scan /\ staleness' \in 0..SemMax
      BY <2>1, DispatcherAssumption DEF DispatcherWait, TypeOK, DispatcherAssumption
    <3> QED BY <1>1, <3>1 DEF TypeOK
  <2>2. CASE CheckHeadConn
    <3>1. dpc' \in {"wait", "scan"} /\ scan' \in Worker /\ staleness' = staleness
      BY <2>2, DispatcherAssumption DEF CheckHeadConn, Worker, DispatcherAssumption
    <3> QED BY <1>1, <3>1 DEF TypeOK
  <2>3. CASE SkipWorker
    <3>1. scan' \in Worker /\ dpc' \in {"wait", "scan"} /\ staleness' = staleness
      BY <2>3, DispatcherAssumption
      DEF SkipWorker, LastWorker, OutOfWorkers, TypeOK, Worker, DispatcherAssumption
    <3> QED BY <1>1, <3>1 DEF TypeOK
  <2> QED BY <2>1, <2>2, <2>3
<1>4. HeadStillThere'
  <2>1. CASE DispatcherWait
    <3>1. dpc' = "check"
      BY <2>1 DEF DispatcherWait
    <3> QED BY <3>1 DEF HeadStillThere
  <2>2. CASE CheckHeadConn
    BY <2>2, <1>1 DEF CheckHeadConn, HeadFound, HeadStillThere
  <2>3. CASE SkipWorker
    BY <2>3, <1>1 DEF SkipWorker, HeadStillThere
  <2> QED BY <2>1, <2>2, <2>3
<1>5. \A w \in Worker : Holding(w)' = Holding(w) /\ Returning(w)' = Returning(w)
  BY <1>1 DEF Holding, Returning
<1>6. ServerAfterClient' /\ LatchDiscipline'
  BY <1>1, <1>5 DEF ServerAfterClient, LatchDiscipline
<1>7. NoDanglingConnection' /\ SingleOwner'
  BY <1>1, <1>2, <1>5 DEF NoDanglingConnection, Live, SingleOwner
<1>8. NoneStranded'
  BY <1>1, <1>2, <1>5 DEF NoneStranded, Live
<1> QED BY <1>3, <1>4, <1>6, <1>7, <1>8

(* A connection the listener forgets was in nobody's hands. *)
LEMMA AcceptNoMemoryIInv ==
  ASSUME IInv, NEW r \in Request, AcceptNoMemory(r)
  PROVE  IInv'
<1> DEFINE c == <<r, "CLIENT">>
<1> USE DEF IInv
<1>1. /\ c \in Conn /\ life[c] = "absent"
      /\ life' = [life EXCEPT ![c] = "lost"]
      /\ UNCHANGED <<queue, staleness, dpc, scan, state, arg, latch, wpc, res>>
  BY DEF AcceptNoMemory, Conn, dispatcherVars, workerVars
<1>2. Pending' = Pending
  BY <1>1 DEF Pending
<1>3. TypeOK'
  BY <1>1 DEF TypeOK, AcceptNoMemory
<1>4. HeadStillThere'
  BY <1>1 DEF HeadStillThere
<1>5. \A w \in Worker : Holding(w)' = Holding(w) /\ Returning(w)' = Returning(w)
  BY <1>1 DEF Holding, Returning
<1>6. ServerAfterClient'
  BY <1>1 DEF ServerAfterClient, TypeOK, Conn
<1>7. LatchDiscipline'
  BY <1>1, <1>5 DEF LatchDiscipline
<1>8. NoDanglingConnection'
  BY <1>1, <1>2, <1>5, PendingType DEF NoDanglingConnection, Live, TypeOK
<1>9. SingleOwner'
  BY <1>1, <1>2, <1>5 DEF SingleOwner
<1>10. NoneStranded'
  BY <1>1, <1>2, <1>5 DEF NoneStranded, Live, TypeOK
<1> QED BY <1>3, <1>4, <1>6, <1>7, <1>8, <1>9, <1>10

(* The handover: the worker owns the connection, the queue only names it. *)
LEMMA TryDispatchIInv ==
  ASSUME IInv, TryDispatch
  PROVE  IInv'
<1> DEFINE c == Head(queue)
<1> USE DEF IInv
<1>1. /\ Pending = queue /\ queue # <<>> /\ queue \in Seq(Conn)
      /\ scan \in Worker /\ ~ Holding(scan)
      /\ dpc' = "remove"
      /\ UNCHANGED <<life, listening, queue, staleness, scan, wpc, res>>
      /\ arg' = [arg EXCEPT ![scan] = c]
      /\ state' = [state EXCEPT ![scan] = "Working"]
      /\ latch' = [latch EXCEPT ![scan] = SemPost(@)]
  BY DEF TryDispatch, Assign, Pending, HeadStillThere, TypeOK, Holding
<1>2. /\ Pending' = Tail(queue)
      /\ c \in Conn /\ c \in ToSet(Pending)
      /\ IsInjective(Pending')
      /\ ToSet(Pending') = ToSet(Pending) \ {c}
  BY <1>1, TailOfInjective DEF Pending, SingleOwner
<1>3. latch[scan] = 0 /\ SemPost(latch[scan]) = 1 /\ SemPost(latch[scan]) \in 0..SemMax
  BY <1>1, DispatcherAssumption DEF LatchDiscipline, SemPost, DispatcherAssumption
<1>4. /\ TypeOK'
      /\ HeadStillThere'
      /\ ServerAfterClient'
  BY <1>1, <1>2, <1>3 DEF TypeOK, HeadStillThere, ServerAfterClient
<1>5. \A w \in Worker : /\ Holding(w)' <=> (Holding(w) \/ w = scan)
                        /\ Returning(w)' = Returning(w)
                        /\ arg'[w] = IF w = scan THEN c ELSE arg[w]
                        /\ latch'[w] = IF w = scan THEN 1 ELSE latch[w]
  BY <1>1, <1>3 DEF Holding, Returning, TypeOK
<1>6. wpc[scan] \in {"latch", "put"}
  BY <1>1 DEF LatchDiscipline, TypeOK
<1>7. LatchDiscipline'
  BY <1>1, <1>5, <1>6 DEF LatchDiscipline
<1>8. NoDanglingConnection'
  BY <1>1, <1>2, <1>5 DEF NoDanglingConnection, Live
<1>9. SingleOwner'
  BY <1>1, <1>2, <1>5 DEF SingleOwner
<1>10. NoneStranded'
  BY <1>1, <1>2, <1>5 DEF NoneStranded, Live
<1> QED BY <1>4, <1>7, <1>8, <1>9, <1>10

(* The unlinking changes the list and not what is waiting. *)
LEMMA RemoveHeadConnIInv ==
  ASSUME IInv, RemoveHeadConn
  PROVE  IInv'
<1> USE DEF IInv
<1>1. /\ dpc = "remove" /\ queue # <<>> /\ queue' = Tail(queue) /\ dpc' = "check"
      /\ UNCHANGED <<life, listening, staleness, scan, state, arg, latch, wpc, res>>
  BY DEF RemoveHeadConn, Unlink, HeadStillThere, workerVars
<1>2. Pending' = Pending /\ queue' \in Seq(Conn)
  BY <1>1, HeadTailProperties DEF Pending, TypeOK
<1>3. TypeOK' /\ HeadStillThere' /\ ServerAfterClient'
  BY <1>1, <1>2 DEF TypeOK, HeadStillThere, ServerAfterClient
<1>4. \A w \in Worker : Holding(w)' = Holding(w) /\ Returning(w)' = Returning(w)
  BY <1>1 DEF Holding, Returning
<1>5. LatchDiscipline'
  BY <1>1, <1>4 DEF LatchDiscipline
<1>6. NoDanglingConnection' /\ SingleOwner'
  BY <1>1, <1>2, <1>4 DEF NoDanglingConnection, Live, SingleOwner
<1>7. NoneStranded'
  BY <1>1, <1>2, <1>4 DEF NoneStranded, Live
<1> QED BY <1>3, <1>5, <1>6, <1>7

(* A worker in a body owns the connection it was given. *)
LEMMA InBodyOwns ==
  ASSUME IInv, NEW w \in Worker, wpc[w] \in {"body", "hangs", "return", "free"}
  PROVE  /\ Holding(w) /\ ~ Returning(w) /\ latch[w] = 0
         /\ arg[w] \in Conn /\ Live(arg[w]) /\ arg[w] \notin ToSet(Pending)
         /\ \A v \in Worker : /\ v # w /\ Holding(v) => arg[v] # arg[w]
                              /\ Returning(v) => res[v] # arg[w]
  BY DEF IInv, LatchDiscipline, NoDanglingConnection, SingleOwner, Returning

(* Only a client is parsed, and its server connection is not there yet. *)
LEMMA ParseIsClient ==
  ASSUME ServerAfterClient, NEW c \in Conn, life[c] = "Parse"
  PROVE  /\ c[1] \in Request /\ c = <<c[1], "CLIENT">>
         /\ <<c[1], "SERVER">> \in Conn
         /\ life[<<c[1], "SERVER">>] \in {"absent", "lost"}
<1>1. PICK r \in Request, t \in {"CLIENT", "SERVER"} : c = <<r, t>>
  BY DEF Conn
<1>2. c[1] = r /\ t = "CLIENT"
  BY <1>1 DEF ServerAfterClient
<1> QED BY <1>1, <1>2 DEF ServerAfterClient, Conn

(* A worker that wakes was given a connection, and uses its post up. *)
LEMMA WorkerWakeIInv ==
  ASSUME IInv, NEW w \in Worker, WorkerWake(w)
  PROVE  IInv'
<1> USE DEF IInv
<1>1. /\ wpc[w] = "latch" /\ latch[w] = 1 /\ Holding(w)
      /\ latch' = [latch EXCEPT ![w] = 0]
      /\ wpc' = [wpc EXCEPT ![w] = "body"]
      /\ UNCHANGED <<life, listening, queue, staleness, dpc, scan, state, arg, res>>
  <2>1. latch[w] # 0
    BY DEF WorkerWake
  <2>2. latch[w] = (IF Holding(w) /\ wpc[w] \in {"latch", "put"} THEN 1 ELSE 0)
    BY DEF LatchDiscipline
  <2>3. latch[w] = 1 /\ Holding(w)
    BY <2>1, <2>2
  <2> QED BY <2>3 DEF WorkerWake, dispatcherVars
<1>2. Pending' = Pending
  BY <1>1 DEF Pending
<1>3. TypeOK' /\ HeadStillThere' /\ ServerAfterClient'
  BY <1>1, DispatcherAssumption DEF TypeOK, HeadStillThere, ServerAfterClient, DispatcherAssumption
<1>4. \A v \in Worker : Holding(v)' = Holding(v) /\ Returning(v)' = Returning(v)
  BY <1>1 DEF Holding, Returning, TypeOK
<1>5. LatchDiscipline'
  BY <1>1, <1>4 DEF LatchDiscipline, TypeOK
<1>6. NoDanglingConnection' /\ SingleOwner'
  BY <1>1, <1>2, <1>4 DEF NoDanglingConnection, Live, SingleOwner
<1>7. NoneStranded'
  BY <1>1, <1>2, <1>4 DEF NoneStranded, Live
<1> QED BY <1>3, <1>5, <1>6, <1>7

(* A worker whose body hangs keeps what it owns. *)
LEMMA BodyHangsIInv ==
  ASSUME IInv, NEW w \in Worker, BodyHangs(w)
  PROVE  IInv'
<1> USE DEF IInv
<1>1. /\ wpc[w] = "body" /\ Holding(w)
      /\ wpc' = [wpc EXCEPT ![w] = "hangs"]
      /\ UNCHANGED <<life, listening, queue, staleness, dpc, scan, state, arg, latch, res>>
  BY InBodyOwns DEF BodyHangs, dispatcherVars
<1>2. Pending' = Pending
  BY <1>1 DEF Pending
<1>3. TypeOK' /\ HeadStillThere' /\ ServerAfterClient'
  BY <1>1 DEF TypeOK, HeadStillThere, ServerAfterClient
<1>4. \A v \in Worker : Holding(v)' = Holding(v) /\ Returning(v)' = Returning(v)
  BY <1>1 DEF Holding, Returning, TypeOK
<1>5. LatchDiscipline'
  BY <1>1, <1>4 DEF LatchDiscipline, TypeOK
<1>6. NoDanglingConnection' /\ SingleOwner'
  BY <1>1, <1>2, <1>4 DEF NoDanglingConnection, Live, SingleOwner
<1>7. NoneStranded'
  BY <1>1, <1>2, <1>4 DEF NoneStranded, Live
<1> QED BY <1>3, <1>5, <1>6, <1>7

(* The server connection of a Parse client has never been in the queue. *)
LEMMA SpinServerReaderIInv ==
  ASSUME IInv, NEW w \in Worker, SpinServerReader(w)
  PROVE  IInv'
<1> DEFINE client == arg[w]
           server == <<arg[w][1], "SERVER">>
<1> USE DEF IInv
<1>1. /\ wpc[w] = "body" /\ life[client] = "Parse"
      /\ life' = [life EXCEPT ![<<client[1], "CLIENT">>] = "Read", ![server] = "Read"]
      /\ Put(server)
      /\ wpc' = [wpc EXCEPT ![w] = "return"]
      /\ UNCHANGED <<listening, dpc, scan, state, arg, latch, res>>
  BY DEF SpinServerReader, dispatcherVars
<1>2. /\ Holding(w) /\ ~ Returning(w)
      /\ client \in Conn /\ client \notin ToSet(Pending)
  BY <1>1, InBodyOwns
<1>3. /\ client = <<client[1], "CLIENT">> /\ client[1] \in Request
      /\ server \in Conn /\ life[server] \in {"absent", "lost"}
  BY <1>1, <1>2, ParseIsClient
<1>4. server # client
  BY <1>3
<1>5. server \notin ToSet(Pending)
  BY <1>3, <1>4 DEF NoDanglingConnection, Live
<1>6. \A v \in Worker : /\ Holding(v) => arg[v] # server
                        /\ Returning(v) => res[v] # server
  BY <1>3, <1>4 DEF NoDanglingConnection, Live
<1>7. /\ queue' \in Seq(Conn) /\ staleness' \in 0..SemMax
      /\ HeadStillThere'
      /\ IsInjective(Pending')
      /\ ToSet(Pending') = ToSet(Pending) \cup {server}
  BY <1>1, <1>3, <1>4, <1>5, PutPending DEF SingleOwner
<1>8. \A v \in Worker : Holding(v)' = Holding(v) /\ Returning(v)' = Returning(v)
  BY <1>1 DEF Holding, Returning, TypeOK
<1>9. life' = [life EXCEPT ![client] = "Read", ![server] = "Read"]
  BY <1>1, <1>3
<1>10. TypeOK'
  BY <1>1, <1>2, <1>3, <1>4, <1>7, <1>9 DEF TypeOK
<1>11. ServerAfterClient'
  <2> SUFFICES ASSUME NEW r \in Request
               PROVE  /\ life'[<<r, "SERVER">>] # "Parse"
                      /\ life'[<<r, "CLIENT">>] \in {"absent", "Parse"}
                            => life'[<<r, "SERVER">>] \in {"absent", "lost"}
    BY DEF ServerAfterClient
  <2>1. <<r, "SERVER">> \in Conn /\ <<r, "CLIENT">> \in Conn
    BY DEF Conn
  <2>2. CASE r = client[1]
    BY <1>2, <1>3, <1>4, <1>9, <2>1, <2>2 DEF TypeOK
  <2>3. CASE r # client[1]
    <3>1. life'[<<r, "SERVER">>] = life[<<r, "SERVER">>]
      BY <1>3, <1>9, <2>1, <2>3 DEF TypeOK
    <3>2. life'[<<r, "CLIENT">>] = life[<<r, "CLIENT">>]
      BY <1>3, <1>9, <2>1, <2>3 DEF TypeOK
    <3> QED BY <3>1, <3>2 DEF ServerAfterClient
  <2> QED BY <2>2, <2>3
<1>12. LatchDiscipline'
  BY <1>1, <1>2, <1>8 DEF LatchDiscipline, TypeOK
<1>13. \A c \in Conn : Live(c) => Live(c)'
  BY <1>2, <1>3, <1>4, <1>9 DEF Live, TypeOK
<1>14. Live(server)'
  BY <1>1, <1>2, <1>3, <1>4, <1>9 DEF Live, TypeOK
<1>15. NoDanglingConnection'
  BY <1>1, <1>7, <1>8, <1>13, <1>14, PendingType DEF NoDanglingConnection
<1>16. SingleOwner'
  BY <1>1, <1>6, <1>7, <1>8 DEF SingleOwner
<1>17. NoneStranded'
  BY <1>1, <1>7, <1>8, <1>9, <1>2 DEF NoneStranded, Live, TypeOK
<1> QED BY <1>7, <1>10, <1>11, <1>12, <1>15, <1>16, <1>17

(* A server connection that was not queued was in nobody's hands. *)
LEMMA SpinServerNoMemoryIInv ==
  ASSUME IInv, NEW w \in Worker, SpinServerNoMemory(w)
  PROVE  IInv'
<1> DEFINE client == arg[w]
           server == <<arg[w][1], "SERVER">>
<1> USE DEF IInv
<1>1. /\ wpc[w] = "body" /\ life[client] = "Parse"
      /\ life' = [life EXCEPT ![server] = "lost"]
      /\ wpc' = [wpc EXCEPT ![w] = "free"]
      /\ UNCHANGED <<listening, queue, staleness, dpc, scan, state, arg, latch, res>>
  BY DEF SpinServerNoMemory, dispatcherVars
<1>2. /\ Holding(w) /\ client \in Conn
  BY <1>1, InBodyOwns
<1>3. client = <<client[1], "CLIENT">> /\ client[1] \in Request
  BY <1>1, <1>2, ParseIsClient
<1>4. server \in Conn /\ life[server] \in {"absent", "lost"}
  BY <1>1, <1>2, ParseIsClient
<1>5. Pending' = Pending
  BY <1>1 DEF Pending
<1>6. \A v \in Worker : Holding(v)' = Holding(v) /\ Returning(v)' = Returning(v)
  BY <1>1 DEF Holding, Returning, TypeOK
<1>7. TypeOK' /\ HeadStillThere'
  BY <1>1, <1>4 DEF TypeOK, HeadStillThere
<1>8. ServerAfterClient'
  <2> SUFFICES ASSUME NEW r \in Request
               PROVE  /\ life'[<<r, "SERVER">>] # "Parse"
                      /\ life'[<<r, "CLIENT">>] \in {"absent", "Parse"}
                            => life'[<<r, "SERVER">>] \in {"absent", "lost"}
    BY DEF ServerAfterClient
  <2>1. <<r, "SERVER">> \in Conn /\ <<r, "CLIENT">> \in Conn
    BY DEF Conn
  <2> QED BY <1>1, <1>3, <1>4, <2>1 DEF ServerAfterClient, TypeOK
<1>9. LatchDiscipline'
  BY <1>1, <1>2, <1>6 DEF LatchDiscipline, TypeOK
<1>10. \A c \in Conn : Live(c) => Live(c)'
  BY <1>1, <1>4 DEF Live, TypeOK
<1>11. NoDanglingConnection'
  BY <1>1, <1>5, <1>6, <1>10, PendingType DEF NoDanglingConnection
<1>12. SingleOwner'
  BY <1>1, <1>5, <1>6 DEF SingleOwner
<1>13. NoneStranded'
  BY <1>1, <1>4, <1>5, <1>6 DEF NoneStranded, Live, TypeOK
<1> QED BY <1>7, <1>8, <1>9, <1>11, <1>12, <1>13

(* What a body returns is in its worker's hands only. *)
LEMMA BodyReturnIInv ==
  ASSUME IInv, NEW w \in Worker, BodyReturn(w)
  PROVE  IInv'
<1> DEFINE c == arg[w]
<1> USE DEF IInv
<1>1. /\ wpc[w] \in {"body", "return"}
      /\ life' = [life EXCEPT ![c] = "Read"]
      /\ res' = [res EXCEPT ![w] = c]
      /\ state' = [state EXCEPT ![w] = "Empty"]
      /\ wpc' = [wpc EXCEPT ![w] = "put"]
      /\ UNCHANGED <<listening, queue, staleness, dpc, scan, arg, latch>>
  BY DEF BodyReturn, dispatcherVars
<1>2. /\ Holding(w) /\ ~ Returning(w) /\ latch[w] = 0
      /\ c \in Conn /\ Live(c) /\ c \notin ToSet(Pending)
      /\ \A v \in Worker : /\ v # w /\ Holding(v) => arg[v] # c
                           /\ Returning(v) => res[v] # c
  BY <1>1, InBodyOwns
<1>3. Pending' = Pending
  BY <1>1 DEF Pending
<1>4. TypeOK' /\ HeadStillThere'
  BY <1>1, <1>2 DEF TypeOK, HeadStillThere
<1>5. \A v \in Worker : /\ Holding(v)' <=> (Holding(v) /\ v # w)
                        /\ Returning(v)' <=> (Returning(v) \/ v = w)
                        /\ res'[v] = IF v = w THEN c ELSE res[v]
  BY <1>1 DEF Holding, Returning, TypeOK
<1>6. \A d \in Conn : /\ Live(d) => Live(d)'
                      /\ life'[d] = IF d = c THEN "Read" ELSE life[d]
  BY <1>1, <1>2 DEF Live, TypeOK
<1>7. ServerAfterClient'
  <2> SUFFICES ASSUME NEW r \in Request
               PROVE  /\ life'[<<r, "SERVER">>] # "Parse"
                      /\ life'[<<r, "CLIENT">>] \in {"absent", "Parse"}
                            => life'[<<r, "SERVER">>] \in {"absent", "lost"}
    BY DEF ServerAfterClient
  <2>1. <<r, "SERVER">> \in Conn /\ <<r, "CLIENT">> \in Conn
    BY DEF Conn
  <2>2. life[<<r, "SERVER">>] \in {"absent", "lost"} => <<r, "SERVER">> # c
    BY <1>2 DEF Live
  <2> QED BY <1>6, <2>1, <2>2 DEF ServerAfterClient
<1>8. LatchDiscipline'
  BY <1>1, <1>2, <1>5 DEF LatchDiscipline, TypeOK
<1>9. NoDanglingConnection'
  BY <1>1, <1>2, <1>3, <1>5, <1>6, PendingType DEF NoDanglingConnection
<1>10. SingleOwner'
  BY <1>1, <1>2, <1>3, <1>5 DEF SingleOwner
<1>11. NoneStranded'
  BY <1>1, <1>2, <1>3, <1>5, <1>6 DEF NoneStranded, Live
<1> QED BY <1>4, <1>7, <1>8, <1>9, <1>10, <1>11

(* Nobody else has a pointer to the connection a body frees. *)
LEMMA BodyFreeIInv ==
  ASSUME IInv, NEW w \in Worker, BodyFree(w)
  PROVE  IInv'
<1> DEFINE c == arg[w]
<1> USE DEF IInv
<1>1. /\ wpc[w] \in {"body", "free"}
      /\ life' = [life EXCEPT ![c] = "freed"]
      /\ state' = [state EXCEPT ![w] = "Empty"]
      /\ wpc' = [wpc EXCEPT ![w] = "latch"]
      /\ UNCHANGED <<listening, queue, staleness, dpc, scan, arg, latch, res>>
  BY DEF BodyFree, dispatcherVars
<1>2. /\ Holding(w) /\ ~ Returning(w) /\ latch[w] = 0
      /\ c \in Conn /\ Live(c) /\ c \notin ToSet(Pending)
      /\ \A v \in Worker : /\ v # w /\ Holding(v) => arg[v] # c
                           /\ Returning(v) => res[v] # c
  BY <1>1, InBodyOwns
<1>3. Pending' = Pending
  BY <1>1 DEF Pending
<1>4. TypeOK' /\ HeadStillThere'
  BY <1>1, <1>2 DEF TypeOK, HeadStillThere
<1>5. \A v \in Worker : /\ Holding(v)' <=> (Holding(v) /\ v # w)
                        /\ Returning(v)' = Returning(v)
  BY <1>1 DEF Holding, Returning, TypeOK
<1>6. \A d \in Conn : /\ Live(d) /\ d # c => Live(d)'
                      /\ life'[d] = IF d = c THEN "freed" ELSE life[d]
  BY <1>1, <1>2 DEF Live, TypeOK
<1>7. ServerAfterClient'
  <2> SUFFICES ASSUME NEW r \in Request
               PROVE  /\ life'[<<r, "SERVER">>] # "Parse"
                      /\ life'[<<r, "CLIENT">>] \in {"absent", "Parse"}
                            => life'[<<r, "SERVER">>] \in {"absent", "lost"}
    BY DEF ServerAfterClient
  <2>1. <<r, "SERVER">> \in Conn /\ <<r, "CLIENT">> \in Conn
    BY DEF Conn
  <2>2. life[<<r, "SERVER">>] \in {"absent", "lost"} => <<r, "SERVER">> # c
    BY <1>2 DEF Live
  <2> QED BY <1>6, <2>1, <2>2 DEF ServerAfterClient
<1>8. LatchDiscipline'
  BY <1>1, <1>2, <1>5 DEF LatchDiscipline, TypeOK
<1>9. NoDanglingConnection'
  BY <1>1, <1>2, <1>3, <1>5, <1>6, PendingType DEF NoDanglingConnection
<1>10. SingleOwner'
  BY <1>1, <1>2, <1>3, <1>5 DEF SingleOwner
<1>11. NoneStranded'
  BY <1>1, <1>2, <1>3, <1>5, <1>6 DEF NoneStranded, Live
<1> QED BY <1>4, <1>7, <1>8, <1>9, <1>10, <1>11

(* What a worker returns is not in the queue yet. *)
LEMMA WorkerPutIInv ==
  ASSUME IInv, NEW w \in Worker, WorkerPut(w)
  PROVE  IInv'
<1> DEFINE c == res[w]
<1> USE DEF IInv
<1>1. /\ wpc[w] = "put" /\ Put(c)
      /\ res' = [res EXCEPT ![w] = NoConn]
      /\ wpc' = [wpc EXCEPT ![w] = "latch"]
      /\ UNCHANGED <<life, listening, dpc, scan, state, arg, latch>>
  BY DEF WorkerPut, dispatcherVars
<1>2. /\ Returning(w) /\ c \in Conn /\ Live(c) /\ c \notin ToSet(Pending)
      /\ \A v \in Worker : /\ Holding(v) => arg[v] # c
                           /\ v # w /\ Returning(v) => res[v] # c
  BY <1>1 DEF Returning, NoDanglingConnection, SingleOwner
<1>3. /\ queue' \in Seq(Conn) /\ staleness' \in 0..SemMax
      /\ HeadStillThere'
      /\ IsInjective(Pending')
      /\ ToSet(Pending') = ToSet(Pending) \cup {c}
  BY <1>1, <1>2, PutPending DEF SingleOwner
<1>4. TypeOK'
  BY <1>1, <1>3 DEF TypeOK
<1>5. \A v \in Worker : /\ Holding(v)' = Holding(v)
                        /\ Returning(v)' <=> (Returning(v) /\ v # w)
                        /\ v # w => res'[v] = res[v]
  BY <1>1 DEF Holding, Returning, TypeOK
<1>6. ServerAfterClient'
  BY <1>1 DEF ServerAfterClient
<1>7. LatchDiscipline'
  BY <1>1, <1>5 DEF LatchDiscipline, TypeOK
<1>8. NoDanglingConnection'
  BY <1>1, <1>2, <1>3, <1>5 DEF NoDanglingConnection, Live
<1>9. SingleOwner'
  BY <1>1, <1>2, <1>3, <1>5 DEF SingleOwner
<1>10. NoneStranded'
  BY <1>1, <1>2, <1>3, <1>5 DEF NoneStranded, Live
<1> QED BY <1>3, <1>4, <1>6, <1>7, <1>8, <1>9, <1>10

(* A connection that is lost on its way back was in no other hands. *)
LEMMA WorkerPutNoMemoryIInv ==
  ASSUME IInv, NEW w \in Worker, WorkerPutNoMemory(w)
  PROVE  IInv'
<1> DEFINE c == res[w]
<1> USE DEF IInv
<1>1. /\ wpc[w] = "put"
      /\ life' = [life EXCEPT ![c] = "lost"]
      /\ res' = [res EXCEPT ![w] = NoConn]
      /\ wpc' = [wpc EXCEPT ![w] = "latch"]
      /\ UNCHANGED <<listening, queue, staleness, dpc, scan, state, arg, latch>>
  BY DEF WorkerPutNoMemory, dispatcherVars
<1>2. /\ Returning(w) /\ c \in Conn /\ Live(c) /\ c \notin ToSet(Pending)
      /\ \A v \in Worker : /\ Holding(v) => arg[v] # c
                           /\ v # w /\ Returning(v) => res[v] # c
  BY <1>1 DEF Returning, NoDanglingConnection, SingleOwner
<1>3. Pending' = Pending
  BY <1>1 DEF Pending
<1>4. TypeOK' /\ HeadStillThere'
  BY <1>1, <1>2 DEF TypeOK, HeadStillThere
<1>5. \A v \in Worker : /\ Holding(v)' = Holding(v)
                        /\ Returning(v)' <=> (Returning(v) /\ v # w)
                        /\ v # w => res'[v] = res[v]
  BY <1>1 DEF Holding, Returning, TypeOK
<1>6. \A d \in Conn : /\ Live(d) /\ d # c => Live(d)'
                      /\ life'[d] = IF d = c THEN "lost" ELSE life[d]
  BY <1>1, <1>2 DEF Live, TypeOK
<1>7. ServerAfterClient'
  <2> SUFFICES ASSUME NEW r \in Request
               PROVE  /\ life'[<<r, "SERVER">>] # "Parse"
                      /\ life'[<<r, "CLIENT">>] \in {"absent", "Parse"}
                            => life'[<<r, "SERVER">>] \in {"absent", "lost"}
    BY DEF ServerAfterClient
  <2>1. <<r, "SERVER">> \in Conn /\ <<r, "CLIENT">> \in Conn
    BY DEF Conn
  <2> QED BY <1>6, <2>1 DEF ServerAfterClient
<1>8. LatchDiscipline'
  BY <1>1, <1>5 DEF LatchDiscipline, TypeOK
<1>9. NoDanglingConnection'
  BY <1>1, <1>2, <1>3, <1>5, <1>6, PendingType DEF NoDanglingConnection
<1>10. SingleOwner'
  BY <1>1, <1>2, <1>3, <1>5 DEF SingleOwner
<1>11. NoneStranded'
  BY <1>1, <1>2, <1>3, <1>5, <1>6 DEF NoneStranded, Live
<1> QED BY <1>4, <1>7, <1>8, <1>9, <1>10, <1>11

-----------------------------------------------------------------------------
(* The inductive invariant holds of every behaviour. *)
THEOREM Invariance == SafeSpec => []IInv
<1>1. IInv /\ [Next]_vars => IInv'
  <2> SUFFICES ASSUME IInv, [Next]_vars PROVE IInv'
    OBVIOUS
  <2>1. ASSUME NEW r \in Request, Accept(r) PROVE IInv'
    BY <2>1, AcceptIInv
  <2>2. ASSUME NEW r \in Request, AcceptNoMemory(r) PROVE IInv'
    BY <2>2, AcceptNoMemoryIInv
  <2>3. CASE DispatcherWait \/ CheckHeadConn \/ SkipWorker
    BY <2>3, QuietIInv
  <2>4. CASE TryDispatch
    BY <2>4, TryDispatchIInv
  <2>5. CASE RemoveHeadConn
    BY <2>5, RemoveHeadConnIInv
  <2>6. ASSUME NEW w \in Worker, WorkerThread(w) PROVE IInv'
    BY <2>6, WorkerWakeIInv, BodyHangsIInv, SpinServerReaderIInv, SpinServerNoMemoryIInv,
       BodyReturnIInv, BodyFreeIInv, WorkerPutIInv, WorkerPutNoMemoryIInv DEF WorkerThread
  <2>7. CASE UNCHANGED vars
    <3>1. UNCHANGED <<life, listening, queue, staleness, dpc, scan, state, arg, latch, wpc, res>>
      BY <2>7 DEF vars, dispatcherVars, workerVars
    <3>2. /\ Pending' = Pending
          /\ \A w \in Worker : Holding(w)' = Holding(w) /\ Returning(w)' = Returning(w)
          /\ \A c \in Conn : Live(c)' = Live(c)
      BY <3>1 DEF Pending, Holding, Returning, Live
    <3>3. TypeOK'
      BY <3>1 DEF IInv, TypeOK
    <3>7. HeadStillThere' /\ ServerAfterClient'
      BY <3>1 DEF IInv, HeadStillThere, ServerAfterClient, Live
    <3>8. LatchDiscipline'
      BY <3>1, <3>2 DEF IInv, LatchDiscipline
    <3>4. NoDanglingConnection'
      BY <3>1, <3>2, PendingType DEF IInv, NoDanglingConnection, Live
    <3>5. SingleOwner'
      BY <3>1, <3>2 DEF IInv, SingleOwner
    <3>6. NoneStranded'
      BY <3>1, <3>2 DEF IInv, NoneStranded
    <3> QED
      BY <3>3, <3>4, <3>5, <3>6, <3>7, <3>8 DEF IInv
  <2> QED
    BY <2>1, <2>2, <2>3, <2>4, <2>5, <2>6, <2>7 DEF Next, Listener, DispatcherThread
<1> QED BY <1>1, InitIInv, PTL DEF SafeSpec

(* Every variable keeps its type. *)
THEOREM TypeCorrect == SafeSpec => []TypeOK
BY Invariance, PTL DEF IInv

(* One thread at a time owns a connection: with no lock on the connection  *)
(* structs, for any number of clients and workers (dispatcher.c:262-412).  *)
THEOREM OneOwner == SafeSpec => []SingleOwner
BY Invariance, PTL DEF IInv

(* No freed connection is queued, held by a worker or being returned.      *)
THEOREM NoneDangling == SafeSpec => []NoDanglingConnection
BY Invariance, PTL DEF IInv

(* Races lose no connection: one that is not over is queued, held or being *)
(* returned.                                                               *)
THEOREM NoneLost == SafeSpec => []NoneStranded
BY Invariance, PTL DEF IInv

(* A latch never holds a post for a worker that was given nothing.         *)
THEOREM LatchOncePerAssignment == SafeSpec => []LatchDiscipline
BY Invariance, PTL DEF IInv

(* The entry that try_dispatch and remove_head_conn dereference is there.  *)
THEOREM HeadNotNull == SafeSpec => []HeadStillThere
BY Invariance, PTL DEF IInv

(* No pointer that the dispatcher or a worker follows is NULL or dangling. *)
THEOREM PointersStayGood == SafeSpec => []PointersGood
BY NoneDangling, HeadNotNull, PTL DEF PointersGood

-----------------------------------------------------------------------------
(* Refinement: the threads of Dispatcher implement the safety part of      *)
(* WorkQueue.  First in first out, one owner per connection, at most       *)
(* NumWorkers of them served at once.                                      *)

Held(c) == \E w \in Worker : Holding(w) /\ arg[w] = c
Returned(c) == \E w \in Worker : Returning(w) /\ res[w] = c

(* A server connection is lost before its client is answered only while    *)
(* the worker that failed to queue it is on its way to free the client.    *)
LostServer ==
  \A r \in Request :
    life[<<r, "CLIENT">>] \in {"absent", "Parse"} /\ life[<<r, "SERVER">>] = "lost"
      => \E w \in Worker : wpc[w] = "free" /\ arg[w] = <<r, "CLIENT">>

(* The connections being served are as many as their workers at most. *)
LEMMA ServedBound ==
  ASSUME IInv, NEW v \in Worker, ~ Holding(v)
  PROVE  Cardinality({c \in Conn : Held(c)}) < NumWorkers
<1> DEFINE Others == Worker \ {v}
           Image == {arg[w] : w \in Others}
<1>1. IsFiniteSet(Worker) /\ Cardinality(Worker) = NumWorkers
  BY FS_Interval, DispatcherAssumption DEF Worker, DispatcherAssumption
<1>2. IsFiniteSet(Others) /\ Cardinality(Others) = NumWorkers - 1
  BY <1>1, FS_RemoveElement
<1>3. IsFiniteSet(Image) /\ Cardinality(Image) <= NumWorkers - 1
  <2> DEFINE f == [w \in Others |-> arg[w]]
  <2>1. f \in Surjection(Others, Image)
    BY DEF Surjection
  <2> QED BY <1>2, <2>1, FS_Surjection
<1>4. {c \in Conn : Held(c)} \subseteq Image
  BY DEF Held
<1>5. IsFiniteSet({c \in Conn : Held(c)})
  BY <1>3, <1>4, FS_Subset
<1>6. Cardinality({c \in Conn : Held(c)}) <= Cardinality(Image)
  BY <1>3, <1>4, FS_Subset
<1>7. Cardinality({c \in Conn : Held(c)}) \in Nat /\ Cardinality(Image) \in Nat
  BY <1>3, <1>5, FS_CardinalityType
<1> QED BY <1>3, <1>6, <1>7, DispatcherAssumption DEF DispatcherAssumption
-----------------------------------------------------------------------------
(* The phase of a connection in terms of who has a pointer to it. *)
PhaseFacts ==
  \A c \in Conn :
    /\ life[c] = "absent" => Phase[c] = "absent"
    /\ c \in ToSet(Pending) => Phase[c] = "ready"
    /\ Held(c) => Phase[c] = "served"
    /\ Returned(c) => Phase[c] = "yielding"
    /\ life[c] # "absent" /\ c \notin ToSet(Pending) /\ ~ Held(c) /\ ~ Returned(c)
         => Phase[c] = "over"
    /\ Phase[c] = "served" => Held(c)

LEMMA PhaseOf == IInv => PhaseFacts
<1> SUFFICES ASSUME IInv, NEW c \in Conn
             PROVE  PhaseFacts!(c)
  BY DEF PhaseFacts
<1>1. c \in ToSet(Pending) => life[c] # "absent" /\ ~ Held(c) /\ ~ Returned(c)
  BY DEF IInv, NoDanglingConnection, SingleOwner, Live, Held, Returned
<1>2. Held(c) => life[c] # "absent" /\ ~ Returned(c)
  BY DEF IInv, NoDanglingConnection, SingleOwner, Live, Held, Returned
<1>3. Returned(c) => life[c] # "absent"
  BY DEF IInv, NoDanglingConnection, Live, Returned
<1>4. Phase[c] = IF life[c] = "absent" THEN "absent"
                 ELSE IF c \in ToSet(Pending) THEN "ready"
                 ELSE IF Held(c) THEN "served"
                 ELSE IF Returned(c) THEN "yielding"
                 ELSE "over"
  BY DEF Phase, Held, Returned
<1> QED BY <1>1, <1>2, <1>3, <1>4

LEMMA PhaseOfNext == IInv' => PhaseFacts'
BY PhaseOf, PTL

(* A connection keeps its phase when nobody gains or loses a pointer to it. *)
LEMMA PhaseKept ==
  ASSUME NEW c \in Conn,
         (life'[c] = "absent") <=> (life[c] = "absent"),
         (c \in ToSet(Pending')) <=> (c \in ToSet(Pending)),
         Held(c)' <=> Held(c),
         Returned(c)' <=> Returned(c)
  PROVE  Phase'[c] = Phase[c]
  BY DEF Phase, Held, Returned

-----------------------------------------------------------------------------
(* LostServer holds of every behaviour. *)
LEMMA LostServerInit == Init => LostServer
  BY DEF Init, LostServer, Conn

LEMMA LostServerStep ==
  ASSUME IInv, LostServer, [Next]_vars
  PROVE  LostServer'
<1> SUFFICES ASSUME NEW r \in Request,
                    life'[<<r, "CLIENT">>] \in {"absent", "Parse"},
                    life'[<<r, "SERVER">>] = "lost"
             PROVE  \E w \in Worker : wpc'[w] = "free" /\ arg'[w] = <<r, "CLIENT">>
  BY DEF LostServer
<1> DEFINE client == <<r, "CLIENT">>
           server == <<r, "SERVER">>
<1> USE DEF IInv
<1>1. client \in Conn /\ server \in Conn /\ client # server
  BY DEF Conn
<1>2. ASSUME UNCHANGED wpc, UNCHANGED arg, life[client] \in {"absent", "Parse"},
             life[server] = "lost"
      PROVE  \E w \in Worker : wpc'[w] = "free" /\ arg'[w] = client
  BY <1>2 DEF LostServer
<1>3. ASSUME NEW w \in Worker, life[client] \in {"absent", "Parse"}, life[server] = "lost",
             wpc[w] # "free", \A v \in Worker : v # w => wpc'[v] = wpc[v], UNCHANGED arg
      PROVE  \E v \in Worker : wpc'[v] = "free" /\ arg'[v] = client
  BY <1>3 DEF LostServer
<1>4. ASSUME NEW q \in Request, Accept(q) \/ AcceptNoMemory(q)
      PROVE  \E w \in Worker : wpc'[w] = "free" /\ arg'[w] = client
  BY <1>1, <1>2, <1>4 DEF Accept, AcceptNoMemory, workerVars, TypeOK, Conn
<1>5. CASE DispatcherWait \/ CheckHeadConn \/ SkipWorker \/ RemoveHeadConn \/ UNCHANGED vars
  BY <1>2, <1>5 DEF DispatcherWait, CheckHeadConn, SkipWorker, RemoveHeadConn, vars, workerVars
<1>6. CASE TryDispatch
  <2>1. PICK w \in Worker : wpc[w] = "free" /\ arg[w] = client
    BY <1>6 DEF TryDispatch, LostServer
  <2>2. w # scan
    BY <1>6, <2>1, InBodyOwns DEF TryDispatch, Holding
  <2> QED BY <1>6, <2>1, <2>2 DEF TryDispatch, Assign, TypeOK
<1>7. ASSUME NEW w \in Worker, WorkerWake(w) \/ BodyHangs(w) \/ WorkerPut(w)
      PROVE  \E v \in Worker : wpc'[v] = "free" /\ arg'[v] = client
  BY <1>3, <1>7 DEF WorkerWake, BodyHangs, WorkerPut, TypeOK
<1>8. ASSUME NEW w \in Worker, SpinServerReader(w)
      PROVE  \E v \in Worker : wpc'[v] = "free" /\ arg'[v] = client
  <2>1. life'[client] = life[client] /\ life'[server] = life[server]
    BY <1>1, <1>8 DEF SpinServerReader, TypeOK
  <2> QED BY <1>3, <1>8, <2>1 DEF SpinServerReader, TypeOK
<1>9. ASSUME NEW w \in Worker, SpinServerNoMemory(w)
      PROVE  \E v \in Worker : wpc'[v] = "free" /\ arg'[v] = client
  <2>1. arg[w] \in Conn /\ arg[w] = <<arg[w][1], "CLIENT">>
    BY <1>9, InBodyOwns, ParseIsClient DEF SpinServerNoMemory
  <2>2. CASE arg[w] = client
    BY <1>9, <2>2 DEF SpinServerNoMemory, TypeOK
  <2>3. CASE arg[w] # client
    <3>1. life'[client] = life[client] /\ life'[server] = life[server]
      BY <1>1, <1>9, <2>1, <2>3 DEF SpinServerNoMemory, TypeOK
    <3> QED BY <1>3, <1>9, <3>1 DEF SpinServerNoMemory, TypeOK
  <2> QED BY <2>2, <2>3
<1>10. ASSUME NEW w \in Worker, BodyReturn(w)
       PROVE  \E v \in Worker : wpc'[v] = "free" /\ arg'[v] = client
  <2>1. arg[w] \in Conn
    BY <1>10, InBodyOwns DEF BodyReturn
  <2>2. life'[client] = life[client] /\ life'[server] = life[server]
    BY <1>1, <1>10, <2>1 DEF BodyReturn, TypeOK
  <2> QED BY <1>3, <1>10, <2>2 DEF BodyReturn, TypeOK
<1>11. ASSUME NEW w \in Worker, BodyFree(w)
       PROVE  \E v \in Worker : wpc'[v] = "free" /\ arg'[v] = client
  <2>1. arg[w] \in Conn
    BY <1>11, InBodyOwns DEF BodyFree
  <2>2. life'[client] = life[client] /\ life'[server] = life[server] /\ arg[w] # client
    BY <1>1, <1>11, <2>1 DEF BodyFree, TypeOK
  <2>3. PICK v \in Worker : wpc[v] = "free" /\ arg[v] = client
    BY <2>2 DEF LostServer
  <2> QED BY <1>11, <2>2, <2>3 DEF BodyFree, TypeOK
<1>12. ASSUME NEW w \in Worker, WorkerPutNoMemory(w)
       PROVE  \E v \in Worker : wpc'[v] = "free" /\ arg'[v] = client
  <2>1. res[w] \in Conn /\ Live(res[w])
    BY <1>12 DEF WorkerPutNoMemory, NoDanglingConnection, Returning
  <2>2. life[client] = life'[client] /\ res[w] # client
    BY <1>1, <1>12, <2>1 DEF WorkerPutNoMemory, TypeOK
  <2>3. res[w] # server
    BY <2>1, <2>2 DEF ServerAfterClient, Live
  <2>4. life'[server] = life[server]
    BY <1>1, <1>12, <2>1, <2>3 DEF WorkerPutNoMemory, TypeOK
  <2> QED BY <1>3, <1>12, <2>2, <2>4 DEF WorkerPutNoMemory, TypeOK
<1> QED
  BY <1>4, <1>5, <1>6, <1>7, <1>8, <1>9, <1>10, <1>11, <1>12
  DEF Next, Listener, DispatcherThread, WorkerThread

-----------------------------------------------------------------------------
(* The queue is empty and no connection has arrived. *)
LEMMA InitRefines == Init => Abstract!Init
<1> SUFFICES ASSUME Init PROVE Abstract!Init
  OBVIOUS
<1>1. Pending = <<>>
  BY DEF Init, Pending
<1>2. \A c \in Conn : life[c] = "absent"
  BY DEF Init
<1>3. Phase = [c \in Conn |-> "absent"]
  BY <1>2 DEF Phase
<1> QED BY <1>1, <1>3 DEF Abstract!Init

(* One phase changes, the others stay. *)
LEMMA PhaseUpdate ==
  ASSUME NEW c \in Conn, NEW p, Phase'[c] = p,
         \A d \in Conn : d # c => Phase'[d] = Phase[d]
  PROVE  Phase' = [Phase EXCEPT ![c] = p]
<1>1. Phase = [d \in Conn |-> Phase[d]] /\ Phase' = [d \in Conn |-> Phase'[d]]
  BY DEF Phase
<1> QED BY <1>1

(* A step that queues a new connection is Arrive. *)
LEMMA ArriveRefines ==
  ASSUME IInv, IInv', NEW c \in Conn, life[c] = "absent", life'[c] # "absent", Put(c),
         dpc' = dpc, UNCHANGED <<state, arg, res>>,
         \A w \in Worker : Returning(w)' = Returning(w),
         \A d \in Conn : d # c => (life'[d] = "absent" <=> life[d] = "absent")
  PROVE  Abstract!Arrive(c)
<1>1. c \notin ToSet(Pending) /\ ~ Held(c) /\ ~ Returned(c)
  BY DEF IInv, NoDanglingConnection, Live, Held, Returned
<1>2. Pending' = Append(Pending, c) /\ ToSet(Pending') = ToSet(Pending) \cup {c}
  BY <1>1, PutPending DEF IInv, SingleOwner
<1>3. \A d \in Conn : Held(d)' <=> Held(d)
  BY DEF Held, Holding
<1>4. \A d \in Conn : Returned(d)' <=> Returned(d)
  BY DEF Returned
<1>5. \A d \in Conn : d # c => Phase'[d] = Phase[d]
  BY <1>2, <1>3, <1>4, PhaseKept
<1>6. Phase[c] = "absent" /\ Phase'[c] = "ready"
  BY <1>2, PhaseOf, PhaseOfNext DEF PhaseFacts
<1> QED BY <1>2, <1>5, <1>6, PhaseUpdate DEF Abstract!Arrive

(* The listener's steps are Arrive and Finish. *)
LEMMA ListenerRefines ==
  ASSUME IInv, IInv', NEW r \in Request, Accept(r) \/ AcceptNoMemory(r)
  PROVE  Abstract!Next
<1> DEFINE c == <<r, "CLIENT">>
<1>1. c \in Conn /\ life[c] = "absent"
  BY DEF Conn, Accept, AcceptNoMemory
<1>2. CASE Accept(r)
  <2>1. /\ Put(c) /\ dpc' = dpc /\ UNCHANGED <<state, arg, res>>
        /\ life' = [life EXCEPT ![c] = "Parse"]
        /\ \A w \in Worker : Returning(w)' = Returning(w)
    BY <1>2 DEF Accept, dispatcherVars, workerVars, Returning
  <2>2. life'[c] = "Parse" /\ \A d \in Conn : d # c => life'[d] = life[d]
    BY <1>1, <2>1 DEF IInv, TypeOK
  <2>3. Abstract!Arrive(c)
    BY <1>1, <2>1, <2>2, ArriveRefines
  <2> QED BY <1>1, <2>3 DEF Abstract!Next
<1>3. CASE AcceptNoMemory(r)
  <2>1. /\ UNCHANGED <<queue, dpc, state, arg, wpc, res>>
        /\ life' = [life EXCEPT ![c] = "lost"]
    BY <1>3 DEF AcceptNoMemory, dispatcherVars, workerVars
  <2>2. life'[c] = "lost" /\ \A d \in Conn : d # c => life'[d] = life[d]
    BY <1>1, <2>1 DEF IInv, TypeOK
  <2>3. Pending' = Pending
    BY <2>1 DEF Pending
  <2>4. \A d \in Conn : (Held(d)' <=> Held(d)) /\ (Returned(d)' <=> Returned(d))
    BY <2>1 DEF Held, Holding, Returned, Returning
  <2>5. c \notin ToSet(Pending) /\ ~ Held(c) /\ ~ Returned(c)
    BY <1>1 DEF IInv, NoDanglingConnection, Live, Held, Returned
  <2>6. Phase[c] = "absent" /\ Phase'[c] = "over"
    BY <1>1, <2>2, <2>3, <2>4, <2>5, PhaseOf, PhaseOfNext DEF PhaseFacts
  <2>7. \A d \in Conn : d # c => Phase'[d] = Phase[d]
    BY <2>2, <2>3, <2>4, PhaseKept
  <2>8. Abstract!Finish(c)
    BY <1>1, <2>3, <2>6, <2>7, PhaseUpdate DEF Abstract!Finish
  <2> QED BY <1>1, <2>8 DEF Abstract!Next
<1> QED BY <1>2, <1>3

(* The handover is Take. *)
LEMMA TryDispatchRefines ==
  ASSUME IInv, IInv', TryDispatch
  PROVE  Abstract!Take
<1> DEFINE c == Head(queue)
<1>1. /\ Pending = queue /\ queue # <<>> /\ queue \in Seq(Conn)
      /\ scan \in Worker /\ ~ Holding(scan)
      /\ dpc' = "remove"
      /\ UNCHANGED <<life, queue, wpc, res>>
      /\ arg' = [arg EXCEPT ![scan] = c]
      /\ state' = [state EXCEPT ![scan] = "Working"]
  BY DEF TryDispatch, Assign, Pending, IInv, HeadStillThere, TypeOK, Holding
<1>2. /\ Pending' = Tail(Pending)
      /\ c \in Conn
      /\ ToSet(Pending') = ToSet(Pending) \ {c}
  BY <1>1, TailOfInjective DEF Pending, IInv, SingleOwner
<1>3. Held(c)' /\ \A d \in Conn : d # c => (Held(d)' <=> Held(d))
  BY <1>1 DEF Held, Holding, IInv, TypeOK
<1>4. \A d \in Conn : Returned(d)' <=> Returned(d)
  BY <1>1 DEF Returned, Returning
<1>5. Phase'[c] = "served" /\ \A d \in Conn : d # c => Phase'[d] = Phase[d]
  BY <1>1, <1>2, <1>3, <1>4, PhaseKept, PhaseOfNext DEF PhaseFacts
<1>6. Abstract!Served = {d \in Conn : Held(d)}
  BY PhaseOf DEF Abstract!Served, PhaseFacts
<1>7. Cardinality(Abstract!Served) < NumWorkers
  BY <1>1, <1>6, ServedBound
<1>8. Phase' = [Phase EXCEPT ![c] = "served"]
  BY <1>2, <1>5, PhaseUpdate
<1> HIDE DEF c
<1>9. c = Head(Pending) /\ Pending # <<>>
  BY <1>1 DEF c
<1>10. Abstract!Cardinality(Abstract!Served) = Cardinality(Abstract!Served)
  BY Zenon DEF Cardinality, Abstract!Cardinality
<1> QED BY <1>2, <1>7, <1>8, <1>9, <1>10 DEF Abstract!Take

(* The handed-over entry leaves the list, a worker wakes, a body hangs,  *)
(* the dispatcher looks around: nothing the abstract queue can see.      *)
LEMMA SilentRefines ==
  ASSUME DispatcherWait \/ CheckHeadConn \/ SkipWorker \/ RemoveHeadConn
           \/ (\E w \in Worker : WorkerWake(w) \/ BodyHangs(w)) \/ UNCHANGED vars,
         TypeOK
  PROVE  UNCHANGED <<Phase, Pending>>
<1>1. /\ UNCHANGED <<life, state, arg, res>>
      /\ \A w \in Worker : Returning(w)' = Returning(w)
  BY DEF DispatcherWait, CheckHeadConn, SkipWorker, RemoveHeadConn, WorkerWake, BodyHangs,
     vars, workerVars, Returning, TypeOK
<1>2. Pending' = Pending
  BY DEF DispatcherWait, CheckHeadConn, SkipWorker, RemoveHeadConn, WorkerWake, BodyHangs, OutOfWorkers,
     Unlink, vars, dispatcherVars, Pending
<1>3. \A w \in Worker : Holding(w)' = Holding(w)
  BY <1>1 DEF Holding
<1>4. \A c \in Conn : (Held(c)' <=> Held(c)) /\ (Returned(c)' <=> Returned(c))
  BY <1>1, <1>3 DEF Held, Returned
<1>5. \A c \in Conn : Phase'[c] = Phase[c]
  BY <1>1, <1>2, <1>4, PhaseKept
<1>6. Phase' = Phase
  BY <1>5 DEF Phase
<1> QED BY <1>2, <1>6

(* A miss queues its server connection (Arrive), or loses it (Finish). *)
LEMMA SpinServerRefines ==
  ASSUME IInv, IInv', LostServer, NEW w \in Worker, SpinServerReader(w) \/ SpinServerNoMemory(w)
  PROVE  Abstract!Next
<1> DEFINE client == arg[w]
           server == <<arg[w][1], "SERVER">>
<1>1. /\ wpc[w] = "body" /\ life[client] = "Parse"
      /\ dpc' = dpc /\ UNCHANGED <<state, arg, res>>
      /\ \A v \in Worker : Returning(v)' = Returning(v)
  BY DEF SpinServerReader, SpinServerNoMemory, dispatcherVars, Returning, IInv, TypeOK
<1>2. /\ Holding(w) /\ client \in Conn
      /\ \A v \in Worker : v # w /\ Holding(v) => arg[v] # client
  BY <1>1, InBodyOwns
<1>3. /\ client = <<client[1], "CLIENT">> /\ client[1] \in Request
      /\ server \in Conn /\ life[server] \in {"absent", "lost"}
  BY <1>1, <1>2, ParseIsClient DEF IInv
<1>4. life[server] # "lost"
  <2> SUFFICES ASSUME life[server] = "lost" PROVE FALSE
    OBVIOUS
  <2>1. PICK v \in Worker : wpc[v] = "free" /\ arg[v] = client
    BY <1>1, <1>3 DEF LostServer
  <2>2. Holding(v)
    BY <2>1, InBodyOwns
  <2> QED BY <1>1, <1>2, <2>1, <2>2
<1>5. CASE SpinServerReader(w)
  <2>1. Put(server) /\ life' = [life EXCEPT ![client] = "Read", ![server] = "Read"]
    BY <1>3, <1>5 DEF SpinServerReader
  <2>2. \A d \in Conn : d # server => (life'[d] = "absent" <=> life[d] = "absent")
    BY <1>1, <1>2, <1>3, <2>1 DEF IInv, TypeOK
  <2>3. life'[server] = "Read"
    BY <1>3, <2>1 DEF IInv, TypeOK
  <2> HIDE DEF server
  <2>4. Abstract!Arrive(server)
    BY <1>1, <1>3, <1>4, <2>1, <2>2, <2>3, ArriveRefines
  <2> QED BY <1>3, <2>4 DEF Abstract!Next
<1>6. CASE SpinServerNoMemory(w)
  <2>1. /\ life' = [life EXCEPT ![server] = "lost"]
        /\ queue' = queue
    BY <1>6 DEF SpinServerNoMemory
  <2>2. life'[server] = "lost" /\ \A d \in Conn : d # server => life'[d] = life[d]
    BY <1>3, <2>1 DEF IInv, TypeOK
  <2>3. Pending' = Pending
    BY <1>1, <2>1 DEF Pending
  <2>4. \A d \in Conn : (Held(d)' <=> Held(d)) /\ (Returned(d)' <=> Returned(d))
    BY <1>1 DEF Held, Holding, Returned
  <2> HIDE DEF server
  <2>5. server \notin ToSet(Pending) /\ ~ Held(server) /\ ~ Returned(server)
    BY <1>3, <1>4 DEF IInv, NoDanglingConnection, Live, Held, Returned
  <2>6. Phase[server] = "absent" /\ Phase'[server] = "over"
    BY <1>3, <1>4, <2>2, <2>3, <2>4, <2>5, PhaseOf, PhaseOfNext DEF PhaseFacts
  <2>7. \A d \in Conn : d # server => Phase'[d] = Phase[d]
    BY <2>2, <2>3, <2>4, PhaseKept
  <2>8. Abstract!Finish(server)
    BY <1>3, <2>3, <2>6, <2>7, PhaseUpdate DEF Abstract!Finish
  <2> QED BY <1>3, <2>8 DEF Abstract!Next
<1> QED BY <1>5, <1>6

(* The end of a body is Yield or Finish. *)
LEMMA BodyRefines ==
  ASSUME IInv, IInv', NEW w \in Worker, BodyReturn(w) \/ BodyFree(w)
  PROVE  Abstract!Next
<1>1. PICK c \in Conn : c = arg[w] /\ Holding(w)
  BY InBodyOwns DEF BodyReturn, BodyFree
<1>2. /\ UNCHANGED <<queue, dpc, arg>>
      /\ state' = [state EXCEPT ![w] = "Empty"]
  BY DEF BodyReturn, BodyFree, dispatcherVars
<1>3. Pending' = Pending
  BY <1>2 DEF Pending
<1>4. /\ c \notin ToSet(Pending) /\ ~ Returning(w)
      /\ \A v \in Worker : /\ v # w /\ Holding(v) => arg[v] # c
                           /\ Returning(v) => res[v] # c
  BY <1>1, InBodyOwns DEF BodyReturn, BodyFree
<1>5. \A v \in Worker : Holding(v)' <=> (Holding(v) /\ v # w)
  BY <1>2 DEF Holding, IInv, TypeOK
<1>6. Held(c) /\ \A d \in Conn : Held(d)' <=> (Held(d) /\ d # c)
  BY <1>1, <1>2, <1>4, <1>5 DEF Held
<1>7. Phase[c] = "served"
  BY <1>6, PhaseOf DEF PhaseFacts
<1>8. CASE BodyReturn(w)
  <2>1. /\ life' = [life EXCEPT ![c] = "Read"]
        /\ res' = [res EXCEPT ![w] = c]
        /\ wpc' = [wpc EXCEPT ![w] = "put"]
    BY <1>1, <1>8 DEF BodyReturn
  <2>2. \A v \in Worker : /\ Returning(v)' <=> (Returning(v) \/ v = w)
                          /\ res'[v] = IF v = w THEN c ELSE res[v]
    BY <2>1 DEF Returning, IInv, TypeOK
  <2>3. Returned(c)' /\ \A d \in Conn : d # c => (Returned(d)' <=> Returned(d))
    BY <1>4, <2>2 DEF Returned
  <2>4. \A d \in Conn : d # c => life'[d] = life[d]
    BY <2>1 DEF IInv, TypeOK
  <2>5. Phase'[c] = "yielding"
    BY <2>3, PhaseOfNext DEF PhaseFacts
  <2>6. \A d \in Conn : d # c => Phase'[d] = Phase[d]
    BY <1>3, <1>6, <2>3, <2>4, PhaseKept
  <2>7. Abstract!Yield(c)
    BY <1>3, <1>7, <2>5, <2>6, PhaseUpdate DEF Abstract!Yield
  <2> QED BY <2>7 DEF Abstract!Next
<1>9. CASE BodyFree(w)
  <2>1. /\ life' = [life EXCEPT ![c] = "freed"]
        /\ wpc' = [wpc EXCEPT ![w] = "latch"]
        /\ res' = res
    BY <1>1, <1>9 DEF BodyFree
  <2>2. \A v \in Worker : Returning(v)' <=> Returning(v)
    BY <1>4, <2>1 DEF Returning, IInv, TypeOK
  <2>3. \A d \in Conn : Returned(d)' <=> Returned(d)
    BY <2>1, <2>2 DEF Returned
  <2>4. life'[c] = "freed" /\ \A d \in Conn : d # c => life'[d] = life[d]
    BY <2>1 DEF IInv, TypeOK
  <2>5. ~ Returned(c)
    BY <1>4 DEF Returned
  <2>6. Phase'[c] = "over"
    BY <1>3, <1>4, <1>6, <2>3, <2>4, <2>5, PhaseOfNext DEF PhaseFacts
  <2>7. \A d \in Conn : d # c => Phase'[d] = Phase[d]
    BY <1>3, <1>6, <2>3, <2>4, PhaseKept
  <2>8. Abstract!Finish(c)
    BY <1>3, <1>7, <2>6, <2>7, PhaseUpdate DEF Abstract!Finish
  <2> QED BY <2>8 DEF Abstract!Next
<1> QED BY <1>8, <1>9

(* Queueing what a body returned is Requeue, failing to is Finish. *)
LEMMA PutBackRefines ==
  ASSUME IInv, IInv', NEW w \in Worker, WorkerPut(w) \/ WorkerPutNoMemory(w)
  PROVE  Abstract!Next
<1>1. /\ Returning(w) /\ dpc' = dpc /\ UNCHANGED <<state, arg>>
      /\ res' = [res EXCEPT ![w] = NoConn]
      /\ wpc' = [wpc EXCEPT ![w] = "latch"]
  BY DEF WorkerPut, WorkerPutNoMemory, dispatcherVars, Returning
<1>2. PICK c \in Conn : c = res[w]
  BY <1>1 DEF IInv, NoDanglingConnection
<1>3. /\ Live(c) /\ c \notin ToSet(Pending)
      /\ \A v \in Worker : /\ Holding(v) => arg[v] # c
                           /\ v # w /\ Returning(v) => res[v] # c
  BY <1>1, <1>2 DEF IInv, NoDanglingConnection, SingleOwner
<1>4. \A v \in Worker : /\ Holding(v)' = Holding(v)
                        /\ Returning(v)' <=> (Returning(v) /\ v # w)
                        /\ v # w => res'[v] = res[v]
  BY <1>1 DEF Holding, Returning, IInv, TypeOK
<1>5. ~ Held(c) /\ \A d \in Conn : Held(d)' <=> Held(d)
  BY <1>1, <1>3, <1>4 DEF Held
<1>6. Returned(c) /\ \A d \in Conn : Returned(d)' <=> (Returned(d) /\ d # c)
  BY <1>1, <1>2, <1>3, <1>4 DEF Returned
<1>7. Phase[c] = "yielding"
  BY <1>6, PhaseOf DEF PhaseFacts
<1>8. CASE WorkerPut(w)
  <2>1. Put(c) /\ life' = life
    BY <1>2, <1>8 DEF WorkerPut
  <2>2. Pending' = Append(Pending, c) /\ ToSet(Pending') = ToSet(Pending) \cup {c}
    BY <1>1, <1>3, <2>1, PutPending DEF IInv, SingleOwner
  <2>3. Phase'[c] = "ready"
    BY <2>2, PhaseOfNext DEF PhaseFacts
  <2>4. \A d \in Conn : d # c => Phase'[d] = Phase[d]
    BY <1>5, <1>6, <2>1, <2>2, PhaseKept
  <2>5. Abstract!Requeue(c)
    BY <1>7, <2>2, <2>3, <2>4, PhaseUpdate DEF Abstract!Requeue
  <2> QED BY <2>5 DEF Abstract!Next
<1>9. CASE WorkerPutNoMemory(w)
  <2>1. queue' = queue /\ life' = [life EXCEPT ![c] = "lost"]
    BY <1>2, <1>9 DEF WorkerPutNoMemory
  <2>2. Pending' = Pending
    BY <1>1, <2>1 DEF Pending
  <2>3. life'[c] = "lost" /\ \A d \in Conn : d # c => life'[d] = life[d]
    BY <2>1 DEF IInv, TypeOK
  <2>4. Phase'[c] = "over"
    BY <1>3, <1>5, <1>6, <2>2, <2>3, PhaseOfNext DEF PhaseFacts
  <2>5. \A d \in Conn : d # c => Phase'[d] = Phase[d]
    BY <1>5, <1>6, <2>2, <2>3, PhaseKept
  <2>6. Abstract!Finish(c)
    BY <1>7, <2>2, <2>4, <2>5, PhaseUpdate DEF Abstract!Finish
  <2> QED BY <2>6 DEF Abstract!Next
<1> QED BY <1>8, <1>9

-----------------------------------------------------------------------------
(* Every step of a thread is a step of the abstract queue, or a stutter. *)
LEMMA StepRefines ==
  ASSUME IInv, IInv', LostServer, [Next]_vars
  PROVE  [Abstract!Next]_(Abstract!vars)
<1>1. CASE UNCHANGED vars
  BY <1>1, SilentRefines DEF Abstract!vars, IInv
<1>2. CASE Listener
  BY <1>2, ListenerRefines DEF Listener
<1>3. CASE DispatcherThread
  BY <1>3, SilentRefines, TryDispatchRefines DEF DispatcherThread, Abstract!vars, Abstract!Next, IInv
<1>4. ASSUME NEW w \in Worker, WorkerThread(w)
      PROVE  [Abstract!Next]_(Abstract!vars)
  BY <1>4, SilentRefines, SpinServerRefines, BodyRefines, PutBackRefines
  DEF WorkerThread, Abstract!vars, IInv
<1> QED BY <1>1, <1>2, <1>3, <1>4 DEF Next

(* The dispatcher, the listener and any number of workers implement a      *)
(* first-in-first-out queue with one owner per connection and bounded      *)
(* service (the safety part of ImplementsWorkQueue).                       *)
THEOREM Refinement == SafeSpec => Abstract!SafeSpec
<1>1. SafeSpec => []LostServer
  BY LostServerInit, LostServerStep, Invariance, PTL DEF SafeSpec
<1> QED
  BY <1>1, InitRefines, StepRefines, Invariance, PTL DEF SafeSpec, Abstract!SafeSpec
=============================================================================
