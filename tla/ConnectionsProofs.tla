-------------------------- MODULE ConnectionsProofs --------------------------
(***************************************************************************)
(* Who frees a server connection, for any number of clients, blocks and    *)
(* workers.  A client that is making one holds it alone (Making), since    *)
(* malloc gives only what is free; only what is Read or Done is dispatched *)
(* (Dispatched); so a proxied block is the client's that made it until     *)
(* this or a stray one frees it.                                           *)
(***************************************************************************)
EXTENDS Connections, Integers, TLAPS

(* A client that has not asked for memory yet has no pointer. *)
Early ==
  \A c \in Client :
    pc[c] \in {"absent", "parse", "find"} \/ (pc[c] = "queued" /\ state[c] = "Parse") => ptr[c] = Null

(* The place of a client fits its state. *)
Bodies ==
  \A c \in Client :
    /\ pc[c] \in {"read", "spin"} => state[c] = "Read"
    /\ pc[c] \in {"rewrite", "fetch", "write"} => state[c] = "Proxy"
    /\ state[c] = "Proxy" => ptr[c] \in Block
    /\ pc[c] \in {"fetch", "write"} => i[c] < ChunksToRead

(* The client that makes a server connection is the only one to touch it. *)
Making ==
  \A c \in Client :
    /\ pc[c] = "connect" => Holds(c, "raw")
    /\ pc[c] \in {"send", "response"} => Holds(c, "Parse")
    /\ pc[c] = "spin" => Holds(c, "Read")

Dispatched == \A a \in served : block[a] \in {"Read", "Done"}

(* What is not dispatched and has not failed has its maker. *)
Kept ==
  \A a \in Block :
    /\ block[a] = "raw" => \E c \in Client : ptr[c] = a /\ maker[a] = c /\ pc[c] = "connect"
    /\ block[a] = "Proxy" => \E c \in Client : ptr[c] = a /\ maker[a] = c /\ pc[c] # "gone"
    /\ block[a] = "Done" => a \in served

IInv == TypeOK /\ Early /\ Bodies /\ Making /\ Dispatched /\ Kept /\ ProxyOwner

(* Types; a part that has been written was in a buffer that is set. *)
LEMMA TypeStep == IInv /\ [Next]_vars => TypeOK'
<1> SUFFICES ASSUME IInv, [Next]_vars PROVE TypeOK'
  OBVIOUS
<1> USE ConnectionsAssumption DEF vars, serverVars, proxyVars, At, Goto
<1>1. ASSUME NEW c \in Client, Accept(c) \/ TakeTurn(c) \/ ReadTurn(c)
      PROVE TypeOK'
  <2>1. CASE Accept(c) \/ ReadTurn(c)
    BY <2>1 DEF IInv, TypeOK, Accept, ReadTurn
  <2>2. CASE TakeTurn(c)
    <3>1. BodyOf(state[c]) \in {"parse", "read", "rewrite", "free"}
      BY DEF IInv, TypeOK, BodyOf
    <3> QED
      BY <2>2, <3>1 DEF IInv, TypeOK, TakeTurn
  <2> QED
    BY <2>1, <2>2, <1>1
<1>2. ASSUME NEW c \in Client, Parsed(c) \/ ParseFails(c) \/ Spins(c) \/ FindHit(c)
      PROVE TypeOK'
  BY <1>2 DEF IInv, TypeOK, Bodies, Unset, BodyOf, Parsed, ParseFails, Spins, FindHit, Fail
<1>3. ASSUME NEW c \in Client, NEW a \in Block, FindMiss(c, a)
      PROVE TypeOK'
  BY <1>3 DEF IInv, TypeOK, Bodies, Unset, BodyOf, FindMiss
<1>4. ASSUME NEW c \in Client, Connected(c)
      PROVE TypeOK'
  <2>1. ptr[c] \in Block
    BY <1>4 DEF IInv, Making, Holds, Connected
  <2>2. 0 \in 0..Unset /\ Unset \in 0..Unset
    BY DEF Unset
  <2> QED
    BY <2>1, <2>2, <1>4 DEF IInv, TypeOK, Connected
<1>5. ASSUME NEW c \in Client, ConnectFails(c)
      PROVE TypeOK'
  BY <1>5 DEF IInv, TypeOK, Bodies, Unset, BodyOf, ConnectFails, Fail
<1>6. ASSUME NEW c \in Client, Sent(c) \/ SendFails(c) \/ SpinFails(c)
      PROVE TypeOK'
  BY <1>6 DEF IInv, TypeOK, Bodies, Unset, BodyOf, Sent, SendFails, SpinFails, Fail
<1>7. ASSUME NEW c \in Client, NEW b \in {0, Unset}, ChooseProxy(c, b)
      PROVE TypeOK'
  <2>1. ptr[c] \in Block
    BY <1>7 DEF IInv, Making, Holds, ChooseProxy
  <2>2. 0 \in 0..Unset /\ Unset \in 0..Unset
    BY DEF Unset
  <2> QED
    BY <2>1, <2>2, <1>7 DEF IInv, TypeOK, ChooseProxy
<1>8. ASSUME NEW c \in Client, NEW b \in {0, Unset}, ChooseRead(c, b)
      PROVE TypeOK'
  <2>1. ptr[c] \in Block
    BY <1>8 DEF IInv, Making, Holds, ChooseRead
  <2>2. 0 \in 0..Unset /\ Unset \in 0..Unset
    BY DEF Unset
  <2> QED
    BY <2>1, <2>2, <1>8 DEF IInv, TypeOK, ChooseRead
<1>9. ASSUME NEW c \in Client, Spun(c)
      PROVE TypeOK'
  <2>1. ptr[c] \in Block
    BY <1>9 DEF IInv, Making, Holds, Spun
  <2>2. 0 \in 0..Unset /\ Unset \in 0..Unset
    BY DEF Unset
  <2> QED
    BY <2>1, <2>2, <1>9 DEF IInv, TypeOK, Spun
<1>10. ASSUME NEW c \in Client, Rewrite(c)
      PROVE TypeOK'
  <2>1. buf[ptr[c]] \in 0..MaxParts
    BY <1>10 DEF IInv, TypeOK, Bodies, Unset, Sound, Rewrite
  <2>2. Append(out[c], buf[ptr[c]]) \in Seq(0..MaxParts) /\ 0 \in 0..ChunksToRead
    BY <2>1 DEF IInv, TypeOK
  <2> QED
    BY <2>2, <1>10 DEF IInv, TypeOK, Rewrite, Rewritten
<1>11. ASSUME NEW c \in Client, Fetch(c) \/ FetchEnd(c) \/ FetchFails(c)
      PROVE TypeOK'
  <2>1. ptr[c] \in Block
    BY <1>11 DEF IInv, Bodies, Fetch, FetchEnd, FetchFails
  <2>2. CASE Fetch(c)
    <3>1. buf[ptr[c]] \in 0..Unset /\ buf[ptr[c]] < MaxParts
      BY <2>1, <2>2 DEF IInv, TypeOK, Fetch
    <3>2. buf[ptr[c]] + 1 \in 0..Unset
      BY <3>1 DEF Unset
    <3> QED
      BY <2>1, <2>2, <3>2 DEF IInv, TypeOK, Fetch
  <2>3. CASE FetchEnd(c) \/ FetchFails(c)
    BY <2>3 DEF IInv, TypeOK, FetchEnd, FetchFails
  <2> QED
    BY <2>2, <2>3, <1>11
<1>12. ASSUME NEW c \in Client, Write(c) \/ WriteFails(c)
      PROVE TypeOK'
  <2>1. CASE Write(c)
    <3>1. buf[ptr[c]] \in 0..MaxParts
      BY <2>1 DEF IInv, TypeOK, Bodies, Unset, Sound, Write
    <3>2. Append(out[c], buf[ptr[c]]) \in Seq(0..MaxParts)
      BY <3>1 DEF IInv, TypeOK
    <3>3. i[c] + 1 \in 0..ChunksToRead
      BY <2>1 DEF IInv, TypeOK, Bodies, Write
    <3> QED
      BY <2>1, <3>2, <3>3 DEF IInv, TypeOK, Write
  <2>2. CASE WriteFails(c)
    BY <2>2 DEF IInv, TypeOK, WriteFails
  <2> QED
    BY <2>1, <2>2, <1>12
<1>13. ASSUME NEW c \in Client, FreeAlone(c)
      PROVE TypeOK'
  BY <1>13 DEF IInv, TypeOK, Bodies, Unset, BodyOf, FreeAlone, OwnsIt
<1>14. ASSUME NEW c \in Client, FreeBoth(c)
      PROVE TypeOK'
  BY <1>14 DEF IInv, TypeOK, Bodies, Unset, BodyOf, FreeBoth, OwnsIt
<1>15. ASSUME NEW c \in Client, ChooseCrashes(c) \/ ProxyCrashes(c) \/ FreeTwice(c)
      PROVE TypeOK'
  BY <1>15 DEF IInv, TypeOK, Bodies, Unset, BodyOf, ChooseCrashes, ProxyCrashes, FreeTwice
<1>16. ASSUME NEW a \in Block, ServerTurn(a)
      PROVE TypeOK'
  BY <1>16 DEF IInv, TypeOK, Bodies, Unset, BodyOf, ServerTurn
<1>17. ASSUME NEW a \in Block, ServerCrashes(a)
      PROVE TypeOK'
  BY <1>17 DEF IInv, TypeOK, Bodies, Unset, BodyOf, ServerCrashes
<1>18. CASE UNCHANGED vars
  BY <1>18 DEF IInv, TypeOK, Bodies, Unset, BodyOf
<1> QED
  BY <1>1, <1>2, <1>3, <1>4, <1>5, <1>6, <1>7, <1>8, <1>9, <1>10, <1>11, <1>12, <1>13, <1>14, <1>15, <1>16, <1>17, <1>18 DEF Next, Turn, Server

(* A client allocates once. *)
LEMMA EarlyStep == IInv /\ [Next]_vars => Early'
<1> SUFFICES ASSUME IInv, [Next]_vars PROVE Early'
  OBVIOUS
<1> USE ConnectionsAssumption DEF vars, serverVars, proxyVars, At, Goto
<1>1. ASSUME NEW c \in Client, Accept(c) \/ TakeTurn(c) \/ ReadTurn(c)
      PROVE Early'
  BY <1>1 DEF IInv, TypeOK, Early, Bodies, BodyOf, Accept, TakeTurn, ReadTurn
<1>2. ASSUME NEW c \in Client, Parsed(c) \/ ParseFails(c) \/ Spins(c) \/ FindHit(c)
      PROVE Early'
  BY <1>2 DEF IInv, TypeOK, Early, Bodies, BodyOf, Parsed, ParseFails, Spins, FindHit, Fail
<1>3. ASSUME NEW c \in Client, NEW a \in Block, FindMiss(c, a)
      PROVE Early'
  BY <1>3 DEF IInv, TypeOK, Early, Bodies, BodyOf, FindMiss
<1>4. ASSUME NEW c \in Client, Connected(c)
      PROVE Early'
  BY <1>4 DEF IInv, TypeOK, Early, Bodies, BodyOf, Connected
<1>5. ASSUME NEW c \in Client, ConnectFails(c)
      PROVE Early'
  BY <1>5 DEF IInv, TypeOK, Early, Bodies, BodyOf, ConnectFails, Fail
<1>6. ASSUME NEW c \in Client, Sent(c) \/ SendFails(c) \/ SpinFails(c)
      PROVE Early'
  BY <1>6 DEF IInv, TypeOK, Early, Bodies, BodyOf, Sent, SendFails, SpinFails, Fail
<1>7. ASSUME NEW c \in Client, NEW b \in {0, Unset}, ChooseProxy(c, b)
      PROVE Early'
  BY <1>7 DEF IInv, TypeOK, Early, Bodies, BodyOf, ChooseProxy
<1>8. ASSUME NEW c \in Client, NEW b \in {0, Unset}, ChooseRead(c, b)
      PROVE Early'
  BY <1>8 DEF IInv, TypeOK, Early, Bodies, BodyOf, ChooseRead
<1>9. ASSUME NEW c \in Client, Spun(c)
      PROVE Early'
  BY <1>9 DEF IInv, TypeOK, Early, Bodies, BodyOf, Spun
<1>10. ASSUME NEW c \in Client, Rewrite(c)
      PROVE Early'
  BY <1>10 DEF IInv, TypeOK, Early, Bodies, BodyOf, Rewrite, Rewritten, Sound
<1>11. ASSUME NEW c \in Client, Fetch(c) \/ FetchEnd(c) \/ FetchFails(c)
      PROVE Early'
  BY <1>11 DEF IInv, TypeOK, Early, Bodies, BodyOf, Fetch, FetchEnd, FetchFails, Sound
<1>12. ASSUME NEW c \in Client, Write(c) \/ WriteFails(c)
      PROVE Early'
  BY <1>12 DEF IInv, TypeOK, Early, Bodies, BodyOf, Write, WriteFails, Sound
<1>13. ASSUME NEW c \in Client, FreeAlone(c)
      PROVE Early'
  BY <1>13 DEF IInv, TypeOK, Early, Bodies, BodyOf, FreeAlone, OwnsIt
<1>14. ASSUME NEW c \in Client, FreeBoth(c)
      PROVE Early'
  BY <1>14 DEF IInv, TypeOK, Early, Bodies, BodyOf, FreeBoth, OwnsIt
<1>15. ASSUME NEW c \in Client, ChooseCrashes(c) \/ ProxyCrashes(c) \/ FreeTwice(c)
      PROVE Early'
  BY <1>15 DEF IInv, TypeOK, Early, Bodies, BodyOf, ChooseCrashes, ProxyCrashes, FreeTwice
<1>16. ASSUME NEW a \in Block, ServerTurn(a)
      PROVE Early'
  BY <1>16 DEF IInv, TypeOK, Early, Bodies, BodyOf, ServerTurn
<1>17. ASSUME NEW a \in Block, ServerCrashes(a)
      PROVE Early'
  BY <1>17 DEF IInv, TypeOK, Early, Bodies, BodyOf, ServerCrashes
<1>18. CASE UNCHANGED vars
  BY <1>18 DEF IInv, TypeOK, Early, Bodies, BodyOf
<1> QED
  BY <1>1, <1>2, <1>3, <1>4, <1>5, <1>6, <1>7, <1>8, <1>9, <1>10, <1>11, <1>12, <1>13, <1>14, <1>15, <1>16, <1>17, <1>18 DEF Next, Turn, Server

(* The switch of client_body goes by the state. *)
LEMMA BodiesStep == IInv /\ [Next]_vars => Bodies'
<1> SUFFICES ASSUME IInv, [Next]_vars PROVE Bodies'
  OBVIOUS
<1> USE ConnectionsAssumption DEF vars, serverVars, proxyVars, At, Goto
<1>1. ASSUME NEW c \in Client, Accept(c) \/ TakeTurn(c) \/ ReadTurn(c)
      PROVE Bodies'
  BY <1>1 DEF IInv, TypeOK, Bodies, Making, Holds, BodyOf, Accept, TakeTurn, ReadTurn
<1>2. ASSUME NEW c \in Client, Parsed(c) \/ ParseFails(c) \/ Spins(c) \/ FindHit(c)
      PROVE Bodies'
  BY <1>2 DEF IInv, TypeOK, Bodies, Making, Holds, BodyOf, Parsed, ParseFails, Spins, FindHit, Fail
<1>3. ASSUME NEW c \in Client, NEW a \in Block, FindMiss(c, a)
      PROVE Bodies'
  BY <1>3 DEF IInv, TypeOK, Bodies, Making, Holds, BodyOf, FindMiss
<1>4. ASSUME NEW c \in Client, Connected(c)
      PROVE Bodies'
  BY <1>4 DEF IInv, TypeOK, Bodies, Making, Holds, BodyOf, Connected
<1>5. ASSUME NEW c \in Client, ConnectFails(c)
      PROVE Bodies'
  BY <1>5 DEF IInv, TypeOK, Bodies, Making, Holds, BodyOf, ConnectFails, Fail
<1>6. ASSUME NEW c \in Client, Sent(c) \/ SendFails(c) \/ SpinFails(c)
      PROVE Bodies'
  BY <1>6 DEF IInv, TypeOK, Bodies, Making, Holds, BodyOf, Sent, SendFails, SpinFails, Fail
<1>7. ASSUME NEW c \in Client, NEW b \in {0, Unset}, ChooseProxy(c, b)
      PROVE Bodies'
  BY <1>7 DEF IInv, TypeOK, Bodies, Making, Holds, BodyOf, ChooseProxy
<1>8. ASSUME NEW c \in Client, NEW b \in {0, Unset}, ChooseRead(c, b)
      PROVE Bodies'
  BY <1>8 DEF IInv, TypeOK, Bodies, Making, Holds, BodyOf, ChooseRead
<1>9. ASSUME NEW c \in Client, Spun(c)
      PROVE Bodies'
  BY <1>9 DEF IInv, TypeOK, Bodies, Making, Holds, BodyOf, Spun
<1>10. ASSUME NEW c \in Client, Rewrite(c)
      PROVE Bodies'
  BY <1>10 DEF IInv, TypeOK, Bodies, Making, Holds, BodyOf, Rewrite, Rewritten, Sound
<1>11. ASSUME NEW c \in Client, Fetch(c) \/ FetchEnd(c) \/ FetchFails(c)
      PROVE Bodies'
  BY <1>11 DEF IInv, TypeOK, Bodies, Making, Holds, BodyOf, Fetch, FetchEnd, FetchFails, Sound
<1>12. ASSUME NEW c \in Client, Write(c) \/ WriteFails(c)
      PROVE Bodies'
  <2>1. CASE Write(c)
    <3>1. i[c] \in Nat /\ i[c] < ChunksToRead
      BY <2>1 DEF IInv, TypeOK, Bodies, Write
    <3>2. i'[c] = i[c] + 1 /\ pc'[c] = IF i[c] + 1 = ChunksToRead THEN "queued" ELSE "fetch"
      BY <2>1 DEF IInv, TypeOK, Write
    <3>3. pc'[c] \in {"fetch", "write"} => i'[c] < ChunksToRead
      BY <3>1, <3>2
    <3> QED
      BY <2>1, <3>2, <3>3 DEF IInv, TypeOK, Bodies, Write
  <2>2. CASE WriteFails(c)
    BY <2>2 DEF IInv, TypeOK, Bodies, WriteFails
  <2> QED
    BY <2>1, <2>2, <1>12
<1>13. ASSUME NEW c \in Client, FreeAlone(c)
      PROVE Bodies'
  BY <1>13 DEF IInv, TypeOK, Bodies, Making, Holds, BodyOf, FreeAlone, OwnsIt
<1>14. ASSUME NEW c \in Client, FreeBoth(c)
      PROVE Bodies'
  BY <1>14 DEF IInv, TypeOK, Bodies, Making, Holds, BodyOf, FreeBoth, OwnsIt
<1>15. ASSUME NEW c \in Client, ChooseCrashes(c) \/ ProxyCrashes(c) \/ FreeTwice(c)
      PROVE Bodies'
  BY <1>15 DEF IInv, TypeOK, Bodies, Making, Holds, BodyOf, ChooseCrashes, ProxyCrashes, FreeTwice
<1>16. ASSUME NEW a \in Block, ServerTurn(a)
      PROVE Bodies'
  BY <1>16 DEF IInv, TypeOK, Bodies, Making, Holds, BodyOf, ServerTurn
<1>17. ASSUME NEW a \in Block, ServerCrashes(a)
      PROVE Bodies'
  BY <1>17 DEF IInv, TypeOK, Bodies, Making, Holds, BodyOf, ServerCrashes
<1>18. CASE UNCHANGED vars
  BY <1>18 DEF IInv, TypeOK, Bodies, Making, Holds, BodyOf
<1> QED
  BY <1>1, <1>2, <1>3, <1>4, <1>5, <1>6, <1>7, <1>8, <1>9, <1>10, <1>11, <1>12, <1>13, <1>14, <1>15, <1>16, <1>17, <1>18 DEF Next, Turn, Server

(* No other client and no server_body touches what is being made. *)
LEMMA MakingStep == IInv /\ [Next]_vars => Making'
<1> SUFFICES ASSUME IInv, [Next]_vars PROVE Making'
  OBVIOUS
<1> USE ConnectionsAssumption DEF vars, serverVars, proxyVars, At, Goto
<1>1. ASSUME NEW c \in Client, Accept(c) \/ TakeTurn(c) \/ ReadTurn(c)
      PROVE Making'
  BY <1>1 DEF IInv, TypeOK, Bodies, Making, Holds, Dispatched, BodyOf, Accept, TakeTurn, ReadTurn
<1>2. ASSUME NEW c \in Client, Parsed(c) \/ ParseFails(c) \/ Spins(c) \/ FindHit(c)
      PROVE Making'
  BY <1>2 DEF IInv, TypeOK, Bodies, Making, Holds, Dispatched, BodyOf, Parsed, ParseFails, Spins, FindHit, Fail
<1>3. ASSUME NEW c \in Client, NEW a \in Block, FindMiss(c, a)
      PROVE Making'
  <2>1. a \notin served
    BY <1>3 DEF IInv, Dispatched, FindMiss
  <2>2. \A d \in Client, s \in {"raw", "Parse", "Read", "Proxy"} : d # c /\ Holds(d, s) => Holds(d, s)'
    BY <1>3 DEF IInv, TypeOK, Holds, FindMiss
  <2>3. Holds(c, "raw")' /\ pc'[c] = "connect"
    BY <2>1, <1>3 DEF IInv, TypeOK, Holds, FindMiss
  <2>4. \A d \in Client : d # c => pc'[d] = pc[d]
    BY <1>3 DEF IInv, TypeOK, FindMiss
  <2> QED
    BY <2>2, <2>3, <2>4 DEF IInv, Making
<1>4. ASSUME NEW c \in Client, Connected(c)
      PROVE Making'
  BY <1>4 DEF IInv, TypeOK, Bodies, Making, Holds, Dispatched, BodyOf, Connected
<1>5. ASSUME NEW c \in Client, ConnectFails(c)
      PROVE Making'
  BY <1>5 DEF IInv, TypeOK, Bodies, Making, Holds, Dispatched, BodyOf, ConnectFails, Fail
<1>6. ASSUME NEW c \in Client, Sent(c) \/ SendFails(c) \/ SpinFails(c)
      PROVE Making'
  BY <1>6 DEF IInv, TypeOK, Bodies, Making, Holds, Dispatched, BodyOf, Sent, SendFails, SpinFails, Fail
<1>7. ASSUME NEW c \in Client, NEW b \in {0, Unset}, ChooseProxy(c, b)
      PROVE Making'
  BY <1>7 DEF IInv, TypeOK, Bodies, Making, Holds, Dispatched, BodyOf, ChooseProxy
<1>8. ASSUME NEW c \in Client, NEW b \in {0, Unset}, ChooseRead(c, b)
      PROVE Making'
  BY <1>8 DEF IInv, TypeOK, Bodies, Making, Holds, Dispatched, BodyOf, ChooseRead
<1>9. ASSUME NEW c \in Client, Spun(c)
      PROVE Making'
  BY <1>9 DEF IInv, TypeOK, Bodies, Making, Holds, Dispatched, BodyOf, Spun
<1>10. ASSUME NEW c \in Client, Rewrite(c)
      PROVE Making'
  BY <1>10 DEF IInv, TypeOK, Bodies, Making, Holds, Dispatched, BodyOf, Rewrite, Rewritten, Sound
<1>11. ASSUME NEW c \in Client, Fetch(c) \/ FetchEnd(c) \/ FetchFails(c)
      PROVE Making'
  BY <1>11 DEF IInv, TypeOK, Bodies, Making, Holds, Dispatched, BodyOf, Fetch, FetchEnd, FetchFails, Sound
<1>12. ASSUME NEW c \in Client, Write(c) \/ WriteFails(c)
      PROVE Making'
  BY <1>12 DEF IInv, TypeOK, Bodies, Making, Holds, Dispatched, BodyOf, Write, WriteFails, Sound
<1>13. ASSUME NEW c \in Client, FreeAlone(c)
      PROVE Making'
  BY <1>13 DEF IInv, TypeOK, Bodies, Making, Holds, Dispatched, BodyOf, FreeAlone, OwnsIt
<1>14. ASSUME NEW c \in Client, FreeBoth(c)
      PROVE Making'
  BY <1>14 DEF IInv, TypeOK, Bodies, Making, Holds, Dispatched, BodyOf, FreeBoth, OwnsIt
<1>15. ASSUME NEW c \in Client, ChooseCrashes(c) \/ ProxyCrashes(c) \/ FreeTwice(c)
      PROVE Making'
  BY <1>15 DEF IInv, TypeOK, Bodies, Making, Holds, Dispatched, BodyOf, ChooseCrashes, ProxyCrashes, FreeTwice
<1>16. ASSUME NEW a \in Block, ServerTurn(a)
      PROVE Making'
  BY <1>16 DEF IInv, TypeOK, Bodies, Making, Holds, Dispatched, BodyOf, ServerTurn
<1>17. ASSUME NEW a \in Block, ServerCrashes(a)
      PROVE Making'
  BY <1>17 DEF IInv, TypeOK, Bodies, Making, Holds, Dispatched, BodyOf, ServerCrashes
<1>18. CASE UNCHANGED vars
  BY <1>18 DEF IInv, TypeOK, Bodies, Making, Holds, Dispatched, BodyOf
<1> QED
  BY <1>1, <1>2, <1>3, <1>4, <1>5, <1>6, <1>7, <1>8, <1>9, <1>10, <1>11, <1>12, <1>13, <1>14, <1>15, <1>16, <1>17, <1>18 DEF Next, Turn, Server

(* Only what is Read is dispatched, and nobody else changes it. *)
LEMMA DispatchedStep == IInv /\ [Next]_vars => Dispatched'
<1> SUFFICES ASSUME IInv, [Next]_vars PROVE Dispatched'
  OBVIOUS
<1> USE ConnectionsAssumption DEF vars, serverVars, proxyVars, At, Goto
<1>1. ASSUME NEW c \in Client, Accept(c) \/ TakeTurn(c) \/ ReadTurn(c)
      PROVE Dispatched'
  BY <1>1 DEF IInv, TypeOK, Making, Holds, Dispatched, Accept, TakeTurn, ReadTurn
<1>2. ASSUME NEW c \in Client, Parsed(c) \/ ParseFails(c) \/ Spins(c) \/ FindHit(c)
      PROVE Dispatched'
  BY <1>2 DEF IInv, TypeOK, Making, Holds, Dispatched, Parsed, ParseFails, Spins, FindHit, Fail
<1>3. ASSUME NEW c \in Client, NEW a \in Block, FindMiss(c, a)
      PROVE Dispatched'
  BY <1>3 DEF IInv, TypeOK, Making, Holds, Dispatched, FindMiss
<1>4. ASSUME NEW c \in Client, Connected(c)
      PROVE Dispatched'
  BY <1>4 DEF IInv, TypeOK, Making, Holds, Dispatched, Connected
<1>5. ASSUME NEW c \in Client, ConnectFails(c)
      PROVE Dispatched'
  BY <1>5 DEF IInv, TypeOK, Making, Holds, Dispatched, ConnectFails, Fail
<1>6. ASSUME NEW c \in Client, Sent(c) \/ SendFails(c) \/ SpinFails(c)
      PROVE Dispatched'
  BY <1>6 DEF IInv, TypeOK, Making, Holds, Dispatched, Sent, SendFails, SpinFails, Fail
<1>7. ASSUME NEW c \in Client, NEW b \in {0, Unset}, ChooseProxy(c, b)
      PROVE Dispatched'
  BY <1>7 DEF IInv, TypeOK, Making, Holds, Dispatched, ChooseProxy
<1>8. ASSUME NEW c \in Client, NEW b \in {0, Unset}, ChooseRead(c, b)
      PROVE Dispatched'
  BY <1>8 DEF IInv, TypeOK, Making, Holds, Dispatched, ChooseRead
<1>9. ASSUME NEW c \in Client, Spun(c)
      PROVE Dispatched'
  BY <1>9 DEF IInv, TypeOK, Making, Holds, Dispatched, Spun
<1>10. ASSUME NEW c \in Client, Rewrite(c)
      PROVE Dispatched'
  BY <1>10 DEF IInv, TypeOK, Making, Holds, Dispatched, Rewrite, Rewritten, Sound
<1>11. ASSUME NEW c \in Client, Fetch(c) \/ FetchEnd(c) \/ FetchFails(c)
      PROVE Dispatched'
  BY <1>11 DEF IInv, TypeOK, Making, Holds, Dispatched, Fetch, FetchEnd, FetchFails, Sound
<1>12. ASSUME NEW c \in Client, Write(c) \/ WriteFails(c)
      PROVE Dispatched'
  BY <1>12 DEF IInv, TypeOK, Making, Holds, Dispatched, Write, WriteFails, Sound
<1>13. ASSUME NEW c \in Client, FreeAlone(c)
      PROVE Dispatched'
  BY <1>13 DEF IInv, TypeOK, Making, Holds, Dispatched, FreeAlone, OwnsIt
<1>14. ASSUME NEW c \in Client, FreeBoth(c)
      PROVE Dispatched'
  BY <1>14 DEF IInv, TypeOK, Making, Holds, Dispatched, FreeBoth, OwnsIt
<1>15. ASSUME NEW c \in Client, ChooseCrashes(c) \/ ProxyCrashes(c) \/ FreeTwice(c)
      PROVE Dispatched'
  BY <1>15 DEF IInv, TypeOK, Making, Holds, Dispatched, ChooseCrashes, ProxyCrashes, FreeTwice
<1>16. ASSUME NEW a \in Block, ServerTurn(a)
      PROVE Dispatched'
  <2>1. CASE block' = [block EXCEPT ![a] = "Done"] /\ served' = served
    BY <2>1 DEF IInv, TypeOK, Dispatched
  <2>2. CASE block' = [block EXCEPT ![a] = "free"] /\ served' = served \ {a}
    BY <2>2 DEF IInv, TypeOK, Dispatched
  <2> QED
    BY <2>1, <2>2, <1>16 DEF ServerTurn
<1>17. ASSUME NEW a \in Block, ServerCrashes(a)
      PROVE Dispatched'
  BY <1>17 DEF IInv, TypeOK, Making, Holds, Dispatched, ServerCrashes
<1>18. CASE UNCHANGED vars
  BY <1>18 DEF IInv, TypeOK, Making, Holds, Dispatched
<1> QED
  BY <1>1, <1>2, <1>3, <1>4, <1>5, <1>6, <1>7, <1>8, <1>9, <1>10, <1>11, <1>12, <1>13, <1>14, <1>15, <1>16, <1>17, <1>18 DEF Next, Turn, Server

(* The maker of a proxied connection does not end without it. *)
LEMMA KeptStep == IInv /\ [Next]_vars => Kept'
<1> SUFFICES ASSUME IInv, [Next]_vars PROVE Kept'
  OBVIOUS
<1> USE ConnectionsAssumption DEF vars, serverVars, proxyVars, At, Goto
<1>1. ASSUME NEW c \in Client, Accept(c) \/ TakeTurn(c) \/ ReadTurn(c)
      PROVE Kept'
  BY <1>1 DEF IInv, TypeOK, Early, Making, Holds, Dispatched, Kept, BodyOf, Accept, TakeTurn, ReadTurn
<1>2. ASSUME NEW c \in Client, Parsed(c) \/ ParseFails(c) \/ Spins(c) \/ FindHit(c)
      PROVE Kept'
  BY <1>2 DEF IInv, TypeOK, Early, Making, Holds, Dispatched, Kept, BodyOf, Parsed, ParseFails, Spins, FindHit, Fail
<1>3. ASSUME NEW c \in Client, NEW a \in Block, FindMiss(c, a)
      PROVE Kept'
  BY <1>3 DEF IInv, TypeOK, Early, Making, Holds, Dispatched, Kept, BodyOf, FindMiss
<1>4. ASSUME NEW c \in Client, Connected(c)
      PROVE Kept'
  BY <1>4 DEF IInv, TypeOK, Early, Making, Holds, Dispatched, Kept, BodyOf, Connected
<1>5. ASSUME NEW c \in Client, ConnectFails(c)
      PROVE Kept'
  BY <1>5 DEF IInv, TypeOK, Early, Making, Holds, Dispatched, Kept, BodyOf, ConnectFails, Fail
<1>6. ASSUME NEW c \in Client, Sent(c) \/ SendFails(c) \/ SpinFails(c)
      PROVE Kept'
  BY <1>6 DEF IInv, TypeOK, Early, Making, Holds, Dispatched, Kept, BodyOf, Sent, SendFails, SpinFails, Fail
<1>7. ASSUME NEW c \in Client, NEW b \in {0, Unset}, ChooseProxy(c, b)
      PROVE Kept'
  BY <1>7 DEF IInv, TypeOK, Early, Making, Holds, Dispatched, Kept, BodyOf, ChooseProxy
<1>8. ASSUME NEW c \in Client, NEW b \in {0, Unset}, ChooseRead(c, b)
      PROVE Kept'
  BY <1>8 DEF IInv, TypeOK, Early, Making, Holds, Dispatched, Kept, BodyOf, ChooseRead
<1>9. ASSUME NEW c \in Client, Spun(c)
      PROVE Kept'
  BY <1>9 DEF IInv, TypeOK, Early, Making, Holds, Dispatched, Kept, BodyOf, Spun
<1>10. ASSUME NEW c \in Client, Rewrite(c)
      PROVE Kept'
  BY <1>10 DEF IInv, TypeOK, Early, Making, Holds, Dispatched, Kept, BodyOf, Rewrite, Rewritten, Sound
<1>11. ASSUME NEW c \in Client, Fetch(c) \/ FetchEnd(c) \/ FetchFails(c)
      PROVE Kept'
  BY <1>11 DEF IInv, TypeOK, Early, Making, Holds, Dispatched, Kept, BodyOf, Fetch, FetchEnd, FetchFails, Sound
<1>12. ASSUME NEW c \in Client, Write(c) \/ WriteFails(c)
      PROVE Kept'
  BY <1>12 DEF IInv, TypeOK, Early, Making, Holds, Dispatched, Kept, BodyOf, Write, WriteFails, Sound
<1>13. ASSUME NEW c \in Client, FreeAlone(c)
      PROVE Kept'
  BY <1>13 DEF IInv, TypeOK, Early, Making, Holds, Dispatched, Kept, BodyOf, FreeAlone, OwnsIt
<1>14. ASSUME NEW c \in Client, FreeBoth(c)
      PROVE Kept'
  BY <1>14 DEF IInv, TypeOK, Early, Making, Holds, Dispatched, Kept, BodyOf, FreeBoth, OwnsIt
<1>15. ASSUME NEW c \in Client, ChooseCrashes(c) \/ ProxyCrashes(c) \/ FreeTwice(c)
      PROVE Kept'
  BY <1>15 DEF IInv, TypeOK, Early, Making, Holds, Dispatched, Kept, BodyOf, ChooseCrashes, ProxyCrashes, FreeTwice
<1>16. ASSUME NEW a \in Block, ServerTurn(a)
      PROVE Kept'
  BY <1>16 DEF IInv, TypeOK, Early, Making, Holds, Dispatched, Kept, BodyOf, ServerTurn
<1>17. ASSUME NEW a \in Block, ServerCrashes(a)
      PROVE Kept'
  BY <1>17 DEF IInv, TypeOK, Early, Making, Holds, Dispatched, Kept, BodyOf, ServerCrashes
<1>18. CASE UNCHANGED vars
  BY <1>18 DEF IInv, TypeOK, Early, Making, Holds, Dispatched, Kept, BodyOf
<1> QED
  BY <1>1, <1>2, <1>3, <1>4, <1>5, <1>6, <1>7, <1>8, <1>9, <1>10, <1>11, <1>12, <1>13, <1>14, <1>15, <1>16, <1>17, <1>18 DEF Next, Turn, Server

(* What a proxying client made is its own until somebody strays. *)
LEMMA OwnerStep == IInv /\ [Next]_vars => ProxyOwner'
<1> SUFFICES ASSUME IInv, [Next]_vars PROVE ProxyOwner'
  OBVIOUS
<1> USE ConnectionsAssumption DEF vars, serverVars, proxyVars, At, Goto
<1>1. ASSUME NEW c \in Client, Accept(c) \/ TakeTurn(c) \/ ReadTurn(c)
      PROVE ProxyOwner'
  BY <1>1 DEF IInv, TypeOK, Bodies, Making, Holds, Dispatched, ProxyOwner, BodyOf, Accept, TakeTurn, ReadTurn
<1>2. ASSUME NEW c \in Client, Parsed(c) \/ ParseFails(c) \/ Spins(c) \/ FindHit(c)
      PROVE ProxyOwner'
  BY <1>2 DEF IInv, TypeOK, Bodies, Making, Holds, Dispatched, ProxyOwner, BodyOf, Parsed, ParseFails, Spins, FindHit, Fail
<1>3. ASSUME NEW c \in Client, NEW a \in Block, FindMiss(c, a)
      PROVE ProxyOwner'
  <2>1. a \notin served
    BY <1>3 DEF IInv, Dispatched, FindMiss
  <2>2. ptr[c] = Null /\ state[c] # "Proxy"
    BY <1>3 DEF IInv, Early, Bodies, FindMiss
  <2>3. \A d \in Client : d # c /\ Holds(d, "Proxy") => Holds(d, "Proxy")'
    BY <1>3 DEF IInv, TypeOK, Holds, FindMiss
  <2> QED
    BY <2>2, <2>3, <1>3 DEF IInv, TypeOK, ProxyOwner, FindMiss
<1>4. ASSUME NEW c \in Client, Connected(c)
      PROVE ProxyOwner'
  BY <1>4 DEF IInv, TypeOK, Bodies, Making, Holds, Dispatched, ProxyOwner, BodyOf, Connected
<1>5. ASSUME NEW c \in Client, ConnectFails(c)
      PROVE ProxyOwner'
  BY <1>5 DEF IInv, TypeOK, Bodies, Making, Holds, Dispatched, ProxyOwner, BodyOf, ConnectFails, Fail
<1>6. ASSUME NEW c \in Client, Sent(c) \/ SendFails(c) \/ SpinFails(c)
      PROVE ProxyOwner'
  BY <1>6 DEF IInv, TypeOK, Bodies, Making, Holds, Dispatched, ProxyOwner, BodyOf, Sent, SendFails, SpinFails, Fail
<1>7. ASSUME NEW c \in Client, NEW b \in {0, Unset}, ChooseProxy(c, b)
      PROVE ProxyOwner'
  BY <1>7 DEF IInv, TypeOK, Bodies, Making, Holds, Dispatched, ProxyOwner, BodyOf, ChooseProxy
<1>8. ASSUME NEW c \in Client, NEW b \in {0, Unset}, ChooseRead(c, b)
      PROVE ProxyOwner'
  BY <1>8 DEF IInv, TypeOK, Bodies, Making, Holds, Dispatched, ProxyOwner, BodyOf, ChooseRead
<1>9. ASSUME NEW c \in Client, Spun(c)
      PROVE ProxyOwner'
  BY <1>9 DEF IInv, TypeOK, Bodies, Making, Holds, Dispatched, ProxyOwner, BodyOf, Spun
<1>10. ASSUME NEW c \in Client, Rewrite(c)
      PROVE ProxyOwner'
  BY <1>10 DEF IInv, TypeOK, Bodies, Making, Holds, Dispatched, ProxyOwner, BodyOf, Rewrite, Rewritten, Sound
<1>11. ASSUME NEW c \in Client, Fetch(c) \/ FetchEnd(c) \/ FetchFails(c)
      PROVE ProxyOwner'
  BY <1>11 DEF IInv, TypeOK, Bodies, Making, Holds, Dispatched, ProxyOwner, BodyOf, Fetch, FetchEnd, FetchFails, Sound
<1>12. ASSUME NEW c \in Client, Write(c) \/ WriteFails(c)
      PROVE ProxyOwner'
  BY <1>12 DEF IInv, TypeOK, Bodies, Making, Holds, Dispatched, ProxyOwner, BodyOf, Write, WriteFails, Sound
<1>13. ASSUME NEW c \in Client, FreeAlone(c)
      PROVE ProxyOwner'
  BY <1>13 DEF IInv, TypeOK, Bodies, Making, Holds, Dispatched, ProxyOwner, BodyOf, FreeAlone, OwnsIt
<1>14. ASSUME NEW c \in Client, FreeBoth(c)
      PROVE ProxyOwner'
  <2> SUFFICES ASSUME ~ strayed', NEW d \in Client, state'[d] = "Proxy", pc'[d] # "gone"
               PROVE Holds(d, "Proxy")'
    BY DEF ProxyOwner
  <2>1. maker[ptr[c]] = c /\ ~ strayed /\ d # c
    BY <1>14 DEF IInv, TypeOK, FreeBoth
  <2>2. Holds(d, "Proxy")
    BY <2>1, <1>14 DEF IInv, TypeOK, ProxyOwner, FreeBoth
  <2> QED
    BY <2>1, <2>2, <1>14 DEF IInv, TypeOK, Holds, FreeBoth
<1>15. ASSUME NEW c \in Client, ChooseCrashes(c) \/ ProxyCrashes(c) \/ FreeTwice(c)
      PROVE ProxyOwner'
  BY <1>15 DEF IInv, TypeOK, Bodies, Making, Holds, Dispatched, ProxyOwner, BodyOf, ChooseCrashes, ProxyCrashes, FreeTwice
<1>16. ASSUME NEW a \in Block, ServerTurn(a)
      PROVE ProxyOwner'
  BY <1>16 DEF IInv, TypeOK, Bodies, Making, Holds, Dispatched, ProxyOwner, BodyOf, ServerTurn
<1>17. ASSUME NEW a \in Block, ServerCrashes(a)
      PROVE ProxyOwner'
  BY <1>17 DEF IInv, TypeOK, Bodies, Making, Holds, Dispatched, ProxyOwner, BodyOf, ServerCrashes
<1>18. CASE UNCHANGED vars
  BY <1>18 DEF IInv, TypeOK, Bodies, Making, Holds, Dispatched, ProxyOwner, BodyOf
<1> QED
  BY <1>1, <1>2, <1>3, <1>4, <1>5, <1>6, <1>7, <1>8, <1>9, <1>10, <1>11, <1>12, <1>13, <1>14, <1>15, <1>16, <1>17, <1>18 DEF Next, Turn, Server

LEMMA Invariance == Spec => []IInv
<1>1. Init => IInv
  <2> SUFFICES ASSUME Init PROVE IInv
    OBVIOUS
  <2>1. TypeOK
    <3>1. Unset \in 0..Unset /\ 0 \in 0..ChunksToRead /\ <<>> \in Seq(0..MaxParts)
      BY ConnectionsAssumption DEF Unset
    <3>2. buf \in [Block -> 0..Unset] /\ i \in [Client -> 0..ChunksToRead]
      BY <3>1 DEF Init
    <3>3. out \in [Client -> Seq(0..MaxParts)]
      BY <3>1 DEF Init
    <3> QED
      BY <3>2, <3>3 DEF Init, TypeOK
  <2>2. Early /\ Bodies /\ Making /\ Dispatched /\ Kept /\ ProxyOwner
    BY DEF Init, Early, Bodies, Making, Dispatched, Kept, ProxyOwner
  <2> QED
    BY <2>1, <2>2 DEF IInv
<1>2. IInv /\ [Next]_vars => IInv'
  BY TypeStep, EarlyStep, BodiesStep, MakingStep, DispatchedStep, KeptStep, OwnerStep DEF IInv
<1> QED
  BY <1>1, <1>2, PTL DEF Spec, SafeSpec

(* Variables keep their types. *)
THEOREM TypeCorrect == Spec => []TypeOK
  BY Invariance, PTL DEF IInv

(* Until a client has destroyed another's server connection, whoever       *)
(* proxies (client_proxy_n) has one of its own that nobody else will free. *)
THEOREM ProxyStaysOwned == Spec => []ProxyOwner
  BY Invariance, PTL DEF IInv

(* Only the two error paths of spin_server_connection leak: a connection   *)
(* that proxies always has the client that made it, and one that is Done   *)
(* has been dispatched.                                                    *)
THEOREM OnlyFailuresStrand == Spec => []OnlyFailuresLeak
<1>1. IInv => OnlyFailuresLeak
  BY DEF IInv, TypeOK, Kept, OnlyFailuresLeak, Orphan
<1> QED
  BY <1>1, Invariance, PTL
-----------------------------------------------------------------------------
(* What a proxied client gets.  After q whole turns it has got q times     *)
(* ChunksToRead + 1 parts, and what is in the buffer is part               *)
(* q * ChunksToRead, the last one it got (part 0 before the first turn);   *)
(* within a turn both go up together.  If the block is not sound any more, *)
(* it never is again for this client, who crashes at the next access.      *)
InStep(c, q) ==
  LET turns == q * (ChunksToRead + 1)
      final == q * ChunksToRead
  IN /\ pc[c] \in {"queued", "rewrite"} =>
          Len(out[c]) = turns /\ (Sound(c) => buf[ptr[c]] = final)
     /\ pc[c] = "fetch" =>
          Len(out[c]) = turns + 1 + i[c] /\ (Sound(c) => buf[ptr[c]] = final + i[c])
     /\ pc[c] = "write" =>
          Len(out[c]) = turns + 1 + i[c] /\ (Sound(c) => buf[ptr[c]] = final + i[c] + 1)

Steady(c) ==
  /\ pc[c] \in {"absent", "parse", "find", "connect", "send", "response"} => state[c] = "Parse"
  /\ state[c] \in {"Parse", "Read"} => out[c] = <<>>
  /\ state[c] = "Proxy" => \E q \in Nat : InStep(c, q)

Part(n) == ((n - 1) \div (ChunksToRead + 1)) * ChunksToRead + ((n - 1) % (ChunksToRead + 1))

Ordered(c) == \A n \in 1..Len(out[c]) : out[c][n] = Part(n)

LEMMA TimesStep ==
  ASSUME NEW m \in Nat, NEW j \in Nat, NEW k \in Nat, j < k
  PROVE  j * m + m <= k * m
<1>1. PICK d \in Nat : k = j + 1 + d
  <2>1. k - j - 1 \in Nat /\ k = j + 1 + (k - j - 1)
    OBVIOUS
  <2> QED BY <2>1
<1>2. k * m = j * m + m + d * m
  BY <1>1
<1>3. d * m \in Nat /\ j * m \in Nat /\ k * m \in Nat
  OBVIOUS
<1> QED BY ONLY <1>2, <1>3, m \in Nat

(* Division with remainder has one result. *)
LEMMA Quotient ==
  ASSUME NEW m \in Nat, m > 0, NEW q \in Nat, NEW r \in 0..(m - 1)
  PROVE  (q * m + r) \div m = q /\ (q * m + r) % m = r
<1>1. PICK x \in Nat : x = q * m + r
  <2>1. q * m \in Nat
    OBVIOUS
  <2> QED BY <2>1
<1>2. PICK d \in Nat, e \in 0..(m - 1) : d = x \div m /\ e = x % m /\ x = m * d + e
  <2>1. x \div m \in Nat /\ x % m \in 0..(m - 1)
    BY <1>1
  <2>2. \A d \in Int, e \in Int : d = x \div m /\ e = x % m => x = m * d + e
    BY <1>1
  <2> QED BY <2>1, <2>2
<1>3. PICK a \in Nat, b \in Nat : a = q * m /\ b = d * m
  OBVIOUS
<1>4. a + r = b + e
  BY <1>1, <1>2, <1>3
<1>5. ~ (q < d)
  <2>1. q < d => a + m <= b
    BY <1>3, TimesStep
  <2> QED BY <1>4, <2>1
<1>6. ~ (d < q)
  <2>1. d < q => b + m <= a
    BY <1>3, TimesStep
  <2> QED BY <1>4, <2>1
<1>7. q = d
  BY <1>5, <1>6
<1>8. r = e
  BY <1>3, <1>4, <1>7
<1> QED BY <1>1, <1>2, <1>7, <1>8

(* Which part is due after q turns and r parts of the next one. *)
LEMMA PartDue ==
  ASSUME NEW q \in Nat, NEW r \in 0..ChunksToRead
  PROVE  Part(q * (ChunksToRead + 1) + r + 1) = q * ChunksToRead + r
<1>1. ChunksToRead + 1 \in Nat /\ ChunksToRead + 1 > 0 /\ r \in 0..((ChunksToRead + 1) - 1)
  BY ConnectionsAssumption DEF ConnectionsAssumption
<1>2. q * (ChunksToRead + 1) \in Nat
  BY <1>1
<1>3. \A x \in Nat :
        Part(x + 1) = (x \div (ChunksToRead + 1)) * ChunksToRead + (x % (ChunksToRead + 1))
  <2> SUFFICES ASSUME NEW x \in Nat
               PROVE  Part(x + 1) = (x \div (ChunksToRead + 1)) * ChunksToRead + (x % (ChunksToRead + 1))
    OBVIOUS
  <2>1. (x + 1) - 1 = x
    OBVIOUS
  <2> QED BY <2>1, Zenon DEF Part
<1>4. /\ (q * (ChunksToRead + 1) + r) \div (ChunksToRead + 1) = q
      /\ (q * (ChunksToRead + 1) + r) % (ChunksToRead + 1) = r
  BY <1>1, Quotient
<1>5. q * (ChunksToRead + 1) + r \in Nat
  BY <1>1, <1>2
<1> QED BY <1>3, <1>4, <1>5

(* One part more, and it is the one that is due. *)
LEMMA OrderedAppend ==
  ASSUME NEW c \in Client, TypeOK, Ordered(c), NEW b \in Nat,
         out'[c] = Append(out[c], b), Part(Len(out[c]) + 1) = b
  PROVE  Ordered(c)' /\ Len(out'[c]) = Len(out[c]) + 1
<1>1. out[c] \in Seq(0..MaxParts)
  BY DEF TypeOK
<1>2. Len(out'[c]) = Len(out[c]) + 1 /\ Len(out[c]) \in Nat
  BY <1>1
<1>3. ASSUME NEW n \in 1..Len(out'[c])
      PROVE  out'[c][n] = Part(n)
  <2>1. CASE n = Len(out[c]) + 1
    BY <1>1, <2>1
  <2>2. CASE n \in 1..Len(out[c])
    BY <1>1, <2>2 DEF Ordered
  <2> QED BY <1>2, <2>1, <2>2
<1> QED BY <1>2, <1>3 DEF Ordered, Part

(* A client that does not take the step keeps its place in its response:   *)
(* what it proxies is its own (Sound), so nobody else fills its buffer.    *)
LEMMA OthersSteady ==
  ASSUME NEW c \in Client, Steady(c), Ordered(c),
         pc'[c] = pc[c], state'[c] = state[c], ptr'[c] = ptr[c], i'[c] = i[c], out'[c] = out[c],
         state[c] = "Proxy" /\ Sound(c)' => Sound(c) /\ buf'[ptr[c]] = buf[ptr[c]]
  PROVE  Steady(c)' /\ Ordered(c)'
<1>1. Ordered(c)'
  BY DEF Ordered, Part
<1>2. ASSUME NEW q \in Nat, state[c] = "Proxy", InStep(c, q)
      PROVE  InStep(c, q)'
  <2>1. Sound(c)' => Sound(c) /\ buf'[ptr'[c]] = buf[ptr[c]]
    BY <1>2
  <2> QED BY <1>2, <2>1 DEF InStep
<1>3. Steady(c)'
  BY <1>2 DEF Steady
<1> QED BY <1>1, <1>3

(* The client itself, where it gets nothing: it does not begin to proxy,   *)
(* and if it proxies it is about to end.                                   *)
LEMMA EndsSteady ==
  ASSUME NEW c \in Client, Steady(c), Ordered(c), out'[c] = out[c],
         state'[c] \in {"Parse", "Read"} => state[c] \in {"Parse", "Read"},
         pc'[c] \in {"absent", "parse", "find", "connect", "send", "response"} => state'[c] = "Parse",
         state'[c] = "Proxy" => pc'[c] \notin {"queued", "rewrite", "fetch", "write"}
  PROVE  Steady(c)' /\ Ordered(c)'
<1>1. Ordered(c)'
  BY DEF Ordered, Part
<1>2. state'[c] = "Proxy" => InStep(c, 0)'
  BY DEF InStep
<1>3. Steady(c)'
  BY <1>2 DEF Steady
<1> QED BY <1>1, <1>3

AllSteady == \A c \in Client : Steady(c) /\ Ordered(c)

PartsInv == IInv /\ AllSteady

(* Who else can touch the block of a client that proxies?  Its maker is    *)
(* that client, and malloc marks what it gives to another.                 *)
LEMMA SoundStays ==
  ASSUME IInv, NEW c \in Client, state[c] = "Proxy",
         block' = block \/ (\E a \in Block, s \in {"free", "raw", "Parse", "Read", "Proxy", "Done"} :
                              (s # "Proxy" \/ maker[a] # c) /\ block' = [block EXCEPT ![a] = s]),
         maker' = maker \/ (\E a \in Block, d \in Client :
                              block'[a] = "raw" /\ maker' = [maker EXCEPT ![a] = d]),
         buf' = buf \/ (\E a \in Block, b \in 0..Unset :
                          (block'[a] # "Proxy" \/ maker'[a] # c) /\ buf' = [buf EXCEPT ![a] = b]),
         ptr'[c] = ptr[c], Sound(c)'
  PROVE  Sound(c) /\ buf'[ptr[c]] = buf[ptr[c]]
<1>1. ptr[c] \in Block
  BY DEF IInv, Bodies
<1>2. block'[ptr[c]] = "Proxy" /\ maker'[ptr[c]] = c /\ buf'[ptr[c]] # Unset
  BY DEF Sound
<1>3. maker[ptr[c]] = c
  BY <1>1, <1>2 DEF IInv, TypeOK
<1>4. block[ptr[c]] = "Proxy"
  BY <1>1, <1>2, <1>3 DEF IInv, TypeOK
<1>5. buf'[ptr[c]] = buf[ptr[c]]
  BY <1>1, <1>2 DEF IInv, TypeOK
<1> QED BY <1>2, <1>3, <1>4, <1>5 DEF Sound

(* Another client's step. *)
LEMMA OtherStep ==
  ASSUME PartsInv, NEW c \in Client, NEW d \in Client, d # c, Accept(d) \/ TakeTurn(d) \/ Turn(d)
  PROVE  Steady(c)' /\ Ordered(c)'
<1> USE DEF PartsInv, AllSteady, At, Goto, Fail, serverVars, proxyVars
<1>1. /\ pc'[c] = pc[c] /\ state'[c] = state[c] /\ ptr'[c] = ptr[c]
      /\ i'[c] = i[c] /\ out'[c] = out[c]
  <2>1. CASE Accept(d) \/ TakeTurn(d) \/ ReadTurn(d) \/ Parsed(d) \/ ParseFails(d) \/ Spins(d) \/ FindHit(d)
    BY <2>1 DEF IInv, TypeOK, Accept, TakeTurn, ReadTurn, Parsed, ParseFails, Spins, FindHit
  <2>2. CASE (\E a \in Block : FindMiss(d, a)) \/ Connected(d) \/ ConnectFails(d) \/ Sent(d) \/ SendFails(d)
    BY <2>2 DEF IInv, TypeOK, FindMiss, Connected, ConnectFails, Sent, SendFails
  <2>3. CASE \E b \in {0, Unset} : ChooseProxy(d, b) \/ ChooseRead(d, b)
    BY <2>3 DEF IInv, TypeOK, ChooseProxy, ChooseRead
  <2>4. CASE ChooseCrashes(d) \/ Spun(d) \/ SpinFails(d) \/ ProxyCrashes(d) \/ FreeAlone(d) \/ FreeBoth(d) \/ FreeTwice(d)
    BY <2>4 DEF IInv, TypeOK, ChooseCrashes, Spun, SpinFails, ProxyCrashes, FreeAlone, FreeBoth, FreeTwice
  <2>5. CASE Rewrite(d) \/ Fetch(d) \/ FetchEnd(d) \/ FetchFails(d) \/ Write(d) \/ WriteFails(d)
    BY <2>5 DEF IInv, TypeOK, Rewrite, Fetch, FetchEnd, FetchFails, Write, WriteFails
  <2> QED BY <2>1, <2>2, <2>3, <2>4, <2>5 DEF Turn
<1>2. ASSUME state[c] = "Proxy", Sound(c)'
      PROVE  Sound(c) /\ buf'[ptr[c]] = buf[ptr[c]]
  <2> USE <1>1, <1>2
  <2>1. CASE UNCHANGED <<block, maker, buf>>
    BY <2>1, SoundStays
  <2>2. ASSUME NEW a \in Block, FindMiss(d, a)
        PROVE  Sound(c) /\ buf'[ptr[c]] = buf[ptr[c]]
    <3>1. block' = [block EXCEPT ![a] = "raw"] /\ maker' = [maker EXCEPT ![a] = d] /\ buf' = buf
      BY <2>2 DEF FindMiss
    <3>2. block'[a] = "raw"
      BY <3>1 DEF IInv, TypeOK
    <3> QED BY <3>1, <3>2, SoundStays
  <2>3. CASE Connected(d)
    <3>1. ptr[d] \in Block
      BY <2>3 DEF IInv, Making, Holds, Connected
    <3>2. block' = [block EXCEPT ![ptr[d]] = "Parse"] /\ buf' = [buf EXCEPT ![ptr[d]] = Unset] /\ maker' = maker
      BY <2>3 DEF Connected
    <3>3. block'[ptr[d]] # "Proxy" /\ Unset \in 0..Unset
      BY <3>1, <3>2, ConnectionsAssumption DEF IInv, TypeOK, Unset, ConnectionsAssumption
    <3> QED BY <3>1, <3>2, <3>3, SoundStays
  <2>4. CASE ConnectFails(d)
    <3>1. ptr[d] \in Block
      BY <2>4 DEF IInv, Making, Holds, ConnectFails
    <3> QED BY <2>4, <3>1, SoundStays DEF ConnectFails
  <2>5. ASSUME NEW b \in {0, Unset}, ChooseProxy(d, b) \/ ChooseRead(d, b)
        PROVE  Sound(c) /\ buf'[ptr[c]] = buf[ptr[c]]
    <3>1. ptr[d] \in Block /\ maker[ptr[d]] = d
      BY <2>5 DEF IInv, Making, Holds, ChooseProxy, ChooseRead
    <3>2. PICK s \in {"Proxy", "Read"} : block' = [block EXCEPT ![ptr[d]] = s]
      BY <2>5 DEF ChooseProxy, ChooseRead
    <3>3. buf' = [buf EXCEPT ![ptr[d]] = b] /\ maker' = maker
      BY <2>5 DEF ChooseProxy, ChooseRead
    <3>4. b \in 0..Unset
      BY ConnectionsAssumption DEF Unset, ConnectionsAssumption
    <3>5. maker[ptr[d]] # c /\ maker'[ptr[d]] # c
      BY <3>1, <3>3
    <3> QED BY <3>1, <3>2, <3>3, <3>4, <3>5, SoundStays
  <2>6. CASE Fetch(d)
    <3>1. ptr[d] \in Block /\ maker[ptr[d]] = d
      BY <2>6 DEF IInv, Bodies, Fetch, Sound
    <3>2. buf[ptr[d]] + 1 \in 0..Unset
      BY <2>6, <3>1, ConnectionsAssumption DEF IInv, TypeOK, Fetch, Unset, ConnectionsAssumption
    <3>3. buf' = [buf EXCEPT ![ptr[d]] = buf[ptr[d]] + 1] /\ block' = block /\ maker' = maker
      BY <2>6 DEF Fetch
    <3>4. maker'[ptr[d]] # c
      BY <3>1, <3>3
    <3> QED BY <3>1, <3>2, <3>3, <3>4, SoundStays
  <2>7. CASE FreeBoth(d)
    <3>1. ptr[d] \in Block
      BY <2>7 DEF IInv, TypeOK, FreeBoth
    <3> QED BY <2>7, <3>1, SoundStays DEF FreeBoth
  <2>8. CASE Accept(d) \/ TakeTurn(d) \/ ReadTurn(d) \/ Parsed(d) \/ ParseFails(d) \/ Spins(d) \/ FindHit(d) \/ Sent(d) \/ SendFails(d)
    BY <2>1, <2>8 DEF Accept, TakeTurn, ReadTurn, Parsed, ParseFails, Spins, FindHit, Sent, SendFails
  <2>9. CASE ChooseCrashes(d) \/ Spun(d) \/ SpinFails(d) \/ ProxyCrashes(d) \/ FreeAlone(d) \/ FreeTwice(d)
    BY <2>1, <2>9 DEF ChooseCrashes, Spun, SpinFails, ProxyCrashes, FreeAlone, FreeTwice
  <2>10. CASE Rewrite(d) \/ FetchEnd(d) \/ FetchFails(d) \/ Write(d) \/ WriteFails(d)
    BY <2>1, <2>10 DEF Rewrite, FetchEnd, FetchFails, Write, WriteFails
  <2> QED BY <2>2, <2>3, <2>4, <2>5, <2>6, <2>7, <2>8, <2>9, <2>10 DEF Turn
<1> QED BY <1>1, <1>2, OthersSteady

(* The turns of the client itself. *)
LEMMA BeginSteady ==
  ASSUME PartsInv, NEW c \in Client, NEW b \in {0, Unset}, ChooseProxy(c, b)
  PROVE  Steady(c)' /\ Ordered(c)'
<1>1. ptr[c] \in Block /\ state[c] \in {"Parse", "Read", "Proxy", "Done"}
  BY DEF PartsInv, IInv, TypeOK, Making, Holds, ChooseProxy, At
<1>2. out'[c] = out[c] /\ ptr' = ptr /\ state'[c] = "Proxy" /\ pc'[c] = "queued" /\ buf'[ptr[c]] = b
  BY <1>1 DEF PartsInv, IInv, TypeOK, ChooseProxy, At, Goto, proxyVars
<1>3. out[c] = <<>>
  BY DEF PartsInv, AllSteady, Steady, ChooseProxy, At
<1>4. Sound(c)' => buf'[ptr'[c]] = 0
  BY <1>2 DEF Sound
<1>5. 0 * (ChunksToRead + 1) = 0 /\ 0 * ChunksToRead = 0
  BY ConnectionsAssumption DEF ConnectionsAssumption
<1>6. InStep(c, 0)'
  BY <1>2, <1>3, <1>4, <1>5 DEF InStep
<1>7. Steady(c)'
  BY <1>2, <1>6 DEF Steady
<1>8. Ordered(c)'
  BY <1>2 DEF PartsInv, AllSteady, Ordered, Part
<1> QED BY <1>7, <1>8

LEMMA RewriteSteady ==
  ASSUME PartsInv, NEW c \in Client, Rewrite(c)
  PROVE  Steady(c)' /\ Ordered(c)'
<1> DEFINE a == ptr[c]
<1>1. a \in Block /\ state[c] = "Proxy" /\ pc[c] = "rewrite" /\ Sound(c)
  BY DEF PartsInv, IInv, Bodies, Rewrite, At
<1>2. PICK q \in Nat : Len(out[c]) = q * (ChunksToRead + 1) /\ buf[a] = q * ChunksToRead
  BY <1>1 DEF PartsInv, AllSteady, Steady, InStep
<1>3. /\ out'[c] = Append(out[c], buf[a]) /\ i'[c] = 0 /\ pc'[c] = "fetch"
      /\ state' = state /\ ptr' = ptr /\ buf' = buf
  BY DEF PartsInv, IInv, TypeOK, Rewrite, Rewritten, Goto, serverVars
<1>4. ChunksToRead \in Nat /\ buf[a] \in Nat /\ Len(out[c]) \in Nat
  BY <1>1, ConnectionsAssumption DEF PartsInv, IInv, TypeOK, Unset, ConnectionsAssumption
<1>5. Part(Len(out[c]) + 1) = buf[a]
  <2>1. Part(q * (ChunksToRead + 1) + 0 + 1) = q * ChunksToRead + 0
    BY <1>4, PartDue
  <2> QED BY <1>2, <1>4, <2>1
<1>6. Ordered(c)' /\ Len(out'[c]) = Len(out[c]) + 1
  BY <1>3, <1>4, <1>5, OrderedAppend DEF PartsInv, AllSteady, IInv
<1>7. InStep(c, q)'
  BY <1>2, <1>3, <1>4, <1>6 DEF InStep
<1>8. Steady(c)'
  BY <1>1, <1>3, <1>7 DEF Steady
<1> QED BY <1>6, <1>8

LEMMA FetchSteady ==
  ASSUME PartsInv, NEW c \in Client, Fetch(c)
  PROVE  Steady(c)' /\ Ordered(c)'
<1> DEFINE a == ptr[c]
<1>1. a \in Block /\ state[c] = "Proxy" /\ pc[c] = "fetch" /\ Sound(c)
  BY DEF PartsInv, IInv, Bodies, Fetch, At
<1>2. PICK q \in Nat :
        Len(out[c]) = q * (ChunksToRead + 1) + 1 + i[c] /\ buf[a] = q * ChunksToRead + i[c]
  BY <1>1 DEF PartsInv, AllSteady, Steady, InStep
<1>3. /\ out'[c] = out[c] /\ i'[c] = i[c] /\ pc'[c] = "write"
      /\ state' = state /\ ptr' = ptr /\ buf'[a] = buf[a] + 1
  BY <1>1 DEF PartsInv, IInv, TypeOK, Fetch, Goto, proxyVars
<1>4. InStep(c, q)'
  BY <1>2, <1>3 DEF InStep
<1>5. Steady(c)'
  BY <1>1, <1>3, <1>4 DEF Steady
<1>6. Ordered(c)'
  BY <1>3 DEF PartsInv, AllSteady, Ordered, Part
<1> QED BY <1>5, <1>6

LEMMA WriteSteady ==
  ASSUME PartsInv, NEW c \in Client, Write(c)
  PROVE  Steady(c)' /\ Ordered(c)'
<1> DEFINE a == ptr[c]
<1>1. a \in Block /\ state[c] = "Proxy" /\ pc[c] = "write" /\ Sound(c)
  BY DEF PartsInv, IInv, Bodies, Write, At
<1>2. PICK q \in Nat :
        Len(out[c]) = q * (ChunksToRead + 1) + 1 + i[c] /\ buf[a] = q * ChunksToRead + i[c] + 1
  BY <1>1 DEF PartsInv, AllSteady, Steady, InStep
<1>3. /\ out'[c] = Append(out[c], buf[a]) /\ i'[c] = i[c] + 1
      /\ pc'[c] = IF i[c] + 1 = ChunksToRead THEN "queued" ELSE "fetch"
      /\ state' = state /\ ptr' = ptr /\ buf' = buf
  BY <1>1 DEF PartsInv, IInv, TypeOK, Write, Goto, serverVars
<1>4. ChunksToRead \in Nat /\ buf[a] \in Nat /\ i[c] \in Nat /\ i[c] < ChunksToRead
  BY <1>1, ConnectionsAssumption DEF PartsInv, IInv, TypeOK, Bodies, Unset, ConnectionsAssumption
<1>4a. Len(out[c]) \in Nat /\ Len(out'[c]) = Len(out[c]) + 1
  BY <1>3 DEF PartsInv, IInv, TypeOK
<1>5. /\ q * (ChunksToRead + 1) \in Nat /\ q * ChunksToRead \in Nat
      /\ (q + 1) * (ChunksToRead + 1) = q * (ChunksToRead + 1) + ChunksToRead + 1
      /\ (q + 1) * ChunksToRead = q * ChunksToRead + ChunksToRead
  BY <1>4
<1>6. Part(Len(out[c]) + 1) = buf[a]
  <2>1. Part(q * (ChunksToRead + 1) + (i[c] + 1) + 1) = q * ChunksToRead + (i[c] + 1)
    <3>1. i[c] + 1 \in 0..ChunksToRead
      BY <1>4
    <3> QED BY <3>1, PartDue
  <2>2. q * (ChunksToRead + 1) + (i[c] + 1) + 1 = Len(out[c]) + 1
    BY <1>2, <1>4, <1>5
  <2>3. q * ChunksToRead + (i[c] + 1) = buf[a]
    BY <1>2, <1>4, <1>5
  <2> QED BY <2>1, <2>2, <2>3
<1>7. Ordered(c)' /\ Len(out'[c]) = Len(out[c]) + 1
  BY <1>3, <1>4, <1>6, OrderedAppend DEF PartsInv, AllSteady, IInv
<1>8. \E p \in Nat : InStep(c, p)'
  <2>1. CASE i[c] + 1 = ChunksToRead
    <3>1. Len(out'[c]) = (q + 1) * (ChunksToRead + 1) /\ buf[a] = (q + 1) * ChunksToRead
      <4>1. PICK x \in Nat, y \in Nat : x = q * (ChunksToRead + 1) /\ y = q * ChunksToRead
        BY <1>5
      <4>2. Len(out[c]) = x + 1 + i[c] /\ buf[a] = y + i[c] + 1
        BY <1>2, <4>1
      <4>3. /\ (q + 1) * (ChunksToRead + 1) = x + ChunksToRead + 1
            /\ (q + 1) * ChunksToRead = y + ChunksToRead
        BY <1>5, <4>1
      <4>4. Len(out'[c]) = x + ChunksToRead + 1 /\ buf[a] = y + ChunksToRead
        BY ONLY <1>4, <1>4a, <2>1, <4>2, x \in Nat, y \in Nat
      <4> QED BY <4>3, <4>4
    <3>2. InStep(c, q + 1)'
      BY <1>3, <2>1, <3>1 DEF InStep
    <3> QED BY <3>2
  <2>2. CASE i[c] + 1 # ChunksToRead
    <3>1. Len(out'[c]) = q * (ChunksToRead + 1) + 1 + i'[c] /\ buf[a] = q * ChunksToRead + i'[c]
      <4>1. PICK x \in Nat, y \in Nat : x = q * (ChunksToRead + 1) /\ y = q * ChunksToRead
        BY <1>5
      <4>2. Len(out[c]) = x + 1 + i[c] /\ buf[a] = y + i[c] + 1
        BY <1>2, <4>1
      <4>3. Len(out'[c]) = x + 1 + i'[c] /\ buf[a] = y + i'[c]
        BY <1>3, <1>4, <1>4a, <4>2
      <4> QED BY <4>1, <4>3
    <3>2. InStep(c, q)'
      BY <1>3, <2>2, <3>1 DEF InStep
    <3> QED BY <3>2
  <2> QED BY <2>1, <2>2
<1>9. Steady(c)'
  BY <1>1, <1>3, <1>8 DEF Steady
<1> QED BY <1>7, <1>9

LEMMA OwnStep ==
  ASSUME PartsInv, NEW c \in Client, Accept(c) \/ TakeTurn(c) \/ Turn(c)
  PROVE  Steady(c)' /\ Ordered(c)'
<1> USE DEF At, Goto, Fail, serverVars, proxyVars
<1>0. Steady(c) /\ Ordered(c) /\ TypeOK
  BY DEF PartsInv, AllSteady, IInv
<1>1. CASE TakeTurn(c) /\ state[c] = "Proxy"
  <2>1. pc[c] = "queued" /\ pc'[c] = "rewrite" /\ UNCHANGED <<state, ptr, block, buf, maker, i, out>>
    BY <1>0, <1>1 DEF TypeOK, TakeTurn, BodyOf
  <2>2. PICK q \in Nat : InStep(c, q)
    BY <1>0, <1>1 DEF Steady
  <2>3. InStep(c, q)'
    BY <2>1, <2>2 DEF InStep, Sound
  <2>4. Steady(c)'
    BY <1>1, <2>1, <2>3 DEF Steady
  <2>5. Ordered(c)'
    BY <1>0, <2>1 DEF Ordered, Part
  <2> QED BY <2>4, <2>5
<1>2. CASE TakeTurn(c) /\ state[c] # "Proxy"
  BY <1>0, <1>2, EndsSteady DEF TypeOK, TakeTurn, BodyOf
<1>3. CASE Accept(c) \/ ReadTurn(c)
  BY <1>0, <1>3, EndsSteady DEF TypeOK, Steady, Accept, ReadTurn, PartsInv, IInv, Bodies
<1>4. CASE Parsed(c) \/ ParseFails(c) \/ Spins(c) \/ FindHit(c)
  BY <1>0, <1>4, EndsSteady DEF TypeOK, Steady, Parsed, ParseFails, Spins, FindHit
<1>5. CASE (\E a \in Block : FindMiss(c, a)) \/ Connected(c) \/ ConnectFails(c) \/ Sent(c) \/ SendFails(c)
  BY <1>0, <1>5, EndsSteady DEF TypeOK, Steady, FindMiss, Connected, ConnectFails, Sent, SendFails
<1>6. CASE \E b \in {0, Unset} : ChooseProxy(c, b)
  BY <1>6, BeginSteady
<1>7. CASE \E b \in {0, Unset} : ChooseRead(c, b)
  BY <1>0, <1>7, EndsSteady DEF TypeOK, Steady, ChooseRead
<1>8. CASE Spun(c) \/ SpinFails(c)
  BY <1>0, <1>8, EndsSteady DEF TypeOK, Steady, Spun, SpinFails, PartsInv, IInv, Bodies
<1>9. CASE ChooseCrashes(c) \/ ProxyCrashes(c) \/ FreeTwice(c)
  BY <1>0, <1>9, OthersSteady DEF ChooseCrashes, ProxyCrashes, FreeTwice, Sound
<1>10. CASE FetchEnd(c) \/ FetchFails(c)
  BY <1>0, <1>10, EndsSteady DEF TypeOK, FetchEnd, FetchFails, PartsInv, IInv, Bodies
<1>11. CASE WriteFails(c)
  <2>1. CASE pc'[c] = "free"
    BY <1>0, <1>11, <2>1, EndsSteady DEF TypeOK, WriteFails
  <2>2. CASE UNCHANGED pc
    BY <1>0, <1>11, <2>2, OthersSteady DEF WriteFails, Sound
  <2> QED BY <1>0, <1>11, <2>1, <2>2 DEF TypeOK, WriteFails
<1>12. CASE FreeAlone(c) \/ FreeBoth(c)
  BY <1>0, <1>12, EndsSteady DEF TypeOK, FreeAlone, FreeBoth
<1> QED BY <1>1, <1>2, <1>3, <1>4, <1>5, <1>6, <1>7, <1>8, <1>9, <1>10, <1>11, <1>12,
           RewriteSteady, FetchSteady, WriteSteady DEF Turn

(* A proxied client gets every part of its response in order, and the last *)
(* part of a full turn once more at the beginning of the next              *)
(* (client_proxy_n writes what is in the buffer first): this goes wrong    *)
(* for no interleaving of clients, frees and allocations, stray or not.    *)
THEOREM PartsKeepOrder == Spec => []PartsInOrder
<1>1. Init => AllSteady
  BY DEF Init, AllSteady, Steady, Ordered
<1>2. IInv /\ AllSteady /\ [Next]_vars => AllSteady'
  <2> SUFFICES ASSUME PartsInv, [Next]_vars, NEW c \in Client
               PROVE  Steady(c)' /\ Ordered(c)'
    BY DEF PartsInv, AllSteady
  <2>1. ASSUME NEW d \in Client, Accept(d) \/ TakeTurn(d) \/ Turn(d)
        PROVE  Steady(c)' /\ Ordered(c)'
    BY <2>1, OwnStep, OtherStep
  <2>2. ASSUME NEW a \in Block, Server(a)
        PROVE  Steady(c)' /\ Ordered(c)'
    <3>1. \/ block' = block
          \/ \E s \in {"free", "Done"} : block' = [block EXCEPT ![a] = s]
      BY <2>2 DEF Server, ServerTurn, ServerCrashes, serverVars
    <3>2. UNCHANGED <<pc, state, ptr, buf, maker, i, out>>
      BY <2>2 DEF Server, ServerTurn, ServerCrashes, serverVars, proxyVars
    <3>3. state[c] = "Proxy" /\ Sound(c)' => Sound(c) /\ buf'[ptr[c]] = buf[ptr[c]]
      BY <3>1, <3>2, SoundStays DEF PartsInv
    <3> QED BY <3>2, <3>3, OthersSteady DEF PartsInv, AllSteady
  <2>3. CASE UNCHANGED vars
    BY <2>3, OthersSteady DEF PartsInv, AllSteady, vars, serverVars, proxyVars, Sound
  <2> QED BY <2>1, <2>2, <2>3 DEF Next
<1>3. AllSteady => PartsInOrder
  BY DEF AllSteady, Ordered, Part, PartsInOrder
<1> QED BY <1>1, <1>2, <1>3, Invariance, PTL DEF Spec, SafeSpec
=============================================================================
