----------------------------- MODULE RelayProofs -----------------------------
(***************************************************************************)
(* The relay, for any number of sessions and of threads: its limits, and   *)
(* that bytes are passed on until exit_flag is set.                        *)
(*                                                                         *)
(* A read moves bytes from taken into the buffer and a write their text to *)
(* out, so at each side one number separates what has been passed on from  *)
(* what is in the buffer (AllKept).  The limits follow from main's place:  *)
(* at most one session has come and is not counted.                        *)
(***************************************************************************)
EXTENDS Relay, FiniteSetTheorems, TLAPS

(* The buffer as a sequence: what transmit reads, and nothing else. *)
LEMMA FilledIsSeq ==
  ASSUME NEW from \in Nat, NEW n \in 0..BufLen
  PROVE  /\ Filled(from, n) \in Seq(Nat) /\ Len(Filled(from, n)) = BufLen
         /\ \A k \in 1..n : Filled(from, n)[k] = Byte(from + k)
         /\ \A k \in (n + 1)..BufLen : Filled(from, n)[k] = 0
BY RelayAssumption DEF Filled, Byte

LEMMA TextOf ==
  ASSUME NEW from \in Nat, NEW n \in 0..BufLen, NEW text \in Text(Filled(from, n))
  PROVE  /\ text \in Seq(Nat)
         /\ \E m \in 0..n :
              /\ Len(text) = m \/ (Len(text) = m + 1 /\ text[m + 1] = Junk)
              /\ \A j \in 1..m : text[j] = from + j
              /\ m < n => from + m + 1 \in NulBytes
<1> DEFINE b == Filled(from, n)
<1> HIDE DEF b
<1>1. /\ b \in Seq(Nat) /\ Len(b) = BufLen
      /\ \A k \in 1..n : b[k] = Byte(from + k)
      /\ \A k \in (n + 1)..BufLen : b[k] = 0
  BY FilledIsSeq DEF b
<1>2. BufLen \in Nat \ {0} /\ Junk \in Nat
  BY RelayAssumption DEF Junk
<1>3. \A k \in 1..n : b[k] # 0 <=> from + k \notin NulBytes
  BY <1>1, <1>2 DEF Byte
<1>4. \A k \in 1..n : b[k] # 0 => b[k] = from + k
  BY <1>1, <1>2 DEF Byte
<1>5. CASE \E k \in 1..BufLen : b[k] = 0 /\ (\A j \in 1..(k - 1) : b[j] # 0) /\ text = SubSeq(b, 1, k - 1)
  <2>1. PICK k \in 1..BufLen : b[k] = 0 /\ (\A j \in 1..(k - 1) : b[j] # 0) /\ text = SubSeq(b, 1, k - 1)
    BY <1>5
  <2>2. k - 1 \in 0..BufLen /\ k - 1 <= Len(b)
    BY <1>1, <1>2
  <2>3. text \in Seq(Nat) /\ Len(text) = k - 1 /\ \A j \in 1..(k - 1) : text[j] = b[j]
    BY <1>1, <1>2, <2>1, <2>2
  <2>4. k - 1 <= n
    <3> SUFFICES ASSUME n + 1 < k PROVE FALSE
      BY <1>2
    <3>1. n + 1 \in 1..(k - 1) /\ n + 1 \in (n + 1)..BufLen
      BY <1>2
    <3> QED BY <1>1, <2>1, <3>1
  <2>5. \A j \in 1..(k - 1) : text[j] = from + j
    BY <1>2, <1>4, <2>1, <2>3, <2>4
  <2>6. k - 1 < n => from + (k - 1) + 1 \in NulBytes
    BY <1>2, <1>3, <2>1
  <2>7. k - 1 \in 0..n
    BY <1>2, <2>2, <2>4
  <2> DEFINE m == k - 1
  <2> HIDE DEF m
  <2>8. m \in 0..n /\ Len(text) = m /\ (\A j \in 1..m : text[j] = from + j) /\ (m < n => from + m + 1 \in NulBytes)
    BY <2>3, <2>5, <2>6, <2>7 DEF m
  <2> QED BY <2>3, <2>8
<1>6. CASE (\A k \in 1..BufLen : b[k] # 0) /\ text \in {b, Append(b, Junk)}
  <2>1. n = BufLen
    <3> SUFFICES ASSUME n < BufLen PROVE FALSE
      BY <1>2
    <3>1. n + 1 \in 1..BufLen /\ n + 1 \in (n + 1)..BufLen
      BY <1>2
    <3> QED BY <1>1, <1>6, <3>1
  <2>2. /\ text \in Seq(Nat) /\ \A j \in 1..n : text[j] = b[j]
        /\ Len(text) = n \/ (Len(text) = n + 1 /\ text[n + 1] = Junk)
    <3>1. CASE text = b
      BY <1>1, <1>2, <2>1, <3>1
    <3>2. CASE text = Append(b, Junk)
      BY <1>1, <1>2, <2>1, <3>2
    <3> QED BY <1>6, <3>1, <3>2
  <2>3. \A j \in 1..n : text[j] = from + j
    BY <1>2, <1>4, <1>6, <2>1, <2>2
  <2> QED BY <2>2, <2>3
<1> QED BY <1>5, <1>6 DEF Text, b

(* The bytes of got ascend to k at most, and what is missing is hidden. *)
Ascending(got, k) ==
  /\ got \in Seq(Nat)
  /\ \A m, n \in 1..Len(got) : m < n /\ got[m] # Junk /\ got[n] # Junk => got[m] < got[n]
  /\ \A n \in 1..Len(got) : got[n] # Junk => got[n] \in 1..k
Complete(got, k) ==
  \A j \in 1..k : Hidden(j) \/ \E n \in 1..Len(got) : got[n] # Junk /\ got[n] = j

(* transmit appends what follows what was passed on before. *)
LEMMA WrittenOn ==
  ASSUME NEW from \in Nat, NEW n \in 0..BufLen, from + n < Junk,
         NEW text \in Text(Filled(from, n)), NEW got, Ascending(got, from)
  PROVE  /\ Ascending(got \o text, from + n)
         /\ Complete(got, from) => Complete(got \o text, from + n)
<1>1. BufLen \in Nat /\ Junk \in Nat
  BY RelayAssumption DEF Junk
<1>2. text \in Seq(Nat) /\ got \in Seq(Nat)
  BY TextOf DEF Ascending
<1>3. PICK m \in 0..n :
         /\ Len(text) = m \/ (Len(text) = m + 1 /\ text[m + 1] = Junk)
         /\ \A j \in 1..m : text[j] = from + j
         /\ m < n => from + m + 1 \in NulBytes
  BY TextOf
<1> DEFINE new == got \o text
<1>4. /\ new \in Seq(Nat) /\ Len(new) = Len(got) + Len(text)
      /\ \A j \in 1..Len(got) : new[j] = got[j]
      /\ \A j \in 1..Len(text) : new[Len(got) + j] = text[j]
  BY <1>2
<1>5. Len(got) \in Nat /\ Len(text) \in Nat
  BY <1>2
<1> HIDE DEF new
<1>6. \A i \in 1..Len(new) : i <= Len(got) \/ (i - Len(got) \in 1..Len(text) /\ new[i] = text[i - Len(got)])
  <2> SUFFICES ASSUME NEW i \in 1..Len(new), i > Len(got)
               PROVE  i - Len(got) \in 1..Len(text) /\ new[i] = text[i - Len(got)]
    BY <1>4, <1>5
  <2>1. i - Len(got) \in 1..Len(text)
    BY <1>4, <1>5
  <2>2. new[Len(got) + (i - Len(got))] = text[i - Len(got)]
    BY <1>4, <2>1
  <2> QED BY <1>5, <2>1, <2>2
<1>7. \A j \in 1..Len(text) : text[j] # Junk => j <= m /\ text[j] = from + j
  BY <1>1, <1>3, <1>5
<1>8. \A i \in 1..Len(new) :
         \/ i <= Len(got) /\ new[i] = got[i]
         \/ i > Len(got) /\ (new[i] # Junk => i - Len(got) <= m /\ new[i] = from + (i - Len(got)))
  <2> SUFFICES ASSUME NEW i \in 1..Len(new)
               PROVE  \/ i <= Len(got) /\ new[i] = got[i]
                      \/ i > Len(got) /\ (new[i] # Junk => i - Len(got) <= m /\ new[i] = from + (i - Len(got)))
    OBVIOUS
  <2>1. CASE i <= Len(got)
    BY <1>4, <1>5, <2>1
  <2>2. CASE i > Len(got)
    <3>1. i - Len(got) \in 1..Len(text) /\ new[i] = text[i - Len(got)]
      BY <1>5, <1>6, <2>2
    <3>2. new[i] # Junk => i - Len(got) <= m /\ new[i] = from + (i - Len(got))
      BY <1>7, <3>1
    <3> QED BY <2>2, <3>2
  <2> QED BY <1>5, <2>1, <2>2
<1>9. Ascending(new, from + n)
  <2>1. ASSUME NEW i \in 1..Len(new), NEW j \in 1..Len(new), i < j, new[i] # Junk, new[j] # Junk
        PROVE  new[i] < new[j]
    <3>1. CASE j <= Len(got)
      <4>1. i \in 1..Len(got) /\ j \in 1..Len(got) /\ new[i] = got[i] /\ new[j] = got[j]
        BY <1>4, <1>5, <2>1, <3>1
      <4> QED BY <2>1, <4>1 DEF Ascending
    <3>2. CASE i <= Len(got) /\ Len(got) < j
      <4>1. i \in 1..Len(got) /\ new[i] = got[i]
        BY <1>4, <1>5, <3>2
      <4>2. new[i] \in 1..from
        BY <2>1, <4>1 DEF Ascending
      <4>3. new[j] = from + (j - Len(got)) /\ j - Len(got) \in Nat /\ j - Len(got) > 0
        BY <1>5, <1>8, <2>1, <3>2
      <4> HIDE DEF Ascending
      <4> QED BY <4>2, <4>3
    <3>3. CASE Len(got) < i
      <4>1. new[i] = from + (i - Len(got)) /\ new[j] = from + (j - Len(got))
        BY <1>5, <1>8, <2>1, <3>3
      <4> QED BY <1>5, <2>1, <4>1
    <3> QED BY <1>5, <2>1, <3>1, <3>2, <3>3
  <2>2. ASSUME NEW i \in 1..Len(new), new[i] # Junk PROVE new[i] \in 1..(from + n)
    BY <1>1, <1>3, <1>5, <1>8, <2>2 DEF Ascending
  <2> QED BY <1>4, <2>1, <2>2 DEF Ascending
<1>10. ASSUME Complete(got, from) PROVE Complete(new, from + n)
  <2> SUFFICES ASSUME NEW k \in 1..(from + n)
               PROVE  Hidden(k) \/ \E i \in 1..Len(new) : new[i] # Junk /\ new[i] = k
    BY DEF Complete
  <2>1. CASE k <= from
    <3>1. k \in 1..from
      BY <1>1, <2>1
    <3>2. CASE \E i \in 1..Len(got) : got[i] # Junk /\ got[i] = k
      <4>1. PICK i \in 1..Len(got) : got[i] # Junk /\ got[i] = k
        BY <3>2
      <4>2. i \in 1..Len(new) /\ new[i] = got[i]
        BY <1>4, <1>5
      <4> QED BY <4>1, <4>2
    <3> QED BY <1>10, <3>1, <3>2 DEF Complete
  <2>2. CASE from < k /\ k <= from + m
    <3>1. k - from \in 1..m /\ k - from \in 1..Len(text)
      BY <1>1, <1>3, <1>5, <2>2
    <3>2. text[k - from] = from + (k - from)
      BY <1>3, <3>1
    <3>3. Len(got) + (k - from) \in 1..Len(new)
      BY <1>4, <1>5, <3>1
    <3>5. from + (k - from) = k
      BY <1>1
    <3>6. new[Len(got) + (k - from)] = k
      BY <1>4, <3>1, <3>2, <3>5
    <3>4. k # Junk
      BY <1>1
    <3> QED BY <3>3, <3>4, <3>6
  <2>3. CASE from + m < k
    <3>1. from + m + 1 \in NulBytes /\ from + m + 1 <= k /\ k < from + m + 1 + BufLen
      BY <1>1, <1>3, <2>3
    <3> QED BY <3>1 DEF Hidden
  <2> QED BY <1>1, <1>3, <2>1, <2>2, <2>3
<1> QED BY <1>9, <1>10 DEF new

(* The first k bytes of d have been written to the other side. *)
PassedTo(s, d, k) ==
  Ascending(out[s][Other(d)], k) /\ (~ exit_flag => Complete(out[s][Other(d)], k))

(* What was read from d has been written to the other side, but for what is in the buffer. *)
Kept(s, d) ==
  IF pc[s] = "write" /\ d = Turn(s)
  THEN \E n \in 0..BufLen :
         /\ n <= taken[s][d] /\ buf[s] = Filled(taken[s][d] - n, n)
         /\ PassedTo(s, d, taken[s][d] - n)
  ELSE PassedTo(s, d, taken[s][d])

Counts == [Session -> [Side -> Nat]]
Streams == [Session -> [Side -> Seq(Nat)]]
Stages == {"absent", "accepted", "connect", "poll", "read", "write", "closed"}
(* The types of what a stream consists of. *)
FlowTypes ==
  /\ exit_flag \in BOOLEAN /\ pc \in [Session -> Stages] /\ todo \in [Session -> SUBSET Side]
  /\ sent \in Counts /\ taken \in Counts /\ buf \in [Session -> Seq(Nat)] /\ out \in Streams
(* Nobody reads what has not been sent. *)
Bounded == \A s \in Session, d \in Side : taken[s][d] <= sent[s][d] /\ sent[s][d] <= Most(d)
AllKept == \A s \in Session, d \in Side : Kept(s, d)

(* Who neither reads nor writes keeps what it has. *)
LEMMA KeptStays ==
  ASSUME NEW s \in Session, NEW d \in Side, Kept(s, d),
         taken'[s] = taken[s], out'[s] = out[s], exit_flag => exit_flag',
         pc[s] = "write" <=> pc'[s] = "write",
         pc[s] = "write" => todo'[s] = todo[s] /\ buf'[s] = buf[s]
  PROVE  Kept(s, d)'
<1>1. \A k : PassedTo(s, d, k) => PassedTo(s, d, k)'
  BY DEF PassedTo
<1>2. pc[s] = "write" => Turn(s)' = Turn(s)
  BY DEF Turn
<1>3. CASE pc[s] = "write" /\ d = Turn(s)
  <2>1. PICK n \in 0..BufLen :
           /\ n <= taken[s][d] /\ buf[s] = Filled(taken[s][d] - n, n)
           /\ PassedTo(s, d, taken[s][d] - n)
    BY <1>3 DEF Kept
  <2>2. PassedTo(s, d, taken[s][d] - n)'
    BY <2>1 DEF PassedTo
  <2>3. buf'[s] = Filled(taken[s][d] - n, n)'
    BY <1>3, <2>1 DEF Filled, Byte
  <2> QED BY <1>2, <1>3, <2>1, <2>2, <2>3 DEF Kept
<1>4. CASE ~ (pc[s] = "write" /\ d = Turn(s))
  <2>1. PassedTo(s, d, taken[s][d])'
    BY <1>4 DEF Kept, PassedTo
  <2>2. ~ (pc'[s] = "write" /\ d = Turn(s)')
    BY <1>2, <1>4
  <2> QED BY <2>1, <2>2 DEF Kept
<1> QED BY <1>3, <1>4

(* What there is to know about the two sides. *)
LEMMA Sides == /\ \A s \in Session : Turn(s) \in Side
               /\ \A d \in Side : Other(d) \in Side /\ Most(d) \in Nat /\ Most(d) < Junk
               /\ Other("client") = "server" /\ Other("server") = "client" /\ Side = {"client", "server"}
               /\ Cleared \in Seq(Nat)
BY RelayAssumption DEF Turn, Side, Other, Most, Junk, Cleared

(* An update of one side of one session. *)
LEMMA OneSide ==
  ASSUME NEW T, NEW f \in [Session -> [Side -> T]], NEW s \in Session, NEW d \in Side, NEW x \in T
  PROVE  LET g == [f EXCEPT ![s][d] = x] IN
         /\ g \in [Session -> [Side -> T]] /\ g[s][d] = x
         /\ \A e \in Side \ {d} : g[s][e] = f[s][e]
         /\ \A r \in Session \ {s} : g[r] = f[r]
OBVIOUS

(* FlowTypes, Bounded and AllKept together are inductive. *)
LEMMA FlowInit == Init => FlowTypes /\ Bounded /\ AllKept
<1> SUFFICES ASSUME Init PROVE FlowTypes /\ Bounded /\ AllKept
  OBVIOUS
<1> USE Sides DEF Init, Each
<1>1. FlowTypes
  <2>1. <<>> \in Seq(Nat) /\ 0 \in Nat
    OBVIOUS
  <2> QED BY <2>1 DEF FlowTypes, Stages, Counts, Streams
<1>2. Bounded
  BY DEF Bounded
<1>3. \A s \in Session, d \in Side : out[s][Other(d)] = <<>> /\ taken[s][d] = 0 /\ pc[s] # "write"
  OBVIOUS
<1>4. Ascending(<<>>, 0) /\ Complete(<<>>, 0)
  BY DEF Ascending, Complete
<1>5. AllKept
  BY <1>3, <1>4 DEF AllKept, Kept, PassedTo
<1> QED BY <1>1, <1>2, <1>5

(* Steps that are no transmit leave the streams alone. *)
LEMMA FlowRests ==
  ASSUME FlowTypes, Bounded, AllKept,
         pc' \in [Session -> Stages], todo' \in [Session -> SUBSET Side], sent' \in Counts,
         UNCHANGED dataVars, exit_flag => exit_flag', exit_flag' \in BOOLEAN,
         \A s \in Session, d \in Side : sent[s][d] <= sent'[s][d] /\ sent'[s][d] <= Most(d),
         \A s \in Session : /\ pc[s] = "write" <=> pc'[s] = "write"
                            /\ pc[s] = "write" => todo'[s] = todo[s]
  PROVE  FlowTypes' /\ Bounded' /\ AllKept'
<1>1. FlowTypes'
  BY DEF FlowTypes, dataVars
<1>2. Bounded'
  BY Sides DEF Bounded, FlowTypes, dataVars, Counts
<1>3. ASSUME NEW s \in Session, NEW d \in Side PROVE Kept(s, d)'
  BY KeptStays DEF AllKept, dataVars
<1> QED BY <1>1, <1>2, <1>3 DEF AllKept

(* The steps of main and of quit_handler. *)
LEMMA MainFlow ==
  ASSUME FlowTypes, Bounded, AllKept,
         \/ MainFails \/ Join \/ Interrupt \/ UNCHANGED vars
         \/ \E s \in Session : Accept(s) \/ Create(s) \/ Count(s)
  PROVE  FlowTypes' /\ Bounded' /\ AllKept'
<1> USE DEF peerVars
<1>1. /\ UNCHANGED <<todo, sent, dataVars>>
      /\ exit_flag => exit_flag'
      /\ exit_flag' \in BOOLEAN
      /\ UNCHANGED pc \/ \E s \in Session : /\ pc[s] \in {"absent", "accepted"}
                                             /\ pc' = [pc EXCEPT ![s] = pc'[s]] /\ pc'[s] \in {"accepted", "connect"}
  <2>1. CASE MainFails \/ Join \/ Interrupt \/ UNCHANGED vars
    BY <2>1 DEF MainFails, Join, Interrupt, vars, FlowTypes
  <2>2. ASSUME NEW s \in Session, Accept(s) \/ Create(s)
        PROVE  /\ UNCHANGED <<todo, sent, dataVars, exit_flag>>
               /\ pc[s] \in {"absent", "accepted"}
               /\ pc' = [pc EXCEPT ![s] = pc'[s]] /\ pc'[s] \in {"accepted", "connect"}
    BY <2>2 DEF Accept, Create, FlowTypes, Goto
  <2>3. ASSUME NEW s \in Session, Count(s)
        PROVE  UNCHANGED <<todo, sent, dataVars, pc>> /\ (exit_flag => exit_flag') /\ exit_flag' \in BOOLEAN
    BY <2>3 DEF Count, FlowTypes, Full
  <2> QED BY <2>1, <2>2, <2>3 DEF FlowTypes
<1>2. /\ pc' \in [Session -> Stages] 
      /\ \A s \in Session : pc[s] = "write" <=> pc'[s] = "write"
  BY <1>1 DEF FlowTypes, Stages
<1>3. \A s \in Session, d \in Side : sent[s][d] <= sent'[s][d] /\ sent'[s][d] <= Most(d)
  BY <1>1, Sides DEF FlowTypes, Counts, Bounded
<1>4. todo' \in [Session -> SUBSET Side] /\ sent' \in Counts
  BY <1>1 DEF FlowTypes
<1> QED BY <1>1, <1>2, <1>3, <1>4, FlowRests

(* The steps of a thread outside of transmit, and of its peers. *)
LEMMA PeerFlow ==
  ASSUME FlowTypes, Bounded, AllKept, NEW s \in Session,
         \/ Connect(s) \/ ConnectFails(s) \/ EndSession(s) \/ Polled(s)
         \/ \E d \in Side : Send(s, d) \/ HangUp(s, d)
  PROVE  FlowTypes' /\ Bounded' /\ AllKept'
<1> USE DEF peerVars
<1>1. CASE Connect(s) \/ ConnectFails(s) \/ EndSession(s) \/ Polled(s) \/ \E d \in Side : HangUp(s, d)
  <2>1. UNCHANGED <<sent, dataVars>>
    BY <1>1 DEF Connect, ConnectFails, EndSession, Polled, HangUp
  <2>2. exit_flag => exit_flag'
    BY <1>1 DEF Connect, ConnectFails, EndSession, Polled, HangUp, FlowTypes
  <2>5. exit_flag' \in BOOLEAN
    BY <1>1 DEF Connect, ConnectFails, EndSession, Polled, HangUp, FlowTypes
  <2>3. /\ UNCHANGED todo \/ (todo' = [todo EXCEPT ![s] = Readable(s)] /\ pc[s] = "poll")
        /\ UNCHANGED pc \/ (pc[s] \in {"connect", "poll"} /\ \E place \in {"poll", "read", "closed"} : pc' = [pc EXCEPT ![s] = place])
    <3>1. CASE Connect(s) \/ ConnectFails(s) \/ EndSession(s)
      <4>1. UNCHANGED todo /\ pc[s] \in {"connect", "poll"}
        BY <3>1 DEF Connect, ConnectFails, EndSession, At
      <4>2. pc' = [pc EXCEPT ![s] = "closed"] \/ pc' = [pc EXCEPT ![s] = "poll"]
        BY <3>1 DEF Connect, ConnectFails, EndSession, Goto
      <4> QED BY <4>1, <4>2
    <3>2. CASE Polled(s)
      BY <3>2 DEF Polled, Goto, At
    <3>3. CASE \E d \in Side : HangUp(s, d)
      BY <3>3 DEF HangUp
    <3> QED BY <1>1, <3>1, <3>2, <3>3
  <2>4. \A r \in Session, d \in Side : sent[r][d] <= sent'[r][d] /\ sent'[r][d] <= Most(d)
    BY <2>1, Sides DEF FlowTypes, Counts, Bounded
  <2>6. pc' \in [Session -> Stages] /\ \A r \in Session : pc[r] = "write" <=> pc'[r] = "write"
    BY <2>3 DEF FlowTypes, Stages
  <2>7. todo' \in [Session -> SUBSET Side] /\ \A r \in Session : pc[r] = "write" => todo'[r] = todo[r]
    BY <2>3 DEF FlowTypes, Readable
  <2>8. sent' \in Counts
    BY <2>1 DEF FlowTypes
  <2> QED BY <2>1, <2>2, <2>4, <2>5, <2>6, <2>7, <2>8, FlowRests
<1>2. ASSUME NEW d \in Side, Send(s, d) PROVE FlowTypes' /\ Bounded' /\ AllKept'
  <2>1. sent[s][d] \in Nat /\ sent[s][d] < Most(d) /\ sent' = [sent EXCEPT ![s][d] = sent[s][d] + 1]
    BY <1>2 DEF Send, FlowTypes, Counts
  <2>2. /\ sent' \in Counts /\ sent'[s][d] = sent[s][d] + 1
        /\ \A e \in Side \ {d} : sent'[s][e] = sent[s][e]
        /\ \A r \in Session \ {s} : sent'[r] = sent[r]
    BY <2>1, OneSide DEF FlowTypes, Counts
  <2>3. \A r \in Session, e \in Side : sent[r][e] <= sent'[r][e] /\ sent'[r][e] <= Most(e)
    BY <2>1, <2>2, Sides DEF FlowTypes, Counts, Bounded
  <2>4. UNCHANGED <<exit_flag, pc, todo, dataVars>>
    BY <1>2 DEF Send
  <2> QED BY <2>2, <2>3, <2>4, FlowRests DEF FlowTypes
<1> QED BY <1>1, <1>2

(* The session in whose turn it is not does not notice. *)
LEMMA OthersKept ==
  ASSUME FlowTypes, AllKept, NEW s \in Session, exit_flag => exit_flag',
         \A r \in Session \ {s} : /\ pc'[r] = pc[r] /\ todo'[r] = todo[r] /\ buf'[r] = buf[r]
                                 /\ taken'[r] = taken[r] /\ out'[r] = out[r],
         \A d \in Side : Kept(s, d)'
  PROVE  AllKept'
<1>1. ASSUME NEW r \in Session \ {s}, NEW d \in Side PROVE Kept(r, d)'
  <2>1. Kept(r, d)
    BY DEF AllKept
  <2> QED BY <2>1, KeptStays
<1> QED BY <1>1 DEF AllKept

(* The first half of transmit moves from taken into the buffer. *)
LEMMA ReadFlow ==
  ASSUME FlowTypes, Bounded, AllKept, NEW s \in Session, Read(s)
  PROVE  FlowTypes' /\ Bounded' /\ AllKept'
<1> DEFINE d == Turn(s)
           n == Atmost(sent[s][d] - taken[s][d])
<1>1. d \in Side /\ taken[s][d] \in Nat /\ sent[s][d] \in Nat /\ taken[s][d] <= sent[s][d] /\ sent[s][d] <= Most(d)
  BY Sides DEF FlowTypes, Counts, Bounded
<1>2. n \in 0..BufLen /\ taken[s][d] + n <= sent[s][d] /\ n \in Nat
  BY <1>1, RelayAssumption DEF Atmost
<1>3. /\ taken' = [taken EXCEPT ![s][d] = taken[s][d] + n] /\ UNCHANGED <<exit_flag, sent, out>>
      /\ pc[s] = "read"
      /\ IF exit_flag
         THEN Transmitted(s) /\ UNCHANGED buf
         ELSE Goto(s, "write") /\ buf' = [buf EXCEPT ![s] = Filled(taken[s][d], n)] /\ UNCHANGED todo
  BY DEF Read, At, peerVars
<1> HIDE DEF d, n
<1>4. /\ taken' \in Counts /\ taken'[s][d] = taken[s][d] + n
      /\ \A e \in Side \ {d} : taken'[s][e] = taken[s][e]
      /\ \A r \in Session \ {s} : taken'[r] = taken[r]
  BY <1>1, <1>2, <1>3, OneSide DEF FlowTypes, Counts
<1>5. Filled(taken[s][d], n) \in Seq(Nat)
  BY <1>1, <1>2, FilledIsSeq
<1>6. FlowTypes'
  <2>1. CASE exit_flag
    BY <1>3, <1>4, <2>1 DEF FlowTypes, Transmitted, Goto, Stages
  <2>2. CASE ~ exit_flag
    BY <1>3, <1>4, <1>5, <2>2 DEF FlowTypes, Goto, Stages
  <2> QED BY <2>1, <2>2
<1>7. Bounded'
  BY <1>1, <1>2, <1>3, <1>4 DEF FlowTypes, Counts, Bounded
<1>8. ASSUME NEW e \in Side PROVE Kept(s, e)'
  <2>1. PassedTo(s, e, taken[s][e])
    BY <1>3 DEF AllKept, Kept
  <2>2. CASE exit_flag
    <3>1. pc'[s] # "write"
      BY <1>3, <2>2 DEF FlowTypes, Transmitted, Goto
    <3>2. taken[s][e] \in Nat /\ taken'[s][e] \in Nat /\ taken[s][e] <= taken'[s][e]
      <4>1. CASE e = d
        BY <1>1, <1>2, <1>4, <4>1
      <4>2. CASE e # d
        BY <1>4, <4>2 DEF FlowTypes, Counts
      <4> QED BY <4>1, <4>2
    <3>3. Ascending(out'[s][Other(e)], taken'[s][e])
      BY <1>3, <2>1, <3>2 DEF PassedTo, Ascending
    <3> QED BY <1>3, <2>2, <3>1, <3>3 DEF Kept, PassedTo
  <2>3. CASE ~ exit_flag
    <3>1. pc'[s] = "write" /\ Turn(s)' = d /\ buf'[s] = Filled(taken[s][d], n)
      BY <1>3, <2>3 DEF FlowTypes, Goto, Turn, d
    <3>2. CASE e = d
      <4>1. taken'[s][d] - n = taken[s][d] /\ n <= taken'[s][d]
        BY <1>1, <1>2, <1>4
      <4>2. /\ Ascending(out'[s][Other(e)], taken'[s][d] - n)
            /\ ~ exit_flag' => Complete(out'[s][Other(e)], taken'[s][d] - n)
        BY <1>3, <2>1, <3>2, <4>1 DEF PassedTo
      <4>3. buf'[s] = Filled(taken'[s][d] - n, n)
        BY <3>1, <4>1
      <4> QED BY <1>2, <3>1, <3>2, <4>1, <4>2, <4>3 DEF Kept, PassedTo, Filled, Byte
    <3>3. CASE e # d
      BY <1>3, <1>4, <2>1, <3>1, <3>3 DEF Kept, PassedTo
    <3> QED BY <3>2, <3>3
  <2> QED BY <2>2, <2>3
<1>9. \A r \in Session \ {s} : /\ pc'[r] = pc[r] /\ todo'[r] = todo[r] /\ buf'[r] = buf[r]
                                /\ taken'[r] = taken[r] /\ out'[r] = out[r]
  BY <1>3, <1>4 DEF FlowTypes, Goto, Transmitted
<1> QED BY <1>3, <1>6, <1>7, <1>8, <1>9, OthersKept

(* The second half writes the text of the buffer. *)
LEMMA WriteFlow ==
  ASSUME FlowTypes, Bounded, AllKept, NEW s \in Session, Write(s)
  PROVE  FlowTypes' /\ Bounded' /\ AllKept'
<1> DEFINE d == Turn(s)
<1>1. d \in Side /\ taken[s][d] \in Nat /\ taken[s][d] < Junk
  BY Sides, RelayAssumption DEF FlowTypes, Counts, Bounded, Junk
<1>2. /\ pc[s] = "write" /\ buf' = [buf EXCEPT ![s] = Cleared] /\ Transmitted(s)
      /\ UNCHANGED <<exit_flag, sent, taken>>
  BY DEF Write, At, peerVars
<1>3. PICK text \in Text(buf[s]) : out' = [out EXCEPT ![s][Other(d)] = out[s][Other(d)] \o text]
  BY DEF Write
<1> HIDE DEF d
<1>4. PICK n \in 0..BufLen :
         /\ n <= taken[s][d] /\ buf[s] = Filled(taken[s][d] - n, n)
         /\ PassedTo(s, d, taken[s][d] - n)
  BY <1>1, <1>2 DEF AllKept, Kept, d
<1>5. taken[s][d] - n \in Nat /\ (taken[s][d] - n) + n = taken[s][d]
  BY <1>1, <1>4, RelayAssumption
<1> DEFINE from == taken[s][d] - n
           got == out[s][Other(d)]
<1>6. Ascending(got, from) /\ (~ exit_flag => Complete(got, from))
  BY <1>4 DEF PassedTo
<1>7. text \in Text(Filled(from, n)) /\ from \in Nat /\ from + n < Junk /\ from + n = taken[s][d]
  BY <1>1, <1>3, <1>4, <1>5
<1> HIDE DEF from
<1>8. Ascending(got \o text, from + n) /\ (Complete(got, from) => Complete(got \o text, from + n))
  BY <1>6, <1>7, WrittenOn
<1>9. got \o text \in Seq(Nat) /\ Other(d) \in Side
  BY <1>1, <1>8, Sides DEF Ascending
<1>10. /\ out' \in Streams /\ out'[s][Other(d)] = got \o text
       /\ \A e \in Side \ {Other(d)} : out'[s][e] = out[s][e]
       /\ \A r \in Session \ {s} : out'[r] = out[r]
  BY <1>3, <1>9, OneSide DEF FlowTypes, Streams
<1>11. FlowTypes' /\ Bounded'
  <2>1. FlowTypes'
    BY <1>2, <1>10, Sides DEF FlowTypes, Transmitted, Goto, Stages
  <2>2. Bounded'
    BY <1>2 DEF Bounded
  <2> QED BY <2>1, <2>2
<1>12. ASSUME NEW e \in Side PROVE Kept(s, e)'
  <2>1. pc'[s] # "write"
    BY <1>2 DEF FlowTypes, Transmitted, Goto
  <2>2. CASE e = d
    BY <1>2, <1>6, <1>7, <1>8, <1>10, <2>1, <2>2 DEF Kept, PassedTo
  <2>3. CASE e # d
    <3>1. Other(e) \in Side \ {Other(d)}
      BY <1>1, <2>3, Sides
    <3>2. PassedTo(s, e, taken[s][e])
      BY <2>3 DEF AllKept, Kept, d
    <3> QED BY <1>2, <1>10, <2>1, <3>1, <3>2 DEF Kept, PassedTo
  <2> QED BY <2>2, <2>3
<1>13. \A r \in Session \ {s} : /\ pc'[r] = pc[r] /\ todo'[r] = todo[r] /\ buf'[r] = buf[r]
                                 /\ taken'[r] = taken[r] /\ out'[r] = out[r]
  BY <1>2, <1>10 DEF FlowTypes, Goto, Transmitted
<1> QED BY <1>2, <1>11, <1>12, <1>13, OthersKept

(* Whatever is in the buffer, nothing beyond what was read is written. *)
LEMMA KeptAscends ==
  ASSUME FlowTypes, NEW s \in Session, NEW d \in Side, Kept(s, d)
  PROVE  Ascending(out[s][Other(d)], taken[s][d])
<1>1. CASE pc[s] = "write" /\ d = Turn(s)
  <2>1. PICK n \in 0..BufLen : n <= taken[s][d] /\ PassedTo(s, d, taken[s][d] - n)
    BY <1>1 DEF Kept
  <2>2. n \in Nat /\ taken[s][d] \in Nat
    BY RelayAssumption DEF FlowTypes, Counts
  <2> QED BY <2>1, <2>2 DEF PassedTo, Ascending
<1>2. CASE ~ (pc[s] = "write" /\ d = Turn(s))
  BY <1>2 DEF Kept, PassedTo
<1> QED BY <1>1, <1>2

(* A transmit that fails loses the buffer and sets the flag. *)
LEMMA FailFlow ==
  ASSUME FlowTypes, Bounded, AllKept, NEW s \in Session, TransmitFails(s)
  PROVE  FlowTypes' /\ Bounded' /\ AllKept'
<1>1. /\ pc[s] \in {"read", "write"} /\ buf' = [buf EXCEPT ![s] = Cleared] /\ Transmitted(s)
      /\ exit_flag' = TRUE /\ UNCHANGED <<sent, taken, out>>
  BY DEF TransmitFails, peerVars
<1>2. FlowTypes' /\ Bounded'
  <2>1. FlowTypes'
    BY <1>1, Sides DEF FlowTypes, Transmitted, Goto, Stages
  <2>2. Bounded'
    BY <1>1 DEF Bounded
  <2> QED BY <2>1, <2>2
<1>3. ASSUME NEW e \in Side PROVE Kept(s, e)'
  <2>1. pc'[s] # "write"
    BY <1>1 DEF FlowTypes, Transmitted, Goto
  <2>2. Ascending(out[s][Other(e)], taken[s][e])
    BY KeptAscends DEF AllKept
  <2> QED BY <1>1, <2>1, <2>2 DEF Kept, PassedTo
<1>4. \A r \in Session \ {s} : /\ pc'[r] = pc[r] /\ todo'[r] = todo[r] /\ buf'[r] = buf[r]
                                /\ taken'[r] = taken[r] /\ out'[r] = out[r]
  BY <1>1 DEF FlowTypes, Goto, Transmitted
<1> QED BY <1>1, <1>2, <1>3, <1>4, OthersKept

LEMMA FlowStep == FlowTypes /\ Bounded /\ AllKept /\ [Next]_vars => FlowTypes' /\ Bounded' /\ AllKept'
BY MainFlow, PeerFlow, ReadFlow, WriteFlow, FailFlow DEF Next, Thread

(* Every byte the relay has read it has passed on, once and in order, but  *)
(* for what a NUL hides, until the flag is set; and nothing else but what  *)
(* lies behind a full buffer: for any number of sessions and bytes, any    *)
(* buffer and any NUL bytes.                                               *)
THEOREM BytesPassedOn == Spec => []PassedOn
<1>1. FlowTypes /\ AllKept => PassedOn
  <2> SUFFICES ASSUME FlowTypes, AllKept, NEW s \in Session, NEW d \in Side
               PROVE  LET got == out[s][Other(d)]
                          Bytes == {n \in 1..Len(got) : got[n] # Junk}
                      IN /\ \A m, n \in Bytes : m < n => got[m] < got[n]
                         /\ \A n \in Bytes : got[n] \in 1..taken[s][d]
                         /\ ~ exit_flag /\ pc[s] = "poll" =>
                              \A k \in 1..taken[s][d] : Hidden(k) \/ \E n \in Bytes : got[n] = k
    BY DEF PassedOn
  <2>1. Ascending(out[s][Other(d)], taken[s][d])
    BY KeptAscends DEF AllKept
  <2>2. ~ exit_flag /\ pc[s] = "poll" => Complete(out[s][Other(d)], taken[s][d])
    BY DEF AllKept, Kept, PassedTo
  <2> QED BY <2>1, <2>2 DEF Ascending, Complete
<1> QED BY <1>1, FlowInit, FlowStep, PTL DEF Spec

(* The types of the rest: main, the table and the peers' ends. *)
RestTypes ==
  /\ main \in {"accept", "create", "count", "join", "done"}
  /\ running \in BOOLEAN /\ threads \subseteq Session
  /\ peer \in [Session -> [Side -> {"open", "fin", "reset"}]]

(* Every step keeps them. *)
LEMMA RestStep == RestTypes /\ [Next]_vars => RestTypes'
<1> SUFFICES ASSUME RestTypes, [Next]_vars PROVE RestTypes'
  OBVIOUS
<1> USE DEF RestTypes, peerVars, dataVars
<1>1. CASE MainFails \/ Join \/ Interrupt
  BY <1>1 DEF MainFails, Join, Interrupt
<1>2. ASSUME NEW s \in Session, Accept(s) \/ Create(s) \/ Count(s) PROVE RestTypes'
  BY <1>2 DEF Accept, Create, Count
<1>3. ASSUME NEW s \in Session, Thread(s) PROVE RestTypes'
  BY <1>3 DEF Thread, Connect, ConnectFails, EndSession, Polled, Read, Write, TransmitFails
<1>4. ASSUME NEW s \in Session, NEW d \in Side, Send(s, d) \/ HangUp(s, d) PROVE RestTypes'
  BY <1>4 DEF Send, HangUp
<1>5. CASE UNCHANGED vars
  BY <1>5 DEF vars
<1> QED BY <1>1, <1>2, <1>3, <1>4, <1>5 DEF Next

(* The relay's variables keep their types. *)
THEOREM RelayTypes == Spec => []TypeOK
<1>1. Init => RestTypes
  BY Sides DEF Init, Each, RestTypes
<1>2. FlowTypes /\ RestTypes => TypeOK
  BY DEF FlowTypes, RestTypes, TypeOK, Stages, Counts
<1> QED BY <1>1, <1>2, RestStep, FlowInit, FlowStep, PTL DEF Spec

-----------------------------------------------------------------------------
(* The sessions that have come. *)
LiveSessions == {s \in Session : pc[s] # "absent"}

(* A session main is about to make a thread for, or to count. *)
Pending == \E s \in LiveSessions \ threads : LiveSessions = threads \cup {s}

(* The table is full at the latest when main leaves accept for good. *)
Limited ==
  /\ pc \in [Session -> Stages] /\ threads \subseteq LiveSessions
  /\ Cardinality(LiveSessions) <= MaxThreads
  /\ main = "accept" => LiveSessions = threads /\ num_threads < MaxThreads
  /\ main \in {"create", "count"} => Pending

(* Sets of sessions are finite. *)
LEMMA Finite ==
  /\ IsFiniteSet(Session) /\ MaxThreads \in Nat \ {0}
  /\ \A S \in SUBSET Session : IsFiniteSet(S) /\ Cardinality(S) \in Nat
  /\ \A S \in SUBSET Session, T \in SUBSET Session : S \subseteq T => Cardinality(S) <= Cardinality(T)
  /\ \A S \in SUBSET Session : \A s \in Session \ S : Cardinality(S \cup {s}) = Cardinality(S) + 1
<1>1. IsFiniteSet(Session) /\ MaxThreads \in Nat \ {0}
  BY RelayAssumption, FS_Interval DEF Session
<1>2. \A S \in SUBSET Session : IsFiniteSet(S) /\ Cardinality(S) \in Nat
  BY <1>1, FS_Subset, FS_CardinalityType
<1>3. \A S \in SUBSET Session, T \in SUBSET Session : S \subseteq T => Cardinality(S) <= Cardinality(T)
  BY <1>2, FS_Subset
<1>4. \A S \in SUBSET Session : \A s \in Session \ S : Cardinality(S \cup {s}) = Cardinality(S) + 1
  BY <1>2, FS_AddElement
<1> QED BY <1>1, <1>2, <1>3, <1>4

LEMMA LimitInit == Init => Limited
<1> SUFFICES ASSUME Init PROVE Limited
  OBVIOUS
<1>1. LiveSessions = {} /\ pc \in [Session -> Stages] /\ threads = {} /\ main = "accept"
  BY DEF Init, LiveSessions, Stages
<1>2. Cardinality({}) = 0
  BY FS_EmptySet
<1> QED BY <1>1, <1>2, Finite DEF Limited, num_threads

(* Sessions that are there stay there. *)
LEMMA LimitRests ==
  ASSUME Limited, pc' \in [Session -> Stages], LiveSessions' = LiveSessions, UNCHANGED threads,
         main' = main \/ (main = "create" /\ main' = "count") \/ main' \in {"join", "done"}
  PROVE  Limited'
BY DEF Limited, Pending, num_threads

LEMMA LimitStep == Limited /\ [Next]_vars => Limited'
<1> SUFFICES ASSUME Limited, [Next]_vars PROVE Limited'
  OBVIOUS
<1>1. CASE MainFails \/ Join \/ Interrupt \/ UNCHANGED vars
  <2>1. UNCHANGED <<pc, threads>> /\ (main' = main \/ main' \in {"join", "done"})
    BY <1>1 DEF MainFails, Join, Interrupt, vars
  <2> QED BY <2>1, LimitRests DEF Limited, LiveSessions
<1>2. ASSUME NEW s \in Session, Create(s) \/ Thread(s) \/ \E d \in Side : Send(s, d) \/ HangUp(s, d)
      PROVE  Limited'
  <2>1. UNCHANGED threads /\ (main' = main \/ (main = "create" /\ main' = "count"))
    BY <1>2 DEF Create, MainAt, Thread, Connect, ConnectFails, EndSession, Polled, Read, Write, TransmitFails, Send, HangUp
  <2>2. UNCHANGED pc \/ (pc[s] # "absent" /\ \E place \in Stages \ {"absent"} : pc' = [pc EXCEPT ![s] = place])
    <3>1. CASE Create(s)
      BY <3>1 DEF Create, Goto, Stages
    <3>2. CASE Connect(s) \/ ConnectFails(s) \/ EndSession(s) \/ Polled(s)
      <4>1. pc[s] # "absent"
        BY <3>2 DEF Connect, ConnectFails, EndSession, Polled, At
      <4>2. \/ pc' = [pc EXCEPT ![s] = "closed"] \/ pc' = [pc EXCEPT ![s] = "poll"]
            \/ pc' = [pc EXCEPT ![s] = "read"]
        BY <3>2 DEF Connect, ConnectFails, EndSession, Polled, Goto
      <4> QED BY <4>1, <4>2 DEF Stages
    <3>3. CASE Read(s) \/ Write(s) \/ TransmitFails(s)
      <4>1. pc[s] # "absent"
        BY <3>3 DEF Read, Write, TransmitFails, At
      <4>2. \/ pc' = [pc EXCEPT ![s] = "write"] \/ pc' = [pc EXCEPT ![s] = "poll"]
            \/ pc' = [pc EXCEPT ![s] = "read"]
        BY <3>3 DEF Read, Write, TransmitFails, Transmitted, Goto
      <4> QED BY <4>1, <4>2 DEF Stages
    <3>4. CASE \E d \in Side : Send(s, d) \/ HangUp(s, d)
      BY <3>4 DEF Send, HangUp
    <3> QED BY <1>2, <3>1, <3>2, <3>3, <3>4 DEF Thread
  <2>3. pc' \in [Session -> Stages] /\ LiveSessions' = LiveSessions
    BY <2>2 DEF Limited, LiveSessions
  <2> QED BY <2>1, <2>3, LimitRests
<1>3. ASSUME NEW s \in Session, Accept(s) PROVE Limited'
  <2>1. /\ main = "accept" /\ pc[s] = "absent" /\ pc' = [pc EXCEPT ![s] = "accepted"]
        /\ UNCHANGED threads /\ main' \in {"create", "join"}
    BY <1>3 DEF Accept, MainAt, Goto
  <2>2. LiveSessions' = LiveSessions \cup {s} /\ s \notin LiveSessions /\ pc' \in [Session -> Stages]
    BY <2>1 DEF Limited, LiveSessions, Stages
  <2>3. LiveSessions = threads /\ Cardinality(threads) < MaxThreads
    BY <2>1 DEF Limited, num_threads
  <2>4. Cardinality(LiveSessions') <= MaxThreads
    BY <2>2, <2>3, Finite DEF LiveSessions
  <2> QED BY <2>1, <2>2, <2>3, <2>4 DEF Limited, Pending
<1>4. ASSUME NEW s \in Session, Count(s) PROVE Limited'
  <2>1. /\ main = "count" /\ s \in LiveSessions \ threads /\ UNCHANGED pc
        /\ threads' = threads \cup {s} \/ (exit_flag /\ UNCHANGED threads)
        /\ exit_flag' = (exit_flag \/ Full')
        /\ main' = IF exit_flag' THEN "join" ELSE "accept"
    BY <1>4 DEF Count, MainAt, LiveSessions
  <2>2. LiveSessions = threads \cup {s} /\ LiveSessions' = LiveSessions
    BY <2>1 DEF Limited, Pending, LiveSessions
  <2>3. main' = "accept" => threads' = LiveSessions /\ ~ Full'
    BY <2>1, <2>2
  <2>4. main' = "accept" => num_threads' < MaxThreads
    <3>1. threads' \subseteq Session
      BY <2>1, <2>2 DEF LiveSessions
    <3> QED BY <2>3, <3>1, Finite DEF Full, num_threads
  <2>5. threads' \subseteq LiveSessions
    BY <2>1, <2>2
  <2> QED BY <2>1, <2>2, <2>3, <2>4, <2>5 DEF Limited
<1> QED BY <1>1, <1>2, <1>3, <1>4 DEF Next

(* The relay never counts more than MaxThreads sessions and never has more *)
(* descriptors open than its four and two for each, whoever comes and      *)
(* whatever fails.                                                         *)
THEOREM RelayWithinLimits == Spec => []WithinLimits
<1>1. Limited => WithinLimits
  <2> SUFFICES ASSUME Limited PROVE WithinLimits
    OBVIOUS
  <2> DEFINE A == {s \in Session : pc[s] \notin {"absent", "closed"}}
             B == {s \in Session : pc[s] \in {"connect", "poll", "read", "write"}}
  <2>1. A \subseteq LiveSessions /\ B \subseteq LiveSessions /\ threads \subseteq LiveSessions /\ LiveSessions \subseteq Session
    BY DEF LiveSessions, Limited
  <2>2. /\ Cardinality(A) \in Nat /\ Cardinality(B) \in Nat /\ Cardinality(threads) \in Nat
        /\ Cardinality(A) <= MaxThreads /\ Cardinality(B) <= MaxThreads
        /\ Cardinality(threads) <= MaxThreads /\ MaxThreads \in Nat
    <3>1. \A S \in SUBSET LiveSessions : Cardinality(S) \in Nat /\ Cardinality(S) <= Cardinality(LiveSessions)
      BY <2>1, Finite
    <3>2. Cardinality(LiveSessions) \in Nat /\ Cardinality(LiveSessions) <= MaxThreads /\ MaxThreads \in Nat
      BY <2>1, Finite DEF Limited
    <3>3. ASSUME NEW S \in SUBSET LiveSessions PROVE Cardinality(S) \in Nat /\ Cardinality(S) <= MaxThreads
      BY <3>1, <3>2
    <3> QED BY <2>1, <3>2, <3>3
  <2>3. Descriptors = OwnDescriptors + Cardinality(A) + Cardinality(B)
    BY DEF Descriptors
  <2> HIDE DEF A, B
  <2> QED BY <2>2, <2>3 DEF WithinLimits, num_threads, OwnDescriptors
<1> QED BY <1>1, LimitInit, LimitStep, PTL DEF Spec
=============================================================================
