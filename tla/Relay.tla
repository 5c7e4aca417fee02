-------------------------------- MODULE Relay --------------------------------
(***************************************************************************)
(* The relay of lab 27 (_lab27(relay)/src/27.c): main accepts clients and  *)
(* makes a thread for each, which connects to the server N and passes      *)
(* bytes between the two until one hangs up or exit_flag is set.  Any      *)
(* error anywhere sets exit_flag, and so does main when it stops accepting.*)
(*                                                                         *)
(* Bytes are numbered in the order in which a side sends them; those in    *)
(* NulBytes have the value 0.  A step is a system call with the code up to *)
(* the next; a write returns, which needs peers that read.                 *)
(***************************************************************************)
EXTENDS Naturals, Sequences, FiniteSets

CONSTANTS
  Clients,     \* bound: how many clients come, at most
  MaxThreads,  \* MAX_THREADS
  BufLen,      \* BUFLEN
  Talkative,   \* bound: the sessions in which bytes are sent and the server
               \* may hang up, too,
  MaxBytes,    \* bound: how many bytes by the client,
  MaxReply,    \* bound: and by the server
  NulBytes     \* which bytes are NUL

ASSUME RelayAssumption ==
  /\ Clients \in Nat
  /\ MaxThreads \in Nat \ {0} /\ BufLen \in Nat \ {0}
  /\ MaxBytes \in Nat /\ MaxReply \in Nat

VARIABLES
  main, exit_flag,
  threads,        \* the sessions counted in num_threads, to be joined
  pc, todo,       \* a session: its place; sides with revents not served yet
  buf,            \* transmit's buffer
  peer,           \* a side: "open", "fin" or "reset"
  sent, taken,    \* how many bytes a side has sent, and were read from it
  out,            \* what was written to a side
  running

peerVars == <<peer, sent>>
dataVars == <<buf, taken, out>>
vars == <<main, exit_flag, threads, pc, todo, peerVars, dataVars, running>>

Session == 1..Clients  \* numbered as main accepts them
Side == {"client", "server"}
Other(d) == IF d = "client" THEN "server" ELSE "client"
num_threads == Cardinality(threads)

Each(x) == [s \in Session |-> [d \in Side |-> x]]
Cleared == [k \in 1..BufLen |-> 0]

Init ==
  /\ main = "accept" /\ exit_flag = FALSE /\ threads = {}
  /\ pc = [s \in Session |-> "absent"] /\ todo = [s \in Session |-> {}]
  /\ buf = [s \in Session |-> Cleared]
  /\ peer = Each("open") /\ sent = Each(0) /\ taken = Each(0) /\ out = Each(<<>>)
  /\ running = TRUE

At(s, place) == running /\ pc[s] = place
Goto(s, place) == pc' = [pc EXCEPT ![s] = place]
MainAt(place) == running /\ main = place

-----------------------------------------------------------------------------
(* accept waits for a client, whatever happens to exit_flag meanwhile. *)
Accept(s) ==
  /\ MainAt("accept") /\ pc[s] = "absent" /\ \A r \in 1..(s - 1) : pc[r] # "absent"
  /\ Goto(s, "accepted")
  /\ main' = IF exit_flag THEN "join" ELSE "create"
  /\ UNCHANGED <<exit_flag, threads, todo, peerVars, dataVars, running>>

Create(s) ==
  /\ MainAt("create") /\ pc[s] = "accepted"
  /\ Goto(s, "connect")
  /\ main' = "count"
  /\ UNCHANGED <<exit_flag, threads, todo, peerVars, dataVars, running>>

(* An error in accept or pthread_create. *)
MainFails ==
  /\ running /\ main \in {"accept", "create"}
  /\ exit_flag' = TRUE /\ main' = "join"
  /\ UNCHANGED <<threads, pc, todo, peerVars, dataVars, running>>

(* Mutant of Full: one session too many. *)
BadFull == num_threads > MaxThreads

Full == num_threads >= MaxThreads

(* The new thread is counted, unless the flag has been set since; main     *)
(* leaves the loop if it is set now or the table is full, and sets it.     *)
Count(s) ==
  /\ MainAt("count") /\ pc[s] \notin {"absent", "accepted"} /\ s \notin threads
  /\ threads' = threads \cup {s} \/ (exit_flag /\ UNCHANGED threads)
  /\ exit_flag' = (exit_flag \/ Full')
  /\ main' = IF exit_flag' THEN "join" ELSE "accept"
  /\ UNCHANGED <<pc, todo, peerVars, dataVars, running>>

(* join_threads, and main's pthread_exit. *)
Join ==
  /\ MainAt("join") /\ \A s \in threads : pc[s] = "closed"
  /\ main' = "done"
  /\ UNCHANGED <<exit_flag, threads, pc, todo, peerVars, dataVars, running>>

-----------------------------------------------------------------------------
(* init_connection: both sockets are closed if the flag is set by now. *)
Connect(s) ==
  /\ At(s, "connect")
  /\ Goto(s, IF exit_flag THEN "closed" ELSE "poll")
  /\ UNCHANGED <<main, exit_flag, threads, todo, peerVars, dataVars, running>>

(* N refuses the connection: that ends this session and all others. *)
ConnectFails(s) ==
  /\ At(s, "connect")
  /\ exit_flag' = TRUE
  /\ Goto(s, "closed")
  /\ UNCHANGED <<main, threads, todo, peerVars, dataVars, running>>

HungUp(s) == \E d \in Side : peer[s][d] = "reset"

(* Mutant of Ends: the flag is looked at only when poll has failed. *)
BadEnds(s) == HungUp(s)

(* poll returns after TIMEOUT if not before, so the flag is seen.  POLLHUP *)
(* is set on a reset only: the relay never shuts a direction down.         *)
Ends(s) == exit_flag \/ HungUp(s)

EndSession(s) ==
  /\ At(s, "poll") /\ Ends(s)
  /\ Goto(s, "closed")
  /\ UNCHANGED <<main, exit_flag, threads, todo, peerVars, dataVars, running>>

(* The sides on which read() will not block. *)
Readable(s) == {d \in Side : taken[s][d] < sent[s][d] \/ peer[s][d] # "open"}

Polled(s) ==
  /\ At(s, "poll") /\ ~ Ends(s) /\ Readable(s) # {}
  /\ todo' = [todo EXCEPT ![s] = Readable(s)]
  /\ Goto(s, "read")
  /\ UNCHANGED <<main, exit_flag, threads, peerVars, dataVars, running>>

(* The side whose turn it is: the client first. *)
Turn(s) == IF "client" \in todo[s] THEN "client" ELSE "server"

(* The end of a transmit: its result is not looked at. *)
Transmitted(s) ==
  /\ todo' = [todo EXCEPT ![s] = @ \ {Turn(s)}]
  /\ Goto(s, IF todo[s] = {Turn(s)} THEN "poll" ELSE "read")

Byte(k) == IF k \in NulBytes THEN 0 ELSE k
Atmost(n) == IF n < BufLen THEN n ELSE BufLen

(* The buffer after memset and read(). *)
Filled(from, n) == [k \in 1..BufLen |-> IF k <= n THEN Byte(from + k) ELSE 0]

(* The first half of transmit; at the end of a peer's output n is 0. *)
Read(s) ==
  LET d == Turn(s)
      n == Atmost(sent[s][d] - taken[s][d])
  IN /\ At(s, "read")
     /\ taken' = [taken EXCEPT ![s][d] = @ + n]
     /\ IF exit_flag
        THEN Transmitted(s) /\ UNCHANGED buf
        ELSE Goto(s, "write") /\ buf' = [buf EXCEPT ![s] = Filled(taken[s][d], n)] /\ UNCHANGED todo
     /\ UNCHANGED <<main, exit_flag, threads, peerVars, out, running>>

Junk == MaxBytes + MaxReply + 1

(* Mutant of Text: the length of the buffer in the place of strlen(buf). *)
BadText(b) == {b}

(* strlen(buf) bytes: up to the first NUL.  A full buffer without one is   *)
(* read past its end: there may be a NUL right there, or something else.   *)
Text(b) ==
  {SubSeq(b, 1, k - 1) : k \in {k \in 1..BufLen : b[k] = 0 /\ \A j \in 1..(k - 1) : b[j] # 0}}
  \cup IF \A k \in 1..BufLen : b[k] # 0 THEN {b, Append(b, Junk)} ELSE {}

(* The second half. *)
Write(s) ==
  /\ At(s, "write")
  /\ \E text \in Text(buf[s]) : out' = [out EXCEPT ![s][Other(Turn(s))] = @ \o text]
  /\ buf' = [buf EXCEPT ![s] = Cleared]
  /\ Transmitted(s)
  /\ UNCHANGED <<main, exit_flag, threads, peerVars, taken, running>>

(* read() or write() on a socket that was reset fails, and transmit gives  *)
(* up; a write may raise SIGPIPE.                                          *)
TransmitFails(s) ==
  /\ running
  /\ \/ pc[s] = "read" /\ peer[s][Turn(s)] = "reset" /\ UNCHANGED running
     \/ pc[s] = "write" /\ peer[s][Other(Turn(s))] = "reset" /\ running' \in BOOLEAN
  /\ exit_flag' = TRUE
  /\ buf' = [buf EXCEPT ![s] = Cleared]
  /\ Transmitted(s)
  /\ UNCHANGED <<main, threads, peerVars, taken, out>>

Thread(s) ==
  \/ Connect(s) \/ ConnectFails(s) \/ EndSession(s) \/ Polled(s)
  \/ Read(s) \/ Write(s) \/ TransmitFails(s)

-----------------------------------------------------------------------------
(* quit_handler: the signal may also interrupt a call, which then fails. *)
Interrupt ==
  /\ running /\ exit_flag' = TRUE
  /\ UNCHANGED <<main, threads, pc, todo, peerVars, dataVars, running>>

(* N's side is there once connect() has succeeded. *)
InUse(s) == running /\ pc[s] \in {"poll", "read", "write"} /\ ~ HungUp(s)
Most(d) == IF d = "client" THEN MaxBytes ELSE MaxReply

Send(s, d) ==
  /\ InUse(s) /\ peer[s][d] = "open" /\ ~ exit_flag
  /\ s \in Talkative /\ sent[s][d] < Most(d)
  /\ sent' = [sent EXCEPT ![s][d] = @ + 1]
  /\ UNCHANGED <<main, exit_flag, threads, pc, todo, peer, dataVars, running>>

(* A side ends its output, or its host says that it knows no such          *)
(* connection.                                                             *)
HangUp(s, d) ==
  /\ InUse(s) /\ (s \in Talkative \/ d = "client")
  /\ \E how \in {"fin", "reset"} :
       /\ peer[s][d] = "open" \/ (peer[s][d] = "fin" /\ how = "reset")
       /\ peer' = [peer EXCEPT ![s][d] = how]
  /\ UNCHANGED <<main, exit_flag, threads, pc, todo, sent, dataVars, running>>

Next ==
  \/ MainFails \/ Join \/ Interrupt
  \/ \E s \in Session :
       \/ Accept(s) \/ Create(s) \/ Count(s) \/ Thread(s)
       \/ \E d \in Side : Send(s, d) \/ HangUp(s, d)

(* Threads run, and main when it does not wait for a client. *)
Spec ==
  /\ Init /\ [][Next]_vars
  /\ WF_vars(Join) /\ \A s \in Session : WF_vars(Create(s) \/ Count(s)) /\ WF_vars(Thread(s))

-----------------------------------------------------------------------------
TypeOK ==
  /\ main \in {"accept", "create", "count", "join", "done"}
  /\ exit_flag \in BOOLEAN /\ running \in BOOLEAN
  /\ threads \subseteq Session
  /\ pc \in [Session -> {"absent", "accepted", "connect", "poll", "read", "write", "closed"}]
  /\ todo \in [Session -> SUBSET Side]
  /\ peer \in [Session -> [Side -> {"open", "fin", "reset"}]]
  /\ sent \in [Session -> [Side -> Nat]] /\ taken \in [Session -> [Side -> Nat]]

(* The task (README.md:27) gives 1024 descriptors for 510 sessions: the    *)
(* three standard ones, the listening socket and two for a session, also   *)
(* for a client whose thread was not made or not counted.                  *)
OwnDescriptors == 4
Descriptors ==
  OwnDescriptors + Cardinality({s \in Session : pc[s] \notin {"absent", "closed"}})
                 + Cardinality({s \in Session : pc[s] \in {"connect", "poll", "read", "write"}})
WithinLimits == num_threads <= MaxThreads /\ Descriptors <= OwnDescriptors + 2 * MaxThreads

(* Every byte that was read is passed on, once and in order, until the     *)
(* flag is set; except a NUL and what follows it in the same buffer.       *)
(* Nothing else is, but what lies behind a full buffer.                    *)
Hidden(k) == \E z \in NulBytes : z <= k /\ k < z + BufLen
PassedOn ==
  \A s \in Session, d \in Side :
    LET got == out[s][Other(d)]
        Bytes == {n \in 1..Len(got) : got[n] # Junk}
    IN /\ \A m, n \in Bytes : m < n => got[m] < got[n]
       /\ \A n \in Bytes : got[n] \in 1..taken[s][d]
       /\ ~ exit_flag /\ pc[s] = "poll" =>
            \A k \in 1..taken[s][d] : Hidden(k) \/ \E n \in Bytes : got[n] = k

(* An error, a signal or the limit ends every session that has a thread,   *)
(* whatever its peers do.                                                  *)
FlagEndsSessions ==
  \A s \in Session : exit_flag /\ pc[s] \in {"connect", "poll", "read", "write"} ~> pc[s] = "closed" \/ ~ running

(* "If the server N or the client breaks the connection, our server must   *)
(* break the connection too" (README.md:25): not when it ends its output.  *)
PeerEndEndsSession ==
  \A s \in Session, d \in Side : peer[s][d] = "fin" ~> pc[s] = "closed" \/ ~ running
=============================================================================
