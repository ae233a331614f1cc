----------------------------- MODULE EchoStream -----------------------------
(***************************************************************************)
(* TCP echo: clients running src/Socket/TCPEchoClient.c against one of     *)
(*   "Iterative"  TCPEchoServer.c,                                         *)
(*   "ForkN"      TCPEchoServer-ForkN.c, processLimit processes accepting, *)
(*   "Thread"     TCPEchoServer-Thread.c, a thread for each connection,    *)
(*   "Select"     TCPEchoServer-Select.c, several ports and the keyboard,  *)
(* all of which serve a connection in HandleTCPClient().                   *)
(*                                                                         *)
(* TCP keeps bytes in order, so a word is its length and each end of a     *)
(* connection the number of bytes that have passed it.  The kernel holds   *)
(* at most SOCKBUF bytes per direction.  A blocking send() returns when it *)
(* has passed all its bytes to the kernel, piece by piece.  Printing, and  *)
(* failures of the calls before the first accept(), are left out.          *)
(***************************************************************************)
EXTENDS Integers, FiniteSetsExt

CONSTANTS Client,
          Versions,               \* the servers considered, among these four
          Words,                  \* possible lengths of the echo word
          SOCKBUF,                \* bytes in the kernel, per direction
          RCVBUFSIZE,
          processLimit,           \* second argument of ForkN
          Port,                   \* Select: the port each client asks
          Mortal,                 \* the clients a user may kill
          Faults                  \* what may fail: "fork", "thread"

ASSUME VersionAssumption == Versions \subseteq {"Iterative", "ForkN", "Thread", "Select"}
ASSUME SizeAssumption == /\ Words \subseteq Nat
                         /\ SOCKBUF \in Nat \ {0}
                         /\ RCVBUFSIZE \in Nat /\ RCVBUFSIZE >= 2
                         /\ processLimit \in Nat \ {0}
                         /\ Port \in [Client -> Nat]
ASSUME FaultAssumption == Mortal \subseteq Client /\ Faults \subseteq {"fork", "thread"}

Process == 1..processLimit        \* only ForkN has more than the first

VARIABLES version,                \* the server that runs; never changes
          echoStringLen,          \* length of each client's word
          client,                 \* control point of each client
          sent, taken, echoed, got,   \* bytes through the client's send(),
                                  \* the server's recv() and send(), and the
                                  \* client's recv()
          fin,                    \* what the server's kernel knows of the
                                  \* client's end of the connection
          handler,                \* control point of HandleTCPClient()
          cut,                    \* the server's end died with its process
          servedBy,               \* the process of a connection, or 0
          process,                \* control point of each process
          ready, running, key     \* Select: sockSet, running, a key was hit

counts == <<sent, taken, echoed, got>>
server == <<process, servedBy, ready, running, key>>
vars == <<version, echoStringLen, client, counts, fin, handler, cut, server>>

Pending(c) == handler[c] = "pending"
Listening == \E i \in Process : process[i] \notin {"unborn", "dead"}

Init ==
    /\ version \in Versions
    /\ echoStringLen \in [Client -> Words]
    /\ client = [c \in Client |-> "idle"]
    /\ sent = [c \in Client |-> 0] /\ taken = sent /\ echoed = sent /\ got = sent
    /\ fin = [c \in Client |-> "open"]
    /\ handler = [c \in Client |-> "none"]
    /\ cut = [c \in Client |-> FALSE]
    /\ servedBy = [c \in Client |-> 0]
    /\ process = [i \in Process |->
                     IF version = "ForkN" THEN "unborn"
                     ELSE IF i > 1 THEN "dead"
                     ELSE IF version = "Select" THEN "select" ELSE "accept"]
    /\ ready = {} /\ running = TRUE /\ key = FALSE

-----------------------------------------------------------------------------
(* TCPEchoClient.c.                                                        *)

(* The server listens before it forks, so that a connection may be made    *)
(* and a word sent before anybody is there to accept it.                   *)
Connect(c) ==
    /\ client[c] = "idle"
    /\ Listening \/ \E i \in Process : process[i] = "unborn"
    /\ client' = [client EXCEPT ![c] = IF echoStringLen[c] = 0 THEN "recv" ELSE "send"]
    /\ handler' = [handler EXCEPT ![c] = "pending"]
    /\ UNCHANGED <<version, echoStringLen, counts, fin, cut, server>>

ClientSend(c) ==
    /\ client[c] = "send" /\ ~cut[c]
    /\ \E n \in 1..(echoStringLen[c] - sent[c]) :
          /\ sent[c] + n - taken[c] <= SOCKBUF
          /\ sent' = [sent EXCEPT ![c] = @ + n]
          /\ client' = [client EXCEPT ![c] =
                           IF sent[c] + n = echoStringLen[c] THEN "recv" ELSE "send"]
    /\ UNCHANGED <<version, echoStringLen, taken, echoed, got, fin, handler, cut, server>>

(* Mutant of ClientRecv: recv() that waits for all it has asked for.       *)
ClientRecvAll(c) ==
    /\ client[c] = "recv" /\ got[c] < echoStringLen[c]
    /\ \E n \in {RCVBUFSIZE - 1} :
          /\ n <= echoed[c] - got[c]
          /\ got' = [got EXCEPT ![c] = @ + n]
    /\ UNCHANGED <<version, echoStringLen, client, sent, taken, echoed, fin, handler, cut, server>>

(* recv() of at most RCVBUFSIZE - 1 bytes, "to leave space for a null      *)
(* terminator".                                                            *)
ClientRecv(c) ==
    /\ client[c] = "recv" /\ got[c] < echoStringLen[c]
    /\ \E n \in 1..(RCVBUFSIZE - 1) :
          /\ n <= echoed[c] - got[c]
          /\ got' = [got EXCEPT ![c] = @ + n]
    /\ UNCHANGED <<version, echoStringLen, client, sent, taken, echoed, fin, handler, cut, server>>

ClientCloses(c) ==
    /\ client[c] = "recv" /\ got[c] >= echoStringLen[c]
    /\ client' = [client EXCEPT ![c] = "done"]
    /\ fin' = [fin EXCEPT ![c] = "fin"]
    /\ UNCHANGED <<version, echoStringLen, counts, handler, cut, server>>

(* send() or recv() fails, or recv() returns 0: DieWithError().            *)
ClientDies(c) ==
    /\ client[c] \in {"send", "recv"} /\ cut[c]
    /\ client' = [client EXCEPT ![c] = "failed"]
    /\ UNCHANGED <<version, echoStringLen, counts, fin, handler, cut, server>>

(* The user ends a client.  Its kernel resets the connection if there is   *)
(* something it has not read, otherwise it only closes it.                 *)
KillClient(c) ==
    /\ c \in Mortal
    /\ client[c] \in {"send", "recv"}
    /\ client' = [client EXCEPT ![c] = "killed"]
    /\ fin' = [fin EXCEPT ![c] = IF echoed[c] > got[c] THEN "rst" ELSE "fin"]
    /\ UNCHANGED <<version, echoStringLen, counts, handler, cut, server>>

-----------------------------------------------------------------------------
(* HandleTCPClient(), in whichever process.                                *)

(* The process has done with a connection: what it does next.              *)
NextJob == IF version = "Select" THEN "round" ELSE "accept"

HandlerRecv(c) ==
    /\ handler[c] = "recv"
    /\ \E n \in 1..RCVBUFSIZE :
          /\ n <= sent[c] - taken[c]
          /\ taken' = [taken EXCEPT ![c] = @ + n]
    /\ handler' = [handler EXCEPT ![c] = "send"]
    /\ UNCHANGED <<version, echoStringLen, client, sent, echoed, got, fin, cut, server>>

(* Mutant of HandlerSend: a terminator is sent after what was received.    *)
HandlerSendsNul(c) ==
    /\ handler[c] = "send"
    /\ \E n \in 1..(taken[c] + 1 - echoed[c]) :
          /\ echoed[c] + n - got[c] <= SOCKBUF
          /\ echoed' = [echoed EXCEPT ![c] = @ + n]
          /\ handler' = [handler EXCEPT ![c] =
                            IF echoed[c] + n > taken[c] THEN "recv" ELSE "send"]
    /\ UNCHANGED <<version, echoStringLen, client, sent, taken, got, fin, cut, server>>

(* To an end that has closed the bytes still go out, and bring a reset.    *)
HandlerSend(c) ==
    /\ handler[c] = "send"
    /\ \E n \in 1..(taken[c] - echoed[c]) :
          /\ echoed[c] + n - got[c] <= SOCKBUF
          /\ echoed' = [echoed EXCEPT ![c] = @ + n]
          /\ handler' = [handler EXCEPT ![c] =
                            IF echoed[c] + n = taken[c] THEN "recv" ELSE "send"]
    /\ fin' = [fin EXCEPT ![c] = IF @ = "fin" THEN "late" ELSE @]
    /\ UNCHANGED <<version, echoStringLen, client, sent, taken, got, cut, server>>

ResetArrives(c) ==
    /\ fin[c] = "late"
    /\ fin' = [fin EXCEPT ![c] = "rst"]
    /\ UNCHANGED <<version, echoStringLen, client, counts, handler, cut, server>>

(* Mutant of HandlerCloses: no data is taken for the end of transmission.  *)
HandlerClosesEarly(c) ==
    /\ handler[c] = "recv" /\ sent[c] = taken[c]
    /\ handler' = [handler EXCEPT ![c] = "closed"]
    /\ process' = [process EXCEPT ![servedBy[c]] = NextJob]
    /\ UNCHANGED <<version, echoStringLen, client, counts, fin, cut, servedBy, ready, running, key>>

(* "zero indicates end of transmission".                                   *)
HandlerCloses(c) ==
    /\ handler[c] = "recv" /\ sent[c] = taken[c] /\ fin[c] \in {"fin", "late"}
    /\ handler' = [handler EXCEPT ![c] = "closed"]
    /\ process' = IF version = "Thread" THEN process
                  ELSE [process EXCEPT ![servedBy[c]] = NextJob]
    /\ UNCHANGED <<version, echoStringLen, client, counts, fin, cut, servedBy, ready, running, key>>

(* Mutant of Ends: the listening socket goes with the first process.       *)
EndsListening(i) ==
    LET lost(c) == \/ servedBy[c] = i /\ handler[c] \in {"thread", "recv", "send"}
                   \/ Pending(c)
    IN /\ process' = [process EXCEPT ![i] = "dead"]
       /\ cut' = [c \in Client |-> cut[c] \/ lost(c)]
       /\ handler' = [c \in Client |-> IF lost(c) THEN "closed" ELSE handler[c]]

(* A process ends: its connections, and with the last process those nobody *)
(* has accepted yet, are cut.                                              *)
Ends(i) ==
    LET lost(c) == \/ servedBy[c] = i /\ handler[c] \in {"thread", "recv", "send"}
                   \/ Pending(c) /\ \A j \in Process \ {i} : process[j] = "dead"
    IN /\ process' = [process EXCEPT ![i] = "dead"]
       /\ cut' = [c \in Client |-> cut[c] \/ lost(c)]
       /\ handler' = [c \in Client |-> IF lost(c) THEN "closed" ELSE handler[c]]

(* recv() or send() on a connection that was reset: DieWithError(), or     *)
(* SIGPIPE, either of which ends the whole process.                        *)
HandlerDies(c) ==
    /\ handler[c] \in {"recv", "send"} /\ fin[c] = "rst"
    /\ Ends(servedBy[c])
    /\ UNCHANGED <<version, echoStringLen, client, counts, fin, servedBy, ready, running, key>>

-----------------------------------------------------------------------------
(* The servers.                                                            *)

Accept(i, c) ==
    /\ Pending(c)
    /\ servedBy' = [servedBy EXCEPT ![c] = i]
    /\ handler' = [handler EXCEPT ![c] = IF version = "Thread" THEN "thread" ELSE "recv"]
    /\ process' = [process EXCEPT ![i] = IF version = "Thread" THEN "create" ELSE "serve"]
    /\ UNCHANGED <<version, echoStringLen, client, counts, fin, cut, running, key>>

AcceptTCPConnection(i, c) ==
    /\ process[i] = "accept"
    /\ Accept(i, c)
    /\ UNCHANGED ready

(* pthread_create(), and malloc() before it.                               *)
CreateThread(c) ==
    /\ process[1] = "create" /\ handler[c] = "thread"
    /\ handler' = [handler EXCEPT ![c] = "recv"]
    /\ process' = [process EXCEPT ![1] = "accept"]
    /\ UNCHANGED <<version, echoStringLen, client, counts, fin, cut, servedBy, ready, running, key>>

CreateThreadFails ==
    /\ "thread" \in Faults /\ process[1] = "create"
    /\ Ends(1)
    /\ UNCHANGED <<version, echoStringLen, client, counts, fin, servedBy, ready, running, key>>

(* ForkN: the next child.  If fork() fails no more are forked, and with no *)
(* child at all the listening socket goes with the parent.                 *)
ForkChild(i) ==
    /\ process[i] = "unborn" /\ \A j \in 1..(i - 1) : process[j] # "unborn"
    /\ process' = [process EXCEPT ![i] = "accept"]
    /\ UNCHANGED <<version, echoStringLen, client, counts, fin, handler, cut, servedBy, ready, running, key>>

ForkFails ==
    /\ "fork" \in Faults
    /\ \E i \in Process : process[i] = "unborn"
    /\ process' = [i \in Process |-> IF process[i] = "unborn" THEN "dead" ELSE process[i]]
    /\ LET lost(c) == Pending(c) /\ ~Listening
       IN /\ cut' = [c \in Client |-> cut[c] \/ lost(c)]
          /\ handler' = [c \in Client |-> IF lost(c) THEN "closed" ELSE handler[c]]
    /\ UNCHANGED <<version, echoStringLen, client, counts, fin, servedBy, ready, running, key>>

(* select() returns what is ready now; a key is read at once.  A timeout   *)
(* changes nothing.                                                        *)
SelectReturns ==
    /\ process[1] = "select"
    /\ ready' = {Port[c] : c \in {d \in Client : Pending(d)}}
    /\ key \/ ready' # {}
    /\ running' = ~key /\ key' = FALSE
    /\ process' = [process EXCEPT ![1] = "round"]
    /\ UNCHANGED <<version, echoStringLen, client, counts, fin, handler, cut, servedBy>>

(* The ports in turn, one connection for each that was ready.              *)
ServePort(c) ==
    /\ process[1] = "round" /\ ready # {}
    /\ Port[c] = Min(ready)
    /\ Accept(1, c)
    /\ ready' = ready \ {Min(ready)}

RoundEnds ==
    /\ process[1] = "round" /\ ready = {}
    /\ IF running THEN process' = [process EXCEPT ![1] = "select"] /\ UNCHANGED <<handler, cut>>
                  ELSE Ends(1)
    /\ UNCHANGED <<version, echoStringLen, client, counts, fin, servedBy, ready, running, key>>

HitReturn ==
    /\ version = "Select" /\ running /\ ~key
    /\ key' = TRUE
    /\ UNCHANGED <<version, echoStringLen, client, counts, fin, handler, cut, process, servedBy, ready, running>>

-----------------------------------------------------------------------------
ClientStep(c) == ClientSend(c) \/ ClientRecv(c) \/ ClientCloses(c) \/ ClientDies(c)
HandleTCPClient(c) == HandlerRecv(c) \/ HandlerSend(c) \/ HandlerCloses(c) \/ HandlerDies(c)
ServerStep(i) == \/ \E c \in Client : AcceptTCPConnection(i, c)
                 \/ ForkChild(i)
                 \/ /\ i = 1
                    /\ \/ (\E c \in Client : CreateThread(c) \/ ServePort(c))
                       \/ CreateThreadFails \/ SelectReturns \/ RoundEnds

Next == \/ \E c \in Client : \/ Connect(c) \/ ClientStep(c) \/ KillClient(c)
                             \/ HandleTCPClient(c) \/ ResetArrives(c)
        \/ \E i \in Process : ServerStep(i)
        \/ ForkFails \/ HitReturn

Spec == Init /\ [][Next]_vars

(* Every process and every thread runs when it can, and the network brings *)
(* a reset in the end.  Users need not start, kill or shut down anything.  *)
FairSpec == /\ Spec
            /\ \A c \in Client : /\ WF_vars(ClientStep(c)) /\ WF_vars(HandleTCPClient(c))
                                 /\ WF_vars(ResetArrives(c))
            /\ \A i \in Process : WF_vars(ServerStep(i))

-----------------------------------------------------------------------------
(* Properties.                                                             *)

TypeOK ==
    /\ version \in {"Iterative", "ForkN", "Thread", "Select"}
    /\ echoStringLen \in [Client -> Words]
    /\ client \in [Client -> {"idle", "send", "recv", "done", "failed", "killed"}]
    /\ sent \in [Client -> Nat] /\ taken \in [Client -> Nat]
    /\ echoed \in [Client -> Nat] /\ got \in [Client -> Nat]
    /\ fin \in [Client -> {"open", "fin", "late", "rst"}]
    /\ handler \in [Client -> {"none", "pending", "thread", "recv", "send", "closed"}]
    /\ cut \in [Client -> BOOLEAN]
    /\ servedBy \in [Client -> Process \cup {0}]
    /\ process \in [Process -> {"unborn", "accept", "create", "serve", "select", "round", "dead"}]
    /\ ready \subseteq {Port[c] : c \in Client}
    /\ running \in BOOLEAN /\ key \in BOOLEAN

(* A connection has passed its bytes on in order and within the buffers;   *)
(* the handler sends when and only when it has something; a client that is *)
(* content has its whole word; a connection that the server closed itself  *)
(* was echoed to the last byte, and only its client had closed it before;  *)
(* and a process other than a threaded one has one connection at a time.   *)
StreamsWhole ==
    /\ TypeOK
    /\ \A c \in Client :
        /\ got[c] <= echoed[c] /\ echoed[c] <= taken[c] /\ taken[c] <= sent[c]
        /\ sent[c] <= echoStringLen[c]
        /\ sent[c] - taken[c] <= SOCKBUF /\ echoed[c] - got[c] <= SOCKBUF
        /\ handler[c] = "send" <=> (echoed[c] < taken[c] /\ ~cut[c])
        /\ client[c] = "done" => got[c] = echoStringLen[c]
        /\ handler[c] = "closed" /\ ~cut[c] => echoed[c] = sent[c] /\ fin[c] # "open"
    /\ version # "Thread" =>
          \A c, d \in Client :
             c # d /\ servedBy[c] = servedBy[d] =>
                 handler[c] \notin {"recv", "send"} \/ handler[d] \notin {"recv", "send"}

(* A reset ends the process that serves the connection, and no other: a    *)
(* client that nobody killed fails only when no process is left.  And each *)
(* process that has served anybody has ended because a killed client had   *)
(* reset a connection of its own, or because no thread could be made for   *)
(* one that it had accepted, or because the select() server was shut down. *)
DeathsExplained ==
    \A i \in Process : process[i] = "dead" =>
        \/ \A c \in Client : servedBy[c] # i
        \/ \E c \in Client : servedBy[c] = i /\ client[c] = "killed" /\ fin[c] = "rst"
        \/ version = "Thread" /\ \E c \in Client : servedBy[c] = i /\ taken[c] = 0
        \/ version = "Select" /\ ~running
FailuresExplained ==
    /\ DeathsExplained
    /\ \A c \in Client : client[c] = "failed" => \A i \in Process : process[i] = "dead"

(* What every step keeps.  In addition to StreamsWhole: what the handler   *)
(* has in hand fits its buffer, a connection that was cut is closed, one   *)
(* not made has no handler, an end that is in use is open, and whoever     *)
(* serves a connection, if it is not a threaded process, does only that.   *)
Bytes(c) ==
    /\ got[c] <= echoed[c] /\ echoed[c] <= taken[c] /\ taken[c] <= sent[c]
    /\ sent[c] <= echoStringLen[c]
    /\ sent[c] - taken[c] <= SOCKBUF /\ echoed[c] - got[c] <= SOCKBUF
    /\ taken[c] - echoed[c] <= RCVBUFSIZE
    /\ handler[c] = "send" <=> (echoed[c] < taken[c] /\ ~cut[c])
    /\ client[c] = "done" => got[c] = echoStringLen[c]
    /\ handler[c] = "closed" /\ ~cut[c] => echoed[c] = sent[c] /\ fin[c] # "open"
    /\ cut[c] => handler[c] = "closed"
    /\ client[c] = "idle" => handler[c] = "none"
    /\ client[c] \in {"idle", "send", "recv"} => fin[c] = "open"

Active(c) == handler[c] \in {"thread", "recv", "send"}
Serving(c) ==
    Active(c) => /\ servedBy[c] \in Process
                 /\ version # "Thread" => process[servedBy[c]] = "serve" /\ handler[c] # "thread"
OneEach ==
    version # "Thread" =>
        \A c, d \in Client : c # d /\ servedBy[c] = servedBy[d] => ~Active(c) \/ ~Active(d)

Inv == TypeOK /\ (\A c \in Client : Bytes(c) /\ Serving(c)) /\ OneEach

(* And for FailuresExplained: an end that is not open is that of a client  *)
(* who is done or was killed; who has more in the handler's hand was       *)
(* killed; nobody is served by a process that is dead or not yet born; and *)
(* connections are cut, other than those of clients who have gone, only    *)
(* when the last process ends.                                             *)
Causes(c) ==
    /\ fin[c] # "open" => client[c] \in {"done", "killed"}
    /\ fin[c] \in {"late", "rst"} => client[c] = "killed"
    /\ client[c] = "failed" => cut[c]
    /\ Active(c) => process[servedBy[c]] # "dead"
    /\ servedBy[c] # 0 => /\ process[servedBy[c]] # "unborn"
                         /\ handler[c] \notin {"none", "pending"}
    /\ handler[c] \in {"none", "pending", "thread"} => taken[c] = 0
    /\ handler[c] = "thread" => version = "Thread"
    /\ cut[c] /\ client[c] \in {"send", "recv", "failed"} => \A i \in Process : process[i] = "dead"
ProcessKinds ==
    /\ version # "ForkN" => \A i \in Process : i > 1 => process[i] = "dead"
    /\ version = "ForkN" => \A i \in Process : process[i] \in {"unborn", "accept", "serve", "dead"}
    /\ process[1] = "create" => version = "Thread" /\ \E c \in Client : handler[c] = "thread"
    /\ process[1] \in {"select", "round"} => version = "Select"
    /\ process[1] = "select" => running
CauseInv == Inv /\ (\A c \in Client : Causes(c)) /\ ProcessKinds /\ DeathsExplained

(* Client and server each wait for the other to receive: both directions   *)
(* are full, and both are in the middle of a send().                       *)
Stuck(c) ==
    /\ client[c] = "send" /\ handler[c] = "send" /\ fin[c] = "open"
    /\ sent[c] - taken[c] = SOCKBUF /\ echoed[c] - got[c] = SOCKBUF

(* Nobody will accept c: whoever could is stuck with somebody else's word. *)
HeldUp(c) ==
    /\ Pending(c) /\ version # "Thread"
    /\ \A i \in Process : process[i] # "dead" =>
          process[i] = "serve" /\ \E d \in Client : servedBy[d] = i /\ Stuck(d)

Gone(c) == client[c] \in {"done", "failed", "killed"}

(* The client sends its whole word before it receives any of it.  It comes *)
(* to its end unless the word is too long for what the two buffers and one *)
(* byte in the handler's hand can hold, or unless such words of others     *)
(* keep every process; a thread server holds up nobody.  And a key shuts   *)
(* down the select() server unless such a word keeps it.                   *)
ServiceEnds ==
    /\ \A c \in Client :
          client[c] = "send" ~> \/ Gone(c)
                                \/ Stuck(c) /\ echoStringLen[c] > 2 * SOCKBUF + 1
                                \/ HeldUp(c)
    /\ key ~> (process[1] = "dead" \/ \E c \in Client : Stuck(c))

(* The two buffers and the handler's are one channel to the client.        *)
Channel == INSTANCE EchoChannel WITH Capacity <- 2 * SOCKBUF + RCVBUFSIZE,
                                     in <- sent, out <- got
ChannelSpec == Channel!Spec

=============================================================================
