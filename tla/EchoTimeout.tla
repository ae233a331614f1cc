---------------------------- MODULE EchoTimeout -----------------------------
(***************************************************************************)
(* UDP echo: one client and one server at the two ends of a network that   *)
(* loses, duplicates and reorders datagrams.  The client is                *)
(*   "timeout"    src/Socket/UDPEchoClient-Timeout.c, which sets an alarm  *)
(*                and calls recvfrom(); the handler of SIGALRM counts in   *)
(*                tries; recvfrom(), if it was asleep, returns EINTR, and  *)
(*                the client sends again or gives up;                      *)
(*   "plain"      UDPEchoClient.c, which sends and receives once.          *)
(* The server is                                                           *)
(*   "iterative"  UDPEchoServer.c;                                         *)
(*   "sigio"      UDPEchoServer-SIGIO.c, which echoes in its handler of    *)
(*                SIGIO, with all signals blocked; pending SIGIOs are one. *)
(* All datagrams of one run carry the same word: the network is the number *)
(* of them on the way in each direction.  A server starts bound.           *)
(***************************************************************************)
EXTENDS Integers

CONSTANTS Clients, Servers,       \* the programs considered, among these four
          MAXTRIES,               \* tries before giving up (5)
          InFlight,               \* bound: datagrams on the way, per direction
          ServerMayStop           \* the server may go away

ASSUME ProgramAssumption == /\ Clients \subseteq {"timeout", "plain"}
                            /\ Servers \subseteq {"iterative", "sigio"}
ASSUME TriesAssumption == MAXTRIES \in Nat \ {0}
ASSUME BoundAssumption == InFlight \in Nat
ASSUME FlagAssumption == ServerMayStop \in BOOLEAN

VARIABLES clientVersion, serverVersion,  \* what runs; these never change
          pc,                     \* the client
          tries,                  \* counted by CatchAlarm()
          armed,                  \* an alarm is set
          sends,                  \* history: calls of sendto() by the client
          missed,                 \* history: an alarm came before recvfrom()
          requests, replies,      \* datagrams on the way
          queue,                  \* datagrams in the server's socket
          lost,                   \* history: the network has lost one
          echoer,                 \* control point of the server
          sigio,                  \* a SIGIO is pending
          early                   \* history: a datagram came before FASYNC,
                                  \* and the handler has not run since

choice == <<clientVersion, serverVersion>>
sender == <<pc, tries, armed, sends, missed>>
network == <<requests, replies, queue, lost>>
service == <<echoer, sigio, early>>
udpVars == <<choice, sender, network, service>>

ClientPC == {"start", "call", "asleep", "eintr", "got", "done", "gaveup"}
ServerPC == {"recv", "send", "bound", "idle", "handler", "reply", "stopped"}

UdpTypeOK ==
    /\ clientVersion \in {"timeout", "plain"} /\ serverVersion \in {"iterative", "sigio"}
    /\ pc \in ClientPC
    /\ tries \in Nat /\ armed \in BOOLEAN /\ sends \in Nat /\ missed \in BOOLEAN
    /\ requests \in 0..InFlight /\ replies \in 0..InFlight /\ queue \in 0..InFlight
    /\ lost \in BOOLEAN
    /\ echoer \in ServerPC
    /\ sigio \in BOOLEAN /\ early \in BOOLEAN

UdpInit ==
    /\ clientVersion \in Clients /\ serverVersion \in Servers
    /\ pc = "start" /\ tries = 0 /\ armed = FALSE /\ sends = 0 /\ missed = FALSE
    /\ requests = 0 /\ replies = 0 /\ queue = 0 /\ lost = FALSE
    /\ echoer = IF serverVersion = "sigio" THEN "bound" ELSE "recv"
    /\ sigio = FALSE /\ early = FALSE

-----------------------------------------------------------------------------
(* The client.                                                             *)

(* sendto() and alarm(TIMEOUT_SECS), then recvfrom().  No alarm is set at  *)
(* the time of sendto(), and it may lose the datagram at once.  The plain  *)
(* client sets no alarm.                                                   *)
SendWord ==
    /\ sends' = sends + 1
    /\ \/ requests < InFlight /\ requests' = requests + 1 /\ UNCHANGED lost
       \/ lost' = TRUE /\ UNCHANGED requests
    /\ armed' = (clientVersion = "timeout")
    /\ pc' = "call"
    /\ UNCHANGED <<choice, missed, tries, replies, queue, service>>

(* Mutants of TryAgain: main() counts too; no alarm().                     *)
TryAgainCounting ==
    /\ pc = "eintr" /\ tries < MAXTRIES
    /\ sends' = sends + 1 /\ tries' = tries + 1
    /\ armed' = TRUE
    /\ pc' = "call"
    /\ UNCHANGED <<choice, missed, network, service>>
TryAgainNoAlarm ==
    /\ pc = "eintr" /\ tries < MAXTRIES
    /\ sends' = sends + 1
    /\ pc' = "call"
    /\ UNCHANGED <<choice, missed, tries, armed, network, service>>

FirstTry == pc = "start" /\ SendWord
TryAgain == pc = "eintr" /\ tries < MAXTRIES /\ SendWord

GiveUp ==
    /\ pc = "eintr" /\ tries >= MAXTRIES
    /\ pc' = "gaveup"
    /\ UNCHANGED <<choice, missed, tries, armed, sends, network, service>>

(* recvfrom() sleeps if there is nothing to receive.                       *)
Sleep ==
    /\ pc = "call" /\ replies = 0
    /\ pc' = "asleep"
    /\ UNCHANGED <<choice, missed, tries, armed, sends, network, service>>

(* Mutant of Receive: recvfrom() returns without a datagram.               *)
ReceiveNothing ==
    /\ pc \in {"call", "asleep"}
    /\ replies' = replies - 1
    /\ pc' = "got"
    /\ UNCHANGED <<choice, missed, tries, armed, sends, requests, queue, lost, service>>

Receive ==
    /\ pc \in {"call", "asleep"} /\ replies > 0
    /\ replies' = replies - 1
    /\ pc' = "got"
    /\ UNCHANGED <<choice, missed, tries, armed, sends, requests, queue, lost, service>>

(* alarm(0), if there was one.                                             *)
CancelAlarm ==
    /\ pc = "got"
    /\ armed' = FALSE
    /\ pc' = "done"
    /\ UNCHANGED <<choice, missed, tries, sends, network, service>>

(* SIGALRM.  Only a recvfrom() that is asleep fails with EINTR; when it    *)
(* has not begun, CatchAlarm() counts and nothing else happens.            *)
CatchAlarm ==
    /\ armed
    /\ tries' = tries + 1
    /\ armed' = FALSE
    /\ pc' = IF pc = "asleep" THEN "eintr" ELSE pc
    /\ missed' = (missed \/ pc = "call")
    /\ UNCHANGED <<choice, sends, network, service>>

-----------------------------------------------------------------------------
(* The servers.                                                            *)

(* recvfrom() and sendto(), in UDPEchoServer.c ...                         *)
Receives(from, to) ==
    /\ echoer = from /\ queue > 0
    /\ queue' = queue - 1
    /\ echoer' = to
    /\ UNCHANGED <<choice, sender, requests, replies, lost, sigio, early>>

Echoes(from, to) ==
    /\ echoer = from
    /\ \/ replies < InFlight /\ replies' = replies + 1 /\ UNCHANGED lost
       \/ lost' = TRUE /\ UNCHANGED replies
    /\ echoer' = to
    /\ UNCHANGED <<choice, sender, requests, queue, sigio, early>>

ServerReceives == Receives("recv", "send")
ServerEchoes == Echoes("send", "recv")

(* ... and in SIGIOHandler(), "as long as there is input".                 *)
SetAsync ==
    /\ echoer = "bound"
    /\ echoer' = "idle"
    /\ UNCHANGED <<choice, sender, network, sigio, early>>

SIGIOHandler ==
    /\ echoer = "idle" /\ sigio
    /\ echoer' = "handler"
    /\ sigio' = FALSE
    /\ UNCHANGED <<choice, sender, network, early>>

HandlerReceives == Receives("handler", "reply")

(* Mutant of HandlerEchoes: the handler serves one datagram and returns.   *)
HandlerEchoesOnce == Echoes("reply", "idle")

HandlerEchoes == Echoes("reply", "handler")

(* EWOULDBLOCK: "nothing left to receive".                                 *)
HandlerReturns ==
    /\ echoer = "handler" /\ queue = 0
    /\ echoer' = "idle"
    /\ early' = FALSE
    /\ UNCHANGED <<choice, sender, network, sigio>>

ServerStops ==
    /\ ServerMayStop
    /\ echoer' = "stopped"
    /\ UNCHANGED <<choice, sender, network, sigio, early>>

-----------------------------------------------------------------------------
(* The network.                                                            *)

(* A datagram reaches the server's socket.  SIGIO is raised from FASYNC on.*)
Arrive ==
    /\ requests > 0 /\ queue < InFlight
    /\ requests' = requests - 1
    /\ queue' = queue + 1
    /\ sigio' = (sigio \/ (serverVersion = "sigio" /\ echoer # "bound"))
    /\ early' = (early \/ echoer = "bound")
    /\ UNCHANGED <<choice, sender, replies, lost, echoer>>

Lose ==
    /\ \/ requests > 0 /\ requests' = requests - 1 /\ UNCHANGED replies
       \/ replies > 0 /\ replies' = replies - 1 /\ UNCHANGED requests
    /\ lost' = TRUE
    /\ UNCHANGED <<choice, sender, queue, service>>

Duplicate ==
    /\ \/ requests \in 1..(InFlight - 1) /\ requests' = requests + 1 /\ UNCHANGED replies
       \/ replies \in 1..(InFlight - 1) /\ replies' = replies + 1 /\ UNCHANGED requests
    /\ UNCHANGED <<choice, sender, queue, lost, service>>

-----------------------------------------------------------------------------
Sender == FirstTry \/ TryAgain \/ GiveUp \/ Sleep \/ Receive \/ CancelAlarm
Echoer == \/ ServerReceives \/ ServerEchoes
          \/ SetAsync \/ SIGIOHandler \/ HandlerReceives \/ HandlerEchoes \/ HandlerReturns
Network == Arrive \/ Lose \/ Duplicate

UdpNext == Sender \/ CatchAlarm \/ Echoer \/ ServerStops \/ Network

UdpSpec == UdpInit /\ [][UdpNext]_udpVars

(* Client and server run when they can, an alarm goes off, and what is not *)
(* lost arrives.  The server may stop and the network lose everything.     *)
UdpFairSpec ==
    /\ UdpSpec
    /\ WF_udpVars(Sender) /\ WF_udpVars(CatchAlarm)
    /\ WF_udpVars(Echoer) /\ WF_udpVars(Arrive)

-----------------------------------------------------------------------------
(* Properties.                                                             *)

(* Each sendto() has one alarm: counted, pending, or cancelled at the end. *)
(* So tries, which the main program reads and the handler writes, counts   *)
(* the words sent and not answered in time.                                *)
AlarmPerTry ==
    clientVersion = "timeout" =>
        IF pc = "done" THEN tries \in {sends - 1, sends}
        ELSE sends = tries + (IF armed THEN 1 ELSE 0)

(* "Tries before giving up": never more, and no fewer before giving up.    *)
TriesBounded == sends <= MAXTRIES /\ (pc = "gaveup" => sends = MAXTRIES)

(* The promise rests on tries, shared with the handler, counting words.    *)
TriesCountWords == AlarmPerTry /\ TriesBounded

(* UDPEchoServer-SIGIO.c: although several SIGIOs may come as one, and one *)
(* may come for a datagram that is already echoed, the server never goes   *)
(* back to its work with a datagram in the socket and no SIGIO to come -   *)
(* but for a datagram that came before FASYNC, until another one follows.  *)
HandlerDrains == echoer = "idle" /\ queue > 0 /\ ~sigio => early

(* The client with the timeout ends, whatever network and server do, if no *)
(* alarm comes in the moment between alarm() and recvfrom().  The plain one*)
(* ends if nothing is lost, the server stays, and does not leave its word  *)
(* in the socket since before FASYNC.                                      *)
EndsUnlessMissed ==
    /\ clientVersion = "timeout" => <>(pc \in {"done", "gaveup"} \/ missed)
    /\ clientVersion = "plain" => \/ <>(pc = "done" \/ lost \/ echoer = "stopped")
                                  \/ <>[]early

=============================================================================
