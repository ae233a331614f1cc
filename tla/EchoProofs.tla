----------------------------- MODULE EchoProofs -----------------------------
(***************************************************************************)
(* Theorems about EchoStream, for any number of clients and processes, any *)
(* words and any sizes of the buffers; and about EchoTimeout, for any      *)
(* number of tries and whatever the network, the server and the timing of  *)
(* the alarm do.                                                           *)
(***************************************************************************)
EXTENDS EchoStream, EchoTimeout, TLAPS

(* The first process is there in every version.                            *)
LEMMA First == 1 \in Process
BY SizeAssumption DEF Process

-----------------------------------------------------------------------------
(* What a process that ends does to a connection: it cuts those it serves, *)
(* and possibly those nobody has accepted, and leaves the others alone.    *)
Cuts(c) == handler[c] # "none" /\ cut'[c] = TRUE /\ handler'[c] = "closed"
Leaves(c) == cut'[c] = cut[c] /\ handler'[c] = handler[c]

(* A process that ends cuts the connections it serves, and no others.      *)
LEMMA EndsCuts ==
    ASSUME TypeOK, NEW i \in Process, Ends(i)
    PROVE  /\ process' = [process EXCEPT ![i] = "dead"]
           /\ cut' \in [Client -> BOOLEAN]
           /\ handler' \in [Client -> {"none", "pending", "thread", "recv", "send", "closed"}]
           /\ \A c \in Client :
                 \/ /\ Cuts(c)
                    /\ (Active(c) /\ servedBy[c] = i) \/ \A j \in Process \ {i} : process[j] = "dead"
                 \/ Leaves(c) /\ ~(Active(c) /\ servedBy[c] = i)
<1> DEFINE severed(c) == \/ servedBy[c] = i /\ handler[c] \in {"thread", "recv", "send"}
                         \/ Pending(c) /\ \A j \in Process \ {i} : process[j] = "dead"
<1>1. /\ process' = [process EXCEPT ![i] = "dead"]
      /\ cut' = [c \in Client |-> cut[c] \/ severed(c)]
      /\ handler' = [c \in Client |-> IF severed(c) THEN "closed" ELSE handler[c]]
  BY DEF Ends
<1>2. \A c \in Client : cut[c] \in BOOLEAN
  BY DEF TypeOK
<1>3. ASSUME NEW c \in Client, severed(c)
      PROVE  /\ Cuts(c)
             /\ (Active(c) /\ servedBy[c] = i) \/ \A j \in Process \ {i} : process[j] = "dead"
  <2>1. handler[c] # "none"
    BY <1>3 DEF Pending
  <2>2. cut'[c] = TRUE
    BY <1>1, <1>3, Zenon
  <2>3. handler'[c] = "closed"
    BY <1>1, <1>3, Zenon
  <2>4. (Active(c) /\ servedBy[c] = i) \/ \A j \in Process \ {i} : process[j] = "dead"
    BY <1>3 DEF Active
  <2> QED BY <2>1, <2>2, <2>3, <2>4 DEF Cuts
<1>4. ASSUME NEW c \in Client, ~severed(c) PROVE Leaves(c) /\ ~(Active(c) /\ servedBy[c] = i)
  <2>1. cut'[c] = cut[c]
    <3>1. cut'[c] = (cut[c] \/ severed(c))
      BY <1>1, Zenon
    <3> HIDE DEF severed
    <3> QED BY <3>1, <1>2, <1>4
  <2>2. handler'[c] = handler[c]
    BY <1>1, <1>4, Zenon
  <2>3. ~(Active(c) /\ servedBy[c] = i)
    BY <1>4 DEF Active
  <2> QED BY <2>1, <2>2, <2>3 DEF Leaves
<1>5. cut' \in [Client -> BOOLEAN]
  <2> HIDE DEF severed
  <2> QED BY <1>1, <1>2
<1>6. handler' \in [Client -> {"none", "pending", "thread", "recv", "send", "closed"}]
  <2> HIDE DEF severed
  <2> QED BY <1>1 DEF TypeOK
<1> HIDE DEF severed
<1> QED BY <1>1, <1>3, <1>4, <1>5, <1>6

(* The same for the parent of ForkN that goes with the listening socket.   *)
LEMMA ForkFailsCuts ==
    ASSUME TypeOK, ForkFails
    PROVE  /\ process' = [i \in Process |-> IF process[i] = "unborn" THEN "dead" ELSE process[i]]
           /\ cut' \in [Client -> BOOLEAN]
           /\ handler' \in [Client -> {"none", "pending", "thread", "recv", "send", "closed"}]
           /\ \A c \in Client : (Cuts(c) /\ ~Listening) \/ Leaves(c)
<1> DEFINE severed(c) == Pending(c) /\ ~Listening
<1>1. /\ process' = [i \in Process |-> IF process[i] = "unborn" THEN "dead" ELSE process[i]]
      /\ cut' = [c \in Client |-> cut[c] \/ severed(c)]
      /\ handler' = [c \in Client |-> IF severed(c) THEN "closed" ELSE handler[c]]
  BY DEF ForkFails
<1>2. \A c \in Client : cut[c] \in BOOLEAN
  BY DEF TypeOK
<1>3. ASSUME NEW c \in Client, severed(c) PROVE Cuts(c) /\ ~Listening
  <2>1. handler[c] # "none"
    BY <1>3 DEF Pending
  <2>2. cut'[c] = TRUE
    BY <1>1, <1>3, Zenon
  <2>3. handler'[c] = "closed"
    BY <1>1, <1>3, Zenon
  <2> QED BY <1>3, <2>1, <2>2, <2>3 DEF Cuts
<1>4. ASSUME NEW c \in Client, ~severed(c) PROVE Leaves(c)
  <2>1. cut'[c] = (cut[c] \/ severed(c))
    BY <1>1, Zenon
  <2>2. handler'[c] = handler[c]
    BY <1>1, <1>4, Zenon
  <2> HIDE DEF severed
  <2> QED BY <2>1, <2>2, <1>2, <1>4 DEF Leaves
<1> HIDE DEF severed
<1> QED BY <1>1, <1>2, <1>3, <1>4 DEF TypeOK

-----------------------------------------------------------------------------
(* Every step of clients, network, handlers and servers keeps the types.   *)
LEMMA TypePreserved == TypeOK /\ (\A c \in Client : Serving(c)) /\ [Next]_vars => TypeOK'
<1> SUFFICES ASSUME TypeOK, \A c \in Client : Serving(c), [Next]_vars PROVE TypeOK'
  OBVIOUS
<1> USE SizeAssumption, First DEF counts, server
<1>1. CASE UNCHANGED vars
  BY <1>1 DEF vars, TypeOK
<1>2. ASSUME NEW c \in Client, ClientSend(c) PROVE TypeOK'
  BY <1>2 DEF ClientSend, TypeOK
<1>3. ASSUME NEW c \in Client, ClientRecv(c) PROVE TypeOK'
  BY <1>3 DEF ClientRecv, TypeOK
<1>4. ASSUME NEW c \in Client,
             Connect(c) \/ ClientCloses(c) \/ ClientDies(c) \/ KillClient(c) \/ ResetArrives(c)
      PROVE  TypeOK'
  BY <1>4 DEF Connect, ClientCloses, ClientDies, KillClient, ResetArrives, TypeOK
<1>5. ASSUME NEW c \in Client, HandlerRecv(c) PROVE TypeOK'
  BY <1>5 DEF HandlerRecv, TypeOK
<1>6. ASSUME NEW c \in Client, HandlerSend(c) PROVE TypeOK'
  BY <1>6 DEF HandlerSend, TypeOK
<1>7. ASSUME NEW c \in Client, HandlerCloses(c) PROVE TypeOK'
  BY <1>7 DEF HandlerCloses, NextJob, TypeOK
<1>8. ASSUME NEW c \in Client, NEW i \in Process, AcceptTCPConnection(i, c) PROVE TypeOK'
  BY <1>8 DEF AcceptTCPConnection, Accept, TypeOK
<1>9. ASSUME NEW c \in Client, ServePort(c) PROVE TypeOK'
  BY <1>9 DEF ServePort, Accept, TypeOK
<1>10. ASSUME NEW c \in Client, CreateThread(c) PROVE TypeOK'
  BY <1>10 DEF CreateThread, TypeOK
<1>11. ASSUME NEW i \in Process, ForkChild(i) PROVE TypeOK'
  BY <1>11 DEF ForkChild, TypeOK
<1>12. CASE SelectReturns
  <2>1. ready' \subseteq {Port[c] : c \in Client}
    BY <1>12 DEF SelectReturns
  <2>2. running' \in BOOLEAN /\ key' \in BOOLEAN
    BY <1>12, Zenon DEF SelectReturns
  <2>3. process' = [process EXCEPT ![1] = "round"]
        /\ UNCHANGED <<version, echoStringLen, client, counts, fin, handler, cut, servedBy>>
    BY <1>12 DEF SelectReturns
  <2> QED BY <2>1, <2>2, <2>3 DEF TypeOK
<1>13. CASE HitReturn
  BY <1>13 DEF HitReturn, TypeOK
<1>14. ASSUME NEW i \in Process, Ends(i),
              UNCHANGED <<version, echoStringLen, client, counts, fin, servedBy, ready, running, key>>
       PROVE  TypeOK'
  BY <1>14, EndsCuts DEF TypeOK
<1>15. CASE ForkFails
  <2>1. UNCHANGED <<version, echoStringLen, client, counts, fin, servedBy, ready, running, key>>
    BY <1>15 DEF ForkFails
  <2> QED BY <1>15, <2>1, ForkFailsCuts DEF TypeOK
<1>16. ASSUME NEW c \in Client, HandlerDies(c) PROVE TypeOK'
  BY <1>14, <1>16 DEF HandlerDies, Serving, Active
<1>17. CASE CreateThreadFails
  BY <1>14, <1>17 DEF CreateThreadFails
<1>18. CASE RoundEnds
  BY <1>14, <1>18 DEF RoundEnds, TypeOK
<1>19. ASSUME NEW c \in Client,
              Connect(c) \/ ClientStep(c) \/ KillClient(c) \/ HandleTCPClient(c) \/ ResetArrives(c)
       PROVE  TypeOK'
  BY <1>2, <1>3, <1>4, <1>5, <1>6, <1>7, <1>16, <1>19 DEF ClientStep, HandleTCPClient
<1>20. ASSUME NEW i \in Process, ServerStep(i) PROVE TypeOK'
  BY <1>8, <1>9, <1>10, <1>11, <1>12, <1>17, <1>18, <1>20 DEF ServerStep
<1> QED BY <1>1, <1>13, <1>15, <1>19, <1>20 DEF Next

-----------------------------------------------------------------------------
(* A connection of which nothing, or only the server's end, has changed.   *)
SameEnds(c) ==
    /\ echoStringLen'[c] = echoStringLen[c] /\ client'[c] = client[c] /\ fin'[c] = fin[c]
    /\ sent'[c] = sent[c] /\ taken'[c] = taken[c] /\ echoed'[c] = echoed[c] /\ got'[c] = got[c]

(* A connection that is cut or left alone keeps its accounts.              *)
LEMMA SameBytes ==
    ASSUME NEW c \in Client, Bytes(c), SameEnds(c), Cuts(c) \/ Leaves(c)
    PROVE  Bytes(c)'
<1>1. CASE Leaves(c)
  BY <1>1 DEF Bytes, SameEnds, Leaves
<1>2. CASE Cuts(c)
  BY <1>2 DEF Bytes, SameEnds, Cuts
<1> QED BY <1>1, <1>2

(* Bytes pass through a connection in order and within its buffers, and    *)
(* its two ends close in an order that loses none.                         *)
LEMMA BytesStep == Inv /\ [Next]_vars => \A c \in Client : Bytes(c)'
<1> SUFFICES ASSUME Inv, [Next]_vars, NEW c \in Client PROVE Bytes(c)'
  OBVIOUS
<1>1. TypeOK /\ Bytes(c) /\ (\A d \in Client : Serving(d))
  BY DEF Inv
<1>2. /\ sent[c] \in Nat /\ taken[c] \in Nat /\ echoed[c] \in Nat /\ got[c] \in Nat
      /\ echoStringLen[c] \in Nat
      /\ SOCKBUF \in Nat /\ RCVBUFSIZE \in Nat
  BY <1>1, SizeAssumption DEF TypeOK
<1> USE <1>2 DEF counts, server
<1>3. ASSUME SameEnds(c), Leaves(c) PROVE Bytes(c)'
  BY <1>1, <1>3, SameBytes
<1>4. CASE UNCHANGED vars
  BY <1>3, <1>4 DEF vars, SameEnds, Leaves
<1>5. ASSUME NEW d \in Client, Connect(d) PROVE Bytes(c)'
  <2>1. CASE d = c
    BY <1>1, <1>5, <2>1 DEF Connect, Bytes, TypeOK
  <2>2. CASE d # c
    BY <1>1, <1>3, <1>5, <2>2 DEF Connect, SameEnds, Leaves, TypeOK
  <2> QED BY <2>1, <2>2
<1>6. ASSUME NEW d \in Client, ClientSend(d) PROVE Bytes(c)'
  <2>1. CASE d = c
    BY <1>1, <1>6, <2>1 DEF ClientSend, Bytes, TypeOK
  <2>2. CASE d # c
    BY <1>1, <1>3, <1>6, <2>2 DEF ClientSend, SameEnds, Leaves, TypeOK
  <2> QED BY <2>1, <2>2
<1>7. ASSUME NEW d \in Client, ClientRecv(d) PROVE Bytes(c)'
  <2>1. CASE d = c
    BY <1>1, <1>7, <2>1 DEF ClientRecv, Bytes, TypeOK
  <2>2. CASE d # c
    BY <1>1, <1>3, <1>7, <2>2 DEF ClientRecv, SameEnds, Leaves, TypeOK
  <2> QED BY <2>1, <2>2
<1>8. ASSUME NEW d \in Client, ClientCloses(d) \/ ClientDies(d) \/ KillClient(d) \/ ResetArrives(d)
      PROVE  Bytes(c)'
  <2>1. CASE d = c
    BY <1>1, <1>8, <2>1 DEF ClientCloses, ClientDies, KillClient, ResetArrives, Bytes, TypeOK
  <2>2. CASE d # c
    BY <1>1, <1>3, <1>8, <2>2
       DEF ClientCloses, ClientDies, KillClient, ResetArrives, SameEnds, Leaves, TypeOK
  <2> QED BY <2>1, <2>2
<1>9. ASSUME NEW d \in Client, HandlerRecv(d) PROVE Bytes(c)'
  <2>1. CASE d = c
    BY <1>1, <1>9, <2>1 DEF HandlerRecv, Bytes, TypeOK
  <2>2. CASE d # c
    BY <1>1, <1>3, <1>9, <2>2 DEF HandlerRecv, SameEnds, Leaves, TypeOK
  <2> QED BY <2>1, <2>2
<1>10. ASSUME NEW d \in Client, HandlerSend(d) PROVE Bytes(c)'
  <2>1. CASE d = c
    BY <1>1, <1>10, <2>1 DEF HandlerSend, Bytes, TypeOK
  <2>2. CASE d # c
    BY <1>1, <1>3, <1>10, <2>2 DEF HandlerSend, SameEnds, Leaves, TypeOK
  <2> QED BY <2>1, <2>2
<1>11. ASSUME NEW d \in Client, HandlerCloses(d) PROVE Bytes(c)'
  <2>1. CASE d = c
    BY <1>1, <1>11, <2>1 DEF HandlerCloses, Bytes, TypeOK
  <2>2. CASE d # c
    BY <1>1, <1>3, <1>11, <2>2 DEF HandlerCloses, SameEnds, Leaves, TypeOK
  <2> QED BY <2>1, <2>2
<1>12. ASSUME NEW d \in Client, NEW i \in Process, Accept(i, d) PROVE Bytes(c)'
  <2>1. CASE d = c
    BY <1>1, <1>12, <2>1 DEF Accept, Pending, Bytes, TypeOK
  <2>2. CASE d # c
    BY <1>1, <1>3, <1>12, <2>2 DEF Accept, SameEnds, Leaves, TypeOK
  <2> QED BY <2>1, <2>2
<1>13. ASSUME NEW d \in Client, CreateThread(d) PROVE Bytes(c)'
  <2>1. CASE d = c
    BY <1>1, <1>13, <2>1 DEF CreateThread, Bytes, TypeOK
  <2>2. CASE d # c
    BY <1>1, <1>3, <1>13, <2>2 DEF CreateThread, SameEnds, Leaves, TypeOK
  <2> QED BY <2>1, <2>2
<1>14. ASSUME NEW i \in Process, Ends(i), UNCHANGED <<echoStringLen, client, counts, fin>>
       PROVE  Bytes(c)'
  <2>1. Cuts(c) \/ Leaves(c)
    BY <1>1, <1>14, EndsCuts
  <2>2. SameEnds(c)
    BY <1>14 DEF SameEnds
  <2> QED BY <1>1, <2>1, <2>2, SameBytes
<1>15. CASE ForkFails
  <2>1. Cuts(c) \/ Leaves(c)
    BY <1>1, <1>15, ForkFailsCuts
  <2>2. SameEnds(c)
    BY <1>15 DEF ForkFails, SameEnds
  <2> QED BY <1>1, <2>1, <2>2, SameBytes
<1>16. ASSUME NEW d \in Client, HandlerDies(d) PROVE Bytes(c)'
  <2>1. servedBy[d] \in Process
    BY <1>1, <1>16 DEF HandlerDies, Serving, Active
  <2> QED BY <1>14, <1>16, <2>1 DEF HandlerDies
<1>17. CASE CreateThreadFails
  BY <1>14, <1>17, First DEF CreateThreadFails
<1>18. CASE RoundEnds
  <2>1. CASE running
    BY <1>3, <1>18, <2>1 DEF RoundEnds, SameEnds, Leaves
  <2>2. CASE ~running
    BY <1>14, <1>18, <2>2, First DEF RoundEnds
  <2> QED BY <2>1, <2>2
<1>19. ASSUME SelectReturns \/ HitReturn \/ \E i \in Process : ForkChild(i)
       PROVE  Bytes(c)'
  BY <1>3, <1>19 DEF SelectReturns, HitReturn, ForkChild, SameEnds, Leaves
<1>20. ASSUME NEW d \in Client,
              Connect(d) \/ ClientStep(d) \/ KillClient(d) \/ HandleTCPClient(d) \/ ResetArrives(d)
       PROVE  Bytes(c)'
  BY <1>5, <1>6, <1>7, <1>8, <1>9, <1>10, <1>11, <1>16, <1>20 DEF ClientStep, HandleTCPClient
<1>21. ASSUME NEW i \in Process, ServerStep(i) PROVE Bytes(c)'
  BY <1>12, <1>13, <1>17, <1>18, <1>19, <1>21, First
     DEF ServerStep, AcceptTCPConnection, ServePort
<1> QED BY <1>4, <1>15, <1>19, <1>20, <1>21 DEF Next

-----------------------------------------------------------------------------
(* Nobody begins to serve a connection, nor leaves the one it serves.      *)
KeepsServing ==
    /\ version' = version /\ servedBy' = servedBy
    /\ \A d \in Client : Active(d)' => /\ Active(d)
                                       /\ handler'[d] = "thread" => handler[d] = "thread"
                                       /\ process[servedBy[d]] = "serve" => process'[servedBy[d]] = "serve"

(* Handlers that stay with their processes stay one for each.              *)
LEMMA ServingKept ==
    ASSUME \A c \in Client : Serving(c), OneEach, KeepsServing
    PROVE  (\A c \in Client : Serving(c)') /\ OneEach'
<1>1. \A c \in Client : Serving(c)'
  BY DEF Serving, KeepsServing
<1>2. OneEach'
  BY DEF OneEach, KeepsServing
<1> QED BY <1>1, <1>2

(* A process takes a connection when it has none, and may take the next    *)
(* when it has closed it, or when a thread of its own serves it.           *)
LEMMA ServingStep == Inv /\ [Next]_vars => (\A c \in Client : Serving(c)') /\ OneEach'
<1> DEFINE Goal == (\A c \in Client : Serving(c)') /\ OneEach'
<1> SUFFICES ASSUME Inv, [Next]_vars PROVE Goal
  OBVIOUS
<1>1. TypeOK /\ (\A c \in Client : Serving(c)) /\ OneEach
  BY DEF Inv
<1> USE DEF counts, server
<1>2. ASSUME KeepsServing PROVE Goal
  BY <1>1, <1>2, ServingKept
<1> HIDE DEF Goal
<1>3. CASE UNCHANGED vars
  BY <1>2, <1>3 DEF vars, KeepsServing, Active
<1>4. ASSUME NEW c \in Client,
             Connect(c) \/ ClientStep(c) \/ KillClient(c) \/ ResetArrives(c)
      PROVE  Goal
  BY <1>1, <1>2, <1>4 DEF Connect, ClientStep, ClientSend, ClientRecv, ClientCloses, ClientDies,
                          KillClient, ResetArrives, KeepsServing, Active, TypeOK
<1>5. ASSUME NEW c \in Client, HandlerRecv(c) \/ HandlerSend(c) PROVE Goal
  BY <1>1, <1>2, <1>5 DEF HandlerRecv, HandlerSend, KeepsServing, Active, TypeOK
<1>6. ASSUME NEW c \in Client, HandlerCloses(c) PROVE Goal
  <2>1. version # "Thread" =>
          \A d \in Client : d # c /\ servedBy[d] = servedBy[c] => ~Active(d)
    BY <1>1, <1>6 DEF HandlerCloses, OneEach, Active
  <2>2. ASSUME NEW d \in Client, Active(d)' PROVE Active(d) /\ d # c /\ handler'[d] = handler[d]
    BY <1>1, <1>6, <2>2 DEF HandlerCloses, Active, TypeOK
  <2>3. version' = version /\ servedBy' = servedBy
    BY <1>6 DEF HandlerCloses
  <2>4. CASE version = "Thread"
    <3>1. process' = process
      BY <1>6, <2>4 DEF HandlerCloses
    <3>2. KeepsServing
      BY <2>2, <2>3, <3>1 DEF KeepsServing
    <3> QED BY <1>2, <3>2
  <2>5. CASE version # "Thread"
    <3>1. process' = [process EXCEPT ![servedBy[c]] = NextJob]
      BY <1>6, <2>5 DEF HandlerCloses
    <3>2. ASSUME NEW d \in Client, Active(d)' PROVE process'[servedBy[d]] = process[servedBy[d]]
      <4>1. servedBy[d] # servedBy[c] /\ servedBy[d] \in Process
        BY <1>1, <2>1, <2>2, <2>5, <3>2 DEF Serving
      <4> QED BY <1>1, <3>1, <4>1 DEF TypeOK
    <3>3. KeepsServing
      BY <2>2, <2>3, <3>2 DEF KeepsServing
    <3> QED BY <1>2, <3>3
  <2> QED BY <2>4, <2>5
<1>7. ASSUME NEW c \in Client, NEW i \in Process, Accept(i, c), process[i] # "serve" PROVE Goal
  <2>1. /\ version' = version
        /\ servedBy' = [servedBy EXCEPT ![c] = i]
        /\ handler' = [handler EXCEPT ![c] = IF version = "Thread" THEN "thread" ELSE "recv"]
        /\ process' = [process EXCEPT ![i] = IF version = "Thread" THEN "create" ELSE "serve"]
    BY <1>7 DEF Accept
  <2>2. version # "Thread" => \A d \in Client : Active(d) => servedBy[d] # i
    BY <1>1, <1>7 DEF Serving
  <2>3. ASSUME NEW d \in Client, d # c
        PROVE  servedBy'[d] = servedBy[d] /\ handler'[d] = handler[d]
    BY <1>1, <2>1, <2>3 DEF TypeOK
  <2>4. servedBy'[c] = i
    BY <1>1, <2>1 DEF TypeOK
  <2>5. ASSUME NEW d \in Client, d # c PROVE Serving(d)'
    BY <1>1, <2>1, <2>2, <2>3, <2>5 DEF Serving, Active, TypeOK
  <2>6. Serving(c)'
    BY <1>1, <2>1, <2>4 DEF Serving, Active, TypeOK
  <2>7. OneEach'
    BY <1>1, <2>1, <2>2, <2>3, <2>4 DEF OneEach, Active
  <2> QED BY <2>5, <2>6, <2>7 DEF Goal
<1>8. ASSUME NEW c \in Client, CreateThread(c) PROVE Goal
  <2>1. version = "Thread" /\ version' = version /\ servedBy' = servedBy
    BY <1>1, <1>8 DEF CreateThread, Serving, Active
  <2>2. ASSUME NEW d \in Client, Active(d)' PROVE Active(d)
    BY <1>1, <1>8, <2>2 DEF CreateThread, Active, TypeOK
  <2> QED BY <1>1, <2>1, <2>2 DEF Goal, Serving, OneEach
<1>9. ASSUME NEW i \in Process, Ends(i), version' = version, servedBy' = servedBy PROVE Goal
  <2>1. ASSUME NEW d \in Client, Active(d)'
        PROVE  Active(d) /\ handler'[d] = handler[d] /\ process'[servedBy[d]] = process[servedBy[d]]
    <3>1. Leaves(d) /\ ~(Active(d) /\ servedBy[d] = i)
      BY <1>1, <1>9, <2>1, EndsCuts DEF Cuts, Active
    <3>2. Active(d) /\ handler'[d] = handler[d]
      BY <2>1, <3>1 DEF Leaves, Active
    <3>3. servedBy[d] \in Process /\ servedBy[d] # i
      BY <1>1, <3>1, <3>2 DEF Serving
    <3>4. process' = [process EXCEPT ![i] = "dead"]
      BY <1>1, <1>9, EndsCuts
    <3> QED BY <1>1, <3>2, <3>3, <3>4 DEF TypeOK
  <2>2. KeepsServing
    BY <1>9, <2>1 DEF KeepsServing
  <2> QED BY <1>2, <2>2
<1>10. CASE ForkFails
  <2>1. ASSUME NEW d \in Client, Active(d)' PROVE Active(d) /\ handler'[d] = handler[d]
    BY <1>1, <1>10, <2>1, ForkFailsCuts DEF Cuts, Leaves, Active
  <2>2. version' = version /\ servedBy' = servedBy
    BY <1>10 DEF ForkFails
  <2>3. ASSUME NEW d \in Client, Active(d) PROVE servedBy[d] \in Process
    BY <1>1, <2>3 DEF Serving
  <2>4. \A j \in Process : process[j] = "serve" => process'[j] = "serve"
    BY <1>1, <1>10, ForkFailsCuts
  <2>5. KeepsServing
    BY <2>1, <2>2, <2>3, <2>4 DEF KeepsServing
  <2> QED BY <1>2, <2>5
<1>11. ASSUME NEW c \in Client, HandlerDies(c) PROVE Goal
  <2>1. servedBy[c] \in Process
    BY <1>1, <1>11 DEF HandlerDies, Serving, Active
  <2> QED BY <1>9, <1>11, <2>1 DEF HandlerDies
<1>12. CASE CreateThreadFails
  BY <1>9, <1>12, First DEF CreateThreadFails
<1>13. ASSUME NEW i \in Process, ForkChild(i) PROVE Goal
  BY <1>1, <1>2, <1>13 DEF ForkChild, KeepsServing, Active, TypeOK
<1>14. CASE SelectReturns
  <2>1. /\ process[1] = "select" /\ process' = [process EXCEPT ![1] = "round"]
        /\ UNCHANGED <<version, handler, servedBy>>
    BY <1>14 DEF SelectReturns
  <2>2. KeepsServing
    BY <1>1, <2>1, First DEF KeepsServing, Active, TypeOK
  <2> QED BY <1>2, <2>2
<1>15. CASE RoundEnds
  <2>1. CASE running
    <3>1. /\ process[1] = "round" /\ process' = [process EXCEPT ![1] = "select"]
          /\ UNCHANGED <<version, handler, servedBy>>
      BY <1>15, <2>1 DEF RoundEnds
    <3>2. KeepsServing
      BY <1>1, <3>1, First DEF KeepsServing, Active, TypeOK
    <3> QED BY <1>2, <3>2
  <2>2. CASE ~running
    BY <1>9, <1>15, <2>2, First DEF RoundEnds
  <2> QED BY <2>1, <2>2
<1>16. CASE HitReturn
  BY <1>2, <1>16 DEF HitReturn, KeepsServing, Active
<1>17. ASSUME NEW c \in Client, HandleTCPClient(c) PROVE Goal
  BY <1>5, <1>6, <1>11, <1>17 DEF HandleTCPClient
<1>18. ASSUME NEW i \in Process, ServerStep(i) PROVE Goal
  <2>1. ASSUME NEW c \in Client, AcceptTCPConnection(i, c) PROVE Goal
    BY <1>7, <2>1 DEF AcceptTCPConnection
  <2>2. ASSUME NEW c \in Client, ServePort(c) PROVE Goal
    BY <1>7, <2>2, First DEF ServePort
  <2> QED BY <1>8, <1>12, <1>13, <1>14, <1>15, <1>18, <2>1, <2>2 DEF ServerStep
<1> QED BY <1>3, <1>4, <1>10, <1>16, <1>17, <1>18 DEF Next

-----------------------------------------------------------------------------
(* At first nothing is connected, and no byte sent.                        *)
LEMMA InitInv == Init => Inv
<1> SUFFICES ASSUME Init PROVE Inv
  OBVIOUS
<1>1. TypeOK
  <2>1. version \in {"Iterative", "ForkN", "Thread", "Select"}
        /\ echoStringLen \in [Client -> Words]
    BY VersionAssumption DEF Init
  <2>2. /\ sent \in [Client -> Nat] /\ taken \in [Client -> Nat]
        /\ echoed \in [Client -> Nat] /\ got \in [Client -> Nat]
    BY DEF Init
  <2>3. /\ client \in [Client -> {"idle", "send", "recv", "done", "failed", "killed"}]
        /\ fin \in [Client -> {"open", "fin", "late", "rst"}]
        /\ handler \in [Client -> {"none", "pending", "thread", "recv", "send", "closed"}]
        /\ cut \in [Client -> BOOLEAN]
        /\ servedBy \in [Client -> Process \cup {0}]
    BY DEF Init
  <2>4. process \in [Process -> {"unborn", "accept", "create", "serve", "select", "round", "dead"}]
    BY DEF Init
  <2>5. ready \subseteq {Port[c] : c \in Client} /\ running \in BOOLEAN /\ key \in BOOLEAN
    BY Zenon DEF Init
  <2> QED BY <2>1, <2>2, <2>3, <2>4, <2>5 DEF TypeOK
<1>2. ASSUME NEW c \in Client PROVE Bytes(c)
  <2>1. sent[c] = 0 /\ taken[c] = 0 /\ echoed[c] = 0 /\ got[c] = 0
    BY DEF Init
  <2>2. client[c] = "idle" /\ handler[c] = "none" /\ fin[c] = "open" /\ cut[c] = FALSE
    BY DEF Init
  <2>3. echoStringLen[c] \in Nat /\ SOCKBUF \in Nat /\ RCVBUFSIZE \in Nat
    BY SizeAssumption DEF Init
  <2> QED BY <2>1, <2>2, <2>3 DEF Bytes
<1>3. \A c \in Client : ~Active(c)
  BY DEF Init, Active
<1> QED BY <1>1, <1>2, <1>3 DEF Inv, Serving, OneEach

(* What every step keeps of connections and of those who serve them.       *)
THEOREM Invariance == Spec => []Inv
<1>1. Inv /\ [Next]_vars => Inv'
  <2> SUFFICES ASSUME Inv, [Next]_vars PROVE Inv'
    OBVIOUS
  <2>1. TypeOK'
    BY TypePreserved DEF Inv
  <2> QED BY <2>1, BytesStep, ServingStep DEF Inv
<1> QED BY InitInv, <1>1, PTL DEF Spec

(* HandleTCPClient() echoes every byte in order, within the buffers, and   *)
(* closes a connection only when its client has closed it and has been     *)
(* echoed to the last byte; a client that ends has its whole word.         *)
THEOREM Whole == Spec => []StreamsWhole
<1>1. Inv => StreamsWhole
  <2> SUFFICES ASSUME Inv PROVE StreamsWhole
    OBVIOUS
  <2>1. TypeOK /\ OneEach /\ \A c \in Client : Bytes(c)
    BY DEF Inv
  <2> QED BY <2>1 DEF StreamsWhole, Bytes, OneEach, Active
<1> QED BY <1>1, Invariance, PTL

-----------------------------------------------------------------------------
(* Whatever the servers do, the connection of each client is a channel of  *)
(* limited capacity: the two kernel buffers and what the handler has.      *)
LEMMA RefineNext == Inv /\ [Next]_vars => [Channel!Next]_<<sent, got>>
<1> SUFFICES ASSUME Inv, Next, <<sent, got>>' # <<sent, got>>
             PROVE  Channel!Next
  BY DEF vars, counts
<1> USE DEF counts, server
<1>1. PICK c \in Client : ClientSend(c) \/ ClientRecv(c)
  BY DEF Next, ClientStep, HandleTCPClient, ServerStep, Connect, ClientCloses, ClientDies,
         KillClient, HandlerRecv, HandlerSend, HandlerCloses, HandlerDies, ResetArrives,
         AcceptTCPConnection, ServePort, Accept, CreateThread, CreateThreadFails, ForkChild,
         ForkFails, SelectReturns, RoundEnds, HitReturn
<1>2. /\ sent[c] \in Nat /\ taken[c] \in Nat /\ echoed[c] \in Nat /\ got[c] \in Nat
      /\ echoStringLen[c] \in Nat /\ SOCKBUF \in Nat /\ RCVBUFSIZE \in Nat
  BY SizeAssumption DEF Inv, TypeOK
<1>3. /\ got[c] <= echoed[c] /\ echoed[c] <= taken[c] /\ taken[c] <= sent[c]
      /\ echoed[c] - got[c] <= SOCKBUF /\ taken[c] - echoed[c] <= RCVBUFSIZE
  BY DEF Inv, Bytes
<1>4. CASE ClientSend(c)
  <2>1. PICK n \in 1..(echoStringLen[c] - sent[c]) :
           sent[c] + n - taken[c] <= SOCKBUF /\ sent' = [sent EXCEPT ![c] = @ + n]
    BY <1>4 DEF ClientSend
  (* The bytes on their way are in three places, each within its bound.    *)
  <2>2. n \in 1..(2 * SOCKBUF + RCVBUFSIZE + got[c] - sent[c])
    BY <1>2, <1>3, <2>1
  <2>3. got' = got
    BY <1>4 DEF ClientSend
  <2>4. Channel!Put(c)
    BY <2>1, <2>2, <2>3 DEF Channel!Put
  <2> QED BY <2>4 DEF Channel!Next
<1>5. CASE ClientRecv(c)
  <2>1. PICK n \in 1..(RCVBUFSIZE - 1) :
           n <= echoed[c] - got[c] /\ got' = [got EXCEPT ![c] = @ + n]
    BY <1>5 DEF ClientRecv
  <2>2. n \in 1..(sent[c] - got[c])
    BY <1>2, <1>3, <2>1
  <2>3. sent' = sent
    BY <1>5 DEF ClientRecv
  <2>4. Channel!Get(c)
    BY <2>1, <2>2, <2>3 DEF Channel!Get
  <2> QED BY <2>4 DEF Channel!Next
<1> QED BY <1>1, <1>4, <1>5

(* Each of the four servers implements the abstract echo channel.          *)
THEOREM ImplementsChannel == Spec => ChannelSpec
<1>1. Init => Channel!Init
  BY DEF Init, Channel!Init
<1> QED BY <1>1, RefineNext, Invariance, PTL DEF Spec, ChannelSpec, Channel!Spec

-----------------------------------------------------------------------------
(* Why processes end.                                                      *)

(* The end of a process remains explained when nobody dies or is accepted, *)
(* and a connection of a dead process is read no more.                     *)
LEMMA DeathsKept ==
    ASSUME DeathsExplained, UNCHANGED <<version, servedBy>>,
           version = "Select" /\ ~running => ~running',
           \A i \in Process : process'[i] = "dead" => process[i] = "dead",
           \A c \in Client : client[c] = "killed" /\ fin[c] = "rst" =>
                                client'[c] = "killed" /\ fin'[c] = "rst",
           \A c \in Client : servedBy[c] \in Process /\ process[servedBy[c]] = "dead" =>
                                taken'[c] = taken[c]
    PROVE  DeathsExplained'
<1> SUFFICES ASSUME NEW i \in Process, process'[i] = "dead"
             PROVE  \/ \A c \in Client : servedBy[c] # i
                    \/ \E c \in Client : servedBy[c] = i /\ client'[c] = "killed" /\ fin'[c] = "rst"
                    \/ version = "Thread" /\ \E c \in Client : servedBy[c] = i /\ taken'[c] = 0
                    \/ version = "Select" /\ ~running'
  BY DEF DeathsExplained
<1>1. process[i] = "dead"
  OBVIOUS
<1> QED BY <1>1 DEF DeathsExplained

(* A step of a client or of the network ends no process.                   *)
LEMMA ClientCauses ==
    ASSUME CauseInv, NEW c \in Client,
           Connect(c) \/ ClientStep(c) \/ KillClient(c) \/ ResetArrives(c)
    PROVE  (\A d \in Client : Causes(d)') /\ ProcessKinds' /\ DeathsExplained'
<1> USE DEF counts, server
<1>1. TypeOK /\ Bytes(c) /\ (\A d \in Client : Causes(d)) /\ ProcessKinds /\ DeathsExplained
  BY DEF CauseInv, Inv
<1>2. UNCHANGED <<version, process, servedBy, running, cut, taken>>
  BY DEF Connect, ClientStep, ClientSend, ClientRecv, ClientCloses, ClientDies, KillClient, ResetArrives
<1>3. \A d \in Client \ {c} : client'[d] = client[d] /\ fin'[d] = fin[d] /\ handler'[d] = handler[d]
  BY <1>1 DEF Connect, ClientStep, ClientSend, ClientRecv, ClientCloses, ClientDies, KillClient,
              ResetArrives, TypeOK
<1>4. \A d \in Client \ {c} : Causes(d)'
  BY <1>1, <1>2, <1>3 DEF Causes, Active
<1> DEFINE Own == /\ Causes(c)'
                  /\ client[c] = "killed" /\ fin[c] = "rst" =>
                         client'[c] = "killed" /\ fin'[c] = "rst"
                  /\ handler[c] = "thread" => handler'[c] = "thread"
<1>5. ASSUME Connect(c) PROVE Own
  <2>1. handler[c] = "none" /\ handler'[c] = "pending" /\ client[c] = "idle"
        /\ client'[c] \in {"send", "recv"} /\ fin' = fin
    BY <1>1, <1>5 DEF Connect, Bytes, TypeOK
  <2>2. cut'[c] = FALSE /\ servedBy'[c] = 0
    BY <1>1, <1>2, <2>1 DEF Bytes, Causes, TypeOK
  <2>3. Causes(c)'
    BY <1>1, <1>2, <2>1, <2>2 DEF Causes, Active
  <2> QED BY <2>1, <2>3
<1>6. ASSUME ClientSend(c) \/ ClientRecv(c) PROVE Own
  <2>1. UNCHANGED <<handler, fin>> /\ client[c] \in {"send", "recv"} /\ client'[c] \in {"send", "recv"}
    BY <1>1, <1>6 DEF ClientSend, ClientRecv, TypeOK
  <2> QED BY <1>1, <1>2, <2>1 DEF Causes, Active
<1>7. ASSUME ClientCloses(c) PROVE Own
  <2>1. /\ handler' = handler /\ client[c] = "recv" /\ client'[c] = "done"
        /\ fin'[c] = "fin"
    BY <1>1, <1>7 DEF ClientCloses, TypeOK
  <2> QED BY <1>1, <1>2, <2>1 DEF Causes, Active
<1>8. ASSUME ClientDies(c) PROVE Own
  <2>1. /\ handler' = handler /\ client[c] \in {"send", "recv"} /\ client'[c] = "failed"
        /\ fin' = fin /\ cut[c]
    BY <1>1, <1>8 DEF ClientDies, TypeOK
  <2> QED BY <1>1, <1>2, <2>1 DEF Causes, Active
<1>9. ASSUME KillClient(c) PROVE Own
  <2>1. /\ handler' = handler /\ client[c] \in {"send", "recv"} /\ client'[c] = "killed"
    BY <1>1, <1>9 DEF KillClient, TypeOK
  <2> QED BY <1>1, <1>2, <2>1 DEF Causes, Active
<1>10. ASSUME ResetArrives(c) PROVE Own
  <2>1. /\ handler' = handler /\ client' = client /\ fin[c] = "late" /\ fin'[c] = "rst"
    BY <1>1, <1>10 DEF ResetArrives, TypeOK
  <2> QED BY <1>1, <1>2, <2>1 DEF Causes, Active
<1> HIDE DEF Own
<1>11. Own
  BY <1>5, <1>6, <1>7, <1>8, <1>9, <1>10 DEF ClientStep
<1>12. \A d \in Client : /\ client[d] = "killed" /\ fin[d] = "rst" =>
                              client'[d] = "killed" /\ fin'[d] = "rst"
                         /\ handler[d] = "thread" => handler'[d] = "thread"
  BY <1>3, <1>11 DEF Own
<1>13. ProcessKinds'
  BY <1>1, <1>2, <1>12 DEF ProcessKinds
<1>14. DeathsExplained'
  BY <1>1, <1>2, <1>12, DeathsKept
<1> QED BY <1>4, <1>11, <1>13, <1>14 DEF Own

(* What a handler does with its connection ends no process either.         *)
LEMMA HandlerCauses ==
    ASSUME CauseInv, NEW c \in Client, HandlerRecv(c) \/ HandlerSend(c) \/ HandlerCloses(c)
    PROVE  (\A d \in Client : Causes(d)') /\ ProcessKinds' /\ DeathsExplained'
<1> USE DEF counts, server
<1>1. /\ TypeOK /\ Bytes(c) /\ Serving(c) /\ (\A d \in Client : Causes(d)) /\ ProcessKinds
      /\ DeathsExplained
  BY SizeAssumption DEF CauseInv, Inv
<1>2. UNCHANGED <<version, client, servedBy, running, cut>>
  BY DEF HandlerRecv, HandlerSend, HandlerCloses
<1>3. \A d \in Client \ {c} : fin'[d] = fin[d] /\ handler'[d] = handler[d] /\ taken'[d] = taken[d]
  BY <1>1 DEF HandlerRecv, HandlerSend, HandlerCloses, TypeOK
<1>4. /\ handler[c] \in {"recv", "send"} /\ handler'[c] \in {"recv", "send", "closed"}
      /\ servedBy[c] \in Process /\ process[servedBy[c]] # "dead" /\ ~cut[c]
  <2>1. handler[c] \in {"recv", "send"} /\ handler'[c] \in {"recv", "send", "closed"}
    BY <1>1 DEF HandlerRecv, HandlerSend, HandlerCloses, TypeOK
  <2> QED BY <1>1, <2>1 DEF Serving, Causes, Active, Bytes, TypeOK
<1>0. \A d \in Client : servedBy[d] \in Process \cup {0} /\ (Active(d) => servedBy[d] \in Process)
  BY DEF CauseInv, Inv, TypeOK, Serving
<1>5. /\ process' \in [Process -> {"unborn", "accept", "create", "serve", "select", "round", "dead"}]
      /\ \A i \in Process : /\ process'[i] = "dead" <=> process[i] = "dead"
                            /\ process[i] # "unborn" => process'[i] # "unborn"
  <2>1. CASE HandlerRecv(c) \/ HandlerSend(c) \/ version = "Thread"
    <3>1. process' = process
      BY <2>1 DEF HandlerRecv, HandlerSend, HandlerCloses
    <3> QED BY <1>1, <3>1 DEF TypeOK
  <2>2. CASE HandlerCloses(c) /\ version # "Thread"
    <3>1. process' = [process EXCEPT ![servedBy[c]] = NextJob] /\ NextJob \in {"round", "accept"}
      BY <2>2 DEF HandlerCloses, NextJob
    <3> QED BY <1>1, <1>4, <3>1 DEF TypeOK
  <2> QED BY <2>1, <2>2
<1>6. fin[c] = "rst" => fin'[c] = "rst"
  BY <1>1 DEF HandlerRecv, HandlerSend, HandlerCloses, TypeOK
<1>7. Causes(c)'
  <2>1. fin'[c] # "open" => fin[c] # "open"
    BY <1>1 DEF HandlerRecv, HandlerSend, HandlerCloses, TypeOK
  <2>2. fin'[c] \in {"late", "rst"} => client[c] = "killed"
    <3>1. CASE HandlerSend(c)
      <4>1. ~(client[c] = "done")
        <5>1. echoed[c] < taken[c]
          BY <1>1, <3>1 DEF HandlerSend, Bytes
        <5> QED BY <1>1, <5>1 DEF Bytes, TypeOK
      <4> QED BY <1>1, <3>1, <4>1 DEF HandlerSend, Causes, TypeOK
    <3>2. CASE HandlerRecv(c) \/ HandlerCloses(c)
      BY <1>1, <3>2 DEF HandlerRecv, HandlerCloses, Causes
    <3> QED BY <3>1, <3>2
  <2>3. handler'[c] \notin {"none", "pending", "thread"}
    BY <1>4
  <2>4. client'[c] = client[c] /\ cut'[c] = cut[c] /\ servedBy'[c] = servedBy[c]
    BY <1>2
  <2>5. process'[servedBy[c]] \notin {"dead", "unborn"}
    BY <1>1, <1>4, <1>5 DEF Causes, Process
  <2> QED BY <1>1, <1>4, <2>1, <2>2, <2>3, <2>4, <2>5 DEF Causes
<1>8. \A d \in Client \ {c} : Causes(d)'
  <2> SUFFICES ASSUME NEW d \in Client \ {c} PROVE Causes(d)'
    OBVIOUS
  <2>1. /\ client'[d] = client[d] /\ cut'[d] = cut[d] /\ servedBy'[d] = servedBy[d] /\ fin'[d] = fin[d]
        /\ handler'[d] = handler[d] /\ taken'[d] = taken[d] /\ version' = version
    BY <1>2, <1>3
  <2>2. Causes(d) /\ Active(d)' = Active(d)
    BY <1>1, <2>1 DEF Active
  <2>3. Active(d) => process'[servedBy[d]] # "dead"
    BY <1>0, <1>5, <2>2 DEF Causes
  <2>4. servedBy[d] # 0 => process'[servedBy[d]] # "unborn"
    BY <1>0, <1>5, <2>2 DEF Causes
  <2>5. (\A i \in Process : process[i] = "dead") => \A i \in Process : process'[i] = "dead"
    BY <1>5
  <2> QED BY <2>1, <2>2, <2>3, <2>4, <2>5 DEF Causes
<1>9. DeathsExplained'
  <2>1. \A d \in Client : servedBy[d] \in Process /\ process[servedBy[d]] = "dead" => taken'[d] = taken[d]
    BY <1>3, <1>4
  <2>2. \A d \in Client : client[d] = "killed" /\ fin[d] = "rst" => client'[d] = "killed" /\ fin'[d] = "rst"
    BY <1>2, <1>3, <1>6
  <2> QED BY <1>1, <1>2, <1>5, <2>1, <2>2, DeathsKept
<1>10. ProcessKinds'
  <2>1. CASE HandlerRecv(c) \/ HandlerSend(c)
    <3>1. process' = process
      BY <2>1 DEF HandlerRecv, HandlerSend
    <3> QED BY <1>1, <1>2, <1>3, <1>4, <3>1 DEF ProcessKinds
  <2>2. CASE HandlerCloses(c)
    <3>1. process' = IF version = "Thread" THEN process ELSE [process EXCEPT ![servedBy[c]] = NextJob]
      BY <2>2 DEF HandlerCloses
    <3> QED BY <1>1, <1>2, <1>3, <1>4, <1>5, <3>1 DEF ProcessKinds, NextJob, TypeOK
  <2> QED BY <2>1, <2>2
<1> QED BY <1>7, <1>8, <1>9, <1>10

(* A connection is accepted by a process that lives.                       *)
LEMMA AcceptCauses ==
    ASSUME CauseInv, NEW c \in Client, NEW i \in Process, Accept(i, c),
           process[i] \in {"accept", "round"}
    PROVE  (\A d \in Client : Causes(d)') /\ ProcessKinds' /\ DeathsExplained'
<1> USE DEF counts, server
<1>1. /\ TypeOK /\ Bytes(c) /\ (\A d \in Client : Causes(d)) /\ ProcessKinds /\ DeathsExplained
  BY DEF CauseInv, Inv
<1>2. UNCHANGED <<version, client, taken, fin, running, cut>>
  BY DEF Accept
<1>3. /\ handler[c] = "pending" /\ servedBy[c] = 0 /\ ~cut[c]
      /\ servedBy'[c] = i /\ handler'[c] = (IF version = "Thread" THEN "thread" ELSE "recv")
      /\ process' = [process EXCEPT ![i] = IF version = "Thread" THEN "create" ELSE "serve"]
  BY <1>1 DEF Accept, Pending, Causes, Bytes, TypeOK
<1>4. \A d \in Client \ {c} : servedBy'[d] = servedBy[d] /\ handler'[d] = handler[d]
  BY <1>1 DEF Accept, TypeOK
<1>5. \A j \in Process : /\ process'[j] = "dead" <=> process[j] = "dead"
                         /\ process[j] # "unborn" => process'[j] # "unborn"
  BY <1>1, <1>3 DEF TypeOK
<1>0. \A d \in Client : servedBy[d] \in Process \cup {0} /\ (Active(d) => servedBy[d] \in Process)
  BY DEF CauseInv, Inv, TypeOK, Serving
<1>6. Causes(c)'
  <2>1. taken[c] = 0
    BY <1>1, <1>3 DEF Causes
  <2> QED BY <1>1, <1>2, <1>3, <1>5, <2>1 DEF Causes, Active, TypeOK
<1>7. \A d \in Client \ {c} : Causes(d)'
  <2> SUFFICES ASSUME NEW d \in Client \ {c} PROVE Causes(d)'
    OBVIOUS
  <2>1. /\ client'[d] = client[d] /\ cut'[d] = cut[d] /\ servedBy'[d] = servedBy[d] /\ fin'[d] = fin[d]
        /\ handler'[d] = handler[d] /\ taken'[d] = taken[d] /\ version' = version
    BY <1>2, <1>4
  <2>2. Causes(d) /\ Active(d)' = Active(d)
    BY <1>1, <2>1 DEF Active
  <2>3. Active(d) => process'[servedBy[d]] # "dead"
    BY <1>0, <1>5, <2>2 DEF Causes
  <2>4. servedBy[d] # 0 => process'[servedBy[d]] # "unborn"
    BY <1>0, <1>5, <2>2 DEF Causes
  <2>5. (\A j \in Process : process[j] = "dead") => \A j \in Process : process'[j] = "dead"
    BY <1>5
  <2> QED BY <2>1, <2>2, <2>3, <2>4, <2>5 DEF Causes
<1>8. ProcessKinds'
  BY <1>1, <1>2, <1>3, <1>4, <1>5, First DEF ProcessKinds, TypeOK
<1>9. DeathsExplained'
  <2> SUFFICES ASSUME NEW j \in Process, process'[j] = "dead"
               PROVE  \/ \A d \in Client : servedBy'[d] # j
                      \/ \E d \in Client : servedBy'[d] = j /\ client[d] = "killed" /\ fin[d] = "rst"
                      \/ version = "Thread" /\ \E d \in Client : servedBy'[d] = j /\ taken[d] = 0
                      \/ version = "Select" /\ ~running
    BY <1>2 DEF DeathsExplained
  <2>1. process[j] = "dead" /\ j # i
    BY <1>5
  <2>2. \A d \in Client : servedBy[d] = j <=> servedBy'[d] = j
    <3>1. servedBy[c] # j
      BY <1>3 DEF Process
    <3> QED BY <1>3, <1>4, <2>1, <3>1
  <2> QED BY <2>1, <2>2, <1>1 DEF DeathsExplained
<1> QED BY <1>6, <1>7, <1>8, <1>9

(* A process that ends explains itself, and takes with it the connections  *)
(* it serves; with the last one go those that nobody has accepted.         *)
LEMMA EndsCauses ==
    ASSUME CauseInv, NEW i \in Process, Ends(i), process[i] # "unborn",
           UNCHANGED <<version, client, taken, fin, servedBy, running>>,
           \/ version = "Select" /\ ~running
           \/ version = "Thread" /\ \E c \in Client : servedBy[c] = i /\ taken[c] = 0
           \/ \E c \in Client : Active(c) /\ servedBy[c] = i /\ client[c] = "killed" /\ fin[c] = "rst"
    PROVE  (\A d \in Client : Causes(d)') /\ ProcessKinds' /\ DeathsExplained'
<1>1. /\ TypeOK /\ (\A d \in Client : Bytes(d) /\ Causes(d)) /\ OneEach /\ ProcessKinds /\ DeathsExplained
  BY DEF CauseInv, Inv
<1>0. \A d \in Client : servedBy[d] \in Process \cup {0} /\ (Active(d) => servedBy[d] \in Process)
  BY DEF CauseInv, Inv, TypeOK, Serving
<1>2. /\ process' = [process EXCEPT ![i] = "dead"]
      /\ \A c \in Client :
            \/ /\ Cuts(c)
               /\ (Active(c) /\ servedBy[c] = i) \/ \A j \in Process \ {i} : process[j] = "dead"
            \/ Leaves(c) /\ ~(Active(c) /\ servedBy[c] = i)
  BY <1>1, EndsCuts
<1>3. /\ process'[i] = "dead"
      /\ \A j \in Process \ {i} : process'[j] = process[j]
      /\ \A j \in Process : process[j] = "dead" => process'[j] = "dead"
      /\ \A j \in Process : process[j] # "unborn" => process'[j] # "unborn"
  BY <1>1, <1>2 DEF TypeOK
<1>4. ASSUME NEW d \in Client PROVE Causes(d)'
  <2>1. /\ client'[d] = client[d] /\ servedBy'[d] = servedBy[d] /\ fin'[d] = fin[d]
        /\ taken'[d] = taken[d] /\ version' = version
    OBVIOUS
  <2>2. Causes(d) /\ Bytes(d)
    BY <1>1
  <2>3. CASE Cuts(d)
    <3>1. handler'[d] = "closed" /\ cut'[d] /\ handler[d] # "none"
      BY <2>3 DEF Cuts
    <3>2. client'[d] \in {"send", "recv", "failed"} => \A j \in Process : process'[j] = "dead"
      <4>1. CASE \A j \in Process \ {i} : process[j] = "dead"
        BY <1>3, <4>1
      <4>2. CASE Active(d) /\ servedBy[d] = i /\ version = "ForkN"
        <5>1. PICK c \in Client : Active(c) /\ servedBy[c] = i /\ client[c] = "killed"
          BY <4>2
        <5>2. c = d
          BY <1>1, <4>2, <5>1 DEF OneEach
        <5> QED BY <2>1, <5>1, <5>2
      <4>3. CASE Active(d) /\ servedBy[d] = i /\ version # "ForkN"
        <5>1. i = 1
          BY <1>1, <4>3, <2>2 DEF ProcessKinds, Causes, Process
        <5>2. \A j \in Process \ {i} : process[j] = "dead"
          BY <1>1, <4>3, <5>1 DEF ProcessKinds, Process
        <5> QED BY <1>3, <5>2
      <4>4. CASE Leaves(d)
        <5>1. cut[d] /\ client'[d] = client[d]
          BY <2>1, <3>1, <4>4 DEF Leaves
        <5>2. client'[d] \in {"send", "recv", "failed"} => \A j \in Process : process[j] = "dead"
          BY <2>2, <5>1 DEF Causes
        <5> QED BY <1>3, <5>2
      <4>5. ~Leaves(d) => (Active(d) /\ servedBy[d] = i) \/ \A j \in Process \ {i} : process[j] = "dead"
        BY <1>2
      <4> QED BY <4>1, <4>2, <4>3, <4>4, <4>5
    <3>3. servedBy[d] # 0 => process'[servedBy[d]] # "unborn"
      BY <1>0, <1>3, <2>2 DEF Causes
    <3> QED BY <2>1, <2>2, <3>1, <3>2, <3>3 DEF Causes, Active
  <2>4. CASE ~Cuts(d)
    <3>1. /\ handler'[d] = handler[d] /\ cut'[d] = cut[d] /\ ~(Active(d) /\ servedBy[d] = i)
      BY <1>2, <2>4 DEF Leaves
    <3>2. Active(d)' = Active(d)
      BY <3>1 DEF Active
    <3>3. Active(d) => process'[servedBy[d]] # "dead"
      BY <1>0, <1>3, <2>2, <3>1 DEF Causes
    <3>4. servedBy[d] # 0 => process'[servedBy[d]] # "unborn"
      BY <1>0, <1>3, <2>2 DEF Causes
    <3> QED BY <1>3, <2>1, <2>2, <3>1, <3>2, <3>3, <3>4 DEF Causes
  <2> QED BY <2>3, <2>4
<1>5. ProcessKinds'
  <2>1. process'[1] # "dead" => process'[1] = process[1] /\ i # 1
    BY <1>3, First
  <2>2. process'[1] = "create" => \E c \in Client : handler'[c] = "thread"
    <3> SUFFICES ASSUME process'[1] = "create" PROVE \E c \in Client : handler'[c] = "thread"
      OBVIOUS
    <3>1. version = "Thread" /\ process[i] = "dead"
      BY <1>1, <2>1 DEF ProcessKinds, Process
    <3>2. PICK c \in Client : handler[c] = "thread"
      BY <1>1, <2>1 DEF ProcessKinds
    <3>3. Active(c) /\ servedBy[c] # i
      BY <1>1, <3>1, <3>2 DEF Active, Causes
    <3>4. servedBy[c] = 1
      BY <1>0, <1>1, <3>1, <3>3 DEF Causes, ProcessKinds, Process
    <3>5. CASE Leaves(c)
      BY <3>2, <3>5 DEF Leaves
    <3>6. CASE ~Leaves(c)
      <4>1. \A j \in Process \ {i} : process[j] = "dead"
        BY <1>2, <3>3, <3>6
      <4> QED BY <2>1, <4>1, First
    <3> QED BY <3>5, <3>6
  <2> QED BY <1>1, <1>3, <2>1, <2>2 DEF ProcessKinds
<1>6. DeathsExplained'
  <2> SUFFICES ASSUME NEW j \in Process, process'[j] = "dead"
               PROVE  \/ \A c \in Client : servedBy[c] # j
                      \/ \E c \in Client : servedBy[c] = j /\ client[c] = "killed" /\ fin[c] = "rst"
                      \/ version = "Thread" /\ \E c \in Client : servedBy[c] = j /\ taken[c] = 0
                      \/ version = "Select" /\ ~running
    BY DEF DeathsExplained
  <2>1. CASE j = i
    BY <2>1
  <2>2. CASE j # i
    BY <1>1, <1>3, <2>2 DEF DeathsExplained
  <2> QED BY <2>1, <2>2
<1> QED BY <1>4, <1>5, <1>6

(* Every step keeps the causes.                                            *)
LEMMA CauseStep ==
    CauseInv /\ [Next]_vars => (\A d \in Client : Causes(d)') /\ ProcessKinds' /\ DeathsExplained'
<1> DEFINE Goal == (\A d \in Client : Causes(d)') /\ ProcessKinds' /\ DeathsExplained'
<1> SUFFICES ASSUME CauseInv, [Next]_vars PROVE Goal
  OBVIOUS
<1>1. /\ TypeOK /\ (\A d \in Client : Bytes(d) /\ Serving(d) /\ Causes(d)) /\ ProcessKinds
      /\ DeathsExplained
  BY DEF CauseInv, Inv
<1>0. \A d \in Client : servedBy[d] \in Process \cup {0} /\ (Active(d) => servedBy[d] \in Process)
  BY <1>1 DEF TypeOK, Serving
<1> USE DEF counts, server
<1>2. CASE UNCHANGED vars
  BY <1>1, <1>2 DEF vars, Causes, Active, ProcessKinds, DeathsExplained
<1>3. ASSUME NEW c \in Client,
             Connect(c) \/ ClientStep(c) \/ KillClient(c) \/ ResetArrives(c)
      PROVE  Goal
  BY <1>3, ClientCauses
<1>4. ASSUME NEW c \in Client, HandlerRecv(c) \/ HandlerSend(c) \/ HandlerCloses(c) PROVE Goal
  BY <1>4, HandlerCauses
<1>5. ASSUME NEW c \in Client, HandlerDies(c) PROVE Goal
  <2>1. /\ Active(c) /\ servedBy[c] \in Process /\ fin[c] = "rst" /\ Ends(servedBy[c])
        /\ UNCHANGED <<version, client, taken, fin, servedBy, running>>
    BY <1>0, <1>5 DEF HandlerDies, Active
  <2>2. client[c] = "killed" /\ process[servedBy[c]] # "unborn"
    BY <1>1, <2>1 DEF Causes, Process
  <2> QED BY <2>1, <2>2, EndsCauses
<1>6. ASSUME NEW c \in Client, NEW i \in Process, AcceptTCPConnection(i, c) PROVE Goal
  BY <1>6, AcceptCauses DEF AcceptTCPConnection
<1>7. ASSUME NEW c \in Client, ServePort(c) PROVE Goal
  BY <1>7, AcceptCauses, First DEF ServePort
<1>8. ASSUME NEW c \in Client, CreateThread(c) PROVE Goal
  <2>1. /\ UNCHANGED <<version, client, taken, fin, servedBy, running, cut>>
        /\ process[1] = "create" /\ handler[c] = "thread" /\ handler'[c] = "recv"
        /\ process' = [process EXCEPT ![1] = "accept"]
        /\ \A d \in Client \ {c} : handler'[d] = handler[d]
    BY <1>1, <1>8 DEF CreateThread, TypeOK
  <2>2. /\ process'[1] = "accept"
        /\ \A j \in Process \ {1} : process'[j] = process[j]
    BY <1>1, <2>1, First DEF TypeOK
  <2>3. ASSUME NEW d \in Client PROVE Causes(d)'
    <3>1. Causes(d) /\ (Active(d)' <=> Active(d)) /\ client'[d] = client[d] /\ fin'[d] = fin[d]
          /\ cut'[d] = cut[d] /\ taken'[d] = taken[d] /\ servedBy'[d] = servedBy[d]
      BY <1>1, <2>1 DEF Active
    <3>2. servedBy[d] # 0 => process'[servedBy[d]] # "unborn"
      BY <1>0, <2>2, <3>1 DEF Causes
    <3>3. Active(d) => process'[servedBy[d]] # "dead"
      BY <1>0, <2>2, <3>1 DEF Causes
    <3>4. ~\A j \in Process : process[j] = "dead"
      BY <2>1, First
    <3>5. handler'[d] \in {"none", "pending", "thread"} => handler'[d] = handler[d]
      BY <2>1
    <3> QED BY <2>1, <3>1, <3>2, <3>3, <3>4, <3>5 DEF Causes
  <2>4. ProcessKinds'
    BY <1>1, <2>1, <2>2 DEF ProcessKinds
  <2>5. \A j \in Process : process'[j] = "dead" => process[j] = "dead"
    BY <2>2
  <2>6. DeathsExplained'
    BY <1>1, <2>1, <2>5, DeathsKept
  <2> QED BY <2>3, <2>4, <2>6
<1>9. CASE CreateThreadFails
  <2>1. PICK c \in Client : handler[c] = "thread"
    BY <1>1, <1>9 DEF CreateThreadFails, ProcessKinds
  <2>2. version = "Thread" /\ taken[c] = 0 /\ Active(c)
    BY <1>1, <2>1 DEF Causes, Active
  <2>3. servedBy[c] = 1
    BY <1>0, <1>1, <2>2 DEF Causes, ProcessKinds, Process
  <2> QED BY <1>9, <2>2, <2>3, EndsCauses, First DEF CreateThreadFails
<1>10. CASE RoundEnds
  <2>1. CASE ~running
    <3>1. version = "Select"
      BY <1>1, <1>10 DEF RoundEnds, ProcessKinds
    <3> QED BY <1>10, <2>1, <3>1, EndsCauses, First DEF RoundEnds
  <2>2. CASE running
    <3>1. /\ UNCHANGED <<version, client, taken, fin, servedBy, running, cut, handler>>
          /\ process[1] = "round" /\ process' = [process EXCEPT ![1] = "select"]
      BY <1>10, <2>2 DEF RoundEnds
    <3>2. process'[1] = "select" /\ \A j \in Process \ {1} : process'[j] = process[j]
      BY <1>1, <3>1, First DEF TypeOK
    <3>3. ASSUME NEW d \in Client PROVE Causes(d)'
      <4>1. Causes(d) /\ (Active(d)' <=> Active(d))
        BY <1>1, <3>1 DEF Active
      <4>2. servedBy[d] # 0 => process'[servedBy[d]] # "unborn"
        BY <1>0, <3>2, <4>1 DEF Causes
      <4>3. Active(d) => process'[servedBy[d]] # "dead"
        BY <1>0, <3>2, <4>1 DEF Causes
      <4>4. ~\A j \in Process : process[j] = "dead"
        BY <3>1, First
      <4> QED BY <3>1, <4>1, <4>2, <4>3, <4>4 DEF Causes
    <3>4. ProcessKinds'
      BY <1>1, <2>2, <3>1, <3>2 DEF ProcessKinds
    <3>5. \A j \in Process : process'[j] = "dead" => process[j] = "dead"
      BY <3>2
    <3>6. DeathsExplained'
      BY <1>1, <3>1, <3>5, DeathsKept
    <3> QED BY <3>3, <3>4, <3>6
  <2> QED BY <2>1, <2>2
<1>11. ASSUME NEW i \in Process, ForkChild(i) PROVE Goal
  <2>1. /\ UNCHANGED <<version, client, taken, fin, servedBy, running, cut, handler>>
        /\ process[i] = "unborn" /\ process' = [process EXCEPT ![i] = "accept"]
    BY <1>11 DEF ForkChild
  <2>2. process'[i] = "accept" /\ \A j \in Process \ {i} : process'[j] = process[j]
    BY <1>1, <2>1 DEF TypeOK
  <2>3. ASSUME NEW d \in Client PROVE Causes(d)'
    <3>1. Causes(d) /\ (Active(d)' <=> Active(d))
      BY <1>1, <2>1 DEF Active
    <3>2. servedBy[d] # 0 => process'[servedBy[d]] # "unborn"
      BY <1>0, <2>2, <3>1 DEF Causes
    <3>3. Active(d) => process'[servedBy[d]] # "dead"
      BY <1>0, <2>2, <3>1 DEF Causes
    <3>4. ~\A j \in Process : process[j] = "dead"
      BY <2>1
    <3> QED BY <2>1, <3>1, <3>2, <3>3, <3>4 DEF Causes
  <2>4. ProcessKinds'
    BY <1>1, <2>1, <2>2 DEF ProcessKinds
  <2>5. \A j \in Process : process'[j] = "dead" => process[j] = "dead"
    BY <2>2
  <2>6. DeathsExplained'
    BY <1>1, <2>1, <2>5, DeathsKept
  <2> QED BY <2>3, <2>4, <2>6
<1>12. CASE ForkFails
  <2>1. /\ UNCHANGED <<version, client, taken, fin, servedBy, running>>
        /\ process' = [j \in Process |-> IF process[j] = "unborn" THEN "dead" ELSE process[j]]
        /\ \A c \in Client : (Cuts(c) /\ ~Listening) \/ Leaves(c)
    BY <1>1, <1>12, ForkFailsCuts DEF ForkFails
  <2>2. \A j \in Process : process'[j] = IF process[j] = "unborn" THEN "dead" ELSE process[j]
    BY <2>1
  <2>3. ASSUME NEW d \in Client PROVE Causes(d)'
    <3>1. Causes(d)
      BY <1>1
    <3>2. servedBy[d] # 0 => process'[servedBy[d]] # "unborn"
      BY <1>0, <2>2, <3>1 DEF Causes
    <3>3. CASE Cuts(d) /\ ~Listening
      <4>1. \A j \in Process : process'[j] = "dead"
        BY <2>2, <3>3 DEF Listening
      <4>2. handler'[d] = "closed" /\ cut'[d]
        BY <3>3 DEF Cuts
      <4> QED BY <2>1, <3>1, <3>2, <4>1, <4>2 DEF Causes, Active
    <3>4. CASE Leaves(d)
      <4>1. (Active(d)' <=> Active(d)) /\ handler'[d] = handler[d] /\ cut'[d] = cut[d]
        BY <3>4 DEF Active, Leaves
      <4>2. Active(d) => process'[servedBy[d]] # "dead"
        BY <1>0, <2>2, <3>1 DEF Causes, Process
      <4>3. (\A j \in Process : process[j] = "dead") => \A j \in Process : process'[j] = "dead"
        BY <2>2
      <4> QED BY <2>1, <3>1, <3>2, <4>1, <4>2, <4>3 DEF Causes
    <3> QED BY <2>1, <3>3, <3>4
  <2>4. ProcessKinds'
    <3>1. process'[1] \in {"create", "select", "round"} => process'[1] = process[1]
      BY <2>2, First
    <3>2. process[1] = "create" => \E c \in Client : handler'[c] = "thread"
      <4> SUFFICES ASSUME process[1] = "create" PROVE \E c \in Client : handler'[c] = "thread"
        OBVIOUS
      <4>1. Listening
        BY First DEF Listening
      <4> QED BY <1>1, <2>1, <4>1 DEF ProcessKinds, Leaves
    <3> QED BY <1>1, <2>1, <2>2, <3>1, <3>2 DEF ProcessKinds
  <2>5. DeathsExplained'
    <3> SUFFICES ASSUME NEW j \in Process, process'[j] = "dead"
                 PROVE  \/ \A c \in Client : servedBy[c] # j
                        \/ \E c \in Client : servedBy[c] = j /\ client[c] = "killed" /\ fin[c] = "rst"
                        \/ version = "Thread" /\ \E c \in Client : servedBy[c] = j /\ taken[c] = 0
                        \/ version = "Select" /\ ~running
      BY <2>1 DEF DeathsExplained
    <3>1. CASE process[j] = "unborn"
      BY <1>1, <3>1 DEF Causes, Process
    <3>2. CASE process[j] # "unborn"
      BY <1>1, <2>2, <3>2 DEF DeathsExplained
    <3> QED BY <3>1, <3>2
  <2> QED BY <2>3, <2>4, <2>5
<1>13. CASE SelectReturns
  <2>1. /\ UNCHANGED <<version, client, taken, fin, servedBy, cut, handler>>
        /\ process[1] = "select" /\ process' = [process EXCEPT ![1] = "round"]
    BY <1>13 DEF SelectReturns
  <2>2. process'[1] = "round" /\ \A j \in Process \ {1} : process'[j] = process[j]
    BY <1>1, <2>1, First DEF TypeOK
  <2>3. ASSUME NEW d \in Client PROVE Causes(d)'
    <3>1. Causes(d) /\ (Active(d)' <=> Active(d))
      BY <1>1, <2>1 DEF Active
    <3>2. servedBy[d] # 0 => process'[servedBy[d]] # "unborn"
      BY <1>0, <2>2, <3>1 DEF Causes
    <3>3. Active(d) => process'[servedBy[d]] # "dead"
      BY <1>0, <2>2, <3>1 DEF Causes
    <3>4. ~\A j \in Process : process[j] = "dead"
      BY <2>1, First
    <3> QED BY <2>1, <3>1, <3>2, <3>3, <3>4 DEF Causes
  <2>4. ProcessKinds'
    BY <1>1, <2>1, <2>2 DEF ProcessKinds
  <2>5. \A j \in Process : process'[j] = "dead" => process[j] = "dead"
    BY <2>2
  <2>6. running
    BY <1>1, <2>1 DEF ProcessKinds
  <2>7. DeathsExplained'
    BY <1>1, <2>1, <2>5, <2>6, DeathsKept
  <2> QED BY <2>3, <2>4, <2>7
<1>14. CASE HitReturn
  BY <1>1, <1>14 DEF HitReturn, Causes, Active, ProcessKinds, DeathsExplained
<1> HIDE DEF Goal
<1>15. ASSUME NEW c \in Client,
              Connect(c) \/ ClientStep(c) \/ KillClient(c) \/ HandleTCPClient(c) \/ ResetArrives(c)
       PROVE  Goal
  BY <1>3, <1>4, <1>5, <1>15 DEF HandleTCPClient
<1>16. ASSUME NEW i \in Process, ServerStep(i) PROVE Goal
  BY <1>6, <1>7, <1>8, <1>9, <1>10, <1>11, <1>13, <1>16 DEF ServerStep
<1> QED BY <1>2, <1>12, <1>14, <1>15, <1>16 DEF Next

(* A client that nobody killed fails only when no process is left, and a   *)
(* process ends through a reset by a client of its own, a thread that      *)
(* cannot be made, or a key.                                               *)
THEOREM Explained == Spec => []FailuresExplained
<1>1. Init => (\A d \in Client : Causes(d)) /\ ProcessKinds /\ DeathsExplained
  <2> SUFFICES ASSUME Init PROVE (\A d \in Client : Causes(d)) /\ ProcessKinds /\ DeathsExplained
    OBVIOUS
  <2>1. \A d \in Client : /\ fin[d] = "open" /\ client[d] = "idle" /\ ~cut[d] /\ servedBy[d] = 0
                          /\ handler[d] = "none" /\ taken[d] = 0
    BY DEF Init
  <2>2. DeathsExplained
    BY <2>1 DEF DeathsExplained, Process
  <2>3. \A d \in Client : Causes(d)
    BY <2>1 DEF Causes, Active
  <2>4. ProcessKinds
    BY First DEF Init, ProcessKinds
  <2> QED BY <2>2, <2>3, <2>4
<1>2. CauseInv => FailuresExplained
  BY DEF CauseInv, Causes, FailuresExplained
<1>3. Inv /\ ((\A d \in Client : Causes(d)) /\ ProcessKinds /\ DeathsExplained) => CauseInv
  BY DEF CauseInv
<1>4. CauseInv /\ [Next]_vars => ((\A d \in Client : Causes(d)) /\ ProcessKinds /\ DeathsExplained)'
  BY CauseStep
<1> QED BY <1>1, <1>2, <1>3, <1>4, Invariance, PTL DEF Spec

-----------------------------------------------------------------------------
(* The echo over UDP: EchoTimeout.                                         *)

(* Every step of client, alarm, server and network keeps the types.        *)
LEMMA UdpTypePreserved == UdpTypeOK /\ [UdpNext]_udpVars => UdpTypeOK'
<1> SUFFICES ASSUME UdpTypeOK, [UdpNext]_udpVars PROVE UdpTypeOK'
  OBVIOUS
<1> USE BoundAssumption DEF choice, sender, network, service
<1>1. CASE UNCHANGED udpVars
  BY <1>1 DEF udpVars, UdpTypeOK
<1>2. CASE FirstTry \/ TryAgain
  <2>1. requests' \in 0..InFlight /\ replies' \in 0..InFlight /\ queue' \in 0..InFlight
    BY <1>2 DEF FirstTry, TryAgain, SendWord, UdpTypeOK
  <2>2. tries' \in Nat /\ sends' \in Nat
    BY <1>2 DEF FirstTry, TryAgain, SendWord, UdpTypeOK
  <2>3. armed' \in BOOLEAN /\ missed' \in BOOLEAN /\ lost' \in BOOLEAN
    BY <1>2 DEF FirstTry, TryAgain, SendWord, UdpTypeOK
  <2>4. pc' \in ClientPC
    BY <1>2 DEF FirstTry, TryAgain, SendWord, UdpTypeOK, ClientPC
  <2>5. echoer' \in ServerPC
    BY <1>2 DEF FirstTry, TryAgain, SendWord, UdpTypeOK, ServerPC
  <2>6. sigio' \in BOOLEAN /\ early' \in BOOLEAN
    BY <1>2 DEF FirstTry, TryAgain, SendWord, UdpTypeOK
  <2>7. UNCHANGED choice
    BY <1>2 DEF FirstTry, TryAgain, SendWord
  <2> QED BY <2>1, <2>2, <2>3, <2>4, <2>5, <2>6, <2>7 DEF UdpTypeOK, choice
<1>3. CASE GiveUp \/ Sleep \/ Receive \/ CancelAlarm
  <2>1. requests' \in 0..InFlight /\ replies' \in 0..InFlight /\ queue' \in 0..InFlight
    BY <1>3 DEF GiveUp, Sleep, Receive, CancelAlarm, UdpTypeOK
  <2>2. tries' \in Nat /\ sends' \in Nat
    BY <1>3 DEF GiveUp, Sleep, Receive, CancelAlarm, UdpTypeOK
  <2>3. armed' \in BOOLEAN /\ missed' \in BOOLEAN /\ lost' \in BOOLEAN
    BY <1>3 DEF GiveUp, Sleep, Receive, CancelAlarm, UdpTypeOK
  <2>4. pc' \in ClientPC
    BY <1>3 DEF GiveUp, Sleep, Receive, CancelAlarm, UdpTypeOK, ClientPC
  <2>5. echoer' \in ServerPC
    BY <1>3 DEF GiveUp, Sleep, Receive, CancelAlarm, UdpTypeOK, ServerPC
  <2>6. sigio' \in BOOLEAN /\ early' \in BOOLEAN
    BY <1>3 DEF GiveUp, Sleep, Receive, CancelAlarm, UdpTypeOK
  <2>7. UNCHANGED choice
    BY <1>3 DEF GiveUp, Sleep, Receive, CancelAlarm
  <2> QED BY <2>1, <2>2, <2>3, <2>4, <2>5, <2>6, <2>7 DEF UdpTypeOK, choice
<1>4. CASE CatchAlarm
  <2>1. requests' \in 0..InFlight /\ replies' \in 0..InFlight /\ queue' \in 0..InFlight
    BY <1>4 DEF CatchAlarm, UdpTypeOK
  <2>2. tries' \in Nat /\ sends' \in Nat
    BY <1>4 DEF CatchAlarm, UdpTypeOK
  <2>3. armed' \in BOOLEAN /\ missed' \in BOOLEAN /\ lost' \in BOOLEAN
    BY <1>4 DEF CatchAlarm, UdpTypeOK
  <2>4. pc' \in ClientPC
    BY <1>4 DEF CatchAlarm, UdpTypeOK, ClientPC
  <2>5. echoer' \in ServerPC
    BY <1>4 DEF CatchAlarm, UdpTypeOK, ServerPC
  <2>6. sigio' \in BOOLEAN /\ early' \in BOOLEAN
    BY <1>4 DEF CatchAlarm, UdpTypeOK
  <2>7. UNCHANGED choice
    BY <1>4 DEF CatchAlarm
  <2> QED BY <2>1, <2>2, <2>3, <2>4, <2>5, <2>6, <2>7 DEF UdpTypeOK, choice
<1>5. CASE ServerReceives \/ HandlerReceives
  <2>1. requests' \in 0..InFlight /\ replies' \in 0..InFlight /\ queue' \in 0..InFlight
    BY <1>5 DEF ServerReceives, HandlerReceives, Receives, UdpTypeOK
  <2>2. tries' \in Nat /\ sends' \in Nat
    BY <1>5 DEF ServerReceives, HandlerReceives, Receives, UdpTypeOK
  <2>3. armed' \in BOOLEAN /\ missed' \in BOOLEAN /\ lost' \in BOOLEAN
    BY <1>5 DEF ServerReceives, HandlerReceives, Receives, UdpTypeOK
  <2>4. pc' \in ClientPC
    BY <1>5 DEF ServerReceives, HandlerReceives, Receives, UdpTypeOK, ClientPC
  <2>5. echoer' \in ServerPC
    BY <1>5 DEF ServerReceives, HandlerReceives, Receives, UdpTypeOK, ServerPC
  <2>6. sigio' \in BOOLEAN /\ early' \in BOOLEAN
    BY <1>5 DEF ServerReceives, HandlerReceives, Receives, UdpTypeOK
  <2>7. UNCHANGED choice
    BY <1>5 DEF ServerReceives, HandlerReceives, Receives
  <2> QED BY <2>1, <2>2, <2>3, <2>4, <2>5, <2>6, <2>7 DEF UdpTypeOK, choice
<1>6. CASE ServerEchoes \/ HandlerEchoes
  <2>1. requests' \in 0..InFlight /\ replies' \in 0..InFlight /\ queue' \in 0..InFlight
    BY <1>6 DEF ServerEchoes, HandlerEchoes, Echoes, UdpTypeOK
  <2>2. tries' \in Nat /\ sends' \in Nat
    BY <1>6 DEF ServerEchoes, HandlerEchoes, Echoes, UdpTypeOK
  <2>3. armed' \in BOOLEAN /\ missed' \in BOOLEAN /\ lost' \in BOOLEAN
    BY <1>6 DEF ServerEchoes, HandlerEchoes, Echoes, UdpTypeOK
  <2>4. pc' \in ClientPC
    BY <1>6 DEF ServerEchoes, HandlerEchoes, Echoes, UdpTypeOK, ClientPC
  <2>5. echoer' \in ServerPC
    BY <1>6 DEF ServerEchoes, HandlerEchoes, Echoes, UdpTypeOK, ServerPC
  <2>6. sigio' \in BOOLEAN /\ early' \in BOOLEAN
    BY <1>6 DEF ServerEchoes, HandlerEchoes, Echoes, UdpTypeOK
  <2>7. UNCHANGED choice
    BY <1>6 DEF ServerEchoes, HandlerEchoes, Echoes
  <2> QED BY <2>1, <2>2, <2>3, <2>4, <2>5, <2>6, <2>7 DEF UdpTypeOK, choice
<1>7. CASE SetAsync \/ SIGIOHandler \/ HandlerReturns \/ ServerStops
  <2>1. requests' \in 0..InFlight /\ replies' \in 0..InFlight /\ queue' \in 0..InFlight
    BY <1>7 DEF SetAsync, SIGIOHandler, HandlerReturns, ServerStops, UdpTypeOK
  <2>2. tries' \in Nat /\ sends' \in Nat
    BY <1>7 DEF SetAsync, SIGIOHandler, HandlerReturns, ServerStops, UdpTypeOK
  <2>3. armed' \in BOOLEAN /\ missed' \in BOOLEAN /\ lost' \in BOOLEAN
    BY <1>7 DEF SetAsync, SIGIOHandler, HandlerReturns, ServerStops, UdpTypeOK
  <2>4. pc' \in ClientPC
    BY <1>7 DEF SetAsync, SIGIOHandler, HandlerReturns, ServerStops, UdpTypeOK, ClientPC
  <2>5. echoer' \in ServerPC
    BY <1>7 DEF SetAsync, SIGIOHandler, HandlerReturns, ServerStops, UdpTypeOK, ServerPC
  <2>6. sigio' \in BOOLEAN /\ early' \in BOOLEAN
    BY <1>7 DEF SetAsync, SIGIOHandler, HandlerReturns, ServerStops, UdpTypeOK
  <2>7. UNCHANGED choice
    BY <1>7 DEF SetAsync, SIGIOHandler, HandlerReturns, ServerStops
  <2> QED BY <2>1, <2>2, <2>3, <2>4, <2>5, <2>6, <2>7 DEF UdpTypeOK, choice
<1>8. CASE Network
  <2>1. requests' \in 0..InFlight /\ replies' \in 0..InFlight /\ queue' \in 0..InFlight
    BY <1>8 DEF Network, Arrive, Lose, Duplicate, UdpTypeOK
  <2>2. tries' \in Nat /\ sends' \in Nat
    BY <1>8 DEF Network, Arrive, Lose, Duplicate, UdpTypeOK
  <2>3. armed' \in BOOLEAN /\ missed' \in BOOLEAN /\ lost' \in BOOLEAN
    BY <1>8 DEF Network, Arrive, Lose, Duplicate, UdpTypeOK
  <2>4. pc' \in ClientPC
    BY <1>8 DEF Network, Arrive, Lose, Duplicate, UdpTypeOK, ClientPC
  <2>5. echoer' \in ServerPC
    BY <1>8 DEF Network, Arrive, Lose, Duplicate, UdpTypeOK, ServerPC
  <2>6. sigio' \in BOOLEAN /\ early' \in BOOLEAN
    BY <1>8 DEF Network, Arrive, Lose, Duplicate, UdpTypeOK
  <2>7. UNCHANGED choice
    BY <1>8 DEF Network, Arrive, Lose, Duplicate
  <2> QED BY <2>1, <2>2, <2>3, <2>4, <2>5, <2>6, <2>7 DEF UdpTypeOK, choice
<1> QED BY <1>1, <1>2, <1>3, <1>4, <1>5, <1>6, <1>7, <1>8 DEF UdpNext, Sender, Echoer

(* AlarmPerTry says how sent follows from tries and armed; what is missing *)
(* is where an alarm can still be set, that tries has not passed its limit *)
(* when a word is sent, and that the plain client has no alarms at all.    *)
SenderInv ==
    /\ UdpTypeOK
    /\ AlarmPerTry
    /\ pc = "start" => sends = 0
    /\ pc \in {"eintr", "gaveup", "done"} => ~armed
    /\ pc # "start" => sends >= 1
    /\ sends <= MAXTRIES
    /\ pc = "gaveup" => sends = MAXTRIES
    /\ clientVersion = "plain" => ~armed /\ sends <= 1 /\ pc \notin {"eintr", "gaveup"}

(* No word is sent and no alarm set at first.                              *)
LEMMA SenderInitInv == UdpInit => SenderInv
<1> SUFFICES ASSUME UdpInit PROVE SenderInv
  OBVIOUS
<1>1. requests \in 0..InFlight /\ replies \in 0..InFlight /\ queue \in 0..InFlight
  BY BoundAssumption DEF UdpInit
<1>2. armed \in BOOLEAN /\ missed \in BOOLEAN /\ tries \in Nat /\ sends \in Nat
  BY DEF UdpInit
<1>3. lost \in BOOLEAN /\ sigio \in BOOLEAN /\ early \in BOOLEAN
  BY DEF UdpInit
<1>4. echoer \in ServerPC /\ pc \in ClientPC
  BY DEF UdpInit, ServerPC, ClientPC
<1>5. UdpTypeOK
  BY <1>1, <1>2, <1>3, <1>4, ProgramAssumption DEF UdpInit, UdpTypeOK
<1>6. AlarmPerTry
  BY DEF UdpInit, AlarmPerTry
<1> QED BY <1>5, <1>6, TriesAssumption DEF UdpInit, SenderInv

(* Every step keeps one alarm to each word.                                *)
LEMMA SenderStepInv == SenderInv /\ [UdpNext]_udpVars => SenderInv'
<1> SUFFICES ASSUME SenderInv, [UdpNext]_udpVars PROVE SenderInv'
  OBVIOUS
<1>1. UdpTypeOK /\ UdpTypeOK'
  BY UdpTypePreserved DEF SenderInv
<1> USE TriesAssumption DEF choice, sender
<1>2. CASE UNCHANGED udpVars
  BY <1>1, <1>2 DEF udpVars, SenderInv, AlarmPerTry
<1>3. CASE FirstTry
  <2>1. sends' = 1 /\ tries' = tries /\ pc' = "call" /\ UNCHANGED clientVersion
    BY <1>3 DEF FirstTry, SendWord, SenderInv
  <2>2. CASE clientVersion = "timeout"
    <3>1. tries = 0
      BY <1>1, <1>3, <2>2 DEF FirstTry, SenderInv, AlarmPerTry, UdpTypeOK
    <3>2. armed' = TRUE
      BY <1>3, <2>2, Zenon DEF FirstTry, SendWord
    <3> QED BY <1>1, <2>1, <2>2, <3>1, <3>2 DEF SenderInv, AlarmPerTry
  <2>3. CASE clientVersion = "plain"
    <3>1. ~armed'
      BY <1>3, <2>3 DEF FirstTry, SendWord
    <3> QED BY <1>1, <2>1, <2>3, <3>1 DEF SenderInv, AlarmPerTry
  <2> QED BY <1>1, <2>2, <2>3 DEF UdpTypeOK
<1>4. CASE TryAgain
  (* At "eintr" no alarm is set, so sent = tries < MAXTRIES.               *)
  <2>1. clientVersion = "timeout" /\ sends = tries /\ tries < MAXTRIES
    BY <1>1, <1>4 DEF TryAgain, SenderInv, AlarmPerTry, UdpTypeOK
  <2>2. armed' = TRUE
    BY <1>4, <2>1, Zenon DEF TryAgain, SendWord
  <2>3. sends' = sends + 1 /\ tries' = tries /\ pc' = "call" /\ UNCHANGED clientVersion
    BY <1>4 DEF TryAgain, SendWord
  <2> QED BY <1>1, <2>1, <2>2, <2>3 DEF SenderInv, AlarmPerTry, UdpTypeOK
<1>5. CASE GiveUp
  <2>1. clientVersion = "timeout" /\ sends = tries /\ tries >= MAXTRIES
    BY <1>1, <1>5 DEF GiveUp, SenderInv, AlarmPerTry, UdpTypeOK
  <2> QED BY <1>1, <1>5, <2>1 DEF GiveUp, SenderInv, AlarmPerTry, UdpTypeOK
<1>6. CASE Sleep \/ Receive
  BY <1>1, <1>6 DEF Sleep, Receive, SenderInv, AlarmPerTry, UdpTypeOK
<1>7. CASE CancelAlarm
  BY <1>1, <1>7 DEF CancelAlarm, SenderInv, AlarmPerTry, UdpTypeOK
<1>8. CASE CatchAlarm
  BY <1>1, <1>8 DEF CatchAlarm, SenderInv, AlarmPerTry, UdpTypeOK
<1>9. CASE Echoer \/ ServerStops \/ Network
  <2>1. UNCHANGED <<choice, sender>>
    BY <1>9 DEF Echoer, ServerReceives, ServerEchoes, ServerStops, SetAsync, SIGIOHandler,
                HandlerReceives, HandlerEchoes, HandlerReturns, Receives, Echoes,
                Network, Arrive, Lose, Duplicate
  <2> QED BY <1>1, <2>1 DEF SenderInv, AlarmPerTry
<1> QED BY <1>2, <1>3, <1>4, <1>5, <1>6, <1>7, <1>8, <1>9 DEF UdpNext, Sender

(* One alarm to each word sent, in the detail the client has at each       *)
(* control point.                                                          *)
THEOREM SenderInvariance == UdpSpec => []SenderInv
BY SenderInitInv, SenderStepInv, PTL DEF UdpSpec

(* The state has the types declared for it.                                *)
THEOREM UdpTypeCorrect == UdpSpec => []UdpTypeOK
<1>1. SenderInv => UdpTypeOK
  BY DEF SenderInv
<1> QED BY <1>1, SenderInvariance, PTL

(* Each word sent has its alarm, although the handler and the main program *)
(* share tries without protection; so the client sends its word MAXTRIES   *)
(* times at most, and gives up only after MAXTRIES times.                  *)
THEOREM UdpBounded == UdpSpec => []TriesCountWords
<1>1. SenderInv => TriesCountWords
  BY DEF SenderInv, TriesBounded, TriesCountWords
<1> QED BY <1>1, SenderInvariance, PTL

-----------------------------------------------------------------------------
(* The server that echoes in its handler.  Before FASYNC a datagram in the *)
(* socket is an early one, and only the server with a handler is ever idle.*)
Drain ==
    /\ echoer \in {"bound", "idle", "handler", "reply"} => serverVersion = "sigio"
    /\ echoer = "bound" /\ queue > 0 => early
    /\ HandlerDrains

(* Steps of the client, and those of the network that reach no socket.     *)
LEMMA DrainElsewhere ==
    ASSUME Drain, UNCHANGED <<serverVersion, echoer, queue, sigio, early>> PROVE Drain'
BY DEF Drain, HandlerDrains

(* A datagram that arrives at an idle server raises SIGIO, and the handler *)
(* returns only when the socket is empty.                                  *)
LEMMA DrainPreserved == UdpTypeOK /\ Drain /\ [UdpNext]_udpVars => Drain'
<1> SUFFICES ASSUME UdpTypeOK, Drain, [UdpNext]_udpVars PROVE Drain'
  OBVIOUS
<1> USE DEF choice, sender, network, service
<1>1. CASE UNCHANGED udpVars \/ Sender \/ CatchAlarm \/ Lose \/ Duplicate
  <2>1. UNCHANGED <<serverVersion, echoer, queue, sigio, early>>
    BY <1>1 DEF udpVars, Sender, FirstTry, TryAgain, SendWord, GiveUp, Sleep, Receive, CancelAlarm,
                CatchAlarm, Lose, Duplicate
  <2> QED BY <2>1, DrainElsewhere
<1>2. CASE ServerReceives \/ HandlerReceives
  BY <1>2 DEF ServerReceives, HandlerReceives, Receives, Drain, HandlerDrains
<1>3. CASE ServerEchoes \/ HandlerEchoes
  BY <1>3 DEF ServerEchoes, HandlerEchoes, Echoes, Drain, HandlerDrains
<1>4. CASE SetAsync
  BY <1>4 DEF SetAsync, Drain, HandlerDrains
<1>5. CASE SIGIOHandler
  BY <1>5 DEF SIGIOHandler, Drain, HandlerDrains
<1>6. CASE HandlerReturns
  BY <1>6 DEF HandlerReturns, Drain, HandlerDrains
<1>7. CASE ServerStops
  BY <1>7 DEF ServerStops, Drain, HandlerDrains
<1>8. CASE Arrive
  BY <1>8 DEF Arrive, Drain, HandlerDrains, UdpTypeOK
<1> QED BY <1>1, <1>2, <1>3, <1>4, <1>5, <1>6, <1>7, <1>8 DEF UdpNext, Echoer, Network

(* The handler of SIGIO leaves nothing behind, but for a datagram that came*)
(* before FASYNC, whatever the network does and however SIGIOs are merged. *)
THEOREM Drained == UdpSpec => []HandlerDrains
<1>1. UdpInit => Drain
  BY DEF UdpInit, Drain, HandlerDrains
<1>2. Drain => HandlerDrains
  BY DEF Drain
<1> QED BY <1>1, <1>2, DrainPreserved, UdpTypeCorrect, PTL DEF UdpSpec

=============================================================================
