------------------------- MODULE KeyedObjectProofs --------------------------
(***************************************************************************)
(* Theorems about KeyedObject: any number of instances, children and       *)
(* users, any number of rounds and any size of the queue.                  *)
(***************************************************************************)
EXTENDS KeyedObject, FiniteSetTheorems, TLAPS

(* Mains, children and users are different processes, and finitely many.   *)
LEMMA Sorts ==
    /\ Main \cap Child = {} /\ User \cap Main = {} /\ User \cap Child = {}
    /\ \A c \in Child : Parent(c) \in Main
    /\ Creators = Main \cup User /\ Creators \subseteq Process
    /\ Process = Main \cup Child \cup User
<1>1. Main \cap Child = {}
  <2> SUFFICES ASSUME NEW p \in Main, p \in Child PROVE FALSE
    OBVIOUS
  <2>1. p[2] = 0
    BY DEF Main
  <2>2. p[2] \in 1..nprocs
    BY DEF Child
  <2> QED BY <2>1, <2>2, SizeAssumption
<1>2. \A c \in Child : Parent(c) \in Main
  BY DEF Child, Main, Parent
<1> QED BY <1>1, <1>2, UserAssumption DEF Creators, Process

(* Children and creators are finitely many.                                *)
LEMMA FiniteSorts == IsFiniteSet(Child) /\ IsFiniteSet(Creators) /\ Cardinality(Creators) \in Nat
<1>1. IsFiniteSet(Child)
  <2>1. IsFiniteSet(1..nprocs)
    BY SizeAssumption, FS_Interval
  <2> QED BY <2>1, SizeAssumption, FS_Product DEF Child
<1>2. IsFiniteSet(Main)
  BY SizeAssumption, FS_Singleton, FS_Product DEF Main
<1>3. IsFiniteSet(Creators)
  BY <1>2, SizeAssumption, FS_Union DEF Creators
<1> QED BY <1>1, <1>3, FS_CardinalityType

-----------------------------------------------------------------------------
(* Objects made.                                                           *)
Idlers == {p \in Creators : Idle(p)}

(* Those who have not started are finitely many.                           *)
LEMMA IdlersCounted == IsFiniteSet(Idlers) /\ Cardinality(Idlers) \in Nat
BY FiniteSorts, FS_Subset, FS_CardinalityType DEF Idlers

(* Whoever makes an object was idle, so that the generations suffice.      *)
LEMMA RoomForOneMore ==
    ASSUME Inv, NEW p \in Creators, Idle(p)
    PROVE  last + 1 \in Generation
<1>1. p \in Idlers
  BY DEF Idlers
<1>2. Cardinality(Idlers) # 0
  BY <1>1, IdlersCounted, FS_EmptySet
<1>3. Cardinality(Idlers) + last <= Cardinality(Creators) + 1
  BY DEF Inv, Creations, Idlers
<1>4. last \in Generation \cup {0} /\ Generation = 1..(Cardinality(Creators) + 1)
  BY DEF Inv, TypeOK, Generation, Creators
<1> QED BY <1>2, <1>3, <1>4, IdlersCounted, FiniteSorts

(* A creator that starts, and makes an object or does not.                 *)
LEMMA CreationsStart ==
    ASSUME Inv, NEW p \in Creators, Idle(p), pc' = [pc EXCEPT ![p] = pc'[p]], pc'[p] # "none",
           last' \in {last, last + 1}
    PROVE  Creations'
<1>1. Idlers' = Idlers \ {p} /\ p \in Idlers
  BY Sorts DEF Idlers, Idle, Inv, TypeOK
<1>2. Cardinality(Idlers') = Cardinality(Idlers) - 1
  BY <1>1, IdlersCounted, FS_RemoveElement
<1>3. Cardinality(Idlers) + last <= Cardinality(Creators) + 1
  BY DEF Inv, Creations, Idlers
<1>4. last \in Int /\ Cardinality(Idlers) \in Nat /\ Cardinality(Creators) \in Nat
  BY IdlersCounted, FiniteSorts DEF Inv, TypeOK, Generation
<1>5. Cardinality(Idlers') + last' <= Cardinality(Creators) + 1
  BY <1>2, <1>3, <1>4
<1> QED BY <1>5 DEF Creations, Idlers, Creators, Main

(* Any other step.                                                         *)
LEMMA CreationsSame ==
    ASSUME Inv, last' = last, \A p \in Creators : Idle(p)' <=> Idle(p)
    PROVE  Creations'
<1>1. Idlers' = Idlers
  BY DEF Idlers
<1> QED BY <1>1 DEF Creations, Idlers, Inv, Creators, Main

-----------------------------------------------------------------------------
(* The types of the kernel and of what processes know of it.               *)
Kernel == /\ last \in Generation \cup {0} /\ key \in {0, last}
          /\ val \in [Generation -> Nat]
          /\ id \in [Process -> 0..last]

(* semget() or msgget() with IPC_CREAT: a new generation, or the current   *)
(* one.                                                                    *)
LEMMA GetTypes ==
    ASSUME Inv, NEW p \in Creators, Idle(p), GetOrCreate(p)
    PROVE  /\ Kernel' /\ id' = [id EXCEPT ![p] = key'] /\ val' = val
           /\ key' # 0 /\ key' = last' /\ last' \in {last, last + 1}
           /\ key # 0 => key' = key /\ last' = last
           /\ key = 0 => last' = last + 1
<1>1. last + 1 \in Generation
  BY RoomForOneMore
<1>2. Kernel
  BY DEF Inv, TypeOK, Kernel
<1>3. Generation' = Generation /\ Process' = Process
  OBVIOUS
<1>4. p \in Process
  BY Sorts
<1>5. Generation = 1..(Cardinality(Creators) + 1) /\ Cardinality(Creators) \in Nat
  BY FiniteSorts DEF Generation, Creators
<1>6. last \in Nat
  BY <1>2, <1>5 DEF Kernel
<1>7. key' # 0 /\ key' = last' /\ last' \in {last, last + 1} /\ last' \in Generation
  BY <1>1, <1>2, <1>5, <1>6 DEF GetOrCreate, Kernel
<1>8. id' = [id EXCEPT ![p] = key'] /\ val' = val
  BY DEF GetOrCreate
<1>9. id' \in [Process -> 0..last']
  BY <1>2, <1>4, <1>6, <1>7, <1>8 DEF Kernel
<1> QED BY <1>2, <1>7, <1>8, <1>9 DEF Kernel, GetOrCreate

(* semctl(SETVAL) changes a value only.                                    *)
LEMMA SetTypes ==
    ASSUME Inv, NEW p \in Process, NEW x \in Nat, SetValue(p, x), id' = id
    PROVE  Kernel'
<1>1. val' = [val EXCEPT ![id[p]] = x] /\ key' = key /\ last' = last
  BY DEF SetValue
<1> QED BY <1>1 DEF Inv, TypeOK, Kernel

(* An identifier that is not 0 is that of a generation.                    *)
LEMMA Identifies ==
    ASSUME Inv, NEW p \in Process
    PROVE  /\ id[p] \in Nat /\ last \in Nat /\ id[p] <= last /\ key \in {0, last}
           /\ id[p] # 0 => id[p] \in Generation /\ Value(p) \in Nat
<1>1. Generation = 1..(Cardinality(Creators) + 1) /\ Cardinality(Creators) \in Nat
  BY FiniteSorts DEF Generation, Creators
<1>2. /\ last \in Generation \cup {0} /\ key \in {0, last}
      /\ val \in [Generation -> Nat]
      /\ id[p] \in 0..last
  BY DEF Inv, TypeOK
<1> QED BY <1>1, <1>2 DEF Value

(* semop(-1) and msgrcv() take from an object that is there.               *)
LEMMA TakeTypes ==
    ASSUME Inv, NEW p \in Process, NEW taken, NEW failed, Take(p, taken, failed), id[p] # 0
    PROVE  Kernel'
<1>1. CASE Live(p)
  <2>1. Value(p) > 0 /\ SetValue(p, Value(p) - 1) /\ id' = id
    BY <1>1 DEF Take
  <2>2. Value(p) - 1 \in Nat
    BY <2>1, Identifies
  <2> QED BY <2>1, <2>2, SetTypes
<1>2. CASE ~Live(p)
  BY <1>2 DEF Take, kernel, Inv, TypeOK, Kernel
<1> QED BY <1>1, <1>2

(* IPC_RMID leaves the key without an object.                              *)
LEMMA RemoveTypes ==
    ASSUME Inv, NEW p \in Process, NEW done, NEW failed, Remove(p, done, failed)
    PROVE  Kernel'
BY DEF Remove, Inv, TypeOK, Kernel

(* semget() or msgget() without IPC_CREAT makes nothing.                   *)
LEMMA FindTypes ==
    ASSUME Inv, NEW p \in Process, NEW found, NEW missing, Find(p, found, missing)
    PROVE  Kernel'
<1>1. key \in 0..last
  BY Identifies
<1> QED BY <1>1 DEF Find, kernel, Inv, TypeOK, Kernel

-----------------------------------------------------------------------------
(* Users of the message queue and of the semaphore tools.                  *)
UserPoint == (Ended \ {"none"}) \cup {"stat", "snd", "rcv", "recvRmid", "init", "semp", "sempNowait",
                                      "semv", "semvUndo", "exit"}
Outcome == {"received", "tooLate", "msgrcvFailed"}

(* Receivers, when nobody comes to or leaves one of their outcomes.        *)
LEMMA QueueSame ==
    ASSUME Inv, NEW u \in User, pc' = [pc EXCEPT ![u] = pc'[u]], id' = [id EXCEPT ![u] = id'[u]],
           pc[u] \notin Outcome, pc'[u] \notin Outcome,
           UNCHANGED program,
           \/ key' = key /\ last' = last
           \/ key = 0 /\ key' = last + 1 /\ last' = last + 1
    PROVE  QueueRemovedOnce'
<1>1. \A g : \A l \in Outcome : Receivers(g, l)' = Receivers(g, l)
  <2> SUFFICES ASSUME NEW g, NEW l \in Outcome PROVE Receivers(g, l)' = Receivers(g, l)
    OBVIOUS
  <2>1. \A v \in User : v # u => pc'[v] = pc[v] /\ id'[v] = id[v]
    BY Sorts DEF Inv, TypeOK
  <2> QED BY <2>1 DEF Receivers
<1>2. \A l \in Outcome : Receivers(last + 1, l) = {}
  <2> SUFFICES ASSUME NEW v \in User, id[v] = last + 1 PROVE FALSE
    BY DEF Receivers
  <2> QED BY Sorts, Identifies
<1>3. last \in Nat /\ key \in {0, last}
  BY FiniteSorts DEF Inv, TypeOK, Generation, Creators
<1>4. ASSUME program = "msg", NEW g \in 1..last'
      PROVE  /\ Cardinality(Receivers(g, "received")') = IF g = key' THEN 0 ELSE 1
             /\ g = key' => Receivers(g, "tooLate")' \cup Receivers(g, "msgrcvFailed")' = {}
  <2>1. /\ Receivers(g, "received")' = Receivers(g, "received")
        /\ Receivers(g, "tooLate")' = Receivers(g, "tooLate")
        /\ Receivers(g, "msgrcvFailed")' = Receivers(g, "msgrcvFailed")
    BY <1>1 DEF Outcome
  <2>2. CASE g \in 1..last
    <3>1. key' = key \/ (key = 0 /\ g # key')
      BY <1>3, <2>2
    <3>2. g = key <=> g = key'
      BY <1>3, <2>2, <3>1
    <3> QED BY <1>4, <2>1, <2>2, <3>2 DEF Inv, QueueRemovedOnce
  <2>3. CASE g \notin 1..last
    <3>1. g = last + 1 /\ key' = g
      BY <1>3, <1>4, <2>3
    <3>2. /\ Receivers(g, "received") = {} /\ Receivers(g, "tooLate") = {}
          /\ Receivers(g, "msgrcvFailed") = {}
      BY <1>2, <3>1 DEF Outcome
    <3> QED BY <2>1, <3>1, <3>2, FS_EmptySet
  <2> QED BY <2>2, <2>3
<1> QED BY <1>4 DEF QueueRemovedOnce

(* A step of a user concerns no instance of pv.c.                          *)
LEMMA UserKeeps ==
    ASSUME Inv, NEW u \in User, program # "pv",
           pc' = [pc EXCEPT ![u] = pc'[u]], id' = [id EXCEPT ![u] = id'[u]],
           pc'[u] \in UserPoint, id'[u] # 0 \/ pc'[u] \in {"noSemaphore", "msggetFailed"},
           Kernel', Creations', QueueRemovedOnce', undo' \in [Process -> {0, 1}],
           UNCHANGED <<program, zero, round, disturbed>>
    PROVE  Inv'
<1>1. TypeOK /\ Kinds
  BY DEF Inv
<1>2. u \in Process /\ u \notin Main /\ u \notin Child
  BY Sorts
<1>3. \A p \in Process : p # u => pc'[p] = pc[p] /\ id'[p] = id[p]
  BY <1>1 DEF TypeOK
<1>4. \A p \in Main \cup Child : pc'[p] = "none" /\ id'[p] = 0 /\ pc[p] = "none"
  BY <1>1, <1>2, <1>3, Sorts DEF Kinds, Idle
<1>5. pc' \in [Process -> {"none"} \cup UserPoint \cup {"setval", "fork", "wait", "rmid", "p", "critical"}]
  <2>1. Ended = {"none"} \cup (Ended \ {"none"})
    BY DEF Ended
  <2>2. pc \in [Process -> {"none"} \cup UserPoint \cup {"setval", "fork", "wait", "rmid", "p", "critical"}]
    BY <1>1, <2>1 DEF TypeOK, UserPoint
  <2> QED BY <1>2, <2>2
<1>6. TypeOK'
  <2>1. pc' \in [Process -> Ended \cup {"setval", "fork", "wait", "rmid", "p", "critical",
                    "stat", "snd", "rcv", "recvRmid", "init", "semp", "sempNowait",
                    "semv", "semvUndo", "exit"}]
    BY <1>5 DEF UserPoint, Ended
  <2> QED BY <1>1, <2>1 DEF TypeOK, Kernel
<1>7. Kinds'
  <2>1. pc'[u] # "none" /\ pc'[u] \notin {"setval", "fork", "wait", "rmid", "p", "critical"}
    BY DEF UserPoint, Ended
  <2>2. \A v \in User : pc'[v] \notin {"setval", "fork", "wait", "rmid", "p", "critical"}
    BY <1>1, <1>3, <2>1, Sorts DEF Kinds
  <2>3. \A p \in Process : Idle(p)' => id'[p] = 0
    BY <1>1, <1>3, <2>1 DEF Kinds, Idle
  <2>4. \A p \in Process : ~Idle(p)' => id'[p] # 0 \/ pc'[p] \in {"noSemaphore", "msggetFailed"}
    BY <1>1, <1>3 DEF Kinds, Idle
  <2> QED BY <1>4, <2>2, <2>3, <2>4 DEF Kinds, Idle
<1>8. Family'
  <2>1. \A c \in Child : round[c] < ROUNDS
    BY <1>4 DEF Inv, Family, Idle
  <2> QED BY <1>4, <2>1, Sorts DEF Family, Idle
<1>9. AloneWorks'
  BY <1>4 DEF AloneWorks, Alone
<1>10. MutexHolds'
  BY DEF MutexHolds
<1> QED BY <1>6, <1>7, <1>8, <1>9, <1>10 DEF Inv

(* A user starts.                                                          *)
LEMMA UserStartsInv == ASSUME Inv, NEW u \in User, UserStarts(u) PROVE Inv'
<1>1. /\ program # "pv" /\ Idle(u)
      /\ UNCHANGED <<program, zero, round, undo, disturbed>>
  BY DEF UserStarts, SendGets, RecvGets, SemInitGets, SemPGets, SemVGets, Idle
<1>2. TypeOK /\ u \in Creators /\ u \in Process
  BY Sorts DEF Inv
<1>3. pc[u] \notin Outcome
  BY <1>1 DEF Idle, Outcome
<1>4. undo' \in [Process -> {0, 1}]
  BY <1>1, <1>2 DEF TypeOK
<1>5. ASSUME GetOrCreate(u), NEW l \in {"stat", "init"}, Goto(u, l) PROVE Inv'
  <2>1. /\ Kernel' /\ id' = [id EXCEPT ![u] = key'] /\ key' # 0 /\ last' \in {last, last + 1}
        /\ key' = last' /\ (key # 0 => key' = key /\ last' = last) /\ (key = 0 => last' = last + 1)
    BY <1>1, <1>2, <1>5, GetTypes
  <2>2. pc' = [pc EXCEPT ![u] = l] /\ pc'[u] = l /\ id'[u] = key'
    BY <1>2, <1>5, <2>1 DEF Goto, TypeOK
  <2>3. pc'[u] \in UserPoint /\ pc'[u] \notin Outcome /\ pc'[u] # "none"
    BY <1>5, <2>2 DEF UserPoint, Outcome
  <2>4. Creations'
    BY <1>1, <1>2, <2>1, <2>2, <2>3, CreationsStart
  <2>5. QueueRemovedOnce'
    BY <1>1, <1>3, <2>1, <2>2, <2>3, QueueSame
  <2> QED BY <1>1, <1>4, <2>1, <2>2, <2>3, <2>4, <2>5, UserKeeps
<1>6. ASSUME NEW found \in {"rcv", "semp", "sempNowait", "semv", "semvUndo"},
             NEW missing \in {"msggetFailed", "noSemaphore"}, Find(u, found, missing)
      PROVE  Inv'
  <2>1. /\ Kernel' /\ id' = [id EXCEPT ![u] = key] /\ UNCHANGED <<key, last, val>>
    BY <1>2, <1>6, FindTypes DEF Find, kernel
  <2>2. pc' = [pc EXCEPT ![u] = IF key = 0 THEN missing ELSE found]
    BY <1>6 DEF Find, Goto
  <2>3. pc'[u] = (IF key = 0 THEN missing ELSE found) /\ id'[u] = key
    BY <1>2, <2>1, <2>2 DEF TypeOK
  <2>4. pc'[u] \in UserPoint /\ pc'[u] \notin Outcome /\ pc'[u] # "none"
        /\ (id'[u] # 0 \/ pc'[u] \in {"noSemaphore", "msggetFailed"})
    BY <1>6, <2>3 DEF UserPoint, Outcome, Ended
  <2>5. Creations'
    BY <1>1, <1>2, <2>1, <2>2, <2>3, <2>4, CreationsStart
  <2>6. QueueRemovedOnce'
    BY <1>1, <1>3, <2>1, <2>2, <2>3, <2>4, QueueSame
  <2> QED BY <1>1, <1>4, <2>1, <2>2, <2>3, <2>4, <2>5, <2>6, UserKeeps
<1>7. CASE SendGets(u)
  BY <1>5, <1>7 DEF SendGets
<1>8. CASE SemInitGets(u)
  BY <1>5, <1>8 DEF SemInitGets
<1>9. CASE RecvGets(u)
  BY <1>6, <1>9 DEF RecvGets
<1>10. CASE SemPGets(u)
  BY <1>6, <1>10 DEF SemPGets
<1>11. CASE SemVGets(u)
  BY <1>6, <1>11 DEF SemVGets
<1> QED BY <1>7, <1>8, <1>9, <1>10, <1>11 DEF UserStarts

(* A user goes on.                                                         *)
LEMMA UserStepInv == ASSUME Inv, NEW u \in User, UserStep(u) PROVE Inv'
<1>1. /\ pc[u] \in {"stat", "snd", "rcv", "recvRmid", "init", "semp", "sempNowait", "semv", "semvUndo", "exit"}
      /\ UNCHANGED <<program, zero, round, disturbed>>
      /\ id' = id
  BY DEF UserStep, SendStats, Send, Receive, RecvRemoves, SemInit, SemP, SemV, SemVExit,
         Take, Remove
<1>2. TypeOK /\ u \in Creators /\ u \in Process
  BY Sorts DEF Inv
<1>3. program # "pv" /\ ~Idle(u)
  BY <1>1 DEF Inv, Kinds, Idle
<1>4. id[u] # 0 /\ id[u] \in Generation /\ Value(u) \in Nat /\ id' = [id EXCEPT ![u] = id'[u]]
  <2>1. id[u] # 0
    BY <1>1, <1>2, <1>3 DEF Inv, Kinds
  <2> QED BY <1>1, <1>2, <2>1, Identifies DEF TypeOK
<1>5. pc[u] \notin Outcome
  BY <1>1 DEF Outcome
<1>6. ASSUME NEW l \in UserPoint, Goto(u, l), last' = last
      PROVE  /\ pc' = [pc EXCEPT ![u] = pc'[u]] /\ pc'[u] = l /\ Creations'
  <2>1. pc' = [pc EXCEPT ![u] = l] /\ pc'[u] = l
    BY <1>2, <1>6 DEF Goto, TypeOK
  <2>2. l # "none"
    BY <1>6 DEF UserPoint
  <2>3. \A p \in Creators : Idle(p)' <=> Idle(p)
    BY <1>2, <1>3, <2>1, <2>2, Sorts DEF Idle, TypeOK
  <2> QED BY <1>6, <2>1, <2>3, CreationsSame
<1>7. ASSUME NEW l \in UserPoint \ Outcome, Goto(u, l), Kernel', key' = key, last' = last,
             undo' \in [Process -> {0, 1}]
      PROVE  Inv'
  <2>1. pc' = [pc EXCEPT ![u] = pc'[u]] /\ pc'[u] = l /\ Creations'
    BY <1>6, <1>7
  <2>2. QueueRemovedOnce'
    BY <1>1, <1>4, <1>5, <1>7, <2>1, QueueSame
  <2> QED BY <1>1, <1>3, <1>4, <1>7, <2>1, <2>2, UserKeeps
<1>8. undo' = undo => undo' \in [Process -> {0, 1}]
  BY <1>2 DEF TypeOK
<1>9. ASSUME UNCHANGED kernel PROVE Kernel' /\ key' = key /\ last' = last
  BY <1>1, <1>2, <1>9 DEF kernel, Kernel, TypeOK
<1>10. ASSUME NEW x \in Nat, SetValue(u, x) PROVE Kernel' /\ key' = key /\ last' = last
  BY <1>1, <1>2, <1>10, SetTypes DEF SetValue
<1>11. CASE SendStats(u)
  <2>1. /\ UNCHANGED kernel /\ undo' = undo
        /\ \E l \in {"snd", "msgctlFailed"} : Goto(u, l)
    BY <1>11 DEF SendStats
  <2> QED BY <1>7, <1>8, <1>9, <2>1 DEF UserPoint, Outcome, Ended
<1>12. CASE Send(u)
  <2>1. undo' = undo
    BY <1>12 DEF Send
  <2>2. CASE Live(u) /\ Value(u) < QMAX
    <3>1. SetValue(u, Value(u) + 1) /\ Goto(u, "sent")
      BY <1>12, <2>2 DEF Send
    <3>2. Value(u) + 1 \in Nat
      BY <1>4
    <3> QED BY <1>7, <1>8, <1>10, <2>1, <3>1, <3>2 DEF UserPoint, Outcome, Ended
  <2>3. CASE ~(Live(u) /\ Value(u) < QMAX)
    <3>1. UNCHANGED kernel /\ Goto(u, "msgsndFailed")
      BY <1>12, <2>3 DEF Send
    <3> QED BY <1>7, <1>8, <1>9, <2>1, <3>1 DEF UserPoint, Outcome, Ended
  <2> QED BY <2>2, <2>3
<1>13. CASE Receive(u)
  <2>1. Take(u, "recvRmid", "msgrcvFailed") /\ undo' = undo
    BY <1>13 DEF Receive
  <2>2. Kernel'
    BY <1>2, <1>4, <2>1, TakeTypes
  <2>3. CASE Live(u)
    <3>1. key' = key /\ last' = last /\ Goto(u, "recvRmid")
      BY <2>1, <2>3 DEF Take, SetValue
    <3> QED BY <1>7, <1>8, <2>1, <2>2, <3>1 DEF UserPoint, Outcome
  <2>4. CASE ~Live(u)
    <3>1. key' = key /\ last' = last /\ Goto(u, "msgrcvFailed")
      BY <2>1, <2>4 DEF Take, kernel
    <3>2. pc' = [pc EXCEPT ![u] = pc'[u]] /\ pc'[u] = "msgrcvFailed" /\ Creations'
      BY <1>6, <3>1 DEF UserPoint, Ended
    <3>3. QueueRemovedOnce'
      <4>1. \A g : Receivers(g, "received")' = Receivers(g, "received")
        BY <1>1, <1>2, <3>2, Sorts DEF Receivers, TypeOK
      <4>2. Receivers(key, "tooLate")' = Receivers(key, "tooLate")
            /\ Receivers(key, "msgrcvFailed")' = Receivers(key, "msgrcvFailed")
        BY <1>1, <1>2, <2>4, <3>1, <3>2, Sorts DEF Receivers, TypeOK, Live
      <4> QED BY <1>1, <3>1, <4>1, <4>2 DEF Inv, QueueRemovedOnce
    <3> QED BY <1>1, <1>3, <1>4, <1>8, <2>1, <2>2, <3>2, <3>3, UserKeeps DEF UserPoint, Ended
  <2> QED BY <2>3, <2>4
<1>14. CASE RecvRemoves(u)
  <2>1. Remove(u, "received", "tooLate") /\ undo' = undo
    BY <1>14 DEF RecvRemoves
  <2>2. Kernel' /\ last' = last
    BY <1>2, <2>1, RemoveTypes DEF Remove
  <2>3. ASSUME NEW l \in {"received", "tooLate"}, Goto(u, l), QueueRemovedOnce' PROVE Inv'
    <3>1. pc' = [pc EXCEPT ![u] = pc'[u]] /\ pc'[u] = l /\ Creations' /\ l \in UserPoint
      BY <1>6, <2>2, <2>3 DEF UserPoint, Ended
    <3> QED BY <1>1, <1>3, <1>4, <1>8, <2>1, <2>2, <2>3, <3>1, UserKeeps
  <2>4. CASE Live(u)
    <3>1. key' = 0 /\ Goto(u, "received") /\ pc' = [pc EXCEPT ![u] = "received"]
      BY <2>1, <2>4 DEF Remove, Goto
    <3>2. \A g : g # id[u] => Receivers(g, "received")' = Receivers(g, "received")
      BY <1>1, <1>2, <3>1, Sorts DEF Receivers, TypeOK
    <3>3. program = "msg" => Receivers(id[u], "received") = {}
      <4>1. id[u] = key /\ id[u] \in 1..last
        BY <1>2, <1>4, <2>4, Identifies DEF Live
      <4>2. program = "msg" => Cardinality(Receivers(id[u], "received")) = 0
        BY <4>1 DEF Inv, QueueRemovedOnce
      <4>3. IsFiniteSet(Receivers(id[u], "received"))
        BY FiniteSorts, FS_Subset DEF Receivers, Creators
      <4> QED BY <4>2, <4>3, FS_EmptySet
    <3>4. QueueRemovedOnce'
      <4> SUFFICES ASSUME program = "msg", NEW g \in 1..last
                   PROVE  Cardinality(Receivers(g, "received")') = 1
        <5>2. \A g \in 1..last : g # 0
          BY <1>2, Identifies
        <5> QED BY <1>1, <2>2, <3>1, <5>2 DEF QueueRemovedOnce
      <4>1. CASE g = id[u]
        <5>1. Receivers(g, "received")' = Receivers(g, "received") \cup {u}
          BY <1>1, <1>2, <3>1, <4>1, Sorts DEF Receivers, TypeOK
        <5>2. Receivers(g, "received")' = {u}
          BY <1>1, <3>3, <4>1, <5>1
        <5> QED BY <5>2, FS_Singleton
      <4>2. CASE g # id[u]
        <5>2. Cardinality(Receivers(g, "received")) = 1
          BY <2>4, <4>2 DEF Inv, QueueRemovedOnce, Live
        <5> QED BY <3>2, <4>2, <5>2
      <4> QED BY <4>1, <4>2
    <3> QED BY <2>3, <3>1, <3>4
  <2>5. CASE ~Live(u)
    <3>1. key' = key /\ Goto(u, "tooLate") /\ pc' = [pc EXCEPT ![u] = "tooLate"]
      BY <2>1, <2>5 DEF Remove, Goto
    <3>2. \A g : Receivers(g, "received")' = Receivers(g, "received")
      BY <1>1, <1>2, <3>1, Sorts DEF Receivers, TypeOK
    <3>3. Receivers(key, "tooLate")' = Receivers(key, "tooLate")
          /\ Receivers(key, "msgrcvFailed")' = Receivers(key, "msgrcvFailed")
      BY <1>1, <1>2, <2>5, <3>1, Sorts DEF Receivers, TypeOK, Live
    <3>4. QueueRemovedOnce'
      BY <1>1, <2>2, <3>1, <3>2, <3>3 DEF Inv, QueueRemovedOnce
    <3> QED BY <2>3, <3>1, <3>4
  <2> QED BY <2>4, <2>5
<1>15. CASE SemInit(u)
  <2>1. PICK x \in 0..1 : SetValue(u, x)
    BY <1>15 DEF SemInit
  <2>2. undo' \in [Process -> {0, 1}] /\ Goto(u, "ok")
    BY <1>15 DEF SemInit
  <2> QED BY <1>7, <1>10, <2>1, <2>2 DEF UserPoint, Outcome, Ended
<1>16. CASE SemP(u)
  <2>1. undo' = undo
    BY <1>16 DEF SemP
  <2>2. CASE Take(u, "ok", "semopFailed")
    <3>1. Kernel'
      BY <1>2, <1>4, <2>2, TakeTypes
    <3>2. key' = key /\ last' = last /\ (Goto(u, "ok") \/ Goto(u, "semopFailed"))
      BY <2>2 DEF Take, SetValue, kernel
    <3> QED BY <1>7, <1>8, <2>1, <3>1, <3>2 DEF UserPoint, Outcome, Ended
  <2>3. CASE /\ IF Value(u) > 0 THEN SetValue(u, Value(u) - 1) ELSE UNCHANGED kernel
             /\ Goto(u, IF Value(u) > 0 THEN "ok" ELSE "EAGAIN")
    <3>1. CASE Value(u) > 0
      <4>1. SetValue(u, Value(u) - 1) /\ Goto(u, "ok")
        BY <2>3, <3>1
      <4>2. Value(u) - 1 \in Nat
        BY <1>4, <3>1
      <4> QED BY <1>7, <1>8, <1>10, <2>1, <4>1, <4>2 DEF UserPoint, Outcome, Ended
    <3>2. CASE ~(Value(u) > 0)
      BY <1>7, <1>8, <1>9, <2>1, <2>3, <3>2 DEF UserPoint, Outcome, Ended
    <3> QED BY <3>1, <3>2
  <2> QED BY <1>16, <2>2, <2>3 DEF SemP
<1>17. CASE SemV(u)
  <2>1. Value(u) + 1 \in Nat /\ SetValue(u, Value(u) + 1) /\ Goto(u, "exit")
    BY <1>4, <1>17 DEF SemV
  <2>2. undo' \in [Process -> {0, 1}]
    BY <1>2, <1>17 DEF SemV, TypeOK
  <2> QED BY <1>7, <1>10, <2>1, <2>2 DEF UserPoint, Outcome
<1>18. CASE SemVExit(u)
  <2>1. SetValue(u, IF Value(u) >= undo[u] THEN Value(u) - undo[u] ELSE 0) /\ Goto(u, "ok")
    BY <1>18 DEF SemVExit
  <2>2. undo[u] \in {0, 1}
    BY <1>2 DEF TypeOK
  <2>3. (IF Value(u) >= undo[u] THEN Value(u) - undo[u] ELSE 0) \in Nat
    BY <1>4, <2>2
  <2>4. undo' \in [Process -> {0, 1}]
    BY <1>2, <1>18 DEF SemVExit, TypeOK
  <2> QED BY <1>7, <1>10, <2>1, <2>3, <2>4 DEF UserPoint, Outcome, Ended
<1> QED BY <1>11, <1>12, <1>13, <1>14, <1>15, <1>16, <1>17, <1>18 DEF UserStep

-----------------------------------------------------------------------------
(* Instances of pv.c and their children.                                   *)
ParentPoint == {"initsemFailed", "setval", "fork", "wait", "rmid", "done", "removesemFailed"}
Forked == {"fork", "wait", "rmid", "done", "removesemFailed"}
Waited == {"rmid", "done", "removesemFailed"}

(* Those in the critical section of a generation are finitely many.        *)
LEMMA FewInside ==
    ASSUME NEW g
    PROVE  IsFiniteSet(Inside(g)) /\ Cardinality(Inside(g)) \in Nat
BY FiniteSorts, FS_Subset, FS_CardinalityType DEF Inside

(* What a child that works knows of its parent.                            *)
LEMMA Working ==
    ASSUME Inv, NEW c \in Child, pc[c] \in {"p", "critical"}
    PROVE  /\ program = "pv" /\ id[c] # 0 /\ id[c] = id[Parent(c)]
           /\ pc[Parent(c)] \in {"fork", "wait"} /\ round[c] < ROUNDS
           /\ Alone(Parent(c)) => Live(c)
<1>1. program = "pv" /\ ~Idle(c) /\ Parent(c) \in Main /\ c \in Process
  BY Sorts DEF Inv, Kinds, Idle
<1>2. id[c] # 0
  BY <1>1 DEF Inv, Kinds
<1>3. id[c] = id[Parent(c)] /\ pc[Parent(c)] \in {"fork", "wait"} /\ round[c] < ROUNDS
  BY <1>1 DEF Inv, Family
<1>4. Alone(Parent(c)) => Live(c)
  BY <1>1, <1>2, <1>3 DEF Inv, AloneWorks, Live
<1> QED BY <1>1, <1>2, <1>3, <1>4

(* A step of a main program.                                               *)
LEMMA ParentKeeps ==
    ASSUME Inv, NEW m \in Main, program = "pv",
           pc' = [pc EXCEPT ![m] = pc'[m]], pc'[m] \in ParentPoint,
           id' = [id EXCEPT ![m] = id'[m]], id'[m] # 0, id'[m] = id[m] \/ Idle(m),
           Kernel', Creations', disturbed \subseteq disturbed', disturbed' \subseteq Generation,
           \A g \in Generation \ disturbed' : val'[g] = val[g] \/ (val'[g] = 1 /\ Inside(g) = {}),
           pc[m] \in Forked => pc'[m] \in Forked,
           pc'[m] \in Waited => \A c \in Children(m) : pc[c] \in {"none", "exited"},
           Alone(m)' => /\ pc'[m] \notin {"initsemFailed", "removesemFailed"}
                        /\ pc'[m] # "done" => Live(m)',
           \A n \in Main \ {m} : id[n] # 0 /\ id[n] # id[m] /\ Live(n) => Live(n)',
           UNCHANGED <<program, zero, round, undo>>
    PROVE  Inv'
<1>1. TypeOK /\ Kinds /\ m \in Process /\ m \notin Child /\ m \notin User
  BY Sorts DEF Inv
<1>2. \A p \in Process : p # m => pc'[p] = pc[p] /\ id'[p] = id[p]
  BY <1>1 DEF TypeOK
<1>3. TypeOK'
  <2>1. pc'[m] \in Ended \cup {"setval", "fork", "wait", "rmid"}
    BY DEF ParentPoint, Ended
  <2>2. pc' \in [Process -> Ended \cup {"setval", "fork", "wait", "rmid", "p", "critical",
                    "stat", "snd", "rcv", "recvRmid", "init", "semp", "sempNowait",
                    "semv", "semvUndo", "exit"}]
    BY <1>1, <2>1 DEF TypeOK
  <2> QED BY <1>1, <2>2 DEF TypeOK, Kernel
<1>4. Kinds'
  <2>1. pc'[m] # "none"
    BY DEF ParentPoint
  <2>2. \A n \in Main : pc'[n] \in {"none", "initsemFailed", "setval", "fork", "wait", "rmid",
                                    "done", "removesemFailed"}
    BY <1>1, <1>2, Sorts DEF Kinds, ParentPoint
  <2>3. \A c \in Child : pc'[c] \in {"none", "p", "critical", "exited"}
    BY <1>1, <1>2, Sorts DEF Kinds
  <2>4. \A u \in User : pc'[u] = "none"
    BY <1>1, <1>2, Sorts DEF Kinds, Idle
  <2>5. \A p \in Process : Idle(p)' => id'[p] = 0
    BY <1>1, <1>2, <2>1 DEF Kinds, Idle
  <2>6. \A p \in Process : ~Idle(p)' => id'[p] # 0 \/ pc'[p] \in {"noSemaphore", "msggetFailed"}
    BY <1>1, <1>2 DEF Kinds, Idle
  <2> QED BY <2>2, <2>3, <2>4, <2>5, <2>6 DEF Kinds, Idle
<1>5. Family'
  <2> SUFFICES ASSUME NEW c \in Child
               PROVE  /\ ~Idle(c)' => id'[c] = id'[Parent(c)] /\ pc'[Parent(c)] \in Forked
                      /\ pc'[Parent(c)] \in Waited => pc'[c] \in {"none", "exited"}
                      /\ pc'[c] \in {"none", "p", "critical"} => round'[c] < ROUNDS
    BY DEF Family, Forked, Waited
  <2>1. Parent(c) \in Main /\ Parent(c) \in Process /\ c \in Process /\ c # m
    BY <1>1, Sorts
  <2>2. pc'[c] = pc[c] /\ id'[c] = id[c] /\ round'[c] = round[c]
    BY <1>2, <2>1
  <2>3. /\ ~Idle(c) => id[c] = id[Parent(c)] /\ pc[Parent(c)] \in Forked
        /\ pc[Parent(c)] \in Waited => pc[c] \in {"none", "exited"}
        /\ pc[c] \in {"none", "p", "critical"} => round[c] < ROUNDS
    BY DEF Inv, Family, Forked, Waited
  <2>4. CASE Parent(c) = m
    <3>1. Idle(m) => Idle(c)
      BY <2>3, <2>4 DEF Idle, Forked
    <3>2. c \in Children(m)
      BY <2>4 DEF Children
    <3> QED BY <2>2, <2>3, <2>4, <3>1, <3>2 DEF Idle
  <2>5. CASE Parent(c) # m
    BY <1>2, <2>1, <2>2, <2>3, <2>5 DEF Idle
  <2> QED BY <2>4, <2>5
<1>6. AloneWorks'
  <2> SUFFICES ASSUME NEW n \in Main, id'[n] # 0, Alone(n)'
               PROVE  /\ pc'[n] \in {"setval", "fork", "wait", "rmid", "done"}
                      /\ pc'[n] # "done" => Live(n)'
                      /\ \A c \in Children(n) : pc'[c] = "exited" => round'[c] = ROUNDS
    BY DEF AloneWorks, Children, Parent, Child
  <2>1. \A c \in Children(n) : pc'[c] = pc[c] /\ round'[c] = round[c]
    BY <1>1, <1>2, Sorts DEF Children
  <2>2. ASSUME id[n] # 0, id'[n] = id[n] PROVE Alone(n)
    <3> SUFFICES ASSUME NEW k \in Main \ {n}, id[k] = id[n] PROVE FALSE
      BY DEF Alone
    <3>1. id'[k] = id[k]
      <4>1. CASE k = m
        BY <1>1, <2>2, <4>1 DEF Kinds
      <4>2. CASE k # m
        BY <1>2, <4>2, Sorts
      <4> QED BY <4>1, <4>2
    <3> QED BY <2>2, <3>1 DEF Alone
  <2>3. CASE n = m
    <3>1. pc'[n] \in {"setval", "fork", "wait", "rmid", "done"} /\ (pc'[n] # "done" => Live(n)')
      BY <2>3 DEF ParentPoint
    <3>2. CASE Idle(m)
      <4>1. \A c \in Children(n) : pc[c] = "none"
        BY <2>3, <3>2 DEF Inv, Family, Children, Idle
      <4> QED BY <2>1, <3>1, <4>1
    <3>3. CASE ~Idle(m)
      <4>1. Alone(n) /\ id[n] # 0
        BY <2>2, <2>3, <3>3
      <4>2. \A c \in Children(n) : pc[c] = "exited" => round[c] = ROUNDS
        BY <4>1 DEF Inv, AloneWorks
      <4> QED BY <2>1, <3>1, <4>2
    <3> QED BY <3>2, <3>3
  <2>4. CASE n # m
    <3>1. pc'[n] = pc[n] /\ id'[n] = id[n] /\ id[n] # 0
      BY <1>2, <2>4, Sorts
    <3>2. Alone(n) /\ id[m] # id[n]
      BY <2>2, <2>4, <3>1 DEF Alone
    <3>3. /\ pc[n] \in {"setval", "fork", "wait", "rmid", "done"}
          /\ pc[n] # "done" => Live(n)
          /\ \A c \in Children(n) : pc[c] = "exited" => round[c] = ROUNDS
      BY <3>1, <3>2 DEF Inv, AloneWorks
    <3>4. Live(n) => Live(n)'
      BY <2>4, <3>1, <3>2
    <3> QED BY <2>1, <3>1, <3>3, <3>4
  <2> QED BY <2>3, <2>4
<1>7. MutexHolds'
  <2> SUFFICES ASSUME NEW g \in Generation \ disturbed'
               PROVE  val'[g] + Cardinality(Inside(g)') <= 1
    BY DEF MutexHolds
  <2>1. Inside(g)' = Inside(g)
    BY <1>1, <1>2, Sorts DEF Inside
  <2>2. val[g] + Cardinality(Inside(g)) <= 1
    BY DEF Inv, MutexHolds
  <2>3. Inside(g) = {} => Cardinality(Inside(g)) = 0
    BY FS_EmptySet
  <2> QED BY <2>1, <2>2, <2>3
<1>8. QueueRemovedOnce'
  BY DEF QueueRemovedOnce
<1> QED BY <1>3, <1>4, <1>5, <1>6, <1>7, <1>8 DEF Inv

(* Main programs.                                                          *)
LEMMA MainStepInv ==
    ASSUME Inv, NEW m \in Main, InitSem(m) \/ MainStep(m)
    PROVE  Inv' \/ \E c \in Children(m) : ForkChild(m, c)
<1>1. TypeOK /\ m \in Process /\ m \in Creators /\ m \notin Child
  BY Sorts DEF Inv
<1>2. ASSUME NEW l \in ParentPoint, Goto(m, l)
      PROVE  pc' = [pc EXCEPT ![m] = pc'[m]] /\ pc'[m] = l
  BY <1>1, <1>2 DEF Goto, TypeOK
<1>3. disturbed \subseteq Generation
  BY <1>1 DEF TypeOK
<1>4. CASE InitSem(m)
  <2>1. /\ program = "pv" /\ Idle(m) /\ GetOrCreate(m)
        /\ UNCHANGED <<program, zero, round, undo, disturbed>>
    BY <1>4 DEF InitSem, Idle
  <2>2. /\ Kernel' /\ id' = [id EXCEPT ![m] = key'] /\ val' = val /\ key' # 0
        /\ last' \in {last, last + 1} /\ (key # 0 => key' = key)
    BY <1>1, <2>1, GetTypes
  <2>3. id'[m] = key'
    BY <1>1, <2>2 DEF TypeOK
  <2>4. PICK l \in {"fork", "setval"} : Goto(m, l)
    BY <1>4 DEF InitSem
  <2>5. pc' = [pc EXCEPT ![m] = pc'[m]] /\ pc'[m] = l
    BY <1>2, <2>4 DEF ParentPoint
  <2>6. Creations'
    BY <1>1, <2>1, <2>2, <2>5, CreationsStart
  <2>7. pc[m] \notin Forked /\ l \in ParentPoint /\ l \notin Waited
    BY <2>1 DEF Idle, Forked, Waited, ParentPoint
  <2>8. Live(m)'
    BY <2>3 DEF Live
  <2>9. \A n \in Main \ {m} : id[n] # 0 /\ id[n] # id[m] /\ Live(n) => Live(n)'
    BY <1>1, <2>2, Sorts DEF Live, TypeOK
  <2>10. id' = [id EXCEPT ![m] = id'[m]] /\ id'[m] # 0
    BY <2>2, <2>3
  <2> QED BY <1>3, <2>1, <2>2, <2>5, <2>6, <2>7, <2>8, <2>9, <2>10, ParentKeeps
<1>5. ASSUME NEW l \in ParentPoint, Goto(m, l), ~Idle(m), UNCHANGED <<program, zero, last, id, round, undo>>
      PROVE  /\ program = "pv" /\ pc' = [pc EXCEPT ![m] = pc'[m]] /\ pc'[m] = l
             /\ id[m] # 0 /\ id[m] \in Generation /\ id' = [id EXCEPT ![m] = id'[m]] /\ Creations'
             /\ Alone(m)' => Alone(m)
  <2>1. pc' = [pc EXCEPT ![m] = pc'[m]] /\ pc'[m] = l /\ l # "none"
    BY <1>2, <1>5 DEF ParentPoint
  <2>2. program = "pv" /\ id[m] # 0
    BY <1>1, <1>5 DEF Inv, Kinds, Idle
  <2>3. id[m] \in Generation
    BY <1>1, <2>2, Identifies
  <2>4. \A p \in Creators : Idle(p)' <=> Idle(p)
    BY <1>1, <1>5, <2>1, Sorts DEF Idle, TypeOK
  <2>5. Creations'
    BY <1>5, <2>4, CreationsSame
  <2>6. Alone(m)' => Alone(m)
    BY <1>5 DEF Alone
  <2> QED BY <1>1, <1>5, <2>1, <2>2, <2>3, <2>5, <2>6 DEF TypeOK
<1>6. ASSUME UNCHANGED <<kernel, id>> PROVE Kernel'
  BY <1>1, <1>6 DEF kernel, Kernel, TypeOK
<1>7. CASE SetVal(m)
  <2>1. /\ pc[m] = "setval" /\ ~Idle(m) /\ UNCHANGED <<program, zero, last, id, round, undo>>
        /\ key' = key
    BY <1>7 DEF SetVal, SetValue, kernel, Idle
  <2>2. pc[m] \notin Forked
    BY <2>1 DEF Forked
  <2>3. \A n \in Main \ {m} : Live(n) => Live(n)'
    BY <2>1 DEF Live
  <2>4. CASE Live(m)
    <3>1. SetValue(m, 1) /\ Goto(m, "fork")
      BY <1>7, <2>4 DEF SetVal
    <3>2. /\ program = "pv" /\ pc' = [pc EXCEPT ![m] = pc'[m]] /\ pc'[m] = "fork"
          /\ id[m] # 0 /\ id[m] \in Generation /\ id' = [id EXCEPT ![m] = id'[m]] /\ Creations'
      BY <1>5, <2>1, <3>1 DEF ParentPoint
    <3>3. Kernel'
      BY <1>1, <2>1, <3>1, SetTypes
    <3>4. /\ disturbed' = IF Inside(id[m]) # {} THEN disturbed \cup {id[m]} ELSE disturbed
          /\ val' = [val EXCEPT ![id[m]] = 1]
      BY <1>7, <2>4, <3>1 DEF SetVal, SetValue
    <3>5. \A g \in Generation \ disturbed' : val'[g] = val[g] \/ (val'[g] = 1 /\ Inside(g) = {})
      BY <1>1, <3>4 DEF TypeOK
    <3>6. disturbed \subseteq disturbed' /\ disturbed' \subseteq Generation
      BY <1>3, <3>2, <3>4
    <3>7. Live(m)'
      BY <2>1, <2>4 DEF Live
    <3>8. "fork" \in ParentPoint /\ "fork" \notin Waited
          /\ "fork" \notin {"initsemFailed", "removesemFailed"}
      BY DEF ParentPoint, Waited
    <3>9. id'[m] # 0 /\ id'[m] = id[m]
      BY <2>1, <3>2
    <3> QED BY <2>1, <2>2, <2>3, <3>2, <3>3, <3>5, <3>6, <3>7, <3>8, <3>9, ParentKeeps
  <2>5. CASE ~Live(m)
    <3>1. UNCHANGED kernel /\ Goto(m, "initsemFailed") /\ disturbed' = disturbed
      BY <1>7, <2>5 DEF SetVal
    <3>2. /\ program = "pv" /\ pc' = [pc EXCEPT ![m] = pc'[m]] /\ pc'[m] = "initsemFailed"
          /\ id[m] # 0 /\ id' = [id EXCEPT ![m] = id'[m]] /\ Creations' /\ (Alone(m)' => Alone(m))
      BY <1>5, <2>1, <3>1 DEF ParentPoint
    <3>3. ~Alone(m)'
      <4> SUFFICES ASSUME Alone(m) PROVE FALSE
        BY <3>2
      <4> QED BY <2>1, <2>5, <3>2 DEF Inv, AloneWorks
    <3>4. Kernel' /\ val' = val
      BY <1>6, <2>1, <3>1 DEF kernel
    <3>5. "initsemFailed" \in ParentPoint /\ "initsemFailed" \notin Waited
      BY DEF ParentPoint, Waited
    <3>6. id'[m] # 0 /\ id'[m] = id[m]
      BY <2>1, <3>2
    <3> QED BY <1>3, <2>1, <2>2, <2>3, <3>1, <3>2, <3>3, <3>4, <3>5, <3>6, ParentKeeps
  <2> QED BY <2>4, <2>5
<1>8. ASSUME NEW l \in {"wait", "rmid"}, Goto(m, l), pc[m] \in {"fork", "wait"},
             l = "rmid" => \A c \in Children(m) : pc[c] \in {"none", "exited"},
             UNCHANGED <<program, zero, kernel, id, round, undo, disturbed>>
      PROVE  Inv'
  <2>1. ~Idle(m) /\ UNCHANGED <<key, last, val>> /\ l \in ParentPoint /\ l \in Forked
    BY <1>8 DEF Idle, kernel, ParentPoint, Forked
  <2>2. /\ program = "pv" /\ pc' = [pc EXCEPT ![m] = pc'[m]] /\ pc'[m] = l
        /\ id[m] # 0 /\ id' = [id EXCEPT ![m] = id'[m]] /\ Creations' /\ (Alone(m)' => Alone(m))
    BY <1>5, <1>8, <2>1
  <2>3. Kernel'
    BY <1>6, <1>8
  <2>4. \A n \in Main : Live(n) => Live(n)'
    BY <1>8, <2>1 DEF Live
  <2>5. Alone(m) => Live(m)
    BY <1>8, <2>2 DEF Inv, AloneWorks
  <2>6. Alone(m)' => l \notin {"initsemFailed", "removesemFailed"} /\ Live(m)'
    BY <2>2, <2>4, <2>5
  <2>7. l \in Waited => \A c \in Children(m) : pc[c] \in {"none", "exited"}
    BY <1>8 DEF Waited
  <2>8. id'[m] # 0 /\ id'[m] = id[m]
    BY <1>8, <2>2
  <2> QED BY <1>3, <1>8, <2>1, <2>2, <2>3, <2>4, <2>6, <2>7, <2>8, ParentKeeps
<1>9. CASE ForkEnds(m)
  BY <1>8, <1>9 DEF ForkEnds
<1>10. CASE WaitAll(m)
  BY <1>8, <1>10 DEF WaitAll
<1>11. CASE RemoveSem(m)
  <2>1. /\ pc[m] = "rmid" /\ ~Idle(m) /\ Remove(m, "done", "removesemFailed")
        /\ UNCHANGED <<program, zero, last, val, id, round, undo, disturbed>>
    BY <1>11 DEF RemoveSem, Remove, Idle
  <2>2. PICK l \in {"done", "removesemFailed"} : Goto(m, l) /\ l = IF Live(m) THEN "done" ELSE "removesemFailed"
    BY <2>1 DEF Remove
  <2>3. l \in ParentPoint /\ l \in Forked
    BY DEF ParentPoint, Forked
  <2>4. /\ program = "pv" /\ pc' = [pc EXCEPT ![m] = pc'[m]] /\ pc'[m] = l
        /\ id[m] # 0 /\ id' = [id EXCEPT ![m] = id'[m]] /\ Creations' /\ (Alone(m)' => Alone(m))
    BY <1>5, <2>1, <2>2, <2>3
  <2>5. Kernel'
    BY <1>1, <2>1, RemoveTypes
  <2>6. Alone(m) => Live(m)
    BY <2>1, <2>4 DEF Inv, AloneWorks
  <2>7. Alone(m)' => l = "done"
    BY <2>2, <2>4, <2>6
  <2>8. \A n \in Main \ {m} : id[n] # 0 /\ id[n] # id[m] /\ Live(n) => Live(n)'
    BY <2>1 DEF Remove, Live
  <2>9. \A c \in Children(m) : pc[c] \in {"none", "exited"}
    BY <2>1 DEF Inv, Family, Children
  <2>10. id'[m] # 0 /\ id'[m] = id[m]
    BY <2>1, <2>4
  <2>11. Alone(m)' => /\ pc'[m] \notin {"initsemFailed", "removesemFailed"}
                      /\ pc'[m] # "done" => Live(m)'
    BY <2>4, <2>7
  <2> QED BY <1>3, <2>1, <2>3, <2>4, <2>5, <2>8, <2>9, <2>10, <2>11, ParentKeeps
<1> QED BY <1>4, <1>7, <1>9, <1>10, <1>11 DEF MainStep

(* A step of a child, its fork() included.                                 *)
LEMMA ChildKeeps ==
    ASSUME Inv, NEW c \in Child, program = "pv",
           pc' = [pc EXCEPT ![c] = pc'[c]], pc'[c] \in {"p", "critical", "exited"},
           id' = [id EXCEPT ![c] = id'[c]], id'[c] = id[Parent(c)], id[Parent(c)] # 0,
           pc[Parent(c)] \in {"fork", "wait"},
           round' = [round EXCEPT ![c] = round'[c]], round'[c] \in 0..ROUNDS,
           pc'[c] # "exited" => round'[c] < ROUNDS,
           pc'[c] = "exited" => round'[c] = ROUNDS \/ ~Alone(Parent(c)),
           Kernel', MutexHolds',
           UNCHANGED <<program, zero, key, last, undo, disturbed>>
    PROVE  Inv'
<1>1. TypeOK /\ Kinds /\ c \in Process /\ c \notin Main /\ c \notin User /\ c \notin Creators
  BY Sorts DEF Inv
<1>2. \A p \in Process : p # c => pc'[p] = pc[p] /\ id'[p] = id[p]
  BY <1>1 DEF TypeOK
<1>3. TypeOK'
  <2>1. pc'[c] \in Ended \cup {"p", "critical"}
    BY DEF Ended
  <2>2. pc' \in [Process -> Ended \cup {"setval", "fork", "wait", "rmid", "p", "critical",
                    "stat", "snd", "rcv", "recvRmid", "init", "semp", "sempNowait",
                    "semv", "semvUndo", "exit"}]
    BY <1>1, <2>1 DEF TypeOK
  <2>3. round' \in [Child -> 0..ROUNDS]
    BY <1>1 DEF TypeOK
  <2> QED BY <1>1, <2>2, <2>3 DEF TypeOK, Kernel
<1>4. Kinds'
  <2>1. \A n \in Main : pc'[n] \in {"none", "initsemFailed", "setval", "fork", "wait", "rmid",
                                    "done", "removesemFailed"}
    BY <1>1, <1>2, Sorts DEF Kinds
  <2>2. \A d \in Child : pc'[d] \in {"none", "p", "critical", "exited"}
    BY <1>1, <1>2, Sorts DEF Kinds
  <2>3. \A u \in User : pc'[u] = "none"
    BY <1>1, <1>2, Sorts DEF Kinds, Idle
  <2>4. \A p \in Process : Idle(p)' => id'[p] = 0
    BY <1>1, <1>2 DEF Kinds, Idle
  <2>5. \A p \in Process : ~Idle(p)' => id'[p] # 0 \/ pc'[p] \in {"noSemaphore", "msggetFailed"}
    BY <1>1, <1>2 DEF Kinds, Idle
  <2> QED BY <2>1, <2>2, <2>3, <2>4, <2>5 DEF Kinds, Idle
<1>5. \A n \in Main : pc'[n] = pc[n] /\ id'[n] = id[n]
  BY <1>1, <1>2, Sorts
<1>6. Family'
  <2> SUFFICES ASSUME NEW d \in Child
               PROVE  /\ ~Idle(d)' => id'[d] = id'[Parent(d)] /\ pc'[Parent(d)] \in Forked
                      /\ pc'[Parent(d)] \in Waited => pc'[d] \in {"none", "exited"}
                      /\ pc'[d] \in {"none", "p", "critical"} => round'[d] < ROUNDS
    BY DEF Family, Forked, Waited
  <2>1. pc'[Parent(d)] = pc[Parent(d)] /\ id'[Parent(d)] = id[Parent(d)]
    BY <1>5, Sorts
  <2>2. CASE d = c
    BY <2>1, <2>2 DEF Forked, Waited
  <2>3. CASE d # c
    <3>1. pc'[d] = pc[d] /\ id'[d] = id[d] /\ round'[d] = round[d]
      BY <1>1, <1>2, <2>3, Sorts DEF TypeOK
    <3> QED BY <2>1, <3>1 DEF Inv, Family, Forked, Waited, Idle
  <2> QED BY <2>2, <2>3
<1>7. AloneWorks'
  <2> SUFFICES ASSUME NEW n \in Main, id'[n] # 0, Alone(n)'
               PROVE  /\ pc'[n] \in {"setval", "fork", "wait", "rmid", "done"}
                      /\ pc'[n] # "done" => Live(n)'
                      /\ \A d \in Children(n) : pc'[d] = "exited" => round'[d] = ROUNDS
    BY DEF AloneWorks, Children, Parent, Child
  <2>1. id[n] # 0 /\ Alone(n)
    BY <1>5 DEF Alone
  <2>2. /\ pc[n] \in {"setval", "fork", "wait", "rmid", "done"}
        /\ pc[n] # "done" => Live(n)
        /\ \A d \in Children(n) : pc[d] = "exited" => round[d] = ROUNDS
    BY <2>1 DEF Inv, AloneWorks
  <2>3. ASSUME NEW d \in Children(n), pc'[d] = "exited" PROVE round'[d] = ROUNDS
    <3>1. d \in Child /\ Parent(d) = n
      BY DEF Children
    <3>2. CASE d = c
      BY <2>1, <2>3, <3>1, <3>2
    <3>3. CASE d # c
      BY <1>1, <1>2, <2>2, <2>3, <3>1, <3>3, Sorts DEF TypeOK
    <3> QED BY <3>2, <3>3
  <2> QED BY <1>5, <2>2, <2>3 DEF Live
<1>8. Creations'
  <2>1. \A p \in Creators : Idle(p)' <=> Idle(p)
    BY <1>1, <1>2, Sorts DEF Idle
  <2> QED BY <2>1, CreationsSame
<1>9. QueueRemovedOnce'
  BY DEF QueueRemovedOnce
<1> QED BY <1>3, <1>4, <1>6, <1>7, <1>8, <1>9 DEF Inv

(* fork() in main() of pv.c.                                               *)
LEMMA ForkChildInv ==
    ASSUME Inv, NEW m \in Main, NEW c \in Children(m), ForkChild(m, c)
    PROVE  Inv'
<1>1. /\ c \in Child /\ Parent(c) = m /\ c \in Process /\ m \in Process /\ c \notin Main
      /\ TypeOK
  BY Sorts DEF Children, Inv
<1>2. /\ pc[m] = "fork" /\ pc[c] = "none" /\ Goto(c, "p") /\ id' = [id EXCEPT ![c] = id[m]]
      /\ UNCHANGED <<program, zero, key, last, val, round, undo, disturbed>>
  BY DEF ForkChild, Unforked, kernel
<1>3. program = "pv" /\ id[m] # 0
  BY <1>1, <1>2 DEF Inv, Kinds, Idle
<1>4. pc' = [pc EXCEPT ![c] = "p"] /\ pc'[c] = "p" /\ id'[c] = id[m]
  BY <1>1, <1>2 DEF Goto, TypeOK
<1>5. round[c] < ROUNDS /\ round' = [round EXCEPT ![c] = round'[c]] /\ round'[c] \in 0..ROUNDS
  BY <1>1, <1>2 DEF Inv, Family, TypeOK
<1>6. Kernel'
  BY <1>1, <1>2 DEF Kernel, TypeOK
<1>7. MutexHolds'
  <2> SUFFICES ASSUME NEW g \in Generation \ disturbed
               PROVE  val'[g] + Cardinality(Inside(g)') <= 1
    BY <1>2 DEF MutexHolds
  <2>1. Inside(g)' = Inside(g)
    BY <1>1, <1>2, <1>4, Sorts DEF Inside, TypeOK
  <2> QED BY <1>2, <1>3, <2>1 DEF Inv, MutexHolds
<1>8. /\ pc' = [pc EXCEPT ![c] = pc'[c]] /\ pc'[c] \in {"p", "critical", "exited"} /\ pc'[c] # "exited"
      /\ id' = [id EXCEPT ![c] = id'[c]] /\ pc[m] \in {"fork", "wait"} /\ round'[c] < ROUNDS
  BY <1>2, <1>4, <1>5
<1> QED BY <1>1, <1>2, <1>3, <1>4, <1>5, <1>6, <1>7, <1>8, ChildKeeps

(* A step of a child takes from the value what it adds to the critical     *)
(* section, or less, and leaves the other generations alone.               *)
LEMMA ChildSums ==
    ASSUME Inv, NEW c \in Child, ChildStep(c)
    PROVE  /\ Kernel'
           /\ \A g \in Generation :
                 val'[g] + Cardinality(Inside(g)') <= val[g] + Cardinality(Inside(g))
<1>1. TypeOK /\ c \in Process
  BY Sorts DEF Inv
<1>2. pc[c] \in {"p", "critical"} /\ id' = id /\ UNCHANGED <<key, last>>
  BY DEF ChildStep, P, V, Take, SetValue, kernel
<1>3. id[c] # 0 /\ id[c] \in Generation /\ Value(c) \in Nat
  BY <1>1, <1>2, Working, Identifies
<1>4. val[id[c]] \in Nat /\ val[id[c]] = Value(c)
  BY <1>1, <1>3 DEF TypeOK, Value
<1>5. ASSUME NEW l \in {"p", "critical", "exited"}, Goto(c, l), Kernel',
             val' = [val EXCEPT ![id[c]] = val'[id[c]]],
             val'[id[c]] + Cardinality(Inside(id[c])') <= val[id[c]] + Cardinality(Inside(id[c]))
      PROVE  /\ Kernel'
             /\ \A g \in Generation :
                   val'[g] + Cardinality(Inside(g)') <= val[g] + Cardinality(Inside(g))
  <2> SUFFICES ASSUME NEW g \in Generation
               PROVE  val'[g] + Cardinality(Inside(g)') <= val[g] + Cardinality(Inside(g))
    BY <1>5
  <2>1. CASE g = id[c]
    <3>1. Inside(g)' = Inside(id[c])'
      BY <1>2, <2>1 DEF Inside
    <3> QED BY <1>5, <2>1, <3>1
  <2>2. CASE g # id[c]
    <3>1. Inside(g)' = Inside(g)
      BY <1>1, <1>2, <1>5, <2>2, Sorts DEF Inside, Goto, TypeOK
    <3>2. val'[g] = val[g] /\ val[g] \in Nat
      BY <1>1, <1>5, <2>2 DEF TypeOK
    <3> QED BY <3>1, <3>2, FewInside
  <2> QED BY <2>1, <2>2
<1>6. ASSUME NEW l \in {"p", "critical", "exited"}, Goto(c, l) PROVE pc' = [pc EXCEPT ![c] = l]
  BY <1>6 DEF Goto
<1>7. CASE P(c)
  <2>1. pc[c] = "p" /\ Take(c, "critical", "exited")
    BY <1>7 DEF P
  <2>2. Kernel'
    BY <1>1, <1>3, <2>1, TakeTypes
  <2>3. CASE Live(c)
    <3>1. Goto(c, "critical") /\ val' = [val EXCEPT ![id[c]] = Value(c) - 1]
      BY <2>1, <2>3 DEF Take, SetValue
    <3>2. Inside(id[c])' = Inside(id[c]) \cup {c} /\ c \notin Inside(id[c])
      BY <1>1, <1>2, <1>6, <2>1, <3>1, Sorts DEF Inside, TypeOK
    <3>3. Cardinality(Inside(id[c])') = Cardinality(Inside(id[c])) + 1
      BY <3>2, FewInside, FS_AddElement
    <3>4. val'[id[c]] = val[id[c]] - 1 /\ val' = [val EXCEPT ![id[c]] = val'[id[c]]]
      BY <1>1, <1>3, <1>4, <3>1 DEF TypeOK
    <3>5. val'[id[c]] + Cardinality(Inside(id[c])') <= val[id[c]] + Cardinality(Inside(id[c]))
      BY <1>4, <3>3, <3>4, FewInside
    <3> QED BY <1>5, <2>2, <3>1, <3>4, <3>5
  <2>4. CASE ~Live(c)
    <3>1. Goto(c, "exited") /\ val' = val
      BY <2>1, <2>4 DEF Take, kernel
    <3>2. Inside(id[c])' = Inside(id[c])
      BY <1>1, <1>2, <1>6, <2>1, <3>1, Sorts DEF Inside, TypeOK
    <3>3. val' = [val EXCEPT ![id[c]] = val'[id[c]]]
      BY <1>1, <3>1 DEF TypeOK
    <3>4. val'[id[c]] + Cardinality(Inside(id[c])') <= val[id[c]] + Cardinality(Inside(id[c]))
      BY <1>4, <3>1, <3>2, FewInside
    <3> QED BY <1>5, <2>2, <3>1, <3>3, <3>4
  <2> QED BY <2>3, <2>4
<1>8. CASE V(c)
  <2>1. pc[c] = "critical" /\ Goto(c, IF Live(c) /\ round[c] + 1 < ROUNDS THEN "p" ELSE "exited")
    BY <1>8 DEF V
  <2>2. PICK l \in {"p", "exited"} : Goto(c, l)
    BY <2>1
  <2>3. Inside(id[c])' = Inside(id[c]) \ {c} /\ c \in Inside(id[c])
    BY <1>1, <1>2, <1>6, <2>1, <2>2, Sorts DEF Inside, TypeOK
  <2>4. Cardinality(Inside(id[c])') = Cardinality(Inside(id[c])) - 1
    BY <2>3, FewInside, FS_RemoveElement
  <2>5. /\ Kernel' /\ val' = [val EXCEPT ![id[c]] = val'[id[c]]]
        /\ val'[id[c]] = val[id[c]] + 1 \/ val'[id[c]] = val[id[c]]
    <3>1. CASE Live(c)
      <4>1. SetValue(c, Value(c) + 1) /\ Value(c) + 1 \in Nat
        BY <1>3, <1>8, <3>1 DEF V
      <4>2. Kernel'
        BY <1>1, <1>2, <4>1, SetTypes
      <4>3. val' = [val EXCEPT ![id[c]] = val[id[c]] + 1]
        BY <4>1 DEF SetValue, Value
      <4> QED BY <1>1, <1>3, <4>2, <4>3 DEF TypeOK
    <3>2. CASE ~Live(c)
      <4>1. val' = val
        BY <1>8, <3>2 DEF V, kernel
      <4> QED BY <1>1, <1>2, <4>1 DEF TypeOK, Kernel
    <3> QED BY <3>1, <3>2
  <2>6. val'[id[c]] + Cardinality(Inside(id[c])') <= val[id[c]] + Cardinality(Inside(id[c]))
    BY <1>4, <2>4, <2>5, FewInside
  <2> QED BY <1>5, <2>2, <2>5, <2>6
<1> QED BY <1>7, <1>8 DEF ChildStep

(* Children.                                                               *)
LEMMA ChildStepInv == ASSUME Inv, NEW c \in Child, ChildStep(c) PROVE Inv'
<1>1. TypeOK /\ c \in Process
  BY Sorts DEF Inv
<1>2. /\ pc[c] \in {"p", "critical"} /\ id' = id
      /\ UNCHANGED <<program, zero, key, last, undo, disturbed>>
  BY DEF ChildStep, P, V, Take, SetValue, kernel
<1>3. /\ program = "pv" /\ id[c] = id[Parent(c)]
      /\ pc[Parent(c)] \in {"fork", "wait"} /\ round[c] < ROUNDS
      /\ Alone(Parent(c)) => Live(c)
  BY <1>2, Working
<1>4. id' = [id EXCEPT ![c] = id'[c]] /\ id'[c] = id[Parent(c)] /\ id[Parent(c)] # 0
  BY <1>1, <1>2, <1>3, Working DEF TypeOK
<1>5. Kernel'
  BY ChildSums
<1>6. MutexHolds'
  <2> SUFFICES ASSUME NEW g \in Generation \ disturbed
               PROVE  val'[g] + Cardinality(Inside(g)') <= 1
    BY <1>2 DEF MutexHolds
  <2>1. val[g] + Cardinality(Inside(g)) <= 1 /\ val[g] \in Nat /\ Cardinality(Inside(g)) \in Nat
    BY <1>1, <1>3, FewInside DEF Inv, MutexHolds, TypeOK
  <2>2. val'[g] \in Nat /\ Cardinality(Inside(g)') \in Nat
    BY <1>5, FiniteSorts, FS_Subset, FS_CardinalityType DEF Inside, Kernel
  <2>3. val'[g] + Cardinality(Inside(g)') <= val[g] + Cardinality(Inside(g))
    BY ChildSums
  <2> QED BY <2>1, <2>2, <2>3
<1>7. ASSUME NEW l \in {"p", "critical", "exited"}, Goto(c, l)
      PROVE  pc' = [pc EXCEPT ![c] = pc'[c]] /\ pc'[c] = l
  BY <1>1, <1>7 DEF Goto, TypeOK
<1>8. CASE P(c)
  <2>1. /\ Take(c, "critical", "exited") /\ round' = round
        /\ round' = [round EXCEPT ![c] = round'[c]] /\ round'[c] \in 0..ROUNDS /\ round'[c] < ROUNDS
    BY <1>1, <1>3, <1>8 DEF P, TypeOK
  <2>2. PICK l \in {"critical", "exited"} : Goto(c, l) /\ (l = "exited" => ~Live(c))
    BY <2>1 DEF Take
  <2>3. pc' = [pc EXCEPT ![c] = pc'[c]] /\ pc'[c] = l
    BY <1>7, <2>2
  <2> QED BY <1>2, <1>3, <1>4, <1>5, <1>6, <2>1, <2>2, <2>3, ChildKeeps
<1>9. CASE V(c)
  <2>1. /\ pc[c] = "critical"
        /\ round' = [round EXCEPT ![c] = IF Live(c) THEN round[c] + 1 ELSE round[c]]
        /\ Goto(c, IF Live(c) /\ round[c] + 1 < ROUNDS THEN "p" ELSE "exited")
    BY <1>9 DEF V
  <2>2. round[c] \in Nat /\ ROUNDS \in Nat /\ round[c] + 1 <= ROUNDS
    BY <1>1, <1>3, SizeAssumption DEF TypeOK
  <2>3. PICK l \in {"p", "exited"} : /\ Goto(c, l)
                                     /\ l = IF Live(c) /\ round[c] + 1 < ROUNDS THEN "p" ELSE "exited"
    BY <2>1
  <2>4. pc' = [pc EXCEPT ![c] = pc'[c]] /\ pc'[c] = l
    BY <1>7, <2>3
  <2>5. round'[c] = IF Live(c) THEN round[c] + 1 ELSE round[c]
    BY <1>1, <2>1 DEF TypeOK
  <2>6. /\ round' = [round EXCEPT ![c] = round'[c]] /\ round'[c] \in 0..ROUNDS
        /\ l # "exited" => round'[c] < ROUNDS
        /\ l = "exited" => round'[c] = ROUNDS \/ ~Live(c)
    <3>1. round' = [round EXCEPT ![c] = round'[c]]
      BY <2>1, <2>5
    <3>2. CASE Live(c)
      <4>1. round'[c] = round[c] + 1
        BY <2>5, <3>2
      <4>2. l = "p" <=> round[c] + 1 < ROUNDS
        BY <2>3, <3>2
      <4> QED BY <2>2, <2>3, <3>1, <4>1, <4>2
    <3>3. CASE ~Live(c)
      <4>1. round'[c] = round[c] /\ l = "exited"
        BY <2>3, <2>5, <3>3
      <4> QED BY <2>2, <3>1, <3>3, <4>1
    <3> QED BY <3>2, <3>3
  <2> QED BY <1>2, <1>3, <1>4, <1>5, <1>6, <2>3, <2>4, <2>6, ChildKeeps
<1> QED BY <1>8, <1>9 DEF ChildStep

-----------------------------------------------------------------------------
(* Nobody has started, and the key has an object or none.                  *)
LEMMA InitInv == ASSUME Init PROVE Inv
<1>1. Generation = 1..(Cardinality(Creators) + 1) /\ Cardinality(Creators) \in Nat
  BY FiniteSorts DEF Generation, Creators
<1>2. last \in {0, 1} /\ key = last /\ 1 \in Generation
  BY <1>1 DEF Init
<1>3. val \in [Generation -> 0..1] /\ \A g \in Generation : val[g] <= 1
  <2>1. PICK left \in 0..1 : val = [g \in Generation |-> IF g = 1 THEN left * last ELSE 0]
    BY DEF Init
  <2>2. left * last \in 0..1
    BY <1>2
  <2> QED BY <2>1, <2>2
<1>4. /\ pc = [p \in Process |-> "none"] /\ id = [p \in Process |-> 0]
      /\ round = [c \in Child |-> 0] /\ undo = [p \in Process |-> 0] /\ disturbed = {}
      /\ program \in {"pv", "msg", "sem"} /\ zero \in BOOLEAN
  BY ProgramAssumption DEF Init
<1>5. TypeOK
  <2>1. 0 \in 0..ROUNDS /\ 0 \in 0..last
    BY <1>2, SizeAssumption
  <2>2. pc \in [Process -> Ended]
    BY <1>4 DEF Ended
  <2>3. last \in Generation \cup {0} /\ key \in {0, last} /\ val \in [Generation -> Nat]
    BY <1>2, <1>3
  <2> QED BY <1>4, <2>1, <2>2, <2>3 DEF TypeOK
<1>6. \A p \in Process : Idle(p) /\ pc[p] = "none" /\ id[p] = 0
  BY <1>4 DEF Idle
<1>7. Kinds
  BY <1>6, Sorts DEF Kinds
<1>8. Creations
  <2>1. {p \in Creators : Idle(p)} = Creators
    BY <1>6, Sorts
  <2>2. Cardinality(Creators) + last <= Cardinality(Creators) + 1
    BY <1>1, <1>2
  <2> QED BY <2>1, <2>2 DEF Creations
<1>9. Family
  BY <1>4, <1>6, Sorts, SizeAssumption DEF Family
<1>10. AloneWorks
  BY <1>6, Sorts DEF AloneWorks
<1>11. MutexHolds
  <2> SUFFICES ASSUME NEW g \in Generation PROVE val[g] + Cardinality(Inside(g)) <= 1
    BY DEF MutexHolds
  <2>1. Inside(g) = {}
    BY <1>6, Sorts DEF Inside
  <2>2. val[g] \in 0..1
    BY <1>3
  <2> QED BY <2>1, <2>2, FS_EmptySet
<1>12. QueueRemovedOnce
  <2> SUFFICES ASSUME NEW g \in 1..last
               PROVE  /\ Cardinality(Receivers(g, "received")) = IF g = key THEN 0 ELSE 1
                      /\ g = key => Receivers(g, "tooLate") \cup Receivers(g, "msgrcvFailed") = {}
    BY DEF QueueRemovedOnce
  <2>1. g = key
    BY <1>2
  <2>2. \A l \in Outcome : Receivers(g, l) = {}
    BY <1>6, Sorts DEF Receivers, Outcome
  <2> QED BY <2>1, <2>2, FS_EmptySet DEF Outcome
<1> QED BY <1>5, <1>7, <1>8, <1>9, <1>10, <1>11, <1>12 DEF Inv

(* A step that changes nothing.                                            *)
LEMMA StutterInv == ASSUME Inv, UNCHANGED vars PROVE Inv'
<1>1. \A g : Inside(g)' = Inside(g)
  BY DEF Inside, vars
<1>2. \A g, l : Receivers(g, l)' = Receivers(g, l)
  BY DEF Receivers, vars
<1>3. TypeOK' /\ Kinds' /\ Family' /\ AloneWorks'
  BY DEF Inv, vars, kernel, TypeOK, Kinds, Family, AloneWorks, Alone, Idle, Live, Children
<1>4. Creations'
  BY CreationsSame DEF vars, kernel, Idle
<1>5. MutexHolds'
  BY <1>1 DEF Inv, MutexHolds, vars, kernel
<1>6. QueueRemovedOnce'
  BY <1>2 DEF Inv, QueueRemovedOnce, vars, kernel
<1> QED BY <1>3, <1>4, <1>5, <1>6 DEF Inv

(* The invariant.                                                          *)
THEOREM Invariance == Spec => []Inv
<1>1. Init => Inv
  BY InitInv
<1>2. Inv /\ [Next]_vars => Inv'
  <2> SUFFICES ASSUME Inv, [Next]_vars PROVE Inv'
    OBVIOUS
  <2>1. ASSUME NEW m \in Main, InitSem(m) \/ MainStep(m) PROVE Inv'
    BY <2>1, MainStepInv, ForkChildInv
  <2>2. ASSUME NEW c \in Child, ChildStep(c) PROVE Inv'
    BY <2>2, ChildStepInv
  <2>3. ASSUME NEW u \in User, UserStarts(u) \/ UserStep(u) PROVE Inv'
    BY <2>3, UserStartsInv, UserStepInv
  <2>4. CASE UNCHANGED vars
    BY <2>4, StutterInv
  <2> QED BY <2>1, <2>2, <2>3, <2>4 DEF Next
<1> QED BY <1>1, <1>2, PTL DEF Spec

(* Instances that have been through initsem() are finitely many.           *)
LEMMA FewInitialisers ==
    ASSUME NEW g
    PROVE  IsFiniteSet(Initialisers(g)) /\ Cardinality(Initialisers(g)) \in Nat
<1>1. Initialisers(g) \subseteq Creators
  BY Sorts DEF Initialisers
<1> QED BY <1>1, FiniteSorts, FS_Subset, FS_CardinalityType

(* Whoever has been through initsem() stays so.                            *)
LEMMA InitialisersStay ==
    ASSUME Inv, Inv', NEW p \in Main \cup Child,
           pc' = [pc EXCEPT ![p] = pc'[p]], id' = [id EXCEPT ![p] = id'[p]],
           p \in Main => Idle(p) \/ (id'[p] = id[p] /\ pc'[p] \notin {"none", "setval"})
    PROVE  \A g \in Generation : Cardinality(Initialisers(g)) <= Cardinality(Initialisers(g)')
<1> SUFFICES ASSUME NEW g \in Generation
             PROVE  Cardinality(Initialisers(g)) <= Cardinality(Initialisers(g)')
  OBVIOUS
<1>1. \A m \in Main : m # p => pc'[m] = pc[m] /\ id'[m] = id[m]
  BY Sorts DEF Inv, TypeOK
<1>2. Initialisers(g) \subseteq Initialisers(g)'
  BY <1>1 DEF Initialisers, Idle
<1>3. IsFiniteSet(Initialisers(g)')
  <2>1. Initialisers(g)' \subseteq Creators
    BY Sorts DEF Initialisers
  <2> QED BY <2>1, FiniteSorts, FS_Subset
<1> QED BY <1>2, <1>3, FS_Subset

(* A step that adds nothing to value and critical section.                 *)
LEMMA BoundKept ==
    ASSUME Inv, Inv', OnePerInstance, program = "pv",
           \A g \in Generation :
               val'[g] + Cardinality(Inside(g)') <= val[g] + Cardinality(Inside(g)),
           \A g \in Generation : Cardinality(Initialisers(g)) <= Cardinality(Initialisers(g)')
    PROVE  OnePerInstance'
<1> SUFFICES ASSUME NEW g \in Generation
             PROVE  \/ val'[g] + Cardinality(Inside(g)') <= 1
                    \/ val'[g] + Cardinality(Inside(g)') <= Cardinality(Initialisers(g)')
  BY DEF OnePerInstance
<1>1. val[g] \in Nat /\ val'[g] \in Nat
  BY DEF Inv, TypeOK
<1>2. Cardinality(Inside(g)') \in Nat /\ Cardinality(Initialisers(g)') \in Nat
  <2>1. Inside(g)' \subseteq Child /\ Initialisers(g)' \subseteq Creators
    BY Sorts DEF Inside, Initialisers
  <2> QED BY <2>1, FiniteSorts, FS_Subset, FS_CardinalityType
<1>3. \/ val[g] + Cardinality(Inside(g)) <= 1
      \/ val[g] + Cardinality(Inside(g)) <= Cardinality(Initialisers(g))
  BY DEF OnePerInstance
<1>4. /\ val'[g] + Cardinality(Inside(g)') <= val[g] + Cardinality(Inside(g))
      /\ Cardinality(Initialisers(g)) <= Cardinality(Initialisers(g)')
  OBVIOUS
<1> QED BY <1>1, <1>2, <1>3, <1>4, FewInside, FewInitialisers

(* initsem() of an instance that finds somebody in the critical section:   *)
(* the parent of whoever it is has been through initsem() before.          *)
LEMMA BoundSet ==
    ASSUME Inv, Inv', OnePerInstance, NEW m \in Main, SetVal(m), Live(m), program = "pv"
    PROVE  OnePerInstance'
<1>1. /\ TypeOK /\ m \in Process /\ m \notin Child /\ pc[m] = "setval" /\ id' = id
      /\ pc' = [pc EXCEPT ![m] = "fork"] /\ val' = [val EXCEPT ![id[m]] = 1]
      /\ id[m] # 0 /\ id[m] \in Generation
  <2>1. TypeOK /\ m \in Process /\ m \notin Child
    BY Sorts DEF Inv
  <2>2. pc[m] = "setval" /\ id' = id /\ Goto(m, "fork") /\ SetValue(m, 1)
    BY DEF SetVal
  <2>3. id[m] # 0
    BY <2>1, <2>2 DEF Inv, Kinds, Idle
  <2> QED BY <2>1, <2>2, <2>3, Identifies DEF Goto, SetValue
<1> SUFFICES ASSUME NEW g \in Generation
             PROVE  \/ val'[g] + Cardinality(Inside(g)') <= 1
                    \/ val'[g] + Cardinality(Inside(g)') <= Cardinality(Initialisers(g)')
  BY DEF OnePerInstance
<1>2. Inside(g)' = Inside(g)
  BY <1>1, Sorts DEF Inside, TypeOK
<1>3. \/ val[g] + Cardinality(Inside(g)) <= 1
      \/ val[g] + Cardinality(Inside(g)) <= Cardinality(Initialisers(g))
  BY DEF OnePerInstance
<1>4. val[g] \in Nat
  BY <1>1 DEF TypeOK
<1>5. CASE g # id[m]
  <2>1. Initialisers(g)' = Initialisers(g)
    BY <1>1, <1>5 DEF Initialisers, TypeOK
  <2> QED BY <1>1, <1>2, <1>3, <1>5, <2>1 DEF TypeOK
<1>6. CASE g = id[m] /\ Inside(g) = {}
  <2>1. Cardinality(Inside(g)') = 0
    BY <1>2, <1>6, FS_EmptySet
  <2>2. val'[g] = 1
    BY <1>1, <1>6 DEF TypeOK
  <2> QED BY <2>1, <2>2
<1>7. CASE g = id[m] /\ Inside(g) # {}
  <2>1. Initialisers(g)' = Initialisers(g) \cup {m} /\ m \notin Initialisers(g)
    BY <1>1, <1>7 DEF Initialisers, TypeOK
  <2>2. Cardinality(Initialisers(g)') = Cardinality(Initialisers(g)) + 1
    BY <2>1, FewInitialisers, FS_AddElement
  <2>3. Initialisers(g) # {}
    <3>1. PICK c \in Child : pc[c] = "critical" /\ id[c] = g
      BY <1>7 DEF Inside
    <3>2. id[Parent(c)] = g /\ pc[Parent(c)] \in {"fork", "wait"} /\ Parent(c) \in Main
      BY <3>1, Working, Sorts
    <3> QED BY <3>2 DEF Initialisers
  <2>4. Cardinality(Initialisers(g)) # 0
    BY <2>3, FewInitialisers, FS_EmptySet
  <2>5. val'[g] = 1
    BY <1>1, <1>7 DEF TypeOK
  <2>6. Cardinality(Inside(g)) <= Cardinality(Initialisers(g))
    BY <1>3, <1>4, <2>4, FewInside, FewInitialisers
  <2> QED BY <1>2, <2>2, <2>5, <2>6, FewInside, FewInitialisers
<1> QED BY <1>5, <1>6, <1>7

(* A step of a main program that sets nothing.                             *)
LEMMA BoundMain ==
    ASSUME Inv, Inv', OnePerInstance, NEW p \in Main \cup Child, program = "pv",
           pc' = [pc EXCEPT ![p] = pc'[p]], id' = [id EXCEPT ![p] = id'[p]], val' = val,
           pc[p] # "critical", pc'[p] # "critical",
           p \in Main => Idle(p) \/ (id'[p] = id[p] /\ pc'[p] \notin {"none", "setval"})
    PROVE  OnePerInstance'
<1>1. \A g \in Generation : Inside(g)' = Inside(g)
  BY DEF Inside, Inv, TypeOK, Process
<1>2. \A g \in Generation : val'[g] + Cardinality(Inside(g)') <= val[g] + Cardinality(Inside(g))
  BY <1>1, FewInside DEF Inv, TypeOK
<1>3. \A g \in Generation : Cardinality(Initialisers(g)) <= Cardinality(Initialisers(g)')
  BY InitialisersStay
<1> QED BY <1>2, <1>3, BoundKept

(* Every step keeps to one per instance.                                   *)
LEMMA BoundStep == Inv /\ Inv' /\ OnePerInstance /\ [Next]_vars => OnePerInstance'
<1> SUFFICES ASSUME Inv, Inv', OnePerInstance, [Next]_vars PROVE OnePerInstance'
  OBVIOUS
<1>1. CASE program # "pv"
  <2>1. program' = program
    BY DEF Next, MainStep, ChildStep, UserStarts, UserStep, InitSem, SetVal, ForkChild, ForkEnds,
           WaitAll, RemoveSem, P, V, SendGets, RecvGets, SemInitGets, SemPGets, SemVGets, SendStats,
           Send, Receive, RecvRemoves, SemInit, SemP, SemV, SemVExit, vars
  <2> QED BY <1>1, <2>1 DEF OnePerInstance
<1>2. CASE program = "pv" /\ UNCHANGED vars
  BY <1>2 DEF OnePerInstance, Inside, Initialisers, vars, kernel
<1>3. ASSUME program = "pv", NEW m \in Main, InitSem(m) \/ MainStep(m) PROVE OnePerInstance'
  <2>1. TypeOK /\ m \in Process /\ m \in Creators
    BY Sorts DEF Inv
  <2>2. CASE SetVal(m) /\ Live(m)
    BY <1>3, <2>2, BoundSet
  <2>3. CASE \E c \in Children(m) : ForkChild(m, c)
    <3>1. PICK c \in Children(m) : ForkChild(m, c)
      BY <2>3
    <3>2. c \in Child /\ c \notin Main /\ c \in Process
      BY Sorts DEF Children
    <3>3. /\ pc[c] = "none" /\ pc' = [pc EXCEPT ![c] = "p"] /\ id' = [id EXCEPT ![c] = id[m]]
          /\ val' = val
      BY <3>1 DEF ForkChild, Unforked, Goto, kernel
    <3>4. pc'[c] = "p" /\ pc' = [pc EXCEPT ![c] = pc'[c]] /\ id' = [id EXCEPT ![c] = id'[c]]
      BY <2>1, <3>2, <3>3 DEF TypeOK
    <3> QED BY <1>3, <3>2, <3>3, <3>4, BoundMain
  <2>4. CASE InitSem(m)
    <3>1. Idle(m) /\ val' = val /\ id' = [id EXCEPT ![m] = key'] /\ pc[m] # "critical"
      BY <2>4 DEF InitSem, GetOrCreate, Idle
    <3>2. PICK l \in {"fork", "setval"} : pc' = [pc EXCEPT ![m] = l]
      BY <2>4 DEF InitSem, Goto
    <3>3. pc'[m] = l /\ pc' = [pc EXCEPT ![m] = pc'[m]] /\ id' = [id EXCEPT ![m] = id'[m]]
      BY <2>1, <3>1, <3>2 DEF TypeOK
    <3> QED BY <1>3, <3>1, <3>3, BoundMain
  <2>5. CASE \/ SetVal(m) /\ ~Live(m)
             \/ ForkEnds(m) \/ WaitAll(m) \/ RemoveSem(m)
    <3>1. val' = val /\ id' = id /\ pc[m] # "critical"
      BY <2>5 DEF SetVal, ForkEnds, WaitAll, RemoveSem, Remove, kernel
    <3>2. PICK l \in {"initsemFailed", "wait", "rmid", "done", "removesemFailed"} : pc' = [pc EXCEPT ![m] = l]
      BY <2>5 DEF SetVal, ForkEnds, WaitAll, RemoveSem, Remove, Goto
    <3>3. pc'[m] = l /\ pc' = [pc EXCEPT ![m] = pc'[m]] /\ id' = [id EXCEPT ![m] = id'[m]]
      BY <2>1, <3>1, <3>2 DEF TypeOK
    <3> QED BY <1>3, <3>1, <3>3, BoundMain
  <2> QED BY <1>3, <2>2, <2>3, <2>4, <2>5 DEF MainStep
<1>4. ASSUME program = "pv", NEW c \in Child, ChildStep(c) PROVE OnePerInstance'
  <2>1. \A m \in Main : pc'[m] = pc[m] /\ id'[m] = id[m]
    BY <1>4, Sorts DEF ChildStep, P, V, Take, Goto, Inv, TypeOK
  <2>2. \A g \in Generation : Initialisers(g)' = Initialisers(g)
    BY <2>1 DEF Initialisers
  <2>3. \A g \in Generation : Cardinality(Initialisers(g)) <= Cardinality(Initialisers(g)')
    BY <2>2, FewInitialisers
  <2> QED BY <1>4, <2>3, ChildSums, BoundKept
<1>5. ASSUME program = "pv", NEW u \in User, UserStarts(u) \/ UserStep(u) PROVE OnePerInstance'
  <2>1. pc[u] = "none"
    BY <1>5 DEF Inv, Kinds, Idle
  <2> QED BY <1>5, <2>1 DEF UserStarts, SendGets, RecvGets, SemInitGets, SemPGets, SemVGets,
                            UserStep, SendStats, Send, Receive, RecvRemoves, SemInit, SemP, SemV, SemVExit
<1> QED BY <1>1, <1>2, <1>3, <1>4, <1>5 DEF Next

(* However many instances share the mutex, and however often they set it.  *)
LEMMA Bounded == Spec => []OnePerInstance
<1>1. Init => OnePerInstance
  <2> SUFFICES ASSUME Init, NEW g \in Generation PROVE val[g] + Cardinality(Inside(g)) <= 1
    BY DEF OnePerInstance
  <2>1. Inv /\ disturbed = {}
    BY InitInv DEF Init
  <2>2. program = "pv" \/ Inside(g) = {}
    BY <2>1 DEF Inv, Kinds, Idle, Inside
  <2>3. PICK left \in 0..1 : val = [h \in Generation |-> IF h = 1 THEN left * last ELSE 0]
    BY DEF Init
  <2>4. last \in {0, 1} /\ left * last \in 0..1
    BY DEF Init
  <2>5. val[g] \in 0..1
    BY <2>3, <2>4
  <2>6. Inside(g) = {}
    BY Sorts DEF Init, Inside
  <2> QED BY <2>5, <2>6, FS_EmptySet
<1> QED BY <1>1, BoundStep, Invariance, PTL DEF Spec

(* pv.c, msg_send.c and msg_recv.c, and the semaphore tools: mutual        *)
(* exclusion in an undisturbed generation, in a disturbed one no more      *)
(* inside than instances, the work and the clean end of an instance that   *)
(* is alone, and one removal of each queue, for any number of processes.   *)
THEOREM Shared == Spec => []SharedByKey
<1>1. Inv /\ OnePerInstance => SharedByKey
  <2> SUFFICES ASSUME Inv, OnePerInstance PROVE SharedByKey
    OBVIOUS
  <2>1. AloneUndisturbed
    <3> SUFFICES ASSUME NEW m \in Main, id[m] # 0, Alone(m)
                 PROVE  /\ pc[m] \notin {"initsemFailed", "removesemFailed"}
                        /\ pc[m] = "done" => \A c \in Children(m) : pc[c] = "none" \/ round[c] = ROUNDS
      BY DEF AloneUndisturbed
    <3>1. /\ pc[m] \in {"setval", "fork", "wait", "rmid", "done"}
          /\ \A c \in Children(m) : pc[c] = "exited" => round[c] = ROUNDS
      BY DEF Inv, AloneWorks
    <3>2. pc[m] = "done" => \A c \in Children(m) : pc[c] \in {"none", "exited"}
      BY DEF Inv, Family, Children
    <3> QED BY <3>1, <3>2
  <2> QED BY <2>1 DEF Inv, SharedByKey
<1> QED BY <1>1, Invariance, Bounded, PTL

=============================================================================
