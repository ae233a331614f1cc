---------------------------- MODULE KeyedObject ----------------------------
(***************************************************************************)
(* Programs that find a System V object by a fixed key, so that processes  *)
(* that know nothing of each other share it:                               *)
(*   "pv"   src/Sysv/pv.c, key 0x200: each instance initialises a mutex,   *)
(*          forks nprocs children that use it, waits, and removes it;      *)
(*   "msg"  msg_send.c and msg_recv.c, key 1234: a receiver removes the    *)
(*          queue after its message;                                       *)
(*   "sem"  seminit.c, semp.c and semv.c, key 1492.                        *)
(* A semaphore and a queue of messages that are all alike are both a       *)
(* counter.  IPC_RMID ends a generation of the object: a later IPC_CREAT   *)
(* makes another, and whoever holds the old identifier gets an error.      *)
(* An object may be left over from a run that was killed.                  *)
(***************************************************************************)
EXTENDS Integers, FiniteSets

CONSTANTS Programs,               \* the programs considered, among these three
          Instance,               \* instances of pv.c
          nprocs,                 \* children of each
          ROUNDS,                 \* turns of the loop of a child (10)
          User,                   \* processes running the other programs
          QMAX,                   \* messages the kernel keeps in a queue
          ForkMayFail

ASSUME ProgramAssumption == Programs \subseteq {"pv", "msg", "sem"}
ASSUME SizeAssumption == /\ nprocs \in Nat /\ ROUNDS \in Nat \ {0} /\ QMAX \in Nat \ {0}
                         /\ IsFiniteSet(Instance) /\ IsFiniteSet(User)
ASSUME ForkAssumption == ForkMayFail \in BOOLEAN

Main == Instance \X {0}
Child == Instance \X (1..nprocs)
Process == Main \cup Child \cup User
ASSUME UserAssumption == User \cap (Main \cup Child) = {}

Parent(c) == <<c[1], 0>>
Children(m) == {c \in Child : Parent(c) = m}
Generation == 1..(Cardinality(Main \cup User) + 1)

VARIABLES program,                \* which of the three; never changes
          zero,                   \* the identifier of generation 1 is 0
          key, last,              \* generation under the key, or 0; the latest
          val,                    \* value, or messages, of each generation
          pc, id,                 \* control point, generation found
          round,                  \* i of a child in handlesem()
          undo,                   \* SEM_UNDO adjustment of a process
          disturbed               \* generations set while somebody was inside
                                  \* the critical section (history)

kernel == <<key, last, val>>
vars == <<program, zero, kernel, pc, id, round, undo, disturbed>>

Goto(p, l) == pc' = [pc EXCEPT ![p] = l]
Live(p) == id[p] = key
Value(p) == val[id[p]]
SetValue(p, x) == val' = [val EXCEPT ![id[p]] = x] /\ UNCHANGED <<key, last>>
Inside(g) == {c \in Child : pc[c] = "critical" /\ id[c] = g}

Init ==
    /\ program \in Programs
    /\ zero \in BOOLEAN
    /\ last \in {0, 1} /\ key = last
    /\ \E left \in 0..1 : val = [g \in Generation |-> IF g = 1 THEN left * last ELSE 0]
    /\ pc = [p \in Process |-> "none"]
    /\ id = [p \in Process |-> 0]
    /\ round = [c \in Child |-> 0]
    /\ undo = [p \in Process |-> 0]
    /\ disturbed = {}

-----------------------------------------------------------------------------
(* semget() and msgget(), with IPC_CREAT and without.                      *)
GetOrCreate(p) ==
    /\ key' = IF key = 0 THEN last + 1 ELSE key
    /\ last' = IF key = 0 THEN last + 1 ELSE last
    /\ id' = [id EXCEPT ![p] = key']
    /\ UNCHANGED val

Find(p, found, missing) ==
    /\ Goto(p, IF key = 0 THEN missing ELSE found)
    /\ id' = [id EXCEPT ![p] = key]
    /\ UNCHANGED kernel

(* IPC_RMID: fails if somebody else has removed this generation.           *)
Remove(p, done, failed) ==
    /\ key' = IF Live(p) THEN 0 ELSE key
    /\ Goto(p, IF Live(p) THEN done ELSE failed)
    /\ UNCHANGED <<last, val, id>>

(* An operation that takes one, and sleeps if there is none; IPC_RMID      *)
(* wakes it with EIDRM.                                                    *)
Take(p, taken, failed) ==
    /\ IF Live(p) THEN Value(p) > 0 /\ SetValue(p, Value(p) - 1)
                  ELSE UNCHANGED kernel
    /\ Goto(p, IF Live(p) THEN taken ELSE failed)
    /\ UNCHANGED id

-----------------------------------------------------------------------------
(* pv.c: main().                                                           *)
InitSem(m) ==
    /\ program = "pv" /\ pc[m] = "none"
    /\ GetOrCreate(m)
    /\ Goto(m, IF key' = 1 /\ zero THEN "fork" ELSE "setval")
    /\ UNCHANGED <<program, zero, round, undo, disturbed>>

SetVal(m) ==
    /\ pc[m] = "setval"
    /\ IF Live(m) THEN SetValue(m, 1) ELSE UNCHANGED kernel
    /\ Goto(m, IF Live(m) THEN "fork" ELSE "initsemFailed")
    /\ disturbed' = IF Live(m) /\ Inside(id[m]) # {} THEN disturbed \cup {id[m]} ELSE disturbed
    /\ UNCHANGED <<program, zero, id, round, undo>>

Unforked(m) == {c \in Children(m) : pc[c] = "none"}

ForkChild(m, c) ==
    /\ pc[m] = "fork" /\ c \in Unforked(m)
    /\ Goto(c, "p")
    /\ id' = [id EXCEPT ![c] = id[m]]
    /\ UNCHANGED <<program, zero, kernel, round, undo, disturbed>>

ForkEnds(m) ==
    /\ pc[m] = "fork"
    /\ Unforked(m) = {} \/ ForkMayFail
    /\ Goto(m, "wait")
    /\ UNCHANGED <<program, zero, kernel, id, round, undo, disturbed>>

(* Mutant of WaitAll: the children are not waited for.                     *)
WaitNobody(m) ==
    /\ pc[m] = "wait"
    /\ Goto(m, "rmid")
    /\ UNCHANGED <<program, zero, kernel, id, round, undo, disturbed>>

(* As many calls of wait() as there are children, at most.                 *)
WaitAll(m) ==
    /\ pc[m] = "wait"
    /\ \A c \in Children(m) : pc[c] \in {"none", "exited"}
    /\ Goto(m, "rmid")
    /\ UNCHANGED <<program, zero, kernel, id, round, undo, disturbed>>

RemoveSem(m) ==
    /\ pc[m] = "rmid"
    /\ Remove(m, "done", "removesemFailed")
    /\ UNCHANGED <<program, zero, round, undo, disturbed>>

(* handlesem() in a child; an error of p() or v() ends it.                 *)
P(c) ==
    /\ pc[c] = "p"
    /\ Take(c, "critical", "exited")
    /\ UNCHANGED <<program, zero, round, undo, disturbed>>

(* Mutant of V: the loop is left before the last v().                      *)
VNotLast(c) ==
    /\ pc[c] = "critical"
    /\ IF Live(c) /\ round[c] + 1 < ROUNDS THEN SetValue(c, Value(c) + 1) ELSE UNCHANGED kernel
    /\ round' = [round EXCEPT ![c] = IF Live(c) THEN @ + 1 ELSE @]
    /\ Goto(c, IF Live(c) /\ round[c] + 1 < ROUNDS THEN "p" ELSE "exited")
    /\ UNCHANGED <<program, zero, id, undo, disturbed>>

V(c) ==
    /\ pc[c] = "critical"
    /\ IF Live(c) THEN SetValue(c, Value(c) + 1) ELSE UNCHANGED kernel
    /\ round' = [round EXCEPT ![c] = IF Live(c) THEN @ + 1 ELSE @]
    /\ Goto(c, IF Live(c) /\ round[c] + 1 < ROUNDS THEN "p" ELSE "exited")
    /\ UNCHANGED <<program, zero, id, undo, disturbed>>

-----------------------------------------------------------------------------
(* msg_send.c and msg_recv.c.                                              *)
SendGets(u) ==
    /\ program = "msg" /\ pc[u] = "none"
    /\ GetOrCreate(u)
    /\ Goto(u, "stat")
    /\ UNCHANGED <<program, zero, round, undo, disturbed>>

SendStats(u) ==
    /\ pc[u] = "stat"
    /\ Goto(u, IF Live(u) THEN "snd" ELSE "msgctlFailed")
    /\ UNCHANGED <<program, zero, kernel, id, round, undo, disturbed>>

(* IPC_NOWAIT: a full queue is an error.                                   *)
Send(u) ==
    /\ pc[u] = "snd"
    /\ IF Live(u) /\ Value(u) < QMAX
       THEN SetValue(u, Value(u) + 1) /\ Goto(u, "sent")
       ELSE UNCHANGED kernel /\ Goto(u, "msgsndFailed")
    /\ UNCHANGED <<program, zero, id, round, undo, disturbed>>

RecvGets(u) ==
    /\ program = "msg" /\ pc[u] = "none"
    /\ Find(u, "rcv", "msggetFailed")
    /\ UNCHANGED <<program, zero, round, undo, disturbed>>

Receive(u) ==
    /\ pc[u] = "rcv"
    /\ Take(u, "recvRmid", "msgrcvFailed")
    /\ UNCHANGED <<program, zero, round, undo, disturbed>>

RecvRemoves(u) ==
    /\ pc[u] = "recvRmid"
    /\ Remove(u, "received", "tooLate")
    /\ UNCHANGED <<program, zero, round, undo, disturbed>>

-----------------------------------------------------------------------------
(* seminit.c, semp.c and semv.c.                                           *)
SemInitGets(u) ==
    /\ program = "sem" /\ pc[u] = "none"
    /\ GetOrCreate(u)
    /\ Goto(u, "init")
    /\ UNCHANGED <<program, zero, round, undo, disturbed>>

(* SETVAL clears the adjustments of every process.                         *)
SemInit(u) ==
    /\ pc[u] = "init"
    /\ \E initval \in 0..1 : SetValue(u, initval)
    /\ undo' = [p \in Process |-> 0]
    /\ Goto(u, "ok")
    /\ UNCHANGED <<program, zero, id, round, disturbed>>

SemPGets(u) ==
    /\ program = "sem" /\ pc[u] = "none"
    /\ \E l \in {"semp", "sempNowait"} : Find(u, l, "noSemaphore")
    /\ UNCHANGED <<program, zero, round, undo, disturbed>>

(* With an argument the call does not wait.                                *)
SemP(u) ==
    /\ \/ pc[u] = "semp" /\ Take(u, "ok", "semopFailed")
       \/ /\ pc[u] = "sempNowait"
          /\ IF Value(u) > 0 THEN SetValue(u, Value(u) - 1) ELSE UNCHANGED kernel
          /\ Goto(u, IF Value(u) > 0 THEN "ok" ELSE "EAGAIN") /\ UNCHANGED id
    /\ UNCHANGED <<program, zero, round, undo, disturbed>>

SemVGets(u) ==
    /\ program = "sem" /\ pc[u] = "none"
    /\ \E l \in {"semv", "semvUndo"} : Find(u, l, "noSemaphore")
    /\ UNCHANGED <<program, zero, round, undo, disturbed>>

SemV(u) ==
    /\ pc[u] \in {"semv", "semvUndo"}
    /\ SetValue(u, Value(u) + 1)
    /\ undo' = [undo EXCEPT ![u] = IF pc[u] = "semvUndo" THEN 1 ELSE 0]
    /\ Goto(u, "exit")
    /\ UNCHANGED <<program, zero, id, round, disturbed>>

(* exit() takes back what SEM_UNDO recorded, as far as there is any left.  *)
SemVExit(u) ==
    /\ pc[u] = "exit"
    /\ SetValue(u, IF Value(u) >= undo[u] THEN Value(u) - undo[u] ELSE 0)
    /\ undo' = [undo EXCEPT ![u] = 0]
    /\ Goto(u, "ok")
    /\ UNCHANGED <<program, zero, id, round, disturbed>>

-----------------------------------------------------------------------------
MainStep(m) == \/ SetVal(m) \/ (\E c \in Children(m) : ForkChild(m, c)) \/ ForkEnds(m)
               \/ WaitAll(m) \/ RemoveSem(m)
ChildStep(c) == P(c) \/ V(c)
UserStarts(u) == SendGets(u) \/ RecvGets(u) \/ SemInitGets(u) \/ SemPGets(u) \/ SemVGets(u)
UserStep(u) == \/ SendStats(u) \/ Send(u) \/ Receive(u) \/ RecvRemoves(u)
               \/ SemInit(u) \/ SemP(u) \/ SemV(u) \/ SemVExit(u)

Next == \/ \E m \in Main : InitSem(m) \/ MainStep(m)
        \/ \E c \in Child : ChildStep(c)
        \/ \E u \in User : UserStarts(u) \/ UserStep(u)

Spec == Init /\ [][Next]_vars

(* A program that was started runs when it can; nobody need start one.     *)
FairSpec == /\ Spec
            /\ \A m \in Main : WF_vars(MainStep(m))
            /\ \A c \in Child : WF_vars(ChildStep(c))
            /\ \A u \in User : WF_vars(UserStep(u))

-----------------------------------------------------------------------------
(* Properties.                                                             *)

Ended == {"none", "done", "exited", "initsemFailed", "removesemFailed",
          "sent", "msgctlFailed", "msgsndFailed", "msggetFailed", "msgrcvFailed",
          "received", "tooLate", "ok", "noSemaphore", "semopFailed", "EAGAIN"}

TypeOK ==
    /\ program \in {"pv", "msg", "sem"} /\ zero \in BOOLEAN
    /\ last \in Generation \cup {0} /\ key \in {0, last}
    /\ val \in [Generation -> Nat]
    /\ pc \in [Process -> Ended \cup {"setval", "fork", "wait", "rmid", "p", "critical",
                    "stat", "snd", "rcv", "recvRmid", "init", "semp", "sempNowait",
                    "semv", "semvUndo", "exit"}]
    /\ id \in [Process -> 0..last]
    /\ round \in [Child -> 0..ROUNDS]
    /\ undo \in [Process -> {0, 1}]
    /\ disturbed \subseteq Generation

(* pv.c: one process at a time is in the critical section, unless another  *)
(* instance has set the mutex while somebody was in it (what is left of it *)
(* then is OnePerInstance).                                                *)
MutexHolds ==
    program = "pv" =>
        \A g \in Generation \ disturbed : val[g] + Cardinality(Inside(g)) <= 1

(* pv.c: an instance that finds the mutex of another sets it to 1 whoever  *)
(* is inside, so that two may be inside; but never more at once than       *)
(* instances have been through initsem() with this mutex, however often    *)
(* children come and go and whoever removes it.                            *)
Initialisers(g) == {m \in Main : id[m] = g /\ pc[m] \notin {"none", "setval"}}
OnePerInstance ==
    program = "pv" =>
        \A g \in Generation :
            \/ val[g] + Cardinality(Inside(g)) <= 1
            \/ val[g] + Cardinality(Inside(g)) <= Cardinality(Initialisers(g))

(* pv.c: an instance that shares its mutex with no other finishes its work:*)
(* when it has removed the mutex, every child it forked has had all its    *)
(* rounds, and removing it does not fail.                                  *)
Alone(m) == \A n \in Main \ {m} : id[n] # id[m]
AloneUndisturbed ==
    program = "pv" =>
        \A m \in Main : id[m] # 0 /\ Alone(m) =>
            /\ pc[m] \notin {"initsemFailed", "removesemFailed"}
            /\ pc[m] = "done" => \A c \in Children(m) :
                                     pc[c] = "none" \/ round[c] = ROUNDS

(* msg_recv.c: a queue is removed by exactly one receiver, who has had a   *)
(* message from it; other receivers that were in time for a message find   *)
(* the queue gone when they come to remove it.                             *)
Receivers(g, l) == {u \in User : id[u] = g /\ pc[u] = l}
QueueRemovedOnce ==
    program = "msg" =>
        \A g \in 1..last :
            /\ Cardinality(Receivers(g, "received")) = IF g = key THEN 0 ELSE 1
            /\ g = key => Receivers(g, "tooLate") \cup Receivers(g, "msgrcvFailed") = {}

(* What strangers who share an object by its key may rely on.              *)
SharedByKey == TypeOK /\ MutexHolds /\ OnePerInstance /\ AloneUndisturbed /\ QueueRemovedOnce

(* What every step keeps.  A process runs one kind of program; an object   *)
(* is made at most once by each; and a child belongs to its parent, who    *)
(* waits until it has ended, and to the generation its parent found.       *)
Creators == Main \cup User
Idle(p) == pc[p] = "none"
Kinds ==
    /\ \A m \in Main : pc[m] \in {"none", "initsemFailed", "setval", "fork", "wait", "rmid",
                                   "done", "removesemFailed"}
    /\ \A c \in Child : pc[c] \in {"none", "p", "critical", "exited"}
    /\ \A u \in User : pc[u] \notin {"setval", "fork", "wait", "rmid", "p", "critical"}
    /\ program = "pv" => \A u \in User : Idle(u)
    /\ program # "pv" => \A p \in Main \cup Child : Idle(p)
    /\ \A p \in Process : Idle(p) => id[p] = 0
    /\ \A p \in Process : ~Idle(p) => id[p] # 0 \/ pc[p] \in {"noSemaphore", "msggetFailed"}

Creations == Cardinality({p \in Creators : Idle(p)}) + last <= Cardinality(Creators) + 1

Family ==
    \A c \in Child :
        LET m == Parent(c)
        IN  /\ ~Idle(c) => /\ id[c] = id[m]
                           /\ pc[m] \in {"fork", "wait", "rmid", "done", "removesemFailed"}
            /\ pc[m] \in {"rmid", "done", "removesemFailed"} => pc[c] \in {"none", "exited"}
            /\ pc[c] \in {"none", "p", "critical"} => round[c] < ROUNDS

AloneWorks ==
    \A m \in Main : id[m] # 0 /\ Alone(m) =>
        /\ pc[m] \in {"setval", "fork", "wait", "rmid", "done"}
        /\ pc[m] # "done" => Live(m)
        /\ \A c \in Children(m) : pc[c] = "exited" => round[c] = ROUNDS

Inv == /\ TypeOK /\ Kinds /\ Creations /\ Family /\ AloneWorks
       /\ MutexHolds /\ QueueRemovedOnce

(* Everybody ends, but for those who wait for an object that is there and  *)
(* empty and whom nobody will wake.  In pv.c that is so only of a mutex    *)
(* with identifier 0, which initsem() does not set.                        *)
Waits(p) == pc[p] \in {"p", "rcv", "semp"} /\ Live(p) /\ Value(p) = 0
WaitsForChild(m) == pc[m] = "wait" /\ \E c \in Children(m) : Waits(c)
AllEnd ==
    <>[](/\ \A p \in Process : pc[p] \in Ended \/ Waits(p)
                               \/ (p \in Main /\ WaitsForChild(p))
         /\ program = "pv" /\ (\E p \in Process : pc[p] \notin Ended) => zero /\ key = 1)

=============================================================================
