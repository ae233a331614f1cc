--------------------------- MODULE SleepingBarber ---------------------------
(***************************************************************************)
(* src/Sysv/barber-procsV1.c and barber-procsV2.c: a barber process and    *)
(* numCustomers customer processes meet at four System V semaphores.  main *)
(* forks them all, waits for the customers by pid, and stops the barber:   *)
(*   "V1"  sempost(BARBERPILLOW), then kill(bpid, SIGUSR1), whose handler  *)
(*         sets the barber's own copy of allDone;                          *)
(*   "V2"  *allDone = 1 in shared memory, then sempost(BARBERPILLOW).      *)
(* Neither uses SEM_UNDO.                                                  *)
(***************************************************************************)
EXTENDS Integers, FiniteSets

CONSTANTS Versions,               \* the programs considered, among these two
          MAX_CUSTOMERS,          \* the most customers main accepts
          numChairs,              \* second argument of the command
          ForkMayFail             \* fork() may return -1

ASSUME VersionAssumption == Versions \subseteq {"V1", "V2"}
ASSUME SizeAssumption == MAX_CUSTOMERS \in Nat /\ numChairs \in Nat
ASSUME ForkAssumption == ForkMayFail \in BOOLEAN

Customer == 0..(MAX_CUSTOMERS - 1)
None == -1                        \* the pid a failed fork() leaves behind

VARIABLES version,                \* the program that runs; never changes
          room, chair, pillow, belt,   \* WAITINGROOM ... SEATBELT
          cust,                   \* control point of every customer
          barber,                 \* control point of the barber
          allDone,                \* what the barber reads
          sigusr1,                \* SIGUSR1 sent to the barber (V1)
          numCustomers,           \* first argument of the command
          main, i,                \* control point and loop index of main
          pid                     \* pid[]: a customer, or None

sems == <<room, chair, pillow, belt>>
mainvars == <<version, numCustomers, main, i, pid>>
vars == <<sems, cust, barber, allDone, sigusr1, mainvars>>

(* From the return of semwait(WAITINGROOM) to that of sempost() on it.     *)
InRoom(c) == cust[c] \in {"chair", "postRoom"}
(* From the return of semwait(BARBERCHAIR) to that of sempost() on it.     *)
InChair(c) == cust[c] \in {"postRoom", "postPillow", "belt", "postChair"}

TypeOK ==
    /\ version \in {"V1", "V2"}
    /\ room \in Nat /\ chair \in Nat /\ pillow \in Nat /\ belt \in Nat
    /\ cust \in [Customer -> {"none", "room", "chair", "postRoom", "postPillow",
                              "belt", "postChair", "zombie", "reaped"}]
    /\ barber \in {"none", "start", "loop", "pillow", "check", "cut", "zombie", "reaped"}
    /\ allDone \in BOOLEAN /\ sigusr1 \in BOOLEAN
    /\ main \in {"forkBarber", "fork", "wait", "stop1", "stop2", "waitBarber", "end"}
    /\ numCustomers \in 0..MAX_CUSTOMERS
    /\ i \in 0..numCustomers
    /\ pid \in [Customer -> Customer \cup {None}]

(* ipcinit(): the initial values of the semaphores.                        *)
Init ==
    /\ version \in Versions
    /\ room = numChairs /\ chair = 1 /\ pillow = 0 /\ belt = 0
    /\ cust = [c \in Customer |-> "none"]
    /\ barber = "none"
    /\ allDone = FALSE /\ sigusr1 = FALSE
    /\ numCustomers \in 0..MAX_CUSTOMERS
    /\ main = "forkBarber" /\ i = 0
    /\ pid = [c \in Customer |-> None]

-----------------------------------------------------------------------------
(* A customer, semaphore by semaphore.                                     *)
Moves(c, from, to) == cust[c] = from /\ cust' = [cust EXCEPT ![c] = to]

EnterRoom(c) ==
    /\ Moves(c, "room", "chair")
    /\ room > 0 /\ room' = room - 1
    /\ UNCHANGED <<chair, pillow, belt, barber, allDone, sigusr1, mainvars>>

TakeChair(c) ==
    /\ Moves(c, "chair", "postRoom")
    /\ chair > 0 /\ chair' = chair - 1
    /\ UNCHANGED <<room, pillow, belt, barber, allDone, sigusr1, mainvars>>

(* Mutant of LeaveRoom: sempost() on the wrong semaphore.                  *)
LeaveRoomWrong(c) ==
    /\ Moves(c, "postRoom", "postPillow")
    /\ chair' = chair + 1
    /\ UNCHANGED <<room, pillow, belt, barber, allDone, sigusr1, mainvars>>

LeaveRoom(c) ==
    /\ Moves(c, "postRoom", "postPillow")
    /\ room' = room + 1
    /\ UNCHANGED <<chair, pillow, belt, barber, allDone, sigusr1, mainvars>>

WakeBarber(c) ==
    /\ Moves(c, "postPillow", "belt")
    /\ pillow' = pillow + 1
    /\ UNCHANGED <<room, chair, belt, barber, allDone, sigusr1, mainvars>>

HairCut(c) ==
    /\ Moves(c, "belt", "postChair")
    /\ belt > 0 /\ belt' = belt - 1
    /\ UNCHANGED <<room, chair, pillow, barber, allDone, sigusr1, mainvars>>

LeaveShop(c) ==
    /\ Moves(c, "postChair", "zombie")
    /\ chair' = chair + 1
    /\ UNCHANGED <<room, pillow, belt, barber, allDone, sigusr1, mainvars>>

-----------------------------------------------------------------------------
(* The barber.                                                             *)
SetSigHandler ==
    /\ barber = "start"
    /\ barber' = "loop"
    /\ UNCHANGED <<sems, cust, allDone, sigusr1, mainvars>>

(* while (allDone == 0)                                                    *)
BarberLoop ==
    /\ barber = "loop"
    /\ barber' = IF allDone THEN "zombie" ELSE "pillow"
    /\ UNCHANGED <<sems, cust, allDone, sigusr1, mainvars>>

BarberSleep ==
    /\ barber = "pillow"
    /\ pillow > 0 /\ pillow' = pillow - 1
    /\ barber' = "check"
    /\ UNCHANGED <<room, chair, belt, cust, allDone, sigusr1, mainvars>>

(* Mutant of BarberCheck: allDone is not looked at again.                  *)
BarberCheckNot ==
    /\ barber = "check"
    /\ barber' = "cut"
    /\ UNCHANGED <<sems, cust, allDone, sigusr1, mainvars>>

(* if (allDone == 0): cut hair, or go home.                                *)
BarberCheck ==
    /\ barber = "check"
    /\ barber' = IF allDone THEN "loop" ELSE "cut"
    /\ UNCHANGED <<sems, cust, allDone, sigusr1, mainvars>>

BarberCuts ==
    /\ barber = "cut"
    /\ belt' = belt + 1
    /\ barber' = "loop"
    /\ UNCHANGED <<room, chair, pillow, cust, allDone, sigusr1, mainvars>>

(* SIGUSR1 before signal() has run: the default action.                    *)
KilledAtStart ==
    /\ sigusr1 /\ barber = "start"
    /\ barber' = "zombie" /\ sigusr1' = FALSE
    /\ UNCHANGED <<sems, cust, allDone, mainvars>>

TheEnd ==
    /\ sigusr1 /\ barber \in {"loop", "pillow", "check", "cut"}
    /\ allDone' = TRUE /\ sigusr1' = FALSE
    /\ UNCHANGED <<sems, cust, barber, mainvars>>

(* SIGUSR1 during semwait(BARBERPILLOW): theend() runs, and the call gives *)
(* up with EINTR, which barber() does not look at.                         *)
SleepInterrupted ==
    /\ sigusr1 /\ barber = "pillow" /\ pillow = 0
    /\ allDone' = TRUE /\ sigusr1' = FALSE
    /\ barber' = "check"
    /\ UNCHANGED <<sems, cust, mainvars>>

-----------------------------------------------------------------------------
(* main().                                                                 *)
Outcome == IF ForkMayFail THEN BOOLEAN ELSE {TRUE}

StartBarber ==
    /\ main = "forkBarber"
    /\ \E ok \in Outcome :
          barber' = IF ~ok THEN "none" ELSE IF version = "V1" THEN "start" ELSE "loop"
    /\ main' = "fork"
    /\ UNCHANGED <<sems, cust, allDone, sigusr1, version, numCustomers, i, pid>>

StartCustomer ==
    /\ main = "fork" /\ i < numCustomers
    /\ \E ok \in Outcome :
          IF ok THEN /\ cust' = [cust EXCEPT ![i] = "room"]
                     /\ pid' = [pid EXCEPT ![i] = i]
                ELSE UNCHANGED <<cust, pid>>
    /\ i' = i + 1
    /\ UNCHANGED <<sems, barber, allDone, sigusr1, version, numCustomers, main>>

AllStarted ==
    /\ main = "fork" /\ i = numCustomers
    /\ main' = "wait" /\ i' = 0
    /\ UNCHANGED <<sems, cust, barber, allDone, sigusr1, version, numCustomers, pid>>

(* Mutant of WaitCustomer: waitpid() with WNOHANG.                         *)
WaitCustomerNoHang ==
    /\ main = "wait" /\ i < numCustomers /\ pid[i] # None
    /\ cust' = [cust EXCEPT ![i] = IF @ = "zombie" THEN "reaped" ELSE @]
    /\ i' = i + 1
    /\ UNCHANGED <<sems, barber, allDone, sigusr1, version, numCustomers, main, pid>>

(* waitpid(pid[i]) of a customer returns when he is a zombie, or at once   *)
(* when he has been reaped already.                                        *)
WaitCustomer ==
    /\ main = "wait" /\ i < numCustomers /\ pid[i] # None
    /\ cust[i] \in {"zombie", "reaped"}
    /\ cust' = [cust EXCEPT ![i] = "reaped"]
    /\ i' = i + 1
    /\ UNCHANGED <<sems, barber, allDone, sigusr1, version, numCustomers, main, pid>>

(* waitpid(-1), after a failed fork(): any child, the barber included.     *)
WaitAnyone ==
    /\ main = "wait" /\ i < numCustomers /\ pid[i] = None
    /\ \/ \E c \in Customer : Moves(c, "zombie", "reaped")
       \/ /\ barber \in {"none", "reaped"}
          /\ \A c \in Customer : cust[c] \in {"none", "reaped"}
          /\ UNCHANGED cust
    /\ i' = i + 1
    /\ UNCHANGED <<sems, barber, allDone, sigusr1, version, numCustomers, main, pid>>

AllWaited ==
    /\ main = "wait" /\ i = numCustomers
    /\ main' = "stop1"
    /\ UNCHANGED <<sems, cust, barber, allDone, sigusr1, version, numCustomers, i, pid>>

PostPillow == pillow' = pillow + 1 /\ UNCHANGED <<room, chair, belt>>

StopBarberV1 ==
    /\ version = "V1"
    /\ \/ /\ main = "stop1" /\ PostPillow
          /\ main' = "stop2" /\ UNCHANGED sigusr1
       \/ /\ main = "stop2" /\ sigusr1' = (barber \notin {"none", "zombie"})
          /\ main' = "waitBarber" /\ UNCHANGED sems
    /\ UNCHANGED <<cust, barber, allDone, version, numCustomers, i, pid>>

(* Mutant of StopBarberV2: the barber is woken first, then told.           *)
StopBarberWakeFirst ==
    /\ version = "V2"
    /\ \/ /\ main = "stop1" /\ PostPillow
          /\ main' = "stop2" /\ UNCHANGED allDone
       \/ /\ main = "stop2" /\ allDone' = TRUE
          /\ main' = "waitBarber" /\ UNCHANGED sems
    /\ UNCHANGED <<cust, barber, sigusr1, version, numCustomers, i, pid>>

StopBarberV2 ==
    /\ version = "V2"
    /\ \/ /\ main = "stop1" /\ allDone' = TRUE
          /\ main' = "stop2" /\ UNCHANGED sems
       \/ /\ main = "stop2" /\ PostPillow
          /\ main' = "waitBarber" /\ UNCHANGED allDone
    /\ UNCHANGED <<cust, barber, sigusr1, version, numCustomers, i, pid>>

(* (With no barber kill(-1, SIGUSR1) signals processes outside of this     *)
(* model: of its own children the program has none left.)                  *)

(* waitpid(bpid), and ipcend() after it.  With no barber it is waitpid(-1) *)
(* and finds no child.                                                     *)
WaitBarber ==
    /\ main = "waitBarber" /\ barber \in {"zombie", "none"}
    /\ barber' = IF barber = "zombie" THEN "reaped" ELSE barber
    /\ main' = "end"
    /\ UNCHANGED <<sems, cust, allDone, sigusr1, version, numCustomers, i, pid>>

-----------------------------------------------------------------------------
CustomerStep(c) == \/ EnterRoom(c) \/ TakeChair(c) \/ LeaveRoom(c)
                   \/ WakeBarber(c) \/ HairCut(c) \/ LeaveShop(c)
BarberStep == SetSigHandler \/ BarberLoop \/ BarberSleep \/ BarberCheck \/ BarberCuts
Signalled == KilledAtStart \/ TheEnd \/ SleepInterrupted
MainStep == \/ StartBarber \/ StartCustomer \/ AllStarted
            \/ WaitCustomer \/ WaitAnyone \/ AllWaited
            \/ StopBarberV1 \/ StopBarberV2 \/ WaitBarber

Next == (\E c \in Customer : CustomerStep(c)) \/ BarberStep \/ Signalled \/ MainStep

Spec == Init /\ [][Next]_vars

(* Every process that can run does, and a signal sent is delivered; a      *)
(* semaphore may be handed to any of those who wait for it.                *)
FairSpec == /\ Spec
            /\ \A c \in Customer : WF_vars(CustomerStep(c))
            /\ WF_vars(BarberStep) /\ WF_vars(Signalled) /\ WF_vars(MainStep)

-----------------------------------------------------------------------------
(* Properties.                                                             *)

(* "Limits the # of customers allowed to enter the waiting room at one     *)
(* time" and "ensures mutually exclusive access to the barber chair": every*)
(* seat is in its semaphore or has one customer, who may be in the room and*)
(* in the chair for a moment, whatever the barber is doing.                *)
SeatsAccounted ==
    /\ room + Cardinality({c \in Customer : InRoom(c)}) = numChairs
    /\ chair + Cardinality({c \in Customer : InChair(c)}) = 1

(* Pillow and belt carry one token for each customer whose hair waits to   *)
(* be cut or is cut and not yet paid for by leaving the chair, plus the    *)
(* one of main: no wake-up of a customer is lost or made up.               *)
Waking == \/ version = "V1" /\ main \in {"stop2", "waitBarber", "end"}
          \/ version = "V2" /\ main \in {"waitBarber", "end"}
WakeUpsKept ==
    (barber # "none" /\ ~Waking) =>
        pillow + belt + (IF barber \in {"check", "cut"} THEN 1 ELSE 0)
            = Cardinality({c \in Customer : cust[c] = "belt"})

(* No seat and no wake-up is lost or made, at any moment of any process.   *)
SemaphoresAccounted == TypeOK /\ SeatsAccounted /\ WakeUpsKept

(* "allow the barber to sleep until a customer arrives": whenever he cuts, *)
(* a customer sits strapped in the chair.                                  *)
CutsOnlyCustomers ==
    version = "V2" /\ barber = "cut" => \E c \in Customer : cust[c] = "belt"

(* "Stop the barber": main comes to its end, whatever the order in which   *)
(* the last wake-up and the end meet the barber, and whichever fork()      *)
(* fails, unless a customer waits for a hair cut and no barber was forked; *)
(* or main, in waitpid() with the -1 of a failed fork(), waits for the     *)
(* barber, whom nobody will wake; or the barber of V1 had tested allDone   *)
(* and not yet called semop() when SIGUSR1 came, with the last wake-up     *)
(* used up before.                                                         *)
NoBarber == /\ main = "wait" /\ barber = "none"
            /\ \E c \in Customer : cust[c] = "belt"
WaitsForBarber == /\ main = "wait" /\ i < numCustomers /\ pid[i] = None
                  /\ barber = "pillow" /\ pillow = 0
                  /\ \A c \in Customer : cust[c] \in {"none", "reaped"}
SleptThrough == /\ version = "V1" /\ main = "waitBarber"
                /\ barber = "pillow" /\ pillow = 0 /\ allDone
StopsBarber == <>(main = "end" \/ NoBarber \/ WaitsForBarber \/ SleptThrough)

(* At the end nobody is left, so ipcend() fails nobody's semop().          *)
EverybodyGone ==
    main = "end" => /\ barber \in {"none", "reaped"}
                    /\ \A c \in Customer : cust[c] \in {"none", "reaped"}

(* What every step keeps, besides the properties.  main() has forked the   *)
(* customers below i, and later waited for them; until it has waited for   *)
(* all, nobody tells the barber to stop; and when it has, nobody waits for *)
(* a hair cut any more.                                                    *)
Absent(c) == cust[c] \in {"none", "reaped"}
Attendance ==
    /\ main = "forkBarber" => i = 0 /\ barber = "none" /\ pillow = 0 /\ belt = 0
    /\ \A c \in Customer :
          /\ pid[c] = None => cust[c] = "none"
          /\ main \in {"forkBarber", "fork"} /\ c >= i => cust[c] = "none"
          /\ c >= numCustomers => cust[c] = "none"
          /\ main = "wait" /\ c < i => Absent(c)
          /\ main \in {"stop1", "stop2", "waitBarber", "end"} => Absent(c)

Stopping ==
    /\ allDone \/ sigusr1 => main \in {"stop2", "waitBarber", "end"}
    /\ sigusr1 => version = "V1"
    /\ version = "V2" /\ main \in {"stop2", "waitBarber", "end"} => allDone
    /\ version = "V2" /\ Waking => barber # "cut"
    /\ main = "end" => barber \in {"none", "reaped"}

Inv == TypeOK /\ SeatsAccounted /\ WakeUpsKept /\ Attendance /\ Stopping

=============================================================================
