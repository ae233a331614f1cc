--------------------------- MODULE BoundedBuffer ----------------------------
(***************************************************************************)
(* src/Sysv/prodconsumer0.c (drain = FALSE) and prodconsumer2.c (drain =   *)
(* TRUE): a parent reads characters and puts them into a ring of BUFSIZE   *)
(* bytes of shared memory, its child takes them out and prints them in     *)
(* upper case.  Three semaphores of one set, used without SEM_UNDO, guard  *)
(* the ring.  At end of file the parent kills the child with SIGTERM; in   *)
(* prodconsumer2.c it first waits for the semaphore FULL to be zero.       *)
(*                                                                         *)
(* initsem() sets FULL to BUFSIZE and EMPTY to 0: the ring starts full of  *)
(* the NULs of a fresh segment.                                            *)
(***************************************************************************)
EXTENDS Integers, Sequences

CONSTANTS BUFSIZE,                \* bytes in the ring
          Input,                  \* the characters on standard input
          Upper,                  \* toupper(), as a function on characters
          NUL,                    \* the byte '\0'
          Drains,                 \* the programs considered: values of drain
          SemIds,                 \* the values semget() may return
          AttachMayFail,          \* shmat() may return ERR
          ForkMayFail             \* fork() may return -1

ASSUME SizeAssumption == BUFSIZE \in Nat /\ BUFSIZE >= 1
ASSUME CharAssumption == /\ Upper \in [DOMAIN Upper -> DOMAIN Upper]
                         /\ Input \in Seq(DOMAIN Upper)
ASSUME NulAssumption == NUL \in DOMAIN Upper /\ Upper[NUL] = NUL
ASSUME FlagAssumption == /\ Drains \subseteq BOOLEAN
                         /\ AttachMayFail \in BOOLEAN
                         /\ ForkMayFail \in BOOLEAN
ASSUME SemIdAssumption == SemIds \subseteq {-1, 0, 1}

Char == DOMAIN Upper
Slot == 0..(BUFSIZE - 1)

VARIABLES drain,                  \* producer() ends with p0(FULL); never changes
          semid, attached,        \* results of semget() and shmat()
          full, empty, mutex,     \* the semaphores FULL, EMPTY, MUTEX
          buffer,                 \* the shared memory segment
          pcP, nextp, in,         \* parent: control point and locals
          pcC, nextc, out,        \* child: control point and locals
          child,                  \* what the kernel knows of the child
          sigterm,                \* SIGTERM sent to the child
          put, got, printed       \* history: puts, gets, standard output

semvars == <<full, empty, mutex>>
setup == <<drain, semid, attached>>
parentvars == <<pcP, nextp, in, put>>
childvars == <<pcC, nextc, out, got, printed>>
vars == <<setup, semvars, buffer, parentvars, childvars, child, sigterm>>

ParentPC == {"initsem", "getseg", "fork", "read", "pEmpty", "pMutex", "put",
             "vMutex", "vFull", "p0", "kill", "waitpid", "ipcremove", "exit"}
ChildPC == {"pFull", "pMutex", "get", "vMutex", "vEmpty", "print"}

TypeOK ==
    /\ drain \in BOOLEAN
    /\ semid \in {-1, 0, 1} /\ attached \in BOOLEAN
    /\ full \in Nat /\ empty \in Nat /\ mutex \in Nat
    /\ buffer \in [Slot -> Char]
    /\ pcP \in ParentPC /\ nextp \in Char /\ in \in Slot
    /\ pcC \in ChildPC /\ nextc \in Char /\ out \in Slot
    /\ child \in {"none", "running", "zombie", "reaped"}
    /\ sigterm \in BOOLEAN
    /\ put \in Nat /\ got \in Nat
    /\ printed \in Seq(Char)

Init ==
    /\ drain \in Drains
    /\ semid \in SemIds /\ attached = TRUE
    /\ full = 0 /\ empty = 0 /\ mutex = 0
    /\ buffer = [s \in Slot |-> NUL]
    /\ pcP = "initsem" /\ nextp = NUL /\ in = 0
    /\ pcC = "pFull" /\ nextc = NUL /\ out = 0
    /\ child = "none" /\ sigterm = FALSE
    /\ put = 0 /\ got = 0 /\ printed = <<>>

-----------------------------------------------------------------------------
(* The parent.                                                             *)

(* Mutants of InitSem: EMPTY at BUFSIZE as well; MUTEX at BUFSIZE as well. *)
InitSemBothFull ==
    /\ pcP = "initsem"
    /\ IF semid > 0 THEN full' = BUFSIZE /\ empty' = BUFSIZE /\ mutex' = 1
                    ELSE UNCHANGED semvars
    /\ pcP' = IF semid < 0 THEN "exit" ELSE "getseg"
    /\ UNCHANGED <<setup, buffer, nextp, in, put, childvars, child, sigterm>>
InitSemMutexFull ==
    /\ pcP = "initsem"
    /\ IF semid > 0 THEN full' = BUFSIZE /\ empty' = 0 /\ mutex' = BUFSIZE
                    ELSE UNCHANGED semvars
    /\ pcP' = IF semid < 0 THEN "exit" ELSE "getseg"
    /\ UNCHANGED <<setup, buffer, nextp, in, put, childvars, child, sigterm>>

(* semget() > 0 initialises the set; 0, which is also a success, does not. *)
InitSem ==
    /\ pcP = "initsem"
    /\ IF semid > 0 THEN full' = BUFSIZE /\ empty' = 0 /\ mutex' = 1
                    ELSE UNCHANGED semvars
    /\ pcP' = IF semid < 0 THEN "exit" ELSE "getseg"
    /\ UNCHANGED <<setup, buffer, nextp, in, put, childvars, child, sigterm>>

(* main() does not look at what getseg() returns.                          *)
GetSeg ==
    /\ pcP = "getseg"
    /\ \E ok \in {TRUE, ~AttachMayFail} : attached' = ok
    /\ pcP' = "fork"
    /\ UNCHANGED <<drain, semid, semvars, buffer, nextp, in, put, childvars, child, sigterm>>

Fork ==
    /\ pcP = "fork"
    /\ pcP' = "read" /\ child' = "running"
    /\ UNCHANGED <<setup, semvars, buffer, nextp, in, put, childvars, sigterm>>

(* exit(1): nothing is removed.                                            *)
ForkFails ==
    /\ ForkMayFail
    /\ pcP = "fork"
    /\ pcP' = "exit"
    /\ UNCHANGED <<setup, semvars, buffer, nextp, in, put, childvars, child, sigterm>>

ReadChar ==
    /\ pcP = "read" /\ put < Len(Input)
    /\ nextp' = Input[put + 1]
    /\ pcP' = "pEmpty"
    /\ UNCHANGED <<setup, semvars, buffer, in, put, childvars, child, sigterm>>

(* End of file, or a read() that fails.                                    *)
ReadEnds ==
    /\ pcP = "read"
    /\ pcP' = IF drain THEN "p0" ELSE "kill"
    /\ UNCHANGED <<setup, semvars, buffer, nextp, in, put, childvars, child, sigterm>>

ProducerPEmpty ==
    /\ pcP = "pEmpty" /\ empty > 0
    /\ empty' = empty - 1
    /\ pcP' = "pMutex"
    /\ UNCHANGED <<setup, full, mutex, buffer, nextp, in, put, childvars, child, sigterm>>

ProducerPMutex ==
    /\ pcP = "pMutex" /\ mutex > 0
    /\ mutex' = mutex - 1
    /\ pcP' = "put"
    /\ UNCHANGED <<setup, full, empty, buffer, nextp, in, put, childvars, child, sigterm>>

(* Mutants of ProducerPut: in not wrapped round; in not advanced.          *)
ProducerPutNoWrap ==
    /\ pcP = "put" /\ attached
    /\ buffer' = [buffer EXCEPT ![in] = nextp]
    /\ in' = in + 1
    /\ put' = put + 1
    /\ pcP' = "vMutex"
    /\ UNCHANGED <<setup, semvars, nextp, childvars, child, sigterm>>
ProducerPutInPlace ==
    /\ pcP = "put" /\ attached
    /\ buffer' = [buffer EXCEPT ![in] = nextp]
    /\ put' = put + 1
    /\ pcP' = "vMutex"
    /\ UNCHANGED <<setup, semvars, nextp, in, childvars, child, sigterm>>

(* buffer[in] = nextp; with no segment attached it kills the parent.       *)
ProducerPut ==
    /\ pcP = "put"
    /\ IF attached
       THEN /\ buffer' = [buffer EXCEPT ![in] = nextp]
            /\ in' = (in + 1) % BUFSIZE
            /\ put' = put + 1
            /\ pcP' = "vMutex"
       ELSE pcP' = "exit" /\ UNCHANGED <<buffer, in, put>>
    /\ UNCHANGED <<setup, semvars, nextp, childvars, child, sigterm>>

ProducerVMutex ==
    /\ pcP = "vMutex"
    /\ mutex' = mutex + 1
    /\ pcP' = "vFull"
    /\ UNCHANGED <<setup, full, empty, buffer, nextp, in, put, childvars, child, sigterm>>

ProducerVFull ==
    /\ pcP = "vFull"
    /\ full' = full + 1
    /\ pcP' = "read"
    /\ UNCHANGED <<setup, empty, mutex, buffer, nextp, in, put, childvars, child, sigterm>>

(* p0(semid, FULL): waits for zero.                                        *)
ProducerP0 ==
    /\ pcP = "p0" /\ full = 0
    /\ pcP' = "kill"
    /\ UNCHANGED <<setup, semvars, buffer, nextp, in, put, childvars, child, sigterm>>

Kill ==
    /\ pcP = "kill"
    /\ sigterm' = (child = "running")
    /\ pcP' = "waitpid"
    /\ UNCHANGED <<setup, semvars, buffer, nextp, in, put, childvars, child>>

WaitPid ==
    /\ pcP = "waitpid" /\ child = "zombie"
    /\ child' = "reaped"
    /\ pcP' = "ipcremove"
    /\ UNCHANGED <<setup, semvars, buffer, nextp, in, put, childvars, sigterm>>

IpcRemove ==
    /\ pcP = "ipcremove"
    /\ pcP' = "exit"
    /\ UNCHANGED <<setup, semvars, buffer, nextp, in, put, childvars, child, sigterm>>

-----------------------------------------------------------------------------
(* The child.  It never ends by itself.                                    *)

ConsumerPFull ==
    /\ child = "running" /\ pcC = "pFull" /\ full > 0
    /\ full' = full - 1
    /\ pcC' = "pMutex"
    /\ UNCHANGED <<setup, empty, mutex, buffer, parentvars, nextc, out, got, printed, child, sigterm>>

ConsumerPMutex ==
    /\ child = "running" /\ pcC = "pMutex" /\ mutex > 0
    /\ mutex' = mutex - 1
    /\ pcC' = "get"
    /\ UNCHANGED <<setup, full, empty, buffer, parentvars, nextc, out, got, printed, child, sigterm>>

(* nextc = buffer[out]; with no segment attached it kills the child.       *)
ConsumerGet ==
    /\ child = "running" /\ pcC = "get"
    /\ IF attached
       THEN /\ nextc' = buffer[out]
            /\ out' = (out + 1) % BUFSIZE
            /\ got' = got + 1
            /\ pcC' = "vMutex"
            /\ UNCHANGED child
       ELSE child' = "zombie" /\ UNCHANGED <<nextc, out, got, pcC>>
    /\ UNCHANGED <<setup, semvars, buffer, parentvars, printed, sigterm>>

(* Mutant of ConsumerVMutex: the mutex is not given back.                  *)
ConsumerVMutexForgets ==
    /\ child = "running" /\ pcC = "vMutex"
    /\ pcC' = "vEmpty"
    /\ UNCHANGED <<setup, semvars, buffer, parentvars, nextc, out, got, printed, child, sigterm>>

ConsumerVMutex ==
    /\ child = "running" /\ pcC = "vMutex"
    /\ mutex' = mutex + 1
    /\ pcC' = "vEmpty"
    /\ UNCHANGED <<setup, full, empty, buffer, parentvars, nextc, out, got, printed, child, sigterm>>

ConsumerVEmpty ==
    /\ child = "running" /\ pcC = "vEmpty"
    /\ empty' = empty + 1
    /\ pcC' = "print"
    /\ UNCHANGED <<setup, full, mutex, buffer, parentvars, nextc, out, got, printed, child, sigterm>>

(* printf() of the character in upper case, flushed at once.               *)
ConsumerPrint ==
    /\ child = "running" /\ pcC = "print"
    /\ printed' = Append(printed, Upper[nextc])
    /\ pcC' = "pFull"
    /\ UNCHANGED <<setup, semvars, buffer, parentvars, nextc, out, got, child, sigterm>>

(* SIGTERM ends the child wherever it is.                                  *)
ConsumerKilled ==
    /\ sigterm /\ child = "running"
    /\ child' = "zombie" /\ sigterm' = FALSE
    /\ UNCHANGED <<setup, semvars, buffer, parentvars, childvars>>

-----------------------------------------------------------------------------
Producer == \/ ReadChar \/ ReadEnds \/ ProducerPEmpty \/ ProducerPMutex
            \/ ProducerPut \/ ProducerVMutex \/ ProducerVFull \/ ProducerP0
Consumer == \/ ConsumerPFull \/ ConsumerPMutex \/ ConsumerGet
            \/ ConsumerVMutex \/ ConsumerVEmpty \/ ConsumerPrint
Main == InitSem \/ GetSeg \/ Fork \/ ForkFails \/ Kill \/ WaitPid \/ IpcRemove

Next == Main \/ Producer \/ Consumer \/ ConsumerKilled

Spec == Init /\ [][Next]_vars

(* Both processes run when they can, and SIGTERM is delivered.             *)
FairSpec == /\ Spec
            /\ WF_vars(Main \/ Producer)
            /\ WF_vars(Consumer)
            /\ WF_vars(ConsumerKilled)

-----------------------------------------------------------------------------
(* Properties.                                                             *)

One(P) == IF P THEN 1 ELSE 0
ParentIn == pcP \in {"put", "vMutex"}
ChildIn == pcC \in {"get", "vMutex"}
Working == semid > 0 /\ pcP # "initsem"

(* The ring is touched by one process at a time: the other is not between  *)
(* p(MUTEX) and v(MUTEX), alive or killed there.                           *)
MutualExclusion == ~(ParentIn /\ ChildIn)

(* Every token is in a semaphore or with the process that took it: FULL is *)
(* what has been put and not yet asked for, EMPTY what has been got and    *)
(* not yet refilled, counting the BUFSIZE NULs of the start as put.        *)
Tokens ==
    Working /\ pcP # "exit" =>
        /\ mutex + One(ParentIn) + One(ChildIn) = 1
        /\ full = BUFSIZE + put - got - One(pcC \in {"pMutex", "get"})
                                      - One(pcP \in {"vMutex", "vFull"})
        /\ empty = got - put - One(pcC \in {"vMutex", "vEmpty"})
                             - One(pcP \in {"pMutex", "put"})

(* A character is not overwritten before it has been got, and a slot is    *)
(* not got twice: the producer stays between the consumer and one lap.     *)
NoOverrun == /\ put <= got /\ got <= put + BUFSIZE
             /\ pcP = "put" => put < got
             /\ pcC = "get" => got < put + BUFSIZE

(* What FULL, EMPTY and MUTEX are for, the three together.                 *)
RingGuarded == MutualExclusion /\ Tokens /\ NoOverrun

(* What is printed: BUFSIZE NULs, then the input in upper case, in order,  *)
(* with nothing lost on the way and nothing printed twice: all that was    *)
(* got, but for the character that the consumer has in hand.               *)
Stream == [j \in 1..(BUFSIZE + Len(Input)) |->
               IF j <= BUFSIZE THEN NUL ELSE Upper[Input[j - BUFSIZE]]]
InHand == pcC \in {"vMutex", "vEmpty", "print"}
Output == printed = SubSeq(Stream, 1, got - One(InHand))

(* "Wait until child has consumed all chars" (prodconsumer2.c): when that  *)
(* program has waited, and killed and reaped its child, everything that    *)
(* was put has been got.                                                   *)
AllConsumed ==
    (drain /\ Working /\ attached /\ pcP = "ipcremove") => got = BUFSIZE + put

(* What the wait is good for: whenever the parent is past it, all that was *)
(* put has been got but for one character, which the child is about to     *)
(* take or was killed before it took.                                      *)
AtMostOneLeft ==
    (drain /\ Working /\ pcP \in {"kill", "waitpid", "ipcremove"}) =>
        got = BUFSIZE + put - One(pcC \in {"pMutex", "get"})

(* The program comes to its end, whatever semget(), shmat() and fork()     *)
(* return: the wait for FULL to be zero is not in vain, and SIGTERM ends   *)
(* the child wherever it is.  But the parent waits for ever in p(EMPTY) of *)
(* a set with identifier 0, which was not initialised, and in p(EMPTY) or  *)
(* p0(FULL) when without a segment the child has died, with the mutex.     *)
Blocked == \/ semid = 0 /\ pcP = "pEmpty"
           \/ ~attached /\ child = "zombie" /\ pcP \in {"pEmpty", "p0"}
Termination == <>(pcP = "exit" \/ Blocked)

(* Refinement: the ring is a queue that starts full of NULs.               *)
Line == INSTANCE DelayLine WITH
            queue <- [j \in 1..(put + BUFSIZE - got) |-> buffer[(got + j - 1) % BUFSIZE]]
LineSpec == Line!Spec

=============================================================================
