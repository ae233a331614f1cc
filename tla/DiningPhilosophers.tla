------------------------- MODULE DiningPhilosophers -------------------------
(***************************************************************************)
(* src/Sysv/DiningPhilosophers.c, DiningPhilosophers2.c and                *)
(* DiningPhilosophers3.c.  A parent creates one System V semaphore per     *)
(* chopstick, forks NPHIL philosophers, sleeps, sends SIGUSR1 to each of   *)
(* them, waits NPHIL times and removes the semaphores.  The three programs *)
(* differ only in the sets of chopsticks their semop() calls take, and in  *)
(* which order:                                                            *)
(*   "DP1"  left, then right;                                              *)
(*   "DP2"  odd philosophers left first, even ones right first;            *)
(*   "DP3"  both in a single semop().                                      *)
(* Each gives them back by the same calls in the same order.               *)
(*                                                                         *)
(* sem and semadj are the kernel's state: the value of each semaphore, and *)
(* what SEM_UNDO will add to it when a process exits.  The sleep(1) calls, *)
(* eat() and think() have no state of their own: they are the time a       *)
(* philosopher spends at a control point before his next call.             *)
(***************************************************************************)
EXTENDS Integers, Sequences, FiniteSets

CONSTANTS NPHIL,                  \* number of philosophers and of chopsticks
          Programs,               \* the programs considered, among these three
          ForkMayFail,            \* fork() may return -1
          MayCrash                \* a philosopher may be killed at any point

ASSUME NPHILAssumption == NPHIL \in Nat /\ NPHIL >= 2
ASSUME ProgramAssumption == Programs \subseteq {"DP1", "DP2", "DP3"}
ASSUME FaultAssumption == ForkMayFail \in BOOLEAN /\ MayCrash \in BOOLEAN

Phil == 0..(NPHIL - 1)
Chopstick == 0..(NPHIL - 1)

Left(p) == p
Right(p) == (p + 1) % NPHIL

(* The semop() calls of one meal: the chopsticks each takes, in order.     *)
GripsDP1(p) == <<{Left(p)}, {Right(p)}>>
(* Mutants of GripsDP2 and GripsDP3: everybody left first; two semop().    *)
LeftFirst(p) == <<{Left(p)}, {Right(p)}>>
TwoCalls(p) == <<{Left(p)}, {Right(p)}>>

GripsDP2(p) == IF p % 2 = 1 THEN <<{Left(p)}, {Right(p)}>>
                            ELSE <<{Right(p)}, {Left(p)}>>
GripsDP3(p) == <<{Left(p), Right(p)}>>

VARIABLES program,                \* the program that runs; never changes
          sem,                    \* semval of every chopstick
          semadj,                 \* SEM_UNDO adjustment, per process
          pc, k,                  \* philosopher: control point, next grip
          alarm_flag,             \* philosopher: his copy of alarm_flag
          pending,                \* SIGUSR1 sent and not yet delivered
          parent, i               \* parent: control point, loop index

philvars == <<pc, k, alarm_flag, pending>>
vars == <<program, sem, semadj, philvars, parent, i>>

Grips(p) == CASE program = "DP1" -> GripsDP1(p)
              [] program = "DP2" -> GripsDP2(p)
              [] program = "DP3" -> GripsDP3(p)

Alive == {"start", "loop", "take", "give"}

TypeOK ==
    /\ program \in {"DP1", "DP2", "DP3"}
    /\ sem \in [Chopstick -> Int]
    /\ semadj \in [Phil -> [Chopstick -> Int]]
    /\ pc \in [Phil -> Alive \cup {"unborn", "zombie", "reaped"}]
    /\ k \in [Phil -> {1, 2}]
    /\ \A p \in Phil : k[p] <= Len(Grips(p))
    /\ alarm_flag \in [Phil -> BOOLEAN]
    /\ pending \in [Phil -> BOOLEAN]
    /\ parent \in {"fork", "sleep", "kill", "wait", "rmid", "done", "failed"}
    /\ i \in Phil

(* The semaphores are created and set to 1 before the first fork().        *)
Init ==
    /\ program \in Programs
    /\ sem = [c \in Chopstick |-> 1]
    /\ semadj = [p \in Phil |-> [c \in Chopstick |-> 0]]
    /\ pc = [p \in Phil |-> "unborn"]
    /\ k = [p \in Phil |-> 1]
    /\ alarm_flag = [p \in Phil |-> FALSE]
    /\ pending = [p \in Phil |-> FALSE]
    /\ parent = "fork"
    /\ i = 0

-----------------------------------------------------------------------------
(* A philosopher.                                                          *)

(* Mutant of Exit: semop() without SEM_UNDO.                               *)
ExitWithoutUndo(p) ==
    /\ UNCHANGED sem
    /\ semadj' = [semadj EXCEPT ![p] = [c \in Chopstick |-> 0]]
    /\ pc' = [pc EXCEPT ![p] = "zombie"]
    /\ k' = [k EXCEPT ![p] = 1]

(* exit(): the kernel applies the adjustments SEM_UNDO recorded.           *)
Exit(p) ==
    /\ sem' = [c \in Chopstick |-> sem[c] + semadj[p][c]]
    /\ semadj' = [semadj EXCEPT ![p] = [c \in Chopstick |-> 0]]
    /\ pc' = [pc EXCEPT ![p] = "zombie"]
    /\ k' = [k EXCEPT ![p] = 1]

SetSigHandler(p) ==
    /\ pc[p] = "start"
    /\ pc' = [pc EXCEPT ![p] = "loop"]
    /\ UNCHANGED <<program, sem, semadj, k, alarm_flag, pending, parent, i>>

(* while (!alarm_flag): another meal, or off the end of main().            *)
LoopAgain(p) ==
    /\ pc[p] = "loop"
    /\ ~alarm_flag[p]
    /\ pc' = [pc EXCEPT ![p] = "take"]
    /\ k' = [k EXCEPT ![p] = 1]
    /\ UNCHANGED <<program, sem, semadj, alarm_flag, pending, parent, i>>

LoopExit(p) ==
    /\ pc[p] = "loop"
    /\ alarm_flag[p]
    /\ Exit(p)
    /\ UNCHANGED <<program, alarm_flag, pending, parent, i>>

(* Mutant of Advance: one call too many.                                   *)
AdvanceTooFar(p, next) ==
    IF k[p] <= Len(Grips(p))
    THEN k' = [k EXCEPT ![p] = @ + 1] /\ UNCHANGED pc
    ELSE k' = [k EXCEPT ![p] = 1] /\ pc' = [pc EXCEPT ![p] = next]

(* The next grip ends the sequence: on to what follows it, from grip 1.    *)
Advance(p, next) ==
    IF k[p] < Len(Grips(p))
    THEN k' = [k EXCEPT ![p] = @ + 1] /\ UNCHANGED pc
    ELSE k' = [k EXCEPT ![p] = 1] /\ pc' = [pc EXCEPT ![p] = next]

(* Mutant of Semop: SEM_UNDO in my_wait() but not in my_signal().          *)
SemopUndoOnWait(p, op) ==
    LET S == Grips(p)[k[p]] IN
    /\ sem' = [c \in Chopstick |-> IF c \in S THEN sem[c] + op ELSE sem[c]]
    /\ semadj' = [semadj EXCEPT ![p] = [c \in Chopstick |->
                       IF c \in S /\ op < 0 THEN semadj[p][c] - op ELSE semadj[p][c]]]

(* semop() on the chopsticks of the current grip, with SEM_UNDO: all of    *)
(* them or none.                                                           *)
Semop(p, op) ==
    LET S == Grips(p)[k[p]] IN
    /\ sem' = [c \in Chopstick |-> IF c \in S THEN sem[c] + op ELSE sem[c]]
    /\ semadj' = [semadj EXCEPT ![p] = [c \in Chopstick |->
                       IF c \in S THEN semadj[p][c] - op ELSE semadj[p][c]]]

(* Mutant of CanTake: takes a chopstick that is in use.                    *)
TakesAnyway(p) == \A c \in Grips(p)[k[p]] : sem[c] >= 0

CanTake(p) == \A c \in Grips(p)[k[p]] : sem[c] >= 1

MyWait(p) ==
    /\ pc[p] = "take"
    /\ CanTake(p)
    /\ Semop(p, -1)
    /\ Advance(p, "give")
    /\ UNCHANGED <<program, alarm_flag, pending, parent, i>>

MySignal(p) ==
    /\ pc[p] = "give"
    /\ Semop(p, 1)
    /\ Advance(p, "loop")
    /\ UNCHANGED <<program, alarm_flag, pending, parent, i>>

-----------------------------------------------------------------------------
(* SIGUSR1 reaches a philosopher.                                          *)

(* Before signal() has run the default action kills him.                   *)
KilledAtStart(p) ==
    /\ pending[p]
    /\ pc[p] = "start"
    /\ Exit(p)
    /\ pending' = [pending EXCEPT ![p] = FALSE]
    /\ UNCHANGED <<program, alarm_flag, parent, i>>

(* Outside a blocked semop(), and just before one, the handler sets the    *)
(* flag and nothing else.                                                  *)
AlarmHandler(p) ==
    /\ pending[p]
    /\ pc[p] \in {"loop", "take", "give"}
    /\ pending' = [pending EXCEPT ![p] = FALSE]
    /\ alarm_flag' = [alarm_flag EXCEPT ![p] = TRUE]
    /\ UNCHANGED <<program, sem, semadj, pc, k, parent, i>>

(* A semop() asleep returns EINTR (it is never restarted): my_wait() calls *)
(* error(), which exits.                                                   *)
SemopInterrupted(p) ==
    /\ pending[p]
    /\ pc[p] = "take"
    /\ ~CanTake(p)
    /\ pending' = [pending EXCEPT ![p] = FALSE]
    /\ alarm_flag' = [alarm_flag EXCEPT ![p] = TRUE]
    /\ Exit(p)
    /\ UNCHANGED <<program, parent, i>>

(* "in case the job crashes": a philosopher dies with what he holds.       *)
Crash(p) ==
    /\ MayCrash
    /\ pc[p] \in Alive
    /\ Exit(p)
    /\ UNCHANGED <<program, alarm_flag, pending, parent, i>>

-----------------------------------------------------------------------------
(* The parent.                                                             *)

(* Mutant of Goto: every loop of the parent ends one turn early.           *)
GotoEarly(next) ==
    IF i + 2 < NPHIL THEN i' = i + 1 /\ UNCHANGED parent
                     ELSE i' = 0 /\ parent' = next

Goto(next) ==
    IF i + 1 < NPHIL THEN i' = i + 1 /\ UNCHANGED parent
                     ELSE i' = 0 /\ parent' = next

ForkPhilosopher ==
    /\ parent = "fork"
    /\ pc' = [pc EXCEPT ![i] = "start"]
    /\ Goto("sleep")
    /\ UNCHANGED <<program, sem, semadj, k, alarm_flag, pending>>

(* error() ends the parent; the philosophers already forked dine on.       *)
ForkFails ==
    /\ ForkMayFail
    /\ parent = "fork"
    /\ parent' = "failed"
    /\ UNCHANGED <<program, sem, semadj, philvars, i>>

SleepEnds ==
    /\ parent = "sleep"
    /\ parent' = "kill"
    /\ UNCHANGED <<program, sem, semadj, philvars, i>>

(* kill(child[i], SIGUSR1): of no effect on a zombie.                      *)
KillChild ==
    /\ parent = "kill"
    /\ pending' = IF pc[i] \in Alive THEN [pending EXCEPT ![i] = TRUE]
                                    ELSE pending
    /\ Goto("wait")
    /\ UNCHANGED <<program, sem, semadj, pc, k, alarm_flag>>

WaitChild ==
    /\ parent = "wait"
    /\ \E p \in Phil : /\ pc[p] = "zombie"
                       /\ pc' = [pc EXCEPT ![p] = "reaped"]
    /\ Goto("rmid")
    /\ UNCHANGED <<program, sem, semadj, k, alarm_flag, pending>>

(* IPC_RMID of every chopstick; no process is left to see them go one by   *)
(* one (TableCleared).                                                     *)
RemoveChopsticks ==
    /\ parent = "rmid"
    /\ parent' = "done"
    /\ UNCHANGED <<program, sem, semadj, philvars, i>>

-----------------------------------------------------------------------------
Serve(p) == LoopAgain(p) \/ LoopExit(p) \/ MyWait(p) \/ MySignal(p)
Signalled(p) == KilledAtStart(p) \/ AlarmHandler(p) \/ SemopInterrupted(p)
ParentAwake == \/ ForkPhilosopher \/ ForkFails
               \/ KillChild \/ WaitChild \/ RemoveChopsticks

Next == \/ \E p \in Phil : \/ SetSigHandler(p) \/ Serve(p)
                           \/ Signalled(p) \/ Crash(p)
        \/ ParentAwake
        \/ SleepEnds

Spec == Init /\ [][Next]_vars

(* The scheduler runs every process that can run, the meals end, and a     *)
(* signal sent is delivered.  Nothing fair is said of who gets a chopstick *)
(* that several wait for, nor of crashes and failing forks; and the parent *)
(* may sleep on, so that the dinner need not end.                          *)
Fairness == /\ \A p \in Phil : /\ WF_vars(SetSigHandler(p))
                               /\ WF_vars(Serve(p))
                               /\ WF_vars(Signalled(p))
            /\ WF_vars(ParentAwake)

FairSpec == Spec /\ Fairness

-----------------------------------------------------------------------------
(* Properties.                                                             *)

Eating(p) == pc[p] = "give" /\ k[p] = 1
Blocked(p) == pc[p] = "take" /\ ~CanTake(p)
Before(c) == (c + NPHIL - 1) % NPHIL        \* whose right chopstick c is

(* What a philosopher owes the semaphores follows from where he is: exit() *)
(* at that point puts back what he holds, no more and no less.             *)
Held(p) == CASE pc[p] = "take" /\ k[p] = 2 -> Grips(p)[1]
             [] pc[p] = "give" /\ k[p] = 1 -> {Left(p), Right(p)}
             [] pc[p] = "give" /\ k[p] = 2 -> Grips(p)[2]
             [] OTHER -> {}
UndoMatchesMeal ==
    \A p \in Phil : \A c \in Chopstick :
        semadj[p][c] = IF c \in Held(p) THEN 1 ELSE 0

(* Two philosophers who share a chopstick never eat at once: what the      *)
(* semop() protocol of each program is for.                                *)
NeighboursExclude ==
    \A p \in Phil : ~(Eating(p) /\ Eating(Right(p)))

(* A chopstick is on the table or owed by exactly one of the two who share *)
(* it, through every exit, interrupted semop() and crash: "ALWAYS use UNDO *)
(* in case the job crashes".                                               *)
ChopstickAccounting ==
    \A c \in Chopstick :
        /\ sem[c] \in {0, 1}
        /\ semadj[c][c] \in {0, 1} /\ semadj[Before(c)][c] \in {0, 1}
        /\ sem[c] + semadj[c][c] + semadj[Before(c)][c] = 1

(* Both at every moment: what a crash here would give back is what its     *)
(* philosopher holds, and that makes every chopstick whole again.          *)
CrashRestoresTable == UndoMatchesMeal /\ ChopstickAccounting

(* The parent's loop index is the number of philosophers forked, then the  *)
(* number of them reaped: wait() is called once for each of its children.  *)
ParentCounts ==
    /\ parent = "fork" => \A p \in Phil : pc[p] = "unborn" <=> p >= i
    /\ parent \notin {"fork", "failed"} => \A p \in Phil : pc[p] # "unborn"
    /\ Cardinality({p \in Phil : pc[p] = "reaped"}) =
           CASE parent = "wait" -> i
             [] parent \in {"rmid", "done"} -> NPHIL
             [] OTHER -> 0

(* The semaphores go only when every philosopher has been reaped and every *)
(* chopstick is back on the table, so no semop() meets a removed set.      *)
TableCleared ==
    parent \in {"rmid", "done"} => /\ \A p \in Phil : pc[p] = "reaped"
                                   /\ \A c \in Chopstick : sem[c] = 1

(* The parent reaps every philosopher it forked, each once, before it      *)
(* removes the chopsticks.                                                 *)
ParentReapsAll == ParentCounts /\ TableCleared

(* When anybody is blocked at a chopstick, somebody who can go on holds    *)
(* one: the order of DP2 and the double semop() of DP3 leave no cycle of   *)
(* philosophers waiting for one another.                                   *)
NoCircularWait ==
    (program # "DP1" /\ \E p \in Phil : Blocked(p)) =>
        \E q \in Phil : /\ ~Blocked(q)
                       /\ \E c \in Chopstick : semadj[q][c] = 1

(* "Kill the children": once all are signalled every one of them ends, and *)
(* the parent's NPHIL calls of wait() all return, but for one way to hang: *)
(* in DiningPhilosophers.c everybody waits for his second chopstick with   *)
(* his alarm_flag already set, which only the loop tests.                  *)
CircleOfTheFlagged == program = "DP1" /\ \A p \in Phil : Blocked(p) /\ alarm_flag[p]
KilledChildrenExit ==
    (parent = "wait") ~> (parent = "done" \/ CircleOfTheFlagged)

(* With semaphores that serve their sleepers in order of arrival (strong   *)
(* fairness of each semop()) a philosopher of DiningPhilosophers2.c who    *)
(* wants to eat eats, or is ended by a signal or a crash.                  *)
NoStarvation ==
    (\A p \in Phil : SF_vars(MyWait(p))) =>
        \A p \in Phil : (pc[p] = "take" /\ program = "DP2")
                            ~> (Eating(p) \/ pc[p] = "zombie")

(* Refinement: the semaphores implement the table.                         *)
Holder(c) == IF semadj[c][c] = 1 THEN c
             ELSE IF semadj[Before(c)][c] = 1 THEN Before(c) ELSE NPHIL

Table == INSTANCE Dining WITH owner <- [c \in Chopstick |-> Holder(c)],
                              eating <- {p \in Phil : Eating(p)}

(* Every behaviour of the programs is one of the abstract table.           *)
TableSpec == Table!Spec

=============================================================================
