------------------------------ MODULE Children ------------------------------
(***************************************************************************)
(* Programs that fork nchilds children, and how they come to know that the *)
(* children have ended:                                                    *)
(*   "forkwait1" ... "forkwait4"  src/Process/forkwait1.c to forkwait4.c   *)
(*       (forkexample.c is the first, with one child): wait(), waitpid() of*)
(*       each, polling with WNOHANG, and waitpid() of anyone;              *)
(*   "shell"   src/Process/shell.c, a child for each command;              *)
(*   "signal0", "signal1"  src/Signal/signal0.c and signal1.c, one wait()  *)
(*       in the handler of SIGCHLD;                                        *)
(*   "spawn"   src/Socket/sserverP.c and sortserverP.c, a child for each   *)
(*       connection, counted in running and maxspawn.                      *)
(* Pending SIGCHLDs are one.  signal() gives BSD semantics: SIGCHLD is     *)
(* blocked in its handler, and calls other than sleep() are restarted.     *)
(* Children end when they like; what they do and print is left out.        *)
(***************************************************************************)
EXTENDS Integers, FiniteSets

CONSTANTS Programs,               \* the programs considered, among these eight
          MaxChilds,              \* largest nchilds, or number of connections
          ForkMayFail

ASSUME ProgramAssumption ==
    Programs \subseteq {"forkwait1", "forkwait2", "forkwait3", "forkwait4", "shell",
                        "signal0", "signal1", "spawn"}
ASSUME SizeAssumption == MaxChilds \in Nat
ASSUME ForkAssumption == ForkMayFail \in BOOLEAN

Child == 1..MaxChilds

VARIABLES program, nchilds,       \* what runs; these never change
          main,                   \* control point of the parent
          i,                      \* children forked, or connections accepted
          j,                      \* counter of the second loop
          child,                  \* "none", "run", "zombie", "reaped", or
                                  \* "refused" when its fork() failed
          pending,                \* a SIGCHLD is pending
          processes,              \* signal0.c, changed by the handler
          alive,                  \* signal1.c
          running, maxspawn,      \* sserverP.c, sortserverP.c
          peak                    \* children alive at a time (history)

choice == <<program, nchilds>>
spawned == <<running, maxspawn, peak>>
vars == <<choice, main, i, j, child, pending, processes, alive, spawned>>

In(s) == {c \in Child : child[c] = s}
Unreaped == In("run") \cup In("zombie")
Handled == program \in {"signal0", "signal1"}
Ends(c, s) == child' = [child EXCEPT ![c] = s]

Init ==
    /\ program \in Programs
    /\ nchilds \in 0..MaxChilds
    /\ main = "fork" /\ i = 0 /\ j = 0
    /\ child = [c \in Child |-> "none"]
    /\ pending = FALSE
    /\ processes = nchilds
    /\ alive = FALSE
    /\ running = 0 /\ maxspawn = 0 /\ peak = 0

-----------------------------------------------------------------------------
(* Forking.  signal0.c forks while i < processes, which the handler        *)
(* counts down; the others are told the number once.                       *)
Limit == IF program = "signal0" THEN processes ELSE nchilds

Larger(a, b) == IF a > b THEN a ELSE b

ForkChild ==
    /\ main = "fork" /\ i < Limit
    /\ child' = [child EXCEPT ![i + 1] = "run"]
    /\ i' = i + 1
    /\ main' = IF program = "shell" THEN "wait" ELSE IF program = "spawn" THEN "reap" ELSE "fork"
    /\ IF program = "spawn"
       THEN /\ running' = running + 1
            /\ maxspawn' = Larger(maxspawn, running')
            /\ peak' = Larger(peak, Cardinality(In("run")) + 1)
       ELSE UNCHANGED spawned
    /\ UNCHANGED <<choice, j, pending, processes, alive>>

(* The end of all but the servers, which keep the connection and go on.    *)
ForkFails ==
    /\ ForkMayFail
    /\ main = "fork" /\ i < Limit
    /\ IF program = "spawn"
       THEN i' = i + 1 /\ Ends(i + 1, "refused") /\ UNCHANGED main
       ELSE main' = "failed" /\ UNCHANGED <<i, child>>
    /\ UNCHANGED <<choice, j, pending, processes, alive, spawned>>

(* No more children; no more commands, and fgets() returns NULL.  A server *)
(* waits for another connection for ever.                                  *)
ForkLoopEnds ==
    /\ main = "fork" /\ i >= Limit /\ program # "spawn"
    /\ main' = IF program = "shell" THEN "end" ELSE IF program = "signal1" THEN "kill" ELSE "wait"
    /\ UNCHANGED <<choice, i, j, child, pending, processes, alive, spawned>>

ChildEnds(c) ==
    /\ child[c] = "run"
    /\ Ends(c, "zombie")
    /\ pending' = (pending \/ (Handled /\ main # "end"))
    /\ UNCHANGED <<choice, main, i, j, processes, alive, spawned>>

-----------------------------------------------------------------------------
(* forkwait1.c: nchilds times wait().                                      *)
WaitAny ==
    /\ program = "forkwait1" /\ main = "wait" /\ j < nchilds
    /\ IF Unreaped = {} THEN UNCHANGED child ELSE \E c \in In("zombie") : Ends(c, "reaped")
    /\ j' = j + 1
    /\ UNCHANGED <<choice, main, i, pending, processes, alive, spawned>>

(* forkwait2.c: waitpid() of each, in the order of their birth.            *)
WaitPidEach ==
    /\ program = "forkwait2" /\ main = "wait" /\ j < nchilds
    /\ child[j + 1] = "zombie"
    /\ Ends(j + 1, "reaped")
    /\ j' = j + 1
    /\ UNCHANGED <<choice, main, i, pending, processes, alive, spawned>>

WaitEnds ==
    /\ program \in {"forkwait1", "forkwait2"} /\ main = "wait" /\ j >= nchilds
    /\ main' = "end"
    /\ UNCHANGED <<choice, i, j, child, pending, processes, alive, spawned>>

(* forkwait3.c: WNOHANG, and a second's sleep if nobody has ended.  The    *)
(* loop tests at its end.                                                  *)
Poll ==
    /\ program = "forkwait3" /\ main = "wait"
    /\ \/ \E c \in In("zombie") : Ends(c, "reaped") /\ j' = j + 1
       \/ In("zombie") = {} /\ UNCHANGED <<child, j>>
    /\ main' = IF j' < nchilds THEN "wait" ELSE "end"
    /\ UNCHANGED <<choice, i, pending, processes, alive, spawned>>

(* forkwait4.c: an error counts like a child.                              *)
WaitPidAny ==
    /\ program = "forkwait4" /\ main = "wait"
    /\ IF Unreaped = {} THEN UNCHANGED child ELSE \E c \in In("zombie") : Ends(c, "reaped")
    /\ j' = j + 1
    /\ main' = IF j' < nchilds THEN "wait" ELSE "end"
    /\ UNCHANGED <<choice, i, pending, processes, alive, spawned>>

(* shell.c, execute(): while (wait(&status) != pid) sleep(1).              *)
WaitCommand ==
    /\ program = "shell" /\ main = "wait"
    /\ \E c \in In("zombie") :
          /\ Ends(c, "reaped")
          /\ main' = IF c = i THEN "fork" ELSE "wait"
    /\ UNCHANGED <<choice, i, j, pending, processes, alive, spawned>>

-----------------------------------------------------------------------------
(* Mutant of Handler: the child is not counted off.                        *)
HandlerNoCount ==
    /\ pending /\ main # "end" /\ main # "failed"
    /\ pending' = FALSE
    /\ \E c \in In("zombie") : Ends(c, "reaped")
    /\ UNCHANGED <<choice, main, i, j, alive, spawned, processes>>

(* handler() of signal0.c and signal1.c, between two steps of main().      *)
Handler ==
    /\ pending /\ main # "end" /\ main # "failed"
    /\ pending' = FALSE
    /\ \E c \in In("zombie") : Ends(c, "reaped")
    /\ processes' = IF program = "signal0" THEN processes - 1 ELSE processes
    /\ UNCHANGED <<choice, main, i, j, alive, spawned>>

(* signal0.c: while (processes) sleep(1).                                  *)
NoProcesses ==
    /\ program = "signal0" /\ main = "wait" /\ processes = 0
    /\ main' = "end"
    /\ UNCHANGED <<choice, i, j, child, pending, processes, alive, spawned>>

(* Mutant of KillZero: alive tells of the last child alone.                *)
KillZeroLast ==
    /\ main = "kill" /\ j < nchilds
    /\ alive' = (child[j + 1] \in {"run", "zombie"})
    /\ j' = j + 1
    /\ UNCHANGED <<choice, main, i, child, pending, processes, spawned>>

(* signal1.c: kill(pids[i], 0) finds a child until it has been waited for. *)
KillZero ==
    /\ main = "kill" /\ j < nchilds
    /\ alive' = (alive \/ child[j + 1] \in {"run", "zombie"})
    /\ j' = j + 1
    /\ UNCHANGED <<choice, main, i, child, pending, processes, spawned>>

RoundEnds ==
    /\ main = "kill" /\ j = nchilds
    /\ main' = IF alive THEN "kill" ELSE "end"
    /\ j' = 0 /\ alive' = FALSE
    /\ UNCHANGED <<choice, i, child, pending, processes, spawned>>

-----------------------------------------------------------------------------
(* sserverP.c and sortserverP.c: while (waitpid(-1, NULL, WNOHANG) > 0).   *)
ReapOne ==
    /\ main = "reap"
    /\ \E c \in In("zombie") : Ends(c, "reaped")
    /\ running' = running - 1
    /\ UNCHANGED <<choice, main, i, j, pending, processes, alive, maxspawn, peak>>

ReapEnds ==
    /\ main = "reap" /\ In("zombie") = {}
    /\ main' = "fork"
    /\ UNCHANGED <<choice, i, j, child, pending, processes, alive, spawned>>

-----------------------------------------------------------------------------
Main == \/ ForkChild \/ ForkFails \/ ForkLoopEnds
        \/ WaitAny \/ WaitPidEach \/ WaitEnds \/ Poll \/ WaitPidAny \/ WaitCommand
        \/ NoProcesses \/ KillZero \/ RoundEnds \/ ReapOne \/ ReapEnds

Next == Main \/ Handler \/ \E c \in Child : ChildEnds(c)

Spec == Init /\ [][Next]_vars

FairSpec == /\ Spec /\ WF_vars(Main) /\ WF_vars(Handler)
            /\ \A c \in Child : WF_vars(ChildEnds(c))

-----------------------------------------------------------------------------
(* Properties.                                                             *)

TypeOK ==
    /\ program \in Programs /\ nchilds \in 0..MaxChilds
    /\ main \in {"fork", "failed", "wait", "kill", "reap", "end"}
    /\ i \in 0..nchilds /\ j \in 0..nchilds + 1
    /\ child \in [Child -> {"none", "run", "zombie", "reaped", "refused"}]
    /\ pending \in BOOLEAN /\ alive \in BOOLEAN
    /\ processes \in 0..nchilds
    /\ running \in 0..nchilds /\ maxspawn \in 0..nchilds /\ peak \in 0..nchilds

(* forkwait1.c to forkwait4.c, shell.c: a parent that comes to its end has *)
(* waited for every child, and a command starts when the last has ended.   *)
AllWaitedFor ==
    /\ program \in {"forkwait1", "forkwait2", "forkwait3", "forkwait4", "shell"} /\ main = "end" =>
           \A c \in Child : child[c] = IF c <= nchilds THEN "reaped" ELSE "none"
    /\ program = "shell" /\ main = "fork" => Unreaped = {}

(* signal0.c, signal1.c: processes counts what is not yet waited for or    *)
(* not yet born; a SIGCHLD always finds a child to wait for, so that the   *)
(* handler never blocks; and either ends when nobody is left, only.        *)
HandlerFindsZombie ==
    Handled =>
        /\ program = "signal0" => processes = nchilds - Cardinality(In("reaped"))
        /\ pending => In("zombie") # {}
        /\ main = "end" => Unreaped = {} /\ i = nchilds

(* sserverP.c, sortserverP.c: running is the number of children not yet    *)
(* waited for, and maxspawn never less than there were at a time.          *)
SpawnCounted ==
    program = "spawn" => running = Cardinality(Unreaped) /\ maxspawn >= peak

(* Children are counted right.                                             *)
ChildrenCounted == TypeOK /\ AllWaitedFor /\ HandlerFindsZombie /\ SpawnCounted

(* What every step keeps.  Each child forked is in one of three states;    *)
(* a program keeps to its own control points; and the counter of the       *)
(* second loop says which, or how many, have been waited for.              *)
Accounted ==
    /\ \A c \in Child : child[c] = "none" <=> c > i
    /\ Cardinality(In("reaped")) + Cardinality(Unreaped) + Cardinality(In("refused")) = i
    /\ program # "spawn" => In("refused") = {}

Points ==
    /\ program = "spawn" => main \in {"fork", "reap"}
    /\ main = "reap" => program = "spawn"
    /\ main = "kill" => program = "signal1"
    /\ program = "signal1" => main # "wait"
    /\ pending => Handled
    /\ main \in {"wait", "kill", "end"} /\ program \notin {"shell", "signal0"} => i = nchilds

Counting ==
    /\ program \in {"forkwait1", "forkwait3", "forkwait4"} /\ main # "end" =>
           j = Cardinality(In("reaped"))
    /\ program = "forkwait2" /\ main # "end" => \A c \in Child : c <= j => child[c] = "reaped"
    /\ program \in {"forkwait1", "forkwait2", "forkwait3", "forkwait4"} /\ main = "end" =>
           Unreaped = {}
    /\ program = "shell" => /\ Unreaped = IF main = "wait" THEN {i} ELSE {}
                            /\ main = "end" => i = nchilds
    /\ program = "signal1" /\ main = "fork" => j = 0
    /\ program = "signal1" /\ main = "kill" /\ ~alive =>
           \A c \in Child : c <= j => child[c] \notin {"run", "zombie"}

Inv == TypeOK /\ Accounted /\ Points /\ Counting /\ HandlerFindsZombie /\ SpawnCounted

(* The parent ends; or a child could not be forked; or, in signal0.c and   *)
(* signal1.c, two children ended so close together that one of them was    *)
(* never waited for; or, in signal0.c, one ended before the last was       *)
(* forked, so that the last never was.                                     *)
ZombieForgotten == Handled /\ In("run") = {} /\ In("zombie") # {} /\ ~pending
ForkedTooFew == program = "signal0" /\ main = "wait" /\ i < nchilds
ParentEnds ==
    <>(main \in {"end", "failed"} \/ ZombieForgotten \/ ForkedTooFew
       \/ (program = "spawn" /\ i = nchilds))

=============================================================================
