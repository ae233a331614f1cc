----------------------------- MODULE ForkServer -----------------------------
(***************************************************************************)
(* src/Socket/TCPEchoServer-Fork.c and TCPEchoServer-Fork-SIGCHLD.c: for   *)
(* each connection the server forks a child that echoes it and exits.      *)
(* childProcCount counts the children not yet waited for; a loop of        *)
(* waitpid(WNOHANG) cleans up the zombies:                                 *)
(*   "Fork"     in main(), after each fork();                              *)
(*   "SIGCHLD"  in the handler of SIGCHLD, with every signal masked.       *)
(* childProcCount++ of main() is a load and a store: in "SIGCHLD" it is a  *)
(* global that the handler, which may run between the two, decrements.     *)
(***************************************************************************)
EXTENDS Integers, FiniteSets

CONSTANTS Versions,               \* the programs considered, among these two
          Client,                 \* the connections that come, in any order
          ServerForkMayFail       \* fork() may return -1

ASSUME VersionAssumption == Versions \subseteq {"Fork", "SIGCHLD"}
ASSUME ClientAssumption == IsFiniteSet(Client)
ASSUME ServerForkAssumption == ServerForkMayFail \in BOOLEAN

VARIABLES version,                \* the program that runs; never changes
          childOf,                \* the child of each connection
          childProcCount,
          pc, loaded,             \* main(): control point, register
          handler,                \* ChildExitSignalHandler() is running
          sigchld                 \* SIGCHLD is pending

serverVars == <<version, childOf, childProcCount, pc, loaded, handler, sigchld>>

InState(states) == {c \in Client : childOf[c] \in states}
Zombies == InState({"zombie"})
Outstanding == InState({"running", "zombie"})

(* "exit" is DieWithError() after fork(), "failed" after waitpid().        *)
Up == pc \notin {"exit", "failed"}

ServerTypeOK ==
    /\ version \in {"Fork", "SIGCHLD"}
    /\ childOf \in [Client -> {"none", "running", "zombie", "reaped"}]
    /\ childProcCount \in Nat
    /\ pc \in {"accept", "load", "store", "cleanup", "exit", "failed"}
    /\ loaded \in Nat
    /\ handler \in BOOLEAN /\ sigchld \in BOOLEAN

ServerInit ==
    /\ version \in Versions
    /\ childOf = [c \in Client |-> "none"]
    /\ childProcCount = 0
    /\ pc = "accept" /\ loaded = 0
    /\ handler = FALSE /\ sigchld = FALSE

-----------------------------------------------------------------------------
(* main(), while no handler runs on top of it.                             *)

(* accept() (restarted by SA_RESTART when a signal interrupts it), fork(). *)
AcceptAndFork(c) ==
    /\ pc = "accept" /\ ~handler
    /\ childOf[c] = "none"
    /\ childOf' = [childOf EXCEPT ![c] = "running"]
    /\ pc' = "load"
    /\ UNCHANGED <<version, childProcCount, loaded, handler, sigchld>>

ServerForkFails ==
    /\ ServerForkMayFail
    /\ pc = "accept" /\ ~handler
    /\ pc' = "exit"
    /\ UNCHANGED <<version, childOf, childProcCount, loaded, handler, sigchld>>

LoadCount ==
    /\ pc = "load" /\ ~handler
    /\ loaded' = childProcCount
    /\ pc' = "store"
    /\ UNCHANGED <<version, childOf, childProcCount, handler, sigchld>>

(* Mutants of StoreCount: childProcCount--; the result is not stored.      *)
StoreCountDown ==
    /\ pc = "store" /\ ~handler
    /\ childProcCount' = loaded - 1
    /\ pc' = IF version = "Fork" THEN "cleanup" ELSE "accept"
    /\ UNCHANGED <<version, childOf, loaded, handler, sigchld>>
StoreForgotten ==
    /\ pc = "store" /\ ~handler
    /\ pc' = IF version = "Fork" THEN "cleanup" ELSE "accept"
    /\ UNCHANGED <<version, childOf, childProcCount, loaded, handler, sigchld>>

StoreCount ==
    /\ pc = "store" /\ ~handler
    /\ childProcCount' = loaded + 1
    /\ pc' = IF version = "Fork" THEN "cleanup" ELSE "accept"
    /\ UNCHANGED <<version, childOf, loaded, handler, sigchld>>

-----------------------------------------------------------------------------
(* while (childProcCount) { waitpid(-1, NULL, WNOHANG) ... }               *)
Cleaning == pc = "cleanup" \/ handler

LeaveLoop ==
    /\ handler' = FALSE
    /\ pc' = IF pc = "cleanup" THEN "accept" ELSE pc
    /\ UNCHANGED <<version, childOf, childProcCount, loaded, sigchld>>

NothingToWaitFor == Cleaning /\ childProcCount = 0 /\ LeaveLoop

(* waitpid() returns 0: there are children, none of them a zombie.         *)
NoZombie ==
    /\ Cleaning /\ childProcCount > 0
    /\ Zombies = {} /\ Outstanding # {}
    /\ LeaveLoop

(* Mutants of CleanUp: childProcCount not decremented; if for while.       *)
CleanUpUncounted(c) ==
    /\ Cleaning /\ childProcCount > 0
    /\ childOf[c] = "zombie"
    /\ childOf' = [childOf EXCEPT ![c] = "reaped"]
    /\ UNCHANGED <<version, childProcCount, pc, loaded, handler, sigchld>>
CleanUpOnce(c) ==
    /\ Cleaning /\ childProcCount > 0
    /\ childOf[c] = "zombie"
    /\ childOf' = [childOf EXCEPT ![c] = "reaped"]
    /\ childProcCount' = childProcCount - 1
    /\ handler' = FALSE
    /\ pc' = IF pc = "cleanup" THEN "accept" ELSE pc
    /\ UNCHANGED <<version, loaded, sigchld>>

CleanUp(c) ==
    /\ Cleaning /\ childProcCount > 0
    /\ childOf[c] = "zombie"
    /\ childOf' = [childOf EXCEPT ![c] = "reaped"]
    /\ childProcCount' = childProcCount - 1
    /\ UNCHANGED <<version, pc, loaded, handler, sigchld>>

(* waitpid() returns -1: there is no child.                                *)
WaitPidFails ==
    /\ Cleaning /\ childProcCount > 0
    /\ Outstanding = {}
    /\ pc' = "failed" /\ handler' = FALSE
    /\ UNCHANGED <<version, childOf, childProcCount, loaded, sigchld>>

-----------------------------------------------------------------------------
(* The end of HandleTCPClient() in a child.                                *)
ChildExits(c) ==
    /\ childOf[c] = "running"
    /\ childOf' = [childOf EXCEPT ![c] = "zombie"]
    /\ sigchld' = (version = "SIGCHLD" /\ Up)
    /\ UNCHANGED <<version, childProcCount, pc, loaded, handler>>

(* Signals do not queue: one SIGCHLD may stand for several children.       *)
Interrupted ==
    /\ sigchld /\ ~handler /\ Up
    /\ handler' = TRUE /\ sigchld' = FALSE
    /\ UNCHANGED <<version, childOf, childProcCount, pc, loaded>>

-----------------------------------------------------------------------------
ServerMain == (\E c \in Client : AcceptAndFork(c)) \/ ServerForkFails \/ LoadCount \/ StoreCount
Loop == NothingToWaitFor \/ NoZombie \/ (\E c \in Client : CleanUp(c)) \/ WaitPidFails

ServerNext == ServerMain \/ Loop \/ Interrupted \/ \E c \in Client : ChildExits(c)

ServerSpec == ServerInit /\ [][ServerNext]_serverVars

-----------------------------------------------------------------------------
(* Properties.                                                             *)

(* "Number of child processes": outside of the increment itself, it is the *)
(* number of children forked and not waited for (TCPEchoServer-Fork.c).    *)
CountExact ==
    version = "Fork" /\ pc \in {"accept", "cleanup"} =>
        childProcCount = Cardinality(Outstanding)

(* TCPEchoServer-Fork.c calls waitpid() only while there is a child to     *)
(* wait for, so nothing but a failing fork() ends the server.              *)
WaitPidSucceeds == version = "Fork" => pc # "failed"

(* So the count is a licence for waitpid(): exact outside of the increment *)
(* and positive whenever the loop asks.                                    *)
CountSafe == CountExact /\ WaitPidSucceeds

(* "run forever", in whichever program: waitpid() does not end the server. *)
RunsForever == pc # "failed"

(* "Clean up all zombies": none is left when the loop gives the server     *)
(* back to accept().                                                       *)
CleansAll == [][Cleaning /\ pc' = "accept" /\ ~handler' => Zombies' = {}]_serverVars

(* The handler may make childProcCount too large, never too small: while   *)
(* the server waits in accept() every zombie is within reach of the loop.  *)
CountNeverShort ==
    pc = "accept" => childProcCount >= Cardinality(Outstanding)

=============================================================================
