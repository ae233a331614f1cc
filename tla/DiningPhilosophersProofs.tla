---------------------- MODULE DiningPhilosophersProofs ----------------------
(***************************************************************************)
(* Theorems about DiningPhilosophers, for every number of philosophers and *)
(* for each of the three programs.                                         *)
(***************************************************************************)
EXTENDS DiningPhilosophers, FiniteSetTheorems, TLAPS

(* Both directions around the table, without the remainder operator.       *)
LEMMA RoundTable ==
    ASSUME NEW p \in Phil
    PROVE  /\ Right(p) = IF p = NPHIL - 1 THEN 0 ELSE p + 1
           /\ Before(p) = IF p = 0 THEN NPHIL - 1 ELSE p - 1
<1>1. Right(p) = IF p = NPHIL - 1 THEN 0 ELSE p + 1
  <2>1. CASE p = NPHIL - 1
    BY <2>1, NPHILAssumption DEF Right, Phil
  <2>2. CASE p # NPHIL - 1
    BY <2>2, NPHILAssumption DEF Right, Phil
  <2> QED BY <2>1, <2>2
<1>2. Before(p) = IF p = 0 THEN NPHIL - 1 ELSE p - 1
  <2>1. CASE p = 0
    BY <2>1, NPHILAssumption DEF Before, Phil
  <2>2. CASE p # 0
    <3>1. p + NPHIL - 1 = NPHIL + (p - 1) /\ p - 1 \in 0..(NPHIL - 1)
      BY <2>2, NPHILAssumption DEF Phil
    <3>2. (NPHIL + (p - 1)) % NPHIL = p - 1
      BY <3>1, NPHILAssumption
    <3> QED BY <2>2, <3>1, <3>2 DEF Before
  <2> QED BY <2>1, <2>2
<1> QED BY <1>1, <1>2

(* The two chopsticks of a philosopher are different ones, and a chopstick *)
(* is the right one of the philosopher before it and of nobody else.       *)
LEMMA Neighbours ==
    ASSUME NEW p \in Phil
    PROVE  /\ Left(p) \in Chopstick /\ Right(p) \in Chopstick /\ Before(p) \in Phil
           /\ Right(p) # p /\ Before(p) # p
           /\ Right(Before(p)) = p /\ Before(Right(p)) = p
           /\ \A q \in Phil : Right(q) = p => q = Before(p)
<1>1. /\ Right(p) \in Phil /\ Before(p) \in Phil /\ Right(p) # p /\ Before(p) # p
  BY RoundTable, NPHILAssumption DEF Phil
<1>2. \A q \in Phil : /\ Right(q) = IF q = NPHIL - 1 THEN 0 ELSE q + 1
                      /\ Before(q) = IF q = 0 THEN NPHIL - 1 ELSE q - 1
  BY RoundTable
<1> QED BY <1>1, <1>2, NPHILAssumption DEF Phil, Chopstick, Left

(* Whatever the program, a meal is one semop() for both chopsticks or two  *)
(* for one each.                                                           *)
LEMMA MealOfProgram ==
    ASSUME program \in {"DP1", "DP2", "DP3"}, NEW p \in Phil
    PROVE  \/ /\ Len(Grips(p)) = 1
              /\ Grips(p)[1] = {Left(p), Right(p)}
           \/ /\ Len(Grips(p)) = 2
              /\ \/ Grips(p)[1] = {Left(p)} /\ Grips(p)[2] = {Right(p)}
                 \/ Grips(p)[1] = {Right(p)} /\ Grips(p)[2] = {Left(p)}
<1>1. CASE program = "DP1"
  BY <1>1 DEF Grips, GripsDP1
<1>2. CASE program = "DP2"
  BY <1>2 DEF Grips, GripsDP2
<1>3. CASE program = "DP3"
  BY <1>3 DEF Grips, GripsDP3
<1> QED BY <1>1, <1>2, <1>3

(* The same from the type invariant.                                       *)
LEMMA MealShape ==
    ASSUME TypeOK, NEW p \in Phil
    PROVE  \/ /\ Len(Grips(p)) = 1
              /\ Grips(p)[1] = {Left(p), Right(p)}
           \/ /\ Len(Grips(p)) = 2
              /\ \/ Grips(p)[1] = {Left(p)} /\ Grips(p)[2] = {Right(p)}
                 \/ Grips(p)[1] = {Right(p)} /\ Grips(p)[2] = {Left(p)}
BY MealOfProgram DEF TypeOK

(* No step changes the program, nor therefore the shape of a meal.         *)
LEMMA SameProgram == [Next]_vars => program' = program
<1> SUFFICES ASSUME [Next]_vars PROVE program' = program
  OBVIOUS
<1>1. CASE UNCHANGED vars
  BY <1>1 DEF vars
<1>2. ASSUME NEW p \in Phil, SetSigHandler(p) \/ Serve(p) \/ Signalled(p) \/ Crash(p)
      PROVE  program' = program
  BY <1>2 DEF SetSigHandler, Serve, LoopAgain, LoopExit, MyWait, MySignal,
              Signalled, KilledAtStart, AlarmHandler, SemopInterrupted, Crash
<1>3. CASE ParentAwake \/ SleepEnds
  BY <1>3 DEF ParentAwake, ForkPhilosopher, ForkFails, KillChild, WaitChild,
              RemoveChopsticks, SleepEnds
<1> QED BY <1>1, <1>2, <1>3 DEF Next

(* A philosopher keeps his order of taking chopsticks.                     *)
LEMMA SameGrips ==
    ASSUME program' = program
    PROVE  \A p \in Phil : Grips(p)' = Grips(p)
BY DEF Grips

-----------------------------------------------------------------------------
(* The inductive invariant: the adjustments of a philosopher are what he   *)
(* holds at his control point, and each chopstick is accounted for.        *)
Inv == TypeOK /\ UndoMatchesMeal /\ ChopstickAccounting

(* All chopsticks are on the table at first, and nobody owes any.          *)
LEMMA InitInv == Init => Inv
<1> SUFFICES ASSUME Init PROVE Inv
  OBVIOUS
<1>1. TypeOK
  <2>1. \A p \in Phil : k[p] <= Len(Grips(p))
    <3> TAKE p \in Phil
    <3>1. program \in {"DP1", "DP2", "DP3"} /\ k[p] = 1
      BY ProgramAssumption DEF Init
    <3>2. Len(Grips(p)) \in {1, 2}
      BY <3>1, MealOfProgram
    <3> QED BY <3>1, <3>2
  <2> QED BY <2>1, NPHILAssumption, ProgramAssumption DEF Init, TypeOK, Alive, Phil
<1>2. UndoMatchesMeal
  BY DEF Init, UndoMatchesMeal, Held
<1>3. ChopstickAccounting
  BY Neighbours DEF Init, ChopstickAccounting, Phil, Chopstick
<1> QED BY <1>1, <1>2, <1>3 DEF Inv

(* A step that leaves the semaphores, the adjustments and what everybody   *)
(* holds alone.                                                            *)
LEMMA HandsOff ==
    ASSUME Inv, UNCHANGED <<sem, semadj>>, TypeOK',
           \A p \in Phil : Held(p)' = Held(p)
    PROVE  Inv'
<1>1. UndoMatchesMeal'
  BY DEF Inv, UndoMatchesMeal
<1>2. ChopstickAccounting'
  BY DEF Inv, ChopstickAccounting
<1> QED BY <1>1, <1>2 DEF Inv

(* There is a second grip only where a meal has two.                       *)
LEMMA SecondGrip ==
    ASSUME TypeOK, NEW p \in Phil, k[p] = 2
    PROVE  Len(Grips(p)) = 2
<1> DEFINE n == Len(Grips(p))
<1>1. n \in {1, 2}
  BY MealShape
<1>2. k[p] <= n
  BY DEF TypeOK
<1> HIDE DEF n
<1>3. n = 2
  BY <1>1, <1>2
<1> QED BY <1>3 DEF n

(* Nobody holds a chopstick that is not next to him.                       *)
LEMMA HeldIsMine ==
    ASSUME TypeOK, NEW p \in Phil
    PROVE  Held(p) \subseteq {Left(p), Right(p)}
<1>1. CASE pc[p] = "take" /\ k[p] = 2
  <2>1. Held(p) = Grips(p)[1]
    BY <1>1 DEF Held
  <2> QED BY <2>1, MealShape
<1>2. CASE pc[p] = "give" /\ k[p] = 1
  BY <1>2 DEF Held
<1>3. CASE pc[p] = "give" /\ k[p] = 2
  <2>1. Held(p) = Grips(p)[2]
    BY <1>3 DEF Held
  <2>2. Len(Grips(p)) = 2
    BY <1>3, SecondGrip
  <2> QED BY <2>1, <2>2, MealShape
<1>4. CASE /\ ~(pc[p] = "take" /\ k[p] = 2)
           /\ ~(pc[p] = "give" /\ k[p] = 1)
           /\ ~(pc[p] = "give" /\ k[p] = 2)
  BY <1>4 DEF Held
<1> QED BY <1>1, <1>2, <1>3, <1>4

(* exit(), wherever it happens: SEM_UNDO gives back exactly what is held.  *)
LEMMA ExitInv ==
    ASSUME Inv, NEW p \in Phil, Exit(p), program' = program, TypeOK'
    PROVE  Inv'
<1>1. semadj' = [semadj EXCEPT ![p] = [c \in Chopstick |-> 0]]
      /\ sem' = [c \in Chopstick |-> sem[c] + semadj[p][c]]
      /\ pc' = [pc EXCEPT ![p] = "zombie"]
      /\ k' = [k EXCEPT ![p] = 1]
  BY DEF Exit
<1>2. UndoMatchesMeal'
  <2> SUFFICES ASSUME NEW q \in Phil, NEW c \in Chopstick
               PROVE  semadj'[q][c] = IF c \in Held(q)' THEN 1 ELSE 0
    BY DEF UndoMatchesMeal
  <2>1. CASE q = p
    <3>1. Held(q)' = {}
      BY <1>1, <2>1 DEF Held, Inv, TypeOK
    <3> QED BY <1>1, <2>1, <3>1 DEF Inv, TypeOK
  <2>2. CASE q # p
    <3>1. Held(q)' = Held(q)
      BY <1>1, <2>2, SameGrips DEF Held, Inv, TypeOK
    <3> QED BY <1>1, <2>2, <3>1 DEF Inv, TypeOK, UndoMatchesMeal
  <2> QED BY <2>1, <2>2
<1>3. ChopstickAccounting'
  <2> SUFFICES ASSUME NEW c \in Chopstick
               PROVE  /\ sem'[c] \in {0, 1}
                      /\ semadj'[c][c] \in {0, 1} /\ semadj'[Before(c)][c] \in {0, 1}
                      /\ sem'[c] + semadj'[c][c] + semadj'[Before(c)][c] = 1
    BY DEF ChopstickAccounting
  <2>1. c \in Phil /\ Before(c) \in Phil /\ Before(c) # c
    BY Neighbours DEF Phil, Chopstick
  <2>2. /\ sem[c] \in {0, 1}
        /\ semadj[c][c] \in {0, 1} /\ semadj[Before(c)][c] \in {0, 1}
        /\ sem[c] + semadj[c][c] + semadj[Before(c)][c] = 1
    BY DEF Inv, ChopstickAccounting
  <2>3. p # c /\ p # Before(c) => semadj[p][c] = 0
    <3>1. p # c /\ p # Before(c) => c # Left(p) /\ c # Right(p)
      BY Neighbours DEF Left, Phil, Chopstick
    <3>2. Held(p) \subseteq {Left(p), Right(p)}
      BY HeldIsMine DEF Inv
    <3> QED BY <3>1, <3>2 DEF Inv, UndoMatchesMeal
  <2>4. sem'[c] = sem[c] + semadj[p][c]
    BY <1>1
  <2>5. semadj'[p][c] = 0 /\ \A q \in Phil \ {p} : semadj'[q][c] = semadj[q][c]
    BY <1>1 DEF Inv, TypeOK
  <2>6. CASE p = c
    BY <2>6, <2>1, <2>2, <2>4, <2>5
  <2>7. CASE p = Before(c)
    BY <2>7, <2>1, <2>2, <2>4, <2>5
  <2>8. CASE p # c /\ p # Before(c)
    <3>1. semadj'[c][c] = semadj[c][c] /\ semadj'[Before(c)][c] = semadj[Before(c)][c]
      BY <2>8, <2>5, <2>1
    <3> QED BY <2>8, <2>1, <2>2, <2>3, <2>4, <3>1
  <2> QED BY <2>6, <2>7, <2>8
<1> QED BY <1>2, <1>3 DEF Inv

(* A semop() of p: it moves the chopsticks of one grip between the table   *)
(* and p, in a state where they are all there, or all his.                 *)
LEMMA SemopInv ==
    ASSUME Inv, TypeOK', NEW p \in Phil, NEW op \in {-1, 1}, Semop(p, op),
           Grips(p)[k[p]] \subseteq {Left(p), Right(p)},
           op = -1 => /\ CanTake(p)
                      /\ Held(p)' = Held(p) \cup Grips(p)[k[p]],
           op = 1 => /\ Grips(p)[k[p]] \subseteq Held(p)
                     /\ Held(p)' = Held(p) \ Grips(p)[k[p]],
           \A q \in Phil \ {p} : Held(q)' = Held(q)
    PROVE  Inv'
<1> DEFINE S == Grips(p)[k[p]]
<1>1. \A c \in Chopstick : sem'[c] = IF c \in S THEN sem[c] + op ELSE sem[c]
  BY DEF Semop
<1>2. \A c \in Chopstick : semadj'[p][c] = IF c \in S THEN semadj[p][c] - op
                                                     ELSE semadj[p][c]
  BY DEF Semop, Inv, TypeOK
<1>3. \A q \in Phil \ {p} : semadj'[q] = semadj[q]
  BY DEF Semop, Inv, TypeOK
<1>4. \A q \in Phil, c \in Chopstick :
          /\ sem[c] \in {0, 1}
          /\ semadj[q][c] = IF c \in Held(q) THEN 1 ELSE 0
          /\ sem[c] + semadj[c][c] + semadj[Before(c)][c] = 1
  BY DEF Inv, UndoMatchesMeal, ChopstickAccounting
<1>5. \A c \in S : op = -1 => sem[c] = 1 /\ c \notin Held(p)
  <2> SUFFICES ASSUME NEW c \in S, op = -1
               PROVE  sem[c] = 1 /\ c \notin Held(p)
    OBVIOUS
  <2>1. c \in Chopstick /\ c \in Phil /\ (p = c \/ p = Before(c))
    BY Neighbours DEF Left, Phil, Chopstick
  <2>2. sem[c] >= 1
    BY DEF CanTake
  <2>3. sem[c] = 1
    BY <2>1, <2>2, <1>4
  <2>4. semadj[c][c] \in {0, 1} /\ semadj[Before(c)][c] \in {0, 1}
    BY <2>1 DEF Inv, ChopstickAccounting
  <2>5. semadj[p][c] = 0
    BY <2>1, <2>3, <2>4, <1>4
  <2> QED BY <2>1, <2>3, <2>5, <1>4
<1>6. UndoMatchesMeal'
  <2> SUFFICES ASSUME NEW q \in Phil, NEW c \in Chopstick
               PROVE  semadj'[q][c] = IF c \in Held(q)' THEN 1 ELSE 0
    BY DEF UndoMatchesMeal
  <2>1. CASE q # p
    BY <2>1, <1>3, <1>4
  <2>2. CASE q = p /\ c \notin S
    BY <2>2, <1>2, <1>4
  <2>3. CASE q = p /\ c \in S /\ op = -1
    BY <2>3, <1>2, <1>4, <1>5
  <2>4. CASE q = p /\ c \in S /\ op = 1
    BY <2>4, <1>2, <1>4
  <2> QED BY <2>1, <2>2, <2>3, <2>4
<1>7. ChopstickAccounting'
  <2> SUFFICES ASSUME NEW c \in Chopstick
               PROVE  /\ sem'[c] \in {0, 1}
                      /\ semadj'[c][c] \in {0, 1} /\ semadj'[Before(c)][c] \in {0, 1}
                      /\ sem'[c] + semadj'[c][c] + semadj'[Before(c)][c] = 1
    BY DEF ChopstickAccounting
  <2>1. c \in Phil /\ Before(c) \in Phil /\ Before(c) # c
    BY Neighbours DEF Phil, Chopstick
  <2>2. semadj'[c][c] \in {0, 1} /\ semadj'[Before(c)][c] \in {0, 1}
    BY <2>1, <1>6 DEF UndoMatchesMeal
  <2>3. CASE c \notin S
    <3>1. \A q \in Phil : semadj'[q][c] = semadj[q][c]
      BY <2>3, <1>2, <1>3
    <3> QED BY <3>1, <2>1, <2>2, <2>3, <1>1, <1>4
  <2>4. CASE c \in S
    <3>1. p = c \/ p = Before(c)
      BY <2>4, Neighbours DEF Left, Phil, Chopstick
    <3>2. sem'[c] = sem[c] + op /\ semadj'[p][c] = semadj[p][c] - op
      BY <2>4, <1>1, <1>2
    <3>3. \A q \in Phil \ {p} : semadj'[q][c] = semadj[q][c]
      BY <1>3
    <3>4. semadj[c][c] \in {0, 1} /\ semadj[Before(c)][c] \in {0, 1} /\ sem[c] \in {0, 1}
      BY DEF Inv, ChopstickAccounting
    <3>5. sem'[c] + semadj'[c][c] + semadj'[Before(c)][c] = 1
      BY <3>1, <3>2, <3>3, <3>4, <2>1, <1>4
    <3>6. op = -1 => sem[c] = 1
      BY <2>4, <1>5
    <3>7. op = 1 => semadj[p][c] = 1
      BY <2>4, <1>4
    <3>8. op = 1 => sem[c] = 0
      BY <3>1, <3>4, <3>7, <2>1, <1>4
    <3>9. sem'[c] \in {0, 1}
      BY <3>2, <3>6, <3>8
    <3> QED BY <3>5, <3>9, <2>2
  <2> QED BY <2>3, <2>4
<1> QED BY <1>6, <1>7 DEF Inv

-----------------------------------------------------------------------------
(* Types.                                                                  *)
LEMMA TypePreserved == TypeOK /\ [Next]_vars => TypeOK'
<1> SUFFICES ASSUME TypeOK, [Next]_vars PROVE TypeOK'
  OBVIOUS
<1> USE NPHILAssumption
<1>0. \A p \in Phil : Len(Grips(p)) \in {1, 2} /\ 1 <= Len(Grips(p))
  BY MealShape
<1>a. program' = program /\ \A p \in Phil : Grips(p)' = Grips(p)
  BY SameProgram, SameGrips
<1> USE <1>a
<1>1. CASE UNCHANGED vars
  <2>1. UNCHANGED <<sem, semadj, pc, k, alarm_flag, pending, parent, i>>
    BY <1>1 DEF vars, philvars
  <2> QED BY <2>1 DEF TypeOK
<1>2. ASSUME NEW p \in Phil, SetSigHandler(p) PROVE TypeOK'
  BY <1>2 DEF SetSigHandler, TypeOK, Alive
<1>3. ASSUME NEW p \in Phil, LoopAgain(p) PROVE TypeOK'
  <2>1. \A q \in Phil : k'[q] <= Len(Grips(q))
    BY <1>3, <1>0 DEF LoopAgain, TypeOK
  <2>2. pc' \in [Phil -> Alive \cup {"unborn", "zombie", "reaped"}] /\ k' \in [Phil -> {1, 2}]
    BY <1>3 DEF LoopAgain, TypeOK, Alive
  <2> QED BY <1>3, <2>1, <2>2 DEF LoopAgain, TypeOK
<1>4. ASSUME NEW p \in Phil, Exit(p), UNCHANGED <<parent, i>>,
             alarm_flag' \in [Phil -> BOOLEAN], pending' \in [Phil -> BOOLEAN]
      PROVE  TypeOK'
  <2>1. sem' \in [Chopstick -> Int] /\ semadj' \in [Phil -> [Chopstick -> Int]]
    BY <1>4 DEF Exit, TypeOK
  <2>2. \A q \in Phil : k'[q] <= Len(Grips(q))
    BY <1>4, <1>0 DEF Exit, TypeOK
  <2> QED BY <1>4, <2>1, <2>2 DEF Exit, TypeOK, Alive
<1>5. ASSUME NEW p \in Phil, NEW op \in {-1, 1}, NEW next \in {"give", "loop"},
             Semop(p, op), Advance(p, next),
             UNCHANGED <<alarm_flag, pending, parent, i>>
      PROVE  TypeOK'
  <2>1. sem' \in [Chopstick -> Int] /\ semadj' \in [Phil -> [Chopstick -> Int]]
    BY <1>5 DEF Semop, TypeOK
  <2>2. /\ k' \in [Phil -> {1, 2}]
        /\ \A q \in Phil : k'[q] <= Len(Grips(q))
        /\ pc' \in [Phil -> Alive \cup {"unborn", "zombie", "reaped"}]
    <3>1. CASE k[p] < Len(Grips(p))
      <4>1. k[p] \in {1, 2} /\ Len(Grips(p)) \in {1, 2}
        BY <1>0 DEF TypeOK
      <4>2. k[p] = 1 /\ Len(Grips(p)) = 2
        <5> DEFINE n == Len(Grips(p))
        <5>1. k[p] \in {1, 2} /\ n \in {1, 2} /\ k[p] < n
          BY <3>1, <4>1
        <5> HIDE DEF n
        <5>2. k[p] = 1 /\ n = 2
          BY <5>1
        <5> QED BY <5>2 DEF n
      <4>3. k' = [k EXCEPT ![p] = 2] /\ pc' = pc
        BY <3>1, <4>2, <1>5 DEF Advance
      <4>4. \A q \in Phil : k'[q] <= Len(Grips(q))
        <5>1. k'[p] = 2 /\ \A q \in Phil \ {p} : k'[q] = k[q]
          BY <4>3 DEF TypeOK
        <5>2. k'[p] <= Len(Grips(p))
          BY <4>2, <5>1
        <5> QED BY <5>1, <5>2 DEF TypeOK
      <4> QED BY <4>3, <4>4 DEF TypeOK
    <3>2. CASE ~(k[p] < Len(Grips(p)))
      BY <3>2, <1>5, <1>0 DEF Advance, TypeOK, Alive
    <3> QED BY <3>1, <3>2
  <2> QED BY <1>5, <2>1, <2>2 DEF TypeOK
<1>6. ASSUME NEW p \in Phil, AlarmHandler(p) PROVE TypeOK'
  BY <1>6 DEF AlarmHandler, TypeOK
<1>7. ASSUME NEW p \in Phil, LoopExit(p) \/ KilledAtStart(p)
                             \/ SemopInterrupted(p) \/ Crash(p)
      PROVE  TypeOK'
  <2>1. alarm_flag' \in [Phil -> BOOLEAN] /\ pending' \in [Phil -> BOOLEAN]
    BY <1>7 DEF LoopExit, KilledAtStart, SemopInterrupted, Crash, TypeOK
  <2>2. Exit(p) /\ UNCHANGED <<parent, i>>
    BY <1>7 DEF LoopExit, KilledAtStart, SemopInterrupted, Crash
  <2> QED BY <2>1, <2>2, <1>4
<1>8. ASSUME NEW p \in Phil, MyWait(p) \/ MySignal(p) PROVE TypeOK'
  <2>1. CASE MyWait(p)
    <3>1. Semop(p, -1) /\ Advance(p, "give") /\ UNCHANGED <<alarm_flag, pending, parent, i>>
      BY <2>1 DEF MyWait
    <3> QED BY <3>1, <1>5
  <2>2. CASE MySignal(p)
    <3>1. Semop(p, 1) /\ Advance(p, "loop") /\ UNCHANGED <<alarm_flag, pending, parent, i>>
      BY <2>2 DEF MySignal
    <3> QED BY <3>1, <1>5
  <2> QED BY <1>8, <2>1, <2>2
<1>9. CASE ParentAwake \/ SleepEnds
  <2>1. CASE ForkPhilosopher
    <3>1. pc' \in [Phil -> Alive \cup {"unborn", "zombie", "reaped"}]
      BY <2>1 DEF ForkPhilosopher, TypeOK, Alive
    <3>2. i' \in Phil /\ parent' \in {"fork", "sleep"}
      BY <2>1 DEF ForkPhilosopher, Goto, TypeOK, Phil
    <3>3. UNCHANGED <<sem, semadj, k, alarm_flag, pending>>
      BY <2>1 DEF ForkPhilosopher
    <3> QED BY <3>1, <3>2, <3>3 DEF TypeOK
  <2>2. CASE KillChild
    <3>1. pending' \in [Phil -> BOOLEAN]
      BY <2>2 DEF KillChild, TypeOK
    <3>2. i' \in Phil /\ parent' \in {"kill", "wait"}
      BY <2>2 DEF KillChild, Goto, TypeOK, Phil
    <3>3. UNCHANGED <<sem, semadj, pc, k, alarm_flag>>
      BY <2>2 DEF KillChild
    <3> QED BY <3>1, <3>2, <3>3 DEF TypeOK
  <2>3. CASE WaitChild
    <3>1. pc' \in [Phil -> Alive \cup {"unborn", "zombie", "reaped"}]
      BY <2>3 DEF WaitChild, TypeOK
    <3>2. i' \in Phil /\ parent' \in {"wait", "rmid"}
      BY <2>3 DEF WaitChild, Goto, TypeOK, Phil
    <3>3. UNCHANGED <<sem, semadj, k, alarm_flag, pending>>
      BY <2>3 DEF WaitChild
    <3> QED BY <3>1, <3>2, <3>3 DEF TypeOK
  <2>4. CASE ForkFails \/ SleepEnds \/ RemoveChopsticks
    BY <2>4 DEF ForkFails, SleepEnds, RemoveChopsticks, philvars, TypeOK
  <2> QED BY <1>9, <2>1, <2>2, <2>3, <2>4 DEF ParentAwake
<1> QED BY <1>1, <1>2, <1>3, <1>6, <1>7, <1>8, <1>9
        DEF Next, Serve, Signalled

-----------------------------------------------------------------------------
(* What the philosopher of a semop() holds after it.                       *)
LEMMA HeldAfterSemop ==
    ASSUME TypeOK, program' = program, NEW p \in Phil
    PROVE  /\ Grips(p)[k[p]] \subseteq {Left(p), Right(p)}
           /\ MyWait(p) => Held(p)' = Held(p) \cup Grips(p)[k[p]]
           /\ MySignal(p) => /\ Grips(p)[k[p]] \subseteq Held(p)
                             /\ Held(p)' = Held(p) \ Grips(p)[k[p]]
<1> DEFINE n == Len(Grips(p))
<1>1. k[p] \in {1, 2} /\ n \in {1, 2} /\ k[p] <= n
  BY MealShape DEF TypeOK
<1>2. Left(p) # Right(p)
  BY Neighbours DEF Left
<1>3. /\ MyWait(p) => pc[p] = "take" /\ Advance(p, "give")
      /\ MySignal(p) => pc[p] = "give" /\ Advance(p, "loop")
  BY DEF MyWait, MySignal
<1>4. ASSUME NEW next \in {"give", "loop"}, Advance(p, next)
      PROVE  /\ k[p] < n => k'[p] = k[p] + 1 /\ pc'[p] = pc[p]
             /\ ~(k[p] < n) => k'[p] = 1 /\ pc'[p] = next
  BY <1>4 DEF Advance, TypeOK
<1>b. Grips(p)' = Grips(p)
  BY SameGrips
<1>a. (n = 1 /\ k[p] = 1) \/ (n = 2 /\ k[p] = 1) \/ (n = 2 /\ k[p] = 2)
  <2> HIDE DEF n
  <2> QED BY <1>1
<1>5. CASE n = 1 /\ k[p] = 1
  <2>1. Grips(p)[1] = {Left(p), Right(p)}
    BY <1>5, MealShape
  <2>2. ASSUME MyWait(p) PROVE Held(p) = {} /\ Held(p)' = {Left(p), Right(p)}
    <3>1. pc[p] = "take" /\ pc'[p] = "give" /\ k'[p] = 1
      BY <2>2, <1>3, <1>4, <1>5
    <3> QED BY <3>1, <1>b, <1>5 DEF Held
  <2>3. ASSUME MySignal(p) PROVE Held(p) = {Left(p), Right(p)} /\ Held(p)' = {}
    <3>1. pc[p] = "give" /\ pc'[p] = "loop" /\ k'[p] = 1
      BY <2>3, <1>3, <1>4, <1>5
    <3> QED BY <3>1, <1>b, <1>5 DEF Held
  <2> QED BY <1>5, <2>1, <2>2, <2>3
<1>6. CASE n = 2 /\ k[p] = 1
  <2>1. \/ Grips(p)[1] = {Left(p)} /\ Grips(p)[2] = {Right(p)}
        \/ Grips(p)[1] = {Right(p)} /\ Grips(p)[2] = {Left(p)}
    BY <1>6, MealShape
  <2>2. ASSUME MyWait(p) PROVE Held(p) = {} /\ Held(p)' = Grips(p)[1]
    <3>1. pc[p] = "take" /\ pc'[p] = "take" /\ k'[p] = 2
      BY <2>2, <1>3, <1>4, <1>6
    <3> QED BY <3>1, <1>b, <1>6 DEF Held
  <2>3. ASSUME MySignal(p) PROVE Held(p) = {Left(p), Right(p)} /\ Held(p)' = Grips(p)[2]
    <3>1. pc[p] = "give" /\ pc'[p] = "give" /\ k'[p] = 2
      BY <2>3, <1>3, <1>4, <1>6
    <3> QED BY <3>1, <1>b, <1>6 DEF Held
  <2> QED BY <1>2, <1>6, <2>1, <2>2, <2>3
<1>7. CASE n = 2 /\ k[p] = 2
  <2>1. \/ Grips(p)[1] = {Left(p)} /\ Grips(p)[2] = {Right(p)}
        \/ Grips(p)[1] = {Right(p)} /\ Grips(p)[2] = {Left(p)}
    BY <1>7, MealShape
  <2>2. ASSUME MyWait(p) PROVE Held(p) = Grips(p)[1] /\ Held(p)' = {Left(p), Right(p)}
    <3>1. pc[p] = "take" /\ pc'[p] = "give" /\ k'[p] = 1
      BY <2>2, <1>3, <1>4, <1>7
    <3> QED BY <3>1, <1>b, <1>7 DEF Held
  <2>3. ASSUME MySignal(p) PROVE Held(p) = Grips(p)[2] /\ Held(p)' = {}
    <3>1. pc[p] = "give" /\ pc'[p] = "loop" /\ k'[p] = 1
      BY <2>3, <1>3, <1>4, <1>7
    <3> QED BY <3>1, <1>b, <1>7 DEF Held
  <2> QED BY <1>7, <2>1, <2>2, <2>3
<1> QED BY <1>a, <1>5, <1>6, <1>7

(* A philosopher who does not move holds what he held.                     *)
LEMMA HeldOfOthers ==
    ASSUME program' = program, NEW q \in Phil, pc'[q] = pc[q], k'[q] = k[q]
    PROVE  Held(q)' = Held(q)
BY SameGrips DEF Held

(* Every step keeps the adjustments in line with the meal and each         *)
(* chopstick in one place.                                                 *)
LEMMA NextInv == Inv /\ ParentCounts /\ [Next]_vars => Inv'
<1> SUFFICES ASSUME Inv, ParentCounts, [Next]_vars PROVE Inv'
  OBVIOUS
<1>0. program' = program
  BY SameProgram
<1> USE <1>0
<1>1. TypeOK /\ TypeOK'
  BY TypePreserved DEF Inv
<1>2. CASE UNCHANGED vars
  BY <1>1, <1>2, HandsOff, HeldOfOthers DEF vars, philvars
<1>3. ASSUME NEW p \in Phil, SetSigHandler(p) PROVE Inv'
  <2>1. UNCHANGED <<sem, semadj>> /\ pc[p] = "start" /\ pc'[p] = "loop"
        /\ \A q \in Phil \ {p} : pc'[q] = pc[q] /\ k'[q] = k[q]
    BY <1>1, <1>3 DEF SetSigHandler, TypeOK
  <2>2. Held(p) = {} /\ Held(p)' = {}
    BY <2>1 DEF Held
  <2> QED BY <1>1, <2>1, <2>2, HandsOff, HeldOfOthers
<1>4. ASSUME NEW p \in Phil, LoopAgain(p) PROVE Inv'
  <2>1. UNCHANGED <<sem, semadj>> /\ pc[p] = "loop" /\ pc'[p] = "take" /\ k'[p] = 1
        /\ \A q \in Phil \ {p} : pc'[q] = pc[q] /\ k'[q] = k[q]
    BY <1>1, <1>4 DEF LoopAgain, TypeOK
  <2>2. Held(p) = {} /\ Held(p)' = {}
    BY <2>1 DEF Held
  <2> QED BY <1>1, <2>1, <2>2, HandsOff, HeldOfOthers
<1>5. ASSUME NEW p \in Phil, LoopExit(p) \/ KilledAtStart(p)
                             \/ SemopInterrupted(p) \/ Crash(p)
      PROVE  Inv'
  <2>1. Exit(p)
    BY <1>5 DEF LoopExit, KilledAtStart, SemopInterrupted, Crash
  <2> QED BY <1>1, <2>1, ExitInv
<1>6. ASSUME NEW p \in Phil, MyWait(p) PROVE Inv'
  <2>1. Semop(p, -1) /\ CanTake(p)
    BY <1>6 DEF MyWait
  <2>2. \A q \in Phil \ {p} : pc'[q] = pc[q] /\ k'[q] = k[q]
    BY <1>1, <1>6 DEF MyWait, Advance, TypeOK
  <2> QED BY <1>1, <1>6, <2>1, <2>2, HeldAfterSemop, HeldOfOthers, SemopInv
<1>7. ASSUME NEW p \in Phil, MySignal(p) PROVE Inv'
  <2>1. Semop(p, 1)
    BY <1>7 DEF MySignal
  <2>2. \A q \in Phil \ {p} : pc'[q] = pc[q] /\ k'[q] = k[q]
    BY <1>1, <1>7 DEF MySignal, Advance, TypeOK
  <2> QED BY <1>1, <1>7, <2>1, <2>2, HeldAfterSemop, HeldOfOthers, SemopInv
<1>8. ASSUME NEW p \in Phil, AlarmHandler(p) PROVE Inv'
  BY <1>1, <1>8, HandsOff, HeldOfOthers DEF AlarmHandler
<1>9. CASE ParentAwake \/ SleepEnds
  <2>1. CASE ForkPhilosopher \/ WaitChild
    <3>1. UNCHANGED <<sem, semadj, k>>
      BY <2>1 DEF ForkPhilosopher, WaitChild
    <3>2. PICK p \in Phil : /\ pc[p] \in {"unborn", "zombie"}
                            /\ pc'[p] \in {"start", "reaped"}
                            /\ \A q \in Phil \ {p} : pc'[q] = pc[q]
      <4>1. CASE ForkPhilosopher
        BY <1>1, <4>1, NPHILAssumption DEF ForkPhilosopher, TypeOK, ParentCounts, Phil
      <4>2. CASE WaitChild
        BY <1>1, <4>2 DEF WaitChild, TypeOK
      <4> QED BY <2>1, <4>1, <4>2
    <3>3. Held(p) = {} /\ Held(p)' = {}
      BY <3>2 DEF Held
    <3> QED BY <1>1, <3>1, <3>2, <3>3, HandsOff, HeldOfOthers
  <2>2. CASE ForkFails \/ SleepEnds \/ RemoveChopsticks \/ KillChild
    <3>1. UNCHANGED <<sem, semadj, pc, k>>
      BY <2>2 DEF ForkFails, SleepEnds, RemoveChopsticks, KillChild, philvars
    <3> QED BY <1>1, <3>1, HandsOff, HeldOfOthers
  <2> QED BY <1>9, <2>1, <2>2 DEF ParentAwake
<1> QED BY <1>2, <1>3, <1>4, <1>5, <1>6, <1>7, <1>8, <1>9
        DEF Next, Serve, Signalled

-----------------------------------------------------------------------------
(* The parent's count of its children.                                     *)
Reaped == {p \in Phil : pc[p] = "reaped"}

(* No philosopher is forked or reaped at first.                            *)
LEMMA InitCounts == Init => ParentCounts
<1> SUFFICES ASSUME Init PROVE ParentCounts
  OBVIOUS
<1>1. {p \in Phil : pc[p] = "reaped"} = {}
  BY DEF Init
<1>2. Cardinality({}) = 0
  BY FS_EmptySet
<1>3. parent = "fork" /\ i = 0 /\ \A p \in Phil : pc[p] = "unborn" /\ p >= 0
  BY DEF Init, Phil
<1> QED BY <1>1, <1>2, <1>3 DEF ParentCounts

(* Steps that neither fork nor reap nor move the parent.                   *)
LEMMA CountsKept ==
    ASSUME ParentCounts, UNCHANGED <<parent, i>>,
           \A p \in Phil : pc'[p] = "unborn" <=> pc[p] = "unborn",
           \A p \in Phil : pc'[p] = "reaped" <=> pc[p] = "reaped"
    PROVE  ParentCounts'
<1>1. {p \in Phil : pc'[p] = "reaped"} = {p \in Phil : pc[p] = "reaped"}
  BY Zenon
<1>2. Cardinality({p \in Phil : pc'[p] = "reaped"}) =
        CASE parent' = "wait" -> i' [] parent' \in {"rmid", "done"} -> NPHIL [] OTHER -> 0
  BY <1>1 DEF ParentCounts
<1>3. /\ parent' = "fork" => \A p \in Phil : pc'[p] = "unborn" <=> p >= i'
      /\ parent' \notin {"fork", "failed"} => \A p \in Phil : pc'[p] # "unborn"
  BY DEF ParentCounts
<1> QED BY <1>2, <1>3 DEF ParentCounts

(* Every step keeps the index of the parent at the number of children      *)
(* forked, or reaped.                                                      *)
LEMMA NextCounts == TypeOK /\ ParentCounts /\ [Next]_vars => ParentCounts'
<1> SUFFICES ASSUME TypeOK, ParentCounts, [Next]_vars PROVE ParentCounts'
  OBVIOUS
<1>1. CASE UNCHANGED vars
  BY <1>1, CountsKept DEF vars, philvars
<1>2. ASSUME NEW p \in Phil, SetSigHandler(p) \/ Serve(p) \/ Signalled(p) \/ Crash(p)
      PROVE  ParentCounts'
  <2>1. /\ UNCHANGED <<parent, i>>
        /\ pc[p] \in Alive /\ pc'[p] \in Alive \cup {"zombie"}
        /\ \A q \in Phil \ {p} : pc'[q] = pc[q]
    <3>1. CASE SetSigHandler(p) \/ LoopAgain(p)
      BY <3>1 DEF SetSigHandler, LoopAgain, TypeOK, Alive
    <3>2. CASE LoopExit(p) \/ KilledAtStart(p) \/ SemopInterrupted(p) \/ Crash(p)
      BY <3>2 DEF LoopExit, KilledAtStart, SemopInterrupted, Crash, Exit, TypeOK, Alive
    <3>3. CASE MyWait(p) \/ MySignal(p) \/ AlarmHandler(p)
      BY <3>3 DEF MyWait, MySignal, AlarmHandler, Advance, TypeOK, Alive
    <3> QED BY <1>2, <3>1, <3>2, <3>3 DEF Serve, Signalled
  <2> QED BY <2>1, CountsKept DEF Alive
<1>3. CASE ForkPhilosopher
  <2>1. parent = "fork" /\ pc' = [pc EXCEPT ![i] = "start"] /\ i \in Phil /\ pc[i] = "unborn"
    BY <1>3, NPHILAssumption DEF ForkPhilosopher, TypeOK, ParentCounts, Phil
  <2>2. {p \in Phil : pc'[p] = "reaped"} = {p \in Phil : pc[p] = "reaped"}
    BY <2>1 DEF TypeOK
  <2>3. \A p \in Phil : pc'[p] = "unborn" <=> p >= i + 1
    BY <2>1 DEF TypeOK, ParentCounts, Phil
  <2>4. Cardinality({p \in Phil : pc[p] = "reaped"}) = 0
    BY <2>1 DEF ParentCounts
  <2>5. CASE i + 1 < NPHIL
    <3>1. i' = i + 1 /\ parent' = "fork"
      BY <1>3, <2>1, <2>5 DEF ForkPhilosopher, Goto
    <3> QED BY <2>2, <2>3, <2>4, <3>1 DEF ParentCounts
  <2>6. CASE ~(i + 1 < NPHIL)
    <3>1. parent' = "sleep"
      BY <1>3, <2>6 DEF ForkPhilosopher, Goto
    <3>2. \A p \in Phil : pc'[p] # "unborn"
      BY <2>3, <2>6, <2>1, NPHILAssumption DEF Phil
    <3> QED BY <2>2, <2>4, <3>1, <3>2 DEF ParentCounts
  <2> QED BY <2>5, <2>6
<1>4. CASE ForkFails \/ SleepEnds \/ KillChild
  <2>1. /\ UNCHANGED pc
        /\ parent \in {"fork", "sleep", "kill"}
        /\ parent' \in {"failed", "kill", "wait"}
        /\ parent = "fork" => parent' = "failed"
        /\ parent' = "wait" => i' = 0
    BY <1>4 DEF ForkFails, SleepEnds, KillChild, Goto, philvars
  <2>2. Cardinality({p \in Phil : pc[p] = "reaped"}) = 0
    BY <2>1 DEF ParentCounts
  <2>3. Cardinality({p \in Phil : pc'[p] = "reaped"}) = 0
    BY <2>1, <2>2
  <2> QED BY <2>1, <2>3 DEF ParentCounts
<1>5. CASE WaitChild
  <2>1. PICK p \in Phil : pc[p] = "zombie" /\ pc' = [pc EXCEPT ![p] = "reaped"]
    BY <1>5 DEF WaitChild
  <2> DEFINE R == {q \in Phil : pc[q] = "reaped"}
  <2>2. parent = "wait" /\ Cardinality(R) = i
    BY <1>5 DEF WaitChild, ParentCounts
  <2>3. {q \in Phil : pc'[q] = "reaped"} = R \cup {p} /\ p \notin R
    BY <2>1 DEF TypeOK
  <2>4. IsFiniteSet(R)
    <3>1. IsFiniteSet(Phil)
      BY FS_Interval, NPHILAssumption DEF Phil
    <3> QED BY <3>1, FS_Subset
  <2>5. Cardinality(R \cup {p}) = i + 1
    BY <2>2, <2>3, <2>4, FS_AddElement
  <2>6. \A q \in Phil : pc'[q] # "unborn"
    BY <2>1, <2>2 DEF TypeOK, ParentCounts
  <2>7. CASE i + 1 < NPHIL
    <3>1. i' = i + 1 /\ parent' = "wait"
      BY <1>5, <2>2, <2>7 DEF WaitChild, Goto
    <3> QED BY <2>3, <2>5, <2>6, <3>1 DEF ParentCounts
  <2>8. CASE ~(i + 1 < NPHIL)
    <3>1. parent' = "rmid" /\ i + 1 = NPHIL
      BY <1>5, <2>8, NPHILAssumption DEF WaitChild, Goto, TypeOK, Phil
    <3> QED BY <2>3, <2>5, <2>6, <3>1 DEF ParentCounts
  <2> QED BY <2>7, <2>8
<1>6. CASE RemoveChopsticks
  <2>1. UNCHANGED pc /\ parent = "rmid" /\ parent' = "done"
    BY <1>6 DEF RemoveChopsticks, philvars
  <2>2. Cardinality({p \in Phil : pc'[p] = "reaped"}) = NPHIL
    BY <2>1 DEF ParentCounts
  <2> QED BY <2>1, <2>2 DEF ParentCounts
<1> QED BY <1>1, <1>2, <1>3, <1>4, <1>5, <1>6 DEF Next, ParentAwake

-----------------------------------------------------------------------------
(* The safety theorems.                                                    *)
THEOREM Invariance == Spec => [](Inv /\ ParentCounts)
<1>1. Init => Inv /\ ParentCounts
  BY InitInv, InitCounts
<1>2. Inv /\ ParentCounts /\ [Next]_vars => Inv' /\ ParentCounts'
  BY NextInv, NextCounts DEF Inv
<1> QED BY <1>1, <1>2, PTL DEF Spec

(* Every program keeps its types.                                          *)
THEOREM TypeCorrect == Spec => []TypeOK
BY Invariance, PTL DEF Inv

(* SEM_UNDO keeps every chopstick accounted for, however philosophers end, *)
(* because the adjustments are always what the philosopher holds.          *)
THEOREM UndoAccounts == Spec => []CrashRestoresTable
BY Invariance, PTL DEF Inv, CrashRestoresTable

(* An eating philosopher holds both chopsticks, and nobody else does.      *)
EatingIsHolding ==
    \A p \in Phil : Eating(p) <=> Held(p) = {Left(p), Right(p)}

(* To eat is to hold both chopsticks, in all three programs.               *)
LEMMA EatingHoldsBoth == TypeOK => EatingIsHolding
<1> SUFFICES ASSUME TypeOK, NEW p \in Phil
             PROVE  Eating(p) <=> Held(p) = {Left(p), Right(p)}
  BY DEF EatingIsHolding
<1>1. Left(p) # Right(p)
  BY Neighbours DEF Left
<1>2. k[p] = 2 => Grips(p)[1] = {Left(p)} \/ Grips(p)[1] = {Right(p)}
  <2>1. k[p] = 2 => Len(Grips(p)) = 2
    BY SecondGrip
  <2> QED BY <2>1, MealShape
<1>3. k[p] = 2 => Grips(p)[2] = {Left(p)} \/ Grips(p)[2] = {Right(p)}
  <2>1. k[p] = 2 => Len(Grips(p)) = 2
    BY SecondGrip
  <2> QED BY <2>1, MealShape
<1>4. CASE pc[p] = "take" /\ k[p] = 2
  <2>1. Held(p) = Grips(p)[1]
    BY <1>4 DEF Held
  <2> QED BY <1>1, <1>2, <1>4, <2>1 DEF Eating
<1>5. CASE pc[p] = "give" /\ k[p] = 1
  BY <1>5 DEF Held, Eating
<1>6. CASE pc[p] = "give" /\ k[p] = 2
  <2>1. Held(p) = Grips(p)[2]
    BY <1>6 DEF Held
  <2> QED BY <1>1, <1>3, <1>6, <2>1 DEF Eating
<1>7. CASE /\ ~(pc[p] = "take" /\ k[p] = 2)
           /\ ~(pc[p] = "give" /\ k[p] = 1)
           /\ ~(pc[p] = "give" /\ k[p] = 2)
  <2>1. Held(p) = {}
    BY <1>7 DEF Held
  <2> QED BY <1>7, <2>1 DEF Eating
<1> QED BY <1>4, <1>5, <1>6, <1>7

(* A chopstick has one holder at most.                                     *)
LEMMA OneHolder ==
    ASSUME Inv, NEW c \in Chopstick, NEW p \in Phil, NEW q \in Phil,
           c \in Held(p), c \in Held(q)
    PROVE  p = q /\ sem[c] = 0
<1>1. semadj[p][c] = 1 /\ semadj[q][c] = 1
  BY DEF Inv, UndoMatchesMeal
<1>2. (p = c \/ p = Before(c)) /\ (q = c \/ q = Before(c))
  BY HeldIsMine, Neighbours DEF Inv, Left, Phil, Chopstick
<1>3. /\ sem[c] \in {0, 1}
      /\ semadj[c][c] \in {0, 1} /\ semadj[Before(c)][c] \in {0, 1}
      /\ sem[c] + semadj[c][c] + semadj[Before(c)][c] = 1
  BY DEF Inv, ChopstickAccounting
<1> QED BY <1>1, <1>2, <1>3

(* Two neighbours never eat at once, in any of the three programs and for  *)
(* any number of philosophers.                                             *)
THEOREM Exclusion == Spec => []NeighboursExclude
<1>1. Inv => NeighboursExclude
  <2> SUFFICES ASSUME Inv, NEW p \in Phil, Eating(p), Eating(Right(p))
               PROVE  FALSE
    BY DEF NeighboursExclude
  <2>1. Right(p) \in Phil /\ Right(p) \in Chopstick /\ Right(p) # p
    BY Neighbours DEF Phil, Chopstick
  <2>2. Right(p) \in Held(p) /\ Right(p) \in Held(Right(p))
    BY <2>1, EatingHoldsBoth DEF Inv, Left, EatingIsHolding
  <2> QED BY <2>1, <2>2, OneHolder
<1> QED BY <1>1, Invariance, PTL

(* The parent removes the semaphores only when all of its children have    *)
(* been reaped and all the chopsticks are back.                            *)
THEOREM Cleared == Spec => []ParentReapsAll
<1>1. Inv /\ ParentCounts => TableCleared
  <2> SUFFICES ASSUME Inv, ParentCounts, parent \in {"rmid", "done"}
               PROVE  /\ \A p \in Phil : pc[p] = "reaped"
                      /\ \A c \in Chopstick : sem[c] = 1
    BY DEF TableCleared
  <2>1. Cardinality({p \in Phil : pc[p] = "reaped"}) = NPHIL
    BY DEF ParentCounts
  <2>2. IsFiniteSet(Phil) /\ Cardinality(Phil) = NPHIL
    BY FS_Interval, NPHILAssumption DEF Phil
  <2>3. {p \in Phil : pc[p] = "reaped"} = Phil
    BY <2>1, <2>2, FS_Subset
  <2>4. \A p \in Phil : pc[p] = "reaped"
    BY <2>3
  <2>5. \A p \in Phil : Held(p) = {}
    BY <2>4 DEF Held
  <2>6. ASSUME NEW c \in Chopstick PROVE sem[c] = 1
    <3>1. c \in Phil /\ Before(c) \in Phil
      BY Neighbours DEF Phil, Chopstick
    <3>2. semadj[c][c] = 0 /\ semadj[Before(c)][c] = 0
      BY <2>5, <3>1 DEF Inv, UndoMatchesMeal
    <3> QED BY <3>2 DEF Inv, ChopstickAccounting
  <2> QED BY <2>4, <2>6
<1>2. Inv /\ ParentCounts => ParentReapsAll
  BY <1>1 DEF ParentReapsAll
<1> QED BY <1>2, Invariance, PTL

-----------------------------------------------------------------------------
(* No circle of waiting in DP2 and DP3.                                    *)

(* In DP2 a chopstick is the first grip of both philosophers it lies       *)
(* between, or the second of both.  The exception, for an odd number of    *)
(* them, is the one between the last philosopher and 0: second for 0 only. *)
LEMMA SecondThenFirst ==
    ASSUME program = "DP2", NEW q \in Phil, NEW r \in Phil, q # r,
           NEW d, Grips(q)[2] = {d}, Grips(r)[1] = {d}
    PROVE  q = 0
<1>1. /\ q % 2 = 1 => d = Right(q)
      /\ q % 2 # 1 => d = Left(q)
  BY DEF Grips, GripsDP2
<1>2. /\ r % 2 = 1 => d = Left(r)
      /\ r % 2 # 1 => d = Right(r)
  BY DEF Grips, GripsDP2
<1>3. /\ Right(q) = IF q = NPHIL - 1 THEN 0 ELSE q + 1
      /\ Right(r) = IF r = NPHIL - 1 THEN 0 ELSE r + 1
  BY RoundTable
<1>4. Right(q) # Right(r)
  BY Neighbours
<1>5. CASE q % 2 = 1 /\ r % 2 = 1
  BY <1>1, <1>2, <1>3, <1>5, NPHILAssumption DEF Phil, Left
<1>6. CASE q % 2 = 1 /\ r % 2 # 1
  BY <1>1, <1>2, <1>4, <1>6
<1>7. CASE q % 2 # 1 /\ r % 2 = 1
  BY <1>1, <1>2, <1>7 DEF Left
<1>8. CASE q % 2 # 1 /\ r % 2 # 1
  BY <1>1, <1>2, <1>3, <1>8, NPHILAssumption DEF Phil, Left
<1> QED BY <1>5, <1>6, <1>7, <1>8

(* Of what a blocked philosopher waits for, somebody else holds one.       *)
LEMMA BlockedBySomebody ==
    ASSUME Inv, NEW q \in Phil, Blocked(q)
    PROVE  \E r \in Phil, d \in Chopstick :
               d \in Grips(q)[k[q]] /\ d \in Held(r)
<1>1. PICK d \in Grips(q)[k[q]] : ~(sem[d] >= 1)
  BY DEF Blocked, CanTake
<1>2. d \in Chopstick
  <2>1. k[q] \in {1, 2} /\ (k[q] = 2 => Len(Grips(q)) = 2)
    BY SecondGrip DEF Inv, TypeOK
  <2>2. Grips(q)[k[q]] \subseteq {Left(q), Right(q)}
    BY <2>1, MealShape DEF Inv
  <2> QED BY <2>2, Neighbours
<1>3. d \in Phil /\ Before(d) \in Phil
  BY <1>2, Neighbours DEF Phil, Chopstick
<1>4. semadj[d][d] = 1 \/ semadj[Before(d)][d] = 1
  BY <1>1, <1>2 DEF Inv, ChopstickAccounting
<1>5. d \in Held(d) \/ d \in Held(Before(d))
  BY <1>2, <1>3, <1>4 DEF Inv, UndoMatchesMeal
<1> QED BY <1>1, <1>2, <1>3, <1>5

(* A philosopher who is blocked with a chopstick in his hand has his first *)
(* grip and waits for his second.                                          *)
LEMMA BlockedHolding ==
    ASSUME Inv, NEW q \in Phil, Blocked(q), Held(q) # {}
    PROVE  /\ Held(q) = Grips(q)[1] /\ k[q] = 2 /\ Len(Grips(q)) = 2
           /\ \E d \in Chopstick : Grips(q)[2] = {d}
           /\ \E d \in Chopstick : Grips(q)[1] = {d}
<1>1. pc[q] = "take" /\ k[q] = 2
  BY DEF Blocked, Held
<1>2. Held(q) = Grips(q)[1]
  BY <1>1 DEF Held
<1>3. Len(Grips(q)) = 2
  BY <1>1, SecondGrip DEF Inv
<1> QED BY <1>1, <1>2, <1>3, MealShape, Neighbours DEF Inv

(* In DP2 and DP3 a blocked philosopher waits, through others who wait, at *)
(* last for one who can go on.                                             *)
THEOREM NoCircle == Spec => []NoCircularWait
<1>1. Inv => NoCircularWait
  <2> SUFFICES ASSUME Inv PROVE NoCircularWait
    OBVIOUS
  <2> SUFFICES ASSUME program # "DP1", NEW p \in Phil, Blocked(p),
                      \A q \in Phil : Held(q) # {} => Blocked(q)
               PROVE  FALSE
    <3>1. ASSUME NEW q \in Phil, Held(q) # {}, ~Blocked(q)
          PROVE  \E c \in Chopstick : semadj[q][c] = 1
      <4>1. Held(q) \subseteq {Left(q), Right(q)}
        BY HeldIsMine DEF Inv
      <4>2. Left(q) \in Chopstick /\ Right(q) \in Chopstick
        BY Neighbours
      <4>3. PICK c \in Chopstick : c \in Held(q)
        BY <3>1, <4>1, <4>2
      <4> QED BY <4>3 DEF Inv, UndoMatchesMeal
    <3> QED BY <3>1 DEF NoCircularWait
  <2>1. PICK q \in Phil, c \in Chopstick : c \in Held(q)
    BY BlockedBySomebody
  <2>2. Blocked(q) /\ Held(q) # {} /\ Len(Grips(q)) = 2
    BY <2>1, BlockedHolding
  <2>3. program = "DP2"
    <3>1. program = "DP3" => Len(Grips(q)) = 1
      BY DEF Grips, GripsDP3
    <3> QED BY <2>2, <3>1 DEF Inv, TypeOK
  <2>4. ASSUME NEW x \in Phil, Held(x) # {}
        PROVE  x = 0 /\ \E y \in Phil \ {x} : Held(y) # {}
    <3>1. /\ Blocked(x) /\ k[x] = 2 /\ Held(x) = Grips(x)[1]
          /\ Len(Grips(x)) = 2
      BY <2>4, BlockedHolding
    <3>2. PICK y \in Phil, d \in Chopstick : d \in Grips(x)[k[x]] /\ d \in Held(y)
      BY <3>1, BlockedBySomebody
    <3>3. Held(y) = Grips(y)[1] /\ \E e \in Chopstick : Grips(y)[1] = {e}
      BY <3>2, BlockedHolding
    <3>4. \E e \in Chopstick : Grips(x)[2] = {e}
      BY <2>4, <3>1, BlockedHolding
    <3>5. Grips(x)[2] = {d} /\ Grips(y)[1] = {d}
      BY <3>1, <3>2, <3>3, <3>4
    <3>6. Grips(x)[1] # Grips(x)[2]
      <4>1. Left(x) # Right(x)
        BY Neighbours DEF Left
      <4>2. \/ Grips(x)[1] = {Left(x)} /\ Grips(x)[2] = {Right(x)}
            \/ Grips(x)[1] = {Right(x)} /\ Grips(x)[2] = {Left(x)}
        BY <3>1, MealShape DEF Inv
      <4> QED BY <4>1, <4>2
    <3>7. y # x
      BY <3>5, <3>6
    <3> QED BY <2>3, <3>2, <3>5, <3>7, SecondThenFirst
  <2>5. q = 0 /\ \E y \in Phil \ {q} : Held(y) # {}
    BY <2>2, <2>4
  <2> QED BY <2>4, <2>5
<1> QED BY <1>1, Invariance, PTL

-----------------------------------------------------------------------------
(* Refinement: the semaphores are the table of Dining.                     *)

(* Who holds a chopstick, read off the adjustments.                        *)
HolderHolds ==
    \A c \in Chopstick : /\ Holder(c) \in Phil \cup {NPHIL}
                         /\ \A p \in Phil : (Holder(c) = p) <=> (c \in Held(p))
                         /\ (Holder(c) = NPHIL) <=> (sem[c] = 1)

(* The abstract owner of a chopstick is the philosopher who holds it, or   *)
(* nobody when the semaphore is 1.                                         *)
LEMMA HolderIsHeld == Inv => HolderHolds
<1> SUFFICES ASSUME Inv, NEW c \in Chopstick
             PROVE  /\ Holder(c) \in Phil \cup {NPHIL}
                    /\ \A p \in Phil : (Holder(c) = p) <=> (c \in Held(p))
                    /\ (Holder(c) = NPHIL) <=> (sem[c] = 1)
  BY DEF HolderHolds
<1>1. c \in Phil /\ Before(c) \in Phil /\ Before(c) # c
  BY Neighbours DEF Phil, Chopstick
<1>2. /\ sem[c] \in {0, 1}
      /\ semadj[c][c] \in {0, 1} /\ semadj[Before(c)][c] \in {0, 1}
      /\ sem[c] + semadj[c][c] + semadj[Before(c)][c] = 1
  BY DEF Inv, ChopstickAccounting
<1>3. \A p \in Phil : semadj[p][c] = IF c \in Held(p) THEN 1 ELSE 0
  BY DEF Inv, UndoMatchesMeal
<1>4. \A p \in Phil : c \in Held(p) => p = c \/ p = Before(c)
  BY <1>1, HeldIsMine, Neighbours DEF Inv, Left
<1>5. \A p \in Phil : p # NPHIL
  BY NPHILAssumption DEF Phil
<1> QED BY <1>1, <1>2, <1>3, <1>4, <1>5 DEF Holder

(* The abstract table has the philosophers and chopsticks of the programs. *)
LEMMA SameConstants ==
    /\ Table!Phil = Phil /\ Table!Chopstick = Chopstick
    /\ Table!OnTable = NPHIL
    /\ \A p \in Phil : Table!Mine(p) = {Left(p), Right(p)}
BY DEF Table!Phil, Table!Chopstick, Table!OnTable, Table!Mine, Table!Left,
       Table!Right, Phil, Chopstick, Left, Right

(* The semaphores, all 1, are an empty table.                              *)
LEMMA RefineInit == Init => Table!Init
<1> SUFFICES ASSUME Init PROVE Table!Init
  OBVIOUS
<1>1. \A c \in Chopstick : Holder(c) = NPHIL
  BY Neighbours DEF Init, Holder, Phil, Chopstick
<1>2. {p \in Phil : Eating(p)} = {}
  BY DEF Init, Eating
<1> QED BY <1>1, <1>2, SameConstants DEF Table!Init

(* A step in which nobody's hands change is a stutter of the table.        *)
LEMMA RefineStutter ==
    ASSUME Inv, Inv', \A p \in Phil : Held(p)' = Held(p)
    PROVE  UNCHANGED Table!vars
<1>1. HolderHolds /\ HolderHolds' /\ EatingIsHolding /\ EatingIsHolding'
  <2>1. TypeOK /\ TypeOK'
    BY DEF Inv
  <2>2. HolderHolds /\ HolderHolds'
    BY HolderIsHeld, PTL
  <2>3. EatingIsHolding /\ EatingIsHolding'
    BY <2>1, EatingHoldsBoth, PTL
  <2> QED BY <2>2, <2>3
<1>2. \A c \in Chopstick : Holder(c)' = Holder(c)
  BY <1>1 DEF HolderHolds
<1>3. {p \in Phil : Eating(p)}' = {p \in Phil : Eating(p)}
  BY <1>1 DEF EatingIsHolding
<1>4. [c \in Chopstick |-> Holder(c)]' = [c \in Chopstick |-> Holder(c)]
  BY <1>2
<1> QED BY <1>3, <1>4 DEF Table!vars

(* Hands of one philosopher that close on free chopsticks, or open.        *)
LEMMA RefineMove ==
    ASSUME Inv, Inv', NEW p \in Phil, NEW S \in SUBSET {Left(p), Right(p)},
           \A q \in Phil \ {p} : Held(q)' = Held(q),
           \/ /\ \A c \in S : sem[c] = 1
              /\ Held(p)' = Held(p) \cup S
           \/ /\ S \subseteq Held(p)
              /\ Held(p)' = Held(p) \ S
              /\ Held(p)' # {Left(p), Right(p)}
    PROVE  Table!Next
<1>1. HolderHolds /\ HolderHolds' /\ EatingIsHolding /\ EatingIsHolding'
  <2>1. TypeOK /\ TypeOK'
    BY DEF Inv
  <2>2. HolderHolds /\ HolderHolds'
    BY HolderIsHeld, PTL
  <2>3. EatingIsHolding /\ EatingIsHolding'
    BY <2>1, EatingHoldsBoth, PTL
  <2> QED BY <2>2, <2>3
<1> DEFINE own == [c \in Chopstick |-> Holder(c)]
           eat == {q \in Phil : Eating(q)}
<1>2. S \subseteq Chopstick /\ {Left(p), Right(p)} \subseteq Chopstick /\ p # NPHIL
  BY Neighbours, NPHILAssumption DEF Phil
<1>3. CASE (\A c \in S : sem[c] = 1) /\ Held(p)' = Held(p) \cup S
  <2>1. \A c \in S : own[c] = NPHIL
    BY <1>1, <1>2, <1>3 DEF HolderHolds
  <2>2. \A c \in Chopstick : Holder(c)' = IF c \in S THEN p ELSE Holder(c)
    BY <1>1, <1>2, <1>3 DEF HolderHolds
  <2>3. own' = [c \in Chopstick |-> IF c \in S THEN p ELSE own[c]]
    BY <2>2
  <2>4. (\A c \in {Left(p), Right(p)} : own'[c] = p) <=> Eating(p)'
    <3>1. \A c \in {Left(p), Right(p)} : own'[c] = p <=> c \in Held(p)'
      BY <1>1, <1>2 DEF HolderHolds
    <3>2. Held(p)' \subseteq {Left(p), Right(p)}
      BY <1>3, HeldIsMine DEF Inv
    <3> QED BY <1>1, <3>1, <3>2 DEF EatingIsHolding
  <2>5. Eating(p) => Eating(p)'
    <3>1. Held(p) = {Left(p), Right(p)} => Held(p)' = {Left(p), Right(p)}
      BY <1>3
    <3> QED BY <1>1, <3>1 DEF EatingIsHolding
  <2>6. \A q \in Phil \ {p} : Eating(q)' <=> Eating(q)
    BY <1>1 DEF EatingIsHolding
  <2>7. eat' = IF \A c \in {Left(p), Right(p)} : own'[c] = p THEN eat \cup {p} ELSE eat
    BY <2>4, <2>5, <2>6
  <2>8. Table!PickUp(p, S)
    BY <2>1, <2>3, <2>7, SameConstants DEF Table!PickUp
  <2> QED BY <2>8, SameConstants DEF Table!Next
<1>4. CASE /\ S \subseteq Held(p)
           /\ Held(p)' = Held(p) \ S
           /\ Held(p)' # {Left(p), Right(p)}
  <2>1. \A c \in S : own[c] = p
    BY <1>1, <1>2, <1>4 DEF HolderHolds
  <2>2. \A c \in Chopstick : Holder(c)' = IF c \in S THEN NPHIL ELSE Holder(c)
    <3> SUFFICES ASSUME NEW c \in Chopstick
                 PROVE  Holder(c)' = IF c \in S THEN NPHIL ELSE Holder(c)
      OBVIOUS
    <3>1. c \in S => \A q \in Phil \ {p} : c \notin Held(q)
      BY <1>4, OneHolder
    <3> QED BY <3>1, <1>1, <1>2, <1>4 DEF HolderHolds
  <2>3. own' = [c \in Chopstick |-> IF c \in S THEN NPHIL ELSE own[c]]
    BY <2>2
  <2>4. ~Eating(p)'
    BY <1>1, <1>4 DEF EatingIsHolding
  <2>5. \A q \in Phil \ {p} : Eating(q)' <=> Eating(q)
    BY <1>1 DEF EatingIsHolding
  <2>6. eat' = eat \ {p}
    BY <2>4, <2>5
  <2>7. Table!PutDown(p, S)
    BY <2>1, <2>3, <2>6, SameConstants DEF Table!PutDown
  <2> QED BY <2>7, SameConstants DEF Table!Next
<1> QED BY <1>3, <1>4

(* Every step is a step of the table or leaves the table alone: a semop()  *)
(* picks up or puts down, an exit puts down what is held.                  *)
LEMMA RefineNext == Inv /\ Inv' /\ ParentCounts /\ [Next]_vars => [Table!Next]_(Table!vars)
<1> SUFFICES ASSUME Inv, Inv', ParentCounts, [Next]_vars
             PROVE  Table!Next \/ UNCHANGED Table!vars
  OBVIOUS
<1>0. program' = program
  BY SameProgram
<1> USE <1>0
<1>1. TypeOK
  BY DEF Inv
<1>2. CASE UNCHANGED <<pc, k>>
  BY <1>2, RefineStutter, HeldOfOthers
<1>3. ASSUME NEW p \in Phil, SetSigHandler(p) \/ LoopAgain(p)
      PROVE  UNCHANGED Table!vars
  <2>1. /\ pc[p] \in {"start", "loop"}
        /\ pc'[p] = "loop" \/ (pc'[p] = "take" /\ k'[p] = 1)
        /\ \A q \in Phil \ {p} : pc'[q] = pc[q] /\ k'[q] = k[q]
    BY <1>1, <1>3 DEF SetSigHandler, LoopAgain, TypeOK
  <2>2. Held(p) = {} /\ Held(p)' = {}
    BY <2>1 DEF Held
  <2> QED BY <2>1, <2>2, RefineStutter, HeldOfOthers
<1>4. ASSUME NEW p \in Phil, Exit(p) PROVE Table!Next
  <2>1. pc'[p] = "zombie" /\ \A q \in Phil \ {p} : pc'[q] = pc[q] /\ k'[q] = k[q]
    BY <1>1, <1>4 DEF Exit, TypeOK
  <2>2. Held(p)' = {}
    BY <2>1 DEF Held
  <2>3. Held(p) \in SUBSET {Left(p), Right(p)}
    BY <1>1, HeldIsMine
  <2>4. \A q \in Phil \ {p} : Held(q)' = Held(q)
    BY <2>1, HeldOfOthers
  <2>5. Held(p)' = Held(p) \ Held(p) /\ Held(p)' # {Left(p), Right(p)}
    BY <2>2
  <2> QED BY <2>3, <2>4, <2>5, RefineMove
<1>5. ASSUME NEW p \in Phil, MyWait(p) PROVE Table!Next
  <2> DEFINE S == Grips(p)[k[p]]
  <2>1. \A q \in Phil \ {p} : pc'[q] = pc[q] /\ k'[q] = k[q]
    BY <1>1, <1>5 DEF MyWait, Advance, TypeOK
  <2>2. S \in SUBSET {Left(p), Right(p)} /\ Held(p)' = Held(p) \cup S
    BY <1>1, <1>5, HeldAfterSemop
  <2>3. \A c \in S : sem[c] = 1
    <3>1. S \subseteq Chopstick
      BY <2>2, Neighbours
    <3>2. \A c \in S : sem[c] >= 1
      BY <1>5 DEF MyWait, CanTake
    <3>3. \A c \in Chopstick : sem[c] \in {0, 1}
      BY DEF Inv, ChopstickAccounting
    <3> QED BY <3>1, <3>2, <3>3
  <2>4. \A q \in Phil \ {p} : Held(q)' = Held(q)
    BY <2>1, HeldOfOthers
  <2> HIDE DEF S
  <2> QED BY <2>2, <2>3, <2>4, RefineMove
<1>6. ASSUME NEW p \in Phil, MySignal(p) PROVE Table!Next
  <2> DEFINE S == Grips(p)[k[p]]
  <2>1. \A q \in Phil \ {p} : pc'[q] = pc[q] /\ k'[q] = k[q]
    BY <1>1, <1>6 DEF MySignal, Advance, TypeOK
  <2>2. /\ S \in SUBSET {Left(p), Right(p)}
        /\ S \subseteq Held(p) /\ Held(p)' = Held(p) \ S
    BY <1>1, <1>6, HeldAfterSemop
  <2>3. S # {}
    <3>1. k[p] \in {1, 2} /\ (k[p] = 2 => Len(Grips(p)) = 2)
      BY <1>1, SecondGrip DEF TypeOK
    <3>2. \/ /\ Len(Grips(p)) = 1
             /\ Grips(p)[1] = {Left(p), Right(p)}
          \/ /\ Len(Grips(p)) = 2
             /\ \/ Grips(p)[1] = {Left(p)} /\ Grips(p)[2] = {Right(p)}
                \/ Grips(p)[1] = {Right(p)} /\ Grips(p)[2] = {Left(p)}
      BY <1>1, MealShape
    <3> QED BY <3>1, <3>2
  <2>4. \A q \in Phil \ {p} : Held(q)' = Held(q)
    BY <2>1, HeldOfOthers
  <2> HIDE DEF S
  <2>5. Held(p)' # {Left(p), Right(p)}
    BY <2>2, <2>3
  <2> QED BY <2>2, <2>4, <2>5, RefineMove
<1>7. ASSUME ForkPhilosopher \/ WaitChild PROVE UNCHANGED Table!vars
  <2>1. UNCHANGED k
    BY <1>7 DEF ForkPhilosopher, WaitChild
  <2>2. PICK p \in Phil : /\ pc[p] \in {"unborn", "zombie"}
                          /\ pc'[p] \in {"start", "reaped"}
                          /\ \A q \in Phil \ {p} : pc'[q] = pc[q]
    <3>1. CASE ForkPhilosopher
      BY <1>1, <3>1, NPHILAssumption DEF ForkPhilosopher, TypeOK, ParentCounts, Phil
    <3>2. CASE WaitChild
      BY <1>1, <3>2 DEF WaitChild, TypeOK
    <3> QED BY <1>7, <3>1, <3>2
  <2>3. Held(p) = {} /\ Held(p)' = {}
    BY <2>2 DEF Held
  <2> QED BY <2>1, <2>2, <2>3, RefineStutter, HeldOfOthers
<1>8. ASSUME NEW p \in Phil,
             LoopExit(p) \/ KilledAtStart(p) \/ SemopInterrupted(p) \/ Crash(p)
      PROVE  Exit(p)
  BY <1>8 DEF LoopExit, KilledAtStart, SemopInterrupted, Crash
<1>9. \/ UNCHANGED vars
      \/ ForkFails \/ SleepEnds \/ RemoveChopsticks \/ KillChild
      \/ \E p \in Phil : AlarmHandler(p)
      => UNCHANGED <<pc, k>>
  BY DEF vars, philvars, ForkFails, SleepEnds, RemoveChopsticks, KillChild, AlarmHandler
<1> QED BY <1>2, <1>3, <1>4, <1>5, <1>6, <1>7, <1>8, <1>9
        DEF Next, Serve, Signalled, ParentAwake

(* Each of the three programs implements the abstract table: what happens  *)
(* to semaphores, adjustments, signals and exits is a philosopher picking  *)
(* up free chopsticks or putting down his own.                             *)
THEOREM ImplementsTable == Spec => TableSpec
<1>1. Init => Table!Init
  BY RefineInit
<1>2. Inv /\ Inv' /\ ParentCounts /\ [Next]_vars => [Table!Next]_(Table!vars)
  BY RefineNext
<1> QED BY <1>1, <1>2, Invariance, PTL DEF Spec, TableSpec, Table!Spec

=============================================================================
