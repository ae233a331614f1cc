----------------------------- MODULE ForkProofs -----------------------------
(***************************************************************************)
(* Theorems about parents and their children.  First about Children: all   *)
(* eight programs, any number of children.  Then about ForkServer, for any *)
(* finite set of connections and whether or not fork() fails.              *)
(***************************************************************************)
EXTENDS Children, ForkServer, FiniteSetTheorems, TLAPS

State == {"none", "run", "zombie", "reaped", "refused"}

(* There are finitely many children, and so of any kind.                   *)
LEMMA FiniteKinds ==
    /\ IsFiniteSet(Child)
    /\ \A S \in SUBSET Child : IsFiniteSet(S) /\ Cardinality(S) \in Nat
<1>1. IsFiniteSet(Child)
  BY SizeAssumption, FS_Interval DEF Child
<1> QED BY <1>1, FS_Subset, FS_CardinalityType

(* A child more in a set of children.                                      *)
LEMMA OneMore ==
    ASSUME NEW S \in SUBSET Child, NEW c \in Child, c \notin S
    PROVE  Cardinality(S \cup {c}) = Cardinality(S) + 1
BY FiniteKinds, FS_AddElement

(* A child less in a set of children.                                      *)
LEMMA OneLess ==
    ASSUME NEW S \in SUBSET Child, NEW c \in S
    PROVE  Cardinality(S \ {c}) = Cardinality(S) - 1
BY FiniteKinds, FS_RemoveElement

(* What fork(), a refused fork(), an exit and a wait() do to the numbers of*)
(* children of each kind.                                                  *)
Reaped == Cardinality(In("reaped"))
Left == Cardinality(Unreaped)
Refused == Cardinality(In("refused"))
Run == Cardinality(In("run"))

(* The numbers of children are numbers.                                    *)
LEMMA Numbers == Reaped \in Nat /\ Left \in Nat /\ Refused \in Nat /\ Run \in Nat
BY FiniteKinds DEF Reaped, Left, Refused, Run, In, Unreaped

(* fork() succeeds.                                                        *)
LEMMA Forked ==
    ASSUME child \in [Child -> State], NEW c \in Child, child[c] = "none",
           child' = [child EXCEPT ![c] = "run"]
    PROVE  /\ Unreaped' = Unreaped \cup {c} /\ In("refused")' = In("refused")
           /\ Reaped' = Reaped /\ Left' = Left + 1 /\ Refused' = Refused
<1>1. /\ c \notin Unreaped /\ Unreaped \in SUBSET Child
      /\ Unreaped' = Unreaped \cup {c}
      /\ In("reaped")' = In("reaped") /\ In("refused")' = In("refused")
  BY DEF In, Unreaped, State
<1> QED BY <1>1, OneMore DEF Reaped, Left, Refused

(* fork() fails.                                                           *)
LEMMA NotForked ==
    ASSUME child \in [Child -> State], NEW c \in Child, child[c] = "none",
           child' = [child EXCEPT ![c] = "refused"]
    PROVE  /\ Unreaped' = Unreaped
           /\ Reaped' = Reaped /\ Left' = Left /\ Refused' = Refused + 1
<1>1. /\ c \notin In("refused") /\ In("refused") \in SUBSET Child
      /\ In("refused")' = In("refused") \cup {c}
      /\ In("reaped")' = In("reaped") /\ Unreaped' = Unreaped
  BY DEF In, Unreaped, State
<1> QED BY <1>1, OneMore DEF Reaped, Left, Refused

(* A child ends and becomes a zombie.                                      *)
LEMMA Exited ==
    ASSUME child \in [Child -> State], NEW c \in Child, child[c] = "run",
           child' = [child EXCEPT ![c] = "zombie"]
    PROVE  /\ Unreaped' = Unreaped /\ In("zombie")' = In("zombie") \cup {c}
           /\ In("reaped")' = In("reaped") /\ In("refused")' = In("refused")
BY DEF In, Unreaped, State

(* wait() returns a zombie.                                                *)
LEMMA WaitedFor ==
    ASSUME child \in [Child -> State], NEW c \in Child, child[c] = "zombie",
           child' = [child EXCEPT ![c] = "reaped"]
    PROVE  /\ Unreaped' = Unreaped \ {c} /\ In("refused")' = In("refused")
           /\ Reaped' = Reaped + 1 /\ Left' = Left - 1 /\ Refused' = Refused
<1>1. /\ c \in Unreaped /\ c \notin In("reaped")
      /\ Unreaped \in SUBSET Child /\ In("reaped") \in SUBSET Child
      /\ Unreaped' = Unreaped \ {c} /\ In("reaped")' = In("reaped") \cup {c}
      /\ In("refused")' = In("refused")
  BY DEF In, Unreaped, State
<1> QED BY <1>1, OneMore, OneLess DEF Reaped, Left, Refused

(* Nobody is left if the number of those left is 0, and conversely; the    *)
(* running ones are among those left.                                      *)
LEMMA NobodyLeft ==
    /\ Left = 0 <=> Unreaped = {}
    /\ Run <= Left
    /\ Unreaped = {} => In("zombie") = {}
<1>1. Unreaped \in SUBSET Child /\ In("run") \in SUBSET Unreaped
  BY DEF In, Unreaped
<1>2. IsFiniteSet(Unreaped)
  BY <1>1, FiniteKinds
<1>3. Left = 0 <=> Unreaped = {}
  BY <1>2, FS_EmptySet DEF Left
<1>4. Run <= Left
  BY <1>1, <1>2, FS_Subset DEF Run, Left
<1> QED BY <1>3, <1>4 DEF Unreaped

-----------------------------------------------------------------------------
(* The invariant in these numbers.                                         *)
Sum == Reaped + Left + Refused = i

(* What the invariant says of numbers, in one place.                       *)
LEMMA InvNumbers ==
    ASSUME Inv
    PROVE  /\ Sum /\ i \in 0..nchilds /\ nchilds \in 0..MaxChilds /\ j \in 0..nchilds + 1
           /\ i \in Nat /\ nchilds \in Nat /\ j \in Nat /\ MaxChilds \in Nat
           /\ Reaped \in 0..i /\ Left \in 0..i
           /\ program # "spawn" => Refused = 0
           /\ \A c \in Child : child[c] = "none" <=> c > i
           /\ child \in [Child -> State]
<1>1. Sum /\ i \in 0..nchilds /\ nchilds \in 0..MaxChilds /\ j \in 0..nchilds + 1
  BY DEF Inv, Accounted, TypeOK, Sum, Reaped, Left, Refused
<1>4. MaxChilds \in Nat
  BY SizeAssumption
<1>5. nchilds \in Nat
  BY <1>1, <1>4
<1>6. i \in Nat /\ j \in Nat
  BY <1>1, <1>5
<1>2. program # "spawn" => Refused = 0
  BY FS_EmptySet DEF Inv, Accounted, Refused
<1>3. /\ \A c \in Child : child[c] = "none" <=> c > i
      /\ child \in [Child -> State]
  BY DEF Inv, Accounted, TypeOK, State
<1> QED BY <1>1, <1>2, <1>3, <1>4, <1>5, <1>6, Numbers DEF Sum

(* A child is forked.                                                      *)
LEMMA ForkChildInv == Inv /\ ForkChild => Inv'
<1> SUFFICES ASSUME Inv, ForkChild PROVE Inv'
  OBVIOUS
<1>1. TypeOK /\ Accounted /\ Points /\ Counting /\ HandlerFindsZombie /\ SpawnCounted
  BY DEF Inv
<1>2. /\ main = "fork" /\ i < Limit
      /\ child' = [child EXCEPT ![i + 1] = "run"] /\ i' = i + 1
      /\ UNCHANGED <<program, nchilds, j, pending, processes, alive>>
  BY DEF ForkChild, choice
<1>3. i < nchilds /\ i + 1 \in Child /\ child[i + 1] = "none"
  BY <1>1, <1>2, InvNumbers, SizeAssumption DEF Limit, TypeOK, Child
<1>4. /\ Unreaped' = Unreaped \cup {i + 1} /\ In("refused")' = In("refused")
      /\ Reaped' = Reaped /\ Left' = Left + 1 /\ Refused' = Refused
  BY <1>2, <1>3, InvNumbers, Forked
<1>5. main' = IF program = "shell" THEN "wait" ELSE IF program = "spawn" THEN "reap" ELSE "fork"
  BY DEF ForkChild
<1>6. /\ running' \in 0..nchilds /\ maxspawn' \in 0..nchilds /\ peak' \in 0..nchilds
      /\ SpawnCounted'
  <2>1. CASE program = "spawn"
    <3>1. running' = running + 1 /\ maxspawn' = Larger(maxspawn, running')
          /\ peak' = Larger(peak, Run + 1)
      BY <2>1 DEF ForkChild, Run
    <3>2. running = Left /\ maxspawn >= peak
      BY <1>1, <2>1 DEF SpawnCounted, Left
    <3>3. Left + 1 <= nchilds
      BY <1>3, InvNumbers, Numbers
    <3>4. Run \in Nat /\ Left \in Nat /\ Run <= Left /\ nchilds \in Nat
      BY Numbers, NobodyLeft, InvNumbers, SizeAssumption
    <3>5. maxspawn \in 0..nchilds /\ peak \in 0..nchilds
      BY <1>1 DEF TypeOK
    <3>6. running' = Left + 1
      BY <3>1, <3>2
    <3>7. maxspawn' = IF maxspawn > Left + 1 THEN maxspawn ELSE Left + 1
      BY <3>1, <3>6 DEF Larger
    <3>8. peak' = IF peak > Run + 1 THEN peak ELSE Run + 1
      BY <3>1 DEF Larger
    <3>9. maxspawn' >= peak' /\ maxspawn' \in 0..nchilds /\ peak' \in 0..nchilds
      BY <3>2, <3>3, <3>4, <3>5, <3>7, <3>8
    <3>10. SpawnCounted'
      BY <1>4, <3>6, <3>9 DEF SpawnCounted, Left
    <3> QED BY <3>3, <3>4, <3>6, <3>9, <3>10
  <2>2. CASE program # "spawn"
    BY <1>1, <1>2, <2>2 DEF ForkChild, spawned, TypeOK, SpawnCounted
  <2> QED BY <2>1, <2>2
<1>7. TypeOK'
  BY <1>1, <1>2, <1>3, <1>5, <1>6, InvNumbers DEF TypeOK
<1>8. Accounted'
  <2>1. \A c \in Child : child'[c] = "none" <=> c > i'
    BY <1>2, <1>3, InvNumbers DEF Child, State
  <2>2. Reaped' + Left' + Refused' = i'
    BY <1>2, <1>4, InvNumbers, Numbers DEF Sum
  <2>3. program' # "spawn" => In("refused")' = {}
    BY <1>1, <1>2, <1>4 DEF Accounted
  <2> QED BY <2>1, <2>2, <2>3 DEF Accounted, Reaped, Left, Refused
<1>9. Points'
  BY <1>1, <1>2, <1>5 DEF Points, Handled
<1>10. Counting'
  <2>1. program \in {"forkwait1", "forkwait3", "forkwait4"} => j' = Reaped'
    BY <1>1, <1>2, <1>4 DEF Counting, Reaped
  <2>2. program = "forkwait2" => \A c \in Child : c <= j => child'[c] = "reaped"
    <3>1. \A c \in Child : child[c] = "reaped" => child'[c] = "reaped"
      BY <1>2, <1>3, InvNumbers
    <3> QED BY <1>1, <1>2, <3>1 DEF Counting
  <2>3. program = "shell" => Unreaped' = {i'} /\ main' = "wait"
    BY <1>1, <1>2, <1>4, <1>5 DEF Counting
  <2>4. program = "signal1" => j' = 0 /\ main' = "fork"
    BY <1>1, <1>2, <1>5 DEF Counting
  <2> QED BY <1>2, <1>5, <2>1, <2>2, <2>3, <2>4 DEF Counting, Reaped
<1>11. HandlerFindsZombie'
  <2>1. In("zombie")' = In("zombie")
    BY <1>2, <1>3, InvNumbers DEF In, State
  <2> QED BY <1>1, <1>2, <1>4, <1>5, <2>1 DEF HandlerFindsZombie, Handled, Reaped
<1> QED BY <1>6, <1>7, <1>8, <1>9, <1>10, <1>11 DEF Inv

(* A fork() that fails ends the program, or leaves a connection alone.     *)
LEMMA ForkFailsInv == Inv /\ ForkFails => Inv'
<1> SUFFICES ASSUME Inv, ForkFails PROVE Inv'
  OBVIOUS
<1>1. TypeOK /\ Accounted /\ Points /\ Counting /\ HandlerFindsZombie /\ SpawnCounted
  BY DEF Inv
<1>2. /\ main = "fork" /\ i < Limit
      /\ UNCHANGED <<program, nchilds, j, pending, processes, alive, running, maxspawn, peak>>
  BY DEF ForkFails, choice, spawned
<1>3. CASE program = "spawn"
  <2>1. main' = main /\ i' = i + 1 /\ child' = [child EXCEPT ![i + 1] = "refused"]
    BY <1>3 DEF ForkFails, Ends
  <2>2. i < nchilds /\ i + 1 \in Child /\ child[i + 1] = "none"
    BY <1>2, <1>3, InvNumbers, SizeAssumption DEF Limit, Child
  <2>3. Unreaped' = Unreaped /\ Reaped' = Reaped /\ Left' = Left /\ Refused' = Refused + 1
    BY <2>1, <2>2, InvNumbers, NotForked
  <2>4. TypeOK'
    BY <1>1, <1>2, <2>1, <2>2 DEF TypeOK
  <2>5. Accounted'
    <3>1. \A c \in Child : child'[c] = "none" <=> c > i'
      BY <2>1, <2>2, InvNumbers DEF Child, State
    <3>2. Reaped' + Left' + Refused' = i'
      BY <2>1, <2>3, InvNumbers, Numbers DEF Sum
    <3> QED BY <1>2, <1>3, <3>1, <3>2 DEF Accounted, Reaped, Left, Refused
  <2>6. SpawnCounted'
    BY <1>1, <1>2, <2>3 DEF SpawnCounted, Left
  <2>7. Points' /\ Counting' /\ HandlerFindsZombie'
    BY <1>1, <1>2, <1>3, <2>1 DEF Points, Counting, HandlerFindsZombie, Handled
  <2> QED BY <2>4, <2>5, <2>6, <2>7 DEF Inv
<1>4. CASE program # "spawn"
  <2>1. main' = "failed" /\ i' = i /\ child' = child
    BY <1>4 DEF ForkFails
  <2>2. TypeOK'
    BY <1>1, <1>2, <2>1 DEF TypeOK
  <2>3. Accounted' /\ SpawnCounted'
    BY <1>1, <1>2, <2>1 DEF Accounted, SpawnCounted, Unreaped, In
  <2>4. Points' /\ Counting' /\ HandlerFindsZombie'
    BY <1>1, <1>2, <1>4, <2>1 DEF Points, Counting, HandlerFindsZombie, Handled, Unreaped, In
  <2> QED BY <2>2, <2>3, <2>4 DEF Inv
<1> QED BY <1>3, <1>4

(* A child ends, at any time.                                              *)
LEMMA ChildEndsInv == ASSUME Inv, NEW c \in Child, ChildEnds(c) PROVE Inv'
<1>1. TypeOK /\ Accounted /\ Points /\ Counting /\ HandlerFindsZombie /\ SpawnCounted
  BY DEF Inv
<1>2. /\ child[c] = "run" /\ child' = [child EXCEPT ![c] = "zombie"]
      /\ UNCHANGED <<program, nchilds, main, i, j, processes, alive, running, maxspawn, peak>>
  BY DEF ChildEnds, Ends, choice, spawned
<1>3. /\ Unreaped' = Unreaped /\ In("zombie")' = In("zombie") \cup {c}
      /\ In("reaped")' = In("reaped") /\ In("refused")' = In("refused")
  BY <1>2, InvNumbers, Exited
<1>4. pending' \in BOOLEAN /\ (pending' => Handled)
  <2>1. pending' = (pending \/ (Handled /\ main # "end"))
    BY DEF ChildEnds
  <2>2. pending \in BOOLEAN /\ (pending => Handled)
    BY <1>1 DEF TypeOK, Points
  <2> QED BY <2>1, <2>2, Zenon
<1>5. \A d \in Child : child'[d] = IF d = c THEN "zombie" ELSE child[d]
  BY <1>2, InvNumbers
<1>6. TypeOK'
  <2>1. child' \in [Child -> State]
    BY <1>2, InvNumbers DEF State
  <2> QED BY <1>1, <1>2, <1>4, <2>1 DEF TypeOK, State
<1>7. Accounted'
  BY <1>1, <1>2, <1>3, <1>5 DEF Accounted
<1>8. Points'
  BY <1>1, <1>2, <1>4 DEF Points, Handled
<1>9. Counting'
  BY <1>1, <1>2, <1>3, <1>5 DEF Counting
<1>10. HandlerFindsZombie' /\ SpawnCounted'
  BY <1>1, <1>2, <1>3 DEF HandlerFindsZombie, SpawnCounted, Handled
<1> QED BY <1>6, <1>7, <1>8, <1>9, <1>10 DEF Inv

-----------------------------------------------------------------------------
(* What waiting for a child does, whoever waits.                           *)
LEMMA Waited ==
    ASSUME Inv, NEW c \in Child, child[c] = "zombie", Ends(c, "reaped"),
           UNCHANGED <<program, nchilds, i>>
    PROVE  /\ child' \in [Child -> State] /\ Accounted'
           /\ Reaped' = Reaped + 1 /\ Left' = Left - 1 /\ Reaped + 1 <= i
           /\ Unreaped' = Unreaped \ {c} /\ c \in Unreaped
           /\ \A d \in Child : child'[d] = IF d = c THEN "reaped" ELSE child[d]
<1>1. child' = [child EXCEPT ![c] = "reaped"]
  BY DEF Ends
<1>2. /\ Unreaped' = Unreaped \ {c} /\ In("refused")' = In("refused")
      /\ Reaped' = Reaped + 1 /\ Left' = Left - 1 /\ Refused' = Refused
  BY <1>1, InvNumbers, WaitedFor
<1>3. c \in Unreaped
  BY DEF Unreaped, In
<1>4. Left # 0
  BY <1>3, NobodyLeft
<1>5. Reaped + 1 <= i
  BY <1>4, InvNumbers, Numbers DEF Sum
<1>6. child' \in [Child -> State]
      /\ \A d \in Child : child'[d] = IF d = c THEN "reaped" ELSE child[d]
  BY <1>1, InvNumbers DEF State
<1>7. Accounted'
  <2>1. \A d \in Child : child'[d] = "none" <=> d > i'
    BY <1>6, InvNumbers
  <2>2. Reaped' + Left' + Refused' = i'
    BY <1>2, InvNumbers, Numbers DEF Sum
  <2>3. program' # "spawn" => In("refused")' = {}
    BY <1>2 DEF Inv, Accounted
  <2> QED BY <2>1, <2>2, <2>3 DEF Accounted, Reaped, Left, Refused
<1> QED BY <1>2, <1>3, <1>5, <1>6, <1>7

(* When nobody is left, those forked have all been waited for.             *)
LEMMA AllReaped ==
    ASSUME Inv, program # "spawn", Unreaped = {}
    PROVE  Reaped = i
BY InvNumbers, NobodyLeft, Numbers DEF Sum

(* wait() and waitpid() in the parents that do nothing else.               *)
LEMMA ForkWaitInv ==
    Inv /\ (WaitAny \/ WaitPidEach \/ Poll \/ WaitPidAny) => Inv'
<1> SUFFICES ASSUME Inv, WaitAny \/ WaitPidEach \/ Poll \/ WaitPidAny PROVE Inv'
  OBVIOUS
<1>1. TypeOK /\ Accounted /\ Points /\ Counting /\ HandlerFindsZombie /\ SpawnCounted
  BY DEF Inv
<1>2. /\ program \in {"forkwait1", "forkwait2", "forkwait3", "forkwait4"} /\ main = "wait"
      /\ UNCHANGED <<program, nchilds, i, pending, processes, alive, running, maxspawn, peak>>
  BY DEF WaitAny, WaitPidEach, Poll, WaitPidAny, choice, spawned
<1>3. i = nchilds /\ (program # "forkwait2" => j = Reaped)
  BY <1>1, <1>2 DEF Points, Counting, Reaped
<1>4. ~Handled /\ ~Handled' /\ ~pending
  BY <1>1, <1>2 DEF Handled, Points
<1>5. main' \in {"wait", "end"}
  BY <1>2 DEF WaitAny, WaitPidEach, Poll, WaitPidAny
<1>6. Points' /\ HandlerFindsZombie' /\ SpawnCounted'
  BY <1>1, <1>2, <1>3, <1>4, <1>5 DEF Points, HandlerFindsZombie, SpawnCounted
<1>7. ASSUME j' \in 0..nchilds + 1, child' \in [Child -> State], Accounted', Counting'
      PROVE  Inv'
  <2>1. TypeOK'
    BY <1>1, <1>2, <1>5, <1>7 DEF TypeOK, State
  <2> QED BY <1>6, <1>7, <2>1 DEF Inv
<1>8. ASSUME NEW c \in Child, child[c] = "zombie", Ends(c, "reaped"), j' = j + 1,
             main' = "end" => j' >= nchilds
      PROVE  Inv'
  <2>1. /\ child' \in [Child -> State] /\ Accounted'
        /\ Reaped' = Reaped + 1 /\ Left' = Left - 1 /\ Reaped + 1 <= i
    BY <1>2, <1>8, Waited
  <2>2. CASE program # "forkwait2"
    <3>1. j' = Reaped' /\ j' <= nchilds
      BY <1>3, <1>8, <2>1, <2>2
    <3>2. main' = "end" => Left' = 0
      BY <1>2, <1>3, <1>8, <2>1, <2>2, <3>1, InvNumbers, Numbers DEF Sum
    <3>3. main' = "end" => Unreaped' = {}
      <4>1. Left' = 0 <=> Unreaped' = {}
        BY <2>1, FiniteKinds, FS_EmptySet DEF Left, Unreaped, In
      <4> QED BY <3>2, <4>1
    <3>4. Counting'
      BY <1>2, <2>2, <3>1, <3>3 DEF Counting, Reaped
    <3> QED BY <1>3, <1>7, <1>8, <2>1, <3>1, <3>4, InvNumbers
  <2>3. CASE program = "forkwait2"
    <3>1. WaitPidEach
      BY <2>3 DEF WaitAny, Poll, WaitPidAny
    <3>2. j < nchilds /\ j + 1 \in Child /\ child' = [child EXCEPT ![j + 1] = "reaped"] /\ main' = "wait"
      BY <1>2, <3>1, InvNumbers, SizeAssumption DEF WaitPidEach, Ends, Child
    <3>3. \A d \in Child : d <= j' => child'[d] = "reaped"
      <4>1. \A d \in Child : d <= j => child[d] = "reaped"
        BY <1>1, <1>2, <2>3 DEF Counting
      <4>2. \A d \in Child : d <= j' => d <= j \/ d = j + 1
        BY <1>8, InvNumbers DEF Child
      <4> QED BY <3>2, <4>1, <4>2, InvNumbers
    <3>4. Counting'
      BY <1>2, <2>3, <3>2, <3>3 DEF Counting
    <3> QED BY <1>7, <1>8, <2>1, <3>2, <3>4, InvNumbers
  <2> QED BY <2>2, <2>3
<1>9. ASSUME Unreaped = {} \/ j' = j, child' = child, program # "forkwait2",
             program = "forkwait3" => j' = j,
             program = "forkwait1" => main' = "wait" /\ j < nchilds,
             j' = j \/ j' = j + 1,
             main' = IF j' < nchilds THEN "wait" ELSE "end"
      PROVE  Inv'
  <2>1. Reaped' = Reaped /\ Left' = Left /\ Unreaped' = Unreaped
    BY <1>9 DEF Reaped, Left, Unreaped, In
  <2>2. Unreaped = {} => Reaped = nchilds
    BY <1>2, <1>3, AllReaped
  <2>3. Reaped = nchilds => Unreaped = {}
    BY <1>2, <1>3, InvNumbers, NobodyLeft, Numbers DEF Sum
  <2>4. j = Reaped /\ j <= nchilds
    BY <1>3, <1>9, InvNumbers
  <2>5. main' = "wait" => j' = j
    BY <1>9, <2>2, <2>4, InvNumbers
  <2>6. main' = "end" => Unreaped' = {}
    BY <1>9, <2>1, <2>2, <2>3, <2>4, InvNumbers
  <2>7. Counting'
    BY <1>2, <1>5, <1>9, <2>1, <2>4, <2>5, <2>6 DEF Counting, Reaped
  <2>8. Accounted' /\ child' \in [Child -> State]
    BY <1>1, <1>2, <1>9, InvNumbers DEF Accounted, Unreaped, In
  <2>9. j' \in 0..nchilds + 1
    BY <1>9, <2>4, InvNumbers
  <2> QED BY <1>7, <2>7, <2>8, <2>9
<1>10. CASE WaitAny
  <2>1. j < nchilds /\ j' = j + 1 /\ main' = "wait" /\ program = "forkwait1"
    BY <1>2, <1>10 DEF WaitAny
  <2>2. Unreaped # {}
    BY <1>2, <1>3, <2>1, AllReaped, InvNumbers
  <2>3. PICK c \in In("zombie") : Ends(c, "reaped")
    BY <1>10, <2>2 DEF WaitAny
  <2> QED BY <1>8, <2>1, <2>3 DEF In
<1>11. CASE WaitPidEach
  <2>1. j < nchilds /\ child[j + 1] = "zombie" /\ Ends(j + 1, "reaped") /\ j' = j + 1 /\ main' = "wait"
    BY <1>2, <1>11 DEF WaitPidEach
  <2>2. j + 1 \in Child
    BY <2>1, InvNumbers, SizeAssumption DEF Child
  <2> QED BY <1>8, <2>1, <2>2
<1>12. CASE Poll
  <2>1. program = "forkwait3" /\ main' = IF j' < nchilds THEN "wait" ELSE "end"
    BY <1>12 DEF Poll
  <2>2. CASE \E c \in In("zombie") : Ends(c, "reaped") /\ j' = j + 1
    <3>1. main' = "end" => j' >= nchilds
      BY <2>1, <2>2, InvNumbers
    <3> QED BY <1>8, <2>2, <3>1 DEF In
  <2>3. CASE UNCHANGED <<child, j>>
    BY <1>9, <2>1, <2>3
  <2> QED BY <1>12, <2>2, <2>3 DEF Poll
<1>13. CASE WaitPidAny
  <2>1. program = "forkwait4" /\ j' = j + 1 /\ main' = IF j' < nchilds THEN "wait" ELSE "end"
    BY <1>13 DEF WaitPidAny
  <2>2. CASE Unreaped = {}
    BY <1>9, <1>13, <2>1, <2>2 DEF WaitPidAny
  <2>3. CASE Unreaped # {}
    <3>1. PICK c \in In("zombie") : Ends(c, "reaped")
      BY <1>13, <2>3 DEF WaitPidAny
    <3>2. main' = "end" => j' >= nchilds
      BY <2>1, InvNumbers
    <3> QED BY <1>8, <2>1, <3>1, <3>2 DEF In
  <2> QED BY <2>2, <2>3
<1> QED BY <1>10, <1>11, <1>12, <1>13

(* shell.c has one child, the command it waits for.                        *)
LEMMA WaitCommandInv == Inv /\ WaitCommand => Inv'
<1> SUFFICES ASSUME Inv, WaitCommand PROVE Inv'
  OBVIOUS
<1>1. TypeOK /\ Points /\ Counting /\ HandlerFindsZombie /\ SpawnCounted
  BY DEF Inv
<1>2. /\ program = "shell" /\ main = "wait"
      /\ UNCHANGED <<program, nchilds, i, j, pending, processes, alive, running, maxspawn, peak>>
  BY DEF WaitCommand, choice, spawned
<1>3. PICK c \in In("zombie") : /\ Ends(c, "reaped")
                                /\ main' = IF c = i THEN "fork" ELSE "wait"
  BY DEF WaitCommand
<1>4. /\ child' \in [Child -> State] /\ Accounted'
      /\ Unreaped' = Unreaped \ {c} /\ c \in Unreaped
  BY <1>2, <1>3, Waited DEF In
<1>5. c = i /\ Unreaped' = {} /\ main' = "fork"
  BY <1>1, <1>2, <1>3, <1>4 DEF Counting
<1>6. TypeOK'
  BY <1>1, <1>2, <1>4, <1>5 DEF TypeOK, State
<1>7. Points' /\ Counting' /\ HandlerFindsZombie' /\ SpawnCounted'
  BY <1>1, <1>2, <1>5 DEF Points, Counting, HandlerFindsZombie, SpawnCounted, Handled
<1> QED BY <1>4, <1>6, <1>7 DEF Inv

(* The handler of SIGCHLD waits for one child.                             *)
LEMMA HandlerInv == Inv /\ Handler => Inv'
<1> SUFFICES ASSUME Inv, Handler PROVE Inv'
  OBVIOUS
<1>0. /\ i \in Nat /\ nchilds \in Nat /\ j \in Nat /\ MaxChilds \in Nat
      /\ i <= nchilds /\ nchilds <= MaxChilds
      /\ \A d \in Child : child[d] = "none" <=> d > i
      /\ Reaped \in Nat
  BY InvNumbers, Numbers, SizeAssumption
<1>1. TypeOK /\ Points /\ Counting /\ HandlerFindsZombie /\ SpawnCounted
  BY DEF Inv
<1>2. /\ pending /\ main # "end" /\ pending' = FALSE
      /\ processes' = IF program = "signal0" THEN processes - 1 ELSE processes
      /\ UNCHANGED <<program, nchilds, main, i, j, alive, running, maxspawn, peak>>
  BY DEF Handler, choice, spawned
<1>3. Handled
  BY <1>1, <1>2 DEF Points
<1>4. PICK c \in In("zombie") : Ends(c, "reaped")
  BY DEF Handler
<1>5. /\ child' \in [Child -> State] /\ Accounted'
      /\ Reaped' = Reaped + 1 /\ Reaped + 1 <= i
      /\ \A d \in Child : child'[d] = IF d = c THEN "reaped" ELSE child[d]
  BY <1>2, <1>4, Waited DEF In
<1>6. program = "signal0" => processes = nchilds - Reaped
  BY <1>1, <1>3 DEF HandlerFindsZombie, Reaped
<1>7. processes' \in 0..nchilds
  BY <1>0, <1>1, <1>2, <1>5, <1>6 DEF TypeOK
<1>8. TypeOK'
  BY <1>1, <1>2, <1>5, <1>7 DEF TypeOK, State
<1>9. HandlerFindsZombie'
  <2>1. program = "signal0" => processes' = nchilds - Reaped'
    BY <1>2, <1>5, <1>6, InvNumbers, Numbers
  <2> QED BY <1>2, <2>1 DEF HandlerFindsZombie, Reaped
<1>10. Points'
  BY <1>1, <1>2 DEF Points, Handled
<1>11. Counting' /\ SpawnCounted'
  BY <1>1, <1>2, <1>3, <1>5 DEF Counting, SpawnCounted, Handled
<1> QED BY <1>5, <1>8, <1>9, <1>10, <1>11 DEF Inv

(* A server waits for one that has ended.                                  *)
LEMMA ReapOneInv == Inv /\ ReapOne => Inv'
<1> SUFFICES ASSUME Inv, ReapOne PROVE Inv'
  OBVIOUS
<1>1. TypeOK /\ Points /\ Counting /\ HandlerFindsZombie /\ SpawnCounted
  BY DEF Inv
<1>2. /\ main = "reap" /\ running' = running - 1
      /\ UNCHANGED <<program, nchilds, main, i, j, pending, processes, alive, maxspawn, peak>>
  BY DEF ReapOne, choice
<1>3. program = "spawn"
  BY <1>1, <1>2 DEF Points
<1>4. PICK c \in In("zombie") : Ends(c, "reaped")
  BY DEF ReapOne
<1>5. /\ child' \in [Child -> State] /\ Accounted'
      /\ Left' = Left - 1 /\ c \in Unreaped
  BY <1>2, <1>4, Waited DEF In
<1>6. running = Left /\ maxspawn >= peak
  BY <1>1, <1>3 DEF SpawnCounted, Left
<1>7. Left # 0
  BY <1>5, NobodyLeft
<1>8. running' \in 0..nchilds
  BY <1>1, <1>2, <1>6, <1>7, InvNumbers, Numbers DEF TypeOK
<1>9. TypeOK'
  BY <1>1, <1>2, <1>5, <1>8 DEF TypeOK, State
<1>10. SpawnCounted'
  BY <1>2, <1>5, <1>6 DEF SpawnCounted, Left
<1>11. Points' /\ Counting' /\ HandlerFindsZombie'
  BY <1>1, <1>2, <1>3 DEF Points, Counting, HandlerFindsZombie, Handled
<1> QED BY <1>5, <1>9, <1>10, <1>11 DEF Inv

-----------------------------------------------------------------------------
(* Steps that change no child.                                             *)
LEMMA SameChildren ==
    ASSUME UNCHANGED <<program, i, child>>
    PROVE  /\ Unreaped' = Unreaped /\ Reaped' = Reaped /\ Left' = Left
           /\ \A s \in State : In(s)' = In(s)
           /\ Accounted => Accounted'
BY DEF Accounted, Unreaped, Reaped, Left, In

(* The loop that forks ends: every child is there, except in signal0.c.    *)
LEMMA ForkLoopEndsInv == Inv /\ ForkLoopEnds => Inv'
<1> SUFFICES ASSUME Inv, ForkLoopEnds PROVE Inv'
  OBVIOUS
<1>0. /\ i \in Nat /\ nchilds \in Nat /\ j \in Nat /\ MaxChilds \in Nat
      /\ i <= nchilds /\ nchilds <= MaxChilds
      /\ \A d \in Child : child[d] = "none" <=> d > i
      /\ Reaped \in Nat
  BY InvNumbers, Numbers, SizeAssumption
<1>1. TypeOK /\ Accounted /\ Points /\ Counting /\ HandlerFindsZombie /\ SpawnCounted
  BY DEF Inv
<1>2. /\ main = "fork" /\ i >= Limit /\ program # "spawn"
      /\ main' = IF program = "shell" THEN "end" ELSE IF program = "signal1" THEN "kill" ELSE "wait"
      /\ UNCHANGED <<program, nchilds, i, j, child, pending, processes, alive, running, maxspawn, peak>>
  BY DEF ForkLoopEnds, choice, spawned
<1>3. program # "signal0" => i = nchilds
  BY <1>0, <1>1, <1>2 DEF Limit, TypeOK
<1>4. /\ Unreaped' = Unreaped /\ Reaped' = Reaped /\ Left' = Left
      /\ In("zombie")' = In("zombie") /\ Accounted'
  BY <1>1, <1>2, SameChildren DEF State
<1>5. TypeOK'
  BY <1>1, <1>2 DEF TypeOK
<1>6. Points'
  BY <1>1, <1>2, <1>3 DEF Points, Handled
<1>7. Counting'
  <2>1. CASE program = "signal1"
    BY <1>0, <1>1, <1>2, <2>1 DEF Counting, Child
  <2>2. CASE program # "signal1"
    BY <1>1, <1>2, <1>3, <1>4, <2>2 DEF Counting, Reaped
  <2> QED BY <2>1, <2>2
<1>8. HandlerFindsZombie' /\ SpawnCounted'
  BY <1>1, <1>2, <1>4 DEF HandlerFindsZombie, SpawnCounted, Handled, Reaped, Left
<1> QED BY <1>4, <1>5, <1>6, <1>7, <1>8 DEF Inv

(* The second loop of forkwait1.c or forkwait2.c ends, or signal0.c does.  *)
LEMMA LoopEndsInv == Inv /\ (WaitEnds \/ NoProcesses) => Inv'
<1> SUFFICES ASSUME Inv, WaitEnds \/ NoProcesses PROVE Inv'
  OBVIOUS
<1>1. TypeOK /\ Accounted /\ Points /\ Counting /\ HandlerFindsZombie /\ SpawnCounted
  BY DEF Inv
<1>2. /\ main = "wait" /\ main' = "end"
      /\ UNCHANGED <<program, nchilds, i, j, child, pending, processes, alive, running, maxspawn, peak>>
  BY DEF WaitEnds, NoProcesses, choice, spawned
<1>3. /\ Unreaped' = Unreaped /\ Reaped' = Reaped /\ Left' = Left
      /\ In("zombie")' = In("zombie") /\ Accounted'
  BY <1>1, <1>2, SameChildren DEF State
<1>4. TypeOK' /\ Points' /\ SpawnCounted'
  BY <1>1, <1>2, <1>3 DEF TypeOK, Points, SpawnCounted, Handled, Left
<1>5. CASE WaitEnds
  <2>1. program \in {"forkwait1", "forkwait2"} /\ j >= nchilds /\ i = nchilds
    BY <1>1, <1>2, <1>5 DEF WaitEnds, Points
  <2>2. CASE program = "forkwait1"
    <3>1. j = Reaped
      BY <1>1, <1>2, <2>2 DEF Counting, Reaped
    <3> QED BY <2>1, <2>2, <3>1, <1>2, <1>3, <1>4, NobodyLeft, InvNumbers, Numbers
            DEF Sum, Counting, HandlerFindsZombie, Handled, Inv
  <2>3. CASE program = "forkwait2"
    <3>1. \A c \in Child : child[c] \in {"none", "reaped"}
      BY <1>1, <1>2, <2>1, <2>3, InvNumbers DEF Counting, Child
    <3>2. Unreaped = {}
      BY <3>1 DEF Unreaped, In
    <3> QED BY <1>2, <1>3, <1>4, <2>3, <3>2 DEF Counting, HandlerFindsZombie, Handled, Inv
  <2> QED BY <2>1, <2>2, <2>3
<1>6. CASE NoProcesses
  <2>1. program = "signal0" /\ processes = 0
    BY <1>6 DEF NoProcesses
  <2>2. Reaped = nchilds
    BY <1>1, <2>1, InvNumbers, Numbers DEF HandlerFindsZombie, Handled, Reaped
  <2>3. Left = 0 /\ i = nchilds
    BY <2>1, <2>2, InvNumbers, Numbers DEF Sum
  <2>4. Unreaped = {}
    BY <2>3, NobodyLeft
  <2>5. HandlerFindsZombie'
    BY <1>1, <1>2, <1>3, <2>1, <2>3, <2>4 DEF HandlerFindsZombie, Handled, Reaped
  <2> QED BY <1>2, <1>3, <1>4, <2>1, <2>5 DEF Counting, Inv
<1> QED BY <1>5, <1>6

(* One kill(pid, 0) of signal1.c.                                          *)
LEMMA KillZeroInv == Inv /\ KillZero => Inv'
<1> SUFFICES ASSUME Inv, KillZero PROVE Inv'
  OBVIOUS
<1>0. /\ i \in Nat /\ nchilds \in Nat /\ j \in Nat /\ MaxChilds \in Nat
      /\ i <= nchilds /\ nchilds <= MaxChilds
      /\ \A d \in Child : child[d] = "none" <=> d > i
      /\ Reaped \in Nat
  BY InvNumbers, Numbers, SizeAssumption
<1>1. TypeOK /\ Accounted /\ Points /\ Counting /\ HandlerFindsZombie /\ SpawnCounted
  BY DEF Inv
<1>2. /\ main = "kill" /\ j < nchilds /\ j' = j + 1
      /\ UNCHANGED <<program, nchilds, main, i, child, pending, processes, running, maxspawn, peak>>
  BY DEF KillZero, choice, spawned
<1>3. program = "signal1"
  BY <1>1, <1>2 DEF Points
<1>4. alive' \in BOOLEAN /\ (~alive' => ~alive /\ child[j + 1] \notin {"run", "zombie"})
  <2>1. alive' = (alive \/ child[j + 1] \in {"run", "zombie"})
    BY DEF KillZero
  <2> QED BY <2>1, Zenon
<1>5. /\ Unreaped' = Unreaped /\ Reaped' = Reaped /\ Left' = Left
      /\ In("zombie")' = In("zombie") /\ Accounted'
  BY <1>1, <1>2, SameChildren DEF State
<1>6. TypeOK'
  <2>1. j' \in 0..nchilds + 1
    BY <1>0, <1>2
  <2> QED BY <1>1, <1>2, <1>4, <2>1 DEF TypeOK
<1>7. Points' /\ SpawnCounted' /\ HandlerFindsZombie'
  BY <1>1, <1>2, <1>3, <1>5 DEF Points, SpawnCounted, HandlerFindsZombie, Handled, Left, Reaped
<1>8. ~alive' => \A c \in Child : c <= j' => child'[c] \notin {"run", "zombie"}
  <2>1. ~alive => \A c \in Child : c <= j => child[c] \notin {"run", "zombie"}
    BY <1>1, <1>2, <1>3 DEF Counting
  <2>2. \A c \in Child : c <= j' => c <= j \/ c = j + 1
    BY <1>0, <1>2 DEF Child
  <2> QED BY <1>2, <1>4, <2>1, <2>2
<1>9. Counting'
  BY <1>2, <1>3, <1>8 DEF Counting
<1> QED BY <1>5, <1>6, <1>7, <1>9 DEF Inv

(* A round of signal1.c finds nobody alive only if nobody is left.         *)
LEMMA RoundEndsInv == Inv /\ RoundEnds => Inv'
<1> SUFFICES ASSUME Inv, RoundEnds PROVE Inv'
  OBVIOUS
<1>0. /\ i \in Nat /\ nchilds \in Nat /\ j \in Nat /\ MaxChilds \in Nat
      /\ i <= nchilds /\ nchilds <= MaxChilds
      /\ \A d \in Child : child[d] = "none" <=> d > i
      /\ Reaped \in Nat
  BY InvNumbers, Numbers, SizeAssumption
<1>1. TypeOK /\ Accounted /\ Points /\ Counting /\ HandlerFindsZombie /\ SpawnCounted
  BY DEF Inv
<1>2. /\ main = "kill" /\ j = nchilds /\ j' = 0 /\ alive' = FALSE
      /\ main' = IF alive THEN "kill" ELSE "end"
      /\ UNCHANGED <<program, nchilds, i, child, pending, processes, running, maxspawn, peak>>
  BY DEF RoundEnds, choice, spawned
<1>3. program = "signal1" /\ i = nchilds
  BY <1>1, <1>2 DEF Points
<1>4. /\ Unreaped' = Unreaped /\ Reaped' = Reaped /\ Left' = Left
      /\ In("zombie")' = In("zombie") /\ Accounted'
  BY <1>1, <1>2, SameChildren DEF State
<1>5. ~alive => Unreaped = {}
  <2> SUFFICES ASSUME ~alive, NEW c \in Unreaped PROVE FALSE
    OBVIOUS
  <2>1. c \in Child /\ child[c] \in {"run", "zombie"}
    BY DEF Unreaped, In
  <2>2. c <= j
    BY <1>0, <1>2, <1>3, <2>1 DEF Child
  <2> QED BY <1>1, <1>2, <1>3, <2>1, <2>2 DEF Counting
<1>6. main' = "end" => ~alive
  BY <1>2
<1>7. TypeOK'
  <2>1. alive' \in BOOLEAN
    BY <1>2, Zenon
  <2>2. main' \in {"kill", "end"} /\ j' \in 0..nchilds + 1
    BY <1>0, <1>2
  <2> QED BY <1>1, <1>2, <2>1, <2>2 DEF TypeOK
<1>8. Points' /\ SpawnCounted'
  BY <1>1, <1>2, <1>3, <1>4 DEF Points, SpawnCounted, Handled, Left
<1>9. HandlerFindsZombie'
  BY <1>1, <1>2, <1>3, <1>4, <1>5, <1>6 DEF HandlerFindsZombie, Handled
<1>10. Counting'
  BY <1>0, <1>2, <1>3 DEF Counting, Child
<1> QED BY <1>4, <1>7, <1>8, <1>9, <1>10 DEF Inv

(* A server has waited for all that had ended.                             *)
LEMMA ReapEndsInv == Inv /\ (ReapEnds \/ UNCHANGED vars) => Inv'
<1> SUFFICES ASSUME Inv, ReapEnds \/ UNCHANGED vars PROVE Inv'
  OBVIOUS
<1>1. TypeOK /\ Accounted /\ Points /\ Counting /\ HandlerFindsZombie /\ SpawnCounted
  BY DEF Inv
<1>2. /\ main' = main \/ (main = "reap" /\ main' = "fork")
      /\ UNCHANGED <<program, nchilds, i, j, child, pending, processes, alive, running, maxspawn, peak>>
  BY DEF ReapEnds, vars, choice, spawned
<1>3. /\ Unreaped' = Unreaped /\ Reaped' = Reaped /\ Left' = Left
      /\ In("zombie")' = In("zombie") /\ In("run")' = In("run") /\ Accounted'
  BY <1>1, <1>2, SameChildren DEF State
<1>4. TypeOK'
  BY <1>1, <1>2 DEF TypeOK
<1>5. Points' /\ SpawnCounted' /\ HandlerFindsZombie'
  BY <1>1, <1>2, <1>3 DEF Points, SpawnCounted, HandlerFindsZombie, Handled, Left, Reaped
<1>6. Counting'
  BY <1>1, <1>2, <1>3 DEF Counting, Points, Reaped
<1> QED BY <1>3, <1>4, <1>5, <1>6 DEF Inv

-----------------------------------------------------------------------------
(* Nobody is forked at first.                                              *)
LEMMA InitInv == Init => Inv
<1> SUFFICES ASSUME Init PROVE Inv
  OBVIOUS
<1>1. TypeOK
  <2>1. /\ program \in Programs /\ main \in {"fork", "failed", "wait", "kill", "reap", "end"}
        /\ child \in [Child -> {"none", "run", "zombie", "reaped", "refused"}]
    BY DEF Init
  <2>2. pending \in BOOLEAN /\ alive \in BOOLEAN
    BY Zenon DEF Init
  <2>3. /\ nchilds \in 0..MaxChilds /\ processes \in 0..nchilds /\ i \in 0..nchilds
        /\ j \in 0..nchilds + 1
        /\ running \in 0..nchilds /\ maxspawn \in 0..nchilds /\ peak \in 0..nchilds
    BY SizeAssumption DEF Init
  <2> QED BY <2>1, <2>2, <2>3 DEF TypeOK
<1>2. \A s \in State \ {"none"} : In(s) = {}
  BY DEF Init, In, State
<1>3. In("reaped") = {} /\ Unreaped = {} /\ In("refused") = {} /\ In("zombie") = {}
  BY <1>2 DEF State, Unreaped
<1>4. Reaped = 0 /\ Left = 0 /\ Refused = 0
  BY <1>3, FS_EmptySet DEF Reaped, Left, Refused
<1>5. Accounted
  <2>1. \A c \in Child : child[c] = "none" <=> c > i
    BY DEF Init, Child
  <2> QED BY <1>3, <1>4, <2>1 DEF Init, Accounted, Reaped, Left, Refused
<1>6. Points
  BY DEF Init, Points
<1>7. Counting
  BY <1>3, <1>4 DEF Init, Counting, Reaped, Child
<1>8. HandlerFindsZombie /\ SpawnCounted
  BY <1>3, <1>4 DEF Init, HandlerFindsZombie, SpawnCounted, Reaped, Left
<1> QED BY <1>1, <1>5, <1>6, <1>7, <1>8 DEF Inv

(* What every step of parent, handler and children keeps.                  *)
THEOREM Invariance == Spec => []Inv
<1>1. Inv /\ [Next]_vars => Inv'
  BY ForkChildInv, ForkFailsInv, ForkLoopEndsInv, ForkWaitInv, WaitCommandInv, LoopEndsInv,
     KillZeroInv, RoundEndsInv, ReapOneInv, ReapEndsInv, HandlerInv, ChildEndsInv
     DEF Next, Main
<1> QED BY InitInv, <1>1, PTL DEF Spec

(* Each parent knows what it should of its children: whoever comes to its  *)
(* end has waited for all of them, a wait() in a handler never blocks, and *)
(* running and maxspawn are what they say.                                 *)
THEOREM Counted == Spec => []ChildrenCounted
<1>1. Inv => ChildrenCounted
  <2> SUFFICES ASSUME Inv PROVE ChildrenCounted
    OBVIOUS
  <2>1. TypeOK /\ Points /\ Counting /\ HandlerFindsZombie /\ SpawnCounted
    BY DEF Inv
  <2>2. ASSUME program \in {"forkwait1", "forkwait2", "forkwait3", "forkwait4", "shell"}, main = "end"
        PROVE  \A c \in Child : child[c] = IF c <= nchilds THEN "reaped" ELSE "none"
    <3>1. Unreaped = {} /\ i = nchilds
      BY <2>1, <2>2 DEF Counting, Points
    <3>2. In("refused") = {}
      BY <2>2 DEF Inv, Accounted
    <3>3. \A c \in Child : child[c] \in {"none", "reaped"}
      BY <3>1, <3>2, InvNumbers DEF State, Unreaped, In
    <3> QED BY <3>1, <3>3, InvNumbers DEF Child
  <2>3. program = "shell" /\ main = "fork" => Unreaped = {}
    BY <2>1 DEF Counting
  <2>4. AllWaitedFor
    BY <2>2, <2>3 DEF AllWaitedFor
  <2> QED BY <2>1, <2>4 DEF ChildrenCounted
<1> QED BY <1>1, Invariance, PTL

-----------------------------------------------------------------------------
(* The forking echo servers: ForkServer.                                   *)

(* There is a number of children not waited for.                           *)
LEMMA OutstandingFinite == /\ IsFiniteSet(Outstanding)
                           /\ Cardinality(Outstanding) \in Nat
<1>1. Outstanding \subseteq Client
  BY DEF Outstanding, InState
<1>2. IsFiniteSet(Outstanding)
  BY <1>1, ClientAssumption, FS_Subset
<1> QED BY <1>2, FS_CardinalityType

(* Every step of main(), the handler and the children keeps the types.     *)
LEMMA ServerTypePreserved == ServerTypeOK /\ [ServerNext]_serverVars => ServerTypeOK'
<1> SUFFICES ASSUME ServerTypeOK, [ServerNext]_serverVars PROVE ServerTypeOK'
  OBVIOUS
<1>1. CASE UNCHANGED serverVars
  BY <1>1 DEF serverVars, ServerTypeOK
<1>2. CASE ServerMain
  BY <1>2 DEF ServerMain, AcceptAndFork, ServerForkFails, LoadCount, StoreCount, ServerTypeOK
<1>3. CASE Loop
  <2>1. CASE NothingToWaitFor \/ NoZombie
    BY <2>1 DEF LeaveLoop, NothingToWaitFor, NoZombie, ServerTypeOK
  <2>2. CASE WaitPidFails
    BY <2>2 DEF WaitPidFails, ServerTypeOK
  <2>3. ASSUME NEW c \in Client, CleanUp(c) PROVE ServerTypeOK'
    BY <2>3 DEF CleanUp, ServerTypeOK
  <2> QED BY <1>3, <2>1, <2>2, <2>3 DEF Loop
<1>4. CASE Interrupted
  BY <1>4 DEF Interrupted, ServerTypeOK
<1>5. CASE \E c \in Client : ChildExits(c)
  BY <1>5 DEF ChildExits, ServerTypeOK
<1> QED BY <1>1, <1>2, <1>3, <1>4, <1>5 DEF ServerNext

(* No step changes the program.                                            *)
LEMMA SameVersion == [ServerNext]_serverVars => version' = version
BY DEF ServerNext, ServerMain, Loop, AcceptAndFork, ServerForkFails, LoadCount, StoreCount,
       NothingToWaitFor, NoZombie, CleanUp, WaitPidFails, LeaveLoop,
       Interrupted, ChildExits, serverVars

(* How many children are outstanding changes with fork() and waitpid()     *)
(* alone.                                                                  *)
LEMMA AcceptedOneMore ==
    ASSUME ServerTypeOK, NEW c \in Client, AcceptAndFork(c)
    PROVE  Cardinality(Outstanding)' = Cardinality(Outstanding) + 1
<1>1. Outstanding' = Outstanding \cup {c} /\ c \notin Outstanding
  BY DEF AcceptAndFork, Outstanding, InState, ServerTypeOK
<1> QED BY <1>1, OutstandingFinite, FS_AddElement

(* waitpid() that returns a child makes them one fewer.                    *)
LEMMA CleanedOneLess ==
    ASSUME ServerTypeOK, NEW c \in Client, CleanUp(c)
    PROVE  Cardinality(Outstanding)' = Cardinality(Outstanding) - 1
<1>1. Outstanding' = Outstanding \ {c} /\ c \in Outstanding
  BY DEF CleanUp, Outstanding, InState, ServerTypeOK
<1> QED BY <1>1, OutstandingFinite, FS_RemoveElement

(* A child that exits is still to be waited for.                           *)
LEMMA SameExit ==
    ASSUME ServerTypeOK, NEW c \in Client, ChildExits(c)
    PROVE  Cardinality(Outstanding)' = Cardinality(Outstanding)
<1>1. Outstanding' = Outstanding
  BY DEF ChildExits, Outstanding, InState, ServerTypeOK
<1> QED BY <1>1

(* Other steps leave the children alone.                                   *)
LEMMA SameServed ==
    ASSUME UNCHANGED childOf
    PROVE  Cardinality(Outstanding)' = Cardinality(Outstanding)
BY DEF Outstanding, InState

(* The number main() is about to count, whether it has loaded it or not.   *)
Covered == IF pc = "load" THEN childProcCount + 1
           ELSE IF pc = "store" THEN loaded + 1 ELSE childProcCount

(* The inductive invariant of both servers: what main() has, or will have  *)
(* after its increment, covers every child.                                *)
Covers == ServerTypeOK /\ Cardinality(Outstanding) <= Covered

(* No child, and a count of 0.                                             *)
LEMMA CoversInit == ServerInit => Covers
<1> SUFFICES ASSUME ServerInit PROVE Covers
  OBVIOUS
<1>1. ServerTypeOK
  BY VersionAssumption DEF ServerInit, ServerTypeOK
<1>2. Outstanding = {}
  BY DEF ServerInit, Outstanding, InState
<1>3. Cardinality(Outstanding) = 0
  BY <1>2, FS_EmptySet
<1>4. Covered = 0
  BY DEF ServerInit, Covered
<1> QED BY <1>1, <1>3, <1>4 DEF Covers

(* No step, of the handler within the increment either, makes the count    *)
(* too small.                                                              *)
LEMMA CoversStep == Covers /\ [ServerNext]_serverVars => Covers'
<1> SUFFICES ASSUME Covers, [ServerNext]_serverVars PROVE Covers'
  OBVIOUS
<1>1. ServerTypeOK /\ ServerTypeOK'
  BY ServerTypePreserved DEF Covers
<1>2. Cardinality(Outstanding) \in Nat /\ Cardinality(Outstanding) <= Covered
  BY OutstandingFinite DEF Covers
<1>3. CASE UNCHANGED serverVars
  <2>1. UNCHANGED childOf /\ Covered' = Covered
    BY <1>3 DEF serverVars, Covered
  <2> QED BY <1>1, <1>2, <2>1, SameServed DEF Covers
<1>4. ASSUME NEW c \in Client, AcceptAndFork(c) PROVE Covers'
  <2>1. Covered' = Covered + 1
    BY <1>1, <1>4 DEF AcceptAndFork, Covered, ServerTypeOK
  <2>2. Covered \in Nat
    BY <1>1 DEF Covered, ServerTypeOK
  <2> QED BY <1>1, <1>2, <1>4, <2>1, <2>2, AcceptedOneMore DEF Covers
<1>5. CASE ServerForkFails
  <2>1. UNCHANGED childOf /\ Covered' = Covered
    BY <1>5 DEF ServerForkFails, Covered
  <2> QED BY <1>1, <1>2, <2>1, SameServed DEF Covers
<1>6. CASE LoadCount
  <2>1. UNCHANGED childOf /\ Covered' = Covered
    BY <1>6 DEF LoadCount, Covered
  <2> QED BY <1>1, <1>2, <2>1, SameServed DEF Covers
<1>7. CASE StoreCount
  <2>1. UNCHANGED childOf /\ Covered' = Covered
    BY <1>7 DEF StoreCount, Covered
  <2> QED BY <1>1, <1>2, <2>1, SameServed DEF Covers
<1>8. CASE NothingToWaitFor \/ NoZombie \/ WaitPidFails
  <2>1. UNCHANGED <<childOf, childProcCount, loaded>>
    BY <1>8 DEF NothingToWaitFor, NoZombie, WaitPidFails, LeaveLoop
  <2>2. pc' = pc \/ (pc = "cleanup" /\ pc' = "accept")
          \/ (WaitPidFails /\ pc' = "failed")
    BY <1>8 DEF NothingToWaitFor, NoZombie, WaitPidFails, LeaveLoop
  <2>3. CASE WaitPidFails
    <3>1. Cardinality(Outstanding) = 0
      BY <2>3, FS_EmptySet DEF WaitPidFails
    <3>2. Covered' = childProcCount /\ childProcCount \in Nat
      BY <1>1, <2>3 DEF WaitPidFails, Covered, ServerTypeOK
    <3> QED BY <1>1, <2>1, <3>1, <3>2, SameServed DEF Covers
  <2>4. CASE ~WaitPidFails
    <3>1. Covered' = Covered
      BY <2>1, <2>2, <2>4 DEF Covered
    <3> QED BY <1>1, <1>2, <2>1, <3>1, SameServed DEF Covers
  <2> QED BY <2>3, <2>4
<1>9. ASSUME NEW c \in Client, CleanUp(c) PROVE Covers'
  <2>1. Covered' >= Covered - 1 /\ Covered \in Nat /\ Covered' \in Nat
    BY <1>1, <1>9 DEF CleanUp, Covered, ServerTypeOK
  <2> QED BY <1>1, <1>2, <1>9, <2>1, CleanedOneLess DEF Covers
<1>10. CASE Interrupted
  <2>1. UNCHANGED childOf /\ Covered' = Covered
    BY <1>10 DEF Interrupted, Covered
  <2> QED BY <1>1, <1>2, <2>1, SameServed DEF Covers
<1>11. ASSUME NEW c \in Client, ChildExits(c) PROVE Covers'
  <2>1. Covered' = Covered
    BY <1>11 DEF ChildExits, Covered
  <2> QED BY <1>1, <1>2, <1>11, <2>1, SameExit DEF Covers
<1> QED
  BY <1>3, <1>4, <1>5, <1>6, <1>7, <1>8, <1>9, <1>10, <1>11 DEF ServerNext, ServerMain, Loop

(* childProcCount is never too small where the server waits in accept(),   *)
(* in either program: the invariant covers the increment on its way.       *)
THEOREM NeverShort == ServerSpec => []CountNeverShort
<1>1. Covers => CountNeverShort
  BY DEF Covers, Covered, CountNeverShort
<1> QED BY <1>1, CoversInit, CoversStep, PTL DEF ServerSpec

(* When the loop gives the server back to accept() no zombie is left, in   *)
(* either program: it stops at a count that covers every child.            *)
THEOREM AllCleaned == ServerSpec => CleansAll
<1> DEFINE Clean == Cleaning /\ pc' = "accept" /\ ~handler' => Zombies' = {}
<1>1. Covers /\ [ServerNext]_serverVars => [Clean]_serverVars
  <2> SUFFICES ASSUME Covers, ServerNext, Cleaning, pc' = "accept", ~handler'
               PROVE  Zombies' = {}
    OBVIOUS
  <2>1. Zombies \subseteq Outstanding
    BY DEF Zombies, Outstanding, InState
  <2>2. CASE NothingToWaitFor
    <3>1. childProcCount = 0 /\ pc \in {"cleanup", "accept"} /\ UNCHANGED childOf
      BY <2>2 DEF NothingToWaitFor, LeaveLoop
    <3>2. Cardinality(Outstanding) <= 0
      BY <3>1 DEF Covers, Covered
    <3>3. Outstanding = {}
      BY <3>2, OutstandingFinite, FS_EmptySet
    <3> QED BY <2>1, <3>1, <3>3 DEF Zombies, InState
  <2>3. CASE NoZombie
    BY <2>3 DEF NoZombie, LeaveLoop, Zombies, InState
  <2>4. CASE ~NothingToWaitFor /\ ~NoZombie
    <3>1. CASE ServerMain
      <4>1. pc # "cleanup" /\ ~handler
        BY <3>1 DEF ServerMain, AcceptAndFork, ServerForkFails, LoadCount, StoreCount
      <4> QED BY <4>1 DEF Cleaning
    <3>2. CASE Loop
      BY <2>4, <3>2 DEF Loop, CleanUp, WaitPidFails, Cleaning
    <3>3. CASE Interrupted
      BY <3>3 DEF Interrupted
    <3>4. CASE \E c \in Client : ChildExits(c)
      BY <3>4 DEF ChildExits, Cleaning
    <3> QED BY <3>1, <3>2, <3>3, <3>4 DEF ServerNext
  <2> QED BY <2>2, <2>3, <2>4
<1> QED BY <1>1, CoversInit, CoversStep, PTL DEF ServerSpec, CleansAll

-----------------------------------------------------------------------------
(* Without a handler nothing comes between the load and the store, and     *)
(* what is covered is exactly what there is.                               *)
Exact ==
    /\ ServerTypeOK
    /\ version = "Fork"
    /\ ~handler /\ ~sigchld /\ pc # "failed"
    /\ pc = "store" => loaded = childProcCount
    /\ Cardinality(Outstanding) = Covered

(* In TCPEchoServer-Fork.c, where no handler runs, every step keeps the    *)
(* count exact.                                                            *)
LEMMA ExactStep == Exact /\ [ServerNext]_serverVars => Exact'
<1> SUFFICES ASSUME Exact, [ServerNext]_serverVars PROVE Exact'
  OBVIOUS
<1>0. version = "Fork" /\ version' = "Fork"
  BY SameVersion DEF Exact
<1>1. ServerTypeOK /\ ServerTypeOK' /\ ~handler /\ ~sigchld
  BY ServerTypePreserved DEF Exact
<1>2. Cardinality(Outstanding) = Covered /\ Covered \in Nat
  BY <1>1 DEF Exact, Covered, ServerTypeOK
<1>3. CASE UNCHANGED serverVars
  <2>1. UNCHANGED childOf /\ Covered' = Covered
    BY <1>3 DEF serverVars, Covered
  <2> QED BY <1>0, <1>1, <1>3, <2>1, SameServed DEF Exact, serverVars
<1>4. ASSUME NEW c \in Client, AcceptAndFork(c) PROVE Exact'
  <2>1. Covered' = Covered + 1
    BY <1>1, <1>4 DEF AcceptAndFork, Covered, ServerTypeOK
  <2>2. Cardinality(Outstanding)' = Covered'
    BY <1>1, <1>2, <1>4, <2>1, AcceptedOneMore
  <2> QED BY <1>0, <1>1, <1>4, <2>2 DEF Exact, AcceptAndFork
<1>5. CASE ServerForkFails
  <2>1. UNCHANGED childOf /\ Covered' = Covered
    BY <1>5 DEF ServerForkFails, Covered
  <2> QED BY <1>0, <1>1, <1>5, <2>1, SameServed DEF Exact, ServerForkFails
<1>6. CASE LoadCount
  <2>1. UNCHANGED childOf /\ Covered' = Covered
    BY <1>6 DEF LoadCount, Covered
  <2> QED BY <1>0, <1>1, <1>6, <2>1, SameServed DEF Exact, LoadCount
<1>7. CASE StoreCount
  <2>1. UNCHANGED childOf /\ Covered' = Covered
    BY <1>7 DEF StoreCount, Covered
  <2> QED BY <1>0, <1>1, <1>7, <2>1, SameServed DEF Exact, StoreCount
<1>8. CASE NothingToWaitFor \/ NoZombie
  <2>1. pc = "cleanup" /\ UNCHANGED <<childOf, childProcCount, loaded, sigchld>>
    BY <1>1, <1>8 DEF NothingToWaitFor, NoZombie, LeaveLoop, Cleaning
  <2>2. pc' = "accept" /\ ~handler'
    BY <1>8, <2>1 DEF NothingToWaitFor, NoZombie, LeaveLoop
  <2>3. Covered' = Covered
    BY <2>1, <2>2 DEF Covered
  <2> QED BY <1>0, <1>1, <2>1, <2>2, <2>3, SameServed DEF Exact
<1>9. ASSUME NEW c \in Client, CleanUp(c) PROVE Exact'
  <2>1. pc = "cleanup" /\ pc' = pc
    BY <1>1, <1>9 DEF CleanUp, Cleaning
  <2>2. Covered' = Covered - 1
    BY <1>9, <2>1 DEF CleanUp, Covered
  <2>3. Cardinality(Outstanding)' = Covered'
    BY <1>1, <1>2, <1>9, <2>2, CleanedOneLess
  <2> QED BY <1>0, <1>1, <1>9, <2>1, <2>3 DEF Exact, CleanUp
<1>10. CASE WaitPidFails
  <2>1. pc = "cleanup" /\ childProcCount > 0
    BY <1>1, <1>10 DEF WaitPidFails, Cleaning
  <2>2. Cardinality(Outstanding) = 0
    BY <1>10, FS_EmptySet DEF WaitPidFails
  <2>3. Cardinality(Outstanding) = childProcCount
    BY <1>2, <2>1 DEF Covered
  <2> QED BY <1>0, <1>1, <2>1, <2>2, <2>3 DEF ServerTypeOK
<1>11. CASE Interrupted
  BY <1>1, <1>11 DEF Interrupted
<1>12. ASSUME NEW c \in Client, ChildExits(c) PROVE Exact'
  <2>1. Covered' = Covered /\ ~sigchld'
    BY <1>0, <1>12 DEF ChildExits, Covered
  <2>2. Cardinality(Outstanding)' = Covered'
    BY <1>1, <1>2, <1>12, <2>1, SameExit
  <2> QED BY <1>0, <1>1, <1>12, <2>1, <2>2 DEF Exact, ChildExits
<1> QED
  BY <1>3, <1>4, <1>5, <1>6, <1>7, <1>8, <1>9, <1>10, <1>11, <1>12 DEF ServerNext, ServerMain, Loop

(* In the form that holds of both programs.                                *)
ForkExact == version = "Fork" => Exact

(* The count is exact at first.                                            *)
LEMMA ForkExactInit == ServerInit => ForkExact
<1> SUFFICES ASSUME ServerInit, version = "Fork" PROVE Exact
  BY DEF ForkExact
<1>1. ServerTypeOK
  BY VersionAssumption DEF ServerInit, ServerTypeOK
<1>2. Outstanding = {}
  BY DEF ServerInit, Outstanding, InState
<1>3. Cardinality(Outstanding) = 0
  BY <1>2, FS_EmptySet
<1>4. Covered = 0
  BY DEF ServerInit, Covered
<1> QED BY <1>1, <1>3, <1>4 DEF Exact, ServerInit

(* It stays exact if the program is TCPEchoServer-Fork.c.                  *)
LEMMA ForkExactStep == ForkExact /\ [ServerNext]_serverVars => ForkExact'
BY ExactStep, SameVersion DEF ForkExact

(* TCPEchoServer-Fork.c: childProcCount is the number of its children, so  *)
(* that waitpid() never fails and the server runs for ever unless fork()   *)
(* fails.                                                                  *)
THEOREM ForkCounts == ServerSpec => []CountSafe
<1>1. ForkExact => CountExact
  BY DEF ForkExact, Exact, Covered, CountExact
<1>2. ForkExact => WaitPidSucceeds
  BY DEF ForkExact, Exact, WaitPidSucceeds
<1>3. ForkExact => CountSafe
  BY <1>1, <1>2 DEF CountSafe
<1> QED BY <1>3, ForkExactInit, ForkExactStep, PTL DEF ServerSpec

(* The state has the types declared for it, in both programs.              *)
THEOREM ServerTypeCorrect == ServerSpec => []ServerTypeOK
<1>1. Covers => ServerTypeOK
  BY DEF Covers
<1> QED BY <1>1, CoversInit, CoversStep, PTL DEF ServerSpec

=============================================================================
