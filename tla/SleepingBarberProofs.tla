------------------------ MODULE SleepingBarberProofs ------------------------
(***************************************************************************)
(* Theorems about SleepingBarber: any number of customers and chairs, both *)
(* programs, with and without failing forks.                               *)
(***************************************************************************)
EXTENDS SleepingBarber, FiniteSetTheorems, TLAPS

(* Customers at some control points, and how many of them a move makes.    *)
At(X) == {c \in Customer : cust[c] \in X}
RoomPoint == {"chair", "postRoom"}
ChairPoint == {"postRoom", "postPillow", "belt", "postChair"}
Strapped == {"belt"}

(* The customers at a point are finitely many.                             *)
LEMMA AtFinite == ASSUME NEW X PROVE IsFiniteSet(At(X)) /\ Cardinality(At(X)) \in Nat
<1>1. IsFiniteSet(Customer)
  BY SizeAssumption, FS_Interval DEF Customer
<1> QED BY <1>1, FS_Subset, FS_CardinalityType DEF At

(* The same after a step.                                                  *)
LEMMA AtFiniteNext == ASSUME NEW X PROVE IsFiniteSet(At(X)') /\ Cardinality(At(X)') \in Nat
<1>1. IsFiniteSet(Customer)
  BY SizeAssumption, FS_Interval DEF Customer
<1> QED BY <1>1, FS_Subset, FS_CardinalityType DEF At

(* A customer who moves into a set of points, out of it, or within.        *)
LEMMA Counted ==
    ASSUME TypeOK, NEW c \in Customer, NEW from, NEW to, Moves(c, from, to), NEW X
    PROVE  /\ from \notin X /\ to \in X => Cardinality(At(X)') = Cardinality(At(X)) + 1
           /\ from \in X /\ to \notin X => Cardinality(At(X)') = Cardinality(At(X)) - 1
           /\ (from \in X <=> to \in X) => At(X)' = At(X)
<1>1. cust[c] = from /\ cust'[c] = to /\ \A d \in Customer : d # c => cust'[d] = cust[d]
  BY DEF Moves, TypeOK
<1>2. ASSUME from \notin X, to \in X PROVE Cardinality(At(X)') = Cardinality(At(X)) + 1
  <2>1. At(X)' = At(X) \cup {c} /\ c \notin At(X)
    BY <1>1, <1>2 DEF At
  <2> QED BY <2>1, AtFinite, FS_AddElement
<1>3. ASSUME from \in X, to \notin X PROVE Cardinality(At(X)') = Cardinality(At(X)) - 1
  <2>1. At(X)' = At(X) \ {c} /\ c \in At(X)
    BY <1>1, <1>3 DEF At
  <2> QED BY <2>1, AtFinite, FS_RemoveElement
<1>4. ASSUME from \in X <=> to \in X PROVE At(X)' = At(X)
  BY <1>1, <1>4 DEF At
<1> QED BY <1>2, <1>3, <1>4

(* The accounts, in these words.                                           *)
Busy == IF barber \in {"check", "cut"} THEN 1 ELSE 0
Seats == /\ room + Cardinality(At(RoomPoint)) = numChairs
         /\ chair + Cardinality(At(ChairPoint)) = 1
Wakes == barber # "none" /\ ~Waking => pillow + belt + Busy = Cardinality(At(Strapped))

(* The two accounts in terms of numbers of customers.                      *)
LEMMA Accounts == (SeatsAccounted <=> Seats) /\ (WakeUpsKept <=> Wakes)
<1>1. {c \in Customer : InRoom(c)} = At(RoomPoint)
  BY DEF At, InRoom, RoomPoint
<1>2. {c \in Customer : InChair(c)} = At(ChairPoint)
  BY DEF At, InChair, ChairPoint
<1>3. {c \in Customer : cust[c] = "belt"} = At(Strapped)
  BY DEF At, Strapped
<1>4. SeatsAccounted <=> Seats
  BY <1>1, <1>2 DEF SeatsAccounted, Seats
<1>5. WakeUpsKept <=> Wakes
  BY <1>3 DEF WakeUpsKept, Wakes, Busy
<1> QED BY <1>4, <1>5

(* The same after a step.                                                  *)
LEMMA AccountsNext == (SeatsAccounted' <=> Seats') /\ (WakeUpsKept' <=> Wakes')
<1>1. {c \in Customer : InRoom(c)}' = At(RoomPoint)'
  BY DEF At, InRoom, RoomPoint
<1>2. {c \in Customer : InChair(c)}' = At(ChairPoint)'
  BY DEF At, InChair, ChairPoint
<1>3. {c \in Customer : cust[c] = "belt"}' = At(Strapped)'
  BY DEF At, Strapped
<1>4. SeatsAccounted' <=> Seats'
  BY <1>1, <1>2 DEF SeatsAccounted, Seats
<1>5. WakeUpsKept' <=> Wakes'
  BY <1>3 DEF WakeUpsKept, Wakes, Busy
<1> QED BY <1>4, <1>5

(* Once everybody is absent, nobody is strapped.                           *)
LEMMA NobodyStrapped ==
    ASSUME Inv, main \in {"forkBarber", "stop1", "stop2", "waitBarber", "end"}
    PROVE  Cardinality(At(Strapped)) = 0
<1>1. \A c \in Customer : cust[c] \in {"none", "reaped"}
  <2> SUFFICES ASSUME NEW c \in Customer PROVE cust[c] \in {"none", "reaped"}
    OBVIOUS
  <2>1. CASE main = "forkBarber"
    <3>1. i = 0 /\ c >= 0
      BY <2>1, SizeAssumption DEF Inv, Attendance, Customer
    <3> QED BY <2>1, <3>1 DEF Inv, Attendance
  <2>2. CASE main # "forkBarber"
    BY <2>2 DEF Inv, Attendance, Absent
  <2> QED BY <2>1, <2>2
<1>2. At(Strapped) = {}
  BY <1>1 DEF At, Strapped
<1> QED BY <1>2, FS_EmptySet

-----------------------------------------------------------------------------
(* A move of a customer, forked or waited for by main() included.          *)
CustPoint == {"none", "room", "chair", "postRoom", "postPillow", "belt", "postChair", "zombie", "reaped"}

(* Only the customer who moves is elsewhere.                               *)
LEMMA TypeMoves ==
    ASSUME TypeOK, NEW c \in Customer, NEW from, NEW to \in CustPoint, Moves(c, from, to)
    PROVE  /\ cust' \in [Customer -> CustPoint] /\ cust[c] = from /\ cust'[c] = to
           /\ \A d \in Customer : d # c => cust'[d] = cust[d]
BY DEF TypeOK, CustPoint, Moves

(* Every step of a customer.                                               *)
LEMMA CustomerInv == ASSUME Inv, NEW c \in Customer, CustomerStep(c) PROVE Inv'
<1>1. TypeOK /\ Seats /\ Wakes /\ Attendance /\ Stopping
  BY Accounts DEF Inv
<1>2. /\ UNCHANGED <<barber, allDone, sigusr1, version, numCustomers, main, i, pid>>
      /\ cust[c] \notin {"none", "reaped"}
  BY DEF CustomerStep, EnterRoom, TakeChair, LeaveRoom, WakeBarber, HairCut, LeaveShop, Moves, mainvars
<1>3. PICK from \in CustPoint, to \in CustPoint : Moves(c, from, to) /\ to # "none"
  BY DEF CustomerStep, EnterRoom, TakeChair, LeaveRoom, WakeBarber, HairCut, LeaveShop, CustPoint
<1>4. /\ cust' \in [Customer -> CustPoint] /\ cust[c] = from /\ cust'[c] = to
      /\ \A d \in Customer : d # c => cust'[d] = cust[d]
  BY <1>1, <1>3, TypeMoves
<1>5. room \in Nat /\ chair \in Nat /\ pillow \in Nat /\ belt \in Nat /\ Busy' = Busy /\ (Waking' <=> Waking)
  BY <1>1, <1>2 DEF TypeOK, Busy, Waking
<1>6. /\ Cardinality(At(RoomPoint)) \in Nat /\ Cardinality(At(ChairPoint)) \in Nat
      /\ Cardinality(At(Strapped)) \in Nat /\ Busy \in {0, 1} /\ numChairs \in Nat
  BY AtFinite, SizeAssumption DEF Busy
<1>7. Attendance'
  <2>1. main \notin {"forkBarber", "stop1", "stop2", "waitBarber", "end"}
    <3> SUFFICES ASSUME main \in {"forkBarber", "stop1", "stop2", "waitBarber", "end"} PROVE FALSE
      OBVIOUS
    <3>1. CASE main = "forkBarber"
      <4>1. i = 0 /\ c >= 0
        BY <1>1, <3>1, SizeAssumption DEF Attendance, Customer
      <4> QED BY <1>1, <1>2, <3>1, <4>1 DEF Attendance
    <3>2. CASE main # "forkBarber"
      BY <1>1, <1>2, <3>2 DEF Attendance, Absent
    <3> QED BY <3>1, <3>2
  <2>2. \A d \in Customer : /\ pid[d] = None => cust[d] = "none"
                            /\ main = "fork" /\ d >= i => cust[d] = "none"
                            /\ d >= numCustomers => cust[d] = "none"
                            /\ main = "wait" /\ d < i => Absent(d)
    BY <1>1 DEF Attendance
  <2>3. \A d \in Customer : cust[d] = "none" => cust'[d] = "none"
    BY <1>2, <1>4
  <2>4. \A d \in Customer : Absent(d) => Absent(d)'
    BY <1>2, <1>4 DEF Absent
  <2> QED BY <1>2, <2>1, <2>2, <2>3, <2>4 DEF Attendance
<1>8. Stopping'
  BY <1>1, <1>2, <1>5 DEF Stopping
<1>9. ASSUME room' \in Nat, chair' \in Nat, pillow' \in Nat, belt' \in Nat, Seats', Wakes'
      PROVE  Inv'
  <2>1. TypeOK'
    BY <1>1, <1>2, <1>4, <1>9 DEF TypeOK, CustPoint
  <2> QED BY <1>7, <1>8, <1>9, <2>1, AccountsNext DEF Inv
<1>10. ASSUME /\ room' + Cardinality(At(RoomPoint)') = room + Cardinality(At(RoomPoint))
              /\ chair' + Cardinality(At(ChairPoint)') = chair + Cardinality(At(ChairPoint))
              /\ pillow' + belt' - Cardinality(At(Strapped)') = pillow + belt - Cardinality(At(Strapped)),
              room' \in Nat, chair' \in Nat, pillow' \in Nat, belt' \in Nat
       PROVE  Inv'
  <2>1. Seats'
    BY <1>1, <1>2, <1>10 DEF Seats
  <2>2. Wakes'
    <3> SUFFICES ASSUME barber # "none", ~Waking
                 PROVE  pillow' + belt' + Busy = Cardinality(At(Strapped)')
      BY <1>2, <1>5 DEF Wakes
    <3>1. pillow + belt + Busy = Cardinality(At(Strapped))
      BY <1>1 DEF Wakes
    <3>2. Cardinality(At(Strapped)') \in Nat
      BY AtFiniteNext
    <3>3. pillow' + belt' - Cardinality(At(Strapped)') = pillow + belt - Cardinality(At(Strapped))
      BY <1>10
    <3>4. pillow \in Nat /\ belt \in Nat /\ pillow' \in Nat /\ belt' \in Nat /\ Busy \in Nat
      BY <1>5, <1>6, <1>10
    <3>5. Cardinality(At(Strapped)) \in Nat
      BY <1>6
    <3> QED BY <3>1, <3>2, <3>3, <3>4, <3>5
  <2> QED BY <1>9, <1>10, <2>1, <2>2
<1>11. CASE EnterRoom(c)
  <2>1. Moves(c, "room", "chair") /\ room > 0 /\ room' = room - 1 /\ UNCHANGED <<chair, pillow, belt>>
    BY <1>11 DEF EnterRoom
  <2>2. /\ Cardinality(At(RoomPoint)') = Cardinality(At(RoomPoint)) + 1
        /\ At(ChairPoint)' = At(ChairPoint) /\ At(Strapped)' = At(Strapped)
    BY <1>1, <2>1, Counted DEF RoomPoint, ChairPoint, Strapped
  <2> QED BY <1>5, <1>6, <1>10, <2>1, <2>2
<1>12. CASE TakeChair(c)
  <2>1. Moves(c, "chair", "postRoom") /\ chair > 0 /\ chair' = chair - 1 /\ UNCHANGED <<room, pillow, belt>>
    BY <1>12 DEF TakeChair
  <2>2. /\ Cardinality(At(ChairPoint)') = Cardinality(At(ChairPoint)) + 1
        /\ At(RoomPoint)' = At(RoomPoint) /\ At(Strapped)' = At(Strapped)
    BY <1>1, <2>1, Counted DEF RoomPoint, ChairPoint, Strapped
  <2> QED BY <1>5, <1>6, <1>10, <2>1, <2>2
<1>13. CASE LeaveRoom(c)
  <2>1. Moves(c, "postRoom", "postPillow") /\ room' = room + 1 /\ UNCHANGED <<chair, pillow, belt>>
    BY <1>13 DEF LeaveRoom
  <2>2. /\ Cardinality(At(RoomPoint)') = Cardinality(At(RoomPoint)) - 1
        /\ At(ChairPoint)' = At(ChairPoint) /\ At(Strapped)' = At(Strapped)
    BY <1>1, <2>1, Counted DEF RoomPoint, ChairPoint, Strapped
  <2> QED BY <1>5, <1>6, <1>10, <2>1, <2>2
<1>14. CASE WakeBarber(c)
  <2>1. Moves(c, "postPillow", "belt") /\ pillow' = pillow + 1 /\ UNCHANGED <<room, chair, belt>>
    BY <1>14 DEF WakeBarber
  <2>2. /\ Cardinality(At(Strapped)') = Cardinality(At(Strapped)) + 1
        /\ At(ChairPoint)' = At(ChairPoint) /\ At(RoomPoint)' = At(RoomPoint)
    BY <1>1, <2>1, Counted DEF RoomPoint, ChairPoint, Strapped
  <2> QED BY <1>5, <1>6, <1>10, <2>1, <2>2
<1>15. CASE HairCut(c)
  <2>1. Moves(c, "belt", "postChair") /\ belt > 0 /\ belt' = belt - 1 /\ UNCHANGED <<room, chair, pillow>>
    BY <1>15 DEF HairCut
  <2>2. /\ Cardinality(At(Strapped)') = Cardinality(At(Strapped)) - 1
        /\ At(ChairPoint)' = At(ChairPoint) /\ At(RoomPoint)' = At(RoomPoint)
    BY <1>1, <2>1, Counted DEF RoomPoint, ChairPoint, Strapped
  <2> QED BY <1>5, <1>6, <1>10, <2>1, <2>2
<1>16. CASE LeaveShop(c)
  <2>1. Moves(c, "postChair", "zombie") /\ chair' = chair + 1 /\ UNCHANGED <<room, pillow, belt>>
    BY <1>16 DEF LeaveShop
  <2>2. /\ Cardinality(At(ChairPoint)') = Cardinality(At(ChairPoint)) - 1
        /\ At(Strapped)' = At(Strapped) /\ At(RoomPoint)' = At(RoomPoint)
    BY <1>1, <2>1, Counted DEF RoomPoint, ChairPoint, Strapped
  <2> QED BY <1>5, <1>6, <1>10, <2>1, <2>2
<1> QED BY <1>11, <1>12, <1>13, <1>14, <1>15, <1>16 DEF CustomerStep

-----------------------------------------------------------------------------
(* Steps that leave the customers where they are.                          *)
LEMMA CustomersStay ==
    ASSUME Inv, UNCHANGED <<room, chair, cust, version, numCustomers>>,
           pillow' \in Nat, belt' \in Nat,
           barber' \in {"none", "start", "loop", "pillow", "check", "cut", "zombie", "reaped"},
           allDone' \in BOOLEAN, sigusr1' \in BOOLEAN,
           main' \in {"forkBarber", "fork", "wait", "stop1", "stop2", "waitBarber", "end"},
           i' \in 0..numCustomers, pid' = pid,
           barber' # "none" /\ ~Waking' => pillow' + belt' + Busy' = Cardinality(At(Strapped)),
           Attendance', Stopping'
    PROVE  Inv'
<1>1. TypeOK'
  BY DEF Inv, TypeOK
<1>2. \A X : At(X)' = At(X)
  BY DEF At
<1>3. Seats'
  BY <1>2, Accounts DEF Inv, Seats
<1>4. Wakes'
  BY <1>2 DEF Wakes
<1> QED BY <1>1, <1>3, <1>4, AccountsNext DEF Inv

(* A step that moves no customer, nor main() in its loops.                 *)
LEMMA AttendanceStays ==
    ASSUME Inv, UNCHANGED <<cust, numCustomers, main, i, pid>>,
           main = "forkBarber" => UNCHANGED <<barber, pillow, belt>>
    PROVE  Attendance'
BY DEF Inv, Attendance, Absent

(* The barber, and the signal.                                             *)
LEMMA BarberInv == ASSUME Inv, BarberStep \/ Signalled PROVE Inv'
<1>1. /\ UNCHANGED <<room, chair, cust, version, numCustomers, main, i, pid>>
      /\ barber # "none"
  BY DEF BarberStep, Signalled, SetSigHandler, BarberLoop, BarberSleep, BarberCheck, BarberCuts,
         KilledAtStart, TheEnd, SleepInterrupted, mainvars, sems
<1>2. /\ TypeOK /\ Wakes /\ Stopping /\ pillow \in Nat /\ belt \in Nat /\ allDone \in BOOLEAN
      /\ sigusr1 \in BOOLEAN /\ i' \in 0..numCustomers
      /\ main' \in {"forkBarber", "fork", "wait", "stop1", "stop2", "waitBarber", "end"}
  BY <1>1, Accounts DEF Inv, TypeOK
<1>3. Attendance'
  <2>1. main # "forkBarber"
    BY <1>1 DEF Inv, Attendance
  <2> QED BY <1>1, <2>1, AttendanceStays
<1>4. (Waking' <=> Waking) /\ main # "end"
  <2>1. Waking' <=> Waking
    BY <1>1 DEF Waking
  <2>2. barber \notin {"none", "reaped"}
    BY <1>1 DEF BarberStep, Signalled, SetSigHandler, BarberLoop, BarberSleep, BarberCheck, BarberCuts,
         KilledAtStart, TheEnd, SleepInterrupted
  <2> QED BY <1>2, <2>1, <2>2 DEF Stopping
<1>5. Cardinality(At(Strapped)) \in Nat
  BY AtFinite
<1>6. ~Waking => pillow + belt + Busy = Cardinality(At(Strapped))
  BY <1>1, <1>2 DEF Wakes
<1>7. ASSUME pillow' \in Nat, belt' \in Nat,
             barber' \in {"start", "loop", "pillow", "check", "cut", "zombie"},
             allDone' \in BOOLEAN, sigusr1' \in BOOLEAN, allDone => allDone', sigusr1' => sigusr1,
             allDone' => allDone \/ sigusr1,
             ~Waking => pillow' + belt' + Busy' = pillow + belt + Busy,
             version = "V2" /\ Waking => barber' # "cut"
      PROVE  Inv'
  <2>1. Stopping'
    <3>1. allDone' \/ sigusr1' => main' \in {"stop2", "waitBarber", "end"}
      BY <1>1, <1>2, <1>7 DEF Stopping
    <3>2. sigusr1' => version' = "V1"
      BY <1>1, <1>2, <1>7 DEF Stopping
    <3>3. version' = "V2" /\ main' \in {"stop2", "waitBarber", "end"} => allDone'
      BY <1>1, <1>2, <1>7 DEF Stopping
    <3>4. version' = "V2" /\ Waking' => barber' # "cut"
      BY <1>1, <1>4, <1>7
    <3>5. main' # "end"
      BY <1>1, <1>4
    <3> QED BY <3>1, <3>2, <3>3, <3>4, <3>5 DEF Stopping
  <2>2. ~Waking' => pillow' + belt' + Busy' = Cardinality(At(Strapped))
    BY <1>4, <1>6, <1>7
  <2>3. UNCHANGED <<room, chair, cust, version, numCustomers>> /\ pid' = pid
    BY <1>1
  <2> QED BY <1>2, <1>3, <1>7, <2>1, <2>2, <2>3, CustomersStay
<1>8. ASSUME Waking, version = "V2" PROVE allDone
  BY <1>2, <1>8 DEF Waking, Stopping
<1>9. CASE SetSigHandler
  <2>1. barber' = "loop" /\ Busy' = Busy /\ UNCHANGED <<pillow, belt, allDone, sigusr1>>
    BY <1>9 DEF SetSigHandler, Busy, sems
  <2> QED BY <1>2, <1>7, <2>1
<1>10. CASE BarberLoop
  <2>1. barber' \in {"zombie", "pillow"} /\ Busy' = Busy /\ UNCHANGED <<pillow, belt, allDone, sigusr1>>
    BY <1>10 DEF BarberLoop, Busy, sems
  <2> QED BY <1>2, <1>7, <2>1
<1>11. CASE BarberSleep
  <2>1. /\ barber' = "check" /\ Busy' = 1 /\ Busy = 0 /\ pillow > 0 /\ pillow' = pillow - 1
        /\ UNCHANGED <<belt, allDone, sigusr1>>
    BY <1>11 DEF BarberSleep, Busy
  <2>2. pillow' \in Nat /\ pillow' + belt' + Busy' = pillow + belt + Busy
    BY <1>2, <2>1
  <2> QED BY <1>2, <1>7, <2>1, <2>2
<1>12. CASE BarberCheck
  <2>1. barber = "check" /\ Busy = 1 /\ UNCHANGED <<pillow, belt, allDone, sigusr1>>
    BY <1>12 DEF BarberCheck, Busy, sems
  <2>2. CASE allDone
    <3>1. barber' = "loop"
      BY <1>12, <2>2 DEF BarberCheck
    <3>2. Waking
      <4> SUFFICES ASSUME ~Waking PROVE FALSE
        OBVIOUS
      <4>1. Cardinality(At(Strapped)) = 0
        BY <1>2, <2>2, NobodyStrapped DEF Stopping
      <4> QED BY <1>2, <1>6, <2>1, <4>1
    <3> QED BY <1>2, <1>7, <2>1, <3>1, <3>2
  <2>3. CASE ~allDone
    <3>1. barber' = "cut" /\ Busy' = 1
      BY <1>12, <2>3 DEF BarberCheck, Busy
    <3> QED BY <1>2, <1>7, <1>8, <2>1, <2>3, <3>1
  <2> QED BY <2>2, <2>3
<1>13. CASE BarberCuts
  <2>1. /\ barber' = "loop" /\ Busy' = 0 /\ Busy = 1 /\ belt' = belt + 1
        /\ UNCHANGED <<pillow, allDone, sigusr1>>
    BY <1>13 DEF BarberCuts, Busy
  <2>2. belt' \in Nat /\ pillow' + belt' + Busy' = pillow + belt + Busy
    BY <1>2, <2>1
  <2> QED BY <1>2, <1>7, <2>1, <2>2
<1>14. CASE KilledAtStart
  <2>1. barber' = "zombie" /\ sigusr1 /\ ~sigusr1' /\ UNCHANGED <<pillow, belt, allDone>> /\ Busy' = Busy
    BY <1>14 DEF KilledAtStart, Busy, sems
  <2>2. sigusr1' \in BOOLEAN
    BY <1>14 DEF KilledAtStart
  <2> QED BY <1>2, <1>7, <2>1, <2>2
<1>15. CASE TheEnd
  <2>1. /\ barber' = barber /\ sigusr1 /\ ~sigusr1' /\ allDone' /\ UNCHANGED <<pillow, belt>> /\ Busy' = Busy
        /\ barber \in {"loop", "pillow", "check", "cut"}
    BY <1>15 DEF TheEnd, Busy, sems
  <2>2. sigusr1' \in BOOLEAN /\ allDone' \in BOOLEAN
    BY <1>15 DEF TheEnd
  <2>3. version # "V2"
    BY <1>2, <2>1 DEF Stopping
  <2> QED BY <1>2, <1>7, <2>1, <2>2, <2>3
<1>16. CASE SleepInterrupted
  <2>1. barber' = "check" /\ sigusr1 /\ ~sigusr1' /\ allDone' /\ UNCHANGED <<pillow, belt>>
    BY <1>16 DEF SleepInterrupted, sems
  <2>2. sigusr1' \in BOOLEAN /\ allDone' \in BOOLEAN
    BY <1>16 DEF SleepInterrupted
  <2>3. Waking
    BY <1>2, <2>1 DEF Stopping, Waking
  <2> QED BY <1>2, <1>7, <2>1, <2>2, <2>3
<1> QED BY <1>9, <1>10, <1>11, <1>12, <1>13, <1>14, <1>15, <1>16 DEF BarberStep, Signalled

-----------------------------------------------------------------------------
(* main().                                                                 *)
LEMMA StartCustomerInv == ASSUME Inv, StartCustomer PROVE Inv'
<1>1. /\ main = "fork" /\ main' = main /\ i < numCustomers /\ i' = i + 1
      /\ UNCHANGED <<room, chair, pillow, belt, barber, allDone, sigusr1, version, numCustomers>>
  BY DEF StartCustomer, sems
<1>2. TypeOK /\ i \in Nat /\ numCustomers \in Nat /\ numCustomers <= MAX_CUSTOMERS
  BY SizeAssumption DEF Inv, TypeOK
<1>3. i \in Customer /\ i' \in 0..numCustomers
  BY <1>1, <1>2, SizeAssumption DEF Customer
<1>4. cust[i] = "none"
  BY <1>1, <1>2, <1>3 DEF Inv, Attendance
<1>5. \/ cust' = [cust EXCEPT ![i] = "room"] /\ pid' = [pid EXCEPT ![i] = i]
      \/ UNCHANGED <<cust, pid>>
  BY DEF StartCustomer
<1>6. cust' \in [Customer -> CustPoint] /\ pid' \in [Customer -> Customer \cup {None}]
  BY <1>2, <1>3, <1>5 DEF TypeOK, CustPoint
<1>7. TypeOK'
  BY <1>1, <1>2, <1>3, <1>6 DEF TypeOK, CustPoint
<1>8. \A d \in Customer : d # i => cust'[d] = cust[d] /\ pid'[d] = pid[d]
  BY <1>2, <1>3, <1>5 DEF TypeOK
<1>9. At(RoomPoint)' = At(RoomPoint) /\ At(ChairPoint)' = At(ChairPoint) /\ At(Strapped)' = At(Strapped)
  <2>1. cust'[i] \in {"none", "room"}
    BY <1>2, <1>3, <1>4, <1>5 DEF TypeOK
  <2> QED BY <1>3, <1>4, <1>8, <2>1 DEF At, RoomPoint, ChairPoint, Strapped
<1>10. Seats' /\ Wakes'
  <2>1. Seats /\ Wakes
    BY Accounts DEF Inv
  <2> QED BY <1>1, <1>9, <2>1 DEF Seats, Wakes, Busy, Waking
<1>11. Attendance'
  <2>1. \A d \in Customer : d \in Int
    BY DEF Customer
  <2>2. ASSUME NEW d \in Customer
        PROVE  /\ pid'[d] = None => cust'[d] = "none"
               /\ d >= i + 1 => cust'[d] = "none"
               /\ d >= numCustomers => cust'[d] = "none"
    <3>1. CASE d = i
      <4>1. i # None /\ ~(i >= i + 1) /\ ~(i >= numCustomers)
        BY <1>1, <1>2 DEF None
      <4>2. pid'[i] = None => cust'[i] = "none"
        BY <1>2, <1>3, <1>4, <1>5, <4>1 DEF TypeOK
      <4> QED BY <3>1, <4>1, <4>2
    <3>2. CASE d # i
      <4>1. d >= i + 1 => d >= i
        BY <1>2, <2>1
      <4> QED BY <1>1, <1>8, <3>2, <4>1 DEF Inv, Attendance
    <3> QED BY <3>1, <3>2
  <2> QED BY <1>1, <2>2 DEF Attendance
<1>12. Stopping'
  BY <1>1 DEF Inv, Stopping, Waking
<1> QED BY <1>7, <1>10, <1>11, <1>12, AccountsNext DEF Inv

(* A zombie is reaped, the one of index i or, after a failed fork, any.    *)
LEMMA ReapInv ==
    ASSUME Inv, main = "wait", i < numCustomers, i' = i + 1,
           UNCHANGED <<sems, barber, allDone, sigusr1, version, numCustomers, main, pid>>,
           cust' = cust \/ \E c \in Customer : Moves(c, "zombie", "reaped"),
           i \in Customer => cust'[i] \in {"none", "reaped"}
    PROVE  Inv'
<1>1. TypeOK /\ i \in Nat /\ numCustomers \in Nat /\ numCustomers <= MAX_CUSTOMERS
  BY SizeAssumption DEF Inv, TypeOK
<1>2. i \in Customer /\ i' \in 0..numCustomers
  BY <1>1, SizeAssumption DEF Customer
<1>3. /\ cust' \in [Customer -> CustPoint]
      /\ \A d \in Customer : cust'[d] = cust[d] \/ (cust[d] = "zombie" /\ cust'[d] = "reaped")
  <2>1. CASE cust' = cust
    BY <1>1, <2>1 DEF TypeOK, CustPoint
  <2>2. ASSUME NEW c \in Customer, Moves(c, "zombie", "reaped")
        PROVE  /\ cust' \in [Customer -> CustPoint]
               /\ \A d \in Customer : cust'[d] = cust[d] \/ (cust[d] = "zombie" /\ cust'[d] = "reaped")
    BY <1>1, <2>2, TypeMoves DEF CustPoint
  <2> QED BY <2>1, <2>2
<1>4. TypeOK'
  BY <1>1, <1>2, <1>3 DEF TypeOK, CustPoint, sems
<1>5. At(RoomPoint)' = At(RoomPoint) /\ At(ChairPoint)' = At(ChairPoint) /\ At(Strapped)' = At(Strapped)
  BY <1>3 DEF At, RoomPoint, ChairPoint, Strapped
<1>6. Seats' /\ Wakes'
  <2>1. Seats /\ Wakes
    BY Accounts DEF Inv
  <2> QED BY <1>5, <2>1 DEF Seats, Wakes, Busy, Waking, sems
<1>7. Attendance'
  <2>1. \A d \in Customer : d \in Int
    BY DEF Customer
  <2>2. ASSUME NEW d \in Customer
        PROVE  /\ pid[d] = None => cust'[d] = "none"
               /\ d >= numCustomers => cust'[d] = "none"
               /\ d < i + 1 => cust'[d] \in {"none", "reaped"}
    <3>1. cust[d] = "none" => cust'[d] = "none"
      BY <1>3
    <3>2. cust[d] \in {"none", "reaped"} => cust'[d] \in {"none", "reaped"}
      BY <1>3
    <3>3. d < i + 1 => d = i \/ d < i
      BY <1>1, <2>1
    <3> QED BY <1>2, <3>1, <3>2, <3>3 DEF Inv, Attendance, Absent
  <2> QED BY <2>2 DEF Attendance, Absent
<1>8. Stopping'
  BY DEF Inv, Stopping, Waking
<1> QED BY <1>4, <1>6, <1>7, <1>8, AccountsNext DEF Inv

(* Every step of main().                                                   *)
LEMMA MainInv == ASSUME Inv, MainStep PROVE Inv'
<1>1. /\ TypeOK /\ Seats /\ Wakes /\ Attendance /\ Stopping
      /\ pillow \in Nat /\ belt \in Nat /\ allDone \in BOOLEAN /\ sigusr1 \in BOOLEAN
      /\ barber \in {"none", "start", "loop", "pillow", "check", "cut", "zombie", "reaped"}
      /\ i \in Nat /\ numCustomers \in Nat /\ i \in 0..numCustomers
      /\ version \in {"V1", "V2"} /\ \A c \in Customer : c \in Int
  BY Accounts, SizeAssumption DEF Inv, TypeOK, Customer
<1>2. Cardinality(At(Strapped)) \in Nat /\ Busy \in {0, 1}
  BY AtFinite DEF Busy
<1>3. CASE StartBarber
  <2>1. /\ main = "forkBarber" /\ main' = "fork" /\ barber' \in {"none", "start", "loop"}
        /\ UNCHANGED <<room, chair, pillow, belt, cust, allDone, sigusr1, version, numCustomers, i, pid>>
    BY <1>3 DEF StartBarber, sems
  <2>2. pillow = 0 /\ belt = 0 /\ i = 0 /\ Cardinality(At(Strapped)) = 0 /\ Busy' = 0
    BY <1>1, <2>1, NobodyStrapped DEF Attendance, Busy
  <2>3. Attendance'
    BY <1>1, <2>1 DEF Attendance
  <2>4. Stopping'
    BY <1>1, <2>1 DEF Stopping, Waking
  <2>5. pillow' + belt' + Busy' = Cardinality(At(Strapped))
    BY <2>1, <2>2
  <2> QED BY <1>1, <2>1, <2>3, <2>4, <2>5, CustomersStay
<1>4. CASE StartCustomer
  BY <1>4, StartCustomerInv
<1>5. CASE AllStarted
  <2>1. /\ main = "fork" /\ i = numCustomers /\ main' = "wait" /\ i' = 0
        /\ UNCHANGED <<room, chair, pillow, belt, cust, barber, allDone, sigusr1, version, numCustomers, pid>>
    BY <1>5 DEF AllStarted, sems
  <2>2. Attendance'
    <3>1. \A c \in Customer : ~(c < 0)
      BY SizeAssumption DEF Customer
    <3> QED BY <1>1, <2>1, <3>1 DEF Attendance
  <2>3. Stopping'
    BY <1>1, <2>1 DEF Stopping, Waking
  <2>4. Busy' = Busy /\ (Waking' <=> Waking) /\ i' \in 0..numCustomers
    BY <1>1, <2>1 DEF Busy, Waking
  <2>5. barber' # "none" /\ ~Waking' => pillow' + belt' + Busy' = Cardinality(At(Strapped))
    BY <1>1, <2>1, <2>4 DEF Wakes
  <2> QED BY <1>1, <2>1, <2>2, <2>3, <2>4, <2>5, CustomersStay
<1>6. CASE WaitCustomer
  <2>1. /\ main = "wait" /\ i < numCustomers /\ i' = i + 1 /\ cust[i] \in {"zombie", "reaped"}
        /\ cust' = [cust EXCEPT ![i] = "reaped"]
        /\ UNCHANGED <<sems, barber, allDone, sigusr1, version, numCustomers, main, pid>>
    BY <1>6 DEF WaitCustomer
  <2>2. i \in Customer
    BY <1>1, <2>1, SizeAssumption DEF Customer, TypeOK
  <2>3. cust'[i] = "reaped"
    BY <1>1, <2>1, <2>2 DEF TypeOK
  <2>4. cust' = cust \/ Moves(i, "zombie", "reaped")
    BY <1>1, <2>1, <2>2 DEF TypeOK, Moves
  <2> QED BY <2>1, <2>2, <2>3, <2>4, ReapInv
<1>7. CASE WaitAnyone
  <2>1. /\ main = "wait" /\ i < numCustomers /\ i' = i + 1 /\ pid[i] = None
        /\ (cust' = cust \/ \E c \in Customer : Moves(c, "zombie", "reaped"))
        /\ UNCHANGED <<sems, barber, allDone, sigusr1, version, numCustomers, main, pid>>
    BY <1>7 DEF WaitAnyone
  <2>2. i \in Customer
    BY <1>1, <2>1, SizeAssumption DEF Customer, TypeOK
  <2>3. cust[i] = "none"
    BY <1>1, <2>1, <2>2 DEF Attendance
  <2>4. cust'[i] = "none"
    BY <1>1, <2>1, <2>2, <2>3 DEF Moves, TypeOK
  <2> QED BY <2>1, <2>2, <2>4, ReapInv
<1>8. CASE AllWaited
  <2>1. /\ main = "wait" /\ i = numCustomers /\ main' = "stop1" /\ i' = i
        /\ UNCHANGED <<room, chair, pillow, belt, cust, barber, allDone, sigusr1, version, numCustomers, pid>>
    BY <1>8 DEF AllWaited, sems
  <2>2. Attendance'
    <3>1. \A c \in Customer : Absent(c)
      <4> SUFFICES ASSUME NEW c \in Customer PROVE Absent(c)
        OBVIOUS
      <4>1. c < i \/ c >= numCustomers
        BY <1>1, <2>1
      <4> QED BY <1>1, <2>1, <4>1 DEF Attendance, Absent
    <3> QED BY <1>1, <2>1, <3>1 DEF Attendance, Absent
  <2>3. Stopping'
    BY <1>1, <2>1 DEF Stopping, Waking
  <2>4. Busy' = Busy /\ (Waking' <=> Waking) /\ i' \in 0..numCustomers
    BY <1>1, <2>1 DEF Busy, Waking
  <2>5. barber' # "none" /\ ~Waking' => pillow' + belt' + Busy' = Cardinality(At(Strapped))
    BY <1>1, <2>1, <2>4 DEF Wakes
  <2> QED BY <1>1, <2>1, <2>2, <2>3, <2>4, <2>5, CustomersStay
<1>9. ASSUME main \in {"stop1", "stop2", "waitBarber"}, main' \in {"stop2", "waitBarber", "end"},
             UNCHANGED <<cust, numCustomers, i, pid>>
      PROVE  Attendance'
  BY <1>1, <1>9 DEF Attendance, Absent
<1>10. CASE StopBarberV1
  <2>1. /\ version = "V1" /\ main \in {"stop1", "stop2"} /\ main' \in {"stop2", "waitBarber"}
        /\ UNCHANGED <<room, chair, belt, cust, barber, allDone, version, numCustomers, i, pid>>
        /\ pillow' \in {pillow, pillow + 1}
    BY <1>10 DEF StopBarberV1, PostPillow, sems
  <2>2. sigusr1' \in BOOLEAN
    <3>1. sigusr1' = sigusr1 \/ sigusr1' = (barber \notin {"none", "zombie"})
      BY <1>10 DEF StopBarberV1
    <3> QED BY <1>1, <3>1
  <2>3. Waking' /\ pillow' \in Nat
    BY <1>1, <2>1 DEF Waking
  <2>4. Attendance'
    BY <1>9, <2>1
  <2>5. Stopping'
    BY <1>1, <2>1 DEF Stopping
  <2> QED BY <1>1, <2>1, <2>2, <2>3, <2>4, <2>5, CustomersStay
<1>11. CASE StopBarberV2
  <2>1. /\ version = "V2" /\ main \in {"stop1", "stop2"} /\ main' \in {"stop2", "waitBarber"}
        /\ UNCHANGED <<room, chair, belt, cust, barber, sigusr1, version, numCustomers, i, pid>>
        /\ (main = "stop1" <=> main' = "stop2")
        /\ main = "stop1" => allDone' = TRUE /\ pillow' = pillow
        /\ main = "stop2" => allDone' = allDone /\ pillow' = pillow + 1
    BY <1>11 DEF StopBarberV2, PostPillow, sems
  <2>2. Attendance'
    BY <1>9, <2>1
  <2>3. ~Waking /\ (Waking' <=> main = "stop2")
    BY <2>1 DEF Waking
  <2>4. barber # "cut"
    <3>1. barber = "cut" => Busy = 1 /\ pillow + belt + Busy = Cardinality(At(Strapped))
      BY <1>1, <2>3 DEF Wakes, Busy
    <3>2. Cardinality(At(Strapped)) = 0
      BY <2>1, NobodyStrapped
    <3> QED BY <1>1, <3>1, <3>2
  <2>5. allDone' = TRUE
    BY <1>1, <2>1 DEF Stopping, TypeOK
  <2>6. Stopping'
    BY <1>1, <2>1, <2>4, <2>5 DEF Stopping
  <2>7. barber' # "none" /\ ~Waking' => pillow' + belt' + Busy' = Cardinality(At(Strapped))
    BY <1>1, <2>1, <2>3 DEF Wakes, Busy
  <2>8. pillow' \in Nat /\ allDone' \in BOOLEAN /\ sigusr1' \in BOOLEAN /\ i' \in 0..numCustomers
    <3>1. pillow' \in Nat /\ i' \in 0..numCustomers
      BY <1>1, <2>1
    <3>2. allDone' \in BOOLEAN
      BY <2>5
    <3>3. sigusr1' \in BOOLEAN
      BY <1>1, <2>1
    <3> QED BY <3>1, <3>2, <3>3
  <2> QED BY <1>1, <2>1, <2>2, <2>6, <2>7, <2>8, CustomersStay
<1>12. CASE WaitBarber
  <2>1. /\ main = "waitBarber" /\ main' = "end" /\ barber \in {"zombie", "none"}
        /\ barber' \in {"reaped", "none"}
        /\ UNCHANGED <<room, chair, pillow, belt, cust, allDone, sigusr1, version, numCustomers, i, pid>>
    BY <1>12 DEF WaitBarber, sems
  <2>2. Attendance'
    BY <1>9, <2>1
  <2>3. Stopping'
    BY <1>1, <2>1 DEF Stopping
  <2>4. Waking'
    BY <1>1, <2>1 DEF Waking
  <2> QED BY <1>1, <2>1, <2>2, <2>3, <2>4, CustomersStay
<1> QED BY <1>3, <1>4, <1>5, <1>6, <1>7, <1>8, <1>10, <1>11, <1>12 DEF MainStep

-----------------------------------------------------------------------------
(* All chairs are free, and nobody has been forked.                        *)
LEMMA InitInv == ASSUME Init PROVE Inv
<1>1. /\ room = numChairs /\ chair = 1 /\ pillow = 0 /\ belt = 0 /\ main = "forkBarber" /\ i = 0
      /\ cust = [c \in Customer |-> "none"] /\ pid = [c \in Customer |-> None]
      /\ barber = "none" /\ version \in {"V1", "V2"} /\ numCustomers \in 0..MAX_CUSTOMERS
      /\ ~allDone /\ ~sigusr1 /\ allDone \in BOOLEAN /\ sigusr1 \in BOOLEAN
  BY VersionAssumption DEF Init
<1>2. TypeOK
  BY <1>1, SizeAssumption DEF TypeOK
<1>3. \A c \in Customer : cust[c] = "none"
  BY <1>1
<1>4. At(RoomPoint) = {} /\ At(ChairPoint) = {}
  BY <1>3 DEF At, RoomPoint, ChairPoint
<1>5. Seats
  BY <1>1, <1>4, SizeAssumption, FS_EmptySet DEF Seats
<1>6. Wakes
  BY <1>1 DEF Wakes
<1>7. Attendance
  BY <1>1, <1>3 DEF Attendance
<1>8. Stopping
  BY <1>1 DEF Stopping, Waking
<1> QED BY <1>2, <1>5, <1>6, <1>7, <1>8, Accounts DEF Inv

(* A step that changes nothing.                                            *)
LEMMA StutterInv == ASSUME Inv, UNCHANGED vars PROVE Inv'
<1>1. \A X : At(X)' = At(X)
  BY DEF At, vars
<1>2. Seats' /\ Wakes'
  <2>1. Seats /\ Wakes
    BY Accounts DEF Inv
  <2> QED BY <1>1, <2>1 DEF Seats, Wakes, Busy, Waking, vars, sems, mainvars
<1>3. TypeOK' /\ Attendance' /\ Stopping'
  BY DEF Inv, TypeOK, Attendance, Absent, Stopping, Waking, vars, sems, mainvars
<1> QED BY <1>2, <1>3, AccountsNext DEF Inv

(* The invariant.                                                          *)
THEOREM Invariance == Spec => []Inv
<1>1. Init => Inv
  BY InitInv
<1>2. Inv /\ [Next]_vars => Inv'
  BY CustomerInv, BarberInv, MainInv, StutterInv DEF Next
<1> QED BY <1>1, <1>2, PTL DEF Spec

(* ipcinit(), semwait(), sempost(): no seat and no wake-up is lost or made.*)
THEOREM Accounted == Spec => []SemaphoresAccounted
<1>1. Inv => SemaphoresAccounted
  BY DEF Inv, SemaphoresAccounted
<1> QED BY <1>1, Invariance, PTL

(* The second check of *allDone in barber() of V2: he cuts hair only when  *)
(* a customer waits for it.                                                *)
THEOREM CutsCustomers == Spec => []CutsOnlyCustomers
<1>1. Inv => CutsOnlyCustomers
  <2> SUFFICES ASSUME Inv, version = "V2", barber = "cut"
               PROVE  \E c \in Customer : cust[c] = "belt"
    BY DEF CutsOnlyCustomers
  <2>1. ~Waking
    BY DEF Inv, Stopping
  <2>2. pillow + belt + 1 = Cardinality(At(Strapped)) /\ pillow \in Nat /\ belt \in Nat
    BY <2>1, Accounts DEF Inv, TypeOK, Wakes, Busy
  <2>3. Cardinality(At(Strapped)) # 0
    BY <2>2
  <2>4. At(Strapped) # {}
    BY <2>3, FS_EmptySet
  <2> QED BY <2>4 DEF At, Strapped
<1> QED BY <1>1, Invariance, PTL

(* main(): waitpid() of everybody comes before ipcend().                   *)
THEOREM AllGone == Spec => []EverybodyGone
<1>1. Inv => EverybodyGone
  BY DEF Inv, Attendance, Absent, Stopping, EverybodyGone
<1> QED BY <1>1, Invariance, PTL

=============================================================================
