------------------------ MODULE BoundedBufferProofs -------------------------
(***************************************************************************)
(* Theorems about BoundedBuffer, for every size of the ring, every input   *)
(* and both programs, whatever semget(), shmat() and fork() return.        *)
(***************************************************************************)
EXTENDS BoundedBuffer, SequenceTheorems, TLAPS

(* Indices stay in the ring.                                               *)
LEMMA NextSlot == \A s \in Slot : (s + 1) % BUFSIZE \in Slot
BY SizeAssumption DEF Slot

(* Every step of producer, consumer, main() and SIGTERM keeps the types.   *)
LEMMA TypePreserved == TypeOK /\ [Next]_vars => TypeOK'
<1> SUFFICES ASSUME TypeOK, [Next]_vars PROVE TypeOK'
  OBVIOUS
<1> USE DEF ParentPC, ChildPC, setup, semvars, parentvars, childvars
<1>1. CASE UNCHANGED vars
  BY <1>1 DEF vars, TypeOK
<1>2. CASE InitSem
  BY <1>2, SizeAssumption DEF InitSem, TypeOK
<1>3. CASE GetSeg
  BY <1>3, FlagAssumption DEF GetSeg, TypeOK
<1>4. CASE Fork \/ ForkFails
  BY <1>4 DEF Fork, ForkFails, TypeOK
<1>5. CASE Kill
  BY <1>5 DEF Kill, TypeOK
<1>6. CASE WaitPid \/ IpcRemove
  BY <1>6 DEF WaitPid, IpcRemove, TypeOK
<1>7. CASE ReadChar
  <2>1. put + 1 \in 1..Len(Input)
    BY <1>7 DEF ReadChar, TypeOK
  <2>2. Input[put + 1] \in Char
    BY <2>1, CharAssumption DEF Char
  <2> QED BY <1>7, <2>2 DEF ReadChar, TypeOK
<1>8. CASE ReadEnds \/ ProducerP0
  BY <1>8 DEF ReadEnds, ProducerP0, TypeOK
<1>9. CASE ProducerPEmpty
  BY <1>9 DEF ProducerPEmpty, TypeOK
<1>10. CASE ProducerPMutex
  BY <1>10 DEF ProducerPMutex, TypeOK
<1>11. CASE ProducerPut
  <2>1. in' \in Slot /\ put' \in Nat
    BY <1>11, NextSlot DEF ProducerPut, TypeOK
  <2> QED BY <1>11, <2>1 DEF ProducerPut, TypeOK
<1>12. CASE ProducerVMutex \/ ProducerVFull
  BY <1>12 DEF ProducerVMutex, ProducerVFull, TypeOK
<1>13. CASE ConsumerPFull
  BY <1>13 DEF ConsumerPFull, TypeOK
<1>14. CASE ConsumerPMutex
  BY <1>14 DEF ConsumerPMutex, TypeOK
<1>15. CASE ConsumerGet
  <2>1. out' \in Slot /\ got' \in Nat /\ nextc' \in Char
    BY <1>15, NextSlot DEF ConsumerGet, TypeOK
  <2> QED BY <1>15, <2>1 DEF ConsumerGet, TypeOK
<1>16. CASE ConsumerVMutex \/ ConsumerVEmpty
  BY <1>16 DEF ConsumerVMutex, ConsumerVEmpty, TypeOK
<1>17. CASE ConsumerPrint
  <2>1. Upper[nextc] \in Char
    BY CharAssumption DEF TypeOK, Char
  <2> QED BY <1>17, <2>1 DEF ConsumerPrint, TypeOK
<1>18. CASE ConsumerKilled
  BY <1>18 DEF ConsumerKilled, TypeOK
<1> QED BY <1>1, <1>2, <1>3, <1>4, <1>5, <1>6, <1>7, <1>8, <1>9, <1>10,
           <1>11, <1>12, <1>13, <1>14, <1>15, <1>16, <1>17, <1>18
        DEF Next, Main, Producer, Consumer

-----------------------------------------------------------------------------
(* The inductive invariant.  While the semaphores are not initialised they *)
(* are zero and nobody gets past them; from then on every token is in its  *)
(* semaphore or with one of the two processes.  A parent killed by its own *)
(* store keeps the tokens it had, hence the inequalities at "exit".        *)
Idle == /\ full = 0 /\ empty = 0 /\ mutex = 0 /\ put = 0 /\ got = 0
        /\ pcC = "pFull"
        /\ pcP \notin {"pMutex", "put", "vMutex", "vFull"}

Balance ==
    /\ mutex + One(ParentIn) + One(ChildIn) <= 1
    /\ full = BUFSIZE + put - got - One(pcC \in {"pMutex", "get"})
                                  - One(pcP \in {"vMutex", "vFull"})
    /\ empty <= got - put - One(pcC \in {"vMutex", "vEmpty"})
                          - One(pcP \in {"pMutex", "put"})
    /\ pcP # "exit" =>
          /\ mutex + One(ParentIn) + One(ChildIn) = 1
          /\ empty = got - put - One(pcC \in {"vMutex", "vEmpty"})
                               - One(pcP \in {"pMutex", "put"})

Inv == TypeOK /\ (~Working => Idle) /\ (Working => Balance)

(* No semaphore is initialised at first, and nobody has moved.             *)
LEMMA InitInv == Init => Inv
<1> SUFFICES ASSUME Init PROVE Inv
  OBVIOUS
<1>1. TypeOK
  <2>1. NUL \in Char /\ 0 \in Slot
    BY NulAssumption, SizeAssumption DEF Char, Slot
  <2> QED BY <2>1, SemIdAssumption, FlagAssumption DEF Init, TypeOK, ParentPC, ChildPC
<1>2. ~Working /\ Idle
  BY DEF Init, Working, Idle
<1> QED BY <1>1, <1>2 DEF Inv

(* Once the semaphores are initialised they stay so.                       *)
LEMMA BalanceKept ==
    ASSUME TypeOK, TypeOK', Balance, Working, [Next]_vars
    PROVE  Working' /\ Balance'
<1> USE DEF setup, semvars, parentvars, childvars, ParentIn, ChildIn, One
<1>a. semid > 0 /\ pcP # "initsem"
  BY DEF Working
<1>b. full \in Nat /\ empty \in Nat /\ mutex \in Nat /\ put \in Nat /\ got \in Nat
  BY DEF TypeOK
<1>1. CASE UNCHANGED vars
  <2>1. UNCHANGED <<semid, pcP, pcC, full, empty, mutex, put, got>>
    BY <1>1 DEF vars
  <2> QED BY <2>1, <1>a DEF Balance, Working
<1>2. CASE Main
  <2>1. /\ UNCHANGED <<semid, pcC, full, empty, mutex, put, got>>
        /\ pcP \in {"getseg", "fork", "kill", "waitpid", "ipcremove"}
        /\ pcP' \in {"fork", "read", "exit", "waitpid", "ipcremove"}
    BY <1>2, <1>a DEF Main, InitSem, GetSeg, Fork, ForkFails, Kill, WaitPid, IpcRemove
  <2> QED BY <2>1, <1>a, <1>b DEF Balance, Working
<1>3. CASE ReadChar \/ ReadEnds \/ ProducerP0
  BY <1>3, <1>a, <1>b DEF ReadChar, ReadEnds, ProducerP0, Balance, Working
<1>4. CASE ProducerPEmpty
  BY <1>4, <1>a, <1>b DEF ProducerPEmpty, Balance, Working
<1>5. CASE ProducerPMutex
  BY <1>5, <1>a, <1>b DEF ProducerPMutex, Balance, Working
<1>6. CASE ProducerPut
  BY <1>6, <1>a, <1>b DEF ProducerPut, Balance, Working
<1>7. CASE ProducerVMutex
  BY <1>7, <1>a, <1>b DEF ProducerVMutex, Balance, Working
<1>8. CASE ProducerVFull
  BY <1>8, <1>a, <1>b, SizeAssumption DEF ProducerVFull, Balance, Working
<1>9. CASE ConsumerPFull
  BY <1>9, <1>a, <1>b, SizeAssumption DEF ConsumerPFull, Balance, Working
<1>10. CASE ConsumerPMutex
  BY <1>10, <1>a, <1>b DEF ConsumerPMutex, Balance, Working
<1>11. CASE ConsumerGet
  BY <1>11, <1>a, <1>b DEF ConsumerGet, Balance, Working
<1>12. CASE ConsumerVMutex
  BY <1>12, <1>a, <1>b DEF ConsumerVMutex, Balance, Working
<1>13. CASE ConsumerVEmpty
  BY <1>13, <1>a, <1>b DEF ConsumerVEmpty, Balance, Working
<1>14. CASE ConsumerPrint \/ ConsumerKilled
  BY <1>14, <1>a, <1>b DEF ConsumerPrint, ConsumerKilled, Balance, Working
<1> QED BY <1>1, <1>2, <1>3, <1>4, <1>5, <1>6, <1>7, <1>8, <1>9, <1>10,
           <1>11, <1>12, <1>13, <1>14
        DEF Next, Producer, Consumer

(* Before that nothing moves but the parent's way to them and to its end.  *)
LEMMA IdleKept ==
    ASSUME TypeOK, TypeOK', Idle, ~Working, [Next]_vars
    PROVE  (~Working' => Idle') /\ (Working' => Balance')
<1> USE DEF setup, semvars, parentvars, childvars
<1>1. CASE UNCHANGED vars
  BY <1>1 DEF vars, Working, Idle
<1>2. CASE InitSem
  <2>1. CASE semid > 0
    BY <1>2, <2>1, SizeAssumption
       DEF InitSem, Idle, Working, Balance, ParentIn, ChildIn, One
  <2>2. CASE ~(semid > 0)
    BY <1>2, <2>2 DEF InitSem, Idle, Working
  <2> QED BY <2>1, <2>2
<1>3. CASE GetSeg \/ Fork \/ ForkFails \/ Kill \/ WaitPid \/ IpcRemove
  BY <1>3 DEF GetSeg, Fork, ForkFails, Kill, WaitPid, IpcRemove, Idle, Working
<1>4. CASE Producer
  BY <1>4 DEF Producer, ReadChar, ReadEnds, ProducerPEmpty, ProducerPMutex, ProducerPut,
     ProducerVMutex, ProducerVFull, ProducerP0, Idle, Working
<1>5. CASE Consumer \/ ConsumerKilled
  BY <1>5 DEF Consumer, ConsumerPFull, ConsumerPMutex, ConsumerGet, ConsumerVMutex,
     ConsumerVEmpty, ConsumerPrint, ConsumerKilled, Idle, Working
<1> QED BY <1>1, <1>2, <1>3, <1>4, <1>5 DEF Next, Main

(* The invariant: processes that wait for semaphores of value 0 as long as *)
(* the set is not initialised, and the balance of tokens from initsem()    *)
(* on.                                                                     *)
THEOREM Invariance == Spec => []Inv
<1>1. Inv /\ [Next]_vars => Inv'
  <2> SUFFICES ASSUME Inv, [Next]_vars PROVE Inv'
    OBVIOUS
  <2>1. TypeOK /\ TypeOK'
    BY TypePreserved DEF Inv
  <2>2. CASE Working
    BY <2>1, <2>2, BalanceKept DEF Inv
  <2>3. CASE ~Working
    BY <2>1, <2>3, IdleKept DEF Inv
  <2> QED BY <2>2, <2>3
<1> QED BY <1>1, InitInv, PTL DEF Spec

(* The types of the program's state.                                       *)
THEOREM TypeCorrect == Spec => []TypeOK
BY Invariance, PTL DEF Inv

(* The ring is never touched by both processes at once.                    *)
LEMMA Exclusion == Inv => MutualExclusion
BY DEF Inv, TypeOK, Idle, Balance, MutualExclusion, ParentIn, ChildIn, One

(* No token of the three semaphores is lost or made.                       *)
LEMMA TokensConserved == Inv => Tokens
BY DEF Inv, Balance, Tokens

(* The producer never overwrites a character that has not been got, and    *)
(* the consumer never gets a slot twice, for every size of the ring.       *)
LEMMA NoOverrunEver == Inv => NoOverrun
<1> SUFFICES ASSUME Inv PROVE NoOverrun
  OBVIOUS
<1>1. CASE Working
  BY <1>1, SizeAssumption DEF Inv, TypeOK, Balance, NoOverrun, One
<1>2. CASE ~Working
  BY <1>2, SizeAssumption DEF Inv, Idle, NoOverrun
<1> QED BY <1>1, <1>2

(* The three semaphores guard the ring: one process at a time, tokens in   *)
(* balance, and producer and consumer never more than a lap apart.         *)
THEOREM Guarded == Spec => []RingGuarded
<1>1. Inv => RingGuarded
  BY Exclusion, TokensConserved, NoOverrunEver DEF RingGuarded
<1> QED BY <1>1, Invariance, PTL

-----------------------------------------------------------------------------
(* Remainders by BUFSIZE, which the provers know little of.                *)
LEMMA Distributes ==
    ASSUME NEW x \in Int, NEW y \in Int, NEW z \in Int
    PROVE  /\ x * (y - z) = x * y - x * z /\ x * (y + z) = x * y + x * z
           /\ x * y \in Int /\ x * z \in Int
OBVIOUS

(* The only multiple of BUFSIZE less than a lap from 0 is 0.               *)
LEMMA Multiple ==
    ASSUME NEW q \in Int, NEW x \in Int, x = BUFSIZE * q, x < BUFSIZE, -BUFSIZE < x
    PROVE  q = 0
<1>1. BUFSIZE \in Nat /\ BUFSIZE >= 1
  BY SizeAssumption
<1>2. q >= 1 => BUFSIZE * q >= BUFSIZE
  BY <1>1
<1>3. q <= -1 => BUFSIZE * q <= -BUFSIZE
  BY <1>1
<1> QED BY <1>1, <1>2, <1>3

(* Quotient and remainder.                                                 *)
LEMMA Division ==
    ASSUME NEW a \in Nat
    PROVE  a % BUFSIZE \in Slot /\ \E q \in Int : a = BUFSIZE * q + (a % BUFSIZE)
<1>1. BUFSIZE \in Nat /\ BUFSIZE >= 1
  BY SizeAssumption
<1>2. a = BUFSIZE * (a \div BUFSIZE) + (a % BUFSIZE) /\ a \div BUFSIZE \in Int
  BY <1>1
<1>3. a % BUFSIZE \in Slot
  BY <1>1 DEF Slot
<1> QED BY <1>2, <1>3

(* The remainder is the only slot a whole number of laps away.             *)
LEMMA Remainder ==
    ASSUME NEW a \in Nat, NEW q \in Int, NEW r \in Slot, a = BUFSIZE * q + r
    PROVE  a % BUFSIZE = r
<1>1. BUFSIZE \in Nat /\ BUFSIZE >= 1 /\ r \in Nat /\ r < BUFSIZE
  BY SizeAssumption DEF Slot
<1>2. PICK p \in Int : a = BUFSIZE * p + (a % BUFSIZE)
  BY Division
<1>3. a % BUFSIZE \in Nat /\ a % BUFSIZE < BUFSIZE
  BY <1>1, Division DEF Slot
<1>4. BUFSIZE * (p - q) = r - (a % BUFSIZE)
  <2>1. BUFSIZE * (p - q) = BUFSIZE * p - BUFSIZE * q /\ BUFSIZE * p \in Int /\ BUFSIZE * q \in Int
    BY <1>1, Distributes
  <2> DEFINE m == a % BUFSIZE
             x == BUFSIZE * p
             y == BUFSIZE * q
  <2>2. a = x + m /\ a = y + r /\ m \in Nat /\ r \in Nat /\ x \in Int /\ y \in Int
    BY <1>1, <1>2, <1>3, <2>1
  <2> HIDE DEF m, x, y
  <2>3. x - y = r - m
    BY <2>2
  <2> QED BY <2>1, <2>3 DEF m, x, y
<1>5. p - q = 0
  BY <1>1, <1>3, <1>4, Multiple
<1>6. BUFSIZE * (p - q) = 0
  BY <1>1, <1>5
<1> QED BY <1>1, <1>3, <1>4, <1>6

(* in = (in + 1) % BUFSIZE counts modulo BUFSIZE.                          *)
LEMMA NextIndex == ASSUME NEW a \in Nat PROVE (a + 1) % BUFSIZE = ((a % BUFSIZE) + 1) % BUFSIZE
<1>1. BUFSIZE \in Nat /\ BUFSIZE >= 1
  BY SizeAssumption
<1>2. PICK q \in Int : a = BUFSIZE * q + (a % BUFSIZE)
  BY Division
<1>3. a % BUFSIZE \in Nat /\ a % BUFSIZE < BUFSIZE
  BY <1>1, Division DEF Slot
<1> DEFINE r == a % BUFSIZE
<1>4. CASE r + 1 < BUFSIZE
  <2>1. r + 1 \in Slot /\ a + 1 = BUFSIZE * q + (r + 1) /\ r + 1 = BUFSIZE * 0 + (r + 1)
    BY <1>1, <1>2, <1>3, <1>4 DEF Slot
  <2>2. (a + 1) % BUFSIZE = r + 1
    BY <2>1, Remainder
  <2>3. r + 1 \in Nat
    BY <1>3
  <2>4. (r + 1) % BUFSIZE = r + 1
    BY <2>1, <2>3, Remainder
  <2> QED BY <2>2, <2>4
<1>5. CASE r + 1 = BUFSIZE
  <2>1. BUFSIZE * (q + 1) = BUFSIZE * q + BUFSIZE * 1 /\ BUFSIZE * 1 = BUFSIZE /\ BUFSIZE * q \in Int
    BY <1>1, Distributes
  <2>2. 0 \in Slot /\ a + 1 = BUFSIZE * (q + 1) + 0 /\ r + 1 = BUFSIZE * 1 + 0
    <3> DEFINE x == BUFSIZE * q
    <3>1. x \in Int /\ r \in Nat /\ a = x + r /\ r + 1 = BUFSIZE /\ BUFSIZE * (q + 1) = x + BUFSIZE
      BY <1>1, <1>2, <1>3, <1>5, <2>1
    <3>2. 0 \in Slot
      BY <1>1 DEF Slot
    <3> HIDE DEF r, x
    <3>3. a + 1 = x + BUFSIZE
      BY <1>1, <3>1
    <3> QED BY <2>1, <3>1, <3>2, <3>3
  <2>3. (a + 1) % BUFSIZE = 0
    <3>1. q + 1 \in Int /\ a + 1 \in Nat
      OBVIOUS
    <3> QED BY <2>2, <3>1, Remainder
  <2>4. r + 1 \in Nat
    BY <1>3
  <2>5. (r + 1) % BUFSIZE = 0
    BY <2>2, <2>4, Remainder
  <2> QED BY <2>3, <2>5
<1> QED BY <1>1, <1>3, <1>4, <1>5

(* A character a lap later goes to the same slot.                          *)
LEMMA Lap == ASSUME NEW a \in Nat PROVE (a + BUFSIZE) % BUFSIZE = a % BUFSIZE
<1>1. BUFSIZE \in Nat /\ BUFSIZE >= 1
  BY SizeAssumption
<1>2. PICK q \in Int : a = BUFSIZE * q + (a % BUFSIZE)
  BY Division
<1>3. a % BUFSIZE \in Slot /\ a % BUFSIZE \in Nat
  BY <1>1, Division DEF Slot
<1>4. a + BUFSIZE = BUFSIZE * (q + 1) + (a % BUFSIZE) /\ a + BUFSIZE \in Nat /\ q + 1 \in Int
  BY <1>1, <1>2, <1>3
<1> QED BY <1>3, <1>4, Remainder

(* Characters less than a lap apart are in different slots.                *)
LEMMA Apart ==
    ASSUME NEW a \in Nat, NEW b \in Nat, a < b, b < a + BUFSIZE
    PROVE  a % BUFSIZE # b % BUFSIZE
<1> SUFFICES ASSUME a % BUFSIZE = b % BUFSIZE PROVE FALSE
  OBVIOUS
<1>1. BUFSIZE \in Nat /\ BUFSIZE >= 1
  BY SizeAssumption
<1>2. PICK p \in Int : a = BUFSIZE * p + (a % BUFSIZE)
  BY Division
<1>3. PICK q \in Int : b = BUFSIZE * q + (a % BUFSIZE)
  BY Division
<1>4. a % BUFSIZE \in Nat
  BY <1>1, Division DEF Slot
<1>5. BUFSIZE * (q - p) = b - a
  BY <1>1, <1>2, <1>3, <1>4
<1>6. q - p = 0
  BY <1>1, <1>5, Multiple
<1>7. BUFSIZE * (q - p) = 0
  BY <1>1, <1>6
<1> QED BY <1>5, <1>7

-----------------------------------------------------------------------------
(* What the ring holds: the k-th character counted from 0, the NULs of the *)
(* start included, is in slot k % BUFSIZE from its put to its get.         *)
Source == [k \in 0..(BUFSIZE + Len(Input) - 1) |-> IF k < BUFSIZE THEN NUL ELSE Input[k - BUFSIZE + 1]]
Ring ==
    /\ in = put % BUFSIZE /\ out = got % BUFSIZE
    /\ put <= Len(Input)
    /\ pcP \in {"pEmpty", "pMutex", "put"} => put < Len(Input) /\ nextp = Input[put + 1]
    /\ \A k \in got..(put + BUFSIZE - 1) : buffer[k % BUFSIZE] = Source[k]

(* Once the parent of prodconsumer2.c has passed p0(FULL), FULL stays zero. *)
Drained == (drain /\ Working /\ pcP \in {"kill", "waitpid", "ipcremove"}) => full = 0

(* What was printed, and what the child has in hand.                       *)
Shown ==
    /\ Len(printed) = got - One(InHand)
    /\ InHand => nextc = Source[got - 1]
    /\ \A j \in 1..Len(printed) : printed[j] = Stream[j]

Flow == Inv /\ Ring /\ Shown /\ Drained

(* What a state has to do with numbers, in one place.                      *)
LEMMA Numbers ==
    ASSUME Inv
    PROVE  /\ put \in Nat /\ got \in Nat /\ BUFSIZE \in Nat /\ BUFSIZE >= 1 /\ Len(Input) \in Nat
           /\ put <= got /\ got <= put + BUFSIZE
           /\ pcP = "put" => put < got
           /\ pcC = "get" => got < put + BUFSIZE
<1>1. put \in Nat /\ got \in Nat
  BY DEF Inv, TypeOK
<1>2. NoOverrun
  BY NoOverrunEver
<1>3. Len(Input) \in Nat
  BY CharAssumption
<1> QED BY <1>1, <1>2, <1>3, SizeAssumption DEF NoOverrun

(* A put fills the slot of a character that has been got; nothing else     *)
(* writes.                                                                 *)
LEMMA RingKept == ASSUME Inv, Ring, [Next]_vars PROVE Ring'
<1> USE DEF setup, semvars, parentvars, childvars
<1>1. /\ put \in Nat /\ got \in Nat /\ BUFSIZE \in Nat /\ BUFSIZE >= 1 /\ Len(Input) \in Nat
      /\ put <= got /\ got <= put + BUFSIZE
  BY Numbers
<1>2. ASSUME UNCHANGED <<in, out, put, got, buffer, nextp>>,
             pcP' \in {"pEmpty", "pMutex", "put"} => pcP \in {"pEmpty", "pMutex", "put"}
      PROVE  Ring'
  BY <1>2 DEF Ring
<1>3. CASE UNCHANGED vars
  BY <1>2, <1>3 DEF vars
<1>4. CASE Main
  BY <1>2, <1>4 DEF Main, InitSem, GetSeg, Fork, ForkFails, Kill, WaitPid, IpcRemove
<1>5. CASE ReadEnds \/ ProducerPEmpty \/ ProducerPMutex \/ ProducerVMutex \/ ProducerVFull \/ ProducerP0
  BY <1>2, <1>5 DEF ReadEnds, ProducerPEmpty, ProducerPMutex, ProducerVMutex, ProducerVFull, ProducerP0
<1>6. CASE ConsumerPFull \/ ConsumerPMutex \/ ConsumerVMutex \/ ConsumerVEmpty \/ ConsumerPrint
           \/ ConsumerKilled
  BY <1>2, <1>6 DEF ConsumerPFull, ConsumerPMutex, ConsumerVMutex, ConsumerVEmpty, ConsumerPrint,
     ConsumerKilled
<1>7. CASE ReadChar
  BY <1>7 DEF ReadChar, Ring
<1>8. CASE ProducerPut
  <2>1. CASE attached
    <3>1. /\ pcP = "put" /\ buffer' = [buffer EXCEPT ![in] = nextp] /\ in' = (in + 1) % BUFSIZE
          /\ put' = put + 1 /\ pcP' = "vMutex" /\ UNCHANGED <<out, got, nextp>>
      BY <1>8, <2>1 DEF ProducerPut
    <3>2. put < got /\ put < Len(Input) /\ nextp = Input[put + 1]
      BY <3>1, Numbers DEF Ring
    <3>3. in' = put' % BUFSIZE
      BY <1>1, <3>1, NextIndex DEF Ring
    <3>4. ASSUME NEW k \in got..(put + BUFSIZE) PROVE buffer'[k % BUFSIZE] = Source[k]
      <4>1. k \in Nat /\ k >= got /\ k <= put + BUFSIZE
        BY <1>1
      <4>2. k % BUFSIZE \in Slot /\ buffer \in [Slot -> Char]
        BY <4>1, Division DEF Inv, TypeOK
      <4>3. in = (put + BUFSIZE) % BUFSIZE
        BY <1>1, Lap DEF Ring
      <4>4. CASE k = put + BUFSIZE
        <5>1. buffer'[k % BUFSIZE] = Input[put + 1]
          BY <3>1, <3>2, <4>2, <4>3, <4>4
        <5>2. k \in 0..(BUFSIZE + Len(Input) - 1) /\ ~(k < BUFSIZE) /\ k - BUFSIZE + 1 = put + 1
          BY <1>1, <3>2, <4>4
        <5> QED BY <5>1, <5>2 DEF Source
      <4>5. CASE k < put + BUFSIZE
        <5>1. put + BUFSIZE \in Nat /\ put + BUFSIZE < k + BUFSIZE
          BY <1>1, <3>2, <4>1
        <5>2. k % BUFSIZE # in
          BY <4>1, <4>3, <4>5, <5>1, Apart
        <5>3. k \in got..(put + BUFSIZE - 1)
          BY <1>1, <4>1, <4>5
        <5> QED BY <3>1, <4>2, <5>2, <5>3 DEF Ring
      <4> QED BY <1>1, <4>1, <4>4, <4>5
    <3>5. got..(put' + BUFSIZE - 1) = got..(put + BUFSIZE) /\ put' <= Len(Input)
      BY <1>1, <3>1, <3>2
    <3> QED BY <3>1, <3>3, <3>4, <3>5 DEF Ring
  <2>2. CASE ~attached
    BY <1>2, <1>8, <2>2 DEF ProducerPut
  <2> QED BY <2>1, <2>2
<1>9. CASE ConsumerGet
  <2>1. CASE attached
    <3>1. out' = (out + 1) % BUFSIZE /\ got' = got + 1 /\ UNCHANGED <<in, put, buffer, nextp, pcP>>
      BY <1>9, <2>1 DEF ConsumerGet
    <3>2. out' = got' % BUFSIZE
      BY <1>1, <3>1, NextIndex DEF Ring
    <3>3. \A k \in got'..(put + BUFSIZE - 1) : k \in got..(put + BUFSIZE - 1)
      BY <1>1, <3>1
    <3> QED BY <3>1, <3>2, <3>3 DEF Ring
  <2>2. CASE ~attached
    BY <1>2, <1>9, <2>2 DEF ConsumerGet
  <2> QED BY <2>1, <2>2
<1> QED BY <1>3, <1>4, <1>5, <1>6, <1>7, <1>8, <1>9 DEF Next, Producer, Consumer

(* The child prints what it has in hand, which is the character after the  *)
(* last.                                                                   *)
LEMMA ShownKept == ASSUME Inv, Ring, Shown, [Next]_vars PROVE Shown'
<1> USE DEF setup, semvars, parentvars, childvars
<1>1. /\ put \in Nat /\ got \in Nat /\ BUFSIZE \in Nat /\ BUFSIZE >= 1 /\ Len(Input) \in Nat
      /\ put <= got /\ got <= put + BUFSIZE /\ put <= Len(Input) /\ printed \in Seq(Char)
  BY Numbers DEF Inv, TypeOK, Ring
<1>2. ASSUME UNCHANGED <<printed, got, nextc>>, InHand' <=> InHand PROVE Shown'
  BY <1>2 DEF Shown, One
<1>3. CASE UNCHANGED vars
  BY <1>2, <1>3 DEF vars, InHand
<1>4. CASE Main
  BY <1>2, <1>4 DEF Main, InitSem, GetSeg, Fork, ForkFails, Kill, WaitPid, IpcRemove, InHand
<1>5. CASE Producer
  BY <1>2, <1>5 DEF Producer, ReadChar, ReadEnds, ProducerPEmpty, ProducerPMutex, ProducerPut,
     ProducerVMutex, ProducerVFull, ProducerP0, InHand
<1>6. CASE ConsumerPFull \/ ConsumerPMutex \/ ConsumerVMutex \/ ConsumerVEmpty \/ ConsumerKilled
  BY <1>2, <1>6 DEF ConsumerPFull, ConsumerPMutex, ConsumerVMutex, ConsumerVEmpty, ConsumerKilled, InHand
<1>7. CASE ConsumerGet
  <2>1. CASE attached
    <3>1. /\ pcC = "get" /\ pcC' = "vMutex" /\ nextc' = buffer[out] /\ got' = got + 1
          /\ printed' = printed
      BY <1>7, <2>1 DEF ConsumerGet
    <3>2. ~InHand /\ InHand' /\ Len(printed) = got
      BY <1>1, <3>1 DEF InHand, Shown, One
    <3>3. got \in got..(put + BUFSIZE - 1)
      BY <1>1, <3>1, Numbers
    <3>4. nextc' = Source[got] /\ got' - 1 = got
      BY <1>1, <3>1, <3>3 DEF Ring
    <3>5. Len(printed') = got' - One(InHand)'
      BY <1>1, <3>1, <3>2 DEF One
    <3> QED BY <3>1, <3>4, <3>5 DEF Shown
  <2>2. CASE ~attached
    BY <1>2, <1>7, <2>2 DEF ConsumerGet, InHand
  <2> QED BY <2>1, <2>2
<1>8. CASE ConsumerPrint
  <2>1. /\ pcC = "print" /\ pcC' = "pFull" /\ printed' = Append(printed, Upper[nextc])
        /\ UNCHANGED <<got, nextc>>
    BY <1>8 DEF ConsumerPrint
  <2>2. InHand /\ ~InHand' /\ Len(printed) = got - 1 /\ nextc = Source[got - 1]
    BY <2>1 DEF InHand, Shown, One
  <2>3. Upper[nextc] \in Char
    BY CharAssumption DEF Inv, TypeOK, Char
  <2>4. /\ Len(printed') = got /\ printed'[got] = Upper[nextc]
        /\ \A j \in 1..Len(printed) : printed'[j] = printed[j]
    BY <1>1, <2>1, <2>2, <2>3
  <2>5. got - 1 \in 0..(BUFSIZE + Len(Input) - 1) /\ got \in 1..(BUFSIZE + Len(Input))
    <3>1. Len(printed) \in Nat
      BY <1>1
    <3> QED BY <1>1, <2>2, <3>1
  <2>6. Upper[nextc] = Stream[got]
    <3>1. CASE got <= BUFSIZE
      <4>1. nextc = NUL /\ Stream[got] = NUL
        BY <1>1, <2>2, <2>5, <3>1 DEF Source, Stream
      <4> QED BY <4>1, NulAssumption
    <3>2. CASE ~(got <= BUFSIZE)
      <4>1. got - 1 - BUFSIZE + 1 = got - BUFSIZE /\ ~(got - 1 < BUFSIZE)
        BY <1>1, <3>2
      <4>2. nextc = Input[got - BUFSIZE]
        BY <2>2, <2>5, <4>1 DEF Source
      <4>3. Stream[got] = Upper[Input[got - BUFSIZE]]
        BY <2>5, <3>2 DEF Stream
      <4> QED BY <4>2, <4>3
    <3> QED BY <3>1, <3>2
  <2>7. \A j \in 1..Len(printed') : j = got \/ j \in 1..Len(printed)
    BY <1>1, <2>2, <2>4
  <2>8. \A j \in 1..Len(printed') : printed'[j] = Stream[j]
    BY <2>4, <2>6, <2>7 DEF Shown
  <2>9. Len(printed') = got' - One(InHand)'
    BY <1>1, <2>1, <2>2, <2>4 DEF One
  <2> QED BY <2>2, <2>8, <2>9 DEF Shown
<1> QED BY <1>3, <1>4, <1>5, <1>6, <1>7, <1>8 DEF Next, Consumer

(* The parent of prodconsumer2.c passes p0(FULL) when FULL is zero; from   *)
(* then on it puts nothing, and the child only takes.                      *)
LEMMA DrainedKept == ASSUME Inv, Drained, [Next]_vars PROVE Drained'
<1> USE DEF setup, semvars, parentvars, childvars
<1>1. CASE UNCHANGED vars
  BY <1>1 DEF vars, Drained, Working
<1>2. CASE InitSem \/ GetSeg \/ Fork \/ ForkFails
  BY <1>2 DEF InitSem, GetSeg, Fork, ForkFails, Drained
<1>3. CASE Kill \/ WaitPid \/ IpcRemove
  BY <1>3 DEF Kill, WaitPid, IpcRemove, Drained, Working
<1>4. CASE Producer
  <2>1. CASE ~drain
    BY <1>4, <2>1 DEF Producer, ReadChar, ReadEnds, ProducerPEmpty, ProducerPMutex, ProducerPut,
       ProducerVMutex, ProducerVFull, ProducerP0, Drained
  <2>2. CASE drain
    BY <1>4, <2>2 DEF Producer, ReadChar, ReadEnds, ProducerPEmpty, ProducerPMutex, ProducerPut,
       ProducerVMutex, ProducerVFull, ProducerP0, Drained
  <2> QED BY <2>1, <2>2
<1>5. CASE ConsumerPFull
  BY <1>5 DEF ConsumerPFull, Drained, Working
<1>6. CASE ConsumerPMutex \/ ConsumerGet \/ ConsumerVMutex \/ ConsumerVEmpty \/ ConsumerPrint
           \/ ConsumerKilled
  BY <1>6 DEF ConsumerPMutex, ConsumerGet, ConsumerVMutex, ConsumerVEmpty, ConsumerPrint,
     ConsumerKilled, Drained, Working
<1> QED BY <1>1, <1>2, <1>3, <1>4, <1>5, <1>6 DEF Next, Main, Consumer

(* At first the ring holds BUFSIZE NULs, and nothing has been printed.     *)
LEMMA FlowStart == ASSUME Init PROVE Ring /\ Shown /\ Drained
<1>1. /\ put = 0 /\ got = 0 /\ in = 0 /\ out = 0 /\ printed = <<>> /\ pcP = "initsem"
      /\ pcC = "pFull" /\ buffer = [s \in Slot |-> NUL]
  BY DEF Init
<1>2. BUFSIZE \in Nat /\ BUFSIZE >= 1 /\ Len(Input) \in Nat
  BY SizeAssumption, CharAssumption
<1>3. ASSUME NEW k \in Slot PROVE k % BUFSIZE = k
  <2>1. k \in Nat /\ k = BUFSIZE * 0 + k
    BY <1>2 DEF Slot
  <2> QED BY <2>1, Remainder
<1>4. 0 \in Slot
  BY <1>2 DEF Slot
<1>5. \A k \in 0..(BUFSIZE - 1) : buffer[k % BUFSIZE] = Source[k]
  <2> SUFFICES ASSUME NEW k \in 0..(BUFSIZE - 1) PROVE buffer[k % BUFSIZE] = Source[k]
    OBVIOUS
  <2>1. k \in Slot /\ k < BUFSIZE /\ k \in 0..(BUFSIZE + Len(Input) - 1)
    BY <1>2 DEF Slot
  <2> QED BY <1>1, <1>3, <2>1 DEF Source
<1>6. got..(put + BUFSIZE - 1) = 0..(BUFSIZE - 1)
  BY <1>1, <1>2
<1>7. Ring
  BY <1>1, <1>2, <1>3, <1>4, <1>5, <1>6 DEF Ring
<1>8. Shown
  <2>1. ~InHand /\ Len(printed) = 0 /\ got = 0
    BY <1>1 DEF InHand
  <2>2. Len(printed) = got - One(InHand)
    <3>1. One(InHand) = 0
      BY <1>1 DEF One, InHand
    <3> QED BY <2>1, <3>1
  <2>3. \A j \in 1..Len(printed) : printed[j] = Stream[j]
    BY <2>1
  <2> QED BY <2>1, <2>2, <2>3 DEF Shown
<1>9. Drained
  BY <1>1 DEF Drained
<1> QED BY <1>7, <1>8, <1>9

(* The invariant with the characters in it.                                *)
THEOREM Flowing == Spec => []Flow
<1>1. Init => Ring /\ Shown /\ Drained
  BY FlowStart
<1>2. Inv /\ Inv' /\ (Ring /\ Shown /\ Drained) /\ [Next]_vars
         => (Ring /\ Shown /\ Drained)'
  BY RingKept, ShownKept, DrainedKept
<1> QED BY <1>1, <1>2, Invariance, PTL DEF Spec, Flow

(* What is printed is BUFSIZE NULs and the input in upper case, in order,  *)
(* exactly as far as the child has got, without the one it has in hand.    *)
THEOREM InOrder == Spec => []Output
<1>1. Flow => Output
  <2> SUFFICES ASSUME Flow PROVE Output
    OBVIOUS
  <2>1. /\ put \in Nat /\ got \in Nat /\ BUFSIZE \in Nat /\ Len(Input) \in Nat
        /\ got <= put + BUFSIZE /\ put <= Len(Input)
    BY Numbers DEF Flow, Ring
  <2>2. printed \in Seq(Char) /\ Len(printed) \in Nat /\ Len(printed) <= got
    BY <2>1 DEF Flow, Inv, TypeOK, Shown, One
  <2>3. Len(printed) <= BUFSIZE + Len(Input)
    BY <2>1, <2>2
  <2>4. Stream \in Seq(Char) /\ Len(Stream) = BUFSIZE + Len(Input)
    <3>1. ASSUME NEW j \in 1..(BUFSIZE + Len(Input)), ~(j <= BUFSIZE) PROVE Upper[Input[j - BUFSIZE]] \in Char
      <4>1. j - BUFSIZE \in 1..Len(Input)
        BY <2>1, <3>1
      <4>2. Input[j - BUFSIZE] \in Char
        BY <4>1, CharAssumption DEF Char
      <4> QED BY <4>2, CharAssumption DEF Char
    <3>2. NUL \in Char
      BY NulAssumption DEF Char
    <3>3. Stream \in [1..(BUFSIZE + Len(Input)) -> Char]
      BY <3>1, <3>2 DEF Stream
    <3> QED BY <2>1, <3>3
  <2>5. SubSeq(Stream, 1, Len(printed)) = [j \in 1..Len(printed) |-> Stream[j]]
    BY <2>2, <2>3, <2>4
  <2>6. printed = [j \in 1..Len(printed) |-> printed[j]]
    BY <2>2
  <2>7. \A j \in 1..Len(printed) : printed[j] = Stream[j]
    BY DEF Flow, Shown
  <2>8. Len(printed) = got - One(InHand)
    BY DEF Flow, Shown
  <2> QED BY <2>5, <2>6, <2>7, <2>8 DEF Output
<1> QED BY <1>1, Flowing, PTL

(* When the parent of prodconsumer2.c has waited, the child has got all    *)
(* but the character, if any, whose token it took last.                    *)
THEOREM LastOneOnly == Spec => []AtMostOneLeft
<1>1. Flow => AtMostOneLeft
  <2> SUFFICES ASSUME Flow, drain, Working, pcP \in {"kill", "waitpid", "ipcremove"}
               PROVE  got = BUFSIZE + put - One(pcC \in {"pMutex", "get"})
    BY DEF AtMostOneLeft
  <2>1. put \in Nat /\ got \in Nat /\ BUFSIZE \in Nat
    BY Numbers DEF Flow
  <2>2. full = 0
    BY DEF Flow, Drained
  <2>3. full = BUFSIZE + put - got - One(pcC \in {"pMutex", "get"}) - One(pcP \in {"vMutex", "vFull"})
    BY DEF Flow, Inv, Balance
  <2>4. One(pcP \in {"vMutex", "vFull"}) = 0
    BY DEF One
  <2> QED BY <2>1, <2>2, <2>3, <2>4 DEF One
<1> QED BY <1>1, Flowing, PTL

(* The two programs implement the abstract queue: a put appends, a get     *)
(* takes the first, nothing else changes it.                               *)
Queue == [j \in 1..(put + BUFSIZE - got) |-> buffer[(got + j - 1) % BUFSIZE]]

(* The queue is a sequence of the characters put and not yet got.          *)
LEMMA QueueType ==
    ASSUME Inv
    PROVE  Queue \in Seq(Char) /\ Len(Queue) = put + BUFSIZE - got /\ put + BUFSIZE - got \in Nat
<1>1. put \in Nat /\ got \in Nat /\ BUFSIZE \in Nat /\ got <= put + BUFSIZE
  BY Numbers
<1>2. put + BUFSIZE - got \in Nat
  BY <1>1
<1>3. ASSUME NEW j \in 1..(put + BUFSIZE - got) PROVE buffer[(got + j - 1) % BUFSIZE] \in Char
  <2>1. got + j - 1 \in Nat
    BY <1>1
  <2> QED BY <2>1, Division DEF Inv, TypeOK
<1>4. Queue \in [1..(put + BUFSIZE - got) -> Char]
  BY <1>3 DEF Queue
<1> QED BY <1>2, <1>4

(* A function on 1..n is the sequence with the same elements.              *)
LEMMA SameSeq ==
    ASSUME NEW S, NEW n \in Nat, NEW f \in [1..n -> S], NEW s \in Seq(S), Len(s) = n,
           \A j \in 1..n : f[j] = s[j]
    PROVE  f = s
<1>1. f \in Seq(S) /\ Len(f) = n
  OBVIOUS
<1> QED BY <1>1, SeqEqual

(* Every step of the programs appends, takes the first, or leaves the      *)
(* queue alone.                                                            *)
LEMMA QueueStep ==
    ASSUME Inv, Inv', Ring, [Next]_vars
    PROVE  \/ Queue' = Queue
           \/ Queue # <<>> /\ Queue' = Tail(Queue)
           \/ \E c \in Char : Len(Queue) < BUFSIZE /\ Queue' = Append(Queue, c)
<1> USE DEF setup, semvars, parentvars, childvars
<1>1. /\ put \in Nat /\ got \in Nat /\ BUFSIZE \in Nat /\ BUFSIZE >= 1
      /\ put <= got /\ got <= put + BUFSIZE
  BY Numbers
<1>2. Queue \in Seq(Char) /\ Len(Queue) = put + BUFSIZE - got /\ put + BUFSIZE - got \in Nat
  BY QueueType
<1>3. ASSUME UNCHANGED <<put, got, buffer>> PROVE Queue' = Queue
  BY <1>3 DEF Queue
<1>4. CASE UNCHANGED vars
  BY <1>3, <1>4 DEF vars
<1>5. CASE Main
  BY <1>3, <1>5 DEF Main, InitSem, GetSeg, Fork, ForkFails, Kill, WaitPid, IpcRemove
<1>6. CASE ReadChar \/ ReadEnds \/ ProducerPEmpty \/ ProducerPMutex \/ ProducerVMutex \/ ProducerVFull
           \/ ProducerP0
  BY <1>3, <1>6 DEF ReadChar, ReadEnds, ProducerPEmpty, ProducerPMutex, ProducerVMutex, ProducerVFull,
     ProducerP0
<1>7. CASE ConsumerPFull \/ ConsumerPMutex \/ ConsumerVMutex \/ ConsumerVEmpty \/ ConsumerPrint
           \/ ConsumerKilled
  BY <1>3, <1>7 DEF ConsumerPFull, ConsumerPMutex, ConsumerVMutex, ConsumerVEmpty, ConsumerPrint,
     ConsumerKilled
<1>8. CASE ProducerPut
  <2>1. CASE attached
    <3>1. /\ pcP = "put" /\ buffer' = [buffer EXCEPT ![in] = nextp] /\ put' = put + 1 /\ got' = got
      BY <1>8, <2>1 DEF ProducerPut
    <3>2. put < got /\ nextp \in Char /\ buffer \in [Slot -> Char] /\ in \in Slot
      BY <3>1, Numbers DEF Inv, TypeOK
    <3>3. in = (put + BUFSIZE) % BUFSIZE
      BY <1>1, Lap DEF Ring
    <3> DEFINE n == put + BUFSIZE - got
    <3>4. ASSUME NEW j \in 1..n PROVE buffer'[(got + j - 1) % BUFSIZE] = Queue[j]
      <4>1. got + j - 1 \in Nat /\ put + BUFSIZE \in Nat /\ got + j - 1 < put + BUFSIZE
            /\ put + BUFSIZE < got + j - 1 + BUFSIZE
        BY <1>1, <3>2
      <4>2. (got + j - 1) % BUFSIZE # in
        BY <3>3, <4>1, Apart
      <4>3. (got + j - 1) % BUFSIZE \in Slot
        BY <4>1, Division
      <4> QED BY <3>1, <3>2, <4>2, <4>3 DEF Queue
    <3>5. buffer'[(got + (n + 1) - 1) % BUFSIZE] = nextp
      <4>1. got + (n + 1) - 1 = put + BUFSIZE
        BY <1>1
      <4> QED BY <3>1, <3>2, <3>3, <4>1
    <3>6. Queue' = [j \in 1..(n + 1) |-> buffer'[(got + j - 1) % BUFSIZE]]
      <4>1. put' + BUFSIZE - got' = n + 1
        BY <1>1, <3>1
      <4> QED BY <3>1, <4>1 DEF Queue
    <3>7. /\ Append(Queue, nextp) \in Seq(Char) /\ Len(Append(Queue, nextp)) = n + 1
          /\ \A j \in 1..n : Append(Queue, nextp)[j] = Queue[j] /\ Queue[j] \in Char
          /\ Append(Queue, nextp)[n + 1] = nextp
      BY <1>2, <3>2, AppendProperties
    <3>8. n + 1 \in Nat /\ \A j \in 1..(n + 1) : j = n + 1 \/ j \in 1..n
      BY <1>2
    <3>9. Queue' = Append(Queue, nextp)
      <4> HIDE DEF n
      <4>1. Queue' \in [1..(n + 1) -> Char]
        BY <3>2, <3>4, <3>5, <3>6, <3>7, <3>8
      <4>2. \A j \in 1..(n + 1) : Queue'[j] = Append(Queue, nextp)[j]
        BY <3>4, <3>5, <3>6, <3>7, <3>8
      <4> QED BY <3>7, <3>8, <4>1, <4>2, SameSeq
    <3>10. Len(Queue) < BUFSIZE
      BY <1>1, <1>2, <3>2
    <3> QED BY <3>2, <3>9, <3>10
  <2>2. CASE ~attached
    BY <1>3, <1>8, <2>2 DEF ProducerPut
  <2> QED BY <2>1, <2>2
<1>9. CASE ConsumerGet
  <2>1. CASE attached
    <3>1. pcC = "get" /\ buffer' = buffer /\ put' = put /\ got' = got + 1
      BY <1>9, <2>1 DEF ConsumerGet
    <3>2. got < put + BUFSIZE
      BY <3>1, Numbers
    <3> DEFINE n == put + BUFSIZE - got
    <3>3. n \in Nat /\ n >= 1 /\ Len(Queue) = n /\ Queue # <<>>
      BY <1>1, <1>2, <3>2
    <3>4. Queue' = [j \in 1..(n - 1) |-> buffer[(got + 1 + j - 1) % BUFSIZE]]
      <4>1. put' + BUFSIZE - got' = n - 1
        BY <1>1, <3>1
      <4> QED BY <3>1, <4>1 DEF Queue
    <3>5. ASSUME NEW j \in 1..(n - 1) PROVE buffer[(got + 1 + j - 1) % BUFSIZE] = Queue[j + 1]
      <4>1. j + 1 \in 1..n /\ got + 1 + j - 1 = got + (j + 1) - 1
        BY <1>1, <3>3
      <4> QED BY <4>1 DEF Queue
    <3>6. /\ Tail(Queue) \in Seq(Char) /\ Len(Tail(Queue)) = n - 1 /\ n - 1 \in Nat
          /\ \A j \in 1..(n - 1) : Tail(Queue)[j] = Queue[j + 1]
      BY <1>2, <3>3, HeadTailProperties
    <3>7. Queue' = Tail(Queue)
      <4>1. \A j \in 1..(n - 1) : Queue'[j] = Tail(Queue)[j]
        BY <3>4, <3>5, <3>6
      <4>2. \A j \in 1..(n - 1) : Queue[j + 1] \in Char
        <5>1. \A j \in 1..(n - 1) : j + 1 \in 1..Len(Queue)
          BY <3>3
        <5> QED BY <1>2, <5>1
      <4> HIDE DEF n
      <4>3. Queue' \in [1..(n - 1) -> Char]
        BY <3>4, <3>5, <4>2
      <4> QED BY <3>6, <4>1, <4>3, SameSeq
    <3> QED BY <3>3, <3>7
  <2>2. CASE ~attached
    BY <1>3, <1>9, <2>2 DEF ConsumerGet
  <2> QED BY <2>1, <2>2
<1> QED BY <1>4, <1>5, <1>6, <1>7, <1>8, <1>9 DEF Next, Producer, Consumer

(* producer() and consumer() implement the abstract queue, which starts    *)
(* full of NULs.                                                           *)
THEOREM ImplementsLine == Spec => LineSpec
<1>1. Init => Line!Init
  <2> SUFFICES ASSUME Init PROVE Line!Init
    OBVIOUS
  <2>1. /\ put = 0 /\ got = 0 /\ buffer = [s \in Slot |-> NUL] /\ BUFSIZE \in Nat /\ BUFSIZE >= 1
    BY SizeAssumption DEF Init
  <2>2. put + BUFSIZE - got = BUFSIZE
    BY <2>1
  <2>3. \A j \in 1..BUFSIZE : buffer[(got + j - 1) % BUFSIZE] = NUL
    <3> SUFFICES ASSUME NEW j \in 1..BUFSIZE PROVE buffer[(got + j - 1) % BUFSIZE] = NUL
      OBVIOUS
    <3>1. got + j - 1 \in Nat
      BY <2>1
    <3> QED BY <2>1, <3>1, Division
  <2> QED BY <2>2, <2>3 DEF Line!Init
<1>2. Inv /\ Inv' /\ Ring /\ [Next]_vars => [Line!Next]_Queue
  BY QueueStep DEF Line!Next, Line!Get, Line!Put, Queue, Char
<1>3. Spec => []Inv /\ []Ring
  BY Invariance, Flowing, PTL DEF Flow
<1> QED BY <1>1, <1>2, <1>3, PTL DEF Spec, LineSpec, Line!Spec, Queue

=============================================================================
