-------------------------- MODULE StackBufferProofs -------------------------
(***************************************************************************)
(* Theorems about StackBuffer: any number of consumers, a work area of any *)
(* size, ints of any width.                                                *)
(***************************************************************************)
EXTENDS StackBuffer, FiniteSetTheorems, TLAPS

(* Ints in bytes.                                                          *)
LEMMA Times ==
    ASSUME NEW x \in Nat, NEW y \in Nat
    PROVE  /\ x * WORD \in Nat /\ (x + 1) * WORD = x * WORD + WORD
           /\ x <= y => x * WORD <= y * WORD
           /\ x >= 1 => x * WORD >= WORD
<1>1. WORD \in Nat /\ WORD >= 1
  BY SizeAssumption
<1>2. x * WORD \in Nat
  BY <1>1
<1>3. (x + 1) * WORD = x * WORD + WORD
  BY <1>1
<1>4. ASSUME x <= y PROVE x * WORD <= y * WORD
  BY <1>1, <1>4
<1>5. ASSUME x >= 1 PROVE x * WORD >= WORD
  BY <1>1, <1>5
<1> QED BY <1>2, <1>3, <1>4, <1>5

(* How many ints the work area holds.                                      *)
LEMMA Ints ==
    /\ BUFFERSIZE \div WORD \in Nat /\ BUFFERSIZE \div WORD >= 2
    /\ \A x \in Nat : x <= BUFFERSIZE \div WORD <=> x * WORD <= BUFFERSIZE
    /\ Index \subseteq Nat /\ Size \subseteq Nat /\ 0 \in Index /\ Byte \subseteq Nat /\ 0 \in Byte
<1> DEFINE d == BUFFERSIZE \div WORD
<1>1. WORD \in Nat /\ WORD >= 1 /\ BUFFERSIZE \in Nat /\ BUFFERSIZE >= 2 * WORD
  BY SizeAssumption
<1>2. d \in Int /\ d * WORD <= BUFFERSIZE /\ BUFFERSIZE < d * WORD + WORD
  BY <1>1, SMTT(30)
<1> HIDE DEF d
<1>3. d >= 2
  BY <1>1, <1>2, SMTT(30)
<1>4. \A x \in Nat : x <= d => x * WORD <= BUFFERSIZE
  BY <1>1, <1>2, <1>3, SMTT(30)
<1>5. \A x \in Nat : x * WORD <= BUFFERSIZE => x <= d
  BY <1>1, <1>2, <1>3, SMTT(30)
<1>6. Index = 0..(d - 1) /\ Size = 1..(d - 1)
  BY DEF d, Index, Size
<1>7. Index \subseteq Nat /\ Size \subseteq Nat /\ 0 \in Index
  BY <1>2, <1>3, <1>6
<1>8. Byte \subseteq Nat /\ 0 \in Byte
  BY <1>1 DEF Byte
<1> QED BY <1>2, <1>3, <1>4, <1>5, <1>7, <1>8 DEF d

(* The first bytes of the work area.                                       *)
LEMMA FirstBytes == ASSUME NEW k \in Nat PROVE Cardinality(0..(k - 1)) = k
BY FS_Interval

(* A piece of memory in the hands of a consumer, byte by byte.             *)
LEMMA Piece ==
    ASSUME NEW c, NEW k \in Nat
    PROVE  IsFiniteSet({c} \X (1..k)) /\ Cardinality({c} \X (1..k)) = k
<1>1. IsFiniteSet({c}) /\ Cardinality({c}) = 1
  BY FS_Singleton
<1>2. IsFiniteSet(1..k) /\ Cardinality(1..k) = k
  BY FS_Interval
<1>3. IsFiniteSet({c} \X (1..k)) /\ Cardinality({c} \X (1..k)) = Cardinality({c}) * Cardinality(1..k)
  BY <1>1, <1>2, FS_Product
<1> QED BY <1>1, <1>2, <1>3

-----------------------------------------------------------------------------
(* Consumers at some control points, and how many of them a move makes.    *)
InArea == {"copy", "unlock"}
Counting == {"lock", "copy"}
Holding == {"unlock", "space"}

(* The consumers at a point are finitely many, before a step and after it. *)
LEMMA AtFinite ==
    ASSUME NEW X
    PROVE  /\ IsFiniteSet(At(X)) /\ Cardinality(At(X)) \in Nat
           /\ IsFiniteSet(At(X)') /\ Cardinality(At(X)') \in Nat
BY ConsumerAssumption, FS_Subset, FS_CardinalityType DEF At

(* A consumer who moves into a set of points, out of it, or within.        *)
LEMMA Counted ==
    ASSUME TypeOK, NEW c \in Consumer, NEW from, NEW to, Moves(c, from, to), NEW X
    PROVE  /\ from \notin X /\ to \in X => Cardinality(At(X)') = Cardinality(At(X)) + 1
           /\ from \in X /\ to \notin X => Cardinality(At(X)') = Cardinality(At(X)) - 1
           /\ (from \in X <=> to \in X) => At(X)' = At(X)
<1>1. pcC[c] = from /\ pcC'[c] = to /\ \A d \in Consumer : d # c => pcC'[d] = pcC[d]
  BY DEF Moves, TypeOK
<1>2. ASSUME from \notin X, to \in X PROVE Cardinality(At(X)') = Cardinality(At(X)) + 1
  <2>1. At(X)' = At(X) \cup {c} /\ c \notin At(X)
    BY <1>1, <1>2 DEF At
  <2> QED BY <2>1, AtFinite, FS_AddElement
<1>3. ASSUME from \in X, to \notin X PROVE Cardinality(At(X)') = Cardinality(At(X)) - 1
  <2>1. At(X)' = At(X) \ {c} /\ c \in At(X)
    BY <1>1, <1>3 DEF At
  <2> QED BY <2>1, AtFinite, FS_RemoveElement
<1>4. ASSUME from \in X <=> to \in X PROVE At(X)' = At(X)
  BY <1>1, <1>4 DEF At
<1> QED BY <1>2, <1>3, <1>4

(* Two consumers at a point are at least two.                              *)
LEMMA TwoAt ==
    ASSUME NEW X, NEW c \in At(X), NEW d \in At(X), c # d
    PROVE  Cardinality(At(X)) >= 2
<1>1. IsFiniteSet({c, d}) /\ Cardinality({c, d}) = 2
  <2>1. IsFiniteSet({c}) /\ Cardinality({c}) = 1 /\ {c, d} = {c} \cup {d} /\ d \notin {c}
    BY FS_Singleton
  <2> QED BY <2>1, FS_AddElement
<1>2. {c, d} \subseteq At(X)
  OBVIOUS
<1> QED BY <1>1, <1>2, AtFinite, FS_Subset

(* What the consumers hold is finite, before a step and after it.          *)
LEMMA InHandFinite ==
    /\ IsFiniteSet(InHand) /\ Cardinality(InHand) \in Nat
    /\ IsFiniteSet(InHand') /\ Cardinality(InHand') \in Nat
<1>1. IsFiniteSet(Consumer \X (1..BUFFERSIZE))
  <2>1. IsFiniteSet(1..BUFFERSIZE)
    BY SizeAssumption, FS_Interval
  <2> QED BY <2>1, ConsumerAssumption, FS_Product
<1> QED BY <1>1, FS_Subset, FS_CardinalityType DEF InHand

(* The bytes in use are those before the first free one.                   *)
LEMMA UsedCounted ==
    ASSUME TypeOK, Layout
    PROVE  /\ CurPos \in Nat /\ Cardinality(Used) = CurPos
           /\ last >= 0 => CurPos >= (last + 1) * WORD
<1>1. last \in Int /\ (last >= 0 => last \in Index /\ last \in Stack /\ ptrs[last] \in Nat /\ sizes[last] \in Nat)
  <2>1. last \in Int /\ (last >= 0 => last \in Index)
    BY Ints DEF TypeOK
  <2>2. last \in Index => ptrs[last] \in Nat /\ sizes[last] \in Nat
    BY Ints DEF TypeOK
  <2> QED BY <2>1, <2>2 DEF Stack
<1>2. CurPos \in Nat
  <2>1. CASE last < 0
    BY <2>1 DEF CurPos
  <2>2. CASE last >= 0
    <3>1. ptrs[last] \in Nat /\ sizes[last] * WORD \in Nat
      BY <1>1, <2>2, Times
    <3> QED BY <1>1, <2>2, <3>1 DEF CurPos
  <2> QED BY <1>1, <2>1, <2>2
<1>3. Cardinality(Used) = CurPos
  <2>1. Used = 0..(CurPos - 1)
    BY DEF Layout
  <2> QED BY <1>2, <2>1, FS_Interval
<1>4. ASSUME last >= 0 PROVE CurPos >= (last + 1) * WORD
  <2>1. CurPos = ptrs[last] + sizes[last] * WORD /\ ptrs[last] >= last * WORD /\ sizes[last] >= 1
    BY <1>1, <1>4 DEF Layout, CurPos
  <2>2. sizes[last] * WORD >= WORD /\ (last + 1) * WORD = last * WORD + WORD
    BY <1>1, <1>4, <2>1, Times
  <2>3. last * WORD \in Nat /\ sizes[last] * WORD \in Nat /\ WORD \in Nat
    BY <1>1, <1>4, Times, SizeAssumption
  <2> QED BY <1>1, <1>4, <2>1, <2>2, <2>3
<1> QED BY <1>2, <1>3, <1>4

-----------------------------------------------------------------------------
(* The state before a step, in words a step uses.                          *)
LEMMA Parts ==
    ASSUME Inv
    PROVE  /\ TypeOK /\ SpaceAccounted /\ ItemsAccounted /\ OneInArea /\ StackIntact
           /\ Points /\ LockAccounted /\ Layout /\ Numbering
           /\ \A X : Cardinality(At(X)) \in Nat
           /\ Cardinality(InHand) \in Nat /\ Cardinality(Used) = CurPos /\ CurPos \in Nat
           /\ size * WORD \in Nat /\ \A c \in Consumer : item[c].size * WORD \in Nat
<1>1. TypeOK /\ Layout
  BY DEF Inv, WorkAreaIntact
<1>2. size \in Nat /\ \A c \in Consumer : item[c].size \in Nat
  BY <1>1, Ints DEF TypeOK
<1>3. size * WORD \in Nat /\ \A c \in Consumer : item[c].size * WORD \in Nat
  BY <1>2, Times
<1> QED BY <1>1, <1>3, AtFinite, InHandFinite, UsedCounted DEF Inv, WorkAreaIntact

(* A step that leaves the shared memory and the copies alone.              *)
LEMMA Quiet ==
    ASSUME Inv, UNCHANGED <<shm, item>>, Stored' = Stored
    PROVE  /\ StackIntact' /\ Layout' /\ Numbering' /\ Used' = Used
           /\ UNCHANGED <<a, ptrs, sizes, last, item>>
<1>1. UNCHANGED <<a, ptrs, sizes, last, item>>
  BY DEF shm
<1>2. Stack' = Stack /\ Used' = Used /\ CurPos' = CurPos
  BY <1>1 DEF Stack, Used, CurPos, Bytes
<1>3. StackIntact'
  BY <1>1, <1>2, Parts DEF StackIntact, Bytes
<1>4. Layout'
  BY <1>1, <1>2, Parts DEF Layout
<1>5. Numbering'
  BY <1>1, <1>2, Parts DEF Numbering
<1> QED BY <1>1, <1>2, <1>3, <1>4, <1>5

(* Nobody is at a point before the consumers run, nor after a fork().      *)
LEMMA ForkInv == ASSUME Inv, Fork PROVE Inv'
<1>1. /\ TypeOK /\ Points /\ pcP = "fork" /\ UNCHANGED <<sems, removed, shm, n, size, item, sigint, taken>>
      /\ pcP' \in {"next", "end"} /\ ~removed
      /\ pcC' \in [Consumer -> {"items", "gone"}] /\ \A c \in Consumer : pcC[c] = "none"
  BY Parts DEF Fork, Points
<1>2. Stored' = Stored
  BY <1>1 DEF Stored, Owed
<1>3. StackIntact' /\ Layout' /\ Numbering' /\ Used' = Used /\ UNCHANGED <<a, ptrs, sizes, last, item>>
  BY <1>1, <1>2, Quiet
<1>4. \A X : X \subseteq {"lock", "copy", "unlock", "space"} => At(X) = {} /\ At(X)' = {}
  BY <1>1 DEF At
<1>5. InHand' = InHand
  BY <1>1, <1>4 DEF InHand
<1>6. TypeOK'
  BY <1>1, <1>3 DEF TypeOK, sems
<1>7. SpaceAccounted' /\ ItemsAccounted' /\ OneInArea' /\ LockAccounted'
  BY <1>1, <1>3, <1>4, <1>5, Parts DEF SpaceAccounted, ItemsAccounted, OneInArea, LockAccounted, Owed, sems
<1>8. Points'
  BY <1>1, <1>3 DEF Points
<1> QED BY <1>3, <1>6, <1>7, <1>8 DEF Inv, WorkAreaIntact

(* Every step of the producer that stores nothing.                         *)
LEMMA ProducerQuiet ==
    ASSUME Inv, \/ NextItem \/ TakeSpace \/ ProducerLock \/ ProducerUnlock \/ PostItem
                \/ ProducerDone \/ RemoveIpc \/ KillGroup
    PROVE  Inv'
<1>1. UNCHANGED <<shm, pcC, item, taken>> /\ Stored' = Stored
  BY Parts DEF NextItem, TakeSpace, ProducerLock, ProducerUnlock, PostItem, ProducerDone,
               RemoveIpc, KillGroup, Stored, Owed, TypeOK
<1>2. StackIntact' /\ Layout' /\ Numbering' /\ Used' = Used /\ UNCHANGED <<a, ptrs, sizes, last, item>>
  BY <1>1, Quiet
<1>3. /\ \A X : At(X)' = At(X)
      /\ InHand' = InHand
  BY <1>1, <1>2 DEF At, InHand
<1>4. TypeOK' /\ Points'
  <2>1. TypeOK /\ Points /\ size * WORD \in Nat
    BY Parts
  <2> USE <2>1, <1>1, <1>2 DEF TypeOK, Points, sems
  <2>2. CASE NextItem
    BY <2>2 DEF NextItem
  <2>3. CASE TakeSpace
    BY <2>3 DEF TakeSpace
  <2>4. CASE ProducerLock
    BY <2>4 DEF ProducerLock
  <2>5. CASE ProducerUnlock
    BY <2>5, SizeAssumption DEF ProducerUnlock
  <2>6. CASE PostItem
    BY <2>6 DEF PostItem
  <2>7. CASE ProducerDone
    BY <2>7 DEF ProducerDone
  <2>8. CASE RemoveIpc
    BY <2>8 DEF RemoveIpc
  <2>9. CASE KillGroup
    BY <2>9 DEF KillGroup
  <2> QED BY <2>2, <2>3, <2>4, <2>5, <2>6, <2>7, <2>8, <2>9
<1>5. SpaceAccounted'
  BY <1>1, <1>2, <1>3, Parts
     DEF NextItem, TakeSpace, ProducerLock, ProducerUnlock, PostItem, ProducerDone, RemoveIpc, KillGroup, TypeOK, SpaceAccounted, Owed, sems
<1>6. ItemsAccounted'
  BY <1>1, <1>2, <1>3, Parts
     DEF NextItem, TakeSpace, ProducerLock, ProducerUnlock, PostItem, ProducerDone, RemoveIpc, KillGroup, TypeOK, ItemsAccounted, Owed, sems
<1>7. OneInArea' /\ LockAccounted'
  BY <1>1, <1>2, <1>3, Parts
     DEF NextItem, TakeSpace, ProducerLock, ProducerUnlock, PostItem, ProducerDone, RemoveIpc, KillGroup, TypeOK, OneInArea, LockAccounted, Points, Owed, sems
<1> QED BY <1>2, <1>4, <1>5, <1>6, <1>7 DEF Inv, WorkAreaIntact

(* The producer stores an item above the others: there is room for it in   *)
(* the work area, and no consumer is inside.                               *)
LEMMA PushRoom ==
    ASSUME Inv, Push
    PROVE  /\ last + 1 \in Index /\ CurPos + size * WORD <= BUFFERSIZE /\ CurPos \in Byte
           /\ (last + 1) * WORD <= CurPos /\ size \in Size /\ size * WORD >= WORD
           /\ n \in 0..(NPUT - 1) /\ ~removed /\ \A c \in Consumer : pcC[c] \notin InArea
<1>1. TypeOK /\ Points /\ Layout /\ pcP = "copy"
  BY Parts DEF Push
<1>2. size \in Size /\ n \in 0..(NPUT - 1) /\ ~removed
  BY <1>1, SizeAssumption DEF Points, TypeOK
<1>3. CurPos + size * WORD <= BUFFERSIZE
  BY <1>1, <1>2, Parts, SizeAssumption DEF SpaceAccounted, Owed, TypeOK
<1>4. size \in Nat /\ size >= 1 /\ size * WORD \in Nat /\ size * WORD >= WORD /\ WORD \in Nat /\ WORD >= 1 /\ CurPos \in Nat
  <2>1. size \in Nat /\ size >= 1
    BY <1>2, Ints DEF Size
  <2> QED BY <2>1, Times, Parts, SizeAssumption
<1>5. CurPos \in Byte
  BY <1>3, <1>4, SizeAssumption DEF Byte
<1>6. last + 1 \in Nat /\ (last + 1) * WORD <= CurPos
  <2>1. last \in Int /\ last >= -1
    BY <1>1, Ints DEF TypeOK
  <2>2. CASE last >= 0
    BY <1>1, <2>1, <2>2, UsedCounted
  <2>3. CASE last = -1
    BY <1>4, <2>3
  <2> QED BY <2>1, <2>2, <2>3
<1>7. last + 1 \in Index
  <2>1. (last + 1 + 1) * WORD = (last + 1) * WORD + WORD /\ (last + 1) * WORD \in Nat
    BY <1>6, Times
  <2>2. (last + 1 + 1) * WORD <= BUFFERSIZE
    BY <1>3, <1>4, <1>6, <2>1, SizeAssumption
  <2>3. last + 1 + 1 <= BUFFERSIZE \div WORD
    BY <1>6, <2>2, Ints
  <2> QED BY <1>6, <2>3, Ints DEF Index
<1>8. \A c \in Consumer : pcC[c] \notin InArea
  <2>1. Cardinality(At(InArea)) = 0
    BY <1>1, Parts DEF OneInArea, Owed, InArea
  <2>2. At(InArea) = {}
    BY <2>1, AtFinite, FS_EmptySet
  <2> QED BY <2>2 DEF At
<1> QED BY <1>2, <1>3, <1>4, <1>5, <1>6, <1>7, <1>8

(* The stack after that: the new item on top, the others as they were.     *)
LEMMA PushStack ==
    ASSUME Inv, Push
    PROVE  /\ Stack' = Stack \cup {last + 1} /\ last + 1 \notin Stack /\ last + 1 \in Stack'
           /\ ptrs'[last + 1] = CurPos /\ sizes'[last + 1] = size
           /\ \A j \in Stack : /\ ptrs'[j] = ptrs[j] /\ sizes'[j] = sizes[j]
                               /\ ptrs[j] + sizes[j] * WORD <= CurPos /\ j < last + 1
                               /\ ptrs[j] \in Nat /\ sizes[j] * WORD \in Nat /\ sizes[j] * WORD >= WORD
           /\ \A b \in Bytes(CurPos, size) : b \in Byte /\ a'[b] = n
           /\ \A b \in Byte : b < CurPos => a'[b] = a[b]
           /\ CurPos' = CurPos + size * WORD
<1>1. /\ TypeOK /\ Layout /\ last + 1 \in Index /\ CurPos + size * WORD <= BUFFERSIZE
      /\ CurPos \in Nat /\ size * WORD \in Nat /\ last \in Int /\ Index \subseteq Nat
  <2>1. TypeOK /\ Layout /\ last + 1 \in Index /\ CurPos + size * WORD <= BUFFERSIZE
    BY PushRoom, Parts
  <2>2. CurPos \in Nat /\ size * WORD \in Nat
    BY Parts
  <2>3. last \in Int /\ Index \subseteq Nat
    BY <2>1, Ints DEF TypeOK
  <2> QED BY <2>1, <2>2, <2>3
<1>2. Stack' = Stack \cup {last + 1} /\ last + 1 \notin Stack /\ last + 1 \in Stack'
  <2>1. last' = last + 1
    BY DEF Push
  <2> QED BY <1>1, <2>1, Ints DEF Stack, Index
<1>3. ptrs'[last + 1] = CurPos /\ sizes'[last + 1] = size /\ last' = last + 1
  BY <1>1 DEF Push, TypeOK
<1>4. \A j \in Stack : ptrs'[j] = ptrs[j] /\ sizes'[j] = sizes[j] /\ j < last + 1
  BY <1>1 DEF Push, TypeOK, Stack
<1>5. ASSUME NEW j \in Stack
      PROVE  /\ ptrs[j] + sizes[j] * WORD <= CurPos
             /\ ptrs[j] \in Nat /\ sizes[j] * WORD \in Nat /\ sizes[j] * WORD >= WORD
  <2>1. j \in Index /\ j \in Nat /\ j <= last /\ last \in Index /\ last \in Stack
    BY <1>1, Ints DEF Stack, TypeOK
  <2>2. ptrs[j] \in Nat /\ sizes[j] \in Nat /\ sizes[j] >= 1 /\ ptrs[last] \in Nat /\ sizes[last] \in Nat
    BY <1>1, <2>1, Ints DEF TypeOK, Layout
  <2>3. sizes[j] * WORD \in Nat /\ sizes[j] * WORD >= WORD /\ sizes[last] * WORD \in Nat
    BY <2>2, Times
  <2>4. CurPos = ptrs[last] + sizes[last] * WORD
    BY <2>1 DEF CurPos
  <2>5. CASE j = last
    BY <2>2, <2>3, <2>4, <2>5
  <2>6. CASE j < last
    <3>1. ptrs[j] + sizes[j] * WORD <= ptrs[last]
      BY <1>1, <2>1, <2>6 DEF Layout
    <3> QED BY <2>2, <2>3, <2>4, <3>1
  <2> QED BY <1>1, <2>1, <2>2, <2>3, <2>5, <2>6
<1>6. \A b \in Bytes(CurPos, size) : b \in Byte /\ a'[b] = n
  <2>1. \A b \in Bytes(CurPos, size) : b \in Byte
    BY <1>1, SizeAssumption DEF Bytes, Byte
  <2> QED BY <2>1 DEF Push
<1>7. \A b \in Byte : b < CurPos => a'[b] = a[b]
  BY <1>1 DEF Push, Bytes, Byte
<1>8. CurPos' = CurPos + size * WORD
  BY <1>1, <1>3 DEF CurPos
<1> QED BY <1>2, <1>3, <1>4, <1>5, <1>6, <1>7, <1>8

(* The bytes in use after that are the bytes before and the new item's.    *)
LEMMA PushUsed == ASSUME Inv, Push PROVE Used' = 0..(CurPos' - 1)
<1>1. Used = 0..(CurPos - 1) /\ CurPos \in Nat /\ size * WORD \in Nat
  BY Parts DEF Layout
<1>2. Used' = Used \cup Bytes(CurPos, size)
  <2>1. Used' = UNION {Bytes(ptrs'[j], sizes'[j]) : j \in Stack'}
    BY DEF Used
  <2>2. ASSUME NEW b PROVE b \in Used' <=> b \in Used \/ b \in Bytes(CurPos, size)
    BY <2>1, PushStack DEF Used
  <2> QED BY <2>2
<1>3. CurPos' = CurPos + size * WORD
  BY PushStack
<1> QED BY <1>1, <1>2, <1>3 DEF Bytes

(* A store is complete before LOCK is given back.                          *)
LEMMA PushInv == ASSUME Inv, Push PROVE Inv'
<1>1. /\ TypeOK /\ Points /\ Layout /\ StackIntact /\ Numbering
      /\ pcP = "copy" /\ pcP' = "unlock" /\ last' = last + 1
      /\ UNCHANGED <<LOCK, NITEMS, FREESPACE, removed, n, size, pcC, item, sigint, taken>>
  BY Parts DEF Push, sems
<1>2. /\ last + 1 \in Index /\ CurPos + size * WORD <= BUFFERSIZE /\ CurPos \in Byte
      /\ (last + 1) * WORD <= CurPos /\ size \in Size /\ size * WORD >= WORD
      /\ n \in 0..(NPUT - 1) /\ ~removed /\ \A c \in Consumer : pcC[c] \notin InArea
  BY PushRoom
<1>3. CurPos \in Nat /\ size * WORD \in Nat /\ size \in Nat /\ size >= 1 /\ n \in Nat /\ last \in Int /\ WORD \in Nat /\ WORD >= 1
  <2>1. CurPos \in Nat /\ size * WORD \in Nat /\ size \in Nat /\ size >= 1
    BY <1>2, Parts, Ints DEF Size
  <2> QED BY <1>1, <1>2, <2>1, SizeAssumption, Ints DEF TypeOK
<1>4. /\ \A X : At(X)' = At(X)
      /\ InHand' = InHand
  BY <1>1 DEF At, InHand
<1>5. TypeOK'
  <2>1. ptrs' \in [Index -> Byte] /\ sizes' \in [Index -> Size \cup {0}]
    BY <1>1, <1>2 DEF Push, TypeOK
  <2>2. a' \in [Byte -> -1..NPUT]
    <3>1. n \in -1..NPUT
      BY <1>2, SizeAssumption
    <3> QED BY <1>1, <3>1 DEF Push, TypeOK
  <2> QED BY <1>1, <1>2, <2>1, <2>2 DEF TypeOK
<1>6. Used' = 0..(CurPos' - 1) /\ CurPos' = CurPos + size * WORD
  BY PushUsed, PushStack
<1>7. SpaceAccounted' /\ ItemsAccounted' /\ OneInArea' /\ LockAccounted'
  <2>1. Cardinality(Used') = CurPos + size * WORD
    <3>1. CurPos' \in Nat
      BY <1>3, <1>6
    <3> QED BY <1>6, <3>1, FirstBytes
  <2>2. Cardinality(Used) = CurPos
    BY Parts
  <2>3. SpaceAccounted'
    BY <1>1, <1>3, <1>4, <2>1, <2>2, Parts DEF SpaceAccounted, Owed, TypeOK
  <2>4. ItemsAccounted'
    BY <1>1, <1>3, <1>4, Parts DEF ItemsAccounted, Owed, TypeOK
  <2>5. OneInArea' /\ LockAccounted'
    BY <1>1, <1>4, Parts DEF OneInArea, LockAccounted, Owed, TypeOK
  <2> QED BY <2>3, <2>4, <2>5
<1>8. Points'
  BY <1>1, <1>2 DEF Points, InArea
<1>9. StackIntact'
  <2>1. ASSUME NEW j \in Stack'
        PROVE  /\ ptrs'[j] = IF j = 0 THEN 0 ELSE ptrs'[j - 1] + sizes'[j - 1] * WORD
               /\ ptrs'[j] + sizes'[j] * WORD <= BUFFERSIZE
               /\ \A b \in Bytes(ptrs'[j], sizes'[j]) : a'[b] = a'[ptrs'[j]]
    <3>1. CASE j \in Stack
      <4>1. ptrs'[j] = IF j = 0 THEN 0 ELSE ptrs'[j - 1] + sizes'[j - 1] * WORD
        <5>1. CASE j = 0
          BY <1>1, <3>1, <5>1, PushStack DEF StackIntact
        <5>2. CASE j # 0
          <6>1. j - 1 \in Stack
            BY <1>1, <1>3, <3>1, <5>2, Ints DEF Stack, Index
          <6> QED BY <1>1, <3>1, <5>2, <6>1, PushStack DEF StackIntact
        <5> QED BY <5>1, <5>2
      <4>2. /\ ptrs'[j] = ptrs[j] /\ sizes'[j] = sizes[j] /\ ptrs[j] \in Nat /\ sizes[j] * WORD \in Nat
            /\ sizes[j] * WORD >= WORD /\ ptrs[j] + sizes[j] * WORD <= CurPos
        BY <3>1, PushStack
      <4>3. \A b \in Bytes(ptrs[j], sizes[j]) : b \in Byte /\ b < CurPos
        BY <1>2, <1>3, <4>2, SizeAssumption DEF Bytes, Byte
      <4>4. ptrs[j] \in Bytes(ptrs[j], sizes[j])
        BY <1>3, <4>2 DEF Bytes
      <4>5. \A b \in Bytes(ptrs[j], sizes[j]) : a'[b] = a[b] /\ a[b] = a[ptrs[j]]
        BY <1>1, <3>1, <4>3, PushStack DEF StackIntact
      <4>6. ptrs[j] + sizes[j] * WORD <= BUFFERSIZE
        BY <1>1, <3>1 DEF StackIntact
      <4> QED BY <4>1, <4>2, <4>4, <4>5, <4>6
    <3>2. CASE j = last + 1
      <4>1. ptrs'[j] = CurPos /\ sizes'[j] = size /\ \A b \in Bytes(CurPos, size) : a'[b] = n
        BY <3>2, PushStack
      <4>2. CurPos \in Bytes(CurPos, size)
        BY <1>3, <1>2 DEF Bytes
      <4>3. CurPos = IF j = 0 THEN 0 ELSE ptrs'[j - 1] + sizes'[j - 1] * WORD
        <5>1. CASE last = -1
          BY <3>2, <5>1 DEF CurPos
        <5>2. CASE last >= 0
          <6>1. last \in Stack /\ j - 1 = last /\ j # 0
            BY <1>1, <1>3, <3>2, <5>2 DEF Stack, TypeOK
          <6> QED BY <1>3, <5>2, <6>1, PushStack DEF CurPos
        <5> QED BY <1>1, <1>3, <5>1, <5>2, Ints DEF TypeOK
      <4> QED BY <1>2, <4>1, <4>2, <4>3
    <3> QED BY <3>1, <3>2, PushStack
  <2> QED BY <1>1, <2>1 DEF StackIntact
<1>10. Layout'
  <2>1. ASSUME NEW j \in Stack' PROVE sizes'[j] >= 1 /\ ptrs'[j] >= j * WORD
    <3>1. CASE j \in Stack
      BY <1>1, <3>1, PushStack DEF Layout
    <3>2. CASE j = last + 1
      BY <1>2, <1>3, <3>2, PushStack
    <3> QED BY <3>1, <3>2, PushStack
  <2>2. ASSUME NEW j \in Stack', NEW k \in Stack', j < k PROVE ptrs'[j] + sizes'[j] * WORD <= ptrs'[k]
    <3>1. CASE k \in Stack
      <4>1. j \in Stack
        BY <1>3, <2>2, <3>1, PushStack, Ints DEF Stack
      <4> QED BY <1>1, <2>2, <3>1, <4>1, PushStack DEF Layout
    <3>2. CASE k = last + 1
      <4>1. j \in Stack
        BY <1>3, <2>2, <3>2, PushStack, Ints DEF Stack
      <4> QED BY <3>2, <4>1, PushStack
    <3> QED BY <3>1, <3>2, PushStack
  <2> QED BY <1>6, <2>1, <2>2 DEF Layout
<1>11. Numbering'
  <2>1. Stored = n /\ Stored' = n + 1
    BY <1>1, <1>3 DEF Stored, Owed
  <2>2. \A j \in Stack : a'[ptrs'[j]] = a[ptrs[j]] /\ a[ptrs[j]] \in 0..(n - 1)
    <3> SUFFICES ASSUME NEW j \in Stack PROVE a'[ptrs'[j]] = a[ptrs[j]] /\ a[ptrs[j]] \in 0..(n - 1)
      OBVIOUS
    <3>1. ptrs'[j] = ptrs[j] /\ ptrs[j] \in Nat /\ ptrs[j] < CurPos
      BY <1>3, PushStack
    <3>2. ptrs[j] \in Byte
      BY <1>2, <1>3, <3>1, SizeAssumption DEF Byte
    <3> QED BY <1>1, <2>1, <3>1, <3>2, PushStack DEF Numbering
  <2>3. a'[ptrs'[last + 1]] = n
    <3>1. CurPos \in Bytes(CurPos, size)
      BY <1>3, <1>2 DEF Bytes
    <3> QED BY <3>1, PushStack
  <2>4. \A j \in Stack' : a'[ptrs'[j]] \in 0..(Stored' - 1)
    BY <1>3, <2>1, <2>2, <2>3, PushStack
  <2>5. \A j, k \in Stack' : a'[ptrs'[j]] = a'[ptrs'[k]] => j = k
    BY <1>1, <1>3, <2>2, <2>3, PushStack DEF Numbering
  <2> QED BY <2>4, <2>5 DEF Numbering
<1> QED BY <1>5, <1>7, <1>8, <1>9, <1>10, <1>11 DEF Inv, WorkAreaIntact

-----------------------------------------------------------------------------
(* The consumers' steps that leave the stack and the copies alone.         *)
LEMMA ConsumerQuiet ==
    ASSUME Inv, NEW c \in Consumer, WaitItem(c) \/ ConsumerLock(c) \/ ConsumerUnlock(c)
    PROVE  Inv'
<1>1. /\ TypeOK /\ Points /\ ~removed
      /\ UNCHANGED <<FREESPACE, removed, shm, pcP, n, size, item, sigint, taken>>
      /\ Stored' = Stored
  BY Parts DEF WaitItem, ConsumerLock, ConsumerUnlock, Stored
<1>2. StackIntact' /\ Layout' /\ Numbering' /\ Used' = Used /\ UNCHANGED <<a, ptrs, sizes, last, item>>
  BY <1>1, Quiet
<1>3. PICK from \in {"items", "lock", "unlock"}, to \in {"lock", "copy", "space"} :
         /\ Moves(c, from, to)
         /\ from = "items" => to = "lock" /\ WaitItem(c)
         /\ from = "lock" => to = "copy" /\ ConsumerLock(c)
         /\ from = "unlock" => to = "space" /\ ConsumerUnlock(c)
  BY DEF WaitItem, ConsumerLock, ConsumerUnlock, Moves
<1>4. /\ from = "items" => NITEMS > 0 /\ NITEMS' = NITEMS - 1 /\ LOCK' = LOCK
      /\ from = "lock" => LOCK > 0 /\ LOCK' = LOCK - 1 /\ NITEMS' = NITEMS
      /\ from = "unlock" => LOCK' = LOCK + 1 /\ NITEMS' = NITEMS
  BY <1>3 DEF WaitItem, ConsumerLock, ConsumerUnlock
<1>5. pcC[c] = from /\ pcC'[c] = to /\ \A d \in Consumer : d # c => pcC'[d] = pcC[d]
  BY <1>1, <1>3 DEF Moves, TypeOK
<1>6. /\ from = "items" => Cardinality(At(Counting)') = Cardinality(At(Counting)) + 1 /\ At(InArea)' = At(InArea)
      /\ from = "lock" => Cardinality(At(InArea)') = Cardinality(At(InArea)) + 1 /\ At(Counting)' = At(Counting)
      /\ from = "unlock" => Cardinality(At(InArea)') = Cardinality(At(InArea)) - 1 /\ At(Counting)' = At(Counting)
      /\ At(Holding)' = At(Holding)
  BY <1>1, <1>3, Counted DEF Counting, InArea, Holding
<1>7. /\ Cardinality(At(Counting)) \in Nat /\ Cardinality(At(InArea)) \in Nat
      /\ LOCK \in Nat /\ NITEMS \in Nat /\ last \in Int
  BY <1>1, AtFinite, Ints DEF TypeOK
<1>8. InHand' = InHand
  BY <1>1, <1>2, <1>6 DEF InHand, Holding
<1>9. TypeOK'
  <2>1. LOCK' \in Nat /\ NITEMS' \in Nat
    BY <1>3, <1>4, <1>7
  <2>2. pcC' \in [Consumer -> {"none", "items", "lock", "copy", "unlock", "space", "gone"}]
    BY <1>1, <1>3 DEF TypeOK, Moves
  <2> QED BY <1>1, <1>2, <2>1, <2>2 DEF TypeOK
<1>10. SpaceAccounted'
  BY <1>1, <1>2, <1>8, Parts DEF SpaceAccounted, Owed
<1>11. ItemsAccounted'
  BY <1>1, <1>2, <1>3, <1>4, <1>6, <1>7, Parts DEF ItemsAccounted, Owed, Counting
<1>12. OneInArea' /\ LockAccounted'
  BY <1>1, <1>3, <1>4, <1>6, <1>7, Parts DEF OneInArea, LockAccounted, Owed, InArea
<1>13. Points'
  <2>1. pcP # "fork"
    BY <1>1, <1>3, <1>5 DEF Points
  <2>2. ASSUME NEW d \in Consumer, pcC'[d] = "copy" PROVE last >= 0
    <3>1. CASE d # c
      BY <1>1, <1>5, <2>2, <3>1 DEF Points
    <3>2. CASE d = c
      <4>1. from = "lock" /\ c \in At(Counting)
        BY <1>3, <1>5, <2>2, <3>2 DEF At, Counting
      <4>2. Cardinality(At(Counting)) # 0
        BY <4>1, AtFinite, FS_EmptySet
      <4>3. last + 1 = NITEMS + Cardinality(At(Counting)) + Owed(pcP \in {"unlock", "items"}, 1)
        BY <1>1, Parts DEF ItemsAccounted, Counting
      <4> QED BY <1>7, <4>2, <4>3 DEF Owed
    <3> QED BY <3>1, <3>2
  <2> QED BY <1>1, <1>2, <2>1, <2>2 DEF Points
<1> QED BY <1>2, <1>9, <1>10, <1>11, <1>12, <1>13 DEF Inv, WorkAreaIntact

(* A consumer gives back as much as it copied out.                         *)
LEMMA GiveSpaceInv == ASSUME Inv, NEW c \in Consumer, GiveSpace(c) PROVE Inv'
<1>1. /\ TypeOK /\ Points /\ ~removed /\ Moves(c, "space", "items")
      /\ FREESPACE' = FREESPACE + item[c].size * WORD
      /\ UNCHANGED <<LOCK, NITEMS, removed, shm, pcP, n, size, item, sigint, taken>>
      /\ Stored' = Stored
  BY Parts DEF GiveSpace, Stored
<1>2. StackIntact' /\ Layout' /\ Numbering' /\ Used' = Used /\ UNCHANGED <<a, ptrs, sizes, last, item>>
  BY <1>1, Quiet
<1>3. pcC[c] = "space" /\ pcC'[c] = "items" /\ \A d \in Consumer : d # c => pcC'[d] = pcC[d]
  BY <1>1 DEF Moves, TypeOK
<1>4. At(Counting)' = At(Counting) /\ At(InArea)' = At(InArea)
  BY <1>1, Counted DEF Counting, InArea
<1> DEFINE k == item[c].size * WORD
<1>5. k \in Nat /\ k <= BUFFERSIZE /\ FREESPACE \in Nat
  <2>1. item[c].size \in Nat /\ item[c].size <= BUFFERSIZE \div WORD
    <3>1. item[c].size \in Size \cup {0}
      BY <1>1 DEF TypeOK
    <3> QED BY <3>1, Ints DEF Size
  <2> QED BY <1>1, <2>1, Ints, Times DEF TypeOK
<1>6. InHand = InHand' \cup ({c} \X (1..k)) /\ InHand' \cap ({c} \X (1..k)) = {}
  <2>1. \A p : p \in InHand <=> /\ p \in Consumer \X (1..BUFFERSIZE)
                               /\ pcC[p[1]] \in Holding /\ p[2] <= item[p[1]].size * WORD
    BY DEF InHand, At, Holding
  <2>2. \A p : p \in InHand' <=> /\ p \in Consumer \X (1..BUFFERSIZE)
                                /\ pcC'[p[1]] \in Holding /\ p[2] <= item[p[1]].size * WORD
    BY <1>2 DEF InHand, At, Holding
  <2>3. \A p : p \in {c} \X (1..k) <=> p \in Consumer \X (1..BUFFERSIZE) /\ p[1] = c /\ p[2] <= k
    BY <1>5, SizeAssumption
  <2> QED BY <1>3, <2>1, <2>2, <2>3 DEF Holding
<1>7. Cardinality(InHand) = Cardinality(InHand') + k
  <2>1. IsFiniteSet({c} \X (1..k)) /\ Cardinality({c} \X (1..k)) = k
    BY <1>5, Piece
  <2>2. Cardinality(InHand' \cup ({c} \X (1..k))) = Cardinality(InHand') + k - Cardinality({})
    BY <1>6, <2>1, InHandFinite, FS_Union
  <2> QED BY <1>5, <1>6, <2>2, InHandFinite, FS_EmptySet
<1>8. TypeOK'
  BY <1>1, <1>2, <1>5 DEF TypeOK, Moves
<1>9. SpaceAccounted'
  BY <1>1, <1>2, <1>5, <1>7, InHandFinite, Parts DEF SpaceAccounted, Owed
<1>10. ItemsAccounted'
  BY <1>1, <1>2, <1>4, Parts DEF ItemsAccounted, Counting
<1>11. OneInArea' /\ LockAccounted'
  BY <1>1, <1>4, Parts DEF OneInArea, LockAccounted, InArea
<1>12. Points'
  BY <1>1, <1>2, <1>3 DEF Points
<1> QED BY <1>2, <1>8, <1>9, <1>10, <1>11, <1>12 DEF Inv, WorkAreaIntact

(* A consumer ends only when the semaphores are gone.                      *)
LEMMA ConsumerEndsInv == ASSUME Inv, NEW c \in Consumer, ConsumerEnds(c) PROVE Inv'
<1>1. /\ TypeOK /\ Points /\ Moves(c, pcC[c], "gone") /\ removed
      /\ sigint' = [sigint EXCEPT ![c] = FALSE]
      /\ UNCHANGED <<sems, removed, shm, pcP, n, size, item, taken>>
      /\ Stored' = Stored
  BY Parts DEF ConsumerEnds, Stored, Points, Moves
<1>2. StackIntact' /\ Layout' /\ Numbering' /\ Used' = Used /\ UNCHANGED <<a, ptrs, sizes, last, item>>
  BY <1>1, Quiet
<1>3. pcC'[c] = "gone" /\ \A d \in Consumer : d # c => pcC'[d] = pcC[d]
  BY <1>1 DEF Moves, TypeOK
<1>4. Cardinality(At(InArea)') <= Cardinality(At(InArea))
  <2>1. At(InArea)' \subseteq At(InArea)
    BY <1>3 DEF At, InArea
  <2> QED BY <2>1, AtFinite, FS_Subset
<1>5. TypeOK'
  BY <1>1, <1>2 DEF TypeOK, Moves, sems
<1>6. OneInArea'
  BY <1>1, <1>4, AtFinite, Parts DEF OneInArea, Owed, InArea
<1>7. SpaceAccounted' /\ ItemsAccounted' /\ LockAccounted'
  BY <1>1 DEF SpaceAccounted, ItemsAccounted, LockAccounted
<1>8. Points'
  BY <1>1, <1>2, <1>3 DEF Points, TypeOK
<1> QED BY <1>2, <1>5, <1>6, <1>7, <1>8 DEF Inv, WorkAreaIntact

(* A consumer copies the top of the stack: it is alone there, and there is *)
(* a top.                                                                  *)
LEMMA PopTop ==
    ASSUME Inv, NEW c \in Consumer, Pop(c)
    PROVE  /\ last \in Stack /\ Stack' = Stack \ {last} /\ last' = last - 1 /\ last \in Nat
           /\ ptrs[last] \in Nat /\ ptrs[last] \in Byte /\ sizes[last] \in Size
           /\ sizes[last] * WORD \in Nat /\ sizes[last] * WORD <= BUFFERSIZE
           /\ CurPos = ptrs[last] + sizes[last] * WORD /\ CurPos' = ptrs[last]
           /\ \A d \in Consumer : d # c => pcC[d] \notin InArea
           /\ pcP \notin {"fork", "copy", "unlock"}
           /\ \A b \in Bytes(ptrs[last], sizes[last]) : a[b] = a[ptrs[last]]
<1>1. /\ TypeOK /\ Points /\ Layout /\ StackIntact /\ OneInArea /\ pcC[c] = "copy" /\ last' = last - 1
      /\ UNCHANGED <<a, ptrs, sizes, pcP>>
  BY Parts DEF Pop, Moves
<1>2. last >= 0 /\ pcP # "fork"
  BY <1>1 DEF Points
<1>3. last \in Index /\ last \in Nat
  BY <1>1, <1>2, Ints DEF TypeOK
<1>4. last \in Stack /\ Stack' = Stack \ {last}
  BY <1>1, <1>3, Ints DEF Stack, Index
<1>5. sizes[last] \in Size /\ sizes[last] \in Nat /\ sizes[last] <= BUFFERSIZE \div WORD
  <2>1. sizes[last] \in Size \cup {0} /\ sizes[last] >= 1
    BY <1>1, <1>3, <1>4 DEF TypeOK, Layout
  <2> QED BY <2>1, Ints DEF Size
<1>6. sizes[last] * WORD \in Nat /\ sizes[last] * WORD <= BUFFERSIZE
  BY <1>5, Times, Ints
<1>7. ptrs[last] \in Byte /\ ptrs[last] \in Nat
  BY <1>1, <1>3, Ints DEF TypeOK
<1>8. CurPos = ptrs[last] + sizes[last] * WORD
  BY <1>3 DEF CurPos
<1>9. CurPos' = ptrs[last]
  <2>1. CASE last = 0
    BY <1>1, <1>4, <2>1 DEF CurPos, StackIntact
  <2>2. CASE last > 0
    BY <1>1, <1>3, <1>4, <2>2 DEF CurPos, StackIntact
  <2> QED BY <1>3, <2>1, <2>2
<1>10. \A d \in Consumer : d # c => pcC[d] \notin InArea
  <2> SUFFICES ASSUME NEW d \in Consumer, d # c, pcC[d] \in InArea PROVE FALSE
    OBVIOUS
  <2>1. c \in At(InArea) /\ d \in At(InArea)
    BY <1>1 DEF At, InArea
  <2>2. Cardinality(At(InArea)) >= 2
    BY <2>1, TwoAt
  <2> QED BY <1>1, <2>2, AtFinite DEF OneInArea, Owed, InArea
<1>11. pcP \notin {"copy", "unlock"}
  <2>1. c \in At(InArea)
    BY <1>1 DEF At, InArea
  <2>2. Cardinality(At(InArea)) # 0
    BY <2>1, AtFinite, FS_EmptySet
  <2> QED BY <1>1, <2>2, AtFinite DEF OneInArea, Owed, InArea
<1>12. \A b \in Bytes(ptrs[last], sizes[last]) : a[b] = a[ptrs[last]]
  BY <1>1, <1>4 DEF StackIntact
<1> QED BY <1>1, <1>2, <1>3, <1>4, <1>5, <1>6, <1>7, <1>8, <1>9, <1>10, <1>11, <1>12

(* The copy is in the consumer's hands, no longer in the stack.            *)
LEMMA PopInv == ASSUME Inv, NEW c \in Consumer, Pop(c) PROVE Inv'
<1> DEFINE k == sizes[last] * WORD
           num == a[ptrs[last]]
<1>1. /\ TypeOK /\ Points /\ Layout /\ StackIntact /\ Numbering /\ Moves(c, "copy", "unlock")
      /\ UNCHANGED <<LOCK, NITEMS, FREESPACE, removed, a, ptrs, sizes, pcP, n, size, sigint>>
      /\ item' = [item EXCEPT ![c] =
              [n |-> num, size |-> sizes[last], whole |-> \A b \in Bytes(ptrs[last], sizes[last]) : a[b] = num]]
      /\ taken' = taken \cup {num}
      /\ Stored' = Stored
  BY Parts DEF Pop, sems, Stored
<1>2. /\ last \in Stack /\ Stack' = Stack \ {last} /\ last' = last - 1 /\ last \in Nat
      /\ ptrs[last] \in Nat /\ ptrs[last] \in Byte /\ sizes[last] \in Size
      /\ k \in Nat /\ k <= BUFFERSIZE /\ CurPos = ptrs[last] + k /\ CurPos' = ptrs[last]
      /\ \A d \in Consumer : d # c => pcC[d] \notin InArea
      /\ pcP \notin {"fork", "copy", "unlock"}
      /\ \A b \in Bytes(ptrs[last], sizes[last]) : a[b] = num
  BY PopTop
<1>3. pcC[c] = "copy" /\ pcC'[c] = "unlock" /\ \A d \in Consumer : d # c => pcC'[d] = pcC[d]
  BY <1>1 DEF Moves, TypeOK
<1>4. /\ item'[c].size = sizes[last] /\ item'[c].whole /\ \A d \in Consumer : d # c => item'[d] = item[d]
  BY <1>1, <1>2 DEF TypeOK
<1>5. num \in 0..NPUT
  BY <1>1, <1>2, SizeAssumption DEF Numbering, Stored, Owed, TypeOK
<1>6. TypeOK'
  <2>1. last' \in Index \cup {-1}
    BY <1>1, <1>2, Ints DEF TypeOK, Index
  <2>2. item' \in [Consumer -> [n : -1..NPUT, size : Size \cup {0}, whole : BOOLEAN]]
    <3>1. num \in -1..NPUT
      BY <1>5, SizeAssumption
    <3> QED BY <1>1, <1>2, <3>1 DEF TypeOK
  <2>3. pcC' \in [Consumer -> {"none", "items", "lock", "copy", "unlock", "space", "gone"}]
    BY <1>1 DEF TypeOK, Moves
  <2>4. taken' \subseteq 0..NPUT
    BY <1>1, <1>5 DEF TypeOK
  <2> QED BY <1>1, <2>1, <2>2, <2>3, <2>4 DEF TypeOK
<1>7. Used' = 0..(CurPos' - 1)
  <2>1. Used = 0..(CurPos - 1)
    BY <1>1 DEF Layout
  <2>2. Used' = UNION {Bytes(ptrs[j], sizes[j]) : j \in Stack'}
    BY <1>1 DEF Used
  <2>3. ASSUME NEW b \in Used' PROVE b \in 0..(CurPos' - 1)
    <3>1. PICK j \in Stack : j # last /\ b \in Bytes(ptrs[j], sizes[j])
      BY <1>2, <2>2
    <3>2. b \in Used
      BY <3>1 DEF Used
    <3>3. j < last /\ ptrs[j] + sizes[j] * WORD <= ptrs[last]
      <4>1. j <= last /\ j \in Nat
        BY <1>2, Ints DEF Stack
      <4> QED BY <1>1, <1>2, <3>1, <4>1 DEF Layout
    <3>4. ptrs[j] \in Nat /\ sizes[j] * WORD \in Nat
      <4>1. ptrs[j] \in Nat /\ sizes[j] \in Nat
        BY <1>1, Ints DEF TypeOK, Stack
      <4> QED BY <4>1, Times
    <3> QED BY <1>2, <2>1, <3>1, <3>2, <3>3, <3>4 DEF Bytes
  <2>4. ASSUME NEW b \in 0..(CurPos' - 1) PROVE b \in Used'
    <3>1. b \in Used
      BY <1>2, <2>1
    <3>2. PICK j \in Stack : b \in Bytes(ptrs[j], sizes[j])
      BY <3>1 DEF Used
    <3>3. j # last
      BY <1>2, <3>2 DEF Bytes
    <3> QED BY <1>2, <2>2, <3>2, <3>3
  <2> QED BY <2>3, <2>4
<1>8. Layout'
  BY <1>1, <1>2, <1>7 DEF Layout
<1>9. Cardinality(InHand') = Cardinality(InHand) + k
  <2>1. InHand' = InHand \cup ({c} \X (1..k)) /\ InHand \cap ({c} \X (1..k)) = {}
    <3>1. \A p : p \in InHand <=> /\ p \in Consumer \X (1..BUFFERSIZE)
                                 /\ pcC[p[1]] \in Holding /\ p[2] <= item[p[1]].size * WORD
      BY DEF InHand, At, Holding
    <3>2. \A p : p \in InHand' <=> /\ p \in Consumer \X (1..BUFFERSIZE)
                                  /\ pcC'[p[1]] \in Holding /\ p[2] <= item'[p[1]].size * WORD
      BY DEF InHand, At, Holding
    <3>3. \A p : p \in {c} \X (1..k) <=> p \in Consumer \X (1..BUFFERSIZE) /\ p[1] = c /\ p[2] <= k
      BY <1>2, SizeAssumption
    <3> QED BY <1>3, <1>4, <3>1, <3>2, <3>3 DEF Holding
  <2>2. IsFiniteSet({c} \X (1..k)) /\ Cardinality({c} \X (1..k)) = k
    BY <1>2, Piece
  <2>3. Cardinality(InHand \cup ({c} \X (1..k))) = Cardinality(InHand) + k - Cardinality({})
    BY <2>1, <2>2, InHandFinite, FS_Union
  <2> QED BY <1>2, <2>1, <2>3, InHandFinite, FS_EmptySet
<1>10. SpaceAccounted'
  <2>1. Cardinality(Used) = CurPos /\ Cardinality(Used') = CurPos'
    BY <1>2, <1>7, Parts, FirstBytes
  <2> HIDE DEF k
  <2> QED BY <1>1, <1>2, <1>9, <2>1, InHandFinite, Parts DEF SpaceAccounted, Owed, TypeOK
<1>11. Cardinality(At(Counting)') = Cardinality(At(Counting)) - 1 /\ At(InArea)' = At(InArea)
  BY <1>1, Counted DEF Counting, InArea
<1>12. ItemsAccounted'
  BY <1>1, <1>2, <1>11, AtFinite, Parts DEF ItemsAccounted, Owed, Counting, TypeOK
<1>13. OneInArea' /\ LockAccounted'
  BY <1>1, <1>11, Parts DEF OneInArea, LockAccounted, InArea
<1>14. StackIntact'
  <2>1. \A d \in Consumer : item'[d].whole
    BY <1>1, <1>4 DEF StackIntact
  <2>2. ASSUME NEW j \in Stack'
        PROVE  /\ ptrs[j] = IF j = 0 THEN 0 ELSE ptrs[j - 1] + sizes[j - 1] * WORD
               /\ ptrs[j] + sizes[j] * WORD <= BUFFERSIZE
               /\ \A b \in Bytes(ptrs[j], sizes[j]) : a[b] = a[ptrs[j]]
    BY <1>1, <1>2 DEF StackIntact
  <2> QED BY <1>1, <2>1, <2>2 DEF StackIntact
<1>15. Numbering'
  BY <1>1, <1>2 DEF Numbering
<1>16. Points'
  BY <1>1, <1>2, <1>3 DEF Points, InArea
<1> QED BY <1>6, <1>8, <1>10, <1>12, <1>13, <1>14, <1>15, <1>16 DEF Inv, WorkAreaIntact

-----------------------------------------------------------------------------
(* Before the fork: all the space is free, and nothing is in the stack.    *)
LEMMA InitEmpty == Init => Stack = {} /\ CurPos = 0
<1> SUFFICES ASSUME Init PROVE Stack = {} /\ CurPos = 0
  OBVIOUS
<1>1. \A j \in Index : j \in Nat
  BY Ints
<1>2. last = -1
  BY DEF Init
<1>3. Stack = {}
  BY <1>1, <1>2 DEF Stack
<1> QED BY <1>2, <1>3 DEF CurPos

(* So the invariant holds.                                                 *)
LEMMA InitInv == Init => Inv
<1> SUFFICES ASSUME Init PROVE Inv
  OBVIOUS
<1>1. /\ WORD \in Nat /\ WORD >= 1 /\ BUFFERSIZE \in Nat /\ NPUT \in Nat
  BY SizeAssumption
<1>2. TypeOK
  <2>1. -1 \in -1..NPUT /\ 0 \in 0..NPUT /\ 0 \in Index /\ 0 \in Byte
    BY <1>1, Ints
  <2>2. /\ a \in [Byte -> -1..NPUT] /\ ptrs \in [Index -> Byte] /\ sizes \in [Index -> Size \cup {0}]
        /\ item \in [Consumer -> [n : -1..NPUT, size : Size \cup {0}, whole : BOOLEAN]]
    BY <2>1 DEF Init, NoItem
  <2>3. LOCK \in Nat /\ NITEMS \in Nat /\ FREESPACE \in Nat /\ n \in 0..NPUT
    BY <1>1, <2>1 DEF Init
  <2> QED BY <2>2, <2>3 DEF Init, TypeOK
<1>3. Stack = {} /\ CurPos = 0 /\ Used = {} /\ 0..(CurPos - 1) = {}
  <2>1. Stack = {} /\ CurPos = 0
    BY InitEmpty
  <2> QED BY <2>1 DEF Used
<1>4. \A X : X \subseteq {"lock", "copy", "unlock", "space"} => At(X) = {}
  BY DEF Init, At
<1>5. InHand = {}
  BY <1>4 DEF InHand
<1>6. Cardinality({}) = 0
  BY FS_EmptySet
<1>7. SpaceAccounted /\ ItemsAccounted /\ OneInArea /\ LockAccounted
  <2>1. At({"copy", "unlock"}) = {} /\ At({"lock", "copy"}) = {}
    BY <1>4
  <2> QED BY <1>1, <1>3, <1>5, <1>6, <2>1 DEF Init, SpaceAccounted, ItemsAccounted, OneInArea, LockAccounted, Owed
<1>8. StackIntact /\ Layout /\ Numbering
  BY <1>3 DEF Init, StackIntact, Layout, Numbering, NoItem
<1>9. Points
  BY DEF Init, Points
<1> QED BY <1>2, <1>7, <1>8, <1>9 DEF Inv, WorkAreaIntact

(* Every step keeps the invariant.                                         *)
LEMMA NextInv == Inv /\ [Next]_vars => Inv'
<1> SUFFICES ASSUME Inv, [Next]_vars PROVE Inv'
  OBVIOUS
<1>1. CASE UNCHANGED vars
  <2>1. UNCHANGED <<shm, item>> /\ Stored' = Stored
    BY <1>1 DEF vars, Stored
  <2>2. StackIntact' /\ Layout' /\ Numbering' /\ Used' = Used /\ UNCHANGED <<a, ptrs, sizes, last, item>>
    BY <2>1, Quiet
  <2>3. InHand' = InHand /\ \A X : At(X)' = At(X)
    BY <1>1, <2>2 DEF vars, InHand, At
  <2>4. TypeOK' /\ Points'
    BY <1>1, <2>2, Parts DEF vars, sems, TypeOK, Points
  <2>5. SpaceAccounted' /\ ItemsAccounted' /\ OneInArea' /\ LockAccounted'
    BY <1>1, <2>2, <2>3, Parts DEF vars, sems, SpaceAccounted, ItemsAccounted, OneInArea, LockAccounted
  <2> QED BY <2>2, <2>4, <2>5 DEF Inv, WorkAreaIntact
<1>2. CASE Producer
  BY <1>2, ForkInv, ProducerQuiet, PushInv DEF Producer
<1>3. ASSUME NEW c \in Consumer, Consume(c) PROVE Inv'
  BY <1>3, ConsumerQuiet, PopInv, GiveSpaceInv, ConsumerEndsInv DEF Consume
<1> QED BY <1>1, <1>2, <1>3 DEF Next

(* The work area under any interleaving of the producer and the consumers. *)
THEOREM Invariance == Spec => []Inv
BY InitInv, NextInv, PTL DEF Spec

(* The three semaphores together protect the work area: every byte is free,*)
(* in one item or in somebody's hands, no store goes where an item lies,   *)
(* and what a consumer copies out is one item, complete.                   *)
THEOREM Intact == Spec => []WorkAreaIntact
<1>1. Inv => WorkAreaIntact
  BY DEF Inv
<1> QED BY <1>1, Invariance, PTL

-----------------------------------------------------------------------------
(* A step that leaves the shared memory alone leaves the pool alone.       *)
LEMMA ContentsStay == ASSUME UNCHANGED <<shm, taken>>, Stored' = Stored PROVE UNCHANGED <<Contents, taken, Stored>>
BY DEF shm, Contents, Stack

(* Push adds the next item to the pool.                                    *)
LEMMA PushAdds == ASSUME Inv, Push PROVE Pool!Add
<1>1. Stored = n /\ Stored' = n + 1 /\ taken' = taken
  BY Parts DEF Push, Stored, Owed, TypeOK
<1>2. \A j \in Stack : a'[ptrs'[j]] = a[ptrs[j]]
  <2> SUFFICES ASSUME NEW j \in Stack PROVE a'[ptrs'[j]] = a[ptrs[j]]
    OBVIOUS
  <2>1. CurPos \in Nat /\ CurPos < BUFFERSIZE /\ WORD \in Nat /\ WORD >= 1
    BY PushRoom, Parts, SizeAssumption DEF Byte
  <2>2. ptrs'[j] = ptrs[j] /\ ptrs[j] \in Nat /\ ptrs[j] < CurPos
    BY <2>1, PushStack
  <2>3. ptrs[j] \in Byte
    BY <2>1, <2>2, SizeAssumption DEF Byte
  <2> QED BY <2>2, <2>3, PushStack
<1>3. a'[ptrs'[last + 1]] = n
  <2>1. size * WORD >= WORD /\ size * WORD \in Nat /\ WORD \in Nat /\ WORD >= 1 /\ CurPos \in Nat
    BY PushRoom, Parts, SizeAssumption
  <2>2. CurPos \in Bytes(CurPos, size)
    BY <2>1 DEF Bytes
  <2> QED BY <2>2, PushStack
<1>4. Contents' = Contents \cup {n}
  BY <1>2, <1>3, PushStack DEF Contents
<1> QED BY <1>1, <1>4 DEF Pool!Add

(* Pop takes the item on top, which is nowhere else in the stack.          *)
LEMMA PopTakes == ASSUME Inv, NEW c \in Consumer, Pop(c) PROVE Pool!Take
<1>1. Numbering /\ last \in Stack /\ Stack' = Stack \ {last}
  BY Parts, PopTop
<1>2. UNCHANGED <<a, ptrs>> /\ taken' = taken \cup {a[ptrs[last]]} /\ Stored' = Stored
  BY DEF Pop, Stored
<1>3. Contents' = Contents \ {a[ptrs[last]]} /\ a[ptrs[last]] \in Contents
  BY <1>1, <1>2 DEF Contents, Numbering
<1> QED BY <1>2, <1>3 DEF Pool!Take

(* Every step of the program is a step of the pool, or changes nothing     *)
(* there.                                                                  *)
LEMMA RefineNext == Inv /\ [Next]_vars => [Pool!Add \/ Pool!Take]_<<Contents, taken, Stored>>
<1> SUFFICES ASSUME Inv, [Next]_vars
             PROVE  Pool!Add \/ Pool!Take \/ UNCHANGED <<Contents, taken, Stored>>
  OBVIOUS
<1>1. CASE UNCHANGED vars
  BY <1>1, ContentsStay DEF vars, Stored
<1>2. CASE Producer
  <2>1. CASE Push
    BY <2>1, PushAdds
  <2>2. CASE ~Push
    <3>1. UNCHANGED <<shm, taken>> /\ Stored' = Stored
      BY <1>2, <2>2, Parts
         DEF Producer, Fork, NextItem, TakeSpace, ProducerLock, ProducerUnlock, PostItem, ProducerDone,
             RemoveIpc, KillGroup, Stored, Owed, TypeOK
    <3> QED BY <3>1, ContentsStay
  <2> QED BY <2>1, <2>2
<1>3. ASSUME NEW c \in Consumer, Consume(c)
      PROVE  Pool!Take \/ UNCHANGED <<Contents, taken, Stored>>
  <2>1. CASE Pop(c)
    BY <2>1, PopTakes
  <2>2. CASE ~Pop(c)
    <3>1. UNCHANGED <<shm, taken>> /\ Stored' = Stored
      BY <1>3, <2>2 DEF Consume, WaitItem, ConsumerLock, ConsumerUnlock, GiveSpace, ConsumerEnds, Stored
    <3> QED BY <3>1, ContentsStay
  <2> QED BY <2>1, <2>2
<1> QED BY <1>1, <1>2, <1>3 DEF Next

(* The stack implements the pool: items enter it in the order of their     *)
(* numbers, each leaves it once, as it was put in, and none leaves it in   *)
(* another way.                                                            *)
THEOREM ImplementsPool == Spec => PoolSpec
<1>1. Init => Pool!Init
  BY InitEmpty DEF Init, Pool!Init, Contents, Stored, Owed
<1> QED BY <1>1, RefineNext, Invariance, PTL DEF Spec, PoolSpec, Pool!Spec

=============================================================================
